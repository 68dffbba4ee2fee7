--------------------------- MODULE MoqLink_proof ----------------------------
(***************************************************************************)
(* Proofs about MoqLink, for every number of connections and every amount  *)
(* of input and faults: the replay window is exact, and what a side hears  *)
(* is a prefix of what the other has sent.                                 *)
(*                                                                         *)
(* First the frames of one direction of a connection (a lane) as data, and *)
(* the arithmetic of the window, whatever the steps; then that every step  *)
(* of the system moves the lanes in one of those ways.                     *)
(***************************************************************************)
EXTENDS MoqLink, Integers, TLAPS

(* The provers in the order in which a leaf tries them. *)
USE Zenon, ZenonT(60), SMTT(60)
-----------------------------------------------------------------------------
(* Messages.  A side numbers its messages from 1, so that what it has sent is
   1, 2, .. n.  The frames from x to the other side are numbered too: a message
   by its own number, the last frame of x's handshake (MSG3, or the server's
   push of a ticket) by 0, what x wrote before it by negative numbers. *)
IsSeq(q) == q \in Seq(Range(q))
Boxed(f) == "box" \in DOMAIN f /\ "text" \in DOMAIN f.box
FrameIs(x, f, m) ==
  /\ "t" \in DOMAIN f
  /\ m < 0 => f.t \notin {"DATA", "MSG3"}
  /\ m = 0 /\ f.t = "DATA" => x = "server" /\ Boxed(f) /\ f.box.text.ticket # <<>>
  /\ m >= 1 => f.t # "MSG3" /\ Boxed(f) /\ f.box.text.ticket = <<>> /\ f.box.text.msg = m
(* What is said of h holds of f too. *)
Inherits(x, h, f) == \A m : FrameIs(x, h, m) => FrameIs(x, f, m)
(* The frames of q, the last of which has number e. *)
Numbered(x, q, e) == \A i \in 1 .. Len(q) : FrameIs(x, q[i], e - (Len(q) - i))

Pre(x) == IF x = "client" THEN {"off", "start", "cookie", "psk", "msg2"} ELSE {"off", "lock", "first", "retry", "msg1", "msg3"}
Tip(x, px, s, o) == IF px \in Pre(x) THEN -1 ELSE IF px = "ticket" THEN 0 ELSE Len(s) - Len(o)

(* The frames from x on their way: W written by x's worker, which the shuttle
   task sends as long as it runs (live), N in the network, I at the other side,
   whose worker is at py and has heard g.  x's worker is at px, has been given s
   to send and still has o of it.  The last frame of each queue: *)
NTip(e, live, W) == IF live THEN e - Len(W) ELSE e
ITip(e, live, W, N) == NTip(e, live, W) - Len(N)
Looping == {"loop", "wait", "recv"}
Lane(x, I, N, live, W, px, py, s, g, o, e) ==
  /\ e <= Len(s)
  /\ live => Numbered(x, W, e)
  /\ Numbered(x, N, NTip(e, live, W))
  /\ Numbered(x, I, ITip(e, live, W, N))
  /\ (live \/ px = "off") /\ px # "done" => e = Tip(x, px, s, o)
  /\ px = "off" => W = <<>>
  /\ py \in Looping => ITip(e, live, W, N) - Len(I) = Len(g)
SomeLane(x, I, N, live, W, px, py, s, g, o) == \E e \in Int : Lane(x, I, N, live, W, px, py, s, g, o, e)

Pcs(x) == Pre(x) \cup {"ticket", "loop", "wait", "recv", "done"}
SideOk(x, v) ==
  /\ v.pc \in Pcs(x) /\ (x = "server" => v.pc # "ticket") /\ v.live \in BOOLEAN
  /\ IsSeq(v.I) /\ IsSeq(v.N) /\ IsSeq(v.W) /\ IsSeq(v.o) /\ IsSeq(v.s) /\ IsSeq(v.g)
  /\ \A i \in 1 .. Len(v.s) : v.s[i] = i
  /\ Len(v.o) <= Len(v.s) /\ \A i \in 1 .. Len(v.o) : v.o[i] = (Len(v.s) - Len(v.o)) + i
  /\ \A i \in 1 .. Len(v.g) : v.g[i] = i
  /\ v.pc \notin {"loop", "wait", "recv", "done"} => v.s = <<>> /\ v.o = <<>> /\ v.g = <<>>
From(x, v, u) == SomeLane(x, u.I, v.N, v.live, v.W, v.pc, u.pc, v.s, u.g, v.o) /\ Len(u.g) <= Len(v.s)
Pair(x, v, u) == SideOk(x, v) /\ SideOk(Other(x), u) /\ From(x, v, u) /\ From(Other(x), u, v)

-----------------------------------------------------------------------------
(* Sequences of anything. *)
LEMMA SeqOf ==
  ASSUME NEW S, NEW q \in Seq(S)
  PROVE  IsSeq(q)
<1>1. \A i \in 1 .. Len(q) : q[i] \in Range(q)
  BY SMTT(60) DEF Range
<1> DEFINE R == Range(q)
<1> HIDE DEF R
<1>2. \A i \in 1 .. Len(q) : q[i] \in R
  BY <1>1 DEF R
<1>3. q \in Seq(R)
  BY SMTT(60), <1>2
<1> QED BY <1>3 DEF IsSeq, R

LEMMA SeqEmpty == IsSeq(<<>>) /\ Len(<<>>) = 0
BY SMTT(60) DEF IsSeq

LEMMA SeqLen ==
  ASSUME NEW q, IsSeq(q)
  PROVE  Len(q) \in Nat /\ DOMAIN q = 1 .. Len(q) /\ (Len(q) = 0 <=> q = <<>>)
<1> DEFINE R == Range(q)
<1> HIDE DEF R
<1>1. q \in Seq(R)
  BY DEF IsSeq, R
<1> QED BY SMTT(60), <1>1

Appended(q, f, r) ==
  /\ IsSeq(r) /\ Len(r) = Len(q) + 1 /\ Len(q) \in Nat
  /\ r[Len(q) + 1] = f /\ \A i \in 1 .. Len(q) : r[i] = q[i]
LEMMA SeqAppend ==
  ASSUME NEW q, IsSeq(q), NEW f
  PROVE  Appended(q, f, Append(q, f))
<1> DEFINE R == Range(q) \cup {f}
<1> HIDE DEF R
<1>1. q \in Seq(R) /\ f \in R
  <2>1. q \in Seq(Range(q)) /\ f \in R /\ \A z \in Range(q) : z \in R
    BY DEF IsSeq, R
  <2> QED BY SMTT(60), <2>1
<1>2. /\ Append(q, f) \in Seq(R) /\ Len(Append(q, f)) = Len(q) + 1 /\ Len(q) \in Nat
      /\ Append(q, f)[Len(q) + 1] = f /\ \A i \in 1 .. Len(q) : Append(q, f)[i] = q[i]
  BY SMTT(60), <1>1
<1> QED BY <1>2, SeqOf DEF Appended

Shortened(q, r) ==
  /\ IsSeq(r) /\ Len(r) = Len(q) - 1 /\ Len(q) \in Nat /\ Len(q) >= 1
  /\ Head(q) = q[1] /\ \A i \in 1 .. Len(q) - 1 : r[i] = q[i + 1]
LEMMA SeqTail ==
  ASSUME NEW q, IsSeq(q), q # <<>>
  PROVE  Shortened(q, Tail(q))
<1> DEFINE R == Range(q)
<1> HIDE DEF R
<1>1. q \in Seq(R)
  BY DEF IsSeq, R
<1>2. /\ Tail(q) \in Seq(R) /\ Len(Tail(q)) = Len(q) - 1 /\ Len(q) \in Nat /\ Len(q) >= 1
      /\ Head(q) = q[1] /\ \A i \in 1 .. Len(q) - 1 : Tail(q)[i] = q[i + 1]
  BY SMTT(60), <1>1
<1> QED BY <1>2, SeqOf DEF Shortened

Joined(q, r, s) ==
  /\ IsSeq(s) /\ Len(s) = Len(q) + Len(r) /\ Len(q) \in Nat /\ Len(r) \in Nat
  /\ \A i \in 1 .. Len(q) : s[i] = q[i]
  /\ \A i \in 1 .. Len(r) : s[Len(q) + i] = r[i]
LEMMA SeqConcat ==
  ASSUME NEW q, IsSeq(q), NEW r, IsSeq(r)
  PROVE  Joined(q, r, q \o r)
<1> DEFINE R == Range(q) \cup Range(r)
<1> HIDE DEF R
<1>1. q \in Seq(R) /\ r \in Seq(R)
  <2>1. q \in Seq(Range(q)) /\ r \in Seq(Range(r)) /\ (\A z \in Range(q) : z \in R) /\ \A z \in Range(r) : z \in R
    BY DEF IsSeq, R
  <2> QED BY SMTT(60), <2>1
<1>2. /\ q \o r \in Seq(R) /\ Len(q \o r) = Len(q) + Len(r) /\ Len(q) \in Nat /\ Len(r) \in Nat
      /\ \A i \in 1 .. Len(q) : (q \o r)[i] = q[i]
      /\ \A i \in 1 .. Len(r) : (q \o r)[Len(q) + i] = r[i]
  BY SMTT(60), <1>1
<1> QED BY <1>2, SeqOf DEF Joined

Replaced(q, f, r) ==
  IsSeq(r) /\ Len(r) = Len(q) /\ Len(q) \in Nat /\ r[1] = f /\ \A i \in 1 .. Len(q) : i # 1 => r[i] = q[i]
LEMMA SeqFirst ==
  ASSUME NEW q, IsSeq(q), q # <<>>, NEW f, NEW r, r = [q EXCEPT ![1] = f]
  PROVE  Replaced(q, f, r)
<1> DEFINE R == Range(q) \cup {f}
<1> HIDE DEF R
<1>1. q \in Seq(R) /\ f \in R
  <2>1. q \in Seq(Range(q)) /\ f \in R /\ \A z \in Range(q) : z \in R
    BY DEF IsSeq, R
  <2> QED BY SMTT(60), <2>1
<1>2. r \in Seq(R) /\ Len(r) = Len(q) /\ Len(q) \in Nat /\ r[1] = f /\ \A i \in 1 .. Len(q) : i # 1 => r[i] = q[i]
  BY SMTT(60), <1>1
<1> QED BY <1>2, SeqOf DEF Replaced

-----------------------------------------------------------------------------
(* Numbered frames. *)
LEMMA NumAppend ==
  ASSUME NEW x, NEW q, IsSeq(q), NEW e \in Int, Numbered(x, q, e), NEW f, FrameIs(x, f, e + 1)
  PROVE  Numbered(x, Append(q, f), e + 1)
<1> DEFINE r == Append(q, f)
           n == Len(q)
<1>0. Appended(q, f, r)
  BY SeqAppend
<1> HIDE DEF r
<1>1. Len(r) = n + 1 /\ n \in Nat /\ r[n + 1] = f /\ \A i \in 1 .. n : r[i] = q[i]
  BY <1>0 DEF Appended
<1>2. ASSUME NEW i \in 1 .. Len(r) PROVE FrameIs(x, r[i], (e + 1) - (Len(r) - i))
  <2>1. CASE i = n + 1
    <3>1. (e + 1) - (Len(r) - i) = e + 1
      BY SMTT(60), <1>1, <2>1
    <3> QED BY <1>1, <2>1, <3>1
  <2>2. CASE i # n + 1
    <3>1. i \in 1 .. n /\ (e + 1) - (Len(r) - i) = e - (n - i)
      BY SMTT(60), <1>1, <2>2
    <3> QED BY <1>1, <3>1 DEF Numbered
  <2> QED BY <2>1, <2>2
<1> QED BY <1>2 DEF Numbered, r

LEMMA NumTail ==
  ASSUME NEW x, NEW q, IsSeq(q), q # <<>>, NEW e \in Int, Numbered(x, q, e)
  PROVE  Numbered(x, Tail(q), e) /\ FrameIs(x, Head(q), (e - Len(q)) + 1)
<1> DEFINE r == Tail(q)
           n == Len(q)
<1>0. Shortened(q, r)
  BY SeqTail
<1> HIDE DEF r
<1>1. Len(r) = n - 1 /\ n \in Nat /\ n >= 1 /\ Head(q) = q[1] /\ \A i \in 1 .. n - 1 : r[i] = q[i + 1]
  BY <1>0 DEF Shortened
<1>2. ASSUME NEW i \in 1 .. Len(r) PROVE FrameIs(x, r[i], e - (Len(r) - i))
  <2>1. i \in 1 .. n - 1 /\ i + 1 \in 1 .. n /\ e - (Len(r) - i) = e - (n - (i + 1))
    BY SMTT(60), <1>1
  <2> QED BY <1>1, <2>1 DEF Numbered
<1>3. FrameIs(x, Head(q), (e - n) + 1)
  <2>1. 1 \in 1 .. n /\ e - (n - 1) = (e - n) + 1
    BY SMTT(60), <1>1
  <2> QED BY <1>1, <2>1 DEF Numbered
<1> QED BY <1>2, <1>3 DEF Numbered, r

LEMMA NumConcat ==
  ASSUME NEW x, NEW q, IsSeq(q), NEW r, IsSeq(r), NEW e \in Int, Numbered(x, q, e - Len(r)), Numbered(x, r, e)
  PROVE  Numbered(x, q \o r, e)
<1> DEFINE s == q \o r
           n == Len(q)
           m == Len(r)
<1>0. Joined(q, r, s)
  BY SeqConcat
<1> HIDE DEF s
<1>1. /\ Len(s) = n + m /\ n \in Nat /\ m \in Nat
      /\ (\A i \in 1 .. n : s[i] = q[i]) /\ \A i \in 1 .. m : s[n + i] = r[i]
  BY <1>0 DEF Joined
<1>2. ASSUME NEW i \in 1 .. Len(s) PROVE FrameIs(x, s[i], e - (Len(s) - i))
  <2>1. CASE i <= n
    <3>1. i \in 1 .. n /\ e - (Len(s) - i) = (e - m) - (n - i)
      BY SMTT(60), <1>1, <2>1
    <3> QED BY <1>1, <3>1 DEF Numbered
  <2>2. CASE ~(i <= n)
    <3>1. i - n \in 1 .. m /\ n + (i - n) = i /\ e - (Len(s) - i) = e - (m - (i - n))
      BY SMTT(60), <1>1, <2>2
    <3> QED BY <1>1, <3>1 DEF Numbered
  <2> QED BY <2>1, <2>2
<1> QED BY <1>2 DEF Numbered, s

LEMMA NumFirst ==
  ASSUME NEW x, NEW q, IsSeq(q), q # <<>>, NEW e \in Int, Numbered(x, q, e),
         NEW f, FrameIs(x, f, (e - Len(q)) + 1), NEW r, Replaced(q, f, r)
  PROVE  Numbered(x, r, e)
<1> DEFINE n == Len(q)
<1>1. Len(r) = n /\ r[1] = f /\ \A i \in 1 .. n : i # 1 => r[i] = q[i]
  BY DEF Replaced
<1>2. n \in Nat
  BY DEF Replaced
<1>3. ASSUME NEW i \in 1 .. Len(r) PROVE FrameIs(x, r[i], e - (Len(r) - i))
  <2>1. CASE i = 1
    <3>1. e - (Len(r) - i) = (e - n) + 1
      BY SMTT(60), <1>1, <1>2, <2>1
    <3> QED BY <1>1, <2>1, <3>1
  <2>2. CASE i # 1
    BY <1>1, <2>2 DEF Numbered
  <2> QED BY <2>1, <2>2
<1> QED BY <1>3 DEF Numbered

(* All negative numbers are alike. *)
LEMMA NumShift ==
  ASSUME NEW x, NEW q, IsSeq(q), NEW e \in Int, e < 0, Numbered(x, q, e)
  PROVE  Numbered(x, q, e - 1)
<1>1. Len(q) \in Nat
  BY SeqLen
<1>2. ASSUME NEW i \in 1 .. Len(q) PROVE FrameIs(x, q[i], (e - 1) - (Len(q) - i))
  <2> DEFINE a == e - (Len(q) - i)
             b == (e - 1) - (Len(q) - i)
  <2>1. a < 0 /\ b < 0 /\ a \in Int /\ b \in Int /\ b # 0 /\ ~(b >= 1)
    BY SMTT(60), <1>1
  <2>2. FrameIs(x, q[i], a)
    BY DEF Numbered
  <2> HIDE DEF a, b
  <2>3. FrameIs(x, q[i], b)
    BY <2>1, <2>2 DEF FrameIs
  <2> QED BY <2>3 DEF b
<1> QED BY <1>2 DEF Numbered

LEMMA NumEmpty == \A x, e : Numbered(x, <<>>, e)
BY SMTT(60) DEF Numbered

-----------------------------------------------------------------------------
(* The replay window.  A is the set of the numbers accepted. *)
WinOk(v, A) ==
  /\ v \in [init : BOOLEAN, highest : Nat, bits : SUBSET Nat] /\ A \subseteq Nat
  /\ ~v.init => A = {}
  /\ \A s \in A : s <= v.highest
  /\ \A i \in Nat : i \in v.bits <=> i < WindowSize /\ i <= v.highest /\ v.highest - i \in A

(* What check_and_mark takes is new, and the window stays exact. *)
LEMMA Marked ==
  ASSUME NEW v, NEW A, WinOk(v, A), NEW seq \in Nat, Accepts(v, seq)
  PROVE  seq \notin A /\ WinOk(CheckAndMark(v, seq), A \cup {seq})
<1> DEFINE h == v.highest
           u == CheckAndMark(v, seq)
<1>1. v \in [init : BOOLEAN, highest : Nat, bits : SUBSET Nat] /\ A \subseteq Nat /\ h \in Nat /\ v.bits \subseteq Nat
  BY SMTT(60) DEF WinOk
<1>2. (~v.init => A = {}) /\ (\A s \in A : s <= h)
      /\ \A i \in Nat : i \in v.bits <=> i < WindowSize /\ i <= h /\ h - i \in A
  BY DEF WinOk
<1>w. WindowSize \in Nat /\ WindowSize > 0
  BY SMTT(60), GmPqConstants
<1>3. CASE ~v.init
  <2>1. u = [init |-> TRUE, highest |-> seq, bits |-> {0}]
    BY <1>3 DEF CheckAndMark, Accepts
  <2> HIDE DEF u
  <2>2. A = {}
    BY <1>2, <1>3
  <2>3. u \in [init : BOOLEAN, highest : Nat, bits : SUBSET Nat] /\ u.init /\ u.highest = seq /\ u.bits = {0}
    BY SMTT(60), <2>1
  <2>4. \A i \in Nat : i \in u.bits <=> i < WindowSize /\ i <= u.highest /\ u.highest - i \in A \cup {seq}
    BY SMTT(60), <2>2, <2>3, <1>w
  <2>5. \A s \in A \cup {seq} : s <= u.highest
    BY SMTT(60), <2>2, <2>3
  <2>6. WinOk(u, A \cup {seq})
    BY <2>3, <2>4, <2>5, <1>1 DEF WinOk
  <2> QED BY <2>2, <2>6 DEF u
<1>4. CASE v.init /\ seq > h
  <2>1. u = [v EXCEPT !.highest = seq, !.bits = Shifted(@, seq - h)]
    BY <1>4 DEF CheckAndMark, Accepts
  <2> HIDE DEF u
  <2>2. u.init = v.init /\ u.highest = seq /\ u.bits = Shifted(v.bits, seq - h) /\ DOMAIN u = DOMAIN v
    BY <2>1, <1>1
  <2> DEFINE by == seq - h
  <2>3. by \in Nat /\ by > 0
    BY SMTT(60), <1>1, <1>4
  <2>4. \A i \in Nat : i \in Shifted(v.bits, by) <=> i = 0 \/ (i >= by /\ i - by \in v.bits /\ i < WindowSize)
    <3> HIDE DEF by
    <3> QED BY SMT, SMTT(30), <2>3, <1>1, <1>w DEF Shifted
  <2>5. Shifted(v.bits, by) \subseteq Nat
    <3> HIDE DEF by
    <3> QED BY SMTT(60), <2>3, <1>1 DEF Shifted
  <2>6. ASSUME NEW i \in Nat
        PROVE  i \in u.bits <=> i < WindowSize /\ i <= u.highest /\ u.highest - i \in A \cup {seq}
    <3>1. CASE i = 0
      BY SMT, SMTT(30), <3>1, <2>2, <2>4, <1>w
    <3>2. CASE i # 0 /\ i < by
      <4>1. seq - i > h /\ seq - i \in Int /\ seq - i # seq
        BY SMTT(60), <1>1, <3>2
      <4>2. seq - i \notin A
        BY SMTT(60), <4>1, <1>1, <1>2
      <4> QED BY SMT, SMTT(30), <3>2, <4>1, <4>2, <2>2, <2>3, <2>4
    <3>3. CASE i >= by
      <4>1. i - by \in Nat /\ h - (i - by) = seq - i /\ (i - by <= h <=> i <= seq) /\ (i < WindowSize => i - by < WindowSize)
            /\ seq - i # seq /\ i # 0
        BY SMTT(60), <1>1, <1>w, <2>3, <3>3
      <4>2. i - by \in v.bits <=> i - by < WindowSize /\ i - by <= h /\ h - (i - by) \in A
        BY <4>1, <1>2
      <4> QED BY <4>1, <4>2, <3>3, <2>2, <2>4
    <3> QED BY SMTT(60), <3>1, <3>2, <3>3, <2>3
  <2>7. \A s \in A \cup {seq} : s <= u.highest
    BY SMTT(60), <1>1, <1>2, <1>4, <2>2
  <2>8. seq \notin A
    BY SMTT(60), <1>1, <1>2, <1>4
  <2>9. u \in [init : BOOLEAN, highest : Nat, bits : SUBSET Nat]
    BY <2>1, <2>5, <1>1
  <2>10. WinOk(u, A \cup {seq})
    BY <2>2, <2>6, <2>7, <2>9, <1>1, <1>4 DEF WinOk
  <2> QED BY <2>8, <2>10 DEF u
<1>5. CASE v.init /\ ~(seq > h)
  <2>1. u = [v EXCEPT !.bits = @ \cup {h - seq}]
    BY <1>5 DEF CheckAndMark
  <2> HIDE DEF u
  <2> DEFINE k == h - seq
  <2>2. k \in Nat /\ k <= h /\ h - k = seq
    BY SMTT(60), <1>1, <1>5
  <2>3. k < WindowSize /\ k \notin v.bits
    BY <1>5 DEF Accepts
  <2>4. seq \notin A
    BY <1>2, <2>2, <2>3
  <2> HIDE DEF k
  <2>5. u.init = v.init /\ u.highest = h /\ u.bits = v.bits \cup {k}
    BY <2>1, <1>1 DEF k
  <2>6. ASSUME NEW i \in Nat
        PROVE  i \in u.bits <=> i < WindowSize /\ i <= h /\ h - i \in A \cup {seq}
    <3>1. CASE i = k
      BY <3>1, <2>2, <2>3, <2>5
    <3>2. CASE i # k
      <4>1. i <= h => h - i # seq
        BY SMTT(60), <3>2, <1>1, <2>2
      <4>2. i \in v.bits <=> i < WindowSize /\ i <= h /\ h - i \in A
        BY <1>2
      <4> QED BY <4>1, <4>2, <3>2, <2>5
    <3> QED BY <3>1, <3>2
  <2>7. \A s \in A \cup {seq} : s <= u.highest
    <3>1. seq <= h
      BY SMTT(60), <1>1, <1>5
    <3> QED BY <1>2, <3>1, <2>5
  <2>8. u \in [init : BOOLEAN, highest : Nat, bits : SUBSET Nat]
    BY SMTT(60), <2>1, <2>2, <1>1 DEF k
  <2>9. WinOk(u, A \cup {seq})
    <3>1. \A i \in Nat : i \in u.bits <=> i < WindowSize /\ i <= u.highest /\ u.highest - i \in A \cup {seq}
      BY <2>5, <2>6
    <3>2. ~(~u.init) /\ A \cup {seq} \subseteq Nat
      BY <2>5, <1>1, <1>5
    <3> QED BY <3>1, <3>2, <2>7, <2>8 DEF WinOk
  <2> QED BY <2>4, <2>9 DEF u
<1> QED BY <1>3, <1>4, <1>5

(* The bits of an exact window are the set the property names. *)
LEMMA WindowBits ==
  ASSUME NEW v, NEW A, WinOk(v, A)
  PROVE  v.bits = {v.highest - s : s \in {t \in A : v.highest - t < WindowSize}}
<1> DEFINE h == v.highest
<1>1. A \subseteq Nat /\ h \in Nat /\ v.bits \subseteq Nat
  BY SMTT(60) DEF WinOk
<1>2. (\A s \in A : s <= h) /\ \A i \in Nat : i \in v.bits <=> i < WindowSize /\ i <= h /\ h - i \in A
  BY DEF WinOk
<1>3. ASSUME NEW i \in v.bits PROVE \E s \in A : h - s < WindowSize /\ i = h - s
  <2>1. h - i \in A /\ i < WindowSize
    BY SMTT(60), <1>1, <1>2
  <2>2. i = h - (h - i)
    BY SMTT(60), <1>1
  <2> QED BY <2>1, <2>2
<1>4. ASSUME NEW s \in A, h - s < WindowSize PROVE h - s \in v.bits
  <2>1. h - s \in Nat /\ h - s <= h /\ h - (h - s) = s
    BY SMTT(60), <1>1, <1>2
  <2> QED BY <2>1, <1>2, <1>4
<1> HIDE DEF h
<1>5. v.bits = {h - s : s \in {t \in A : h - t < WindowSize}}
  BY <1>3, <1>4
<1> QED BY <1>5 DEF h

LEMMA RangeAppend ==
  ASSUME NEW q, IsSeq(q), NEW f
  PROVE  Range(Append(q, f)) = Range(q) \cup {f}
<1> DEFINE r == Append(q, f)
           n == Len(q)
<1>0. Appended(q, f, r)
  BY SeqAppend
<1> HIDE DEF r
<1>1. IsSeq(r) /\ Len(r) = n + 1 /\ n \in Nat /\ r[n + 1] = f /\ \A i \in 1 .. n : r[i] = q[i]
  BY <1>0 DEF Appended
<1>2. DOMAIN q = 1 .. n /\ DOMAIN r = 1 .. n + 1
  BY <1>1, SeqLen
<1>3. n + 1 \in 1 .. n + 1 /\ \A i \in 1 .. n + 1 : i \in 1 .. n \/ i = n + 1
  BY SMTT(60), <1>1
<1>4. \A i \in 1 .. n : i \in 1 .. n + 1
  BY SMTT(60), <1>1
<1>5. Range(r) = Range(q) \cup {f}
  BY <1>1, <1>2, <1>3, <1>4 DEF Range
<1> QED BY <1>5 DEF r

LEMMA InjectiveAppend ==
  ASSUME NEW q, IsSeq(q), IsInjective(q), NEW f, f \notin Range(q)
  PROVE  IsInjective(Append(q, f))
<1> DEFINE r == Append(q, f)
           n == Len(q)
<1>0. Appended(q, f, r)
  BY SeqAppend
<1> HIDE DEF r
<1>1. IsSeq(r) /\ Len(r) = n + 1 /\ n \in Nat /\ r[n + 1] = f /\ \A i \in 1 .. n : r[i] = q[i]
  BY <1>0 DEF Appended
<1>2. DOMAIN q = 1 .. n /\ DOMAIN r = 1 .. n + 1
  BY <1>1, SeqLen
<1>3. \A i \in 1 .. n + 1 : i \in 1 .. n \/ i = n + 1
  BY SMTT(60), <1>1
<1>4. \A i \in 1 .. n : q[i] # f
  BY <1>2 DEF Range
<1>5. \A i, j \in 1 .. n : q[i] = q[j] => i = j
  BY <1>2 DEF IsInjective
<1>6. \A i, j \in 1 .. n + 1 : r[i] = r[j] => i = j
  BY <1>1, <1>3, <1>4, <1>5
<1>7. IsInjective(r)
  BY <1>2, <1>6 DEF IsInjective
<1> QED BY <1>7 DEF r

-----------------------------------------------------------------------------
(* Lanes.  What the sender's steps do to a lane. *)
LEMMA Tips ==
  ASSUME NEW e \in Int, NEW live \in BOOLEAN, NEW W, IsSeq(W), NEW N, IsSeq(N)
  PROVE  /\ NTip(e, live, W) \in Int /\ ITip(e, live, W, N) \in Int
         /\ NTip(e, live, W) <= e /\ ITip(e, live, W, N) <= NTip(e, live, W)
<1>1. Len(W) \in Nat /\ Len(N) \in Nat
  BY SeqLen
<1> QED BY SMTT(60), <1>1 DEF NTip, ITip

(* x's worker goes on without writing. *)
LEMMA LanePc ==
  ASSUME NEW x, NEW I, NEW N, NEW live, NEW W, NEW px, NEW py, NEW s, NEW g, NEW o, NEW qx,
         SomeLane(x, I, N, live, W, px, py, s, g, o), px # "off", qx # "off",
         qx = "done" \/ (px # "done" /\ Tip(x, qx, s, o) = Tip(x, px, s, o))
  PROVE  SomeLane(x, I, N, live, W, qx, py, s, g, o)
<1>1. PICK e \in Int : Lane(x, I, N, live, W, px, py, s, g, o, e)
  BY DEF SomeLane
<1>2. Lane(x, I, N, live, W, qx, py, s, g, o, e)
  BY <1>1 DEF Lane
<1> QED BY <1>2 DEF SomeLane

(* x's worker and its tasks start. *)
LEMMA LaneStart ==
  ASSUME NEW x, NEW I, NEW N, NEW live \in BOOLEAN, NEW W, NEW px, NEW py, NEW s, NEW g, NEW o,
         NEW qx \in Pre(x), px = "off", SomeLane(x, I, N, live, W, px, py, s, g, o)
  PROVE  SomeLane(x, I, N, TRUE, W, qx, py, s, g, o)
<1>1. PICK e \in Int : Lane(x, I, N, live, W, px, py, s, g, o, e)
  BY DEF SomeLane
<1>2. W = <<>> /\ e = Tip(x, "off", s, o)
  BY <1>1 DEF Lane
<1>3. Tip(x, qx, s, o) = Tip(x, "off", s, o)
  <2>1. "off" \in Pre(x)
    BY DEF Pre
  <2> QED BY <2>1 DEF Tip
<1>4. NTip(e, TRUE, W) = NTip(e, live, W)
  BY SMTT(60), <1>2 DEF NTip
<1>5. Numbered(x, W, e)
  BY <1>2, NumEmpty
<1>6. Lane(x, I, N, TRUE, W, qx, py, s, g, o, e)
  BY <1>1, <1>2, <1>3, <1>4, <1>5 DEF Lane, ITip
<1> QED BY <1>6 DEF SomeLane

Ending(px, qx, W, V) == (qx = px \/ qx = "done") /\ (V = W \/ V = <<>>)
(* x's task that sends ends, and with it what x had written; the worker may end too. *)
LEMMA LaneDies ==
  ASSUME NEW x, NEW I, NEW N, NEW live \in BOOLEAN, NEW W, IsSeq(W), NEW px, NEW py, NEW s, IsSeq(s), NEW g, NEW o,
         NEW qx, NEW V, SomeLane(x, I, N, live, W, px, py, s, g, o), Ending(px, qx, W, V)
  PROVE  SomeLane(x, I, N, FALSE, V, qx, py, s, g, o)
<1>1. PICK e \in Int : Lane(x, I, N, live, W, px, py, s, g, o, e)
  BY DEF SomeLane
<1> DEFINE d == NTip(e, live, W)
<1>2. Len(W) \in Nat /\ Len(s) \in Nat
  BY SeqLen
<1>3. d \in Int /\ d <= e /\ (W = <<>> => d = e)
  BY SMTT(60), <1>2 DEF NTip
<1>4. NTip(d, FALSE, V) = d
  BY DEF NTip
<1> HIDE DEF d
<1>5. e <= Len(s)
  BY <1>1 DEF Lane
<1>6. d <= Len(s)
  BY SMTT(60), <1>2, <1>3, <1>5
<1>7. qx = "off" => V = <<>> /\ d = Tip(x, qx, s, o)
  BY <1>1, <1>3 DEF Lane, Ending
<1>8. ITip(d, FALSE, V, N) = ITip(e, live, W, N)
  BY <1>4 DEF ITip, d
<1>9. Numbered(x, N, d) /\ Numbered(x, I, ITip(d, FALSE, V, N)) /\ (py \in Looping => ITip(d, FALSE, V, N) - Len(I) = Len(g))
  BY <1>1, <1>8 DEF Lane, d
<1>10. Lane(x, I, N, FALSE, V, qx, py, s, g, o, d)
  BY <1>4, <1>6, <1>7, <1>9 DEF Lane
<1> QED BY <1>3, <1>10 DEF SomeLane

(* x's worker writes f, which is numbered d: the earlier frames keep their places
   when the lane's tip goes from e to d, or move down with the frames before the
   handshake's end. *)
LEMMA LaneWrite ==
  ASSUME NEW x, NEW I, IsSeq(I), NEW N, IsSeq(N), NEW live \in BOOLEAN, NEW W, IsSeq(W), NEW px, NEW py, NEW s, IsSeq(s),
         NEW g, IsSeq(g), NEW o, NEW qx, NEW p, NEW f, NEW d \in Int,
         SomeLane(x, I, N, live, W, px, py, s, g, o), px \notin {"off", "done"}, qx \notin {"off", "done"},
         d = Tip(x, qx, s, p), FrameIs(x, f, d), d <= Len(s),
         d = Tip(x, px, s, o) + 1 \/ (d = Tip(x, px, s, o) /\ d < 0)
  PROVE  SomeLane(x, I, N, live, Append(W, f), qx, py, s, g, p)
<1>1. PICK e \in Int : Lane(x, I, N, live, W, px, py, s, g, o, e)
  BY DEF SomeLane
<1> DEFINE V == Append(W, f)
           n == NTip(e, live, W)
           i == ITip(e, live, W, N)
<1>2. CASE ~live
  <2>1. NTip(e, live, V) = n /\ ITip(e, live, V, N) = i
    BY <1>2 DEF NTip, ITip
  <2>2. Lane(x, I, N, live, V, qx, py, s, g, p, e)
    BY <1>1, <1>2, <2>1 DEF Lane
  <2> QED BY <2>2 DEF SomeLane
<1>3. CASE live
  <2>1. e = Tip(x, px, s, o) /\ Numbered(x, W, e) /\ Numbered(x, N, n) /\ Numbered(x, I, i)
        /\ (py \in Looping => i - Len(I) = Len(g))
    BY <1>1, <1>3 DEF Lane
  <2>2. n \in Int /\ i \in Int /\ n <= e /\ i <= n
    BY Tips
  <2>3. Len(V) = Len(W) + 1 /\ Len(W) \in Nat
    <3>1. Appended(W, f, V)
      BY SeqAppend
    <3> QED BY <3>1 DEF Appended
  <2>l. Len(I) \in Nat /\ Len(g) \in Nat /\ Len(N) \in Nat
    BY SeqLen
  <2>4. n = e - Len(W) /\ i = n - Len(N) /\ NTip(d, live, V) = d - Len(V) /\ ITip(d, live, V, N) = NTip(d, live, V) - Len(N)
    BY <1>3 DEF NTip, ITip
  <2> HIDE DEF V, n, i
  <2>5. CASE d = e + 1
    <3>1. NTip(d, live, V) = n /\ ITip(d, live, V, N) = i
      BY SMTT(60), <2>2, <2>3, <2>4, <2>5
    <3>2. Numbered(x, V, d)
      BY <2>1, <2>5, NumAppend DEF V
    <3>3. Lane(x, I, N, live, V, qx, py, s, g, p, d)
      BY <2>1, <3>1, <3>2 DEF Lane
    <3> QED BY <3>3 DEF SomeLane, V
  <2>6. CASE d = e /\ e < 0
    <3>1. NTip(d, live, V) = n - 1 /\ ITip(d, live, V, N) = i - 1 /\ n < 0 /\ i < 0 /\ (e - 1) + 1 = e /\ e - 1 \in Int
      BY SMT, SMTT(30), <2>2, <2>3, <2>4, <2>6, <2>l
    <3>2. Numbered(x, W, e - 1) /\ Numbered(x, N, n - 1) /\ Numbered(x, I, i - 1)
      BY <2>1, <2>2, <2>6, <3>1, NumShift
    <3>3. FrameIs(x, f, (e - 1) + 1)
      BY <3>1, <2>6
    <3>4. Numbered(x, V, (e - 1) + 1)
      BY <3>1, <3>2, <3>3, NumAppend DEF V
    <3>5. py \notin Looping
      <4>1. i - Len(I) # Len(g)
        BY SMTT(60), <2>2, <2>l, <3>1
      <4> QED BY <4>1, <2>1
    <3>6. Lane(x, I, N, live, V, qx, py, s, g, p, d)
      BY <2>6, <3>1, <3>2, <3>4, <3>5 DEF Lane
    <3> QED BY <3>6 DEF SomeLane, V
  <2> QED BY <2>1, <2>5, <2>6
<1> QED BY <1>2, <1>3

(* x is given another message. *)
LEMMA LaneSay ==
  ASSUME NEW x, NEW I, NEW N, NEW live, NEW W, NEW px \in Looping, NEW py, NEW s, IsSeq(s), NEW g, NEW o, IsSeq(o),
         NEW m, NEW k, SomeLane(x, I, N, live, W, px, py, s, g, o)
  PROVE  SomeLane(x, I, N, live, W, px, py, Append(s, m), g, Append(o, k))
<1>1. PICK e \in Int : Lane(x, I, N, live, W, px, py, s, g, o, e)
  BY DEF SomeLane
<1> DEFINE t == Append(s, m)
           p == Append(o, k)
<1>2. Appended(s, m, t) /\ Appended(o, k, p)
  BY SeqAppend
<1> HIDE DEF t, p
<1>3. Len(t) = Len(s) + 1 /\ Len(s) \in Nat /\ Len(p) = Len(o) + 1 /\ Len(o) \in Nat
  BY <1>2 DEF Appended
<1>4. Len(t) - Len(p) = Len(s) - Len(o)
  BY SMTT(60), <1>3
<1>5. Tip(x, px, t, p) = Tip(x, px, s, o)
  BY <1>4 DEF Tip
<1>6. e <= Len(s)
  BY <1>1 DEF Lane
<1>7. e <= Len(t)
  BY SMTT(60), <1>3, <1>6
<1>8. Lane(x, I, N, live, W, px, py, t, g, p, e)
  BY <1>1, <1>5, <1>7 DEF Lane
<1> QED BY <1>8 DEF SomeLane, t, p

(* The task sends what x has written. *)
LEMMA LaneMoves ==
  ASSUME NEW x, NEW I, NEW N, IsSeq(N), NEW W, IsSeq(W), NEW px, NEW py, NEW s, NEW g, NEW o,
         SomeLane(x, I, N, TRUE, W, px, py, s, g, o)
  PROVE  SomeLane(x, I, N \o W, TRUE, <<>>, px, py, s, g, o)
<1>1. PICK e \in Int : Lane(x, I, N, TRUE, W, px, py, s, g, o, e)
  BY DEF SomeLane
<1> DEFINE M == N \o W
<1>2. Joined(N, W, M)
  BY SeqConcat
<1>3. Len(M) = Len(N) + Len(W) /\ Len(N) \in Nat /\ Len(W) \in Nat
  BY <1>2 DEF Joined
<1>4. Numbered(x, W, e) /\ Numbered(x, N, e - Len(W))
  BY <1>1 DEF Lane, NTip
<1>5. Numbered(x, M, e)
  BY <1>4, NumConcat
<1> HIDE DEF M
<1>6. NTip(e, TRUE, <<>>) = e /\ ITip(e, TRUE, <<>>, M) = ITip(e, TRUE, W, N)
  BY SMTT(60), <1>3 DEF NTip, ITip
<1>7. Numbered(x, <<>>, e)
  BY NumEmpty
<1>8. Lane(x, I, M, TRUE, <<>>, px, py, s, g, o, e)
  BY <1>1, <1>5, <1>6, <1>7 DEF Lane
<1> QED BY <1>8 DEF SomeLane, M

(* The other side's task takes a frame from the network. *)
LEMMA LaneArrives ==
  ASSUME NEW x, NEW I, IsSeq(I), NEW N, IsSeq(N), N # <<>>, NEW live \in BOOLEAN, NEW W, IsSeq(W), NEW px, NEW py,
         NEW s, NEW g, NEW o, SomeLane(x, I, N, live, W, px, py, s, g, o)
  PROVE  SomeLane(x, Append(I, Head(N)), Tail(N), live, W, px, py, s, g, o)
<1>1. PICK e \in Int : Lane(x, I, N, live, W, px, py, s, g, o, e)
  BY DEF SomeLane
<1> DEFINE J == Append(I, Head(N))
           M == Tail(N)
           n == NTip(e, live, W)
           i == ITip(e, live, W, N)
<1>2. Shortened(N, M) /\ Appended(I, Head(N), J)
  BY SeqTail, SeqAppend
<1>3. Len(M) = Len(N) - 1 /\ Len(N) \in Nat /\ Len(J) = Len(I) + 1 /\ Len(I) \in Nat
  BY <1>2 DEF Shortened, Appended
<1>4. n \in Int /\ i \in Int
  BY Tips
<1>5. Numbered(x, N, n) /\ Numbered(x, I, i) /\ (py \in Looping => i - Len(I) = Len(g))
  BY <1>1 DEF Lane
<1>6. Numbered(x, M, n) /\ FrameIs(x, Head(N), (n - Len(N)) + 1)
  BY <1>4, <1>5, NumTail
<1>7. i = n - Len(N)
  BY DEF ITip
<1>8. Numbered(x, J, i + 1)
  BY <1>4, <1>5, <1>6, <1>7, NumAppend
<1>9. ITip(e, live, W, M) = n - Len(M)
  BY DEF ITip
<1> HIDE DEF J, M, n, i
<1>10. ITip(e, live, W, M) = i + 1
  BY SMT, SMTT(30), <1>3, <1>4, <1>7, <1>9
<1>11. (i + 1) - Len(J) = i - Len(I)
  BY SMTT(60), <1>3, <1>4
<1>12. Lane(x, J, M, live, W, px, py, s, g, o, e)
  BY <1>1, <1>5, <1>6, <1>8, <1>10, <1>11 DEF Lane, n
<1> QED BY <1>12 DEF SomeLane, J, M

(* What the receiver's steps do to a lane.  Its worker goes on without reading. *)
LEMMA LanePy ==
  ASSUME NEW x, NEW I, NEW N, NEW live, NEW W, NEW px, NEW py, NEW s, NEW g, NEW o, NEW qy,
         SomeLane(x, I, N, live, W, px, py, s, g, o), qy \in Looping => py \in Looping
  PROVE  SomeLane(x, I, N, live, W, px, qy, s, g, o)
<1>1. PICK e \in Int : Lane(x, I, N, live, W, px, py, s, g, o, e)
  BY DEF SomeLane
<1>2. Lane(x, I, N, live, W, px, qy, s, g, o, e)
  BY <1>1 DEF Lane
<1> QED BY <1>2 DEF SomeLane

(* It takes a frame.  Once it loops, the frame must be the last it has heard. *)
Follows(x, f, py, g, qy, h) ==
  qy \in Looping => \A m \in Int : FrameIs(x, f, m) /\ (py \in Looping => m = Len(g) + 1) => m = Len(h)
LEMMA LaneTakes ==
  ASSUME NEW x, NEW I, IsSeq(I), I # <<>>, NEW N, IsSeq(N), NEW live \in BOOLEAN, NEW W, IsSeq(W), NEW px, NEW py,
         NEW s, IsSeq(s), NEW g, IsSeq(g), NEW o, NEW qy, NEW h, SomeLane(x, I, N, live, W, px, py, s, g, o),
         Follows(x, Head(I), py, g, qy, h)
  PROVE  SomeLane(x, Tail(I), N, live, W, px, qy, s, h, o)
<1>1. PICK e \in Int : Lane(x, I, N, live, W, px, py, s, g, o, e)
  BY DEF SomeLane
<1> DEFINE i == ITip(e, live, W, N)
           J == Tail(I)
<1>2. i \in Int
  BY Tips
<1>3. Numbered(x, I, i) /\ (py \in Looping => i - Len(I) = Len(g))
  BY <1>1 DEF Lane
<1>4. Numbered(x, J, i) /\ FrameIs(x, Head(I), (i - Len(I)) + 1)
  BY <1>2, <1>3, NumTail
<1>5. Shortened(I, J)
  BY SeqTail
<1>6. Len(J) = Len(I) - 1 /\ Len(I) \in Nat
  BY <1>5 DEF Shortened
<1> HIDE DEF i, J
<1>7. (i - Len(I)) + 1 \in Int /\ i - Len(J) = (i - Len(I)) + 1
  BY SMTT(60), <1>2, <1>6
<1>8. qy \in Looping => i - Len(J) = Len(h)
  BY <1>3, <1>4, <1>7 DEF Follows
<1>9. Lane(x, J, N, live, W, px, qy, s, h, o, e)
  BY <1>1, <1>4, <1>8 DEF Lane, i
<1> QED BY <1>9 DEF SomeLane, J

(* The frame a looping worker takes has the next number, which was sent. *)
LEMMA LaneHead ==
  ASSUME NEW x, NEW I, IsSeq(I), I # <<>>, NEW N, IsSeq(N), NEW live \in BOOLEAN, NEW W, IsSeq(W), NEW px,
         NEW py \in Looping, NEW s, IsSeq(s), NEW g, IsSeq(g), NEW o, SomeLane(x, I, N, live, W, px, py, s, g, o)
  PROVE  FrameIs(x, Head(I), Len(g) + 1) /\ Len(g) + 1 <= Len(s) /\ Len(g) \in Nat
<1>1. PICK e \in Int : Lane(x, I, N, live, W, px, py, s, g, o, e)
  BY DEF SomeLane
<1> DEFINE i == ITip(e, live, W, N)
<1>2. i \in Int /\ i <= NTip(e, live, W) /\ NTip(e, live, W) <= e /\ NTip(e, live, W) \in Int
  BY Tips
<1>3. Numbered(x, I, i) /\ i - Len(I) = Len(g) /\ e <= Len(s)
  BY <1>1 DEF Lane
<1>4. FrameIs(x, Head(I), (i - Len(I)) + 1)
  BY <1>2, <1>3, NumTail
<1>5. Len(I) \in Nat /\ Len(I) # 0 /\ Len(s) \in Nat /\ Len(g) \in Nat
  <2>1. IsSeq(I) /\ IsSeq(s) /\ IsSeq(g) /\ I # <<>>
    BY SMTT(60)
  <2> QED BY ONLY SMT, SMTT(30), <2>1, SeqLen
<1> HIDE DEF i
<1>6. Len(g) + 1 <= Len(s)
  BY SMTT(60), <1>2, <1>3, <1>5
<1> QED BY <1>3, <1>4, <1>5, <1>6

LEMMA LaneDamaged ==
  ASSUME NEW x, NEW I, NEW N, IsSeq(N), N # <<>>, NEW live \in BOOLEAN, NEW W, IsSeq(W), NEW px, NEW py, NEW s, NEW g,
         NEW o, NEW f, Inherits(x, Head(N), f), NEW M, Replaced(N, f, M),
         SomeLane(x, I, N, live, W, px, py, s, g, o)
  PROVE  SomeLane(x, I, M, live, W, px, py, s, g, o)
<1>1. PICK e \in Int : Lane(x, I, N, live, W, px, py, s, g, o, e)
  BY DEF SomeLane
<1> DEFINE n == NTip(e, live, W)
<1>2. n \in Int
  BY Tips
<1>3. Numbered(x, N, n)
  BY <1>1 DEF Lane
<1>4. FrameIs(x, f, (n - Len(N)) + 1)
  BY <1>2, <1>3, NumTail DEF Inherits
<1>5. Numbered(x, M, n)
  BY <1>2, <1>3, <1>4, NumFirst
<1>7. Len(M) = Len(N)
  BY DEF Replaced
<1>8. Lane(x, I, M, live, W, px, py, s, g, o, e)
  BY <1>1, <1>5, <1>7 DEF Lane, ITip
<1> QED BY <1>8 DEF SomeLane

-----------------------------------------------------------------------------
(* Views.  One side of a pair goes from v to z, and the other stays as it is. *)
Queues(v, z) == z.N = v.N /\ z.live = v.live /\ z.W = v.W
Says(v, z) == z.o = v.o /\ z.s = v.s

LEMMA Others ==
  ASSUME NEW x \in Sides
  PROVE  Other(x) \in Sides /\ Other(Other(x)) = x /\ Other(x) # x
BY SMTT(60) DEF Sides, Other

LEMMA Swap ==
  ASSUME NEW x \in Sides, NEW v, NEW u, Pair(x, v, u)
  PROVE  Pair(Other(x), u, v)
BY Others DEF Pair

(* A side that neither was given a message nor heard one. *)
LEMMA SideSame ==
  ASSUME NEW x, NEW v, SideOk(x, v), NEW z, Says(v, z), z.g = v.g, z.live \in BOOLEAN, IsSeq(z.I), IsSeq(z.N), IsSeq(z.W),
         z.pc \in Pcs(x), x = "server" => z.pc # "ticket",
         z.pc \in {"loop", "wait", "recv", "done"} \/ v.pc \notin {"loop", "wait", "recv", "done"}
  PROVE  SideOk(x, z)
<1>1. z.o = v.o /\ z.s = v.s
  BY DEF Says
<1>2. /\ IsSeq(z.o) /\ IsSeq(z.s) /\ IsSeq(z.g)
      /\ \A i \in 1 .. Len(z.s) : z.s[i] = i
      /\ Len(z.o) <= Len(z.s) /\ \A i \in 1 .. Len(z.o) : z.o[i] = (Len(z.s) - Len(z.o)) + i
      /\ \A i \in 1 .. Len(z.g) : z.g[i] = i
  BY <1>1 DEF SideOk
<1>3. v.pc \notin {"loop", "wait", "recv", "done"} => v.s = <<>> /\ v.o = <<>> /\ v.g = <<>>
  BY DEF SideOk
<1>4. z.pc \notin {"loop", "wait", "recv", "done"} => z.s = <<>> /\ z.o = <<>> /\ z.g = <<>>
  BY <1>1, <1>3
<1> QED BY <1>2, <1>4 DEF SideOk

(* What the other side has heard is still no more than what was sent. *)
LEMMA PairOf ==
  ASSUME NEW x \in Sides, NEW v, NEW u, Pair(x, v, u), NEW z, SideOk(x, z),
         SomeLane(x, u.I, z.N, z.live, z.W, z.pc, u.pc, z.s, u.g, z.o), Len(v.s) <= Len(z.s),
         SomeLane(Other(x), z.I, u.N, u.live, u.W, u.pc, z.pc, u.s, z.g, u.o), Len(z.g) <= Len(u.s)
  PROVE  Pair(x, z, u)
<1>1. Len(u.g) <= Len(v.s) /\ SideOk(Other(x), u) /\ SideOk(x, v)
  BY DEF Pair, From
<1>2. Len(u.g) \in Nat /\ Len(v.s) \in Nat /\ Len(z.s) \in Nat
  BY <1>1, SeqLen DEF SideOk
<1>3. Len(u.g) <= Len(z.s)
  BY SMTT(60), <1>1, <1>2
<1> QED BY <1>1, <1>3 DEF Pair, From

LEMMA PairSame ==
  ASSUME NEW x \in Sides, NEW v, NEW u, Pair(x, v, u), NEW z, SideOk(x, z), Says(v, z), z.g = v.g,
         SomeLane(x, u.I, z.N, z.live, z.W, z.pc, u.pc, v.s, u.g, v.o),
         SomeLane(Other(x), z.I, u.N, u.live, u.W, u.pc, z.pc, u.s, v.g, u.o)
  PROVE  Pair(x, z, u)
<1>1. SideOk(x, v) /\ Len(v.g) <= Len(u.s)
  BY DEF Pair, From
<1>2. Len(v.s) \in Nat
  BY <1>1, SeqLen DEF SideOk
<1>3. Len(v.s) <= Len(z.s)
  BY SMTT(60), <1>2 DEF Says
<1>4. /\ SomeLane(x, u.I, z.N, z.live, z.W, z.pc, u.pc, z.s, u.g, z.o)
      /\ SomeLane(Other(x), z.I, u.N, u.live, u.W, u.pc, z.pc, u.s, z.g, u.o) /\ Len(z.g) <= Len(u.s)
  BY <1>1 DEF Says
<1> QED BY <1>3, <1>4, PairOf

(* The pieces of a pair. *)
Known(x, v, u) ==
  /\ SideOk(x, v) /\ SideOk(Other(x), u)
  /\ SomeLane(x, u.I, v.N, v.live, v.W, v.pc, u.pc, v.s, u.g, v.o)
  /\ SomeLane(Other(x), v.I, u.N, u.live, u.W, u.pc, v.pc, u.s, v.g, u.o)
  /\ IsSeq(v.I) /\ IsSeq(v.N) /\ IsSeq(v.W) /\ IsSeq(v.o) /\ IsSeq(v.s) /\ IsSeq(v.g) /\ v.live \in BOOLEAN
  /\ IsSeq(u.I) /\ IsSeq(u.N) /\ IsSeq(u.W) /\ IsSeq(u.o) /\ IsSeq(u.s) /\ IsSeq(u.g) /\ u.live \in BOOLEAN
LEMMA PairKnown ==
  ASSUME NEW x, NEW v, NEW u, Pair(x, v, u)
  PROVE  Known(x, v, u)
BY DEF Pair, Known, From, SideOk

LEMMA ViewStart ==
  ASSUME NEW x \in Sides, NEW v, NEW u, Pair(x, v, u), NEW z, v.pc = "off", z.pc \in Pre(x), z.pc # "off", z.live = TRUE,
         z.I = v.I, z.N = v.N, z.W = v.W, Says(v, z), z.g = v.g
  PROVE  Pair(x, z, u)
<1>k. Known(x, v, u)
  BY PairKnown
<1>1. z.pc \notin {"ticket", "loop", "wait", "recv", "done"} /\ z.pc \in Pcs(x)
  BY DEF Pre, Pcs
<1>2. SideOk(x, z)
  BY <1>k, <1>1, SideSame DEF Known
<1>f. SomeLane(x, u.I, v.N, v.live, v.W, v.pc, u.pc, v.s, u.g, v.o) /\ v.live \in BOOLEAN /\ v.pc = "off" /\ z.pc \in Pre(x)
  BY <1>k DEF Known
<1>3. SomeLane(x, u.I, v.N, TRUE, v.W, z.pc, u.pc, v.s, u.g, v.o)
  BY ONLY ZenonT(60), <1>f, LaneStart
<1>4. SomeLane(x, u.I, z.N, z.live, z.W, z.pc, u.pc, v.s, u.g, v.o)
  BY <1>3
<1>5. SomeLane(Other(x), v.I, u.N, u.live, u.W, u.pc, z.pc, u.s, v.g, u.o)
  BY <1>k, <1>1, LanePy DEF Known, Looping
<1>6. SomeLane(Other(x), z.I, u.N, u.live, u.W, u.pc, z.pc, u.s, v.g, u.o)
  BY <1>5
<1> QED BY <1>2, <1>4, <1>6, PairSame

LEMMA ViewPc ==
  ASSUME NEW x \in Sides, NEW v, NEW u, Pair(x, v, u), NEW z, v.pc # "off", z.pc # "off",
         z.pc = "done" \/ (v.pc \in Pre(x) /\ z.pc \in Pre(x)) \/ (v.pc \in Looping /\ z.pc \in Looping),
         z.I = v.I, Queues(v, z), Says(v, z), z.g = v.g
  PROVE  Pair(x, z, u)
<1>k. Known(x, v, u)
  BY PairKnown
<1>0. z.live = v.live /\ z.N = v.N /\ z.W = v.W
  BY DEF Queues
<1>1. z.pc \in Pcs(x) /\ z.pc # "ticket" /\ (z.pc \in Looping => v.pc \in Looping)
      /\ (z.pc \in {"loop", "wait", "recv", "done"} \/ v.pc \notin {"loop", "wait", "recv", "done"})
  BY SMTT(60) DEF Pre, Pcs, Looping, Sides
<1>2. SideOk(x, z)
  BY <1>k, <1>0, <1>1, SideSame DEF Known
<1>3. z.pc = "done" \/ (v.pc # "done" /\ Tip(x, z.pc, v.s, v.o) = Tip(x, v.pc, v.s, v.o))
  BY DEF Pre, Tip, Looping, Sides
<1>4. SomeLane(x, u.I, v.N, v.live, v.W, z.pc, u.pc, v.s, u.g, v.o)
  BY <1>k, <1>3, LanePc DEF Known
<1>5. SomeLane(x, u.I, z.N, z.live, z.W, z.pc, u.pc, v.s, u.g, v.o)
  BY <1>0, <1>4
<1>6. SomeLane(Other(x), v.I, u.N, u.live, u.W, u.pc, z.pc, u.s, v.g, u.o)
  BY <1>k, <1>1, LanePy DEF Known
<1>7. SomeLane(Other(x), z.I, u.N, u.live, u.W, u.pc, z.pc, u.s, v.g, u.o)
  BY <1>6
<1> QED BY <1>2, <1>5, <1>7, PairSame

Dead(v, z) == z.pc \in {v.pc, "done"} /\ z.live = FALSE /\ z.W \in {v.W, <<>>}
LEMMA ViewDies ==
  ASSUME NEW x \in Sides, NEW v, NEW u, Pair(x, v, u), NEW z, Dead(v, z), z.I = v.I, z.N = v.N, Says(v, z), z.g = v.g
  PROVE  Pair(x, z, u)
<1>d. z.pc \in {v.pc, "done"} /\ z.live = FALSE /\ z.W \in {v.W, <<>>}
  BY DEF Dead
<1>k. Known(x, v, u)
  BY PairKnown
<1>1. z.pc \in Pcs(x) /\ (z.pc \in Looping => v.pc \in Looping) /\ (x = "server" => z.pc # "ticket")
      /\ (z.pc \in {"loop", "wait", "recv", "done"} \/ v.pc \notin {"loop", "wait", "recv", "done"})
  BY <1>d, <1>k DEF Known, SideOk, Pcs, Looping
<1>s. IsSeq(z.W)
  BY <1>d, <1>k, SeqEmpty DEF Known
<1>2. SideOk(x, z)
  BY <1>d, <1>k, <1>s, <1>1, SideSame DEF Known
<1>f. SomeLane(x, u.I, v.N, v.live, v.W, v.pc, u.pc, v.s, u.g, v.o) /\ v.live \in BOOLEAN /\ IsSeq(v.W) /\ IsSeq(v.s)
  BY <1>k DEF Known
<1>p. Ending(v.pc, z.pc, v.W, z.W)
  BY <1>d DEF Ending
<1>3. SomeLane(x, u.I, v.N, FALSE, z.W, z.pc, u.pc, v.s, u.g, v.o)
  BY ONLY ZenonT(60), <1>f, <1>p, LaneDies
<1>4. SomeLane(x, u.I, z.N, z.live, z.W, z.pc, u.pc, v.s, u.g, v.o)
  BY <1>d, <1>3
<1>5. SomeLane(Other(x), v.I, u.N, u.live, u.W, u.pc, z.pc, u.s, v.g, u.o)
  BY <1>k, <1>1, LanePy DEF Known
<1>6. SomeLane(Other(x), z.I, u.N, u.live, u.W, u.pc, z.pc, u.s, v.g, u.o)
  BY <1>5
<1> QED BY <1>2, <1>4, <1>6, PairSame

LEMMA ViewMoves ==
  ASSUME NEW x \in Sides, NEW v, NEW u, Pair(x, v, u), NEW z, z.pc = v.pc, v.live = TRUE, z.live = TRUE,
         z.N = v.N \o v.W, z.W = <<>>, z.I = v.I, Says(v, z), z.g = v.g
  PROVE  Pair(x, z, u)
<1>k. Known(x, v, u)
  BY PairKnown
<1>1. z.pc \in Pcs(x) /\ (x = "server" => z.pc # "ticket")
  BY <1>k DEF Known, SideOk
<1>s. IsSeq(z.W) /\ IsSeq(z.N)
  <2>1. Joined(v.N, v.W, z.N)
    BY <1>k, SeqConcat DEF Known
  <2> QED BY <2>1, SeqEmpty DEF Joined
<1>2. SideOk(x, z)
  BY <1>k, <1>s, <1>1, SideSame DEF Known
<1>3. SomeLane(x, u.I, v.N, TRUE, v.W, v.pc, u.pc, v.s, u.g, v.o) /\ IsSeq(v.N) /\ IsSeq(v.W)
  BY <1>k DEF Known
<1>4. SomeLane(x, u.I, v.N \o v.W, TRUE, <<>>, v.pc, u.pc, v.s, u.g, v.o)
  BY <1>3, LaneMoves
<1>5. SomeLane(x, u.I, z.N, z.live, z.W, z.pc, u.pc, v.s, u.g, v.o)
  BY <1>4
<1>6. SomeLane(Other(x), z.I, u.N, u.live, u.W, u.pc, z.pc, u.s, v.g, u.o)
  BY <1>k DEF Known
<1> QED BY <1>2, <1>5, <1>6, PairSame

LEMMA ViewDamaged ==
  ASSUME NEW x \in Sides, NEW v, NEW u, Pair(x, v, u), NEW z, v.N # <<>>, NEW f, Inherits(x, Head(v.N), f),
         z.N = [v.N EXCEPT ![1] = f], z.pc = v.pc, z.live = v.live, z.W = v.W, z.I = v.I, Says(v, z), z.g = v.g
  PROVE  Pair(x, z, u)
<1>k. Known(x, v, u)
  BY PairKnown
<1>1. z.pc \in Pcs(x) /\ (x = "server" => z.pc # "ticket")
  BY <1>k DEF Known, SideOk
<1>r. Replaced(v.N, f, z.N)
  BY <1>k, SeqFirst DEF Known
<1>s. IsSeq(z.N)
  BY <1>r DEF Replaced
<1>2. SideOk(x, z)
  BY <1>k, <1>s, <1>1, SideSame DEF Known
<1>3. SomeLane(x, u.I, v.N, v.live, v.W, v.pc, u.pc, v.s, u.g, v.o) /\ IsSeq(v.N) /\ IsSeq(v.W) /\ v.live \in BOOLEAN
      /\ v.N # <<>> /\ Inherits(x, Head(v.N), f)
  BY <1>k DEF Known
<1>4. SomeLane(x, u.I, z.N, v.live, v.W, v.pc, u.pc, v.s, u.g, v.o)
  BY ONLY ZenonT(60), <1>3, <1>r, LaneDamaged
<1>5. SomeLane(x, u.I, z.N, z.live, z.W, z.pc, u.pc, v.s, u.g, v.o)
  BY <1>4
<1>6. SomeLane(Other(x), z.I, u.N, u.live, u.W, u.pc, z.pc, u.s, v.g, u.o)
  BY <1>k DEF Known
<1> QED BY <1>2, <1>5, <1>6, PairSame

(* The task of side x that receives takes a frame of the other side's. *)
LEMMA ViewArrives ==
  ASSUME NEW x \in Sides, NEW v, NEW u, Pair(x, v, u), NEW z, NEW y, u.N # <<>>, y.N = Tail(u.N),
         y.pc = u.pc, y.live = u.live, y.W = u.W, y.I = u.I, Says(u, y), y.g = u.g,
         z.I = Append(v.I, Head(u.N)), z.pc = v.pc, Queues(v, z), Says(v, z), z.g = v.g
  PROVE  Pair(x, z, y)
<1>k. Known(x, v, u)
  BY PairKnown
<1>q. z.N = v.N /\ z.live = v.live /\ z.W = v.W /\ z.o = v.o /\ z.s = v.s /\ y.o = u.o /\ y.s = u.s
  BY DEF Queues, Says
<1>1. z.pc \in Pcs(x) /\ (x = "server" => z.pc # "ticket") /\ y.pc \in Pcs(Other(x)) /\ (Other(x) = "server" => y.pc # "ticket")
  BY <1>k DEF Known, SideOk
<1>s. IsSeq(y.N) /\ IsSeq(z.I)
  <2>1. Shortened(u.N, y.N) /\ Appended(v.I, Head(u.N), z.I)
    BY <1>k, SeqTail, SeqAppend DEF Known
  <2> QED BY <2>1 DEF Shortened, Appended
<1>2. SideOk(x, z)
  BY <1>k, <1>s, <1>1, <1>q, SideSame DEF Known
<1>3. SideOk(Other(x), y)
  BY <1>k, <1>s, <1>1, SideSame DEF Known
<1>4. SomeLane(Other(x), v.I, u.N, u.live, u.W, u.pc, v.pc, u.s, v.g, u.o) /\ IsSeq(v.I) /\ IsSeq(u.N) /\ IsSeq(u.W) /\ u.live \in BOOLEAN
  BY <1>k DEF Known
<1>5. SomeLane(Other(x), Append(v.I, Head(u.N)), Tail(u.N), u.live, u.W, u.pc, v.pc, u.s, v.g, u.o)
  BY <1>4, LaneArrives
<1>6. SomeLane(Other(x), z.I, y.N, y.live, y.W, y.pc, z.pc, y.s, z.g, y.o)
  BY <1>5, <1>q
<1>7. SomeLane(x, u.I, v.N, v.live, v.W, v.pc, u.pc, v.s, u.g, v.o)
  BY <1>k DEF Known
<1>8. SomeLane(x, y.I, z.N, z.live, z.W, z.pc, y.pc, z.s, y.g, z.o)
  BY <1>7, <1>q
<1>9. Len(y.g) <= Len(z.s) /\ Len(z.g) <= Len(y.s)
  BY <1>q DEF Pair, From
<1> QED BY <1>2, <1>3, <1>6, <1>8, <1>9 DEF Pair, From

(* What waits is the end of what was sent: numbers n - k + 1 .. n. *)
Waiting(o, n, k) == k <= n /\ \A i \in 1 .. k : o[i] = (n - k) + i
LEMMA WaitingMore ==
  ASSUME NEW n \in Nat, NEW k \in Nat, NEW o, Waiting(o, n, k), NEW p, p[k + 1] = n + 1, \A i \in 1 .. k : p[i] = o[i]
  PROVE  Waiting(p, n + 1, k + 1)
<1>1. ASSUME NEW i \in 1 .. k + 1 PROVE p[i] = ((n + 1) - (k + 1)) + i
  <2>1. CASE i = k + 1
    <3>1. n + 1 = ((n + 1) - (k + 1)) + i
      BY SMTT(60), <2>1
    <3> QED BY <2>1, <3>1
  <2>2. CASE i # k + 1
    <3>1. i \in 1 .. k /\ (n - k) + i = ((n + 1) - (k + 1)) + i
      BY SMTT(60), <2>2
    <3> QED BY <3>1 DEF Waiting
  <2> QED BY <2>1, <2>2
<1>2. k <= n
  BY DEF Waiting
<1>3. k + 1 <= n + 1
  BY SMTT(60), <1>2
<1> QED BY <1>1, <1>3 DEF Waiting
Less(o, p, n, k) == Waiting(p, n, k - 1) /\ o[1] = n - (k - 1) /\ n - (k - 1) >= 1
LEMMA WaitingLess ==
  ASSUME NEW n \in Nat, NEW o, NEW p, Shortened(o, p), NEW k, k = Len(o), Waiting(o, n, k)
  PROVE  Less(o, p, n, k)
<1>0. k \in Nat /\ k >= 1 /\ \A i \in 1 .. k - 1 : p[i] = o[i + 1]
  BY DEF Shortened
<1>1. k <= n
  BY DEF Waiting
<1>2. 1 \in 1 .. k /\ (n - k) + 1 = n - (k - 1) /\ n - (k - 1) >= 1 /\ k - 1 <= n
  BY ONLY SMT, Zenon, SMTT(60), ZenonT(60), <1>0, <1>1, n \in Nat
<1>3. ASSUME NEW i \in 1 .. k - 1 PROVE p[i] = (n - (k - 1)) + i
  <2>1. i + 1 \in 1 .. k /\ (n - k) + (i + 1) = (n - (k - 1)) + i
    BY ONLY SMT, SMTT(30), <1>0, <1>1, <1>3, n \in Nat
  <2> QED BY <1>0, <2>1 DEF Waiting
<1>4. o[1] = n - (k - 1)
  BY <1>2 DEF Waiting
<1> QED BY <1>2, <1>3, <1>4 DEF Waiting, Less

LEMMA ViewSay ==
  ASSUME NEW x \in Sides, NEW v, NEW u, Pair(x, v, u), NEW z, v.pc \in Looping, z.pc = v.pc,
         z.s = Append(v.s, Len(v.s) + 1), z.o = Append(v.o, Len(v.s) + 1), Queues(v, z), z.I = v.I, z.g = v.g
  PROVE  Pair(x, z, u)
<1> DEFINE n == Len(v.s)
           k == Len(v.o)
<1>k. Known(x, v, u)
  BY PairKnown
<1>q. z.N = v.N /\ z.live = v.live /\ z.W = v.W
  BY DEF Queues
<1>1. Appended(v.s, n + 1, z.s) /\ Appended(v.o, n + 1, z.o)
  BY <1>k, SeqAppend DEF Known
<1>2. /\ IsSeq(z.s) /\ Len(z.s) = n + 1 /\ n \in Nat /\ z.s[n + 1] = n + 1 /\ (\A i \in 1 .. n : z.s[i] = v.s[i])
      /\ IsSeq(z.o) /\ Len(z.o) = k + 1 /\ k \in Nat /\ z.o[k + 1] = n + 1 /\ \A i \in 1 .. k : z.o[i] = v.o[i]
  BY <1>1 DEF Appended
<1>3. /\ \A i \in 1 .. n : v.s[i] = i
      /\ k <= n /\ \A i \in 1 .. k : v.o[i] = (n - k) + i
  BY <1>k DEF Known, SideOk
<1>4. \A i \in 1 .. Len(z.s) : z.s[i] = i
  <2> HIDE DEF n
  <2> QED BY SMTT(60), <1>2, <1>3
<1>5. Len(z.o) <= Len(z.s) /\ \A i \in 1 .. Len(z.o) : z.o[i] = (Len(z.s) - Len(z.o)) + i
  <2>1. Waiting(v.o, n, k)
    BY <1>3 DEF Waiting
  <2>2. Waiting(z.o, n + 1, k + 1)
    BY ONLY ZenonT(60), <1>2, <2>1, WaitingMore
  <2> QED BY <1>2, <2>2 DEF Waiting
<1>6. SideOk(x, z)
  <2>1. /\ v.pc \in Pcs(x) /\ (x = "server" => v.pc # "ticket") /\ v.live \in BOOLEAN
        /\ IsSeq(v.I) /\ IsSeq(v.N) /\ IsSeq(v.W) /\ IsSeq(v.g) /\ \A i \in 1 .. Len(v.g) : v.g[i] = i
    BY <1>k DEF Known, SideOk
  <2>2. z.pc \in {"loop", "wait", "recv", "done"}
    BY DEF Looping
  <2> QED BY <1>q, <1>2, <1>4, <1>5, <2>1, <2>2 DEF SideOk
<1>f. SomeLane(x, u.I, v.N, v.live, v.W, v.pc, u.pc, v.s, u.g, v.o) /\ v.pc \in Looping /\ IsSeq(v.s) /\ IsSeq(v.o)
  BY <1>k DEF Known
<1>7. SomeLane(x, u.I, v.N, v.live, v.W, v.pc, u.pc, Append(v.s, n + 1), u.g, Append(v.o, n + 1))
  BY ONLY ZenonT(60), <1>f, LaneSay
<1>8. SomeLane(x, u.I, z.N, z.live, z.W, z.pc, u.pc, z.s, u.g, z.o)
  BY <1>7, <1>q
<1>9. SomeLane(Other(x), z.I, u.N, u.live, u.W, u.pc, z.pc, u.s, z.g, u.o)
  BY <1>k DEF Known
<1>10. n <= Len(z.s)
  BY SMTT(60), <1>2
<1>11. Len(z.g) <= Len(u.s)
  BY DEF Pair, From
<1> QED BY <1>6, <1>8, <1>9, <1>10, <1>11, PairOf

(* A worker writes a frame and reads none. *)
Wrote1(x, v, u, z, f) ==
  /\ z.N = v.N /\ z.live = v.live /\ z.s = v.s /\ z.g = v.g /\ z.W = Append(v.W, f)
  /\ v.pc \notin {"off", "done"} /\ z.pc \notin {"off", "done"}
  /\ LET d == Tip(x, z.pc, v.s, z.o) IN
       /\ d \in Int /\ FrameIs(x, f, d) /\ d <= Len(v.s)
       /\ d = Tip(x, v.pc, v.s, v.o) + 1 \/ (d = Tip(x, v.pc, v.s, v.o) /\ d < 0)
LEMMA ViewWritten ==
  ASSUME NEW x \in Sides, NEW v, NEW u, Known(x, v, u), NEW z, NEW f, Wrote1(x, v, u, z, f)
  PROVE  SomeLane(x, u.I, z.N, z.live, z.W, z.pc, u.pc, z.s, u.g, z.o) /\ IsSeq(z.W)
<1> DEFINE d == Tip(x, z.pc, v.s, z.o)
<1>1. /\ SomeLane(x, u.I, v.N, v.live, v.W, v.pc, u.pc, v.s, u.g, v.o) /\ IsSeq(u.I) /\ IsSeq(v.N) /\ v.live \in BOOLEAN
      /\ IsSeq(v.W) /\ IsSeq(v.s) /\ IsSeq(u.g)
  BY DEF Known
<1>2. /\ v.pc \notin {"off", "done"} /\ z.pc \notin {"off", "done"}
      /\ d \in Int /\ FrameIs(x, f, d) /\ d <= Len(v.s)
      /\ d = Tip(x, v.pc, v.s, v.o) + 1 \/ (d = Tip(x, v.pc, v.s, v.o) /\ d < 0)
  BY DEF Wrote1
<1>3. SomeLane(x, u.I, v.N, v.live, Append(v.W, f), z.pc, u.pc, v.s, u.g, z.o)
  BY ONLY ZenonT(60), <1>1, <1>2, LaneWrite
<1>4. Appended(v.W, f, Append(v.W, f))
  BY <1>1, SeqAppend
<1> QED BY <1>3, <1>4 DEF Wrote1, Appended

LEMMA ViewLoopSend ==
  ASSUME NEW x \in Sides, NEW v, NEW u, Pair(x, v, u), NEW z, NEW f, v.pc = "loop", z.pc = "loop", v.o # <<>>,
         z.o = Tail(v.o), z.W = Append(v.W, f), z.N = v.N, z.live = v.live, z.s = v.s, z.I = v.I, z.g = v.g,
         "t" \in DOMAIN f, f.t = "DATA", Boxed(f), f.box.text.ticket = <<>>, f.box.text.msg = Head(v.o)
  PROVE  Pair(x, z, u)
<1> DEFINE n == Len(v.s)
           k == Len(v.o)
<1>k. Known(x, v, u)
  BY PairKnown
<1>1. Shortened(v.o, z.o)
  BY <1>k, SeqTail DEF Known
<1>2. IsSeq(z.o) /\ Len(z.o) = k - 1 /\ k \in Nat /\ k >= 1 /\ Head(v.o) = v.o[1] /\ \A i \in 1 .. k - 1 : z.o[i] = v.o[i + 1]
  BY <1>1 DEF Shortened
<1>3. k <= n /\ (\A i \in 1 .. k : v.o[i] = (n - k) + i) /\ n \in Nat
  BY <1>k, SeqLen DEF Known, SideOk
<1>4. Tip(x, z.pc, v.s, z.o) = n - Len(z.o) /\ Tip(x, v.pc, v.s, v.o) = n - k
  BY DEF Tip, Pre
<1> HIDE DEF n, k
<1>5. /\ n - Len(z.o) \in Int /\ n - Len(z.o) <= n /\ n - Len(z.o) = (n - k) + 1 /\ n - Len(z.o) >= 1 /\ Head(v.o) = n - Len(z.o)
      /\ ~(n - Len(z.o) < 0) /\ n - Len(z.o) # 0
  <2>1. Waiting(v.o, n, k)
    BY <1>3 DEF Waiting
  <2>2. Less(v.o, z.o, n, k)
    BY <1>1, <1>3, <2>1, WaitingLess DEF k
  <2>3. v.o[1] = n - (k - 1) /\ n - (k - 1) >= 1
    BY <2>2 DEF Less
  <2> QED BY ONLY SMT, SMTT(30), <1>2, <1>3, <2>3
<1>6. FrameIs(x, f, n - Len(z.o))
  BY <1>5 DEF FrameIs
<1>7. Wrote1(x, v, u, z, f)
  BY <1>4, <1>5, <1>6 DEF Wrote1, n
<1>8. SomeLane(x, u.I, z.N, z.live, z.W, z.pc, u.pc, z.s, u.g, z.o) /\ IsSeq(z.W)
  BY <1>k, <1>7, ViewWritten
<1>9. Len(z.o) <= n /\ \A i \in 1 .. Len(z.o) : z.o[i] = (n - Len(z.o)) + i
  <2>1. Waiting(v.o, n, k)
    BY <1>3 DEF Waiting
  <2>2. Less(v.o, z.o, n, k)
    BY <1>1, <1>3, <2>1, WaitingLess DEF k
  <2> QED BY <1>2, <2>2 DEF Waiting, Less
<1>10. SideOk(x, z)
  <2>1. /\ v.pc \in Pcs(x) /\ v.live \in BOOLEAN /\ (\A i \in 1 .. Len(v.s) : v.s[i] = i)
        /\ IsSeq(v.I) /\ IsSeq(v.N) /\ IsSeq(v.s) /\ IsSeq(v.g) /\ \A i \in 1 .. Len(v.g) : v.g[i] = i
    BY <1>k DEF Known, SideOk
  <2> QED BY <1>2, <1>8, <1>9, <2>1 DEF SideOk, n
<1>11. SomeLane(Other(x), z.I, u.N, u.live, u.W, u.pc, z.pc, u.s, z.g, u.o)
  BY <1>k DEF Known
<1>12. Len(v.s) <= Len(z.s) /\ Len(z.g) <= Len(u.s)
  <2>1. Len(v.s) <= Len(v.s)
    BY SMTT(60), <1>3 DEF n
  <2> QED BY <2>1 DEF Pair, From
<1> QED BY <1>8, <1>10, <1>11, <1>12, PairOf

(* A worker takes a frame. *)
LEMMA ViewTaken ==
  ASSUME NEW x \in Sides, NEW v, NEW u, Known(x, v, u), NEW z, v.I # <<>>, z.I = Tail(v.I),
         Follows(Other(x), Head(v.I), v.pc, v.g, z.pc, z.g)
  PROVE  SomeLane(Other(x), z.I, u.N, u.live, u.W, u.pc, z.pc, u.s, z.g, u.o) /\ IsSeq(z.I)
<1>1. /\ SomeLane(Other(x), v.I, u.N, u.live, u.W, u.pc, v.pc, u.s, v.g, u.o) /\ IsSeq(v.I) /\ v.I # <<>>
      /\ IsSeq(u.N) /\ u.live \in BOOLEAN /\ IsSeq(u.W) /\ IsSeq(u.s) /\ IsSeq(v.g)
      /\ Follows(Other(x), Head(v.I), v.pc, v.g, z.pc, z.g)
  BY DEF Known
<1>2. SomeLane(Other(x), Tail(v.I), u.N, u.live, u.W, u.pc, z.pc, u.s, z.g, u.o)
  BY ONLY ZenonT(60), <1>1, LaneTakes
<1>3. Shortened(v.I, z.I)
  BY <1>1, SeqTail
<1> QED BY <1>2, <1>3 DEF Shortened

(* The handshake before its last frame: a worker writes a frame, and may have read one. *)
Reading(v, z) == z.I = v.I \/ (v.I # <<>> /\ z.I = Tail(v.I))
LEMMA ViewShakes ==
  ASSUME NEW x \in Sides, NEW v, NEW u, Pair(x, v, u), NEW z, NEW f, v.pc \in Pre(x), z.pc \in Pre(x),
         v.pc # "off", z.pc # "off", z.W = Append(v.W, f), Reading(v, z), z.N = v.N, z.live = v.live, Says(v, z), z.g = v.g,
         "t" \in DOMAIN f, f.t \notin {"DATA", "MSG3"}
  PROVE  Pair(x, z, u)
<1>k. Known(x, v, u)
  BY PairKnown
<1>q. z.o = v.o /\ z.s = v.s
  BY DEF Says
<1>p. ASSUME NEW q \in Pre(x) PROVE q \in Pcs(x) /\ q \notin {"ticket", "loop", "wait", "recv", "done"}
  BY DEF Pre, Pcs
<1>1. Tip(x, v.pc, v.s, v.o) = -1 /\ Tip(x, z.pc, v.s, z.o) = -1
  BY DEF Tip
<1>2. Len(v.s) \in Nat
  BY <1>k, SeqLen DEF Known
<1>3. -1 \in Int /\ -1 < 0 /\ -1 <= Len(v.s) /\ ~(-1 >= 1) /\ -1 # 0
  BY ONLY SMT, Zenon, SMTT(60), ZenonT(60), <1>2
<1>4. FrameIs(x, f, -1)
  BY <1>3 DEF FrameIs
<1>5. Wrote1(x, v, u, z, f)
  BY <1>q, <1>p, <1>1, <1>3, <1>4 DEF Wrote1
<1>6. SomeLane(x, u.I, z.N, z.live, z.W, z.pc, u.pc, z.s, u.g, z.o) /\ IsSeq(z.W)
  BY <1>k, <1>5, ViewWritten
<1>7. SomeLane(Other(x), z.I, u.N, u.live, u.W, u.pc, z.pc, u.s, z.g, u.o) /\ IsSeq(z.I)
  <2>1. CASE z.I = v.I
    <3>1. SomeLane(Other(x), v.I, u.N, u.live, u.W, u.pc, v.pc, u.s, v.g, u.o) /\ z.pc \notin Looping /\ IsSeq(v.I)
      BY <1>k, <1>p DEF Known, Looping
    <3>2. SomeLane(Other(x), v.I, u.N, u.live, u.W, u.pc, z.pc, u.s, v.g, u.o)
      BY ONLY ZenonT(60), <3>1, LanePy
    <3> QED BY <2>1, <3>1, <3>2
  <2>2. CASE v.I # <<>> /\ z.I = Tail(v.I)
    <3>1. Follows(Other(x), Head(v.I), v.pc, v.g, z.pc, z.g)
      BY <1>p DEF Follows, Looping
    <3> QED BY <1>k, <2>2, <3>1, ViewTaken
  <2> QED BY <2>1, <2>2 DEF Reading
<1>8. SideOk(x, z)
  BY <1>k, <1>p, <1>6, <1>7, SideSame DEF Known
<1> QED BY <1>q, <1>6, <1>7, <1>8, PairSame

(* The client writes its last frame. *)
LEMMA ViewMsg3 ==
  ASSUME NEW v, NEW u, Pair("client", v, u), NEW z, NEW f, v.pc \in Pre("client"), v.pc # "off", z.pc = "ticket",
         z.W = Append(v.W, f), v.I # <<>>, z.I = Tail(v.I), z.N = v.N, z.live = v.live, Says(v, z), z.g = v.g,
         "t" \in DOMAIN f, f.t = "MSG3"
  PROVE  Pair("client", z, u)
<1> DEFINE x == "client"
<1>x. x \in Sides
  BY DEF Sides
<1>k. Known(x, v, u)
  BY PairKnown
<1>q. z.o = v.o /\ z.s = v.s
  BY DEF Says
<1>p. v.pc \notin {"ticket", "loop", "wait", "recv", "done"} /\ "ticket" \notin Pre(x)
  BY DEF Pre
<1>1. Tip(x, v.pc, v.s, v.o) = -1 /\ Tip(x, z.pc, v.s, z.o) = 0
  BY <1>p DEF Tip
<1>2. Len(v.s) \in Nat
  BY <1>k, SeqLen DEF Known
<1>3. 0 \in Int /\ 0 = -1 + 1 /\ 0 <= Len(v.s) /\ ~(0 < 0) /\ ~(0 >= 1)
  BY ONLY SMT, Zenon, SMTT(60), ZenonT(60), <1>2
<1>4. FrameIs(x, f, 0)
  BY <1>3 DEF FrameIs
<1>5. Wrote1(x, v, u, z, f)
  BY <1>q, <1>p, <1>1, <1>3, <1>4 DEF Wrote1
<1>6. SomeLane(x, u.I, z.N, z.live, z.W, z.pc, u.pc, z.s, u.g, z.o) /\ IsSeq(z.W)
  BY <1>x, <1>k, <1>5, ViewWritten
<1>7. Follows(Other(x), Head(v.I), v.pc, v.g, z.pc, z.g)
  BY DEF Follows, Looping
<1>8. SomeLane(Other(x), z.I, u.N, u.live, u.W, u.pc, z.pc, u.s, z.g, u.o) /\ IsSeq(z.I)
  BY <1>x, <1>k, <1>7, ViewTaken
<1>9. SideOk(x, z)
  <2>1. z.pc \in Pcs(x)
    BY DEF Pcs
  <2> QED BY <2>1, <1>k, <1>p, <1>6, <1>8, SideSame DEF Known
<1> QED BY <1>x, <1>q, <1>6, <1>8, <1>9, PairSame

(* The server has read the client's last frame and writes its own, the ticket. *)
LEMMA ViewServes ==
  ASSUME NEW v, NEW u, Pair("server", v, u), NEW z, NEW f, v.pc = "msg3", z.pc = "loop",
         z.W = Append(v.W, f), v.I # <<>>, z.I = Tail(v.I), z.N = v.N, z.live = v.live, Says(v, z), z.g = v.g,
         Head(v.I).t = "MSG3", "t" \in DOMAIN f, f.t = "DATA", Boxed(f), f.box.text.ticket # <<>>
  PROVE  Pair("server", z, u)
<1> DEFINE x == "server"
<1>x. x \in Sides
  BY DEF Sides
<1>k. Known(x, v, u)
  BY PairKnown
<1>q. z.o = v.o /\ z.s = v.s
  BY DEF Says
<1>p. v.pc \in Pre(x) /\ "loop" \notin Pre(x) /\ v.pc \notin {"off", "ticket", "loop", "wait", "recv", "done"}
  BY DEF Pre
<1>e. v.s = <<>> /\ v.o = <<>> /\ v.g = <<>>
  BY <1>k, <1>p DEF Known, SideOk
<1>1. Tip(x, v.pc, v.s, v.o) = -1 /\ Tip(x, z.pc, v.s, z.o) = Len(v.s) - Len(z.o)
  BY <1>p DEF Tip
<1>2. Len(v.s) = 0 /\ Len(z.o) = 0 /\ Len(z.g) = 0
  BY <1>q, <1>e, SeqEmpty
<1>3. Len(v.s) - Len(z.o) = 0 /\ 0 \in Int /\ 0 = -1 + 1 /\ 0 <= Len(v.s) /\ ~(0 < 0) /\ ~(0 >= 1)
  BY ONLY SMT, Zenon, SMTT(60), ZenonT(60), <1>2
<1>4. FrameIs(x, f, 0)
  BY <1>3 DEF FrameIs
<1>5. Wrote1(x, v, u, z, f)
  <2>1. Tip(x, z.pc, v.s, z.o) = 0
    BY <1>1, <1>3
  <2> QED BY <1>q, <1>p, <1>1, <1>3, <1>4, <2>1 DEF Wrote1
<1>6. SomeLane(x, u.I, z.N, z.live, z.W, z.pc, u.pc, z.s, u.g, z.o) /\ IsSeq(z.W)
  BY <1>x, <1>k, <1>5, ViewWritten
<1>7. Follows(Other(x), Head(v.I), v.pc, v.g, z.pc, z.g)
  <2>1. ASSUME NEW m \in Int, FrameIs(Other(x), Head(v.I), m) PROVE m = 0
    <3>1. ~(m < 0) /\ ~(m >= 1)
      BY <2>1 DEF FrameIs
    <3> QED BY ONLY SMT, Zenon, SMTT(60), ZenonT(60), m \in Int, <3>1
  <2> QED BY <2>1, <1>2 DEF Follows
<1>8. SomeLane(Other(x), z.I, u.N, u.live, u.W, u.pc, z.pc, u.s, z.g, u.o) /\ IsSeq(z.I)
  BY <1>x, <1>k, <1>7, ViewTaken
<1>9. SideOk(x, z)
  <2>1. z.pc \in Pcs(x)
    BY DEF Pcs
  <2> QED BY <2>1, <1>k, <1>p, <1>6, <1>8, SideSame DEF Known
<1> QED BY <1>x, <1>q, <1>6, <1>8, <1>9, PairSame

(* The client has read the ticket. *)
LEMMA ViewTicket ==
  ASSUME NEW v, NEW u, Pair("client", v, u), NEW z, v.pc = "ticket", z.pc = "loop",
         v.I # <<>>, z.I = Tail(v.I), Queues(v, z), Says(v, z), z.g = v.g,
         Head(v.I).t = "DATA", Head(v.I).box.text.ticket # <<>>
  PROVE  Pair("client", z, u)
<1> DEFINE x == "client"
<1>x. x \in Sides
  BY DEF Sides
<1>k. Known(x, v, u)
  BY PairKnown
<1>q. z.o = v.o /\ z.s = v.s /\ z.N = v.N /\ z.live = v.live /\ z.W = v.W
  BY DEF Says, Queues
<1>p. "ticket" \notin Pre(x) /\ "loop" \notin Pre(x)
  BY DEF Pre
<1>e. v.s = <<>> /\ v.o = <<>> /\ v.g = <<>>
  BY <1>k DEF Known, SideOk
<1>2. Len(v.s) = 0 /\ Len(v.o) = 0 /\ Len(z.g) = 0
  BY <1>e, SeqEmpty
<1>1. Tip(x, z.pc, v.s, v.o) = Len(v.s) - Len(v.o) /\ Tip(x, v.pc, v.s, v.o) = 0
  BY <1>p DEF Tip
<1>3. Len(v.s) - Len(v.o) = 0
  BY ONLY SMT, Zenon, SMTT(60), ZenonT(60), <1>2
<1>4. SomeLane(x, u.I, v.N, v.live, v.W, v.pc, u.pc, v.s, u.g, v.o) /\ v.pc # "off" /\ z.pc # "off" /\ v.pc # "done"
      /\ Tip(x, z.pc, v.s, v.o) = Tip(x, v.pc, v.s, v.o)
  BY <1>k, <1>1, <1>3 DEF Known
<1>5. SomeLane(x, u.I, v.N, v.live, v.W, z.pc, u.pc, v.s, u.g, v.o)
  BY ONLY ZenonT(60), <1>4, LanePc
<1>6. SomeLane(x, u.I, z.N, z.live, z.W, z.pc, u.pc, v.s, u.g, v.o) /\ IsSeq(z.W)
  BY <1>k, <1>q, <1>5 DEF Known
<1>7. Follows(Other(x), Head(v.I), v.pc, v.g, z.pc, z.g)
  <2>1. ASSUME NEW m \in Int, FrameIs(Other(x), Head(v.I), m) PROVE m = 0
    <3>1. ~(m < 0) /\ ~(m >= 1)
      BY <2>1 DEF FrameIs
    <3> QED BY ONLY SMT, Zenon, SMTT(60), ZenonT(60), m \in Int, <3>1
  <2> QED BY <2>1, <1>2 DEF Follows
<1>8. SomeLane(Other(x), z.I, u.N, u.live, u.W, u.pc, z.pc, u.s, z.g, u.o) /\ IsSeq(z.I)
  BY <1>x, <1>k, <1>7, ViewTaken
<1>9. SideOk(x, z)
  <2>1. z.pc \in Pcs(x)
    BY DEF Pcs
  <2> QED BY <2>1, <1>k, <1>q, <1>6, <1>8, SideSame DEF Known
<1> QED BY <1>x, <1>6, <1>8, <1>9, PairSame

(* A worker takes a frame it cannot use. *)
LEMMA ViewDrops ==
  ASSUME NEW x \in Sides, NEW v, NEW u, Pair(x, v, u), NEW z, v.pc = "wait", z.pc = "done",
         v.I # <<>>, z.I = Tail(v.I), Queues(v, z), Says(v, z), z.g = v.g
  PROVE  Pair(x, z, u)
<1>k. Known(x, v, u)
  BY PairKnown
<1>q. z.N = v.N /\ z.live = v.live /\ z.W = v.W
  BY DEF Queues
<1>4. SomeLane(x, u.I, v.N, v.live, v.W, v.pc, u.pc, v.s, u.g, v.o) /\ v.pc # "off" /\ z.pc # "off" /\ z.pc = "done"
  BY <1>k DEF Known
<1>5. SomeLane(x, u.I, v.N, v.live, v.W, z.pc, u.pc, v.s, u.g, v.o)
  BY ONLY ZenonT(60), <1>4, LanePc
<1>6. SomeLane(x, u.I, z.N, z.live, z.W, z.pc, u.pc, v.s, u.g, v.o) /\ IsSeq(z.W)
  BY <1>k, <1>q, <1>5 DEF Known
<1>7. Follows(Other(x), Head(v.I), v.pc, v.g, z.pc, z.g)
  BY DEF Follows, Looping
<1>8. SomeLane(Other(x), z.I, u.N, u.live, u.W, u.pc, z.pc, u.s, z.g, u.o) /\ IsSeq(z.I)
  BY <1>k, <1>7, ViewTaken
<1>9. SideOk(x, z)
  <2>1. z.pc \in Pcs(x)
    BY DEF Pcs
  <2> QED BY <2>1, <1>k, <1>q, <1>6, <1>8, SideSame DEF Known
<1> QED BY <1>6, <1>8, <1>9, PairSame

(* A worker hears a message. *)
LEMMA ViewHears ==
  ASSUME NEW x \in Sides, NEW v, NEW u, Pair(x, v, u), NEW z, v.pc = "wait", z.pc = "loop",
         v.I # <<>>, z.I = Tail(v.I), Queues(v, z), Says(v, z), z.g = Append(v.g, Head(v.I).box.text.msg)
  PROVE  Pair(x, z, u)
<1> DEFINE n == Len(v.g)
<1>k. Known(x, v, u)
  BY PairKnown
<1>q. z.N = v.N /\ z.live = v.live /\ z.W = v.W /\ z.o = v.o /\ z.s = v.s
  BY DEF Queues, Says
<1>1. /\ SomeLane(Other(x), v.I, u.N, u.live, u.W, u.pc, v.pc, u.s, v.g, u.o) /\ IsSeq(v.I) /\ v.I # <<>>
      /\ IsSeq(u.N) /\ u.live \in BOOLEAN /\ IsSeq(u.W) /\ IsSeq(u.s) /\ IsSeq(v.g) /\ v.pc \in Looping
  BY <1>k DEF Known, Looping
<1>2. FrameIs(Other(x), Head(v.I), n + 1) /\ n + 1 <= Len(u.s) /\ n \in Nat
  BY ONLY ZenonT(60), <1>1, LaneHead
<1>3. n + 1 >= 1
  BY ONLY SMT, Zenon, SMTT(60), ZenonT(60), <1>2
<1>4. Head(v.I).box.text.msg = n + 1
  BY <1>2, <1>3 DEF FrameIs
<1>5. Appended(v.g, n + 1, z.g)
  BY <1>1, <1>4, SeqAppend
<1>6. IsSeq(z.g) /\ Len(z.g) = n + 1 /\ z.g[n + 1] = n + 1 /\ \A i \in 1 .. n : z.g[i] = v.g[i]
  BY <1>5 DEF Appended
<1>7. \A i \in 1 .. Len(z.g) : z.g[i] = i
  <2>1. \A i \in 1 .. n : v.g[i] = i
    BY <1>k DEF Known, SideOk
  <2>2. \A i \in 1 .. n + 1 : i \in 1 .. n \/ i = n + 1
    BY ONLY SMT, Zenon, SMTT(60), ZenonT(60), <1>2
  <2> QED BY <1>6, <2>1, <2>2
<1>8. Follows(Other(x), Head(v.I), v.pc, v.g, z.pc, z.g)
  BY <1>1, <1>6 DEF Follows
<1>9. SomeLane(Other(x), z.I, u.N, u.live, u.W, u.pc, z.pc, u.s, z.g, u.o) /\ IsSeq(z.I)
  BY <1>k, <1>8, ViewTaken
<1>10. SomeLane(x, u.I, v.N, v.live, v.W, v.pc, u.pc, v.s, u.g, v.o) /\ v.pc # "off" /\ z.pc # "off" /\ v.pc # "done"
       /\ Tip(x, z.pc, v.s, v.o) = Tip(x, v.pc, v.s, v.o)
  BY <1>k DEF Known, Tip, Pre
<1>11. SomeLane(x, u.I, v.N, v.live, v.W, z.pc, u.pc, v.s, u.g, v.o)
  BY ONLY ZenonT(60), <1>10, LanePc
<1>12. SomeLane(x, u.I, z.N, z.live, z.W, z.pc, u.pc, z.s, u.g, z.o)
  BY <1>q, <1>11
<1>13. SideOk(x, z)
  <2>1. /\ v.live \in BOOLEAN /\ IsSeq(v.N) /\ IsSeq(v.W) /\ IsSeq(v.o) /\ IsSeq(v.s)
        /\ \A i \in 1 .. Len(v.s) : v.s[i] = i
        /\ Len(v.o) <= Len(v.s) /\ \A i \in 1 .. Len(v.o) : v.o[i] = (Len(v.s) - Len(v.o)) + i
    BY <1>k DEF Known, SideOk
  <2>2. z.pc \in Pcs(x)
    BY DEF Pcs
  <2> QED BY <1>q, <1>6, <1>7, <1>9, <2>1, <2>2 DEF SideOk
<1>14. Len(v.s) <= Len(z.s)
  <2>1. Len(v.s) \in Nat
    BY <1>k, SeqLen DEF Known
  <2>2. Len(v.s) <= Len(v.s)
    BY ONLY SMT, Zenon, SMTT(60), ZenonT(60), <2>1
  <2> QED BY <1>q, <2>2
<1>15. Len(z.g) <= Len(u.s)
  BY <1>2, <1>6
<1> QED BY <1>9, <1>12, <1>13, <1>14, <1>15, PairOf

-----------------------------------------------------------------------------
(* A side of a connection: its worker's state, its queues, what it was given to
   send and what it has heard. *)
View(c, x) ==
  [pc |-> w[c][x].pc, I |-> br[c][x].inbound, N |-> net[c][x].frames, live |-> "out" \in task[c][x],
   W |-> br[c][x].wire, o |-> br[c][x].outbox, s |-> hist.sent[c][x], g |-> hist.got[c][x]]
LinkInv == \A c \in Conns : Pair("client", View(c, "client"), View(c, "server"))

-----------------------------------------------------------------------------
(* The history is a record, and only a packet given to the bare session changes
   the window and what it has accepted. *)
HistFields == {"sent", "got", "uses", "nonces", "reused", "flipped", "damaged", "accepted"}
HistInv == DOMAIN hist = HistFields
SameWindow == win' = win /\ hist'.accepted = hist.accepted /\ DOMAIN hist' = HistFields

LEMMA UsedWindow ==
  ASSUME HistInv, NEW boxes
  PROVE  Used(hist, boxes).accepted = hist.accepted /\ DOMAIN Used(hist, boxes) = HistFields
BY DEF HistInv, HistFields, Used

LEMMA FailsWindow ==
  ASSUME HistInv, NEW c, NEW x, Fails(c, x), Frame0
  PROVE  SameWindow
BY DEF HistInv, SameWindow, Fails, Frame0

LEMMA ClientWindow ==
  ASSUME HistInv, NEW c, Client(c)
  PROVE  SameWindow
<1>1. CASE ClientFull(c)
  BY <1>1 DEF HistInv, SameWindow, ClientFull, Frame0
<1>2. CASE ClientResume(c)
  <2>1. win' = win /\ \E b : hist' = Used(hist, b)
    BY <1>2 DEF ClientResume, Frame0
  <2> QED BY <2>1, UsedWindow DEF SameWindow
<1>3. CASE ClientCookie(c)
  BY <1>3 DEF HistInv, SameWindow, ClientCookie, Frame0
<1>4. CASE ClientRejected(c)
  BY <1>4 DEF HistInv, SameWindow, ClientRejected, Frame0
<1>5. CASE ClientMsg2(c)
  <2>1. Frame0 /\ (Fails(c, "client") \/ \E b : hist' = Used(hist, b))
    BY <1>5 DEF ClientMsg2
  <2>2. CASE Fails(c, "client")
    BY <2>1, <2>2, FailsWindow
  <2>3. CASE \E b : hist' = Used(hist, b)
    BY <2>1, <2>3, UsedWindow DEF SameWindow, Frame0
  <2> QED BY <2>1, <2>2, <2>3
<1>6. CASE ClientTicket(c)
  <2>1. Frame0 /\ (Fails(c, "client") \/ UNCHANGED hist)
    BY <1>6 DEF ClientTicket
  <2>2. CASE Fails(c, "client")
    BY <2>1, <2>2, FailsWindow
  <2>3. CASE UNCHANGED hist
    BY <2>1, <2>3 DEF SameWindow, HistInv, Frame0
  <2> QED BY <2>1, <2>2, <2>3
<1> QED BY <1>1, <1>2, <1>3, <1>4, <1>5, <1>6 DEF Client

LEMMA Msg2Window ==
  ASSUME HistInv, NEW c, NEW me, NEW ss, NEW e, NEW peer, NEW flag, SendMsg2(c, me, ss, e, peer, flag), win' = win
  PROVE  SameWindow
<1>1. \E b, u : hist' = [Used(hist, b) EXCEPT !.uses = u]
  BY DEF SendMsg2
<1>2. PICK b, u : hist' = [Used(hist, b) EXCEPT !.uses = u]
  BY <1>1
<1>3. Used(hist, b).accepted = hist.accepted /\ DOMAIN Used(hist, b) = HistFields
  BY UsedWindow
<1> DEFINE h == Used(hist, b)
<1> HIDE DEF h
<1>4. hist'.accepted = h.accepted /\ DOMAIN hist' = DOMAIN h
  <2>1. "accepted" \in DOMAIN h /\ hist' = [h EXCEPT !.uses = u]
    BY <1>2, <1>3 DEF h, HistFields
  <2> QED BY <2>1
<1> QED BY <1>3, <1>4 DEF SameWindow, h

LEMMA RelayWindow ==
  ASSUME HistInv, NEW c, Relay(c)
  PROVE  SameWindow
<1>1. CASE Accept(c)
  BY <1>1 DEF HistInv, SameWindow, Accept
<1>2. CASE LockCache(c)
  BY <1>2 DEF HistInv, SameWindow, LockCache, Frame0
<1>3. CASE ServerMsg1(c)
  BY <1>3 DEF HistInv, SameWindow, ServerMsg1, Frame0
<1>4. CASE ServerRetry(c)
  <2>1. Frame0 /\ (Fails(c, "server") \/ \E me, ss, e, peer, flag : SendMsg2(c, me, ss, e, peer, flag))
    BY <1>4 DEF ServerRetry
  <2>2. win' = win
    BY <2>1 DEF Frame0
  <2> QED BY <2>1, <2>2, FailsWindow, Msg2Window
<1>5. CASE ServerPsk(c)
  <2>1. Frame0 /\ (UNCHANGED hist \/ \E me, ss, e, peer, flag : SendMsg2(c, me, ss, e, peer, flag))
    BY <1>5 DEF ServerPsk
  <2>2. win' = win
    BY <2>1 DEF Frame0
  <2> QED BY <2>1, <2>2, Msg2Window DEF SameWindow, HistInv
<1>6. CASE ServerMsg3(c)
  <2>1. Frame0 /\ (Fails(c, "server") \/ \E b : hist' = Used(hist, b))
    BY <1>6 DEF ServerMsg3
  <2>2. CASE Fails(c, "server")
    BY <2>1, <2>2, FailsWindow
  <2>3. CASE \E b : hist' = Used(hist, b)
    BY <2>1, <2>3, UsedWindow DEF SameWindow, Frame0
  <2> QED BY <2>1, <2>2, <2>3
<1> QED BY <1>1, <1>2, <1>3, <1>4, <1>5, <1>6 DEF Relay

LEMMA SideWindow ==
  ASSUME HistInv, NEW c, NEW x, Side(c, x)
  PROVE  SameWindow
<1>1. CASE ReadEof(c, x)
  BY <1>1, FailsWindow DEF ReadEof
<1>2. CASE ReadUnexpected(c, x)
  BY <1>2, FailsWindow DEF ReadUnexpected
<1>3. CASE LoopSend(c, x)
  <2>1. win' = win /\ \E b : hist' = Used(hist, b)
    BY <1>3 DEF LoopSend, Frame0
  <2> QED BY <2>1, UsedWindow DEF SameWindow
<1>4. CASE LoopDrained(c, x)
  BY <1>4 DEF HistInv, SameWindow, LoopDrained, Frame0
<1>5. CASE LoopWakes(c, x) \/ LoopBlocks(c, x) \/ LoopCut(c, x)
  BY <1>5 DEF HistInv, SameWindow, LoopWakes, LoopBlocks, LoopCut, Frame0
<1>6. CASE LoopRecv(c, x)
  <2>1. win' = win /\ (UNCHANGED hist \/ \E g : hist' = [hist EXCEPT !.got = g])
    BY <1>6 DEF LoopRecv, Frame0
  <2> QED BY <2>1 DEF SameWindow, HistInv, HistFields
<1>7. CASE Outbound(c, x)
  BY <1>7 DEF HistInv, SameWindow, Outbound, TaskFrame
<1>8. CASE Inbound(c, x)
  BY <1>8 DEF HistInv, SameWindow, Inbound, TaskFrame
<1> QED BY <1>1, <1>2, <1>3, <1>4, <1>5, <1>6, <1>7, <1>8 DEF Side

LEMMA InputWindow ==
  ASSUME HistInv, Input
  PROVE  SameWindow \/ \E seq \in 0 .. MaxSeq : Packet(seq)
<1>1. CASE Tick \/ Restart \/ Rekey
  BY <1>1 DEF HistInv, SameWindow, Tick, Restart, Rekey
<1>2. ASSUME NEW c \in Conns, Dial(c) \/ CutOff(c) \/ Freeze(c)
      PROVE  SameWindow
  BY <1>2 DEF HistInv, SameWindow, Dial, CutOff, Freeze
<1>3. ASSUME NEW c \in Conns, NEW x \in Sides, Send(c, x)
      PROVE  SameWindow
  <2>1. win' = win /\ \E s : hist' = [hist EXCEPT !.sent = s]
    BY <1>3 DEF Send
  <2> QED BY <2>1 DEF SameWindow, HistInv, HistFields
<1>4. ASSUME NEW c \in Conns, NEW x \in Sides, DropReceiver(c, x)
      PROVE  SameWindow
  BY <1>4 DEF HistInv, SameWindow, DropReceiver
<1>5. ASSUME NEW c \in Conns, NEW x \in Sides, Damage(c, x)
      PROVE  SameWindow
  <2>1. win' = win /\ \E d, f : hist' = [hist EXCEPT !.damaged = d, !.flipped = f]
    BY <1>5 DEF Damage
  <2> QED BY <2>1 DEF SameWindow, HistInv, HistFields
<1> QED BY <1>1, <1>2, <1>3, <1>4, <1>5 DEF Input

WindowInv ==
  /\ HistInv
  /\ IsSeq(hist.accepted) /\ WinOk(win, Range(hist.accepted))
  /\ IsInjective(hist.accepted)

LEMMA WindowInit == Init => WindowInv
<1> SUFFICES ASSUME Init PROVE WindowInv
  BY SMTT(60)
<1>1. win = NewWindow /\ hist.accepted = <<>> /\ DOMAIN hist = HistFields
  BY SMTT(60) DEF Init, HistFields
<1>2. Range(hist.accepted) = {}
  BY SMTT(60), <1>1 DEF Range
<1>3. WinOk(win, {})
  BY SMTT(60), <1>1 DEF WinOk, NewWindow
<1>4. IsInjective(hist.accepted)
  BY SMTT(60), <1>1 DEF IsInjective
<1> QED BY <1>1, <1>2, <1>3, <1>4, SeqEmpty DEF WindowInv, HistInv

LEMMA PacketWindow ==
  ASSUME WindowInv, NEW seq \in 0 .. MaxSeq, Packet(seq)
  PROVE  WindowInv'
<1> DEFINE q == hist.accepted
           A == Range(q)
<1>1. DOMAIN hist' = HistFields /\ hist'.accepted = IF Accepts(win, seq) THEN Append(q, seq) ELSE q
  BY DEF Packet, WindowInv, HistInv, HistFields
<1>2. seq \in Nat
  BY SMTT(60), LinkConstants
<1>3. win' = CheckAndMark(win, seq)
  BY DEF Packet
<1>4. CASE ~Accepts(win, seq)
  BY <1>1, <1>3, <1>4 DEF WindowInv, HistInv, CheckAndMark
<1>5. CASE Accepts(win, seq)
  <2>1. seq \notin A /\ WinOk(win', A \cup {seq})
    BY <1>2, <1>3, <1>5, Marked DEF WindowInv
  <2>2. hist'.accepted = Append(q, seq)
    BY <1>1, <1>5
  <2>3. IsSeq(q) /\ IsInjective(q)
    BY DEF WindowInv
  <2>4. Range(hist'.accepted) = A \cup {seq}
    BY <2>2, <2>3, RangeAppend
  <2>5. IsSeq(hist'.accepted)
    <3>1. Appended(q, seq, hist'.accepted)
      BY <2>2, <2>3, SeqAppend
    <3> QED BY <3>1 DEF Appended
  <2>6. IsInjective(hist'.accepted)
    BY <2>1, <2>2, <2>3, InjectiveAppend
  <2> QED BY <1>1, <2>1, <2>3, <2>4, <2>5, <2>6 DEF WindowInv, HistInv
<1> QED BY <1>4, <1>5

LEMMA WindowStep == WindowInv /\ [Next]_vars => WindowInv'
<1> SUFFICES ASSUME WindowInv, [Next]_vars PROVE WindowInv'
  BY SMTT(60)
<1>1. HistInv
  BY DEF WindowInv
<1>2. SameWindow \/ \E seq \in 0 .. MaxSeq : Packet(seq)
  <2>1. CASE Progress
    BY <1>1, <2>1, ClientWindow, RelayWindow, SideWindow DEF Progress
  <2>2. CASE Input
    BY <1>1, <2>2, InputWindow
  <2>3. CASE UNCHANGED vars
    BY <1>1, <2>3 DEF vars, SameWindow, HistInv
  <2> QED BY <2>1, <2>2, <2>3 DEF Next
<1>3. CASE SameWindow
  BY <1>3 DEF SameWindow, WindowInv, HistInv
<1> QED BY <1>2, <1>3, PacketWindow

(* The window of a session accepts no number twice, and its bits say exactly which
   of the last WindowSize numbers were accepted, whatever the order in which packets
   come and however often they come again, for every width of the window
   (session.rs: check_and_mark). *)
THEOREM WindowHolds == Spec => []WindowIsExact
<1>1. WindowInv => WindowIsExact
  BY WindowBits DEF WindowInv, WindowIsExact
<1> QED BY <1>1, WindowInit, WindowStep, PTL DEF Spec

(* Damage keeps a frame's number. *)
LEMMA DamagedFrame ==
  ASSUME NEW x, NEW h, NEW m, FrameIs(x, h, m), NEW f \in Damaged(h)
  PROVE  FrameIs(x, f, m)
<1>1. "t" \in DOMAIN h
  BY DEF FrameIs
<1>2. \/ f = [h EXCEPT !.t = "?"] \/ f = [h EXCEPT !.t = "long"]
      \/ \E v : f = [h EXCEPT !.e = v] \/ f = [h EXCEPT !.cookie = v] \/ f = [h EXCEPT !.ticket = v]
                \/ f = [h EXCEPT !.early = v] \/ f = [h EXCEPT !.ct = v] \/ f = [h EXCEPT !.se = v] \/ f = [h EXCEPT !.st = v]
      \/ f = [h EXCEPT !.box.key = Noise]
  <2>2. CASE h.t = "MSG1"
    BY SMTT(60), <2>2 DEF Damaged
  <2>3. CASE h.t = "COOKIE"
    BY SMTT(60), <2>3 DEF Damaged
  <2>4. CASE h.t = "RETRY"
    BY SMTT(60), <2>4 DEF Damaged
  <2>5. CASE h.t = "MSG1_PSK"
    BY SMTT(60), <2>5 DEF Damaged
  <2>6. CASE h.t = "MSG2"
    BY SMTT(60), <2>6 DEF Damaged
  <2>7. CASE h.t = "MSG3"
    BY SMTT(60), <2>7 DEF Damaged
  <2>8. CASE h.t = "DATA"
    BY SMTT(60), <2>8 DEF Damaged
  <2>9. CASE h.t \notin {"MSG1", "COOKIE", "RETRY", "MSG1_PSK", "MSG2", "MSG3", "DATA"}
    BY SMTT(60), <2>9 DEF Damaged
  <2> QED BY <2>2, <2>3, <2>4, <2>5, <2>6, <2>7, <2>8, <2>9
<1>3. CASE f = [h EXCEPT !.t = "?"] \/ f = [h EXCEPT !.t = "long"]
  <2>1. f.t \in {"?", "long"} /\ DOMAIN f = DOMAIN h /\ ("box" \in DOMAIN h => f.box = h.box)
    BY <1>1, <1>3
  <2> QED BY <2>1 DEF FrameIs, Boxed
<1>4. ASSUME NEW v, f = [h EXCEPT !.e = v] \/ f = [h EXCEPT !.cookie = v] \/ f = [h EXCEPT !.ticket = v]
                \/ f = [h EXCEPT !.early = v] \/ f = [h EXCEPT !.ct = v] \/ f = [h EXCEPT !.se = v] \/ f = [h EXCEPT !.st = v]
      PROVE  FrameIs(x, f, m)
  <2>1. f.t = h.t /\ DOMAIN f = DOMAIN h /\ ("box" \in DOMAIN h => f.box = h.box)
    BY <1>1, <1>4
  <2> QED BY <2>1 DEF FrameIs, Boxed
<1>5. CASE f = [h EXCEPT !.box.key = Noise]
  <2>1. f.t = h.t /\ DOMAIN f = DOMAIN h /\ ("box" \in DOMAIN h => f.box = [h.box EXCEPT !.key = Noise])
    BY <1>1, <1>5
  <2>2. "box" \in DOMAIN h => DOMAIN f.box = DOMAIN h.box /\ ("text" \in DOMAIN h.box => f.box.text = h.box.text)
    BY <2>1
  <2> QED BY <2>1, <2>2 DEF FrameIs, Boxed
<1> QED BY <1>2, <1>3, <1>4, <1>5

-----------------------------------------------------------------------------
(* States.  The variables by connection and side, and the fields of their records. *)
Grid(f) == DOMAIN f = Conns /\ \A c \in Conns : DOMAIN f[c] = Sides
SetAt(f, g, c, x, v) ==
  /\ Grid(g) /\ g[c][x] = v
  /\ \A d \in Conns, y \in Sides : d # c \/ y # x => g[d][y] = f[d][y]
LEMMA GridSet ==
  ASSUME NEW f, Grid(f), NEW c \in Conns, NEW x \in Sides, NEW v, NEW g, g = [f EXCEPT ![c][x] = v]
  PROVE  SetAt(f, g, c, x, v)
<1>1. DOMAIN g = Conns /\ (\A d \in Conns : d # c => g[d] = f[d]) /\ g[c] = [f[c] EXCEPT ![x] = v]
  BY DEF Grid
<1>2. DOMAIN g[c] = Sides /\ (\A y \in Sides : y # x => g[c][y] = f[c][y]) /\ g[c][x] = v
  BY <1>1 DEF Grid
<1>3. Grid(g)
  <2>1. ASSUME NEW d \in Conns PROVE DOMAIN g[d] = Sides
    <3>1. CASE d = c
      BY <3>1, <1>2
    <3>2. CASE d # c
      BY <3>2, <1>1 DEF Grid
    <3> QED BY <3>1, <3>2
  <2> QED BY <1>1, <2>1 DEF Grid
<1>4. ASSUME NEW d \in Conns, NEW y \in Sides, d # c \/ y # x PROVE g[d][y] = f[d][y]
  <2>1. CASE d = c
    BY <2>1, <1>2, <1>4
  <2>2. CASE d # c
    BY <2>2, <1>1
  <2> QED BY <2>1, <2>2
<1> QED BY <1>2, <1>3, <1>4 DEF SetAt

LEMMA SetTwice ==
  ASSUME NEW f, NEW c, NEW x, NEW v, NEW g, SetAt(f, g, c, x, v), NEW u, NEW h, SetAt(g, h, c, x, u)
  PROVE  SetAt(f, h, c, x, u)
<1>1. ASSUME NEW d \in Conns, NEW y \in Sides, d # c \/ y # x PROVE h[d][y] = f[d][y]
  <2>1. h[d][y] = g[d][y]
    BY <1>1 DEF SetAt
  <2>2. g[d][y] = f[d][y]
    BY <1>1 DEF SetAt
  <2> QED BY <2>1, <2>2
<1>2. Grid(h) /\ h[c][x] = u
  BY DEF SetAt
<1> QED BY ONLY ZenonT(60), <1>1, <1>2 DEF SetAt

WorkerFields ==
  {"pc", "e", "peerE", "ss", "ticket", "early", "ses", "peer", "resumed", "tx", "rx", "listens"}
BridgeFields == {"inbound", "outbox", "wire", "closed"}
StreamFields == {"frames", "fin"}
Grids == Grid(w) /\ Grid(br) /\ Grid(task) /\ Grid(net) /\ HistInv /\ Grid(hist.sent) /\ Grid(hist.got)
Records ==
  \A c \in Conns, x \in Sides :
    DOMAIN w[c][x] = WorkerFields /\ DOMAIN br[c][x] = BridgeFields /\ DOMAIN net[c][x] = StreamFields
ShapeInv == Grids /\ Records

ViewIs(z, p, b, n, t, s, g) ==
  /\ z.pc = p /\ z.I = b.inbound /\ z.W = b.wire /\ z.o = b.outbox /\ z.N = n.frames
  /\ z.live = ("out" \in t) /\ z.s = s /\ z.g = g
LEMMA ViewNow ==
  ASSUME NEW c, NEW x
  PROVE  ViewIs(View(c, x), w[c][x].pc, br[c][x], net[c][x], task[c][x], hist.sent[c][x], hist.got[c][x])
BY SMT, SMTT(30) DEF View, ViewIs
LEMMA ViewNext ==
  ASSUME NEW c, NEW x
  PROVE  ViewIs(View(c, x)', w'[c][x].pc, br'[c][x], net'[c][x], task'[c][x], hist'.sent[c][x], hist'.got[c][x])
BY SMTT(60) DEF View, ViewIs

(* A step of side x of connection c leaves the other views alone. *)
OthersSame(c, x) == \A d \in Conns, y \in Sides : d # c \/ y # x => View(d, y)' = View(d, y)
LEMMA SideStep ==
  ASSUME LinkInv, NEW c \in Conns, NEW x \in Sides, OthersSame(c, x),
         Pair(x, View(c, x), View(c, Other(x))) => Pair(x, View(c, x)', View(c, Other(x)))
  PROVE  LinkInv'
<1>1. "client" \in Sides /\ "server" \in Sides /\ Other("client") = "server" /\ Other("server") = "client"
  BY DEF Sides, Other
<1>2. x = "client" \/ x = "server"
  BY DEF Sides
<1>3. Pair("client", View(c, "client"), View(c, "server")) /\ Pair("server", View(c, "server"), View(c, "client"))
  BY <1>1, Swap DEF LinkInv
<1>4. Pair("client", View(c, "client")', View(c, "server")')
  <2>1. CASE x = "client"
    <3>1. View(c, "server")' = View(c, "server")
      BY <2>1, <1>1 DEF OthersSame
    <3> QED BY <3>1, <2>1, <1>1, <1>3
  <2>2. CASE x = "server"
    <3>1. View(c, "client")' = View(c, "client")
      BY <2>2, <1>1 DEF OthersSame
    <3>2. Pair("server", View(c, "server")', View(c, "client"))
      BY <2>2, <1>1, <1>3
    <3>3. Pair(Other("server"), View(c, "client"), View(c, "server")')
      BY <3>2, <1>1, Swap
    <3> QED BY <3>1, <3>3, <1>1
  <2> QED BY <1>2, <2>1, <2>2
<1>5. ASSUME NEW d \in Conns PROVE Pair("client", View(d, "client")', View(d, "server")')
  <2>1. CASE d = c
    BY <2>1, <1>4
  <2>2. CASE d # c
    <3>1. View(d, "client")' = View(d, "client") /\ View(d, "server")' = View(d, "server")
      BY <2>2, <1>1 DEF OthersSame
    <3> QED BY <3>1 DEF LinkInv
  <2> QED BY <2>1, <2>2
<1> QED BY <1>5 DEF LinkInv

(* A step of side x of connection c. *)
Stepped(c, x, p, b, n, t, s, g) == ShapeInv' /\ OthersSame(c, x) /\ ViewIs(View(c, x)', p, b, n, t, s, g)
LEMMA OneStep ==
  ASSUME ShapeInv, NEW c \in Conns, NEW x \in Sides, NEW nw, NEW nb, NEW nn, NEW nt, NEW ns, NEW ng,
         SetAt(w, w', c, x, nw), SetAt(br, br', c, x, nb), SetAt(net, net', c, x, nn), SetAt(task, task', c, x, nt),
         SetAt(hist.sent, hist'.sent, c, x, ns), SetAt(hist.got, hist'.got, c, x, ng), DOMAIN hist' = HistFields,
         DOMAIN nw = WorkerFields, DOMAIN nb = BridgeFields, DOMAIN nn = StreamFields
  PROVE  Stepped(c, x, nw.pc, nb, nn, nt, ns, ng)
<1>1. Grids'
  BY DEF SetAt, Grids, HistInv
<1>2. Records'
  <2> SUFFICES ASSUME NEW d \in Conns, NEW y \in Sides
               PROVE  DOMAIN w'[d][y] = WorkerFields /\ DOMAIN br'[d][y] = BridgeFields /\ DOMAIN net'[d][y] = StreamFields
    BY DEF Records
  <2>1. CASE d = c /\ y = x
    BY <2>1 DEF SetAt
  <2>2. CASE d # c \/ y # x
    <3>1. w'[d][y] = w[d][y] /\ br'[d][y] = br[d][y] /\ net'[d][y] = net[d][y]
      BY <2>2 DEF SetAt
    <3>2. DOMAIN w[d][y] = WorkerFields /\ DOMAIN br[d][y] = BridgeFields /\ DOMAIN net[d][y] = StreamFields
      BY DEF ShapeInv, Records
    <3> QED BY <3>1, <3>2
  <2> QED BY <2>1, <2>2
<1>3. ASSUME NEW d \in Conns, NEW y \in Sides, d # c \/ y # x PROVE View(d, y)' = View(d, y)
  <2>1. /\ w'[d][y] = w[d][y] /\ br'[d][y] = br[d][y] /\ net'[d][y] = net[d][y] /\ task'[d][y] = task[d][y]
        /\ hist'.sent[d][y] = hist.sent[d][y] /\ hist'.got[d][y] = hist.got[d][y]
    BY <1>3 DEF SetAt
  <2> QED BY <2>1 DEF View
<1>4. /\ w'[c][x] = nw /\ br'[c][x] = nb /\ net'[c][x] = nn /\ task'[c][x] = nt
      /\ hist'.sent[c][x] = ns /\ hist'.got[c][x] = ng
  BY DEF SetAt
<1>5. ViewIs(View(c, x)', nw.pc, nb, nn, nt, ns, ng)
  <2>1. ViewIs(View(c, x)', w'[c][x].pc, br'[c][x], net'[c][x], task'[c][x], hist'.sent[c][x], hist'.got[c][x])
    BY ViewNext
  <2> QED BY <1>4, <2>1
<1> QED BY <1>1, <1>2, <1>3, <1>5 DEF Stepped, OthersSame, ShapeInv

LEMMA GridSame ==
  ASSUME NEW f, Grid(f), NEW c \in Conns, NEW x \in Sides, NEW g, g = f
  PROVE  SetAt(f, g, c, x, f[c][x])
BY DEF SetAt

(* What most steps leave alone. *)
HistKept == hist'.sent = hist.sent /\ hist'.got = hist.got /\ DOMAIN hist' = HistFields
LEMMA HistSetAt ==
  ASSUME ShapeInv, NEW c \in Conns, NEW x \in Sides, HistKept
  PROVE  SetAt(hist.sent, hist'.sent, c, x, hist.sent[c][x]) /\ SetAt(hist.got, hist'.got, c, x, hist.got[c][x])
<1>1. Grid(hist.sent) /\ Grid(hist.got) /\ hist'.sent = hist.sent /\ hist'.got = hist.got
  BY DEF ShapeInv, Grids, HistKept
<1> QED BY <1>1, GridSame

(* A step of a worker. *)
Worked(c, x, p, b) == Stepped(c, x, p, b, net[c][x], task[c][x], hist.sent[c][x], hist.got[c][x])
LEMMA WorkerStep ==
  ASSUME ShapeInv, NEW c \in Conns, NEW x \in Sides, NEW nw, NEW nb, Becomes(c, x, nw, nb), DOMAIN nw = WorkerFields,
         DOMAIN nb = BridgeFields, task' = task, net' = net, HistKept
  PROVE  Worked(c, x, nw.pc, nb)
<1>1. Grid(w) /\ Grid(br) /\ Grid(net) /\ Grid(task) /\ w' = [w EXCEPT ![c][x] = nw] /\ br' = [br EXCEPT ![c][x] = nb]
  BY DEF ShapeInv, Grids, Becomes
<1>2. SetAt(w, w', c, x, nw) /\ SetAt(br, br', c, x, nb)
  BY <1>1, GridSet
<1>3. SetAt(net, net', c, x, net[c][x]) /\ SetAt(task, task', c, x, task[c][x])
  BY <1>1, GridSame
<1>4. SetAt(hist.sent, hist'.sent, c, x, hist.sent[c][x]) /\ SetAt(hist.got, hist'.got, c, x, hist.got[c][x])
  BY HistSetAt
<1>5. DOMAIN net[c][x] = StreamFields /\ DOMAIN hist' = HistFields
  BY DEF ShapeInv, Records, HistKept
<1> QED BY <1>2, <1>3, <1>4, <1>5, OneStep DEF Worked

(* What the bridge of a worker's step makes of the view. *)
Idled(v, z, p) == z.pc = p /\ z.I = v.I /\ Queues(v, z) /\ Says(v, z) /\ z.g = v.g
TookOne(v, z, p) == z.pc = p /\ z.I = Tail(v.I) /\ Queues(v, z) /\ Says(v, z) /\ z.g = v.g
WroteOne(v, z, p, f) ==
  z.pc = p /\ z.I = v.I /\ z.W = Append(v.W, f) /\ z.N = v.N /\ z.live = v.live /\ Says(v, z) /\ z.g = v.g
Replied(v, z, p, f) ==
  z.pc = p /\ z.I = Tail(v.I) /\ z.W = Append(v.W, f) /\ z.N = v.N /\ z.live = v.live /\ Says(v, z) /\ z.g = v.g

LEMMA BridgeOf ==
  ASSUME ShapeInv, NEW c \in Conns, NEW x \in Sides
  PROVE  DOMAIN br[c][x] = BridgeFields /\ DOMAIN w[c][x] = WorkerFields /\ DOMAIN net[c][x] = StreamFields
BY DEF ShapeInv, Records

LEMMA TookFields ==
  ASSUME ShapeInv, NEW c \in Conns, NEW x \in Sides
  PROVE  /\ DOMAIN Took(c, x) = BridgeFields /\ Took(c, x).inbound = Tail(br[c][x].inbound)
         /\ Took(c, x).wire = br[c][x].wire /\ Took(c, x).outbox = br[c][x].outbox
BY BridgeOf DEF Took, BridgeFields

LEMMA WroteFields ==
  ASSUME NEW b, DOMAIN b = BridgeFields, NEW f
  PROVE  /\ DOMAIN Wrote(b, f) = BridgeFields /\ Wrote(b, f).inbound = b.inbound
         /\ Wrote(b, f).wire = Append(b.wire, f) /\ Wrote(b, f).outbox = b.outbox
BY DEF Wrote, BridgeFields

LEMMA ClosedFields ==
  ASSUME NEW b, DOMAIN b = BridgeFields
  PROVE  LET k == [b EXCEPT !.closed = TRUE]
         IN  DOMAIN k = BridgeFields /\ k.inbound = b.inbound /\ k.wire = b.wire /\ k.outbox = b.outbox
BY DEF BridgeFields

LEMMA WorkedIdle ==
  ASSUME NEW c, NEW x, NEW p, NEW b, Worked(c, x, p, b), b.inbound = br[c][x].inbound, b.wire = br[c][x].wire,
         b.outbox = br[c][x].outbox
  PROVE  Idled(View(c, x), View(c, x)', p)
<1> DEFINE v == View(c, x)
           z == View(c, x)'
<1>1. ViewIs(v, w[c][x].pc, br[c][x], net[c][x], task[c][x], hist.sent[c][x], hist.got[c][x])
  BY ViewNow
<1>2. ViewIs(z, p, b, net[c][x], task[c][x], hist.sent[c][x], hist.got[c][x])
  BY DEF Worked, Stepped
<1> HIDE DEF v, z
<1>3. Idled(v, z, p)
  BY <1>1, <1>2 DEF ViewIs, Idled, Queues, Says
<1> QED BY <1>3 DEF v, z

LEMMA WorkedTook ==
  ASSUME NEW c, NEW x, NEW p, NEW b, Worked(c, x, p, b), b.inbound = Tail(br[c][x].inbound), b.wire = br[c][x].wire,
         b.outbox = br[c][x].outbox
  PROVE  TookOne(View(c, x), View(c, x)', p)
<1> DEFINE v == View(c, x)
           z == View(c, x)'
<1>1. ViewIs(v, w[c][x].pc, br[c][x], net[c][x], task[c][x], hist.sent[c][x], hist.got[c][x])
  BY ViewNow
<1>2. ViewIs(z, p, b, net[c][x], task[c][x], hist.sent[c][x], hist.got[c][x])
  BY DEF Worked, Stepped
<1> HIDE DEF v, z
<1>3. TookOne(v, z, p)
  BY <1>1, <1>2 DEF ViewIs, TookOne, Queues, Says
<1> QED BY <1>3 DEF v, z

LEMMA WorkedWrote ==
  ASSUME ShapeInv, NEW c \in Conns, NEW x \in Sides, NEW p, NEW f, Worked(c, x, p, Wrote(br[c][x], f))
  PROVE  WroteOne(View(c, x), View(c, x)', p, f)
<1> DEFINE v == View(c, x)
           z == View(c, x)'
           b == Wrote(br[c][x], f)
<1>1. ViewIs(v, w[c][x].pc, br[c][x], net[c][x], task[c][x], hist.sent[c][x], hist.got[c][x])
  BY ViewNow
<1>2. ViewIs(z, p, b, net[c][x], task[c][x], hist.sent[c][x], hist.got[c][x])
  BY DEF Worked, Stepped
<1>3. b.inbound = br[c][x].inbound /\ b.wire = Append(br[c][x].wire, f) /\ b.outbox = br[c][x].outbox
  BY BridgeOf, WroteFields
<1> HIDE DEF v, z, b
<1>4. WroteOne(v, z, p, f)
  BY <1>1, <1>2, <1>3 DEF ViewIs, WroteOne, Says
<1> QED BY <1>4 DEF v, z

LEMMA WorkedReplied ==
  ASSUME ShapeInv, NEW c \in Conns, NEW x \in Sides, NEW p, NEW f, Worked(c, x, p, Wrote(Took(c, x), f))
  PROVE  Replied(View(c, x), View(c, x)', p, f)
<1> DEFINE v == View(c, x)
           z == View(c, x)'
           b == Wrote(Took(c, x), f)
<1>1. ViewIs(v, w[c][x].pc, br[c][x], net[c][x], task[c][x], hist.sent[c][x], hist.got[c][x])
  BY ViewNow
<1>2. ViewIs(z, p, b, net[c][x], task[c][x], hist.sent[c][x], hist.got[c][x])
  BY DEF Worked, Stepped
<1>3. b.inbound = Tail(br[c][x].inbound) /\ b.wire = Append(br[c][x].wire, f) /\ b.outbox = br[c][x].outbox
  <2>1. DOMAIN Took(c, x) = BridgeFields /\ Took(c, x).inbound = Tail(br[c][x].inbound)
        /\ Took(c, x).wire = br[c][x].wire /\ Took(c, x).outbox = br[c][x].outbox
    BY TookFields
  <2>2. b.inbound = Took(c, x).inbound /\ b.wire = Append(Took(c, x).wire, f) /\ b.outbox = Took(c, x).outbox
    BY <2>1, WroteFields
  <2> QED BY <2>1, <2>2
<1> HIDE DEF v, z, b
<1>4. Replied(v, z, p, f)
  BY <1>1, <1>2, <1>3 DEF ViewIs, Replied, Says
<1> QED BY <1>4 DEF v, z

LEMMA Seen ==
  ASSUME NEW c, NEW x
  PROVE  View(c, x).pc = w[c][x].pc /\ View(c, x).I = br[c][x].inbound
BY DEF View

-----------------------------------------------------------------------------
(* The actions keep the invariant. *)
Kept == ShapeInv' /\ LinkInv'

LEMMA HistSame ==
  ASSUME ShapeInv, UNCHANGED hist
  PROVE  HistKept
BY DEF HistKept, ShapeInv, Grids, HistInv
LEMMA HistUsed ==
  ASSUME ShapeInv, NEW boxes, hist' = Used(hist, boxes)
  PROVE  HistKept
<1>1. DOMAIN hist = HistFields
  BY DEF ShapeInv, Grids, HistInv
<1> QED BY <1>1 DEF HistKept, HistFields, Used

LEMMA Tasks ==
  ASSUME Frame0
  PROVE  task' = task /\ net' = net
BY DEF Frame0

LEMMA FailsKeeps ==
  ASSUME ShapeInv, LinkInv, NEW c \in Conns, NEW x \in Sides, Fails(c, x), Frame0, w[c][x].pc # "off"
  PROVE  Kept
<1> DEFINE nw == [w[c][x] EXCEPT !.pc = "done"]
           nb == [br[c][x] EXCEPT !.closed = TRUE]
           v == View(c, x)
           u == View(c, Other(x))
           z == View(c, x)'
<1>1. DOMAIN nw = WorkerFields /\ nw.pc = "done"
  BY BridgeOf DEF WorkerFields
<1>2. DOMAIN nb = BridgeFields /\ nb.inbound = br[c][x].inbound /\ nb.wire = br[c][x].wire /\ nb.outbox = br[c][x].outbox
  BY BridgeOf, ClosedFields
<1>3. Becomes(c, x, nw, nb) /\ HistKept
  BY HistSame DEF Fails
<1> HIDE DEF nw, nb
<1>4. Worked(c, x, nw.pc, nb)
  BY <1>1, <1>2, <1>3, WorkerStep, Tasks
<1>5. Idled(v, z, nw.pc)
  BY <1>2, <1>4, WorkedIdle
<1>6. v.pc # "off"
  BY Seen
<1> HIDE DEF v, u, z
<1>7. Pair(x, v, u) => Pair(x, z, u)
  BY <1>1, <1>5, <1>6, ViewPc DEF Idled
<1>8. ShapeInv' /\ OthersSame(c, x)
  BY <1>4 DEF Worked, Stepped
<1>9. LinkInv'
  BY <1>7, <1>8, SideStep DEF v, u, z
<1> QED BY <1>8, <1>9 DEF Kept

(* A worker's step of the handshake that is not its last. *)
LEMMA ShakesKeeps ==
  ASSUME ShapeInv, LinkInv, NEW c \in Conns, NEW x \in Sides, NEW nw, NEW f, NEW nb,
         Becomes(c, x, nw, nb), Frame0, HistKept, DOMAIN nw = WorkerFields,
         nb = Wrote(br[c][x], f) \/ (br[c][x].inbound # <<>> /\ nb = Wrote(Took(c, x), f)),
         w[c][x].pc \in Pre(x), w[c][x].pc # "off", nw.pc \in Pre(x), nw.pc # "off", "t" \in DOMAIN f, f.t \notin {"DATA", "MSG3"}
  PROVE  Kept
<1> DEFINE v == View(c, x)
           u == View(c, Other(x))
           z == View(c, x)'
<1>1. DOMAIN nb = BridgeFields
  <2>1. DOMAIN br[c][x] = BridgeFields /\ DOMAIN Took(c, x) = BridgeFields
    BY BridgeOf, TookFields
  <2>2. DOMAIN Wrote(br[c][x], f) = BridgeFields /\ DOMAIN Wrote(Took(c, x), f) = BridgeFields
    BY <2>1, WroteFields
  <2> QED BY <2>2
<1>2. Worked(c, x, nw.pc, nb)
  BY <1>1, WorkerStep, Tasks
<1>3. WroteOne(v, z, nw.pc, f) \/ (br[c][x].inbound # <<>> /\ Replied(v, z, nw.pc, f))
  BY <1>2, WorkedWrote, WorkedReplied
<1>4. v.pc = w[c][x].pc /\ v.I = br[c][x].inbound
  BY Seen
<1> HIDE DEF v, u, z
<1>5. z.pc = nw.pc /\ Reading(v, z) /\ z.W = Append(v.W, f) /\ z.N = v.N /\ z.live = v.live /\ Says(v, z) /\ z.g = v.g
  BY <1>3, <1>4 DEF WroteOne, Replied, Reading
<1>6. Pair(x, v, u) => Pair(x, z, u)
  <2>1. v.pc \in Pre(x) /\ v.pc # "off" /\ z.pc \in Pre(x) /\ z.pc # "off"
    BY <1>4, <1>5
  <2> QED BY <1>5, <2>1, ViewShakes
<1>7. ShapeInv' /\ OthersSame(c, x)
  BY <1>2 DEF Worked, Stepped
<1>8. LinkInv'
  BY <1>6, <1>7, SideStep DEF v, u, z
<1> QED BY <1>7, <1>8 DEF Kept

LEMMA NewFields == DOMAIN NewWorker = WorkerFields
BY SMTT(60) DEF NewWorker, WorkerFields

LEMMA PcFields ==
  ASSUME NEW p, NEW e, NEW ss
  PROVE  LET k == [NewWorker EXCEPT !.pc = p, !.e = e, !.ss = ss] IN DOMAIN k = WorkerFields /\ k.pc = p
<1> DEFINE n == NewWorker
<1>1. DOMAIN n = WorkerFields
  BY NewFields
<1> HIDE DEF n
<1>2. LET k == [n EXCEPT !.pc = p, !.e = e, !.ss = ss] IN DOMAIN k = WorkerFields /\ k.pc = p
  BY <1>1 DEF WorkerFields
<1> QED BY <1>2 DEF n

LEMMA FullFields ==
  ASSUME NEW c
  PROVE  DOMAIN FullWorker(c) = WorkerFields /\ FullWorker(c).pc = "cookie"
BY PcFields DEF FullWorker

LEMMA ClientFullKeeps ==
  ASSUME ShapeInv, LinkInv, NEW c \in Conns, ClientFull(c)
  PROVE  Kept
<1> DEFINE x == "client"
           nw == FullWorker(c)
           f == Msg1(FullWorker(c).e)
           nb == Wrote(br[c][x], f)
<1>1. w[c][x].pc = "start" /\ Becomes(c, x, nw, nb) /\ Frame0 /\ UNCHANGED hist
  BY DEF ClientFull, ClientIs
<1>2. x \in Sides /\ "start" \in Pre(x) /\ "cookie" \in Pre(x)
  BY DEF Sides, Pre
<1>3. "t" \in DOMAIN f /\ f.t \notin {"DATA", "MSG3"}
  BY SMTT(60) DEF Msg1
<1>4. HistKept
  BY <1>1, HistSame
<1>5. DOMAIN nw = WorkerFields /\ nw.pc = "cookie"
  BY FullFields
<1> HIDE DEF nw, f
<1> QED BY <1>1, <1>2, <1>3, <1>4, <1>5, ShakesKeeps

LEMMA ClientResumeKeeps ==
  ASSUME ShapeInv, LinkInv, NEW c \in Conns, ClientResume(c)
  PROVE  Kept
<1> DEFINE x == "client"
<1>1. PICK e, ss, b :
        /\ Becomes(c, x, [NewWorker EXCEPT !.pc = "psk", !.e = e, !.ss = ss, !.ticket = slot],
                   Wrote(br[c][x], [t |-> "MSG1_PSK", ticket |-> slot[1], e |-> e, early |-> b]))
        /\ hist' = Used(hist, Range(b))
  BY DEF ClientResume, ClientIs
<1>2. w[c][x].pc = "start" /\ Frame0
  BY DEF ClientResume
<1> DEFINE nw == [NewWorker EXCEPT !.pc = "psk", !.e = e, !.ss = ss, !.ticket = slot]
           f == [t |-> "MSG1_PSK", ticket |-> slot[1], e |-> e, early |-> b]
           nb == Wrote(br[c][x], f)
<1>3. x \in Sides /\ "start" \in Pre(x) /\ "psk" \in Pre(x)
  BY DEF Sides, Pre
<1>4. "t" \in DOMAIN f /\ f.t \notin {"DATA", "MSG3"}
  BY SMTT(60)
<1>5. HistKept
  BY <1>1, HistUsed
<1>6. DOMAIN nw = WorkerFields /\ nw.pc = "psk"
  <2> DEFINE n == NewWorker
             k == [n EXCEPT !.pc = "psk", !.e = e, !.ss = ss, !.ticket = slot]
  <2>1. DOMAIN n = WorkerFields
    BY NewFields
  <2> HIDE DEF n
  <2>2. DOMAIN k = WorkerFields /\ k.pc = "psk"
    BY <2>1 DEF WorkerFields
  <2> QED BY <2>2 DEF n
<1>7. Becomes(c, x, nw, nb)
  BY <1>1
<1> HIDE DEF nw, f
<1> QED BY <1>2, <1>3, <1>4, <1>5, <1>6, <1>7, ShakesKeeps

LEMMA ClientCookieKeeps ==
  ASSUME ShapeInv, LinkInv, NEW c \in Conns, ClientCookie(c)
  PROVE  Kept
<1> DEFINE x == "client"
           nw == [w[c][x] EXCEPT !.pc = "msg2"]
           f == [t |-> "RETRY", cookie |-> Frame(c, x).cookie, e |-> w[c][x].e]
           nb == Wrote(Took(c, x), f)
<1>1. w[c][x].pc = "cookie" /\ br[c][x].inbound # <<>> /\ Becomes(c, x, nw, nb) /\ Frame0 /\ UNCHANGED hist
  BY DEF ClientCookie, ClientIs, Reads
<1>2. x \in Sides /\ "cookie" \in Pre(x) /\ "msg2" \in Pre(x)
  BY DEF Sides, Pre
<1>3. "t" \in DOMAIN f /\ f.t \notin {"DATA", "MSG3"}
  BY SMTT(60)
<1>4. HistKept
  BY <1>1, HistSame
<1>5. DOMAIN nw = WorkerFields /\ nw.pc = "msg2"
  BY <1>2, BridgeOf DEF WorkerFields
<1> HIDE DEF nw, f
<1> QED BY <1>1, <1>2, <1>3, <1>4, <1>5, ShakesKeeps

LEMMA ClientRejectedKeeps ==
  ASSUME ShapeInv, LinkInv, NEW c \in Conns, ClientRejected(c)
  PROVE  Kept
<1> DEFINE x == "client"
           nw == FullWorker(c)
           f == Msg1(FullWorker(c).e)
           nb == Wrote(Took(c, x), f)
<1>1. w[c][x].pc = "psk" /\ br[c][x].inbound # <<>> /\ Becomes(c, x, nw, nb) /\ Frame0 /\ UNCHANGED hist
  BY DEF ClientRejected, ClientIs, Reads, Fallback
<1>2. x \in Sides /\ "psk" \in Pre(x) /\ "cookie" \in Pre(x)
  BY DEF Sides, Pre
<1>3. "t" \in DOMAIN f /\ f.t \notin {"DATA", "MSG3"}
  BY SMTT(60) DEF Msg1
<1>4. HistKept
  BY <1>1, HistSame
<1>5. DOMAIN nw = WorkerFields /\ nw.pc = "cookie"
  BY FullFields
<1> HIDE DEF nw, f
<1> QED BY <1>1, <1>2, <1>3, <1>4, <1>5, ShakesKeeps

LEMMA PcOnly ==
  ASSUME ShapeInv, NEW c \in Conns, NEW x \in Sides, NEW p
  PROVE  LET k == [w[c][x] EXCEPT !.pc = p] IN DOMAIN k = WorkerFields /\ k.pc = p
<1>1. DOMAIN w[c][x] = WorkerFields
  BY BridgeOf
<1> QED BY <1>1 DEF WorkerFields

LEMMA ClientMsg2Keeps ==
  ASSUME ShapeInv, LinkInv, NEW c \in Conns, ClientMsg2(c)
  PROVE  Kept
<1> DEFINE x == "client"
           me == w[c][x]
           v == View(c, x)
           u == View(c, Other(x))
           z == View(c, x)'
<1>1. w[c][x].pc \in {"psk", "msg2"} /\ br[c][x].inbound # <<>> /\ Frame0 /\ x \in Sides
  BY DEF ClientMsg2, Reads, Sides
<1>2. CASE Fails(c, x)
  BY <1>1, <1>2, FailsKeeps
<1>3. CASE ~Fails(c, x)
  <2>1. PICK s, se, st, b, ses, peer, res, early :
          /\ Becomes(c, x, [me EXCEPT !.pc = "ticket", !.ses = ses, !.peer = peer, !.resumed = res, !.early = early],
                     Wrote(Took(c, x), [t |-> "MSG3", se |-> se, st |-> st, box |-> b]))
          /\ hist' = Used(hist, s)
    BY ZenonT(60), SMT, SMTT(30), <1>3 DEF ClientMsg2, ClientIs, WriteMsg3
  <2> DEFINE nw == [me EXCEPT !.pc = "ticket", !.ses = ses, !.peer = peer, !.resumed = res, !.early = early]
             f == [t |-> "MSG3", se |-> se, st |-> st, box |-> b]
             nb == Wrote(Took(c, x), f)
  <2>2. DOMAIN nw = WorkerFields /\ nw.pc = "ticket"
    BY <1>1, BridgeOf DEF WorkerFields
  <2>3. "t" \in DOMAIN f /\ f.t = "MSG3"
    BY SMTT(60)
  <2>4. Becomes(c, x, nw, nb) /\ HistKept
    BY <2>1, HistUsed
  <2> HIDE DEF nw, f
  <2>5. DOMAIN nb = BridgeFields
    <3>1. DOMAIN Took(c, x) = BridgeFields
      BY <1>1, TookFields
    <3> QED BY <3>1, WroteFields
  <2>6. Worked(c, x, nw.pc, nb)
    BY <1>1, <2>2, <2>4, <2>5, WorkerStep, Tasks
  <2>7. Replied(v, z, nw.pc, f)
    BY <1>1, <2>6, WorkedReplied
  <2>8. v.pc = w[c][x].pc /\ v.I = br[c][x].inbound
    BY Seen
  <2> HIDE DEF v, u, z
  <2>9. Pair(x, v, u) => Pair(x, z, u)
    <3>1. v.pc \in Pre("client") /\ v.pc # "off" /\ v.I # <<>>
      BY <1>1, <2>8 DEF Pre
    <3> QED BY <2>2, <2>3, <2>7, <3>1, ViewMsg3 DEF Replied
  <2>10. ShapeInv' /\ OthersSame(c, x)
    BY <2>6 DEF Worked, Stepped
  <2>11. LinkInv'
    BY <1>1, <2>9, <2>10, SideStep DEF v, u, z
  <2> QED BY <2>10, <2>11 DEF Kept
<1> QED BY <1>2, <1>3

LEMMA ClientTicketKeeps ==
  ASSUME ShapeInv, LinkInv, NEW c \in Conns, ClientTicket(c)
  PROVE  Kept
<1> DEFINE x == "client"
           me == w[c][x]
           v == View(c, x)
           u == View(c, Other(x))
           z == View(c, x)'
<1>1. w[c][x].pc = "ticket" /\ br[c][x].inbound # <<>> /\ Frame0 /\ x \in Sides /\ Frame(c, x).t = "DATA"
  BY DEF ClientTicket, Reads, Sides
<1>2. CASE Fails(c, x)
  BY <1>1, <1>2, FailsKeeps
<1>3. CASE ~Fails(c, x)
  <2>1. PICK r : Becomes(c, x, [me EXCEPT !.pc = "loop", !.rx = r], Took(c, x))
    BY <1>3 DEF ClientTicket, ClientIs
  <2>0. UNCHANGED hist /\ Frame(c, x).box.text.ticket # <<>>
    BY <1>3 DEF ClientTicket
  <2> DEFINE nw == [me EXCEPT !.pc = "loop", !.rx = r]
             nb == Took(c, x)
  <2>2. DOMAIN nw = WorkerFields /\ nw.pc = "loop"
    BY <1>1, BridgeOf DEF WorkerFields
  <2>4. Becomes(c, x, nw, nb) /\ HistKept
    BY <2>0, <2>1, HistSame
  <2>5. DOMAIN nb = BridgeFields /\ nb.inbound = Tail(br[c][x].inbound) /\ nb.wire = br[c][x].wire /\ nb.outbox = br[c][x].outbox
    BY <1>1, TookFields
  <2> HIDE DEF nw, nb
  <2>6. Worked(c, x, nw.pc, nb)
    BY <1>1, <2>2, <2>4, <2>5, WorkerStep, Tasks
  <2>7. TookOne(v, z, nw.pc)
    BY <2>5, <2>6, WorkedTook
  <2>8. v.pc = w[c][x].pc /\ v.I = br[c][x].inbound
    BY Seen
  <2> HIDE DEF v, u, z
  <2>9. Pair(x, v, u) => Pair(x, z, u)
    <3>1. v.pc = "ticket" /\ v.I # <<>> /\ Head(v.I).t = "DATA" /\ Head(v.I).box.text.ticket # <<>>
      BY <1>1, <2>0, <2>8 DEF Frame
    <3> QED BY <2>2, <2>7, <3>1, ViewTicket DEF TookOne
  <2>10. ShapeInv' /\ OthersSame(c, x)
    BY <2>6 DEF Worked, Stepped
  <2>11. LinkInv'
    BY <1>1, <2>9, <2>10, SideStep DEF v, u, z
  <2> QED BY <2>10, <2>11 DEF Kept
<1> QED BY <1>2, <1>3

LEMMA ClientKeeps ==
  ASSUME ShapeInv, LinkInv, NEW c \in Conns, Client(c)
  PROVE  Kept
BY ClientFullKeeps, ClientResumeKeeps, ClientCookieKeeps, ClientRejectedKeeps, ClientMsg2Keeps, ClientTicketKeeps DEF Client

(* The frame of a message, or of a ticket. *)
DataOf(key, n, id, tk, m) == [t |-> "DATA", box |-> Seal(key, n, id, [ticket |-> tk, msg |-> m])]
IsData(f, tk, m) == "t" \in DOMAIN f /\ f.t = "DATA" /\ Boxed(f) /\ f.box.text.ticket = tk /\ f.box.text.msg = m
LEMMA DataFrame ==
  ASSUME NEW key, NEW n, NEW id, NEW tk, NEW m
  PROVE  IsData(DataOf(key, n, id, tk, m), tk, m)
BY SMTT(60) DEF Seal, Boxed, DataOf, IsData

(* A worker whose state alone changes. *)
LEMMA PcStep ==
  ASSUME ShapeInv, NEW c \in Conns, NEW x \in Sides, NEW nw, w' = [w EXCEPT ![c][x] = nw], DOMAIN nw = WorkerFields,
         UNCHANGED <<br, hist, task, net>>
  PROVE  Worked(c, x, nw.pc, br[c][x])
<1>1. Grid(w) /\ Grid(br) /\ Grid(net) /\ Grid(task)
  BY DEF ShapeInv, Grids
<1>2. SetAt(w, w', c, x, nw)
  BY <1>1, GridSet
<1>3. br' = br /\ net' = net /\ task' = task /\ HistKept
  BY HistSame
<1>4. SetAt(br, br', c, x, br[c][x]) /\ SetAt(net, net', c, x, net[c][x]) /\ SetAt(task, task', c, x, task[c][x])
  BY <1>1, <1>3, GridSame
<1>5. SetAt(hist.sent, hist'.sent, c, x, hist.sent[c][x]) /\ SetAt(hist.got, hist'.got, c, x, hist.got[c][x])
  BY <1>3, HistSetAt
<1>6. DOMAIN br[c][x] = BridgeFields /\ DOMAIN net[c][x] = StreamFields /\ DOMAIN hist' = HistFields
  BY <1>3, BridgeOf DEF HistKept
<1> QED BY <1>2, <1>4, <1>5, <1>6, OneStep DEF Worked

LEMMA PcKeeps ==
  ASSUME ShapeInv, LinkInv, NEW c \in Conns, NEW x \in Sides, NEW nw, w' = [w EXCEPT ![c][x] = nw], DOMAIN nw = WorkerFields,
         UNCHANGED <<br, hist, task, net>>, w[c][x].pc # "off", nw.pc # "off",
         \/ nw.pc = "done" \/ (w[c][x].pc \in Pre(x) /\ nw.pc \in Pre(x))
         \/ (w[c][x].pc \in Looping /\ nw.pc \in Looping)
  PROVE  Kept
<1> DEFINE v == View(c, x)
           u == View(c, Other(x))
           z == View(c, x)'
<1>1. Worked(c, x, nw.pc, br[c][x])
  BY PcStep
<1>2. Idled(v, z, nw.pc)
  BY <1>1, WorkedIdle
<1>3. v.pc = w[c][x].pc
  BY Seen
<1> HIDE DEF v, u, z
<1>4. z.pc = nw.pc /\ z.I = v.I /\ Queues(v, z) /\ Says(v, z) /\ z.g = v.g
  BY <1>2 DEF Idled
<1>5. v.pc # "off" /\ z.pc # "off" /\ (z.pc = "done" \/ (v.pc \in Pre(x) /\ z.pc \in Pre(x)) \/ (v.pc \in Looping /\ z.pc \in Looping))
  BY <1>3, <1>4
<1>6. Pair(x, v, u) => Pair(x, z, u)
  BY <1>4, <1>5, ViewPc
<1>7. ShapeInv' /\ OthersSame(c, x)
  BY <1>1 DEF Worked, Stepped
<1>8. LinkInv'
  BY <1>6, <1>7, SideStep DEF v, u, z
<1> QED BY <1>7, <1>8 DEF Kept

(* A side starts, with its tasks. *)
LEMMA StartKeeps ==
  ASSUME ShapeInv, LinkInv, NEW c \in Conns, NEW x \in Sides, NEW p \in Pre(x), p # "off", w[c][x].pc = "off",
         w' = [w EXCEPT ![c][x].pc = p], task' = [task EXCEPT ![c][x] = {"in", "out"}], UNCHANGED <<br, net, hist>>
  PROVE  Kept
<1> DEFINE v == View(c, x)
           u == View(c, Other(x))
           z == View(c, x)'
           nw == [w[c][x] EXCEPT !.pc = p]
           nt == {"in", "out"}
<1>0. DOMAIN nw = WorkerFields /\ nw.pc = p
  <2>1. DOMAIN w[c][x] = WorkerFields
    BY BridgeOf
  <2> QED BY ONLY ZenonT(60), <2>1 DEF WorkerFields
<1>w. w' = [w EXCEPT ![c][x] = nw]
  OBVIOUS
<1> HIDE DEF nw
<1>1. Grid(w) /\ Grid(br) /\ Grid(net) /\ Grid(task) /\ br' = br /\ net' = net /\ HistKept
  BY HistSame DEF ShapeInv, Grids
<1>2. SetAt(w, w', c, x, nw) /\ SetAt(task, task', c, x, nt)
  BY <1>w, <1>1, GridSet
<1>3. SetAt(br, br', c, x, br[c][x]) /\ SetAt(net, net', c, x, net[c][x])
  BY <1>1, GridSame
<1>4. SetAt(hist.sent, hist'.sent, c, x, hist.sent[c][x]) /\ SetAt(hist.got, hist'.got, c, x, hist.got[c][x])
  BY <1>1, HistSetAt
<1>5. DOMAIN br[c][x] = BridgeFields /\ DOMAIN net[c][x] = StreamFields /\ DOMAIN hist' = HistFields
  BY <1>1, BridgeOf DEF HistKept
<1>6. Stepped(c, x, nw.pc, br[c][x], net[c][x], nt, hist.sent[c][x], hist.got[c][x])
  BY <1>0, <1>2, <1>3, <1>4, <1>5, OneStep
<1>7. ViewIs(v, w[c][x].pc, br[c][x], net[c][x], task[c][x], hist.sent[c][x], hist.got[c][x])
  BY ViewNow
<1>8. ViewIs(z, nw.pc, br[c][x], net[c][x], nt, hist.sent[c][x], hist.got[c][x])
  BY <1>6 DEF Stepped
<1> HIDE DEF v, u, z
<1>9. z.pc = p /\ z.I = v.I /\ z.N = v.N /\ z.W = v.W /\ Says(v, z) /\ z.g = v.g /\ z.live = TRUE /\ v.pc = "off"
  BY <1>0, <1>7, <1>8 DEF ViewIs, Says
<1>10. Pair(x, v, u) => Pair(x, z, u)
  BY <1>9, ViewStart
<1>11. ShapeInv' /\ OthersSame(c, x)
  BY <1>6 DEF Stepped
<1>12. LinkInv'
  BY <1>10, <1>11, SideStep DEF v, u, z
<1> QED BY <1>11, <1>12 DEF Kept

(* The server's reply, in the handshake. *)
LEMMA ReplyKeeps ==
  ASSUME ShapeInv, LinkInv, NEW c \in Conns, NEW nw, NEW f, Reply(c, nw, f), Frame0, HistKept, DOMAIN nw = WorkerFields,
         br[c]["server"].inbound # <<>>, Server(c).pc \in {"first", "retry", "msg1"}, nw.pc \in {"retry", "msg1", "msg3"},
         "t" \in DOMAIN f, f.t \notin {"DATA", "MSG3"}
  PROVE  Kept
<1> DEFINE x == "server"
           nb == Wrote(Took(c, x), f)
<1>1. Becomes(c, x, nw, nb) /\ x \in Sides
  BY DEF Reply, Sides
<1>2. w[c][x].pc \in Pre(x) /\ w[c][x].pc # "off" /\ nw.pc \in Pre(x) /\ nw.pc # "off"
  BY DEF Pre, Server
<1> QED BY <1>1, <1>2, ShakesKeeps

LEMMA ServerMsg1Keeps ==
  ASSUME ShapeInv, LinkInv, NEW c \in Conns, ServerMsg1(c)
  PROVE  Kept
<1> DEFINE e == Frame(c, "server").e
           nw == [Server(c) EXCEPT !.pc = "retry", !.peerE = e]
           f == [t |-> "COOKIE", cookie |-> Cookie(srv.epoch, e, now)]
<1>1. Reply(c, nw, f) /\ Frame0 /\ HistKept /\ br[c]["server"].inbound # <<>> /\ Server(c).pc \in {"first", "msg1"}
  BY HistSame DEF ServerMsg1, Reads, Server
<1>2. DOMAIN nw = WorkerFields /\ nw.pc = "retry"
  <2>1. DOMAIN Server(c) = WorkerFields
    BY BridgeOf DEF Sides, Server
  <2> QED BY <2>1 DEF WorkerFields
<1>3. "t" \in DOMAIN f /\ f.t \notin {"DATA", "MSG3"}
  BY SMTT(60)
<1> HIDE DEF nw, f
<1> QED BY <1>1, <1>2, <1>3, ReplyKeeps

LEMMA Msg2Keeps ==
  ASSUME ShapeInv, LinkInv, NEW c \in Conns, NEW me, NEW ss, NEW e, NEW peer, NEW flag, SendMsg2(c, me, ss, e, peer, flag),
         Frame0, DOMAIN me = WorkerFields, br[c]["server"].inbound # <<>>, Server(c).pc \in {"first", "retry", "msg1"}
  PROVE  Kept
<1>1. PICK s, ct, b, bs, us :
        /\ Reply(c, [me EXCEPT !.pc = "msg3", !.e = e, !.ss = s], [t |-> "MSG2", early |-> flag, e |-> e, ct |-> ct, box |-> b])
        /\ hist' = [Used(hist, bs) EXCEPT !.uses = us]
  BY DEF SendMsg2, WriteMsg2
<1> DEFINE nw == [me EXCEPT !.pc = "msg3", !.e = e, !.ss = s]
           f == [t |-> "MSG2", early |-> flag, e |-> e, ct |-> ct, box |-> b]
<1>2. DOMAIN nw = WorkerFields /\ nw.pc = "msg3"
  BY DEF WorkerFields
<1>3. "t" \in DOMAIN f /\ f.t \notin {"DATA", "MSG3"}
  BY SMTT(60)
<1>4. HistKept
  <2> DEFINE h == Used(hist, bs)
  <2>1. DOMAIN h = HistFields /\ h.sent = hist.sent /\ h.got = hist.got
    <3>1. DOMAIN hist = HistFields
      BY DEF ShapeInv, Grids, HistInv
    <3> QED BY <3>1 DEF HistFields, Used
  <2> HIDE DEF h
  <2>2. hist' = [h EXCEPT !.uses = us]
    BY <1>1 DEF h
  <2> QED BY <2>1, <2>2 DEF HistKept, HistFields
<1>5. Reply(c, nw, f)
  BY <1>1
<1> HIDE DEF nw, f
<1> QED BY <1>2, <1>3, <1>4, <1>5, ReplyKeeps

LEMMA RelayKeeps ==
  ASSUME ShapeInv, LinkInv, NEW c \in Conns, Relay(c)
  PROVE  Kept
<1> DEFINE x == "server"
<1>0. x \in Sides /\ DOMAIN Server(c) = WorkerFields
  BY BridgeOf DEF Sides, Server
<1>1. CASE Accept(c)
  <2>1. /\ w[c][x].pc = "off" /\ w' = [w EXCEPT ![c][x].pc = "lock"] /\ task' = [task EXCEPT ![c][x] = {"in", "out"}]
        /\ UNCHANGED <<br, net, hist>>
    BY <1>1 DEF Accept, Server
  <2>2. "lock" \in Pre(x)
    BY DEF Pre
  <2> QED BY <1>0, <2>1, <2>2, StartKeeps
<1>2. CASE LockCache(c)
  <2> DEFINE nw == [w[c][x] EXCEPT !.pc = "first"]
  <2>1. /\ w[c][x].pc = "lock" /\ w' = [w EXCEPT ![c][x] = nw] /\ UNCHANGED <<br, hist, task, net>>
    BY <1>2 DEF LockCache, Server, Frame0
  <2>2. DOMAIN nw = WorkerFields /\ nw.pc = "first" /\ "first" \in Pre(x) /\ "lock" \in Pre(x)
    <3>1. DOMAIN w[c][x] = WorkerFields
      BY <1>0 DEF Server
    <3> QED BY ONLY ZenonT(60), <3>1 DEF WorkerFields, Pre
  <2> HIDE DEF nw
  <2> QED BY <1>0, <2>1, <2>2, PcKeeps
<1>3. CASE ServerMsg1(c)
  BY <1>3, ServerMsg1Keeps
<1>4. CASE ServerRetry(c)
  <2>1. /\ Frame0 /\ br[c][x].inbound # <<>> /\ Server(c).pc = "retry" /\ w[c][x].pc # "off"
        /\ Fails(c, x) \/ \E ss, e, peer, flag : SendMsg2(c, Server(c), ss, e, peer, flag)
    BY <1>4 DEF ServerRetry, Reads, Server
  <2> QED BY <1>0, <2>1, FailsKeeps, Msg2Keeps
<1>5. CASE ServerPsk(c)
  <2>1. Frame0 /\ br[c][x].inbound # <<>> /\ Server(c).pc = "first"
    BY <1>5 DEF ServerPsk, Reads, Server
  <2>2. \/ Reply(c, [Server(c) EXCEPT !.pc = "msg1"], [t |-> "PSK_REJECT"]) /\ UNCHANGED hist
        \/ \E t, b, ss, e, peer, flag : SendMsg2(c, [Server(c) EXCEPT !.ticket = t, !.early = b], ss, e, peer, flag)
    BY <1>5 DEF ServerPsk
  <2>3. CASE Reply(c, [Server(c) EXCEPT !.pc = "msg1"], [t |-> "PSK_REJECT"]) /\ UNCHANGED hist
    <3> DEFINE nw == [Server(c) EXCEPT !.pc = "msg1"]
               f == [t |-> "PSK_REJECT"]
    <3>1. DOMAIN nw = WorkerFields /\ nw.pc = "msg1"
      BY <1>0 DEF WorkerFields
    <3>2. "t" \in DOMAIN f /\ f.t \notin {"DATA", "MSG3"}
      BY SMTT(60)
    <3>3. Reply(c, nw, f) /\ HistKept
      BY <2>3, HistSame
    <3> HIDE DEF nw, f
    <3> QED BY <2>1, <3>1, <3>2, <3>3, ReplyKeeps
  <2>4. ASSUME NEW t, NEW b, NEW ss, NEW e, NEW peer, NEW flag,
               SendMsg2(c, [Server(c) EXCEPT !.ticket = t, !.early = b], ss, e, peer, flag)
        PROVE  Kept
    <3> DEFINE me == [Server(c) EXCEPT !.ticket = t, !.early = b]
    <3>1. DOMAIN me = WorkerFields
      BY <1>0 DEF WorkerFields
    <3>2. SendMsg2(c, me, ss, e, peer, flag)
      BY <2>4
    <3> HIDE DEF me
    <3> QED BY <2>1, <3>1, <3>2, Msg2Keeps
  <2> QED BY <2>2, <2>3, <2>4
<1>6. CASE ServerMsg3(c)
  <2> DEFINE v == View(c, x)
             u == View(c, Other(x))
             z == View(c, x)'
  <2>1. Frame0 /\ br[c][x].inbound # <<>> /\ w[c][x].pc = "msg3" /\ Frame(c, x).t = "MSG3"
    BY <1>6 DEF ServerMsg3, Reads
  <2>2. CASE Fails(c, x)
    BY <1>0, <2>1, <2>2, FailsKeeps
  <2>3. CASE ~Fails(c, x)
    <3> DEFINE m == Frame(c, x)
               client == m.box.text.pk
               ses == AfterMsg3(Server(c).ss, Server(c).e, ServerPk, m)
               ticket == Ticket(srv.epoch, srv.issued + 1, client, now)
               box == Seal(ses.r2i, 0, ses.id, [ticket |-> <<ticket>>, msg |-> 0])
               nw == [Server(c) EXCEPT !.pc = "loop", !.ses = ses, !.peer = client, !.resumed = Server(c).ticket # <<>>,
                                       !.tx = AfterPush]
               f == [t |-> "DATA", box |-> box]
               nb == Wrote(Took(c, x), f)
    <3>1. Reply(c, nw, f) /\ hist' = Used(hist, {box})
      BY <1>6, <2>3 DEF ServerMsg3
    <3> HIDE DEF m, client, ses, ticket
    <3>2. DOMAIN nw = WorkerFields /\ nw.pc = "loop"
      BY <1>0 DEF WorkerFields
    <3>3. "t" \in DOMAIN f /\ f.t = "DATA" /\ Boxed(f) /\ f.box.text.ticket # <<>>
      <4>1. <<ticket>> # <<>>
        BY SMTT(60)
      <4>2. f = DataOf(ses.r2i, 0, ses.id, <<ticket>>, 0)
        BY DEF DataOf
      <4>3. IsData(DataOf(ses.r2i, 0, ses.id, <<ticket>>, 0), <<ticket>>, 0)
        BY ONLY ZenonT(60), DataFrame
      <4> HIDE DEF f
      <4>4. IsData(f, <<ticket>>, 0)
        BY ONLY ZenonT(60), <4>2, <4>3
      <4> QED BY ONLY ZenonT(60), <4>1, <4>4 DEF IsData
    <3>4. Becomes(c, x, nw, nb) /\ HistKept
      BY <3>1, HistUsed DEF Reply
    <3> HIDE DEF nw, f
    <3>5. DOMAIN nb = BridgeFields
      <4>1. DOMAIN Took(c, x) = BridgeFields
        BY <1>0, TookFields
      <4> QED BY <4>1, WroteFields
    <3>6. Worked(c, x, nw.pc, nb)
      BY <1>0, <2>1, <3>2, <3>4, <3>5, WorkerStep, Tasks
    <3>7. Replied(v, z, nw.pc, f)
      BY <1>0, <3>6, WorkedReplied
    <3>8. v.pc = w[c][x].pc /\ v.I = br[c][x].inbound
      BY Seen
    <3> HIDE DEF v, u, z
    <3>9. Pair(x, v, u) => Pair(x, z, u)
      <4>1. v.pc = "msg3" /\ v.I # <<>> /\ Head(v.I).t = "MSG3"
        BY <2>1, <3>8 DEF Frame
      <4> QED BY <3>2, <3>3, <3>7, <4>1, ViewServes DEF Replied
    <3>10. ShapeInv' /\ OthersSame(c, x)
      BY <3>6 DEF Worked, Stepped
    <3>11. LinkInv'
      BY <1>0, <3>9, <3>10, SideStep DEF v, u, z
    <3> QED BY <3>10, <3>11 DEF Kept
  <2> QED BY <2>2, <2>3
<1> QED BY <1>1, <1>2, <1>3, <1>4, <1>5, <1>6 DEF Relay

LEMMA LoopSendKeeps ==
  ASSUME ShapeInv, LinkInv, NEW c \in Conns, NEW x \in Sides, LoopSend(c, x)
  PROVE  Kept
<1> DEFINE v == View(c, x)
           u == View(c, Other(x))
           z == View(c, x)'
           o == br[c][x].outbox
           box == Seal(TxKey(c, x), w[c][x].tx, w[c][x].ses.id, [ticket |-> <<>>, msg |-> Head(o)])
           f == [t |-> "DATA", box |-> box]
           nw == [w[c][x] EXCEPT !.tx = @ + 1]
           k == [br[c][x] EXCEPT !.outbox = Tail(@)]
           nb == Wrote(k, f)
<1>1. w[c][x].pc = "loop" /\ o # <<>> /\ Frame0 /\ Becomes(c, x, nw, nb) /\ hist' = Used(hist, {box})
  BY DEF LoopSend, Loops
<1>2. DOMAIN nw = WorkerFields /\ nw.pc = w[c][x].pc
  <2>1. DOMAIN w[c][x] = WorkerFields
    BY BridgeOf
  <2> QED BY <2>1 DEF WorkerFields
<1>3. "t" \in DOMAIN f /\ f.t = "DATA" /\ Boxed(f) /\ f.box.text.ticket = <<>> /\ f.box.text.msg = Head(o)
  <2>1. f = DataOf(TxKey(c, x), w[c][x].tx, w[c][x].ses.id, <<>>, Head(o))
    BY DEF DataOf
  <2>2. IsData(DataOf(TxKey(c, x), w[c][x].tx, w[c][x].ses.id, <<>>, Head(o)), <<>>, Head(o))
    BY ONLY ZenonT(60), DataFrame
  <2> HIDE DEF f
  <2>3. IsData(f, <<>>, Head(o))
    BY ONLY ZenonT(60), <2>1, <2>2
  <2> QED BY ONLY ZenonT(60), <2>3 DEF IsData
<1>4. DOMAIN k = BridgeFields /\ k.inbound = br[c][x].inbound /\ k.wire = br[c][x].wire /\ k.outbox = Tail(o)
  <2>1. DOMAIN br[c][x] = BridgeFields
    BY BridgeOf
  <2> QED BY <2>1 DEF BridgeFields
<1>5. HistKept
  BY <1>1, HistUsed
<1> HIDE DEF nw, k, f
<1>6. DOMAIN nb = BridgeFields /\ nb.inbound = k.inbound /\ nb.wire = Append(k.wire, f) /\ nb.outbox = k.outbox
  BY <1>4, WroteFields
<1> HIDE DEF nb
<1>7. Worked(c, x, nw.pc, nb)
  BY <1>1, <1>2, <1>5, <1>6, WorkerStep, Tasks
<1>8. ViewIs(v, w[c][x].pc, br[c][x], net[c][x], task[c][x], hist.sent[c][x], hist.got[c][x])
  BY ViewNow
<1>9. ViewIs(z, nw.pc, nb, net[c][x], task[c][x], hist.sent[c][x], hist.got[c][x])
  BY <1>7 DEF Worked, Stepped
<1> HIDE DEF v, u, z
<1>10. /\ v.pc = "loop" /\ z.pc = "loop" /\ v.o = o /\ z.o = Tail(v.o) /\ z.W = Append(v.W, f) /\ z.N = v.N
       /\ z.live = v.live /\ z.s = v.s /\ z.I = v.I /\ z.g = v.g
  BY <1>1, <1>2, <1>4, <1>6, <1>8, <1>9 DEF ViewIs
<1>11. v.o # <<>> /\ f.box.text.msg = Head(v.o)
  BY <1>1, <1>3, <1>10
<1>12. Pair(x, v, u) => Pair(x, z, u)
  BY <1>3, <1>10, <1>11, ViewLoopSend
<1>13. ShapeInv' /\ OthersSame(c, x)
  BY <1>7 DEF Worked, Stepped
<1>14. LinkInv'
  BY <1>12, <1>13, SideStep DEF v, u, z
<1> QED BY <1>13, <1>14 DEF Kept

LEMMA LoopPcKeeps ==
  ASSUME ShapeInv, LinkInv, NEW c \in Conns, NEW x \in Sides, LoopDrained(c, x) \/ LoopWakes(c, x) \/ LoopBlocks(c, x) \/ LoopCut(c, x)
  PROVE  Kept
<1>1. PICK p \in {"loop", "wait", "recv", "done"} :
        w' = [w EXCEPT ![c][x].pc = p] /\ w[c][x].pc \in {"loop", "wait", "recv"} /\ UNCHANGED <<br, hist, task, net>>
  BY DEF LoopDrained, LoopWakes, LoopBlocks, LoopCut, Loops, Frame0
<1> DEFINE nw == [w[c][x] EXCEPT !.pc = p]
<1>2. w' = [w EXCEPT ![c][x] = nw]
  BY <1>1
<1>3. DOMAIN nw = WorkerFields /\ nw.pc = p
  <2>1. DOMAIN w[c][x] = WorkerFields
    BY BridgeOf
  <2> QED BY ONLY ZenonT(60), <2>1 DEF WorkerFields
<1> HIDE DEF nw
<1>4. /\ w[c][x].pc # "off" /\ nw.pc # "off"
      /\ nw.pc = "done" \/ (w[c][x].pc \in Looping /\ nw.pc \in Looping)
  BY <1>1, <1>3 DEF Looping
<1> QED BY <1>1, <1>2, <1>3, <1>4, PcKeeps

LEMMA LoopDropKeeps ==
  ASSUME ShapeInv, LinkInv, NEW c \in Conns, NEW x \in Sides, w[c][x].pc = "wait", br[c][x].inbound # <<>>, Frame0,
         Becomes(c, x, [w[c][x] EXCEPT !.pc = "done"], [Took(c, x) EXCEPT !.closed = TRUE]), UNCHANGED hist
  PROVE  Kept
<1> DEFINE v == View(c, x)
           u == View(c, Other(x))
           z == View(c, x)'
           nw == [w[c][x] EXCEPT !.pc = "done"]
           k == Took(c, x)
           nb == [k EXCEPT !.closed = TRUE]
<1>1. DOMAIN nw = WorkerFields /\ nw.pc = "done"
  <2>1. DOMAIN w[c][x] = WorkerFields
    BY BridgeOf
  <2> QED BY ONLY ZenonT(60), <2>1 DEF WorkerFields
<1>2. DOMAIN k = BridgeFields /\ k.inbound = Tail(br[c][x].inbound) /\ k.wire = br[c][x].wire /\ k.outbox = br[c][x].outbox
  BY TookFields
<1>3. Becomes(c, x, nw, nb) /\ HistKept
  BY HistSame
<1> HIDE DEF k, nw
<1>4. DOMAIN nb = BridgeFields /\ nb.inbound = k.inbound /\ nb.wire = k.wire /\ nb.outbox = k.outbox
  BY <1>2, ClosedFields
<1> HIDE DEF nb
<1>5. Worked(c, x, nw.pc, nb)
  BY <1>1, <1>3, <1>4, WorkerStep, Tasks
<1>6. TookOne(v, z, nw.pc)
  <2>1. nb.inbound = Tail(br[c][x].inbound) /\ nb.wire = br[c][x].wire /\ nb.outbox = br[c][x].outbox
    BY <1>2, <1>4
  <2> QED BY <1>5, <2>1, WorkedTook
<1>7. v.pc = w[c][x].pc /\ v.I = br[c][x].inbound
  BY Seen
<1> HIDE DEF v, u, z
<1>8. Pair(x, v, u) => Pair(x, z, u)
  <2>1. v.pc = "wait" /\ v.I # <<>> /\ z.pc = "done" /\ z.I = Tail(v.I) /\ Queues(v, z) /\ Says(v, z) /\ z.g = v.g
    BY <1>1, <1>6, <1>7 DEF TookOne
  <2> QED BY <2>1, ViewDrops
<1>9. ShapeInv' /\ OthersSame(c, x)
  BY <1>5 DEF Worked, Stepped
<1>10. LinkInv'
  BY <1>8, <1>9, SideStep DEF v, u, z
<1> QED BY <1>9, <1>10 DEF Kept

LEMMA LoopHearKeeps ==
  ASSUME ShapeInv, LinkInv, NEW c \in Conns, NEW x \in Sides, w[c][x].pc = "wait", br[c][x].inbound # <<>>, Frame0,
         NEW r, Becomes(c, x, [w[c][x] EXCEPT !.pc = "loop", !.rx = r], Took(c, x)),
         hist' = [hist EXCEPT !.got[c][x] = Append(@, Frame(c, x).box.text.msg)]
  PROVE  Kept
<1> DEFINE v == View(c, x)
           u == View(c, Other(x))
           z == View(c, x)'
           nw == [w[c][x] EXCEPT !.pc = "loop", !.rx = r]
           nb == Took(c, x)
           ng == Append(hist.got[c][x], Frame(c, x).box.text.msg)
<1>1. DOMAIN nw = WorkerFields /\ nw.pc = "loop"
  <2>1. DOMAIN w[c][x] = WorkerFields
    BY BridgeOf
  <2> QED BY ONLY ZenonT(60), <2>1 DEF WorkerFields
<1>2. DOMAIN nb = BridgeFields /\ nb.inbound = Tail(br[c][x].inbound) /\ nb.wire = br[c][x].wire /\ nb.outbox = br[c][x].outbox
  BY TookFields
<1>3. DOMAIN hist' = HistFields /\ hist'.sent = hist.sent /\ hist'.got = [hist.got EXCEPT ![c][x] = ng]
  <2>1. DOMAIN hist = HistFields
    BY DEF ShapeInv, Grids, HistInv
  <2> QED BY <2>1 DEF HistFields
<1>4. w' = [w EXCEPT ![c][x] = nw] /\ br' = [br EXCEPT ![c][x] = nb]
  BY DEF Becomes
<1>5. Grid(w) /\ Grid(br) /\ Grid(net) /\ Grid(task) /\ Grid(hist.sent) /\ Grid(hist.got) /\ net' = net /\ task' = task
  BY DEF ShapeInv, Grids, Frame0
<1> HIDE DEF nw, nb, ng
<1>6. SetAt(w, w', c, x, nw) /\ SetAt(br, br', c, x, nb) /\ SetAt(hist.got, hist'.got, c, x, ng)
  BY ONLY ZenonT(60), <1>3, <1>4, <1>5, GridSet, c \in Conns, x \in Sides
<1>7. SetAt(net, net', c, x, net[c][x]) /\ SetAt(task, task', c, x, task[c][x]) /\ SetAt(hist.sent, hist'.sent, c, x, hist.sent[c][x])
  BY <1>3, <1>5, GridSame
<1>8. DOMAIN net[c][x] = StreamFields
  BY BridgeOf
<1>9. Stepped(c, x, nw.pc, nb, net[c][x], task[c][x], hist.sent[c][x], ng)
  BY <1>1, <1>2, <1>3, <1>6, <1>7, <1>8, OneStep
<1>10. ViewIs(v, w[c][x].pc, br[c][x], net[c][x], task[c][x], hist.sent[c][x], hist.got[c][x])
  BY ViewNow
<1>11. ViewIs(z, nw.pc, nb, net[c][x], task[c][x], hist.sent[c][x], ng)
  BY <1>9 DEF Stepped
<1>12. ng = Append(hist.got[c][x], Head(br[c][x].inbound).box.text.msg)
  BY DEF ng, Frame
<1> HIDE DEF v, u, z
<1>13. /\ v.pc = "wait" /\ z.pc = "loop" /\ v.I # <<>> /\ z.I = Tail(v.I) /\ Queues(v, z) /\ Says(v, z)
       /\ z.g = Append(v.g, Head(v.I).box.text.msg)
  BY <1>1, <1>2, <1>10, <1>11, <1>12 DEF ViewIs, Queues, Says
<1>14. Pair(x, v, u) => Pair(x, z, u)
  BY <1>13, ViewHears
<1>15. ShapeInv' /\ OthersSame(c, x)
  BY <1>9 DEF Stepped
<1>16. LinkInv'
  BY <1>14, <1>15, SideStep DEF v, u, z
<1> QED BY <1>15, <1>16 DEF Kept

LEMMA LoopRecvKeeps ==
  ASSUME ShapeInv, LinkInv, NEW c \in Conns, NEW x \in Sides, LoopRecv(c, x)
  PROVE  Kept
<1> DEFINE f == Frame(c, x)
           ok == /\ f.t = "DATA" /\ Opens(RxKey(c, x), w[c][x].ses.id, f.box)
                 /\ Accepts(w[c][x].rx, f.box.seq) /\ w[c][x].listens
           r == CheckAndMark(w[c][x].rx, f.box.seq)
<1>1. w[c][x].pc = "wait" /\ br[c][x].inbound # <<>> /\ Frame0
  BY DEF LoopRecv, Loops
<1>2. CASE ok
  <2>1. /\ Becomes(c, x, [w[c][x] EXCEPT !.pc = "loop", !.rx = r], Took(c, x))
        /\ hist' = [hist EXCEPT !.got[c][x] = Append(@, Frame(c, x).box.text.msg)]
    BY <1>2 DEF LoopRecv
  <2> HIDE DEF r
  <2> QED BY <1>1, <2>1, LoopHearKeeps
<1>3. CASE ~ok
  <2>1. Becomes(c, x, [w[c][x] EXCEPT !.pc = "done"], [Took(c, x) EXCEPT !.closed = TRUE]) /\ UNCHANGED hist
    BY <1>3 DEF LoopRecv
  <2> QED BY <1>1, <2>1, LoopDropKeeps
<1> QED BY <1>2, <1>3

(* The shuttle, and damage: the worker and what was said stay. *)
LEMMA Stopped ==
  ASSUME NEW l, NEW t, l = ("out" \in t), ~("out" \in t)
  PROVE  l = FALSE
<1>1. l \in BOOLEAN
  BY SMT, SMTT(30)
<1>2. ~l
  OBVIOUS
<1> QED BY ONLY ZenonT(60), <1>1, <1>2

LEMMA ShuttleStep ==
  ASSUME ShapeInv, NEW c \in Conns, NEW x \in Sides, NEW nb, NEW nn, NEW nt,
         SetAt(br, br', c, x, nb), SetAt(net, net', c, x, nn), SetAt(task, task', c, x, nt), w' = w, HistKept,
         DOMAIN nb = BridgeFields, DOMAIN nn = StreamFields
  PROVE  Stepped(c, x, w[c][x].pc, nb, nn, nt, hist.sent[c][x], hist.got[c][x])
<1>1. Grid(w)
  BY DEF ShapeInv, Grids
<1>2. SetAt(w, w', c, x, w[c][x])
  BY <1>1, GridSame
<1>3. SetAt(hist.sent, hist'.sent, c, x, hist.sent[c][x]) /\ SetAt(hist.got, hist'.got, c, x, hist.got[c][x])
  BY HistSetAt
<1>4. DOMAIN w[c][x] = WorkerFields /\ DOMAIN hist' = HistFields
  BY BridgeOf DEF HistKept
<1> QED BY <1>2, <1>3, <1>4, OneStep

Shut(v, z, nb, nn, nt) ==
  /\ z.pc = v.pc /\ z.I = nb.inbound /\ z.W = nb.wire /\ z.N = nn.frames /\ z.live = ("out" \in nt)
  /\ z.o = nb.outbox /\ z.s = v.s /\ z.g = v.g
LEMMA ShuttleView ==
  ASSUME NEW c, NEW x, NEW nb, NEW nn, NEW nt, Stepped(c, x, w[c][x].pc, nb, nn, nt, hist.sent[c][x], hist.got[c][x])
  PROVE  Shut(View(c, x), View(c, x)', nb, nn, nt)
<1> DEFINE v == View(c, x)
           z == View(c, x)'
<1>1. ViewIs(v, w[c][x].pc, br[c][x], net[c][x], task[c][x], hist.sent[c][x], hist.got[c][x])
  BY ViewNow
<1>2. ViewIs(z, w[c][x].pc, nb, nn, nt, hist.sent[c][x], hist.got[c][x])
  BY DEF Stepped
<1> HIDE DEF v, z
<1>3. Shut(v, z, nb, nn, nt)
  BY <1>1, <1>2 DEF ViewIs, Shut
<1> QED BY <1>3 DEF v, z

LEMMA ShuttleKeeps ==
  ASSUME ShapeInv, LinkInv, NEW c \in Conns, NEW x \in Sides, NEW nb, NEW nn, NEW nt,
         SetAt(br, br', c, x, nb), SetAt(net, net', c, x, nn), SetAt(task, task', c, x, nt), w' = w, HistKept,
         DOMAIN nb = BridgeFields, DOMAIN nn = StreamFields, nb.outbox = br[c][x].outbox, nb.inbound = br[c][x].inbound,
         \/ "out" \notin nt /\ nb.wire \in {br[c][x].wire, <<>>} /\ nn.frames = net[c][x].frames
         \/ "out" \in task[c][x] /\ "out" \in nt /\ nb.wire = <<>> /\ nn.frames = net[c][x].frames \o br[c][x].wire
         \/ ("out" \in nt) = ("out" \in task[c][x]) /\ nb.wire = br[c][x].wire /\ net[c][x].frames # <<>>
            /\ \E f \in Damaged(Head(net[c][x].frames)) : nn.frames = [net[c][x].frames EXCEPT ![1] = f]
  PROVE  Kept
<1> DEFINE v == View(c, x)
           u == View(c, Other(x))
           z == View(c, x)'
<1>1. Stepped(c, x, w[c][x].pc, nb, nn, nt, hist.sent[c][x], hist.got[c][x])
  BY ShuttleStep
<1>2. Shut(v, z, nb, nn, nt)
  BY <1>1, ShuttleView
<1>3. ViewIs(v, w[c][x].pc, br[c][x], net[c][x], task[c][x], hist.sent[c][x], hist.got[c][x])
  BY ViewNow
<1> HIDE DEF v, u, z
<1>4. /\ z.pc = v.pc /\ z.I = v.I /\ Says(v, z) /\ z.g = v.g /\ z.W = nb.wire /\ z.N = nn.frames /\ z.live = ("out" \in nt)
      /\ v.W = br[c][x].wire /\ v.N = net[c][x].frames /\ v.live = ("out" \in task[c][x])
  BY <1>2, <1>3 DEF Shut, ViewIs, Says
<1>5. Pair(x, v, u) => Pair(x, z, u)
  <2>1. CASE "out" \notin nt /\ nb.wire \in {br[c][x].wire, <<>>} /\ nn.frames = net[c][x].frames
    <3>0. z.live = ("out" \in nt) /\ ~("out" \in nt) /\ z.W = nb.wire /\ nb.wire \in {br[c][x].wire, <<>>} /\ v.W = br[c][x].wire
      BY <1>4, <2>1
    <3>1. z.live = FALSE
      BY ONLY ZenonT(60), <3>0, Stopped
    <3>2. z.W \in {v.W, <<>>} /\ z.pc \in {v.pc, "done"}
      BY ONLY ZenonT(60), <3>0, <1>4
    <3>3. z.I = v.I /\ z.N = v.N /\ Says(v, z) /\ z.g = v.g
      BY <1>4, <2>1
    <3>4. Dead(v, z)
      BY ONLY ZenonT(60), <3>1, <3>2 DEF Dead
    <3> QED BY <3>3, <3>4, ViewDies
  <2>2. CASE "out" \in task[c][x] /\ "out" \in nt /\ nb.wire = <<>> /\ nn.frames = net[c][x].frames \o br[c][x].wire
    <3>1. z.pc = v.pc /\ v.live = TRUE /\ z.live = TRUE /\ z.N = v.N \o v.W /\ z.W = <<>> /\ z.I = v.I /\ Says(v, z) /\ z.g = v.g
      BY <1>4, <2>2
    <3> QED BY <3>1, ViewMoves
  <2>3. CASE /\ ("out" \in nt) = ("out" \in task[c][x]) /\ nb.wire = br[c][x].wire /\ net[c][x].frames # <<>>
             /\ \E f \in Damaged(Head(net[c][x].frames)) : nn.frames = [net[c][x].frames EXCEPT ![1] = f]
    <3>1. PICK f \in Damaged(Head(net[c][x].frames)) : nn.frames = [net[c][x].frames EXCEPT ![1] = f]
      BY <2>3
    <3>2. /\ f \in Damaged(Head(v.N)) /\ v.N # <<>> /\ z.N = [v.N EXCEPT ![1] = f] /\ z.pc = v.pc /\ z.live = v.live
          /\ z.W = v.W /\ z.I = v.I /\ Says(v, z) /\ z.g = v.g
      BY <1>4, <2>3, <3>1
    <3>3. Inherits(x, Head(v.N), f)
      BY <3>2, DamagedFrame DEF Inherits
    <3> QED BY <3>2, <3>3, ViewDamaged
  <2> QED BY <2>1, <2>2, <2>3
<1>6. ShapeInv' /\ OthersSame(c, x)
  BY <1>1 DEF Stepped
<1>7. LinkInv'
  BY <1>5, <1>6, SideStep DEF v, u, z
<1> QED BY <1>6, <1>7 DEF Kept

LEMMA OutboundKeeps ==
  ASSUME ShapeInv, LinkInv, NEW c \in Conns, NEW x \in Sides, Outbound(c, x)
  PROVE  Kept
<1> DEFINE b == br[c][x]
           n == net[c][x]
           t == task[c][x]
<1>1. DOMAIN b = BridgeFields /\ DOMAIN n = StreamFields /\ Grid(br) /\ Grid(net) /\ Grid(task)
  BY BridgeOf DEF ShapeInv, Grids
<1>2. w' = w /\ HistKept /\ "out" \in t
  <2>1. w' = w /\ UNCHANGED hist /\ "out" \in t
    BY DEF Outbound, TaskFrame
  <2> QED BY <2>1, HistSame
<1>3. CASE net' = [net EXCEPT ![c][x].fin = TRUE] /\ task' = [task EXCEPT ![c][x] = @ \ {"out"}] /\ UNCHANGED br
  <2> DEFINE nn == [n EXCEPT !.fin = TRUE]
             nt == t \ {"out"}
  <2>1. DOMAIN nn = StreamFields /\ nn.frames = n.frames
    BY <1>1 DEF StreamFields
  <2>2. net' = [net EXCEPT ![c][x] = nn] /\ task' = [task EXCEPT ![c][x] = nt] /\ br' = br /\ "out" \notin nt
    BY <1>3
  <2> HIDE DEF nn, nt
  <2>3. SetAt(net, net', c, x, nn) /\ SetAt(task, task', c, x, nt) /\ SetAt(br, br', c, x, b)
    BY <1>1, <2>2, GridSet, GridSame
  <2> QED BY <1>1, <1>2, <2>1, <2>2, <2>3, ShuttleKeeps
<1>4. CASE /\ net' = [net EXCEPT ![c][x].frames = @ \o b.wire] /\ br' = [br EXCEPT ![c][x].wire = <<>>] /\ UNCHANGED task
  <2> DEFINE nn == [n EXCEPT !.frames = @ \o b.wire]
             nb == [b EXCEPT !.wire = <<>>]
  <2>1. DOMAIN nn = StreamFields /\ nn.frames = n.frames \o b.wire
    BY <1>1 DEF StreamFields
  <2>2. DOMAIN nb = BridgeFields /\ nb.wire = <<>> /\ nb.inbound = b.inbound /\ nb.outbox = b.outbox
    BY <1>1 DEF BridgeFields
  <2>3. net' = [net EXCEPT ![c][x] = nn] /\ br' = [br EXCEPT ![c][x] = nb] /\ task' = task
    BY <1>4
  <2> HIDE DEF nn, nb
  <2>4. SetAt(net, net', c, x, nn) /\ SetAt(task, task', c, x, t) /\ SetAt(br, br', c, x, nb)
    BY <1>1, <2>3, GridSet, GridSame
  <2> QED BY <1>1, <1>2, <2>1, <2>2, <2>4, ShuttleKeeps
<1>5. CASE /\ br' = [br EXCEPT ![c][x].wire = <<>>, ![c][x].closed = TRUE]
           /\ task' = [task EXCEPT ![c][x] = @ \ {"out"}] /\ UNCHANGED net
  <2> DEFINE nb == [b EXCEPT !.wire = <<>>, !.closed = TRUE]
             nt == t \ {"out"}
  <2>1. DOMAIN nb = BridgeFields /\ nb.wire = <<>> /\ nb.inbound = b.inbound /\ nb.outbox = b.outbox
    BY <1>1 DEF BridgeFields
  <2>2. SetAt(br, br', c, x, nb)
    <3> DEFINE k == [b EXCEPT !.wire = <<>>]
               m == [br EXCEPT ![c][x] = k]
    <3>1. m = [br EXCEPT ![c][x] = k] /\ nb = [k EXCEPT !.closed = TRUE] /\ br' = [m EXCEPT ![c][x].closed = TRUE]
      BY <1>5
    <3> HIDE DEF m, k, nb
    <3>a. SetAt(br, m, c, x, k)
      BY <1>1, <3>1, GridSet
    <3>2. m[c][x] = k
      BY ONLY ZenonT(60), <3>a DEF SetAt
    <3>3. br' = [m EXCEPT ![c][x] = nb]
      BY <3>1, <3>2
    <3>f. Grid(br) /\ c \in Conns /\ x \in Sides /\ Grid(m)
      BY <1>1, <3>a DEF SetAt
    <3>b. SetAt(m, br', c, x, nb)
      BY ONLY ZenonT(60), <3>f, <3>3, GridSet
    <3> QED BY <3>a, <3>b, SetTwice
  <2>3. task' = [task EXCEPT ![c][x] = nt] /\ net' = net /\ "out" \notin nt
    BY <1>5
  <2> HIDE DEF nt, nb
  <2>4. SetAt(net, net', c, x, n) /\ SetAt(task, task', c, x, nt) /\ SetAt(br, br', c, x, nb)
    BY <1>1, <2>2, <2>3, GridSet, GridSame
  <2> QED BY <1>1, <1>2, <2>1, <2>3, <2>4, ShuttleKeeps
<1> QED BY <1>3, <1>4, <1>5 DEF Outbound

(* Steps that leave every view alone, or change both sides of one connection. *)
SameViews(S) == \A c \in S, x \in Sides : View(c, x)' = View(c, x)
LEMMA PairStep ==
  ASSUME LinkInv, NEW c \in Conns, NEW x \in Sides, SameViews(Conns \ {c}),
         Pair(x, View(c, x), View(c, Other(x))) => Pair(x, View(c, x)', View(c, Other(x))')
  PROVE  LinkInv'
<1>1. "client" \in Sides /\ "server" \in Sides /\ Other("client") = "server" /\ Other("server") = "client"
  BY DEF Sides, Other
<1>2. x = "client" \/ x = "server"
  BY DEF Sides
<1>3. Pair("client", View(c, "client"), View(c, "server")) /\ Pair("server", View(c, "server"), View(c, "client"))
  BY <1>1, Swap DEF LinkInv
<1>4. Pair("client", View(c, "client")', View(c, "server")')
  <2>1. CASE x = "client"
    BY <2>1, <1>1, <1>3
  <2>2. CASE x = "server"
    <3>2. Pair("server", View(c, "server")', View(c, "client")')
      BY <2>2, <1>1, <1>3
    <3>3. Pair(Other("server"), View(c, "client")', View(c, "server")')
      BY <3>2, <1>1, Swap
    <3> QED BY <3>3, <1>1
  <2> QED BY <1>2, <2>1, <2>2
<1>5. ASSUME NEW d \in Conns PROVE Pair("client", View(d, "client")', View(d, "server")')
  <2>1. CASE d = c
    BY <2>1, <1>4
  <2>2. CASE d # c
    <3>1. View(d, "client")' = View(d, "client") /\ View(d, "server")' = View(d, "server")
      BY <2>2, <1>1 DEF SameViews
    <3> QED BY <3>1 DEF LinkInv
  <2> QED BY <2>1, <2>2
<1> QED BY <1>5 DEF LinkInv

LEMMA IdleKeeps ==
  ASSUME ShapeInv, LinkInv, w' = w, br' = br, task' = task, net' = net, HistKept
  PROVE  Kept
<1>1. ShapeInv'
  BY DEF ShapeInv, Grids, Records, HistKept, HistInv
<1>2. ASSUME NEW c, NEW x PROVE View(c, x)' = View(c, x)
  <2>1. hist'.sent = hist.sent /\ hist'.got = hist.got
    BY DEF HistKept
  <2> QED BY <2>1 DEF View
<1>3. LinkInv'
  BY <1>2 DEF LinkInv
<1> QED BY <1>1, <1>3 DEF Kept

LEMMA InboundClosedKeeps ==
  ASSUME ShapeInv, LinkInv, NEW c \in Conns, NEW x \in Sides, br' = [br EXCEPT ![c][x].closed = TRUE],
         task' = [task EXCEPT ![c][x] = @ \ {"in"}], net' = net, w' = w, HistKept
  PROVE  Kept
<1> DEFINE b == br[c][x]
           n == net[c][x]
           t == task[c][x]
           nb == [b EXCEPT !.closed = TRUE]
           nt == t \ {"in"}
           v == View(c, x)
           u == View(c, Other(x))
           z == View(c, x)'
<1>1. DOMAIN b = BridgeFields /\ DOMAIN n = StreamFields /\ Grid(br) /\ Grid(net) /\ Grid(task)
  BY BridgeOf DEF ShapeInv, Grids
<1>2. DOMAIN nb = BridgeFields /\ nb.wire = b.wire /\ nb.inbound = b.inbound /\ nb.outbox = b.outbox
  BY <1>1 DEF BridgeFields
<1>3. br' = [br EXCEPT ![c][x] = nb] /\ task' = [task EXCEPT ![c][x] = nt]
  OBVIOUS
<1>4. "out" \in nt <=> "out" \in t
  OBVIOUS
<1> HIDE DEF nb, nt
<1>5. SetAt(net, net', c, x, n) /\ SetAt(task, task', c, x, nt) /\ SetAt(br, br', c, x, nb)
  BY <1>1, <1>3, GridSet, GridSame
<1>6. Stepped(c, x, w[c][x].pc, nb, n, nt, hist.sent[c][x], hist.got[c][x])
  BY <1>1, <1>2, <1>5, ShuttleStep
<1>7. View(c, x)' = View(c, x)
  <2>1. /\ w'[c][x] = w[c][x] /\ br'[c][x] = nb /\ net'[c][x] = n /\ task'[c][x] = nt
        /\ hist'.sent[c][x] = hist.sent[c][x] /\ hist'.got[c][x] = hist.got[c][x]
    BY <1>5 DEF SetAt, HistKept
  <2>2. ("out" \in nt) = ("out" \in t)
    BY ONLY SMT, SMTT(30), <1>4
  <2> QED BY ONLY ZenonT(60), <1>2, <2>1, <2>2 DEF View
<1>8. ShapeInv' /\ OthersSame(c, x)
  BY <1>6 DEF Stepped
<1>9. Pair(x, v, u) => Pair(x, z, u)
  BY <1>7
<1>10. LinkInv'
  BY <1>8, <1>9, SideStep
<1> QED BY <1>8, <1>10 DEF Kept

LEMMA InboundMovesKeeps ==
  ASSUME ShapeInv, LinkInv, NEW c \in Conns, NEW x \in Sides, NEW y, y = Other(x), net[c][y].frames # <<>>,
         net' = [net EXCEPT ![c][y].frames = Tail(@)],
         br' = [br EXCEPT ![c][x].inbound = Append(@, Head(net[c][y].frames))], task' = task, w' = w, HistKept
  PROVE  Kept
<1> DEFINE b == br[c][x]
           n == net[c][y]
           nb == [b EXCEPT !.inbound = Append(@, Head(n.frames))]
           nn == [n EXCEPT !.frames = Tail(@)]
           v == View(c, x)
           u == View(c, y)
           z == View(c, x)'
           r == View(c, y)'
<1>1. Grid(br) /\ Grid(net) /\ y \in Sides /\ y # x
  BY DEF ShapeInv, Grids, Sides, Other
<1>2. DOMAIN b = BridgeFields /\ DOMAIN n = StreamFields
  BY <1>1, BridgeOf
<1>3. DOMAIN nb = BridgeFields /\ nb.wire = b.wire /\ nb.inbound = Append(b.inbound, Head(n.frames)) /\ nb.outbox = b.outbox
  BY <1>2 DEF BridgeFields
<1>4. DOMAIN nn = StreamFields /\ nn.frames = Tail(n.frames)
  BY <1>2 DEF StreamFields
<1>5. br' = [br EXCEPT ![c][x] = nb] /\ net' = [net EXCEPT ![c][y] = nn]
  OBVIOUS
<1> HIDE DEF nb, nn
<1>6. SetAt(br, br', c, x, nb) /\ SetAt(net, net', c, y, nn)
  BY <1>1, <1>5, GridSet
<1>7. ShapeInv'
  <2>1. Grids'
    BY <1>6 DEF ShapeInv, Grids, SetAt, HistKept, HistInv
  <2>2. ASSUME NEW d \in Conns, NEW e \in Sides
        PROVE  DOMAIN w'[d][e] = WorkerFields /\ DOMAIN br'[d][e] = BridgeFields /\ DOMAIN net'[d][e] = StreamFields
    <3>1. DOMAIN w[d][e] = WorkerFields /\ DOMAIN br[d][e] = BridgeFields /\ DOMAIN net[d][e] = StreamFields
      BY DEF ShapeInv, Records
    <3>2. br'[d][e] = nb \/ br'[d][e] = br[d][e]
      BY ONLY ZenonT(60), <1>6, d \in Conns, e \in Sides DEF SetAt
    <3>3. net'[d][e] = nn \/ net'[d][e] = net[d][e]
      BY ONLY ZenonT(60), <1>6, d \in Conns, e \in Sides DEF SetAt
    <3> QED BY <1>3, <1>4, <3>1, <3>2, <3>3
  <2> QED BY <2>1, <2>2 DEF ShapeInv, Records
<1>h. hist'.sent = hist.sent /\ hist'.got = hist.got
  BY DEF HistKept
<1>8. SameViews(Conns \ {c})
  <2> SUFFICES ASSUME NEW d \in Conns \ {c}, NEW e \in Sides PROVE View(d, e)' = View(d, e)
    BY DEF SameViews
  <2>1. br'[d][e] = br[d][e] /\ net'[d][e] = net[d][e]
    BY <1>6 DEF SetAt
  <2> QED BY <1>h, <2>1 DEF View
<1>9. Pair(x, v, u) => Pair(x, z, r)
  <2>1. ViewIs(v, w[c][x].pc, b, net[c][x], task[c][x], hist.sent[c][x], hist.got[c][x])
    BY ViewNow
  <2>2. ViewIs(u, w[c][y].pc, br[c][y], n, task[c][y], hist.sent[c][y], hist.got[c][y])
    BY ViewNow
  <2>3. br'[c][x] = nb /\ net'[c][x] = net[c][x] /\ br'[c][y] = br[c][y] /\ net'[c][y] = nn
    BY <1>1, <1>6 DEF SetAt
  <2>4. ViewIs(z, w[c][x].pc, nb, net[c][x], task[c][x], hist.sent[c][x], hist.got[c][x])
    <3>1. ViewIs(z, w'[c][x].pc, br'[c][x], net'[c][x], task'[c][x], hist'.sent[c][x], hist'.got[c][x])
      BY ViewNext
    <3> HIDE DEF z
    <3> QED BY <1>h, <2>3, <3>1
  <2>5. ViewIs(r, w[c][y].pc, br[c][y], nn, task[c][y], hist.sent[c][y], hist.got[c][y])
    <3>1. ViewIs(r, w'[c][y].pc, br'[c][y], net'[c][y], task'[c][y], hist'.sent[c][y], hist'.got[c][y])
      BY ViewNext
    <3> HIDE DEF r
    <3> QED BY <1>h, <2>3, <3>1
  <2> HIDE DEF v, u, z, r
  <2>6. z.pc = v.pc /\ Queues(v, z) /\ Says(v, z) /\ z.g = v.g
    BY ONLY ZenonT(60), <2>1, <2>4, <1>3 DEF ViewIs, Queues, Says
  <2>7. r.pc = u.pc /\ r.W = u.W /\ r.I = u.I /\ Says(u, r) /\ r.g = u.g /\ r.N = Tail(u.N) /\ r.live = u.live
    BY ONLY ZenonT(60), <2>2, <2>5, <1>4 DEF ViewIs, Says
  <2>8. z.I = Append(v.I, Head(u.N)) /\ u.N # <<>>
    <3>1. n.frames # <<>>
      OBVIOUS
    <3> QED BY ONLY ZenonT(60), <3>1, <2>1, <2>2, <2>4, <1>3 DEF ViewIs
  <2> QED BY <2>6, <2>7, <2>8, ViewArrives
<1>10. LinkInv'
  <2>1. Pair(x, View(c, x), View(c, Other(x))) => Pair(x, View(c, x)', View(c, Other(x))')
    BY <1>9
  <2> QED BY <2>1, <1>8, PairStep
<1> QED BY <1>7, <1>10 DEF Kept

LEMMA InboundKeeps ==
  ASSUME ShapeInv, LinkInv, NEW c \in Conns, NEW x \in Sides, Inbound(c, x)
  PROVE  Kept
<1> DEFINE y == Other(x)
<1>1. w' = w /\ HistKept
  BY HistSame DEF Inbound, TaskFrame
<1>2. CASE /\ net[c][y].frames # <<>> /\ net' = [net EXCEPT ![c][y].frames = Tail(@)]
           /\ br' = [br EXCEPT ![c][x].inbound = Append(@, Head(net[c][y].frames))] /\ task' = task
  <2>1. y = Other(x)
    OBVIOUS
  <2> HIDE DEF y
  <2> QED BY <1>1, <1>2, <2>1, InboundMovesKeeps
<1>3. CASE br' = [br EXCEPT ![c][x].closed = TRUE] /\ task' = [task EXCEPT ![c][x] = @ \ {"in"}] /\ net' = net
  BY <1>1, <1>3, InboundClosedKeeps
<1> QED BY <1>2, <1>3 DEF Inbound

LEMMA SideKeeps ==
  ASSUME ShapeInv, LinkInv, NEW c \in Conns, NEW x \in Sides, Side(c, x)
  PROVE  Kept
<1>1. CASE ReadEof(c, x) \/ ReadUnexpected(c, x)
  <2>1. Fails(c, x) /\ Frame0 /\ w[c][x].pc \in InHandshake
    BY <1>1 DEF ReadEof, ReadUnexpected, Reads
  <2>2. w[c][x].pc # "off"
    BY <2>1 DEF InHandshake
  <2> QED BY <2>1, <2>2, FailsKeeps
<1> QED BY <1>1, LoopSendKeeps, LoopPcKeeps, LoopRecvKeeps, OutboundKeeps, InboundKeeps DEF Side

(* The inputs. *)
LEMMA SendKeeps ==
  ASSUME ShapeInv, LinkInv, NEW c \in Conns, NEW x \in Sides, Send(c, x)
  PROVE  Kept
<1> DEFINE v == View(c, x)
           u == View(c, Other(x))
           z == View(c, x)'
           m == Len(hist.sent[c][x]) + 1
           nb == [br[c][x] EXCEPT !.outbox = Append(@, m)]
           ns == Append(hist.sent[c][x], m)
<1>1. /\ w[c][x].pc \in Looping /\ w' = w /\ task' = task /\ net' = net /\ br' = [br EXCEPT ![c][x] = nb]
      /\ hist' = [hist EXCEPT !.sent[c][x] = Append(@, m)]
  BY DEF Send, Established, Looping, Queued
<1>2. DOMAIN hist' = HistFields /\ hist'.got = hist.got /\ hist'.sent = [hist.sent EXCEPT ![c][x] = ns]
  <2>1. DOMAIN hist = HistFields
    BY DEF ShapeInv, Grids, HistInv
  <2> QED BY <1>1, <2>1 DEF HistFields
<1>3. DOMAIN nb = BridgeFields /\ nb.inbound = br[c][x].inbound /\ nb.wire = br[c][x].wire /\ nb.outbox = Append(br[c][x].outbox, m)
  <2>1. DOMAIN br[c][x] = BridgeFields
    BY BridgeOf
  <2> QED BY ONLY ZenonT(60), <2>1 DEF BridgeFields
<1>4. Grid(w) /\ Grid(br) /\ Grid(net) /\ Grid(task) /\ Grid(hist.sent) /\ Grid(hist.got)
  BY DEF ShapeInv, Grids
<1> HIDE DEF nb, ns
<1>5. SetAt(br, br', c, x, nb) /\ SetAt(hist.sent, hist'.sent, c, x, ns)
  BY ONLY ZenonT(60), <1>1, <1>2, <1>4, GridSet, c \in Conns, x \in Sides
<1>6. /\ SetAt(w, w', c, x, w[c][x]) /\ SetAt(net, net', c, x, net[c][x]) /\ SetAt(task, task', c, x, task[c][x])
      /\ SetAt(hist.got, hist'.got, c, x, hist.got[c][x])
  BY ONLY ZenonT(60), <1>1, <1>2, <1>4, GridSame, c \in Conns, x \in Sides
<1>7. DOMAIN w[c][x] = WorkerFields /\ DOMAIN net[c][x] = StreamFields
  BY BridgeOf
<1>8. Stepped(c, x, w[c][x].pc, nb, net[c][x], task[c][x], ns, hist.got[c][x])
  BY ZenonT(60), SMT, SMTT(30), <1>2, <1>3, <1>5, <1>6, <1>7, OneStep
<1>9. ViewIs(v, w[c][x].pc, br[c][x], net[c][x], task[c][x], hist.sent[c][x], hist.got[c][x])
  BY ViewNow
<1>10. ViewIs(z, w[c][x].pc, nb, net[c][x], task[c][x], ns, hist.got[c][x])
  BY <1>8 DEF Stepped
<1>11. ns = Append(hist.sent[c][x], m)
  BY DEF ns
<1> HIDE DEF v, u, z
<1>12. /\ v.pc \in Looping /\ z.pc = v.pc /\ z.s = Append(v.s, Len(v.s) + 1) /\ z.o = Append(v.o, Len(v.s) + 1)
       /\ Queues(v, z) /\ z.I = v.I /\ z.g = v.g
  BY ONLY ZenonT(60), <1>1, <1>3, <1>9, <1>10, <1>11 DEF ViewIs, Queues
<1>13. Pair(x, v, u) => Pair(x, z, u)
  BY <1>12, ViewSay
<1>14. ShapeInv' /\ OthersSame(c, x)
  BY <1>8 DEF Stepped
<1>15. LinkInv'
  BY <1>13, <1>14, SideStep DEF v, u, z
<1> QED BY <1>14, <1>15 DEF Kept

LEMMA DropReceiverKeeps ==
  ASSUME ShapeInv, LinkInv, NEW c \in Conns, NEW x \in Sides, DropReceiver(c, x)
  PROVE  Kept
<1> DEFINE nw == [w[c][x] EXCEPT !.listens = FALSE]
<1>1. w' = [w EXCEPT ![c][x] = nw] /\ w[c][x].pc \in Looping /\ UNCHANGED <<br, hist, task, net>>
  BY DEF DropReceiver, Established, Looping
<1>2. DOMAIN nw = WorkerFields /\ nw.pc = w[c][x].pc
  <2>1. DOMAIN w[c][x] = WorkerFields
    BY BridgeOf
  <2> QED BY ONLY ZenonT(60), <2>1 DEF WorkerFields
<1> HIDE DEF nw
<1>3. w[c][x].pc # "off" /\ nw.pc # "off" /\ nw.pc \in Looping
  BY <1>1, <1>2 DEF Looping
<1> QED BY <1>1, <1>2, <1>3, PcKeeps

LEMMA DamageKeeps ==
  ASSUME ShapeInv, LinkInv, NEW c \in Conns, NEW x \in Sides, Damage(c, x)
  PROVE  Kept
<1> DEFINE n == net[c][x]
<1>1. PICK f \in Damaged(Head(n.frames)) :
        /\ net' = [net EXCEPT ![c][x].frames[1] = f]
        /\ hist' = [hist EXCEPT !.damaged = TRUE, !.flipped = @ \/ (f.t = "MSG2" /\ f = [Head(n.frames) EXCEPT !.early = ~@])]
  BY DEF Damage
<1>2. n.frames # <<>> /\ w' = w /\ br' = br /\ task' = task
  BY DEF Damage
<1>3. HistKept
  <2>1. DOMAIN hist = HistFields
    BY DEF ShapeInv, Grids, HistInv
  <2> QED BY ONLY ZenonT(60), <1>1, <2>1 DEF HistFields, HistKept
<1> DEFINE q == [n.frames EXCEPT ![1] = f]
           nn == [n EXCEPT !.frames = q]
<1>4. DOMAIN n = StreamFields /\ DOMAIN br[c][x] = BridgeFields /\ Grid(br) /\ Grid(net) /\ Grid(task)
  BY BridgeOf DEF ShapeInv, Grids
<1>5. DOMAIN nn = StreamFields /\ nn.frames = q
  BY ONLY ZenonT(60), <1>4 DEF StreamFields
<1>6. net' = [net EXCEPT ![c][x] = nn]
  BY <1>1
<1> HIDE DEF nn
<1>7. SetAt(net, net', c, x, nn) /\ SetAt(task, task', c, x, task[c][x]) /\ SetAt(br, br', c, x, br[c][x])
  BY <1>2, <1>4, <1>6, GridSet, GridSame
<1>8. \E g \in Damaged(Head(n.frames)) : nn.frames = [n.frames EXCEPT ![1] = g]
  BY <1>5
<1> QED BY ZenonT(60), SMT, SMTT(30), <1>2, <1>3, <1>4, <1>5, <1>7, <1>8, ShuttleKeeps

(* The server starts again: on every connection its side is dead. *)
LEMMA RestartKeeps ==
  ASSUME ShapeInv, LinkInv, Restart
  PROVE  Kept
<1> DEFINE x == "server"
           had == {c \in Conns : w[c]["client"].pc # "off"}
<1>1. /\ w' = [c \in Conns |-> IF c \in had THEN [w[c] EXCEPT ![x].pc = "done"] ELSE w[c]]
      /\ task' = [c \in Conns |-> [task[c] EXCEPT ![x] = {}]] /\ br' = br /\ net' = net /\ HistKept
  BY HistSame DEF Restart
<1>2. Grid(w) /\ Grid(task) /\ Grid(br) /\ Grid(net) /\ x \in Sides /\ Other(x) = "client" /\ Other("client") = x /\ "client" \in Sides
  BY DEF ShapeInv, Grids, Sides, Other
<1>3. ASSUME NEW c \in Conns
      PROVE  /\ DOMAIN w'[c] = Sides /\ w'[c]["client"] = w[c]["client"] /\ DOMAIN w'[c][x] = WorkerFields
             /\ w'[c][x].pc \in {w[c][x].pc, "done"}
  <2>1. DOMAIN w[c] = Sides /\ DOMAIN w[c][x] = WorkerFields
    BY <1>2, BridgeOf DEF Grid
  <2>2. CASE c \in had
    <3>1. w'[c] = [w[c] EXCEPT ![x].pc = "done"]
      BY <1>1, <2>2
    <3>2. w'[c] = [w[c] EXCEPT ![x] = [w[c][x] EXCEPT !.pc = "done"]]
      BY <3>1
    <3> DEFINE nw == [w[c][x] EXCEPT !.pc = "done"]
    <3>3. DOMAIN nw = WorkerFields /\ nw.pc = "done"
      BY ONLY ZenonT(60), <2>1 DEF WorkerFields
    <3> HIDE DEF nw
    <3>4. DOMAIN w'[c] = Sides /\ w'[c][x] = nw /\ w'[c]["client"] = w[c]["client"]
      BY ONLY ZenonT(60), <1>2, <2>1, <3>2 DEF nw
    <3> QED BY <3>3, <3>4
  <2>3. CASE c \notin had
    <3>1. w'[c] = w[c]
      BY <1>1, <2>3
    <3> QED BY <3>1, <2>1
  <2> QED BY <2>2, <2>3
<1>4. ASSUME NEW c \in Conns
      PROVE  DOMAIN task'[c] = Sides /\ task'[c]["client"] = task[c]["client"] /\ task'[c][x] = {}
  <2>1. task'[c] = [task[c] EXCEPT ![x] = {}] /\ DOMAIN task[c] = Sides
    BY <1>1, <1>2 DEF Grid
  <2> QED BY ONLY ZenonT(60), <1>2, <2>1
<1>5. ShapeInv'
  <2>1. DOMAIN w' = Conns /\ DOMAIN task' = Conns
    BY <1>1
  <2>2. Grid(w') /\ Grid(task')
    BY ONLY ZenonT(60), <1>3, <1>4, <2>1 DEF Grid
  <2>3. Grids'
    BY <1>1, <2>2 DEF ShapeInv, Grids, HistKept, HistInv
  <2>4. ASSUME NEW c \in Conns, NEW y \in Sides
        PROVE  DOMAIN w'[c][y] = WorkerFields /\ DOMAIN br'[c][y] = BridgeFields /\ DOMAIN net'[c][y] = StreamFields
    <3>1. DOMAIN w[c][y] = WorkerFields /\ DOMAIN br[c][y] = BridgeFields /\ DOMAIN net[c][y] = StreamFields
      BY DEF ShapeInv, Records
    <3>2. y = x \/ y = "client"
      BY DEF Sides
    <3>3. DOMAIN w'[c][y] = WorkerFields
      BY <1>3, <3>1, <3>2
    <3> QED BY <1>1, <3>1, <3>3
  <2> QED BY <2>3, <2>4 DEF ShapeInv, Records
<1>6. ASSUME NEW c \in Conns
      PROVE  Pair("client", View(c, "client")', View(c, "server")')
  <2> DEFINE v == View(c, x)
             u == View(c, "client")
             z == View(c, x)'
  <2>1. hist'.sent = hist.sent /\ hist'.got = hist.got /\ br' = br /\ net' = net
    BY <1>1 DEF HistKept
  <2>2. View(c, "client")' = u
    BY <1>3, <1>4, <2>1 DEF View
  <2>3. ViewIs(v, w[c][x].pc, br[c][x], net[c][x], task[c][x], hist.sent[c][x], hist.got[c][x])
    BY ViewNow
  <2>4. ViewIs(z, w'[c][x].pc, br[c][x], net[c][x], {}, hist.sent[c][x], hist.got[c][x])
    <3>1. ViewIs(z, w'[c][x].pc, br'[c][x], net'[c][x], task'[c][x], hist'.sent[c][x], hist'.got[c][x])
      BY ViewNext
    <3> HIDE DEF z
    <3> QED BY <1>4, <2>1, <3>1
  <2>5. Pair(x, v, u)
    BY <1>2, Swap DEF LinkInv
  <2>p. w'[c][x].pc \in {w[c][x].pc, "done"}
    BY <1>3
  <2> HIDE DEF v, u, z
  <2>6. z.I = v.I /\ z.N = v.N /\ Says(v, z) /\ z.g = v.g /\ z.W = v.W
    BY ONLY ZenonT(60), <2>3, <2>4 DEF ViewIs, Says
  <2>7. z.live = ("out" \in {}) /\ z.pc \in {v.pc, "done"}
    BY ONLY ZenonT(60), <2>p, <2>3, <2>4 DEF ViewIs
  <2>8. z.live = FALSE
    BY ONLY ZenonT(60), <2>7, Stopped
  <2>9. Dead(v, z)
    BY ONLY ZenonT(60), <2>6, <2>7, <2>8 DEF Dead
  <2>10. Pair(x, z, u)
    BY <1>2, <2>5, <2>6, <2>9, ViewDies
  <2>11. Pair("client", u, z)
    BY <1>2, <2>10, Swap
  <2> QED BY <2>2, <2>11 DEF z
<1>7. LinkInv'
  BY <1>6 DEF LinkInv
<1> QED BY <1>5, <1>7 DEF Kept

LEMMA PacketKeeps ==
  ASSUME ShapeInv, LinkInv, NEW seq, Packet(seq)
  PROVE  Kept
<1> DEFINE q == IF Accepts(win, seq) THEN Append(hist.accepted, seq) ELSE hist.accepted
<1>1. hist' = [hist EXCEPT !.accepted = q] /\ w' = w /\ br' = br /\ task' = task /\ net' = net
  BY DEF Packet
<1> HIDE DEF q
<1>2. HistKept
  <2>1. DOMAIN hist = HistFields
    BY DEF ShapeInv, Grids, HistInv
  <2> QED BY ONLY ZenonT(60), <1>1, <2>1 DEF HistFields, HistKept
<1> QED BY <1>1, <1>2, IdleKeeps

LEMMA InputKeeps ==
  ASSUME ShapeInv, LinkInv, Input
  PROVE  Kept
<1>1. CASE Tick \/ Rekey \/ \E c \in Conns : CutOff(c) \/ Freeze(c)
  <2>1. w' = w /\ br' = br /\ task' = task /\ net' = net /\ UNCHANGED hist
    BY <1>1 DEF Tick, Rekey, CutOff, Freeze
  <2> QED BY <2>1, HistSame, IdleKeeps
<1>2. ASSUME NEW c \in Conns, Dial(c) PROVE Kept
  <2>1. /\ w[c]["client"].pc = "off" /\ w' = [w EXCEPT ![c]["client"].pc = "start"]
        /\ task' = [task EXCEPT ![c]["client"] = {"in", "out"}] /\ UNCHANGED <<br, net, hist>>
    BY <1>2 DEF Dial
  <2>2. "client" \in Sides /\ "start" \in Pre("client") /\ "start" # "off"
    BY DEF Sides, Pre
  <2> QED BY <2>1, <2>2, StartKeeps
<1> QED BY <1>1, <1>2, RestartKeeps, SendKeeps, DropReceiverKeeps, DamageKeeps, PacketKeeps DEF Input

LEMMA LinkInit == Init => ShapeInv /\ LinkInv
<1> SUFFICES ASSUME Init PROVE ShapeInv /\ LinkInv
  BY SMTT(60)
<1>1. /\ br = Both(NewBridge) /\ task = Both({}) /\ net = Both([frames |-> <<>>, fin |-> FALSE]) /\ w = Both(NewWorker)
      /\ DOMAIN hist = HistFields /\ hist.sent = Both(<<>>) /\ hist.got = Both(<<>>)
  BY DEF Init, HistFields
<1>2. ASSUME NEW v PROVE Grid(Both(v)) /\ \A c \in Conns, x \in Sides : Both(v)[c][x] = v
  BY DEF Grid, Both
<1>3. DOMAIN NewBridge = BridgeFields /\ DOMAIN NewWorker = WorkerFields /\ DOMAIN [frames |-> <<>>, fin |-> FALSE] = StreamFields
  BY DEF NewBridge, NewWorker, BridgeFields, WorkerFields, StreamFields
<1>a. ASSUME NEW c \in Conns, NEW x \in Sides
      PROVE  /\ w[c][x] = NewWorker /\ br[c][x] = NewBridge /\ task[c][x] = {} /\ hist.sent[c][x] = <<>> /\ hist.got[c][x] = <<>>
             /\ net[c][x] = [frames |-> <<>>, fin |-> FALSE]
  <2>1. ASSUME NEW v PROVE Both(v)[c][x] = v
    BY <1>2
  <2>2. w[c][x] = NewWorker /\ br[c][x] = NewBridge
    BY ONLY ZenonT(60), <1>1, <2>1
  <2>3. task[c][x] = {} /\ hist.sent[c][x] = <<>> /\ hist.got[c][x] = <<>>
    BY ONLY ZenonT(60), <1>1, <2>1
  <2>4. net[c][x] = [frames |-> <<>>, fin |-> FALSE]
    BY ONLY ZenonT(60), <1>1, <2>1
  <2> QED BY ONLY ZenonT(60), <2>2, <2>3, <2>4
<1>4. ShapeInv
  <2>1. Grids
    <3>1. Grid(w) /\ Grid(br) /\ Grid(task) /\ Grid(net)
      BY <1>1, <1>2
    <3>2. Grid(hist.sent) /\ Grid(hist.got)
      BY <1>1, <1>2
    <3> QED BY <1>1, <3>1, <3>2 DEF Grids, HistInv
  <2>2. ASSUME NEW c \in Conns, NEW x \in Sides
        PROVE  DOMAIN w[c][x] = WorkerFields /\ DOMAIN br[c][x] = BridgeFields /\ DOMAIN net[c][x] = StreamFields
    BY <1>a, <1>3
  <2> QED BY <2>1, <2>2 DEF ShapeInv, Records
<1> DEFINE Blank(v) == /\ v.pc = "off" /\ v.I = <<>> /\ v.N = <<>> /\ v.W = <<>> /\ v.o = <<>> /\ v.s = <<>> /\ v.g = <<>>
                       /\ v.live = FALSE
<1>5. ASSUME NEW c \in Conns, NEW x \in Sides PROVE Blank(View(c, x))
  <2> DEFINE v == View(c, x)
  <2>1. ViewIs(v, w[c][x].pc, br[c][x], net[c][x], task[c][x], hist.sent[c][x], hist.got[c][x])
    BY ViewNow
  <2>2. w[c][x] = NewWorker /\ br[c][x] = NewBridge /\ task[c][x] = {} /\ hist.sent[c][x] = <<>> /\ hist.got[c][x] = <<>>
        /\ net[c][x] = [frames |-> <<>>, fin |-> FALSE]
    BY <1>a
  <2>3. w[c][x].pc = "off" /\ br[c][x].inbound = <<>> /\ br[c][x].wire = <<>> /\ br[c][x].outbox = <<>> /\ net[c][x].frames = <<>>
    <3>1. NewWorker.pc = "off" /\ NewBridge.inbound = <<>> /\ NewBridge.wire = <<>> /\ NewBridge.outbox = <<>>
      BY ONLY SMT, Zenon, SMTT(60), ZenonT(60) DEF NewWorker, NewBridge
    <3>2. [frames |-> <<>>, fin |-> FALSE].frames = <<>>
      BY SMTT(60)
    <3> QED BY ONLY ZenonT(60), <2>2, <3>1, <3>2
  <2> HIDE DEF v
  <2>4. v.live = ("out" \in {})
    BY <2>1, <2>2 DEF ViewIs
  <2>5. v.live = FALSE
    BY ONLY ZenonT(60), <2>4, Stopped
  <2>6. v.pc = "off" /\ v.I = <<>> /\ v.N = <<>> /\ v.W = <<>> /\ v.o = <<>> /\ v.s = <<>> /\ v.g = <<>>
    BY <2>1, <2>2, <2>3 DEF ViewIs
  <2>7. Blank(v)
    BY <2>5, <2>6
  <2> QED BY <2>7 DEF v
<1>6. ASSUME NEW x \in Sides, NEW v, Blank(v), NEW u, Blank(u) PROVE SideOk(x, v) /\ From(x, v, u)
  <2>1. v.pc \in Pre(x) /\ v.pc \in Pcs(x) /\ u.pc \notin Looping
    BY <1>6 DEF Pre, Pcs, Looping
  <2>2. Len(<<>>) = 0
    BY SMTT(60)
  <2>3. SideOk(x, v)
    <3>1. \A i \in 1 .. 0 : FALSE
      BY SMTT(60)
    <3>2. 0 <= 0
      BY SMTT(60)
    <3>3. /\ \A i \in 1 .. Len(v.s) : v.s[i] = i
          /\ Len(v.o) <= Len(v.s) /\ \A i \in 1 .. Len(v.o) : v.o[i] = (Len(v.s) - Len(v.o)) + i
          /\ \A i \in 1 .. Len(v.g) : v.g[i] = i
      BY <1>6, <2>2, <3>1, <3>2
    <3> QED BY <1>6, <2>1, <3>3, SeqEmpty DEF SideOk
  <2>4. Lane(x, <<>>, <<>>, FALSE, <<>>, "off", "off", <<>>, <<>>, <<>>, -1)
    <3>1. -1 <= Len(<<>>)
      BY SMTT(60)
    <3>2. Tip(x, "off", <<>>, <<>>) = -1
      BY DEF Tip, Pre
    <3> QED BY <3>1, <3>2, NumEmpty DEF Lane, Looping
  <2>5. SomeLane(x, <<>>, <<>>, FALSE, <<>>, "off", "off", <<>>, <<>>, <<>>)
    <3>1. -1 \in Int
      BY SMTT(60)
    <3> QED BY <2>4, <3>1 DEF SomeLane
  <2>6. Len(u.g) <= Len(v.s)
    <3>1. Len(<<>>) <= Len(<<>>)
      BY SMTT(60)
    <3> QED BY <1>6, <3>1
  <2> QED BY <1>6, <2>3, <2>5, <2>6 DEF From
<1> HIDE DEF Blank
<1>7. ASSUME NEW c \in Conns PROVE Pair("client", View(c, "client"), View(c, "server"))
  <2>1. "client" \in Sides /\ "server" \in Sides /\ Other("client") = "server"
    BY DEF Sides, Other
  <2>2. Blank(View(c, "client")) /\ Blank(View(c, "server"))
    BY <1>5, <2>1
  <2> QED BY <1>6, <2>1, <2>2 DEF Pair
<1> QED BY <1>4, <1>7 DEF LinkInv

LEMMA LinkStep == ShapeInv /\ LinkInv /\ [Next]_vars => ShapeInv' /\ LinkInv'
<1> SUFFICES ASSUME ShapeInv, LinkInv, [Next]_vars PROVE Kept
  BY DEF Kept
<1>1. CASE Progress
  BY <1>1, ClientKeeps, RelayKeeps, SideKeeps DEF Progress
<1>2. CASE Input
  BY <1>2, InputKeeps
<1>3. CASE UNCHANGED vars
  <2>1. w' = w /\ br' = br /\ task' = task /\ net' = net /\ UNCHANGED hist
    BY <1>3 DEF vars
  <2> QED BY <2>1, HistSame, IdleKeeps
<1> QED BY <1>1, <1>2, <1>3 DEF Next

LEMMA PrefixOf ==
  ASSUME NEW s, IsSeq(s), NEW g, IsSeq(g), Len(g) <= Len(s), \A i \in 1 .. Len(s) : s[i] = i, \A i \in 1 .. Len(g) : g[i] = i
  PROVE  g = SubSeq(s, 1, Len(g))
<1> DEFINE S == Range(s)
           G == Range(g)
<1>1. s \in Seq(S) /\ g \in Seq(G)
  BY DEF IsSeq
<1> HIDE DEF S, G
<1>2. Len(s) \in Nat /\ Len(g) \in Nat
  BY SMT, SMTT(30), <1>1
<1> DEFINE r == SubSeq(s, 1, Len(g))
<1>3. r \in Seq(S) /\ Len(r) = Len(g) /\ \A i \in 1 .. Len(g) : r[i] = s[i]
  BY SMT, SMTT(30), ZenonT(60), <1>1, <1>2
<1>4. \A i \in 1 .. Len(g) : r[i] = g[i]
  BY SMT, SMTT(30), ZenonT(60), <1>2, <1>3
<1> HIDE DEF r
<1>5. r = g
  BY SMT, SMTT(30), ZenonT(60), <1>1, <1>3, <1>4
<1> QED BY <1>5 DEF r

(* What a side has heard is a prefix of what the other side was given to send: in
   order, each message once and none lost in between, through resumption, damage of
   frames, cuts, frozen clients and restarts of the server, for any number of
   connections (gmpq.rs: message_loop, shuttle; session.rs: recv_msg). *)
THEOREM PrefixHolds == Spec => []DeliveredIsPrefix
<1>1. LinkInv => DeliveredIsPrefix
  <2> SUFFICES ASSUME LinkInv, NEW c \in Conns, NEW x \in Sides
               PROVE  /\ Len(hist.got[c][x]) <= Len(hist.sent[c][Other(x)])
                      /\ hist.got[c][x] = SubSeq(hist.sent[c][Other(x)], 1, Len(hist.got[c][x]))
    BY DEF DeliveredIsPrefix
  <2> DEFINE y == Other(x)
             v == View(c, x)
             u == View(c, y)
  <2>1. "client" \in Sides /\ "server" \in Sides /\ Other("client") = "server" /\ Other("server") = "client"
    BY DEF Sides, Other
  <2>2. Pair("client", View(c, "client"), View(c, "server")) /\ Pair("server", View(c, "server"), View(c, "client"))
    BY <2>1, Swap DEF LinkInv
  <2>3. Pair(x, v, u)
    BY <2>1, <2>2 DEF Sides
  <2>4. v.g = hist.got[c][x] /\ u.s = hist.sent[c][y]
    <3>1. ViewIs(v, w[c][x].pc, br[c][x], net[c][x], task[c][x], hist.sent[c][x], hist.got[c][x])
      BY ViewNow
    <3>2. ViewIs(u, w[c][y].pc, br[c][y], net[c][y], task[c][y], hist.sent[c][y], hist.got[c][y])
      BY ViewNow
    <3> HIDE DEF v, u, y
    <3> QED BY ONLY ZenonT(60), <3>1, <3>2 DEF ViewIs
  <2> HIDE DEF v, u
  <2>5. /\ IsSeq(u.s) /\ IsSeq(v.g) /\ Len(v.g) <= Len(u.s)
        /\ (\A i \in 1 .. Len(u.s) : u.s[i] = i) /\ \A i \in 1 .. Len(v.g) : v.g[i] = i
    BY <2>3 DEF Pair, From, SideOk
  <2>6. v.g = SubSeq(u.s, 1, Len(v.g))
    BY ONLY ZenonT(60), <2>5, PrefixOf
  <2> QED BY <2>4, <2>5, <2>6
<1> QED BY <1>1, LinkInit, LinkStep, PTL DEF Spec
=============================================================================

