--------------------------- MODULE MoqView_proof ----------------------------
(***************************************************************************)
(* Proofs about MoqLink: both sides of every connection come out of the    *)
(* handshake with one view of it, and tickets and nonces are used once.    *)
(*                                                                         *)
(* First what a handshake makes of its data (keys, frames under way,       *)
(* tickets, nonces), whatever the steps; then the kinds of the variables;  *)
(* then that every step of the system is one of those.                     *)
(***************************************************************************)
EXTENDS MoqLink, Integers, TLAPS

(* The provers in the order in which a leaf tries them. *)
USE Zenon, ZenonT(60), SMTT(60)
-----------------------------------------------------------------------------
(* Sequences of anything. *)
IsSeq(q) == q \in Seq(Range(q))
Boxed(f) == "box" \in DOMAIN f /\ "text" \in DOMAIN f.box
Looping == {"loop", "wait", "recv"}
LEMMA SeqOf ==
  ASSUME NEW S, NEW q \in Seq(S)
  PROVE  IsSeq(q)
<1>1. \A i \in 1 .. Len(q) : q[i] \in Range(q)
  BY SMTT(60) DEF Range
<1> DEFINE R == Range(q)
<1> HIDE DEF R
<1>2. \A i \in 1 .. Len(q) : q[i] \in R
  BY <1>1 DEF R
<1>3. q \in Seq(R)
  BY SMTT(60), <1>2
<1> QED BY <1>3 DEF IsSeq, R

LEMMA SeqEmpty == IsSeq(<<>>) /\ Len(<<>>) = 0
BY SMTT(60) DEF IsSeq

LEMMA SeqLen ==
  ASSUME NEW q, IsSeq(q)
  PROVE  Len(q) \in Nat /\ DOMAIN q = 1 .. Len(q) /\ (Len(q) = 0 <=> q = <<>>)
<1> DEFINE R == Range(q)
<1> HIDE DEF R
<1>1. q \in Seq(R)
  BY DEF IsSeq, R
<1> QED BY SMTT(60), <1>1

Appended(q, f, r) ==
  /\ IsSeq(r) /\ Len(r) = Len(q) + 1 /\ Len(q) \in Nat
  /\ r[Len(q) + 1] = f /\ \A i \in 1 .. Len(q) : r[i] = q[i]
LEMMA SeqAppend ==
  ASSUME NEW q, IsSeq(q), NEW f
  PROVE  Appended(q, f, Append(q, f))
<1> DEFINE R == Range(q) \cup {f}
<1> HIDE DEF R
<1>1. q \in Seq(R) /\ f \in R
  <2>1. q \in Seq(Range(q)) /\ f \in R /\ \A z \in Range(q) : z \in R
    BY DEF IsSeq, R
  <2> QED BY SMTT(60), <2>1
<1>2. /\ Append(q, f) \in Seq(R) /\ Len(Append(q, f)) = Len(q) + 1 /\ Len(q) \in Nat
      /\ Append(q, f)[Len(q) + 1] = f /\ \A i \in 1 .. Len(q) : Append(q, f)[i] = q[i]
  BY SMTT(60), <1>1
<1> QED BY <1>2, SeqOf DEF Appended

Shortened(q, r) ==
  /\ IsSeq(r) /\ Len(r) = Len(q) - 1 /\ Len(q) \in Nat /\ Len(q) >= 1
  /\ Head(q) = q[1] /\ \A i \in 1 .. Len(q) - 1 : r[i] = q[i + 1]
LEMMA SeqTail ==
  ASSUME NEW q, IsSeq(q), q # <<>>
  PROVE  Shortened(q, Tail(q))
<1> DEFINE R == Range(q)
<1> HIDE DEF R
<1>1. q \in Seq(R)
  BY DEF IsSeq, R
<1>2. /\ Tail(q) \in Seq(R) /\ Len(Tail(q)) = Len(q) - 1 /\ Len(q) \in Nat /\ Len(q) >= 1
      /\ Head(q) = q[1] /\ \A i \in 1 .. Len(q) - 1 : Tail(q)[i] = q[i + 1]
  BY SMTT(60), <1>1
<1> QED BY <1>2, SeqOf DEF Shortened

Joined(q, r, s) ==
  /\ IsSeq(s) /\ Len(s) = Len(q) + Len(r) /\ Len(q) \in Nat /\ Len(r) \in Nat
  /\ \A i \in 1 .. Len(q) : s[i] = q[i]
  /\ \A i \in 1 .. Len(r) : s[Len(q) + i] = r[i]
LEMMA SeqConcat ==
  ASSUME NEW q, IsSeq(q), NEW r, IsSeq(r)
  PROVE  Joined(q, r, q \o r)
<1> DEFINE R == Range(q) \cup Range(r)
<1> HIDE DEF R
<1>1. q \in Seq(R) /\ r \in Seq(R)
  <2>1. q \in Seq(Range(q)) /\ r \in Seq(Range(r)) /\ (\A z \in Range(q) : z \in R) /\ \A z \in Range(r) : z \in R
    BY DEF IsSeq, R
  <2> QED BY SMTT(60), <2>1
<1>2. /\ q \o r \in Seq(R) /\ Len(q \o r) = Len(q) + Len(r) /\ Len(q) \in Nat /\ Len(r) \in Nat
      /\ \A i \in 1 .. Len(q) : (q \o r)[i] = q[i]
      /\ \A i \in 1 .. Len(r) : (q \o r)[Len(q) + i] = r[i]
  BY SMTT(60), <1>1
<1> QED BY <1>2, SeqOf DEF Joined

Replaced(q, f, r) ==
  IsSeq(r) /\ Len(r) = Len(q) /\ Len(q) \in Nat /\ r[1] = f /\ \A i \in 1 .. Len(q) : i # 1 => r[i] = q[i]
LEMMA SeqFirst ==
  ASSUME NEW q, IsSeq(q), q # <<>>, NEW f, NEW r, r = [q EXCEPT ![1] = f]
  PROVE  Replaced(q, f, r)
<1> DEFINE R == Range(q) \cup {f}
<1> HIDE DEF R
<1>1. q \in Seq(R) /\ f \in R
  <2>1. q \in Seq(Range(q)) /\ f \in R /\ \A z \in Range(q) : z \in R
    BY DEF IsSeq, R
  <2> QED BY SMTT(60), <2>1
<1>2. r \in Seq(R) /\ Len(r) = Len(q) /\ Len(q) \in Nat /\ r[1] = f /\ \A i \in 1 .. Len(q) : i # 1 => r[i] = q[i]
  BY SMTT(60), <1>1
<1> QED BY <1>2, SeqOf DEF Replaced

LEMMA RangeAppend ==
  ASSUME NEW q, IsSeq(q), NEW f
  PROVE  Range(Append(q, f)) = Range(q) \cup {f}
<1> DEFINE r == Append(q, f)
           n == Len(q)
<1>0. Appended(q, f, r)
  BY SeqAppend
<1> HIDE DEF r
<1>1. IsSeq(r) /\ Len(r) = n + 1 /\ n \in Nat /\ r[n + 1] = f /\ \A i \in 1 .. n : r[i] = q[i]
  BY <1>0 DEF Appended
<1> USE <1>1
<1>2. DOMAIN q = 1 .. n /\ DOMAIN r = 1 .. n + 1
  BY SeqLen
<1>3. n + 1 \in 1 .. n + 1 /\ \A i \in 1 .. n + 1 : i \in 1 .. n \/ i = n + 1
  BY SMTT(60)
<1>4. \A i \in 1 .. n : i \in 1 .. n + 1
  BY SMTT(60)
<1>5. Range(r) = Range(q) \cup {f}
  BY <1>2, <1>3, <1>4 DEF Range
<1> QED BY <1>5 DEF r

(* Handshakes.  cl and sv are the two workers of connection c, FC and FS the frames
   under way from either, fl says that damage has hit the flag before message 2. *)
ClientPast == {"ticket", "loop", "wait", "recv", "done"}
ServerPast == {"loop", "wait", "recv", "done"}
Answered == {"msg3", "loop", "wait", "recv", "done"}
Opening == {"off", "lock", "first", "retry", "msg1"}
RelayPk == <<"server">>

(* A symmetric state with n keys mixed in, and who mixed in the last. *)
HasKeys(s, n) == DOMAIN s = {"ck", "h"} /\ IsSeq(s.ck) /\ IsSeq(s.h) /\ Len(s.ck) = n
Rnd(ck) == ck[Len(ck)][1].rnd
Owned(c, tag, ck) == Rnd(ck)[1] = tag /\ Rnd(ck)[2][2] = c
Keys(ck, h) == [i2r |-> <<"i2r", ck>>, r2i |-> <<"r2i", ck>>, id |-> h]

(* The client has written message 3, and the server has read it. *)
KeysOf(c, ck, h, resumed) == IsSeq(ck) /\ IsSeq(h) /\ Len(ck) = (IF resumed THEN 3 ELSE 2) /\ Owned(c, "se", ck)
Derived(c, ses, resumed) == \E ck, h : KeysOf(c, ck, h, resumed) /\ ses = Keys(ck, h)
Written(c, cl) == cl.pc \in ClientPast /\ cl.resumed \in BOOLEAN /\ Derived(c, cl.ses, cl.resumed)
Served(c, cl, sv) ==
  /\ sv.pc \in ServerPast /\ Written(c, cl)
  /\ sv.ses = cl.ses /\ sv.resumed = cl.resumed
  /\ sv.ses.id[Len(sv.ses.id)] = <<"enc", sv.peer>>
  /\ sv.resumed => sv.ticket[1].fp = sv.peer

ClientOk(c, cl, sv, fl) ==
  /\ cl.pc \in {"cookie", "msg2"} => cl.e[2] = c /\ HasKeys(cl.ss, 0)
  /\ cl.pc = "psk" => cl.e[2] = c /\ HasKeys(cl.ss, 1)
  /\ cl.pc \in {"ticket", "loop", "wait", "recv"} =>
       /\ Written(c, cl) /\ cl.peer = RelayPk /\ sv.pc \in Answered
       /\ cl.resumed /\ ~fl => cl.early = sv.early
  /\ cl.pc \in Looping => Served(c, cl, sv)
ServerOk(c, cl, sv) ==
  /\ sv.pc \in Opening => sv.ticket = <<>> /\ sv.early = FALSE
  /\ sv.pc = "msg3" => HasKeys(sv.ss, IF sv.ticket = <<>> THEN 1 ELSE 2)
  /\ sv.pc \in Looping => Served(c, cl, sv)

(* The frames that say something of the handshake. *)
HasBox(f) == "box" \in DOMAIN f /\ DOMAIN f.box = {"key", "seq", "aad", "text"}
Msg3Box(cl, b) ==
  b.key = Noise \/ \E ck : b.key = <<"static", ck>> /\ IsSeq(b.aad) /\ cl.ses = Keys(ck, Append(b.aad, <<"enc", b.text.pk>>))
FromClient(c, cl, f) ==
  "t" \in DOMAIN f /\ (f.t = "MSG3" => HasBox(f) /\ Written(c, cl) /\ Msg3Box(cl, f.box))
FromServer(c, cl, sv, fl, f) ==
  /\ "t" \in DOMAIN f
  /\ f.t = "MSG2" =>
       /\ HasBox(f) /\ "early" \in DOMAIN f /\ f.box.text = RelayPk
       /\ sv.pc \in Answered /\ sv.early \in BOOLEAN /\ (~fl => f.early = sv.early)
  /\ f.t = "DATA" => Served(c, cl, sv)
ViewOk(c, cl, sv, FC, FS, fl) ==
  /\ ClientOk(c, cl, sv, fl) /\ ServerOk(c, cl, sv)
  /\ \A f \in FC : FromClient(c, cl, f)
  /\ \A f \in FS : FromServer(c, cl, sv, fl, f)

(* A worker goes on without a change of what it knows. *)
Same(v, z) ==
  z.e = v.e /\ z.ss = v.ss /\ z.ticket = v.ticket /\ z.early = v.early /\ z.ses = v.ses /\ z.peer = v.peer /\ z.resumed = v.resumed
ClientCalm(p, q) ==
  /\ p \in ClientPast => q \in ClientPast
  /\ q \in {"cookie", "msg2"} => p \in {"cookie", "msg2"}
  /\ q = "psk" => p = "psk"
  /\ q \in {"ticket", "loop", "wait", "recv"} => p \in {"ticket", "loop", "wait", "recv"}
  /\ q \in Looping => p \in Looping
ServerCalm(p, q) ==
  /\ p \in ServerPast => q \in ServerPast
  /\ p \in Answered => q \in Answered
  /\ q \in Opening => p \in Opening
  /\ q = "msg3" => p = "msg3"
  /\ q \in Looping => p \in Looping

LEMMA ServedCalm ==
  ASSUME NEW c, NEW cl, NEW sv, NEW kl, NEW kv, Same(cl, kl), Same(sv, kv), ClientCalm(cl.pc, kl.pc), ServerCalm(sv.pc, kv.pc)
  PROVE  (Written(c, cl) => Written(c, kl)) /\ (Served(c, cl, sv) => Served(c, kl, kv))
<1>1. Written(c, cl) => Written(c, kl)
  BY DEF Same, ClientCalm, Written
<1> QED BY <1>1 DEF Same, ServerCalm, Served

LEMMA FramesCalm ==
  ASSUME NEW c, NEW cl, NEW sv, NEW kl, NEW kv, Same(cl, kl), Same(sv, kv), ClientCalm(cl.pc, kl.pc), ServerCalm(sv.pc, kv.pc),
         NEW fl, NEW gl, fl => gl, NEW f
  PROVE  /\ FromClient(c, cl, f) => FromClient(c, kl, f)
         /\ FromServer(c, cl, sv, fl, f) => FromServer(c, kl, kv, gl, f)
<1>1. (Written(c, cl) => Written(c, kl)) /\ (Served(c, cl, sv) => Served(c, kl, kv))
  BY ServedCalm
<1>2. kl.ses = cl.ses /\ kv.early = sv.early /\ (sv.pc \in Answered => kv.pc \in Answered)
  BY DEF Same, ServerCalm
<1>3. FromClient(c, cl, f) => FromClient(c, kl, f)
  BY <1>1, <1>2 DEF FromClient, Msg3Box
<1>4. FromServer(c, cl, sv, fl, f) => FromServer(c, kl, kv, gl, f)
  BY <1>1, <1>2 DEF FromServer
<1> QED BY <1>3, <1>4

StaysCalm(cl, sv, kl, kv) == Same(cl, kl) /\ Same(sv, kv) /\ ClientCalm(cl.pc, kl.pc) /\ ServerCalm(sv.pc, kv.pc)
Arrives(c, kl, kv, fl, gl, FC, FS, GC, GS) ==
  (fl => gl) /\ (\A f \in GC : f \in FC \/ FromClient(c, kl, f)) /\ (\A f \in GS : f \in FS \/ FromServer(c, kl, kv, gl, f))
LEMMA ViewCalm ==
  ASSUME NEW c, NEW cl, NEW sv, NEW FC, NEW FS, NEW fl, ViewOk(c, cl, sv, FC, FS, fl),
         NEW kl, NEW kv, StaysCalm(cl, sv, kl, kv), NEW GC, NEW GS, NEW gl, Arrives(c, kl, kv, fl, gl, FC, FS, GC, GS)
  PROVE  ViewOk(c, kl, kv, GC, GS, gl)
<1> SUFFICES ASSUME Same(cl, kl), Same(sv, kv), ClientCalm(cl.pc, kl.pc), ServerCalm(sv.pc, kv.pc), fl => gl,
                    \A f \in GC : f \in FC \/ FromClient(c, kl, f), \A f \in GS : f \in FS \/ FromServer(c, kl, kv, gl, f)
             PROVE  ViewOk(c, kl, kv, GC, GS, gl)
  BY DEF StaysCalm, Arrives
<1>1. (Written(c, cl) => Written(c, kl)) /\ (Served(c, cl, sv) => Served(c, kl, kv))
  BY ServedCalm
<1>2. ClientOk(c, kl, kv, gl)
  BY <1>1 DEF ViewOk, ClientOk, Same, ClientCalm, ServerCalm
<1>3. ServerOk(c, kl, kv)
  BY <1>1 DEF ViewOk, ServerOk, Same, ServerCalm
<1>4. \A f \in GC : FromClient(c, kl, f)
  BY FramesCalm DEF ViewOk
<1>5. \A f \in GS : FromServer(c, kl, kv, gl, f)
  BY FramesCalm DEF ViewOk
<1> QED BY <1>2, <1>3, <1>4, <1>5 DEF ViewOk

(* The client writes its first message, or another after a rejected ticket. *)
Keyed(v) == (v.pc = "psk" => HasKeys(v.ss, 1)) /\ (v.pc # "psk" => HasKeys(v.ss, 0))
Starts(c, v, z) == v.pc \notin ClientPast /\ z.pc \in {"cookie", "psk"} /\ z.e[2] = c /\ Keyed(z)
Unwritten(f) == "t" \in DOMAIN f /\ f.t # "MSG3"
LEMMA ViewBegins ==
  ASSUME NEW c, NEW cl, NEW sv, NEW FC, NEW FS, NEW fl, ViewOk(c, cl, sv, FC, FS, fl), NEW kl, Starts(c, cl, kl),
         NEW GC, NEW GS, \A f \in GS : f \in FS, \A f \in GC : f \in FC \/ Unwritten(f)
  PROVE  ViewOk(c, kl, sv, GC, GS, fl)
<1>0. cl.pc \notin ClientPast /\ kl.pc \in {"cookie", "psk"} /\ kl.e[2] = c /\ Keyed(kl)
  BY DEF Starts
<1> USE <1>0
<1>1. ~Written(c, cl) /\ ~Served(c, cl, sv)
  BY DEF Written, Served
<1> USE <1>1
<1>2. ClientOk(c, kl, sv, fl)
  BY DEF Looping, ClientOk, Keyed
<1>3. ServerOk(c, kl, sv)
  BY DEF ServerOk, ViewOk
<1>4. \A f \in GC : FromClient(c, kl, f)
  BY DEF ViewOk, FromClient, Unwritten
<1>5. \A f \in GS : FromServer(c, kl, sv, fl, f)
  BY DEF ViewOk, FromServer
<1> QED BY <1>2, <1>3, <1>4, <1>5 DEF ViewOk

(* The symmetric state. *)
LEMMA HashKeeps ==
  ASSUME NEW s, NEW n, HasKeys(s, n), NEW k
  PROVE  HasKeys(MixHash(s, k), n) /\ MixHash(s, k).ck = s.ck /\ MixHash(s, k).h = Append(s.h, k)
<1> DEFINE r == MixHash(s, k)
<1>1. DOMAIN r = {"ck", "h"} /\ r.ck = s.ck /\ r.h = Append(s.h, k)
  BY DEF HasKeys, MixHash
<1>2. Appended(s.h, k, Append(s.h, k))
  BY SeqAppend DEF HasKeys
<1> HIDE DEF r
<1>3. HasKeys(r, n)
  BY <1>1, <1>2 DEF HasKeys, Appended
<1> QED BY <1>1, <1>3 DEF r

LEMMA KeyAdds ==
  ASSUME NEW s, NEW n, HasKeys(s, n), NEW k
  PROVE  HasKeys(MixKey(s, k), n + 1) /\ MixKey(s, k).h = s.h /\ Rnd(MixKey(s, k).ck) = k[1].rnd
<1> DEFINE r == MixKey(s, k)
           q == Append(s.ck, k)
<1>1. DOMAIN r = {"ck", "h"} /\ r.ck = q /\ r.h = s.h
  BY DEF HasKeys, MixKey
<1> USE <1>1
<1>2. Appended(s.ck, k, q)
  BY SeqAppend DEF HasKeys
<1> HIDE DEF r, q
<1>3. HasKeys(r, n + 1)
  BY <1>2 DEF HasKeys, Appended
<1>4. q[Len(q)] = k
  BY <1>2 DEF Appended
<1>5. Rnd(r.ck) = k[1].rnd
  BY <1>4 DEF Rnd
<1> QED BY <1>3, <1>5 DEF r

LEMMA NewKeys == HasKeys(NewState, 0) /\ \A psk : HasKeys(NewWithPsk(psk), 1)
<1>1. HasKeys(NewState, 0)
  BY SeqEmpty DEF NewState, HasKeys
<1>2. 0 + 1 = 1
  BY SMTT(60)
<1>3. \A psk : HasKeys(NewWithPsk(psk), 1)
  BY <1>1, <1>2, KeyAdds DEF NewWithPsk
<1> QED BY <1>1, <1>3

(* write_msg3: the session's keys are those message 3 was sealed under. *)
LEMMA Msg3Keys ==
  ASSUME NEW ss, NEW n \in Nat, HasKeys(ss, n), NEW e, NEW m, NEW c, e[2] = c
  PROVE  LET s == Msg3State(ss, e, m, e) IN HasKeys(s, n + 2) /\ Owned(c, "se", s.ck)
<1> DEFINE k == <<Decapsulate(e, m.ct)>>
           se == Encapsulate(m.e, <<"se", e>>)
           st == Encapsulate(m.box.text, <<"ss", e>>)
           a == MixHash(MixHash(ss, m.e), m.ct)
           b == MixKey(a, k)
           d == MixHash(b, <<"enc", m.box.text>>)
           g == MixKey(d, <<se, st>>)
           s == MixHash(MixHash(g, se), st)
<1>1. Msg3State(ss, e, m, e) = s
  BY DEF Msg3State, ReadMsg2
<1>r. <<se, st>>[1].rnd = <<"se", e>>
  BY SMTT(60) DEF Encapsulate
<1> HIDE DEF k, se, st
<1>2. HasKeys(a, n)
  BY HashKeeps
<1> HIDE DEF a
<1>3. HasKeys(b, n + 1)
  BY <1>2, KeyAdds
<1> HIDE DEF b
<1>4. HasKeys(d, n + 1)
  BY <1>3, HashKeeps
<1> HIDE DEF d
<1>5. HasKeys(g, (n + 1) + 1) /\ Rnd(g.ck) = <<"se", e>>
  BY <1>4, KeyAdds, <1>r
<1> HIDE DEF g
<1>6. HasKeys(s, (n + 1) + 1) /\ s.ck = g.ck
  <2>1. HasKeys(MixHash(g, se), (n + 1) + 1) /\ MixHash(g, se).ck = g.ck
    BY <1>5, HashKeeps
  <2> QED BY <2>1, HashKeeps
<1>7. (n + 1) + 1 = n + 2
  BY SMTT(60)
<1>8. Owned(c, "se", s.ck)
  <2>1. Rnd(s.ck) = <<"se", e>>
    BY <1>5, <1>6
  <2>2. <<"se", e>>[1] = "se" /\ <<"se", e>>[2] = e
    BY SMTT(60)
  <2> QED BY <2>1, <2>2 DEF Owned
<1> QED BY <1>1, <1>6, <1>7, <1>8

LEMMA Flag ==
  ASSUME NEW p, NEW m, NEW r, r = (p = "psk"), NEW a, a = (p = "psk" /\ m)
  PROVE  r \in BOOLEAN /\ (r <=> p = "psk") /\ (p = "psk" /\ m \in BOOLEAN => a = m)
<1>1. CASE p = "psk"
  BY <1>1
<1>2. CASE p # "psk"
  BY <1>2
<1> QED BY <1>1, <1>2

LEMMA SessionKeys ==
  ASSUME NEW s, NEW n, HasKeys(s, n), NEW key0
  PROVE  Msg3Session(s, key0) = Keys(s.ck, Append(s.h, <<"enc", key0>>))
<1> DEFINE r == MixHash(s, <<"enc", key0>>)
<1>1. r.ck = s.ck /\ r.h = Append(s.h, <<"enc", key0>>)
  BY HashKeeps
<1> HIDE DEF r
<1>2. Split(r) = Keys(s.ck, Append(s.h, <<"enc", key0>>))
  BY <1>1 DEF Split, Keys
<1> QED BY <1>2 DEF Msg3Session, r

(* The client reads message 2 and writes message 3. *)
Answers(cl, m, key0, s, out, kl) ==
  /\ cl.pc \in {"psk", "msg2"} /\ m.t = "MSG2" /\ s = Msg3State(cl.ss, cl.e, m, cl.e) /\ out = WriteMsg3(s, m, cl.e, key0)
  /\ kl.pc = "ticket" /\ kl.ses = Msg3Session(s, key0) /\ kl.peer = m.box.text /\ kl.resumed \in BOOLEAN
  /\ (kl.resumed <=> cl.pc = "psk") /\ (cl.pc = "psk" /\ m.early \in BOOLEAN => kl.early = m.early)
LEMMA ViewAnswers ==
  ASSUME NEW c, NEW cl, NEW sv, NEW FC, NEW FS, NEW fl, ViewOk(c, cl, sv, FC, FS, fl), NEW m, m \in FS,
         NEW key0, NEW s, NEW out, NEW kl, Answers(cl, m, key0, s, out, kl),
         NEW GC, NEW GS, \A f \in GS : f \in FS, \A f \in GC : f \in FC \/ f = out
  PROVE  ViewOk(c, kl, sv, GC, GS, fl) /\ Owned(c, "se", s.ck)
<1> SUFFICES ASSUME cl.pc \in {"psk", "msg2"}, m.t = "MSG2", s = Msg3State(cl.ss, cl.e, m, cl.e), out = WriteMsg3(s, m, cl.e, key0),
                    kl.pc = "ticket", kl.ses = Msg3Session(s, key0), kl.peer = m.box.text, kl.resumed \in BOOLEAN,
                    kl.resumed <=> cl.pc = "psk", cl.pc = "psk" /\ m.early \in BOOLEAN => kl.early = m.early
             PROVE  ViewOk(c, kl, sv, GC, GS, fl) /\ Owned(c, "se", s.ck)
  BY DEF Answers
<1> DEFINE n == IF cl.pc = "psk" THEN 1 ELSE 0
<1>1. n \in Nat /\ HasKeys(cl.ss, n) /\ cl.e[2] = c
  BY DEF ViewOk, ClientOk
<1>2. n + 2 = (IF kl.resumed THEN 3 ELSE 2)
  <2>1. 1 + 2 = 3 /\ 0 + 2 = 2
    BY SMTT(60)
  <2> QED BY <2>1
<1> HIDE DEF n
<1>3. HasKeys(s, n + 2) /\ Owned(c, "se", s.ck)
  BY <1>1, Msg3Keys
<1> USE <1>3
<1> DEFINE h == Append(s.h, <<"enc", key0>>)
<1>4. kl.ses = Keys(s.ck, h) /\ IsSeq(h) /\ IsSeq(s.h)
  <2>1. kl.ses = Keys(s.ck, h)
    BY SessionKeys
  <2>2. IsSeq(s.h)
    BY DEF HasKeys
  <2>3. Appended(s.h, <<"enc", key0>>, h)
    BY <2>2, SeqAppend
  <2> QED BY <2>1, <2>2, <2>3 DEF Appended
<1> USE <1>4
<1> HIDE DEF h
<1>5. KeysOf(c, s.ck, h, kl.resumed)
  BY <1>2 DEF KeysOf, HasKeys
<1>6. Written(c, kl)
  BY <1>2, <1>5 DEF ClientPast, Written, Derived
<1>7. ~Written(c, cl) /\ ~Served(c, cl, sv)
  BY DEF Written, Served, ClientPast
<1> USE <1>7
<1>8. FromServer(c, cl, sv, fl, m)
  BY DEF ViewOk
<1>9. /\ HasBox(m) /\ "early" \in DOMAIN m /\ m.box.text = RelayPk
      /\ sv.pc \in Answered /\ sv.early \in BOOLEAN /\ (~fl => m.early = sv.early)
  BY <1>8 DEF FromServer
<1>10. ClientOk(c, kl, sv, fl)
  BY <1>9, <1>6 DEF Looping, ClientOk
<1>11. ServerOk(c, kl, sv)
  BY DEF ServerOk, ViewOk
<1>12. \A f \in GS : FromServer(c, kl, sv, fl, f)
  BY DEF ViewOk, FromServer
<1>13. FromClient(c, kl, out)
  BY <1>6 DEF WriteMsg3, Seal, EncryptionKey, Msg3Box, h, FromClient, HasBox
<1>14. \A f \in GC : FromClient(c, kl, f)
  BY <1>13 DEF ViewOk, FromClient
<1> QED BY <1>10, <1>11, <1>12, <1>14 DEF ViewOk

(* The client reads the server's push. *)
LEMMA ViewPushed ==
  ASSUME NEW c, NEW cl, NEW sv, NEW FC, NEW FS, NEW fl, ViewOk(c, cl, sv, FC, FS, fl), cl.pc = "ticket",
         NEW m \in FS, m.t = "DATA", NEW kl, kl.pc = "loop", Same(cl, kl), NEW GC, GC \subseteq FC, NEW GS, GS \subseteq FS
  PROVE  ViewOk(c, kl, sv, GC, GS, fl)
<1>1. Served(c, cl, sv)
  BY DEF ViewOk, FromServer
<1>2. Written(c, kl)
  BY <1>1 DEF Served, Written, Same, ClientPast
<1> USE <1>2
<1>3. Served(c, kl, sv)
  BY <1>1 DEF Served, Same
<1> USE <1>3
<1>4. ClientOk(c, kl, sv, fl)
  BY DEF ViewOk, ClientOk, Same
<1>5. ServerOk(c, kl, sv)
  BY DEF ServerOk, ViewOk
<1>6. \A f \in GC : FromClient(c, kl, f)
  BY DEF ViewOk, FromClient, Msg3Box, Same
<1>7. \A f \in GS : FromServer(c, kl, sv, fl, f)
  BY DEF ViewOk, FromServer
<1> QED BY <1>4, <1>5, <1>6, <1>7 DEF ViewOk

(* The server writes message 2. *)
LEMMA Msg2Keys ==
  ASSUME NEW ss, NEW n, HasKeys(ss, n), NEW peer, NEW e, NEW c, e[2] = c, NEW key0
  PROVE  LET s == Msg2State(ss, peer, e, <<"ee", e>>) IN HasKeys(AfterMsg2(s, key0), n + 1) /\ Owned(c, "ee", s.ck)
<1> DEFINE ct == Encapsulate(peer, <<"ee", e>>)
           a == MixHash(MixHash(ss, e), ct)
           s == MixKey(a, <<ct>>)
<1>1. Msg2State(ss, peer, e, <<"ee", e>>) = s
  BY DEF Msg2State
<1>r. <<ct>>[1].rnd = <<"ee", e>>
  BY SMTT(60) DEF Encapsulate
<1> HIDE DEF ct
<1>2. HasKeys(a, n)
  BY HashKeeps
<1> HIDE DEF a
<1>3. HasKeys(s, n + 1) /\ Rnd(s.ck) = <<"ee", e>>
  BY <1>2, KeyAdds, <1>r
<1>4. <<"ee", e>>[1] = "ee" /\ <<"ee", e>>[2] = e
  BY SMTT(60)
<1>5. HasKeys(AfterMsg2(s, key0), n + 1)
  BY <1>3, HashKeeps DEF AfterMsg2
<1> QED BY <1>1, <1>3, <1>4, <1>5 DEF Owned

LEMMA ViewOffers ==
  ASSUME NEW c, NEW cl, NEW sv, NEW FC, NEW FS, NEW fl, ViewOk(c, cl, sv, FC, FS, fl), sv.pc \in Opening,
         NEW kv, kv.pc = "msg3", HasKeys(kv.ss, IF kv.ticket = <<>> THEN 1 ELSE 2), kv.early \in BOOLEAN,
         NEW s, NEW peer, NEW e, NEW out, out = WriteMsg2(s, peer, e, <<"ee", e>>, RelayPk, kv.early),
         NEW GC, GC \subseteq FC, NEW GS, \A f \in GS : f \in FS \/ f = out
  PROVE  ViewOk(c, cl, kv, GC, GS, fl)
<1>1. ~Served(c, cl, sv) /\ ~Served(c, cl, kv) /\ sv.pc \notin Answered
  BY DEF Served, Opening, ServerPast, Answered
<1>2. ClientOk(c, cl, kv, fl)
  BY <1>1 DEF ViewOk, ClientOk, Looping
<1>3. ServerOk(c, cl, kv)
  BY DEF ServerOk, Opening, Looping
<1>4. \A f \in GC : FromClient(c, cl, f)
  BY DEF ViewOk
<1>5. FromServer(c, cl, kv, fl, out)
  BY DEF WriteMsg2, Seal, Answered, FromServer, HasBox
<1>6. \A f \in GS : FromServer(c, cl, kv, fl, f)
  BY <1>1, <1>5 DEF ViewOk, FromServer
<1> QED BY <1>2, <1>3, <1>4, <1>6 DEF ViewOk

LEMMA KeysInjective ==
  ASSUME NEW a, NEW b, NEW h, NEW g, Keys(a, h) = Keys(b, g)
  PROVE  a = b /\ h = g
<1>1. Keys(a, h).i2r = <<"i2r", a>> /\ Keys(b, g).i2r = <<"i2r", b>> /\ Keys(a, h).id = h /\ Keys(b, g).id = g
  BY SMTT(60) DEF Keys
<1>2. <<"i2r", a>> = <<"i2r", b>> /\ h = g
  BY <1>1
<1> QED BY SMTT(60), <1>2

(* The server reads message 3: a box that opens is the one the client sealed, under
   the keys of the client's session. *)
LEMMA ViewAccepts ==
  ASSUME \A a, b : Noise # <<a, b>>,
         NEW c, NEW cl, NEW sv, NEW FC, NEW FS, NEW fl, ViewOk(c, cl, sv, FC, FS, fl), sv.pc = "msg3",
         NEW m \in FC, m.t = "MSG3", Msg3Opens(sv.ss, sv.e, RelayPk, m), sv.ticket = <<>> \/ sv.ticket[1].fp = m.box.text.pk,
         NEW kv, kv.pc = "loop", kv.ses = AfterMsg3(sv.ss, sv.e, RelayPk, m), kv.peer = m.box.text.pk, kv.resumed \in BOOLEAN,
         kv.resumed <=> sv.ticket # <<>>, kv.ticket = sv.ticket, kv.early = sv.early,
         NEW GC, GC \subseteq FC, NEW GS, \A f \in GS : f \in FS \/ ("t" \in DOMAIN f /\ f.t = "DATA")
  PROVE  ViewOk(c, cl, kv, GC, GS, fl) /\ Served(c, cl, kv)
<1> DEFINE s == ReadMsg3(sv.ss, sv.e, RelayPk, m)
           key0 == m.box.text.pk
           n == IF sv.ticket = <<>> THEN 1 ELSE 2
           h == Append(s.h, <<"enc", key0>>)
<1>1. n \in Nat /\ HasKeys(sv.ss, n) /\ (n + 1 = 2 <=> sv.ticket = <<>>) /\ (n + 1 = 3 <=> sv.ticket # <<>>)
  <2>1. HasKeys(sv.ss, n)
    BY DEF ViewOk, ServerOk
  <2>2. n \in Nat /\ (n + 1 = 2 <=> sv.ticket = <<>>) /\ (n + 1 = 3 <=> sv.ticket # <<>>)
    BY SMTT(60)
  <2> QED BY <2>1, <2>2
<1> USE <1>1
<1> HIDE DEF n
<1>2. HasKeys(s, n + 1)
  BY KeyAdds, HashKeeps DEF ReadMsg3
<1> USE <1>2
<1>3. m.box.key = <<"static", s.ck>> /\ m.box.aad = s.h
  BY DEF Msg3Opens, Opens, EncryptionKey
<1> USE <1>3
<1>4. kv.ses = Keys(s.ck, h)
  BY SessionKeys DEF AfterMsg3, Msg3Session
<1> HIDE DEF s
<1>5. Written(c, cl) /\ Msg3Box(cl, m.box)
  BY DEF ViewOk, FromClient
<1> USE <1>5
<1>6. cl.ses = Keys(s.ck, h)
  <2>1. PICK ck : m.box.key = <<"static", ck>> /\ cl.ses = Keys(ck, Append(m.box.aad, <<"enc", key0>>))
    BY DEF Msg3Box
  <2>2. <<"static", ck>> = <<"static", s.ck>>
    BY <2>1
  <2>3. ck = s.ck
    BY SMTT(60), <2>2
  <2> QED BY <2>1, <2>3
<1>7. kv.resumed = cl.resumed
  <2>1. PICK ck, g : KeysOf(c, ck, g, cl.resumed) /\ cl.ses = Keys(ck, g)
    BY DEF Written, Derived
  <2>2. ck = s.ck
    <3>1. Keys(ck, g) = Keys(s.ck, h)
      BY <1>6, <2>1
    <3> HIDE DEF h
    <3> QED BY ONLY ZenonT(60), <3>1, KeysInjective
  <2>3. Len(s.ck) = (IF cl.resumed THEN 3 ELSE 2) /\ Len(s.ck) = n + 1
    BY <2>1, <2>2 DEF KeysOf, HasKeys
  <2>4. cl.resumed \in BOOLEAN
    BY DEF Written
  <2>5. CASE cl.resumed
    BY <2>3, <2>5, <2>4
  <2>6. CASE ~cl.resumed
    BY <2>3, <2>6, <2>4
  <2> QED BY <2>5, <2>6
<1>8. kv.ses.id[Len(kv.ses.id)] = <<"enc", key0>>
  <2>1. kv.ses.id = h
    BY SMTT(60), <1>4 DEF Keys
  <2>2. Appended(s.h, <<"enc", key0>>, h)
    BY SeqAppend DEF HasKeys
  <2> HIDE DEF h
  <2> QED BY <2>1, <2>2 DEF Appended
<1>9. Served(c, cl, kv)
  BY <1>4, <1>6, <1>7, <1>8 DEF ServerPast, Served
<1> USE <1>9
<1>10. ClientOk(c, cl, kv, fl)
  BY DEF ViewOk, Answered, ClientOk
<1>11. ServerOk(c, cl, kv)
  BY DEF ServerOk, Opening
<1>12. \A f \in GC : FromClient(c, cl, f)
  BY DEF ViewOk
<1>13. \A f \in GS : FromServer(c, cl, kv, fl, f)
  BY DEF Answered, ViewOk, FromServer
<1> QED BY <1>10, <1>11, <1>12, <1>13 DEF ViewOk

(* What the invariant says of the handshake's outcome. *)
AgreeOk(cl, sv, fl) ==
  /\ cl.pc \in Looping => sv.ses = cl.ses /\ sv.resumed = cl.resumed /\ cl.peer = RelayPk
                          /\ (cl.resumed /\ ~fl => cl.early = sv.early)
  /\ sv.pc \in Looping => cl.ses = sv.ses /\ sv.ses.id[Len(sv.ses.id)] = <<"enc", sv.peer>>
                          /\ (sv.resumed => sv.ticket[1].fp = sv.peer)
LEMMA ViewAgree ==
  ASSUME NEW c, NEW cl, NEW sv, NEW FC, NEW FS, NEW fl, ViewOk(c, cl, sv, FC, FS, fl)
  PROVE  AgreeOk(cl, sv, fl)
<1>1. ClientOk(c, cl, sv, fl) /\ ServerOk(c, cl, sv)
  BY DEF ViewOk
<1>2. cl.pc \in Looping => cl.pc \in {"ticket", "loop", "wait", "recv"}
  BY DEF Looping
<1> QED BY <1>1, <1>2 DEF ClientOk, ServerOk, Served, AgreeOk
-----------------------------------------------------------------------------
(* Nonces.  n is a key and a number; a key but that of early data names the
   connection, and the step of its worker, that mixed in its last secret. *)
NonceOk(c, cl, sv, n) ==
  Rnd(n[1][2])[2][2] = c =>
    /\ n[1][1] = "static" /\ Rnd(n[1][2])[1] = "ee" => sv.pc \in Answered
    /\ n[1][1] = "static" /\ Rnd(n[1][2])[1] = "se" => cl.pc \in ClientPast
    /\ n[1][1] = "i2r" => cl.pc \in ClientPast /\ n[2] < cl.tx
    /\ n[1][1] = "r2i" => sv.pc \in ServerPast /\ n[2] < sv.tx
NonceIs(n, tag, ck, seq) == n = <<<<tag, ck>>, seq>>

Ahead(v, z, past) == v.pc \in past => z.pc \in past /\ v.tx \in Nat /\ (z.tx = v.tx \/ z.tx = v.tx + 1)
LEMMA NonceAhead ==
  ASSUME NEW c, NEW cl, NEW sv, NEW kl, NEW kv, Ahead(cl, kl, ClientPast), Ahead(sv, kv, ServerPast),
         sv.pc \in Answered => kv.pc \in Answered, NEW n, n[2] \in Nat, NonceOk(c, cl, sv, n)
  PROVE  NonceOk(c, kl, kv, n)
<1>1. cl.pc \in ClientPast /\ n[2] < cl.tx => kl.pc \in ClientPast /\ n[2] < kl.tx
  BY SMTT(60) DEF Ahead
<1>2. sv.pc \in ServerPast /\ n[2] < sv.tx => kv.pc \in ServerPast /\ n[2] < kv.tx
  BY SMTT(60) DEF Ahead
<1>3. cl.pc \in ClientPast => kl.pc \in ClientPast
  BY DEF Ahead
<1> QED BY <1>1, <1>2, <1>3 DEF NonceOk

LEMMA NonceFields ==
  ASSUME NEW n, NEW tag, NEW ck, NEW seq, NonceIs(n, tag, ck, seq)
  PROVE  n[1] = <<tag, ck>> /\ n[1][1] = tag /\ n[1][2] = ck /\ n[2] = seq
BY SMTT(60) DEF NonceIs

(* A nonce that a worker is about to use is new. *)
LEMMA NonceNew ==
  ASSUME NEW c, NEW cl, NEW sv, NEW n, NEW tag, NEW ck, NEW seq \in Nat, NonceIs(n, tag, ck, seq), NonceOk(c, cl, sv, n),
         \/ tag = "static" /\ Owned(c, "ee", ck) /\ sv.pc \notin Answered
         \/ tag = "static" /\ Owned(c, "se", ck) /\ cl.pc \notin ClientPast
         \/ tag = "i2r" /\ Owned(c, "se", ck) /\ seq = cl.tx
         \/ tag = "r2i" /\ Owned(c, "se", ck) /\ (seq = sv.tx \/ sv.pc \notin ServerPast)
  PROVE  FALSE
<1>1. n[1][1] = tag /\ n[1][2] = ck /\ n[2] = seq
  BY NonceFields
<1>2. Rnd(ck)[2][2] = c
  BY DEF Owned
<1>3. ~(seq < seq)
  BY SMTT(60)
<1> QED BY <1>1, <1>2, <1>3 DEF NonceOk, Owned

(* And is accounted for after the step. *)
LEMMA NonceNoted ==
  ASSUME NEW c, NEW d, NEW kl, NEW kv, NEW n, NEW tag, NEW ck, NEW seq, NonceIs(n, tag, ck, seq),
         \/ tag = "static" /\ Owned(c, "ee", ck) /\ (d = c => kv.pc \in Answered)
         \/ tag = "static" /\ Owned(c, "se", ck) /\ (d = c => kl.pc \in ClientPast)
         \/ tag = "i2r" /\ Owned(c, "se", ck) /\ (d = c => kl.pc \in ClientPast /\ seq < kl.tx)
         \/ tag = "r2i" /\ Owned(c, "se", ck) /\ (d = c => kv.pc \in ServerPast /\ seq < kv.tx)
  PROVE  NonceOk(d, kl, kv, n) /\ n[1][1] = tag
<1>1. n[1][1] = tag /\ n[1][2] = ck /\ n[2] = seq
  BY NonceFields
<1>2. Rnd(ck)[2][2] = c
  BY DEF Owned
<1>3. NonceOk(d, kl, kv, n)
  BY <1>1, <1>2 DEF NonceOk, Owned
<1> QED BY <1>1, <1>3
-----------------------------------------------------------------------------
(* Tickets.  T is the set of the tickets that are somewhere, uses what was made of
   them; issued, epoch and seen are the server's, clock is the clock. *)
TicketOk(t, issued, epoch) ==
  /\ DOMAIN t = {"key", "id", "fp", "exp"} /\ t.id \in 1 .. issued /\ t.exp \in Nat
  /\ t.key = Noise \/ t.key \in 0 .. epoch
Spent(u, clock, seen) == u.exp <= clock \/ (u.id \in DOMAIN seen /\ seen[u.id] = u.exp)
UseOk(u, T, issued, epoch, clock, seen) ==
  /\ u.id \in 1 .. issued /\ u.exp \in Nat
  /\ \A t \in T : t.id = u.id => t.exp = u.exp /\ (t.key = epoch => Spent(u, clock, seen))
Once(uses) ==
  \A i, j \in DOMAIN uses : i < j /\ uses[i].id = uses[j].id => uses[j].at = uses[j].exp
TicketsOk(T, uses, issued, epoch, clock, seen) ==
  /\ issued \in Nat /\ epoch \in Nat /\ clock \in Nat
  /\ \A t \in T : TicketOk(t, issued, epoch)
  /\ \A t, u \in T : t.id = u.id => t.exp = u.exp
  /\ IsSeq(uses) /\ \A i \in DOMAIN uses : UseOk(uses[i], T, issued, epoch, clock, seen)
  /\ Once(uses)
  /\ \A id \in DOMAIN seen : id \in 1 .. issued

(* A ticket is handed on, or damaged. *)
Copies(d, t) == DOMAIN d = DOMAIN t /\ d.id = t.id /\ d.exp = t.exp /\ d.key = Noise
LEMMA TicketsKept ==
  ASSUME NEW T, NEW uses, NEW issued, NEW epoch, NEW clock, NEW seen, TicketsOk(T, uses, issued, epoch, clock, seen),
         Noise \notin Nat, NEW U, \A d \in U : d \in T \/ \E t \in T : Copies(d, t)
  PROVE  TicketsOk(U, uses, issued, epoch, clock, seen)
<1>1. epoch \in Nat /\ Noise # epoch
  BY DEF TicketsOk
<1>2. ASSUME NEW d \in U PROVE \E t \in T : d.id = t.id /\ d.exp = t.exp /\ DOMAIN d = DOMAIN t /\ (d.key = t.key \/ d.key = Noise)
  BY DEF Copies
<1> USE <1>2
<1>3. \A d \in U : TicketOk(d, issued, epoch)
  BY DEF TicketsOk, TicketOk
<1>4. ASSUME NEW d \in U, NEW e \in U, d.id = e.id PROVE d.exp = e.exp
  <2>1. PICK t \in T : d.id = t.id /\ d.exp = t.exp
    OBVIOUS
  <2>2. PICK u \in T : e.id = u.id /\ e.exp = u.exp
    OBVIOUS
  <2>3. t.id = u.id => t.exp = u.exp
    BY DEF TicketsOk
  <2> QED BY <1>4, <2>1, <2>2, <2>3
<1>5. ASSUME NEW i \in DOMAIN uses PROVE UseOk(uses[i], U, issued, epoch, clock, seen)
  <2> DEFINE u == uses[i]
  <2>1. UseOk(u, T, issued, epoch, clock, seen)
    BY DEF TicketsOk
  <2> HIDE DEF u
  <2>2. ASSUME NEW d \in U, d.id = u.id PROVE d.exp = u.exp /\ (d.key = epoch => Spent(u, clock, seen))
    BY <2>1, <2>2, <1>1 DEF UseOk
  <2>3. UseOk(u, U, issued, epoch, clock, seen)
    BY <2>1, <2>2 DEF UseOk
  <2> QED BY <2>3 DEF u
<1> QED BY <1>3, <1>4, <1>5 DEF TicketsOk

(* The server issues a ticket. *)
LEMMA TicketsIssued ==
  ASSUME NEW T, NEW uses, NEW issued, NEW epoch, NEW clock, NEW seen, TicketsOk(T, uses, issued, epoch, clock, seen),
         NEW n, n.id = issued + 1, n.exp \in Nat, n.key = epoch, DOMAIN n = {"key", "id", "fp", "exp"}
  PROVE  TicketsOk(T \cup {n}, uses, issued + 1, epoch, clock, seen)
<1>1. issued \in Nat /\ epoch \in Nat /\ clock \in Nat /\ issued + 1 \in Nat
  BY SMTT(60) DEF TicketsOk
<1> USE <1>1
<1>2. \A i : i \in 1 .. issued => i \in 1 .. issued + 1 /\ i # issued + 1
  BY SMTT(60)
<1> USE <1>2
<1>3. issued + 1 \in 1 .. issued + 1 /\ epoch \in 0 .. epoch
  BY SMTT(60)
<1>4. \A t \in T : TicketOk(t, issued + 1, epoch) /\ t.id # n.id
  BY DEF TicketsOk, TicketOk
<1>5. TicketOk(n, issued + 1, epoch)
  BY <1>3 DEF TicketOk
<1>6. ASSUME NEW i \in DOMAIN uses PROVE UseOk(uses[i], T \cup {n}, issued + 1, epoch, clock, seen)
  BY DEF TicketsOk, UseOk
<1>7. \A t, u \in T \cup {n} : t.id = u.id => t.exp = u.exp
  BY <1>4 DEF TicketsOk
<1>8. \A id \in DOMAIN seen : id \in 1 .. issued + 1
  BY DEF TicketsOk
<1>9. IsSeq(uses) /\ Once(uses)
  BY DEF TicketsOk
<1> QED BY <1>4, <1>5, <1>6, <1>7, <1>8, <1>9 DEF TicketsOk

(* Time passes. *)
LEMMA TicketsTick ==
  ASSUME NEW T, NEW uses, NEW issued, NEW epoch, NEW clock, NEW seen, TicketsOk(T, uses, issued, epoch, clock, seen)
  PROVE  TicketsOk(T, uses, issued, epoch, clock + 1, seen)
<1>1. clock \in Nat /\ clock + 1 \in Nat /\ \A e \in Nat : e <= clock => e <= clock + 1
  <2>1. clock \in Nat
    BY DEF TicketsOk
  <2> QED BY SMTT(60), <2>1
<1>2. ASSUME NEW i \in DOMAIN uses PROVE UseOk(uses[i], T, issued, epoch, clock + 1, seen)
  BY <1>1 DEF TicketsOk, UseOk, Spent
<1> QED BY <1>1, <1>2 DEF TicketsOk

(* The server starts again, with another key and an empty cache. *)
LEMMA TicketsRestart ==
  ASSUME NEW T, NEW uses, NEW issued, NEW epoch, NEW clock, NEW seen, TicketsOk(T, uses, issued, epoch, clock, seen),
         Noise \notin Nat
  PROVE  TicketsOk(T, uses, issued, epoch + 1, clock, <<>>)
<1>1. epoch \in Nat /\ epoch + 1 \in Nat /\ \A k : k \in 0 .. epoch => k \in 0 .. epoch + 1 /\ k # epoch + 1
  <2>1. epoch \in Nat
    BY DEF TicketsOk
  <2> QED BY SMTT(60), <2>1
<1> USE <1>1
<1>2. \A t \in T : TicketOk(t, issued, epoch + 1) /\ t.key # epoch + 1
  BY DEF TicketsOk, TicketOk
<1>3. ASSUME NEW i \in DOMAIN uses PROVE UseOk(uses[i], T, issued, epoch + 1, clock, <<>>)
  BY <1>2 DEF TicketsOk, UseOk
<1>4. \A id : id \notin DOMAIN <<>>
  BY SMTT(60)
<1> QED BY <1>2, <1>3, <1>4 DEF TicketsOk

(* The cache forgets what has expired. *)
Forgets(seen, clock, r) ==
  /\ \A id : id \in DOMAIN r <=> id \in DOMAIN seen /\ seen[id] > clock
  /\ \A id \in DOMAIN r : r[id] = seen[id]
Adds(seen, clock, id, exp, r) ==
  /\ \A i : i \in DOMAIN r <=> i = id \/ (i \in DOMAIN seen /\ seen[i] > clock)
  /\ \A i \in DOMAIN r : r[i] = IF i = id THEN exp ELSE seen[i]
LEMMA PurgedIs ==
  ASSUME NEW seen, NEW clock
  PROVE  Forgets(seen, clock, Purged(seen, clock))
BY DEF Purged, Forgets
LEMMA RecordedIs ==
  ASSUME NEW seen, NEW clock, NEW id, NEW exp
  PROVE  Adds(seen, clock, id, exp, Recorded(seen, id, exp, clock))
<1> DEFINE D == DOMAIN Purged(seen, clock) \cup {id}
           r == [i \in D |-> IF i = id THEN exp ELSE seen[i]]
<1>1. \A i : i \in D <=> i = id \/ (i \in DOMAIN seen /\ seen[i] > clock)
  BY PurgedIs DEF Forgets
<1> HIDE DEF D
<1>2. DOMAIN r = D /\ \A i \in D : r[i] = IF i = id THEN exp ELSE seen[i]
  BY SMTT(60)
<1> HIDE DEF r
<1>3. Adds(seen, clock, id, exp, r)
  BY <1>1, <1>2 DEF Adds
<1> QED BY <1>3 DEF Recorded, r, D

LEMMA SpentPurged ==
  ASSUME NEW u, u.exp \in Nat, NEW clock \in Nat, NEW seen, Spent(u, clock, seen)
  PROVE  Spent(u, clock, Purged(seen, clock))
<1> DEFINE r == Purged(seen, clock)
<1>0. Forgets(seen, clock, r)
  BY PurgedIs
<1> HIDE DEF r
<1> SUFFICES Spent(u, clock, r)
  BY DEF r
<1>1. CASE u.exp <= clock
  BY <1>1 DEF Spent
<1>2. CASE ~(u.exp <= clock)
  <2>1. u.exp > clock
    BY SMTT(60), <1>2
  <2>2. u.id \in DOMAIN seen /\ seen[u.id] = u.exp
    BY <1>2 DEF Spent
  <2>3. u.id \in DOMAIN r
    BY <2>1, <2>2, <1>0 DEF Forgets
  <2>4. r[u.id] = seen[u.id]
    BY <2>3, <1>0 DEF Forgets
  <2> QED BY <2>2, <2>3, <2>4 DEF Spent
<1> QED BY <1>1, <1>2

LEMMA TicketsPurged ==
  ASSUME NEW T, NEW uses, NEW issued, NEW epoch, NEW clock, NEW seen, TicketsOk(T, uses, issued, epoch, clock, seen)
  PROVE  TicketsOk(T, uses, issued, epoch, clock, Purged(seen, clock))
<1> DEFINE r == Purged(seen, clock)
<1>0. clock \in Nat
  BY DEF TicketsOk
<1>1. ASSUME NEW i \in DOMAIN uses PROVE UseOk(uses[i], T, issued, epoch, clock, r)
  BY <1>0, SpentPurged DEF TicketsOk, UseOk
<1>2. \A id \in DOMAIN r : id \in 1 .. issued
  BY PurgedIs DEF TicketsOk, Forgets
<1> HIDE DEF r
<1>3. TicketsOk(T, uses, issued, epoch, clock, r)
  BY <1>1, <1>2 DEF TicketsOk
<1> QED BY <1>3 DEF r

(* The cache records a ticket. *)
LEMMA TicketsSeen ==
  ASSUME NEW T, NEW uses, NEW issued, NEW epoch, NEW clock, NEW seen, TicketsOk(T, uses, issued, epoch, clock, seen), NEW t \in T
  PROVE  TicketsOk(T, uses, issued, epoch, clock, Recorded(seen, t.id, t.exp, clock))
<1> DEFINE r == Recorded(seen, t.id, t.exp, clock)
<1>0. clock \in Nat /\ TicketOk(t, issued, epoch)
  BY DEF TicketsOk
<1>r. Adds(seen, clock, t.id, t.exp, r)
  BY RecordedIs
<1> USE <1>r
<1> HIDE DEF r
<1>1. ASSUME NEW i \in DOMAIN uses PROVE UseOk(uses[i], T, issued, epoch, clock, r)
  <2> DEFINE u == uses[i]
  <2>1. UseOk(u, T, issued, epoch, clock, seen)
    BY DEF TicketsOk
  <2> USE <2>1
  <2> HIDE DEF u
  <2>2. u.exp \in Nat
    BY DEF UseOk
  <2>3. ASSUME Spent(u, clock, seen) PROVE Spent(u, clock, r)
    <3>1. CASE u.exp <= clock
      BY <3>1 DEF Spent
    <3>2. CASE ~(u.exp <= clock)
      <4>1. u.exp > clock
        BY SMTT(60), <3>2, <2>2, <1>0
      <4>2. u.id \in DOMAIN seen /\ seen[u.id] = u.exp
        BY <2>3, <3>2 DEF Spent
      <4>3. u.id \in DOMAIN r
        BY <4>1, <4>2 DEF Adds
      <4>4. u.id = t.id => t.exp = u.exp
        BY DEF UseOk
      <4>5. r[u.id] = u.exp
        BY <4>2, <4>3, <4>4 DEF Adds
      <4> QED BY <4>3, <4>5 DEF Spent
    <3> QED BY <3>1, <3>2
  <2>4. UseOk(u, T, issued, epoch, clock, r)
    BY <2>3 DEF UseOk
  <2> QED BY <2>4 DEF u
<1>2. \A id \in DOMAIN r : id \in 1 .. issued
  BY <1>0 DEF Adds, TicketsOk, TicketOk
<1>3. TicketsOk(T, uses, issued, epoch, clock, r)
  BY <1>1, <1>2 DEF TicketsOk
<1> QED BY <1>3 DEF r

(* And the server resumes with it: if it was used before, this is its last second. *)
LEMMA TicketsUsed ==
  ASSUME NEW T, NEW uses, NEW issued, NEW epoch, NEW clock, NEW seen, TicketsOk(T, uses, issued, epoch, clock, seen), NEW t \in T,
         TicketOpens(epoch, t, clock), ~IsReplay(seen, t.id, clock), NEW u, u = [id |-> t.id, exp |-> t.exp, at |-> clock]
  PROVE  TicketsOk(T, Append(uses, u), issued, epoch, clock, Recorded(seen, t.id, t.exp, clock))
<1> DEFINE r == Recorded(seen, t.id, t.exp, clock)
           q == Append(uses, u)
           n == Len(uses)
<1>1. TicketsOk(T, uses, issued, epoch, clock, r)
  BY TicketsSeen
<1>2. u.id = t.id /\ u.exp = t.exp /\ u.at = clock
  BY SMTT(60)
<1> USE <1>2
<1>3. t.key = epoch /\ clock <= t.exp /\ clock \in Nat /\ TicketOk(t, issued, epoch) /\ IsSeq(uses) /\ Once(uses)
  BY DEF TicketsOk, TicketOpens
<1> USE <1>3
<1>4. t.exp \in Nat
  BY DEF TicketOk
<1> USE <1>4
<1>5. ASSUME NEW i \in DOMAIN uses, uses[i].id = u.id PROVE u.at = u.exp
  <2> DEFINE v == uses[i]
  <2>1. UseOk(v, T, issued, epoch, clock, seen)
    BY DEF TicketsOk
  <2> HIDE DEF v
  <2>2. v.id = t.id
    BY <1>5 DEF v
  <2>3. t.exp = v.exp /\ Spent(v, clock, seen)
    BY <2>1, <2>2 DEF UseOk
  <2>4. t.exp <= clock
    <3>1. CASE v.exp <= clock
      BY <2>3, <3>1
    <3>2. CASE ~(v.exp <= clock)
      <4>1. t.id \in DOMAIN seen /\ seen[t.id] = t.exp
        BY <2>2, <2>3, <3>2 DEF Spent
      <4>2. ~(t.exp > clock)
        BY <4>1, PurgedIs DEF IsReplay, Forgets
      <4> QED BY SMTT(60), <4>2
    <3> QED BY <3>1, <3>2
  <2>5. t.exp = clock
    BY SMTT(60), <2>4
  <2> QED BY <2>5
<1>r. Adds(seen, clock, t.id, t.exp, r)
  BY RecordedIs
<1>6. Appended(uses, u, q)
  BY SeqAppend
<1> HIDE DEF q, r
<1>7. IsSeq(q) /\ Len(q) = n + 1 /\ n \in Nat /\ q[n + 1] = u /\ \A i \in 1 .. n : q[i] = uses[i]
  BY <1>6 DEF Appended
<1> USE <1>7
<1>8. DOMAIN uses = 1 .. n /\ DOMAIN q = 1 .. n + 1
  BY SeqLen
<1> USE <1>8
<1>9. \A i \in 1 .. n + 1 : i \in 1 .. n \/ i = n + 1
  BY SMTT(60)
<1>10. Once(q)
  <2> SUFFICES ASSUME NEW i \in DOMAIN q, NEW j \in DOMAIN q, i < j, q[i].id = q[j].id PROVE q[j].at = q[j].exp
    BY DEF Once
  <2>1. i \in 1 .. n
    BY SMTT(60)
  <2>2. CASE j = n + 1
    BY <2>1, <2>2, <1>5
  <2>3. CASE j \in 1 .. n
    BY <2>1, <2>3 DEF Once
  <2> QED BY <2>2, <2>3, <1>9
<1>11. UseOk(u, T, issued, epoch, clock, r)
  BY <1>r DEF Adds, Spent, TicketOk, TicketsOk, UseOk
<1>12. \A i \in DOMAIN q : UseOk(q[i], T, issued, epoch, clock, r)
  BY <1>1, <1>9, <1>11 DEF TicketsOk
<1>13. TicketsOk(T, q, issued, epoch, clock, r)
  BY <1>1, <1>10, <1>12 DEF TicketsOk
<1> QED BY <1>13 DEF q, r

-----------------------------------------------------------------------------
(* The frames of a queue. *)
LEMMA RangeTail ==
  ASSUME NEW q, IsSeq(q), q # <<>>
  PROVE  Range(Tail(q)) \subseteq Range(q) /\ Head(q) \in Range(q)
<1> DEFINE r == Tail(q)
           n == Len(q)
<1>1. DOMAIN q = 1 .. n /\ n \in Nat /\ n # 0 /\ Head(q) = q[1]
  BY SMTT(60) DEF IsSeq
<1> USE <1>1
<1>2. Shortened(q, r) /\ DOMAIN r = 1 .. Len(r)
  <2>1. Shortened(q, r)
    BY SeqTail
  <2>2. DOMAIN r = 1 .. Len(r)
    BY <2>1, SMTT(60) DEF Shortened, IsSeq
  <2> QED BY <2>1, <2>2
<1> HIDE DEF r, n
<1>3. Head(q) \in Range(q)
  <2>1. 1 \in DOMAIN q
    BY SMTT(60)
  <2> QED BY <2>1 DEF Range
<1>4. ASSUME NEW f \in Range(r) PROVE f \in Range(q)
  <2>1. PICK i \in DOMAIN r : f = r[i]
    BY <1>4 DEF Range
  <2>2. i + 1 \in DOMAIN q /\ r[i] = q[i + 1]
    BY <1>2, SMTT(60) DEF Shortened, n
  <2> QED BY <2>1, <2>2 DEF Range
<1> QED BY <1>3, <1>4 DEF r

LEMMA RangeJoined ==
  ASSUME NEW q, IsSeq(q), NEW r, IsSeq(r)
  PROVE  Range(q \o r) \subseteq Range(q) \cup Range(r)
<1> DEFINE s == q \o r
<1>1. Joined(q, r, s)
  BY SeqConcat
<1> USE <1>1
<1>2. DOMAIN q = 1 .. Len(q) /\ DOMAIN r = 1 .. Len(r) /\ Len(q) \in Nat /\ Len(r) \in Nat
  BY SMTT(60) DEF IsSeq
<1>3. DOMAIN s = 1 .. Len(s)
  BY SMTT(60) DEF Joined, IsSeq
<1> HIDE DEF s
<1>4. ASSUME NEW f \in Range(s) PROVE f \in Range(q) \/ f \in Range(r)
  <2>1. PICK i \in DOMAIN s : f = s[i]
    BY <1>4 DEF Range
  <2>2. CASE i <= Len(q)
    <3>1. i \in DOMAIN q /\ s[i] = q[i]
      BY <1>2, <1>3, <2>2, SMTT(60) DEF Joined
    <3> QED BY <2>1, <3>1 DEF Range
  <2>3. CASE ~(i <= Len(q))
    <3>1. i - Len(q) \in DOMAIN r /\ s[i] = r[i - Len(q)]
      BY <1>2, <1>3, <2>3, SMTT(60) DEF Joined
    <3> QED BY <2>1, <3>1 DEF Range
  <2> QED BY <2>2, <2>3
<1> QED BY <1>4 DEF s

LEMMA RangeFirst ==
  ASSUME NEW q, IsSeq(q), NEW f
  PROVE  Range([q EXCEPT ![1] = f]) \subseteq Range(q) \cup {f}
<1> DEFINE r == [q EXCEPT ![1] = f]
<1>1. DOMAIN r = DOMAIN q /\ \A i \in DOMAIN q : r[i] = f \/ r[i] = q[i]
  OBVIOUS
<1> HIDE DEF r
<1>2. Range(r) \subseteq Range(q) \cup {f}
  BY <1>1 DEF Range
<1> QED BY <1>2 DEF r

LEMMA RangeNone == Range(<<>>) = {}
BY SMTT(60) DEF Range
LEMMA RangeOne ==
  ASSUME NEW t
  PROVE  Range(<<t>>) = {t}
BY SMTT(60) DEF Range

-----------------------------------------------------------------------------
(* What a frame carries, and what damage makes of it. *)
AtMostOne(q) == q = <<>> \/ \E t : q = <<t>>
Light(f) ==
  /\ "t" \in DOMAIN f
  /\ f.t = "MSG1_PSK" => "ticket" \in DOMAIN f
  /\ f.t = "DATA" => Boxed(f) /\ AtMostOne(f.box.text.ticket)
Carries(f, t) == (f.t = "MSG1_PSK" /\ t = f.ticket) \/ (f.t = "DATA" /\ t \in Range(f.box.text.ticket))

(* Damage leaves a frame's type or makes it no frame at all, and of its box at most
   the key is lost; the flag before message 2 may change. *)
Hurt(h, f) ==
  /\ DOMAIN f = DOMAIN h
  /\ f.t \notin {"?", "long"} =>
       /\ f.t = h.t
       /\ "box" \in DOMAIN h => f.box = h.box \/ f.box = [h.box EXCEPT !.key = Noise]
       /\ h.t = "MSG2" /\ "early" \in DOMAIN h => f.early = h.early \/ f = [h EXCEPT !.early = ~@]
       /\ h.t = "MSG1_PSK" /\ "ticket" \in DOMAIN h => f.ticket = h.ticket \/ f.ticket = [h.ticket EXCEPT !.key = Noise]
LEMMA HurtField ==
  ASSUME NEW h, "t" \in DOMAIN h, NEW f, NEW v,
         f = [h EXCEPT !.e = v] \/ f = [h EXCEPT !.cookie = v] \/ f = [h EXCEPT !.ct = v] \/ f = [h EXCEPT !.se = v]
         \/ f = [h EXCEPT !.st = v] \/ (h.t # "MSG2" /\ f = [h EXCEPT !.early = v])
  PROVE  Hurt(h, f)
<1>1. DOMAIN f = DOMAIN h /\ f.t = h.t /\ ("box" \in DOMAIN h => f.box = h.box) /\ ("ticket" \in DOMAIN h => f.ticket = h.ticket)
      /\ (h.t = "MSG2" /\ "early" \in DOMAIN h => f.early = h.early)
  OBVIOUS
<1> QED BY <1>1 DEF Hurt
LEMMA HurtKey ==
  ASSUME NEW h, "t" \in DOMAIN h, NEW f,
         \/ f = [h EXCEPT !.t = "?"] \/ f = [h EXCEPT !.t = "long"]
         \/ h.t # "MSG1_PSK" /\ f = [h EXCEPT !.box.key = Noise]
         \/ h.t = "MSG1_PSK" /\ f = [h EXCEPT !.ticket.key = Noise]
         \/ h.t = "MSG2" /\ f = [h EXCEPT !.early = ~@]
  PROVE  Hurt(h, f)
<1>1. CASE f = [h EXCEPT !.t = "?"] \/ f = [h EXCEPT !.t = "long"]
  BY <1>1 DEF Hurt
<1>2. CASE h.t # "MSG1_PSK" /\ f = [h EXCEPT !.box.key = Noise]
  BY <1>2 DEF Hurt
<1>3. CASE h.t = "MSG1_PSK" /\ f = [h EXCEPT !.ticket.key = Noise]
  BY <1>3 DEF Hurt
<1>4. CASE h.t = "MSG2" /\ f = [h EXCEPT !.early = ~@]
  BY <1>4 DEF Hurt
<1> QED BY <1>1, <1>2, <1>3, <1>4
LEMMA HurtBox ==
  ASSUME NEW h, NEW f, Hurt(h, f), f.t \notin {"?", "long"}, "box" \in DOMAIN h
  PROVE  /\ HasBox(h) => HasBox(f) /\ f.box.text = h.box.text /\ f.box.aad = h.box.aad /\ f.box.key \in {h.box.key, Noise}
         /\ Boxed(h) => Boxed(f) /\ f.box.text = h.box.text
<1> DEFINE b == h.box
           k == [b EXCEPT !.key = Noise]
<1>1. f.box = b \/ f.box = k
  BY DEF Hurt
<1>2. "box" \in DOMAIN f
  BY DEF Hurt
<1>3. DOMAIN k = DOMAIN b /\ ("key" \in DOMAIN b => k.key = Noise) /\ ("text" \in DOMAIN b => k.text = b.text)
      /\ ("aad" \in DOMAIN b => k.aad = b.aad)
  OBVIOUS
<1> HIDE DEF k, b
<1>4. HasBox(h) => DOMAIN b = {"key", "seq", "aad", "text"}
  BY DEF HasBox, b
<1>5. HasBox(h) => HasBox(f) /\ f.box.text = b.text /\ f.box.aad = b.aad /\ f.box.key \in {b.key, Noise}
  BY <1>1, <1>2, <1>3, <1>4 DEF HasBox
<1>6. Boxed(h) => Boxed(f) /\ f.box.text = b.text
  BY <1>1, <1>2, <1>3 DEF Boxed, b
<1> QED BY <1>5, <1>6 DEF b

LEMMA HurtClient ==
  ASSUME NEW c, NEW cl, NEW h, NEW f, FromClient(c, cl, h), Hurt(h, f)
  PROVE  FromClient(c, cl, f)
<1>1. "t" \in DOMAIN f
  BY DEF FromClient, Hurt
<1>2. ASSUME f.t = "MSG3" PROVE HasBox(f) /\ Written(c, cl) /\ Msg3Box(cl, f.box)
  BY <1>2, HurtBox DEF Hurt, FromClient, HasBox, Msg3Box
<1> QED BY <1>1, <1>2 DEF FromClient

LEMMA HurtServer ==
  ASSUME NEW c, NEW cl, NEW sv, NEW fl, NEW gl, NEW h, NEW f, FromServer(c, cl, sv, fl, h), Hurt(h, f), fl => gl,
         f.t = "MSG2" /\ f = [h EXCEPT !.early = ~@] => gl
  PROVE  FromServer(c, cl, sv, gl, f)
<1>1. "t" \in DOMAIN f /\ (f.t \notin {"?", "long"} => f.t = h.t)
  BY DEF FromServer, Hurt
<1> USE <1>1
<1>2. f.t = "DATA" => Served(c, cl, sv)
  BY DEF FromServer
<1>3. ASSUME f.t = "MSG2"
      PROVE  /\ HasBox(f) /\ "early" \in DOMAIN f /\ f.box.text = RelayPk
             /\ sv.pc \in Answered /\ sv.early \in BOOLEAN /\ (~gl => f.early = sv.early)
  BY HurtBox, <1>3 DEF FromServer, HasBox, Hurt
<1> QED BY <1>2, <1>3 DEF FromServer

LEMMA HurtLight ==
  ASSUME NEW h, NEW f, Light(h), Hurt(h, f)
  PROVE  /\ Light(f)
         /\ \A t : Carries(f, t) => Carries(h, t) \/ (h.t = "MSG1_PSK" /\ t = [h.ticket EXCEPT !.key = Noise])
<1>1. "t" \in DOMAIN f /\ (f.t \notin {"?", "long"} => f.t = h.t) /\ DOMAIN f = DOMAIN h
  BY DEF Light, Hurt
<1> USE <1>1
<1>2. f.t = "MSG1_PSK" => "ticket" \in DOMAIN f /\ (f.ticket = h.ticket \/ f.ticket = [h.ticket EXCEPT !.key = Noise])
  BY DEF Light, Hurt
<1>3. f.t = "DATA" => Boxed(f) /\ f.box.text = h.box.text /\ AtMostOne(h.box.text.ticket)
  BY HurtBox DEF Light, Boxed
<1>4. Light(f)
  BY <1>2, <1>3 DEF Light
<1> QED BY <1>2, <1>3, <1>4 DEF Carries

LEMMA FlagOf ==
  ASSUME NEW q, NEW r, r = (q # <<>>)
  PROVE  r \in BOOLEAN /\ (r <=> q # <<>>)
<1>1. CASE q = <<>>
  BY <1>1
<1>2. CASE q # <<>>
  BY <1>2
<1> QED BY <1>1, <1>2

(* The frame of a message or of a ticket, and the keys of a session. *)
LEMMA DataLight ==
  ASSUME NEW k, NEW q, NEW a, NEW tk, NEW m, AtMostOne(tk)
  PROVE  LET b == Seal(k, q, a, [ticket |-> tk, msg |-> m])
             f == [t |-> "DATA", box |-> b]
         IN  Light(f) /\ "t" \in DOMAIN f /\ f.t = "DATA" /\ b.key = k /\ b.seq = q /\ \A t : Carries(f, t) => t \in Range(tk)
<1> DEFINE x == [ticket |-> tk, msg |-> m]
           b == Seal(k, q, a, x)
           f == [t |-> "DATA", box |-> b]
<1>1. x.ticket = tk
  BY SMTT(60)
<1> HIDE DEF x
<1>2. "text" \in DOMAIN b /\ b.text = x /\ b.key = k /\ b.seq = q
  BY SMTT(60) DEF Seal
<1> HIDE DEF b
<1>3. "t" \in DOMAIN f /\ "box" \in DOMAIN f /\ f.t = "DATA" /\ f.box = b
  BY SMTT(60)
<1> HIDE DEF f
<1>4. Light(f) /\ \A t : Carries(f, t) => t \in Range(tk)
  BY <1>1, <1>2, <1>3 DEF Light, Boxed, Carries
<1> QED BY <1>2, <1>3, <1>4 DEF f, b, x

LEMMA KeysFields ==
  ASSUME NEW ck, NEW h
  PROVE  Keys(ck, h).i2r = <<"i2r", ck>> /\ Keys(ck, h).r2i = <<"r2i", ck>>
BY SMTT(60) DEF Keys
LEMMA WrittenKeys ==
  ASSUME NEW c, NEW cl, Written(c, cl)
  PROVE  \E ck : Owned(c, "se", ck) /\ cl.ses.i2r = <<"i2r", ck>> /\ cl.ses.r2i = <<"r2i", ck>>
<1>1. PICK ck, h : KeysOf(c, ck, h, cl.resumed) /\ cl.ses = Keys(ck, h)
  BY DEF Written, Derived
<1> QED BY <1>1, KeysFields DEF KeysOf
-----------------------------------------------------------------------------
(* States.  The variables by connection and side, and the kinds of their records. *)
HistFields == {"sent", "got", "uses", "nonces", "reused", "flipped", "damaged", "accepted"}
HistInv == DOMAIN hist = HistFields
Grid(f) == DOMAIN f = Conns /\ \A c \in Conns : DOMAIN f[c] = Sides
SetAt(f, g, c, x, v) ==
  /\ Grid(g) /\ g[c][x] = v
  /\ \A d \in Conns, y \in Sides : d # c \/ y # x => g[d][y] = f[d][y]
LEMMA GridSet ==
  ASSUME NEW f, Grid(f), NEW c \in Conns, NEW x \in Sides, NEW v, NEW g, g = [f EXCEPT ![c][x] = v]
  PROVE  SetAt(f, g, c, x, v)
<1>1. DOMAIN g = Conns /\ (\A d \in Conns : d # c => g[d] = f[d]) /\ g[c] = [f[c] EXCEPT ![x] = v]
  BY DEF Grid
<1> USE <1>1
<1>2. DOMAIN g[c] = Sides /\ (\A y \in Sides : y # x => g[c][y] = f[c][y]) /\ g[c][x] = v
  BY DEF Grid
<1> USE <1>2
<1>3. Grid(g)
  BY DEF Grid
<1>4. ASSUME NEW d \in Conns, NEW y \in Sides, d # c \/ y # x PROVE g[d][y] = f[d][y]
  BY <1>4
<1> QED BY <1>3, <1>4 DEF SetAt

LEMMA SetTwice ==
  ASSUME NEW f, NEW c, NEW x, NEW v, NEW g, SetAt(f, g, c, x, v), NEW u, NEW h, SetAt(g, h, c, x, u)
  PROVE  SetAt(f, h, c, x, u)
<1>1. ASSUME NEW d \in Conns, NEW y \in Sides, d # c \/ y # x PROVE h[d][y] = f[d][y]
  BY <1>1 DEF SetAt
<1>2. Grid(h) /\ h[c][x] = u
  BY DEF SetAt
<1> QED BY ONLY ZenonT(60), <1>1, <1>2 DEF SetAt

LEMMA GridSame ==
  ASSUME NEW f, Grid(f), NEW c \in Conns, NEW x \in Sides, NEW g, g = f
  PROVE  SetAt(f, g, c, x, f[c][x])
BY DEF SetAt

WorkerFields ==
  {"pc", "e", "peerE", "ss", "ticket", "early", "ses", "peer", "resumed", "tx", "rx", "listens"}
BridgeFields == {"inbound", "outbox", "wire", "closed"}
StreamFields == {"frames", "fin"}
Pcs == InHandshake \cup {"off", "start", "lock", "loop", "wait", "recv", "done"}
WorkerOk(v) == DOMAIN v = WorkerFields /\ v.pc \in Pcs
BridgeOk(b) == DOMAIN b = BridgeFields /\ IsSeq(b.inbound) /\ IsSeq(b.wire) /\ b.closed \in BOOLEAN
StreamOk(n) == DOMAIN n = StreamFields /\ IsSeq(n.frames) /\ n.fin \in BOOLEAN
TaskOk(t) == t \subseteq {"in", "out"}
Grids == Grid(w) /\ Grid(br) /\ Grid(task) /\ Grid(net) /\ HistInv
Records ==
  \A c \in Conns, x \in Sides : WorkerOk(w[c][x]) /\ BridgeOk(br[c][x]) /\ StreamOk(net[c][x]) /\ TaskOk(task[c][x])
ShapeInv == Grids /\ Records /\ cut \subseteq Conns /\ frozen \subseteq Conns

LEMMA BridgeOf ==
  ASSUME ShapeInv, NEW c \in Conns, NEW x \in Sides
  PROVE  /\ DOMAIN br[c][x] = BridgeFields /\ DOMAIN w[c][x] = WorkerFields /\ DOMAIN net[c][x] = StreamFields
         /\ IsSeq(br[c][x].inbound) /\ IsSeq(br[c][x].wire) /\ IsSeq(net[c][x].frames)
BY DEF ShapeInv, Records, WorkerOk, BridgeOk, StreamOk

LEMMA TookFields ==
  ASSUME ShapeInv, NEW c \in Conns, NEW x \in Sides
  PROVE  /\ DOMAIN Took(c, x) = BridgeFields /\ Took(c, x).inbound = Tail(br[c][x].inbound)
         /\ Took(c, x).wire = br[c][x].wire /\ Took(c, x).closed = br[c][x].closed
BY BridgeOf DEF Took, BridgeFields

LEMMA WroteFields ==
  ASSUME NEW b, DOMAIN b = BridgeFields, NEW f
  PROVE  /\ DOMAIN Wrote(b, f) = BridgeFields /\ Wrote(b, f).inbound = b.inbound
         /\ Wrote(b, f).wire = Append(b.wire, f) /\ Wrote(b, f).closed = b.closed
BY DEF Wrote, BridgeFields

LEMMA ClosedFields ==
  ASSUME NEW b, DOMAIN b = BridgeFields
  PROVE  LET k == [b EXCEPT !.closed = TRUE]
         IN  DOMAIN k = BridgeFields /\ k.inbound = b.inbound /\ k.wire = b.wire /\ k.closed = TRUE
BY DEF BridgeFields

LEMMA NewFields == DOMAIN NewWorker = WorkerFields
BY SMTT(60) DEF NewWorker, WorkerFields

LEMMA WorkerSets ==
  ASSUME ShapeInv, NEW c \in Conns, NEW x \in Sides, NEW nw, NEW nb, Becomes(c, x, nw, nb)
  PROVE  SetAt(w, w', c, x, nw) /\ SetAt(br, br', c, x, nb)
<1>1. Grid(w) /\ Grid(br) /\ w' = [w EXCEPT ![c][x] = nw] /\ br' = [br EXCEPT ![c][x] = nb]
  BY DEF ShapeInv, Grids, Becomes
<1> QED BY <1>1, GridSet

(* One worker, bridge, stream and set of tasks change. *)
LEMMA ShapeAt ==
  ASSUME ShapeInv, NEW c \in Conns, NEW x \in Sides, NEW y \in Sides, NEW nw, NEW nb, NEW nn, NEW nt,
         SetAt(w, w', c, x, nw), SetAt(br, br', c, x, nb), SetAt(net, net', c, y, nn), SetAt(task, task', c, x, nt),
         WorkerOk(nw), BridgeOk(nb), StreamOk(nn), TaskOk(nt), HistInv', cut' = cut, frozen' = frozen
  PROVE  ShapeInv'
<1>1. Grid(w') /\ Grid(br') /\ Grid(net') /\ Grid(task')
  BY DEF SetAt
<1>2. ASSUME NEW d \in Conns, NEW z \in Sides
      PROVE  WorkerOk(w'[d][z]) /\ BridgeOk(br'[d][z]) /\ StreamOk(net'[d][z]) /\ TaskOk(task'[d][z])
  <2>0. WorkerOk(w[d][z]) /\ BridgeOk(br[d][z]) /\ StreamOk(net[d][z]) /\ TaskOk(task[d][z])
    BY DEF ShapeInv, Records
  <2>1. (w'[d][z] = w[d][z] \/ w'[d][z] = nw) /\ (br'[d][z] = br[d][z] \/ br'[d][z] = nb)
    BY DEF SetAt
  <2>2. (net'[d][z] = net[d][z] \/ net'[d][z] = nn) /\ (task'[d][z] = task[d][z] \/ task'[d][z] = nt)
    BY DEF SetAt
  <2> QED BY <2>0, <2>1, <2>2
<1>3. HistInv' /\ cut \subseteq Conns /\ frozen \subseteq Conns
  BY DEF ShapeInv
<1>4. Grids'
  BY <1>1, <1>3 DEF Grids, Grid
<1>5. Records'
  BY <1>2 DEF Records, WorkerOk, BridgeOk, StreamOk, TaskOk
<1> QED BY <1>3, <1>4, <1>5 DEF ShapeInv

(* The worker, the bridge, the stream or the tasks of one side change. *)
Put(f, g, c, x, v) == g = [f EXCEPT ![c][x] = v] \/ (g = f /\ v = f[c][x])
LEMMA GridPut ==
  ASSUME NEW f, Grid(f), NEW c \in Conns, NEW x \in Sides, NEW v, NEW g, Put(f, g, c, x, v)
  PROVE  SetAt(f, g, c, x, v)
<1>1. CASE g = [f EXCEPT ![c][x] = v]
  BY <1>1, GridSet
<1>2. CASE g = f /\ v = f[c][x]
  BY <1>2, GridSame
<1> QED BY <1>1, <1>2 DEF Put

LEMMA PartShape ==
  ASSUME ShapeInv, NEW c \in Conns, NEW x \in Sides, NEW nw, NEW nb, NEW nn, NEW nt,
         Put(w, w', c, x, nw), Put(br, br', c, x, nb), Put(net, net', c, x, nn), Put(task, task', c, x, nt),
         WorkerOk(nw), BridgeOk(nb), StreamOk(nn), TaskOk(nt), HistInv', cut' = cut, frozen' = frozen
  PROVE  ShapeInv'
<1>1. Grid(w) /\ Grid(br) /\ Grid(net) /\ Grid(task)
  BY DEF ShapeInv, Grids
<1>2. SetAt(w, w', c, x, nw) /\ SetAt(br, br', c, x, nb) /\ SetAt(net, net', c, x, nn) /\ SetAt(task, task', c, x, nt)
  BY <1>1, GridPut
<1> QED BY <1>2, ShapeAt

LEMMA WorkerShape ==
  ASSUME ShapeInv, NEW c \in Conns, NEW x \in Sides, NEW nw, NEW nb, Becomes(c, x, nw, nb), Frame0, WorkerOk(nw), BridgeOk(nb), HistInv'
  PROVE  ShapeInv'
<1>1. Put(w, w', c, x, nw) /\ Put(br, br', c, x, nb)
  BY DEF Becomes, Put
<1>2. cut' = cut /\ frozen' = frozen /\ Put(task, task', c, x, task[c][x]) /\ Put(net, net', c, x, net[c][x])
  BY DEF Frame0, Put
<1>3. StreamOk(net[c][x]) /\ TaskOk(task[c][x])
  BY DEF ShapeInv, Records
<1> QED BY <1>1, <1>2, <1>3, PartShape

LEMMA PcShape ==
  ASSUME ShapeInv, NEW c \in Conns, NEW x \in Sides, NEW p \in Pcs, w' = [w EXCEPT ![c][x].pc = p], UNCHANGED <<br, hist>>, Frame0
  PROVE  ShapeInv'
<1> DEFINE nw == [w[c][x] EXCEPT !.pc = p]
<1>1. Put(w, w', c, x, nw) /\ Put(br, br', c, x, br[c][x])
  BY DEF Put
<1>2. cut' = cut /\ frozen' = frozen /\ Put(task, task', c, x, task[c][x]) /\ Put(net, net', c, x, net[c][x])
  BY DEF Frame0, Put
<1>3. WorkerOk(w[c][x]) /\ BridgeOk(br[c][x]) /\ StreamOk(net[c][x]) /\ TaskOk(task[c][x])
  BY DEF ShapeInv, Records
<1>4. WorkerOk(nw)
  BY <1>3 DEF WorkerOk, WorkerFields
<1>5. HistInv'
  BY DEF HistInv, ShapeInv, Grids
<1> HIDE DEF nw
<1> QED BY <1>1, <1>2, <1>3, <1>4, <1>5, PartShape

(* What becomes of a bridge. *)
LEMMA BridgesOk ==
  ASSUME NEW b, BridgeOk(b)
  PROVE  /\ BridgeOk([b EXCEPT !.closed = TRUE]) /\ BridgeOk([b EXCEPT !.wire = <<>>])
         /\ \A q : BridgeOk([b EXCEPT !.outbox = q]) /\ BridgeOk(Wrote(b, q)) /\ BridgeOk([b EXCEPT !.inbound = Append(@, q)])
         /\ b.inbound # <<>> => BridgeOk([b EXCEPT !.inbound = Tail(@)])
<1>0. DOMAIN b = BridgeFields /\ IsSeq(b.inbound) /\ IsSeq(b.wire) /\ b.closed \in BOOLEAN
  BY DEF BridgeOk
<1> USE <1>0
<1>1. \A q : IsSeq(Append(b.wire, q)) /\ IsSeq(Append(b.inbound, q))
  BY SeqAppend DEF Appended
<1>2. b.inbound # <<>> => IsSeq(Tail(b.inbound))
  BY SeqTail DEF Shortened
<1>3. \A q : BridgeOk([b EXCEPT !.outbox = q])
  BY DEF BridgeOk, BridgeFields
<1>4. \A q : BridgeOk(Wrote(b, q))
  BY <1>1 DEF BridgeOk, BridgeFields, Wrote
<1>5. \A q : BridgeOk([b EXCEPT !.inbound = Append(@, q)])
  BY <1>1 DEF BridgeOk, BridgeFields
<1>6. b.inbound # <<>> => BridgeOk([b EXCEPT !.inbound = Tail(@)])
  BY <1>2 DEF BridgeOk, BridgeFields
<1>7. BridgeOk([b EXCEPT !.closed = TRUE])
  BY DEF BridgeOk, BridgeFields
<1>8. BridgeOk([b EXCEPT !.wire = <<>>])
  BY SeqEmpty DEF BridgeOk, BridgeFields
<1> QED BY <1>3, <1>4, <1>5, <1>6, <1>7, <1>8

LEMMA WorkersShape ==
  ASSUME ShapeInv, NEW c \in Conns, Client(c) \/ Relay(c)
  PROVE  ShapeInv'
<1>0. "client" \in Sides /\ "server" \in Sides /\ HistInv
  BY DEF Sides, ShapeInv, Grids
<1> USE <1>0
<1>1. ASSUME NEW x \in Sides PROVE WorkerOk(w[c][x]) /\ BridgeOk(br[c][x]) /\ DOMAIN w[c][x] = WorkerFields
  BY DEF ShapeInv, Records, WorkerOk
<1>2. ASSUME NEW x \in Sides, br[c][x].inbound # <<>> PROVE BridgeOk(Took(c, x)) /\ \A f : BridgeOk(Wrote(Took(c, x), f))
  BY <1>1, <1>2, BridgesOk DEF Took
<1> USE <1>2
<1>3. ASSUME NEW x \in Sides, NEW f PROVE BridgeOk(Wrote(br[c][x], f))
  BY <1>1, BridgesOk
<1>4. ASSUME NEW x \in Sides, Fails(c, x), Frame0 PROVE ShapeInv'
  <2> USE <1>4
  <2> DEFINE nw == [w[c][x] EXCEPT !.pc = "done"]
             nb == [br[c][x] EXCEPT !.closed = TRUE]
  <2>1. WorkerOk(nw)
    BY <1>1 DEF WorkerOk, WorkerFields, Pcs
  <2>2. BridgeOk(nb) /\ HistInv'
    BY <1>1, BridgesOk DEF Fails, HistInv
  <2>3. Becomes(c, x, nw, nb)
    BY DEF Fails
  <2> HIDE DEF nw, nb
  <2> QED BY <2>1, <2>2, <2>3, WorkerShape
<1>5. ASSUME NEW h, DOMAIN h = HistFields, NEW S PROVE DOMAIN Used(h, S) = HistFields
  BY <1>5 DEF Used
<1> USE <1>5
<1>6. WorkerOk(FullWorker(c))
  BY NewFields DEF FullWorker, WorkerOk, WorkerFields, Pcs, InHandshake
<1>7. CASE ClientFull(c) \/ ClientRejected(c)
  <2>1. \E f : Becomes(c, "client", FullWorker(c), Wrote(br[c]["client"], f))
               \/ (br[c]["client"].inbound # <<>> /\ Becomes(c, "client", FullWorker(c), Wrote(Took(c, "client"), f)))
    BY <1>7 DEF ClientFull, ClientRejected, ClientIs, Fallback, Reads
  <2>2. Frame0 /\ HistInv'
    BY <1>7 DEF ClientFull, ClientRejected, HistInv
  <2> QED BY <1>3, <1>6, <2>1, <2>2, WorkerShape
<1>8. CASE ClientResume(c)
  <2>1. PICK e, s, t, f : Becomes(c, "client", [NewWorker EXCEPT !.pc = "psk", !.e = e, !.ss = s, !.ticket = t], Wrote(br[c]["client"], f))
    BY <1>8 DEF ClientResume, ClientIs
  <2> DEFINE nw == [NewWorker EXCEPT !.pc = "psk", !.e = e, !.ss = s, !.ticket = t]
  <2>2. WorkerOk(nw)
    BY NewFields DEF WorkerOk, WorkerFields, Pcs, InHandshake
  <2>3. Frame0 /\ HistInv'
    BY <1>8 DEF ClientResume, HistInv
  <2>4. Becomes(c, "client", nw, Wrote(br[c]["client"], f))
    BY <2>1
  <2> HIDE DEF nw
  <2> QED BY <1>3, <2>2, <2>3, <2>4, WorkerShape
<1>9. CASE ClientCookie(c)
  <2> DEFINE nw == [w[c]["client"] EXCEPT !.pc = "msg2"]
  <2>1. PICK f : br[c]["client"].inbound # <<>> /\ Becomes(c, "client", nw, Wrote(Took(c, "client"), f))
    BY <1>9 DEF ClientCookie, ClientIs, Reads
  <2>2. WorkerOk(nw)
    BY <1>1 DEF WorkerOk, WorkerFields, Pcs, InHandshake
  <2>3. Frame0 /\ HistInv'
    BY <1>9 DEF ClientCookie, HistInv
  <2> HIDE DEF nw
  <2> QED BY <2>1, <2>2, <2>3, WorkerShape
<1>10. CASE ClientMsg2(c)
  <2>1. Frame0 /\ HistInv'
    BY <1>10 DEF ClientMsg2, HistInv, Fails
  <2>2. Fails(c, "client") \/ \E s, p, r, e, f : br[c]["client"].inbound # <<>> /\
          Becomes(c, "client", [w[c]["client"] EXCEPT !.pc = "ticket", !.ses = s, !.peer = p, !.resumed = r, !.early = e], Wrote(Took(c, "client"), f))
    BY <1>10 DEF ClientMsg2, ClientIs, Reads
  <2>3. ASSUME NEW s, NEW p, NEW r, NEW e
        PROVE  WorkerOk([w[c]["client"] EXCEPT !.pc = "ticket", !.ses = s, !.peer = p, !.resumed = r, !.early = e])
    BY <1>1 DEF WorkerOk, WorkerFields, Pcs, InHandshake
  <2> QED BY <1>4, <2>1, <2>2, <2>3, WorkerShape
<1>11. CASE ClientTicket(c)
  <2>1. Frame0 /\ HistInv'
    BY <1>11 DEF ClientTicket, HistInv, Fails
  <2>2. Fails(c, "client") \/ \E r : br[c]["client"].inbound # <<>> /\
          Becomes(c, "client", [w[c]["client"] EXCEPT !.pc = "loop", !.rx = r], Took(c, "client"))
    BY <1>11 DEF ClientTicket, ClientIs, Reads
  <2>3. ASSUME NEW r PROVE WorkerOk([w[c]["client"] EXCEPT !.pc = "loop", !.rx = r])
    BY <1>1 DEF WorkerOk, WorkerFields, Pcs
  <2> QED BY <1>4, <2>1, <2>2, <2>3, WorkerShape
<1>12. CASE Accept(c)
  <2> DEFINE nw == [w[c]["server"] EXCEPT !.pc = "lock"]
             nt == {"in", "out"}
  <2>1. w' = [w EXCEPT ![c]["server"] = nw] /\ task' = [task EXCEPT ![c]["server"] = nt] /\ UNCHANGED <<br, net, cut, frozen, hist>>
    BY <1>12 DEF Accept
  <2> USE <2>1
  <2>2. WorkerOk(nw) /\ TaskOk(nt)
    BY <1>1 DEF WorkerOk, WorkerFields, Pcs, TaskOk
  <2> HIDE DEF nw, nt
  <2>3. Put(w, w', c, "server", nw) /\ Put(task, task', c, "server", nt) /\ HistInv'
    BY DEF Put, HistInv
  <2>4. Put(br, br', c, "server", br[c]["server"]) /\ Put(net, net', c, "server", net[c]["server"])
    BY DEF Put
  <2>5. BridgeOk(br[c]["server"]) /\ StreamOk(net[c]["server"]) /\ cut' = cut /\ frozen' = frozen
    BY DEF ShapeInv, Records
  <2> QED BY <2>2, <2>3, <2>4, <2>5, PartShape
<1>13. CASE LockCache(c)
  <2>1. w' = [w EXCEPT ![c]["server"].pc = "first"] /\ UNCHANGED <<br, hist>> /\ Frame0 /\ "first" \in Pcs
    BY <1>13 DEF LockCache, Pcs, InHandshake
  <2> QED BY <2>1, PcShape
<1>14. CASE ServerMsg1(c)
  <2>1. Frame0 /\ HistInv'
    BY <1>14 DEF ServerMsg1, HistInv
  <2>2. \E e, f : br[c]["server"].inbound # <<>> /\
          Becomes(c, "server", [w[c]["server"] EXCEPT !.pc = "retry", !.peerE = e], Wrote(Took(c, "server"), f))
    BY <1>14 DEF ServerMsg1, Reply, Reads, Server
  <2>3. ASSUME NEW e PROVE WorkerOk([w[c]["server"] EXCEPT !.pc = "retry", !.peerE = e])
    BY <1>1 DEF WorkerOk, WorkerFields, Pcs, InHandshake
  <2> QED BY <2>1, <2>2, <2>3, WorkerShape
<1>15. ASSUME NEW me, DOMAIN me = WorkerFields, NEW ss, NEW e, NEW peer, NEW flag, SendMsg2(c, me, ss, e, peer, flag), Frame0,
              br[c]["server"].inbound # <<>>
       PROVE  ShapeInv'
  <2> USE <1>15
  <2>1. \E s, f : Becomes(c, "server", [me EXCEPT !.pc = "msg3", !.e = e, !.ss = s], Wrote(Took(c, "server"), f))
    BY DEF SendMsg2, Reply
  <2>2. ASSUME NEW s PROVE WorkerOk([me EXCEPT !.pc = "msg3", !.e = e, !.ss = s])
    BY DEF WorkerOk, WorkerFields, Pcs, InHandshake
  <2>3. \E S, u : hist' = [Used(hist, S) EXCEPT !.uses = u]
    BY DEF SendMsg2
  <2>4. HistInv'
    BY <2>3 DEF HistInv
  <2> QED BY <2>1, <2>2, <2>4, WorkerShape
<1>16. CASE ServerRetry(c)
  <2>1. Frame0 /\ br[c]["server"].inbound # <<>>
    BY <1>16 DEF ServerRetry, Reads
  <2>2. Fails(c, "server") \/ \E ss, e, p, f : SendMsg2(c, w[c]["server"], ss, e, p, f)
    BY <1>16 DEF ServerRetry, Server
  <2> QED BY <1>1, <1>4, <1>15, <2>1, <2>2
<1>17. CASE ServerPsk(c)
  <2>1. Frame0 /\ br[c]["server"].inbound # <<>>
    BY <1>17 DEF ServerPsk, Reads
  <2>2. \/ \E t, y, ss, e, p, f : SendMsg2(c, [w[c]["server"] EXCEPT !.ticket = t, !.early = y], ss, e, p, f)
        \/ UNCHANGED hist /\ \E f : Becomes(c, "server", [w[c]["server"] EXCEPT !.pc = "msg1"], Wrote(Took(c, "server"), f))
    BY <1>17 DEF ServerPsk, Reply, Server
  <2>3. ASSUME NEW t, NEW y PROVE DOMAIN [w[c]["server"] EXCEPT !.ticket = t, !.early = y] = WorkerFields
    BY <1>1
  <2>4. WorkerOk([w[c]["server"] EXCEPT !.pc = "msg1"])
    BY <1>1 DEF WorkerOk, WorkerFields, Pcs, InHandshake
  <2>5. UNCHANGED hist => HistInv'
    BY DEF HistInv
  <2> QED BY <1>15, <2>1, <2>2, <2>3, <2>4, <2>5, WorkerShape
<1>18. CASE ServerMsg3(c)
  <2>1. Frame0 /\ br[c]["server"].inbound # <<>>
    BY <1>18 DEF ServerMsg3, Reads
  <2>2. Fails(c, "server") \/ \E s, p, r, n, f : (\E S : hist' = Used(hist, S)) /\
          Becomes(c, "server", [w[c]["server"] EXCEPT !.pc = "loop", !.ses = s, !.peer = p, !.resumed = r, !.tx = n], Wrote(Took(c, "server"), f))
    <3> DEFINE me == w[c]["server"]
               client == Frame(c, "server").box.text.pk
               ses == AfterMsg3(me.ss, me.e, ServerPk, Frame(c, "server"))
               box == Seal(ses.r2i, 0, ses.id, [ticket |-> <<Ticket(srv.epoch, srv.issued + 1, client, now)>>, msg |-> 0])
               res == me.ticket # <<>>
               f == [t |-> "DATA", box |-> box]
    <3>1. ASSUME ~Fails(c, "server")
          PROVE  /\ Becomes(c, "server", [me EXCEPT !.pc = "loop", !.ses = ses, !.peer = client, !.resumed = res, !.tx = AfterPush],
                             Wrote(Took(c, "server"), f))
                 /\ hist' = Used(hist, {box})
      BY <1>18, <3>1 DEF ServerMsg3, Server, Reply
    <3> HIDE DEF client, ses, box, res, f
    <3> QED BY <3>1
  <2>3. ASSUME NEW s, NEW p, NEW r, NEW n
        PROVE  WorkerOk([w[c]["server"] EXCEPT !.pc = "loop", !.ses = s, !.peer = p, !.resumed = r, !.tx = n])
    BY <1>1 DEF WorkerOk, WorkerFields, Pcs
  <2>4. (\E S : hist' = Used(hist, S)) => HistInv'
    BY DEF HistInv
  <2> QED BY <1>4, <2>1, <2>2, <2>3, <2>4, WorkerShape
<1> QED BY <1>7, <1>8, <1>9, <1>10, <1>11, <1>12, <1>13, <1>14, <1>16, <1>17, <1>18 DEF Client, Relay

LEMMA LoopShape ==
  ASSUME ShapeInv, NEW c \in Conns, NEW x \in Sides,
         ReadEof(c, x) \/ ReadUnexpected(c, x) \/ LoopSend(c, x) \/ LoopDrained(c, x) \/ LoopWakes(c, x) \/ LoopRecv(c, x)
         \/ LoopBlocks(c, x) \/ LoopCut(c, x)
  PROVE  ShapeInv'
<1>0. WorkerOk(w[c][x]) /\ BridgeOk(br[c][x]) /\ DOMAIN w[c][x] = WorkerFields /\ HistInv /\ Grid(br) /\ Grid(w)
  BY DEF ShapeInv, Records, WorkerOk, Grids
<1> USE <1>0
<1>1. Frame0
  BY DEF ReadEof, ReadUnexpected, LoopSend, LoopDrained, LoopWakes, LoopRecv, LoopBlocks, LoopCut
<1> USE <1>1
<1>2. ASSUME NEW p \in Pcs PROVE WorkerOk([w[c][x] EXCEPT !.pc = p]) /\ \A r : WorkerOk([w[c][x] EXCEPT !.pc = p, !.rx = r])
  BY DEF WorkerOk, WorkerFields
<1>3. "done" \in Pcs /\ "recv" \in Pcs /\ "wait" \in Pcs /\ "loop" \in Pcs
  BY DEF Pcs
<1> USE <1>3
<1>4. br[c][x].inbound # <<>> => BridgeOk(Took(c, x)) /\ BridgeOk([Took(c, x) EXCEPT !.closed = TRUE])
  BY BridgesOk DEF Took
<1>5. CASE ReadEof(c, x) \/ ReadUnexpected(c, x)
  BY <1>5, BridgesOk, <1>2, WorkerShape DEF ReadEof, ReadUnexpected, Fails, HistInv
<1>6. CASE LoopSend(c, x)
  <2>1. \E n, q, f : Becomes(c, x, [w[c][x] EXCEPT !.tx = n], Wrote([br[c][x] EXCEPT !.outbox = q], f))
    BY <1>6 DEF LoopSend
  <2>2. \E S : hist' = Used(hist, S)
    BY <1>6 DEF LoopSend
  <2>3. HistInv'
    BY <2>2 DEF HistInv, Used
  <2>4. \A q, f : BridgeOk(Wrote([br[c][x] EXCEPT !.outbox = q], f))
    BY BridgesOk
  <2>5. \A n : WorkerOk([w[c][x] EXCEPT !.tx = n])
    BY DEF WorkerOk, WorkerFields
  <2> QED BY <2>1, <2>3, <2>4, <2>5, WorkerShape
<1>7. CASE LoopDrained(c, x) \/ LoopWakes(c, x) \/ LoopBlocks(c, x) \/ LoopCut(c, x)
  <2>1. PICK p \in Pcs : w' = [w EXCEPT ![c][x].pc = p]
    BY <1>7 DEF LoopDrained, LoopWakes, LoopBlocks, LoopCut
  <2>2. UNCHANGED <<br, hist>>
    BY <1>7 DEF LoopDrained, LoopWakes, LoopBlocks, LoopCut
  <2> QED BY <2>1, <2>2, PcShape
<1>8. CASE LoopRecv(c, x)
  BY <1>8, <1>2, <1>4, WorkerShape DEF LoopRecv, HistInv
<1> QED BY <1>5, <1>6, <1>7, <1>8

LEMMA ShuttleShape ==
  ASSUME ShapeInv, NEW c \in Conns, NEW x \in Sides, Outbound(c, x) \/ Inbound(c, x)
  PROVE  ShapeInv'
<1> DEFINE o == Other(x)
           b == br[c][x]
           t == task[c][x]
           nw == w[c][x]
<1>0. o \in Sides /\ WorkerOk(nw) /\ BridgeOk(b) /\ TaskOk(t) /\ Grid(w) /\ Grid(br) /\ Grid(net) /\ Grid(task)
  BY DEF ShapeInv, Records, Grids, Other, Sides
<1> USE <1>0
<1>1. w' = w /\ cut' = cut /\ frozen' = frozen /\ HistInv'
  BY DEF Outbound, Inbound, TaskFrame, ShapeInv, Grids, HistInv
<1> USE <1>1
<1>2. ASSUME NEW y \in Sides PROVE StreamOk(net[c][y]) /\ DOMAIN net[c][y] = StreamFields /\ IsSeq(net[c][y].frames)
  BY DEF ShapeInv, Records, StreamOk
<1> USE <1>2
<1>3. SetAt(w, w', c, x, nw)
  BY GridSame
<1>4. \A s : TaskOk(t \ s)
  BY DEF TaskOk
<1> HIDE DEF o, nw
<1>6. ASSUME NEW nb, BridgeOk(nb), Put(br, br', c, x, nb), NEW y \in Sides, NEW nn, StreamOk(nn), Put(net, net', c, y, nn),
             task' = task \/ \E s : task' = [task EXCEPT ![c][x] = t \ s]
      PROVE  ShapeInv'
  <2> USE <1>6
  <2>1. SetAt(br, br', c, x, nb) /\ SetAt(net, net', c, y, nn)
    BY GridPut
  <2>2. PICK nt : SetAt(task, task', c, x, nt) /\ TaskOk(nt)
    BY <1>4, GridSet, GridSame
  <2> QED BY <1>3, <2>1, <2>2, ShapeAt
<1> USE <1>6
<1>8. CASE Outbound(c, x)
  <2> DEFINE n == net[c][x]
  <2>1. CASE net' = [net EXCEPT ![c][x].fin = TRUE] /\ UNCHANGED br /\ task' = [task EXCEPT ![c][x] = @ \ {"out"}]
    <3> DEFINE k == [n EXCEPT !.fin = TRUE]
    <3>1. Put(net, net', c, x, k) /\ Put(br, br', c, x, b) /\ \E s : task' = [task EXCEPT ![c][x] = t \ s]
      BY <2>1 DEF Put
    <3>2. StreamOk(k)
      BY DEF StreamOk, StreamFields
    <3> HIDE DEF k
    <3> QED BY <3>1, <3>2
  <2>2. CASE net' = [net EXCEPT ![c][x].frames = @ \o b.wire] /\ br' = [br EXCEPT ![c][x].wire = <<>>] /\ UNCHANGED task
    <3> DEFINE k == [n EXCEPT !.frames = @ \o b.wire]
               m == [b EXCEPT !.wire = <<>>]
    <3>1. Put(net, net', c, x, k) /\ Put(br, br', c, x, m) /\ task' = task
      BY <2>2 DEF Put
    <3>2. IsSeq(n.frames \o b.wire)
      BY SeqConcat DEF Joined, BridgeOk
    <3>3. StreamOk(k)
      BY <3>2 DEF StreamOk, StreamFields
    <3>4. BridgeOk(m)
      BY BridgesOk
    <3> HIDE DEF k, m
    <3> QED BY <3>1, <3>3, <3>4
  <2>3. CASE br' = [br EXCEPT ![c][x].wire = <<>>, ![c][x].closed = TRUE] /\ task' = [task EXCEPT ![c][x] = @ \ {"out"}] /\ UNCHANGED net
    <3> USE <2>3
    <3> DEFINE m == [b EXCEPT !.wire = <<>>]
               g == [br EXCEPT ![c][x] = m]
               j == [m EXCEPT !.closed = TRUE]
    <3>1. SetAt(br, g, c, x, m) /\ BridgeOk(m)
      BY GridSet, BridgesOk
    <3> USE <3>1
    <3>2. br' = [g EXCEPT ![c][x].closed = TRUE]
      OBVIOUS
    <3> HIDE DEF g, m
    <3>3. Grid(g) /\ g[c][x] = m
      BY DEF SetAt
    <3>4. br' = [g EXCEPT ![c][x] = j] /\ BridgeOk(j)
      BY <3>2, <3>3, BridgesOk
    <3> HIDE DEF j
    <3>5. SetAt(g, br', c, x, j)
      BY <3>3, <3>4, GridSet
    <3>6. SetAt(br, br', c, x, j) /\ SetAt(net, net', c, x, n)
      BY <3>5, SetTwice, GridSame
    <3>7. PICK nt : SetAt(task, task', c, x, nt) /\ TaskOk(nt)
      BY <1>4, GridSet
    <3> QED BY <1>3, <3>4, <3>6, <3>7, ShapeAt
  <2> QED BY <1>8, <2>1, <2>2, <2>3 DEF Outbound
<1>9. CASE Inbound(c, x)
  <2> DEFINE n == net[c][o]
  <2>1. CASE /\ n.frames # <<>> /\ net' = [net EXCEPT ![c][o].frames = Tail(@)]
             /\ br' = [br EXCEPT ![c][x].inbound = Append(@, Head(n.frames))] /\ UNCHANGED task
    <3> DEFINE k == [n EXCEPT !.frames = Tail(@)]
               m == [b EXCEPT !.inbound = Append(@, Head(n.frames))]
    <3>1. Put(net, net', c, o, k) /\ Put(br, br', c, x, m) /\ task' = task
      BY <2>1 DEF Put
    <3>2. IsSeq(Tail(n.frames))
      BY <2>1, SeqTail DEF Shortened
    <3>3. StreamOk(k)
      BY <3>2 DEF StreamOk, StreamFields
    <3>4. BridgeOk(m)
      BY BridgesOk
    <3> HIDE DEF k, m
    <3> QED BY <3>1, <3>3, <3>4
  <2>2. CASE br' = [br EXCEPT ![c][x].closed = TRUE] /\ task' = [task EXCEPT ![c][x] = @ \ {"in"}] /\ UNCHANGED net
    BY <2>2, BridgesOk DEF Put
  <2> QED BY <1>9, <2>1, <2>2 DEF Inbound, o
<1> QED BY <1>8, <1>9

LEMMA InputShape ==
  ASSUME ShapeInv, Input
  PROVE  ShapeInv'
<1>0. "client" \in Sides /\ "server" \in Sides /\ HistInv
  BY DEF Sides, ShapeInv, Grids
<1> USE <1>0
<1>1. ASSUME NEW c \in Conns, NEW x \in Sides
      PROVE  WorkerOk(w[c][x]) /\ BridgeOk(br[c][x]) /\ StreamOk(net[c][x]) /\ TaskOk(task[c][x])
  BY DEF ShapeInv, Records
<1> USE <1>1
<1>2. ASSUME Tick \/ Rekey \/ (\E c \in Conns : CutOff(c) \/ Freeze(c)) \/ \E seq \in 0 .. MaxSeq : Packet(seq) PROVE ShapeInv'
  <2>1. UNCHANGED <<w, br, net, task>> /\ (UNCHANGED hist \/ \E a : hist' = [hist EXCEPT !.accepted = a])
    BY <1>2 DEF Tick, Rekey, CutOff, Freeze, Packet
  <2>2. cut' \subseteq Conns /\ frozen' \subseteq Conns
    BY <1>2 DEF ShapeInv, Tick, Rekey, CutOff, Freeze, Packet
  <2>3. HistInv'
    BY <2>1 DEF HistInv
  <2>4. Grids' /\ Records'
    BY <2>1, <2>3 DEF ShapeInv, Grids, Grid, Records, WorkerOk, BridgeOk, StreamOk, TaskOk
  <2> QED BY <2>2, <2>4 DEF ShapeInv
<1>3. ASSUME Restart PROVE ShapeInv'
  <2> DEFINE had == {c \in Conns : w[c]["client"].pc # "off"}
  <2>1. /\ br' = br /\ net' = net /\ frozen' = frozen /\ hist' = hist /\ cut' = cut \cup had
        /\ w' = [c \in Conns |-> IF c \in had THEN [w[c] EXCEPT !["server"].pc = "done"] ELSE w[c]]
        /\ task' = [c \in Conns |-> [task[c] EXCEPT !["server"] = {}]]
    BY <1>3 DEF Restart
  <2> USE <2>1
  <2>2. had \subseteq Conns
    OBVIOUS
  <2> HIDE DEF had
  <2>3. Grid(w) /\ Grid(br) /\ Grid(net) /\ Grid(task) /\ cut \subseteq Conns /\ frozen \subseteq Conns
    BY DEF ShapeInv, Grids
  <2> USE <2>3
  <2>4. ASSUME NEW c \in Conns, NEW x \in Sides PROVE DOMAIN task'[c] = Sides /\ TaskOk(task'[c][x])
    BY DEF Grid, TaskOk
  <2>5. ASSUME NEW c \in Conns, NEW x \in Sides PROVE DOMAIN w'[c] = Sides /\ WorkerOk(w'[c][x])
    BY DEF Grid, WorkerOk, WorkerFields, Pcs
  <2>6. DOMAIN w' = Conns /\ DOMAIN task' = Conns
    OBVIOUS
  <2>7. Grids'
    BY <2>4, <2>5, <2>6 DEF Grids, Grid, HistInv
  <2>8. Records'
    BY <2>4, <2>5 DEF Records, WorkerOk, BridgeOk, StreamOk, TaskOk
  <2>9. cut' \subseteq Conns /\ frozen' \subseteq Conns
    BY <2>2
  <2> QED BY <2>7, <2>8, <2>9 DEF ShapeInv
<1>4. ASSUME NEW c \in Conns, Dial(c) PROVE ShapeInv'
  <2> DEFINE nw == [w[c]["client"] EXCEPT !.pc = "start"]
             nt == {"in", "out"}
  <2>1. /\ Put(w, w', c, "client", nw) /\ Put(task, task', c, "client", nt) /\ Put(br, br', c, "client", br[c]["client"])
        /\ Put(net, net', c, "client", net[c]["client"]) /\ cut' = cut /\ frozen' = frozen /\ HistInv'
    BY <1>4 DEF Dial, HistInv, Put
  <2>2. WorkerOk(nw) /\ TaskOk(nt)
    BY DEF WorkerOk, WorkerFields, Pcs, TaskOk
  <2> HIDE DEF nw, nt
  <2> QED BY <2>1, <2>2, PartShape
<1>5. ASSUME NEW c \in Conns, NEW x \in Sides, Send(c, x) PROVE ShapeInv'
  <2>1. PICK q : br' = [br EXCEPT ![c][x].outbox = q]
    BY <1>5 DEF Send
  <2> DEFINE nb == [br[c][x] EXCEPT !.outbox = q]
  <2>2. Put(br, br', c, x, nb) /\ BridgeOk(nb)
    BY <2>1, BridgesOk DEF Put
  <2>3. /\ Put(w, w', c, x, w[c][x]) /\ Put(net, net', c, x, net[c][x]) /\ Put(task, task', c, x, task[c][x])
        /\ cut' = cut /\ frozen' = frozen /\ \E s : hist' = [hist EXCEPT !.sent = s]
    BY <1>5 DEF Send, Put
  <2>4. HistInv'
    BY <2>3 DEF HistInv
  <2> HIDE DEF nb
  <2> QED BY <2>2, <2>3, <2>4, PartShape
<1>6. ASSUME NEW c \in Conns, NEW x \in Sides, DropReceiver(c, x) PROVE ShapeInv'
  <2> DEFINE nw == [w[c][x] EXCEPT !.listens = FALSE]
  <2>1. /\ Put(w, w', c, x, nw) /\ Put(br, br', c, x, br[c][x]) /\ Put(net, net', c, x, net[c][x]) /\ Put(task, task', c, x, task[c][x])
        /\ cut' = cut /\ frozen' = frozen /\ HistInv'
    BY <1>6 DEF DropReceiver, HistInv, Put
  <2>2. WorkerOk(nw)
    BY DEF WorkerOk, WorkerFields
  <2> HIDE DEF nw
  <2> QED BY <2>1, <2>2, PartShape
<1>7. ASSUME NEW c \in Conns, NEW x \in Sides, Damage(c, x) PROVE ShapeInv'
  <2> USE <1>7
  <2>1. PICK f, g : net' = [net EXCEPT ![c][x].frames[1] = f] /\ hist' = [hist EXCEPT !.damaged = TRUE, !.flipped = g]
    BY DEF Damage
  <2> DEFINE q == [net[c][x].frames EXCEPT ![1] = f]
             nn == [net[c][x] EXCEPT !.frames = q]
  <2>2. Put(net, net', c, x, nn)
    BY <2>1 DEF Put
  <2>3. IsSeq(q)
    BY SeqFirst DEF Replaced, StreamOk, Damage
  <2> HIDE DEF q
  <2>4. StreamOk(nn)
    BY <2>3 DEF StreamOk, StreamFields
  <2>5. /\ Put(w, w', c, x, w[c][x]) /\ Put(br, br', c, x, br[c][x]) /\ Put(task, task', c, x, task[c][x])
        /\ cut' = cut /\ frozen' = frozen
    BY DEF Damage, Put
  <2>6. HistInv'
    BY <2>1 DEF HistInv
  <2> HIDE DEF nn
  <2> QED BY <2>2, <2>4, <2>5, <2>6, PartShape
<1> QED BY <1>2, <1>3, <1>4, <1>5, <1>6, <1>7 DEF Input

LEMMA ShapeStep == ShapeInv /\ [Next]_vars => ShapeInv'
<1> SUFFICES ASSUME ShapeInv, [Next]_vars PROVE ShapeInv'
  OBVIOUS
<1>1. CASE UNCHANGED vars
  BY <1>1 DEF vars, ShapeInv, Grids, Grid, HistInv, Records, WorkerOk, BridgeOk, StreamOk, TaskOk
<1>2. ASSUME NEW c \in Conns, NEW x \in Sides, Side(c, x) PROVE ShapeInv'
  BY <1>2, LoopShape, ShuttleShape DEF Side
<1> QED BY <1>1, <1>2, WorkersShape, InputShape DEF Next, Progress

LEMMA ShapeInit == Init => ShapeInv
<1> SUFFICES ASSUME Init PROVE ShapeInv
  OBVIOUS
<1> DEFINE n == [frames |-> <<>>, fin |-> FALSE]
<1>1. /\ br = Both(NewBridge) /\ task = Both({}) /\ net = Both(n) /\ w = Both(NewWorker) /\ cut = {} /\ frozen = {}
  BY DEF Init
<1> USE <1>1
<1>2. HistInv
  BY SMTT(60) DEF Init, HistInv, HistFields
<1>3. ASSUME NEW v PROVE Grid(Both(v)) /\ \A c \in Conns, x \in Sides : Both(v)[c][x] = v
  BY DEF Both, Grid
<1>4. DOMAIN NewBridge = BridgeFields /\ NewBridge.inbound = <<>> /\ NewBridge.wire = <<>> /\ NewBridge.closed = FALSE
  BY SMTT(60) DEF NewBridge, BridgeFields
<1>5. DOMAIN n = StreamFields /\ n.frames = <<>> /\ n.fin = FALSE
  BY SMTT(60) DEF StreamFields
<1>6. NewWorker.pc = "off"
  BY SMTT(60) DEF NewWorker
<1> HIDE DEF n
<1>7. BridgeOk(NewBridge) /\ StreamOk(n) /\ WorkerOk(NewWorker) /\ TaskOk({})
  BY <1>4, <1>5, <1>6, NewFields, SeqEmpty DEF BridgeOk, StreamOk, WorkerOk, TaskOk, Pcs
<1>8. Grids
  BY <1>2, <1>3 DEF Grids
<1>9. Records
  BY <1>3, <1>7 DEF Records
<1> QED BY <1>8, <1>9 DEF ShapeInv

(* The bits of the window are offsets from its highest number. *)
BitsInv == win.highest \in Nat /\ win.init \in BOOLEAN /\ DOMAIN win = {"init", "highest", "bits"} /\ win.bits \subseteq 0 .. WindowSize - 1
LEMMA BitsStep == BitsInv /\ [Next]_vars => BitsInv'
<1> SUFFICES ASSUME BitsInv, [Next]_vars PROVE BitsInv'
  OBVIOUS
<1>1. win' = win \/ \E seq \in 0 .. MaxSeq : Packet(seq)
  <2>1. CASE Progress
    <3>1. ASSUME NEW c \in Conns, Client(c) \/ Relay(c) PROVE win' = win
      BY <3>1 DEF Client, Relay, ClientFull, ClientResume, ClientCookie, ClientRejected, ClientMsg2, ClientTicket,
           Accept, LockCache,
                  ServerMsg1, ServerRetry, ServerPsk, ServerMsg3, Frame0
    <3>2. ASSUME NEW c \in Conns, NEW x \in Sides, Side(c, x) PROVE win' = win
      BY <3>2 DEF Side, ReadEof, ReadUnexpected, LoopSend, LoopDrained, LoopWakes, LoopRecv, LoopBlocks, LoopCut, Outbound, Inbound,
           TaskFrame, Frame0
    <3> QED BY <2>1, <3>1, <3>2 DEF Progress
  <2>2. CASE Input
    BY <2>2 DEF Input, Tick, Restart, Rekey, Dial, CutOff, Freeze, Send, DropReceiver, Damage
  <2> QED BY <2>1, <2>2 DEF Next, vars
<1>2. CASE win' = win
  BY <1>2 DEF BitsInv
<1>3. ASSUME NEW seq \in 0 .. MaxSeq, Packet(seq) PROVE BitsInv'
  <2>1. seq \in Nat /\ WindowSize \in Nat \ {0}
    BY SMTT(60), LinkConstants, GmPqConstants
  <2> USE <2>1
  <2>2. win' = CheckAndMark(win, seq)
    BY <1>3 DEF Packet
  <2> USE <2>2
  <2>3. CASE ~Accepts(win, seq)
    BY <2>3 DEF CheckAndMark, BitsInv
  <2>4. CASE Accepts(win, seq) /\ ~win.init
    <3>1. win' = [init |-> TRUE, highest |-> seq, bits |-> {0}]
      BY <2>4 DEF CheckAndMark
    <3> QED BY SMTT(60), <3>1 DEF BitsInv
  <2>5. CASE Accepts(win, seq) /\ win.init /\ seq > win.highest
    <3> DEFINE s == Shifted(win.bits, seq - win.highest)
    <3>1. win' = [win EXCEPT !.highest = seq, !.bits = s]
      BY <2>5 DEF CheckAndMark
    <3>2. s \subseteq 0 .. WindowSize - 1
      BY SMTT(60), <2>5 DEF BitsInv, Shifted
    <3> HIDE DEF s
    <3> QED BY <3>1, <3>2 DEF BitsInv
  <2>6. CASE Accepts(win, seq) /\ win.init /\ ~(seq > win.highest)
    <3> DEFINE s == win.bits \cup {win.highest - seq}
    <3>1. win' = [win EXCEPT !.bits = s]
      BY <2>6 DEF CheckAndMark
    <3>2. s \subseteq 0 .. WindowSize - 1
      BY SMTT(60), <2>6 DEF BitsInv, Accepts
    <3> HIDE DEF s
    <3> QED BY <3>1, <3>2 DEF BitsInv
  <2> QED BY <2>3, <2>4, <2>5, <2>6
<1> QED BY <1>1, <1>2, <1>3

-----------------------------------------------------------------------------
(* The frames under way from side x of connection c. *)
Underway(c, x) == Range(br[c][x].wire) \cup Range(net[c][x].frames) \cup Range(br[c][Other(x)].inbound)
Flow(c, x, N) == \A d \in Conns, y \in Sides : \A f \in Underway(d, y)' : f \in Underway(d, y) \/ (d = c /\ y = x /\ f \in N)

LEMMA OtherSide ==
  ASSUME NEW x \in Sides
  PROVE  Other(x) \in Sides /\ Other(Other(x)) = x /\ Other(x) # x
BY DEF Sides, Other

(* A worker takes a frame or not, and writes one or not. *)
LEMMA WorkerFlow ==
  ASSUME ShapeInv, NEW c \in Conns, NEW x \in Sides, NEW nb, SetAt(br, br', c, x, nb), net' = net,
         nb.inbound = br[c][x].inbound \/ (br[c][x].inbound # <<>> /\ nb.inbound = Tail(br[c][x].inbound)),
         NEW N, nb.wire = br[c][x].wire \/ \E f \in N : nb.wire = Append(br[c][x].wire, f)
  PROVE  Flow(c, x, N)
<1> SUFFICES ASSUME NEW d \in Conns, NEW y \in Sides, NEW f \in Underway(d, y)'
             PROVE  f \in Underway(d, y) \/ (d = c /\ y = x /\ f \in N)
  BY DEF Flow
<1>0. Other(y) \in Sides /\ IsSeq(br[c][x].inbound) /\ IsSeq(br[c][x].wire)
  BY OtherSide, BridgeOf
<1> USE <1>0
<1>1. f \in Range(br'[d][y].wire) \/ f \in Range(net[d][y].frames) \/ f \in Range(br'[d][Other(y)].inbound)
  BY DEF Underway
<1>2. CASE f \in Range(net[d][y].frames)
  BY <1>2 DEF Underway
<1>3. CASE f \in Range(br'[d][y].wire)
  <2>1. CASE d = c /\ y = x
    <3>1. f \in Range(nb.wire)
      BY <1>3, <2>1 DEF SetAt
    <3>2. f \in Range(br[c][x].wire) \/ f \in N
      <4>1. ASSUME NEW g \in N, nb.wire = Append(br[c][x].wire, g) PROVE f \in Range(br[c][x].wire) \/ f \in N
        <5>1. Range(Append(br[c][x].wire, g)) = Range(br[c][x].wire) \cup {g}
          BY RangeAppend
        <5> QED BY <3>1, <4>1, <5>1
      <4> QED BY <3>1, <4>1
    <3> QED BY <2>1, <3>2 DEF Underway
  <2>2. CASE ~(d = c /\ y = x)
    BY <1>3, <2>2 DEF SetAt, Underway
  <2> QED BY <2>1, <2>2
<1>4. CASE f \in Range(br'[d][Other(y)].inbound)
  <2> DEFINE z == Other(y)
  <2>1. f \in Range(br[d][z].inbound)
    <3>1. CASE d = c /\ z = x
      BY <1>4, <3>1, RangeTail DEF SetAt
    <3>2. CASE ~(d = c /\ z = x)
      BY <1>4, <3>2 DEF SetAt
    <3> QED BY <3>1, <3>2
  <2> QED BY <2>1 DEF Underway
<1> QED BY <1>1, <1>2, <1>3, <1>4

(* The shuttle tasks move frames. *)
LEMMA OutboundFlow ==
  ASSUME ShapeInv, NEW c \in Conns, NEW x \in Sides, Outbound(c, x), NEW N
  PROVE  Flow(c, x, N)
<1>0. IsSeq(br[c][x].wire) /\ IsSeq(net[c][x].frames) /\ DOMAIN br[c][x] = BridgeFields /\ DOMAIN net[c][x] = StreamFields
      /\ Grid(br) /\ Grid(net)
  BY BridgeOf DEF ShapeInv, Grids
<1> USE <1>0
<1>1. PICK nb, nn : /\ SetAt(br, br', c, x, nb) /\ SetAt(net, net', c, x, nn) /\ nb.inbound = br[c][x].inbound
                    /\ \/ nb.wire = br[c][x].wire /\ nn.frames = net[c][x].frames
                       \/ nb.wire = <<>> /\ (nn.frames = net[c][x].frames \/ nn.frames = net[c][x].frames \o br[c][x].wire)
  <2> DEFINE b == br[c][x]
             n == net[c][x]
  <2>1. CASE net' = [net EXCEPT ![c][x].fin = TRUE] /\ UNCHANGED br
    <3> DEFINE k == [n EXCEPT !.fin = TRUE]
    <3>1. net' = [net EXCEPT ![c][x] = k]
      BY <2>1
    <3>2. k.frames = n.frames
      BY DEF StreamFields
    <3> HIDE DEF k
    <3>3. SetAt(net, net', c, x, k) /\ SetAt(br, br', c, x, b)
      BY <2>1, <3>1, GridSet, GridSame
    <3> QED BY <3>2, <3>3
  <2>2. CASE net' = [net EXCEPT ![c][x].frames = @ \o b.wire] /\ br' = [br EXCEPT ![c][x].wire = <<>>]
    <3> DEFINE k == [n EXCEPT !.frames = @ \o b.wire]
               m == [b EXCEPT !.wire = <<>>]
    <3>1. net' = [net EXCEPT ![c][x] = k] /\ br' = [br EXCEPT ![c][x] = m]
      BY <2>2
    <3>2. k.frames = n.frames \o b.wire /\ m.wire = <<>> /\ m.inbound = b.inbound
      BY DEF StreamFields, BridgeFields
    <3> HIDE DEF k, m
    <3>3. SetAt(net, net', c, x, k) /\ SetAt(br, br', c, x, m)
      BY <3>1, GridSet
    <3> QED BY <3>2, <3>3
  <2>3. CASE br' = [br EXCEPT ![c][x].wire = <<>>, ![c][x].closed = TRUE] /\ UNCHANGED net
    <3> DEFINE m == [b EXCEPT !.wire = <<>>]
               g == [br EXCEPT ![c][x] = m]
               j == [m EXCEPT !.closed = TRUE]
    <3>1. SetAt(br, g, c, x, m)
      BY GridSet
    <3>2. br' = [g EXCEPT ![c][x].closed = TRUE]
      BY <2>3
    <3>3. DOMAIN m = BridgeFields /\ m.wire = <<>> /\ m.inbound = b.inbound
      BY DEF BridgeFields
    <3> HIDE DEF g, m
    <3>4. Grid(g) /\ g[c][x] = m
      BY <3>1 DEF SetAt
    <3>5. br' = [g EXCEPT ![c][x] = j]
      BY <3>2, <3>4
    <3>6. j.wire = <<>> /\ j.inbound = b.inbound
      BY <3>3 DEF BridgeFields
    <3> HIDE DEF j
    <3>7. SetAt(g, br', c, x, j)
      BY <3>4, <3>5, GridSet
    <3>8. SetAt(br, br', c, x, j) /\ SetAt(net, net', c, x, n)
      BY <2>3, <3>1, <3>7, SetTwice, GridSame
    <3> QED BY <3>6, <3>8
  <2> QED BY <2>1, <2>2, <2>3 DEF Outbound
<1> USE <1>1
<1> SUFFICES ASSUME NEW d \in Conns, NEW y \in Sides, NEW f \in Underway(d, y)'
             PROVE  f \in Underway(d, y)
  BY DEF Flow
<1>3. f \in Range(br'[d][y].wire) \/ f \in Range(net'[d][y].frames) \/ f \in Range(br'[d][Other(y)].inbound)
  BY DEF Underway
<1>4. br'[d][Other(y)].inbound = br[d][Other(y)].inbound
  BY OtherSide DEF SetAt
<1>5. CASE d = c /\ y = x
  <2>1. f \in Range(nb.wire) => f \in Range(br[c][x].wire)
    BY RangeNone
  <2>2. f \in Range(nn.frames) => f \in Range(br[c][x].wire) \/ f \in Range(net[c][x].frames)
    BY RangeJoined
  <2>3. br'[c][x] = nb /\ net'[c][x] = nn
    BY DEF SetAt
  <2> QED BY <1>3, <1>4, <1>5, <2>1, <2>2, <2>3 DEF Underway
<1>6. CASE ~(d = c /\ y = x)
  BY <1>6, <1>3, <1>4 DEF SetAt, Underway
<1> QED BY <1>5, <1>6

LEMMA InboundFlow ==
  ASSUME ShapeInv, NEW c \in Conns, NEW x \in Sides, Inbound(c, x), NEW N
  PROVE  Flow(c, x, N)
<1> DEFINE o == Other(x)
           b == br[c][x]
           n == net[c][o]
<1>0. /\ o \in Sides /\ Other(o) = x /\ Grid(br) /\ Grid(net) /\ DOMAIN b = BridgeFields /\ DOMAIN n = StreamFields
      /\ IsSeq(b.inbound) /\ IsSeq(n.frames)
  BY BridgeOf, OtherSide DEF ShapeInv, Grids
<1> USE <1>0
<1> HIDE DEF o
<1>1. PICK nb, nn : /\ SetAt(br, br', c, x, nb) /\ SetAt(net, net', c, o, nn) /\ nb.wire = b.wire
                    /\ \/ nb.inbound = b.inbound /\ nn.frames = n.frames
                       \/ n.frames # <<>> /\ nb.inbound = Append(b.inbound, Head(n.frames)) /\ nn.frames = Tail(n.frames)
  <2>1. CASE /\ n.frames # <<>> /\ net' = [net EXCEPT ![c][o].frames = Tail(@)]
             /\ br' = [br EXCEPT ![c][x].inbound = Append(@, Head(n.frames))]
    <3> DEFINE k == [n EXCEPT !.frames = Tail(@)]
               m == [b EXCEPT !.inbound = Append(@, Head(n.frames))]
    <3>1. net' = [net EXCEPT ![c][o] = k] /\ br' = [br EXCEPT ![c][x] = m]
      BY <2>1
    <3>2. k.frames = Tail(n.frames) /\ m.wire = b.wire /\ m.inbound = Append(b.inbound, Head(n.frames))
      BY DEF StreamFields, BridgeFields
    <3> HIDE DEF k, m
    <3>3. SetAt(net, net', c, o, k) /\ SetAt(br, br', c, x, m)
      BY <3>1, GridSet
    <3> QED BY <2>1, <3>2, <3>3
  <2>2. CASE br' = [br EXCEPT ![c][x].closed = TRUE] /\ UNCHANGED net
    <3> DEFINE m == [b EXCEPT !.closed = TRUE]
    <3>1. br' = [br EXCEPT ![c][x] = m]
      BY <2>2
    <3>2. m.wire = b.wire /\ m.inbound = b.inbound
      BY DEF BridgeFields
    <3> HIDE DEF m
    <3>3. SetAt(br, br', c, x, m) /\ SetAt(net, net', c, o, n)
      BY <2>2, <3>1, GridSet, GridSame
    <3> QED BY <3>2, <3>3
  <2> QED BY <2>1, <2>2 DEF Inbound, o
<1> USE <1>1
<1> SUFFICES ASSUME NEW d \in Conns, NEW y \in Sides, NEW f \in Underway(d, y)'
             PROVE  f \in Underway(d, y)
  BY DEF Flow
<1>2. f \in Range(br'[d][y].wire) \/ f \in Range(net'[d][y].frames) \/ f \in Range(br'[d][Other(y)].inbound)
  BY DEF Underway
<1>3. br'[d][y].wire = br[d][y].wire
  BY DEF SetAt
<1>4. CASE d = c /\ y = o
  <2>1. br'[c][x] = nb /\ net'[c][o] = nn
    BY DEF SetAt
  <2>2. f \in Range(nb.inbound) => f \in Range(b.inbound) \/ f \in Range(n.frames)
    <3>1. Range(Append(b.inbound, Head(n.frames))) = Range(b.inbound) \cup {Head(n.frames)}
      BY RangeAppend
    <3>2. n.frames # <<>> => Head(n.frames) \in Range(n.frames)
      BY RangeTail
    <3> QED BY <3>1, <3>2
  <2>3. f \in Range(nn.frames) => f \in Range(n.frames)
    BY RangeTail
  <2> QED BY <1>2, <1>3, <1>4, <2>1, <2>2, <2>3 DEF Underway
<1>5. CASE ~(d = c /\ y = o)
  BY OtherSide, <1>5, <1>2, <1>3 DEF o, SetAt, Underway
<1> QED BY <1>4, <1>5

-----------------------------------------------------------------------------
(* What the two ends of each connection know of each other, the nonces used and the
   tickets held. *)
HandInv ==
  \A c \in Conns :
    ViewOk(c, w[c]["client"], w[c]["server"], Underway(c, "client"), Underway(c, "server"), hist.flipped)
NoncesOk(ns) == \A n \in ns : n[2] \in Nat /\ (n[1][1] = "early" \/ \A c \in Conns : NonceOk(c, w[c]["client"], w[c]["server"], n))
NonceInv == NoncesOk(hist.nonces) /\ NonceOnce

Holds(t) == t \in Range(slot) \/ \E c \in Conns, x \in Sides : \E f \in Underway(c, x) : Carries(f, t)
Named(f) == IF f.t = "MSG1_PSK" THEN {f.ticket} ELSE IF f.t = "DATA" THEN Range(f.box.text.ticket) ELSE {}
Held == Range(slot) \cup UNION {UNION {Named(f) : f \in Underway(cx[1], cx[2])} : cx \in Conns \X Sides}
LEMMA HeldIs == \A t : t \in Held <=> Holds(t)
<1> SUFFICES ASSUME NEW t PROVE t \in Held <=> Holds(t)
  OBVIOUS
<1>1. \A f : t \in Named(f) <=> Carries(f, t)
  BY SMTT(60) DEF Named, Carries
<1>2. ASSUME NEW c \in Conns, NEW x \in Sides, NEW f \in Underway(c, x), Carries(f, t) PROVE t \in Held
  <2>1. <<c, x>> \in Conns \X Sides /\ <<c, x>>[1] = c /\ <<c, x>>[2] = x
    BY SMTT(60)
  <2>2. t \in UNION {Named(g) : g \in Underway(<<c, x>>[1], <<c, x>>[2])}
    BY <1>1, <1>2, <2>1
  <2> QED BY <2>1, <2>2 DEF Held
<1>3. ASSUME t \in Held, t \notin Range(slot) PROVE Holds(t)
  <2>1. PICK cx \in Conns \X Sides : t \in UNION {Named(f) : f \in Underway(cx[1], cx[2])}
    BY <1>3 DEF Held
  <2>2. cx[1] \in Conns /\ cx[2] \in Sides
    BY SMTT(60)
  <2>3. PICK f \in Underway(cx[1], cx[2]) : t \in Named(f)
    BY <2>1
  <2> QED BY <1>1, <2>2, <2>3 DEF Holds
<1>4. t \in Range(slot) => t \in Held /\ Holds(t)
  BY DEF Held, Holds
<1> QED BY <1>2, <1>3, <1>4 DEF Holds

TicketInv == TicketsOk(Held, hist.uses, srv.issued, srv.epoch, now, srv.cache)
SrvFields == {"epoch", "cache", "lock", "issued"}
LightInv ==
  /\ \A c \in Conns, x \in Sides : w[c][x].tx \in Nat /\ \A f \in Underway(c, x) : Light(f)
  /\ AtMostOne(slot)
  /\ DOMAIN srv = SrvFields /\ srv.lock \in Conns \cup {0}
Good == HandInv /\ NonceInv /\ TicketInv /\ LightInv

-----------------------------------------------------------------------------
(* What a step does to them. *)
LEMMA Ends ==
  ASSUME NEW x \in Sides
  PROVE  (x = "client" \/ x = "server") /\ "client" \in Sides /\ "server" \in Sides
BY DEF Sides

LEMMA CalmSelf ==
  ASSUME NEW v
  PROVE  Same(v, v) /\ ClientCalm(v.pc, v.pc) /\ ServerCalm(v.pc, v.pc)
BY DEF Same, ClientCalm, ServerCalm

LEMMA HandOne ==
  ASSUME HandInv, NEW c \in Conns, NEW x \in Sides, NEW nw, SetAt(w, w', c, x, nw), NEW N, Flow(c, x, N),
         hist'.flipped = hist.flipped,
         ViewOk(c, w'[c]["client"], w'[c]["server"], Underway(c, "client")', Underway(c, "server")', hist.flipped)
  PROVE  HandInv'
<1> SUFFICES ASSUME NEW d \in Conns
             PROVE  ViewOk(d, w'[d]["client"], w'[d]["server"], Underway(d, "client")', Underway(d, "server")', hist'.flipped)
  BY DEF HandInv
<1> DEFINE cl == w[d]["client"]
           sv == w[d]["server"]
           FC == Underway(d, "client")
           FS == Underway(d, "server")
           GC == Underway(d, "client")'
           GS == Underway(d, "server")'
           fl == hist.flipped
<1>1. CASE d = c
  BY <1>1
<1>2. CASE d # c
  <2> DEFINE kl == w'[d]["client"]
             kv == w'[d]["server"]
  <2>1. kl = cl /\ kv = sv
    BY <1>2, Ends DEF SetAt
  <2>2. (\A f \in GC : f \in FC) /\ (\A f \in GS : f \in FS)
    BY <1>2, Ends DEF Flow
  <2>3. ViewOk(d, cl, sv, FC, FS, fl)
    BY DEF HandInv
  <2>4. Same(cl, kl) /\ Same(sv, kv) /\ ClientCalm(cl.pc, kl.pc) /\ ServerCalm(sv.pc, kv.pc)
    BY <2>1, CalmSelf
  <2>7. hist'.flipped = fl
    OBVIOUS
  <2> HIDE DEF cl, sv, kl, kv, FC, FS, GC, GS, fl
  <2>5. (\A f \in GC : f \in FC \/ FromClient(d, kl, f)) /\ (\A f \in GS : f \in FS \/ FromServer(d, kl, kv, fl, f)) /\ (fl => fl)
    BY <2>2
  <2>a. StaysCalm(cl, sv, kl, kv) /\ Arrives(d, kl, kv, fl, fl, FC, FS, GC, GS)
    BY <2>4, <2>5 DEF StaysCalm, Arrives
  <2>6. ViewOk(d, kl, kv, GC, GS, fl)
    BY ONLY ZenonT(60), <2>3, <2>a, ViewCalm
  <2> QED BY <2>6, <2>7 DEF kl, kv, GC, GS
<1> QED BY <1>1, <1>2

(* A worker goes on without a change of what it knows. *)
Honest(c, x, nw, f) ==
  IF x = "client" THEN FromClient(c, nw, f) ELSE FromServer(c, w[c]["client"], nw, hist.flipped, f)
Calm(x, v, z) == Same(v, z) /\ IF x = "client" THEN ClientCalm(v.pc, z.pc) ELSE ServerCalm(v.pc, z.pc)
LEMMA HandCalm ==
  ASSUME HandInv, NEW c \in Conns, NEW x \in Sides, NEW nw, SetAt(w, w', c, x, nw), NEW N, Flow(c, x, N),
         hist'.flipped = hist.flipped, Calm(x, w[c][x], nw), \A f \in N : Honest(c, x, nw, f)
  PROVE  HandInv'
<1> DEFINE cl == w[c]["client"]
           sv == w[c]["server"]
           kl == w'[c]["client"]
           kv == w'[c]["server"]
           FC == Underway(c, "client")
           FS == Underway(c, "server")
           GC == Underway(c, "client")'
           GS == Underway(c, "server")'
           fl == hist.flipped
<1>1. ViewOk(c, cl, sv, FC, FS, fl)
  BY DEF HandInv
<1>4. ViewOk(c, kl, kv, GC, GS, fl)
  <2>2. CASE x = "client"
    <3> USE <2>2
    <3>1. kl = nw /\ kv = sv
      BY Ends DEF SetAt
    <3>2. Same(cl, kl) /\ ClientCalm(cl.pc, kl.pc) /\ Same(sv, kv) /\ ServerCalm(sv.pc, kv.pc)
      BY <3>1, CalmSelf DEF Calm
    <3>3. \A f \in GC : f \in FC \/ FromClient(c, kl, f)
      BY <3>1, Ends DEF Flow, Honest
    <3>4. (\A f \in GS : f \in FS \/ FromServer(c, kl, kv, fl, f)) /\ (fl => fl)
      BY Ends DEF Flow
    <3> HIDE DEF cl, sv, kl, kv, FC, FS, GC, GS, fl
    <3>5. StaysCalm(cl, sv, kl, kv) /\ Arrives(c, kl, kv, fl, fl, FC, FS, GC, GS)
      BY <3>2, <3>3, <3>4 DEF StaysCalm, Arrives
    <3> QED BY ONLY ZenonT(60), <1>1, <3>5, ViewCalm
  <2>3. CASE x = "server"
    <3> USE <2>3
    <3>1. kv = nw /\ kl = cl
      BY Ends DEF SetAt
    <3>2. Same(cl, kl) /\ ClientCalm(cl.pc, kl.pc) /\ Same(sv, kv) /\ ServerCalm(sv.pc, kv.pc)
      BY <3>1, CalmSelf DEF Calm
    <3>3. (\A f \in GC : f \in FC \/ FromClient(c, kl, f)) /\ (fl => fl)
      BY Ends DEF Flow
    <3>4. \A f \in GS : f \in FS \/ FromServer(c, kl, kv, fl, f)
      BY <3>1, Ends DEF Flow, Honest
    <3> HIDE DEF cl, sv, kl, kv, FC, FS, GC, GS, fl
    <3>5. StaysCalm(cl, sv, kl, kv) /\ Arrives(c, kl, kv, fl, fl, FC, FS, GC, GS)
      BY <3>2, <3>3, <3>4 DEF StaysCalm, Arrives
    <3> QED BY ONLY ZenonT(60), <1>1, <3>5, ViewCalm
  <2> QED BY <2>2, <2>3, Ends
<1> QED BY <1>4, HandOne

(* Nonces.  S is the set of those a step uses. *)
Sealed(S) == hist'.nonces = hist.nonces \cup S /\ hist'.reused = hist.reused \cup (S \cap hist.nonces)
Going(x, v, z) ==
  IF x = "client" THEN Ahead(v, z, ClientPast) ELSE Ahead(v, z, ServerPast) /\ (v.pc \in Answered => z.pc \in Answered)
Forward ==
  \A d \in Conns :
    /\ Ahead(w[d]["client"], w'[d]["client"], ClientPast) /\ Ahead(w[d]["server"], w'[d]["server"], ServerPast)
    /\ w[d]["server"].pc \in Answered => w'[d]["server"].pc \in Answered
LEMMA ForwardAt ==
  ASSUME LightInv, NEW c \in Conns, NEW x \in Sides, NEW nw, SetAt(w, w', c, x, nw), Going(x, w[c][x], nw)
  PROVE  Forward
<1> SUFFICES ASSUME NEW d \in Conns
             PROVE  /\ Ahead(w[d]["client"], w'[d]["client"], ClientPast) /\ Ahead(w[d]["server"], w'[d]["server"], ServerPast)
                    /\ w[d]["server"].pc \in Answered => w'[d]["server"].pc \in Answered
  BY DEF Forward
<1>1. \A y \in Sides : d # c \/ y # x => w'[d][y] = w[d][y] /\ w[d][y].tx \in Nat
  BY DEF SetAt, LightInv
<1>2. w'[c][x] = nw /\ "client" \in Sides /\ "server" \in Sides /\ (x = "client" \/ x = "server")
  BY Ends DEF SetAt
<1>3. \A v, p : v.tx \in Nat => Ahead(v, v, p)
  BY DEF Ahead
<1>4. Ahead(w[d]["client"], w'[d]["client"], ClientPast)
  BY <1>1, <1>2, <1>3 DEF Going
<1>5. Ahead(w[d]["server"], w'[d]["server"], ServerPast) /\ (w[d]["server"].pc \in Answered => w'[d]["server"].pc \in Answered)
  BY <1>1, <1>2, <1>3 DEF Going
<1> QED BY <1>4, <1>5

LEMMA NonceStep ==
  ASSUME NonceInv, Forward, NEW S, Sealed(S),
         \A n \in S : n[2] \in Nat /\ (\/ n[1][1] = "early"
                                       \/ n \notin hist.nonces /\ \A d \in Conns : NonceOk(d, w'[d]["client"], w'[d]["server"], n))
  PROVE  NonceInv'
<1>1. ASSUME NEW n \in hist.nonces
      PROVE  n[2] \in Nat /\ (n[1][1] = "early" \/ \A d \in Conns : NonceOk(d, w'[d]["client"], w'[d]["server"], n))
  <2>1. n[2] \in Nat /\ (n[1][1] = "early" \/ \A d \in Conns : NonceOk(d, w[d]["client"], w[d]["server"], n))
    BY DEF NonceInv, NoncesOk
  <2>2. ASSUME NEW d \in Conns, NonceOk(d, w[d]["client"], w[d]["server"], n)
        PROVE  NonceOk(d, w'[d]["client"], w'[d]["server"], n)
    <3> DEFINE cl == w[d]["client"]
               sv == w[d]["server"]
               kl == w'[d]["client"]
               kv == w'[d]["server"]
    <3>1. Ahead(cl, kl, ClientPast) /\ Ahead(sv, kv, ServerPast) /\ (sv.pc \in Answered => kv.pc \in Answered)
      BY DEF Forward
    <3>2. NonceOk(d, cl, sv, n)
      BY <2>2
    <3> HIDE DEF cl, sv, kl, kv
    <3>3. NonceOk(d, kl, kv, n)
      BY ONLY ZenonT(60), <2>1, <3>1, <3>2, NonceAhead
    <3> QED BY <3>3 DEF kl, kv
  <2> QED BY <2>1, <2>2
<1>2. NoncesOk(hist.nonces)'
  BY <1>1 DEF NoncesOk, Sealed
<1>3. \A n \in hist'.reused : n[1][1] = "early"
  BY DEF Sealed, NonceInv, NonceOnce
<1> QED BY <1>2, <1>3 DEF NonceInv, NonceOnce

(* A worker uses its next nonce. *)
Takes(c, tag, ck, seq) ==
  \/ tag = "static" /\ Owned(c, "ee", ck) /\ w[c]["server"].pc \notin Answered /\ w'[c]["server"].pc \in Answered
  \/ tag = "static" /\ Owned(c, "se", ck) /\ w[c]["client"].pc \notin ClientPast /\ w'[c]["client"].pc \in ClientPast
  \/ tag = "i2r" /\ Owned(c, "se", ck) /\ seq = w[c]["client"].tx
     /\ w'[c]["client"].pc \in ClientPast /\ seq < w'[c]["client"].tx
  \/ tag = "r2i" /\ Owned(c, "se", ck) /\ (seq = w[c]["server"].tx \/ w[c]["server"].pc \notin ServerPast)
     /\ w'[c]["server"].pc \in ServerPast /\ seq < w'[c]["server"].tx
LEMMA NonceTaken ==
  ASSUME NonceInv, Forward, NEW c \in Conns, NEW n, NEW tag, NEW ck, NEW seq \in Nat, NonceIs(n, tag, ck, seq),
         Takes(c, tag, ck, seq), Sealed({n})
  PROVE  NonceInv'
<1>1. n[1][1] = tag /\ n[2] = seq /\ tag # "early"
  BY NonceFields DEF Takes
<1>2. n \notin hist.nonces
  <2> SUFFICES ASSUME n \in hist.nonces PROVE FALSE
    OBVIOUS
  <2> DEFINE cl == w[c]["client"]
             sv == w[c]["server"]
  <2>1. NonceOk(c, cl, sv, n)
    BY <1>1 DEF NonceInv, NoncesOk
  <2>2. \/ tag = "static" /\ Owned(c, "ee", ck) /\ sv.pc \notin Answered
        \/ tag = "static" /\ Owned(c, "se", ck) /\ cl.pc \notin ClientPast
        \/ tag = "i2r" /\ Owned(c, "se", ck) /\ seq = cl.tx
        \/ tag = "r2i" /\ Owned(c, "se", ck) /\ (seq = sv.tx \/ sv.pc \notin ServerPast)
    BY DEF Takes
  <2> HIDE DEF cl, sv
  <2> QED BY ONLY ZenonT(60), seq \in Nat, NonceIs(n, tag, ck, seq), <2>1, <2>2, NonceNew
<1>3. ASSUME NEW d \in Conns PROVE NonceOk(d, w'[d]["client"], w'[d]["server"], n)
  <2> DEFINE kl == w'[d]["client"]
             kv == w'[d]["server"]
  <2>1. \/ tag = "static" /\ Owned(c, "ee", ck) /\ (d = c => kv.pc \in Answered)
        \/ tag = "static" /\ Owned(c, "se", ck) /\ (d = c => kl.pc \in ClientPast)
        \/ tag = "i2r" /\ Owned(c, "se", ck) /\ (d = c => kl.pc \in ClientPast /\ seq < kl.tx)
        \/ tag = "r2i" /\ Owned(c, "se", ck) /\ (d = c => kv.pc \in ServerPast /\ seq < kv.tx)
    BY DEF Takes
  <2> HIDE DEF kl, kv
  <2>2. NonceOk(d, kl, kv, n)
    BY ONLY ZenonT(60), NonceIs(n, tag, ck, seq), <2>1, NonceNoted
  <2> QED BY <2>2 DEF kl, kv
<1>4. \A m \in {n} : m[2] \in Nat /\ (\/ m[1][1] = "early"
                                      \/ m \notin hist.nonces /\ \A d \in Conns : NonceOk(d, w'[d]["client"], w'[d]["server"], m))
  BY <1>1, <1>2, <1>3
<1> QED BY <1>4, NonceStep

(* Tickets, and the frames that carry them. *)
LEMMA HeldNext == (\A t : t \in Held <=> Holds(t))'
BY HeldIs, PTL
LEMMA HeldFlow ==
  ASSUME NEW c, NEW x, NEW N, Flow(c, x, N), slot' = slot
  PROVE  \A t \in Held' : t \in Held \/ \E f \in N : Carries(f, t)
<1> SUFFICES ASSUME NEW t, Holds(t)' PROVE Holds(t) \/ \E f \in N : Carries(f, t)
  BY HeldIs, HeldNext
<1>1. t \in Range(slot) \/ \E d \in Conns, y \in Sides : \E f \in Underway(d, y)' : Carries(f, t)
  BY DEF Holds, Carries
<1> QED BY <1>1 DEF Flow, Holds

SrvKept ==
  /\ DOMAIN srv' = SrvFields /\ srv'.lock \in Conns \cup {0}
  /\ srv'.issued = srv.issued /\ srv'.epoch = srv.epoch /\ srv'.cache = srv.cache
LEMMA TicketFlow ==
  ASSUME TicketInv, Noise \notin Nat, \A t \in Held' : t \in Held \/ \E u \in Held : Copies(t, u),
         hist'.uses = hist.uses, SrvKept, now' = now
  PROVE  TicketInv'
<1> DEFINE T == Held
           U == Held'
           us == hist.uses
           is == srv.issued
           ep == srv.epoch
           nw == now
           ca == srv.cache
<1>1. TicketsOk(T, us, is, ep, nw, ca)
  BY DEF TicketInv
<1>2. \A d \in U : d \in T \/ \E t \in T : Copies(d, t)
  OBVIOUS
<1> HIDE DEF T, U, us, is, ep, nw, ca
<1>3. TicketsOk(U, us, is, ep, nw, ca)
  BY ONLY ZenonT(60), Noise \notin Nat, <1>1, <1>2, TicketsKept
<1> QED BY <1>3 DEF TicketInv, U, us, is, ep, nw, ca, SrvKept

LEMMA LightFlow ==
  ASSUME LightInv, NEW c \in Conns, NEW x \in Sides, NEW nw, SetAt(w, w', c, x, nw), nw.tx \in Nat, NEW N, Flow(c, x, N),
         \A f \in N : Light(f), AtMostOne(slot'), DOMAIN srv' = SrvFields, srv'.lock \in Conns \cup {0}
  PROVE  LightInv'
<1>1. ASSUME NEW d \in Conns, NEW y \in Sides PROVE w'[d][y].tx \in Nat /\ \A f \in Underway(d, y)' : Light(f)
  BY DEF SetAt, LightInv, Flow
<1>2. AtMostOne(slot)'
  BY DEF AtMostOne
<1> QED BY <1>1, <1>2 DEF LightInv

(* A step that neither moves the handshake on nor seals anything. *)
Plain(f) == "t" \in DOMAIN f /\ f.t \notin {"MSG2", "MSG3", "DATA", "MSG1_PSK"}
HistQuiet ==
  hist'.flipped = hist.flipped /\ hist'.nonces = hist.nonces /\ hist'.reused = hist.reused /\ hist'.uses = hist.uses
LEMMA CalmRest ==
  ASSUME Good, NEW c \in Conns, NEW x \in Sides, NEW nw, SetAt(w, w', c, x, nw), NEW N, Flow(c, x, N), \A f \in N : Plain(f),
         Calm(x, w[c][x], nw), nw.tx = w[c][x].tx, HistQuiet, slot' = slot, DOMAIN srv' = SrvFields, srv'.lock \in Conns \cup {0}
  PROVE  HandInv' /\ NonceInv' /\ LightInv' /\ \A t \in Held' : t \in Held
<1>0. HandInv /\ NonceInv /\ TicketInv /\ LightInv
  BY DEF Good
<1> USE <1>0
<1>1. HandInv'
  <2>1. \A f \in N : Honest(c, x, nw, f)
    BY DEF Plain, Honest, FromClient, FromServer
  <2> QED BY <2>1, HandCalm DEF HistQuiet
<1>2. w[c][x].tx \in Nat
  BY DEF LightInv
<1>3. NonceInv'
  <2>1. Going(x, w[c][x], nw)
    BY <1>2 DEF Going, Calm, ClientCalm, ServerCalm, Ahead
  <2>2. Forward
    BY <2>1, ForwardAt
  <2> DEFINE none == {}
  <2>3. Sealed(none)
    BY DEF Sealed, HistQuiet
  <2>4. \A n \in none : FALSE
    OBVIOUS
  <2> HIDE DEF none
  <2> QED BY <2>2, <2>3, <2>4, NonceStep
<1>4. \A t \in Held' : t \in Held
  BY HeldFlow DEF Plain, Carries
<1>5. LightInv'
  BY <1>2, LightFlow DEF Plain, Light, LightInv
<1> QED BY <1>1, <1>3, <1>4, <1>5

LEMMA CalmStep ==
  ASSUME Good, Noise \notin Nat, NEW c \in Conns, NEW x \in Sides, NEW nw, SetAt(w, w', c, x, nw), NEW N, Flow(c, x, N),
         \A f \in N : Plain(f), Calm(x, w[c][x], nw), nw.tx = w[c][x].tx, HistQuiet, SrvKept, slot' = slot, now' = now
  PROVE  Good'
<1>1. HandInv' /\ NonceInv' /\ LightInv' /\ \A t \in Held' : t \in Held
  BY CalmRest DEF SrvKept
<1>2. \A t \in Held' : t \in Held \/ \E u \in Held : Copies(t, u)
  BY <1>1
<1>3. TicketInv'
  BY <1>2, TicketFlow DEF HistQuiet, Good
<1> QED BY <1>1, <1>3 DEF Good

LEMMA SrvSame ==
  ASSUME LightInv, srv' = srv
  PROVE  SrvKept
BY DEF SrvKept, LightInv
LEMMA SrvLocks ==
  ASSUME LightInv, NEW l \in Conns \cup {0}, srv' = [srv EXCEPT !.lock = l]
  PROVE  SrvKept
<1>1. DOMAIN srv = SrvFields
  BY DEF LightInv
<1> QED BY <1>1 DEF SrvKept, SrvFields

LEMMA HistStill ==
  ASSUME UNCHANGED hist
  PROVE  HistQuiet
BY DEF HistQuiet

(* A worker's state alone changes, and its bridge may lose its first frame. *)
CalmPcs(x, p, q) == IF x = "client" THEN ClientCalm(p, q) ELSE ServerCalm(p, q)
Moves(p, q) ==
  \/ q = "done"
  \/ p \in Looping /\ q \in Looping
  \/ p = q
LEMMA MovesCalm ==
  ASSUME NEW x, NEW p, NEW q, Moves(p, q)
  PROVE  CalmPcs(x, p, q)
BY DEF Moves, CalmPcs, ClientCalm, ServerCalm, Looping, ClientPast, ServerPast, Answered, Opening

Reads1(b, nb) == nb.inbound = b.inbound \/ (b.inbound # <<>> /\ nb.inbound = Tail(b.inbound))
Writes(b, nb, N) == nb.wire = b.wire \/ \E f \in N : nb.wire = Append(b.wire, f)

LEMMA CalmWorker ==
  ASSUME ShapeInv, Good, Noise \notin Nat, NEW c \in Conns, NEW x \in Sides, NEW nw, NEW nb,
         SetAt(w, w', c, x, nw), SetAt(br, br', c, x, nb), net' = net, now' = now, slot' = slot, SrvKept, HistQuiet,
         Reads1(br[c][x], nb), NEW N, Writes(br[c][x], nb, N), \A f \in N : Plain(f),
         Same(w[c][x], nw), CalmPcs(x, w[c][x].pc, nw.pc), nw.tx = w[c][x].tx
  PROVE  Good'
<1>1. Flow(c, x, N)
  BY WorkerFlow DEF Reads1, Writes
<1>2. Calm(x, w[c][x], nw)
  BY DEF Calm, CalmPcs
<1> QED BY <1>1, <1>2, CalmStep

LEMMA FailsGood ==
  ASSUME ShapeInv, Good, Noise \notin Nat, NEW c \in Conns, NEW x \in Sides, Fails(c, x), Frame0
  PROVE  Good'
<1> DEFINE nw == [w[c][x] EXCEPT !.pc = "done"]
           nb == [br[c][x] EXCEPT !.closed = TRUE]
           none == {}
<1>1. Same(w[c][x], nw) /\ nw.pc = "done" /\ nw.tx = w[c][x].tx
  BY BridgeOf DEF WorkerFields, Same
<1>2. nb.inbound = br[c][x].inbound /\ nb.wire = br[c][x].wire
  BY BridgeOf, ClosedFields
<1>3. SetAt(w, w', c, x, nw) /\ SetAt(br, br', c, x, nb)
  BY WorkerSets DEF Fails
<1>4. net' = net /\ now' = now /\ slot' = slot /\ HistQuiet /\ LightInv
  BY HistStill DEF Fails, Frame0, Good
<1>5. srv' = srv \/ srv' = [srv EXCEPT !.lock = 0]
  BY DEF Fails, Unlocked
<1>6. SrvKept
  BY <1>4, <1>5, SrvSame, SrvLocks
<1> HIDE DEF nw, nb
<1>7. CalmPcs(x, w[c][x].pc, nw.pc)
  BY <1>1, MovesCalm DEF Moves
<1>8. Reads1(br[c][x], nb) /\ Writes(br[c][x], nb, none) /\ \A f \in none : Plain(f)
  BY <1>2 DEF Reads1, Writes
<1> HIDE DEF none
<1> QED BY <1>1, <1>3, <1>4, <1>6, <1>7, <1>8, CalmWorker

(* A worker goes on with another state, in the handshake or in its loop. *)
LEMMA GoesGood ==
  ASSUME ShapeInv, Good, Noise \notin Nat, NEW c \in Conns, NEW x \in Sides, NEW p,
         w' = [w EXCEPT ![c][x].pc = p], CalmPcs(x, w[c][x].pc, p), SrvKept, UNCHANGED <<now, slot, br, net, hist>>
  PROVE  Good'
<1> DEFINE nw == [w[c][x] EXCEPT !.pc = p]
           nb == br[c][x]
           none == {}
<1>1. Same(w[c][x], nw) /\ nw.pc = p /\ nw.tx = w[c][x].tx
  BY BridgeOf DEF WorkerFields, Same
<1>2. w' = [w EXCEPT ![c][x] = nw] /\ Grid(w) /\ Grid(br) /\ br' = br
  BY DEF ShapeInv, Grids
<1> HIDE DEF nw
<1>3. SetAt(w, w', c, x, nw) /\ SetAt(br, br', c, x, nb)
  BY <1>2, GridSet, GridSame
<1>4. net' = net /\ now' = now /\ slot' = slot /\ HistQuiet
  BY HistStill
<1>6. Reads1(br[c][x], nb) /\ Writes(br[c][x], nb, none) /\ \A f \in none : Plain(f)
  BY DEF Reads1, Writes
<1>7. CalmPcs(x, w[c][x].pc, nw.pc)
  BY <1>1
<1> HIDE DEF none, nb
<1> QED BY <1>1, <1>3, <1>4, <1>6, <1>7, CalmWorker

(* A worker answers a frame with another, neither of which says more than who speaks. *)
LEMMA AnswersGood ==
  ASSUME ShapeInv, Good, Noise \notin Nat, NEW c \in Conns, NEW x \in Sides, NEW nw, NEW f,
         Becomes(c, x, nw, Wrote(Took(c, x), f)), br[c][x].inbound # <<>>, Plain(f), Same(w[c][x], nw), nw.tx = w[c][x].tx,
         CalmPcs(x, w[c][x].pc, nw.pc), SrvKept, slot' = slot, UNCHANGED hist, Frame0
  PROVE  Good'
<1> DEFINE nb == Wrote(Took(c, x), f)
           N == {f}
<1>1. nb.inbound = Tail(br[c][x].inbound) /\ nb.wire = Append(br[c][x].wire, f)
  <2> DEFINE k == Took(c, x)
  <2>1. DOMAIN k = BridgeFields /\ k.inbound = Tail(br[c][x].inbound) /\ k.wire = br[c][x].wire
    BY TookFields
  <2> HIDE DEF k
  <2>2. Wrote(k, f).inbound = k.inbound /\ Wrote(k, f).wire = Append(k.wire, f)
    BY <2>1, WroteFields
  <2> QED BY <2>1, <2>2 DEF k
<1>2. SetAt(w, w', c, x, nw) /\ SetAt(br, br', c, x, nb)
  BY WorkerSets
<1>3. net' = net /\ now' = now /\ HistQuiet
  BY HistStill DEF Frame0
<1> HIDE DEF nb
<1>4. Reads1(br[c][x], nb) /\ Writes(br[c][x], nb, N) /\ \A g \in N : Plain(g)
  BY <1>1 DEF Reads1, Writes
<1> HIDE DEF N
<1> QED BY <1>2, <1>3, <1>4, CalmWorker

LEMMA ClientCookieGood ==
  ASSUME ShapeInv, Good, Noise \notin Nat, NEW c \in Conns, ClientCookie(c)
  PROVE  Good'
<1> DEFINE x == "client"
           nw == [w[c][x] EXCEPT !.pc = "msg2"]
           f == [t |-> "RETRY", cookie |-> Frame(c, x).cookie, e |-> w[c][x].e]
<1>1. /\ w[c][x].pc = "cookie" /\ br[c][x].inbound # <<>> /\ Becomes(c, x, nw, Wrote(Took(c, x), f)) /\ Frame0 /\ UNCHANGED hist
      /\ slot' = slot /\ srv' = srv /\ x \in Sides
  BY DEF ClientCookie, ClientIs, Reads, Sides
<1> USE <1>1
<1>2. Same(w[c][x], nw) /\ nw.pc = "msg2" /\ nw.tx = w[c][x].tx
  BY BridgeOf DEF WorkerFields, Same
<1>3. Plain(f)
  BY SMTT(60) DEF Plain
<1>4. SrvKept
  BY SrvSame DEF Good
<1>5. CalmPcs(x, w[c][x].pc, nw.pc)
  BY <1>2 DEF CalmPcs, ClientCalm, ClientPast, Looping
<1> HIDE DEF nw, f
<1> QED BY <1>2, <1>3, <1>4, <1>5, AnswersGood

LEMMA ServerMsg1Good ==
  ASSUME ShapeInv, Good, Noise \notin Nat, NEW c \in Conns, ServerMsg1(c)
  PROVE  Good'
<1> DEFINE x == "server"
           e == Frame(c, "server").e
           nw == [w[c][x] EXCEPT !.pc = "retry", !.peerE = e]
           f == [t |-> "COOKIE", cookie |-> Cookie(srv.epoch, e, now)]
<1>1. /\ w[c][x].pc \in {"first", "msg1"} /\ br[c][x].inbound # <<>> /\ Becomes(c, x, nw, Wrote(Took(c, x), f)) /\ Frame0
      /\ UNCHANGED hist /\ slot' = slot /\ srv' = srv /\ x \in Sides
  BY DEF ServerMsg1, Reply, Server, Reads, Sides
<1> USE <1>1
<1>2. Same(w[c][x], nw) /\ nw.pc = "retry" /\ nw.tx = w[c][x].tx
  BY BridgeOf DEF WorkerFields, Same
<1>3. Plain(f)
  BY SMTT(60) DEF Plain
<1>4. SrvKept
  BY SrvSame DEF Good
<1>5. CalmPcs(x, w[c][x].pc, nw.pc)
  BY <1>2 DEF CalmPcs, ServerCalm, ServerPast, Answered, Opening, Looping
<1> HIDE DEF nw, f
<1> QED BY <1>2, <1>3, <1>4, <1>5, AnswersGood

(* The message loop, but for what it sends. *)
LEMMA LoopPcGood ==
  ASSUME ShapeInv, Good, Noise \notin Nat, NEW c \in Conns, NEW x \in Sides, LoopDrained(c, x) \/ LoopWakes(c, x) \/ LoopBlocks(c, x) \/ LoopCut(c, x)
  PROVE  Good'
<1>1. PICK p \in {"loop", "wait", "recv", "done"} :
        w' = [w EXCEPT ![c][x].pc = p] /\ w[c][x].pc \in {"loop", "wait", "recv"} /\ UNCHANGED <<srv, now, slot, br, hist, net>>
  BY DEF LoopDrained, LoopWakes, LoopBlocks, LoopCut, Loops, Frame0
<1> USE <1>1
<1>2. CalmPcs(x, w[c][x].pc, p)
  BY MovesCalm DEF Moves, Looping
<1>3. SrvKept
  BY SrvSame DEF Good
<1> QED BY <1>2, <1>3, GoesGood

LEMMA LoopRecvGood ==
  ASSUME ShapeInv, Good, Noise \notin Nat, NEW c \in Conns, NEW x \in Sides, LoopRecv(c, x)
  PROVE  Good'
<1> DEFINE v == w[c][x]
           k == Took(c, x)
           none == {}
<1>0. DOMAIN v = WorkerFields /\ DOMAIN k = BridgeFields /\ k.inbound = Tail(br[c][x].inbound) /\ k.wire = br[c][x].wire
  BY BridgeOf, TookFields
<1> USE <1>0
<1>1. PICK nw, nb : /\ Becomes(c, x, nw, nb) /\ Same(v, nw) /\ nw.pc \in {"loop", "done"} /\ nw.tx = v.tx
                    /\ nb \in {k, [k EXCEPT !.closed = TRUE]}
  <2> DEFINE last == [v EXCEPT !.pc = "done"]
             heard(r) == [v EXCEPT !.pc = "loop", !.rx = r]
  <2>1. (\E r : Becomes(c, x, heard(r), k)) \/ Becomes(c, x, last, [k EXCEPT !.closed = TRUE])
    BY DEF LoopRecv
  <2> HIDE DEF v, k
  <2>2. Same(v, last) /\ last.pc = "done" /\ last.tx = v.tx
    BY DEF WorkerFields, Same
  <2>3. \A r : Same(v, heard(r)) /\ heard(r).pc = "loop" /\ heard(r).tx = v.tx
    BY DEF WorkerFields, Same
  <2> HIDE DEF last, heard
  <2> QED BY <2>1, <2>2, <2>3
<1> USE <1>1
<1>2. v.pc = "wait" /\ br[c][x].inbound # <<>> /\ Frame0 /\ slot' = slot /\ srv' = srv
  BY DEF LoopRecv, Loops
<1> USE <1>2
<1>4. SetAt(w, w', c, x, nw) /\ SetAt(br, br', c, x, nb)
  BY WorkerSets
<1>5. nb.inbound = Tail(br[c][x].inbound) /\ nb.wire = br[c][x].wire
  <2> HIDE DEF k
  <2> QED BY ClosedFields
<1>6. HistQuiet
  BY DEF ShapeInv, Grids, HistInv, LoopRecv, HistQuiet, HistFields
<1>7. net' = net /\ now' = now
  BY DEF Frame0
<1>8. SrvKept
  BY SrvSame DEF Good
<1>9. CalmPcs(x, v.pc, nw.pc)
  BY MovesCalm DEF Moves, Looping
<1>10. Reads1(br[c][x], nb) /\ Writes(br[c][x], nb, none) /\ \A f \in none : Plain(f)
  BY <1>5 DEF Reads1, Writes
<1> HIDE DEF none
<1> QED BY <1>4, <1>7, <1>8, <1>6, <1>9, <1>10, CalmWorker

(* The workers stay as they are. *)
LEMMA StaysGood ==
  ASSUME ShapeInv, Good, Noise \notin Nat, NEW c \in Conns, NEW x \in Sides, w' = w, Flow(c, x, {}),
         srv' = srv, slot' = slot, now' = now, HistQuiet
  PROVE  Good'
<1> DEFINE none == {}
<1>1. SetAt(w, w', c, x, w[c][x])
  BY GridSame DEF ShapeInv, Grids
<1>2. Calm(x, w[c][x], w[c][x])
  BY CalmSelf DEF Calm
<1>3. SrvKept
  BY SrvSame DEF Good
<1>4. Flow(c, x, none) /\ \A f \in none : Plain(f)
  OBVIOUS
<1> HIDE DEF none
<1> QED BY <1>1, <1>2, <1>3, <1>4, CalmStep

LEMMA ShuttleGood ==
  ASSUME ShapeInv, Good, Noise \notin Nat, NEW c \in Conns, NEW x \in Sides, Outbound(c, x) \/ Inbound(c, x)
  PROVE  Good'
<1>1. Flow(c, x, {})
  BY OutboundFlow, InboundFlow
<1>2. w' = w /\ srv' = srv /\ slot' = slot /\ now' = now /\ UNCHANGED hist
  BY DEF Outbound, Inbound, TaskFrame
<1> QED BY <1>1, <1>2, HistStill, StaysGood

LEMMA SendGood ==
  ASSUME ShapeInv, Good, Noise \notin Nat, NEW c \in Conns, NEW x \in Sides, Send(c, x)
  PROVE  Good'
<1>1. PICK o : br' = [br EXCEPT ![c][x].outbox = o]
  BY DEF Send
<1> DEFINE nb == [br[c][x] EXCEPT !.outbox = o]
           none == {}
<1>2. br' = [br EXCEPT ![c][x] = nb] /\ Grid(br)
  BY <1>1 DEF ShapeInv, Grids
<1>3. nb.inbound = br[c][x].inbound /\ nb.wire = br[c][x].wire
  BY BridgeOf DEF BridgeFields
<1> HIDE DEF nb
<1>4. SetAt(br, br', c, x, nb)
  BY <1>2, GridSet
<1>5. w' = w /\ srv' = srv /\ slot' = slot /\ now' = now /\ net' = net
  BY DEF Send
<1>6. HistQuiet
  BY DEF ShapeInv, Grids, HistInv, Send, HistQuiet, HistFields
<1>7. Flow(c, x, none)
  <2> HIDE DEF none
  <2> QED BY <1>3, <1>4, <1>5, WorkerFlow
<1> QED BY <1>5, <1>6, <1>7, StaysGood

LEMMA DropReceiverGood ==
  ASSUME ShapeInv, Good, Noise \notin Nat, NEW c \in Conns, NEW x \in Sides, DropReceiver(c, x)
  PROVE  Good'
<1> DEFINE nw == [w[c][x] EXCEPT !.listens = FALSE]
           nb == br[c][x]
           none == {}
<1>1. Same(w[c][x], nw) /\ nw.pc = w[c][x].pc /\ nw.tx = w[c][x].tx
  BY BridgeOf DEF WorkerFields, Same
<1>2. w' = [w EXCEPT ![c][x] = nw] /\ Grid(w) /\ Grid(br) /\ br' = br
  BY DEF ShapeInv, Grids, DropReceiver
<1> HIDE DEF nw
<1>3. SetAt(w, w', c, x, nw) /\ SetAt(br, br', c, x, nb)
  BY <1>2, GridSet, GridSame
<1>4. net' = net /\ now' = now /\ slot' = slot /\ HistQuiet /\ srv' = srv
  BY HistStill DEF DropReceiver
<1>5. SrvKept
  BY <1>4, SrvSame DEF Good
<1>6. Reads1(br[c][x], nb) /\ Writes(br[c][x], nb, none) /\ \A f \in none : Plain(f)
  BY DEF Reads1, Writes
<1>7. CalmPcs(x, w[c][x].pc, nw.pc)
  BY <1>1, MovesCalm DEF Moves
<1> HIDE DEF none, nb
<1> QED BY <1>1, <1>3, <1>4, <1>5, <1>6, <1>7, CalmWorker

(* Nothing of this changes but the clock or the server. *)
LEMMA StillGood ==
  ASSUME Good, w' = w, br' = br, net' = net, slot' = slot, HistQuiet, DOMAIN srv' = SrvFields, srv'.lock \in Conns \cup {0}
  PROVE  HandInv' /\ NonceInv' /\ LightInv' /\ Held' = Held
<1>1. \A c, x : Underway(c, x)' = Underway(c, x)
  BY DEF Underway
<1> USE <1>1
<1>2. HandInv'
  BY DEF Good, HandInv, HistQuiet
<1>3. NonceInv'
  BY DEF Good, NonceInv, NoncesOk, NonceOnce, HistQuiet
<1>4. LightInv'
  BY DEF Good, LightInv, AtMostOne
<1>5. Held' = Held
  BY DEF Held
<1> QED BY <1>2, <1>3, <1>4, <1>5

LEMMA IdleGood ==
  ASSUME Good, UNCHANGED <<w, br, net, slot, srv, now>>, HistQuiet
  PROVE  Good'
<1>1. HandInv' /\ NonceInv' /\ LightInv' /\ Held' = Held
  BY StillGood DEF Good, LightInv
<1>2. TicketInv'
  BY <1>1 DEF Good, TicketInv, HistQuiet
<1> QED BY <1>1, <1>2 DEF Good

LEMMA TickGood ==
  ASSUME Good, Tick
  PROVE  Good'
<1>0. UNCHANGED <<w, br, net, slot, srv, hist>> /\ now' = now + 1
  BY DEF Tick
<1>1. HandInv' /\ NonceInv' /\ LightInv' /\ Held' = Held
  BY <1>0, StillGood, HistStill DEF Good, LightInv
<1>2. TicketsOk(Held, hist.uses, srv.issued, srv.epoch, now + 1, srv.cache)
  BY TicketsTick DEF Good, TicketInv
<1>3. TicketInv'
  BY <1>0, <1>1, <1>2 DEF TicketInv
<1> QED BY <1>1, <1>3 DEF Good

LEMMA DamageHurts ==
  ASSUME NEW h, "t" \in DOMAIN h, NEW f \in Damaged(h)
  PROVE  Hurt(h, f)
<1>1. \/ f = [h EXCEPT !.t = "?"] \/ f = [h EXCEPT !.t = "long"]
      \/ h.t # "MSG1_PSK" /\ f = [h EXCEPT !.box.key = Noise]
      \/ h.t = "MSG1_PSK" /\ f = [h EXCEPT !.ticket.key = Noise]
      \/ h.t = "MSG2" /\ f = [h EXCEPT !.early = ~@]
      \/ \E v : f = [h EXCEPT !.e = v] \/ f = [h EXCEPT !.cookie = v] \/ f = [h EXCEPT !.ct = v] \/ f = [h EXCEPT !.se = v]
                \/ f = [h EXCEPT !.st = v] \/ (h.t # "MSG2" /\ f = [h EXCEPT !.early = v])
  BY DEF Damaged
<1> QED BY <1>1, HurtKey, HurtField

LEMMA DamageGood ==
  ASSUME ShapeInv, Good, Noise \notin Nat, NEW c \in Conns, NEW x \in Sides, Damage(c, x)
  PROVE  Good'
<1> DEFINE q == net[c][x].frames
           h == Head(q)
<1>1. PICK f \in Damaged(h) :
        /\ net' = [net EXCEPT ![c][x].frames[1] = f]
        /\ hist' = [hist EXCEPT !.damaged = TRUE, !.flipped = @ \/ (f.t = "MSG2" /\ f = [h EXCEPT !.early = ~@])]
  BY DEF Damage
<1> USE <1>1
<1>2. q # <<>> /\ w' = w /\ br' = br /\ srv' = srv /\ slot' = slot /\ now' = now
  BY DEF Damage
<1> USE <1>2
<1>3. IsSeq(q) /\ Grid(net) /\ DOMAIN net[c][x] = StreamFields /\ DOMAIN hist = HistFields
  BY BridgeOf DEF ShapeInv, Grids, HistInv
<1> USE <1>3
<1>4. h \in Underway(c, x)
  <2>1. h \in Range(q)
    BY RangeTail
  <2> QED BY <2>1 DEF Underway
<1> USE <1>4
<1>5. Light(h) /\ "t" \in DOMAIN h
  BY DEF Good, LightInv, Light
<1>6. Hurt(h, f)
  BY <1>5, DamageHurts
<1> USE <1>6
<1> DEFINE gl == hist'.flipped
           fl == hist.flipped
<1>7. (fl => gl) /\ (f.t = "MSG2" /\ f = [h EXCEPT !.early = ~@] => gl)
  BY DEF HistFields
<1>8. hist'.nonces = hist.nonces /\ hist'.reused = hist.reused /\ hist'.uses = hist.uses
  BY DEF HistFields
<1> HIDE DEF h, q
<1>9. Flow(c, x, {f})
  <2> DEFINE nn == [net[c][x] EXCEPT !.frames = [q EXCEPT ![1] = f]]
  <2>1. net' = [net EXCEPT ![c][x] = nn]
    BY DEF q
  <2>2. nn.frames = [q EXCEPT ![1] = f]
    BY DEF StreamFields
  <2> HIDE DEF nn
  <2>3. SetAt(net, net', c, x, nn)
    BY <2>1, GridSet
  <2>4. Range(nn.frames) \subseteq Range(q) \cup {f}
    BY <2>2, RangeFirst
  <2>5. \A d \in Conns, y \in Sides : Range(net'[d][y].frames) \subseteq
          Range(net[d][y].frames) \cup (IF d = c /\ y = x THEN {f} ELSE {})
    BY <2>3, <2>4 DEF SetAt, q
  <2> QED BY <2>5 DEF Flow, Underway
<1> USE <1>9
<1>10. HandInv'
  <2> SUFFICES ASSUME NEW d \in Conns
               PROVE  ViewOk(d, w'[d]["client"], w'[d]["server"], Underway(d, "client")', Underway(d, "server")', gl)
    BY DEF HandInv
  <2> DEFINE cl == w[d]["client"]
             sv == w[d]["server"]
             kl == w'[d]["client"]
             kv == w'[d]["server"]
             FC == Underway(d, "client")
             FS == Underway(d, "server")
             GC == Underway(d, "client")'
             GS == Underway(d, "server")'
  <2>1. ViewOk(d, cl, sv, FC, FS, fl)
    BY DEF Good, HandInv
  <2>0. kl = cl /\ kv = sv
    OBVIOUS
  <2>2. \A g \in GC : g \in FC \/ FromClient(d, kl, g)
    <3>1. ASSUME d = c, x = "client" PROVE FromClient(d, cl, f)
      <4>1. FromClient(d, cl, h)
        BY <2>1, <3>1 DEF ViewOk
      <4> QED BY <4>1, HurtClient
    <3> QED BY <2>0, <3>1, Ends DEF Flow
  <2>3. \A g \in GS : g \in FS \/ FromServer(d, kl, kv, gl, g)
    <3>1. ASSUME d = c, x = "server" PROVE FromServer(d, cl, sv, gl, f)
      <4>1. FromServer(d, cl, sv, fl, h)
        BY <2>1, <3>1 DEF ViewOk
      <4> HIDE DEF cl, sv, fl, gl
      <4> QED BY <1>7, <4>1, HurtServer
    <3> QED BY <2>0, <3>1, Ends DEF Flow
  <2>4. Same(cl, kl) /\ Same(sv, kv) /\ ClientCalm(cl.pc, kl.pc) /\ ServerCalm(sv.pc, kv.pc) /\ (fl => gl)
    BY <1>7, <2>0, CalmSelf
  <2> HIDE DEF cl, sv, kl, kv, FC, FS, GC, GS, fl, gl
  <2>a. StaysCalm(cl, sv, kl, kv) /\ Arrives(d, kl, kv, fl, gl, FC, FS, GC, GS)
    BY <2>2, <2>3, <2>4 DEF StaysCalm, Arrives
  <2>5. ViewOk(d, kl, kv, GC, GS, gl)
    BY ONLY ZenonT(60), <2>1, <2>a, ViewCalm
  <2> QED BY <2>5 DEF kl, kv, GC, GS
<1>11. NonceInv'
  BY <1>8 DEF Good, NonceInv, NoncesOk, NonceOnce
<1>12. TicketInv'
  <2>1. \A t : Carries(f, t) => Carries(h, t) \/ (h.t = "MSG1_PSK" /\ t = [h.ticket EXCEPT !.key = Noise])
    BY <1>5, HurtLight
  <2>2. \A t : Carries(h, t) => t \in Held
    BY HeldIs DEF Holds
  <2>3. h.t = "MSG1_PSK" => h.ticket \in Held
    BY <2>2 DEF Carries
  <2>4. ASSUME h.t = "MSG1_PSK" PROVE Copies([h.ticket EXCEPT !.key = Noise], h.ticket)
    <3>1. DOMAIN h.ticket = {"key", "id", "fp", "exp"}
      BY <2>3, <2>4 DEF Good, TicketInv, TicketsOk, TicketOk
    <3> QED BY <3>1 DEF Copies
  <2>5. \A t \in Held' : t \in Held \/ \E u \in Held : Copies(t, u)
    <3> DEFINE N == {f}
    <3>1. Flow(c, x, N) /\ \A g \in N : g = f
      OBVIOUS
    <3> HIDE DEF N
    <3>2. \A t \in Held' : t \in Held \/ \E g \in N : Carries(g, t)
      BY <3>1, HeldFlow
    <3> QED BY <2>1, <2>2, <2>3, <2>4, <3>1, <3>2
  <2>6. SrvKept
    BY SrvSame DEF Good
  <2> QED BY <1>8, <2>5, <2>6, TicketFlow DEF Good
<1>13. LightInv'
  <2>1. \A g \in {f} : Light(g)
    BY <1>5, HurtLight
  <2>2. SetAt(w, w', c, x, w[c][x]) /\ w[c][x].tx \in Nat
    BY GridSame DEF ShapeInv, Grids, Good, LightInv
  <2>3. AtMostOne(slot') /\ DOMAIN srv' = SrvFields /\ srv'.lock \in Conns \cup {0} /\ LightInv
    BY DEF Good, LightInv
  <2> DEFINE N == {f}
  <2>4. Flow(c, x, N) /\ \A g \in N : Light(g)
    BY <2>1
  <2> HIDE DEF N
  <2> QED BY <2>2, <2>3, <2>4, LightFlow
<1> QED BY <1>10, <1>11, <1>12, <1>13 DEF Good

(* The server starts again: its workers end, its tickets are void. *)
LEMMA RestartGood ==
  ASSUME ShapeInv, Good, Noise \notin Nat, Restart
  PROVE  Good'
<1> DEFINE off == {c \in Conns : w[c]["client"].pc # "off"}
<1>1. /\ br' = br /\ net' = net /\ slot' = slot /\ now' = now /\ hist' = hist
      /\ srv' = [srv EXCEPT !.epoch = @ + 1, !.cache = <<>>, !.lock = 0]
      /\ w' = [c \in Conns |-> IF c \in off THEN [w[c] EXCEPT !["server"].pc = "done"] ELSE w[c]]
  BY DEF Restart
<1>2. ASSUME NEW c \in Conns
      PROVE  /\ w'[c]["client"] = w[c]["client"] /\ DOMAIN w'[c] = Sides
             /\ w'[c]["server"] = w[c]["server"] \/ w'[c]["server"] = [w[c]["server"] EXCEPT !.pc = "done"]
  BY <1>1 DEF ShapeInv, Grids, Grid, Sides
<1>3. ASSUME NEW c \in Conns
      PROVE  /\ Same(w[c]["server"], w'[c]["server"]) /\ ServerCalm(w[c]["server"].pc, w'[c]["server"].pc)
             /\ w'[c]["server"].tx = w[c]["server"].tx
  <2> DEFINE v == w[c]["server"]
             k == [v EXCEPT !.pc = "done"]
  <2>1. Same(v, k) /\ k.pc = "done" /\ k.tx = v.tx
    BY BridgeOf DEF Sides, WorkerFields, Same
  <2>2. Same(v, v) /\ ServerCalm(v.pc, v.pc)
    BY CalmSelf
  <2>3. ServerCalm(v.pc, "done")
    BY DEF ServerCalm, ServerPast, Answered, Opening, Looping
  <2> HIDE DEF k
  <2> QED BY <1>2, <2>1, <2>2, <2>3 DEF k
<1> USE <1>3
<1>4. \A c, x : Underway(c, x)' = Underway(c, x)
  BY <1>1 DEF Underway
<1> USE <1>4
<1>5. HandInv'
  <2> SUFFICES ASSUME NEW d \in Conns
               PROVE  ViewOk(d, w'[d]["client"], w'[d]["server"], Underway(d, "client")', Underway(d, "server")', hist.flipped)
    BY <1>1 DEF HandInv
  <2> DEFINE cl == w[d]["client"]
             sv == w[d]["server"]
             FC == Underway(d, "client")
             FS == Underway(d, "server")
             GC == Underway(d, "client")'
             GS == Underway(d, "server")'
             fl == hist.flipped
             kl == w'[d]["client"]
             kv == w'[d]["server"]
  <2>0. kl = cl /\ GC = FC /\ GS = FS
    BY <1>2
  <2>1. ViewOk(d, cl, sv, FC, FS, fl)
    BY DEF Good, HandInv
  <2>2. Same(cl, kl) /\ Same(sv, kv) /\ ClientCalm(cl.pc, kl.pc) /\ ServerCalm(sv.pc, kv.pc)
    BY <2>0, CalmSelf
  <2> HIDE DEF cl, sv, kl, kv, FC, FS, GC, GS, fl
  <2>3. (\A f \in GC : f \in FC \/ FromClient(d, kl, f)) /\ (\A f \in GS : f \in FS \/ FromServer(d, kl, kv, fl, f)) /\ (fl => fl)
    BY <2>0
  <2>a. StaysCalm(cl, sv, kl, kv) /\ Arrives(d, kl, kv, fl, fl, FC, FS, GC, GS)
    BY <2>2, <2>3 DEF StaysCalm, Arrives
  <2>4. ViewOk(d, kl, kv, GC, GS, fl)
    BY ONLY ZenonT(60), <2>1, <2>a, ViewCalm
  <2> QED BY <2>4 DEF kl, kv, GC, GS, fl
<1>6. NonceInv'
  <2>1. \A c \in Conns : w[c]["client"].tx \in Nat /\ w[c]["server"].tx \in Nat
    BY DEF Good, LightInv, Sides
  <2>2. Forward
    BY <1>2, <2>1 DEF Forward, Ahead, ServerCalm
  <2> DEFINE none == {}
  <2>3. Sealed(none)
    BY <1>1 DEF Sealed
  <2>4. \A n \in none : FALSE
    OBVIOUS
  <2> HIDE DEF none
  <2> QED BY <2>2, <2>3, <2>4, NonceStep DEF Good
<1>7. DOMAIN srv' = SrvFields /\ srv'.epoch = srv.epoch + 1 /\ srv'.cache = <<>> /\ srv'.lock = 0 /\ srv'.issued = srv.issued
  BY <1>1 DEF Good, LightInv, SrvFields
<1>8. TicketInv'
  <2> DEFINE T == Held
             us == hist.uses
             is == srv.issued
             ep == srv.epoch
             ca == srv.cache
  <2>0. Held' = Held
    BY <1>1 DEF Held
  <2>1. TicketsOk(T, us, is, ep, now, ca)
    BY DEF Good, TicketInv
  <2> HIDE DEF T, us, is, ep, ca
  <2>2. TicketsOk(T, us, is, ep + 1, now, <<>>)
    BY ONLY ZenonT(60), Noise \notin Nat, <2>1, TicketsRestart
  <2> QED BY <1>1, <1>7, <2>0, <2>2 DEF TicketInv, T, us, is, ep
<1>9. LightInv'
  <2>1. \A c \in Conns, x \in Sides : w'[c][x].tx \in Nat
    BY <1>2, Ends DEF Good, LightInv
  <2>2. AtMostOne(slot)' /\ srv'.lock \in Conns \cup {0}
    BY <1>1, <1>7 DEF Good, LightInv, AtMostOne
  <2> QED BY <1>7, <2>1, <2>2 DEF Good, LightInv
<1> QED BY <1>5, <1>6, <1>8, <1>9 DEF Good

-----------------------------------------------------------------------------
(* Steps that move the handshake on. *)
LEMMA FieldsFlow ==
  ASSUME ShapeInv, NEW c \in Conns, NEW x \in Sides, NEW nw, NEW f, NEW nb, Becomes(c, x, nw, nb), Frame0,
         Reads1(br[c][x], nb), nb.wire = Append(br[c][x].wire, f)
  PROVE  SetAt(w, w', c, x, nw) /\ Flow(c, x, {f}) /\ now' = now /\ net' = net
<1>1. SetAt(w, w', c, x, nw) /\ SetAt(br, br', c, x, nb)
  BY WorkerSets
<1>2. net' = net /\ now' = now
  BY DEF Frame0
<1> DEFINE N == {f}
<1>3. \E g \in N : nb.wire = Append(br[c][x].wire, g)
  OBVIOUS
<1> HIDE DEF N
<1>4. Flow(c, x, N)
  BY <1>1, <1>2, <1>3, WorkerFlow DEF Reads1
<1> QED BY <1>1, <1>2, <1>4 DEF N

LEMMA WritesFlow ==
  ASSUME ShapeInv, NEW c \in Conns, NEW x \in Sides, NEW nw, NEW f, NEW nb, Becomes(c, x, nw, nb), Frame0,
         nb = Wrote(br[c][x], f) \/ (br[c][x].inbound # <<>> /\ nb = Wrote(Took(c, x), f))
  PROVE  SetAt(w, w', c, x, nw) /\ Flow(c, x, {f}) /\ now' = now /\ net' = net
<1>1. DOMAIN br[c][x] = BridgeFields /\ DOMAIN Took(c, x) = BridgeFields /\ Took(c, x).wire = br[c][x].wire
      /\ Took(c, x).inbound = Tail(br[c][x].inbound)
  BY BridgeOf, TookFields
<1>2. Reads1(br[c][x], nb) /\ nb.wire = Append(br[c][x].wire, f)
  <2> DEFINE b == br[c][x]
             k == Took(c, x)
  <2>1. \A m : DOMAIN m = BridgeFields => Wrote(m, f).inbound = m.inbound /\ Wrote(m, f).wire = Append(m.wire, f)
    BY WroteFields
  <2>2. /\ Wrote(b, f).inbound = b.inbound /\ Wrote(b, f).wire = Append(b.wire, f)
        /\ Wrote(k, f).inbound = Tail(b.inbound) /\ Wrote(k, f).wire = Append(b.wire, f)
    BY <1>1, <2>1
  <2>3. nb = Wrote(b, f) \/ (b.inbound # <<>> /\ nb = Wrote(k, f))
    OBVIOUS
  <2> HIDE DEF b, k
  <2>4. Reads1(b, nb) /\ nb.wire = Append(b.wire, f)
    BY <2>2, <2>3 DEF Reads1
  <2> QED BY <2>4 DEF b
<1> QED BY <1>2, FieldsFlow

HistSeals(S) == Sealed(S) /\ hist'.flipped = hist.flipped
LEMMA UsedFields ==
  ASSUME ShapeInv, NEW B
  PROVE  LET k == Used(hist, B)
             S == {<<b.key, b.seq>> : b \in B}
         IN  /\ DOMAIN k = HistFields /\ k.nonces = hist.nonces \cup S /\ k.reused = hist.reused \cup (S \cap hist.nonces)
             /\ k.flipped = hist.flipped /\ k.uses = hist.uses
<1>1. DOMAIN hist = HistFields
  BY DEF ShapeInv, Grids, HistInv
<1> DEFINE ns == {<<b.key, b.seq>> : b \in B}
           a == hist.nonces \cup ns
           r == hist.reused \cup (ns \cap hist.nonces)
           k == Used(hist, B)
<1>2. k = [hist EXCEPT !.nonces = a, !.reused = r]
  BY DEF Used
<1> HIDE DEF a, r, k
<1>3. DOMAIN k = HistFields /\ k.nonces = a /\ k.reused = r /\ k.flipped = hist.flipped /\ k.uses = hist.uses
  BY <1>1, <1>2 DEF HistFields
<1> QED BY <1>3 DEF a, r, k
LEMMA UsedSeals ==
  ASSUME ShapeInv, NEW B, hist' = Used(hist, B)
  PROVE  HistSeals({<<b.key, b.seq>> : b \in B}) /\ hist'.uses = hist.uses
BY UsedFields DEF HistSeals, Sealed
LEMMA UsedOneSeals ==
  ASSUME ShapeInv, NEW b, hist' = Used(hist, {b})
  PROVE  HistSeals({<<b.key, b.seq>>}) /\ hist'.uses = hist.uses
<1> DEFINE B == {b}
<1>1. HistSeals({<<d.key, d.seq>> : d \in B}) /\ hist'.uses = hist.uses
  BY UsedSeals
<1>2. {<<d.key, d.seq>> : d \in B} = {<<b.key, b.seq>>}
  OBVIOUS
<1> QED BY <1>1, <1>2

LEMMA SrvSlot ==
  ASSUME LightInv, srv' = srv, slot' = slot
  PROVE  SrvKept /\ AtMostOne(slot') /\ DOMAIN srv' = SrvFields /\ srv'.lock \in Conns \cup {0}
BY SrvSame DEF LightInv

(* The frames written carry no new ticket. *)
LEMMA OldTickets ==
  ASSUME TicketInv, Noise \notin Nat, NEW c, NEW x, NEW N, Flow(c, x, N), \A f \in N : \A t : Carries(f, t) => t \in Held,
         hist'.uses = hist.uses, SrvKept, now' = now, slot' = slot
  PROVE  TicketInv'
<1>1. \A t \in Held' : t \in Held \/ \E f \in N : Carries(f, t)
  BY HeldFlow
<1>2. \A t \in Held' : t \in Held \/ \E u \in Held : Copies(t, u)
  BY <1>1
<1> QED BY <1>2, TicketFlow

(* The client starts a handshake, with a ticket or without. *)
LEMMA BeginsGood ==
  ASSUME ShapeInv, Good, Noise \notin Nat, NEW c \in Conns, NEW nw, NEW f, NEW nb, Becomes(c, "client", nw, nb), Frame0,
         nb = Wrote(br[c]["client"], f) \/ (br[c]["client"].inbound # <<>> /\ nb = Wrote(Took(c, "client"), f)),
         slot' = slot, srv' = srv, hist'.uses = hist.uses, w[c]["client"].pc \notin ClientPast, nw.pc \in {"cookie", "psk"},
         nw.e[2] = c, Keyed(nw), nw.tx = 0,
         "t" \in DOMAIN f, f.t \in {"MSG1", "MSG1_PSK"}, f.t = "MSG1_PSK" => "ticket" \in DOMAIN f /\ f.ticket \in Held,
         NEW S, HistSeals(S), \A n \in S : n[2] \in Nat /\ n[1][1] = "early"
  PROVE  Good'
<1> DEFINE x == "client"
           N == {f}
<1>0. HandInv /\ NonceInv /\ TicketInv /\ LightInv /\ x \in Sides
  BY DEF Good, Sides
<1> USE <1>0
<1>1. SetAt(w, w', c, x, nw) /\ Flow(c, x, N) /\ now' = now /\ net' = net
  BY WritesFlow
<1> USE <1>1
<1>2. HandInv'
  <2> DEFINE cl == w[c]["client"]
             sv == w[c]["server"]
             kl == w'[c]["client"]
             FC == Underway(c, "client")
             FS == Underway(c, "server")
             GC == Underway(c, "client")'
             GS == Underway(c, "server")'
             fl == hist.flipped
  <2>1. ViewOk(c, cl, sv, FC, FS, fl)
    BY DEF HandInv
  <2>2. kl = nw /\ w'[c]["server"] = sv
    BY Ends DEF SetAt
  <2>3. \A g \in GS : g \in FS
    BY Ends DEF Flow
  <2>4. \A g \in GC : g \in FC \/ Unwritten(g)
    BY DEF Flow, Unwritten
  <2>5. Starts(c, cl, nw)
    BY DEF Starts
  <2> HIDE DEF cl, sv, kl, FC, FS, GC, GS, fl
  <2>6. ViewOk(c, nw, sv, GC, GS, fl)
    BY ONLY ZenonT(60), <2>1, <2>3, <2>4, <2>5, ViewBegins
  <2>7. ViewOk(c, w'[c]["client"], w'[c]["server"], Underway(c, "client")', Underway(c, "server")', hist.flipped)
    BY <2>2, <2>6 DEF kl, GC, GS, fl
  <2> HIDE DEF N
  <2> QED BY <2>7, HandOne DEF HistSeals
<1>3. NonceInv'
  BY ForwardAt, NonceStep DEF Going, Ahead, HistSeals
<1>4. SrvKept /\ AtMostOne(slot') /\ DOMAIN srv' = SrvFields /\ srv'.lock \in Conns \cup {0}
  BY SrvSlot
<1>5. \A g \in N : Light(g) /\ \A t : Carries(g, t) => t \in Held
  BY DEF Light, Carries
<1>6. nw.tx \in Nat
  BY SMTT(60)
<1> HIDE DEF N
<1>7. TicketInv'
  BY <1>4, <1>5, OldTickets
<1>8. LightInv'
  BY <1>4, <1>5, <1>6, LightFlow
<1> QED BY <1>2, <1>3, <1>7, <1>8 DEF Good

LEMMA FullIs ==
  ASSUME NEW c
  PROVE  LET k == FullWorker(c) IN k.pc = "cookie" /\ k.e[2] = c /\ HasKeys(k.ss, 0) /\ k.tx = 0
<1> DEFINE e == <<"e", c, "full">>
           ss == WriteMsg1(NewState, e)
           n == NewWorker
           k == [n EXCEPT !.pc = "cookie", !.e = e, !.ss = ss]
<1>1. DOMAIN n = WorkerFields
  BY NewFields
<1>2. n.tx = 0
  BY SMTT(60) DEF NewWorker
<1>3. HasKeys(ss, 0)
  BY NewKeys, HashKeeps DEF WriteMsg1
<1>4. e[2] = c
  BY SMTT(60)
<1>5. FullWorker(c) = k
  BY DEF FullWorker
<1> HIDE DEF n, ss, e
<1>6. k.pc = "cookie" /\ k.e = e /\ k.ss = ss /\ k.tx = 0
  BY <1>1, <1>2 DEF WorkerFields
<1> HIDE DEF k
<1> QED BY <1>3, <1>4, <1>5, <1>6

LEMMA ClientFullGood ==
  ASSUME ShapeInv, Good, Noise \notin Nat, NEW c \in Conns, ClientFull(c) \/ ClientRejected(c)
  PROVE  Good'
<1> DEFINE x == "client"
           nw == FullWorker(c)
           f == Msg1(FullWorker(c).e)
           S == {}
<1>1. PICK nb : /\ Becomes(c, x, nw, nb)
                /\ nb = Wrote(br[c][x], f) \/ (br[c][x].inbound # <<>> /\ nb = Wrote(Took(c, x), f))
  BY DEF ClientFull, ClientRejected, ClientIs, Fallback, Reads
<1>2. w[c][x].pc \in {"start", "psk"} /\ Frame0 /\ UNCHANGED hist /\ slot' = slot /\ srv' = srv
  BY DEF ClientFull, ClientRejected, ClientIs, Reads
<1> USE <1>2
<1>3. "t" \in DOMAIN f /\ f.t = "MSG1"
  BY SMTT(60) DEF Msg1
<1>4. nw.pc = "cookie" /\ nw.e[2] = c /\ HasKeys(nw.ss, 0) /\ nw.tx = 0
  BY FullIs
<1>5. HistSeals(S) /\ \A n \in S : n[2] \in Nat /\ n[1][1] = "early"
  BY DEF HistSeals, Sealed
<1>6. w[c][x].pc \notin ClientPast /\ hist'.uses = hist.uses
  BY DEF ClientPast
<1> HIDE DEF nw, f, S
<1>7. nw.pc \in {"cookie", "psk"} /\ Keyed(nw)
  BY <1>4 DEF Keyed
<1>8. f.t \in {"MSG1", "MSG1_PSK"} /\ (f.t = "MSG1_PSK" => "ticket" \in DOMAIN f /\ f.ticket \in Held)
  BY <1>3
<1> QED BY <1>1, <1>3, <1>4, <1>5, <1>6, <1>7, <1>8, BeginsGood

LEMMA ClientResumeGood ==
  ASSUME ShapeInv, Good, Noise \notin Nat, NEW c \in Conns, ClientResume(c)
  PROVE  Good'
<1> DEFINE x == "client"
           e == <<"e", c, "psk">>
           ss == WriteMsg1(NewWithPsk(slot[1].id), e)
           early == IF budget.early THEN <<SealEarlyData(ss)>> ELSE <<>>
           n == NewWorker
           nw == [n EXCEPT !.pc = "psk", !.e = e, !.ss = ss, !.ticket = slot]
           f == [t |-> "MSG1_PSK", ticket |-> slot[1], e |-> e, early |-> early]
           S == {<<b.key, b.seq>> : b \in Range(early)}
<1>1. Becomes(c, x, nw, Wrote(br[c][x], f)) /\ hist' = Used(hist, Range(early)) /\ srv' = srv
  BY DEF ClientResume, ClientIs
<1>2. w[c][x].pc = "start" /\ slot # <<>> /\ slot' = slot /\ Frame0
  BY DEF ClientResume
<1> USE <1>2
<1>3. HistSeals(S) /\ hist'.uses = hist.uses
  BY <1>1, UsedSeals
<1>4. \A s \in S : s[2] \in Nat /\ s[1][1] = "early"
  <2>1. \A b \in Range(early) : b = SealEarlyData(ss)
    BY RangeNone, RangeOne
  <2>2. SealEarlyData(ss).key = <<"early", ss.ck>> /\ SealEarlyData(ss).seq = 0
    BY SMTT(60) DEF SealEarlyData, Seal, EncryptionKey
  <2> HIDE DEF early, ss
  <2>3. \A s \in S : s = <<<<"early", ss.ck>>, 0>>
    BY <2>1, <2>2
  <2> HIDE DEF S
  <2> QED BY SMTT(60), <2>3
<1>5. HasKeys(ss, 1)
  BY NewKeys, HashKeeps DEF WriteMsg1
<1>6. e[2] = c
  BY SMTT(60)
<1>7. nw.pc = "psk" /\ nw.e = e /\ nw.ss = ss /\ nw.tx = 0
  BY NewFields DEF NewWorker, WorkerFields
<1>8. "t" \in DOMAIN f /\ "ticket" \in DOMAIN f /\ f.t = "MSG1_PSK" /\ f.ticket = slot[1]
  BY SMTT(60)
<1>9. slot[1] \in Held
  <2>1. AtMostOne(slot)
    BY DEF Good, LightInv
  <2>2. PICK t : slot = <<t>>
    BY <2>1 DEF AtMostOne
  <2>3. slot[1] = t
    BY SMTT(60), <2>2
  <2>4. t \in Range(slot)
    BY <2>2, RangeOne
  <2> QED BY <2>3, <2>4 DEF Held
<1> HIDE DEF nw, f, S, early, ss, e, n
<1>10. nw.pc \in {"cookie", "psk"} /\ nw.e[2] = c /\ Keyed(nw)
  BY <1>5, <1>6, <1>7 DEF Keyed
<1>11. w[c][x].pc \notin ClientPast
  BY DEF ClientPast
<1>12. f.t \in {"MSG1", "MSG1_PSK"} /\ f.ticket \in Held
  BY <1>8, <1>9
<1> QED BY <1>1, <1>3, <1>4, <1>7, <1>8, <1>10, <1>11, <1>12, BeginsGood

(* A frame that a worker reads is under way. *)
LEMMA FrameUnderway ==
  ASSUME ShapeInv, NEW c \in Conns, NEW x \in Sides, br[c][x].inbound # <<>>
  PROVE  Frame(c, x) \in Underway(c, Other(x))
<1>1. IsSeq(br[c][x].inbound) /\ Other(Other(x)) = x
  BY BridgeOf, OtherSide
<1>2. Head(br[c][x].inbound) \in Range(br[c][x].inbound)
  BY <1>1, RangeTail
<1> QED BY <1>1, <1>2 DEF Frame, Underway

LEMMA ClientMsg2Good ==
  ASSUME ShapeInv, Good, Noise \notin Nat, NEW c \in Conns, ClientMsg2(c)
  PROVE  Good'
<1> DEFINE x == "client"
           me == w[c][x]
           m == Frame(c, x)
           s == Msg3State(me.ss, me.e, m, me.e)
           out == WriteMsg3(s, m, me.e, pk)
           nw == [me EXCEPT !.pc = "ticket", !.ses = Msg3Session(s, pk), !.peer = m.box.text,
                            !.resumed = me.pc = "psk", !.early = EarlyAccepted(me, m)]
           N == {out}
<1>1. me.pc \in {"psk", "msg2"} /\ br[c][x].inbound # <<>> /\ Frame0 /\ x \in Sides /\ m.t = "MSG2"
  BY DEF ClientMsg2, Reads, Sides
<1> USE <1>1
<1>2. CASE Fails(c, x)
  BY <1>2, FailsGood
<1>3. CASE ~Fails(c, x)
  <2>0. HandInv /\ NonceInv /\ TicketInv /\ LightInv
    BY DEF Good
  <2> USE <2>0
  <2>1. Becomes(c, x, nw, Wrote(Took(c, x), out)) /\ hist' = Used(hist, {out.box}) /\ slot' = slot /\ srv' = srv
    BY <1>3 DEF ClientMsg2, ClientIs
  <2> USE <2>1
  <2>2. SetAt(w, w', c, x, nw) /\ Flow(c, x, N) /\ now' = now /\ net' = net
    BY WritesFlow
  <2> USE <2>2
  <2>3. HistSeals({<<out.box.key, out.box.seq>>}) /\ hist'.uses = hist.uses
    BY UsedOneSeals
  <2> USE <2>3
  <2>4. "t" \in DOMAIN out /\ out.t = "MSG3" /\ out.box.key = <<"static", s.ck>> /\ out.box.seq = 0
    <3> HIDE DEF s, m
    <3> QED BY SMTT(60) DEF WriteMsg3, Seal, EncryptionKey
  <2>5. /\ nw.pc = "ticket" /\ nw.ses = Msg3Session(s, pk) /\ nw.peer = m.box.text /\ nw.tx = me.tx
        /\ nw.resumed = (me.pc = "psk") /\ nw.early = (me.pc = "psk" /\ m.early)
    <3>1. DOMAIN me = WorkerFields
      BY BridgeOf
    <3> DEFINE a == Msg3Session(s, pk)
               b == m.box.text
               r == me.pc = "psk"
               ea == EarlyAccepted(me, m)
    <3>2. nw = [me EXCEPT !.pc = "ticket", !.ses = a, !.peer = b, !.resumed = r, !.early = ea]
      OBVIOUS
    <3> HIDE DEF nw, a, b, r, ea, me
    <3>3. nw.pc = "ticket" /\ nw.ses = a /\ nw.peer = b /\ nw.tx = me.tx /\ nw.resumed = r /\ nw.early = ea
      BY <3>1, <3>2 DEF WorkerFields
    <3> QED BY <3>3 DEF a, b, r, ea, EarlyAccepted
  <2> USE <2>5
  <2>6. nw.resumed \in BOOLEAN /\ (nw.resumed <=> me.pc = "psk") /\ (me.pc = "psk" /\ m.early \in BOOLEAN => nw.early = m.early)
    BY Flag
  <2>7. m \in Underway(c, "server")
    BY FrameUnderway DEF Other
  <2> HIDE DEF nw
  <2>8. HandInv' /\ Owned(c, "se", s.ck)
    <3> DEFINE sv == w[c]["server"]
               kl == w'[c]["client"]
               FC == Underway(c, "client")
               FS == Underway(c, "server")
               GC == Underway(c, "client")'
               GS == Underway(c, "server")'
               fl == hist.flipped
    <3>1. ViewOk(c, me, sv, FC, FS, fl)
      BY DEF HandInv
    <3>2. kl = nw /\ w'[c]["server"] = sv
      BY Ends DEF SetAt
    <3>3. \A f \in GS : f \in FS
      BY Ends DEF Flow
    <3>4. \A f \in GC : f \in FC \/ f = out
      BY DEF Flow
    <3>5. m \in FS /\ m.t = "MSG2" /\ me.pc \in {"psk", "msg2"}
      BY <2>7
    <3>6. s = Msg3State(me.ss, me.e, m, me.e) /\ out = WriteMsg3(s, m, me.e, pk)
      OBVIOUS
    <3> HIDE DEF me, sv, kl, FC, FS, GC, GS, fl, m, s, out
    <3>7. kl.pc = "ticket" /\ kl.ses = Msg3Session(s, pk) /\ kl.peer = m.box.text
          /\ kl.resumed \in BOOLEAN /\ (kl.resumed <=> me.pc = "psk") /\ (me.pc = "psk" /\ m.early \in BOOLEAN => kl.early = m.early)
      BY <2>6, <3>2
    <3>a. m \in FS /\ Answers(me, m, pk, s, out, kl)
      BY <3>5, <3>6, <3>7 DEF Answers
    <3>8. ViewOk(c, kl, sv, GC, GS, fl) /\ Owned(c, "se", s.ck)
      BY ONLY ZenonT(60), <3>1, <3>3, <3>4, <3>a, ViewAnswers
    <3>9. ViewOk(c, w'[c]["client"], w'[c]["server"], Underway(c, "client")', Underway(c, "server")', hist.flipped)
      BY <3>2, <3>8 DEF kl, GC, GS, fl
    <3> HIDE DEF N
    <3>10. HandInv'
      BY <3>9, HandOne DEF HistSeals
    <3> QED BY <3>8, <3>10
  <2> HIDE DEF s, out, me, m
  <2>9. me.pc \notin ClientPast /\ nw.pc \in ClientPast /\ me.tx \in Nat
    BY DEF ClientPast, me, LightInv
  <2> USE <2>9
  <2>10. NonceInv'
    <3>1. Going(x, w[c][x], nw)
      BY DEF Going, Ahead, me
    <3>2. Forward
      BY <3>1, ForwardAt
    <3> DEFINE n == <<out.box.key, out.box.seq>>
               ck == s.ck
    <3>3. n = <<<<"static", ck>>, 0>>
      BY <2>4
    <3>4. NonceIs(n, "static", ck, 0)
      BY <3>3 DEF NonceIs
    <3>5. Takes(c, "static", ck, 0)
      BY <2>8 DEF SetAt, Takes, me
    <3>6. Sealed({n}) /\ 0 \in Nat
      BY DEF HistSeals
    <3> HIDE DEF n, ck
    <3> QED BY <3>2, <3>4, <3>5, <3>6, NonceTaken
  <2>11. SrvKept /\ AtMostOne(slot') /\ DOMAIN srv' = SrvFields /\ srv'.lock \in Conns \cup {0}
    BY SrvSlot
  <2>12. \A g \in N : Light(g) /\ \A t : Carries(g, t) => t \in Held
    BY <2>4 DEF Light, Carries
  <2>13. nw.tx \in Nat
    OBVIOUS
  <2> HIDE DEF N
  <2>14. TicketInv'
    BY <2>11, <2>12, OldTickets
  <2>15. LightInv'
    BY <2>11, <2>12, <2>13, LightFlow
  <2> QED BY <2>8, <2>10, <2>14, <2>15 DEF Good
<1> QED BY <1>2, <1>3

LEMMA ClientTicketGood ==
  ASSUME ShapeInv, Good, Noise \notin Nat, NEW c \in Conns, ClientTicket(c)
  PROVE  Good'
<1> DEFINE x == "client"
           me == w[c][x]
           m == Frame(c, x)
           r == CheckAndMark(me.rx, m.box.seq)
           nw == [me EXCEPT !.pc = "loop", !.rx = r]
           nb == Took(c, x)
           N == {}
<1>1. me.pc = "ticket" /\ br[c][x].inbound # <<>> /\ Frame0 /\ x \in Sides /\ m.t = "DATA"
  BY DEF ClientTicket, Reads, Sides
<1> USE <1>1
<1>2. CASE Fails(c, x)
  BY <1>2, FailsGood
<1>3. CASE ~Fails(c, x)
  <2>0. HandInv /\ NonceInv /\ TicketInv /\ LightInv
    BY DEF Good
  <2> USE <2>0
  <2>1. Becomes(c, x, nw, nb) /\ UNCHANGED hist /\ slot' = m.box.text.ticket /\ srv' = srv
    BY <1>3 DEF ClientTicket, ClientIs
  <2> USE <2>1
  <2>2. SetAt(w, w', c, x, nw) /\ SetAt(br, br', c, x, nb)
    BY WorkerSets
  <2> USE <2>2
  <2>3. nb.inbound = Tail(br[c][x].inbound) /\ nb.wire = br[c][x].wire /\ net' = net /\ now' = now
    BY TookFields DEF Frame0
  <2>4. Same(me, nw) /\ nw.pc = "loop" /\ nw.tx = me.tx
    BY BridgeOf DEF WorkerFields, Same
  <2> USE <2>4
  <2>5. m \in Underway(c, "server")
    BY FrameUnderway DEF Other
  <2> USE <2>5
  <2> HIDE DEF N, nw, nb
  <2>6. Flow(c, x, N)
    BY <2>3, WorkerFlow
  <2> USE <2>6
  <2>7. HandInv'
    <3> DEFINE sv == w[c]["server"]
               kl == w'[c]["client"]
               FC == Underway(c, "client")
               FS == Underway(c, "server")
               GC == Underway(c, "client")'
               GS == Underway(c, "server")'
               fl == hist.flipped
    <3>1. ViewOk(c, me, sv, FC, FS, fl)
      BY DEF HandInv
    <3>2. kl = nw /\ w'[c]["server"] = sv
      BY Ends DEF SetAt
    <3>3. GS \subseteq FS /\ GC \subseteq FC
      BY Ends DEF Flow, N
    <3>4. m \in FS /\ m.t = "DATA" /\ me.pc = "ticket" /\ kl.pc = "loop" /\ Same(me, kl)
      BY <3>2
    <3> HIDE DEF me, sv, kl, FC, FS, GC, GS, fl, m
    <3>5. ViewOk(c, kl, sv, GC, GS, fl)
      BY ONLY ZenonT(60), <3>1, <3>3, <3>4, ViewPushed
    <3>6. ViewOk(c, w'[c]["client"], w'[c]["server"], Underway(c, "client")', Underway(c, "server")', hist.flipped)
      BY <3>2, <3>5 DEF kl, GC, GS, fl
    <3> QED BY <3>6, HandOne
  <2>8. me.tx \in Nat /\ Light(m)
    BY Ends DEF LightInv
  <2> USE <2>8
  <2>9. NonceInv'
    <3>1. Going(x, w[c][x], nw)
      BY DEF Going, Ahead, ClientPast
    <3>2. Forward
      BY <3>1, ForwardAt
    <3>3. Sealed(N) /\ \A n \in N : FALSE
      BY DEF Sealed, N
    <3> QED BY <3>2, <3>3, NonceStep
  <2>10. SrvKept /\ AtMostOne(slot') /\ DOMAIN srv' = SrvFields /\ srv'.lock \in Conns \cup {0}
    BY SrvSame DEF Light, SrvKept
  <2>11. TicketInv'
    BY Ends, HeldIs, HeldNext, <2>3, <2>10, TicketFlow DEF Holds, Carries, Flow, N
  <2>12. LightInv'
    <3>1. nw.tx \in Nat /\ \A f \in N : Light(f)
      BY DEF N
    <3> QED BY <2>10, <3>1, LightFlow
  <2> QED BY <2>7, <2>9, <2>11, <2>12 DEF Good
<1> QED BY <1>2, <1>3

(* The server writes message 2. *)
Offers(c) ==
  \E nw, N : /\ SetAt(w, w', c, "server", nw) /\ nw.tx \in Nat /\ Flow(c, "server", N)
             /\ \A f \in N : Light(f) /\ \A t : ~Carries(f, t)
LEMMA SendMsg2Good ==
  ASSUME ShapeInv, Good, NEW c \in Conns, NEW me, DOMAIN me = WorkerFields, me.tx = w[c]["server"].tx,
         w[c]["server"].pc \in Opening, me.early \in BOOLEAN,
         NEW ss, HasKeys(ss, IF me.ticket = <<>> THEN 0 ELSE 1), NEW e, e[2] = c, NEW peer, NEW flag, flag = me.early,
         SendMsg2(c, me, ss, e, peer, flag), br[c]["server"].inbound # <<>>, Frame0
  PROVE  /\ HandInv' /\ NonceInv' /\ Offers(c)
         /\ hist'.uses = IF me.ticket = <<>> THEN hist.uses
                         ELSE Append(hist.uses, [id |-> me.ticket[1].id, exp |-> me.ticket[1].exp, at |-> now])
<1> DEFINE x == "server"
           s == Msg2State(ss, peer, e, <<"ee", e>>)
           m == WriteMsg2(s, peer, e, <<"ee", e>>, ServerPk, flag)
           a == AfterMsg2(s, ServerPk)
           nw == [me EXCEPT !.pc = "msg3", !.e = e, !.ss = a]
           us == IF me.ticket = <<>> THEN hist.uses
                 ELSE Append(hist.uses, [id |-> me.ticket[1].id, exp |-> me.ticket[1].exp, at |-> now])
           N == {m}
<1>0. HandInv /\ NonceInv /\ LightInv /\ x \in Sides
  BY DEF Good, Sides
<1> USE <1>0
<1>1. Becomes(c, x, nw, Wrote(Took(c, x), m))
  BY DEF SendMsg2, Reply
<1>2. HistSeals({<<m.box.key, m.box.seq>>}) /\ hist'.uses = us
  <2> DEFINE B == {m.box}
             k == Used(hist, B)
             S == {<<b.key, b.seq>> : b \in B}
  <2>1. hist' = [k EXCEPT !.uses = IF me.ticket = <<>> THEN k.uses
                                   ELSE Append(k.uses, [id |-> me.ticket[1].id, exp |-> me.ticket[1].exp, at |-> now])]
    BY DEF SendMsg2
  <2>2. /\ DOMAIN k = HistFields /\ k.nonces = hist.nonces \cup S /\ k.reused = hist.reused \cup (S \cap hist.nonces)
        /\ k.flipped = hist.flipped /\ k.uses = hist.uses
    BY UsedFields
  <2> USE <2>2
  <2>3. hist' = [k EXCEPT !.uses = us]
    BY <2>1
  <2>4. S = {<<m.box.key, m.box.seq>>}
    OBVIOUS
  <2> HIDE DEF k, us, S
  <2>5. hist'.nonces = k.nonces /\ hist'.reused = k.reused /\ hist'.flipped = k.flipped /\ hist'.uses = us
    BY <2>3 DEF HistFields
  <2>6. HistSeals(S)
    BY <2>5 DEF HistSeals, Sealed
  <2> QED BY <2>4, <2>5, <2>6
<1> USE <1>2
<1>3. SetAt(w, w', c, x, nw) /\ Flow(c, x, N)
  BY <1>1, WritesFlow
<1> USE <1>3
<1>4. "t" \in DOMAIN m /\ m.t = "MSG2" /\ m.box.key = <<"static", s.ck>> /\ m.box.seq = 0
  <2> HIDE DEF s
  <2> QED BY SMTT(60) DEF WriteMsg2, Seal, EncryptionKey
<1>5. nw.pc = "msg3" /\ nw.ss = a /\ nw.tx = me.tx /\ nw.ticket = me.ticket /\ nw.early = me.early
  <2> HIDE DEF a
  <2> QED BY DEF WorkerFields
<1> USE <1>5
<1>6. HasKeys(a, IF me.ticket = <<>> THEN 1 ELSE 2) /\ Owned(c, "ee", s.ck)
  <2> DEFINE n == IF me.ticket = <<>> THEN 0 ELSE 1
  <2>1. HasKeys(ss, n)
    OBVIOUS
  <2>2. n + 1 = IF me.ticket = <<>> THEN 1 ELSE 2
    BY SMTT(60)
  <2> HIDE DEF n
  <2>3. HasKeys(a, n + 1) /\ Owned(c, "ee", s.ck)
    BY <2>1, Msg2Keys
  <2> QED BY <2>2, <2>3
<1> HIDE DEF nw, a
<1>7. HandInv'
  <2> DEFINE cl == w[c]["client"]
             sv == w[c]["server"]
             kv == w'[c]["server"]
             FC == Underway(c, "client")
             FS == Underway(c, "server")
             GC == Underway(c, "client")'
             GS == Underway(c, "server")'
             fl == hist.flipped
  <2>1. ViewOk(c, cl, sv, FC, FS, fl)
    BY DEF HandInv
  <2>2. kv = nw /\ w'[c]["client"] = cl
    BY Ends DEF SetAt
  <2> USE <2>2
  <2>3. GC \subseteq FC
    BY Ends DEF Flow
  <2>4. \A g \in GS : g \in FS \/ g = m
    BY DEF Flow
  <2>5. m = WriteMsg2(s, peer, e, <<"ee", e>>, RelayPk, kv.early)
    BY DEF RelayPk, ServerPk
  <2>6. sv.pc \in Opening /\ kv.pc = "msg3" /\ HasKeys(kv.ss, IF kv.ticket = <<>> THEN 1 ELSE 2) /\ kv.early \in BOOLEAN
    BY <1>6
  <2> HIDE DEF cl, sv, kv, FC, FS, GC, GS, fl, m, s
  <2>7. ViewOk(c, cl, kv, GC, GS, fl)
    BY ONLY ZenonT(60), <2>1, <2>3, <2>4, <2>5, <2>6, ViewOffers
  <2>8. ViewOk(c, w'[c]["client"], w'[c]["server"], Underway(c, "client")', Underway(c, "server")', hist.flipped)
    BY <2>7 DEF kv, GC, GS, fl
  <2> HIDE DEF N
  <2> QED BY <2>8, HandOne DEF HistSeals
<1> HIDE DEF s, m
<1>8. NonceInv'
  <2>1. Going(x, w[c][x], nw)
    BY DEF Going, Ahead, Opening, ServerPast, Answered
  <2>2. Forward
    BY <2>1, ForwardAt
  <2> DEFINE n == <<m.box.key, m.box.seq>>
             ck == s.ck
  <2>3. n = <<<<"static", ck>>, 0>>
    BY <1>4
  <2>4. NonceIs(n, "static", ck, 0)
    BY <2>3 DEF NonceIs
  <2>5. Takes(c, "static", ck, 0)
    BY <1>6 DEF SetAt, Opening, Answered, Takes
  <2>6. Sealed({n}) /\ 0 \in Nat
    BY DEF HistSeals
  <2> HIDE DEF n, ck
  <2> QED BY <2>2, <2>4, <2>5, <2>6, NonceTaken
<1>9. Offers(c)
  <2>1. nw.tx \in Nat
    BY DEF LightInv
  <2>2. \A f \in N : Light(f) /\ \A t : ~Carries(f, t)
    BY <1>4 DEF Light, Carries
  <2> HIDE DEF N
  <2> QED BY <2>1, <2>2 DEF Offers
<1> QED BY <1>7, <1>8, <1>9

LEMMA OffersFlow ==
  ASSUME LightInv, NEW c \in Conns, Offers(c), slot' = slot, DOMAIN srv' = SrvFields, srv'.lock \in Conns \cup {0}
  PROVE  LightInv' /\ \A t \in Held' : t \in Held
<1>1. PICK nw, N : /\ SetAt(w, w', c, "server", nw) /\ nw.tx \in Nat /\ Flow(c, "server", N)
                   /\ \A f \in N : Light(f) /\ \A t : ~Carries(f, t)
  BY DEF Offers
<1>2. "server" \in Sides /\ AtMostOne(slot')
  BY DEF Sides, LightInv
<1>3. LightInv'
  BY <1>1, <1>2, LightFlow
<1>4. \A t \in Held' : t \in Held
  BY <1>1, HeldFlow
<1> QED BY <1>3, <1>4

LEMMA ServerTicketless ==
  ASSUME HandInv, NEW c \in Conns, w[c]["server"].pc \in Opening
  PROVE  w[c]["server"].ticket = <<>> /\ w[c]["server"].early = FALSE
<1>1. ViewOk(c, w[c]["client"], w[c]["server"], Underway(c, "client"), Underway(c, "server"), hist.flipped)
  BY DEF HandInv
<1>2. ServerOk(c, w[c]["client"], w[c]["server"])
  BY <1>1 DEF ViewOk
<1> QED BY <1>2 DEF ServerOk

LEMMA ServerRetryGood ==
  ASSUME ShapeInv, Good, Noise \notin Nat, NEW c \in Conns, ServerRetry(c)
  PROVE  Good'
<1> DEFINE x == "server"
           me == w[c][x]
           e == <<"r", c, "full">>
           ss == ReadMsg1(NewState, me.peerE)
<1>0. HandInv /\ NonceInv /\ TicketInv /\ LightInv /\ x \in Sides
  BY DEF Good, Sides
<1> USE <1>0
<1>1. me.pc = "retry" /\ br[c][x].inbound # <<>> /\ Frame0
  BY DEF ServerRetry, Reads
<1> USE <1>1
<1>2. CASE Fails(c, x)
  BY <1>2, FailsGood
<1>3. CASE ~Fails(c, x)
  <2>1. SendMsg2(c, me, ss, e, me.peerE, FALSE) /\ srv' = srv /\ slot' = slot
    BY <1>3 DEF ServerRetry, Server
  <2> USE <2>1
  <2>2. me.pc \in Opening /\ DOMAIN me = WorkerFields
    BY BridgeOf DEF Opening
  <2>3. me.ticket = <<>> /\ me.early = FALSE
    BY <2>2, ServerTicketless
  <2> USE <2>3
  <2>4. HasKeys(ss, IF me.ticket = <<>> THEN 0 ELSE 1)
    BY NewKeys, HashKeeps DEF ReadMsg1
  <2>5. e[2] = c
    BY SMTT(60)
  <2> DEFINE p == me.peerE
             fa == FALSE
             us == IF me.ticket = <<>> THEN hist.uses
                   ELSE Append(hist.uses, [id |-> me.ticket[1].id, exp |-> me.ticket[1].exp, at |-> now])
  <2>6. SendMsg2(c, me, ss, e, p, fa) /\ fa = me.early /\ me.early \in BOOLEAN /\ me.tx = w[c]["server"].tx
    OBVIOUS
  <2> HIDE DEF ss, e, p, fa
  <2>7. HandInv' /\ NonceInv' /\ Offers(c) /\ hist'.uses = us
    BY <2>2, <2>4, <2>5, <2>6, SendMsg2Good
  <2> USE <2>7
  <2>8. hist'.uses = hist.uses
    OBVIOUS
  <2>9. SrvKept /\ now' = now
    BY SrvSame DEF Frame0
  <2>10. LightInv' /\ \A t \in Held' : t \in Held
    BY <2>9, OffersFlow DEF SrvKept
  <2>11. \A t \in Held' : t \in Held \/ \E u \in Held : Copies(t, u)
    BY <2>10
  <2>12. TicketInv'
    BY <2>8, <2>9, <2>11, TicketFlow
  <2> QED BY <2>10, <2>12 DEF Good
<1> QED BY <1>2, <1>3

(* The cache of the tickets changes. *)
LEMMA CacheFields ==
  ASSUME LightInv, NEW k, srv' = [srv EXCEPT !.cache = k]
  PROVE  DOMAIN srv' = SrvFields /\ srv'.lock \in Conns \cup {0} /\ srv'.issued = srv.issued /\ srv'.epoch = srv.epoch /\ srv'.cache = k
<1>1. DOMAIN srv = SrvFields /\ srv.lock \in Conns \cup {0}
  BY DEF LightInv
<1> QED BY <1>1 DEF SrvFields
LEMMA CacheTickets ==
  ASSUME Noise \notin Nat, \A t \in Held' : t \in Held, NEW us, hist'.uses = us, NEW k,
         srv'.issued = srv.issued, srv'.epoch = srv.epoch, srv'.cache = k,
         now' = now, TicketsOk(Held, us, srv.issued, srv.epoch, now, k)
  PROVE  TicketInv'
<1> DEFINE T == Held
           U == Held'
           is == srv.issued
           ep == srv.epoch
           nw == now
<1>1. TicketsOk(T, us, is, ep, nw, k)
  OBVIOUS
<1>2. \A d \in U : d \in T \/ \E t \in T : Copies(d, t)
  OBVIOUS
<1> HIDE DEF T, U, is, ep, nw
<1>3. TicketsOk(U, us, is, ep, nw, k)
  BY ONLY ZenonT(60), Noise \notin Nat, <1>1, <1>2, TicketsKept
<1> QED BY <1>3 DEF TicketInv, U, is, ep, nw

LEMMA ServerPskGood ==
  ASSUME ShapeInv, Good, Noise \notin Nat, NEW c \in Conns, ServerPsk(c)
  PROVE  Good'
<1> DEFINE x == "server"
           v == w[c][x]
           m == Frame(c, x)
           tk == m.ticket
           T == Held
           uses == hist.uses
           is == srv.issued
           ep == srv.epoch
           ca == srv.cache
           rec == Recorded(ca, tk.id, tk.exp, now)
           pur == Purged(ca, now)
<1>0. HandInv /\ NonceInv /\ TicketInv /\ LightInv /\ x \in Sides
  BY DEF Good, Sides
<1> USE <1>0
<1>1. v.pc = "first" /\ br[c][x].inbound # <<>> /\ Frame0 /\ m.t = "MSG1_PSK" /\ slot' = slot /\ now' = now
  BY DEF ServerPsk, Reads, Frame0
<1> USE <1>1
<1>2. v.pc \in Opening /\ DOMAIN v = WorkerFields
  BY BridgeOf DEF Opening
<1>3. tk \in T
  BY FrameUnderway, Ends, HeldIs DEF Other, Carries, Holds
<1>4. TicketsOk(T, uses, is, ep, now, ca)
  BY DEF TicketInv
<1>5. CASE Fresh(c) /\ EarlyDataOpens(c)
  <2> DEFINE me == [v EXCEPT !.ticket = <<tk>>, !.early = m.early # <<>>]
             e == <<"r", c, "psk">>
             ss == ReadMsg1(NewWithPsk(tk.id), m.e)
             p == m.e
             flag == m.early # <<>>
             u == [id |-> tk.id, exp |-> tk.exp, at |-> now]
  <2>1. SendMsg2(c, me, ss, e, p, flag) /\ srv' = [srv EXCEPT !.cache = rec]
    BY <1>5 DEF ServerPsk, Server, ResumeState
  <2>2. DOMAIN me = WorkerFields /\ me.tx = v.tx /\ me.ticket = <<tk>> /\ me.early = flag
    BY <1>2 DEF WorkerFields, flag
  <2> USE <2>2
  <2>3. me.ticket # <<>> /\ me.ticket[1] = tk
    <3> HIDE DEF me, tk
    <3> QED BY SMTT(60)
  <2>4. HasKeys(ss, 1)
    BY NewKeys, HashKeeps DEF ReadMsg1
  <2>5. e[2] = c
    BY SMTT(60)
  <2>6. flag \in BOOLEAN
    BY FlagOf
  <2>7. TicketOpens(ep, tk, now) /\ ~IsReplay(ca, tk.id, now)
    BY <1>5 DEF Fresh, Resumable
  <2> HIDE DEF me, e, ss, p, flag
  <2>8. HasKeys(ss, IF me.ticket = <<>> THEN 0 ELSE 1) /\ me.early \in BOOLEAN /\ flag = me.early
    BY <2>3, <2>4, <2>6
  <2>9. /\ HandInv' /\ NonceInv' /\ Offers(c)
        /\ hist'.uses = IF me.ticket = <<>> THEN hist.uses
                        ELSE Append(hist.uses, [id |-> me.ticket[1].id, exp |-> me.ticket[1].exp, at |-> now])
    BY <1>2, <2>1, <2>5, <2>8, SendMsg2Good
  <2> USE <2>9
  <2>10. hist'.uses = Append(uses, u)
    BY <2>3
  <2> HIDE DEF rec, tk
  <2>11. DOMAIN srv' = SrvFields /\ srv'.lock \in Conns \cup {0} /\ srv'.issued = srv.issued /\ srv'.epoch = srv.epoch /\ srv'.cache = rec
    BY <2>1, CacheFields
  <2>12. LightInv' /\ \A t \in Held' : t \in Held
    BY <2>11, OffersFlow
  <2>13. u = [id |-> tk.id, exp |-> tk.exp, at |-> now]
    OBVIOUS
  <2> HIDE DEF T, uses, is, ep, ca, u
  <2>14. TicketsOk(T, Append(uses, u), is, ep, now, Recorded(ca, tk.id, tk.exp, now))
    BY ONLY ZenonT(60), <1>3, <1>4, <2>7, <2>13, TicketsUsed
  <2> DEFINE us == Append(uses, u)
  <2>15. TicketsOk(Held, us, srv.issued, srv.epoch, now, rec) /\ hist'.uses = us
    BY <2>10, <2>14 DEF T, is, ep, rec
  <2> HIDE DEF us
  <2>16. TicketInv'
    BY <2>11, <2>12, <2>15, CacheTickets
  <2> QED BY <2>12, <2>16 DEF Good
<1>6. CASE ~(Fresh(c) /\ EarlyDataOpens(c))
  <2> DEFINE nw == [v EXCEPT !.pc = "msg1"]
             f == [t |-> "PSK_REJECT"]
             N == {f}
  <2>1. Becomes(c, x, nw, Wrote(Took(c, x), f)) /\ UNCHANGED hist
    BY <1>6 DEF ServerPsk, Reply, Server
  <2> USE <2>1
  <2>2. SetAt(w, w', c, x, nw) /\ Flow(c, x, N)
    BY WritesFlow
  <2>3. Same(v, nw) /\ nw.pc = "msg1" /\ nw.tx = v.tx
    BY BridgeOf DEF WorkerFields, Same
  <2>4. Plain(f)
    BY SMTT(60) DEF Plain
  <2>5. Calm(x, v, nw)
    BY <2>3 DEF Calm, ServerCalm, ServerPast, Answered, Opening, Looping
  <2>6. HistQuiet
    BY HistStill
  <2>7. \E k : /\ DOMAIN srv' = SrvFields /\ srv'.lock \in Conns \cup {0}
               /\ srv'.issued = srv.issued /\ srv'.epoch = srv.epoch /\ srv'.cache = k
               /\ TicketsOk(T, uses, is, ep, now, k)
    <3>1. srv' = [srv EXCEPT !.cache = rec] \/ srv' = [srv EXCEPT !.cache = pur] \/ srv' = srv
      BY DEF ServerPsk
    <3>2. CASE srv' = srv
      BY <3>2, SrvSame, <1>4 DEF SrvKept
    <3> HIDE DEF T, uses, is, ep
    <3>3. TicketsOk(T, uses, is, ep, now, pur)
      <4> HIDE DEF ca
      <4> QED BY ONLY ZenonT(60), <1>4, TicketsPurged DEF pur
    <3>4. TicketsOk(T, uses, is, ep, now, rec)
      <4> HIDE DEF ca, tk
      <4> QED BY ONLY ZenonT(60), <1>3, <1>4, TicketsSeen DEF rec
    <3> HIDE DEF pur, rec
    <3>5. CASE srv' = [srv EXCEPT !.cache = pur]
      BY <3>3, <3>5, CacheFields
    <3>6. CASE srv' = [srv EXCEPT !.cache = rec]
      BY <3>4, <3>6, CacheFields
    <3> QED BY <3>1, <3>2, <3>5, <3>6
  <2>8. PICK k : /\ DOMAIN srv' = SrvFields /\ srv'.lock \in Conns \cup {0}
                 /\ srv'.issued = srv.issued /\ srv'.epoch = srv.epoch /\ srv'.cache = k
                 /\ TicketsOk(T, uses, is, ep, now, k)
    BY <2>7
  <2>9. \A g \in N : Plain(g)
    BY <2>4
  <2> HIDE DEF N, nw
  <2>10. HandInv' /\ NonceInv' /\ LightInv' /\ \A t \in Held' : t \in Held
    BY <2>2, <2>3, <2>5, <2>6, <2>8, <2>9, CalmRest
  <2>11. hist'.uses = uses
    OBVIOUS
  <2> HIDE DEF uses
  <2>12. TicketInv'
    BY <2>8, <2>10, <2>11, CacheTickets
  <2> QED BY <2>10, <2>12 DEF Good
<1> QED BY <1>5, <1>6

(* read_msg3_with_auth and the first push. *)
LEMMA ServerMsg3Good ==
  ASSUME ShapeInv, Good, Noise \notin Nat, \A a, b : Noise # <<a, b>>, NEW c \in Conns, ServerMsg3(c)
  PROVE  Good'
<1> DEFINE x == "server"
           me == w[c][x]
           m == Frame(c, x)
           client == m.box.text.pk
           ses == AfterMsg3(me.ss, me.e, ServerPk, m)
           ticket == Ticket(srv.epoch, srv.issued + 1, client, now)
           box == Seal(ses.r2i, 0, ses.id, [ticket |-> <<ticket>>, msg |-> 0])
           f == [t |-> "DATA", box |-> box]
           res == me.ticket # <<>>
           nw == [me EXCEPT !.pc = "loop", !.ses = ses, !.peer = client, !.resumed = res, !.tx = AfterPush]
           N == {f}
<1>0. HandInv /\ NonceInv /\ TicketInv /\ LightInv /\ x \in Sides
  BY DEF Good, Sides
<1> USE <1>0
<1>1. me.pc = "msg3" /\ br[c][x].inbound # <<>> /\ Frame0 /\ m.t = "MSG3"
  BY DEF ServerMsg3, Reads
<1> USE <1>1
<1>2. CASE Fails(c, x)
  BY <1>2, FailsGood
<1>3. CASE ~Fails(c, x)
  <2>1. /\ Becomes(c, x, nw, Wrote(Took(c, x), f)) /\ srv' = [srv EXCEPT !.issued = @ + 1, !.lock = 0]
        /\ hist' = Used(hist, {box}) /\ slot' = slot /\ Msg3Opens(me.ss, me.e, ServerPk, m) /\ IsOwner(me, client)
    BY <1>3 DEF ServerMsg3, Server, Reply
  <2> USE <2>1
  <2>2. SetAt(w, w', c, x, nw) /\ Flow(c, x, N) /\ now' = now
    BY WritesFlow
  <2> USE <2>2
  <2>3. HistSeals({<<box.key, box.seq>>}) /\ hist'.uses = hist.uses
    BY UsedOneSeals
  <2> USE <2>3
  <2>4. /\ nw.pc = "loop" /\ nw.ses = ses /\ nw.peer = client /\ nw.resumed = res /\ nw.tx = AfterPush
        /\ nw.ticket = me.ticket /\ nw.early = me.early
    BY BridgeOf DEF WorkerFields
  <2> USE <2>4
  <2>5. nw.resumed \in BOOLEAN /\ (nw.resumed <=> me.ticket # <<>>)
    BY FlagOf
  <2>6. m \in Underway(c, "client")
    BY FrameUnderway DEF Other
  <2>7. /\ Light(f) /\ "t" \in DOMAIN f /\ f.t = "DATA" /\ box.key = ses.r2i /\ box.seq = 0
        /\ \A t : Carries(f, t) => t = ticket
    <3> DEFINE tk == <<ticket>>
               k == ses.r2i
               a == ses.id
    <3>1. AtMostOne(tk) /\ Range(tk) = {ticket}
      BY RangeOne DEF AtMostOne
    <3>2. box = Seal(k, 0, a, [ticket |-> tk, msg |-> 0])
      OBVIOUS
    <3> HIDE DEF tk, k, a, box, ticket
    <3>3. LET b == Seal(k, 0, a, [ticket |-> tk, msg |-> 0])
              g == [t |-> "DATA", box |-> b]
          IN  Light(g) /\ "t" \in DOMAIN g /\ g.t = "DATA" /\ b.key = k /\ b.seq = 0 /\ \A t : Carries(g, t) => t \in Range(tk)
      BY <3>1, DataLight
    <3>4. Light(f) /\ "t" \in DOMAIN f /\ f.t = "DATA" /\ box.key = k /\ box.seq = 0 /\ \A t : Carries(f, t) => t \in Range(tk)
      BY <3>2, <3>3
    <3> QED BY <3>1, <3>4 DEF k
  <2> USE <2>7
  <2> HIDE DEF nw, f, box
  <2>8. HandInv' /\ Served(c, w[c]["client"], nw)
    <3> DEFINE cl == w[c]["client"]
               kv == w'[c]["server"]
               FC == Underway(c, "client")
               FS == Underway(c, "server")
               GC == Underway(c, "client")'
               GS == Underway(c, "server")'
               fl == hist.flipped
    <3>1. ViewOk(c, cl, me, FC, FS, fl)
      BY DEF HandInv
    <3>2. kv = nw /\ w'[c]["client"] = cl
      BY Ends DEF SetAt
    <3> USE <3>2
    <3>3. GC \subseteq FC
      BY Ends DEF Flow
    <3>4. \A g \in GS : g \in FS \/ ("t" \in DOMAIN g /\ g.t = "DATA")
      BY DEF Flow
    <3>5. m \in FC /\ m.t = "MSG3" /\ me.pc = "msg3" /\ (me.ticket = <<>> \/ me.ticket[1].fp = m.box.text.pk)
      BY <2>6 DEF IsOwner
    <3>6. Msg3Opens(me.ss, me.e, RelayPk, m) /\ ses = AfterMsg3(me.ss, me.e, RelayPk, m)
      BY DEF RelayPk, ServerPk
    <3> HIDE DEF me, cl, kv, FC, FS, GC, GS, fl, ses
    <3>7. /\ kv.pc = "loop" /\ kv.ses = AfterMsg3(me.ss, me.e, RelayPk, m) /\ kv.peer = m.box.text.pk /\ kv.resumed \in BOOLEAN
          /\ (kv.resumed <=> me.ticket # <<>>) /\ kv.ticket = me.ticket /\ kv.early = me.early
      BY <2>5, <3>6
    <3> HIDE DEF m
    <3>8. ViewOk(c, cl, kv, GC, GS, fl) /\ Served(c, cl, kv)
      BY ONLY ZenonT(60), \A a, b : Noise # <<a, b>>, <3>1, <3>3, <3>4, <3>5, <3>6, <3>7, ViewAccepts
    <3>9. ViewOk(c, w'[c]["client"], w'[c]["server"], Underway(c, "client")', Underway(c, "server")', hist.flipped)
      BY <3>8 DEF kv, GC, GS, fl
    <3> HIDE DEF N
    <3>10. HandInv'
      BY <3>9, HandOne DEF HistSeals
    <3> QED BY <3>8, <3>10 DEF cl
  <2>9. NonceInv'
    <3>1. Going(x, w[c][x], nw)
      BY DEF Going, Ahead, ServerPast, Answered
    <3>2. Forward
      BY <3>1, ForwardAt
    <3>3. PICK ck : Owned(c, "se", ck) /\ nw.ses.r2i = <<"r2i", ck>>
      <4> DEFINE cl == w[c]["client"]
      <4>1. Written(c, cl) /\ nw.ses = cl.ses
        BY <2>8 DEF Served
      <4> HIDE DEF cl
      <4>2. \E ck : Owned(c, "se", ck) /\ cl.ses.i2r = <<"i2r", ck>> /\ cl.ses.r2i = <<"r2i", ck>>
        BY ONLY ZenonT(60), <4>1, WrittenKeys
      <4> QED BY <4>1, <4>2
    <3> DEFINE n == <<box.key, box.seq>>
    <3>4. NonceIs(n, "r2i", ck, 0)
      BY <3>3 DEF NonceIs
    <3>5. Takes(c, "r2i", ck, 0)
      <4>1. w'[c]["server"] = nw /\ w[c]["server"].pc \notin ServerPast /\ nw.pc \in ServerPast
        BY DEF SetAt, ServerPast
      <4>2. 0 < nw.tx
        BY SMTT(60) DEF AfterPush
      <4> QED BY <3>3, <4>1, <4>2 DEF Takes
    <3>6. Sealed({n}) /\ 0 \in Nat
      BY DEF HistSeals
    <3> HIDE DEF n
    <3> QED BY <3>2, <3>4, <3>5, <3>6, NonceTaken
  <2>10. /\ DOMAIN srv' = SrvFields /\ srv'.lock \in Conns \cup {0}
         /\ srv'.issued = srv.issued + 1 /\ srv'.epoch = srv.epoch /\ srv'.cache = srv.cache
    BY DEF LightInv, SrvFields
  <2>11. TicketInv'
    <3> DEFINE T == Held
               U == Held'
               us == hist.uses
               is == srv.issued
               ep == srv.epoch
               ca == srv.cache
               k == now
               tk == ticket
               V == T \cup {tk}
    <3>1. TicketsOk(T, us, is, ep, k, ca)
      BY DEF TicketInv
    <3>2. tk.id = is + 1 /\ tk.exp \in Nat /\ tk.key = ep /\ DOMAIN tk = {"key", "id", "fp", "exp"}
      <4>1. now \in Nat /\ TicketTtl \in Nat
        BY <3>1, GmPqConstants DEF TicketsOk
      <4> HIDE DEF client
      <4> QED BY SMTT(60), <4>1 DEF Ticket
    <3>3. \A t \in Held' : t \in Held \/ \E g \in N : Carries(g, t)
      <4> HIDE DEF N
      <4> QED BY HeldFlow
    <3>a. \A t \in Held' : t \in Held \/ t = tk
      BY <3>3
    <3>4. \A d \in U : d \in V \/ \E t \in V : Copies(d, t)
      BY <3>a
    <3> HIDE DEF T, U, us, is, ep, ca, k, tk
    <3>5. TicketsOk(V, us, is + 1, ep, k, ca)
      BY ONLY ZenonT(60), <3>1, <3>2, TicketsIssued DEF V
    <3> DEFINE i1 == is + 1
    <3>6. TicketsOk(V, us, i1, ep, k, ca)
      BY <3>5
    <3> HIDE DEF V, i1
    <3>7. TicketsOk(U, us, i1, ep, k, ca)
      BY ONLY ZenonT(60), Noise \notin Nat, <3>4, <3>6, TicketsKept
    <3> QED BY <2>10, <3>7 DEF TicketInv, U, us, i1, is, ep, k, ca
  <2>12. LightInv'
    <3>1. nw.tx \in Nat
      BY SMTT(60) DEF AfterPush
    <3>2. AtMostOne(slot') /\ \A g \in N : Light(g)
      BY DEF LightInv
    <3> HIDE DEF N
    <3> QED BY <2>10, <3>1, <3>2, LightFlow
  <2> QED BY <2>8, <2>9, <2>11, <2>12 DEF Good
<1> QED BY <1>2, <1>3

(* The loop sends a message. *)
LEMMA LoopSendGood ==
  ASSUME ShapeInv, Good, Noise \notin Nat, NEW c \in Conns, NEW x \in Sides, LoopSend(c, x)
  PROVE  Good'
<1> DEFINE v == w[c][x]
           b == br[c][x]
           key == TxKey(c, x)
           box == Seal(key, v.tx, v.ses.id, [ticket |-> <<>>, msg |-> Head(b.outbox)])
           f == [t |-> "DATA", box |-> box]
           nw == [v EXCEPT !.tx = @ + 1]
           nb == Wrote([b EXCEPT !.outbox = Tail(@)], f)
           N == {f}
<1>0. HandInv /\ NonceInv /\ TicketInv /\ LightInv
  BY DEF Good
<1> USE <1>0
<1>1. v.pc = "loop" /\ Becomes(c, x, nw, nb) /\ hist' = Used(hist, {box}) /\ srv' = srv /\ slot' = slot /\ Frame0
  BY DEF LoopSend, Loops
<1>2. nb.inbound = b.inbound /\ nb.wire = Append(b.wire, f)
  <2> DEFINE q == Tail(b.outbox)
             k == [b EXCEPT !.outbox = q]
  <2>1. DOMAIN b = BridgeFields /\ nb = Wrote(k, f)
    BY BridgeOf
  <2> HIDE DEF nb, f, b, q
  <2>2. DOMAIN k = BridgeFields /\ k.inbound = b.inbound /\ k.wire = b.wire
    BY <2>1 DEF BridgeFields
  <2> HIDE DEF k
  <2> QED BY <2>1, <2>2, WroteFields
<1>3. SetAt(w, w', c, x, nw) /\ Flow(c, x, N) /\ now' = now
  BY <1>2, <1>1, FieldsFlow DEF Reads1
<1> USE <1>3
<1>4. HistSeals({<<box.key, box.seq>>}) /\ hist'.uses = hist.uses
  BY <1>1, UsedOneSeals
<1> USE <1>4
<1>5. Same(v, nw) /\ nw.pc = v.pc /\ nw.tx = v.tx + 1 /\ v.tx \in Nat
  BY BridgeOf DEF LightInv, WorkerFields, Same
<1> USE <1>5
<1>6. /\ Light(f) /\ "t" \in DOMAIN f /\ f.t = "DATA" /\ box.key = key /\ box.seq = v.tx /\ \A t : ~Carries(f, t)
  <2> DEFINE none == <<>>
             msg == Head(b.outbox)
             i == v.tx
             a == v.ses.id
  <2>1. AtMostOne(none) /\ Range(none) = {}
    BY RangeNone DEF AtMostOne
  <2>2. box = Seal(key, i, a, [ticket |-> none, msg |-> msg])
    OBVIOUS
  <2> HIDE DEF none, key, msg, i, a, box
  <2>3. LET d == Seal(key, i, a, [ticket |-> none, msg |-> msg])
            g == [t |-> "DATA", box |-> d]
        IN  Light(g) /\ "t" \in DOMAIN g /\ g.t = "DATA" /\ d.key = key /\ d.seq = i /\ \A t : Carries(g, t) => t \in Range(none)
    BY <2>1, DataLight
  <2>4. Light(f) /\ "t" \in DOMAIN f /\ f.t = "DATA" /\ box.key = key /\ box.seq = i /\ \A t : Carries(f, t) => t \in Range(none)
    BY <2>2, <2>3
  <2> QED BY <2>1, <2>4 DEF i
<1> USE <1>6
<1> HIDE DEF nw, nb, f, box, key
<1>7. ViewOk(c, w[c]["client"], w[c]["server"], Underway(c, "client"), Underway(c, "server"), hist.flipped)
  BY DEF HandInv
<1>8. "loop" \in Looping /\ "loop" \in {"ticket", "loop", "wait", "recv"} /\ "loop" \in ClientPast /\ "loop" \in ServerPast /\ "loop" \in Answered
  BY DEF Looping, ClientPast, ServerPast, Answered
<1> USE <1>8
<1>9. x = "client" => Written(c, v)
  BY <1>1, <1>7 DEF ViewOk, ClientOk
<1>10. x = "server" => Served(c, w[c]["client"], v)
  BY <1>1, <1>7 DEF ViewOk, ServerOk
<1>11. HandInv'
  <2>1. x = "server" => Served(c, w[c]["client"], nw)
    BY <1>10 DEF Served, Same
  <2>2. \A g \in N : Honest(c, x, nw, g)
    BY <2>1, Ends DEF Honest, FromClient, FromServer
  <2>3. Calm(x, v, nw)
    BY DEF Calm, ClientCalm, ServerCalm
  <2> HIDE DEF N
  <2> QED BY <2>2, <2>3, HandCalm DEF HistSeals
<1>12. NonceInv'
  <2>1. Going(x, w[c][x], nw)
    BY DEF Going, Ahead
  <2>2. Forward
    BY <2>1, ForwardAt
  <2>3. PICK ck : Owned(c, "se", ck) /\ key = <<IF x = "client" THEN "i2r" ELSE "r2i", ck>>
    <3>1. CASE x = "client"
      <4>1. PICK ck : Owned(c, "se", ck) /\ v.ses.i2r = <<"i2r", ck>> /\ v.ses.r2i = <<"r2i", ck>>
        <5>1. Written(c, v)
          BY <1>9, <3>1
        <5> HIDE DEF v
        <5> QED BY ONLY ZenonT(60), <5>1, WrittenKeys
      <4> QED BY <3>1, <4>1 DEF key, TxKey
    <3>2. CASE x = "server"
      <4>1. PICK ck : Owned(c, "se", ck) /\ v.ses.r2i = <<"r2i", ck>>
        <5> DEFINE cl == w[c]["client"]
        <5>1. Written(c, cl) /\ v.ses = cl.ses
          BY <1>10, <3>2 DEF Served
        <5> HIDE DEF cl, v
        <5>2. \E ck : Owned(c, "se", ck) /\ cl.ses.i2r = <<"i2r", ck>> /\ cl.ses.r2i = <<"r2i", ck>>
          BY ONLY ZenonT(60), <5>1, WrittenKeys
        <5> QED BY <5>1, <5>2
      <4> QED BY <3>2, <4>1 DEF key, TxKey
    <3> QED BY <3>1, <3>2, Ends
  <2> USE <2>3
  <2> DEFINE n == <<box.key, box.seq>>
             tag == IF x = "client" THEN "i2r" ELSE "r2i"
             i == v.tx
  <2>4. NonceIs(n, tag, ck, i)
    BY DEF NonceIs
  <2>5. Takes(c, tag, ck, i)
    <3>1. w'[c][x] = nw /\ nw.pc = "loop"
      BY <1>1 DEF SetAt
    <3>2. i < nw.tx
      <4> HIDE DEF v
      <4> QED BY SMTT(60)
    <3>3. CASE x = "client"
      BY <3>1, <3>2, <3>3 DEF Takes
    <3>4. CASE x = "server"
      BY <3>1, <3>2, <3>4 DEF Takes
    <3> QED BY <3>3, <3>4, Ends
  <2>6. Sealed({n}) /\ i \in Nat
    BY DEF HistSeals
  <2> HIDE DEF n, tag, i
  <2> QED BY <2>2, <2>4, <2>5, <2>6, NonceTaken
<1>13. SrvKept /\ AtMostOne(slot') /\ DOMAIN srv' = SrvFields /\ srv'.lock \in Conns \cup {0}
  BY <1>1, SrvSlot
<1>14. \A g \in N : Light(g) /\ \A t : Carries(g, t) => t \in Held
  OBVIOUS
<1>15. nw.tx \in Nat
  <2> HIDE DEF v
  <2> QED BY SMTT(60)
<1> HIDE DEF N
<1>16. TicketInv'
  BY <1>1, <1>13, <1>14, OldTickets
<1>17. LightInv'
  BY <1>13, <1>14, <1>15, LightFlow
<1> QED BY <1>11, <1>12, <1>16, <1>17 DEF Good

-----------------------------------------------------------------------------
(* Every step. *)
LEMMA SideFails ==
  ASSUME ShapeInv, Good, Noise \notin Nat, NEW c \in Conns, NEW x \in Sides, ReadEof(c, x) \/ ReadUnexpected(c, x)
  PROVE  Good'
<1>1. Fails(c, x) /\ Frame0
  BY DEF ReadEof, ReadUnexpected
<1> QED BY <1>1, FailsGood

LEMMA StartGood ==
  ASSUME ShapeInv, Good, Noise \notin Nat, NEW c \in Conns, Dial(c) \/ Accept(c) \/ LockCache(c)
  PROVE  Good'
<1>0. "client" \in Sides /\ "server" \in Sides /\ LightInv
  BY DEF Sides, Good
<1> USE <1>0
<1>1. CASE Dial(c)
  BY <1>1, SrvSame, GoesGood DEF Dial, CalmPcs, ClientCalm, ClientPast, Looping
<1>2. CASE Accept(c)
  BY <1>2, SrvSame, GoesGood DEF Accept, Server, CalmPcs, ServerCalm, ServerPast, Answered, Opening, Looping
<1>3. CASE LockCache(c)
  BY <1>3, SrvLocks, GoesGood DEF LockCache, Server, Frame0, CalmPcs, ServerCalm, ServerPast, Answered, Opening, Looping
<1> QED BY <1>1, <1>2, <1>3

LEMMA ProgressGood ==
  ASSUME ShapeInv, Good, Noise \notin Nat, \A a, b : Noise # <<a, b>>, Progress
  PROVE  Good'
<1>1. ASSUME NEW c \in Conns, Client(c) PROVE Good'
  BY <1>1, ClientFullGood, ClientResumeGood, ClientCookieGood, ClientMsg2Good, ClientTicketGood DEF Client
<1>2. ASSUME NEW c \in Conns, Relay(c) PROVE Good'
  BY <1>2, StartGood, ServerMsg1Good, ServerRetryGood, ServerPskGood, ServerMsg3Good DEF Relay
<1>3. ASSUME NEW c \in Conns, NEW x \in Sides, Side(c, x) PROVE Good'
  BY <1>3, SideFails, LoopSendGood, LoopPcGood, LoopRecvGood, ShuttleGood DEF Side
<1> QED BY <1>1, <1>2, <1>3 DEF Progress

LEMMA InputGood ==
  ASSUME ShapeInv, Good, Noise \notin Nat, Input
  PROVE  Good'
<1>1. ASSUME Rekey \/ \E c \in Conns : CutOff(c) \/ Freeze(c) PROVE Good'
  BY <1>1, HistStill, IdleGood DEF Rekey, CutOff, Freeze
<1>2. ASSUME NEW seq, Packet(seq) PROVE Good'
  BY <1>2, IdleGood DEF Packet, ShapeInv, Grids, HistInv, HistQuiet, HistFields
<1> QED BY <1>1, <1>2, TickGood, RestartGood, StartGood, SendGood, DropReceiverGood, DamageGood DEF Input

(* What damage leaves of a key or a share is not a thing the handshake computes: those
   are numbers (the key of the tickets) and tuples (an ephemeral key, a derived key).
   In the runs Noise is a model value, so that it holds; in the code it is what the
   authentication of an AEAD and the collision resistance of its hash stand for. *)
NoiseIsNew == Noise \notin Nat /\ \A a, b : Noise # <<a, b>>
LEMMA GoodStep ==
  ASSUME NoiseIsNew
  PROVE  ShapeInv /\ Good /\ [Next]_vars => Good'
<1> SUFFICES ASSUME ShapeInv, Good, [Next]_vars PROVE Good'
  OBVIOUS
<1>0. Noise \notin Nat /\ \A a, b : Noise # <<a, b>>
  BY DEF NoiseIsNew
<1>1. CASE Progress
  BY <1>0, <1>1, ProgressGood
<1>2. CASE Input
  BY <1>0, <1>2, InputGood
<1>3. CASE UNCHANGED vars
  BY <1>3, HistStill, IdleGood DEF vars
<1> QED BY <1>1, <1>2, <1>3 DEF Next

LEMMA GoodInit == Init => Good
<1> SUFFICES ASSUME Init PROVE Good
  OBVIOUS
<1>1. /\ now = 0 /\ srv = [epoch |-> 0, cache |-> <<>>, lock |-> 0, issued |-> 0] /\ slot = <<>>
      /\ br = Both(NewBridge) /\ net = Both([frames |-> <<>>, fin |-> FALSE]) /\ w = Both(NewWorker)
      /\ hist.uses = <<>> /\ hist.nonces = {} /\ hist.reused = {}
  BY DEF Init
<1> USE <1>1
<1>2. ASSUME NEW v PROVE \A c \in Conns, x \in Sides : Both(v)[c][x] = v
  BY DEF Both
<1>3. \A c \in Conns, x \in Sides : w[c][x] = NewWorker /\ br[c][x] = NewBridge /\ net[c][x] = [frames |-> <<>>, fin |-> FALSE]
  <2>1. \A c \in Conns, x \in Sides : Both(NewWorker)[c][x] = NewWorker /\ Both(NewBridge)[c][x] = NewBridge
    BY <1>2
  <2>2. \A c \in Conns, x \in Sides : Both([frames |-> <<>>, fin |-> FALSE])[c][x] = [frames |-> <<>>, fin |-> FALSE]
    BY <1>2
  <2> QED BY <2>1, <2>2
<1> USE <1>3
<1>4. NewWorker.pc = "off" /\ NewWorker.ticket = <<>> /\ NewWorker.early = FALSE /\ NewWorker.tx = 0
  BY SMTT(60) DEF NewWorker
<1>5. NewBridge.inbound = <<>> /\ NewBridge.wire = <<>> /\ [frames |-> <<>>, fin |-> FALSE].frames = <<>>
  BY SMTT(60) DEF NewBridge
<1>6. \A c \in Conns, x \in Sides : Underway(c, x) = {}
  BY <1>5, RangeNone, OtherSide DEF Underway
<1> USE <1>6
<1>7. HandInv
  BY <1>4 DEF HandInv, Sides, ViewOk, ClientOk, ServerOk, Opening, Looping
<1>8. NonceInv
  BY DEF NonceInv, NoncesOk, NonceOnce
<1>9. srv.epoch = 0 /\ srv.cache = <<>> /\ srv.lock = 0 /\ srv.issued = 0 /\ DOMAIN srv = SrvFields
  BY SMTT(60) DEF SrvFields
<1>10. TicketInv
  <2>1. ~\E t : t \in Held
    BY HeldIs, RangeNone DEF Holds
  <2>2. Held = {}
    BY <2>1
  <2>3. TicketsOk({}, <<>>, 0, 0, 0, <<>>)
    <3>1. DOMAIN <<>> = {}
      BY SMTT(60)
    <3>2. 0 \in Nat
      BY SMTT(60)
    <3> QED BY <3>1, <3>2, SeqEmpty DEF TicketsOk, Once
  <2> QED BY <1>9, <2>2, <2>3 DEF TicketInv
<1>11. LightInv
  <2>1. 0 \in Nat
    BY SMTT(60)
  <2> QED BY <1>4, <1>9, <2>1 DEF LightInv, AtMostOne
<1> QED BY <1>7, <1>8, <1>10, <1>11 DEF Good

-----------------------------------------------------------------------------
(* The inductive invariant. *)
LinkTypes == ShapeInv /\ BitsInv /\ Good

LEMMA TypesHold ==
  ASSUME LinkTypes
  PROVE  TypeOK
<1>1. now \in Nat /\ srv.epoch \in Nat /\ srv.issued \in Nat /\ \A id \in DOMAIN srv.cache : id \in 1 .. srv.issued
  BY DEF LinkTypes, Good, TicketInv, TicketsOk
<1>2. AtMostOne(slot) /\ srv.lock \in Conns \cup {0}
  BY DEF LinkTypes, Good, LightInv
<1>3. Len(slot) <= 1
  <2>1. Len(<<>>) <= 1 /\ \A t : Len(<<t>>) <= 1
    BY SMTT(60)
  <2> QED BY <1>2, <2>1 DEF AtMostOne
<1>4. win.bits \subseteq 0 .. WindowSize - 1 /\ cut \subseteq Conns /\ frozen \subseteq Conns
  BY DEF LinkTypes, BitsInv, ShapeInv
<1>5. ASSUME NEW c \in Conns, NEW x \in Sides
      PROVE  /\ task[c][x] \subseteq {"in", "out"} /\ br[c][x].closed \in BOOLEAN /\ net[c][x].fin \in BOOLEAN
             /\ w[c][x].pc \in InHandshake \cup {"off", "start", "lock", "loop", "wait", "recv", "done"}
  BY DEF LinkTypes, ShapeInv, Records, WorkerOk, BridgeOk, StreamOk, TaskOk, Pcs
<1>6. \A c \in Conns, x \in Sides : w[c][x].tx \in Nat
  BY DEF LinkTypes, Good, LightInv
<1> QED BY <1>1, <1>2, <1>3, <1>4, <1>5, <1>6 DEF TypeOK

LEMMA ViewsHold ==
  ASSUME Good
  PROVE  SameSession /\ EarlyAgrees
<1> SUFFICES ASSUME NEW c \in Conns
             PROVE  /\ Established(c, "client") =>
                         Server(c).ses = w[c]["client"].ses /\ Server(c).resumed = w[c]["client"].resumed /\ w[c]["client"].peer = ServerPk
                    /\ Established(c, "server") =>
                         /\ w[c]["client"].ses = Server(c).ses
                         /\ Server(c).ses.id[Len(Server(c).ses.id)] = <<"enc", Server(c).peer>>
                         /\ Server(c).resumed => Server(c).ticket[1].fp = Server(c).peer
                    /\ Established(c, "client") /\ w[c]["client"].resumed /\ ~hist.flipped
                         => w[c]["client"].early = Server(c).early
  BY DEF SameSession, EarlyAgrees
<1> DEFINE cl == w[c]["client"]
           sv == w[c]["server"]
           fl == hist.flipped
<1>1. AgreeOk(cl, sv, fl)
  BY ViewAgree DEF Good, HandInv
<1>2. Server(c) = sv /\ (Established(c, "client") => cl.pc \in Looping) /\ (Established(c, "server") => sv.pc \in Looping) /\ ServerPk = RelayPk
  BY DEF Server, Established, Looping, ServerPk, RelayPk
<1> HIDE DEF cl, sv, fl
<1>3. /\ Established(c, "client") => sv.ses = cl.ses /\ sv.resumed = cl.resumed /\ cl.peer = ServerPk
      /\ Established(c, "server") => cl.ses = sv.ses /\ sv.ses.id[Len(sv.ses.id)] = <<"enc", sv.peer>> /\ (sv.resumed => sv.ticket[1].fp = sv.peer)
      /\ Established(c, "client") /\ cl.resumed /\ ~fl => cl.early = sv.early
  BY <1>1, <1>2 DEF AgreeOk
<1> QED BY <1>2, <1>3 DEF cl, sv, fl

LEMMA LinkTypesInit == Init => LinkTypes
<1>1. Init => BitsInv
  BY SMTT(60) DEF Init, BitsInv, NewWindow
<1> QED BY <1>1, ShapeInit, GoodInit DEF LinkTypes

LEMMA LinkTypesStep ==
  ASSUME NoiseIsNew
  PROVE  LinkTypes /\ [Next]_vars => LinkTypes'
BY ShapeStep, BitsStep, GoodStep DEF LinkTypes

(* When the handshake of the client returns, that of the server has: the two hold
   one session, agree on whether it was resumed and, unless the flag before message 2
   was damaged, on what became of the early data; each knows the other's static key,
   and a ticket resumes only a session with the client it was issued to.  So it is for
   any number of connections over one ticket cache, whatever frames are damaged, cut
   off or delayed and however often the server starts again (handshake/mod.rs;
   api.rs: client_connect_resume, try_resume, full_handshake). *)
THEOREM SameViewHolds ==
  ASSUME NoiseIsNew
  PROVE  Spec => []SameView
<1>1. LinkTypes => SameView
  BY TypesHold, ViewsHold DEF LinkTypes, SameView
<1>2. Init => LinkTypes
  BY LinkTypesInit
<1>3. LinkTypes /\ [Next]_vars => LinkTypes'
  BY LinkTypesStep
<1> QED BY <1>1, <1>2, <1>3, PTL DEF Spec

(* No ticket is taken twice before the second it expires in, and no key seals two
   messages with one nonce but the key of early data, which comes from the ticket
   alone: through restarts, damage and any interleaving of connections (psk.rs: open,
   gc; crypto.rs: seal; handshake/mod.rs: early_data_aead). *)
THEOREM UsedOnceHolds ==
  ASSUME NoiseIsNew
  PROVE  Spec => []UsedOnce
<1>1. LinkTypes => UsedOnce
  BY DEF LinkTypes, Good, TicketInv, TicketsOk, Once, NonceInv, UsedOnce, TicketOnce
<1>2. Init => LinkTypes
  BY LinkTypesInit
<1>3. LinkTypes /\ [Next]_vars => LinkTypes'
  BY LinkTypesStep
<1> QED BY <1>1, <1>2, <1>3, PTL DEF Spec
=============================================================================
