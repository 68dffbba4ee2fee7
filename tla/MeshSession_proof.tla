------------------------ MODULE MeshSession_proof ------------------------
(***************************************************************************)
(* Proofs about MeshSession for any number of send_to calls and restarts:  *)
(* messages reach the application in the order of send_to (InOrder), and   *)
(* on a relay path that nothing disturbs both handshakes converge on one   *)
(* session (SameSession).                                                  *)
(***************************************************************************)
EXTENDS MeshSession, TLAPS

(* The provers in the order in which a leaf tries them, then again with more time. *)
USE SMT, Zenon, SMTT(60), ZenonT(60)

Frames == [kind : Kinds, key : Keys, ctr : Nat, body : Nat]

(* The frames whose first key number a handler reads carry one, so does the
   GM-PQ server that waits for the retry of a first message; and a ciphertext
   carries a payload. *)
WellFormed(f) ==
  /\ f.kind \in {"INIT", "RESP", "MSG1"} => f.key # <<>>
  /\ f.kind = "CIPHER" => f.body # 0
KeysOK ==
  \A n \in Nodes :
    /\ \A k \in DOMAIN chan[n] : WellFormed(chan[n][k])
    /\ st[n].gm = "waitRetry" => st[n].gmKey # <<>>

(* The life of a payload from n: queued at n, in a frame to m, delivered at m.
   Read from the last stage to the first, the payloads increase. *)
Increasing(xs) == \A i, j \in DOMAIN xs : i < j => xs[i] < xs[j]
Loaded(f) == f.body # 0

Lane(n, m) ==
  /\ Increasing(delivered[m])
  /\ \A i \in DOMAIN delivered[m] : delivered[m][i] <= sends[n]
  /\ \A k \in DOMAIN chan[m] : Loaded(chan[m][k]) =>
       /\ chan[m][k].body <= sends[n]
       /\ \A i \in DOMAIN delivered[m] : delivered[m][i] < chan[m][k].body
       /\ \A l \in DOMAIN chan[m] : k < l /\ Loaded(chan[m][l]) =>
            chan[m][k].body < chan[m][l].body
  /\ Increasing(st[n].pending)
  /\ \A p \in DOMAIN st[n].pending :
       /\ 0 < st[n].pending[p] /\ st[n].pending[p] <= sends[n]
       /\ \A i \in DOMAIN delivered[m] : delivered[m][i] < st[n].pending[p]
       /\ \A k \in DOMAIN chan[m] : chan[m][k].body < st[n].pending[p]
  /\ HasSession(st[n]) => st[n].pending = <<>>
OrderInv == \A n \in Nodes : Lane(n, Other(n))

OInv == TypeOK /\ KeysOK /\ OrderInv

-----------------------------------------------------------------------------
(* What a handler of node n does: it takes a frame or none, and ends with the
   peer entry s, frames for the other node and payloads for the application. *)
Emits(n, took, s, frames, keys, payloads, sent) ==
  /\ Ends(n, s, keys, payloads)
  /\ chan' = Forward(n, IF took THEN [chan EXCEPT ![n] = Tail(@)] ELSE chan, frames)
  /\ sends' = [sends EXCEPT ![n] = @ + sent]

(* What it must respect for the types. *)
Typed(n, took, s, frames) ==
  /\ took => chan[n] # <<>>
  /\ s \in PeerEntry /\ frames \in Seq(Frames)
  /\ s.hs # 0 => s.session = NoKey
  /\ s.gm = "waitRetry" => s.gmKey # <<>>
  /\ \A k \in DOMAIN frames : WellFormed(frames[k])

(* What it must respect for the order: a payload it emits was queued or is the
   one being sent, and what stays queued is newer than what it emits. *)
Known(n, x, sent) ==
  \/ \E p \in DOMAIN st[n].pending : x = st[n].pending[p]
  \/ sent = 1 /\ x = sends[n] + 1
Ordered(n, took, s, frames, payloads, sent) ==
  /\ \A k \in DOMAIN frames : Loaded(frames[k]) =>
       /\ Known(n, frames[k].body, sent)
       /\ \A l \in DOMAIN frames : k < l /\ Loaded(frames[l]) => frames[k].body < frames[l].body
  /\ Increasing(s.pending)
  /\ \A p \in DOMAIN s.pending :
       /\ Known(n, s.pending[p], sent)
       /\ \A k \in DOMAIN frames : frames[k].body < s.pending[p]
  /\ HasSession(s) => s.pending = <<>>
  /\ \/ payloads = <<>>
     \/ took /\ Loaded(Head(chan[n])) /\ payloads = <<Head(chan[n]).body>>

After(n, took, s, frames, payloads, sent) ==
  LET m == Other(n) IN
  /\ st' = [st EXCEPT ![n] = s]
  /\ chan' \in [Nodes -> Seq(Frames)]
  /\ chan'[n] = IF took THEN Tail(chan[n]) ELSE chan[n]
  /\ (up[m] /\ chan'[m] = chan[m] \o frames) \/ (~up[m] /\ chan'[m] = chan[m])
  /\ delivered' \in [Nodes -> Seq(Nat)]
  /\ delivered'[n] = delivered[n] \o payloads
  /\ delivered'[m] = delivered[m]
  /\ sends' \in [Nodes -> Nat]
  /\ sends'[n] = sends[n] + sent
  /\ sends'[m] = sends[m]
  /\ fresh' \in Nat /\ gmpq' = gmpq /\ trusts' = trusts /\ up' = up /\ restarts' = restarts

LEMMA TwoNodes ==
  \A n \in Nodes : /\ Other(n) \in Nodes /\ Other(n) # n /\ Other(Other(n)) = n
                   /\ \A k \in Nodes : k = n \/ k = Other(n)
BY DEF Nodes, Other

LEMMA TailElements ==
  ASSUME NEW S, NEW q \in Seq(S), q # <<>>
  PROVE  /\ Tail(q) \in Seq(S) /\ Head(q) \in S /\ Head(q) = q[1] /\ 1 \in DOMAIN q
         /\ \A k \in DOMAIN Tail(q) : k \in Nat /\ k > 0 /\ k + 1 \in DOMAIN q /\ Tail(q)[k] = q[k + 1]
         /\ \A k \in DOMAIN q : k # 1 => k - 1 \in DOMAIN Tail(q) /\ Tail(q)[k - 1] = q[k]
OBVIOUS

LEMMA ConcatElements ==
  ASSUME NEW S, NEW q \in Seq(S), NEW r \in Seq(S)
  PROVE  /\ q \o r \in Seq(S) /\ Len(q) \in Nat
         /\ \A k \in DOMAIN q : k \in Nat /\ k <= Len(q) /\ k \in DOMAIN (q \o r) /\ (q \o r)[k] = q[k]
         /\ \A k \in DOMAIN r : Len(q) + k \in DOMAIN (q \o r) /\ (q \o r)[Len(q) + k] = r[k]
         /\ \A k \in DOMAIN (q \o r) :
              \/ k \in DOMAIN q /\ (q \o r)[k] = q[k]
              \/ k - Len(q) \in DOMAIN r /\ k \in Nat /\ k > Len(q) /\ (q \o r)[k] = r[k - Len(q)]
OBVIOUS

LEMMA OneMore ==
  ASSUME NEW q \in Seq(Nat), NEW b \in Nat
  PROVE  \A i \in DOMAIN (q \o <<b>>) : /\ i \in Nat
                                      /\ \/ (q \o <<b>>)[i] = b /\ i = Len(q) + 1
                                         \/ i \in DOMAIN q /\ (q \o <<b>>)[i] = q[i] /\ i <= Len(q)
OBVIOUS

LEMMA NatElements == \A q \in Seq(Nat) : \A k \in DOMAIN q : q[k] \in Nat /\ k \in Nat
OBVIOUS

LEMMA FrameBodies ==
  \A q \in Seq(Frames) : \A k \in DOMAIN q : q[k] \in Frames /\ q[k].body \in Nat /\ k \in Nat
<1>1. \A q \in Seq(Frames) : \A k \in DOMAIN q : q[k] \in Frames /\ k \in Nat
  OBVIOUS
<1> QED BY <1>1 DEF Frames

(* The channels and deliveries after a handler. *)
LEMMA AfterEmits ==
  ASSUME TypeOK, NEW n \in Nodes, NEW took \in BOOLEAN, NEW s, NEW frames, NEW keys \in Nat,
         NEW payloads \in Seq(Nat), NEW sent \in {0, 1},
         Emits(n, took, s, frames, keys, payloads, sent), Typed(n, took, s, frames)
  PROVE  After(n, took, s, frames, payloads, sent)
<1> DEFINE m == Other(n)
<1>1. m \in Nodes /\ m # n
  BY TwoNodes
<1>2. chan \in [Nodes -> Seq(Frames)] /\ frames \in Seq(Frames) /\ (took => chan[n] # <<>>)
  BY ZenonT(60) DEF TypeOK, Typed, Frames
<1> DEFINE rest == IF took THEN [chan EXCEPT ![n] = Tail(@)] ELSE chan
<1>3. /\ rest \in [Nodes -> Seq(Frames)] /\ rest[m] = chan[m]
      /\ rest[n] = IF took THEN Tail(chan[n]) ELSE chan[n]
  <2>1. took => Tail(chan[n]) \in Seq(Frames)
    BY <1>2, TailElements
  <2> QED BY <1>1, <1>2, <2>1
<1>4. chan' = IF up[m] THEN [rest EXCEPT ![m] = @ \o frames] ELSE rest
  BY DEF Emits, Forward
<1> HIDE DEF rest
<1>5. rest[m] \o frames \in Seq(Frames)
  BY <1>1, <1>2, <1>3, ConcatElements
<1>6. /\ chan' \in [Nodes -> Seq(Frames)] /\ chan'[n] = rest[n]
      /\ (up[m] /\ chan'[m] = rest[m] \o frames) \/ (~up[m] /\ chan'[m] = rest[m])
  BY ZenonT(60), <1>1, <1>3, <1>4, <1>5
<1>7. /\ delivered' \in [Nodes -> Seq(Nat)] /\ delivered'[n] = delivered[n] \o payloads
      /\ delivered'[m] = delivered[m]
  <2>1. delivered \in [Nodes -> Seq(Nat)] /\ delivered[n] \o payloads \in Seq(Nat)
    BY DEF TypeOK
  <2>2. delivered' = [delivered EXCEPT ![n] = @ \o payloads]
    BY DEF Emits, Ends
  <2> QED BY <1>1, <2>1, <2>2
<1>8. /\ sends' \in [Nodes -> Nat] /\ sends'[n] = sends[n] + sent
      /\ sends'[m] = sends[m]
  <2>1. sends \in [Nodes -> Nat] /\ sends[n] + sent \in Nat
    BY DEF TypeOK
  <2>2. sends' = [sends EXCEPT ![n] = @ + sent]
    BY DEF Emits
  <2> QED BY ZenonT(60), <1>1, <2>1, <2>2
<1>9. fresh' \in Nat /\ st' = [st EXCEPT ![n] = s] /\ gmpq' = gmpq /\ trusts' = trusts /\ up' = up /\ restarts' = restarts
  BY DEF Emits, Ends, TypeOK
<1> QED BY ZenonT(60), <1>3, <1>6, <1>7, <1>8, <1>9 DEF After

LEMMA StepTypes ==
  ASSUME TypeOK, KeysOK, NEW n \in Nodes, NEW took \in BOOLEAN, NEW s, NEW frames,
         NEW payloads, NEW sent, After(n, took, s, frames, payloads, sent),
         Typed(n, took, s, frames), mishaps' \subseteq {"late", "restart", "tagged"}
  PROVE  TypeOK' /\ KeysOK'
<1> DEFINE m == Other(n)
<1>1. m \in Nodes /\ m # n /\ \A k \in Nodes : k = n \/ k = m
  BY TwoNodes
<1>2. chan \in [Nodes -> Seq(Frames)] /\ frames \in Seq(Frames) /\ (took => chan[n] # <<>>)
  BY ZenonT(60) DEF TypeOK, Typed, Frames
<1>3. /\ st \in [Nodes -> PeerEntry] /\ s \in PeerEntry /\ st' = [st EXCEPT ![n] = s]
      /\ \A k \in Nodes : st[k].hs # 0 => st[k].session = NoKey
      /\ s.hs # 0 => s.session = NoKey
      /\ \A k \in Nodes : st[k].gm = "waitRetry" => st[k].gmKey # <<>>
      /\ s.gm = "waitRetry" => s.gmKey # <<>>
  BY ZenonT(60) DEF TypeOK, Typed, After, KeysOK
<1>4. st' \in [Nodes -> PeerEntry] /\ st'[n] = s /\ st'[m] = st[m]
  BY ZenonT(60), <1>1, <1>3
<1>5. TypeOK'
  BY ZenonT(60), <1>1, <1>3, <1>4 DEF TypeOK, After, Frames
<1>6. \A k \in DOMAIN chan'[n] : WellFormed(chan'[n][k])
  <2>1. \A k \in DOMAIN chan[n] : WellFormed(chan[n][k])
    BY ZenonT(60) DEF KeysOK
  <2>2. took => /\ \A k \in DOMAIN Tail(chan[n]) : k + 1 \in DOMAIN chan[n] /\ Tail(chan[n])[k] = chan[n][k + 1]
    <3>1. chan[n] \in Seq(Frames)
      BY <1>2
    <3> QED BY ZenonT(60), <1>2, <3>1, TailElements
  <2> QED BY ZenonT(60), <2>1, <2>2 DEF After
<1>7. \A k \in DOMAIN chan'[m] : WellFormed(chan'[m][k])
  <2>1. /\ \A k \in DOMAIN chan[m] : WellFormed(chan[m][k])
        /\ \A k \in DOMAIN frames : WellFormed(frames[k])
    BY ZenonT(60), <1>1 DEF KeysOK, Typed
  <2> DEFINE q == chan[m] \o frames
  <2>2. \A k \in DOMAIN q : (q[k] = chan[m][k] /\ k \in DOMAIN chan[m]) \/ (\E j \in DOMAIN frames : q[k] = frames[j])
    <3>1. chan[m] \in Seq(Frames) /\ frames \in Seq(Frames)
      BY <1>1, <1>2
    <3> QED BY <3>1, ConcatElements
  <2> QED BY ZenonT(60), <2>1, <2>2 DEF After
<1> QED BY ZenonT(60), <1>1, <1>3, <1>4, <1>5, <1>6, <1>7 DEF KeysOK

(* The order of what node n sends survives its own step. *)
LEMMA LaneOut ==
  ASSUME TypeOK, OrderInv, NEW n \in Nodes, NEW took \in BOOLEAN, NEW s, NEW frames,
         NEW payloads, NEW sent \in {0, 1}, After(n, took, s, frames, payloads, sent),
         Typed(n, took, s, frames), Ordered(n, took, s, frames, payloads, sent)
  PROVE  Lane(n, Other(n))'
<1> DEFINE m == Other(n)
           D == delivered[m]
           C == chan[m]
           P == st[n].pending
           Q == s.pending
           top == sends[n]
<1>1. m \in Nodes /\ m # n
  BY TwoNodes
<1>2. /\ D \in Seq(Nat) /\ C \in Seq(Frames) /\ P \in Seq(Nat) /\ Q \in Seq(Nat)
      /\ frames \in Seq(Frames) /\ top \in Nat
  BY ZenonT(60), <1>1 DEF TypeOK, Typed, Frames, PeerEntry
<1>3. /\ delivered'[m] = D /\ st'[n] = s
      /\ chan'[m] = C \o frames \/ chan'[m] = C
      /\ sends'[n] = top + sent
  BY ZenonT(60) DEF After, TypeOK
<1>4. /\ Increasing(D)
      /\ \A i \in DOMAIN D : D[i] <= top
      /\ \A k \in DOMAIN C : Loaded(C[k]) =>
           /\ C[k].body <= top
           /\ \A i \in DOMAIN D : D[i] < C[k].body
           /\ \A l \in DOMAIN C : k < l /\ Loaded(C[l]) => C[k].body < C[l].body
      /\ \A p \in DOMAIN P :
           /\ 0 < P[p] /\ P[p] <= top
           /\ \A i \in DOMAIN D : D[i] < P[p]
           /\ \A k \in DOMAIN C : C[k].body < P[p]
  BY ZenonT(60) DEF OrderInv, Lane
<1>5. /\ \A k \in DOMAIN C : C[k].body \in Nat
      /\ \A k \in DOMAIN frames : frames[k].body \in Nat
      /\ \A k \in DOMAIN D : D[k] \in Nat
      /\ \A k \in DOMAIN P : P[k] \in Nat
      /\ \A k \in DOMAIN Q : Q[k] \in Nat
  BY ZenonT(60), <1>2, FrameBodies, NatElements
<1>6. \A x \in Nat : Known(n, x, sent) =>
        /\ 0 < x /\ x <= top + sent
        /\ \A i \in DOMAIN D : D[i] < x
        /\ \A k \in DOMAIN C : C[k].body < x
  <2> SUFFICES ASSUME NEW x \in Nat, Known(n, x, sent)
               PROVE  /\ 0 < x /\ x <= top + sent
                      /\ \A i \in DOMAIN D : D[i] < x
                      /\ \A k \in DOMAIN C : C[k].body < x
    OBVIOUS
  <2>1. CASE \E p \in DOMAIN P : x = P[p]
    BY SMT, SMTT(30), ZenonT(60), <1>2, <1>4, <2>1
  <2>2. CASE sent = 1 /\ x = top + 1
    <3>1. \A k \in DOMAIN C : C[k].body <= top
      BY <1>2, <1>4, <1>5 DEF Loaded
    <3> QED BY <1>2, <1>4, <1>5, <2>2, <3>1
  <2> QED BY <2>1, <2>2 DEF Known
<1>7. /\ \A k \in DOMAIN frames : Loaded(frames[k]) =>
           /\ Known(n, frames[k].body, sent)
           /\ \A l \in DOMAIN frames : k < l /\ Loaded(frames[l]) => frames[k].body < frames[l].body
      /\ Increasing(Q)
      /\ \A p \in DOMAIN Q :
           /\ Known(n, Q[p], sent)
           /\ \A k \in DOMAIN frames : frames[k].body < Q[p]
      /\ HasSession(s) => Q = <<>>
  BY ZenonT(60) DEF Ordered
<1>8. PICK E : E = chan'[m]
  OBVIOUS
<1>14. /\ Len(C) \in Nat
       /\ \A k \in DOMAIN C : k \in Nat /\ k <= Len(C) /\ (C \o frames)[k] = C[k]
       /\ \A k \in DOMAIN (C \o frames) :
            \/ k \in DOMAIN C /\ (C \o frames)[k] = C[k]
            \/ k - Len(C) \in DOMAIN frames /\ k \in Nat /\ k > Len(C) /\ (C \o frames)[k] = frames[k - Len(C)]
  <2>1. C \in Seq(Frames) /\ frames \in Seq(Frames)
    BY ZenonT(60), <1>2
  <2> HIDE DEF C
  <2> QED BY <2>1, ConcatElements
<1>9. \A k \in DOMAIN E : \/ k \in DOMAIN C /\ E[k] = C[k]
                          \/ k \in Nat /\ \E j \in DOMAIN frames : E[k] = frames[j]
  <2>1. CASE E = C
    BY ZenonT(60), <2>1
  <2>2. CASE E = C \o frames
    BY ZenonT(60), <1>14, <2>2
  <2> QED BY <1>3, <1>8, <2>1, <2>2
<1>13. \A k \in DOMAIN E : k \in Nat /\ (Loaded(E[k]) => E[k].body <= top + sent /\ \A i \in DOMAIN D : D[i] < E[k].body)
  <2>1. \A k \in DOMAIN frames : Loaded(frames[k]) => frames[k].body <= top + sent /\ \A i \in DOMAIN D : D[i] < frames[k].body
    BY ZenonT(60), <1>5, <1>6, <1>7
  <2>2. \A k \in DOMAIN C : k \in Nat /\ (Loaded(C[k]) => C[k].body <= top + sent)
    BY <1>2, <1>4, <1>5
  <2> QED BY ZenonT(60), <1>4, <1>9, <2>1, <2>2
<1>10. \A k, l \in DOMAIN E : Loaded(E[k]) /\ Loaded(E[l]) /\ k < l => E[k].body < E[l].body
  <2>1. CASE E = C
    BY ZenonT(60), <1>4, <2>1
  <2>2. CASE E = C \o frames
    <3> SUFFICES ASSUME NEW k \in DOMAIN E, NEW l \in DOMAIN E, Loaded(E[k]), Loaded(E[l]), k < l
                 PROVE  E[k].body < E[l].body
      OBVIOUS
    <3>1. CASE k \in DOMAIN C /\ l \in DOMAIN C
      <4>1. E[k] = C[k] /\ E[l] = C[l]
        BY <1>14, <2>2, <3>1
      <4> QED BY ZenonT(60), <1>4, <3>1, <4>1
    <3>2. CASE l \notin DOMAIN C
      <4>1. PICK j \in DOMAIN frames : j = l - Len(C) /\ E[l] = frames[j] /\ l > Len(C) /\ l \in Nat
        BY <1>14, <2>2, <3>2
      <4>2. CASE k \in DOMAIN C
        <5>1. E[k] = C[k]
          BY <1>14, <2>2, <4>2
        <5> QED BY ZenonT(60), <1>5, <1>6, <1>7, <4>1, <4>2, <5>1
      <4>3. CASE k \notin DOMAIN C
        <5>1. PICK i \in DOMAIN frames : i = k - Len(C) /\ E[k] = frames[i] /\ k \in Nat
          BY <1>14, <2>2, <4>3
        <5>2. i < j
          BY <1>14, <4>1, <5>1, k < l
        <5> QED BY ZenonT(60), <1>7, <4>1, <5>1, <5>2
      <4> QED BY <4>2, <4>3
    <3>3. CASE k \notin DOMAIN C /\ l \in DOMAIN C
      BY <1>14, <2>2, <3>3
    <3> QED BY <3>1, <3>2, <3>3
  <2> QED BY <1>3, <1>8, <2>1, <2>2
<1>11. \A p \in DOMAIN Q : /\ 0 < Q[p] /\ Q[p] <= top + sent
                           /\ \A i \in DOMAIN D : D[i] < Q[p]
                           /\ \A k \in DOMAIN E : E[k].body < Q[p]
  <2>1. \A p \in DOMAIN Q : /\ 0 < Q[p] /\ Q[p] <= top + sent
                            /\ \A i \in DOMAIN D : D[i] < Q[p]
                            /\ \A k \in DOMAIN C : C[k].body < Q[p]
                            /\ \A k \in DOMAIN frames : frames[k].body < Q[p]
    BY ZenonT(60), <1>5, <1>6, <1>7
  <2> QED BY ZenonT(60), <1>9, <2>1
<1>12. \A i \in DOMAIN D : D[i] <= top + sent
  BY SMT, SMTT(30), <1>2, <1>4, <1>5
<1> QED BY ZenonT(60), <1>3, <1>4, <1>7, <1>8, <1>10, <1>11, <1>12, <1>13 DEF Lane

(* So does the order of what the other node sends to n. *)
LEMMA LaneIn ==
  ASSUME TypeOK, OrderInv, NEW n \in Nodes, NEW took \in BOOLEAN, NEW s, NEW frames,
         NEW payloads, NEW sent \in {0, 1}, After(n, took, s, frames, payloads, sent),
         Typed(n, took, s, frames), Ordered(n, took, s, frames, payloads, sent)
  PROVE  Lane(Other(n), n)'
<1> DEFINE m == Other(n)
           D == delivered[n]
           C == chan[n]
           P == st[m].pending
           top == sends[m]
<1>1. m \in Nodes /\ m # n /\ Other(m) = n
  BY TwoNodes
<1>2. D \in Seq(Nat) /\ C \in Seq(Frames) /\ top \in Nat
  BY ZenonT(60), <1>1 DEF TypeOK, Frames
<1>3. /\ delivered'[n] = D \o payloads /\ st'[m] = st[m] /\ sends'[m] = top
      /\ chan'[n] = IF took THEN Tail(C) ELSE C
      /\ took => C # <<>>
  BY ZenonT(60), <1>1 DEF After, TypeOK, Typed
<1>4. Lane(m, n)
  BY ZenonT(60), <1>1 DEF OrderInv
<1>5. /\ Increasing(D)
      /\ \A i \in DOMAIN D : D[i] <= top
      /\ \A k \in DOMAIN C : Loaded(C[k]) =>
           /\ C[k].body <= top
           /\ \A i \in DOMAIN D : D[i] < C[k].body
           /\ \A l \in DOMAIN C : k < l /\ Loaded(C[l]) => C[k].body < C[l].body
      /\ Increasing(P)
      /\ \A p \in DOMAIN P :
           /\ 0 < P[p] /\ P[p] <= top
           /\ \A i \in DOMAIN D : D[i] < P[p]
           /\ \A k \in DOMAIN C : C[k].body < P[p]
      /\ HasSession(st[m]) => P = <<>>
  BY ZenonT(60), <1>4 DEF Lane
<1>6. CASE payloads = <<>>
  <2>1. D \o payloads = D
    BY <1>2, <1>6
  <2>2. CASE took
    <3>1. \A k \in DOMAIN Tail(C) : k \in Nat /\ k + 1 \in DOMAIN C /\ Tail(C)[k] = C[k + 1]
      BY <1>2, <1>3, <2>2, TailElements
    <3>2. \A k, l \in DOMAIN Tail(C) : k < l => k + 1 < l + 1
      BY <3>1
    <3> QED BY ZenonT(60), <1>3, <1>5, <2>1, <2>2, <3>1, <3>2 DEF Lane
  <2>3. CASE ~took
    BY ZenonT(60), <1>3, <1>5, <2>1, <2>3 DEF Lane
  <2> QED BY <2>2, <2>3
<1>7. CASE took /\ Loaded(Head(C)) /\ payloads = <<Head(C).body>>
  <2>1. /\ 1 \in DOMAIN C /\ Head(C) = C[1]
        /\ \A k \in DOMAIN Tail(C) : k \in Nat /\ k > 0 /\ k + 1 \in DOMAIN C /\ Tail(C)[k] = C[k + 1]
    BY <1>2, <1>3, <1>7, TailElements
  <2>2. PICK b \in Nat : b = C[1].body
    BY ZenonT(60), <1>2, <2>1, FrameBodies
  <2> DEFINE F == D \o <<b>>
  <2>3. delivered'[n] = F
    BY ZenonT(60), <1>3, <1>7, <2>1, <2>2
  <2>4. \A i \in DOMAIN F : /\ i \in Nat
                            /\ \/ F[i] = b /\ i = Len(D) + 1
                               \/ i \in DOMAIN D /\ F[i] = D[i] /\ i <= Len(D)
    BY ZenonT(60), <1>2, OneMore
  <2> HIDE DEF F
  <2>5. /\ b <= top
        /\ \A i \in DOMAIN D : D[i] < b
        /\ \A l \in DOMAIN C : 1 < l /\ Loaded(C[l]) => b < C[l].body
        /\ \A p \in DOMAIN P : b < P[p]
    BY ZenonT(60), <1>5, <1>7, <2>1, <2>2
  <2>6. Increasing(F)
    <3> SUFFICES ASSUME NEW i \in DOMAIN F, NEW j \in DOMAIN F, i < j PROVE F[i] < F[j]
      BY DEF Increasing
    <3>1. i \in DOMAIN D /\ F[i] = D[i]
      BY SMT, SMTT(30), ZenonT(60), <1>2, <2>4
    <3>2. CASE F[j] = b
      BY ZenonT(60), <2>5, <3>1, <3>2
    <3>3. CASE j \in DOMAIN D /\ F[j] = D[j]
      BY ZenonT(60), <1>5, <3>1, <3>3 DEF Increasing
    <3> QED BY ZenonT(60), <2>4, <3>2, <3>3
  <2>7. \A k \in DOMAIN Tail(C) : 1 < k + 1 /\ \A l \in DOMAIN Tail(C) : k < l => k + 1 < l + 1
    BY <2>1
  <2> DEFINE E == Tail(C)
  <2>8. \A k \in DOMAIN E : Loaded(E[k]) =>
           /\ E[k].body <= top
           /\ \A l \in DOMAIN E : k < l /\ Loaded(E[l]) => E[k].body < E[l].body
    BY ZenonT(60), <1>5, <2>1, <2>7
  <2>9. \A k \in DOMAIN E : Loaded(E[k]) => b < E[k].body /\ \A i \in DOMAIN D : D[i] < E[k].body
    BY ZenonT(60), <1>5, <2>1, <2>5, <2>7
  <2>10. \A k \in DOMAIN E : Loaded(E[k]) => \A i \in DOMAIN F : F[i] < E[k].body
    BY ZenonT(60), <2>4, <2>9
  <2>11. \A p \in DOMAIN P : /\ 0 < P[p] /\ P[p] <= top
                             /\ \A k \in DOMAIN E : E[k].body < P[p]
    BY ZenonT(60), <1>5, <2>1
  <2>12. \A p \in DOMAIN P : \A i \in DOMAIN F : F[i] < P[p]
    BY ZenonT(60), <1>5, <2>4, <2>5
  <2>13. \A i \in DOMAIN F : F[i] <= top
    BY ZenonT(60), <1>5, <2>4, <2>5
  <2>14. delivered'[n] = F /\ chan'[n] = E /\ st'[m] = st[m] /\ sends'[m] = top
    BY ZenonT(60), <1>3, <1>7, <2>3
  <2> QED BY ZenonT(60), <1>5, <2>6, <2>8, <2>10, <2>11, <2>12, <2>13, <2>14 DEF Lane
<1> QED BY ZenonT(60), <1>6, <1>7 DEF Ordered

LEMMA StepOrder ==
  ASSUME OInv, NEW n \in Nodes, NEW took \in BOOLEAN, NEW s, NEW frames, NEW keys \in Nat,
         NEW payloads \in Seq(Nat), NEW sent \in {0, 1},
         Emits(n, took, s, frames, keys, payloads, sent), Typed(n, took, s, frames),
         Ordered(n, took, s, frames, payloads, sent), mishaps' \subseteq {"late", "restart", "tagged"}
  PROVE  OInv'
<1>1. After(n, took, s, frames, payloads, sent)
  BY AfterEmits DEF OInv
<1>2. TypeOK' /\ KeysOK'
  BY <1>1, StepTypes DEF OInv
<1>3. Lane(n, Other(n))' /\ Lane(Other(n), n)'
  BY <1>1, LaneOut, LaneIn DEF OInv
<1>4. OrderInv'
  BY ZenonT(60), <1>3, TwoNodes DEF OrderInv
<1> QED BY <1>2, <1>4 DEF OInv

-----------------------------------------------------------------------------
(* Peer entries and frames the handlers build. *)

GmStates == {"none", "waitCookie", "waitMsg2", "waitMsg1", "waitRetry", "waitMsg3", "unbound", "ready"}

LEMMA EntryTypes ==
  ASSUME NEW s \in PeerEntry
  PROVE  /\ s.session \in Keys /\ s.sctr \in Nat /\ s.rctr \in Nat /\ s.gm \in GmStates
         /\ s.gmKey \in Keys /\ s.gm_failed \in BOOLEAN /\ s.gm_gen \in Nat
         /\ s.timers \in SUBSET Nat /\ s.hs \in Nat /\ s.pending \in Seq(Nat)
BY ZenonT(60) DEF PeerEntry, GmStates

(* The GM-PQ part of an entry changes. *)
LEMMA BecomesEntry ==
  ASSUME NEW n \in Nodes, st[n] \in PeerEntry, NEW g \in GmStates, NEW key \in Keys
  PROVE  /\ Becomes(n, g, key) \in PeerEntry
         /\ Becomes(n, g, key).gm = g /\ Becomes(n, g, key).gmKey = key
         /\ Becomes(n, g, key).session = st[n].session /\ Becomes(n, g, key).hs = st[n].hs
         /\ Becomes(n, g, key).pending = st[n].pending
         /\ Becomes(n, g, key).gm_failed = st[n].gm_failed
BY ZenonT(60) DEF Becomes, PeerEntry, GmStates

LEMMA SealedFrames ==
  ASSUME NEW s \in PeerEntry, NEW xs \in Seq(Nat), \A k \in DOMAIN xs : 0 < xs[k]
  PROVE  /\ Sealed(s, xs) \in Seq(Frames) /\ DOMAIN Sealed(s, xs) = DOMAIN xs
         /\ \A k \in DOMAIN xs : /\ Sealed(s, xs)[k].body = xs[k]
                                /\ Sealed(s, xs)[k].kind \in {"GM_DATA", "CIPHER"}
                                /\ WellFormed(Sealed(s, xs)[k])
<1> DEFINE g(k) == IF s.gm = "ready" THEN GmData(s, xs[k]) ELSE Cipher(s, k - 1, xs[k])
<1>1. Len(xs) \in Nat /\ DOMAIN xs = 1 .. Len(xs)
  OBVIOUS
<1>2. ASSUME NEW k \in 1 .. Len(xs)
      PROVE  /\ g(k) \in Frames /\ g(k).body = xs[k] /\ g(k).kind \in {"GM_DATA", "CIPHER"}
             /\ WellFormed(g(k))
  <2>1. xs[k] \in Nat /\ 0 < xs[k] /\ k - 1 \in Nat /\ s.gmKey \in Keys /\ s.session \in Keys /\ s.sctr + (k - 1) \in Nat
    BY SMT, SMTT(30), ZenonT(60), <1>1, EntryTypes
  <2>2. GmData(s, xs[k]) = [kind |-> "GM_DATA", key |-> s.gmKey, ctr |-> 0, body |-> xs[k]]
    BY DEF GmData, Frame
  <2>3. Cipher(s, k - 1, xs[k]) =
          [kind |-> "CIPHER", key |-> s.session, ctr |-> s.sctr + (k - 1), body |-> xs[k]]
    BY DEF Cipher
  <2>4. CASE s.gm = "ready"
    BY <2>1, <2>2, <2>4 DEF Frames, Kinds, WellFormed
  <2>5. CASE s.gm # "ready"
    BY <2>1, <2>3, <2>5 DEF Frames, Kinds, WellFormed
  <2> QED BY <2>4, <2>5
<1>3. Sealed(s, xs) = [k \in 1 .. Len(xs) |-> g(k)]
  BY DEF Sealed
<1> HIDE DEF g
<1> QED BY <1>1, <1>2, <1>3

(* flush_pending: the queue becomes frames, in its order. *)
LEMMA FlushedEntry ==
  ASSUME NEW s \in PeerEntry
  PROVE  /\ Flushed(s) \in PeerEntry /\ Flushed(s).pending = <<>>
         /\ Flushed(s).gm = s.gm /\ Flushed(s).gmKey = s.gmKey /\ Flushed(s).gm_failed = s.gm_failed
         /\ Flushed(s).session = s.session /\ Flushed(s).hs = s.hs
<1>1. Len(s.pending) \in Nat
  BY EntryTypes
<1>2. PICK c \in Nat : c = IF s.gm = "ready" THEN s.sctr ELSE s.sctr + Len(s.pending)
  BY <1>1, EntryTypes
<1> DEFINE t == [s EXCEPT !.sctr = c, !.pending = <<>>]
<1>3. Flushed(s) = t
  BY ZenonT(60), <1>2 DEF Flushed, AfterSeal, PeerEntry
<1>4. <<>> \in Seq(Nat)
  OBVIOUS
<1>5. /\ t \in PeerEntry /\ t.pending = <<>> /\ t.session = s.session /\ t.hs = s.hs
      /\ t.gm = s.gm /\ t.gmKey = s.gmKey /\ t.gm_failed = s.gm_failed
  BY ZenonT(60), <1>4 DEF PeerEntry
<1> HIDE DEF t
<1> QED BY <1>3, <1>5

(* A handler that sends no payload and leaves the queue alone keeps the order. *)
LEMMA QuietIsOrdered ==
  ASSUME OInv, NEW n \in Nodes, NEW took \in BOOLEAN, NEW s \in PeerEntry, NEW frames, NEW payloads,
         s.pending = st[n].pending, HasSession(s) => HasSession(st[n]),
         frames \in Seq(Frames), \A k \in DOMAIN frames : frames[k].body = 0,
         \/ payloads = <<>>
         \/ took /\ Loaded(Head(chan[n])) /\ payloads = <<Head(chan[n]).body>>
  PROVE  Ordered(n, took, s, frames, payloads, 0)
<1>1. /\ Increasing(st[n].pending)
      /\ \A p \in DOMAIN st[n].pending : 0 < st[n].pending[p]
      /\ HasSession(st[n]) => st[n].pending = <<>>
  BY ZenonT(60) DEF OInv, OrderInv, Lane
<1> QED BY ZenonT(60), <1>1 DEF Ordered, Loaded, Known

(* A handler that flushes keeps the order. *)
LEMMA FlushIsOrdered ==
  ASSUME OInv, NEW n \in Nodes, NEW took \in BOOLEAN, NEW s \in PeerEntry, s.pending = st[n].pending,
         NEW first \in Seq(Frames), \A k \in DOMAIN first : first[k].body = 0 /\ WellFormed(first[k])
  PROVE  /\ Ordered(n, took, Flushed(s), first \o FlushSends(s), <<>>, 0)
         /\ Ordered(n, took, Flushed(s), FlushSends(s), <<>>, 0)
         /\ FlushSends(s) \in Seq(Frames) /\ first \o FlushSends(s) \in Seq(Frames)
         /\ \A k \in DOMAIN FlushSends(s) : /\ WellFormed(FlushSends(s)[k])
                                             /\ FlushSends(s)[k].kind \in {"GM_DATA", "CIPHER"}
         /\ \A k \in DOMAIN (first \o FlushSends(s)) : WellFormed((first \o FlushSends(s))[k])
<1> DEFINE P == st[n].pending
           F == FlushSends(s)
<1>1. /\ Increasing(P)
      /\ \A p \in DOMAIN P : 0 < P[p]
  BY ZenonT(60) DEF OInv, OrderInv, Lane
<1>2. P \in Seq(Nat)
  BY EntryTypes
<1>3. /\ F \in Seq(Frames) /\ DOMAIN F = DOMAIN P
      /\ \A k \in DOMAIN P : F[k].body = P[k] /\ F[k].kind \in {"GM_DATA", "CIPHER"} /\ WellFormed(F[k])
  BY ZenonT(60), <1>1, <1>2, SealedFrames DEF FlushSends
<1>4. Flushed(s).pending = <<>>
  BY FlushedEntry
<1>5. Ordered(n, took, Flushed(s), F, <<>>, 0)
  BY <1>1, <1>3, <1>4 DEF Ordered, Known, Increasing
<1> HIDE DEF F
<1>6. first \o F \in Seq(Frames)
  BY ZenonT(60), <1>3, ConcatElements
<1>7. \A k \in DOMAIN (first \o F) :
        \/ k \in DOMAIN first /\ (first \o F)[k] = first[k]
        \/ k - Len(first) \in DOMAIN F /\ k \in Nat /\ (first \o F)[k] = F[k - Len(first)]
  BY <1>3, ConcatElements
<1>8. Ordered(n, took, Flushed(s), first \o F, <<>>, 0)
  <2> SUFFICES ASSUME NEW k \in DOMAIN (first \o F), Loaded((first \o F)[k])
               PROVE  /\ Known(n, (first \o F)[k].body, 0)
                      /\ \A l \in DOMAIN (first \o F) : k < l /\ Loaded((first \o F)[l]) =>
                            (first \o F)[k].body < (first \o F)[l].body
    BY <1>4 DEF Ordered, Increasing
  <2>1. k - Len(first) \in DOMAIN F /\ k \in Nat /\ (first \o F)[k] = F[k - Len(first)]
    BY ZenonT(60), <1>7 DEF Loaded
  <2>2. \A l \in DOMAIN (first \o F) : k < l /\ Loaded((first \o F)[l]) =>
          (first \o F)[k].body < (first \o F)[l].body
    <3> SUFFICES ASSUME NEW l \in DOMAIN (first \o F), k < l, Loaded((first \o F)[l])
                 PROVE  (first \o F)[k].body < (first \o F)[l].body
      BY ZenonT(60)
    <3>1. l - Len(first) \in DOMAIN F /\ l \in Nat /\ (first \o F)[l] = F[l - Len(first)]
      BY ZenonT(60), <1>7 DEF Loaded
    <3>2. k - Len(first) < l - Len(first)
      BY <2>1, <3>1
    <3> QED BY ZenonT(60), <1>1, <1>3, <2>1, <3>1, <3>2 DEF Increasing
  <2>3. Known(n, (first \o F)[k].body, 0)
    BY <1>3, <2>1 DEF Known
  <2> QED BY ZenonT(60), <2>2, <2>3
<1>9. \A k \in DOMAIN (first \o F) : WellFormed((first \o F)[k])
  BY ZenonT(60), <1>3, <1>7
<1> QED BY ZenonT(60), <1>3, <1>5, <1>6, <1>8, <1>9 DEF F

-----------------------------------------------------------------------------
(* The handlers, by what they do to the queue and to the other node. *)

Plain(frames) ==
  frames \in Seq(Frames) /\ \A k \in DOMAIN frames : frames[k].body = 0 /\ WellFormed(frames[k])

LEMMA PlainFrames ==
  /\ Plain(<<>>)
  /\ \A kind \in Kinds \ {"CIPHER"}, key \in Keys :
       (kind \in {"INIT", "RESP", "MSG1"} => key # <<>>) => Plain(<<Frame(kind, key)>>)
  /\ \A s \in PeerEntry : Plain(<<GmData(s, Bind)>>)
  /\ \A s \in PeerEntry, key \in Keys : Plain(<<Frame("MSG3", key), GmData(s, Bind)>>)
<1> DEFINE Fine(f) == f \in Frames /\ f.body = 0 /\ WellFormed(f)
<1>1. \A f : Fine(f) => Plain(<<f>>)
  <2> SUFFICES ASSUME NEW f, Fine(f) PROVE Plain(<<f>>)
    OBVIOUS
  <2>1. <<f>> \in Seq(Frames) /\ DOMAIN <<f>> = {1} /\ <<f>>[1] = f
    OBVIOUS
  <2> QED BY ZenonT(60), <2>1 DEF Plain
<1>2. \A f, g : Fine(f) /\ Fine(g) => Plain(<<f, g>>)
  <2> SUFFICES ASSUME NEW f, NEW g, Fine(f), Fine(g) PROVE Plain(<<f, g>>)
    OBVIOUS
  <2>1. <<f, g>> \in Seq(Frames) /\ DOMAIN <<f, g>> = {1, 2} /\ <<f, g>>[1] = f /\ <<f, g>>[2] = g
    OBVIOUS
  <2> QED BY ZenonT(60), <2>1 DEF Plain
<1>3. \A kind \in Kinds \ {"CIPHER"}, key \in Keys :
        (kind \in {"INIT", "RESP", "MSG1"} => key # <<>>) => Fine(Frame(kind, key))
  BY DEF Frame, Frames, WellFormed, Kinds
<1>4. \A s \in PeerEntry : Fine(GmData(s, Bind))
  BY EntryTypes DEF GmData, Bind, Frame, Frames, WellFormed, Kinds
<1>5. Plain(<<>>)
  BY DEF Plain
<1>6. "MSG3" \in Kinds \ {"CIPHER"} /\ "MSG3" \notin {"INIT", "RESP", "MSG1"}
  BY DEF Kinds
<1> HIDE DEF Fine
<1> QED BY ZenonT(60), <1>1, <1>2, <1>3, <1>4, <1>5, <1>6

LEMMA ReplyEmits ==
  ASSUME TypeOK, NEW n \in Nodes, NEW s, NEW frames, NEW keys, NEW payloads,
         Reply(n, s, frames, keys, payloads)
  PROVE  Emits(n, TRUE, s, frames, keys, payloads, 0)
<1>1. sends' = [sends EXCEPT ![n] = @ + 0]
  BY DEF Reply, TypeOK
<1> QED BY ZenonT(60), <1>1 DEF Reply, Emits

Calls == mishaps' \subseteq {"late", "restart", "tagged"}

(* A handler that leaves the queue alone. *)
LEMMA QuietStep ==
  ASSUME OInv, Calls, NEW n \in Nodes, NEW took \in BOOLEAN, took => chan[n] # <<>>,
         NEW s \in PeerEntry, s.pending = st[n].pending, HasSession(s) => HasSession(st[n]),
         s.hs # 0 => s.session = NoKey, s.gm = "waitRetry" => s.gmKey # <<>>,
         NEW frames, Plain(frames), NEW keys \in Nat, NEW payloads \in Seq(Nat),
         \/ payloads = <<>>
         \/ took /\ Loaded(Head(chan[n])) /\ payloads = <<Head(chan[n]).body>>,
         Emits(n, took, s, frames, keys, payloads, 0)
  PROVE  OInv'
<1>1. Typed(n, took, s, frames)
  BY ZenonT(60) DEF Typed, Plain
<1>2. Ordered(n, took, s, frames, payloads, 0)
  BY ZenonT(60), QuietIsOrdered DEF Plain
<1>3. 0 \in {0, 1}
  OBVIOUS
<1> QED BY ZenonT(60), <1>1, <1>2, <1>3, StepOrder DEF Calls

LEMMA QuietReply ==
  ASSUME OInv, Calls, NEW n \in Nodes, chan[n] # <<>>,
         NEW s \in PeerEntry, s.pending = st[n].pending, HasSession(s) => HasSession(st[n]),
         s.hs # 0 => s.session = NoKey, s.gm = "waitRetry" => s.gmKey # <<>>,
         NEW frames, Plain(frames), NEW keys \in Nat, Reply(n, s, frames, keys, <<>>)
  PROVE  OInv'
<1>1. <<>> \in Seq(Nat)
  OBVIOUS
<1>2. Emits(n, TRUE, s, frames, keys, <<>>, 0)
  BY ZenonT(60), ReplyEmits DEF OInv
<1> QED BY ZenonT(60), <1>1, <1>2, QuietStep

(* A handler that makes a session and flushes. *)
LEMMA FlushReply ==
  ASSUME OInv, Calls, NEW n \in Nodes, chan[n] # <<>>,
         NEW s \in PeerEntry, s.pending = st[n].pending,
         s.hs # 0 => s.session = NoKey, s.gm # "waitRetry" \/ s.gmKey # <<>>,
         NEW first, Plain(first), NEW keys \in Nat,
         \/ Reply(n, Flushed(s), first \o FlushSends(s), keys, <<>>)
         \/ Reply(n, Flushed(s), FlushSends(s), keys, <<>>)
  PROVE  OInv'
<1>1. <<>> \in Seq(Nat) /\ 0 \in {0, 1}
  OBVIOUS
<1>2. /\ Flushed(s) \in PeerEntry /\ Flushed(s).gm = s.gm /\ Flushed(s).gmKey = s.gmKey
      /\ Flushed(s).session = s.session /\ Flushed(s).hs = s.hs
  BY ZenonT(60), FlushedEntry
<1>3. PICK frames : /\ frames = first \o FlushSends(s) \/ frames = FlushSends(s)
                    /\ Reply(n, Flushed(s), frames, keys, <<>>)
  BY ZenonT(60)
<1>4. /\ Ordered(n, TRUE, Flushed(s), frames, <<>>, 0) /\ frames \in Seq(Frames)
      /\ \A k \in DOMAIN frames : WellFormed(frames[k])
  BY ZenonT(60), <1>3, FlushIsOrdered DEF Plain
<1>5. Typed(n, TRUE, Flushed(s), frames)
  BY ZenonT(60), <1>2, <1>4 DEF Typed
<1>6. Emits(n, TRUE, Flushed(s), frames, keys, <<>>, 0)
  BY ZenonT(60), <1>3, ReplyEmits DEF OInv
<1> QED BY ZenonT(60), <1>1, <1>4, <1>5, <1>6, StepOrder DEF Calls

LEMMA OwnEntry ==
  ASSUME OInv, NEW n \in Nodes
  PROVE  /\ st[n] \in PeerEntry /\ fresh \in Nat /\ fresh + 1 \in Nat
         /\ st[n].hs # 0 => st[n].session = NoKey
         /\ st[n].gm = "waitRetry" => st[n].gmKey # <<>>
<1>1. /\ st \in [Nodes -> PeerEntry] /\ fresh \in Nat
      /\ st[n].hs # 0 => st[n].session = NoKey
      /\ st[n].gm = "waitRetry" => st[n].gmKey # <<>>
  BY ZenonT(60) DEF OInv, TypeOK, KeysOK
<1> QED BY <1>1

LEMMA HeadFrame ==
  ASSUME OInv, NEW n \in Nodes, NEW kind, Next1(n, kind)
  PROVE  /\ chan[n] # <<>> /\ Head(chan[n]) = chan[n][1] /\ 1 \in DOMAIN chan[n]
         /\ Head(chan[n]).kind = kind
         /\ Head(chan[n]).key \in Keys /\ Head(chan[n]).body \in Nat /\ WellFormed(Head(chan[n]))
<1>1. /\ chan \in [Nodes -> Seq(Frames)] /\ chan[n] # <<>> /\ Head(chan[n]).kind = kind
      /\ \A k \in DOMAIN chan[n] : WellFormed(chan[n][k])
  BY ZenonT(60) DEF OInv, TypeOK, KeysOK, Next1, Frames
<1>2. chan[n] \in Seq(Frames)
  BY <1>1
<1>3. Head(chan[n]) \in Frames /\ Head(chan[n]) = chan[n][1] /\ 1 \in DOMAIN chan[n]
  BY ZenonT(60), <1>1, <1>2, TailElements
<1>4. Head(chan[n]).key \in Keys /\ Head(chan[n]).body \in Nat
  BY <1>3 DEF Frames
<1> QED BY ZenonT(60), <1>1, <1>3, <1>4

LEMMA FirstKey == \A key \in Keys : key # <<>> => key[1] \in Nat
BY DEF Keys

(* hs_accept and hs_finish make a session and end the handshake; hs_start and
   gm_start begin one. *)
LEMMA AcceptedEntry ==
  ASSUME NEW s \in PeerEntry, NEW f, f.key[1] \in Nat, fresh + 1 \in Nat
  PROVE  /\ HsAccepted(s, f) \in PeerEntry /\ HsAccepted(s, f).session = <<f.key[1], fresh + 1>>
         /\ HsAccepted(s, f).hs = 0 /\ HsAccepted(s, f).pending = s.pending
         /\ HsAccepted(s, f).gm = s.gm /\ HsAccepted(s, f).gmKey = s.gmKey
         /\ HsAccepted(s, f).gm_failed = s.gm_failed
<1>1. <<f.key[1], fresh + 1>> \in Keys /\ 0 \in Nat
  BY DEF Keys
<1> QED BY ZenonT(60), <1>1 DEF HsAccepted, Derived, PeerEntry

LEMMA FinishedEntry ==
  ASSUME NEW s \in PeerEntry, NEW f, f.key[1] \in Nat
  PROVE  /\ HsFinished(s, f) \in PeerEntry /\ HsFinished(s, f).session = <<s.hs, f.key[1]>>
         /\ HsFinished(s, f).hs = 0 /\ HsFinished(s, f).pending = s.pending
         /\ HsFinished(s, f).gm = s.gm /\ HsFinished(s, f).gmKey = s.gmKey
         /\ HsFinished(s, f).gm_failed = s.gm_failed
<1>1. <<s.hs, f.key[1]>> \in Keys /\ 0 \in Nat
  BY EntryTypes DEF Keys
<1> QED BY ZenonT(60), <1>1 DEF HsFinished, Derived, PeerEntry

LEMMA HsStartedEntry ==
  ASSUME NEW s \in PeerEntry, fresh \in Nat
  PROVE  /\ HsStarted(s) \in PeerEntry /\ HsStarted(s).hs = fresh + 1 /\ HsStarted(s).pending = s.pending
         /\ HsStarted(s).session = s.session
         /\ HsStarted(s).gm = s.gm /\ HsStarted(s).gmKey = s.gmKey /\ HsStarted(s).gm_failed = s.gm_failed
<1>1. fresh + 1 \in Nat
  OBVIOUS
<1> QED BY ZenonT(60), <1>1 DEF HsStarted, PeerEntry

LEMMA GmStartedEntry ==
  ASSUME NEW s \in PeerEntry, NEW n \in Nodes, fresh \in Nat
  PROVE  LET t == GmStarted(n, s) IN
         /\ t \in PeerEntry /\ t.pending = s.pending /\ t.session = s.session /\ t.hs = s.hs
         /\ t.gm = IF n = 1 THEN "waitCookie" ELSE "waitMsg1"
         /\ t.gm_failed = s.gm_failed
         /\ Plain(GmStartSends(n)) /\ GmStartKeys(n) \in Nat
<1>1. PICK g \in GmStates : g = IF n = 1 THEN "waitCookie" ELSE "waitMsg1"
  BY DEF GmStates
<1>2. PICK key \in Keys : key = IF n = 1 THEN <<fresh + 1>> ELSE NoKey
  <2>1. fresh + 1 \in Nat
    OBVIOUS
  <2>2. <<fresh + 1>> \in Keys /\ NoKey \in Keys
    BY <2>1 DEF Keys, NoKey
  <2> QED BY ZenonT(60), <2>2
<1>3. PICK c \in Nat : c = s.gm_gen + 1
  BY EntryTypes
<1>4. s.timers \cup {c} \in SUBSET Nat
  BY EntryTypes
<1>5. GmStarted(n, s) = [s EXCEPT !.gm = g, !.gmKey = key, !.gm_gen = c, !.timers = s.timers \cup {c}]
  BY ZenonT(60), <1>1, <1>2, <1>3 DEF GmStarted, PeerEntry
<1> DEFINE t == [s EXCEPT !.gm = g, !.gmKey = key, !.gm_gen = c, !.timers = s.timers \cup {c}]
<1>6. /\ t \in PeerEntry /\ t.pending = s.pending /\ t.session = s.session /\ t.hs = s.hs
      /\ t.gm = g /\ t.gm_failed = s.gm_failed
  BY ZenonT(60), <1>4 DEF PeerEntry, GmStates
<1>7. Plain(GmStartSends(n)) /\ GmStartKeys(n) \in Nat
  <2>1. "MSG1" \in Kinds \ {"CIPHER"} /\ "KICK" \in Kinds \ {"CIPHER"} /\ "KICK" \notin {"INIT", "RESP", "MSG1"}
    BY DEF Kinds
  <2>2. <<fresh + 1>> \in Keys /\ <<fresh + 1>> # <<>> /\ NoKey \in Keys
    BY DEF Keys, NoKey
  <2>3. Plain(<<Frame("MSG1", <<fresh + 1>>)>>) /\ Plain(<<Frame("KICK", NoKey)>>)
    BY ZenonT(60), <2>1, <2>2, PlainFrames
  <2> QED BY <2>3 DEF GmStartSends, GmStartKeys
<1> HIDE DEF t
<1> QED BY <1>1, <1>5, <1>6, <1>7 DEF t

-----------------------------------------------------------------------------
(* Every action keeps the order. *)

LEMMA IgnoreOrder ==
  ASSUME OInv, Calls, NEW n \in Nodes, chan[n] # <<>>, Ignore(n)
  PROVE  OInv'
<1>1. Plain(<<>>) /\ 0 \in Nat
  BY PlainFrames
<1> QED BY ZenonT(60), <1>1, OwnEntry, QuietReply DEF Ignore

(* A handler that only moves the GM-PQ state on. *)
LEMMA BecomesOrder ==
  ASSUME OInv, Calls, NEW n \in Nodes, chan[n] # <<>>, NEW g \in GmStates, g # "ready",
         NEW key \in Keys, g = "waitRetry" => key # <<>>, NEW frames, Plain(frames), NEW keys \in Nat,
         Reply(n, Becomes(n, g, key), frames, keys, <<>>)
  PROVE  OInv'
<1>1. st[n] \in PeerEntry
  BY ZenonT(60), OwnEntry
<1>2. /\ Becomes(n, g, key) \in PeerEntry /\ Becomes(n, g, key).gm = g /\ Becomes(n, g, key).gmKey = key
      /\ Becomes(n, g, key).session = st[n].session /\ Becomes(n, g, key).hs = st[n].hs
      /\ Becomes(n, g, key).pending = st[n].pending
  BY <1>1, BecomesEntry
<1> QED BY ZenonT(60), <1>2, OwnEntry, QuietReply DEF HasSession

LEMMA ErasedOrder ==
  ASSUME OInv, Calls, NEW n \in Nodes, chan[n] # <<>>, Erased(n)
  PROVE  OInv'
<1>1. Plain(<<>>) /\ 0 \in Nat /\ "none" \in GmStates /\ NoKey \in Keys /\ "none" # "waitRetry" /\ "none" # "ready"
  BY PlainFrames DEF GmStates, Keys, NoKey
<1>2. Reply(n, Becomes(n, "none", NoKey), <<>>, 0, <<>>)
  BY ZenonT(60) DEF Erased, Becomes
<1> QED BY ZenonT(60), <1>1, <1>2, BecomesOrder

LEMMA KickOrder ==
  ASSUME OInv, Calls, NEW n \in Nodes, chan[n] # <<>>, OnKick(n)
  PROVE  OInv'
<1>1. CASE Ignore(n)
  BY <1>1, IgnoreOrder
<1>2. CASE Reply(n, GmStarted(n, st[n]), GmStartSends(n), GmStartKeys(n), <<>>)
  <2> DEFINE t == GmStarted(n, st[n])
  <2>1. /\ t \in PeerEntry /\ t.pending = st[n].pending /\ t.session = st[n].session /\ t.hs = st[n].hs
        /\ t.gm = IF n = 1 THEN "waitCookie" ELSE "waitMsg1"
        /\ Plain(GmStartSends(n)) /\ GmStartKeys(n) \in Nat
    BY ZenonT(60), OwnEntry, GmStartedEntry
  <2> HIDE DEF t
  <2>2. t.gm # "waitRetry" /\ t.gm # "ready"
    BY <2>1
  <2>3. Reply(n, t, GmStartSends(n), GmStartKeys(n), <<>>)
    BY ZenonT(60), <1>2 DEF t
  <2> QED BY ZenonT(60), <2>1, <2>2, <2>3, OwnEntry, QuietReply DEF HasSession
<1>3. CASE Reply(n, Becomes(n, "waitMsg1", NoKey), <<>>, 0, <<>>)
  <2>1. /\ Plain(<<>>) /\ 0 \in Nat /\ "waitMsg1" \in GmStates /\ NoKey \in Keys
        /\ "waitMsg1" # "waitRetry" /\ "waitMsg1" # "ready"
    BY PlainFrames DEF GmStates, Keys, NoKey
  <2> QED BY ZenonT(60), <1>3, <2>1, BecomesOrder
<1> QED BY ZenonT(60), <1>1, <1>2, <1>3 DEF OnKick

LEMMA Msg1Order ==
  ASSUME OInv, Calls, NEW n \in Nodes, chan[n] # <<>>, NEW e \in Keys, e # <<>>, OnMsg1(n, e)
  PROVE  OInv'
<1>1. CASE Ignore(n)
  BY <1>1, IgnoreOrder
<1>2. CASE Reply(n, Becomes(n, "waitRetry", e), <<Frame("COOKIE", e)>>, 0, <<>>)
  <2>1. /\ 0 \in Nat /\ "waitRetry" \in GmStates /\ "waitRetry" # "ready"
        /\ "COOKIE" \in Kinds \ {"CIPHER"} /\ "COOKIE" \notin {"INIT", "RESP", "MSG1"}
    BY DEF GmStates, Kinds
  <2>2. Plain(<<Frame("COOKIE", e)>>)
    BY ZenonT(60), <2>1, PlainFrames
  <2> QED BY ZenonT(60), <1>2, <2>1, <2>2, BecomesOrder
<1> QED BY ZenonT(60), <1>1, <1>2 DEF OnMsg1

LEMMA CookieOrder ==
  ASSUME OInv, Calls, NEW n \in Nodes, chan[n] # <<>>, NEW c \in Keys, OnCookie(n, c)
  PROVE  OInv'
<1>1. CASE Ignore(n)
  BY <1>1, IgnoreOrder
<1>2. CASE Erased(n)
  BY <1>2, ErasedOrder
<1>3. CASE Reply(n, [st[n] EXCEPT !.gm = "waitMsg2"], <<Frame("MSG1_RETRY", c \o st[n].gmKey)>>, 0, <<>>)
  <2>1. /\ 0 \in Nat /\ "waitMsg2" \in GmStates /\ "waitMsg2" # "ready" /\ "waitMsg2" # "waitRetry"
        /\ "MSG1_RETRY" \in Kinds \ {"CIPHER"} /\ "MSG1_RETRY" \notin {"INIT", "RESP", "MSG1"}
    BY DEF GmStates, Kinds
  <2>2. st[n].gmKey \in Keys
    BY ZenonT(60), OwnEntry, EntryTypes
  <2>3. c \o st[n].gmKey \in Keys
    BY <2>2 DEF Keys
  <2>4. Plain(<<Frame("MSG1_RETRY", c \o st[n].gmKey)>>)
    BY ZenonT(60), <2>1, <2>3, PlainFrames
  <2>5. [st[n] EXCEPT !.gm = "waitMsg2"] = Becomes(n, "waitMsg2", st[n].gmKey)
    BY ZenonT(60), OwnEntry DEF Becomes, PeerEntry
  <2>6. Reply(n, Becomes(n, "waitMsg2", st[n].gmKey), <<Frame("MSG1_RETRY", c \o st[n].gmKey)>>, 0, <<>>)
    BY <1>3, <2>5
  <2> QED BY ZenonT(60), <2>1, <2>2, <2>4, <2>6, BecomesOrder
<1> QED BY ZenonT(60), <1>1, <1>2, <1>3 DEF OnCookie

LEMMA X25519Order ==
  ASSUME OInv, Calls, NEW n \in Nodes, HandleInit(n) \/ HandleResp(n) \/ HandleCipher(n)
  PROVE  OInv'
<1> DEFINE f == Head(chan[n])
<1>1. /\ st[n] \in PeerEntry /\ fresh + 1 \in Nat /\ 0 \in Nat /\ 1 \in Nat /\ st[n].hs \in Nat
      /\ st[n].gm = "waitRetry" => st[n].gmKey # <<>>
  BY OwnEntry, EntryTypes
<1>2. CASE HandleInit(n)
  <2>1. chan[n] # <<>> /\ f.key \in Keys /\ f.key # <<>>
    BY ZenonT(60), <1>2, HeadFrame DEF HandleInit, WellFormed
  <2>2. CASE Ignore(n)
    BY ZenonT(60), <2>1, <2>2, IgnoreOrder
  <2> DEFINE s == HsAccepted(st[n], f)
  <2>3. CASE Reply(n, Flushed(s), <<HsResp>> \o FlushSends(s), 1, <<>>)
    <3>1. f.key[1] \in Nat
      BY ZenonT(60), <2>1, FirstKey
    <3>2. s \in PeerEntry /\ s.hs = 0 /\ s.pending = st[n].pending /\ s.gm = st[n].gm /\ s.gmKey = st[n].gmKey
      BY ZenonT(60), <1>1, <3>1, AcceptedEntry
    <3>3. "RESP" \in Kinds \ {"CIPHER"} /\ <<fresh + 1>> \in Keys /\ <<fresh + 1>> # <<>>
      BY <1>1 DEF Kinds, Keys
    <3>4. Plain(<<HsResp>>)
      BY ZenonT(60), <3>3, PlainFrames DEF HsResp
    <3> HIDE DEF s
    <3> QED BY ZenonT(60), <1>1, <2>1, <2>3, <3>2, <3>4, FlushReply
  <2> QED BY ZenonT(60), <1>2, <2>2, <2>3 DEF HandleInit
<1>3. CASE HandleResp(n)
  <2>1. chan[n] # <<>> /\ f.key \in Keys /\ f.key # <<>>
    BY ZenonT(60), <1>3, HeadFrame DEF HandleResp, WellFormed
  <2>2. CASE Ignore(n)
    BY ZenonT(60), <2>1, <2>2, IgnoreOrder
  <2> DEFINE s == HsFinished(st[n], f)
  <2>3. CASE Reply(n, Flushed(s), FlushSends(s), 0, <<>>)
    <3>1. f.key[1] \in Nat
      BY ZenonT(60), <2>1, FirstKey
    <3>2. s \in PeerEntry /\ s.hs = 0 /\ s.pending = st[n].pending /\ s.gm = st[n].gm /\ s.gmKey = st[n].gmKey
      BY ZenonT(60), <1>1, <3>1, FinishedEntry
    <3>3. Plain(<<>>)
      BY ZenonT(60), PlainFrames
    <3> HIDE DEF s
    <3> QED BY ZenonT(60), <1>1, <2>1, <2>3, <3>2, <3>3, FlushReply
  <2> QED BY ZenonT(60), <1>3, <2>2, <2>3 DEF HandleResp
<1>4. CASE HandleCipher(n)
  <2>1. chan[n] # <<>> /\ f.body \in Nat /\ f.body # 0
    BY ZenonT(60), <1>4, HeadFrame DEF HandleCipher, WellFormed
  <2>2. CASE Ignore(n)
    BY ZenonT(60), <2>1, <2>2, IgnoreOrder
  <2>3. CASE Reply(n, AfterOpen(st[n]), <<>>, 0, <<f.body>>)
    <3> DEFINE s == AfterOpen(st[n])
    <3>1. st[n].rctr + 1 \in Nat
      BY <1>1, EntryTypes
    <3>2. /\ s \in PeerEntry /\ s.hs = st[n].hs /\ s.session = st[n].session /\ s.pending = st[n].pending
          /\ s.gm = st[n].gm /\ s.gmKey = st[n].gmKey
      BY ZenonT(60), <1>1, <3>1 DEF AfterOpen, PeerEntry
    <3>3. Plain(<<>>) /\ <<f.body>> \in Seq(Nat)
      BY <2>1, PlainFrames
    <3>4. Emits(n, TRUE, s, <<>>, 0, <<f.body>>, 0)
      BY ZenonT(60), <2>3, ReplyEmits DEF OInv
    <3> HIDE DEF s
    <3> QED BY ZenonT(60), <1>1, <2>1, <3>2, <3>3, <3>4, OwnEntry, QuietStep DEF HasSession, Loaded
  <2> QED BY ZenonT(60), <1>4, <2>2, <2>3 DEF HandleCipher
<1> QED BY <1>2, <1>3, <1>4

LEMMA GmOrder ==
  ASSUME OInv, Calls, NEW n \in Nodes,
         \/ HandleKick(n) \/ HandleMsg1(n) \/ HandleCookie(n) \/ HandleRetry(n)
         \/ HandleMsg2(n) \/ HandleMsg3(n) \/ HandleGmData(n)
  PROVE  OInv'
<1> DEFINE f == Head(chan[n])
<1>1. /\ st[n] \in PeerEntry /\ st[n].gmKey \in Keys /\ fresh + 1 \in Nat /\ 0 \in Nat /\ 1 \in Nat
      /\ st[n].gm = "waitRetry" => st[n].gmKey # <<>>
  BY OwnEntry, EntryTypes
<1>2. chan[n] # <<>> /\ f.key \in Keys /\ f.body \in Nat /\ (f.kind = "MSG1" => f.key # <<>>)
  BY ZenonT(60), HeadFrame DEF HandleKick, HandleMsg1, HandleCookie, HandleRetry, HandleMsg2, HandleMsg3,
     HandleGmData, WellFormed
<1>3. ASSUME Ignore(n) PROVE OInv'
  BY ZenonT(60), <1>2, <1>3, IgnoreOrder
<1>4. ASSUME Erased(n) PROVE OInv'
  BY ZenonT(60), <1>2, <1>4, ErasedOrder
<1>5. CASE HandleKick(n)
  BY ZenonT(60), <1>2, <1>5, KickOrder DEF HandleKick
<1>6. CASE HandleMsg1(n)
  BY ZenonT(60), <1>2, <1>6, Msg1Order DEF HandleMsg1, Next1
<1>7. CASE HandleCookie(n)
  BY ZenonT(60), <1>2, <1>7, CookieOrder DEF HandleCookie
<1>8. CASE HandleRetry(n)
  <2> DEFINE key == <<st[n].gmKey[1], fresh + 1>>
  <2>1. CASE /\ st[n].gm = "waitRetry"
             /\ Reply(n, Becomes(n, "waitMsg3", key), <<Frame("MSG2", key)>>, 1, <<>>)
    <3>1. st[n].gmKey[1] \in Nat
      BY ZenonT(60), <1>1, <2>1, FirstKey
    <3>2. key \in Keys
      BY <1>1, <3>1 DEF Keys
    <3>3. /\ "waitMsg3" \in GmStates /\ "waitMsg3" # "ready" /\ "waitMsg3" # "waitRetry"
          /\ "MSG2" \in Kinds \ {"CIPHER"} /\ "MSG2" \notin {"INIT", "RESP", "MSG1"}
      BY DEF GmStates, Kinds
    <3> HIDE DEF key
    <3>4. Plain(<<Frame("MSG2", key)>>)
      BY ZenonT(60), <3>2, <3>3, PlainFrames
    <3> QED BY ZenonT(60), <1>1, <1>2, <2>1, <3>2, <3>3, <3>4, BecomesOrder
  <2> QED BY ZenonT(60), <1>3, <1>4, <1>8, <2>1 DEF HandleRetry
<1>9. CASE HandleMsg2(n) \/ HandleMsg3(n)
  <2> DEFINE s == Becomes(n, "unbound", f.key)
  <2>1. "unbound" \in GmStates /\ "unbound" # "ready" /\ "unbound" # "waitRetry"
    BY DEF GmStates
  <2>2. s \in PeerEntry
    BY ZenonT(60), <1>1, <1>2, <2>1, BecomesEntry
  <2>3. Plain(<<GmData(s, Bind)>>) /\ Plain(<<Frame("MSG3", f.key), GmData(s, Bind)>>)
    BY ZenonT(60), <1>2, <2>2, PlainFrames
  <2>4. CASE \/ Reply(n, s, <<Frame("MSG3", f.key), GmData(s, Bind)>>, 0, <<>>)
             \/ Reply(n, s, <<GmData(s, Bind)>>, 0, <<>>)
    BY ZenonT(60), <1>1, <1>2, <2>1, <2>3, <2>4, BecomesOrder
  <2> QED BY ZenonT(60), <1>3, <1>4, <1>9, <2>4 DEF HandleMsg2, HandleMsg3
<1>10. CASE HandleGmData(n)
  <2> DEFINE s == [st[n] EXCEPT !.gm = "ready"]
  <2>1. CASE Reply(n, Flushed(s), FlushSends(s), 0, <<>>)
    <3>1. "ready" \in GmStates /\ "ready" # "waitRetry"
      BY DEF GmStates
    <3>2. s = Becomes(n, "ready", st[n].gmKey)
      BY ZenonT(60), <1>1 DEF Becomes, PeerEntry
    <3> HIDE DEF s
    <3>3. /\ s \in PeerEntry /\ s.gm = "ready" /\ s.hs = st[n].hs /\ s.session = st[n].session
          /\ s.pending = st[n].pending
      BY <1>1, <3>1, <3>2, BecomesEntry
    <3>4. Plain(<<>>)
      BY ZenonT(60), PlainFrames
    <3> QED BY ZenonT(60), <1>1, <1>2, <2>1, <3>1, <3>3, <3>4, OwnEntry, FlushReply
  <2>2. CASE f.body # Bind /\ Reply(n, st[n], <<>>, 0, <<f.body>>)
    <3>1. Plain(<<>>) /\ <<f.body>> \in Seq(Nat)
      BY <1>2, PlainFrames
    <3>2. Emits(n, TRUE, st[n], <<>>, 0, <<f.body>>, 0)
      BY ZenonT(60), <2>2, ReplyEmits DEF OInv
    <3> QED BY ZenonT(60), <1>1, <1>2, <2>2, <3>1, <3>2, OwnEntry, QuietStep DEF Loaded, Bind
  <2> QED BY ZenonT(60), <1>3, <1>10, <2>1, <2>2 DEF HandleGmData
<1> QED BY ZenonT(60), <1>5, <1>6, <1>7, <1>8, <1>9, <1>10

(* A send_to that queues its payload. *)
LEMMA QueueStep ==
  ASSUME OInv, Calls, NEW n \in Nodes, NEW s \in PeerEntry, s.pending = Append(st[n].pending, sends[n] + 1),
         ~HasSession(s), s.hs # 0 => s.session = NoKey, s.gm = "waitRetry" => s.gmKey # <<>>,
         NEW frames, Plain(frames), NEW keys \in Nat, Emits(n, FALSE, s, frames, keys, <<>>, 1)
  PROVE  OInv'
<1> DEFINE P == st[n].pending
           x == sends[n] + 1
<1>1. P \in Seq(Nat) /\ sends[n] \in Nat
  <2>1. sends \in [Nodes -> Nat]
    BY ZenonT(60) DEF OInv, TypeOK
  <2> QED BY <2>1, OwnEntry, EntryTypes
<1>2. Increasing(P) /\ \A p \in DOMAIN P : 0 < P[p] /\ P[p] <= sends[n]
  BY ZenonT(60) DEF OInv, OrderInv, Lane
<1>3. \A p \in DOMAIN Append(P, x) : /\ p \in Nat
                                    /\ \/ p \in DOMAIN P /\ Append(P, x)[p] = P[p] /\ p <= Len(P)
                                       \/ p = Len(P) + 1 /\ Append(P, x)[p] = x
  BY <1>1
<1>4. \A p \in DOMAIN P : P[p] < x /\ P[p] \in Nat
  BY SMT, SMTT(30), ZenonT(60), <1>1, <1>2
<1>5. Increasing(Append(P, x))
  <2> SUFFICES ASSUME NEW p \in DOMAIN Append(P, x), NEW r \in DOMAIN Append(P, x), p < r
               PROVE  Append(P, x)[p] < Append(P, x)[r]
    BY ZenonT(60) DEF Increasing
  <2>1. p \in DOMAIN P /\ Append(P, x)[p] = P[p]
    BY SMT, SMTT(30), ZenonT(60), <1>1, <1>3
  <2>2. CASE r \in DOMAIN P /\ Append(P, x)[r] = P[r]
    BY ZenonT(60), <1>2, <2>1, <2>2 DEF Increasing
  <2>3. CASE Append(P, x)[r] = x
    BY <1>4, <2>1, <2>3
  <2> QED BY ZenonT(60), <1>3, <2>2, <2>3
<1>6. \A p \in DOMAIN Append(P, x) : Known(n, Append(P, x)[p], 1) /\ 0 < Append(P, x)[p]
  <2>1. 0 < x
    BY <1>1
  <2> QED BY ZenonT(60), <1>2, <1>3, <2>1 DEF Known
<1>7. Ordered(n, FALSE, s, frames, <<>>, 1)
  BY ZenonT(60), <1>5, <1>6 DEF Ordered, Plain, Loaded
<1>8. Typed(n, FALSE, s, frames)
  BY ZenonT(60) DEF Typed, Plain
<1>9. <<>> \in Seq(Nat) /\ 1 \in {0, 1}
  OBVIOUS
<1> QED BY ZenonT(60), <1>7, <1>8, <1>9, StepOrder DEF Calls

(* A send_to that seals its payload. *)
LEMMA SealStep ==
  ASSUME OInv, Calls, NEW n \in Nodes, HasSession(st[n]),
         Emits(n, FALSE, AfterSeal(st[n], <<sends[n] + 1>>), Sealed(st[n], <<sends[n] + 1>>), 0, <<>>, 1)
  PROVE  OInv'
<1> DEFINE x == sends[n] + 1
           s == AfterSeal(st[n], <<x>>)
           frames == Sealed(st[n], <<x>>)
<1>1. sends[n] \in Nat
  BY DEF OInv, TypeOK
<1>2. /\ <<x>> \in Seq(Nat) /\ DOMAIN <<x>> = {1} /\ <<x>>[1] = x /\ 0 < x /\ Len(<<x>>) = 1
      /\ <<>> \in Seq(Nat) /\ 1 \in {0, 1} /\ 0 \in Nat
  BY <1>1
<1>3. st[n] \in PeerEntry
  BY ZenonT(60), OwnEntry
<1>4. \A k \in DOMAIN <<x>> : 0 < <<x>>[k]
  BY ZenonT(60), <1>2
<1>5. /\ frames \in Seq(Frames) /\ DOMAIN frames = {1}
      /\ frames[1].body = x /\ WellFormed(frames[1])
  BY ZenonT(60), <1>2, <1>3, <1>4, SealedFrames
<1>6. /\ s \in PeerEntry /\ s.pending = st[n].pending /\ s.hs = st[n].hs /\ s.session = st[n].session
      /\ s.gm = st[n].gm /\ s.gmKey = st[n].gmKey
  <2>1. st[n].sctr + Len(<<x>>) \in Nat
    BY <1>2, <1>3, EntryTypes
  <2> QED BY ZenonT(60), <1>3, <2>1 DEF AfterSeal, PeerEntry
<1> HIDE DEF s, frames
<1>7. st[n].pending = <<>>
  BY ZenonT(60) DEF OInv, OrderInv, Lane
<1>8. Ordered(n, FALSE, s, frames, <<>>, 1)
  <2>1. Known(n, frames[1].body, 1)
    BY ZenonT(60), <1>5 DEF Known
  <2>2. \A k, l \in DOMAIN frames : k = 1 /\ ~(k < l)
    BY <1>5
  <2>3. DOMAIN s.pending = {}
    BY <1>6, <1>7
  <2> QED BY ZenonT(60), <1>6, <1>7, <2>1, <2>2, <2>3 DEF Ordered, Increasing
<1>9. Typed(n, FALSE, s, frames)
  <2>1. \A k \in DOMAIN frames : k = 1
    BY <1>5
  <2> QED BY ZenonT(60), <1>5, <1>6, <2>1, OwnEntry DEF Typed
<1>10. Emits(n, FALSE, s, frames, 0, <<>>, 1)
  BY ZenonT(60) DEF s, frames
<1> QED BY ZenonT(60), <1>2, <1>8, <1>9, <1>10, StepOrder DEF Calls

LEMMA SendOrder ==
  ASSUME OInv, Calls, NEW n \in Nodes, SendTo(n)
  PROVE  OInv'
<1> DEFINE x == sends[n] + 1
           q == [st[n] EXCEPT !.pending = Append(@, x)]
           Sends(s, frames, keys) == Emits(n, FALSE, s, frames, keys, <<>>, 1)
<1>1. /\ st[n] \in PeerEntry /\ st[n].pending \in Seq(Nat) /\ sends[n] \in Nat /\ sends \in [Nodes -> Nat]
      /\ fresh \in Nat /\ fresh + 1 \in Nat /\ 0 \in Nat /\ 1 \in Nat
  <2>1. sends \in [Nodes -> Nat]
    BY ZenonT(60) DEF OInv, TypeOK
  <2> QED BY <2>1, OwnEntry, EntryTypes
<1>2. Append(st[n].pending, x) \in Seq(Nat)
  BY <1>1
<1>3. /\ q \in PeerEntry /\ q.pending = Append(st[n].pending, x)
      /\ q.session = st[n].session /\ q.hs = st[n].hs
      /\ q.gm = st[n].gm /\ q.gmKey = st[n].gmKey /\ q.gm_failed = st[n].gm_failed
  BY ZenonT(60), <1>1, <1>2 DEF PeerEntry
<1>4. \/ HasSession(st[n]) /\ Sends(AfterSeal(st[n], <<x>>), Sealed(st[n], <<x>>), 0)
      \/ ~HasSession(st[n]) /\ Sends(GmStarted(n, q), GmStartSends(n), GmStartKeys(n))
      \/ ~HasSession(st[n]) /\ Sends(HsStarted(q), <<HsInit>>, 1)
      \/ ~HasSession(st[n]) /\ Sends(q, <<>>, 0)
  BY ZenonT(60) DEF SendTo, Emits
<1>5. ~HasSession(st[n]) => ~HasSession(q) /\ q.session = NoKey
  BY ZenonT(60), <1>3 DEF HasSession
<1> HIDE DEF q
<1>6. CASE HasSession(st[n]) /\ Sends(AfterSeal(st[n], <<x>>), Sealed(st[n], <<x>>), 0)
  BY ZenonT(60), <1>6, SealStep
<1>7. CASE ~HasSession(st[n]) /\ Sends(GmStarted(n, q), GmStartSends(n), GmStartKeys(n))
  <2> DEFINE s == GmStarted(n, q)
  <2>1. /\ s \in PeerEntry /\ s.pending = q.pending /\ s.session = q.session /\ s.hs = q.hs
        /\ s.gm = IF n = 1 THEN "waitCookie" ELSE "waitMsg1"
        /\ Plain(GmStartSends(n)) /\ GmStartKeys(n) \in Nat
    BY ZenonT(60), <1>1, <1>3, GmStartedEntry
  <2> HIDE DEF s
  <2>2. s.gm # "waitRetry" /\ s.gm # "ready"
    BY <2>1
  <2>3. ~HasSession(s) /\ s.pending = Append(st[n].pending, x) /\ s.session = NoKey
    BY ZenonT(60), <1>3, <1>5, <1>7, <2>1, <2>2 DEF HasSession
  <2>4. Sends(s, GmStartSends(n), GmStartKeys(n))
    BY ZenonT(60), <1>7 DEF s
  <2> QED BY ZenonT(60), <2>1, <2>2, <2>3, <2>4, QueueStep
<1>8. CASE ~HasSession(st[n]) /\ Sends(HsStarted(q), <<HsInit>>, 1)
  <2> DEFINE s == HsStarted(q)
  <2>1. /\ s \in PeerEntry /\ s.pending = q.pending /\ s.session = q.session
        /\ s.gm = q.gm /\ s.gmKey = q.gmKey
    BY ZenonT(60), <1>1, <1>3, HsStartedEntry
  <2> HIDE DEF s
  <2>2. /\ ~HasSession(s) /\ s.pending = Append(st[n].pending, x) /\ s.session = NoKey
        /\ s.gm = st[n].gm /\ s.gmKey = st[n].gmKey
    BY ZenonT(60), <1>3, <1>5, <1>8, <2>1 DEF HasSession
  <2>3. Plain(<<HsInit>>)
    <3>1. "INIT" \in Kinds \ {"CIPHER"} /\ <<fresh + 1>> \in Keys /\ <<fresh + 1>> # <<>>
      BY <1>1 DEF Kinds, Keys
    <3> QED BY ZenonT(60), <3>1, PlainFrames DEF HsInit
  <2>4. Sends(s, <<HsInit>>, 1)
    BY ZenonT(60), <1>8 DEF s
  <2> QED BY ZenonT(60), <1>1, <2>1, <2>2, <2>3, <2>4, OwnEntry, QueueStep
<1>9. CASE ~HasSession(st[n]) /\ Sends(q, <<>>, 0)
  <2>1. Plain(<<>>)
    BY ZenonT(60), PlainFrames
  <2> QED BY ZenonT(60), <1>1, <1>3, <1>5, <1>9, <2>1, OwnEntry, QueueStep
<1> QED BY ZenonT(60), <1>4, <1>6, <1>7, <1>8, <1>9

(* What a timer leaves of an entry, and what it makes of one it gives up. *)
Rested(s, gen) == [s EXCEPT !.timers = @ \ {gen}]
GaveUp(s, gen) == [Rested(s, gen) EXCEPT !.gm = "none", !.gmKey = NoKey, !.gm_failed = TRUE]

LEMMA RestedEntry ==
  ASSUME NEW s \in PeerEntry, NEW gen
  PROVE  /\ Rested(s, gen) \in PeerEntry /\ Rested(s, gen).pending = s.pending
         /\ Rested(s, gen).session = s.session /\ Rested(s, gen).hs = s.hs
         /\ Rested(s, gen).gm = s.gm /\ Rested(s, gen).gmKey = s.gmKey
         /\ Rested(s, gen).gm_failed = s.gm_failed
<1>1. s.timers \ {gen} \in SUBSET Nat
  BY EntryTypes
<1> QED BY ZenonT(60), <1>1 DEF Rested, PeerEntry

LEMMA GaveUpEntry ==
  ASSUME NEW s \in PeerEntry, NEW gen
  PROVE  /\ GaveUp(s, gen) \in PeerEntry /\ GaveUp(s, gen).pending = s.pending
         /\ GaveUp(s, gen).session = s.session /\ GaveUp(s, gen).hs = s.hs
         /\ GaveUp(s, gen).gm = "none" /\ GaveUp(s, gen).gm_failed = TRUE
<1>1. NoKey \in Keys
  BY DEF Keys, NoKey
<1>2. PICK r \in PeerEntry : r = Rested(s, gen)
  BY ZenonT(60), RestedEntry
<1> DEFINE g == [r EXCEPT !.gm = "none", !.gmKey = NoKey, !.gm_failed = TRUE]
<1>3. /\ g \in PeerEntry /\ g.pending = r.pending /\ g.session = r.session /\ g.hs = r.hs
      /\ g.gm = "none" /\ g.gm_failed = TRUE
  BY ZenonT(60), <1>1 DEF PeerEntry
<1>4. GaveUp(s, gen) = g
  BY ZenonT(60), <1>2 DEF GaveUp
<1> HIDE DEF g
<1> QED BY <1>2, <1>3, <1>4, RestedEntry

(* What on_gm_check does. *)
LEMMA CheckEmits ==
  ASSUME TypeOK, NEW n \in Nodes, NEW gen \in st[n].timers, GmCheck(n, gen)
  PROVE  \/ Emits(n, FALSE, Rested(st[n], gen), <<>>, 0, <<>>, 0)
         \/ Emits(n, FALSE, GaveUp(st[n], gen), <<>>, 0, <<>>, 0)
         \/ /\ GaveUp(st[n], gen).hs = 0 /\ GaveUp(st[n], gen).session = NoKey
            /\ GaveUp(st[n], gen).pending # <<>>
            /\ Emits(n, FALSE, HsStarted(GaveUp(st[n], gen)), <<HsInit>>, 1, <<>>, 0)
<1>1. sends' = sends => sends' = [sends EXCEPT ![n] = @ + 0]
  BY DEF TypeOK
<1> QED BY ZenonT(60), <1>1 DEF GmCheck, Rested, GaveUp, Emits

LEMMA CheckOrder ==
  ASSUME OInv, Calls, NEW n \in Nodes, NEW gen \in st[n].timers, GmCheck(n, gen)
  PROVE  OInv'
<1> DEFINE r == Rested(st[n], gen)
           g == GaveUp(st[n], gen)
<1>1. /\ st[n] \in PeerEntry /\ fresh \in Nat /\ fresh + 1 \in Nat /\ 0 \in Nat /\ 1 \in Nat /\ <<>> \in Seq(Nat)
      /\ "none" # "ready" /\ "none" # "waitRetry" /\ Plain(<<>>)
  BY OwnEntry, PlainFrames
<1>2. /\ r \in PeerEntry /\ r.pending = st[n].pending /\ r.session = st[n].session /\ r.hs = st[n].hs
      /\ r.gm = st[n].gm /\ r.gmKey = st[n].gmKey
  BY ZenonT(60), <1>1, RestedEntry
<1>3. /\ g \in PeerEntry /\ g.pending = st[n].pending /\ g.session = st[n].session /\ g.hs = st[n].hs
      /\ g.gm = "none"
  BY ZenonT(60), <1>1, GaveUpEntry
<1>4. \/ Emits(n, FALSE, r, <<>>, 0, <<>>, 0)
      \/ Emits(n, FALSE, g, <<>>, 0, <<>>, 0)
      \/ g.session = NoKey /\ Emits(n, FALSE, HsStarted(g), <<HsInit>>, 1, <<>>, 0)
  BY ZenonT(60), CheckEmits DEF OInv
<1> HIDE DEF r, g
<1>5. CASE Emits(n, FALSE, r, <<>>, 0, <<>>, 0)
  BY ZenonT(60), <1>1, <1>2, <1>5, OwnEntry, QuietStep DEF HasSession
<1>6. CASE Emits(n, FALSE, g, <<>>, 0, <<>>, 0)
  BY ZenonT(60), <1>1, <1>3, <1>6, OwnEntry, QuietStep DEF HasSession
<1>7. CASE g.session = NoKey /\ Emits(n, FALSE, HsStarted(g), <<HsInit>>, 1, <<>>, 0)
  <2> DEFINE s == HsStarted(g)
  <2>1. s \in PeerEntry /\ s.pending = g.pending /\ s.session = g.session /\ s.gm = g.gm
    BY ZenonT(60), <1>1, <1>3, HsStartedEntry
  <2>2. Plain(<<HsInit>>)
    <3>1. "INIT" \in Kinds \ {"CIPHER"} /\ <<fresh + 1>> \in Keys /\ <<fresh + 1>> # <<>>
      BY <1>1 DEF Kinds, Keys
    <3> QED BY ZenonT(60), <3>1, PlainFrames DEF HsInit
  <2>3. Emits(n, FALSE, s, <<HsInit>>, 1, <<>>, 0)
    BY ZenonT(60), <1>7
  <2> HIDE DEF s
  <2>4. s.pending = st[n].pending /\ s.session = NoKey /\ s.gm = "none"
    BY <1>3, <1>7, <2>1
  <2> QED BY ZenonT(60), <1>1, <2>1, <2>2, <2>3, <2>4, QuietStep DEF HasSession
<1> QED BY ZenonT(60), <1>4, <1>5, <1>6, <1>7

LEMMA TaggedOrder ==
  ASSUME OInv, NEW n \in Nodes, HandleTaggedCipher(n)
  PROVE  OInv'
<1>1. Calls
  BY DEF HandleTaggedCipher, OInv, TypeOK, Calls
<1>2. chan[n] # <<>>
  BY ZenonT(60) DEF HandleTaggedCipher, Next1
<1>3. CASE Ignore(n)
  BY ZenonT(60), <1>1, <1>2, <1>3, IgnoreOrder
<1>4. CASE Reply(n, [st[n] EXCEPT !.hs = 0], <<>>, 0, <<>>)
  <2> DEFINE s == [st[n] EXCEPT !.hs = 0]
  <2>1. Plain(<<>>) /\ 0 \in Nat
    BY PlainFrames
  <2>2. /\ s \in PeerEntry /\ s.hs = 0 /\ s.pending = st[n].pending /\ s.session = st[n].session
        /\ s.gm = st[n].gm /\ s.gmKey = st[n].gmKey
    BY ZenonT(60), <2>1, OwnEntry DEF PeerEntry
  <2>3. Reply(n, s, <<>>, 0, <<>>)
    BY ZenonT(60), <1>4
  <2> HIDE DEF s
  <2> QED BY ZenonT(60), <1>1, <1>2, <2>1, <2>2, <2>3, OwnEntry, QuietReply DEF HasSession
<1>5. CASE Erased(n)
  BY ZenonT(60), <1>1, <1>2, <1>5, ErasedOrder
<1>6. Garbage \in Keys /\ Garbage # <<>>
  BY DEF Garbage, Keys
<1>7. CASE OnKick(n) \/ OnMsg1(n, Garbage) \/ OnCookie(n, Garbage)
  BY ZenonT(60), <1>1, <1>2, <1>6, <1>7, KickOrder, Msg1Order, CookieOrder
<1> QED BY ZenonT(60), <1>3, <1>4, <1>5, <1>7 DEF HandleTaggedCipher

LEMMA NewPeerEntry ==
  /\ NewPeer \in PeerEntry /\ NewPeer.hs = 0 /\ NewPeer.gm = "none" /\ NewPeer.pending = <<>>
  /\ NewPeer.session = NoKey /\ NewPeer.gm_failed = FALSE
BY DEF NewPeer, PeerEntry, NoKey, Keys

LEMMA SameOrder ==
  ASSUME OInv, UNCHANGED <<gmpq, trusts, st, chan, fresh, sends, delivered, restarts, mishaps>>,
         up' \in [Nodes -> BOOLEAN]
  PROVE  OInv'
<1>1. TypeOK'
  BY ZenonT(60) DEF OInv, TypeOK
<1>2. KeysOK'
  BY ZenonT(60) DEF OInv, KeysOK, WellFormed
<1>3. OrderInv'
  <2>1. \A n \in Nodes : Lane(n, Other(n))
    BY ZenonT(60) DEF OInv, OrderInv
  <2>2. ASSUME NEW n, NEW m, Lane(n, m) PROVE Lane(n, m)'
    BY ZenonT(60), <2>2 DEF Lane, Increasing, HasSession, Loaded
  <2> QED BY ZenonT(60), <2>1, <2>2 DEF OrderInv
<1> QED BY <1>1, <1>2, <1>3 DEF OInv

LEMMA RestartOrder ==
  ASSUME OInv, NEW n \in Nodes, StartNode(n) \/ Restart(n)
  PROVE  OInv'
<1>1. CASE StartNode(n)
  <2>1. UNCHANGED <<gmpq, trusts, st, chan, fresh, sends, delivered, restarts, mishaps>> /\ up' \in [Nodes -> BOOLEAN]
    BY <1>1 DEF StartNode, OInv, TypeOK
  <2> QED BY ZenonT(60), <2>1, SameOrder
<1>2. CASE Restart(n)
  <2> DEFINE m == Other(n)
  <2>1. m \in Nodes /\ m # n /\ \A k \in Nodes : k = n \/ k = m
    BY TwoNodes
  <2>2. /\ st' = [st EXCEPT ![n] = NewPeer] /\ chan' = [chan EXCEPT ![n] = <<>>]
        /\ UNCHANGED <<gmpq, up, fresh, sends, delivered>> /\ restarts' \in [Nodes -> Nat]
        /\ trusts' \subseteq Nodes /\ mishaps' \subseteq {"late", "restart", "tagged"}
    <3>1. trusts \subseteq Nodes /\ restarts \in [Nodes -> Nat] /\ mishaps \subseteq {"late", "restart", "tagged"}
      BY ZenonT(60) DEF OInv, TypeOK
    <3> QED BY <1>2, <3>1 DEF Restart
  <2>3. /\ st \in [Nodes -> PeerEntry] /\ chan \in [Nodes -> Seq(Frames)]
        /\ st[m].hs # 0 => st[m].session = NoKey
        /\ \A k \in DOMAIN chan[m] : WellFormed(chan[m][k])
        /\ st[m].gm = "waitRetry" => st[m].gmKey # <<>>
    BY ZenonT(60), <2>1 DEF OInv, TypeOK, KeysOK, Frames
  <2>4. <<>> \in Seq(Frames) /\ DOMAIN <<>> = {} /\ "none" # "waitRetry" /\ "none" # "ready"
    OBVIOUS
  <2>5. /\ st' \in [Nodes -> PeerEntry] /\ st'[n] = NewPeer /\ st'[m] = st[m]
        /\ chan' \in [Nodes -> Seq(Frames)] /\ chan'[n] = <<>> /\ chan'[m] = chan[m]
    BY ZenonT(60), <2>1, <2>2, <2>3, <2>4, NewPeerEntry
  <2>6. TypeOK'
    BY ZenonT(60), <2>1, <2>2, <2>3, <2>5, NewPeerEntry DEF OInv, TypeOK, Frames
  <2>7. KeysOK'
    BY ZenonT(60), <2>1, <2>3, <2>4, <2>5, NewPeerEntry DEF KeysOK
  <2>8. Lane(n, m) /\ Lane(m, n) /\ Other(m) = n
    BY ZenonT(60), <2>1, TwoNodes DEF OInv, OrderInv
  <2>9. Lane(n, m)'
    BY ZenonT(60), <2>2, <2>4, <2>5, <2>8, NewPeerEntry DEF Lane, Increasing, HasSession
  <2>10. Lane(m, n)'
    BY ZenonT(60), <2>2, <2>4, <2>5, <2>8 DEF Lane, Increasing, HasSession
  <2> QED BY ZenonT(60), <2>1, <2>6, <2>7, <2>8, <2>9, <2>10 DEF OInv, OrderInv
<1> QED BY <1>1, <1>2

LEMMA OInvInit == Init => OInv
<1> SUFFICES ASSUME Init PROVE OInv
  OBVIOUS
<1>1. /\ st = [n \in Nodes |-> NewPeer] /\ chan = [n \in Nodes |-> <<>>]
      /\ sends = [n \in Nodes |-> 0] /\ delivered = [n \in Nodes |-> <<>>]
  BY ZenonT(60) DEF Init
<1>2. \A n \in Nodes : /\ st[n] = NewPeer /\ chan[n] = <<>> /\ sends[n] = 0 /\ delivered[n] = <<>>
  BY <1>1
<1>3. TypeOK
  <2>1. st \in [Nodes -> PeerEntry]
    BY ZenonT(60), <1>1, NewPeerEntry
  <2>2. chan \in [Nodes -> Seq([kind : Kinds, key : Keys, ctr : Nat, body : Nat])]
    BY <1>1
  <2>3. \A n \in Nodes : st[n].hs # 0 => st[n].session = NoKey
    BY ZenonT(60), <1>2, NewPeerEntry
  <2>4. /\ up \in [Nodes -> BOOLEAN] /\ gmpq \subseteq Nodes /\ trusts \subseteq Nodes /\ fresh \in Nat
        /\ restarts \in [Nodes -> Nat]
        /\ mishaps \subseteq {"late", "restart", "tagged"}
    BY DEF Init
  <2>5. sends \in [Nodes -> Nat] /\ delivered \in [Nodes -> Seq(Nat)]
    BY <1>1
  <2> QED BY ZenonT(60), <2>1, <2>2, <2>3, <2>4, <2>5 DEF TypeOK
<1>4. DOMAIN <<>> = {} /\ "none" # "waitRetry" /\ "none" # "ready"
  OBVIOUS
<1>5. KeysOK
  BY ZenonT(60), <1>2, <1>4, NewPeerEntry DEF KeysOK
<1>6. OrderInv
  BY ZenonT(60), <1>2, <1>4, NewPeerEntry, TwoNodes DEF OrderInv, Lane, Increasing, HasSession
<1> QED BY <1>3, <1>5, <1>6 DEF OInv

LEMMA OInvNext == OInv /\ [Next]_vars => OInv'
<1> SUFFICES ASSUME OInv, [Next]_vars PROVE OInv'
  OBVIOUS
<1>1. ASSUME mishaps' = mishaps PROVE Calls
  BY <1>1 DEF OInv, TypeOK, Calls
<1>2. ASSUME NEW n \in Nodes, UNCHANGED mishaps, SendTo(n) PROVE OInv'
  BY ZenonT(60), <1>1, <1>2, SendOrder
<1>3. ASSUME NEW n \in Nodes, UNCHANGED mishaps, HandleFrame(n) PROVE OInv'
  BY ZenonT(60), <1>1, <1>3, X25519Order, GmOrder DEF HandleFrame
<1>4. ASSUME NEW n \in Nodes, UNCHANGED mishaps, NEW gen \in st[n].timers, GmCheck(n, gen) PROVE OInv'
  BY ZenonT(60), <1>1, <1>4, CheckOrder
<1>5. CASE UNCHANGED vars
  <2>1. up' \in [Nodes -> BOOLEAN]
    BY ZenonT(60), <1>5 DEF vars, OInv, TypeOK
  <2> QED BY ZenonT(60), <1>5, <2>1, SameOrder DEF vars
<1> QED BY ZenonT(60), <1>2, <1>3, <1>4, <1>5, TaggedOrder, RestartOrder DEF Next

(* Messages reach the application in the order of send_to and never twice,
   whatever handshakes, fallbacks, restarts and tagged ciphertexts happen on
   the way. *)
THEOREM InOrderHolds == Spec => []InOrder
<1>1. OInv => InOrder
  <2> SUFFICES ASSUME OInv PROVE InOrder
    OBVIOUS
  <2>1. TypeOK /\ delivered \in [Nodes -> Seq(Nat)]
    BY ZenonT(60) DEF OInv, TypeOK
  <2>2. \A n \in Nodes : Increasing(delivered[n])
    BY ZenonT(60), TwoNodes DEF OInv, OrderInv, Lane
  <2>3. \A n \in Nodes : DOMAIN delivered[n] = 1 .. Len(delivered[n])
    BY <2>1
  <2> QED BY ZenonT(60), <2>1, <2>2, <2>3 DEF InOrder, Increasing
<1> QED BY <1>1, OInvInit, OInvNext, PTL DEF Spec

-----------------------------------------------------------------------------
(* The X25519 handshake, seen from the channel C to a node whose session is sm
   and whose open handshake is hm; sn and hn are those of the sender, and
   winner says that the node wins simultaneous initiation. *)
Hand(C, winner, sm, hm, sn, hn) ==
  /\ \A k \in DOMAIN C : C[k].kind = "INIT" =>
       /\ sm = NoKey /\ C[k].key[1] # 0
       /\ hn = C[k].key[1] \/ (winner /\ sn # NoKey)
       /\ \A l \in DOMAIN C : C[l].kind = "INIT" => k = l
  /\ \A k \in DOMAIN C : C[k].kind = "RESP" =>
       /\ hm # 0 /\ sn = <<hm, C[k].key[1]>>
       /\ \A l \in DOMAIN C : /\ C[l].kind = "RESP" => k = l
                              /\ C[l].kind = "INIT" => l < k
  /\ sn # NoKey /\ sm = NoKey => \E k \in DOMAIN C : C[k].kind = "RESP"
  /\ sn # NoKey /\ sm # NoKey => sm = sn

HsInv ==
  \A m \in Nodes : LET n == Other(m) IN
    Hand(chan[m], m = 1, st[m].session, st[m].hs, st[n].session, st[n].hs)

(* The GM-PQ handshake: until node 1 gives up (f1), one frame of it is under
   way at a time; C1 and C2 are the channels to the nodes, g1, k1, g2 and k2
   their GM-PQ states and keys. *)
None(C, kind) == \A k \in DOMAIN C : C[k].kind # kind
Once(C, kind) == \A k, l \in DOMAIN C : C[k].kind = kind /\ C[l].kind = kind => k = l

Gm(C1, C2, g1, k1, f1, g2, k2) ==
  /\ g1 \in {"none", "waitCookie", "waitMsg2", "unbound", "ready"}
  /\ g2 \in {"none", "waitMsg1", "waitRetry", "waitMsg3", "unbound", "ready"}
  /\ None(C1, "MSG1_RETRY") /\ None(C1, "MSG3")
  /\ f1 => g1 = "none"
  /\ ~f1 =>
       /\ g1 # "waitCookie" => None(C2, "MSG1") /\ None(C1, "COOKIE")
       /\ g1 # "waitMsg2" => None(C2, "MSG1_RETRY") /\ None(C1, "MSG2")
       /\ Once(C2, "MSG1") /\ Once(C1, "COOKIE") /\ Once(C2, "MSG1_RETRY") /\ Once(C1, "MSG2")
       /\ None(C2, "MSG1") \/ None(C1, "COOKIE")
       /\ None(C2, "MSG1_RETRY") \/ None(C1, "MSG2")
       /\ g2 \in {"waitMsg3", "unbound", "ready"} =>
            /\ g1 \in {"unbound", "ready"} => k1 = k2
            /\ \A k \in DOMAIN C1 : C1[k].kind = "MSG2" => C1[k].key = k2

GmInv == Gm(chan[1], chan[2], st[1].gm, st[1].gmKey, st[1].gm_failed, st[2].gm, st[2].gmKey)

Calm == mishaps = {} => up[1] /\ up[2] /\ HsInv /\ GmInv

-----------------------------------------------------------------------------
(* Channels.  As far as the frames of the kinds K go, E is the channel C less
   its first d frames. *)
Lag(E, C, d, K) ==
  /\ \A k \in DOMAIN E : k \in Nat /\ (E[k].kind \in K => k + d \in DOMAIN C /\ E[k] = C[k + d])
  /\ \A k \in DOMAIN C : k \in Nat

LEMMA LagTail ==
  ASSUME NEW C \in Seq(Frames), C # <<>>, NEW K
  PROVE  Lag(Tail(C), C, 1, K)
BY TailElements DEF Lag

LEMMA LagConcat ==
  ASSUME NEW C \in Seq(Frames), NEW F \in Seq(Frames), NEW K, \A k \in DOMAIN F : F[k].kind \notin K
  PROVE  Lag(C \o F, C, 0, K)
<1>1. \A k \in DOMAIN (C \o F) :
        /\ k \in Nat
        /\ \/ k + 0 \in DOMAIN C /\ (C \o F)[k] = C[k + 0]
           \/ k - Len(C) \in DOMAIN F /\ (C \o F)[k] = F[k - Len(C)]
  BY ConcatElements
<1>2. \A k \in DOMAIN C : k \in Nat
  OBVIOUS
<1> QED BY ZenonT(60), <1>1, <1>2 DEF Lag

HsKinds == {"INIT", "RESP"}

(* Both directions, from a node n (channel D, session sn, handshake hn). *)
Pair(D, x, C, w, sn, hn, sm, hm) == Hand(D, x, sn, hn, sm, hm) /\ Hand(C, w, sm, hm, sn, hn)

(* Frames come and go that are none of the X25519 handshake, or the init goes. *)
LEMMA HandLag ==
  ASSUME NEW E, NEW C, NEW d \in {0, 1}, Lag(E, C, d, HsKinds),
         \A k \in DOMAIN C : C[k].kind = "RESP" => \E l \in DOMAIN E : E[l] = C[k],
         NEW w, NEW sm, NEW hm, NEW sn, NEW hn, Hand(C, w, sm, hm, sn, hn)
  PROVE  Hand(E, w, sm, hm, sn, hn)
<1>1. \A k \in DOMAIN E : k \in Nat /\ (E[k].kind \in HsKinds => k + d \in DOMAIN C /\ E[k] = C[k + d])
  BY ZenonT(60) DEF Lag
<1>2. \A k, l \in DOMAIN E : /\ k + d = l + d => k = l
                             /\ k + d < l + d => k < l
  BY <1>1
<1>3. "INIT" \in HsKinds /\ "RESP" \in HsKinds
  BY DEF HsKinds
<1>4. ASSUME NEW k \in DOMAIN E, E[k].kind = "INIT"
      PROVE  /\ sm = NoKey /\ E[k].key[1] # 0
             /\ hn = E[k].key[1] \/ (w /\ sn # NoKey)
             /\ \A l \in DOMAIN E : E[l].kind = "INIT" => k = l
  <2>1. k + d \in DOMAIN C /\ E[k] = C[k + d] /\ C[k + d].kind = "INIT"
    BY ZenonT(60), <1>1, <1>3, <1>4
  <2>2. /\ sm = NoKey /\ C[k + d].key[1] # 0
        /\ hn = C[k + d].key[1] \/ (w /\ sn # NoKey)
        /\ \A l \in DOMAIN C : C[l].kind = "INIT" => k + d = l
    BY ZenonT(60), <2>1 DEF Hand
  <2>3. \A l \in DOMAIN E : E[l].kind = "INIT" => k + d = l + d
    BY ZenonT(60), <1>1, <1>3, <2>2
  <2> QED BY ZenonT(60), <1>2, <2>1, <2>2, <2>3
<1>5. ASSUME NEW k \in DOMAIN E, E[k].kind = "RESP"
      PROVE  /\ hm # 0 /\ sn = <<hm, E[k].key[1]>>
             /\ \A l \in DOMAIN E : /\ E[l].kind = "RESP" => k = l
                                    /\ E[l].kind = "INIT" => l < k
  <2>1. k + d \in DOMAIN C /\ E[k] = C[k + d] /\ C[k + d].kind = "RESP"
    BY ZenonT(60), <1>1, <1>3, <1>5
  <2>2. /\ hm # 0 /\ sn = <<hm, C[k + d].key[1]>>
        /\ \A l \in DOMAIN C : /\ C[l].kind = "RESP" => k + d = l
                               /\ C[l].kind = "INIT" => l < k + d
    BY ZenonT(60), <2>1 DEF Hand
  <2>3. \A l \in DOMAIN E : /\ E[l].kind = "RESP" => k + d = l + d
                            /\ E[l].kind = "INIT" => l + d < k + d
    BY ZenonT(60), <1>1, <1>3, <2>2
  <2> QED BY ZenonT(60), <1>2, <2>1, <2>2, <2>3
<1>6. /\ sn # NoKey /\ sm = NoKey => \E k \in DOMAIN E : E[k].kind = "RESP"
      /\ sn # NoKey /\ sm # NoKey => sm = sn
  BY ZenonT(60) DEF Hand
<1> QED BY ZenonT(60), <1>4, <1>5, <1>6 DEF Hand

(* hs_start: the sender's side and the receiver's side of the new init. *)
LEMMA HandStart ==
  ASSUME NEW C \in Seq(Frames), NEW D, NEW w, NEW x, NEW sm, NEW hm, fresh + 1 # 0,
         Pair(D, x, C, w, NoKey, 0, sm, hm)
  PROVE  Pair(D, x, C \o <<HsInit>>, w, NoKey, fresh + 1, sm, hm)
<1> DEFINE E == C \o <<HsInit>>
<1>1. sm = NoKey
  BY ZenonT(60) DEF Hand, Pair
<1>2. \A a, b : <<a, b>> # NoKey
  BY DEF NoKey
<1>3. \A k \in DOMAIN C : C[k].kind # "INIT" /\ C[k].kind # "RESP"
  BY ZenonT(60), <1>2 DEF Hand, Pair
<1>4. \A k \in DOMAIN E : \/ k \in DOMAIN C /\ E[k] = C[k]
                          \/ k = Len(C) + 1 /\ E[k] = HsInit
  OBVIOUS
<1> HIDE DEF E
<1>5. "INIT" # "RESP" /\ HsInit.kind = "INIT" /\ HsInit.key[1] = fresh + 1
  BY DEF HsInit, Frame
<1>6. Hand(E, w, sm, hm, NoKey, fresh + 1)
  BY ZenonT(60), <1>1, <1>3, <1>4, <1>5 DEF Hand
<1>7. Hand(D, x, NoKey, fresh + 1, sm, hm)
  BY ZenonT(60), <1>1, <1>2 DEF Hand, Pair
<1> QED BY ZenonT(60), <1>6, <1>7 DEF Pair, E

(* hs_accept by n of the init at the head of D, answered in C. *)
LEMMA HandAccept ==
  ASSUME NEW C \in Seq(Frames), NEW F \in Seq(Frames), NEW D \in Seq(Frames), D # <<>>,
         NEW w, NEW x, NEW hn, NEW sm, NEW hm, hm # 0 => sm = NoKey, w \/ x, x => hn = 0,
         D[1].kind = "INIT", HsResp \in Frames, \A k \in DOMAIN F : F[k].kind \notin HsKinds,
         Pair(D, x, C, w, NoKey, hn, sm, hm)
  PROVE  Pair(Tail(D), x, C \o (<<HsResp>> \o F), w, <<D[1].key[1], fresh + 1>>, 0, sm, hm)
<1>b. Hand(D, x, NoKey, hn, sm, hm) /\ Hand(C, w, sm, hm, NoKey, hn)
  BY ZenonT(60) DEF Pair
<1> DEFINE i == D[1].key[1]
<1>1. 1 \in DOMAIN D /\ \A a, b : <<a, b>> # NoKey
  BY DEF NoKey
<1>a. HsResp.kind = "RESP" /\ HsResp.key[1] = fresh + 1
  BY DEF HsResp, Frame
<1>2. hm = i /\ i # 0 /\ sm = NoKey
  BY ZenonT(60), <1>b, <1>1 DEF Hand
<1>3. \A k \in DOMAIN C : C[k].kind # "RESP" /\ k \in Nat /\ k <= Len(C)
  <2>1. \A k \in DOMAIN C : k \in Nat /\ k <= Len(C)
    OBVIOUS
  <2>2. \A k \in DOMAIN C : C[k].kind = "RESP" => NoKey = <<hm, C[k].key[1]>>
    BY ZenonT(60), <1>b DEF Hand
  <2> QED BY ZenonT(60), <1>1, <2>1, <2>2
<1>4. \A k \in DOMAIN D : (D[k].kind = "INIT" => k = 1) /\ D[k].kind # "RESP"
  <2>1. \A k \in DOMAIN D : D[k].kind = "RESP" => sm = <<hn, D[k].key[1]>>
    BY ZenonT(60), <1>b DEF Hand
  <2>2. \A k \in DOMAIN D : D[k].kind = "INIT" => 1 = k
    BY ZenonT(60), <1>b, <1>1 DEF Hand
  <2> QED BY ZenonT(60), <1>1, <1>2, <2>1, <2>2
<1>5. \A k \in DOMAIN Tail(D) : Tail(D)[k].kind # "INIT" /\ Tail(D)[k].kind # "RESP"
  <2>1. \A k \in DOMAIN Tail(D) : k + 1 \in DOMAIN D /\ Tail(D)[k] = D[k + 1] /\ k + 1 # 1
    BY TailElements
  <2> QED BY ZenonT(60), <1>4, <2>1
<1>6. Hand(Tail(D), x, <<i, fresh + 1>>, 0, sm, hm)
  BY ZenonT(60), <1>2, <1>5 DEF Hand
<1> DEFINE E == C \o (<<HsResp>> \o F)
<1>7. \A k \in DOMAIN E : \/ k \in DOMAIN C /\ E[k] = C[k]
                          \/ k = Len(C) + 1 /\ E[k] = HsResp
                          \/ E[k].kind \notin HsKinds
  <2>1. <<HsResp>> \o F \in Seq(Frames) /\ <<HsResp>> \in Seq(Frames) /\ Len(<<HsResp>>) = 1 /\ DOMAIN <<HsResp>> = {1} /\ <<HsResp>>[1] = HsResp
    OBVIOUS
  <2>2. \A j \in DOMAIN (<<HsResp>> \o F) : (j = 1 /\ (<<HsResp>> \o F)[j] = HsResp) \/ (<<HsResp>> \o F)[j].kind \notin HsKinds
    BY <2>1, ConcatElements
  <2> DEFINE G == <<HsResp>> \o F
  <2> HIDE DEF G
  <2>3. \A k \in DOMAIN (C \o G) :
          \/ k \in DOMAIN C /\ (C \o G)[k] = C[k]
          \/ k - Len(C) \in DOMAIN G /\ k \in Nat /\ (C \o G)[k] = G[k - Len(C)]
    BY <2>1, ConcatElements DEF G
  <2>4. Len(C) \in Nat
    OBVIOUS
  <2> QED BY <2>2, <2>3, <2>4 DEF G
<1>8. Len(C) + 1 \in DOMAIN E /\ E[Len(C) + 1] = HsResp
  OBVIOUS
<1> HIDE DEF E
<1>9. "INIT" \in HsKinds /\ "RESP" \in HsKinds /\ "INIT" # "RESP" /\ \A k \in DOMAIN C : k < Len(C) + 1
  BY <1>3 DEF HsKinds
<1>10. \A k \in DOMAIN E : E[k].kind = "INIT" => k \in DOMAIN C /\ E[k] = C[k]
  BY ZenonT(60), <1>a, <1>7, <1>9
<1>11. \A k \in DOMAIN E : E[k].kind = "RESP" => k = Len(C) + 1 /\ E[k] = HsResp
  BY ZenonT(60), <1>a, <1>3, <1>7, <1>9
<1>12. Hand(E, w, sm, hm, <<i, fresh + 1>>, 0)
  <2>1. ASSUME NEW k \in DOMAIN E, E[k].kind = "INIT"
        PROVE  /\ sm = NoKey /\ E[k].key[1] # 0
               /\ 0 = E[k].key[1] \/ (w /\ <<i, fresh + 1>> # NoKey)
               /\ \A l \in DOMAIN E : E[l].kind = "INIT" => k = l
    <3>1. k \in DOMAIN C /\ E[k] = C[k] /\ C[k].kind = "INIT"
      BY ZenonT(60), <1>10, <2>1
    <3>2. /\ C[k].key[1] # 0 /\ (hn = C[k].key[1] \/ (w /\ NoKey # NoKey))
          /\ \A l \in DOMAIN C : C[l].kind = "INIT" => k = l
      BY ZenonT(60), <1>b, <3>1 DEF Hand
    <3>3. w
      BY ZenonT(60), <3>2
    <3> QED BY ZenonT(60), <1>1, <1>2, <1>10, <3>1, <3>2, <3>3
  <2>2. ASSUME NEW k \in DOMAIN E, E[k].kind = "RESP"
        PROVE  /\ hm # 0 /\ <<i, fresh + 1>> = <<hm, E[k].key[1]>>
               /\ \A l \in DOMAIN E : /\ E[l].kind = "RESP" => k = l
                                      /\ E[l].kind = "INIT" => l < k
    BY ZenonT(60), <1>a, <1>2, <1>9, <1>10, <1>11, <2>2
  <2> QED BY ZenonT(60), <1>a, <1>2, <1>8, <2>1, <2>2 DEF Hand
<1> QED BY ZenonT(60), <1>6, <1>12 DEF E, Pair

(* hs_finish by n with the response at the head of D. *)
LEMMA HandFinish ==
  ASSUME NEW C, NEW E, NEW D \in Seq(Frames), D # <<>>, NEW w, NEW x, NEW hn, NEW sm, NEW hm,
         hm # 0 => sm = NoKey, D[1].kind = "RESP", Lag(E, C, 0, HsKinds),
         Pair(D, x, C, w, NoKey, hn, sm, hm)
  PROVE  Pair(Tail(D), x, E, w, <<hn, D[1].key[1]>>, 0, sm, hm)
<1>b. Hand(D, x, NoKey, hn, sm, hm) /\ Hand(C, w, sm, hm, NoKey, hn)
  BY ZenonT(60) DEF Pair
<1> DEFINE s == <<hn, D[1].key[1]>>
<1>1. 1 \in DOMAIN D /\ s # NoKey
  BY DEF NoKey
<1>2. sm = s /\ sm # NoKey /\ hm = 0
  BY ZenonT(60), <1>b, <1>1 DEF Hand
<1>3. \A k \in DOMAIN C : C[k].kind # "INIT" /\ C[k].kind # "RESP"
  BY ZenonT(60), <1>b, <1>2 DEF Hand
<1>4. \A k \in DOMAIN E : E[k].kind # "INIT" /\ E[k].kind # "RESP"
  <2>1. "INIT" \in HsKinds /\ "RESP" \in HsKinds
    BY DEF HsKinds
  <2> QED BY ZenonT(60), <1>3, <2>1 DEF Lag
<1>5. \A k \in DOMAIN D : (D[k].kind = "RESP" => k = 1) /\ (D[k].kind = "INIT" => k < 1)
  BY ZenonT(60), <1>b, <1>1 DEF Hand
<1>6. \A k \in DOMAIN Tail(D) : Tail(D)[k].kind # "INIT" /\ Tail(D)[k].kind # "RESP"
  <2>1. \A k \in DOMAIN Tail(D) : k + 1 \in DOMAIN D /\ Tail(D)[k] = D[k + 1] /\ k + 1 # 1 /\ ~(k + 1 < 1)
    BY TailElements
  <2> QED BY ZenonT(60), <1>5, <2>1
<1> QED BY ZenonT(60), <1>2, <1>4, <1>6 DEF Hand, Pair

-----------------------------------------------------------------------------
(* The same on the state.  What a handler of n leaves of both channels and
   entries, on an undisturbed path. *)
Both == up[1] /\ up[2]

Moved(n, m, took, s, frames) ==
  /\ m \in Nodes /\ m # n /\ Other(n) = m /\ Other(m) = n /\ \A k \in Nodes : k = n \/ k = m
  /\ chan[n] \in Seq(Frames) /\ chan[m] \in Seq(Frames) /\ frames \in Seq(Frames)
  /\ took => chan[n] # <<>>
  /\ chan'[n] = IF took THEN Tail(chan[n]) ELSE chan[n]
  /\ chan'[m] = chan[m] \o frames
  /\ st'[n] = s /\ st'[m] = st[m]
  /\ st[m].hs # 0 => st[m].session = NoKey

LEMMA EmitsMoved ==
  ASSUME OInv, Both, NEW n \in Nodes, NEW took \in BOOLEAN, NEW s, NEW frames \in Seq(Frames), NEW keys,
         NEW payloads, NEW sent, took => chan[n] # <<>>, Emits(n, took, s, frames, keys, payloads, sent)
  PROVE  Moved(n, Other(n), took, s, frames)
<1> DEFINE m == Other(n)
<1>1. m \in Nodes /\ m # n /\ Other(m) = n /\ \A k \in Nodes : k = n \/ k = m
  BY TwoNodes
<1>2. /\ st \in [Nodes -> PeerEntry] /\ chan \in [Nodes -> Seq(Frames)]
      /\ st[m].hs # 0 => st[m].session = NoKey
  BY ZenonT(60), <1>1 DEF OInv, TypeOK, Frames
<1>3. chan[n] \in Seq(Frames) /\ chan[m] \in Seq(Frames)
  BY <1>1, <1>2
<1>4. up[m]
  BY <1>1 DEF Both, Nodes
<1> DEFINE rest == IF took THEN [chan EXCEPT ![n] = Tail(@)] ELSE chan
<1>5. /\ rest[m] = chan[m] /\ DOMAIN rest = Nodes
      /\ rest[n] = IF took THEN Tail(chan[n]) ELSE chan[n]
  BY ZenonT(60), <1>1, <1>2
<1>6. chan' = [rest EXCEPT ![m] = @ \o frames] /\ st' = [st EXCEPT ![n] = s]
  BY ZenonT(60), <1>4 DEF Emits, Ends, Forward
<1> HIDE DEF rest
<1>7. chan'[n] = rest[n] /\ chan'[m] = rest[m] \o frames /\ st'[n] = s /\ st'[m] = st[m]
  BY ZenonT(60), <1>1, <1>2, <1>5, <1>6
<1> QED BY ZenonT(60), <1>1, <1>2, <1>3, <1>5, <1>7 DEF Moved

LEMMA ReplyMoved ==
  ASSUME OInv, Both, NEW n \in Nodes, chan[n] # <<>>, NEW s, NEW frames \in Seq(Frames), NEW keys,
         NEW payloads, Reply(n, s, frames, keys, payloads)
  PROVE  Moved(n, Other(n), TRUE, s, frames)
<1>1. Emits(n, TRUE, s, frames, keys, payloads, 0)
  BY ZenonT(60), ReplyEmits DEF OInv
<1> QED BY ZenonT(60), <1>1, EmitsMoved

Seen(n, m) ==
  Pair(chan[n], n = 1, chan[m], m = 1, st[n].session, st[n].hs, st[m].session, st[m].hs)

LEMMA HsSeen ==
  ASSUME NEW n \in Nodes, NEW m \in Nodes, Other(n) = m, Other(m) = n, \A k \in Nodes : k = n \/ k = m
  PROVE  HsInv <=> Seen(n, m)
BY ZenonT(60) DEF HsInv, Seen, Pair

LEMMA SeenHs ==
  ASSUME NEW n \in Nodes, NEW m \in Nodes, Other(n) = m, Other(m) = n, \A k \in Nodes : k = n \/ k = m,
         Pair(chan'[n], n = 1, chan'[m], m = 1, st'[n].session, st'[n].hs, st'[m].session, st'[m].hs)
  PROVE  HsInv'
BY ZenonT(60) DEF HsInv, Pair

(* A handler that leaves the X25519 handshake alone. *)
LEMMA HsQuiet ==
  ASSUME HsInv, NEW n \in Nodes, NEW took \in BOOLEAN, NEW s, NEW frames,
         Moved(n, Other(n), took, s, frames), s.session = st[n].session, s.hs = st[n].hs,
         took => Head(chan[n]).kind # "RESP", \A k \in DOMAIN frames : frames[k].kind \notin HsKinds
  PROVE  HsInv'
<1> DEFINE m == Other(n)
<1>1. /\ m \in Nodes /\ Other(m) = n /\ \A k \in Nodes : k = n \/ k = m
      /\ chan[n] \in Seq(Frames) /\ chan[m] \in Seq(Frames) /\ frames \in Seq(Frames)
      /\ took => chan[n] # <<>>
      /\ chan'[n] = IF took THEN Tail(chan[n]) ELSE chan[n]
      /\ chan'[m] = chan[m] \o frames
      /\ st'[n] = s /\ st'[m] = st[m]
  BY ZenonT(60) DEF Moved
<1>2. /\ Hand(chan[m], m = 1, st[m].session, st[m].hs, st[n].session, st[n].hs)
      /\ Hand(chan[n], n = 1, st[n].session, st[n].hs, st[m].session, st[m].hs)
  BY ZenonT(60), <1>1, HsSeen DEF Seen, Pair
<1>3. Hand(chan[m] \o frames, m = 1, st[m].session, st[m].hs, st[n].session, st[n].hs)
  <2>1. Lag(chan[m] \o frames, chan[m], 0, HsKinds) /\ 0 \in {0, 1}
    BY <1>1, LagConcat
  <2>2. \A k \in DOMAIN chan[m] : \E l \in DOMAIN (chan[m] \o frames) : (chan[m] \o frames)[l] = chan[m][k]
    BY SMT, SMTT(30), ZenonT(60), <1>1, ConcatElements
  <2> QED BY ZenonT(60), <1>2, <2>1, <2>2, HandLag
<1>4. Hand(chan'[n], n = 1, st[n].session, st[n].hs, st[m].session, st[m].hs)
  <2>1. CASE ~took
    BY ZenonT(60), <1>1, <1>2, <2>1
  <2>2. CASE took
    <3> DEFINE C == chan[n]
    <3>1. Lag(Tail(C), C, 1, HsKinds) /\ 1 \in {0, 1}
      BY <1>1, <2>2, LagTail
    <3>2. \A k \in DOMAIN C : C[k].kind = "RESP" => \E l \in DOMAIN Tail(C) : Tail(C)[l] = C[k]
      <4>1. Head(C) = C[1] /\ \A k \in DOMAIN C : k # 1 => k - 1 \in DOMAIN Tail(C) /\ Tail(C)[k - 1] = C[k]
        BY <1>1, <2>2, TailElements
      <4> QED BY ZenonT(60), <2>2, <4>1
    <3>3. Hand(Tail(C), n = 1, st[n].session, st[n].hs, st[m].session, st[m].hs)
      BY ZenonT(60), <1>2, <3>1, <3>2, HandLag
    <3> QED BY ZenonT(60), <1>1, <2>2, <3>3
  <2> QED BY <2>1, <2>2
<1>5. Pair(chan'[n], n = 1, chan'[m], m = 1, st'[n].session, st'[n].hs, st'[m].session, st'[m].hs)
  BY ZenonT(60), <1>1, <1>3, <1>4 DEF Pair
<1> QED BY ZenonT(60), <1>1, <1>5, SeenHs

(* hs_start. *)
LEMMA HsStart ==
  ASSUME HsInv, NEW n \in Nodes, NEW s, fresh + 1 # 0, Moved(n, Other(n), FALSE, s, <<HsInit>>),
         st[n].session = NoKey, st[n].hs = 0, s.session = NoKey, s.hs = fresh + 1
  PROVE  HsInv'
<1> DEFINE m == Other(n)
<1>1. /\ m \in Nodes /\ Other(m) = n /\ \A k \in Nodes : k = n \/ k = m
      /\ chan[m] \in Seq(Frames) /\ chan'[n] = chan[n] /\ chan'[m] = chan[m] \o <<HsInit>>
      /\ st'[n] = s /\ st'[m] = st[m]
  BY ZenonT(60) DEF Moved
<1>2. Pair(chan[n], n = 1, chan[m], m = 1, NoKey, 0, st[m].session, st[m].hs)
  <2>1. Seen(n, m)
    BY ZenonT(60), <1>1, HsSeen
  <2> QED BY ZenonT(60), <2>1 DEF Seen
<1>3. Pair(chan[n], n = 1, chan[m] \o <<HsInit>>, m = 1, NoKey, fresh + 1, st[m].session, st[m].hs)
  BY ZenonT(60), <1>1, <1>2, HandStart
<1>4. Pair(chan'[n], n = 1, chan'[m], m = 1, st'[n].session, st'[n].hs, st'[m].session, st'[m].hs)
  BY ZenonT(60), <1>1, <1>3
<1> QED BY ZenonT(60), <1>1, <1>4, SeenHs

(* hs_accept. *)
LEMMA HsAccept ==
  ASSUME HsInv, NEW n \in Nodes, NEW s, NEW F \in Seq(Frames), \A k \in DOMAIN F : F[k].kind \notin HsKinds,
         HsResp \in Frames, Moved(n, Other(n), TRUE, s, <<HsResp>> \o F),
         Head(chan[n]).kind = "INIT", st[n].session = NoKey, n = 1 => st[n].hs = 0,
         s.session = <<Head(chan[n]).key[1], fresh + 1>>, s.hs = 0
  PROVE  HsInv'
<1> DEFINE m == Other(n)
<1>1. /\ m \in Nodes /\ m # n /\ Other(m) = n /\ \A k \in Nodes : k = n \/ k = m
      /\ chan[n] \in Seq(Frames) /\ chan[n] # <<>>
      /\ chan[m] \in Seq(Frames) /\ chan'[n] = Tail(chan[n]) /\ chan'[m] = chan[m] \o (<<HsResp>> \o F)
      /\ st'[n] = s /\ st'[m] = st[m] /\ (st[m].hs # 0 => st[m].session = NoKey)
  BY ZenonT(60) DEF Moved
<1>2. Pair(chan[n], n = 1, chan[m], m = 1, NoKey, st[n].hs, st[m].session, st[m].hs)
  <2>1. Seen(n, m)
    BY ZenonT(60), <1>1, HsSeen
  <2> QED BY ZenonT(60), <2>1 DEF Seen
<1>3. m = 1 \/ n = 1
  BY <1>1 DEF Nodes
<1>4. Head(chan[n]) = chan[n][1] /\ chan[n][1].kind = "INIT"
  BY ZenonT(60), <1>1, TailElements
<1>5. Pair(Tail(chan[n]), n = 1, chan[m] \o (<<HsResp>> \o F), m = 1,
           <<chan[n][1].key[1], fresh + 1>>, 0, st[m].session, st[m].hs)
  BY ZenonT(60), <1>1, <1>2, <1>3, <1>4, HandAccept
<1>6. Pair(chan'[n], n = 1, chan'[m], m = 1, st'[n].session, st'[n].hs, st'[m].session, st'[m].hs)
  BY ZenonT(60), <1>1, <1>4, <1>5
<1> QED BY ZenonT(60), <1>1, <1>6, SeenHs

(* hs_finish. *)
LEMMA HsFinish ==
  ASSUME HsInv, NEW n \in Nodes, NEW s, NEW F, \A k \in DOMAIN F : F[k].kind \notin HsKinds,
         Moved(n, Other(n), TRUE, s, F), Head(chan[n]).kind = "RESP", st[n].session = NoKey,
         s.session = <<st[n].hs, Head(chan[n]).key[1]>>, s.hs = 0
  PROVE  HsInv'
<1> DEFINE m == Other(n)
<1>1. /\ m \in Nodes /\ Other(m) = n /\ \A k \in Nodes : k = n \/ k = m
      /\ chan[n] \in Seq(Frames) /\ chan[n] # <<>> /\ F \in Seq(Frames)
      /\ chan[m] \in Seq(Frames) /\ chan'[n] = Tail(chan[n]) /\ chan'[m] = chan[m] \o F
      /\ st'[n] = s /\ st'[m] = st[m] /\ (st[m].hs # 0 => st[m].session = NoKey)
  BY ZenonT(60) DEF Moved
<1>2. Pair(chan[n], n = 1, chan[m], m = 1, NoKey, st[n].hs, st[m].session, st[m].hs)
  <2>1. Seen(n, m)
    BY ZenonT(60), <1>1, HsSeen
  <2> QED BY ZenonT(60), <2>1 DEF Seen
<1>3. Head(chan[n]) = chan[n][1] /\ chan[n][1].kind = "RESP"
  BY ZenonT(60), SMT, SMTT(30), <1>1, TailElements
<1>4. Lag(chan[m] \o F, chan[m], 0, HsKinds)
  BY ZenonT(60), <1>1, LagConcat
<1>5. Pair(Tail(chan[n]), n = 1, chan[m] \o F, m = 1, <<st[n].hs, chan[n][1].key[1]>>, 0, st[m].session, st[m].hs)
  BY ZenonT(60), <1>1, <1>2, <1>3, <1>4, HandFinish
<1>6. Pair(chan'[n], n = 1, chan'[m], m = 1, st'[n].session, st'[n].hs, st'[m].session, st'[m].hs)
  BY ZenonT(60), <1>1, <1>3, <1>5
<1> QED BY ZenonT(60), <1>1, <1>6, SeenHs

-----------------------------------------------------------------------------
(* The GM-PQ handshake.  As far as the kinds K go, the frames of E are frames
   of C. *)
Less(E, C, K) ==
  /\ \A k \in DOMAIN E : E[k].kind \in K => \E l \in DOMAIN C : E[k] = C[l]
  /\ \A kind \in K : Once(C, kind) => Once(E, kind)

LEMMA LagLess ==
  ASSUME NEW E, NEW C, NEW d \in {0, 1}, NEW K, Lag(E, C, d, K)
  PROVE  Less(E, C, K)
<1>1. \A k \in DOMAIN E : k \in Nat /\ (E[k].kind \in K => k + d \in DOMAIN C /\ E[k] = C[k + d])
  BY ZenonT(60) DEF Lag
<1>2. \A k, l \in DOMAIN E : k + d = l + d => k = l
  BY <1>1
<1> QED BY ZenonT(60), <1>1, <1>2 DEF Less, Once

(* A frame leaves, frames of other kinds come, a frame comes. *)
LEMMA LessTail ==
  ASSUME NEW C \in Seq(Frames), C # <<>>, NEW K
  PROVE  /\ Less(Tail(C), C, K)
         /\ Once(C, Head(C).kind) => None(Tail(C), Head(C).kind)
<1>1. Less(Tail(C), C, K)
  <2>1. 1 \in {0, 1}
    OBVIOUS
  <2> QED BY ZenonT(60), <2>1, LagTail, LagLess
<1>2. /\ Head(C) = C[1] /\ 1 \in DOMAIN C
      /\ \A k \in DOMAIN Tail(C) : k + 1 # 1 /\ k + 1 \in DOMAIN C /\ Tail(C)[k] = C[k + 1]
  BY TailElements
<1> QED BY ZenonT(60), <1>1, <1>2 DEF Once, None

LEMMA LessConcat ==
  ASSUME NEW C \in Seq(Frames), NEW F \in Seq(Frames), NEW K, \A k \in DOMAIN F : F[k].kind \notin K
  PROVE  Less(C \o F, C, K)
<1>1. 0 \in {0, 1}
  OBVIOUS
<1> QED BY ZenonT(60), <1>1, LagConcat, LagLess

LEMMA OneComes ==
  ASSUME NEW C \in Seq(Frames), NEW f \in Frames, None(C, f.kind)
  PROVE  /\ Once(C \o <<f>>, f.kind)
         /\ \A k \in DOMAIN (C \o <<f>>) : (C \o <<f>>)[k].kind = f.kind => (C \o <<f>>)[k] = f
<1> DEFINE E == C \o <<f>>
<1>1. \A k \in DOMAIN E : \/ k \in DOMAIN C /\ E[k] = C[k]
                          \/ k = Len(C) + 1 /\ E[k] = f
  OBVIOUS
<1> HIDE DEF E
<1>2. Once(E, f.kind) /\ \A k \in DOMAIN E : E[k].kind = f.kind => E[k] = f
  BY ZenonT(60), <1>1 DEF None, Once
<1> QED BY ZenonT(60), <1>2 DEF E

(* What Gm tracks in the channel to each node. *)
In1 == {"COOKIE", "MSG1_RETRY", "MSG2", "MSG3"}
In2 == {"MSG1", "MSG1_RETRY"}

LEMMA GmKinds ==
  /\ "COOKIE" \in In1 /\ "MSG1_RETRY" \in In1 /\ "MSG2" \in In1 /\ "MSG3" \in In1
  /\ "MSG1" \in In2 /\ "MSG1_RETRY" \in In2
BY DEF In1, In2

LEMMA LessNone ==
  ASSUME NEW E, NEW C, NEW K, Less(E, C, K)
  PROVE  \A kind \in K : /\ None(C, kind) => None(E, kind)
                         /\ Once(C, kind) => Once(E, kind)
BY ZenonT(60) DEF Less, None

LEMMA GmLess ==
  ASSUME NEW C1, NEW C2, NEW E1, NEW E2, NEW g1, NEW k1, NEW f1, NEW g2, NEW k2,
         Gm(C1, C2, g1, k1, f1, g2, k2), Less(E1, C1, In1), Less(E2, C2, In2)
  PROVE  Gm(E1, E2, g1, k1, f1, g2, k2)
<1>1. \A kind \in In1 : (None(C1, kind) => None(E1, kind)) /\ (Once(C1, kind) => Once(E1, kind))
  BY ZenonT(60), LessNone
<1>2. \A kind \in In2 : (None(C2, kind) => None(E2, kind)) /\ (Once(C2, kind) => Once(E2, kind))
  BY ZenonT(60), LessNone
<1>3. (\A k \in DOMAIN C1 : C1[k].kind = "MSG2" => C1[k].key = k2) =>
        \A k \in DOMAIN E1 : E1[k].kind = "MSG2" => E1[k].key = k2
  BY ZenonT(60), GmKinds DEF Less
<1> QED BY ZenonT(60), <1>1, <1>2, <1>3, GmKinds DEF Gm

(* What the handlers of node 1, the client, make of it. *)
(* gm_start. *)
LEMMA GmStarts ==
  ASSUME NEW C1 \in Seq(Frames), NEW C2 \in Seq(Frames), NEW g1, NEW k1, NEW f1 \in BOOLEAN, NEW g2, NEW k2,
         Gm(C1, C2, g1, k1, f1, g2, k2), g1 = "none", ~f1, NEW f \in Frames, f.kind = "MSG1", NEW key
  PROVE  Gm(C1, C2 \o <<f>>, "waitCookie", key, f1, g2, k2)
<1>1. Less(C2 \o <<f>>, C2, {"MSG1_RETRY"})
  <2>1. <<f>> \in Seq(Frames) /\ \A k \in DOMAIN <<f>> : <<f>>[k].kind \notin {"MSG1_RETRY"}
    OBVIOUS
  <2> QED BY ZenonT(60), <2>1, LessConcat
<1>2. None(C2, "MSG1") /\ None(C1, "COOKIE") /\ None(C2, "MSG1_RETRY") /\ None(C1, "MSG2")
  BY ZenonT(60) DEF Gm
<1>3. Once(C2 \o <<f>>, "MSG1")
  BY ZenonT(60), <1>2, OneComes
<1>4. None(C2 \o <<f>>, "MSG1_RETRY") /\ Once(C2 \o <<f>>, "MSG1_RETRY")
  BY ZenonT(60), <1>1, <1>2 DEF Less, None, Once
<1> QED BY ZenonT(60), <1>2, <1>3, <1>4 DEF Gm

(* GM_HS_COOKIE. *)
LEMMA GmCookie ==
  ASSUME NEW C1 \in Seq(Frames), NEW C2 \in Seq(Frames), NEW g1, NEW k1, NEW f1 \in BOOLEAN, NEW g2, NEW k2,
         Gm(C1, C2, g1, k1, f1, g2, k2), g1 = "waitCookie", C1 # <<>>, Head(C1).kind = "COOKIE",
         NEW f \in Frames, f.kind = "MSG1_RETRY", NEW key
  PROVE  Gm(Tail(C1), C2 \o <<f>>, "waitMsg2", key, f1, g2, k2)
<1>1. Less(C2 \o <<f>>, C2, {"MSG1"})
  <2>1. <<f>> \in Seq(Frames) /\ \A k \in DOMAIN <<f>> : <<f>>[k].kind \notin {"MSG1"}
    OBVIOUS
  <2> QED BY ZenonT(60), <2>1, LessConcat
<1>2. ~None(C1, "COOKIE")
  BY ZenonT(60), TailElements DEF None
<1>3. ~f1 /\ None(C2, "MSG1") /\ Once(C1, "COOKIE") /\ None(C2, "MSG1_RETRY") /\ None(C1, "MSG2")
  BY ZenonT(60), <1>2 DEF Gm
<1>4. Once(C2 \o <<f>>, "MSG1_RETRY")
  BY ZenonT(60), <1>3, OneComes
<1>5. None(C2 \o <<f>>, "MSG1") /\ Once(C2 \o <<f>>, "MSG1")
  BY ZenonT(60), <1>1, <1>3 DEF Less, None, Once
<1>6. None(Tail(C1), "COOKIE") /\ Less(Tail(C1), C1, In1)
  BY ZenonT(60), <1>3, LessTail
<1>7. \A kind \in In1 : (None(C1, kind) => None(Tail(C1), kind)) /\ (Once(C1, kind) => Once(Tail(C1), kind))
  BY ZenonT(60), <1>6, LessNone
<1>8. None(Tail(C1), "MSG2") /\ Once(Tail(C1), "MSG2") /\ Once(Tail(C1), "COOKIE")
  BY ZenonT(60), <1>3, <1>7, GmKinds DEF None, Once
<1> QED BY ZenonT(60), <1>3, <1>4, <1>5, <1>6, <1>7, <1>8, GmKinds DEF Gm, None

(* GM_HS_MSG2, accepted or not. *)
LEMMA GmMsg2 ==
  ASSUME NEW C1 \in Seq(Frames), NEW C2 \in Seq(Frames), NEW g1, NEW k1, NEW f1 \in BOOLEAN, NEW g2, NEW k2,
         Gm(C1, C2, g1, k1, f1, g2, k2), g1 = "waitMsg2", C1 # <<>>, Head(C1).kind = "MSG2",
         NEW E2, Less(E2, C2, In2)
  PROVE  /\ Gm(Tail(C1), E2, "unbound", Head(C1).key, f1, g2, k2)
         /\ \A k : Gm(Tail(C1), E2, "none", k, f1, g2, k2)
<1>1. Head(C1) = C1[1] /\ 1 \in DOMAIN C1
  BY ZenonT(60), TailElements
<1>2. Less(Tail(C1), C1, In1)
  BY ZenonT(60), LessTail
<1>3. Gm(Tail(C1), E2, g1, k1, f1, g2, k2)
  BY ZenonT(60), <1>2, GmLess
<1>4. ~f1 /\ None(C2, "MSG1_RETRY") /\ Once(C1, "MSG2") /\ (g2 \in {"waitMsg3", "unbound", "ready"} => Head(C1).key = k2)
  BY ZenonT(60), <1>1 DEF Gm, None
<1>5. None(Tail(C1), "MSG2") /\ None(E2, "MSG1_RETRY")
  BY ZenonT(60), <1>4, LessTail, LessNone, GmKinds
<1>6. None(E2, "MSG1") /\ None(Tail(C1), "COOKIE")
  BY ZenonT(60), <1>3, <1>4 DEF Gm
<1> DEFINE E1 == Tail(C1)
<1> HIDE DEF E1
<1>7. Gm(E1, E2, g1, k1, f1, g2, k2) /\ None(E1, "MSG2") /\ None(E1, "COOKIE")
  BY ZenonT(60), <1>3, <1>5, <1>6 DEF E1
<1>8. Gm(E1, E2, "unbound", Head(C1).key, f1, g2, k2) /\ \A k : Gm(E1, E2, "none", k, f1, g2, k2)
  BY ZenonT(60), <1>4, <1>5, <1>6, <1>7 DEF Gm, None
<1> QED BY ZenonT(60), <1>8 DEF E1

(* What the handlers of node 2, the server, make of it. *)
(* GM_HS_MSG1. *)
LEMMA GmMsg1 ==
  ASSUME NEW C1 \in Seq(Frames), NEW C2 \in Seq(Frames), NEW g1, NEW k1, NEW f1 \in BOOLEAN, NEW g2, NEW k2,
         Gm(C1, C2, g1, k1, f1, g2, k2), C2 # <<>>, Head(C2).kind = "MSG1", NEW f \in Frames, f.kind = "COOKIE", NEW key
  PROVE  Gm(C1 \o <<f>>, Tail(C2), g1, k1, f1, "waitRetry", key)
<1>1. Less(C1 \o <<f>>, C1, {"MSG1_RETRY", "MSG2", "MSG3"})
  <2>1. <<f>> \in Seq(Frames) /\ \A k \in DOMAIN <<f>> : <<f>>[k].kind \notin {"MSG1_RETRY", "MSG2", "MSG3"}
    OBVIOUS
  <2> QED BY ZenonT(60), <2>1, LessConcat
<1>2. ~None(C2, "MSG1")
  BY ZenonT(60), TailElements DEF None
<1>3. ~f1 => g1 = "waitCookie" /\ None(C1, "COOKIE") /\ Once(C2, "MSG1")
  BY ZenonT(60), <1>2 DEF Gm
<1>4. Less(Tail(C2), C2, In2) /\ (~f1 => None(Tail(C2), "MSG1"))
  BY ZenonT(60), <1>3, LessTail
<1>5. \A kind \in In2 : (None(C2, kind) => None(Tail(C2), kind)) /\ (Once(C2, kind) => Once(Tail(C2), kind))
  BY ZenonT(60), <1>4, LessNone
<1>6. ~f1 => Once(C1 \o <<f>>, "COOKIE")
  BY ZenonT(60), <1>3, OneComes
<1>7. \A kind \in {"MSG1_RETRY", "MSG2", "MSG3"} :
        (None(C1, kind) => None(C1 \o <<f>>, kind)) /\ (Once(C1, kind) => Once(C1 \o <<f>>, kind))
  BY ZenonT(60), <1>1, LessNone
<1> DEFINE E1 == C1 \o <<f>>
           E2 == Tail(C2)
<1> HIDE DEF E1, E2
<1>8. /\ ~f1 => g1 = "waitCookie" /\ None(E2, "MSG1") /\ Once(E1, "COOKIE")
      /\ \A kind \in In2 : (None(C2, kind) => None(E2, kind)) /\ (Once(C2, kind) => Once(E2, kind))
      /\ \A kind \in {"MSG1_RETRY", "MSG2", "MSG3"} :
           (None(C1, kind) => None(E1, kind)) /\ (Once(C1, kind) => Once(E1, kind))
  BY ZenonT(60), <1>3, <1>4, <1>5, <1>6, <1>7 DEF E1, E2
<1>9. Gm(E1, E2, g1, k1, f1, "waitRetry", key)
  BY ZenonT(60), <1>8, GmKinds DEF Gm
<1> QED BY ZenonT(60), <1>9 DEF E1, E2

(* GM_HS_MSG1_RETRY. *)
LEMMA GmRetry ==
  ASSUME NEW C1 \in Seq(Frames), NEW C2 \in Seq(Frames), NEW g1, NEW k1, NEW f1 \in BOOLEAN, NEW g2, NEW k2,
         Gm(C1, C2, g1, k1, f1, g2, k2), C2 # <<>>, Head(C2).kind = "MSG1_RETRY", NEW f \in Frames, f.kind = "MSG2"
  PROVE  Gm(C1 \o <<f>>, Tail(C2), g1, k1, f1, "waitMsg3", f.key)
<1>1. Less(C1 \o <<f>>, C1, {"COOKIE", "MSG1_RETRY", "MSG3"})
  <2>1. <<f>> \in Seq(Frames) /\ \A k \in DOMAIN <<f>> : <<f>>[k].kind \notin {"COOKIE", "MSG1_RETRY", "MSG3"}
    OBVIOUS
  <2> QED BY ZenonT(60), <2>1, LessConcat
<1>2. ~None(C2, "MSG1_RETRY")
  BY ZenonT(60), TailElements DEF None
<1>3. ~f1 => g1 = "waitMsg2" /\ None(C1, "MSG2") /\ Once(C2, "MSG1_RETRY")
  BY ZenonT(60), <1>2 DEF Gm
<1>4. Less(Tail(C2), C2, In2) /\ (~f1 => None(Tail(C2), "MSG1_RETRY"))
  BY ZenonT(60), <1>3, LessTail
<1>5. \A kind \in In2 : (None(C2, kind) => None(Tail(C2), kind)) /\ (Once(C2, kind) => Once(Tail(C2), kind))
  BY ZenonT(60), <1>4, LessNone
<1>6. ~f1 => Once(C1 \o <<f>>, "MSG2") /\ \A k \in DOMAIN (C1 \o <<f>>) : (C1 \o <<f>>)[k].kind = "MSG2" => (C1 \o <<f>>)[k] = f
  BY ZenonT(60), <1>3, OneComes
<1>7. \A kind \in {"COOKIE", "MSG1_RETRY", "MSG3"} :
        (None(C1, kind) => None(C1 \o <<f>>, kind)) /\ (Once(C1, kind) => Once(C1 \o <<f>>, kind))
  BY ZenonT(60), <1>1, LessNone
<1> DEFINE E1 == C1 \o <<f>>
           E2 == Tail(C2)
<1> HIDE DEF E1, E2
<1>8. /\ ~f1 => g1 = "waitMsg2" /\ None(E2, "MSG1_RETRY") /\ Once(E1, "MSG2")
      /\ ~f1 => \A k \in DOMAIN E1 : E1[k].kind = "MSG2" => E1[k] = f
      /\ \A kind \in In2 : (None(C2, kind) => None(E2, kind)) /\ (Once(C2, kind) => Once(E2, kind))
      /\ \A kind \in {"COOKIE", "MSG1_RETRY", "MSG3"} :
           (None(C1, kind) => None(E1, kind)) /\ (Once(C1, kind) => Once(E1, kind))
  BY ZenonT(60), <1>3, <1>4, <1>5, <1>6, <1>7 DEF E1, E2
<1>9. Gm(E1, E2, g1, k1, f1, "waitMsg3", f.key)
  BY ZenonT(60), <1>8, GmKinds DEF Gm
<1> QED BY ZenonT(60), <1>9 DEF E1, E2

-----------------------------------------------------------------------------
(* Both handshakes across the handlers, on an undisturbed path. *)
Peace == OInv /\ Both /\ HsInv /\ GmInv

LEMMA Shrinks ==
  ASSUME NEW n \in Nodes, NEW took \in BOOLEAN, NEW s, NEW frames, Moved(n, Other(n), took, s, frames),
         NEW K, NEW L, \A k \in DOMAIN frames : frames[k].kind \notin L
  PROVE  Less(chan'[n], chan[n], K) /\ Less(chan'[Other(n)], chan[Other(n)], L)
<1> DEFINE m == Other(n)
<1>1. /\ chan[n] \in Seq(Frames) /\ chan[m] \in Seq(Frames) /\ frames \in Seq(Frames)
      /\ took => chan[n] # <<>>
      /\ chan'[n] = IF took THEN Tail(chan[n]) ELSE chan[n]
      /\ chan'[m] = chan[m] \o frames
  BY ZenonT(60) DEF Moved
<1>2. Less(chan[m] \o frames, chan[m], L)
  BY ZenonT(60), <1>1, LessConcat
<1>3. Less(chan[n], chan[n], K)
  BY ZenonT(60) DEF Less
<1>4. took => Less(Tail(chan[n]), chan[n], K)
  BY ZenonT(60), <1>1, LessTail
<1> QED BY ZenonT(60), <1>1, <1>2, <1>3, <1>4

LEMMA Sides == Other(1) = 2 /\ Other(2) = 1 /\ 1 \in Nodes /\ 2 \in Nodes /\ 1 # 2 /\ \A n \in Nodes : n = 1 \/ n = 2
BY DEF Other, Nodes

(* A handler of the client, of the server. *)
LEMMA GmAt1 ==
  ASSUME NEW took \in BOOLEAN, NEW s, NEW frames, Moved(1, Other(1), took, s, frames),
         Gm(chan'[1], chan'[2], s.gm, s.gmKey, s.gm_failed, st[2].gm, st[2].gmKey)
  PROVE  GmInv'
<1>1. st'[1] = s /\ st'[2] = st[2]
  BY ZenonT(60), Sides DEF Moved
<1> QED BY ZenonT(60), <1>1 DEF GmInv

LEMMA GmAt2 ==
  ASSUME NEW took \in BOOLEAN, NEW s, NEW frames, Moved(2, Other(2), took, s, frames),
         Gm(chan'[1], chan'[2], st[1].gm, st[1].gmKey, st[1].gm_failed, s.gm, s.gmKey)
  PROVE  GmInv'
<1>1. st'[2] = s /\ st'[1] = st[1]
  BY ZenonT(60), Sides DEF Moved
<1> QED BY ZenonT(60), <1>1 DEF GmInv

(* What no frame of it decides: nothing, the binding frame, the timer, and
   on the server GM_HS_MSG3, gm_start, KICK and whatever erases the state. *)
LEMMA GmMoves ==
  ASSUME Peace, Less(chan'[1], chan[1], In1), Less(chan'[2], chan[2], In2)
  PROVE  LET After1(g, k, f) == Gm(chan'[1], chan'[2], g, k, f, st[2].gm, st[2].gmKey)
             After2(g, k) == Gm(chan'[1], chan'[2], st[1].gm, st[1].gmKey, st[1].gm_failed, g, k)
         IN  /\ After1(st[1].gm, st[1].gmKey, st[1].gm_failed)
             /\ st[1].gm = "unbound" => After1("ready", st[1].gmKey, st[1].gm_failed)
             /\ \A k : After1("none", k, TRUE)
             /\ st[2].gm = "waitMsg3" => After2("unbound", st[2].gmKey)
             /\ st[2].gm = "unbound" => After2("ready", st[2].gmKey)
             /\ \A k : After2("none", k) /\ After2("waitMsg1", k)
<1>1. Gm(chan'[1], chan'[2], st[1].gm, st[1].gmKey, st[1].gm_failed, st[2].gm, st[2].gmKey)
  BY ZenonT(60), GmLess DEF Peace, GmInv
<1> QED BY ZenonT(60), <1>1 DEF Gm

(* A handler that leaves the GM-PQ handshake alone. *)
LEMMA GmQuiet ==
  ASSUME Peace, NEW n \in Nodes, NEW took \in BOOLEAN, NEW s, NEW frames, Moved(n, Other(n), took, s, frames),
         s.gm = st[n].gm, s.gmKey = st[n].gmKey, s.gm_failed = st[n].gm_failed,
         \A k \in DOMAIN frames : frames[k].kind \notin In1 \cup In2
  PROVE  GmInv'
<1>1. Less(chan'[1], chan[1], In1) /\ Less(chan'[2], chan[2], In2)
  BY ZenonT(60), SMT, SMTT(30), Shrinks, Sides
<1>2. Gm(chan'[1], chan'[2], st[1].gm, st[1].gmKey, st[1].gm_failed, st[2].gm, st[2].gmKey)
  BY ZenonT(60), <1>1, GmMoves
<1>3. CASE n = 1
  BY ZenonT(60), <1>2, <1>3, GmAt1
<1>4. CASE n = 2
  BY ZenonT(60), <1>2, <1>4, GmAt2
<1> QED BY ZenonT(60), <1>3, <1>4, Sides

Data == {"CIPHER", "GM_DATA", "KICK"}

LEMMA DataKinds == \A kind \in Data : kind \notin HsKinds /\ kind \notin In1 \cup In2
BY DEF Data, HsKinds, In1, In2

LEMMA CalmQuiet ==
  ASSUME Peace, NEW n \in Nodes, NEW took \in BOOLEAN, NEW s, NEW frames, Moved(n, Other(n), took, s, frames),
         s.session = st[n].session, s.hs = st[n].hs,
         s.gm = st[n].gm, s.gmKey = st[n].gmKey, s.gm_failed = st[n].gm_failed,
         took => Head(chan[n]).kind # "RESP", \A k \in DOMAIN frames : frames[k].kind \in Data
  PROVE  HsInv' /\ GmInv'
<1>1. \A k \in DOMAIN frames : frames[k].kind \notin HsKinds /\ frames[k].kind \notin In1 \cup In2
  BY ZenonT(60), DataKinds
<1>2. HsInv'
  BY ZenonT(60), <1>1, HsQuiet DEF Peace
<1>3. GmInv'
  BY ZenonT(60), <1>1, GmQuiet
<1> QED BY <1>2, <1>3

LEMMA NoFrames == <<>> \in Seq(Frames) /\ DOMAIN <<>> = {}
OBVIOUS

LEMMA OneFrame ==
  \A kind, key : /\ Frame(kind, key).kind = kind /\ Frame(kind, key).key = key
                 /\ \A k \in DOMAIN <<Frame(kind, key)>> : <<Frame(kind, key)>>[k].kind = kind
                 /\ kind \in Kinds /\ key \in Keys => /\ Frame(kind, key) \in Frames
                                                     /\ <<Frame(kind, key)>> \in Seq(Frames)
<1> SUFFICES ASSUME NEW kind, NEW key
             PROVE  /\ Frame(kind, key).kind = kind /\ Frame(kind, key).key = key
                    /\ \A k \in DOMAIN <<Frame(kind, key)>> : <<Frame(kind, key)>>[k].kind = kind
                    /\ kind \in Kinds /\ key \in Keys => /\ Frame(kind, key) \in Frames
                                                        /\ <<Frame(kind, key)>> \in Seq(Frames)
  BY ZenonT(60)
<1>1. Frame(kind, key).kind = kind /\ Frame(kind, key).key = key
  BY DEF Frame
<1>2. kind \in Kinds /\ key \in Keys => Frame(kind, key) \in Frames
  BY DEF Frame, Frames
<1> QED BY <1>1, <1>2

LEMMA CalmIgnore ==
  ASSUME Peace, NEW n \in Nodes, chan[n] # <<>>, Head(chan[n]).kind # "RESP", Ignore(n)
  PROVE  HsInv' /\ GmInv'
<1>1. Moved(n, Other(n), TRUE, st[n], <<>>)
  BY ZenonT(60), NoFrames, ReplyMoved DEF Peace, Ignore
<1> QED BY ZenonT(60), <1>1, NoFrames, CalmQuiet

(* The state of GM-PQ is erased. *)
LEMMA CalmErased ==
  ASSUME Peace, NEW n \in Nodes, chan[n] # <<>>, Head(chan[n]).kind # "RESP", Erased(n),
         n = 1 => st[1].gm_failed \/ (st[1].gm = "waitMsg2" /\ Head(chan[1]).kind = "MSG2")
  PROVE  HsInv' /\ GmInv'
<1> DEFINE s == Becomes(n, "none", NoKey)
<1>1. "none" \in GmStates /\ NoKey \in Keys
  BY DEF GmStates, NoKey, Keys
<1>2. st[n] \in PeerEntry /\ st[1] \in PeerEntry
  BY ZenonT(60), Sides, OwnEntry DEF Peace
<1>3. /\ s.gm = "none" /\ s.gmKey = NoKey /\ s.session = st[n].session /\ s.hs = st[n].hs
      /\ s.gm_failed = st[n].gm_failed
  BY ZenonT(60), <1>1, <1>2, BecomesEntry
<1>4. Reply(n, s, <<>>, 0, <<>>)
  BY ZenonT(60) DEF Erased, Becomes
<1> HIDE DEF s
<1>5. Moved(n, Other(n), TRUE, s, <<>>)
  BY ZenonT(60), <1>4, NoFrames, ReplyMoved DEF Peace
<1>6. HsInv'
  BY ZenonT(60), <1>3, <1>5, NoFrames, HsQuiet DEF Peace
<1>7. Less(chan'[1], chan[1], In1) /\ Less(chan'[2], chan[2], In2)
  BY ZenonT(60), <1>5, Shrinks, Sides, NoFrames
<1>8. st[1].gm_failed \in BOOLEAN
  BY ZenonT(60), <1>2, EntryTypes
<1>9. Gm(chan[1], chan[2], st[1].gm, st[1].gmKey, st[1].gm_failed, st[2].gm, st[2].gmKey)
  BY ZenonT(60) DEF Peace, GmInv
<1>10. CASE n = 2
  <2>1. Gm(chan'[1], chan'[2], st[1].gm, st[1].gmKey, st[1].gm_failed, "none", NoKey)
    BY ZenonT(60), <1>7, GmMoves
  <2>2. Gm(chan'[1], chan'[2], st[1].gm, st[1].gmKey, st[1].gm_failed, s.gm, s.gmKey)
    BY ZenonT(60), <1>3, <2>1
  <2> QED BY ZenonT(60), <1>5, <1>6, <1>10, <2>2, GmAt2
<1>11. CASE n = 1
  <2>1. Gm(chan'[1], chan'[2], "none", NoKey, st[1].gm_failed, st[2].gm, st[2].gmKey)
    <3>1. CASE st[1].gm_failed
      <4>1. st[1].gm_failed = TRUE
        BY ZenonT(60), <1>8, <3>1
      <4>2. Gm(chan'[1], chan'[2], "none", NoKey, TRUE, st[2].gm, st[2].gmKey)
        BY ZenonT(60), <1>7, GmMoves
      <4> QED BY ZenonT(60), <4>1, <4>2
    <3>2. CASE st[1].gm = "waitMsg2" /\ Head(chan[1]).kind = "MSG2"
      <4>1. chan[1] \in Seq(Frames) /\ chan[2] \in Seq(Frames) /\ chan[1] # <<>> /\ chan'[1] = Tail(chan[1])
        BY ZenonT(60), <1>5, <1>11, Sides DEF Moved
      <4>2. Gm(Tail(chan[1]), chan'[2], "none", NoKey, st[1].gm_failed, st[2].gm, st[2].gmKey)
        BY ZenonT(60), <1>7, <1>8, <1>9, <3>2, <4>1, GmMsg2
      <4> QED BY ZenonT(60), <4>1, <4>2
    <3> QED BY ZenonT(60), <1>11, <3>1, <3>2
  <2>2. Gm(chan'[1], chan'[2], s.gm, s.gmKey, s.gm_failed, st[2].gm, st[2].gmKey)
    BY ZenonT(60), <1>3, <1>11, <2>1
  <2> QED BY ZenonT(60), <1>5, <1>6, <1>11, <2>2, GmAt1
<1> QED BY ZenonT(60), <1>10, <1>11, Sides

LEMMA InKinds ==
  /\ "MSG1" \notin HsKinds /\ "COOKIE" \notin HsKinds /\ "MSG1_RETRY" \notin HsKinds
  /\ "MSG2" \notin HsKinds /\ "KICK" \in Data
  /\ "MSG1" \in Kinds /\ "COOKIE" \in Kinds /\ "MSG1_RETRY" \in Kinds /\ "MSG2" \in Kinds /\ "KICK" \in Kinds
BY DEF HsKinds, Kinds, Data

(* gm_start, from send_to (q is the entry with the payload queued) or KICK. *)
LEMMA CalmStarted ==
  ASSUME Peace, NEW n \in Nodes, NEW took \in BOOLEAN, NEW q \in PeerEntry,
         q.session = st[n].session, q.hs = st[n].hs, q.gm_failed = st[n].gm_failed,
         st[n].gm = "none", ~st[n].gm_failed, took => Head(chan[n]).kind # "RESP",
         Moved(n, Other(n), took, GmStarted(n, q), GmStartSends(n))
  PROVE  HsInv' /\ GmInv'
<1> DEFINE s == GmStarted(n, q)
<1>1. fresh \in Nat /\ fresh + 1 \in Nat /\ st[n] \in PeerEntry
  BY ZenonT(60), OwnEntry DEF Peace
<1>2. /\ s.session = q.session /\ s.hs = q.hs /\ s.gm_failed = q.gm_failed
      /\ s.gm = IF n = 1 THEN "waitCookie" ELSE "waitMsg1"
  BY ZenonT(60), <1>1, GmStartedEntry
<1> HIDE DEF s
<1>3. Moved(n, Other(n), took, s, GmStartSends(n))
  BY ZenonT(60) DEF s
<1>4. <<fresh + 1>> \in Keys /\ NoKey \in Keys
  BY <1>1 DEF Keys, NoKey
<1>5. \A k \in DOMAIN GmStartSends(n) : /\ n = 1 => GmStartSends(n)[k].kind = "MSG1"
                                        /\ n # 1 => GmStartSends(n)[k].kind = "KICK"
  BY ZenonT(60), SMT, SMTT(30), OneFrame DEF GmStartSends
<1>6. HsInv'
  <2>1. \A k \in DOMAIN GmStartSends(n) : GmStartSends(n)[k].kind \notin HsKinds
    BY ZenonT(60), <1>5, InKinds, DataKinds
  <2> QED BY ZenonT(60), <1>2, <1>3, <2>1, HsQuiet DEF Peace
<1>7. CASE n = 2
  <2>1. \A k \in DOMAIN GmStartSends(n) : GmStartSends(n)[k].kind \notin In1
    BY ZenonT(60), <1>5, <1>7, Sides, InKinds, DataKinds
  <2>2. Less(chan'[1], chan[1], In1) /\ Less(chan'[2], chan[2], In2)
    BY ZenonT(60), SMT, SMTT(30), <1>3, <1>7, <2>1, Shrinks, Sides
  <2>3. Gm(chan'[1], chan'[2], st[1].gm, st[1].gmKey, st[1].gm_failed, "waitMsg1", s.gmKey)
    BY ZenonT(60), <2>2, GmMoves
  <2>4. Gm(chan'[1], chan'[2], st[1].gm, st[1].gmKey, st[1].gm_failed, s.gm, s.gmKey)
    BY ZenonT(60), <1>2, <1>7, <2>3, Sides
  <2> QED BY ZenonT(60), <1>3, <1>6, <1>7, <2>4, GmAt2
<1>8. CASE n = 1
  <2> DEFINE C1 == IF took THEN Tail(chan[1]) ELSE chan[1]
             f == Frame("MSG1", <<fresh + 1>>)
  <2>1. /\ chan[1] \in Seq(Frames) /\ chan[2] \in Seq(Frames) /\ (took => chan[1] # <<>>)
        /\ chan'[1] = C1 /\ chan'[2] = chan[2] \o GmStartSends(1)
    BY ZenonT(60), <1>3, <1>8, Sides DEF Moved
  <2>2. GmStartSends(1) = <<f>>
    BY ZenonT(60) DEF GmStartSends
  <2>3. C1 \in Seq(Frames) /\ Less(C1, chan[1], In1)
    <3>1. took => Tail(chan[1]) \in Seq(Frames) /\ Less(Tail(chan[1]), chan[1], In1)
      BY ZenonT(60), <2>1, TailElements, LessTail
    <3>2. Less(chan[1], chan[1], In1)
      BY ZenonT(60) DEF Less
    <3> QED BY ZenonT(60), <2>1, <3>1, <3>2
  <2>4. Less(chan[2], chan[2], In2)
    BY ZenonT(60) DEF Less
  <2> HIDE DEF C1
  <2>5. Gm(C1, chan[2], st[1].gm, st[1].gmKey, st[1].gm_failed, st[2].gm, st[2].gmKey)
    BY ZenonT(60), <2>3, <2>4, GmLess DEF Peace, GmInv
  <2>6. st[1].gm = "none" /\ st[1].gm_failed \in BOOLEAN /\ ~st[1].gm_failed
    BY ZenonT(60), <1>1, <1>8, EntryTypes
  <2>7. f \in Frames /\ f.kind = "MSG1"
    BY ZenonT(60), <1>4, InKinds, OneFrame
  <2> HIDE DEF f
  <2>8. Gm(C1, chan[2] \o <<f>>, "waitCookie", s.gmKey, st[1].gm_failed, st[2].gm, st[2].gmKey)
    BY ZenonT(60), SMT, SMTT(30), <2>1, <2>3, <2>5, <2>6, <2>7, GmStarts
  <2>9. Gm(chan'[1], chan'[2], s.gm, s.gmKey, s.gm_failed, st[2].gm, st[2].gmKey)
    BY ZenonT(60), <1>2, <1>8, <2>1, <2>2, <2>8
  <2> QED BY ZenonT(60), <1>3, <1>6, <1>8, <2>9, GmAt1
<1> QED BY ZenonT(60), <1>7, <1>8, Sides

(* A handler that moves the GM-PQ state on and answers. *)
Answered(n, s, g, key, frames) ==
  /\ HsInv' /\ s.gm = g /\ s.gmKey = key /\ s.gm_failed = st[n].gm_failed
  /\ Moved(n, Other(n), TRUE, s, frames)

LEMMA CalmAnswers ==
  ASSUME Peace, NEW n \in Nodes, chan[n] # <<>>, NEW g \in GmStates, NEW key \in Keys,
         NEW frames \in Seq(Frames), \A k \in DOMAIN frames : frames[k].kind \notin HsKinds,
         Head(chan[n]).kind # "RESP", NEW keys, Reply(n, Becomes(n, g, key), frames, keys, <<>>)
  PROVE  Answered(n, Becomes(n, g, key), g, key, frames)
<1> DEFINE s == Becomes(n, g, key)
<1>1. st[n] \in PeerEntry
  BY ZenonT(60), OwnEntry DEF Peace
<1>2. /\ s.gm = g /\ s.gmKey = key /\ s.session = st[n].session /\ s.hs = st[n].hs
      /\ s.gm_failed = st[n].gm_failed
  BY ZenonT(60), <1>1, BecomesEntry
<1> HIDE DEF s
<1>4. Moved(n, Other(n), TRUE, s, frames)
  BY ZenonT(60), ReplyMoved DEF Peace, s
<1>5. HsInv'
  BY ZenonT(60), <1>2, <1>4, HsQuiet DEF Peace
<1> QED BY ZenonT(60), <1>2, <1>4, <1>5 DEF s, Answered

LEMMA CalmAnswer ==
  ASSUME Peace, NEW n \in Nodes, chan[n] # <<>>, NEW g \in GmStates, NEW key \in Keys, NEW kind \in Kinds,
         NEW body \in Keys, Head(chan[n]).kind # "RESP", kind \notin HsKinds, NEW keys,
         Reply(n, Becomes(n, g, key), <<Frame(kind, body)>>, keys, <<>>)
  PROVE  Answered(n, Becomes(n, g, key), g, key, <<Frame(kind, body)>>)
<1> DEFINE frames == <<Frame(kind, body)>>
<1>1. frames \in Seq(Frames) /\ \A k \in DOMAIN frames : frames[k].kind \notin HsKinds
  BY OneFrame
<1>2. Reply(n, Becomes(n, g, key), frames, keys, <<>>)
  OBVIOUS
<1> HIDE DEF frames
<1>3. Answered(n, Becomes(n, g, key), g, key, frames)
  BY ZenonT(60), <1>1, <1>2, CalmAnswers
<1> QED BY ZenonT(60), <1>3 DEF frames

LEMMA CalmKick ==
  ASSUME Peace, NEW n \in Nodes, Next1(n, "KICK"), OnKick(n)
  PROVE  HsInv' /\ GmInv'
<1>1. chan[n] # <<>> /\ Head(chan[n]).kind # "RESP" /\ Head(chan[n]).kind = "KICK"
  BY ZenonT(60) DEF Next1
<1>2. CASE Ignore(n)
  BY ZenonT(60), <1>1, <1>2, CalmIgnore
<1>3. st[n] \in PeerEntry /\ fresh \in Nat
  BY ZenonT(60), OwnEntry DEF Peace
<1>4. CASE /\ st[n].gm = "none" /\ ~st[n].gm_failed
           /\ Reply(n, GmStarted(n, st[n]), GmStartSends(n), GmStartKeys(n), <<>>)
  <2>1. GmStartSends(n) \in Seq(Frames)
    BY ZenonT(60), <1>3, GmStartedEntry DEF Plain
  <2>2. Moved(n, Other(n), TRUE, GmStarted(n, st[n]), GmStartSends(n))
    BY ZenonT(60), <1>1, <1>4, <2>1, ReplyMoved DEF Peace
  <2> QED BY ZenonT(60), <1>1, <1>3, <1>4, <2>2, CalmStarted
<1>5. CASE n # 1 /\ Reply(n, Becomes(n, "waitMsg1", NoKey), <<>>, 0, <<>>)
  <2> DEFINE s == Becomes(n, "waitMsg1", NoKey)
  <2>1. "waitMsg1" \in GmStates /\ NoKey \in Keys
    BY DEF GmStates, Keys, NoKey
  <2>2. s.gm = "waitMsg1" /\ s.session = st[n].session /\ s.hs = st[n].hs
    BY ZenonT(60), <1>3, <2>1, BecomesEntry
  <2> HIDE DEF s
  <2>3. Moved(n, Other(n), TRUE, s, <<>>)
    BY ZenonT(60), <1>1, <1>5, NoFrames, ReplyMoved DEF Peace, s
  <2>4. HsInv'
    BY ZenonT(60), <1>1, <2>2, <2>3, NoFrames, HsQuiet DEF Peace
  <2>5. Less(chan'[1], chan[1], In1) /\ Less(chan'[2], chan[2], In2)
    BY ZenonT(60), <1>5, <2>3, Shrinks, Sides, NoFrames
  <2>6. Gm(chan'[1], chan'[2], st[1].gm, st[1].gmKey, st[1].gm_failed, s.gm, s.gmKey)
    BY ZenonT(60), <2>2, <2>5, GmMoves
  <2>7. n = 2
    BY ZenonT(60), <1>5, Sides
  <2> QED BY ZenonT(60), <2>3, <2>4, <2>6, <2>7, GmAt2
<1>6. n = 1 => n < Other(n)
  BY DEF Other
<1> QED BY ZenonT(60), <1>2, <1>4, <1>5, <1>6 DEF OnKick

LEMMA CalmMsg1 ==
  ASSUME Peace, NEW n \in Nodes, HandleMsg1(n)
  PROVE  HsInv' /\ GmInv'
<1> DEFINE e == Head(chan[n]).key
<1>1. chan[n] # <<>> /\ Head(chan[n]).kind = "MSG1" /\ e \in Keys
  BY ZenonT(60), HeadFrame DEF HandleMsg1, Peace
<1>2. CASE Ignore(n)
  BY ZenonT(60), <1>1, <1>2, CalmIgnore
<1>3. n = 1 => n < Other(n)
  BY DEF Other
<1>4. CASE n # 1 /\ Reply(n, Becomes(n, "waitRetry", e), <<Frame("COOKIE", e)>>, 0, <<>>)
  <2> DEFINE s == Becomes(n, "waitRetry", e)
             f == Frame("COOKIE", e)
  <2>1. "waitRetry" \in GmStates /\ "COOKIE" \in Kinds /\ "COOKIE" \notin HsKinds /\ "COOKIE" # "RESP"
    BY InKinds DEF GmStates
  <2>2. HsInv' /\ s.gm = "waitRetry" /\ Moved(n, Other(n), TRUE, s, <<f>>)
    <3>1. Answered(n, s, "waitRetry", e, <<f>>)
      BY ZenonT(60), <1>1, <1>4, <2>1, CalmAnswer
    <3> QED BY ZenonT(60), <3>1 DEF Answered
  <2>3. f \in Frames /\ f.kind = "COOKIE"
    BY ZenonT(60), <1>1, InKinds, OneFrame
  <2> HIDE DEF s, f
  <2>4. n = 2
    BY ZenonT(60), <1>4, Sides
  <2>5. /\ chan[1] \in Seq(Frames) /\ chan[2] \in Seq(Frames) /\ chan[2] # <<>>
        /\ chan'[2] = Tail(chan[2]) /\ chan'[1] = chan[1] \o <<f>>
    BY ZenonT(60), <2>2, <2>4, Sides DEF Moved
  <2>6. st[1].gm_failed \in BOOLEAN /\ Head(chan[2]).kind = "MSG1"
    BY ZenonT(60), <1>1, <2>4, Sides, OwnEntry, EntryTypes DEF Peace
  <2>7. Gm(chan[1] \o <<f>>, Tail(chan[2]), st[1].gm, st[1].gmKey, st[1].gm_failed, "waitRetry", s.gmKey)
    BY ZenonT(60), <2>3, <2>5, <2>6, GmMsg1 DEF Peace, GmInv
  <2>8. Gm(chan'[1], chan'[2], st[1].gm, st[1].gmKey, st[1].gm_failed, s.gm, s.gmKey)
    BY ZenonT(60), <2>2, <2>5, <2>7
  <2> QED BY ZenonT(60), <2>2, <2>4, <2>8, GmAt2
<1> QED BY ZenonT(60), <1>2, <1>3, <1>4 DEF HandleMsg1, OnMsg1

LEMMA CalmCookie ==
  ASSUME Peace, NEW n \in Nodes, HandleCookie(n)
  PROVE  HsInv' /\ GmInv'
<1> DEFINE c == Head(chan[n]).key
<1>1. chan[n] # <<>> /\ Head(chan[n]).kind = "COOKIE" /\ c \in Keys /\ Head(chan[n]) = chan[n][1] /\ 1 \in DOMAIN chan[n]
  BY ZenonT(60), HeadFrame DEF HandleCookie, Peace
<1>2. CASE Ignore(n)
  BY ZenonT(60), <1>1, <1>2, CalmIgnore
<1>3. CASE st[n].gm # "waitCookie" /\ Erased(n)
  <2>1. n = 1 => st[1].gm_failed
    BY ZenonT(60), <1>1, <1>3 DEF Peace, GmInv, Gm, None
  <2> QED BY ZenonT(60), <1>1, <1>3, <2>1, CalmErased
<1>4. CASE st[n].gm = "waitCookie" /\ Reply(n, [st[n] EXCEPT !.gm = "waitMsg2"], <<Frame("MSG1_RETRY", c \o st[n].gmKey)>>, 0, <<>>)
  <2> DEFINE s == Becomes(n, "waitMsg2", st[n].gmKey)
             f == Frame("MSG1_RETRY", c \o st[n].gmKey)
  <2>1. "waitMsg2" \in GmStates /\ "MSG1_RETRY" \in Kinds /\ "MSG1_RETRY" \notin HsKinds
    BY InKinds DEF GmStates
  <2>2. st[n] \in PeerEntry /\ st[n].gmKey \in Keys
    BY ZenonT(60), OwnEntry, EntryTypes DEF Peace
  <2>3. c \o st[n].gmKey \in Keys
    BY <1>1, <2>2 DEF Keys
  <2>4. [st[n] EXCEPT !.gm = "waitMsg2"] = s
    BY ZenonT(60), <2>2 DEF Becomes, PeerEntry
  <2>5. Reply(n, s, <<f>>, 0, <<>>)
    BY <1>4, <2>4
  <2>6. HsInv' /\ s.gm = "waitMsg2" /\ s.gm_failed = st[n].gm_failed /\ Moved(n, Other(n), TRUE, s, <<f>>)
    <3>1. Answered(n, s, "waitMsg2", st[n].gmKey, <<f>>)
      BY ZenonT(60), <1>1, <2>1, <2>2, <2>3, <2>5, CalmAnswer
    <3> QED BY ZenonT(60), <3>1 DEF Answered
  <2>7. f \in Frames /\ f.kind = "MSG1_RETRY"
    BY ZenonT(60), <2>3, InKinds, OneFrame
  <2> HIDE DEF s, f
  <2>8. n = 1
    BY ZenonT(60), <1>4, Sides DEF Peace, GmInv, Gm
  <2>9. /\ chan[1] \in Seq(Frames) /\ chan[2] \in Seq(Frames) /\ chan[1] # <<>>
        /\ chan'[1] = Tail(chan[1]) /\ chan'[2] = chan[2] \o <<f>>
    BY ZenonT(60), <2>6, <2>8, Sides DEF Moved
  <2>10. st[1].gm_failed \in BOOLEAN /\ Head(chan[1]).kind = "COOKIE" /\ st[1].gm = "waitCookie"
    BY ZenonT(60), <1>1, <1>4, <2>2, <2>8, EntryTypes
  <2>11. Gm(Tail(chan[1]), chan[2] \o <<f>>, "waitMsg2", s.gmKey, st[1].gm_failed, st[2].gm, st[2].gmKey)
    BY ZenonT(60), <2>7, <2>9, <2>10, GmCookie DEF Peace, GmInv
  <2>12. Gm(chan'[1], chan'[2], s.gm, s.gmKey, s.gm_failed, st[2].gm, st[2].gmKey)
    BY ZenonT(60), <2>6, <2>8, <2>9, <2>11
  <2> QED BY ZenonT(60), <2>6, <2>8, <2>12, GmAt1
<1> QED BY ZenonT(60), <1>2, <1>3, <1>4 DEF HandleCookie, OnCookie

LEMMA CalmRetry ==
  ASSUME Peace, NEW n \in Nodes, HandleRetry(n)
  PROVE  HsInv' /\ GmInv'
<1>1. chan[n] # <<>> /\ Head(chan[n]).kind = "MSG1_RETRY" /\ Head(chan[n]) = chan[n][1] /\ 1 \in DOMAIN chan[n]
  BY ZenonT(60), HeadFrame DEF HandleRetry, Peace
<1>2. n # 1
  BY ZenonT(60), <1>1 DEF Peace, GmInv, Gm, None
<1>3. CASE Ignore(n)
  BY ZenonT(60), <1>1, <1>3, CalmIgnore
<1>4. CASE Erased(n)
  BY ZenonT(60), <1>1, <1>2, <1>4, CalmErased
<1> DEFINE key == <<st[n].gmKey[1], fresh + 1>>
<1>5. CASE st[n].gm = "waitRetry" /\ Reply(n, Becomes(n, "waitMsg3", key), <<Frame("MSG2", key)>>, 1, <<>>)
  <2> DEFINE s == Becomes(n, "waitMsg3", key)
             f == Frame("MSG2", key)
  <2>1. "waitMsg3" \in GmStates /\ "MSG2" \in Kinds /\ "MSG2" \notin HsKinds
    BY InKinds DEF GmStates
  <2>2. key \in Keys
    <3>1. st[n].gmKey[1] \in Nat /\ fresh + 1 \in Nat
      BY ZenonT(60), <1>5, OwnEntry, EntryTypes, FirstKey DEF Peace
    <3> QED BY <3>1 DEF Keys
  <2> HIDE DEF key
  <2>3. Answered(n, s, "waitMsg3", key, <<f>>)
    BY ZenonT(60), <1>1, <1>5, <2>1, <2>2, CalmAnswer
  <2>4. HsInv' /\ s.gm = "waitMsg3" /\ s.gmKey = key /\ Moved(n, Other(n), TRUE, s, <<f>>)
    BY ZenonT(60), <2>3 DEF Answered
  <2>5. f \in Frames /\ f.kind = "MSG2" /\ f.key = key
    BY ZenonT(60), <2>1, <2>2, OneFrame
  <2> HIDE DEF s, f
  <2>6. n = 2
    BY ZenonT(60), <1>2, Sides
  <2>7. /\ chan[1] \in Seq(Frames) /\ chan[2] \in Seq(Frames) /\ chan[2] # <<>>
        /\ chan'[2] = Tail(chan[2]) /\ chan'[1] = chan[1] \o <<f>>
    BY ZenonT(60), <2>4, <2>6, Sides DEF Moved
  <2>8. st[1].gm_failed \in BOOLEAN /\ Head(chan[2]).kind = "MSG1_RETRY"
    BY ZenonT(60), <1>1, <2>6, Sides, OwnEntry, EntryTypes DEF Peace
  <2>9. Gm(chan[1] \o <<f>>, Tail(chan[2]), st[1].gm, st[1].gmKey, st[1].gm_failed, "waitMsg3", f.key)
    BY ZenonT(60), <2>5, <2>7, <2>8, GmRetry DEF Peace, GmInv
  <2>10. Gm(chan'[1], chan'[2], st[1].gm, st[1].gmKey, st[1].gm_failed, s.gm, s.gmKey)
    BY ZenonT(60), <2>4, <2>5, <2>7, <2>9
  <2> QED BY ZenonT(60), <2>4, <2>6, <2>10, GmAt2
<1> QED BY ZenonT(60), <1>3, <1>4, <1>5 DEF HandleRetry

LEMMA BindFrames ==
  ASSUME NEW s \in PeerEntry, NEW key \in Keys
  PROVE  /\ <<GmData(s, Bind)>> \in Seq(Frames) /\ <<Frame("MSG3", key), GmData(s, Bind)>> \in Seq(Frames)
         /\ \A k \in DOMAIN <<GmData(s, Bind)>> :
              /\ <<GmData(s, Bind)>>[k].kind \notin HsKinds /\ <<GmData(s, Bind)>>[k].kind \notin In1
         /\ \A k \in DOMAIN <<Frame("MSG3", key), GmData(s, Bind)>> :
              /\ <<Frame("MSG3", key), GmData(s, Bind)>>[k].kind \notin HsKinds
              /\ <<Frame("MSG3", key), GmData(s, Bind)>>[k].kind \notin In2
<1>1. <<GmData(s, Bind)>> \in Seq(Frames) /\ <<Frame("MSG3", key), GmData(s, Bind)>> \in Seq(Frames)
  BY ZenonT(60), PlainFrames DEF Plain
<1>2. GmData(s, Bind).kind = "GM_DATA" /\ Frame("MSG3", key).kind = "MSG3"
  BY DEF GmData, Frame
<1>3. /\ "GM_DATA" \notin HsKinds /\ "GM_DATA" \notin In1 /\ "GM_DATA" \notin In2
      /\ "MSG3" \notin HsKinds /\ "MSG3" \notin In2
  BY DEF HsKinds, In1, In2
<1> DEFINE d == GmData(s, Bind)
           f == Frame("MSG3", key)
<1>4. DOMAIN <<d>> = {1} /\ <<d>>[1] = d /\ DOMAIN <<f, d>> = {1, 2} /\ <<f, d>>[1] = f /\ <<f, d>>[2] = d
  OBVIOUS
<1> QED BY ZenonT(60), <1>1, <1>2, <1>3, <1>4

LEMMA CalmMsg2 ==
  ASSUME Peace, NEW n \in Nodes, HandleMsg2(n)
  PROVE  HsInv' /\ GmInv'
<1> DEFINE key == Head(chan[n]).key
           s == Becomes(n, "unbound", key)
           frames == <<Frame("MSG3", key), GmData(s, Bind)>>
<1>1. chan[n] # <<>> /\ Head(chan[n]).kind = "MSG2" /\ key \in Keys /\ Head(chan[n]) = chan[n][1] /\ 1 \in DOMAIN chan[n]
  BY ZenonT(60), HeadFrame DEF HandleMsg2, Peace
<1>2. n = 1 => st[1].gm_failed \/ st[1].gm = "waitMsg2"
  BY ZenonT(60), <1>1 DEF Peace, GmInv, Gm, None
<1>3. CASE Ignore(n)
  BY ZenonT(60), <1>1, <1>3, CalmIgnore
<1>4. CASE Erased(n)
  BY ZenonT(60), <1>1, <1>2, <1>4, CalmErased
<1>5. CASE st[n].gm = "waitMsg2" /\ Reply(n, s, frames, 0, <<>>)
  <2>1. "unbound" \in GmStates
    BY DEF GmStates
  <2>2. st[n] \in PeerEntry
    BY ZenonT(60), OwnEntry DEF Peace
  <2>3. s \in PeerEntry
    BY ZenonT(60), <1>1, <2>1, <2>2, BecomesEntry
  <2>4. /\ frames \in Seq(Frames) /\ \A k \in DOMAIN frames : frames[k].kind \notin HsKinds
        /\ \A k \in DOMAIN frames : frames[k].kind \notin In2
    BY ZenonT(60), <1>1, <2>3, BindFrames
  <2> HIDE DEF frames
  <2>5. Answered(n, s, "unbound", key, frames)
    BY ZenonT(60), <1>1, <1>5, <2>1, <2>4, CalmAnswers
  <2> HIDE DEF s
  <2>6. /\ HsInv' /\ s.gm = "unbound" /\ s.gmKey = key /\ s.gm_failed = st[n].gm_failed
        /\ Moved(n, Other(n), TRUE, s, frames)
    BY ZenonT(60), <2>5 DEF Answered
  <2>7. n = 1
    BY ZenonT(60), <1>5, Sides DEF Peace, GmInv, Gm
  <2>8. /\ chan[1] \in Seq(Frames) /\ chan[2] \in Seq(Frames) /\ chan[1] # <<>>
        /\ chan'[1] = Tail(chan[1])
    BY ZenonT(60), <2>6, <2>7, Sides DEF Moved
  <2>9. Less(chan'[2], chan[2], In2)
    BY ZenonT(60), <2>4, <2>6, <2>7, Sides, Shrinks
  <2>10. st[1].gm_failed \in BOOLEAN /\ Head(chan[1]).kind = "MSG2" /\ st[1].gm = "waitMsg2"
    BY ZenonT(60), <1>1, <1>5, <2>2, <2>7, EntryTypes
  <2>11. Gm(Tail(chan[1]), chan'[2], "unbound", Head(chan[1]).key, st[1].gm_failed, st[2].gm, st[2].gmKey)
    BY ZenonT(60), <2>8, <2>9, <2>10, GmMsg2 DEF Peace, GmInv
  <2>12. Gm(chan'[1], chan'[2], s.gm, s.gmKey, s.gm_failed, st[2].gm, st[2].gmKey)
    BY ZenonT(60), <2>6, <2>7, <2>8, <2>11
  <2> QED BY ZenonT(60), <2>6, <2>7, <2>12, GmAt1
<1> QED BY ZenonT(60), <1>3, <1>4, <1>5 DEF HandleMsg2

LEMMA CalmMsg3 ==
  ASSUME Peace, NEW n \in Nodes, HandleMsg3(n)
  PROVE  HsInv' /\ GmInv'
<1> DEFINE key == Head(chan[n]).key
           s == Becomes(n, "unbound", key)
           frames == <<GmData(s, Bind)>>
<1>1. chan[n] # <<>> /\ Head(chan[n]).kind = "MSG3" /\ key \in Keys /\ Head(chan[n]) = chan[n][1] /\ 1 \in DOMAIN chan[n]
  BY ZenonT(60), HeadFrame DEF HandleMsg3, Peace
<1>2. n # 1
  BY ZenonT(60), <1>1 DEF Peace, GmInv, Gm, None
<1>3. CASE Ignore(n)
  BY ZenonT(60), <1>1, <1>3, CalmIgnore
<1>4. CASE Erased(n)
  BY ZenonT(60), <1>1, <1>2, <1>4, CalmErased
<1>5. CASE st[n].gm = "waitMsg3" /\ st[n].gmKey = key /\ Reply(n, s, frames, 0, <<>>)
  <2>1. "unbound" \in GmStates
    BY DEF GmStates
  <2>2. st[n] \in PeerEntry
    BY ZenonT(60), OwnEntry DEF Peace
  <2>3. s \in PeerEntry
    BY ZenonT(60), <1>1, <2>1, <2>2, BecomesEntry
  <2>4. /\ frames \in Seq(Frames) /\ \A k \in DOMAIN frames : frames[k].kind \notin HsKinds
        /\ \A k \in DOMAIN frames : frames[k].kind \notin In1
    BY ZenonT(60), <1>1, <2>3, BindFrames
  <2> HIDE DEF frames
  <2>5. Answered(n, s, "unbound", key, frames)
    BY ZenonT(60), <1>1, <1>5, <2>1, <2>4, CalmAnswers
  <2> HIDE DEF s
  <2>6. HsInv' /\ s.gm = "unbound" /\ s.gmKey = key /\ Moved(n, Other(n), TRUE, s, frames)
    BY ZenonT(60), <2>5 DEF Answered
  <2>7. n = 2
    BY ZenonT(60), <1>2, Sides
  <2>8. Less(chan'[1], chan[1], In1) /\ Less(chan'[2], chan[2], In2)
    BY ZenonT(60), <2>4, <2>6, <2>7, Sides, Shrinks
  <2>9. Gm(chan'[1], chan'[2], st[1].gm, st[1].gmKey, st[1].gm_failed, "unbound", st[2].gmKey)
    BY ZenonT(60), <1>5, <2>7, <2>8, GmMoves
  <2>10. Gm(chan'[1], chan'[2], st[1].gm, st[1].gmKey, st[1].gm_failed, s.gm, s.gmKey)
    BY ZenonT(60), <1>5, <2>6, <2>7, <2>9
  <2> QED BY ZenonT(60), <2>6, <2>7, <2>10, GmAt2
<1> QED BY ZenonT(60), <1>3, <1>4, <1>5 DEF HandleMsg3

LEMMA FlushKinds ==
  ASSUME OInv, NEW n \in Nodes, NEW s \in PeerEntry, s.pending = st[n].pending
  PROVE  FlushSends(s) \in Seq(Frames) /\ \A k \in DOMAIN FlushSends(s) : FlushSends(s)[k].kind \in Data
<1>1. TRUE \in BOOLEAN /\ <<>> \in Seq(Frames) /\ DOMAIN <<>> = {}
  OBVIOUS
<1>2. "GM_DATA" \in Data /\ "CIPHER" \in Data
  BY DEF Data
<1> QED BY ZenonT(60), <1>1, <1>2, FlushIsOrdered

LEMMA CalmGmData ==
  ASSUME Peace, NEW n \in Nodes, HandleGmData(n)
  PROVE  HsInv' /\ GmInv'
<1>1. chan[n] # <<>> /\ Head(chan[n]).kind = "GM_DATA"
  BY ZenonT(60), HeadFrame DEF HandleGmData, Peace
<1>2. st[n] \in PeerEntry
  BY ZenonT(60), OwnEntry DEF Peace
<1>3. CASE Ignore(n)
  BY ZenonT(60), <1>1, <1>3, CalmIgnore
<1>4. CASE Reply(n, st[n], <<>>, 0, <<Head(chan[n]).body>>)
  <2>1. Moved(n, Other(n), TRUE, st[n], <<>>)
    BY ZenonT(60), <1>1, <1>4, NoFrames, ReplyMoved DEF Peace
  <2> QED BY ZenonT(60), <1>1, <2>1, NoFrames, CalmQuiet
<1> DEFINE s == [st[n] EXCEPT !.gm = "ready"]
<1>5. CASE st[n].gm = "unbound" /\ Reply(n, Flushed(s), FlushSends(s), 0, <<>>)
  <2>1. "ready" \in GmStates /\ st[n].gmKey \in Keys
    BY <1>2, EntryTypes DEF GmStates
  <2>2. s = Becomes(n, "ready", st[n].gmKey)
    BY ZenonT(60), <1>2 DEF Becomes, PeerEntry
  <2> HIDE DEF s
  <2>3. /\ s \in PeerEntry /\ s.gm = "ready" /\ s.hs = st[n].hs /\ s.session = st[n].session
        /\ s.pending = st[n].pending /\ s.gmKey = st[n].gmKey /\ s.gm_failed = st[n].gm_failed
    BY SMT, SMTT(30), ZenonT(60), <1>2, <2>1, <2>2, BecomesEntry
  <2> DEFINE r == Flushed(s)
             frames == FlushSends(s)
  <2>4. /\ r.gm = "ready" /\ r.hs = st[n].hs /\ r.session = st[n].session
        /\ r.gmKey = st[n].gmKey /\ r.gm_failed = st[n].gm_failed
    BY ZenonT(60), <2>3, FlushedEntry
  <2>5. frames \in Seq(Frames) /\ \A k \in DOMAIN frames : frames[k].kind \in Data
    BY ZenonT(60), <2>3, FlushKinds DEF Peace
  <2> HIDE DEF r, frames
  <2>6. Moved(n, Other(n), TRUE, r, frames)
    BY ZenonT(60), <1>1, <1>5, <2>5, ReplyMoved DEF Peace, r, frames
  <2>7. \A k \in DOMAIN frames : frames[k].kind \notin HsKinds /\ frames[k].kind \notin In1 \cup In2
    BY ZenonT(60), <2>5, DataKinds
  <2>8. HsInv'
    BY ZenonT(60), <1>1, <2>4, <2>6, <2>7, HsQuiet DEF Peace
  <2>9. Less(chan'[1], chan[1], In1) /\ Less(chan'[2], chan[2], In2)
    BY ZenonT(60), SMT, SMTT(30), <2>6, <2>7, Sides, Shrinks
  <2>10. CASE n = 1
    <3>1. Gm(chan'[1], chan'[2], "ready", st[1].gmKey, st[1].gm_failed, st[2].gm, st[2].gmKey)
      BY ZenonT(60), <1>5, <2>9, <2>10, GmMoves
    <3>2. Gm(chan'[1], chan'[2], r.gm, r.gmKey, r.gm_failed, st[2].gm, st[2].gmKey)
      BY ZenonT(60), <2>4, <2>10, <3>1
    <3> QED BY ZenonT(60), <2>6, <2>8, <2>10, <3>2, GmAt1
  <2>11. CASE n = 2
    <3>1. Gm(chan'[1], chan'[2], st[1].gm, st[1].gmKey, st[1].gm_failed, "ready", st[2].gmKey)
      BY ZenonT(60), <1>5, <2>9, <2>11, GmMoves
    <3>2. Gm(chan'[1], chan'[2], st[1].gm, st[1].gmKey, st[1].gm_failed, r.gm, r.gmKey)
      BY ZenonT(60), <2>4, <2>11, <3>1
    <3> QED BY ZenonT(60), <2>6, <2>8, <2>11, <3>2, GmAt2
  <2> QED BY ZenonT(60), <2>10, <2>11, Sides
<1> QED BY ZenonT(60), <1>3, <1>4, <1>5 DEF HandleGmData

LEMMA HsKindsOut ==
  /\ "INIT" \notin In1 \cup In2 /\ "RESP" \notin In1 \cup In2
  /\ "INIT" \in Kinds /\ "RESP" \in Kinds
BY DEF In1, In2, Kinds

LEMMA CalmInit ==
  ASSUME Peace, NEW n \in Nodes, HandleInit(n)
  PROVE  HsInv' /\ GmInv'
<1> DEFINE f == Head(chan[n])
           s == HsAccepted(st[n], f)
<1>1. chan[n] # <<>> /\ f.kind = "INIT" /\ f.key \in Keys /\ f.key # <<>>
  BY ZenonT(60), HeadFrame DEF HandleInit, Peace, WellFormed
<1>2. CASE Ignore(n)
  BY ZenonT(60), <1>1, <1>2, CalmIgnore
<1>3. CASE /\ st[n].session = NoKey /\ ~(st[n].hs # 0 /\ n < Other(n))
           /\ Reply(n, Flushed(s), <<HsResp>> \o FlushSends(s), 1, <<>>)
  <2>1. st[n] \in PeerEntry /\ fresh + 1 \in Nat
    BY ZenonT(60), OwnEntry DEF Peace
  <2>2. f.key[1] \in Nat
    BY ZenonT(60), <1>1, FirstKey
  <2>3. /\ s \in PeerEntry /\ s.session = <<f.key[1], fresh + 1>> /\ s.hs = 0 /\ s.pending = st[n].pending
        /\ s.gm = st[n].gm /\ s.gmKey = st[n].gmKey /\ s.gm_failed = st[n].gm_failed
    BY ZenonT(60), <2>1, <2>2, AcceptedEntry
  <2> HIDE DEF s
  <2> DEFINE r == Flushed(s)
             F == FlushSends(s)
  <2>4. /\ r.session = <<f.key[1], fresh + 1>> /\ r.hs = 0
        /\ r.gm = st[n].gm /\ r.gmKey = st[n].gmKey /\ r.gm_failed = st[n].gm_failed
    BY ZenonT(60), <2>3, FlushedEntry
  <2>5. F \in Seq(Frames) /\ \A k \in DOMAIN F : F[k].kind \in Data
    BY ZenonT(60), <2>3, FlushKinds DEF Peace
  <2>6. <<fresh + 1>> \in Keys
    BY <2>1 DEF Keys
  <2>7. HsResp \in Frames /\ HsResp.kind = "RESP"
    BY ZenonT(60), <2>6, HsKindsOut, OneFrame DEF HsResp
  <2> HIDE DEF r, F
  <2>8. \A k \in DOMAIN F : F[k].kind \notin HsKinds /\ F[k].kind \notin In1 \cup In2
    BY ZenonT(60), <2>5, DataKinds
  <2>9. /\ <<HsResp>> \o F \in Seq(Frames)
        /\ \A k \in DOMAIN (<<HsResp>> \o F) : (<<HsResp>> \o F)[k].kind \notin In1 \cup In2
    <3>1. <<HsResp>> \in Seq(Frames) /\ DOMAIN <<HsResp>> = {1} /\ <<HsResp>>[1] = HsResp
      BY SMT, SMTT(30), ZenonT(60), <2>7
    <3>2. /\ <<HsResp>> \o F \in Seq(Frames)
          /\ \A k \in DOMAIN (<<HsResp>> \o F) :
               \/ k \in DOMAIN <<HsResp>> /\ (<<HsResp>> \o F)[k] = <<HsResp>>[k]
               \/ \E j \in DOMAIN F : (<<HsResp>> \o F)[k] = F[j]
      BY <2>5, <3>1, ConcatElements
    <3> QED BY ZenonT(60), SMT, SMTT(30), <2>7, <2>8, <3>1, <3>2, HsKindsOut
  <2>10. Moved(n, Other(n), TRUE, r, <<HsResp>> \o F)
    BY ZenonT(60), <1>1, <1>3, <2>9, ReplyMoved DEF Peace, r, F
  <2>11. GmInv'
    BY ZenonT(60), <2>4, <2>9, <2>10, GmQuiet
  <2>12. n = 1 => st[n].hs = 0
    <3>1. n = 1 => n < Other(n)
      BY DEF Other
    <3> QED BY ZenonT(60), <1>3, <3>1
  <2>13. HsInv'
    BY ZenonT(60), SMT, SMTT(30), <1>1, <1>3, <2>4, <2>5, <2>7, <2>8, <2>10, <2>12, HsAccept DEF Peace
  <2> QED BY <2>11, <2>13
<1> QED BY ZenonT(60), <1>2, <1>3 DEF HandleInit

(* A response is never left over: its handshake is still open. *)
LEMMA CalmResp ==
  ASSUME Peace, NEW n \in Nodes, HandleResp(n)
  PROVE  HsInv' /\ GmInv'
<1> DEFINE f == Head(chan[n])
           s == HsFinished(st[n], f)
<1>1. /\ chan[n] # <<>> /\ f.kind = "RESP" /\ f.key \in Keys /\ f.key # <<>>
      /\ f = chan[n][1] /\ 1 \in DOMAIN chan[n]
  BY ZenonT(60), HeadFrame DEF HandleResp, Peace, WellFormed
<1>2. st[n] \in PeerEntry /\ (st[n].hs # 0 => st[n].session = NoKey)
  BY ZenonT(60), OwnEntry DEF Peace
<1>3. st[n].hs # 0 /\ st[n].session = NoKey
  <2>1. st[n].hs # 0
    BY ZenonT(60), <1>1 DEF Peace, HsInv, Hand
  <2> QED BY ZenonT(60), <1>2, <2>1
<1>4. Reply(n, Flushed(s), FlushSends(s), 0, <<>>)
  BY ZenonT(60), <1>3 DEF HandleResp
<1>5. f.key[1] \in Nat
  BY ZenonT(60), <1>1, FirstKey
<1>6. /\ s \in PeerEntry /\ s.session = <<st[n].hs, f.key[1]>> /\ s.hs = 0 /\ s.pending = st[n].pending
      /\ s.gm = st[n].gm /\ s.gmKey = st[n].gmKey /\ s.gm_failed = st[n].gm_failed
  BY ZenonT(60), <1>2, <1>5, FinishedEntry
<1> HIDE DEF s
<1> DEFINE r == Flushed(s)
           F == FlushSends(s)
<1>7. /\ r.session = <<st[n].hs, f.key[1]>> /\ r.hs = 0
      /\ r.gm = st[n].gm /\ r.gmKey = st[n].gmKey /\ r.gm_failed = st[n].gm_failed
  BY ZenonT(60), <1>6, FlushedEntry
<1>8. F \in Seq(Frames) /\ \A k \in DOMAIN F : F[k].kind \in Data
  BY ZenonT(60), <1>6, FlushKinds DEF Peace
<1> HIDE DEF r, F
<1>9. \A k \in DOMAIN F : F[k].kind \notin HsKinds /\ F[k].kind \notin In1 \cup In2
  BY ZenonT(60), <1>8, DataKinds
<1>10. Moved(n, Other(n), TRUE, r, F)
  BY ZenonT(60), <1>1, <1>4, <1>8, ReplyMoved DEF Peace, r, F
<1>11. GmInv'
  BY ZenonT(60), <1>7, <1>9, <1>10, GmQuiet
<1>12. HsInv'
  BY ZenonT(60), <1>1, <1>3, <1>7, <1>9, <1>10, HsFinish DEF Peace
<1> QED BY <1>11, <1>12

LEMMA CalmCipher ==
  ASSUME Peace, NEW n \in Nodes, HandleCipher(n)
  PROVE  HsInv' /\ GmInv'
<1>1. chan[n] # <<>> /\ Head(chan[n]).kind = "CIPHER"
  BY ZenonT(60), HeadFrame DEF HandleCipher, Peace
<1>2. CASE Ignore(n)
  BY ZenonT(60), <1>1, <1>2, CalmIgnore
<1>3. CASE Reply(n, AfterOpen(st[n]), <<>>, 0, <<Head(chan[n]).body>>)
  <2> DEFINE s == AfterOpen(st[n])
  <2>1. st[n] \in PeerEntry
    BY ZenonT(60), OwnEntry DEF Peace
  <2>2. /\ s.hs = st[n].hs /\ s.session = st[n].session
        /\ s.gm = st[n].gm /\ s.gmKey = st[n].gmKey /\ s.gm_failed = st[n].gm_failed
    BY ZenonT(60), <2>1 DEF AfterOpen, PeerEntry
  <2> HIDE DEF s
  <2>3. Moved(n, Other(n), TRUE, s, <<>>)
    BY ZenonT(60), <1>1, <1>3, NoFrames, ReplyMoved DEF Peace, s
  <2> QED BY ZenonT(60), SMT, SMTT(30), <1>1, <2>2, <2>3, NoFrames, CalmQuiet
<1> QED BY ZenonT(60), <1>2, <1>3 DEF HandleCipher

(* hs_start, from send_to or the timer. *)
LEMMA CalmHsStart ==
  ASSUME Peace, NEW n \in Nodes, NEW q \in PeerEntry, q.session = NoKey, st[n].session = NoKey, st[n].hs = 0,
         NEW keys, NEW sent, Emits(n, FALSE, HsStarted(q), <<HsInit>>, keys, <<>>, sent)
  PROVE  /\ HsInv' /\ Moved(n, Other(n), FALSE, HsStarted(q), <<HsInit>>)
         /\ \A k \in DOMAIN <<HsInit>> : <<HsInit>>[k].kind \notin In1 \cup In2
<1> DEFINE s == HsStarted(q)
<1>1. fresh \in Nat /\ fresh + 1 \in Nat
  BY ZenonT(60), OwnEntry DEF Peace
<1>2. fresh + 1 # 0 /\ <<fresh + 1>> \in Keys
  BY <1>1 DEF Keys
<1>3. s.session = NoKey /\ s.hs = fresh + 1
  BY ZenonT(60), <1>1, HsStartedEntry
<1> HIDE DEF s
<1>4. <<HsInit>> \in Seq(Frames) /\ \A k \in DOMAIN <<HsInit>> : <<HsInit>>[k].kind \notin In1 \cup In2
  BY <1>2, HsKindsOut, OneFrame DEF HsInit
<1>5. Moved(n, Other(n), FALSE, s, <<HsInit>>)
  BY ZenonT(60), <1>4, EmitsMoved DEF Peace, s
<1>6. HsInv'
  BY ZenonT(60), <1>2, <1>3, <1>5, HsStart DEF Peace
<1> QED BY ZenonT(60), <1>4, <1>5, <1>6 DEF s

LEMMA CalmSend ==
  ASSUME Peace, NEW n \in Nodes, SendTo(n)
  PROVE  HsInv' /\ GmInv'
<1> DEFINE x == sends[n] + 1
           q == [st[n] EXCEPT !.pending = Append(@, x)]
           Sends(s, frames, keys) == Emits(n, FALSE, s, frames, keys, <<>>, 1)
<1>1. /\ st[n] \in PeerEntry /\ st[n].pending \in Seq(Nat) /\ sends[n] \in Nat /\ fresh \in Nat
  <2>1. sends \in [Nodes -> Nat]
    BY ZenonT(60) DEF Peace, OInv, TypeOK
  <2> QED BY <2>1, OwnEntry, EntryTypes DEF Peace
<1>2. Append(st[n].pending, x) \in Seq(Nat)
  BY <1>1
<1>3. /\ q \in PeerEntry /\ q.session = st[n].session /\ q.hs = st[n].hs
      /\ q.gm = st[n].gm /\ q.gmKey = st[n].gmKey /\ q.gm_failed = st[n].gm_failed
  BY ZenonT(60), <1>1, <1>2 DEF PeerEntry
<1>4. \/ Sends(AfterSeal(st[n], <<x>>), Sealed(st[n], <<x>>), 0)
      \/ /\ q.gm = "none" /\ ~q.gm_failed
         /\ Sends(GmStarted(n, q), GmStartSends(n), GmStartKeys(n))
      \/ st[n].session = NoKey /\ q.hs = 0 /\ Sends(HsStarted(q), <<HsInit>>, 1)
      \/ Sends(q, <<>>, 0)
  BY ZenonT(60) DEF SendTo, Emits, HasSession
<1> HIDE DEF q
<1>5. CASE Sends(AfterSeal(st[n], <<x>>), Sealed(st[n], <<x>>), 0)
  <2> DEFINE s == AfterSeal(st[n], <<x>>)
             frames == Sealed(st[n], <<x>>)
  <2>1. /\ <<x>> \in Seq(Nat) /\ \A k \in DOMAIN <<x>> : 0 < <<x>>[k]
    BY <1>1
  <2>2. "GM_DATA" \in Data /\ "CIPHER" \in Data
    BY DEF Data
  <2>3. frames \in Seq(Frames) /\ \A k \in DOMAIN frames : frames[k].kind \in Data
    BY ZenonT(60), <1>1, <2>1, <2>2, SealedFrames
  <2>4. /\ s.hs = st[n].hs /\ s.session = st[n].session
        /\ s.gm = st[n].gm /\ s.gmKey = st[n].gmKey /\ s.gm_failed = st[n].gm_failed
    BY ZenonT(60), <1>1 DEF AfterSeal, PeerEntry
  <2> HIDE DEF s, frames
  <2>5. Moved(n, Other(n), FALSE, s, frames)
    BY ZenonT(60), <1>5, <2>3, EmitsMoved DEF Peace, s, frames
  <2> QED BY ZenonT(60), <2>3, <2>4, <2>5, CalmQuiet
<1>6. CASE /\ q.gm = "none" /\ ~q.gm_failed
           /\ Sends(GmStarted(n, q), GmStartSends(n), GmStartKeys(n))
  <2>1. GmStartSends(n) \in Seq(Frames)
    BY ZenonT(60), <1>1, <1>3, GmStartedEntry DEF Plain
  <2>2. Moved(n, Other(n), FALSE, GmStarted(n, q), GmStartSends(n))
    BY ZenonT(60), <1>6, <2>1, EmitsMoved DEF Peace
  <2>3. st[n].gm = "none" /\ ~st[n].gm_failed
    BY ZenonT(60), <1>3, <1>6
  <2> QED BY ZenonT(60), <1>3, <2>2, <2>3, CalmStarted
<1>7. CASE st[n].session = NoKey /\ q.hs = 0 /\ Sends(HsStarted(q), <<HsInit>>, 1)
  <2> DEFINE s == HsStarted(q)
  <2>1. /\ HsInv' /\ Moved(n, Other(n), FALSE, s, <<HsInit>>)
        /\ \A k \in DOMAIN <<HsInit>> : <<HsInit>>[k].kind \notin In1 \cup In2
    BY ZenonT(60), <1>3, <1>7, CalmHsStart
  <2>2. s.gm = st[n].gm /\ s.gmKey = st[n].gmKey /\ s.gm_failed = st[n].gm_failed
    BY ZenonT(60), <1>1, <1>3, HsStartedEntry
  <2> HIDE DEF s
  <2> QED BY ZenonT(60), <2>1, <2>2, GmQuiet
<1>8. CASE Sends(q, <<>>, 0)
  <2>1. Moved(n, Other(n), FALSE, q, <<>>)
    BY ZenonT(60), <1>8, NoFrames, EmitsMoved DEF Peace
  <2> QED BY ZenonT(60), <1>3, <2>1, NoFrames, CalmQuiet
<1> QED BY ZenonT(60), SMT, SMTT(30), <1>4, <1>5, <1>6, <1>7, <1>8

LEMMA GmGivesUp ==
  ASSUME Peace, NEW n \in Nodes, NEW s, NEW frames, Moved(n, Other(n), FALSE, s, frames),
         s.gm = "none", s.gm_failed = TRUE, \A k \in DOMAIN frames : frames[k].kind \notin In1 \cup In2
  PROVE  GmInv'
<1>1. Less(chan'[1], chan[1], In1) /\ Less(chan'[2], chan[2], In2)
  <2>1. \A k \in DOMAIN frames : frames[k].kind \notin In1 /\ frames[k].kind \notin In2
    BY ZenonT(60)
  <2>2. Less(chan'[n], chan[n], In1) /\ Less(chan'[Other(n)], chan[Other(n)], In2)
    BY ZenonT(60), <2>1, Shrinks
  <2>3. Less(chan'[n], chan[n], In2) /\ Less(chan'[Other(n)], chan[Other(n)], In1)
    BY ZenonT(60), <2>1, Shrinks
  <2> QED BY ZenonT(60), <2>2, <2>3, Sides
<1>2. CASE n = 1
  <2>1. Gm(chan'[1], chan'[2], s.gm, s.gmKey, s.gm_failed, st[2].gm, st[2].gmKey)
    BY ZenonT(60), <1>1, GmMoves
  <2> QED BY ZenonT(60), <1>2, <2>1, GmAt1
<1>3. CASE n = 2
  <2>1. Gm(chan'[1], chan'[2], st[1].gm, st[1].gmKey, st[1].gm_failed, s.gm, s.gmKey)
    BY ZenonT(60), <1>1, GmMoves
  <2> QED BY ZenonT(60), <1>3, <2>1, GmAt2
<1> QED BY ZenonT(60), <1>2, <1>3, Sides

LEMMA CalmCheck ==
  ASSUME Peace, NEW n \in Nodes, NEW gen \in st[n].timers, GmCheck(n, gen)
  PROVE  HsInv' /\ GmInv'
<1> DEFINE r == Rested(st[n], gen)
           g == GaveUp(st[n], gen)
<1>1. st[n] \in PeerEntry /\ fresh \in Nat
  BY ZenonT(60), OwnEntry DEF Peace
<1>2. /\ r.session = st[n].session /\ r.hs = st[n].hs
      /\ r.gm = st[n].gm /\ r.gmKey = st[n].gmKey /\ r.gm_failed = st[n].gm_failed
  BY ZenonT(60), <1>1, RestedEntry
<1>3. /\ g \in PeerEntry /\ g.session = st[n].session /\ g.hs = st[n].hs /\ g.gm = "none" /\ g.gm_failed = TRUE
  BY ZenonT(60), <1>1, GaveUpEntry
<1>4. \/ Emits(n, FALSE, r, <<>>, 0, <<>>, 0)
      \/ Emits(n, FALSE, g, <<>>, 0, <<>>, 0)
      \/ g.hs = 0 /\ g.session = NoKey /\ Emits(n, FALSE, HsStarted(g), <<HsInit>>, 1, <<>>, 0)
  BY ZenonT(60), CheckEmits DEF Peace, OInv
<1> HIDE DEF r, g
<1>5. CASE Emits(n, FALSE, r, <<>>, 0, <<>>, 0)
  <2>1. Moved(n, Other(n), FALSE, r, <<>>)
    BY ZenonT(60), <1>5, NoFrames, EmitsMoved DEF Peace
  <2> QED BY ZenonT(60), <1>2, <2>1, NoFrames, CalmQuiet
<1>6. CASE Emits(n, FALSE, g, <<>>, 0, <<>>, 0)
  <2>1. Moved(n, Other(n), FALSE, g, <<>>)
    BY ZenonT(60), <1>6, NoFrames, EmitsMoved DEF Peace
  <2>2. HsInv'
    BY ZenonT(60), <1>3, <2>1, NoFrames, HsQuiet DEF Peace
  <2> QED BY ZenonT(60), SMT, SMTT(30), <1>3, <2>1, <2>2, NoFrames, GmGivesUp
<1>7. CASE g.hs = 0 /\ g.session = NoKey /\ Emits(n, FALSE, HsStarted(g), <<HsInit>>, 1, <<>>, 0)
  <2> DEFINE s == HsStarted(g)
  <2>1. /\ HsInv' /\ Moved(n, Other(n), FALSE, s, <<HsInit>>)
        /\ \A k \in DOMAIN <<HsInit>> : <<HsInit>>[k].kind \notin In1 \cup In2
    BY ZenonT(60), <1>3, <1>7, CalmHsStart
  <2>2. s.gm = "none" /\ s.gm_failed = TRUE
    BY ZenonT(60), <1>1, <1>3, HsStartedEntry
  <2> HIDE DEF s
  <2> QED BY ZenonT(60), <2>1, <2>2, GmGivesUp
<1> QED BY ZenonT(60), <1>4, <1>5, <1>6, <1>7

-----------------------------------------------------------------------------
CInv == OInv /\ Calm

LEMMA CalmInitially == Init => CInv
<1> SUFFICES ASSUME Init PROVE Calm
  BY OInvInit DEF CInv
<1>1. /\ st[1] = NewPeer /\ st[2] = NewPeer /\ chan[1] = <<>> /\ chan[2] = <<>>
      /\ mishaps = {} => up[1] /\ up[2]
  BY DEF Init, Nodes
<1>2. DOMAIN <<>> = {} /\ NewPeer.gm = "none" /\ ~NewPeer.gm_failed /\ NewPeer.session = NoKey
  BY NewPeerEntry
<1>3. HsInv
  BY ZenonT(60), <1>1, <1>2, Sides DEF HsInv, Hand
<1>4. GmInv
  BY ZenonT(60), <1>1, <1>2 DEF GmInv, Gm, None, Once
<1> QED BY ZenonT(60), <1>1, <1>3, <1>4 DEF Calm

LEMMA CalmNext == CInv /\ [Next]_vars => CInv'
<1> SUFFICES ASSUME CInv, [Next]_vars PROVE Calm'
  BY OInvNext DEF CInv
<1> SUFFICES ASSUME mishaps' = {} PROVE up'[1] /\ up'[2] /\ HsInv' /\ GmInv'
  BY ZenonT(60) DEF Calm
<1>1. CASE mishaps = {}
  <2>1. Peace /\ up[1] /\ up[2]
    BY ZenonT(60), <1>1 DEF CInv, Calm, Peace, Both
  <2>2. ASSUME NEW n \in Nodes, SendTo(n) PROVE HsInv' /\ GmInv' /\ up' = up
    BY ZenonT(60), <2>1, <2>2, CalmSend DEF SendTo, Ends
  <2>3. ASSUME NEW n \in Nodes, HandleFrame(n) PROVE HsInv' /\ GmInv'
    BY ZenonT(60), SMT, SMTT(30), <2>1, <2>3, CalmInit, CalmResp, CalmCipher, CalmKick, CalmMsg1, CalmCookie, CalmRetry,
       CalmMsg2, CalmMsg3, CalmGmData DEF HandleFrame, HandleKick
  <2>4. ASSUME NEW n \in Nodes, HandleFrame(n) PROVE up' = up
    BY ZenonT(60), <2>4 DEF HandleFrame, HandleInit, HandleResp, HandleCipher, HandleKick, HandleMsg1, HandleCookie,
       HandleRetry, HandleMsg2, HandleMsg3, HandleGmData, OnKick, OnMsg1, OnCookie, Erased, Ignore, Reply, Ends
  <2>5. ASSUME NEW n \in Nodes, NEW gen \in st[n].timers, GmCheck(n, gen) PROVE HsInv' /\ GmInv' /\ up' = up
    BY ZenonT(60), <2>1, <2>5, CalmCheck DEF GmCheck, Ends
  <2>6. ASSUME NEW n \in Nodes, HandleTaggedCipher(n) \/ Restart(n) PROVE FALSE
    BY <2>6 DEF HandleTaggedCipher, Restart
  <2>7. ASSUME NEW n \in Nodes, StartNode(n) PROVE FALSE
    BY ZenonT(60), <2>1, <2>7, Sides DEF StartNode
  <2>8. CASE UNCHANGED vars
    BY ZenonT(60), <2>1, <2>8 DEF vars, Peace, HsInv, GmInv
  <2> QED BY ZenonT(60), SMT, SMTT(30), <2>1, <2>2, <2>3, <2>4, <2>5, <2>6, <2>7, <2>8 DEF Next
<1>2. CASE mishaps # {}
  <2>1. mishaps \subseteq mishaps'
    BY ZenonT(60) DEF Next, vars, HandleTaggedCipher, StartNode, Restart
  <2> QED BY <1>2, <2>1
<1> QED BY <1>1, <1>2

LEMMA CalmAlways == Spec => []CInv
BY CalmInitially, CalmNext, PTL DEF Spec

(* The handshakes converge: on a relay path that nothing disturbs, two nodes
   that both hold a session of one kind hold the same one, whoever initiated
   and however often GM-PQ was given up. *)
THEOREM SameSessionHolds == Spec => []SameSession
<1>1. CInv => SameSession
  <2> SUFFICES ASSUME CInv, mishaps = {}
               PROVE  /\ st[1].session # NoKey /\ st[2].session # NoKey => st[1].session = st[2].session
                      /\ st[1].gm = "ready" /\ st[2].gm = "ready" => st[1].gmKey = st[2].gmKey
    BY ZenonT(60) DEF SameSession
  <2>1. HsInv /\ GmInv
    BY ZenonT(60) DEF CInv, Calm
  <2>2. st[1].session # NoKey /\ st[2].session # NoKey => st[1].session = st[2].session
    BY ZenonT(60), <2>1, Sides DEF HsInv, Hand
  <2>3. st[1].gm = "ready" /\ st[2].gm = "ready" => st[1].gmKey = st[2].gmKey
    BY ZenonT(60), <2>1 DEF GmInv, Gm
  <2> QED BY <2>2, <2>3
<1> QED BY <1>1, CalmAlways, PTL
=============================================================================
