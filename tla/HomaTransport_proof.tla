------------------------ MODULE HomaTransport_proof ------------------------
(***************************************************************************)
(* Proofs about HomaTransport, for every set of messages, every length and *)
(* every configuration of the transport.                                   *)
(*                                                                         *)
(* TypeCorrect is the type invariant.  Its inductive form, TypeInv, adds   *)
(* that a sender never runs past the end of its message: without it the    *)
(* length of a packet could be negative.                                   *)
(*                                                                         *)
(* In an aligned configuration (AlignedConfig: the unscheduled window and  *)
(* the grant increment are multiples of the packet size) the transport     *)
(* delivers only whole messages and never closes a reassembly that still   *)
(* lacks bytes.  The argument is AlignedInv of HomaTransport: as long as a *)
(* sender entry is unfinished everything in the system lies on the chunk   *)
(* grid, so pump, RESEND and the probes cut the same chunks.               *)
(*                                                                         *)
(* As long as the completed cache has room for every key, a message is     *)
(* delivered once, and in an aligned configuration the transport           *)
(* implements HomaDelivery.  The argument is OnceInv: the cache repeats no *)
(* key, so it never evicts; a message was delivered exactly if its key is  *)
(* there; and such a message is not being reassembled.                     *)
(***************************************************************************)
EXTENDS HomaTransport, TLAPS, FiniteSetTheorems, WellFoundedInduction

(* The provers in the order in which a leaf tries them, then again with more time. *)
USE SMT, Zenon, SMTT(60), ZenonT(60)

-----------------------------------------------------------------------------
(* Arithmetic: division by the packet size. *)

LEMMA MulMono ==
  ASSUME NEW d \in Nat \ {0}, NEW p \in Int, NEW q \in Int, p < q
  PROVE  p * d + d <= q * d
<1>1. (q - p - 1) * d >= 0
  OBVIOUS
<1>2. (q - p - 1) * d = q * d - p * d - d
  OBVIOUS
<1> QED BY <1>1, <1>2

LEMMA DivMod ==
  ASSUME NEW d \in Nat \ {0}, NEW a \in Nat
  PROVE  /\ a \div d \in Nat /\ a % d \in 0 .. d - 1
         /\ a = (a \div d) * d + (a % d)
  OBVIOUS

LEMMA DivUnique ==
  ASSUME NEW d \in Nat \ {0}, NEW a \in Nat, NEW q \in Nat, NEW r \in 0 .. d - 1,
         a = q * d + r
  PROVE  a \div d = q /\ a % d = r
<1> DEFINE k == a \div d
<1>1. k \in Nat /\ a % d \in 0 .. d - 1 /\ a = k * d + (a % d)
  BY ZenonT(60), DivMod
<1> HIDE DEF k
<1>2. ~(k < q)
  <2> SUFFICES ASSUME k < q PROVE FALSE
    OBVIOUS
  <2>1. k * d + d <= q * d
    BY <1>1, MulMono
  <2>2. k * d \in Int /\ q * d \in Int
    BY <1>1
  <2> QED BY <1>1, <2>1, <2>2
<1>3. ~(q < k)
  <2> SUFFICES ASSUME q < k PROVE FALSE
    OBVIOUS
  <2>1. q * d + d <= k * d
    BY <1>1, MulMono
  <2>2. k * d \in Int /\ q * d \in Int
    BY <1>1
  <2> QED BY <1>1, <2>1, <2>2
<1>4. k = q
  BY <1>1, <1>2, <1>3
<1> QED BY <1>1, <1>4 DEF k

LEMMA MulNat ==
  ASSUME NEW a \in Nat, NEW b \in Nat
  PROVE  a * b \in Nat
  OBVIOUS

(* Rounding up to a multiple of the packet size. *)
LEMMA CeilDivBound ==
  ASSUME NEW d \in Nat \ {0}, NEW a \in Nat
  PROVE  CeilDiv(a, d) \in Nat /\ CeilDiv(a, d) * d >= a
<1> DEFINE k == (a + d - 1) \div d
<1>1. a + d - 1 \in Nat
  OBVIOUS
<1>2. /\ k \in Nat
      /\ (a + d - 1) % d \in 0 .. d - 1
      /\ a + d - 1 = k * d + ((a + d - 1) % d)
  BY ZenonT(60), <1>1, DivMod
<1> HIDE DEF k
<1>3. k * d >= a
  BY <1>2, MulNat
<1> QED BY <1>2, <1>3 DEF CeilDiv, k

LEMMA MinOfNat ==
  ASSUME NEW a \in Nat, NEW b \in Nat
  PROVE  /\ MinOf(a, b) \in Nat /\ MinOf(a, b) <= a /\ MinOf(a, b) <= b
         /\ MinOf(a, b) = a \/ MinOf(a, b) = b
  BY DEF MinOf

LEMMA MaxOfNat ==
  ASSUME NEW a \in Nat, NEW b \in Nat
  PROVE  /\ MaxOf(a, b) \in Nat /\ MaxOf(a, b) >= a /\ MaxOf(a, b) >= b
         /\ MaxOf(a, b) = a \/ MaxOf(a, b) = b
  BY DEF MaxOf

(* The first missing chunk exists: CHOOSE picks the least element. *)
LEMMA LeastChunk ==
  ASSUME NEW S \in SUBSET Nat, S # {}
  PROVE  (CHOOSE c \in S : \A d \in S : c <= d) \in S
<1>1. \E x \in S : \A y \in S : ~(<<y, x>> \in OpToRel(<, Nat))
  BY ZenonT(60), WFMin, NatLessThanWellFounded
<1>2. PICK x \in S : \A y \in S : ~(<<y, x>> \in OpToRel(<, Nat))
  BY ZenonT(60), <1>1
<1>3. ASSUME NEW y \in S PROVE x <= y
  <2>1. x \in Nat /\ y \in Nat
    OBVIOUS
  <2>2. ~(<<y, x>> \in {ss \in Nat \X Nat : ss[1] < ss[2]})
    BY <1>2 DEF OpToRel
  <2>3. ~(y < x)
    BY <2>1, <2>2
  <2> QED BY <2>1, <2>3
<1> QED BY ZenonT(60), <1>3

-----------------------------------------------------------------------------
(* Types of the sender's operators. *)

LEMMA ChunkAtType ==
  ASSUME NEW m \in Msgs, NEW off \in Nat,
         (off \div PacketSize) * PacketSize <= MsgLen[m]
  PROVE  ChunkAt(m, off) \in Packets
<1> DEFINE s == (off \div PacketSize) * PacketSize
<1>1. s \in Nat /\ MsgLen[m] \in Nat /\ PacketSize \in Nat
  BY ZenonT(60), HomaConstants, DivMod, MulNat
<1>2. MinOf(s + PacketSize, MsgLen[m]) \in Nat /\ MinOf(s + PacketSize, MsgLen[m]) >= s
  BY <1>1 DEF MinOf
<1> HIDE DEF s
<1>3. Data(m, s, MinOf(s + PacketSize, MsgLen[m])) \in Packets
  BY <1>1, <1>2 DEF Data, Packets
<1> QED BY <1>3 DEF ChunkAt, s

LEMMA ChunkAtByteType ==
  ASSUME NEW m \in Msgs, NEW b \in Bytes(m)
  PROVE  ChunkAt(m, b) \in Packets
<1>1. b \in Nat /\ b < MsgLen[m] /\ MsgLen[m] \in Nat
  BY HomaConstants DEF Bytes
<1>2. (b \div PacketSize) * PacketSize <= b
  BY <1>1, HomaConstants, DivMod, MulNat
<1> QED BY <1>1, <1>2, ChunkAtType, HomaConstants, DivMod, MulNat

LEMMA PumpEndType ==
  ASSUME NEW m \in Msgs, NEW o \in OutMsg, NEW limit \in Nat
  PROVE  PumpEnd(m, o, limit) \in Nat
<1> DEFINE lim == MinOf(limit, MsgLen[m])
           n == CeilDiv(lim - o.next_send, PacketSize)
<1>1. lim \in Nat /\ o.next_send \in Nat /\ MsgLen[m] \in Nat /\ PacketSize \in Nat \ {0}
  BY ZenonT(60), HomaConstants, MinOfNat DEF OutMsg
<1>2. CASE o.next_send >= lim
  BY <1>1, <1>2 DEF PumpEnd
<1>3. CASE ~(o.next_send >= lim)
  <2>1. lim - o.next_send \in Nat
    BY <1>1, <1>3
  <2>2. n \in Nat /\ n * PacketSize \in Nat
    BY <1>1, <2>1, CeilDivBound, MulNat
  <2>3. MinOf(MsgLen[m], o.next_send + n * PacketSize) \in Nat
    <3> HIDE DEF n
    <3> QED BY <1>1, <2>2 DEF MinOf
  <2> QED BY <1>3, <2>3 DEF PumpEnd
<1> QED BY <1>2, <1>3

LEMMA PumpType ==
  ASSUME NEW m \in Msgs, NEW o \in OutMsg, NEW limit \in Nat
  PROVE  Pump(m, o, limit) \in OutMsg
<1>1. PumpEnd(m, o, limit) \in Nat
  BY PumpEndType
<1>2. MaxOf(o.granted_to, MinOf(limit, MsgLen[m])) \in Nat
  BY HomaConstants DEF MaxOf, MinOf, OutMsg
<1>3. (PumpEnd(m, o, limit) >= MsgLen[m]) \in BOOLEAN
  BY <1>1, HomaConstants
<1> QED BY ZenonT(60), <1>1, <1>2, <1>3 DEF Pump, OutMsg

LEMMA PumpSendsType ==
  ASSUME NEW m \in Msgs, NEW o \in OutMsg, NEW limit \in Nat
  PROVE  PumpSends(m, o, limit) \subseteq Packets
<1> SUFFICES ASSUME NEW s \in Bytes(m)
             PROVE  Data(m, s, MinOf(s + PacketSize, MsgLen[m])) \in Packets
  BY DEF PumpSends
<1>1. s \in Nat /\ s < MsgLen[m] /\ MsgLen[m] \in Nat /\ PacketSize \in Nat
  BY HomaConstants DEF Bytes
<1>2. MinOf(s + PacketSize, MsgLen[m]) \in Nat /\ MinOf(s + PacketSize, MsgLen[m]) >= s
  BY <1>1 DEF MinOf
<1> QED BY <1>1, <1>2 DEF Data, Packets

LEMMA StartedType ==
  ASSUME NEW m \in Msgs
  PROVE  Started(m) \in OutMsg
  BY HomaConstants, MinOfNat DEF Started, OutMsg, Short

LEMMA ResendAccountType ==
  ASSUME NEW m \in Msgs, NEW o \in OutMsg, NEW end \in Nat
  PROVE  ResendAccount(m, o, end) \in OutMsg
  BY ZenonT(60), HomaConstants DEF ResendAccount, OutMsg, MaxOf

LEMMA ResendSendsType ==
  ASSUME NEW m \in Msgs, NEW start, NEW end
  PROVE  ResendSends(m, start, end) \subseteq Packets
  BY ChunkAtByteType DEF ResendSends

(* An unfinished sender entry never points past the end of its message, so
   the chunk it repeats on a tick exists. *)
Bounded(m, o) == o \in OutMsg /\ o.next_send <= MsgLen[m]

LEMMA PumpBounded ==
  ASSUME NEW m \in Msgs, NEW o, Bounded(m, o), NEW limit \in Nat
  PROVE  Bounded(m, Pump(m, o, limit))
<1>1. PumpEnd(m, o, limit) \in Nat /\ o \in OutMsg /\ Pump(m, o, limit) \in OutMsg
  BY PumpEndType, PumpType DEF Bounded
<1>2. PumpEnd(m, o, limit) <= MsgLen[m]
  <2> DEFINE n == CeilDiv(MinOf(limit, MsgLen[m]) - o.next_send, PacketSize)
  <2>1. CASE o.next_send >= MinOf(limit, MsgLen[m])
    BY <2>1 DEF PumpEnd, Bounded
  <2>2. CASE ~(o.next_send >= MinOf(limit, MsgLen[m]))
    <3>1. PumpEnd(m, o, limit) = MinOf(MsgLen[m], o.next_send + n * PacketSize)
      BY <2>2 DEF PumpEnd
    <3>2. MinOf(limit, MsgLen[m]) - o.next_send \in Nat
      BY <1>1, <2>2, HomaConstants DEF MinOf, OutMsg
    <3>3. n * PacketSize \in Nat
      BY <3>2, CeilDivBound, HomaConstants, MulNat
    <3> HIDE DEF n
    <3> QED BY <1>1, <3>1, <3>3, HomaConstants DEF MinOf, OutMsg
  <2> QED BY <2>1, <2>2
<1> QED BY <1>1, <1>2 DEF Bounded, Pump, OutMsg

LEMMA ResendAccountBounded ==
  ASSUME NEW m \in Msgs, NEW o, Bounded(m, o), NEW end \in Nat, end <= MsgLen[m]
  PROVE  Bounded(m, ResendAccount(m, o, end))
<1>1. o \in OutMsg /\ o.next_send \in Nat /\ o.next_send <= MsgLen[m]
  BY DEF Bounded, OutMsg
<1>2. ResendAccount(m, o, end).next_send = MaxOf(o.next_send, end)
  BY <1>1 DEF ResendAccount, OutMsg
<1>3. ResendAccount(m, o, end) \in OutMsg
  BY <1>1, ResendAccountType
<1>4. MaxOf(o.next_send, end) <= MsgLen[m]
  BY <1>1 DEF MaxOf
<1> QED BY <1>2, <1>3, <1>4 DEF Bounded

LEMMA TickSendsType ==
  ASSUME NEW m \in Msgs, NEW o, Bounded(m, o)
  PROVE  TickSends(m, o) \subseteq Packets
<1>1. o \in OutMsg /\ o.next_send \in Nat /\ MsgLen[m] \in Nat /\ PacketSize \in Nat \ {0}
  BY HomaConstants DEF Bounded, OutMsg
<1>2. Data(m, 0, MinOf(PacketSize, MsgLen[m])) \in Packets
  BY <1>1 DEF Data, Packets, MinOf
<1>3. ChunkAt(m, 0) \in Packets
  <2>1. 0 \div PacketSize = 0
    BY <1>1, DivUnique
  <2> QED BY <1>1, <2>1, ChunkAtType
<1>4. CASE o.next_send # 0
  <2>1. o.next_send - 1 \in Bytes(m)
    BY <1>1, <1>4 DEF Bounded, Bytes
  <2> QED BY <1>2, <1>4, <2>1, ChunkAtByteType DEF TickSends
<1> QED BY <1>2, <1>3, <1>4 DEF TickSends

-----------------------------------------------------------------------------
(* Types of the receiver's operators. *)

LEMMA FirstMissingType ==
  ASSUME NEW m \in Msgs, NEW i \in InMsg, Missing(m, i) # {}
  PROVE  /\ FirstMissing(m, i) \in Nat
         /\ \E c \in Missing(m, i) : FirstMissing(m, i) = c * PacketSize
<1>1. Missing(m, i) \in SUBSET Nat
  BY DEF Missing, Chunks
<1>2. PICK c \in Missing(m, i) : FirstMissing(m, i) = c * PacketSize
  BY ZenonT(60), <1>1, LeastChunk DEF FirstMissing
<1> QED BY <1>1, <1>2, MulNat, HomaConstants

LEMMA GrantTargetType ==
  ASSUME NEW m \in Msgs, NEW i \in InMsg
  PROVE  GrantTarget(m, i) \in Nat
  BY HomaConstants DEF GrantTarget, InMsg, MaxOf, MinOf

LEMMA IssueGrantType ==
  ASSUME NEW m \in Msgs, NEW i \in InMsg, NEW force
  PROVE  IssueGrant(m, i, force) \in InMsg
  BY GrantTargetType DEF IssueGrant, InMsg

LEMMA IssueSendsType ==
  ASSUME NEW m \in Msgs, NEW i \in InMsg, NEW force
  PROVE  IssueSends(m, i, force) \subseteq Packets
  BY GrantTargetType DEF IssueSends, Grant, Packets

LEMMA GrantSetsType ==
  ASSUME NEW inc, NEW g \in GrantSets(inc)
  PROVE  g \subseteq { m \in Msgs : NeedsGrant(m, inc) }
<1> DEFINE cands == { m \in Msgs : NeedsGrant(m, inc) }
           rem(m) == MsgLen[m] - inc[m].received_bytes
           shortest == { s \in SUBSET cands :
                           /\ Cardinality(s) = MinOf(MaxOf(Overcommit, 1), Cardinality(cands))
                           /\ \A x \in s, y \in cands \ s : rem(x) <= rem(y) }
<1>0. GrantSets(inc) = { s \cup starved : s \in shortest, starved \in SUBSET cands }
  BY DEF GrantSets
<1>2. \A s \in shortest : s \subseteq cands
  OBVIOUS
<1> HIDE DEF shortest, cands
<1>1. g \in { s \cup starved : s \in shortest, starved \in SUBSET cands }
  BY <1>0
<1>3. g \subseteq cands
  BY <1>1, <1>2
<1> QED BY <1>3 DEF cands

LEMMA ScheduleType ==
  ASSUME NEW inc \in [Msgs -> InMsg \cup {NoMsg}], NEW g \in GrantSets(inc), Schedule(inc, g)
  PROVE  /\ granting' \subseteq Msgs
         /\ incoming' \in [Msgs -> InMsg \cup {NoMsg}]
         /\ ScheduleSends(inc, g) \subseteq Packets
<1>1. ASSUME NEW m \in g PROVE m \in Msgs /\ inc[m] \in InMsg
  BY GrantSetsType DEF NeedsGrant
<1>2. ASSUME NEW m \in g
      PROVE  IssueGrant(m, inc[m], FALSE) \in InMsg /\ IssueSends(m, inc[m], FALSE) \subseteq Packets
  BY ZenonT(60), <1>1, IssueGrantType, IssueSendsType
<1>3. granting' \subseteq Msgs
  BY <1>1 DEF Schedule
<1>4. incoming' \in [Msgs -> InMsg \cup {NoMsg}]
  BY ZenonT(60), <1>2 DEF Schedule
<1>5. ScheduleSends(inc, g) \subseteq Packets
  BY ZenonT(60), <1>2 DEF ScheduleSends
<1> QED BY <1>3, <1>4, <1>5

LEMMA FreshInType ==
  ASSUME NEW m \in Msgs
  PROVE  FreshIn(m) \in InMsg
  BY HomaConstants DEF FreshIn, InMsg, MinOf

LEMMA ReassembleType ==
  ASSUME NEW m \in Msgs, NEW i \in InMsg, NEW p \in Packets
  PROVE  Reassemble(m, i, p) \in InMsg
<1>1. p.off \div PacketSize \in Nat /\ p.off \in Nat /\ p.len \in Nat
  BY HomaConstants, DivMod DEF Packets
<1>2. p.off .. p.off + p.len - 1 \subseteq Nat /\ i.received_bytes + p.len \in Nat
  BY <1>1 DEF InMsg
<1>3. i.received \cup {p.off \div PacketSize} \in SUBSET Nat
  BY <1>1 DEF InMsg
<1>4. i.buf \cup (p.off .. p.off + p.len - 1) \in SUBSET Nat
  BY <1>2 DEF InMsg
<1> QED BY ZenonT(60), <1>2, <1>3, <1>4 DEF Reassemble, InMsg

-----------------------------------------------------------------------------
(* The type invariant, strengthened: tick reads next_send - 1. *)

TypeInv == TypeOK /\ \A m \in Msgs : out[m] # NoMsg => Bounded(m, out[m])

LEMMA ReceiveType ==
  ASSUME NEW p, NEW sends \in SUBSET Packets, net \subseteq Packets, Receive(p, sends)
  PROVE  net' \subseteq Packets
  BY DEF Receive

LEMMA AfterDataType ==
  ASSUME TypeOK, NEW p \in net
  PROVE  p.msg \in Msgs /\ AfterData(p) \in InMsg
<1>1. p \in Packets /\ p.msg \in Msgs
  BY DEF TypeOK, Packets
<1>2. incoming[p.msg] # NoMsg => incoming[p.msg] \in InMsg
  BY <1>1 DEF TypeOK
<1> QED BY <1>1, <1>2, FreshInType, ReassembleType DEF AfterData

LEMMA RememberType ==
  ASSUME NEW m \in Msgs, completed \in Seq(Msgs)
  PROVE  Remember(m) \in Seq(Msgs)
<1> DEFINE all == Append(completed, m)
<1>1. all \in Seq(Msgs) /\ Len(all) = Len(completed) + 1 /\ Len(completed) \in Nat
  OBVIOUS
<1>2. all # <<>>
  BY <1>1
<1> HIDE DEF all
<1>3. Tail(all) \in Seq(Msgs)
  BY <1>1, <1>2
<1> USE DEF all
<1> QED BY <1>1, <1>3 DEF Remember

LEMMA TickedInType ==
  ASSUME TypeOK, NEW m \in Msgs, NEW idle \in SUBSET InFlight, NEW stalled
  PROVE  /\ TickedIn(m, idle, stalled) \in InMsg \cup {NoMsg}
         /\ m \in idle => TickInSends(m, stalled) \subseteq Packets
<1>1. CASE m \notin idle
  BY <1>1 DEF TypeOK, TickedIn
<1>2. CASE m \in idle
  <2> DEFINE i == incoming[m]
             f == FirstMissing(m, i)
  <2>1. i \in InMsg
    BY <1>2 DEF TypeOK, InFlight
  <2>2. i.unanswered + 1 \in Nat /\ i.granted_to \in Nat /\ GrantIncrement \in Nat
    BY <2>1, HomaConstants DEF InMsg
  <2>3. AsksResend(m) => f \in Nat /\ f < i.granted_to
    BY <2>1, FirstMissingType DEF AsksResend
  <2>4. AsksResend(m) => MinOf(i.granted_to - f, GrantIncrement) \in Nat
    BY <2>2, <2>3 DEF MinOf
  <2>5. AsksResend(m) => Resend(m, f, MinOf(i.granted_to - f, GrantIncrement)) \in Packets
    BY <2>3, <2>4 DEF Resend, Packets
  <2>6. [i EXCEPT !.unanswered = @ + 1] \in InMsg
    BY <2>1, <2>2 DEF InMsg
  <2>7. TickedIn(m, idle, stalled) \in InMsg \cup {NoMsg}
    BY ZenonT(60), <1>2, <2>1, <2>6, IssueGrantType DEF TickedIn
  <2>8. TickInSends(m, stalled) \subseteq Packets
    BY ZenonT(60), <2>1, <2>5, IssueSendsType DEF TickInSends
  <2> QED BY <2>7, <2>8
<1> QED BY <1>1, <1>2

(* One step of every action keeps the strengthened type invariant. *)
LEMMA TypeStep ==
  ASSUME TypeInv, [Next]_vars
  PROVE  TypeInv'
<1> USE DEF senderVars, receiverVars
<1>0. /\ TypeOK /\ net \subseteq Packets /\ completed \in Seq(Msgs)
      /\ \A m \in Msgs : out[m] # NoMsg => Bounded(m, out[m])
      /\ UnscheduledBytes \in Nat
  BY HomaConstants DEF TypeInv, TypeOK
<1>1. ASSUME NEW m \in Msgs, Send(m) \/ SendFails(m) PROVE TypeInv'
  <2>1. Bounded(m, Started(m))
    BY StartedType, HomaConstants DEF Bounded, Started
  <2>2. Bounded(m, Pump(m, Started(m), UnscheduledBytes))
    BY <1>0, <2>1, PumpBounded
  <2>3. PumpSends(m, Started(m), UnscheduledBytes) \subseteq Packets
    BY <1>0, StartedType, PumpSendsType
  <2>4. net' \subseteq Packets
    BY <1>0, <1>1, <2>3 DEF Send, SendFails
  <2>5. out' = [out EXCEPT ![m] = Pump(m, Started(m), UnscheduledBytes)]
    BY <1>1 DEF Send, SendFails
  <2>6. api' \in [Msgs -> {"idle", "sending", "sent", "timedout", "failed"}]
    BY <1>0, <1>1 DEF TypeOK, Send, SendFails
  <2>7. UNCHANGED receiverVars
    BY <1>1 DEF Send, SendFails
  <2> QED BY ZenonT(60), <1>0, <2>2, <2>4, <2>5, <2>6, <2>7 DEF TypeInv, TypeOK, Bounded
<1>2. ASSUME NEW m \in Msgs, SendReturns(m) PROVE TypeInv'
  BY <1>0, <1>2 DEF SendReturns, TypeInv, TypeOK
<1>3. ASSUME NEW m \in Msgs, SendTimesOut(m) \/ Finish(m) PROVE TypeInv'
  BY ZenonT(60), <1>0, <1>3 DEF SendTimesOut, Finish, TypeInv, TypeOK
<1>4. ASSUME NEW m \in Msgs, Confirm(m) PROVE TypeInv'
  <2>1. Bounded(m, out[m])
    BY <1>0, <1>4 DEF Confirm
  <2>2. Bounded(m, [out[m] EXCEPT !.retransmit = FALSE])
    BY ZenonT(60), <2>1 DEF Bounded, OutMsg
  <2>3. out' = [out EXCEPT ![m] = IF out[m].done THEN NoMsg ELSE [out[m] EXCEPT !.retransmit = FALSE]]
    BY <1>0, <1>4 DEF Confirm, TypeOK
  <2> QED BY ZenonT(60), <1>0, <1>4, <2>2, <2>3 DEF Confirm, TypeInv, TypeOK, Bounded
<1>5. ASSUME NEW p \in net, HandleGrant(p) PROVE TypeInv'
  <2> DEFINE m == p.msg
             limit == MinOf(p.off, MsgLen[m])
  <2>1. m \in Msgs /\ limit \in Nat
    BY ZenonT(60), <1>0, HomaConstants DEF Packets, MinOf
  <2>2. CASE out[m] = NoMsg \/ limit <= out[m].granted_to
    <3>1. Receive(p, {}) /\ UNCHANGED out
      BY ZenonT(60), <1>5, <2>2 DEF HandleGrant
    <3> QED BY ZenonT(60), <1>0, <1>5, <3>1, ReceiveType DEF HandleGrant, TypeInv, TypeOK
  <2>3. CASE ~(out[m] = NoMsg \/ limit <= out[m].granted_to)
    <3>1. Receive(p, PumpSends(m, out[m], limit)) /\ out' = [out EXCEPT ![m] = Pump(m, out[m], limit)]
      BY ZenonT(60), <1>0, <1>5, <2>1, <2>3 DEF HandleGrant, TypeOK
    <3>2. Bounded(m, out[m]) /\ out[m] \in OutMsg
      BY SMTT(30), <1>0, <2>1, <2>3 DEF Bounded
    <3>3. Bounded(m, Pump(m, out[m], limit)) /\ PumpSends(m, out[m], limit) \subseteq Packets
      BY ZenonT(60), <2>1, <3>2, PumpBounded, PumpSendsType
    <3>4. net' \subseteq Packets
      BY <1>0, <3>1, <3>3, ReceiveType
    <3> QED BY ZenonT(60), <1>0, <1>5, <2>1, <3>1, <3>3, <3>4 DEF HandleGrant, TypeInv, TypeOK, Bounded
  <2> QED BY <2>2, <2>3
<1>6. ASSUME NEW p \in net, HandleResend(p) PROVE TypeInv'
  <2> DEFINE m     == p.msg
             start == MinOf(p.off, MsgLen[m])
             end   == MinOf(start + p.len, MsgLen[m])
  <2>1. m \in Msgs /\ end \in Nat /\ end <= MsgLen[m]
    BY SMTT(30), <1>0, HomaConstants DEF Packets, MinOf
  <2>2. CASE out[m] = NoMsg
    <3>1. Receive(p, {}) /\ UNCHANGED out
      BY ZenonT(60), <1>6, <2>2 DEF HandleResend
    <3> QED BY ZenonT(60), <1>0, <1>6, <3>1, ReceiveType DEF HandleResend, TypeInv, TypeOK
  <2>3. CASE out[m] # NoMsg
    <3>1. Receive(p, ResendSends(m, start, end)) /\ out' = [out EXCEPT ![m] = ResendAccount(m, out[m], end)]
      BY ZenonT(60), <1>0, <1>6, <2>1, <2>3 DEF HandleResend, TypeOK
    <3>2. Bounded(m, ResendAccount(m, out[m], end))
      BY ZenonT(60), <1>0, <2>1, <2>3, ResendAccountBounded
    <3>3. net' \subseteq Packets
      BY ZenonT(60), <1>0, <2>1, <3>1, ResendSendsType, ReceiveType
    <3> QED BY ZenonT(60), <1>0, <1>6, <2>1, <3>1, <3>2, <3>3 DEF HandleResend, TypeInv, TypeOK, Bounded
  <2> QED BY <2>2, <2>3
<1>7. ASSUME NEW p \in net, HandleBusy(p) \/ Lose(p) PROVE TypeInv'
  <2>1. net' \subseteq Packets
    BY ZenonT(60), <1>0, <1>7, ReceiveType DEF HandleBusy, Lose
  <2> QED BY <1>0, <1>7, <2>1 DEF HandleBusy, Lose, TypeInv, TypeOK
<1>8. ASSUME NEW p \in net, HandleDataRefused(p) PROVE TypeInv'
  <2>1. {Busy(p.msg)} \subseteq Packets
    BY <1>0 DEF Busy, Packets
  <2>2. net' \subseteq Packets
    BY ZenonT(60), <1>0, <1>8, <2>1, ReceiveType DEF HandleDataRefused
  <2> QED BY <1>0, <1>8, <2>2 DEF HandleDataRefused, TypeInv, TypeOK
<1>9. ASSUME NEW p \in net, HandleDataDelivers(p) PROVE TypeInv'
  <2> DEFINE m   == p.msg
             inc == [incoming EXCEPT ![m] = NoMsg]
  <2>1. m \in Msgs /\ inc \in [Msgs -> InMsg \cup {NoMsg}]
    BY <1>0, AfterDataType DEF TypeOK
  <2>2. PICK g \in GrantSets(inc) : Schedule(inc, g) /\ Receive(p, ScheduleSends(inc, g))
    BY <1>9 DEF HandleDataDelivers
  <2>3. granting' \subseteq Msgs /\ incoming' \in [Msgs -> InMsg \cup {NoMsg}] /\ net' \subseteq Packets
    <3> HIDE DEF inc
    <3> QED BY <1>0, <2>1, <2>2, ScheduleType, ReceiveType
  <2>4. Deliver(m, AfterData(p))
    BY <1>9 DEF HandleDataDelivers
  <2>5. completed' \in Seq(Msgs)
    BY ZenonT(60), <1>0, <2>1, <2>4, RememberType DEF Deliver
  <2>6. delivered' \in [Msgs -> [times : 0 .. 2, whole : BOOLEAN]]
    <3>1. delivered[m] \in [times : 0 .. 2, whole : BOOLEAN]
      BY <1>0, <2>1 DEF TypeOK
    <3>2. MinOf(delivered[m].times + 1, 2) \in 0 .. 2
      BY <3>1 DEF MinOf
    <3> QED BY <1>0, <2>1, <2>4, <3>2 DEF Deliver, TypeOK
  <2> QED BY ZenonT(60), <1>0, <1>9, <2>3, <2>5, <2>6 DEF HandleDataDelivers, TypeInv, TypeOK
<1>10. ASSUME NEW p \in net, HandleDataNew(p) PROVE TypeInv'
  <2> DEFINE m   == p.msg
             inc == [incoming EXCEPT ![m] = AfterData(p)]
  <2>1. inc \in [Msgs -> InMsg \cup {NoMsg}]
    BY <1>0, AfterDataType DEF TypeOK
  <2>2. PICK g \in GrantSets(inc) : Schedule(inc, g) /\ Receive(p, ScheduleSends(inc, g))
    BY <1>10 DEF HandleDataNew
  <2>3. granting' \subseteq Msgs /\ incoming' \in [Msgs -> InMsg \cup {NoMsg}] /\ net' \subseteq Packets
    <3> HIDE DEF inc
    <3> QED BY ZenonT(60), <1>0, <2>1, <2>2, ScheduleType, ReceiveType
  <2> QED BY <1>0, <1>10, <2>3 DEF HandleDataNew, TypeInv, TypeOK
<1>11. ASSUME NEW p \in net, HandleDataMore(p) PROVE TypeInv'
  <2> DEFINE m     == p.msg
             i     == AfterData(p)
             moved == IF m \in granting THEN IssueGrant(m, i, FALSE) ELSE i
             sends == IF m \in granting THEN IssueSends(m, i, FALSE) ELSE {}
             inc   == [incoming EXCEPT ![m] = moved]
  <2>1. m \in Msgs /\ i \in InMsg
    BY <1>0, AfterDataType
  <2>2. moved \in InMsg /\ sends \subseteq Packets
    BY ZenonT(60), <2>1, IssueGrantType, IssueSendsType
  <2>3. inc \in [Msgs -> InMsg \cup {NoMsg}]
    BY ZenonT(60), <1>0, <2>1, <2>2 DEF TypeOK
  <2>4. \/ incoming' = inc /\ UNCHANGED granting /\ Receive(p, sends)
        \/ \E g \in GrantSets(inc) : Schedule(inc, g) /\ Receive(p, sends \cup ScheduleSends(inc, g))
    BY ZenonT(60), <1>11 DEF HandleDataMore
  <2>5. granting' \subseteq Msgs /\ incoming' \in [Msgs -> InMsg \cup {NoMsg}] /\ net' \subseteq Packets
    <3> HIDE DEF inc, sends
    <3>1. CASE incoming' = inc /\ UNCHANGED granting /\ Receive(p, sends)
      BY ZenonT(60), <1>0, <2>2, <2>3, <3>1, ReceiveType DEF TypeOK
    <3>2. CASE \E g \in GrantSets(inc) : Schedule(inc, g) /\ Receive(p, sends \cup ScheduleSends(inc, g))
      <4>1. PICK g \in GrantSets(inc) : Schedule(inc, g) /\ Receive(p, sends \cup ScheduleSends(inc, g))
        BY <3>2
      <4>2. sends \cup ScheduleSends(inc, g) \subseteq Packets
        BY ZenonT(60), <2>2, <2>3, <4>1, ScheduleType
      <4> QED BY ZenonT(60), <1>0, <2>3, <4>1, <4>2, ScheduleType, ReceiveType
    <3> QED BY <2>4, <3>1, <3>2
  <2> QED BY <1>0, <1>11, <2>5 DEF HandleDataMore, TypeInv, TypeOK
<1>12. ASSUME NEW reaped \in SUBSET Msgs, NEW idle \in SUBSET Msgs, SenderTick(reaped, idle)
       PROVE  TypeInv'
  <2>1. ASSUME NEW m \in idle PROVE TickSends(m, out[m]) \subseteq Packets
    <3>1. m \in Msgs /\ Bounded(m, out[m])
      BY <1>0, <1>12, <2>1 DEF SenderTick
    <3> QED BY <3>1, TickSendsType
  <2>2. net' \subseteq Packets
    BY <1>0, <1>12, <2>1 DEF SenderTick
  <2> QED BY <1>0, <1>12, <2>2 DEF SenderTick, TypeInv, TypeOK
<1>13. ASSUME NEW idle \in SUBSET Msgs, NEW stalled \in SUBSET Msgs, ReceiverTick(idle, stalled)
       PROVE  TypeInv'
  <2> DEFINE inc == [m \in Msgs |-> TickedIn(m, idle, stalled)]
  <2>0. idle \in SUBSET InFlight
    BY <1>13 DEF ReceiverTick
  <2>1. inc \in [Msgs -> InMsg \cup {NoMsg}]
    BY ZenonT(60), <1>0, <2>0, TickedInType
  <2>2. ASSUME NEW m \in idle PROVE TickInSends(m, stalled) \subseteq Packets
    BY <1>0, <2>0, <2>2, TickedInType
  <2>3. PICK g \in GrantSets(inc) :
          /\ Schedule(inc, g)
          /\ net' = net \cup ScheduleSends(inc, g) \cup UNION { TickInSends(m, stalled) : m \in idle }
    BY <1>13 DEF ReceiverTick
  <2>4. granting' \subseteq Msgs /\ incoming' \in [Msgs -> InMsg \cup {NoMsg}] /\ net' \subseteq Packets
    <3> HIDE DEF inc
    <3> QED BY ZenonT(60), <1>0, <2>1, <2>2, <2>3, ScheduleType
  <2> QED BY ZenonT(60), <1>0, <1>13, <2>4 DEF ReceiverTick, TypeInv, TypeOK
<1>14. CASE UNCHANGED vars
  BY <1>0, <1>14 DEF vars, TypeInv, TypeOK
<1> QED BY ZenonT(60), <1>1, <1>2, <1>3, <1>4, <1>5, <1>6, <1>7, <1>8, <1>9, <1>10, <1>11, <1>12, <1>13, <1>14
        DEF Next, HandlePacket, HandleData

(* Every state of every run is well typed, whatever the configuration: in
   particular no offset or length goes negative and no sender entry points
   past its message. *)
THEOREM TypeCorrect == Spec => []TypeOK
<1>1. Init => TypeInv
  BY DEF Init, TypeInv, TypeOK
<1>2. TypeInv /\ [Next]_vars => TypeInv'
  BY TypeStep
<1>3. TypeInv => TypeOK
  BY DEF TypeInv
<1> QED BY <1>1, <1>2, <1>3, PTL DEF Spec

-----------------------------------------------------------------------------
(* The chunk grid. *)

LEMMA AlignedQuotient ==
  ASSUME NEW x \in Nat, Aligned(x)
  PROVE  x \div PacketSize \in Nat /\ x = (x \div PacketSize) * PacketSize
<1>1. /\ x \div PacketSize \in Nat
      /\ x = (x \div PacketSize) * PacketSize + (x % PacketSize)
  BY ZenonT(60), HomaConstants, DivMod
<1>2. (x \div PacketSize) * PacketSize \in Nat
  BY <1>1, HomaConstants, MulNat
<1> QED BY <1>1, <1>2 DEF Aligned

LEMMA MultipleAligned ==
  ASSUME NEW q \in Nat
  PROVE  q * PacketSize \in Nat /\ Aligned(q * PacketSize)
<1>1. q * PacketSize \in Nat
  BY HomaConstants, MulNat
<1>2. 0 \in 0 .. PacketSize - 1 /\ q * PacketSize = q * PacketSize + 0
  BY <1>1, HomaConstants
<1> QED BY <1>1, <1>2, HomaConstants, DivUnique DEF Aligned

LEMMA AlignedSum ==
  ASSUME NEW x \in Nat, NEW y \in Nat, Aligned(x), Aligned(y)
  PROVE  Aligned(x + y)
<1> DEFINE p == x \div PacketSize
           q == y \div PacketSize
<1>1. p \in Nat /\ q \in Nat /\ x = p * PacketSize /\ y = q * PacketSize
  BY AlignedQuotient
<1> HIDE DEF p, q
<1>2. x + y = (p + q) * PacketSize
  BY <1>1, HomaConstants
<1> QED BY <1>1, <1>2, MultipleAligned

LEMMA AlignedGap ==
  ASSUME NEW x \in Nat, NEW y \in Nat, Aligned(x), Aligned(y), x < y
  PROVE  x + PacketSize <= y
<1> DEFINE p == x \div PacketSize
           q == y \div PacketSize
<1>1. p \in Nat /\ q \in Nat /\ x = p * PacketSize /\ y = q * PacketSize
  BY AlignedQuotient
<1> HIDE DEF p, q
<1>2. p < q
  <2> SUFFICES ASSUME q <= p PROVE FALSE
    BY <1>1
  <2>1. CASE q = p
    BY <1>1, <2>1
  <2>2. CASE q < p
    <3>1. q * PacketSize + PacketSize <= p * PacketSize
      BY <1>1, <2>2, MulMono, HomaConstants
    <3> QED BY <1>1, <3>1, HomaConstants
  <2> QED BY <1>1, <2>1, <2>2
<1>3. p * PacketSize + PacketSize <= q * PacketSize
  BY <1>1, <1>2, MulMono, HomaConstants
<1> QED BY <1>1, <1>3

LEMMA ChunkStart ==
  ASSUME NEW b \in Nat
  PROVE  LET s == (b \div PacketSize) * PacketSize
         IN  s \in Nat /\ Aligned(s) /\ s <= b /\ b < s + PacketSize
<1> DEFINE k == b \div PacketSize
<1>1. k \in Nat /\ b % PacketSize \in 0 .. PacketSize - 1
      /\ b = k * PacketSize + (b % PacketSize)
  BY ZenonT(60), HomaConstants, DivMod
<1> HIDE DEF k
<1>2. k * PacketSize \in Nat /\ Aligned(k * PacketSize)
  BY <1>1, MultipleAligned
<1>3. k * PacketSize <= b /\ b < k * PacketSize + PacketSize
  BY SMT, SMTT(30), ZenonT(60), <1>1, <1>2, HomaConstants
<1> QED BY <1>2, <1>3 DEF k

(* A packet cut at a chunk start is a whole chunk, or the last one. *)
LEMMA DataAligned ==
  ASSUME NEW m \in Msgs, NEW s \in Nat, NEW past, Aligned(s), s <= MsgLen[m],
         s + PacketSize <= MsgLen[m] \/ past
  PROVE  PacketAligned(Data(m, s, MinOf(s + PacketSize, MsgLen[m])), past)
  BY HomaConstants DEF PacketAligned, Data, MinOf

LEMMA ChunkAtAligned ==
  ASSUME NEW m \in Msgs, NEW b \in Bytes(m), NEW past,
         (b \div PacketSize) * PacketSize + PacketSize <= MsgLen[m] \/ past
  PROVE  PacketAligned(ChunkAt(m, b), past)
<1> DEFINE s == (b \div PacketSize) * PacketSize
<1>1. b \in Nat /\ b < MsgLen[m] /\ MsgLen[m] \in Nat
  BY HomaConstants DEF Bytes
<1>2. s \in Nat /\ Aligned(s) /\ s <= b
  BY <1>1, ChunkStart
<1> HIDE DEF s
<1>3. s <= MsgLen[m] /\ (s + PacketSize <= MsgLen[m] \/ past)
  BY <1>1, <1>2 DEF s
<1>4. PacketAligned(Data(m, s, MinOf(s + PacketSize, MsgLen[m])), past)
  BY <1>2, <1>3, DataAligned
<1> QED BY <1>4 DEF ChunkAt, s

-----------------------------------------------------------------------------
(* The sender. *)

LEMMA PumpEndCases ==
  ASSUME NEW m \in Msgs, NEW o \in OutMsg, NEW limit \in Nat,
         o.next_send <= MsgLen[m], Aligned(o.next_send)
  PROVE  \/ o.next_send >= MinOf(limit, MsgLen[m]) /\ PumpEnd(m, o, limit) = o.next_send
         \/ \E e \in Nat : /\ Aligned(e) /\ e >= MinOf(limit, MsgLen[m])
                           /\ o.next_send < MinOf(limit, MsgLen[m])
                           /\ PumpEnd(m, o, limit) = MinOf(MsgLen[m], e)
<1> DEFINE lim == MinOf(limit, MsgLen[m])
           n == CeilDiv(lim - o.next_send, PacketSize)
           e == o.next_send + n * PacketSize
<1>1. lim \in Nat /\ o.next_send \in Nat /\ MsgLen[m] \in Nat
  BY HomaConstants DEF MinOf, OutMsg
<1>2. CASE o.next_send >= lim
  BY <1>2 DEF PumpEnd
<1>3. CASE ~(o.next_send >= lim)
  <2>1. PumpEnd(m, o, limit) = MinOf(MsgLen[m], e)
    BY <1>3 DEF PumpEnd
  <2>2. lim - o.next_send \in Nat
    BY <1>1, <1>3
  <2>3. n \in Nat /\ n * PacketSize >= lim - o.next_send
    BY <2>2, HomaConstants, CeilDivBound
  <2> HIDE DEF n, lim
  <2>4. n * PacketSize \in Nat /\ Aligned(n * PacketSize)
    BY <2>3, MultipleAligned
  <2>5. e \in Nat /\ Aligned(e) /\ e >= lim
    BY <1>1, <2>3, <2>4, AlignedSum
  <2> HIDE DEF e
  <2> QED BY <1>1, <1>3, <2>1, <2>5 DEF lim
<1> QED BY <1>2, <1>3

LEMMA PumpAligned ==
  ASSUME NEW m \in Msgs, NEW o \in OutMsg, NEW limit \in Nat,
         o.next_send <= MsgLen[m], Aligned(o.next_send), ~o.done,
         o.next_send > 0 \/ limit > 0
  PROVE  SenderAligned(m, Pump(m, o, limit))
<1> DEFINE lim == MinOf(limit, MsgLen[m])
           pe == PumpEnd(m, o, limit)
<1>1. lim \in Nat /\ o.next_send \in Nat /\ MsgLen[m] \in Nat /\ limit \in Nat
      /\ (lim = limit \/ lim = MsgLen[m])
  BY HomaConstants DEF MinOf, OutMsg
<1>2. Pump(m, o, limit).next_send = pe /\ Pump(m, o, limit).done = (pe >= MsgLen[m])
  BY DEF Pump, OutMsg
<1>3. pe <= MsgLen[m] /\ (pe >= MsgLen[m] \/ (Aligned(pe) /\ 0 < pe /\ pe < MsgLen[m]))
  <2>1. CASE o.next_send >= lim /\ pe = o.next_send
    <3> HIDE DEF lim, pe
    <3> QED BY <1>1, <2>1
  <2>2. CASE \E e \in Nat : /\ Aligned(e) /\ e >= lim /\ o.next_send < lim
                            /\ pe = MinOf(MsgLen[m], e)
    <3>1. PICK e \in Nat : /\ Aligned(e) /\ e >= lim /\ o.next_send < lim
                           /\ pe = MinOf(MsgLen[m], e)
      BY <2>2
    <3> HIDE DEF lim, pe
    <3> QED BY <1>1, <3>1 DEF MinOf
  <2> QED BY <2>1, <2>2, PumpEndCases
<1> HIDE DEF pe
<1> QED BY ZenonT(60), <1>2, <1>3 DEF SenderAligned

LEMMA PumpSendsAligned ==
  ASSUME NEW m \in Msgs, NEW o \in OutMsg, NEW limit \in Nat,
         o.next_send <= MsgLen[m], Aligned(o.next_send) \/ o.done,
         NEW p \in PumpSends(m, o, limit)
  PROVE  p.msg = m /\ PacketAligned(p, Pump(m, o, limit).done)
<1> DEFINE lim == MinOf(limit, MsgLen[m])
           pe == PumpEnd(m, o, limit)
<1>1. ~o.done /\ Aligned(o.next_send)
  BY DEF PumpSends
<1>2. PICK s \in Bytes(m) : /\ s >= o.next_send /\ s < lim
                            /\ (s - o.next_send) % PacketSize = 0
                            /\ p = Data(m, s, MinOf(s + PacketSize, MsgLen[m]))
  BY <1>1 DEF PumpSends
<1>3. /\ lim \in Nat /\ o.next_send \in Nat /\ MsgLen[m] \in Nat /\ PacketSize \in Nat
      /\ lim <= MsgLen[m] /\ s \in Nat /\ s - o.next_send \in Nat
  BY <1>2, HomaConstants DEF MinOf, OutMsg, Bytes
<1>4. Aligned(s)
  <2>1. Aligned(s - o.next_send)
    BY <1>2 DEF Aligned
  <2>2. Aligned(o.next_send + (s - o.next_send))
    BY <1>1, <1>3, <2>1, AlignedSum
  <2> QED BY <1>3, <2>2
<1>5. Pump(m, o, limit).done = (pe >= MsgLen[m])
  BY <1>1 DEF Pump, OutMsg
<1>6. s + PacketSize <= MsgLen[m] \/ pe >= MsgLen[m]
  <2>1. PICK e \in Nat : Aligned(e) /\ e >= lim /\ pe = MinOf(MsgLen[m], e)
    <3> HIDE DEF pe
    <3>1. ~(o.next_send >= lim)
      BY <1>2, <1>3
    <3> QED BY <1>1, <3>1, PumpEndCases DEF pe
  <2>2. s + PacketSize <= e
    BY <1>2, <1>3, <1>4, <2>1, AlignedGap
  <2> HIDE DEF pe, lim
  <2> QED BY <1>3, <2>1, <2>2 DEF MinOf
<1>7. p.msg = m
  BY <1>2 DEF Data
<1> DEFINE past == pe >= MsgLen[m]
<1>8. s <= MsgLen[m] /\ (s + PacketSize <= MsgLen[m] \/ past)
  BY <1>2, <1>3, <1>6
<1> HIDE DEF past
<1>9. PacketAligned(p, past)
  BY ZenonT(60), <1>2, <1>3, <1>4, <1>8, DataAligned
<1> QED BY <1>5, <1>7, <1>9 DEF past

(* A RESEND of an aligned range keeps the books and the chunks aligned. *)
LEMMA ResendAligned ==
  ASSUME NEW m \in Msgs, NEW o \in OutMsg, SenderAligned(m, o),
         NEW p \in Packets, p.type = "RESEND", p.msg = m, PacketAligned(p, o.done)
  PROVE  LET start == MinOf(p.off, MsgLen[m])
             end   == MinOf(start + p.len, MsgLen[m])
             o2    == ResendAccount(m, o, end)
         IN  /\ SenderAligned(m, o2)
             /\ \A q \in ResendSends(m, start, end) : q.msg = m /\ PacketAligned(q, o2.done)
             /\ o.done => o2.done
<1> DEFINE start == MinOf(p.off, MsgLen[m])
           end   == MinOf(start + p.len, MsgLen[m])
           o2    == ResendAccount(m, o, end)
<1>1. /\ MsgLen[m] \in Nat /\ p.off \in Nat /\ p.len \in Nat /\ PacketSize \in Nat
      /\ o.next_send \in Nat /\ o.next_send <= MsgLen[m]
  BY HomaConstants DEF Packets, OutMsg, SenderAligned
<1>2. end \in Nat /\ end <= MsgLen[m]
  BY <1>1 DEF MinOf
<1>3. o.done \/ end = MsgLen[m] \/ Aligned(end)
  BY <1>1 DEF PacketAligned, MinOf
<1> HIDE DEF start, end
<1>4. /\ o2.next_send = MaxOf(o.next_send, end)
      /\ o2.done = (o.done \/ (o.next_send < end /\ end >= MsgLen[m]))
  BY DEF ResendAccount, OutMsg
<1>5. o.done \/ (Aligned(o.next_send) /\ 0 < o.next_send /\ o.next_send < MsgLen[m])
  BY DEF SenderAligned
<1>6. o2.next_send <= MsgLen[m]
  BY ZenonT(60), <1>1, <1>2, <1>4 DEF MaxOf
<1>7. o2.done \/ (Aligned(end) /\ Aligned(o2.next_send) /\ 0 < o2.next_send /\ o2.next_send < MsgLen[m])
  <2>1. CASE o.done
    BY ZenonT(60), <1>4, <2>1
  <2>2. CASE ~o.done /\ end = MsgLen[m]
    <3>1. o.next_send < end /\ end >= MsgLen[m]
      BY <1>1, <1>2, <1>5, <2>2
    <3>2. o2.done = TRUE
      BY <1>4, <3>1, ZenonT(60)
    <3> QED BY <3>2
  <2>3. CASE ~o.done /\ end # MsgLen[m]
    <3>1. Aligned(end) /\ Aligned(o.next_send) /\ 0 < o.next_send /\ o.next_send < MsgLen[m]
      BY <1>3, <1>5, <2>3
    <3>2. MaxOf(o.next_send, end) \in {o.next_send, end} /\ MaxOf(o.next_send, end) >= o.next_send
      BY <1>1, <1>2 DEF MaxOf
    <3>3. end < MsgLen[m]
      BY <1>1, <1>2, <2>3
    <3> HIDE DEF o2
    <3> QED BY SMT, SMTT(30), ZenonT(60), <1>1, <1>2, <1>4, <3>1, <3>2, <3>3
  <2> QED BY <2>1, <2>2, <2>3
<1>8. ASSUME NEW q \in ResendSends(m, start, end) PROVE q.msg = m /\ PacketAligned(q, o2.done)
  <2>1. PICK b \in Bytes(m) : b < end /\ q = ChunkAt(m, b)
    BY DEF ResendSends
  <2> DEFINE s == (b \div PacketSize) * PacketSize
  <2>2. b \in Nat
    BY DEF Bytes
  <2>3. s \in Nat /\ Aligned(s) /\ s <= b
    BY <2>2, ChunkStart
  <2> HIDE DEF s, o2
  <2>4. s + PacketSize <= MsgLen[m] \/ o2.done
    <3>1. CASE Aligned(end)
      <4>1. s < end
        BY SMT, SMTT(30), <1>2, <2>1, <2>2, <2>3
      <4>2. s + PacketSize <= end
        BY ZenonT(60), <1>2, <2>3, <3>1, <4>1, AlignedGap
      <4> QED BY <1>1, <1>2, <2>3, <4>2
    <3> QED BY <1>7, <3>1
  <2>5. PacketAligned(ChunkAt(m, b), o2.done)
    BY <2>4, ChunkAtAligned DEF s
  <2>6. q.msg = m
    BY <2>1 DEF ChunkAt, Data
  <2> QED BY <2>1, <2>5, <2>6
<1>9. SenderAligned(m, o2)
  <2> HIDE DEF o2
  <2> QED BY <1>6, <1>7 DEF SenderAligned
<1>10. o.done => o2.done
  BY ZenonT(60), <1>4
<1> HIDE DEF o2
<1> QED BY <1>8, <1>9, <1>10 DEF o2, start, end

(* What a timer makes the sender repeat is a whole chunk, or the message is
   finished. *)
LEMMA TickAligned ==
  ASSUME NEW m \in Msgs, NEW o \in OutMsg, SenderAligned(m, o), NEW q \in TickSends(m, o)
  PROVE  q.msg = m /\ PacketAligned(q, o.done)
<1>1. MsgLen[m] \in Nat /\ PacketSize \in Nat /\ o.next_send \in Nat
  BY HomaConstants DEF OutMsg
<1>2. CASE o.done
  <2>1. q = Data(m, 0, MinOf(0 + PacketSize, MsgLen[m]))
    BY <1>1, <1>2 DEF TickSends
  <2>2. Aligned(0)
    BY MultipleAligned, <1>1
  <2>3. PacketAligned(Data(m, 0, MinOf(0 + PacketSize, MsgLen[m])), o.done)
    <3>1. 0 <= MsgLen[m] /\ 0 \in Nat
      BY <1>1
    <3> QED BY <1>2, <2>2, <3>1, DataAligned, ZenonT(60)
  <2> QED BY <2>1, <2>3 DEF Data
<1>3. CASE ~o.done
  <2> DEFINE b == o.next_send - 1
             s == (b \div PacketSize) * PacketSize
  <2>1. Aligned(o.next_send) /\ 0 < o.next_send /\ o.next_send < MsgLen[m]
    BY <1>3 DEF SenderAligned
  <2>2. q = ChunkAt(m, b)
    BY <1>1, <1>3, <2>1 DEF TickSends
  <2>3. b \in Nat /\ b \in Bytes(m) /\ b < o.next_send
    BY <1>1, <2>1 DEF Bytes
  <2> HIDE DEF b
  <2>4. s \in Nat /\ Aligned(s) /\ s <= b
    BY <2>3, ChunkStart
  <2> HIDE DEF s
  <2>5. s + PacketSize <= o.next_send
    BY <1>1, <2>1, <2>3, <2>4, AlignedGap
  <2>6. s + PacketSize <= MsgLen[m]
    BY <1>1, <2>1, <2>4, <2>5
  <2>7. PacketAligned(ChunkAt(m, b), o.done)
    BY <2>3, <2>6, ChunkAtAligned DEF s
  <2> QED BY <2>2, <2>7 DEF ChunkAt, Data
<1> QED BY <1>2, <1>3

-----------------------------------------------------------------------------
(* The receiver. *)

LEMMA FreshBooks ==
  ASSUME AlignedConfig, NEW m \in Msgs, NEW past
  PROVE  Books(m, FreshIn(m), past)
<1>1. Aligned(0)
  BY MultipleAligned, HomaConstants
<1>2. Aligned(MinOf(UnscheduledBytes, MsgLen[m])) \/ MinOf(UnscheduledBytes, MsgLen[m]) >= MsgLen[m]
  BY HomaConstants DEF AlignedConfig, MinOf
<1> QED BY <1>1, <1>2, FS_EmptySet DEF Books, FreshIn

LEMMA GrantBooks ==
  ASSUME AlignedConfig, NEW m \in Msgs, NEW i \in InMsg, NEW past, Books(m, i, past), NEW force
  PROVE  /\ Books(m, IssueGrant(m, i, force), past)
         /\ Complete(m, IssueGrant(m, i, force)) <=> Complete(m, i)
<1> DEFINE t == GrantTarget(m, i)
<1>1. i.received_bytes \in Nat /\ i.granted_to \in Nat /\ MsgLen[m] \in Nat /\ GrantIncrement \in Nat
  BY HomaConstants DEF InMsg
<1>2. past \/ Aligned(t) \/ t >= MsgLen[m]
  <2>1. CASE past
    BY <2>1
  <2>2. CASE ~past
    <3>1. Aligned(i.received_bytes + GrantIncrement)
      BY <1>1, <2>2, AlignedSum DEF Books, AlignedConfig
    <3>2. Aligned(i.granted_to) \/ i.granted_to >= MsgLen[m]
      BY <2>2 DEF Books
    <3> QED BY <1>1, <3>1, <3>2 DEF GrantTarget, MaxOf, MinOf
  <2> QED BY <2>1, <2>2
<1>3. CASE Issues(m, i, force)
  <2> HIDE DEF t
  <2>1. IssueGrant(m, i, force) = [i EXCEPT !.granted_to = t]
    BY <1>3 DEF IssueGrant, t
  <2> DEFINE j == [i EXCEPT !.granted_to = t]
  <2>2. /\ j.buf = i.buf /\ j.received = i.received /\ j.received_bytes = i.received_bytes
        /\ j.granted_to = t
    BY DEF InMsg
  <2> HIDE DEF j
  <2>3. Books(m, j, past) /\ (Complete(m, j) <=> Complete(m, i))
    BY <1>2, <2>2 DEF Books, Complete
  <2> QED BY <2>1, <2>3 DEF j
<1>4. CASE ~Issues(m, i, force)
  BY <1>4 DEF IssueGrant
<1> QED BY <1>3, <1>4

LEMMA IntervalCard ==
  ASSUME NEW a \in Nat, NEW n \in Nat
  PROVE  IsFiniteSet(a .. a + n - 1) /\ Cardinality(a .. a + n - 1) = n
<1> DEFINE b == a + n - 1
<1>1. a \in Int /\ b \in Int
  OBVIOUS
<1>2. (IF a > b THEN 0 ELSE b - a + 1) = n
  OBVIOUS
<1> HIDE DEF b
<1>3. IsFiniteSet(a .. b) /\ Cardinality(a .. b) = IF a > b THEN 0 ELSE b - a + 1
  BY <1>1, FS_Interval, ZenonT(60)
<1> QED BY <1>2, <1>3 DEF b

LEMMA BytesCard ==
  ASSUME NEW m \in Msgs
  PROVE  IsFiniteSet(Bytes(m)) /\ Cardinality(Bytes(m)) = MsgLen[m]
<1>1. MsgLen[m] \in Nat /\ 0 \in Nat
  BY HomaConstants
<1>2. Bytes(m) = 0 .. 0 + MsgLen[m] - 1
  BY <1>1 DEF Bytes
<1> QED BY <1>1, <1>2, IntervalCard

(* An aligned packet covers exactly the bytes of its chunk. *)
LEMMA PacketCovers ==
  ASSUME NEW m \in Msgs, NEW p \in Packets, NEW past, p.msg = m, p.type = "DATA",
         PacketAligned(p, past)
  PROVE  /\ p.off .. p.off + p.len - 1 \subseteq Bytes(m)
         /\ \A b \in Bytes(m) : b \in p.off .. p.off + p.len - 1 <=> b \div PacketSize = p.off \div PacketSize
         /\ ~past => p.len = PacketSize
<1> DEFINE idx == p.off \div PacketSize
<1>1. /\ MsgLen[m] \in Nat /\ p.off \in Nat /\ p.len \in Nat /\ PacketSize \in Nat \ {0}
      /\ p.len <= PacketSize /\ p.off + p.len <= MsgLen[m] /\ Aligned(p.off)
      /\ p.len = PacketSize \/ p.off + p.len = MsgLen[m]
  BY HomaConstants DEF Packets, PacketAligned
<1>2. idx \in Nat /\ p.off = idx * PacketSize
  BY <1>1, AlignedQuotient
<1>3. p.off .. p.off + p.len - 1 \subseteq Bytes(m)
  BY <1>1 DEF Bytes
<1> HIDE DEF idx
<1>4. ASSUME NEW b \in Bytes(m), b \in p.off .. p.off + p.len - 1
      PROVE  b \div PacketSize = idx
  <2>1. b \in Nat /\ b - p.off \in 0 .. PacketSize - 1
    BY <1>1, <1>4 DEF Bytes
  <2>2. b = idx * PacketSize + (b - p.off)
    BY <1>1, <1>2, <2>1
  <2> QED BY ZenonT(60), <1>1, <1>2, <2>1, <2>2, DivUnique
<1>5. ASSUME NEW b \in Bytes(m), b \div PacketSize = idx
      PROVE  b \in p.off .. p.off + p.len - 1
  <2>1. b \in Nat /\ b < MsgLen[m]
    BY <1>1 DEF Bytes
  <2>2. p.off <= b /\ b < p.off + PacketSize
    BY <1>2, <1>5, <2>1, ChunkStart
  <2> QED BY SMT, SMTT(30), ZenonT(60), <1>1, <2>1, <2>2
<1>6. ~past => p.len = PacketSize
  BY DEF PacketAligned
<1> QED BY ZenonT(60), <1>3, <1>4, <1>5, <1>6 DEF idx

LEMMA ReassembleBooks ==
  ASSUME NEW m \in Msgs, NEW i \in InMsg, NEW past, Books(m, i, past),
         NEW p \in Packets, p.msg = m, p.type = "DATA", PacketAligned(p, past)
  PROVE  Books(m, Reassemble(m, i, p), past)
<1> DEFINE idx == p.off \div PacketSize
           R == p.off .. p.off + p.len - 1
           j == [i EXCEPT !.received       = @ \cup {idx},
                          !.buf            = @ \cup R,
                          !.received_bytes = @ + p.len,
                          !.unanswered     = 0]
<1>1. CASE ~(idx \in Chunks(m) \ i.received /\ p.off + p.len <= MsgLen[m])
  BY <1>1 DEF Reassemble
<1>2. CASE idx \in Chunks(m) \ i.received /\ p.off + p.len <= MsgLen[m]
  <2>1. Reassemble(m, i, p) = j
    BY <1>2 DEF Reassemble
  <2>2. /\ j.received = i.received \cup {idx} /\ j.buf = i.buf \cup R
        /\ j.received_bytes = i.received_bytes + p.len /\ j.granted_to = i.granted_to
    BY DEF InMsg
  <2>3. p.off \in Nat /\ p.len \in Nat /\ i.received_bytes \in Nat
    BY DEF Packets, InMsg
  <2>4. R \subseteq Bytes(m) /\ (\A b \in Bytes(m) : b \in R <=> b \div PacketSize = idx)
    BY PacketCovers
  <2>5. IsFiniteSet(R) /\ Cardinality(R) = p.len
    BY ZenonT(60), <2>3, IntervalCard
  <2>6. IsFiniteSet(i.buf)
    <3>1. IsFiniteSet(Bytes(m))
      BY BytesCard
    <3> QED BY ZenonT(60), <3>1, FS_Subset DEF Books
  <2> HIDE DEF R, j, idx
  <2>7. i.buf \cap R = {}
    BY ZenonT(60), <1>2, <2>4 DEF Books
  <2>8. Cardinality(i.buf \cup R) = i.received_bytes + p.len
    <3>1. Cardinality(i.buf \cup R) = Cardinality(i.buf) + Cardinality(R) - Cardinality(i.buf \cap R)
      BY <2>5, <2>6, FS_Union, ZenonT(60)
    <3>2. Cardinality(i.buf \cap R) = 0
      BY ZenonT(60), <2>7, FS_EmptySet
    <3>3. Cardinality(i.buf) = i.received_bytes
      BY DEF Books
    <3> QED BY <2>3, <2>5, <3>1, <3>2, <3>3
  <2>9. \A b \in Bytes(m) : b \in i.buf \cup R <=> b \div PacketSize \in i.received \cup {idx}
    BY <2>4 DEF Books
  <2>10. past \/ Aligned(i.received_bytes + p.len)
    <3>1. ASSUME ~past PROVE Aligned(i.received_bytes + p.len)
      <4>1. p.len = 1 * PacketSize /\ Aligned(i.received_bytes)
        BY <3>1, PacketCovers, HomaConstants DEF Books
      <4>2. Aligned(p.len)
        BY ZenonT(60), <4>1, MultipleAligned
      <4> QED BY ZenonT(60), <2>3, <4>1, <4>2, AlignedSum
    <3> QED BY <3>1
  <2>11. Books(m, j, past)
    BY SMTT(30), <2>2, <2>4, <2>8, <2>9, <2>10 DEF Books
  <2> QED BY <2>1, <2>11
<1> QED BY <1>1, <1>2

(* Complete books are a whole message, and books with every bit set are
   complete. *)
LEMMA CompleteIsWhole ==
  ASSUME NEW m \in Msgs, NEW i \in InMsg, NEW past, Books(m, i, past), Complete(m, i)
  PROVE  i.buf = Bytes(m)
<1>1. MsgLen[m] \in Nat
  BY HomaConstants
<1>2. IsFiniteSet(Bytes(m)) /\ Cardinality(Bytes(m)) = MsgLen[m]
  BY ZenonT(60), BytesCard
<1> QED BY ZenonT(60), <1>2, FS_Subset DEF Books, Complete

LEMMA NothingMissingIsComplete ==
  ASSUME NEW m \in Msgs, NEW i \in InMsg, NEW past, Books(m, i, past), Missing(m, i) = {}
  PROVE  Complete(m, i)
<1>1. MsgLen[m] \in Nat /\ PacketSize \in Nat \ {0}
  BY HomaConstants
<1>2. IsFiniteSet(Bytes(m)) /\ Cardinality(Bytes(m)) = MsgLen[m]
  BY BytesCard
<1>3. ASSUME NEW b \in Bytes(m) PROVE b \div PacketSize \in Chunks(m)
  <2> DEFINE k == b \div PacketSize
             n == CeilDiv(MsgLen[m], PacketSize)
  <2>1. b \in Nat /\ b < MsgLen[m]
    BY <1>1 DEF Bytes
  <2>2. k \in Nat /\ k * PacketSize <= b
    BY <1>1, <2>1, DivMod, ChunkStart
  <2>3. n \in Nat /\ n * PacketSize >= MsgLen[m]
    BY <1>1, CeilDivBound
  <2> HIDE DEF k, n
  <2>4. k < n
    <3> SUFFICES ASSUME n <= k PROVE FALSE
      BY <2>2, <2>3
    <3>1. n * PacketSize <= k * PacketSize
      <4>1. CASE n = k
        BY SMT, SMTT(30), <1>1, <2>2, <4>1, MulNat
      <4>2. CASE n < k
        BY SMT, SMTT(30), <1>1, <2>2, <2>3, <4>2, MulMono, MulNat
      <4> QED BY <2>2, <2>3, <4>1, <4>2
    <3> QED BY SMT, SMTT(30), <1>1, <2>1, <2>2, <2>3, <3>1, MulNat
  <2>5. k \in 0 .. MaxOf(n, 1) - 1
    BY <2>2, <2>3, <2>4 DEF MaxOf
  <2> QED BY <2>5 DEF Chunks, k, n
<1>4. i.buf = Bytes(m)
  BY ZenonT(60), <1>3 DEF Missing, Books
<1> QED BY <1>2, <1>4 DEF Books, Complete

(* Alignment says nothing of a GRANT. *)
LEMMA IssueSendsAligned ==
  ASSUME NEW m, NEW i, NEW force, NEW past, NEW q \in IssueSends(m, i, force)
  PROVE  q.msg = m /\ PacketAligned(q, past)
<1>1. q = Grant(m, GrantTarget(m, i))
  BY DEF IssueSends
<1>2. q.type = "GRANT" /\ q.msg = m
  BY <1>1 DEF Grant
<1> QED BY <1>2 DEF PacketAligned

(* What tick asks for lies on the grid. *)
LEMMA TickInAligned ==
  ASSUME AlignedConfig, TypeOK, NEW m \in Msgs, incoming[m] # NoMsg, NEW past,
         Books(m, incoming[m], past), NEW stalled, NEW q \in TickInSends(m, stalled)
  PROVE  q.msg = m /\ PacketAligned(q, past)
<1> DEFINE i == incoming[m]
           f == FirstMissing(m, i)
<1>1. i \in InMsg /\ i.granted_to \in Nat /\ GrantIncrement \in Nat /\ MsgLen[m] \in Nat
  BY ZenonT(60), HomaConstants DEF TypeOK, InMsg
<1>2. CASE AsksResend(m)
  <2>1. q = Resend(m, f, MinOf(i.granted_to - f, GrantIncrement))
    BY <1>2 DEF TickInSends
  <2>2. Missing(m, i) # {} /\ f < i.granted_to
    BY ZenonT(60), <1>2 DEF AsksResend
  <2>3. PICK c \in Missing(m, i) : f = c * PacketSize
    BY <1>1, <2>2, FirstMissingType
  <2>4. c \in Nat
    BY DEF Missing, Chunks
  <2>5. f \in Nat /\ Aligned(f)
    BY ZenonT(60), <2>3, <2>4, MultipleAligned
  <2>6. Aligned(f + GrantIncrement)
    BY ZenonT(60), <1>1, <2>5, AlignedSum DEF AlignedConfig
  <2> HIDE DEF f
  <2>7. \/ f + MinOf(i.granted_to - f, GrantIncrement) = i.granted_to
        \/ f + MinOf(i.granted_to - f, GrantIncrement) = f + GrantIncrement
    BY SMT, SMTT(30), <1>1, <2>2, <2>5 DEF MinOf
  <2>8. /\ q.type = "RESEND" /\ q.msg = m /\ q.off = f
        /\ q.len = MinOf(i.granted_to - f, GrantIncrement)
    BY ZenonT(60), <2>1 DEF Resend
  <2>9. past \/ Aligned(i.granted_to) \/ i.granted_to >= MsgLen[m]
    BY DEF Books
  <2> QED BY ZenonT(60), <2>6, <2>7, <2>8, <2>9 DEF PacketAligned
<1>3. CASE ~AsksResend(m)
  <2>1. q \in IssueSends(m, i, TRUE)
    BY ZenonT(60), <1>3 DEF TickInSends
  <2> QED BY ZenonT(60), <2>1, IssueSendsAligned
<1> QED BY <1>2, <1>3

-----------------------------------------------------------------------------
(* A finished sender entry never becomes unfinished again, and a forgotten
   message is never started again: Past is stable, so what it excuses stays
   excused. *)

LEMMA PastStable ==
  ASSUME TypeInv, [Next]_vars, NEW m \in Msgs, Past(m)
  PROVE  Past(m)'
<1> USE DEF senderVars, receiverVars
<1>0. /\ api[m] # "idle" /\ (out[m] # NoMsg => out[m] \in OutMsg /\ out[m].done)
      /\ out \in [Msgs -> OutMsg \cup {NoMsg}]
      /\ api \in [Msgs -> {"idle", "sending", "sent", "timedout", "failed"}]
      /\ net \subseteq Packets
  BY DEF TypeInv, TypeOK, Past
<1>1. ASSUME NEW k \in Msgs, Send(k) \/ SendFails(k) PROVE Past(m)'
  BY <1>0, <1>1 DEF Send, SendFails, Past
<1>2. ASSUME NEW k \in Msgs, SendReturns(k) \/ SendTimesOut(k) \/ Finish(k) PROVE Past(m)'
  BY <1>0, <1>2 DEF SendReturns, SendTimesOut, Finish, Past
<1>3. ASSUME NEW k \in Msgs, Confirm(k) PROVE Past(m)'
  BY <1>0, <1>3 DEF Confirm, Past
<1>4. ASSUME NEW p \in net, HandleGrant(p) PROVE Past(m)'
  <2>1. \/ UNCHANGED out
        \/ /\ out[p.msg] # NoMsg
           /\ out' = [out EXCEPT ![p.msg] = Pump(p.msg, out[p.msg], MinOf(p.off, MsgLen[p.msg]))]
    BY ZenonT(60), <1>0, <1>4 DEF HandleGrant
  <2>2. UNCHANGED api
    BY <1>4 DEF HandleGrant
  <2> QED BY ZenonT(60), <1>0, <2>1, <2>2 DEF Past, Pump
<1>5. ASSUME NEW p \in net, HandleResend(p) PROVE Past(m)'
  <2>1. \/ UNCHANGED out
        \/ /\ out[p.msg] # NoMsg
           /\ \E end : out' = [out EXCEPT ![p.msg] = ResendAccount(p.msg, out[p.msg], end)]
    BY ZenonT(60), <1>0, <1>5 DEF HandleResend
  <2>2. UNCHANGED api
    BY <1>5 DEF HandleResend
  <2>3. ASSUME NEW end, out[m] # NoMsg PROVE ResendAccount(m, out[m], end).done
    BY <1>0, <2>3 DEF ResendAccount, OutMsg
  <2> QED BY SMT, SMTT(30), <1>0, <2>1, <2>2, <2>3 DEF Past
<1>6. ASSUME NEW reaped \in SUBSET Msgs, NEW idle \in SUBSET Msgs, SenderTick(reaped, idle)
      PROVE  Past(m)'
  BY <1>0, <1>6 DEF SenderTick, Past
<1>7. CASE UNCHANGED senderVars
  BY SMTT(30), <1>0, <1>7 DEF Past
<1>8. ASSUME NEW p \in net, HandleBusy(p) \/ HandleData(p) \/ Lose(p) PROVE UNCHANGED senderVars
  BY ZenonT(60), <1>8 DEF HandleBusy, HandleData, HandleDataRefused, HandleDataDelivers, HandleDataNew,
              HandleDataMore, Lose
<1>9. ASSUME NEW idle \in SUBSET Msgs, NEW stalled \in SUBSET Msgs, ReceiverTick(idle, stalled)
      PROVE  UNCHANGED senderVars
  BY <1>9 DEF ReceiverTick
<1>10. UNCHANGED vars => UNCHANGED senderVars
  BY DEF vars
<1> QED BY ZenonT(60), <1>1, <1>2, <1>3, <1>4, <1>5, <1>6, <1>7, <1>8, <1>9, <1>10 DEF Next, HandlePacket

LEMMA PacketMono ==
  ASSUME NEW p, NEW a, NEW b, PacketAligned(p, a), a => b
  PROVE  PacketAligned(p, b)
  BY DEF PacketAligned

LEMMA BooksMono ==
  ASSUME NEW m, NEW i, NEW a, NEW b, Books(m, i, a), a => b
  PROVE  Books(m, i, b)
  BY DEF Books

(* The three parts of the invariant after a step: what a step leaves alone
   stays aligned. *)
LEMMA KeepPackets ==
  ASSUME TypeInv, AlignedInv, \A m \in Msgs : Past(m) => Past(m)',
         NEW sends, net' \subseteq net \cup sends,
         \A q \in sends : PacketAligned(q, Past(q.msg)')
  PROVE  \A p \in net' : PacketAligned(p, Past(p.msg)')
<1> SUFFICES ASSUME NEW p \in net, p \in net' PROVE PacketAligned(p, Past(p.msg)')
  OBVIOUS
<1>1. p.msg \in Msgs /\ PacketAligned(p, Past(p.msg))
  BY ZenonT(60) DEF TypeInv, TypeOK, Packets, AlignedInv
<1>2. Past(p.msg) => Past(p.msg)'
  BY <1>1
<1> QED BY <1>1, <1>2, PacketMono

LEMMA KeepIncoming ==
  ASSUME AlignedInv, \A m \in Msgs : Past(m) => Past(m)', UNCHANGED incoming
  PROVE  \A m \in Msgs : incoming'[m] # NoMsg =>
           Books(m, incoming'[m], Past(m)') /\ ~Complete(m, incoming'[m])
<1> SUFFICES ASSUME NEW m \in Msgs, incoming[m] # NoMsg
             PROVE  Books(m, incoming[m], Past(m)') /\ ~Complete(m, incoming[m])
  BY ZenonT(60)
<1>1. Books(m, incoming[m], Past(m)) /\ ~Complete(m, incoming[m])
  BY DEF AlignedInv
<1>2. Past(m) => Past(m)'
  BY ZenonT(60)
<1> QED BY <1>1, <1>2, BooksMono

(* A receiver's step ends with a scheduling round over books that are in
   order. *)
LEMMA ScheduleKeeps ==
  ASSUME AlignedConfig, NEW inc \in [Msgs -> InMsg \cup {NoMsg}], NEW g \in GrantSets(inc),
         Schedule(inc, g),
         \A m \in Msgs : inc[m] # NoMsg => Books(m, inc[m], Past(m)) /\ ~Complete(m, inc[m])
  PROVE  /\ \A m \in Msgs : incoming'[m] # NoMsg =>
              Books(m, incoming'[m], Past(m)) /\ ~Complete(m, incoming'[m])
         /\ \A q \in ScheduleSends(inc, g) : \A past : PacketAligned(q, past)
<1>1. ASSUME NEW m \in Msgs, incoming'[m] # NoMsg
      PROVE  Books(m, incoming'[m], Past(m)) /\ ~Complete(m, incoming'[m])
  <2>1. CASE m \in g
    <3>1. inc[m] # NoMsg
      BY <2>1, GrantSetsType DEF NeedsGrant
    <3>2. incoming'[m] = IssueGrant(m, inc[m], FALSE)
      BY <2>1 DEF Schedule
    <3>3. inc[m] \in InMsg
      BY <3>1
    <3>4. Books(m, inc[m], Past(m)) /\ ~Complete(m, inc[m])
      BY <3>1
    <3>5. /\ Books(m, IssueGrant(m, inc[m], FALSE), Past(m))
          /\ ~Complete(m, IssueGrant(m, inc[m], FALSE))
      BY <3>3, <3>4, GrantBooks, ZenonT(60)
    <3> QED BY ZenonT(60), <3>2, <3>5
  <2>2. CASE m \notin g
    BY <1>1, <2>2 DEF Schedule
  <2> QED BY <2>1, <2>2
<1>2. ASSUME NEW q \in ScheduleSends(inc, g), NEW past PROVE PacketAligned(q, past)
  <2>1. PICK m \in g : q \in IssueSends(m, inc[m], FALSE)
    BY ZenonT(60) DEF ScheduleSends
  <2> QED BY ZenonT(60), <2>1, IssueSendsAligned
<1> QED BY ZenonT(60), <1>1, <1>2

-----------------------------------------------------------------------------
(* AlignedInv and DeliveredWhole are preserved by every step. *)

LEMMA AfterDataBooks ==
  ASSUME AlignedConfig, TypeInv, AlignedInv, NEW p \in net, p.type = "DATA"
  PROVE  /\ p.msg \in Msgs /\ AfterData(p) \in InMsg
         /\ Books(p.msg, AfterData(p), Past(p.msg))
<1>1. p \in Packets /\ p.msg \in Msgs /\ PacketAligned(p, Past(p.msg)) /\ AfterData(p) \in InMsg
  BY AfterDataType DEF TypeInv, TypeOK, Packets, AlignedInv
<1> DEFINE i == IF incoming[p.msg] = NoMsg THEN FreshIn(p.msg) ELSE incoming[p.msg]
<1>2. i \in InMsg
  BY ZenonT(60), <1>1, FreshInType DEF TypeInv, TypeOK
<1>3. Books(p.msg, i, Past(p.msg))
  BY <1>1, FreshBooks DEF AlignedInv
<1> HIDE DEF i
<1>4. Books(p.msg, Reassemble(p.msg, i, p), Past(p.msg))
  BY <1>1, <1>2, <1>3, ReassembleBooks, ZenonT(60)
<1> QED BY ZenonT(60), <1>1, <1>4 DEF AfterData, i

LEMMA ReceiveSubset ==
  ASSUME NEW p, NEW sends, Receive(p, sends)
  PROVE  net' \subseteq net \cup sends
  BY DEF Receive

LEMMA SenderSteps ==
  ASSUME AlignedConfig, TypeInv, AlignedInv, [Next]_vars,
         \/ \E m \in Msgs : Send(m) \/ SendFails(m) \/ SendReturns(m) \/ SendTimesOut(m)
                            \/ Confirm(m) \/ Finish(m)
         \/ \E p \in net : HandleGrant(p) \/ HandleResend(p)
         \/ \E reaped, idle \in SUBSET Msgs : SenderTick(reaped, idle)
  PROVE  AlignedInv'
<1> USE DEF receiverVars
<1>0. /\ \A m \in Msgs : Past(m) => Past(m)'
      /\ out \in [Msgs -> OutMsg \cup {NoMsg}]
      /\ api \in [Msgs -> {"idle", "sending", "sent", "timedout", "failed"}]
      /\ net \subseteq Packets
      /\ \A m \in Msgs : out[m] # NoMsg => api[m] # "idle" /\ SenderAligned(m, out[m])
      /\ UnscheduledBytes \in Nat
  BY ZenonT(60), PastStable, HomaConstants DEF TypeInv, TypeOK, AlignedInv
<1>1. UNCHANGED incoming
  BY DEF Send, SendFails, SendReturns, SendTimesOut, Confirm, Finish, HandleGrant, HandleResend, SenderTick
<1>2. \A m \in Msgs : incoming'[m] # NoMsg =>
        Books(m, incoming'[m], Past(m)') /\ ~Complete(m, incoming'[m])
  BY ZenonT(60), <1>0, <1>1, KeepIncoming
<1> DEFINE SendersOk == \A m \in Msgs : out'[m] # NoMsg => api'[m] # "idle" /\ SenderAligned(m, out'[m])
           WireOk(sends) == /\ net' \subseteq net \cup sends
                            /\ \A q \in sends : PacketAligned(q, Past(q.msg)')
<1>3. ASSUME SendersOk, NEW sends, WireOk(sends) PROVE AlignedInv'
  <2>1. \A p \in net' : PacketAligned(p, Past(p.msg)')
    BY ZenonT(60), <1>0, <1>3, KeepPackets
  <2> QED BY ZenonT(60), <1>2, <1>3, <2>1 DEF AlignedInv
<1>quiet. ASSUME SendersOk, net' \subseteq net PROVE AlignedInv'
  <2> DEFINE none == {}
  <2>0. net' \subseteq net \cup none /\ \A q \in none : PacketAligned(q, Past(q.msg)')
    BY <1>quiet
  <2> HIDE DEF none
  <2>1. \A p \in net' : PacketAligned(p, Past(p.msg)')
    BY ZenonT(60), <1>0, <2>0, KeepPackets
  <2> QED BY ZenonT(60), <1>2, <1>quiet, <2>1 DEF AlignedInv
<1>4. ASSUME NEW m \in Msgs, Send(m) \/ SendFails(m) PROVE AlignedInv'
  <2> DEFINE o == Pump(m, Started(m), UnscheduledBytes)
             sends == PumpSends(m, Started(m), UnscheduledBytes)
  <2>1. /\ Started(m) \in OutMsg /\ Started(m).next_send = 0 /\ ~Started(m).done
        /\ 0 <= MsgLen[m] /\ UnscheduledBytes > 0 /\ Aligned(0)
    <3>1. Started(m) \in OutMsg /\ Started(m).next_send = 0 /\ ~Started(m).done
      BY ZenonT(60), StartedType DEF Started
    <3>2. 0 <= MsgLen[m]
      BY HomaConstants
    <3>3. Aligned(0)
      <4>1. 0 * PacketSize = 0
        BY HomaConstants
      <4> QED BY <4>1, MultipleAligned
    <3>4. UnscheduledBytes > 0
      BY ZenonT(60) DEF AlignedConfig
    <3> QED BY ZenonT(60), <3>1, <3>2, <3>3, <3>4
  <2>2. SenderAligned(m, o)
    BY ZenonT(60), <1>0, <2>1, PumpAligned
  <2>3. \A q \in sends : q.msg = m /\ PacketAligned(q, o.done)
    BY ZenonT(60), <1>0, <2>1, PumpSendsAligned
  <2>4. /\ out' = [out EXCEPT ![m] = o] /\ api'[m] # "idle"
        /\ \A k \in Msgs \ {m} : api'[k] = api[k]
        /\ net' \subseteq net \cup sends
    BY ZenonT(60), <1>0, <1>4 DEF Send, SendFails
  <2> HIDE DEF o, sends
  <2>5. o.done => Past(m)'
    BY <1>0, <2>4 DEF Past
  <2>6. \A q \in sends : PacketAligned(q, Past(q.msg)')
    BY SMTT(30), <2>3, <2>5, PacketMono
  <2>7. SendersOk
    BY ZenonT(60), <1>0, <2>2, <2>4
  <2> QED BY ZenonT(60), <1>3, <2>4, <2>6, <2>7
<1>5. ASSUME NEW m \in Msgs, SendReturns(m) \/ SendTimesOut(m) \/ Finish(m) PROVE AlignedInv'
  <2>1. net' \subseteq net
    BY ZenonT(60), <1>5 DEF SendReturns, SendTimesOut, Finish
  <2>2. SendersOk
    BY ZenonT(60), <1>0, <1>5 DEF SendReturns, SendTimesOut, Finish
  <2> QED BY ZenonT(60), <1>quiet, <2>1, <2>2
<1>6. ASSUME NEW m \in Msgs, Confirm(m) PROVE AlignedInv'
  <2>1. net' \subseteq net
    BY <1>6 DEF Confirm
  <2>2. out[m] \in OutMsg /\ SenderAligned(m, out[m])
    BY <1>0, <1>6 DEF Confirm
  <2>3. SenderAligned(m, [out[m] EXCEPT !.retransmit = FALSE])
    BY <2>2 DEF SenderAligned, OutMsg
  <2>4. SendersOk
    BY ZenonT(60), <1>0, <1>6, <2>3 DEF Confirm
  <2> QED BY <1>quiet, <2>1, <2>4
<1>7. ASSUME NEW p \in net, HandleGrant(p) PROVE AlignedInv'
  <2> DEFINE m == p.msg
             limit == MinOf(p.off, MsgLen[m])
             o == Pump(m, out[m], limit)
             sends == PumpSends(m, out[m], limit)
  <2>1. m \in Msgs /\ limit \in Nat /\ MsgLen[m] \in Nat
    BY ZenonT(60), <1>0, HomaConstants DEF Packets, MinOf
  <2>2. CASE out[m] = NoMsg \/ limit <= out[m].granted_to
    <3>1. Receive(p, {}) /\ UNCHANGED out /\ UNCHANGED api
      BY <1>7, <2>2 DEF HandleGrant
    <3>2. net' \subseteq net
      BY ZenonT(60), <3>1 DEF Receive
    <3>3. SendersOk
      BY SMTT(30), <1>0, <3>1
    <3> QED BY ZenonT(60), <1>quiet, <3>2, <3>3
  <2>3. CASE ~(out[m] = NoMsg \/ limit <= out[m].granted_to)
    <3>1. /\ Receive(p, sends) /\ out' = [out EXCEPT ![m] = o] /\ UNCHANGED api
      BY ZenonT(60), <1>0, <1>7, <2>1, <2>3 DEF HandleGrant
    <3>2. /\ out[m] \in OutMsg /\ SenderAligned(m, out[m]) /\ api[m] # "idle"
          /\ out[m].next_send <= MsgLen[m]
          /\ out[m].done \/ (Aligned(out[m].next_send) /\ out[m].next_send > 0)
      BY ZenonT(60), <1>0, <2>1, <2>3 DEF SenderAligned
    <3>3. SenderAligned(m, o)
      <4>1. CASE out[m].done
        BY ZenonT(60), <3>2, <4>1 DEF Pump
      <4>2. CASE ~out[m].done
        BY ZenonT(60), <2>1, <3>2, <4>2, PumpAligned
      <4> QED BY ZenonT(60), <4>1, <4>2
    <3>4. \A q \in sends : q.msg = m /\ PacketAligned(q, o.done)
      BY ZenonT(60), <2>1, <3>2, PumpSendsAligned
    <3>5. net' \subseteq net \cup sends
      BY ZenonT(60), <3>1, ReceiveSubset
    <3> HIDE DEF o, sends
    <3>6. o.done => Past(m)'
      BY ZenonT(60), <1>0, <2>1, <3>1, <3>2 DEF Past
    <3>7. \A q \in sends : PacketAligned(q, Past(q.msg)')
      <4> SUFFICES ASSUME NEW q \in sends PROVE PacketAligned(q, Past(q.msg)')
        OBVIOUS
      <4>1. q.msg = m /\ PacketAligned(q, o.done)
        BY ZenonT(60), <3>4
      <4>2. PacketAligned(q, Past(m)')
        BY ZenonT(60), <3>6, <4>1 DEF PacketAligned
      <4> QED BY ZenonT(60), <4>1, <4>2
    <3>8. SendersOk
      BY ZenonT(60), <1>0, <3>1, <3>2, <3>3
    <3> QED BY ZenonT(60), <1>3, <3>5, <3>7, <3>8
  <2> QED BY ZenonT(60), <2>2, <2>3
<1>8. ASSUME NEW p \in net, HandleResend(p) PROVE AlignedInv'
  <2> DEFINE m     == p.msg
             start == MinOf(p.off, MsgLen[m])
             end   == MinOf(start + p.len, MsgLen[m])
             o     == ResendAccount(m, out[m], end)
             sends == ResendSends(m, start, end)
  <2>1. m \in Msgs /\ p \in Packets /\ p.type = "RESEND"
    BY ZenonT(60), <1>0, <1>8 DEF Packets, HandleResend
  <2>2. CASE out[m] = NoMsg
    <3>1. Receive(p, {}) /\ UNCHANGED out /\ UNCHANGED api
      BY ZenonT(60), <1>8, <2>2 DEF HandleResend
    <3>2. net' \subseteq net
      BY <3>1 DEF Receive
    <3>3. SendersOk
      BY <1>0, <3>1
    <3> QED BY ZenonT(60), <1>quiet, <3>2, <3>3
  <2>3. CASE out[m] # NoMsg
    <3>1. Receive(p, sends) /\ out' = [out EXCEPT ![m] = o] /\ UNCHANGED api
      BY ZenonT(60), <1>0, <1>8, <2>1, <2>3 DEF HandleResend
    <3>2. out[m] \in OutMsg /\ SenderAligned(m, out[m]) /\ api[m] # "idle"
      BY ZenonT(60), <1>0, <2>1, <2>3
    <3>3. PacketAligned(p, out[m].done)
      <4>1. PacketAligned(p, Past(m))
        BY ZenonT(60) DEF AlignedInv
      <4>2. Past(m) => out[m].done
        BY SMTT(30), <2>3 DEF Past
      <4> QED BY SMT, SMTT(30), <4>1, <4>2, PacketMono
    <3>4. SenderAligned(m, o) /\ \A q \in sends : q.msg = m /\ PacketAligned(q, o.done)
      BY ZenonT(60), <2>1, <3>2, <3>3, ResendAligned
    <3>5. net' \subseteq net \cup sends
      BY ZenonT(60), <3>1, ReceiveSubset
    <3> HIDE DEF o, sends
    <3>6. o.done => Past(m)'
      BY ZenonT(60), SMT, SMTT(30), <1>0, <2>1, <3>1, <3>2 DEF Past
    <3>7. \A q \in sends : PacketAligned(q, Past(q.msg)')
      BY SMTT(30), <3>4, <3>6, PacketMono
    <3>8. SendersOk
      BY ZenonT(60), <1>0, <3>1, <3>2, <3>4
    <3> QED BY ZenonT(60), <1>3, <3>5, <3>7, <3>8
  <2> QED BY ZenonT(60), <2>2, <2>3
<1>9. ASSUME NEW reaped \in SUBSET Msgs, NEW idle \in SUBSET Msgs, SenderTick(reaped, idle)
      PROVE  AlignedInv'
  <2> DEFINE sends == UNION { TickSends(m, out[m]) : m \in idle }
  <2>1. /\ \A m \in idle : m \in Msgs /\ out[m] # NoMsg
        /\ out' = [m \in Msgs |-> IF m \in reaped THEN NoMsg ELSE out[m]]
        /\ net' = net \cup sends /\ UNCHANGED api
    BY ZenonT(60), <1>9 DEF SenderTick
  <2>2. ASSUME NEW q \in sends PROVE PacketAligned(q, Past(q.msg)')
    <3>1. PICK m \in idle : q \in TickSends(m, out[m])
      BY ZenonT(60)
    <3>2. m \in Msgs /\ out[m] \in OutMsg /\ SenderAligned(m, out[m]) /\ api[m] # "idle"
      BY <1>0, <2>1
    <3>3. q.msg = m /\ PacketAligned(q, out[m].done)
      BY ZenonT(60), <3>1, <3>2, TickAligned
    <3>4. out[m].done => Past(m)'
      BY ZenonT(60), <1>0, <3>2 DEF Past
    <3> QED BY <3>3, <3>4, PacketMono
  <2>3. SendersOk
    BY ZenonT(60), <1>0, <2>1
  <2> HIDE DEF sends
  <2> QED BY ZenonT(60), <1>3, <2>1, <2>2, <2>3
<1> QED BY ZenonT(60), <1>4, <1>5, <1>6, <1>7, <1>8, <1>9

LEMMA ReceiverSteps ==
  ASSUME AlignedConfig, TypeInv, AlignedInv, DeliveredWhole,
         \/ \E p \in net : HandleBusy(p) \/ HandleData(p) \/ Lose(p)
         \/ \E idle, stalled \in SUBSET Msgs : ReceiverTick(idle, stalled)
  PROVE  AlignedInv' /\ DeliveredWhole'
<1>0. /\ incoming \in [Msgs -> InMsg \cup {NoMsg}] /\ net \subseteq Packets /\ TypeOK
      /\ delivered \in [Msgs -> [times : 0 .. 2, whole : BOOLEAN]]
      /\ \A m \in Msgs : incoming[m] # NoMsg =>
           Books(m, incoming[m], Past(m)) /\ ~Complete(m, incoming[m])
  BY SMTT(30) DEF TypeInv, TypeOK, AlignedInv
<1>1. UNCHANGED senderVars
  BY ZenonT(60) DEF HandleBusy, HandleData, HandleDataRefused, HandleDataDelivers, HandleDataNew,
         HandleDataMore, Lose, ReceiverTick
<1> DEFINE TableOk == \A m \in Msgs : incoming'[m] # NoMsg =>
                        Books(m, incoming'[m], Past(m)) /\ ~Complete(m, incoming'[m])
           SendsOk(sends) == /\ net' \subseteq net \cup sends
                             /\ \A q \in sends : PacketAligned(q, Past(q.msg))
<1>2. ASSUME TableOk, NEW sends, SendsOk(sends) PROVE AlignedInv'
  <2>1. out' = out /\ api' = api
    BY ZenonT(60), <1>1 DEF senderVars
  <2>2. ASSUME NEW p \in net' PROVE PacketAligned(p, Past(p.msg))
    BY ZenonT(60), <1>2, <2>2 DEF AlignedInv
  <2> QED BY ZenonT(60), <1>2, <2>1, <2>2 DEF AlignedInv, Past
<1>3. ASSUME UNCHANGED delivered PROVE DeliveredWhole'
  BY ZenonT(60), <1>3 DEF DeliveredWhole
<1>4. ASSUME NEW p \in net, Lose(p) \/ HandleBusy(p) \/ HandleDataRefused(p)
      PROVE  AlignedInv' /\ DeliveredWhole'
  <2> DEFINE sends == {Busy(p.msg)}
  <2>1. UNCHANGED incoming /\ UNCHANGED delivered
    BY ZenonT(60), <1>4 DEF Lose, HandleBusy, HandleDataRefused, receiverVars
  <2>2. net' \subseteq net \cup sends
    BY ZenonT(60), <1>4 DEF Lose, HandleBusy, HandleDataRefused, Receive
  <2>3. \A q \in sends : PacketAligned(q, Past(q.msg))
    <3> SUFFICES ASSUME NEW q \in sends PROVE PacketAligned(q, Past(q.msg))
      BY ZenonT(60)
    <3>1. q = Busy(p.msg)
      BY ZenonT(60)
    <3>2. \A m : Busy(m).type = "BUSY"
      BY ONLY SMT, Zenon, SMTT(60), ZenonT(60), TRUE DEF Busy
    <3>3. q.type = "BUSY"
      BY ZenonT(60), <3>1, <3>2
    <3> QED BY ZenonT(60), <3>3 DEF PacketAligned
  <2>4. TableOk
    BY ZenonT(60), <1>0, <2>1
  <2> HIDE DEF sends
  <2> QED BY ZenonT(60), <1>2, <1>3, <2>1, <2>2, <2>3, <2>4
<1>5. ASSUME NEW p \in net, HandleDataDelivers(p) PROVE AlignedInv' /\ DeliveredWhole'
  <2> DEFINE m   == p.msg
             inc == [incoming EXCEPT ![m] = NoMsg]
  <2>1. /\ p.type = "DATA" /\ Complete(m, AfterData(p)) /\ Deliver(m, AfterData(p))
    BY ZenonT(60), <1>5 DEF HandleDataDelivers, Accepts
  <2>2. m \in Msgs /\ AfterData(p) \in InMsg /\ Books(m, AfterData(p), Past(m))
    BY ZenonT(60), <2>1, AfterDataBooks
  <2>3. inc \in [Msgs -> InMsg \cup {NoMsg}]
        /\ \A k \in Msgs : inc[k] # NoMsg => Books(k, inc[k], Past(k)) /\ ~Complete(k, inc[k])
    <3>1. inc \in [Msgs -> InMsg \cup {NoMsg}] /\ \A k \in Msgs : inc[k] = IF k = m THEN NoMsg ELSE incoming[k]
      BY ZenonT(60), <1>0, <2>2
    <3> QED BY ZenonT(60), <1>0, <3>1
  <2>4. PICK g \in GrantSets(inc) : Schedule(inc, g) /\ Receive(p, ScheduleSends(inc, g))
    BY ZenonT(60), <1>5 DEF HandleDataDelivers
  <2>5. AfterData(p).buf = Bytes(m)
    BY ZenonT(60), <2>1, <2>2, CompleteIsWhole
  <2>6. DeliveredWhole'
    <3>1. delivered'[m].whole
      BY ZenonT(60), <1>0, <2>1, <2>2, <2>5 DEF Deliver, DeliveredWhole
    <3>2. \A k \in Msgs \ {m} : delivered'[k] = delivered[k]
      BY ZenonT(60), <1>0, <2>1 DEF Deliver
    <3> QED BY SMTT(90), <3>1, <3>2 DEF DeliveredWhole
  <2> HIDE DEF inc
  <2>7. TableOk /\ \A q \in ScheduleSends(inc, g) : \A past : PacketAligned(q, past)
    BY ZenonT(60), <2>3, <2>4, ScheduleKeeps
  <2>8. net' \subseteq net \cup ScheduleSends(inc, g)
    BY ZenonT(60), <2>4, ReceiveSubset
  <2> QED BY ZenonT(60), <1>2, <2>6, <2>7, <2>8
<1>6. ASSUME NEW p \in net, HandleDataNew(p) PROVE AlignedInv' /\ DeliveredWhole'
  <2> DEFINE m   == p.msg
             inc == [incoming EXCEPT ![m] = AfterData(p)]
  <2>1. p.type = "DATA" /\ ~Complete(m, AfterData(p)) /\ UNCHANGED delivered
    BY SMTT(30), <1>6 DEF HandleDataNew, Accepts
  <2>2. m \in Msgs /\ AfterData(p) \in InMsg /\ Books(m, AfterData(p), Past(m))
    BY ZenonT(60), <2>1, AfterDataBooks
  <2>3. inc \in [Msgs -> InMsg \cup {NoMsg}]
        /\ \A k \in Msgs : inc[k] # NoMsg => Books(k, inc[k], Past(k)) /\ ~Complete(k, inc[k])
    BY SMTT(30), <1>0, <2>1, <2>2
  <2>4. PICK g \in GrantSets(inc) : Schedule(inc, g) /\ Receive(p, ScheduleSends(inc, g))
    BY ZenonT(60), <1>6 DEF HandleDataNew
  <2> HIDE DEF inc
  <2>5. TableOk /\ \A q \in ScheduleSends(inc, g) : \A past : PacketAligned(q, past)
    BY ZenonT(60), <2>3, <2>4, ScheduleKeeps
  <2>6. net' \subseteq net \cup ScheduleSends(inc, g)
    BY <2>4, ReceiveSubset
  <2> QED BY ZenonT(60), <1>2, <1>3, <2>1, <2>5, <2>6
<1>7. ASSUME NEW p \in net, HandleDataMore(p) PROVE AlignedInv' /\ DeliveredWhole'
  <2> DEFINE m     == p.msg
             i     == AfterData(p)
             moved == IF m \in granting THEN IssueGrant(m, i, FALSE) ELSE i
             sends == IF m \in granting THEN IssueSends(m, i, FALSE) ELSE {}
             inc   == [incoming EXCEPT ![m] = moved]
  <2>1. p.type = "DATA" /\ ~Complete(m, i) /\ UNCHANGED delivered
    BY ZenonT(60), <1>7 DEF HandleDataMore, Accepts
  <2>2. m \in Msgs /\ i \in InMsg /\ Books(m, i, Past(m))
    BY SMTT(30), <2>1, AfterDataBooks
  <2>3. moved \in InMsg /\ Books(m, moved, Past(m)) /\ ~Complete(m, moved)
    <3> HIDE DEF i
    <3>1. /\ Books(m, IssueGrant(m, i, FALSE), Past(m)) /\ ~Complete(m, IssueGrant(m, i, FALSE))
          /\ IssueGrant(m, i, FALSE) \in InMsg
      BY <2>1, <2>2, GrantBooks, IssueGrantType, ZenonT(60)
    <3> QED BY ZenonT(60), <2>1, <2>2, <3>1
  <2>4. \A q \in sends : \A past : PacketAligned(q, past)
    BY ZenonT(60), IssueSendsAligned
  <2>5. inc \in [Msgs -> InMsg \cup {NoMsg}]
        /\ \A k \in Msgs : inc[k] # NoMsg => Books(k, inc[k], Past(k)) /\ ~Complete(k, inc[k])
    <3> HIDE DEF moved
    <3> QED BY <1>0, <2>2, <2>3
  <2>6. \/ incoming' = inc /\ Receive(p, sends)
        \/ \E g \in GrantSets(inc) : Schedule(inc, g) /\ Receive(p, sends \cup ScheduleSends(inc, g))
    BY ZenonT(60), <1>7 DEF HandleDataMore
  <2> HIDE DEF inc, sends
  <2>7. CASE incoming' = inc /\ Receive(p, sends)
    <3>1. TableOk /\ net' \subseteq net \cup sends
      BY <2>5, <2>7, ReceiveSubset
    <3> QED BY ZenonT(60), <1>2, <1>3, <2>1, <2>4, <3>1
  <2>8. CASE \E g \in GrantSets(inc) : Schedule(inc, g) /\ Receive(p, sends \cup ScheduleSends(inc, g))
    <3>1. PICK g \in GrantSets(inc) : Schedule(inc, g) /\ Receive(p, sends \cup ScheduleSends(inc, g))
      BY SMTT(30), <2>8
    <3> DEFINE all == sends \cup ScheduleSends(inc, g)
    <3>2. TableOk /\ \A q \in ScheduleSends(inc, g) : \A past : PacketAligned(q, past)
      BY ZenonT(60), <2>5, <3>1, ScheduleKeeps
    <3>3. \A q \in all : PacketAligned(q, Past(q.msg))
      BY SMTT(30), <2>4, <3>2
    <3>4. net' \subseteq net \cup all
      BY ZenonT(60), <3>1, ReceiveSubset
    <3> HIDE DEF all
    <3> QED BY ZenonT(60), <1>2, <1>3, <2>1, <3>2, <3>3, <3>4
  <2> QED BY SMTT(90), <2>6, <2>7, <2>8
<1>8. ASSUME NEW idle \in SUBSET Msgs, NEW stalled \in SUBSET Msgs, ReceiverTick(idle, stalled)
      PROVE  AlignedInv' /\ DeliveredWhole'
  <2> DEFINE inc == [m \in Msgs |-> TickedIn(m, idle, stalled)]
             asks == UNION { TickInSends(m, stalled) : m \in idle }
  <2>1. idle \in SUBSET InFlight /\ UNCHANGED delivered
    BY ZenonT(60), <1>8 DEF ReceiverTick
  <2>2. inc \in [Msgs -> InMsg \cup {NoMsg}]
    BY ZenonT(60), <1>0, <2>1, TickedInType
  <2>3. ASSUME NEW m \in Msgs, inc[m] # NoMsg PROVE Books(m, inc[m], Past(m)) /\ ~Complete(m, inc[m])
    <3> DEFINE i == incoming[m]
    <3>1. i # NoMsg /\ i \in InMsg /\ Books(m, i, Past(m)) /\ ~Complete(m, i)
      BY ZenonT(60), <1>0, <2>1, <2>3 DEF TickedIn, InFlight
    <3>2. inc[m] \in { i, [i EXCEPT !.unanswered = @ + 1], IssueGrant(m, i, TRUE) }
      BY ZenonT(60), <2>3 DEF TickedIn
    <3> HIDE DEF i
    <3>3. Books(m, IssueGrant(m, i, TRUE), Past(m)) /\ ~Complete(m, IssueGrant(m, i, TRUE))
      BY <3>1, GrantBooks, ZenonT(60)
    <3> DEFINE j == [i EXCEPT !.unanswered = @ + 1]
    <3>4. /\ j.buf = i.buf /\ j.received = i.received /\ j.received_bytes = i.received_bytes
          /\ j.granted_to = i.granted_to
      BY ZenonT(60), <3>1 DEF InMsg
    <3> HIDE DEF j
    <3>5. Books(m, j, Past(m)) /\ ~Complete(m, j)
      BY ZenonT(60), <3>1, <3>4 DEF Books, Complete
    <3> HIDE DEF inc
    <3> QED BY ZenonT(60), <3>1, <3>2, <3>3, <3>5 DEF j
  <2>4. ASSUME NEW q \in asks PROVE PacketAligned(q, Past(q.msg))
    <3>1. PICK m \in idle : q \in TickInSends(m, stalled)
      OBVIOUS
    <3>2. m \in Msgs /\ incoming[m] # NoMsg /\ Books(m, incoming[m], Past(m))
      BY ZenonT(60), <1>0, <2>1 DEF InFlight
    <3> DEFINE past == Past(m)
    <3> HIDE DEF past
    <3>3. q.msg = m /\ PacketAligned(q, past)
      BY ZenonT(60), SMT, SMTT(30), <1>0, <3>1, <3>2, TickInAligned DEF past
    <3> QED BY <3>3 DEF past
  <2>5. PICK g \in GrantSets(inc) : Schedule(inc, g) /\ net' = net \cup ScheduleSends(inc, g) \cup asks
    BY SMTT(30), <1>8 DEF ReceiverTick
  <2> HIDE DEF inc, asks
  <2>6. TableOk /\ \A q \in ScheduleSends(inc, g) : \A past : PacketAligned(q, past)
    BY ZenonT(60), <2>2, <2>3, <2>5, ScheduleKeeps
  <2> DEFINE all == ScheduleSends(inc, g) \cup asks
  <2>7. net' \subseteq net \cup all /\ \A q \in all : PacketAligned(q, Past(q.msg))
    BY ZenonT(60), <2>4, <2>5, <2>6
  <2> HIDE DEF all
  <2> QED BY ZenonT(60), <1>2, <1>3, <2>1, <2>6, <2>7
<1> QED BY ZenonT(60), <1>4, <1>5, <1>6, <1>7, <1>8 DEF HandleData

LEMMA AlignedStep ==
  ASSUME AlignedConfig, TypeInv, AlignedInv, DeliveredWhole, [Next]_vars
  PROVE  AlignedInv' /\ DeliveredWhole'
<1>1. CASE \/ \E m \in Msgs : Send(m) \/ SendFails(m) \/ SendReturns(m) \/ SendTimesOut(m)
                              \/ Confirm(m) \/ Finish(m)
           \/ \E p \in net : HandleGrant(p) \/ HandleResend(p)
           \/ \E reaped, idle \in SUBSET Msgs : SenderTick(reaped, idle)
  <2>1. UNCHANGED delivered
    BY <1>1 DEF Send, SendFails, SendReturns, SendTimesOut, Confirm, Finish, HandleGrant,
                HandleResend, SenderTick, receiverVars
  <2> QED BY ZenonT(60), <1>1, <2>1, SenderSteps DEF DeliveredWhole
<1>2. CASE \/ \E p \in net : HandleBusy(p) \/ HandleData(p) \/ Lose(p)
           \/ \E idle, stalled \in SUBSET Msgs : ReceiverTick(idle, stalled)
  BY ZenonT(60), <1>2, ReceiverSteps
<1>3. CASE UNCHANGED vars
  BY ZenonT(60), <1>3 DEF vars, AlignedInv, DeliveredWhole, Past
<1> QED BY ZenonT(60), <1>1, <1>2, <1>3 DEF Next, HandlePacket

LEMMA AlignedInit ==
  ASSUME Init
  PROVE  AlignedInv /\ DeliveredWhole
  BY DEF Init, AlignedInv, DeliveredWhole

LEMMA AlignedInvariant ==
  ASSUME AlignedConfig
  PROVE  Spec => [](TypeInv /\ AlignedInv /\ DeliveredWhole)
<1>1. Init => TypeInv /\ AlignedInv /\ DeliveredWhole
  BY AlignedInit DEF Init, TypeInv, TypeOK
<1>2. TypeInv /\ AlignedInv /\ DeliveredWhole /\ [Next]_vars
        => (TypeInv /\ AlignedInv /\ DeliveredWhole)'
  BY TypeStep, AlignedStep
<1> QED BY <1>1, <1>2, PTL DEF Spec

-----------------------------------------------------------------------------
(* send_to's promise that the peer gets all of a message or nothing: in an
   aligned configuration whatever is delivered has every byte. *)
THEOREM WholeWhenAligned ==
  ASSUME AlignedConfig
  PROVE  Spec => []DeliveredWhole
  BY AlignedInvariant, PTL

(* pump, RESEND and the probes cut the same chunks: every DATA datagram on
   the wire lies inside the chunk whose bit it sets. *)
THEOREM WireWhenAligned ==
  ASSUME AlignedConfig
  PROVE  Spec => []AlignedWire
<1>1. TypeInv /\ AlignedInv => AlignedWire
  <2> SUFFICES ASSUME TypeInv, AlignedInv, NEW p \in net, p.type = "DATA",
                      NEW b \in p.off .. p.off + p.len - 1
               PROVE  b \div PacketSize = p.off \div PacketSize
    BY ZenonT(60) DEF AlignedWire
  <2>1. p \in Packets /\ p.msg \in Msgs /\ PacketAligned(p, Past(p.msg))
    BY DEF TypeInv, TypeOK, Packets, AlignedInv
  <2> DEFINE past == Past(p.msg)
             m == p.msg
  <2> HIDE DEF past
  <2>2. /\ p.off .. p.off + p.len - 1 \subseteq Bytes(m)
        /\ \A c \in Bytes(m) : c \in p.off .. p.off + p.len - 1 <=> c \div PacketSize = p.off \div PacketSize
    BY ZenonT(60), <2>1, PacketCovers DEF past
  <2> QED BY <2>2
<1> QED BY <1>1, AlignedInvariant, PTL

(* A message in reassembly always lacks a chunk that tick can ask for again:
   the reassembly cannot end up with every bit set and bytes missing. *)
THEOREM OpenWhenAligned ==
  ASSUME AlignedConfig
  PROVE  Spec => []ReassemblyOpen
<1>1. TypeInv /\ AlignedInv => ReassemblyOpen
  <2> SUFFICES ASSUME TypeInv, AlignedInv, NEW m \in Msgs, incoming[m] # NoMsg,
                      Missing(m, incoming[m]) = {}
               PROVE  FALSE
    BY ZenonT(60) DEF ReassemblyOpen
  <2>1. /\ incoming[m] \in InMsg /\ Books(m, incoming[m], Past(m))
        /\ ~Complete(m, incoming[m])
    BY DEF TypeInv, TypeOK, AlignedInv
  <2> DEFINE past == Past(m)
  <2> HIDE DEF past
  <2>2. Books(m, incoming[m], past)
    BY <2>1 DEF past
  <2> QED BY <2>1, <2>2, NothingMissingIsComplete
<1> QED BY <1>1, AlignedInvariant, PTL

-----------------------------------------------------------------------------
(* The completed cache. *)
OnceInv ==
  /\ \A j, k \in 1 .. Len(completed) : completed[j] = completed[k] => j = k
  /\ \A m \in Msgs : /\ delivered[m].times = IF Remembered(m) THEN 1 ELSE 0
                     /\ Remembered(m) => incoming[m] = NoMsg

RoomForAll == IsFiniteSet(Msgs) /\ CompletedCache >= Cardinality(Msgs)

(* The completed cache: a new key fits, and nothing is evicted. *)
LEMMA RememberNew ==
  ASSUME RoomForAll, completed \in Seq(Msgs), OnceInv, NEW m \in Msgs, ~Remembered(m),
         completed' = Remember(m)
  PROVE  /\ \A j, k \in 1 .. Len(completed') : completed'[j] = completed'[k] => j = k
         /\ \A k \in Msgs : Remembered(k)' <=> Remembered(k) \/ k = m
<1> DEFINE all == Append(completed, m)
           n == Len(completed)
<1>1. /\ all \in Seq(Msgs) /\ Len(all) = n + 1 /\ n \in Nat
      /\ \A i \in 1 .. n : all[i] = completed[i]
      /\ all[n + 1] = m
  OBVIOUS
<1>2. \A i \in 1 .. n : completed[i] # m
  BY DEF Remembered
<1>3. \A j, k \in 1 .. n : completed[j] = completed[k] => j = k
  BY DEF OnceInv
<1> HIDE DEF all, n
<1>4. \A i \in 1 .. n + 1 : i \in 1 .. n \/ i = n + 1
  BY <1>1
<1>5. \A j, k \in 1 .. n + 1 : all[j] = all[k] => j = k
  BY ZenonT(60), <1>1, <1>2, <1>3, <1>4
<1>6. Len(all) <= Cardinality(Msgs)
  <2>1. all \in [1 .. n + 1 -> Msgs] /\ DOMAIN all = 1 .. n + 1
    BY <1>1
  <2>2. all \in Injection(1 .. n + 1, Msgs)
    BY <1>5, <2>1 DEF Injection, IsInjective
  <2>3. Cardinality(1 .. n + 1) <= Cardinality(Msgs)
    BY <2>2, FS_Injection, ZenonT(60) DEF RoomForAll
  <2>4. Cardinality(1 .. n + 1) = n + 1
    <3>1. 1 \in Int /\ n + 1 \in Int /\ ~(1 > n + 1) /\ n + 1 - 1 + 1 = n + 1
      BY <1>1
    <3> QED
      BY SMT, SMTT(30), <3>1, FS_Interval
  <2> QED
    BY <1>1, <2>3, <2>4
<1>7. completed' = all
  <2>1. Cardinality(Msgs) \in Nat
    BY ZenonT(60), FS_CardinalityType DEF RoomForAll
  <2>2. ~(Len(all) > CompletedCache)
    BY SMT, SMTT(30), <1>1, <1>6, <2>1, HomaConstants DEF RoomForAll
  <2> QED
    BY <2>2 DEF Remember, all
<1>8. Len(completed') = n + 1
  BY ZenonT(60), <1>1, <1>7
<1>9. ASSUME NEW k \in Msgs PROVE Remembered(k)' <=> Remembered(k) \/ k = m
  <2>1. Remembered(k)' <=> \E i \in 1 .. n + 1 : k = all[i]
    BY ZenonT(60), <1>7, <1>8 DEF Remembered
  <2>2. Remembered(k) <=> \E i \in 1 .. n : k = completed[i]
    BY DEF Remembered, n
  <2>3. 1 .. n \subseteq 1 .. n + 1 /\ n + 1 \in 1 .. n + 1
    BY <1>1
  <2> QED
    BY ZenonT(60), <1>1, <1>4, <2>1, <2>2, <2>3
<1> QED
  BY ZenonT(60), <1>5, <1>7, <1>8, <1>9

(* A scheduling round opens and closes no reassembly, and the granting set
   that it leaves names only messages in reassembly. *)
LEMMA ScheduleLive ==
  ASSUME NEW inc \in [Msgs -> InMsg \cup {NoMsg}], NEW g \in GrantSets(inc), Schedule(inc, g)
  PROVE  /\ \A m \in Msgs : incoming'[m] = NoMsg <=> inc[m] = NoMsg
         /\ granting' \subseteq InFlight'
<1>1. g \subseteq Msgs /\ \A m \in g : inc[m] # NoMsg /\ inc[m] \in InMsg
  BY GrantSetsType DEF NeedsGrant
<1>2. \A m \in g : IssueGrant(m, inc[m], FALSE) # NoMsg
  <2> SUFFICES ASSUME NEW m \in g PROVE IssueGrant(m, inc[m], FALSE) # NoMsg
    BY ZenonT(60)
  <2>1. IssueGrant(m, inc[m], FALSE) \in InMsg
    BY ZenonT(60), <1>1, IssueGrantType
  <2> QED
    BY ZenonT(60), <2>1, NoMsgAssumption
<1>3. \A m \in Msgs : incoming'[m] = IF m \in g THEN IssueGrant(m, inc[m], FALSE) ELSE inc[m]
  BY DEF Schedule
<1>4. \A m \in Msgs : incoming'[m] = NoMsg <=> inc[m] = NoMsg
  BY ZenonT(60), <1>1, <1>2, <1>3
<1>5. granting' = g
  BY DEF Schedule
<1> QED
  BY ZenonT(60), <1>1, <1>4, <1>5 DEF InFlight

(* Every receiver step keeps the granting set within the messages in
   reassembly: HandleDataMore leaves the set alone but closes nothing. *)
LEMMA LiveStep ==
  ASSUME TypeOK, GrantingIsLive, [Next]_vars
  PROVE  GrantingIsLive'
<1> USE DEF receiverVars, senderVars
<1>0. incoming \in [Msgs -> InMsg \cup {NoMsg}]
  BY DEF TypeOK
<1>1. CASE UNCHANGED <<incoming, granting>>
  BY ZenonT(60), <1>1 DEF GrantingIsLive, InFlight
<1>2. ASSUME NEW inc \in [Msgs -> InMsg \cup {NoMsg}], NEW g \in GrantSets(inc), Schedule(inc, g)
      PROVE  GrantingIsLive'
  BY ZenonT(60), <1>2, ScheduleLive DEF GrantingIsLive
<1>3. ASSUME NEW p \in net, HandleData(p) PROVE GrantingIsLive'
  <2> DEFINE m == p.msg
             i == AfterData(p)
             moved == IF m \in granting THEN IssueGrant(m, i, FALSE) ELSE i
  <2>1. m \in Msgs /\ i \in InMsg
    BY AfterDataType
  <2>2. moved \in InMsg /\ moved # NoMsg
    BY ZenonT(60), <2>1, IssueGrantType, NoMsgAssumption
  <2> HIDE DEF moved, i, m
  <2>3. /\ [incoming EXCEPT ![m] = NoMsg] \in [Msgs -> InMsg \cup {NoMsg}]
        /\ [incoming EXCEPT ![m] = i] \in [Msgs -> InMsg \cup {NoMsg}]
        /\ [incoming EXCEPT ![m] = moved] \in [Msgs -> InMsg \cup {NoMsg}]
    BY ZenonT(60), <1>0, <2>1, <2>2
  <2>4. CASE HandleDataRefused(p)
    BY <1>1, <2>4 DEF HandleDataRefused
  <2>5. CASE HandleDataDelivers(p)
    <3>1. PICK g \in GrantSets([incoming EXCEPT ![m] = NoMsg]) : Schedule([incoming EXCEPT ![m] = NoMsg], g)
      BY <2>5 DEF HandleDataDelivers, m
    <3> QED
      BY ZenonT(60), <1>2, <2>3, <3>1
  <2>6. CASE HandleDataNew(p)
    <3>1. PICK g \in GrantSets([incoming EXCEPT ![m] = i]) : Schedule([incoming EXCEPT ![m] = i], g)
      BY <2>6 DEF HandleDataNew, m, i
    <3> QED
      BY ZenonT(60), <1>2, <2>3, <3>1
  <2>7. CASE HandleDataMore(p)
    <3>1. \/ incoming' = [incoming EXCEPT ![m] = moved] /\ UNCHANGED granting
          \/ \E g \in GrantSets([incoming EXCEPT ![m] = moved]) : Schedule([incoming EXCEPT ![m] = moved], g)
      BY ZenonT(60), <2>7 DEF HandleDataMore, m, i, moved
    <3>2. CASE incoming' = [incoming EXCEPT ![m] = moved] /\ UNCHANGED granting
      BY ZenonT(60), <1>0, <2>1, <2>2, <3>2 DEF GrantingIsLive, InFlight
    <3> QED
      BY ZenonT(60), <1>2, <2>3, <3>1, <3>2
  <2> QED
    BY ZenonT(60), <1>3, <2>4, <2>5, <2>6, <2>7 DEF HandleData
<1>4. ASSUME NEW idle \in SUBSET Msgs, NEW stalled \in SUBSET Msgs, ReceiverTick(idle, stalled)
      PROVE  GrantingIsLive'
  <2> DEFINE inc == [m \in Msgs |-> TickedIn(m, idle, stalled)]
  <2>1. inc \in [Msgs -> InMsg \cup {NoMsg}]
    <3>1. idle \subseteq InFlight
      BY <1>4 DEF ReceiverTick
    <3> QED
      BY ZenonT(60), <3>1, TickedInType
  <2>2. \E g \in GrantSets(inc) : Schedule(inc, g)
    BY ZenonT(60), <1>4 DEF ReceiverTick
  <2> HIDE DEF inc
  <2> QED
    BY ZenonT(60), <1>2, <2>1, <2>2
<1>5. ASSUME NEW p \in net, HandleGrant(p) \/ HandleResend(p) \/ HandleBusy(p) \/ Lose(p)
      PROVE  GrantingIsLive'
  BY ZenonT(60), <1>1, <1>5 DEF HandleGrant, HandleResend, HandleBusy, Lose
<1>6. ASSUME NEW reaped \in SUBSET Msgs, NEW idle \in SUBSET Msgs, SenderTick(reaped, idle)
      PROVE  GrantingIsLive'
  BY <1>1, <1>6 DEF SenderTick
<1>7. ASSUME NEW m \in Msgs, Send(m) \/ SendFails(m) \/ SendReturns(m) \/ SendTimesOut(m) \/ Confirm(m) \/ Finish(m)
      PROVE  GrantingIsLive'
  BY ZenonT(60), <1>1, <1>7 DEF Send, SendFails, SendReturns, SendTimesOut, Confirm, Finish
<1>8. CASE UNCHANGED vars
  BY <1>1, <1>8 DEF vars
<1> QED
  BY ZenonT(60), SMT, SMTT(30), <1>3, <1>4, <1>5, <1>6, <1>7, <1>8 DEF Next, HandlePacket

(* The overcommitment of the GRANT scheduler is never held by a dead entry,
   for every number of messages and every configuration. *)
THEOREM GrantingStaysLive == Spec => []GrantingIsLive
<1>1. Init => GrantingIsLive
  BY DEF Init, GrantingIsLive
<1>2. TypeOK /\ GrantingIsLive /\ [Next]_vars => GrantingIsLive'
  BY Zenon, SMT, SMTT(30), ZenonT(60), LiveStep
<1> QED
  BY <1>1, <1>2, TypeCorrect, PTL DEF Spec
-----------------------------------------------------------------------------
(* Delivered once. *)

(* A step delivers one message that was not remembered and closes its
   reassembly, or delivers nothing and opens none that is remembered. *)
LEMMA DeliveryCases ==
  ASSUME TypeOK, [Next]_vars
  PROVE  \/ /\ UNCHANGED <<completed, delivered>>
            /\ \A m \in Msgs : Remembered(m) /\ incoming[m] = NoMsg => incoming'[m] = NoMsg
         \/ /\ UNCHANGED api
            /\ \E p \in net : /\ p.type = "DATA" /\ p.msg \in Msgs /\ ~Remembered(p.msg)
                              /\ Deliver(p.msg, AfterData(p))
                              /\ incoming'[p.msg] = NoMsg
                              /\ \A k \in Msgs : incoming[k] = NoMsg => incoming'[k] = NoMsg
<1> USE DEF receiverVars, senderVars
<1> DEFINE Quiet == /\ UNCHANGED <<completed, delivered>>
                    /\ \A m \in Msgs : Remembered(m) /\ incoming[m] = NoMsg => incoming'[m] = NoMsg
           Delivers(p) == /\ UNCHANGED api
                          /\ p.type = "DATA" /\ p.msg \in Msgs /\ ~Remembered(p.msg)
                          /\ Deliver(p.msg, AfterData(p))
                          /\ incoming'[p.msg] = NoMsg
                          /\ \A k \in Msgs : incoming[k] = NoMsg => incoming'[k] = NoMsg
<1> SUFFICES Quiet \/ \E p \in net : Delivers(p)
  OBVIOUS
<1>0. incoming \in [Msgs -> InMsg \cup {NoMsg}]
  BY DEF TypeOK
<1>1. CASE UNCHANGED <<completed, delivered, incoming>>
  BY ZenonT(60), <1>1
<1>3. ASSUME NEW p \in net, HandleData(p) PROVE Quiet \/ Delivers(p)
  <2> DEFINE m == p.msg
             i == AfterData(p)
             moved == IF m \in granting THEN IssueGrant(m, i, FALSE) ELSE i
             inc(j) == [incoming EXCEPT ![m] = j]
  <2>1. m \in Msgs /\ i \in InMsg
    BY AfterDataType
  <2>2. moved \in InMsg
    BY ZenonT(60), <2>1, IssueGrantType
  <2>3. \A j \in InMsg \cup {NoMsg} : /\ inc(j) \in [Msgs -> InMsg \cup {NoMsg}]
                                      /\ inc(j)[m] = j /\ \A k \in Msgs \ {m} : inc(j)[k] = incoming[k]
    BY ZenonT(60), <1>0, <2>1
  <2>4. CASE HandleDataRefused(p)
    BY ZenonT(60), <1>1, <2>4 DEF HandleDataRefused
  <2>5. CASE HandleDataDelivers(p)
    <3>1. /\ Accepts(p) /\ Deliver(m, i) /\ UNCHANGED api
          /\ \E g \in GrantSets(inc(NoMsg)) : Schedule(inc(NoMsg), g)
      BY ZenonT(60), <2>5 DEF HandleDataDelivers
    <3>2. p.type = "DATA" /\ ~Remembered(m)
      BY ZenonT(60), <3>1 DEF Accepts
    <3> HIDE DEF inc, i, m, moved
    <3>3. \A k \in Msgs : incoming'[k] = NoMsg <=> inc(NoMsg)[k] = NoMsg
      BY ZenonT(60), <2>3, <3>1, ScheduleLive
    <3>4. incoming'[m] = NoMsg /\ \A k \in Msgs : incoming[k] = NoMsg => incoming'[k] = NoMsg
      BY ZenonT(60), <2>1, <2>3, <3>3
    <3> QED
      BY ZenonT(60), <2>1, <3>1, <3>2, <3>4 DEF m, i
  <2>6. CASE HandleDataNew(p) \/ HandleDataMore(p)
    <3>1. Accepts(p) /\ UNCHANGED <<completed, delivered>>
      BY ZenonT(60), <2>6 DEF HandleDataNew, HandleDataMore
    <3>2. ~Remembered(m)
      BY <3>1 DEF Accepts
    <3>3. PICK j \in InMsg : \/ incoming' = inc(j)
                             \/ \E g \in GrantSets(inc(j)) : Schedule(inc(j), g)
      BY ZenonT(60), <2>1, <2>2, <2>6 DEF HandleDataNew, HandleDataMore
    <3> HIDE DEF inc, i, m, moved
    <3>4. \A k \in Msgs : incoming'[k] = NoMsg <=> inc(j)[k] = NoMsg
      BY ZenonT(60), <2>3, <3>3, ScheduleLive
    <3> QED
      BY SMT, SMTT(30), ZenonT(60), <2>3, <3>1, <3>2, <3>4
  <2> QED
    BY Zenon, SMT, SMTT(30), ZenonT(60), <1>3, <2>4, <2>5, <2>6 DEF HandleData
<1>4. ASSUME NEW idle \in SUBSET Msgs, NEW stalled \in SUBSET Msgs, ReceiverTick(idle, stalled)
      PROVE  Quiet
  <2> DEFINE inc == [m \in Msgs |-> TickedIn(m, idle, stalled)]
  <2>0. idle \subseteq InFlight /\ UNCHANGED <<completed, delivered>>
    BY <1>4 DEF ReceiverTick
  <2>1. inc \in [Msgs -> InMsg \cup {NoMsg}]
    BY ZenonT(60), <2>0, TickedInType
  <2>2. \E g \in GrantSets(inc) : Schedule(inc, g)
    BY <1>4 DEF ReceiverTick
  <2>3. \A m \in Msgs : incoming[m] = NoMsg => inc[m] = NoMsg
    BY ZenonT(60), <2>0 DEF InFlight, TickedIn
  <2> HIDE DEF inc
  <2>4. \A m \in Msgs : incoming'[m] = NoMsg <=> inc[m] = NoMsg
    BY Zenon, SMT, SMTT(30), ZenonT(60), <2>1, <2>2, ScheduleLive
  <2> QED
    BY Zenon, SMT, SMTT(30), ZenonT(60), <2>0, <2>3, <2>4
<1>5. ASSUME NEW p \in net, HandleGrant(p) \/ HandleResend(p) \/ HandleBusy(p) \/ Lose(p)
      PROVE  Quiet
  BY ZenonT(60), SMT, SMTT(30), <1>1, <1>5 DEF HandleGrant, HandleResend, HandleBusy, Lose
<1>6. ASSUME NEW reaped \in SUBSET Msgs, NEW idle \in SUBSET Msgs, SenderTick(reaped, idle)
      PROVE  Quiet
  BY <1>1, <1>6 DEF SenderTick
<1>7. ASSUME NEW m \in Msgs, Send(m) \/ SendFails(m) \/ SendReturns(m) \/ SendTimesOut(m) \/ Confirm(m) \/ Finish(m)
      PROVE  Quiet
  BY Zenon, SMT, SMTT(30), ZenonT(60), <1>1, <1>7 DEF Send, SendFails, SendReturns, SendTimesOut, Confirm, Finish
<1>8. CASE UNCHANGED vars
  BY ZenonT(60), <1>1, <1>8 DEF vars
<1> QED
  BY ZenonT(60), SMT, SMTT(30), <1>3, <1>4, <1>5, <1>6, <1>7, <1>8 DEF Next, HandlePacket

LEMMA DeliverOnce ==
  ASSUME delivered \in [Msgs -> [times : 0 .. 2, whole : BOOLEAN]], NEW m \in Msgs, NEW i, Deliver(m, i),
         delivered[m].times = 0
  PROVE  delivered'[m].times = 1 /\ \A k \in Msgs \ {m} : delivered'[k] = delivered[k]
<1> DEFINE d == delivered[m]
           n == MinOf(d.times + 1, 2)
           e == [times |-> n, whole |-> d.whole /\ i.buf = Bytes(m)]
<1>1. n = 1
  BY DEF MinOf
<1>2. delivered' = [delivered EXCEPT ![m] = e]
  BY ZenonT(60) DEF Deliver
<1>3. e.times = n
  BY ZenonT(60)
<1> HIDE DEF e, n, d
<1> QED
  BY ZenonT(60), <1>1, <1>2, <1>3

LEMMA OnceStep ==
  ASSUME RoomForAll, TypeOK, OnceInv, [Next]_vars
  PROVE  OnceInv'
<1>0. completed \in Seq(Msgs) /\ delivered \in [Msgs -> [times : 0 .. 2, whole : BOOLEAN]]
  BY ZenonT(60) DEF TypeOK
<1>1. CASE /\ UNCHANGED <<completed, delivered>>
           /\ \A m \in Msgs : Remembered(m) /\ incoming[m] = NoMsg => incoming'[m] = NoMsg
  BY ZenonT(60), <1>1 DEF OnceInv, Remembered
<1>2. ASSUME NEW p \in net, p.msg \in Msgs, ~Remembered(p.msg), Deliver(p.msg, AfterData(p)),
             incoming'[p.msg] = NoMsg, \A k \in Msgs : incoming[k] = NoMsg => incoming'[k] = NoMsg
      PROVE  OnceInv'
  <2> DEFINE m == p.msg
  <2>1. completed' = Remember(m)
    BY ZenonT(60), <1>2 DEF Deliver
  <2>2. /\ \A j, k \in 1 .. Len(completed') : completed'[j] = completed'[k] => j = k
        /\ \A k \in Msgs : Remembered(k)' <=> Remembered(k) \/ k = m
    BY Zenon, SMT, SMTT(30), ZenonT(60), <1>0, <1>2, <2>1, RememberNew
  <2>3. /\ delivered[m].times = 0
        /\ \A k \in Msgs : delivered[k].times = IF Remembered(k) THEN 1 ELSE 0
        /\ \A k \in Msgs : Remembered(k) => incoming[k] = NoMsg
    BY ZenonT(60), <1>2 DEF OnceInv
  <2>4. delivered'[m].times = 1 /\ \A k \in Msgs \ {m} : delivered'[k] = delivered[k]
    BY ZenonT(60), <1>0, <1>2, <2>3, DeliverOnce
  <2> HIDE DEF m
  <2>5. ASSUME NEW k \in Msgs
        PROVE  /\ delivered'[k].times = IF Remembered(k)' THEN 1 ELSE 0
               /\ Remembered(k)' => incoming'[k] = NoMsg
    BY ZenonT(60), SMT, SMTT(30), <1>2, <2>2, <2>3, <2>4 DEF m
  <2> QED
    BY ZenonT(60), <2>2, <2>5 DEF OnceInv
<1> QED
  BY ZenonT(60), <1>1, <1>2, DeliveryCases

LEMMA OnceInvariant ==
  ASSUME RoomForAll
  PROVE  Spec => [](TypeOK /\ OnceInv)
<1>1. Init => OnceInv
  BY DEF Init, OnceInv, Remembered
<1>2. TypeOK /\ OnceInv /\ [Next]_vars => OnceInv'
  BY OnceStep
<1> QED
  BY <1>1, <1>2, TypeCorrect, PTL DEF Spec

(* recv returns a message at most once, whatever is repeated, late or
   reordered, if the cache of completed keys holds as many as there are
   messages. *)
THEOREM OnceWhileRemembered ==
  ASSUME IsFiniteSet(Msgs)
  PROVE  Spec => []DeliveredOnce
<1>1. CASE CompletedCache >= Cardinality(Msgs)
  <2>1. OnceInv => DeliveredOnce
    BY DEF OnceInv, DeliveredOnce
  <2> QED
    BY <1>1, <2>1, OnceInvariant, PTL DEF RoomForAll
<1>2. CASE ~(CompletedCache >= Cardinality(Msgs))
  <2>1. DeliveredOnce
    BY ZenonT(60), SMT, SMTT(30), <1>2 DEF DeliveredOnce
  <2> QED
    BY <2>1, PTL
<1> QED
  BY <1>1, <1>2

(* confirm may discard the sender's copy: of a delivered message nothing is
   being reassembled any more. *)
THEOREM ClosedWhileRemembered ==
  ASSUME IsFiniteSet(Msgs)
  PROVE  Spec => []ConfirmedIsClosed
<1>1. CASE CompletedCache >= Cardinality(Msgs)
  <2>1. OnceInv => ConfirmedIsClosed
    BY DEF OnceInv, ConfirmedIsClosed
  <2> QED
    BY <1>1, <2>1, OnceInvariant, PTL DEF RoomForAll
<1>2. CASE ~(CompletedCache >= Cardinality(Msgs))
  <2>1. ConfirmedIsClosed
    BY ZenonT(60), <1>2 DEF ConfirmedIsClosed
  <2> QED
    BY <2>1, PTL
<1> QED
  BY <1>1, <1>2
-----------------------------------------------------------------------------
(* Refinement. *)

(* Only a message that some thread has called send_to for has a sender entry
   or a DATA packet on the wire. *)
SentInv ==
  /\ \A m \in Msgs : out[m] # NoMsg => api[m] # "idle"
  /\ \A p \in net : p.type = "DATA" => api[p.msg] # "idle"

(* Packets name the message they were cut from; the receiver sends no DATA. *)
LEMMA SendsName ==
  /\ \A m, o, limit : \A q \in PumpSends(m, o, limit) : q.msg = m
  /\ \A m, a, b : \A q \in ResendSends(m, a, b) : q.msg = m
  /\ \A m, o : \A q \in TickSends(m, o) : q.msg = m
  /\ \A m, i, force : \A q \in IssueSends(m, i, force) : q.type # "DATA"
  /\ \A m, stalled : \A q \in TickInSends(m, stalled) : q.type # "DATA"
  /\ \A inc, g : \A q \in ScheduleSends(inc, g) : q.type # "DATA"
<1>1. /\ \A m, a, b : Data(m, a, b).msg = m
      /\ \A m, a : Grant(m, a).type # "DATA"
      /\ \A m, a, b : Resend(m, a, b).type # "DATA"
  BY ZenonT(60) DEF Data, Grant, Resend
<1>2. \A m, b : ChunkAt(m, b).msg = m
  BY ZenonT(60), <1>1 DEF ChunkAt
<1>3. \A m, o, limit : \A q \in PumpSends(m, o, limit) : q.msg = m
  BY <1>1 DEF PumpSends
<1>4. \A m, a, b : \A q \in ResendSends(m, a, b) : q.msg = m
  BY ZenonT(60), <1>2 DEF ResendSends
<1>5. \A m, o : \A q \in TickSends(m, o) : q.msg = m
  BY SMT, SMTT(30), ZenonT(60), <1>1, <1>2 DEF TickSends
<1>6. \A m, i, force : \A q \in IssueSends(m, i, force) : q.type # "DATA"
  BY <1>1 DEF IssueSends
<1>7. \A m, stalled : \A q \in TickInSends(m, stalled) : q.type # "DATA"
  <2> SUFFICES ASSUME NEW m, NEW stalled, NEW q \in TickInSends(m, stalled) PROVE q.type # "DATA"
    BY ZenonT(60)
  <2>1. CASE AsksResend(m)
    <3>1. q = Resend(m, FirstMissing(m, incoming[m]),
                     MinOf(incoming[m].granted_to - FirstMissing(m, incoming[m]), GrantIncrement))
      BY <2>1 DEF TickInSends
    <3> QED
      BY ZenonT(60), SMT, SMTT(30), <1>1, <3>1
  <2>2. CASE ~AsksResend(m)
    <3>1. q \in IssueSends(m, incoming[m], TRUE)
      BY ZenonT(60), <2>2 DEF TickInSends
    <3> QED
      BY ZenonT(60), <1>6, <3>1
  <2> QED
    BY <2>1, <2>2
<1>8. \A inc, g : \A q \in ScheduleSends(inc, g) : q.type # "DATA"
  BY ZenonT(60), <1>6 DEF ScheduleSends
<1> QED
  BY ZenonT(60), SMT, SMTT(30), <1>3, <1>4, <1>5, <1>6, <1>7, <1>8

LEMMA SentStep ==
  ASSUME TypeOK, SentInv, [Next]_vars
  PROVE  SentInv'
<1> USE DEF receiverVars, senderVars
<1>0. /\ out \in [Msgs -> OutMsg \cup {NoMsg}]
      /\ api \in [Msgs -> {"idle", "sending", "sent", "timedout", "failed"}]
      /\ \A p \in net : p.msg \in Msgs
  BY ZenonT(60) DEF TypeOK, Packets
(* What the receiver sends, and what it takes from the network. *)
<1>1. ASSUME NEW sends, net' \subseteq net \cup sends, UNCHANGED senderVars, \A q \in sends : q.type # "DATA"
      PROVE  SentInv'
  BY ZenonT(60), <1>1 DEF SentInv
(* What the sender sends for a message it has an entry for. *)
<1>2. ASSUME NEW sends, net' \subseteq net \cup sends, UNCHANGED api,
             \A m \in Msgs : out'[m] # NoMsg => out[m] # NoMsg,
             \A q \in sends : q.msg \in Msgs /\ out[q.msg] # NoMsg
      PROVE  SentInv'
  BY ZenonT(60), <1>2 DEF SentInv
<1>3. ASSUME NEW m \in Msgs, Send(m) \/ SendFails(m) PROVE SentInv'
  <2>1. /\ net' \subseteq net \cup PumpSends(m, Started(m), UnscheduledBytes)
        /\ api'[m] # "idle" /\ \A k \in Msgs \ {m} : api'[k] = api[k] /\ out'[k] = out[k]
    BY Zenon, SMT, SMTT(30), ZenonT(60), <1>0, <1>3 DEF Send, SendFails
  <2>2. \A q \in net' : q \in net \/ q.msg = m
    BY ZenonT(60), <2>1, SendsName
  <2> QED
    BY Zenon, SMT, SMTT(30), ZenonT(60), <1>0, <2>1, <2>2 DEF SentInv
<1>4. ASSUME NEW m \in Msgs, SendReturns(m) \/ SendTimesOut(m) PROVE SentInv'
  BY ZenonT(60), <1>0, <1>4 DEF SendReturns, SendTimesOut, SentInv
<1>5. ASSUME NEW m \in Msgs, Confirm(m) \/ Finish(m) PROVE SentInv'
  <2>1. /\ UNCHANGED <<api, net>>
        /\ \A k \in Msgs : out'[k] # NoMsg => out[k] # NoMsg
    BY Zenon, SMT, SMTT(30), ZenonT(60), <1>0, <1>5 DEF Confirm, Finish
  <2> QED
    BY <2>1 DEF SentInv
<1>6. ASSUME NEW p \in net, HandleGrant(p) PROVE SentInv'
  <2> DEFINE limit == MinOf(p.off, MsgLen[p.msg])
             sends == PumpSends(p.msg, out[p.msg], limit)
  <2>1. \/ Receive(p, {}) /\ UNCHANGED senderVars
        \/ /\ out[p.msg] # NoMsg /\ Receive(p, sends) /\ UNCHANGED api
           /\ out' = [out EXCEPT ![p.msg] = Pump(p.msg, out[p.msg], limit)]
    BY Zenon, SMT, SMTT(30), ZenonT(60), <1>0, <1>6 DEF HandleGrant
  <2>2. \A q \in sends : q.msg = p.msg
    BY ZenonT(60), SendsName
  <2> HIDE DEF sends
  <2>3. CASE Receive(p, {}) /\ UNCHANGED senderVars
    <3> DEFINE none == {}
    <3>1. \A q \in none : q.type # "DATA"
      BY ZenonT(60)
    <3>2. Receive(p, none) /\ UNCHANGED senderVars
      BY ZenonT(60), <2>3
    <3> HIDE DEF none
    <3>3. net' \subseteq net \cup none
      BY ZenonT(60), <3>2, ReceiveSubset
    <3> QED
      BY ZenonT(60), <1>1, <3>1, <3>2, <3>3
  <2>4. CASE /\ out[p.msg] # NoMsg /\ Receive(p, sends) /\ UNCHANGED api
             /\ out' = [out EXCEPT ![p.msg] = Pump(p.msg, out[p.msg], limit)]
    <3>1. net' \subseteq net \cup sends
      BY ZenonT(60), <2>4, ReceiveSubset
    <3>2. \A m \in Msgs : out'[m] # NoMsg => out[m] # NoMsg
      BY ZenonT(60), <1>0, <2>4
    <3>3. \A q \in sends : q.msg \in Msgs /\ out[q.msg] # NoMsg
      BY ZenonT(60), <1>0, <2>2, <2>4
    <3> QED
      BY ZenonT(60), <1>2, <2>4, <3>1, <3>2, <3>3
  <2> QED
    BY ZenonT(60), <2>1, <2>3, <2>4
<1>7. ASSUME NEW p \in net, HandleResend(p) PROVE SentInv'
  <2> DEFINE start == MinOf(p.off, MsgLen[p.msg])
             end == MinOf(start + p.len, MsgLen[p.msg])
             sends == ResendSends(p.msg, start, end)
  <2>1. \/ Receive(p, {}) /\ UNCHANGED senderVars
        \/ /\ out[p.msg] # NoMsg /\ Receive(p, sends) /\ UNCHANGED api
           /\ out' = [out EXCEPT ![p.msg] = ResendAccount(p.msg, out[p.msg], end)]
    BY ZenonT(60), <1>0, <1>7 DEF HandleResend
  <2>2. \A q \in sends : q.msg = p.msg
    BY ZenonT(60), SMT, SMTT(30), SendsName
  <2> HIDE DEF sends
  <2>3. CASE Receive(p, {}) /\ UNCHANGED senderVars
    <3> DEFINE none == {}
    <3>1. \A q \in none : q.type # "DATA"
      BY ZenonT(60)
    <3>2. Receive(p, none) /\ UNCHANGED senderVars
      BY ZenonT(60), <2>3
    <3> HIDE DEF none
    <3>3. net' \subseteq net \cup none
      BY ZenonT(60), <3>2, ReceiveSubset
    <3> QED
      BY ZenonT(60), <1>1, <3>1, <3>2, <3>3
  <2>4. CASE /\ out[p.msg] # NoMsg /\ Receive(p, sends) /\ UNCHANGED api
             /\ out' = [out EXCEPT ![p.msg] = ResendAccount(p.msg, out[p.msg], end)]
    <3>1. net' \subseteq net \cup sends
      BY ZenonT(60), <2>4, ReceiveSubset
    <3>2. \A m \in Msgs : out'[m] # NoMsg => out[m] # NoMsg
      BY ZenonT(60), <1>0, <2>4
    <3>3. \A q \in sends : q.msg \in Msgs /\ out[q.msg] # NoMsg
      BY ZenonT(60), <1>0, <2>2, <2>4
    <3> QED
      BY ZenonT(60), <1>2, <2>4, <3>1, <3>2, <3>3
  <2> QED
    BY ZenonT(60), <2>1, <2>3, <2>4
<1>8. ASSUME NEW reaped \in SUBSET Msgs, NEW idle \in SUBSET Msgs, SenderTick(reaped, idle)
      PROVE  SentInv'
  <2> DEFINE sends == UNION { TickSends(m, out[m]) : m \in idle }
  <2>1. /\ \A m \in idle : m \in Msgs /\ out[m] # NoMsg
        /\ UNCHANGED api /\ net' = net \cup sends
        /\ \A m \in Msgs : out'[m] # NoMsg => out[m] # NoMsg
    BY ZenonT(60), SMT, SMTT(30), <1>8 DEF SenderTick
  <2>2. \A q \in sends : \E m \in idle : q.msg = m
    <3> SUFFICES ASSUME NEW q \in sends PROVE \E m \in idle : q.msg = m
      OBVIOUS
    <3>1. PICK m \in idle : q \in TickSends(m, out[m])
      BY ZenonT(60)
    <3>2. q.msg = m
      BY ZenonT(60), <3>1, SendsName
    <3> QED
      BY ZenonT(60), <3>2
  <2> HIDE DEF sends
  <2> QED
    BY Zenon, SMT, SMTT(30), ZenonT(60), <1>2, <2>1, <2>2
<1>9. ASSUME NEW p \in net, HandleBusy(p) \/ Lose(p) PROVE SentInv'
  <2>1. net' \subseteq net \cup {} /\ UNCHANGED senderVars
    BY <1>9, ReceiveSubset DEF HandleBusy, Lose
  <2> QED
    BY <2>1 DEF SentInv
<1>10. ASSUME NEW p \in net, HandleData(p) PROVE SentInv'
  <2>1. UNCHANGED senderVars
    BY ZenonT(60), <1>10 DEF HandleData, HandleDataRefused, HandleDataDelivers, HandleDataNew, HandleDataMore
  <2>2. \A m : Busy(m).type # "DATA"
    BY DEF Busy
  <2>3. \E sends : Receive(p, sends) /\ \A q \in sends : q.type # "DATA"
    <3>1. CASE HandleDataRefused(p)
      BY SMT, SMTT(30), ZenonT(60), <2>2, <3>1 DEF HandleDataRefused
    <3>2. CASE HandleDataDelivers(p)
      BY SMT, SMTT(30), <3>2, SendsName DEF HandleDataDelivers
    <3>3. CASE HandleDataNew(p)
      BY SMTT(30), <3>3, SendsName DEF HandleDataNew
    <3>4. CASE HandleDataMore(p)
      <4> DEFINE mine == IF p.msg \in granting THEN IssueSends(p.msg, AfterData(p), FALSE) ELSE {}
      <4>1. \A q \in mine : q.type # "DATA"
        BY ZenonT(60), SendsName
      <4>2. \/ Receive(p, mine)
            \/ \E inc, g : Receive(p, mine \cup ScheduleSends(inc, g))
        BY ZenonT(60), <3>4 DEF HandleDataMore
      <4> HIDE DEF mine
      <4>3. CASE Receive(p, mine)
        BY <4>1, <4>3
      <4>4. ASSUME NEW inc, NEW g, Receive(p, mine \cup ScheduleSends(inc, g))
            PROVE  \E sends : Receive(p, sends) /\ \A q \in sends : q.type # "DATA"
        <5>1. \A q \in mine \cup ScheduleSends(inc, g) : q.type # "DATA"
          BY ZenonT(60), <4>1, SendsName
        <5> QED
          BY ZenonT(60), <4>4, <5>1
      <4> QED
        BY ZenonT(60), <4>2, <4>3, <4>4
    <3> QED
      BY ZenonT(60), SMT, SMTT(30), <1>10, <3>1, <3>2, <3>3, <3>4 DEF HandleData
  <2> QED
    BY Zenon, SMT, SMTT(30), ZenonT(60), <1>1, <2>1, <2>3, ReceiveSubset
<1>11. ASSUME NEW idle \in SUBSET Msgs, NEW stalled \in SUBSET Msgs, ReceiverTick(idle, stalled)
       PROVE  SentInv'
  <2> DEFINE asks == UNION { TickInSends(m, stalled) : m \in idle }
  <2>1. UNCHANGED senderVars
    BY <1>11 DEF ReceiverTick
  <2>2. \E inc, g : net' = net \cup ScheduleSends(inc, g) \cup asks
    BY Zenon, SMT, SMTT(30), ZenonT(60), <1>11 DEF ReceiverTick
  <2>3. \A q \in asks : q.type # "DATA"
    BY ZenonT(60), SMT, SMTT(30), SendsName
  <2> HIDE DEF asks
  <2>4. \A q \in net' : q \in net \/ q.type # "DATA"
    BY Zenon, SMT, SMTT(30), ZenonT(60), <2>2, <2>3, SendsName
  <2> QED
    BY ZenonT(60), <2>1, <2>4 DEF SentInv
<1>12. CASE UNCHANGED vars
  BY <1>12 DEF vars, SentInv
<1> QED
  BY <1>3, <1>4, <1>5, <1>6, <1>7, <1>8, <1>9, <1>10, <1>11, <1>12 DEF Next, HandlePacket

LEMMA SentInvariant == Spec => [](TypeOK /\ SentInv)
<1>1. Init => SentInv
  BY ZenonT(60) DEF Init, SentInv
<1>2. TypeOK /\ SentInv /\ [Next]_vars => SentInv'
  BY SentStep
<1> QED
  BY <1>1, <1>2, TypeCorrect, PTL DEF Spec

(* The calls of send_to, seen in a step. *)
LEMMA SendCases ==
  ASSUME TypeOK, [Next]_vars
  PROVE  \/ \A m \in Msgs : api[m] = "idle" <=> api'[m] = "idle"
         \/ /\ UNCHANGED delivered
            /\ \E m \in Msgs : /\ api[m] = "idle" /\ api'[m] # "idle"
                               /\ \A k \in Msgs \ {m} : api'[k] = api[k]
<1> USE DEF receiverVars, senderVars
<1>0. api \in [Msgs -> {"idle", "sending", "sent", "timedout", "failed"}]
  BY ZenonT(60) DEF TypeOK
<1>1. ASSUME NEW m \in Msgs, Send(m) \/ SendFails(m)
      PROVE  /\ UNCHANGED delivered
             /\ api[m] = "idle" /\ api'[m] # "idle" /\ \A k \in Msgs \ {m} : api'[k] = api[k]
  BY ZenonT(60), <1>0, <1>1 DEF Send, SendFails
<1>2. ASSUME NEW m \in Msgs, SendReturns(m) \/ SendTimesOut(m)
      PROVE  \A k \in Msgs : api[k] = "idle" <=> api'[k] = "idle"
  BY SMTT(30), <1>0, <1>2 DEF SendReturns, SendTimesOut
<1>3. ASSUME NEW m \in Msgs, Confirm(m) \/ Finish(m) PROVE UNCHANGED api
  BY SMTT(90), <1>3 DEF Confirm, Finish
<1>4. ASSUME NEW p \in net, HandlePacket(p) \/ Lose(p) PROVE UNCHANGED api
  BY ZenonT(60), <1>4 DEF HandlePacket, HandleGrant, HandleResend, HandleBusy, HandleData, HandleDataRefused,
              HandleDataDelivers, HandleDataNew, HandleDataMore, Lose
<1>5. ASSUME NEW a \in SUBSET Msgs, NEW b \in SUBSET Msgs, SenderTick(a, b) \/ ReceiverTick(a, b)
      PROVE  UNCHANGED api
  BY <1>5 DEF SenderTick, ReceiverTick
<1>6. UNCHANGED vars => UNCHANGED api
  BY DEF vars
<1> QED
  BY ZenonT(60), SMT, SMTT(30), <1>1, <1>2, <1>3, <1>4, <1>5, <1>6 DEF Next

(* The transport implements HomaDelivery, on which the RPC layer is built, in
   every aligned configuration whose cache of completed keys has room: seen
   from send_to and recv a step sends one message, receives one message that
   was sent, whole and for the first time, or changes nothing. *)
THEOREM DeliveryImplemented ==
  ASSUME AlignedConfig, IsFiniteSet(Msgs), CompletedCache >= Cardinality(Msgs)
  PROVE  Spec => ImplementsDelivery
<1> DEFINE Sent == { m \in Msgs : api[m] # "idle" }
           Received == [m \in Msgs |-> Outcome(delivered[m])]
           Inv == TypeOK /\ SentInv /\ OnceInv /\ DeliveredWhole
<1>1. Init => Delivery!Init
  <2> SUFFICES ASSUME Init PROVE Delivery!Init
    OBVIOUS
  <2>1. \A m \in Msgs : api[m] = "idle" /\ delivered[m].times = 0
    BY ZenonT(60) DEF Init
  <2>2. \A m \in Msgs : Outcome(delivered[m]) = "nothing"
    BY ZenonT(60), <2>1 DEF Outcome
  <2>3. Sent = {} /\ Received = [m \in Msgs |-> "nothing"]
    BY ZenonT(60), <2>1, <2>2
  <2> QED
    BY ZenonT(60), <2>3 DEF Delivery!Init
<1>2. Inv /\ Inv' /\ [Next]_vars => [Delivery!Next]_<<Sent, Received>>
  <2> SUFFICES ASSUME Inv, Inv', [Next]_vars
               PROVE  Delivery!Next \/ UNCHANGED <<Sent, Received>>
    BY Zenon, SMT, SMTT(30), ZenonT(60)
  <2>1. CASE UNCHANGED delivered /\ \A m \in Msgs : api[m] = "idle" <=> api'[m] = "idle"
    BY SMTT(30), <2>1
  <2>2. ASSUME UNCHANGED delivered, NEW m \in Msgs, api[m] = "idle", api'[m] # "idle",
               \A k \in Msgs \ {m} : api'[k] = api[k]
        PROVE  Delivery!Next
    <3>1. Delivery!SendTo(m)
      BY Zenon, SMT, SMTT(30), ZenonT(60), <2>2 DEF Delivery!SendTo
    <3> QED
      BY Zenon, SMT, SMTT(30), ZenonT(60), <3>1 DEF Delivery!Next
  <2>3. ASSUME UNCHANGED api, NEW p \in net, p.type = "DATA", p.msg \in Msgs, ~Remembered(p.msg),
               Deliver(p.msg, AfterData(p))
        PROVE  Delivery!Next
    <3> DEFINE m == p.msg
    <3>1. m \in Sent
      BY ZenonT(60), <2>3 DEF SentInv
    <3>2. delivered \in [Msgs -> [times : 0 .. 2, whole : BOOLEAN]]
      BY Zenon, SMT, SMTT(30), ZenonT(60) DEF TypeOK
    <3>3. delivered[m].times = 0
      BY Zenon, SMT, SMTT(30), ZenonT(60), <2>3 DEF OnceInv
    <3>4. delivered'[m].times = 1 /\ \A k \in Msgs \ {m} : delivered'[k] = delivered[k]
      BY ZenonT(60), <2>3, <3>2, <3>3, DeliverOnce
    <3>5. delivered'[m].whole
      BY ZenonT(60), <2>3 DEF DeliveredWhole
    <3>6. Outcome(delivered[m]) = "nothing" /\ Outcome(delivered'[m]) = "whole"
      BY SMT, SMTT(30), ZenonT(60), <3>3, <3>4, <3>5 DEF Outcome
    <3>7. Received' = [Received EXCEPT ![m] = "whole"]
      BY ZenonT(60), <2>3, <3>4, <3>6
    <3>8. Delivery!Recv(m)
      BY ZenonT(60), <2>3, <3>1, <3>6, <3>7 DEF Delivery!Recv
    <3> QED
      BY Zenon, SMT, SMTT(30), ZenonT(60), <2>3, <3>8 DEF Delivery!Next
  <2> QED
    BY Zenon, SMT, SMTT(30), ZenonT(60), <2>1, <2>2, <2>3, SendCases, DeliveryCases
<1>3. Spec => []Inv
  BY SentInvariant, OnceInvariant, WholeWhenAligned, PTL DEF RoomForAll
<1> QED
  BY <1>1, <1>2, <1>3, PTL DEF Spec, ImplementsDelivery, Delivery!Spec

(* Everything the transport keeps, in one place: whatever the network does with
   the datagrams, with aligned windows messages are delivered whole and once,
   delivered ones are not rebuilt, and no grant slot is held by a dead one. *)
THEOREM TransportIsSafe ==
  ASSUME AlignedConfig, IsFiniteSet(Msgs)
  PROVE  Spec => []TransportSafe
<1>1. Spec => [](TypeInv /\ AlignedInv /\ DeliveredWhole)
  BY AlignedInvariant
<1>2. Spec => []AlignedWire
  BY WireWhenAligned
<1>3. Spec => []DeliveredOnce
  BY OnceWhileRemembered
<1>4. Spec => []ConfirmedIsClosed
  BY ClosedWhileRemembered
<1>5. Spec => []GrantingIsLive
  BY SMTT(30), GrantingStaysLive
<1>6. TypeInv /\ AlignedInv /\ DeliveredWhole /\ AlignedWire /\ DeliveredOnce
        /\ ConfirmedIsClosed /\ GrantingIsLive => TransportSafe
  BY DEF TypeInv, TransportSafe
<1>7. QED
  BY <1>1, <1>2, <1>3, <1>4, <1>5, <1>6, PTL

=============================================================================
