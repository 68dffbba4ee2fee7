--------------------------- MODULE HomaTransport ---------------------------
(***************************************************************************)
(* The Homa-lite message transport of crates/homa-rpc: the sender core     *)
(* (transport/sender.rs), the receiver core with its GRANT scheduler       *)
(* (transport/receiver.rs) and the blocking API around them                *)
(* (transport/mod.rs), for one host that sends and one that receives.      *)
(*                                                                         *)
(* Messages are byte ranges 0..MsgLen[m]-1 whose content at a position is *)
(* the position itself: a buffer is the set of positions written.  Clocks  *)
(* are abstracted: every "now - last >= timeout" is a free choice of the   *)
(* step that evaluates it, so timers may be arbitrarily early or late with *)
(* respect to each other.  UDP may lose, repeat, delay and reorder.        *)
(***************************************************************************)
EXTENDS Integers, FiniteSets, Sequences

CONSTANTS
  Msgs,            \* the messages of one run, one msg_id each
  MsgLen,          \* [Msgs -> Nat]: length in bytes
  Pokeable,        \* the messages sent with send_pokeable (RPC requests)
  NoMsg,           \* "no entry" in the out and incoming tables
  PacketSize,      \* packet_size
  UnscheduledBytes,\* unscheduled_bytes
  GrantIncrement,  \* grant_increment
  MaxIncoming,     \* max_incoming
  Overcommit,      \* overcommit
  MaxUnanswered,   \* MAX_UNANSWERED_RESENDS (40 in the code)
  CompletedCache,  \* COMPLETED_CACHE (4096 in the code)
  MaxMsgLen        \* MAX_MSG_LEN (16 MiB in the code)

ASSUME HomaConstants ==
  /\ MsgLen \in [Msgs -> Nat]
  /\ Pokeable \subseteq Msgs
  /\ PacketSize \in Nat \ {0}
  /\ UnscheduledBytes \in Nat /\ GrantIncrement \in Nat
  /\ MaxIncoming \in Nat /\ Overcommit \in Nat
  /\ MaxUnanswered \in Nat /\ CompletedCache \in Nat /\ MaxMsgLen \in Nat

VARIABLES
  out,        \* SenderCore.out
  api,        \* what the thread that called send_impl sees of each message
  incoming,   \* ReceiverCore.incoming
  granting,   \* ReceiverCore.granting
  completed,  \* ReceiverCore.completed_order (completed is its range)
  delivered,  \* history of Action::Deliver: how often (saturating at 2), all whole?
  net         \* datagrams in flight

vars == <<out, api, incoming, granting, completed, delivered, net>>
senderVars   == <<out, api>>
receiverVars == <<incoming, granting, completed, delivered>>

MinOf(a, b) == IF a <= b THEN a ELSE b
MaxOf(a, b) == IF a >= b THEN a ELSE b
CeilDiv(a, b) == (a + b - 1) \div b

Bytes(m)  == 0 .. MsgLen[m] - 1
Chunks(m) == 0 .. MaxOf(CeilDiv(MsgLen[m], PacketSize), 1) - 1

OutMsg == [granted_to : Nat, next_send : Nat, done : BOOLEAN, retransmit : BOOLEAN]
InMsg  == [received : SUBSET Nat, buf : SUBSET Nat, received_bytes : Nat,
           granted_to : Nat, unanswered : Nat]

(* NoMsg is no table entry. *)
ASSUME NoMsgAssumption == NoMsg \notin OutMsg \cup InMsg

Data(m, off, end)    == [type |-> "DATA", msg |-> m, off |-> off, len |-> end - off]
Grant(m, off)        == [type |-> "GRANT", msg |-> m, off |-> off, len |-> 0]
Resend(m, off, span) == [type |-> "RESEND", msg |-> m, off |-> off, len |-> span]
Busy(m)              == [type |-> "BUSY", msg |-> m, off |-> 0, len |-> 0]
Packets == [type : {"DATA", "GRANT", "RESEND", "BUSY"}, msg : Msgs, off : Nat, len : Nat]

Init ==
  /\ out       = [m \in Msgs |-> NoMsg]
  /\ api       = [m \in Msgs |-> "idle"]
  /\ incoming  = [m \in Msgs |-> NoMsg]
  /\ granting  = {}
  /\ completed = <<>>
  /\ delivered = [m \in Msgs |-> [times |-> 0, whole |-> TRUE]]
  /\ net       = {}

-----------------------------------------------------------------------------
(* Sender core. *)

(* The aligned chunk that contains an offset, as it goes on the wire. *)
ChunkAt(m, off) ==
  LET s == (off \div PacketSize) * PacketSize
  IN  Data(m, s, MinOf(s + PacketSize, MsgLen[m]))

(* pump: packets cut from next_send on until the limit is reached; the last
   one may run past the limit. *)
PumpEnd(m, o, limit) ==
  LET lim == MinOf(limit, MsgLen[m])
  IN  IF o.next_send >= lim THEN o.next_send
      ELSE MinOf(MsgLen[m], o.next_send
                          + CeilDiv(lim - o.next_send, PacketSize) * PacketSize)

Pump(m, o, limit) ==
  IF o.done THEN o
  ELSE [o EXCEPT !.next_send  = PumpEnd(m, o, limit),
                 !.granted_to = MaxOf(@, MinOf(limit, MsgLen[m])),
                 !.done       = PumpEnd(m, o, limit) >= MsgLen[m]]

PumpSends(m, o, limit) ==
  IF o.done THEN {}
  ELSE { Data(m, s, MinOf(s + PacketSize, MsgLen[m])) :
           s \in { b \in Bytes(m) : /\ b >= o.next_send
                                    /\ b < MinOf(limit, MsgLen[m])
                                    /\ (b - o.next_send) % PacketSize = 0 } }

(* send_impl up to the first wait: start or start_retransmit, then the
   packets go out (directly for a short message, through the transmit queue
   for a long one).  Only a short message keeps the retransmit flag. *)
Short(m) == MsgLen[m] <= UnscheduledBytes
Started(m) == [granted_to |-> MinOf(UnscheduledBytes, MsgLen[m]), next_send |-> 0,
               done |-> FALSE, retransmit |-> m \in Pokeable /\ Short(m)]

Send(m) ==
  /\ api[m] = "idle"
  /\ out' = [out EXCEPT ![m] = Pump(m, Started(m), UnscheduledBytes)]
  /\ net' = net \cup PumpSends(m, Started(m), UnscheduledBytes)
  /\ api' = [api EXCEPT ![m] = IF Short(m) THEN "sent" ELSE "sending"]
  /\ UNCHANGED receiverVars

(* A short message is written to the socket by the caller: an error on one
   packet returns at once and leaves the sender entry behind. *)
SendFails(m) ==
  /\ api[m] = "idle"
  /\ Short(m)
  /\ out' = [out EXCEPT ![m] = Pump(m, Started(m), UnscheduledBytes)]
  /\ \E written \in SUBSET PumpSends(m, Started(m), UnscheduledBytes) :
       /\ written # PumpSends(m, Started(m), UnscheduledBytes)
       /\ net' = net \cup written
  /\ api' = [api EXCEPT ![m] = "failed"]
  /\ UNCHANGED receiverVars

IsDone(m) == out[m] # NoMsg => out[m].done

(* The wait loop of send_impl: return once is_done, else give up on the
   deadline, which also forgets the message. *)
SendReturns(m) ==
  /\ api[m] = "sending"
  /\ IsDone(m)
  /\ api' = [api EXCEPT ![m] = "sent"]
  /\ UNCHANGED <<out, net>> /\ UNCHANGED receiverVars

SendTimesOut(m) ==
  /\ api[m] = "sending"
  /\ ~IsDone(m)
  /\ out' = [out EXCEPT ![m] = NoMsg]
  /\ api' = [api EXCEPT ![m] = "timedout"]
  /\ UNCHANGED net /\ UNCHANGED receiverVars

(* confirm: the RPC layer saw the response, so the request was delivered. *)
Confirm(m) ==
  /\ m \in Pokeable
  /\ delivered[m].times > 0
  /\ out[m] # NoMsg
  /\ out' = [out EXCEPT ![m] = IF @.done THEN NoMsg ELSE [@ EXCEPT !.retransmit = FALSE]]
  /\ UNCHANGED <<api, net>> /\ UNCHANGED receiverVars

(* finish: the RPC layer stops waiting for the response and abandons it. *)
Finish(m) ==
  /\ m \in Pokeable
  /\ api[m] = "sent"
  /\ out[m] # NoMsg
  /\ out' = [out EXCEPT ![m] = NoMsg]
  /\ UNCHANGED <<api, net>> /\ UNCHANGED receiverVars

(* A datagram is taken from the network; the network may have repeated it,
   in which case a copy stays in flight. *)
Receive(p, sends) == \E keep \in BOOLEAN :
  net' = (IF keep THEN net ELSE net \ {p}) \cup sends

HandleGrant(p) ==
  LET m == p.msg
      limit == MinOf(p.off, MsgLen[m])
      ignored == out[m] = NoMsg \/ limit <= out[m].granted_to
  IN  /\ p.type = "GRANT"
      /\ IF ignored
         THEN Receive(p, {}) /\ UNCHANGED out
         ELSE /\ Receive(p, PumpSends(m, out[m], limit))
              /\ out' = [out EXCEPT ![m] = Pump(m, @, limit)]
      /\ UNCHANGED api /\ UNCHANGED receiverVars

(* The chunks a RESEND of [start, end) puts on the wire. *)
ResendSends(m, start, end) == { ChunkAt(m, b) : b \in { x \in Bytes(m) : start <= x /\ x < end } }

(* The sender's books after a RESEND that reaches end. *)
ResendAccount(m, o, end) ==
  [o EXCEPT !.granted_to = MaxOf(@, end),
            !.next_send  = MaxOf(@, end),
            !.done       = @ \/ (o.next_send < end /\ end >= MsgLen[m])]

HandleResend(p) ==
  LET m     == p.msg
      start == MinOf(p.off, MsgLen[m])
      end   == MinOf(start + p.len, MsgLen[m])
  IN  /\ p.type = "RESEND"
      /\ IF out[m] = NoMsg
         THEN Receive(p, {}) /\ UNCHANGED out
         ELSE /\ Receive(p, ResendSends(m, start, end))
              /\ out' = [out EXCEPT ![m] = ResendAccount(m, @, end)]
      /\ UNCHANGED api /\ UNCHANGED receiverVars

(* handle_busy only restarts the stall timer. *)
HandleBusy(p) ==
  /\ p.type = "BUSY"
  /\ Receive(p, {})
  /\ UNCHANGED senderVars /\ UNCHANGED receiverVars

(* Mutant: no probe of an unfinished message. *)
TickSends_NoProbe(m, o) ==
  IF o.done /\ o.retransmit THEN { Data(m, 0, MinOf(PacketSize, MsgLen[m])) } ELSE {}

(* What one expired timer makes the sender repeat: the first packet of an
   unconfirmed short message, the last chunk sent of an unfinished one. *)
TickSends(m, o) ==
  IF o.done
  THEN IF o.retransmit THEN { Data(m, 0, MinOf(PacketSize, MsgLen[m])) } ELSE {}
  ELSE { ChunkAt(m, IF o.next_send = 0 THEN 0 ELSE o.next_send - 1) }

(* tick: reap the messages whose linger is over, then poke the idle ones. *)
SenderTick(reaped, idle) ==
  /\ reaped \subseteq { m \in Msgs : out[m] # NoMsg /\ out[m].done }
  /\ idle   \subseteq { m \in Msgs : out[m] # NoMsg } \ reaped
  /\ out' = [m \in Msgs |-> IF m \in reaped THEN NoMsg ELSE out[m]]
  /\ net' = net \cup UNION { TickSends(m, out[m]) : m \in idle }
  /\ UNCHANGED api /\ UNCHANGED receiverVars

-----------------------------------------------------------------------------
(* Receiver core. *)

Complete(m, i) == i.received_bytes = MsgLen[m]
Missing(m, i)  == Chunks(m) \ i.received
FirstMissing(m, i) == (CHOOSE c \in Missing(m, i) : \A d \in Missing(m, i) : c <= d) * PacketSize

NeedsGrant(m, inc) == inc[m] # NoMsg /\ ~Complete(m, inc[m]) /\ inc[m].granted_to < MsgLen[m]

(* issue_grant: the window it would open, whether it does, and the result. *)
GrantTarget(m, i) ==
  MaxOf(MinOf(i.received_bytes + GrantIncrement, MsgLen[m]), i.granted_to)
Outstanding(i) == IF i.granted_to > i.received_bytes THEN i.granted_to - i.received_bytes ELSE 0
Issues(m, i, force) ==
  \/ force
  \/ /\ Outstanding(i) < GrantIncrement \div 2
     /\ GrantTarget(m, i) # i.granted_to
IssueGrant(m, i, force) ==
  IF Issues(m, i, force) THEN [i EXCEPT !.granted_to = GrantTarget(m, i)] ELSE i
IssueSends(m, i, force) ==
  IF Issues(m, i, force) THEN { Grant(m, GrantTarget(m, i)) } ELSE {}

(* The granting sets schedule may choose: the Overcommit messages with the
   fewest bytes left (ties in any order) and any that waited too long. *)
GrantSets(inc) ==
  LET cands == { m \in Msgs : NeedsGrant(m, inc) }
      rem(m) == MsgLen[m] - inc[m].received_bytes
      shortest == { s \in SUBSET cands :
                      /\ Cardinality(s) = MinOf(MaxOf(Overcommit, 1), Cardinality(cands))
                      /\ \A x \in s, y \in cands \ s : rem(x) <= rem(y) }
  IN  { s \cup starved : s \in shortest, starved \in SUBSET cands }

(* schedule, ending a handler that left the table as inc. *)
Schedule(inc, g) ==
  /\ g \in GrantSets(inc)
  /\ granting' = g
  /\ incoming' = [m \in Msgs |-> IF m \in g THEN IssueGrant(m, inc[m], FALSE) ELSE inc[m]]
ScheduleSends(inc, g) == UNION { IssueSends(m, inc[m], FALSE) : m \in g }

(* Mutant: the cache is one key too small. *)
Remember_EvictsEarly(m) ==
  LET all == Append(completed, m)
  IN  IF Len(all) >= CompletedCache THEN Tail(all) ELSE all

(* deliver: remember the key, forgetting the oldest one beyond the cache. *)
Remember(m) ==
  LET all == Append(completed, m)
  IN  IF Len(all) > CompletedCache THEN Tail(all) ELSE all
Deliver(m, i) ==
  /\ completed' = Remember(m)
  /\ delivered' = [delivered EXCEPT ![m] =
                     [times |-> MinOf(@.times + 1, 2), whole |-> @.whole /\ i.buf = Bytes(m)]]

FreshIn(m) == [received |-> {}, buf |-> {}, received_bytes |-> 0,
               granted_to |-> MinOf(UnscheduledBytes, MsgLen[m]), unanswered |-> 0]

(* Mutants: a repeated packet counts again; every packet counts as full. *)
Reassemble_CountsRepeats(m, i, p) ==
  LET idx == p.off \div PacketSize
  IN  IF idx \in Chunks(m) /\ p.off + p.len <= MsgLen[m]
      THEN [i EXCEPT !.received       = @ \cup {idx},
                     !.buf            = @ \cup (p.off .. p.off + p.len - 1),
                     !.received_bytes = @ + p.len,
                     !.unanswered     = 0]
      ELSE i
Reassemble_CountsFull(m, i, p) ==
  LET idx == p.off \div PacketSize
  IN  IF idx \in Chunks(m) \ i.received /\ p.off + p.len <= MsgLen[m]
      THEN [i EXCEPT !.received       = @ \cup {idx},
                     !.buf            = @ \cup (p.off .. p.off + p.len - 1),
                     !.received_bytes = @ + PacketSize,
                     !.unanswered     = 0]
      ELSE i

(* The reassembly of one DATA packet: only the first packet of a chunk index
   counts, whatever bytes it carries. *)
Reassemble(m, i, p) ==
  LET idx == p.off \div PacketSize
  IN  IF idx \in Chunks(m) \ i.received /\ p.off + p.len <= MsgLen[m]
      THEN [i EXCEPT !.received       = @ \cup {idx},
                     !.buf            = @ \cup (p.off .. p.off + p.len - 1),
                     !.received_bytes = @ + p.len,
                     !.unanswered     = 0]
      ELSE i

Remembered(m) == m \in { completed[k] : k \in 1 .. Len(completed) }
InFlight == { m \in Msgs : incoming[m] # NoMsg }

(* handle_data, early returns: a late duplicate, an oversized message, or too
   many messages in flight (answered with BUSY). *)
HandleDataRefused(p) ==
  LET m == p.msg
  IN  /\ p.type = "DATA"
      /\ \/ (Remembered(m) \/ MsgLen[m] > MaxMsgLen) /\ Receive(p, {})
         \/ /\ ~Remembered(m) /\ MsgLen[m] <= MaxMsgLen
            /\ incoming[m] = NoMsg /\ Cardinality(InFlight) >= MaxIncoming
            /\ Receive(p, {Busy(m)})
      /\ UNCHANGED senderVars /\ UNCHANGED receiverVars

Accepts(p) ==
  /\ p.type = "DATA"
  /\ ~Remembered(p.msg)
  /\ MsgLen[p.msg] <= MaxMsgLen
  /\ incoming[p.msg] # NoMsg \/ Cardinality(InFlight) < MaxIncoming

AfterData(p) ==
  LET m == p.msg
  IN  Reassemble(m, IF incoming[m] = NoMsg THEN FreshIn(m) ELSE incoming[m], p)

(* handle_data of the packet that completes a message (the first one, for an
   empty message): deliver, then schedule the others. *)
HandleDataDelivers(p) ==
  LET m   == p.msg
      inc == [incoming EXCEPT ![m] = NoMsg]
  IN  /\ Accepts(p)
      /\ Complete(m, AfterData(p))
      /\ Deliver(m, AfterData(p))
      /\ \E g \in GrantSets(inc) : Schedule(inc, g) /\ Receive(p, ScheduleSends(inc, g))
      /\ UNCHANGED senderVars

(* handle_data of the first packet of a message: a full scheduling round. *)
HandleDataNew(p) ==
  LET m   == p.msg
      inc == [incoming EXCEPT ![m] = AfterData(p)]
  IN  /\ Accepts(p)
      /\ incoming[m] = NoMsg
      /\ ~Complete(m, AfterData(p))
      /\ \E g \in GrantSets(inc) : Schedule(inc, g) /\ Receive(p, ScheduleSends(inc, g))
      /\ UNCHANGED <<completed, delivered>> /\ UNCHANGED senderVars

(* handle_data of a later packet: only this message's window moves, unless
   starve_check finds a message outside the granting set that waited too long
   and runs a full round. *)
HandleDataMore(p) ==
  LET m     == p.msg
      i     == AfterData(p)
      moved == IF m \in granting THEN IssueGrant(m, i, FALSE) ELSE i
      sends == IF m \in granting THEN IssueSends(m, i, FALSE) ELSE {}
      inc   == [incoming EXCEPT ![m] = moved]
  IN  /\ Accepts(p)
      /\ incoming[m] # NoMsg
      /\ ~Complete(m, i)
      /\ \/ incoming' = inc /\ UNCHANGED granting /\ Receive(p, sends)
         \/ \E g \in GrantSets(inc) :
              /\ g \ granting # {}
              /\ Schedule(inc, g)
              /\ Receive(p, sends \cup ScheduleSends(inc, g))
      /\ UNCHANGED <<completed, delivered>> /\ UNCHANGED senderVars

(* tick: each message idle for resend_timeout asks for its first missing
   granted range, or is abandoned after MaxUnanswered unanswered requests;
   one with nothing missing that is idle for grant_timeout has its GRANT
   repeated if it holds one; then a scheduling round. *)
AsksResend(m) == Missing(m, incoming[m]) # {} /\ FirstMissing(m, incoming[m]) < incoming[m].granted_to
RegrantsIn(m, stalled) == ~AsksResend(m) /\ m \in stalled /\ m \in granting

(* Mutant: unanswered requests are not counted. *)
TickedIn_NoCount(m, idle, stalled) ==
  IF m \in idle /\ RegrantsIn(m, stalled) THEN IssueGrant(m, incoming[m], TRUE) ELSE incoming[m]

TickedIn(m, idle, stalled) ==
  LET i == incoming[m]
  IN  IF m \notin idle THEN i
      ELSE IF AsksResend(m)
           THEN IF i.unanswered + 1 > MaxUnanswered THEN NoMsg
                ELSE [i EXCEPT !.unanswered = @ + 1]
           ELSE IF RegrantsIn(m, stalled) THEN IssueGrant(m, i, TRUE) ELSE i

TickInSends(m, stalled) ==
  LET i == incoming[m]
  IN  IF AsksResend(m)
      THEN { Resend(m, FirstMissing(m, i),
                    MinOf(i.granted_to - FirstMissing(m, i), GrantIncrement)) }
      ELSE IF RegrantsIn(m, stalled) THEN IssueSends(m, i, TRUE) ELSE {}

ReceiverTick(idle, stalled) ==
  LET inc == [m \in Msgs |-> TickedIn(m, idle, stalled)]
  IN  /\ idle \subseteq InFlight /\ stalled \subseteq idle
      /\ \E g \in GrantSets(inc) :
           /\ Schedule(inc, g)
           /\ net' = net \cup ScheduleSends(inc, g)
                         \cup UNION { TickInSends(m, stalled) : m \in idle }
      /\ UNCHANGED <<completed, delivered>> /\ UNCHANGED senderVars

-----------------------------------------------------------------------------
(* UDP drops a datagram. *)
Lose(p) ==
  /\ net' = net \ {p}
  /\ UNCHANGED senderVars /\ UNCHANGED receiverVars

HandleData(p) ==
  HandleDataRefused(p) \/ HandleDataDelivers(p) \/ HandleDataNew(p) \/ HandleDataMore(p)

HandlePacket(p) == HandleGrant(p) \/ HandleResend(p) \/ HandleBusy(p) \/ HandleData(p)

Next ==
  \/ \E m \in Msgs : Send(m) \/ SendFails(m) \/ SendReturns(m) \/ SendTimesOut(m) \/ Confirm(m) \/ Finish(m)
  \/ \E p \in net : HandlePacket(p) \/ Lose(p)
  \/ \E reaped, idle \in SUBSET Msgs : SenderTick(reaped, idle)
  \/ \E idle, stalled \in SUBSET Msgs : ReceiverTick(idle, stalled)

Spec == Init /\ [][Next]_vars

(* The datagrams that move a message forward when chunks are aligned: its
   chunks, the GRANTs beyond the unscheduled window, the RESENDs of a range. *)
Wire ==
  UNION { { ChunkAt(m, b) : b \in Bytes(m) }
          \cup { Grant(m, x) : x \in UnscheduledBytes + 1 .. MsgLen[m] }
          \cup { Resend(m, x, n) : x \in { b \in Bytes(m) : b % PacketSize = 0 },
                                   n \in 1 .. MinOf(GrantIncrement, MsgLen[m]) } : m \in Msgs }

(* Fairness.  The io thread ticks every 5 ms and a timer that nothing resets
   expires, so a message that stays idle is eventually poked or asked for
   again; a datagram that is sent again and again eventually arrives. *)
Fairness ==
  /\ \A m \in Msgs : WF_vars(SendReturns(m))
  /\ \A m \in Msgs : WF_vars(\E idle \in SUBSET Msgs : m \in idle /\ SenderTick({}, idle))
  /\ \A m \in Msgs : WF_vars(\E idle \in SUBSET Msgs : m \in idle /\ ReceiverTick(idle, idle))
  /\ \A p \in Wire : SF_vars(p \in net /\ HandlePacket(p))

FairSpec == Spec /\ Fairness

-----------------------------------------------------------------------------
(* Properties. *)

(* Every table entry of the two cores and every datagram in flight has its
   type; the usize subtractions of the code (a packet's length, the span of a
   RESEND) never go below zero. *)
TypeOK ==
  /\ out \in [Msgs -> OutMsg \cup {NoMsg}]
  /\ api \in [Msgs -> {"idle", "sending", "sent", "timedout", "failed"}]
  /\ incoming \in [Msgs -> InMsg \cup {NoMsg}]
  /\ granting \subseteq Msgs
  /\ completed \in Seq(Msgs)
  /\ delivered \in [Msgs -> [times : 0 .. 2, whole : BOOLEAN]]
  /\ net \subseteq Packets

(* send_to promises all-or-nothing: whatever the receiver hands to the upper
   layer has every byte of the message, in spite of losses, repeats and
   reordering and of RESENDs that overtake lost GRANTs. *)
DeliveredWhole == \A m \in Msgs : delivered[m].whole

(* While the completed cache can hold every key of the run, late duplicates
   never rebuild and redeliver a message. *)
DeliveredOnce ==
  CompletedCache >= Cardinality(Msgs) => \A m \in Msgs : delivered[m].times <= 1

(* Every DATA datagram in flight lies inside one chunk, the one whose bit it
   sets at the receiver: pump, RESEND and the probes all cut at the same
   boundaries. *)
AlignedWire ==
  \A p \in net : p.type = "DATA" =>
    \A b \in p.off .. p.off + p.len - 1 : b \div PacketSize = p.off \div PacketSize

(* A message in reassembly always lacks a chunk that tick can ask for; with
   every bit set and bytes still missing it would be stuck for ever. *)
ReassemblyOpen ==
  \A m \in Msgs : incoming[m] # NoMsg => Missing(m, incoming[m]) # {}

(* Configurations whose windows end on chunk boundaries. *)
Aligned(x) == x % PacketSize = 0
AlignedConfig ==
  /\ UnscheduledBytes > 0
  /\ Aligned(UnscheduledBytes)
  /\ Aligned(GrantIncrement)

Past(m) == api[m] # "idle" /\ (out[m] # NoMsg => out[m].done)

SenderAligned(m, o) ==
  /\ o.next_send <= MsgLen[m]
  /\ \/ o.done
     \/ Aligned(o.next_send) /\ 0 < o.next_send /\ o.next_send < MsgLen[m]

PacketAligned(p, past) ==
  /\ p.type = "DATA" =>
       /\ Aligned(p.off)
       /\ \/ p.len = PacketSize /\ p.off + p.len <= MsgLen[p.msg]
          \/ p.len <= PacketSize /\ p.off + p.len = MsgLen[p.msg] /\ past
  /\ p.type = "RESEND" =>
       Aligned(p.off + p.len) \/ p.off + p.len >= MsgLen[p.msg] \/ past

(* The books of a reassembly: a byte is there exactly if its chunk's bit is
   set, and received_bytes counts them. *)
Books(m, i, past) ==
  /\ i.buf \subseteq Bytes(m)
  /\ \A b \in Bytes(m) : b \in i.buf <=> b \div PacketSize \in i.received
  /\ i.received_bytes = Cardinality(i.buf)
  /\ \/ /\ Aligned(i.received_bytes)
        /\ Aligned(i.granted_to) \/ i.granted_to >= MsgLen[m]
     \/ past

(* Why an aligned configuration is safe, as an inductive invariant.  Until a
   sender entry is done it has cut only whole chunks, so only then can a
   shorter last chunk, or a byte count off the chunk grid, exist anywhere. *)
AlignedInv ==
  /\ \A m \in Msgs : out[m] # NoMsg => api[m] # "idle" /\ SenderAligned(m, out[m])
  /\ \A p \in net : PacketAligned(p, Past(p.msg))
  /\ \A m \in Msgs : incoming[m] # NoMsg =>
       Books(m, incoming[m], Past(m)) /\ ~Complete(m, incoming[m])

(* The refinement mapping to HomaDelivery: what send_to and recv see. *)
Outcome(d) ==
  IF d.times = 0 THEN "nothing" ELSE IF d.times = 1 /\ d.whole THEN "whole" ELSE "broken"

Delivery == INSTANCE HomaDelivery WITH
  sent     <- { m \in Msgs : api[m] # "idle" },
  received <- [m \in Msgs |-> Outcome(delivered[m])]

(* The transport implements the promise the RPC layer is built on: seen from
   send_to and recv, each step is one of HomaDelivery's or changes nothing. *)
ImplementsDelivery == Delivery!Spec

(* confirm discards the sender's copy because the peer "will not RESEND any
   more": nothing of a delivered message is still being reassembled. *)
ConfirmedIsClosed ==
  CompletedCache >= Cardinality(Msgs) =>
    \A m \in Msgs : delivered[m].times > 0 => incoming[m] = NoMsg

(* The granting set names only messages in reassembly: no slot of the
   overcommitment is held by a message that was delivered or abandoned, since
   every handler that removes one from the table runs a scheduling round. *)
GrantingIsLive == granting \subseteq InFlight

(* A reassembly never lingers: again and again it has been delivered or, after
   MaxUnanswered unanswered RESENDs, abandoned. *)
ReassemblyEnds == \A m \in Msgs : []<>(incoming[m] = NoMsg)

(* A long message between its first packet and its last, or a short request
   of which the receiver knows nothing. *)
Stalled(m) ==
  /\ out[m] # NoMsg
  /\ \/ ~out[m].done
     \/ out[m].retransmit /\ delivered[m].times = 0 /\ incoming[m] = NoMsg

(* Losses only delay: whatever DATA, GRANT or RESEND is lost, a long message
   reaches its last packet, and a short request whose packets were all lost or
   refused becomes known to the receiver, which can then ask for the rest,
   unless the sender gives the message up or other messages fill the
   receiver's table again and again. *)
Crowded(m) == Cardinality(InFlight \ {m}) >= MaxIncoming
NoStall == \A m \in Msgs : []<>(~Stalled(m) \/ Crowded(m))

(* What the receiver does with repeats, losses and reordering, together: it
   delivers whole messages, each once; what it has delivered it does not build
   again; a datagram stays inside its chunk; no grant slot is held by a message
   that is gone; and the invariant that explains it. *)
TransportSafe ==
  /\ TypeOK /\ AlignedInv
  /\ DeliveredWhole /\ DeliveredOnce /\ ConfirmedIsClosed
  /\ AlignedWire /\ GrantingIsLive
=============================================================================
