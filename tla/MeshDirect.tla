----------------------------- MODULE MeshDirect -----------------------------
(***************************************************************************)
(* The direct path of crates/p2p-mesh between two nodes: hole punching     *)
(* (holepunch/mod.rs and the punch handlers of node.rs), simultaneous QUIC *)
(* open and its dedup rule (on_new_conn, on_conn_closed), and the path     *)
(* manager that decides which path a message takes (path/mod.rs).          *)
(*                                                                         *)
(* Node 1 has the smaller NodeId.  One candidate address per node is       *)
(* reachable.  The scores of the path manager are reals and are            *)
(* abstracted: once both metrics allow a decision, it may fall either way, *)
(* and min_dwell may or may not have passed.  Timers are free.  The relay  *)
(* path delivers (see MeshSession).                                        *)
(***************************************************************************)
EXTENDS Naturals, Sequences, FiniteSets

(* An instance: attempts is punch_max_attempts (20 by default) and replies the
   punch replies per peer (5 in the code); connects (over both nodes), conns
   and sends (of each node) bound connect_peer, QUIC connections and send_to;
   fails says whether the network may cut a connection. *)
CONSTANT Instances

ASSUME DirectInstances ==
  \A i \in Instances :
    /\ {i.attempts, i.replies, i.connects, i.conns, i.sends} \subseteq Nat
    /\ i.fails \in BOOLEAN

VARIABLES
  inst,      \* the instance
  connects,  \* connect_peer calls so far
  exchange,  \* Exchange frames on their way to each node
  known,     \* does the node have a Peer entry for the other?
  punch,     \* attempts of the punch job of each node, 0 if it has none
  budget,    \* punch_reply_budget
  udp,       \* PUNCH packets in flight to each node
  opening,   \* simultaneous_open tasks running at each node
  conns,     \* who opened each connection, in order of establishment
  open,      \* the connections neither closed nor cut
  events,    \* QuicEv in each node's quic channel or about to be sent to it
  readers,   \* connections whose stream read loop runs at each node
  direct,    \* Peer.direct: the connection held, 0 if none
  paths,     \* Peer.paths of each node
  msgs,      \* what became of each payload a node gave to send_to, in order
  failed     \* history: has the network cut a connection?

punchVars == <<connects, exchange, punch, budget, udp>>
connVars  == <<opening, conns, open, events, readers>>
vars == <<inst, punchVars, known, connVars, direct, paths, msgs, failed>>

Nodes == {1, 2}
Other(n) == 3 - n
NoConn == 0

Init ==
  /\ inst \in Instances
  /\ connects = 0
  /\ exchange = [n \in Nodes |-> 0]
  /\ known = [n \in Nodes |-> FALSE]
  /\ punch = [n \in Nodes |-> 0]
  /\ budget = [n \in Nodes |-> inst.replies]
  /\ udp = [n \in Nodes |-> 0]
  /\ opening = [n \in Nodes |-> 0]
  /\ conns = <<>>
  /\ open = {}
  /\ events = [n \in Nodes |-> {}]
  /\ readers = [n \in Nodes |-> {}]
  /\ direct = [n \in Nodes |-> NoConn]
  /\ paths = [n \in Nodes |-> [active |-> "relay", up |-> FALSE, sampled |-> FALSE]]
  /\ msgs = [n \in Nodes |-> <<>>]
  /\ failed = FALSE

-----------------------------------------------------------------------------
(* Hole punching. *)

(* on_connect_peer: the relay answers a PunchRequest with an Exchange to
   both sides; nothing is asked while a job runs. *)
ConnectPeer(n) ==
  /\ connects < inst.connects
  /\ connects' = connects + 1
  /\ known' = [known EXCEPT ![n] = TRUE]
  /\ exchange' = IF punch[n] = 0 THEN [m \in Nodes |-> exchange[m] + 1] ELSE exchange
  /\ UNCHANGED <<punch, budget, udp, direct, paths>> /\ UNCHANGED connVars

(* An Exchange frame starts a job, unless one is running. *)
HandleExchange(n) ==
  /\ exchange[n] > 0
  /\ exchange' = [exchange EXCEPT ![n] = @ - 1]
  /\ known' = [known EXCEPT ![n] = TRUE]
  /\ \/ punch[n] = 0 /\ punch' = [punch EXCEPT ![n] = 1]
                     /\ udp' = [udp EXCEPT ![Other(n)] = @ + 1]
     \/ punch[n] # 0 /\ UNCHANGED <<punch, udp>>
  /\ UNCHANGED <<connects, budget, direct, paths>> /\ UNCHANGED connVars

(* A PUNCH packet ends a running job: on_direct_up, and a task opens a QUIC
   connection. *)
PunchEstablished(n) ==
  /\ udp[n] > 0 /\ punch[n] # 0
  /\ udp' = [udp EXCEPT ![n] = @ - 1]
  /\ punch' = [punch EXCEPT ![n] = 0]
  /\ paths' = [paths EXCEPT ![n].up = TRUE]
  /\ opening' = [opening EXCEPT ![n] = @ + 1]
  /\ UNCHANGED <<connects, exchange, budget, known, conns, open, events, readers, direct>>

(* Mutant: replies are not limited. *)
PunchReply_Unlimited(n) ==
  /\ udp[n] > 0 /\ punch[n] = 0
  /\ udp' = [m \in Nodes |-> IF m = n THEN udp[m] - 1
                             ELSE IF known[n] THEN udp[m] + 1 ELSE udp[m]]
  /\ UNCHANGED <<connects, exchange, punch, budget, known, direct, paths>>
  /\ UNCHANGED connVars

(* Without a job a known peer is answered, within the budget. *)
PunchReply(n) ==
  LET replies == known[n] /\ budget[n] > 0
  IN  /\ udp[n] > 0 /\ punch[n] = 0
      /\ budget' = IF replies THEN [budget EXCEPT ![n] = @ - 1] ELSE budget
      /\ udp' = [m \in Nodes |-> IF m = n THEN udp[m] - 1
                                 ELSE IF replies THEN udp[m] + 1 ELSE udp[m]]
      /\ UNCHANGED <<connects, exchange, punch, known, direct, paths>> /\ UNCHANGED connVars

PunchTick(n) ==
  /\ punch[n] # 0
  /\ \/ /\ punch[n] >= inst.attempts
        /\ punch' = [punch EXCEPT ![n] = 0]
        /\ UNCHANGED udp
     \/ /\ punch[n] < inst.attempts
        /\ punch' = [punch EXCEPT ![n] = @ + 1]
        /\ udp' = [udp EXCEPT ![Other(n)] = @ + 1]
  /\ UNCHANGED <<connects, exchange, budget, known, direct, paths>> /\ UNCHANGED connVars

LosePunch(n) ==
  /\ udp[n] > 0
  /\ udp' = [udp EXCEPT ![n] = @ - 1]
  /\ UNCHANGED <<connects, exchange, punch, budget, known, direct, paths>>
  /\ UNCHANGED connVars

-----------------------------------------------------------------------------
(* QUIC connections. *)

Opened(c)   == [type |-> "Conn", conn |-> c]
ClosedEv(c) == [type |-> "ConnClosed", conn |-> c]
Outgoing(n, c) == conns[c] = n

(* simultaneous_open succeeds: both ends hear of the connection, the opener
   from its task and the other one from its accept loop. *)
Establish(n) ==
  LET c == Len(conns) + 1
  IN  /\ opening[n] > 0
      /\ c <= inst.conns
      /\ opening' = [opening EXCEPT ![n] = @ - 1]
      /\ conns' = Append(conns, n)
      /\ open' = open \cup {c}
      /\ events' = [m \in Nodes |-> events[m] \cup {Opened(c)}]
      /\ UNCHANGED <<readers, known, direct, paths>> /\ UNCHANGED punchVars

(* All its retries fail. *)
OpenFails(n) ==
  /\ opening[n] > 0
  /\ opening' = [opening EXCEPT ![n] = @ - 1]
  /\ UNCHANGED <<conns, open, events, readers, known, direct, paths>>
  /\ UNCHANGED punchVars

(* The accept loop reports incoming connections in order. *)
Reported(n, c) ==
  \A d \in 1 .. c - 1 : ~Outgoing(n, c) /\ ~Outgoing(n, d) => Opened(d) \notin events[n]

(* Mutant: each node prefers the connection it opened. *)
Preferred_Own(n, c) == Outgoing(n, c)

Preferred(n, c) == Outgoing(n, c) = (n < Other(n))

(* Mutant: only the first connection of a peer gets a read loop. *)
Takes_ReadsFirst(n, c) ==
  /\ direct' = [direct EXCEPT ![n] = c]
  /\ paths' = [paths EXCEPT ![n].up = TRUE]
  /\ readers' = IF direct[n] = NoConn THEN [readers EXCEPT ![n] = @ \cup {c}] ELSE readers

(* on_new_conn: the outbound connection of the smaller NodeId is canonical. *)
Takes(n, c) ==
  /\ direct' = [direct EXCEPT ![n] = c]
  /\ paths' = [paths EXCEPT ![n].up = TRUE]
  /\ readers' = [readers EXCEPT ![n] = @ \cup {c}]

NewConn(n, c) ==
  /\ Opened(c) \in events[n]
  /\ Reported(n, c)
  /\ events' = [events EXCEPT ![n] = @ \ {Opened(c)}]
  /\ known' = [known EXCEPT ![n] = TRUE]
  /\ \/ /\ direct[n] = NoConn
        /\ Takes(n, c)
        /\ UNCHANGED open
     \/ /\ direct[n] # NoConn
        /\ Preferred(n, direct[n]) \/ ~Preferred(n, c)
        /\ open' = open \ {c}
        /\ UNCHANGED <<direct, paths, readers>>
     \/ /\ direct[n] # NoConn
        /\ ~Preferred(n, direct[n]) /\ Preferred(n, c)
        /\ open' = open \ {direct[n]}
        /\ Takes(n, c)
  /\ UNCHANGED <<opening, conns>> /\ UNCHANGED punchVars

(* The network cuts a connection. *)
Fail(c) ==
  /\ inst.fails
  /\ c \in open
  /\ open' = open \ {c}
  /\ failed' = TRUE
  /\ UNCHANGED <<inst, opening, conns, events, readers, known, direct, paths, msgs>>
  /\ UNCHANGED punchVars

(* The read loop of a closed connection ends and reports it. *)
ReaderEnds(n, c) ==
  /\ c \in readers[n] \ open
  /\ readers' = [readers EXCEPT ![n] = @ \ {c}]
  /\ events' = [events EXCEPT ![n] = @ \cup {ClosedEv(c)}]
  /\ UNCHANGED <<opening, conns, open, known, direct, paths>> /\ UNCHANGED punchVars

(* PathManager::on_direct_down, with Peer.direct cleared. *)
DirectDown(n) ==
  /\ direct' = [direct EXCEPT ![n] = NoConn]
  /\ paths' = [paths EXCEPT ![n] = [active |-> "relay", up |-> FALSE, sampled |-> FALSE]]

(* Mutant: any close event clears the connection held. *)
ConnClosed_Any(n, c) ==
  /\ ClosedEv(c) \in events[n]
  /\ events' = [events EXCEPT ![n] = @ \ {ClosedEv(c)}]
  /\ DirectDown(n)
  /\ UNCHANGED <<opening, conns, open, readers, known>> /\ UNCHANGED punchVars

ConnClosed(n, c) ==
  /\ ClosedEv(c) \in events[n]
  /\ events' = [events EXCEPT ![n] = @ \ {ClosedEv(c)}]
  /\ IF direct[n] = c THEN DirectDown(n) ELSE UNCHANGED <<direct, paths>>
  /\ UNCHANGED <<opening, conns, open, readers, known>> /\ UNCHANGED punchVars

-----------------------------------------------------------------------------
(* Paths. *)

(* PathManager::decide. *)
Decisions(p) ==
  {p} \cup (IF p.active = "relay" /\ p.up /\ p.sampled THEN {[p EXCEPT !.active = "direct"]} ELSE {})
      \cup (IF p.active = "direct" THEN {[p EXCEPT !.active = "relay"]} ELSE {})

(* on_probe_tick samples the connection held; a relay PONG only decides. *)
ProbeTick(n) ==
  /\ direct[n] # NoConn
  /\ \E p \in Decisions([paths[n] EXCEPT !.sampled = TRUE]) : paths' = [paths EXCEPT ![n] = p]
  /\ UNCHANGED <<known, direct>> /\ UNCHANGED punchVars /\ UNCHANGED connVars

RelayPong(n) ==
  /\ \E p \in Decisions(paths[n]) : paths' = [paths EXCEPT ![n] = p]
  /\ UNCHANGED <<known, direct>> /\ UNCHANGED punchVars /\ UNCHANGED connVars

(* What became of a payload: relayed, or written to a stream of a direct
   connection and then read by the other node. *)
Relayed    == [at |-> "relay", conn |-> NoConn]
Written(c) == [at |-> "stream", conn |-> c]
Sent(n, m) == msgs' = [msgs EXCEPT ![n] = Append(@, m)]

(* on_send_to.  write_msg opens a stream, writes and finishes it; it fails only
   if the close of the connection is already known here, and the message then
   goes over the relay.  Success says nothing about the peer. *)
SendTo(n) ==
  LET viaDirect == paths[n].active = "direct" /\ direct[n] # NoConn
  IN  /\ Len(msgs[n]) < inst.sends
      /\ known' = [known EXCEPT ![n] = TRUE]
      /\ \/ ~viaDirect /\ Sent(n, Relayed) /\ UNCHANGED <<direct, paths>>
         \/ viaDirect /\ Sent(n, Written(direct[n])) /\ UNCHANGED <<direct, paths>>
         \/ viaDirect /\ direct[n] \notin open /\ Sent(n, Relayed) /\ DirectDown(n)
      /\ UNCHANGED punchVars /\ UNCHANGED connVars

(* read_msg, in a task of its own per stream, so in any order; also on a
   connection whose end has not been noticed here. *)
Readable(n, c) == c \in readers[n] /\ (c \in open \/ direct[n] = c)
ReadMsg(n, k) ==
  LET m == msgs[Other(n)][k]
  IN  /\ m.at = "stream" /\ Readable(n, m.conn)
      /\ msgs' = [msgs EXCEPT ![Other(n)][k].at = "read"]
      /\ UNCHANGED <<known, direct, paths>> /\ UNCHANGED punchVars /\ UNCHANGED connVars

PunchStep(n) == PunchEstablished(n) \/ PunchReply(n)
ConnIds == 1 .. Len(conns)

Step ==
  \E n \in Nodes :
    \/ ConnectPeer(n) \/ HandleExchange(n) \/ PunchStep(n) \/ PunchTick(n) \/ LosePunch(n)
    \/ Establish(n) \/ OpenFails(n) \/ ProbeTick(n) \/ RelayPong(n)
    \/ \E c \in ConnIds : NewConn(n, c) \/ ReaderEnds(n, c) \/ ConnClosed(n, c)

MsgStep ==
  \E n \in Nodes : SendTo(n) \/ \E k \in 1 .. Len(msgs[Other(n)]) : ReadMsg(n, k)

Next ==
  \/ UNCHANGED <<inst, failed, msgs>> /\ Step
  \/ UNCHANGED <<inst, failed>> /\ MsgStep
  \/ \E c \in ConnIds : Fail(c)

Spec == Init /\ [][Next]_vars

-----------------------------------------------------------------------------
(* Properties. *)

(* Types; the punch reply budget never goes below zero. *)
TypeOK ==
  /\ inst \in Instances
  /\ connects \in 0 .. inst.connects /\ failed \in BOOLEAN
  /\ exchange \in [Nodes -> Nat] /\ known \in [Nodes -> BOOLEAN]
  /\ punch \in [Nodes -> Nat] /\ budget \in [Nodes -> 0 .. inst.replies]
  /\ udp \in [Nodes -> Nat] /\ opening \in [Nodes -> Nat]
  /\ conns \in Seq(Nodes) /\ Len(conns) <= inst.conns
  /\ open \subseteq 1 .. Len(conns)
  /\ events \in [Nodes -> SUBSET [type : {"Conn", "ConnClosed"}, conn : 1 .. Len(conns)]]
  /\ readers \in [Nodes -> SUBSET (1 .. Len(conns))]
  /\ direct \in [Nodes -> 0 .. Len(conns)]
  /\ paths \in [Nodes -> [active : {"relay", "direct"}, up : BOOLEAN, sampled : BOOLEAN]]
  /\ msgs \in [Nodes -> Seq([at : {"relay", "stream", "read"}, conn : 0 .. Len(conns)])]

(* The direct path is active only while a connection is held: no order of
   punching, dedup, closing, failed writes and late probes leaves the path
   manager on a path that has no connection. *)
ActiveIsHeld == \A n \in Nodes : paths[n].active = "direct" => direct[n] # NoConn

(* A replaced connection's late close event never clears its successor, and a
   node never forgets a connection that it reads from and that still works. *)
OpenIsKept == \A n \in Nodes : readers[n] \cap open \subseteq {direct[n]}

ConnsQuiet ==
  \A n \in Nodes : opening[n] = 0 /\ events[n] = {} /\ readers[n] \subseteq open

(* Simultaneous open converges: when all events are handled, the two nodes
   hold the same connection, and it works, or neither holds one. *)
Converged ==
  ConnsQuiet => /\ direct[1] = direct[2]
                /\ direct[1] # NoConn => direct[1] \in open

(* The dedup rule ("both sides converge by the same rule") never closes the
   last connection: of the connections that one connect_peer leads to, the
   nodes end with one, if the network cut none.  With the connections of a
   second connect_peer each node may close the one the other keeps. *)
DedupKeepsOne ==
  (ConnsQuiet /\ conns # <<>> /\ ~failed /\ connects = 1) => direct[1] # NoConn

(* Will the read loop of n still take a message from connection c? *)
Heard(n, c) == Opened(c) \in events[n] \/ Readable(n, c)
Unread(n) == {msgs[n][k].conn : k \in {i \in 1 .. Len(msgs[n]) : msgs[n][i].at = "stream"}}

(* A message accepted by a direct connection that still works will be read:
   whatever dedup did since, the peer reads from that connection or has yet to
   learn of it. *)
WrittenIsHeard == \A n \in Nodes : \A c \in Unread(n) \cap open : Heard(Other(n), c)

(* "Seamless switch": write_msg has returned Ok for a message that the close of
   the connection then discards, so a message can be lost; but if the network
   cuts nothing, only on a connection that dedup closes.  What one
   connect_peer writes to the canonical connection is never lost. *)
CanonicalKeepsMessages ==
  (~failed /\ connects = 1) =>
    \A n \in Nodes : \A c \in Unread(n) : conns[c] = 1 => Heard(Other(n), c)

(* The packets and ticks that hole punching can still cause: a PUNCH packet
   counts 1, a reply left in the budget 2, a job 2 for each attempt left. *)
JobWork(n) == IF punch[n] = 0 THEN 0 ELSE 1 + 2 * (IF punch[n] < inst.attempts THEN inst.attempts - punch[n] ELSE 0)
NodeWork(n) == JobWork(n) + 2 * budget[n] + udp[n] + exchange[n] * (2 * inst.attempts + 3)
PunchWork == NodeWork(1) + NodeWork(2) + (inst.connects - connects) * (4 * inst.attempts + 7)

(* Hole punching falls silent ("prevents infinite ping-pong"): each step of it
   uses up work and nothing else creates any, however the packets, replies,
   retries and restarted jobs of the two nodes provoke each other. *)
PunchingSpends == [][IF UNCHANGED punchVars THEN TRUE ELSE PunchWork' < PunchWork]_vars

(* What a node believes of its direct connection is true, after any order of
   events: the path manager uses it only while it is held, a connection that
   works and is read is the one held, and what was written to it is heard. *)
DirectSafe == TypeOK /\ ActiveIsHeld /\ OpenIsKept /\ WrittenIsHeard

(* Dedup is harmless for what one connect_peer leads to: a connection is left,
   and the messages on the canonical one are not lost. *)
DedupIsHarmless == DedupKeepsOne /\ CanonicalKeepsMessages
=============================================================================
