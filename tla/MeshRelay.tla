----------------------------- MODULE MeshRelay -----------------------------
(***************************************************************************)
(* The relay of crates/p2p-mesh and the nodes around it: the handler and   *)
(* the writer task that relay/server.rs runs for each connection, the      *)
(* client side of a connection (relay/client.rs), the node actor that      *)
(* reads and writes it (node.rs), and the MCP stdio loop that drives a     *)
(* node for an agent (mcp.rs).                                             *)
(*                                                                         *)
(* Every queue is bounded, as in the code, and every put waits for space:  *)
(* the socket in each direction, the channel of a connection, the command  *)
(* and the event channel of a node.  The client's reader task and its      *)
(* channel count as part of the socket.  A lock section of the server is   *)
(* one step.  Message bodies are abstracted to the connection that sent    *)
(* them and their number on it, a candidate list to its version.  How a    *)
(* node seals and answers what it is sent is in MeshSession.               *)
(***************************************************************************)
EXTENDS Naturals, Sequences, FiniteSets, SequencesExt

CONSTANTS
  Nodes,
  MaxConns,   \* bound on connections, over all nodes
  SockCap,    \* frames a socket holds in one direction
  ChanCap,    \* capacity of a connection's channel (256 in the code)
  CmdCap,     \* capacity of a node's command channel (256)
  Budgets     \* the instances: what the agents may do, and EvCap (256)

ASSUME RelayConstants ==
  /\ IsFiniteSet(Nodes)
  /\ {MaxConns, SockCap, ChanCap, CmdCap} \subseteq Nat \ {0}
  /\ Budgets \subseteq [sends : Nat, dials : Nat, punches : Nat, queries : Nat,
                        kills : Nat, recvs : Nat, evCap : Nat \ {0}]

VARIABLES
  sess,     \* ServerState.sessions: the connection and candidates of a node
  stats,    \* ServerState.stats: messages counted up and down for a node
  conn,     \* each connection, at the server and at the client
  node,     \* each node process
  got,      \* history: the messages each node's actor has taken
  budget    \* what is left of the instance's budget

vars == <<sess, stats, conn, node, got, budget>>

Conns == 1 .. MaxConns
NoSession == [conn |-> 0, cands |-> 0]

Frame(kind) == [kind |-> kind, peer |-> {}, body |-> <<>>, cands |-> 0]
Hello(v) == [Frame("Hello") EXCEPT !.cands = v]
Exchange(p, v) == [Frame("Exchange") EXCEPT !.peer = {p}, !.cands = v]
PunchRequest(t) == [Frame("PunchRequest") EXCEPT !.peer = {t}]
RelayData(p, b) == [Frame("RelayData") EXCEPT !.peer = {p}, !.body = b]

Unused ==
  [owner |-> {}, cl |-> "none", sent |-> 0,    \* the client's side
   in |-> <<>>, out |-> <<>>,                  \* the socket
   pc |-> "first", todo |-> <<>>,              \* the handler and what it must put
   tx |-> <<>>, writer |-> "run"]              \* the channel and the writer task
Stopped ==
  [live |-> 0, write |-> <<>>, emit |-> <<>>,  \* the actor
   cmd |-> <<>>, ev |-> <<>>, mcp |-> "idle", req |-> <<>>]

Init ==
  /\ sess = [n \in Nodes |-> NoSession]
  /\ stats = [n \in Nodes |-> [up |-> 0, down |-> 0]]
  /\ conn = [c \in Conns |-> Unused]
  /\ node = [n \in Nodes |-> Stopped]
  /\ got = [n \in Nodes |-> <<>>]
  /\ budget \in Budgets

Spend(what) == budget[what] > 0 /\ budget' = [budget EXCEPT ![what] = @ - 1]
Me(c) == CHOOSE n \in Nodes : n \in conn[c].owner
Gone(c) == conn[c].cl \in {"closed", "reset"}

-----------------------------------------------------------------------------
(* relay/client.rs: RelayClient::connect, called by Node::start. *)

Dial(n) ==
  /\ node[n].live = 0
  /\ Spend("dials")
  /\ \E c \in Conns :
       /\ conn[c].owner = {}
       /\ \A d \in 1 .. c - 1 : conn[d].owner # {}
       /\ conn' = [conn EXCEPT ![c].owner = {n}, ![c].cl = "dialled"]
       /\ node' = [node EXCEPT ![n].live = c]
  /\ UNCHANGED <<sess, stats, got>>

WriteHello(c) ==
  /\ conn[c].cl = "dialled"
  /\ conn' = [conn EXCEPT ![c].cl = "hello", ![c].in = <<Hello(1)>>]
  /\ UNCHANGED <<sess, stats, node, got, budget>>

(* The frame that answers Hello; anything but HelloAck fails the connect and
   drops the stream. *)
AwaitAck(c) ==
  /\ conn[c].cl = "hello"
  /\ conn[c].out # <<>>
  /\ \/ /\ Head(conn[c].out).kind = "HelloAck"
        /\ conn' = [conn EXCEPT ![c].cl = "acked", ![c].out = Tail(@)]
        /\ UNCHANGED node
     \/ /\ Head(conn[c].out).kind # "HelloAck"
        /\ \E how \in {"closed", "reset"} :
             conn' = [conn EXCEPT ![c].cl = how, ![c].out = <<>>]
        /\ node' = [node EXCEPT ![Me(c)] = Stopped]
  /\ UNCHANGED <<sess, stats, got, budget>>

(* Node::start registers again when the relay saw an address of ours that we
   did not know. *)
UpdateAddrs(c) ==
  /\ conn[c].cl = "acked"
  /\ \/ /\ Len(conn[c].in) < SockCap
        /\ conn' = [conn EXCEPT ![c].cl = "ready", ![c].in = Append(@, Hello(2))]
     \/ conn' = [conn EXCEPT ![c].cl = "ready"]
  /\ UNCHANGED <<sess, stats, node, got, budget>>

(* The process ends: the relay reads what is in flight and then the end of
   the stream, or, when a frame was cut or replies were unread, an error. *)
Kill(n) ==
  /\ node[n].live # 0
  /\ Spend("kills")
  /\ \E how \in {"closed", "reset"} :
       conn' = [conn EXCEPT ![node[n].live].cl = how, ![node[n].live].out = <<>>]
  /\ node' = [node EXCEPT ![n] = Stopped]
  /\ UNCHANGED <<sess, stats, got>>

-----------------------------------------------------------------------------
(* mcp.rs: the stdio loop handles one call at a time. *)

Running(n) == node[n].live # 0 /\ conn[node[n].live].cl = "ready"

(* peer_send and peer_connect put a command and wait for space in the
   channel, holding the node's lock and the loop. *)
PutCmd(n, op, t) ==
  /\ Running(n)
  /\ node[n].mcp = "idle"
  /\ node' = IF Len(node[n].cmd) < CmdCap
             THEN [node EXCEPT ![n].cmd = Append(@, <<op, t>>)]
             ELSE [node EXCEPT ![n].mcp = "send", ![n].req = <<op, t>>]
  /\ UNCHANGED <<sess, stats, conn, got>>
PeerSend(n, t) == t # n /\ Spend("sends") /\ PutCmd(n, "SendTo", t)
PeerConnect(n, t) == Spend("punches") /\ PutCmd(n, "ConnectPeer", t)

CmdSpace(n) ==
  /\ node[n].mcp = "send"
  /\ Len(node[n].cmd) < CmdCap
  /\ node' = [node EXCEPT ![n].cmd = Append(@, node[n].req), ![n].mcp = "idle", ![n].req = <<>>]
  /\ UNCHANGED <<sess, stats, conn, got, budget>>

(* peer_recv waits for a Message event, with or without a timeout; other
   events are skipped. *)
PeerRecv(n) ==
  /\ Running(n)
  /\ node[n].mcp = "idle"
  /\ Spend("recvs")
  /\ \E mode \in {"recv", "recvTimeout"} : node' = [node EXCEPT ![n].mcp = mode]
  /\ UNCHANGED <<sess, stats, conn, got>>

NextEvent(n) ==
  /\ node[n].mcp \in {"recv", "recvTimeout"}
  /\ node[n].ev # <<>>
  /\ node' = [node EXCEPT ![n].ev = Tail(@),
                          ![n].mcp = IF Head(node[n].ev) = "Message" THEN "idle" ELSE @]
  /\ UNCHANGED <<sess, stats, conn, got, budget>>

RecvTimeout(n) ==
  /\ node[n].mcp = "recvTimeout"
  /\ node' = [node EXCEPT ![n].mcp = "idle"]
  /\ UNCHANGED <<sess, stats, conn, got, budget>>

-----------------------------------------------------------------------------
(* node.rs: the actor takes one command or frame at a time; while it waits to
   write or to emit it takes nothing else. *)

Free(n) == Running(n) /\ node[n].write = <<>> /\ node[n].emit = <<>>

ActorCmd(n) ==
  /\ Free(n)
  /\ node[n].cmd # <<>>
  /\ LET c == node[n].live
         t == Head(node[n].cmd)[2]
         popped == [node EXCEPT ![n].cmd = Tail(@)]
     IN  \/ /\ Head(node[n].cmd)[1] = "SendTo"
            /\ conn' = [conn EXCEPT ![c].sent = @ + 1]
            /\ node' = [popped EXCEPT ![n].write = <<RelayData(t, <<c, conn[c].sent + 1>>)>>]
         \/ /\ Head(node[n].cmd)[1] = "ConnectPeer"
            /\ node' = [popped EXCEPT ![n].write = IF t = n THEN <<>> ELSE <<PunchRequest(t)>>,
                                      ![n].emit = <<"Log">>]
            /\ UNCHANGED conn
  /\ UNCHANGED <<sess, stats, got, budget>>

(* RelayClient::stats_query, for a user of the client. *)
StatsQuery(n) ==
  /\ Free(n)
  /\ Spend("queries")
  /\ node' = [node EXCEPT ![n].write = <<Frame("StatsQuery")>>]
  /\ UNCHANGED <<sess, stats, conn, got>>

ActorWrite(n) ==
  /\ node[n].write # <<>>
  /\ Len(conn[node[n].live].in) < SockCap
  /\ conn' = [conn EXCEPT ![node[n].live].in = @ \o node[n].write]
  /\ node' = [node EXCEPT ![n].write = <<>>]
  /\ UNCHANGED <<sess, stats, got, budget>>

ActorEmit(n) ==
  /\ node[n].write = <<>>
  /\ node[n].emit # <<>>
  /\ Len(node[n].ev) < budget.evCap
  /\ node' = [node EXCEPT ![n].ev = @ \o node[n].emit, ![n].emit = <<>>]
  /\ UNCHANGED <<sess, stats, conn, got, budget>>

(* on_relay_frame: an Exchange emits PunchStarted unless punching goes on. *)
ActorFrame(n) ==
  /\ Free(n)
  /\ LET c == node[n].live
         f == Head(conn[c].out)
     IN  /\ conn[c].out # <<>>
         /\ conn' = [conn EXCEPT ![c].out = Tail(@)]
         /\ \/ /\ f.kind = "RelayData"
               /\ got' = [got EXCEPT ![n] = Append(@, f.body)]
               /\ node' = [node EXCEPT ![n].emit = <<"Message">>]
            \/ /\ f.kind \in {"Exchange", "Error"}
               /\ node' = [node EXCEPT ![n].emit = <<"Log">>]
               /\ UNCHANGED got
            \/ /\ f.kind \notin {"RelayData", "Error"}
               /\ UNCHANGED <<node, got>>
  /\ UNCHANGED <<sess, stats, budget>>

-----------------------------------------------------------------------------
(* relay/server.rs: handle_conn. *)

Registers(c, v) == [sess EXCEPT ![Me(c)] = [conn |-> c, cands |-> v]]

(* The first frame registers the node; the end of the stream instead of it
   answers an error, and a read error ends the handler. *)
ReadFirst(c) ==
  /\ conn[c].owner # {} /\ conn[c].pc = "first"
  /\ \/ /\ conn[c].in # <<>>
        /\ sess' = Registers(c, Head(conn[c].in).cands)
        /\ conn' = [conn EXCEPT ![c].in = Tail(@), ![c].pc = "entered"]
     \/ /\ conn[c].in = <<>> /\ conn[c].cl = "closed"
        /\ conn' = [conn EXCEPT ![c].pc = "refuse", ![c].todo = <<<<c, Frame("Error")>>>>]
        /\ UNCHANGED sess
     \/ /\ conn[c].cl = "reset"
        /\ conn' = [conn EXCEPT ![c].pc = "gone", ![c].in = <<>>]
        /\ UNCHANGED sess
  /\ UNCHANGED <<stats, node, got, budget>>

(* The stats entry is made in a lock section of its own; then the handler
   puts HelloAck in the connection's channel. *)
StatsEntry(c) ==
  /\ conn[c].pc = "entered"
  /\ conn' = [conn EXCEPT ![c].pc = "put", ![c].todo = <<<<c, Frame("HelloAck")>>>>]
  /\ UNCHANGED <<sess, stats, node, got, budget>>

(* Mutants: a put drops the frame when there is no space; it waits also for a
   channel whose writer has ended. *)
PutDone(c) ==
  LET rest == Tail(conn[c].todo)
  IN  [conn EXCEPT ![c].todo = rest,
                   ![c].pc = IF rest # <<>> THEN @ ELSE IF @ = "put" THEN "loop" ELSE "gone"]
PutTarget(c) == Head(conn[c].todo)[1]
Delivers(c) == [PutDone(c) EXCEPT ![PutTarget(c)].tx = Append(@, Head(conn[c].todo)[2])]
Put_TrySend(c) ==
  /\ conn[c].pc \in {"put", "refuse"}
  /\ conn' = IF Len(conn[PutTarget(c)].tx) < ChanCap THEN Delivers(c) ELSE PutDone(c)
  /\ UNCHANGED <<sess, stats, node, got, budget>>
Put_WaitsForEnded(c) ==
  /\ conn[c].pc \in {"put", "refuse"}
  /\ conn[PutTarget(c)].writer = "run" /\ Len(conn[PutTarget(c)].tx) < ChanCap
  /\ conn' = Delivers(c)
  /\ UNCHANGED <<sess, stats, node, got, budget>>

(* write_frame_chan: waits for space; a channel whose writer has ended takes
   nothing and the failure is ignored. *)
Put(c) ==
  /\ conn[c].pc \in {"put", "refuse"}
  /\ \/ /\ conn[PutTarget(c)].writer = "run" /\ Len(conn[PutTarget(c)].tx) < ChanCap
        /\ conn' = Delivers(c)
     \/ /\ conn[PutTarget(c)].writer = "ended"
        /\ conn' = PutDone(c)
  /\ UNCHANGED <<sess, stats, node, got, budget>>

Puts(c, frames) == [conn EXCEPT ![c].in = Tail(@), ![c].pc = "put", ![c].todo = frames]

(* The main loop reads the next frame of the client. *)
Reads(c, kind) == conn[c].pc = "loop" /\ conn[c].in # <<>> /\ Head(conn[c].in).kind = kind
Target(c) == CHOOSE n \in Nodes : n \in Head(conn[c].in).peer

ReadHello(c) ==
  /\ Reads(c, "Hello")
  /\ sess' = IF sess[Me(c)].conn # 0
             THEN [sess EXCEPT ![Me(c)].cands = Head(conn[c].in).cands] ELSE sess
  /\ conn' = [conn EXCEPT ![c].in = Tail(@)]
  /\ UNCHANGED <<stats, node, got, budget>>

ReadPunchRequest(c) ==
  /\ Reads(c, "PunchRequest")
  /\ LET t == Target(c)
     IN  conn' = IF sess[t].conn # 0
                 THEN Puts(c, <<<<c, Exchange(t, sess[t].cands)>>,
                                <<sess[t].conn, Exchange(Me(c), sess[Me(c)].cands)>>>>)
                 ELSE Puts(c, <<<<c, Frame("Error")>>>>)
  /\ UNCHANGED <<sess, stats, node, got, budget>>

(* RelayData: the recipient's channel is looked up in one lock section; it is
   counted in the next, and put after that. *)
ReadRelayData(c) ==
  /\ Reads(c, "RelayData")
  /\ LET t == Target(c)
     IN  conn' = IF sess[t].conn # 0
                 THEN [Puts(c, <<<<sess[t].conn, RelayData(t, Head(conn[c].in).body)>>>>)
                         EXCEPT ![c].pc = "count"]
                 ELSE Puts(c, <<<<c, Frame("Error")>>>>)
  /\ UNCHANGED <<sess, stats, node, got, budget>>

Counted(c, t) == [[stats EXCEPT ![Me(c)].up = @ + 1] EXCEPT ![t].down = @ + 1]
Count(c) ==
  /\ conn[c].pc = "count"
  /\ stats' = Counted(c, CHOOSE t \in Nodes : t \in Head(conn[c].todo)[2].peer)
  /\ conn' = [conn EXCEPT ![c].pc = "put"]
  /\ UNCHANGED <<sess, node, got, budget>>

ReadStatsQuery(c) ==
  /\ Reads(c, "StatsQuery")
  /\ conn' = Puts(c, <<<<c, Frame("StatsReport")>>>>)
  /\ UNCHANGED <<sess, stats, node, got, budget>>

(* Mutant: the handler ends without unregistering. *)
Unregistered_Never(c) == sess

(* The end of the stream removes whatever session the node id has; a read
   error leaves the map as it is. *)
Unregistered(c) == [sess EXCEPT ![Me(c)] = NoSession]
Eof(c) ==
  /\ conn[c].pc = "loop" /\ conn[c].in = <<>> /\ conn[c].cl = "closed"
  /\ sess' = Unregistered(c)
  /\ conn' = [conn EXCEPT ![c].pc = "gone"]
  /\ UNCHANGED <<stats, node, got, budget>>
ReadError(c) ==
  /\ conn[c].pc = "loop" /\ conn[c].cl = "reset"
  /\ conn' = [conn EXCEPT ![c].pc = "gone", ![c].in = <<>>]
  /\ UNCHANGED <<sess, stats, node, got, budget>>

(* The writer task: to a client that has gone a write may still succeed; when
   it fails the task ends and the channel's contents are lost. *)
Write(c) ==
  /\ conn[c].writer = "run" /\ conn[c].tx # <<>>
  /\ \/ /\ ~Gone(c) /\ Len(conn[c].out) < SockCap
        /\ conn' = [conn EXCEPT ![c].tx = Tail(@), ![c].out = Append(@, Head(conn[c].tx))]
     \/ /\ Gone(c)
        /\ conn' = [conn EXCEPT ![c].tx = Tail(@)]
     \/ /\ Gone(c)
        /\ conn' = [conn EXCEPT ![c].tx = <<>>, ![c].writer = "ended"]
  /\ UNCHANGED <<sess, stats, node, got, budget>>

-----------------------------------------------------------------------------
(* What the agents, and failures, may bring about. *)
Input ==
  \E n \in Nodes :
    \/ Dial(n) \/ Kill(n) \/ PeerRecv(n) \/ StatsQuery(n)
    \/ \E t \in Nodes : PeerSend(n, t) \/ PeerConnect(n, t)

(* What the tasks do by themselves. *)
Progress ==
  \/ \E n \in Nodes : \/ CmdSpace(n) \/ NextEvent(n) \/ RecvTimeout(n)
                      \/ ActorCmd(n) \/ ActorWrite(n) \/ ActorEmit(n) \/ ActorFrame(n)
  \/ \E c \in Conns : \/ WriteHello(c) \/ AwaitAck(c) \/ UpdateAddrs(c)
                      \/ ReadFirst(c) \/ StatsEntry(c) \/ Put(c) \/ Write(c)
                      \/ ReadHello(c) \/ ReadPunchRequest(c) \/ ReadRelayData(c)
                      \/ Count(c) \/ ReadStatsQuery(c) \/ Eof(c) \/ ReadError(c)

Next == Input \/ Progress

Spec == Init /\ [][Next]_vars

-----------------------------------------------------------------------------
Frames ==
  [kind : {"Hello", "HelloAck", "PunchRequest", "Exchange", "RelayData", "StatsQuery",
           "StatsReport", "Error"},
   peer : SUBSET Nodes, body : {<<>>} \cup (Conns \X Nat), cands : 0 .. 2]

(* Queues keep their capacity; a node never waits to write and has taken
   nothing else meanwhile, and a handler waits only with something to put. *)
TypeOK ==
  /\ \A n \in Nodes :
       /\ sess[n] \in [conn : 0 .. MaxConns, cands : 0 .. 2]
       /\ stats[n] \in [up : Nat, down : Nat]
       /\ node[n].live \in 0 .. MaxConns
       /\ node[n].mcp \in {"idle", "send", "recv", "recvTimeout"}
       /\ Len(node[n].cmd) <= CmdCap /\ Len(node[n].ev) <= budget.evCap
  /\ \A c \in Conns :
       /\ conn[c].cl \in {"none", "dialled", "hello", "acked", "ready", "closed", "reset"}
       /\ conn[c].pc \in {"first", "entered", "count", "put", "loop", "refuse", "gone"}
       /\ conn[c].pc \in {"count", "put", "refuse"} <=> conn[c].todo # <<>>
       /\ Len(conn[c].in) <= SockCap /\ Len(conn[c].out) <= SockCap /\ Len(conn[c].tx) <= ChanCap
       /\ \A f \in Range(conn[c].in) \cup Range(conn[c].out) \cup Range(conn[c].tx) : f \in Frames

(* The client writes on one connection are taken by the recipient in the
   order they were written, whatever handlers and writers do in between. *)
RelayedInOrder ==
  \A n \in Nodes : \A i, j \in DOMAIN got[n] :
    i < j /\ got[n][i][1] = got[n][j][1] => got[n][i][2] < got[n][j][2]

(* stats: what has reached a recipient's channel, its socket or the recipient
   was counted before, and every message is counted up once and down once. *)
DataIn(q) == Cardinality({i \in DOMAIN q : q[i].kind = "RelayData"})
SumOver(f, S) == FoldSet(LAMBDA x, acc : acc + f[x], 0, S)
CountedBeforeRelayed ==
  /\ \A n \in Nodes :
       SumOver([c \in Conns |-> DataIn(conn[c].tx) + DataIn(conn[c].out)],
               {c \in Conns : conn[c].owner = {n}}) + Len(got[n]) <= stats[n].down
  /\ SumOver([n \in Nodes |-> stats[n].up], Nodes) = SumOver([n \in Nodes |-> stats[n].down], Nodes)

(* handle_conn, sessions: while the only connection of a node is served, the
   node is registered with it (a second connection may replace the entry, and
   the end of the first removes it whoever it belongs to); and an entry
   outlives its handler only after a read error.  Queues keep their bounds. *)
Registered ==
  /\ TypeOK
  /\ \A c \in Conns :
       /\ conn[c].pc \in {"entered", "count", "put", "loop"}
       /\ \A d \in Conns \ {c} : conn[d].owner # conn[c].owner
       => sess[Me(c)].conn = c
  /\ \A n \in Nodes :
       sess[n].conn # 0 /\ conn[sess[n].conn].pc = "gone" => conn[sess[n].conn].cl = "reset"

(* Every task has done what it can. *)
Quiet == ~ENABLED Progress

(* The nodes whose actor waits for their application to take an event. *)
Unheard == {n \in Nodes : node[n].emit # <<>> /\ Len(node[n].ev) = budget.evCap}
(* The nodes whose actor waits to write, and so leaves its own socket full. *)
Jammed == {n \in Nodes : node[n].write # <<>> /\ Len(conn[node[n].live].out) = SockCap}

(* A tool call or a handler that waits for ever waits for a node whose agent
   does not call peer_recv, or for one that cannot read because it is itself
   waiting to write: with every agent listening and every actor reading, all
   of them end. *)
HangsAreExplained ==
  Quiet =>
    \/ Unheard # {} \/ Jammed # {}
    \/ /\ \A n \in Nodes : node[n].mcp # "send" /\ node[n].cmd = <<>> /\ node[n].write = <<>>
       /\ \A c \in Conns : conn[c].pc \in {"first", "loop", "gone"}

(* Without a failure and with nobody waiting, every message the relay has
   counted has reached the actor of its recipient. *)
NothingLost ==
  Quiet /\ Unheard = {} /\ Jammed = {} /\ (\A c \in Conns : ~Gone(c)) =>
    \A n \in Nodes : Len(got[n]) = stats[n].down

(* The relay is faithful: it keeps the order of each connection, counts every
   message before it is relayed, and loses none while nobody fails. *)
RelayedFaithfully == RelayedInOrder /\ CountedBeforeRelayed /\ NothingLost
=============================================================================
