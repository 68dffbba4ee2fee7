-------------------------------- MODULE Moq ---------------------------------
(***************************************************************************)
(* The live relay of moq-live: publishers, the relay with its hub, and     *)
(* subscribers (client.rs, relay.rs, hub.rs, over MoqCache).               *)
(*                                                                         *)
(* A connection has a control stream in each direction, the publisher's    *)
(* group streams upstream and the relay's group streams downstream.  Each  *)
(* of these has a task of its own, so that group streams overtake each     *)
(* other.  Faults: connections are lost or closed, the relay shuts down.   *)
(***************************************************************************)
EXTENDS MoqCache

CONSTANTS
  Pubs,               \* connections of publishers, numbers
  Subs,               \* connections of subscribers, numbers
  Tracks,             \* tracks, all of one namespace
  BroadcastCapacity,  \* hub.rs: BROADCAST_CAPACITY
  MaxCalls,           \* bound on the subscribe calls
  Budgets             \* the instances: how much of each input

ASSUME MoqConstants == Pubs \cap Subs = {} /\ 0 \notin Pubs \cup Subs /\ {BroadcastCapacity, MaxCalls} \subseteq Nat \ {0}

VARIABLES
  budget,     \* what is left of the instance's inputs
  announced,  \* Hub.namespaces holds the namespace
  hub,        \* by track: cached groups, what was broadcast, whether its lock is poisoned
  reg,        \* Relay.publishers: connection (0: none) and alias (0: none) by track
  lock,       \* the connection whose handler holds the lock of reg, or 0
  aliases,    \* aliases handed out
  conn,       \* the connections
  up,         \* group streams from publishers
  fwd,        \* forwarders
  down,       \* group streams to subscribers
  calls,      \* calls of Subscriber::subscribe
  closing     \* Relay::shutdown: "no", "window" or "closed"

vars == <<budget, announced, hub, reg, lock, aliases, conn, up, fwd, down, calls, closing>>

Conns == Pubs \cup Subs
Ids == 1 .. MaxCalls
Nothing == [i \in Ids |-> 0]
NoMessage == [m |-> "none"]

(* A connection: up; the peer's control loop, off, setup, on or ended; the
   relay's handler and the message it works on; the control messages under way;
   in Relay.conns; half closed; the peer's routes, pending and aliases; forwarders by id. *)
NewConn == [up |-> FALSE, ctl |-> "off", pc |-> "off", msg |-> NoMessage, toRelay |-> <<>>, toPeer |-> <<>>,
            reg |-> FALSE, fin |-> FALSE, routes |-> Nothing, pending |-> Nothing, fwds |-> Nothing,
            aliases |-> [t \in Tracks |-> 0]]

Init ==
  /\ budget \in Budgets
  /\ announced = FALSE
  /\ hub = [t \in Tracks |-> [groups |-> <<>>, log |-> <<>>, poisoned |-> FALSE]]
  /\ reg = [t \in Tracks |-> [conn |-> 0, alias |-> 0]]
  /\ lock = 0 /\ aliases = 0
  /\ conn = [c \in Conns |-> NewConn]
  /\ up = <<>> /\ fwd = <<>> /\ down = <<>> /\ calls = <<>>
  /\ closing = "no"

Spend(what) == budget[what] > 0 /\ budget' = [budget EXCEPT ![what] = @ - 1]
ToRelay(c, msg) == [conn EXCEPT ![c].toRelay = Append(@, msg)]

-----------------------------------------------------------------------------
(* Connecting: client.rs handshake, relay.rs handle_connection. *)
Connect(c) ==
  /\ c \in budget.conns /\ conn[c].pc = "off" /\ closing # "closed"
  /\ conn' = [conn EXCEPT ![c].up = TRUE, ![c].ctl = "setup", ![c].pc = "setup"]
  /\ UNCHANGED <<budget, announced, hub, reg, lock, aliases, up, fwd, down, calls, closing>>

HandlerFrame == UNCHANGED <<budget, announced, hub, reg, lock, aliases, up, fwd, down, calls, closing>>

(* SETUP is answered; only then is the connection registered for GOAWAY. *)
Setup(c) ==
  /\ conn[c].pc = "setup" /\ conn[c].up
  /\ conn' = [conn EXCEPT ![c].pc = "register", ![c].toPeer = Append(@, [m |-> "Setup"])]
  /\ HandlerFrame
Register(c) ==
  /\ conn[c].pc = "register"
  /\ conn' = [conn EXCEPT ![c].pc = "idle", ![c].reg = TRUE]
  /\ HandlerFrame

(* The end of handle_connection: the forwarders of the map are aborted. *)
(* Mutant: only the writer. *)
Aborted_WriterOnly(f) == [f EXCEPT !.wr = "ended"]
Aborted(f) == [f EXCEPT !.rd = "ended", !.wr = "ended"]
EndConn(c, k) ==
  /\ conn' = [conn EXCEPT ![c].pc = "done", ![c].reg = FALSE, ![c].fwds = Nothing, ![c].msg = NoMessage]
  /\ fwd' = [i \in DOMAIN fwd |-> IF \E id \in Ids : k.fwds[id] = i THEN Aborted(fwd[i]) ELSE fwd[i]]
  /\ UNCHANGED <<budget, announced, hub, reg, lock, aliases, up, down, calls, closing>>
HandlerLost(c) ==
  /\ conn[c].pc \in {"setup", "idle"} /\ ~conn[c].up
  /\ EndConn(c, conn[c])

-----------------------------------------------------------------------------
(* The relay's control loop. *)
Reads(c, m) == conn[c].pc = "idle" /\ conn[c].up /\ conn[c].toRelay # <<>> /\ Head(conn[c].toRelay).m = m
Read(c) == [conn EXCEPT ![c].toRelay = Tail(@)]

HandleAnnounce(c) ==
  /\ Reads(c, "Announce")
  /\ announced' = TRUE
  /\ conn' = [Read(c) EXCEPT ![c].toPeer = Append(@, [m |-> "AnnounceOk"])]
  /\ UNCHANGED <<budget, hub, reg, lock, aliases, up, fwd, down, calls, closing>>

Refused(toPeer, id) == Append(toPeer, [m |-> "SubscribeError", id |-> id])
HandleSubscribe(c) ==
  /\ Reads(c, "Subscribe")
  /\ LET msg == Head(conn[c].toRelay)
     IN  conn' = IF announced
                 THEN [Read(c) EXCEPT ![c].toPeer = Append(@, [m |-> "SubscribeOk", id |-> msg.id]),
                                      ![c].pc = "bind", ![c].msg = msg]
                 ELSE [Read(c) EXCEPT ![c].toPeer = Refused(@, msg.id)]
  /\ HandlerFrame

(* maybe_bind_upstream_alias keeps the lock of the registry while it sends. *)
BindNothing(c) ==
  /\ conn[c].pc = "bind" /\ lock = 0
  /\ LET r == reg[conn[c].msg.t] IN r.conn = 0 \/ r.alias # 0
  /\ conn' = [conn EXCEPT ![c].pc = "attach"]
  /\ HandlerFrame
(* Mutant: the lock is dropped before the message is sent. *)
BindLock_None(c) == 0
BindLock(c) == c
BindSend(c) ==
  /\ conn[c].pc = "bind" /\ lock = 0
  /\ LET t == conn[c].msg.t
         p == reg[t].conn
         msg == [m |-> "Subscribe", id |-> aliases + 1, t |-> t, start |-> "next"]
     IN  /\ p # 0 /\ reg[t].alias = 0
         /\ conn' = [conn EXCEPT ![c].pc = IF conn[p].up THEN "sent" ELSE "attach",
                                 ![p].toPeer = IF conn[p].up THEN Append(@, msg) ELSE @]
         /\ lock' = IF conn[p].up THEN BindLock(c) ELSE 0
         /\ aliases' = aliases + 1
  /\ UNCHANGED <<budget, announced, hub, reg, up, fwd, down, calls, closing>>
BindSent(c) ==
  /\ conn[c].pc = "sent"
  /\ reg' = [reg EXCEPT ![conn[c].msg.t].alias = aliases]
  /\ lock' = 0
  /\ conn' = [conn EXCEPT ![c].pc = "attach"]
  /\ UNCHANGED <<budget, announced, hub, aliases, up, fwd, down, calls, closing>>

(* Mutant: the receiver is made before the snapshot, which has one more. *)
Cursor_Early(t) == IF hub[t].log = <<>> THEN 0 ELSE Len(hub[t].log) - 1
Cursor(t) == Len(hub[t].log)

(* Hub::subscribe and spawn_forwarder.  Cut off: what is published from here on. *)
NewForwarder(c, msg) ==
  [c |-> c, alias |-> msg.id, t |-> msg.t, start |-> msg.start, from |-> Len(hub[msg.t].log),
   replay |-> IF msg.start = "latest" THEN SnapshotFromLatestGroup(hub[msg.t].groups) ELSE <<>>,
   cursor |-> Cursor(msg.t), skip |-> FALSE, queue |-> <<>>, rd |-> "run", wr |-> "replay", stream |-> 0,
   sent |-> <<>>, lostHeads |-> {}, lossy |-> FALSE]
Attach(c) ==
  /\ conn[c].pc = "attach"
  /\ LET msg == conn[c].msg
     IN  IF hub[msg.t].poisoned
         THEN conn' = [conn EXCEPT ![c].pc = "panicked"] /\ UNCHANGED fwd
         ELSE /\ fwd' = Append(fwd, NewForwarder(c, msg))
              /\ conn' = [conn EXCEPT ![c].pc = "idle", ![c].msg = NoMessage, ![c].fwds[msg.id] = Len(fwd) + 1]
  /\ UNCHANGED <<budget, announced, hub, reg, lock, aliases, up, down, calls, closing>>

HandleUnsubscribe(c) ==
  /\ Reads(c, "Unsubscribe")
  /\ LET id == Head(conn[c].toRelay).id
         i == conn[c].fwds[id]
     IN  /\ conn' = [Read(c) EXCEPT ![c].fwds[id] = 0]
         /\ fwd' = IF i = 0 THEN fwd ELSE [fwd EXCEPT ![i] = Aborted(@)]
  /\ UNCHANGED <<budget, announced, hub, reg, lock, aliases, up, down, calls, closing>>

(* The peer's acknowledgement of an alias. *)
HandleSubscribeOk(c) ==
  /\ Reads(c, "SubscribeOk")
  /\ conn' = Read(c)
  /\ HandlerFrame

(* The peer has closed its half: the loop stays until every writer has ended,
   forgetting the forwarders whose writer has, without aborting their reader. *)
HandleFin(c) ==
  /\ Reads(c, "Fin")
  /\ conn' = [Read(c) EXCEPT ![c].pc = "drain", ![c].fin = TRUE]
  /\ HandlerFrame
Running(c) == {id \in Ids : conn[c].fwds[id] # 0 /\ fwd[conn[c].fwds[id]].wr # "ended"}
Drained(c) ==
  /\ conn[c].pc = "drain" /\ Running(c) = {}
  /\ EndConn(c, NewConn)

-----------------------------------------------------------------------------
(* Publishers: client.rs Publisher, GroupWriter. *)
(* A handle works as long as its connection, also when its control loop has ended. *)
IsOn(c) == conn[c].ctl \in {"on", "ended"} /\ conn[c].up

Announce(p) ==
  /\ IsOn(p)
  /\ Spend("announces")
  /\ conn' = ToRelay(p, [m |-> "Announce"])
  /\ UNCHANGED <<announced, hub, reg, lock, aliases, up, fwd, down, calls, closing>>

(* The application chooses the group's number, one in use included: budget.ids
   has the choices in the order they are made. *)
BeginGroup(p, t) ==
  /\ IsOn(p) /\ (budget.awaited => fwd # <<>>)
  /\ budget.ids # <<>> /\ budget' = [budget EXCEPT !.ids = Tail(@)]
  /\ up' = Append(up, [p |-> p, t |-> t, g |-> Head(budget.ids), alias |-> conn[p].aliases[t], objs |-> <<>>, n |-> 0,
                       pc |-> "head", to |-> t])
  /\ UNCHANGED <<announced, hub, reg, lock, aliases, conn, fwd, down, calls, closing>>
(* Positions count from 0 on each stream; by names the stream, to tell the objects
   of two streams of one group apart. *)
WriteObject(i, pr) ==
  /\ conn[up[i].p].up
  /\ Spend("objects")
  /\ up' = [up EXCEPT ![i].objs = Append(@, [t |-> up[i].t, g |-> up[i].g, o |-> up[i].n, pr |-> pr, by |-> i]),
                      ![i].n = @ + 1]
  /\ UNCHANGED <<announced, hub, reg, lock, aliases, conn, fwd, down, calls, closing>>

(* handle_group_stream at the relay.  On a lost connection any prefix arrives. *)
StreamFrame == UNCHANGED <<budget, aliases, conn, fwd, down, calls, closing>>

(* resolve_track_ref: a full name registers the publisher, an alias is looked up. *)
ResolveFull(i) ==
  /\ up[i].pc = "head" /\ up[i].alias = 0 /\ lock = 0
  /\ reg' = IF reg[up[i].t].conn = 0 THEN [reg EXCEPT ![up[i].t].conn = up[i].p] ELSE reg
  /\ up' = [up EXCEPT ![i].pc = "body"]
  /\ UNCHANGED <<announced, hub, lock>> /\ StreamFrame
ResolveAlias(i) ==
  /\ up[i].pc = "head" /\ up[i].alias # 0 /\ lock = 0
  /\ LET found == {t \in Tracks : reg[t].alias = up[i].alias}
     IN  up' = [up EXCEPT ![i].pc = IF found = {} THEN "unknown" ELSE "body",
                          ![i].to = IF found = {} THEN @ ELSE CHOOSE t \in found : TRUE]
  /\ UNCHANGED <<announced, hub, lock, reg>> /\ StreamFrame

(* Hub::publish.  A poisoned lock and a group in a gap of the window are panics,
   and the second poisons the lock. *)
Publish(i) ==
  /\ up[i].pc = "body" /\ up[i].objs # <<>>
  /\ LET obj == Head(up[i].objs)
         t == up[i].to
         h == hub[t]
     IN  IF h.poisoned \/ InGap(h.groups, obj)
         THEN /\ hub' = [hub EXCEPT ![t].poisoned = TRUE]
              /\ up' = [up EXCEPT ![i].pc = "panicked", ![i].objs = <<>>]
         ELSE /\ hub' = IF IsLate(h.groups, obj) THEN hub
                        ELSE [hub EXCEPT ![t].groups = Inserted(@, obj), ![t].log = Append(@, obj)]
              /\ up' = [up EXCEPT ![i].objs = Tail(@)]
  /\ announced' = TRUE
  /\ UNCHANGED <<reg, lock>> /\ StreamFrame
(* The connection is lost before the rest of the stream has arrived. *)
StreamLost(i) ==
  /\ up[i].pc \in {"head", "body"} /\ ~conn[up[i].p].up
  /\ up' = [up EXCEPT ![i].pc = "lost", ![i].objs = <<>>]
  /\ UNCHANGED <<announced, hub, reg, lock>> /\ StreamFrame

-----------------------------------------------------------------------------
(* Forwarders: spawn_forwarder. *)
ForwarderFrame == UNCHANGED <<budget, announced, hub, reg, lock, aliases, conn, up, calls, closing>>
Behind(f) == Len(hub[f.t].log) - f.cursor

(* The reader.  After a lag it waits for a group head. *)
Skips(f, obj) == f.skip /\ ~IsGroupHead(obj)
Taken(f, obj) ==
  [f EXCEPT !.cursor = @ + 1, !.skip = FALSE, !.queue = Pushed(@, obj), !.lossy = @ \/ ~HasRoom(f.queue),
            !.lostHeads = IF ~HasRoom(f.queue) /\ IsGroupHead(obj) /\ \A i \in DOMAIN f.queue : IsGroupHead(f.queue[i])
                          THEN @ \cup {obj.g} ELSE @]
ReadLive(i) ==
  /\ fwd[i].rd = "run" /\ Behind(fwd[i]) \in 1 .. BroadcastCapacity
  /\ LET f == fwd[i]
         obj == hub[f.t].log[f.cursor + 1]
     IN  fwd' = [fwd EXCEPT ![i] = IF Skips(f, obj) THEN [f EXCEPT !.cursor = @ + 1] ELSE Taken(f, obj)]
  /\ UNCHANGED down /\ ForwarderFrame
Lagged(i) ==
  /\ fwd[i].rd = "run" /\ Behind(fwd[i]) > BroadcastCapacity
  /\ fwd' = [fwd EXCEPT ![i].cursor = Len(hub[fwd[i].t].log) - BroadcastCapacity, ![i].skip = TRUE,
                        ![i].lossy = TRUE]
  /\ UNCHANGED down /\ ForwarderFrame

NewStream(f, g, objs) == [c |-> f.c, alias |-> f.alias, g |-> g, objs |-> objs, call |-> 0, pc |-> "new"]
(* The writer.  It ends when the connection refuses a stream or an object. *)
WriteReplay(i) ==
  /\ fwd[i].wr = "replay"
  /\ LET f == fwd[i]
     IN  IF f.replay = <<>> THEN fwd' = [fwd EXCEPT ![i].wr = "live"] /\ UNCHANGED down
         ELSE IF conn[f.c].up
         THEN /\ down' = Append(down, NewStream(f, f.replay[1].g, f.replay))
              /\ fwd' = [fwd EXCEPT ![i].wr = "live", ![i].sent = f.replay]
         ELSE fwd' = [fwd EXCEPT ![i].wr = "ended"] /\ UNCHANGED down
  /\ ForwarderFrame
WriteLive(i) ==
  /\ fwd[i].wr = "live" /\ fwd[i].queue # <<>>
  /\ LET f == fwd[i]
         obj == Head(f.queue)
         same == f.stream # 0 /\ down[f.stream].g = obj.g
     IN  IF conn[f.c].up
         THEN /\ down' = IF same THEN [down EXCEPT ![f.stream].objs = Append(@, obj)]
                         ELSE Append(down, NewStream(f, obj.g, <<obj>>))
              /\ fwd' = [fwd EXCEPT ![i].queue = Tail(@), ![i].sent = Append(@, obj),
                                    ![i].stream = IF same THEN @ ELSE Len(down) + 1]
         ELSE fwd' = [fwd EXCEPT ![i].wr = "ended", ![i].queue = Tail(@)] /\ UNCHANGED down
  /\ ForwarderFrame

-----------------------------------------------------------------------------
(* Subscribers: client.rs Subscriber. *)
Answered(k, st) == [calls EXCEPT ![k].st = st]

(* An answer still pending under the same id is dropped, and that call fails. *)
Subscribe(s, id, t, start) ==
  /\ conn[s].ctl \in {"on", "ended"} /\ Len(calls) < MaxCalls
  /\ Spend("calls")
  /\ LET k == Len(calls) + 1
         old == conn[s].pending[id]
         told == IF old = 0 THEN calls ELSE Answered(old, "error")
     IN  /\ calls' = Append(told, [s |-> s, id |-> id, t |-> t, start |-> start, got |-> <<>>,
                                   st |-> IF conn[s].up THEN "waiting" ELSE "error"])
         /\ conn' = [conn EXCEPT ![s].routes[id] = k, ![s].pending[id] = k,
                       ![s].toRelay = IF conn[s].up
                                      THEN Append(@, [m |-> "Subscribe", id |-> id, t |-> t, start |-> start]) ELSE @]
  /\ UNCHANGED <<announced, hub, reg, lock, aliases, up, fwd, down, closing>>
Unsubscribe(s, id) ==
  /\ IsOn(s) /\ \E k \in DOMAIN calls : calls[k].s = s /\ calls[k].id = id /\ calls[k].st = "ok"
  /\ Spend("unsubscribes")
  /\ conn' = [ToRelay(s, [m |-> "Unsubscribe", id |-> id]) EXCEPT ![s].routes[id] = 0]
  /\ UNCHANGED <<announced, hub, reg, lock, aliases, up, fwd, down, calls, closing>>

(* The application drops its handle, and with it the control stream's send half. *)
DropHandle(c) ==
  /\ IsOn(c) /\ \A k \in DOMAIN calls : calls[k].s = c => calls[k].st \in {"ok", "error"}
  /\ Spend("fins")
  /\ conn' = [ToRelay(c, [m |-> "Fin"]) EXCEPT ![c].ctl = "gone"]
  /\ UNCHANGED <<announced, hub, reg, lock, aliases, up, fwd, down, calls, closing>>

(* The control loop of the peer; the handshake waits for SETUP. *)
PeerReads(c, ms) == conn[c].ctl \in {"setup", "on", "gone"} /\ conn[c].toPeer # <<>> /\ Head(conn[c].toPeer).m \in ms
PeerRead(c) == [conn EXCEPT ![c].toPeer = Tail(@)]
PeerFrame == UNCHANGED <<budget, announced, hub, reg, lock, aliases, up, fwd, down, closing>>

PeerSetup(c) ==
  /\ PeerReads(c, {"Setup"})
  /\ conn' = [PeerRead(c) EXCEPT ![c].ctl = "on"]
  /\ UNCHANGED calls /\ PeerFrame
PeerIgnores(c) ==
  /\ PeerReads(c, {"AnnounceOk"})
  /\ conn' = PeerRead(c)
  /\ UNCHANGED calls /\ PeerFrame
PublisherSubscribed(c) ==
  /\ PeerReads(c, {"Subscribe"})
  /\ LET msg == Head(conn[c].toPeer)
     IN  conn' = [PeerRead(c) EXCEPT ![c].aliases[msg.t] = msg.id,
                    ![c].toRelay = IF conn[c].up THEN Append(@, [m |-> "SubscribeOk"]) ELSE @]
  /\ UNCHANGED calls /\ PeerFrame
SubscriberAnswered(c) ==
  /\ PeerReads(c, {"SubscribeOk", "SubscribeError"})
  /\ LET msg == Head(conn[c].toPeer)
         k == conn[c].pending[msg.id]
     IN  /\ conn' = [PeerRead(c) EXCEPT ![c].pending[msg.id] = 0]
         /\ calls' = IF k = 0 THEN calls ELSE Answered(k, IF msg.m = "SubscribeOk" THEN "ok" ELSE "refused")
  /\ PeerFrame
(* The call itself removes the route of its id, be it by now that of a later call. *)
CallRefused(k) ==
  /\ calls[k].st = "refused"
  /\ calls' = Answered(k, "error")
  /\ conn' = [conn EXCEPT ![calls[k].s].routes[calls[k].id] = 0]
  /\ PeerFrame
(* The loop ends with GOAWAY, or with the connection; pending answers stay. *)
PeerEnds(c) ==
  /\ \/ PeerReads(c, {"Goaway"})
     \/ conn[c].ctl \in {"setup", "on", "gone"} /\ ~conn[c].up
  /\ conn' = [conn EXCEPT ![c].ctl = IF @ = "setup" THEN "off" ELSE "ended", ![c].toPeer = <<>>]
  /\ UNCHANGED calls /\ PeerFrame

(* read_group_stream. *)
DownFrame == UNCHANGED <<budget, announced, hub, reg, lock, aliases, conn, up, fwd, closing>>
Route(d) ==
  /\ down[d].pc = "new"
  /\ LET k == conn[down[d].c].routes[down[d].alias]
     IN  down' = [down EXCEPT ![d].pc = IF k = 0 THEN "dropped" ELSE "body", ![d].call = k]
  /\ UNCHANGED calls /\ DownFrame
(* The object takes the group of the stream's header. *)
Deliver(d) ==
  /\ down[d].pc = "body" /\ down[d].objs # <<>>
  /\ down' = [down EXCEPT ![d].objs = Tail(@)]
  /\ calls' = [calls EXCEPT ![down[d].call].got = Append(@, [Head(down[d].objs) EXCEPT !.g = down[d].g])]
  /\ DownFrame
DownLost(d) ==
  /\ down[d].pc \in {"new", "body"} /\ ~conn[down[d].c].up
  /\ down' = [down EXCEPT ![d].pc = "lost", ![d].objs = <<>>]
  /\ UNCHANGED calls /\ DownFrame

-----------------------------------------------------------------------------
(* Connections end; Relay::shutdown. *)
Lose(c) ==
  /\ conn[c].up
  /\ Spend("losses")
  /\ conn' = [conn EXCEPT ![c].up = FALSE]
  /\ UNCHANGED <<announced, hub, reg, lock, aliases, up, fwd, down, calls, closing>>
ShutdownGoaway ==
  /\ closing = "no"
  /\ Spend("shutdowns")
  /\ closing' = "window"
  /\ conn' = [c \in Conns |-> IF conn[c].reg /\ conn[c].up
                              THEN [conn[c] EXCEPT !.toPeer = Append(@, [m |-> "Goaway"])] ELSE conn[c]]
  /\ UNCHANGED <<announced, hub, reg, lock, aliases, up, fwd, down, calls>>
ShutdownClose ==
  /\ closing = "window"
  /\ closing' = "closed"
  /\ conn' = [c \in Conns |-> [conn[c] EXCEPT !.up = FALSE]]
  /\ UNCHANGED <<budget, announced, hub, reg, lock, aliases, up, fwd, down, calls>>

-----------------------------------------------------------------------------
Handler(c) ==
  \/ Setup(c) \/ Register(c) \/ HandlerLost(c)
  \/ HandleAnnounce(c) \/ HandleSubscribe(c) \/ BindNothing(c) \/ BindSend(c) \/ BindSent(c) \/ Attach(c)
  \/ HandleUnsubscribe(c) \/ HandleSubscribeOk(c) \/ HandleFin(c) \/ Drained(c)
Peer(c) ==
  PeerSetup(c) \/ PeerIgnores(c) \/ PublisherSubscribed(c) \/ SubscriberAnswered(c) \/ PeerEnds(c)
Upstream(i) == ResolveFull(i) \/ ResolveAlias(i) \/ Publish(i) \/ StreamLost(i)
Forward(i) == ReadLive(i) \/ Lagged(i) \/ WriteReplay(i) \/ WriteLive(i)
Downstream(d) == Route(d) \/ Deliver(d) \/ DownLost(d)
Progress ==
  \/ \E c \in Conns : Handler(c) \/ Peer(c)
  \/ \E i \in DOMAIN up : Upstream(i)
  \/ \E i \in DOMAIN fwd : Forward(i)
  \/ \E d \in DOMAIN down : Downstream(d)
  \/ \E k \in DOMAIN calls : CallRefused(k)
  \/ ShutdownClose
FreeId == IF budget.reuse THEN 1 ELSE Len(calls) + 1
Input ==
  \/ \E c \in Conns : Connect(c) \/ Lose(c)
  \/ \E p \in Pubs : Announce(p) \/ \E t \in budget.tracks : BeginGroup(p, t)
  \/ \E i \in DOMAIN up : \E pr \in budget.priorities : WriteObject(i, pr)
  \/ \E s \in Subs, t \in budget.tracks, start \in budget.starts : Subscribe(s, FreeId, t, start)
  \/ \E s \in Subs, id \in Ids : Unsubscribe(s, id)
  \/ \E s \in Subs : DropHandle(s)
  \/ ShutdownGoaway
Next == Progress \/ Input
Spec == Init /\ [][Next]_vars

-----------------------------------------------------------------------------
(* Every variable has its type, and every buffer keeps its bound. *)
TypeOK ==
  /\ announced \in BOOLEAN /\ lock \in Conns \cup {0} /\ aliases \in Nat /\ closing \in {"no", "window", "closed"}
  /\ \A t \in Tracks :
       Len(hub[t].groups) <= GroupCapacity /\ reg[t].conn \in Pubs \cup {0} /\ reg[t].alias \in 0 .. aliases
  /\ \A c \in Conns :
       /\ conn[c].pc \in {"off", "setup", "register", "idle", "bind", "sent", "attach", "drain", "done", "panicked"}
       /\ conn[c].ctl \in {"off", "setup", "on", "gone", "ended"}
  /\ \A i \in DOMAIN up : up[i].pc \in {"head", "body", "unknown", "panicked", "lost"}
  /\ \A i \in DOMAIN fwd : Len(fwd[i].queue) <= QueueCapacity /\ fwd[i].wr \in {"replay", "live", "ended"}
  /\ \A d \in DOMAIN down : down[d].pc \in {"new", "body", "dropped", "lost"}
  /\ \A k \in DOMAIN calls : calls[k].st \in {"waiting", "refused", "ok", "error"}

(* The relay knows every alias a publisher uses, and takes it for the track the
   publisher means: the alias is in the registry before the lock under which it
   was sent is released (relay.rs: maybe_bind_upstream_alias, resolve_track_ref).  Buffers keep their
   bounds meanwhile. *)
AliasResolves ==
  TypeOK /\ \A i \in DOMAIN up : up[i].pc # "unknown" /\ (up[i].pc = "body" => up[i].to = up[i].t)

Newest(objs) == Max({x.g : x \in objs})

(* The numbers of the newest groups of a set of objects, as many as the cache keeps. *)
NewestGroups(objs) == {g \in {x.g : x \in objs} : Cardinality({x.g : x \in {y \in objs : y.g > g}}) < GroupCapacity}

(* The cache holds the newest groups taken, each group once and in order of their
   numbers, and of each group every object that was taken, once and in order of
   their positions, also when several streams, of one publisher or of two, write
   the same group (cache.rs: insert). *)
CacheIsWindow ==
  \A t \in Tracks :
    LET groups == hub[t].groups
        taken == Range(hub[t].log)
    IN  /\ [i \in DOMAIN groups |-> groups[i].g] = SetToSortSeq(NewestGroups(taken), <)
        /\ \A i \in DOMAIN groups :
             LET objs == groups[i].objs
             IN  /\ ToSet(objs) = {x \in taken : x.g = groups[i].g} /\ IsInjective(objs)
                 /\ \A a, b \in DOMAIN objs : a < b => objs[a].o <= objs[b].o

SameId(k) == {j \in DOMAIN calls : calls[j].s = calls[k].s /\ calls[j].id = calls[k].id}

(* A subscription hears no object twice, and only objects of its track as they
   were published, group included: the snapshot and the receiver are taken under
   one lock (hub.rs: subscribe; client.rs: read_group_stream).  The comment on
   Subscription.live allows more, an overlap that the consumer removes.  Two
   streams of one group bring different objects, and a subscribe_id used again
   shares its alias and is excepted. *)
ReceivedOnce ==
  \A k \in DOMAIN calls :
    SameId(k) = {k} =>
      /\ Range(calls[k].got) \subseteq Range(hub[calls[k].t].log)
      /\ Cardinality(Range(calls[k].got)) = Len(calls[k].got)

Quiet == ~ENABLED Progress

(* What a subscription made after the first n objects were taken should hear. *)
Due(t, start, n) ==
  LET log == hub[t].log
      old == {log[i] : i \in 1 .. n}
  IN  {log[i] : i \in n + 1 .. Len(log)}
        \cup IF start = "latest" THEN {x \in old : x.g = Newest(old)} ELSE {}

(* When nothing moves any more, a forwarder that met neither a lag nor a full
   queue has delivered all of the newest group and all that came after it
   (hub.rs: subscribe, relay.rs: spawn_forwarder). *)
NothingMissed ==
  Quiet =>
    \A i \in DOMAIN fwd :
      LET f == fwd[i]
          k == conn[f.c].routes[f.alias]
      IN  conn[f.c].up /\ f.rd = "run" /\ f.wr = "live" /\ ~f.lossy /\ k # 0 /\ SameId(k) = {k}
            => Range(calls[k].got) = Due(f.t, f.start, f.from)

(* On a track whose groups were taken one after the other, a subscription from
   the newest group is sent no object of a group before the group's head, however
   far it lags behind and whatever its queue drops, unless the head found the
   queue full of heads (dropq.rs: push, relay.rs: spawn_forwarder). *)
HeadsFirst ==
  \A i \in DOMAIN fwd :
    LET f == fwd[i]
        log == hub[f.t].log
    IN  f.start = "latest" /\ (\A a, b \in DOMAIN log : a < b => log[a].g <= log[b].g)
          => \A n \in DOMAIN f.sent :
               \/ IsGroupHead(f.sent[n])
               \/ f.sent[n].g \in f.lostHeads
               \/ \E m \in 1 .. n - 1 : f.sent[m].g = f.sent[n].g /\ IsGroupHead(f.sent[m])

(* When the handler of a connection has returned, both tasks of its forwarders
   have ended, but for one whose id was used again, and for the reader of one
   that outlived a half-closed control stream (relay.rs: handle_connection). *)
ForwardersEnd ==
  \A i \in DOMAIN fwd :
    LET f == fwd[i]
    IN  conn[f.c].pc = "done" /\ (\A j \in DOMAIN fwd : j > i => fwd[j].c # f.c \/ fwd[j].alias # f.alias)
          => f.wr = "ended" /\ (conn[f.c].fin \/ f.rd = "ended")

(* A subscribe call that never returns is one whose control loop has ended, with
   GOAWAY or with the connection, or whose handler has panicked on a poisoned
   track (client.rs: subscribe). *)
HangsAreExplained ==
  Quiet => \A k \in DOMAIN calls :
             calls[k].st = "waiting" => conn[calls[k].s].ctl = "ended" \/ conn[calls[k].s].pc = "panicked"

(* cache.rs, in the expect of insert: a group id that falls into the window has
   its group there. *)
WindowHasGroup == \A t \in Tracks : ~hub[t].poisoned

(* Seen by a subscriber the snapshot and the live objects are one sequence
   without a seam: nothing twice, and nothing missing but by lag or drop. *)
SeamlessJoin == ReceivedOnce /\ NothingMissed

(* Tasks and calls end: the forwarders of a connection with its handler, and a
   subscribe call unless its control loop or its handler is gone. *)
TasksEnd == ForwardersEnd /\ HangsAreExplained
=============================================================================
