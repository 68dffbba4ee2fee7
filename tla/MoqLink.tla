------------------------------ MODULE MoqLink -------------------------------
(***************************************************************************)
(* The GM-PQ control channel of moq-live (gmpq.rs) over the gm-pq-stack    *)
(* API (api.rs).  Each connection has a bridge on either side: a blocking  *)
(* worker thread, which runs the handshake and then the message loop, and  *)
(* the two shuttle tasks, which move its bytes to and from a QUIC stream.  *)
(* The connections of one client share its ticket slot, and those of the   *)
(* server its ticket cache, locked for the time of a handshake.            *)
(*                                                                         *)
(* The queues hold whole frames.  Faults: the QUIC connection is lost, a   *)
(* frame is damaged, a client stops, the server restarts.                  *)
(***************************************************************************)
EXTENDS GmPq

CONSTANTS
  Conns,     \* connections, numbers from 1
  MaxSeq,    \* sequence numbers of the packets given to a bare session
  Budgets    \* the instances: how much of each input and fault

ASSUME LinkConstants == Conns \subseteq Nat \ {0} /\ MaxSeq \in Nat

VARIABLES
  now,     \* the clock, in ticks of a second
  budget,  \* what is left of the instance's inputs and faults
  srv,     \* the server: epoch of its secrets, cache, lock, tickets issued
  slot,    \* ClientIdentity.ticket, a sequence of at most one
  pk,      \* the client's static key
  br,      \* the bridges: inbound, outbox, wire, closed
  task,    \* which shuttle tasks run
  net,     \* the QUIC stream from each side: frames under way, finished
  cut,     \* connections that are lost
  frozen,  \* connections whose client has stopped
  w,       \* the workers
  win,     \* the window of a bare session
  hist     \* history, for the properties

vars == <<now, budget, srv, slot, pk, br, task, net, cut, frozen, w, win, hist>>

ServerPk == <<"server">>

NewBridge == [inbound |-> <<>>, outbox |-> <<>>, wire |-> <<>>, closed |-> FALSE]
NewWorker == [pc |-> "off", e |-> <<>>, peerE |-> <<>>, ss |-> NewState, ticket |-> <<>>, early |-> FALSE,
              ses |-> Split(NewState), peer |-> <<>>, resumed |-> FALSE, tx |-> 0, rx |-> NewWindow,
              listens |-> TRUE]
Both(v) == [c \in Conns |-> [x \in Sides |-> v]]

Init ==
  /\ now = 0
  /\ budget \in Budgets
  /\ srv = [epoch |-> 0, cache |-> <<>>, lock |-> 0, issued |-> 0]
  /\ slot = <<>>
  /\ pk = <<"client", 1>>
  /\ br = Both(NewBridge)
  /\ task = Both({})
  /\ net = Both([frames |-> <<>>, fin |-> FALSE])
  /\ cut = {} /\ frozen = {}
  /\ w = Both(NewWorker)
  /\ win = NewWindow
  /\ hist = [sent |-> Both(<<>>), got |-> Both(<<>>), uses |-> <<>>, nonces |-> {}, reused |-> {},
             flipped |-> FALSE, damaged |-> FALSE, accepted |-> <<>>]

Spend(what) == budget[what] > 0 /\ budget' = [budget EXCEPT ![what] = @ - 1]

-----------------------------------------------------------------------------
(* Workers.  A step of a worker takes a frame, if any, and writes frames. *)
InHandshake == {"cookie", "psk", "msg2", "ticket", "first", "retry", "msg1", "msg3"}
Runs(c, x) == ~(x = "client" /\ c \in frozen)
Reads(c, x, pcs) == Runs(c, x) /\ w[c][x].pc \in pcs /\ br[c][x].inbound # <<>>
Frame(c, x) == Head(br[c][x].inbound)
Took(c, x) == [br[c][x] EXCEPT !.inbound = Tail(@)]
Wrote(b, f) == [b EXCEPT !.wire = Append(@, f)]
Becomes(c, x, worker, bridge) ==
  /\ w' = [w EXCEPT ![c][x] = worker]
  /\ br' = [br EXCEPT ![c][x] = bridge]
Frame0 == UNCHANGED <<now, budget, pk, task, net, cut, frozen, win>>

(* Mutant: a failed handshake keeps the lock. *)
Unlocked_Keeps(c) == srv

Unlocked(c) == IF srv.lock = c THEN [srv EXCEPT !.lock = 0] ELSE srv
(* The handshake returns an error: the bridge is closed and the lock dropped. *)
Fails(c, x) ==
  /\ Becomes(c, x, [w[c][x] EXCEPT !.pc = "done"], [br[c][x] EXCEPT !.closed = TRUE])
  /\ srv' = IF x = "server" THEN Unlocked(c) ELSE srv
  /\ UNCHANGED <<slot, hist>>

(* Sealing: which nonces were used, and which twice. *)
Used(h, boxes) ==
  LET ns == {<<b.key, b.seq>> : b \in boxes}
  IN  [h EXCEPT !.nonces = @ \cup ns, !.reused = @ \cup (ns \cap h.nonces)]

(* The length before a frame is larger than what will come: read_exact takes
   all that follows, and waits. *)
Starved(b) == b.inbound # <<>> /\ Head(b.inbound).t = "long"

(* read_exact meets the end of the stream. *)
ReadEof(c, x) ==
  /\ Runs(c, x)
  /\ w[c][x].pc \in InHandshake
  /\ br[c][x].inbound = <<>> \/ Starved(br[c][x])
  /\ br[c][x].closed
  /\ Fails(c, x) /\ Frame0

(* expect_frame: a frame of another type, or a length beyond MAX_FRAME. *)
Expected == [cookie |-> {"COOKIE"}, psk |-> {"PSK_REJECT", "MSG2"}, msg2 |-> {"MSG2"}, ticket |-> {"DATA"},
             first |-> {"MSG1", "MSG1_PSK"}, retry |-> {"RETRY"}, msg1 |-> {"MSG1"}, msg3 |-> {"MSG3"}]
ReadUnexpected(c, x) ==
  /\ Reads(c, x, InHandshake)
  /\ Frame(c, x).t \notin Expected[w[c][x].pc] /\ ~Starved(br[c][x])
  /\ Fails(c, x) /\ Frame0

-----------------------------------------------------------------------------
(* The client: client_handshake, client_connect_full, client_connect_resume. *)
ClientIs(c, worker, bridge) == Becomes(c, "client", worker, bridge) /\ UNCHANGED srv

Dial(c) ==
  /\ w[c]["client"].pc = "off" /\ \A d \in Conns : d < c => w[d]["client"].pc # "off"
  /\ Spend("dials")
  /\ w' = [w EXCEPT ![c]["client"].pc = "start"]
  /\ task' = [task EXCEPT ![c]["client"] = {"in", "out"}]
  /\ UNCHANGED <<now, srv, slot, pk, br, net, cut, frozen, win, hist>>

Msg1(e) == [t |-> "MSG1", e |-> e]
FullWorker(c) ==
  LET e == <<"e", c, "full">> IN [NewWorker EXCEPT !.pc = "cookie", !.e = e, !.ss = WriteMsg1(NewState, e)]

ClientFull(c) ==
  /\ Runs(c, "client") /\ w[c]["client"].pc = "start" /\ slot = <<>>
  /\ ClientIs(c, FullWorker(c), Wrote(br[c]["client"], Msg1(FullWorker(c).e)))
  /\ UNCHANGED <<slot, hist>> /\ Frame0
ClientResume(c) ==
  /\ Runs(c, "client") /\ w[c]["client"].pc = "start" /\ slot # <<>>
  /\ LET e == <<"e", c, "psk">>
         ss == WriteMsg1(NewWithPsk(slot[1].id), e)
         early == IF budget.early THEN <<SealEarlyData(ss)>> ELSE <<>>
     IN  /\ ClientIs(c, [NewWorker EXCEPT !.pc = "psk", !.e = e, !.ss = ss, !.ticket = slot],
                     Wrote(br[c]["client"], [t |-> "MSG1_PSK", ticket |-> slot[1], e |-> e, early |-> early]))
         /\ hist' = Used(hist, Range(early))
  /\ UNCHANGED slot /\ Frame0

ClientCookie(c) ==
  /\ Reads(c, "client", {"cookie"}) /\ Frame(c, "client").t = "COOKIE"
  /\ LET me == w[c]["client"]
     IN  ClientIs(c, [me EXCEPT !.pc = "msg2"],
                  Wrote(Took(c, "client"), [t |-> "RETRY", cookie |-> Frame(c, "client").cookie, e |-> me.e]))
  /\ UNCHANGED <<slot, hist>> /\ Frame0

(* The ticket was rejected: a full handshake, with fresh keys. *)
Fallback(c) == FullWorker(c)
ClientRejected(c) ==
  /\ Reads(c, "client", {"psk"}) /\ Frame(c, "client").t = "PSK_REJECT"
  /\ ClientIs(c, Fallback(c), Wrote(Took(c, "client"), Msg1(Fallback(c).e)))
  /\ UNCHANGED <<slot, hist>> /\ Frame0

EarlyAccepted(me, m) == me.pc = "psk" /\ m.early

(* read_msg2 and write_msg3_with_auth; the anchor knows the server's key or not. *)
ClientMsg2(c) ==
  /\ Reads(c, "client", {"psk", "msg2"}) /\ Frame(c, "client").t = "MSG2"
  /\ LET me == w[c]["client"]
         m == Frame(c, "client")
         s == Msg3State(me.ss, me.e, m, me.e)
         out == WriteMsg3(s, m, me.e, pk)
     IN  IF Msg2Opens(me.ss, me.e, m) /\ budget.trusted
         THEN /\ ClientIs(c, [me EXCEPT !.pc = "ticket", !.ses = Msg3Session(s, pk), !.peer = m.box.text,
                                        !.resumed = me.pc = "psk", !.early = EarlyAccepted(me, m)],
                          Wrote(Took(c, "client"), out))
              /\ hist' = Used(hist, {out.box})
              /\ UNCHANGED slot
         ELSE Fails(c, "client")
  /\ Frame0

(* recv_ticket_push; the ticket is kept for the next connection. *)
ClientTicket(c) ==
  /\ Reads(c, "client", {"ticket"}) /\ Frame(c, "client").t = "DATA"
  /\ LET me == w[c]["client"]
         box == Frame(c, "client").box
     IN  IF Opens(me.ses.r2i, me.ses.id, box) /\ box.text.ticket # <<>>
         THEN /\ ClientIs(c, [me EXCEPT !.pc = "loop", !.rx = CheckAndMark(@, box.seq)], Took(c, "client"))
              /\ slot' = box.text.ticket
              /\ UNCHANGED hist
         ELSE Fails(c, "client")
  /\ Frame0

-----------------------------------------------------------------------------
(* The server: server_handshake, server_accept, try_resume, full_handshake. *)
Server(c) == w[c]["server"]
Reply(c, worker, frame) == Becomes(c, "server", worker, Wrote(Took(c, "server"), frame))

(* The relay accepts the stream once it carries something. *)
Accept(c) ==
  /\ Server(c).pc = "off" /\ c \notin cut /\ net[c]["client"].frames # <<>>
  /\ w' = [w EXCEPT ![c]["server"].pc = "lock"]
  /\ task' = [task EXCEPT ![c]["server"] = {"in", "out"}]
  /\ UNCHANGED <<now, budget, srv, slot, pk, br, net, cut, frozen, win, hist>>
LockCache(c) ==
  /\ Server(c).pc = "lock" /\ srv.lock = 0
  /\ srv' = [srv EXCEPT !.lock = c]
  /\ w' = [w EXCEPT ![c]["server"].pc = "first"]
  /\ UNCHANGED <<slot, br, hist>> /\ Frame0

ServerMsg1(c) ==
  /\ Reads(c, "server", {"first", "msg1"}) /\ Frame(c, "server").t = "MSG1"
  /\ LET e == Frame(c, "server").e
     IN  Reply(c, [Server(c) EXCEPT !.pc = "retry", !.peerE = e],
               [t |-> "COOKIE", cookie |-> Cookie(srv.epoch, e, now)])
  /\ UNCHANGED <<srv, slot, hist>> /\ Frame0

(* write_msg2 in the state ss, which has read message 1. *)
SendMsg2(c, me, ss, e, peer, flag) ==
  LET s == Msg2State(ss, peer, e, <<"ee", e>>)
      m == WriteMsg2(s, peer, e, <<"ee", e>>, ServerPk, flag)
  IN  /\ Reply(c, [me EXCEPT !.pc = "msg3", !.e = e, !.ss = AfterMsg2(s, ServerPk)], m)
      /\ hist' = [Used(hist, {m.box}) EXCEPT
                    !.uses = IF me.ticket = <<>> THEN @
                             ELSE Append(@, [id |-> me.ticket[1].id, exp |-> me.ticket[1].exp, at |-> now])]

(* cookie_roundtrip and the first half of full_handshake. *)
ServerRetry(c) ==
  /\ Reads(c, "server", {"retry"}) /\ Frame(c, "server").t = "RETRY"
  /\ LET me == Server(c)
         m == Frame(c, "server")
     IN  IF m.e = me.peerE /\ CookieOk(srv.epoch, me.peerE, m.cookie, now)
         THEN /\ SendMsg2(c, me, ReadMsg1(NewState, me.peerE), <<"r", c, "full">>, me.peerE, FALSE)
              /\ UNCHANGED <<srv, slot>>
         ELSE Fails(c, "server")
  /\ Frame0

(* try_resume: the ticket must open and be new to the cache, and the early data
   must open; otherwise PSK_REJECT and a full handshake. *)
Resumable(c) == LET t == Frame(c, "server").ticket IN TicketOpens(srv.epoch, t, now)
Fresh(c) == Resumable(c) /\ ~IsReplay(srv.cache, Frame(c, "server").ticket.id, now)
ResumeState(c) ==
  LET m == Frame(c, "server") IN ReadMsg1(NewWithPsk(m.ticket.id), m.e)
(* read_msg1: validate_public. *)
Malformed == <<"malformed">>
EarlyDataOpens(c) ==
  LET m == Frame(c, "server")
  IN  m.e # Malformed /\ \A box \in Range(m.early) : EarlyOpens(ResumeState(c), box)
ServerPsk(c) ==
  /\ Reads(c, "server", {"first"}) /\ Frame(c, "server").t = "MSG1_PSK"
  /\ LET m == Frame(c, "server")
     IN  /\ srv' = IF Fresh(c) THEN [srv EXCEPT !.cache = Recorded(@, m.ticket.id, m.ticket.exp, now)]
                   ELSE IF Resumable(c) THEN [srv EXCEPT !.cache = Purged(@, now)] ELSE srv
         /\ IF Fresh(c) /\ EarlyDataOpens(c)
            THEN SendMsg2(c, [Server(c) EXCEPT !.ticket = <<m.ticket>>, !.early = m.early # <<>>], ResumeState(c),
                          <<"r", c, "psk">>, m.e, m.early # <<>>)
            ELSE /\ Reply(c, [Server(c) EXCEPT !.pc = "msg1"], [t |-> "PSK_REJECT"])
                 /\ UNCHANGED hist
  /\ UNCHANGED slot /\ Frame0

AfterPush == 1

(* Mutant: the ticket is taken for anybody's. *)
IsOwner_Any(me, client) == TRUE
IsOwner(me, client) == me.ticket = <<>> \/ me.ticket[1].fp = client

(* read_msg3_with_auth, the check of the ticket's owner, finish_server. *)
ServerMsg3(c) ==
  /\ Reads(c, "server", {"msg3"}) /\ Frame(c, "server").t = "MSG3"
  /\ LET me == Server(c)
         m == Frame(c, "server")
         client == m.box.text.pk
         ses == AfterMsg3(me.ss, me.e, ServerPk, m)
         ticket == Ticket(srv.epoch, srv.issued + 1, client, now)
         box == Seal(ses.r2i, 0, ses.id, [ticket |-> <<ticket>>, msg |-> 0])
     IN  IF Msg3Opens(me.ss, me.e, ServerPk, m) /\ Verify(budget.pins, client) /\ IsOwner(me, client)
         THEN /\ Reply(c, [me EXCEPT !.pc = "loop", !.ses = ses, !.peer = client, !.resumed = me.ticket # <<>>,
                                     !.tx = AfterPush], [t |-> "DATA", box |-> box])
              /\ srv' = [srv EXCEPT !.issued = @ + 1, !.lock = 0]
              /\ hist' = Used(hist, {box})
              /\ UNCHANGED slot
         ELSE Fails(c, "server")
  /\ Frame0

-----------------------------------------------------------------------------
(* message_loop: it drains the outbox (pc "loop"), then waits (pc "wait"); a
   message that does not end keeps it inside recv_msg (pc "recv"). *)
TxKey(c, x) == IF x = "client" THEN w[c][x].ses.i2r ELSE w[c][x].ses.r2i
RxKey(c, x) == IF x = "client" THEN w[c][x].ses.r2i ELSE w[c][x].ses.i2r
Loops(c, x, pc) == Runs(c, x) /\ w[c][x].pc = pc
Established(c, x) == w[c][x].pc \in {"loop", "wait", "recv"}

LoopSend(c, x) ==
  /\ Loops(c, x, "loop") /\ br[c][x].outbox # <<>>
  /\ LET b == br[c][x]
         box == Seal(TxKey(c, x), w[c][x].tx, w[c][x].ses.id, [ticket |-> <<>>, msg |-> Head(b.outbox)])
     IN  /\ Becomes(c, x, [w[c][x] EXCEPT !.tx = @ + 1],
                    Wrote([b EXCEPT !.outbox = Tail(@)], [t |-> "DATA", box |-> box]))
         /\ hist' = Used(hist, {box})
  /\ UNCHANGED <<srv, slot>> /\ Frame0
LoopDrained(c, x) ==
  /\ Loops(c, x, "loop") /\ br[c][x].outbox = <<>>
  /\ w' = [w EXCEPT ![c][x].pc = "wait"]
  /\ UNCHANGED <<srv, slot, br, hist>> /\ Frame0

(* The wait is over.  A closed bridge ends the loop before anything else. *)
LoopWakes(c, x) ==
  /\ Loops(c, x, "wait")
  /\ br[c][x].closed \/ br[c][x].outbox # <<>>
  /\ w' = [w EXCEPT ![c][x].pc = IF br[c][x].closed THEN "done" ELSE "loop"]
  /\ UNCHANGED <<srv, slot, br, hist>> /\ Frame0

(* recv_msg opens the box and asks the window; then the inbox. *)
LoopRecv(c, x) ==
  /\ Loops(c, x, "wait") /\ br[c][x].outbox = <<>> /\ ~br[c][x].closed
  /\ br[c][x].inbound # <<>> /\ ~Starved(br[c][x])
  /\ LET f == Frame(c, x)
         me == w[c][x]
     IN  IF f.t = "DATA" /\ Opens(RxKey(c, x), me.ses.id, f.box) /\ Accepts(me.rx, f.box.seq) /\ me.listens
         THEN /\ Becomes(c, x, [me EXCEPT !.pc = "loop", !.rx = CheckAndMark(@, f.box.seq)], Took(c, x))
              /\ hist' = [hist EXCEPT !.got[c][x] = Append(@, f.box.text.msg)]
         ELSE /\ Becomes(c, x, [me EXCEPT !.pc = "done"], [Took(c, x) EXCEPT !.closed = TRUE])
              /\ UNCHANGED hist
  /\ UNCHANGED <<srv, slot>> /\ Frame0

(* Inside recv_msg the outbox has to wait, until the stream ends. *)
LoopBlocks(c, x) ==
  /\ Loops(c, x, "wait") /\ br[c][x].outbox = <<>> /\ ~br[c][x].closed /\ Starved(br[c][x])
  /\ w' = [w EXCEPT ![c][x].pc = "recv"]
  /\ UNCHANGED <<srv, slot, br, hist>> /\ Frame0
LoopCut(c, x) ==
  /\ Loops(c, x, "recv") /\ br[c][x].closed
  /\ w' = [w EXCEPT ![c][x].pc = "done"]
  /\ UNCHANGED <<srv, slot, br, hist>> /\ Frame0

(* Mutant: the latest message goes first. *)
Queued_Front(outbox, msg) == <<msg>> \o outbox
Queued(outbox, msg) == Append(outbox, msg)

(* GmPqSender::send refuses once the bridge is closed. *)
Send(c, x) ==
  /\ Established(c, x) /\ Runs(c, x) /\ ~br[c][x].closed
  /\ Spend("sends")
  /\ br' = [br EXCEPT ![c][x].outbox = Queued(@, Len(hist.sent[c][x]) + 1)]
  /\ hist' = [hist EXCEPT !.sent[c][x] = Append(@, Len(hist.sent[c][x]) + 1)]
  /\ UNCHANGED <<now, srv, slot, pk, task, net, cut, frozen, w, win>>
(* The application drops its GmPqReceiver. *)
DropReceiver(c, x) ==
  /\ Established(c, x) /\ Runs(c, x) /\ w[c][x].listens
  /\ Spend("drops")
  /\ w' = [w EXCEPT ![c][x].listens = FALSE]
  /\ UNCHANGED <<now, srv, slot, pk, br, task, net, cut, frozen, win, hist>>

-----------------------------------------------------------------------------
(* shuttle.  Of what was under way when the connection was lost, any prefix arrives. *)
TaskFrame == UNCHANGED <<now, budget, srv, slot, pk, cut, frozen, w, win, hist>>

OutboundDone(b) == b.closed /\ b.wire = <<>>

Outbound(c, x) ==
  /\ "out" \in task[c][x]
  /\ LET b == br[c][x]
     IN  \/ /\ OutboundDone(b)
            /\ net' = [net EXCEPT ![c][x].fin = TRUE]
            /\ task' = [task EXCEPT ![c][x] = @ \ {"out"}]
            /\ UNCHANGED br
         \/ /\ ~OutboundDone(b) /\ b.wire # <<>> /\ c \notin cut
            /\ net' = [net EXCEPT ![c][x].frames = @ \o b.wire]
            /\ br' = [br EXCEPT ![c][x].wire = <<>>]
            /\ UNCHANGED task
         \/ /\ ~OutboundDone(b) /\ b.wire # <<>> /\ c \in cut
            /\ br' = [br EXCEPT ![c][x].wire = <<>>, ![c][x].closed = TRUE]
            /\ task' = [task EXCEPT ![c][x] = @ \ {"out"}]
            /\ UNCHANGED net
  /\ TaskFrame

Inbound(c, x) ==
  /\ "in" \in task[c][x]
  /\ LET n == net[c][Other(x)]
     IN  \/ /\ n.frames # <<>>
            /\ net' = [net EXCEPT ![c][Other(x)].frames = Tail(@)]
            /\ br' = [br EXCEPT ![c][x].inbound = Append(@, Head(n.frames))]
            /\ UNCHANGED task
         \/ /\ c \in cut \/ (n.frames = <<>> /\ n.fin)
            /\ br' = [br EXCEPT ![c][x].closed = TRUE]
            /\ task' = [task EXCEPT ![c][x] = @ \ {"in"}]
            /\ UNCHANGED net
  /\ TaskFrame

-----------------------------------------------------------------------------
(* Faults and the environment. *)
Tick ==
  /\ Spend("ticks")
  /\ now' = now + 1
  /\ UNCHANGED <<srv, slot, pk, br, task, net, cut, frozen, w, win, hist>>
CutOff(c) ==
  /\ c \notin cut /\ w[c]["client"].pc # "off"
  /\ Spend("cuts")
  /\ cut' = cut \cup {c}
  /\ UNCHANGED <<now, srv, slot, pk, br, task, net, frozen, w, win, hist>>
(* The client's worker is not scheduled any more; its connection stays up. *)
Freeze(c) ==
  /\ c \notin frozen /\ w[c]["client"].pc \notin {"off", "done"}
  /\ Spend("freezes")
  /\ frozen' = frozen \cup {c}
  /\ UNCHANGED <<now, srv, slot, pk, br, task, net, cut, w, win, hist>>
(* The server process starts again: new cookie secret, ticket key and cache. *)
Restart ==
  /\ Spend("restarts")
  /\ LET had == {c \in Conns : w[c]["client"].pc # "off"}
     IN  /\ cut' = cut \cup had
         /\ srv' = [srv EXCEPT !.epoch = @ + 1, !.cache = <<>>, !.lock = 0]
         /\ w' = [c \in Conns |-> IF c \in had THEN [w[c] EXCEPT !["server"].pc = "done"] ELSE w[c]]
         /\ task' = [c \in Conns |-> [task[c] EXCEPT !["server"] = {}]]
  /\ UNCHANGED <<now, slot, pk, br, net, frozen, win, hist>>
(* The client keeps its ticket and goes on with another static key. *)
Rekey ==
  /\ \A c \in Conns : w[c]["client"].pc \in {"off", "loop", "wait", "recv", "done"}
  /\ Spend("rekeys")
  /\ pk' = <<"client", 2>>
  /\ UNCHANGED <<now, srv, slot, br, task, net, cut, frozen, w, win, hist>>

(* What damage makes of a frame: one field is noise (a length that cuts it off
   included), its header is ("?"), or its length is one that never comes. *)
Damaged(f) ==
  {[f EXCEPT !.t = "?"], [f EXCEPT !.t = "long"]} \cup
  CASE f.t = "MSG1"     -> {[f EXCEPT !.e = Noise]}
    [] f.t = "COOKIE"   -> {[f EXCEPT !.cookie.secret = Noise]}
    [] f.t = "RETRY"    -> {[f EXCEPT !.e = Noise], [f EXCEPT !.cookie.secret = Noise]}
    [] f.t = "MSG1_PSK" -> {[f EXCEPT !.ticket.key = Noise], [f EXCEPT !.e = Noise], [f EXCEPT !.e = Malformed],
                            [f EXCEPT !.early = [i \in DOMAIN @ |-> [@[i] EXCEPT !.key = Noise]]]}
    [] f.t = "MSG2"     -> {[f EXCEPT !.early = ~@], [f EXCEPT !.e = Noise], [f EXCEPT !.ct.to = Noise],
                            [f EXCEPT !.box.key = Noise]}
    [] f.t = "MSG3"     -> {[f EXCEPT !.se.to = Noise], [f EXCEPT !.st.to = Noise], [f EXCEPT !.box.key = Noise]}
    [] f.t = "DATA"     -> {[f EXCEPT !.box.key = Noise]}
    [] OTHER            -> {}
Damage(c, x) ==
  /\ net[c][x].frames # <<>>
  /\ Spend("damages")
  /\ \E f \in Damaged(Head(net[c][x].frames)) :
       /\ net' = [net EXCEPT ![c][x].frames[1] = f]
       /\ hist' = [hist EXCEPT !.damaged = TRUE, !.flipped = @ \/ (f.t = "MSG2" /\ f = [Head(net[c][x].frames) EXCEPT !.early = ~@])]
  /\ UNCHANGED <<now, srv, slot, pk, br, task, cut, frozen, w, win>>

(* A datagram transport gives a session its packets in any order, and again. *)
Packet(seq) ==
  /\ Spend("packets")
  /\ win' = CheckAndMark(win, seq)
  /\ hist' = [hist EXCEPT !.accepted = IF Accepts(win, seq) THEN Append(@, seq) ELSE @]
  /\ UNCHANGED <<now, srv, slot, pk, br, task, net, cut, frozen, w>>

-----------------------------------------------------------------------------
Client(c) ==
  ClientFull(c) \/ ClientResume(c) \/ ClientCookie(c) \/ ClientRejected(c) \/ ClientMsg2(c) \/ ClientTicket(c)
Relay(c) ==
  Accept(c) \/ LockCache(c) \/ ServerMsg1(c) \/ ServerRetry(c) \/ ServerPsk(c) \/ ServerMsg3(c)
Side(c, x) ==
  \/ ReadEof(c, x) \/ ReadUnexpected(c, x)
  \/ LoopSend(c, x) \/ LoopDrained(c, x) \/ LoopWakes(c, x)
  \/ LoopRecv(c, x) \/ LoopBlocks(c, x) \/ LoopCut(c, x)
  \/ Outbound(c, x) \/ Inbound(c, x)
Progress == \E c \in Conns : Client(c) \/ Relay(c) \/ \E x \in Sides : Side(c, x)
Input ==
  \/ Tick \/ Restart \/ Rekey
  \/ \E c \in Conns : Dial(c) \/ CutOff(c) \/ Freeze(c)
  \/ \E c \in Conns, x \in Sides : Send(c, x) \/ DropReceiver(c, x) \/ Damage(c, x)
  \/ \E seq \in 0 .. MaxSeq : Packet(seq)
Next == Progress \/ Input
Spec == Init /\ [][Next]_vars

-----------------------------------------------------------------------------
(* Every variable has its type. *)
TypeOK ==
  /\ now \in Nat
  /\ srv.epoch \in Nat /\ srv.issued \in Nat /\ srv.lock \in Conns \cup {0}
  /\ \A id \in DOMAIN srv.cache : id \in 1 .. srv.issued
  /\ Len(slot) <= 1
  /\ cut \subseteq Conns /\ frozen \subseteq Conns
  /\ \A c \in Conns, x \in Sides :
       /\ task[c][x] \subseteq {"in", "out"}
       /\ w[c][x].pc \in InHandshake \cup {"off", "start", "lock", "loop", "wait", "recv", "done"}
       /\ br[c][x].closed \in BOOLEAN /\ net[c][x].fin \in BOOLEAN
       /\ w[c][x].tx \in Nat
  /\ win.bits \subseteq 0 .. WindowSize - 1

(* When the client's handshake returns, the server's has: the two hold one
   session (keys and identity) and agree on whether it was resumed; each knows
   the other's static key, and a resumed session is with the client its ticket
   was issued to (handshake/mod.rs, api.rs: try_resume). *)
SameSession ==
  \A c \in Conns :
    /\ Established(c, "client") =>
         /\ Server(c).ses = w[c]["client"].ses
         /\ Server(c).resumed = w[c]["client"].resumed
         /\ w[c]["client"].peer = ServerPk
    /\ Established(c, "server") =>
         /\ w[c]["client"].ses = Server(c).ses
         /\ LET id == Server(c).ses.id IN id[Len(id)] = <<"enc", Server(c).peer>>
         /\ Server(c).resumed => Server(c).ticket[1].fp = Server(c).peer

(* The client is told that its early data was accepted exactly when the server's
   outcome has it, as long as the flag before message 2, which nothing
   authenticates, arrives as it was sent (api.rs: client_connect_resume). *)
EarlyAgrees ==
  \A c \in Conns :
    Established(c, "client") /\ w[c]["client"].resumed /\ ~hist.flipped
      => w[c]["client"].early = Server(c).early

(* No ticket is accepted twice before its last second: open takes a ticket at
   expires_at, gc has already forgotten it then (psk.rs: open, gc). *)
TicketOnce ==
  \A i, j \in DOMAIN hist.uses :
    i < j /\ hist.uses[i].id = hist.uses[j].id => hist.uses[j].at = hist.uses[j].exp

(* No key seals two messages with one nonce, but for the early data of a ticket
   that two connections present: its key comes from the ticket's PSK alone
   (crypto.rs: seal, handshake/mod.rs: early_data_aead). *)
NonceOnce == \A n \in hist.reused : n[1][1] = "early"

(* The window has accepted no number twice, and its bits are the numbers accepted
   among the last WindowSize up to the highest (session.rs: check_and_mark). *)
WindowIsExact ==
  /\ IsInjective(hist.accepted)
  /\ win.bits = {win.highest - s : s \in {t \in Range(hist.accepted) : win.highest - t < WindowSize}}

(* A side hears what the other has sent, in order and once, and may lose a tail
   of it (gmpq.rs: message_loop, shuttle). *)
DeliveredIsPrefix ==
  \A c \in Conns, x \in Sides :
    LET got == hist.got[c][x]
        sent == hist.sent[c][Other(x)]
    IN  Len(got) <= Len(sent) /\ got = SubSeq(sent, 1, Len(got))

Quiet == ~ENABLED Progress
Stalled(c) == \E x \in Sides : w[c][x].pc \in InHandshake \cup {"recv"} /\ Starved(br[c][x])
Stuck(c) == (c \in frozen \/ Stalled(c)) /\ c \notin cut

(* When nothing moves any more, every worker has ended, waits for messages, or
   waits for a client that has stopped or for a frame that does not end,
   directly or through the ticket cache's lock; and a connection nobody closed
   has delivered all that was sent (gmpq.rs: server_handshake, message_loop,
   shuttle). *)
NothingStranded ==
  Quiet =>
    \A c \in Conns :
      /\ \A x \in Sides :
           \/ w[c][x].pc \in {"off", "wait", "done"}
           \/ Stuck(c) \/ (x = "client" /\ c \in frozen)
           \/ srv.lock # 0 /\ Stuck(srv.lock)
      /\ c \notin cut \cup frozen /\ ~Stalled(c) /\ (\A x \in Sides : ~br[c][x].closed)
           => \A x \in Sides : hist.got[c][x] = hist.sent[c][Other(x)]

(* A connection that is neither lost nor damaged, between parties that know each
   other's keys, is established, whatever happened to the client's ticket: used,
   expired, or of an earlier life of the server (api.rs: server_accept). *)
HandshakesSucceed ==
  Quiet /\ budget.trusted /\ frozen = {} /\ ~hist.damaged /\ pk = <<"client", 1>> /\ pk \in budget.pins =>
    \A c \in Conns :
      w[c]["client"].pc # "off" /\ c \notin cut /\ now <= CookieTtl
        => \A x \in Sides : w[c][x].peer # <<>> /\ w[c][x].pc \in {"wait", "done"}

(* Both sides come out of a handshake with one view of it: session, identity,
   resumption and what became of the early data. *)
SameView == TypeOK /\ SameSession /\ EarlyAgrees

(* What must be used once is used once: tickets up to their last second, and
   nonces but for the early data of a ticket presented twice. *)
UsedOnce == TicketOnce /\ NonceOnce

(* Connections get somewhere: an undisturbed handshake succeeds whatever became
   of the ticket, and nothing waits for ever but behind a stopped client or a
   frame that does not end. *)
LinksProgress == NothingStranded /\ HandshakesSucceed
=============================================================================
