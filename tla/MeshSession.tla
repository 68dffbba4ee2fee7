---------------------------- MODULE MeshSession ----------------------------
(***************************************************************************)
(* The relay data plane of crates/p2p-mesh between two nodes (node.rs):    *)
(* how an inner plaintext is queued until a session exists, the X25519     *)
(* handshake, the optional GM-PQ handshake with its 3 s fallback timer,    *)
(* and the ciphertexts of both.  Node 1 has the smaller NodeId: it is the  *)
(* GM-PQ client and wins simultaneous X25519 initiation.                   *)
(*                                                                         *)
(* Each actor handles one command or frame at a time, so a handler is one  *)
(* step.  The relay forwards in order; what it receives for a node that is *)
(* not registered is dropped.  Keys are pairs of ephemeral-key numbers;    *)
(* signatures and AEAD verify exactly when both sides used the same keys   *)
(* (and, for X25519, the same counter).  A payload is the number of its    *)
(* send_to.                                                                *)
(***************************************************************************)
EXTENDS Naturals, Sequences, FiniteSets

CONSTANTS
  LateStart,    \* may node 2 start after node 1 began to send?
  TagCollisions,\* may a ciphertext begin with 'H' or 'G'?  (2 in 256 do)
  MaxSends,     \* bound on send_to calls of each node
  MaxRestarts   \* bound on restarts of a node, over both

ASSUME MeshConstants ==
  /\ LateStart \in BOOLEAN /\ TagCollisions \in BOOLEAN
  /\ MaxSends \in Nat /\ MaxRestarts \in Nat

VARIABLES
  gmpq,      \* the nodes configured with gmpq enabled; never changes
  trusts,    \* those whose trust anchor accepts the other's GM-PQ static key
  up,        \* registered at the relay?
  st,        \* the Peer entry of each node for the other one
  chan,      \* frames the relay has for each node
  fresh,     \* number of ephemeral keys drawn so far
  sends,     \* how many send_to each node has handled
  delivered, \* NodeEvent::Message payloads at each node, in order
  restarts,  \* how often each node restarted
  mishaps    \* history: which of "late", "restart" and "tagged" happened

vars == <<gmpq, trusts, up, st, chan, fresh, sends, delivered, restarts, mishaps>>

Nodes == {1, 2}
Other(n) == 3 - n
NoKey == <<>>

NewPeer ==
  [session |-> NoKey, sctr |-> 0, rctr |-> 0,   \* SessionCipher and its counters
   gm |-> "none", gmKey |-> NoKey,              \* GmState and the keys it carries
   gm_failed |-> FALSE, gm_gen |-> 0, timers |-> {},
   hs |-> 0,                                    \* HsState: our ephemeral key
   pending |-> <<>>]

Init ==
  /\ gmpq \in SUBSET Nodes
  /\ trusts \in SUBSET gmpq
  /\ up \in { u \in [Nodes -> BOOLEAN] : u[1] /\ (u[2] \/ LateStart) }
  /\ st = [n \in Nodes |-> NewPeer]
  /\ chan = [n \in Nodes |-> <<>>]
  /\ fresh = 0
  /\ sends = [n \in Nodes |-> 0]
  /\ delivered = [n \in Nodes |-> <<>>]
  /\ restarts = [n \in Nodes |-> 0]
  /\ mishaps = IF up[2] THEN {} ELSE {"late"}

Frame(kind, key) == [kind |-> kind, key |-> key, ctr |-> 0, body |-> 0]
GmData(s, x) == [Frame("GM_DATA", s.gmKey) EXCEPT !.body = x]
Cipher(s, k, x) == [kind |-> "CIPHER", key |-> s.session, ctr |-> s.sctr + k, body |-> x]
Bind == 0   \* the body of the BIND plaintext; application payloads are 1, 2, ...

(* A handler of node n ends with its new peer entry, having drawn some
   ephemeral keys and delivered some payloads; its frames go to the relay. *)
Ends(n, s, keys, payloads) ==
  /\ st' = [st EXCEPT ![n] = s]
  /\ fresh' = fresh + keys
  /\ delivered' = [delivered EXCEPT ![n] = @ \o payloads]
  /\ UNCHANGED <<gmpq, trusts, up, restarts>>
Forward(n, c, frames) == IF up[Other(n)] THEN [c EXCEPT ![Other(n)] = @ \o frames] ELSE c

(* A step that handles the next frame from the relay. *)
Reply(n, s, frames, keys, payloads) ==
  /\ Ends(n, s, keys, payloads)
  /\ chan' = Forward(n, [chan EXCEPT ![n] = Tail(@)], frames)
  /\ UNCHANGED sends
Ignore(n) == Reply(n, st[n], <<>>, 0, <<>>)

HasSession(s) == s.gm = "ready" \/ s.session # NoKey

(* relay_send_inner for each of a sequence of plaintexts, given a session. *)
Sealed(s, xs) ==
  [k \in 1 .. Len(xs) |-> IF s.gm = "ready" THEN GmData(s, xs[k]) ELSE Cipher(s, k - 1, xs[k])]
AfterSeal(s, xs) == IF s.gm = "ready" THEN s ELSE [s EXCEPT !.sctr = @ + Len(xs)]

(* Mutant: the queue is sent newest first. *)
FlushSends_NewestFirst(s) ==
  Sealed(s, [k \in 1 .. Len(s.pending) |-> s.pending[Len(s.pending) + 1 - k]])

(* flush_pending. *)
Flushed(s) == [AfterSeal(s, s.pending) EXCEPT !.pending = <<>>]
FlushSends(s) == Sealed(s, s.pending)

(* gm_start, when no GM-PQ state exists and it has not failed. *)
GmStarted(n, s) ==
  [s EXCEPT !.gm = IF n = 1 THEN "waitCookie" ELSE "waitMsg1",
            !.gmKey = IF n = 1 THEN <<fresh + 1>> ELSE NoKey,
            !.gm_gen = @ + 1,
            !.timers = @ \cup {s.gm_gen + 1}]
GmStartSends(n) == IF n = 1 THEN <<Frame("MSG1", <<fresh + 1>>)>> ELSE <<Frame("KICK", NoKey)>>
GmStartKeys(n) == IF n = 1 THEN 1 ELSE 0

HsStarted(s) == [s EXCEPT !.hs = fresh + 1]
HsInit == Frame("INIT", <<fresh + 1>>)

(* derive: the session of an initiator's and a responder's ephemeral key, with
   both counters at 0. *)
Derived(s, initiator, responder) ==
  [s EXCEPT !.session = <<initiator, responder>>, !.sctr = 0, !.rctr = 0]

(* hs_accept draws a key and answers; hs_finish uses the key of hs_start. *)
HsAccepted(s, f) == [Derived(s, f.key[1], fresh + 1) EXCEPT !.hs = 0]
HsResp == Frame("RESP", <<fresh + 1>>)
HsFinished(s, f) == [Derived(s, s.hs, f.key[1]) EXCEPT !.hs = 0]

(* SessionCipher::open accepts a ciphertext at the counter it expects. *)
Opens(s, f) == s.session = f.key /\ s.rctr = f.ctr
AfterOpen(s) == [s EXCEPT !.rctr = @ + 1]

(* parse_bind: the signature covers the id of the session. *)
BindVerifies(s, f) == s.gmKey = f.key /\ f.body = Bind

(* on_send_to on the relay path: seal, or queue and start the handshake that
   is missing. *)
SendTo(n) ==
  LET x == sends[n] + 1
      queued == [st[n] EXCEPT !.pending = Append(@, x)]
      tryGm == n \in gmpq /\ ~queued.gm_failed
      Sends(s, frames, keys) ==
        /\ Ends(n, s, keys, <<>>)
        /\ chan' = Forward(n, chan, frames)
        /\ sends' = [sends EXCEPT ![n] = x]
  IN  /\ up[n]
      /\ sends[n] < MaxSends
      /\ \/ /\ HasSession(st[n])
            /\ Sends(AfterSeal(st[n], <<x>>), Sealed(st[n], <<x>>), 0)
         \/ /\ ~HasSession(st[n]) /\ tryGm /\ queued.gm = "none"
            /\ Sends(GmStarted(n, queued), GmStartSends(n), GmStartKeys(n))
         \/ /\ ~HasSession(st[n]) /\ ~tryGm /\ queued.hs = 0
            /\ Sends(HsStarted(queued), <<HsInit>>, 1)
         \/ /\ ~HasSession(st[n])
            /\ IF tryGm THEN queued.gm # "none" ELSE queued.hs # 0
            /\ Sends(queued, <<>>, 0)

-----------------------------------------------------------------------------
(* on_relay_data: X25519 frames. *)

Next1(n, kind) == up[n] /\ chan[n] # <<>> /\ Head(chan[n]).kind = kind

(* Mutant: no winner of simultaneous initiation. *)
HandleInit_NoTieBreak(n) ==
  LET s == HsAccepted(st[n], Head(chan[n]))
  IN  /\ Next1(n, "INIT")
      /\ IF st[n].session # NoKey
         THEN Ignore(n)
         ELSE Reply(n, Flushed(s), <<HsResp>> \o FlushSends(s), 1, <<>>)

(* Mutant: a GM-PQ channel counts as a session here too. *)
HandleInit_AnySession(n) ==
  LET s == HsAccepted(st[n], Head(chan[n]))
  IN  /\ Next1(n, "INIT")
      /\ IF HasSession(st[n]) \/ (st[n].hs # 0 /\ n < Other(n))
         THEN Ignore(n)
         ELSE Reply(n, Flushed(s), <<HsResp>> \o FlushSends(s), 1, <<>>)

HandleInit(n) ==
  LET s == HsAccepted(st[n], Head(chan[n]))
  IN  /\ Next1(n, "INIT")
      /\ IF st[n].session # NoKey \/ (st[n].hs # 0 /\ n < Other(n))
         THEN Ignore(n)
         ELSE Reply(n, Flushed(s), <<HsResp>> \o FlushSends(s), 1, <<>>)

(* The response is signed but does not name the init it answers. *)
HandleResp(n) ==
  LET s == HsFinished(st[n], Head(chan[n]))
  IN  /\ Next1(n, "RESP")
      /\ IF st[n].session # NoKey \/ st[n].hs = 0
         THEN Ignore(n)
         ELSE Reply(n, Flushed(s), FlushSends(s), 0, <<>>)

HandleCipher(n) ==
  LET f == Head(chan[n])
  IN  /\ Next1(n, "CIPHER")
      /\ IF Opens(st[n], f)
         THEN Reply(n, AfterOpen(st[n]), <<>>, 0, <<f.body>>)
         ELSE Ignore(n)

-----------------------------------------------------------------------------
(* on_gm_frame.  A node without GM-PQ ignores every frame.  Most handlers
   take() the state first, so a frame that does not fit the state erases it. *)

Erased(n) == Reply(n, [st[n] EXCEPT !.gm = "none", !.gmKey = NoKey], <<>>, 0, <<>>)
Becomes(n, gm, key) == [st[n] EXCEPT !.gm = gm, !.gmKey = key]

OnKick(n) ==
  IF n \notin gmpq \/ st[n].gm # "none" \/ st[n].gm_failed
  THEN Ignore(n)
  ELSE IF n < Other(n)
       THEN Reply(n, GmStarted(n, st[n]), GmStartSends(n), GmStartKeys(n), <<>>)
       ELSE Reply(n, Becomes(n, "waitMsg1", NoKey), <<>>, 0, <<>>)

(* The server side enters the handshake without a timer of its own, and even
   after it has failed once. *)
OnMsg1(n, e) ==
  IF n \notin gmpq \/ n < Other(n) \/ st[n].gm \notin {"none", "waitMsg1"}
  THEN Ignore(n)
  ELSE Reply(n, Becomes(n, "waitRetry", e), <<Frame("COOKIE", e)>>, 0, <<>>)

OnCookie(n, cookie) ==
  IF n \notin gmpq THEN Ignore(n)
  ELSE IF st[n].gm # "waitCookie" THEN Erased(n)
  ELSE Reply(n, [st[n] EXCEPT !.gm = "waitMsg2"],
             <<Frame("MSG1_RETRY", cookie \o st[n].gmKey)>>, 0, <<>>)

HandleKick(n)   == Next1(n, "KICK") /\ OnKick(n)
HandleMsg1(n)   == Next1(n, "MSG1") /\ OnMsg1(n, Head(chan[n]).key)
HandleCookie(n) == Next1(n, "COOKIE") /\ OnCookie(n, Head(chan[n]).key)

HandleRetry(n) ==
  LET f == Head(chan[n])
      e == st[n].gmKey
  IN  /\ Next1(n, "MSG1_RETRY")
      /\ IF n \notin gmpq THEN Ignore(n)
         ELSE IF st[n].gm # "waitRetry" \/ f.key # e \o e THEN Erased(n)
         ELSE Reply(n, Becomes(n, "waitMsg3", <<e[1], fresh + 1>>),
                    <<Frame("MSG2", <<e[1], fresh + 1>>)>>, 1, <<>>)

(* The peer is authenticated against the trust anchor; a peer it rejects leaves
   the state taken, and the timer with nothing to give up. *)
HandleMsg2(n) ==
  LET key == Head(chan[n]).key
      s == Becomes(n, "unbound", key)
  IN  /\ Next1(n, "MSG2")
      /\ IF n \notin gmpq THEN Ignore(n)
         ELSE IF st[n].gm # "waitMsg2" \/ st[n].gmKey # <<key[1]>> \/ n \notin trusts THEN Erased(n)
         ELSE Reply(n, s, <<Frame("MSG3", key), GmData(s, Bind)>>, 0, <<>>)

HandleMsg3(n) ==
  LET key == Head(chan[n]).key
      s == Becomes(n, "unbound", key)
  IN  /\ Next1(n, "MSG3")
      /\ IF n \notin gmpq THEN Ignore(n)
         ELSE IF st[n].gm # "waitMsg3" \/ st[n].gmKey # key \/ n \notin trusts THEN Erased(n)
         ELSE Reply(n, s, <<GmData(s, Bind)>>, 0, <<>>)

(* BIND makes the channel ready and flushes; data before BIND is dropped. *)
HandleGmData(n) ==
  LET f == Head(chan[n])
      s == [st[n] EXCEPT !.gm = "ready"]
  IN  /\ Next1(n, "GM_DATA")
      /\ IF n \in gmpq /\ st[n].gm = "unbound" /\ BindVerifies(st[n], f)
         THEN Reply(n, Flushed(s), FlushSends(s), 0, <<>>)
         ELSE IF n \in gmpq /\ st[n].gm = "ready" /\ st[n].gmKey = f.key /\ f.body # Bind
              THEN Reply(n, st[n], <<>>, 0, <<f.body>>)
              ELSE Ignore(n)

(* on_relay_data dispatches on the first byte of a payload, which a ciphertext
   shares with the handshake frames: one that begins with a tag is handled as
   the frame its second byte names, with a body that does not verify. *)
Garbage == <<0>>
HandleTaggedCipher(n) ==
  /\ TagCollisions
  /\ Next1(n, "CIPHER")
  /\ mishaps' = mishaps \cup {"tagged"}
  /\ \/ Ignore(n)                            \* INIT, GM_DATA or an unknown kind
     \/ /\ st[n].session = NoKey             \* RESP: hs.take(), then rejected
        /\ Reply(n, [st[n] EXCEPT !.hs = 0], <<>>, 0, <<>>)
     \/ n \in gmpq /\ Erased(n)              \* MSG1_RETRY, MSG2, MSG3
     \/ OnKick(n) \/ OnMsg1(n, Garbage) \/ OnCookie(n, Garbage)

(* on_gm_check: a timer, which may be late or early relative to the frames. *)
Unfinished(s) == s.gm \notin {"none", "ready"}

(* Mutant: the timer gives GM-PQ up but starts nothing instead. *)
GmCheck_NoFallback(n, gen) ==
  /\ gen \in st[n].timers
  /\ LET rest == [st[n] EXCEPT !.timers = @ \ {gen}]
     IN  Ends(n, IF gen = rest.gm_gen /\ Unfinished(rest)
                 THEN [rest EXCEPT !.gm = "none", !.gmKey = NoKey, !.gm_failed = TRUE]
                 ELSE rest, 0, <<>>)
  /\ UNCHANGED <<chan, sends>>

GmCheck(n, gen) ==
  LET rest == [st[n] EXCEPT !.timers = @ \ {gen}]
      failed == [rest EXCEPT !.gm = "none", !.gmKey = NoKey, !.gm_failed = TRUE]
      Fires(s, frames, keys) ==
        /\ Ends(n, s, keys, <<>>)
        /\ chan' = Forward(n, chan, frames)
        /\ UNCHANGED sends
  IN  /\ gen \in st[n].timers
      /\ IF gen # rest.gm_gen \/ ~Unfinished(rest) THEN Fires(rest, <<>>, 0)
         ELSE IF failed.pending # <<>> /\ failed.hs = 0 /\ failed.session = NoKey
              THEN Fires(HsStarted(failed), <<HsInit>>, 1)
              ELSE Fires(failed, <<>>, 0)

-----------------------------------------------------------------------------
(* Node 2 registers at the relay for the first time. *)
StartNode(n) ==
  /\ ~up[n]
  /\ up' = [up EXCEPT ![n] = TRUE]
  /\ UNCHANGED <<gmpq, trusts, st, chan, fresh, sends, delivered, restarts, mishaps>>

(* A node's process restarts and registers again under its identity: its
   table is empty and what the relay had queued for it is gone.  Its GM-PQ key
   is generated anew, which a pin file of the other node does not hold. *)
Restart(n) ==
  /\ up[n] /\ restarts[1] + restarts[2] < MaxRestarts
  /\ restarts' = [restarts EXCEPT ![n] = @ + 1]
  /\ trusts' \in {trusts, trusts \ {Other(n)}}
  /\ st' = [st EXCEPT ![n] = NewPeer]
  /\ chan' = [chan EXCEPT ![n] = <<>>]
  /\ mishaps' = mishaps \cup {"restart"}
  /\ UNCHANGED <<gmpq, up, fresh, sends, delivered>>

HandleFrame(n) ==
  \/ HandleInit(n) \/ HandleResp(n) \/ HandleCipher(n)
  \/ HandleKick(n) \/ HandleMsg1(n) \/ HandleCookie(n) \/ HandleRetry(n)
  \/ HandleMsg2(n) \/ HandleMsg3(n) \/ HandleGmData(n)

Next ==
  \E n \in Nodes :
    \/ UNCHANGED mishaps /\ SendTo(n)
    \/ UNCHANGED mishaps /\ HandleFrame(n)
    \/ UNCHANGED mishaps /\ \E gen \in st[n].timers : GmCheck(n, gen)
    \/ HandleTaggedCipher(n)
    \/ StartNode(n)
    \/ Restart(n)

Spec == Init /\ [][Next]_vars

-----------------------------------------------------------------------------
(* Properties. *)

Kinds == {"INIT", "RESP", "CIPHER", "KICK", "MSG1", "COOKIE", "MSG1_RETRY",
          "MSG2", "MSG3", "GM_DATA"}
Keys == Seq(Nat)
PeerEntry ==
  [session : Keys, sctr : Nat, rctr : Nat,
   gm : {"none", "waitCookie", "waitMsg2", "waitMsg1", "waitRetry", "waitMsg3", "unbound", "ready"},
   gmKey : Keys, gm_failed : BOOLEAN, gm_gen : Nat, timers : SUBSET Nat,
   hs : Nat, pending : Seq(Nat)]

(* Types; a node never holds a session and an open X25519 handshake at once. *)
TypeOK ==
  /\ gmpq \subseteq Nodes /\ trusts \subseteq Nodes /\ mishaps \subseteq {"late", "restart", "tagged"}
  /\ up \in [Nodes -> BOOLEAN]
  /\ st \in [Nodes -> PeerEntry]
  /\ chan \in [Nodes -> Seq([kind : Kinds, key : Keys, ctr : Nat, body : Nat])]
  /\ fresh \in Nat /\ restarts \in [Nodes -> Nat]
  /\ sends \in [Nodes -> Nat]
  /\ delivered \in [Nodes -> Seq(Nat)]
  /\ \A n \in Nodes : st[n].hs # 0 => st[n].session = NoKey

(* Messages reach the application in the order of send_to and never twice,
   across queueing, flushing, the two session kinds and the fallback; and no
   node holds a session and an open handshake at once. *)
InOrder ==
  TypeOK /\ \A n \in Nodes : \A i, j \in 1 .. Len(delivered[n]) :
    i < j => delivered[n][i] < delivered[n][j]

(* The handshakes converge: when both nodes hold a session of one kind and
   nothing disturbed the relay path, it is the same session. *)
SameSession ==
  mishaps = {} =>
    /\ st[1].session # NoKey /\ st[2].session # NoKey => st[1].session = st[2].session
    /\ st[1].gm = "ready" /\ st[2].gm = "ready" => st[1].gmKey = st[2].gmKey

(* Nothing is under way: no frame, and no timer that would still act. *)
Quiet ==
  \A n \in Nodes :
    /\ up[n]
    /\ chan[n] = <<>>
    /\ Unfinished(st[n]) => st[n].gm_gen \notin st[n].timers

AllDelivered == \A n \in Nodes : delivered[n] = [k \in 1 .. sends[Other(n)] |-> k]

(* Every message given to send_to has been delivered when the network is
   quiet ("auto-fallback to X25519+ed25519 when the peer lacks support or the
   handshake times out"), if nothing disturbed the relay path. *)
FallbackDelivers == (mishaps = {} /\ Quiet) => AllDelivered

Rejected == gmpq = Nodes /\ trusts # Nodes

(* The same as long as no handshake between two GM-PQ nodes timed out or was
   rejected: no handshake outcome, simultaneous initiation and the fallback
   towards a peer without GM-PQ included, leaves a message queued for ever or
   encrypted for a session its receiver does not have.  After a rejection a
   message may stay queued, but none is encrypted for a session that the
   receiver lacks. *)
NothingStranded ==
  /\ (gmpq = Nodes => ~Rejected /\ \A n \in Nodes : ~st[n].gm_failed) => FallbackDelivers
  /\ (mishaps = {} /\ Quiet /\ Rejected) =>
       \A n \in Nodes : delivered[Other(n)] \o st[n].pending = [k \in 1 .. sends[n] |-> k]

(* What a restarted node sends does not stay queued for ever because the other
   node still holds the GM-PQ channel of before, or is one it has only X25519
   in common with: unless it holds an X25519 session ("session already exists;
   ignore a duplicate init") or an open X25519 handshake, whose init the
   restart lost. *)
RestartedIsAnswered ==
  \A n \in Nodes :
    ( /\ mishaps = {"restart"} /\ restarts[Other(n)] = 0 /\ Quiet
      /\ st[Other(n)].gm = "ready" \/ gmpq # Nodes
      /\ st[n].pending # <<>>
    ) => st[Other(n)].session # NoKey \/ st[Other(n)].hs # 0
=============================================================================
