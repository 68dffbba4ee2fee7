# Directwire: TLA+ models, checks and proofs

Models of the protocols and concurrent components of Directwire, written from
the Rust sources under `src/crates/`. TLC checks them on small instances, and
TLAPS proves the central results about the message transport, its transmit queue,
the RPC layer, the paths and sessions of the mesh, the encrypted control channel
of moq-live and the edge gateway for every value of the constants.
`PROJECT.json` holds the machine-readable side: components, runs, the map from
definitions to source lines, findings, hazards, theorems.

    tlc -workers 2 -config HomaTransport_aligned.cfg MCHomaTransport
    tlapm HomaTransport_proof.tla

## The system

| crate | parts with state | modelled in |
|---|---|---|
| homa-rpc | sender core, receiver core and GRANT scheduler, blocking API | `HomaTransport`, `HomaDelivery` |
| | transmit queue, send threads, shutdown | `HomaTxQueue` |
| | RPC client, dispatcher, server, worker pool | `HomaRpc` |
| p2p-mesh | relay sessions: X25519 and GM-PQ handshakes, queueing, fallback | `MeshSession` |
| | hole punching, simultaneous QUIC open, dedup, path choice, messages on the streams | `MeshDirect` |
| | relay server and client, the node's actor, the MCP tools that block | `MeshRelay` |
| xdp-edge | connection table, rate limit, SYN detection, Maglev table | `EdgeTables` |
| | health, publishing the table, its readers, sweeper, packet pipeline | `Edge` |
| gm-pq-stack | handshake, cookie, tickets, replay window | `GmPq` |
| moq-live | GM-PQ control channel: worker threads, shuttles, ticket cache | `MoqLink` |
| | group cache, drop queue | `MoqCache` |
| | hub, relay, forwarders, publishers and subscribers | `Moq` |
| net-sim, fuzz-harness | test infrastructure | not modelled |

An RPC call goes down through `HomaRpc` to `send_pokeable`, whose all-or-nothing
promise is `HomaDelivery`; `HomaTransport` implements that promise with DATA,
GRANT, RESEND and BUSY datagrams, which reach the socket through `HomaTxQueue`.
A mesh message goes through `on_send_to`: over QUIC if the path manager is on
the direct path (`MeshDirect`), otherwise encrypted (`MeshSession`) through the
relay (`MeshRelay`). A moq-live control stream may run inside `MoqLink`, which
is built from the operators of `GmPq`; `Moq` has the plain stream. `Edge` puts
the tables of `EdgeTables` into the pipeline and adds the threads around them.

## Modules

**HomaTransport.** One sending and one receiving host. `out` is
`SenderCore.out`, `incoming`, `granting` and `completed` are the fields of
`ReceiverCore`, `api` is what the thread inside `send_impl` sees, `net` the
datagrams in flight. Each handler (`handle_grant`, `handle_resend`,
`handle_busy`, `handle_data`), each tick and each API call is one action, since
each runs under the state lock; `handle_data` is split by its early returns and
its three endings. Every action includes the scheduling round with which the
code ends. The content of a message is abstracted to byte positions, so a
buffer is the set of positions written. Clocks are free: every comparison of a
time with a timeout may go either way. The network loses, repeats and reorders.
`starve_check` is a scheduling round that may happen whenever it brings in a
message outside the granting set.

**HomaDelivery.** The abstract specification: a message is received whole and
once, or never. `ImplementsDelivery` maps `HomaTransport` to it.

**HomaTxQueue.** `control`, `queues` and the flag of `TxQueues`, with the mutex
(`lock`) and the condition variable (`pc[t] = "waiting"`) explicit, because the
interesting step lies between testing the flag and suspending. A pass over the
levels (`Drained`) pops from each in turn while the budget lasts. `drop` follows
the thread that drops the `Transport`; `missed` records a notification that fell
into that step.

**HomaRpc.** Callers (`call_with_timeout`, `call_timed`, `send_only`), the
dispatcher in its three steps (receive, take the waiter, send into the channel),
the server loop, the pool with its queue and condition variable, and the drop of
server and pool (`server`, `stop`). The transport below behaves as `HomaDelivery`
says, plus the receiver's memory of message ids (`seen`), which matters after a
restart. A send that fails may have left its message behind, so the request may
still arrive. A payload is named by the client's life and its rpc_id, and the response
to a payload by the payload itself. `executed`, `panicked`, `missed` and `ended`
are history.

**MeshSession.** Two nodes; `st[n]` is the `Peer` entry of node n for the other
one. A handler of the actor is one step. Which nodes have GM-PQ enabled is
chosen in `Init`, and which of them accept the other's GM-PQ key (`trusts`, the
trust anchor), so one run covers all combinations. A restart generates that key
anew, and a peer that pins keys may not know the new one. Keys are numbers of
ephemeral keys; signatures and AEAD verify exactly when both sides used the same
keys and, for X25519, the same counter. The relay keeps order and drops what is
addressed to an unregistered node. The history variable `mishaps` records a late
start, a restart or a ciphertext mistaken for a handshake frame, so that a
property can say in which behaviours it is meant. Probe PINGs and PONGs are sent
only over a session that exists and behave like any other message, so they are
not modelled apart.

**MeshDirect.** Punch jobs, connections, the `QuicEv` channel, stream readers,
the path manager, and the messages written to a stream and read from it. The
scores of `decide` are real numbers and are abstracted: a decision that the
metrics allow may fall either way.

**MeshRelay.** `conn[c]` is one TCP connection: the client's state, the handler
(`pc`, and `todo`, what it has yet to put into channels), the writer task, its
channel and the two sockets, all bounded. `sess` and `stats` are the server's
tables. `node[n]` is the node's actor with its command and event channels and
the tool its agent is calling. A read, a put into one channel, a table update
and a write are steps of their own, so handlers interleave. The agents'
inputs are bounded by `budget`.

**EdgeTables** and **Edge.** `EdgeTables` has the data structures as operators:
the slab with its intrusive list, the buckets, the SYN windows, `BuildLut`.
`Edge` has the threads: the agent, whose `publish` takes one step per access to
an atomic or a buffer, readers with their count and re-check, the pipeline (a
packet is one step), the sweeper. `active` is what the publisher has stored and
`Seen` what others see of it, since a Release store may arrive late. `hist`
keeps the reference values: the order of use of the connections, the probe runs,
the packets passed.

**GmPq** and **MoqLink.** `GmPq` has the handshake as operators on terms: a
chaining key is the sequence of what was mixed into it, so two keys are equal
exactly when their inputs are. `MoqLink` has per connection and side a worker
thread (`w`), the bridge's queues (`br`), the shuttle tasks (`task`) and the
stream (`net`), the client's ticket slot and the server's locked ticket cache.
Every blocking read or write of `client_connect_resume`, `server_accept` and
`message_loop` is a step. A damaged frame has another type, another field, or a
length that the bytes behind it never fill (`"long"`): its reader is then held in
`read_exact` until the stream ends (`Starved`). A length that does get filled makes
a frame that fails to open, like any other damage.

**MoqCache** and **Moq.** `MoqCache` has `insert` with its window and `push`
with the choice of a victim. In `Moq`, `hub[t]` is a track (cache, broadcast log,
poisoned or not), `conn[c]` a connection with its control streams in both
directions, `up` and `down` the group streams, `fwd` the forwarders with reader,
writer and drop queue, `calls` the subscribe calls. Streams have tasks of their
own and overtake each other. The number of a group is the application's choice:
`budget.ids` lists the choices, in order or not, with repetitions or gaps, and an
object carries the stream that wrote it (`by`), to tell the objects of two streams
of one group apart. A refused `subscribe` call is two steps, since the control
loop only passes the answer on and the call itself removes the route of its id,
which may by then belong to a later call with the same id.

The MC modules give the constants their values for TLC. Where a module has
several instances (`Instances`, `Budgets`), `Init` chooses one, so one run
covers all of them.

## Runs

| run | distinct states | what it shows |
|---|---|---|
| `homa_aligned` | 270,209 | two messages compete for one grant slot: `TransportSafe` (whole and single delivery, nothing rebuilt, chunk-aligned wire, live granting set, the inductive invariant), no stuck reassembly, refinement of `HomaDelivery` |
| `homa_live` | 33,745 | with a receiver that answers BUSY neither a long message nor a short request stalls; no reassembly lingers |
| `txqueue` | 22,654 | nothing lost, repeated or overtaken; flush before Drop returns; everything pushed is sent; shutdown ends |
| `rpc` | 732,021 | handler once per request; `RpcSafe` (a mark has a job, a waiter an attempt, an answer its call); every call returns; dropping the server ends. With retries, a restart, panics, two callers, both kinds of call |
| `session` | 3,793,388 | order kept whatever happens; undisturbed nodes agree on a session and strand nothing; a restarted node is answered |
| `direct` | 2,024,263 | both nodes hold the same working connection; `DirectSafe` (path, connection, readers and messages agree); dedup is harmless after one `connect_peer`; punching uses up a bounded amount of work |
| `relay` | 368,938 | order, statistics and no loss through every queue; the session table follows the connections; whoever waits for ever waits for an agent that does not listen |
| `edge` | 1,273,538 | the table follows the probes; a snapshot is of one version; the Maglev table is balanced; the connection table is an LRU list; both filters are exact |
| `link` | 543,302 | both sides come out of a handshake with one view; tickets and nonces are used once; the replay window is exact; messages arrive as a prefix; nothing stranded |
| `moq` | 1,653,000 | aliases resolve; the cache holds exactly the newest groups, whole and in order, however they are numbered; a subscriber joins without a seam; group heads come first; tasks and calls end |

Some properties are conjunctions that put together what belongs together; the
conjuncts are definitions of their own, with their own comments.

Two runs end in a counterexample, each to a statement of the repository that
the code does not keep (quoted in `PROJECT.json`):

| run | what happens |
|---|---|
| `homa_unaligned` | with windows that are not multiples of `packet_size` (the default), a RESEND after a lost GRANT leaves a reassembly with all chunk bits set and bytes missing (`sender.rs:177`) |
| `moq_gap` | of three groups the third is taken before the second; the second then falls into a gap of the window, and the `expect` of `insert` panics with the track's lock held (`cache.rs:57`) |

Several properties of the passing runs carry an exception that the code makes
necessary. The properties do not hold without it:

- `NoStall`: nothing keeps a place for a message that was answered BUSY while
  others fill the table. It ends at the sender's last packet: a finished sender
  does not probe, so a message that the receiver abandons afterwards is lost,
  although `receiver.rs:241` expects the probes to rebuild it.
- `ShutdownEnds`, `DropEnds`: the flag is stored and notified without the mutex;
  a thread between its test of the flag and its wait misses the notification and
  may wait for ever (against the comment at `txqueue.rs:102`).
- `PlaceholderHasJob`, `CallEnds`: a handler that panics leaves its placeholder
  in the dedup map, and retries of that rpc are dropped.
- `NoStaleWaiter`: a failed send returns at once, without a retry, and leaves
  its waiter registered.
- `OwnAnswer`: a client restarted on the same address repeats its rpc_ids and is
  given cached responses of its earlier life.
- `NothingStranded`, `SameSession` of `MeshSession` hold while `mishaps` is empty:
  an init sent before the peer registers is never repeated, and a ciphertext that
  begins with a handshake tag is dropped, after which the counters part.
  `NothingStranded` also excepts two GM-PQ nodes of which one timed out: the sides
  then use different sessions (`node.rs:61` promises a fallback). When one of them
  rejects the other's key, the rejection erases the handshake, the timer finds
  nothing to fall back from (`node.rs:1177`) and the messages stay queued; for these
  it only says that none was sealed for a session its receiver lacks.
- `RestartedIsAnswered`: a node that kept its X25519 session ignores the init of
  its restarted peer as a duplicate (`node.rs:767`), and one whose own init was lost
  with the restart waits for the answer. It is stated for a node that held a
  finished GM-PQ session, or for nodes that share only X25519: a restart in the
  middle of a GM-PQ handshake can leave a state that a late frame erases, or a
  server that has no timer, and messages queued.
- `DedupKeepsOne`: with the connections of a second `connect_peer` each node may
  close the one the other keeps. `CanonicalKeepsMessages`: a message written to a
  superseded connection is discarded by its close (`node.rs:993`).
- `Registered`: with two connections of one node the end of the first removes
  the entry of the second. `HangsAreExplained` of `MeshRelay`: an agent that does
  not call `peer_recv`, or two actors that wait to write, stop whoever sends to
  them. A frame may also precede HelloAck (`server.rs:116`), and the client's
  connect then fails, although `relay/client.rs:33` excludes it.
- `SnapshotIsWhole`, `LabelWithinOne`, `LutBalanced`: not for a publisher whose
  load of the reader count overtakes its own store to `active` (`overtook`).
  `LutFollowsHealth`: with no backend alive the table is not withdrawn.
  `RateIsKept`: for sources that have a bucket.
- `TicketOnce`: in its last second a ticket is still valid and already forgotten
  (`psk.rs:132` and `169`). `NonceOnce`: the early-data key comes from the
  ticket alone, so a ticket presented twice seals twice under it.
  `EarlyAgrees`: the flag before message 2 is not authenticated.
  `NothingStranded` of `MoqLink`: a client that stops in a handshake holds the
  lock of the ticket cache, and so does a handshake held by a frame that does not
  end; a connection held by such a frame delivers nothing more.
  `DeliveredIsPrefix` allows a lost tail: close overtakes the outbox.
- `HeadsFirst`: a head that finds the queue full of heads is dropped.
  `ReceivedOnce`: a subscribe_id used again shares its alias. (It is stronger than
  the comment at `hub.rs:24`, which allows an overlap of replay and live objects
  that the consumer removes: there is none.) `ForwardersEnd`:
  the reader of a forwarder that was drained after a half-close stays
  (`relay.rs:432`). `HangsAreExplained` of `Moq`: a subscribe call whose control
  loop has ended never returns, since `pending` is not dropped
  (`client.rs:423`).

**Bounds.** Transport: two messages of up to three bytes in packets of one or two
(in `homa_aligned` the last chunk is short; eight bytes in `homa_unaligned`),
grant slots and tables of one or two entries so that they fill up,
`MaxUnanswered` of 0 or 1 instead of 40 so that messages are abandoned, and a
completed cache of two keys. RPC: two attempts (one retry is enough for a request
to meet its own duplicate), two callers or two workers, two lives. Mesh: two
sends per node, one restart, two connections, two connects, three relay
connections, sockets of one frame and channels of two, so that a handful of
messages fills everything from sender to absent reader. Edge: two or three
backends, two readers, a table of three connections, so that a node inside the
list is unlinked, under four flows, one bucket under two sources, Maglev tables
of five slots with every permutation. Link: three connections, lifetimes of one
tick for tickets and two for cookies, so that a ticket expires and the handshake
after it succeeds, a window of three under numbers up to six. Moq: windows,
queues and broadcasts of two under up to three groups and four objects, every
numbering of three group streams by three numbers, two publishers, two
subscribers, whose handlers may bind one alias at once, and two calls. Two
messages, callers, connections or readers are the smallest number that can
interfere, and every buffer but the completed cache, whose capacity single
delivery depends on, is smaller than what is put into it. Symmetry is used
for the two equal messages of `homa_aligned`, whose only temporal property is the
safety part of a refinement, and for the two nodes of `relay`.

**Deadlock** is not checked: every system here may stop when its bounded
inputs are used up. Instead `session`, `relay`, `link` and `moq` state what must
hold when nothing can move any more.

**Fairness.** Transport: the io thread ticks every 5 ms, so a message that
stays idle is eventually handled by a tick (weak fairness), `send_impl` wakes
up (weak), and a datagram that is sent again and again is eventually received
(strong, for the datagrams that move a message forward only). Nothing is assumed
of a single datagram. Transmit queue: strong fairness of the send threads, since
a mutex that is released again and again is eventually obtained, and weak
fairness of the steps of shutdown; calling shutdown and pushing are not fair.
RPC: threads run (weak); nothing is assumed of the network, so a call may also
end by timeout. The other modules need no fairness: `PunchingSpends` shows that
punching ends by a quantity that every step of it decreases, and what must
eventually happen in `session`, `relay`, `link` and `moq` is stated of the states
in which no task can take a step.

## Proofs

Every proof is for all values of the constants: any number of messages,
callers, workers, connections, attempts, any lengths and windows, under the
named assumptions of the modules (`ASSUME`), which TLC evaluates in the runs.

| module | theorems |
|---|---|
| `HomaTransport_proof` | `TypeCorrect`, `WholeWhenAligned`, `WireWhenAligned`, `OpenWhenAligned`, `GrantingStaysLive`, `OnceWhileRemembered`, `ClosedWhileRemembered`, `DeliveryImplemented`, `TransportIsSafe` |
| `HomaTxQueue_proof` | `OnePlaceHolds`, `FlushHolds`, `HighestFirstHolds` |
| `HomaRpc_proof` | `TypeCorrect`, `CallsGetTheirAnswer`, `NoWaiterLeft`, `HandlerRunsOnce`, `MarkHasJob`, `RpcIsSafe` |
| `MeshDirect_proof` | `TypeCorrect`, `HeldWhileOpen`, `WorkingIsHeard`, `NodesConverge`, `DirectIsHeld`, `PunchingEnds`, `DirectIsSafe`, `DedupHolds` |
| `MeshSession_proof` | `InOrderHolds`, `SameSessionHolds` |
| `MoqLink_proof` | `WindowHolds`, `PrefixHolds` |
| `MoqView_proof` | `SameViewHolds`, `UsedOnceHolds` |
| `Edge_proof` | `SnapshotsHold`, `TableHolds`, `FiltersHold` |

**Types.** `TypeOK` of `HomaTransport` says that packet lengths and RESEND spans
are natural numbers, so its proof includes that the unsigned subtractions of the
code do not wrap; that of `HomaRpc` that no call exceeds its attempts; that of
`MeshDirect` that the reply budget does not go below zero.

**Aligned windows.** Three theorems assume `AlignedConfig` (both windows are
multiples of `packet_size`, the first is not empty). None of them
is inductive. The strengthening is `AlignedInv` (checked by TLC in
`homa_aligned`): a sender entry that is not done stands on a chunk boundary;
every DATA packet is a full chunk or the last one; a RESEND ends on a boundary or
at the end of the message; in a reassembly a byte is in the buffer exactly if the
bit of its chunk is set, and `received_bytes` is the number of those bytes. The
delicate part is that a short last chunk, and byte counts off the grid, may exist
only once the sender is done (`Past`): before that the grant targets computed
from `received_bytes` stay on the grid, which is what keeps GRANT and RESEND from
moving the sender off it. `homa_unaligned` shows that the assumption cannot be
dropped.

**Delivery.** That a message is delivered once needs the completed cache to be
read backwards: `OnceInv` says that it repeats no key, that a message was
delivered exactly if its key is there, and that such a message is not in
reassembly. With no key repeated the cache never exceeds the number of messages,
so with room for all of them it never evicts. The refinement adds `SentInv` (only
messages given to `send_impl` have a sender entry or DATA in flight) and then
goes action by action: a step of the transport is a step of `HomaDelivery` when
it starts a message or completes one, and a stutter otherwise.

**Transmit queue.** `wait_batch` drains the levels one after the other, which the
model says with a recursive function over the levels (`Drained`). `Recursion`, an
argument with the least level at which something fails, shows that the function
is what its equation says, and `DrainSound` follows by the same induction: what a
pass takes and what it leaves are together what was queued, each datagram once
and in its order, nothing that is left outranks what is taken, and a pass takes
nothing only if nothing was queued. `PlaceInv` then says of every datagram that it
is in one queue, in the batch of one thread or sent, and that no sequence repeats
one. `FlushInv` is about the end: a thread that holds the mutex and has found the
queue empty stays right about it until it releases the mutex, so a thread that
exits leaves nothing behind that was pushed before the drop.

**RPC.** `HandlerInv`: an rpc whose handler is still to run, queued or taken by
a worker, is marked as being computed and was not executed; no two jobs are for
one rpc; and nothing was executed for an rpc that is not in the dedup map, until
the server is gone. `PlaceholderHasJob` is inductive with the types.
`AnswerInv` follows a response from the handler through the dedup map, the
network and the dispatcher to the channel: wherever it is, its payload was
executed and comes from no later life of the client, and in a channel its rpc_id
is that of the call; in the first life the rpc_id determines the payload.
`WaiterInv` says for each call which attempt the waiter map, the dispatcher and
the inbox may refer to (`OnePlace`: never a later one, and the channel of the
current attempt is not at once registered and used) and that an entry of the map
is owned by the attempt in progress or by a call whose send failed. It was
checked, as `AnswerInv`, with TLC on the instances of `rpc` before it was proved.

**Direct path.** `ConnInv` relates connections, pending events, readers and the
held connection: each node reads from an open connection or has yet to handle its
opening event; one that is open and read is held; a held one is read or its close
event is pending; and no open connection has a close event. Agreement when all
events are handled follows from it. `DirectIsHeld` needs in addition that samples
exist only for a held connection (`PathInv`), since a late probe answer may move
the path. `PunchingEnds` is an arithmetic argument: each step of the punching
decreases `PunchWork`. `DedupHolds` is about one `connect_peer`: each node has one
exchange, and from it one job, one task that opens and one connection (`JobInv`); a
connection is held only once it was reported (`FreshInv`); so node 1's connection
is never closed by the dedup and node 2's only in favour of it (`KeptInv`). As
long as nothing is cut the canonical connection is thus open, and `WorkingIsHeard`
gives a reader for what was written to it.

**Sessions.** `InOrder` speaks of what was delivered only. `OInv` follows a
payload back: the payloads delivered at a node, in frames on their way to it, and
queued at its peer increase when they are read in that order (`Lane`), none is
newer than the last send_to, nothing is queued once there is a session to send it
with, and frames that a handler opens carry a key (`KeysOK`). The step that has
to be right is the flush: it empties the queue into the channel before the
session carries a later call. `SameSessionHolds` adds `Calm`, for the time before
the first mishap (node 2 comes up late, a node restarts, or a ciphertext that
looks like a handshake frame arrives). `Hand` says of each direction of the
X25519 handshake that an init is under way only while its receiver has no session
and its sender still waits for the answer, or has lost simultaneous initiation
and taken the session of the winner; that a response matches the open handshake
of its receiver and was sent behind any init; and that when only the sender has a
session, the response is under way. `Gm` says that until the client gives up one
GM-PQ frame is under way at a time, the one its state waits for, and that the
keys agree from MSG2 on. Both invariants were checked with TLC on the constants
of `session` before they were proved.

**Edge.** `SnapInv` is the argument for the two buffers: the count of a buffer is
the number of readers past their increment and before their decrement; the
buffers hold the last two versions; and (`Rcu`) while the publisher writes, every
snapshot that passed its re-check is of the active buffer, because the publisher
saw a count of zero after its last store to `active` was visible. The last part
holds until a store is overtaken (`hist.overtook`), as the properties do.
`HealthInv` relates the streak of a backend, which restarts at each change of
state, to the results in a row counted without restarts: the two differ only in
the state that the results call for. `PublishInv` follows the set of live
backends through `publish`. `BucketInv` strengthens the rate from pairs of
packets to each packet and now: what passed since a packet, and what is left in
the bucket, is at most a burst and the time since then; a refill adds no more
than that time. `PoliteInv`: in the window of a source that waits for answers
there is at most one SYN more than ACKs, and none more if it owes no answer. That
such a source is not flagged needs `syn_threshold` and `ack_ratio` of 2 or more
(the defaults of `simulator.rs` are 1000 and 4): with 1 a single SYN is a flood,
so `FiltersHold` assumes it. All five were checked with TLC on the instances of
`edge` first.

**GM-PQ channel.** `WindowInv`: the bits of the window are the distances from the
highest number to the accepted ones, as far as the window reaches; the lemma
`Marked` shows that `check_and_mark` keeps this for shifts smaller and larger than
the window. `PrefixHolds` numbers the frames that a side writes: a message has its
own number, the last frame of the handshake has 0, those before it have negative
numbers (`FrameIs`). `Lane` says that the frames in the bridge, in the network and
at the other side are numbered without a gap up to the last one written, and that
what follows the last message heard is the first frame of the lane. The shuttle
that has stopped, close with messages in the outbox and a frame damaged on the way
may cut the lane at its end only. Since the numbers of both directions hang on the
states of both workers, the invariant `LinkInv` is about pairs of views, one for
each side, and each action is shown to change one view in one of a few ways (it
writes, takes, moves or drops frames, or goes on in its handshake) that keep the
pair.

**GM-PQ handshake.** The invariant of `MoqView_proof` is `LinkTypes`: the kinds of
the variables (`ShapeInv`) and `Good`, whose parts were checked with TLC on the
instances of `link` first. `HandInv` relates, for each connection, the two workers
and the frames between them (`ViewOk`). The point of it is what a message that can
be opened says about its sender: a MSG3 under way, unless damaged, is sealed with
the key that the client's session comes from, over the transcript that its session
id extends, so a server that opens it derives that session; a record from the server means
that it has read MSG3. Derived keys contain the ephemeral key mixed in last, which
names its connection, so that a frame cannot pass for one of another connection.
`NonceInv` bounds the nonces used under each key by the counter of the worker that
has it, and the keys of the handshake, used with nonce 0 only, by how far the worker
has come. `TicketInv` follows every ticket that is somewhere (in the client's slot
or in a frame) against the cache: one that was used has reached its expiry, or is
sealed under a key of an earlier life of the server, or is in the cache with its
expiry. The cache drops a ticket in the second of its expiry, in which `open` still
accepts it; that second is the exception in `TicketOnce`.
The proof has a part about data alone (what a handshake step makes of two workers
and two sets of frames) and a part that shows every action to be such a step.
Both assume `NoiseIsNew`: what damage leaves of a key is neither a number nor a
tuple, that is, none of the terms of `GmPq`. In the runs `Noise` is a model value,
which is different from all of them; in the code it is what AEAD authentication
and the hash stand for.

**Only model-checked.** Liveness properties (outside the prover's logic) and
`Quiet` properties (they use `ENABLED`). `LutBalanced` and `TableIsLru` of `Edge`:
the lookup table and the walk along the list are recursive functions over
permutations and over a linked list, for which the induction of the transmit
queue would have to be repeated with much larger invariants. Everything about
`MeshRelay` and `Moq`: their properties depend on all the queues between relay, tasks
and clients at once, and no inductive strengthening of them has been worked out.

## Not modelled

Cryptographic computation (its promises are the terms of `GmPq`), packet and
message codecs, metrics and tracing, platform socket offloads, TLS set-up, and
test infrastructure (`net-sim`, `fuzz-harness`). Real-time behaviour is abstracted
to order: no run says how long something takes. The mesh models have two nodes.

Of moq-live: refused SETUP messages, GOAWAY from a peer (no code here sends it),
the bounded channel between a subscription and its application, and a relay that
blocks in a send while it holds the publishers' lock. The control stream inside
the GM-PQ channel is modelled apart, in `MoqLink`. Of homa-rpc: dropping the
client, GRO batching. Of p2p-mesh: the stand-alone punch driver of the examples,
and the tools that only read a snapshot. `PROJECT.json` gives the reason for
each part.

## Further work

1. `MeshSession` over `MeshRelay` instead of an ordered lossless path.
2. The control channel of `Moq` over an abstract specification of `MoqLink`.
3. Theorems: `Registered` for one connection per node in `MeshRelay`.
