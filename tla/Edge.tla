-------------------------------- MODULE Edge --------------------------------
(***************************************************************************)
(* The xdp-edge gateway: the control agent (control/agent.rs), which turns *)
(* probe results into backend states (health.rs) and publishes the lookup  *)
(* table of the live backends through two buffers (lut_publish.rs);        *)
(* concurrent readers of those buffers; the sweeper of the connection      *)
(* table (sweeper.rs); and the packet pipeline (simulator.rs).             *)
(*                                                                         *)
(* The agent and each reader of the table are threads; their accesses to   *)
(* the shared atomics and buffers are single steps.  The pipeline is one   *)
(* thread and a packet one step.  The publisher's store to active (a       *)
(* Release, without a fence) may reach the readers later.                  *)
(***************************************************************************)
EXTENDS EdgeTables

CONSTANTS
  Backends,     \* addresses of the backends, numbers
  Readers,      \* threads that take snapshots
  Flows,        \* connections: <<source, number>> pairs
  Interval,     \* HealthChecker.interval_ns, in ticks
  SweepEvery,   \* ConntrackSweeper.interval_ns, in ticks
  MaxTime,      \* bound on the clock
  Budgets       \* the instances: how much of each input, and fall and rise

ASSUME EdgeConstants ==
  /\ IsFiniteSet(Backends) /\ Backends \subseteq Nat /\ Backends # {}
  /\ IsFiniteSet(Readers)
  /\ {Interval, SweepEvery, MaxTime} \subseteq Nat
  /\ Budgets \subseteq
       [ticks : Nat, time : Nat, registers : Nat, snapshots : Nat, rebuilds : Nat, packets : Nat,
        hashes : BOOLEAN, delays : BOOLEAN, backends : (SUBSET Backends) \ {{}}, flows : SUBSET Flows,
        pools : SUBSET ((SUBSET Backends) \ {{}}), kinds : SUBSET {"SYN", "ACK", "UDP"},
        fall : Nat \ {0}, rise : Nat \ {0}]

VARIABLES
  now,       \* the clock of agent and pipeline
  budget,    \* what is left of the instance's inputs
  perm,      \* the hashes of each backend
  health,    \* HealthChecker.backends
  due,       \* probes under way
  published, \* ControlAgent.last_published
  pub,       \* where the publisher is in publish()
  buf,       \* backends and tables of both buffers
  active, stored, version, readers,   \* the atomics, and the store buffer
  rd,        \* where each reader is in snapshot(), and what it holds
  sweepAt,   \* ConntrackSweeper.next_run_ns
  plane,     \* the lookup table the pipeline uses
  ct, buckets, wins, flagged, stats,  \* the tables and counters of the pipeline
  hist       \* history, for the properties

control == <<health, due, published, pub, buf, active, stored, version, readers, rd>>
tables == <<sweepAt, plane, ct, buckets, wins, flagged, stats>>
vars == <<now, budget, perm, control, tables, hist>>

Source(f) == f[1]
Sources == {Source(f) : f \in Flows}
InOrder(S) == CHOOSE o \in Arranged(S) : \A i, j \in DOMAIN o : i < j => o[i] < o[j]
Lut(S) == [backends |-> InOrder(S), table |-> BuildLut(InOrder(S), perm), ver |-> 0]

Hashes == [offset : Slots, skip : 1 .. M - 1]
SomeHashes == [b \in Backends |-> [offset |-> b % M, skip |-> 1]]

Never == MaxTime + 1   \* u64::MAX
NewHealth == [state |-> "Unknown", last_ok |-> "none", streak |-> 0, probed |-> Never]
NoRuns == [ok |-> 0, bad |-> 0, state |-> "Unknown"]
NoStats == [rate |-> 0, flood |-> 0, forwarded |-> 0, hits |-> 0, misses |-> 0]

Init ==
  /\ now = 0
  /\ budget \in Budgets
  /\ perm \in IF budget.hashes THEN [Backends -> Hashes] ELSE {SomeHashes}
  /\ health = [b \in budget.backends |-> NewHealth]
  /\ due = {}
  /\ published = budget.backends
  /\ pub = [pc |-> "idle", alive |-> {}]
  /\ buf = [i \in {0, 1} |-> IF i = 0 THEN [Lut(budget.backends) EXCEPT !.ver = 1]
                             ELSE [backends |-> <<>>, table |-> [s \in Slots |-> Empty], ver |-> 0]]
  /\ active = 0 /\ stored = <<>> /\ version = 1
  /\ readers = [i \in {0, 1} |-> 0]
  /\ rd = [r \in Readers |-> [pc |-> "out", idx |-> 0, ver |-> 0, saw |-> 0]]
  /\ sweepAt = SweepEvery
  /\ plane = [Lut(budget.backends) EXCEPT !.ver = 1]
  /\ ct = NoConns /\ buckets = <<>> /\ wins = <<>> /\ flagged = 0 /\ stats = NoStats
  /\ hist = [runs |-> [b \in Backends |-> NoRuns], synced |-> FALSE,
             lru |-> <<>>, passed |-> [s \in Sources |-> <<>>],
             owes |-> [s \in Sources |-> 0], rude |-> {}, floods |-> {}, overtook |-> FALSE]

Spend(what) == budget[what] > 0 /\ budget' = [budget EXCEPT ![what] = @ - 1]

-----------------------------------------------------------------------------
(* control/agent.rs and health.rs. *)

Alive(h) == {b \in DOMAIN h : h[b].state = "Up"}

(* HealthChecker::report for one backend. *)
Reported(h, ok) ==
  LET s == IF h.last_ok = ok THEN h.streak + 1 ELSE 1
      new == IF ok = "ok" /\ s >= budget.rise THEN "Up"
             ELSE IF ok = "bad" /\ s >= budget.fall THEN "Down" ELSE h.state
  IN  [h EXCEPT !.probed = now, !.last_ok = ok, !.state = new, !.streak = IF new # h.state THEN 0 ELSE s]

(* The reference: the results in a row, counted without resets, and the state
   that the last long enough run calls for. *)
Counted(run, ok) ==
  LET oks == IF ok = "ok" THEN run.ok + 1 ELSE 0
      bads == IF ok = "bad" THEN run.bad + 1 ELSE 0
  IN  [ok |-> oks, bad |-> bads,
       state |-> IF oks >= budget.rise THEN "Up" ELSE IF bads >= budget.fall THEN "Down" ELSE run.state]

IsDue(b) == health[b].probed = Never \/ now - health[b].probed >= Interval

(* report_probe: a flip publishes, unless nothing is alive or nothing changed. *)
Publishes(h) == Alive(h) # {} /\ Alive(h) # published

ReportProbe(b, ok) ==
  /\ pub.pc = "idle"
  /\ b \in due /\ b \in DOMAIN health
  /\ due' = due \ {b}
  /\ LET h == [health EXCEPT ![b] = Reported(@, ok)]
         flips == h[b].state # health[b].state
     IN  /\ health' = h
         /\ pub' = IF flips /\ Publishes(h) THEN [pc |-> "spin", alive |-> Alive(h)] ELSE pub
         /\ hist' = [hist EXCEPT !.runs[b] = Counted(@, ok),
                                 !.synced = IF flips /\ Alive(h) # {} THEN TRUE ELSE @]
  /\ UNCHANGED <<now, budget, perm, published, buf, active, stored, version, readers, rd, tables>>

(* The probe of a backend that was unregistered meanwhile. *)
ReportUnknown(b) ==
  /\ pub.pc = "idle"
  /\ b \in due /\ b \notin DOMAIN health
  /\ due' = due \ {b}
  /\ UNCHANGED <<now, budget, perm, health, published, pub, buf, active, stored, version, readers, rd,
                 tables, hist>>

(* HealthChecker::register and unregister, through the agent's public field. *)
Register(b) ==
  /\ pub.pc = "idle"
  /\ Spend("registers")
  /\ health' = With(health, b, NewHealth)
  /\ hist' = [hist EXCEPT !.runs[b] = NoRuns, !.synced = FALSE]
  /\ UNCHANGED <<now, perm, due, published, pub, buf, active, stored, version, readers, rd, tables>>
Unregister(b) ==
  /\ pub.pc = "idle"
  /\ b \in DOMAIN health
  /\ Spend("registers")
  /\ health' = Without(health, b)
  /\ hist' = [hist EXCEPT !.synced = FALSE]
  /\ UNCHANGED <<now, perm, due, published, pub, buf, active, stored, version, readers, rd, tables>>

(* ControlAgent::tick: the sweeper when its time has come, then the probes. *)
Swept == Victims(ct, now)
Tick ==
  /\ pub.pc = "idle"
  /\ due = {}
  /\ Spend("ticks")
  /\ due' = {b \in DOMAIN health : IsDue(b)}
  /\ \/ /\ now < sweepAt
        /\ UNCHANGED <<sweepAt, ct, hist>>
     \/ /\ now >= sweepAt
        /\ sweepAt' = now + SweepEvery
        /\ \E order \in Arranged(Swept) : ct' = SweepExpired(ct, order)
        /\ hist' = [hist EXCEPT !.lru = SelectSeq(@, LAMBDA e : now - e.seen <= Timeout)]
  /\ UNCHANGED <<now, perm, health, published, pub, buf, active, stored, version, readers, rd,
                 plane, buckets, wins, flagged, stats>>

Advance ==
  /\ now < MaxTime
  /\ Spend("time")
  /\ now' = now + 1
  /\ UNCHANGED <<perm, control, tables, hist>>

-----------------------------------------------------------------------------
(* lut_publish.rs: publish. *)

Seen == IF stored # <<>> THEN stored[1] ELSE active   \* active, to the writer itself
Shadow == 1 - Seen
PubStep(from, to) == pub.pc = from /\ pub' = [pub EXCEPT !.pc = to]
PubFrame == UNCHANGED <<now, budget, perm, health, due, readers, rd, tables>>

SpinDone ==
  /\ readers[Shadow] = 0
  /\ PubStep("spin", "table")
  /\ hist' = [hist EXCEPT !.overtook = @ \/ stored # <<>>]
  /\ UNCHANGED <<published, buf, active, stored, version>> /\ PubFrame

(* The writes to the buffers follow an earlier store to active. *)
WriteTable ==
  /\ stored = <<>>
  /\ PubStep("table", "backends")
  /\ buf' = [buf EXCEPT ![Shadow].table = Lut(pub.alive).table]
  /\ UNCHANGED <<published, active, stored, version, hist>> /\ PubFrame
WriteBackends ==
  /\ PubStep("backends", "version")
  /\ buf' = [buf EXCEPT ![Shadow].backends = Lut(pub.alive).backends]
  /\ UNCHANGED <<published, active, stored, version, hist>> /\ PubFrame
BumpVersion ==
  /\ PubStep("version", "flip")
  /\ version' = version + 1
  /\ buf' = [buf EXCEPT ![Shadow].ver = version + 1]
  /\ UNCHANGED <<published, active, stored, hist>> /\ PubFrame

(* Mutant: the table that was published is not remembered. *)
Remembers_Nothing == published

(* The flip; then report_probe remembers what it published. *)
Remembers == pub.alive
Flip ==
  /\ PubStep("flip", "idle")
  /\ \/ active' = Shadow /\ UNCHANGED stored
     \/ budget.delays /\ stored' = <<Shadow>> /\ UNCHANGED active
  /\ published' = Remembers
  /\ UNCHANGED <<buf, version, hist>> /\ PubFrame
Drain ==
  /\ stored # <<>>
  /\ active' = stored[1] /\ stored' = <<>>
  /\ UNCHANGED <<now, budget, perm, health, due, published, pub, buf, version, readers, rd, tables, hist>>

(* lut_publish.rs: snapshot, and the drop of a snapshot. *)
RdStep(r, from, to) == rd[r].pc = from /\ rd' = [rd EXCEPT ![r] = to]
RdFrame == UNCHANGED <<now, perm, health, due, published, pub, buf, active, stored, version,
                       sweepAt, ct, buckets, wins, flagged, stats, hist>>
Load(r) ==
  /\ Spend("snapshots")
  /\ RdStep(r, "out", [rd[r] EXCEPT !.pc = "add", !.idx = active])
  /\ UNCHANGED <<readers, plane>> /\ RdFrame
Add(r) ==
  /\ RdStep(r, "add", [rd[r] EXCEPT !.pc = "check"])
  /\ readers' = [readers EXCEPT ![rd[r].idx] = @ + 1]
  /\ UNCHANGED <<budget, plane>> /\ RdFrame

(* Mutant: the second look at active is left out. *)
Recheck_Skipped(r) ==
  /\ RdStep(r, "check", [rd[r] EXCEPT !.pc = "label", !.saw = buf[rd[r].idx].ver])
  /\ UNCHANGED <<budget, readers, plane>> /\ RdFrame

Recheck(r) ==
  /\ \/ /\ active = rd[r].idx
        /\ RdStep(r, "check", [rd[r] EXCEPT !.pc = "label", !.saw = buf[rd[r].idx].ver])
     \/ /\ active # rd[r].idx
        /\ RdStep(r, "check", [rd[r] EXCEPT !.pc = "sub"])
  /\ UNCHANGED <<budget, readers, plane>> /\ RdFrame

Retry(r) ==
  /\ RdStep(r, "sub", [rd[r] EXCEPT !.pc = "again"])
  /\ readers' = [readers EXCEPT ![rd[r].idx] = @ - 1]
  /\ UNCHANGED <<budget, plane>> /\ RdFrame
Reload(r) ==
  /\ RdStep(r, "again", [rd[r] EXCEPT !.pc = "add", !.idx = active])
  /\ UNCHANGED <<budget, readers, plane>> /\ RdFrame

Label(r) ==
  /\ RdStep(r, "label", [rd[r] EXCEPT !.pc = "hold", !.ver = version])
  /\ UNCHANGED <<budget, readers, plane>> /\ RdFrame
(* The pipeline may be given the snapshot (apply_lut) before it is dropped. *)
DropSnapshot(r) ==
  /\ RdStep(r, "hold", [rd[r] EXCEPT !.pc = "out", !.saw = 0])
  /\ readers' = [readers EXCEPT ![rd[r].idx] = @ - 1]
  /\ plane' \in {plane, buf[rd[r].idx]}
  /\ UNCHANGED budget /\ RdFrame

-----------------------------------------------------------------------------
(* simulator.rs: process. *)

(* The reference for the connection table: the connections in order of use. *)
Others(f) == SelectSeq(hist.lru, LAMBDA e : e.key # f)
Touched(f, backend) ==
  LET room == IF Len(Others(f)) >= Capacity THEN Front(Others(f)) ELSE Others(f)
  IN  <<[key |-> f, backend |-> backend, seen |-> now]>> \o room

(* A source is polite as long as each of its SYNs is followed by an ACK before
   the next, and none of its packets was dropped by the limiter. *)
Owes(s, kind) == IF kind = "SYN" THEN 1 ELSE IF kind = "ACK" THEN 0 ELSE hist.owes[s]
Rude(s, kind, dropped) ==
  IF dropped \/ (kind = "SYN" /\ hist.owes[s] = 1) THEN hist.rude \cup {s} ELSE hist.rude

(* 1. The limiter. *)
DropByRate(f, kind) ==
  LET s == Source(f)
  IN  /\ Spend("packets")
      /\ ~Allows(buckets, s, now)
      /\ buckets' = Limited(buckets, s, now)
      /\ stats' = [stats EXCEPT !.rate = @ + 1]
      /\ hist' = [hist EXCEPT !.owes[s] = Owes(s, kind), !.rude = Rude(s, kind, TRUE)]
      /\ UNCHANGED <<now, perm, control, sweepAt, plane, ct, wins, flagged>>

TakenForFlood(f, kind) == IF kind = "UDP" THEN FALSE ELSE Flagged(wins'[Source(f)])
Passes(f, kind) ==
  LET s == Source(f)
  IN  /\ Spend("packets")
      /\ Allows(buckets, s, now)
      /\ buckets' = Limited(buckets, s, now)
      /\ wins' = IF kind = "UDP" THEN wins ELSE Observe(wins, s, kind, now)
      /\ flagged' = IF TakenForFlood(f, kind) THEN IF wins'[s].syn = Threshold THEN flagged + 1 ELSE flagged
                                              ELSE flagged
      /\ UNCHANGED <<now, perm, control, sweepAt, plane>>
PassedHist(f, kind) ==
  LET s == Source(f)
  IN  [hist EXCEPT !.owes[s] = Owes(s, kind), !.rude = Rude(s, kind, FALSE),
                   !.passed[s] = IF Overflows(buckets, s) THEN @ ELSE Append(@, now)]

(* 2. SYN flood. *)
DropByFlood(f, kind) ==
  /\ Passes(f, kind)
  /\ TakenForFlood(f, kind)
  /\ stats' = [stats EXCEPT !.flood = @ + 1]
  /\ hist' = [PassedHist(f, kind) EXCEPT !.floods = @ \cup {Source(f)}]
  /\ UNCHANGED ct

(* 3. A connection that is tracked keeps its backend. *)
ForwardTracked(f, kind) ==
  /\ Passes(f, kind)
  /\ ~TakenForFlood(f, kind)
  /\ IsHit(ct, f, now)
  /\ ct' = Lookup(ct, f, now)
  /\ stats' = [stats EXCEPT !.hits = @ + 1, !.forwarded = @ + 1]
  /\ hist' = [PassedHist(f, kind) EXCEPT !.lru = Touched(f, (CHOOSE e \in Range(@) : e.key = f).backend)]

(* 4. A new one is given a backend by the table in use. *)
ForwardNew(f, kind) ==
  /\ Passes(f, kind)
  /\ ~TakenForFlood(f, kind)
  /\ ~IsHit(ct, f, now)
  /\ ct' = Insert(Lookup(ct, f, now), f, Backend(plane, f[2]), now)
  /\ stats' = [stats EXCEPT !.misses = @ + 1, !.forwarded = @ + 1]
  /\ hist' = [PassedHist(f, kind) EXCEPT !.lru = Touched(f, Backend(plane, f[2]))]

(* set_backends rebuilds the pipeline's own table. *)
SetBackends(S) ==
  /\ Spend("rebuilds")
  /\ plane' = Lut(S)
  /\ UNCHANGED <<now, perm, control, sweepAt, ct, buckets, wins, flagged, stats, hist>>

-----------------------------------------------------------------------------
Input ==
  \/ Tick \/ Advance
  \/ \E b \in Backends : Register(b) \/ Unregister(b)
  \/ \E b \in Backends : ReportProbe(b, "ok") \/ ReportProbe(b, "bad") \/ ReportUnknown(b)
  \/ \E r \in Readers : Load(r)
  \/ \E S \in budget.pools : SetBackends(S)
  \/ \E f \in budget.flows, kind \in budget.kinds :
       DropByRate(f, kind) \/ DropByFlood(f, kind) \/ ForwardTracked(f, kind) \/ ForwardNew(f, kind)

Progress ==
  \/ SpinDone \/ WriteTable \/ WriteBackends \/ BumpVersion \/ Flip \/ Drain
  \/ \E r \in Readers : Add(r) \/ Recheck(r) \/ Retry(r) \/ Reload(r) \/ Label(r) \/ DropSnapshot(r)

Next == Input \/ Progress

Spec == Init /\ [][Next]_vars

-----------------------------------------------------------------------------
TypeOK ==
  /\ now \in 0 .. MaxTime
  /\ DOMAIN health \subseteq Backends
  /\ \A b \in DOMAIN health :
       health[b] \in [state : {"Unknown", "Up", "Down"}, last_ok : {"none", "ok", "bad"},
                      streak : Nat, probed : 0 .. Never]
  /\ due \subseteq Backends
  /\ \A i \in {0, 1} : readers[i] \in 0 .. Cardinality(Readers)
  /\ \A s \in DOMAIN buckets : buckets[s].tokens \in 0 .. Burst * Cost
  /\ Cardinality(DOMAIN buckets) <= MaxBuckets

(* health.rs: a backend is down after fall failures in a row and up after rise
   successes in a row, whatever came before, and changes state for nothing else. *)
HealthFollows == \A b \in DOMAIN health : health[b].state = hist.runs[b].state

(* report_probe: once a flip has left some backend alive, the active table is
   the one of the live backends, and stays so until none is alive or somebody
   registers or unregisters a backend. *)
LutFollowsHealth ==
  pub.pc = "idle" /\ hist.synced /\ Alive(health) # {} =>
    /\ published = Alive(health)
    /\ buf[Seen].backends = InOrder(Alive(health))

(* The RCU-lite protocol of publish and snapshot: while a reader holds a
   snapshot nobody writes to its buffer, so that its table and its backends
   are of one version.  The module comment promises it.  It needs the store to
   active to be seen before the next publication looks for readers: a publisher
   that looks while the store is still on its way (overtook) has no fence that
   rules this out. *)
SnapshotIsWhole ==
  ~hist.overtook => \A r \in Readers : rd[r].pc \in {"label", "hold"} =>
    LET b == buf[rd[r].idx]
    IN  b.ver = rd[r].saw /\ b.table = BuildLut(b.backends, perm)

(* The version in a snapshot is that of its buffer or the next one, whose
   table is not active yet; never an older one and never two ahead. *)
LabelWithinOne ==
  ~hist.overtook => \A r \in Readers : rd[r].pc = "hold" => rd[r].ver - rd[r].saw \in {0, 1}

(* publish spins until its buffer has no reader: once every reader has dropped
   its snapshot, whatever retries it went through, that wait is over. *)
PublishReturns == (\A r \in Readers : rd[r].pc = "out") => \A i \in {0, 1} : readers[i] = 0

(* build_lut: every slot of the table in use names a backend, and no backend
   has two slots more than another. *)
SlotsOf(lut, i) == Cardinality({s \in Slots : lut.table[s] = i})
LutBalanced ==
  ~hist.overtook => \A lut \in {plane, buf[active]} :
    /\ \A s \in Slots : lut.table[s] \in DOMAIN lut.backends
    /\ \A i, j \in DOMAIN lut.backends : SlotsOf(lut, i) <= SlotsOf(lut, j) + 1

(* conntrack.rs: the list from head to tail, and from tail to head, is the
   connections in order of use with their backends (so a tracked connection
   keeps its backend until it expires or is the least used of a full table);
   the map leads to the same nodes and the other nodes are free, once each. *)
Walk(from, Step(_)) ==
  LET n == Cardinality(DOMAIN ct.map)
      at[k \in 1 .. n + 1] == IF k = 1 THEN from ELSE IF at[k - 1] = NIL THEN NIL ELSE Step(at[k - 1])
  IN  at
TableIsLru ==
  LET n == Len(hist.lru)
      down == Walk(ct.head, LAMBDA i : ct.nodes[i].next)
      back == Walk(ct.tail, LAMBDA i : ct.nodes[i].prev)
  IN  /\ Cardinality(DOMAIN ct.map) = n /\ n <= Capacity
      /\ down[n + 1] = NIL /\ back[n + 1] = NIL
      /\ \A k \in 1 .. n :
           /\ down[k] # NIL /\ back[n + 1 - k] = down[k]
           /\ LET e == ct.nodes[down[k]]
              IN  /\ [key |-> e.key, backend |-> e.backend, seen |-> e.seen] = hist.lru[k]
                  /\ ct.map[e.key] = down[k]
      /\ {down[k] : k \in 1 .. n} \cap Range(ct.free) = {}
      /\ Len(ct.free) + n = Len(ct.nodes) /\ Cardinality(Range(ct.free)) = Len(ct.free)

(* token_bucket.rs: over any stretch of time a source that has a bucket passes
   at most a burst and what the rate allows meanwhile. *)
RateIsKept ==
  \A s \in Sources : \A i, j \in DOMAIN hist.passed[s] :
    i <= j => (j - i + 1) * Cost <= Burst * Cost + (hist.passed[s][j] - hist.passed[s][i])

(* synflood.rs behind the limiter: only a source that sent a second SYN before
   answering the first, or lost a packet to the limiter, is taken for a flood. *)
PoliteIsNoFlood == hist.floods \subseteq hist.rude

(* The control plane follows the probes: the state of a backend is what its
   last probes say, and the active table what the states say. *)
TableFollowsProbes == TypeOK /\ HealthFollows /\ LutFollowsHealth

(* publish and snapshot do not disturb each other: a snapshot is of one
   version, labelled with it or with the next one, and leaves no count behind
   that publish would wait for. *)
SnapshotsAreSafe == SnapshotIsWhole /\ LabelWithinOne /\ PublishReturns

(* The two filters in front of the table pass no more than the rate and take
   nobody for a flood who waits for answers. *)
FiltersAreExact == RateIsKept /\ PoliteIsNoFlood
=============================================================================
