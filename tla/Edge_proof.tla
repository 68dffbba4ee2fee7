----------------------------- MODULE Edge_proof -----------------------------
(***************************************************************************)
(* Proofs about Edge for every number of backends, readers and sources,    *)
(* every size of the tables and every length of a run: snapshots of the    *)
(* lookup table, the control plane, and the two filters of the pipeline.   *)
(***************************************************************************)
EXTENDS Edge, FiniteSetTheorems, TLAPS

(* The provers in the order in which a leaf tries them, then again with more time. *)
USE SMT, Zenon, SMTT(60), ZenonT(60)

-----------------------------------------------------------------------------
(* The inputs that are left, and the fields of the history. *)
BudgetSet ==
  [ticks : Nat, time : Nat, registers : Nat, snapshots : Nat, rebuilds : Nat, packets : Nat,
   hashes : BOOLEAN, delays : BOOLEAN, backends : (SUBSET Backends) \ {{}}, flows : SUBSET Flows,
   pools : SUBSET ((SUBSET Backends) \ {{}}), kinds : SUBSET {"SYN", "ACK", "UDP"},
   fall : Nat \ {0}, rise : Nat \ {0}]
Inputs == {"ticks", "time", "registers", "snapshots", "rebuilds", "packets"}
Fields == {"runs", "synced", "lru", "passed", "owes", "rude", "floods", "overtook"}

Shape == budget \in BudgetSet /\ DOMAIN hist = Fields /\ now \in 0 .. MaxTime

LEMMA Constants ==
  /\ IsFiniteSet(Backends) /\ Backends \subseteq Nat /\ IsFiniteSet(Readers)
  /\ MaxTime \in Nat /\ Budgets \subseteq BudgetSet
  /\ Burst \in Nat \ {0} /\ Cost \in Nat \ {0} /\ MaxBuckets \in Nat
  /\ Threshold \in Nat /\ Ratio \in Nat /\ Window \in Nat /\ M \in Nat
BY EdgeConstants, TableConstants DEF BudgetSet

(* What an input leaves of the budget. *)
Left == /\ budget' \in BudgetSet
        /\ budget'.fall = budget.fall /\ budget'.rise = budget.rise

LEMMA SpendLeft ==
  ASSUME budget \in BudgetSet, NEW what \in Inputs, Spend(what)
  PROVE  Left
<1>1. budget[what] \in Nat
  BY DEF BudgetSet, Inputs
<1>2. budget[what] - 1 \in Nat /\ budget' = [budget EXCEPT ![what] = budget[what] - 1]
  BY <1>1 DEF Spend
<1> QED BY <1>2 DEF Left, BudgetSet, Inputs

-----------------------------------------------------------------------------
(* The variables of the three parts.  A step of one part leaves the others. *)
Snap == <<buf, active, stored, version, readers, rd, perm, hist.overtook>>
Ctl == <<health, published, buf, active, stored, perm, hist.runs, hist.synced>>
Fil == <<buckets, wins, hist.passed, hist.owes, hist.rude, hist.floods>>
Goes == Left /\ DOMAIN hist' = Fields /\ now' \in Nat /\ now <= now' /\ now' <= MaxTime

LEMMA HistFields ==
  ASSUME DOMAIN hist = Fields
  PROVE  /\ "runs" \in DOMAIN hist /\ "synced" \in DOMAIN hist /\ "lru" \in DOMAIN hist
         /\ "passed" \in DOMAIN hist /\ "owes" \in DOMAIN hist /\ "rude" \in DOMAIN hist
         /\ "floods" \in DOMAIN hist /\ "overtook" \in DOMAIN hist
BY ZenonT(60) DEF Fields

LEMMA Standing ==
  ASSUME Shape, budget' = budget, DOMAIN hist' = Fields, now' = now
  PROVE  Goes
BY Constants DEF Shape, Goes, Left

LEMMA Spending ==
  ASSUME Shape, NEW what \in Inputs, Spend(what), DOMAIN hist' = Fields, now' = now
  PROVE  Goes
<1>1. Left
  BY ZenonT(60), SpendLeft DEF Shape
<1> QED BY <1>1, Constants DEF Shape, Goes

(* A step that the three parts do not see. *)
Idle == UNCHANGED <<Snap, Ctl, Fil, pub>>

LEMMA TickFrame ==
  ASSUME Shape, Tick
  PROVE  Goes /\ Idle
<1>1. \/ hist' = hist
      \/ hist' = [hist EXCEPT !.lru = SelectSeq(@, LAMBDA e : now - e.seen <= Timeout)]
  BY ZenonT(60) DEF Tick
<1>2. DOMAIN hist' = Fields /\ \A x \in Fields \ {"lru"} : hist'[x] = hist[x]
  BY <1>1 DEF Shape
<1>3. Goes
  BY ZenonT(60), <1>2, Spending DEF Tick, Inputs
<1>4. /\ hist'.runs = hist.runs /\ hist'.synced = hist.synced /\ hist'.passed = hist.passed
      /\ hist'.owes = hist.owes /\ hist'.rude = hist.rude /\ hist'.floods = hist.floods
      /\ hist'.overtook = hist.overtook
  BY <1>2 DEF Fields
<1> QED BY ZenonT(60), <1>3, <1>4 DEF Tick, Idle, Snap, Ctl, Fil

LEMMA AdvanceFrame ==
  ASSUME Shape, Advance
  PROVE  Goes /\ Idle
<1>1. Left
  BY ZenonT(60), SpendLeft DEF Shape, Advance, Inputs
<1>2. now' \in Nat /\ now <= now' /\ now' <= MaxTime
  BY Constants DEF Shape, Advance
<1>3. hist' = hist
  BY ZenonT(60) DEF Advance
<1> QED BY ZenonT(60), <1>1, <1>2, <1>3 DEF Advance, Goes, Shape, Idle, Snap, Ctl, Fil, control, tables

LEMMA PlainFrame ==
  ASSUME Shape, (\E b \in Backends : ReportUnknown(b)) \/ (\E S \in budget.pools : SetBackends(S))
  PROVE  Goes /\ Idle
<1>1. CASE \E b \in Backends : ReportUnknown(b)
  BY ZenonT(60), <1>1, Standing DEF Shape, ReportUnknown, Idle, Snap, Ctl, Fil, tables
<1>2. CASE \E S \in budget.pools : SetBackends(S)
  BY ZenonT(60), <1>2, Spending DEF Shape, SetBackends, Idle, Snap, Ctl, Fil, control, Inputs
<1> QED BY ZenonT(60), <1>1, <1>2

LEMMA RegisterFrame ==
  ASSUME Shape, NEW b \in Backends, Register(b) \/ Unregister(b)
  PROVE  Goes /\ UNCHANGED <<Snap, Fil, pub>>
<1>1. hist' = [hist EXCEPT !.runs[b] = NoRuns, !.synced = FALSE] \/ hist' = [hist EXCEPT !.synced = FALSE]
  BY ZenonT(60) DEF Register, Unregister
<1>2. DOMAIN hist' = Fields /\ \A x \in Fields \ {"runs", "synced"} : hist'[x] = hist[x]
  BY ZenonT(60), <1>1 DEF Shape
<1>3. Goes
  BY ZenonT(60), <1>2, Spending DEF Register, Unregister, Inputs
<1>4. /\ hist'.passed = hist.passed /\ hist'.owes = hist.owes /\ hist'.rude = hist.rude
      /\ hist'.floods = hist.floods /\ hist'.overtook = hist.overtook
  BY <1>2 DEF Fields
<1> QED BY ZenonT(60), <1>3, <1>4 DEF Register, Unregister, Snap, Fil, tables

LEMMA ProbeFrame ==
  ASSUME Shape, NEW b \in Backends, NEW ok, ReportProbe(b, ok)
  PROVE  Goes /\ UNCHANGED <<Snap, Fil>>
<1>1. \E r, y : hist' = [hist EXCEPT !.runs[b] = r, !.synced = y]
  BY ZenonT(60) DEF ReportProbe
<1>2. DOMAIN hist' = Fields /\ \A x \in Fields \ {"runs", "synced"} : hist'[x] = hist[x]
  BY ZenonT(60), <1>1 DEF Shape
<1>3. Goes
  BY ZenonT(60), <1>2, Standing DEF ReportProbe
<1>4. /\ hist'.passed = hist.passed /\ hist'.owes = hist.owes /\ hist'.rude = hist.rude
      /\ hist'.floods = hist.floods /\ hist'.overtook = hist.overtook
  BY <1>2 DEF Fields
<1> QED BY ZenonT(60), <1>3, <1>4 DEF ReportProbe, Snap, Fil, tables

Publishing == SpinDone \/ WriteTable \/ WriteBackends \/ BumpVersion \/ Flip \/ Drain
LEMMA PublishFrame ==
  ASSUME Shape, Publishing
  PROVE  /\ Goes /\ UNCHANGED <<Fil, health, perm, readers, rd, hist.runs, hist.synced>>
         /\ SpinDone \/ UNCHANGED hist.overtook
         /\ SpinDone => hist'.overtook = (hist.overtook \/ stored # <<>>)
<1>1. \/ hist' = hist /\ ~SpinDone
      \/ SpinDone /\ hist' = [hist EXCEPT !.overtook = @ \/ stored # <<>>]
  BY ZenonT(60) DEF Publishing, SpinDone, WriteTable, WriteBackends, BumpVersion, Flip, Drain
<1>2. DOMAIN hist' = Fields /\ \A x \in Fields \ {"overtook"} : hist'[x] = hist[x]
  BY <1>1 DEF Shape
<1>3. Goes
  BY ZenonT(60), <1>2, Standing DEF Publishing, SpinDone, WriteTable, WriteBackends, BumpVersion, Flip, Drain, PubFrame
<1>4. /\ hist'.passed = hist.passed /\ hist'.owes = hist.owes /\ hist'.rude = hist.rude
      /\ hist'.floods = hist.floods /\ hist'.runs = hist.runs /\ hist'.synced = hist.synced
  BY <1>2 DEF Fields
<1>5. UNCHANGED <<health, perm, readers, rd, buckets, wins>>
  BY ZenonT(60) DEF Publishing, SpinDone, WriteTable, WriteBackends, BumpVersion, Flip, Drain, PubFrame, tables
<1>6. /\ SpinDone \/ UNCHANGED hist.overtook
      /\ SpinDone => hist'.overtook = (hist.overtook \/ stored # <<>>)
  <2>1. CASE hist' = hist /\ ~SpinDone
    BY ZenonT(60), <2>1
  <2>2. CASE SpinDone /\ hist' = [hist EXCEPT !.overtook = @ \/ stored # <<>>]
    BY ZenonT(60), <2>2, HistFields DEF Shape
  <2> QED BY ZenonT(60), <1>1, <2>1, <2>2
<1> QED BY ZenonT(60), <1>3, <1>4, <1>5, <1>6 DEF Fil

Reading(r) == Load(r) \/ Add(r) \/ Recheck(r) \/ Retry(r) \/ Reload(r) \/ Label(r) \/ DropSnapshot(r)
LEMMA ReadFrame ==
  ASSUME Shape, NEW r \in Readers, Reading(r)
  PROVE  Goes /\ UNCHANGED <<Ctl, Fil, pub, version, hist.overtook>>
<1>1. RdFrame /\ (Spend("snapshots") \/ UNCHANGED budget)
  BY ZenonT(60) DEF Reading, Load, Add, Recheck, Retry, Reload, Label, DropSnapshot
<1>2. Goes
  BY ZenonT(60), <1>1, Spending, Standing DEF RdFrame, Shape, Inputs
<1> QED BY ZenonT(60), <1>1, <1>2 DEF RdFrame, Ctl, Fil


(* What the history notes of a packet. *)
Noted(f, kind, dropped, flood) == LET s == Source(f) IN
  /\ DOMAIN hist' = Fields /\ UNCHANGED <<hist.runs, hist.synced, hist.overtook>>
  /\ hist'.owes = [hist.owes EXCEPT ![s] = Owes(s, kind)]
  /\ hist'.rude = Rude(s, kind, dropped)
  /\ hist'.passed = IF dropped THEN hist.passed
                    ELSE [hist.passed EXCEPT ![s] = IF Overflows(buckets, s) THEN @ ELSE Append(@, now)]
  /\ hist'.floods = IF flood THEN hist.floods \cup {s} ELSE hist.floods

LEMMA RateNoted ==
  ASSUME Shape, NEW f, NEW kind, DropByRate(f, kind)
  PROVE  Noted(f, kind, TRUE, FALSE)
<1> DEFINE o == [hist.owes EXCEPT ![Source(f)] = Owes(Source(f), kind)]
           d == Rude(Source(f), kind, TRUE)
<1>1. hist' = [hist EXCEPT !.owes = o, !.rude = d]
  BY ZenonT(60) DEF DropByRate
<1> HIDE DEF o, d
<1>2. /\ DOMAIN hist' = Fields /\ UNCHANGED <<hist.runs, hist.synced, hist.overtook, hist.passed, hist.floods>>
      /\ hist'.owes = o /\ hist'.rude = d
  BY <1>1 DEF Shape, Fields
<1> QED BY ZenonT(60), <1>2 DEF Noted, o, d

LEMMA PassNoted ==
  ASSUME Shape, NEW f, NEW kind, DropByFlood(f, kind) \/ ForwardTracked(f, kind) \/ ForwardNew(f, kind)
  PROVE  Noted(f, kind, FALSE, DropByFlood(f, kind))
<1> DEFINE o == [hist.owes EXCEPT ![Source(f)] = Owes(Source(f), kind)]
           d == Rude(Source(f), kind, FALSE)
           p == [hist.passed EXCEPT ![Source(f)] = IF Overflows(buckets, Source(f)) THEN @ ELSE Append(@, now)]
           h == PassedHist(f, kind)
<1>1. h = [hist EXCEPT !.owes = o, !.rude = d, !.passed = p]
  BY ZenonT(60) DEF PassedHist
<1>2. \/ DropByFlood(f, kind) /\ hist' = [h EXCEPT !.floods = @ \cup {Source(f)}]
      \/ ~DropByFlood(f, kind) /\ \E l : hist' = [h EXCEPT !.lru = l]
  BY ZenonT(60) DEF DropByFlood, ForwardTracked, ForwardNew
<1> HIDE DEF o, d, p, h
<1>3. /\ DOMAIN h = Fields /\ h.runs = hist.runs /\ h.synced = hist.synced /\ h.overtook = hist.overtook
      /\ h.floods = hist.floods /\ h.owes = o /\ h.rude = d /\ h.passed = p
  BY <1>1 DEF Shape, Fields
<1>4. /\ DOMAIN hist' = Fields /\ hist'.runs = h.runs /\ hist'.synced = h.synced /\ hist'.overtook = h.overtook
      /\ hist'.owes = o /\ hist'.rude = d /\ hist'.passed = p
      /\ hist'.floods = IF DropByFlood(f, kind) THEN h.floods \cup {Source(f)} ELSE h.floods
  <2>1. CASE DropByFlood(f, kind)
    BY <1>2, <1>3, <2>1 DEF Fields
  <2>2. CASE ~DropByFlood(f, kind)
    BY <1>2, <1>3, <2>2 DEF Fields
  <2> QED BY <2>1, <2>2
<1> QED BY ZenonT(60), <1>3, <1>4 DEF Noted, o, d, p

Packet(f, kind) == DropByRate(f, kind) \/ DropByFlood(f, kind) \/ ForwardTracked(f, kind) \/ ForwardNew(f, kind)
LEMMA PacketFrame ==
  ASSUME Shape, NEW f \in budget.flows, NEW kind \in budget.kinds, Packet(f, kind)
  PROVE  Goes /\ UNCHANGED <<Snap, Ctl, pub, now>>
<1>1. DOMAIN hist' = Fields /\ UNCHANGED <<hist.runs, hist.synced, hist.overtook>>
  BY ZenonT(60), RateNoted, PassNoted DEF Packet, Noted
<1>2. Spend("packets") /\ UNCHANGED <<now, perm, control>>
  BY ZenonT(60) DEF Packet, DropByRate, DropByFlood, ForwardTracked, ForwardNew, Passes
<1>3. Goes
  BY ZenonT(60), <1>1, <1>2, Spending DEF Inputs
<1> QED BY ZenonT(60), <1>1, <1>2, <1>3 DEF Snap, Ctl, control

LEMMA Shaped ==
  ASSUME Shape, Goes
  PROVE  Shape'
BY Constants DEF Goes, Shape, Left

-----------------------------------------------------------------------------
(* Snapshots.  Who is counted at a buffer, and who may read it. *)
Pcs == {"out", "add", "check", "sub", "again", "label", "hold"}
Counted1 == {"check", "sub", "label", "hold"}
At(i) == {r \in Readers : rd[r].pc \in Counted1 /\ rd[r].idx = i}
Holds(r) == rd[r].pc \in {"label", "hold"}

Stages == {"idle", "spin", "table", "backends", "version", "flip"}
Writing == pub.pc \in Stages \ {"idle", "spin"}

Orders == {InOrder(S) : S \in SUBSET Backends} \cup {<<>>}
Tables == {BuildLut(o, perm) : o \in Orders} \cup {[s \in Slots |-> Empty]}
Buffers == [backends : Orders, table : Tables, ver : Nat]
Whole(i) == buf[i].table = BuildLut(buf[i].backends, perm)

(* A flip whose store is under way, or none. *)
Flips == {<<>>, <<0>>, <<1>>}

SnapTypes ==
  /\ active \in {0, 1} /\ stored \in Flips /\ version \in Nat
  /\ buf \in [{0, 1} -> Buffers]
  /\ readers \in [{0, 1} -> Nat]
  /\ rd \in [Readers -> [pc : Pcs, idx : {0, 1}, ver : Nat, saw : Nat]]
  /\ pub \in [pc : Stages, alive : SUBSET Backends]

(* The count of a buffer is that of its readers. *)
Count == \A i \in {0, 1} : readers[i] = Cardinality(At(i))

(* The buffers hold the last two versions. *)
Versions ==
  /\ Writing /\ pub.pc # "table" => stored = <<>>
  /\ buf[Seen].ver = IF pub.pc = "flip" THEN version - 1 ELSE version
  /\ buf[Shadow].ver = IF pub.pc = "flip" THEN version ELSE version - 1

(* While the publisher writes, every snapshot is of the active buffer; what is
   active, and what is held, is whole. *)
Rcu ==
  /\ Writing => stored = <<>> /\ \A r \in Readers : Holds(r) => rd[r].idx = active
  /\ Whole(active) /\ Whole(Seen)
  /\ pub.pc = "backends" => buf[Shadow].table = BuildLut(InOrder(pub.alive), perm)
  /\ pub.pc \in {"version", "flip"} => Whole(Shadow)
  /\ \A r \in Readers : Holds(r) => Whole(rd[r].idx) /\ rd[r].saw = buf[rd[r].idx].ver
  /\ \A r \in Readers : rd[r].pc = "hold" => rd[r].ver - rd[r].saw \in {0, 1}

SnapInv == SnapTypes /\ Count /\ Versions /\ (~hist.overtook => Rcu)

LEMMA AtFinite ==
  ASSUME NEW i
  PROVE  /\ IsFiniteSet(At(i)) /\ Cardinality(At(i)) \in Nat
         /\ Cardinality(At(i)) = 0 => At(i) = {}
         /\ Cardinality(At(i)) <= Cardinality(Readers) /\ Cardinality(Readers) \in Nat
<1>1. At(i) \subseteq Readers /\ IsFiniteSet(Readers)
  BY ZenonT(60), Constants DEF At
<1>2. IsFiniteSet(At(i)) /\ Cardinality(At(i)) <= Cardinality(Readers)
  BY ZenonT(60), <1>1, FS_Subset
<1>3. Cardinality(At(i)) \in Nat /\ Cardinality(Readers) \in Nat
  BY ZenonT(60), <1>1, <1>2, FS_CardinalityType
<1>4. Cardinality(At(i)) = 0 => At(i) = {}
  BY ZenonT(60), <1>2, FS_EmptySet
<1> QED BY ZenonT(60), <1>2, <1>3, <1>4

LEMMA SeenTypes ==
  ASSUME SnapTypes
  PROVE  /\ Seen \in {0, 1} /\ Shadow \in {0, 1} /\ Seen # Shadow
         /\ stored = <<>> => Seen = active
         /\ \A i \in {0, 1} : i = Seen \/ i = Shadow
BY DEF SnapTypes, Flips, Seen, Shadow

(* A step that does not touch them; the publisher may start to spin. *)
LEMMA SnapStill ==
  ASSUME SnapInv, UNCHANGED Snap,
         \/ pub' = pub
         \/ pub.pc = "idle" /\ pub' \in [pc : {"spin"}, alive : SUBSET Backends]
  PROVE  SnapInv'
<1>1. UNCHANGED <<buf, active, stored, version, readers, rd, perm>> /\ hist'.overtook = hist.overtook
  BY ZenonT(60) DEF Snap
<1>2. /\ Seen' = Seen /\ Shadow' = Shadow /\ (\A i : At(i)' = At(i) /\ Whole(i)' = Whole(i))
      /\ (\A r : Holds(r)' = Holds(r)) /\ Buffers' = Buffers
  BY ZenonT(60), <1>1 DEF Seen, Shadow, At, Whole, Holds, Buffers, Tables
<1>3. /\ pub' \in [pc : Stages, alive : SUBSET Backends]
      /\ \/ pub' = pub
         \/ pub.pc = "idle" /\ pub'.pc = "spin"
  BY DEF SnapInv, SnapTypes, Stages
<1>4. SnapTypes'
  BY ZenonT(60), <1>1, <1>2, <1>3 DEF SnapInv, SnapTypes
<1>5. Count'
  BY ZenonT(60), <1>1, <1>2 DEF SnapInv, Count
<1>6. /\ Writing' = Writing /\ (pub'.pc = "flip") = (pub.pc = "flip") /\ (pub'.pc = "table") = (pub.pc = "table")
      /\ pub'.pc \in {"backends", "version", "flip"} => pub' = pub
  BY <1>3 DEF Writing, Stages
<1>7. Versions'
  BY ZenonT(60), <1>1, <1>2, <1>6 DEF SnapInv, Versions
<1>8. ~hist'.overtook => Rcu'
  BY ZenonT(60), <1>1, <1>2, <1>6 DEF SnapInv, Rcu
<1> QED BY ZenonT(60), <1>4, <1>5, <1>7, <1>8 DEF SnapInv

(* A reader moves. *)
Reader == [pc : Pcs, idx : {0, 1}, ver : Nat, saw : Nat]
In(e, i) == e.pc \in Counted1 /\ e.idx = i

LEMMA ReaderMoves ==
  ASSUME SnapTypes, NEW r \in Readers, NEW e \in Reader, rd' = [rd EXCEPT ![r] = e], NEW i \in {0, 1},
         readers[i] = Cardinality(At(i)),
         \/ In(e, i) /\ In(rd[r], i) /\ readers'[i] = readers[i]
         \/ ~In(e, i) /\ ~In(rd[r], i) /\ readers'[i] = readers[i]
         \/ In(e, i) /\ ~In(rd[r], i) /\ readers'[i] = readers[i] + 1
         \/ ~In(e, i) /\ In(rd[r], i) /\ readers'[i] = readers[i] - 1
  PROVE  readers'[i] = Cardinality(At(i)')
<1>0. /\ IsFiniteSet(At(i)) /\ rd' \in [Readers -> Reader] /\ rd'[r] = e
      /\ \A q \in Readers \ {r} : rd'[q] = rd[q]
  BY ZenonT(60), AtFinite DEF SnapTypes, Reader
<1>1. CASE In(e, i) /\ In(rd[r], i) /\ readers'[i] = readers[i]
  <2>1. At(i)' = At(i)
    BY ZenonT(60), <1>0, <1>1 DEF At, In
  <2> QED BY ZenonT(60), <1>1, <2>1
<1>2. CASE ~In(e, i) /\ ~In(rd[r], i) /\ readers'[i] = readers[i]
  <2>1. At(i)' = At(i)
    BY ZenonT(60), <1>0, <1>2 DEF At, In
  <2> QED BY ZenonT(60), <1>2, <2>1
<1>3. CASE In(e, i) /\ ~In(rd[r], i) /\ readers'[i] = readers[i] + 1
  <2>1. At(i)' = At(i) \cup {r} /\ r \notin At(i)
    BY ZenonT(60), <1>0, <1>3 DEF At, In
  <2>2. Cardinality(At(i) \cup {r}) = Cardinality(At(i)) + 1
    BY ZenonT(60), <1>0, <2>1, FS_AddElement
  <2> QED BY ZenonT(60), <1>3, <2>1, <2>2
<1>4. CASE ~In(e, i) /\ In(rd[r], i) /\ readers'[i] = readers[i] - 1
  <2>1. At(i)' = At(i) \ {r} /\ r \in At(i)
    BY ZenonT(60), <1>0, <1>4 DEF At, In
  <2>2. Cardinality(At(i) \ {r}) = Cardinality(At(i)) - 1
    BY ZenonT(60), <1>0, <2>1, FS_RemoveElement
  <2> QED BY ZenonT(60), <1>4, <2>1, <2>2
<1> QED BY ZenonT(60), <1>1, <1>2, <1>3, <1>4

(* What a reader may become. *)
Becomes(r, e) ==
  /\ rd' = [rd EXCEPT ![r] = e] /\ e \in Reader
  /\ \/ e.pc \notin {"label", "hold"}
     \/ e.pc = "label" /\ e.idx = active /\ e.saw = buf[active].ver
     \/ e.pc = "hold" /\ rd[r].pc = "label" /\ e.idx = rd[r].idx /\ e.saw = rd[r].saw /\ e.ver = version

LEMMA SnapRead ==
  ASSUME SnapInv, NEW r \in Readers, NEW e, Becomes(r, e), Count', readers' \in [{0, 1} -> Nat],
         UNCHANGED <<buf, active, stored, version, perm, pub>>, hist'.overtook = hist.overtook
  PROVE  SnapInv'
<1>1. /\ Seen' = Seen /\ Shadow' = Shadow /\ (\A i : Whole(i)' = Whole(i)) /\ Writing' = Writing
      /\ Buffers' = Buffers
  BY ZenonT(60) DEF Seen, Shadow, Whole, Writing, Buffers, Tables
<1>2. /\ rd' \in [Readers -> Reader] /\ rd'[r] = e /\ \A q \in Readers \ {r} : rd'[q] = rd[q]
  BY ZenonT(60) DEF SnapInv, SnapTypes, Reader, Becomes
<1>3. SnapTypes'
  BY ZenonT(60), <1>1, <1>2 DEF SnapInv, SnapTypes, Reader
<1>4. Versions'
  BY ZenonT(60), <1>1 DEF SnapInv, Versions
<1>5. ASSUME ~hist.overtook PROVE Rcu'
  <2>1. Rcu
    BY ZenonT(60), <1>5 DEF SnapInv
  <2>2. e.pc \in {"label", "hold"} =>
          Whole(e.idx) /\ e.saw = buf[e.idx].ver /\ (Writing => e.idx = active)
    BY ZenonT(60), <2>1 DEF Rcu, Becomes, Holds
  <2>3. e.pc = "hold" => e.ver - e.saw \in {0, 1}
    <3> SUFFICES ASSUME e.pc = "hold" PROVE e.ver - e.saw \in {0, 1}
      OBVIOUS
    <3>1. e.ver = version /\ e.idx \in {0, 1} /\ e.saw = buf[e.idx].ver /\ version \in Nat
      BY ZenonT(60), <2>2 DEF Becomes, Reader, SnapInv, SnapTypes
    <3>2. buf[e.idx].ver = version \/ buf[e.idx].ver = version - 1
      BY ZenonT(60), <3>1, SeenTypes DEF SnapInv, Versions
    <3> QED BY <3>1, <3>2
  <2>4. \A q \in Readers : Holds(q)' => Whole(rd'[q].idx) /\ rd'[q].saw = buf[rd'[q].idx].ver
                                        /\ (Writing => rd'[q].idx = active)
    BY ZenonT(60), <1>2, <2>1, <2>2 DEF Rcu, Holds
  <2>5. \A q \in Readers : rd'[q].pc = "hold" => rd'[q].ver - rd'[q].saw \in {0, 1}
    BY ZenonT(60), <1>2, <2>1, <2>3 DEF Rcu
  <2> QED BY ZenonT(60), <1>1, <2>1, <2>4, <2>5 DEF Rcu
<1> QED BY ZenonT(60), <1>3, <1>4, <1>5 DEF SnapInv

LEMMA SnapReading ==
  ASSUME Shape, SnapInv, NEW r \in Readers, Reading(r)
  PROVE  SnapInv'
<1>0. /\ UNCHANGED <<buf, active, stored, version, perm, pub>> /\ hist'.overtook = hist.overtook
  BY ZenonT(60), ReadFrame DEF Ctl
<1>1. /\ rd[r] \in Reader /\ active \in {0, 1} /\ version \in Nat /\ readers \in [{0, 1} -> Nat]
      /\ buf[active].ver \in Nat /\ buf[rd[r].idx].ver \in Nat
  BY ZenonT(60) DEF SnapInv, SnapTypes, Reader, Buffers
<1>2. \A i \in {0, 1} : In(rd[r], i) => readers[i] - 1 \in Nat
  <2> SUFFICES ASSUME NEW i \in {0, 1}, In(rd[r], i) PROVE readers[i] - 1 \in Nat
    OBVIOUS
  <2>1. r \in At(i)
    BY ZenonT(60) DEF At, In
  <2>2. readers[i] = Cardinality(At(i)) /\ Cardinality(At(i)) \in Nat /\ Cardinality(At(i)) # 0
    BY ZenonT(60), <2>1, AtFinite DEF SnapInv, Count
  <2> QED BY <2>2
<1>3. ASSUME NEW e, Becomes(r, e), readers' \in [{0, 1} -> Nat],
             \A i \in {0, 1} :
               \/ In(e, i) /\ In(rd[r], i) /\ readers'[i] = readers[i]
               \/ ~In(e, i) /\ ~In(rd[r], i) /\ readers'[i] = readers[i]
               \/ In(e, i) /\ ~In(rd[r], i) /\ readers'[i] = readers[i] + 1
               \/ ~In(e, i) /\ In(rd[r], i) /\ readers'[i] = readers[i] - 1
      PROVE  SnapInv'
  <2>1. Count'
    BY ZenonT(60), <1>3, ReaderMoves DEF SnapInv, Count, Becomes
  <2> QED BY ZenonT(60), <1>0, <1>3, <2>1, SnapRead
<1>4. CASE Load(r)
  <2> DEFINE e == [rd[r] EXCEPT !.pc = "add", !.idx = active]
  <2>1. Becomes(r, e) /\ readers' = readers /\ \A i \in {0, 1} : ~In(e, i) /\ ~In(rd[r], i)
    BY ZenonT(60), <1>1, <1>4 DEF Load, RdStep, Becomes, Reader, Pcs, In, Counted1
  <2> HIDE DEF e
  <2> QED BY ZenonT(60), <1>1, <1>3, <2>1
<1>5. CASE Add(r)
  <2> DEFINE e == [rd[r] EXCEPT !.pc = "check"]
  <2>1. /\ Becomes(r, e) /\ \A i \in {0, 1} : ~In(rd[r], i) /\ (In(e, i) <=> i = rd[r].idx)
    BY <1>1, <1>5 DEF Add, RdStep, Becomes, Reader, Pcs, In, Counted1
  <2>2. readers' = [readers EXCEPT ![rd[r].idx] = @ + 1] /\ rd[r].idx \in {0, 1}
    BY ZenonT(60), <1>1, <1>5 DEF Add, Reader
  <2>3. readers' \in [{0, 1} -> Nat] /\ \A i \in {0, 1} : readers'[i] = IF i = rd[r].idx THEN readers[i] + 1 ELSE readers[i]
    BY <1>1, <2>2
  <2> HIDE DEF e
  <2> QED BY ZenonT(60), <1>1, <1>3, <2>1, <2>3
<1>6. CASE Recheck(r)
  <2>1. PICK e : /\ Becomes(r, e) /\ readers' = readers
                 /\ \A i \in {0, 1} : In(rd[r], i) <=> In(e, i)
    <3>1. CASE active = rd[r].idx
      <4> DEFINE e == [rd[r] EXCEPT !.pc = "label", !.saw = buf[rd[r].idx].ver]
      <4>1. Becomes(r, e) /\ readers' = readers /\ \A i \in {0, 1} : In(rd[r], i) <=> In(e, i)
        BY ZenonT(60), <1>1, <1>6, <3>1 DEF Recheck, RdStep, Becomes, Reader, Pcs, In, Counted1
      <4> QED BY ZenonT(60), <4>1
    <3>2. CASE active # rd[r].idx
      <4> DEFINE e == [rd[r] EXCEPT !.pc = "sub"]
      <4>1. Becomes(r, e) /\ readers' = readers /\ \A i \in {0, 1} : In(rd[r], i) <=> In(e, i)
        BY <1>1, <1>6, <3>2 DEF Recheck, RdStep, Becomes, Reader, Pcs, In, Counted1
      <4> QED BY ZenonT(60), <4>1
    <3> QED BY ZenonT(60), <3>1, <3>2
  <2> QED BY ZenonT(60), <1>1, <1>3, <2>1
<1>7. CASE Retry(r) \/ DropSnapshot(r)
  <2>1. PICK e : Becomes(r, e) /\ \A i \in {0, 1} : ~In(e, i) /\ (In(rd[r], i) <=> i = rd[r].idx)
    <3>1. CASE Retry(r)
      <4> DEFINE e == [rd[r] EXCEPT !.pc = "again"]
      <4>1. Becomes(r, e) /\ \A i \in {0, 1} : ~In(e, i) /\ (In(rd[r], i) <=> i = rd[r].idx)
        BY <1>1, <3>1 DEF Retry, RdStep, Becomes, Reader, Pcs, In, Counted1
      <4> QED BY ZenonT(60), <4>1
    <3>2. CASE DropSnapshot(r)
      <4> DEFINE e == [rd[r] EXCEPT !.pc = "out", !.saw = 0]
      <4>1. Becomes(r, e) /\ \A i \in {0, 1} : ~In(e, i) /\ (In(rd[r], i) <=> i = rd[r].idx)
        BY ZenonT(60), <1>1, <3>2 DEF DropSnapshot, RdStep, Becomes, Reader, Pcs, In, Counted1
      <4> QED BY ZenonT(60), <4>1
    <3> QED BY ZenonT(60), <1>7, <3>1, <3>2
  <2>2. readers' = [readers EXCEPT ![rd[r].idx] = @ - 1] /\ rd[r].idx \in {0, 1}
    BY ZenonT(60), <1>1, <1>7 DEF Retry, DropSnapshot, Reader
  <2>3. readers[rd[r].idx] - 1 \in Nat
    BY ZenonT(60), <1>2, <2>1, <2>2
  <2>4. readers' \in [{0, 1} -> Nat] /\ \A i \in {0, 1} : readers'[i] = IF i = rd[r].idx THEN readers[i] - 1 ELSE readers[i]
    BY <1>1, <2>2, <2>3
  <2> QED BY ZenonT(60), <1>1, <1>3, <2>1, <2>4
<1>8. CASE Reload(r)
  <2> DEFINE e == [rd[r] EXCEPT !.pc = "add", !.idx = active]
  <2>1. Becomes(r, e) /\ readers' = readers /\ \A i \in {0, 1} : ~In(e, i) /\ ~In(rd[r], i)
    BY ZenonT(60), <1>1, <1>8 DEF Reload, RdStep, Becomes, Reader, Pcs, In, Counted1
  <2> HIDE DEF e
  <2> QED BY ZenonT(60), <1>1, <1>3, <2>1
<1>9. CASE Label(r)
  <2> DEFINE e == [rd[r] EXCEPT !.pc = "hold", !.ver = version]
  <2>1. Becomes(r, e) /\ readers' = readers /\ \A i \in {0, 1} : In(rd[r], i) <=> In(e, i)
    BY ZenonT(60), <1>1, <1>9 DEF Label, RdStep, Becomes, Reader, Pcs, In, Counted1
  <2> HIDE DEF e
  <2> QED BY ZenonT(60), <1>1, <1>3, <2>1
<1> QED BY ZenonT(60), <1>4, <1>5, <1>6, <1>7, <1>8, <1>9 DEF Reading

(* The publisher moves. *)
LEMMA SnapPublishing ==
  ASSUME Shape, SnapInv, Publishing
  PROVE  SnapInv'
<1>0. /\ UNCHANGED <<perm, readers, rd>> /\ (SpinDone \/ hist'.overtook = hist.overtook)
      /\ SpinDone => hist'.overtook = (hist.overtook \/ stored # <<>>)
  BY ZenonT(60), PublishFrame
<1>1. /\ active \in {0, 1} /\ stored \in Flips /\ version \in Nat
      /\ buf \in [{0, 1} -> Buffers] /\ pub \in [pc : Stages, alive : SUBSET Backends]
      /\ \A r \in Readers : rd[r].idx \in {0, 1}
  BY ZenonT(60) DEF SnapInv, SnapTypes
<1>2. Count' /\ Tables' = Tables /\ Buffers' = Buffers /\ \A r : Holds(r)' = Holds(r)
  BY ZenonT(60), <1>0 DEF SnapInv, Count, At, Holds, Buffers, Tables
<1>3. /\ Seen \in {0, 1} /\ Shadow \in {0, 1} /\ Seen # Shadow /\ (stored = <<>> => Seen = active)
      /\ \A i \in {0, 1} : i = Seen \/ i = Shadow
  BY ZenonT(60), SeenTypes DEF SnapInv
<1>4. ASSUME buf' \in [{0, 1} -> Buffers], active' \in {0, 1}, stored' \in Flips, version' \in Nat,
             pub' \in [pc : Stages, alive : SUBSET Backends], Versions', ~hist'.overtook => Rcu'
      PROVE  SnapInv'
  BY ZenonT(60), <1>0, <1>2, <1>4 DEF SnapInv, SnapTypes
<1>5. ASSUME NEW stage \in Stages, NEW from \in Stages, PubStep(from, stage)
      PROVE  /\ pub' \in [pc : Stages, alive : SUBSET Backends] /\ pub'.pc = stage /\ pub.pc = from
             /\ pub'.alive = pub.alive
  BY <1>1, <1>5 DEF PubStep
<1>6. CASE SpinDone
  <2>1. /\ pub' \in [pc : Stages, alive : SUBSET Backends] /\ pub'.pc = "table" /\ pub.pc = "spin"
        /\ UNCHANGED <<buf, active, stored, version>> /\ readers[Shadow] = 0
    BY ZenonT(60), <1>5, <1>6 DEF SpinDone, Stages
  <2>2. Seen' = Seen /\ Shadow' = Shadow /\ \A i : Whole(i)' = Whole(i)
    BY ZenonT(60), <1>0, <2>1 DEF Seen, Shadow, Whole
  <2>3. Versions'
    BY ZenonT(60), <2>1, <2>2 DEF SnapInv, Versions
  <2>4. ASSUME ~hist'.overtook PROVE Rcu'
    <3>1. stored = <<>> /\ Rcu
      BY ZenonT(60), <1>0, <1>6, <2>4 DEF SnapInv
    <3>2. At(Shadow) = {}
      BY ZenonT(60), <1>3, <2>1, AtFinite DEF SnapInv, Count
    <3>3. \A r \in Readers : Holds(r) => rd[r].idx = active
      BY ZenonT(60), <1>1, <1>3, <3>1, <3>2 DEF Holds, At, Counted1
    <3> QED BY ZenonT(60), <1>0, <1>2, <2>1, <2>2, <3>1, <3>3 DEF Rcu
  <2> QED BY ZenonT(60), <1>1, <1>4, <2>1, <2>3, <2>4
<1>7. CASE Drain
  <2>1. UNCHANGED <<pub, buf, version>> /\ active' = stored[1] /\ stored' = <<>> /\ stored # <<>>
    BY ZenonT(60), <1>7 DEF Drain
  <2>2. Seen' = Seen /\ Shadow' = Shadow /\ active' = Seen /\ \A i : Whole(i)' = Whole(i)
    BY ZenonT(60), <1>0, <2>1 DEF Seen, Shadow, Whole
  <2>3. Versions' /\ Writing' = Writing
    BY ZenonT(60), <2>1, <2>2 DEF SnapInv, Versions, Writing
  <2>4. ASSUME ~hist'.overtook PROVE Rcu'
    <3>1. Rcu /\ ~Writing
      BY ZenonT(60), <1>0, <2>1, <2>4, <1>7 DEF SnapInv, Rcu, SpinDone, Drain, PubStep
    <3> QED BY ZenonT(60), <1>0, <1>2, <2>1, <2>2, <2>3, <3>1 DEF Rcu
  <2> QED BY ZenonT(60), <1>1, <1>3, <1>4, <2>1, <2>2, <2>3, <2>4 DEF Flips
<1>8. Lut(pub.alive).table = BuildLut(InOrder(pub.alive), perm) /\ Lut(pub.alive).backends = InOrder(pub.alive)
  BY DEF Lut
<1>9. BuildLut(InOrder(pub.alive), perm) \in Tables /\ InOrder(pub.alive) \in Orders
  BY ZenonT(60), <1>1 DEF Tables, Orders
<1>10. ASSUME stored = <<>>, UNCHANGED <<active, stored>>, buf' \in [{0, 1} -> Buffers], buf'[Seen] = buf[Seen], Rcu, Writing
       PROVE  /\ Seen' = Seen /\ Shadow' = Shadow /\ Whole(active)' /\ Whole(Seen)'
              /\ \A r \in Readers : Holds(r)' => rd'[r].idx = active'
              /\ \A r \in Readers : Holds(r)' => Whole(rd[r].idx)' /\ rd'[r].saw = buf'[rd'[r].idx].ver
              /\ \A r \in Readers : rd'[r].pc = "hold" => rd'[r].ver - rd'[r].saw \in {0, 1}
  <2>1. Seen' = Seen /\ Shadow' = Shadow /\ Seen = active
    BY ZenonT(60), <1>10 DEF Seen, Shadow
  <2>2. Whole(active)' /\ Whole(Seen)'
    BY ZenonT(60), <1>0, <1>10, <2>1 DEF Rcu, Whole
  <2>3. \A r \in Readers : Holds(r)' => rd'[r].idx = active'
    BY ZenonT(60), <1>0, <1>2, <1>10 DEF Rcu
  <2>4. \A r \in Readers : Holds(r)' => Whole(rd[r].idx)' /\ rd'[r].saw = buf'[rd'[r].idx].ver
    <3>1. \A r \in Readers : Holds(r) => rd[r].idx = Seen /\ rd[r].saw = buf[Seen].ver
      BY ZenonT(60), <1>10, <2>1 DEF Rcu
    <3>2. \A r \in Readers : Holds(r)' => rd'[r].idx = Seen /\ rd'[r].saw = buf'[Seen].ver
      BY ZenonT(60), <1>0, <1>2, <1>10, <3>1
    <3>3. buf'[Seen].table = BuildLut(buf'[Seen].backends, perm')
      BY ZenonT(60), <2>1, <2>2 DEF Whole
    <3> QED BY ZenonT(60), <3>2, <3>3 DEF Whole
  <2> QED BY ZenonT(60), <1>0, <1>10, <2>1, <2>2, <2>3, <2>4 DEF Rcu
<1>11. CASE WriteTable
  <2>1. /\ pub' \in [pc : Stages, alive : SUBSET Backends] /\ pub'.pc = "backends" /\ pub.pc = "table"
        /\ UNCHANGED <<active, stored, version>> /\ stored = <<>> /\ pub'.alive = pub.alive
        /\ buf' = [buf EXCEPT ![Shadow].table = BuildLut(InOrder(pub.alive), perm)]
    BY ZenonT(60), <1>5, <1>8, <1>11 DEF WriteTable, Stages
  <2>2. /\ buf' \in [{0, 1} -> Buffers] /\ buf'[Seen] = buf[Seen] /\ buf'[Shadow].ver = buf[Shadow].ver
        /\ buf'[Shadow].table = BuildLut(InOrder(pub.alive), perm)
    <3>1. buf[Shadow] \in Buffers /\ [buf[Shadow] EXCEPT !.table = BuildLut(InOrder(pub.alive), perm)] \in Buffers
      BY <1>1, <1>3, <1>9 DEF Buffers
    <3> QED BY <1>1, <1>3, <2>1, <3>1 DEF Buffers
  <2>3. Seen' = Seen /\ Shadow' = Shadow
    BY ZenonT(60), <2>1 DEF Seen, Shadow
  <2>4. Versions'
    BY ZenonT(60), <2>1, <2>2, <2>3 DEF SnapInv, Versions
  <2>5. ASSUME ~hist'.overtook PROVE Rcu'
    <3>1. Rcu /\ Writing
      BY <1>0, <2>1, <2>5, <1>11 DEF SnapInv, Writing, Stages, SpinDone, WriteTable, PubStep
    <3> QED BY ZenonT(60), <1>0, <1>10, <2>1, <2>2, <2>3, <3>1 DEF Rcu
  <2> QED BY ZenonT(60), <1>1, <1>4, <2>1, <2>2, <2>4, <2>5
<1>12. CASE WriteBackends
  <2>1. /\ pub' \in [pc : Stages, alive : SUBSET Backends] /\ pub'.pc = "version" /\ pub.pc = "backends"
        /\ UNCHANGED <<active, stored, version>> /\ pub'.alive = pub.alive
        /\ buf' = [buf EXCEPT ![Shadow].backends = InOrder(pub.alive)]
    BY ZenonT(60), <1>5, <1>8, <1>12 DEF WriteBackends, Stages
  <2>2. /\ buf' \in [{0, 1} -> Buffers] /\ buf'[Seen] = buf[Seen] /\ buf'[Shadow].ver = buf[Shadow].ver
        /\ buf'[Shadow].table = buf[Shadow].table /\ buf'[Shadow].backends = InOrder(pub.alive)
    <3>1. buf[Shadow] \in Buffers /\ [buf[Shadow] EXCEPT !.backends = InOrder(pub.alive)] \in Buffers
      BY <1>1, <1>3, <1>9 DEF Buffers
    <3> QED BY <1>1, <1>3, <2>1, <3>1 DEF Buffers
  <2>3. stored = <<>>
    BY <2>1 DEF SnapInv, Versions, Writing, Stages
  <2>4. Seen' = Seen /\ Shadow' = Shadow
    BY ZenonT(60), <2>1 DEF Seen, Shadow
  <2>5. Versions'
    BY ZenonT(60), <2>1, <2>2, <2>3, <2>4 DEF SnapInv, Versions
  <2>6. ASSUME ~hist'.overtook PROVE Rcu'
    <3>1. Rcu /\ Writing
      BY <1>0, <2>1, <2>6, <1>12 DEF SnapInv, Writing, Stages, SpinDone, WriteBackends, PubStep
    <3>2. Whole(Shadow)'
      BY ZenonT(60), <1>0, <2>1, <2>2, <2>4, <3>1 DEF Rcu, Whole
    <3> QED BY ZenonT(60), <1>10, <2>1, <2>2, <2>3, <2>4, <3>1, <3>2 DEF Rcu
  <2> QED BY ZenonT(60), <1>1, <1>4, <2>1, <2>2, <2>5, <2>6
<1>13. CASE BumpVersion
  <2>1. /\ pub' \in [pc : Stages, alive : SUBSET Backends] /\ pub'.pc = "flip" /\ pub.pc = "version"
        /\ UNCHANGED <<active, stored>> /\ pub'.alive = pub.alive /\ version' = version + 1
        /\ buf' = [buf EXCEPT ![Shadow].ver = version + 1]
    BY ZenonT(60), <1>5, <1>13 DEF BumpVersion, Stages
  <2>2. /\ buf' \in [{0, 1} -> Buffers] /\ buf'[Seen] = buf[Seen] /\ buf'[Shadow].ver = version + 1
        /\ buf'[Shadow].table = buf[Shadow].table /\ buf'[Shadow].backends = buf[Shadow].backends
    <3>1. buf[Shadow] \in Buffers /\ [buf[Shadow] EXCEPT !.ver = version + 1] \in Buffers
      BY <1>1, <1>3 DEF Buffers
    <3> QED BY <1>1, <1>3, <2>1, <3>1 DEF Buffers
  <2>3. stored = <<>>
    BY <2>1 DEF SnapInv, Versions, Writing, Stages
  <2>4. Seen' = Seen /\ Shadow' = Shadow
    BY ZenonT(60), <2>1 DEF Seen, Shadow
  <2>5. Versions'
    BY SMT, SMTT(30), ZenonT(60), <1>1, <2>1, <2>2, <2>3, <2>4 DEF SnapInv, Versions
  <2>6. ASSUME ~hist'.overtook PROVE Rcu'
    <3>1. Rcu /\ Writing
      BY <1>0, <2>1, <2>6, <1>13 DEF SnapInv, Writing, Stages, SpinDone, BumpVersion, PubStep
    <3>2. Whole(Shadow)'
      BY ZenonT(60), <1>0, <2>1, <2>2, <2>4, <3>1 DEF Rcu, Whole
    <3> QED BY ZenonT(60), <1>10, <2>1, <2>2, <2>3, <2>4, <3>1, <3>2 DEF Rcu
  <2> QED BY SMT, SMTT(30), <1>1, <1>4, <2>1, <2>2, <2>5, <2>6
<1>14. CASE Flip
  <2>1. /\ pub' \in [pc : Stages, alive : SUBSET Backends] /\ pub'.pc = "idle" /\ pub.pc = "flip"
        /\ UNCHANGED <<buf, version>>
        /\ (active' = Shadow /\ stored' = stored) \/ (stored' = <<Shadow>> /\ active' = active)
    BY ZenonT(60), <1>5, <1>14 DEF Flip, Stages
  <2>2. stored = <<>>
    BY <2>1 DEF SnapInv, Versions, Writing, Stages
  <2>3. /\ Seen' = Shadow /\ Shadow' = Seen /\ active' \in {0, 1} /\ stored' \in Flips
        /\ active' = Shadow \/ active' = active
    BY <1>3, <2>1, <2>2 DEF Seen, Shadow, Flips
  <2>4. Versions'
    BY ZenonT(60), <2>1, <2>3 DEF SnapInv, Versions, Writing, Stages
  <2>5. ASSUME ~hist'.overtook PROVE Rcu'
    <3>1. Rcu
      BY ZenonT(60), <1>0, <2>1, <2>5, <1>14 DEF SnapInv, SpinDone, Flip, PubStep
    <3>2. /\ \A i : Whole(i)' = Whole(i) /\ \A r \in Readers : Whole(rd[r].idx)' = Whole(rd[r].idx)
      BY ZenonT(60), <1>0, <2>1 DEF Whole
    <3>3. Whole(active)' /\ Whole(Seen)' /\ ~Writing'
      BY ZenonT(60), <1>0, <2>1, <2>3, <3>1, <3>2 DEF Rcu, Writing, Whole
    <3> QED BY ZenonT(60), <1>0, <1>2, <2>1, <3>1, <3>2, <3>3 DEF Rcu
  <2> QED BY ZenonT(60), <1>1, <1>4, <2>1, <2>3, <2>4, <2>5
<1> QED BY ZenonT(60), <1>6, <1>7, <1>11, <1>12, <1>13, <1>14 DEF Publishing

LEMMA BudgetFields ==
  ASSUME budget \in BudgetSet
  PROVE  /\ budget.backends \subseteq Backends /\ budget.backends # {}
         /\ budget.flows \subseteq Flows /\ budget.kinds \subseteq {"SYN", "ACK", "UDP"}
         /\ budget.fall \in Nat /\ budget.fall >= 1 /\ budget.rise \in Nat /\ budget.rise >= 1
<1>1. /\ budget.backends \in (SUBSET Backends) \ {{}} /\ budget.flows \in SUBSET Flows
      /\ budget.kinds \in SUBSET {"SYN", "ACK", "UDP"}
      /\ budget.fall \in Nat \ {0} /\ budget.rise \in Nat \ {0}
  BY ZenonT(60) DEF BudgetSet
<1>2. budget.backends \subseteq Backends /\ budget.backends # {}
  BY <1>1
<1>3. budget.fall \in Nat /\ budget.fall >= 1 /\ budget.rise \in Nat /\ budget.rise >= 1
  BY <1>1
<1>4. budget.flows \subseteq Flows /\ budget.kinds \subseteq {"SYN", "ACK", "UDP"}
  BY <1>1
<1> QED BY ZenonT(60), <1>2, <1>3, <1>4

LEMMA InitShape ==
  ASSUME Init
  PROVE  Shape
<1>1. budget \in BudgetSet /\ now \in 0 .. MaxTime
  BY Constants DEF Init
<1>2. DOMAIN hist = Fields
  BY DEF Init, Fields
<1> QED BY ZenonT(60), <1>1, <1>2 DEF Shape

LEMMA InitBuffers ==
  ASSUME Init
  PROVE  /\ buf \in [{0, 1} -> Buffers] /\ buf[0].ver = 1 /\ buf[1].ver = 0
         /\ buf[0].backends = InOrder(budget.backends) /\ Whole(0)
         /\ budget.backends \subseteq Backends /\ budget.backends # {}
<1> DEFINE o == InOrder(budget.backends)
           t == BuildLut(o, perm)
           z == [s \in Slots |-> Empty]
<1>1. budget.backends \subseteq Backends /\ budget.backends # {}
  <2>1. budget \in BudgetSet
    BY ZenonT(60), InitShape DEF Shape
  <2> QED BY ZenonT(60), <2>1, BudgetFields
<1>2. o \in Orders /\ t \in Tables /\ <<>> \in Orders /\ z \in Tables
  BY ZenonT(60), <1>1 DEF Orders, Tables
<1>3. buf = [i \in {0, 1} |-> IF i = 0 THEN [[backends |-> o, table |-> t, ver |-> 0] EXCEPT !.ver = 1]
                              ELSE [backends |-> <<>>, table |-> z, ver |-> 0]]
  BY ZenonT(60) DEF Init, Lut
<1> HIDE DEF o, t, z
<1>4. /\ buf \in [{0, 1} -> Buffers] /\ buf[0].ver = 1 /\ buf[1].ver = 0
      /\ buf[0].backends = o /\ buf[0].table = t
  BY <1>2, <1>3 DEF Buffers
<1> QED BY ZenonT(60), <1>1, <1>4 DEF Whole, o, t

LEMMA SnapInitially ==
  ASSUME Init
  PROVE  SnapInv
<1>1. /\ active = 0 /\ stored = <<>> /\ version = 1 /\ readers = [i \in {0, 1} |-> 0]
      /\ rd = [r \in Readers |-> [pc |-> "out", idx |-> 0, ver |-> 0, saw |-> 0]]
      /\ pub = [pc |-> "idle", alive |-> {}]
  BY ZenonT(60) DEF Init
<1>2. Seen = 0 /\ Shadow = 1
  BY <1>1 DEF Seen, Shadow
<1>3. SnapTypes
  BY <1>1, InitBuffers DEF SnapTypes, Flips, Pcs, Stages
<1>4. Count
  <2>1. \A i \in {0, 1} : At(i) = {}
    BY <1>1 DEF At, Counted1
  <2> QED BY ZenonT(60), <1>1, <2>1, FS_EmptySet DEF Count
<1>5. Versions
  BY SMT, SMTT(30), <1>1, <1>2, InitBuffers DEF Versions, Writing, Stages
<1>6. Rcu
  <2>1. \A r \in Readers : rd[r].pc = "out"
    BY <1>1
  <2>2. pub.pc = "idle" /\ ~Writing
    BY <1>1 DEF Writing
  <2> QED BY ZenonT(60), <1>1, <1>2, <2>1, <2>2, InitBuffers DEF Rcu, Holds
<1> QED BY ZenonT(60), <1>3, <1>4, <1>5, <1>6 DEF SnapInv

-----------------------------------------------------------------------------
(* The control plane.  The streak of a backend counts the results in a row since
   the last change of its state, which is what they called for. *)
HealthRec == [state : {"Unknown", "Up", "Down"}, last_ok : {"none", "ok", "bad"},
              streak : Nat, probed : 0 .. Never]
RunRec == [ok : Nat, bad : Nat, state : {"Unknown", "Up", "Down"}]
Matches(h, run) ==
  /\ h.state = run.state
  /\ h.last_ok # "ok" => run.ok = 0
  /\ h.last_ok # "bad" => run.bad = 0
  /\ h.last_ok = "ok" => h.streak <= run.ok /\ (h.streak # run.ok => h.state = "Up")
  /\ h.last_ok = "bad" => h.streak <= run.bad /\ (h.streak # run.bad => h.state = "Down")

HealthInv ==
  /\ DOMAIN health \subseteq Backends /\ due \subseteq Backends
  /\ hist.runs \in [Backends -> RunRec] /\ hist.synced \in BOOLEAN
  /\ \A b \in DOMAIN health : health[b] \in HealthRec /\ Matches(health[b], hist.runs[b])

(* The buffer in use is that of the set published last, and a publication under
   way is of the backends that are alive. *)
PublishInv ==
  /\ published \subseteq Backends
  /\ buf[Seen].backends = InOrder(published)
  /\ pub.pc \in {"version", "flip"} => buf[Shadow].backends = InOrder(pub.alive)
  /\ pub.pc # "idle" => pub.alive = Alive(health)
  /\ pub.pc = "idle" /\ hist.synced /\ Alive(health) # {} => published = Alive(health)


LEMMA HealthParts ==
  ASSUME NEW h \in HealthRec
  PROVE  /\ h.state \in {"Unknown", "Up", "Down"} /\ h.last_ok \in {"none", "ok", "bad"}
         /\ h.streak \in Nat /\ h.probed \in 0 .. Never
BY DEF HealthRec

(* A result moves the checker's record and the count of results alike. *)
LEMMA ReportMatches ==
  ASSUME Shape, NEW h \in HealthRec, NEW run \in RunRec, Matches(h, run), NEW ok \in {"ok", "bad"}
  PROVE  /\ Reported(h, ok) \in HealthRec /\ Counted(run, ok) \in RunRec
         /\ Matches(Reported(h, ok), Counted(run, ok))
<1> DEFINE s == IF h.last_ok = ok THEN h.streak + 1 ELSE 1
           new == IF ok = "ok" /\ s >= budget.rise THEN "Up"
                  ELSE IF ok = "bad" /\ s >= budget.fall THEN "Down" ELSE h.state
           n == IF new # h.state THEN 0 ELSE s
           oks == IF ok = "ok" THEN run.ok + 1 ELSE 0
           bads == IF ok = "bad" THEN run.bad + 1 ELSE 0
           st == IF oks >= budget.rise THEN "Up" ELSE IF bads >= budget.fall THEN "Down" ELSE run.state
<1>1. /\ budget.fall \in Nat /\ budget.fall >= 1 /\ budget.rise \in Nat /\ budget.rise >= 1
  BY ZenonT(60), BudgetFields DEF Shape
<1>2. /\ h.state \in {"Unknown", "Up", "Down"} /\ h.last_ok \in {"none", "ok", "bad"} /\ h.streak \in Nat
      /\ run.ok \in Nat /\ run.bad \in Nat /\ run.state \in {"Unknown", "Up", "Down"}
  BY DEF HealthRec, RunRec
<1>3. now \in 0 .. Never
  BY Constants DEF Shape, Never
<1>4. /\ s \in Nat /\ n \in Nat /\ oks \in Nat /\ bads \in Nat
      /\ new \in {"Unknown", "Up", "Down"} /\ st \in {"Unknown", "Up", "Down"}
  BY <1>2
<1>5. new = st
  BY SMT, SMTT(30), ZenonT(60), <1>1, <1>2 DEF Matches
<1>6. /\ ok # "ok" => oks = 0
      /\ ok # "bad" => bads = 0
      /\ ok = "ok" => n <= oks /\ (n # oks => new = "Up")
      /\ ok = "bad" => n <= bads /\ (n # bads => new = "Down")
  BY <1>1, <1>2 DEF Matches
<1>7. Reported(h, ok) = [h EXCEPT !.probed = now, !.last_ok = ok, !.state = new, !.streak = n]
  BY ZenonT(60) DEF Reported
<1>8. Counted(run, ok) = [ok |-> oks, bad |-> bads, state |-> st]
  BY ZenonT(60) DEF Counted
<1> HIDE DEF s, new, n, oks, bads, st
<1>9. /\ Reported(h, ok) \in HealthRec /\ Reported(h, ok).state = new /\ Reported(h, ok).last_ok = ok
      /\ Reported(h, ok).streak = n
  BY ZenonT(60), <1>3, <1>4, <1>7 DEF HealthRec
<1>10. /\ Counted(run, ok) \in RunRec /\ Counted(run, ok).ok = oks /\ Counted(run, ok).bad = bads
       /\ Counted(run, ok).state = st
  BY <1>4, <1>8 DEF RunRec
<1> QED BY ZenonT(60), <1>5, <1>6, <1>9, <1>10 DEF Matches

(* Where probes are under way. *)
LEMMA DueSteps ==
  ASSUME [Next]_vars
  PROVE  due' \subseteq due \cup DOMAIN health
<1>1. CASE Input
  <2>1. Tick => due' \subseteq DOMAIN health
    BY ZenonT(60) DEF Tick
  <2>2. \A b : ReportProbe(b, "ok") \/ ReportProbe(b, "bad") \/ ReportUnknown(b) => due' \subseteq due
    BY ZenonT(60) DEF ReportProbe, ReportUnknown
  <2>3. \A b : Register(b) \/ Unregister(b) => due' = due
    BY ZenonT(60) DEF Register, Unregister
  <2>4. Advance \/ (\E S \in budget.pools : SetBackends(S)) \/ (\E r \in Readers : Load(r)) => due' = due
    BY ZenonT(60) DEF Advance, SetBackends, control, Load, RdFrame
  <2>5. \A f, kind : Packet(f, kind) => due' = due
    <3>1. \A f, kind : DropByRate(f, kind) \/ Passes(f, kind) => due' = due
      BY ZenonT(60) DEF DropByRate, Passes, control
    <3> QED BY ZenonT(60), <3>1 DEF Packet, DropByFlood, ForwardTracked, ForwardNew
  <2>6. due' = due \/ due' \subseteq due \/ due' \subseteq DOMAIN health
    BY ZenonT(60), <1>1, <2>1, <2>2, <2>3, <2>4, <2>5 DEF Input, Packet
  <2> QED BY ZenonT(60), <2>6
<1>2. CASE Progress
  <2>1. due' = due
    BY ZenonT(60), <1>2 DEF Progress, SpinDone, WriteTable, WriteBackends, BumpVersion, Flip, Drain, PubFrame,
                       Add, Recheck, Retry, Reload, Label, DropSnapshot, RdFrame
  <2> QED BY ZenonT(60), <2>1
<1>3. CASE UNCHANGED vars
  BY ZenonT(60), <1>3 DEF vars, control
<1> QED BY ZenonT(60), <1>1, <1>2, <1>3 DEF Next

(* A step that does not touch the checker. *)
LEMMA HealthStill ==
  ASSUME HealthInv, due' \subseteq due \cup DOMAIN health, health' = health,
         hist'.runs = hist.runs, hist'.synced = hist.synced
  PROVE  HealthInv'
BY ZenonT(60) DEF HealthInv

LEMMA HealthProbe ==
  ASSUME Shape, HealthInv, NEW b \in Backends, NEW ok \in {"ok", "bad"}, ReportProbe(b, ok), due' \subseteq due \cup DOMAIN health
  PROVE  /\ HealthInv'
         /\ b \in DOMAIN health /\ health' = [health EXCEPT ![b] = Reported(health[b], ok)]
<1>1. /\ b \in DOMAIN health /\ health' = [health EXCEPT ![b] = Reported(health[b], ok)]
      /\ \E y \in BOOLEAN : hist' = [hist EXCEPT !.runs[b] = Counted(@, ok), !.synced = y]
  BY ZenonT(60) DEF ReportProbe, HealthInv
<1>2. hist'.runs = [hist.runs EXCEPT ![b] = Counted(hist.runs[b], ok)] /\ hist'.synced \in BOOLEAN
  BY ZenonT(60), <1>1, HistFields DEF Shape
<1>3. health[b] \in HealthRec /\ hist.runs[b] \in RunRec /\ Matches(health[b], hist.runs[b])
  BY ZenonT(60), <1>1 DEF HealthInv
<1>4. /\ Reported(health[b], ok) \in HealthRec /\ Counted(hist.runs[b], ok) \in RunRec
      /\ Matches(Reported(health[b], ok), Counted(hist.runs[b], ok))
  BY ZenonT(60), <1>3, ReportMatches
<1>5. /\ DOMAIN health' = DOMAIN health /\ health'[b] = Reported(health[b], ok)
      /\ \A c \in DOMAIN health \ {b} : health'[c] = health[c]
  BY ZenonT(60), <1>1
<1>6. /\ hist'.runs \in [Backends -> RunRec] /\ hist'.runs[b] = Counted(hist.runs[b], ok)
      /\ \A c \in Backends \ {b} : hist'.runs[c] = hist.runs[c]
  BY ZenonT(60), <1>2, <1>4 DEF HealthInv
<1> QED BY ZenonT(60), <1>1, <1>2, <1>4, <1>5, <1>6 DEF HealthInv

LEMMA HealthRegister ==
  ASSUME Shape, HealthInv, NEW b \in Backends, Register(b) \/ Unregister(b), due' \subseteq due \cup DOMAIN health
  PROVE  HealthInv' /\ hist'.synced = FALSE
<1>1. CASE Register(b)
  <2>1. health' = With(health, b, NewHealth) /\ hist' = [hist EXCEPT !.runs[b] = NoRuns, !.synced = FALSE]
    BY ZenonT(60), <1>1 DEF Register
  <2>2. hist'.runs = [hist.runs EXCEPT ![b] = NoRuns] /\ hist'.synced = FALSE
    BY ZenonT(60), <2>1, HistFields DEF Shape
  <2>3. NewHealth \in HealthRec /\ NoRuns \in RunRec /\ Matches(NewHealth, NoRuns)
    BY Constants DEF NewHealth, NoRuns, HealthRec, RunRec, Matches, Never
  <2>4. /\ DOMAIN health' = DOMAIN health \cup {b} /\ health'[b] = NewHealth
        /\ \A c \in DOMAIN health \ {b} : health'[c] = health[c]
    BY ZenonT(60), <2>1 DEF With
  <2>5. /\ hist'.runs \in [Backends -> RunRec] /\ hist'.runs[b] = NoRuns
        /\ \A c \in Backends \ {b} : hist'.runs[c] = hist.runs[c]
    BY ZenonT(60), <2>2, <2>3 DEF HealthInv
  <2> QED BY ZenonT(60), <2>2, <2>3, <2>4, <2>5 DEF HealthInv
<1>2. CASE Unregister(b)
  <2>1. health' = Without(health, b) /\ hist' = [hist EXCEPT !.synced = FALSE]
    BY ZenonT(60), <1>2 DEF Unregister
  <2>2. hist'.runs = hist.runs /\ hist'.synced = FALSE
    BY ZenonT(60), <2>1, HistFields DEF Shape
  <2>3. DOMAIN health' \subseteq DOMAIN health /\ \A c \in DOMAIN health' : health'[c] = health[c]
    BY ZenonT(60), <2>1 DEF Without
  <2> QED BY ZenonT(60), <2>2, <2>3 DEF HealthInv
<1> QED BY ZenonT(60), <1>1, <1>2

LEMMA PublishStill ==
  ASSUME PublishInv, UNCHANGED <<health, published, buf, active, stored, pub, hist.synced>>
  PROVE  PublishInv'
<1>1. Seen' = Seen /\ Shadow' = Shadow /\ Alive(health)' = Alive(health)
  BY ZenonT(60) DEF Seen, Shadow, Alive
<1> QED BY ZenonT(60), <1>1 DEF PublishInv

LEMMA PublishProbe ==
  ASSUME Shape, HealthInv, SnapInv, PublishInv, NEW b \in Backends, NEW ok \in {"ok", "bad"}, ReportProbe(b, ok)
  PROVE  /\ PublishInv'
         /\ \/ pub' = pub
            \/ pub.pc = "idle" /\ pub' \in [pc : {"spin"}, alive : SUBSET Backends]
<1> DEFINE h == [health EXCEPT ![b] = Reported(@, ok)]
           flips == h[b].state # health[b].state
<1>1. /\ pub.pc = "idle" /\ b \in DOMAIN health /\ health' = h /\ UNCHANGED <<published, buf, active, stored>>
      /\ pub' = IF flips /\ Publishes(h) THEN [pc |-> "spin", alive |-> Alive(h)] ELSE pub
      /\ \E r : hist' = [hist EXCEPT !.runs[b] = r, !.synced = IF flips /\ Alive(h) # {} THEN TRUE ELSE @]
  BY ZenonT(60) DEF ReportProbe
<1>2. hist'.synced = IF flips /\ Alive(h) # {} THEN TRUE ELSE hist.synced
  BY ZenonT(60), <1>1, HistFields DEF Shape
<1>3. Seen' = Seen /\ Shadow' = Shadow
  BY ZenonT(60), <1>1 DEF Seen, Shadow
<1>4. DOMAIN h = DOMAIN health /\ \A c \in DOMAIN health \ {b} : h[c] = health[c]
  BY ZenonT(60)
<1>5. ~flips => Alive(h) = Alive(health)
  BY ZenonT(60), <1>4 DEF Alive
<1>6. Alive(h) \subseteq Backends
  BY ZenonT(60), <1>4 DEF Alive, HealthInv
<1> HIDE DEF h, flips
<1>7. CASE flips /\ Publishes(h)
  <2>1. pub' = [pc |-> "spin", alive |-> Alive(h)]
    BY ZenonT(60), <1>1, <1>7
  <2>2. pub'.pc = "spin" /\ pub'.alive = Alive(h) /\ pub' \in [pc : {"spin"}, alive : SUBSET Backends]
    BY <1>6, <2>1
  <2>3. PublishInv'
    BY ZenonT(60), <1>1, <1>3, <2>2 DEF PublishInv
  <2> QED BY ZenonT(60), <1>1, <2>2, <2>3
<1>8. CASE ~(flips /\ Publishes(h))
  <2>1. pub' = pub
    BY ZenonT(60), <1>1, <1>8
  <2>2. hist'.synced /\ Alive(h) # {} => published = Alive(h)
    BY ZenonT(60), <1>1, <1>2, <1>5, <1>8 DEF Publishes, PublishInv
  <2> QED BY ZenonT(60), <1>1, <1>3, <2>1, <2>2 DEF PublishInv
<1> QED BY ZenonT(60), <1>7, <1>8

LEMMA PublishRegister ==
  ASSUME PublishInv, NEW b \in Backends, Register(b) \/ Unregister(b), hist'.synced = FALSE
  PROVE  PublishInv'
<1>1. pub.pc = "idle" /\ UNCHANGED <<pub, published, buf, active, stored>>
  BY ZenonT(60) DEF Register, Unregister
<1>2. Seen' = Seen /\ Shadow' = Shadow
  BY ZenonT(60), <1>1 DEF Seen, Shadow
<1> QED BY ZenonT(60), <1>1, <1>2 DEF PublishInv

LEMMA PublishPublishing ==
  ASSUME Shape, SnapInv, PublishInv, Publishing
  PROVE  PublishInv'
<1>0. UNCHANGED health /\ hist'.synced = hist.synced
  BY ZenonT(60), PublishFrame
<1>1. Alive(health)' = Alive(health)
  BY ZenonT(60), <1>0 DEF Alive
<1>2. /\ Seen \in {0, 1} /\ Shadow \in {0, 1} /\ Seen # Shadow
      /\ buf \in [{0, 1} -> Buffers] /\ pub \in [pc : Stages, alive : SUBSET Backends]
  BY ZenonT(60), SeenTypes DEF SnapInv, SnapTypes
<1>3. ASSUME NEW stage \in Stages, NEW from \in Stages, PubStep(from, stage)
      PROVE  pub'.pc = stage /\ pub.pc = from /\ pub'.alive = pub.alive
  BY <1>2, <1>3 DEF PubStep
<1>4. pub.alive \subseteq Backends
  BY <1>2
<1>5. CASE SpinDone
  <2>1. pub'.pc = "table" /\ pub.pc = "spin" /\ pub'.alive = pub.alive /\ UNCHANGED <<published, buf, active, stored>>
    BY ZenonT(60), <1>3, <1>5 DEF SpinDone, Stages
  <2>2. Seen' = Seen /\ Shadow' = Shadow
    BY ZenonT(60), <2>1 DEF Seen, Shadow
  <2> QED BY ZenonT(60), <1>1, <2>1, <2>2 DEF PublishInv
<1>6. CASE Drain
  <2>1. UNCHANGED <<pub, published, buf>> /\ active' = stored[1] /\ stored' = <<>> /\ stored # <<>>
    BY ZenonT(60), <1>6 DEF Drain
  <2>2. Seen' = Seen /\ Shadow' = Shadow
    BY ZenonT(60), <2>1 DEF Seen, Shadow
  <2> QED BY ZenonT(60), <1>0, <1>1, <2>1, <2>2 DEF PublishInv
<1>7. CASE WriteTable \/ WriteBackends \/ BumpVersion
  <2>1. /\ UNCHANGED <<published, active, stored>>
        /\ \/ WriteTable /\ pub'.pc = "backends" /\ pub.pc = "table" /\ pub'.alive = pub.alive
           \/ WriteBackends /\ pub'.pc = "version" /\ pub.pc = "backends" /\ pub'.alive = pub.alive
           \/ BumpVersion /\ pub'.pc = "flip" /\ pub.pc = "version" /\ pub'.alive = pub.alive
    BY ZenonT(60), <1>3, <1>7 DEF WriteTable, WriteBackends, BumpVersion, Stages
  <2>2. Seen' = Seen /\ Shadow' = Shadow
    BY ZenonT(60), <2>1 DEF Seen, Shadow
  <2>3. buf'[Seen] = buf[Seen]
    <3>1. \E v : buf' = [buf EXCEPT ![Shadow] = v]
      BY ZenonT(60), <1>7 DEF WriteTable, WriteBackends, BumpVersion
    <3> QED BY ZenonT(60), <1>2, <3>1
  <2>4. WriteBackends \/ BumpVersion => buf'[Shadow].backends = InOrder(pub.alive)
    <3>1. WriteBackends => buf' = [buf EXCEPT ![Shadow].backends = InOrder(pub.alive)]
      <4>1. Lut(pub.alive).backends = InOrder(pub.alive)
        BY DEF Lut
      <4> QED BY ZenonT(60), <4>1 DEF WriteBackends
    <3>2. BumpVersion => buf' = [buf EXCEPT ![Shadow].ver = version + 1] /\ buf[Shadow].backends = InOrder(pub.alive)
      BY ZenonT(60), <1>3 DEF BumpVersion, PublishInv, Stages
    <3>3. buf[Shadow] \in Buffers
      BY ZenonT(60), <1>2
    <3> HIDE DEF Shadow
    <3> QED BY <1>2, <3>1, <3>2, <3>3 DEF Buffers
  <2> QED BY ZenonT(60), <1>1, <2>1, <2>2, <2>3, <2>4 DEF PublishInv
<1>8. CASE Flip
  <2>1. /\ pub'.pc = "idle" /\ pub.pc = "flip" /\ buf' = buf /\ published' = pub.alive
        /\ (active' = Shadow /\ stored' = stored) \/ (stored' = <<Shadow>> /\ active' = active)
    BY ZenonT(60), <1>3, <1>8 DEF Flip, Stages, Remembers
  <2>2. stored = <<>>
    BY <2>1 DEF SnapInv, Versions, Writing, Stages
  <2>3. Seen' = Shadow
    BY <1>2, <2>1, <2>2 DEF Seen, Shadow
  <2> QED BY ZenonT(60), <1>1, <1>4, <2>1, <2>3 DEF PublishInv
<1> QED BY ZenonT(60), <1>5, <1>6, <1>7, <1>8 DEF Publishing

-----------------------------------------------------------------------------
(* The filters.  From the i-th packet of a source on, what passed and what is
   left in its bucket is at most a burst and what came back since. *)
BucketRec == [tokens : 0 .. Burst * Cost, last : Nat]
Spent(P, b) ==
  \A i \in DOMAIN P :
    P[i] <= b.last /\ (Len(P) - i + 1) * Cost + b.tokens <= Burst * Cost + (b.last - P[i])

BucketInv ==
  /\ DOMAIN buckets \subseteq Sources
  /\ IsFiniteSet(DOMAIN buckets) /\ Cardinality(DOMAIN buckets) <= MaxBuckets
  /\ hist.passed \in [Sources -> Seq(Nat)]
  /\ \A s \in DOMAIN buckets :
       buckets[s] \in BucketRec /\ buckets[s].last <= now /\ Spent(hist.passed[s], buckets[s])
  /\ \A s \in Sources \ DOMAIN buckets : hist.passed[s] = <<>>
  /\ RateIsKept

(* A polite source has sent in its window one SYN more than ACKs at most, and
   that only while it waits for an answer. *)
PoliteInv ==
  /\ hist.owes \in [Sources -> {0, 1}]
  /\ \A s \in DOMAIN wins : wins[s] \in [syn : Nat, ack : Nat, start : Nat]
  /\ \A s \in Sources \ hist.rude : s \in DOMAIN wins => wins[s].syn <= wins[s].ack + hist.owes[s]
  /\ hist.floods \subseteq hist.rude

Full == Burst * Cost
LEMMA CostSteps ==
  /\ Full \in Nat
  /\ \A k \in Nat : k * Cost \in Nat /\ (k + 1) * Cost = k * Cost + Cost
  /\ 1 * Cost = Cost /\ Cost \in Nat
BY Constants DEF Full

(* What comes back never exceeds the time that passed. *)
LEMMA RefillSpent ==
  ASSUME Shape, NEW b \in BucketRec, b.last <= now, NEW P \in Seq(Nat), Spent(P, b)
  PROVE  Refill(b, now) \in BucketRec /\ Refill(b, now).last = now /\ Spent(P, Refill(b, now))
<1>1. /\ b.tokens \in Nat /\ b.tokens <= Full /\ b.last \in Nat /\ now \in Nat /\ Full \in Nat
  BY Constants, CostSteps DEF BucketRec, Shape, Full
<1>2. CASE ~(now > b.last)
  <2>1. Refill(b, now) = b
    BY ZenonT(60), <1>2 DEF Refill
  <2>2. b.last = now
    BY <1>1, <1>2
  <2> QED BY ZenonT(60), <2>1, <2>2
<1>3. CASE now > b.last
  <2> DEFINE sum == b.tokens + (now - b.last)
             t == IF sum > Full THEN Full ELSE sum
  <2>1. Refill(b, now) = [tokens |-> t, last |-> now]
    BY ZenonT(60), <1>3 DEF Refill, Full
  <2>2. t \in Nat /\ t <= Full /\ t <= b.tokens + (now - b.last)
    BY SMT, SMTT(30), ZenonT(60), <1>1, <1>3
  <2> HIDE DEF sum, t
  <2>3. Refill(b, now).tokens = t /\ Refill(b, now).last = now
    BY <2>1
  <2>4. Refill(b, now) \in BucketRec
    BY <1>1, <2>1, <2>2 DEF BucketRec, Full
  <2>5. Spent(P, Refill(b, now))
    <3> SUFFICES ASSUME NEW i \in DOMAIN P
                 PROVE  P[i] <= now /\ (Len(P) - i + 1) * Cost + t <= Full + (now - P[i])
      BY ZenonT(60), <2>3 DEF Spent, Full
    <3>1. P[i] \in Nat /\ Len(P) - i \in Nat
      OBVIOUS
    <3>2. (Len(P) - i + 1) * Cost \in Nat
      BY <3>1, Constants
    <3>3. P[i] <= b.last /\ (Len(P) - i + 1) * Cost + b.tokens <= Full + (b.last - P[i])
      BY ZenonT(60) DEF Spent, Full
    <3> DEFINE m == (Len(P) - i + 1) * Cost
               q == P[i]
               u == b.tokens
               l == b.last
               F == Full
    <3>4. /\ m \in Nat /\ q \in Nat /\ u \in Nat /\ l \in Nat /\ F \in Nat /\ now \in Nat /\ t \in Nat
          /\ q <= l /\ l < now /\ m + u <= F + (l - q) /\ t <= u + (now - l)
      BY ZenonT(60), <1>1, <1>3, <2>2, <3>1, <3>2, <3>3
    <3> HIDE DEF m, q, u, l, F
    <3>5. q <= now /\ m + t <= F + (now - q)
      BY ONLY SMT, Zenon, SMTT(60), ZenonT(60), <3>4
    <3> QED BY ZenonT(60), <3>5 DEF m, q, F
  <2> QED BY ZenonT(60), <2>3, <2>4, <2>5
<1> QED BY ZenonT(60), <1>2, <1>3

(* A packet that passes is paid for. *)
LEMMA PaySpent ==
  ASSUME Shape, NEW c \in BucketRec, c.last = now, c.tokens >= Cost, NEW P \in Seq(Nat), Spent(P, c)
  PROVE  LET d == [c EXCEPT !.tokens = @ - Cost]
         IN  d \in BucketRec /\ d.last = now /\ Spent(Append(P, now), d)
<1> DEFINE d == [c EXCEPT !.tokens = @ - Cost]
           Q == Append(P, now)
<1>1. /\ c.tokens \in Nat /\ c.tokens <= Full /\ now \in Nat /\ Full \in Nat /\ Cost \in Nat
  BY Constants, CostSteps DEF BucketRec, Shape, Full
<1>2. d.tokens = c.tokens - Cost /\ d.last = now /\ d \in BucketRec
  BY SMT, SMTT(30), ZenonT(60), <1>1 DEF BucketRec, Full
<1>3. /\ Len(P) \in Nat /\ Len(Q) = Len(P) + 1 /\ Q[Len(P) + 1] = now
      /\ \A i \in DOMAIN Q : (i \in DOMAIN P /\ Q[i] = P[i]) \/ i = Len(P) + 1
  BY SMT, SMTT(30), ZenonT(60), <1>1
<1> HIDE DEF d, Q
<1>4. ASSUME NEW i \in DOMAIN Q
      PROVE  Q[i] <= now /\ (Len(Q) - i + 1) * Cost + d.tokens <= Full + (now - Q[i])
  <2>1. CASE i = Len(P) + 1
    <3>1. Q[i] = now /\ Len(Q) - i + 1 = 1
      BY <1>3, <2>1
    <3>2. (Len(Q) - i + 1) * Cost = Cost
      BY <3>1, CostSteps
    <3>3. Cost + (c.tokens - Cost) <= Full + (now - now)
      BY <1>1
    <3>4. now <= now
      BY <1>1
    <3> QED BY ZenonT(60), <1>2, <3>1, <3>2, <3>3, <3>4
  <2>2. CASE i \in DOMAIN P /\ Q[i] = P[i]
    <3>1. P[i] \in Nat /\ Len(P) - i \in Nat
      BY <2>2
    <3> DEFINE k == Len(P) - i + 1
    <3>2. k \in Nat /\ Len(Q) - i + 1 = k + 1
      BY SMT, SMTT(30), ZenonT(60), <1>3, <2>2, <3>1
    <3>3. P[i] <= now /\ k * Cost + c.tokens <= Full + (now - P[i])
      BY ZenonT(60), <2>2 DEF Spent, Full
    <3>4. k * Cost \in Nat /\ (Len(Q) - i + 1) * Cost = k * Cost + Cost
      BY ZenonT(60), <3>2, CostSteps
    <3> DEFINE m == k * Cost
               q == P[i]
               u == c.tokens
               C == Cost
               F == Full
    <3>5. m \in Nat /\ q \in Nat /\ u \in Nat /\ C \in Nat /\ F \in Nat /\ now \in Nat /\ m + u <= F + (now - q)
      BY ZenonT(60), <1>1, <3>1, <3>3, <3>4
    <3> HIDE DEF m, q, u, C, F
    <3>6. m + C + (u - C) <= F + (now - q)
      BY ONLY SMT, Zenon, SMTT(60), ZenonT(60), <3>5
    <3> QED BY ZenonT(60), SMT, SMTT(30), <1>2, <2>2, <3>3, <3>4, <3>6 DEF m, q, u, C, F
  <2> QED BY ZenonT(60), <1>3, <2>1, <2>2
<1>5. Spent(Q, d)
  BY ZenonT(60), <1>2, <1>4 DEF Spent, Full
<1> QED BY ZenonT(60), <1>2, <1>5 DEF d, Q

(* The rate of one source. *)
Kept(P) == \A i, j \in DOMAIN P : i <= j => (j - i + 1) * Cost <= Burst * Cost + (P[j] - P[i])

LEMMA KeptAppend ==
  ASSUME Shape, NEW P \in Seq(Nat), Kept(P), NEW d \in BucketRec, d.last = now, Spent(Append(P, now), d)
  PROVE  Kept(Append(P, now)) /\ Append(P, now) \in Seq(Nat)
<1> DEFINE Q == Append(P, now)
<1>1. /\ now \in Nat /\ d.tokens \in Nat /\ Full \in Nat
  BY Constants, CostSteps DEF BucketRec, Shape, Full
<1>2. /\ Q \in Seq(Nat) /\ Len(P) \in Nat /\ Len(Q) = Len(P) + 1 /\ Q[Len(P) + 1] = now
      /\ \A i \in DOMAIN Q : (i \in DOMAIN P /\ Q[i] = P[i]) \/ i = Len(P) + 1
      /\ DOMAIN P = 1 .. Len(P) /\ DOMAIN Q = 1 .. Len(Q)
  BY <1>1
<1>3. Spent(Q, d)
  BY ZenonT(60)
<1> HIDE DEF Q
<1>4. ASSUME NEW i \in DOMAIN Q, NEW j \in DOMAIN Q, i <= j
      PROVE  (j - i + 1) * Cost <= Full + (Q[j] - Q[i])
  <2>1. CASE j = Len(P) + 1
    <3>1. Q[i] <= now /\ (Len(Q) - i + 1) * Cost + d.tokens <= Full + (now - Q[i])
      BY ZenonT(60), <1>3 DEF Spent, Full
    <3>0. i \in 1 .. Len(P) + 1 /\ Len(Q) = j /\ Q[j] = now
      BY ZenonT(60), <1>2, <2>1
    <3>2. Len(Q) - i + 1 = j - i + 1 /\ Len(Q) - i + 1 \in Nat /\ Q[i] \in Nat /\ Q[j] = now
      <4>1. Q[i] \in Nat
        BY <1>2
      <4>2. j - i + 1 \in Nat
        BY <1>2, <2>1, <3>0
      <4> QED BY ZenonT(60), <3>0, <4>1, <4>2
    <3>3. (j - i + 1) * Cost \in Nat
      BY ZenonT(60), <3>2, CostSteps
    <3>4. (j - i + 1) * Cost + d.tokens <= Full + (now - Q[i])
      BY ZenonT(60), <3>1, <3>2
    <3> DEFINE m == (j - i + 1) * Cost
               q == Q[i]
               u == d.tokens
               F == Full
    <3>5. m \in Nat /\ q \in Nat /\ u \in Nat /\ F \in Nat /\ now \in Nat /\ m + u <= F + (now - q)
      BY ZenonT(60), <1>1, <3>2, <3>3, <3>4
    <3> HIDE DEF m, q, u, F
    <3>6. m <= F + (now - q)
      BY ONLY SMT, Zenon, SMTT(60), ZenonT(60), <3>5
    <3> QED BY ZenonT(60), <3>2, <3>6 DEF m, q, F
  <2>2. CASE j # Len(P) + 1
    <3>1. i \in DOMAIN P /\ j \in DOMAIN P /\ Q[i] = P[i] /\ Q[j] = P[j]
      BY <1>2, <1>4, <2>2
    <3> QED BY ZenonT(60), <1>4, <3>1 DEF Kept, Full
  <2> QED BY ZenonT(60), <2>1, <2>2
<1> QED BY ZenonT(60), <1>2, <1>4 DEF Kept, Full, Q

(* What a packet of source s does to the buckets and to what has passed. *)
Limits(s, passes) ==
  /\ UNCHANGED now /\ DOMAIN hist' = Fields
  /\ buckets' = Limited(buckets, s, now)
  /\ hist'.passed = IF ~passes THEN hist.passed
                    ELSE [hist.passed EXCEPT ![s] = IF Overflows(buckets, s) THEN @ ELSE Append(@, now)]
  /\ passes <=> Allows(buckets, s, now)

LEMMA PacketLimits ==
  ASSUME Shape, NEW f, NEW kind, Packet(f, kind)
  PROVE  \E passes \in BOOLEAN : Limits(Source(f), passes)
<1>1. CASE DropByRate(f, kind)
  <2>1. Noted(f, kind, TRUE, FALSE)
    BY ZenonT(60), <1>1, RateNoted
  <2>2. /\ UNCHANGED now /\ ~Allows(buckets, Source(f), now) /\ buckets' = Limited(buckets, Source(f), now)
    BY ZenonT(60), <1>1 DEF DropByRate
  <2>3. Limits(Source(f), FALSE)
    BY ZenonT(60), <2>1, <2>2 DEF Limits, Noted
  <2> QED BY ZenonT(60), <2>3
<1>2. CASE DropByFlood(f, kind) \/ ForwardTracked(f, kind) \/ ForwardNew(f, kind)
  <2>1. Noted(f, kind, FALSE, DropByFlood(f, kind))
    BY ZenonT(60), <1>2, PassNoted
  <2>2. Passes(f, kind)
    BY ZenonT(60), <1>2 DEF DropByFlood, ForwardTracked, ForwardNew
  <2>3. /\ UNCHANGED now /\ Allows(buckets, Source(f), now) /\ buckets' = Limited(buckets, Source(f), now)
    BY ZenonT(60), <2>2 DEF Passes
  <2>4. Limits(Source(f), TRUE)
    BY ZenonT(60), <2>1, <2>3 DEF Limits, Noted
  <2> QED BY ZenonT(60), <2>4
<1> QED BY ZenonT(60), <1>1, <1>2 DEF Packet

LEMMA KeptEach == RateIsKept <=> \A s \in Sources : Kept(hist.passed[s])
BY ZenonT(60) DEF RateIsKept, Kept

LEMMA BucketLimits ==
  ASSUME Shape, BucketInv, NEW s \in Sources, NEW passes \in BOOLEAN, Limits(s, passes)
  PROVE  BucketInv'
<1> DEFINE P == hist.passed[s]
           b == IF s \in DOMAIN buckets THEN buckets[s] ELSE NewBucket
           c == Refill(b, now)
           d == [c EXCEPT !.tokens = @ - Cost]
<1>0. P \in Seq(Nat) /\ Kept(P) /\ hist.passed \in [Sources -> Seq(Nat)] /\ now' = now
  BY ZenonT(60), KeptEach DEF BucketInv, Limits
<1>1. CASE Overflows(buckets, s)
  <2>1. buckets' = buckets
    BY ZenonT(60), <1>1 DEF Limits, Limited
  <2>2. hist'.passed = hist.passed
    <3>1. [hist.passed EXCEPT ![s] = P] = hist.passed
      BY ZenonT(60), <1>0
    <3> QED BY ZenonT(60), <1>1, <3>1 DEF Limits
  <2> QED BY ZenonT(60), <1>0, <2>1, <2>2 DEF BucketInv, RateIsKept
<1>2. CASE ~Overflows(buckets, s)
  <2>1. b \in BucketRec /\ b.last <= now /\ Spent(P, b)
    <3>1. CASE s \in DOMAIN buckets
      BY ZenonT(60), <3>1 DEF BucketInv
    <3>2. CASE s \notin DOMAIN buckets
      <4>1. b = [tokens |-> Full, last |-> 0] /\ P = <<>>
        BY ZenonT(60), <3>2 DEF BucketInv, NewBucket, Full
      <4>2. Full \in Nat /\ now \in Nat
        BY Constants, CostSteps DEF Shape
      <4>3. b \in BucketRec /\ b.last <= now
        <5> HIDE DEF b
        <5> QED BY <4>1, <4>2 DEF BucketRec, Full
      <4>4. DOMAIN P = {}
        BY <4>1
      <4> QED BY ZenonT(60), <4>3, <4>4 DEF Spent
    <3> QED BY ZenonT(60), <3>1, <3>2
  <2> HIDE DEF b
  <2>2. c \in BucketRec /\ c.last = now /\ Spent(P, c)
    BY ZenonT(60), <1>0, <2>1, RefillSpent
  <2>3. BucketOf(buckets, s, now) = c /\ (passes <=> c.tokens >= Cost)
    BY ZenonT(60), <1>2 DEF BucketOf, Limits, Allows, b
  <2> HIDE DEF c
  <2>4. PICK e, Q : /\ buckets' = With(buckets, s, e) /\ e \in BucketRec /\ e.last = now /\ Spent(Q, e)
                    /\ hist'.passed = [hist.passed EXCEPT ![s] = Q] /\ Q \in Seq(Nat) /\ Kept(Q)
    <3>1. CASE passes
      <4>1. c.tokens >= Cost
        BY ZenonT(60), <2>3, <3>1
      <4>2. d \in BucketRec /\ d.last = now /\ Spent(Append(P, now), d)
        BY ZenonT(60), <1>0, <2>2, <4>1, PaySpent
      <4>3. buckets' = With(buckets, s, d)
        BY ZenonT(60), <1>2, <2>3, <4>1 DEF Limits, Limited
      <4>4. hist'.passed = [hist.passed EXCEPT ![s] = Append(P, now)]
        BY ZenonT(60), <1>2, <3>1 DEF Limits
      <4> HIDE DEF d
      <4>5. Kept(Append(P, now)) /\ Append(P, now) \in Seq(Nat)
        BY ZenonT(60), <1>0, <4>2, KeptAppend
      <4> QED BY ZenonT(60), <4>2, <4>3, <4>4, <4>5
    <3>2. CASE ~passes
      <4>1. buckets' = With(buckets, s, c)
        BY ZenonT(60), <1>2, <2>3, <3>2 DEF Limits, Limited
      <4>2. hist'.passed = [hist.passed EXCEPT ![s] = P]
        BY ZenonT(60), <1>0, <3>2 DEF Limits
      <4> QED BY ZenonT(60), <1>0, <2>2, <4>1, <4>2
    <3> QED BY ZenonT(60), <3>1, <3>2
  <2>5. /\ DOMAIN buckets' = DOMAIN buckets \cup {s} /\ buckets'[s] = e
        /\ \A x \in DOMAIN buckets \ {s} : buckets'[x] = buckets[x]
    BY ZenonT(60), <2>4 DEF With
  <2>6. /\ hist'.passed \in [Sources -> Seq(Nat)] /\ hist'.passed[s] = Q
        /\ \A x \in Sources \ {s} : hist'.passed[x] = hist.passed[x]
    BY ZenonT(60), <1>0, <2>4
  <2>7. RateIsKept'
    <3>1. \A x \in Sources : Kept(hist'.passed[x])
      BY ZenonT(60), <2>4, <2>6, KeptEach DEF BucketInv
    <3> QED BY ZenonT(60), <3>1 DEF RateIsKept, Kept
  <2>8. IsFiniteSet(DOMAIN buckets') /\ Cardinality(DOMAIN buckets') <= MaxBuckets
    <3>1. CASE s \in DOMAIN buckets
      <4>1. DOMAIN buckets \cup {s} = DOMAIN buckets
        BY ZenonT(60), <3>1
      <4> QED BY ZenonT(60), <2>5, <4>1 DEF BucketInv
    <3>2. CASE s \notin DOMAIN buckets
      <4> DEFINE n == Cardinality(DOMAIN buckets)
      <4>1. n \in Nat /\ ~(n >= MaxBuckets) /\ MaxBuckets \in Nat
        BY ZenonT(60), <1>2, <3>2, FS_CardinalityType, Constants DEF BucketInv, Overflows
      <4>2. IsFiniteSet(DOMAIN buckets') /\ Cardinality(DOMAIN buckets') = n + 1
        BY ZenonT(60), <2>5, <3>2, FS_AddElement DEF BucketInv
      <4> HIDE DEF n
      <4>3. n + 1 <= MaxBuckets
        BY <4>1
      <4> QED BY ZenonT(60), <4>2, <4>3
    <3> QED BY ZenonT(60), <3>1, <3>2
  <2>9. DOMAIN buckets' \subseteq Sources
    BY ZenonT(60), <2>5 DEF BucketInv
  <2>10. \A x \in DOMAIN buckets' :
           buckets'[x] \in BucketRec /\ buckets'[x].last <= now' /\ Spent(hist'.passed[x], buckets'[x])
    <3>1. e.last <= now
      BY <2>4, Constants DEF Shape
    <3> QED BY ZenonT(60), <1>0, <2>4, <2>5, <2>6, <3>1 DEF BucketInv
  <2>11. \A x \in Sources \ DOMAIN buckets' : hist'.passed[x] = <<>>
    BY ZenonT(60), <2>5, <2>6 DEF BucketInv
  <2> QED BY ZenonT(60), <2>6, <2>7, <2>8, <2>9, <2>10, <2>11 DEF BucketInv
<1> QED BY ZenonT(60), <1>1, <1>2

LEMMA BucketStill ==
  ASSUME Shape, BucketInv, Goes, buckets' = buckets, hist'.passed = hist.passed
  PROVE  BucketInv'
<1>1. \A s \in DOMAIN buckets : buckets[s].last <= now'
  <2> SUFFICES ASSUME NEW s \in DOMAIN buckets PROVE buckets[s].last <= now'
    OBVIOUS
  <2>1. buckets[s].last \in Nat /\ buckets[s].last <= now /\ now \in Nat /\ now' \in Nat /\ now <= now'
    BY Constants DEF BucketInv, BucketRec, Goes, Shape
  <2> QED BY <2>1
<1> QED BY ZenonT(60), <1>1 DEF BucketInv, RateIsKept

(* A source that waits for answers stays below the threshold. *)
LEMMA BelowThreshold ==
  ASSUME Threshold >= 2, Ratio >= 2, NEW w \in [syn : Nat, ack : Nat, start : Nat], w.syn <= w.ack + 1
  PROVE  ~Flagged(w)
<1> DEFINE x == w.syn
           y == w.ack
<1>1. x \in Nat /\ y \in Nat /\ x <= y + 1 /\ Threshold \in Nat /\ Ratio \in Nat
  BY Constants
<1> HIDE DEF x, y
<1>2. y * Ratio >= y * 2
  BY <1>1
<1>3. y * 2 = y + y /\ y * Ratio \in Nat
  BY <1>1
<1>4. ~(x >= Threshold /\ x > y * Ratio)
  BY <1>1, <1>2, <1>3
<1> QED BY ZenonT(60), <1>4 DEF Flagged, x, y

WinRec == [syn : Nat, ack : Nat, start : Nat]
Within(w, owes) == w.syn <= w.ack + owes

(* The window of the source of a packet, afterwards. *)
LEMMA ObserveWithin ==
  ASSUME Shape, NEW s, NEW kind \in {"SYN", "ACK"}, NEW owes \in {0, 1},
         s \in DOMAIN wins => wins[s] \in WinRec
  PROVE  LET o == Observe(wins, s, kind, now)
         IN  /\ DOMAIN o = DOMAIN wins \cup {s} /\ \A x \in DOMAIN wins \ {s} : o[x] = wins[x]
             /\ o[s] \in WinRec
             /\ (s \in DOMAIN wins => Within(wins[s], owes)) /\ ~(kind = "SYN" /\ owes = 1) =>
                  Within(o[s], IF kind = "SYN" THEN 1 ELSE 0)
<1> DEFINE w == IF s \notin DOMAIN wins \/ Sub(now, wins[s].start) >= Window
                THEN [syn |-> 0, ack |-> 0, start |-> now] ELSE wins[s]
           e == IF kind = "SYN" THEN [w EXCEPT !.syn = @ + 1]
                ELSE IF kind = "ACK" THEN [w EXCEPT !.ack = @ + 1] ELSE w
           o == Observe(wins, s, kind, now)
<1>1. o = With(wins, s, e)
  BY ZenonT(60) DEF Observe
<1>2. w \in WinRec /\ ((s \in DOMAIN wins => Within(wins[s], owes)) => Within(w, owes))
  <2>1. CASE s \notin DOMAIN wins \/ Sub(now, wins[s].start) >= Window
    <3>1. w = [syn |-> 0, ack |-> 0, start |-> now] /\ now \in Nat
      BY SMT, SMTT(30), ZenonT(60), <2>1, Constants DEF Shape
    <3> HIDE DEF w
    <3>2. w \in WinRec /\ w.syn = 0 /\ w.ack = 0
      BY <3>1 DEF WinRec
    <3> QED BY SMT, SMTT(30), ZenonT(60), <3>2 DEF Within
  <2>2. CASE ~(s \notin DOMAIN wins \/ Sub(now, wins[s].start) >= Window)
    BY ZenonT(60), <2>2
  <2> QED BY ZenonT(60), <2>1, <2>2
<1> HIDE DEF w
<1>3. /\ e \in WinRec
      /\ Within(w, owes) /\ ~(kind = "SYN" /\ owes = 1) => Within(e, IF kind = "SYN" THEN 1 ELSE 0)
  <2>1. CASE kind = "SYN"
    <3>1. e = [w EXCEPT !.syn = @ + 1]
      BY ZenonT(60), <2>1
    <3> HIDE DEF e
    <3>2. e \in WinRec /\ e.syn = w.syn + 1 /\ e.ack = w.ack /\ w.syn \in Nat /\ w.ack \in Nat
      BY <1>2, <3>1 DEF WinRec
    <3> QED BY <2>1, <3>2 DEF Within
  <2>2. CASE kind = "ACK"
    <3>1. e = [w EXCEPT !.ack = @ + 1]
      BY <2>2
    <3> HIDE DEF e
    <3>2. e \in WinRec /\ e.syn = w.syn /\ e.ack = w.ack + 1 /\ w.syn \in Nat /\ w.ack \in Nat
      BY <1>2, <3>1 DEF WinRec
    <3> QED BY <2>2, <3>2 DEF Within
  <2> QED BY ZenonT(60), <2>1, <2>2
<1> HIDE DEF e, o
<1>4. DOMAIN o = DOMAIN wins \cup {s} /\ o[s] = e /\ \A x \in DOMAIN wins \ {s} : o[x] = wins[x]
  BY ZenonT(60), <1>1 DEF With
<1> QED BY ZenonT(60), <1>2, <1>3, <1>4 DEF o

LEMMA PoliteStill ==
  ASSUME PoliteInv, UNCHANGED Fil
  PROVE  PoliteInv'
BY ZenonT(60) DEF PoliteInv, Fil

LEMMA PoliteDrop ==
  ASSUME Shape, PoliteInv, NEW f, Source(f) \in Sources, NEW kind, DropByRate(f, kind)
  PROVE  PoliteInv'
<1> DEFINE s == Source(f)
<1>1. Noted(f, kind, TRUE, FALSE) /\ wins' = wins
  BY ZenonT(60), RateNoted DEF DropByRate
<1>2. /\ hist'.owes = [hist.owes EXCEPT ![s] = Owes(s, kind)] /\ hist'.rude = hist.rude \cup {s}
      /\ hist'.floods = hist.floods
  BY ZenonT(60), <1>1 DEF Noted, Rude
<1>3. Owes(s, kind) \in {0, 1}
  BY ZenonT(60) DEF Owes, PoliteInv
<1> HIDE DEF s
<1>4. /\ hist'.owes \in [Sources -> {0, 1}] /\ \A x \in Sources \ {s} : hist'.owes[x] = hist.owes[x]
  BY ZenonT(60), <1>2, <1>3 DEF PoliteInv
<1> QED BY ZenonT(60), <1>1, <1>2, <1>4 DEF PoliteInv

LEMMA PolitePass ==
  ASSUME Threshold >= 2, Ratio >= 2, Shape, PoliteInv, NEW f, Source(f) \in Sources, NEW kind \in {"SYN", "ACK", "UDP"},
         DropByFlood(f, kind) \/ ForwardTracked(f, kind) \/ ForwardNew(f, kind)
  PROVE  PoliteInv'
<1> DEFINE s == Source(f)
<1>0. hist.owes \in [Sources -> {0, 1}] /\ hist.owes[s] \in {0, 1} /\ (s \in DOMAIN wins => wins[s] \in WinRec)
  BY ZenonT(60) DEF PoliteInv, WinRec
<1>1. Noted(f, kind, FALSE, DropByFlood(f, kind)) /\ Passes(f, kind) /\ (DropByFlood(f, kind) => TakenForFlood(f, kind))
  BY ZenonT(60), PassNoted DEF DropByFlood, ForwardTracked, ForwardNew
<1>2. /\ hist'.owes = [hist.owes EXCEPT ![s] = Owes(s, kind)]
      /\ hist'.rude = IF kind = "SYN" /\ hist.owes[s] = 1 THEN hist.rude \cup {s} ELSE hist.rude
      /\ hist'.floods = IF DropByFlood(f, kind) THEN hist.floods \cup {s} ELSE hist.floods
      /\ wins' = IF kind = "UDP" THEN wins ELSE Observe(wins, s, kind, now)
  BY ZenonT(60), <1>1 DEF Noted, Rude, Passes
<1>3. Owes(s, kind) = IF kind = "SYN" THEN 1 ELSE IF kind = "ACK" THEN 0 ELSE hist.owes[s]
  BY ZenonT(60) DEF Owes
<1>4. Owes(s, kind) \in {0, 1}
  BY ZenonT(60), <1>0, <1>3
<1>5. DropByFlood(f, kind) => kind # "UDP" /\ Flagged(wins'[s])
  BY ZenonT(60), <1>1 DEF TakenForFlood
<1> HIDE DEF s
<1>6. /\ hist'.owes \in [Sources -> {0, 1}] /\ hist'.owes[s] = Owes(s, kind)
      /\ \A x \in Sources \ {s} : hist'.owes[x] = hist.owes[x]
  BY ZenonT(60), <1>0, <1>2, <1>4 DEF s
<1>7. hist.rude \subseteq hist'.rude /\ \A x \in Sources \ {s} : x \in hist'.rude => x \in hist.rude
  BY ZenonT(60), <1>2
<1>8. CASE kind = "UDP"
  <2>1. ~DropByFlood(f, kind) /\ wins' = wins /\ hist'.floods = hist.floods /\ Owes(s, kind) = hist.owes[s]
    BY ZenonT(60), <1>2, <1>3, <1>5, <1>8
  <2> QED BY ZenonT(60), <1>6, <1>7, <2>1 DEF PoliteInv
<1>9. CASE kind # "UDP"
  <2>1. kind \in {"SYN", "ACK"} /\ wins' = Observe(wins, s, kind, now)
    BY ZenonT(60), <1>2, <1>9
  <2>2. /\ DOMAIN wins' = DOMAIN wins \cup {s} /\ \A x \in DOMAIN wins \ {s} : wins'[x] = wins[x]
        /\ wins'[s] \in WinRec
        /\ (s \in DOMAIN wins => Within(wins[s], hist.owes[s])) /\ ~(kind = "SYN" /\ hist.owes[s] = 1) =>
             Within(wins'[s], IF kind = "SYN" THEN 1 ELSE 0)
    BY ZenonT(60), <1>0, <2>1, ObserveWithin
  <2>3. Owes(s, kind) = IF kind = "SYN" THEN 1 ELSE 0
    BY ZenonT(60), <1>3, <2>1
  <2>4. s \notin hist'.rude => Within(wins'[s], Owes(s, kind))
    BY ZenonT(60), <1>2, <2>2, <2>3 DEF PoliteInv, Within, s
  <2>5. DropByFlood(f, kind) => s \in hist'.rude
    <3> SUFFICES ASSUME DropByFlood(f, kind), Within(wins'[s], Owes(s, kind)) PROVE FALSE
      BY ZenonT(60), <2>4
    <3>1. wins'[s].syn <= wins'[s].ack + 1
      BY <1>4, <2>2 DEF Within, WinRec
    <3> QED BY ZenonT(60), <1>5, <2>2, <3>1, BelowThreshold DEF WinRec
  <2>6. hist'.floods \subseteq hist'.rude
    BY ZenonT(60), <1>2, <1>7, <2>5 DEF PoliteInv
  <2>7. \A x \in DOMAIN wins' : wins'[x] \in WinRec
    BY ZenonT(60), <2>2 DEF PoliteInv, WinRec
  <2>8. \A x \in Sources \ hist'.rude : x \in DOMAIN wins' => Within(wins'[x], hist'.owes[x])
    <3>1. ASSUME NEW x \in Sources \ hist'.rude, x \in DOMAIN wins', x # s PROVE Within(wins'[x], hist'.owes[x])
      BY ZenonT(60), <1>6, <1>7, <2>2, <3>1 DEF PoliteInv, Within
    <3> QED BY ZenonT(60), <1>6, <2>4, <3>1
  <2> QED BY ZenonT(60), <1>6, <2>6, <2>7, <2>8 DEF PoliteInv, WinRec, Within
<1> QED BY ZenonT(60), <1>8, <1>9

-----------------------------------------------------------------------------
(* The steps, sorted by the part they belong to. *)
LEMMA Steps ==
  ASSUME Shape, [Next]_vars
  PROVE  \/ Goes /\ Idle
         \/ \E b \in Backends : Register(b) \/ Unregister(b)
         \/ \E b \in Backends, ok \in {"ok", "bad"} : ReportProbe(b, ok)
         \/ \E r \in Readers : Reading(r)
         \/ Publishing
         \/ \E f \in budget.flows, kind \in budget.kinds : Packet(f, kind)
<1>1. CASE UNCHANGED vars
  <2>1. Goes
    BY ZenonT(60), <1>1, Standing DEF vars, Shape
  <2> QED BY ZenonT(60), <1>1, <2>1 DEF vars, control, tables, Idle, Snap, Ctl, Fil
<1>2. CASE Input
  <2>1. \/ Tick \/ Advance \/ (\E b \in Backends : ReportUnknown(b)) \/ (\E S \in budget.pools : SetBackends(S))
        \/ \E b \in Backends : Register(b) \/ Unregister(b)
        \/ \E b \in Backends : ReportProbe(b, "ok") \/ ReportProbe(b, "bad")
        \/ \E r \in Readers : Reading(r)
        \/ \E f \in budget.flows, kind \in budget.kinds : Packet(f, kind)
    BY ZenonT(60), <1>2 DEF Input, Reading, Packet
  <2>2. (\E b \in Backends : ReportProbe(b, "ok") \/ ReportProbe(b, "bad")) =>
          \E b \in Backends, ok \in {"ok", "bad"} : ReportProbe(b, ok)
    BY ZenonT(60)
  <2> QED BY ZenonT(60), <2>1, <2>2, TickFrame, AdvanceFrame, PlainFrame
<1>3. CASE Progress
  BY ZenonT(60), <1>3 DEF Progress, Publishing, Reading
<1> QED BY ZenonT(60), <1>1, <1>2, <1>3 DEF Next

LEMMA ShapeStep ==
  ASSUME Shape, [Next]_vars
  PROVE  Goes /\ Shape'
<1>1. Goes
  BY ZenonT(60), Steps, RegisterFrame, ProbeFrame, ReadFrame, PublishFrame, PacketFrame
<1> QED BY ZenonT(60), <1>1, Shaped

(* The control plane and the buffers. *)
TableInv == SnapInv /\ HealthInv /\ PublishInv

LEMMA TableInitially ==
  ASSUME Init
  PROVE  TableInv
<1>0. SnapInv /\ budget.backends \subseteq Backends /\ buf[0].backends = InOrder(budget.backends)
  BY ZenonT(60), SnapInitially, InitBuffers
<1>1. /\ health = [b \in budget.backends |-> NewHealth] /\ due = {} /\ published = budget.backends
      /\ pub = [pc |-> "idle", alive |-> {}] /\ active = 0 /\ stored = <<>>
  BY ZenonT(60) DEF Init
<1>2. hist.runs = [b \in Backends |-> NoRuns] /\ hist.synced = FALSE
  BY DEF Init
<1>3. NewHealth \in HealthRec /\ NoRuns \in RunRec /\ Matches(NewHealth, NoRuns)
  BY Constants DEF NewHealth, NoRuns, HealthRec, RunRec, Matches, Never
<1>4. HealthInv
  BY ZenonT(60), <1>0, <1>1, <1>2, <1>3 DEF HealthInv
<1>5. Seen = 0 /\ pub.pc = "idle"
  BY ZenonT(60), <1>1 DEF Seen
<1>6. PublishInv
  BY ZenonT(60), <1>0, <1>1, <1>2, <1>5 DEF PublishInv
<1> QED BY ZenonT(60), <1>0, <1>4, <1>6 DEF TableInv

LEMMA TableStep ==
  ASSUME Shape, TableInv, [Next]_vars
  PROVE  TableInv'
<1>0. SnapInv /\ HealthInv /\ PublishInv /\ due' \subseteq due \cup DOMAIN health
  BY ZenonT(60), DueSteps DEF TableInv
<1>1. ASSUME UNCHANGED <<Snap, Ctl, pub>> PROVE TableInv'
  <2>1. /\ UNCHANGED <<health, published, buf, active, stored, pub>>
        /\ hist'.runs = hist.runs /\ hist'.synced = hist.synced
    BY ZenonT(60), <1>1 DEF Ctl
  <2>2. HealthInv'
    BY ZenonT(60), <1>0, <2>1, HealthStill
  <2>3. PublishInv'
    BY ZenonT(60), <1>0, <2>1, PublishStill
  <2> QED BY ZenonT(60), <1>0, <1>1, <2>2, <2>3, SnapStill DEF TableInv
<1>2. CASE Idle
  BY ZenonT(60), <1>1, <1>2 DEF Idle
<1>3. CASE \E b \in Backends : Register(b) \/ Unregister(b)
  <2>1. PICK b \in Backends : Register(b) \/ Unregister(b)
    BY ZenonT(60), <1>3
  <2>2. UNCHANGED <<Snap, pub>>
    BY ZenonT(60), <2>1, RegisterFrame
  <2>3. HealthInv' /\ hist'.synced = FALSE
    BY ZenonT(60), <1>0, <2>1, HealthRegister
  <2>4. PublishInv'
    BY ZenonT(60), <1>0, <2>1, <2>3, PublishRegister
  <2> QED BY ZenonT(60), <1>0, <2>2, <2>3, <2>4, SnapStill DEF TableInv
<1>4. CASE \E b \in Backends, ok \in {"ok", "bad"} : ReportProbe(b, ok)
  <2>1. PICK b \in Backends, ok \in {"ok", "bad"} : ReportProbe(b, ok)
    BY ZenonT(60), <1>4
  <2>2. UNCHANGED Snap
    BY ZenonT(60), <2>1, ProbeFrame
  <2>3. HealthInv'
    BY ZenonT(60), <1>0, <2>1, HealthProbe
  <2>4. /\ PublishInv'
        /\ \/ pub' = pub
           \/ pub.pc = "idle" /\ pub' \in [pc : {"spin"}, alive : SUBSET Backends]
    BY ZenonT(60), <1>0, <2>1, PublishProbe
  <2> QED BY ZenonT(60), <1>0, <2>2, <2>3, <2>4, SnapStill DEF TableInv
<1>5. CASE \E r \in Readers : Reading(r)
  <2>1. PICK r \in Readers : Reading(r)
    BY ZenonT(60), <1>5
  <2>2. /\ UNCHANGED <<health, published, buf, active, stored, pub>>
        /\ hist'.runs = hist.runs /\ hist'.synced = hist.synced
    BY ZenonT(60), <2>1, ReadFrame DEF Ctl
  <2>3. HealthInv'
    BY ZenonT(60), <1>0, <2>2, HealthStill
  <2>4. PublishInv'
    BY ZenonT(60), <1>0, <2>2, PublishStill
  <2> QED BY ZenonT(60), <1>0, <2>1, <2>3, <2>4, SnapReading DEF TableInv
<1>6. CASE Publishing
  <2>1. UNCHANGED health /\ hist'.runs = hist.runs /\ hist'.synced = hist.synced
    BY ZenonT(60), <1>6, PublishFrame
  <2>2. HealthInv'
    BY ZenonT(60), <1>0, <2>1, HealthStill
  <2> QED BY ZenonT(60), <1>0, <1>6, <2>2, PublishPublishing, SnapPublishing DEF TableInv
<1>7. CASE \E f \in budget.flows, kind \in budget.kinds : Packet(f, kind)
  BY ZenonT(60), <1>1, <1>7, PacketFrame
<1> QED BY ZenonT(60), SMT, SMTT(30), <1>2, <1>3, <1>4, <1>5, <1>6, <1>7, Steps

(* The filters. *)
LEMMA FilterInitially ==
  ASSUME Init
  PROVE  BucketInv /\ PoliteInv
<1>1. buckets = <<>> /\ wins = <<>>
  BY ZenonT(60) DEF Init
<1>2. /\ hist.passed = [s \in Sources |-> <<>>] /\ hist.owes = [s \in Sources |-> 0]
      /\ hist.rude = {} /\ hist.floods = {}
  BY DEF Init
<1>3. DOMAIN buckets = {} /\ DOMAIN wins = {}
  BY <1>1
<1>4. PoliteInv
  BY ZenonT(60), <1>2, <1>3 DEF PoliteInv
<1>5. IsFiniteSet({}) /\ Cardinality({}) <= MaxBuckets
  BY FS_EmptySet, Constants
<1>6. hist.passed \in [Sources -> Seq(Nat)] /\ \A s \in Sources : hist.passed[s] = <<>> /\ DOMAIN hist.passed[s] = {}
  BY <1>2
<1>7. BucketInv
  BY ZenonT(60), <1>3, <1>5, <1>6 DEF BucketInv, RateIsKept
<1> QED BY ZenonT(60), <1>4, <1>7

LEMMA Sourced ==
  ASSUME Shape, NEW f \in budget.flows, NEW kind \in budget.kinds
  PROVE  Source(f) \in Sources /\ kind \in {"SYN", "ACK", "UDP"}
BY ZenonT(60), BudgetFields DEF Shape, Sources

LEMMA BucketStep ==
  ASSUME Shape, BucketInv, [Next]_vars
  PROVE  BucketInv'
<1>0. Goes
  BY ZenonT(60), ShapeStep
<1>1. ASSUME UNCHANGED Fil PROVE BucketInv'
  <2>1. buckets' = buckets /\ hist'.passed = hist.passed
    BY ZenonT(60), <1>1 DEF Fil
  <2> QED BY ZenonT(60), <1>0, <2>1, BucketStill
<1>2. CASE \E f \in budget.flows, kind \in budget.kinds : Packet(f, kind)
  <2>1. PICK f \in budget.flows, kind \in budget.kinds : Packet(f, kind)
    BY ZenonT(60), <1>2
  <2>2. Source(f) \in Sources
    BY ZenonT(60), Sourced
  <2>3. PICK passes \in BOOLEAN : Limits(Source(f), passes)
    BY ZenonT(60), <2>1, PacketLimits
  <2> QED BY ZenonT(60), <2>2, <2>3, BucketLimits
<1>3. CASE ~\E f \in budget.flows, kind \in budget.kinds : Packet(f, kind)
  <2>1. UNCHANGED Fil
    BY ZenonT(60), <1>3, Steps, RegisterFrame, ProbeFrame, ReadFrame, PublishFrame DEF Idle
  <2> QED BY ZenonT(60), <1>1, <2>1
<1> QED BY ZenonT(60), <1>2, <1>3

LEMMA PoliteStep ==
  ASSUME Threshold >= 2, Ratio >= 2, Shape, PoliteInv, [Next]_vars
  PROVE  PoliteInv'
<1>1. CASE \E f \in budget.flows, kind \in budget.kinds : Packet(f, kind)
  <2>1. PICK f \in budget.flows, kind \in budget.kinds : Packet(f, kind)
    BY ZenonT(60), <1>1
  <2>2. Source(f) \in Sources /\ kind \in {"SYN", "ACK", "UDP"}
    BY ZenonT(60), Sourced
  <2> QED BY ZenonT(60), <2>1, <2>2, PoliteDrop, PolitePass DEF Packet
<1>2. CASE ~\E f \in budget.flows, kind \in budget.kinds : Packet(f, kind)
  <2>1. UNCHANGED Fil
    BY ZenonT(60), <1>2, Steps, RegisterFrame, ProbeFrame, ReadFrame, PublishFrame DEF Idle
  <2> QED BY ZenonT(60), <2>1, PoliteStill
<1> QED BY ZenonT(60), <1>1, <1>2

-----------------------------------------------------------------------------
LEMMA TableInvariant == Spec => [](Shape /\ TableInv /\ BucketInv)
<1>1. Init => Shape /\ TableInv /\ BucketInv
  BY ZenonT(60), InitShape, TableInitially, FilterInitially
<1>2. Shape /\ TableInv /\ BucketInv /\ [Next]_vars => (Shape /\ TableInv /\ BucketInv)'
  BY ZenonT(60), ShapeStep, TableStep, BucketStep
<1> QED BY <1>1, <1>2, PTL DEF Spec

(* publish and snapshot (lut_publish.rs) do not disturb each other, whatever
   the number of readers and publications: a snapshot is of one version and
   labelled with it or with the next, and its count is given back. *)
THEOREM SnapshotsHold == Spec => []SnapshotsAreSafe
<1>1. ASSUME SnapInv PROVE SnapshotsAreSafe
  <2>1. SnapshotIsWhole
    <3> SUFFICES ASSUME ~hist.overtook, NEW r \in Readers, rd[r].pc \in {"label", "hold"}
                 PROVE  buf[rd[r].idx].ver = rd[r].saw
                        /\ buf[rd[r].idx].table = BuildLut(buf[rd[r].idx].backends, perm)
      BY ZenonT(60) DEF SnapshotIsWhole
    <3>1. Whole(rd[r].idx) /\ rd[r].saw = buf[rd[r].idx].ver
      BY ZenonT(60), <1>1 DEF SnapInv, Rcu, Holds
    <3> QED BY ZenonT(60), <3>1 DEF Whole
  <2>2. LabelWithinOne
    BY ZenonT(60), <1>1 DEF LabelWithinOne, SnapInv, Rcu
  <2>3. PublishReturns
    <3> SUFFICES ASSUME \A r \in Readers : rd[r].pc = "out", NEW i \in {0, 1} PROVE readers[i] = 0
      BY ZenonT(60) DEF PublishReturns
    <3>1. At(i) = {}
      BY DEF At, Counted1
    <3>2. readers[i] = Cardinality(At(i))
      BY ZenonT(60), <1>1 DEF SnapInv, Count
    <3>3. Cardinality({}) = 0
      BY ZenonT(60), FS_EmptySet
    <3> QED BY ZenonT(60), <3>1, <3>2, <3>3
  <2> QED BY ZenonT(60), <2>1, <2>2, <2>3 DEF SnapshotsAreSafe
<1>2. Shape /\ TableInv /\ BucketInv => SnapshotsAreSafe
  BY ZenonT(60), <1>1 DEF TableInv
<1> QED BY <1>2, TableInvariant, PTL

(* The control plane (agent.rs, health.rs) follows the probes for every fall
   and rise and every number of backends: a backend is in the state that its
   last results in a row call for, and the active table is that of the live
   ones. *)
THEOREM TableHolds == Spec => []TableFollowsProbes
<1>1. ASSUME Shape, SnapInv, HealthInv, PublishInv, BucketInv PROVE TableFollowsProbes
  <2>1. TypeOK
    <3>1. \A i \in {0, 1} : readers[i] \in 0 .. Cardinality(Readers)
      <4> SUFFICES ASSUME NEW i \in {0, 1} PROVE readers[i] \in 0 .. Cardinality(Readers)
        OBVIOUS
      <4>1. /\ readers[i] = Cardinality(At(i)) /\ Cardinality(At(i)) \in Nat
            /\ Cardinality(At(i)) <= Cardinality(Readers) /\ Cardinality(Readers) \in Nat
        BY ZenonT(60), <1>1, AtFinite DEF SnapInv, Count
      <4> QED BY <4>1
    <3>2. \A s \in DOMAIN buckets : buckets[s].tokens \in 0 .. Burst * Cost
      BY ZenonT(60), <1>1 DEF BucketInv, BucketRec
    <3> QED BY ZenonT(60), <1>1, <3>1, <3>2 DEF TypeOK, Shape, HealthInv, BucketInv, HealthRec
  <2>2. HealthFollows
    BY ZenonT(60), <1>1 DEF HealthFollows, HealthInv, Matches
  <2>3. LutFollowsHealth
    BY ZenonT(60), <1>1 DEF LutFollowsHealth, PublishInv
  <2> QED BY ZenonT(60), <2>1, <2>2, <2>3 DEF TableFollowsProbes
<1>2. Shape /\ TableInv /\ BucketInv => TableFollowsProbes
  BY ZenonT(60), <1>1 DEF TableInv
<1> QED BY <1>2, TableInvariant, PTL

(* The limiter (token_bucket.rs) passes no more than a burst and what the rate
   allows, and the SYN guard (synflood.rs) takes nobody for a flood who waits
   for answers, for every number of sources, table size and window, as long as
   it flags no single SYN: with a threshold or a ratio of one it would. *)
THEOREM FiltersHold ==
  ASSUME Threshold >= 2, Ratio >= 2
  PROVE  Spec => []FiltersAreExact
<1>1. Init => Shape /\ BucketInv /\ PoliteInv
  BY ZenonT(60), InitShape, FilterInitially
<1>2. Shape /\ BucketInv /\ PoliteInv /\ [Next]_vars => (Shape /\ BucketInv /\ PoliteInv)'
  BY ZenonT(60), ShapeStep, BucketStep, PoliteStep
<1>3. BucketInv /\ PoliteInv => FiltersAreExact
  BY ZenonT(60) DEF BucketInv, PoliteInv, FiltersAreExact, PoliteIsNoFlood
<1> QED BY <1>1, <1>2, <1>3, PTL DEF Spec
=============================================================================
