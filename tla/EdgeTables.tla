----------------------------- MODULE EdgeTables -----------------------------
(***************************************************************************)
(* The tables of the xdp-edge data plane as operators: the connection      *)
(* table (conntrack.rs), a slab of nodes threaded by an intrusive list in  *)
(* order of use; the token buckets (token_bucket.rs); the SYN windows      *)
(* (synflood.rs); and the Maglev lookup table (maglev.rs).                 *)
(*                                                                         *)
(* Time is counted in ticks.  A bucket counts in units: one unit comes     *)
(* back per tick, a packet costs Cost units.  The two hashes of a backend  *)
(* are any offset and any skip; the hash of a flow is its number.          *)
(***************************************************************************)
EXTENDS Naturals, Sequences, FiniteSets, Functions

CONSTANTS
  Capacity,   \* ConnTrack.capacity
  Timeout,    \* ConnTrack.timeout_ns, in ticks
  Burst,      \* RateLimiter.burst, in packets
  Cost,       \* units of a packet: the rate is one packet in Cost ticks
  MaxBuckets, \* RateLimiter.max_entries
  Window,     \* SynFloodGuard.window_ns, in ticks
  Threshold,  \* SynFloodGuard.syn_threshold
  Ratio,      \* SynFloodGuard.ack_ratio
  M           \* the size of the lookup table

ASSUME TableConstants ==
  /\ {Capacity, Burst, Cost} \subseteq Nat \ {0}
  /\ {Timeout, MaxBuckets, Window, Threshold, Ratio} \subseteq Nat
  /\ M \in Nat /\ M >= 2 /\ \A d \in 2 .. M - 1 : M % d # 0   \* is_prime

Without(f, x) == [y \in DOMAIN f \ {x} |-> f[y]]
With(f, x, v) == [y \in DOMAIN f \cup {x} |-> IF y = x THEN v ELSE f[y]]
Sub(a, b) == IF a > b THEN a - b ELSE 0   \* saturating_sub
Last(s) == s[Len(s)]
Front(s) == SubSeq(s, 1, Len(s) - 1)
Arranged(S) == Bijection(1 .. Cardinality(S), S)   \* the elements of S in any order

-----------------------------------------------------------------------------
(* conntrack.rs.  Nodes are numbered from 1; 0 is NIL. *)
NIL == 0
NoConns == [map |-> <<>>, nodes |-> <<>>, free |-> <<>>, head |-> NIL, tail |-> NIL, evictions |-> 0]

PushHead(t, i) ==
  LET linked == [t.nodes EXCEPT ![i].prev = NIL, ![i].next = t.head]
  IN  [t EXCEPT !.nodes = IF t.head = NIL THEN linked ELSE [linked EXCEPT ![t.head].prev = i],
                !.head = i,
                !.tail = IF @ = NIL THEN i ELSE @]

(* Mutant: the tail is not moved. *)
Unlink_KeepsTail(t, i) ==
  LET p == t.nodes[i].prev
      n == t.nodes[i].next
      a == IF p = NIL THEN t.nodes ELSE [t.nodes EXCEPT ![p].next = n]
  IN  [t EXCEPT !.nodes = IF n = NIL THEN a ELSE [a EXCEPT ![n].prev = p],
                !.head = IF p = NIL THEN n ELSE @]

Unlink(t, i) ==
  LET p == t.nodes[i].prev
      n == t.nodes[i].next
      a == IF p = NIL THEN t.nodes ELSE [t.nodes EXCEPT ![p].next = n]
  IN  [t EXCEPT !.nodes = IF n = NIL THEN a ELSE [a EXCEPT ![n].prev = p],
                !.head = IF p = NIL THEN n ELSE @,
                !.tail = IF n = NIL THEN p ELSE @]

MoveToHead(t, i) == IF t.head = i THEN t ELSE PushHead(Unlink(t, i), i)

RemoveNode(t, i) ==
  [Unlink(t, i) EXCEPT !.map = Without(t.map, t.nodes[i].key), !.free = Append(t.free, i)]

(* alloc_node takes the node freed last, or a new one. *)
AllocNode(t, key, backend, now) ==
  LET node == [key |-> key, backend |-> backend, seen |-> now, prev |-> NIL, next |-> NIL]
  IN  IF t.free # <<>>
      THEN [t EXCEPT !.nodes[Last(t.free)] = node, !.free = Front(@)]
      ELSE [t EXCEPT !.nodes = Append(@, node)]
Allocated(t) == IF t.free # <<>> THEN Last(t.free) ELSE Len(t.nodes) + 1

Insert(t, key, backend, now) ==
  IF key \in DOMAIN t.map
  THEN LET i == t.map[key]
       IN  MoveToHead([t EXCEPT !.nodes[i].backend = backend, !.nodes[i].seen = now], i)
  ELSE LET room == IF Cardinality(DOMAIN t.map) >= Capacity
                   THEN [RemoveNode(t, t.tail) EXCEPT !.evictions = @ + 1] ELSE t
           i == Allocated(room)
           u == PushHead(AllocNode(room, key, backend, now), i)
       IN  [u EXCEPT !.map = With(@, key, i)]

Expired(t, i, now) == Sub(now, t.nodes[i].seen) > Timeout
IsHit(t, key, now) == key \in DOMAIN t.map /\ ~Expired(t, t.map[key], now)

(* lookup: the table afterwards; a hit is refreshed, what expired is removed. *)
Lookup(t, key, now) ==
  IF key \notin DOMAIN t.map THEN t
  ELSE LET i == t.map[key]
       IN  IF Expired(t, i, now) THEN RemoveNode(t, i)
           ELSE MoveToHead([t EXCEPT !.nodes[i].seen = now], i)

(* sweep_expired removes the expired nodes in the order of the hash map, which
   is any order. *)
Victims(t, now) == {i \in Range(t.map) : Expired(t, i, now)}
SweepExpired(t, order) ==
  LET after[k \in 0 .. Len(order)] == IF k = 0 THEN t ELSE RemoveNode(after[k - 1], order[k])
  IN  after[Len(order)]

-----------------------------------------------------------------------------
(* token_bucket.rs. *)

(* Mutant: the time of the refill is not kept. *)
Refill_KeepsTime(b, now) ==
  LET sum == b.tokens + Sub(now, b.last)
  IN  [b EXCEPT !.tokens = IF sum > Burst * Cost THEN Burst * Cost ELSE sum]

Refill(b, now) ==
  IF now > b.last
  THEN [tokens |-> LET sum == b.tokens + (now - b.last)
                   IN  IF sum > Burst * Cost THEN Burst * Cost ELSE sum,
        last |-> now]
  ELSE b
NewBucket == [tokens |-> Burst * Cost, last |-> 0]

(* RateLimiter::allow: the bucket it uses, whether it allows, and what is left.
   With the map full a new source passes and is not recorded. *)
Overflows(bs, src) == src \notin DOMAIN bs /\ Cardinality(DOMAIN bs) >= MaxBuckets
BucketOf(bs, src, now) == Refill(IF src \in DOMAIN bs THEN bs[src] ELSE NewBucket, now)
Allows(bs, src, now) == Overflows(bs, src) \/ BucketOf(bs, src, now).tokens >= Cost
Limited(bs, src, now) ==
  LET b == BucketOf(bs, src, now)
  IN  IF Overflows(bs, src) THEN bs
      ELSE With(bs, src, IF b.tokens >= Cost THEN [b EXCEPT !.tokens = @ - Cost] ELSE b)

-----------------------------------------------------------------------------
(* synflood.rs. *)

(* observe: a window that has passed is cleared, then the packet is counted. *)
Observe(ws, src, kind, now) ==
  LET w == IF src \notin DOMAIN ws \/ Sub(now, ws[src].start) >= Window
           THEN [syn |-> 0, ack |-> 0, start |-> now] ELSE ws[src]
  IN  With(ws, src, IF kind = "SYN" THEN [w EXCEPT !.syn = @ + 1]
                    ELSE IF kind = "ACK" THEN [w EXCEPT !.ack = @ + 1] ELSE w)
Flagged(w) == w.syn >= Threshold /\ w.syn > w.ack * Ratio

-----------------------------------------------------------------------------
(* maglev.rs.  perm gives each backend its offset and skip. *)
Slots == 0 .. M - 1
Empty == 0

(* Mutant: the permutation starts at the first slot for every backend and is
   not followed past a filled one. *)
BuildLut_FirstFit(bs, perm) ==
  LET fill[k \in 0 .. M] ==
        IF k = 0 THEN [s \in Slots |-> Empty]
        ELSE LET i == ((k - 1) % Len(bs)) + 1
             IN  [fill[k - 1] EXCEPT ![(perm[bs[i]].offset + ((k - 1) \div Len(bs)) * perm[bs[i]].skip) % M] = i]
  IN  fill[M]

(* build_lut: in turn each backend takes the first empty slot of its own
   permutation of the table, until the table is full. *)
BuildLut(bs, perm) ==
  LET fill[k \in 0 .. M] ==
        IF k = 0 THEN [s \in Slots |-> Empty]
        ELSE LET t == fill[k - 1]
                 i == ((k - 1) % Len(bs)) + 1
                 At(j) == (perm[bs[i]].offset + j * perm[bs[i]].skip) % M
                 j == CHOOSE x \in Slots : t[At(x)] = Empty /\ \A y \in 0 .. x - 1 : t[At(y)] # Empty
             IN  [t EXCEPT ![At(j)] = i]
  IN  fill[M]

(* Maglev::lookup. *)
Backend(lut, flow) == lut.backends[lut.table[flow % M]]
=============================================================================
