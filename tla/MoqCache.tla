------------------------------ MODULE MoqCache ------------------------------
(***************************************************************************)
(* The two bounded buffers of moq-live: the group cache of a track         *)
(* (cache.rs) and the drop queue of a subscription (dropq.rs).             *)
(*                                                                         *)
(* An object is [t, g, o, pr, by]: track, group, position in the group,    *)
(* priority, where 0 is the highest, and the stream that brought it.  A    *)
(* cached group is [g, objs].                                              *)
(***************************************************************************)
EXTENDS Integers, Sequences, FiniteSets, SequencesExt, FiniteSetsExt

CONSTANTS
  GroupCapacity,  \* GroupCache.capacity
  QueueCapacity   \* DROP_QUEUE_CAPACITY

ASSUME CacheConstants == {GroupCapacity, QueueCapacity} \subseteq Nat \ {0}

IsGroupHead(obj) == obj.o = 0

-----------------------------------------------------------------------------
(* GroupCache::insert: its three cases, and what its expect rules out. *)
IsLate(groups, obj) == groups # <<>> /\ obj.g < groups[1].g
IsNewer(groups, obj) == groups = <<>> \/ obj.g > Last(groups).g
InGap(groups, obj) ==
  ~IsLate(groups, obj) /\ ~IsNewer(groups, obj) /\ \A i \in DOMAIN groups : groups[i].g # obj.g

(* Mutant: the newest group makes room. *)
Slid_Newest(groups) == IF Len(groups) > GroupCapacity THEN Front(groups) ELSE groups
Slid(groups) == IF Len(groups) > GroupCapacity THEN Tail(groups) ELSE groups

(* Mutant: at the end. *)
InsertedObject_Last(objs, obj) == Append(objs, obj)
(* partition_point and insert: before the first object that is not smaller. *)
InsertedObject(objs, obj) ==
  LET before == Cardinality({i \in DOMAIN objs : objs[i].o < obj.o}) IN InsertAt(objs, before + 1, obj)
Inserted(groups, obj) ==
  IF IsNewer(groups, obj) THEN Slid(Append(groups, [g |-> obj.g, objs |-> <<obj>>]))
  ELSE [i \in DOMAIN groups |->
          IF groups[i].g = obj.g THEN [groups[i] EXCEPT !.objs = InsertedObject(@, obj)] ELSE groups[i]]

SnapshotFromLatestGroup(groups) == IF groups = <<>> THEN <<>> ELSE Last(groups).objs

-----------------------------------------------------------------------------
(* Mutant: a group head can be the victim. *)
Victims_All(queue) == DOMAIN queue

(* PriorityDropQueue::push: the victim is the last of the lowest priority
   that is not a group head. *)
Victims(queue) == {i \in DOMAIN queue : ~IsGroupHead(queue[i])}
Lowest(queue) == Max({queue[i].pr : i \in Victims(queue)})
Victim(queue) == Max({i \in Victims(queue) : queue[i].pr = Lowest(queue)})
Evicts(queue, obj) ==
  Victims(queue) # {} /\ (IsGroupHead(obj) \/ obj.pr < queue[Victim(queue)].pr)
HasRoom(queue) == Len(queue) < QueueCapacity
Pushed(queue, obj) ==
  IF HasRoom(queue) THEN Append(queue, obj)
  ELSE IF Evicts(queue, obj) THEN Append(RemoveAt(queue, Victim(queue)), obj)
  ELSE queue
=============================================================================
