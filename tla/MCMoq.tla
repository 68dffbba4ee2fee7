------------------------------- MODULE MCMoq --------------------------------
(* Instances of Moq. *)
EXTENDS Moq

None == [conns |-> {1, 11}, tracks |-> {"a"}, priorities |-> {1}, starts |-> {"latest"}, reuse |-> FALSE, awaited |-> FALSE,
         announces |-> 0, ids |-> <<>>, objects |-> 0, calls |-> 0, unsubscribes |-> 0, fins |-> 0, losses |-> 0,
         shutdowns |-> 0]

(* One subscriber joins while two groups are published, or one by two streams. *)
Joining == [None EXCEPT !.starts = {"latest", "next"}, !.ids = <<0, 1>>, !.objects = 3, !.calls = 1]
Repeating == [None EXCEPT !.ids = <<0, 0>>, !.objects = 3, !.calls = 1]
(* A subscriber too slow for its broadcast and its queue. *)
Slow == [None EXCEPT !.announces = 1, !.awaited = TRUE, !.ids = <<0, 1, 2>>, !.objects = 4, !.calls = 1]
Ranked == [None EXCEPT !.announces = 1, !.awaited = TRUE, !.ids = <<0, 1>>, !.objects = 4, !.calls = 1,
                       !.priorities = {1, 2}]
(* Three groups, whose streams overtake each other. *)
Overtaking == [None EXCEPT !.ids = <<0, 1, 2>>, !.objects = 3, !.calls = 1]
(* Three streams of groups numbered in any way. *)
Numberings == {[None EXCEPT !.conns = {1}, !.ids = ids, !.objects = 4] : ids \in [1 .. 3 -> 0 .. 2]}
(* Two tracks, whose publisher learns their aliases. *)
Aliases == [None EXCEPT !.tracks = {"a", "b"}, !.ids = <<0, 1, 2>>, !.objects = 1, !.calls = 2]
(* Two subscribers, whose handlers bind one track's alias at once. *)
Binding == [None EXCEPT !.conns = {1, 11, 12}, !.ids = <<0, 1>>, !.objects = 1, !.calls = 2]
(* The publisher is lost, and another goes on, or starts again. *)
Rejoining == [None EXCEPT !.conns = {1, 2, 11}, !.ids = <<0, 1>>, !.objects = 1, !.calls = 1, !.losses = 1]
Restarting == [None EXCEPT !.conns = {1, 2}, !.ids = <<0, 0>>, !.objects = 4, !.losses = 1]
(* Control messages, with and without a namespace. *)
Leaving == [None EXCEPT !.announces = 1, !.ids = <<0>>, !.objects = 1, !.calls = 2, !.unsubscribes = 1, !.reuse = TRUE]
Closing == [None EXCEPT !.announces = 1, !.ids = <<0>>, !.objects = 2, !.calls = 1, !.fins = 1, !.losses = 1]
Shutting == [None EXCEPT !.announces = 1, !.ids = <<0>>, !.objects = 1, !.calls = 1, !.shutdowns = 1]

MCBudgets == Numberings \cup {Joining, Repeating, Slow, Ranked, Overtaking, Aliases, Binding, Rejoining, Restarting,
                              Leaving, Closing, Shutting}
GapBudgets == {Overtaking}
MCPubs == {1, 2}
MCSubs == {11, 12}
MCTracks == {"a", "b"}
=============================================================================
