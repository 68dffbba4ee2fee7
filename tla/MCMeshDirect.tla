---------------------------- MODULE MCMeshDirect ----------------------------
EXTENDS MeshDirect

(* Two connect_peer calls whose connections meet, close and are cut. *)
Meeting == [attempts |-> 1, replies |-> 0, connects |-> 2, conns |-> 2, fails |-> TRUE, sends |-> 0]
(* Messages on the connections of one connect_peer, which may be cut. *)
Talking == [attempts |-> 1, replies |-> 0, connects |-> 1, conns |-> 2, fails |-> TRUE, sends |-> 2]
(* Punching alone: retries, replies and a second connect_peer. *)
Punching == [attempts |-> 2, replies |-> 2, connects |-> 2, conns |-> 0, fails |-> FALSE, sends |-> 0]

MCInstances == {Meeting, Talking, Punching}
=============================================================================
