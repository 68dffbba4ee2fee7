---------------------------- MODULE MCMeshRelay ----------------------------
(* Instances of MeshRelay: each is a budget of what the agents may do. *)
EXTENDS MeshRelay

Nothing == [sends |-> 0, dials |-> 2, punches |-> 0, queries |-> 0, kills |-> 0, recvs |-> 0, evCap |-> 1]

(* A node may end and come back while a message is under way. *)
Reconnect == [Nothing EXCEPT !.dials = 3, !.kills = 1, !.sends = 1]
(* Both nodes send and listen, with room for one event. *)
Agents == [Nothing EXCEPT !.sends = 3, !.recvs = 1]
(* The control frames of the relay. *)
Control == [Nothing EXCEPT !.punches = 1, !.queries = 1, !.recvs = 1]
(* One node sends more to an absent one than all the queues hold. *)
Flood == [Nothing EXCEPT !.dials = 1, !.sends = 7, !.evCap = 7]

MCBudgets == {Reconnect, Agents, Control, Flood}
Symmetry == Permutations(Nodes)
=============================================================================
