------------------------------- MODULE MCEdge -------------------------------
(* Instances of Edge: each is a budget of its inputs. *)
EXTENDS Edge

MCFlows == {<<1, 0>>, <<1, 1>>, <<2, 2>>, <<2, 3>>}

Nothing == [ticks |-> 0, time |-> 0, registers |-> 0, snapshots |-> 0, rebuilds |-> 1, packets |-> 0,
            hashes |-> FALSE, delays |-> FALSE, backends |-> {1, 2}, flows |-> {}, pools |-> {}, kinds |-> {}, fall |-> 2, rise |-> 1]

(* Probe results in every order, and backends that come and go. *)
Probing == [Nothing EXCEPT !.ticks = 3, !.time = 3, !.registers = 1]
(* Readers during a series of publications. *)
Publishing == [Nothing EXCEPT !.ticks = 2, !.time = 1, !.snapshots = 2, !.fall = 1, !.delays = TRUE]
(* Connections of two sources, as many as the table holds, and the sweeper. *)
Connections == [Nothing EXCEPT !.ticks = 1, !.time = 3, !.packets = 5, !.backends = {1}, !.pools = {{2}},
                               !.flows = MCFlows \ {<<2, 3>>}, !.kinds = {"UDP"}]
(* More connections than that. *)
Crowding == [Connections EXCEPT !.ticks = 0, !.time = 2, !.flows = MCFlows]
(* SYNs and ACKs of one source, about the limits. *)
Handshakes == [Nothing EXCEPT !.time = 3, !.packets = 6, !.flows = {<<1, 0>>, <<2, 2>>}, !.kinds = {"SYN", "ACK"}]
(* Every permutation of the lookup table, for every set of backends; new
   connections take the table in use. *)
Hashing == [Nothing EXCEPT !.hashes = TRUE, !.backends = Backends, !.pools = SUBSET Backends \ {{}}]

MCBudgets == {Probing, Publishing, Connections, Crowding, Handshakes, Hashing}
=============================================================================
