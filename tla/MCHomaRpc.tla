----------------------------- MODULE MCHomaRpc -----------------------------
(* Small instances of HomaRpc for TLC. *)
EXTENDS HomaRpc

CONSTANTS c1, c2, w1, w2

(* One caller that retries and restarts; two callers; a server that is dropped. *)
Lives == [callers |-> {c1}, workers |-> {w1, w2}, kinds |-> {"call", "timed", "only"}, calls |-> 1, lives |-> 2,
          panics |-> TRUE, drops |-> FALSE]
Two == [callers |-> {c1, c2}, workers |-> {w1}, kinds |-> {"call", "timed"}, calls |-> 2, lives |-> 1,
        panics |-> TRUE, drops |-> FALSE]
Drops == [callers |-> {c1}, workers |-> {w1, w2}, kinds |-> {"call"}, calls |-> 1, lives |-> 1,
          panics |-> FALSE, drops |-> TRUE]
MCInstances == {Lives, Two, Drops}
=============================================================================
