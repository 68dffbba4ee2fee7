---------------------------- MODULE HomaDelivery ----------------------------
(***************************************************************************)
(* What the message transport of crates/homa-rpc promises to the layer     *)
(* above (Transport::send_to and Transport::recv, transport/mod.rs): a     *)
(* message that was sent is received whole and once, or never.  HomaRpc is *)
(* built on this promise.                                                  *)
(***************************************************************************)
CONSTANT Msgs
VARIABLES
  sent,      \* the messages some thread has called send_to for
  received   \* what recv has returned of each: "nothing" or "whole"

Init ==
  /\ sent = {}
  /\ received = [m \in Msgs |-> "nothing"]

SendTo(m) ==
  /\ m \notin sent
  /\ sent' = sent \cup {m}
  /\ UNCHANGED received

Recv(m) ==
  /\ m \in sent
  /\ received[m] = "nothing"
  /\ received' = [received EXCEPT ![m] = "whole"]
  /\ UNCHANGED sent

Next == \E m \in Msgs : SendTo(m) \/ Recv(m)

Spec == Init /\ [][Next]_<<sent, received>>
=============================================================================
