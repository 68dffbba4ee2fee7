-------------------------- MODULE MCHomaTransport --------------------------
(* Small instances of HomaTransport for TLC. *)
EXTENDS HomaTransport, TLC

CONSTANTS m1, m2

MCRivals == (m1 :> 3) @@ (m2 :> 3)
RivalSymmetry == Permutations(Msgs)
MCLiveTwo == (m1 :> 2) @@ (m2 :> 1)
MCLongLen  == (m1 :> 8)
=============================================================================
