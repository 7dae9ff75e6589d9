---------------------------- MODULE MCRevocation ----------------------------
(***************************************************************************)
(* Instances of Revocation for TLC: two API instances, one with the slowest*)
(* clock and one MaxOffset ahead of it.                                    *)
(***************************************************************************)
EXTENDS Revocation, TLC

CONSTANTS slow, fast
ClockOffsets == (slow :> 0) @@ (fast :> MaxOffset)

Symmetry == Permutations(Calls) \cup Permutations(Sids)
=============================================================================
