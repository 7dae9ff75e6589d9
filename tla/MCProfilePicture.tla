-------------------------- MODULE MCProfilePicture --------------------------
(***************************************************************************)
(* Instances of ProfilePicture for TLC.                                    *)
(***************************************************************************)
EXTENDS ProfilePicture, TLC

Symmetry == Permutations(Procs)
=============================================================================
