--------------------------- MODULE MCRegistration ---------------------------
(***************************************************************************)
(* Instances of Registration for TLC; request slots are interchangeable.   *)
(***************************************************************************)
EXTENDS Registration, TLC

Symmetry == Permutations(Procs)
=============================================================================
