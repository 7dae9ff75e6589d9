--------------------------- MODULE MCAuthService ---------------------------
(***************************************************************************)
(* Instances of AuthService for TLC.  A request slot is only a place for a *)
(* request to run, so slots are interchangeable.                           *)
(***************************************************************************)
EXTENDS AuthService, TLC

Symmetry == Permutations(Procs)
=============================================================================
