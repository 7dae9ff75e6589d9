-------------------------- MODULE MCClientSession --------------------------
(***************************************************************************)
(* Instances of ClientSession for TLC.                                     *)
(***************************************************************************)
EXTENDS ClientSession

TwoSessions == 1..2

\* Four for each session: its current token, the jar's and one for each of two tabs.
EightSecrets == 1..8
FourEach(s) == 4 * s - 3 .. 4 * s
=============================================================================
