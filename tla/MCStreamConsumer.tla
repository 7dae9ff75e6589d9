------------------------- MODULE MCStreamConsumer -------------------------
(* TLC instances of StreamConsumer. *)
EXTENDS StreamConsumer, TLC

SlotSymmetry == Permutations(Slots)
=============================================================================
