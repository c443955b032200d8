----------------------------- MODULE MCTriggers ------------------------------
(***************************************************************************)
(* Triggers for TLC: one trigger, overlapping ticks and fire workers.      *)
(***************************************************************************)
EXTENDS Triggers, TLC

\* Ticks and workers differ only in their names.
TaskSymmetry == Permutations(Ticks) \cup Permutations(Workers)
==============================================================================
