----------------------------- MODULE MCEventLog ------------------------------
(***************************************************************************)
(* EventLog for TLC: a thread with its producers and one viewer.           *)
(***************************************************************************)
EXTENDS EventLog, TLC

\* Producers differ only in their names.
ProducerSymmetry == Permutations(Producers)
==============================================================================
