------------------------------- MODULE MCAIRun -------------------------------
(***************************************************************************)
(* AIRun for TLC.  Two deltas tell "no text yet", "some" and "more than    *)
(* was flushed" apart; two billed rounds tell the usage of an attempt from *)
(* that of another.                                                        *)
(***************************************************************************)
EXTENDS AIRun
==============================================================================
