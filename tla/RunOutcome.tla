----------------------------- MODULE RunOutcome -----------------------------
(***************************************************************************)
(* What the thread page and the spending report are promised about one AI  *)
(* answer: the assistant message goes from streaming to exactly one        *)
(* verdict, and the ledger (the AIRun table) agrees with it.  A message    *)
(* becomes "done" in the same step in which its "done" ledger row appears; *)
(* a failed message gets at most one ledger row, and never a "done" one.   *)
(* AIRun implements this specification.                                    *)
(***************************************************************************)

VARIABLES
    outcome,   \* the verdict the message row shows
    bill       \* what the ledger says about the run

vars == <<outcome, bill>>

Init == outcome = "absent" /\ bill = "none"

Begin == /\ outcome = "absent"
         /\ outcome' = "streaming"
         /\ UNCHANGED bill

Reject == /\ outcome = "absent"
          /\ outcome' = "failed"
          /\ UNCHANGED bill

\* The answer is complete: verdict and ledger row in one step.
Complete == /\ outcome = "streaming"
            /\ outcome' = "done"
            /\ bill' = "done"

\* The user, an error or a time limit ended it; the ledger row comes with the
\* verdict or later.
Abort == /\ outcome = "streaming"
         /\ outcome' = "failed"
         /\ bill' \in {"none", "failed"}

RecordFailure == /\ outcome = "failed"
                 /\ bill = "none"
                 /\ bill' = "failed"
                 /\ UNCHANGED outcome

Next == Begin \/ Reject \/ Complete \/ Abort \/ RecordFailure

Spec == Init /\ [][Next]_vars
=============================================================================
