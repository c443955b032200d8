------------------------------- MODULE CostCaps -------------------------------
(***************************************************************************)
(* The cost caps of one provider (apps/ai/cost.py) and the runs they are   *)
(* to hold back. A run checks the spend recorded so far, calls the         *)
(* provider, and records the cost of each call when it is over; several    *)
(* run at once, and a call whose worker is killed is never recorded. A     *)
(* fire of a batch schedule checks too, but submits its calls and is gone: *)
(* the poll of the batch records them, on whatever day, and again if it is *)
(* repeated. The daily cap counts the UTC day, the monthly one the last    *)
(* Window days.                                                            *)
(*                                                                         *)
(* Costs are in units a ledger row has 0 .. MaxCost of.                    *)
(***************************************************************************)
EXTENDS Naturals, FiniteSets

CONSTANTS
    Slots,        \* workers and requests that make AI calls
    MaxRows,      \* ledger rows one check may lead to: an evaluation checks once for all
    MaxCost,      \* what one row costs at most
    DailyCap,     \* daily_cost_cap_usd
    MonthlyCap,   \* monthly_cost_cap_usd, or NoCap
    NoCap,        \* None: the monthly cap is opt-in
    Window,       \* days the monthly cap looks back on
    LastDay,      \* bound: days
    MaxSubmitted, \* bound: batches submitted and not done with
    MaxPolled     \* bound: batch results recorded

ASSUME CostCapsAssumption ==
    /\ IsFiniteSet(Slots)
    /\ MaxRows \in Nat /\ MaxSubmitted \in Nat /\ MaxPolled \in Nat
    /\ MaxCost \in Nat /\ DailyCap \in Nat /\ MonthlyCap \in Nat \cup {NoCap}
    /\ Window \in Nat \ {0} /\ LastDay \in Nat \ {0}

VARIABLES
    today,
    spend,        \* sum of AIRun.cost_usd by day
    running,      \* <<slot, n>>: the n-th row the run in that slot may still write
    submitted,    \* batches whose results a poll may still record
    polled,       \* batch results recorded
    late          \* history: cost of those since a run was last let in, of today and in all

costCapsVars == <<today, spend, running, submitted, polled, late>>

SpendDay  == 1 .. LastDay
RowsOf(s) == {s} \X (1 .. MaxRows)
AllRows   == Slots \X (1 .. MaxRows)

CostCapsInit ==
    /\ today = 1 /\ spend = [d \in SpendDay |-> 0]
    /\ running = {} /\ submitted = 0 /\ polled = 0
    /\ late = [day |-> 0, month |-> 0]

\* daily_spend_usd
DailySpend == spend[today]

\* monthly_spend_usd: the days from first on, up to today.
spendFrom[first \in 1 .. LastDay + 1] ==
    IF first > today THEN 0 ELSE spend[first] + spendFrom[first + 1]

WindowStart == IF today < Window THEN 1 ELSE today - Window + 1

MonthlySpend == spendFrom[WindowStart]

\* Mutant: the monthly cap alone is checked.
WithinMonthly(estimate) ==
    MonthlyCap = NoCap \/ MonthlySpend + estimate <= MonthlyCap

\* Mutant: an unset monthly cap is all there is to check.
WithinDaily(estimate) == DailySpend + estimate <= DailyCap

\* check_daily_cap and check_monthly_cap: nothing is reserved.
WithinCaps(estimate) ==
    /\ DailySpend + estimate <= DailyCap
    /\ MonthlyCap = NoCap \/ MonthlySpend + estimate <= MonthlyCap

\* The callers pass no prospective cost; the check has room for one.
StartCapped(s, estimate) ==
    /\ RowsOf(s) \cap running = {} /\ WithinCaps(estimate)
    /\ running' = running \cup RowsOf(s)
    /\ late' = [day |-> 0, month |-> 0]
    /\ UNCHANGED <<today, spend, submitted, polled>>

\* record_ai_run: the row is of the day the call ended on.
RecordRun(s, n, cost) ==
    /\ <<s, n>> \in running /\ \A m \in 1 .. n - 1 : <<s, m>> \notin running
    /\ spend' = [spend EXCEPT ![today] = @ + cost]
    /\ running' = running \ {<<s, n>>}
    /\ UNCHANGED <<today, submitted, polled, late>>

\* Rows up to the n-th are not written: the ledger write failed, or the worker was
\* killed (charged, not recorded), or there was nothing more to call.
RunUnrecorded(s, n) ==
    /\ <<s, n>> \in running
    /\ running' = running \ ({s} \X (1 .. n))
    /\ UNCHANGED <<today, spend, submitted, polled, late>>

\* The fire of a batch schedule hands its calls over, and is through.
SubmitBatch(s) ==
    /\ RowsOf(s) \subseteq running /\ RowsOf(s) # {} /\ submitted < MaxSubmitted
    /\ running' = running \ RowsOf(s)
    /\ submitted' = submitted + 1
    /\ UNCHANGED <<today, spend, polled, late>>

\* poll_batch: one result. No cap is asked, and the poll may have been here before.
RecordResult(cost) ==
    /\ submitted > 0 /\ polled < MaxPolled
    /\ spend' = [spend EXCEPT ![today] = @ + cost]
    /\ polled' = polled + 1
    /\ late' = [day |-> late.day + cost, month |-> late.month + cost]
    /\ UNCHANGED <<today, running, submitted>>

\* No row names the batch and no poll has it in hand any more.
BatchDone ==
    /\ submitted > 0 /\ submitted' = submitted - 1
    /\ UNCHANGED <<today, spend, running, polled, late>>

Midnight ==
    /\ today < LastDay /\ today' = today + 1
    /\ late' = [late EXCEPT !.day = 0]
    /\ UNCHANGED <<spend, running, submitted, polled>>

CostCapsNext ==
    \/ \E s \in Slots :
        \/ StartCapped(s, 0)
        \/ \E n \in 1 .. MaxRows :
            (\E cost \in 0 .. MaxCost : RecordRun(s, n, cost)) \/ RunUnrecorded(s, n)
        \/ SubmitBatch(s)
    \/ \E cost \in 0 .. MaxCost : RecordResult(cost)
    \/ BatchDone \/ Midnight

CostCapsSpec == CostCapsInit /\ [][CostCapsNext]_costCapsVars

-----------------------------------------------------------------------------
(* Properties                                                              *)

CostCapsTypeOK ==
    /\ today \in SpendDay /\ spend \in [SpendDay -> Nat]
    /\ running \subseteq AllRows /\ submitted \in 0 .. MaxSubmitted /\ polled \in 0 .. MaxPolled
    /\ late \in [day : Nat, month : Nat]

\* What the check is worth when runs overlap, however the runs of the day, and those
\* begun the day before, end: the day's ledger passes the cap by the rows of one run of
\* each slot at most, and by the batch results that were recorded since the cap last
\* let a run in. Those recorded before that run count against the cap ("so batch spend
\* counts against check_daily_cap / check_monthly_cap").
DailyOvershoot ==
    DailySpend <= DailyCap + MaxCost * Cardinality(AllRows) + late.day

\* The same of the rolling month.
MonthlyOvershoot ==
    MonthlyCap # NoCap =>
        MonthlySpend <= MonthlyCap + MaxCost * Cardinality(AllRows) + late.month
==============================================================================
