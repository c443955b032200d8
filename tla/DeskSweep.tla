------------------------------- MODULE DeskSweep ------------------------------
(***************************************************************************)
(* The anomaly sweep (apps/strategy/desk/services/): detected anomalies    *)
(* are investigated one after the other, each with a paid AI run in a      *)
(* thread of its own, and recorded as desk entries. TOP_K bounds a sweep,  *)
(* DAILY_ORIGINATION_CAP a day, and an anomaly rests for COOLDOWN_HOURS.   *)
(* Sweeps are Celery tasks with no lock: the beat's and the user's run at  *)
(* once, and the sweep of a lost worker is delivered again.                *)
(***************************************************************************)
EXTENDS Naturals, FiniteSets

CONSTANTS
    Sweepers,          \* worker slots that run sweeps
    Anomalies,         \* (anomaly_type, ticker) pairs
    NoAnomaly,         \* no anomaly
    TopK,              \* TOP_K
    OriginationCap,    \* DAILY_ORIGINATION_CAP
    CooldownTime,      \* COOLDOWN_HOURS, in units of SweepClock
    DayTime,           \* a day, in the same units
    LastTime,          \* bound: the clock
    MaxWaiting,        \* bound: sweeps in the queue
    MaxSweepLosses     \* bound: workers lost

ASSUME DeskSweepAssumption ==
    /\ IsFiniteSet(Sweepers) /\ Sweepers # {} /\ NoAnomaly \notin Anomalies
    /\ TopK \in Nat /\ OriginationCap \in Nat /\ CooldownTime \in Nat
    /\ DayTime \in Nat \ {0} /\ LastTime \in Nat /\ MaxWaiting \in Nat /\ MaxSweepLosses \in Nat

VARIABLES
    hour,              \* the time
    waiting,           \* sweep tasks in the queue
    originated, latest, \* DeskEntry rows: how many by day, and the time after the last of
                       \* an anomaly, or 0
    sweeps,            \* what each slot does
    sweepLosses

deskSweepVars == <<hour, waiting, originated, latest, sweeps, sweepLosses>>

DayOf(h) == h \div DayTime

Days == 0 .. DayOf(LastTime)

\* already: the entries of the day when the sweep began; looking: what it investigates.
NoSweep == [pc |-> "idle", candidates |-> {}, already |-> 0, created |-> 0, looking |-> NoAnomaly]

DeskSweepInit ==
    /\ hour = 0 /\ waiting = 0 /\ sweepLosses = 0
    /\ originated = [d \in Days |-> 0] /\ latest = [a \in Anomalies |-> 0]
    /\ sweeps = [s \in Sweepers |-> NoSweep]

\* in_cooldown.
InCooldown(a) == latest[a] # 0 /\ hour + 1 < latest[a] + CooldownTime

\* Mutant: what this sweep has added does not count.
CapSpentBefore(s) == sweeps[s].already >= OriginationCap

\* The cap is checked against the count read when the sweep began and this sweep's own.
CapSpent(s) == sweeps[s].already + sweeps[s].created >= OriginationCap

-----------------------------------------------------------------------------

\* The beat's sweep when it is enabled, or a click on the desk page.
RequestSweep ==
    /\ waiting < MaxWaiting /\ waiting' = waiting + 1
    /\ UNCHANGED <<hour, originated, latest, sweeps, sweepLosses>>

\* run_sweep: what the detectors find is ranked, and the day's entries are counted.
StartSweep(s) ==
    /\ sweeps[s].pc = "idle" /\ waiting > 0
    /\ waiting' = waiting - 1
    /\ \E found \in SUBSET Anomalies :
        sweeps' = [sweeps EXCEPT ![s] = [NoSweep EXCEPT !.pc = "choose", !.candidates = found,
                                                        !.already = originated[DayOf(hour)]]]
    /\ UNCHANGED <<hour, originated, latest, sweepLosses>>

\* A candidate beyond the cap or the top ones, or that rests. Any order may be
\* that of the severities.
PassOver(s, a) ==
    /\ sweeps[s].pc = "choose" /\ a \in sweeps[s].candidates
    /\ CapSpent(s) \/ sweeps[s].created >= TopK \/ InCooldown(a)
    /\ sweeps' = [sweeps EXCEPT ![s].candidates = @ \ {a}]
    /\ UNCHANGED <<hour, waiting, originated, latest, sweepLosses>>

\* investigate: a thread, a question, and the AI run, which is waited for.
Investigate(s, a) ==
    /\ sweeps[s].pc = "choose" /\ a \in sweeps[s].candidates
    /\ ~CapSpent(s) /\ sweeps[s].created < TopK /\ ~InCooldown(a)
    /\ sweeps' = [sweeps EXCEPT ![s].pc = "investigate", ![s].candidates = @ \ {a}, ![s].looking = a]
    /\ UNCHANGED <<hour, waiting, originated, latest, sweepLosses>>

\* A finding becomes an entry.
Originate(s) ==
    /\ sweeps[s].pc = "investigate"
    /\ originated' = [originated EXCEPT ![DayOf(hour)] = @ + 1]
    /\ latest' = [latest EXCEPT ![sweeps[s].looking] = hour + 1]
    /\ sweeps' = [sweeps EXCEPT ![s].pc = "choose", ![s].created = @ + 1, ![s].looking = NoAnomaly]
    /\ UNCHANGED <<hour, waiting, sweepLosses>>

\* No finding, whatever the run cost.
FindNothing(s) ==
    /\ sweeps[s].pc = "investigate"
    /\ sweeps' = [sweeps EXCEPT ![s].pc = "choose", ![s].looking = NoAnomaly]
    /\ UNCHANGED <<hour, waiting, originated, latest, sweepLosses>>

EndSweep(s) ==
    /\ sweeps[s].pc = "choose" /\ sweeps[s].candidates = {}
    /\ sweeps' = [sweeps EXCEPT ![s] = NoSweep]
    /\ UNCHANGED <<hour, waiting, originated, latest, sweepLosses>>

\* The task was not acknowledged and is delivered again.
LoseSweeper(s) ==
    /\ sweeps[s].pc # "idle" /\ sweepLosses < MaxSweepLosses
    /\ sweepLosses' = sweepLosses + 1
    /\ sweeps' = [sweeps EXCEPT ![s] = NoSweep]
    /\ waiting' = waiting + 1
    /\ UNCHANGED <<hour, originated, latest>>

SweepClock ==
    /\ hour < LastTime /\ hour' = hour + 1
    /\ UNCHANGED <<waiting, originated, latest, sweeps, sweepLosses>>

DeskSweepNext ==
    \/ RequestSweep
    \/ \E s \in Sweepers :
        \/ StartSweep(s)
        \/ \E a \in Anomalies : PassOver(s, a) \/ Investigate(s, a)
        \/ Originate(s) \/ FindNothing(s) \/ EndSweep(s) \/ LoseSweeper(s)
    \/ SweepClock

DeskSweepSpec == DeskSweepInit /\ [][DeskSweepNext]_deskSweepVars

-----------------------------------------------------------------------------
(* Properties                                                              *)

DeskSweepTypeOK ==
    /\ hour \in 0 .. LastTime /\ waiting \in Nat /\ originated \in [Days -> Nat] /\ sweepLosses \in 0 .. MaxSweepLosses
    /\ \A s \in Sweepers :
        /\ sweeps[s].pc \in {"idle", "choose", "investigate"}
        /\ sweeps[s].candidates \subseteq Anomalies
        /\ (sweeps[s].looking # NoAnomaly) <=> (sweeps[s].pc = "investigate")

\* What the daily cap is worth when sweeps overlap, begin before midnight or are
\* delivered again: each slot but one may add a sweep's worth to the cap.
OriginationOvershoot ==
    \A d \in Days : originated[d] <= OriginationCap + (Cardinality(Sweepers) - 1) * TopK

==============================================================================
