------------------------------ MODULE Triggers ------------------------------
(***************************************************************************)
(* One event trigger (apps/observer/triggers): the evaluator ticks that    *)
(* beat starts every few seconds and that may overlap, the gate of         *)
(* cooldown and re-arming, the claim on last_fired_at, and the fire tasks  *)
(* that run behind a Redis lock and are redelivered when their worker is   *)
(* lost (the Celery default, task_acks_late).                              *)
(*                                                                         *)
(* A stamp of last_fired_at is kept as its age and an id: no two stamps    *)
(* are equal, and the claim compares them for nothing else.                *)
(***************************************************************************)
EXTENDS Naturals, FiniteSets

CONSTANTS
    Ticks,      \* evaluate_triggers tasks that may run at the same time
    Workers,    \* workers that take fire_trigger tasks
    Cooldown,   \* cooldown_seconds, in units of Clock
    LockTTL,    \* FIRE_LOCK_TTL, in units of Clock
    MaxQueue,   \* bound: fire tasks waiting
    MaxFaults   \* bound: lost workers, failed Redis calls and edits

ASSUME TriggerAssumption ==
    /\ IsFiniteSet(Ticks) /\ IsFiniteSet(Workers)
    /\ Cooldown \in Nat /\ LockTTL \in Nat \ {0} /\ MaxQueue \in Nat \ {0} /\ MaxFaults \in Nat

VARIABLES
    \* the EventTrigger row; history: how long ago the last fire was claimed or
    \* recorded, whatever the row says since
    enabled, last_fired, fired_ago,
    \* Redis: trigger:armed:<id>; the remaining life of trigger:fire:<id>
    armed, lock,
    \* the evaluator ticks
    tick,
    \* fire tasks waiting, by whether they launched an AI run before
    queue,
    \* the fire tasks running
    fire,
    \* the edit request in progress, and the stamp of the row it loaded
    edit,
    \* lost workers, failed calls and edits so far
    faults,
    \* history: a lock ran out under its holder or its holder's loss; a fire
    \* task launched a second AI run; an edit put an older stamp back
    lapsed, twice, reverted

trigger == <<enabled, last_fired, fired_ago>>
lost    == <<edit, faults, lapsed, twice, reverted>>
vars    == <<trigger, armed, lock, tick, queue, fire, lost>>

\* Ages saturate at the cooldown: older stamps are all alike to the gate.
Ages == 0 .. Cooldown

\* Each tick and the edit hold at most one stamp; the row has one more.
Ids == 0 .. Cardinality(Ticks) + 2

Stamp == [id : Ids, age : Ages]

\* last_fired_at of a trigger that has never fired.
Never == [id |-> 0, age |-> 0]

\* Mutant: an age without its bound.
OlderUnbounded(s) == IF s = Never THEN s ELSE [s EXCEPT !.age = @ + 1]

Older(s) == IF s = Never \/ s.age = Cooldown THEN s ELSE [s EXCEPT !.age = @ + 1]

NoTick == [pc |-> "idle", seen |-> Never, matched |-> FALSE]

NoFire == [pc |-> "idle", launched |-> FALSE]

NoEdit == [open |-> FALSE, stamp |-> Never]

\* The time now, about to replace the row's stamp: one that nobody else holds.
Now ==
    LET held == {edit.stamp.id} \cup {tick[t].seen.id : t \in Ticks}
    IN  [id |-> CHOOSE i \in Ids \ ({0} \cup held) :
                    \A j \in Ids \ ({0} \cup held) : i <= j,
         age |-> 0]

Init ==
    /\ enabled = TRUE /\ last_fired = Never /\ fired_ago = Cooldown
    /\ armed = FALSE /\ lock = 0
    /\ tick = [t \in Ticks |-> NoTick]
    /\ queue = [b \in BOOLEAN |-> 0]
    /\ fire = [w \in Workers |-> NoFire]
    /\ edit = NoEdit /\ faults = 0
    /\ lapsed = FALSE /\ twice = FALSE /\ reverted = FALSE

-----------------------------------------------------------------------------
(* evaluate_triggers, for this trigger.                                    *)

At(t, pc) == tick[t].pc = pc

Goto(t, pc) == tick' = [tick EXCEPT ![t].pc = pc]

Done(t) == tick' = [tick EXCEPT ![t] = NoTick]

\* The enabled triggers are loaded, with the last_fired_at of that moment; then
\* build_snapshot fetches the market data that decide whether the condition
\* holds.
Load(t) ==
    /\ At(t, "idle") /\ enabled
    /\ \E holds \in BOOLEAN :
         tick' = [tick EXCEPT ![t] = [pc |-> "gate", seen |-> last_fired, matched |-> holds]]
    /\ UNCHANGED <<trigger, armed, lock, queue, fire, lost>>

\* Mutant: a trigger that has never fired needs the flag, too.
BlocksUnarmed(t) == (tick[t].seen # Never /\ tick[t].seen.age < Cooldown) \/ ~armed

\* cooldown_blocks, on the row as it was loaded and the flag as it is now.
Blocks(t) == tick[t].seen # Never /\ (tick[t].seen.age < Cooldown \/ ~armed)

Blocked(t) ==
    /\ At(t, "gate") /\ Blocks(t)
    /\ Done(t)
    /\ UNCHANGED <<trigger, armed, lock, queue, fire, lost>>

Passed(t) ==
    /\ At(t, "gate") /\ ~Blocks(t)
    /\ tick' = [tick EXCEPT ![t] = IF tick[t].matched
                                   THEN [NoTick EXCEPT !.pc = "mark", !.seen = tick[t].seen]
                                   ELSE [NoTick EXCEPT !.pc = "rearm"]]
    /\ UNCHANGED <<trigger, armed, lock, queue, fire, lost>>

\* The evaluator raises: the trigger is disabled.
BadCondition(t) ==
    /\ At(t, "gate") /\ ~Blocks(t) /\ faults < MaxFaults
    /\ enabled' = FALSE
    /\ faults' = faults + 1
    /\ Done(t)
    /\ UNCHANGED <<last_fired, fired_ago, armed, lock, queue, fire, edit, lapsed, twice, reverted>>

MarkRearmed(t) ==
    /\ At(t, "rearm")
    /\ armed' = TRUE
    /\ Done(t)
    /\ UNCHANGED <<trigger, lock, queue, fire, lost>>

MarkFired(t) ==
    /\ At(t, "mark")
    /\ armed' = FALSE
    /\ Goto(t, "claim")
    /\ UNCHANGED <<trigger, lock, queue, fire, lost>>

\* Mutant: the claim does not compare.
ClaimUnguarded(t) ==
    /\ At(t, "claim")
    /\ last_fired' = Now /\ fired_ago' = 0
    /\ tick' = [tick EXCEPT ![t] = [NoTick EXCEPT !.pc = "enqueue"]]
    /\ UNCHANGED <<enabled, armed, lock, queue, fire, lost>>

\* UPDATE ... WHERE last_fired_at = the value loaded.
Claim(t) ==
    /\ At(t, "claim") /\ tick[t].seen.id = last_fired.id
    /\ last_fired' = Now /\ fired_ago' = 0
    /\ tick' = [tick EXCEPT ![t] = [NoTick EXCEPT !.pc = "enqueue"]]
    /\ UNCHANGED <<enabled, armed, lock, queue, fire, lost>>

ClaimLost(t) ==
    /\ At(t, "claim") /\ tick[t].seen.id # last_fired.id
    /\ Done(t)
    /\ UNCHANGED <<trigger, armed, lock, queue, fire, lost>>

Enqueue(t) ==
    /\ At(t, "enqueue")
    /\ queue[FALSE] + queue[TRUE] < MaxQueue
    /\ queue' = [queue EXCEPT ![FALSE] = @ + 1]
    /\ Done(t)
    /\ UNCHANGED <<trigger, armed, lock, fire, lost>>

\* A lost worker or a failed Redis call ends the tick; a later one starts over.
TickFails(t) ==
    /\ ~At(t, "idle") /\ faults < MaxFaults
    /\ faults' = faults + 1
    /\ Done(t)
    /\ UNCHANGED <<trigger, armed, lock, queue, fire, edit, lapsed, twice, reverted>>

-----------------------------------------------------------------------------
(* fire_trigger.                                                           *)

\* The fire endpoint: no gate, and neither stamp nor flag is touched.
FireManually ==
    /\ enabled /\ queue[FALSE] + queue[TRUE] < MaxQueue
    /\ queue' = [queue EXCEPT ![FALSE] = @ + 1]
    /\ UNCHANGED <<trigger, armed, lock, tick, fire, lost>>

Firing(w) == fire[w].pc # "idle"

\* A task is taken from the queue and SET NX succeeds.
Acquire(w, b) ==
    /\ ~Firing(w) /\ queue[b] > 0 /\ lock = 0
    /\ queue' = [queue EXCEPT ![b] = @ - 1]
    /\ lock' = LockTTL
    /\ fire' = [fire EXCEPT ![w] = [pc |-> "locked", launched |-> b]]
    /\ UNCHANGED <<trigger, armed, tick, lost>>

\* Mutant: the early return releases the lock, too.
SkipReleasing(w, b) ==
    /\ ~Firing(w) /\ queue[b] > 0 /\ lock > 0
    /\ queue' = [queue EXCEPT ![b] = @ - 1]
    /\ lock' = 0
    /\ UNCHANGED <<trigger, armed, tick, fire, lost>>

\* The lock is taken: the task returns, and its fire is dropped.
Skip(w, b) ==
    /\ ~Firing(w) /\ queue[b] > 0 /\ lock > 0
    /\ queue' = [queue EXCEPT ![b] = @ - 1]
    /\ UNCHANGED <<trigger, armed, lock, tick, fire, lost>>

\* The TriggerFiring row and the second stamp.
RecordFiring(w) ==
    /\ fire[w].pc = "locked"
    /\ last_fired' = Now /\ fired_ago' = 0
    /\ fire' = [fire EXCEPT ![w].pc = "recorded"]
    /\ UNCHANGED <<enabled, armed, lock, tick, queue, lost>>

\* Snapshot, cost caps, thread and message; then the AI run.
Launch(w) ==
    /\ fire[w].pc = "recorded"
    /\ twice' = (twice \/ fire[w].launched)
    /\ fire' = [fire EXCEPT ![w] = [pc |-> "leaving", launched |-> TRUE]]
    /\ UNCHANGED <<trigger, armed, lock, tick, queue, edit, faults, lapsed, reverted>>

\* The capture failed or a cap is exceeded: the user is notified, no AI run.
NoLaunch(w) ==
    /\ fire[w].pc = "recorded"
    /\ fire' = [fire EXCEPT ![w].pc = "leaving"]
    /\ UNCHANGED <<trigger, armed, lock, tick, queue, lost>>

\* finally: the key is deleted, whoever set it.
Release(w) ==
    /\ fire[w].pc = "leaving"
    /\ lock' = 0
    /\ fire' = [fire EXCEPT ![w] = NoFire]
    /\ UNCHANGED <<trigger, armed, tick, queue, lost>>

\* Mutant: a lost worker's lock is released with it.
WorkerLostReleasing(w) ==
    /\ Firing(w) /\ faults < MaxFaults
    /\ queue' = [queue EXCEPT ![fire[w].launched] = @ + 1]
    /\ fire' = [fire EXCEPT ![w] = NoFire]
    /\ lock' = 0
    /\ faults' = faults + 1
    /\ UNCHANGED <<trigger, armed, tick, edit, lapsed, twice, reverted>>

\* The worker is lost: no finally, and the broker delivers the task again.
WorkerLost(w) ==
    /\ Firing(w) /\ faults < MaxFaults
    /\ queue' = [queue EXCEPT ![fire[w].launched] = @ + 1]
    /\ fire' = [fire EXCEPT ![w] = NoFire]
    /\ faults' = faults + 1
    /\ UNCHANGED <<trigger, armed, lock, tick, edit, lapsed, twice, reverted>>

-----------------------------------------------------------------------------
(* Time and the user.                                                      *)

Clock ==
    /\ last_fired' = Older(last_fired)
    /\ fired_ago' = IF fired_ago < Cooldown THEN fired_ago + 1 ELSE fired_ago
    /\ tick' = [t \in Ticks |-> [tick[t] EXCEPT !.seen = Older(@)]]
    /\ lock' = IF lock > 0 THEN lock - 1 ELSE 0
    /\ lapsed' = (lapsed \/ lock = 1)
    /\ edit' = [edit EXCEPT !.stamp = Older(@)]
    /\ UNCHANGED <<enabled, armed, queue, fire, faults, twice, reverted>>

\* The flag expires after a day.
ArmedExpires ==
    /\ armed
    /\ armed' = FALSE
    /\ UNCHANGED <<trigger, lock, tick, queue, fire, lost>>

\* The thesis behind a guard trigger opens or closes: only enabled is saved.
SyncGuard ==
    /\ enabled' = ~enabled
    /\ UNCHANGED <<last_fired, fired_ago, armed, lock, tick, queue, fire, lost>>

\* A PUT or PATCH loads the row ...
EditLoad ==
    /\ ~edit.open /\ faults < MaxFaults
    /\ edit' = [open |-> TRUE, stamp |-> last_fired]
    /\ faults' = faults + 1
    /\ UNCHANGED <<trigger, armed, lock, tick, queue, fire, lapsed, twice, reverted>>

\* ... and saves all of it, the last_fired_at it loaded included.
EditSave ==
    /\ edit.open
    /\ enabled' \in BOOLEAN
    /\ last_fired' = edit.stamp
    /\ reverted' = (reverted \/ edit.stamp.id # last_fired.id)
    /\ edit' = NoEdit
    /\ UNCHANGED <<fired_ago, armed, lock, tick, queue, fire, faults, lapsed, twice>>

-----------------------------------------------------------------------------
Evaluate(t) ==
    \/ Load(t) \/ Blocked(t) \/ Passed(t) \/ MarkRearmed(t) \/ MarkFired(t)
    \/ Claim(t) \/ ClaimLost(t) \/ Enqueue(t)

Fire(w) ==
    \/ \E b \in BOOLEAN : Acquire(w, b) \/ Skip(w, b)
    \/ RecordFiring(w) \/ Launch(w) \/ NoLaunch(w) \/ Release(w)

Faults ==
    \/ \E t \in Ticks : BadCondition(t) \/ TickFails(t)
    \/ \E w \in Workers : WorkerLost(w)

World == FireManually \/ Clock \/ ArmedExpires \/ SyncGuard \/ EditLoad \/ EditSave

Next == (\E t \in Ticks : Evaluate(t)) \/ (\E w \in Workers : Fire(w)) \/ Faults \/ World

Spec == Init /\ [][Next]_vars

\* Beat keeps starting ticks, every tick and every fire task goes on, and time
\* passes.
FairSpec ==
    /\ Spec
    /\ \A t \in Ticks : WF_vars(Evaluate(t))
    /\ \A w \in Workers : WF_vars(Fire(w))
    /\ WF_vars(Clock)

-----------------------------------------------------------------------------
(* Properties.                                                             *)

\* The variables stay in their ranges.
TypeOK ==
    /\ enabled \in BOOLEAN /\ armed \in BOOLEAN
    /\ last_fired \in Stamp /\ fired_ago \in Ages
    /\ lock \in 0 .. LockTTL
    /\ tick \in [Ticks -> [pc : {"idle", "gate", "rearm", "mark", "claim", "enqueue"},
                           seen : Stamp, matched : BOOLEAN]]
    /\ queue \in [BOOLEAN -> 0 .. MaxQueue + Cardinality(Workers)]
    /\ fire \in [Workers -> [pc : {"idle", "locked", "recorded", "leaving"}, launched : BOOLEAN]]
    /\ edit \in [open : BOOLEAN, stamp : Stamp] /\ faults \in 0 .. MaxFaults
    /\ lapsed \in BOOLEAN /\ twice \in BOOLEAN /\ reverted \in BOOLEAN

\* However ticks overlap, and whatever is fired by hand in between, the
\* evaluator fires only when the last fire is at least a cooldown old: two ticks
\* that saw the same last_fired_at do not both fire.  The exception is a row
\* whose stamp an edit has put back: it no longer knows of its last fire.
CooldownKept ==
    [][\A t \in Ticks : At(t, "claim") /\ tick'[t].pc = "enqueue"
           => fired_ago = Cooldown \/ reverted]_vars

\* Fires of one trigger never run at the same time, as long as no lock lapsed:
\* the lock is held through a lost worker and by nobody's early return given up.
FireExclusive == lapsed \/ Cardinality({w \in Workers : Firing(w)}) <= 1

\* A redelivered fire task does not launch a second AI run, as long as no lock
\* lapsed: the redelivery finds the lost worker's lock and is dropped.
LaunchedOnce == twice => lapsed

\* From some point on, every snapshot says the same about the condition.
Holding(b) == \A t \in Ticks : At(t, "gate") => tick[t].matched = b

\* A trigger that has never fired, stays enabled and whose condition has come
\* true for good is claimed in the end, whatever ticks were lost: the first fire
\* does not wait for the flag that only a false condition sets.
FirstFire == <>[](enabled /\ Holding(TRUE)) => <>(last_fired # Never)

\* What cooldown.py says of mark_rearmed: it is "Called when the condition
\* evaluates False - allows next fire once cooldown elapses".  A trigger whose
\* cooldown is over and whose condition has gone false is armed again.
RearmsOnFalse ==
    <>[](enabled /\ Holding(FALSE) /\ last_fired # Never /\ last_fired.age = Cooldown)
        => []<>armed
=============================================================================
