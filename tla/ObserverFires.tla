---------------------------- MODULE ObserverFires ----------------------------
(***************************************************************************)
(* How one observer schedule fires (apps/observer): the every-minute beat  *)
(* tick of relative_to_close schedules with its once-per-day guard, the    *)
(* cron and fire-now tasks, and the Redis lock that keeps two fires of the *)
(* schedule apart. The lock has no owner and lives FIRE_LOCK_TTL, half the *)
(* time a task may run. The fire tasks are acknowledged early: a fire      *)
(* whose worker is killed is lost, and its lock stays.                     *)
(***************************************************************************)
EXTENDS Naturals

CONSTANTS
    Ticks,        \* workers on observer.fire_close_relative_schedules
    Firers,       \* workers on observer.run_observer
    FireTTL,      \* FIRE_LOCK_TTL, in units of FiresClock
    MaxDays,      \* bound: days
    MaxFires,     \* bound: fire tasks enqueued
    MaxLosses     \* bound: workers killed and Redis errors

ASSUME ObserverFiresAssumption ==
    /\ FireTTL \in Nat \ {0} /\ MaxDays \in Nat \ {0} /\ MaxFires \in Nat /\ MaxLosses \in Nat
    /\ Ticks \cap Firers = {}

VARIABLES
    day, closing, \* today, and whether the close-relative minute is now
    last_fired_at,\* the day the row was stamped; 0 for never
    tick,         \* where each tick is
    fireTasks,    \* fire tasks in the queue
    firer,        \* where each fire task is
    fireLock,     \* remaining life of the lock; 0 when it is not there
    closeFires,   \* fires the ticks enqueued, by day
    tasksMade, losses,
    crossed,      \* history: two ticks were between their read and their save
    fireLapsed    \* history: a fire lost its lock, or went on without one

observerFiresVars ==
    <<day, closing, last_fired_at, tick, fireTasks, firer, fireLock, closeFires, tasksMade, losses,
      crossed, fireLapsed>>

Day == 1 .. MaxDays

Loss == losses < MaxLosses /\ losses' = losses + 1

ObserverFiresInit ==
    /\ day = 1 /\ closing = FALSE /\ last_fired_at = 0
    /\ tick = [t \in Ticks |-> "idle"] /\ fireTasks = 0
    /\ firer = [f \in Firers |-> "idle"] /\ fireLock = 0
    /\ closeFires = [d \in Day |-> 0] /\ tasksMade = 0 /\ losses = 0
    /\ crossed = FALSE /\ fireLapsed = FALSE

-----------------------------------------------------------------------------
(* fire_due_close_relative                                                 *)

ClosingBegins ==
    /\ ~closing /\ closing' = TRUE
    /\ UNCHANGED <<day, last_fired_at, tick, fireTasks, firer, fireLock, closeFires, tasksMade, losses,
                   crossed, fireLapsed>>

\* Midnight, some time after the minute is over and its ticks have ended.
DayEnds ==
    /\ closing /\ day < MaxDays /\ \A t \in Ticks : tick[t] = "idle"
    /\ day' = day + 1 /\ closing' = FALSE
    /\ UNCHANGED <<last_fired_at, tick, fireTasks, firer, fireLock, closeFires, tasksMade, losses,
                   crossed, fireLapsed>>

\* The rows are loaded; not yet fired today by what they say.
TickReads(t) ==
    /\ tick[t] = "idle" /\ closing /\ last_fired_at # day
    /\ tick' = [tick EXCEPT ![t] = "save"]
    /\ crossed' = (crossed \/ \E u \in Ticks : tick[u] = "save")
    /\ UNCHANGED <<day, closing, last_fired_at, fireTasks, firer, fireLock, closeFires, tasksMade,
                   losses, fireLapsed>>

\* Mutant: the fire is enqueued first and the row stamped by the fire.
TickSkipsStamp(t) ==
    /\ tick[t] = "save"
    /\ tick' = [tick EXCEPT ![t] = "enqueue"]
    /\ UNCHANGED <<day, closing, last_fired_at, fireTasks, firer, fireLock, closeFires, tasksMade,
                   losses, crossed, fireLapsed>>

TickStamps(t) ==
    /\ tick[t] = "save"
    /\ last_fired_at' = day
    /\ tick' = [tick EXCEPT ![t] = "enqueue"]
    /\ UNCHANGED <<day, closing, fireTasks, firer, fireLock, closeFires, tasksMade, losses, crossed,
                   fireLapsed>>

TickEnqueues(t) ==
    /\ tick[t] = "enqueue" /\ tasksMade < MaxFires
    /\ fireTasks' = fireTasks + 1 /\ tasksMade' = tasksMade + 1
    /\ closeFires' = [closeFires EXCEPT ![day] = @ + 1]
    /\ tick' = [tick EXCEPT ![t] = "idle"]
    /\ UNCHANGED <<day, closing, last_fired_at, firer, fireLock, losses, crossed, fireLapsed>>

\* Killed; the tick is delivered again and reads the rows anew.
TickKilled(t) ==
    /\ tick[t] # "idle" /\ Loss
    /\ tick' = [tick EXCEPT ![t] = "idle"]
    /\ UNCHANGED <<day, closing, last_fired_at, fireTasks, firer, fireLock, closeFires, tasksMade,
                   crossed, fireLapsed>>

-----------------------------------------------------------------------------
(* fire_observer_task                                                      *)

\* A cron beat, or the fire-now button.
CronFires ==
    /\ tasksMade < MaxFires /\ tasksMade' = tasksMade + 1
    /\ fireTasks' = fireTasks + 1
    /\ UNCHANGED <<day, closing, last_fired_at, tick, firer, fireLock, closeFires, losses, crossed,
                   fireLapsed>>

\* Mutant: SET without NX.
TakeAnyway(f) ==
    /\ firer[f] = "idle" /\ fireTasks > 0
    /\ fireTasks' = fireTasks - 1
    /\ fireLock' = FireTTL /\ firer' = [firer EXCEPT ![f] = "fire"]
    /\ UNCHANGED <<day, closing, last_fired_at, tick, closeFires, tasksMade, losses, crossed, fireLapsed>>

\* SET NX EX: a fire that finds the lock taken is dropped.
TakeFire(f) ==
    /\ firer[f] = "idle" /\ fireTasks > 0
    /\ fireTasks' = fireTasks - 1
    /\ IF fireLock = 0
       THEN fireLock' = FireTTL /\ firer' = [firer EXCEPT ![f] = "fire"]
       ELSE UNCHANGED <<fireLock, firer>>
    /\ UNCHANGED <<day, closing, last_fired_at, tick, closeFires, tasksMade, losses, crossed, fireLapsed>>

\* Redis is unreachable: fire unguarded, and release nothing.
TakeUnguarded(f) ==
    /\ firer[f] = "idle" /\ fireTasks > 0 /\ Loss
    /\ fireTasks' = fireTasks - 1
    /\ firer' = [firer EXCEPT ![f] = "unguarded"]
    /\ fireLapsed' = TRUE
    /\ UNCHANGED <<day, closing, last_fired_at, tick, fireLock, closeFires, tasksMade, crossed>>

\* fire_observer: skipped (disabled, markets closed) without a stamp; capped,
\* submitted as a batch or delegated to an AI run with one. An exception ends it
\* without a stamp as well.
FireEnds(f) ==
    /\ firer[f] \in {"fire", "unguarded"}
    /\ last_fired_at' \in {last_fired_at, day}
    /\ firer' = [firer EXCEPT ![f] = IF @ = "fire" THEN "release" ELSE "idle"]
    /\ UNCHANGED <<day, closing, tick, fireTasks, fireLock, closeFires, tasksMade, losses, crossed,
                   fireLapsed>>

\* finally: DEL, whoever holds the lock by now.
ReleaseFire(f) ==
    /\ firer[f] = "release"
    /\ fireLock' = 0
    /\ firer' = [firer EXCEPT ![f] = "idle"]
    /\ UNCHANGED <<day, closing, last_fired_at, tick, fireTasks, closeFires, tasksMade, losses, crossed,
                   fireLapsed>>

FireKilled(f) ==
    /\ firer[f] # "idle" /\ Loss
    /\ firer' = [firer EXCEPT ![f] = "idle"]
    /\ UNCHANGED <<day, closing, last_fired_at, tick, fireTasks, fireLock, closeFires, tasksMade, crossed,
                   fireLapsed>>

FiresClock ==
    /\ fireLock > 0 /\ fireLock' = fireLock - 1
    /\ fireLapsed' = (fireLapsed \/ (fireLock = 1 /\ \E f \in Firers : firer[f] \in {"fire", "release"}))
    /\ UNCHANGED <<day, closing, last_fired_at, tick, fireTasks, firer, closeFires, tasksMade, losses, crossed>>

ObserverFiresNext ==
    \/ ClosingBegins \/ DayEnds
    \/ \E t \in Ticks : TickReads(t) \/ TickStamps(t) \/ TickEnqueues(t) \/ TickKilled(t)
    \/ CronFires
    \/ \E f \in Firers :
        \/ TakeFire(f) \/ TakeUnguarded(f) \/ FireEnds(f) \/ ReleaseFire(f) \/ FireKilled(f)
    \/ FiresClock

ObserverFiresSpec == ObserverFiresInit /\ [][ObserverFiresNext]_observerFiresVars

-----------------------------------------------------------------------------
(* Properties                                                              *)

ObserverFiresTypeOK ==
    /\ day \in Day /\ closing \in BOOLEAN /\ last_fired_at \in 0 .. MaxDays
    /\ tick \in [Ticks -> {"idle", "save", "enqueue"}]
    /\ firer \in [Firers -> {"idle", "fire", "unguarded", "release"}]
    /\ fireTasks \in Nat /\ fireLock \in 0 .. FireTTL
    /\ closeFires \in [Day -> Nat] /\ tasksMade \in Nat /\ losses \in Nat
    /\ crossed \in BOOLEAN /\ fireLapsed \in BOOLEAN

\* "double billing, interleaved thread messages": two fires of the schedule never
\* run at once, for as long as no fire outlived its lock and Redis could be reached.
FiresApart ==
    fireLapsed \/ \A e, f \in Firers : firer[e] # "idle" /\ firer[f] # "idle" => e = f

\* "once-per-day guard": the ticks of one day enqueue one fire, whatever is killed
\* and delivered again, unless two ticks overlapped between the read and the save.
OneCloseFireADay == crossed \/ \A d \in Day : closeFires[d] <= 1
==============================================================================
