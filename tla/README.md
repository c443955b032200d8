# A verification project for the AI market dashboard

TLA+ models of the parts of this repository in which processes race, messages
get lost and workers die, the TLC runs that check them, and proofs that hold
for every value of their parameters. Paths below are relative to the
repository's root; `apps/` stands for `backend/apps/`.

Run a check with `tlc -workers 2 -config MCAIRun.cfg MCAIRun.tla` and the proofs
with `tlapm AIRunProofs.tla` (and the other `*Proofs.tla`).

## The system

A Django application (REST and WebSockets) with Celery workers, Celery beat,
PostgreSQL and Redis, and a React frontend. A user, a schedule or a trigger
captures a market snapshot and asks an AI provider about it; the answer streams
into a thread, is stored, and its cost is charged to a ledger against spending
caps.

| Part | State | Operations | What is hard |
|---|---|---|---|
| AI run lifecycle (`apps/threads/tasks.py`, `_stream.py`, `stop.py`, `views.py`) | `Message` row, `AIRun` and `ToolCall` rows, stop flag in Redis | run a message, stop it | two processes finish the same row; time limits and worker loss anywhere; retry on a second provider |
| Event log and live delivery (`apps/threads/event_log.py`, `consumers.py`, `apps/core/realtime.py`, `frontend/src/realtime/`) | seq counter and buffered tail in Redis, channel queues, the browser's cursor | record, broadcast, connect, replay, receive | several producers, drops and reconnects, a counter that expires, full queues |
| Event triggers (`apps/observer/triggers/`) | `EventTrigger` row, re-arm flag and fire lock in Redis | evaluate (every few seconds), fire, edit | overlapping ticks, stale reads, redelivered tasks, locks with a TTL |
| Condition language (`apps/observer/triggers/dsl.py`, `metrics.py`, `evaluator.py`) | last values in Redis | record the metrics of a tick, evaluate | a stored value shared by leaves; missing quotes; parameters left to their default |
| Observer schedules (`apps/observer/tasks.py`, `services/`) | `ObserverSchedule` row, overlap lock, the profile's thread | fire on cron or before the close, reuse an earlier response | a lock shorter than the task, check-then-save guards, two schedules in one thread |
| Observer batches (`services/batch.py`, `tasks_batch.py`) | the batch id on the row | submit, poll | a crash between writing and clearing, overlapping polls |
| Predictions, post-mortems (`apps/observer/predictions/`, `apps/thesis/`) | status columns used as claims | extract, claim, resolve, invalidate; schedule, run, reset | a crash after the claim, an unguarded save or reset |
| Cost caps (`apps/ai/cost.py`) | sum over the ledger | check, bill | checked before, billed after; batches are billed by their poller |
| Providers (`apps/ai/providers/`) | the conversation of a run | rounds, tool calls, ceiling | a generator that is closed anywhere; usage of rounds that count |
| Token refresh (`apps/secrets/tradingview_oauth.py`) | encrypted credential row, refresh lock, marker | refresh, wait, connect, disconnect | a rotating token, an owned lock compared and then deleted |
| MCP client (`apps/market/services/tradingview_mcp.py`) | a session shared by the process's threads | initialise, request, retry once | a session read without the lock; 401 that means two things |
| Backups (`apps/backups/`) | backup rows, files, lock | backup, restore, rotate, delete, reconcile | an unowned lock with a TTL, a restore replaces the rows |
| Desk sweep, war room (`apps/strategy/`) | desk entries, cooldowns; the debate's thread | investigate anomalies, argue in rounds | sweeps that overlap under a daily cap; a viewer who asks in the debate's thread |
| Snapshots (`apps/snapshots/`) | snapshot, section and image rows | upload, create, claim, capture | two windows claiming one screenshot; a task that is lost |
| Analytics, recall, export, book, profiles, market data, core settings | rows, caches | mostly reads and single writes | I/O and arithmetic |
| Frontend pages | query cache, live messages | render, reseed | a refetch that races the stream |

How they interact: triggers and schedules create a thread and enqueue an AI
run; the run broadcasts through the event log to the browsers that watch the
thread; the stop endpoint (web process) and the run (worker) share the message
row and a Redis flag; every run writes the ledger that the cost caps sum; Celery
delivers tasks with `acks_late`, so a task whose worker is lost is delivered
again unless it opts out, which billed tasks do.

What makes each part correct:

- **AI run**: one verdict per message and it is never taken back; at most one
  ledger row, which charges what the run used; a finished answer is complete;
  the browsers end up with the row's verdict; a stop ends the run; the worker
  is freed.
- **Event log**: every event of a subscription reaches the page once and in
  order, or met one of the obstacles the code accepts.
- **Triggers**: no fire within the cooldown, fires of one trigger do not run
  together, a redelivered task does not bill twice, a true condition fires, a
  false one re-arms.
- **Conditions**: a crossing operator matches real crosses, and each of them.
- **Observer**: one fire per schedule at a time and per day; a batch is written
  once; a reused response answers the prompt it is reused for.
- **Claims** (predictions, post-mortems, snapshots' screenshots): one worker per
  row, one verdict, no row claimed for ever but by a task that was lost or raised.
- **Caps** (cost, desk originations): the overshoot is bounded by what was in
  flight when the cap was read, and by the batch results no cap is asked for.
- **Providers**: complete conversations, the ceiling, and usage that is handed
  out however the loop ends.
- **Tokens and sessions**: one refresh at a time, no token spent twice, and the
  user is asked to reconnect only for a token the server refuses.
- **Backups**: one dump or restore at a time; an "ok" row has its dump; rotation
  keeps the newest.
- **War room**: a persona's argument is its own.

`PROJECT.json` lists all parts, the ones not modelled with the reason, and the
hazards with their lines.

## The modules

### RunOutcome and AIRun

`RunOutcome` is the promise: a message goes from streaming to exactly one
verdict, "done" comes in the same step as its "done" ledger row, and a failed
message has at most one ledger row. `AIRun` is the code, and implements it with
`outcome <- status` and `bill <-` the status of the first ledger row.

The state of `AIRun` is the committed rows (`status`, `error`, `content`,
`airuns`, `toolcalls`), the task's program point and locals (`pc`, `attempt`,
`buffer`, `counts`, `tool_events`, `err`, `stopped`), the outcome written in the
open transaction (`txn`, which is also the row lock the stop endpoint waits
for), the stop flag and the stop request (`stop_flag`, `web`), and the verdicts
broadcast (`sent`). Text is a number of deltas and usage a number of billed
rounds. Actions follow `_run_ai_on_message` in order:

| Code | Actions |
|---|---|
| `_resolve_run_config`, `_fail` | `ResolveFails` |
| creating the message, `message_started` | `CreateMessage`, `AnnounceStart` |
| `drive` in `_stream.py` | `TextDelta`, `ToolRound`, `StreamDone`, `StreamError`, `PollStop` |
| failover, `clear_stop` | `Failover`, `ClearStop` |
| the terminal transaction | `RefreshRow`, then `RecordCancelled`, or `SaveError` and `CommitError`, or `Finalize`, `AnnounceDone` and `CommitDone`, or `FinalizeLost` and `RecordLost` |
| `SoftTimeLimitExceeded` | `SoftLimit`, then `LimitFails`, `LimitBills` and `LimitTells`, or `LimitTooLate`; swallowed by a best-effort block (`SoftLimitSwallowed`) or raised before the try block (`SoftLimitEscapes`) |
| hard limit, worker loss, any other exception | `HardLimit`, `Crash` |
| the stop endpoint | `StopCancels`, `StopSignals`, `StopTells` |

A refresh takes no lock, so `RefreshRow` only chooses the branch and the row may
change before the write. Writes inside the transaction become visible at the
commit; broadcasts do not wait for it.

### EventLog

One thread, its producers and one viewer. `Stamp`, `Push` and `Send` are the
three steps of a broadcast (each may fail or be overtaken); `Connect`, `Replay`
and `ThreadEvent` are the consumer, which reads no queued message before its
replay is on the socket; `Receive` is the browser's message handler, `Drop` and
`Leave` the two ways a connection ends, `Tick` the time that expires the
counter. History variables: `owed` (events since the subscription began),
`blame` (events that met an obstacle, and which), `stale` (the cursor belongs to
an expired counter), `sent` (the latest seq broadcast), `floor` and `gap` (how far back
the buffer reaches).

The obstacles the code accepts, and the properties therefore except: an event
sent without a seq because Redis failed, an event that met a full channel queue,
an event overtaken by a later seq, an event of a restarted counter taken for a
duplicate, and a reconnect from beyond the buffer. The overtaken event
contradicts what the repository says, and has a run of its own.

### Triggers

One trigger. `tick` holds each evaluator task's program point and the row as it
loaded it; `fire` the fire tasks; `queue` the tasks waiting, with the memory
(history) of whether they launched an AI run before. `last_fired_at` is a stamp
with an age, which saturates at the cooldown, and an id, so that the claim's
comparison, and an edit that puts an old stamp back, mean what they mean in the
database. `lock` is the remaining life of the fire lock, `armed` the re-arm
flag. A lost worker leaves the lock and returns the task to the queue
(`task_acks_late`, `task_reject_on_worker_lost`). An edit is two steps, because
the serializer saves the whole row it loaded.

### Fourteen smaller components

Each of these modules is one component with its own variables, `...Next` and
`...Spec`. Their actions carry the names of what the code does at that point;
`PROJECT.json` has the lines. A variable called `crossed`, `slipped`, `lapsed`,
`ghosts`, `outdated`, `orphaned`, `repolled`, `unnamed` or `late` is a history variable: it records
that an obstacle the code is known to accept was met, and the properties say
what holds without it.

| Module | State and its source | Actions |
|---|---|---|
| `Backups` | `rows`, `kind`, `created` (the backup rows), `files` and `whole` (the directory), `archive` (the rows inside a dump), `bk_lock`, `job` (each task or request) | a dump: acquire, dump, record, rotate one by one, reconcile, release; a restore: acquire, replace the rows, release; deletion in two steps; the lock ages; a worker is lost, a dump fails |
| `Tokens` | `cred` (the row), `marker` (rejected), `rlock` with its owner, `call` (each caller in `ensure_fresh_token`), `live` and `burnt` (the authorization server), `user` | look, take the lock or wait, reread, send, store, release as GET and DEL; connect and disconnect in two steps |
| `Predictions` | `status` and `scored` of each call, what each extractor, resolver and checker has read | find the open call, retire, create; list, claim, score, or raise; list, then write the invalidation; workers lost |
| `PostMortems` | `pm` rows, `queue`, `worker`, `click` (run-now), `thesis` | tick, choose and reset, start, narrate, save, lost, or raise; archive, restore, edit, purge |
| `ObserverFires` | `last_fired_at`, `tick`, `firer`, `fireLock` | the close-relative tick as read, stamp, enqueue; a fire as take, run, release; without Redis unguarded |
| `ObserverThread` | `thread` (messages), `firing`, `delegated`, `expired` | post the prompt, answer from the cache, with a report or by a run, or not at all; run starts and ends; a batch result is posted; the user asks |
| `Batches` | `last_batch_id`, `poller`, `written`, `billed` | create, name, end, read, retrieve, write, clear, break |
| `CostCaps` | `spend` by day, `running` (the rows each slot's run may still write), `submitted` batches | check and start, record, go unrecorded; submit a batch, record a result, be done with it; midnight |
| `Conditions` | `stored` values in Redis, `metrics` of the tick, `condition` | one tick over all leaves in document order, with the evaluation as an operator; a stored value expires |
| `McpSessions` | `session`, `sessionLock`, `req` (each thread's request), the server's `kept` and `accepted` | open in three steps, send, the answers, refresh and retry, give up, forget |
| `DeskSweep` | `originated` by day, `sweeps` | choose or pass over, investigate, record, end, lost |
| `Debates` | `posts`, `turn`, `heard` | convene, ask, run, read, next voice, synthesise; the viewer's question |
| `Captures` | `snapshots`, `sections`, `claimed`, `imageIds`, `capturing` | upload, create, claim, each section, attach, finish, lose |
| `ToolLoop` | `conversation`, `tools`, `completed`, `reported` | open the stream, end a round, announce, run, tell, next round; fail, close; both providers' dialects |

They share no state with one another in the code (a fire hands a batch or a run
to the next part through rows these models take as inputs), so interleaving them
would show nothing and cost a product of state spaces. `MCServices` therefore
puts them side by side and lets a behaviour be about one `part`: one run
explores each of them completely, alone.

Some choices that matter:

- A restore in `Backups` replaces the rows by those the archive holds. A dump sees
  the rows of the moment it begins, and its own, which is created at its end, is not
  among them; rows whose file went since come back "ok" until the next backup
  reconciles them (`ghosts`).
- In `Tokens` a refresh whose answer is lost has been spent on the server. The
  code cannot know; the property excepts these tokens (`burnt`).
- `Predictions` writes from rows read before whenever the code saves a whole row
  (`find`, `list`), and by compare-and-set where it does.
- `Conditions` keeps one stored value per key, read and overwritten by each leaf in
  turn: this is what the code does, and why the run below fails for guards.
- `CostCaps`: a slot is a Celery worker, a request thread or a management command.
  The daily and the monthly check read the ledger in one step (in the code two
  queries follow one another), and the provider has a `ProviderConfig` (without one
  there is no cap). A run may write up to `MaxRows` rows on one check (an evaluation
  replays all its examples on one, `analytics/services/aieval.py:236`), each on the
  day its call ends; a row that is never written loosens the cap. The fire of a batch
  schedule checks, submits and frees its slot; the results are recorded by
  `poll_batch`, on no check, in any number, and again if the poll is repeated. `late`
  is what they cost since the cap last let a run in: the properties add it to the bound,
  and what was recorded earlier they do not, because that run's check had counted it.
- `ObserverThread`: a report (structured, consensus) has no text and is never reused;
  a batch result has one, though it answers no prompt, and so has the answer to what
  the user asks in the thread.
- `PostMortems`: a task that raises after its claim, outside the `try` around the
  narrative (`postmortem.py:183`), or that a time limit ends there, is acknowledged;
  one whose worker is killed is delivered again. Both leave the row "running".
- `ToolLoop` ends where the generator hands its events out. The consumer,
  `_stream.drive`, looks at the stop flag before it applies an event
  (`threads/_stream.py:73`), so a stopped run may bill a round less than was reported to it;
  that step is `AIRun`'s.

### MC modules

`MCAIRun`, `MCEventLog` and `MCTriggers` extend their components for TLC and define
the symmetry sets; `MCServices` is the harness of the fourteen.

### Proof modules

`AIRunProofs`, `EventLogProofs`, `TriggersProofs`; `LocksProofs` (backups, tokens, MCP
sessions), `FiresProofs` (observer, thread, batches, conditions) and `WorkProofs`
(predictions, post-mortems, captures, cost caps, desk sweep, tool loop, debates);
`ServicesProofs` carries these to the harness; `NatLemmas` holds what several of
them need of numbers.

## The runs

| Run | Result | Shows |
|---|---|---|
| `airun` | passes | types, `AtMostOneAIRun`, `DoneIsComplete`, `LedgerFaithful`, `StuckOnlyIfDied`, `SettledClientAgrees`, `FrozenUnlessError`, `ImplementsRunOutcome`, `WorkerFreed`, `StopHalts` |
| `airun_cancel` | `CancelWins` violated | a stop that lands between the refresh and `assistant.save()` is overwritten by the provider's error, and the run is billed |
| `airun_failover` | `AllUsageCounted` violated | rounds the primary completed are never charged once the run fails over |
| `eventlog` | passes | types, `DispatchedOnce`, `RunOrder`, `CaughtUp` |
| `eventlog_overtake` | `NeverAGap` violated | an overtaken event is lost on a healthy connection |
| `triggers` | passes | types, `FireExclusive`, `LaunchedOnce`, `CooldownKept` |
| `triggers_fair` | passes | `FirstFire` |
| `triggers_rearm` | `RearmsOnFalse` violated | a trigger that has fired, and has no flag left, is never evaluated again |
| `services` | passes | the types of all parts and one or two properties of each, below |
| `postmortems_narrator` | `OneNarrator` violated | run-now resets the row under the worker that runs it; a second worker narrates and bills it |
| `conditions_crossing` | `GuardSeesEveryCross` violated | the second level of a thesis guard is never seen crossed |
| `observer_cache` | `CachedAnswersItsPrompt` violated | when another schedule, a batch result or the user came between, or after a failed run, the cache serves the answer to another prompt, or to none |

The properties of `services`:

| Property | Says |
|---|---|
| `BackupExclusive`, `DumpsSurvive` | dumps and restores one at a time unless one outlives the lock; an "ok" row has its dump; rotation spares the newest `Keep` |
| `OneRefresher`, `SpentOnce` | one caller refreshes while its lock holds; no refresh token that was spent is sent, but one whose answer was lost |
| `ScoredOnce`, `ResolvingIsHeld` | one verdict per prediction, which the status agrees with unless a stale row was written; only an exception or a lost worker strands a claim |
| `RunsPaid`, `RunningIsHeld` | a post-mortem bills once and once more per reset; only a task lost after its claim (worker killed, an exception or a limit outside the try) strands a row |
| `FiresApart`, `OneCloseFireADay` | fires of a schedule do not overlap; one fire before the close per day |
| `CollectedOnce` | each batch result posted and billed once, and every batch stays named until collected |
| `DailyOvershoot`, `MonthlyOvershoot`, `OriginationOvershoot` | how far caps that are checked before and charged after can be passed: the rows of one run per slot, and batch results since the last check that passed; a sweep per slot |
| `CrossesAreReal` | a crossing operator never matches what was no cross, and a lone leaf matches each |
| `BlamesTheToken` | "reconnect" is asked for because of the token, not of a forgotten session |
| `ArgumentsAreOwn` | no persona speaks with another's answer |
| `VerdictIsEarned` | a snapshot is ready just if it has something that was asked for, and holds just its screenshots |
| `LoopKeepsItsWord` | results for all calls, the ceiling, and usage handed out for every round |
| `CachedWhenLinear` | in a linear thread, as long as no earlier answer was reused wrongly, the response cache is right |

The violated properties state what a comment of the repository says; the
findings in `PROJECT.json` quote it. Each property of a passing run has a mutant
beside the definition it changes ("Mutant:" comments): a plausible bug that
breaks the property.

### Bounds

- `AIRun`: two deltas tell no text, some text and more text than was flushed
  apart; two billed rounds tell one attempt's usage from another's and from
  none. Both counters saturate, so streams are unbounded. There is one stop
  request that wins: every other finds the row terminal and does nothing. The
  proofs cover all bounds.
- `EventLog`: two producers are what it takes to overtake; a buffer of two and a
  queue of one overflow within three events, and a TTL of three ticks with a
  restart threshold of two keeps their order (3600 s and 3300 s). `MaxEvents`
  bounds the events of the thread. The guard `Prompt` bounds how long an event
  may stay on its way: it goes onto a socket before `Buffer` later ones are
  stamped. The real buffer is 256. Without it a model buffer of two would confuse
  duplicates with restarts in ways that need 256 events in flight in the code.
- `Triggers`: two ticks and two workers overlap; a cooldown and a lock life of
  one unit have a before and an after; one fault (lost worker, failed call or
  edit) in the safety run, two in the liveness run, whose subject is a single
  sequence of ticks. `MaxQueue` bounds the tasks waiting.

- `services`: two actors of each kind, since every hazard here is between two; one
  extra actor would repeat the part of the second. One or two faults of each
  kind (`MaxUpsets`, `MaxFailures`, `MaxMishaps`, `MaxDeaths`, `MaxLosses`,
  `MaxBreaks`, `MaxServerFaults`, `MaxSweepLosses`): a fault is what opens a window, and a
  second one what falls into it. Lifetimes of one or two ticks have a before and
  an after. Two backups and `Keep = 1` make rotation take one; two
  batches let one be written over; caps of 2 and 3 with costs up to 2 can be met
  exactly and passed; two leaves on three quotes around one level give each
  order of crossing; `MaxPosts = 10` is a whole debate of two personas over two rounds (`Rounds = 1`
  follows the first) with the verdict and an answer to the viewer; two rows a run, one batch
  at a time and two results let a bill come from a run, from its second row and from a poll;
  four messages are a prompt, its answer, a prompt again and the answer reused, and
  `observer_cache` has seven, for the reuse after a failed run too; a ceiling of one round of tools and two calls a
  round reach the ceiling with and without calls left. `BlamesTheToken` was also
  checked with two server faults and three access tokens; with one fault its
  exception `unlucky` is never needed. Proofs cover all values for the properties
  listed below.

Symmetry is used in runs without liveness properties only.

`CHECK_DEADLOCK FALSE` is set for `AIRun`, since a run ends, and for `services`
and its companions, whose tasks are bounded and come to an end.

### Fairness

- `AIRun`: weak fairness of the steps a worker takes by itself (`Straight`), of
  the stop poll (a stream that yields events is polled after each throttle
  interval of a quarter of a second) and of the web request's remaining steps.
  None of the provider's events: a provider may stall. `WorkerFreed` states its
  own assumption, that Celery's limits fire (`config/celery.py`: 600 s and 660 s).
  `StopHalts` thus speaks of a provider that yields an event now and then; one
  that stalls in silence is not polled, and only `WorkerFreed` covers it.
- `Triggers`: beat keeps starting ticks, tasks go on, time passes. Faults are
  bounded and not fair.
- `EventLog` has safety properties only: what is lost is stated at rest. So have
  the fourteen components: nothing in the code takes a claim from a worker that
  died or finds a batch nobody names, so that what should eventually happen does not
  happen by itself; the properties say which fault strands what.

## The proofs

`AIRunProofs` proves, for every number of deltas and rounds (from
`BoundsAssumption`: both are positive):

| Theorem | Establishes |
|---|---|
| `TypeCorrect` | `Spec => []TypeOK` |
| `OneAIRun` | `Spec => []AtMostOneAIRun` |
| `CompleteDone` | `Spec => []DoneIsComplete` |
| `FaithfulLedger` | `Spec => []LedgerFaithful` |
| `Frozen` | `Spec => FrozenUnlessError` |
| `Implements` | `Spec => ImplementsRunOutcome` |

None of the properties is inductive alone: that the task may add a ledger row
now depends on where it is, on what its transaction locked and on what the other
writers can have done meanwhile. The invariant `IInv` adds that knowledge in
four parts: `BilledOnce` (no row at the program points before billing),
`LockHolds` (what an open transaction keeps from the others), `RowAtPoint` (what
the row can be where the code relies on an earlier look at it) and
`ErrorAtPoint` (why the message failed, where the ledger copies it). `InitInv`
and `NextInv` show it inductive, one step per action; `FrozenStep`, `RefineInit`
and `RefineNext` carry the action property and the refinement.

For what the browsers are told, `IInv` is not enough: `Told` adds that a run that
ended without dying left a verdict (`EndsSettled`), who can have failed the message
(`FailedBy`) and, at the points where a verdict is about to be fixed, what was
broadcast last (`ToldAtPoint`). From it follow `Unstuck` (`StuckOnlyIfDied`) and
`ClientsAgree` (`SettledClientAgrees`).

### The event log

`EventLogProofs` proves, for any number of producers and events, any buffer, queue,
TTL and threshold that `SizesAssumption` allows:

| Theorem | Establishes |
|---|---|
| `EventLogTypes` | `Spec => []TypeOK` |
| `PageInOrder` | `Spec => []RunOrder` |
| `NoDoubleDispatch` | `Spec => []DispatchedOnce` |
| `NothingMissing` | `Spec => []CaughtUp` |

The invariant `EventInv` says of one counter that seq and event number grow together
wherever a frame is (`Numbering`); that the page has events in order and what the
cursor lets through comes after them (`Ordered`); that no frame is so far behind that
it looks like a restart (`Near`, which needs the guard `Prompt`); that the buffer is
what has been pushed, less what was trimmed (`Logged`); and, while there is no gap,
that a frame the cursor has passed is settled, on its way, or known to be overtaken
(`Overtaking`), so that every event that is owed is somewhere (`Underway`).

The last two were the discovery. An earlier version of the model recognised an
overtaken event by a later one *in the buffer*; with four producers and a buffer of
four the later one can be trimmed before the earlier is sent, and `CaughtUp` was
false. The proof stopped there, TLC confirmed it on that larger instance, and
`Overtaken` now compares with the latest seq broadcast (`sent`).

### The other proofs

Each from its component's one named `ASSUME` (positive bounds and lifetimes,
disjoint pools, finite sets of ticks and workers, personas with names of their own
as in `strategy/warroom/constants.py:3`), for every number of actors and every bound:

| Module | Theorems | Inductive invariant |
|---|---|---|
| `TriggersProofs` | `FiresOneAtATime`, `RunLaunchedOnce` | `FireInv`: until a lock lapses, it is alive as long as somebody fires or a launched fire may come back, and there is one of them |
| | `CooldownRespected` | `GateInv`: stamps with one id are one stamp, a tick on its way to the claim holds one that was ripe, and the row's stamp tells how long ago the last fire was |
| | `TriggerTypes` | with `QueueBounded`; that a fresh stamp id is left is a count: more ids than places that hold one |
| `LocksProofs` | `BackupsOneAtATime` | `BackupsInv`: the lock outlives whoever needs it |
| | `DumpsSurviveAll`, `BackupsTypes` | `FilesInv`: a row is written after its dump, two dumps never write one file, and a backup that is listed for rotation, marked or archived as rotated has `Keep` newer ones that are spared (`KeepSpared`). It needs no lock: what a listed backup is compared with only grows |
| | `RefreshIsExclusive`, `RefreshTokensSpentOnce` | `TokensInv`: who is under the lock owns it, and what it will send or store nobody else has spent |
| | `RejectionIsTheTokens`, `McpSessionsTypes` | `McpInv`: a request that no other thread meddled with knows the session it uses, and if its token is good it was refused for a session that can still be given up |
| | `TokensTypes` | `LifeLeft`, on top of `TokensInv` |
| `FiresProofs` | `FiresKeepApart`, `ClosesOnce`, `ObserverFiresTypes` | `FiresInv`: the lock covers the fire; while no ticks have crossed one at most is past its read, and the day it is about to stamp is still empty |
| | `ResultsCollectedOnce`, `BatchesTypes` | `BatchesInv`: a batch is in one hand, and what is written of it is what that poll has counted |
| | `LinearReuse`, `ObserverThreadTypes` | `ThreadInv`: an answer that was posted for a turn is about what the turn asked |
| | `CrossesReal`, `ConditionsTypes` | `CrossInv`: what is stored is the last value there was, a prior the one before it or the value itself, and a lone leaf always has its prior. The loop over the leaves is followed leaf by leaf (`RecordedUpTo`) |
| `WorkProofs` | `CallsScoredOnce`, `ResolvingHeld`, `PredictionsTypes` | `PredictionsInv`: claims are exclusive, and a score is written with the status |
| | `PostMortemRunsPaid`, `RunningHeld`, `PostMortemsTypes` | `PostMortemsInv`: a row that waits has a run to its credit |
| | `CapturesTypes`, `VerdictsEarned` | `CapturesInv`: where a task is tells what was claimed, filled and decided |
| | `CostCapsTypes`, `OvershootBounded`, `MonthBounded` | `CostCapsInv`: what today holds and what the rows under way may still add stay within the bound; `MonthRoom`: so does the window |
| | `OriginationBounded`, `DeskSweepTypes` | `DeskInv`: the day's entries and the tickets, what sweeps at work may still open, stay under the ceiling |
| | `WordKept`, `ToolLoopTypes` | `ToolLoopInv`: only the turn at work lacks results, just those not yet told of; rounds and rounds with tools go together |
| | `NoBorrowedArgument`, `DebatesTypes` | `DebateInv`: where a debate is tells who has argued, and that those messages are older than the open question |
| `ServicesProofs` | `EachPartKept`, `ServicesTypes`, `ServicesHold` | none: a step of the harness is a step of one component and stutters for the others, so that each theorem above holds of the specification the run `services` checks |

The safety properties are not inductive for one reason throughout: they speak of
two actors who are inside at once, and what keeps the second out is what the
first one holds (a lock alive, a claim, a stamp, a ticket), which the invariant adds.

Two arguments go around what the provers cannot do. A recursive *function* is known
by its equation, once it is shown to have one (`SumEquation`, `RecordedUpTo`); that
two of them agree, or that a sum is bounded, is an induction over 1 .. n, and is had
from the smallest counterexample (`NatLemmas`). Bounds on how many there are of
something (`QueueBounded`, `KeepSpared`, `DeskRoom`) rest on the library's facts
about cardinalities.

What the proofs corrected in the model, besides `Overtaken`:

- `CooldownKept` excepted an edited row by looking at its stamp, which made the
  exception superfluous: the row knows no better. It now compares with the
  history variable `fired_ago`, and TLC confirms that the exception is needed.
- `CachedWhenLinear` did not hold for long threads: a wrong answer, reused once, is
  passed on when the thread has become linear again. It now speaks of the first one.

Every invariant and action property of a passing run is a theorem. Only
model-checked remain the liveness properties (`WorkerFreed`, `StopHalts`,
`FirstFire`), which are out of the prover's reach, and of course what the runs find
violated.

## What the runs found

The seven violated properties state what a comment of the repository says of
the program; `PROJECT.json` quotes each. In short: a cancelled message may be
overwritten and billed (`threads/tasks.py:586`); a failover forgets billed rounds
(`threads/tasks.py:547`); an overtaken event is lost (`threads/event_log.py:60`); a
trigger that has fired is not re-armed (`triggers/services/cooldown.py:27`); run-now starts
a post-mortem twice (`thesis/views.py:269`); a guard with two levels misses the
second (`triggers/metrics.py:347`); the response cache assumes a linear thread
(`observer/services/run.py:270`).

Further differences between what the repository says and what the code does, met
while modelling, without a run of their own:

- no `replay_gap` frame is ever sent, though the frontend handles it
  (`threadEvents.ts:6-8`);
- a replay that comes late makes the cursor look recent while the counter
  expires (`WebSocketProvider.tsx:62-64` against `:171`);
- the backup lock's TTL equals the timeout of its subprocess (`backups/views.py:155-157`);
- an indicator leaf that leaves its parameters to their default never matches
  (`metrics.py:272` against `evaluator.py:104`);
- the invalidation may overwrite a prediction that was resolved meanwhile
  (`predictions/tasks.py:88-90`);
- purging a thesis checks, then cascades (`thesis/views.py:169-177`); saving a whole
  thesis row un-archives it (`thesis/views.py:148,223`);
- a second 401 blames a good token when another thread forgot the session
  (docstring at `tradingview_mcp.py:235-240`);
- `_release_lock` says it never deletes "a DIFFERENT holder's lock", but a lock that
  expires between its GET and its DELETE may be another's
  (`tradingview_oauth.py:413-416`; `Tokens` excepts it as `slipped`);
- sweeps are billed and not among the tasks delivered at most once
  (`config/celery.py:44-52`), and failed investigations do not count to the daily
  cap that `desk/services/scoring.py` calls a cost backstop;
- recall does not index again what was edited or stored without an embedding
  (`recall/tasks.py:36-39`); the drift sentinel alerts again each day
  (`analytics/tasks.py:34-69`);
- a coverage note may be left without a first revision when the AI call fails
  after `get_or_create` (`strategy/coverage/services/revise.py`); an exception in the
  synthesizer leaves a `WarRoomRun` "running"; a briefing whose task is killed
  stays "assembling" for the day;
- an export deleted while it is built comes back as "done"; "use null to disable
  pruning" in the settings, where null means the default;
- `claude_structured.py:52-57` raises before the billed run is recorded; duplicate
  kinds in `includes` leave a snapshot pending.

## What is not modelled

- In `AIRun`: a crash of the web process between its three steps (its steps are
  fair); exceptions other than the soft limit are the same as a lost worker,
  since nothing in the task handles them; thinking, citation and capability
  events, which change no verdict; prices (usage is counted in rounds).
- In `EventLog`: a Redis flush while a cursor lives (the counter restarts by
  expiry only); several viewers, who do not influence each other; the page's
  handlers behind `Broker.dispatch`.
- In `Triggers`: deletion, the market-hours filter, several triggers (a failed
  Redis call at one ends the tick for all: here it just ends the tick).
- Conditions: `pct_change` and `volume_z` (sliding windows of their own),
  fundamentals and position metrics (values looked up), the backtest.
- Cost: pricing by token and the reports (arithmetic over a table).
- Observer: schedule editing and the beat table (owned by django-celery-beat), and
  what a fire captures.
- Post-mortems: the distillation of lessons and the journal (one AI call each,
  stored once).
- Tokens: the Schwab refresh (no lock, one beat task) and client registration.
- Backups: `verify_latest` (reads only) and the command line restore, which stops
  the workers first.
- Strategy: detectors (queries), coverage notes, the regime reading, acting on and
  dismissing desk entries (single writes), the briefing.
- Market data: the fetchers with their caches and fallbacks; of the MCP client
  the rate-limit marker, the tool cache and a disconnect in another process.
- Providers: the shaping of requests, the tools, routing by configuration.
- Recall, export, analytics, book, profiles, core settings, frontend pages: queries,
  arithmetic and single-row writes, or rendering; no protocol between processes
  beyond the divergences named above. Most of the repository's lines are of this
  kind, or tests of it.

Hazards that `PROJECT.json` has no room for: `provider_name` still names the primary
while the secondary streams (`threads/tasks.py:560`, a soft limit then prices the
wrong provider); the buffer of 256 events (`threads/consumers.py:31`); a connection that
drops before its first seq reconnects without `since`
(`WebSocketProvider.tsx:120`); a Redis flush restarts the counter of a short
thread (`:159`); the refetch after `message_done` may read the row before its
transaction commits (`useLiveMessages.ts:65`).

## The plan

1. *Done*: `RunOutcome`, `AIRun` with its proofs, `EventLog`, `Triggers`.
2. *Done*: cost caps, claims, tokens and MCP sessions, backups, the observer's fires,
   thread and batches, conditions, the desk sweep, debates, captures, the tool loop.
3. *Done*: every safety property the passing runs check, for every value of the
   constants.
4. Abstract specifications of the claims and the locks, which the components that use
   them would be shown to implement as `AIRun` implements `RunOutcome`.
5. A composition of `AIRun` and `EventLog`: does the page that refetches on
   `message_done` end with the row's verdict? The window is known
   (`useLiveMessages.ts:65`); a model needs the query cache of the page.
