----------------------------- MODULE PostMortems -----------------------------
(***************************************************************************)
(* The post-mortems of one thesis (apps/thesis): a beat tick and the       *)
(* run-now button queue tasks, workers claim a row, ask the AI for a       *)
(* narrative and save the outcome. Tasks are acknowledged late: a task     *)
(* whose worker is killed is delivered again; one that raises, or that a   *)
(* time limit ends, is acknowledged. Meanwhile the user archives, restores,*)
(* edits, closes or purges the thesis.                                     *)
(*                                                                         *)
(* Post-mortems are numbered by horizon: 1 is due first.                   *)
(***************************************************************************)
EXTENDS Naturals

CONSTANTS
    Horizons,     \* how many horizons THESIS_POSTMORTEM_HORIZONS lists
    Workers,      \* Celery workers that take thesis.run_postmortem
    MaxQueued,    \* bound: copies of one task in the queue
    MaxClicks,    \* bound: run-now clicks
    MaxDeaths     \* bound: workers killed and tasks that raise

ASSUME PostMortemsAssumption ==
    /\ Horizons \in Nat \ {0}
    /\ MaxQueued \in Nat /\ MaxClicks \in Nat /\ MaxDeaths \in Nat

VARIABLES
    pm,           \* status of each row; "none" once the thesis is purged
    elapsed,      \* the horizons 1 .. elapsed are due
    queue,        \* copies of each task in the queue
    worker,       \* where each worker is, and on which row
    click,        \* the row a run-now request has chosen; 0: no request
    thesis,       \* archived; the archived_at an edit has loaded; a purge about to delete
    clicks, deaths,
    runs,         \* claims won by each row
    resets,       \* times run-now reset each row
    orphaned      \* history: rows whose task was lost between its claim and its save

pmCounts        == <<clicks, deaths, runs, resets>>
postMortemsVars == <<pm, elapsed, queue, worker, click, thesis, pmCounts, orphaned>>

Horizon  == 1 .. Horizons
AtRest   == [pc |-> "idle", on |-> 0]
NoThesisEdit == [archived |-> FALSE, editing |-> "no", purging |-> FALSE]
Alive    == \E h \in Horizon : pm[h] # "none"

\* create: schedule_postmortems lays down every row with the thesis.
PostMortemsInit ==
    /\ pm = [h \in Horizon |-> "scheduled"] /\ elapsed = 0
    /\ queue = [h \in Horizon |-> 0] /\ worker = [w \in Workers |-> AtRest]
    /\ click = 0 /\ thesis = NoThesisEdit
    /\ clicks = 0 /\ deaths = 0
    /\ runs = [h \in Horizon |-> 0] /\ resets = [h \in Horizon |-> 0]
    /\ orphaned = {}

-----------------------------------------------------------------------------
(* The scheduler and the run-now button                                    *)

HorizonElapses ==
    /\ elapsed < Horizons /\ elapsed' = elapsed + 1
    /\ UNCHANGED <<pm, queue, worker, click, thesis, pmCounts, orphaned>>

DueNow == {h \in 1 .. elapsed : pm[h] = "scheduled"}

\* run_due_postmortems: every scheduled row that is due, of a thesis not archived.
\* A row stays scheduled until a worker claims it: the next tick queues it again.
PostMortemTick ==
    /\ ~thesis.archived /\ DueNow # {}
    /\ \A h \in DueNow : queue[h] < MaxQueued
    /\ queue' = [h \in Horizon |-> IF h \in DueNow THEN queue[h] + 1 ELSE queue[h]]
    /\ UNCHANGED <<pm, elapsed, worker, click, thesis, pmCounts, orphaned>>

\* run_postmortem (view): the earliest due row, else the smallest horizon, which
\* is also the smallest one elapsed.
ChooseRow ==
    /\ click = 0 /\ Alive /\ clicks < MaxClicks
    /\ clicks' = clicks + 1
    /\ click' = IF DueNow = {} THEN 1 ELSE CHOOSE h \in DueNow : \A g \in DueNow : h <= g
    /\ UNCHANGED <<pm, elapsed, queue, worker, thesis, deaths, runs, resets, orphaned>>

\* Reset whatever its status, and queue.
ResetRow ==
    /\ click # 0 /\ queue[click] < MaxQueued
    /\ pm' = [pm EXCEPT ![click] = IF @ = "none" THEN @ ELSE "scheduled"]
    /\ resets' = [resets EXCEPT ![click] = @ + 1]
    /\ queue' = [queue EXCEPT ![click] = @ + 1]
    /\ click' = 0
    /\ UNCHANGED <<elapsed, worker, thesis, clicks, deaths, runs, orphaned>>

-----------------------------------------------------------------------------
(* run_postmortem                                                          *)

\* Mutant: the status is tested when the task starts, and not by the update.
StartAnyway(w) ==
    /\ worker[w] = AtRest
    /\ \E h \in Horizon :
        /\ queue[h] > 0
        /\ queue' = [queue EXCEPT ![h] = @ - 1]
        /\ IF pm[h] # "done" /\ pm[h] # "none"
           THEN /\ pm' = [pm EXCEPT ![h] = "running"]
                /\ worker' = [worker EXCEPT ![w] = [pc |-> "narrate", on |-> h]]
                /\ runs' = [runs EXCEPT ![h] = @ + 1]
           ELSE UNCHANGED <<pm, worker, runs>>
    /\ UNCHANGED <<elapsed, click, thesis, clicks, deaths, resets, orphaned>>

\* Resolution.claim(frm="scheduled", to="running"): one task wins, the others end.
StartTask(w) ==
    /\ worker[w] = AtRest
    /\ \E h \in Horizon :
        /\ queue[h] > 0
        /\ queue' = [queue EXCEPT ![h] = @ - 1]
        /\ IF pm[h] = "scheduled"
           THEN /\ pm' = [pm EXCEPT ![h] = "running"]
                /\ worker' = [worker EXCEPT ![w] = [pc |-> "narrate", on |-> h]]
                /\ runs' = [runs EXCEPT ![h] = @ + 1]
           ELSE UNCHANGED <<pm, worker, runs>>
    /\ UNCHANGED <<elapsed, click, thesis, clicks, deaths, resets, orphaned>>

\* The row, the thesis and the prices are read; then the AI wrote a review and it was
\* posted, or it did not: an exception of the narrative is caught and aborts nothing.
Narrate(w) ==
    /\ worker[w].pc = "narrate"
    /\ worker' = [worker EXCEPT ![w].pc = "save"]
    /\ UNCHANGED <<pm, elapsed, queue, click, thesis, pmCounts, orphaned>>

\* Mutant: the outcome is saved without its status.
SaveReport(w) ==
    /\ worker[w].pc = "save"
    /\ worker' = [worker EXCEPT ![w] = AtRest]
    /\ UNCHANGED <<pm, elapsed, queue, click, thesis, pmCounts, orphaned>>

\* pm.save(): the whole row. Of a purged thesis there is none, and the insert that
\* Django tries instead is refused.
SaveOutcome(w) ==
    /\ worker[w].pc = "save"
    /\ pm' = [pm EXCEPT ![worker[w].on] = IF @ = "none" THEN @ ELSE "done"]
    /\ worker' = [worker EXCEPT ![w] = AtRest]
    /\ UNCHANGED <<elapsed, queue, click, thesis, pmCounts, orphaned>>

\* Killed. The task is delivered again, and its claim finds the row running.
WorkerKilled(w) ==
    /\ worker[w] # AtRest /\ deaths < MaxDeaths
    /\ deaths' = deaths + 1
    /\ queue' = [queue EXCEPT ![worker[w].on] = @ + 1]
    /\ orphaned' = orphaned \cup {worker[w].on}
    /\ worker' = [worker EXCEPT ![w] = AtRest]
    /\ UNCHANGED <<pm, elapsed, click, thesis, clicks, runs, resets>>

\* An exception after the claim and outside the narrative's try (the row's get, the price
\* path, pm.save()), a soft limit that strikes there, or the hard limit: the task is
\* acknowledged, and the row it had claimed stays as it is.
TaskRaises(w) ==
    /\ worker[w] # AtRest /\ deaths < MaxDeaths
    /\ deaths' = deaths + 1
    /\ orphaned' = orphaned \cup {worker[w].on}
    /\ worker' = [worker EXCEPT ![w] = AtRest]
    /\ UNCHANGED <<pm, elapsed, queue, click, thesis, clicks, runs, resets>>

-----------------------------------------------------------------------------
(* The thesis                                                              *)

ArchiveThesis ==
    /\ Alive /\ ~thesis.archived
    /\ thesis' = [thesis EXCEPT !.archived = TRUE]
    /\ UNCHANGED <<pm, elapsed, queue, worker, click, pmCounts, orphaned>>

RestoreThesis ==
    /\ Alive /\ thesis.archived
    /\ thesis' = [thesis EXCEPT !.archived = FALSE]
    /\ UNCHANGED <<pm, elapsed, queue, worker, click, pmCounts, orphaned>>

\* perform_update and close load the thesis, and save all its columns.
LoadThesis ==
    /\ Alive /\ thesis.editing = "no"
    /\ thesis' = [thesis EXCEPT !.editing = IF thesis.archived THEN "archived" ELSE "listed"]
    /\ UNCHANGED <<pm, elapsed, queue, worker, click, pmCounts, orphaned>>

SaveThesis ==
    /\ Alive /\ thesis.editing # "no"
    /\ thesis' = [thesis EXCEPT !.archived = thesis.editing = "archived", !.editing = "no"]
    /\ UNCHANGED <<pm, elapsed, queue, worker, click, pmCounts, orphaned>>

\* destroy with purge: refused while a post-mortem is done; then the cascade, which
\* takes the rows whatever happened between the two.
PurgeChecks ==
    /\ Alive /\ ~thesis.purging /\ \A h \in Horizon : pm[h] # "done"
    /\ thesis' = [thesis EXCEPT !.purging = TRUE]
    /\ UNCHANGED <<pm, elapsed, queue, worker, click, pmCounts, orphaned>>

PurgeDeletes ==
    /\ thesis.purging
    /\ pm' = [h \in Horizon |-> "none"]
    /\ thesis' = NoThesisEdit
    /\ UNCHANGED <<elapsed, queue, worker, click, pmCounts, orphaned>>

PostMortemsNext ==
    \/ HorizonElapses \/ PostMortemTick \/ ChooseRow \/ ResetRow
    \/ \E w \in Workers : StartTask(w) \/ Narrate(w) \/ SaveOutcome(w) \/ WorkerKilled(w) \/ TaskRaises(w)
    \/ ArchiveThesis \/ RestoreThesis \/ LoadThesis \/ SaveThesis \/ PurgeChecks \/ PurgeDeletes

PostMortemsSpec == PostMortemsInit /\ [][PostMortemsNext]_postMortemsVars

-----------------------------------------------------------------------------
(* Properties                                                              *)

PostMortemsTypeOK ==
    /\ pm \in [Horizon -> {"none", "scheduled", "running", "done"}] /\ elapsed \in 0 .. Horizons
    /\ queue \in [Horizon -> Nat] /\ runs \in [Horizon -> Nat] /\ resets \in [Horizon -> Nat]
    /\ worker \in [Workers -> {AtRest} \cup [pc : {"narrate", "save"}, on : Horizon]]
    /\ click \in 0 .. Horizons
    /\ thesis \in [archived : BOOLEAN, editing : {"no", "listed", "archived"}, purging : BOOLEAN]
    /\ clicks \in Nat /\ deaths \in Nat
    /\ orphaned \subseteq Horizon

\* Ticks, redeliveries and copies of a task bill nothing: a post-mortem runs once
\* by itself, and once more for each reset at most.
RunsPaid == \A h \in Horizon : runs[h] <= 1 + resets[h]

\* A row in "running" has a worker on it, unless a task that had claimed it was lost:
\* its worker killed, or the task ended by an exception or a limit outside the
\* narrative's try. Only run-now brings such a row back.
RunningIsHeld ==
    \A h \in Horizon : pm[h] = "running" =>
        h \in orphaned \/ \E w \in Workers : worker[w].on = h

\* "a run-now+beat overlap, or repeated run-now clicks could otherwise each re-run
\* the AI and post a DUPLICATE review message": no two workers are on one row.
\* Violated: run-now resets the row under the worker that runs it.
OneNarrator ==
    \A v, w \in Workers : worker[v].on = worker[w].on /\ worker[v] # AtRest => v = w
==============================================================================
