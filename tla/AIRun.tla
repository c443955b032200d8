-------------------------------- MODULE AIRun --------------------------------
(***************************************************************************)
(* The life of one assistant message: the Celery task that streams it      *)
(* (apps/threads/tasks.py), the web process that may cancel it (the stop   *)
(* endpoint), the Redis stop flag that bridges the two, the time limits    *)
(* and crashes that cut the task short, and the ledger row (AIRun) that    *)
(* the run leaves behind.                                                  *)
(*                                                                         *)
(* Text is counted in deltas and usage in billed rounds; both saturate at  *)
(* a bound, so a stream may go on for ever.                                *)
(***************************************************************************)
EXTENDS Naturals, Sequences

CONSTANTS
    MaxText,    \* bound: deltas told apart in one answer
    MaxRounds   \* bound: billed provider rounds told apart in one attempt

ASSUME BoundsAssumption == MaxText \in Nat \ {0} /\ MaxRounds \in Nat \ {0}

VARIABLES
    \* the committed Message row
    status, error, content,
    \* committed AIRun rows of this message, and its number of ToolCall rows
    airuns, toolcalls,
    \* the task: program counter and local state
    pc, attempt, buffer, counts, tool_events, err, stopped,
    \* the outcome written by the open transaction; its row lock is held
    txn,
    \* Redis: thread:stop:<id>
    stop_flag,
    \* the stop request that won the row
    web,
    \* verdicts broadcast to the browsers, in order
    sent,
    \* the soft limit was delivered; how the task died, if it did
    soft, died,
    \* history: rounds the providers charged over all attempts
    charged

row     == <<status, error, content>>
ledger  == <<airuns, toolcalls>>
local   == <<attempt, buffer, counts, tool_events, err, stopped>>
limits  == <<soft, died>>
vars    == <<row, ledger, pc, local, txn, stop_flag, web, sent, limits, charged>>

Terminal == {"done", "failed"}

\* Program points inside the try block of _run_ai_on_message.
InTry == {"drive", "after", "tx", "cancelled", "errored", "clean",
          "announce", "lost", "commit", "returning"}

PC == InTry \cup {"queued", "created", "limit", "limit_bill", "limit_tell", "over"}

Errors == {"", "cancelled", "provider", "limit", "rejected"}

AIRunRow == [status : Terminal, error : Errors, cost : 0 .. MaxRounds]

\* Mutant: a counter without its bound.
UpUnbounded(n, max) == n + 1

\* One more, up to the bound.
Up(n, max) == IF n < max THEN n + 1 ELSE max

Init ==
    /\ status = "absent" /\ error = "" /\ content = 0
    /\ airuns = <<>> /\ toolcalls = 0
    /\ pc = "queued" /\ attempt = 1
    /\ buffer = 0 /\ counts = 0 /\ tool_events = 0
    /\ err = FALSE /\ stopped = FALSE
    /\ txn = "none" /\ stop_flag = FALSE /\ web = "idle" /\ sent = <<>>
    /\ soft = FALSE /\ died = "no" /\ charged = 0

-----------------------------------------------------------------------------
(* The task: resolving the run and creating its message.                   *)

\* No provider, no usable key, provider disabled, or a cost cap exceeded:
\* _fail writes a failed message and the task returns without a ledger row.
ResolveFails ==
    /\ pc = "queued"
    /\ status' = "failed" /\ error' = "rejected"
    /\ sent' = Append(sent, "error")
    /\ pc' = "over"
    /\ UNCHANGED <<content, ledger, local, txn, stop_flag, web, limits, charged>>

CreateMessage ==
    /\ pc = "queued"
    /\ status' = "streaming"
    /\ pc' = "created"
    /\ UNCHANGED <<error, content, ledger, local, txn, stop_flag, web, sent, limits, charged>>

\* message_started, then into the try block.
AnnounceStart ==
    /\ pc = "created"
    /\ pc' = "drive"
    /\ UNCHANGED <<row, ledger, local, txn, stop_flag, web, sent, limits, charged>>

-----------------------------------------------------------------------------
(* The task: driving the provider's stream.                                *)

\* Mutant: the flush does not look at the status.
FlushedAlways(text) == text

\* flush_partial: the buffered text, unless the row has left "streaming".
Flushed(text) == IF status = "streaming" THEN text ELSE content

\* A delta is appended and emitted; the flush is throttled.  The stop flag may
\* be set already: the poll is throttled too, and a Redis error reads as "no".
TextDelta ==
    /\ pc = "drive"
    /\ buffer' = Up(buffer, MaxText)
    /\ content' \in {content, Flushed(buffer')}
    /\ UNCHANGED <<status, error, ledger, pc, attempt, counts, tool_events, err, stopped,
                   txn, stop_flag, web, sent, limits, charged>>

\* A tool call, its result and the cumulative usage of the completed round.
ToolRound ==
    /\ pc = "drive"
    /\ tool_events' = Up(tool_events, MaxRounds)
    /\ counts' = Up(counts, MaxRounds)
    /\ charged' = charged + (counts' - counts)
    /\ UNCHANGED <<row, ledger, pc, attempt, buffer, err, stopped, txn, stop_flag, web,
                   sent, limits>>

\* The final usage and DoneEvent, or the end of the generator.
StreamDone ==
    /\ pc = "drive"
    /\ counts' \in {counts, Up(counts, MaxRounds)}
    /\ charged' = charged + (counts' - counts)
    /\ content' = Flushed(buffer)
    /\ pc' = "after"
    /\ UNCHANGED <<status, error, ledger, attempt, buffer, tool_events, err, stopped, txn,
                   stop_flag, web, sent, limits>>

\* The provider yields an ErrorEvent, its last event.
StreamError ==
    /\ pc = "drive"
    /\ err' = TRUE
    /\ content' = Flushed(buffer)
    /\ pc' = "after"
    /\ UNCHANGED <<status, error, ledger, attempt, buffer, counts, tool_events, stopped, txn,
                   stop_flag, web, sent, limits, charged>>

\* Mutant: the second attempt is driven without a stop poll.
PollStopFirstOnly ==
    /\ pc = "drive" /\ stop_flag /\ attempt = 1
    /\ stopped' = TRUE
    /\ content' = Flushed(buffer)
    /\ pc' = "after"
    /\ UNCHANGED <<status, error, ledger, attempt, buffer, counts, tool_events, err, txn,
                   stop_flag, web, sent, limits, charged>>

\* An event arrives and the poll sees (and latches) the stop flag: the loop
\* breaks, the buffer is flushed, the provider's generator is closed.
PollStop ==
    /\ pc = "drive" /\ stop_flag
    /\ stopped' = TRUE
    /\ content' = Flushed(buffer)
    /\ pc' = "after"
    /\ UNCHANGED <<status, error, ledger, attempt, buffer, counts, tool_events, err, txn,
                   stop_flag, web, sent, limits, charged>>

\* The primary failed before any text: one retry on a usable secondary, from
\* clean containers.  should_stop is polled, throttled, just before.
Failover ==
    /\ pc = "after" /\ err /\ buffer = 0 /\ attempt = 1 /\ ~stopped
    /\ attempt' = 2
    /\ counts' = 0 /\ tool_events' = 0 /\ err' = FALSE
    /\ pc' = "drive"
    /\ UNCHANGED <<row, ledger, buffer, stopped, txn, stop_flag, web, sent, limits, charged>>

\* No failover (or no secondary): clear_stop, best effort.
ClearStop ==
    /\ pc = "after"
    /\ stop_flag' \in {FALSE, stop_flag}
    /\ pc' = "tx"
    /\ UNCHANGED <<row, ledger, local, txn, web, sent, limits, charged>>

-----------------------------------------------------------------------------
(* The task: the terminal transaction.                                     *)

\* refresh_from_db takes no lock: the branch is chosen on what it read.
RefreshRow ==
    /\ pc = "tx"
    /\ pc' = IF status = "failed" /\ error = "cancelled" THEN "cancelled"
             ELSE IF err THEN "errored" ELSE "clean"
    /\ UNCHANGED <<row, ledger, local, txn, stop_flag, web, sent, limits, charged>>

\* Mutant: a cancelled run is charged for what it used.
CancelledRowCharged == [status |-> "failed", error |-> "cancelled", cost |-> counts]

CancelledRow == [status |-> "failed", error |-> "cancelled", cost |-> 0]

\* The stop endpoint won: a ledger row without cost.
RecordCancelled ==
    /\ pc = "cancelled"
    /\ airuns' = Append(airuns, CancelledRow)
    /\ pc' = "returning"
    /\ UNCHANGED <<row, toolcalls, local, txn, stop_flag, web, sent, limits, charged>>

\* assistant.save() writes the whole row, whatever it has become since.
SaveError ==
    /\ pc = "errored"
    /\ txn' = "failed"
    /\ sent' = Append(sent, "error")
    /\ pc' = "commit"
    /\ UNCHANGED <<row, ledger, local, stop_flag, web, limits, charged>>

\* Mutant: the final update does not compare.
FinalizeUnguarded ==
    /\ pc = "clean"
    /\ txn' = "done"
    /\ pc' = "announce"
    /\ UNCHANGED <<row, ledger, local, stop_flag, web, sent, limits, charged>>

\* The compare-and-set on status = "streaming", with the tool rows.
Finalize ==
    /\ pc = "clean" /\ status = "streaming"
    /\ txn' = "done"
    /\ pc' = "announce"
    /\ UNCHANGED <<row, ledger, local, stop_flag, web, sent, limits, charged>>

FinalizeLost ==
    /\ pc = "clean" /\ status # "streaming"
    /\ pc' = "lost"
    /\ UNCHANGED <<row, ledger, local, txn, stop_flag, web, sent, limits, charged>>

\* message_done and cost go out before the transaction commits.
AnnounceDone ==
    /\ pc = "announce"
    /\ sent' = Append(sent, "message_done")
    /\ pc' = "commit"
    /\ UNCHANGED <<row, ledger, local, txn, stop_flag, web, limits, charged>>

LostRow == [status |-> "failed",
            error  |-> IF error = "" THEN "cancelled" ELSE error,
            cost   |-> 0]

\* The compare-and-set lost: the tool rows and a free ledger row.
RecordLost ==
    /\ pc = "lost"
    /\ airuns' = Append(airuns, LostRow)
    /\ toolcalls' = tool_events
    /\ pc' = "returning"
    /\ UNCHANGED <<row, local, txn, stop_flag, web, sent, limits, charged>>

\* Mutant: the tool calls of a finished run are not stored.
CommitDoneWithoutTools ==
    /\ pc = "commit" /\ txn = "done"
    /\ status' = "done" /\ content' = buffer
    /\ airuns' = Append(airuns, [status |-> "done", error |-> "", cost |-> counts])
    /\ txn' = "none"
    /\ pc' = "returning"
    /\ UNCHANGED <<error, toolcalls, local, stop_flag, web, sent, limits, charged>>

CommitDone ==
    /\ pc = "commit" /\ txn = "done"
    /\ status' = "done" /\ content' = buffer
    /\ airuns' = Append(airuns, [status |-> "done", error |-> "", cost |-> counts])
    /\ toolcalls' = tool_events
    /\ txn' = "none"
    /\ pc' = "returning"
    /\ UNCHANGED <<error, local, stop_flag, web, sent, limits, charged>>

\* The failed run is charged for the rounds that completed before the error.
CommitError ==
    /\ pc = "commit" /\ txn = "failed"
    /\ status' = "failed" /\ error' = "provider" /\ content' = buffer
    /\ airuns' = Append(airuns, [status |-> "failed", error |-> "provider", cost |-> counts])
    /\ txn' = "none"
    /\ pc' = "returning"
    /\ UNCHANGED <<toolcalls, local, stop_flag, web, sent, limits, charged>>

Return ==
    /\ pc = "returning"
    /\ pc' = "over"
    /\ UNCHANGED <<row, ledger, local, txn, stop_flag, web, sent, limits, charged>>

-----------------------------------------------------------------------------
(* Time limits and crashes.                                                *)

\* SoftTimeLimitExceeded inside the try block: an open transaction rolls back,
\* an open stream is flushed and closed, and the handler takes over.
SoftLimit ==
    /\ pc \in InTry /\ ~soft
    /\ soft' = TRUE
    /\ txn' = "none"
    /\ content' = IF pc = "drive" THEN Flushed(buffer) ELSE content
    /\ pc' = "limit"
    /\ UNCHANGED <<status, error, ledger, local, stop_flag, web, sent, died, charged>>

\* The exception is raised inside one of the "except Exception" blocks around
\* a Redis call (record, is_stop_requested, clear_stop) or the capability
\* warning, and goes no further.
SoftLimitSwallowed ==
    /\ pc \in {"queued", "created", "drive", "after", "errored", "announce"} /\ ~soft
    /\ soft' = TRUE
    /\ UNCHANGED <<row, ledger, pc, local, txn, stop_flag, web, sent, died, charged>>

\* Before the try block nothing catches it.
SoftLimitEscapes ==
    /\ pc \in {"queued", "created"} /\ ~soft
    /\ soft' = TRUE
    /\ died' = "escaped"
    /\ pc' = "over"
    /\ UNCHANGED <<row, ledger, local, txn, stop_flag, web, sent, charged>>

\* Mutant: the handler does not compare before it fails the message.
LimitFailsUnguarded ==
    /\ pc = "limit"
    /\ stop_flag' \in {FALSE, stop_flag}
    /\ status' = "failed" /\ error' = "limit" /\ content' = buffer
    /\ pc' = "limit_bill"
    /\ UNCHANGED <<ledger, local, txn, web, sent, limits, charged>>

\* _finalize_soft_time_limit: clear_stop, then the same compare-and-set.
LimitFails ==
    /\ pc = "limit" /\ status = "streaming"
    /\ stop_flag' \in {FALSE, stop_flag}
    /\ status' = "failed" /\ error' = "limit" /\ content' = buffer
    /\ pc' = "limit_bill"
    /\ UNCHANGED <<ledger, local, txn, web, sent, limits, charged>>

\* Mutant: the handler leaves a message alone that has no text yet.
LimitTooLateOrEmpty ==
    /\ pc = "limit" /\ (status # "streaming" \/ buffer = 0)
    /\ stop_flag' \in {FALSE, stop_flag}
    /\ pc' = "over"
    /\ UNCHANGED <<row, ledger, local, txn, web, sent, limits, charged>>

LimitTooLate ==
    /\ pc = "limit" /\ status # "streaming"
    /\ stop_flag' \in {FALSE, stop_flag}
    /\ pc' = "over"
    /\ UNCHANGED <<row, ledger, local, txn, web, sent, limits, charged>>

\* Mutant: the handler returns without telling the browsers.
LimitBillsSilently ==
    /\ pc = "limit_bill"
    /\ airuns' = Append(airuns, [status |-> "failed", error |-> "limit", cost |-> counts])
    /\ pc' = "over"
    /\ UNCHANGED <<row, toolcalls, local, txn, stop_flag, web, sent, limits, charged>>

LimitBills ==
    /\ pc = "limit_bill"
    /\ airuns' = Append(airuns, [status |-> "failed", error |-> "limit", cost |-> counts])
    /\ pc' = "limit_tell"
    /\ UNCHANGED <<row, toolcalls, local, txn, stop_flag, web, sent, limits, charged>>

LimitTells ==
    /\ pc = "limit_tell"
    /\ sent' = Append(sent, "error")
    /\ pc' = "over"
    /\ UNCHANGED <<row, ledger, local, txn, stop_flag, web, limits, charged>>

\* The worker process ends: an open transaction rolls back, and acks_late=False
\* means that nothing redelivers the task.
Dies(how) ==
    /\ pc # "over"
    /\ died' = how
    /\ txn' = "none"
    /\ pc' = "over"
    /\ UNCHANGED <<row, ledger, local, stop_flag, web, sent, soft, charged>>

\* A lost worker, or an exception other than the soft limit.
Crash == Dies("crash")

\* Mutant: no hard limit is configured.
NoHardLimit == FALSE

\* Celery's hard limit: SIGKILL, a minute after the soft limit.
HardLimit == soft /\ Dies("killed")

-----------------------------------------------------------------------------
(* The stop endpoint, in the web process.                                  *)

\* Compare-and-set on "streaming"; it waits for a row lock.  A request that
\* finds the row terminal answers already_terminal and changes nothing.
StopCancels ==
    /\ status = "streaming" /\ txn = "none"
    /\ status' = "failed" /\ error' = "cancelled"
    /\ web' = "won"
    /\ UNCHANGED <<content, ledger, pc, local, txn, stop_flag, sent, limits, charged>>

\* request_stop, best effort.
StopSignals ==
    /\ web = "won"
    /\ stop_flag' \in {TRUE, stop_flag}
    /\ web' = "signalled"
    /\ UNCHANGED <<row, ledger, pc, local, txn, sent, limits, charged>>

StopTells ==
    /\ web = "signalled"
    /\ sent' = Append(sent, "error")
    /\ web' = "told"
    /\ UNCHANGED <<row, ledger, pc, local, txn, stop_flag, limits, charged>>

\* The TTL is as long as the soft limit: a flag never expires under a stream,
\* but one set after the run's clear_stop stays behind until it does.
StopFlagExpires ==
    /\ stop_flag /\ pc = "over"
    /\ stop_flag' = FALSE
    /\ UNCHANGED <<row, ledger, pc, local, txn, web, sent, limits, charged>>

-----------------------------------------------------------------------------
Stream == TextDelta \/ ToolRound \/ StreamDone \/ StreamError \/ PollStop

\* The steps the worker takes by itself, whatever the provider does.
Straight ==
    \/ ResolveFails \/ CreateMessage \/ AnnounceStart
    \/ Failover \/ ClearStop
    \/ RefreshRow \/ RecordCancelled \/ SaveError \/ Finalize \/ FinalizeLost \/ AnnounceDone
    \/ RecordLost \/ CommitDone \/ CommitError \/ Return
    \/ LimitFails \/ LimitTooLate \/ LimitBills \/ LimitTells

Limits == SoftLimit \/ SoftLimitSwallowed \/ SoftLimitEscapes \/ HardLimit \/ Crash

Stop == StopCancels \/ StopSignals \/ StopTells \/ StopFlagExpires

Next == Stream \/ Straight \/ Limits \/ Stop

Spec == Init /\ [][Next]_vars

\* A worker that is not waiting for its provider goes on, a stream that keeps
\* yielding events is polled after each throttle interval, and the web process
\* finishes the requests it started.
Fairness ==
    /\ WF_vars(Straight)
    /\ WF_vars(PollStop)
    /\ WF_vars(StopSignals) /\ WF_vars(StopTells)

FairSpec == Spec /\ Fairness
-----------------------------------------------------------------------------
(* Properties.                                                             *)

\* The variables stay in their ranges: the row and the ledger hold only values
\* the models' choices allow, and counters stay within their bounds.
TypeOK ==
    /\ status \in {"absent", "streaming"} \cup Terminal
    /\ error \in Errors
    /\ content \in 0 .. MaxText
    /\ airuns \in Seq(AIRunRow)
    /\ toolcalls \in 0 .. MaxRounds
    /\ pc \in PC
    /\ attempt \in {1, 2}
    /\ buffer \in 0 .. MaxText
    /\ counts \in 0 .. MaxRounds
    /\ tool_events \in 0 .. MaxRounds
    /\ err \in BOOLEAN /\ stopped \in BOOLEAN
    /\ txn \in {"none"} \cup Terminal
    /\ stop_flag \in BOOLEAN
    /\ web \in {"idle", "won", "signalled", "told"}
    /\ sent \in Seq({"message_done", "error"})
    /\ soft \in BOOLEAN
    /\ died \in {"no", "escaped", "crash", "killed"}
    /\ charged \in Nat

\* A message is accounted for once, however the normal end, the cancel branch,
\* the lost compare-and-set and the soft-limit handler follow one another: the
\* handler also runs when the limit strikes after the terminal commit
\* (AIRun.message is one-to-one).
AtMostOneAIRun == Len(airuns) <= 1

\* A "done" answer is the whole answer: its text is everything that was
\* streamed, its tool calls are all there and its one ledger row is "done" and
\* charges the usage of the attempt that answered; and only such an answer has
\* a "done" ledger row.
DoneIsComplete ==
    /\ status = "done" =>
         /\ content = buffer
         /\ toolcalls = tool_events
         /\ airuns = <<[status |-> "done", error |-> "", cost |-> counts]>>
    /\ \A i \in DOMAIN airuns : airuns[i].status = "done" => status = "done"

\* The ledger charges the last attempt's usage, to the round, except for a run
\* it records as cancelled, which is free; and a row that says "cancelled" has
\* no other ledger entry.
LedgerFaithful ==
    /\ \A i \in DOMAIN airuns :
         airuns[i].cost = IF airuns[i].error = "cancelled" THEN 0 ELSE counts
    /\ error = "cancelled" => \A i \in DOMAIN airuns : airuns[i].error = "cancelled"

\* No path through the task leaves the message "streaming" behind it: only a
\* death of the task (a lost worker, the hard limit, or the soft limit before
\* the try block) does.
StuckOnlyIfDied == pc = "over" /\ status = "streaming" => died # "no"

\* Once the task and the stop request are through, the last verdict the
\* browsers were told is the row's, whatever was announced from inside a
\* transaction that rolled back.
SettledClientAgrees ==
    pc = "over" /\ died = "no" /\ web \in {"idle", "told"} =>
        /\ sent # <<>>
        /\ sent[Len(sent)] = IF status = "done" THEN "message_done" ELSE "error"

\* A row that reached its verdict never changes again, unless the provider
\* failed: neither a late flush nor a late finalization touches a cancelled,
\* timed-out or finished message.
FrozenUnlessError == [][(status \in Terminal /\ ~err) => (row' = row)]_vars

Verdict == INSTANCE RunOutcome WITH
    outcome <- status,
    bill <- IF airuns = <<>> THEN "none" ELSE Head(airuns).status

\* The run keeps the promise of RunOutcome: one verdict, never taken back, and
\* "done" together with its ledger row.
ImplementsRunOutcome == Verdict!Spec

\* If Celery's time limits fire, the worker is freed, even when the soft limit
\* is swallowed and the provider streams for ever.
WorkerFreed ==
    (WF_vars(SoftLimit \/ SoftLimitSwallowed \/ SoftLimitEscapes) /\ WF_vars(HardLimit))
        => <>(pc = "over")

\* A stop flag set while the task runs ends the run, without the help of the
\* time limits and also when the run fails over to its second provider.
StopHalts == stop_flag /\ pc \in InTry ~> pc = "over"

\* What the comment at the compare-and-set says: "never un-cancel or bill a run
\* the user stopped: whoever flips status out of streaming first wins".
CancelWins ==
    web # "idle" =>
        /\ error = "cancelled"
        /\ \A i \in DOMAIN airuns : airuns[i].cost = 0

\* What the comment at the failed branch says: rounds completed before an error
\* "were genuinely charged by the provider" and must still count against the
\* caps.  A run that nobody cancelled and that did not die is charged for all
\* its attempts.
AllUsageCounted ==
    pc = "over" /\ died = "no" /\ web = "idle" /\ airuns # <<>> =>
        Head(airuns).cost >= charged
=============================================================================
