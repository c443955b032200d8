------------------------------- MODULE Batches -------------------------------
(***************************************************************************)
(* The Messages Batches of one observer schedule (apps/observer): a fire   *)
(* submits a batch and writes its id over last_batch_id; the every-minute  *)
(* poll collects the results of the batch the row names, posts a message   *)
(* and a ledger row for each, and clears the column. The poll is           *)
(* acknowledged late: when its worker is killed it starts again, and polls *)
(* may overlap.                                                            *)
(***************************************************************************)
EXTENDS Naturals

CONSTANTS
    Pollers,      \* workers on observer.poll_open_batches
    Results,      \* results of a batch (one per ticker)
    MaxBatches,   \* bound: batches submitted
    MaxBreaks     \* bound: killed workers, failed calls and failed ledger writes

ASSUME BatchesAssumption ==
    /\ Results \in Nat \ {0} /\ MaxBatches \in Nat /\ MaxBreaks \in Nat

VARIABLES
    batches,      \* batches submitted so far
    submitting,   \* a fire has created the batch and not saved its id yet
    last_batch_id,\* 0 for the empty string
    ended,        \* batches whose processing has ended
    poller,       \* the batch id each poll read, and the results it has written
    written,      \* messages written for each batch
    billed,       \* ledger rows written for each batch
    breaks,
    repolled,     \* history: batches a second poll had begun on, or a poll left part-way
    unnamed       \* history: batches whose id was lost from the row before they were collected

batchesVars ==
    <<batches, submitting, last_batch_id, ended, poller, written, billed, breaks, repolled, unnamed>>

BatchId == 1 .. MaxBatches
Away    == [pc |-> "idle", batch |-> 0, count |-> 0]

Break == breaks < MaxBreaks /\ breaks' = breaks + 1

BatchesInit ==
    /\ batches = 0 /\ submitting = FALSE /\ last_batch_id = 0 /\ ended = {}
    /\ poller = [p \in Pollers |-> Away]
    /\ written = [b \in BatchId |-> 0] /\ billed = [b \in BatchId |-> 0]
    /\ breaks = 0 /\ repolled = {} /\ unnamed = {}

\* A batch nobody has begun to collect.
Uncollected(b) == b # 0 /\ written[b] = 0

-----------------------------------------------------------------------------
(* submit_watchlist_batch                                                  *)

CreateBatch ==
    /\ ~submitting /\ batches < MaxBatches
    /\ batches' = batches + 1 /\ submitting' = TRUE
    /\ UNCHANGED <<last_batch_id, ended, poller, written, billed, breaks, repolled, unnamed>>

\* save(update_fields=last_batch_id): whatever batch was named is forgotten.
NameBatch ==
    /\ submitting
    /\ unnamed' = IF Uncollected(last_batch_id) THEN unnamed \cup {last_batch_id} ELSE unnamed
    /\ last_batch_id' = batches /\ submitting' = FALSE
    /\ UNCHANGED <<batches, ended, poller, written, billed, breaks, repolled>>

\* Killed in between: nothing names the batch.
SubmitKilled ==
    /\ submitting /\ Break
    /\ submitting' = FALSE /\ unnamed' = unnamed \cup {batches}
    /\ UNCHANGED <<batches, last_batch_id, ended, poller, written, billed, repolled>>

BatchEnds ==
    /\ \E b \in (1 .. batches) \ ended : ended' = ended \cup {b}
    /\ UNCHANGED <<batches, submitting, last_batch_id, poller, written, billed, breaks, repolled, unnamed>>

-----------------------------------------------------------------------------
(* poll_open_batches                                                       *)

\* The row is read once; the poll works on the id it had then.
PollReads(p) ==
    /\ poller[p] = Away /\ last_batch_id # 0
    /\ poller' = [poller EXCEPT ![p] = [pc |-> "retrieve", batch |-> last_batch_id, count |-> 0]]
    /\ repolled' = IF \E q \in Pollers : poller[q].batch = last_batch_id
                   THEN repolled \cup {last_batch_id} ELSE repolled
    /\ UNCHANGED <<batches, submitting, last_batch_id, ended, written, billed, breaks, unnamed>>

\* Mutant: the id is cleared when nothing was moved, too.
PollForgets(p) ==
    /\ poller[p].pc = "retrieve"
    /\ LET done == poller[p].batch \in ended
       IN  /\ poller' = [poller EXCEPT ![p] = IF done THEN [@ EXCEPT !.pc = "write"] ELSE Away]
           /\ last_batch_id' = IF done THEN last_batch_id ELSE 0
    /\ UNCHANGED <<batches, submitting, ended, written, billed, breaks, repolled, unnamed>>

\* Not ended: 0, and the id stays. Otherwise its results are fetched.
PollRetrieves(p) ==
    /\ poller[p].pc = "retrieve"
    /\ poller' = [poller EXCEPT ![p] = IF @.batch \in ended THEN [@ EXCEPT !.pc = "write"] ELSE Away]
    /\ UNCHANGED <<batches, submitting, last_batch_id, ended, written, billed, breaks, repolled, unnamed>>

\* Mutant: the results are counted one too far.
PollWritesPastEnd(p) ==
    /\ poller[p].pc = "write" /\ poller[p].count <= Results
    /\ LET b == poller[p].batch
       IN  /\ written' = [written EXCEPT ![b] = @ + 1]
           /\ \/ billed' = [billed EXCEPT ![b] = @ + 1] /\ UNCHANGED breaks
              \/ Break /\ UNCHANGED billed
    /\ poller' = [poller EXCEPT ![p].count = @ + 1]
    /\ UNCHANGED <<batches, submitting, last_batch_id, ended, repolled, unnamed>>

\* One result: its message and, best effort, its ledger row.
PollWrites(p) ==
    /\ poller[p].pc = "write" /\ poller[p].count < Results
    /\ LET b == poller[p].batch
       IN  /\ written' = [written EXCEPT ![b] = @ + 1]
           /\ \/ billed' = [billed EXCEPT ![b] = @ + 1] /\ UNCHANGED breaks
              \/ Break /\ UNCHANGED billed
    /\ poller' = [poller EXCEPT ![p].count = @ + 1]
    /\ UNCHANGED <<batches, submitting, last_batch_id, ended, repolled, unnamed>>

\* Mutant: nothing is cleared.
PollKeepsId(p) ==
    /\ poller[p].pc = "write" /\ poller[p].count = Results
    /\ poller' = [poller EXCEPT ![p] = Away]
    /\ UNCHANGED <<batches, submitting, last_batch_id, ended, written, billed, breaks, repolled, unnamed>>

\* update(last_batch_id=""): the id of the row by now, not the one polled.
PollClears(p) ==
    /\ poller[p].pc = "write" /\ poller[p].count = Results
    /\ unnamed' = IF Uncollected(last_batch_id) THEN unnamed \cup {last_batch_id} ELSE unnamed
    /\ last_batch_id' = 0
    /\ poller' = [poller EXCEPT ![p] = Away]
    /\ UNCHANGED <<batches, submitting, ended, written, billed, breaks, repolled>>

\* Killed, or a call or an insert raises: the poll of the next minute, or the
\* redelivered one, starts over.
PollBreaks(p) ==
    /\ poller[p] # Away /\ Break
    /\ repolled' = IF poller[p].pc = "write" THEN repolled \cup {poller[p].batch} ELSE repolled
    /\ poller' = [poller EXCEPT ![p] = Away]
    /\ UNCHANGED <<batches, submitting, last_batch_id, ended, written, billed, unnamed>>

BatchesNext ==
    \/ CreateBatch \/ NameBatch \/ SubmitKilled \/ BatchEnds
    \/ \E p \in Pollers :
        PollReads(p) \/ PollRetrieves(p) \/ PollWrites(p) \/ PollClears(p) \/ PollBreaks(p)

BatchesSpec == BatchesInit /\ [][BatchesNext]_batchesVars

-----------------------------------------------------------------------------
(* Properties                                                              *)

BatchesTypeOK ==
    /\ batches \in 0 .. MaxBatches /\ submitting \in BOOLEAN /\ last_batch_id \in 0 .. batches
    /\ ended \subseteq 1 .. batches
    /\ poller \in [Pollers -> [pc : {"idle", "retrieve", "write"}, batch : 0 .. batches, count : 0 .. Results]]
    /\ written \in [BatchId -> Nat] /\ billed \in [BatchId -> Nat] /\ breaks \in 0 .. MaxBreaks
    /\ repolled \subseteq BatchId /\ unnamed \subseteq BatchId

\* Every result is posted and billed once: unless two polls had the batch in hand
\* together or one broke off part-way, nothing but last_batch_id sees to it. And a
\* batch that nobody has collected is named by the row or being submitted, but for
\* those a later submission, a clearing poll or a killed fire left unnamed.
CollectedOnce ==
    /\ \A b \in BatchId \ repolled : billed[b] <= written[b] /\ written[b] <= Results
    /\ \A b \in 1 .. batches : Uncollected(b) =>
        b \in unnamed \/ b = last_batch_id \/ (submitting /\ b = batches)
==============================================================================
