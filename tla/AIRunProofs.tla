----------------------------- MODULE AIRunProofs -----------------------------
(***************************************************************************)
(* Proofs about AIRun, for every number of deltas and rounds: the types,   *)
(* the ledger's one row per message and what it charges, the completeness  *)
(* of a "done" answer, the end of every run that does not die, what its    *)
(* viewers are told last, and the implementation of RunOutcome.            *)
(***************************************************************************)
EXTENDS AIRun, TLAPS

-----------------------------------------------------------------------------
(* The inductive invariant.  AtMostOneAIRun is not inductive: that no row  *)
(* exists yet where the task is about to add one depends on where it is,   *)
(* on what its transaction has locked and on what the other writers of the *)
(* row can have done meanwhile.                                            *)

\* Program points before the run has added its ledger row.
Unbilled == {"queued", "created", "drive", "after", "tx", "cancelled", "errored",
             "clean", "announce", "lost", "commit", "limit_bill"}

\* The task has added no row before it says so, and a row means a verdict.
BilledOnce ==
    /\ pc \in Unbilled => airuns = <<>>
    /\ airuns # <<>> => status \in Terminal

\* What the transaction wrote, and what its row lock keeps from the others.
LockHolds ==
    /\ txn = "done" => pc \in {"announce", "commit"} /\ status = "streaming"
    /\ txn = "failed" => pc = "commit" /\ err
    /\ pc = "errored" => err
    /\ pc = "announce" => txn = "done"
    /\ pc = "commit" => txn \in Terminal

\* What the row can be at the points that depend on an earlier look at it.
RowAtPoint ==
    /\ pc = "queued" => status = "absent"
    /\ status = "absent" => pc \in {"queued", "over"}
    /\ pc \in {"cancelled", "lost", "limit_bill", "limit_tell"} => status = "failed"
    /\ status = "done" => pc \in {"returning", "limit", "over"}

\* Why the message failed, at the points where the ledger copies it.
ErrorAtPoint ==
    /\ status \in {"absent", "streaming"} => error = ""
    /\ pc \in Unbilled \ {"limit_bill"} /\ status = "failed" => error = "cancelled"
    /\ pc = "limit_bill" => error = "limit"

IInv ==
    /\ TypeOK
    /\ AtMostOneAIRun
    /\ DoneIsComplete
    /\ LedgerFaithful
    /\ BilledOnce
    /\ LockHolds
    /\ RowAtPoint
    /\ ErrorAtPoint

-----------------------------------------------------------------------------
\* The ledger of a message that has just got its first row.
LEMMA FirstRow ==
  ASSUME NEW r
  PROVE  LET s == Append(<<>>, r) IN
           /\ s = <<r>> /\ s # <<>> /\ Len(s) = 1 /\ DOMAIN s = {1} /\ s[1] = r
           /\ \A S : r \in S => s \in Seq(S)
  OBVIOUS

\* The ledger of a message that has no row.
LEMMA NoRow == Len(<<>>) = 0 /\ DOMAIN <<>> = {} /\ \A S : <<>> \in Seq(S)
  OBVIOUS

\* Counting up stays within the bound.
LEMMA UpBounded ==
  ASSUME NEW max \in Nat, NEW n \in 0 .. max
  PROVE  Up(n, max) \in 0 .. max /\ Up(n, max) - n \in {0, 1}
  BY DEF Up

\* Initially nothing has happened.
LEMMA InitInv == Init => IInv
<1> SUFFICES ASSUME Init PROVE IInv
  OBVIOUS
<1>0. /\ airuns = <<>> /\ Len(airuns) = 0
      /\ airuns \in Seq(AIRunRow) /\ sent \in Seq({"message_done", "error"})
  BY NoRow DEF Init
<1>1. TypeOK
  <2>1. 0 \in 0 .. MaxText /\ 0 \in 0 .. MaxRounds
    BY BoundsAssumption
  <2> QED
    BY <1>0, <2>1 DEF Init, TypeOK, PC, InTry, Errors
<1>2. AtMostOneAIRun /\ BilledOnce
  BY <1>0 DEF AtMostOneAIRun, BilledOnce
<1>3. DoneIsComplete /\ LedgerFaithful
  BY NoRow DEF Init, DoneIsComplete, LedgerFaithful
<1>4. LockHolds /\ RowAtPoint /\ ErrorAtPoint
  BY DEF Init, LockHolds, RowAtPoint, ErrorAtPoint
<1> QED
  BY <1>1, <1>2, <1>3, <1>4 DEF IInv

\* Every step of the task, of the limits and of the stop endpoint keeps it.
LEMMA NextInv == IInv /\ [Next]_vars => IInv'
<1> SUFFICES ASSUME IInv, [Next]_vars PROVE IInv'
  OBVIOUS
<1>a. /\ TypeOK /\ AtMostOneAIRun /\ DoneIsComplete /\ LedgerFaithful
      /\ BilledOnce /\ LockHolds /\ RowAtPoint /\ ErrorAtPoint
  BY DEF IInv
<1>1. CASE TextDelta
  <2>1. TypeOK'
    <3>1. buffer' \in 0 .. MaxText
      BY <1>a, <1>1, UpBounded, BoundsAssumption DEF TypeOK, TextDelta
    <3> QED
      BY <1>a, <1>1, <3>1 DEF TypeOK, TextDelta, Flushed, ledger, limits
  <2>2. AtMostOneAIRun' /\ BilledOnce'
    BY <1>a, <1>1 DEF AtMostOneAIRun, BilledOnce, Unbilled, TextDelta, Flushed, ledger,
       limits
  <2>3. DoneIsComplete'
    BY <1>a, <1>1 DEF DoneIsComplete, RowAtPoint, TextDelta, Flushed, ledger, limits
  <2>4. LockHolds' /\ RowAtPoint'
    BY <1>a, <1>1 DEF LockHolds, RowAtPoint, TextDelta, Flushed, ledger, limits
  <2>5. ErrorAtPoint'
    BY <1>a, <1>1 DEF ErrorAtPoint, RowAtPoint, LockHolds, Unbilled, TextDelta, Flushed,
       ledger, limits
  <2>6. LedgerFaithful'
    BY <1>a, <1>1 DEF LedgerFaithful, BilledOnce, Unbilled, TextDelta, Flushed, ledger,
       limits
  <2> QED
    BY <2>1, <2>2, <2>3, <2>4, <2>5, <2>6 DEF IInv
<1>2. CASE ToolRound
  <2>1. TypeOK'
    <3>1. tool_events' \in 0 .. MaxRounds /\ counts' \in 0 .. MaxRounds
      BY <1>a, <1>2, UpBounded, BoundsAssumption DEF TypeOK, ToolRound
    <3>2. counts' - counts \in {0, 1}
      BY <1>a, <1>2, UpBounded, BoundsAssumption DEF TypeOK, ToolRound
    <3>3. charged' \in Nat
      BY <1>a, <1>2, <3>2 DEF TypeOK, ToolRound
    <3> QED
      BY <1>a, <1>2, <3>1, <3>3 DEF TypeOK, ToolRound, row, ledger, limits
  <2>2. AtMostOneAIRun' /\ BilledOnce'
    BY <1>a, <1>2 DEF AtMostOneAIRun, BilledOnce, Unbilled, ToolRound, row, ledger, limits
  <2>3. DoneIsComplete'
    BY <1>a, <1>2 DEF DoneIsComplete, RowAtPoint, ToolRound, row, ledger, limits
  <2>4. LockHolds' /\ RowAtPoint'
    BY <1>a, <1>2 DEF LockHolds, RowAtPoint, ToolRound, row, ledger, limits
  <2>5. ErrorAtPoint'
    BY <1>a, <1>2 DEF ErrorAtPoint, RowAtPoint, LockHolds, Unbilled, ToolRound, row,
       ledger, limits
  <2>6. LedgerFaithful'
    BY <1>a, <1>2 DEF LedgerFaithful, BilledOnce, Unbilled, ToolRound, row, ledger, limits
  <2> QED
    BY <2>1, <2>2, <2>3, <2>4, <2>5, <2>6 DEF IInv
<1>3. CASE StreamDone
  <2>1. TypeOK'
    <3>1. counts' \in 0 .. MaxRounds /\ counts' - counts \in {0, 1}
      <4>1. CASE counts' = counts
        BY <1>a, <4>1 DEF TypeOK
      <4>2. CASE counts' = Up(counts, MaxRounds)
        BY <1>a, <4>2, UpBounded, BoundsAssumption DEF TypeOK
      <4> QED
        BY <1>3, <4>1, <4>2 DEF StreamDone
    <3>2. charged' \in Nat
      <4>1. charged' = charged + (counts' - counts)
        BY <1>3 DEF StreamDone
      <4>2. charged \in Nat
        BY <1>a DEF TypeOK
      <4> QED
        BY <3>1, <4>1, <4>2
    <3>3. content' \in 0 .. MaxText
      BY <1>a, <1>3 DEF TypeOK, StreamDone, Flushed
    <3>4. pc' \in PC
      BY <1>3 DEF StreamDone, PC, InTry
    <3>5. /\ UNCHANGED <<status, error, ledger, attempt, buffer, tool_events, err, stopped>>
          /\ UNCHANGED <<txn, stop_flag, web, sent, limits>>
      BY <1>3 DEF StreamDone
    <3> QED
      BY <1>a, <3>1, <3>2, <3>3, <3>4, <3>5 DEF TypeOK, ledger, limits
  <2>2. AtMostOneAIRun' /\ BilledOnce'
    BY <1>a, <1>3 DEF AtMostOneAIRun, BilledOnce, Unbilled, StreamDone, Flushed, ledger,
       limits
  <2>3. DoneIsComplete'
    BY <1>a, <1>3 DEF DoneIsComplete, RowAtPoint, StreamDone, Flushed, ledger, limits
  <2>4. LockHolds' /\ RowAtPoint'
    BY <1>a, <1>3 DEF LockHolds, RowAtPoint, StreamDone, Flushed, ledger, limits
  <2>5. ErrorAtPoint'
    BY <1>a, <1>3 DEF ErrorAtPoint, RowAtPoint, LockHolds, Unbilled, StreamDone, Flushed,
       ledger, limits
  <2>6. LedgerFaithful'
    BY <1>a, <1>3 DEF LedgerFaithful, BilledOnce, Unbilled, StreamDone, Flushed, ledger,
       limits
  <2> QED
    BY <2>1, <2>2, <2>3, <2>4, <2>5, <2>6 DEF IInv
<1>4. CASE StreamError
  <2>1. TypeOK'
    BY <1>a, <1>4 DEF TypeOK, StreamError, Flushed, ledger, limits, PC, InTry
  <2>2. AtMostOneAIRun' /\ BilledOnce'
    BY <1>a, <1>4 DEF AtMostOneAIRun, BilledOnce, Unbilled, StreamError, Flushed, ledger,
       limits
  <2>3. DoneIsComplete'
    BY <1>a, <1>4 DEF DoneIsComplete, RowAtPoint, StreamError, Flushed, ledger, limits
  <2>4. LockHolds' /\ RowAtPoint'
    BY <1>a, <1>4 DEF LockHolds, RowAtPoint, StreamError, Flushed, ledger, limits
  <2>5. ErrorAtPoint'
    BY <1>a, <1>4 DEF ErrorAtPoint, RowAtPoint, LockHolds, Unbilled, StreamError, Flushed,
       ledger, limits
  <2>6. LedgerFaithful'
    BY <1>a, <1>4 DEF LedgerFaithful, BilledOnce, Unbilled, StreamError, Flushed, ledger,
       limits
  <2> QED
    BY <2>1, <2>2, <2>3, <2>4, <2>5, <2>6 DEF IInv
<1>5. CASE PollStop
  <2>1. TypeOK'
    BY <1>a, <1>5 DEF TypeOK, PollStop, Flushed, ledger, limits, PC, InTry
  <2>2. AtMostOneAIRun' /\ BilledOnce'
    BY <1>a, <1>5 DEF AtMostOneAIRun, BilledOnce, Unbilled, PollStop, Flushed, ledger,
       limits
  <2>3. DoneIsComplete'
    BY <1>a, <1>5 DEF DoneIsComplete, RowAtPoint, PollStop, Flushed, ledger, limits
  <2>4. LockHolds' /\ RowAtPoint'
    BY <1>a, <1>5 DEF LockHolds, RowAtPoint, PollStop, Flushed, ledger, limits
  <2>5. ErrorAtPoint'
    BY <1>a, <1>5 DEF ErrorAtPoint, RowAtPoint, LockHolds, Unbilled, PollStop, Flushed,
       ledger, limits
  <2>6. LedgerFaithful'
    BY <1>a, <1>5 DEF LedgerFaithful, BilledOnce, Unbilled, PollStop, Flushed, ledger,
       limits
  <2> QED
    BY <2>1, <2>2, <2>3, <2>4, <2>5, <2>6 DEF IInv
<1>6. CASE ResolveFails
  <2>1. TypeOK'
    <3>1. pc' \in PC /\ status' \in Terminal \cup {"absent", "streaming"} /\ error' \in Errors
      BY <1>a, <1>6 DEF TypeOK, ResolveFails, ledger, local, limits, PC, InTry, Terminal,
         Errors
    <3>2. txn' \in Terminal \cup {"none"}
      BY <1>a, <1>6 DEF TypeOK, ResolveFails, ledger, local, limits, Terminal
    <3> QED
      BY <1>a, <1>6, <3>1, <3>2 DEF TypeOK, ResolveFails, ledger, local, limits
  <2>2. AtMostOneAIRun' /\ BilledOnce'
    BY <1>a, <1>6 DEF AtMostOneAIRun, BilledOnce, Unbilled, Terminal, ResolveFails,
       ledger, local, limits
  <2>3. DoneIsComplete'
    BY <1>a, <1>6 DEF DoneIsComplete, RowAtPoint, ResolveFails, ledger, local, limits
  <2>4. LockHolds' /\ RowAtPoint'
    BY <1>a, <1>6 DEF LockHolds, RowAtPoint, Terminal, ResolveFails, ledger, local, limits
  <2>5. ErrorAtPoint'
    BY <1>a, <1>6 DEF ErrorAtPoint, RowAtPoint, LockHolds, Unbilled, Terminal,
       ResolveFails, ledger, local, limits
  <2>6. LedgerFaithful'
    BY <1>a, <1>6 DEF LedgerFaithful, BilledOnce, Unbilled, Terminal, ResolveFails,
       ledger, local, limits
  <2> QED
    BY <2>1, <2>2, <2>3, <2>4, <2>5, <2>6 DEF IInv
<1>7. CASE CreateMessage
  <2>1. TypeOK'
    BY <1>a, <1>7 DEF TypeOK, CreateMessage, ledger, local, limits, PC, InTry
  <2>2. AtMostOneAIRun' /\ BilledOnce'
    BY <1>a, <1>7 DEF AtMostOneAIRun, BilledOnce, Unbilled, Terminal, CreateMessage,
       ledger, local, limits
  <2>3. DoneIsComplete'
    BY <1>a, <1>7 DEF DoneIsComplete, RowAtPoint, CreateMessage, ledger, local, limits
  <2>4. LockHolds' /\ RowAtPoint'
    BY <1>a, <1>7 DEF LockHolds, RowAtPoint, Terminal, CreateMessage, ledger, local, limits
  <2>5. ErrorAtPoint'
    BY <1>a, <1>7 DEF ErrorAtPoint, RowAtPoint, LockHolds, Unbilled, Terminal,
       CreateMessage, ledger, local, limits
  <2>6. LedgerFaithful'
    BY <1>a, <1>7 DEF LedgerFaithful, BilledOnce, Unbilled, Terminal, CreateMessage,
       ledger, local, limits
  <2> QED
    BY <2>1, <2>2, <2>3, <2>4, <2>5, <2>6 DEF IInv
<1>8. CASE AnnounceStart
  <2>1. TypeOK'
    BY <1>a, <1>8 DEF TypeOK, AnnounceStart, row, ledger, local, limits, PC, InTry
  <2>2. AtMostOneAIRun' /\ BilledOnce'
    BY <1>a, <1>8 DEF AtMostOneAIRun, BilledOnce, Unbilled, AnnounceStart, row, ledger,
       local, limits
  <2>3. DoneIsComplete'
    BY <1>a, <1>8 DEF DoneIsComplete, RowAtPoint, AnnounceStart, row, ledger, local, limits
  <2>4. LockHolds' /\ RowAtPoint'
    BY <1>a, <1>8 DEF LockHolds, RowAtPoint, AnnounceStart, row, ledger, local, limits
  <2>5. ErrorAtPoint'
    BY <1>a, <1>8 DEF ErrorAtPoint, RowAtPoint, LockHolds, Unbilled, AnnounceStart, row,
       ledger, local, limits
  <2>6. LedgerFaithful'
    BY <1>a, <1>8 DEF LedgerFaithful, BilledOnce, Unbilled, AnnounceStart, row, ledger,
       local, limits
  <2> QED
    BY <2>1, <2>2, <2>3, <2>4, <2>5, <2>6 DEF IInv
<1>9. CASE Failover
  <2>1. TypeOK'
    <3>1. 0 \in 0 .. MaxRounds
      BY BoundsAssumption
    <3> QED
      BY <1>a, <1>9, <3>1 DEF TypeOK, Failover, row, ledger, limits, PC, InTry
  <2>2. AtMostOneAIRun' /\ BilledOnce'
    BY <1>a, <1>9 DEF AtMostOneAIRun, BilledOnce, Unbilled, Failover, row, ledger, limits
  <2>3. DoneIsComplete'
    BY <1>a, <1>9 DEF DoneIsComplete, RowAtPoint, Failover, row, ledger, limits
  <2>4. LockHolds' /\ RowAtPoint'
    BY <1>a, <1>9 DEF LockHolds, RowAtPoint, Failover, row, ledger, limits
  <2>5. ErrorAtPoint'
    BY <1>a, <1>9 DEF ErrorAtPoint, RowAtPoint, LockHolds, Unbilled, Failover, row,
       ledger, limits
  <2>6. LedgerFaithful'
    BY <1>a, <1>9 DEF LedgerFaithful, BilledOnce, Unbilled, Failover, row, ledger, limits
  <2> QED
    BY <2>1, <2>2, <2>3, <2>4, <2>5, <2>6 DEF IInv
<1>10. CASE ClearStop
  <2>1. TypeOK'
    <3>1. stop_flag' \in BOOLEAN /\ pc' \in PC
      BY <1>a, <1>10 DEF TypeOK, ClearStop, PC, InTry
    <3> QED
      BY <1>a, <1>10, <3>1 DEF TypeOK, ClearStop, row, ledger, local, limits
  <2>2. AtMostOneAIRun' /\ BilledOnce'
    BY <1>a, <1>10 DEF AtMostOneAIRun, BilledOnce, Unbilled, ClearStop, row, ledger,
       local, limits
  <2>3. DoneIsComplete'
    BY <1>a, <1>10 DEF DoneIsComplete, RowAtPoint, ClearStop, row, ledger, local, limits
  <2>4. LockHolds' /\ RowAtPoint'
    BY <1>a, <1>10 DEF LockHolds, RowAtPoint, ClearStop, row, ledger, local, limits
  <2>5. ErrorAtPoint'
    BY <1>a, <1>10 DEF ErrorAtPoint, RowAtPoint, LockHolds, Unbilled, ClearStop, row,
       ledger, local, limits
  <2>6. LedgerFaithful'
    BY <1>a, <1>10 DEF LedgerFaithful, BilledOnce, Unbilled, ClearStop, row, ledger,
       local, limits
  <2> QED
    BY <2>1, <2>2, <2>3, <2>4, <2>5, <2>6 DEF IInv
<1>11. CASE RefreshRow
  <2>1. TypeOK'
    BY <1>a, <1>11 DEF TypeOK, RefreshRow, row, ledger, local, limits, PC, InTry
  <2>2. AtMostOneAIRun' /\ BilledOnce'
    BY <1>a, <1>11 DEF AtMostOneAIRun, BilledOnce, Unbilled, RefreshRow, row, ledger,
       local, limits
  <2>3. DoneIsComplete'
    BY <1>a, <1>11 DEF DoneIsComplete, RowAtPoint, RefreshRow, row, ledger, local, limits
  <2>4. LockHolds' /\ RowAtPoint'
    BY <1>a, <1>11 DEF LockHolds, RowAtPoint, RefreshRow, row, ledger, local, limits
  <2>5. ErrorAtPoint'
    BY <1>a, <1>11 DEF ErrorAtPoint, RowAtPoint, LockHolds, Unbilled, RefreshRow, row,
       ledger, local, limits
  <2>6. LedgerFaithful'
    BY <1>a, <1>11 DEF LedgerFaithful, BilledOnce, Unbilled, RefreshRow, row, ledger,
       local, limits
  <2> QED
    BY <2>1, <2>2, <2>3, <2>4, <2>5, <2>6 DEF IInv
<1>12. CASE RecordCancelled
  <2> DEFINE r == CancelledRow
  <2>1. airuns = <<>> /\ airuns' = Append(<<>>, r)
    BY <1>a, <1>12 DEF RecordCancelled, BilledOnce, Unbilled
  <2>2. r \in AIRunRow
    <3>1. 0 \in 0 .. MaxRounds
      BY BoundsAssumption
    <3>2. error \in Errors
      BY <1>a DEF TypeOK
    <3> QED
      BY <3>1, <3>2 DEF AIRunRow, Terminal, Errors, CancelledRow
  <2>3. /\ airuns' = <<r>> /\ airuns' # <<>> /\ Len(airuns') = 1 /\ DOMAIN airuns' = {1}
        /\ airuns'[1] = r /\ airuns' \in Seq(AIRunRow)
    <3> HIDE DEF r
    <3> QED BY <2>1, <2>2, FirstRow
  <2>4. pc' \in PC /\ status' \in Terminal \cup {"absent", "streaming"} /\ error' \in Errors
    BY <1>a, <1>12 DEF TypeOK, RecordCancelled, row, local, limits, PC, InTry, Terminal,
       Errors
  <2>5. TypeOK'
    BY <1>a, <1>12, <2>3, <2>4 DEF TypeOK, RecordCancelled, row, local, limits
  <2>6. status' = "failed"
    BY <1>a, <1>12 DEF RowAtPoint, RecordCancelled, row, local, limits
  <2>7. AtMostOneAIRun' /\ BilledOnce'
    BY <1>12, <2>3, <2>6 DEF AtMostOneAIRun, BilledOnce, Unbilled, Terminal, RecordCancelled
  <2>8. DoneIsComplete'
    <3>1. r.status = "failed"
      BY DEF CancelledRow
    <3> HIDE DEF r
    <3> QED
      BY <2>3, <2>6, <3>1 DEF DoneIsComplete
  <2>9. LockHolds' /\ RowAtPoint'
    BY <1>a, <1>12 DEF LockHolds, RowAtPoint, RecordCancelled, row, local, limits
  <2>10. error' = "cancelled"
    BY <1>a, <1>12 DEF RowAtPoint, LockHolds, ErrorAtPoint, Unbilled, RecordCancelled,
       row, local, limits
  <2>11. ErrorAtPoint'
    BY <1>a, <1>12, <2>6, <2>10 DEF ErrorAtPoint, Unbilled, RecordCancelled
  <2>12. LedgerFaithful'
    <3>1. r.cost = (IF r.error = "cancelled" THEN 0 ELSE counts) /\ counts' = counts
      BY <1>a, <1>12 DEF RowAtPoint, ErrorAtPoint, Unbilled, RecordCancelled, row, local,
         limits, CancelledRow
    <3>2. error' = "cancelled" => r.error = "cancelled"
      BY <1>a, <1>12, <2>10 DEF RowAtPoint, ErrorAtPoint, Unbilled, CancelledRow
    <3> HIDE DEF r
    <3> QED
      BY <2>3, <3>1, <3>2 DEF LedgerFaithful
  <2> QED
    BY <2>5, <2>7, <2>8, <2>9, <2>11, <2>12 DEF IInv
<1>13. CASE SaveError
  <2>1. TypeOK'
    <3>1. pc' \in PC /\ status' \in Terminal \cup {"absent", "streaming"} /\ error' \in Errors
      BY <1>a, <1>13 DEF TypeOK, SaveError, row, ledger, local, limits, PC, InTry,
         Terminal, Errors
    <3>2. txn' \in Terminal \cup {"none"}
      BY <1>a, <1>13 DEF TypeOK, SaveError, row, ledger, local, limits, Terminal
    <3> QED
      BY <1>a, <1>13, <3>1, <3>2 DEF TypeOK, SaveError, row, ledger, local, limits
  <2>2. AtMostOneAIRun' /\ BilledOnce'
    BY <1>a, <1>13 DEF AtMostOneAIRun, BilledOnce, Unbilled, SaveError, row, ledger,
       local, limits
  <2>3. DoneIsComplete'
    BY <1>a, <1>13 DEF DoneIsComplete, RowAtPoint, SaveError, row, ledger, local, limits
  <2>4. LockHolds' /\ RowAtPoint'
    BY <1>a, <1>13 DEF LockHolds, RowAtPoint, Terminal, SaveError, row, ledger, local, limits
  <2>5. ErrorAtPoint'
    BY <1>a, <1>13 DEF ErrorAtPoint, RowAtPoint, LockHolds, Unbilled, SaveError, row,
       ledger, local, limits
  <2>6. LedgerFaithful'
    BY <1>a, <1>13 DEF LedgerFaithful, BilledOnce, Unbilled, SaveError, row, ledger,
       local, limits
  <2> QED
    BY <2>1, <2>2, <2>3, <2>4, <2>5, <2>6 DEF IInv
<1>14. CASE Finalize
  <2>1. TypeOK'
    <3>1. pc' \in PC /\ status' \in Terminal \cup {"absent", "streaming"} /\ error' \in Errors
      BY <1>a, <1>14 DEF TypeOK, Finalize, row, ledger, local, limits, PC, InTry,
         Terminal, Errors
    <3>2. txn' \in Terminal \cup {"none"}
      BY <1>a, <1>14 DEF TypeOK, Finalize, row, ledger, local, limits, Terminal
    <3> QED
      BY <1>a, <1>14, <3>1, <3>2 DEF TypeOK, Finalize, row, ledger, local, limits
  <2>2. AtMostOneAIRun' /\ BilledOnce'
    BY <1>a, <1>14 DEF AtMostOneAIRun, BilledOnce, Unbilled, Finalize, row, ledger, local,
       limits
  <2>3. DoneIsComplete'
    BY <1>a, <1>14 DEF DoneIsComplete, RowAtPoint, Finalize, row, ledger, local, limits
  <2>4. LockHolds' /\ RowAtPoint'
    BY <1>a, <1>14 DEF LockHolds, RowAtPoint, Finalize, row, ledger, local, limits
  <2>5. ErrorAtPoint'
    BY <1>a, <1>14 DEF ErrorAtPoint, RowAtPoint, LockHolds, Unbilled, Finalize, row,
       ledger, local, limits
  <2>6. LedgerFaithful'
    BY <1>a, <1>14 DEF LedgerFaithful, BilledOnce, Unbilled, Finalize, row, ledger, local,
       limits
  <2> QED
    BY <2>1, <2>2, <2>3, <2>4, <2>5, <2>6 DEF IInv
<1>15. CASE FinalizeLost
  <2>1. TypeOK'
    BY <1>a, <1>15 DEF TypeOK, FinalizeLost, row, ledger, local, limits, PC, InTry
  <2>2. AtMostOneAIRun' /\ BilledOnce'
    BY <1>a, <1>15 DEF AtMostOneAIRun, BilledOnce, Unbilled, FinalizeLost, row, ledger,
       local, limits
  <2>3. DoneIsComplete'
    BY <1>a, <1>15 DEF DoneIsComplete, RowAtPoint, FinalizeLost, row, ledger, local, limits
  <2>4. LockHolds' /\ RowAtPoint'
    <3>1. status = "failed"
      BY <1>a, <1>15 DEF TypeOK, RowAtPoint, FinalizeLost, Terminal
    <3> QED
      BY <1>a, <1>15, <3>1 DEF LockHolds, RowAtPoint, FinalizeLost, row, ledger, local,
         limits
  <2>5. ErrorAtPoint'
    BY <1>a, <1>15 DEF ErrorAtPoint, RowAtPoint, LockHolds, Unbilled, FinalizeLost, row,
       ledger, local, limits
  <2>6. LedgerFaithful'
    BY <1>a, <1>15 DEF LedgerFaithful, BilledOnce, Unbilled, FinalizeLost, row, ledger,
       local, limits
  <2> QED
    BY <2>1, <2>2, <2>3, <2>4, <2>5, <2>6 DEF IInv
<1>16. CASE AnnounceDone
  <2>1. TypeOK'
    BY <1>a, <1>16 DEF TypeOK, AnnounceDone, row, ledger, local, limits, PC, InTry
  <2>2. AtMostOneAIRun' /\ BilledOnce'
    BY <1>a, <1>16 DEF AtMostOneAIRun, BilledOnce, Unbilled, AnnounceDone, row, ledger,
       local, limits
  <2>3. DoneIsComplete'
    BY <1>a, <1>16 DEF DoneIsComplete, RowAtPoint, AnnounceDone, row, ledger, local, limits
  <2>4. LockHolds' /\ RowAtPoint'
    BY <1>a, <1>16 DEF LockHolds, RowAtPoint, Terminal, AnnounceDone, row, ledger, local, limits
  <2>5. ErrorAtPoint'
    BY <1>a, <1>16 DEF ErrorAtPoint, RowAtPoint, LockHolds, Unbilled, AnnounceDone, row,
       ledger, local, limits
  <2>6. LedgerFaithful'
    BY <1>a, <1>16 DEF LedgerFaithful, BilledOnce, Unbilled, AnnounceDone, row, ledger,
       local, limits
  <2> QED
    BY <2>1, <2>2, <2>3, <2>4, <2>5, <2>6 DEF IInv
<1>17. CASE RecordLost
  <2> DEFINE r == LostRow
  <2>1. airuns = <<>> /\ airuns' = Append(<<>>, r)
    BY <1>a, <1>17 DEF RecordLost, BilledOnce, Unbilled
  <2>2. r \in AIRunRow
    <3>1. 0 \in 0 .. MaxRounds
      BY BoundsAssumption
    <3>2. error \in Errors
      BY <1>a DEF TypeOK
    <3> QED
      BY <3>1, <3>2 DEF AIRunRow, Terminal, Errors, LostRow
  <2>3. /\ airuns' = <<r>> /\ airuns' # <<>> /\ Len(airuns') = 1 /\ DOMAIN airuns' = {1}
        /\ airuns'[1] = r /\ airuns' \in Seq(AIRunRow)
    <3> HIDE DEF r
    <3> QED BY <2>1, <2>2, FirstRow
  <2>4. pc' \in PC /\ status' \in Terminal \cup {"absent", "streaming"} /\ error' \in Errors
    BY <1>a, <1>17 DEF TypeOK, RecordLost, row, local, limits, PC, InTry, Terminal, Errors
  <2>5. TypeOK'
    BY <1>a, <1>17, <2>3, <2>4 DEF TypeOK, RecordLost, row, local, limits
  <2>6. status' = "failed"
    BY <1>a, <1>17 DEF RowAtPoint, RecordLost, row, local, limits
  <2>7. AtMostOneAIRun' /\ BilledOnce'
    BY <1>17, <2>3, <2>6 DEF AtMostOneAIRun, BilledOnce, Unbilled, Terminal, RecordLost
  <2>8. DoneIsComplete'
    <3>1. r.status = "failed"
      BY DEF LostRow
    <3> HIDE DEF r
    <3> QED
      BY <2>3, <2>6, <3>1 DEF DoneIsComplete
  <2>9. LockHolds' /\ RowAtPoint'
    BY <1>a, <1>17 DEF LockHolds, RowAtPoint, RecordLost, row, local, limits
  <2>10. error' = "cancelled"
    BY <1>a, <1>17 DEF RowAtPoint, LockHolds, ErrorAtPoint, Unbilled, RecordLost, row,
       local, limits
  <2>11. ErrorAtPoint'
    BY <1>a, <1>17, <2>6, <2>10 DEF ErrorAtPoint, Unbilled, RecordLost
  <2>12. LedgerFaithful'
    <3>1. r.cost = (IF r.error = "cancelled" THEN 0 ELSE counts) /\ counts' = counts
      BY <1>a, <1>17 DEF RowAtPoint, ErrorAtPoint, Unbilled, RecordLost, row, local,
         limits, LostRow
    <3>2. error' = "cancelled" => r.error = "cancelled"
      BY <1>a, <1>17, <2>10 DEF RowAtPoint, ErrorAtPoint, Unbilled, RecordLost, LostRow
    <3> HIDE DEF r
    <3> QED
      BY <2>3, <3>1, <3>2 DEF LedgerFaithful
  <2> QED
    BY <2>5, <2>7, <2>8, <2>9, <2>11, <2>12 DEF IInv
<1>18. CASE CommitDone
  <2> DEFINE r == [status |-> "done", error |-> "", cost |-> counts]
  <2>1. airuns = <<>> /\ airuns' = Append(<<>>, r)
    BY <1>a, <1>18 DEF CommitDone, BilledOnce, Unbilled
  <2>2. r \in AIRunRow
    BY <1>a, BoundsAssumption DEF TypeOK, AIRunRow, Terminal, Errors
  <2>3. /\ airuns' = <<r>> /\ airuns' # <<>> /\ Len(airuns') = 1 /\ DOMAIN airuns' = {1}
        /\ airuns'[1] = r /\ airuns' \in Seq(AIRunRow)
    <3> HIDE DEF r
    <3> QED BY <2>1, <2>2, FirstRow
  <2>4. pc' \in PC /\ status' \in Terminal \cup {"absent", "streaming"} /\ error' \in Errors
    BY <1>a, <1>18 DEF TypeOK, CommitDone, local, limits, PC, InTry, Terminal, Errors
  <2>5. TypeOK'
    BY <1>a, <1>18, <2>3, <2>4 DEF TypeOK, CommitDone, local, limits
  <2>6. status' = "done"
    BY <1>a, <1>18 DEF RowAtPoint, CommitDone, local, limits
  <2>7. AtMostOneAIRun' /\ BilledOnce'
    <3> HIDE DEF r
    <3>1. pc' = "returning"
      BY <1>18 DEF CommitDone
    <3>2. AtMostOneAIRun'
      BY <2>3 DEF AtMostOneAIRun
    <3>3. BilledOnce'
      BY <2>6, <3>1 DEF BilledOnce, Unbilled, Terminal
    <3> QED
      BY <3>2, <3>3
  <2>8. DoneIsComplete'
    <3>1. content' = buffer' /\ toolcalls' = tool_events' /\ counts' = counts
      BY <1>18 DEF CommitDone, local
    <3> QED
      BY <2>3, <2>6, <3>1 DEF DoneIsComplete
  <2>9. LockHolds' /\ RowAtPoint'
    BY <1>a, <1>18 DEF LockHolds, RowAtPoint, CommitDone, local, limits
  <2>10. error' = ""
    BY <1>a, <1>18 DEF RowAtPoint, LockHolds, ErrorAtPoint, Unbilled, CommitDone, local,
       limits
  <2>11. ErrorAtPoint'
    BY <1>a, <1>18, <2>6, <2>10 DEF ErrorAtPoint, Unbilled, CommitDone
  <2>12. LedgerFaithful'
    <3>1. r.cost = (IF r.error = "cancelled" THEN 0 ELSE counts) /\ counts' = counts
      BY <1>a, <1>18 DEF RowAtPoint, ErrorAtPoint, Unbilled, CommitDone, local, limits
    <3>2. error' = "cancelled" => r.error = "cancelled"
      BY <1>a, <1>18, <2>10 DEF RowAtPoint, ErrorAtPoint, Unbilled
    <3> HIDE DEF r
    <3> QED
      BY <2>3, <3>1, <3>2 DEF LedgerFaithful
  <2> QED
    BY <2>5, <2>7, <2>8, <2>9, <2>11, <2>12 DEF IInv
<1>19. CASE CommitError
  <2> DEFINE r == [status |-> "failed", error |-> "provider", cost |-> counts]
  <2>1. airuns = <<>> /\ airuns' = Append(<<>>, r)
    BY <1>a, <1>19 DEF CommitError, BilledOnce, Unbilled
  <2>2. r \in AIRunRow
    BY <1>a, BoundsAssumption DEF TypeOK, AIRunRow, Terminal, Errors
  <2>3. /\ airuns' = <<r>> /\ airuns' # <<>> /\ Len(airuns') = 1 /\ DOMAIN airuns' = {1}
        /\ airuns'[1] = r /\ airuns' \in Seq(AIRunRow)
    <3> HIDE DEF r
    <3> QED BY <2>1, <2>2, FirstRow
  <2>4. pc' \in PC /\ status' \in Terminal \cup {"absent", "streaming"} /\ error' \in Errors
    BY <1>a, <1>19 DEF TypeOK, CommitError, local, limits, PC, InTry, Terminal, Errors
  <2>5. TypeOK'
    BY <1>a, <1>19, <2>3, <2>4 DEF TypeOK, CommitError, local, limits
  <2>6. status' = "failed"
    BY <1>a, <1>19 DEF RowAtPoint, CommitError, local, limits
  <2>7. AtMostOneAIRun' /\ BilledOnce'
    BY <1>19, <2>3, <2>6 DEF AtMostOneAIRun, BilledOnce, Unbilled, Terminal, CommitError
  <2>8. DoneIsComplete'
    <3>1. r.status = "failed"
      OBVIOUS
    <3> HIDE DEF r
    <3> QED
      BY <2>3, <2>6, <3>1 DEF DoneIsComplete
  <2>9. LockHolds' /\ RowAtPoint'
    BY <1>a, <1>19 DEF LockHolds, RowAtPoint, CommitError, local, limits
  <2>10. error' = "provider"
    BY <1>a, <1>19 DEF RowAtPoint, LockHolds, ErrorAtPoint, Unbilled, CommitError, local,
       limits
  <2>11. ErrorAtPoint'
    BY <1>a, <1>19, <2>6, <2>10 DEF ErrorAtPoint, Unbilled, CommitError
  <2>12. LedgerFaithful'
    <3>1. r.cost = (IF r.error = "cancelled" THEN 0 ELSE counts) /\ counts' = counts
      BY <1>a, <1>19 DEF RowAtPoint, ErrorAtPoint, Unbilled, CommitError, local, limits
    <3>2. error' = "cancelled" => r.error = "cancelled"
      BY <1>a, <1>19, <2>10 DEF RowAtPoint, ErrorAtPoint, Unbilled
    <3> HIDE DEF r
    <3> QED
      BY <2>3, <3>1, <3>2 DEF LedgerFaithful
  <2> QED
    BY <2>5, <2>7, <2>8, <2>9, <2>11, <2>12 DEF IInv
<1>20. CASE Return
  <2>1. TypeOK'
    BY <1>a, <1>20 DEF TypeOK, Return, row, ledger, local, limits, PC, InTry
  <2>2. AtMostOneAIRun' /\ BilledOnce'
    BY <1>a, <1>20 DEF AtMostOneAIRun, BilledOnce, Unbilled, Return, row, ledger, local,
       limits
  <2>3. DoneIsComplete'
    BY <1>a, <1>20 DEF DoneIsComplete, RowAtPoint, Return, row, ledger, local, limits
  <2>4. LockHolds' /\ RowAtPoint'
    BY <1>a, <1>20 DEF LockHolds, RowAtPoint, Return, row, ledger, local, limits
  <2>5. ErrorAtPoint'
    BY <1>a, <1>20 DEF ErrorAtPoint, RowAtPoint, LockHolds, Unbilled, Return, row, ledger,
       local, limits
  <2>6. LedgerFaithful'
    BY <1>a, <1>20 DEF LedgerFaithful, BilledOnce, Unbilled, Return, row, ledger, local,
       limits
  <2> QED
    BY <2>1, <2>2, <2>3, <2>4, <2>5, <2>6 DEF IInv
<1>21. CASE LimitFails
  <2>1. TypeOK'
    <3>1. pc' \in PC /\ status' \in Terminal \cup {"absent", "streaming"} /\ error' \in Errors
      BY <1>a, <1>21 DEF TypeOK, LimitFails, ledger, local, limits, PC, InTry, Terminal,
         Errors
    <3>2. txn' \in Terminal \cup {"none"}
      BY <1>a, <1>21 DEF TypeOK, LimitFails, ledger, local, limits, Terminal
    <3> QED
      BY <1>a, <1>21, <3>1, <3>2 DEF TypeOK, LimitFails, ledger, local, limits
  <2>2. AtMostOneAIRun' /\ BilledOnce'
    BY <1>a, <1>21 DEF AtMostOneAIRun, BilledOnce, Unbilled, Terminal, LimitFails, ledger,
       local, limits
  <2>3. DoneIsComplete'
    BY <1>a, <1>21 DEF DoneIsComplete, RowAtPoint, LimitFails, ledger, local, limits
  <2>4. LockHolds' /\ RowAtPoint'
    BY <1>a, <1>21 DEF LockHolds, RowAtPoint, Terminal, LimitFails, ledger, local, limits
  <2>5. ErrorAtPoint'
    BY <1>a, <1>21 DEF ErrorAtPoint, RowAtPoint, LockHolds, Unbilled, Terminal,
       LimitFails, ledger, local, limits
  <2>6. LedgerFaithful'
    BY <1>a, <1>21 DEF LedgerFaithful, BilledOnce, Unbilled, Terminal, LimitFails, ledger,
       local, limits
  <2> QED
    BY <2>1, <2>2, <2>3, <2>4, <2>5, <2>6 DEF IInv
<1>22. CASE LimitTooLate
  <2>1. TypeOK'
    <3>1. stop_flag' \in BOOLEAN /\ pc' \in PC
      BY <1>a, <1>22 DEF TypeOK, LimitTooLate, PC, InTry
    <3> QED
      BY <1>a, <1>22, <3>1 DEF TypeOK, LimitTooLate, row, ledger, local, limits
  <2>2. AtMostOneAIRun' /\ BilledOnce'
    BY <1>a, <1>22 DEF AtMostOneAIRun, BilledOnce, Unbilled, LimitTooLate, row, ledger,
       local, limits
  <2>3. DoneIsComplete'
    BY <1>a, <1>22 DEF DoneIsComplete, RowAtPoint, LimitTooLate, row, ledger, local, limits
  <2>4. LockHolds' /\ RowAtPoint'
    BY <1>a, <1>22 DEF LockHolds, RowAtPoint, LimitTooLate, row, ledger, local, limits
  <2>5. ErrorAtPoint'
    BY <1>a, <1>22 DEF ErrorAtPoint, RowAtPoint, LockHolds, Unbilled, LimitTooLate, row,
       ledger, local, limits
  <2>6. LedgerFaithful'
    BY <1>a, <1>22 DEF LedgerFaithful, BilledOnce, Unbilled, LimitTooLate, row, ledger,
       local, limits
  <2> QED
    BY <2>1, <2>2, <2>3, <2>4, <2>5, <2>6 DEF IInv
<1>23. CASE LimitBills
  <2> DEFINE r == [status |-> "failed", error |-> "limit", cost |-> counts]
  <2>1. airuns = <<>> /\ airuns' = Append(<<>>, r)
    BY <1>a, <1>23 DEF LimitBills, BilledOnce, Unbilled
  <2>2. r \in AIRunRow
    BY <1>a, BoundsAssumption DEF TypeOK, AIRunRow, Terminal, Errors
  <2>3. /\ airuns' = <<r>> /\ airuns' # <<>> /\ Len(airuns') = 1 /\ DOMAIN airuns' = {1}
        /\ airuns'[1] = r /\ airuns' \in Seq(AIRunRow)
    <3> HIDE DEF r
    <3> QED BY <2>1, <2>2, FirstRow
  <2>4. pc' \in PC /\ status' \in Terminal \cup {"absent", "streaming"} /\ error' \in Errors
    BY <1>a, <1>23 DEF TypeOK, LimitBills, row, local, limits, PC, InTry, Terminal, Errors
  <2>5. TypeOK'
    BY <1>a, <1>23, <2>3, <2>4 DEF TypeOK, LimitBills, row, local, limits
  <2>6. status' = "failed"
    BY <1>a, <1>23 DEF RowAtPoint, LimitBills, row, local, limits
  <2>7. AtMostOneAIRun' /\ BilledOnce'
    BY <1>23, <2>3, <2>6 DEF AtMostOneAIRun, BilledOnce, Unbilled, Terminal, LimitBills
  <2>8. DoneIsComplete'
    <3>1. r.status = "failed"
      OBVIOUS
    <3> HIDE DEF r
    <3> QED
      BY <2>3, <2>6, <3>1 DEF DoneIsComplete
  <2>9. LockHolds' /\ RowAtPoint'
    BY <1>a, <1>23 DEF LockHolds, RowAtPoint, LimitBills, row, local, limits
  <2>10. error' = "limit"
    BY <1>a, <1>23 DEF RowAtPoint, LockHolds, ErrorAtPoint, Unbilled, LimitBills, row,
       local, limits
  <2>11. ErrorAtPoint'
    BY <1>a, <1>23, <2>6, <2>10 DEF ErrorAtPoint, Unbilled, LimitBills
  <2>12. LedgerFaithful'
    <3>1. r.cost = (IF r.error = "cancelled" THEN 0 ELSE counts) /\ counts' = counts
      BY <1>a, <1>23 DEF RowAtPoint, ErrorAtPoint, Unbilled, LimitBills, row, local, limits
    <3>2. error' = "cancelled" => r.error = "cancelled"
      BY <1>a, <1>23, <2>10 DEF RowAtPoint, ErrorAtPoint, Unbilled
    <3> HIDE DEF r
    <3> QED
      BY <2>3, <3>1, <3>2 DEF LedgerFaithful
  <2> QED
    BY <2>5, <2>7, <2>8, <2>9, <2>11, <2>12 DEF IInv
<1>24. CASE LimitTells
  <2>1. TypeOK'
    BY <1>a, <1>24 DEF TypeOK, LimitTells, row, ledger, local, limits, PC, InTry
  <2>2. AtMostOneAIRun' /\ BilledOnce'
    BY <1>a, <1>24 DEF AtMostOneAIRun, BilledOnce, Unbilled, LimitTells, row, ledger,
       local, limits
  <2>3. DoneIsComplete'
    BY <1>a, <1>24 DEF DoneIsComplete, RowAtPoint, LimitTells, row, ledger, local, limits
  <2>4. LockHolds' /\ RowAtPoint'
    BY <1>a, <1>24 DEF LockHolds, RowAtPoint, LimitTells, row, ledger, local, limits
  <2>5. ErrorAtPoint'
    BY <1>a, <1>24 DEF ErrorAtPoint, RowAtPoint, LockHolds, Unbilled, LimitTells, row,
       ledger, local, limits
  <2>6. LedgerFaithful'
    BY <1>a, <1>24 DEF LedgerFaithful, BilledOnce, Unbilled, LimitTells, row, ledger,
       local, limits
  <2> QED
    BY <2>1, <2>2, <2>3, <2>4, <2>5, <2>6 DEF IInv
<1>25. CASE SoftLimit
  <2>1. TypeOK'
    BY <1>a, <1>25 DEF TypeOK, SoftLimit, Flushed, ledger, local, PC, InTry
  <2>2. AtMostOneAIRun' /\ BilledOnce'
    BY <1>a, <1>25 DEF AtMostOneAIRun, BilledOnce, Unbilled, InTry, SoftLimit, Flushed,
       ledger, local
  <2>3. DoneIsComplete'
    BY <1>a, <1>25 DEF DoneIsComplete, RowAtPoint, SoftLimit, Flushed, ledger, local
  <2>4. LockHolds' /\ RowAtPoint'
    BY <1>a, <1>25 DEF LockHolds, RowAtPoint, InTry, SoftLimit, Flushed, ledger, local
  <2>5. ErrorAtPoint'
    BY <1>a, <1>25 DEF ErrorAtPoint, RowAtPoint, LockHolds, Unbilled, InTry, SoftLimit,
       Flushed, ledger, local
  <2>6. LedgerFaithful'
    BY <1>a, <1>25 DEF LedgerFaithful, BilledOnce, Unbilled, SoftLimit, Flushed, ledger,
       local
  <2> QED
    BY <2>1, <2>2, <2>3, <2>4, <2>5, <2>6 DEF IInv
<1>26. CASE SoftLimitSwallowed
  <2>1. TypeOK'
    BY <1>a, <1>26 DEF TypeOK, SoftLimitSwallowed, row, ledger, local
  <2>2. AtMostOneAIRun' /\ BilledOnce'
    BY <1>a, <1>26 DEF AtMostOneAIRun, BilledOnce, Unbilled, SoftLimitSwallowed, row,
       ledger, local
  <2>3. DoneIsComplete'
    BY <1>a, <1>26 DEF DoneIsComplete, RowAtPoint, SoftLimitSwallowed, row, ledger, local
  <2>4. LockHolds' /\ RowAtPoint'
    BY <1>a, <1>26 DEF LockHolds, RowAtPoint, SoftLimitSwallowed, row, ledger, local
  <2>5. ErrorAtPoint'
    BY <1>a, <1>26 DEF ErrorAtPoint, RowAtPoint, LockHolds, Unbilled, SoftLimitSwallowed,
       row, ledger, local
  <2>6. LedgerFaithful'
    BY <1>a, <1>26 DEF LedgerFaithful, BilledOnce, Unbilled, SoftLimitSwallowed, row,
       ledger, local
  <2> QED
    BY <2>1, <2>2, <2>3, <2>4, <2>5, <2>6 DEF IInv
<1>27. CASE SoftLimitEscapes
  <2>1. TypeOK'
    BY <1>a, <1>27 DEF TypeOK, SoftLimitEscapes, row, ledger, local, PC, InTry
  <2>2. AtMostOneAIRun' /\ BilledOnce'
    BY <1>a, <1>27 DEF AtMostOneAIRun, BilledOnce, Unbilled, SoftLimitEscapes, row,
       ledger, local
  <2>3. DoneIsComplete'
    BY <1>a, <1>27 DEF DoneIsComplete, RowAtPoint, SoftLimitEscapes, row, ledger, local
  <2>4. LockHolds' /\ RowAtPoint'
    BY <1>a, <1>27 DEF LockHolds, RowAtPoint, SoftLimitEscapes, row, ledger, local
  <2>5. ErrorAtPoint'
    BY <1>a, <1>27 DEF ErrorAtPoint, RowAtPoint, LockHolds, Unbilled, SoftLimitEscapes,
       row, ledger, local
  <2>6. LedgerFaithful'
    BY <1>a, <1>27 DEF LedgerFaithful, BilledOnce, Unbilled, SoftLimitEscapes, row,
       ledger, local
  <2> QED
    BY <2>1, <2>2, <2>3, <2>4, <2>5, <2>6 DEF IInv
<1>28. CASE HardLimit
  <2>1. TypeOK'
    BY <1>a, <1>28 DEF TypeOK, HardLimit, Dies, row, ledger, local, PC, InTry
  <2>2. AtMostOneAIRun' /\ BilledOnce'
    BY <1>a, <1>28 DEF AtMostOneAIRun, BilledOnce, Unbilled, HardLimit, Dies, row, ledger,
       local
  <2>3. DoneIsComplete'
    BY <1>a, <1>28 DEF DoneIsComplete, RowAtPoint, HardLimit, Dies, row, ledger, local
  <2>4. LockHolds' /\ RowAtPoint'
    BY <1>a, <1>28 DEF LockHolds, RowAtPoint, HardLimit, Dies, row, ledger, local
  <2>5. ErrorAtPoint'
    BY <1>a, <1>28 DEF ErrorAtPoint, RowAtPoint, LockHolds, Unbilled, HardLimit, Dies,
       row, ledger, local
  <2>6. LedgerFaithful'
    BY <1>a, <1>28 DEF LedgerFaithful, BilledOnce, Unbilled, HardLimit, Dies, row, ledger,
       local
  <2> QED
    BY <2>1, <2>2, <2>3, <2>4, <2>5, <2>6 DEF IInv
<1>29. CASE Crash
  <2>1. TypeOK'
    BY <1>a, <1>29 DEF TypeOK, Crash, Dies, row, ledger, local, PC, InTry
  <2>2. AtMostOneAIRun' /\ BilledOnce'
    BY <1>a, <1>29 DEF AtMostOneAIRun, BilledOnce, Unbilled, Crash, Dies, row, ledger, local
  <2>3. DoneIsComplete'
    BY <1>a, <1>29 DEF DoneIsComplete, RowAtPoint, Crash, Dies, row, ledger, local
  <2>4. LockHolds' /\ RowAtPoint'
    BY <1>a, <1>29 DEF LockHolds, RowAtPoint, Crash, Dies, row, ledger, local
  <2>5. ErrorAtPoint'
    BY <1>a, <1>29 DEF ErrorAtPoint, RowAtPoint, LockHolds, Unbilled, Crash, Dies, row,
       ledger, local
  <2>6. LedgerFaithful'
    BY <1>a, <1>29 DEF LedgerFaithful, BilledOnce, Unbilled, Crash, Dies, row, ledger, local
  <2> QED
    BY <2>1, <2>2, <2>3, <2>4, <2>5, <2>6 DEF IInv
<1>30. CASE StopCancels
  <2>1. TypeOK'
    <3>1. pc' \in PC /\ status' \in Terminal \cup {"absent", "streaming"} /\ error' \in Errors
      BY <1>a, <1>30 DEF TypeOK, StopCancels, ledger, local, limits, PC, InTry, Terminal,
         Errors
    <3>2. txn' \in Terminal \cup {"none"}
      BY <1>a, <1>30 DEF TypeOK, StopCancels, ledger, local, limits, Terminal
    <3> QED
      BY <1>a, <1>30, <3>1, <3>2 DEF TypeOK, StopCancels, ledger, local, limits
  <2>2. AtMostOneAIRun' /\ BilledOnce'
    BY <1>a, <1>30 DEF AtMostOneAIRun, BilledOnce, Unbilled, Terminal, StopCancels,
       ledger, local, limits
  <2>3. DoneIsComplete'
    BY <1>a, <1>30 DEF DoneIsComplete, RowAtPoint, StopCancels, ledger, local, limits
  <2>4. LockHolds' /\ RowAtPoint'
    BY <1>a, <1>30 DEF LockHolds, RowAtPoint, Terminal, StopCancels, ledger, local, limits
  <2>5. ErrorAtPoint'
    BY <1>a, <1>30 DEF ErrorAtPoint, RowAtPoint, LockHolds, Unbilled, Terminal,
       StopCancels, ledger, local, limits
  <2>6. LedgerFaithful'
    BY <1>a, <1>30 DEF LedgerFaithful, BilledOnce, Unbilled, Terminal, StopCancels,
       ledger, local, limits
  <2> QED
    BY <2>1, <2>2, <2>3, <2>4, <2>5, <2>6 DEF IInv
<1>31. CASE StopSignals
  <2>1. TypeOK'
    BY <1>a, <1>31 DEF TypeOK, StopSignals, row, ledger, local, limits
  <2>2. AtMostOneAIRun' /\ BilledOnce'
    BY <1>a, <1>31 DEF AtMostOneAIRun, BilledOnce, Unbilled, StopSignals, row, ledger,
       local, limits
  <2>3. DoneIsComplete'
    BY <1>a, <1>31 DEF DoneIsComplete, RowAtPoint, StopSignals, row, ledger, local, limits
  <2>4. LockHolds' /\ RowAtPoint'
    BY <1>a, <1>31 DEF LockHolds, RowAtPoint, StopSignals, row, ledger, local, limits
  <2>5. ErrorAtPoint'
    BY <1>a, <1>31 DEF ErrorAtPoint, RowAtPoint, LockHolds, Unbilled, StopSignals, row,
       ledger, local, limits
  <2>6. LedgerFaithful'
    BY <1>a, <1>31 DEF LedgerFaithful, BilledOnce, Unbilled, StopSignals, row, ledger,
       local, limits
  <2> QED
    BY <2>1, <2>2, <2>3, <2>4, <2>5, <2>6 DEF IInv
<1>32. CASE StopTells
  <2>1. TypeOK'
    BY <1>a, <1>32 DEF TypeOK, StopTells, row, ledger, local, limits
  <2>2. AtMostOneAIRun' /\ BilledOnce'
    BY <1>a, <1>32 DEF AtMostOneAIRun, BilledOnce, Unbilled, StopTells, row, ledger,
       local, limits
  <2>3. DoneIsComplete'
    BY <1>a, <1>32 DEF DoneIsComplete, RowAtPoint, StopTells, row, ledger, local, limits
  <2>4. LockHolds' /\ RowAtPoint'
    BY <1>a, <1>32 DEF LockHolds, RowAtPoint, StopTells, row, ledger, local, limits
  <2>5. ErrorAtPoint'
    BY <1>a, <1>32 DEF ErrorAtPoint, RowAtPoint, LockHolds, Unbilled, StopTells, row,
       ledger, local, limits
  <2>6. LedgerFaithful'
    BY <1>a, <1>32 DEF LedgerFaithful, BilledOnce, Unbilled, StopTells, row, ledger,
       local, limits
  <2> QED
    BY <2>1, <2>2, <2>3, <2>4, <2>5, <2>6 DEF IInv
<1>33. CASE StopFlagExpires
  <2>1. TypeOK'
    BY <1>a, <1>33 DEF TypeOK, StopFlagExpires, row, ledger, local, limits
  <2>2. AtMostOneAIRun' /\ BilledOnce'
    BY <1>a, <1>33 DEF AtMostOneAIRun, BilledOnce, Unbilled, StopFlagExpires, row, ledger,
       local, limits
  <2>3. DoneIsComplete'
    BY <1>a, <1>33 DEF DoneIsComplete, RowAtPoint, StopFlagExpires, row, ledger, local,
       limits
  <2>4. LockHolds' /\ RowAtPoint'
    BY <1>a, <1>33 DEF LockHolds, RowAtPoint, StopFlagExpires, row, ledger, local, limits
  <2>5. ErrorAtPoint'
    BY <1>a, <1>33 DEF ErrorAtPoint, RowAtPoint, LockHolds, Unbilled, StopFlagExpires,
       row, ledger, local, limits
  <2>6. LedgerFaithful'
    BY <1>a, <1>33 DEF LedgerFaithful, BilledOnce, Unbilled, StopFlagExpires, row, ledger,
       local, limits
  <2> QED
    BY <2>1, <2>2, <2>3, <2>4, <2>5, <2>6 DEF IInv
<1>34. CASE UNCHANGED vars
  <2> USE <1>a, <1>34 DEF vars, row, ledger, local, limits
  <2>1. TypeOK'
    BY DEF TypeOK
  <2>2. AtMostOneAIRun' /\ DoneIsComplete'
    BY DEF AtMostOneAIRun, DoneIsComplete
  <2>3. BilledOnce' /\ LockHolds' /\ RowAtPoint' /\ ErrorAtPoint'
    BY DEF BilledOnce, LockHolds, RowAtPoint, ErrorAtPoint
  <2>4. LedgerFaithful'
    BY DEF LedgerFaithful
  <2> QED
    BY <2>1, <2>2, <2>3, <2>4 DEF IInv
<1> QED
  BY <1>1, <1>2, <1>3, <1>4, <1>5, <1>6, <1>7, <1>8, <1>9, <1>10, <1>11, <1>12, <1>13,
     <1>14, <1>15,
     <1>16, <1>17, <1>18, <1>19, <1>20, <1>21, <1>22, <1>23, <1>24, <1>25, <1>26, <1>27, <1>28, <1>29, <1>30, <1>31, <1>32, <1>33, <1>34 DEF Next, Stream, Straight,
     Limits, Stop

\* Every reachable state of every run satisfies the inductive invariant.
LEMMA Invariance == Spec => []IInv
  BY InitInv, NextInv, PTL DEF Spec

-----------------------------------------------------------------------------

\* The row, the ledger and the task's state stay in their ranges, for any
\* number of deltas and rounds.
THEOREM TypeCorrect == Spec => []TypeOK
<1>1. IInv => TypeOK
  BY DEF IInv
<1> QED
  BY <1>1, Invariance, PTL

\* A message is accounted for at most once (AIRun.message is one-to-one).
THEOREM OneAIRun == Spec => []AtMostOneAIRun
<1>1. IInv => AtMostOneAIRun
  BY DEF IInv
<1> QED
  BY <1>1, Invariance, PTL

\* A "done" answer is the whole streamed answer with its tool calls and its one
\* "done" ledger row, and no other message has such a row.
THEOREM CompleteDone == Spec => []DoneIsComplete
<1>1. IInv => DoneIsComplete
  BY DEF IInv
<1> QED
  BY <1>1, Invariance, PTL

\* The ledger charges a run the usage of its last attempt, or nothing if it
\* was cancelled.
THEOREM FaithfulLedger == Spec => []LedgerFaithful
<1>1. IInv => LedgerFaithful
  BY DEF IInv
<1> QED
  BY <1>1, Invariance, PTL

-----------------------------------------------------------------------------

\* What a step can do to the row of a run that has its verdict.
LEMMA FrozenStep ==
  ASSUME IInv, [Next]_vars, status \in Terminal, ~err
  PROVE  row' = row
<1>a. LockHolds /\ RowAtPoint /\ status \notin {"absent", "streaming"}
  BY DEF IInv, Terminal
<1>1. CASE Stream
  BY <1>a, <1>1 DEF Stream, TextDelta, ToolRound, StreamDone, StreamError, PollStop,
     Flushed, row
<1>2. CASE Straight
  <2>1. CASE ResolveFails \/ CreateMessage
    BY <1>a, <2>1 DEF ResolveFails, CreateMessage, RowAtPoint
  <2>2. CASE CommitDone \/ LimitFails
    BY <1>a, <2>2 DEF CommitDone, LimitFails, LockHolds
  <2>3. CASE CommitError
    BY <1>a, <2>3 DEF CommitError, LockHolds, RowAtPoint
  <2> QED
    BY <1>2, <2>1, <2>2, <2>3 DEF Straight, AnnounceStart, Failover, ClearStop, RefreshRow,
       RecordCancelled, SaveError, Finalize, FinalizeLost, AnnounceDone, RecordLost, Return,
       LimitTooLate, LimitBills, LimitTells
<1>3. CASE Limits
  BY <1>a, <1>3 DEF Limits, SoftLimit, SoftLimitSwallowed, SoftLimitEscapes, HardLimit,
     Crash,
     Dies, Flushed, row
<1>4. CASE Stop
  BY <1>a, <1>4 DEF Stop, StopCancels, StopSignals, StopTells, StopFlagExpires
<1>5. CASE UNCHANGED vars
  BY <1>5 DEF vars
<1> QED
  BY <1>1, <1>2, <1>3, <1>4, <1>5 DEF Next

\* A row that reached its verdict never changes again, unless the provider
\* failed: no late flush or finalization touches it.
THEOREM Frozen == Spec => FrozenUnlessError
<1>1. IInv /\ [Next]_vars => [(status \in Terminal /\ ~err) => (row' = row)]_vars
  BY FrozenStep
<1> QED
  BY <1>1, Invariance, PTL DEF Spec, FrozenUnlessError

-----------------------------------------------------------------------------
(* What the browsers are told.  SettledClientAgrees looks at the end only; *)
(* on the way there it depends on who gave the row its verdict and on who  *)
(* has still to speak.                                                     *)

\* The last verdict that was broadcast.
LastSent == IF sent = <<>> THEN "none" ELSE sent[Len(sent)]

\* The task does not end by itself before the row has its verdict.
EndsSettled ==
    /\ pc = "returning" \/ (pc = "over" /\ died = "no") => status \in Terminal
    /\ status = "failed" <=> error # ""

\* Why the message failed tells who failed it.
FailedBy ==
    /\ error = "cancelled" => web # "idle"
    /\ web # "idle" => status = "failed"
    /\ error = "limit" => pc \in {"limit_bill", "limit_tell", "over"}

\* What was broadcast last at the points where the verdict is, or is about to be, fixed.
ToldAtPoint ==
    /\ status = "done" \/ (pc = "commit" /\ txn = "done") => LastSent = "message_done"
    /\ pc = "commit" /\ txn = "failed" => LastSent = "error"
    /\ error \in {"provider", "rejected"} \/ web = "told" => LastSent = "error"
    /\ error = "limit" /\ pc = "over" /\ died = "no" => LastSent = "error"

Told == EndsSettled /\ FailedBy /\ ToldAtPoint

\* A verdict that is broadcast is the last one then.
LEMMA LastOf ==
  ASSUME TypeOK
  PROVE  /\ \A v \in {"message_done", "error"} : sent' = Append(sent, v) => LastSent' = v
         /\ sent' = sent => LastSent' = LastSent
<1>1. ASSUME NEW v \in {"message_done", "error"}, sent' = Append(sent, v) PROVE LastSent' = v
  <2>1. sent \in Seq({"message_done", "error"})
    BY DEF TypeOK
  <2>2. Append(sent, v) # <<>> /\ Append(sent, v)[Len(Append(sent, v))] = v
    BY <2>1
  <2> QED
    BY <1>1, <2>2 DEF LastSent
<1> QED
  BY <1>1 DEF LastSent

\* Initially nobody has been told.
LEMMA InitTold == Init => Told
  BY DEF Init, Told, EndsSettled, FailedBy, ToldAtPoint, LastSent

\* Every step of the task, of the limits and of the stop endpoint keeps it.
LEMMA NextTold == IInv /\ Told /\ [Next]_vars => Told'
<1> SUFFICES ASSUME IInv, Told, [Next]_vars PROVE Told'
  OBVIOUS
<1>a. LockHolds /\ RowAtPoint /\ ErrorAtPoint /\ EndsSettled /\ FailedBy /\ ToldAtPoint
  BY DEF IInv, Told
<1>b. /\ \A v \in {"message_done", "error"} : sent' = Append(sent, v) => LastSent' = v
      /\ sent' = sent => LastSent' = LastSent
  BY LastOf DEF IInv
<1>c. /\ status \in {"absent", "streaming", "done", "failed"} /\ txn \in {"none", "done", "failed"}
      /\ error \in {"", "cancelled", "provider", "limit", "rejected"}
  BY DEF IInv, TypeOK, Terminal, Errors
<1> USE DEF row, ledger, local, limits, Terminal
<1>1. CASE Stream
  <2>1. /\ UNCHANGED <<status, error, txn, web, sent, died>>
        /\ pc = "drive" /\ pc' \in {"drive", "after"}
    BY <1>1 DEF Stream, TextDelta, ToolRound, StreamDone, StreamError, PollStop
  <2> QED
    BY <1>a, <1>b, <2>1 DEF Told, EndsSettled, FailedBy, ToldAtPoint
<1>2. CASE ResolveFails \/ CreateMessage \/ AnnounceStart
  BY <1>a, <1>b, <1>c, <1>2 DEF ResolveFails, CreateMessage, AnnounceStart, Told, EndsSettled, FailedBy,
     ToldAtPoint, RowAtPoint, ErrorAtPoint
<1>3. CASE Failover \/ ClearStop \/ RefreshRow
  <2>1. /\ UNCHANGED <<status, error, txn, web, sent, died>>
        /\ pc \in {"after", "tx"} /\ pc' \in {"drive", "tx", "cancelled", "errored", "clean"}
    BY <1>3 DEF Failover, ClearStop, RefreshRow
  <2> QED
    BY <1>a, <1>b, <2>1 DEF Told, EndsSettled, FailedBy, ToldAtPoint
<1>4. CASE RecordCancelled \/ RecordLost
  <2>1. /\ UNCHANGED <<status, error, txn, web, sent, died>>
        /\ pc \in {"cancelled", "lost"} /\ pc' = "returning"
    BY <1>4 DEF RecordCancelled, RecordLost
  <2> QED
    BY <1>a, <1>b, <2>1 DEF Told, EndsSettled, FailedBy, ToldAtPoint, RowAtPoint, ErrorAtPoint, Unbilled
<1>5. CASE SaveError
  BY <1>a, <1>b, <1>c, <1>5 DEF SaveError, Told, EndsSettled, FailedBy, ToldAtPoint, RowAtPoint
<1>6. CASE Finalize \/ FinalizeLost
  BY <1>a, <1>b, <1>c, <1>6 DEF Finalize, FinalizeLost, Told, EndsSettled, FailedBy, ToldAtPoint, RowAtPoint
<1>7. CASE AnnounceDone
  BY <1>a, <1>b, <1>c, <1>7 DEF AnnounceDone, Told, EndsSettled, FailedBy, ToldAtPoint, RowAtPoint, LockHolds,
     ErrorAtPoint
<1>8. CASE CommitDone
  BY <1>a, <1>b, <1>c, <1>8 DEF CommitDone, Told, EndsSettled, FailedBy, ToldAtPoint, RowAtPoint, LockHolds,
     ErrorAtPoint
<1>9. CASE CommitError
  BY <1>a, <1>b, <1>c, <1>9 DEF CommitError, Told, EndsSettled, FailedBy, ToldAtPoint, RowAtPoint, LockHolds,
     ErrorAtPoint
<1>10. CASE Return
  BY <1>a, <1>b, <1>c, <1>10 DEF Return, Told, EndsSettled, FailedBy, ToldAtPoint
<1>11. CASE SoftLimit \/ SoftLimitSwallowed
  <2>1. /\ UNCHANGED <<status, error, web, sent, died>> /\ pc # "over"
        /\ \/ pc' = "limit" /\ txn' = "none" /\ pc \in InTry
           \/ pc' = pc /\ txn' = txn
    BY <1>11 DEF SoftLimit, SoftLimitSwallowed, InTry
  <2> QED
    BY <1>a, <1>b, <1>c, <2>1 DEF Told, EndsSettled, FailedBy, ToldAtPoint, InTry
<1>12. CASE SoftLimitEscapes \/ HardLimit \/ Crash
  <2>1. /\ UNCHANGED <<status, error, web, sent>> /\ died' # "no" /\ pc' = "over"
    BY <1>12 DEF SoftLimitEscapes, HardLimit, Crash, Dies
  <2> QED
    BY <1>a, <1>b, <1>c, <2>1 DEF Told, EndsSettled, FailedBy, ToldAtPoint
<1>13. CASE LimitFails \/ LimitTooLate
  BY <1>a, <1>b, <1>c, <1>13 DEF LimitFails, LimitTooLate, Told, EndsSettled, FailedBy, ToldAtPoint, RowAtPoint
<1>14. CASE LimitBills \/ LimitTells
  BY <1>a, <1>b, <1>c, <1>14 DEF LimitBills, LimitTells, Told, EndsSettled, FailedBy, ToldAtPoint, RowAtPoint
<1>15. CASE StopCancels
  BY <1>a, <1>b, <1>c, <1>15 DEF StopCancels, Told, EndsSettled, FailedBy, ToldAtPoint, RowAtPoint, LockHolds,
     ErrorAtPoint
<1>16. CASE StopSignals \/ StopTells \/ StopFlagExpires
  BY <1>a, <1>b, <1>c, <1>16 DEF StopSignals, StopTells, StopFlagExpires, Told, EndsSettled, FailedBy,
     ToldAtPoint, LockHolds
<1>17. CASE UNCHANGED vars
  BY <1>a, <1>b, <1>17 DEF vars, Told, EndsSettled, FailedBy, ToldAtPoint
<1> QED
  BY <1>1, <1>2, <1>3, <1>4, <1>5, <1>6, <1>7, <1>8, <1>9, <1>10, <1>11, <1>12, <1>13, <1>14, <1>15, <1>16,
     <1>17 DEF Next, Straight, Limits, Stop

\* Every reachable state of every run satisfies it.
LEMMA AlwaysTold == Spec => []Told
<1>1. Init => Told
  BY InitTold
<1>2. IInv /\ Told /\ [Next]_vars => Told'
  BY NextTold
<1> QED
  BY <1>1, <1>2, Invariance, PTL DEF Spec

\* Only a death of the task leaves a message "streaming": every path through the
\* task, its error branch and its soft-limit handler ends with a verdict.
THEOREM Unstuck == Spec => []StuckOnlyIfDied
<1>1. Told => StuckOnlyIfDied
  BY DEF Told, EndsSettled, StuckOnlyIfDied, Terminal
<1> QED
  BY <1>1, AlwaysTold, PTL

\* When the task and the stop request are through, the browsers heard the row's
\* verdict last, also when an announced transaction rolled back.
THEOREM ClientsAgree == Spec => []SettledClientAgrees
<1>1. IInv /\ Told => SettledClientAgrees
  <2> SUFFICES ASSUME IInv, Told, pc = "over", died = "no", web \in {"idle", "told"}
               PROVE  sent # <<>> /\ sent[Len(sent)] = IF status = "done" THEN "message_done" ELSE "error"
    BY DEF SettledClientAgrees
  <2>1. error \in {"", "cancelled", "provider", "limit", "rejected"}
    BY DEF IInv, TypeOK, Errors
  <2>2. LastSent = IF status = "done" THEN "message_done" ELSE "error"
    BY <2>1 DEF Told, EndsSettled, FailedBy, ToldAtPoint, Terminal
  <2> QED
    BY <2>2 DEF LastSent
<1> QED
  BY <1>1, Invariance, AlwaysTold, PTL

-----------------------------------------------------------------------------
(* AIRun implements RunOutcome.                                            *)

\* The ledger's verdict is untouched by a step that adds no row, and a first
\* row brings its own.
LEMMA BillOf ==
  ASSUME NEW r
  PROVE  /\ Append(<<>>, r) # <<>>
         /\ Head(Append(<<>>, r)) = r
  OBVIOUS

\* A run that has not begun is a message that does not exist yet, unbilled.
LEMMA RefineInit == Init => Verdict!Init
  BY DEF Init, Verdict!Init

\* Every step of the run begins, rejects, completes, aborts or records, or shows
\* nothing of itself in the message's verdict and the ledger.
LEMMA RefineNext == IInv /\ IInv' /\ [Next]_vars => [Verdict!Next]_(Verdict!vars)
<1> SUFFICES ASSUME IInv, [Next]_vars PROVE [Verdict!Next]_(Verdict!vars)
  OBVIOUS
<1> DEFINE bill == IF airuns = <<>> THEN "none" ELSE Head(airuns).status
<1>a. TypeOK /\ BilledOnce /\ LockHolds /\ RowAtPoint
  BY DEF IInv
<1>b. airuns = <<>> => bill = "none"
  OBVIOUS
<1>1. CASE ResolveFails \/ CreateMessage
  <2>1. status = "absent" /\ status' \in {"streaming", "failed"} /\ airuns' = airuns
    BY <1>a, <1>1 DEF ResolveFails, CreateMessage, RowAtPoint, ledger
  <2> QED
    BY <2>1 DEF Verdict!Next, Verdict!Begin, Verdict!Reject
<1>2. CASE StopCancels \/ LimitFails
  <2>1. status = "streaming" /\ status' = "failed" /\ airuns' = airuns
    BY <1>2 DEF StopCancels, LimitFails, ledger
  <2>2. bill = "none" /\ bill' = "none"
    BY <1>a, <2>1 DEF BilledOnce, Terminal
  <2> QED
    BY <2>1, <2>2 DEF Verdict!Next, Verdict!Abort
<1>3. CASE CommitDone
  <2>1. status = "streaming" /\ status' = "done"
    BY <1>a, <1>3 DEF CommitDone, LockHolds
  <2>2. bill' = "done"
    <3> DEFINE r == [status |-> "done", error |-> "", cost |-> counts]
    <3>1. airuns' = Append(<<>>, r)
      BY <1>a, <1>3 DEF CommitDone, BilledOnce, Unbilled
    <3>2. r.status = "done"
      OBVIOUS
    <3> HIDE DEF r
    <3> QED
      BY <3>1, <3>2, BillOf
  <2> QED
    BY <2>1, <2>2 DEF Verdict!Next, Verdict!Complete
<1>4. CASE CommitError
  <2>1. status \in {"streaming", "failed"} /\ status' = "failed"
    BY <1>a, <1>4 DEF CommitError, RowAtPoint, TypeOK, Terminal
  <2>2. bill = "none" /\ bill' = "failed"
    BY <1>a, <1>4, BillOf DEF CommitError, BilledOnce, Unbilled
  <2> QED
    BY <2>1, <2>2 DEF Verdict!Next, Verdict!Abort, Verdict!RecordFailure
<1>5. CASE RecordCancelled \/ RecordLost \/ LimitBills
  <2>1. status = "failed" /\ status' = "failed"
    BY <1>a, <1>5 DEF RecordCancelled, RecordLost, LimitBills, RowAtPoint, row
  <2>2. bill = "none" /\ bill' = "failed"
    <3>1. airuns = <<>>
      BY <1>a, <1>5 DEF RecordCancelled, RecordLost, LimitBills, BilledOnce, Unbilled
    <3>2. PICK r : airuns' = Append(<<>>, r) /\ r.status = "failed"
      <4>1. CASE RecordCancelled
        BY <3>1, <4>1 DEF RecordCancelled, CancelledRow
      <4>2. CASE RecordLost
        <5>1. airuns' = Append(<<>>, LostRow)
          BY <3>1, <4>2 DEF RecordLost
        <5>2. LostRow.status = "failed"
          BY DEF LostRow
        <5> QED
          BY <5>1, <5>2
      <4>3. CASE LimitBills
        BY <3>1, <4>3 DEF LimitBills
      <4> QED
        BY <1>5, <4>1, <4>2, <4>3
    <3> QED
      BY <3>1, <3>2, BillOf
  <2> QED
    BY <2>1, <2>2 DEF Verdict!Next, Verdict!RecordFailure
<1>6. CASE status' = status /\ airuns' = airuns
  BY <1>6 DEF Verdict!vars
<1>7. \/ ResolveFails \/ CreateMessage \/ StopCancels \/ LimitFails \/ CommitDone \/ CommitError
      \/ RecordCancelled \/ RecordLost \/ LimitBills
      \/ status' = status /\ airuns' = airuns
  <2>1. CASE Stream
    BY <2>1 DEF Stream, TextDelta, ToolRound, StreamDone, StreamError, PollStop, row, ledger
  <2>2. CASE Straight
    BY <2>2 DEF Straight, AnnounceStart, Failover, ClearStop, RefreshRow, SaveError,
       Finalize,
       FinalizeLost, AnnounceDone, Return, LimitTooLate, LimitTells, row, ledger
  <2>3. CASE Limits
    BY <2>3 DEF Limits, SoftLimit, SoftLimitSwallowed, SoftLimitEscapes, HardLimit, Crash,
       Dies, row, ledger
  <2>4. CASE Stop
    BY <2>4 DEF Stop, StopSignals, StopTells, StopFlagExpires, row, ledger
  <2>5. CASE UNCHANGED vars
    BY <2>5 DEF vars, row, ledger
  <2> QED
    BY <2>1, <2>2, <2>3, <2>4, <2>5 DEF Next
<1> QED
  BY <1>1, <1>2, <1>3, <1>4, <1>5, <1>6, <1>7

\* One verdict per message, never taken back, and "done" together with its
\* ledger row: every behaviour of AIRun is one of RunOutcome.
THEOREM Implements == Spec => ImplementsRunOutcome
  BY Invariance, RefineInit, RefineNext, PTL DEF Spec, ImplementsRunOutcome, Verdict!Spec
==============================================================================
