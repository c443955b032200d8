----------------------------- MODULE FiresProofs -----------------------------
(***************************************************************************)
(* Proofs about the observer, for any number of workers, days, batches and *)
(* messages: fires of a schedule that keep apart, one fire before the      *)
(* close each day, answers that are reused only for the prompt they        *)
(* answer, batch results that are collected once, and conditions that      *)
(* match no cross that was not one.                                        *)
(***************************************************************************)
EXTENDS ObserverFires, ObserverThread, Batches, Conditions, NatLemmas, FiniteSetTheorems,
        SequenceTheorems, TLAPS

-----------------------------------------------------------------------------
(* ObserverFires                                                           *)

\* While no fire has outlived its lock, who fires or is about to release holds it.
LockKeepsApart ==
    fireLapsed \/ /\ \A f \in Firers : firer[f] # "unguarded"
                  /\ \A f \in Firers : firer[f] # "idle" => fireLock > 0
                  /\ \A e, f \in Firers : firer[e] # "idle" /\ firer[f] # "idle" => e = f

\* While no two ticks have crossed, one at most is past its read; what it is about to
\* enqueue is the first fire of the day, and the stamp tells the days apart.
StampKeepsApart ==
    crossed \/ /\ \A t, u \in Ticks : tick[t] # "idle" /\ tick[u] # "idle" => t = u
               /\ \A t \in Ticks : tick[t] # "idle" => closeFires[day] = 0
               /\ last_fired_at # day =>
                    closeFires[day] = 0 /\ \A t \in Ticks : tick[t] # "enqueue"
               /\ \A d \in Day : closeFires[d] <= 1 /\ (d > day => closeFires[d] = 0)

\* The stamp is never of a day to come.
StampsPast == last_fired_at <= day

\* The inductive invariant of the fires.
FiresInv == ObserverFiresTypeOK /\ LockKeepsApart /\ StampKeepsApart /\ StampsPast

\* Initially no tick and no fire is at work.
LEMMA InitFires == ObserverFiresInit => FiresInv
<1> SUFFICES ASSUME ObserverFiresInit PROVE FiresInv
  OBVIOUS
<1>1. ObserverFiresTypeOK
  <2>1. day \in Day /\ last_fired_at \in 0 .. MaxDays /\ fireLock \in 0 .. FireTTL
    BY ObserverFiresAssumption DEF ObserverFiresInit, Day
  <2>2. closeFires \in [Day -> Nat] /\ tick \in [Ticks -> {"idle", "save", "enqueue"}]
        /\ firer \in [Firers -> {"idle", "fire", "unguarded", "release"}]
    BY DEF ObserverFiresInit
  <2> QED
    BY <2>1, <2>2 DEF ObserverFiresInit, ObserverFiresTypeOK
<1>2. LockKeepsApart
  BY DEF ObserverFiresInit, LockKeepsApart
<1>3. StampKeepsApart
  BY ObserverFiresAssumption DEF ObserverFiresInit, StampKeepsApart, Day
<1>4. StampsPast
  BY DEF ObserverFiresInit, StampsPast
<1> QED
  BY <1>1, <1>2, <1>3, <1>4 DEF FiresInv

\* The ticks leave the fires and their lock alone.
LEMMA TicksKeepFires ==
  ASSUME FiresInv, UNCHANGED <<firer, fireLock, fireLapsed>> PROVE LockKeepsApart'
  BY DEF FiresInv, LockKeepsApart

\* A fire may stamp the row, which only takes the day from the ticks to come.
LEMMA FiresKeepTicks ==
  ASSUME FiresInv, UNCHANGED <<day, tick, closeFires, crossed>>, last_fired_at' \in {last_fired_at, day}
  PROVE  StampKeepsApart' /\ StampsPast'
  BY DEF FiresInv, StampKeepsApart, StampsPast, ObserverFiresTypeOK, Day

\* Every step of a tick or of the calendar keeps the invariant.
LEMMA TickSteps ==
  ASSUME FiresInv, \/ ClosingBegins \/ DayEnds
                   \/ \E t \in Ticks : TickReads(t) \/ TickStamps(t) \/ TickEnqueues(t) \/ TickKilled(t)
  PROVE  FiresInv'
<1> USE ObserverFiresAssumption
<1>a. ObserverFiresTypeOK /\ StampKeepsApart /\ StampsPast
  BY DEF FiresInv
<1>1. CASE ClosingBegins
  <2>1. UNCHANGED <<firer, fireLock, fireLapsed>>
    BY <1>1 DEF ClosingBegins
  <2>2. ObserverFiresTypeOK' /\ StampKeepsApart' /\ StampsPast'
    BY <1>a, <1>1 DEF ClosingBegins, ObserverFiresTypeOK, StampKeepsApart, StampsPast
  <2> QED
    BY <2>1, <2>2, TicksKeepFires DEF FiresInv
<1>2. CASE DayEnds
  <2>1. UNCHANGED <<firer, fireLock, fireLapsed>>
    BY <1>2 DEF DayEnds
  <2>2. ObserverFiresTypeOK' /\ StampsPast'
    <3>1. /\ day \in 1 .. MaxDays /\ day' = day + 1 /\ day < MaxDays /\ last_fired_at' = last_fired_at
          /\ last_fired_at \in 0 .. MaxDays /\ last_fired_at <= day
      BY <1>a, <1>2 DEF DayEnds, ObserverFiresTypeOK, StampsPast, Day
    <3>2. day' \in Day /\ StampsPast'
      BY <3>1 DEF StampsPast, Day
    <3> QED
      BY <1>a, <1>2, <3>2 DEF DayEnds, ObserverFiresTypeOK
  <2>3. /\ day \in Nat /\ day' = day + 1 /\ day' \in Day /\ last_fired_at \in Nat /\ last_fired_at <= day
        /\ UNCHANGED <<tick, closeFires, crossed, last_fired_at>>
        /\ \A d \in Day : d \in Nat
        /\ \A t \in Ticks : tick[t] = "idle"
    BY <1>a, <1>2 DEF DayEnds, ObserverFiresTypeOK, StampsPast, Day
  <2>4. StampKeepsApart'
    <3> SUFFICES ASSUME ~crossed PROVE StampKeepsApart'
      BY <2>3 DEF StampKeepsApart
    <3>1. \A d \in Day : closeFires[d] <= 1 /\ (d > day => closeFires[d] = 0)
      BY <1>a DEF StampKeepsApart
    <3>2. closeFires[day'] = 0
      BY <2>3, <3>1
    <3>3. \A d \in Day : d > day' => closeFires[d] = 0
      BY <2>3, <3>1
    <3> QED
      BY <2>3, <3>1, <3>2, <3>3 DEF StampKeepsApart
  <2> QED
    BY <2>1, <2>2, <2>4, TicksKeepFires DEF FiresInv
<1>3. ASSUME NEW t \in Ticks, TickReads(t) PROVE FiresInv'
  <2>1. UNCHANGED <<firer, fireLock, fireLapsed>>
    BY <1>3 DEF TickReads
  <2>2. ObserverFiresTypeOK' /\ StampsPast'
    BY <1>a, <1>3 DEF TickReads, ObserverFiresTypeOK, StampsPast
  <2>3. StampKeepsApart'
    <3> SUFFICES ASSUME ~crossed' PROVE StampKeepsApart'
      BY DEF StampKeepsApart
    <3>1. ~crossed /\ (\A u \in Ticks : tick[u] # "save")
      BY <1>3 DEF TickReads
    <3>2. \A u \in Ticks : tick[u] = "idle"
      BY <1>a, <1>3, <3>1 DEF TickReads, StampKeepsApart, ObserverFiresTypeOK
    <3>3. /\ tick' = [tick EXCEPT ![t] = "save"] /\ tick \in [Ticks -> {"idle", "save", "enqueue"}]
          /\ UNCHANGED <<day, last_fired_at, closeFires>>
          /\ last_fired_at # day
      BY <1>a, <1>3 DEF TickReads, ObserverFiresTypeOK
    <3> QED
      BY <1>a, <3>1, <3>2, <3>3 DEF StampKeepsApart
  <2> QED
    BY <2>1, <2>2, <2>3, TicksKeepFires DEF FiresInv
<1>4. ASSUME NEW t \in Ticks, TickStamps(t) PROVE FiresInv'
  <2>1. UNCHANGED <<firer, fireLock, fireLapsed>>
    BY <1>4 DEF TickStamps
  <2>2. ObserverFiresTypeOK' /\ StampsPast'
    BY <1>a, <1>4 DEF TickStamps, ObserverFiresTypeOK, StampsPast, Day
  <2>3. StampKeepsApart'
    BY <1>a, <1>4 DEF TickStamps, StampKeepsApart, ObserverFiresTypeOK
  <2> QED
    BY <2>1, <2>2, <2>3, TicksKeepFires DEF FiresInv
<1>5. ASSUME NEW t \in Ticks, TickEnqueues(t) PROVE FiresInv'
  <2>1. UNCHANGED <<firer, fireLock, fireLapsed>>
    BY <1>5 DEF TickEnqueues
  <2>2. ObserverFiresTypeOK' /\ StampsPast'
    BY <1>a, <1>5 DEF TickEnqueues, ObserverFiresTypeOK, StampsPast
  <2>3. StampKeepsApart'
    <3> SUFFICES ASSUME ~crossed' PROVE StampKeepsApart'
      BY DEF StampKeepsApart
    <3>1. ~crossed
      BY <1>5 DEF TickEnqueues
    <3>2. \A u \in Ticks : u # t => tick[u] = "idle"
      BY <1>a, <1>5, <3>1 DEF TickEnqueues, StampKeepsApart, ObserverFiresTypeOK
    <3>3. closeFires[day] = 0 /\ last_fired_at = day
      BY <1>a, <1>5, <3>1 DEF TickEnqueues, StampKeepsApart, ObserverFiresTypeOK
    <3>4. /\ tick' = [tick EXCEPT ![t] = "idle"] /\ tick \in [Ticks -> {"idle", "save", "enqueue"}]
          /\ closeFires' = [closeFires EXCEPT ![day] = @ + 1] /\ closeFires \in [Day -> Nat]
          /\ day \in Day /\ (\A d \in Day : d \in Nat) /\ UNCHANGED <<day, last_fired_at>>
      BY <1>a, <1>5 DEF TickEnqueues, ObserverFiresTypeOK, Day
    <3>5. \A u \in Ticks : tick'[u] = "idle"
      BY <3>2, <3>4
    <3>6. \A d \in Day : closeFires'[d] <= 1 /\ (d > day' => closeFires'[d] = 0)
      BY <1>a, <3>1, <3>3, <3>4 DEF StampKeepsApart
    <3> QED
      BY <3>3, <3>4, <3>5, <3>6 DEF StampKeepsApart
  <2> QED
    BY <2>1, <2>2, <2>3, TicksKeepFires DEF FiresInv
<1>6. ASSUME NEW t \in Ticks, TickKilled(t) PROVE FiresInv'
  <2>1. UNCHANGED <<firer, fireLock, fireLapsed>>
    BY <1>6 DEF TickKilled
  <2>2. ObserverFiresTypeOK' /\ StampsPast'
    BY <1>a, <1>6 DEF TickKilled, ObserverFiresTypeOK, StampsPast, Loss
  <2>3. StampKeepsApart'
    BY <1>a, <1>6 DEF TickKilled, StampKeepsApart, ObserverFiresTypeOK
  <2> QED
    BY <2>1, <2>2, <2>3, TicksKeepFires DEF FiresInv
<1> QED
  BY <1>1, <1>2, <1>3, <1>4, <1>5, <1>6

\* Every step of a fire or of its lock keeps the invariant.
LEMMA FireSteps ==
  ASSUME FiresInv, \/ CronFires \/ FiresClock
                   \/ \E f \in Firers : \/ TakeFire(f) \/ TakeUnguarded(f) \/ FireEnds(f)
                                        \/ ReleaseFire(f) \/ FireKilled(f)
  PROVE  FiresInv'
<1> USE ObserverFiresAssumption
<1>a. ObserverFiresTypeOK /\ LockKeepsApart
  BY DEF FiresInv
<1>1. CASE CronFires
  <2>1. ObserverFiresTypeOK' /\ LockKeepsApart'
    BY <1>a, <1>1 DEF CronFires, ObserverFiresTypeOK, LockKeepsApart
  <2>2. UNCHANGED <<day, tick, closeFires, crossed, last_fired_at>>
    BY <1>1 DEF CronFires
  <2> QED
    BY <2>1, <2>2, FiresKeepTicks DEF FiresInv
<1>2. CASE FiresClock
  <2>1. ObserverFiresTypeOK'
    BY <1>a, <1>2 DEF FiresClock, ObserverFiresTypeOK
  <2>2. LockKeepsApart'
    <3> SUFFICES ASSUME ~fireLapsed' PROVE LockKeepsApart'
      BY DEF LockKeepsApart
    <3>1. /\ ~fireLapsed /\ firer' = firer /\ fireLock' = fireLock - 1 /\ fireLock \in Nat /\ fireLock > 0
      BY <1>a, <1>2 DEF FiresClock, ObserverFiresTypeOK
    <3>4. fireLock = 1 => \A f \in Firers : firer[f] \notin {"fire", "release"}
      BY <1>2 DEF FiresClock
    <3>2. \A f \in Firers : firer[f] # "idle" => firer[f] \in {"fire", "release"}
      BY <3>1, <1>a DEF ObserverFiresTypeOK, LockKeepsApart
    <3>3. \A f \in Firers : firer[f] # "idle" => fireLock' > 0
      BY <3>1, <3>2, <3>4
    <3> QED
      BY <3>1, <3>3, <1>a DEF LockKeepsApart
  <2>3. UNCHANGED <<day, tick, closeFires, crossed, last_fired_at>>
    BY <1>2 DEF FiresClock
  <2> QED
    BY <2>1, <2>2, <2>3, FiresKeepTicks DEF FiresInv
<1>3. ASSUME NEW f \in Firers, TakeFire(f) PROVE FiresInv'
  <2>1. ObserverFiresTypeOK'
    BY <1>a, <1>3 DEF TakeFire, ObserverFiresTypeOK
  <2>2. LockKeepsApart'
    <3>1. CASE fireLock = 0
      <4>1. fireLapsed \/ \A e \in Firers : firer[e] = "idle"
        BY <3>1, <1>a DEF LockKeepsApart
      <4> QED
        BY <3>1, <4>1, <1>a, <1>3 DEF TakeFire, ObserverFiresTypeOK, LockKeepsApart
    <3>2. CASE fireLock # 0
      BY <3>2, <1>a, <1>3 DEF TakeFire, LockKeepsApart
    <3> QED
      BY <3>1, <3>2
  <2>3. UNCHANGED <<day, tick, closeFires, crossed, last_fired_at>>
    BY <1>3 DEF TakeFire
  <2> QED
    BY <2>1, <2>2, <2>3, FiresKeepTicks DEF FiresInv
<1>4. ASSUME NEW f \in Firers, TakeUnguarded(f) PROVE FiresInv'
  <2>1. ObserverFiresTypeOK' /\ LockKeepsApart'
    BY <1>a, <1>4 DEF TakeUnguarded, ObserverFiresTypeOK, LockKeepsApart, Loss
  <2>2. UNCHANGED <<day, tick, closeFires, crossed, last_fired_at>>
    BY <1>4 DEF TakeUnguarded
  <2> QED
    BY <2>1, <2>2, FiresKeepTicks DEF FiresInv
<1>5. ASSUME NEW f \in Firers, FireEnds(f) PROVE FiresInv'
  <2>1. ObserverFiresTypeOK'
    BY <1>a, <1>5 DEF FireEnds, ObserverFiresTypeOK, Day
  <2>2. LockKeepsApart'
    BY <1>a, <1>5 DEF FireEnds, ObserverFiresTypeOK, LockKeepsApart
  <2>3. UNCHANGED <<day, tick, closeFires, crossed>> /\ last_fired_at' \in {last_fired_at, day}
    BY <1>5 DEF FireEnds
  <2> QED
    BY <2>1, <2>2, <2>3, FiresKeepTicks DEF FiresInv
<1>6. ASSUME NEW f \in Firers, ReleaseFire(f) PROVE FiresInv'
  <2>1. ObserverFiresTypeOK'
    BY <1>a, <1>6 DEF ReleaseFire, ObserverFiresTypeOK
  <2>2. LockKeepsApart'
    <3>1. fireLapsed \/ \A e \in Firers : e # f => firer[e] = "idle"
      BY <1>a, <1>6 DEF ReleaseFire, LockKeepsApart
    <3> QED
      BY <3>1, <1>a, <1>6 DEF ReleaseFire, ObserverFiresTypeOK, LockKeepsApart
  <2>3. UNCHANGED <<day, tick, closeFires, crossed, last_fired_at>>
    BY <1>6 DEF ReleaseFire
  <2> QED
    BY <2>1, <2>2, <2>3, FiresKeepTicks DEF FiresInv
<1>7. ASSUME NEW f \in Firers, FireKilled(f) PROVE FiresInv'
  <2>1. ObserverFiresTypeOK' /\ LockKeepsApart'
    BY <1>a, <1>7 DEF FireKilled, ObserverFiresTypeOK, LockKeepsApart, Loss
  <2>2. UNCHANGED <<day, tick, closeFires, crossed, last_fired_at>>
    BY <1>7 DEF FireKilled
  <2> QED
    BY <2>1, <2>2, FiresKeepTicks DEF FiresInv
<1> QED
  BY <1>1, <1>2, <1>3, <1>4, <1>5, <1>6, <1>7

\* The invariant is kept by every step.
LEMMA NextFires == FiresInv /\ [ObserverFiresNext]_observerFiresVars => FiresInv'
<1>1. ASSUME FiresInv, UNCHANGED observerFiresVars PROVE FiresInv'
  BY <1>1 DEF FiresInv, observerFiresVars, ObserverFiresTypeOK, LockKeepsApart, StampKeepsApart, StampsPast
<1> QED
  BY <1>1, TickSteps, FireSteps DEF ObserverFiresNext

\* The invariant holds throughout.
LEMMA FiresInvariant == ObserverFiresSpec => []FiresInv
  BY InitFires, NextFires, PTL DEF ObserverFiresSpec

\* Two fires of one schedule never run at once while no fire has outlived its lock.
THEOREM FiresKeepApart == ObserverFiresSpec => []FiresApart
<1>1. FiresInv => FiresApart
  BY DEF FiresInv, LockKeepsApart, FiresApart
<1> QED
  BY <1>1, FiresInvariant, PTL

\* A schedule relative to the close fires once a day, unless two ticks crossed.
THEOREM ClosesOnce == ObserverFiresSpec => []OneCloseFireADay
<1>1. FiresInv => OneCloseFireADay
  BY DEF FiresInv, StampKeepsApart, OneCloseFireADay
<1> QED
  BY <1>1, FiresInvariant, PTL

\* Types of the schedule's fires: its counters, its lock and its tasks.
THEOREM ObserverFiresTypes == ObserverFiresSpec => []ObserverFiresTypeOK
<1>1. FiresInv => ObserverFiresTypeOK
  BY DEF FiresInv
<1> QED
  BY <1>1, FiresInvariant, PTL

-----------------------------------------------------------------------------
(* Batches                                                                 *)

\* A poll is away or has a batch that exists; the row names nothing that is only
\* being submitted, and no poll works on it.
BatchesShaped ==
    /\ BatchesTypeOK
    /\ \A p \in Pollers : poller[p].pc = "idle" <=> poller[p] = Away
    /\ \A p \in Pollers : poller[p].pc # "idle" => poller[p].batch \in 1 .. batches
    /\ \A p \in Pollers : poller[p].pc = "retrieve" => poller[p].count = 0
    /\ submitting => /\ batches \in BatchId /\ last_batch_id # batches
                     /\ \A p \in Pollers : poller[p].batch # batches
    /\ \A b \in BatchId : (b > batches \/ (submitting /\ b = batches)) => written[b] = 0

\* A batch no second poll has begun on is in one hand, and what is written of it is
\* what that poll has written; in nobody's hand and still named, nothing is.
OneHand(b) ==
    /\ \A p, q \in Pollers : poller[p].batch = b /\ poller[q].batch = b => p = q
    /\ \A p \in Pollers : poller[p].batch = b => written[b] = poller[p].count
    /\ last_batch_id = b /\ (\A p \in Pollers : poller[p].batch # b) => written[b] = 0
    /\ billed[b] <= written[b] /\ written[b] <= Results

\* A batch is in one hand unless a second poll began on it or one stopped part-way.
InOneHand == \A b \in BatchId \ repolled : OneHand(b)

\* Nobody forgets a batch that has not been collected.
Named ==
    \A b \in 1 .. batches : Uncollected(b) =>
        b \in unnamed \/ b = last_batch_id \/ (submitting /\ b = batches)

\* The inductive invariant of the batches.
BatchesInv == BatchesShaped /\ InOneHand /\ Named

\* Initially there is no batch.
LEMMA InitBatches == BatchesInit => BatchesInv
<1> SUFFICES ASSUME BatchesInit PROVE BatchesInv
  OBVIOUS
<1>1. BatchesTypeOK
  <2>1. poller \in [Pollers -> [pc : {"idle", "retrieve", "write"}, batch : 0 .. batches, count : 0 .. Results]]
    BY BatchesAssumption DEF BatchesInit, Away
  <2>2. written \in [BatchId -> Nat] /\ billed \in [BatchId -> Nat]
    BY DEF BatchesInit
  <2>3. batches \in 0 .. MaxBatches /\ last_batch_id \in 0 .. batches /\ breaks \in 0 .. MaxBreaks
    BY BatchesAssumption DEF BatchesInit
  <2> QED
    BY <2>1, <2>2, <2>3 DEF BatchesInit, BatchesTypeOK
<1>2. BatchesShaped
  BY <1>1 DEF BatchesInit, BatchesShaped, Away
<1>3. InOneHand
  BY BatchesAssumption DEF BatchesInit, InOneHand, OneHand, Away, BatchId
<1>4. Named
  BY DEF BatchesInit, Named
<1> QED
  BY <1>2, <1>3, <1>4 DEF BatchesInv

\* Every step keeps the invariant.
LEMMA NextBatches == BatchesInv /\ [BatchesNext]_batchesVars => BatchesInv'
<1> SUFFICES ASSUME BatchesInv, [BatchesNext]_batchesVars PROVE BatchesInv'
  OBVIOUS
<1> USE BatchesAssumption
<1>a. BatchesShaped /\ InOneHand /\ Named /\ BatchesTypeOK
  BY DEF BatchesInv, BatchesShaped
<1>b. /\ poller \in [Pollers -> [pc : {"idle", "retrieve", "write"}, batch : 0 .. batches, count : 0 .. Results]]
      /\ batches \in Nat /\ batches <= MaxBatches /\ last_batch_id \in 0 .. batches
      /\ written \in [BatchId -> Nat] /\ billed \in [BatchId -> Nat]
      /\ repolled \subseteq BatchId /\ unnamed \subseteq BatchId
      /\ BatchId = 1 .. MaxBatches
  BY <1>a DEF BatchesTypeOK, BatchId
<1>1. CASE CreateBatch
  <2>1. /\ ~submitting /\ batches < MaxBatches /\ batches' = batches + 1 /\ submitting' = TRUE
        /\ UNCHANGED <<last_batch_id, ended, poller, written, billed, breaks, repolled, unnamed>>
    BY <1>1 DEF CreateBatch
  <2>2. BatchesTypeOK'
    BY <1>a, <1>b, <2>1 DEF BatchesTypeOK
  <2>3. BatchesShaped'
    BY <1>a, <1>b, <2>1, <2>2 DEF BatchesShaped
  <2>4. InOneHand'
    BY <1>a, <2>1 DEF InOneHand, OneHand
  <2>5. Named'
    BY <1>a, <1>b, <2>1 DEF Named, Uncollected
  <2> QED
    BY <2>3, <2>4, <2>5 DEF BatchesInv
<1>2. CASE NameBatch
  <2>1. /\ submitting /\ last_batch_id' = batches /\ submitting' = FALSE
        /\ unnamed' = IF Uncollected(last_batch_id) THEN unnamed \cup {last_batch_id} ELSE unnamed
        /\ UNCHANGED <<batches, ended, poller, written, billed, breaks, repolled>>
    BY <1>2 DEF NameBatch
  <2>2. batches \in BatchId /\ last_batch_id # batches /\ written[batches] = 0
        /\ \A p \in Pollers : poller[p].batch # batches
    BY <1>a, <1>b, <2>1 DEF BatchesShaped
  <2>3. BatchesTypeOK'
    <3>1. unnamed' \subseteq BatchId /\ last_batch_id' \in 0 .. batches
      BY <1>b, <2>1 DEF Uncollected
    <3> QED
      BY <1>a, <2>1, <3>1 DEF BatchesTypeOK
  <2>4. BatchesShaped'
    BY <1>a, <1>b, <2>1, <2>2, <2>3 DEF BatchesShaped
  <2>5. InOneHand'
    BY <1>a, <2>1, <2>2 DEF InOneHand, OneHand
  <2>6. Named'
    BY <1>a, <2>1 DEF Named, Uncollected
  <2> QED
    BY <2>4, <2>5, <2>6 DEF BatchesInv
<1>3. CASE SubmitKilled
  <2>1. /\ submitting /\ submitting' = FALSE /\ unnamed' = unnamed \cup {batches}
        /\ UNCHANGED <<batches, last_batch_id, ended, poller, written, billed, repolled>>
        /\ breaks < MaxBreaks /\ breaks' = breaks + 1
    BY <1>3 DEF SubmitKilled, Break
  <2>2. batches \in BatchId
    BY <1>a, <2>1 DEF BatchesShaped
  <2>3. BatchesTypeOK'
    <3>1. unnamed' \subseteq BatchId /\ breaks' \in 0 .. MaxBreaks
      BY <1>a, <1>b, <2>1, <2>2 DEF BatchesTypeOK
    <3> QED
      BY <1>a, <2>1, <3>1 DEF BatchesTypeOK
  <2>4. BatchesShaped'
    BY <1>a, <1>b, <2>1, <2>3 DEF BatchesShaped
  <2>5. InOneHand' /\ Named'
    BY <1>a, <2>1 DEF InOneHand, OneHand, Named, Uncollected
  <2> QED
    BY <2>4, <2>5 DEF BatchesInv
<1>4. CASE BatchEnds
  <2>1. UNCHANGED <<batches, submitting, last_batch_id, poller, written, billed, breaks, repolled, unnamed>>
        /\ ended' \subseteq 1 .. batches
    BY <1>a, <1>4 DEF BatchEnds, BatchesTypeOK
  <2> QED
    BY <1>a, <2>1 DEF BatchesInv, BatchesShaped, BatchesTypeOK, InOneHand, OneHand, Named, Uncollected
<1>5. ASSUME NEW p \in Pollers, PollReads(p) PROVE BatchesInv'
  <2>1. /\ poller[p] = Away /\ last_batch_id # 0
        /\ poller' = [poller EXCEPT ![p] = [pc |-> "retrieve", batch |-> last_batch_id, count |-> 0]]
        /\ repolled' = IF \E q \in Pollers : poller[q].batch = last_batch_id
                       THEN repolled \cup {last_batch_id} ELSE repolled
        /\ UNCHANGED <<batches, submitting, last_batch_id, ended, written, billed, breaks, unnamed>>
    BY <1>5 DEF PollReads
  <2>2. last_batch_id \in BatchId /\ last_batch_id \in 1 .. batches
    BY <1>b, <2>1
  <2>3. BatchesTypeOK'
    <3>1. repolled' \subseteq BatchId
      BY <1>b, <2>1, <2>2
    <3>2. [pc |-> "retrieve", batch |-> last_batch_id, count |-> 0]
            \in [pc : {"idle", "retrieve", "write"}, batch : 0 .. batches, count : 0 .. Results]
      BY <1>b
    <3>3. poller' \in [Pollers -> [pc : {"idle", "retrieve", "write"}, batch : 0 .. batches, count : 0 .. Results]]
      BY <1>b, <2>1, <3>2
    <3> QED
      BY <1>a, <2>1, <3>1, <3>3 DEF BatchesTypeOK
  <2>4. /\ poller'[p] = [pc |-> "retrieve", batch |-> last_batch_id, count |-> 0]
        /\ \A q \in Pollers : q # p => poller'[q] = poller[q]
    BY <1>b, <2>1
  <2>5. BatchesShaped'
    BY <1>a, <2>1, <2>2, <2>3, <2>4 DEF BatchesShaped, Away
  <2>6. InOneHand'
    <3> SUFFICES ASSUME NEW b \in BatchId \ repolled' PROVE OneHand(b)'
      BY DEF InOneHand
    <3>1. b \notin repolled /\ OneHand(b)
      BY <1>a, <2>1 DEF InOneHand
    <3>2. CASE b = last_batch_id
      <4>1. \A q \in Pollers : poller[q].batch # b
        BY <2>1, <3>2
      <4>2. written[b] = 0
        BY <3>1, <3>2, <4>1 DEF OneHand
      <4> QED
        BY <2>1, <2>4, <3>1, <3>2, <4>1, <4>2 DEF OneHand
    <3>3. CASE b # last_batch_id
      <4>1. \A q \in Pollers : poller'[q].batch = b => poller'[q] = poller[q]
        BY <2>4, <3>3
      <4> QED
        BY <2>1, <3>1, <3>3, <4>1 DEF OneHand
    <3> QED
      BY <3>2, <3>3
  <2>7. Named'
    BY <1>a, <2>1 DEF Named, Uncollected
  <2> QED
    BY <2>5, <2>6, <2>7 DEF BatchesInv
<1>6. ASSUME NEW p \in Pollers, PollRetrieves(p) PROVE BatchesInv'
  <2>1. /\ poller[p].pc = "retrieve"
        /\ poller' = [poller EXCEPT ![p] = IF @.batch \in ended THEN [@ EXCEPT !.pc = "write"] ELSE Away]
        /\ UNCHANGED <<batches, submitting, last_batch_id, ended, written, billed, breaks, repolled, unnamed>>
    BY <1>6 DEF PollRetrieves
  <2>2. \A q \in Pollers : q # p => poller'[q] = poller[q]
    BY <1>b, <2>1
  <2>3. poller'[p].count = 0 /\ (poller'[p].batch = poller[p].batch \/ poller'[p] = Away)
        /\ poller'[p] \in [pc : {"idle", "retrieve", "write"}, batch : 0 .. batches, count : 0 .. Results]
        /\ (poller'[p].pc = "idle" <=> poller'[p] = Away) /\ poller'[p].pc # "retrieve"
    <3>1. poller[p].count = 0 /\ poller[p].pc # "idle"
      BY <1>a, <2>1 DEF BatchesShaped
    <3>2. CASE poller[p].batch \in ended
      <4>1. poller'[p] = [poller[p] EXCEPT !.pc = "write"]
        BY <1>b, <2>1, <3>2
      <4> QED
        BY <1>b, <3>1, <4>1 DEF Away
    <3>3. CASE poller[p].batch \notin ended
      <4>1. poller'[p] = Away
        BY <1>b, <2>1, <3>3
      <4> QED
        BY <1>b, <4>1 DEF Away
    <3> QED
      BY <3>2, <3>3
  <2>4. BatchesTypeOK'
    <3>1. poller' \in [Pollers -> [pc : {"idle", "retrieve", "write"}, batch : 0 .. batches, count : 0 .. Results]]
      BY <1>b, <2>1, <2>2, <2>3
    <3> QED
      BY <1>a, <2>1, <3>1 DEF BatchesTypeOK
  <2>5. poller[p].batch \in 1 .. batches /\ poller[p].count = 0
    BY <1>a, <2>1 DEF BatchesShaped
  <2>6. BatchesShaped'
    <3>1. Away.pc = "idle" /\ Away.batch = 0
      BY DEF Away
    <3> QED
      BY <1>a, <1>b, <2>1, <2>2, <2>3, <2>4, <2>5, <3>1 DEF BatchesShaped
  <2>7. InOneHand'
    <3> SUFFICES ASSUME NEW b \in BatchId \ repolled PROVE OneHand(b)'
      BY <2>1 DEF InOneHand
    <3>1. OneHand(b) /\ b # 0 /\ Away.batch = 0
      BY <1>a, <1>b DEF InOneHand, Away
    <3>2. \A q \in Pollers : poller'[q].batch = b => poller[q].batch = b /\ poller'[q].count = poller[q].count
      BY <2>2, <2>3, <2>5, <3>1
    <3>3. last_batch_id = b /\ (\A q \in Pollers : poller'[q].batch # b) => written[b] = 0
      <4>1. CASE poller[p].batch = b
        BY <2>5, <3>1, <4>1 DEF OneHand
      <4>2. CASE poller[p].batch # b
        BY <2>2, <3>1, <4>2 DEF OneHand
      <4> QED
        BY <4>1, <4>2
    <3> QED
      BY <2>1, <3>1, <3>2, <3>3 DEF OneHand
  <2>8. Named'
    BY <1>a, <2>1 DEF Named, Uncollected
  <2> QED
    BY <2>6, <2>7, <2>8 DEF BatchesInv
<1>7. ASSUME NEW p \in Pollers, PollWrites(p) PROVE BatchesInv'
  <2> DEFINE c == poller[p].batch
  <2>1. /\ poller[p].pc = "write" /\ poller[p].count < Results
        /\ written' = [written EXCEPT ![c] = @ + 1]
        /\ \/ billed' = [billed EXCEPT ![c] = @ + 1] /\ UNCHANGED breaks
           \/ breaks' = breaks + 1 /\ breaks < MaxBreaks /\ UNCHANGED billed
        /\ poller' = [poller EXCEPT ![p].count = @ + 1]
        /\ UNCHANGED <<batches, submitting, last_batch_id, ended, repolled, unnamed>>
    BY <1>7 DEF PollWrites, Break
  <2>2. c \in 1 .. batches /\ c \in BatchId /\ (submitting => c # batches)
    BY <1>a, <1>b, <2>1 DEF BatchesShaped
  <2>3. /\ poller'[p] = [poller[p] EXCEPT !.count = @ + 1]
        /\ \A q \in Pollers : q # p => poller'[q] = poller[q]
        /\ poller[p] \in [pc : {"idle", "retrieve", "write"}, batch : 0 .. batches, count : 0 .. Results]
    BY <1>b, <2>1
  <2>4. /\ poller'[p].pc = "write" /\ poller'[p].batch = c /\ poller'[p].count = poller[p].count + 1
        /\ poller'[p] \in [pc : {"idle", "retrieve", "write"}, batch : 0 .. batches, count : 0 .. Results]
    BY <2>1, <2>3
  <2>5. BatchesTypeOK'
    <3>1. written' \in [BatchId -> Nat] /\ billed' \in [BatchId -> Nat]
      <4>1. written' \in [BatchId -> Nat]
        BY <1>b, <2>1, <2>2
      <4>0. billed \in [BatchId -> Nat]
        BY <1>b
      <4>2. CASE billed' = [billed EXCEPT ![c] = @ + 1]
        <5>1. billed' = [billed EXCEPT ![c] = billed[c] + 1] /\ billed[c] + 1 \in Nat
          BY <2>2, <4>0, <4>2
        <5> QED
          BY <4>0, <4>1, <5>1
      <4>3. CASE billed' = billed
        BY <4>0, <4>1, <4>3
      <4> QED
        BY <2>1, <4>2, <4>3
    <3>2. breaks' \in 0 .. MaxBreaks
      BY <1>a, <2>1 DEF BatchesTypeOK
    <3>3. poller' \in [Pollers -> [pc : {"idle", "retrieve", "write"}, batch : 0 .. batches, count : 0 .. Results]]
      BY <1>b, <2>1, <2>3, <2>4
    <3> QED
      BY <1>a, <2>1, <3>1, <3>2, <3>3 DEF BatchesTypeOK
  <2>6. BatchesShaped'
    <3>1. Away.pc = "idle"
      BY DEF Away
    <3>2. \A b \in BatchId : (b > batches \/ (submitting /\ b = batches)) => written'[b] = 0
      BY <1>a, <1>b, <2>1, <2>2 DEF BatchesShaped
    <3> QED
      BY <1>a, <2>1, <2>2, <2>3, <2>4, <2>5, <3>1, <3>2 DEF BatchesShaped
  <2>7. InOneHand'
    <3> SUFFICES ASSUME NEW b \in BatchId \ repolled PROVE OneHand(b)'
      BY <2>1 DEF InOneHand
    <3>1. OneHand(b) /\ written[b] \in Nat /\ billed[b] \in Nat
      BY <1>a, <1>b DEF InOneHand
    <3>2. \A q \in Pollers : poller'[q].batch = poller[q].batch
      BY <2>3, <2>4
    <3>3. CASE b = c
      <4>1. written[b] = poller[p].count /\ \A q \in Pollers : poller[q].batch = b => q = p
        BY <3>1, <3>3 DEF OneHand
      <4>2. written'[b] = written[b] + 1 /\ billed'[b] <= billed[b] + 1
        BY <1>b, <2>1, <3>1, <3>3
      <4>3. written'[b] = poller'[p].count /\ written'[b] <= Results
        BY <1>b, <2>1, <2>3, <2>4, <4>1, <4>2
      <4>4. billed'[b] <= written'[b]
        <5>1. billed[b] <= written[b]
          BY <3>1 DEF OneHand
        <5>2. billed'[b] \in Nat
          BY <2>5 DEF BatchesTypeOK
        <5> QED
          BY <3>1, <4>2, <5>1, <5>2
      <4> QED
        BY <2>1, <3>2, <3>3, <4>1, <4>3, <4>4 DEF OneHand
    <3>4. CASE b # c
      <4>1. written'[b] = written[b] /\ billed'[b] = billed[b]
        BY <1>b, <2>1, <3>4
      <4>2. \A q \in Pollers : poller'[q].batch = b => poller'[q] = poller[q]
        BY <2>3, <2>4, <3>4
      <4>3. \A q, r \in Pollers : poller'[q].batch = b /\ poller'[r].batch = b => q = r
        BY <3>1, <3>2 DEF OneHand
      <4>4. \A q \in Pollers : poller'[q].batch = b => written'[b] = poller'[q].count
        BY <3>1, <3>2, <4>1, <4>2 DEF OneHand
      <4>5. last_batch_id' = b /\ (\A q \in Pollers : poller'[q].batch # b) => written'[b] = 0
        BY <2>1, <3>1, <3>2, <4>1 DEF OneHand
      <4>6. billed'[b] <= written'[b] /\ written'[b] <= Results
        BY <3>1, <4>1 DEF OneHand
      <4> QED
        BY <4>3, <4>4, <4>5, <4>6 DEF OneHand
    <3> QED
      BY <3>3, <3>4
  <2>8. Named'
    <3>1. \A b \in 1 .. batches : written'[b] = 0 => written[b] = 0
      BY <1>b, <2>1
    <3> QED
      BY <1>a, <2>1, <3>1 DEF Named, Uncollected
  <2> QED
    BY <2>6, <2>7, <2>8 DEF BatchesInv
<1>8. ASSUME NEW p \in Pollers, PollClears(p) PROVE BatchesInv'
  <2>1. /\ poller[p].pc = "write" /\ poller[p].count = Results
        /\ unnamed' = IF Uncollected(last_batch_id) THEN unnamed \cup {last_batch_id} ELSE unnamed
        /\ last_batch_id' = 0
        /\ poller' = [poller EXCEPT ![p] = Away]
        /\ UNCHANGED <<batches, submitting, ended, written, billed, breaks, repolled>>
    BY <1>8 DEF PollClears
  <2>2. /\ poller'[p] = Away /\ Away.batch = 0 /\ Away.pc = "idle" /\ Away.count = 0
        /\ \A q \in Pollers : q # p => poller'[q] = poller[q]
    BY <1>b, <2>1 DEF Away
  <2>3. BatchesTypeOK'
    <3>1. poller' \in [Pollers -> [pc : {"idle", "retrieve", "write"}, batch : 0 .. batches, count : 0 .. Results]]
      BY <1>b, <2>1 DEF Away
    <3>2. unnamed' \subseteq BatchId
      BY <1>b, <2>1 DEF Uncollected
    <3>3. last_batch_id' \in 0 .. batches
      BY <1>b, <2>1
    <3> QED
      BY <1>a, <2>1, <3>1, <3>2, <3>3 DEF BatchesTypeOK
  <2>4. BatchesShaped'
    BY <1>a, <1>b, <2>1, <2>2, <2>3 DEF BatchesShaped
  <2>5. InOneHand'
    <3> SUFFICES ASSUME NEW b \in BatchId \ repolled PROVE OneHand(b)'
      BY <2>1 DEF InOneHand
    <3>1. OneHand(b) /\ b # 0
      BY <1>a, <1>b DEF InOneHand
    <3>2. \A q \in Pollers : poller'[q].batch = b => poller'[q] = poller[q]
      BY <2>2, <3>1
    <3> QED
      BY <2>1, <3>1, <3>2 DEF OneHand
  <2>6. Named'
    BY <1>a, <2>1 DEF Named, Uncollected
  <2> QED
    BY <2>4, <2>5, <2>6 DEF BatchesInv
<1>9. ASSUME NEW p \in Pollers, PollBreaks(p) PROVE BatchesInv'
  <2>1. /\ poller[p] # Away /\ breaks < MaxBreaks /\ breaks' = breaks + 1
        /\ repolled' = IF poller[p].pc = "write" THEN repolled \cup {poller[p].batch} ELSE repolled
        /\ poller' = [poller EXCEPT ![p] = Away]
        /\ UNCHANGED <<batches, submitting, last_batch_id, ended, written, billed, unnamed>>
    BY <1>9 DEF PollBreaks, Break
  <2>2. /\ poller'[p] = Away /\ Away.batch = 0 /\ Away.pc = "idle" /\ Away.count = 0
        /\ \A q \in Pollers : q # p => poller'[q] = poller[q]
    BY <1>b, <2>1 DEF Away
  <2>3. poller[p].batch \in BatchId /\ poller[p].pc \in {"retrieve", "write"}
        /\ (poller[p].pc = "retrieve" => poller[p].count = 0)
    BY <1>a, <1>b, <2>1 DEF BatchesShaped
  <2>4. BatchesTypeOK'
    <3>1. poller' \in [Pollers -> [pc : {"idle", "retrieve", "write"}, batch : 0 .. batches, count : 0 .. Results]]
      BY <1>b, <2>1 DEF Away
    <3>2. repolled' \subseteq BatchId
      BY <1>b, <2>1, <2>3
    <3>3. breaks' \in 0 .. MaxBreaks
      BY <1>a, <2>1 DEF BatchesTypeOK
    <3> QED
      BY <1>a, <2>1, <3>1, <3>2, <3>3 DEF BatchesTypeOK
  <2>5. BatchesShaped'
    BY <1>a, <1>b, <2>1, <2>2, <2>4 DEF BatchesShaped
  <2>6. InOneHand'
    <3> SUFFICES ASSUME NEW b \in BatchId \ repolled' PROVE OneHand(b)'
      BY DEF InOneHand
    <3>1. OneHand(b) /\ b # 0
      BY <1>a, <1>b, <2>1 DEF InOneHand
    <3>2. \A q \in Pollers : poller'[q].batch = b => poller'[q] = poller[q]
      BY <2>2, <3>1
    <3>3. last_batch_id = b /\ (\A q \in Pollers : poller'[q].batch # b) => written[b] = 0
      <4>1. CASE poller[p].batch = b
        BY <2>1, <2>3, <3>1, <4>1 DEF OneHand
      <4>2. CASE poller[p].batch # b
        BY <2>2, <3>1, <4>2 DEF OneHand
      <4> QED
        BY <4>1, <4>2
    <3> QED
      BY <2>1, <3>1, <3>2, <3>3 DEF OneHand
  <2>7. Named'
    BY <1>a, <2>1 DEF Named, Uncollected
  <2> QED
    BY <2>5, <2>6, <2>7 DEF BatchesInv
<1>10. CASE UNCHANGED batchesVars
  BY <1>a, <1>10 DEF batchesVars, BatchesInv, BatchesShaped, BatchesTypeOK, InOneHand, OneHand, Named,
                     Uncollected
<1> QED
  BY <1>1, <1>2, <1>3, <1>4, <1>5, <1>6, <1>7, <1>8, <1>9, <1>10 DEF BatchesNext

\* Results are posted and billed once, and no batch is forgotten, but where two polls
\* or a break met it, or an id was written over.
THEOREM ResultsCollectedOnce == BatchesSpec => []CollectedOnce
<1>1. BatchesInv => CollectedOnce
  BY DEF BatchesInv, InOneHand, OneHand, Named, CollectedOnce
<1> QED
  BY <1>1, InitBatches, NextBatches, PTL DEF BatchesSpec

\* Types of the batches: what is named, written and billed, and the polls.
THEOREM BatchesTypes == BatchesSpec => []BatchesTypeOK
<1>1. BatchesInv => BatchesTypeOK
  BY DEF BatchesInv, BatchesShaped
<1> QED
  BY <1>1, InitBatches, NextBatches, PTL DEF BatchesSpec

-----------------------------------------------------------------------------
(* ObserverThread                                                          *)

\* A message that a fire or an AI run posted for a turn is about the prompt of that turn.
RunsAnswerTheirTurn ==
    \A i \in 1 .. Len(thread) :
        thread[i].role = "assistant" /\ ~thread[i].cached /\ thread[i].turn # 0 =>
            thread[i].turn \in 1 .. Len(thread) /\ thread[i].about = thread[thread[i].turn].about

\* The inductive invariant.
ThreadInv == ObserverThreadTypeOK /\ RunsAnswerTheirTurn

\* A thread that has no message yet.
LEMMA InitThread == ObserverThreadInit => ThreadInv
<1> SUFFICES ASSUME ObserverThreadInit PROVE ThreadInv
  OBVIOUS
<1>1. thread \in Seq(Message) /\ Len(thread) = 0
  BY DEF ObserverThreadInit
<1> QED
  BY <1>1, ObserverThreadAssumption
  DEF ObserverThreadInit, ThreadInv, ObserverThreadTypeOK, RunsAnswerTheirTurn

\* A thread with one more message.
LEMMA Appended ==
  ASSUME ThreadInv, NEW m \in Message, Len(thread) < MaxMessages, thread' = Append(thread, m),
         m.role = "assistant" /\ ~m.cached /\ m.turn # 0 =>
            m.turn \in 1 .. Len(thread) /\ m.about = thread[m.turn].about
  PROVE  /\ thread' \in Seq(Message) /\ Len(thread') = Len(thread) + 1 /\ Len(thread') <= MaxMessages
         /\ Len(thread) \in Nat /\ thread'[Len(thread) + 1] = m
         /\ \A i \in 1 .. Len(thread) : thread'[i] = thread[i]
         /\ RunsAnswerTheirTurn'
<1>1. thread \in Seq(Message) /\ Len(thread) \in Nat /\ MaxMessages \in Nat
  BY ObserverThreadAssumption DEF ThreadInv, ObserverThreadTypeOK
<1>2. /\ thread' \in Seq(Message) /\ Len(thread') = Len(thread) + 1 /\ Len(thread') <= MaxMessages
      /\ thread'[Len(thread) + 1] = m
      /\ \A i \in 1 .. Len(thread) : thread'[i] = thread[i]
  <2> HIDE DEF Message
  <2> QED
    BY <1>1
<1>3. RunsAnswerTheirTurn
  BY DEF ThreadInv
<1>4. RunsAnswerTheirTurn'
  <2> SUFFICES ASSUME NEW i \in 1 .. Len(thread'), thread'[i].role = "assistant", ~thread'[i].cached,
                      thread'[i].turn # 0
               PROVE  thread'[i].turn \in 1 .. Len(thread') /\ thread'[i].about = thread'[thread'[i].turn].about
    BY DEF RunsAnswerTheirTurn
  <2>1. CASE i = Len(thread) + 1
    <3>1. thread'[i] = m /\ m.turn \in 1 .. Len(thread) /\ m.about = thread[m.turn].about
      BY <1>2, <2>1
    <3> QED
      BY <1>1, <1>2, <3>1
  <2>2. CASE i # Len(thread) + 1
    <3>1. i \in 1 .. Len(thread) /\ thread'[i] = thread[i]
      BY <1>1, <1>2, <2>2
    <3>2. thread[i].turn \in 1 .. Len(thread) /\ thread[i].about = thread[thread[i].turn].about
      BY <1>3, <3>1 DEF RunsAnswerTheirTurn
    <3> QED
      BY <1>1, <1>2, <3>1, <3>2
  <2> QED
    BY <2>1, <2>2
<1> QED
  BY <1>1, <1>2, <1>4

\* What the cache finds is a message of the thread.
LEMMA CacheInThread ==
  ASSUME ThreadInv, NEW turn \in 1 .. Len(thread)
  PROVE  CachedResponse(turn) \in 0 .. Len(thread)
<1> DEFINE asked == {i \in expired + 1 .. Len(thread) :
                  thread[i].role = "user" /\ thread[i].about = thread[turn].about /\ i # turn}
<1> DEFINE answered == {i \in Latest(asked) + 1 .. Len(thread) :
                        thread[i].role = "assistant" /\ thread[i].status = "done"}
<1>1. Len(thread) \in Nat /\ expired \in Nat
  BY DEF ThreadInv, ObserverThreadTypeOK
<1>2. CASE asked = {}
  BY <1>1, <1>2 DEF CachedResponse
<1>3. CASE asked # {} /\ (answered = {} \/ ~thread[Earliest(answered)].text)
  <2>1. CachedResponse(turn) = 0
    BY <1>3 DEF CachedResponse
  <2> QED
    BY <1>1, <2>1
<1>4. CASE asked # {} /\ answered # {} /\ thread[Earliest(answered)].text
  <2>1. Latest(asked) \in asked
    <3>1. asked \in SUBSET (1 .. Len(thread))
      BY <1>1
    <3> HIDE DEF asked
    <3>2. \E i \in asked : \A j \in asked : j <= i
      BY <1>1, <1>4, <3>1, LargestNat
    <3> QED
      BY <3>2 DEF Latest
  <2>0. Latest(asked) \in Nat
    <3>1. asked \subseteq Nat
      BY <1>1
    <3> HIDE DEF asked
    <3> QED
      BY <2>1, <3>1
  <2>2. answered \in SUBSET Nat
    <3> DEFINE last == Latest(asked)
    <3> HIDE DEF last, asked
    <3> QED
      BY <1>1, <2>0 DEF last
  <2>3. Earliest(answered) \in answered
    <3> HIDE DEF answered
    <3>1. \E i \in answered : \A j \in answered : i <= j
      BY <1>4, <2>2, SmallestNat
    <3> QED
      BY <3>1 DEF Earliest
  <2>4. Earliest(answered) \in 0 .. Len(thread)
    <3> DEFINE last == Latest(asked)
    <3> HIDE DEF last, asked
    <3> QED
      BY <1>1, <2>0, <2>3 DEF last
  <2>5. CachedResponse(turn) = Earliest(answered)
    BY <1>4 DEF CachedResponse
  <2> QED
    BY <2>4, <2>5
<1> QED
  BY <1>2, <1>3, <1>4

\* In a linear thread what the cache finds is the answer that follows the prompt.
LEMMA CacheFollowsPrompt ==
  ASSUME ThreadInv, Linear, NEW turn \in 1 .. Len(thread), CachedResponse(turn) # 0
  PROVE  \E i \in 1 .. Len(thread) - 1 :
            /\ thread[i].role = "user" /\ thread[i].about = thread[turn].about
            /\ CachedResponse(turn) = i + 1
<1> DEFINE asked == {i \in expired + 1 .. Len(thread) :
                  thread[i].role = "user" /\ thread[i].about = thread[turn].about /\ i # turn}
<1> DEFINE answered == {i \in Latest(asked) + 1 .. Len(thread) :
                        thread[i].role = "assistant" /\ thread[i].status = "done"}
<1>1. Len(thread) \in Nat /\ expired \in Nat
  BY DEF ThreadInv, ObserverThreadTypeOK
<1>2. asked # {} /\ answered # {} /\ CachedResponse(turn) = Earliest(answered)
  BY DEF CachedResponse
<1>3. Latest(asked) \in asked
  <2>1. asked \in SUBSET (1 .. Len(thread))
    BY <1>1
  <2> HIDE DEF asked
  <2>2. \E i \in asked : \A j \in asked : j <= i
    BY <1>1, <1>2, <2>1, LargestNat
  <2> QED
    BY <2>2 DEF Latest
<1>4. PICK i \in 1 .. Len(thread) : i = Latest(asked) /\ thread[i].role = "user" /\ thread[i].about = thread[turn].about
  <2>1. \A k \in asked : k \in 1 .. Len(thread) /\ thread[k].role = "user" /\ thread[k].about = thread[turn].about
    BY <1>1
  <2> HIDE DEF asked
  <2> QED
    BY <1>3, <2>1
<1>5. i \in 1 .. Len(thread) - 1
  BY <1>1, <1>2, <1>4
<1>6. i + 1 \in answered
  <2>1. thread[i + 1].role = "assistant" /\ thread[i + 1].status = "done"
    BY <1>4, <1>5 DEF Linear
  <2> QED
    BY <1>1, <1>4, <1>5, <2>1
<1>7. \A j \in answered : i + 1 <= j /\ j \in Nat
  BY <1>1, <1>4
<1>8. Earliest(answered) = i + 1
  <2> HIDE DEF answered
  <2>1. Earliest(answered) \in answered /\ \A j \in answered : Earliest(answered) <= j
    BY <1>6, <1>7 DEF Earliest
  <2>2. Earliest(answered) <= i + 1 /\ i + 1 <= Earliest(answered) /\ Earliest(answered) \in Nat
    BY <1>6, <1>7, <2>1
  <2> QED
    BY <1>4, <2>2
<1> QED
  BY <1>2, <1>4, <1>5, <1>8

\* Every step keeps the messages in their ranges and the runs to their prompts.
LEMMA NextThread == ThreadInv /\ [ObserverThreadNext]_observerThreadVars => ThreadInv'
<1> SUFFICES ASSUME ThreadInv, [ObserverThreadNext]_observerThreadVars PROVE ThreadInv'
  OBVIOUS
<1>a. ObserverThreadTypeOK /\ RunsAnswerTheirTurn
  BY DEF ThreadInv
<1>b. /\ thread \in Seq(Message) /\ Len(thread) \in Nat /\ Len(thread) <= MaxMessages /\ MaxMessages \in Nat
      /\ firing \in [Schedules -> 0 .. Len(thread)] /\ delegated \subseteq 1 .. Len(thread)
      /\ expired \in 0 .. Len(thread)
      /\ \A i \in 1 .. Len(thread) : thread[i] \in Message
  BY <1>a, ObserverThreadAssumption DEF ObserverThreadTypeOK
<1>c. \A p \in Prompts \cup {NoPrompt} : UserMessage(p) \in Message /\ UserMessage(p).role = "user"
  BY <1>b DEF UserMessage, Message, Roles
<1>1. CASE UNCHANGED observerThreadVars
  BY <1>a, <1>1 DEF observerThreadVars, ThreadInv, ObserverThreadTypeOK, RunsAnswerTheirTurn
<1>2. ASSUME NEW m \in Message, Len(thread) < MaxMessages, thread' = Append(thread, m),
             m.role = "assistant" /\ ~m.cached /\ m.turn # 0 =>
                m.turn \in 1 .. Len(thread) /\ m.about = thread[m.turn].about,
             firing' \in [Schedules -> 0 .. Len(thread')],
             delegated' \subseteq delegated \cup {Len(thread')}, expired' = expired
      PROVE  ThreadInv'
  <2>1. /\ thread' \in Seq(Message) /\ Len(thread') = Len(thread) + 1 /\ Len(thread') <= MaxMessages
        /\ RunsAnswerTheirTurn'
    BY <1>2, Appended
  <2>2. delegated' \subseteq 1 .. Len(thread') /\ expired' \in 0 .. Len(thread')
    BY <1>b, <1>2, <2>1
  <2> QED
    BY <1>2, <2>1, <2>2 DEF ThreadInv, ObserverThreadTypeOK
<1>3. \A m : Len(thread) < MaxMessages /\ thread' = Append(thread, m) =>
            /\ Len(thread') = Len(thread) + 1 /\ 0 .. Len(thread) \subseteq 0 .. Len(thread')
            /\ Len(thread') \in 0 .. Len(thread')
  BY <1>b
<1>4. ASSUME NEW s \in Schedules, NEW p \in Prompts, PostPrompt(s, p) PROVE ThreadInv'
  <2>1. UserMessage(p) \in Message /\ UserMessage(p).role = "user"
    BY <1>c
  <2>2. firing' \in [Schedules -> 0 .. Len(thread')]
    BY <1>b, <1>3, <1>4 DEF PostPrompt
  <2> QED
    BY <1>2, <1>4, <2>1, <2>2 DEF PostPrompt
<1>5. ASSUME NEW s \in Schedules, AnswerStructured(s) PROVE ThreadInv'
  <2>1. firing[s] \in 1 .. Len(thread) /\ thread[firing[s]] \in Message
    BY <1>b, <1>5 DEF AnswerStructured
  <2>2. PICK status \in {"done", "failed"}, text \in BOOLEAN :
            thread' = Append(thread, Assistant(thread[firing[s]].about, status, firing[s], text, FALSE))
    <3>1. PICK done \in BOOLEAN :
            thread' = Append(thread, Assistant(thread[firing[s]].about, IF done THEN "done" ELSE "failed",
                                               firing[s], ~done, FALSE))
      BY <1>5 DEF AnswerStructured
    <3> QED
      BY <3>1
  <2> DEFINE m == Assistant(thread[firing[s]].about, status, firing[s], text, FALSE)
  <2>3. m \in Message /\ m.turn = firing[s] /\ m.about = thread[firing[s]].about
    <3>1. thread[firing[s]].about \in Prompts \cup {NoPrompt} /\ firing[s] \in 0 .. MaxMessages
      BY <1>b, <2>1 DEF Message
    <3> QED
      BY <3>1 DEF Assistant, Message, Roles
  <2>4. firing' \in [Schedules -> 0 .. Len(thread')]
    BY <1>b, <1>3, <1>5, <2>2 DEF AnswerStructured
  <2> HIDE DEF m
  <2> QED
    BY <1>2, <1>5, <2>1, <2>2, <2>3, <2>4 DEF AnswerStructured, m
<1>6. ASSUME NEW s \in Schedules, AnswerPlain(s) PROVE ThreadInv'
  <2> DEFINE found == CachedResponse(firing[s])
  <2>1. firing[s] \in 1 .. Len(thread)
    BY <1>b, <1>6 DEF AnswerPlain
  <2>2. found \in 0 .. Len(thread)
    BY <2>1, CacheInThread
  <2>3. CASE found = 0
    <3>1. UNCHANGED <<thread, expired>> /\ delegated' = delegated \cup {firing[s]}
          /\ firing' = [firing EXCEPT ![s] = 0]
      BY <1>6, <2>3 DEF AnswerPlain
    <3>2. firing' \in [Schedules -> 0 .. Len(thread)]
      BY <1>b, <3>1
    <3> QED
      BY <1>a, <1>b, <2>1, <3>1, <3>2 DEF ThreadInv, ObserverThreadTypeOK, RunsAnswerTheirTurn
  <2>4. CASE found # 0
    <3> DEFINE m == Assistant(thread[found].about, "done", firing[s], TRUE, TRUE)
    <3>1. /\ thread' = Append(thread, m) /\ Len(thread) < MaxMessages /\ UNCHANGED <<delegated, expired>>
          /\ firing' = [firing EXCEPT ![s] = 0]
      BY <1>6, <2>4 DEF AnswerPlain
    <3>2. m \in Message /\ m.cached
      <4> HIDE DEF found
      <4>1. thread[found].about \in Prompts \cup {NoPrompt} /\ firing[s] \in 0 .. MaxMessages
        BY <1>b, <2>1, <2>2, <2>4 DEF Message
      <4> QED
        BY <4>1 DEF Assistant, Message, Roles
    <3> HIDE DEF m
    <3>3. firing' \in [Schedules -> 0 .. Len(thread')]
      BY <1>b, <1>3, <3>1
    <3> QED
      BY <1>2, <3>1, <3>2, <3>3
  <2> QED
    BY <2>3, <2>4
<1>7. CASE RunStarts
  <2>1. PICK i \in delegated :
            /\ thread' = Append(thread, Assistant(thread[i].about, "streaming", i, FALSE, FALSE))
            /\ delegated' = delegated \ {i}
    BY <1>7 DEF RunStarts
  <2> DEFINE m == Assistant(thread[i].about, "streaming", i, FALSE, FALSE)
  <2>2. i \in 1 .. Len(thread) /\ thread[i] \in Message
    BY <1>b, <2>1
  <2>3. m \in Message /\ m.turn = i /\ m.about = thread[i].about
    <3>1. thread[i].about \in Prompts \cup {NoPrompt} /\ i \in 0 .. MaxMessages
      BY <1>b, <2>2 DEF Message
    <3> QED
      BY <3>1 DEF Assistant, Message, Roles
  <2>4. firing' \in [Schedules -> 0 .. Len(thread')]
    BY <1>b, <1>3, <1>7, <2>1 DEF RunStarts
  <2> HIDE DEF m
  <2> QED
    BY <1>2, <1>7, <2>1, <2>2, <2>3, <2>4 DEF RunStarts, m
<1>8. CASE RunEnds
  <2>1. PICK i \in 1 .. Len(thread), status \in {"done", "failed"}, text \in BOOLEAN :
            thread' = [thread EXCEPT ![i].status = status, ![i].text = text]
    BY <1>8 DEF RunEnds
  <2> DEFINE new == [thread[i] EXCEPT !.status = status, !.text = text]
  <2>2. /\ new \in Message /\ new.role = thread[i].role /\ new.cached = thread[i].cached
        /\ new.turn = thread[i].turn /\ new.about = thread[i].about
    <3>1. thread[i] \in Message
      BY <1>b
    <3> QED
      BY <3>1 DEF Message
  <2>3. thread' = [thread EXCEPT ![i] = new]
    BY <1>b, <2>1
  <2> HIDE DEF new
  <2>4. thread' \in Seq(Message) /\ Len(thread') = Len(thread)
    <3> HIDE DEF Message
    <3> QED
      BY <1>b, <2>2, <2>3
  <2>5. \A k \in 1 .. Len(thread) :
            thread'[k].role = thread[k].role /\ thread'[k].cached = thread[k].cached
            /\ thread'[k].turn = thread[k].turn /\ thread'[k].about = thread[k].about
    BY <1>b, <2>2, <2>3
  <2>6. RunsAnswerTheirTurn'
    BY <1>a, <2>4, <2>5 DEF RunsAnswerTheirTurn
  <2> QED
    BY <1>b, <1>8, <2>4, <2>6 DEF RunEnds, ThreadInv, ObserverThreadTypeOK
<1>9. CASE CacheExpires
  <2>1. expired' \in 0 .. Len(thread)
    BY <1>b, <1>9 DEF CacheExpires
  <2> QED
    BY <1>a, <1>9, <2>1 DEF CacheExpires, ThreadInv, ObserverThreadTypeOK, RunsAnswerTheirTurn
<1>10. ASSUME NEW s \in Schedules, FireEndsUnanswered(s) PROVE ThreadInv'
  BY <1>a, <1>b, <1>10 DEF FireEndsUnanswered, ThreadInv, ObserverThreadTypeOK, RunsAnswerTheirTurn
<1>11. CASE UserAsks
  <2>1. UserMessage(NoPrompt) \in Message /\ UserMessage(NoPrompt).role = "user"
    BY <1>c
  <2>2. firing' \in [Schedules -> 0 .. Len(thread')]
    BY <1>b, <1>3, <1>11 DEF UserAsks
  <2> QED
    BY <1>2, <1>11, <2>1, <2>2 DEF UserAsks
<1>12. CASE BatchResultPosted
  <2>1. PICK status \in {"done", "failed"} : thread' = Append(thread, Assistant(NoPrompt, status, 0, TRUE, FALSE))
    BY <1>12 DEF BatchResultPosted
  <2> DEFINE m == Assistant(NoPrompt, status, 0, TRUE, FALSE)
  <2>2. m \in Message /\ m.turn = 0
    <3>1. NoPrompt \in Prompts \cup {NoPrompt} /\ 0 \in 0 .. MaxMessages
      BY <1>b
    <3> QED
      BY <3>1 DEF Assistant, Message, Roles
  <2>3. firing' \in [Schedules -> 0 .. Len(thread')]
    BY <1>b, <1>3, <1>12, <2>1 DEF BatchResultPosted
  <2> HIDE DEF m
  <2> QED
    BY <1>2, <1>12, <2>1, <2>2, <2>3 DEF BatchResultPosted, m
<1> QED
  BY <1>1, <1>4, <1>5, <1>6, <1>7, <1>8, <1>9, <1>10, <1>11, <1>12 DEF ObserverThreadNext

\* A step that makes the thread longer with a reused response reuses the right one.
LEMMA ReuseInALinearThread ==
  ASSUME ThreadInv, ObserverThreadNext, Linear, CachedAnswersItsPrompt, Len(thread') > Len(thread),
         thread'[Len(thread')].cached
  PROVE  thread'[Len(thread')].about = thread[thread'[Len(thread')].turn].about
<1> DEFINE new == thread'[Len(thread')]
<1>a. ObserverThreadTypeOK /\ RunsAnswerTheirTurn
  BY DEF ThreadInv
<1>b. thread \in Seq(Message) /\ Len(thread) \in Nat /\ firing \in [Schedules -> 0 .. Len(thread)]
  BY <1>a DEF ObserverThreadTypeOK
<1>1. \A m : thread' = Append(thread, m) => new = m
  BY <1>b
<1>2. ~RunEnds /\ ~CacheExpires
  <2>1. RunEnds => Len(thread') = Len(thread)
    BY <1>b DEF RunEnds
  <2>2. CacheExpires => Len(thread') = Len(thread)
    BY DEF CacheExpires
  <2> QED
    BY <1>b, <2>1, <2>2
<1>3. ~RunStarts
  <2> SUFFICES ASSUME RunStarts PROVE FALSE
    OBVIOUS
  <2>1. PICK i \in delegated : thread' = Append(thread, Assistant(thread[i].about, "streaming", i, FALSE, FALSE))
    BY DEF RunStarts
  <2>2. new = Assistant(thread[i].about, "streaming", i, FALSE, FALSE)
    BY <1>1, <2>1
  <2> QED
    BY <2>2 DEF Assistant
<1>4. ASSUME NEW s \in Schedules PROVE ~AnswerStructured(s) /\ \A p \in Prompts : ~PostPrompt(s, p)
  <2>1. ASSUME AnswerStructured(s) PROVE FALSE
    <3>1. PICK done \in BOOLEAN :
            thread' = Append(thread, Assistant(thread[firing[s]].about, IF done THEN "done" ELSE "failed",
                                               firing[s], ~done, FALSE))
      BY <2>1 DEF AnswerStructured
    <3>2. new = Assistant(thread[firing[s]].about, IF done THEN "done" ELSE "failed", firing[s], ~done, FALSE)
      BY <1>1, <3>1
    <3>3. ~new.cached
      BY <3>2 DEF Assistant
    <3> QED
      BY <3>3
  <2> QED
    BY <1>1, <2>1 DEF PostPrompt, UserMessage
<1>5. ~UserAsks /\ ~BatchResultPosted /\ \A s \in Schedules : ~FireEndsUnanswered(s)
  <2>1. ~UserAsks /\ ~BatchResultPosted
    BY <1>1 DEF UserAsks, BatchResultPosted, Assistant, UserMessage
  <2>2. ASSUME NEW s \in Schedules, FireEndsUnanswered(s) PROVE FALSE
    <3>1. thread' = thread
      BY <2>2 DEF FireEndsUnanswered
    <3> QED
      BY <1>b, <3>1
  <2> QED
    BY <2>1, <2>2
<1>6. PICK s \in Schedules : AnswerPlain(s)
  BY <1>2, <1>3, <1>4, <1>5 DEF ObserverThreadNext
<1> DEFINE found == CachedResponse(firing[s])
<1>7. firing[s] \in 1 .. Len(thread)
  BY <1>b, <1>6 DEF AnswerPlain
<1>8. found # 0 /\ thread' = Append(thread, Assistant(thread[found].about, "done", firing[s], TRUE, TRUE))
  <2>1. CASE found = 0
    <3>1. thread' = thread
      BY <1>6, <2>1 DEF AnswerPlain
    <3> QED
      BY <1>b, <3>1
  <2>2. CASE found # 0
    BY <1>6, <2>2 DEF AnswerPlain
  <2> QED
    BY <2>1, <2>2
<1>9. new.about = thread[found].about /\ new.turn = firing[s]
  BY <1>1, <1>8 DEF Assistant
<1>10. PICK i \in 1 .. Len(thread) - 1 :
         thread[i].role = "user" /\ thread[i].about = thread[firing[s]].about /\ found = i + 1
  BY <1>7, <1>8, CacheFollowsPrompt
<1>11. i + 1 \in 1 .. Len(thread) /\ thread[i + 1].role = "assistant" /\ thread[i + 1].turn = i
  BY <1>b, <1>10 DEF Linear
<1>12. thread[i + 1].about = thread[i].about
  BY <1>a, <1>10, <1>11 DEF RunsAnswerTheirTurn, CachedAnswersItsPrompt
<1> QED
  BY <1>9, <1>10, <1>12

\* For any number of schedules, prompts and messages.
THEOREM LinearReuse == ObserverThreadSpec => CachedWhenLinear
<1>1. ThreadInv /\ [ObserverThreadNext]_observerThreadVars =>
        [Linear /\ CachedAnswersItsPrompt /\ Len(thread') > Len(thread) =>
            LET new == thread'[Len(thread')]
            IN  new.cached => new.about = thread[new.turn].about]_observerThreadVars
  BY ReuseInALinearThread
<1> QED
  BY <1>1, InitThread, NextThread, PTL DEF ObserverThreadSpec, CachedWhenLinear

\* The messages of the thread, the fires and the cache stay in their ranges, for any number
\* of schedules, prompts and messages.
THEOREM ObserverThreadTypes == ObserverThreadSpec => []ObserverThreadTypeOK
<1>1. ThreadInv => ObserverThreadTypeOK
  BY DEF ThreadInv
<1> QED
  BY <1>1, InitThread, NextThread, PTL DEF ObserverThreadSpec

-----------------------------------------------------------------------------
(* Conditions                                                              *)

(* The priors of the crossing leaves: the record that the loop over the    *)
(* leaves builds is followed leaf by leaf, price and indicator apart.      *)

\* What build_snapshot has recorded at some leaf.
Record == [values : [Keys -> Reading], priors : [Keys -> Reading], stored : [Keys -> Reading], seen : SUBSET Keys]

\* Before the first leaf.
Blank == [values |-> Nothing, priors |-> Nothing, stored |-> stored, seen |-> {}]

\* The first leaf about the indicator is a crossing one: the indicator is stored.
Tracked ==
    \E i \in 1 .. Len(condition.leaves) :
        /\ condition.leaves[i].key # "price" /\ condition.leaves[i].op \in CrossingOps
        /\ \A j \in 1 .. i - 1 : condition.leaves[j].key = "price"

\* The condition is one crossing leaf that spells out its parameters.
AloneCrossing ==
    LET leaf == condition.leaves[1]
    IN  Len(condition.leaves) = 1 /\ leaf.key = Resolved(leaf.key) /\ leaf.op \in CrossingOps

\* What the first i leaves record of the price: nothing without a leaf about it; else the
\* quote, and a prior that is what was stored at the tick's begin or, after that, its own.
PriceRecorded(acc, i, value) ==
    LET old == stored["price"]
    IN  IF \E j \in 1 .. i : condition.leaves[j].key = "price"
        THEN /\ acc.values["price"] = value /\ acc.stored["price"] = Known(value, old)
             /\ acc.priors["price"] \in {NoValue, old, Known(value, old)}
        ELSE /\ acc.values["price"] = NoValue /\ acc.stored["price"] = old
             /\ acc.priors["price"] = NoValue

\* And of the indicator, under its resolved key: its first leaf decides.
IndicatorRecorded(acc, i, value) ==
    LET old == stored["rsi:14"]
    IN  IF \E j \in 1 .. i : condition.leaves[j].key # "price"
        THEN /\ acc.seen = {"rsi:14"} /\ acc.values["rsi:14"] = value
             /\ acc.stored["rsi:14"] = IF Tracked THEN Known(value, old) ELSE old
             /\ acc.priors["rsi:14"] = IF Tracked THEN old ELSE NoValue
        ELSE /\ acc.seen = {} /\ acc.values["rsi:14"] = NoValue /\ acc.stored["rsi:14"] = old
             /\ acc.priors["rsi:14"] = NoValue

\* Nothing is ever recorded under the unresolved one.
NothingUnresolved(acc) ==
    /\ acc.values["rsi:None"] = NoValue /\ acc.priors["rsi:None"] = NoValue
    /\ acc.stored["rsi:None"] = stored["rsi:None"]

RecordedUpTo(acc, i, value) ==
    /\ acc \in Record
    /\ PriceRecorded(acc, i, value) /\ IndicatorRecorded(acc, i, value) /\ NothingUnresolved(acc)

\* What is stored is the last value there was; a prior is the one before it, or the
\* value itself; what no crossing leaf tracks is not stored.
PriorsTrue ==
    /\ \A k \in Keys : stored[k] # NoValue => stored[k] = Known(metrics.values[k], before[k])
    /\ \A k \in Keys : metrics.priors[k] # NoValue => metrics.priors[k] \in {before[k], metrics.values[k]}
    /\ ~Tracked => stored["rsi:14"] = NoValue
    /\ stored["rsi:None"] = NoValue

\* A crossing leaf that is alone always has its prior.
AlonePrior ==
    AloneCrossing =>
        LET k == condition.leaves[1].key
        IN  stored[k] = Known(metrics.values[k], before[k]) /\ metrics.priors[k] = before[k]

\* The inductive invariant.
CrossInv == ConditionsTypeOK /\ PriorsTrue /\ AlonePrior

\* What a leaf adds to the record.
LEMMA LeafRecords ==
  ASSUME NEW acc \in Record, NEW leaf \in Leaf, NEW value \in Reading
  PROVE  LET r == RecordLeaf(acc, leaf, value)
         IN  /\ r \in Record
             /\ leaf.key = "price" =>
                  /\ r.values["price"] = value
                  /\ r.priors["price"] = IF leaf.op \in CrossingOps THEN acc.stored["price"] ELSE acc.priors["price"]
                  /\ r.stored["price"] = Known(value, acc.stored["price"])
                  /\ r.seen = acc.seen
                  /\ \A k \in {"rsi:14", "rsi:None"} : /\ r.values[k] = acc.values[k] /\ r.priors[k] = acc.priors[k]
                                                       /\ r.stored[k] = acc.stored[k]
             /\ leaf.key # "price" /\ "rsi:14" \in acc.seen => r = acc
             /\ leaf.key # "price" /\ "rsi:14" \notin acc.seen =>
                  /\ r.seen = acc.seen \cup {"rsi:14"} /\ r.values["rsi:14"] = value
                  /\ r.priors["rsi:14"] = IF leaf.op \in CrossingOps THEN acc.stored["rsi:14"] ELSE acc.priors["rsi:14"]
                  /\ r.stored["rsi:14"] = IF leaf.op \in CrossingOps THEN Known(value, acc.stored["rsi:14"])
                                                                      ELSE acc.stored["rsi:14"]
                  /\ \A k \in {"price", "rsi:None"} : /\ r.values[k] = acc.values[k] /\ r.priors[k] = acc.priors[k]
                                                      /\ r.stored[k] = acc.stored[k]
<1> DEFINE r == RecordLeaf(acc, leaf, value)
<1>a. /\ leaf.key \in Keys /\ Keys = {"price", "rsi:14", "rsi:None"}
      /\ acc.values \in [Keys -> Reading] /\ acc.priors \in [Keys -> Reading]
      /\ acc.stored \in [Keys -> Reading] /\ acc.seen \in SUBSET Keys
  BY DEF Leaf, Keys, Record
<1>b. \A old \in Reading : Known(value, old) \in Reading
  BY DEF Known
<1>1. CASE leaf.key = "price"
  <2> DEFINE p == IF leaf.op \in CrossingOps THEN acc.stored["price"] ELSE acc.priors["price"]
             s == Known(value, acc.stored["price"])
  <2>1. "price" \in Keys /\ p \in Reading /\ s \in Reading
    BY <1>a, <1>b
  <2>2. r = [acc EXCEPT !.values["price"] = value, !.priors["price"] = p, !.stored["price"] = s]
    BY <1>1, <1>a DEF RecordLeaf, RecordPrice, Record
  <2> HIDE DEF p, s, r
  <2>3. r = [values |-> [acc.values EXCEPT !["price"] = value], priors |-> [acc.priors EXCEPT !["price"] = p],
             stored |-> [acc.stored EXCEPT !["price"] = s], seen |-> acc.seen]
    BY <2>2 DEF Record
  <2>4. r \in Record
    BY <1>a, <2>1, <2>3 DEF Record
  <2>5. /\ r.values["price"] = value /\ r.priors["price"] = p /\ r.stored["price"] = s /\ r.seen = acc.seen
        /\ \A k \in {"rsi:14", "rsi:None"} : /\ r.values[k] = acc.values[k] /\ r.priors[k] = acc.priors[k]
                                             /\ r.stored[k] = acc.stored[k]
    BY <1>a, <2>1, <2>3
  <2> QED
    BY <1>1, <2>4, <2>5 DEF p, s, r
<1>2. CASE leaf.key # "price" /\ "rsi:14" \in acc.seen
  <2>1. Resolved(leaf.key) = "rsi:14"
    BY <1>2, <1>a DEF Resolved
  <2>2. r = acc
    BY <1>2, <2>1 DEF RecordLeaf, RecordIndicator
  <2> QED
    BY <1>2, <2>2
<1>3. CASE leaf.key # "price" /\ "rsi:14" \notin acc.seen
  <2> DEFINE p == IF leaf.op \in CrossingOps THEN acc.stored["rsi:14"] ELSE acc.priors["rsi:14"]
             s == IF leaf.op \in CrossingOps THEN Known(value, acc.stored["rsi:14"]) ELSE acc.stored["rsi:14"]
  <2>0. Resolved(leaf.key) = "rsi:14"
    BY <1>3, <1>a DEF Resolved
  <2>1. "rsi:14" \in Keys /\ p \in Reading /\ s \in Reading
    BY <1>a, <1>b
  <2>2. r = [acc EXCEPT !.seen = @ \cup {"rsi:14"}, !.values["rsi:14"] = value, !.priors["rsi:14"] = p,
                        !.stored["rsi:14"] = s]
    BY <1>3, <1>a, <2>0 DEF RecordLeaf, RecordIndicator, Record
  <2> HIDE DEF p, s, r
  <2>3. r = [values |-> [acc.values EXCEPT !["rsi:14"] = value], priors |-> [acc.priors EXCEPT !["rsi:14"] = p],
             stored |-> [acc.stored EXCEPT !["rsi:14"] = s], seen |-> acc.seen \cup {"rsi:14"}]
    BY <2>2 DEF Record
  <2>4. r \in Record
    BY <1>a, <2>1, <2>3 DEF Record
  <2>5. /\ r.values["rsi:14"] = value /\ r.priors["rsi:14"] = p /\ r.stored["rsi:14"] = s
        /\ r.seen = acc.seen \cup {"rsi:14"}
        /\ \A k \in {"price", "rsi:None"} : /\ r.values[k] = acc.values[k] /\ r.priors[k] = acc.priors[k]
                                            /\ r.stored[k] = acc.stored[k]
    BY <1>a, <2>1, <2>3
  <2> QED
    BY <1>3, <2>4, <2>5 DEF p, s, r
<1> QED
  BY <1>1, <1>2, <1>3

\* The loop over the leaves has a result, the record after the last one.
LEMMA SnapshotLoop ==
  ASSUME NEW value, condition.leaves \in Seq(Leaf)
  PROVE  \E taken : /\ taken[0] = Blank
                    /\ \A i \in 1 .. Len(condition.leaves) :
                          taken[i] = RecordLeaf(taken[i - 1], condition.leaves[i], value)
                    /\ Snapshot(value) = taken[Len(condition.leaves)]
<1> DEFINE leaves == condition.leaves
           N == Len(leaves)
           Loop(n, g) == g = [i \in 0 .. n |-> IF i = 0 THEN Blank ELSE RecordLeaf(g[i - 1], leaves[i], value)]
           Endless == {n \in 0 .. N : ~\E g : Loop(n, g)}
<1>a. N \in Nat
  OBVIOUS
<1> HIDE DEF N, leaves
<1>1. \A n \in 0 .. N : \E g : Loop(n, g)
  <2> SUFFICES ASSUME Endless # {} PROVE FALSE
    OBVIOUS
  <2>a. Endless \in SUBSET Nat
    BY <1>a
  <2> HIDE DEF Endless
  <2>1. PICK n \in Endless : \A m \in Endless : n <= m
    BY <2>a, SmallestNat
  <2>b. n \in 0 .. N /\ (\A m \in 0 .. N : m < n => m \notin Endless) /\ ~\E g : Loop(n, g)
    <3>1. Endless \subseteq 0 .. N /\ \A m \in Endless : ~\E g : Loop(m, g)
      BY DEF Endless
    <3> HIDE DEF Loop
    <3> QED
      BY <1>a, <2>1, <3>1
  <2>2. n # 0
    <3>1. Loop(0, [i \in 0 .. 0 |-> Blank])
      OBVIOUS
    <3> QED
      BY <2>b, <3>1
  <2>3. n - 1 \in 0 .. N /\ n - 1 \notin Endless /\ n \in Nat
    BY <1>a, <2>b, <2>2
  <2>4. PICK g : Loop(n - 1, g)
    BY <2>3 DEF Endless
  <2> DEFINE h == [i \in 0 .. n |-> IF i = n THEN RecordLeaf(g[n - 1], leaves[n], value) ELSE g[i]]
  <2>5. \A i \in 0 .. n : h[i] = IF i = 0 THEN Blank ELSE RecordLeaf(h[i - 1], leaves[i], value)
    <3>1. ASSUME NEW i \in 0 .. n, i # n
          PROVE h[i] = IF i = 0 THEN Blank ELSE RecordLeaf(h[i - 1], leaves[i], value)
      <4>1. i \in 0 .. n - 1 /\ h[i] = g[i]
        BY <2>3, <3>1
      <4>2. i # 0 => h[i - 1] = g[i - 1]
        BY <2>3, <3>1
      <4> HIDE DEF h
      <4> QED
        BY <2>4, <4>1, <4>2
    <3>2. h[n] = RecordLeaf(h[n - 1], leaves[n], value)
      BY <2>2, <2>3
    <3> QED
      BY <2>2, <3>1, <3>2
  <2>6. Loop(n, h)
    BY <2>5
  <2> QED
    BY <2>b, <2>6
<1> DEFINE out == CHOOSE g : Loop(N, g)
<1>2. Loop(N, out)
  <2> HIDE DEF Loop
  <2>1. \E g : Loop(N, g)
    BY <1>a, <1>1
  <2> QED
    BY <2>1
<1>3. Snapshot(value) = out[N]
  BY DEF Snapshot, N, leaves, Blank
<1> HIDE DEF out
<1>4. \A i \in 0 .. N : out[i] = IF i = 0 THEN Blank ELSE RecordLeaf(out[i - 1], leaves[i], value)
  BY <1>2
<1>5. out[0] = Blank /\ \A i \in 1 .. N : out[i] = RecordLeaf(out[i - 1], leaves[i], value)
  <2>1. 0 \in 0 .. N /\ \A i \in 1 .. N : i \in 0 .. N /\ i # 0
    BY <1>a
  <2> HIDE DEF Loop
  <2> QED
    BY <1>4, <2>1
<1> QED
  BY <1>3, <1>5 DEF N, leaves

\* The first leaf about the indicator decides whether it is tracked.
LEMMA FirstDecides ==
  ASSUME condition.leaves \in Seq(Leaf), NEW i \in 1 .. Len(condition.leaves),
         condition.leaves[i].key # "price", \A j \in 1 .. i - 1 : condition.leaves[j].key = "price"
  PROVE  Tracked <=> condition.leaves[i].op \in CrossingOps
<1>1. condition.leaves[i].op \in CrossingOps => Tracked
  BY DEF Tracked
<1>2. ASSUME Tracked PROVE condition.leaves[i].op \in CrossingOps
  <2>1. PICK k \in 1 .. Len(condition.leaves) :
          /\ condition.leaves[k].key # "price" /\ condition.leaves[k].op \in CrossingOps
          /\ \A j \in 1 .. k - 1 : condition.leaves[j].key = "price"
    BY <1>2 DEF Tracked
  <2>2. ~(k < i) /\ ~(i < k)
    BY <2>1
  <2>3. k = i
    BY <2>2
  <2> QED
    BY <2>1, <2>3
<1> QED
  BY <1>1, <1>2

\* One leaf more.
LEMMA LeafByLeaf ==
  ASSUME ConditionsTypeOK, NEW value \in Reading, NEW acc, NEW i \in 1 .. Len(condition.leaves),
         RecordedUpTo(acc, i - 1, value)
  PROVE  RecordedUpTo(RecordLeaf(acc, condition.leaves[i], value), i, value)
<1> DEFINE leaf == condition.leaves[i]
           r == RecordLeaf(acc, leaf, value)
<1>a. leaf \in Leaf /\ acc \in Record /\ i \in Nat /\ i - 1 \in Nat
  BY DEF ConditionsTypeOK, RecordedUpTo
<1>b. \A j : j \in 1 .. i <=> j \in 1 .. i - 1 \/ j = i
  BY <1>a
<1>c. /\ PriceRecorded(acc, i - 1, value) /\ IndicatorRecorded(acc, i - 1, value)
      /\ NothingUnresolved(acc)
  BY DEF RecordedUpTo
<1>d. r \in Record
  BY <1>a, LeafRecords
<1>e. \A old : Known(value, Known(value, old)) = Known(value, old)
  BY DEF Known
<1>1. CASE leaf.key = "price"
  <2>1. /\ r.values["price"] = value
        /\ r.priors["price"] = IF leaf.op \in CrossingOps THEN acc.stored["price"] ELSE acc.priors["price"]
        /\ r.stored["price"] = Known(value, acc.stored["price"]) /\ r.seen = acc.seen
        /\ \A k \in {"rsi:14", "rsi:None"} : /\ r.values[k] = acc.values[k] /\ r.priors[k] = acc.priors[k]
                                             /\ r.stored[k] = acc.stored[k]
    BY <1>1, <1>a, LeafRecords
  <2> HIDE DEF r
  <2>2. PriceRecorded(r, i, value)
    <3>1. \E j \in 1 .. i : condition.leaves[j].key = "price"
      BY <1>1, <1>b
    <3>2. /\ acc.stored["price"] \in {stored["price"], Known(value, stored["price"])}
          /\ acc.priors["price"] \in {NoValue, stored["price"], Known(value, stored["price"])}
      BY <1>c DEF PriceRecorded
    <3>3. r.stored["price"] = Known(value, stored["price"])
      BY <1>e, <2>1, <3>2
    <3> QED
      BY <2>1, <3>1, <3>2, <3>3 DEF PriceRecorded
  <2>3. IndicatorRecorded(r, i, value)
    <3>1. (\E j \in 1 .. i : condition.leaves[j].key # "price")
            <=> (\E j \in 1 .. i - 1 : condition.leaves[j].key # "price")
      BY <1>1, <1>b
    <3> QED
      BY <1>c, <2>1, <3>1 DEF IndicatorRecorded
  <2>4. NothingUnresolved(r)
    BY <1>c, <2>1 DEF NothingUnresolved
  <2> QED
    BY <1>d, <2>2, <2>3, <2>4 DEF RecordedUpTo, r
<1>2. CASE leaf.key # "price" /\ "rsi:14" \in acc.seen
  <2>1. r = acc
    BY <1>2, <1>a, LeafRecords
  <2>2. \E j \in 1 .. i - 1 : condition.leaves[j].key # "price"
    BY <1>2, <1>c DEF IndicatorRecorded
  <2>3. \E j \in 1 .. i : condition.leaves[j].key # "price"
    BY <1>b, <2>2
  <2>4. (\E j \in 1 .. i : condition.leaves[j].key = "price")
          <=> (\E j \in 1 .. i - 1 : condition.leaves[j].key = "price")
    BY <1>2, <1>b
  <2> HIDE DEF r
  <2> QED
    BY <1>c, <1>d, <2>1, <2>2, <2>3, <2>4 DEF RecordedUpTo, PriceRecorded, IndicatorRecorded, r
<1>3. CASE leaf.key # "price" /\ "rsi:14" \notin acc.seen
  <2>1. /\ r.seen = acc.seen \cup {"rsi:14"} /\ r.values["rsi:14"] = value
        /\ r.priors["rsi:14"] = IF leaf.op \in CrossingOps THEN acc.stored["rsi:14"] ELSE acc.priors["rsi:14"]
        /\ r.stored["rsi:14"] = IF leaf.op \in CrossingOps THEN Known(value, acc.stored["rsi:14"])
                                                            ELSE acc.stored["rsi:14"]
        /\ \A k \in {"price", "rsi:None"} : /\ r.values[k] = acc.values[k] /\ r.priors[k] = acc.priors[k]
                                            /\ r.stored[k] = acc.stored[k]
    BY <1>3, <1>a, LeafRecords
  <2>2. ~\E j \in 1 .. i - 1 : condition.leaves[j].key # "price"
    BY <1>3, <1>c DEF IndicatorRecorded
  <2>3. Tracked <=> leaf.op \in CrossingOps
    BY <1>3, <2>2, FirstDecides DEF ConditionsTypeOK
  <2>4. /\ acc.seen = {} /\ acc.values["rsi:14"] = NoValue /\ acc.stored["rsi:14"] = stored["rsi:14"]
        /\ acc.priors["rsi:14"] = NoValue
    BY <1>c, <2>2 DEF IndicatorRecorded
  <2> HIDE DEF r
  <2>5. IndicatorRecorded(r, i, value)
    <3>1. \E j \in 1 .. i : condition.leaves[j].key # "price"
      BY <1>3, <1>b
    <3> QED
      BY <2>1, <2>3, <2>4, <3>1 DEF IndicatorRecorded
  <2>6. PriceRecorded(r, i, value)
    <3>1. (\E j \in 1 .. i : condition.leaves[j].key = "price")
            <=> (\E j \in 1 .. i - 1 : condition.leaves[j].key = "price")
      BY <1>3, <1>b
    <3> QED
      BY <1>c, <2>1, <3>1 DEF PriceRecorded
  <2>7. NothingUnresolved(r)
    BY <1>c, <2>1 DEF NothingUnresolved
  <2> QED
    BY <1>d, <2>5, <2>6, <2>7 DEF RecordedUpTo, r
<1> QED
  BY <1>1, <1>2, <1>3

\* What a tick records, of all the leaves.
LEMMA SnapshotRecords ==
  ASSUME ConditionsTypeOK, NEW value \in Reading
  PROVE  RecordedUpTo(Snapshot(value), Len(condition.leaves), value)
<1> DEFINE N == Len(condition.leaves)
<1>a. N \in Nat /\ condition.leaves \in Seq(Leaf)
  BY DEF ConditionsTypeOK
<1>1. PICK taken : /\ taken[0] = Blank
                   /\ \A i \in 1 .. N : taken[i] = RecordLeaf(taken[i - 1], condition.leaves[i], value)
                   /\ Snapshot(value) = taken[N]
  BY <1>a, SnapshotLoop
<1>2. RecordedUpTo(Blank, 0, value)
  <2>1. Blank \in Record /\ Blank.seen = {}
    BY DEF Blank, Record, Nothing, Reading, ConditionsTypeOK
  <2>2. \A k \in Keys : Blank.values[k] = NoValue /\ Blank.priors[k] = NoValue /\ Blank.stored[k] = stored[k]
    BY DEF Blank, Nothing
  <2>3. ~\E j \in 1 .. 0 : TRUE
    OBVIOUS
  <2> QED
    BY <2>1, <2>2, <2>3 DEF RecordedUpTo, PriceRecorded, IndicatorRecorded, NothingUnresolved, Keys
<1> DEFINE Failed == {i \in 0 .. N : ~RecordedUpTo(taken[i], i, value)}
<1>3. Failed = {}
  <2> SUFFICES ASSUME Failed # {} PROVE FALSE
    OBVIOUS
  <2>a. Failed \in SUBSET Nat
    BY <1>a
  <2>b. \A i \in Failed : i \in 0 .. N /\ ~RecordedUpTo(taken[i], i, value)
    OBVIOUS
  <2>c. \A i \in 0 .. N : i \notin Failed => RecordedUpTo(taken[i], i, value)
    OBVIOUS
  <2> HIDE DEF Failed, N
  <2>1. PICK i \in Failed : \A j \in Failed : i <= j
    BY <2>a, SmallestNat
  <2>2. i # 0
    BY <1>1, <1>2, <2>b
  <2>3. i \in 1 .. N /\ i - 1 \in 0 .. N /\ ~(i <= i - 1)
    BY <1>a, <2>b, <2>2
  <2>4. RecordedUpTo(taken[i - 1], i - 1, value)
    BY <2>1, <2>3, <2>c
  <2>5. RecordedUpTo(RecordLeaf(taken[i - 1], condition.leaves[i], value), i, value)
    BY <2>3, <2>4, LeafByLeaf DEF N
  <2> QED
    BY <1>1, <2>b, <2>3, <2>5
<1>4. N \in 0 .. N
  BY <1>a
<1>5. RecordedUpTo(taken[N], N, value)
  BY <1>3, <1>4
<1> QED
  BY <1>1, <1>5

\* Of a crossing leaf that is alone, a tick reads what was stored, and stores the value.
LEMMA AloneRecords ==
  ASSUME ConditionsTypeOK, NEW value \in Reading, AloneCrossing
  PROVE  LET k == condition.leaves[1].key
             r == Snapshot(value)
         IN  r.values[k] = value /\ r.priors[k] = stored[k] /\ r.stored[k] = Known(value, stored[k])
<1> DEFINE leaf == condition.leaves[1]
<1>1. /\ Len(condition.leaves) = 1 /\ leaf.op \in CrossingOps /\ leaf.key \in {"price", "rsi:14"}
      /\ leaf \in Leaf
  <2>1. Len(condition.leaves) = 1 /\ leaf.op \in CrossingOps /\ leaf.key = Resolved(leaf.key)
    BY DEF AloneCrossing
  <2>2. leaf \in Leaf
    BY <2>1 DEF ConditionsTypeOK
  <2> QED
    BY <2>1, <2>2 DEF Leaf, Keys, Resolved
<1>2. Snapshot(value) = RecordLeaf(Blank, leaf, value)
  <2>1. PICK taken : /\ taken[0] = Blank
                     /\ \A i \in 1 .. 1 : taken[i] = RecordLeaf(taken[i - 1], condition.leaves[i], value)
                     /\ Snapshot(value) = taken[1]
    BY <1>1, SnapshotLoop DEF ConditionsTypeOK
  <2>2. 1 \in 1 .. 1 /\ 1 - 1 = 0
    OBVIOUS
  <2> QED
    BY <2>1, <2>2
<1>3. /\ Blank \in Record /\ Blank.seen = {}
      /\ \A k \in Keys : Blank.stored[k] = stored[k]
  BY DEF Blank, Record, Nothing, Reading, ConditionsTypeOK
<1>4. leaf.key \in Keys
  BY <1>1 DEF Keys
<1>5. CASE leaf.key = "price"
  BY <1>1, <1>2, <1>3, <1>4, <1>5, LeafRecords
<1>6. CASE leaf.key = "rsi:14"
  BY <1>1, <1>2, <1>3, <1>4, <1>6, LeafRecords
<1> QED
  BY <1>1, <1>5, <1>6

\* The leaf of a condition that is one crossing leaf is about a key.
LEMMA AloneKey ==
  ASSUME condition.leaves \in Seq(Leaf), AloneCrossing
  PROVE  condition.leaves[1].key \in Keys
<1>1. Len(condition.leaves) = 1
  BY DEF AloneCrossing
<1>2. condition.leaves[1] \in Leaf
  BY <1>1
<1> QED
  BY <1>2 DEF Leaf

\* Initially nothing is stored.
LEMMA InitCross == ConditionsInit => CrossInv
<1> SUFFICES ASSUME ConditionsInit PROVE CrossInv
  OBVIOUS
<1>a. Nothing \in [Keys -> Reading] /\ \A k \in Keys : Nothing[k] = NoValue
  BY DEF Nothing, Reading
<1>b. "rsi:14" \in Keys /\ "rsi:None" \in Keys
  BY DEF Keys
<1>1. condition.leaves \in Seq(Leaf)
  <2>1. PICK n \in 1 .. MaxLeaves : condition.leaves \in [1 .. n -> Leaf]
    BY DEF ConditionsInit, Condition
  <2>2. n \in Nat
    BY ConditionsAssumption
  <2> QED
    BY <2>1, <2>2, SeqDef
<1>2. stored = Nothing /\ before = Nothing /\ metrics.values = Nothing /\ metrics.priors = Nothing
      /\ metrics \in [values : [Keys -> Reading], priors : [Keys -> Reading]]
  BY <1>a DEF ConditionsInit
<1>3. ConditionsTypeOK
  BY <1>a, <1>1, <1>2 DEF ConditionsTypeOK
<1>4. PriorsTrue
  BY <1>a, <1>b, <1>2 DEF PriorsTrue
<1>5. AlonePrior
  <2>1. AloneCrossing => condition.leaves[1].key \in Keys
    BY <1>1, AloneKey
  <2> QED
    BY <1>a, <1>2, <2>1 DEF AlonePrior, Known
<1> QED
  BY <1>3, <1>4, <1>5 DEF CrossInv

\* A tick records the last values there were, and reads them before it stores its own.
LEMMA TickKeepsPriors ==
  ASSUME CrossInv, NEW value \in Reading, MetricsTick(value)
  PROVE  CrossInv'
<1> DEFINE r == Snapshot(value)
<1>a. ConditionsTypeOK /\ PriorsTrue /\ AlonePrior
  BY DEF CrossInv
<1>b. /\ metrics' = [values |-> r.values, priors |-> r.priors] /\ stored' = r.stored
      /\ before' = [k \in Keys |-> Known(metrics.values[k], before[k])] /\ condition' = condition
  BY DEF MetricsTick
<1>c. /\ r \in Record /\ PriceRecorded(r, Len(condition.leaves), value)
      /\ IndicatorRecorded(r, Len(condition.leaves), value) /\ NothingUnresolved(r)
  BY <1>a, SnapshotRecords DEF RecordedUpTo
<1>d. AloneCrossing =>
        LET k == condition.leaves[1].key
        IN  r.values[k] = value /\ r.priors[k] = stored[k] /\ r.stored[k] = Known(value, stored[k])
  BY <1>a, AloneRecords
<1> HIDE DEF r
<1>e. /\ metrics'.values = r.values /\ metrics'.priors = r.priors
      /\ Keys = {"price", "rsi:14", "rsi:None"}
  BY <1>b DEF Keys
<1>f. /\ r.values \in [Keys -> Reading] /\ r.priors \in [Keys -> Reading] /\ r.stored \in [Keys -> Reading]
      /\ metrics.values \in [Keys -> Reading] /\ before \in [Keys -> Reading]
  BY <1>a, <1>c DEF Record, ConditionsTypeOK
<1>g. \A k \in Keys : before'[k] = Known(metrics.values[k], before[k])
  BY <1>b
<1>h. \A k \in Keys : stored[k] # NoValue => stored[k] = before'[k]
  BY <1>a, <1>g DEF PriorsTrue
<1>1. ConditionsTypeOK'
  <2>1. before' \in [Keys -> Reading]
    BY <1>b, <1>f DEF Known
  <2>2. metrics' \in [values : [Keys -> Reading], priors : [Keys -> Reading]]
    BY <1>b, <1>f
  <2> QED
    BY <1>a, <1>b, <1>f, <2>1, <2>2 DEF ConditionsTypeOK
<1>i. Tracked' <=> Tracked
  BY <1>b DEF Tracked
<1>2. PriorsTrue'
  <2>1. r.stored["price"] # NoValue => r.stored["price"] = Known(r.values["price"], before'["price"])
    BY <1>c, <1>e, <1>h DEF PriceRecorded, Known
  <2>2. r.priors["price"] # NoValue => r.priors["price"] \in {before'["price"], r.values["price"]}
    BY <1>c, <1>e, <1>h DEF PriceRecorded, Known
  <2>3. /\ r.stored["rsi:14"] # NoValue => r.stored["rsi:14"] = Known(r.values["rsi:14"], before'["rsi:14"])
        /\ ~Tracked => r.stored["rsi:14"] = NoValue
    <3>1. ~Tracked => stored["rsi:14"] = NoValue
      BY <1>a DEF PriorsTrue
    <3> QED
      BY <1>c, <1>e, <1>h, <3>1 DEF IndicatorRecorded, Known
  <2>4. r.priors["rsi:14"] # NoValue => r.priors["rsi:14"] = before'["rsi:14"]
    BY <1>c, <1>e, <1>h DEF IndicatorRecorded
  <2>5. r.stored["rsi:None"] = NoValue /\ r.priors["rsi:None"] = NoValue
    BY <1>a, <1>c DEF NothingUnresolved, PriorsTrue
  <2> QED
    BY <1>b, <1>e, <1>i, <2>1, <2>2, <2>3, <2>4, <2>5 DEF PriorsTrue, Keys
<1>3. AlonePrior'
  <2> SUFFICES ASSUME AloneCrossing
               PROVE  LET k == condition.leaves[1].key
                      IN  stored'[k] = Known(metrics'.values[k], before'[k]) /\ metrics'.priors[k] = before'[k]
    BY <1>b DEF AlonePrior, AloneCrossing, Keys
  <2> DEFINE k == condition.leaves[1].key
  <2>1. k \in Keys
    BY <1>a, AloneKey DEF ConditionsTypeOK
  <2>2. stored[k] = before'[k]
    BY <1>a, <1>g, <2>1 DEF AlonePrior
  <2>3. r.values[k] = value /\ r.priors[k] = stored[k] /\ r.stored[k] = Known(value, stored[k])
    BY <1>d
  <2> HIDE DEF k
  <2>4. stored'[k] = Known(metrics'.values[k], before'[k]) /\ metrics'.priors[k] = before'[k]
    BY <1>b, <1>e, <2>2, <2>3
  <2> QED
    BY <2>4 DEF k
<1> QED
  BY <1>1, <1>2, <1>3 DEF CrossInv

\* A stored value that expires takes what was known of its key with it.
LEMMA ExpiryKeepsPriors ==
  ASSUME CrossInv, NEW key \in Keys, PriorExpires(key)
  PROVE  CrossInv'
<1>a. ConditionsTypeOK /\ PriorsTrue /\ AlonePrior
  BY DEF CrossInv
<1>b. /\ stored' = [stored EXCEPT ![key] = NoValue] /\ before' = [before EXCEPT ![key] = NoValue]
      /\ metrics' = [metrics EXCEPT !.values[key] = NoValue, !.priors[key] = NoValue]
      /\ condition' = condition
  BY DEF PriorExpires
<1>c. /\ stored \in [Keys -> Reading] /\ before \in [Keys -> Reading]
      /\ metrics \in [values : [Keys -> Reading], priors : [Keys -> Reading]]
      /\ metrics.values \in [Keys -> Reading] /\ metrics.priors \in [Keys -> Reading]
      /\ NoValue \in Reading
  BY <1>a DEF ConditionsTypeOK, Reading
<1>d. /\ metrics'.values = [metrics.values EXCEPT ![key] = NoValue]
      /\ metrics'.priors = [metrics.priors EXCEPT ![key] = NoValue]
      /\ metrics' \in [values : [Keys -> Reading], priors : [Keys -> Reading]]
  BY <1>b, <1>c
<1>e. \A k \in Keys : \/ k # key /\ stored'[k] = stored[k] /\ before'[k] = before[k]
                         /\ metrics'.values[k] = metrics.values[k] /\ metrics'.priors[k] = metrics.priors[k]
                      \/ k = key /\ stored'[k] = NoValue /\ before'[k] = NoValue
                         /\ metrics'.values[k] = NoValue /\ metrics'.priors[k] = NoValue
  BY <1>b, <1>c, <1>d
<1>f. (Tracked' <=> Tracked) /\ (AloneCrossing' <=> AloneCrossing) /\ "rsi:14" \in Keys /\ "rsi:None" \in Keys
  BY <1>b DEF Tracked, AloneCrossing, Keys
<1>1. ConditionsTypeOK'
  <2>1. stored' \in [Keys -> Reading] /\ before' \in [Keys -> Reading]
    BY <1>b, <1>c
  <2> QED
    BY <1>a, <1>b, <1>d, <2>1 DEF ConditionsTypeOK
<1>2. PriorsTrue'
  <2>1. \A k \in Keys : stored'[k] # NoValue => stored'[k] = Known(metrics'.values[k], before'[k])
    BY <1>a, <1>e DEF PriorsTrue
  <2>2. \A k \in Keys : metrics'.priors[k] # NoValue => metrics'.priors[k] \in {before'[k], metrics'.values[k]}
    BY <1>a, <1>e DEF PriorsTrue
  <2>3. (~Tracked => stored'["rsi:14"] = NoValue) /\ stored'["rsi:None"] = NoValue
    BY <1>a, <1>e, <1>f DEF PriorsTrue
  <2> QED
    BY <1>f, <2>1, <2>2, <2>3 DEF PriorsTrue, Keys
<1>3. AlonePrior'
  <2> SUFFICES ASSUME AloneCrossing
               PROVE  LET k == condition.leaves[1].key
                      IN  stored'[k] = Known(metrics'.values[k], before'[k]) /\ metrics'.priors[k] = before'[k]
    BY <1>b, <1>f DEF AlonePrior
  <2> DEFINE k == condition.leaves[1].key
  <2>1. k \in Keys
    BY <1>a, AloneKey DEF ConditionsTypeOK
  <2>2. stored[k] = Known(metrics.values[k], before[k]) /\ metrics.priors[k] = before[k]
    BY <1>a DEF AlonePrior
  <2> HIDE DEF k
  <2>3. stored'[k] = Known(metrics'.values[k], before'[k]) /\ metrics'.priors[k] = before'[k]
    BY <1>e, <2>1, <2>2 DEF Known
  <2> QED
    BY <2>3 DEF k
<1> QED
  BY <1>1, <1>2, <1>3 DEF CrossInv

\* The inductive invariant holds of every behaviour.
LEMMA CrossInvariance == ConditionsSpec => []CrossInv
<1>1. CrossInv /\ [ConditionsNext]_conditionsVars => CrossInv'
  <2> SUFFICES ASSUME CrossInv, [ConditionsNext]_conditionsVars PROVE CrossInv'
    OBVIOUS
  <2>1. ASSUME NEW value \in Quotes \cup {NoValue}, MetricsTick(value) PROVE CrossInv'
    <3>1. value \in Reading
      BY ConditionsAssumption DEF Reading
    <3> QED
      BY <2>1, <3>1, TickKeepsPriors
  <2>2. CASE UNCHANGED conditionsVars
    BY <2>2 DEF conditionsVars, CrossInv, ConditionsTypeOK, PriorsTrue, AlonePrior, AloneCrossing, Tracked
  <2> QED
    BY <2>1, <2>2, ExpiryKeepsPriors DEF ConditionsNext
<1> QED
  BY <1>1, InitCross, PTL DEF ConditionsSpec

\* No crossing leaf matches a cross that was not one, for conditions of any length, any
\* quotes and levels and any quotes missing; and one that is alone matches every cross
\* (build_snapshot, _record_last_metric, _record_indicator, eval_leaf).
THEOREM CrossesReal == ConditionsSpec => []CrossesAreReal
<1>1. CrossInv => CrossesAreReal
  <2> SUFFICES ASSUME CrossInv, NEW i \in DOMAIN condition.leaves, condition.leaves[i].op \in CrossingOps
               PROVE  /\ EvalLeaf(condition.leaves[i]) => Crossed(condition.leaves[i])
                      /\ Len(condition.leaves) = 1 /\ condition.leaves[i].key = Resolved(condition.leaves[i].key)
                         /\ Crossed(condition.leaves[i]) => EvalLeaf(condition.leaves[i])
    BY DEF CrossesAreReal
  <2> DEFINE leaf == condition.leaves[i]
             now == metrics.values[leaf.key]
             was == metrics.priors[leaf.key]
             old == before[leaf.key]
  <2>0. ConditionsTypeOK /\ PriorsTrue /\ AlonePrior
    BY DEF CrossInv
  <2>1. leaf.key \in Keys /\ leaf.value \in Int /\ leaf.op \in {"crosses_above", "crosses_below"}
    <3>1. leaf \in Leaf
      BY <2>0 DEF ConditionsTypeOK
    <3> QED
      BY <3>1, ConditionsAssumption DEF Leaf, CrossingOps
  <2>2. now \in Int \cup {NoValue} /\ was \in Int \cup {NoValue} /\ old \in Int \cup {NoValue}
    BY <2>0, <2>1, ConditionsAssumption DEF ConditionsTypeOK, Reading
  <2>3. was # NoValue => was = old \/ was = now
    BY <2>0, <2>1 DEF PriorsTrue
  <2>4. ASSUME EvalLeaf(leaf) PROVE Crossed(leaf)
    <3>1. /\ now # NoValue /\ was # NoValue
          /\ \/ leaf.op = "crosses_above" /\ was <= leaf.value /\ leaf.value < now
             \/ leaf.op = "crosses_below" /\ was >= leaf.value /\ leaf.value > now
      BY <2>1, <2>4 DEF EvalLeaf
    <3> HIDE DEF now, was, old, leaf
    <3>2. was = old
      BY <2>1, <2>2, <2>3, <3>1
    <3>3. \/ leaf.op = "crosses_above" /\ ~(old > leaf.value) /\ now > leaf.value
          \/ leaf.op = "crosses_below" /\ ~(old < leaf.value) /\ now < leaf.value
      BY <2>1, <2>2, <3>1, <3>2
    <3> QED
      BY <3>1, <3>2, <3>3 DEF Crossed, now, old
  <2>5. ASSUME Len(condition.leaves) = 1, leaf.key = Resolved(leaf.key), Crossed(leaf) PROVE EvalLeaf(leaf)
    <3>1. i = 1
      BY <2>0, <2>5 DEF ConditionsTypeOK
    <3>2. was = old
      BY <2>0, <2>5, <3>1 DEF AlonePrior, AloneCrossing
    <3>3. /\ old # NoValue /\ now # NoValue
          /\ \/ leaf.op = "crosses_above" /\ ~(old > leaf.value) /\ now > leaf.value
             \/ leaf.op = "crosses_below" /\ ~(old < leaf.value) /\ now < leaf.value
      BY <2>5 DEF Crossed
    <3> HIDE DEF now, was, old, leaf
    <3>4. \/ leaf.op = "crosses_above" /\ was <= leaf.value /\ leaf.value < now
          \/ leaf.op = "crosses_below" /\ was >= leaf.value /\ leaf.value > now
      BY <2>1, <2>2, <3>2, <3>3
    <3> QED
      BY <3>2, <3>3, <3>4 DEF EvalLeaf, now, was
  <2> QED
    BY <2>4, <2>5
<1> QED
  BY <1>1, CrossInvariance, PTL

\* Types of a condition and of what the ticks record of its metrics.
THEOREM ConditionsTypes == ConditionsSpec => []ConditionsTypeOK
<1>1. CrossInv => ConditionsTypeOK
  BY DEF CrossInv
<1> QED
  BY <1>1, CrossInvariance, PTL
==============================================================================
