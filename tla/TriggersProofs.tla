---------------------------- MODULE TriggersProofs ----------------------------
(***************************************************************************)
(* Proofs about a trigger, for any number of ticks, workers and faults and *)
(* any cooldown and lifetime of the lock: until a lock runs out, fires run *)
(* one at a time and a redelivered one launches nothing; and the evaluator *)
(* keeps the cooldown, unless an edit takes the last fire from the row.    *)
(***************************************************************************)
EXTENDS Triggers, NatLemmas, FiniteSetTheorems, TLAPS

-----------------------------------------------------------------------------
\* Fires that launched their run and came back from a lost worker.
Redelivered == queue[TRUE]

\* The queue, the lock and the fire tasks are in their ranges.
FireTypes ==
    /\ queue \in [BOOLEAN -> Nat] /\ lock \in Nat
    /\ fire \in [Workers -> [pc : {"idle", "locked", "recorded", "leaving"}, launched : BOOLEAN]]
    /\ lapsed \in BOOLEAN /\ twice \in BOOLEAN

\* The lock outlives its holder and its holder's loss; a fire that comes back from a
\* lost worker after its launch finds it.
LockHeld ==
    /\ \A v, w \in Workers : Firing(v) /\ Firing(w) => v = w
    /\ \A w \in Workers : Firing(w) => lock > 0 /\ Redelivered = 0
    /\ Redelivered > 0 => lock > 0
    /\ \A w \in Workers : fire[w].pc \in {"locked", "recorded"} => fire[w].launched = FALSE
    /\ twice = FALSE

\* The inductive invariant of the fire tasks.
FireInv == FireTypes /\ (lapsed \/ LockHeld)

-----------------------------------------------------------------------------
\* What a change of the queue does to it.
LEMMA QueueChanged ==
  ASSUME NEW q \in [BOOLEAN -> Nat], NEW b \in BOOLEAN, NEW n \in Nat
  PROVE  /\ [q EXCEPT ![b] = n] \in [BOOLEAN -> Nat]
         /\ [q EXCEPT ![TRUE] = n][TRUE] = n /\ [q EXCEPT ![FALSE] = n][TRUE] = q[TRUE]
         /\ q[b] \in Nat /\ q[TRUE] \in Nat
  BY Zenon

\* Initially nothing is queued and nobody fires.
LEMMA InitFire == Init => FireInv
<1> SUFFICES ASSUME Init PROVE FireInv
  OBVIOUS
<1>1. queue \in [BOOLEAN -> Nat] /\ Redelivered = 0
  BY 0 \in Nat, Zenon DEF Init, Redelivered
<1>2. /\ lock = 0 /\ fire = [w \in Workers |-> NoFire] /\ lapsed = FALSE /\ twice = FALSE
  BY DEF Init
<1> QED
  BY <1>1, <1>2 DEF NoFire, FireInv, FireTypes, LockHeld, Firing

\* A step that has nothing to do with the fire tasks.
LEMMA FireUntouched ==
  ASSUME FireInv, UNCHANGED <<lock, fire, lapsed, twice>>,
         queue' \in [BOOLEAN -> Nat], Redelivered' <= Redelivered
  PROVE  FireInv'
<1>1. Redelivered \in Nat /\ Redelivered' \in Nat
  BY QueueChanged, Zenon DEF FireInv, FireTypes, Redelivered
<1>2. FireTypes'
  BY DEF FireInv, FireTypes
<1>3. LockHeld => LockHeld'
  BY <1>1 DEF LockHeld, Firing
<1> QED
  BY <1>2, <1>3 DEF FireInv

\* The evaluator's ticks, the edits and the fire endpoint touch none of it but the queue.
LEMMA OthersKeep ==
  ASSUME FireInv,
         \/ \E t \in Ticks : Evaluate(t) \/ BadCondition(t) \/ TickFails(t)
         \/ FireManually \/ ArmedExpires \/ SyncGuard \/ EditLoad \/ EditSave
         \/ UNCHANGED vars
  PROVE  FireInv'
<1>1. UNCHANGED <<lock, fire, lapsed, twice>>
  BY DEF Evaluate, Load, Blocked, Passed, MarkRearmed, MarkFired, Claim, ClaimLost, Enqueue, BadCondition,
         TickFails, FireManually, ArmedExpires, SyncGuard, EditLoad, EditSave, vars, lost
<1>2. queue' = queue \/ queue' = [queue EXCEPT ![FALSE] = @ + 1]
  BY DEF Evaluate, Load, Blocked, Passed, MarkRearmed, MarkFired, Claim, ClaimLost, Enqueue, BadCondition,
         TickFails, FireManually, ArmedExpires, SyncGuard, EditLoad, EditSave, vars, lost
<1>3. queue \in [BOOLEAN -> Nat]
  BY DEF FireInv, FireTypes
<1>4. Redelivered \in Nat /\ queue[FALSE] \in Nat
  BY <1>3, QueueChanged, Zenon DEF Redelivered
<1>5. queue[FALSE] + 1 \in Nat /\ Redelivered <= Redelivered
  <2>1. \A n \in Nat : n + 1 \in Nat /\ n <= n
    OBVIOUS
  <2> QED
    BY <1>4, <2>1, Zenon
<1>6. queue' \in [BOOLEAN -> Nat] /\ Redelivered' = Redelivered
  BY <1>2, <1>3, <1>5, QueueChanged, Zenon DEF Redelivered
<1>7. Redelivered' <= Redelivered
  BY <1>5, <1>6
<1> QED
  BY <1>1, <1>6, <1>7, FireUntouched

\* A fire task is taken from the queue.
LEMMA TakenFromQueue ==
  ASSUME FireInv, NEW w \in Workers, NEW b \in BOOLEAN, Acquire(w, b) \/ Skip(w, b)
  PROVE  FireInv'
<1>a. FireTypes /\ (lapsed \/ LockHeld)
  BY DEF FireInv
<1>b. queue[b] > 0 /\ queue' = [queue EXCEPT ![b] = queue[b] - 1]
  BY DEF Acquire, Skip
<1>c. queue' \in [BOOLEAN -> Nat] /\ Redelivered \in Nat /\ Redelivered' <= Redelivered
  <2>1. queue[b] \in Nat /\ Redelivered \in Nat
    BY <1>a, QueueChanged, Zenon DEF FireTypes, Redelivered
  <2>2. queue[b] - 1 \in Nat /\ queue[b] - 1 <= queue[b] /\ Redelivered <= Redelivered
    BY <1>b, <2>1
  <2>3. queue' \in [BOOLEAN -> Nat]
    BY <1>a, <1>b, <2>2, QueueChanged, Zenon DEF FireTypes
  <2>4. b = TRUE => Redelivered' = queue[b] - 1 /\ Redelivered = queue[b]
    BY <1>a, <1>b, <2>2, QueueChanged, Zenon DEF FireTypes, Redelivered
  <2>5. b = FALSE => Redelivered' = Redelivered
    BY <1>a, <1>b, <2>2, QueueChanged, Zenon DEF FireTypes, Redelivered
  <2>6. (b = TRUE \/ b = FALSE) /\ Redelivered' <= Redelivered
    BY <2>1, <2>2, <2>4, <2>5
  <2> QED
    BY <2>1, <2>3, <2>6
<1>1. CASE Skip(w, b)
  BY <1>1, <1>c, FireUntouched DEF Skip, lost
<1>2. CASE Acquire(w, b)
  <2> DEFINE x == [pc |-> "locked", launched |-> b]
  <2>1. /\ lock = 0 /\ lock' = LockTTL /\ LockTTL \in Nat /\ LockTTL > 0
        /\ fire' = [fire EXCEPT ![w] = x] /\ UNCHANGED <<lapsed, twice>>
    BY <1>2, TriggerAssumption DEF Acquire, lost
  <2>2. /\ fire'[w].pc = "locked" /\ fire'[w].launched = b
        /\ \A v \in Workers : v # w => fire'[v] = fire[v]
    BY <1>a, <2>1 DEF FireTypes
  <2>3. FireTypes'
    BY <1>a, <1>c, <2>1 DEF FireTypes
  <2>4. ASSUME LockHeld PROVE LockHeld'
    <3>1. \A v \in Workers : ~Firing(v)
      BY <2>1, <2>4 DEF LockHeld
    <3>2. Redelivered = 0
      BY <1>c, <2>1, <2>4 DEF LockHeld
    <3>3. b = FALSE
      <4>1. ~(Redelivered > 0)
        BY <3>2
      <4> QED
        BY <1>b, <4>1, Zenon DEF Redelivered
    <3>4. Redelivered' = 0
      <4>1. Redelivered' \in Nat
        BY <1>c, QueueChanged, Zenon DEF Redelivered
      <4> QED
        BY <1>c, <3>2, <4>1
    <3>5. \A v \in Workers : v # w => fire'[v].pc = "idle"
      BY <2>2, <3>1 DEF Firing
    <3> QED
      BY <2>1, <2>2, <2>4, <3>3, <3>4, <3>5 DEF LockHeld, Firing
  <2> QED
    BY <1>a, <2>1, <2>3, <2>4 DEF FireInv
<1> QED
  BY <1>1, <1>2

\* A fire whose place changes, and nothing else.
LEMMA PlaceChanged ==
  ASSUME NEW P, NEW B, NEW r \in [pc : P, launched : B], NEW v \in P
  PROVE  /\ [r EXCEPT !.pc = v] \in [pc : P, launched : B]
         /\ [r EXCEPT !.pc = v].pc = v /\ [r EXCEPT !.pc = v].launched = r.launched
  OBVIOUS

\* The fire goes on, and launches its run.
LEMMA FireGoesOn ==
  ASSUME FireInv, NEW w \in Workers, RecordFiring(w) \/ NoLaunch(w) \/ Launch(w)
  PROVE  FireInv'
<1>a. FireTypes /\ (lapsed \/ LockHeld)
  BY DEF FireInv
<1>1. /\ fire[w].pc \in {"locked", "recorded"} /\ UNCHANGED <<lock, queue, lapsed>>
      /\ twice' = twice \/ twice' = (twice \/ fire[w].launched)
  BY DEF RecordFiring, NoLaunch, Launch, lost
<1>2. /\ fire' \in [Workers -> [pc : {"idle", "locked", "recorded", "leaving"}, launched : BOOLEAN]]
      /\ \A v \in Workers : v # w => fire'[v] = fire[v]
      /\ fire'[w].pc = "leaving" \/ (fire'[w].pc = "recorded" /\ fire'[w].launched = fire[w].launched)
  <2>1. fire[w] \in [pc : {"idle", "locked", "recorded", "leaving"}, launched : BOOLEAN]
    BY <1>a DEF FireTypes
  <2>2. PICK x : /\ fire' = [fire EXCEPT ![w] = x]
                 /\ \/ x = [fire[w] EXCEPT !.pc = "recorded"]
                    \/ x = [fire[w] EXCEPT !.pc = "leaving"]
                    \/ x = [pc |-> "leaving", launched |-> TRUE]
    BY DEF RecordFiring, NoLaunch, Launch
  <2>3. /\ x \in [pc : {"idle", "locked", "recorded", "leaving"}, launched : BOOLEAN]
        /\ x.pc = "leaving" \/ (x.pc = "recorded" /\ x.launched = fire[w].launched)
    <3>1. CASE x = [fire[w] EXCEPT !.pc = "recorded"]
      BY <2>1, <3>1, PlaceChanged, Zenon
    <3>2. CASE x = [fire[w] EXCEPT !.pc = "leaving"]
      BY <2>1, <3>2, PlaceChanged, Zenon
    <3>3. CASE x = [pc |-> "leaving", launched |-> TRUE]
      BY <3>3
    <3> QED
      BY <2>2, <3>1, <3>2, <3>3
  <2> QED
    <3> DEFINE R == [pc : {"idle", "locked", "recorded", "leaving"}, launched : BOOLEAN]
    <3>1. fire \in [Workers -> R] /\ x \in R
      BY <1>a, <2>3 DEF FireTypes
    <3> HIDE DEF R
    <3>2. fire' \in [Workers -> R] /\ fire'[w] = x /\ \A v \in Workers : v # w => fire'[v] = fire[v]
      BY <2>2, <3>1
    <3> QED
      BY <2>3, <3>2 DEF R
<1>3. fire[w].launched \in BOOLEAN
  BY <1>a DEF FireTypes
<1>4. FireTypes'
  BY <1>a, <1>1, <1>2, <1>3 DEF FireTypes
<1>5. ASSUME LockHeld PROVE LockHeld'
  <2>1. twice' = FALSE
    BY <1>1, <1>5 DEF LockHeld
  <2>2. \A v \in Workers : Firing(v)' <=> Firing(v)
    BY <1>1, <1>2 DEF Firing
  <2>3. \A v \in Workers : fire'[v].pc \in {"locked", "recorded"} => fire'[v].launched = FALSE
    BY <1>1, <1>2, <1>5 DEF LockHeld
  <2> QED
    BY <1>1, <1>5, <2>1, <2>2, <2>3 DEF LockHeld, Redelivered
<1> QED
  BY <1>a, <1>1, <1>4, <1>5 DEF FireInv

\* The fire ends, or its worker is lost.
LEMMA FireEnds ==
  ASSUME FireInv, NEW w \in Workers, Release(w) \/ WorkerLost(w)
  PROVE  FireInv'
<1>a. FireTypes /\ (lapsed \/ LockHeld)
  BY DEF FireInv
<1>1. Firing(w) /\ fire' = [fire EXCEPT ![w] = NoFire] /\ UNCHANGED <<lapsed, twice>>
  BY DEF Release, WorkerLost, Firing, lost
<1>2. /\ fire' \in [Workers -> [pc : {"idle", "locked", "recorded", "leaving"}, launched : BOOLEAN]]
      /\ fire'[w].pc = "idle" /\ \A v \in Workers : v # w => fire'[v] = fire[v]
  BY <1>a, <1>1 DEF FireTypes, NoFire
<1>3. LockHeld => \A v \in Workers : fire'[v].pc = "idle"
  BY <1>1, <1>2 DEF LockHeld, Firing
<1>4. CASE Release(w)
  <2>1. lock' = 0 /\ queue' = queue
    BY <1>4 DEF Release
  <2>2. FireTypes'
    BY <1>a, <1>1, <1>2, <2>1 DEF FireTypes
  <2>3. LockHeld => Redelivered' = 0
    BY <1>1, <2>1 DEF LockHeld, Redelivered
  <2>4. LockHeld => LockHeld'
    BY <1>1, <1>3, <2>1, <2>3 DEF LockHeld, Firing
  <2> QED
    BY <1>a, <1>1, <2>2, <2>4 DEF FireInv
<1>5. CASE WorkerLost(w)
  <2>1. lock' = lock /\ queue' = [queue EXCEPT ![fire[w].launched] = @ + 1]
    BY <1>5 DEF WorkerLost
  <2>2. queue' \in [BOOLEAN -> Nat]
    BY <1>a, <2>1 DEF FireTypes
  <2>3. FireTypes'
    BY <1>a, <1>1, <1>2, <2>1, <2>2 DEF FireTypes
  <2>4. LockHeld => LockHeld'
    <3>1. LockHeld => lock > 0
      BY <1>1 DEF LockHeld
    <3> QED
      BY <1>1, <1>3, <2>1, <3>1 DEF LockHeld, Firing
  <2> QED
    BY <1>a, <1>1, <2>3, <2>4 DEF FireInv
<1> QED
  BY <1>4, <1>5

\* Time passes: the last unit of the lock is a lapse.
LEMMA ClockKeeps == FireInv /\ Clock => FireInv'
<1> SUFFICES ASSUME FireInv, Clock PROVE FireInv'
  OBVIOUS
<1>1. /\ lock' = IF lock > 0 THEN lock - 1 ELSE 0
      /\ lapsed' = (lapsed \/ lock = 1) /\ UNCHANGED <<queue, fire, twice>>
  BY DEF Clock
<1>2. lock \in Nat /\ lock' \in Nat /\ (lock > 0 /\ lock # 1 => lock' > 0)
  BY <1>1 DEF FireInv, FireTypes
<1>3. FireTypes'
  <2>1. lapsed' \in BOOLEAN
    BY <1>1
  <2> QED
    BY <1>1, <1>2, <2>1 DEF FireInv, FireTypes
<1>4. CASE lock = 1
  BY <1>1, <1>3, <1>4, Zenon DEF FireInv
<1>5. CASE lock # 1
  <2>1. LockHeld => LockHeld'
    <3>1. Redelivered' = Redelivered
      BY <1>1 DEF Redelivered
    <3> QED
      BY <1>1, <1>2, <1>5, <3>1 DEF LockHeld, Firing
  <2>2. lapsed => lapsed'
    BY <1>1, Zenon
  <2> QED
    BY <1>3, <2>1, <2>2 DEF FireInv
<1> QED
  BY <1>4, <1>5

\* The invariant of the fire tasks holds in every behaviour.
LEMMA FireInvariance == Spec => []FireInv
<1>1. FireInv /\ [Next]_vars => FireInv'
  <2> SUFFICES ASSUME FireInv, [Next]_vars PROVE FireInv'
    OBVIOUS
  <2>1. ASSUME NEW w \in Workers, Fire(w) \/ WorkerLost(w) PROVE FireInv'
    BY <2>1, TakenFromQueue, FireGoesOn, FireEnds DEF Fire
  <2> QED
    BY <2>1, OthersKeep, ClockKeeps DEF Next, Faults, World
<1> QED
  BY <1>1, InitFire, PTL DEF Spec

-----------------------------------------------------------------------------
\* For any number of workers: until a lock runs out on its holder, or after its holder's
\* loss, at most one of them runs a fire of the trigger.
THEOREM FiresOneAtATime == Spec => []FireExclusive
<1>1. FireInv => FireExclusive
  <2> SUFFICES ASSUME FireInv, ~lapsed PROVE Cardinality({w \in Workers : Firing(w)}) <= 1
    BY DEF FireExclusive
  <2>1. \A v, w \in Workers : Firing(v) /\ Firing(w) => v = w
    BY DEF FireInv, LockHeld
  <2>2. CASE {w \in Workers : Firing(w)} = {}
    BY <2>2, FS_EmptySet
  <2>3. ASSUME NEW v \in {w \in Workers : Firing(w)} PROVE Cardinality({w \in Workers : Firing(w)}) <= 1
    <3>1. {w \in Workers : Firing(w)} = {v}
      BY <2>1, <2>3
    <3> QED
      BY <3>1, FS_Singleton
  <2> QED
    BY <2>2, <2>3
<1> QED
  BY <1>1, FireInvariance, PTL

\* For any number of losses and redeliveries: until a lock runs out, no fire task launches a
\* second AI run.
THEOREM RunLaunchedOnce == Spec => []LaunchedOnce
<1>1. FireInv => LaunchedOnce
  BY DEF FireInv, FireTypes, LockHeld, LaunchedOnce
<1> QED
  BY <1>1, FireInvariance, PTL

-----------------------------------------------------------------------------
(* The cooldown.  CooldownKept is about one step; it holds because a stamp *)
(* is known by its id wherever it is held, because what a tick holds has   *)
(* passed the gate, and because the row's stamp is as old as the last fire *)
(* is long ago, unless an edit has put another back.                       *)

\* What a tick knows.
TickRecord == [pc : {"idle", "gate", "rearm", "mark", "claim", "enqueue"},
               seen : Stamp, matched : BOOLEAN]

\* The stamps held outside the row, and all of them.
Held  == {edit.stamp} \cup {tick[t].seen : t \in Ticks}
Known == Held \cup {last_fired}

\* Stamps with the same id are the same.
Identified(S) == \A x, y \in S \cup {Never} : x.id = y.id => x = y

\* The row, the flag, the lock, the ticks and the edit are in their ranges.
GateTypes ==
    /\ enabled \in BOOLEAN /\ armed \in BOOLEAN /\ reverted \in BOOLEAN
    /\ last_fired \in Stamp /\ fired_ago \in Ages
    /\ tick \in [Ticks -> TickRecord]
    /\ edit \in [open : BOOLEAN, stamp : Stamp] /\ faults \in 0 .. MaxFaults
    /\ lock \in 0 .. LockTTL

\* A stamp that the gate lets pass.
Ripe(s) == s = Never \/ s.age = Cooldown

\* A tick on its way to the claim holds such a stamp.
GatePassed == \A t \in Ticks : tick[t].pc \in {"mark", "claim"} => Ripe(tick[t].seen)

\* The row's stamp tells how long ago the last fire was.
LastFireKnown == reverted \/ fired_ago = IF last_fired = Never THEN Cooldown ELSE last_fired.age

\* The inductive invariant of the gate.
GateInv == GateTypes /\ Identified(Known) /\ GatePassed /\ LastFireKnown

-----------------------------------------------------------------------------
\* There are stamps.
LEMMA StampsAre ==
  /\ Cardinality(Ticks) \in Nat /\ Ids \subseteq Nat /\ 0 \in Ids /\ 0 \in Ages /\ Cooldown \in Ages
  /\ Never \in Stamp /\ Ages \subseteq Nat /\ Cooldown \in Nat
<1>1. Cardinality(Ticks) \in Nat
  BY TriggerAssumption, FS_CardinalityType
<1>2. 0 \in Ids /\ Ids \subseteq Nat /\ 0 \in Ages /\ Ages \subseteq Nat /\ Cooldown \in Ages
  BY <1>1, TriggerAssumption DEF Ids, Ages
<1> QED
  BY <1>1, <1>2, TriggerAssumption DEF Never, Stamp

\* There are more ids than holders of stamps: a fresh one is left.
LEMMA FreshStamp ==
  ASSUME GateTypes
  PROVE  /\ Now \in Stamp /\ Now.id # 0 /\ Now.age = 0
         /\ \A x \in Held : x.id # Now.id
<1> DEFINE n == Cardinality(Ticks) + 2
<1> DEFINE seen == {tick[t].seen.id : t \in Ticks}
<1> DEFINE held == {edit.stamp.id} \cup seen
<1> DEFINE free == Ids \ ({0} \cup held)
<1>1. IsFiniteSet(seen) /\ Cardinality(seen) <= Cardinality(Ticks)
  <2> DEFINE f == [t \in Ticks |-> tick[t].seen.id]
  <2>1. f \in Surjection(Ticks, seen)
    BY DEF Surjection
  <2> QED
    BY <2>1, FS_Surjection, TriggerAssumption
<1>2. IsFiniteSet(held) /\ Cardinality(held) <= Cardinality(Ticks) + 1
  <2>1. held = seen \cup {edit.stamp.id}
    OBVIOUS
  <2>2. Cardinality(seen) \in Nat /\ Cardinality(Ticks) \in Nat
    BY <1>1, FS_CardinalityType, StampsAre
  <2> HIDE DEF seen, held
  <2>3. IsFiniteSet(held) /\ Cardinality(held) = IF edit.stamp.id \in seen THEN Cardinality(seen) ELSE Cardinality(seen) + 1
    BY <1>1, <2>1, FS_AddElement
  <2> QED
    BY <1>1, <2>2, <2>3
<1>3. n \in Nat /\ Cardinality(1 .. n) = n /\ Ids = 0 .. n
  BY StampsAre, FS_Interval DEF Ids
<1>4. free # {}
  <2> SUFFICES ASSUME free = {} PROVE FALSE
    OBVIOUS
  <2>1. \A i \in 1 .. n : i \in Ids /\ i # 0
    BY <1>3
  <2>2. 1 .. n \in SUBSET held
    BY <2>1
  <2> HIDE DEF held, n
  <2>3. Cardinality(1 .. n) <= Cardinality(held)
    BY <1>2, <2>2, FS_Subset
  <2>4. Cardinality(held) \in Nat
    BY <1>2, FS_CardinalityType
  <2> QED
    BY <1>2, <1>3, <2>3, <2>4, StampsAre DEF n
<1>5. \E i \in free : \A j \in free : i <= j
  BY <1>4, SmallestNat, StampsAre
<1>6. Now = [id |-> CHOOSE i \in free : \A j \in free : i <= j, age |-> 0]
  BY DEF Now
<1>7. Now.id \in free /\ Now.age = 0
  <2> HIDE DEF free
  <2> QED
    BY <1>5, <1>6
<1>8. \A x \in Held : x.id \in held
  BY DEF Held
<1>9. Now \in Stamp
  <2>1. Now.id \in Ids
    BY <1>7
  <2> HIDE DEF free
  <2> QED
    BY <1>6, <1>7, <2>1, StampsAre DEF Stamp
<1> QED
  BY <1>7, <1>8, <1>9

\* Stamps that are held no longer, or held twice, make no difference.
LEMMA StillIdentified ==
  ASSUME NEW S, Identified(S), NEW T, T \subseteq S \cup {Never}
  PROVE  Identified(T)
  BY DEF Identified

\* Neither does a fresh one.
LEMMA FreshIdentified ==
  ASSUME NEW S, Identified(S), NEW x, x.id # 0, \A y \in S : y.id # x.id
  PROVE  Identified(S \cup {x})
  BY DEF Identified, Never

\* A stamp that grows older keeps its id.
LEMMA OlderIs ==
  ASSUME NEW s \in Stamp, s.id = 0 => s = Never
  PROVE  /\ Older(s) \in Stamp /\ Older(s).id = s.id
         /\ Older(s) = Never <=> s = Never
         /\ s # Never => Older(s).age = IF s.age < Cooldown THEN s.age + 1 ELSE s.age
         /\ Ripe(s) => Ripe(Older(s))
<1>1. CASE s = Never \/ s.age = Cooldown
  <2>1. Older(s) = s
    BY <1>1 DEF Older
  <2>2. s.age = Cooldown => ~(s.age < Cooldown)
    BY StampsAre
  <2> QED
    BY <1>1, <2>1, <2>2 DEF Ripe
<1>2. CASE s # Never /\ s.age # Cooldown
  <2>1. /\ Older(s) = [s EXCEPT !.age = s.age + 1]
        /\ s.id \in Ids /\ s.age \in Ages /\ s = [id |-> s.id, age |-> s.age]
    BY <1>2 DEF Older, Stamp
  <2>2. s.age + 1 \in Ages /\ s.age < Cooldown
    BY <1>2, <2>1, TriggerAssumption DEF Ages
  <2>3. Older(s) \in Stamp /\ Older(s).id = s.id /\ Older(s).age = s.age + 1
    BY <2>1, <2>2 DEF Stamp
  <2>4. Older(s) # Never /\ ~Ripe(s)
    BY <1>2, <2>3 DEF Never, Ripe
  <2> QED
    BY <1>2, <2>2, <2>3, <2>4
<1> QED
  BY <1>1, <1>2

\* All the stamps grow older together.
LEMMA OlderIdentified ==
  ASSUME NEW S \in SUBSET Stamp, Identified(S)
  PROVE  Identified({Older(s) : s \in S})
<1>1. \A s \in S \cup {Never} : s \in Stamp /\ (s.id = 0 => s = Never)
  BY StampsAre DEF Identified, Never
<1>2. Older(Never) = Never /\ \A s \in S \cup {Never} : Older(s).id = s.id
  BY <1>1, OlderIs DEF Older
<1>3. \A x \in {Older(s) : s \in S} \cup {Never} : \E s \in S \cup {Never} : x = Older(s)
  BY <1>2
<1> QED
  BY <1>2, <1>3 DEF Identified

-----------------------------------------------------------------------------
\* Initially the trigger has never fired.
LEMMA InitGate == Init => GateInv
<1> SUFFICES ASSUME Init PROVE GateInv
  OBVIOUS
<1>1. NoTick \in TickRecord /\ NoTick.seen = Never /\ NoTick.pc = "idle"
  BY StampsAre DEF NoTick, TickRecord
<1>2. GateTypes
  <2>1. tick \in [Ticks -> TickRecord]
    BY <1>1 DEF Init
  <2>2. edit \in [open : BOOLEAN, stamp : Stamp] /\ last_fired \in Stamp /\ fired_ago \in Ages
    BY StampsAre DEF Init, NoEdit
  <2>3. faults \in 0 .. MaxFaults /\ lock \in 0 .. LockTTL
    BY TriggerAssumption DEF Init
  <2> QED
    BY <2>1, <2>2, <2>3 DEF Init, GateTypes
<1>3. Held \subseteq {Never} /\ last_fired = Never
  BY <1>1 DEF Init, Held, NoEdit
<1>4. Identified(Known)
  BY <1>3 DEF Known, Identified
<1>5. GatePassed /\ LastFireKnown
  BY <1>1 DEF Init, GatePassed, LastFireKnown
<1> QED
  BY <1>2, <1>4, <1>5 DEF GateInv

\* A tick goes on: what it holds then is what it held, the row's stamp or nothing.
LEMMA TickGoesOn ==
  ASSUME GateInv, NEW t \in Ticks, NEW r \in TickRecord,
         tick' = [tick EXCEPT ![t] = r], edit' = edit,
         r.seen \in Known \cup {Never}, r.pc \in {"mark", "claim"} => Ripe(r.seen)
  PROVE  /\ tick' \in [Ticks -> TickRecord] /\ GatePassed'
         /\ Held' \subseteq Held \cup {r.seen}
<1> HIDE DEF TickRecord
<1>1. /\ tick' \in [Ticks -> TickRecord] /\ tick'[t] = r
      /\ \A u \in Ticks : u # t => tick'[u] = tick[u]
  BY DEF GateInv, GateTypes
<1>2. GatePassed'
  BY <1>1 DEF GateInv, GatePassed, Ripe
<1>3. Held' \subseteq Held \cup {r.seen}
  BY <1>1 DEF Held
<1> QED
  BY <1>1, <1>2, <1>3

\* The steps of a tick, by what it knows afterwards.
LEMMA TickSteps ==
  ASSUME GateInv, NEW t \in Ticks, Evaluate(t) \/ BadCondition(t) \/ TickFails(t)
  PROVE  \E r \in TickRecord :
            /\ tick' = [tick EXCEPT ![t] = r]
            /\ r.seen \in Known \cup {Never} /\ (r.pc \in {"mark", "claim"} => Ripe(r.seen))
            /\ ~Claim(t) \/ r.seen = Never
<1>a. tick[t] \in TickRecord /\ tick[t].seen \in Stamp /\ tick[t].seen \in Known
  BY DEF GateInv, GateTypes, TickRecord, Known, Held
<1>b. NoTick \in TickRecord /\ NoTick.seen = Never /\ NoTick.pc = "idle"
  BY StampsAre DEF NoTick, TickRecord
<1>1. CASE Load(t)
  <2>1. PICK holds \in BOOLEAN :
          tick' = [tick EXCEPT ![t] = [pc |-> "gate", seen |-> last_fired, matched |-> holds]]
    BY <1>1 DEF Load
  <2>2. [pc |-> "gate", seen |-> last_fired, matched |-> holds] \in TickRecord
    BY DEF GateInv, GateTypes, TickRecord
  <2>3. At(t, "idle") /\ ~Claim(t)
    BY <1>1 DEF Load, Claim, At
  <2> QED
    BY <2>1, <2>2, <2>3 DEF Known
<1>2. CASE Blocked(t) \/ MarkRearmed(t) \/ ClaimLost(t) \/ Enqueue(t) \/ BadCondition(t) \/ TickFails(t)
  <2>1. tick' = [tick EXCEPT ![t] = NoTick]
    BY <1>2 DEF Blocked, MarkRearmed, ClaimLost, Enqueue, BadCondition, TickFails, Done
  <2> QED
    BY <1>b, <2>1
<1>3. CASE Claim(t)
  <2>1. /\ tick' = [tick EXCEPT ![t] = [NoTick EXCEPT !.pc = "enqueue"]]
        /\ [NoTick EXCEPT !.pc = "enqueue"] \in TickRecord
        /\ [NoTick EXCEPT !.pc = "enqueue"].seen = Never /\ [NoTick EXCEPT !.pc = "enqueue"].pc = "enqueue"
    BY <1>3, StampsAre DEF Claim, NoTick, TickRecord
  <2> QED
    BY <2>1
<1>4. CASE Passed(t)
  <2> DEFINE m == [NoTick EXCEPT !.pc = "mark", !.seen = tick[t].seen]
  <2> DEFINE n == [NoTick EXCEPT !.pc = "rearm"]
  <2>1. /\ tick' = [tick EXCEPT ![t] = IF tick[t].matched THEN m ELSE n] /\ ~Blocks(t) /\ ~Claim(t)
    BY <1>4 DEF Passed, Claim, At
  <2>2. m \in TickRecord /\ m.seen = tick[t].seen /\ m.pc = "mark"
    BY <1>a DEF NoTick, TickRecord
  <2>3. n \in TickRecord /\ n.seen = Never /\ n.pc = "rearm"
    BY StampsAre DEF NoTick, TickRecord
  <2>4. Ripe(tick[t].seen)
    <3>1. tick[t].seen.age \in 0 .. Cooldown
      BY <1>a DEF Stamp, Ages
    <3> QED
      BY <2>1, <3>1, StampsAre DEF Blocks, Ripe
  <2> HIDE DEF m, n
  <2> QED
    BY <1>a, <2>1, <2>2, <2>3, <2>4
<1>5. CASE MarkFired(t)
  <2> DEFINE m == [tick[t] EXCEPT !.pc = "claim"]
  <2>1. tick' = [tick EXCEPT ![t] = m] /\ tick[t].pc = "mark" /\ ~Claim(t)
    BY <1>5 DEF MarkFired, Goto, At, Claim
  <2>2. m \in TickRecord /\ m.seen = tick[t].seen
    BY <1>a DEF TickRecord
  <2>3. Ripe(tick[t].seen)
    BY <2>1 DEF GateInv, GatePassed
  <2> HIDE DEF m
  <2> QED
    BY <1>a, <2>1, <2>2, <2>3
<1> QED
  BY <1>1, <1>2, <1>3, <1>4, <1>5 DEF Evaluate

\* The row gets a new stamp, and the last fire is now.
LEMMA Stamped ==
  ASSUME GateInv, last_fired' = Now, fired_ago' = 0, Held' \subseteq Held \cup {Never}, reverted' = reverted
  PROVE  last_fired' \in Stamp /\ fired_ago' \in Ages /\ Identified(Known)' /\ LastFireKnown'
<1>1. Now \in Stamp /\ Now.id # 0 /\ Now.age = 0 /\ \A x \in Held : x.id # Now.id
  BY FreshStamp DEF GateInv
<1>2. Identified(Held \cup {Never})
  BY StillIdentified DEF GateInv, Known
<1>3. \A x \in Held \cup {Never} : x.id # Now.id
  BY <1>1 DEF Never
<1>4. Identified(Held \cup {Never} \cup {Now})
  BY <1>1, <1>2, <1>3, FreshIdentified
<1>5. Identified(Known')
  <2>1. Known' \subseteq Held \cup {Never} \cup {Now}
    BY DEF Known
  <2> QED
    BY <1>4, <2>1, StillIdentified
<1>6. LastFireKnown'
  BY <1>1 DEF LastFireKnown, Never
<1>7. (Identified(Known))'
  BY <1>5 DEF Identified
<1>8. last_fired' \in Stamp /\ fired_ago' \in Ages
  BY <1>1, StampsAre
<1> QED
  BY <1>6, <1>7, <1>8

\* The steps of a tick keep the invariant.
LEMMA TickKeeps ==
  ASSUME GateInv, NEW t \in Ticks, Evaluate(t) \/ BadCondition(t) \/ TickFails(t)
  PROVE  GateInv'
<1>a. GateTypes /\ Identified(Known) /\ GatePassed /\ LastFireKnown
  BY DEF GateInv
<1>1. PICK r \in TickRecord :
            /\ tick' = [tick EXCEPT ![t] = r]
            /\ r.seen \in Known \cup {Never} /\ (r.pc \in {"mark", "claim"} => Ripe(r.seen))
            /\ ~Claim(t) \/ r.seen = Never
  BY TickSteps
<1>2. /\ UNCHANGED <<edit, reverted, lock>>
      /\ enabled' \in BOOLEAN /\ armed' \in BOOLEAN /\ faults' \in 0 .. MaxFaults
      /\ Claim(t) \/ UNCHANGED <<last_fired, fired_ago>>
  <2>1. /\ UNCHANGED <<edit, reverted, lock>> /\ (Claim(t) \/ UNCHANGED <<last_fired, fired_ago>>)
    BY DEF Evaluate, Load, Blocked, Passed, MarkRearmed, MarkFired, Claim, ClaimLost, Enqueue, BadCondition,
       TickFails, trigger, lost
  <2>2. enabled' \in {enabled, FALSE} /\ armed' \in {armed, TRUE, FALSE}
    BY DEF Evaluate, Load, Blocked, Passed, MarkRearmed, MarkFired, Claim, ClaimLost, Enqueue, BadCondition,
       TickFails, trigger
  <2>3. faults' = faults \/ (faults < MaxFaults /\ faults' = faults + 1)
    BY DEF Evaluate, Load, Blocked, Passed, MarkRearmed, MarkFired, Claim, ClaimLost, Enqueue, BadCondition,
       TickFails, lost
  <2>4. faults' \in 0 .. MaxFaults
    BY <1>a, <2>3, TriggerAssumption DEF GateTypes
  <2>5. enabled' \in BOOLEAN /\ armed' \in BOOLEAN
    BY <1>a, <2>2 DEF GateTypes
  <2> QED
    BY <2>1, <2>4, <2>5
<1>3. tick' \in [Ticks -> TickRecord] /\ GatePassed' /\ Held' \subseteq Held \cup {r.seen}
  BY <1>1, <1>2, TickGoesOn
<1>4. CASE Claim(t)
  <2>1. Held' \subseteq Held \cup {Never} /\ last_fired' = Now /\ fired_ago' = 0
    BY <1>1, <1>3, <1>4 DEF Claim
  <2>2. last_fired' \in Stamp /\ fired_ago' \in Ages /\ Identified(Known)' /\ LastFireKnown'
    BY <1>2, <2>1, Stamped
  <2>3. GateTypes'
    BY <1>a, <1>2, <1>3, <2>2 DEF GateTypes
  <2> QED
    BY <1>3, <2>2, <2>3 DEF GateInv
<1>5. CASE UNCHANGED <<last_fired, fired_ago>>
  <2>1. Known' \subseteq Known \cup {Never}
    BY <1>1, <1>3, <1>5 DEF Known
  <2>2. Identified(Known')
    BY <1>a, <2>1, StillIdentified
  <2>3. GateTypes' /\ LastFireKnown'
    BY <1>a, <1>2, <1>3, <1>5 DEF GateTypes, LastFireKnown
  <2> QED
    BY <1>3, <2>2, <2>3 DEF GateInv, Identified
<1> QED
  BY <1>2, <1>4, <1>5

\* So do those of a fire task.
LEMMA FireKeepsGate ==
  ASSUME GateInv, NEW w \in Workers, Fire(w) \/ WorkerLost(w)
  PROVE  GateInv'
<1>a. GateTypes /\ Identified(Known) /\ GatePassed /\ LastFireKnown
  BY DEF GateInv
<1>1. /\ UNCHANGED <<enabled, armed, tick, edit, reverted>> /\ faults' \in 0 .. MaxFaults
      /\ lock' \in 0 .. LockTTL /\ (RecordFiring(w) \/ UNCHANGED <<last_fired, fired_ago>>)
  BY <1>a, TriggerAssumption DEF GateTypes, Fire, Acquire, Skip, RecordFiring, Launch, NoLaunch, Release,
     WorkerLost, trigger, lost
<1>2. Held' = Held
  BY <1>1 DEF Held
<1>3. GatePassed'
  BY <1>a, <1>1 DEF GatePassed
<1>4. CASE RecordFiring(w)
  <2>1. last_fired' = Now /\ fired_ago' = 0
    BY <1>4 DEF RecordFiring
  <2>2. last_fired' \in Stamp /\ fired_ago' \in Ages /\ Identified(Known)' /\ LastFireKnown'
    BY <1>1, <1>2, <2>1, Stamped
  <2>3. GateTypes'
    BY <1>a, <1>1, <2>2 DEF GateTypes
  <2> QED
    BY <1>3, <2>2, <2>3 DEF GateInv
<1>5. CASE UNCHANGED <<last_fired, fired_ago>>
  <2>1. Known' = Known
    BY <1>2, <1>5 DEF Known
  <2> QED
    BY <1>a, <1>1, <1>3, <1>5, <2>1 DEF GateInv, GateTypes, LastFireKnown, Identified
<1> QED
  BY <1>1, <1>4, <1>5

\* Time passes: every stamp grows older, and so does the last fire.
LEMMA ClockKeepsGate == GateInv /\ Clock => GateInv'
<1> SUFFICES ASSUME GateInv, Clock PROVE GateInv'
  OBVIOUS
<1>a. GateTypes /\ Identified(Known) /\ GatePassed /\ LastFireKnown
  BY DEF GateInv
<1>b. /\ last_fired' = Older(last_fired)
      /\ fired_ago' = IF fired_ago < Cooldown THEN fired_ago + 1 ELSE fired_ago
      /\ tick' = [t \in Ticks |-> [tick[t] EXCEPT !.seen = Older(tick[t].seen)]]
      /\ lock' = IF lock > 0 THEN lock - 1 ELSE 0
      /\ edit' = [edit EXCEPT !.stamp = Older(edit.stamp)]
      /\ UNCHANGED <<enabled, armed, faults, reverted>>
  BY DEF Clock
<1>c. Known \in SUBSET Stamp
  BY <1>a DEF GateTypes, Known, Held, TickRecord
<1>d. \A s \in Known : /\ Older(s) \in Stamp /\ (Older(s) = Never <=> s = Never)
                       /\ s # Never => Older(s).age = IF s.age < Cooldown THEN s.age + 1 ELSE s.age
                       /\ Ripe(s) => Ripe(Older(s))
  <2>0. Never.id = 0
    BY DEF Never
  <2>1. \A s \in Known : s \in Stamp /\ (s.id = 0 => s = Never)
    <3>1. \A x, y \in Known \cup {Never} : x.id = y.id => x = y
      BY <1>a DEF Identified
    <3> QED
      BY <1>c, <2>0, <3>1
  <2> QED
    BY <2>1, OlderIs
<1>1. ASSUME NEW t \in Ticks
      PROVE  /\ tick'[t] \in TickRecord /\ tick'[t].seen = Older(tick[t].seen) /\ tick'[t].pc = tick[t].pc
             /\ tick[t].seen \in Known
  <2>1. tick[t] \in TickRecord /\ tick[t].seen \in Known
    BY <1>a DEF GateTypes, Known, Held
  <2> QED
    BY <1>b, <1>d, <2>1 DEF TickRecord
<1>2. /\ edit' \in [open : BOOLEAN, stamp : Stamp] /\ edit'.stamp = Older(edit.stamp)
      /\ last_fired' \in Stamp /\ last_fired \in Known
  BY <1>a, <1>b, <1>d DEF GateTypes, Known, Held
<1>3. GateTypes'
  <2>1. tick' \in [Ticks -> TickRecord]
    <3> HIDE DEF TickRecord
    <3> QED
      BY <1>b, <1>1
  <2>2. fired_ago' \in Ages
    BY <1>a, <1>b, TriggerAssumption DEF GateTypes, Ages
  <2>3. lock' \in 0 .. LockTTL
    BY <1>a, <1>b, TriggerAssumption DEF GateTypes
  <2> QED
    BY <1>a, <1>b, <1>2, <2>1, <2>2, <2>3 DEF GateTypes
<1>4. Identified(Known')
  <2>1. Known' \subseteq {Older(s) : s \in Known}
    BY <1>b, <1>1, <1>2 DEF Known, Held
  <2>2. Identified({Older(s) : s \in Known})
    BY <1>a, <1>c, OlderIdentified
  <2> QED
    BY <2>1, <2>2, StillIdentified
<1>5. GatePassed'
  BY <1>a, <1>d, <1>1 DEF GatePassed, Ripe
<1>6. LastFireKnown'
  BY <1>a, <1>b, <1>d, <1>2, StampsAre DEF LastFireKnown
<1> QED
  BY <1>3, <1>4, <1>5, <1>6 DEF GateInv, Identified

\* An edit holds the stamp it loaded and puts it back; then the row may not know of its last fire.
LEMMA EditKeepsGate == GateInv /\ (EditLoad \/ EditSave) => GateInv'
<1> SUFFICES ASSUME GateInv, EditLoad \/ EditSave PROVE GateInv'
  OBVIOUS
<1>a. GateTypes /\ Identified(Known) /\ GatePassed /\ LastFireKnown
  BY DEF GateInv
<1>b. UNCHANGED <<armed, fired_ago, lock, tick>>
  BY DEF EditLoad, EditSave, trigger
<1>1. GatePassed'
  BY <1>a, <1>b DEF GatePassed
<1>2. CASE EditLoad
  <2>1. /\ UNCHANGED <<enabled, last_fired, reverted>> /\ faults < MaxFaults /\ faults' = faults + 1
        /\ edit' = [open |-> TRUE, stamp |-> last_fired] /\ edit'.stamp = last_fired
    BY <1>2 DEF EditLoad, trigger
  <2>2. faults' \in 0 .. MaxFaults
    BY <1>a, <2>1, TriggerAssumption DEF GateTypes
  <2>3. GateTypes'
    BY <1>a, <1>b, <2>1, <2>2 DEF GateTypes
  <2>4. Known' \subseteq Known \cup {Never}
    BY <1>b, <2>1 DEF Known, Held
  <2>5. Identified(Known')
    BY <1>a, <2>4, StillIdentified
  <2>6. LastFireKnown'
    BY <1>a, <1>b, <2>1 DEF LastFireKnown
  <2> QED
    BY <1>1, <2>3, <2>5, <2>6 DEF GateInv, Identified
<1>3. CASE EditSave
  <2>1. /\ enabled' \in BOOLEAN /\ last_fired' = edit.stamp /\ edit' = NoEdit /\ edit'.stamp = Never
        /\ reverted' = (reverted \/ edit.stamp.id # last_fired.id) /\ faults' = faults
    BY <1>3 DEF EditSave, NoEdit
  <2>2. GateTypes'
    <3>1. edit' \in [open : BOOLEAN, stamp : Stamp] /\ last_fired' \in Stamp
      BY <1>a, <2>1, StampsAre DEF GateTypes, NoEdit
    <3>2. reverted' \in BOOLEAN
      BY <2>1
    <3> QED
      BY <1>a, <1>b, <2>1, <3>1, <3>2 DEF GateTypes
  <2>3. Known' \subseteq Known \cup {Never}
    BY <1>b, <2>1 DEF Known, Held
  <2>4. Identified(Known')
    BY <1>a, <2>3, StillIdentified
  <2>5. LastFireKnown'
    <3>1. edit.stamp.id = last_fired.id => edit.stamp = last_fired
      BY <1>a DEF Identified, Known, Held
    <3>2. CASE edit.stamp.id = last_fired.id
      <4>1. last_fired' = last_fired /\ (reverted => reverted')
        BY <2>1, <3>1, <3>2
      <4> QED
        BY <1>a, <1>b, <4>1 DEF LastFireKnown
    <3>3. CASE edit.stamp.id # last_fired.id
      <4>1. reverted'
        BY <2>1, <3>3
      <4> QED
        BY <4>1 DEF LastFireKnown
    <3> QED
      BY <3>2, <3>3
  <2> QED
    BY <1>1, <2>2, <2>4, <2>5 DEF GateInv, Identified
<1> QED
  BY <1>2, <1>3

\* The invariant of the gate holds in every behaviour.
LEMMA GateInvariance == Spec => []GateInv
<1>1. GateInv /\ [Next]_vars => GateInv'
  <2> SUFFICES ASSUME GateInv, [Next]_vars PROVE GateInv'
    OBVIOUS
  <2>1. CASE FireManually \/ ArmedExpires \/ SyncGuard \/ UNCHANGED vars
    <3>1. UNCHANGED <<last_fired, fired_ago, lock, tick, edit, faults, reverted>>
      BY <2>1 DEF FireManually, ArmedExpires, SyncGuard, vars, trigger, lost
    <3>2. enabled' \in {enabled, ~enabled} /\ armed' \in {armed, FALSE}
      BY <2>1 DEF FireManually, ArmedExpires, SyncGuard, vars, trigger
    <3>3. enabled' \in BOOLEAN /\ armed' \in BOOLEAN
      BY <3>2 DEF GateInv, GateTypes
    <3>4. GateTypes'
      BY <3>1, <3>3 DEF GateInv, GateTypes
    <3>5. Known' = Known
      BY <3>1 DEF Known, Held
    <3>6. GatePassed' /\ LastFireKnown'
      BY <3>1 DEF GateInv, GatePassed, LastFireKnown
    <3> QED
      BY <3>4, <3>5, <3>6 DEF GateInv, Identified
  <2>2. ASSUME NEW t \in Ticks, Evaluate(t) \/ BadCondition(t) \/ TickFails(t) PROVE GateInv'
    BY <2>2, TickKeeps
  <2>3. ASSUME NEW w \in Workers, Fire(w) \/ WorkerLost(w) PROVE GateInv'
    BY <2>3, FireKeepsGate
  <2> QED
    BY <2>1, <2>2, <2>3, ClockKeepsGate, EditKeepsGate DEF Next, Faults, World
<1> QED
  BY <1>1, InitGate, PTL DEF Spec

-----------------------------------------------------------------------------
\* A fire that a worker runs has left the queue, and comes back to it if the worker is lost.
Flying == {w \in Workers : Firing(w)}

\* The fires that wait, whether or not they launched a run before.
Waiting(q) == q[FALSE] + q[TRUE]

\* The queue and the workers together hold no more than the queue's limit and one
\* fire for each worker.
QueueBounded == Waiting(queue) + Cardinality(Flying) <= MaxQueue + Cardinality(Workers)

\* Workers are finitely many.
LEMMA WorkersFinite ==
  ASSUME NEW S \in SUBSET Workers
  PROVE  /\ IsFiniteSet(S) /\ Cardinality(S) \in Nat /\ Cardinality(S) <= Cardinality(Workers)
         /\ Cardinality(Workers) \in Nat /\ MaxQueue \in Nat
  BY FS_Subset, FS_CardinalityType, TriggerAssumption

\* Adding to one part of the queue, or taking from it.
LEMMA QueueSum ==
  ASSUME NEW q \in [BOOLEAN -> Nat], NEW b \in BOOLEAN
  PROVE  /\ q[b] \in Nat /\ Waiting(q) \in Nat /\ q[FALSE] \in Nat /\ q[TRUE] \in Nat
         /\ Waiting([q EXCEPT ![b] = q[b] + 1]) = Waiting(q) + 1
         /\ q[b] > 0 => Waiting([q EXCEPT ![b] = q[b] - 1]) = Waiting(q) - 1
<1>1. q[FALSE] \in Nat /\ q[TRUE] \in Nat /\ q[b] \in Nat
  BY Zenon
<1>2. \A x, y \in Nat : /\ x + y \in Nat
                        /\ x + (y + 1) = (x + y) + 1 /\ (x + 1) + y = (x + y) + 1
                        /\ x + (y - 1) = (x + y) - 1 /\ (x - 1) + y = (x + y) - 1
  OBVIOUS
<1>3. ASSUME NEW n
      PROVE  \/ b = TRUE  /\ Waiting([q EXCEPT ![b] = n]) = q[FALSE] + n /\ q[b] = q[TRUE]
             \/ b = FALSE /\ Waiting([q EXCEPT ![b] = n]) = n + q[TRUE] /\ q[b] = q[FALSE]
  BY Zenon DEF Waiting
<1>4. Waiting(q) = q[FALSE] + q[TRUE]
  BY Zenon DEF Waiting
<1>5. Waiting([q EXCEPT ![b] = q[b] + 1]) = Waiting(q) + 1
  <2>1. \/ Waiting([q EXCEPT ![b] = q[b] + 1]) = q[FALSE] + (q[TRUE] + 1)
        \/ Waiting([q EXCEPT ![b] = q[b] + 1]) = (q[FALSE] + 1) + q[TRUE]
    BY <1>3, Zenon
  <2>2. /\ q[FALSE] + (q[TRUE] + 1) = (q[FALSE] + q[TRUE]) + 1
        /\ (q[FALSE] + 1) + q[TRUE] = (q[FALSE] + q[TRUE]) + 1
    BY <1>1, <1>2, Zenon
  <2> QED
    BY <1>4, <2>1, <2>2, Zenon
<1>6. Waiting([q EXCEPT ![b] = q[b] - 1]) = Waiting(q) - 1
  <2>1. \/ Waiting([q EXCEPT ![b] = q[b] - 1]) = q[FALSE] + (q[TRUE] - 1)
        \/ Waiting([q EXCEPT ![b] = q[b] - 1]) = (q[FALSE] - 1) + q[TRUE]
    BY <1>3, Zenon
  <2>2. /\ q[FALSE] + (q[TRUE] - 1) = (q[FALSE] + q[TRUE]) - 1
        /\ (q[FALSE] - 1) + q[TRUE] = (q[FALSE] + q[TRUE]) - 1
    BY <1>1, <1>2, Zenon
  <2> QED
    BY <1>4, <2>1, <2>2, Zenon
<1> QED
  BY <1>1, <1>2, <1>4, <1>5, <1>6, Zenon

\* Every step keeps the bound, given the types of the fire tasks.
LEMMA QueueKeeps == FireInv /\ QueueBounded /\ [Next]_vars => QueueBounded'
<1> SUFFICES ASSUME FireInv, QueueBounded, [Next]_vars PROVE QueueBounded'
  OBVIOUS
<1>a. queue \in [BOOLEAN -> Nat] /\ Waiting(queue) \in Nat
  BY QueueSum DEF FireInv, FireTypes
<1>b. Flying \in SUBSET Workers /\ Flying' \in SUBSET Workers
  BY DEF Flying
<1>c. /\ IsFiniteSet(Flying) /\ Cardinality(Flying) \in Nat /\ Cardinality(Flying) <= Cardinality(Workers)
      /\ IsFiniteSet(Flying') /\ Cardinality(Flying') \in Nat /\ Cardinality(Flying') <= Cardinality(Workers)
      /\ Cardinality(Workers) \in Nat /\ MaxQueue \in Nat
  BY <1>b, WorkersFinite
<1>d. Waiting(queue) + Cardinality(Flying) <= MaxQueue + Cardinality(Workers)
  BY DEF QueueBounded
<1>e. Waiting(queue') + Cardinality(Flying') <= MaxQueue + Cardinality(Workers) => QueueBounded'
  BY DEF QueueBounded
<1>1. CASE FireManually \/ \E t \in Ticks : Enqueue(t)
  <2>1. queue[FALSE] + queue[TRUE] < MaxQueue /\ queue' = [queue EXCEPT ![FALSE] = queue[FALSE] + 1]
    BY <1>1 DEF FireManually, Enqueue
  <2>2. Waiting(queue) < MaxQueue
    BY <2>1, Zenon DEF Waiting
  <2>3. Waiting(queue') = Waiting(queue) + 1
    BY <1>a, <2>1, QueueSum
  <2> HIDE <1>1, <2>1
  <2> QED
    BY <1>a, <1>c, <1>e, <2>2, <2>3
<1>2. ASSUME NEW w \in Workers, NEW b \in BOOLEAN, Acquire(w, b) \/ Skip(w, b) PROVE QueueBounded'
  <2>1. queue[b] > 0 /\ queue' = [queue EXCEPT ![b] = queue[b] - 1]
    BY <1>2 DEF Acquire, Skip
  <2>2. Waiting(queue') = Waiting(queue) - 1
    BY <1>a, <2>1, QueueSum
  <2>3. Flying' \subseteq Flying \cup {w}
    BY <1>2 DEF Acquire, Skip, Flying, Firing, FireInv, FireTypes
  <2>4. Cardinality(Flying') <= Cardinality(Flying) + 1
    <3>1. /\ IsFiniteSet(Flying \cup {w})
          /\ Cardinality(Flying \cup {w}) = IF w \in Flying THEN Cardinality(Flying) ELSE Cardinality(Flying) + 1
      BY <1>c, FS_AddElement
    <3>2. Cardinality(Flying') <= Cardinality(Flying \cup {w})
      BY <2>3, <3>1, FS_Subset
    <3> QED
      BY <1>c, <3>1, <3>2
  <2> QED
    BY <1>a, <1>c, <1>d, <1>e, <2>2, <2>4
<1>3. ASSUME NEW w \in Workers, WorkerLost(w) PROVE QueueBounded'
  <2>1. /\ fire[w].launched \in BOOLEAN /\ Firing(w) /\ fire' = [fire EXCEPT ![w] = NoFire]
        /\ queue' = [queue EXCEPT ![fire[w].launched] = queue[fire[w].launched] + 1]
    BY <1>3 DEF WorkerLost, FireInv, FireTypes
  <2>2. Waiting(queue') = Waiting(queue) + 1
    BY <1>a, <2>1, QueueSum
  <2>3. Flying' = Flying \ {w} /\ w \in Flying
    BY <2>1 DEF Flying, Firing, NoFire, FireInv, FireTypes
  <2>4. Cardinality(Flying') = Cardinality(Flying) - 1
    BY <1>c, <2>3, FS_RemoveElement
  <2> QED
    BY <1>a, <1>c, <1>d, <1>e, <2>2, <2>4
<1>4. ASSUME NEW w \in Workers, RecordFiring(w) \/ Launch(w) \/ NoLaunch(w) \/ Release(w) PROVE QueueBounded'
  <2>1. queue' = queue /\ Flying' \subseteq Flying
    BY <1>4 DEF RecordFiring, Launch, NoLaunch, Release, Flying, Firing, NoFire, FireInv, FireTypes
  <2>2. Cardinality(Flying') <= Cardinality(Flying)
    BY <1>c, <2>1, FS_Subset
  <2> QED
    BY <1>a, <1>c, <1>d, <1>e, <2>1, <2>2
<1>5. ASSUME UNCHANGED <<queue, fire>> PROVE QueueBounded'
  <2>1. queue' = queue /\ Flying' = Flying
    BY <1>5 DEF Flying, Firing
  <2> QED
    BY <1>d, <1>e, <2>1
<1>6. CASE \/ \E t \in Ticks : \/ Load(t) \/ Blocked(t) \/ Passed(t) \/ MarkRearmed(t) \/ MarkFired(t)
                             \/ Claim(t) \/ ClaimLost(t) \/ BadCondition(t) \/ TickFails(t)
           \/ Clock \/ ArmedExpires \/ SyncGuard \/ EditLoad \/ EditSave
           \/ UNCHANGED vars
  BY <1>5, <1>6 DEF Load, Blocked, Passed, MarkRearmed, MarkFired, Claim, ClaimLost, BadCondition, TickFails,
     Clock, ArmedExpires, SyncGuard, EditLoad, EditSave, vars, lost
<1> QED
  BY <1>1, <1>2, <1>3, <1>4, <1>6 DEF Next, Evaluate, Fire, Faults, World

\* The bound holds in every behaviour.
LEMMA QueueInvariance == Spec => []QueueBounded
<1>1. Init => QueueBounded
  <2> SUFFICES ASSUME Init PROVE QueueBounded
    OBVIOUS
  <2>1. queue[FALSE] = 0 /\ queue[TRUE] = 0
    BY Zenon DEF Init
  <2> QED
    <3>1. Waiting(queue) = 0
      <4>1. 0 + 0 = 0
        OBVIOUS
      <4> QED
        BY <2>1, <4>1, Zenon DEF Waiting
    <3>2. Flying = {}
      BY DEF Init, Flying, Firing, NoFire
    <3>3. Cardinality(Flying) = 0 /\ Cardinality(Workers) \in Nat /\ MaxQueue \in Nat
      BY <3>2, FS_EmptySet, WorkersFinite
    <3> QED
      BY <3>1, <3>3 DEF QueueBounded
<1> QED
  BY <1>1, QueueKeeps, FireInvariance, PTL DEF Spec

-----------------------------------------------------------------------------
\* The row, the flag, the lock, the ticks and the fire tasks stay in their ranges, and
\* redeliveries never swell the queue beyond its limit and one fire for each worker, for
\* any number of ticks, workers and faults.
THEOREM TriggerTypes == Spec => []TypeOK
<1>1. FireInv /\ GateInv /\ QueueBounded => TypeOK
  <2> SUFFICES ASSUME FireInv, GateInv, QueueBounded PROVE TypeOK
    OBVIOUS
  <2>1. queue \in [BOOLEAN -> Nat]
    BY DEF FireInv, FireTypes
  <2>2. queue[FALSE] \in Nat /\ queue[TRUE] \in Nat
    BY <2>1, Zenon
  <2>3. \A x, y, c, m \in Nat : x + y + c <= m => x \in 0 .. m /\ y \in 0 .. m
    OBVIOUS
  <2>4. Cardinality(Flying) \in Nat /\ MaxQueue + Cardinality(Workers) \in Nat
    BY WorkersFinite DEF Flying
  <2>5. \A b \in BOOLEAN : queue[b] \in 0 .. MaxQueue + Cardinality(Workers)
    BY <2>2, <2>3, <2>4, Zenon DEF QueueBounded, Waiting
  <2>6. queue \in [BOOLEAN -> 0 .. MaxQueue + Cardinality(Workers)]
    BY <2>1, <2>5, Zenon
  <2> QED
    BY <2>6 DEF TypeOK, FireInv, FireTypes, GateInv, GateTypes, TickRecord
<1> QED
  BY <1>1, FireInvariance, GateInvariance, QueueInvariance, PTL

\* However ticks overlap, and whatever is fired by hand in between, the evaluator fires
\* only when the last fire is a cooldown old, unless an edit has put an older stamp back:
\* for any number of ticks and any cooldown.
THEOREM CooldownRespected == Spec => CooldownKept
<1>1. GateInv /\ [Next]_vars =>
        [\A t \in Ticks : At(t, "claim") /\ tick'[t].pc = "enqueue" => fired_ago = Cooldown \/ reverted]_vars
  <2> SUFFICES ASSUME GateInv, Next, NEW t \in Ticks, tick[t].pc = "claim", tick'[t].pc = "enqueue"
               PROVE  fired_ago = Cooldown \/ reverted
    BY DEF At
  <2>1. tick \in [Ticks -> TickRecord]
    BY DEF GateInv, GateTypes
  <2>2. Claim(t)
    <3>1. tick'[t] # tick[t]
      OBVIOUS
    <3>2. ASSUME NEW u \in Ticks, Evaluate(u) \/ BadCondition(u) \/ TickFails(u) PROVE Claim(t)
      <4>1. PICK r : tick' = [tick EXCEPT ![u] = r]
        BY <3>2, TickSteps
      <4>2. u = t
        BY <2>1, <3>1, <4>1
      <4>3. ASSUME tick' = [tick EXCEPT ![t] = NoTick] PROVE FALSE
        <5>1. tick'[t] = NoTick
          BY <2>1, <4>3
        <5> QED
          BY <5>1 DEF NoTick
      <4>4. ~(Blocked(t) \/ MarkRearmed(t) \/ ClaimLost(t) \/ Enqueue(t) \/ BadCondition(t) \/ TickFails(t))
        BY <4>3 DEF Blocked, MarkRearmed, ClaimLost, Enqueue, BadCondition, TickFails, Done
      <4>5. ~(Load(t) \/ Passed(t) \/ MarkFired(t))
        BY DEF Load, Passed, MarkFired, At
      <4> QED
        BY <3>2, <4>2, <4>4, <4>5 DEF Evaluate
    <3>3. ASSUME NEW w \in Workers, Fire(w) \/ WorkerLost(w) PROVE FALSE
      BY <3>1, <3>3 DEF Fire, Acquire, Skip, RecordFiring, Launch, NoLaunch, Release, WorkerLost
    <3>4. ASSUME Clock PROVE FALSE
      <4>1. tick'[t] = [tick[t] EXCEPT !.seen = Older(tick[t].seen)]
        BY <3>4 DEF Clock
      <4>2. tick'[t].pc = tick[t].pc
        BY <2>1, <4>1 DEF TickRecord
      <4> QED
        BY <4>2
    <3>5. ~(FireManually \/ ArmedExpires \/ SyncGuard \/ EditLoad \/ EditSave)
      BY <3>1 DEF FireManually, ArmedExpires, SyncGuard, EditLoad, EditSave
    <3> QED
      BY <3>2, <3>3, <3>4, <3>5 DEF Next, Faults, World
  <2>3. tick[t].seen.id = last_fired.id /\ tick[t].seen \in Known /\ last_fired \in Known
    BY <2>2 DEF Claim, Known, Held
  <2>4. tick[t].seen = last_fired
    BY <2>3 DEF GateInv, Identified
  <2>5. Ripe(last_fired)
    BY <2>4 DEF GateInv, GatePassed
  <2> QED
    BY <2>5 DEF GateInv, LastFireKnown, Ripe
<1> QED
  BY <1>1, GateInvariance, PTL DEF Spec, CooldownKept
==============================================================================
