------------------------------ MODULE WorkProofs ------------------------------
(***************************************************************************)
(* Proofs about the work the system takes on, for any number of workers,   *)
(* rows, slots, personas and every cap and cost: predictions, post-mortems *)
(* and screenshots that one task claims; caps that are read before the     *)
(* work and charged after it; and the conversations the work consists of.  *)
(***************************************************************************)
EXTENDS Predictions, PostMortems, Captures, CostCaps, DeskSweep, ToolLoop, Debates, NatLemmas,
        FiniteSetTheorems, TLAPS

-----------------------------------------------------------------------------
(* Predictions                                                             *)

\* Claims are exclusive: only an open call is claimed, and it is never open again.
ClaimsExclusive ==
    /\ \A r, s \in Resolvers : resolver[r].claimed = resolver[s].claimed /\ resolver[r].claimed # 0 => r = s
    /\ \A r \in Resolvers : resolver[r].claimed \in Call =>
        /\ status[resolver[r].claimed] \notin {"none", "open"}
        /\ scored[resolver[r].claimed] = 0

\* A score is given with the status, and not to what nobody claimed.
ScoresAgree ==
    /\ \A c \in Call : status[c] \in {"none", "open"} => scored[c] = 0
    /\ \A c \in Call \ outdated : (scored[c] = 1) <=> (status[c] = "resolved")

\* The inductive invariant of the ledger of predictions.
PredictionsInv == PredictionsTypeOK /\ ClaimsExclusive /\ ScoresAgree /\ ResolvingIsHeld

\* Initially there is no call.
LEMMA InitPredictions == PredictionsInit => PredictionsInv
  BY PredictionsAssumption
  DEF PredictionsInit, NoReport, Reports, PredictionsInv, PredictionsTypeOK, ClaimsExclusive, ScoresAgree, ResolvingIsHeld,
      Call, Directions

\* The steps of the extraction.
LEMMA ExtractionKeeps ==
  ASSUME PredictionsInv, NEW e \in Extractors, NEW d \in Directions,
         FindOpen(e, d) \/ RetireOld(e) \/ CreateCall(e) \/ CreateRejected(e) \/ CreateFails(e)
  PROVE  PredictionsInv'
<1>a. PredictionsTypeOK /\ ClaimsExclusive /\ ScoresAgree /\ ResolvingIsHeld
  BY DEF PredictionsInv
<1>b. resolver' = resolver /\ scored' = scored /\ abandoned' = abandoned
  BY DEF FindOpen, RetireOld, CreateCall, CreateRejected, CreateFails, ledger
<1>1. CASE FindOpen(e, d)
  <2>1. PredictionsTypeOK'
    <3>1. 0 \in 0 .. MaxCalls /\ Open \subseteq 0 .. MaxCalls /\ Open \subseteq Call
      BY PredictionsAssumption DEF Open, Call
    <3>2. /\ extractor' \in [Extractors -> Reports]
          /\ \A x \in Extractors : extractor'[x].pc = "retire" => extractor'[x].found \in Call
      <4>1. PICK x \in Reports : extractor' = [extractor EXCEPT ![e] = x] /\ (x.pc = "retire" => x.found \in Call)
        <5>1. CASE extractor' = [extractor EXCEPT ![e] = [pc |-> "create", direction |-> d, found |-> 0]]
          <6>1. /\ [pc |-> "create", direction |-> d, found |-> 0] \in Reports
                /\ [pc |-> "create", direction |-> d, found |-> 0].pc # "retire"
            BY <3>1 DEF Reports
          <6> QED
            BY <5>1, <6>1
        <5>2. ASSUME NEW c \in Open,
                     extractor' = [extractor EXCEPT ![e] = [pc |-> "retire", direction |-> d, found |-> c]]
              PROVE  \E x \in Reports : extractor' = [extractor EXCEPT ![e] = x] /\ (x.pc = "retire" => x.found \in Call)
          <6>1. /\ [pc |-> "retire", direction |-> d, found |-> c] \in Reports
                /\ [pc |-> "retire", direction |-> d, found |-> c].found \in Call
            BY <3>1, <5>2 DEF Reports
          <6> QED
            BY <5>2, <6>1
        <5> QED
          BY <1>1, <5>1, <5>2 DEF FindOpen
      <4> QED
        BY <1>a, <4>1 DEF PredictionsTypeOK
    <3> QED
      BY <1>a, <1>1, <3>2 DEF FindOpen, PredictionsTypeOK, ledger
  <2> QED
    BY <1>a, <1>b, <1>1, <2>1
    DEF FindOpen, ledger, PredictionsInv, ClaimsExclusive, ScoresAgree, ResolvingIsHeld
<1>2. CASE RetireOld(e)
  <2> DEFINE c == extractor[e].found
  <2>1. /\ c \in Call /\ status' = [status EXCEPT ![c] = "invalidated"]
        /\ outdated' = IF status[c] = "open" THEN outdated ELSE outdated \cup {c}
    BY <1>a, <1>2 DEF RetireOld, PredictionsTypeOK
  <2>2. PredictionsTypeOK'
    <3>1. extractor[e] \in Reports /\ extractor' = [extractor EXCEPT ![e].pc = "create"]
      BY <1>a, <1>2 DEF RetireOld, PredictionsTypeOK
    <3>2. [extractor[e] EXCEPT !.pc = "create"] \in Reports /\ [extractor[e] EXCEPT !.pc = "create"].pc # "retire"
      BY <3>1 DEF Reports
    <3>3. /\ extractor' \in [Extractors -> Reports]
          /\ \A x \in Extractors : extractor'[x].pc = "retire" => extractor'[x].found \in Call
      BY <1>a, <3>1, <3>2 DEF PredictionsTypeOK
    <3> QED
      BY <1>a, <1>2, <2>1, <3>3 DEF RetireOld, PredictionsTypeOK
  <2>3. ClaimsExclusive'
    BY <1>a, <1>b, <2>1 DEF PredictionsTypeOK, ClaimsExclusive
  <2>4. ScoresAgree'
    BY <1>a, <1>b, <2>1 DEF PredictionsTypeOK, ScoresAgree
  <2>5. ResolvingIsHeld'
    BY <1>a, <1>b, <2>1 DEF PredictionsTypeOK, ResolvingIsHeld
  <2> QED
    BY <2>2, <2>3, <2>4, <2>5 DEF PredictionsInv
<1>3. CASE CreateCall(e)
  <2>1. PICK c \in Call :
          /\ status[c] = "none" /\ status' = [status EXCEPT ![c] = "open"]
          /\ direction' = [direction EXCEPT ![c] = extractor[e].direction]
    BY <1>3 DEF CreateCall
  <2>2. PredictionsTypeOK'
    <3>1. NoReport \in Reports /\ NoReport.pc = "idle"
      BY PredictionsAssumption DEF NoReport, Reports, Directions
    <3>2. /\ extractor' \in [Extractors -> Reports]
          /\ \A x \in Extractors : extractor'[x].pc = "retire" => extractor'[x].found \in Call
      <4>1. extractor' = [extractor EXCEPT ![e] = NoReport]
        BY <1>3 DEF CreateCall
      <4> QED
        BY <1>a, <3>1, <4>1 DEF PredictionsTypeOK
    <3>3. direction' \in [Call -> Directions]
      <4>1. extractor[e].direction \in Directions
        BY <1>a DEF PredictionsTypeOK, Reports
      <4> QED
        BY <1>a, <2>1, <4>1 DEF PredictionsTypeOK
    <3>4. UNCHANGED <<due, scored, resolver, checker, mishaps, abandoned, outdated>>
      BY <1>3 DEF CreateCall
    <3> QED
      BY <1>a, <2>1, <3>2, <3>3, <3>4 DEF PredictionsTypeOK
  <2>3. ClaimsExclusive'
    BY <1>a, <1>b, <2>1 DEF PredictionsTypeOK, ClaimsExclusive
  <2>4. ScoresAgree'
    BY <1>a, <1>b, <1>3, <2>1 DEF CreateCall, PredictionsTypeOK, ScoresAgree
  <2>5. ResolvingIsHeld'
    BY <1>a, <1>b, <2>1 DEF PredictionsTypeOK, ResolvingIsHeld
  <2> QED
    BY <2>2, <2>3, <2>4, <2>5 DEF PredictionsInv
<1>4. CASE CreateRejected(e) \/ CreateFails(e)
  <2>1. PredictionsTypeOK'
    <3>1. NoReport \in Reports /\ NoReport.pc = "idle"
      BY PredictionsAssumption DEF NoReport, Reports, Directions
    <3>2. extractor' = [extractor EXCEPT ![e] = NoReport] /\ UNCHANGED <<ledger, resolver, checker, abandoned, outdated>>
      BY <1>4 DEF CreateRejected, CreateFails
    <3>3. /\ extractor' \in [Extractors -> Reports]
          /\ \A x \in Extractors : extractor'[x].pc = "retire" => extractor'[x].found \in Call
      BY <1>a, <3>1, <3>2 DEF PredictionsTypeOK
    <3>4. mishaps' \in Nat
      BY <1>a, <1>4, PredictionsAssumption DEF CreateRejected, CreateFails, Mishap, PredictionsTypeOK
    <3> QED
      BY <1>a, <3>2, <3>3, <3>4 DEF PredictionsTypeOK, ledger
  <2> QED
    BY <1>a, <1>b, <1>4, <2>1
    DEF CreateRejected, CreateFails, ledger, PredictionsInv, ClaimsExclusive, ScoresAgree, ResolvingIsHeld
<1> QED
  BY <1>1, <1>2, <1>3, <1>4

\* The steps of a resolver.
LEMMA ResolutionKeeps ==
  ASSUME PredictionsInv, NEW r \in Resolvers,
         ListDue(r) \/ ClaimCall(r) \/ ScoreCall(r) \/ ResolveRaises(r) \/ ResolverLost(r)
  PROVE  PredictionsInv'
<1>a. PredictionsTypeOK /\ ClaimsExclusive /\ ScoresAgree /\ ResolvingIsHeld
  BY DEF PredictionsInv
<1>1. CASE ListDue(r)
  <2>1. PredictionsTypeOK'
    BY <1>a, <1>1 DEF ListDue, PredictionsTypeOK, ledger, Open
  <2>2. \A s \in Resolvers : resolver'[s].claimed = resolver[s].claimed
    BY <1>a, <1>1 DEF ListDue, PredictionsTypeOK
  <2> QED
    BY <1>a, <1>1, <2>1, <2>2
    DEF ListDue, ledger, PredictionsInv, ClaimsExclusive, ScoresAgree, ResolvingIsHeld
<1>2. CASE ClaimCall(r)
  <2>1. PICK c \in resolver[r].todo :
          IF status[c] = "open"
          THEN /\ status' = [status EXCEPT ![c] = "resolving"]
               /\ resolver' = [resolver EXCEPT ![r] = [todo |-> @.todo \ {c}, claimed |-> c]]
          ELSE /\ resolver' = [resolver EXCEPT ![r].todo = @ \ {c}]
               /\ UNCHANGED status
    BY <1>2 DEF ClaimCall
  <2>2. c \in Call /\ c # 0 /\ resolver[r].claimed = 0
    BY <1>a, <1>2, PredictionsAssumption DEF ClaimCall, PredictionsTypeOK, Call
  <2>3. scored' = scored /\ outdated' = outdated /\ abandoned' = abandoned
    BY <1>2 DEF ClaimCall
  <2>4. CASE status[c] = "open"
    <3>1. /\ resolver'[r].claimed = c
          /\ \A s \in Resolvers : s # r => resolver'[s] = resolver[s]
      BY <1>a, <2>1, <2>4 DEF PredictionsTypeOK
    <3>2. PredictionsTypeOK'
      <4>1. [todo |-> resolver[r].todo \ {c}, claimed |-> c] \in [todo : SUBSET Call, claimed : 0 .. MaxCalls]
        BY <1>a, <2>2, PredictionsAssumption DEF PredictionsTypeOK, Call
      <4>2. resolver' = [resolver EXCEPT ![r] = [todo |-> resolver[r].todo \ {c}, claimed |-> c]]
        BY <2>1, <2>4
      <4> QED
        BY <1>a, <1>2, <2>1, <2>4, <4>1, <4>2 DEF ClaimCall, PredictionsTypeOK
    <3>3. status' = [status EXCEPT ![c] = "resolving"]
      BY <2>1, <2>4
    <3>4. ClaimsExclusive'
      BY <1>a, <2>2, <2>3, <2>4, <3>1, <3>3 DEF PredictionsTypeOK, ClaimsExclusive, ScoresAgree
    <3>5. ScoresAgree'
      BY <1>a, <2>2, <2>3, <2>4, <3>3 DEF PredictionsTypeOK, ScoresAgree
    <3>6. ResolvingIsHeld'
      BY <1>a, <2>2, <2>3, <3>1, <3>3 DEF PredictionsTypeOK, ResolvingIsHeld, Call
    <3> QED
      BY <3>2, <3>4, <3>5, <3>6 DEF PredictionsInv
  <2>5. CASE status[c] # "open"
    <3>1. PredictionsTypeOK'
      BY <1>a, <1>2, <2>1, <2>5 DEF ClaimCall, PredictionsTypeOK
    <3>2. \A s \in Resolvers : resolver'[s].claimed = resolver[s].claimed
      BY <1>a, <2>1, <2>5 DEF PredictionsTypeOK
    <3> QED
      BY <1>a, <2>1, <2>3, <2>5, <3>1, <3>2 DEF PredictionsInv, ClaimsExclusive, ScoresAgree, ResolvingIsHeld
  <2> QED
    BY <2>4, <2>5
<1>3. CASE ScoreCall(r)
  <2> DEFINE c == resolver[r].claimed
  <2>1. c \in Call
    BY <1>a, <1>3, PredictionsAssumption DEF ScoreCall, PredictionsTypeOK, Call
  <2>2. /\ status' = [status EXCEPT ![c] = "resolved"] /\ scored' = [scored EXCEPT ![c] = scored[c] + 1]
        /\ resolver' = [resolver EXCEPT ![r].claimed = 0]
        /\ outdated' = outdated /\ abandoned' = abandoned
    BY <1>3 DEF ScoreCall
  <2>3. scored[c] = 0 /\ scored' = [scored EXCEPT ![c] = 1]
    <3>1. scored[c] = 0
      BY <1>a, <2>1 DEF ClaimsExclusive
    <3>2. scored[c] + 1 = 1
      BY <3>1
    <3> QED
      BY <2>2, <3>1, <3>2
  <2>4. PredictionsTypeOK'
    BY <1>a, <1>3, <2>1, <2>2, <2>3, PredictionsAssumption DEF ScoreCall, PredictionsTypeOK
  <2>5. /\ resolver'[r].claimed = 0
        /\ \A s \in Resolvers : s # r => resolver'[s] = resolver[s] /\ resolver[s].claimed # c
    BY <1>a, <2>1, <2>2, PredictionsAssumption DEF PredictionsTypeOK, ClaimsExclusive, Call
  <2>6. ClaimsExclusive'
    BY <1>a, <2>1, <2>2, <2>3, <2>5 DEF PredictionsTypeOK, ClaimsExclusive, Call
  <2>7. ScoresAgree'
    BY <1>a, <2>1, <2>2, <2>3 DEF PredictionsTypeOK, ScoresAgree
  <2>8. ResolvingIsHeld'
    BY <1>a, <2>1, <2>2, <2>5 DEF PredictionsTypeOK, ResolvingIsHeld
  <2> QED
    BY <2>4, <2>6, <2>7, <2>8 DEF PredictionsInv
<1>4. CASE ResolveRaises(r) \/ ResolverLost(r)
  <2>1. /\ resolver'[r].claimed = 0 /\ \A s \in Resolvers : s # r => resolver'[s] = resolver[s]
        /\ resolver[r].claimed # 0 => resolver[r].claimed \in abandoned'
        /\ abandoned \subseteq abandoned' /\ status' = status /\ scored' = scored /\ outdated' = outdated
    BY <1>a, <1>4 DEF ResolveRaises, ResolverLost, PredictionsTypeOK, ledger
  <2>2. PredictionsTypeOK'
    <3>1. resolver' \in [Resolvers -> [todo : SUBSET Call, claimed : 0 .. MaxCalls]]
      BY <1>a, <1>4, PredictionsAssumption DEF ResolveRaises, ResolverLost, PredictionsTypeOK
    <3>2. abandoned' \subseteq Call
      <4>1. resolver[r].claimed \in 0 .. MaxCalls
        BY <1>a DEF PredictionsTypeOK
      <4>2. abandoned' \subseteq abandoned \cup ({resolver[r].claimed} \ {0})
        BY <1>4 DEF ResolveRaises, ResolverLost
      <4> QED
        BY <1>a, <4>1, <4>2, PredictionsAssumption DEF PredictionsTypeOK, Call
    <3>3. mishaps' \in Nat
      BY <1>a, <1>4, PredictionsAssumption DEF ResolveRaises, ResolverLost, Mishap, PredictionsTypeOK
    <3>4. UNCHANGED <<status, direction, due, scored, extractor, checker, outdated>>
      BY <1>4 DEF ResolveRaises, ResolverLost, ledger
    <3> QED
      BY <1>a, <3>1, <3>2, <3>3, <3>4 DEF PredictionsTypeOK
  <2>3. ResolvingIsHeld'
    BY <1>a, <2>1 DEF ResolvingIsHeld, Call
  <2>4. ClaimsExclusive' /\ ScoresAgree'
    BY <1>a, <2>1 DEF ClaimsExclusive, ScoresAgree, Call
  <2> QED
    BY <2>2, <2>3, <2>4 DEF PredictionsInv
<1> QED
  BY <1>1, <1>2, <1>3, <1>4

\* The steps of the invalidation task, and of time.
LEMMA InvalidationKeeps ==
  ASSUME PredictionsInv,
         HorizonPasses \/ \E k \in Checkers : ListOpen(k) \/ LevelHolds(k) \/ LevelBreached(k)
  PROVE  PredictionsInv'
<1>a. PredictionsTypeOK /\ ClaimsExclusive /\ ScoresAgree /\ ResolvingIsHeld
  BY DEF PredictionsInv
<1>b. resolver' = resolver /\ scored' = scored /\ abandoned' = abandoned
  BY DEF HorizonPasses, ListOpen, LevelHolds, LevelBreached, ledger
<1>1. CASE HorizonPasses \/ \E k \in Checkers : ListOpen(k) \/ LevelHolds(k)
  <2>1. status' = status /\ outdated' = outdated
    BY <1>1 DEF HorizonPasses, ListOpen, LevelHolds, ledger
  <2>2. PredictionsTypeOK'
    BY <1>a, <1>1 DEF HorizonPasses, ListOpen, LevelHolds, ledger, PredictionsTypeOK, Open, Created
  <2> QED
    BY <1>a, <1>b, <2>1, <2>2 DEF PredictionsInv, ClaimsExclusive, ScoresAgree, ResolvingIsHeld
<1>2. ASSUME NEW k \in Checkers, LevelBreached(k) PROVE PredictionsInv'
  <2>1. PICK c \in Call :
        /\ checker' = [checker EXCEPT ![k] = checker[k] \ {c}]
        /\ status' = [status EXCEPT ![c] = "invalidated"]
        /\ outdated' = IF status[c] = "open" THEN outdated ELSE outdated \cup {c}
    BY <1>a, <1>2 DEF LevelBreached, PredictionsTypeOK
  <2>2. PredictionsTypeOK'
    BY <1>a, <1>2, <2>1 DEF LevelBreached, PredictionsTypeOK
  <2>3. ClaimsExclusive'
    BY <1>a, <1>b, <2>1 DEF PredictionsTypeOK, ClaimsExclusive
  <2>4. ScoresAgree'
    BY <1>a, <1>b, <2>1 DEF PredictionsTypeOK, ScoresAgree
  <2>5. ResolvingIsHeld'
    BY <1>a, <1>b, <2>1 DEF PredictionsTypeOK, ResolvingIsHeld
  <2> QED
    BY <2>2, <2>3, <2>4, <2>5 DEF PredictionsInv
<1> QED
  BY <1>1, <1>2

\* The ledger's invariant holds in every behaviour.
LEMMA PredictionsInvariance == PredictionsSpec => []PredictionsInv
<1>1. PredictionsInv /\ [PredictionsNext]_predictionsVars => PredictionsInv'
  <2> SUFFICES ASSUME PredictionsInv, [PredictionsNext]_predictionsVars PROVE PredictionsInv'
    OBVIOUS
  <2>0. "bullish" \in Directions
    BY DEF Directions
  <2>1. CASE UNCHANGED predictionsVars
    BY <2>1 DEF predictionsVars, ledger, PredictionsInv, PredictionsTypeOK, ClaimsExclusive, ScoresAgree, ResolvingIsHeld
  <2>2. CASE PredictionsNext
    BY <2>0, <2>2, ExtractionKeeps, ResolutionKeeps, InvalidationKeeps DEF PredictionsNext
  <2> QED
    BY <2>1, <2>2
<1> QED
  BY <1>1, InitPredictions, PTL DEF PredictionsSpec

\* However many runs of resolve_due overlap, and whatever the extraction, the
\* invalidation and lost workers do in between: a call is given one verdict at most, and
\* the status agrees with it unless a task wrote from a row it had read before.
THEOREM CallsScoredOnce == PredictionsSpec => []ScoredOnce
<1>1. PredictionsInv => ScoredOnce
  BY DEF PredictionsInv, PredictionsTypeOK, ScoresAgree, ScoredOnce
<1> QED
  BY <1>1, PredictionsInvariance, PTL

\* A call in "resolving" has a resolver, or one that raised or was lost had it.
THEOREM ResolvingHeld == PredictionsSpec => []ResolvingIsHeld
<1>1. PredictionsInv => ResolvingIsHeld
  BY DEF PredictionsInv
<1> QED
  BY <1>1, PredictionsInvariance, PTL

\* Types of the calls and of what each task has read of them.
THEOREM PredictionsTypes == PredictionsSpec => []PredictionsTypeOK
<1>1. PredictionsInv => PredictionsTypeOK
  BY DEF PredictionsInv
<1> QED
  BY <1>1, PredictionsInvariance, PTL

-----------------------------------------------------------------------------
(* Post-mortems                                                            *)

\* The rows, the workers and the clock are in their ranges.
RowTypes ==
    /\ pm \in [Horizon -> {"none", "scheduled", "running", "done"}]
    /\ queue \in [Horizon -> Nat] /\ runs \in [Horizon -> Nat] /\ resets \in [Horizon -> Nat]
    /\ worker \in [Workers -> {AtRest} \cup [pc : {"narrate", "save"}, on : Horizon]]
    /\ clicks \in Nat /\ deaths \in Nat

\* A row that waits has a run to its credit.
RunsCredited == \A h \in Horizon : pm[h] = "scheduled" => runs[h] <= resets[h]

\* The inductive invariant of the post-mortems.
PostMortemsInv == RowTypes /\ RunsPaid /\ RunsCredited /\ RunningIsHeld

\* Initially every row is scheduled and none has run.
LEMMA InitPostMortems == PostMortemsInit => PostMortemsInv
  BY PostMortemsAssumption
  DEF PostMortemsInit, NoThesisEdit, PostMortemsInv, RowTypes, RunsPaid, RunsCredited, RunningIsHeld,
      Horizon

\* The steps of a worker.
LEMMA WorkerKeeps ==
  ASSUME PostMortemsInv, NEW w \in Workers, StartTask(w) \/ Narrate(w) \/ SaveOutcome(w) \/ WorkerKilled(w) \/ TaskRaises(w)
  PROVE  PostMortemsInv'
<1>a. RowTypes /\ RunsPaid /\ RunsCredited /\ RunningIsHeld
  BY DEF PostMortemsInv
<1>1. CASE StartTask(w)
  <2>1. PICK h \in Horizon :
        /\ queue[h] > 0 /\ queue' = [queue EXCEPT ![h] = queue[h] - 1]
        /\ IF pm[h] = "scheduled"
           THEN /\ pm' = [pm EXCEPT ![h] = "running"]
                /\ worker' = [worker EXCEPT ![w] = [pc |-> "narrate", on |-> h]]
                /\ runs' = [runs EXCEPT ![h] = runs[h] + 1]
           ELSE UNCHANGED <<pm, worker, runs>>
    BY <1>1 DEF StartTask
  <2>2. queue' \in [Horizon -> Nat]
    BY <1>a, <2>1 DEF RowTypes
  <2>3. UNCHANGED <<elapsed, click, thesis, clicks, deaths, resets, orphaned>>
    BY <1>1 DEF StartTask
  <2>4. CASE pm[h] = "scheduled"
    <3>1. /\ pm' = [pm EXCEPT ![h] = "running"]
          /\ worker' = [worker EXCEPT ![w] = [pc |-> "narrate", on |-> h]]
          /\ runs' = [runs EXCEPT ![h] = runs[h] + 1]
      BY <2>1, <2>4
    <3>2. RowTypes'
      BY <1>a, <2>2, <2>3, <3>1 DEF RowTypes
    <3>3. RunsPaid' /\ RunsCredited'
      BY <1>a, <2>3, <2>4, <3>1 DEF RowTypes, RunsPaid, RunsCredited
    <3>4. RunningIsHeld'
      <4>1. worker[w] = AtRest /\ AtRest.on = 0 /\ \A g \in Horizon : g # 0
        BY <1>1 DEF StartTask, AtRest, Horizon
      <4>2. worker'[w].on = h /\ \A v \in Workers : v # w => worker'[v] = worker[v]
        BY <1>a, <3>1 DEF RowTypes
      <4> QED
        BY <1>a, <2>3, <3>1, <4>1, <4>2 DEF RowTypes, RunningIsHeld
    <3> QED
      BY <3>2, <3>3, <3>4 DEF PostMortemsInv
  <2>5. CASE pm[h] # "scheduled"
    BY <1>a, <2>1, <2>2, <2>3, <2>5 DEF PostMortemsInv, RowTypes, RunsPaid, RunsCredited, RunningIsHeld
  <2> QED
    BY <2>4, <2>5
<1>2. CASE Narrate(w)
  <2>1. worker[w] \in [pc : {"narrate", "save"}, on : Horizon]
    BY <1>a, <1>2 DEF Narrate, RowTypes, AtRest
  <2>2. worker' = [worker EXCEPT ![w].pc = "save"]
    BY <1>2 DEF Narrate
  <2>3. /\ worker' \in [Workers -> {AtRest} \cup [pc : {"narrate", "save"}, on : Horizon]]
        /\ \A v \in Workers : worker'[v].on = worker[v].on
    <3>1. PICK h \in Horizon : worker[w].on = h
      BY <2>1
    <3>2. [worker[w] EXCEPT !.pc = "save"] = [pc |-> "save", on |-> h]
      <4> DEFINE old == worker[w]
      <4>1. old \in [pc : {"narrate", "save"}, on : Horizon] /\ old.on = h
        BY <2>1, <3>1
      <4> HIDE DEF old
      <4>2. [old EXCEPT !.pc = "save"] = [pc |-> "save", on |-> h]
        BY <4>1
      <4> QED
        BY <4>2 DEF old
    <3>3. worker' = [worker EXCEPT ![w] = [worker[w] EXCEPT !.pc = "save"]]
      BY <2>2
    <3>4. worker' = [worker EXCEPT ![w] = [pc |-> "save", on |-> h]]
      BY <3>2, <3>3
    <3> QED
      BY <1>a, <3>1, <3>4 DEF RowTypes
  <2> QED
    BY <1>a, <1>2, <2>3
    DEF Narrate, pmCounts, PostMortemsInv, RowTypes, RunsPaid, RunsCredited, RunningIsHeld
<1>3. CASE SaveOutcome(w)
  <2> DEFINE h == worker[w].on
  <2>1. h \in Horizon
    BY <1>a, <1>3 DEF SaveOutcome, RowTypes, AtRest
  <2>2. /\ pm' = [pm EXCEPT ![h] = IF pm[h] = "none" THEN pm[h] ELSE "done"]
        /\ worker' = [worker EXCEPT ![w] = AtRest]
        /\ UNCHANGED <<elapsed, queue, click, thesis, clicks, deaths, runs, resets, orphaned>>
    BY <1>3 DEF SaveOutcome, pmCounts
  <2>3. RowTypes'
    BY <1>a, <2>2 DEF RowTypes
  <2>4. RunsPaid' /\ RunsCredited'
    BY <1>a, <2>1, <2>2 DEF RowTypes, RunsPaid, RunsCredited
  <2>5. RunningIsHeld'
    BY <1>a, <2>1, <2>2 DEF RowTypes, RunningIsHeld
  <2> QED
    BY <2>3, <2>4, <2>5 DEF PostMortemsInv
<1>4. CASE WorkerKilled(w)
  <2> DEFINE h == worker[w].on
  <2>1. h \in Horizon
    BY <1>a, <1>4 DEF WorkerKilled, RowTypes
  <2>2. /\ queue' = [queue EXCEPT ![h] = queue[h] + 1] /\ deaths' = deaths + 1
        /\ worker' = [worker EXCEPT ![w] = AtRest] /\ orphaned' = orphaned \cup {h}
        /\ UNCHANGED <<pm, elapsed, click, thesis, clicks, runs, resets>>
    BY <1>4 DEF WorkerKilled
  <2>3. RowTypes'
    BY <1>a, <2>1, <2>2 DEF RowTypes
  <2>4. RunsPaid' /\ RunsCredited'
    BY <1>a, <2>2 DEF RunsPaid, RunsCredited
  <2>5. RunningIsHeld'
    BY <1>a, <2>1, <2>2 DEF RowTypes, RunningIsHeld
  <2> QED
    BY <2>3, <2>4, <2>5 DEF PostMortemsInv
<1>5. CASE TaskRaises(w)
  <2> DEFINE h == worker[w].on
  <2>1. /\ deaths' = deaths + 1
        /\ worker' = [worker EXCEPT ![w] = AtRest] /\ orphaned' = orphaned \cup {h}
        /\ UNCHANGED <<pm, elapsed, queue, click, thesis, clicks, runs, resets>>
    BY <1>5 DEF TaskRaises
  <2>2. RowTypes'
    BY <1>a, <2>1 DEF RowTypes
  <2>3. RunsPaid' /\ RunsCredited'
    BY <1>a, <2>1 DEF RunsPaid, RunsCredited
  <2>4. RunningIsHeld'
    BY <1>a, <2>1 DEF RowTypes, RunningIsHeld
  <2> QED
    BY <2>2, <2>3, <2>4 DEF PostMortemsInv
<1> QED
  BY <1>1, <1>2, <1>3, <1>4, <1>5

\* The scheduler, the run-now button and the user.
LEMMA RequestsKeep ==
  ASSUME PostMortemsInv,
         \/ HorizonElapses \/ PostMortemTick \/ ChooseRow \/ ResetRow
         \/ ArchiveThesis \/ RestoreThesis \/ LoadThesis \/ SaveThesis \/ PurgeChecks \/ PurgeDeletes
  PROVE  PostMortemsInv'
<1>a. RowTypes /\ RunsPaid /\ RunsCredited /\ RunningIsHeld
  BY DEF PostMortemsInv
<1>1. CASE HorizonElapses
  BY <1>a, <1>1, PostMortemsAssumption
  DEF HorizonElapses, pmCounts, PostMortemsInv, RowTypes, RunsPaid, RunsCredited, RunningIsHeld
<1>2. CASE PostMortemTick
  <2>1. queue' \in [Horizon -> Nat]
    BY <1>a, <1>2 DEF PostMortemTick, RowTypes
  <2> QED
    BY <1>a, <1>2, <2>1
    DEF PostMortemTick, pmCounts, PostMortemsInv, RowTypes, RunsPaid, RunsCredited, RunningIsHeld
<1>3. CASE ChooseRow
  BY <1>a, <1>3 DEF ChooseRow, PostMortemsInv, RowTypes, RunsPaid, RunsCredited, RunningIsHeld
<1>4. CASE ResetRow
  <2>1. /\ pm' = [pm EXCEPT ![click] = IF pm[click] = "none" THEN pm[click] ELSE "scheduled"]
        /\ resets' = [resets EXCEPT ![click] = resets[click] + 1]
        /\ queue' = [queue EXCEPT ![click] = queue[click] + 1]
        /\ UNCHANGED <<worker, clicks, deaths, runs, orphaned>>
    BY <1>4 DEF ResetRow
  <2>2. RowTypes'
    <3>1. CASE click \in Horizon
      BY <1>a, <2>1, <3>1 DEF RowTypes
    <3>2. CASE click \notin Horizon
      <4>1. pm' = pm /\ resets' = resets /\ queue' = queue
        BY <1>a, <2>1, <3>2 DEF RowTypes
      <4> QED
        BY <1>a, <2>1, <4>1 DEF RowTypes
    <3> QED
      BY <3>1, <3>2
  <2>3. RunsPaid' /\ RunsCredited'
    BY <1>a, <2>1 DEF RowTypes, RunsPaid, RunsCredited
  <2>4. RunningIsHeld'
    BY <1>a, <2>1 DEF RowTypes, RunningIsHeld
  <2> QED
    BY <2>2, <2>3, <2>4 DEF PostMortemsInv
<1>5. CASE ArchiveThesis \/ RestoreThesis \/ LoadThesis \/ SaveThesis \/ PurgeChecks
  <2>1. UNCHANGED <<pm, queue, worker, pmCounts, orphaned>>
    BY <1>5 DEF ArchiveThesis, RestoreThesis, LoadThesis, SaveThesis, PurgeChecks
  <2> QED
    BY <1>a, <2>1 DEF pmCounts, PostMortemsInv, RowTypes, RunsPaid, RunsCredited, RunningIsHeld
<1>6. CASE PurgeDeletes
  BY <1>a, <1>6
  DEF PurgeDeletes, NoThesisEdit, pmCounts, PostMortemsInv, RowTypes, RunsPaid, RunsCredited,
      RunningIsHeld
<1> QED
  BY <1>1, <1>2, <1>3, <1>4, <1>5, <1>6

\* The post-mortems' invariant holds in every behaviour.
LEMMA PostMortemsInvariance == PostMortemsSpec => []PostMortemsInv
<1>1. PostMortemsInv /\ [PostMortemsNext]_postMortemsVars => PostMortemsInv'
  <2> SUFFICES ASSUME PostMortemsInv, [PostMortemsNext]_postMortemsVars PROVE PostMortemsInv'
    OBVIOUS
  <2>1. CASE UNCHANGED postMortemsVars
    BY <2>1
    DEF postMortemsVars, pmCounts, PostMortemsInv, RowTypes, RunsPaid, RunsCredited, RunningIsHeld
  <2>2. CASE PostMortemsNext
    BY <2>2, WorkerKeeps, RequestsKeep DEF PostMortemsNext
  <2> QED
    BY <2>1, <2>2
<1> QED
  BY <1>1, InitPostMortems, PTL DEF PostMortemsSpec

\* Ticks, redeliveries and copies of a task are free: a post-mortem runs once, and once
\* more for each time run-now reset it.
THEOREM PostMortemRunsPaid == PostMortemsSpec => []RunsPaid
<1>1. PostMortemsInv => RunsPaid
  BY DEF PostMortemsInv
<1> QED
  BY <1>1, PostMortemsInvariance, PTL

\* A post-mortem in "running" has a worker on it, or a task that had claimed it was lost:
\* killed with its worker, or ended by an exception or a limit outside the try.
THEOREM RunningHeld == PostMortemsSpec => []RunningIsHeld
<1>1. PostMortemsInv => RunningIsHeld
  BY DEF PostMortemsInv
<1> QED
  BY <1>1, PostMortemsInvariance, PTL

\* The clock, the click, the thesis and the orphans are in their ranges.
ThesisTypes ==
    /\ elapsed \in 0 .. Horizons /\ click \in 0 .. Horizons
    /\ thesis \in [archived : BOOLEAN, editing : {"no", "listed", "archived"}, purging : BOOLEAN]
    /\ orphaned \subseteq Horizon

\* Types of the post-mortems: rows, copies of tasks, workers, the request and the thesis.
THEOREM PostMortemsTypes == PostMortemsSpec => []PostMortemsTypeOK
<1>1. PostMortemsInit => ThesisTypes
  BY PostMortemsAssumption DEF PostMortemsInit, ThesisTypes, NoThesisEdit
<1>2. PostMortemsInv /\ ThesisTypes /\ [PostMortemsNext]_postMortemsVars => ThesisTypes'
  <2> SUFFICES ASSUME PostMortemsInv, ThesisTypes, [PostMortemsNext]_postMortemsVars PROVE ThesisTypes'
    OBVIOUS
  <2>1. CASE HorizonElapses
    BY <2>1, PostMortemsAssumption DEF HorizonElapses, ThesisTypes
  <2>2. CASE ChooseRow
    <3>1. click' \in 0 .. Horizons
      <4>1. DueNow \subseteq Horizon /\ 1 \in Horizon
        BY PostMortemsAssumption DEF DueNow, ThesisTypes, Horizon
      <4>2. CASE DueNow = {}
        BY <2>2, <4>1, <4>2 DEF ChooseRow, Horizon
      <4>3. CASE DueNow # {}
        <5>1. DueNow \subseteq Nat
          BY <4>1 DEF Horizon
        <5>2. \E h \in DueNow : \A g \in DueNow : h <= g
          BY <4>3, <5>1, SmallestNat
        <5>3. click' \in DueNow
          BY <2>2, <4>3, <5>2 DEF ChooseRow
        <5> QED
          BY <4>1, <5>3 DEF Horizon
      <4> QED
        BY <4>2, <4>3
    <3> QED
      BY <2>2, <3>1 DEF ChooseRow, ThesisTypes
  <2>3. CASE ResetRow
    BY <2>3, PostMortemsAssumption DEF ResetRow, ThesisTypes
  <2>4. ASSUME NEW w \in Workers, StartTask(w) \/ Narrate(w) \/ SaveOutcome(w) PROVE ThesisTypes'
    BY <2>4 DEF StartTask, Narrate, SaveOutcome, ThesisTypes
  <2>5. ASSUME NEW w \in Workers, WorkerKilled(w) \/ TaskRaises(w) PROVE ThesisTypes'
    <3>1. worker[w].on \in Horizon
      BY <2>5 DEF WorkerKilled, TaskRaises, PostMortemsInv, RowTypes, AtRest
    <3> QED
      BY <2>5, <3>1 DEF WorkerKilled, TaskRaises, ThesisTypes
  <2>6. CASE ArchiveThesis \/ RestoreThesis \/ LoadThesis \/ SaveThesis \/ PurgeChecks \/ PurgeDeletes
    <3>1. thesis' \in [archived : BOOLEAN, editing : {"no", "listed", "archived"}, purging : BOOLEAN]
      <4>1. CASE ArchiveThesis \/ RestoreThesis \/ PurgeChecks
        BY <4>1 DEF ArchiveThesis, RestoreThesis, PurgeChecks, ThesisTypes
      <4>2. CASE LoadThesis
        BY <4>2 DEF LoadThesis, ThesisTypes
      <4>3. CASE SaveThesis
        <5>1. PICK was \in BOOLEAN : was = (thesis.editing = "archived")
          OBVIOUS
        <5>2. thesis' = [thesis EXCEPT !.archived = was, !.editing = "no"]
          BY <4>3, <5>1 DEF SaveThesis
        <5> QED
          BY <5>2 DEF ThesisTypes
      <4>4. CASE PurgeDeletes
        BY <4>4 DEF PurgeDeletes, NoThesisEdit
      <4> QED
        BY <2>6, <4>1, <4>2, <4>3, <4>4
    <3> QED
      BY <2>6, <3>1
      DEF ArchiveThesis, RestoreThesis, LoadThesis, SaveThesis, PurgeChecks, PurgeDeletes, ThesisTypes
  <2>7. CASE PostMortemTick \/ UNCHANGED postMortemsVars
    BY <2>7 DEF PostMortemTick, postMortemsVars, ThesisTypes
  <2> QED
    BY <2>1, <2>2, <2>3, <2>4, <2>5, <2>6, <2>7 DEF PostMortemsNext
<1>3. PostMortemsInv /\ ThesisTypes => PostMortemsTypeOK
  BY DEF PostMortemsInv, RowTypes, ThesisTypes, PostMortemsTypeOK
<1> QED
  BY <1>1, <1>2, <1>3, PostMortemsInvariance, PTL DEF PostMortemsSpec

-----------------------------------------------------------------------------
(* Captures                                                                *)

\* The verdict v is earned by s.
Earned(s, v) ==
    /\ imageIds[s] \ {Render} = ClientCaptures(s)
    /\ v = "ready" <=> \/ ClientCaptures(s) # {}
                       \/ \E k \in includes[s] : sections[s][k] = "done"

\* The type invariant, and the places of the task.
CaptureTypes ==
    /\ CapturesTypeOK
    /\ includes \in [Snapshots -> SUBSET SectionKinds]
    /\ capturing \in [Snapshots -> {"none", "claim", "fetch", "ready", "failed", "over"}]

\* Where a task is tells what has been claimed, filled in and decided.
CaptureStages ==
    \A s \in Snapshots :
        /\ snapshots[s] = "none" <=> capturing[s] = "none"
        /\ capturing[s] \in {"claim", "fetch", "ready", "failed"} => snapshots[s] = "pending"
        /\ capturing[s] \in {"none", "claim"} => \A i \in Screenshots : claimed[i] # s
        /\ capturing[s] \in {"none", "claim", "fetch"} => imageIds[s] \subseteq {Render}
        /\ capturing[s] \in {"ready", "failed"} => Earned(s, capturing[s])
        /\ snapshots[s] \in {"ready", "failed"} => Earned(s, snapshots[s])

\* The inductive invariant.
CapturesInv == CaptureTypes /\ CaptureStages

-----------------------------------------------------------------------------
\* Initially there is no snapshot.
LEMMA InitCaptures == CapturesInit => CapturesInv
  BY CapturesAssumption
  DEF CapturesInit, CapturesInv, CaptureTypes, CapturesTypeOK, CaptureStages

\* The stages of a snapshot no step is about stay as they are.
LEMMA StagesOfOthers ==
  ASSUME CapturesInv, NEW s \in Snapshots,
         \A t \in Snapshots \ {s} :
            /\ snapshots'[t] = snapshots[t] /\ capturing'[t] = capturing[t] /\ includes'[t] = includes[t]
            /\ sections'[t] = sections[t] /\ imageIds'[t] = imageIds[t]
            /\ \A i \in Screenshots : claimed'[i] = t <=> claimed[i] = t,
         /\ snapshots'[s] = "none" <=> capturing'[s] = "none"
         /\ capturing'[s] \in {"claim", "fetch", "ready", "failed"} => snapshots'[s] = "pending"
         /\ capturing'[s] \in {"none", "claim"} => \A i \in Screenshots : claimed'[i] # s
         /\ capturing'[s] \in {"none", "claim", "fetch"} => imageIds'[s] \subseteq {Render}
         /\ capturing'[s] \in {"ready", "failed"} => Earned(s, capturing[s])'
         /\ snapshots'[s] \in {"ready", "failed"} => Earned(s, snapshots[s])'
  PROVE  CaptureStages'
<1>1. ASSUME NEW t \in Snapshots, t # s
      PROVE  /\ snapshots'[t] = "none" <=> capturing'[t] = "none"
             /\ capturing'[t] \in {"claim", "fetch", "ready", "failed"} => snapshots'[t] = "pending"
             /\ capturing'[t] \in {"none", "claim"} => \A i \in Screenshots : claimed'[i] # t
             /\ capturing'[t] \in {"none", "claim", "fetch"} => imageIds'[t] \subseteq {Render}
             /\ capturing'[t] \in {"ready", "failed"} => Earned(t, capturing[t])'
             /\ snapshots'[t] \in {"ready", "failed"} => Earned(t, snapshots[t])'
  <2>1. ClientCaptures(t)' = ClientCaptures(t)
    BY <1>1 DEF ClientCaptures
  <2>2. /\ snapshots'[t] = snapshots[t] /\ capturing'[t] = capturing[t] /\ includes'[t] = includes[t]
        /\ sections'[t] = sections[t] /\ imageIds'[t] = imageIds[t]
    BY <1>1
  <2>3. /\ Earned(t, capturing[t])' <=> Earned(t, capturing[t])
        /\ Earned(t, snapshots[t])' <=> Earned(t, snapshots[t])
    BY <2>1, <2>2 DEF Earned
  <2>4. \A i \in Screenshots : claimed'[i] = t <=> claimed[i] = t
    BY <1>1
  <2> QED
    BY <2>2, <2>3, <2>4 DEF CapturesInv, CaptureStages
<1> QED
  BY <1>1 DEF CaptureStages

\* Every step keeps the stages.
LEMMA NextCaptures == CapturesInv /\ [CapturesNext]_capturesVars => CapturesInv'
<1> SUFFICES ASSUME CapturesInv, [CapturesNext]_capturesVars PROVE CapturesInv'
  OBVIOUS
<1>a. CaptureTypes /\ CapturesTypeOK /\ CaptureStages
  BY DEF CapturesInv, CaptureTypes
<1>1. CASE UNCHANGED capturesVars \/ \E i \in Screenshots : Upload(i)
  <2>1. UNCHANGED <<claimed, snapshots, includes, sections, imageIds, capturing>> /\ uploaded' \subseteq Screenshots
    BY <1>a, <1>1 DEF capturesVars, Upload, CapturesTypeOK
  <2> QED
    BY <1>a, <2>1
    DEF CapturesInv, CaptureTypes, CapturesTypeOK, CaptureStages, Earned, ClientCaptures
<1>2. ASSUME NEW s \in Snapshots, NEW wanted \in SUBSET SectionKinds, CreateSnapshot(s, wanted) PROVE CapturesInv'
  <2>1. CaptureTypes'
    BY <1>a, <1>2 DEF CreateSnapshot, CaptureTypes, CapturesTypeOK
  <2>2. /\ snapshots'[s] = "pending" /\ capturing'[s] = "claim" /\ UNCHANGED <<claimed, imageIds>>
        /\ capturing[s] = "none"
    BY <1>a, <1>2 DEF CreateSnapshot, CaptureTypes, CapturesTypeOK, CaptureStages
  <2>3. CaptureStages'
    BY <1>a, <1>2, <2>2, StagesOfOthers DEF CreateSnapshot, CaptureTypes, CapturesTypeOK, CaptureStages
  <2> QED
    BY <2>1, <2>3 DEF CapturesInv
<1>3. ASSUME NEW s \in Snapshots, NEW ids \in SUBSET Screenshots, ClaimImages(s, ids) PROVE CapturesInv'
  <2>1. CaptureTypes'
    BY <1>a, <1>3 DEF ClaimImages, CaptureTypes, CapturesTypeOK
  <2>2. /\ capturing[s] = "claim" /\ capturing'[s] = "fetch" /\ UNCHANGED <<snapshots, includes, sections, imageIds>>
        /\ \A t \in Snapshots \ {s} : capturing'[t] = capturing[t]
    BY <1>a, <1>3 DEF ClaimImages, CaptureTypes, CapturesTypeOK
  <2>3. \A t \in Snapshots \ {s} : \A i \in Screenshots : claimed'[i] = t <=> claimed[i] = t
    BY <1>a, <1>3, CapturesAssumption DEF ClaimImages, Free
  <2>4. CaptureStages'
    BY <1>a, <2>2, <2>3, StagesOfOthers DEF CaptureStages
  <2> QED
    BY <2>1, <2>4 DEF CapturesInv
<1>4. ASSUME NEW s \in Snapshots, NEW k \in SectionKinds, StartSection(s, k) \/ EndSection(s, k) PROVE CapturesInv'
  <2>1. CaptureTypes'
    <3>1. PICK st \in {"pending", "done", "failed"} : sections' = [sections EXCEPT ![s][k] = st]
      BY <1>4 DEF StartSection, EndSection
    <3>2. sections' \in [Snapshots -> [SectionKinds -> {"none", "pending", "done", "failed"}]]
      BY <1>a, <3>1 DEF CapturesTypeOK
    <3>3. imageIds' = imageIds \/ imageIds' = [imageIds EXCEPT ![s] = IF k = ImageKind THEN @ \cup {Render} ELSE @]
      BY <1>4 DEF StartSection, EndSection
    <3>4. imageIds' \in [Snapshots -> SUBSET (Screenshots \cup {Render})]
      BY <1>a, <3>3 DEF CapturesTypeOK
    <3>5. UNCHANGED <<uploaded, claimed, snapshots, includes, capturing>>
      BY <1>4 DEF StartSection, EndSection
    <3> QED
      BY <1>a, <3>2, <3>4, <3>5 DEF CaptureTypes, CapturesTypeOK
  <2>2. /\ capturing[s] = "fetch" /\ UNCHANGED <<claimed, snapshots, includes, capturing>>
        /\ \A t \in Snapshots \ {s} : sections'[t] = sections[t] /\ imageIds'[t] = imageIds[t]
        /\ imageIds'[s] \subseteq imageIds[s] \cup {Render}
    BY <1>a, <1>4 DEF StartSection, EndSection, CaptureTypes, CapturesTypeOK
  <2>3. CaptureStages'
    BY <1>a, <2>2, StagesOfOthers DEF CaptureStages
  <2> QED
    BY <2>1, <2>3 DEF CapturesInv
<1>5. ASSUME NEW s \in Snapshots, AttachImages(s) PROVE CapturesInv'
  <2> DEFINE verdict == IF Succeeded(s) \/ ClientCaptures(s) # {} THEN "ready" ELSE "failed"
  <2>1. CaptureTypes'
    <3>1. ClientCaptures(s) \subseteq Screenshots
      BY DEF ClientCaptures
    <3> QED
      <4>1. sections' \in [Snapshots -> [SectionKinds -> {"none", "pending", "done", "failed"}]]
        <5>1. \/ sections' = sections
              \/ sections' = [sections EXCEPT ![s][ImageKind] = "done"]
          BY <1>5 DEF AttachImages
        <5>2. ImageKind \in SectionKinds
          BY CapturesAssumption
        <5>3. CASE sections' = sections
          BY <1>a, <5>3 DEF CapturesTypeOK
        <5>4. CASE sections' = [sections EXCEPT ![s][ImageKind] = "done"]
          BY <1>a, <5>2, <5>4 DEF CapturesTypeOK
        <5> QED
          BY <5>1, <5>3, <5>4
      <4>2. imageIds' \in [Snapshots -> SUBSET (Screenshots \cup {Render})]
        BY <1>a, <1>5, <3>1 DEF AttachImages, CapturesTypeOK
      <4>3. /\ UNCHANGED <<uploaded, claimed, snapshots, includes>>
            /\ capturing' = [capturing EXCEPT ![s] = verdict]
        BY <1>5 DEF AttachImages
      <4> QED
        BY <1>a, <4>1, <4>2, <4>3 DEF CaptureTypes, CapturesTypeOK
  <2>2. /\ capturing[s] = "fetch" /\ capturing'[s] = verdict /\ UNCHANGED <<claimed, snapshots, includes>>
        /\ \A t \in Snapshots \ {s} :
            capturing'[t] = capturing[t] /\ sections'[t] = sections[t] /\ imageIds'[t] = imageIds[t]
        /\ IF ClientCaptures(s) = {} THEN UNCHANGED <<sections, imageIds>>
           ELSE imageIds'[s] = imageIds[s] \cup ClientCaptures(s)
    BY <1>a, <1>5 DEF AttachImages, CaptureTypes, CapturesTypeOK
  <2>3. ClientCaptures(s)' = ClientCaptures(s) /\ Render \notin ClientCaptures(s) /\ imageIds[s] \subseteq {Render}
    BY <1>a, <2>2, CapturesAssumption DEF ClientCaptures, CaptureStages
  <2>4. Earned(s, capturing[s])'
    <3>1. imageIds'[s] \ {Render} = ClientCaptures(s)
      BY <2>2, <2>3
    <3>2. CASE ClientCaptures(s) = {}
      BY <2>2, <2>3, <3>1, <3>2 DEF Earned, Succeeded
    <3>3. CASE ClientCaptures(s) # {}
      BY <2>2, <2>3, <3>1, <3>3 DEF Earned
    <3> QED
      BY <3>2, <3>3
  <2>5. CaptureStages'
    BY <1>a, <2>2, <2>4, StagesOfOthers DEF CaptureStages
  <2> QED
    BY <2>1, <2>5 DEF CapturesInv
<1>6. ASSUME NEW s \in Snapshots, FinishCapture(s) \/ LoseCapture(s) PROVE CapturesInv'
  <2>1. CaptureTypes'
    BY <1>a, <1>6 DEF FinishCapture, LoseCapture, CaptureTypes, CapturesTypeOK
  <2>2. /\ capturing[s] \notin {"none", "over"} /\ capturing'[s] = "over"
        /\ UNCHANGED <<claimed, includes, sections, imageIds>>
        /\ \A t \in Snapshots \ {s} : capturing'[t] = capturing[t] /\ snapshots'[t] = snapshots[t]
        /\ snapshots'[s] = snapshots[s] \/ (capturing[s] \in {"ready", "failed"} /\ snapshots'[s] = capturing[s])
    BY <1>a, <1>6 DEF FinishCapture, LoseCapture, CaptureTypes, CapturesTypeOK
  <2>3. snapshots[s] = "pending"
    BY <1>a, <2>2 DEF CaptureStages, CaptureTypes
  <2>4. snapshots'[s] \in {"ready", "failed"} => Earned(s, snapshots[s])'
    BY <1>a, <2>2, <2>3 DEF CaptureStages, Earned, ClientCaptures
  <2>5. CaptureStages'
    BY <2>2, <2>3, <2>4, StagesOfOthers
  <2> QED
    BY <2>1, <2>5 DEF CapturesInv
<1> QED
  BY <1>1, <1>2, <1>3, <1>4, <1>5, <1>6 DEF CapturesNext

-----------------------------------------------------------------------------
\* The types, for every set of snapshots, sections and screenshots.
THEOREM CapturesTypes == CapturesSpec => []CapturesTypeOK
<1>1. CapturesInv => CapturesTypeOK
  BY DEF CapturesInv, CaptureTypes
<1> QED
  BY <1>1, InitCaptures, NextCaptures, PTL DEF CapturesSpec

\* A snapshot with its verdict holds just the screenshots it claimed, and is ready just if it
\* has something that was asked for, whatever windows compete and whatever is lost.
THEOREM VerdictsEarned == CapturesSpec => []VerdictIsEarned
<1>1. CapturesInv => VerdictIsEarned
  BY DEF CapturesInv, CaptureStages, Earned, VerdictIsEarned
<1> QED
  BY <1>1, InitCaptures, NextCaptures, PTL DEF CapturesSpec

-----------------------------------------------------------------------------
(* CostCaps                                                                *)

(* DailyOvershoot is not inductive: that a row may still be recorded is    *)
(* paid for by the room it keeps while its run goes on.                    *)

\* A day that has not begun is empty; today keeps the room of the rows to come.
RoomKept ==
    /\ \A d \in SpendDay : d > today => spend[d] = 0
    /\ spend[today] + MaxCost * Cardinality(running)
         <= DailyCap + MaxCost * Cardinality(AllRows) + late.day

\* The inductive invariant.
CostCapsInv == CostCapsTypeOK /\ RoomKept

-----------------------------------------------------------------------------
\* A row costs at most MaxCost: the more rows, the more room.
LEMMA Rooms ==
  ASSUME NEW m \in Nat, NEW n \in Nat, m <= n
  PROVE  MaxCost * m \in Nat /\ MaxCost * n \in Nat /\ MaxCost * m <= MaxCost * n
<1>1. PICK k \in Nat : n = m + k
  <2>1. n - m \in Nat /\ n = m + (n - m)
    OBVIOUS
  <2> QED
    BY <2>1
<1>2. MaxCost \in Nat
  BY CostCapsAssumption
<1> QED
  BY <1>1, <1>2

\* The rows of all slots are finitely many, and so are those of any part of them.
LEMMA RowsFinite ==
  ASSUME NEW R, R \subseteq AllRows
  PROVE  /\ IsFiniteSet(R) /\ Cardinality(R) \in Nat
         /\ Cardinality(AllRows) \in Nat /\ Cardinality(R) <= Cardinality(AllRows)
<1>1. IsFiniteSet(1 .. MaxRows)
  BY CostCapsAssumption, FS_Interval
<1>2. IsFiniteSet(AllRows)
  BY <1>1, CostCapsAssumption, FS_Product DEF AllRows
<1> QED
  BY <1>2, FS_Subset, FS_CardinalityType

\* Fewer rows under way keep less room.
LEMMA FewerRows ==
  ASSUME NEW R, NEW P, R \subseteq P, P \subseteq AllRows
  PROVE  /\ MaxCost * Cardinality(R) \in Nat /\ MaxCost * Cardinality(P) \in Nat
         /\ MaxCost * Cardinality(R) <= MaxCost * Cardinality(P)
<1>1. IsFiniteSet(P) /\ Cardinality(P) \in Nat
  BY RowsFinite
<1>2. Cardinality(R) \in Nat /\ Cardinality(R) <= Cardinality(P)
  BY <1>1, FS_Subset, FS_CardinalityType
<1> QED
  BY <1>1, <1>2, Rooms

\* A row that is recorded gives its room back.
LEMMA OneRowLess ==
  ASSUME NEW r \in running, running \subseteq AllRows
  PROVE  /\ MaxCost * Cardinality(running \ {r}) \in Nat
         /\ MaxCost * Cardinality(running) = MaxCost * Cardinality(running \ {r}) + MaxCost
<1>1. IsFiniteSet(running) /\ Cardinality(running) \in Nat
  BY RowsFinite
<1>2. /\ IsFiniteSet(running \ {r})
      /\ Cardinality(running \ {r}) = Cardinality(running) - 1
  BY <1>1, FS_RemoveElement
<1>3. Cardinality(running \ {r}) \in Nat
  BY <1>2, FS_CardinalityType
<1>4. PICK n \in Nat : n = Cardinality(running \ {r}) /\ Cardinality(running) = n + 1
  BY <1>1, <1>2, <1>3
<1>5. MaxCost * (n + 1) = MaxCost * n + MaxCost /\ MaxCost * n \in Nat
  BY CostCapsAssumption
<1> QED
  BY <1>4, <1>5

\* The types are kept.
LEMMA CostCapsStepTypes == CostCapsTypeOK /\ [CostCapsNext]_costCapsVars => CostCapsTypeOK'
<1> SUFFICES ASSUME CostCapsTypeOK, [CostCapsNext]_costCapsVars PROVE CostCapsTypeOK'
  OBVIOUS
<1>1. ASSUME NEW s \in Slots, StartCapped(s, 0) PROVE CostCapsTypeOK'
  <2>1. running' \subseteq AllRows
    BY <1>1 DEF StartCapped, CostCapsTypeOK, RowsOf, AllRows
  <2> QED
    BY <1>1, <2>1 DEF StartCapped, CostCapsTypeOK
<1>2. ASSUME NEW s \in Slots, NEW n \in 1 .. MaxRows, NEW cost \in 0 .. MaxCost, RecordRun(s, n, cost)
      PROVE  CostCapsTypeOK'
  <2>1. cost \in Nat
    BY CostCapsAssumption
  <2> QED
    BY <1>2, <2>1 DEF RecordRun, CostCapsTypeOK
<1>3. ASSUME NEW s \in Slots, NEW n \in 1 .. MaxRows, RunUnrecorded(s, n) PROVE CostCapsTypeOK'
  BY <1>3 DEF RunUnrecorded, CostCapsTypeOK
<1>4. ASSUME NEW s \in Slots, SubmitBatch(s) PROVE CostCapsTypeOK'
  BY <1>4, CostCapsAssumption DEF SubmitBatch, CostCapsTypeOK
<1>5. ASSUME NEW cost \in 0 .. MaxCost, RecordResult(cost) PROVE CostCapsTypeOK'
  <2>1. cost \in Nat
    BY CostCapsAssumption
  <2>2. late' \in [day : Nat, month : Nat]
    BY <1>5, <2>1 DEF RecordResult, CostCapsTypeOK
  <2>3. polled' \in 0 .. MaxPolled
    BY <1>5, CostCapsAssumption DEF RecordResult, CostCapsTypeOK
  <2> QED
    BY <1>5, <2>1, <2>2, <2>3 DEF RecordResult, CostCapsTypeOK
<1>6. CASE BatchDone
  BY <1>6, CostCapsAssumption DEF BatchDone, CostCapsTypeOK
<1>7. CASE Midnight
  <2>1. today' \in SpendDay
    BY <1>7, CostCapsAssumption DEF Midnight, CostCapsTypeOK, SpendDay
  <2>2. late' \in [day : Nat, month : Nat]
    BY <1>7 DEF Midnight, CostCapsTypeOK
  <2>3. UNCHANGED <<spend, running, submitted, polled>>
    BY <1>7 DEF Midnight
  <2> QED
    BY <2>1, <2>2, <2>3 DEF CostCapsTypeOK
<1>8. CASE UNCHANGED costCapsVars
  BY <1>8 DEF costCapsVars, CostCapsTypeOK
<1> QED
  BY <1>1, <1>2, <1>3, <1>4, <1>5, <1>6, <1>7, <1>8 DEF CostCapsNext

\* Initially nothing is spent.
LEMMA InitRoom == CostCapsInit => CostCapsInv
<1> SUFFICES ASSUME CostCapsInit PROVE CostCapsInv
  OBVIOUS
<1>1. CostCapsTypeOK
  BY CostCapsAssumption DEF CostCapsInit, CostCapsTypeOK, SpendDay
<1>2. Cardinality(running) = 0 /\ MaxCost * Cardinality(AllRows) \in Nat
  BY <1>1, FS_EmptySet, RowsFinite, CostCapsAssumption DEF CostCapsInit, CostCapsTypeOK
<1>3. MaxCost * 0 = 0 /\ DailyCap \in Nat
  BY CostCapsAssumption
<1> QED
  BY <1>1, <1>2, <1>3 DEF CostCapsInit, CostCapsInv, RoomKept, CostCapsTypeOK

\* A run keeps its room from the check until its rows are recorded or lost; at midnight
\* the rooms move to a day that is empty.
LEMMA NextRoom == CostCapsInv /\ [CostCapsNext]_costCapsVars => CostCapsInv'
<1> SUFFICES ASSUME CostCapsInv, [CostCapsNext]_costCapsVars PROVE RoomKept'
  BY CostCapsStepTypes DEF CostCapsInv
<1> DEFINE All == MaxCost * Cardinality(AllRows)
           owing == MaxCost * Cardinality(running)
           owed == MaxCost * Cardinality(running')
<1>a. CostCapsTypeOK /\ CostCapsTypeOK' /\ RoomKept
  BY CostCapsStepTypes DEF CostCapsInv
<1>b. /\ owing \in Nat /\ owed \in Nat /\ All \in Nat /\ owing <= All /\ owed <= All
      /\ running' \subseteq running => owed <= owing
  BY <1>a, FewerRows DEF CostCapsTypeOK
<1>c. /\ DailyCap \in Nat /\ spend[today] \in Nat /\ late.day \in Nat
      /\ spend[today] + owing <= DailyCap + All + late.day
  BY <1>a, CostCapsAssumption DEF CostCapsTypeOK, RoomKept
<1>d. ASSUME \A d \in SpendDay : d > today' => spend'[d] = 0,
             spend'[today'] + owed <= DailyCap + All + late'.day
      PROVE  RoomKept'
  BY <1>d DEF RoomKept
<1>1. ASSUME NEW s \in Slots, StartCapped(s, 0)
      PROVE  RoomKept'
  <2>1. spend[today] <= DailyCap /\ late'.day = 0 /\ UNCHANGED <<today, spend>>
    BY <1>1, <1>c DEF StartCapped, WithinCaps, DailySpend
  <2>2. \A d \in SpendDay : d > today' => spend'[d] = 0
    BY <1>a, <2>1 DEF RoomKept
  <2> HIDE DEF All, owing, owed
  <2>3. spend'[today'] + owed <= DailyCap + All + late'.day
    BY <1>b, <1>c, <2>1
  <2> QED
    BY <1>d, <2>2, <2>3
<1>2. ASSUME NEW s \in Slots, NEW n \in 1 .. MaxRows, NEW cost \in 0 .. MaxCost, RecordRun(s, n, cost)
      PROVE  RoomKept'
  <2>1. /\ <<s, n>> \in running /\ running' = running \ {<<s, n>>} /\ UNCHANGED <<today, late>>
        /\ spend' = [spend EXCEPT ![today] = @ + cost] /\ cost \in Nat /\ cost <= MaxCost
    BY <1>2, CostCapsAssumption DEF RecordRun
  <2>2. owing = owed + MaxCost /\ MaxCost \in Nat
    BY <1>a, <2>1, OneRowLess, CostCapsAssumption DEF CostCapsTypeOK
  <2>3. spend'[today'] = spend[today] + cost
    BY <1>a, <2>1 DEF CostCapsTypeOK
  <2>4. \A d \in SpendDay : d > today' => spend'[d] = 0
    BY <1>a, <2>1 DEF RoomKept, CostCapsTypeOK, SpendDay
  <2> HIDE DEF All, owing, owed
  <2>5. spend'[today'] + owed <= DailyCap + All + late'.day
    BY <1>b, <1>c, <2>1, <2>2, <2>3
  <2> QED
    BY <1>d, <2>4, <2>5
<1>3. ASSUME running' \subseteq running, UNCHANGED <<today, spend, late>>
      PROVE  RoomKept'
  <2>1. \A d \in SpendDay : d > today' => spend'[d] = 0
    BY <1>a, <1>3 DEF RoomKept
  <2> HIDE DEF All, owing, owed
  <2>2. spend'[today'] + owed <= DailyCap + All + late'.day
    BY <1>b, <1>c, <1>3
  <2> QED
    BY <1>d, <2>1, <2>2
<1>4. ASSUME NEW cost \in 0 .. MaxCost, RecordResult(cost)
      PROVE  RoomKept'
  <2>1. /\ UNCHANGED <<today, running>> /\ spend' = [spend EXCEPT ![today] = @ + cost]
        /\ late' = [day |-> late.day + cost, month |-> late.month + cost] /\ cost \in Nat
    BY <1>4, CostCapsAssumption DEF RecordResult
  <2>2. spend'[today'] = spend[today] + cost /\ late'.day = late.day + cost
    BY <1>a, <2>1 DEF CostCapsTypeOK
  <2>3. \A d \in SpendDay : d > today' => spend'[d] = 0
    BY <1>a, <2>1 DEF RoomKept, CostCapsTypeOK, SpendDay
  <2>4. owed = owing
    BY <2>1
  <2> HIDE DEF All, owing, owed
  <2>5. spend'[today'] + owed <= DailyCap + All + late'.day
    BY <1>b, <1>c, <2>1, <2>2, <2>4
  <2> QED
    BY <1>d, <2>3, <2>5
<1>5. CASE Midnight
  <2>1. today' = today + 1 /\ UNCHANGED <<spend, running>> /\ late'.day = 0
    BY <1>5, <1>a DEF Midnight, CostCapsTypeOK
  <2>2. spend'[today'] = 0 /\ \A d \in SpendDay : d > today' => spend'[d] = 0
    BY <1>a, <2>1 DEF RoomKept, CostCapsTypeOK, SpendDay
  <2> HIDE DEF All, owing, owed
  <2>3. spend'[today'] + owed <= DailyCap + All + late'.day
    BY <1>b, <1>c, <2>1, <2>2
  <2> QED
    BY <1>d, <2>2, <2>3
<1>6. ASSUME BatchDone \/ UNCHANGED costCapsVars
      PROVE  RoomKept'
  BY <1>3, <1>6 DEF BatchDone, costCapsVars
<1>7. ASSUME NEW s \in Slots, SubmitBatch(s) \/ \E n \in 1 .. MaxRows : RunUnrecorded(s, n)
      PROVE  RoomKept'
  BY <1>3, <1>7 DEF SubmitBatch, RunUnrecorded
<1> QED
  BY <1>1, <1>2, <1>4, <1>5, <1>6, <1>7 DEF CostCapsNext

\* The inductive invariant holds of every behaviour.
LEMMA CostCapsInvariance == CostCapsSpec => []CostCapsInv
  BY InitRoom, NextRoom, PTL DEF CostCapsSpec

-----------------------------------------------------------------------------
\* The day, the ledger, the rows under way and the batches stay in their ranges
\* (cost.py keeps no other state).
THEOREM CostCapsTypes == CostCapsSpec => []CostCapsTypeOK
  BY CostCapsInvariance, PTL DEF CostCapsInv

\* A day's ledger passes the daily cap by the rows of one run of each slot, and by the
\* batch results recorded since the cap last let a run in, and by no more, for every
\* number of slots, of batches and of polls, and every cap: check_daily_cap holds back
\* all but the runs that had passed it before, and poll_batch asks no cap.
THEOREM OvershootBounded == CostCapsSpec => []DailyOvershoot
<1>1. CostCapsInv => DailyOvershoot
  <2> SUFFICES ASSUME CostCapsInv PROVE DailyOvershoot
    OBVIOUS
  <2> DEFINE All == MaxCost * Cardinality(AllRows)
             owing == MaxCost * Cardinality(running)
  <2>1. owing \in Nat /\ All \in Nat
    BY FewerRows DEF CostCapsInv, CostCapsTypeOK
  <2>2. /\ spend[today] \in Nat /\ late.day \in Nat /\ DailyCap \in Nat
        /\ spend[today] + owing <= DailyCap + All + late.day
    BY CostCapsAssumption DEF CostCapsInv, CostCapsTypeOK, RoomKept
  <2> HIDE DEF All, owing
  <2>3. spend[today] <= DailyCap + All + late.day
    BY <2>1, <2>2
  <2> QED
    BY <2>3 DEF All, DailyOvershoot, DailySpend
<1> QED
  BY <1>1, CostCapsInvariance, PTL

-----------------------------------------------------------------------------
(* The rolling month. Its sum is a recursive function of the day it begins *)
(* on, spendFrom: what is needed of it is proved from its equation, day by *)
(* day from the last one back.                                             *)

\* g sums the ledger s, from each day up to day t.
Sums(g, t, s) ==
    g = [first \in 1 .. LastDay + 1 |-> IF first > t THEN 0 ELSE s[first] + g[first + 1]]

\* A set of days that holds the last one, and with a day the one before, holds all.
LEMMA DayByDay ==
  ASSUME NEW n \in Nat \ {0}, NEW S, n \in S, \A i \in 1 .. n - 1 : i + 1 \in S => i \in S
  PROVE  1 .. n \subseteq S
<1> DEFINE Missed == {k \in 0 .. n - 1 : n - k \notin S}
<1> SUFFICES ASSUME Missed # {} PROVE FALSE
  <2> SUFFICES ASSUME NEW i \in 1 .. n, i \notin S, Missed = {} PROVE FALSE
    OBVIOUS
  <2>1. n - i \in 0 .. n - 1 /\ n - (n - i) = i
    OBVIOUS
  <2> QED
    BY <2>1
<1>1. Missed \in SUBSET Nat
  OBVIOUS
<1>2. PICK k \in Missed : \A m \in Missed : k <= m
  BY <1>1, SmallestNat
<1>3. k \in 0 .. n - 1 /\ n - k \notin S
  OBVIOUS
<1>4. k # 0
  BY <1>3
<1>5. k - 1 \in 0 .. n - 1 /\ k - 1 < k /\ n - k \in 1 .. n - 1 /\ n - (k - 1) = (n - k) + 1 /\ k - 1 \in Nat /\ k \in Nat
  BY <1>3, <1>4
<1>6. n - (k - 1) \notin S
  BY <1>3, <1>5
<1>7. k - 1 \in Missed
  BY <1>5, <1>6
<1> QED
  BY <1>2, <1>5, <1>7

\* The equation of such a sum, day by day.
LEMMA SumEquation ==
  ASSUME NEW t \in SpendDay, NEW s \in [SpendDay -> Nat], NEW g, Sums(g, t, s)
  PROVE  /\ \A i \in 1 .. LastDay + 1 : i > t => g[i] = 0
         /\ \A i \in 1 .. LastDay + 1 : i <= t => i \in SpendDay /\ i + 1 \in 1 .. LastDay + 1
         /\ \A i \in 1 .. LastDay + 1 : i <= t => g[i] = s[i] + g[i + 1]
         /\ \A i \in 1 .. LastDay + 1 : g[i] \in Nat
<1>a. LastDay \in Nat \ {0} /\ t \in 1 .. LastDay
  BY CostCapsAssumption DEF SpendDay
<1>0. \A i \in 1 .. LastDay + 1 : g[i] = IF i > t THEN 0 ELSE s[i] + g[i + 1]
  BY DEF Sums
<1>1. \A i \in 1 .. LastDay + 1 : i > t => g[i] = 0
  BY <1>0
<1>2. \A i \in 1 .. LastDay + 1 : i <= t => i \in SpendDay /\ i + 1 \in 1 .. LastDay + 1 /\ ~(i > t)
  BY <1>a DEF SpendDay
<1>3. \A i \in 1 .. LastDay + 1 : i <= t => g[i] = s[i] + g[i + 1]
  BY <1>0, <1>2
<1> DEFINE S == {i \in 1 .. LastDay + 1 : g[i] \in Nat}
<1>4. LastDay + 1 \in S
  <2>1. LastDay + 1 \in 1 .. LastDay + 1 /\ LastDay + 1 > t
    BY <1>a
  <2> QED
    BY <1>1, <2>1
<1>5. ASSUME NEW i \in 1 .. (LastDay + 1) - 1, i + 1 \in S PROVE i \in S
  <2>1. i \in 1 .. LastDay + 1 /\ i \in Nat /\ t \in Nat
    BY <1>a
  <2>2. CASE i > t
    BY <1>1, <2>1, <2>2
  <2>3. CASE i <= t
    <3>1. g[i] = s[i] + g[i + 1] /\ s[i] \in Nat /\ g[i + 1] \in Nat
      BY <1>2, <1>3, <1>5, <2>1, <2>3
    <3> QED
      BY <2>1, <3>1
  <2> QED
    BY <2>1, <2>2, <2>3
<1>6. 1 .. LastDay + 1 \subseteq S
  <2>1. LastDay + 1 \in Nat \ {0}
    BY <1>a
  <2> HIDE DEF S
  <2> QED
    BY <1>4, <1>5, <2>1, DayByDay
<1> QED
  BY <1>1, <1>2, <1>3, <1>6

\* There is a sum for every ledger: the days it can be given from reach back to the
\* first.
LEMMA SumsExist ==
  ASSUME NEW t \in SpendDay, NEW s \in [SpendDay -> Nat]
  PROVE  \E g : Sums(g, t, s)
<1> DEFINE From(i, g) == g = [first \in i .. LastDay + 1 |->
                                 IF first > t THEN 0 ELSE s[first] + g[first + 1]]
<1> DEFINE S == {i \in 1 .. LastDay + 1 : \E g : From(i, g)}
<1>a. LastDay \in Nat \ {0} /\ t \in 1 .. LastDay
  BY CostCapsAssumption DEF SpendDay
<1>1. LastDay + 1 \in S
  <2>1. From(LastDay + 1, [first \in LastDay + 1 .. LastDay + 1 |-> 0])
    BY <1>a
  <2> QED
    BY <1>a, <2>1
<1>2. ASSUME NEW i \in 1 .. (LastDay + 1) - 1, i + 1 \in S PROVE i \in S
  <2>1. PICK g : From(i + 1, g)
    BY <1>2
  <2> DEFINE h == [first \in i .. LastDay + 1 |->
                     IF first = i THEN (IF i > t THEN 0 ELSE s[i] + g[i + 1]) ELSE g[first]]
  <2>2. ASSUME NEW first \in i .. LastDay + 1
        PROVE  h[first] = IF first > t THEN 0 ELSE s[first] + h[first + 1]
    <3>1. CASE first = i
      <4>1. i + 1 \in i .. LastDay + 1 /\ i + 1 # i
        BY <1>a
      <4>2. h[i + 1] = g[i + 1]
        BY <4>1
      <4> QED
        BY <3>1, <4>2
    <3>2. CASE first # i
      <4>1. first \in i + 1 .. LastDay + 1 /\ first + 1 # i
        BY <1>a, <3>2
      <4>2. h[first] = g[first]
        BY <3>2
      <4>3. g[first] = IF first > t THEN 0 ELSE s[first] + g[first + 1]
        BY <2>1, <4>1
      <4>4. ~(first > t) => first + 1 \in i .. LastDay + 1
        BY <1>a, <4>1
      <4>5. ~(first > t) => h[first + 1] = g[first + 1]
        BY <4>1, <4>4
      <4> QED
        BY <4>2, <4>3, <4>5
    <3> QED
      BY <3>1, <3>2
  <2>3. From(i, h)
    BY <2>2
  <2>4. i \in 1 .. LastDay + 1
    BY <1>a
  <2> QED
    BY <2>3, <2>4
<1>3. 1 .. LastDay + 1 \subseteq S
  <2>1. LastDay + 1 \in Nat \ {0}
    BY <1>a
  <2> HIDE DEF S
  <2> QED
    BY <1>1, <1>2, <2>1, DayByDay
<1>4. 1 \in 1 .. LastDay + 1
  BY <1>a
<1>5. \E g : From(1, g)
  BY <1>3, <1>4
<1> QED
  BY <1>5 DEF Sums

\* monthly_spend_usd computes the sum of the ledger.
LEMMA SpendSums == CostCapsTypeOK => Sums(spendFrom, today, spend)
<1> SUFFICES ASSUME CostCapsTypeOK PROVE Sums(spendFrom, today, spend)
  OBVIOUS
<1>1. PICK g : Sums(g, today, spend)
  BY SumsExist DEF CostCapsTypeOK
<1>2. spendFrom = CHOOSE f : Sums(f, today, spend)
  BY DEF spendFrom, Sums
<1> QED
  BY <1>1, <1>2

\* The same of the sum after a step.
LEMMA SpendSumsNext == CostCapsTypeOK' => Sums(spendFrom', today', spend')
<1>1. (CostCapsTypeOK => Sums(spendFrom, today, spend))'
  BY SpendSums, PTL
<1> QED
  BY <1>1 DEF Sums

\* A cost recorded on day t adds itself to every sum that reaches t.
LEMMA SumOfRecorded ==
  ASSUME NEW t \in SpendDay, NEW s \in [SpendDay -> Nat], NEW c \in Nat, NEW g, NEW h,
         NEW r \in [SpendDay -> Nat],
         r[t] = s[t] + c, \A i \in SpendDay : i # t => r[i] = s[i], Sums(g, t, s), Sums(h, t, r)
  PROVE  \A i \in 1 .. t : h[i] = g[i] + c
<1>a. LastDay \in Nat \ {0} /\ t \in 1 .. LastDay /\ t \in Nat \ {0}
  BY CostCapsAssumption DEF SpendDay
<1>b. /\ \A i \in 1 .. LastDay + 1 : i > t => h[i] = 0
      /\ \A i \in 1 .. LastDay + 1 : i <= t => h[i] = r[i] + h[i + 1]
  BY SumEquation
<1>1. /\ \A i \in 1 .. LastDay + 1 : i > t => g[i] = 0 /\ h[i] = 0
      /\ \A i \in 1 .. LastDay + 1 : i <= t => g[i] = s[i] + g[i + 1] /\ h[i] = r[i] + h[i + 1]
      /\ \A i \in 1 .. LastDay + 1 : g[i] \in Nat
  BY <1>b, SumEquation
<1> DEFINE S == {i \in 1 .. t : h[i] = g[i] + c}
<1>2. t \in S
  <2>1. t \in 1 .. LastDay + 1 /\ t + 1 \in 1 .. LastDay + 1 /\ t + 1 > t /\ t <= t /\ t \in 1 .. t
    BY <1>a
  <2>2. g[t] = s[t] + g[t + 1] /\ h[t] = r[t] + h[t + 1] /\ g[t + 1] = 0 /\ h[t + 1] = 0
    BY <1>1, <2>1
  <2>3. s[t] \in Nat
    OBVIOUS
  <2> QED
    BY <2>1, <2>2, <2>3
<1>3. ASSUME NEW i \in 1 .. t - 1, i + 1 \in S PROVE i \in S
  <2>1. i \in 1 .. t /\ i \in 1 .. LastDay + 1 /\ i + 1 \in 1 .. LastDay + 1 /\ i <= t /\ i # t /\ i \in SpendDay
    BY <1>a DEF SpendDay
  <2>2. g[i] = s[i] + g[i + 1] /\ h[i] = r[i] + h[i + 1] /\ r[i] = s[i] /\ g[i + 1] \in Nat
    BY <1>1, <2>1
  <2>3. h[i + 1] = g[i + 1] + c /\ s[i] \in Nat
    BY <1>3, <2>1
  <2> QED
    BY <2>1, <2>2, <2>3
<1>4. 1 .. t \subseteq S
  <2> HIDE DEF S
  <2> QED
    BY <1>a, <1>2, <1>3, DayByDay
<1> QED
  BY <1>4

\* At midnight the day that begins adds nothing, being empty.
LEMMA SumAtMidnight ==
  ASSUME NEW t \in SpendDay, NEW s \in [SpendDay -> Nat], NEW g, NEW h, t < LastDay,
         s[t + 1] = 0, Sums(g, t, s), Sums(h, t + 1, s)
  PROVE  \A i \in 1 .. t + 1 : h[i] = g[i]
<1>a. LastDay \in Nat \ {0} /\ t \in 1 .. LastDay /\ t \in Nat \ {0} /\ t + 1 \in SpendDay
  BY CostCapsAssumption DEF SpendDay
<1>1. /\ \A i \in 1 .. LastDay + 1 : i > t => g[i] = 0
      /\ \A i \in 1 .. LastDay + 1 : i <= t => g[i] = s[i] + g[i + 1]
  BY SumEquation
<1>2. /\ \A i \in 1 .. LastDay + 1 : i > t + 1 => h[i] = 0
      /\ \A i \in 1 .. LastDay + 1 : i <= t + 1 => h[i] = s[i] + h[i + 1]
  BY <1>a, SumEquation
<1> DEFINE S == {i \in 1 .. t + 1 : h[i] = g[i]}
<1>3. t + 1 \in S
  <2>1. /\ t + 1 \in 1 .. LastDay + 1 /\ (t + 1) + 1 \in 1 .. LastDay + 1
        /\ t + 1 > t /\ (t + 1) + 1 > t + 1 /\ t + 1 <= t + 1 /\ t + 1 \in 1 .. t + 1
    BY <1>a DEF SpendDay
  <2>2. g[t + 1] = 0 /\ h[t + 1] = s[t + 1] + h[(t + 1) + 1] /\ h[(t + 1) + 1] = 0
    BY <1>1, <1>2, <2>1
  <2> QED
    BY <2>1, <2>2
<1>4. ASSUME NEW i \in 1 .. (t + 1) - 1, i + 1 \in S PROVE i \in S
  <2>1. i \in 1 .. t + 1 /\ i \in 1 .. LastDay + 1 /\ i <= t /\ i <= t + 1
    BY <1>a
  <2>2. g[i] = s[i] + g[i + 1] /\ h[i] = s[i] + h[i + 1]
    BY <1>1, <1>2, <2>1
  <2> QED
    BY <1>4, <2>1, <2>2
<1>5. 1 .. t + 1 \subseteq S
  <2>1. t + 1 \in Nat \ {0}
    BY <1>a
  <2> HIDE DEF S
  <2> QED
    BY <1>3, <1>4, <2>1, DayByDay
<1> QED
  BY <1>5

(* MonthlyOvershoot is inductive with the room of the runs under way, as   *)
(* the daily bound is; a day that leaves the window only lowers the sum.   *)

\* The room of the month is kept by what its rows may still add.
MonthRoom ==
    MonthlyCap # NoCap =>
        MonthlySpend + MaxCost * Cardinality(running)
          <= MonthlyCap + MaxCost * Cardinality(AllRows) + late.month

\* The window begins on a day that has begun.
LEMMA WindowBegins ==
  ASSUME NEW t \in SpendDay
  PROVE  /\ t < Window => 1 \in 1 .. t
         /\ ~(t < Window) => t - Window + 1 \in 1 .. t
  BY CostCapsAssumption DEF SpendDay

\* The spend of the month is a natural number.
LEMMA MonthIsNat == CostCapsTypeOK => MonthlySpend \in Nat /\ WindowStart \in 1 .. today
<1> SUFFICES ASSUME CostCapsTypeOK PROVE MonthlySpend \in Nat /\ WindowStart \in 1 .. today
  OBVIOUS
<1>1. WindowStart \in 1 .. today
  BY WindowBegins DEF WindowStart, CostCapsTypeOK
<1>2. WindowStart \in 1 .. LastDay + 1
  BY <1>1, CostCapsAssumption DEF CostCapsTypeOK, SpendDay
<1>3. Sums(spendFrom, today, spend)
  BY SpendSums
<1>4. \A i \in 1 .. LastDay + 1 : spendFrom[i] \in Nat
  BY <1>3, SumEquation DEF CostCapsTypeOK
<1> QED
  BY <1>1, <1>2, <1>4 DEF MonthlySpend

\* The same after a step.
LEMMA MonthIsNatNext == CostCapsTypeOK' => (MonthlySpend)' \in Nat
<1>1. (CostCapsTypeOK => MonthlySpend \in Nat /\ WindowStart \in 1 .. today)'
  BY MonthIsNat, PTL
<1> QED
  BY <1>1

\* Initially the month is empty.
LEMMA InitMonth == CostCapsInit => MonthRoom
<1> SUFFICES ASSUME CostCapsInit PROVE MonthRoom
  OBVIOUS
<1>1. CostCapsTypeOK
  BY InitRoom DEF CostCapsInv
<1>2. today = 1 /\ spend \in [SpendDay -> Nat] /\ today \in SpendDay /\ spend[1] = 0 /\ 1 \in SpendDay
  BY <1>1, CostCapsAssumption DEF CostCapsInit, CostCapsTypeOK, SpendDay
<1>3. WindowStart = 1
  BY <1>1, <1>2, MonthIsNat
<1>4. Sums(spendFrom, today, spend)
  BY <1>1, SpendSums
<1>5. 1 \in 1 .. LastDay + 1 /\ 2 \in 1 .. LastDay + 1 /\ 1 + 1 = 2 /\ 2 > 1 /\ 1 <= 1
  BY CostCapsAssumption
<1>6. spendFrom[1] = spend[1] + spendFrom[1 + 1] /\ spendFrom[2] = 0
  BY <1>2, <1>4, <1>5, SumEquation
<1>7. MonthlySpend = 0
  BY <1>2, <1>3, <1>5, <1>6 DEF MonthlySpend
<1>8. Cardinality(running) = 0 /\ MaxCost * Cardinality(AllRows) \in Nat
  BY FS_EmptySet, RowsFinite, CostCapsAssumption, <1>1 DEF CostCapsInit, CostCapsTypeOK
<1>9. MaxCost * 0 = 0 /\ late.month = 0
  BY CostCapsAssumption DEF CostCapsInit
<1> QED
  BY <1>7, <1>8, <1>9, CostCapsAssumption DEF MonthRoom

\* What is recorded today enters the month once.
LEMMA MonthRecorded ==
  ASSUME CostCapsTypeOK, CostCapsTypeOK', NEW cost \in Nat,
         today' = today, spend'[today] = spend[today] + cost,
         \A i \in SpendDay : i # today => spend'[i] = spend[i]
  PROVE  (MonthlySpend)' = MonthlySpend + cost
<1>1. /\ today \in SpendDay /\ spend \in [SpendDay -> Nat]
      /\ Sums(spendFrom, today, spend) /\ Sums(spendFrom', today', spend')
  BY SpendSums, SpendSumsNext DEF CostCapsTypeOK
<1>2. \A i \in 1 .. today : (spendFrom')[i] = spendFrom[i] + cost
  <2>1. Sums(spendFrom', today, spend')
    BY <1>1
  <2>2. spend' \in [SpendDay -> Nat]
    BY DEF CostCapsTypeOK
  <2> QED
    BY <1>1, <2>1, <2>2, SumOfRecorded
<1>3. WindowStart' = WindowStart /\ WindowStart \in 1 .. today
  BY MonthIsNat DEF WindowStart
<1> QED
  BY <1>2, <1>3 DEF MonthlySpend

\* A run is let in while the month is within its cap; what its rows then cost was in
\* their room; midnight adds nothing and may take a day away.
LEMMA NextMonth == CostCapsInv /\ MonthRoom /\ [CostCapsNext]_costCapsVars => MonthRoom'
<1> SUFFICES ASSUME CostCapsInv, MonthRoom, [CostCapsNext]_costCapsVars, MonthlyCap # NoCap
             PROVE  (MonthlySpend)' + MaxCost * Cardinality(running')
                       <= MonthlyCap + MaxCost * Cardinality(AllRows) + late'.month
  BY DEF MonthRoom
<1> DEFINE All == MaxCost * Cardinality(AllRows)
           owing == MaxCost * Cardinality(running)
           owed == MaxCost * Cardinality(running')
<1>a. CostCapsTypeOK /\ RoomKept /\ CostCapsTypeOK'
  BY NextRoom DEF CostCapsInv
<1>b. /\ owing \in Nat /\ owed \in Nat /\ All \in Nat /\ owing <= All /\ owed <= All
      /\ running' \subseteq running => owed <= owing
  BY <1>a, FewerRows DEF CostCapsTypeOK
<1>c. MonthlySpend \in Nat /\ (MonthlySpend)' \in Nat /\ WindowStart \in 1 .. today
  BY <1>a, MonthIsNat, MonthIsNatNext
<1>d. /\ MonthlyCap \in Nat /\ late.month \in Nat
      /\ MonthlySpend + owing <= MonthlyCap + All + late.month
  BY <1>a, CostCapsAssumption DEF MonthRoom, CostCapsTypeOK
<1>e. /\ today \in SpendDay /\ spend \in [SpendDay -> Nat]
      /\ Sums(spendFrom, today, spend) /\ Sums(spendFrom', today', spend')
  BY <1>a, SpendSums, SpendSumsNext DEF CostCapsTypeOK
<1>f. UNCHANGED <<today, spend>> => (MonthlySpend)' = MonthlySpend
  BY DEF MonthlySpend, WindowStart, spendFrom
<1>1. ASSUME NEW s \in Slots, StartCapped(s, 0)
      PROVE  (MonthlySpend)' + owed <= MonthlyCap + All + late'.month
  <2>1. MonthlySpend + 0 <= MonthlyCap /\ UNCHANGED <<today, spend>> /\ late'.month = 0
    BY <1>1 DEF StartCapped, WithinCaps
  <2> HIDE DEF All, owing, owed
  <2> QED
    BY <1>b, <1>c, <1>d, <1>f, <2>1
<1>2. ASSUME NEW s \in Slots, NEW n \in 1 .. MaxRows, NEW cost \in 0 .. MaxCost, RecordRun(s, n, cost)
      PROVE  (MonthlySpend)' + owed <= MonthlyCap + All + late'.month
  <2>1. /\ <<s, n>> \in running /\ running' = running \ {<<s, n>>} /\ UNCHANGED <<today, late>>
        /\ spend' = [spend EXCEPT ![today] = @ + cost] /\ cost \in Nat /\ cost <= MaxCost
    BY <1>2, CostCapsAssumption DEF RecordRun
  <2>2. owing = owed + MaxCost /\ MaxCost \in Nat
    BY <1>a, <2>1, OneRowLess, CostCapsAssumption DEF CostCapsTypeOK
  <2>3. (MonthlySpend)' = MonthlySpend + cost
    <3>1. /\ spend'[today] = spend[today] + cost
          /\ \A i \in SpendDay : i # today => spend'[i] = spend[i]
      BY <1>e, <2>1
    <3> QED
      BY <1>a, <2>1, <3>1, MonthRecorded
  <2>4. late'.month = late.month
    BY <2>1
  <2> HIDE DEF All, owing, owed
  <2> QED
    BY <1>b, <1>c, <1>d, <2>1, <2>2, <2>3, <2>4
<1>3. ASSUME running' \subseteq running, UNCHANGED <<today, spend, late>>
      PROVE  (MonthlySpend)' + owed <= MonthlyCap + All + late'.month
  <2> HIDE DEF All, owing, owed
  <2> QED
    BY <1>3, <1>b, <1>c, <1>d, <1>f
<1>4. ASSUME NEW cost \in 0 .. MaxCost, RecordResult(cost)
      PROVE  (MonthlySpend)' + owed <= MonthlyCap + All + late'.month
  <2>1. /\ UNCHANGED <<today, running>> /\ spend' = [spend EXCEPT ![today] = @ + cost]
        /\ late' = [day |-> late.day + cost, month |-> late.month + cost] /\ cost \in Nat
    BY <1>4, CostCapsAssumption DEF RecordResult
  <2>2. (MonthlySpend)' = MonthlySpend + cost /\ late'.month = late.month + cost /\ owed = owing
    <3>1. /\ spend'[today] = spend[today] + cost
          /\ \A i \in SpendDay : i # today => spend'[i] = spend[i]
      BY <1>e, <2>1
    <3> QED
      BY <1>a, <2>1, <3>1, MonthRecorded
  <2> HIDE DEF All, owing, owed
  <2> QED
    BY <1>b, <1>c, <1>d, <2>1, <2>2
<1>5. CASE Midnight
  <2>1. /\ today < LastDay /\ today' = today + 1 /\ spend' = spend /\ running' = running
        /\ late'.month = late.month
    BY <1>5, <1>a DEF Midnight, CostCapsTypeOK
  <2>2. today + 1 \in SpendDay /\ spend[today + 1] = 0
    BY <1>a, <2>1, CostCapsAssumption DEF RoomKept, CostCapsTypeOK, SpendDay
  <2>3. \A i \in 1 .. today + 1 : (spendFrom')[i] = spendFrom[i]
    <3>1. Sums(spendFrom', today + 1, spend)
      BY <1>e, <2>1
    <3> QED
      BY <1>e, <2>1, <2>2, <3>1, SumAtMidnight
  <2>4. (WindowStart' = WindowStart \/ WindowStart' = WindowStart + 1) /\ WindowStart' \in 1 .. today + 1
    BY <1>e, <2>1, CostCapsAssumption DEF WindowStart, SpendDay
  <2>5. spendFrom[WindowStart + 1] <= spendFrom[WindowStart]
    <3>1. /\ WindowStart \in 1 .. LastDay + 1 /\ WindowStart <= today
          /\ WindowStart \in SpendDay
      BY <1>c, <1>e, CostCapsAssumption DEF SpendDay
    <3>2. /\ spendFrom[WindowStart] = spend[WindowStart] + spendFrom[WindowStart + 1]
          /\ spendFrom[WindowStart + 1] \in Nat
      BY <1>e, <3>1, SumEquation
    <3>3. spend[WindowStart] \in Nat
      BY <1>e, <3>1
    <3> QED
      BY <3>2, <3>3
  <2>6. (MonthlySpend)' <= MonthlySpend
    BY <1>c, <2>3, <2>4, <2>5 DEF MonthlySpend
  <2>7. owed = owing
    BY <2>1
  <2> HIDE DEF All, owing, owed
  <2>8. PICK old \in Nat, new \in Nat : old = MonthlySpend /\ new = (MonthlySpend)'
    BY <1>c
  <2>9. new <= old /\ old + owing <= MonthlyCap + All + late.month
    BY <1>d, <2>6, <2>8
  <2>10. new + owed <= MonthlyCap + All + late.month
    <3>1. new \in Nat /\ old \in Nat /\ owing \in Nat /\ All \in Nat
      BY <1>b
    <3>2. PICK cap \in Nat : cap = MonthlyCap + All + late.month
      BY <1>b, <1>d
    <3> QED
      BY <2>7, <2>9, <3>1, <3>2
  <2> QED
    BY <2>1, <2>8, <2>10 DEF All, owed
<1>6. ASSUME BatchDone \/ UNCHANGED costCapsVars
      PROVE  (MonthlySpend)' + owed <= MonthlyCap + All + late'.month
  BY <1>3, <1>6 DEF BatchDone, costCapsVars
<1>7. ASSUME NEW s \in Slots, SubmitBatch(s) \/ \E n \in 1 .. MaxRows : RunUnrecorded(s, n)
      PROVE  (MonthlySpend)' + owed <= MonthlyCap + All + late'.month
  BY <1>3, <1>7 DEF SubmitBatch, RunUnrecorded
<1> QED
  BY <1>1, <1>2, <1>4, <1>5, <1>6, <1>7 DEF CostCapsNext

\* The rolling month passes its cap by the rows of one run of each slot, and by the batch
\* results recorded since the cap last let a run in, and by no more, for every number of
\* slots, every cap and every window: check_monthly_cap reads the same ledger, and the
\* days that enter and leave its window never raise the sum.
THEOREM MonthBounded == CostCapsSpec => []MonthlyOvershoot
<1>1. CostCapsInv /\ MonthRoom => MonthlyOvershoot
  <2> SUFFICES ASSUME CostCapsInv, MonthRoom, MonthlyCap # NoCap
               PROVE  MonthlySpend <= MonthlyCap + MaxCost * Cardinality(AllRows) + late.month
    BY DEF MonthlyOvershoot
  <2> DEFINE All == MaxCost * Cardinality(AllRows)
             owing == MaxCost * Cardinality(running)
  <2>1. owing \in Nat /\ All \in Nat
    BY FewerRows DEF CostCapsInv, CostCapsTypeOK
  <2>2. MonthlySpend \in Nat /\ late.month \in Nat /\ MonthlyCap \in Nat
    BY MonthIsNat, CostCapsAssumption DEF CostCapsInv, CostCapsTypeOK
  <2>3. MonthlySpend + owing <= MonthlyCap + All + late.month
    BY DEF MonthRoom
  <2> HIDE DEF All, owing
  <2>4. MonthlySpend <= MonthlyCap + All + late.month
    BY <2>1, <2>2, <2>3
  <2> QED
    BY <2>4 DEF All
<1>2. CostCapsInit => MonthRoom
  BY InitMonth
<1>3. CostCapsInv /\ MonthRoom /\ [CostCapsNext]_costCapsVars => MonthRoom'
  BY NextMonth
<1> QED
  BY <1>1, <1>2, <1>3, CostCapsInvariance, PTL DEF CostCapsSpec

-----------------------------------------------------------------------------
(* DeskSweep                                                               *)

\* What a sweep may still originate: its k-th entry, while the top ones and the cap,
\* as it counts it, allow one.
Tickets ==
    {e \in Sweepers \X (1 .. TopK) :
        /\ sweeps[e[1]].pc # "idle" /\ sweeps[e[1]].created < e[2]
        /\ sweeps[e[1]].already + e[2] <= OriginationCap}

\* The bound of OriginationOvershoot: the cap, and a sweep of every other slot.
Ceiling == OriginationCap + (Cardinality(Sweepers) - 1) * TopK

\* What a slot knows of its sweep.
Sweep == [pc : {"idle", "choose", "investigate"}, candidates : SUBSET Anomalies,
          already : Nat, created : Nat, looking : Anomalies \cup {NoAnomaly}]

\* The day, the entries and the slots are in their ranges.
DeskTypes ==
    /\ hour \in 0 .. LastTime /\ waiting \in Nat /\ sweepLosses \in 0 .. MaxSweepLosses
    /\ originated \in [Days -> Nat]
    /\ sweeps \in [Sweepers -> Sweep]

\* An investigation holds a ticket; the day's entries and the tickets stay under the
\* ceiling; a day that has not begun has no entry.
DeskRoom ==
    /\ \A s \in Sweepers : (sweeps[s].looking # NoAnomaly) <=> (sweeps[s].pc = "investigate")
    /\ \A s \in Sweepers :
        sweeps[s].pc = "investigate" => <<s, sweeps[s].created + 1>> \in Tickets
    /\ originated[DayOf(hour)] + Cardinality(Tickets) <= Ceiling
    /\ \A d \in Days : originated[d] <= Ceiling /\ (d > DayOf(hour) => originated[d] = 0)

\* The inductive invariant.
DeskInv == DeskTypes /\ DeskRoom

\* The day does not go back while the hours go on.
LEMMA DayOfGrows ==
  ASSUME NEW h \in Nat, NEW k \in Nat, h <= k
  PROVE  DayOf(h) \in Nat /\ DayOf(k) \in Nat /\ DayOf(h) <= DayOf(k)
  BY DeskSweepAssumption DEF DayOf

\* Every hour of the run belongs to one of its days.
LEMMA HourHasDay ==
  ASSUME NEW h \in 0 .. LastTime
  PROVE  DayOf(h) \in Days /\ DayOf(h) \in Nat
  BY DayOfGrows, DeskSweepAssumption DEF Days

\* Arithmetic: n times k is k more than n - 1 times k.
LEMMA MinusOne ==
  ASSUME NEW n \in Nat \ {0}, NEW k \in Nat
  PROVE  (n - 1) * k \in Nat /\ n * k = (n - 1) * k + k
<1>1. PICK m \in Nat : n = m + 1
  <2>1. n - 1 \in Nat /\ n = (n - 1) + 1
    OBVIOUS
  <2> QED BY <2>1
<1>2. n - 1 = m /\ (m + 1) * k = m * k + k /\ m * k \in Nat
  BY <1>1
<1> QED BY <1>1, <1>2

\* A set paired with n numbers has n times its size.
LEMMA CountProduct ==
  ASSUME NEW S, IsFiniteSet(S), NEW n \in Nat
  PROVE  /\ IsFiniteSet(S \X (1 .. n))
         /\ Cardinality(S \X (1 .. n)) = Cardinality(S) * n
<1>1. IsFiniteSet(1 .. n) /\ Cardinality(1 .. n) = n
  BY FS_Interval
<1> QED BY <1>1, FS_Product

\* There are finitely many tickets, and each slot holds at most TopK of them.
LEMMA TicketsFinite ==
  /\ IsFiniteSet(Tickets) /\ Cardinality(Tickets) \in Nat
  /\ Cardinality(Sweepers) \in Nat \ {0} /\ Ceiling \in Nat
<1>1. IsFiniteSet(Sweepers \X (1 .. TopK))
  BY CountProduct, DeskSweepAssumption
<1>2. Tickets \in SUBSET (Sweepers \X (1 .. TopK))
  BY DEF Tickets
<1>3. IsFiniteSet(Tickets) /\ Cardinality(Tickets) \in Nat
  BY <1>1, <1>2, FS_Subset, FS_CardinalityType
<1>4. Cardinality(Sweepers) \in Nat /\ Cardinality(Sweepers) # 0
  BY DeskSweepAssumption, FS_CardinalityType, FS_EmptySet
<1>5. (Cardinality(Sweepers) - 1) * TopK \in Nat
  BY <1>4, MinusOne, DeskSweepAssumption
<1> QED
  BY <1>3, <1>4, <1>5, DeskSweepAssumption DEF Ceiling

\* On an empty day there is room for a sweep of every slot.
LEMMA TicketsOfAnEmptyDay ==
  ASSUME DeskTypes
  PROVE  Cardinality(Tickets) <= Ceiling
<1> DEFINE n == Cardinality(Sweepers)
<1> DEFINE least == IF TopK <= OriginationCap THEN TopK ELSE OriginationCap
<1>1. n \in Nat \ {0} /\ least \in Nat /\ TopK \in Nat /\ OriginationCap \in Nat
  BY TicketsFinite, DeskSweepAssumption
<1>2. least <= TopK /\ least <= OriginationCap
  BY <1>1
<1>3. \A s \in Sweepers : sweeps[s].already \in Nat /\ sweeps[s].created \in Nat
  BY DEF DeskTypes, Sweep
<1>4. Cardinality(Tickets) <= Ceiling
  <2>1. Tickets \subseteq Sweepers \X (1 .. least)
    BY <1>1, <1>3 DEF Tickets
  <2>2. /\ IsFiniteSet(Sweepers \X (1 .. least))
        /\ Cardinality(Sweepers \X (1 .. least)) = n * least
    BY <1>1, CountProduct, DeskSweepAssumption
  <2> HIDE DEF least, n
  <2>3. Cardinality(Tickets) <= n * least
    BY <2>1, <2>2, FS_Subset
  <2>4. n * least = (n - 1) * least + least /\ (n - 1) * least \in Nat
    BY <1>1, MinusOne
  <2>5. (n - 1) * least <= (n - 1) * TopK
    <3>1. PICK m \in Nat : m = n - 1
      BY <1>1
    <3>2. PICK j \in Nat : TopK = least + j
      <4>1. TopK - least \in Nat /\ TopK = least + (TopK - least)
        BY <1>1, <1>2
      <4> QED BY <4>1
    <3>3. m * (least + j) = m * least + m * j /\ m * j \in Nat /\ m * least \in Nat
      BY <1>1, <3>1, <3>2
    <3> QED BY <3>1, <3>2, <3>3
  <2>6. (n - 1) * TopK \in Nat
    BY <1>1, MinusOne
  <2> DEFINE x == (n - 1) * least  y == (n - 1) * TopK
  <2> HIDE DEF x, y
  <2>7. Ceiling = OriginationCap + y
    BY DEF Ceiling, n, y
  <2>8. Cardinality(Tickets) <= x + least /\ x <= y /\ x \in Nat /\ y \in Nat /\ Cardinality(Tickets) \in Nat
    BY <2>3, <2>4, <2>5, <2>6, TicketsFinite DEF x, y
  <2> QED BY <2>7, <2>8, <1>1, <1>2
<1> QED BY <1>4

\* A sweep's record stays one when it has recorded an entry.
LEMMA SweepRecords ==
  ASSUME NEW r \in Sweep
  PROVE  [r EXCEPT !.pc = "choose", !.created = @ + 1, !.looking = NoAnomaly] \in Sweep
<1>1. r.created + 1 \in Nat
  BY DEF Sweep
<1>2. [r EXCEPT !.pc = "choose"] \in Sweep
  BY DEF Sweep
<1>3. [[r EXCEPT !.pc = "choose"] EXCEPT !.created = r.created + 1] \in Sweep
  BY <1>1, <1>2 DEF Sweep
<1>4. [[[r EXCEPT !.pc = "choose"] EXCEPT !.created = r.created + 1] EXCEPT !.looking = NoAnomaly] \in Sweep
  BY <1>1, <1>3 DEF Sweep
<1> QED
  BY <1>4 DEF Sweep

\* Initially no sweep runs.
LEMMA InitDesk == DeskSweepInit => DeskInv
<1> SUFFICES ASSUME DeskSweepInit PROVE DeskInv
  OBVIOUS
<1>1. DeskTypes
  BY DeskSweepAssumption DEF DeskSweepInit, DeskTypes, Sweep, NoSweep
<1>2. Tickets = {}
  BY DEF DeskSweepInit, Tickets, NoSweep
<1>3. Cardinality(Tickets) = 0 /\ Ceiling \in Nat
  BY <1>2, FS_EmptySet, TicketsFinite
<1>4. DayOf(hour) \in Days
  BY <1>1, HourHasDay DEF DeskTypes
<1> QED
  BY <1>1, <1>3, <1>4, DeskSweepAssumption DEF DeskSweepInit, DeskInv, DeskRoom, NoSweep

\* A step that starts and records nothing: the tickets of a slot may only be dropped.
LEMMA DroppingTickets ==
  ASSUME DeskInv, DeskTypes', Tickets' \subseteq Tickets, UNCHANGED <<hour, originated>>,
         \A t \in Sweepers : (sweeps'[t].looking # NoAnomaly) <=> (sweeps'[t].pc = "investigate"),
         \A t \in Sweepers :
            sweeps'[t].pc = "investigate" => <<t, sweeps'[t].created + 1>> \in Tickets'
  PROVE  DeskInv'
<1>1. /\ Cardinality(Tickets') <= Cardinality(Tickets)
      /\ Cardinality(Tickets') \in Nat /\ Cardinality(Tickets) \in Nat /\ Ceiling \in Nat
  BY TicketsFinite, FS_Subset, FS_CardinalityType
<1>2. originated[DayOf(hour)] \in Nat
  BY HourHasDay DEF DeskInv, DeskTypes
<1>3. originated[DayOf(hour)] + Cardinality(Tickets) <= Ceiling
  BY DEF DeskInv, DeskRoom
<1>4. originated[DayOf(hour)] + Cardinality(Tickets') <= Ceiling
  BY <1>1, <1>2, <1>3
<1> QED
  BY <1>4 DEF DeskInv, DeskRoom, DayOf, Ceiling

\* A sweep begins: it holds what the day's count leaves it, the others a sweep each.
LEMMA StartKeepsRoom ==
  ASSUME DeskInv, NEW s \in Sweepers, StartSweep(s)
  PROVE  DeskInv'
<1> DEFINE n == Cardinality(Sweepers)
<1> DEFINE count == originated[DayOf(hour)]
<1>a. DeskTypes /\ DeskRoom
  BY DEF DeskInv
<1>1. PICK found \in SUBSET Anomalies :
        sweeps' = [sweeps EXCEPT ![s] = [NoSweep EXCEPT !.pc = "choose", !.candidates = found, !.already = count]]
  BY DEF StartSweep
<1>2. count \in Nat /\ n \in Nat \ {0} /\ TopK \in Nat /\ OriginationCap \in Nat
  BY <1>a, HourHasDay, TicketsFinite, DeskSweepAssumption DEF DeskTypes
<1>3. DeskTypes'
  <2>1. [NoSweep EXCEPT !.pc = "choose", !.candidates = found, !.already = count] \in Sweep
    <3> HIDE DEF count
    <3> QED
      BY <1>2 DEF Sweep, NoSweep
  <2>2. sweeps' \in [Sweepers -> Sweep]
    <3> HIDE DEF Sweep
    <3> QED
      BY <1>a, <1>1, <2>1 DEF DeskTypes
  <2> QED
    BY <1>a, <2>2 DEF StartSweep, DeskTypes, Days
<1>4. /\ sweeps'[s] = [pc |-> "choose", candidates |-> found, already |-> count, created |-> 0,
                       looking |-> NoAnomaly]
      /\ \A t \in Sweepers \ {s} : sweeps'[t] = sweeps[t]
      /\ sweeps[s].pc = "idle" /\ UNCHANGED <<hour, originated>>
  BY <1>a, <1>1 DEF StartSweep, DeskTypes, NoSweep
<1> DEFINE Rest == (Sweepers \ {s}) \X (1 .. TopK)
<1> DEFINE Own == {s} \X (1 .. (OriginationCap - count))
<1>5. count + Cardinality(Tickets') <= Ceiling
  <2>1. CASE count >= OriginationCap
    <3>1. Tickets' \subseteq Tickets
      BY <1>2, <1>4, <2>1 DEF Tickets
    <3>2. Cardinality(Tickets') <= Cardinality(Tickets) /\ Cardinality(Tickets') \in Nat
      BY <3>1, TicketsFinite, FS_Subset, FS_CardinalityType
    <3>3. count + Cardinality(Tickets) <= Ceiling
      BY <1>a DEF DeskRoom
    <3> QED
      BY <1>2, <3>2, <3>3, TicketsFinite
  <2>2. CASE count < OriginationCap
    <3>1. Tickets' \subseteq Rest \cup Own
      BY <1>2, <1>4 DEF Tickets
    <3>2. IsFiniteSet(Sweepers \ {s}) /\ Cardinality(Sweepers \ {s}) = n - 1
      BY DeskSweepAssumption, FS_RemoveElement
    <3>3. IsFiniteSet(Rest) /\ Cardinality(Rest) = (n - 1) * TopK
      BY <3>2, <1>2, CountProduct
    <3>4. IsFiniteSet({s}) /\ Cardinality({s}) = 1
      BY FS_Singleton
    <3>5. PICK m \in Nat : m = OriginationCap - count
      BY <1>2, <2>2
    <3>6. IsFiniteSet(Own) /\ Cardinality(Own) = 1 * m
      BY <3>4, <3>5, CountProduct
    <3>7. IsFiniteSet(Rest \cup Own) /\ Cardinality(Rest \cup Own) <= (n - 1) * TopK + m
      <4>1. Rest \cap Own = {}
        OBVIOUS
      <4>2. Cardinality({}) = 0
        BY FS_EmptySet
      <4> HIDE DEF Rest, Own
      <4>3. IsFiniteSet(Rest \cup Own) /\ Cardinality(Rest \cup Own) = Cardinality(Rest) + Cardinality(Own) - 0
        BY <3>3, <3>6, <4>1, <4>2, FS_Union
      <4>4. (n - 1) * TopK \in Nat
        BY <1>2, MinusOne
      <4> QED
        BY <3>3, <3>5, <3>6, <4>3, <4>4
    <3>8. Cardinality(Tickets') <= (n - 1) * TopK + m /\ Cardinality(Tickets') \in Nat
      <4> HIDE DEF Rest, Own
      <4>1. IsFiniteSet(Tickets') /\ Cardinality(Tickets') <= Cardinality(Rest \cup Own)
        BY <3>1, <3>7, FS_Subset
      <4>2. (n - 1) * TopK \in Nat /\ Cardinality(Tickets') \in Nat /\ Cardinality(Rest \cup Own) \in Nat
        BY <1>2, <3>7, <4>1, MinusOne, FS_CardinalityType
      <4> QED
        BY <3>5, <3>7, <4>1, <4>2
    <3>9. (n - 1) * TopK \in Nat
      BY <1>2, MinusOne
    <3> DEFINE y == (n - 1) * TopK
    <3> HIDE DEF y, n
    <3>10. Ceiling = OriginationCap + y
      BY DEF Ceiling, y, n
    <3>11. Cardinality(Tickets') <= y + m /\ y \in Nat
      BY <3>8, <3>9 DEF y
    <3> QED
      BY <1>2, <3>5, <3>8, <3>10, <3>11
  <2> QED
    BY <1>2, <2>1, <2>2
<1>6. \A t \in Sweepers : /\ (sweeps'[t].looking # NoAnomaly) <=> (sweeps'[t].pc = "investigate")
                          /\ sweeps'[t].pc = "investigate" => <<t, sweeps'[t].created + 1>> \in Tickets'
  BY <1>a, <1>4 DEF DeskRoom, Tickets
<1>7. DeskRoom'
  BY <1>a, <1>4, <1>5, <1>6 DEF DeskRoom, DayOf, Ceiling
<1> QED
  BY <1>3, <1>7 DEF DeskInv

\* An entry uses up the ticket its sweep held.
LEMMA OriginateKeepsRoom ==
  ASSUME DeskInv, NEW s \in Sweepers, Originate(s)
  PROVE  DeskInv'
<1> DEFINE used == <<s, sweeps[s].created + 1>>
<1>a. DeskTypes /\ DeskRoom
  BY DEF DeskInv
<1>b. DayOf(hour) \in Days /\ originated[DayOf(hour)] \in Nat
  BY <1>a, HourHasDay DEF DeskTypes
<1>1. used \in Tickets
  BY <1>a DEF Originate, DeskRoom
<1>2. /\ sweeps'[s] = [sweeps[s] EXCEPT !.pc = "choose", !.created = @ + 1, !.looking = NoAnomaly]
      /\ \A t \in Sweepers \ {s} : sweeps'[t] = sweeps[t]
      /\ UNCHANGED <<hour, waiting, sweepLosses>>
      /\ sweeps[s].pc = "investigate"
      /\ sweeps[s] \in Sweep
  BY <1>a DEF Originate, DeskTypes
<1>3. sweeps' \in [Sweepers -> Sweep]
  <2>1. [sweeps[s] EXCEPT !.pc = "choose", !.created = @ + 1, !.looking = NoAnomaly] \in Sweep
    BY <1>2, SweepRecords
  <2> QED
    BY <1>a, <1>2, <2>1 DEF Originate, DeskTypes
<1>4. DeskTypes'
  <2>1. originated' \in [Days -> Nat]
    BY <1>a, <1>b DEF Originate, DeskTypes
  <2> QED
    BY <1>a, <1>2, <1>3, <2>1 DEF DeskTypes, Days
<1>5. Tickets' \subseteq Tickets \ {used}
  <2>1. sweeps'[s].pc = "choose" /\ sweeps'[s].created = sweeps[s].created + 1
        /\ sweeps'[s].already = sweeps[s].already /\ sweeps[s].created \in Nat /\ sweeps[s].already \in Nat
    BY <1>2 DEF Sweep
  <2>2. ASSUME NEW e \in Tickets' PROVE e \in Tickets \ {used}
    <3>1. e \in Sweepers \X (1 .. TopK) /\ sweeps'[e[1]].pc # "idle" /\ sweeps'[e[1]].created < e[2]
          /\ sweeps'[e[1]].already + e[2] <= OriginationCap /\ e[2] \in Nat /\ e[1] \in Sweepers
      BY <2>2, DeskSweepAssumption DEF Tickets
    <3>2. CASE e[1] = s
      <4>1. e[2] # sweeps[s].created + 1 /\ sweeps[s].created < e[2] /\ sweeps[s].already + e[2] <= OriginationCap
        BY <2>1, <3>1, <3>2
      <4>2. e # used
        BY <4>1
      <4> QED
        BY <1>2, <3>1, <3>2, <4>1, <4>2 DEF Tickets
    <3>3. CASE e[1] # s
      <4>1. e # used
        BY <3>3
      <4> QED
        BY <1>2, <3>1, <3>3, <4>1 DEF Tickets
    <3> QED
      BY <3>2, <3>3
  <2> QED
    BY <2>2
<1>6. \A t \in Sweepers \ {s} : sweeps'[t].pc = "investigate" => <<t, sweeps'[t].created + 1>> \in Tickets'
  BY <1>a, <1>2 DEF DeskRoom, Tickets
<1>7. sweeps'[s].pc = "choose" /\ sweeps'[s].looking = NoAnomaly
  BY <1>2 DEF Sweep
<1>8. Cardinality(Tickets') <= Cardinality(Tickets) - 1 /\ Cardinality(Tickets') \in Nat
  <2>1. IsFiniteSet(Tickets \ {used}) /\ Cardinality(Tickets \ {used}) = Cardinality(Tickets) - 1
    BY <1>1, TicketsFinite, FS_RemoveElement
  <2> QED
    BY <1>5, <2>1, FS_Subset, FS_CardinalityType
<1>9. /\ originated'[DayOf(hour)] = originated[DayOf(hour)] + 1
      /\ \A d \in Days : d # DayOf(hour) => originated'[d] = originated[d]
  BY <1>a, <1>b DEF Originate, DeskTypes
<1>10. originated[DayOf(hour)] + Cardinality(Tickets) <= Ceiling
  BY <1>a DEF DeskRoom
<1>11. originated'[DayOf(hour)] + Cardinality(Tickets') <= Ceiling /\ originated'[DayOf(hour)] <= Ceiling
  BY <1>b, <1>8, <1>9, <1>10, TicketsFinite
<1>12. \A d \in Days : originated'[d] <= Ceiling /\ (d > DayOf(hour) => originated'[d] = 0)
  <2>1. \A d \in Days : originated[d] <= Ceiling /\ (d > DayOf(hour) => originated[d] = 0)
    BY <1>a DEF DeskRoom
  <2>2. ~(DayOf(hour) > DayOf(hour))
    BY <1>b DEF Days
  <2> QED
    BY <1>9, <1>11, <2>1, <2>2
<1>13. DayOf(hour)' = DayOf(hour) /\ Ceiling' = Ceiling
  BY <1>2 DEF DayOf, Ceiling
<1>14. \A t \in Sweepers : (sweeps'[t].looking # NoAnomaly) <=> (sweeps'[t].pc = "investigate")
  BY <1>a, <1>2, <1>7 DEF DeskRoom
<1>15. DeskRoom'
  BY <1>6, <1>7, <1>11, <1>12, <1>13, <1>14, <1>2 DEF DeskRoom
<1> QED
  BY <1>4, <1>15 DEF DeskInv

\* Time may bring a new day, which is empty.
LEMMA ClockKeepsRoom == DeskInv /\ SweepClock => DeskInv'
<1> SUFFICES ASSUME DeskInv, SweepClock PROVE DeskInv'
  OBVIOUS
<1>a. DeskTypes /\ DeskRoom
  BY DEF DeskInv
<1>1. DeskTypes'
  BY <1>a, DeskSweepAssumption DEF SweepClock, DeskTypes
<1>2. UNCHANGED <<originated, sweeps>> /\ Tickets' = Tickets /\ Ceiling' = Ceiling
  BY DEF SweepClock, Tickets, Ceiling
<1>3. /\ DayOf(hour) \in Days /\ DayOf(hour)' \in Days /\ DayOf(hour) <= DayOf(hour)'
      /\ DayOf(hour) \in Nat /\ DayOf(hour)' \in Nat
  <2>1. hour \in 0 .. LastTime /\ hour' \in 0 .. LastTime /\ hour \in Nat /\ hour' \in Nat /\ hour <= hour'
    BY <1>a, <1>1, DeskSweepAssumption DEF SweepClock, DeskTypes
  <2>2. DayOf(hour') \in Days /\ DayOf(hour) \in Days /\ DayOf(hour) <= DayOf(hour')
    BY <2>1, HourHasDay, DayOfGrows
  <2>3. DayOf(hour') \in Nat /\ DayOf(hour) \in Nat
    BY <2>1, DayOfGrows
  <2> QED
    BY <2>2, <2>3 DEF DayOf
<1>4. originated[DayOf(hour)'] + Cardinality(Tickets) <= Ceiling
  <2>1. CASE DayOf(hour)' = DayOf(hour)
    BY <1>a, <2>1 DEF DeskRoom
  <2>2. CASE DayOf(hour)' # DayOf(hour)
    <3>1. originated[DayOf(hour)'] = 0
      BY <1>a, <1>3, <2>2 DEF DeskRoom
    <3> QED
      BY <1>a, <3>1, TicketsFinite, TicketsOfAnEmptyDay
  <2> QED
    BY <2>1, <2>2
<1>5. \A d \in Days : originated[d] <= Ceiling /\ (d > DayOf(hour)' => originated[d] = 0)
  BY <1>a, <1>3 DEF DeskRoom, Days
<1>6. DeskRoom'
  BY <1>a, <1>2, <1>4, <1>5 DEF DeskRoom
<1> QED
  BY <1>1, <1>6 DEF DeskInv

\* Every other step leaves the day's entries as they are and starts nothing.
LEMMA NextDesk == DeskInv /\ [DeskSweepNext]_deskSweepVars => DeskInv'
<1> SUFFICES ASSUME DeskInv, [DeskSweepNext]_deskSweepVars PROVE DeskInv'
  OBVIOUS
<1>a. DeskTypes /\ DeskRoom
  BY DEF DeskInv
<1>1. CASE RequestSweep \/ UNCHANGED deskSweepVars
  <2>1. DeskTypes' /\ UNCHANGED <<hour, originated, sweeps>>
    BY <1>a, <1>1 DEF RequestSweep, deskSweepVars, DeskTypes, Days
  <2> QED
    BY <1>a, <2>1, DroppingTickets DEF Tickets, DeskRoom
<1>2. ASSUME NEW s \in Sweepers, StartSweep(s) PROVE DeskInv'
  BY <1>2, StartKeepsRoom
<1>3. ASSUME NEW s \in Sweepers, NEW a \in Anomalies, PassOver(s, a) PROVE DeskInv'
  <2>1. DeskTypes'
    BY <1>a, <1>3 DEF PassOver, DeskTypes, Sweep, Days
  <2>2. /\ \A t \in Sweepers : /\ sweeps'[t].pc = sweeps[t].pc /\ sweeps'[t].created = sweeps[t].created
                               /\ sweeps'[t].already = sweeps[t].already /\ sweeps'[t].looking = sweeps[t].looking
        /\ UNCHANGED <<hour, originated>>
    BY <1>a, <1>3 DEF PassOver, DeskTypes, Sweep
  <2>3. Tickets' = Tickets
    BY <2>2 DEF Tickets
  <2> QED
    BY <1>a, <2>1, <2>2, <2>3, DroppingTickets DEF DeskRoom
<1>4. ASSUME NEW s \in Sweepers, NEW a \in Anomalies, Investigate(s, a) PROVE DeskInv'
  <2>1. DeskTypes'
    BY <1>a, <1>4 DEF Investigate, DeskTypes, Sweep, Days
  <2>2. /\ \A t \in Sweepers : /\ sweeps'[t].created = sweeps[t].created
                               /\ sweeps'[t].already = sweeps[t].already
        /\ \A t \in Sweepers \ {s} : sweeps'[t] = sweeps[t]
        /\ sweeps[s].pc = "choose" /\ sweeps'[s].pc = "investigate" /\ sweeps'[s].looking = a
        /\ UNCHANGED <<hour, originated>>
    BY <1>a, <1>4 DEF Investigate, DeskTypes, Sweep
  <2>3. Tickets' = Tickets
    BY <2>2 DEF Tickets
  <2>4. <<s, sweeps[s].created + 1>> \in Tickets
    <3>1. sweeps[s].created \in Nat /\ sweeps[s].already \in Nat
      BY <1>a DEF DeskTypes, Sweep
    <3> QED
      BY <1>4, <2>2, <3>1, DeskSweepAssumption DEF Investigate, CapSpent, Tickets
  <2>5. a # NoAnomaly
    BY DeskSweepAssumption
  <2> QED
    BY <1>a, <2>1, <2>2, <2>3, <2>4, <2>5, DroppingTickets DEF DeskRoom
<1>5. ASSUME NEW s \in Sweepers, Originate(s) PROVE DeskInv'
  BY <1>5, OriginateKeepsRoom
<1>6. ASSUME NEW s \in Sweepers, FindNothing(s) PROVE DeskInv'
  <2>1. DeskTypes'
    BY <1>a, <1>6 DEF FindNothing, DeskTypes, Sweep, Days
  <2>2. /\ \A t \in Sweepers : /\ sweeps'[t].created = sweeps[t].created
                               /\ sweeps'[t].already = sweeps[t].already
        /\ \A t \in Sweepers \ {s} : sweeps'[t] = sweeps[t]
        /\ sweeps[s].pc = "investigate" /\ sweeps'[s].pc = "choose" /\ sweeps'[s].looking = NoAnomaly
        /\ UNCHANGED <<hour, originated>>
    BY <1>a, <1>6 DEF FindNothing, DeskTypes, Sweep
  <2>3. Tickets' = Tickets
    BY <2>2 DEF Tickets
  <2> QED
    BY <1>a, <2>1, <2>2, <2>3, DroppingTickets DEF DeskRoom
<1>7. ASSUME NEW s \in Sweepers, EndSweep(s) \/ LoseSweeper(s) PROVE DeskInv'
  <2>1. DeskTypes'
    <3>1. NoSweep \in Sweep
      BY DEF NoSweep, Sweep
    <3>2. sweeps' \in [Sweepers -> Sweep] /\ UNCHANGED <<hour, originated>>
      BY <1>a, <1>7, <3>1 DEF EndSweep, LoseSweeper, DeskTypes
    <3>3. waiting' \in Nat /\ sweepLosses' \in 0 .. MaxSweepLosses
      BY <1>a, <1>7, DeskSweepAssumption DEF EndSweep, LoseSweeper, DeskTypes
    <3> QED
      BY <1>a, <3>2, <3>3 DEF DeskTypes, Days
  <2>2. /\ \A t \in Sweepers \ {s} : sweeps'[t] = sweeps[t]
        /\ sweeps'[s].pc = "idle" /\ sweeps'[s].looking = NoAnomaly
        /\ UNCHANGED <<hour, originated>>
    BY <1>a, <1>7 DEF EndSweep, LoseSweeper, DeskTypes, NoSweep
  <2>3. Tickets' \subseteq Tickets
    BY <2>2 DEF Tickets
  <2>4. \A t \in Sweepers :
            sweeps'[t].pc = "investigate" => <<t, sweeps'[t].created + 1>> \in Tickets'
    BY <1>a, <2>2 DEF DeskRoom, Tickets
  <2> QED
    BY <1>a, <2>1, <2>2, <2>3, <2>4, DroppingTickets DEF DeskRoom
<1>8. CASE SweepClock
  BY <1>8, ClockKeepsRoom
<1> QED
  BY <1>1, <1>2, <1>3, <1>4, <1>5, <1>6, <1>7, <1>8 DEF DeskSweepNext

\* What a day's desk entries may pass DAILY_ORIGINATION_CAP by, for every number of
\* worker slots, cap and cooldown: a sweep's worth for each slot but one.
THEOREM OriginationBounded == DeskSweepSpec => []OriginationOvershoot
<1>1. DeskInv => OriginationOvershoot
  BY DEF DeskInv, DeskRoom, OriginationOvershoot, Ceiling
<1> QED
  BY <1>1, InitDesk, NextDesk, PTL DEF DeskSweepSpec

\* The rows, the queue and the slots stay in their ranges.
THEOREM DeskSweepTypes == DeskSweepSpec => []DeskSweepTypeOK
<1>1. DeskInv => DeskSweepTypeOK
  BY DEF DeskInv, DeskTypes, DeskRoom, DeskSweepTypeOK, Sweep
<1> QED
  BY <1>1, InitDesk, NextDesk, PTL DEF DeskSweepSpec

-----------------------------------------------------------------------------
(* ToolLoop                                                                *)

\* A turn of the conversation.
Turn == [calls : Nat, results : Nat]

\* The counters and the conversation are in their ranges.
Counts ==
    /\ dialect \in {"claude", "openai"} /\ tools \in BOOLEAN
    /\ toolRounds \in Nat /\ completed \in Nat /\ reported \in Nat
    /\ asked \in Nat /\ ran \in 0 .. asked
    /\ conversation \in Seq(Turn)

\* Rounds completed and rounds with tools go together, and the ceiling holds the latter.
RoundsCounted ==
    /\ reported = completed
    /\ loop \in {"request", "stream"} => completed = toolRounds
    /\ loop \in {"dispatch", "run", "tell"} => completed = toolRounds + 1 /\ tools
    /\ completed <= toolRounds + 1
    /\ MaxIterations # 0 => toolRounds <= MaxIterations /\ (tools => toolRounds < MaxIterations)

\* Every call of a turn has its result.
RoundAnswered(n) == conversation[n].results = conversation[n].calls

\* Only the turn at work lacks results: those of the calls not told of yet.
TurnsAnswered ==
    /\ loop \in {"request", "stream", "dispatch", "run", "tell"} =>
        \A n \in 1 .. Len(conversation) :
            RoundAnswered(n) \/ (n = Len(conversation) /\ dialect = "openai" /\ loop \in {"dispatch", "tell"})
    /\ dialect = "openai" => loop # "run"
    /\ dialect = "openai" /\ loop \in {"dispatch", "tell"} =>
        /\ Len(conversation) > 0
        /\ conversation[Len(conversation)] =
            [calls |-> asked, results |-> IF loop = "tell" THEN ran - 1 ELSE ran]
    /\ loop = "run" => ran < asked
    /\ loop = "tell" => ran > 0

\* The inductive invariant.
ToolLoopInv == Counts /\ RoundsCounted /\ TurnsAnswered

-----------------------------------------------------------------------------
\* What appending a turn does.
LEMMA TurnAdded ==
  ASSUME NEW c \in Seq(Turn), NEW t \in Turn
  PROVE  /\ Append(c, t) \in Seq(Turn) /\ Len(Append(c, t)) = Len(c) + 1 /\ Len(c) \in Nat
         /\ Append(c, t)[Len(c) + 1] = t
         /\ \A n \in 1 .. Len(c) : Append(c, t)[n] = c[n]
  OBVIOUS

\* What replacing the last turn does.
LEMMA TurnReplaced ==
  ASSUME NEW c \in Seq(Turn), Len(c) > 0, NEW t \in Turn
  PROVE  LET d == [c EXCEPT ![Len(c)] = t] IN
           /\ d \in Seq(Turn) /\ Len(d) = Len(c) /\ d[Len(c)] = t
           /\ \A n \in 1 .. Len(c) : n # Len(c) => d[n] = c[n]
  OBVIOUS

\* Initially there is nothing to answer.
LEMMA InitLoop == ToolLoopInit => ToolLoopInv
<1> SUFFICES ASSUME ToolLoopInit PROVE ToolLoopInv
  OBVIOUS
<1>1. conversation \in Seq(Turn) /\ Len(conversation) = 0
  BY DEF ToolLoopInit
<1> QED
  BY <1>1, ToolLoopAssumption DEF ToolLoopInit, ToolLoopInv, Counts, RoundsCounted, TurnsAnswered

\* Every step keeps the accounts.
LEMMA NextLoop == ToolLoopInv /\ [ToolLoopNext]_toolLoopVars => ToolLoopInv'
<1> SUFFICES ASSUME ToolLoopInv, [ToolLoopNext]_toolLoopVars PROVE ToolLoopInv'
  OBVIOUS
<1>a. Counts /\ RoundsCounted /\ TurnsAnswered /\ MaxIterations \in Nat
  BY ToolLoopAssumption DEF ToolLoopInv
<1>b. Len(conversation) \in Nat
  BY <1>a DEF Counts
<1>1. CASE SendConversation
  BY <1>a, <1>1 DEF SendConversation, ToolLoopInv, Counts, RoundsCounted, TurnsAnswered, RoundAnswered
<1>2. ASSUME NEW calls \in 0 .. MaxToolCalls, EndRound(calls) PROVE ToolLoopInv'
  <2>0. calls \in Nat
    BY <1>2, ToolLoopAssumption
  <2>1. CASE calls > 0 /\ tools /\ dialect = "openai"
    <3> DEFINE t == [calls |-> calls, results |-> 0]
    <3>1. t \in Turn /\ conversation' = Append(conversation, t)
      BY <2>0, <2>1, <1>2 DEF EndRound, Turn
    <3>2. /\ conversation' \in Seq(Turn) /\ Len(conversation') = Len(conversation) + 1
          /\ conversation'[Len(conversation) + 1] = t
          /\ \A n \in 1 .. Len(conversation) : conversation'[n] = conversation[n]
      BY <3>1, <1>a, TurnAdded DEF Counts
    <3>3. \A n \in 1 .. Len(conversation) : RoundAnswered(n)
      BY <1>a, <1>2 DEF TurnsAnswered, EndRound
    <3>4. asked' = calls /\ ran' = 0 /\ loop' = "dispatch" /\ dialect' = "openai"
      BY <1>2, <2>1 DEF EndRound
    <3>5. Counts' /\ RoundsCounted'
      BY <1>a, <1>2, <2>0, <2>1, <3>2, <3>4 DEF EndRound, UsageOf, Counts, RoundsCounted
    <3>6. \A n \in 1 .. Len(conversation') : RoundAnswered(n)' \/ n = Len(conversation')
      BY <3>2, <3>3, <1>b DEF RoundAnswered
    <3> QED
      BY <3>2, <3>4, <3>5, <3>6, <1>b DEF ToolLoopInv, TurnsAnswered
  <2>2. CASE calls > 0 /\ tools /\ dialect # "openai"
    <3>1. dialect = "claude" /\ dialect' = "claude"
      BY <1>a, <1>2, <2>2 DEF Counts, EndRound
    <3>2. Counts' /\ RoundsCounted'
      BY <1>a, <1>2, <2>0, <2>2 DEF EndRound, UsageOf, Counts, RoundsCounted
    <3>3. TurnsAnswered'
      BY <1>a, <1>2, <2>2, <3>1 DEF EndRound, TurnsAnswered, RoundAnswered
    <3> QED
      BY <3>2, <3>3 DEF ToolLoopInv
  <2>3. CASE ~(calls > 0 /\ tools)
    BY <1>a, <1>2, <2>3 DEF EndRound, UsageOf, ToolLoopInv, Counts, RoundsCounted, TurnsAnswered
  <2> QED
    BY <2>1, <2>2, <2>3
<1>3. CASE AnnounceCall
  <2>1. dialect = "claude" /\ dialect' = "claude"
    BY <1>a, <1>3 DEF AnnounceCall
  <2> QED
    BY <1>a, <1>3, <2>1 DEF AnnounceCall, ToolLoopInv, Counts, RoundsCounted, TurnsAnswered, RoundAnswered
<1>4. CASE RunTool
  <2>1. Counts' /\ RoundsCounted'
    BY <1>a, <1>4 DEF RunTool, Counts, RoundsCounted, TurnsAnswered
  <2>2. TurnsAnswered'
    BY <1>a, <1>4 DEF RunTool, Counts, TurnsAnswered, RoundAnswered
  <2> QED
    BY <2>1, <2>2 DEF ToolLoopInv
<1>5. CASE TellResult
  <2>1. CASE dialect = "openai"
    <3> DEFINE last == Len(conversation)
    <3>1. /\ last > 0 /\ conversation[last] = [calls |-> asked, results |-> ran - 1]
          /\ \A n \in 1 .. last : RoundAnswered(n) \/ n = last
      BY <1>a, <1>5, <2>1 DEF TellResult, TurnsAnswered
    <3>2. conversation' = [conversation EXCEPT ![last].results = @ + 1]
      BY <1>5, <2>1 DEF TellResult
    <3>3. ran \in Nat /\ ran > 0 /\ asked \in Nat
      BY <1>a, <1>5 DEF TellResult, Counts, TurnsAnswered
    <3>4. conversation[last].results + 1 = ran
      BY <3>1, <3>3
    <3>5. /\ conversation' \in Seq(Turn) /\ Len(conversation') = last
          /\ conversation'[last] = [calls |-> asked, results |-> ran]
          /\ \A n \in 1 .. last : n # last => conversation'[n] = conversation[n]
      <4>1. conversation' = [conversation EXCEPT ![last] = [calls |-> asked, results |-> ran]]
        <5> DEFINE old == conversation[last]
        <5>1. old = [calls |-> asked, results |-> ran - 1] /\ old.results + 1 = ran
          BY <3>1, <3>4
        <5>2. [old EXCEPT !.results = @ + 1] = [calls |-> asked, results |-> ran]
          <6> HIDE DEF old
          <6> QED
            BY <5>1
        <5>3. conversation' = [conversation EXCEPT ![last] = [conversation[last] EXCEPT !.results = @ + 1]]
          BY <3>2
        <5> QED
          BY <5>2, <5>3
      <4>2. [calls |-> asked, results |-> ran] \in Turn
        BY <3>3 DEF Turn
      <4> QED
        BY <4>1, <4>2, <3>1, <1>a, TurnReplaced DEF Counts
    <3>6. loop' = "dispatch" /\ dialect' = "openai" /\ ran' = ran /\ asked' = asked
      BY <1>5, <2>1 DEF TellResult
    <3>7. Counts' /\ RoundsCounted'
      BY <1>a, <1>5, <3>5 DEF TellResult, Counts, RoundsCounted
    <3>8. \A n \in 1 .. Len(conversation') : RoundAnswered(n)' \/ n = Len(conversation')
      BY <3>1, <3>5 DEF RoundAnswered
    <3> QED
      BY <3>1, <3>5, <3>6, <3>7, <3>8 DEF ToolLoopInv, TurnsAnswered
  <2>2. CASE dialect # "openai"
    <3>1. Counts' /\ RoundsCounted'
      BY <1>a, <1>5, <2>2 DEF TellResult, Counts, RoundsCounted
    <3>2. TurnsAnswered'
      BY <1>a, <1>5, <2>2 DEF TellResult, TurnsAnswered, RoundAnswered
    <3> QED
      BY <3>1, <3>2 DEF ToolLoopInv
  <2> QED
    BY <2>1, <2>2
<1>6. CASE NextRound
  <2>0. /\ loop' = "request" /\ toolRounds' = toolRounds + 1 /\ completed' = completed /\ reported' = reported
        /\ asked' = 0 /\ ran' = 0 /\ tools' \in BOOLEAN /\ dialect' = dialect
    BY <1>6 DEF NextRound
  <2>1. RoundsCounted'
    <3>1. completed = toolRounds + 1 /\ reported = completed /\ toolRounds \in Nat
          /\ (MaxIterations # 0 => toolRounds < MaxIterations)
      BY <1>a, <1>6 DEF NextRound, RoundsCounted, Counts
    <3>2. tools' = ~(MaxIterations # 0 /\ toolRounds + 1 >= MaxIterations)
      BY <1>6 DEF NextRound, CeilingReached
    <3>3. toolRounds + 1 \in Nat /\ completed <= (toolRounds + 1) + 1
      BY <3>1
    <3>4. MaxIterations # 0 => toolRounds + 1 <= MaxIterations /\ (tools' => toolRounds + 1 < MaxIterations)
      <4>1. MaxIterations # 0 => toolRounds + 1 <= MaxIterations
        BY <3>1, <1>a
      <4>2. MaxIterations # 0 /\ tools' => ~(toolRounds + 1 >= MaxIterations)
        BY <3>2, Zenon
      <4>3. ~(toolRounds + 1 >= MaxIterations) => toolRounds + 1 < MaxIterations
        BY <3>3, <1>a
      <4> QED
        BY <4>1, <4>2, <4>3, Zenon
    <3> QED
      BY <3>1, <3>3, <3>4, <2>0, Zenon DEF RoundsCounted
  <2>2. CASE dialect = "claude"
    <3> DEFINE t == [calls |-> asked, results |-> ran]
    <3>1. t \in Turn /\ conversation' = Append(conversation, t) /\ t.calls = t.results
      BY <2>2, <1>a, <1>6 DEF NextRound, Turn, Counts
    <3>2. /\ conversation' \in Seq(Turn) /\ Len(conversation') = Len(conversation) + 1
          /\ conversation'[Len(conversation) + 1] = t
          /\ \A n \in 1 .. Len(conversation) : conversation'[n] = conversation[n]
      BY <3>1, <1>a, TurnAdded DEF Counts
    <3>3. \A n \in 1 .. Len(conversation) : RoundAnswered(n)
      BY <1>a, <1>6, <2>2 DEF TurnsAnswered, NextRound
    <3>4. \A n \in 1 .. Len(conversation') : RoundAnswered(n)'
      BY <3>1, <3>2, <3>3, <1>b DEF RoundAnswered
    <3> QED
      BY <1>a, <2>0, <2>1, <2>2, <3>2, <3>4 DEF ToolLoopInv, Counts, TurnsAnswered
  <2>3. CASE dialect = "openai"
    <3>1. conversation' = conversation
      BY <1>6, <2>3 DEF NextRound
    <3>2. \A n \in 1 .. Len(conversation) : RoundAnswered(n)
      BY <1>a, <1>6, <2>3 DEF TurnsAnswered, NextRound, RoundAnswered
    <3> QED
      BY <1>a, <2>0, <2>1, <2>3, <3>1, <3>2 DEF ToolLoopInv, Counts, TurnsAnswered, RoundAnswered
  <2> QED
    BY <1>a, <2>2, <2>3 DEF Counts
<1>7. CASE LoopFails \/ LoopClosed
  BY <1>a, <1>7 DEF LoopFails, LoopClosed, ToolLoopInv, Counts, RoundsCounted, TurnsAnswered
<1>8. CASE UNCHANGED toolLoopVars
  BY <1>a, <1>8 DEF toolLoopVars, ToolLoopInv, Counts, RoundsCounted, TurnsAnswered, RoundAnswered
<1> QED
  BY <1>1, <1>2, <1>3, <1>4, <1>5, <1>6, <1>7, <1>8 DEF ToolLoopNext

\* The accounts are kept in every behaviour.
LEMMA ToolLoopInvariance == ToolLoopSpec => []ToolLoopInv
  BY InitLoop, NextLoop, PTL DEF ToolLoopSpec

-----------------------------------------------------------------------------
\* For every ceiling and however many calls a round makes: no conversation goes out with
\* a call that lacks its result, the ceiling ends the run one round later, and usage
\* already billed has been reported when the loop ends in whatever way.
THEOREM WordKept == ToolLoopSpec => []LoopKeepsItsWord
<1>1. ToolLoopInv => LoopKeepsItsWord
  <2> SUFFICES ASSUME ToolLoopInv PROVE LoopKeepsItsWord
    OBVIOUS
  <2>1. DOMAIN conversation = 1 .. Len(conversation)
    BY DEF ToolLoopInv, Counts
  <2>2. MaxIterations # 0 => completed <= MaxIterations + 1
    BY ToolLoopAssumption DEF ToolLoopInv, Counts, RoundsCounted
  <2> QED
    BY <2>1, <2>2 DEF ToolLoopInv, RoundsCounted, TurnsAnswered, RoundAnswered, LoopKeepsItsWord
<1> QED
  BY <1>1, ToolLoopInvariance, PTL

\* A result is announced after its call: with Claude, a call that runs has been.
CallsFirst ==
    /\ loop \in {"request", "stream", "dispatch", "run", "tell", "done", "error", "closed"}
    /\ asked <= MaxToolCalls
    /\ announced \in [calls : Nat, results : Nat] /\ announced.results <= announced.calls
    /\ dialect = "claude" /\ loop \in {"run", "tell"} => announced.results < announced.calls

\* Types of the tool loop; and no result is announced that has no call.
THEOREM ToolLoopTypes == ToolLoopSpec => []ToolLoopTypeOK
<1>1. ToolLoopInit => CallsFirst
  BY ToolLoopAssumption DEF ToolLoopInit, NoEvents, CallsFirst
<1>2. ToolLoopInv /\ CallsFirst /\ [ToolLoopNext]_toolLoopVars => CallsFirst'
  <2> SUFFICES ASSUME ToolLoopInv, CallsFirst, [ToolLoopNext]_toolLoopVars PROVE CallsFirst'
    OBVIOUS
  <2>1. CASE SendConversation \/ LoopFails \/ LoopClosed \/ UNCHANGED toolLoopVars
    BY <2>1 DEF SendConversation, LoopFails, LoopClosed, toolLoopVars, CallsFirst
  <2>2. ASSUME NEW calls \in 0 .. MaxToolCalls, EndRound(calls) PROVE CallsFirst'
    BY <2>2 DEF EndRound, CallsFirst
  <2>3. CASE AnnounceCall
    BY <2>3 DEF AnnounceCall, CallsFirst
  <2>4. CASE RunTool
    BY <2>4 DEF RunTool, CallsFirst
  <2>5. CASE TellResult
    BY <2>5 DEF TellResult, CallsFirst, ToolLoopInv, Counts
  <2>6. CASE NextRound
    BY <2>6, ToolLoopAssumption DEF NextRound, CallsFirst
  <2> QED
    BY <2>1, <2>2, <2>3, <2>4, <2>5, <2>6 DEF ToolLoopNext
<1>3. ToolLoopInv /\ CallsFirst => ToolLoopTypeOK
  BY ToolLoopAssumption DEF ToolLoopInv, Counts, CallsFirst, ToolLoopTypeOK
<1> QED
  BY <1>1, <1>2, <1>3, ToolLoopInvariance, PTL DEF ToolLoopSpec

-----------------------------------------------------------------------------
(* Debates                                                                 *)

\* Everybody who can be named on a message.
People == {Personas[i] : i \in DOMAIN Personas} \cup {Viewer, Judge}

\* A message of the debate's thread.
Posted == [by : People, role : {"user", "assistant"}, status : {"streaming", "done", "error"},
           persona : People]

\* Where the task of the debate can be.
DebatePlaces == {"idle", "voices", "ask", "run", "stream", "read", "next", "synthesize", "post", "save"}

\* What the task knows of where it is.
DebateTurn == [pc : DebatePlaces, round : 0 .. Rounds, voice : DOMAIN Personas, asked : Nat]

\* The debate, its messages and its arguments are in their ranges.
DebateTypes ==
    /\ debate \in {"none", "running", "done", "error"} /\ died \in BOOLEAN
    /\ posts \in Seq(Posted) /\ Len(posts) <= MaxPosts
    /\ turn \in DebateTurn
    /\ arguments \subseteq People \X Nat

\* One argument of each persona, and no message is two's.
OneEach(args) == \A x, y \in args : (x[1] = y[1] \/ x[2] = y[2]) => x = y

\* Where a debate is tells who has argued in this round, and that those messages
\* are older than the question that waits for its answer.
DebateStages ==
    /\ debate = "none" => turn = NoTurn /\ arguments = {}
    /\ turn.pc = "voices" => arguments = {}
    /\ turn.pc \in {"ask", "run", "stream", "read"} =>
        \A x \in arguments : \E i \in DOMAIN Personas : x[1] = Personas[i] /\ i < turn.voice
    /\ turn.pc = "next" =>
        \A x \in arguments : \E i \in DOMAIN Personas : x[1] = Personas[i] /\ i <= turn.voice
    /\ \A x \in arguments : x[2] \in DOMAIN posts
    /\ turn.pc \in {"run", "stream", "read"} =>
        /\ turn.asked \in DOMAIN posts
        /\ \A x \in arguments : x[2] < turn.asked
        /\ \A m \in DOMAIN posts :
            m > turn.asked /\ posts[m].role = "assistant" => posts[m].by \in {Persona, Viewer}
    /\ OneEach(arguments) /\ OneEach(heard)

\* No post is stamped with another persona's name.
Stamped == \A m \in DOMAIN posts : posts[m].persona # Viewer => posts[m].by \in {posts[m].persona, Viewer}

\* The inductive invariant.
DebateInv == DebateTypes /\ DebateStages /\ Stamped

\* There is a first persona, and none is the viewer or the judge.
LEMMA Voices ==
  /\ 1 \in DOMAIN Personas /\ Len(Personas) \in Nat /\ DOMAIN Personas = 1 .. Len(Personas)
  /\ \A i \in DOMAIN Personas : Personas[i] \in People /\ Personas[i] \notin {Viewer, Judge}
  /\ {Viewer, Judge} \subseteq People
<1>1. Personas \in Seq(STRING \ {Viewer, Judge}) /\ Personas # <<>>
  BY DebatesAssumption
<1>2. Len(Personas) \in Nat /\ DOMAIN Personas = 1 .. Len(Personas) /\ Len(Personas) # 0
  BY <1>1
<1>3. \A i \in DOMAIN Personas : Personas[i] \in STRING \ {Viewer, Judge}
  BY <1>1
<1> QED
  BY <1>2, <1>3 DEF People

\* A debate that has not begun.
LEMMA InitDebate == DebatesInit => DebateInv
<1> SUFFICES ASSUME DebatesInit PROVE DebateInv
  OBVIOUS
<1>1. NoTurn \in DebateTurn
  BY Voices, DebatesAssumption DEF NoTurn, DebateTurn, DebatePlaces
<1>2. DebateTypes
  <2>1. turn \in DebateTurn /\ arguments \subseteq People \X Nat
    BY <1>1 DEF DebatesInit
  <2>2. posts \in Seq(Posted) /\ Len(posts) <= MaxPosts
    BY DebatesAssumption DEF DebatesInit
  <2> QED
    BY <2>1, <2>2 DEF DebatesInit, DebateTypes
<1> QED
  BY <1>2 DEF DebatesInit, DebateInv, DebateStages, Stamped, OneEach, NoTurn

\* A new post of someone's, by its author's own name.
LEMMA NewPost ==
  ASSUME DebateTypes, Stamped, NEW by \in People, NEW role \in {"user", "assistant"},
         NEW verdict \in {"streaming", "done", "error"}, Room,
         posts' = Append(posts, Post(by, role, verdict))
  PROVE  /\ posts' \in Seq(Posted) /\ Len(posts') = Len(posts) + 1 /\ Len(posts') <= MaxPosts
         /\ DOMAIN posts' = DOMAIN posts \cup {Len(posts) + 1} /\ DOMAIN posts = 1 .. Len(posts)
         /\ \A m \in DOMAIN posts : posts'[m] = posts[m]
         /\ posts'[Len(posts) + 1] = Post(by, role, verdict)
         /\ Stamped'
<1>1. Post(by, role, verdict) \in Posted
  BY Voices DEF Post, Posted
<1>2. posts \in Seq(Posted) /\ Len(posts) \in Nat /\ Len(posts) < MaxPosts
  BY DEF DebateTypes, Room
<1>3. /\ posts' \in Seq(Posted) /\ Len(posts') = Len(posts) + 1
      /\ DOMAIN posts' = 1 .. (Len(posts) + 1) /\ DOMAIN posts = 1 .. Len(posts)
      /\ \A m \in 1 .. Len(posts) : posts'[m] = posts[m]
      /\ posts'[Len(posts) + 1] = Post(by, role, verdict)
  <2> DEFINE new == Post(by, role, verdict)
  <2> HIDE DEF new
  <2>1. new \in Posted /\ posts' = Append(posts, new)
    BY <1>1 DEF new
  <2> QED
    BY <1>2, <2>1 DEF new
<1>4. Stamped'
  BY <1>2, <1>3 DEF Stamped, Post
<1> QED
  BY <1>2, <1>3, <1>4, DebatesAssumption

\* One field of a post changes that says neither whose it is nor what it answers.
LEMMA PostEnds ==
  ASSUME DebateTypes, Stamped, NEW k \in DOMAIN posts, NEW verdict \in {"done", "error"},
         posts' = [posts EXCEPT ![k].status = verdict]
  PROVE  /\ posts' \in Seq(Posted) /\ Len(posts') = Len(posts) /\ DOMAIN posts' = DOMAIN posts
         /\ \A m \in DOMAIN posts : posts'[m].by = posts[m].by /\ posts'[m].role = posts[m].role
                                   /\ posts'[m].persona = posts[m].persona
         /\ Stamped'
<1>1. posts \in Seq(Posted) /\ Len(posts) \in Nat /\ DOMAIN posts = 1 .. Len(posts) /\ posts[k] \in Posted
  BY DEF DebateTypes
<1>2. [posts[k] EXCEPT !.status = verdict] \in Posted
  BY <1>1 DEF Posted
<1>3. posts' \in Seq(Posted) /\ Len(posts') = Len(posts) /\ DOMAIN posts' = DOMAIN posts
  <2> DEFINE new == [posts[k] EXCEPT !.status = verdict]
  <2>1. posts' = [posts EXCEPT ![k] = new]
    OBVIOUS
  <2> HIDE DEF new, Posted
  <2> QED
    BY <1>1, <1>2, <2>1 DEF new
<1>4. \A m \in DOMAIN posts : posts[m] \in Posted
  BY <1>1
<1>5. \A m \in DOMAIN posts : posts'[m].by = posts[m].by /\ posts'[m].role = posts[m].role
                             /\ posts'[m].persona = posts[m].persona
  BY <1>4 DEF Posted
<1>6. Stamped'
  BY <1>3, <1>5 DEF Stamped
<1> QED
  BY <1>3, <1>5, <1>6

\* The stages are about the fields of posts that no end changes.
LEMMA EndKeepsStages ==
  ASSUME DebateInv, NEW k \in DOMAIN posts, NEW verdict \in {"done", "error"},
         posts' = [posts EXCEPT ![k].status = verdict], UNCHANGED <<debate, arguments, heard, died>>,
         \/ turn' = turn
         \/ turn.pc = "stream" /\ turn' = [turn EXCEPT !.pc = "read"]
  PROVE  DebateInv'
<1>a. DebateTypes /\ DebateStages /\ Stamped
  BY DEF DebateInv
<1>1. /\ posts' \in Seq(Posted) /\ Len(posts') = Len(posts) /\ DOMAIN posts' = DOMAIN posts
      /\ \A m \in DOMAIN posts : posts'[m].by = posts[m].by /\ posts'[m].role = posts[m].role
      /\ Stamped'
  BY <1>a, PostEnds
<1>2. /\ turn' \in DebateTurn /\ turn'.voice = turn.voice /\ turn'.asked = turn.asked
      /\ turn' = turn \/ (turn.pc = "stream" /\ turn'.pc = "read")
  BY <1>a DEF DebateTypes, DebateTurn, DebatePlaces
<1>3. DebateTypes'
  BY <1>a, <1>1, <1>2 DEF DebateTypes
<1>4. Persona' = Persona
  BY <1>2 DEF Persona
<1>5. DebateStages'
  <2>1. debate' = "none" => turn' = NoTurn /\ arguments' = {}
    BY <1>a, <1>2 DEF DebateStages, NoTurn
  <2>2. turn'.pc \in {"run", "stream", "read"} => turn.pc \in {"run", "stream", "read"}
    BY <1>2
  <2>3. \A m \in DOMAIN posts' :
            turn'.pc \in {"run", "stream", "read"} /\ m > turn'.asked /\ posts'[m].role = "assistant"
                => posts'[m].by \in {Persona', Viewer}
    BY <1>a, <1>1, <1>2, <1>4, <2>2 DEF DebateStages
  <2> QED
    BY <1>a, <1>1, <1>2, <2>1, <2>2, <2>3 DEF DebateStages, OneEach
<1> QED
  BY <1>1, <1>3, <1>5 DEF DebateInv

\* A persona asks, or begins to answer.
LEMMA AskKeeps == DebateInv /\ AskPersona => DebateInv'
<1> SUFFICES ASSUME DebateInv, AskPersona PROVE DebateInv'
  OBVIOUS
<1>a. DebateTypes /\ DebateStages /\ Stamped
  BY DEF DebateInv
<1>b. Persona \in People /\ turn.voice \in DOMAIN Personas
  BY <1>a, Voices DEF DebateTypes, DebateTurn, Persona
<1>1. /\ posts' \in Seq(Posted) /\ Len(posts') = Len(posts) + 1 /\ Len(posts') <= MaxPosts
      /\ DOMAIN posts' = DOMAIN posts \cup {Len(posts) + 1} /\ DOMAIN posts = 1 .. Len(posts)
      /\ Stamped'
  BY <1>a, <1>b, NewPost DEF AskPersona
<1>2. /\ turn' \in DebateTurn /\ turn'.voice = turn.voice /\ turn'.asked = Len(posts) + 1 /\ turn'.pc = "run"
      /\ turn.pc = "ask"
  <2>1. Len(posts) + 1 \in Nat
    BY <1>a DEF DebateTypes
  <2> QED
    BY <1>a, <2>1 DEF AskPersona, TurnAt, DebateTypes, DebateTurn, DebatePlaces
<1>3. DebateTypes'
  BY <1>a, <1>1, <1>2 DEF AskPersona, DebateTypes
<1>4. DebateStages'
  <2>1. \A x \in arguments : x[2] \in DOMAIN posts
    BY <1>a DEF DebateStages
  <2>2. debate # "none"
    BY <1>a, <1>2 DEF DebateStages, NoTurn
  <2>3. Len(posts) \in Nat
    BY <1>a DEF DebateTypes
  <2>4. \A x \in arguments : x[2] < Len(posts) + 1
    BY <1>1, <2>1, <2>3
  <2>5. \A m \in DOMAIN posts' : ~(m > Len(posts) + 1)
    BY <1>1, <2>3
  <2> QED
    BY <1>a, <1>1, <1>2, <2>1, <2>2, <2>4, <2>5 DEF AskPersona, DebateStages
<1> QED
  BY <1>1, <1>3, <1>4 DEF DebateInv

\* The run of a persona posts a placeholder after the question.
LEMMA RunsKeeps == DebateInv /\ PersonaRuns => DebateInv'
<1> SUFFICES ASSUME DebateInv, PersonaRuns PROVE DebateInv'
  OBVIOUS
<1>a. DebateTypes /\ DebateStages /\ Stamped
  BY DEF DebateInv
<1>b. Persona \in People /\ turn.voice \in DOMAIN Personas
  BY <1>a, Voices DEF DebateTypes, DebateTurn, Persona
<1>1. /\ turn' \in DebateTurn /\ turn'.voice = turn.voice /\ turn'.asked = turn.asked
      /\ turn'.pc \in {"stream", "read"} /\ turn.pc = "run" /\ Persona' = Persona
      /\ UNCHANGED <<debate, arguments, heard, died>>
  BY <1>a DEF PersonaRuns, TurnAt, DebateTypes, DebateTurn, DebatePlaces, Persona
<1>2. debate # "none"
  BY <1>a, <1>1 DEF DebateStages, NoTurn
<1>3. CASE UNCHANGED posts
  <2>1. DebateTypes' /\ Stamped'
    BY <1>a, <1>1, <1>3 DEF DebateTypes, Stamped
  <2>2. DebateStages'
    BY <1>a, <1>1, <1>2, <1>3 DEF DebateStages
  <2> QED
    BY <2>1, <2>2 DEF DebateInv
<1>4. CASE Room /\ posts' = Append(posts, Post(Persona, "assistant", "streaming"))
  <2>1. /\ posts' \in Seq(Posted) /\ Len(posts') = Len(posts) + 1 /\ Len(posts') <= MaxPosts
        /\ DOMAIN posts' = DOMAIN posts \cup {Len(posts) + 1}
        /\ \A m \in DOMAIN posts : posts'[m] = posts[m]
        /\ posts'[Len(posts) + 1].by = Persona
        /\ Stamped'
    <3>1. /\ posts' \in Seq(Posted) /\ Len(posts') = Len(posts) + 1 /\ Len(posts') <= MaxPosts
          /\ DOMAIN posts' = DOMAIN posts \cup {Len(posts) + 1}
          /\ \A m \in DOMAIN posts : posts'[m] = posts[m]
          /\ posts'[Len(posts) + 1] = Post(Persona, "assistant", "streaming")
          /\ Stamped'
      BY <1>a, <1>b, <1>4, NewPost
    <3> QED
      BY <3>1 DEF Post
  <2>2. DebateTypes'
    BY <1>a, <1>1, <2>1 DEF DebateTypes
  <2>3. DebateStages'
    BY <1>a, <1>1, <1>2, <2>1 DEF DebateStages
  <2> QED
    BY <2>1, <2>2, <2>3 DEF DebateInv
<1> QED
  BY <1>3, <1>4 DEF PersonaRuns

\* The latest finished answer after the question becomes the argument.
LEMMA ReadKeeps == DebateInv /\ ReadArgument => DebateInv'
<1> SUFFICES ASSUME DebateInv, ReadArgument PROVE DebateInv'
  OBVIOUS
<1>a. DebateTypes /\ DebateStages /\ Stamped
  BY DEF DebateInv
<1>b. Persona \in People /\ turn.voice \in DOMAIN Personas
  BY <1>a, Voices DEF DebateTypes, DebateTurn, Persona
<1>1. /\ turn' \in DebateTurn /\ turn'.voice = turn.voice /\ turn'.pc = "next" /\ turn.pc = "read"
      /\ UNCHANGED <<debate, heard, died>>
  BY <1>a DEF ReadArgument, TurnAt, DebateTypes, DebateTurn, DebatePlaces
<1>2. debate # "none"
  BY <1>a, <1>1 DEF DebateStages, NoTurn
<1>3. CASE UNCHANGED <<posts, arguments>>
  <2>1. DebateTypes' /\ Stamped'
    BY <1>a, <1>1, <1>3 DEF DebateTypes, Stamped
  <2>2. \A x \in arguments : \E i \in DOMAIN Personas : x[1] = Personas[i] /\ i <= turn.voice
    BY <1>a, <1>1, <1>b, Voices DEF DebateStages
  <2>3. DebateStages'
    BY <1>a, <1>1, <1>2, <1>3, <2>2 DEF DebateStages
  <2> QED
    BY <2>1, <2>3 DEF DebateInv
<1>4. ASSUME NEW m \in Answers, posts' = [posts EXCEPT ![m].persona = Persona],
             arguments' = arguments \cup {<<Persona, m>>}
      PROVE  DebateInv'
  <2>1. m \in DOMAIN posts /\ m > turn.asked /\ posts[m].role = "assistant"
    BY DEF Answers
  <2>2. posts \in Seq(Posted) /\ Len(posts) \in Nat /\ DOMAIN posts = 1 .. Len(posts) /\ posts[m] \in Posted
    BY <1>a, <2>1 DEF DebateTypes
  <2>3. [posts[m] EXCEPT !.persona = Persona] \in Posted
    BY <1>b, <2>2 DEF Posted
  <2>4. posts' \in Seq(Posted) /\ Len(posts') = Len(posts) /\ DOMAIN posts' = DOMAIN posts
    <3> DEFINE new == [posts[m] EXCEPT !.persona = Persona]
    <3>1. posts' = [posts EXCEPT ![m] = new]
      BY <1>4
    <3> HIDE DEF new
    <3> QED
      BY <2>1, <2>2, <2>3, <3>1 DEF new
  <2>5. DebateTypes'
    <3>1. <<Persona, m>> \in People \X Nat
      BY <1>b, <2>1, <2>2
    <3> QED
      BY <1>a, <1>1, <1>4, <2>4, <3>1 DEF DebateTypes
  <2>6. posts[m].by \in {Persona, Viewer}
    BY <1>a, <1>1, <2>1 DEF DebateStages
  <2>7. Stamped'
    <3>1. posts'[m].persona = Persona /\ posts'[m].by = posts[m].by
      BY <1>4, <2>1, <2>2 DEF Posted
    <3>2. \A k \in DOMAIN posts : k # m => posts'[k] = posts[k]
      BY <1>4, <2>2
    <3> QED
      BY <1>a, <2>4, <2>6, <3>1, <3>2 DEF Stamped
  <2>8. \A x \in arguments : x[2] # m /\ x[1] # Persona
    <3>1. ASSUME NEW x \in arguments PROVE x[2] # m /\ x[1] # Persona
      <4>1. x[2] < turn.asked /\ x[2] \in DOMAIN posts /\ turn.asked \in DOMAIN posts
        BY <1>a, <1>1 DEF DebateStages
      <4>2. PICK i \in DOMAIN Personas : x[1] = Personas[i] /\ i < turn.voice
        BY <1>a, <1>1 DEF DebateStages
      <4>3. x[2] # m
        BY <2>1, <2>2, <4>1
      <4>4. i # turn.voice
        BY <1>b, <4>2, Voices
      <4> QED
        BY <1>b, <4>2, <4>3, <4>4, DebatesAssumption DEF Persona
    <3> QED
      BY <3>1
  <2>9. OneEach(arguments')
    BY <1>a, <1>4, <2>8 DEF DebateStages, OneEach
  <2>10. \A x \in arguments' : \E i \in DOMAIN Personas : x[1] = Personas[i] /\ i <= turn.voice
    <3>1. \A x \in arguments : \E i \in DOMAIN Personas : x[1] = Personas[i] /\ i <= turn.voice
      BY <1>a, <1>1, <1>b, Voices DEF DebateStages
    <3>2. turn.voice <= turn.voice
      BY <1>b, Voices
    <3> QED
      BY <1>4, <1>b, <3>1, <3>2 DEF Persona
  <2>11. \A x \in arguments' : x[2] \in DOMAIN posts'
    BY <1>a, <1>4, <2>1, <2>4 DEF DebateStages
  <2>12. DebateStages'
    BY <1>a, <1>1, <1>2, <2>9, <2>10, <2>11 DEF DebateStages, OneEach
  <2> QED
    BY <2>5, <2>7, <2>12 DEF DebateInv
<1>5. ASSUME Answers # {}
      PROVE  (CHOOSE x \in Answers : \A y \in Answers : y <= x) \in Answers
  <2>1. \E x \in Answers : \A y \in Answers : y <= x
    <3>1. Answers \subseteq 1 .. Len(posts) /\ Len(posts) \in Nat
      BY <1>a DEF Answers, DebateTypes
    <3> QED
      BY <1>5, <3>1, LargestNat
  <2> QED
    BY <2>1
<1> QED
  BY <1>3, <1>4, <1>5 DEF ReadArgument

\* The next voice is one that has not argued; a round that ends is handed on whole.
LEMMA NextVoiceKeeps == DebateInv /\ NextVoice => DebateInv'
<1> SUFFICES ASSUME DebateInv, NextVoice PROVE DebateInv'
  OBVIOUS
<1>a. DebateTypes /\ DebateStages /\ Stamped
  BY DEF DebateInv
<1>b. turn.voice \in DOMAIN Personas /\ turn.round \in 0 .. Rounds /\ turn.pc = "next" /\ turn \in DebateTurn
  BY <1>a DEF DebateTypes, DebateTurn, NextVoice, TurnAt
<1>c. UNCHANGED <<debate, posts, died>> /\ debate # "none"
  BY <1>a, <1>b DEF NextVoice, DebateStages, NoTurn
<1>1. CASE turn.voice < Len(Personas)
  <2>1. /\ turn'.pc = "ask" /\ turn'.voice = turn.voice + 1 /\ UNCHANGED <<arguments, heard>>
        /\ turn' \in DebateTurn
    <3>1. turn.voice + 1 \in DOMAIN Personas
      BY <1>b, <1>1, Voices
    <3> QED
      BY <1>b, <1>1, <3>1 DEF NextVoice, DebateTurn, DebatePlaces
  <2>2. DebateTypes' /\ Stamped'
    BY <1>a, <1>c, <2>1 DEF DebateTypes, Stamped
  <2>3. \A x \in arguments : \E i \in DOMAIN Personas : x[1] = Personas[i] /\ i < turn.voice + 1
    BY <1>a, <1>b, Voices DEF DebateStages
  <2>4. DebateStages'
    BY <1>a, <1>c, <2>1, <2>3 DEF DebateStages
  <2> QED
    BY <2>2, <2>4 DEF DebateInv
<1>2. CASE ~(turn.voice < Len(Personas))
  <2>1. /\ turn'.pc \in {"ask", "synthesize"} /\ turn' \in DebateTurn
        /\ arguments' = {} /\ heard' \in {heard, arguments}
    <3>1. turn.round < Rounds => turn.round + 1 \in 0 .. Rounds
      BY <1>b, DebatesAssumption
    <3> QED
      BY <1>b, <1>2, <3>1, Voices DEF NextVoice, DebateTurn, DebatePlaces
  <2>2. DebateTypes' /\ Stamped'
    BY <1>a, <1>c, <2>1 DEF DebateTypes, Stamped
  <2>3. OneEach(heard') /\ OneEach(arguments')
    BY <1>a, <2>1 DEF DebateStages, OneEach
  <2>4. DebateStages'
    BY <1>a, <1>c, <2>1, <2>3 DEF DebateStages, OneEach
  <2> QED
    BY <2>2, <2>4 DEF DebateInv
<1> QED
  BY <1>1, <1>2

\* The verdict is posted by the judge, the answers the viewer asked for by the viewer.
LEMMA OthersPost ==
  ASSUME DebateInv, PostVerdict \/ ViewerRuns
  PROVE  DebateInv'
<1>a. DebateTypes /\ DebateStages /\ Stamped
  BY DEF DebateInv
<1>1. PICK by \in {Viewer, Judge}, verdict \in {"streaming", "done"} :
         /\ posts' = Append(posts, Post(by, "assistant", verdict)) /\ Room
         /\ by = Judge => turn.pc = "post"
  <2>1. CASE PostVerdict
    BY <2>1 DEF PostVerdict, TurnAt
  <2>2. CASE ViewerRuns
    BY <2>2, DebatesAssumption DEF ViewerRuns
  <2> QED
    BY <2>1, <2>2
<1>2. /\ posts' \in Seq(Posted) /\ Len(posts') = Len(posts) + 1 /\ Len(posts') <= MaxPosts
      /\ DOMAIN posts' = DOMAIN posts \cup {Len(posts) + 1}
      /\ \A m \in DOMAIN posts : posts'[m] = posts[m]
      /\ posts'[Len(posts) + 1] = Post(by, "assistant", verdict)
      /\ Stamped'
  BY <1>a, <1>1, NewPost, Voices
<1>3. /\ UNCHANGED <<debate, arguments, heard, died>> /\ debate # "none"
      /\ turn' \in DebateTurn /\ (turn' = turn \/ (turn.pc = "post" /\ turn'.pc = "save"))
  BY <1>a DEF PostVerdict, ViewerRuns, TurnAt, DebateTypes, DebateTurn, DebatePlaces, DebateStages, NoTurn
<1>4. DebateTypes'
  BY <1>a, <1>2, <1>3 DEF DebateTypes
<1>5. turn'.pc \in {"run", "stream", "read"} =>
        /\ turn' = turn
        /\ posts'[Len(posts) + 1].by = Viewer
  BY <1>1, <1>2, <1>3 DEF Post
<1>6. turn'.pc \in {"run", "stream", "read"} =>
        \A m \in DOMAIN posts' :
            m > turn'.asked /\ posts'[m].role = "assistant" => posts'[m].by \in {Persona', Viewer}
  BY <1>a, <1>2, <1>5 DEF DebateStages, Persona
<1>7. DebateStages'
  BY <1>a, <1>2, <1>3, <1>5, <1>6 DEF DebateStages
<1> QED
  BY <1>2, <1>4, <1>7 DEF DebateInv

\* Every step keeps the invariant.
LEMMA NextDebate == DebateInv /\ [DebatesNext]_debatesVars => DebateInv'
<1> SUFFICES ASSUME DebateInv, [DebatesNext]_debatesVars PROVE DebateInv'
  OBVIOUS
<1>a. DebateTypes /\ DebateStages /\ Stamped
  BY DEF DebateInv
<1>1. CASE UNCHANGED debatesVars
  BY <1>a, <1>1 DEF debatesVars, DebateInv, DebateTypes, DebateStages, Stamped, Persona
<1>2. CASE Convene \/ AssignVoices
  <2>1. /\ turn'.pc \in {"idle", "voices", "ask"} /\ turn' \in DebateTurn /\ debate' # "none"
        /\ debate' \in {"running", "done", "error"}
        /\ arguments = {} /\ UNCHANGED <<posts, arguments, heard, died>>
    <3>1. NoTurn \in DebateTurn
      BY Voices, DebatesAssumption DEF NoTurn, DebateTurn, DebatePlaces
    <3>2. debate # "none" \/ Convene
      BY <1>a, <1>2 DEF AssignVoices, TurnAt, DebateStages, NoTurn
    <3> QED
      BY <1>a, <1>2, <3>1, <3>2
      DEF Convene, AssignVoices, TurnAt, DebateTypes, DebateStages, DebateTurn, DebatePlaces, NoTurn
  <2>2. DebateTypes' /\ Stamped'
    BY <1>a, <2>1 DEF DebateTypes, Stamped
  <2>3. DebateStages'
    BY <1>a, <2>1 DEF DebateStages, OneEach
  <2> QED
    BY <2>2, <2>3 DEF DebateInv
<1>3. CASE PersonaEnds \/ ViewerAnswered
  <2>1. PICK m \in DOMAIN posts, verdict \in {"done", "error"} : posts' = [posts EXCEPT ![m].status = verdict]
    BY <1>3 DEF PersonaEnds, ViewerAnswered
  <2> QED
    BY <1>3, <2>1, EndKeepsStages DEF PersonaEnds, ViewerAnswered, TurnAt
<1>4. CASE Synthesize \/ SaveVerdict \/ DebateDies
  <2>1. /\ turn'.pc \in {"idle", "post"} /\ turn' \in DebateTurn /\ debate' # "none"
        /\ debate' \in {"running", "done", "error"} /\ died' \in BOOLEAN
        /\ UNCHANGED <<posts, arguments, heard>>
    <3>1. NoTurn \in DebateTurn
      BY Voices, DebatesAssumption DEF NoTurn, DebateTurn, DebatePlaces
    <3>2. debate # "none"
      BY <1>a, <1>4 DEF Synthesize, SaveVerdict, DebateDies, TurnAt, DebateStages, NoTurn
    <3> QED
      BY <1>a, <1>4, <3>1, <3>2
      DEF Synthesize, SaveVerdict, DebateDies, TurnAt, DebateTypes, DebateTurn, DebatePlaces, NoTurn
  <2>2. DebateTypes' /\ Stamped'
    BY <1>a, <2>1 DEF DebateTypes, Stamped
  <2>3. DebateStages'
    BY <1>a, <2>1 DEF DebateStages
  <2> QED
    BY <2>2, <2>3 DEF DebateInv
<1> QED
  BY <1>1, <1>2, <1>3, <1>4, AskKeeps, RunsKeeps, ReadKeeps, NextVoiceKeeps, OthersPost DEF DebatesNext

\* For any personas and rounds, whatever the viewer asks meanwhile.
THEOREM NoBorrowedArgument == DebatesSpec => []ArgumentsAreOwn
<1>1. DebateInv => ArgumentsAreOwn
  BY DEF DebateInv, DebateStages, Stamped, OneEach, ArgumentsAreOwn
<1> QED
  BY <1>1, InitDebate, NextDebate, PTL DEF DebatesSpec

\* The rows of a debate and its task stay in their ranges, for any cast and any number of
\* rounds and messages.
THEOREM DebatesTypes == DebatesSpec => []DebatesTypeOK
<1>1. DebateInv => DebatesTypeOK
  BY DEF DebateInv, DebateTypes, DebateTurn, DebatesTypeOK
<1> QED
  BY <1>1, InitDebate, NextDebate, PTL DEF DebatesSpec
===============================================================================
