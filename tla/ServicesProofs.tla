---------------------------- MODULE ServicesProofs ----------------------------
(***************************************************************************)
(* What runs check of MCServices is what the proofs say of the components: *)
(* a behaviour of the harness is one of each of them, which moves or       *)
(* stands still.                                                           *)
(***************************************************************************)
EXTENDS MCServices, LocksProofs, FiresProofs, WorkProofs

\* The variables of the harness.
servicesVars == <<part, backupsVars, tokensVars, predictionsVars, postMortemsVars, observerFiresVars,
    observerThreadVars, batchesVars, costCapsVars, conditionsVars, mcpVars, deskSweepVars, debatesVars,
    capturesVars, toolLoopVars>>

\* A step of the harness is a step of one part and of no other.
LEMMA EachAlone ==
  ASSUME [ServicesNext]_servicesVars
  PROVE  /\ [BackupsNext]_backupsVars /\ [TokensNext]_tokensVars
         /\ [PredictionsNext]_predictionsVars /\ [PostMortemsNext]_postMortemsVars
         /\ [ObserverFiresNext]_observerFiresVars /\ [ObserverThreadNext]_observerThreadVars
         /\ [BatchesNext]_batchesVars /\ [CostCapsNext]_costCapsVars
         /\ [ConditionsNext]_conditionsVars /\ [McpNext]_mcpVars
         /\ [DeskSweepNext]_deskSweepVars /\ [DebatesNext]_debatesVars
         /\ [CapturesNext]_capturesVars /\ [ToolLoopNext]_toolLoopVars
<1>1. CASE UNCHANGED servicesVars
  BY <1>1 DEF servicesVars
<1>2. ASSUME NEW p \in Parts, Alone(p)
      PROVE  /\ [BackupsNext]_backupsVars /\ [TokensNext]_tokensVars
             /\ [PredictionsNext]_predictionsVars /\ [PostMortemsNext]_postMortemsVars
             /\ [ObserverFiresNext]_observerFiresVars /\ [ObserverThreadNext]_observerThreadVars
             /\ [BatchesNext]_batchesVars /\ [CostCapsNext]_costCapsVars
             /\ [ConditionsNext]_conditionsVars /\ [McpNext]_mcpVars
             /\ [DeskSweepNext]_deskSweepVars /\ [DebatesNext]_debatesVars
             /\ [CapturesNext]_capturesVars /\ [ToolLoopNext]_toolLoopVars
  BY <1>2 DEF Alone
<1> QED
  BY <1>1, <1>2 DEF ServicesNext

\* Side by side, each component keeps the behaviours it has alone: what is proved of
\* its own specification holds in the runs of all of them.
THEOREM EachPartKept ==
  ServicesSpec => /\ BackupsSpec /\ TokensSpec /\ PredictionsSpec /\ PostMortemsSpec
                  /\ ObserverFiresSpec /\ ObserverThreadSpec /\ BatchesSpec /\ CostCapsSpec
                  /\ ConditionsSpec /\ McpSpec /\ DeskSweepSpec /\ DebatesSpec
                  /\ CapturesSpec /\ ToolLoopSpec
<1>1. ServicesInit => /\ BackupsInit /\ TokensInit /\ PredictionsInit /\ PostMortemsInit
                      /\ ObserverFiresInit /\ ObserverThreadInit /\ BatchesInit /\ CostCapsInit
                      /\ ConditionsInit /\ McpInit /\ DeskSweepInit /\ DebatesInit /\ CapturesInit
                      /\ ToolLoopInit
  BY DEF ServicesInit
<1> QED
  BY <1>1, EachAlone, PTL
  DEF ServicesSpec, servicesVars, BackupsSpec, TokensSpec, PredictionsSpec, PostMortemsSpec, ObserverFiresSpec,
      ObserverThreadSpec, BatchesSpec, CostCapsSpec, ConditionsSpec, McpSpec, DeskSweepSpec, DebatesSpec,
      CapturesSpec, ToolLoopSpec

\* Types of every part at once.
THEOREM ServicesTypes == ServicesSpec => []ServicesTypeOK
<1>1. /\ BackupsTypeOK /\ TokensTypeOK /\ PredictionsTypeOK /\ PostMortemsTypeOK
      /\ ObserverFiresTypeOK /\ ObserverThreadTypeOK /\ BatchesTypeOK /\ CostCapsTypeOK
      /\ ConditionsTypeOK /\ McpTypeOK
      /\ DeskSweepTypeOK /\ DebatesTypeOK /\ CapturesTypeOK /\ ToolLoopTypeOK
      => ServicesTypeOK
  BY DEF ServicesTypeOK
<1> QED
  BY <1>1, EachPartKept, BackupsTypes, TokensTypes, PredictionsTypes, PostMortemsTypes,
     ObserverFiresTypes, ObserverThreadTypes, BatchesTypes, CostCapsTypes, ConditionsTypes,
     McpSessionsTypes, DeskSweepTypes, DebatesTypes, CapturesTypes, ToolLoopTypes, PTL

\* Every property of the services run, for every value of the constants: the run
\* checks it with two actors of each kind.
THEOREM ServicesHold ==
  ServicesSpec =>
    /\ [](BackupExclusive /\ DumpsSurvive /\ OneRefresher /\ SpentOnce /\ BlamesTheToken)
    /\ [](ScoredOnce /\ ResolvingIsHeld /\ RunsPaid /\ RunningIsHeld /\ VerdictIsEarned)
    /\ [](FiresApart /\ OneCloseFireADay /\ CollectedOnce /\ CrossesAreReal)
    /\ [](DailyOvershoot /\ MonthlyOvershoot /\ OriginationOvershoot)
    /\ [](ArgumentsAreOwn /\ LoopKeepsItsWord)
    /\ CachedWhenLinear
<1>1. ServicesSpec =>
        [](BackupExclusive /\ DumpsSurvive /\ OneRefresher /\ SpentOnce /\ BlamesTheToken)
  BY EachPartKept, BackupsOneAtATime, DumpsSurviveAll, RefreshIsExclusive, RefreshTokensSpentOnce,
     RejectionIsTheTokens, PTL
<1>2. ServicesSpec =>
        [](ScoredOnce /\ ResolvingIsHeld /\ RunsPaid /\ RunningIsHeld /\ VerdictIsEarned)
  BY EachPartKept, CallsScoredOnce, ResolvingHeld, PostMortemRunsPaid, RunningHeld, VerdictsEarned, PTL
<1>3. ServicesSpec => [](FiresApart /\ OneCloseFireADay /\ CollectedOnce /\ CrossesAreReal)
  BY EachPartKept, FiresKeepApart, ClosesOnce, ResultsCollectedOnce, CrossesReal, PTL
<1>4. ServicesSpec => [](DailyOvershoot /\ MonthlyOvershoot /\ OriginationOvershoot)
  BY EachPartKept, OvershootBounded, MonthBounded, OriginationBounded, PTL
<1>5. ServicesSpec => [](ArgumentsAreOwn /\ LoopKeepsItsWord)
  BY EachPartKept, NoBorrowedArgument, WordKept, PTL
<1>6. ServicesSpec => CachedWhenLinear
  BY EachPartKept, LinearReuse, PTL
<1> QED
  BY <1>1, <1>2, <1>3, <1>4, <1>5, <1>6, PTL
===============================================================================
