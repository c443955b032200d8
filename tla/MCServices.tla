------------------------------ MODULE MCServices ------------------------------
(* The components that share no state with one another, side by side: a   *)
(* behaviour is about the part it begins with, the others stand still.    *)
EXTENDS Backups, Tokens, Predictions, PostMortems, ObserverFires, ObserverThread, Batches, CostCaps,
        Conditions, McpSessions, DeskSweep, Debates, Captures, ToolLoop

\* Values for Personas.
BullAndBear == <<"bull", "bear">>

VARIABLE part

Alone(p) ==
    /\ part = p /\ UNCHANGED part
    /\ IF p = "backups" THEN BackupsNext ELSE UNCHANGED backupsVars
    /\ IF p = "tokens" THEN TokensNext ELSE UNCHANGED tokensVars
    /\ IF p = "predictions" THEN PredictionsNext ELSE UNCHANGED predictionsVars
    /\ IF p = "postmortems" THEN PostMortemsNext ELSE UNCHANGED postMortemsVars
    /\ IF p = "fires" THEN ObserverFiresNext ELSE UNCHANGED observerFiresVars
    /\ IF p = "thread" THEN ObserverThreadNext ELSE UNCHANGED observerThreadVars
    /\ IF p = "batches" THEN BatchesNext ELSE UNCHANGED batchesVars
    /\ IF p = "costcaps" THEN CostCapsNext ELSE UNCHANGED costCapsVars
    /\ IF p = "conditions" THEN ConditionsNext ELSE UNCHANGED conditionsVars
    /\ IF p = "mcp" THEN McpNext ELSE UNCHANGED mcpVars
    /\ IF p = "sweep" THEN DeskSweepNext ELSE UNCHANGED deskSweepVars
    /\ IF p = "debate" THEN DebatesNext ELSE UNCHANGED debatesVars
    /\ IF p = "capture" THEN CapturesNext ELSE UNCHANGED capturesVars
    /\ IF p = "toolloop" THEN ToolLoopNext ELSE UNCHANGED toolLoopVars

Parts == {"backups", "tokens", "predictions", "postmortems", "fires", "thread", "batches", "costcaps",
          "conditions", "mcp", "sweep", "debate", "capture", "toolloop"}

\* Where a part has several initial states, it has one of them while others run.
ServicesInit ==
    /\ part \in Parts
    /\ BackupsInit /\ TokensInit /\ PredictionsInit /\ PostMortemsInit /\ ObserverFiresInit
    /\ ObserverThreadInit /\ BatchesInit /\ CostCapsInit /\ ConditionsInit
    /\ McpInit /\ DeskSweepInit /\ DebatesInit /\ CapturesInit /\ ToolLoopInit
    /\ part # "conditions" => condition = CHOOSE c \in Condition : Len(c.leaves) = 1
    /\ part # "mcp" => issues
    /\ part # "toolloop" => dialect = "claude" /\ tools

ServicesNext == \E p \in Parts : Alone(p)

ServicesSpec == ServicesInit /\ [][ServicesNext]_<<part, backupsVars, tokensVars, predictionsVars,
    postMortemsVars, observerFiresVars, observerThreadVars, batchesVars, costCapsVars, conditionsVars,
    mcpVars, deskSweepVars, debatesVars, capturesVars, toolLoopVars>>

\* The types of every part.
ServicesTypeOK ==
    /\ part = "backups" => BackupsTypeOK
    /\ part = "tokens" => TokensTypeOK
    /\ part = "predictions" => PredictionsTypeOK
    /\ part = "postmortems" => PostMortemsTypeOK
    /\ part = "fires" => ObserverFiresTypeOK
    /\ part = "thread" => ObserverThreadTypeOK
    /\ part = "batches" => BatchesTypeOK
    /\ part = "costcaps" => CostCapsTypeOK
    /\ part = "conditions" => ConditionsTypeOK
    /\ part = "mcp" => McpTypeOK
    /\ part = "sweep" => DeskSweepTypeOK
    /\ part = "debate" => DebatesTypeOK
    /\ part = "capture" => CapturesTypeOK
    /\ part = "toolloop" => ToolLoopTypeOK
==============================================================================
