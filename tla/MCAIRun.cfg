\* Safety, refinement and liveness of one run, its stop request and its limits.
SPECIFICATION FairSpec
CONSTANTS
    MaxText = 2
    MaxRounds = 2
INVARIANTS
    TypeOK
    AtMostOneAIRun
    DoneIsComplete
    LedgerFaithful
    StuckOnlyIfDied
    SettledClientAgrees
PROPERTIES
    FrozenUnlessError
    ImplementsRunOutcome
    WorkerFreed
    StopHalts
\* A run ends: once the task and the stop request are through, nothing is left.
CHECK_DEADLOCK FALSE
