\* The run that shows a cancelled message overwritten by a provider error.
SPECIFICATION Spec
CONSTANTS
    MaxText = 2
    MaxRounds = 2
INVARIANT CancelWins
CHECK_DEADLOCK FALSE
