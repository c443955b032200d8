\* The run that shows the usage of a failed primary dropped by the failover.
SPECIFICATION Spec
CONSTANTS
    MaxText = 2
    MaxRounds = 2
INVARIANT AllUsageCounted
CHECK_DEADLOCK FALSE
