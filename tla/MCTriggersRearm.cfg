\* One tick and one fire worker, no faults: what happens to a trigger that fired.
SPECIFICATION FairSpec
CONSTANTS
    Ticks = {t1}
    Workers = {w1}
    Cooldown = 1
    LockTTL = 1
    MaxQueue = 1
    MaxFaults = 0
PROPERTIES
    RearmsOnFalse
