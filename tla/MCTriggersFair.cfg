\* One tick at a time, two of which may be lost: the first fire comes.
SPECIFICATION FairSpec
CONSTANTS
    Ticks = {t1}
    Workers = {w1}
    Cooldown = 1
    LockTTL = 1
    MaxQueue = 1
    MaxFaults = 2
PROPERTIES
    FirstFire
