\* Two overlapping ticks and two fire workers; a fault or an edit in between.
SPECIFICATION Spec
CONSTANTS
    Ticks = {t1, t2}
    Workers = {w1, w2}
    Cooldown = 1
    LockTTL = 1
    MaxQueue = 1
    MaxFaults = 1
SYMMETRY TaskSymmetry
INVARIANTS
    TypeOK
    FireExclusive
    LaunchedOnce
PROPERTIES
    CooldownKept
