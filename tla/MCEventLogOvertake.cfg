\* Two Compare branches: a broadcast overtakes another.
SPECIFICATION Spec
CONSTANTS
    Producers = {p1, p2}
    Buffer = 2
    ChanCap = 1
    TTL = 3
    IdleAfter = 2
    MaxEvents = 2
SYMMETRY ProducerSymmetry
INVARIANTS
    NeverAGap
