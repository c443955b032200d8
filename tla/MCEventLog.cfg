\* Two Compare branches broadcast to one viewer that drops and reconnects.
SPECIFICATION Spec
CONSTANTS
    Producers = {p1, p2}
    Buffer = 2
    ChanCap = 1
    TTL = 3
    IdleAfter = 2
    MaxEvents = 3
SYMMETRY ProducerSymmetry
INVARIANTS
    TypeOK
    DispatchedOnce
    RunOrder
    CaughtUp
