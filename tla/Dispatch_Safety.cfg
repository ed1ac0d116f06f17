SPECIFICATION Spec
CONSTANTS
    Bookings = {b1, b2}
    Drivers = {d1, d2}
    NoDriver = NoDriver
    MaxAttempts = 3
    MaxRequests = 2
    MaxFaults = 1
SYMMETRY Symmetry
CONSTRAINTS
    FewAtOnce
    TwoCompete
INVARIANTS
    LockIsExclusive
    OneLiveAssignment
    AssignedDriverHasOffer
    OfferedDriverHasOffer
    PickedUpIsPaid
PROPERTIES
    NeverOfferedAgain
CHECK_DEADLOCK FALSE
