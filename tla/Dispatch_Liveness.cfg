SPECIFICATION FairSpec
CONSTANTS
    Bookings = {b1}
    Drivers = {d1}
    NoDriver = NoDriver
    MaxAttempts = 2
    MaxRequests = 1
    MaxFaults = 1
PROPERTIES
    PendingEnds
CHECK_DEADLOCK FALSE
