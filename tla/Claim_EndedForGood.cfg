SPECIFICATION Spec
CONSTANTS
    Bookings = {b1}
    Drivers = {d1}
    NoDriver = NoDriver
    MaxAttempts = 2
    MaxRequests = 1
    MaxFaults = 0
PROPERTIES
    EndedForGood
CHECK_DEADLOCK FALSE
