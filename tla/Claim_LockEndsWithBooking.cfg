SPECIFICATION FairSpec
CONSTANTS
    Bookings = {b1}
    Drivers = {d1}
    NoDriver = NoDriver
    MaxAttempts = 2
    MaxRequests = 1
    MaxFaults = 0
PROPERTIES
    LockEndsWithBooking
CHECK_DEADLOCK FALSE
