SPECIFICATION MCSpec
CONSTANTS
    Bookings = {b1}
    NoBooking = NoBooking
    Intents = {i1, i2}
    OneIntent = i1
    Workers = {w1, w2}
    Amounts = {0, 1}
    MaxRetries = 2
    MaxFaults = 3
    Credits = {c1}
    Payouts = {p1, p2}
    PayoutCalls = {k1, k2}
    MaxPayoutFaults = 2
INVARIANTS
    BooksFollowMoney
PROPERTIES
    KeepsPromise
    DueEnds
    PayoutKeepsPromise
    ChargeEnds
CHECK_DEADLOCK FALSE
