SPECIFICATION MCSpec
CONSTANTS
    Bookings = {b1}
    NoBooking = NoBooking
    Intents = {i1}
    OneIntent = i1
    Workers = {w1, w2}
    Amounts = {0, 1}
    MaxRetries = 2
    MaxFaults = 0
    Credits = {c1}
    Payouts = {p1}
    PayoutCalls = {k1}
    MaxPayoutFaults = 0
INVARIANTS
    RefundIsIdempotent
CHECK_DEADLOCK FALSE
