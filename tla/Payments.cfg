SPECIFICATION MCSpec
CONSTANTS
    Bookings = {b1}
    NoBooking = NoBooking
    Links = {l1, l2}
    NoLink = NoLink
    Calls = {c1, c2}
    MaxFaults = 1
    TopUps = {r1, r2}
    NoTopUp = NoTopUp
    Payments = {p1}
    TopUpCalls = {k1, k2}
    MaxCredits = 2
    MaxTopUpFaults = 1
    Vehicles <- MCVehicles
    Jobs <- MCJobs
    Balances <- MCBalances
    Waits <- MCWaits
    Requests <- MCRequests
    Customers = {u1, u2}
    Drivers = {d1, d2}
    Rides = {s1, s2}
    NoUser = NoUser
    Applications = {a1, a2}
    MaxReferralFaults = 1
INVARIANTS
    PaidIsBacked
    ReturnsWhatWasPaid
    SettledIsBacked
    MoneyAddsUp
    BonusesMatch
    OnlyRacesLose
PROPERTIES
    PaymentIsBooked
    TopUpIsCredited
    RewardComes
CHECK_DEADLOCK FALSE
