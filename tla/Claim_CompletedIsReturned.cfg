SPECIFICATION MoneySpec
CONSTANTS
    Vehicles <- MCVehicles
    Jobs <- MCJobs
    Balances <- MCBalances
    Waits <- MCWaits
    Requests <- MCRequests
INVARIANT CompletedIsReturned
CHECK_DEADLOCK FALSE
