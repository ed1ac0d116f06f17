SPECIFICATION FairSpec
CONSTANTS
    Requests = {r1}
    NoRequest = NoRequest
    Intents = {i1, i2, i3}
    NoIntent = NoIntent
    Calls = {c1, c2}
    MaxFaults = 1
INVARIANTS CompletedWasRefunded RefundedOnce NoRefundAfterRevert BufferIsKept
CHECK_DEADLOCK FALSE
PROPERTIES ApprovedIsRefunded
