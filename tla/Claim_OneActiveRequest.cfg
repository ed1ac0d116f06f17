SPECIFICATION MCSpec
CONSTANTS
    Docs = {d1}
    NoDoc = NoDoc
    MaxRequests = 2
    VCalls = {c1}
    MaxVFaults = 0
INVARIANT OneActiveRequest
CHECK_DEADLOCK FALSE
