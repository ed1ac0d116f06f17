SPECIFICATION MCSpec
CONSTANTS
    Docs = {d1}
    NoDoc = NoDoc
    MaxRequests = 2
    VCalls = {c1, c2}
    MaxVFaults = 1
INVARIANTS VerifiedWasAccepted RejectionHolds
PROPERTIES VApprovedEnds RequestComes
CHECK_DEADLOCK FALSE
