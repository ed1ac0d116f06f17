SPECIFICATION MCSpec
CONSTANTS
    Devices = {d1}
    NoDevice = NoDevice
    Slots = {s1, s2}
    NoSlot = NoSlot
    AuthCalls = {a1, a2}
    MaxRetryCount = 2
    MaxCodes = 2
    MaxToken = 4
    Admins = {u1, u2}
    NoAdmin = NoAdmin
    AdminSlots = {t1, t2}
    NoAdminSlot = NoAdminSlot
    PortalCalls = {p1, p2}
    MaxPasswords = 1
    MaxPortalFaults = 1
    Notices = {m1}
    Browsers = {f1}
    NoBrowser = NoBrowser
    TokenCalls = {h1}
    MaxNoticeFaults = 1
    Entries = {e1, e2}
    Archivals = {r1, r2}
    RetentionDays = 1
    MaxDay = 2
    MaxAuditFaults = 1
    SavedAddresses = {v1, v2}
    NoAddress = NoAddress
    Edits = {k1, k2}
    GstNumbers = {g1}
    Applicants = {b1, b2}
    Identities = {i1}
    NoIdentity = NoIdentity
    Registrations = {q1, q2}
    Streams = {x1, x2, x3}
    Tracked = {w1}
    Conns = {c1, c2}
    NoConn = NoConn
    MaxBusFaults = 1
    Agents = {n1, n2}
    NoAgent = NoAgent
    Tellings = {y1, y2}
    Handlers = {z1, z2}
    MaxReports = 4
    MaxDeskFaults = 1
SYMMETRY Symmetry
INVARIANTS DeviceKeepsSession CodeIsSpent SessionsAreInvalidated NoEntryIsLost
    OneDefaultAddress OneDriverPerIdentity LiveIsHeard AssigneesAgree PushesAreOwed
CHECK_DEADLOCK FALSE
