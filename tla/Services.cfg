\* Each service on a small instance; processes are r1 and r2, requests q1 and q2.
SPECIFICATION ServicesSpec
SYMMETRY Interchangeable
CHECK_DEADLOCK FALSE
CONSTANTS
    Replicas = {r1, r2}
    Requests = {q1, q2}
    None = None
    IdleTtl = 2
    AbsoluteTtl = 3
    RenewalGain = 1
    AccessTtl = 2
    Revalidate = 1
    BackoffMax = 2
    MaxTime = 3
    MaxFaults = 1
    LoginReplicas = {r1, r2}
    Browsers = {b1, b2}
    Callbacks = {q1, q2}
    Accounts = {alice, mallory}
    Allowed = {alice}
    NoEmail = {}
    Nobody = Nobody
    PendingTtl = 0
    MaxLogins = 2
    MaxLoginTime = 1
    TokenReplicas = {r1, r2}
    Tokens = {t1, t2}
    Calls = {c1}
    Metadata = {pi}
    Unset = Unset
    Capacity = 1
    CacheTtl = 1
    MaxTokenTime = 1
    Questions = {x1, x2}
    Weights = {1, 2}
    DrawIds = {i1, i2}
    NoDrawId = NoDrawId
    Draws = {q1, q2}
    NoQuestion = NoQuestion
    HistoryLimit = 1
    CycleMax = 1
    Dispatchers = {r1, r2}
    Phones = {p1}
    NoLease = NoLease
    Lease = 3
    FenceMinimum = 2
    Timeout = 1
    MaxQueue = 1
    MaxVersion = 2
    MaxPushTime = 4
    Servers = {r1, r2}
    Offline = Offline
    MaxRows = 2
    MaxBeats = 1
    MaxLiveEras = 2
    MaxFrames = 2
    Sockets = {s1, s2, s3}
    NoSocket = NoSocket
    Unfetched = Unfetched
    MaxChanges = 2
    Audio = {a1}
    Submissions = {q1, q2}
    NoAudio = NoAudio
    Clips = {i1, i2}
    Recs = {q1, q2}
    Staff = {alice}
    NoStaff = NoStaff
    Unfrozen = Unfrozen
    TakesNull = TRUE
    Shelf = {k1}
    LastEra = 2
    Ids = {1, 2}
    MaxStamp = 2
    Limit = 1
INVARIANTS
    MCOnlyEntitledAreServed
    MCSessionsAreEarned
    MCDeadTokenIsRefused
    MCTicketsAreExact
    MCCardsHaveAudio
    MCInstructionIsFound
    MCDeliveredIsShown
    MCAlertSoundsOnce
    MCConsoleIsUpToDate
    MCFeedIsSound
    MCWritesAreShown
    MCRestoredRowsFit
    MCWalkIsComplete
PROPERTIES
    MCSignOutIsJustified
    MCRetryGetsSameQuestion
    MCDrawsAreTickets
    MCBadgeNeverGoesBack
    MCRestoreLeavesErasSettled
