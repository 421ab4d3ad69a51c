SPECIFICATION FairSpec
CONSTANTS
    c1 = c1
    c2 = c2
    u1 = u1
    CPFs = {c1}
    UPFs = {u1}
    Workers = {w1, w2}
    Timers = {g1}
    Strays = {}
    MaxSessions = 2
    BasePdrs = {1}
    ExtraPdrs = {}
    AdminStates = {"DOWN"}
    FirstPeer <- MCFirstPeer
    Lossy = FALSE
    MaxReports = 1
    MaxRestarts = 0
    None = None
INVARIANTS NoGhost 
PROPERTY GuardReleases
