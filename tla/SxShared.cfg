SPECIFICATION Spec
CONSTANTS
    c1 = c1
    c2 = c2
    u1 = u1
    CPFs = {c1, c2}
    UPFs = {u1}
    Workers = {w1}
    Timers = {}
    Strays = {}
    MaxSessions = 2
    BasePdrs = {1}
    ExtraPdrs = {9}
    AdminStates = {}
    FirstPeer <- MCFirstPeer
    Lossy = FALSE
    MaxReports = 0
    MaxRestarts = 0
    None = None
INVARIANTS FteidExclusive NoOrphan RulesAgree
