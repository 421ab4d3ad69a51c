SPECIFICATION Spec
CONSTANTS
    c1 = c1
    c2 = c2
    u1 = u1
    CPFs = {c1}
    UPFs = {u1}
    Workers = {w1}
    Timers = {g1}
    Strays = {x1}
    MaxSessions = 2
    BasePdrs = {1}
    ExtraPdrs = {9}
    AdminStates = {"DOWN"}
    FirstPeer <- MCFirstPeer
    Lossy = TRUE
    MaxReports = 0
    MaxRestarts = 1
    None = None
INVARIANTS TypeOK FteidAgreement RulesKnown IInv
