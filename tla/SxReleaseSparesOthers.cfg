SPECIFICATION Spec
CONSTANTS
    c1 = c1
    c2 = c2
    u1 = u1
    CPFs = {c1, c2}
    UPFs = {u1}
    Workers = {w1}
    Timers = {g1}
    Strays = {}
    MaxSessions = 1
    BasePdrs = {1}
    ExtraPdrs = {}
    AdminStates = {"DOWN","UP"}
    FirstPeer <- MCFirstPeer
    Lossy = FALSE
    MaxReports = 1
    MaxRestarts = 0
    None = None
PROPERTY ReleaseSparesOthers
