SPECIFICATION FairSpec
CONSTANTS
    i1 = i1
    i2 = i2
    Imsis = {i1, i2}
    MaxProcs = 4
    MaxFaults = 2
    None = None
CHECK_DEADLOCK FALSE
INVARIANTS TypeOK ContextsAgree BearerWorks ContextBacked AddressExclusive
PROPERTIES S11Returns ImplementsService
