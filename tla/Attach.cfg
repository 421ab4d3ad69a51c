SPECIFICATION FairSpec
CONSTANTS
    MaxCommands = 3
    MaxFaults = 1
    None = None
CHECK_DEADLOCK FALSE
INVARIANTS TypeOK Settled SessionsVerified InOrder
PROPERTIES AttachAnswered ImplementsRegistration
