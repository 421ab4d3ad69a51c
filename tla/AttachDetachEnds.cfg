SPECIFICATION FairSpec
CONSTANTS
    MaxCommands = 2
    MaxFaults = 0
    None = None
CHECK_DEADLOCK FALSE
PROPERTY DetachEnds
