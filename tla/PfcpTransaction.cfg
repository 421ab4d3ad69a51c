\* Three calls, all of them possibly in progress at once, and one heartbeat over
\* three sequence numbers: the numbers wrap round and are used again.
SPECIFICATION FairSpec
CONSTANTS
    Calls = {c1, c2, c3}
    Beats = {b1}
    SeqMod = 3
    None = None
INVARIANTS TypeOK Correlation WokenWithAnswer PendingExact
PROPERTIES CallsReturn ImplementsRpc
CHECK_DEADLOCK FALSE
