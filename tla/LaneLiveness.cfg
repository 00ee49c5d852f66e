SPECIFICATION FairSpec

CONSTANTS
    MaxRows          = 1
    Budget           = 2
    MaxReplacements  = 1
    Confirmations    = 1
    RebroadcastAfter = 1
    Charges          = {TRUE}
    PinnedBlock      = TRUE
    MayRevert        = TRUE
    MayForeign       = FALSE
    MayDrift         = FALSE
    MaxNoise         = 1
    MaxReorgs        = 0
    ReorgDepth       = 1
    MaxFaults        = 2

INVARIANT DurableBeforeBroadcast
INVARIANT NoFalseAlarm
PROPERTY LaneResolves

\* The bounded lane ends when its rows are used up or the vault is paused.
CHECK_DEADLOCK FALSE
