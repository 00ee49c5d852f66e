SPECIFICATION Spec

CONSTANTS
    MaxRows          = 2
    Budget           = 2
    MaxReplacements  = 0
    Confirmations    = 1
    RebroadcastAfter = 1
    Charges          = {TRUE}
    PinnedBlock      = FALSE
    MayRevert        = TRUE
    MayForeign       = FALSE
    MayDrift         = FALSE
    MaxNoise         = 0
    MaxReorgs        = 1
    ReorgDepth       = 1
    MaxFaults        = 0

INVARIANT OneUnresolved

\* The bounded lane ends when its rows are used up or the vault is paused.
CHECK_DEADLOCK FALSE
