SPECIFICATION Spec

CONSTANTS
    MaxRows          = 2
    Budget           = 1
    MaxReplacements  = 0
    Confirmations    = 1
    RebroadcastAfter = 1
    Charges          = {TRUE, FALSE}
    PinnedBlock      = FALSE
    MayRevert        = FALSE
    MayForeign       = TRUE
    MayDrift         = FALSE
    MaxNoise         = 0
    MaxReorgs        = 0
    ReorgDepth       = 1
    MaxFaults        = 1

INVARIANT OneUnresolved
INVARIANT FreedMeansSpent
INVARIANT ForeignIsReal
PROPERTY ForeignHoldsLane

\* The bounded lane ends when its rows are used up or the vault is paused.
CHECK_DEADLOCK FALSE
