SPECIFICATION Spec

CONSTANTS
    MaxRows          = 1
    Budget           = 2
    MaxReplacements  = 0
    Confirmations    = 1
    RebroadcastAfter = 1
    Charges          = {TRUE}
    PinnedBlock      = FALSE
    MayRevert        = TRUE
    MayForeign       = TRUE
    MayDrift         = TRUE
    MaxNoise         = 0
    MaxReorgs        = 1
    ReorgDepth       = 2
    MaxFaults        = 1

INVARIANT ConfirmedIsCanonical
INVARIANT RecordIsCanonical
INVARIANT MovementFollowsState
PROPERTY ConfirmedNotOrphaned

\* The bounded lane ends when its rows are used up or the vault is paused.
CHECK_DEADLOCK FALSE
