SPECIFICATION FairSpec

CONSTANTS
    Services    = {"storage", "chain", "state", "worker", "watchdog"}
    Restartable = {"chain", "state", "worker", "watchdog"}
    Core        = {"chain", "state"}
    Rivals      = {{"chain", "signer"}}
    Window      = 2
    MaxFaults   = 2
    MaxSignals  = 1

INVARIANTS LaneExclusive
PROPERTY Stops StuckIsStopped
