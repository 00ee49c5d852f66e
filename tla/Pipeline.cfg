SPECIFICATION FairSpec
CONSTANTS
    MaxHead = 3
    MaxTroubles = 1
    Depth = 1
    MaxEvents = 1
    Rescan = 2
    MaxPublished = 1
    LatestOnly = TRUE
    QueueCap = 1
    MayTimeOut = {"block", "degraded"}
    TickInterval = 2
    Lag = 1
    LagAfterReorg = FALSE
INVARIANTS PlanCoversReplay StateIsCovered PlanMatchesState
PROPERTY Converges
