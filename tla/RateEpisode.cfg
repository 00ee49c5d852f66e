SPECIFICATION FairSpec
CONSTANTS
    MaxHead = 6
    MaxRewinds = 1
    MaxTxs = 2
    Movements = {2}
    Opportunities = 2
    Lifetime = 3
    PersistAfter = 1
    MinEvents = 1
    Overlap = {}
INVARIANTS MovementAccounted 
PROPERTY  EpisodeEnds
CHECK_DEADLOCK FALSE
