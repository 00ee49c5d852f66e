CONSTANTS
    Vault = {v1}
    Started = {v1}
    MaxHead = 5
    MaxRows = 3
    MaxRewinds = 1
    SegmentEvents = 2
    Rescan = 1
    HotBlocks = 2
    HotSnapshots = 4
    HotPlans = 2
    HotTransactions = 2
    Day = 1
    DailyRows = 1
SPECIFICATION Spec
INVARIANTS  HotIsClosed
CHECK_DEADLOCK FALSE
