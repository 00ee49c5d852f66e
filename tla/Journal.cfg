CONSTANTS
    Client = {c1}
    MaxCommand = 4
    SegmentEvents = 2
    MaxSegments = 4
    Capacity = 2
    MaxCrashes = 2
    MaxIoErrors = 1
    AppendLeaves = {"none"}
    None = None
SPECIFICATION Spec
INVARIANTS AckedDurable Reopens ReadSettles
PROPERTIES Atomic Served
CHECK_DEADLOCK FALSE
