SPECIFICATION Spec

CONSTANTS
    N          = 2
    Conditions = {"ok", "locks", "unsupported"}
    Gaps       = {}
    MaxEvents  = 1
    MaxFaults  = 1

PROPERTY QuarantineIsExplicit
