CONSTANTS
    Wad = 100
    VirtualShares = 2
    RateAtTarget = 20
    Scenarios <- AllScenarios
    MaxMoves = 2
    MaxStreak = 3
    Amounts = {2, 5}
    TopKConfig <- MemoryConfig
    Views <- MemoryViews
    FirstView <- LeadingView
    Observers = {o1, o2}
    o1 = o1
    o2 = o2
    MaxBlocks = 2
    MaxLooks = 3
    MaxSpan = 1
SYMMETRY ObserverSymmetry
SPECIFICATION Spec
INVARIANTS BooksBalance   SolvedPlansPass  ChangeIsConfirmed 
CHECK_DEADLOCK FALSE
