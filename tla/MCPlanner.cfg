\* Every graph on four names with short lists, any subset of the names
\* registered: cycles beside the request, names declared twice, diamonds and
\* chains of four levels.
CONSTANTS
    a = a
    b = b
    c = c
    d = d
    Names = {a, b, c, d}
    DepLists <- ShortLists
    Requests <- SomeRequests
SPECIFICATION Spec
INVARIANTS
    TypeOK
    ExpansionIsClosure
    LevelsAreRanking
    CycleReportedIffKnot
    CountsAreUnmetEntries
PROPERTY PlanningEnds
CHECK_DEADLOCK FALSE
