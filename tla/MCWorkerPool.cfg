SPECIFICATION FairSpec
CONSTANTS
    g1 = g1  g2 = g2  x1 = x1
    Grown = {g1}
    External = {x1}
    MaxLink <- MCLinks
    Max = 1
    Slots = 1
    Faults = {"drop", "start", "exit", "late", "register", "database", "shutdown"}
INVARIANTS TypeOK HiddenBlamesFormerLink ListedIsServed ConnectedIsReported
PROPERTIES DeletedStaysDeleted GrowReturns
CHECK_DEADLOCK FALSE
