SPECIFICATION Spec
CONSTANTS
    g1 = g1  g2 = g2  x1 = x1
    Grown = {g1, g2}
    External = {}
    MaxLink <- MCLinks
    Max = 1
    Slots = 1
    Faults = {}
PROPERTY ReadyWorkerSurvives
CHECK_DEADLOCK FALSE
