SPECIFICATION Spec
CONSTANTS
    r = r  m1 = m1  m2 = m2  m3 = m3  m4 = m4
    NoMsg = NoMsg
    Msg = {r, m1, m2, m3, m4}
    Response = r
    ChannelCap = 2
    Faults = {"slow"}
SYMMETRY MCSymmetry
INVARIANT ErrorMeansUnsent
CHECK_DEADLOCK FALSE
