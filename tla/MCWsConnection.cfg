SPECIFICATION FairSpec
CONSTANTS
    r = r  m1 = m1  m2 = m2  m3 = m3  m4 = m4
    NoMsg = NoMsg
    Msg = {r, m1, m2, m3, m4}
    Response = r
    ChannelCap = 2
    Faults = {"slow", "write", "drop", "refuse"}
INVARIANTS TypeOK AbandonedIsLast
PROPERTIES ImplementsSendContract DeadLinkIsRemoved CallersReturn
CHECK_DEADLOCK FALSE
