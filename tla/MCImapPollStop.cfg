SPECIFICATION FairSpec
CONSTANTS
    m1 = m1
    m2 = m2
    m3 = m3
    m4 = m4
    None = None
    Cap = 2
    Msgs = {m1, m2, m3, m4}
    LongPoll = FALSE
    MaxFaults = 0
PROPERTIES
    StopReturns

CHECK_DEADLOCK FALSE
