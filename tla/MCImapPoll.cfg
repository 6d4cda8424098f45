SPECIFICATION FairSpec
CONSTANTS
    m1 = m1
    m2 = m2
    m3 = m3
    m4 = m4
    None = None
    Cap = 2
    Msgs = {m1, m2, m3, m4}
    LongPoll = TRUE
    MaxFaults = 3
INVARIANTS
    TypeOK
    HandedOnce
    NoSilentLoss
    HangNeedsBacklog
    QuietAfterStop
PROPERTIES
    StopReturnsUnlessHung
    MailIsHanded
CHECK_DEADLOCK FALSE
