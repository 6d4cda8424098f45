SPECIFICATION FairSpec
CONSTANTS
    open = open
    q1 = q1
    q2 = q2
    progress = progress
    resolved = resolved
    r1 = r1
    r2 = r2
    text1 = text1
    text2 = text2
    Requests = {open, q1, q2}
    Reporters = {r1, r2}
    New = New
    Statuses = {New, progress, resolved}
    Blank = Blank
    Texts = {text1, text2, Blank}
    Asks <- MCAsks
    MaxFaults = 1
    None = None
INVARIANTS
    TypeOK
    NoticeTellsPassage
    HistoryTellsStatus
    LostUpdateNeedsOverlap
    LastMailIsCurrent
PROPERTY
    ChangeIsTold
CHECK_DEADLOCK FALSE
