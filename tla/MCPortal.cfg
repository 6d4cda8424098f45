SPECIFICATION Spec
CONSTANTS
    q1 = q1
    q2 = q2
    q3 = q3
    e1 = e1
    e2 = e2
    h1 = h1
    Requests = {q1, q2, q3}
    Asks <- MCAsks
    Emails = {e1, e2}
    Hashes = {h1}
    MaxReassign = 1
    MaxFaults = 2
INVARIANTS
    DuplicateNeedsOverlap
    AnsweredIsStored
    AccessIsGranted
    EvidenceIsWhole
CHECK_DEADLOCK FALSE
