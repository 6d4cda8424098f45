SPECIFICATION FairSpec
CONSTANTS
    Scans = {s1, s2}
    Workers = 1
    MaxFaults = 3
    None = None
INVARIANTS TypeOK PoolServes VerdictHasResults FirstAttemptIsSilent
PROPERTIES SettlesForGood ScanSettles
CHECK_DEADLOCK FALSE
