SPECIFICATION Spec
CONSTANTS
    Scans = {s1}
    Workers = 1
    MaxFaults = 3
    None = None
PROPERTIES AnnouncesLatestScan
CHECK_DEADLOCK FALSE
