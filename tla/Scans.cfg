SPECIFICATION FairSpec
CONSTANTS
    Device = {d1, d2}
    Timeout = {0, 2}
    Faults = {"filter", "manager", "discovery", "thread",
              "socket", "request", "options", "read", "unplugged"}
    MaxScans = 2
INVARIANTS
    TypeOK
    UsedAlive
    NothingLeft
    ReportedOnce
PROPERTIES
    ScanEnds
