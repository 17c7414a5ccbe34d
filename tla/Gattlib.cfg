SPECIFICATION Spec
CONSTANTS
    Conn = {c1, c2}
    NoConn = NoConn
    MaxHandles = 1
    Faults = {"open", "connect", "objects", "thread", "handle", "request"}
INVARIANTS
    TypeOK
    UsedAlive
    Served
PROPERTY
    CallsReturn
CHECK_DEADLOCK FALSE
