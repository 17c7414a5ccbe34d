SPECIFICATION Spec
CONSTANTS
    near = near
    far = far
    NoNode = NoNode
    Node = {n1, n2, n3}
    Mac = {1, 2}
    Rssi <- MCRssi
    Packet <- MCPacket
    HeaderSize = 2
    EntrySize = 24
    LengthBits = 8
    MaxEntries = 2
SYMMETRY Symmetry
INVARIANTS
    TypeOK
    StoredWholeOnce
    OneReadingPerNode
CHECK_DEADLOCK FALSE
