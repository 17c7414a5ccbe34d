SPECIFICATION Spec
CONSTANTS
  m1 = m1
  m2 = m2
  m3 = m3
  Mac = {m1, m2, m3}
  Readings = {0}
  NoCall = NoCall
  Junk = Junk
  NoFile = NoFile
  Faults = {"open", "send"}
  Whitelist = NoFile
  Expiry = 0
  TxRoom = 3
  FilterCapacity = 1
  MaxTime = 1
  MaxQueue = 2
  MaxKeys = 0
SYMMETRY Beacons
INVARIANTS
  TypeOK
  MutexInv
  BeaconsListedOnce
  QueueInOrder
  AgeNotNegative
  PacketSound
  AbortsOnlyInWindows
PROPERTIES
  DrainUndisturbed
  ImplementsReports
CHECK_DEADLOCK FALSE
