SPECIFICATION FairSpec
CONSTANTS
  m1 = m1
  m2 = m2
  m3 = m3
  Mac = {m1, m2}
  Readings = {0}
  NoCall = NoCall
  Junk = Junk
  NoFile = NoFile
  Faults = {}
  Whitelist = NoFile
  Expiry = 0
  TxRoom = 2
  FilterCapacity = 1
  MaxTime = 1
  MaxQueue = 2
  MaxKeys = 2
PROPERTIES
  Reported
  Forgotten
  Withdrawn
CHECK_DEADLOCK FALSE
