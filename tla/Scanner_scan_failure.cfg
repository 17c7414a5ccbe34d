SPECIFICATION FairSpec
CONSTANTS
  m1 = m1
  m2 = m2
  m3 = m3
  Mac = {m1, m2}
  Readings = {0}
  NoCall = NoCall
  Junk = Junk
  NoFile = NoFile
  Faults = {"scan"}
  Whitelist = NoFile
  Expiry = 1
  TxRoom = 2
  FilterCapacity = 1
  MaxTime = 0
  MaxQueue = 1
  MaxKeys = 2
PROPERTIES
  DataThreadServed
CHECK_DEADLOCK FALSE
