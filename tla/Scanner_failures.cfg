SPECIFICATION Spec
CONSTANTS
  m1 = m1
  m2 = m2
  m3 = m3
  Mac = {m1}
  Readings = {0, 60}
  NoCall = NoCall
  Junk = Junk
  NoFile = NoFile
  Faults = {"thread", "open", "scan", "sample", "deque", "table", "key", "entry", "grow", "send", "filter", "fopen"}
  Whitelist <- ListedTwice
  Expiry = 0
  TxRoom = 2
  FilterCapacity = 1
  MaxTime = 1
  MaxQueue = 1
  MaxKeys = 2
INVARIANTS
  WhitelistLoaded
CHECK_DEADLOCK FALSE
