SPECIFICATION DirectSpec
CONSTANTS
  WINDOW = 2
  Exhausted = 3
  Length = {2, 6, 9}
  Mtu = {4, 5}
  HeaderLen = 1
  MaxLen = 10
  MaxFragments = 2
  MaxEntries = 2
  Ttl = 1
  MaxTime = 2
  MaxSends = 3
  MaxLives = 2
CHECK_DEADLOCK FALSE
INVARIANTS
    DirectInv
    ArrivedIsOpened
PROPERTIES
    KeepsPromise
