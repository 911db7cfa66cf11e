SPECIFICATION Spec
CONSTANTS
  Threads = {1, 2}
  Numbers = {3, 4}
  Dirs = {"d", "e"}
  Opens <- MCOpens
  Contents <- MCContents
  Spare <- MCSpare
  Capacities = {0, 2}
  MaxOpens = 2
  MaxReads = 3
  MaxTricks = 2
INVARIANTS
  TypeOK
  EveryEntryOnce
  OnlyItsOwnDirectory
