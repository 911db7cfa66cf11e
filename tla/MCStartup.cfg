SPECIFICATION FairSpec
CONSTANTS
  NumSignals = 2
  Ignored <- MCIgnored
  ExitCodes <- MCExitCodes
  MaxSignals = 2
INVARIANTS
  TypeOK
  StartsAtMostOnce
  PassthroughIsClean
  ForwardingCoversCommand
  ForwardsOnlyToOwnChild
  CommandKeepsItsSupervisor
  OrphanNeverStarts
PROPERTIES
  ImplementsContract
  StartupDecides
  ChildEndIsNoticed
  OrphanResolves
  CommandStarts
