SPECIFICATION Spec
CONSTANTS
  NumSignals = 2
  Ignored <- MCIgnored
  ExitCodes <- MCExitCodes
  MaxSignals = 1
INVARIANT CaughtSignalIsNotLost
