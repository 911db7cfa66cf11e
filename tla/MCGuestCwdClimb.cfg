SPECIFICATION Spec
CONSTANTS
  Names <- MCNames
  Reserved <- MCReserved
  Procs = {1}
  Command = 1
  Fds = {}
  View <- MCView
  HostDirs <- MCHostDirs
  CallerCwd <- MCCallerCwd
  StartCwds <- MCRootCwd
  Args <- MCArgs
  MaxCalls = 6
INVARIANT OutsidePathsKeepTheirMeaning
