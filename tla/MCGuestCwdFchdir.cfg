SPECIFICATION Spec
CONSTANTS
  Names <- MCNames
  Reserved <- MCReserved
  Procs = {1}
  Command = 1
  Fds = {3}
  View <- MCView
  HostDirs <- MCHostDirs
  CallerCwd <- MCCallerCwd
  StartCwds <- MCStartCwds
  Args <- MCExistingArgs
  MaxCalls = 6
INVARIANT SeenCwdIsGuestCwd
