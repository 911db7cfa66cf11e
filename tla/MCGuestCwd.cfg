SPECIFICATION Spec
CONSTANTS
  Names <- MCNames
  Reserved <- MCReserved
  Procs = {1, 2}
  Command = 1
  Fds = {3}
  View <- MCView
  HostDirs <- MCHostDirs
  CallerCwd <- MCCallerCwd
  StartCwds <- MCStartCwds
  Args <- MCArgs
  MaxCalls = 6
INVARIANTS
  TypeOK
  FollowedCwdIsGuestCwd
  FollowedRelativePathsLand
  FdRelativePathsLand
