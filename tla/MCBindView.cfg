SPECIFICATION Spec
CONSTANTS
  Names <- MCNames
  Reserved <- MCReserved
  Binds <- MCBinds
  Cwds <- MCCwds
  LinkMaps <- MCLinkMaps
  HostDirs <- MCHostDirs
  HostFiles <- MCHostFiles
  MaxBinds = 3
  Arguments <- MCArguments
  MaxArgs = 4
INVARIANTS
  TypeOK
  NormalizeIsLexical
  LongestDestinationWins
  ResolvesBelowSource
  ReverseMappingLeadsBack
  RenameStaysInSource
  GuestCwdIsUsable
  CreatesOnlyForSources
  ReopenedViewIsTheSame
  ParsesItsGrammarAtStart
