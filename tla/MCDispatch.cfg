SPECIFICATION FairSpec
CONSTANTS
  Names <- MCNames
  Reserved <- MCReserved
  Tracees = {1, 2}
  Command = 1
  View <- MCView
  Calls <- MCCalls
  Trees <- MCTrees
  MaxCalls = 2
  MaxInterrupts = 1
INVARIANTS
  TypeOK
  AnswerTellsEffect
PROPERTIES
  ImplementsMountedCalls
  HiddenTreeIsLeftAlone
  EveryCallIsAnswered
  SupervisorFollowsCommand
