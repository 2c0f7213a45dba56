SPECIFICATION FairScriptSpec
CONSTANTS
  Sources <- MCSources
  Names <- MCNames
  MAX_STACK = 4
INVARIANTS CompilesBalanced HandlerDiscipline AgreesWithPython StackUsedUp NoPanic
PROPERTY Termination
