SPECIFICATION FairScriptSpec
CONSTANTS
  Sources <- MCSources
  Names <- MCNames
  MAX_STACK = 4
INVARIANTS TypeOK CallersWait ActivationsNested
