SPECIFICATION FairScriptSpec
CONSTANTS
  Sources <- RaisingGenerator
  Names <- MCNames
  MAX_STACK = 4
INVARIANT ResumeContract
