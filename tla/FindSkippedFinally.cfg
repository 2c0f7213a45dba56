SPECIFICATION FairScriptSpec
CONSTANTS
  Sources <- UnmatchedWithFinally
  Names <- MCNames
  MAX_STACK = 4
INVARIANT FinallyRuns
