SPECIFICATION FairScriptSpec
CONSTANTS
  Sources <- ReturnInTry
  Names <- MCNames
  MAX_STACK = 4
INVARIANT UncaughtIsAnErr
