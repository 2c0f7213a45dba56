SPECIFICATION FairScriptSpec
CONSTANTS
  Sources <- MCSources
  Names <- MCNames
  MAX_STACK = 4
INVARIANTS CompilesBalanced InitializedAfterImport GeneratorFrames RunningHasFrame ResumeContract NoPanic LoadedOnce
PROPERTIES Contained CompletedForGood Termination
