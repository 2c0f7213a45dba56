SPECIFICATION OvertakingSpec
CONSTANTS
  sys_path <- MCSysPath
  Private <- MCPrivate
  MaxDepth = 12
INVARIANTS NameLoadedOnce
