SPECIFICATION Spec
CONSTANTS
  sys_path <- MCSysPath
  Private <- MCPrivate
  MaxDepth = 12
INVARIANTS TypeOK NotOvertaken OneModulePerFile SubmodulesBound ReadyMeansRun NoInternalError
PROPERTIES CacheImplemented Termination
