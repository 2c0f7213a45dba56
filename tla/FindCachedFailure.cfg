SPECIFICATION FairScriptSpec
CONSTANTS
  Sources <- FailingImport
  Names <- MCNames
  MAX_STACK = 4
INVARIANT FailedImportNotCached
