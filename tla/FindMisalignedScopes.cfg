CONSTANTS
  Words <- MCWords
  Identifiers <- MCIdentifiers
  Strings <- MCStrings
  Sources <- MCMisaligned
SPECIFICATION Spec
INVARIANT ScopesAligned
CHECK_DEADLOCK FALSE
