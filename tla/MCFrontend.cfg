CONSTANTS
  Words <- MCWords
  Identifiers <- MCIdentifiers
  Strings <- MCStrings
  Sources <- MCSources
SPECIFICATION Spec
INVARIANTS TypeOK BlocksBalanced RoundTrip ResolvesNames
PROPERTY LexerEnds
CHECK_DEADLOCK FALSE
