SPECIFICATION Spec
CONSTANTS
  Keys <- ValueKeys
  Hash <- ValueHash
  Class <- ValueClass
  Represented <- ValueRepresented
  Values = {v1, v2}
  NoAnswer = NoAnswer
  KeyError = KeyError
  NoIterator = NoIterator
  MaxEntries = 3
  MaxItems = 4
  SmallBits = 4
  WordBits = 6
  HashBits = 3
  Operands <- ValueOperands
  MaxMagnitude = 4200
  MaxBase = 16
  MaxExponent = 3
  Names = {"m"}
  Methods = {"m"}
  Others = {Exception}
  MaxClasses = 4
  MaxBases = 2
SYMMETRY StoredAlike
VIEW Unasked
INVARIANTS IndexSound IterationSound SetDistinct NumbersExact SubclassIsReachable LookupIsDepthFirst AgreesWithC3
PROPERTY MapImplemented
CHECK_DEADLOCK FALSE
