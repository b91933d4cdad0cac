SPECIFICATION Spec
CONSTANTS
  Numerals <- MCNumerals
  KeyOrder <- MCKeyOrder
  Escapes <- MCEscapes
  Spelling <- MCSpelling
  MaxDepth = 6
  Word = 2
  SegmentLimit = 3
  Calls <- RecursiveCalls
  Huge = 9
  NoFile = NoFile
  Contents <- MCContents
  MaxChanges = 2
INVARIANT
  DecisionsFollowSelector
