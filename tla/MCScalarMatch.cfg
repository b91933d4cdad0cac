\* Numbers with a long of two decimal digits and a buffer of a few bytes,
\* texts, literals, keys and temporal strings.
CONSTANTS
  LongMax = 99
  ExpPrefix = 3
  LowerRanges <- MCLowerRanges
  Jobs <- MCJobs
  MatchBytes = 3
  HeapLimit = 6
  Slack = 1
  TemporalBytes = 28
SPECIFICATION Spec
INVARIANTS
  NumbersCompareExactly
  TextHitsDependOnTextOnly
  KeysMatchPointerText
  TemporalsKeepTheirInstant
CHECK_DEADLOCK FALSE
