\* A plain and an escaped segment watch the same keys.
CONSTANTS
  LongMax = 99
  ExpPrefix = 3
  LowerRanges <- MCLowerRanges
  Jobs <- MCMixedKeyJobs
  MatchBytes = 3
  HeapLimit = 6
  Slack = 1
  TemporalBytes = 28
SPECIFICATION Spec
INVARIANTS
  KeysMatchPointerText
CHECK_DEADLOCK FALSE
