SPECIFICATION Spec
CONSTANTS
    MaxLen = 4
    Calls <- MCCalls
    Capacity = 3
INVARIANTS
    TypeOK
    DecisionsFollowInput
    OutputFollowsRecords
    ValuesAreMatchedRecords
    StopsAreTruthful
    CancelStopsSoon
PROPERTIES
    CompleteRecordsFirst
    NoReadAfterLimit
    Terminates
