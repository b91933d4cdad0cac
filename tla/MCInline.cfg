SPECIFICATION FairSpec
CONSTANTS
    c1 = c1
    c2 = c2
    c3 = c3
    r1 = r1
    p1 = p1
    p2 = p2
    p3 = p3
    p4 = p4
    Calls = {c1, c2}
    Procs = {p1, p2, p3, p4}
    ProcOf <- MCSeparate
    Source = Source
    SelfReaders = {}
    Readers = {r1}
    ReaderProc <- MCReaderApart
    Writers = {}
    Replacers = {}
    Links = {}
    MaxKills = 1
    MaxCrashes = 1
    Torn = Torn
    None = None
INVARIANTS
    TypeOK
    NoLostUpdate
    AcknowledgedSurvives
    PathAlwaysComplete
    ReturnedCallsLeaveNoTemp
    LocksHaveOwners
    ReadersSeeOneVersion
PROPERTIES
    EveryCallReturns
