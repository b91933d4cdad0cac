SPECIFICATION Spec
CONSTANTS
    c1 = c1
    c2 = c2
    c3 = c3
    r1 = r1
    p1 = p1
    p2 = p2
    p3 = p3
    p4 = p4
    Calls = {c1, c2}
    Procs = {p1, p2, p4}
    ProcOf <- MCSeparate
    Source = Source
    SelfReaders = {c1}
    Readers = {}
    ReaderProc <- MCReaderApart
    Writers = {w1}
    Replacers = {f1, f2}
    Links = {f2}
    MaxKills = 0
    MaxCrashes = 0
    Torn = Torn
    None = None
PROPERTIES
    CheckedReplacementIsCurrent
