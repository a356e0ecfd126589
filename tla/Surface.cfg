CONSTANTS
    Sessions = {s1, s2}
    Items = {a, b}
    Lapses = {w}
    Mail = {a}
    Retold = {b}
    ItemCap = 1
    ReinjectCap = 2
    MaxAttempts = 2
    MaxSpeech = 1
    MaxFaults = 1
SYMMETRY Alike
SPECIFICATION Spec
INVARIANTS TypeOK TaintedFirst
PROPERTIES OwedKeepsGapOpen CountedWasShown
CHECK_DEADLOCK FALSE
