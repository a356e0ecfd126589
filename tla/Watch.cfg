CONSTANTS
    jon = jon  bo = bo  jo = jo  bob = bob  t = t  e = e
    People = {jon, bo}
    Texts = {t}
    Emails = {e}
    Names = {jo, bob}
    Hits <- MCHits
    Plain = {bob}
    Sentences <- MCSentences
    None = None
    MaxLoops = 2
    MaxTurns = 3
    MaxEdits = 1
SPECIFICATION MCSpec
INVARIANTS WatchTypeOK CoverStays
PROPERTIES YesIsTheProposal
CHECK_DEADLOCK FALSE
