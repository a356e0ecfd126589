SPECIFICATION Spec
CONSTANTS
  Texts = {a}
  None = None
  Procs = {p}
  Runners = {r1, r2}
  Home <- OneHome
  MaxTurns = 1
  MaxFacts = 4
  MaxTries = 1
  MaxFaults = 1
  MaxRestarts = 1
  Unmarked = TRUE
  HandEdits = TRUE
SYMMETRY Symmetry
INVARIANTS TypeOK NoEcho TurnSettledOnce
