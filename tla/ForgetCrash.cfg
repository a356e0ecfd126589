SPECIFICATION Spec
CONSTANTS
  Persons = {j}
  n = n
  Numbers = {n}
  Plain = {e}
  Facts = {f}
  None = None
  Owner <- Owned
  Label <- Labels
  Msgs = {m1, m2, m3}
  Intent = {m1}
  Naming = {m1}
  m2 = m2
  m3 = m3
  Wraps <- Wrapped
  HoldTurns = 1
  MaxTurns = 3
  MaxCalls = 3
  MaxArrivals = 0
  MaxFaults = 0
  MaxRestarts = 1
INVARIANT CrashFinishes
CHECK_DEADLOCK FALSE
