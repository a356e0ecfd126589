SPECIFICATION Spec
CONSTANTS
  Persons = {j}
  n = n
  Numbers = {n, o}
  Plain = {e}
  Facts = {f}
  None = None
  Owner <- Owned
  Label <- Labels
  Msgs = {m1, m2, m3}
  Intent = {m1}
  Naming = {m1}
  m2 = m2
  m3 = m3
  Wraps <- Wrapped
  HoldTurns = 1
  MaxTurns = 2
  MaxCalls = 3
  MaxArrivals = 1
  MaxFaults = 1
  MaxRestarts = 1
INVARIANTS TypeOK AnswerMatchesErases ForgetTalkGoes AskedFirst
CHECK_DEADLOCK FALSE
