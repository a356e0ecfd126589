SPECIFICATION MCSpec
CONSTANTS
  N = 2
  Mail = {1}
  Person = {1, 2}
  OneShot = TRUE
  RankCap = 1
  InjectCap = 1
  MaxAttempts = 2
  MaxTurns = 2
INVARIANTS TypeOK ClaimMatches EvidencedDelivery
PROPERTIES GoneStaysGone Settles
