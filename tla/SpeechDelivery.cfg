SPECIFICATION FairSpeech
CONSTANTS
    N = 1
    Mail = {1}
    Person = {}
    OneShot = TRUE
    RankCap = 1
    InjectCap = 0
    MaxAttempts = 2
    MaxTurns = 0
    MaxFaults = 1
CHECK_DEADLOCK FALSE
INVARIANTS SpeechTypeOK SpokenOnce QuietAfterStamp
PROPERTIES HoldEnds
