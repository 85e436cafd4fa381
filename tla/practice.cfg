SPECIFICATION FairSpec
CONSTANTS
    MaxQuestion = 3
    MaxTurn = 2
    MaxConn = 2
    MaxFaults = 2
    Trouble = {"submit", "next", "timeout", "lost"}
INVARIANTS RecordedBeforeNext AskedOnceInOrder SubmittedOnce
PROPERTIES EveryTurnGoesOn
CHECK_DEADLOCK FALSE
