SPECIFICATION FairSpec
CONSTANTS
    Consumer = {c1, c2}
    MaxOffset = 2
    Turn = {1, 2}
    Kinds = {"unscored", "spoken", "invalid", "garbled"}
    MaxRetry = 1
    MaxFaults = 1
INVARIANTS GradedFromEveryTurn ChargedIsGraded
PROPERTIES LedgerSpec EveryAnswerGetsAnOutcome
CHECK_DEADLOCK FALSE
