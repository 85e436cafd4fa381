SPECIFICATION VoiceSpec
CONSTANTS
    MaxUtterance = 2
    MaxTurn = 3
    MaxTurns = 3
    MaxClarification = 2
    MaxConsecutive = 2
    Limits = {0, 2}
    MaxMisread = 1
INVARIANTS WholeOnce ConfidenceIsOfItsWords Exact EndsInTime WarnedBeforeMovedOn LimitCountsAnswers
CHECK_DEADLOCK FALSE
