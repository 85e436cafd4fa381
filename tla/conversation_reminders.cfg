SPECIFICATION ConversationSpec
CONSTANTS
    MaxTurns = 4
    MaxClarification = 3
    MaxConsecutive = 3
    Limits = {0}
    MaxMisread = 1
INVARIANT RemindedOfEachKind
