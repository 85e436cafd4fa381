SPECIFICATION GraphsSpec
CONSTANTS
    MaxTurns = 2
    Kinds = {"exam", "practice"}
    Criterion = {"grammar", "vocabulary"}
    Low = 0
    High = 10
    Slots = 2
    Missing = Missing
    NoObject = NoObject
    Draft = {d1, d2}
    Construct = {"grammar", "vocabulary"}
    Tenses = {"past", "future"}
    Open = "open"
    HardCap = 2
    MaxBatches = 4
    MaxRounds = 1
    Persist = {0}
    MaxDeaths = 1
    Topic = {1, 2, 3}
    Id = {t1}
    Keyword = {"films"}
    MaxProposals = 2
    MaxTopicRounds = 3
    MaxIndexed = 1
CONSTANT Reply <- MCReply
CONSTANT JudgeReply <- MCJudgeReply
CONSTANT Subs <- MCSubs
CONSTANT Content <- MCContent
CONSTANT Alike <- MCAlike
INVARIANTS OnlyABreakFails ScoreIsOfARecording OneTurnDoesNotZero
INVARIANTS JudgementIsSound StoresAgree StopsOnSharedReason AnswersTheRequest OffersAreNew
PROPERTIES EveryJudgementEnds EveryRunEnds
CHECK_DEADLOCK FALSE
