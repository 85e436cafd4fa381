SPECIFICATION FairSpec
CONSTANTS
    MaxTurn = 2
    MaxEntry = 2
    Take = {1, 2}
    Blank = Blank
    NoTake = NoTake
    MaxFaults = 1
INVARIANTS MarkedIsSent OneEntryPerTurn RecordingDoesNotDecide RowMatchesThread
PROPERTIES LedgerSpec EveryTurnReachesKafka
CHECK_DEADLOCK FALSE
