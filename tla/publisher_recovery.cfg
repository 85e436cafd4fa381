SPECIFICATION Spec
CONSTANTS
    MaxTurn = 2
    MaxEntry = 2
    Take = {1, 2}
    Blank = Blank
    NoTake = NoTake
    MaxFaults = 0
INVARIANT RecoverySeesTranscript
CHECK_DEADLOCK FALSE
