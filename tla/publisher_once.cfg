SPECIFICATION Spec
CONSTANTS
    MaxTurn = 1
    MaxEntry = 2
    Take = {1, 2}
    Blank = Blank
    NoTake = NoTake
    MaxFaults = 0
INVARIANT FullAtMostOnce
CHECK_DEADLOCK FALSE
