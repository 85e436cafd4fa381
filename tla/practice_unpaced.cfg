SPECIFICATION Spec
CONSTANTS
    MaxQuestion = 2
    MaxTurn = 2
    MaxConn = 1
    MaxFaults = 1
    Trouble = {"unpaced"}
INVARIANT NeverPassedBy
CHECK_DEADLOCK FALSE
