SPECIFICATION Spec
CONSTANTS
    Conn = {c1, c2, c3}
    NoConn = NoConn
    Prompt = {p1, p2}
    NoPrompt = NoPrompt
    MaxFrames = 3
    Trouble = {"blackout", "overlap", "startFails", "handlerFails"}
    MaxKinds = 1
SYMMETRY Symmetry
INVARIANTS RegisteredIsLive LiveIsRegistered SkippedWasHeard
PROPERTY SequenceGrows
CHECK_DEADLOCK FALSE
