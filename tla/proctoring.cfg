SPECIFICATION Spec
CONSTANTS
  Peer = {p1, p2, p3}
  NoPeer = NoPeer
  NoScene = NoScene
  MaxConnections = 1
  Streak = 2
  Cooldown = 2
  MaxFrames = 4
  MaxTime = 2
CONSTANT Scene <- MCScene
SYMMETRY Symmetry
INVARIANTS ReconnectIsWhole AlertsFollowTheScene MonitorMissesNothing
CHECK_DEADLOCK FALSE
