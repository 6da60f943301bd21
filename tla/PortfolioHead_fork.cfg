CONSTANTS
  w1 = w1
  w2 = w2
  w3 = w3
  p1 = p1
  p2 = p2
  g = g
  x = x
  y = y
  NoArtifact = NoArtifact
  NoWriter = NoWriter
  Writer = {w1, w3}
  Process = {p1, p2}
  procOf <- OneEach
  Artifact = {g, x, y}
  anchorOf <- Anchors3
  MaxClock = 1
  MaxCalls = 4
  MaxOther = 0
  MaxLate = 0
SPECIFICATION Spec
INVARIANT NoFork
CHECK_DEADLOCK FALSE
