CONSTANTS
  w1 = w1
  w2 = w2
  w3 = w3
  p1 = p1
  p2 = p2
  g = g
  x = x
  y = y
  NoArtifact = NoArtifact
  NoWriter = NoWriter
  Writer = {w1, w2, w3}
  Process = {p1, p2}
  procOf <- TwoAndOne
  Artifact = {g, x, y}
  anchorOf <- Anchors3
  MaxClock = 1
  MaxCalls = 4
  MaxOther = 1
  MaxLate = 1
SYMMETRY Alike
SPECIFICATION Spec
INVARIANTS
  TypeOK
  LockHeldInside
  ForkNeedsDisturbance
  ForkNeedsRetry
  OneContinuation
  AnchorPrecedes
  EnvelopeExact
PROPERTY ImplementsCanonicalHead
CHECK_DEADLOCK FALSE
