SPECIFICATION Spec
CONSTANTS
  l1 = l1
  l2 = l2
  t1 = t1
  t2 = t2
  b1 = b1
  None = None
  Modes = {"movie", "glyph", "recon"}
  ReconCap = 4
  AtlasCap = 3
  Patience = 5
  Settled = 2
  Slack = 1
  MaxGlyphs = 5
  Slots = {1, 2, 3}
  MaxEvents = 1
  Threads = {t1, t2}
  Bases = {b1}
  Labels = {l1, l2}
  FirstUV <- SameFirst
  Glyphs = {2, 4, 6}
  Menu = {4, 6}
  Carved = {0, 4, 6}
  MaxFrames = 7
  Pace = 3
  Stall = 2
  Surfaces <- SmallSurfaces
INVARIANTS NothingTouchedInFlight CaptureIsCurrent DrawStaysInBuffer
  TexturesKeepTheirBlocks
PROPERTIES   KeepsPresenting TextReachesTheScreen
\* A renderer that could not start is dead, and the title may have drawn all.
CHECK_DEADLOCK FALSE
