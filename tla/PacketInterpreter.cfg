SPECIFICATION Spec
CONSTANTS
  pump = pump
  swap = swap
  hello = hello
  bye = bye
  hud = hud
  scene = scene
  None = None
  Pump = pump
  Swap = swap
  Locked = TRUE
  RingSize = 16
  Static <- MCStatic
  Menu <- MCMenu
  Directory <- MCDirectory
  Regs = {8192, 8697, 16384, 16385, 18432, 18433, 18622, 18623}
  Fences = {0, 4}
  Slots = {0, 95}
  Text <- MCText
  Key <- MCKey
  Commands <- MCCommands
  OfBuffer <- MCOfBuffer
  OfItem <- MCOfItem
  Indices <- MCIndices
  Modes = {"backdrop", "glyph", "panels"}
  MaxDepth = 8
  MaxSegment = 32768
  Cap = 3
  MaxSubmits = 3
  MaxFrames = 2
 
PROPERTIES ImplementsStream EveryPacketRuns
\* After MaxSubmits submissions and MaxFrames swaps the title is at its end.
CHECK_DEADLOCK FALSE
