SPECIFICATION StreamSpec
CONSTANTS
  NRec = 2
  NWin = 3
  QueueDepth = 1
  Selections <- MCSelections
  MaxRow = 2
  MaxOps = 1
  MaxWire = 1
INVARIANTS StreamIsWhole TimeMovesForward BufferIsOfItsChannels
PROPERTIES StreamSettles
