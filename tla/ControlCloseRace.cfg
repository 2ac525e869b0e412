SPECIFICATION FairSpec
CONSTANTS
  Goroutines = {g1, g2}
  NoOne = NoOne
  Ops = {"SendCommand", "SetType"}
  MaxCommands = 2
PROPERTIES CloseReturns
