SPECIFICATION Spec
CONSTANTS
  Goroutines = {g1, g2, g3}
  NoOne = NoOne
  Ops = {"SendCommand", "SendCommandWithContext", "Rename"}
  MaxCommands = 2
INVARIANTS TypeOK InSync DeadlineOwned
PROPERTIES ClosedIsFinal Serialized
SYMMETRY Symmetry
