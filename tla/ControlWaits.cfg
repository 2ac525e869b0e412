SPECIFICATION FairSpec
CONSTANTS
  Goroutines = {g1, g2}
  NoOne = NoOne
  Ops = {"SendCommand", "SetType", "AuthTLS", "Login"}
  MaxCommands = 2
PROPERTIES CloseReturnsUnlessErased SendCommandReturnsUnlessBehind
