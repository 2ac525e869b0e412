SPECIFICATION Spec
CONSTANTS
  Codes = {"211", "550", "250"}
  NoCode = "none"
  CutAnywhere = FALSE
  LongEnds = FALSE
  MaxPieces = 6
INVARIANTS Framed
PROPERTIES CutIsError
CHECK_DEADLOCK FALSE
