SPECIFICATION Spec
CONSTANTS
  Size = 2
  MaxLen = 3
  GzModulus = 2
  CloseMayFail = TRUE
  MaxDetails = 2
  MaxRows = 2
  MaxUint = 2
INVARIANTS TypeOK SuccessIsOnDisk ResumeCompletes BelowOffsetKept RejectedTouchesNothing HandlesClosed StoredAsAsked DetailAsListed RowsAsListed ExitZeroMeansDone
