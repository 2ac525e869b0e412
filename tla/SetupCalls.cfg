SPECIFICATION FairSpec
CONSTANTS
  Names = {"alice", "bob"}
  Callers = {"library", "cli", "cliTLS"}
  MaxTLS = 2
INVARIANTS TypeOK LayersAgree NoClearAfterAuth CredentialsProtected UserWasAccepted TypeAgrees NoOrphan
PROPERTIES OpenReturns CloseEndsSetup
CHECK_DEADLOCK FALSE
