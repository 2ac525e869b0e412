SPECIFICATION FairSpec
CONSTANTS
  Users = {u1}
  Closers = {c1}
  NoOne = NoOne
  Ports = {"p1"}
  Prelim = {"125", "150"}
  CloseMayFail = TRUE
  RestLingers = TRUE
  MaxUnread = 0
INVARIANTS TypeOK NoChildLeak
PROPERTIES CloseUnblocks
