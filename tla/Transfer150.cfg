SPECIFICATION Spec
CONSTANTS
  Users = {u1}
  Closers = {c1}
  NoOne = NoOne
  Ports = {"p1", "p2"}
  Prelim = {"125", "150"}
  CloseMayFail = FALSE
  RestLingers = FALSE
  MaxUnread = 0
INVARIANTS InSync
