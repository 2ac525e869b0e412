SPECIFICATION Spec
CONSTANTS
  Users = {u1, u2}
  Closers = {}
  NoOne = NoOne
  Ports = {"p1", "p2"}
  Prelim = {"125"}
  CloseMayFail = FALSE
  RestLingers = FALSE
  MaxUnread = 2
INVARIANTS SuccessIsServed
