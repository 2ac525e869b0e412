SPECIFICATION Spec
CONSTANTS
  Users = {u1, u2}
  Ops = {"PurgeJob"}
  AppSets = {}
INVARIANTS RightMode
