\* One-for-all with children that take as long as they like to end: a restart
\* that fails with some children up and is tried again.
SPECIFICATION FairSpec
CONSTANTS
  Names = {n1, n2}
  Strategy = "one-for-all"
  Intensity = 1
  Period = 1
  RestartTypes = {"permanent"}
  Shutdowns = {"infinity"}
  Results = {"ok", "ignore", "error"}
  Reasons = {"crash"}
  Naughty = FALSE
  None = None
  Pids = {p1, p2, p3}
  Parent = Parent
  MaxTime = 0
CHECK_DEADLOCK FALSE
INVARIANTS OneIncarnation TeardownInOrder
PROPERTIES ParentExitEnds EndedIsReplaced
