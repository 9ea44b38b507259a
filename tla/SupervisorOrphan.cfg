\* One-for-all, one restart allowed: when it fails half-way, the next one is
\* refused while the first child is up again.
SPECIFICATION Spec
CONSTANTS
  Names = {n1, n2}
  Strategy = "one-for-all"
  Intensity = 1
  Period = 1
  RestartTypes = {"permanent"}
  Shutdowns = {"brutal-kill"}
  Results = {"ok", "error"}
  Reasons = {"crash"}
  Naughty = FALSE
  None = None
  Pids = {p1, p2, p3, p4}
  Parent = Parent
  MaxTime = 0
CHECK_DEADLOCK FALSE
INVARIANTS AllDown
