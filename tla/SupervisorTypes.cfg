\* One-for-one: a child of any kind that ends with any reason, unlinks the
\* supervisor, is asked to end and does so in time, late or never; two periods.
SPECIFICATION Spec
CONSTANTS
  Names = {n1}
  Strategy = "one-for-one"
  Intensity = 1
  Period = 1
  RestartTypes = {"permanent", "temporary", "transient", "watch-only"}
  Shutdowns = {"brutal-kill", "timeout", "infinity"}
  Results = {"ok", "error"}
  Reasons = {"normal", "crash"}
  Naughty = TRUE
  None = None
  Pids = {p1, p2, p3}
  Parent = Parent
  MaxTime = 2
SYMMETRY Symmetry
CHECK_DEADLOCK FALSE
INVARIANTS DeathNoticed DownConsumed IntensityKept AllDown
