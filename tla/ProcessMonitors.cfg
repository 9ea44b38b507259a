\* Two monitors and two names between two processes.
SPECIFICATION Spec
CONSTANTS
  Pids = {p1, p2}
  SystemPids = {}
  Names = {n1, n2}
  Mons = {m1, m2}
  Reasons = {"normal", "kill", "killed"}
  None = None
  MaxInbox = 1
SYMMETRY Symmetry
CHECK_DEADLOCK FALSE
INVARIANTS MonitorsConsistent DownExactlyOnce FlushedIsGone RegistrarConsistent
