\* Exit signals and cascades through every link graph of a system process, whose
\* death is a panic, and three others, so that a cascade may meet a process that it
\* has killed already along another path.  Inboxes hold what cascades put in.
SPECIFICATION FairSpec
CONSTANTS
  Pids = {s, p1, p2, p3}
  SystemPids = {s}
  Names = {}
  Mons = {}
  Reasons = {"normal", "kill", "killed"}
  None = None
  MaxInbox = 0
CHECK_DEADLOCK FALSE
INVARIANTS LinksConsistent LinkedAreSignalled
PROPERTIES DeathIsFinal CascadeEnds
