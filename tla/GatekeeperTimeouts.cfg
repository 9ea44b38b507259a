\* Three clients, a queue of two waiters: each may give up one call, whose
\* request and place in the queue stay behind.
SPECIFICATION Spec
CONSTANTS
  Clients = {c1, c2, c3}
  Resources = {r1}
  None = None
  MaxDepth = 2
  MaxTimeouts = 1
SYMMETRY Symmetry
CHECK_DEADLOCK FALSE
INVARIANTS MutualExclusion
