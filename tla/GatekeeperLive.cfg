\* No call times out; two clients and two mutexes are enough for a
\* cycle of waiting processes.
SPECIFICATION FairSpec
CONSTANTS
  Clients = {c1, c2}
  Resources = {r1, r2}
  None = None
  MaxDepth = 1
  MaxTimeouts = 0
CHECK_DEADLOCK FALSE
INVARIANTS OwnersHold
PROPERTIES EveryEnterAnswered
