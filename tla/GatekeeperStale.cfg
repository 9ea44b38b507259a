\* A client that has given up enters again, behind its own abandoned request.
SPECIFICATION Spec
CONSTANTS
  Clients = {c1, c2, c3}
  Resources = {r1, r2}
  None = None
  MaxDepth = 1
  MaxTimeouts = 1
CHECK_DEADLOCK FALSE
INVARIANTS NoCyclicWait
