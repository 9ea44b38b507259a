\* A second activation of the trap-exit handler starts between the removal of an
\* exit message and the call of the handler, and raises an exception.
SPECIFICATION Spec
CONSTANTS
  Kinds = {"EXIT", "a"}
  Sent = {"a"}
  TrapModes = {"handler"}
  HandlersReceive = FALSE
  None = None
  MaxMsgs = 2
PROPERTIES ExitsAreHandled
