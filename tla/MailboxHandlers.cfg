\* Handlers that call receive themselves.
SPECIFICATION Spec
CONSTANTS
  Kinds = {"EXIT", "a", "b"}
  Sent = {"a", "b"}
  TrapModes = {"handler"}
  HandlersReceive = TRUE
  None = None
  MaxMsgs = 3
INVARIANTS ListConsistent ExitsAreFlagged
