\* Handlers that do not call receive: four messages let a receive pass over one,
\* lose the one behind it to the handler, wait, and be woken by the next.
SPECIFICATION Spec
CONSTANTS
  Kinds = {"EXIT", "a", "b"}
  Sent = {"a", "b"}
  TrapModes = {"handler"}
  HandlersReceive = FALSE
  None = None
  MaxMsgs = 4
INVARIANTS NothingMissed
PROPERTIES ImplementsInbox
