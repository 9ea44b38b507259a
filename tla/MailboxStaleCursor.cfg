\* A handler receives the message that the cursor of the interrupted receive is
\* at: what arrives next is not seen.
SPECIFICATION Spec
CONSTANTS
  Kinds = {"EXIT", "a", "b"}
  Sent = {"a", "b"}
  TrapModes = {"handler"}
  HandlersReceive = TRUE
  None = None
  MaxMsgs = 3
INVARIANTS NothingMissed
