\* A process that has looked event-mgr up sends its event to a manager that has ended.
SPECIFICATION Spec
CONSTANTS
  Clients = {"setup", "expire"}
  CommitLimit = 1
  Owners = {}
  MaxEvents = 1
  None = None
CHECK_DEADLOCK FALSE
PROPERTIES NoneLostAfterLogDb
