\* Two events: in one batch or in two, buffered, sent to a server that is up, or late.
SPECIFICATION FairSpec
CONSTANTS
  Clients = {"setup", "expire"}
  CommitLimit = 2
  Owners = {"o1"}
  MaxEvents = 2
  None = None
CHECK_DEADLOCK FALSE
INVARIANTS LoggedInOrder NothingLost DatabaseSafe HandlersHaveOwners
PROPERTIES EverythingSettles
