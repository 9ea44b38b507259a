\* One port at a time, which one process reads, another writes or closes, and the
\* finalizer process closes when the first was killed.
SPECIFICATION FairSpec
CONSTANTS
  Procs = {p1, p2}
  Mortal = {p1}
  Finalizer = fin
  Ports = {a1}
  Fds = {f1}
  Pipes = 1
  MaxAddrs = 2
  MaxCallbacks = 2
  None = None
INVARIANTS AnswersMatch OneOwner OwnDescriptor LockedWhileUsed
PROPERTIES EveryOperationEnds
