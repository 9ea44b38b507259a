\* Three threads: one is served while two wait their turn.
SPECIFICATION FairSpec
CONSTANTS
  Threads = {t1, t2, t3}
  MaxSends = 2
  None = None
INVARIANTS RequestIsLive
PROPERTIES ReturnsWhenRun EveryRequestReturns
