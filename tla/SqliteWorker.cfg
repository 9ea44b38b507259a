\* Two processes share a database: one is refused, or killed while the other
\* goes on; the finalizer process frees what it finds at any time.
SPECIFICATION FairSpec
CONSTANTS
  Procs = {p1, p2}
  Stmts = {s1, s2}
  Binds = {b1}
  None = None
INVARIANTS AnswersMatch StatementsSafe ClosedIsQuiet
PROPERTIES EveryCallAnswered
