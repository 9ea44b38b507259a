---------------------------- MODULE SqliteWorker ----------------------------
(***************************************************************************)
(* The worker thread of a SQLite database and the event loop that feeds it *)
(* (src/src/swish/sqlite.c, called from src/src/swish/db.ss).              *)
(*                                                                         *)
(* Scheme processes run on the loop thread.  An operation that may block   *)
(* is handed to the database's own thread through database_t: the loop     *)
(* stores the work under the mutex and signals the condition; the worker   *)
(* runs it without the mutex, clears it and sends the async handle, whose  *)
(* callback answers the process that asked.  The other operations run on   *)
(* the loop thread, and are refused while the database is busy.            *)
(*                                                                         *)
(* One database is modelled; when it is gone it may be opened again.  An   *)
(* operation that is refused (EBUSY, EINVAL, no memory for the request)    *)
(* changes nothing and is no step.  What SQLite computes is a choice       *)
(* between success and failure.                                            *)
(***************************************************************************)
EXTENDS Naturals, Sequences, FiniteSets, SequencesExt

CONSTANTS
  Procs,        \* Scheme processes that use the database
  Stmts,        \* addresses of statement_t
  Binds,        \* addresses of bindings_t
  None

ASSUME SqliteAssumption ==
  /\ None \notin Procs \cup Stmts \cup Binds \cup
       {"worker", "close", "prepare", "step", "bulk", "open"}
  /\ None \notin [stmt: Stmts \cup {None}, binds: Binds \cup {None}]
  /\ Procs \cap {"none", "dropped"} = {}

VARIABLES
  life,      \* of database_t: "none", "opening", "live" or "closing"
  res,       \* what open_cb has acquired and nobody has released
  mutex,     \* the thread that holds d->mutex
  worker,    \* where the worker thread is
  ran,       \* the worker's local variable work
  work, busy, callback, data, arg, rc,   \* fields of database_t
  list,      \* d->statement and what follows it
  sent,      \* uv_async_send has been called, the callback has not
  loop,      \* what the loop thread is in the middle of
  waiting,   \* the operation each process waits for, or None
  handle,    \* the Scheme record of the database has its handle
  stmt,      \* statement_t: "none", "linked" or "detached" (database = NULL)
  held,      \* the statements Scheme records point to
  bound,     \* the bindings_t a statement's parameters point into
  holder     \* bindings_t: "none", the process that uses it, or "dropped"

dvars == <<work, busy, callback, data, arg, rc, list>>
wvars == <<mutex, worker, ran, sent>>
svars == <<stmt, held, bound, holder>>
vars == <<life, res, dvars, wvars, loop, waiting, handle, svars>>

Works == {"close", "prepare", "step", "bulk"}
Resources == <<"sqlite", "d", "async", "mutex", "cond", "thread">>
Idle == [at |-> "idle", work |-> None, proc |-> None, arg |-> None]

TypeOK ==
  /\ life \in {"none", "opening", "live", "closing"}
  /\ res \subseteq Range(Resources)
  /\ mutex \in {None, "loop", "worker"}
  /\ worker \in {"off", "lock", "test", "run", "relock", "sleep", "wait", "leave"}
  /\ ran \in Works \cup {None} /\ work \in Works \cup {None}
  /\ busy \in BOOLEAN /\ sent \in BOOLEAN /\ handle \in BOOLEAN
  /\ callback \in Procs \cup {None}
  /\ data \in Works \cup {None}
  /\ arg \in [stmt: Stmts \cup {None}, binds: Binds \cup {None}] \cup {None}
  /\ rc \in BOOLEAN
  /\ list \in Seq(Stmts)
  /\ loop \in [at: {"idle", "lock", "signal", "join"}, work: Works \cup {None},
               proc: Procs \cup {None},
               arg: [stmt: Stmts \cup {None}, binds: Binds \cup {None}] \cup {None}]
  /\ waiting \in [Procs -> Works \cup {"open", None}]
  /\ stmt \in [Stmts -> {"none", "linked", "detached"}]
  /\ held \subseteq Stmts
  /\ bound \in [Stmts -> Binds \cup {None}]
  /\ holder \in [Binds -> Procs \cup {"none", "dropped"}]

Init ==
  /\ life = "none" /\ res = {}
  /\ mutex = None /\ worker = "off" /\ ran = None /\ sent = FALSE
  /\ work = None /\ busy = FALSE /\ callback = None /\ data = None
  /\ arg = None /\ rc = TRUE /\ list = <<>>
  /\ loop = Idle
  /\ waiting = [p \in Procs |-> None] /\ handle = FALSE
  /\ stmt = [s \in Stmts |-> "none"] /\ held = {}
  /\ bound = [s \in Stmts |-> None] /\ holder = [b \in Binds |-> "none"]

-----------------------------------------------------------------------------
(* Opening *)

(* The loop thread is not in the middle of a call and p runs on it. *)
CanCall(p) == loop.at = "idle" /\ waiting[p] = None

(* What open_cb gives back when step i of Resources fails; uv_close gives  *)
(* "async" and "d" back later, in close_free_cb.                           *)
Released(i) ==
  CASE i <= 2 -> {"sqlite"}
    [] i = 3  -> {"sqlite", "d"}
    [] i = 4  -> {"sqlite"}
    [] i = 5  -> {"sqlite", "mutex"}
    [] i = 6  -> {"sqlite", "mutex", "cond"}

osi_open_database(p) ==
  /\ CanCall(p) /\ life = "none"
  /\ life' = "opening" /\ callback' = p
  /\ waiting' = [waiting EXCEPT ![p] = "open"]
  /\ UNCHANGED <<res, work, busy, data, arg, rc, list, wvars, loop, handle, svars>>

open_cb ==
  /\ loop.at = "idle" /\ life = "opening"
  /\ waiting' = [waiting EXCEPT ![callback] = None]
  /\ callback' = None
  /\ \/ /\ life' = "live" /\ res' = Range(Resources)
        /\ list' = <<>> /\ busy' = FALSE /\ work' = None
        /\ data' = None /\ arg' = None /\ rc' = TRUE
        /\ worker' = "lock" /\ handle' = TRUE
     \/ \E i \in 1..Len(Resources) :
          /\ res' = {Resources[j] : j \in 1..i-1} \ Released(i)
          /\ life' = IF "async" \in res' THEN "closing" ELSE "none"
          /\ UNCHANGED <<work, busy, data, arg, rc, list, worker, handle>>
  /\ UNCHANGED <<mutex, ran, sent, loop, svars>>

close_free_cb ==
  /\ loop.at = "idle" /\ life = "closing"
  /\ life' = "none" /\ res' = res \ {"async", "d"}
  /\ UNCHANGED <<dvars, wvars, loop, waiting, handle, svars>>

-----------------------------------------------------------------------------
(* The loop thread hands work to the worker *)

(* Otherwise the operation is refused with EBUSY. *)
FreeAlways == TRUE
Free == ~busy

Submit(p, w, a) ==
  /\ Free
  /\ data' = w
  /\ loop' = [at |-> "lock", work |-> w, proc |-> p, arg |-> a]
  /\ waiting' = [waiting EXCEPT ![p] = w]
  /\ UNCHANGED <<life, res, work, busy, callback, arg, rc, list, wvars, svars>>

(* sqlite:close forgets the handle as soon as the close is under way. *)
osi_close_database(p) ==
  /\ CanCall(p) /\ handle
  /\ Submit(p, "close", None)
  /\ handle' = FALSE

osi_prepare_statement(p) ==
  /\ CanCall(p) /\ handle
  /\ Submit(p, "prepare", None)
  /\ UNCHANGED handle

(* sqlite:execute and lazy-execute bind the parameters of what they step.  *)
osi_step_statement(p, s) ==
  /\ CanCall(p) /\ s \in held /\ stmt[s] = "linked"
  /\ bound[s] # None => holder[bound[s]] = p
  /\ Submit(p, "step", [stmt |-> s, binds |-> None])
  /\ UNCHANGED handle

osi_bulk_execute(p, s, b) ==
  /\ CanCall(p) /\ s \in held /\ stmt[s] = "linked" /\ holder[b] = p
  /\ Submit(p, "bulk", [stmt |-> s, binds |-> b])
  /\ UNCHANGED handle

Caller == loop.proc
(* uv_mutex_lock, the assignments and uv_mutex_unlock. *)
StoreWork ==
  /\ loop.at = "lock" /\ mutex = None
  /\ busy' = TRUE /\ work' = loop.work /\ callback' = Caller /\ arg' = loop.arg
  /\ loop' = [loop EXCEPT !.at = "signal"]
  /\ UNCHANGED <<life, res, data, rc, list, wvars, waiting, handle, svars>>

(* uv_cond_signal wakes the worker if it waits, and is lost if it does not. *)
Signal ==
  /\ loop.at = "signal"
  /\ worker' = IF worker = "wait" THEN "lock" ELSE worker
  /\ loop' = Idle
  /\ UNCHANGED <<life, res, dvars, mutex, ran, sent, waiting, handle, svars>>

-----------------------------------------------------------------------------
(* The worker thread: database_worker *)

worker_lock ==
  /\ worker = "lock" /\ mutex = None
  /\ mutex' = "worker" /\ worker' = "test"
  /\ UNCHANGED <<life, res, dvars, ran, sent, loop, waiting, handle, svars>>

(* Take the work, or wait for the condition; both let go of the mutex. *)
worker_test ==
  /\ worker = "test"
  /\ ran' = work
  /\ worker' = IF work = None THEN "wait" ELSE "run"
  /\ mutex' = None
  /\ UNCHANGED <<life, res, dvars, sent, loop, waiting, handle, svars>>
Spurious ==
  /\ worker = "wait"
  /\ worker' = "lock"
  /\ UNCHANGED <<life, res, dvars, mutex, ran, sent, loop, waiting, handle, svars>>

Running(w) == worker = "run" /\ ran = w

Push(s) == <<s>> \o list

prepare_worker ==
  /\ Running("prepare")
  /\ worker' = "relock"
  /\ \/ \E s \in Stmts :
          /\ stmt[s] = "none"
          /\ stmt' = [stmt EXCEPT ![s] = "linked"]
          /\ bound' = [bound EXCEPT ![s] = None]
          /\ list' = Push(s)
          /\ rc' = TRUE
     \/ rc' = FALSE /\ UNCHANGED <<stmt, bound, list>>
  /\ UNCHANGED <<life, res, work, busy, callback, data, arg, mutex, ran, sent,
                 loop, waiting, handle, held, holder>>

step_worker ==
  /\ Running("step")
  /\ worker' = "relock"
  /\ rc' \in BOOLEAN
  /\ UNCHANGED <<life, res, work, busy, callback, data, arg, list, mutex, ran, sent,
                 loop, waiting, handle, svars>>

(* Binds the parameters for the step; on an error it returns with them bound. *)
bulk_worker ==
  /\ Running("bulk")
  /\ \/ /\ bound[arg.stmt] # arg.binds
        /\ bound' = [bound EXCEPT ![arg.stmt] = arg.binds]
        /\ UNCHANGED <<worker, rc>>
     \/ /\ bound[arg.stmt] = arg.binds
        /\ worker' = "relock"
        /\ rc' \in BOOLEAN
        /\ bound' = IF rc' THEN [bound EXCEPT ![arg.stmt] = None] ELSE bound
  /\ UNCHANGED <<life, res, work, busy, callback, data, arg, list, mutex, ran, sent,
                 loop, waiting, handle, stmt, held, holder>>

(* One statement after the other is unlinked, finalized and detached; then  *)
(* sqlite3_close.                                                          *)
close_worker ==
  /\ Running("close")
  /\ \/ /\ list # <<>>
        /\ list' = Tail(list)
        /\ stmt' = [stmt EXCEPT ![Head(list)] = "detached"]
        /\ bound' = [bound EXCEPT ![Head(list)] = None]
        /\ UNCHANGED <<worker, rc>>
     \/ /\ list = <<>>
        /\ worker' = "relock" /\ rc' \in BOOLEAN
        /\ UNCHANGED <<list, stmt, bound>>
  /\ UNCHANGED <<life, res, work, busy, callback, data, arg, mutex, ran, sent,
                 loop, waiting, handle, held, holder>>

(* The mutex is held until uv_cond_wait gives it up. *)
RelockNot == UNCHANGED mutex
Relock == mutex' = "worker"
worker_done ==
  /\ worker = "relock" /\ mutex = None
  /\ Relock
  /\ work' = None /\ sent' = TRUE
  /\ worker' = IF ran = "close" /\ rc THEN "leave" ELSE "sleep"
  /\ UNCHANGED <<life, res, busy, callback, data, arg, rc, list, ran,
                 loop, waiting, handle, svars>>

worker_wait ==
  /\ worker = "sleep"
  /\ worker' = "wait" /\ mutex' = None
  /\ UNCHANGED <<life, res, dvars, ran, sent, loop, waiting, handle, svars>>

worker_exit ==
  /\ worker = "leave"
  /\ worker' = "off" /\ mutex' = None
  /\ UNCHANGED <<life, res, dvars, ran, sent, loop, waiting, handle, svars>>

-----------------------------------------------------------------------------
(* The callbacks of the async handle *)

(* What every callback does: the database is free again and the caller, if *)
(* it is still there, goes on.                                             *)
Complete(w) ==
  /\ loop.at = "idle" /\ sent /\ data = w
  /\ sent' = FALSE
  /\ busy' = FALSE /\ callback' = None
  /\ waiting' = [waiting EXCEPT ![callback] = None]

(* A failed close gives the Scheme record its handle back. *)
close_cb ==
  /\ Complete("close")
  /\ loop' = IF rc THEN [Idle EXCEPT !.at = "join"] ELSE loop
  /\ handle' = ~rc
  /\ UNCHANGED <<life, res, work, data, arg, rc, list, mutex, worker, ran, svars>>

(* uv_thread_join; then the condition, the mutex and the handle go. *)
JoinedNot == TRUE
Joined == worker = "off"
close_join ==
  /\ loop.at = "join" /\ Joined
  /\ res' = res \ {"thread", "cond", "mutex", "sqlite"}
  /\ life' = "closing" /\ loop' = Idle
  /\ UNCHANGED <<dvars, wvars, waiting, handle, svars>>

(* The address it hands out is that of the first statement of the list. *)
prepare_cb ==
  /\ Complete("prepare")
  /\ held' = IF rc THEN held \cup {Head(list)} ELSE held
  /\ UNCHANGED <<life, res, work, data, arg, rc, list, mutex, worker, ran,
                 loop, handle, stmt, bound, holder>>

step_cb ==
  /\ Complete("step")
  /\ arg' = None
  /\ UNCHANGED <<life, res, work, data, rc, list, mutex, worker, ran,
                 loop, handle, svars>>

bulk_cb ==
  /\ Complete("bulk")
  /\ arg' = None
  /\ UNCHANGED <<life, res, work, data, rc, list, mutex, worker, ran,
                 loop, handle, svars>>

-----------------------------------------------------------------------------
(* Operations that run on the loop thread *)

UnlinkableBusy(s) == stmt[s] = "linked"
Unlinkable(s) == stmt[s] = "linked" /\ ~busy

(* Called by a process or by the finalizer process.  If the database is     *)
(* busy it is refused, unless close_worker has cleared s->database.        *)
osi_finalize_statement(s) ==
  /\ loop.at = "idle" /\ s \in held
  /\ \/ /\ stmt[s] = "detached"
        /\ UNCHANGED list
     \/ /\ Unlinkable(s)
        /\ \E i \in 1..Len(list) : list[i] = s /\ list' = RemoveAt(list, i)
  /\ stmt' = [stmt EXCEPT ![s] = "none"]
  /\ held' = held \ {s}
  /\ bound' = [bound EXCEPT ![s] = None]
  /\ UNCHANGED <<life, res, work, busy, callback, data, arg, rc, wvars,
                 loop, waiting, handle, holder>>

osi_marshal_bindings(p, b) ==
  /\ CanCall(p) /\ holder[b] = "none"
  /\ holder' = [holder EXCEPT ![b] = p]
  /\ UNCHANGED <<life, res, dvars, wvars, loop, waiting, handle, stmt, held, bound>>

(* SQLite is not asked to copy: the statement points into b. *)
osi_bind_statement_bindings(p, s, b) ==
  /\ CanCall(p) /\ s \in held /\ stmt[s] = "linked" /\ ~busy
  /\ holder[b] = p
  /\ bound' = [bound EXCEPT ![s] = b]
  /\ UNCHANGED <<life, res, dvars, wvars, loop, waiting, handle, stmt, held, holder>>

(* The on-exit of sqlite:execute: reset, clear and unmarshal.  When clear   *)
(* is refused it raises, and b is left to the finalizer process.           *)
execute_exit(p, b) ==
  /\ CanCall(p) /\ holder[b] = p
  /\ IF busy
     THEN /\ holder' = [holder EXCEPT ![b] = "dropped"]
          /\ UNCHANGED bound
     ELSE /\ holder' = [holder EXCEPT ![b] = "none"]
          /\ bound' = [s \in Stmts |-> IF bound[s] = b THEN None ELSE bound[s]]
  /\ UNCHANGED <<life, res, dvars, wvars, loop, waiting, handle, stmt, held>>

(* A waiting process is killed: its continuation goes, the work does not.  *)
Kill(p) ==
  /\ loop.at = "idle" /\ waiting[p] # None
  /\ waiting' = [waiting EXCEPT ![p] = None]
  /\ holder' = [b \in Binds |-> IF holder[b] = p THEN "dropped" ELSE holder[b]]
  /\ UNCHANGED <<life, res, dvars, wvars, loop, handle, stmt, held, bound>>

(* The finalizer process unmarshals what nobody can reach; the callback of *)
(* a bulk execution keeps its bindings reachable, that of a step does not. *)
KeptLive(b) == busy /\ arg # None /\ arg.binds = b
osi_unmarshal_bindings(b) ==
  /\ loop.at = "idle" /\ holder[b] = "dropped"
  /\ ~KeptLive(b)
  /\ holder' = [holder EXCEPT ![b] = "none"]
  /\ UNCHANGED <<life, res, dvars, wvars, loop, waiting, handle, stmt, held, bound>>

-----------------------------------------------------------------------------
worker_step ==
  \/ worker_lock \/ worker_test \/ prepare_worker \/ step_worker \/ bulk_worker
  \/ close_worker \/ worker_done \/ worker_wait \/ worker_exit
loop_step ==
  \/ StoreWork \/ Signal \/ close_cb \/ close_join \/ prepare_cb \/ step_cb \/ bulk_cb
  \/ open_cb

Next ==
  \/ worker_step \/ Spurious \/ loop_step \/ close_free_cb
  \/ \E p \in Procs :
       \/ osi_open_database(p) \/ osi_close_database(p) \/ osi_prepare_statement(p)
       \/ Kill(p)
       \/ \E s \in Stmts : osi_step_statement(p, s)
       \/ \E b \in Binds : osi_marshal_bindings(p, b) \/ execute_exit(p, b)
       \/ \E s \in Stmts, b \in Binds :
            osi_bind_statement_bindings(p, s, b) \/ osi_bulk_execute(p, s, b)
  \/ \E s \in Stmts : osi_finalize_statement(s)
  \/ \E b \in Binds : osi_unmarshal_bindings(b)

Spec == Init /\ [][Next]_vars

(* Both threads keep running, SQLite's calls return, and a mutex that is    *)
(* given up again and again is granted in the end.                         *)
FairSpec == Spec /\ WF_vars(worker_step) /\ WF_vars(loop_step) /\ SF_vars(StoreWork)

-----------------------------------------------------------------------------
(* A process that waits is the one the database works for, its work is the *)
(* one that was asked for and the answer that is on its way is the result  *)
(* of that work and no other (async.data, d->work and d->callback agree).  *)
AnswersMatch ==
  /\ TypeOK
  /\ \A p \in Procs : waiting[p] \in Works =>
       data = waiting[p] /\ p = IF loop.at = "lock" THEN loop.proc ELSE callback
  /\ worker \in {"run", "relock"} => busy /\ data = ran /\ work = ran
  /\ sent => busy /\ work = None /\ worker \notin {"run", "relock"} /\ callback # None

(* prepare_cb hands out the first statement of the list: it is the one that *)
(* was prepared, no other record points to it, and no statement is in the   *)
(* list that nobody will finalize.                                         *)
OwnStatement ==
  LET unanswered == worker = "relock" \/ sent
      fresh == {s \in Range(list) : s \notin held}
  IN /\ Range(list) = {s \in Stmts : stmt[s] = "linked"} /\ IsInjective(list)
     /\ held \subseteq {s \in Stmts : stmt[s] # "none"}
     /\ fresh = IF unanswered /\ data = "prepare" /\ rc THEN {list[1]} ELSE {}

(* The statement the worker thread steps without the mutex is not finalized  *)
(* meanwhile, whoever was killed or calls, and it steps the statement it was *)
(* asked to step with the bindings it was asked to bind.  (That the memory   *)
(* its parameters point into outlives the step is not promised by the code:  *)
(* see KeptLive.)                                                            *)
SteppedIsLive ==
  worker = "run" /\ ran \in {"step", "bulk"} =>
    /\ stmt[arg.stmt] = "linked" /\ arg.stmt \in held
    /\ ran = "bulk" => holder[arg.binds] # "none"

(* A database that is gone has left nothing behind: the worker has let go   *)
(* of the mutex before it was destroyed and of the async handle before it   *)
(* was closed, whichever step of opening failed.                           *)
ClosedIsQuiet ==
  /\ life # "live" => worker = "off" /\ mutex = None /\ ~sent /\ ~handle
  /\ res = CASE life = "live" -> Range(Resources)
             [] life = "closing" -> {"d", "async"}
             [] OTHER -> {}

(* Neither thread gets hold of a statement that is not its own. *)
StatementsSafe == OwnStatement /\ SteppedIsLive

(* Every operation that was accepted is answered: no signal is lost. *)
EveryCallAnswered == \A p \in Procs : (waiting[p] # None) ~> (waiting[p] = None)
=============================================================================
