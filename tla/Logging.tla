-------------------------------- MODULE Logging --------------------------------
(***************************************************************************)
(* How an event gets into the log database: the application supervisor       *)
(* (make-swish-sup-spec of src/src/swish/app.ss) starts the event manager    *)
(* and the database server, log-db:setup (log-db.ss) creates the tables in a *)
(* transaction, installs the log handler and has the buffer flushed.  On the *)
(* way down the sentry unregisters the event manager first, then the         *)
(* database server is ended and then the event manager; each of them has a    *)
(* time limit, after which the supervisor kills it and goes on.  The events  *)
(* that this may cost are late.                                              *)
(***************************************************************************)
EXTENDS EventMgr

ASSUME LoggingAssumption == {"setup", "expire"} \subseteq Clients

VARIABLE app   \* where the application supervisor is

vars == <<dbVars, emVars, app>>

Init ==
  /\ DbInit /\ EmInit
  /\ app = "start"

-----------------------------------------------------------------------------
(* Startup and shutdown *)

App(from, to) == app = from /\ app' = to
CallEm(what) ==
  /\ emInbox' = Append(emInbox, Asks(what)) /\ replied' = FALSE
  /\ UNCHANGED <<dbVars, emState, registered, buffering, event_buffer, pending, log_handler,
                 logLinked, handlers, adding, ended, console, looking, events, late>>

setup ==
  /\ App("start", "setup")
  /\ transaction("setup") /\ UNCHANGED emVars

setLogHandler ==
  /\ App("setup", "set-log-handler") /\ answer["setup"] = "ok" /\ DbAlive
  /\ CallEm("set-log-handler")

flushBuffer ==
  /\ App("set-log-handler", "flush-buffer") /\ replied
  /\ CallEm("flush-buffer")

(* db:expire-cache is a transaction, too. *)
expireCache ==
  /\ App("flush-buffer", "expire") /\ replied
  /\ transaction("expire") /\ UNCHANGED emVars

up ==
  /\ App("expire", "up") /\ answer["expire"] = "ok"
  /\ UNCHANGED <<dbVars, emVars>>

(* A transaction failed, or log-db has ended and is nobody's name: startup    *)
(* fails.                                                                    *)
setupFails ==
  /\ app \in {"setup", "expire"} /\ app' = "stop"
  /\ \/ answer[app] \in {"error", "DOWN"}
     \/ app = "setup" /\ answer[app] = "ok" /\ ~DbAlive
  /\ UNCHANGED <<dbVars, emVars>>

(* The application is shut down, or a child of the supervisor has ended.     *)
shutdown ==
  /\ App("up", "stop")
  /\ UNCHANGED <<dbVars, emVars>>

(* The sentry asks to unregister event-mgr; or it does not get to run in its  *)
(* 1000 ms.                                                                  *)
Answered(yes) ==
  /\ replied' = yes
  /\ UNCHANGED <<dbVars, emState, emInbox, registered, buffering, event_buffer, pending, log_handler,
                 logLinked, handlers, adding, ended, console, looking, events, late>>
stopSentryNot == App("stop", "sentry") /\ Answered(TRUE)
stopSentry ==
  /\ App("stop", "sentry")
  /\ CallEm("unregister") \/ Answered(FALSE)

(* The sentry has ended; or it has waited for its answer until its 1000 ms    *)
(* were up, and has been killed, and what is in the inbox of the manager then *)
(* is late.                                                                  *)
IsEvent(entry) == entry.type \in {"log", "notify"}
Events(entries) == {entries[i].event : i \in {j \in DOMAIN entries : IsEvent(entries[j])}}
stopLogDb ==
  /\ App("sentry", "log-db")
  /\ late' = IF replied THEN late ELSE late \cup Events(emInbox)
  /\ Send(<<ExitMsg>>)
  /\ UNCHANGED <<dbState, dbQueue, dbWorker, commit_delay, log_timeout, txn, disk, answer, fault,
                 emState, emInbox, registered, buffering, event_buffer, pending, log_handler,
                 logLinked, handlers, adding, ended, replied, console, looking, events>>

stopEventMgr ==
  /\ App("log-db", "event-mgr") /\ ~DbAlive
  /\ CallEm("parent-EXIT")

(* The 1000 ms of the event manager are up before it has seen that EXIT or    *)
(* before it has flushed its buffer.                                         *)
emKilled ==
  /\ app = "event-mgr" /\ emState = "up"
  /\ emState' = "ended" /\ emInbox' = <<>> /\ registered' = FALSE
  /\ event_buffer' = <<>> /\ pending' = <<>> /\ buffering' = FALSE
  /\ late' = late \cup Events(emInbox) \cup ToSet(event_buffer) \cup ToSet(pending)
  /\ UNCHANGED <<dbVars, log_handler, logLinked, handlers, adding, ended, replied, console,
                 looking, events, app>>

-----------------------------------------------------------------------------
(* The event manager hears of the end of the database server.               *)
Linked ==
  /\ emInbox' = IF logLinked /\ dbState' \in {"closed", "killed"}
                THEN Append(emInbox, ExitOf("log-db")) ELSE emInbox
  /\ logLinked' = (logLinked /\ dbState' \notin {"closed", "killed"})

(* The supervisor kills the database server only while it waits for its end. *)
dbProcess ==
  /\ dbLoop \/ terminate
  /\ Linked
  /\ UNCHANGED <<emState, registered, buffering, event_buffer, pending, log_handler,
                 handlers, adding, ended, replied, console, looking, events, late, app>>
dbKilled ==
  /\ app = "log-db" /\ kill_server
  /\ Linked
  /\ UNCHANGED <<emState, registered, buffering, event_buffer, pending, log_handler,
                 handlers, adding, ended, replied, console, looking, events, late, app>>
workerProcess == dbWork /\ UNCHANGED <<emVars, app>>
emProcess ==
  /\ emLoop
  /\ UNCHANGED <<dbState, dbQueue, dbWorker, commit_delay, log_timeout, txn, disk, answer, fault,
                 app>>
appProcess ==
  \/ setup \/ setupFails \/ setLogHandler \/ flushBuffer \/ expireCache \/ up
  \/ stopSentry \/ stopLogDb \/ stopEventMgr
others ==
  /\ notify \/ \E o \in Owners : addHandler(o) \/ ownerEnds(o)
  /\ UNCHANGED <<dbVars, app>>
(* What is sent when the supervisor has begun to stop the sentry is late.    *)
Closing == app \in {"sentry", "log-db", "event-mgr"}
sender ==
  /\ notifySend
  /\ late' = IF Closing THEN late \cup {events'} ELSE late
  /\ UNCHANGED <<dbVars, app>>

Next == dbProcess \/ dbKilled \/ workerProcess \/ emProcess \/ emKilled \/ appProcess
        \/ shutdown \/ others \/ sender

Spec == Init /\ [][Next]_vars

(* The scheduler runs a process as long as there is one to run, the procedure *)
(* of a transaction ends, and timers go off.  Nobody need shut the           *)
(* application down.  That every process has its turn need not be said: the  *)
(* number of events is bounded, so none can keep the others from theirs.     *)
FairSpec ==
  Spec /\ WF_vars(dbProcess \/ workerProcess \/ emProcess \/ appProcess \/ sender)

-----------------------------------------------------------------------------
InOrder(entries) ==
  \A i, j \in DOMAIN entries :
    i < j /\ IsEvent(entries[i]) /\ IsEvent(entries[j]) => entries[i].event < entries[j].event
(* The entries that the server has queued, and those its worker works on. *)
Worked == IF dbWorker = None \/ dbWorker.at = "gone" THEN <<>> ELSE dbWorker.work
Underway == Events(Worked) \cup IF DbAlive THEN Events(dbQueue) ELSE {}

TypeOK ==
  /\ DbTypeOK /\ EmTypeOK
  /\ app \in {"start", "setup", "set-log-handler", "flush-buffer", "expire", "up", "stop",
              "sentry", "log-db", "event-mgr"}

(* The database holds the events in the order in which they were sent, none  *)
(* of them twice, through the buffer, its flush, batches, workers that fail   *)
(* and the flush of the queue at the end.                                    *)
LoggedInOrder == InOrder(disk)

(* As long as no worker has failed or been given up, an event is on its way,  *)
(* in the database or on the console: also when startup fails, when the log  *)
(* handler fails and when the application is shut down.  Only a late event    *)
(* can be lost, and only once the database server has ended: it may find the *)
(* server gone while the manager does not know it yet, which db:log ignores, *)
(* or the manager gone.  So what the manager has dealt with when the sentry  *)
(* has its answer or is given up is safe, and without a shutdown everything. *)
NothingLost ==
  \A e \in 1..events : ~fault /\ (e \in late => DbAlive) =>
    e \in console \cup Events(emInbox) \cup ToSet(event_buffer) \cup ToSet(pending)
         \cup Events(dbInbox) \cup Underway \cup Events(disk)

(* A client is told ok only when its transaction is committed, and error only *)
(* when it is not and never will be.                                         *)
Calls(entries) == {entries[i].client : i \in {j \in DOMAIN entries : entries[j].type = "transaction"}}
AnswerIsTrue ==
  \A c \in Clients :
    /\ answer[c] = "ok" => c \in Calls(disk)
    /\ answer[c] = "error" => c \notin Calls(disk)

(* The database is not closed under a worker that is still running. *)
ClosedUnused == dbState = "closed" => dbWorker = None \/ dbWorker.at = "gone"

(* The end of a worker is told once. *)
OneDown == \A i, j \in Downs : i = j

(* What clients and SQLite may rely on. *)
DatabaseSafe == TypeOK /\ OneDown /\ AnswerIsTrue /\ ClosedUnused

(* A handler does not stay when its owner has ended: the EXIT is on its way. *)
HandlersHaveOwners ==
  emState = "up" => \A o \in handlers \cap ended : ExitOf(o) \in ToSet(emInbox)

(* Every transaction is answered, or its client sees the server end: again    *)
(* and again, no client waits.  And every event that is not late reaches the *)
(* database or the console in the end, also those that wait in the buffer    *)
(* for a startup that fails and those that wait for commit-delay.            *)
EverythingSettles ==
  /\ []<>(\A c \in Clients : answer[c] # "calls")
  /\ []<>(\A e \in 1..events : e \in console \cup Events(disk) \cup late \/ fault)

(* app.ss:72-75 says of the sentry: "Unregister event-mgr so that            *)
(* event-mgr:notify no longer sends events to log-db but to the console.     *)
(* This prevents messages that occur after log-db shuts down from getting    *)
(* lost."  Violated (LoggingSentry.cfg): a process that has looked event-mgr *)
(* up sends its event when the manager has ended, too.                       *)
NoneLostAfterLogDb ==
  [][~DbAlive /\ events' # events => events' \in console' \cup Events(emInbox')]_vars
=============================================================================
