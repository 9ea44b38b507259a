# A TLA+ model of the Swish Concurrency Engine

Swish runs Erlang-style processes inside one Chez Scheme thread: cheap
processes with inboxes, links, monitors and exit signals, gen-servers and
supervisors on top of them, and libuv and SQLite underneath. This directory
holds TLA+ modules of the parts where the order of events matters, TLC
configurations that check them on small instances, and TLAPS proofs of the most
important invariants for every instance. `PROJECT.json` maps each definition to
the source lines it models.

Paths are relative to the directory that contains `src/`; the Scheme and C code
is in `src/src/swish/`.

## Inventory

| Part | State | Operations | Interacts by |
| --- | --- | --- | --- |
| Process layer (`erlang.ss`) | pcbs: name, inbox, links, monitors, flags, exception state; registrar | spawn, kill, link, monitor, demonitor&flush, register, send | exit signals, DOWN and EXIT messages |
| Mailbox (`erlang.ss`) | a doubly-linked list per process, the cursor of `$receive`, flags `exit?` and `handling-exit?` | `@send`, `$receive`, `@remove-msg`, `@handle-trap-exit` | wake-up of the receiver, handlers on resume |
| Scheduler (`erlang.ss`) | run queue, sleep queue, interrupt disable counts | `@yield`, `@event-check`, `@event-loop`, wait-for-io, complete-io | callbacks of the OS interface |
| gen-server (`gen-server.ss`) | the loop of one server, calls under way | call, cast, reply, start, start&link, terminate | monitors, `ack` and reply messages, timeouts |
| Gatekeeper (`gatekeeper.ss`) | list of `<mutex>` tuples | enter, leave, DOWN of an owner | gen-server calls, monitors |
| Supervisor, watcher (`supervisor.ss`, `watcher.ss`) | children, restart times | start/restart/delete/terminate-child, EXIT of a child | links, monitor + kill + timeout for shutdown |
| Event manager (`event-mgr.ss`) | event buffer, handlers, log handler | notify, add-handler, set-log-handler, flush-buffer, EXIT of an owner | links to owners, kill of failing ones |
| Database server (`db.ss`) | queue of transactions and log entries, one worker, statement cache | transaction, log, worker DOWN, commit timer | worker processes, SQLite threads |
| Parallel (`parallel.ss`) | job index, live workers | start a worker, worker exit, timeout | spawn&link, trap-exit handler |
| OS interface (`osi.c`) | callback list, request slot, port structures with pending reader, writer and closer, locked objects | get_callbacks, send_request, read/write/close port, connect, listen, spawn, requests on paths | libuv threads and callbacks |
| SQLite worker (`sqlite.c`) | per-database mutex, condition, work function, busy flag, list of statements | open, prepare, step, bulk execute, finalize, interrupt, close | worker thread, uv_async |
| Log database, application (`log-db.ss`, `app.ss`) | the children of the application supervisor | setup, startup, shutdown | calls to the event manager and to log-db, exit signals |
| I/O (`io.ss`), HTTP (`http.ss`), WebSocket (`websocket.ss`) | port handles, guardians, page cache, connections | read, write, close, accept, request handling | blocked processes, callbacks |
| Others | see `components` in `PROJECT.json` | sequential text processing, tools | |

What makes each part correct:

* process layer: links symmetric and between live processes, one DOWN per
  monitor, no DOWN after demonitor&flush, names of live processes only, death is
  final, cascades end;
* mailbox: no message lost, duplicated, overlooked or taken out of order, however
  a receive is interrupted; no exit message forgotten;
* scheduler: no lost wake-up, no process on two queues, the event loop always
  runnable;
* gen-server: every call is answered, fails or times out; start reports what
  happened;
* gatekeeper: mutual exclusion, nothing left locked, no undetected deadlock;
* supervisor: children started in order and stopped in reverse, restart intensity
  respected, nobody left running after shutdown;
* event manager and database: events in the log in order and once, none lost
  while the application starts or stops, every transaction answered truly;
* OS interface: every port has one owner that will close it, every waiting
  process is answered once, what libuv uses is locked, a descriptor is not used
  after it was closed, a request of another thread returns when it was served;
* SQLite worker: no lost wake-up, no answer to the wrong process, no statement
  or mutex freed while the thread uses it;
* parallel: no worker outlives its caller.

Where the difficulty lies: everything in the Scheme world is one thread, so
critical sections (`no-interrupts`, the `@` procedures) are atomic, but an
operation that re-enables interrupts halfway (demonitor&flush, send to a name,
the matcher call of `$receive`) can be interleaved with anything; exit signals
run a recursive cascade over a graph that they change; trap-exit handlers run
user code at every resume; a call that timed out is still done by its server.
Below, real threads come in: every SQLite database has one, other threads send
requests, and a process that is killed leaves what it asked of libuv or SQLite
under way.

## Modules

### Process (proofs in ProcessProofs, instances in MCProcess)

One variable per pcb field (`inbox`, `trap`, `name`, `links`, `monitors`, and
`status`/`reason` for a live inbox and for the exception state), the `registrar`,
and the `mon` records. One action per exported operation, with the code's early
returns; an operation that throws changes nothing and has no action.

`@kill` is a recursion over links and monitors. It is modelled one visit at a
time with an explicit `stack` of activations: `BeginKill` clears the pcb (or
panics for the event loop and the finalizer), `KillLinked` visits one linked
process and may begin a nested kill, `KillMonitor` handles one monitor, `EndKill`
returns. While the stack is not empty nothing else runs, because interrupts are
disabled. demonitor&flush and send to a name are two actions each, since the code
leaves its critical section in between; `pend` holds the half-done operation.

Abstractions: lists of links and monitors are sets (a cascade may then visit them
in any order, which includes the code's); reasons are a small set; contents of
user messages are dropped; the inbox is a sequence, which `Mailbox` justifies.
`fate` and `downs` are history variables.

### Mailbox and Inbox (proofs in MailboxProofs, instances in MCMailbox)

`Inbox` is what the documentation promises: messages are numbered as they arrive, a
receive takes the first one it accepts, or gives up when there is none. `Mailbox` is what
the code does: `prev` and `next` pointers, with `prev = None` as the mark of a
removed message, `$receive` as a frame with a cursor, the matcher as a state in
which the process can be preempted, waiting, waking, and the check for exit
messages at every resume. `@handle-trap-exit-help` is four steps, since interrupts
are enabled between them: `HandleTrapExit` removes the message, `HandlerEnter` sets
`handling-exit?` and calls the handler, `HandlerReturn` resets the flag, `HandlerLoop` looks
for the next one without testing the flags. Before the first flag and after the last
the process can be preempted and another activation start on top; `Starting`,
`HandlerFrame` and `Ending` are the frames of an activation at these places. A handler
may return, raise (which ends everything below it), or (constant `HandlersReceive`)
call receive itself. `find1`'s loop
over removed messages is the closure `Passed` and its end `Skip`. `ImplementsInbox` states the
refinement: the inbox is what has arrived and has not been removed (`Inside`), the
receive under way is the one on the stack (`Accepted`). It supposes, like
`NothingMissed`, handlers that do not receive, so that there is at most one.

Not modelled: guards of patterns that themselves call receive; keyboard interrupt
handlers, which appear only as a wake-up without a message.

### Gatekeeper (proofs in GatekeeperProofs, instances in MCGatekeeper)

The server's list of mutexes in its order, its inbox, and the clients' side of
gen-server:call. One action per branch of `handle-call` and `handle-info`; the
reply and the monitor calls of `enter-mutex` and the flush of `leave-mutex` are
part of the action. A client's call can time out (its request or its place in a
queue stays), and a client can die at any point. The
search of `deadlock?` is the set `Chased` of processes it goes through: it has no
base case for a cycle that does not contain the caller, which would keep the server
busy for ever, so `Chase` has the outcome `forever`.
`find-monitor` has no base case either: a DOWN of an unknown monitor ends the
server.

The tag of a call is a fresh monitor in the code. The model uses the number of
calls that the client has given up, which distinguishes a late reply from the
reply to the current call and keeps the state space finite.

### Supervisor (proofs in SupervisorProofs, instances in MCSupervisor)

The server state (`children`, newest first, and `restarts`) and the control of its
handlers. Every handler is a loop over a list: `todo` is what is left of it, its
head the child at hand, `acc` what is done, `job` the handler, `victim` the child
whose end is being handled, `pc` the next call that another process could
interfere with (thunk, link, monitor, unlink, kill, receive). `start-children`,
`terminate-children` and the nested calls of `restart` are steps over these
variables; `Restart` is `restart`, `add-restart` and the beginning of
`strategic-restart`. Thunks return a process (which they may have linked or not,
and which may be dead by the time it is linked), `ignore`, or an error. Children
end at any time and may unlink the supervisor, the parent may end, time passes.

Abstractions: the specification of a child is its restart type and shutdown value,
chosen at the start, always valid; a process that the supervisor no longer refers
to can stand for a new one (constant `Pids` bounds those it refers to at a time);
a call is taken when the server is idle and may overtake the modelled inbox, since
it may have been sent before the messages in it; a request that is refused changes
nothing and has no action. `begun` and `naughty` are history variables. Not
modelled: a supervisor that is itself killed, thunks that call the supervisor.

### SqliteWorker (proofs in SqliteWorkerProofs)

One database of `sqlite.c`. The loop thread and the worker thread interleave at
every mutex operation, signal and wait: `StoreWork` is the critical section in
which an operation stores its work, `Signal` the `uv_cond_signal` after it,
`worker_*` and `*_worker` the thread, `*_cb` the callbacks of the async handle.
`Spurious` wakes the thread without a signal. `open_cb` fails after any number of
the six resources it acquires; `Released` is what each error path gives back, and
`close_free_cb` what comes later. A killed process leaves its operation; the
finalizer process finalizes statements and frees bindings when it likes.
Operations that are refused (`EBUSY`, `EINVAL`, `ENOMEM`) change nothing and have no
action. osi_interrupt_database shows only as a step that fails.

### Ports (proofs in PortsProofs)

The ports of `osi.c` as `io.ss` uses them. `port` holds the structures with their
pending reader, writer and closer, `req` the request a process has with the thread
pool, `record` the handles Scheme owns, `locked` what the collector may not touch,
`opened` the descriptors of the operating system, `handle` a listener or an OS
process. Processes call while the thread is in Scheme; C callbacks run only
inside `osi_get_callbacks` and add to `g_callbacks`; `run_callbacks` is the Scheme side.
Connect tries one address after another; connect, accept, listen and spawn have
their failure paths, which close what they have made. `KeptLive` is the closure of
a pending callback that keeps the port from the finalizer process.

Assumed: the port of a file or a descriptor is used by the process that opened it
only (`rw_fs_port`, `MayClose`). `osi.c` does not test this: a file that another process
closes while a read is in the thread pool is not protected by the code, and the
console ports of `io.ss` (`:554`, `:588`) are opened by one process and read by another.
`run_callbacks` is one step, as the event loop runs with interrupts disabled; a listener
that has accepted is therefore still there when its callback runs, and the branch of
`listen-tcp` that closes the port of one that is gone (`io.ss:1110`) is not taken. Not
modelled: path watchers, signals, `osi_spawn_detached`, `osi_exit`.

### SendRequest (proofs in SendRequestProofs)

`osi_send_request` line by line between its mutex operations, with the shared
condition variable for those who wait their turn, the sender's own one in its
frame, spurious wake-ups of both, and a `uv_async_send` that may fail.

### DbServer, EventMgr and Logging (proofs in LoggingProofs)

`DbServer` is the gen-server of `db.ss`: its queue, its worker as a process with the
steps of a transaction (`BEGIN_IMMEDIATE`, `call_f` or `bulk_execute`, `COMMIT`,
`ROLLBACK`, `reply`), each of which may fail, `commit-delay`, and `terminate` with the
three deadlines of `flush`, `stop-worker` and `shutdown`. `EventMgr` extends it with the
event manager: the buffer (newest first, as in the code), `do-flush-buffer` one event
at a time, handlers and owners, the log handler that sends to the database server,
`endure?`. `Logging` adds log-db:setup and the order of the application supervisor,
with the time limits after which it kills the sentry (`stopLogDb` without an answer),
the database server (`dbKilled`) and the event manager (`emKilled`) and goes on, and is
what the run checks. Events are numbered in the order they are sent. `flush`
and `stop-worker` receive the DOWN message of the worker wherever it is in the inbox:
`Downs` are its places, and that there is at most one is a part of `DatabaseSafe`.

Left out: the statement cache and lazy statements; the `filename` request; timeouts of
calls to the event manager in startup; more than one handler per owner. `Close` takes
`terminate` for one that rolls back: when a statement in the cache cannot be finalized,
because the thread is still busy for a worker that was killed, the code skips
`sqlite:close` and leaves the database to the finalizer process, but nobody can commit
what is open. `late` and `fault` are history variables. `fault`: a worker has failed or
been given up. `late`: the events that the shutdown may lose, which are those sent
after the supervisor has begun to stop the sentry, those in the inbox of the manager
when the sentry is given up without its answer, and what the manager has when it is
killed.

## Runs

All bounds are constants in the cfg files. Deadlock is checked for Mailbox,
SqliteWorker, Ports and SendRequest (where it would be two threads that wait for
each other; in SendRequest the event loop polls for ever). It is not checked for
Process (every process may have died or the program have panicked), Gatekeeper
(every client may have died), Supervisor and Logging (they may have ended). Each
module's `TypeOK` is a conjunct of one of the invariants below; that of Process is
proved instead.

| Run | Instance | Shows |
| --- | --- | --- |
| `process_links` | 3 processes and a system process, inboxes filled by cascades only | symmetric links, complete signalling, death once, cascades end or panic. In a triangle of three a cascade meets a process that it has killed already along a second path; messages that processes send play no part in this |
| `process_monitors` | 2 processes, 2 monitors, 2 names | both ends agree, DOWN exactly once, flush complete, registrar and names inverse. Two monitors are enough for mutual monitoring and for two monitors of one target, two names for a process that tries to take a second one |
| `mailbox_receive` | 4 messages of 3 kinds | without receives in handlers the mailbox is a sequence; no message is overlooked |
| `mailbox_handlers` | 3 messages, receiving handlers | the list stays well formed, exits are not forgotten, no handler is called while another runs, although activations nest |
| `gatekeeper_live` | 2 clients, 2 mutexes, no timeouts | nothing left locked, server stays up, every enter is answered. Two of each give a cycle; a theorem says for any number that nobody waits in one |
| `gatekeeper_timeouts` | 3 clients, 1 mutex, depth 2, 1 timeout each | exclusion, and agreement of owner and holder, with abandoned calls and a queue of two |
| `supervisor_one_for_one` | 1 child of every type, 3 processes, 2 ticks | deaths noticed, no DOWN left over, intensity kept over a full period and its boundary, nobody outlives the supervisor. Under one-for-one, children share nothing but the restart times |
| `supervisor_one_for_all` | 2 children, 3 processes, shutdown `infinity` | one process per child, orderly teardown; the supervisor ends after its parent; dead processes leave the list. Two children are enough for a restart that fails half-way |
| `sqlite_worker` | 2 processes, 2 statements, 1 bindings | answers match requests, a stepped statement is not finalized and the prepared one is handed out, opening and closing leave nothing behind, every call is answered. Two statements give a list whose first element is not the only one |
| `ports` | 2 processes, one mortal, the finalizer, 1 port, 1 descriptor, 2 addresses | one owner per port, answers once and in order, descriptors and locks, every operation ends. With one port and one descriptor every reuse is a reuse of the same one, the case that matters |
| `send_request` | 3 threads, 2 requests each | the request called is live, a return means it was run once, every request returns. Three threads: one served, two waiting their turn |
| `logging` | 2 events, 1 owner, commit limit 2, the two transactions of setup | log in order and once, nothing lost, true answers, database closed last, handlers go with their owners, everything settles. Two events can be in one batch, in two, in the buffer, on the way or late; the instance with commit limit 1 passes as well |

Fairness. `CascadeEnds` uses weak fairness of the steps of `@kill`: it is straight
code with interrupts disabled. `EveryEnterAnswered` uses weak fairness of the
server and of a client that has its reply (the run queue is served in turn, and
the timer preempts a process that runs too long), and strong fairness of leaving
each mutex: the body of `with-gatekeeper-mutex` is assumed to end, and its
dynamic-wind leaves the mutex. Strong, because a client inside one mutex may be
busy entering others. The liveness of the supervisor uses weak fairness of its
own steps (timers included), strong fairness of handling the messages of its
inbox (they are taken in order, so calls cannot overtake them for ever), and weak
fairness of the end of a child that is asked to end and given all the time it
wants: only supervisors are, and `ParentExitEnds` says that they do end.

`EveryCallAnswered` and `EveryRequestReturns` assume that threads run and that a
mutex which is given up again and again is granted (strong fairness of the lock
steps), as the operating system's mutexes do; SQLite's calls are assumed to return.
`EveryOperationEnds` assumes that the event loop is always on the run queue, which
`@event-loop` guarantees, and that the thread pool does its work, the read of a console
included, which in fact waits for its user; a peer need not
send or read, so a read or a write of an open stream may wait. `EverythingSettles`
assumes that the scheduler runs a process as long as there is one to run (with a
bounded number of events no more is needed), that timers go off and that the procedure
of a transaction ends; nobody need shut the application down or send an event.

### Known disagreements

Seven places where the code does not do what its documentation or a comment says, or
where one would expect more. Each shows in TLC as a violation of an instance that
is not part of the runs; the cfg files of the first five are here.

* `MailboxStaleCursor.cfg` (module MCMailbox) violates `NothingMissed`: a waiting
  receive remembers the last message it rejected. If a trap-exit handler receives
  exactly that message and it was the last of the inbox, its preserved `next`
  pointer leads to the sentinel; the next arrival is linked elsewhere and `find1`
  does not reach it. The comment above `@remove-msg` (`erlang.ss:887`) says that
  "When $receive resumes its search, the find1 loop skips deleted messages".
* `MailboxNested.cfg` (module MCMailbox) violates `ExitsAreHandled`: interrupts are
  enabled (`erlang.ss:804`) after an EXIT message has been removed and before the
  handler is called with it. If the process is preempted there and another EXIT has
  come in, that one is handled first, and if its handler raises, the first message is
  gone and its handler is never called. `src/doc/swish/erlang.tex:991` says of the
  scheduler that it "retrieves the first exit message, invokes handler on that
  message, and repeats this".
* `GatekeeperStale.cfg` (module MCGatekeeper) violates `NoCyclicWait`: an enter that
  timed out stays queued and is granted later. A client that tries again queues
  behind its own abandoned entry and, once that is granted, waits for a mutex it
  owns; `src/doc/swish/gatekeeper.tex:33` says that the gatekeeper breaks deadlocks.
  When a third client enters, `deadlock?` follows that cycle for ever.
* `SupervisorOrphan.cfg` (module MCSupervisor) violates `AllDown`: a one-for-all
  restart has the child that died up again when the start of another one fails; the
  next attempt exceeds the intensity, and `restart` drops the child that died from
  the list, by name, although it is running. It gets no shutdown, only the exit
  signal of the supervisor's end, and outlives the supervisor if it traps exits;
  `src/doc/swish/supervisor.tex:68` says that all child processes are terminated.
* `LoggingSentry.cfg` (module Logging) violates `NoneLostAfterLogDb`: a process that has
  looked up `event-mgr` may send its event when the manager has ended. There are more
  ways, and they are why `NothingLost` needs `late`: when the manager comes to an event
  after the database server has ended and before it has seen its EXIT, the log
  handler sends to nobody and raises nothing, so the event is neither in the database
  nor on the console. That happens to events behind the request to unregister and,
  if the sentry does not have its answer within 1000 ms, to those ahead of it. The
  comment of the sentry (`app.ss:72-75`) says that it "prevents messages that occur
  after log-db shuts down from getting lost".
* with `TrapModes = {"true", "handler"}` and two messages, `ReceivedOnce` of Mailbox
  fails: a trap-exit handler can be given the EXIT message that an interrupted
  matcher is looking at, and the receive runs its body on it all the same;
* with `Results = {"ok", "ignore"}` in `SupervisorTypes.cfg`, `DeathNoticed` fails: a
  one-for-one restart whose thunk returns `ignore` keeps the dead pid in the list,
  and restart-child and delete-child answer `running` from then on.

### What the code does not promise

Seen while modelling, and left out of the properties:

* when a batch fails, its transaction stays open; the next `BEGIN IMMEDIATE` of
  `flush` fails, and what is left in the queue is not written (`fault`). The
  deadlines of `flush`, and the supervisor's 10 seconds for log-db, give up the
  queue, too;
* the EXIT of a process that owns the log handler and another handler removes the
  log handler only (`event-mgr.ss:132`);
* `osi_finalize_statement` reads `s->database` twice (`sqlite.c:331`, `:336`) without the
  mutex, and `close_worker` clears it (`:226`) before it is done with the statement
  (`:227-228`), which may have been freed (`:333`) by then. The model has each of the two as one
  step, in either order, and says nothing about what happens in between;
* `close_fd_port` leaks its async handle when `uv_async_init` or `uv_async_send` fails
  (`osi.c:276-280`);
* the bindings of a killed process may be freed while the worker steps its
  statement: nothing keeps them alive but for bulk executions (`KeptLive`);
* `open_fs_cb` without memory for the port loses the descriptor (`osi.c:311`);
* a `uv_async_send` that fails makes `osi_send_request` return without letting the
  next thread in (`osi.c:1492`); `EveryRequestReturns` excludes it.

## Proofs

Every theorem holds for any sets of processes, names, messages and so on, and for
any bound; what a constant must satisfy is the named assumption of its module.
Few of the invariants below are inductive by themselves; for each, the strengthening
and the reason for it are given. TLC checked each of them on small instances before
it was proved.

### ProcessProofs

Assumption `ProcessAssumption`: system processes are processes, the three reasons the
code tests for are reasons, `None` is none of the other values.

* `TypeCorrect`: `TypeOK`. It is inductive; the part that matters later is that
  exactly the dead processes have a reason.
* `LinksAreConsistent`: `LinksConsistent`, inductive with `TypeOK`.
* `RegistrarIsConsistent`: `RegistrarConsistent`, inductive with `TypeOK`.
* `MonitorsAreConsistent`: `MonitorsConsistent`, whose second half needs
  `KilledAreDead`: the process of every activation on the stack is dead.
* `DownIsExactlyOnce`: from `MonitorHistory`, which ties the history of a monitor
  to the list it is on: on its target's list, nothing has been sent; off the list
  though not cancelled, exactly one DOWN has and the target is dead.
* `FlushedStaysGone`: `FlushedIsGone`. It needs `InboxHistory` (an inbox has no more DOWN
  messages of a monitor than were sent for it) and `FlushPending` (the demonitor
  that is half-way through `demonitor&flush` is off the list): no DOWN can be sent
  between the two critical sections, and at most one was sent before.
* `LinkedAlwaysSignalled`: `LinkedAreSignalled`, which is inductive with `TypeOK`: the
  rest of a cascade only adds messages to live inboxes and ends processes.
* `DeathFinal`: the action property `DeathIsFinal`: a new activation of `@kill` is for a
  process that is alive, whatever link leads to it.

The proofs go action by action; `StepCases` reduces a step to "a kill begins", a
visit of `@kill`, or an operation that leaves the links, monitors or names alone.

### MailboxProofs

* `ListAlwaysConsistent`: `ListConsistent`, for every instance, those with handlers
  that receive included. `ListInv` says that the two pointers of each cell in the
  list agree and that no `next` pointer, not even the preserved one of a removed
  message, leads backwards; `StackInv` that cursors are at messages that have arrived.
* `ExitsAlwaysFlagged`: `ExitsAreFlagged`, for a process that traps exits with a handler
  throughout (`TrapModes = {"handler"}`) and is sent `EXIT` by exit signals only.
  `FlagInv` (an EXIT in the inbox sets `exit?`) needs `HandlerInv`: `handling-exit?` is set
  exactly while one handler frame is on the stack, and only receives are above it; and
  `HelpInv`: the helper looks for the next EXIT only when no handler runs, although it
  does not test the flag.
* `NothingEverMissed`: `NothingMissed`, if handlers do not call receive either. `LookInv`
  says that what a receive has passed it has rejected and that its cursor is in the
  list. The hypothesis is needed: with handlers that receive, the property is false
  (`MailboxStaleCursor.cfg`).
* `MailboxImplementsInbox`: `ImplementsInbox`, under the same hypotheses. Steps that move
  the cursor, the processor or the handler's flags leave the inbox alone (`StepImplements`).
  When the matcher accepts, `LookInv` says that the message is still there and that every
  earlier one has been rejected, so it is the first; when `find1` times out, its cursor is
  at the end of the list, so everything has been rejected.

What `find1` skips is the closure `Passed` of the `next` pointers of removed messages.
That the CHOOSE in `Skip` has a value follows from `ListInv`: pointers lead forward, so
the last cell of `Passed` points into the list.

### GatekeeperProofs

* `AlwaysExclusive`: `MutualExclusion`, with timeouts, late answers and deaths of clients.
  A client that gives up a call goes on, and the server handles the call later, so
  what a client holds and what the server's list says differ most of the time. The
  invariant follows each call: a client has at most one call that it has not given
  up, which is behind all its others (`OrderInv`); therefore when it is answered or
  queued none is left in the inbox, and the count of a mutex is at least what its
  owner holds, plus what it has been granted and has not seen, plus its leaves that
  are under way (`HeldInv`). That a resource has one mutex is `UniqueInv`.
* `NothingLeftLocked` (`OwnersHold`) and `NobodyWaitsInACycle` (`NoCyclicWait`), if no call
  times out (`MaxTimeouts = 0`). The hypothesis is needed: with timeouts both are false
  (`GatekeeperStale.cfg`). `PatientInv` adds to the invariant above that a process, dead
  or alive, has one request at most, in the inbox or at one place in one queue
  (`RequestInv`); that in every set of processes one waits for none of the set
  (`Acyclic`); that the DOWNs in the inbox and the mutexes of dead owners match one to
  one (`TellInv`); and that counts are exact (`CountInv`). They need each other.
  `deadlock?` looks only at the first queue an owner is found in, which is enough
  because there is one; it ends because the processes on its way do not wait in a cycle
  (`ChaseEnds`), and an enter that it lets wait closes none (`QueueAcyclic`). The waiter
  that a mutex is passed to then waits for nobody (`PassAcyclic`), and does not hold the
  mutex already, since it would have waited for itself.

### SupervisorProofs

Assumption `SupervisorAssumption`: the strategy and the child specifications are those
the code accepts, names, processes, the parent and `None` differ, names are finitely
many. Two theorems have a hypothesis of their own, each the negation of a known
disagreement above.

* `DownAlwaysConsumed` (`DownConsumed`) and `TypesCorrect`, from `ShutdownInv`. Its part
  `MsgInv` is the property made inductive: whoever has a message in the inbox has
  ended, only the process that is being shut down is monitored, and it has sent at most
  one DOWN, none while the monitor stands. It needs `Lists`, since the DOWN is that of
  the head of `todo`: which handler may be at which step (`ControlInv`), which entries
  have no process (`DoneInv`), that names differ in whatever list stands for the
  children at the moment (`NameInv`).
* `AlwaysOneIncarnation` (`OneIncarnation`), `AlwaysInOrder` (`TeardownInOrder`) and, for
  one-for-one, `OneForOneAllDown` (`AllDown`), from `OwnInv` on top of it: every live process
  is the process of a child in the list in use, under the name it was started for.
  A second process for a name would need a thunk to run for a child that still has
  one; a child loses its process in a list only after an EXIT or a DOWN, and `MsgInv`
  says that these tell the truth. For one-for-all the list may lose a live process when
  a restart is refused half-way, which `OwnInv` allows and `AllDown` does not; the other
  two theorems hold all the same.
* `AlwaysWithinIntensity` (`IntensityKept`), from `RestartInv`: the times in the state are
  the latest of those begun, in reverse, and all that were dropped are older than a
  period. It rests on `RestartAdded`, which says this of `add-restart` and
  `prune-restarts` for every list of times, and on times being in order.
* `DeathAlwaysNoticed` (`DeathNoticed`), from `NoticeInv`: a child that is neither being
  restarted nor being shut down is up and linked, or its EXIT is in the inbox, or it
  has unlinked. The invariant also has to say that no two children have one process,
  or taking one EXIT could leave another child unnoticed. Hypothesis: under one-for-one,
  thunks do not return `ignore`.

### SqliteWorkerProofs

* `AnswersAlwaysMatch`, `StatementsAlwaysSafe`, `ClosedAlwaysQuiet`, from one inductive
  invariant. Its heart is `Handover`: whose turn it is between the loop and the
  worker, which no single field of `database_t` says; `ListInv` and `FreshInv` say which
  statements are on the list, `ArgInv` what a step works on, `WaitInv` who waits for it,
  `ResInv` which resources exist at which stage of opening and closing.

### PortsProofs

* `DescriptorsAlwaysOwn` (`OwnDescriptor`), `AlwaysLockedWhileUsed` (`LockedWhileUsed`),
  `AnswersAlwaysMatch` (`AnswersMatch`) and `AlwaysOneOwner` (`OneOwner`), again from one
  invariant. `PendingInv`: a process has at most one operation under way, in a slot of
  a port, as a request, or as a callback in the queue; `MatchInv`: it is the one it
  waits for; `OnceInv`: at most one answer; `ClosedLast`: the answer to a close comes
  behind those of the reads and writes of its port; `OwnerInv`: a port belongs to
  Scheme, to a connect, or to the callback that hands it over, and to one of them;
  `FileInv`: who has which descriptor; `LockInv`: locks follow operations.

### SendRequestProofs

Assumption `SendAssumption`: `None` and `"loop"` are no threads and differ.

* `RequestsAreLive`: `RequestIsLive`, and `ReturnsOnlyWhenRun`: the action property
  `ReturnsWhenRun`. Both follow from one inductive invariant: `TypeOK`, which says at
  which lines a thread holds the mutex, `SlotInv` (a callback is due exactly while
  the slot is full or is being filled under the mutex, and never two) and `RanInv`
  (how often a function has been called is what the slot says). The first cannot do
  without `SlotInv`, since a callback may be due before the slot is filled.

### LoggingProofs

Assumptions `DbAssumption` (the commit limit is positive, `None` is no worker),
`EmAssumption` (owners are finitely many, `"log-db"` is not one of them) and
`LoggingAssumption` (the transactions of setup are those of clients). All four
theorems rest on `Base`: the types, and `WorkerInv` about the worker: it has one
transaction or log entries only, what the open transaction has done before COMMIT is
its work, and its DOWN message is in the inbox at most once and only when it is gone.

* `OwnersOutliveHandlers`: `HandlersHaveOwners`, inductive with `Base`.
* `DatabaseAlwaysSafe`: `DatabaseSafe`, from `TxnInv`, which follows the call of a client
  from the inbox to the queue, the worker and the disk: it is in one of these places
  and once, is not on the disk before its worker has committed it, and a client that
  is told `ok` or `error` has no call under way that could still change what it was told.
* `AlwaysLoggedInOrder`: `LoggedInOrder`, from `OrderInv`. The seven stages of an event
  (disk, worker, queue, inbox of the server, what is left of a flush, buffer, inbox
  of the manager) are each in order, and each is ahead of all that come before it on
  the way (`Stages`), the number of the next event included. Both buffers hold the
  newest event first, so their order is the reverse one.
* `NothingEverLost`: `NothingLost`. Events pass from stage to stage; the work is in the
  places where a stage is given up. `CallInv`: until the manager is told to end, the
  application has at most one request there, and which one says where it is in startup or shutdown.
  `EmLate`: events behind the request to unregister are late, and when the sentry is
  done with (`SentryDone`), answered or not, all that the manager has in its inbox are,
  so that the end of either loses nothing else. The supervisor turns to the manager
  only when the database server has ended.
  `DbLate`: without a fault the same holds of the server behind an EXIT; and the
  server has been told to end only if the supervisor does so, after the sentry, or if
  the manager has no log handler any more and none is on its way (`Quit`). `FaultInv`:
  without a fault, workers end normally and `flush` ends with an empty queue.

### Only model-checked

For good, since the prover does not reach them: liveness (`CascadeEnds`,
`EveryEnterAnswered`, `ParentExitEnds`, `EndedIsReplaced`, `EveryCallAnswered`,
`EveryOperationEnds`, `EveryRequestReturns`, `EverythingSettles`). Every invariant and
every action property of the runs, and the refinement, is the statement of a theorem,
some of them under the hypotheses named above.

## Not modelled

Contents and wording of messages and reports, process parameters, winders and
continuations, the hooks of the gatekeeper into the compiler, and the parts listed
as `not_modelled` in `PROJECT.json`: libraries without shared state (tables, text,
JSON, regular expressions, hashing), development tools, program start, and SQLite
itself, which is vendored. The run queue over all processes, `parallel.ss`, starting
a gen-server, HTTP and WebSocket are within reach and in the plan. Garbage
collection is modelled where the code meets it: the finalizer process in
SqliteWorker and Ports, locked objects in Ports.

## Plan

Done in this order so far: Process, its proofs, Mailbox with Inbox, Gatekeeper,
Supervisor, SqliteWorker, Ports, SendRequest and its proofs, DbServer, EventMgr and
Logging, then the proofs about Mailbox, Gatekeeper, SqliteWorker, Ports, Supervisor
and Logging. Next:

1. **Scheduler**: run queue, sleep queue, `@enqueue`, `@yield`, blocked I/O; no
   lost wake-up, no process on two queues, `run-queue-empty` never raised.
2. **GenServer**: start, start&link, call, stop, with the watcher as a client;
   abstract specification of a call.
3. **Parallel**; **Queue**, shown to implement a sequence; HTTP cache and WebSocket
   close.

One run per question: instances that answer the same question are merged to make
room for new components.

Theorems worth proving next come with these modules: that no wake-up is lost in the
scheduler, and that a call of a gen-server refines its abstract specification.
