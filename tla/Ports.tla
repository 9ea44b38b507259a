-------------------------------- MODULE Ports --------------------------------
(***************************************************************************)
(* The ports of the operating-system interface (src/src/swish/osi.c, used  *)
(* from src/src/swish/io.ss): streams, files, listeners and OS processes.  *)
(*                                                                         *)
(* Scheme processes and libuv's callbacks share one thread.  A process     *)
(* calls an osi procedure, which locks its callback and its buffers against *)
(* the collector and leaves them with libuv, and waits.  The event loop     *)
(* calls osi_get_callbacks, in which libuv runs the C callbacks; these only *)
(* add to g_callbacks, and the Scheme callbacks run afterwards.            *)
(*                                                                         *)
(* An operation that is refused at once (EBUSY, EINVAL, ENOMEM, a libuv     *)
(* call that fails) undoes what it did and is no step, unless it leaves a   *)
(* handle that is still to be closed; the async handle that close_fd_port   *)
(* leaks when uv_async_init or uv_async_send fails is not followed.  Sizes  *)
(* and data are left out.                                                   *)
(***************************************************************************)
EXTENDS Naturals, Sequences, FiniteSets, SequencesExt

CONSTANTS
  Procs,       \* Scheme processes
  Mortal,      \* those that may be killed
  Finalizer,   \* the process that closes what nobody can reach
  Ports,       \* addresses of stream_port_t and fs_port_t
  Fds,         \* file descriptors
  Pipes,       \* pipes of an OS process that is spawned (3 in the code)
  MaxAddrs,    \* addresses a name resolves to, at most
  MaxCallbacks, \* connections are accepted while fewer callbacks are queued
  None

ASSUME PortsAssumption ==
  /\ Mortal \subseteq Procs /\ Pipes \in Nat /\ MaxAddrs \in Nat \ {0}
  /\ Finalizer \notin Procs /\ "handle" \notin Procs \cup {Finalizer}
  /\ (Procs \cup {Finalizer}) \cap Ports = {}
  /\ None \notin Procs \cup Ports \cup Fds \cup {Finalizer, "path", "open", "rw",
       "read", "write", "close", "connect", "handle"}

VARIABLES
  polling,      \* the thread is in osi_get_callbacks
  g_callbacks,  \* the callbacks it will return, newest first
  alive,        \* the processes that have not been killed
  waiting,      \* the operation a process waits for
  port,         \* the port structures
  record,       \* the handles that Scheme records hold
  req,          \* the uv_fs_t, uv_async_t or tcp_connect_t of a process
  opened,       \* who has opened a file descriptor
  locked,       \* what Slock_object has locked
  handle        \* a listener or an OS process

users == <<polling, alive, waiting, record>>
vars == <<users, g_callbacks, port, req, opened, locked, handle>>

Everyone == Procs \cup {Finalizer}
Ops == {"path", "open", "rw", "read", "write", "close", "connect"}

NoPort == [kind |-> "none", st |-> "open", read |-> None, write |-> None,
           close |-> None, file |-> None, proc |-> None]
Stream == [NoPort EXCEPT !.kind = "stream"]
NoReq == [op |-> None, port |-> None, file |-> None, left |-> 0, done |-> FALSE]

Calls == [op: Ops \cup {"accept", "exit"}, proc: Everyone \cup {None},
          port: Ports \cup {None}]
Waits == [op: Ops \cup {None}, port: Ports \cup {None}]
Structs == [kind: {"none", "stream", "file", "fd"}, st: {"connecting", "open", "closing"},
            read: Everyone \cup {None}, write: Everyone \cup {None},
            close: Everyone \cup {None}, file: Fds \cup {None}, proc: Everyone \cup {None}]
Requests == [op: Ops \cup {None}, port: Ports \cup {None}, file: Fds \cup {None},
             left: 0..MaxAddrs, done: BOOLEAN]

TypeOK ==
  /\ polling \in BOOLEAN
  /\ g_callbacks \in Seq(Calls)
  /\ alive \subseteq Everyone
  /\ waiting \in [Everyone -> Waits]
  /\ port \in [Ports -> Structs]
  /\ record \subseteq Ports
  /\ req \in [Everyone -> Requests]
  /\ opened \in [Fds -> Everyone \cup Ports \cup {None}]
  /\ locked \subseteq (Everyone \cup {"handle"}) \X {"callback", "buffer"}
  /\ handle \in {"none", "listening", "running", "closing"}

Init ==
  /\ polling = FALSE /\ g_callbacks = <<>>
  /\ alive = Everyone /\ waiting = [p \in Everyone |-> [op |-> None, port |-> None]]
  /\ port = [a \in Ports |-> NoPort] /\ record = {}
  /\ req = [p \in Everyone |-> NoReq] /\ opened = [f \in Fds |-> None]
  /\ locked = {} /\ handle = "none"

-----------------------------------------------------------------------------
(* What processes call *)

Waiting(p) == waiting[p].op # None
CanCall(p) == ~polling /\ p \in alive /\ ~Waiting(p)
Unused(a) == port[a].kind = "none"

(* Slock_object; wait-for-io. *)
Lock(p, objects) == locked' = locked \cup ({p} \X objects)
UnlockCallback(p, objects) == locked' = locked \ {<<p, "callback">>}
Unlock(p, objects) == locked' = locked \ ({p} \X objects)
WaitFor(p, o, a) == waiting' = [waiting EXCEPT ![p] = [op |-> o, port |-> a]]

(* osi_chmod, osi_make_directory, osi_get_stat and the other requests that *)
(* name a path.                                                            *)
fs_request(p, o) ==
  /\ CanCall(p) /\ p # Finalizer
  /\ req' = [req EXCEPT ![p] = [NoReq EXCEPT !.op = o]]
  /\ Lock(p, {"callback"}) /\ WaitFor(p, o, None)
  /\ UNCHANGED <<polling, alive, record, g_callbacks, port, opened, handle>>

(* A descriptor that is not to be closed, such as that of the console. *)
osi_open_fd(p) ==
  /\ CanCall(p) /\ p # Finalizer
  /\ \E a \in Ports :
       /\ Unused(a)
       /\ port' = [port EXCEPT ![a] = [NoPort EXCEPT !.kind = "fd", !.proc = p]]
       /\ record' = record \cup {a}
  /\ UNCHANGED <<polling, alive, waiting, g_callbacks, req, opened, locked, handle>>

(* read_fs_port, write_fs_port and (without a buffer) osi_get_file_size.    *)
(* That only the process that opened a file or a descriptor uses its port   *)
(* is an assumption about the callers: osi.c does not test it, and for      *)
(* streams, which processes share, none is made.                           *)
FsRequest(p, a, o) ==
  req' = [req EXCEPT ![p] = [NoReq EXCEPT !.op = o, !.port = a, !.file = port[a].file]]
rw_fs_port(p, a) ==
  /\ CanCall(p) /\ a \in record
  /\ port[a].proc = p /\ port[a].kind \in {"file", "fd"}
  /\ FsRequest(p, a, "rw")
  /\ Lock(p, {"callback", "buffer"}) /\ WaitFor(p, "rw", a)
  /\ UNCHANGED <<polling, alive, record, g_callbacks, port, opened, handle>>

read_stream_port(p, a) ==
  /\ CanCall(p) /\ a \in record /\ port[a].kind = "stream" /\ p # Finalizer
  /\ port[a].read = None
  /\ port' = [port EXCEPT ![a].read = p]
  /\ Lock(p, {"callback", "buffer"}) /\ WaitFor(p, "read", a)
  /\ UNCHANGED <<polling, alive, record, g_callbacks, req, opened, handle>>

(* And osi_tcp_write2, whose two buffers are locked and unlocked together. *)
write_stream_port(p, a) ==
  /\ CanCall(p) /\ a \in record /\ port[a].kind = "stream" /\ p # Finalizer
  /\ port[a].write = None
  /\ port' = [port EXCEPT ![a].write = p]
  /\ Lock(p, {"callback", "buffer"}) /\ WaitFor(p, "write", a)
  /\ UNCHANGED <<polling, alive, record, g_callbacks, req, opened, handle>>

(* The closures of pending and of queued callbacks keep their port alive.   *)
(* MayClose has the assumption of rw_fs_port for the ports of files.        *)
KeptLiveNot(a) == FALSE
KeptLive(a) ==
  port[a].read # None \/ port[a].write # None \/ \E p \in Everyone : req[p].port = a
MayClose(p, a) ==
  /\ CanCall(p) /\ a \in record
  /\ IF p = Finalizer THEN ~KeptLive(a)
     ELSE port[a].kind \in {"file", "fd"} => port[a].proc = p

(* @close-osi-port: the record gives up the handle before the process waits. *)
close_stream_port(p, a) ==
  /\ MayClose(p, a) /\ port[a].kind = "stream"
  /\ port' = [port EXCEPT ![a].st = "closing", ![a].close = p]
  /\ Lock(p, {"callback"}) /\ WaitFor(p, "close", a)
  /\ record' = record \ {a}
  /\ UNCHANGED <<polling, alive, g_callbacks, req, opened, handle>>

close_fs_port(p, a) ==
  /\ MayClose(p, a) /\ port[a].kind = "file"
  /\ port' = [port EXCEPT ![a].st = "closing"]
  /\ FsRequest(p, a, "close")
  /\ Lock(p, {"callback"}) /\ WaitFor(p, "close", a)
  /\ record' = record \ {a}
  /\ UNCHANGED <<polling, alive, g_callbacks, opened, handle>>

(* The structure goes at once; an async handle brings the answer.  If there *)
(* is none the port is kept, and the process gets an exception: no step.    *)
close_fd_port(p, a) ==
  /\ MayClose(p, a) /\ port[a].kind = "fd"
  /\ port' = [port EXCEPT ![a] = NoPort]
  /\ req' = [req EXCEPT ![p] = [NoReq EXCEPT !.op = "close", !.done = TRUE]]
  /\ Lock(p, {"callback"}) /\ WaitFor(p, "close", None)
  /\ record' = record \ {a}
  /\ UNCHANGED <<polling, alive, g_callbacks, opened, handle>>

(* If uv_getaddrinfo refuses, the port that was made for it is closed. *)
osi_connect_tcp(p) ==
  /\ CanCall(p) /\ p # Finalizer
  /\ \E a \in Ports :
       /\ Unused(a)
       /\ \/ /\ port' = [port EXCEPT ![a] = [Stream EXCEPT !.st = "connecting"]]
             /\ req' = [req EXCEPT ![p] = [NoReq EXCEPT !.op = "connect", !.port = a,
                                                       !.left = MaxAddrs]]
             /\ Lock(p, {"callback"}) /\ WaitFor(p, "connect", a)
          \/ /\ port' = [port EXCEPT ![a] = [Stream EXCEPT !.st = "closing"]]
             /\ UNCHANGED <<req, locked, waiting>>
  /\ UNCHANGED <<polling, alive, record, g_callbacks, opened, handle>>

(* If uv_bind or uv_listen refuses, the handle is closed. *)
osi_listen_tcp(p) ==
  /\ CanCall(p) /\ p # Finalizer /\ handle = "none"
  /\ \/ handle' = "listening" /\ Lock("handle", {"callback"})
     \/ handle' = "closing" /\ Lock("handle", {"callback"})
     \/ handle' = "closing" /\ UNCHANGED locked
  /\ UNCHANGED <<users, g_callbacks, port, req, opened>>

osi_close_tcp_listener(p) ==
  /\ CanCall(p) /\ handle = "listening"
  /\ handle' = "closing"
  /\ UNCHANGED <<users, g_callbacks, port, req, opened, locked>>

(* When a step of osi_spawn fails, the pipes it has made are closed; when   *)
(* uv_spawn does, its handle too.                                          *)
osi_spawn(p) ==
  /\ CanCall(p) /\ p # Finalizer /\ handle = "none"
  /\ \E S \in SUBSET {a \in Ports : Unused(a)} :
       \/ /\ Cardinality(S) = Pipes
          /\ port' = [a \in Ports |-> IF a \in S THEN Stream ELSE port[a]]
          /\ record' = record \cup S
          /\ handle' = "running" /\ Lock("handle", {"callback"})
       \/ /\ Cardinality(S) \in 1..Pipes
          /\ port' = [a \in Ports |->
                        IF a \in S THEN [Stream EXCEPT !.st = "closing"] ELSE port[a]]
          /\ \/ /\ Cardinality(S) = Pipes
                /\ handle' = "closing" /\ Lock("handle", {"callback"})
             \/ UNCHANGED <<handle, locked>>
          /\ UNCHANGED record
  /\ UNCHANGED <<polling, alive, waiting, g_callbacks, req, opened>>

(* @kill: the process is gone, its operation is not. *)
Kill(p) ==
  /\ ~polling /\ p \in alive /\ Waiting(p)
  /\ alive' = alive \ {p}
  /\ waiting' = [waiting EXCEPT ![p] = [op |-> None, port |-> None]]
  /\ UNCHANGED <<polling, record, g_callbacks, port, req, opened, locked, handle>>

-----------------------------------------------------------------------------
(* libuv's thread pool and the operating system *)

Finished(p) == [req EXCEPT ![p].done = TRUE]

uv_fs_open(p) ==
  /\ req[p].op = "open" /\ ~req[p].done
  /\ \/ req' = Finished(p) /\ UNCHANGED opened
     \/ \E f \in Fds :
          /\ opened[f] = None
          /\ opened' = [opened EXCEPT ![f] = p]
          /\ req' = [Finished(p) EXCEPT ![p].file = f]
  /\ UNCHANGED <<users, g_callbacks, port, locked, handle>>

(* From here on the descriptor may be opened again. *)
uv_fs_close(p) ==
  /\ req[p].op = "close" /\ ~req[p].done
  /\ opened' = [opened EXCEPT ![req[p].file] = None]
  /\ req' = [Finished(p) EXCEPT ![p].file = None]
  /\ UNCHANGED <<users, g_callbacks, port, locked, handle>>

(* Another request on a file or a path, uv_getaddrinfo or uv_tcp_connect. *)
uv_other(p) ==
  /\ req[p].op \in {"path", "rw", "connect"} /\ ~req[p].done
  /\ req' = Finished(p)
  /\ UNCHANGED <<users, g_callbacks, port, opened, locked, handle>>

-----------------------------------------------------------------------------
(* The C callbacks, called by uv_run *)

Polling(p) == polling /\ req[p].done
Callback(o, p, a) == [op |-> o, proc |-> p, port |-> a]
osi_add_callback(o, p, a) == g_callbacks' = <<Callback(o, p, a)>> \o g_callbacks
Answer(p, a) ==
  /\ osi_add_callback(req[p].op, p, a)
  /\ req' = [req EXCEPT ![p] = NoReq]
  /\ Unlock(p, {"callback", "buffer"})

(* And get_file_size_cb. *)
rw_fs_cb(p) ==
  /\ Polling(p) /\ req[p].op = "rw"
  /\ Answer(p, req[p].port)
  /\ UNCHANGED <<users, port, opened, handle>>

(* And get_real_path_cb, stat_cb, list_directory_cb, which differ only in    *)
(* what they make of the result.                                            *)
return_fs_result_cb(p) ==
  /\ Polling(p) /\ req[p].op = "path"
  /\ Answer(p, None)
  /\ UNCHANGED <<users, port, opened, handle>>

(* Without memory for a port the descriptor stays open and is lost. *)
open_fs_cb(p) ==
  /\ Polling(p) /\ req[p].op = "open"
  /\ LET f == req[p].file
         unused == {a \in Ports : Unused(a)}
     IN IF f = None \/ unused = {}
        THEN Answer(p, None) /\ UNCHANGED <<port, opened>>
        ELSE \E a \in unused :
               /\ port' = [port EXCEPT ![a] =
                             [NoPort EXCEPT !.kind = "file", !.file = f, !.proc = p]]
               /\ opened' = [opened EXCEPT ![f] = a]
               /\ Answer(p, a)
  /\ UNCHANGED <<users, handle>>

(* close_fs_cb, which frees the port, and close_fd_cb. *)
close_fs_cb(p) ==
  /\ Polling(p) /\ req[p].op = "close"
  /\ port' = [a \in Ports |-> IF a = req[p].port THEN NoPort ELSE port[a]]
  /\ Answer(p, req[p].port)
  /\ UNCHANGED <<users, opened, handle>>

read_stream_cb(a) ==
  /\ polling /\ port[a].read # None /\ port[a].st = "open"
  /\ port' = [port EXCEPT ![a].read = None]
  /\ Unlock(port[a].read, {"callback", "buffer"})
  /\ osi_add_callback("read", port[a].read, a)
  /\ UNCHANGED <<users, req, opened, handle>>

write_stream_cb(a) ==
  /\ polling /\ port[a].write # None
  /\ port' = [port EXCEPT ![a].write = None]
  /\ Unlock(port[a].write, {"callback", "buffer"})
  /\ osi_add_callback("write", port[a].write, a)
  /\ UNCHANGED <<users, req, opened, handle>>

(* The reader, if there is one, is told that the stream has ended. *)
ToReader(a) == IF port[a].read = None THEN <<>> ELSE <<Callback("read", port[a].read, a)>>
ToCloser(a) == IF port[a].close = None THEN <<>> ELSE <<Callback("close", port[a].close, a)>>
EndOfStreamSilent(a) == ToCloser(a)
EndOfStream(a) == ToCloser(a) \o ToReader(a)

(* libuv has cancelled a pending write before. *)
close_stream_cb(a) ==
  /\ polling /\ port[a].kind = "stream" /\ port[a].st = "closing"
  /\ port[a].write = None
  /\ port' = [port EXCEPT ![a] = NoPort]
  /\ locked' = locked \ ({port[a].read} \X {"callback", "buffer"}
                         \cup {port[a].close} \X {"callback"})
  /\ g_callbacks' = EndOfStream(a) \o g_callbacks
  /\ UNCHANGED <<users, req, opened, handle>>

(* The port made for the connection is closed, without a callback. *)
ConnectFailsOpen(p) == UNCHANGED port
ConnectFails(p) == port' = [port EXCEPT ![req[p].port].st = "closing"]

(* How many addresses may be left when the next one is tried; the ones that *)
(* uv_tcp_connect refuses at once are skipped.                             *)
LeftAgain(p) == {n \in 0..MaxAddrs : n <= req[p].left}
Left(p) == {n \in 0..MaxAddrs : n < req[p].left}

connect_tcp_addrinfo_cb(p) ==
  /\ Polling(p) /\ req[p].op = "connect" /\ req[p].left = MaxAddrs
  /\ \/ /\ \E n \in Left(p) : req' = [req EXCEPT ![p].done = FALSE, ![p].left = n]
        /\ UNCHANGED <<port, locked, g_callbacks>>
     \/ ConnectFails(p) /\ Answer(p, None)
  /\ UNCHANGED <<users, opened, handle>>

connect_tcp_cb(p) ==
  /\ Polling(p) /\ req[p].op = "connect" /\ req[p].left < MaxAddrs
  /\ \/ /\ port' = [port EXCEPT ![req[p].port].st = "open"]
        /\ Answer(p, req[p].port)
     \/ /\ \E n \in Left(p) : req' = [req EXCEPT ![p].done = FALSE, ![p].left = n]
        /\ UNCHANGED <<port, locked, g_callbacks>>
     \/ ConnectFails(p) /\ Answer(p, None)
  /\ UNCHANGED <<users, opened, handle>>

(* A connection is accepted, or the port made for it is closed again. *)
listen_tcp_cb(a) ==
  /\ polling /\ handle = "listening" /\ Unused(a)
  /\ Len(g_callbacks) < MaxCallbacks
  /\ \/ /\ port' = [port EXCEPT ![a] = Stream]
        /\ osi_add_callback("accept", None, a)
     \/ /\ port' = [port EXCEPT ![a] = [Stream EXCEPT !.st = "closing"]]
        /\ osi_add_callback("accept", None, None)
  /\ UNCHANGED <<users, req, opened, locked, handle>>

process_exit_cb ==
  /\ polling /\ handle = "running"
  /\ handle' = "closing" /\ Unlock("handle", {"callback"})
  /\ osi_add_callback("exit", None, None)
  /\ UNCHANGED <<users, port, req, opened>>

close_handle_data_cb ==
  /\ polling /\ handle = "closing"
  /\ handle' = "none" /\ Unlock("handle", {"callback"})
  /\ UNCHANGED <<users, g_callbacks, port, req, opened>>

-----------------------------------------------------------------------------
(* The event loop *)

osi_get_callbacks ==
  /\ ~polling
  /\ polling' = TRUE /\ g_callbacks' = <<>>
  /\ UNCHANGED <<alive, waiting, record, port, req, opened, locked, handle>>

(* uv_run has run the callbacks of what is done and of the handles that are *)
(* closing; run-callbacks runs those of Scheme, the oldest first: one that  *)
(* has got a handle makes a record of it, and complete-io wakes the process. *)
(* All this is one critical section, so a listener that has accepted has not *)
(* been closed when the callback looks for it: the branch of listen-tcp that *)
(* closes the port of a listener that is gone is not taken.                  *)
run_callbacks ==
  /\ polling
  /\ \A a \in Ports : port[a].kind = "stream" => port[a].st # "closing"
  /\ \A p \in Everyone : ~req[p].done
  /\ handle # "closing"
  /\ polling' = FALSE /\ g_callbacks' = <<>>
  /\ record' = record \cup {c.port : c \in {d \in Range(g_callbacks) :
                 d.op \in {"open", "connect", "accept"} /\ d.port # None}}
  /\ waiting' = [p \in Everyone |->
                   IF \E c \in Range(g_callbacks) : c.proc = p
                   THEN [op |-> None, port |-> None] ELSE waiting[p]]
  /\ UNCHANGED <<alive, port, req, opened, locked, handle>>

-----------------------------------------------------------------------------
uv_work(p) == uv_fs_open(p) \/ uv_fs_close(p) \/ uv_other(p)
uv_done(p) ==
  rw_fs_cb(p) \/ return_fs_result_cb(p) \/ open_fs_cb(p) \/ close_fs_cb(p)
  \/ connect_tcp_addrinfo_cb(p) \/ connect_tcp_cb(p)
uv_event(a) == read_stream_cb(a) \/ write_stream_cb(a) \/ listen_tcp_cb(a)
uv_closing(a) == close_stream_cb(a) \/ (port[a].st = "closing" /\ write_stream_cb(a))
event_loop ==
  \/ osi_get_callbacks \/ run_callbacks \/ close_handle_data_cb
  \/ \E p \in Everyone : uv_done(p)
  \/ \E a \in Ports : uv_closing(a)

Next ==
  \/ event_loop \/ process_exit_cb \/ \E a \in Ports : uv_event(a)
  \/ \E p \in Everyone :
       \/ uv_work(p)
       \/ fs_request(p, "path") \/ fs_request(p, "open")
       \/ osi_open_fd(p) \/ osi_connect_tcp(p) \/ osi_spawn(p)
       \/ osi_listen_tcp(p) \/ osi_close_tcp_listener(p)
       \/ \E a \in Ports :
            \/ rw_fs_port(p, a) \/ read_stream_port(p, a) \/ write_stream_port(p, a)
            \/ close_stream_port(p, a) \/ close_fs_port(p, a) \/ close_fd_port(p, a)
  \/ \E p \in Mortal : Kill(p)

Spec == Init /\ [][Next]_vars

(* The event loop is always on the run queue, and the operating system does *)
(* what it was asked for.  A peer need not send, read or connect.          *)
FairSpec ==
  Spec /\ WF_vars(event_loop) /\ \A p \in Everyone : WF_vars(uv_work(p))

-----------------------------------------------------------------------------
(* A process that waits has exactly one operation under way, or its answer   *)
(* in the queue: it is woken once, and by the answer to what it asked for;   *)
(* one that was killed is not taken for a later one.                         *)
AnsweredOnce ==
  LET fields == {"read", "write", "close"}
      pending(p) ==
        {x \in fields \X Ports : port[x[2]][x[1]] = p}
        \cup ({<<req[p].op, req[p].port>>} \ {<<None, None>>})
      queued(p) == {i \in DOMAIN g_callbacks : g_callbacks[i].proc = p}
      count(p) == Cardinality(pending(p)) + Cardinality(queued(p))
  IN \A p \in Everyone :
       /\ count(p) <= 1
       /\ p \in alive => count(p) = IF Waiting(p) THEN 1 ELSE 0
       /\ \A x \in pending(p) : Waiting(p) => x[1] = waiting[p].op
       /\ \A i \in queued(p) : Waiting(p) => g_callbacks[i].op = waiting[p].op

(* Every port structure belongs to one party that will close it: a record,   *)
(* a connection attempt, a callback that will make a record of it, or libuv, *)
(* which is closing it.  No record, request or callback has a handle that is *)
(* free.                                                                     *)
OneOwner ==
  \A a \in Ports :
    LET owners ==
          {<<"record", a>> : r \in record \cap {a}}
          \cup {<<"connect", p>> : p \in {q \in Everyone : req[q].op = "connect"
                                                          /\ req[q].port = a}}
          \cup {<<"queue", i>> : i \in {j \in DOMAIN g_callbacks :
                  g_callbacks[j].port = a
                  /\ g_callbacks[j].op \in {"open", "connect", "accept"}}}
          \cup {<<"closing", a>> : s \in {port[a].st} \cap {"closing"}}
    IN Cardinality(owners) = IF Unused(a) THEN 0 ELSE 1

(* A read or a write that is on its way to the thread pool finds its    *)
(* descriptor open for the port it was asked of: not closed meanwhile by the *)
(* finalizer process, nor closed and opened again for another file.          *)
OwnDescriptor ==
  /\ \A p \in Everyone : req[p].op = "rw" /\ req[p].file # None =>
       opened[req[p].file] = req[p].port
  /\ \A f \in Fds : opened[f] \in Ports => port[opened[f]].file = f

(* What libuv still uses is locked against the collector, and nothing else   *)
(* stays locked.                                                             *)
LockedWhileUsed ==
  LET uses(p) ==
        (UNION {(IF port[a].read = p THEN {"callback", "buffer"} ELSE {})
                \cup (IF port[a].write = p THEN {"callback", "buffer"} ELSE {})
                \cup (IF port[a].close = p THEN {"callback"} ELSE {}) : a \in Ports})
        \cup (IF req[p].op # None THEN {"callback"} ELSE {})
        \cup (IF req[p].op = "rw" THEN {"buffer"} ELSE {})
  IN /\ \A p \in Everyone : {o \in {"callback", "buffer"} : <<p, o>> \in locked} = uses(p)
     /\ handle = "none" => <<"handle", "callback">> \notin locked
     /\ handle \in {"listening", "running"} => <<"handle", "callback">> \in locked

(* When a process learns that its stream is closed, nobody waits for that    *)
(* stream any more: its reader and its writer have been answered before.     *)
ClosedLast ==
  \A i \in DOMAIN g_callbacks :
    LET a == g_callbacks[i].port
    IN g_callbacks[i].op = "close" /\ a # None =>
         \A p \in Everyone : waiting[p].op \in {"read", "write"} /\ waiting[p].port = a
           => \E j \in i + 1..Len(g_callbacks) : g_callbacks[j].proc = p

(* Every answer goes to the one that waits for it, in the right order. *)
AnswersMatch == TypeOK /\ AnsweredOnce /\ ClosedLast

(* Every operation is answered, except that the read or the write of a        *)
(* stream may wait until the stream is closed.  For the ports of descriptors  *)
(* it is said of the ones that the operating system answers (FairSpec): a     *)
(* read of the console may wait for its user as long as it likes.            *)
EveryOperationEnds ==
  \A p \in Everyone :
    LET open(a) == a \in record /\ port[a].kind = "stream"
    IN (Waiting(p) /\ ~(waiting[p].op \in {"read", "write"} /\ open(waiting[p].port)))
         ~> ~Waiting(p)
=============================================================================
