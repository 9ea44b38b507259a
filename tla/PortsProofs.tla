----------------------------- MODULE PortsProofs -----------------------------
(***************************************************************************)
(* Proofs about Ports, for any processes, ports and descriptors.  The      *)
(* inductive invariant is Inv.  A process has one operation under way at   *)
(* most, in a slot of a port, as a request or as a callback in the queue   *)
(* (PendingInv), and it is the one it waits for (MatchInv); a port is open *)
(* or closing and has one owner from the moment it is made (OwnerInv); a   *)
(* descriptor belongs to the port or the request that has it (FileInv).    *)
(***************************************************************************)
EXTENDS Ports, SequenceTheorems, FiniteSetTheorems, TLAPS

(* What the kind of a port says about its fields. *)
Shaped(r) ==
  /\ r.kind # "stream" => r.read = None /\ r.write = None /\ r.close = None
  /\ r.close # None => r.st = "closing"
  /\ r.kind \in {"none", "fd"} => r.st = "open"
  /\ r.kind = "file" => r.st # "connecting"
  /\ r.kind = "file" <=> r.file # None
ShapeInv == (\A a \in Ports : Shaped(port[a])) /\ (~polling => g_callbacks = <<>>)

(* p has no operation under way. *)
NoSlot(p) == \A a \in Ports : port[a].read # p /\ port[a].write # p /\ port[a].close # p
Quiet(p) == req[p].op = None /\ NoSlot(p)
NotIn(p, q) == \A c \in Range(q) : c.proc # p
NotQueued(p) == NotIn(p, g_callbacks)

(* A process has one operation under way, or one answer in the queue. *)
OneSlot(p) ==
  \A a, b \in Ports :
    /\ port[a].read = p /\ port[b].read = p => a = b
    /\ port[a].write = p /\ port[b].write = p => a = b
    /\ port[a].close = p /\ port[b].close = p => a = b
    /\ port[a].read = p => port[b].write # p /\ port[b].close # p
    /\ port[a].write = p => port[b].close # p
Pending(p) ==
  /\ OneSlot(p)
  /\ req[p].op # None => NoSlot(p)
  /\ NotQueued(p) \/ Quiet(p)
  /\ p \in alive /\ ~Waiting(p) => NotQueued(p) /\ Quiet(p)
  /\ Waiting(p) => p \in alive
PendingInv == \A p \in Everyone : Pending(p)

(* What a process waits for is what is under way for it, or its answer. *)
InSlot(p, o, a) ==
  /\ a \in Ports
  /\ \/ o = "read" /\ port[a].read = p
     \/ o = "write" /\ port[a].write = p
     \/ o = "close" /\ port[a].close = p
InQueue(p, o, a) ==
  \E c \in Range(g_callbacks) :
    c.proc = p /\ c.op = o /\ (o \in {"read", "write"} => c.port = a)
Matched(p) ==
  Waiting(p) =>
    \/ InSlot(p, waiting[p].op, waiting[p].port)
    \/ waiting[p].op \notin {"read", "write"} /\ waiting[p].op = req[p].op
    \/ InQueue(p, waiting[p].op, waiting[p].port)
MatchInv == \A p \in Everyone : Matched(p)

(* No process has two answers in the queue. *)
AnswersOnce(q) ==
  \A i, j \in 1..Len(q) : q[i].proc \in Everyone /\ q[i].proc = q[j].proc => i = j
OnceInv == AnswersOnce(g_callbacks)

(* A callback that makes a record of the handle it is given; no handle is   *)
(* given twice.                                                              *)
Makes(c) == c.op \in {"open", "connect", "accept"} /\ c.port # None
MadeOnce(q) ==
  \A i, j \in 1..Len(q) :
    Makes(q[i]) /\ Makes(q[j]) /\ q[i].port = q[j].port => i = j

(* The four ways to own a port exclude each other. *)
Connects(p, a) == req[p].op = "connect" /\ req[p].port = a
MadeIn(a, q) == \E c \in Range(q) : Makes(c) /\ c.port = a
Made(a) == MadeIn(a, g_callbacks)
Owned(a) ==
  /\ a \in record => port[a].kind # "none" /\ port[a].st = "open" /\ ~Made(a)
  /\ Made(a) => port[a].kind # "none" /\ port[a].st = "open"
  /\ port[a].st = "connecting" => \E p \in Everyone : Connects(p, a)
  /\ port[a].kind # "none" /\ port[a].st = "open" => a \in record \/ Made(a)
Connecting(p) ==
  req[p].op = "connect" =>
    /\ req[p].port \in Ports
    /\ port[req[p].port].kind = "stream" /\ port[req[p].port].st = "connecting"
    /\ \A q \in Everyone : Connects(q, req[p].port) => q = p
OwnerInv ==
  /\ MadeOnce(g_callbacks)
  /\ \A a \in Ports : Owned(a)
  /\ \A p \in Everyone : Connecting(p)

(* Who has which descriptor: a process that opens a file, until the file has *)
(* a port, and then the port, until it is closed.                            *)
Opener(p) == req[p].op = "open" /\ req[p].file # None => opened[req[p].file] = p
User(p) ==
  req[p].op = "rw" =>
    /\ req[p].port \in record /\ port[req[p].port].proc = p
    /\ port[req[p].port].kind \in {"file", "fd"}
    /\ req[p].file = port[req[p].port].file
Closer(p) ==
  req[p].op = "close" =>
    \/ req[p].port = None /\ req[p].done
    \/ /\ req[p].port \in Ports
       /\ port[req[p].port].kind = "file" /\ port[req[p].port].st = "closing"
       /\ \A q \in Everyone : req[q].op = "close" /\ req[q].port = req[p].port => q = p
       /\ IF req[p].done THEN \A f \in Fds : opened[f] # req[p].port
          ELSE /\ req[p].file = port[req[p].port].file
               /\ opened[req[p].file] = req[p].port
FileReq(p) ==
  /\ Opener(p) /\ User(p) /\ Closer(p)
  /\ req[p].op \notin {"rw", "close", "connect"} => req[p].port = None
FileInv ==
  /\ \A f \in Fds : opened[f] \in Ports => port[opened[f]].file = f
  /\ \A a \in Ports : port[a].kind = "file" /\ port[a].st = "open" => opened[port[a].file] = a
  /\ \A p \in Everyone : FileReq(p)

(* What is locked for a process is what its operation needs. *)
UsesBuffer(p) ==
  req[p].op = "rw" \/ \E a \in Ports : port[a].read = p \/ port[a].write = p
Locks(p) == /\ <<p, "callback">> \in locked <=> ~Quiet(p)
            /\ <<p, "buffer">> \in locked <=> UsesBuffer(p)
LockInv == \A p \in Everyone : Locks(p)
HandleInv ==
  /\ handle = "none" => <<"handle", "callback">> \notin locked
  /\ handle \in {"listening", "running"} => <<"handle", "callback">> \in locked

Inv == /\ TypeOK /\ ShapeInv /\ PendingInv /\ MatchInv /\ OnceInv /\ OwnerInv
       /\ FileInv /\ LockInv /\ HandleInv /\ ClosedLast

-----------------------------------------------------------------------------
(* osi_add_callback puts the new callback in front. *)
LEMMA PushCall ==
  ASSUME NEW q \in Seq(Calls), NEW c \in Calls
  PROVE  /\ <<c>> \o q \in Seq(Calls) /\ Range(<<c>> \o q) = {c} \cup Range(q)
         /\ Len(<<c>> \o q) = Len(q) + 1 /\ (<<c>> \o q)[1] = c
         /\ \A i \in 1..Len(q) : (<<c>> \o q)[i+1] = q[i]
         /\ \A i \in 2..Len(q)+1 : i-1 \in 1..Len(q) /\ (<<c>> \o q)[i] = q[i-1]
<1> DEFINE r == <<c>> \o q
<1>1. r \in Seq(Calls) /\ Len(r) = Len(q) + 1 /\ r[1] = c
      /\ \A i \in 1..Len(q) : r[i+1] = q[i]
  OBVIOUS
<1>2. \A i \in 2..Len(q)+1 : i-1 \in 1..Len(q) /\ r[i] = q[i-1]
  BY <1>1
<1> HIDE DEF r
<1>3. Range(r) = {c} \cup Range(q)
  <2>1. ASSUME NEW x \in Range(r) PROVE x \in {c} \cup Range(q)
    BY <1>1, <1>2 DEF Range
  <2>2. ASSUME NEW j \in 1..Len(q) PROVE q[j] \in Range(r)
    BY <1>1 DEF Range
  <2>3. c \in Range(r)
    BY <1>1 DEF Range
  <2>4. Range(q) = {q[j] : j \in 1..Len(q)}
    BY DEF Range
  <2> QED
    BY <2>1, <2>2, <2>3, <2>4
<1> QED
  BY <1>1, <1>2, <1>3 DEF r

(* The records the operations make and change are of their types. *)
LEMMA StructTypes ==
  /\ NoPort \in Structs /\ Stream \in Structs
  /\ [Stream EXCEPT !.st = "closing"] \in Structs
  /\ [Stream EXCEPT !.st = "connecting"] \in Structs
  /\ \A p \in Everyone : [NoPort EXCEPT !.kind = "fd", !.proc = p] \in Structs
  /\ \A p \in Everyone, f \in Fds :
       [NoPort EXCEPT !.kind = "file", !.file = f, !.proc = p] \in Structs
BY DEF NoPort, Stream, Structs

(* A port structure is one after each of the updates of the code. *)
LEMMA StructUpdates ==
  ASSUME NEW r \in Structs, NEW x \in Everyone \cup {None}
  PROVE  /\ [r EXCEPT !.read = x] \in Structs /\ [r EXCEPT !.write = x] \in Structs
         /\ [r EXCEPT !.st = "closing", !.close = x] \in Structs
         /\ [r EXCEPT !.st = "closing"] \in Structs /\ [r EXCEPT !.st = "open"] \in Structs
BY DEF Structs

(* The requests that operations make. *)
LEMMA RequestTypes ==
  /\ NoReq \in Requests
  /\ [NoReq EXCEPT !.op = "close", !.done = TRUE] \in Requests
  /\ \A o \in Ops : [NoReq EXCEPT !.op = o] \in Requests
  /\ \A o \in Ops, a \in Ports, f \in Fds \cup {None} :
       [NoReq EXCEPT !.op = o, !.port = a, !.file = f] \in Requests
  /\ \A a \in Ports :
       [NoReq EXCEPT !.op = "connect", !.port = a, !.left = MaxAddrs] \in Requests
<1>1. NoReq \in Requests
  <2>1. FALSE \in BOOLEAN /\ 0 \in 0..MaxAddrs
    BY PortsAssumption
  <2> QED
    BY <2>1, Zenon DEF NoReq, Requests
<1> USE PortsAssumption, <1>1 DEF Requests, Ops
<1>2. [NoReq EXCEPT !.op = "close", !.done = TRUE] \in Requests
  OBVIOUS
<1>3. \A o \in Ops : [NoReq EXCEPT !.op = o] \in Requests
  OBVIOUS
<1>4. \A o \in Ops, a \in Ports, f \in Fds \cup {None} :
       [NoReq EXCEPT !.op = o, !.port = a, !.file = f] \in Requests
  OBVIOUS
<1>5. \A a \in Ports :
       [NoReq EXCEPT !.op = "connect", !.port = a, !.left = MaxAddrs] \in Requests
  <2>1. MaxAddrs \in 0..MaxAddrs
    BY PortsAssumption
  <2> QED
    BY <2>1
<1> QED
  BY <1>2, <1>3, <1>4, <1>5

(* A request is one after each of the updates of the code. *)
LEMMA RequestUpdates ==
  ASSUME NEW r \in Requests
  PROVE  /\ [r EXCEPT !.done = TRUE] \in Requests
         /\ \A f \in Fds \cup {None} : [r EXCEPT !.done = TRUE, !.file = f] \in Requests
         /\ \A n \in 0..MaxAddrs : [r EXCEPT !.done = FALSE, !.left = n] \in Requests
<1> USE DEF Requests
<1>1. [r EXCEPT !.done = TRUE] \in Requests
  OBVIOUS
<1>2. ASSUME NEW f \in Fds \cup {None} PROVE [r EXCEPT !.done = TRUE, !.file = f] \in Requests
  OBVIOUS
<1>3. ASSUME NEW n \in 0..MaxAddrs PROVE [r EXCEPT !.done = FALSE, !.left = n] \in Requests
  OBVIOUS
<1> QED
  BY <1>1, <1>2, <1>3

(* The fields of what TypeOK types. *)
LEMMA Fields ==
  ASSUME TypeOK
  PROVE  /\ \A a \in Ports :
              /\ port[a] \in Structs
              /\ port[a].read \in Everyone \cup {None}
              /\ port[a].write \in Everyone \cup {None}
              /\ port[a].close \in Everyone \cup {None}
              /\ port[a].file \in Fds \cup {None}
         /\ \A p \in Everyone :
              /\ req[p] \in Requests /\ req[p].op \in Ops \cup {None}
              /\ req[p].port \in Ports \cup {None} /\ req[p].file \in Fds \cup {None}
              /\ req[p].left \in 0..MaxAddrs
         /\ \A c \in Range(g_callbacks) :
              /\ c \in Calls /\ c.proc \in Everyone \cup {None} /\ c.port \in Ports \cup {None}
<1> USE DEF TypeOK
<1>1. \A a \in Ports : port[a] \in Structs
  OBVIOUS
<1>2. \A p \in Everyone : req[p] \in Requests
  OBVIOUS
<1>3. \A c \in Range(g_callbacks) : c \in Calls
  BY DEF Range
<1>4. \A a \in Ports :
        /\ port[a].read \in Everyone \cup {None} /\ port[a].write \in Everyone \cup {None}
        /\ port[a].close \in Everyone \cup {None} /\ port[a].file \in Fds \cup {None}
  BY <1>1 DEF Structs
<1>5. \A p \in Everyone :
        /\ req[p].op \in Ops \cup {None} /\ req[p].port \in Ports \cup {None}
        /\ req[p].file \in Fds \cup {None} /\ req[p].left \in 0..MaxAddrs
  BY <1>2 DEF Requests
<1>6. \A c \in Range(g_callbacks) : c.proc \in Everyone \cup {None} /\ c.port \in Ports \cup {None}
  BY <1>3 DEF Calls
<1> QED
  BY <1>1, <1>2, <1>3, <1>4, <1>5, <1>6

(* The fields of a callback. *)
LEMMA CallType ==
  ASSUME NEW o \in Ops \cup {"accept", "exit"}, NEW p \in Everyone \cup {None},
         NEW a \in Ports \cup {None}
  PROVE  /\ Callback(o, p, a) \in Calls /\ Callback(o, p, a).op = o
         /\ Callback(o, p, a).proc = p /\ Callback(o, p, a).port = a
BY DEF Callback, Calls

(* What is in the queue after osi_add_callback. *)
PushedOn(q, c, r) ==
  /\ r \in Seq(Calls) /\ Range(r) = {c} \cup Range(q) /\ Len(r) = Len(q) + 1 /\ r[1] = c
  /\ \A i \in 1..Len(q) : r[i+1] = q[i]
  /\ \A i \in 2..Len(q)+1 : i-1 \in 1..Len(q) /\ r[i] = q[i-1]
Pushed(c) == PushedOn(g_callbacks, c, g_callbacks')

(* osi_add_callback adds one callback to the queue. *)
LEMMA AddCallback ==
  ASSUME TypeOK, NEW o \in Ops \cup {"accept", "exit"}, NEW p \in Everyone \cup {None},
         NEW a \in Ports \cup {None}, osi_add_callback(o, p, a)
  PROVE  Pushed(Callback(o, p, a))
<1>1. Callback(o, p, a) \in Calls
  BY CallType
<1>2. g_callbacks \in Seq(Calls)
  BY DEF TypeOK
<1>3. g_callbacks' = <<Callback(o, p, a)>> \o g_callbacks
  BY DEF osi_add_callback
<1> QED
  BY <1>1, <1>2, <1>3, PushCall DEF Pushed, PushedOn

(* What every C callback of a request does. *)
LEMMA Answered ==
  ASSUME TypeOK, NEW p \in Everyone, NEW a \in Ports \cup {None}, req[p].op # None,
         Answer(p, a)
  PROVE  /\ req[p].op \in Ops /\ Pushed(Callback(req[p].op, p, a))
         /\ req' = [req EXCEPT ![p] = NoReq] /\ req' \in [Everyone -> Requests]
         /\ locked' = locked \ ({p} \X {"callback", "buffer"})
<1>1. req[p].op \in Ops
  BY Fields
<1>2. Pushed(Callback(req[p].op, p, a))
  BY <1>1, AddCallback DEF Answer
<1>3. req' = [req EXCEPT ![p] = NoReq] /\ req' \in [Everyone -> Requests]
  BY RequestTypes DEF Answer, TypeOK
<1> QED
  BY <1>1, <1>2, <1>3 DEF Answer, Unlock

(* The types. *)
LEMMA TypeStep == Inv /\ [Next]_vars => TypeOK'
<1> SUFFICES ASSUME Inv, [Next]_vars PROVE TypeOK'
  OBVIOUS
<1> USE PortsAssumption DEF Inv, TypeOK, users
<1>1. CASE osi_get_callbacks
  BY <1>1 DEF osi_get_callbacks
<1>2. CASE run_callbacks
  <2>1. record' \subseteq Ports
    BY <1>2, Fields DEF run_callbacks
  <2>2. waiting' \in [Everyone -> Waits]
    BY <1>2 DEF run_callbacks, Waits
  <2>3. polling' \in BOOLEAN
    BY <1>2 DEF run_callbacks
  <2>4. g_callbacks' = <<>>
    BY <1>2 DEF run_callbacks
  <2> QED
    BY <1>2, <2>1, <2>2, <2>3, <2>4 DEF run_callbacks
<1>3. CASE close_handle_data_cb
  BY <1>3 DEF close_handle_data_cb, Unlock
<1>4. CASE process_exit_cb
  <2>1. g_callbacks' \in Seq(Calls)
    BY <1>4, AddCallback DEF process_exit_cb, Pushed, PushedOn
  <2> QED
    BY <1>4, <2>1 DEF process_exit_cb, Unlock
<1>5. ASSUME NEW p \in Everyone, rw_fs_cb(p) PROVE TypeOK'
  <2>1. req[p].op # None /\ Answer(p, req[p].port)
    BY <1>5 DEF rw_fs_cb
  <2> QED
    BY <1>5, <2>1, Answered, Fields DEF rw_fs_cb, Pushed, PushedOn
<1>6. ASSUME NEW p \in Everyone, return_fs_result_cb(p) PROVE TypeOK'
  <2>1. req[p].op # None /\ Answer(p, None)
    BY <1>6 DEF return_fs_result_cb
  <2> QED
    BY <1>6, <2>1, Answered, Fields DEF return_fs_result_cb, Pushed, PushedOn
<1>7. ASSUME NEW p \in Everyone, open_fs_cb(p) PROVE TypeOK'
  <2>1. req[p].op # None
    BY <1>7 DEF open_fs_cb
  <2>2. CASE Answer(p, None) /\ UNCHANGED <<port, opened>>
    BY <1>7, <2>1, <2>2, Answered DEF open_fs_cb, Pushed, PushedOn
  <2>3. ASSUME NEW a \in Ports, req[p].file # None, Answer(p, a),
               port' = [port EXCEPT ![a] =
                         [NoPort EXCEPT !.kind = "file", !.file = req[p].file, !.proc = p]],
               opened' = [opened EXCEPT ![req[p].file] = a]
        PROVE  TypeOK'
    <3>1. port' \in [Ports -> Structs]
      BY <2>3, StructTypes, Fields
    <3>2. opened' \in [Fds -> Everyone \cup Ports \cup {None}]
      BY <2>3
    <3>3. req' \in [Everyone -> Requests] /\ g_callbacks' \in Seq(Calls)
          /\ locked' \subseteq locked
      BY <2>1, <2>3, Answered DEF Pushed, PushedOn
    <3> QED
      BY <1>7, <3>1, <3>2, <3>3 DEF open_fs_cb
  <2> QED
    BY <1>7, <2>2, <2>3, Zenon DEF open_fs_cb
<1>8. ASSUME NEW p \in Everyone, close_fs_cb(p) PROVE TypeOK'
  <2>1. req[p].op # None /\ Answer(p, req[p].port)
    BY <1>8 DEF close_fs_cb
  <2>2. port' \in [Ports -> Structs]
    BY <1>8, StructTypes DEF close_fs_cb
  <2> QED
    BY <1>8, <2>1, <2>2, Answered, Fields DEF close_fs_cb, Pushed, PushedOn
<1>9. ASSUME NEW p \in Everyone, connect_tcp_addrinfo_cb(p) PROVE TypeOK'
  <2>1. CASE \E n \in Left(p) : req' = [req EXCEPT ![p].done = FALSE, ![p].left = n]
                                /\ UNCHANGED <<port, locked, g_callbacks>>
    <3>1. req' \in [Everyone -> Requests]
      <4>1. PICK n \in 0..MaxAddrs : req' = [req EXCEPT ![p] = [req[p] EXCEPT !.done = FALSE, !.left = n]]
        BY <2>1 DEF Left
      <4> QED
        BY <4>1, RequestUpdates
    <3> QED
      BY <1>9, <2>1, <3>1 DEF connect_tcp_addrinfo_cb
  <2>2. CASE ConnectFails(p) /\ Answer(p, None)
    <3>1. port' \in [Ports -> Structs]
      BY <2>2, StructUpdates DEF ConnectFails
    <3> QED
      BY <1>9, <2>2, <3>1, Answered DEF connect_tcp_addrinfo_cb, Pushed, PushedOn
  <2> QED
    BY <1>9, <2>1, <2>2 DEF connect_tcp_addrinfo_cb
<1>10. ASSUME NEW p \in Everyone, connect_tcp_cb(p) PROVE TypeOK'
  <2>1. CASE \E n \in Left(p) : req' = [req EXCEPT ![p].done = FALSE, ![p].left = n]
                                /\ UNCHANGED <<port, locked, g_callbacks>>
    <3>1. req' \in [Everyone -> Requests]
      <4>1. PICK n \in 0..MaxAddrs : req' = [req EXCEPT ![p] = [req[p] EXCEPT !.done = FALSE, !.left = n]]
        BY <2>1 DEF Left
      <4> QED
        BY <4>1, RequestUpdates
    <3> QED
      BY <1>10, <2>1, <3>1 DEF connect_tcp_cb
  <2>2. CASE ConnectFails(p) /\ Answer(p, None)
    <3>1. port' \in [Ports -> Structs]
      BY <2>2, StructUpdates DEF ConnectFails
    <3> QED
      BY <1>10, <2>2, <3>1, Answered DEF connect_tcp_cb, Pushed, PushedOn
  <2>3. CASE port' = [port EXCEPT ![req[p].port].st = "open"] /\ Answer(p, req[p].port)
    <3>1. port' \in [Ports -> Structs]
      BY <2>3, StructUpdates
    <3> QED
      BY <1>10, <2>3, <3>1, Answered, Fields DEF connect_tcp_cb, Pushed, PushedOn
  <2> QED
    BY <1>10, <2>1, <2>2, <2>3 DEF connect_tcp_cb
<1>11. ASSUME NEW a \in Ports, close_stream_cb(a) PROVE TypeOK'
  <2>1. port' \in [Ports -> Structs]
    BY <1>11, StructTypes DEF close_stream_cb
  <2>2. g_callbacks' \in Seq(Calls)
    <3>1. ToReader(a) \in Seq(Calls)
      BY <1>11, Fields, CallType DEF ToReader, Ops
    <3>2. ToCloser(a) \in Seq(Calls)
      BY <1>11, Fields, CallType DEF ToCloser, Ops
    <3> QED
      BY <1>11, <3>1, <3>2 DEF close_stream_cb, EndOfStream
  <2> QED
    BY <1>11, <2>1, <2>2 DEF close_stream_cb
<1>12. ASSUME NEW a \in Ports, read_stream_cb(a) PROVE TypeOK'
  <2>1. port' \in [Ports -> Structs]
    BY <1>12, StructUpdates DEF read_stream_cb
  <2>2. port[a].read \in Everyone
    BY <1>12, Fields DEF read_stream_cb
  <2>3. Pushed(Callback("read", port[a].read, a))
    BY <1>12, <2>2, AddCallback DEF read_stream_cb, Ops
  <2> QED
    BY <1>12, <2>1, <2>3 DEF read_stream_cb, Unlock, Pushed, PushedOn
<1>13. ASSUME NEW a \in Ports, write_stream_cb(a) PROVE TypeOK'
  <2>1. port' \in [Ports -> Structs]
    BY <1>13, StructUpdates DEF write_stream_cb
  <2>2. port[a].write \in Everyone
    BY <1>13, Fields DEF write_stream_cb
  <2>3. Pushed(Callback("write", port[a].write, a))
    BY <1>13, <2>2, AddCallback DEF write_stream_cb, Ops
  <2> QED
    BY <1>13, <2>1, <2>3 DEF write_stream_cb, Unlock, Pushed, PushedOn
<1>14. ASSUME NEW a \in Ports, listen_tcp_cb(a) PROVE TypeOK'
  <2>1. port' \in [Ports -> Structs]
    BY <1>14, StructTypes DEF listen_tcp_cb
  <2>2. g_callbacks' \in Seq(Calls)
    BY <1>14, AddCallback DEF listen_tcp_cb, Pushed, PushedOn
  <2> QED
    BY <1>14, <2>1, <2>2 DEF listen_tcp_cb
<1>15. ASSUME NEW p \in Everyone, uv_fs_open(p) PROVE TypeOK'
  <2>1. CASE req' = Finished(p) /\ UNCHANGED opened
    <3>1. req' \in [Everyone -> Requests]
      BY <2>1, RequestUpdates DEF Finished
    <3> QED
      BY <1>15, <2>1, <3>1 DEF uv_fs_open
  <2>2. ASSUME NEW f \in Fds, opened' = [opened EXCEPT ![f] = p],
               req' = [Finished(p) EXCEPT ![p].file = f]
        PROVE  TypeOK'
    <3>1. req' \in [Everyone -> Requests]
      BY <2>2, RequestUpdates DEF Finished
    <3> QED
      BY <1>15, <2>2, <3>1 DEF uv_fs_open
  <2> QED
    BY <1>15, <2>1, <2>2 DEF uv_fs_open
<1>16. ASSUME NEW p \in Everyone, uv_fs_close(p) PROVE TypeOK'
  <2>1. opened' \in [Fds -> Everyone \cup Ports \cup {None}]
    BY <1>16 DEF uv_fs_close
  <2>2. req' \in [Everyone -> Requests]
    BY <1>16, RequestTypes, RequestUpdates, Fields DEF uv_fs_close, Finished, Ops
  <2> QED
    BY <1>16, <2>1, <2>2 DEF uv_fs_close
<1>17. ASSUME NEW p \in Everyone, uv_other(p) PROVE TypeOK'
  <2>1. req' \in [Everyone -> Requests]
    BY <1>17, RequestTypes, RequestUpdates, Fields DEF uv_other, Finished, Ops
  <2> QED
    BY <1>17, <2>1 DEF uv_other
<1>18. ASSUME NEW p \in Everyone, NEW o \in {"path", "open"}, fs_request(p, o) PROVE TypeOK'
  <2>1. req' \in [Everyone -> Requests]
    BY <1>18, RequestTypes, RequestUpdates, Fields DEF fs_request, Ops
  <2>2. waiting' \in [Everyone -> Waits]
    BY <1>18 DEF fs_request, WaitFor, Waits, Ops
  <2>3. locked' \subseteq (Everyone \cup {"handle"}) \X {"callback", "buffer"}
    BY <1>18 DEF fs_request, Lock
  <2> QED
    BY <1>18, <2>1, <2>2, <2>3 DEF fs_request
<1>19. ASSUME NEW p \in Everyone, osi_open_fd(p) PROVE TypeOK'
  <2>1. PICK a \in Ports : /\ record' = record \cup {a}
            /\ port' = [port EXCEPT ![a] = [NoPort EXCEPT !.kind = "fd", !.proc = p]]
    BY <1>19 DEF osi_open_fd
  <2>2. port' \in [Ports -> Structs]
    BY <2>1, StructTypes
  <2> QED
    BY <1>19, <2>1, <2>2 DEF osi_open_fd
<1>20. ASSUME NEW p \in Everyone, osi_connect_tcp(p) PROVE TypeOK'
  <2>1. ASSUME NEW a \in Ports,
               port' = [port EXCEPT ![a] = [Stream EXCEPT !.st = "connecting"]],
               req' = [req EXCEPT ![p] = [NoReq EXCEPT !.op = "connect", !.port = a,
                                                       !.left = MaxAddrs]],
               Lock(p, {"callback"}), WaitFor(p, "connect", a)
        PROVE  TypeOK'
    <3>1. port' \in [Ports -> Structs]
      BY <2>1, StructTypes
    <3>2. req' \in [Everyone -> Requests]
      BY <2>1, RequestTypes
    <3>3. waiting' \in [Everyone -> Waits]
      BY <2>1 DEF WaitFor, Waits, Ops
    <3> QED
      BY <1>20, <2>1, <3>1, <3>2, <3>3 DEF osi_connect_tcp, Lock
  <2>2. ASSUME NEW a \in Ports, UNCHANGED <<req, locked, waiting>>,
               port' = [port EXCEPT ![a] = [Stream EXCEPT !.st = "closing"]]
        PROVE  TypeOK'
    <3>1. port' \in [Ports -> Structs]
      BY <2>2, StructTypes
    <3> QED
      BY <1>20, <2>2, <3>1 DEF osi_connect_tcp
  <2> QED
    BY <1>20, <2>1, <2>2 DEF osi_connect_tcp
<1>21. ASSUME NEW p \in Everyone, osi_spawn(p) PROVE TypeOK'
  <2>1. port' \in [Ports -> Structs] /\ record' \subseteq Ports
    <3>1. PICK S \in SUBSET Ports, x \in {Stream, [Stream EXCEPT !.st = "closing"]} :
            /\ port' = [b \in Ports |-> IF b \in S THEN x ELSE port[b]]
            /\ record' \in {record, record \cup S}
      BY <1>21 DEF osi_spawn
    <3>2. x \in Structs
      BY StructTypes, Zenon
    <3> QED
      BY <3>1, <3>2
  <2>2. locked' \subseteq (Everyone \cup {"handle"}) \X {"callback", "buffer"}
    BY <1>21 DEF osi_spawn, Lock
  <2>3. handle' \in {"none", "listening", "running", "closing"}
    BY <1>21 DEF osi_spawn
  <2> QED
    BY <1>21, <2>1, <2>2, <2>3 DEF osi_spawn
<1>22. ASSUME NEW p \in Everyone, osi_listen_tcp(p) PROVE TypeOK'
  BY <1>22 DEF osi_listen_tcp, CanCall, Lock
<1>23. ASSUME NEW p \in Everyone, osi_close_tcp_listener(p) PROVE TypeOK'
  BY <1>23 DEF osi_close_tcp_listener, CanCall
<1>24. ASSUME NEW p \in Everyone, NEW a \in Ports, rw_fs_port(p, a) PROVE TypeOK'
  <2>1. req' \in [Everyone -> Requests]
    BY <1>24, RequestTypes, RequestUpdates, Fields DEF rw_fs_port, FsRequest, Ops
  <2>2. waiting' \in [Everyone -> Waits]
    BY <1>24 DEF rw_fs_port, WaitFor, Waits, Ops
  <2>3. locked' \subseteq (Everyone \cup {"handle"}) \X {"callback", "buffer"}
    BY <1>24 DEF rw_fs_port, Lock
  <2> QED
    BY <1>24, <2>1, <2>2, <2>3 DEF rw_fs_port
<1>25. ASSUME NEW p \in Everyone, NEW a \in Ports, read_stream_port(p, a) PROVE TypeOK'
  <2>1. port' \in [Ports -> Structs]
    BY <1>25, StructTypes, StructUpdates DEF read_stream_port
  <2>2. waiting' \in [Everyone -> Waits]
    BY <1>25 DEF read_stream_port, WaitFor, Waits, Ops
  <2>3. locked' \subseteq (Everyone \cup {"handle"}) \X {"callback", "buffer"}
    BY <1>25 DEF read_stream_port, Lock
  <2> QED
    BY <1>25, <2>1, <2>2, <2>3 DEF read_stream_port
<1>26. ASSUME NEW p \in Everyone, NEW a \in Ports, write_stream_port(p, a) PROVE TypeOK'
  <2>1. port' \in [Ports -> Structs]
    BY <1>26, StructTypes, StructUpdates DEF write_stream_port
  <2>2. waiting' \in [Everyone -> Waits]
    BY <1>26 DEF write_stream_port, WaitFor, Waits, Ops
  <2>3. locked' \subseteq (Everyone \cup {"handle"}) \X {"callback", "buffer"}
    BY <1>26 DEF write_stream_port, Lock
  <2> QED
    BY <1>26, <2>1, <2>2, <2>3 DEF write_stream_port
<1>27. ASSUME NEW p \in Everyone, NEW a \in Ports, close_stream_port(p, a) PROVE TypeOK'
  <2>1. port' \in [Ports -> Structs]
    BY <1>27, StructTypes, StructUpdates DEF close_stream_port
  <2>2. waiting' \in [Everyone -> Waits]
    BY <1>27 DEF close_stream_port, WaitFor, Waits, Ops
  <2>3. locked' \subseteq (Everyone \cup {"handle"}) \X {"callback", "buffer"}
    BY <1>27 DEF close_stream_port, Lock
  <2> QED
    BY <1>27, <2>1, <2>2, <2>3 DEF close_stream_port
<1>28. ASSUME NEW p \in Everyone, NEW a \in Ports, close_fs_port(p, a) PROVE TypeOK'
  <2>1. port' \in [Ports -> Structs]
    BY <1>28, StructTypes, StructUpdates DEF close_fs_port
  <2>2. req' \in [Everyone -> Requests]
    BY <1>28, RequestTypes, RequestUpdates, Fields DEF close_fs_port, FsRequest, Ops
  <2>3. waiting' \in [Everyone -> Waits]
    BY <1>28 DEF close_fs_port, WaitFor, Waits, Ops
  <2>4. locked' \subseteq (Everyone \cup {"handle"}) \X {"callback", "buffer"}
    BY <1>28 DEF close_fs_port, Lock
  <2> QED
    BY <1>28, <2>1, <2>2, <2>3, <2>4 DEF close_fs_port
<1>29. ASSUME NEW p \in Everyone, NEW a \in Ports, close_fd_port(p, a) PROVE TypeOK'
  <2>1. port' \in [Ports -> Structs]
    BY <1>29, StructTypes, StructUpdates DEF close_fd_port
  <2>2. req' \in [Everyone -> Requests]
    BY <1>29, RequestTypes, RequestUpdates, Fields DEF close_fd_port, Ops
  <2>3. waiting' \in [Everyone -> Waits]
    BY <1>29 DEF close_fd_port, WaitFor, Waits, Ops
  <2>4. locked' \subseteq (Everyone \cup {"handle"}) \X {"callback", "buffer"}
    BY <1>29 DEF close_fd_port, Lock
  <2> QED
    BY <1>29, <2>1, <2>2, <2>3, <2>4 DEF close_fd_port
<1>30. ASSUME NEW p \in Everyone, Kill(p) PROVE TypeOK'
  <2>1. waiting' \in [Everyone -> Waits]
    BY <1>30 DEF Kill, Waits
  <2> QED
    BY <1>30, <2>1 DEF Kill
<1>31. CASE UNCHANGED vars
  BY <1>31 DEF vars, users
<1> QED
  BY <1>1, <1>2, <1>3, <1>4, <1>5, <1>6, <1>7, <1>8, <1>9, <1>10, <1>11, <1>12, <1>13, <1>14, <1>15, <1>16, <1>17, <1>18, <1>19, <1>20, <1>21, <1>22, <1>23, <1>24, <1>25, <1>26, <1>27, <1>28, <1>29, <1>30, <1>31 DEF Next, event_loop, uv_done, uv_closing, uv_event, uv_work, Everyone

-----------------------------------------------------------------------------
(* What the operations do, field by field. *)

(* Port a becomes the record given, the others stay as they are. *)
PortBecomes(a, k, s, r, w, c, f, o) ==
  /\ port'[a].kind = k /\ port'[a].st = s /\ port'[a].file = f /\ port'[a].proc = o
  /\ port'[a].read = r /\ port'[a].write = w /\ port'[a].close = c
  /\ \A b \in Ports : b # a => port'[b] = port[b]
PortFreed(a) ==
  port'[a] = NoPort /\ PortBecomes(a, "none", "open", None, None, None, None, None)
ReqBecomes(p, o, a, f, d) ==
  /\ req'[p].op = o /\ req'[p].port = a /\ req'[p].file = f /\ req'[p].done = d
  /\ \A q \in Everyone : q # p => req'[q] = req[q]
ReqEnds(p) == req'[p] = NoReq /\ ReqBecomes(p, None, None, None, FALSE)
WaitBecomes(p, o, a) ==
  /\ waiting'[p].op = o /\ waiting'[p].port = a
  /\ \A q \in Everyone : q # p => waiting'[q] = waiting[q]

(* The updates of a port structure, field by field. *)
LEMMA PortEffects ==
  ASSUME TypeOK, NEW a \in Ports, NEW p \in Everyone \cup {None}
  PROVE  LET k == port[a].kind
             s == port[a].st
             r == port[a].read
             w == port[a].write
             c == port[a].close
             f == port[a].file
             o == port[a].proc
         IN /\ port' = [port EXCEPT ![a].read = p] => PortBecomes(a, k, s, p, w, c, f, o)
            /\ port' = [port EXCEPT ![a].write = p] => PortBecomes(a, k, s, r, p, c, f, o)
            /\ port' = [port EXCEPT ![a].st = "closing", ![a].close = p] =>
                 PortBecomes(a, k, "closing", r, w, p, f, o)
            /\ port' = [port EXCEPT ![a].st = "closing"] => PortBecomes(a, k, "closing", r, w, c, f, o)
            /\ port' = [port EXCEPT ![a].st = "open"] => PortBecomes(a, k, "open", r, w, c, f, o)
BY Fields DEF TypeOK, Structs, PortBecomes

(* A port structure that is made or freed, field by field. *)
LEMMA NewPortEffects ==
  ASSUME TypeOK, NEW a \in Ports, NEW p
  PROVE  /\ port' = [port EXCEPT ![a] = NoPort] => PortFreed(a)
         /\ port' = [port EXCEPT ![a] = Stream] =>
              PortBecomes(a, "stream", "open", None, None, None, None, None)
         /\ port' = [port EXCEPT ![a] = [Stream EXCEPT !.st = "closing"]] =>
              PortBecomes(a, "stream", "closing", None, None, None, None, None)
         /\ port' = [port EXCEPT ![a] = [Stream EXCEPT !.st = "connecting"]] =>
              PortBecomes(a, "stream", "connecting", None, None, None, None, None)
         /\ port' = [port EXCEPT ![a] = [NoPort EXCEPT !.kind = "fd", !.proc = p]] =>
              PortBecomes(a, "fd", "open", None, None, None, None, p)
         /\ \A f \in Fds :
              port' = [port EXCEPT ![a] = [NoPort EXCEPT !.kind = "file", !.file = f, !.proc = p]] =>
                PortBecomes(a, "file", "open", None, None, None, f, p)
<1> USE DEF TypeOK, PortBecomes, PortFreed
<1>1. ASSUME NEW r, port' = [port EXCEPT ![a] = r] PROVE port'[a] = r /\ \A b \in Ports : b # a => port'[b] = port[b]
  BY <1>1
<1>2. NoPort = [kind |-> "none", st |-> "open", read |-> None, write |-> None, close |-> None,
                file |-> None, proc |-> None]
  BY DEF NoPort
<1>3. Stream = [kind |-> "stream", st |-> "open", read |-> None, write |-> None, close |-> None,
                file |-> None, proc |-> None]
  BY DEF NoPort, Stream
<1>4. port' = [port EXCEPT ![a] = NoPort] => PortFreed(a)
  BY <1>1, <1>2
<1>5. port' = [port EXCEPT ![a] = Stream] =>
              PortBecomes(a, "stream", "open", None, None, None, None, None)
  BY <1>1, <1>3
<1>6. port' = [port EXCEPT ![a] = [Stream EXCEPT !.st = "closing"]] =>
              PortBecomes(a, "stream", "closing", None, None, None, None, None)
  BY <1>1, <1>3
<1>7. port' = [port EXCEPT ![a] = [Stream EXCEPT !.st = "connecting"]] =>
              PortBecomes(a, "stream", "connecting", None, None, None, None, None)
  BY <1>1, <1>3
<1>8. port' = [port EXCEPT ![a] = [NoPort EXCEPT !.kind = "fd", !.proc = p]] =>
              PortBecomes(a, "fd", "open", None, None, None, None, p)
  BY <1>1 DEF NoPort
<1>9. ASSUME NEW f \in Fds PROVE
         port' = [port EXCEPT ![a] = [NoPort EXCEPT !.kind = "file", !.file = f, !.proc = p]] =>
                PortBecomes(a, "file", "open", None, None, None, f, p)
  BY <1>1 DEF NoPort
<1> QED
  BY <1>4, <1>5, <1>6, <1>7, <1>8, <1>9

(* The updates of a request, field by field. *)
LEMMA RequestEffects ==
  ASSUME TypeOK, NEW p \in Everyone
  PROVE  /\ req' = [req EXCEPT ![p] = NoReq] => ReqEnds(p)
         /\ req' = [req EXCEPT ![p].done = TRUE] =>
              ReqBecomes(p, req[p].op, req[p].port, req[p].file, TRUE)
         /\ \A f : req' = [[req EXCEPT ![p].done = TRUE] EXCEPT ![p].file = f] =>
              ReqBecomes(p, req[p].op, req[p].port, f, TRUE)
         /\ \A n : req' = [req EXCEPT ![p].done = FALSE, ![p].left = n] =>
              ReqBecomes(p, req[p].op, req[p].port, req[p].file, FALSE)
         /\ \A o : req' = [req EXCEPT ![p] = [NoReq EXCEPT !.op = o]] =>
              ReqBecomes(p, o, None, None, FALSE)
         /\ \A o, a, f : req' = [req EXCEPT ![p] = [NoReq EXCEPT !.op = o, !.port = a, !.file = f]] =>
              ReqBecomes(p, o, a, f, FALSE)
         /\ \A n, a : req' = [req EXCEPT ![p] = [NoReq EXCEPT !.op = "connect", !.port = a, !.left = n]] =>
              ReqBecomes(p, "connect", a, None, FALSE)
         /\ req' = [req EXCEPT ![p] = [NoReq EXCEPT !.op = "close", !.done = TRUE]] =>
              ReqBecomes(p, "close", None, None, TRUE)
<1> USE DEF TypeOK, ReqBecomes, ReqEnds
<1>1. ASSUME NEW r, req' = [req EXCEPT ![p] = r] PROVE req'[p] = r /\ \A q \in Everyone : q # p => req'[q] = req[q]
  BY <1>1
<1>2. /\ NoReq = [op |-> None, port |-> None, file |-> None, left |-> 0, done |-> FALSE]
      /\ req[p] = [op |-> req[p].op, port |-> req[p].port, file |-> req[p].file, left |-> req[p].left, done |-> req[p].done]
  BY Fields DEF NoReq, Requests
<1>3. req' = [req EXCEPT ![p] = NoReq] => ReqEnds(p)
  BY <1>1, <1>2
<1>4. req' = [req EXCEPT ![p].done = TRUE] =>
              ReqBecomes(p, req[p].op, req[p].port, req[p].file, TRUE)
  BY <1>1, <1>2
<1>5. ASSUME NEW f PROVE req' = [[req EXCEPT ![p].done = TRUE] EXCEPT ![p].file = f] =>
              ReqBecomes(p, req[p].op, req[p].port, f, TRUE)
  BY <1>1, <1>2
<1>6. ASSUME NEW n PROVE req' = [req EXCEPT ![p].done = FALSE, ![p].left = n] =>
              ReqBecomes(p, req[p].op, req[p].port, req[p].file, FALSE)
  BY <1>1, <1>2
<1>7. ASSUME NEW o PROVE req' = [req EXCEPT ![p] = [NoReq EXCEPT !.op = o]] =>
              ReqBecomes(p, o, None, None, FALSE)
  BY <1>1, <1>2
<1>8. ASSUME NEW o, NEW a, NEW f PROVE req' = [req EXCEPT ![p] = [NoReq EXCEPT !.op = o, !.port = a, !.file = f]] =>
              ReqBecomes(p, o, a, f, FALSE)
  BY <1>1, <1>2
<1>9. ASSUME NEW n, NEW a PROVE req' = [req EXCEPT ![p] = [NoReq EXCEPT !.op = "connect", !.port = a, !.left = n]] =>
              ReqBecomes(p, "connect", a, None, FALSE)
  BY <1>1, <1>2
<1>10. req' = [req EXCEPT ![p] = [NoReq EXCEPT !.op = "close", !.done = TRUE]] =>
              ReqBecomes(p, "close", None, None, TRUE)
  BY <1>1, <1>2
<1> QED
  BY <1>3, <1>4, <1>5, <1>6, <1>7, <1>8, <1>9, <1>10

(* WaitFor, field by field. *)
LEMMA WaitEffects ==
  ASSUME TypeOK, NEW p \in Everyone, NEW o, NEW a, WaitFor(p, o, a)
  PROVE  WaitBecomes(p, o, a)
BY DEF TypeOK, Waits, WaitFor, WaitBecomes

(* The C callbacks. *)
LEMMA RwDone ==
  ASSUME TypeOK, NEW p \in Everyone, rw_fs_cb(p)
  PROVE  /\ polling /\ req[p].op = "rw" /\ ReqEnds(p) /\ Pushed(Callback("rw", p, req[p].port))
         /\ locked' = locked \ ({p} \X {"callback", "buffer"})
         /\ UNCHANGED <<users, port, opened, handle>>
<1> USE PortsAssumption
<1>1. req[p].op = "rw" /\ req[p].op # None /\ polling /\ Answer(p, req[p].port)
  BY DEF rw_fs_cb, Polling
<1> QED
  BY <1>1, Answered, Fields, RequestEffects DEF rw_fs_cb

(* What return_fs_result_cb does. *)
LEMMA PathDone ==
  ASSUME TypeOK, NEW p \in Everyone, return_fs_result_cb(p)
  PROVE  /\ polling /\ req[p].op = "path" /\ ReqEnds(p) /\ Pushed(Callback("path", p, None))
         /\ locked' = locked \ ({p} \X {"callback", "buffer"})
         /\ UNCHANGED <<users, port, opened, handle>>
<1> USE PortsAssumption
<1>1. req[p].op = "path" /\ req[p].op # None /\ polling /\ Answer(p, None)
  BY DEF return_fs_result_cb, Polling
<1> QED
  BY <1>1, Answered, Fields, RequestEffects DEF return_fs_result_cb

(* What open_fs_cb does. *)
LEMMA OpenDone ==
  ASSUME TypeOK, NEW p \in Everyone, open_fs_cb(p)
  PROVE  /\ polling /\ req[p].op = "open" /\ ReqEnds(p)
         /\ locked' = locked \ ({p} \X {"callback", "buffer"})
         /\ UNCHANGED <<users, handle>>
         /\ \/ Pushed(Callback("open", p, None)) /\ UNCHANGED <<port, opened>>
            \/ \E a \in Ports :
                 /\ port[a].kind = "none" /\ req[p].file \in Fds
                 /\ PortBecomes(a, "file", "open", None, None, None, req[p].file, p)
                 /\ opened' = [opened EXCEPT ![req[p].file] = a]
                 /\ Pushed(Callback("open", p, a))
<1> USE PortsAssumption
<1>1. req[p].op = "open" /\ req[p].op # None /\ polling /\ UNCHANGED <<users, handle>>
  BY DEF open_fs_cb, Polling
<1>2. CASE Answer(p, None) /\ UNCHANGED <<port, opened>>
  BY <1>1, <1>2, Answered, RequestEffects
<1>3. ASSUME NEW a \in Ports, Unused(a), req[p].file # None, Answer(p, a),
             port' = [port EXCEPT ![a] =
                       [NoPort EXCEPT !.kind = "file", !.file = req[p].file, !.proc = p]],
             opened' = [opened EXCEPT ![req[p].file] = a]
      PROVE  /\ ReqEnds(p) /\ locked' = locked \ ({p} \X {"callback", "buffer"})
             /\ port[a].kind = "none" /\ req[p].file \in Fds
             /\ PortBecomes(a, "file", "open", None, None, None, req[p].file, p)
             /\ Pushed(Callback("open", p, a))
  <2>1. req[p].file \in Fds
    BY <1>3, Fields
  <2>2. PortBecomes(a, "file", "open", None, None, None, req[p].file, p)
    BY <1>3, <2>1, NewPortEffects
  <2> QED
    BY <1>1, <1>3, <2>1, <2>2, Answered, RequestEffects DEF Unused
<1>4. \/ Answer(p, None) /\ UNCHANGED <<port, opened>>
      \/ \E a \in Ports :
           /\ Unused(a) /\ req[p].file # None /\ Answer(p, a)
           /\ port' = [port EXCEPT ![a] =
                        [NoPort EXCEPT !.kind = "file", !.file = req[p].file, !.proc = p]]
           /\ opened' = [opened EXCEPT ![req[p].file] = a]
  BY Zenon DEF open_fs_cb
<1> QED
  BY <1>1, <1>2, <1>3, <1>4

(* What close_fs_cb does. *)
LEMMA CloseDone ==
  ASSUME TypeOK, NEW p \in Everyone, close_fs_cb(p)
  PROVE  /\ polling /\ req[p].op = "close" /\ req[p].done /\ ReqEnds(p)
         /\ Pushed(Callback("close", p, req[p].port))
         /\ locked' = locked \ ({p} \X {"callback", "buffer"})
         /\ UNCHANGED <<users, opened, handle>>
         /\ IF req[p].port \in Ports THEN PortFreed(req[p].port) ELSE port' = port
<1> USE PortsAssumption
<1>1. /\ req[p].op = "close" /\ req[p].op # None /\ polling /\ req[p].done
      /\ Answer(p, req[p].port)
  BY DEF close_fs_cb, Polling
<1>2. CASE req[p].port \in Ports
  <2>1. port' = [port EXCEPT ![req[p].port] = NoPort]
    BY <1>2 DEF close_fs_cb, TypeOK
  <2>2. PortFreed(req[p].port)
    BY <1>2, <2>1, NewPortEffects
  <2> QED
    BY <1>1, <1>2, <2>2, Answered, Fields, RequestEffects DEF close_fs_cb
<1>3. CASE req[p].port \notin Ports
  <2>1. port' = port
    BY <1>3 DEF close_fs_cb, TypeOK
  <2> QED
    BY <1>1, <1>3, <2>1, Answered, Fields, RequestEffects DEF close_fs_cb
<1> QED
  BY <1>2, <1>3

(* Both callbacks of a connection attempt try the next address, give up or   *)
(* (connect_tcp_cb) have connected.                                          *)
ConnectGoesOn(p) ==
  /\ ReqBecomes(p, "connect", req[p].port, req[p].file, FALSE)
  /\ UNCHANGED <<port, locked, g_callbacks>>
ConnectEnds(p) ==
  LET a == req[p].port
  IN /\ ReqEnds(p) /\ locked' = locked \ ({p} \X {"callback", "buffer"})
     /\ \E s \in {"closing", "open"} :
          /\ PortBecomes(a, port[a].kind, s, port[a].read, port[a].write, port[a].close,
                         port[a].file, port[a].proc)
          /\ Pushed(Callback("connect", p, IF s = "open" THEN a ELSE None))

(* What the callbacks of a connect do: try the next address, or end. *)
LEMMA ConnectDone ==
  ASSUME Inv, NEW p \in Everyone, connect_tcp_addrinfo_cb(p) \/ connect_tcp_cb(p)
  PROVE  /\ polling /\ req[p].op = "connect" /\ req[p].port \in Ports
         /\ UNCHANGED <<users, opened, handle>> /\ (ConnectGoesOn(p) \/ ConnectEnds(p))
<1> USE PortsAssumption DEF Inv
<1>1. /\ polling /\ req[p].op = "connect" /\ req[p].op # None
      /\ UNCHANGED <<users, opened, handle>>
  BY DEF connect_tcp_addrinfo_cb, connect_tcp_cb, Polling
<1>2. req[p].port \in Ports
  BY <1>1 DEF OwnerInv, Connecting
<1>3. ASSUME NEW n \in Left(p), req' = [req EXCEPT ![p].done = FALSE, ![p].left = n],
             UNCHANGED <<port, locked, g_callbacks>>
      PROVE  ConnectGoesOn(p)
  BY <1>1, <1>2, <1>3, RequestEffects, Fields DEF ConnectGoesOn
<1>4. ASSUME ConnectFails(p), Answer(p, None) PROVE ConnectEnds(p)
  <2> DEFINE a == req[p].port
  <2>1. PortBecomes(a, port[a].kind, "closing", port[a].read, port[a].write, port[a].close,
                    port[a].file, port[a].proc)
    BY <1>2, <1>4, PortEffects DEF ConnectFails
  <2>2. /\ ReqEnds(p) /\ locked' = locked \ ({p} \X {"callback", "buffer"})
        /\ Pushed(Callback("connect", p, None))
    BY <1>1, <1>2, <1>4, Answered, RequestEffects
  <2> QED
    BY <2>1, <2>2 DEF ConnectEnds
<1>5. ASSUME port' = [port EXCEPT ![req[p].port].st = "open"], Answer(p, req[p].port)
      PROVE  ConnectEnds(p)
  <2> DEFINE a == req[p].port
  <2>1. PortBecomes(a, port[a].kind, "open", port[a].read, port[a].write, port[a].close,
                    port[a].file, port[a].proc)
    BY <1>2, <1>5, PortEffects
  <2>2. /\ ReqEnds(p) /\ locked' = locked \ ({p} \X {"callback", "buffer"})
        /\ Pushed(Callback("connect", p, a))
    BY <1>1, <1>2, <1>5, Answered, RequestEffects
  <2> QED
    BY <2>1, <2>2 DEF ConnectEnds
<1> QED
  BY <1>1, <1>2, <1>3, <1>4, <1>5 DEF connect_tcp_addrinfo_cb, connect_tcp_cb

(* What read_stream_cb does. *)
LEMMA ReadDone ==
  ASSUME TypeOK, NEW a \in Ports, read_stream_cb(a)
  PROVE  /\ polling /\ port[a].read \in Everyone /\ port[a].st = "open"
         /\ PortBecomes(a, port[a].kind, port[a].st, None, port[a].write, port[a].close, port[a].file, port[a].proc)
         /\ Pushed(Callback("read", port[a].read, a))
         /\ locked' = locked \ ({port[a].read} \X {"callback", "buffer"})
         /\ UNCHANGED <<users, req, opened, handle>>
<1>1. port[a].read \in Everyone /\ polling
  BY Fields DEF read_stream_cb
<1>2. Pushed(Callback("read", port[a].read, a))
  BY <1>1, AddCallback DEF read_stream_cb, Ops
<1>3. PortBecomes(a, port[a].kind, port[a].st, None, port[a].write, port[a].close, port[a].file, port[a].proc)
  BY PortEffects DEF read_stream_cb
<1> QED
  BY <1>1, <1>2, <1>3 DEF read_stream_cb, Unlock

(* What write_stream_cb does. *)
LEMMA WriteDone ==
  ASSUME TypeOK, NEW a \in Ports, write_stream_cb(a)
  PROVE  /\ polling /\ port[a].write \in Everyone
         /\ PortBecomes(a, port[a].kind, port[a].st, port[a].read, None, port[a].close, port[a].file, port[a].proc)
         /\ Pushed(Callback("write", port[a].write, a))
         /\ locked' = locked \ ({port[a].write} \X {"callback", "buffer"})
         /\ UNCHANGED <<users, req, opened, handle>>
<1>1. port[a].write \in Everyone /\ polling
  BY Fields DEF write_stream_cb
<1>2. Pushed(Callback("write", port[a].write, a))
  BY <1>1, AddCallback DEF write_stream_cb, Ops
<1>3. PortBecomes(a, port[a].kind, port[a].st, port[a].read, None, port[a].close, port[a].file, port[a].proc)
  BY PortEffects DEF write_stream_cb
<1> QED
  BY <1>1, <1>2, <1>3 DEF write_stream_cb, Unlock

(* A stream is closed: its reader is told first, then who closed it. *)
LEMMA StreamClosed ==
  ASSUME TypeOK, NEW a \in Ports, close_stream_cb(a)
  PROVE  /\ polling /\ port[a].kind = "stream" /\ port[a].st = "closing" /\ port[a].write = None
         /\ PortFreed(a) /\ UNCHANGED <<users, req, opened, handle>>
         /\ locked' = locked \ ({port[a].read} \X {"callback", "buffer"}
                                \cup {port[a].close} \X {"callback"})
         /\ \E mid \in Seq(Calls) :
              /\ IF port[a].read = None THEN mid = g_callbacks
                 ELSE PushedOn(g_callbacks, Callback("read", port[a].read, a), mid)
              /\ IF port[a].close = None THEN g_callbacks' = mid
                 ELSE PushedOn(mid, Callback("close", port[a].close, a), g_callbacks')
<1> USE PortsAssumption
<1>1. PortFreed(a)
  BY NewPortEffects DEF close_stream_cb
<1>2. g_callbacks \in Seq(Calls)
  BY DEF TypeOK
<1> DEFINE mid == ToReader(a) \o g_callbacks
           rd == Callback("read", port[a].read, a)
           cl == Callback("close", port[a].close, a)
<1>3. rd \in Calls /\ cl \in Calls
  BY Fields, CallType DEF Ops
<1>4. ToReader(a) \in Seq(Calls) /\ ToCloser(a) \in Seq(Calls)
  BY <1>3 DEF ToReader, ToCloser
<1>5. g_callbacks' = ToCloser(a) \o mid
  <2> HIDE DEF rd, cl
  <2> QED
    BY <1>2, <1>4 DEF close_stream_cb, EndOfStream
<1> HIDE DEF rd, cl
<1>6. mid \in Seq(Calls) /\ IF port[a].read = None THEN mid = g_callbacks
                            ELSE PushedOn(g_callbacks, rd, mid)
  <2>1. CASE port[a].read = None
    <3>1. ToReader(a) = <<>>
      BY <2>1 DEF ToReader
    <3> QED
      BY <1>2, <2>1, <3>1
  <2>2. CASE port[a].read # None
    <3>1. ToReader(a) = <<rd>>
      BY <2>2 DEF ToReader, rd
    <3> QED
      BY <1>2, <1>3, <2>2, <3>1, PushCall DEF PushedOn
  <2> QED
    BY <2>1, <2>2
<1> HIDE DEF mid
<1>7. IF port[a].close = None THEN g_callbacks' = mid ELSE PushedOn(mid, cl, g_callbacks')
  <2>1. CASE port[a].close = None
    <3>1. ToCloser(a) = <<>>
      BY <2>1 DEF ToCloser
    <3> QED
      BY <1>5, <1>6, <2>1, <3>1
  <2>2. CASE port[a].close # None
    <3>1. ToCloser(a) = <<cl>>
      BY <2>2 DEF ToCloser, cl
    <3> QED
      BY <1>3, <1>5, <1>6, <2>2, <3>1, PushCall DEF PushedOn
  <2> QED
    BY <2>1, <2>2
<1>8. \E m \in Seq(Calls) :
        /\ IF port[a].read = None THEN m = g_callbacks
           ELSE PushedOn(g_callbacks, Callback("read", port[a].read, a), m)
        /\ IF port[a].close = None THEN g_callbacks' = m
           ELSE PushedOn(m, Callback("close", port[a].close, a), g_callbacks')
  BY <1>6, <1>7, Zenon DEF rd, cl
<1> QED
  BY <1>1, <1>8 DEF close_stream_cb

(* What listen_tcp_cb does. *)
LEMMA Accepted ==
  ASSUME TypeOK, NEW a \in Ports, listen_tcp_cb(a)
  PROVE  /\ polling /\ port[a].kind = "none" /\ UNCHANGED <<users, req, opened, locked, handle>>
         /\ \E s \in {"closing", "open"} :
              /\ PortBecomes(a, "stream", s, None, None, None, None, None)
              /\ Pushed(Callback("accept", None, IF s = "open" THEN a ELSE None))
<1>1. CASE port' = [port EXCEPT ![a] = Stream] /\ osi_add_callback("accept", None, a)
  BY <1>1, NewPortEffects, AddCallback DEF listen_tcp_cb, Unused
<1>2. CASE /\ port' = [port EXCEPT ![a] = [Stream EXCEPT !.st = "closing"]]
           /\ osi_add_callback("accept", None, None)
  BY <1>2, NewPortEffects, AddCallback DEF listen_tcp_cb, Unused
<1> QED
  BY <1>1, <1>2 DEF listen_tcp_cb

(* What process_exit_cb does. *)
LEMMA ExitTold ==
  ASSUME TypeOK, process_exit_cb
  PROVE  /\ polling /\ handle = "running" /\ handle' = "closing"
         /\ locked' = locked \ ({"handle"} \X {"callback"})
         /\ Pushed(Callback("exit", None, None)) /\ UNCHANGED <<users, port, req, opened>>
BY AddCallback DEF process_exit_cb, Unlock

(* What the operating system does. *)
LEMMA FileOpened ==
  ASSUME TypeOK, NEW p \in Everyone, uv_fs_open(p)
  PROVE  /\ req[p].op = "open" /\ ~req[p].done
         /\ UNCHANGED <<users, g_callbacks, port, locked, handle>>
         /\ \/ ReqBecomes(p, "open", req[p].port, req[p].file, TRUE) /\ UNCHANGED opened
            \/ \E f \in Fds :
                 /\ opened[f] = None /\ opened' = [opened EXCEPT ![f] = p]
                 /\ ReqBecomes(p, "open", req[p].port, f, TRUE)
<1>1. CASE req' = Finished(p) /\ UNCHANGED opened
  BY <1>1, RequestEffects DEF uv_fs_open, Finished
<1>2. ASSUME NEW f \in Fds, opened[f] = None, opened' = [opened EXCEPT ![f] = p],
             req' = [Finished(p) EXCEPT ![p].file = f]
      PROVE  ReqBecomes(p, "open", req[p].port, f, TRUE)
  BY <1>2, RequestEffects DEF uv_fs_open, Finished
<1> QED
  BY <1>1, <1>2 DEF uv_fs_open

(* What the thread pool does for a close. *)
LEMMA FileClosed ==
  ASSUME TypeOK, NEW p \in Everyone, uv_fs_close(p)
  PROVE  /\ req[p].op = "close" /\ ~req[p].done
         /\ UNCHANGED <<users, g_callbacks, port, locked, handle>>
         /\ opened' = [opened EXCEPT ![req[p].file] = None]
         /\ ReqBecomes(p, "close", req[p].port, None, TRUE)
BY RequestEffects DEF uv_fs_close, Finished

(* What the thread pool does for other requests. *)
LEMMA OtherFinished ==
  ASSUME TypeOK, NEW p \in Everyone, uv_other(p)
  PROVE  /\ req[p].op \in {"path", "rw", "connect"} /\ ~req[p].done
         /\ UNCHANGED <<users, g_callbacks, port, opened, locked, handle>>
         /\ ReqBecomes(p, req[p].op, req[p].port, req[p].file, TRUE)
BY RequestEffects DEF uv_other, Finished

(* What the processes do. *)
LEMMA PathAsked ==
  ASSUME TypeOK, NEW p \in Everyone, NEW o \in {"path", "open"}, fs_request(p, o)
  PROVE  /\ CanCall(p) /\ p # Finalizer /\ ReqBecomes(p, o, None, None, FALSE)
         /\ locked' = locked \cup ({p} \X {"callback"}) /\ WaitBecomes(p, o, None)
         /\ UNCHANGED <<polling, alive, record, g_callbacks, port, opened, handle>>
BY RequestEffects, WaitEffects DEF fs_request, Lock

(* What osi_open_fd does. *)
LEMMA FdOpened ==
  ASSUME TypeOK, NEW p \in Everyone, osi_open_fd(p)
  PROVE  /\ CanCall(p) /\ p # Finalizer
         /\ UNCHANGED <<polling, alive, waiting, g_callbacks, req, opened, locked, handle>>
         /\ \E a \in Ports :
              /\ port[a].kind = "none" /\ record' = record \cup {a}
              /\ PortBecomes(a, "fd", "open", None, None, None, None, p)
<1>1. PICK a \in Ports : /\ Unused(a) /\ record' = record \cup {a}
            /\ port' = [port EXCEPT ![a] = [NoPort EXCEPT !.kind = "fd", !.proc = p]]
  BY DEF osi_open_fd
<1>2. PortBecomes(a, "fd", "open", None, None, None, None, p)
  BY <1>1, NewPortEffects
<1> QED
  BY <1>1, <1>2 DEF osi_open_fd, Unused

(* What osi_connect_tcp does. *)
LEMMA ConnectAsked ==
  ASSUME TypeOK, NEW p \in Everyone, osi_connect_tcp(p)
  PROVE  /\ CanCall(p) /\ p # Finalizer
         /\ UNCHANGED <<polling, alive, record, g_callbacks, opened, handle>>
         /\ \E a \in Ports :
              /\ port[a].kind = "none"
              /\ \/ /\ PortBecomes(a, "stream", "connecting", None, None, None, None, None)
                    /\ ReqBecomes(p, "connect", a, None, FALSE)
                    /\ locked' = locked \cup ({p} \X {"callback"})
                    /\ WaitBecomes(p, "connect", a)
                 \/ /\ PortBecomes(a, "stream", "closing", None, None, None, None, None)
                    /\ UNCHANGED <<req, locked, waiting>>
<1>1. ASSUME NEW a \in Ports, Unused(a),
               port' = [port EXCEPT ![a] = [Stream EXCEPT !.st = "connecting"]],
               req' = [req EXCEPT ![p] = [NoReq EXCEPT !.op = "connect", !.port = a,
                                                       !.left = MaxAddrs]],
               Lock(p, {"callback"}), WaitFor(p, "connect", a)
      PROVE  /\ port[a].kind = "none"
             /\ PortBecomes(a, "stream", "connecting", None, None, None, None, None)
             /\ ReqBecomes(p, "connect", a, None, FALSE)
             /\ locked' = locked \cup ({p} \X {"callback"})
             /\ WaitBecomes(p, "connect", a)
  BY <1>1, NewPortEffects, RequestEffects, WaitEffects DEF Unused, Lock
<1>2. ASSUME NEW a \in Ports, Unused(a),
               port' = [port EXCEPT ![a] = [Stream EXCEPT !.st = "closing"]]
      PROVE  /\ port[a].kind = "none"
             /\ PortBecomes(a, "stream", "closing", None, None, None, None, None)
  BY <1>2, NewPortEffects DEF Unused
<1> QED
  BY <1>1, <1>2 DEF osi_connect_tcp

(* What osi_spawn does. *)
LEMMA Spawned ==
  ASSUME TypeOK, NEW p \in Everyone, osi_spawn(p)
  PROVE  /\ CanCall(p) /\ p # Finalizer /\ handle = "none"
         /\ UNCHANGED <<polling, alive, waiting, g_callbacks, req, opened>>
         /\ \E S \in SUBSET Ports, s \in {"open", "closing"} :
              /\ \A a \in S : /\ port[a].kind = "none" /\ port'[a].kind = "stream"
                              /\ port'[a].st = s /\ port'[a].file = None
                              /\ port'[a].read = None /\ port'[a].write = None
                              /\ port'[a].close = None
              /\ \A a \in Ports \ S : port'[a] = port[a]
              /\ record' = IF s = "open" THEN record \cup S ELSE record
         /\ \/ handle' \in {"running", "closing"} /\ locked' = locked \cup {<<"handle", "callback">>}
            \/ handle' = handle /\ locked' = locked
<1>1. ASSUME NEW S \in SUBSET {a \in Ports : Unused(a)}, NEW x \in Structs,
             port' = [a \in Ports |-> IF a \in S THEN x ELSE port[a]]
      PROVE  /\ S \in SUBSET Ports /\ \A a \in S : port[a].kind = "none" /\ port'[a] = x
             /\ \A a \in Ports \ S : port'[a] = port[a]
  BY <1>1 DEF Unused
<1>2. /\ Stream.kind = "stream" /\ Stream.st = "open" /\ Stream.file = None
      /\ Stream.read = None /\ Stream.write = None /\ Stream.close = None
  BY DEF Stream, NoPort
<1> DEFINE x == [Stream EXCEPT !.st = "closing"]
<1>3. /\ x.kind = "stream" /\ x.st = "closing" /\ x.file = None
      /\ x.read = None /\ x.write = None /\ x.close = None
  BY DEF Stream, NoPort
<1>4. \E S \in SUBSET {a \in Ports : Unused(a)} :
        \/ /\ port' = [a \in Ports |-> IF a \in S THEN Stream ELSE port[a]]
           /\ record' = record \cup S
        \/ /\ port' = [a \in Ports |-> IF a \in S THEN x ELSE port[a]]
           /\ record' = record
  BY DEF osi_spawn
<1>5. Stream \in Structs /\ x \in Structs
  BY StructTypes
<1> HIDE DEF x
<1>6. \E S \in SUBSET Ports, s \in {"open", "closing"} :
        /\ \A a \in S : /\ port[a].kind = "none" /\ port'[a].kind = "stream"
                        /\ port'[a].st = s /\ port'[a].file = None
                        /\ port'[a].read = None /\ port'[a].write = None
                        /\ port'[a].close = None
        /\ \A a \in Ports \ S : port'[a] = port[a]
        /\ record' = IF s = "open" THEN record \cup S ELSE record
  <2>1. PICK S \in SUBSET {a \in Ports : Unused(a)} :
        \/ /\ port' = [a \in Ports |-> IF a \in S THEN Stream ELSE port[a]]
           /\ record' = record \cup S
        \/ /\ port' = [a \in Ports |-> IF a \in S THEN x ELSE port[a]]
           /\ record' = record
    BY <1>4
  <2>2. CASE /\ port' = [a \in Ports |-> IF a \in S THEN Stream ELSE port[a]]
             /\ record' = record \cup S
    <3>1. /\ S \in SUBSET Ports /\ \A a \in S : port[a].kind = "none" /\ port'[a] = Stream
          /\ \A a \in Ports \ S : port'[a] = port[a]
      BY <1>1, <1>5, <2>2
    <3> QED
      BY <1>2, <2>2, <3>1
  <2>3. CASE /\ port' = [a \in Ports |-> IF a \in S THEN x ELSE port[a]]
             /\ record' = record
    <3>1. /\ S \in SUBSET Ports /\ \A a \in S : port[a].kind = "none" /\ port'[a] = x
          /\ \A a \in Ports \ S : port'[a] = port[a]
      BY <1>1, <1>5, <2>3
    <3> QED
      BY <1>3, <2>3, <3>1
  <2> QED
    BY <2>1, <2>2, <2>3
<1>7. \/ handle' \in {"running", "closing"} /\ locked' = locked \cup {<<"handle", "callback">>}
      \/ handle' = handle /\ locked' = locked
  BY DEF osi_spawn, Lock
<1>8. /\ CanCall(p) /\ p # Finalizer /\ handle = "none"
      /\ UNCHANGED <<polling, alive, waiting, g_callbacks, req, opened>>
  BY DEF osi_spawn
<1> QED
  BY <1>6, <1>7, <1>8

(* What rw_fs_port does. *)
LEMMA RwAsked ==
  ASSUME TypeOK, NEW p \in Everyone, NEW a \in Ports, rw_fs_port(p, a)
  PROVE  /\ CanCall(p) /\ a \in record /\ port[a].proc = p /\ port[a].kind \in {"file", "fd"}
         /\ ReqBecomes(p, "rw", a, port[a].file, FALSE) /\ WaitBecomes(p, "rw", a)
         /\ locked' = locked \cup ({p} \X {"callback", "buffer"})
         /\ UNCHANGED <<polling, alive, record, g_callbacks, port, opened, handle>>
BY RequestEffects, WaitEffects DEF rw_fs_port, FsRequest, Lock

(* What read_stream_port does. *)
LEMMA ReadAsked ==
  ASSUME TypeOK, NEW p \in Everyone, NEW a \in Ports, read_stream_port(p, a)
  PROVE  /\ CanCall(p) /\ a \in record /\ port[a].kind = "stream" /\ port[a].read = None
         /\ PortBecomes(a, port[a].kind, port[a].st, p, port[a].write, port[a].close, port[a].file, port[a].proc)
         /\ locked' = locked \cup ({p} \X {"callback", "buffer"}) /\ WaitBecomes(p, "read", a)
         /\ UNCHANGED <<polling, alive, record, g_callbacks, req, opened, handle>>
BY PortEffects, WaitEffects DEF read_stream_port, Lock

(* What write_stream_port does. *)
LEMMA WriteAsked ==
  ASSUME TypeOK, NEW p \in Everyone, NEW a \in Ports, write_stream_port(p, a)
  PROVE  /\ CanCall(p) /\ a \in record /\ port[a].kind = "stream" /\ port[a].write = None
         /\ PortBecomes(a, port[a].kind, port[a].st, port[a].read, p, port[a].close, port[a].file, port[a].proc)
         /\ locked' = locked \cup ({p} \X {"callback", "buffer"}) /\ WaitBecomes(p, "write", a)
         /\ UNCHANGED <<polling, alive, record, g_callbacks, req, opened, handle>>
BY PortEffects, WaitEffects DEF write_stream_port, Lock

(* What close_stream_port does. *)
LEMMA StreamCloseAsked ==
  ASSUME TypeOK, NEW p \in Everyone, NEW a \in Ports, close_stream_port(p, a)
  PROVE  /\ MayClose(p, a) /\ port[a].kind = "stream"
         /\ PortBecomes(a, port[a].kind, "closing", port[a].read, port[a].write, p, port[a].file, port[a].proc)
         /\ locked' = locked \cup ({p} \X {"callback"}) /\ WaitBecomes(p, "close", a)
         /\ record' = record \ {a}
         /\ UNCHANGED <<polling, alive, g_callbacks, req, opened, handle>>
BY PortEffects, WaitEffects DEF close_stream_port, Lock

(* What close_fs_port does for a file. *)
LEMMA FileCloseAsked ==
  ASSUME TypeOK, NEW p \in Everyone, NEW a \in Ports, close_fs_port(p, a)
  PROVE  /\ MayClose(p, a) /\ port[a].kind = "file"
         /\ PortBecomes(a, port[a].kind, "closing", port[a].read, port[a].write, port[a].close, port[a].file, port[a].proc)
         /\ ReqBecomes(p, "close", a, port[a].file, FALSE)
         /\ locked' = locked \cup ({p} \X {"callback"}) /\ WaitBecomes(p, "close", a)
         /\ record' = record \ {a}
         /\ UNCHANGED <<polling, alive, g_callbacks, opened, handle>>
BY PortEffects, RequestEffects, WaitEffects DEF close_fs_port, FsRequest, Lock

(* What close_fd_port does. *)
LEMMA FdCloseAsked ==
  ASSUME TypeOK, NEW p \in Everyone, NEW a \in Ports, close_fd_port(p, a)
  PROVE  /\ MayClose(p, a) /\ port[a].kind = "fd" /\ PortFreed(a)
         /\ ReqBecomes(p, "close", None, None, TRUE)
         /\ locked' = locked \cup ({p} \X {"callback"}) /\ WaitBecomes(p, "close", None)
         /\ record' = record \ {a}
         /\ UNCHANGED <<polling, alive, g_callbacks, opened, handle>>
BY NewPortEffects, RequestEffects, WaitEffects DEF close_fd_port, Lock

(* The shape of the ports. *)
LEMMA ShapeStep == Inv /\ [Next]_vars => ShapeInv'
<1> SUFFICES ASSUME Inv, [Next]_vars PROVE ShapeInv'
  OBVIOUS
<1> USE PortsAssumption DEF ShapeInv
<1>i. TypeOK /\ ShapeInv /\ PendingInv /\ MatchInv /\ OnceInv /\ OwnerInv /\ FileInv /\ LockInv /\ HandleInv /\ ClosedLast
  BY DEF Inv
<1> USE <1>i
<1>1. ASSUME UNCHANGED <<port, polling, g_callbacks>> PROVE ShapeInv'
  BY <1>1
<1>2. CASE osi_get_callbacks
  BY <1>2 DEF osi_get_callbacks
<1>3. CASE run_callbacks
  BY <1>3 DEF run_callbacks
<1>4. CASE process_exit_cb
  BY <1>4, ExitTold DEF users
<1>5. ASSUME NEW p \in Everyone, rw_fs_cb(p) PROVE ShapeInv'
  BY <1>5, RwDone DEF users
<1>6. ASSUME NEW p \in Everyone, return_fs_result_cb(p) PROVE ShapeInv'
  BY <1>6, PathDone DEF users
<1>7. ASSUME NEW p \in Everyone, open_fs_cb(p) PROVE ShapeInv'
  BY <1>7, OpenDone, Fields DEF PortBecomes, users, Shaped
<1>8. ASSUME NEW p \in Everyone, close_fs_cb(p) PROVE ShapeInv'
  BY <1>8, CloseDone, Fields DEF PortBecomes, PortFreed, users, Shaped
<1>9. ASSUME NEW p \in Everyone, connect_tcp_addrinfo_cb(p) PROVE ShapeInv'
  <2>1. /\ req[p].port \in Ports /\ polling /\ UNCHANGED users
        /\ port[req[p].port].kind = "stream" /\ port[req[p].port].st = "connecting"
    <3>1. req[p].port \in Ports /\ polling /\ UNCHANGED users /\ req[p].op = "connect"
      BY <1>9, ConnectDone DEF users
    <3> QED
      BY <3>1 DEF OwnerInv, Connecting
  <2>2. CASE ConnectGoesOn(p)
    BY <2>1, <2>2 DEF ConnectGoesOn, users
  <2>3. CASE ConnectEnds(p)
    <3> DEFINE a == req[p].port
    <3>1. PICK s \in {"closing", "open"} :
            PortBecomes(a, port[a].kind, s, port[a].read, port[a].write, port[a].close,
                        port[a].file, port[a].proc)
      BY <2>3 DEF ConnectEnds
    <3> QED
      BY <2>1, <3>1, Fields DEF PortBecomes, users, Shaped
  <2> QED
    BY <1>9, <2>2, <2>3, ConnectDone
<1>10. ASSUME NEW p \in Everyone, connect_tcp_cb(p) PROVE ShapeInv'
  <2>1. /\ req[p].port \in Ports /\ polling /\ UNCHANGED users
        /\ port[req[p].port].kind = "stream" /\ port[req[p].port].st = "connecting"
    <3>1. req[p].port \in Ports /\ polling /\ UNCHANGED users /\ req[p].op = "connect"
      BY <1>10, ConnectDone DEF users
    <3> QED
      BY <3>1 DEF OwnerInv, Connecting
  <2>2. CASE ConnectGoesOn(p)
    BY <2>1, <2>2 DEF ConnectGoesOn, users
  <2>3. CASE ConnectEnds(p)
    <3> DEFINE a == req[p].port
    <3>1. PICK s \in {"closing", "open"} :
            PortBecomes(a, port[a].kind, s, port[a].read, port[a].write, port[a].close,
                        port[a].file, port[a].proc)
      BY <2>3 DEF ConnectEnds
    <3> QED
      BY <2>1, <3>1, Fields DEF PortBecomes, users, Shaped
  <2> QED
    BY <1>10, <2>2, <2>3, ConnectDone
<1>11. ASSUME NEW a \in Ports, close_stream_cb(a) PROVE ShapeInv'
  BY <1>11, StreamClosed, Fields DEF PortBecomes, PortFreed, users, Shaped
<1>12. ASSUME NEW a \in Ports, read_stream_cb(a) PROVE ShapeInv'
  BY <1>12, ReadDone, Fields DEF PortBecomes, users, Shaped
<1>13. ASSUME NEW a \in Ports, write_stream_cb(a) PROVE ShapeInv'
  BY <1>13, WriteDone, Fields DEF PortBecomes, users, Shaped
<1>14. ASSUME NEW a \in Ports, listen_tcp_cb(a) PROVE ShapeInv'
  BY <1>14, Accepted, Fields DEF PortBecomes, users, Shaped
<1>15. ASSUME NEW p \in Everyone, uv_fs_open(p) PROVE ShapeInv'
  BY <1>15, FileOpened DEF users
<1>16. ASSUME NEW p \in Everyone, uv_fs_close(p) PROVE ShapeInv'
  BY <1>16, FileClosed DEF users
<1>17. ASSUME NEW p \in Everyone, uv_other(p) PROVE ShapeInv'
  BY <1>17, OtherFinished DEF users
<1>18. ASSUME NEW p \in Everyone, NEW o \in {"path", "open"}, fs_request(p, o) PROVE ShapeInv'
  BY <1>18, PathAsked DEF users
<1>19. ASSUME NEW p \in Everyone, osi_open_fd(p) PROVE ShapeInv'
  BY <1>19, FdOpened, Fields DEF PortBecomes, users, Shaped
<1>20. ASSUME NEW p \in Everyone, osi_connect_tcp(p) PROVE ShapeInv'
  <2>1. PICK a \in Ports, s \in {"connecting", "closing"} :
          PortBecomes(a, "stream", s, None, None, None, None, None)
    BY <1>20, ConnectAsked
  <2>2. UNCHANGED <<polling, g_callbacks>>
    BY <1>20, ConnectAsked
  <2> QED
    BY <2>1, <2>2, Fields DEF PortBecomes, Shaped
<1>21. ASSUME NEW p \in Everyone, osi_spawn(p) PROVE ShapeInv'
  BY <1>21, Spawned, Fields DEF users, Shaped
<1>22. ASSUME NEW p \in Everyone, NEW a \in Ports, rw_fs_port(p, a) PROVE ShapeInv'
  BY <1>22, RwAsked DEF users
<1>23. ASSUME NEW p \in Everyone, NEW a \in Ports, read_stream_port(p, a) PROVE ShapeInv'
  BY <1>23, ReadAsked, Fields DEF PortBecomes, users, Shaped
<1>24. ASSUME NEW p \in Everyone, NEW a \in Ports, write_stream_port(p, a) PROVE ShapeInv'
  BY <1>24, WriteAsked, Fields DEF PortBecomes, users, Shaped
<1>25. ASSUME NEW p \in Everyone, NEW a \in Ports, close_stream_port(p, a) PROVE ShapeInv'
  BY <1>25, StreamCloseAsked, Fields DEF PortBecomes, users, Shaped
<1>26. ASSUME NEW p \in Everyone, NEW a \in Ports, close_fs_port(p, a) PROVE ShapeInv'
  <2>1. /\ PortBecomes(a, port[a].kind, "closing", port[a].read, port[a].write, port[a].close,
                      port[a].file, port[a].proc)
        /\ port[a].kind = "file"
    BY <1>26, FileCloseAsked
  <2>2. UNCHANGED <<polling, g_callbacks>>
    BY <1>26, FileCloseAsked
  <2> QED
    BY <2>1, <2>2, Fields DEF PortBecomes, PortFreed, Shaped
<1>27. ASSUME NEW p \in Everyone, NEW a \in Ports, close_fd_port(p, a) PROVE ShapeInv'
  <2>1. /\ PortFreed(a)
        /\ port[a].kind = "fd"
    BY <1>27, FdCloseAsked
  <2>2. UNCHANGED <<polling, g_callbacks>>
    BY <1>27, FdCloseAsked
  <2> QED
    BY <2>1, <2>2, Fields DEF PortBecomes, PortFreed, Shaped
<1> QED
  BY <1>1, <1>2, <1>3, <1>4, <1>5, <1>6, <1>7, <1>8, <1>9, <1>10, <1>11, <1>12, <1>13, <1>14, <1>15, <1>16, <1>17, <1>18, <1>19, <1>20, <1>21, <1>22, <1>23, <1>24, <1>25, <1>26, <1>27 DEF Next, event_loop, uv_done, uv_closing, uv_event, uv_work, Everyone, vars, users,
    Kill, close_handle_data_cb, osi_close_tcp_listener, osi_listen_tcp

-----------------------------------------------------------------------------
(* The steps, as the operations that are under way see them: the slots are  *)
(* the read, write and close fields of the ports.                           *)
SlotsBecome(a, r, w, c) ==
  /\ port'[a].read = r /\ port'[a].write = w /\ port'[a].close = c
  /\ \A b \in Ports : b # a => /\ port'[b].read = port[b].read
                               /\ port'[b].write = port[b].write
                               /\ port'[b].close = port[b].close
SlotsSame ==
  \A a \in Ports : /\ port'[a].read = port[a].read /\ port'[a].write = port[a].write
                   /\ port'[a].close = port[a].close
OpsSame == \A q \in Everyone : req'[q].op = req[q].op
OpBecomes(p, o) == req'[p].op = o /\ \A q \in Everyone : q # p => req'[q].op = req[q].op
Objects == {"callback", "buffer"}
LocksSame == \A q \in Everyone, x \in Objects : <<q, x>> \in locked' <=> <<q, x>> \in locked

Passes ==
  /\ SlotsSame /\ OpsSame /\ LocksSame /\ UNCHANGED <<polling, alive, waiting>>
  /\ g_callbacks' = g_callbacks
     \/ \E c \in Calls : c.proc = None /\ c.op # "close" /\ Pushed(c)
Finishes(p) ==
  /\ SlotsSame /\ polling /\ req[p].op \in Ops /\ OpBecomes(p, None)
  /\ UNCHANGED <<polling, alive, waiting>>
  /\ locked' = locked \ ({p} \X {"callback", "buffer"})
  /\ \E c \in Calls : /\ c.proc = p /\ c.op = req[p].op /\ Pushed(c)
                      /\ c.op = "close" /\ c.port \in Ports => port[c.port].kind = "file"
Asks(p) ==
  /\ SlotsSame /\ CanCall(p) /\ UNCHANGED <<polling, alive, g_callbacks>>
  /\ \E o \in Ops \ {"read", "write"}, a \in Ports \cup {None} :
       /\ OpBecomes(p, o) /\ WaitBecomes(p, o, a)
       /\ locked' = locked \cup ({p} \X (IF o = "rw" THEN {"callback", "buffer"} ELSE {"callback"}))
Fills(p, a) ==
  /\ OpsSame /\ CanCall(p) /\ UNCHANGED <<polling, alive, g_callbacks>>
  /\ \/ /\ port[a].read = None /\ SlotsBecome(a, p, port[a].write, port[a].close)
        /\ WaitBecomes(p, "read", a) /\ locked' = locked \cup ({p} \X {"callback", "buffer"})
     \/ /\ port[a].write = None /\ SlotsBecome(a, port[a].read, p, port[a].close)
        /\ WaitBecomes(p, "write", a) /\ locked' = locked \cup ({p} \X {"callback", "buffer"})
     \/ /\ port[a].close = None /\ SlotsBecome(a, port[a].read, port[a].write, p)
        /\ WaitBecomes(p, "close", a) /\ locked' = locked \cup ({p} \X {"callback"})
Empties(a) ==
  /\ OpsSame /\ polling /\ UNCHANGED <<polling, alive, waiting>>
  /\ \/ /\ port[a].read \in Everyone /\ SlotsBecome(a, None, port[a].write, port[a].close)
        /\ Pushed(Callback("read", port[a].read, a))
        /\ locked' = locked \ ({port[a].read} \X {"callback", "buffer"})
     \/ /\ port[a].write \in Everyone /\ SlotsBecome(a, port[a].read, None, port[a].close)
        /\ Pushed(Callback("write", port[a].write, a))
        /\ locked' = locked \ ({port[a].write} \X {"callback", "buffer"})
Ends(a) ==
  /\ OpsSame /\ polling /\ UNCHANGED <<polling, alive, waiting>>
  /\ port[a].write = None /\ SlotsBecome(a, None, None, None)
  /\ locked' = locked \ ({port[a].read} \X {"callback", "buffer"}
                         \cup {port[a].close} \X {"callback"})
  /\ \E mid \in Seq(Calls) :
       /\ IF port[a].read = None THEN mid = g_callbacks
          ELSE PushedOn(g_callbacks, Callback("read", port[a].read, a), mid)
       /\ IF port[a].close = None THEN g_callbacks' = mid
          ELSE PushedOn(mid, Callback("close", port[a].close, a), g_callbacks')
Turn(p) == \/ Finishes(p) \/ Asks(p) \/ Kill(p) \/ \E a \in Ports : Fills(p, a)
Step == \/ Passes \/ osi_get_callbacks \/ run_callbacks
        \/ \E p \in Everyone : Turn(p)
        \/ \E a \in Ports : Empties(a) \/ Ends(a)

(* What an update does to the pending reader, writer and closer. *)
LEMMA SlotEffects ==
  ASSUME NEW a \in Ports, NEW k, NEW s, NEW r, NEW w, NEW c, NEW f, NEW o,
         PortBecomes(a, k, s, r, w, c, f, o)
  PROVE  /\ SlotsBecome(a, r, w, c)
         /\ r = port[a].read /\ w = port[a].write /\ c = port[a].close => SlotsSame
BY DEF PortBecomes, SlotsBecome, SlotsSame

(* What an update does to the operation of a request. *)
LEMMA OpEffects ==
  ASSUME NEW p \in Everyone, NEW o, NEW a, NEW f, NEW d, ReqBecomes(p, o, a, f, d)
  PROVE  OpBecomes(p, o) /\ (o = req[p].op => OpsSame)
BY DEF ReqBecomes, OpBecomes, OpsSame

(* Only streams have a pending reader, writer or closer. *)
LEMMA UnusedSlots ==
  ASSUME ShapeInv, NEW a \in Ports, port[a].kind # "stream"
  PROVE  port[a].read = None /\ port[a].write = None /\ port[a].close = None
BY DEF ShapeInv, Shaped

(* Every step is one of these. *)
LEMMA StepCases == Inv /\ [Next]_vars => (Step \/ UNCHANGED vars)
<1> SUFFICES ASSUME Inv, [Next]_vars PROVE (Step \/ UNCHANGED vars)
  OBVIOUS
<1> USE PortsAssumption
<1>i. TypeOK /\ ShapeInv /\ PendingInv /\ MatchInv /\ OnceInv /\ OwnerInv /\ FileInv /\ LockInv /\ HandleInv /\ ClosedLast
  BY DEF Inv
<1> USE <1>i
<1>1. CASE osi_get_callbacks
  BY <1>1 DEF Step
<1>2. CASE run_callbacks
  BY <1>2 DEF Step
<1>3. CASE close_handle_data_cb
  BY <1>3 DEF close_handle_data_cb, Unlock, Step, Passes, SlotsSame, OpsSame, LocksSame, users, Everyone
<1>4. CASE process_exit_cb
  <2>1. SlotsSame /\ OpsSame /\ LocksSame /\ UNCHANGED <<polling, alive, waiting>>
    BY <1>4, ExitTold DEF SlotsSame, OpsSame, LocksSame, users, Everyone
  <2>2. \E c \in Calls : c.proc = None /\ c.op # "close" /\ Pushed(c)
    BY <1>4, ExitTold, CallType
  <2> QED
    BY <2>1, <2>2 DEF Step, Passes
<1>5. ASSUME NEW p \in Everyone, rw_fs_cb(p) PROVE (Step \/ UNCHANGED vars)
  <2>1. /\ polling /\ req[p].op = "rw" /\ req[p].op \in Ops /\ UNCHANGED <<polling, alive, waiting>>
        /\ locked' = locked \ ({p} \X {"callback", "buffer"})
    BY <1>5, RwDone DEF users, Ops
  <2>2. OpBecomes(p, None)
    BY <1>5, RwDone, OpEffects DEF ReqEnds
  <2>3. SlotsSame
    BY <1>5, RwDone DEF SlotsSame
  <2>4. \E c \in Calls : /\ c.proc = p /\ c.op = req[p].op /\ Pushed(c)
                         /\ c.op = "close" /\ c.port \in Ports => port[c.port].kind = "file"
    BY <1>5, <2>1, RwDone, CallType, Fields
  <2> QED
    BY <2>1, <2>2, <2>3, <2>4 DEF Finishes, Step, Turn
<1>6. ASSUME NEW p \in Everyone, return_fs_result_cb(p) PROVE (Step \/ UNCHANGED vars)
  <2>1. /\ polling /\ req[p].op = "path" /\ req[p].op \in Ops /\ UNCHANGED <<polling, alive, waiting>>
        /\ locked' = locked \ ({p} \X {"callback", "buffer"})
    BY <1>6, PathDone DEF users, Ops
  <2>2. OpBecomes(p, None)
    BY <1>6, PathDone, OpEffects DEF ReqEnds
  <2>3. SlotsSame
    BY <1>6, PathDone DEF SlotsSame
  <2>4. \E c \in Calls : /\ c.proc = p /\ c.op = req[p].op /\ Pushed(c)
                         /\ c.op = "close" /\ c.port \in Ports => port[c.port].kind = "file"
    BY <1>6, <2>1, PathDone, CallType, Fields
  <2> QED
    BY <2>1, <2>2, <2>3, <2>4 DEF Finishes, Step, Turn
<1>7. ASSUME NEW p \in Everyone, open_fs_cb(p) PROVE (Step \/ UNCHANGED vars)
  <2>1. /\ polling /\ req[p].op = "open" /\ req[p].op \in Ops /\ UNCHANGED <<polling, alive, waiting>>
        /\ locked' = locked \ ({p} \X {"callback", "buffer"})
    BY <1>7, OpenDone DEF users, Ops
  <2>2. OpBecomes(p, None)
    BY <1>7, OpenDone, OpEffects DEF ReqEnds
  <2>3. SlotsSame
    <3>1. CASE UNCHANGED port
      BY <3>1 DEF SlotsSame
    <3>2. ASSUME NEW a \in Ports, port[a].kind = "none",
                 PortBecomes(a, "file", "open", None, None, None, req[p].file, p)
          PROVE  SlotsSame
      BY <3>2, SlotEffects, UnusedSlots
    <3> QED
      BY <1>7, <3>1, <3>2, OpenDone
  <2>4. \E c \in Calls : /\ c.proc = p /\ c.op = req[p].op /\ Pushed(c)
                         /\ c.op = "close" /\ c.port \in Ports => port[c.port].kind = "file"
    <3>1. \E a \in Ports \cup {None} : Pushed(Callback("open", p, a))
      BY <1>7, OpenDone
    <3> QED
      BY <2>1, <3>1, CallType
  <2> QED
    BY <2>1, <2>2, <2>3, <2>4 DEF Finishes, Step, Turn
<1>8. ASSUME NEW p \in Everyone, close_fs_cb(p) PROVE (Step \/ UNCHANGED vars)
  <2>1. /\ polling /\ req[p].op = "close" /\ req[p].op \in Ops /\ UNCHANGED <<polling, alive, waiting>>
        /\ locked' = locked \ ({p} \X {"callback", "buffer"})
    BY <1>8, CloseDone DEF users, Ops
  <2>2. OpBecomes(p, None)
    BY <1>8, CloseDone, OpEffects DEF ReqEnds
  <2>3. SlotsSame
    <3>1. CASE req[p].port \in Ports
      <4>1. PortFreed(req[p].port)
        BY <1>8, <3>1, CloseDone
      <4>2. port[req[p].port].kind = "file"
        BY <2>1, <3>1 DEF FileInv, FileReq, Closer
      <4> QED
        BY <3>1, <4>1, <4>2, SlotEffects, UnusedSlots DEF PortFreed
    <3>2. CASE req[p].port \notin Ports
      BY <1>8, <3>2, CloseDone DEF SlotsSame
    <3> QED
      BY <3>1, <3>2
  <2>4. \E c \in Calls : /\ c.proc = p /\ c.op = req[p].op /\ Pushed(c)
                         /\ c.op = "close" /\ c.port \in Ports => port[c.port].kind = "file"
    <3>1. req[p].port \in Ports => port[req[p].port].kind = "file"
      BY <2>1 DEF FileInv, FileReq, Closer
    <3>2. Pushed(Callback("close", p, req[p].port))
      BY <1>8, CloseDone
    <3> QED
      BY <2>1, <3>1, <3>2, CallType, Fields
  <2> QED
    BY <2>1, <2>2, <2>3, <2>4 DEF Finishes, Step, Turn
<1>9. ASSUME NEW p \in Everyone, connect_tcp_addrinfo_cb(p) PROVE (Step \/ UNCHANGED vars)
  <2>1. /\ polling /\ req[p].op = "connect" /\ req[p].op \in Ops /\ UNCHANGED <<polling, alive, waiting>>
        /\ req[p].port \in Ports
    BY <1>9, ConnectDone DEF users, Ops
  <2>2. CASE ConnectGoesOn(p)
    <3>1. OpsSame
      BY <2>1, <2>2, OpEffects DEF ConnectGoesOn
    <3>2. SlotsSame /\ LocksSame /\ g_callbacks' = g_callbacks
      BY <2>2 DEF ConnectGoesOn, SlotsSame, LocksSame
    <3> QED
      BY <2>1, <3>1, <3>2 DEF Passes, Step
  <2>3. CASE ConnectEnds(p)
    <3> DEFINE a == req[p].port
    <3>1. PICK s \in {"closing", "open"} :
            /\ PortBecomes(a, port[a].kind, s, port[a].read, port[a].write, port[a].close,
                           port[a].file, port[a].proc)
            /\ Pushed(Callback("connect", p, IF s = "open" THEN a ELSE None))
      BY <2>3 DEF ConnectEnds
    <3>2. OpBecomes(p, None) /\ locked' = locked \ ({p} \X {"callback", "buffer"})
      BY <2>3, OpEffects DEF ConnectEnds, ReqEnds
    <3>3. SlotsSame
      BY <2>1, <3>1, SlotEffects
    <3>4. \E c \in Calls : /\ c.proc = p /\ c.op = req[p].op /\ Pushed(c)
                           /\ c.op = "close" /\ c.port \in Ports => port[c.port].kind = "file"
      BY <2>1, <3>1, CallType
    <3> QED
      BY <2>1, <3>2, <3>3, <3>4 DEF Finishes, Step, Turn
  <2> QED
    BY <1>9, <2>2, <2>3, ConnectDone
<1>10. ASSUME NEW p \in Everyone, connect_tcp_cb(p) PROVE (Step \/ UNCHANGED vars)
  <2>1. /\ polling /\ req[p].op = "connect" /\ req[p].op \in Ops /\ UNCHANGED <<polling, alive, waiting>>
        /\ req[p].port \in Ports
    BY <1>10, ConnectDone DEF users, Ops
  <2>2. CASE ConnectGoesOn(p)
    <3>1. OpsSame
      BY <2>1, <2>2, OpEffects DEF ConnectGoesOn
    <3>2. SlotsSame /\ LocksSame /\ g_callbacks' = g_callbacks
      BY <2>2 DEF ConnectGoesOn, SlotsSame, LocksSame
    <3> QED
      BY <2>1, <3>1, <3>2 DEF Passes, Step
  <2>3. CASE ConnectEnds(p)
    <3> DEFINE a == req[p].port
    <3>1. PICK s \in {"closing", "open"} :
            /\ PortBecomes(a, port[a].kind, s, port[a].read, port[a].write, port[a].close,
                           port[a].file, port[a].proc)
            /\ Pushed(Callback("connect", p, IF s = "open" THEN a ELSE None))
      BY <2>3 DEF ConnectEnds
    <3>2. OpBecomes(p, None) /\ locked' = locked \ ({p} \X {"callback", "buffer"})
      BY <2>3, OpEffects DEF ConnectEnds, ReqEnds
    <3>3. SlotsSame
      BY <2>1, <3>1, SlotEffects
    <3>4. \E c \in Calls : /\ c.proc = p /\ c.op = req[p].op /\ Pushed(c)
                           /\ c.op = "close" /\ c.port \in Ports => port[c.port].kind = "file"
      BY <2>1, <3>1, CallType
    <3> QED
      BY <2>1, <3>2, <3>3, <3>4 DEF Finishes, Step, Turn
  <2> QED
    BY <1>10, <2>2, <2>3, ConnectDone
<1>11. ASSUME NEW a \in Ports, close_stream_cb(a) PROVE (Step \/ UNCHANGED vars)
  <2>1. SlotsBecome(a, None, None, None)
    BY <1>11, StreamClosed, SlotEffects DEF PortFreed
  <2>2. OpsSame /\ UNCHANGED <<polling, alive, waiting>>
    BY <1>11, StreamClosed DEF OpsSame, users
  <2> QED
    BY <1>11, <2>1, <2>2, StreamClosed, Zenon DEF Ends, Step
<1>12. ASSUME NEW a \in Ports, read_stream_cb(a) PROVE (Step \/ UNCHANGED vars)
  <2>1. SlotsBecome(a, None, port[a].write, port[a].close)
    BY <1>12, ReadDone, SlotEffects
  <2>2. OpsSame /\ UNCHANGED <<polling, alive, waiting>>
    BY <1>12, ReadDone DEF OpsSame, users
  <2> QED
    BY <1>12, <2>1, <2>2, ReadDone DEF Empties, Step
<1>13. ASSUME NEW a \in Ports, write_stream_cb(a) PROVE (Step \/ UNCHANGED vars)
  <2>1. SlotsBecome(a, port[a].read, None, port[a].close)
    BY <1>13, WriteDone, SlotEffects
  <2>2. OpsSame /\ UNCHANGED <<polling, alive, waiting>>
    BY <1>13, WriteDone DEF OpsSame, users
  <2> QED
    BY <1>13, <2>1, <2>2, WriteDone DEF Empties, Step
<1>14. ASSUME NEW a \in Ports, listen_tcp_cb(a) PROVE (Step \/ UNCHANGED vars)
  <2>1. PICK s \in {"closing", "open"} :
          /\ PortBecomes(a, "stream", s, None, None, None, None, None)
          /\ Pushed(Callback("accept", None, IF s = "open" THEN a ELSE None))
    BY <1>14, Accepted
  <2>2. SlotsSame
    BY <1>14, <2>1, Accepted, SlotEffects, UnusedSlots
  <2>3. OpsSame /\ LocksSame /\ UNCHANGED <<polling, alive, waiting>>
    BY <1>14, Accepted DEF OpsSame, LocksSame, users
  <2>4. \E c \in Calls : c.proc = None /\ c.op # "close" /\ Pushed(c)
    BY <2>1, CallType
  <2> QED
    BY <2>2, <2>3, <2>4 DEF Step, Passes
<1>15. ASSUME NEW p \in Everyone, uv_fs_open(p) PROVE (Step \/ UNCHANGED vars)
  <2>1. OpsSame
    BY <1>15, FileOpened, OpEffects
  <2>2. SlotsSame /\ LocksSame /\ UNCHANGED <<polling, alive, waiting, g_callbacks>>
    BY <1>15, FileOpened DEF SlotsSame, LocksSame, users
  <2> QED
    BY <2>1, <2>2 DEF Step, Passes
<1>16. ASSUME NEW p \in Everyone, uv_fs_close(p) PROVE (Step \/ UNCHANGED vars)
  <2>1. OpsSame
    BY <1>16, FileClosed, OpEffects
  <2>2. SlotsSame /\ LocksSame /\ UNCHANGED <<polling, alive, waiting, g_callbacks>>
    BY <1>16, FileClosed DEF SlotsSame, LocksSame, users
  <2> QED
    BY <2>1, <2>2 DEF Step, Passes
<1>17. ASSUME NEW p \in Everyone, uv_other(p) PROVE (Step \/ UNCHANGED vars)
  <2>1. OpsSame
    BY <1>17, OtherFinished, OpEffects
  <2>2. SlotsSame /\ LocksSame /\ UNCHANGED <<polling, alive, waiting, g_callbacks>>
    BY <1>17, OtherFinished DEF SlotsSame, LocksSame, users
  <2> QED
    BY <2>1, <2>2 DEF Step, Passes
<1>18. ASSUME NEW p \in Everyone, NEW o \in {"path", "open"}, fs_request(p, o) PROVE (Step \/ UNCHANGED vars)
  <2>1. o \in Ops \ {"read", "write"} /\ CanCall(p) /\ UNCHANGED <<polling, alive, g_callbacks>>
    BY <1>18, PathAsked DEF Ops, MayClose
  <2>2. OpBecomes(p, o) /\ WaitBecomes(p, o, None)
    BY <1>18, PathAsked, OpEffects
  <2>3. SlotsSame
    BY <1>18, PathAsked DEF SlotsSame
  <2>4. locked' = locked \cup ({p} \X (IF o = "rw" THEN {"callback", "buffer"} ELSE {"callback"}))
    BY <1>18, PathAsked
  <2> QED
    BY <2>1, <2>2, <2>3, <2>4 DEF Asks, Step, Turn
<1>19. ASSUME NEW p \in Everyone, osi_open_fd(p) PROVE (Step \/ UNCHANGED vars)
  <2>1. SlotsSame
    BY <1>19, FdOpened, SlotEffects, UnusedSlots
  <2>2. OpsSame /\ LocksSame /\ UNCHANGED <<polling, alive, waiting, g_callbacks>>
    BY <1>19, FdOpened DEF OpsSame, LocksSame
  <2> QED
    BY <2>1, <2>2 DEF Step, Passes
<1>20. ASSUME NEW p \in Everyone, osi_connect_tcp(p) PROVE (Step \/ UNCHANGED vars)
  <2>1. CanCall(p) /\ UNCHANGED <<polling, alive, g_callbacks>>
    BY <1>20, ConnectAsked
  <2>2. ASSUME NEW a \in Ports, port[a].kind = "none",
               PortBecomes(a, "stream", "connecting", None, None, None, None, None),
               ReqBecomes(p, "connect", a, None, FALSE),
               locked' = locked \cup ({p} \X {"callback"}), WaitBecomes(p, "connect", a)
        PROVE  Asks(p)
    <3>0. OpBecomes(p, "connect")
      BY <2>2, OpEffects
    <3>1. SlotsSame /\ OpBecomes(p, "connect")
      BY <2>2, <3>0, SlotEffects, UnusedSlots
    <3> QED
      BY <2>1, <2>2, <3>1 DEF Asks, Ops
  <2>3. ASSUME NEW a \in Ports, port[a].kind = "none",
               PortBecomes(a, "stream", "closing", None, None, None, None, None),
               UNCHANGED <<req, locked, waiting>>
        PROVE  Passes
    <3>1. SlotsSame
      BY <2>3, SlotEffects, UnusedSlots
    <3> QED
      BY <2>1, <2>3, <3>1 DEF Passes, OpsSame, LocksSame
  <2> QED
    BY <1>20, <2>2, <2>3, ConnectAsked DEF Step, Turn
<1>21. ASSUME NEW p \in Everyone, osi_spawn(p) PROVE (Step \/ UNCHANGED vars)
  <2>1. SlotsSame
    <3>1. PICK S \in SUBSET Ports :
            /\ \A a \in S : /\ port[a].kind = "none" /\ port'[a].read = None
                            /\ port'[a].write = None /\ port'[a].close = None
            /\ \A a \in Ports \ S : port'[a] = port[a]
      BY <1>21, Spawned
    <3>2. \A a \in S : port[a].read = None /\ port[a].write = None /\ port[a].close = None
      BY <3>1, UnusedSlots
    <3> QED
      BY <3>1, <3>2 DEF SlotsSame
  <2>2. OpsSame /\ UNCHANGED <<polling, alive, waiting, g_callbacks>>
    BY <1>21, Spawned DEF OpsSame
  <2>3. LocksSame
    BY <1>21, Spawned DEF LocksSame, Everyone
  <2> QED
    BY <2>1, <2>2, <2>3 DEF Step, Passes
<1>22. ASSUME NEW p \in Everyone, osi_listen_tcp(p) PROVE (Step \/ UNCHANGED vars)
  BY <1>22 DEF osi_listen_tcp, Lock, Step, Passes, SlotsSame, OpsSame, LocksSame, users, Everyone
<1>23. ASSUME NEW p \in Everyone, osi_close_tcp_listener(p) PROVE (Step \/ UNCHANGED vars)
  BY <1>23 DEF osi_close_tcp_listener, Step, Passes, SlotsSame, OpsSame, LocksSame, users
<1>24. ASSUME NEW p \in Everyone, NEW a \in Ports, rw_fs_port(p, a) PROVE (Step \/ UNCHANGED vars)
  <2>1. "rw" \in Ops \ {"read", "write"} /\ CanCall(p) /\ UNCHANGED <<polling, alive, g_callbacks>>
    BY <1>24, RwAsked DEF Ops, MayClose
  <2>2. OpBecomes(p, "rw") /\ WaitBecomes(p, "rw", a)
    BY <1>24, RwAsked, OpEffects
  <2>3. SlotsSame
    BY <1>24, RwAsked DEF SlotsSame
  <2>4. locked' = locked \cup ({p} \X (IF "rw" = "rw" THEN {"callback", "buffer"} ELSE {"callback"}))
    BY <1>24, RwAsked
  <2> QED
    BY <2>1, <2>2, <2>3, <2>4 DEF Asks, Step, Turn
<1>25. ASSUME NEW p \in Everyone, NEW a \in Ports, read_stream_port(p, a) PROVE (Step \/ UNCHANGED vars)
  <2>1. SlotsBecome(a, p, port[a].write, port[a].close)
    BY <1>25, ReadAsked, SlotEffects
  <2>2. OpsSame /\ UNCHANGED <<polling, alive, g_callbacks>>
    BY <1>25, ReadAsked DEF OpsSame
  <2> QED
    BY <1>25, <2>1, <2>2, ReadAsked DEF Fills, Step, Turn
<1>26. ASSUME NEW p \in Everyone, NEW a \in Ports, write_stream_port(p, a) PROVE (Step \/ UNCHANGED vars)
  <2>1. SlotsBecome(a, port[a].read, p, port[a].close)
    BY <1>26, WriteAsked, SlotEffects
  <2>2. OpsSame /\ UNCHANGED <<polling, alive, g_callbacks>>
    BY <1>26, WriteAsked DEF OpsSame
  <2> QED
    BY <1>26, <2>1, <2>2, WriteAsked DEF Fills, Step, Turn
<1>27. ASSUME NEW p \in Everyone, NEW a \in Ports, close_stream_port(p, a) PROVE (Step \/ UNCHANGED vars)
  <2>1. SlotsBecome(a, port[a].read, port[a].write, p)
    BY <1>27, StreamCloseAsked, SlotEffects
  <2>2. OpsSame /\ UNCHANGED <<polling, alive, g_callbacks>>
    BY <1>27, StreamCloseAsked DEF OpsSame
  <2>3. port[a].close = None
    BY <1>27, StreamCloseAsked DEF MayClose, OwnerInv, Owned, ShapeInv, Shaped
  <2> QED
    BY <1>27, <2>1, <2>2, <2>3, StreamCloseAsked DEF Fills, Step, Turn, MayClose
<1>28. ASSUME NEW p \in Everyone, NEW a \in Ports, close_fs_port(p, a) PROVE (Step \/ UNCHANGED vars)
  <2>1. "close" \in Ops \ {"read", "write"} /\ CanCall(p) /\ UNCHANGED <<polling, alive, g_callbacks>>
    BY <1>28, FileCloseAsked DEF Ops, MayClose
  <2>2. OpBecomes(p, "close") /\ WaitBecomes(p, "close", a)
    BY <1>28, FileCloseAsked, OpEffects
  <2>3. SlotsSame
    BY <1>28, FileCloseAsked, SlotEffects
  <2>4. locked' = locked \cup ({p} \X (IF "close" = "rw" THEN {"callback", "buffer"} ELSE {"callback"}))
    BY <1>28, FileCloseAsked
  <2> QED
    BY <2>1, <2>2, <2>3, <2>4 DEF Asks, Step, Turn
<1>29. ASSUME NEW p \in Everyone, NEW a \in Ports, close_fd_port(p, a) PROVE (Step \/ UNCHANGED vars)
  <2>1. "close" \in Ops \ {"read", "write"} /\ CanCall(p) /\ UNCHANGED <<polling, alive, g_callbacks>>
    BY <1>29, FdCloseAsked DEF Ops, MayClose
  <2>2. OpBecomes(p, "close") /\ WaitBecomes(p, "close", None)
    BY <1>29, FdCloseAsked, OpEffects
  <2>3. SlotsSame
    <3>1. port[a].kind = "fd" /\ PortBecomes(a, "none", "open", None, None, None, None, None)
      BY <1>29, FdCloseAsked DEF PortFreed
    <3> QED
      BY <3>1, SlotEffects, UnusedSlots
  <2>4. locked' = locked \cup ({p} \X (IF "close" = "rw" THEN {"callback", "buffer"} ELSE {"callback"}))
    BY <1>29, FdCloseAsked
  <2> QED
    BY <2>1, <2>2, <2>3, <2>4 DEF Asks, Step, Turn
<1>30. ASSUME NEW p \in Everyone, Kill(p) PROVE (Step \/ UNCHANGED vars)
  BY <1>30 DEF Step, Turn
<1>31. CASE UNCHANGED vars
  BY <1>31
<1> QED
  BY <1>1, <1>2, <1>3, <1>4, <1>5, <1>6, <1>7, <1>8, <1>9, <1>10, <1>11, <1>12, <1>13, <1>14, <1>15, <1>16, <1>17, <1>18, <1>19, <1>20, <1>21, <1>22, <1>23, <1>24, <1>25, <1>26, <1>27, <1>28, <1>29, <1>30, <1>31 DEF Next, event_loop, uv_done, uv_closing, uv_event, uv_work, Everyone

-----------------------------------------------------------------------------
(* The slots of a process after a step. *)
LEMMA SameSlots ==
  ASSUME SlotsSame, NEW q
  PROVE  (OneSlot(q) => OneSlot(q)') /\ (NoSlot(q)' <=> NoSlot(q))
BY DEF SlotsSame, OneSlot, NoSlot

(* A process without an operation takes a slot. *)
LEMMA FilledSlots ==
  ASSUME NEW a \in Ports, NEW p \in Everyone, NoSlot(p), NEW q,
         \/ port[a].read = None /\ SlotsBecome(a, p, port[a].write, port[a].close)
         \/ port[a].write = None /\ SlotsBecome(a, port[a].read, p, port[a].close)
         \/ port[a].close = None /\ SlotsBecome(a, port[a].read, port[a].write, p)
  PROVE  (OneSlot(q) => OneSlot(q)') /\ (q # p /\ q # None => (NoSlot(q)' <=> NoSlot(q)))
<1>1. CASE port[a].read = None /\ SlotsBecome(a, p, port[a].write, port[a].close)
  BY <1>1 DEF SlotsBecome, OneSlot, NoSlot
<1>2. CASE port[a].write = None /\ SlotsBecome(a, port[a].read, p, port[a].close)
  BY <1>2 DEF SlotsBecome, OneSlot, NoSlot
<1>3. CASE port[a].close = None /\ SlotsBecome(a, port[a].read, port[a].write, p)
  BY <1>3 DEF SlotsBecome, OneSlot, NoSlot
<1> QED
  BY <1>1, <1>2, <1>3

(* A slot is emptied. *)
LEMMA EmptiedSlots ==
  ASSUME NEW a \in Ports, NEW q \in Everyone, OneSlot(q), NEW w,
         \/ SlotsBecome(a, None, port[a].write, port[a].close) /\ w = port[a].read
         \/ SlotsBecome(a, port[a].read, None, port[a].close) /\ w = port[a].write
         \/ SlotsBecome(a, None, None, None) /\ w = port[a].read
         \/ SlotsBecome(a, None, None, None) /\ w = port[a].close
  PROVE  OneSlot(q)' /\ (NoSlot(q) => NoSlot(q)') /\ (q = w => NoSlot(q)')
<1>0. q # None
  BY PortsAssumption DEF Everyone
<1>1. CASE SlotsBecome(a, None, port[a].write, port[a].close) /\ w = port[a].read
  BY <1>0, <1>1 DEF SlotsBecome, OneSlot, NoSlot
<1>2. CASE SlotsBecome(a, port[a].read, None, port[a].close) /\ w = port[a].write
  BY <1>0, <1>2 DEF SlotsBecome, OneSlot, NoSlot
<1>3. CASE SlotsBecome(a, None, None, None) /\ (w = port[a].read \/ w = port[a].close)
  BY <1>0, <1>3 DEF SlotsBecome, OneSlot, NoSlot
<1> QED
  BY <1>1, <1>2, <1>3

(* A process is in the queue when it was, or when it was added. *)
LEMMA PushedProcs ==
  ASSUME NEW q, NEW r, NEW c, PushedOn(q, c, r), NEW p
  PROVE  NotIn(p, r) <=> c.proc # p /\ NotIn(p, q)
BY DEF PushedOn, NotIn

(* A process has one operation under way, or one answer in the queue. *)
LEMMA PendingStep == Inv /\ [Next]_vars => PendingInv'
<1> SUFFICES ASSUME Inv, Step \/ UNCHANGED vars PROVE PendingInv'
  BY StepCases
<1> USE PortsAssumption
<1>i. TypeOK /\ ShapeInv /\ PendingInv /\ MatchInv /\ OnceInv /\ OwnerInv /\ FileInv /\ LockInv /\ HandleInv /\ ClosedLast
  BY DEF Inv
<1> USE <1>i
<1>1. CASE Passes
  <2> SUFFICES ASSUME NEW q \in Everyone PROVE Pending(q)'
    BY DEF PendingInv
  <2>1. req'[q].op = req[q].op /\ (OneSlot(q) => OneSlot(q)') /\ (NoSlot(q)' <=> NoSlot(q))
        /\ alive' = alive /\ waiting' = waiting
    BY <1>1, SameSlots DEF Passes, OpsSame
  <2>2. NotQueued(q)' <=> NotQueued(q)
    <3>1. q # None
      BY DEF Everyone
    <3> QED
      BY <1>1, <3>1, PushedProcs DEF Passes, Pushed, NotQueued
  <2> QED
    BY <2>1, <2>2 DEF Pending, PendingInv, Quiet, Waiting
<1>2. CASE osi_get_callbacks
  <2> SUFFICES ASSUME NEW q \in Everyone PROVE Pending(q)'
    BY DEF PendingInv
  <2>1. UNCHANGED <<port, req, alive, waiting>> /\ NotQueued(q)'
    BY <1>2 DEF osi_get_callbacks, NotQueued, NotIn, Range
  <2>2. Pending(q)
    BY DEF PendingInv
  <2> QED
    BY <2>1, <2>2 DEF Pending, Quiet, Waiting, OneSlot, NoSlot
<1>3. CASE run_callbacks
  <2> SUFFICES ASSUME NEW q \in Everyone PROVE Pending(q)'
    BY DEF PendingInv
  <2>1. UNCHANGED <<port, req, alive>> /\ NotQueued(q)'
    BY <1>3 DEF run_callbacks, NotQueued, NotIn, Range
  <2>2. IF NotQueued(q) THEN waiting'[q] = waiting[q] ELSE waiting'[q].op = None
    BY <1>3 DEF run_callbacks, NotQueued, NotIn
  <2>3. Pending(q)
    BY DEF PendingInv
  <2> QED
    BY <2>1, <2>2, <2>3 DEF Pending, Quiet, Waiting, OneSlot, NoSlot
<1>4. ASSUME NEW p \in Everyone, Finishes(p) PROVE PendingInv'
  <2> SUFFICES ASSUME NEW q \in Everyone PROVE Pending(q)'
    BY DEF PendingInv
  <2>1. /\ req'[p].op = None /\ (q # p => req'[q].op = req[q].op) /\ req[p].op # None
        /\ alive' = alive /\ waiting' = waiting
    BY <1>4 DEF Finishes, OpBecomes, Ops
  <2>2. (OneSlot(q) => OneSlot(q)') /\ (NoSlot(q)' <=> NoSlot(q))
    BY <1>4, SameSlots DEF Finishes
  <2>3. NotQueued(q)' <=> q # p /\ NotQueued(q)
    BY <1>4, PushedProcs DEF Finishes, Pushed, NotQueued
  <2>4. Pending(q) /\ Pending(p)
    BY DEF PendingInv
  <2> QED
    BY <2>1, <2>2, <2>3, <2>4 DEF Pending, Quiet, Waiting
<1>5. ASSUME NEW p \in Everyone, Asks(p) PROVE PendingInv'
  <2> SUFFICES ASSUME NEW q \in Everyone PROVE Pending(q)'
    BY DEF PendingInv
  <2>1. PICK o \in Ops, a \in Ports \cup {None} : OpBecomes(p, o) /\ WaitBecomes(p, o, a)
    BY <1>5 DEF Asks
  <2>2. p \in alive /\ ~Waiting(p) /\ alive' = alive /\ NotQueued(q)' = NotQueued(q)
    BY <1>5 DEF Asks, CanCall, NotQueued
  <2>3. (OneSlot(q) => OneSlot(q)') /\ (NoSlot(q)' <=> NoSlot(q))
    BY <1>5, SameSlots DEF Asks
  <2>4. Pending(q) /\ Pending(p)
    BY DEF PendingInv
  <2>5. o # None
    BY DEF Ops
  <2>6. CASE q = p
    BY <2>1, <2>2, <2>3, <2>4, <2>5, <2>6 DEF Pending, Quiet, Waiting, OpBecomes, WaitBecomes
  <2>7. CASE q # p
    BY <2>1, <2>2, <2>3, <2>4, <2>7 DEF Pending, Quiet, Waiting, OpBecomes, WaitBecomes
  <2> QED
    BY <2>6, <2>7
<1>6. ASSUME NEW p \in Everyone, Kill(p) PROVE PendingInv'
  <2> SUFFICES ASSUME NEW q \in Everyone PROVE Pending(q)'
    BY DEF PendingInv
  <2>1. /\ UNCHANGED <<port, req, g_callbacks>> /\ alive' = alive \ {p} /\ waiting'[p].op = None
        /\ q # p => waiting'[q] = waiting[q]
    BY <1>6 DEF Kill, TypeOK
  <2>2. NotQueued(q)' = NotQueued(q)
    BY <2>1 DEF NotQueued
  <2>3. Pending(q)
    BY DEF PendingInv
  <2> QED
    BY <2>1, <2>2, <2>3 DEF Pending, Quiet, Waiting, OneSlot, NoSlot
<1>7. ASSUME NEW p \in Everyone, NEW a \in Ports, Fills(p, a) PROVE PendingInv'
  <2> SUFFICES ASSUME NEW q \in Everyone PROVE Pending(q)'
    BY DEF PendingInv
  <2>1. PICK o \in Ops : WaitBecomes(p, o, a)
    BY <1>7 DEF Fills, Ops
  <2>2. /\ p \in alive /\ ~Waiting(p) /\ alive' = alive /\ NotQueued(q)' = NotQueued(q)
        /\ req'[q].op = req[q].op
    BY <1>7 DEF Fills, CanCall, NotQueued, OpsSame
  <2>3. Pending(q) /\ Pending(p)
    BY DEF PendingInv
  <2>4. NoSlot(p)
    BY <2>2, <2>3 DEF Pending, Quiet
  <2>5. (OneSlot(q) => OneSlot(q)') /\ (q # p /\ q # None => (NoSlot(q)' <=> NoSlot(q)))
    BY <1>7, <2>4, FilledSlots DEF Fills
  <2>6. o # None /\ q # None
    BY DEF Ops, Everyone
  <2>7. CASE q = p
    BY <2>1, <2>2, <2>3, <2>5, <2>6, <2>7 DEF Pending, Quiet, Waiting, WaitBecomes
  <2>8. CASE q # p
    BY <2>1, <2>2, <2>3, <2>5, <2>6, <2>8 DEF Pending, Quiet, Waiting, WaitBecomes
  <2> QED
    BY <2>7, <2>8
<1>8. ASSUME NEW a \in Ports, Empties(a) PROVE PendingInv'
  <2> SUFFICES ASSUME NEW q \in Everyone PROVE Pending(q)'
    BY DEF PendingInv
  <2>1. req'[q].op = req[q].op /\ alive' = alive /\ waiting' = waiting
    BY <1>8 DEF Empties, OpsSame
  <2>2. Pending(q)
    BY DEF PendingInv
  <2>3. PICK w \in Everyone, o \in Ops :
          /\ Pushed(Callback(o, w, a)) /\ ~NoSlot(w)
          /\ \/ SlotsBecome(a, None, port[a].write, port[a].close) /\ w = port[a].read
             \/ SlotsBecome(a, port[a].read, None, port[a].close) /\ w = port[a].write
    BY <1>8 DEF Empties, Ops, NoSlot
  <2>4. OneSlot(q)' /\ (NoSlot(q) => NoSlot(q)') /\ (q = w => NoSlot(q)')
    BY <2>2, <2>3, EmptiedSlots DEF Pending
  <2>5. NotQueued(q)' <=> q # w /\ NotQueued(q)
    BY <2>3, PushedProcs, CallType DEF Pushed, NotQueued
  <2> QED
    BY <2>1, <2>2, <2>3, <2>4, <2>5 DEF Pending, Quiet, Waiting
<1>9. ASSUME NEW a \in Ports, Ends(a) PROVE PendingInv'
  <2> SUFFICES ASSUME NEW q \in Everyone PROVE Pending(q)'
    BY DEF PendingInv
  <2>1. req'[q].op = req[q].op /\ alive' = alive /\ waiting' = waiting
    BY <1>9 DEF Ends, OpsSame
  <2>2. Pending(q) /\ q # None
    BY DEF PendingInv, Everyone
  <2>3. SlotsBecome(a, None, None, None)
    BY <1>9 DEF Ends
  <2>4. /\ OneSlot(q)' /\ (NoSlot(q) => NoSlot(q)')
        /\ q = port[a].read \/ q = port[a].close => NoSlot(q)' /\ ~NoSlot(q)
    BY <2>2, <2>3, EmptiedSlots DEF Pending, NoSlot
  <2>5. NotQueued(q)' <=> q # port[a].read /\ q # port[a].close /\ NotQueued(q)
    <3>1. PICK mid \in Seq(Calls) :
            /\ IF port[a].read = None THEN mid = g_callbacks
               ELSE PushedOn(g_callbacks, Callback("read", port[a].read, a), mid)
            /\ IF port[a].close = None THEN g_callbacks' = mid
               ELSE PushedOn(mid, Callback("close", port[a].close, a), g_callbacks')
      BY <1>9 DEF Ends
    <3>2. NotIn(q, mid) <=> q # port[a].read /\ NotQueued(q)
      BY <2>2, <3>1, PushedProcs, CallType, Fields DEF Ops, NotQueued
    <3>3. NotQueued(q)' <=> q # port[a].close /\ NotIn(q, mid)
      BY <2>2, <3>1, PushedProcs, CallType, Fields DEF Ops, NotQueued
    <3> QED
      BY <3>2, <3>3
  <2> QED
    BY <2>1, <2>2, <2>4, <2>5 DEF Pending, Quiet, Waiting
<1>10. CASE UNCHANGED vars
  BY <1>10 DEF vars, users, PendingInv, Pending, OneSlot, NoSlot, Quiet, NotQueued, Waiting
<1> QED
  BY <1>1, <1>2, <1>3, <1>4, <1>5, <1>6, <1>7, <1>8, <1>9, <1>10 DEF Step, Turn

(* What a process waits for is what is under way for it, or its answer. *)
LEMMA MatchStep == Inv /\ [Next]_vars => MatchInv'
<1> SUFFICES ASSUME Inv, Step \/ UNCHANGED vars PROVE MatchInv'
  BY StepCases
<1> USE PortsAssumption
<1>i. TypeOK /\ ShapeInv /\ PendingInv /\ MatchInv /\ OnceInv /\ OwnerInv /\ FileInv /\ LockInv /\ HandleInv /\ ClosedLast
  BY DEF Inv
<1> USE <1>i
<1>1. CASE Passes
  <2>1. UNCHANGED waiting /\ SlotsSame /\ OpsSame
    BY <1>1 DEF Passes
  <2>2. Range(g_callbacks) \subseteq Range(g_callbacks')
    BY <1>1 DEF Passes, Pushed, PushedOn
  <2> SUFFICES ASSUME NEW q \in Everyone PROVE Matched(q)'
    BY DEF MatchInv
  <2>0. Pending(q) /\ Matched(q) /\ q # None
    BY DEF PendingInv, MatchInv, Everyone
  <2> QED
    BY <2>0, <2>1, <2>2 DEF Matched, Waiting, InSlot, InQueue, SlotsSame, OpsSame
<1>2. CASE osi_get_callbacks
  <2> SUFFICES ASSUME NEW q \in Everyone PROVE Matched(q)'
    BY DEF MatchInv
  <2>0. Pending(q) /\ Matched(q) /\ q # None
    BY DEF PendingInv, MatchInv, Everyone
  <2>1. UNCHANGED <<port, req, waiting>> /\ Range(g_callbacks) = {}
    BY <1>2 DEF osi_get_callbacks, ShapeInv, Range
  <2> QED
    BY <2>0, <2>1 DEF Matched, Waiting, InSlot, InQueue
<1>3. CASE run_callbacks
  <2> SUFFICES ASSUME NEW q \in Everyone PROVE Matched(q)'
    BY DEF MatchInv
  <2>0. Pending(q) /\ Matched(q) /\ q # None
    BY DEF PendingInv, MatchInv, Everyone
  <2>1. UNCHANGED <<port, req>>
    BY <1>3 DEF run_callbacks
  <2>2. IF NotQueued(q) THEN waiting'[q] = waiting[q] ELSE waiting'[q].op = None
    BY <1>3 DEF run_callbacks, NotQueued, NotIn
  <2>3. NotQueued(q) => ~InQueue(q, waiting[q].op, waiting[q].port)
    BY DEF NotQueued, NotIn, InQueue
  <2> QED
    BY <2>0, <2>1, <2>2, <2>3 DEF Matched, Waiting, InSlot
<1>4. ASSUME NEW p \in Everyone, Finishes(p) PROVE MatchInv'
  <2>1. UNCHANGED waiting /\ SlotsSame /\ OpBecomes(p, None) /\ req[p].op \in Ops
    BY <1>4 DEF Finishes
  <2>2. PICK c \in Calls : c.proc = p /\ c.op = req[p].op /\ Pushed(c)
    BY <1>4 DEF Finishes
  <2>3. Range(g_callbacks') = {c} \cup Range(g_callbacks)
    BY <2>2 DEF Pushed, PushedOn
  <2> SUFFICES ASSUME NEW q \in Everyone PROVE Matched(q)'
    BY DEF MatchInv
  <2>0. Pending(q) /\ Matched(q) /\ q # None
    BY DEF PendingInv, MatchInv, Everyone
  <2>4. CASE q = p
    BY <2>0, <2>1, <2>2, <2>3, <2>4 DEF Matched, Waiting, InSlot, InQueue, SlotsSame
  <2>5. CASE q # p
    BY <2>0, <2>1, <2>3, <2>5 DEF Matched, Waiting, InSlot, InQueue, SlotsSame, OpBecomes
  <2> QED
    BY <2>4, <2>5
<1>5. ASSUME NEW p \in Everyone, Asks(p) PROVE MatchInv'
  <2>1. PICK o \in Ops \ {"read", "write"}, a \in Ports \cup {None} :
          OpBecomes(p, o) /\ WaitBecomes(p, o, a)
    BY <1>5 DEF Asks
  <2>2. SlotsSame /\ UNCHANGED g_callbacks
    BY <1>5 DEF Asks
  <2> SUFFICES ASSUME NEW q \in Everyone PROVE Matched(q)'
    BY DEF MatchInv
  <2>0. Pending(q) /\ Matched(q) /\ q # None
    BY DEF PendingInv, MatchInv, Everyone
  <2>4. CASE q = p
    BY <2>1, <2>4 DEF Matched, OpBecomes, WaitBecomes
  <2>5. CASE q # p
    BY <2>0, <2>1, <2>2, <2>5 DEF Matched, Waiting, InSlot, InQueue, SlotsSame, OpBecomes, WaitBecomes
  <2> QED
    BY <2>4, <2>5
<1>6. ASSUME NEW p \in Everyone, Kill(p) PROVE MatchInv'
  <2> SUFFICES ASSUME NEW q \in Everyone PROVE Matched(q)'
    BY DEF MatchInv
  <2>0. Pending(q) /\ Matched(q) /\ q # None
    BY DEF PendingInv, MatchInv, Everyone
  <2>1. /\ UNCHANGED <<port, req, g_callbacks>> /\ waiting'[p].op = None
        /\ q # p => waiting'[q] = waiting[q]
    BY <1>6 DEF Kill, TypeOK
  <2> QED
    BY <2>0, <2>1 DEF Matched, Waiting, InSlot, InQueue
<1>7. ASSUME NEW p \in Everyone, NEW a \in Ports, Fills(p, a) PROVE MatchInv'
  <2>1. OpsSame /\ UNCHANGED g_callbacks /\ NoSlot(p)
    BY <1>7 DEF Fills, PendingInv, Pending, CanCall, Quiet
  <2> SUFFICES ASSUME NEW q \in Everyone PROVE Matched(q)'
    BY DEF MatchInv
  <2>0. Pending(q) /\ Matched(q) /\ q # None
    BY DEF PendingInv, MatchInv, Everyone
  <2>2. CASE q = p
    BY <1>7, <2>2 DEF Fills, Matched, InSlot, WaitBecomes, SlotsBecome
  <2>3. CASE q # p
    <3>1. waiting'[q] = waiting[q]
      BY <1>7, <2>3 DEF Fills, WaitBecomes
    <3>2. \A o, b : InSlot(q, o, b) => InSlot(q, o, b)'
      BY <1>7, <2>0 DEF Fills, InSlot, SlotsBecome
    <3> QED
      BY <2>0, <2>1, <3>1, <3>2 DEF Matched, Waiting, InQueue, OpsSame
  <2> QED
    BY <2>2, <2>3
<1>8. ASSUME NEW a \in Ports, Empties(a) PROVE MatchInv'
  <2>1. OpsSame /\ UNCHANGED waiting
    BY <1>8 DEF Empties
  <2>2. PICK w \in Everyone, o \in {"read", "write"} :
          /\ Pushed(Callback(o, w, a)) /\ InSlot(w, o, a) /\ ~NoSlot(w)
          /\ \A v \in Everyone : v # w =>
               \A r, b : InSlot(v, r, b) => InSlot(v, r, b)'
    BY <1>8 DEF Empties, InSlot, NoSlot, SlotsBecome, Everyone
  <2>3. /\ Range(g_callbacks') = {Callback(o, w, a)} \cup Range(g_callbacks)
        /\ Callback(o, w, a).proc = w /\ Callback(o, w, a).op = o /\ Callback(o, w, a).port = a
    BY <2>2, CallType DEF Pushed, PushedOn, Ops
  <2> SUFFICES ASSUME NEW q \in Everyone PROVE Matched(q)'
    BY DEF MatchInv
  <2>0. Pending(q) /\ Matched(q) /\ q # None
    BY DEF PendingInv, MatchInv, Everyone
  <2>4. CASE q = w
    <3>1. req[q].op = None /\ NotQueued(q)
      BY <2>0, <2>2, <2>4 DEF Pending, Quiet
    <3>2. Waiting(q) => InSlot(q, waiting[q].op, waiting[q].port)
      BY <2>0, <3>1 DEF Matched, InQueue, NotQueued, NotIn, Waiting
    <3>3. Waiting(q) => waiting[q].op = o /\ waiting[q].port = a
      BY <2>0, <2>2, <2>4, <3>2 DEF InSlot, Pending, OneSlot
    <3> QED
      BY <2>1, <2>3, <2>4, <3>3 DEF Matched, Waiting, InQueue
  <2>5. CASE q # w
    BY <2>0, <2>1, <2>2, <2>3, <2>5 DEF Matched, Waiting, InQueue, OpsSame
  <2> QED
    BY <2>4, <2>5
<1>9. ASSUME NEW a \in Ports, Ends(a) PROVE MatchInv'
  <2>1. OpsSame /\ UNCHANGED waiting /\ port[a].write = None
    BY <1>9 DEF Ends
  <2>2. /\ Range(g_callbacks) \subseteq Range(g_callbacks')
        /\ port[a].read # None => Callback("read", port[a].read, a) \in Range(g_callbacks')
        /\ port[a].close # None => Callback("close", port[a].close, a) \in Range(g_callbacks')
    BY <1>9 DEF Ends, PushedOn
  <2>3. /\ Callback("read", port[a].read, a).proc = port[a].read
        /\ Callback("read", port[a].read, a).op = "read"
        /\ Callback("read", port[a].read, a).port = a
        /\ Callback("close", port[a].close, a).proc = port[a].close
        /\ Callback("close", port[a].close, a).op = "close"
    BY DEF Callback
  <2> SUFFICES ASSUME NEW q \in Everyone PROVE Matched(q)'
    BY DEF MatchInv
  <2>0. Pending(q) /\ Matched(q) /\ q # None
    BY DEF PendingInv, MatchInv, Everyone
  <2>4. CASE InSlot(q, waiting[q].op, waiting[q].port) /\ waiting[q].port = a
    BY <2>0, <2>1, <2>2, <2>3, <2>4 DEF Matched, Waiting, InSlot, InQueue
  <2>5. CASE ~(InSlot(q, waiting[q].op, waiting[q].port) /\ waiting[q].port = a)
    <3>1. InSlot(q, waiting[q].op, waiting[q].port) => InSlot(q, waiting[q].op, waiting[q].port)'
      BY <1>9, <2>0, <2>5 DEF Ends, InSlot, SlotsBecome
    <3> QED
      BY <2>0, <2>1, <2>2, <3>1 DEF Matched, Waiting, InQueue, OpsSame
  <2> QED
    BY <2>4, <2>5
<1>10. CASE UNCHANGED vars
  BY <1>10 DEF vars, users, MatchInv, Matched, Waiting, InSlot, InQueue
<1> QED
  BY <1>1, <1>2, <1>3, <1>4, <1>5, <1>6, <1>7, <1>8, <1>9, <1>10 DEF Step, Turn

(* What is locked for a process is what its operation needs. *)
LEMMA LockStep == Inv /\ [Next]_vars => LockInv'
<1> SUFFICES ASSUME Inv, Step \/ UNCHANGED vars PROVE LockInv'
  BY StepCases
<1> USE PortsAssumption
<1>i. TypeOK /\ ShapeInv /\ PendingInv /\ MatchInv /\ OnceInv /\ OwnerInv /\ FileInv /\ LockInv /\ HandleInv /\ ClosedLast
  BY DEF Inv
<1> USE <1>i
<1>1. CASE Passes
  <2> SUFFICES ASSUME NEW q \in Everyone PROVE Locks(q)'
    BY DEF LockInv
  <2>0. Pending(q) /\ Locks(q) /\ q # None
    BY DEF PendingInv, LockInv, Everyone
  <2>1. OpsSame /\ LocksSame /\ (NoSlot(q)' <=> NoSlot(q)) /\ SlotsSame
    BY <1>1, SameSlots DEF Passes
  <2>2. req'[q].op = req[q].op /\ (UsesBuffer(q)' <=> UsesBuffer(q))
    BY <2>1 DEF OpsSame, UsesBuffer, SlotsSame
  <2> QED
    BY <2>0, <2>1, <2>2 DEF Locks, LocksSame, Objects, Quiet
<1>2. CASE osi_get_callbacks
  BY <1>2 DEF osi_get_callbacks, LockInv, Locks, Quiet, NoSlot, UsesBuffer
<1>3. CASE run_callbacks
  BY <1>3 DEF run_callbacks, LockInv, Locks, Quiet, NoSlot, UsesBuffer
<1>4. ASSUME NEW p \in Everyone, Finishes(p) PROVE LockInv'
  <2> SUFFICES ASSUME NEW q \in Everyone PROVE Locks(q)'
    BY DEF LockInv
  <2>0. Pending(q) /\ Locks(q) /\ q # None
    BY DEF PendingInv, LockInv, Everyone
  <2>1. /\ OpBecomes(p, None) /\ (NoSlot(q)' <=> NoSlot(q)) /\ SlotsSame /\ req[p].op # None
        /\ locked' = locked \ ({p} \X {"callback", "buffer"})
    BY <1>4, SameSlots DEF Finishes, Ops
  <2>2. CASE q = p
    BY <2>0, <2>1, <2>2 DEF Locks, Pending, Quiet, UsesBuffer, NoSlot, OpBecomes, SlotsSame
  <2>3. CASE q # p
    BY <2>0, <2>1, <2>3 DEF Locks, Quiet, UsesBuffer, OpBecomes, SlotsSame
  <2> QED
    BY <2>2, <2>3
<1>5. ASSUME NEW p \in Everyone, Asks(p) PROVE LockInv'
  <2> SUFFICES ASSUME NEW q \in Everyone PROVE Locks(q)'
    BY DEF LockInv
  <2>0. Pending(q) /\ Locks(q) /\ q # None
    BY DEF PendingInv, LockInv, Everyone
  <2>1. PICK o \in Ops \ {"read", "write"} :
          /\ OpBecomes(p, o)
          /\ locked' = locked \cup ({p} \X (IF o = "rw" THEN {"callback", "buffer"} ELSE {"callback"}))
    BY <1>5 DEF Asks
  <2>2. (NoSlot(q)' <=> NoSlot(q)) /\ SlotsSame /\ p \in alive /\ ~Waiting(p) /\ o # None
    BY <1>5, SameSlots DEF Asks, CanCall, Ops
  <2>3. CASE q = p
    <3>1. NoSlot(q) /\ req[q].op = None
      BY <2>0, <2>2, <2>3 DEF Pending, Quiet
    <3>2. UsesBuffer(q)' <=> o = "rw"
      BY <2>1, <2>2, <2>3, <3>1 DEF UsesBuffer, NoSlot, OpBecomes, SlotsSame
    <3>3. <<q, "buffer">> \notin locked
      BY <2>0, <3>1 DEF Locks, UsesBuffer, NoSlot
    <3>4. <<q, "callback">> \in locked' /\ (<<q, "buffer">> \in locked' <=> o = "rw")
      BY <2>1, <2>3, <3>3
    <3> QED
      BY <2>1, <2>2, <2>3, <3>2, <3>4 DEF Locks, Quiet, OpBecomes
  <2>4. CASE q # p
    <3>1. <<q, "callback">> \in locked' <=> <<q, "callback">> \in locked
      BY <2>1, <2>4
    <3>2. <<q, "buffer">> \in locked' <=> <<q, "buffer">> \in locked
      BY <2>1, <2>4
    <3> QED
      BY <2>0, <2>1, <2>2, <2>4, <3>1, <3>2 DEF Locks, Quiet, UsesBuffer, OpBecomes, SlotsSame
  <2> QED
    BY <2>3, <2>4
<1>6. ASSUME NEW p \in Everyone, Kill(p) PROVE LockInv'
  BY <1>6 DEF Kill, LockInv, Locks, Quiet, NoSlot, UsesBuffer
<1>7. ASSUME NEW p \in Everyone, NEW a \in Ports, Fills(p, a) PROVE LockInv'
  <2> SUFFICES ASSUME NEW q \in Everyone PROVE Locks(q)'
    BY DEF LockInv
  <2>0. Pending(q) /\ Locks(q) /\ q # None
    BY DEF PendingInv, LockInv, Everyone
  <2>1. OpsSame /\ NoSlot(p) /\ req[p].op = None
    BY <1>7 DEF Fills, PendingInv, Pending, CanCall, Quiet
  <2>2. CASE q # p
    <3>1. NoSlot(q)' <=> NoSlot(q)
      BY <1>7, <2>0, <2>1, <2>2, FilledSlots DEF Fills
    <3>2. UsesBuffer(q)' <=> UsesBuffer(q)
      BY <1>7, <2>0, <2>1, <2>2 DEF Fills, UsesBuffer, SlotsBecome, OpsSame
    <3>3. <<q, "callback">> \in locked' <=> <<q, "callback">> \in locked
      BY <1>7, <2>2 DEF Fills
    <3>4. <<q, "buffer">> \in locked' <=> <<q, "buffer">> \in locked
      BY <1>7, <2>2 DEF Fills
    <3> QED
      BY <2>0, <2>1, <3>1, <3>2, <3>3, <3>4 DEF Locks, Quiet, OpsSame
  <2>3. CASE q = p
    <3>1. ~Quiet(q)'
      BY <1>7, <2>3 DEF Fills, Quiet, NoSlot, SlotsBecome
    <3>2. <<q, "callback">> \in locked'
      BY <1>7, <2>3 DEF Fills
    <3>3. <<q, "buffer">> \notin locked
      BY <2>0, <2>1, <2>3 DEF Locks, UsesBuffer, NoSlot
    <3>4. UsesBuffer(q)' <=> <<q, "buffer">> \in locked'
      <4>1. CASE /\ SlotsBecome(a, p, port[a].write, port[a].close)
                 /\ locked' = locked \cup ({p} \X {"callback", "buffer"})
        BY <2>3, <4>1 DEF SlotsBecome, UsesBuffer
      <4>2. CASE /\ SlotsBecome(a, port[a].read, p, port[a].close)
                 /\ locked' = locked \cup ({p} \X {"callback", "buffer"})
        BY <2>3, <4>2 DEF SlotsBecome, UsesBuffer
      <4>3. CASE /\ SlotsBecome(a, port[a].read, port[a].write, p)
                 /\ locked' = locked \cup ({p} \X {"callback"})
        <5>1. ~UsesBuffer(q)'
          BY <2>1, <2>3, <4>3 DEF SlotsBecome, UsesBuffer, NoSlot, OpsSame
        <5> QED
          BY <2>3, <3>3, <4>3, <5>1
      <4> QED
        BY <1>7, <4>1, <4>2, <4>3 DEF Fills
    <3> QED
      BY <3>1, <3>2, <3>4 DEF Locks
  <2> QED
    BY <2>2, <2>3
<1>8. ASSUME NEW a \in Ports, Empties(a) PROVE LockInv'
  <2>1. PICK w \in Everyone :
          /\ ~NoSlot(w) /\ locked' = locked \ ({w} \X {"callback", "buffer"})
          /\ \/ w = port[a].read /\ SlotsBecome(a, None, port[a].write, port[a].close)
             \/ w = port[a].write /\ SlotsBecome(a, port[a].read, None, port[a].close)
    BY <1>8 DEF Empties, NoSlot
  <2>2. OpsSame
    BY <1>8 DEF Empties
  <2> SUFFICES ASSUME NEW q \in Everyone PROVE Locks(q)'
    BY DEF LockInv
  <2>0. Pending(q) /\ Locks(q) /\ q # None
    BY DEF PendingInv, LockInv, Everyone
  <2>3. CASE q = w
    <3>1. NoSlot(q)' /\ req[q].op = None
      BY <2>0, <2>1, <2>3, EmptiedSlots DEF Pending
    <3> QED
      BY <2>1, <2>2, <2>3, <3>1 DEF Locks, Quiet, UsesBuffer, NoSlot, OpsSame
  <2>4. CASE q # w
    <3>1. NoSlot(q)' <=> NoSlot(q)
      BY <2>0, <2>1, <2>4 DEF NoSlot, SlotsBecome
    <3>2. UsesBuffer(q)' <=> UsesBuffer(q)
      BY <2>0, <2>1, <2>2, <2>4 DEF UsesBuffer, SlotsBecome, OpsSame
    <3> QED
      BY <2>0, <2>1, <2>2, <2>4, <3>1, <3>2 DEF Locks, Quiet, OpsSame
  <2> QED
    BY <2>3, <2>4
<1>9. ASSUME NEW a \in Ports, Ends(a) PROVE LockInv'
  <2>1. /\ SlotsBecome(a, None, None, None) /\ port[a].write = None /\ OpsSame
        /\ locked' = locked \ ({port[a].read} \X {"callback", "buffer"}
                               \cup {port[a].close} \X {"callback"})
    BY <1>9 DEF Ends
  <2> SUFFICES ASSUME NEW q \in Everyone PROVE Locks(q)'
    BY DEF LockInv
  <2>0. Pending(q) /\ Locks(q) /\ q # None
    BY DEF PendingInv, LockInv, Everyone
  <2>2. CASE q = port[a].read
    <3>1. NoSlot(q)' /\ req[q].op = None
      BY <2>0, <2>1, <2>2, EmptiedSlots DEF Pending, NoSlot
    <3>2. <<q, "callback">> \notin locked' /\ <<q, "buffer">> \notin locked'
      BY <2>1, <2>2
    <3> QED
      BY <2>1, <3>1, <3>2 DEF Locks, Quiet, UsesBuffer, NoSlot, OpsSame
  <2>3. CASE q # port[a].read /\ q = port[a].close
    <3>1. NoSlot(q)' /\ req[q].op = None
      BY <2>0, <2>1, <2>3, EmptiedSlots DEF Pending, NoSlot
    <3>2. <<q, "callback">> \notin locked' /\ (<<q, "buffer">> \in locked' <=> <<q, "buffer">> \in locked)
      BY <2>1, <2>3
    <3>3. ~UsesBuffer(q)
      BY <2>0, <2>3, <3>1 DEF UsesBuffer, Pending, OneSlot
    <3> QED
      BY <2>0, <2>1, <3>1, <3>2, <3>3 DEF Locks, Quiet, UsesBuffer, NoSlot, OpsSame
  <2>4. CASE q # port[a].read /\ q # port[a].close
    <3>1. NoSlot(q)' <=> NoSlot(q)
      BY <2>0, <2>1, <2>4 DEF NoSlot, SlotsBecome
    <3>2. UsesBuffer(q)' <=> UsesBuffer(q)
      BY <2>0, <2>1, <2>4 DEF UsesBuffer, SlotsBecome, OpsSame
    <3>3. <<q, "callback">> \in locked' <=> <<q, "callback">> \in locked
      BY <2>1, <2>4
    <3>4. <<q, "buffer">> \in locked' <=> <<q, "buffer">> \in locked
      BY <2>1, <2>4
    <3> QED
      BY <2>0, <2>1, <3>1, <3>2, <3>3, <3>4 DEF Locks, Quiet, OpsSame
  <2> QED
    BY <2>2, <2>3, <2>4
<1>10. CASE UNCHANGED vars
  BY <1>10 DEF vars, users, LockInv, Locks, Quiet, NoSlot, UsesBuffer
<1> QED
  BY <1>1, <1>2, <1>3, <1>4, <1>5, <1>6, <1>7, <1>8, <1>9, <1>10 DEF Step, Turn

-----------------------------------------------------------------------------
(* The queue of callbacks. *)
LEMMA PushAnswersOnce ==
  ASSUME NEW q \in Seq(Calls), NEW r, NEW c, PushedOn(q, c, r), AnswersOnce(q),
         c.proc \in Everyone => NotIn(c.proc, q)
  PROVE  AnswersOnce(r)
<1> SUFFICES ASSUME NEW i \in 1..Len(r), NEW j \in 1..Len(r), r[i].proc \in Everyone,
                    r[i].proc = r[j].proc
             PROVE  i = j
  BY DEF AnswersOnce
<1>1. \A k \in 1..Len(q) : q[k] \in Range(q)
  BY DEF Range
<1>2. ASSUME NEW k \in 1..Len(r) PROVE k = 1 \/ k \in 2..Len(q)+1
  BY DEF PushedOn
<1>3. CASE i = 1 /\ j = 1
  BY <1>3
<1>4. CASE i = 1 /\ j \in 2..Len(q)+1
  <2>1. r[j] \in Range(q) /\ r[i] = c
    BY <1>1, <1>4 DEF PushedOn
  <2> QED
    BY <2>1 DEF NotIn
<1>5. CASE j = 1 /\ i \in 2..Len(q)+1
  <2>1. r[i] \in Range(q) /\ r[j] = c
    BY <1>1, <1>5 DEF PushedOn
  <2> QED
    BY <2>1 DEF NotIn
<1>6. CASE i \in 2..Len(q)+1 /\ j \in 2..Len(q)+1
  <2>1. i-1 \in 1..Len(q) /\ j-1 \in 1..Len(q) /\ r[i] = q[i-1] /\ r[j] = q[j-1]
    BY <1>6 DEF PushedOn
  <2>2. i-1 = j-1
    BY <2>1 DEF AnswersOnce
  <2> QED
    BY <2>2
<1> QED
  BY <1>2, <1>3, <1>4, <1>5, <1>6

(* ClosedLast, of any queue. *)
ReadsOrWrites(p, a) == waiting[p].op \in {"read", "write"} /\ waiting[p].port = a
ClosedOn(q) ==
  \A i \in 1..Len(q) : q[i].op = "close" /\ q[i].port # None =>
    \A p \in Everyone : ReadsOrWrites(p, q[i].port) =>
      \E j \in i + 1..Len(q) : q[j].proc = p

(* ClosedLast is about the queue of callbacks. *)
LEMMA ClosedLastOn ==
  ASSUME TypeOK
  PROVE  ClosedLast <=> ClosedOn(g_callbacks)
<1>1. DOMAIN g_callbacks = 1..Len(g_callbacks)
  BY DEF TypeOK
<1> QED
  BY <1>1 DEF ClosedLast, ClosedOn, ReadsOrWrites

(* A callback is added behind those that it must not overtake. *)
LEMMA PushClosed ==
  ASSUME NEW q \in Seq(Calls), NEW r, NEW c, PushedOn(q, c, r), ClosedOn(q),
         c.op = "close" /\ c.port # None =>
           \A p \in Everyone : ReadsOrWrites(p, c.port) => ~NotIn(p, q)
  PROVE  ClosedOn(r)
<1> SUFFICES ASSUME NEW i \in 1..Len(r), r[i].op = "close", r[i].port # None,
                    NEW p \in Everyone, ReadsOrWrites(p, r[i].port)
             PROVE  \E j \in i + 1..Len(r) : r[j].proc = p
  BY DEF ClosedOn
<1>1. Len(q) \in Nat /\ Len(r) = Len(q) + 1 /\ r[1] = c
  BY DEF PushedOn
<1>2. CASE i = 1
  <2>1. ~NotIn(p, q)
    BY <1>1, <1>2
  <2>2. PICK k \in 1..Len(q) : q[k].proc = p
    BY <2>1 DEF NotIn, Range
  <2>3. r[k+1].proc = p /\ k+1 \in i+1..Len(r)
    BY <1>1, <1>2, <2>2 DEF PushedOn
  <2> QED
    BY <2>3
<1>3. CASE i # 1
  <2>1. i-1 \in 1..Len(q) /\ r[i] = q[i-1]
    BY <1>1, <1>3 DEF PushedOn
  <2>2. PICK k \in (i-1) + 1..Len(q) : q[k].proc = p
    BY <2>1 DEF ClosedOn
  <2>3. k \in 1..Len(q) /\ k+1 \in i+1..Len(r)
    BY <1>1, <2>1, <2>2
  <2>4. r[k+1].proc = p
    BY <2>2, <2>3 DEF PushedOn
  <2> QED
    BY <2>3, <2>4
<1> QED
  BY <1>2, <1>3

(* No process has two answers in the queue. *)
LEMMA OnceStep == Inv /\ [Next]_vars => OnceInv'
<1> SUFFICES ASSUME Inv, Step \/ UNCHANGED vars PROVE OnceInv'
  BY StepCases
<1> USE PortsAssumption
<1>i. TypeOK /\ ShapeInv /\ PendingInv /\ MatchInv /\ OnceInv /\ OwnerInv /\ FileInv /\ LockInv /\ HandleInv /\ ClosedLast
  BY DEF Inv
<1> USE <1>i
<1>1. CASE Passes
  <2>1. CASE g_callbacks' = g_callbacks
    BY <2>1 DEF OnceInv, AnswersOnce
  <2>2. ASSUME NEW c \in Calls, c.proc = None, Pushed(c) PROVE OnceInv'
    BY <2>2, PushAnswersOnce DEF OnceInv, Pushed, TypeOK, Everyone
  <2> QED
    BY <1>1, <2>1, <2>2 DEF Passes
<1>2. CASE osi_get_callbacks
  <2>1. Len(g_callbacks') = 0
    BY <1>2 DEF osi_get_callbacks, ShapeInv
  <2> QED
    BY <2>1 DEF OnceInv, AnswersOnce
<1>3. CASE run_callbacks
  <2>1. Len(g_callbacks') = 0
    BY <1>3 DEF run_callbacks, ShapeInv
  <2> QED
    BY <2>1 DEF OnceInv, AnswersOnce
<1>4. ASSUME NEW p \in Everyone, Finishes(p) PROVE OnceInv'
  <2>1. PICK c \in Calls : c.proc = p /\ Pushed(c)
    BY <1>4 DEF Finishes
  <2>2. NotQueued(p)
    BY <1>4 DEF Finishes, Ops, PendingInv, Pending, Quiet
  <2> QED
    BY <2>1, <2>2, PushAnswersOnce DEF OnceInv, Pushed, TypeOK, NotQueued
<1>5. ASSUME NEW p \in Everyone, Asks(p) PROVE OnceInv'
  <2>1. Len(g_callbacks') = 0
    BY <1>5 DEF Asks, ShapeInv, CanCall
  <2> QED
    BY <2>1 DEF OnceInv, AnswersOnce
<1>6. ASSUME NEW p \in Everyone, Kill(p) PROVE OnceInv'
  <2>1. Len(g_callbacks') = 0
    BY <1>6 DEF Kill, ShapeInv
  <2> QED
    BY <2>1 DEF OnceInv, AnswersOnce
<1>7. ASSUME NEW p \in Everyone, NEW a \in Ports, Fills(p, a) PROVE OnceInv'
  <2>1. Len(g_callbacks') = 0
    BY <1>7 DEF Fills, ShapeInv, CanCall
  <2> QED
    BY <2>1 DEF OnceInv, AnswersOnce
<1>8. ASSUME NEW a \in Ports, Empties(a) PROVE OnceInv'
  <2>1. PICK w \in Everyone, k \in {"read", "write"} : Pushed(Callback(k, w, a)) /\ ~NoSlot(w)
    BY <1>8 DEF Empties, NoSlot
  <2>2. Callback(k, w, a).proc = w
    BY DEF Callback
  <2>3. NotQueued(w)
    BY <2>1 DEF PendingInv, Pending, Quiet
  <2> QED
    BY <2>1, <2>2, <2>3, PushAnswersOnce DEF OnceInv, Pushed, TypeOK, NotQueued
<1>9. ASSUME NEW a \in Ports, Ends(a) PROVE OnceInv'
  <2>1. PICK mid \in Seq(Calls) :
          /\ IF port[a].read = None THEN mid = g_callbacks
             ELSE PushedOn(g_callbacks, Callback("read", port[a].read, a), mid)
          /\ IF port[a].close = None THEN g_callbacks' = mid
             ELSE PushedOn(mid, Callback("close", port[a].close, a), g_callbacks')
    BY <1>9 DEF Ends
  <2>2. /\ Callback("read", port[a].read, a).proc = port[a].read
        /\ Callback("read", port[a].read, a).op = "read"
        /\ Callback("close", port[a].close, a).proc = port[a].close
        /\ Callback("close", port[a].close, a).op = "close"
        /\ Callback("close", port[a].close, a).port = a
    BY DEF Callback
  <2>3. ASSUME NEW w \in Everyone, w = port[a].read \/ w = port[a].close PROVE NotQueued(w)
    BY <2>3 DEF PendingInv, Pending, Quiet, NoSlot
  <2>4. port[a].close \in Everyone => port[a].close # port[a].read
    BY DEF PendingInv, Pending, OneSlot
  <2>5. AnswersOnce(mid)
    BY <2>1, <2>2, <2>3, PushAnswersOnce DEF OnceInv, TypeOK, NotQueued
  <2>6. port[a].close \in Everyone => NotIn(port[a].close, mid)
    BY <2>1, <2>2, <2>3, <2>4, PushedProcs DEF NotQueued
  <2> QED
    BY <2>1, <2>2, <2>5, <2>6, PushAnswersOnce DEF OnceInv
<1>10. CASE UNCHANGED vars
  BY <1>10 DEF vars, users, OnceInv, AnswersOnce
<1> QED
  BY <1>1, <1>2, <1>3, <1>4, <1>5, <1>6, <1>7, <1>8, <1>9, <1>10 DEF Step, Turn

(* Who reads or writes a stream is answered before who closes it. *)
LEMMA ClosedStep == Inv /\ [Next]_vars => ClosedLast'
<1> SUFFICES ASSUME Inv, Step \/ UNCHANGED vars PROVE ClosedOn(g_callbacks)'
  <2>1. ASSUME TypeOK' PROVE ClosedLast' <=> ClosedOn(g_callbacks)'
    <3>1. DOMAIN g_callbacks' = 1..Len(g_callbacks')
      BY <2>1 DEF TypeOK
    <3> QED
      BY <3>1 DEF ClosedLast, ClosedOn, ReadsOrWrites
  <2> QED
    BY <2>1, StepCases, TypeStep
<1> USE PortsAssumption
<1>i. TypeOK /\ ShapeInv /\ PendingInv /\ MatchInv /\ OnceInv /\ OwnerInv /\ FileInv /\ LockInv /\ HandleInv /\ ClosedLast
  BY DEF Inv
<1> USE <1>i
<1>c. ClosedOn(g_callbacks)
  BY ClosedLastOn
<1> USE <1>c
<1>1. CASE Passes
  <2>1. CASE g_callbacks' = g_callbacks
    BY <1>1, <2>1 DEF Passes, ClosedOn, ReadsOrWrites
  <2>2. ASSUME NEW c \in Calls, c.op # "close", Pushed(c) PROVE ClosedOn(g_callbacks')
    BY <2>2, PushClosed DEF Pushed, TypeOK
  <2>3. UNCHANGED waiting
    BY <1>1 DEF Passes
  <2> QED
    BY <1>1, <2>1, <2>2, <2>3 DEF Passes, ClosedOn, ReadsOrWrites
<1>2. CASE osi_get_callbacks
  <2>1. Len(g_callbacks') = 0
    BY <1>2 DEF osi_get_callbacks, ShapeInv
  <2> QED
    BY <2>1 DEF ClosedOn
<1>3. CASE run_callbacks
  <2>1. Len(g_callbacks') = 0
    BY <1>3 DEF run_callbacks, ShapeInv
  <2> QED
    BY <2>1 DEF ClosedOn
<1>4. ASSUME NEW p \in Everyone, Finishes(p) PROVE ClosedOn(g_callbacks)'
  <2>w. UNCHANGED waiting /\ g_callbacks \in Seq(Calls)
    BY <1>4 DEF Finishes, TypeOK
  <2>1. PICK c \in Calls : /\ c.proc = p /\ Pushed(c)
                           /\ c.op = "close" /\ c.port \in Ports => port[c.port].kind = "file"
    BY <1>4 DEF Finishes
  <2>2. ASSUME c.op = "close", c.port # None, NEW q \in Everyone, ReadsOrWrites(q, c.port)
        PROVE  ~NotIn(q, g_callbacks)
    <3>1. port[c.port].read = None /\ port[c.port].write = None /\ q # None
      BY <2>1, <2>2, UnusedSlots DEF Calls, Everyone
    <3> QED
      BY <2>2, <3>1 DEF MatchInv, Matched, InSlot, InQueue, NotIn, ReadsOrWrites, Waiting
  <2>3. ClosedOn(g_callbacks')
    BY <2>w, <2>1, <2>2, PushClosed DEF Pushed
  <2> QED
    BY <2>w, <2>3 DEF ClosedOn, ReadsOrWrites
<1>5. ASSUME NEW p \in Everyone, Asks(p) PROVE ClosedOn(g_callbacks)'
  <2>1. Len(g_callbacks') = 0
    BY <1>5 DEF Asks, ShapeInv, CanCall
  <2> QED
    BY <2>1 DEF ClosedOn
<1>6. ASSUME NEW p \in Everyone, Kill(p) PROVE ClosedOn(g_callbacks)'
  <2>1. Len(g_callbacks') = 0
    BY <1>6 DEF Kill, ShapeInv
  <2> QED
    BY <2>1 DEF ClosedOn
<1>7. ASSUME NEW p \in Everyone, NEW a \in Ports, Fills(p, a) PROVE ClosedOn(g_callbacks)'
  <2>1. Len(g_callbacks') = 0
    BY <1>7 DEF Fills, ShapeInv, CanCall
  <2> QED
    BY <2>1 DEF ClosedOn
<1>8. ASSUME NEW a \in Ports, Empties(a) PROVE ClosedOn(g_callbacks)'
  <2>w. UNCHANGED waiting /\ g_callbacks \in Seq(Calls)
    BY <1>8 DEF Empties, TypeOK
  <2>1. PICK w \in Everyone, k \in {"read", "write"} : Pushed(Callback(k, w, a))
    BY <1>8 DEF Empties
  <2>2. Callback(k, w, a).op # "close"
    BY DEF Callback
  <2>3. ClosedOn(g_callbacks')
    BY <2>w, <2>1, <2>2, PushClosed DEF Pushed
  <2> QED
    BY <2>w, <2>3 DEF ClosedOn, ReadsOrWrites
<1>9. ASSUME NEW a \in Ports, Ends(a) PROVE ClosedOn(g_callbacks)'
  <2>w. UNCHANGED waiting /\ g_callbacks \in Seq(Calls)
    BY <1>9 DEF Ends, TypeOK
  <2>1. PICK mid \in Seq(Calls) :
          /\ IF port[a].read = None THEN mid = g_callbacks
             ELSE PushedOn(g_callbacks, Callback("read", port[a].read, a), mid)
          /\ IF port[a].close = None THEN g_callbacks' = mid
             ELSE PushedOn(mid, Callback("close", port[a].close, a), g_callbacks')
    BY <1>9 DEF Ends
  <2>2. /\ Callback("read", port[a].read, a).proc = port[a].read
        /\ Callback("read", port[a].read, a).op = "read"
        /\ Callback("close", port[a].close, a).proc = port[a].close
        /\ Callback("close", port[a].close, a).op = "close"
        /\ Callback("close", port[a].close, a).port = a
    BY DEF Callback
  <2>3. ClosedOn(mid)
    BY <2>w, <2>1, <2>2, PushClosed
  <2>4. ASSUME NEW q \in Everyone, ReadsOrWrites(q, a) PROVE ~NotIn(q, mid)
    <3>1. q # None /\ port[a].write = None
      BY <1>9 DEF Everyone, Ends
    <3>2. port[a].read = q \/ ~NotIn(q, g_callbacks)
      BY <2>4, <3>1 DEF MatchInv, Matched, InSlot, InQueue, NotIn, ReadsOrWrites, Waiting
    <3> QED
      BY <2>1, <2>2, <3>1, <3>2, PushedProcs
  <2>5. ClosedOn(g_callbacks')
    BY <2>1, <2>2, <2>3, <2>4, PushClosed
  <2> QED
    BY <2>w, <2>5 DEF ClosedOn, ReadsOrWrites
<1>10. CASE UNCHANGED vars
  BY <1>10 DEF vars, users, ClosedOn, ReadsOrWrites
<1> QED
  BY <1>1, <1>2, <1>3, <1>4, <1>5, <1>6, <1>7, <1>8, <1>9, <1>10 DEF Step, Turn

-----------------------------------------------------------------------------
(* The lock of the listener or the OS process. *)
HandleSame ==
  handle' = handle /\ (<<"handle", "callback">> \in locked' <=> <<"handle", "callback">> \in locked)

(* The lock of the listener or the OS process. *)
LEMMA HandleStep == Inv /\ [Next]_vars => HandleInv'
<1> SUFFICES ASSUME Inv, [Next]_vars PROVE HandleInv'
  OBVIOUS
<1> USE PortsAssumption DEF HandleInv
<1>i. TypeOK /\ ShapeInv /\ PendingInv /\ MatchInv /\ OnceInv /\ OwnerInv /\ FileInv /\ LockInv /\ HandleInv /\ ClosedLast
  BY DEF Inv
<1> USE <1>i
<1>1. ASSUME UNCHANGED <<handle, locked>> PROVE HandleInv'
  BY <1>1
<1>2. CASE close_handle_data_cb
  BY <1>2 DEF close_handle_data_cb, Unlock
<1>3. CASE process_exit_cb
  BY <1>3, ExitTold
<1>4. ASSUME NEW p \in Everyone, rw_fs_cb(p) PROVE HandleInv'
  <2>1. HandleSame
    BY <1>4, RwDone, Fields DEF HandleSame, Everyone
  <2> QED
    BY <2>1 DEF HandleSame
<1>5. ASSUME NEW p \in Everyone, return_fs_result_cb(p) PROVE HandleInv'
  <2>1. HandleSame
    BY <1>5, PathDone, Fields DEF HandleSame, Everyone
  <2> QED
    BY <2>1 DEF HandleSame
<1>6. ASSUME NEW p \in Everyone, open_fs_cb(p) PROVE HandleInv'
  <2>1. HandleSame
    BY <1>6, OpenDone, Fields DEF HandleSame, Everyone
  <2> QED
    BY <2>1 DEF HandleSame
<1>7. ASSUME NEW p \in Everyone, close_fs_cb(p) PROVE HandleInv'
  <2>1. HandleSame
    BY <1>7, CloseDone, Fields DEF HandleSame, Everyone
  <2> QED
    BY <2>1 DEF HandleSame
<1>8. ASSUME NEW p \in Everyone, connect_tcp_addrinfo_cb(p) PROVE HandleInv'
  <2>1. handle' = handle /\ (locked' = locked \/ locked' = locked \ ({p} \X {"callback", "buffer"}))
    BY <1>8, ConnectDone DEF ConnectGoesOn, ConnectEnds
  <2>2. HandleSame
    BY <2>1 DEF HandleSame, Everyone
  <2> QED
    BY <2>2 DEF HandleSame
<1>9. ASSUME NEW p \in Everyone, connect_tcp_cb(p) PROVE HandleInv'
  <2>1. handle' = handle /\ (locked' = locked \/ locked' = locked \ ({p} \X {"callback", "buffer"}))
    BY <1>9, ConnectDone DEF ConnectGoesOn, ConnectEnds
  <2>2. HandleSame
    BY <2>1 DEF HandleSame, Everyone
  <2> QED
    BY <2>2 DEF HandleSame
<1>10. ASSUME NEW a \in Ports, close_stream_cb(a) PROVE HandleInv'
  <2>1. HandleSame
    BY <1>10, StreamClosed, Fields DEF HandleSame, Everyone
  <2> QED
    BY <2>1 DEF HandleSame
<1>11. ASSUME NEW a \in Ports, read_stream_cb(a) PROVE HandleInv'
  <2>1. HandleSame
    BY <1>11, ReadDone, Fields DEF HandleSame, Everyone
  <2> QED
    BY <2>1 DEF HandleSame
<1>12. ASSUME NEW a \in Ports, write_stream_cb(a) PROVE HandleInv'
  <2>1. HandleSame
    BY <1>12, WriteDone, Fields DEF HandleSame, Everyone
  <2> QED
    BY <2>1 DEF HandleSame
<1>13. ASSUME NEW a \in Ports, listen_tcp_cb(a) PROVE HandleInv'
  <2>1. HandleSame
    BY <1>13, Accepted, Fields DEF HandleSame, Everyone
  <2> QED
    BY <2>1 DEF HandleSame
<1>14. ASSUME NEW p \in Everyone, uv_fs_open(p) PROVE HandleInv'
  <2>1. HandleSame
    BY <1>14, FileOpened, Fields DEF HandleSame, Everyone
  <2> QED
    BY <2>1 DEF HandleSame
<1>15. ASSUME NEW p \in Everyone, uv_fs_close(p) PROVE HandleInv'
  <2>1. HandleSame
    BY <1>15, FileClosed, Fields DEF HandleSame, Everyone
  <2> QED
    BY <2>1 DEF HandleSame
<1>16. ASSUME NEW p \in Everyone, uv_other(p) PROVE HandleInv'
  <2>1. HandleSame
    BY <1>16, OtherFinished, Fields DEF HandleSame, Everyone
  <2> QED
    BY <2>1 DEF HandleSame
<1>17. ASSUME NEW p \in Everyone, NEW o \in {"path", "open"}, fs_request(p, o) PROVE HandleInv'
  <2>1. handle' = handle /\ (locked' = locked \cup ({p} \X {"callback"}))
    BY <1>17, PathAsked
  <2>2. HandleSame
    BY <2>1 DEF HandleSame, Everyone
  <2> QED
    BY <2>2 DEF HandleSame
<1>18. ASSUME NEW p \in Everyone, osi_open_fd(p) PROVE HandleInv'
  <2>1. HandleSame
    BY <1>18, FdOpened, Fields DEF HandleSame, Everyone
  <2> QED
    BY <2>1 DEF HandleSame
<1>19. ASSUME NEW p \in Everyone, osi_connect_tcp(p) PROVE HandleInv'
  <2>1. handle' = handle /\ (locked' = locked \/ locked' = locked \cup ({p} \X {"callback"}))
    BY <1>19, ConnectAsked
  <2>2. HandleSame
    BY <2>1 DEF HandleSame, Everyone
  <2> QED
    BY <2>2 DEF HandleSame
<1>20. ASSUME NEW p \in Everyone, osi_spawn(p) PROVE HandleInv'
  BY <1>20, Spawned
<1>21. ASSUME NEW p \in Everyone, osi_listen_tcp(p) PROVE HandleInv'
  BY <1>21 DEF osi_listen_tcp, CanCall, Lock
<1>22. ASSUME NEW p \in Everyone, osi_close_tcp_listener(p) PROVE HandleInv'
  BY <1>22 DEF osi_close_tcp_listener, CanCall
<1>23. ASSUME NEW p \in Everyone, NEW a \in Ports, rw_fs_port(p, a) PROVE HandleInv'
  <2>1. handle' = handle /\ (locked' = locked \cup ({p} \X {"callback", "buffer"}))
    BY <1>23, RwAsked
  <2>2. HandleSame
    BY <2>1 DEF HandleSame, Everyone
  <2> QED
    BY <2>2 DEF HandleSame
<1>24. ASSUME NEW p \in Everyone, NEW a \in Ports, read_stream_port(p, a) PROVE HandleInv'
  <2>1. HandleSame
    BY <1>24, ReadAsked, Fields DEF HandleSame, Everyone
  <2> QED
    BY <2>1 DEF HandleSame
<1>25. ASSUME NEW p \in Everyone, NEW a \in Ports, write_stream_port(p, a) PROVE HandleInv'
  <2>1. HandleSame
    BY <1>25, WriteAsked, Fields DEF HandleSame, Everyone
  <2> QED
    BY <2>1 DEF HandleSame
<1>26. ASSUME NEW p \in Everyone, NEW a \in Ports, close_stream_port(p, a) PROVE HandleInv'
  <2>1. HandleSame
    BY <1>26, StreamCloseAsked, Fields DEF HandleSame, Everyone
  <2> QED
    BY <2>1 DEF HandleSame
<1>27. ASSUME NEW p \in Everyone, NEW a \in Ports, close_fs_port(p, a) PROVE HandleInv'
  <2>1. handle' = handle /\ (locked' = locked \cup ({p} \X {"callback"}))
    BY <1>27, FileCloseAsked
  <2>2. HandleSame
    BY <2>1 DEF HandleSame, Everyone
  <2> QED
    BY <2>2 DEF HandleSame
<1>28. ASSUME NEW p \in Everyone, NEW a \in Ports, close_fd_port(p, a) PROVE HandleInv'
  <2>1. handle' = handle /\ (locked' = locked \cup ({p} \X {"callback"}))
    BY <1>28, FdCloseAsked
  <2>2. HandleSame
    BY <2>1 DEF HandleSame, Everyone
  <2> QED
    BY <2>2 DEF HandleSame
<1> QED
  BY <1>1, <1>2, <1>3, <1>4, <1>5, <1>6, <1>7, <1>8, <1>9, <1>10, <1>11, <1>12, <1>13, <1>14, <1>15, <1>16, <1>17, <1>18, <1>19, <1>20, <1>21, <1>22, <1>23, <1>24, <1>25, <1>26, <1>27, <1>28 DEF Next, event_loop, uv_done, uv_closing, uv_event, uv_work, Everyone, vars, users,
    Kill, osi_get_callbacks, run_callbacks

-----------------------------------------------------------------------------
(* Who owns the ports.  The life of a port is its kind and its state.       *)
LifeBecomes(a, k, s) ==
  /\ port'[a].kind = k /\ port'[a].st = s
  /\ \A b \in Ports : b # a => port'[b].kind = port[b].kind /\ port'[b].st = port[b].st
LivesSame == \A b \in Ports : port'[b].kind = port[b].kind /\ port'[b].st = port[b].st
ConnectsSame ==
  \A q \in Everyone : /\ req'[q].op = "connect" <=> req[q].op = "connect"
                      /\ req[q].op = "connect" => req'[q].port = req[q].port
(* The queue gives no port away that it did not, and port a, if a # None. *)
Gives(a) ==
  /\ MadeOnce(g_callbacks')
  /\ \A b \in Ports : Made(b)' <=> Made(b) \/ b = a

(* What an update does to the kind and the state of a port. *)
LEMMA LifeEffects ==
  ASSUME NEW a \in Ports, NEW k, NEW s, NEW r, NEW w, NEW c, NEW f, NEW o,
         PortBecomes(a, k, s, r, w, c, f, o)
  PROVE  /\ LifeBecomes(a, k, s)
         /\ k = port[a].kind /\ s = port[a].st => LivesSame
BY DEF PortBecomes, LifeBecomes, LivesSame

(* Updates that leave connects alone. *)
LEMMA ConnectEffects ==
  ASSUME NEW p \in Everyone, NEW o, NEW a, NEW f, NEW d, ReqBecomes(p, o, a, f, d),
         \/ o # "connect" /\ req[p].op # "connect"
         \/ o = req[p].op /\ a = req[p].port
  PROVE  ConnectsSame
BY DEF ReqBecomes, ConnectsSame

(* A callback that makes a record is added for a handle that none is made *)
(* for yet.                                                               *)
LEMMA PushMade ==
  ASSUME NEW q \in Seq(Calls), NEW c, NEW r, PushedOn(q, c, r), MadeOnce(q),
         Makes(c) => ~MadeIn(c.port, q)
  PROVE  /\ MadeOnce(r)
         /\ \A a : MadeIn(a, r) <=> MadeIn(a, q) \/ (Makes(c) /\ c.port = a)
<1>1. \A a : MadeIn(a, r) <=> MadeIn(a, q) \/ (Makes(c) /\ c.port = a)
  BY DEF PushedOn, MadeIn
<1>2. MadeOnce(r)
  <2> SUFFICES ASSUME NEW i \in 1..Len(r), NEW j \in 1..Len(r), Makes(r[i]), Makes(r[j]),
                      r[i].port = r[j].port
               PROVE  i = j
    BY DEF MadeOnce
  <2>1. \A k \in 1..Len(q) : q[k] \in Range(q)
    BY DEF Range
  <2>2. ASSUME NEW k \in 1..Len(r) PROVE k = 1 \/ k \in 2..Len(q)+1
    BY DEF PushedOn
  <2>3. CASE i = 1 /\ j = 1
    BY <2>3
  <2>4. CASE i = 1 /\ j \in 2..Len(q)+1
    <3>1. r[j] \in Range(q) /\ r[i] = c
      BY <2>1, <2>4 DEF PushedOn
    <3> QED
      BY <3>1 DEF MadeIn
  <2>5. CASE j = 1 /\ i \in 2..Len(q)+1
    <3>1. r[i] \in Range(q) /\ r[j] = c
      BY <2>1, <2>5 DEF PushedOn
    <3> QED
      BY <3>1 DEF MadeIn
  <2>6. CASE i \in 2..Len(q)+1 /\ j \in 2..Len(q)+1
    <3>1. i-1 \in 1..Len(q) /\ j-1 \in 1..Len(q) /\ r[i] = q[i-1] /\ r[j] = q[j-1]
      BY <2>6 DEF PushedOn
    <3>2. i-1 = j-1
      BY <3>1 DEF MadeOnce
    <3> QED
      BY <3>2
  <2> QED
    BY <2>2, <2>3, <2>4, <2>5, <2>6
<1> QED
  BY <1>1, <1>2

(* What adding a callback gives to Scheme. *)
LEMMA PushGives ==
  ASSUME TypeOK, OwnerInv, NEW o, NEW p, NEW a \in Ports \cup {None}, Pushed(Callback(o, p, a))
  PROVE  /\ o \notin {"open", "connect", "accept"} \/ a = None => Gives(None)
         /\ o \in {"open", "connect", "accept"} /\ a # None /\ ~Made(a) => Gives(a)
<1> DEFINE c == Callback(o, p, a)
<1>1. c.op = o /\ c.port = a
  BY DEF Callback
<1> HIDE DEF c
<1>2. Pushed(c)
  BY DEF c
<1>3. g_callbacks \in Seq(Calls) /\ MadeOnce(g_callbacks)
  BY DEF TypeOK, OwnerInv
<1>5. ASSUME ~Makes(c) PROVE Gives(None)
  <2>1. None \notin Ports
    BY PortsAssumption
  <2> QED
    BY <1>2, <1>3, <1>5, <2>1, PushMade DEF Pushed, Gives, Made
<1>6. ASSUME Makes(c), ~Made(a) PROVE Gives(a)
  BY <1>1, <1>2, <1>3, <1>6, PushMade DEF Pushed, Gives, Made
<1> QED
  BY <1>1, <1>5, <1>6 DEF Makes

(* Nothing is given when no callback is added. *)
LEMMA SameGives ==
  ASSUME OwnerInv, g_callbacks' = g_callbacks
  PROVE  Gives(None)
BY PortsAssumption DEF OwnerInv, Gives, Made

(* Nobody's port changes. *)
LEMMA OwnersStay ==
  ASSUME OwnerInv, LivesSame, ConnectsSame, record' = record, Gives(None)
  PROVE  OwnerInv'
<1> USE PortsAssumption
<1>1. ASSUME NEW a \in Ports PROVE Owned(a)'
  <2>1. Owned(a) /\ a # None
    BY DEF OwnerInv
  <2>2. \A p \in Everyone : Connects(p, a) <=> Connects(p, a)'
    BY DEF Connects, ConnectsSame
  <2> QED
    BY <2>1, <2>2 DEF Owned, LivesSame, Gives
<1>2. ASSUME NEW p \in Everyone PROVE Connecting(p)'
  <2>1. Connecting(p)
    BY DEF OwnerInv
  <2> QED
    BY <2>1 DEF Connecting, Connects, ConnectsSame, LivesSame
<1> QED
  BY <1>1, <1>2 DEF OwnerInv, Gives

(* Port a is made, and has a record or is given to one. *)
LEMMA OwnersAdd ==
  ASSUME OwnerInv, NEW a \in Ports, port[a].kind = "none", NEW k, k # "none",
         LifeBecomes(a, k, "open"), ConnectsSame,
         \/ record' = record /\ Gives(a)
         \/ record' = record \cup {a} /\ Gives(None)
  PROVE  OwnerInv'
<1> USE PortsAssumption
<1>0. Owned(a)
  BY DEF OwnerInv
<1>1. ASSUME NEW b \in Ports PROVE Owned(b)'
  <2>1. Owned(b) /\ b # None
    BY DEF OwnerInv
  <2>2. \A p \in Everyone : Connects(p, b) <=> Connects(p, b)'
    BY DEF Connects, ConnectsSame
  <2> QED
    BY <1>0, <2>1, <2>2 DEF Owned, LifeBecomes, Gives
<1>2. ASSUME NEW p \in Everyone PROVE Connecting(p)'
  <2>1. Connecting(p)
    BY DEF OwnerInv
  <2> QED
    BY <2>1 DEF Connecting, Connects, ConnectsSame, LifeBecomes
<1> QED
  BY <1>1, <1>2 DEF OwnerInv, Gives

(* Port a belongs to libuv from now on, or is freed. *)
LEMMA OwnersDrop ==
  ASSUME OwnerInv, NEW a \in Ports, port[a].st # "connecting", ~Made(a), NEW k, NEW s,
         LifeBecomes(a, k, s), s = "closing" \/ (k = "none" /\ s = "open"),
         ConnectsSame, record' = record \ {a}, Gives(None)
  PROVE  OwnerInv'
<1> USE PortsAssumption
<1>0. Owned(a)
  BY DEF OwnerInv
<1>1. ASSUME NEW b \in Ports PROVE Owned(b)'
  <2>1. Owned(b) /\ b # None
    BY DEF OwnerInv
  <2>2. \A p \in Everyone : Connects(p, b) <=> Connects(p, b)'
    BY DEF Connects, ConnectsSame
  <2>3. CASE b = a
    BY <1>0, <2>1, <2>2, <2>3 DEF Owned, LifeBecomes, Gives
  <2>4. CASE b # a
    BY <1>0, <2>1, <2>2, <2>4 DEF Owned, LifeBecomes, Gives
  <2> QED
    BY <2>3, <2>4
<1>2. ASSUME NEW p \in Everyone PROVE Connecting(p)'
  <2>1. Connecting(p)
    BY DEF OwnerInv
  <2> QED
    BY <2>1 DEF Connecting, Connects, ConnectsSame, LifeBecomes
<1> QED
  BY <1>1, <1>2 DEF OwnerInv, Gives

(* A connection attempt of p begins, or ends. *)
LEMMA OwnersConnect ==
  ASSUME OwnerInv, NEW p \in Everyone, req[p].op # "connect", NEW a \in Ports,
         port[a].kind = "none", LifeBecomes(a, "stream", "connecting"),
         ReqBecomes(p, "connect", a, None, FALSE), record' = record, Gives(None)
  PROVE  OwnerInv'
<1> USE PortsAssumption
<1>0. Owned(a)
  BY DEF OwnerInv
<1>1. ASSUME NEW b \in Ports PROVE Owned(b)'
  <2>1. Owned(b) /\ b # None
    BY DEF OwnerInv
  <2>2. \A q \in Everyone : Connects(q, b) => Connects(q, b)'
    BY DEF Connects, ReqBecomes
  <2>3. Connects(p, a)'
    BY DEF Connects, ReqBecomes
  <2> QED
    BY <1>0, <2>1, <2>2, <2>3 DEF Owned, LifeBecomes, Gives
<1>2. ASSUME NEW q \in Everyone PROVE Connecting(q)'
  <2>1. Connecting(q) /\ \A r \in Everyone : req[r].op = "connect" => req[r].port # a
    BY DEF OwnerInv, Connecting
  <2>2. CASE q = p
    BY <2>1, <2>2 DEF Connecting, Connects, ReqBecomes, LifeBecomes
  <2>3. CASE q # p
    BY <2>1, <2>3 DEF Connecting, Connects, ReqBecomes, LifeBecomes
  <2> QED
    BY <2>2, <2>3
<1> QED
  BY <1>1, <1>2 DEF OwnerInv, Gives

(* A connect that ends gives its port to Scheme or closes it. *)
LEMMA OwnersConnected ==
  ASSUME OwnerInv, NEW p \in Everyone, req[p].op = "connect", NEW s,
         LifeBecomes(req[p].port, "stream", s), ReqEnds(p), record' = record,
         \/ s = "closing" /\ Gives(None)
         \/ s = "open" /\ Gives(req[p].port)
  PROVE  OwnerInv'
<1> USE PortsAssumption
<1> DEFINE a == req[p].port
<1>0. a \in Ports /\ Owned(a) /\ port[a].kind = "stream" /\ port[a].st = "connecting"
      /\ \A q \in Everyone : Connects(q, a) => q = p
  BY DEF OwnerInv, Connecting
<1>1. ASSUME NEW b \in Ports PROVE Owned(b)'
  <2>1. Owned(b) /\ b # None
    BY DEF OwnerInv
  <2>2. CASE b = a
    BY <1>0, <2>1, <2>2 DEF Owned, LifeBecomes, Gives
  <2>3. CASE b # a
    <3>1. \A q \in Everyone : Connects(q, b) => Connects(q, b)'
      BY <2>3 DEF Connects, ReqEnds, ReqBecomes
    <3> QED
      BY <2>1, <2>3, <3>1 DEF Owned, LifeBecomes, Gives
  <2> QED
    BY <2>2, <2>3
<1>2. ASSUME NEW q \in Everyone PROVE Connecting(q)'
  <2>1. Connecting(q)
    BY DEF OwnerInv
  <2>2. CASE q = p
    BY <2>2 DEF Connecting, ReqEnds, ReqBecomes
  <2>3. CASE q # p
    <3>1. req[q].op = "connect" => req[q].port # a
      BY <1>0, <2>3 DEF Connects
    <3>2. req'[q] = req[q] /\ \A r \in Everyone : Connects(r, req[q].port)' => Connects(r, req[q].port)
      BY <2>3 DEF Connects, ReqEnds, ReqBecomes
    <3> QED
      BY <2>1, <2>3, <3>1, <3>2 DEF Connecting, LifeBecomes, Connects
  <2> QED
    BY <2>2, <2>3
<1>3. MadeOnce(g_callbacks')
  BY DEF Gives
<1> QED
  BY <1>1, <1>2, <1>3 DEF OwnerInv

(* The four ways to own a port exclude each other. *)
LEMMA OwnerStep == Inv /\ [Next]_vars => OwnerInv'
<1> SUFFICES ASSUME Inv, [Next]_vars PROVE OwnerInv'
  OBVIOUS
<1> USE PortsAssumption
<1>i. TypeOK /\ ShapeInv /\ PendingInv /\ MatchInv /\ OnceInv /\ OwnerInv /\ FileInv /\ LockInv /\ HandleInv /\ ClosedLast
  BY DEF Inv
<1> USE <1>i
<1>1. ASSUME UNCHANGED <<port, req, record, g_callbacks>> PROVE OwnerInv'
  BY <1>1, SameGives, OwnersStay DEF LivesSame, ConnectsSame
<1>2. CASE osi_get_callbacks
  <2>1. UNCHANGED <<g_callbacks, port, req, record>>
    BY <1>2 DEF osi_get_callbacks, ShapeInv
  <2>2. LivesSame /\ ConnectsSame /\ Gives(None)
    BY <2>1, SameGives DEF LivesSame, ConnectsSame
  <2> QED
    BY <2>1, <2>2, OwnersStay
<1>3. CASE run_callbacks
  <2>1. UNCHANGED <<port, req>> /\ g_callbacks' = <<>>
    BY <1>3 DEF run_callbacks
  <2>2. record' = record \cup {c.port : c \in {d \in Range(g_callbacks) : Makes(d)}}
    BY <1>3 DEF run_callbacks, Makes
  <2>3. ASSUME NEW a \in Ports PROVE (a \in record' <=> a \in record \/ Made(a)) /\ ~Made(a)'
    <3>1. a \in {c.port : c \in {d \in Range(g_callbacks) : Makes(d)}} <=> Made(a)
      BY DEF Made, MadeIn
    <3>2. ~Made(a)'
      BY <2>1 DEF Made, MadeIn, Range
    <3> QED
      BY <2>2, <3>1, <3>2
  <2>4. ASSUME NEW a \in Ports PROVE Owned(a)'
    <3>1. Owned(a)
      BY DEF OwnerInv
    <3> QED
      BY <2>1, <2>3, <3>1 DEF Owned, Connects
  <2>5. ASSUME NEW p \in Everyone PROVE Connecting(p)'
    <3>1. Connecting(p)
      BY DEF OwnerInv
    <3> QED
      BY <2>1, <3>1 DEF Connecting, Connects
  <2>6. MadeOnce(g_callbacks')
    BY <2>1 DEF MadeOnce
  <2> QED
    BY <2>4, <2>5, <2>6 DEF OwnerInv
<1>4. CASE process_exit_cb
  <2>1. LivesSame
    BY <1>4, ExitTold DEF LivesSame
  <2>2. ConnectsSame
    BY <1>4, ExitTold DEF ConnectsSame
  <2>3. Gives(None)
    BY <1>4, ExitTold, PushGives
  <2>4. record' = record
    BY <1>4, ExitTold DEF users
  <2> QED
    BY <2>1, <2>2, <2>3, <2>4, OwnersStay
<1>5. ASSUME NEW p \in Everyone, rw_fs_cb(p) PROVE OwnerInv'
  <2>1. LivesSame
    BY <1>5, RwDone DEF LivesSame
  <2>2. ConnectsSame
    BY <1>5, RwDone, ConnectEffects DEF ReqEnds
  <2>3. Gives(None)
    BY <1>5, RwDone, PushGives, Fields
  <2>4. record' = record
    BY <1>5, RwDone DEF users
  <2> QED
    BY <2>1, <2>2, <2>3, <2>4, OwnersStay
<1>6. ASSUME NEW p \in Everyone, return_fs_result_cb(p) PROVE OwnerInv'
  <2>1. LivesSame
    BY <1>6, PathDone DEF LivesSame
  <2>2. ConnectsSame
    BY <1>6, PathDone, ConnectEffects DEF ReqEnds
  <2>3. Gives(None)
    BY <1>6, PathDone, PushGives
  <2>4. record' = record
    BY <1>6, PathDone DEF users
  <2> QED
    BY <2>1, <2>2, <2>3, <2>4, OwnersStay
<1>7. ASSUME NEW p \in Everyone, open_fs_cb(p) PROVE OwnerInv'
  <2>1. ConnectsSame /\ record' = record
    BY <1>7, OpenDone, ConnectEffects DEF ReqEnds, users
  <2>2. CASE Pushed(Callback("open", p, None)) /\ UNCHANGED <<port, opened>>
    <3>1. LivesSame /\ Gives(None)
      BY <2>2, PushGives DEF LivesSame
    <3> QED
      BY <2>1, <3>1, OwnersStay
  <2>3. ASSUME NEW a \in Ports, port[a].kind = "none",
               PortBecomes(a, "file", "open", None, None, None, req[p].file, p),
               Pushed(Callback("open", p, a))
        PROVE  OwnerInv'
    <3>1. ~Made(a) /\ a # None
      BY <2>3 DEF OwnerInv, Owned
    <3>2. Gives(a) /\ LifeBecomes(a, "file", "open")
      BY <2>3, <3>1, PushGives, LifeEffects
    <3> QED
      BY <2>1, <2>3, <3>2, OwnersAdd
  <2> QED
    BY <1>7, <2>2, <2>3, OpenDone
<1>8. ASSUME NEW p \in Everyone, close_fs_cb(p) PROVE OwnerInv'
  <2>1. ConnectsSame /\ record' = record
    BY <1>8, CloseDone, ConnectEffects DEF ReqEnds, users
  <2>2. Gives(None)
    BY <1>8, CloseDone, PushGives, Fields
  <2>3. CASE req[p].port \in Ports
    <3> DEFINE a == req[p].port
    <3>1. port[a].st = "closing"
      BY <1>8, <2>3, CloseDone DEF FileInv, FileReq, Closer
    <3>2. ~Made(a) /\ a \notin record
      BY <2>3, <3>1 DEF OwnerInv, Owned
    <3>3. LifeBecomes(a, "none", "open")
      BY <1>8, <2>3, CloseDone, LifeEffects DEF PortFreed
    <3> HIDE DEF a
    <3>4. a \in Ports /\ record' = record \ {a}
      BY <2>1, <2>3, <3>2 DEF a
    <3> QED
      BY <2>1, <2>2, <3>1, <3>2, <3>3, <3>4, OwnersDrop
  <2>4. CASE req[p].port \notin Ports
    <3>1. LivesSame
      BY <1>8, <2>4, CloseDone DEF LivesSame
    <3> QED
      BY <2>1, <2>2, <3>1, OwnersStay
  <2> QED
    BY <2>3, <2>4
<1>9. ASSUME NEW p \in Everyone, connect_tcp_addrinfo_cb(p) PROVE OwnerInv'
  <2>1. req[p].op = "connect" /\ req[p].port \in Ports /\ record' = record
    BY <1>9, ConnectDone DEF users
  <2>2. CASE ConnectGoesOn(p)
    <3>1. ConnectsSame
      BY <2>1, <2>2, ConnectEffects DEF ConnectGoesOn
    <3>2. LivesSame /\ Gives(None)
      BY <2>2, SameGives DEF ConnectGoesOn, LivesSame
    <3> QED
      BY <2>1, <3>1, <3>2, OwnersStay
  <2>3. CASE ConnectEnds(p)
    <3> DEFINE a == req[p].port
    <3>1. PICK s \in {"closing", "open"} :
            /\ PortBecomes(a, port[a].kind, s, port[a].read, port[a].write, port[a].close,
                           port[a].file, port[a].proc)
            /\ Pushed(Callback("connect", p, IF s = "open" THEN a ELSE None))
      BY <2>3 DEF ConnectEnds
    <3>2. port[a].kind = "stream" /\ ~Made(a) /\ a # None
      BY <2>1 DEF OwnerInv, Connecting, Owned
    <3>3. LifeBecomes(a, "stream", s)
      BY <2>1, <3>1, <3>2, LifeEffects
    <3>4. s = "open" => Gives(a)
      BY <2>1, <3>1, <3>2, PushGives
    <3>5. s = "closing" => Gives(None)
      BY <3>1, PushGives
    <3>6. ReqEnds(p)
      BY <2>3 DEF ConnectEnds
    <3> QED
      BY <2>1, <3>3, <3>4, <3>5, <3>6, OwnersConnected
  <2> QED
    BY <1>9, <2>2, <2>3, ConnectDone
<1>10. ASSUME NEW p \in Everyone, connect_tcp_cb(p) PROVE OwnerInv'
  <2>1. req[p].op = "connect" /\ req[p].port \in Ports /\ record' = record
    BY <1>10, ConnectDone DEF users
  <2>2. CASE ConnectGoesOn(p)
    <3>1. ConnectsSame
      BY <2>1, <2>2, ConnectEffects DEF ConnectGoesOn
    <3>2. LivesSame /\ Gives(None)
      BY <2>2, SameGives DEF ConnectGoesOn, LivesSame
    <3> QED
      BY <2>1, <3>1, <3>2, OwnersStay
  <2>3. CASE ConnectEnds(p)
    <3> DEFINE a == req[p].port
    <3>1. PICK s \in {"closing", "open"} :
            /\ PortBecomes(a, port[a].kind, s, port[a].read, port[a].write, port[a].close,
                           port[a].file, port[a].proc)
            /\ Pushed(Callback("connect", p, IF s = "open" THEN a ELSE None))
      BY <2>3 DEF ConnectEnds
    <3>2. port[a].kind = "stream" /\ ~Made(a) /\ a # None
      BY <2>1 DEF OwnerInv, Connecting, Owned
    <3>3. LifeBecomes(a, "stream", s)
      BY <2>1, <3>1, <3>2, LifeEffects
    <3>4. s = "open" => Gives(a)
      BY <2>1, <3>1, <3>2, PushGives
    <3>5. s = "closing" => Gives(None)
      BY <3>1, PushGives
    <3>6. ReqEnds(p)
      BY <2>3 DEF ConnectEnds
    <3> QED
      BY <2>1, <3>3, <3>4, <3>5, <3>6, OwnersConnected
  <2> QED
    BY <1>10, <2>2, <2>3, ConnectDone
<1>11. ASSUME NEW a \in Ports, close_stream_cb(a) PROVE OwnerInv'
  <2>1. ConnectsSame /\ record' = record /\ port[a].st = "closing"
    BY <1>11, StreamClosed DEF ConnectsSame, users
  <2>2. PICK mid \in Seq(Calls) :
          /\ IF port[a].read = None THEN mid = g_callbacks
             ELSE PushedOn(g_callbacks, Callback("read", port[a].read, a), mid)
          /\ IF port[a].close = None THEN g_callbacks' = mid
             ELSE PushedOn(mid, Callback("close", port[a].close, a), g_callbacks')
    BY <1>11, StreamClosed
  <2>3. /\ ~Makes(Callback("read", port[a].read, a)) /\ ~Makes(Callback("close", port[a].close, a))
        /\ g_callbacks \in Seq(Calls) /\ MadeOnce(g_callbacks)
    BY DEF Makes, Callback, TypeOK, OwnerInv
  <2>4. MadeOnce(mid) /\ \A b : MadeIn(b, mid) <=> MadeIn(b, g_callbacks)
    BY <2>2, <2>3, PushMade
  <2>5. MadeOnce(g_callbacks') /\ \A b : MadeIn(b, g_callbacks') <=> MadeIn(b, mid)
    BY <2>2, <2>3, <2>4, PushMade
  <2>6. Gives(None)
    BY <2>4, <2>5 DEF Gives, Made
  <2>7. LifeBecomes(a, "none", "open")
    BY <1>11, StreamClosed, LifeEffects DEF PortFreed
  <2>8. ~Made(a) /\ record' = record \ {a}
    BY <2>1 DEF OwnerInv, Owned
  <2> QED
    BY <2>1, <2>6, <2>7, <2>8, OwnersDrop
<1>12. ASSUME NEW a \in Ports, read_stream_cb(a) PROVE OwnerInv'
  <2>1. LivesSame
    BY <1>12, ReadDone, LifeEffects
  <2>2. ConnectsSame
    BY <1>12, ReadDone DEF ConnectsSame
  <2>3. Gives(None)
    BY <1>12, ReadDone, PushGives
  <2>4. record' = record
    BY <1>12, ReadDone DEF users
  <2> QED
    BY <2>1, <2>2, <2>3, <2>4, OwnersStay
<1>13. ASSUME NEW a \in Ports, write_stream_cb(a) PROVE OwnerInv'
  <2>1. LivesSame
    BY <1>13, WriteDone, LifeEffects
  <2>2. ConnectsSame
    BY <1>13, WriteDone DEF ConnectsSame
  <2>3. Gives(None)
    BY <1>13, WriteDone, PushGives
  <2>4. record' = record
    BY <1>13, WriteDone DEF users
  <2> QED
    BY <2>1, <2>2, <2>3, <2>4, OwnersStay
<1>14. ASSUME NEW a \in Ports, listen_tcp_cb(a) PROVE OwnerInv'
  <2>1. ConnectsSame /\ record' = record /\ port[a].kind = "none"
    BY <1>14, Accepted DEF ConnectsSame, users
  <2>2. PICK s \in {"closing", "open"} :
          /\ PortBecomes(a, "stream", s, None, None, None, None, None)
          /\ Pushed(Callback("accept", None, IF s = "open" THEN a ELSE None))
    BY <1>14, Accepted
  <2>3. ~Made(a) /\ a \notin record /\ port[a].st = "open" /\ a # None
    BY <2>1 DEF OwnerInv, Owned, ShapeInv, Shaped
  <2>4. LifeBecomes(a, "stream", s)
    BY <2>2, LifeEffects
  <2>5. CASE s = "open"
    <3>1. Gives(a)
      BY <2>2, <2>3, <2>5, PushGives
    <3> QED
      BY <2>1, <2>4, <2>5, <3>1, OwnersAdd
  <2>6. CASE s = "closing"
    <3>1. Gives(None) /\ record' = record \ {a}
      BY <2>1, <2>2, <2>3, <2>6, PushGives
    <3> QED
      BY <2>1, <2>3, <2>4, <2>6, <3>1, OwnersDrop
  <2> QED
    BY <2>5, <2>6
<1>15. ASSUME NEW p \in Everyone, uv_fs_open(p) PROVE OwnerInv'
  <2>1. LivesSame
    BY <1>15, FileOpened DEF LivesSame
  <2>2. ConnectsSame
    BY <1>15, FileOpened, ConnectEffects
  <2>3. Gives(None)
    BY <1>15, FileOpened, SameGives
  <2>4. record' = record
    BY <1>15, FileOpened DEF users
  <2> QED
    BY <2>1, <2>2, <2>3, <2>4, OwnersStay
<1>16. ASSUME NEW p \in Everyone, uv_fs_close(p) PROVE OwnerInv'
  <2>1. LivesSame
    BY <1>16, FileClosed DEF LivesSame
  <2>2. ConnectsSame
    BY <1>16, FileClosed, ConnectEffects
  <2>3. Gives(None)
    BY <1>16, FileClosed, SameGives
  <2>4. record' = record
    BY <1>16, FileClosed DEF users
  <2> QED
    BY <2>1, <2>2, <2>3, <2>4, OwnersStay
<1>17. ASSUME NEW p \in Everyone, uv_other(p) PROVE OwnerInv'
  <2>1. LivesSame
    BY <1>17, OtherFinished DEF LivesSame
  <2>2. ConnectsSame
    BY <1>17, OtherFinished, ConnectEffects
  <2>3. Gives(None)
    BY <1>17, OtherFinished, SameGives
  <2>4. record' = record
    BY <1>17, OtherFinished DEF users
  <2> QED
    BY <2>1, <2>2, <2>3, <2>4, OwnersStay
<1>18. ASSUME NEW p \in Everyone, NEW o \in {"path", "open"}, fs_request(p, o) PROVE OwnerInv'
  <2>0. req[p].op # "connect"
    BY <1>18, PathAsked DEF CanCall, MayClose, PendingInv, Pending, Quiet
  <2>1. LivesSame
    BY <1>18, PathAsked DEF LivesSame
  <2>2. ConnectsSame
    BY <1>18, PathAsked, ConnectEffects, <2>0
  <2>3. Gives(None)
    BY <1>18, PathAsked, SameGives
  <2>4. record' = record
    BY <1>18, PathAsked
  <2> QED
    BY <2>1, <2>2, <2>3, <2>4, OwnersStay
<1>19. ASSUME NEW p \in Everyone, osi_open_fd(p) PROVE OwnerInv'
  <2>1. ConnectsSame /\ Gives(None)
    BY <1>19, FdOpened, SameGives DEF ConnectsSame
  <2>2. PICK a \in Ports : /\ port[a].kind = "none" /\ record' = record \cup {a}
                           /\ PortBecomes(a, "fd", "open", None, None, None, None, p)
    BY <1>19, FdOpened
  <2>3. LifeBecomes(a, "fd", "open")
    BY <2>2, LifeEffects
  <2> QED
    BY <2>1, <2>2, <2>3, OwnersAdd
<1>20. ASSUME NEW p \in Everyone, osi_connect_tcp(p) PROVE OwnerInv'
  <2>0. req[p].op # "connect"
    BY <1>20, ConnectAsked DEF CanCall, PendingInv, Pending, Quiet
  <2>1. record' = record /\ Gives(None)
    BY <1>20, ConnectAsked, SameGives
  <2>2. ASSUME NEW a \in Ports, port[a].kind = "none",
               PortBecomes(a, "stream", "connecting", None, None, None, None, None),
               ReqBecomes(p, "connect", a, None, FALSE)
        PROVE  OwnerInv'
    <3>1. LifeBecomes(a, "stream", "connecting")
      BY <2>2, LifeEffects
    <3> QED
      BY <2>0, <2>1, <2>2, <3>1, OwnersConnect
  <2>3. ASSUME NEW a \in Ports, port[a].kind = "none",
               PortBecomes(a, "stream", "closing", None, None, None, None, None), UNCHANGED req
        PROVE  OwnerInv'
    <3>1. LifeBecomes(a, "stream", "closing") /\ ConnectsSame
      BY <2>3, LifeEffects DEF ConnectsSame
    <3>2. ~Made(a) /\ record' = record \ {a} /\ port[a].st = "open"
      BY <2>1, <2>3 DEF OwnerInv, Owned, ShapeInv, Shaped
    <3> QED
      BY <2>1, <2>3, <3>1, <3>2, OwnersDrop
  <2> QED
    BY <1>20, <2>2, <2>3, ConnectAsked
<1>21. ASSUME NEW p \in Everyone, osi_spawn(p) PROVE OwnerInv'
  <2>1. UNCHANGED <<g_callbacks, req>>
    BY <1>21, Spawned
  <2>2. PICK S \in SUBSET Ports, s \in {"open", "closing"} :
          /\ \A a \in S : /\ port[a].kind = "none" /\ port'[a].kind = "stream"
                          /\ port'[a].st = s
          /\ \A a \in Ports \ S : port'[a] = port[a]
          /\ record' = IF s = "open" THEN record \cup S ELSE record
    BY <1>21, Spawned
  <2>3. ASSUME NEW a \in Ports PROVE Owned(a)'
    <3>1. Owned(a) /\ (Made(a)' <=> Made(a)) /\ \A q \in Everyone : Connects(q, a)' <=> Connects(q, a)
      BY <2>1 DEF OwnerInv, Made, Connects
    <3>2. CASE a \in S
      BY <2>2, <3>1, <3>2 DEF Owned
    <3>3. CASE a \notin S
      BY <2>2, <3>1, <3>3 DEF Owned
    <3> QED
      BY <3>2, <3>3
  <2>4. ASSUME NEW q \in Everyone PROVE Connecting(q)'
    <3>1. Connecting(q)
      BY DEF OwnerInv
    <3> QED
      BY <2>1, <2>2, <3>1 DEF Connecting, Connects
  <2>5. MadeOnce(g_callbacks')
    BY <2>1 DEF OwnerInv
  <2> QED
    BY <2>3, <2>4, <2>5 DEF OwnerInv
<1>22. ASSUME NEW p \in Everyone, NEW a \in Ports, rw_fs_port(p, a) PROVE OwnerInv'
  <2>0. req[p].op # "connect"
    BY <1>22, RwAsked DEF CanCall, MayClose, PendingInv, Pending, Quiet
  <2>1. LivesSame
    BY <1>22, RwAsked DEF LivesSame
  <2>2. ConnectsSame
    <3>1. ReqBecomes(p, "rw", a, port[a].file, FALSE)
      BY <1>22, RwAsked
    <3> QED
      BY <2>0, <3>1, ConnectEffects
  <2>3. Gives(None)
    BY <1>22, RwAsked, SameGives
  <2>4. record' = record
    BY <1>22, RwAsked
  <2> QED
    BY <2>1, <2>2, <2>3, <2>4, OwnersStay
<1>23. ASSUME NEW p \in Everyone, NEW a \in Ports, read_stream_port(p, a) PROVE OwnerInv'
  <2>1. LivesSame
    BY <1>23, ReadAsked, LifeEffects
  <2>2. ConnectsSame
    BY <1>23, ReadAsked DEF ConnectsSame
  <2>3. Gives(None)
    BY <1>23, ReadAsked, SameGives
  <2>4. record' = record
    BY <1>23, ReadAsked
  <2> QED
    BY <2>1, <2>2, <2>3, <2>4, OwnersStay
<1>24. ASSUME NEW p \in Everyone, NEW a \in Ports, write_stream_port(p, a) PROVE OwnerInv'
  <2>1. LivesSame
    BY <1>24, WriteAsked, LifeEffects
  <2>2. ConnectsSame
    BY <1>24, WriteAsked DEF ConnectsSame
  <2>3. Gives(None)
    BY <1>24, WriteAsked, SameGives
  <2>4. record' = record
    BY <1>24, WriteAsked
  <2> QED
    BY <2>1, <2>2, <2>3, <2>4, OwnersStay
<1>25. ASSUME NEW p \in Everyone, NEW a \in Ports, close_stream_port(p, a) PROVE OwnerInv'
  <2>0. req[p].op # "connect"
    BY <1>25, StreamCloseAsked DEF CanCall, MayClose, PendingInv, Pending, Quiet
  <2>1. ConnectsSame
    BY <1>25, <2>0, StreamCloseAsked DEF ConnectsSame
  <2>2. LifeBecomes(a, port[a].kind, "closing")
    BY <1>25, StreamCloseAsked, LifeEffects
  <2>3. a \in record /\ record' = record \ {a} /\ Gives(None)
    BY <1>25, StreamCloseAsked, SameGives DEF MayClose
  <2>4. ~Made(a) /\ port[a].st = "open"
    BY <2>3 DEF OwnerInv, Owned
  <2> QED
    BY <2>1, <2>2, <2>3, <2>4, OwnersDrop
<1>26. ASSUME NEW p \in Everyone, NEW a \in Ports, close_fs_port(p, a) PROVE OwnerInv'
  <2>0. req[p].op # "connect"
    BY <1>26, FileCloseAsked DEF CanCall, MayClose, PendingInv, Pending, Quiet
  <2>1. ConnectsSame
    BY <1>26, <2>0, FileCloseAsked, ConnectEffects
  <2>2. LifeBecomes(a, port[a].kind, "closing")
    BY <1>26, FileCloseAsked, LifeEffects
  <2>3. a \in record /\ record' = record \ {a} /\ Gives(None)
    BY <1>26, FileCloseAsked, SameGives DEF MayClose
  <2>4. ~Made(a) /\ port[a].st = "open"
    BY <2>3 DEF OwnerInv, Owned
  <2> QED
    BY <2>1, <2>2, <2>3, <2>4, OwnersDrop
<1>27. ASSUME NEW p \in Everyone, NEW a \in Ports, close_fd_port(p, a) PROVE OwnerInv'
  <2>0. req[p].op # "connect"
    BY <1>27, FdCloseAsked DEF CanCall, MayClose, PendingInv, Pending, Quiet
  <2>1. ConnectsSame
    BY <1>27, <2>0, FdCloseAsked, ConnectEffects
  <2>2. LifeBecomes(a, "none", "open")
    BY <1>27, FdCloseAsked, LifeEffects DEF PortFreed
  <2>3. a \in record /\ record' = record \ {a} /\ Gives(None)
    BY <1>27, FdCloseAsked, SameGives DEF MayClose
  <2>4. ~Made(a) /\ port[a].st = "open"
    BY <2>3 DEF OwnerInv, Owned
  <2> QED
    BY <2>1, <2>2, <2>3, <2>4, OwnersDrop
<1> QED
  BY <1>1, <1>2, <1>3, <1>4, <1>5, <1>6, <1>7, <1>8, <1>9, <1>10, <1>11, <1>12, <1>13, <1>14, <1>15, <1>16, <1>17, <1>18, <1>19, <1>20, <1>21, <1>22, <1>23, <1>24, <1>25, <1>26, <1>27 DEF Next, event_loop, uv_done, uv_closing, uv_event, uv_work, Everyone, vars, users,
    Kill, close_handle_data_cb, osi_close_tcp_listener, osi_listen_tcp

-----------------------------------------------------------------------------
(* Who has which descriptor. *)
FileSame(b) == /\ port'[b].kind = port[b].kind /\ port'[b].st = port[b].st
               /\ port'[b].file = port[b].file /\ port'[b].proc = port[b].proc
ReqSame(q) == /\ req'[q].op = req[q].op /\ req'[q].port = req[q].port
              /\ req'[q].file = req[q].file
              /\ req[q].op = "close" => req'[q].done = req[q].done
NotUsed(b) == \A q \in Everyone : req[q].op = "rw" => req[q].port # b

(* What an update does to the file of a port. *)
LEMMA FileEffects ==
  ASSUME NEW a \in Ports, NEW k, NEW s, NEW r, NEW w, NEW c, NEW f, NEW o,
         PortBecomes(a, k, s, r, w, c, f, o)
  PROVE  /\ port'[a].kind = k /\ port'[a].st = s /\ port'[a].file = f /\ port'[a].proc = o
         /\ \A b \in Ports \ {a} : FileSame(b)
BY DEF PortBecomes, FileSame

(* An update of a request leaves the others alone. *)
LEMMA ReqEffects ==
  ASSUME NEW p \in Everyone, NEW o, NEW a, NEW f, NEW d, ReqBecomes(p, o, a, f, d)
  PROVE  \A q \in Everyone \ {p} : ReqSame(q)
BY DEF ReqBecomes, ReqSame

(* The ports in C are no files, before and after; the request of a process  *)
(* stays as it is, or is a new one that is in order.                         *)
LEMMA FilesStay ==
  ASSUME TypeOK, FileInv, NEW C \in SUBSET Ports, opened' = opened,
         \A b \in Ports \ C : FileSame(b),
         \A b \in C : /\ port[b].kind # "file" /\ port[b].file = None /\ NotUsed(b)
                      /\ port'[b].kind # "file" /\ port'[b].file = None,
         \A q \in Everyone : req[q].op = "rw" => req[q].port \in record',
         \A q \in Everyone : ReqSame(q) \/ FileReq(q)'
  PROVE  FileInv'
<1> USE PortsAssumption
<1>1. ASSUME NEW f \in Fds, opened'[f] \in Ports PROVE port'[opened'[f]].file = f
  BY <1>1 DEF FileInv, FileSame
<1>2. ASSUME NEW a \in Ports, port'[a].kind = "file", port'[a].st = "open"
      PROVE  opened'[port'[a].file] = a
  BY <1>2 DEF FileInv, FileSame
<1>3. ASSUME NEW q \in Everyone, ReqSame(q) PROVE FileReq(q)'
  <2>0. FileReq(q)
    BY DEF FileInv
  <2>1. Opener(q)'
    BY <1>3, <2>0 DEF FileReq, Opener, ReqSame
  <2>2. User(q)'
    <3> SUFFICES ASSUME req[q].op = "rw" PROVE User(q)'
      BY <1>3 DEF ReqSame, User
    <3>1. /\ req[q].port \in record' /\ FileSame(req[q].port) /\ port[req[q].port].proc = q
          /\ port[req[q].port].kind \in {"file", "fd"} /\ req[q].file = port[req[q].port].file
      <4>1. req[q].port \in Ports
        BY <2>0 DEF FileReq, User, TypeOK
      <4> QED
        BY <2>0, <4>1 DEF FileReq, User, NotUsed
    <3> QED
      BY <1>3, <3>1 DEF User, ReqSame, FileSame
  <2>3. Closer(q)'
    <3> SUFFICES ASSUME req[q].op = "close", ~(req[q].port = None /\ req[q].done) PROVE Closer(q)'
      BY <1>3 DEF ReqSame, Closer
    <3>1. /\ req[q].port \in Ports
          /\ port[req[q].port].kind = "file" /\ port[req[q].port].st = "closing"
          /\ \A r \in Everyone : req[r].op = "close" /\ req[r].port = req[q].port => r = q
          /\ IF req[q].done THEN \A f \in Fds : opened[f] # req[q].port
             ELSE /\ req[q].file = port[req[q].port].file
                  /\ opened[req[q].file] = req[q].port
      BY <2>0 DEF FileReq, Closer
    <3>2. FileSame(req[q].port)
      BY <3>1
    <3>3. ASSUME NEW r \in Everyone, req'[r].op = "close", req'[r].port = req'[q].port
          PROVE  r = q
      <4>1. CASE ReqSame(r)
        BY <1>3, <3>1, <3>3, <4>1 DEF ReqSame
      <4>2. CASE FileReq(r)'
        BY <1>3, <3>1, <3>3, <4>2 DEF ReqSame, FileReq, Closer
      <4> QED
        BY <4>1, <4>2
    <3> QED
      BY <1>3, <3>1, <3>2, <3>3 DEF Closer, ReqSame, FileSame
  <2>4. req'[q].op \notin {"rw", "close", "connect"} => req'[q].port = None
    BY <1>3, <2>0 DEF FileReq, ReqSame
  <2> QED
    BY <2>1, <2>2, <2>3, <2>4 DEF FileReq
<1> QED
  BY <1>1, <1>2, <1>3 DEF FileInv

(* A request that has no descriptor. *)
LEMMA NoFile ==
  ASSUME NEW p \in Everyone, NEW o, o \notin {"rw", "close", "connect"},
         ReqBecomes(p, o, None, None, FALSE)
  PROVE  FileReq(p)'
BY DEF ReqBecomes, FileReq, Opener, User, Closer

(* The files are right when no port and no descriptor has changed. *)
LEMMA FilesSame ==
  ASSUME TypeOK, FileInv, opened' = opened, \A b \in Ports : FileSame(b),
         \A q \in Everyone : req[q].op = "rw" => req[q].port \in record',
         \A q \in Everyone : ReqSame(q) \/ FileReq(q)'
  PROVE  FileInv'
<1> DEFINE C == {}
<1>1. C \in SUBSET Ports /\ (\A b \in Ports \ C : FileSame(b))
  OBVIOUS
<1>2. \A b \in C : /\ port[b].kind # "file" /\ port[b].file = None /\ NotUsed(b)
                   /\ port'[b].kind # "file" /\ port'[b].file = None
  OBVIOUS
<1> HIDE DEF C
<1> QED
  BY <1>1, <1>2, FilesStay

(* The files are right when a port without a file has changed. *)
LEMMA FilesChange ==
  ASSUME TypeOK, FileInv, opened' = opened, NEW a \in Ports, \A b \in Ports \ {a} : FileSame(b),
         port[a].kind # "file", port[a].file = None, NotUsed(a),
         port'[a].kind # "file", port'[a].file = None,
         \A q \in Everyone : req[q].op = "rw" => req[q].port \in record',
         \A q \in Everyone : ReqSame(q) \/ FileReq(q)'
  PROVE  FileInv'
<1> DEFINE C == {a}
<1>1. C \in SUBSET Ports /\ (\A b \in Ports \ C : FileSame(b))
  OBVIOUS
<1>2. \A b \in C : /\ port[b].kind # "file" /\ port[b].file = None /\ NotUsed(b)
                   /\ port'[b].kind # "file" /\ port'[b].file = None
  OBVIOUS
<1> HIDE DEF C
<1> QED
  BY <1>1, <1>2, FilesStay

(* A port that no record has is not used, nor is one that is no file. *)
LEMMA UsedPorts ==
  ASSUME Inv, NEW a \in Ports
  PROVE  /\ a \notin record => NotUsed(a)
         /\ port[a].kind \in {"none", "stream"} => NotUsed(a)
         /\ port[a].kind # "file" => port[a].file = None
         /\ port[a].kind = "none" => a \notin record
BY DEF Inv, FileInv, FileReq, User, NotUsed, ShapeInv, Shaped, OwnerInv, Owned

(* Who has which descriptor. *)
LEMMA FileStep == Inv /\ [Next]_vars => FileInv'
<1> SUFFICES ASSUME Inv, [Next]_vars PROVE FileInv'
  OBVIOUS
<1> USE PortsAssumption
<1>i. TypeOK /\ ShapeInv /\ PendingInv /\ MatchInv /\ OnceInv /\ OwnerInv /\ FileInv /\ LockInv /\ HandleInv /\ ClosedLast
  BY DEF Inv
<1> USE <1>i
<1>1. ASSUME UNCHANGED <<port, req, record, opened>> PROVE FileInv'
  BY <1>1 DEF FileInv, FileReq, Opener, User, Closer
<1>2. CASE osi_get_callbacks
  BY <1>2 DEF osi_get_callbacks, FileInv, FileReq, Opener, User, Closer
<1>3. CASE run_callbacks
  <2>1. UNCHANGED <<port, req, opened>> /\ record \subseteq record'
    BY <1>3 DEF run_callbacks
  <2>2. (\A b \in Ports : FileSame(b)) /\ (\A q \in Everyone : ReqSame(q))
    BY <2>1 DEF FileSame, ReqSame
  <2>3. \A q \in Everyone : req[q].op = "rw" => req[q].port \in record'
    BY <2>1 DEF FileInv, FileReq, User
  <2> QED
    BY <2>1, <2>2, <2>3, FilesSame
<1>4. CASE process_exit_cb
  <2>1. opened' = opened /\ record' = record
    BY <1>4, ExitTold DEF users
  <2>2. \A b \in Ports : FileSame(b)
    BY <1>4, ExitTold DEF FileSame
  <2>3. \A q \in Everyone : ReqSame(q) \/ FileReq(q)'
    BY <1>4, ExitTold DEF ReqSame
  <2>4. \A q \in Everyone : req[q].op = "rw" => req[q].port \in record'
    BY <2>1 DEF FileInv, FileReq, User
  <2> QED
    BY <2>1, <2>2, <2>3, <2>4, FilesSame
<1>5. ASSUME NEW p \in Everyone, rw_fs_cb(p) PROVE FileInv'
  <2>1. opened' = opened /\ record' = record
    BY <1>5, RwDone DEF users
  <2>2. \A b \in Ports : FileSame(b)
    BY <1>5, RwDone DEF FileSame
  <2>3. \A q \in Everyone : ReqSame(q) \/ FileReq(q)'
    <3>1. FileReq(p)'
      BY <1>5, RwDone, NoFile DEF ReqEnds
    <3>2. \A q \in Everyone \ {p} : ReqSame(q)
      BY <1>5, RwDone, ReqEffects DEF ReqEnds
    <3> QED
      BY <3>1, <3>2
  <2>4. \A q \in Everyone : req[q].op = "rw" => req[q].port \in record'
    BY <2>1 DEF FileInv, FileReq, User
  <2> QED
    BY <2>1, <2>2, <2>3, <2>4, FilesSame
<1>6. ASSUME NEW p \in Everyone, return_fs_result_cb(p) PROVE FileInv'
  <2>1. opened' = opened /\ record' = record
    BY <1>6, PathDone DEF users
  <2>2. \A b \in Ports : FileSame(b)
    BY <1>6, PathDone DEF FileSame
  <2>3. \A q \in Everyone : ReqSame(q) \/ FileReq(q)'
    <3>1. FileReq(p)'
      BY <1>6, PathDone, NoFile DEF ReqEnds
    <3>2. \A q \in Everyone \ {p} : ReqSame(q)
      BY <1>6, PathDone, ReqEffects DEF ReqEnds
    <3> QED
      BY <3>1, <3>2
  <2>4. \A q \in Everyone : req[q].op = "rw" => req[q].port \in record'
    BY <2>1 DEF FileInv, FileReq, User
  <2> QED
    BY <2>1, <2>2, <2>3, <2>4, FilesSame
<1>7. ASSUME NEW p \in Everyone, open_fs_cb(p) PROVE FileInv'
  <2>0. req[p].op = "open" /\ record' = record /\ ReqEnds(p)
    BY <1>7, OpenDone DEF users
  <2>a. FileReq(p)' /\ \A q \in Everyone \ {p} : ReqSame(q)
    BY <2>0, NoFile, ReqEffects DEF ReqEnds
  <2>1. CASE UNCHANGED <<port, opened>>
    <3>1. \A b \in Ports : FileSame(b)
      BY <2>1 DEF FileSame
    <3>2. \A q \in Everyone : req[q].op = "rw" => req[q].port \in record'
      BY <2>0 DEF FileInv, FileReq, User
    <3> QED
      BY <2>1, <2>a, <3>1, <3>2, FilesSame
  <2>2. ASSUME NEW a \in Ports, port[a].kind = "none", req[p].file \in Fds,
               PortBecomes(a, "file", "open", None, None, None, req[p].file, p),
               opened' = [opened EXCEPT ![req[p].file] = a]
        PROVE  FileInv'
    <3> DEFINE f == req[p].file
    <3>0. /\ opened[f] = p /\ p # None /\ p \notin Ports /\ f \in Fds /\ f # None
          /\ port[a].file = None /\ NotUsed(a)
      BY <2>0, <2>2, UsedPorts DEF FileInv, FileReq, Opener, Everyone
    <3>1. opened'[f] = a /\ \A g \in Fds : g # f => opened'[g] = opened[g]
      BY <2>2 DEF TypeOK
    <3>2. /\ port'[a].kind = "file" /\ port'[a].st = "open" /\ port'[a].file = f
          /\ \A b \in Ports : b # a => port'[b] = port[b]
      BY <2>2 DEF PortBecomes
    <3>z. \A q \in Everyone : q # p => req'[q] = req[q]
      BY <2>0 DEF ReqEnds, ReqBecomes
    <3>r. req'[p].op = None
      BY <2>0 DEF ReqEnds, ReqBecomes
    <3> HIDE DEF f
    <3>3. ASSUME NEW g \in Fds, opened'[g] \in Ports PROVE port'[opened'[g]].file = g
      BY <3>0, <3>1, <3>2, <3>3 DEF FileInv
    <3>4. ASSUME NEW b \in Ports, port'[b].kind = "file", port'[b].st = "open"
          PROVE  opened'[port'[b].file] = b
      <4>1. CASE b = a
        BY <3>1, <3>2, <4>1
      <4>2. CASE b # a
        <5>1. opened[port[b].file] = b /\ port[b].file \in Fds
          BY <3>2, <3>4, <4>2, Fields DEF FileInv, ShapeInv, Shaped
        <5> QED
          BY <3>0, <3>1, <3>2, <4>2, <5>1
      <4> QED
        BY <4>1, <4>2
    <3>5. ASSUME NEW q \in Everyone, q # p PROVE FileReq(q)'
      <4>0. FileReq(q) /\ req'[q] = req[q] /\ q # None /\ q \notin Ports
        BY <3>z, <3>5 DEF FileInv, Everyone
      <4>1. Opener(q)'
        <5>1. req[q].op = "open" /\ req[q].file # None =>
                req[q].file \in Fds /\ req[q].file # f
          BY <3>0, <3>5, <4>0, Fields DEF FileReq, Opener
        <5> QED
          BY <3>1, <4>0, <5>1 DEF FileReq, Opener
      <4>2. User(q)'
        <5> SUFFICES ASSUME req[q].op = "rw" PROVE User(q)'
          BY <4>0 DEF User
        <5>1. req[q].port \in Ports /\ req[q].port # a
          BY <3>0, <4>0 DEF FileReq, User, TypeOK, NotUsed
        <5> QED
          BY <2>0, <3>2, <4>0, <5>1 DEF FileReq, User
      <4>3. Closer(q)'
        <5> SUFFICES ASSUME req[q].op = "close", ~(req[q].port = None /\ req[q].done)
                     PROVE  Closer(q)'
          BY <4>0 DEF Closer
        <5>1. /\ req[q].port \in Ports /\ req[q].port # None
              /\ port[req[q].port].kind = "file" /\ port[req[q].port].st = "closing"
              /\ \A r \in Everyone : req[r].op = "close" /\ req[r].port = req[q].port => r = q
              /\ IF req[q].done THEN \A g \in Fds : opened[g] # req[q].port
                 ELSE /\ req[q].file = port[req[q].port].file
                      /\ opened[req[q].file] = req[q].port
          BY <4>0 DEF FileReq, Closer
        <5>2. \A r \in Everyone : req'[r].op = "close" /\ req'[r].port = req[q].port => r = q
          <6>1. ASSUME NEW r \in Everyone, req'[r].op = "close" PROVE req'[r] = req[r]
            BY <3>z, <3>r, <6>1
          <6> QED
            BY <5>1, <6>1
        <5>3. req[q].port # a
          BY <2>2, <5>1
        <5>4. req[q].done => \A g \in Fds : opened'[g] # req[q].port
          BY <3>1, <5>1, <5>3
        <5>5. ~req[q].done => opened'[req[q].file] = req[q].port
          BY <3>0, <3>1, <5>1, <5>3, Fields DEF ShapeInv, Shaped
        <5> QED
          BY <3>2, <4>0, <5>1, <5>2, <5>3, <5>4, <5>5 DEF Closer
      <4> QED
        BY <4>0, <4>1, <4>2, <4>3 DEF FileReq
    <3> QED
      BY <2>a, <3>3, <3>4, <3>5 DEF FileInv
  <2> QED
    BY <1>7, <2>1, <2>2, OpenDone
<1>8. ASSUME NEW p \in Everyone, close_fs_cb(p) PROVE FileInv'
  <2>0. /\ req[p].op = "close" /\ req[p].done /\ record' = record /\ opened' = opened
        /\ ReqEnds(p)
    BY <1>8, CloseDone DEF users
  <2>a. FileReq(p)' /\ \A q \in Everyone \ {p} : ReqSame(q)
    BY <2>0, NoFile, ReqEffects DEF ReqEnds
  <2>1. CASE req[p].port \notin Ports
    <3>1. \A b \in Ports : FileSame(b)
      BY <1>8, <2>1, CloseDone DEF FileSame
    <3>2. \A q \in Everyone : req[q].op = "rw" => req[q].port \in record'
      BY <2>0 DEF FileInv, FileReq, User
    <3> QED
      BY <2>0, <2>a, <3>1, <3>2, FilesSame
  <2>2. CASE req[p].port \in Ports
    <3> DEFINE a == req[p].port
    <3>0. /\ port[a].kind = "file" /\ port[a].st = "closing"
          /\ \A q \in Everyone : req[q].op = "close" /\ req[q].port = a => q = p
          /\ \A f \in Fds : opened[f] # a
      BY <2>0, <2>2 DEF FileInv, FileReq, Closer
    <3>1. a \notin record
      BY <2>2, <3>0 DEF OwnerInv, Owned
    <3>2. PortFreed(a)
      BY <1>8, <2>2, CloseDone
    <3>z. \A q \in Everyone : q # p => req'[q] = req[q]
      BY <2>0 DEF ReqEnds, ReqBecomes
    <3>r. req'[p].op = None
      BY <2>0 DEF ReqEnds, ReqBecomes
    <3>p. port'[a].kind = "none" /\ \A b \in Ports : b # a => port'[b] = port[b]
      BY <3>2 DEF PortFreed, PortBecomes
    <3>q. a \in Ports
      BY <2>2
    <3> HIDE DEF a
    <3>3. ASSUME NEW g \in Fds, opened'[g] \in Ports PROVE port'[opened'[g]].file = g
      BY <2>0, <3>0, <3>3, <3>p DEF FileInv
    <3>4. ASSUME NEW b \in Ports, port'[b].kind = "file", port'[b].st = "open"
          PROVE  opened'[port'[b].file] = b
      BY <2>0, <3>4, <3>p DEF FileInv
    <3>5. ASSUME NEW q \in Everyone, q # p PROVE FileReq(q)'
      <4>0. FileReq(q) /\ req'[q] = req[q]
        BY <3>z, <3>5 DEF FileInv
      <4>1. Opener(q)'
        BY <2>0, <4>0 DEF FileReq, Opener
      <4>2. User(q)'
        <5> SUFFICES ASSUME req[q].op = "rw" PROVE User(q)'
          BY <4>0 DEF User
        <5>1. req[q].port \in Ports /\ req[q].port # a
          BY <3>1, <4>0 DEF FileReq, User, TypeOK
        <5> QED
          BY <2>0, <3>p, <4>0, <5>1 DEF FileReq, User
      <4>3. Closer(q)'
        <5> SUFFICES ASSUME req[q].op = "close", ~(req[q].port = None /\ req[q].done)
                     PROVE  Closer(q)'
          BY <4>0 DEF Closer
        <5>1. /\ req[q].port \in Ports 
              /\ port[req[q].port].kind = "file" /\ port[req[q].port].st = "closing"
              /\ \A r \in Everyone : req[r].op = "close" /\ req[r].port = req[q].port => r = q
              /\ IF req[q].done THEN \A g \in Fds : opened[g] # req[q].port
                 ELSE /\ req[q].file = port[req[q].port].file
                      /\ opened[req[q].file] = req[q].port
          BY <4>0 DEF FileReq, Closer
        <5>2. \A r \in Everyone : req'[r].op = "close" /\ req'[r].port = req[q].port => r = q
          <6>1. ASSUME NEW r \in Everyone, req'[r].op = "close" PROVE req'[r] = req[r]
            BY <3>z, <3>r, <6>1
          <6> QED
            BY <5>1, <6>1
        <5>3. req[q].port # a
          BY <3>0, <3>5
        <5> QED
          BY <2>0, <3>p, <4>0, <5>1, <5>2, <5>3 DEF Closer
      <4> QED
        BY <4>0, <4>1, <4>2, <4>3 DEF FileReq
    <3> QED
      BY <2>a, <3>3, <3>4, <3>5 DEF FileInv
  <2> QED
    BY <2>1, <2>2
<1>9. ASSUME NEW p \in Everyone, connect_tcp_addrinfo_cb(p) PROVE FileInv'
  <2>1. req[p].op = "connect" /\ req[p].port \in Ports /\ record' = record /\ opened' = opened
    BY <1>9, ConnectDone DEF users
  <2>2. \A q \in Everyone : req[q].op = "rw" => req[q].port \in record'
    BY <2>1 DEF FileInv, FileReq, User
  <2>3. CASE ConnectGoesOn(p)
    <3>1. \A b \in Ports : FileSame(b)
      BY <2>3 DEF ConnectGoesOn, FileSame
    <3>2. \A q \in Everyone : ReqSame(q)
      BY <2>1, <2>3 DEF ConnectGoesOn, ReqBecomes, ReqSame
    <3> QED
      BY <2>1, <2>2, <3>1, <3>2, FilesSame
  <2>4. CASE ConnectEnds(p)
    <3> DEFINE a == req[p].port
    <3>1. PICK s \in {"closing", "open"} :
            PortBecomes(a, port[a].kind, s, port[a].read, port[a].write, port[a].close,
                        port[a].file, port[a].proc)
      BY <2>4 DEF ConnectEnds
    <3>2. port[a].kind = "stream"
      BY <2>1 DEF OwnerInv, Connecting
    <3>3. /\ \A b \in Ports \ {a} : FileSame(b)
          /\ port'[a].kind # "file" /\ port'[a].file = None /\ port[a].file = None /\ NotUsed(a)
      BY <2>1, <3>1, <3>2, FileEffects, UsedPorts
    <3>4. FileReq(p)' /\ \A q \in Everyone \ {p} : ReqSame(q)
      BY <2>4, NoFile, ReqEffects DEF ConnectEnds, ReqEnds
    <3> HIDE DEF a
    <3>5. a \in Ports
      BY <2>1 DEF a
    <3> QED
      BY <2>1, <2>2, <3>2, <3>3, <3>4, <3>5, FilesChange
  <2> QED
    BY <1>9, <2>3, <2>4, ConnectDone
<1>10. ASSUME NEW p \in Everyone, connect_tcp_cb(p) PROVE FileInv'
  <2>1. req[p].op = "connect" /\ req[p].port \in Ports /\ record' = record /\ opened' = opened
    BY <1>10, ConnectDone DEF users
  <2>2. \A q \in Everyone : req[q].op = "rw" => req[q].port \in record'
    BY <2>1 DEF FileInv, FileReq, User
  <2>3. CASE ConnectGoesOn(p)
    <3>1. \A b \in Ports : FileSame(b)
      BY <2>3 DEF ConnectGoesOn, FileSame
    <3>2. \A q \in Everyone : ReqSame(q)
      BY <2>1, <2>3 DEF ConnectGoesOn, ReqBecomes, ReqSame
    <3> QED
      BY <2>1, <2>2, <3>1, <3>2, FilesSame
  <2>4. CASE ConnectEnds(p)
    <3> DEFINE a == req[p].port
    <3>1. PICK s \in {"closing", "open"} :
            PortBecomes(a, port[a].kind, s, port[a].read, port[a].write, port[a].close,
                        port[a].file, port[a].proc)
      BY <2>4 DEF ConnectEnds
    <3>2. port[a].kind = "stream"
      BY <2>1 DEF OwnerInv, Connecting
    <3>3. /\ \A b \in Ports \ {a} : FileSame(b)
          /\ port'[a].kind # "file" /\ port'[a].file = None /\ port[a].file = None /\ NotUsed(a)
      BY <2>1, <3>1, <3>2, FileEffects, UsedPorts
    <3>4. FileReq(p)' /\ \A q \in Everyone \ {p} : ReqSame(q)
      BY <2>4, NoFile, ReqEffects DEF ConnectEnds, ReqEnds
    <3> HIDE DEF a
    <3>5. a \in Ports
      BY <2>1 DEF a
    <3> QED
      BY <2>1, <2>2, <3>2, <3>3, <3>4, <3>5, FilesChange
  <2> QED
    BY <1>10, <2>3, <2>4, ConnectDone
<1>11. ASSUME NEW a \in Ports, close_stream_cb(a) PROVE FileInv'
  <2>1. opened' = opened /\ port[a].kind # "file" /\ port[a].file = None /\ NotUsed(a)
    BY <1>11, StreamClosed, UsedPorts
  <2>2. /\ \A b \in Ports \ {a} : FileSame(b)
        /\ port'[a].kind # "file" /\ port'[a].file = None
    BY <1>11, <2>1, StreamClosed, FileEffects DEF PortFreed
  <2>3. \A q \in Everyone : ReqSame(q) \/ FileReq(q)'
    BY <1>11, StreamClosed DEF ReqSame
  <2>4. \A q \in Everyone : req[q].op = "rw" => req[q].port \in record'
    <3>1. record' = record
      BY <1>11, StreamClosed DEF users
    <3> QED
      BY <3>1 DEF FileInv, FileReq, User
  <2> QED
    BY <2>1, <2>2, <2>3, <2>4, FilesChange
<1>12. ASSUME NEW a \in Ports, read_stream_cb(a) PROVE FileInv'
  <2>1. opened' = opened /\ record' = record
    BY <1>12, ReadDone DEF users
  <2>2. \A b \in Ports : FileSame(b)
    BY <1>12, ReadDone, FileEffects DEF FileSame
  <2>3. \A q \in Everyone : ReqSame(q) \/ FileReq(q)'
    BY <1>12, ReadDone DEF ReqSame
  <2>4. \A q \in Everyone : req[q].op = "rw" => req[q].port \in record'
    BY <2>1 DEF FileInv, FileReq, User
  <2> QED
    BY <2>1, <2>2, <2>3, <2>4, FilesSame
<1>13. ASSUME NEW a \in Ports, write_stream_cb(a) PROVE FileInv'
  <2>1. opened' = opened /\ record' = record
    BY <1>13, WriteDone DEF users
  <2>2. \A b \in Ports : FileSame(b)
    BY <1>13, WriteDone, FileEffects DEF FileSame
  <2>3. \A q \in Everyone : ReqSame(q) \/ FileReq(q)'
    BY <1>13, WriteDone DEF ReqSame
  <2>4. \A q \in Everyone : req[q].op = "rw" => req[q].port \in record'
    BY <2>1 DEF FileInv, FileReq, User
  <2> QED
    BY <2>1, <2>2, <2>3, <2>4, FilesSame
<1>14. ASSUME NEW a \in Ports, listen_tcp_cb(a) PROVE FileInv'
  <2>1. opened' = opened /\ port[a].kind # "file" /\ port[a].file = None /\ NotUsed(a)
    BY <1>14, Accepted, UsedPorts
  <2>2. /\ \A b \in Ports \ {a} : FileSame(b)
        /\ port'[a].kind # "file" /\ port'[a].file = None
    BY <1>14, <2>1, Accepted, FileEffects
  <2>3. \A q \in Everyone : ReqSame(q) \/ FileReq(q)'
    BY <1>14, Accepted DEF ReqSame
  <2>4. \A q \in Everyone : req[q].op = "rw" => req[q].port \in record'
    <3>1. record' = record
      BY <1>14, Accepted DEF users
    <3> QED
      BY <3>1 DEF FileInv, FileReq, User
  <2> QED
    BY <2>1, <2>2, <2>3, <2>4, FilesChange
<1>15. ASSUME NEW p \in Everyone, uv_fs_open(p) PROVE FileInv'
  <2>0. req[p].op = "open" /\ UNCHANGED <<port, record>>
    BY <1>15, FileOpened DEF users
  <2>1. CASE ReqBecomes(p, "open", req[p].port, req[p].file, TRUE) /\ UNCHANGED opened
    <3>1. (\A b \in Ports : FileSame(b)) /\ (\A q \in Everyone : ReqSame(q))
      BY <2>0, <2>1 DEF FileSame, ReqSame, ReqBecomes
    <3>2. \A q \in Everyone : req[q].op = "rw" => req[q].port \in record'
      BY <2>0 DEF FileInv, FileReq, User
    <3> QED
      BY <2>1, <3>1, <3>2, FilesSame
  <2>2. ASSUME NEW f \in Fds, opened[f] = None, opened' = [opened EXCEPT ![f] = p],
               ReqBecomes(p, "open", req[p].port, f, TRUE)
        PROVE  FileInv'
    <3>1. /\ opened'[f] = p /\ p \notin Ports /\ p # None
          /\ \A g \in Fds : g # f => opened'[g] = opened[g]
      BY <2>2 DEF TypeOK, Everyone
    <3>2. ASSUME NEW g \in Fds, opened'[g] \in Ports PROVE port'[opened'[g]].file = g
      BY <2>0, <3>1, <3>2 DEF FileInv
    <3>3. ASSUME NEW a \in Ports, port'[a].kind = "file", port'[a].st = "open"
          PROVE  opened'[port'[a].file] = a
      <4>1. opened[port[a].file] = a /\ port[a].file \in Fds /\ a # None
        BY <2>0, <3>3, Fields DEF FileInv, ShapeInv, Shaped
      <4> QED
        BY <2>0, <2>2, <3>1, <4>1
    <3>4. FileReq(p)'
      <4>1. req[p].port = None
        BY <2>0 DEF FileInv, FileReq
      <4> QED
        BY <2>2, <3>1, <4>1 DEF ReqBecomes, FileReq, Opener, User, Closer
    <3>5. ASSUME NEW q \in Everyone, q # p PROVE FileReq(q)'
      <4>0. FileReq(q) /\ req'[q] = req[q] /\ q # None
        BY <2>2, <3>5 DEF FileInv, ReqBecomes, Everyone
      <4>1. Opener(q)'
        <5>1. req[q].op = "open" /\ req[q].file # None =>
                req[q].file \in Fds /\ req[q].file # f
          BY <2>2, <4>0, Fields DEF FileReq, Opener
        <5> QED
          BY <3>1, <4>0, <5>1 DEF FileReq, Opener
      <4>2. User(q)'
        BY <2>0, <4>0 DEF FileReq, User
      <4>3. Closer(q)'
        <5> SUFFICES ASSUME req[q].op = "close", ~(req[q].port = None /\ req[q].done)
                     PROVE  Closer(q)'
          BY <4>0 DEF Closer
        <5>1. /\ req[q].port \in Ports /\ req[q].port # None
              /\ port[req[q].port].kind = "file" /\ port[req[q].port].st = "closing"
              /\ \A r \in Everyone : req[r].op = "close" /\ req[r].port = req[q].port => r = q
              /\ IF req[q].done THEN \A g \in Fds : opened[g] # req[q].port
                 ELSE /\ req[q].file = port[req[q].port].file
                      /\ opened[req[q].file] = req[q].port
          BY <4>0 DEF FileReq, Closer
        <5>2. \A r \in Everyone : req'[r].op = "close" /\ req'[r].port = req[q].port => r = q
          BY <2>2, <5>1 DEF ReqBecomes
        <5>3. req[q].done => \A g \in Fds : opened'[g] # req[q].port
          BY <3>1, <5>1
        <5>4. ~req[q].done => opened'[req[q].file] = req[q].port
          BY <2>2, <3>1, <5>1, Fields DEF ShapeInv, Shaped
        <5> QED
          BY <2>0, <4>0, <5>1, <5>2, <5>3, <5>4 DEF Closer
      <4> QED
        BY <4>0, <4>1, <4>2, <4>3 DEF FileReq
    <3> QED
      BY <3>2, <3>3, <3>4, <3>5 DEF FileInv
  <2> QED
    BY <1>15, <2>1, <2>2, FileOpened
<1>16. ASSUME NEW p \in Everyone, uv_fs_close(p) PROVE FileInv'
  <2> DEFINE a == req[p].port
             f == req[p].file
  <2>0. /\ req[p].op = "close" /\ ~req[p].done /\ UNCHANGED <<port, record>>
        /\ opened' = [opened EXCEPT ![f] = None] /\ ReqBecomes(p, "close", a, None, TRUE)
    BY <1>16, FileClosed DEF users
  <2>1. /\ a \in Ports /\ port[a].kind = "file" /\ port[a].st = "closing"
        /\ \A q \in Everyone : req[q].op = "close" /\ req[q].port = a => q = p
        /\ f = port[a].file /\ opened[f] = a
    BY <2>0 DEF FileInv, FileReq, Closer
  <2>2. f \in Fds
    BY <2>1, Fields DEF ShapeInv, Shaped
  <2> HIDE DEF a, f
  <2>3. opened'[f] = None /\ \A g \in Fds : g # f => opened'[g] = opened[g]
    BY <2>0, <2>2 DEF TypeOK
  <2>4. ASSUME NEW g \in Fds, opened'[g] \in Ports PROVE port'[opened'[g]].file = g
    BY <2>0, <2>3, <2>4 DEF FileInv
  <2>5. ASSUME NEW b \in Ports, port'[b].kind = "file", port'[b].st = "open"
        PROVE  opened'[port'[b].file] = b
    <3>1. opened[port[b].file] = b /\ port[b].file \in Fds /\ b # a
      BY <2>0, <2>1, <2>5, Fields DEF FileInv, ShapeInv, Shaped
    <3> QED
      BY <2>0, <2>1, <2>3, <3>1
  <2>6. FileReq(p)'
    <3>1. \A g \in Fds : opened'[g] # a
      BY <2>1, <2>2, <2>3 DEF FileInv
    <3>2. /\ req'[p].op = "close" /\ req'[p].port = a /\ req'[p].done
          /\ \A q \in Everyone : req'[q].op = "close" /\ req'[q].port = a => q = p
      BY <2>0, <2>1 DEF ReqBecomes
    <3> QED
      BY <2>0, <2>1, <3>1, <3>2 DEF FileReq, Opener, User, Closer
  <2>7. ASSUME NEW q \in Everyone, q # p PROVE FileReq(q)'
      <4>0. FileReq(q) /\ req'[q] = req[q] /\ q # None /\ q \notin Ports
        BY <2>0, <2>7 DEF FileInv, ReqBecomes, Everyone
      <4>1. Opener(q)'
        <5>1. req[q].op = "open" /\ req[q].file # None =>
                req[q].file \in Fds /\ req[q].file # f
          BY <2>1, <4>0, Fields DEF FileReq, Opener
        <5> QED
          BY <2>3, <4>0, <5>1 DEF FileReq, Opener
      <4>2. User(q)'
        BY <2>0, <4>0 DEF FileReq, User
      <4>3. Closer(q)'
        <5> SUFFICES ASSUME req[q].op = "close", ~(req[q].port = None /\ req[q].done)
                     PROVE  Closer(q)'
          BY <4>0 DEF Closer
        <5>1. /\ req[q].port \in Ports /\ req[q].port # None
              /\ port[req[q].port].kind = "file" /\ port[req[q].port].st = "closing"
              /\ \A r \in Everyone : req[r].op = "close" /\ req[r].port = req[q].port => r = q
              /\ IF req[q].done THEN \A g \in Fds : opened[g] # req[q].port
                 ELSE /\ req[q].file = port[req[q].port].file
                      /\ opened[req[q].file] = req[q].port
          BY <4>0 DEF FileReq, Closer
        <5>2. \A r \in Everyone : req'[r].op = "close" /\ req'[r].port = req[q].port => r = q
          <6>1. ASSUME NEW r \in Everyone, req'[r].op = "close" PROVE req[r].op = "close" /\ req'[r].port = req[r].port
            BY <2>0, <6>1 DEF ReqBecomes, a
          <6> QED
            BY <5>1, <6>1
        <5>3. req[q].port # a
          BY <2>1, <2>7
        <5>4. req[q].done => \A g \in Fds : opened'[g] # req[q].port
          BY <2>3, <5>1
        <5>5. ~req[q].done => opened'[req[q].file] = req[q].port
          BY <2>1, <2>3, <5>1, <5>3, Fields DEF ShapeInv, Shaped
        <5> QED
          BY <2>0, <4>0, <5>1, <5>2, <5>4, <5>5 DEF Closer
      <4> QED
        BY <4>0, <4>1, <4>2, <4>3 DEF FileReq
  <2> QED
    BY <2>4, <2>5, <2>6, <2>7 DEF FileInv
<1>17. ASSUME NEW p \in Everyone, uv_other(p) PROVE FileInv'
  <2>1. opened' = opened /\ record' = record
    BY <1>17, OtherFinished DEF users
  <2>2. \A b \in Ports : FileSame(b)
    BY <1>17, OtherFinished DEF FileSame
  <2>3. \A q \in Everyone : ReqSame(q) \/ FileReq(q)'
    BY <1>17, OtherFinished DEF ReqSame, ReqBecomes
  <2>4. \A q \in Everyone : req[q].op = "rw" => req[q].port \in record'
    BY <2>1 DEF FileInv, FileReq, User
  <2> QED
    BY <2>1, <2>2, <2>3, <2>4, FilesSame
<1>18. ASSUME NEW p \in Everyone, NEW o \in {"path", "open"}, fs_request(p, o) PROVE FileInv'
  <2>1. opened' = opened /\ record' = record
    BY <1>18, PathAsked
  <2>2. \A b \in Ports : FileSame(b)
    BY <1>18, PathAsked DEF FileSame
  <2>3. \A q \in Everyone : ReqSame(q) \/ FileReq(q)'
    <3>1. FileReq(p)'
      BY <1>18, PathAsked, NoFile
    <3>2. \A q \in Everyone \ {p} : ReqSame(q)
      BY <1>18, PathAsked, ReqEffects
    <3> QED
      BY <3>1, <3>2
  <2>4. \A q \in Everyone : req[q].op = "rw" => req[q].port \in record'
    BY <2>1 DEF FileInv, FileReq, User
  <2> QED
    BY <2>1, <2>2, <2>3, <2>4, FilesSame
<1>19. ASSUME NEW p \in Everyone, osi_open_fd(p) PROVE FileInv'
  <2>0. PICK a \in Ports : /\ port[a].kind = "none" /\ record' = record \cup {a}
                           /\ PortBecomes(a, "fd", "open", None, None, None, None, p)
    BY <1>19, FdOpened
  <2>1. opened' = opened /\ port[a].kind # "file" /\ port[a].file = None /\ NotUsed(a)
    BY <1>19, <2>0, FdOpened, UsedPorts
  <2>2. /\ \A b \in Ports \ {a} : FileSame(b)
        /\ port'[a].kind # "file" /\ port'[a].file = None
    BY <2>0, FileEffects
  <2>3. \A q \in Everyone : ReqSame(q)
    BY <1>19, FdOpened DEF ReqSame
  <2>4. \A q \in Everyone : req[q].op = "rw" => req[q].port \in record'
    BY <2>0 DEF FileInv, FileReq, User
  <2> QED
    BY <2>1, <2>2, <2>3, <2>4, FilesChange
<1>20. ASSUME NEW p \in Everyone, osi_connect_tcp(p) PROVE FileInv'
  <2>0. PICK a \in Ports, s \in {"connecting", "closing"} :
          /\ port[a].kind = "none" /\ PortBecomes(a, "stream", s, None, None, None, None, None)
          /\ ReqBecomes(p, "connect", a, None, FALSE) \/ UNCHANGED req
    BY <1>20, ConnectAsked
  <2>1. opened' = opened /\ port[a].kind # "file" /\ port[a].file = None /\ NotUsed(a)
    BY <1>20, <2>0, ConnectAsked, UsedPorts
  <2>2. /\ \A b \in Ports \ {a} : FileSame(b)
        /\ port'[a].kind # "file" /\ port'[a].file = None
    BY <2>0, FileEffects
  <2>3. \A q \in Everyone : ReqSame(q) \/ FileReq(q)'
    <3>1. CASE UNCHANGED req
      BY <3>1 DEF ReqSame
    <3>2. CASE ReqBecomes(p, "connect", a, None, FALSE)
      <4>1. FileReq(p)'
        BY <3>2 DEF ReqBecomes, FileReq, Opener, User, Closer
      <4> QED
        BY <3>2, <4>1, ReqEffects
    <3> QED
      BY <2>0, <3>1, <3>2
  <2>4. \A q \in Everyone : req[q].op = "rw" => req[q].port \in record'
    BY <1>20, ConnectAsked DEF FileInv, FileReq, User
  <2> QED
    BY <2>1, <2>2, <2>3, <2>4, FilesChange
<1>21. ASSUME NEW p \in Everyone, osi_spawn(p) PROVE FileInv'
  <2>0. PICK S \in SUBSET Ports :
          /\ \A a \in S : /\ port[a].kind = "none" /\ port'[a].kind = "stream" /\ port'[a].file = None
          /\ \A a \in Ports \ S : port'[a] = port[a]
          /\ record \subseteq record'
    BY <1>21, Spawned
  <2>1. \A b \in S : /\ port[b].kind # "file" /\ port[b].file = None /\ NotUsed(b)
                     /\ port'[b].kind # "file" /\ port'[b].file = None
    BY <2>0, UsedPorts
  <2>2. opened' = opened /\ (\A b \in Ports \ S : FileSame(b)) /\ (\A q \in Everyone : ReqSame(q))
    BY <1>21, <2>0, Spawned DEF FileSame, ReqSame
  <2>3. \A q \in Everyone : req[q].op = "rw" => req[q].port \in record'
    BY <2>0 DEF FileInv, FileReq, User
  <2> QED
    BY <2>1, <2>2, <2>3, FilesStay
<1>22. ASSUME NEW p \in Everyone, NEW a \in Ports, rw_fs_port(p, a) PROVE FileInv'
  <2>1. opened' = opened /\ record' = record
    BY <1>22, RwAsked
  <2>2. \A b \in Ports : FileSame(b)
    BY <1>22, RwAsked DEF FileSame
  <2>3. \A q \in Everyone : ReqSame(q) \/ FileReq(q)'
    <3>1. FileReq(p)'
      <4>1. /\ a \in record' /\ port'[a].proc = p /\ port'[a].kind \in {"file", "fd"}
            /\ ReqBecomes(p, "rw", a, port'[a].file, FALSE)
        BY <1>22, RwAsked
      <4> QED
        BY <4>1 DEF FileReq, Opener, User, Closer, ReqBecomes
    <3>2. \A q \in Everyone \ {p} : ReqSame(q)
      BY <1>22, RwAsked, ReqEffects
    <3> QED
      BY <3>1, <3>2
  <2>4. \A q \in Everyone : req[q].op = "rw" => req[q].port \in record'
    BY <2>1 DEF FileInv, FileReq, User
  <2> QED
    BY <2>1, <2>2, <2>3, <2>4, FilesSame
<1>23. ASSUME NEW p \in Everyone, NEW a \in Ports, read_stream_port(p, a) PROVE FileInv'
  <2>1. opened' = opened /\ record' = record
    BY <1>23, ReadAsked
  <2>2. \A b \in Ports : FileSame(b)
    BY <1>23, ReadAsked, FileEffects DEF FileSame
  <2>3. \A q \in Everyone : ReqSame(q) \/ FileReq(q)'
    BY <1>23, ReadAsked DEF ReqSame
  <2>4. \A q \in Everyone : req[q].op = "rw" => req[q].port \in record'
    BY <2>1 DEF FileInv, FileReq, User
  <2> QED
    BY <2>1, <2>2, <2>3, <2>4, FilesSame
<1>24. ASSUME NEW p \in Everyone, NEW a \in Ports, write_stream_port(p, a) PROVE FileInv'
  <2>1. opened' = opened /\ record' = record
    BY <1>24, WriteAsked
  <2>2. \A b \in Ports : FileSame(b)
    BY <1>24, WriteAsked, FileEffects DEF FileSame
  <2>3. \A q \in Everyone : ReqSame(q) \/ FileReq(q)'
    BY <1>24, WriteAsked DEF ReqSame
  <2>4. \A q \in Everyone : req[q].op = "rw" => req[q].port \in record'
    BY <2>1 DEF FileInv, FileReq, User
  <2> QED
    BY <2>1, <2>2, <2>3, <2>4, FilesSame
<1>25. ASSUME NEW p \in Everyone, NEW a \in Ports, close_stream_port(p, a) PROVE FileInv'
  <2>1. opened' = opened /\ port[a].kind # "file" /\ port[a].file = None /\ NotUsed(a)
    BY <1>25, StreamCloseAsked, UsedPorts
  <2>2. /\ \A b \in Ports \ {a} : FileSame(b)
        /\ port'[a].kind # "file" /\ port'[a].file = None
    BY <1>25, <2>1, StreamCloseAsked, FileEffects
  <2>3. \A q \in Everyone : ReqSame(q) \/ FileReq(q)'
    BY <1>25, StreamCloseAsked DEF ReqSame
  <2>4. \A q \in Everyone : req[q].op = "rw" => req[q].port \in record'
    <3>1. record' = record \ {a}
      BY <1>25, StreamCloseAsked
    <3> QED
      BY <2>1, <3>1 DEF FileInv, FileReq, User, NotUsed
  <2> QED
    BY <2>1, <2>2, <2>3, <2>4, FilesChange
<1>26. ASSUME NEW p \in Everyone, NEW a \in Ports, close_fs_port(p, a) PROVE FileInv'
  <2>0. NotUsed(a)
    <3>1. a \in record /\ ~Waiting(p) /\ p \in alive
          /\ IF p = Finalizer THEN ~KeptLive(a)
             ELSE port[a].kind \in {"file", "fd"} => port[a].proc = p
      BY <1>26, FileCloseAsked DEF MayClose, CanCall
    <3>2. req[p].op = None
      BY <3>1 DEF PendingInv, Pending, Quiet
    <3>3. port[a].kind \in {"file", "fd"}
      BY <1>26, FileCloseAsked
    <3>4. CASE p = Finalizer
      BY <3>1, <3>4 DEF KeptLive, NotUsed
    <3>5. CASE p # Finalizer
      BY <3>1, <3>2, <3>3, <3>5 DEF NotUsed, FileInv, FileReq, User
    <3> QED
      BY <3>4, <3>5
  <2>1. /\ a \in record /\ port[a].kind = "file" /\ record' = record \ {a} /\ opened' = opened
        /\ port'[a].kind = "file" /\ port'[a].st = "closing" /\ port'[a].file = port[a].file
        /\ \A b \in Ports : b # a => port'[b] = port[b]
    BY <1>26, FileCloseAsked DEF MayClose, PortBecomes
  <2>2. /\ port[a].st = "open" /\ opened[port[a].file] = a
    BY <2>1 DEF OwnerInv, Owned, FileInv
  <2>3. /\ req'[p].op = "close" /\ req'[p].port = a /\ req'[p].file = port[a].file /\ ~req'[p].done
        /\ \A q \in Everyone : q # p => req'[q] = req[q]
    BY <1>26, FileCloseAsked DEF ReqBecomes
  <2>4. \A q \in Everyone : req[q].op = "close" => req[q].port # a
    BY <2>2 DEF FileInv, FileReq, Closer
  <2>5. ASSUME NEW g \in Fds, opened'[g] \in Ports PROVE port'[opened'[g]].file = g
    BY <2>1, <2>5 DEF FileInv
  <2>6. ASSUME NEW b \in Ports, port'[b].kind = "file", port'[b].st = "open"
        PROVE  opened'[port'[b].file] = b
    BY <2>1, <2>6 DEF FileInv
  <2>7. FileReq(p)'
    <3>1. \A q \in Everyone : req'[q].op = "close" /\ req'[q].port = a => q = p
      BY <2>3, <2>4
    <3> QED
      BY <2>1, <2>2, <2>3, <3>1 DEF FileReq, Opener, User, Closer
  <2>8. ASSUME NEW q \in Everyone, q # p PROVE FileReq(q)'
      <4>0. FileReq(q) /\ req'[q] = req[q]
        BY <2>3, <2>8 DEF FileInv
      <4>1. Opener(q)'
        BY <2>1, <4>0 DEF FileReq, Opener
      <4>2. User(q)'
        <5> SUFFICES ASSUME req[q].op = "rw" PROVE User(q)'
          BY <4>0 DEF User
        <5>1. req[q].port \in Ports /\ req[q].port # a
          BY <2>0, <4>0 DEF FileReq, User, TypeOK, NotUsed
        <5> QED
          BY <2>1, <4>0, <5>1 DEF FileReq, User
      <4>3. Closer(q)'
        <5> SUFFICES ASSUME req[q].op = "close", ~(req[q].port = None /\ req[q].done)
                     PROVE  Closer(q)'
          BY <4>0 DEF Closer
        <5>1. /\ req[q].port \in Ports 
              /\ port[req[q].port].kind = "file" /\ port[req[q].port].st = "closing"
              /\ \A r \in Everyone : req[r].op = "close" /\ req[r].port = req[q].port => r = q
              /\ IF req[q].done THEN \A g \in Fds : opened[g] # req[q].port
                 ELSE /\ req[q].file = port[req[q].port].file
                      /\ opened[req[q].file] = req[q].port
          BY <4>0 DEF FileReq, Closer
        <5>2. req[q].port # a
          BY <2>4
        <5>3. \A r \in Everyone : req'[r].op = "close" /\ req'[r].port = req[q].port => r = q
          <6>1. ASSUME NEW r \in Everyone, req'[r].op = "close", req'[r].port = req[q].port
                PROVE  req'[r] = req[r]
            BY <2>3, <5>2, <6>1
          <6> QED
            BY <5>1, <6>1
        <5> QED
          BY <2>1, <4>0, <5>1, <5>2, <5>3 DEF Closer
      <4> QED
        BY <4>0, <4>1, <4>2, <4>3 DEF FileReq
  <2> QED
    BY <2>5, <2>6, <2>7, <2>8 DEF FileInv
<1>27. ASSUME NEW p \in Everyone, NEW a \in Ports, close_fd_port(p, a) PROVE FileInv'
  <2>0. NotUsed(a)
    <3>1. a \in record /\ ~Waiting(p) /\ p \in alive
          /\ IF p = Finalizer THEN ~KeptLive(a)
             ELSE port[a].kind \in {"file", "fd"} => port[a].proc = p
      BY <1>27, FdCloseAsked DEF MayClose, CanCall
    <3>2. req[p].op = None
      BY <3>1 DEF PendingInv, Pending, Quiet
    <3>3. port[a].kind \in {"file", "fd"}
      BY <1>27, FdCloseAsked
    <3>4. CASE p = Finalizer
      BY <3>1, <3>4 DEF KeptLive, NotUsed
    <3>5. CASE p # Finalizer
      BY <3>1, <3>2, <3>3, <3>5 DEF NotUsed, FileInv, FileReq, User
    <3> QED
      BY <3>4, <3>5
  <2>1. opened' = opened /\ port[a].kind # "file" /\ port[a].file = None /\ NotUsed(a)
    BY <1>27, FdCloseAsked, UsedPorts, <2>0
  <2>2. /\ \A b \in Ports \ {a} : FileSame(b)
        /\ port'[a].kind # "file" /\ port'[a].file = None
    <3>1. PortBecomes(a, "none", "open", None, None, None, None, None)
      BY <1>27, FdCloseAsked DEF PortFreed
    <3> QED
      BY <3>1, FileEffects
  <2>3. \A q \in Everyone : ReqSame(q) \/ FileReq(q)'
    <3>1. ReqBecomes(p, "close", None, None, TRUE)
      BY <1>27, FdCloseAsked
    <3>2. FileReq(p)'
      BY <3>1 DEF ReqBecomes, FileReq, Opener, User, Closer
    <3> QED
      BY <3>1, <3>2, ReqEffects
  <2>4. \A q \in Everyone : req[q].op = "rw" => req[q].port \in record'
    <3>1. record' = record \ {a}
      BY <1>27, FdCloseAsked
    <3> QED
      BY <2>1, <3>1 DEF FileInv, FileReq, User, NotUsed
  <2> QED
    BY <2>1, <2>2, <2>3, <2>4, FilesChange
<1> QED
  BY <1>1, <1>2, <1>3, <1>4, <1>5, <1>6, <1>7, <1>8, <1>9, <1>10, <1>11, <1>12, <1>13, <1>14, <1>15, <1>16, <1>17, <1>18, <1>19, <1>20, <1>21, <1>22, <1>23, <1>24, <1>25, <1>26, <1>27 DEF Next, event_loop, uv_done, uv_closing, uv_event, uv_work, Everyone, vars, users,
    Kill, close_handle_data_cb, osi_close_tcp_listener, osi_listen_tcp

-----------------------------------------------------------------------------
(* Inv is inductive. *)
LEMMA InitInv == Init => Inv
<1> SUFFICES ASSUME Init PROVE Inv
  OBVIOUS
<1> USE PortsAssumption DEF Init
<1>1. TypeOK
  <2>1. waiting \in [Everyone -> Waits]
    BY DEF Waits
  <2>2. port \in [Ports -> Structs] /\ req \in [Everyone -> Requests]
    BY StructTypes, RequestTypes
  <2>3. polling \in BOOLEAN
    OBVIOUS
  <2>4. /\ g_callbacks \in Seq(Calls) /\ alive \subseteq Everyone /\ record \subseteq Ports
        /\ opened \in [Fds -> Everyone \cup Ports \cup {None}]
        /\ locked \subseteq (Everyone \cup {"handle"}) \X {"callback", "buffer"}
        /\ handle \in {"none", "listening", "running", "closing"}
    OBVIOUS
  <2> QED
    BY <2>1, <2>2, <2>3, <2>4, Zenon DEF TypeOK
<1>2. \A a \in Ports : /\ port[a].kind = "none" /\ port[a].st = "open" /\ port[a].file = None
                       /\ port[a].read = None /\ port[a].write = None /\ port[a].close = None
  BY DEF NoPort
<1>3. \A p \in Everyone : req[p].op = None /\ req[p].port = None /\ ~Waiting(p) /\ p # None
  BY DEF NoReq, Waiting, Everyone
<1>4. Range(g_callbacks) = {} /\ Len(g_callbacks) = 0 /\ DOMAIN g_callbacks = {}
  BY DEF Range
<1>5. ShapeInv
  BY <1>2 DEF ShapeInv, Shaped
<1>6. PendingInv /\ MatchInv
  BY <1>2, <1>3, <1>4 DEF PendingInv, Pending, OneSlot, NoSlot, Quiet, NotQueued, NotIn, MatchInv, Matched
<1>7. OnceInv /\ ClosedLast
  BY <1>4 DEF OnceInv, AnswersOnce, ClosedLast
<1>8. OwnerInv
  BY <1>2, <1>3, <1>4 DEF OwnerInv, MadeOnce, Owned, Connecting, Made, MadeIn
<1>9. FileInv
  BY <1>2, <1>3 DEF FileInv, FileReq, Opener, User, Closer
<1>10. LockInv /\ HandleInv
  BY <1>2, <1>3 DEF LockInv, Locks, Quiet, NoSlot, UsesBuffer, HandleInv
<1> QED
  BY <1>1, <1>5, <1>6, <1>7, <1>8, <1>9, <1>10 DEF Inv

(* The invariant holds throughout. *)
LEMMA Invariance == Spec => []Inv
<1>1. Inv /\ [Next]_vars => Inv'
  BY TypeStep, ShapeStep, PendingStep, MatchStep, OnceStep, OwnerStep, FileStep, LockStep,
     HandleStep, ClosedStep DEF Inv
<1> QED
  BY <1>1, InitInv, PTL DEF Spec

-----------------------------------------------------------------------------
(* What the runs check. *)

(* The invariant has OwnDescriptor. *)
LEMMA DescriptorsKept == Inv => OwnDescriptor
<1> SUFFICES ASSUME Inv PROVE OwnDescriptor
  OBVIOUS
<1> USE PortsAssumption DEF Inv
<1>1. ASSUME NEW p \in Everyone, req[p].op = "rw", req[p].file # None
      PROVE  opened[req[p].file] = req[p].port
  <2>1. /\ req[p].port \in record /\ req[p].port \in Ports
        /\ req[p].file = port[req[p].port].file
    BY <1>1 DEF FileInv, FileReq, User, TypeOK
  <2>2. port[req[p].port].kind = "file" /\ port[req[p].port].st = "open"
    BY <1>1, <2>1 DEF ShapeInv, Shaped, OwnerInv, Owned
  <2> QED
    BY <2>1, <2>2 DEF FileInv
<1> QED
  BY <1>1 DEF OwnDescriptor, FileInv

(* A read or a write on its way to the thread pool always finds its         *)
(* descriptor open for its own port: no close, by the owner or by the        *)
(* finalizer process, gets in between.                                       *)
THEOREM DescriptorsAlwaysOwn == Spec => []OwnDescriptor
BY Invariance, DescriptorsKept, PTL

(* The invariant has LockedWhileUsed. *)
LEMMA LocksKept == Inv => LockedWhileUsed
<1> SUFFICES ASSUME Inv PROVE LockedWhileUsed
  OBVIOUS
<1> USE PortsAssumption DEF Inv
<1> DEFINE onPort(p, a) ==
             (IF port[a].read = p THEN {"callback", "buffer"} ELSE {})
             \cup (IF port[a].write = p THEN {"callback", "buffer"} ELSE {})
             \cup (IF port[a].close = p THEN {"callback"} ELSE {})
           onPorts(p) == UNION {onPort(p, a) : a \in Ports}
           uses(p) == onPorts(p)
             \cup (IF req[p].op # None THEN {"callback"} ELSE {})
             \cup (IF req[p].op = "rw" THEN {"buffer"} ELSE {})
<1>1. ASSUME NEW p \in Everyone
      PROVE  {o \in {"callback", "buffer"} : <<p, o>> \in locked} = uses(p)
  <2>0. Locks(p)
    BY DEF LockInv
  <2>1. \A a \in Ports : onPort(p, a) \subseteq {"callback", "buffer"}
    OBVIOUS
  <2>2. \A a \in Ports : /\ "callback" \in onPort(p, a) <=>
                              port[a].read = p \/ port[a].write = p \/ port[a].close = p
                         /\ "buffer" \in onPort(p, a) <=> port[a].read = p \/ port[a].write = p
    OBVIOUS
  <2> HIDE DEF onPort
  <2>3. onPorts(p) \subseteq {"callback", "buffer"}
    BY <2>1
  <2>4. "callback" \in onPorts(p) <=> ~NoSlot(p)
    BY <2>2 DEF NoSlot
  <2>5. "buffer" \in onPorts(p) <=> \E a \in Ports : port[a].read = p \/ port[a].write = p
    BY <2>2
  <2> HIDE DEF onPorts
  <2>6. uses(p) \subseteq {"callback", "buffer"}
    BY <2>3
  <2>7. "callback" \in uses(p) <=> <<p, "callback">> \in locked
    BY <2>0, <2>4 DEF Locks, Quiet
  <2>8. "buffer" \in uses(p) <=> <<p, "buffer">> \in locked
    BY <2>0, <2>5 DEF Locks, UsesBuffer
  <2> HIDE DEF uses
  <2> QED
    BY <2>6, <2>7, <2>8
<1>2. HandleInv
  OBVIOUS
<1> QED
  BY <1>1, <1>2, Zenon DEF LockedWhileUsed, HandleInv

(* What libuv still uses is locked against the collector, and nothing else  *)
(* stays locked, whoever is killed or closes meanwhile.                      *)
THEOREM AlwaysLockedWhileUsed == Spec => []LockedWhileUsed
BY Invariance, LocksKept, PTL

(* A set with no two elements has no more than one. *)
LEMMA AtMostOne ==
  ASSUME NEW S, \A x, y \in S : x = y
  PROVE  Cardinality(S) = IF S = {} THEN 0 ELSE 1
<1>1. CASE S = {}
  BY <1>1, FS_EmptySet
<1>2. CASE S # {}
  <2>1. PICK x \in S : TRUE
    BY <1>2
  <2>2. S = {x}
    BY <2>1
  <2> QED
    BY <1>2, <2>2, FS_Singleton
<1> QED
  BY <1>1, <1>2

(* The invariant has AnsweredOnce. *)
LEMMA AnswersKept == Inv => AnsweredOnce
<1> SUFFICES ASSUME Inv PROVE AnsweredOnce
  OBVIOUS
<1> USE PortsAssumption
<1>i. TypeOK /\ PendingInv /\ MatchInv /\ OnceInv /\ FileInv
  BY DEF Inv
<1> DEFINE fields == {"read", "write", "close"}
           slots(p) == {x \in fields \X Ports : port[x[2]][x[1]] = p}
           requests(p) == {<<req[p].op, req[p].port>>} \ {<<None, None>>}
           pending(p) == slots(p) \cup requests(p)
           queued(p) == {i \in DOMAIN g_callbacks : g_callbacks[i].proc = p}
           count(p) == Cardinality(pending(p)) + Cardinality(queued(p))
<1>1. ASSUME NEW p \in Everyone
      PROVE  /\ count(p) <= 1
             /\ p \in alive => count(p) = IF Waiting(p) THEN 1 ELSE 0
             /\ \A x \in pending(p) : Waiting(p) => x[1] = waiting[p].op
             /\ \A i \in queued(p) : Waiting(p) => g_callbacks[i].op = waiting[p].op
  <2>1. Pending(p) /\ Matched(p) /\ FileReq(p)
    BY <1>i DEF PendingInv, MatchInv, FileInv
  <2>2. /\ OneSlot(p)
        /\ req[p].op # None => NoSlot(p)
        /\ NotQueued(p) \/ Quiet(p)
        /\ p \in alive /\ ~Waiting(p) => NotQueued(p) /\ Quiet(p)
        /\ Waiting(p) => p \in alive
        /\ req[p].op = None => req[p].port = None
    BY <2>1 DEF Pending, FileReq
  <2>3. /\ \A a \in Ports : port[a].read = p => <<"read", a>> \in slots(p)
        /\ \A a \in Ports : port[a].write = p => <<"write", a>> \in slots(p)
        /\ \A a \in Ports : port[a].close = p => <<"close", a>> \in slots(p)
    OBVIOUS
  <2>4. \A x \in slots(p) : \E a \in Ports :
          \/ x = <<"read", a>> /\ port[a].read = p
          \/ x = <<"write", a>> /\ port[a].write = p
          \/ x = <<"close", a>> /\ port[a].close = p
    OBVIOUS
  <2>5. /\ req[p].op = None => requests(p) = {}
        /\ req[p].op # None => requests(p) = {<<req[p].op, req[p].port>>}
    BY <2>2
  <2>6. /\ \A i \in queued(p) : i \in 1..Len(g_callbacks) /\ g_callbacks[i].proc = p
                                /\ g_callbacks[i] \in Range(g_callbacks)
        /\ \A c \in Range(g_callbacks) : c.proc = p =>
             \E i \in queued(p) : g_callbacks[i] = c
    BY <1>i DEF TypeOK, Range
  <2> HIDE DEF slots, requests, queued
  <2>7. \A x, y \in slots(p) : x = y
    BY <2>2, <2>4 DEF OneSlot
  <2>8. slots(p) = {} <=> NoSlot(p)
    <3>1. ASSUME NoSlot(p) PROVE slots(p) = {}
      BY <3>1, <2>4 DEF NoSlot
    <3>2. ASSUME slots(p) = {} PROVE NoSlot(p)
      BY <3>2, <2>3 DEF NoSlot
    <3> QED
      BY <3>1, <3>2
  <2>9. (\A x, y \in pending(p) : x = y) /\ (pending(p) = {} <=> Quiet(p))
    BY <2>2, <2>5, <2>7, <2>8 DEF Quiet
  <2>10. \A i, j \in queued(p) : i = j
    BY <1>i, <2>6 DEF OnceInv, AnswersOnce
  <2>11. queued(p) = {} <=> NotQueued(p)
    BY <2>6 DEF NotQueued, NotIn
  <2>12. Waiting(p) => ~(NotQueued(p) /\ Quiet(p))
    <3>1. ASSUME Waiting(p) PROVE ~(NotQueued(p) /\ Quiet(p))
      <4>1. waiting[p].op # None
        BY <3>1 DEF Waiting
      <4>2. CASE InSlot(p, waiting[p].op, waiting[p].port)
        BY <4>2 DEF InSlot, Quiet, NoSlot
      <4>3. CASE waiting[p].op = req[p].op
        BY <4>1, <4>3 DEF Quiet
      <4>4. CASE InQueue(p, waiting[p].op, waiting[p].port)
        BY <4>4 DEF InQueue, NotQueued, NotIn
      <4> QED
        BY <3>1, <2>1, <4>2, <4>3, <4>4 DEF Matched
    <3> QED
      BY <3>1
  <2>13. /\ Cardinality(pending(p)) = IF Quiet(p) THEN 0 ELSE 1
         /\ Cardinality(queued(p)) = IF NotQueued(p) THEN 0 ELSE 1
    <3> HIDE DEF pending
    <3>1. Cardinality(pending(p)) = IF pending(p) = {} THEN 0 ELSE 1
      BY <2>9, AtMostOne
    <3>2. Cardinality(queued(p)) = IF queued(p) = {} THEN 0 ELSE 1
      BY <2>10, AtMostOne
    <3> QED
      BY <3>1, <3>2, <2>9, <2>11
  <2>14. count(p) <= 1 /\ (p \in alive => count(p) = IF Waiting(p) THEN 1 ELSE 0)
    BY <2>2, <2>12, <2>13
  <2>15. ASSUME Waiting(p), NEW x \in pending(p) PROVE x[1] = waiting[p].op
    <3>1. NotQueued(p) /\ ~Quiet(p)
      BY <2>2, <2>9, <2>15
    <3>2. CASE InSlot(p, waiting[p].op, waiting[p].port)
      <4>1. <<waiting[p].op, waiting[p].port>> \in slots(p)
        BY <3>2, <2>3 DEF InSlot
      <4> QED
        BY <4>1, <2>9, <2>15
    <3>3. CASE waiting[p].op = req[p].op
      <4>1. req[p].op # None
        BY <3>3, <2>15 DEF Waiting
      <4>2. <<req[p].op, req[p].port>> \in pending(p)
        BY <4>1, <2>5
      <4> QED
        BY <4>2, <2>9, <2>15, <3>3
    <3>4. ~InQueue(p, waiting[p].op, waiting[p].port)
      BY <3>1 DEF InQueue, NotQueued, NotIn
    <3> QED
      BY <2>15, <2>1, <3>2, <3>3, <3>4 DEF Matched
  <2>16. ASSUME Waiting(p), NEW i \in queued(p) PROVE g_callbacks[i].op = waiting[p].op
    <3>1. Quiet(p)
      BY <2>2, <2>11, <2>16
    <3>2. ~InSlot(p, waiting[p].op, waiting[p].port)
      BY <3>1 DEF InSlot, Quiet, NoSlot
    <3>3. waiting[p].op # req[p].op
      BY <3>1, <2>16 DEF Quiet, Waiting
    <3>4. InQueue(p, waiting[p].op, waiting[p].port)
      BY <2>16, <2>1, <3>2, <3>3 DEF Matched
    <3>5. PICK c \in Range(g_callbacks) : c.proc = p /\ c.op = waiting[p].op
      BY <3>4 DEF InQueue
    <3> QED
      BY <3>5, <2>6, <2>10, <2>16
  <2> HIDE DEF pending, count
  <2> QED
    BY <2>14, <2>15, <2>16
<1> QED
  BY <1>1, Zenon DEF AnsweredOnce

(* A process that waits has exactly one operation under way or one answer in *)
(* the queue, to what it asked for, and one that was killed is never taken   *)
(* for a later one; a stream is reported closed only after its reader and    *)
(* its writer have been answered.                                            *)
THEOREM AnswersAlwaysMatch == Spec => []AnswersMatch
<1>1. Inv => AnswersMatch
  BY AnswersKept DEF Inv, AnswersMatch
<1> QED
  BY <1>1, Invariance, PTL

(* The invariant has OneOwner. *)
LEMMA OwnersKept == Inv => OneOwner
<1> SUFFICES ASSUME Inv, NEW a \in Ports
             PROVE  LET owners ==
                          {<<"record", a>> : r \in record \cap {a}}
                          \cup {<<"connect", p>> : p \in {q \in Everyone : req[q].op = "connect"
                                                                          /\ req[q].port = a}}
                          \cup {<<"queue", i>> : i \in {j \in DOMAIN g_callbacks :
                                  g_callbacks[j].port = a
                                  /\ g_callbacks[j].op \in {"open", "connect", "accept"}}}
                          \cup {<<"closing", a>> : s \in {port[a].st} \cap {"closing"}}
                    IN Cardinality(owners) = IF Unused(a) THEN 0 ELSE 1
  BY DEF OneOwner
<1> USE PortsAssumption
<1>i. TypeOK /\ ShapeInv /\ OwnerInv
  BY DEF Inv
<1> DEFINE records == {<<"record", a>> : r \in record \cap {a}}
           connects == {<<"connect", p>> : p \in {q \in Everyone : req[q].op = "connect"
                                                                   /\ req[q].port = a}}
           queue == {<<"queue", i>> : i \in {j \in DOMAIN g_callbacks :
                       g_callbacks[j].port = a
                       /\ g_callbacks[j].op \in {"open", "connect", "accept"}}}
           closing == {<<"closing", a>> : s \in {port[a].st} \cap {"closing"}}
           owners == records \cup connects \cup queue \cup closing
<1>1. Owned(a) /\ Shaped(port[a]) /\ port[a].st \in {"open", "connecting", "closing"} /\ a # None
  BY <1>i DEF OwnerInv, ShapeInv, TypeOK, Structs
<1>2. /\ a \in record => records = {<<"record", a>>}
      /\ a \notin record => records = {}
  OBVIOUS
<1>3. /\ port[a].st = "closing" => closing = {<<"closing", a>>}
      /\ port[a].st # "closing" => closing = {}
  OBVIOUS
<1>4. /\ \A x, y \in connects : x = y
      /\ connects # {} <=> port[a].st = "connecting"
      /\ port[a].st = "connecting" => port[a].kind = "stream"
  <2>1. \A p \in Everyone : Connects(p, a) <=> <<"connect", p>> \in connects
    BY DEF Connects
  <2>2. \A x \in connects : \E p \in Everyone : x = <<"connect", p>> /\ Connects(p, a)
    BY DEF Connects
  <2>3. \A p \in Everyone : Connects(p, a) =>
          /\ port[a].kind = "stream" /\ port[a].st = "connecting"
          /\ \A q \in Everyone : Connects(q, a) => q = p
    BY <1>i DEF OwnerInv, Connecting, Connects
  <2> HIDE DEF connects
  <2>4. port[a].st = "connecting" => \E p \in Everyone : Connects(p, a)
    BY <1>1 DEF Owned
  <2> QED
    BY <2>1, <2>2, <2>3, <2>4
<1>5. (\A x, y \in queue : x = y) /\ (queue # {} <=> Made(a))
  <2>1. g_callbacks \in Seq(Range(g_callbacks)) /\ DOMAIN g_callbacks = 1..Len(g_callbacks)
    BY <1>i DEF TypeOK, Range
  <2>2. \A x \in queue : \E i \in 1..Len(g_callbacks) :
          x = <<"queue", i>> /\ Makes(g_callbacks[i]) /\ g_callbacks[i].port = a
    BY <1>1, <2>1 DEF Makes
  <2>3. \A i \in 1..Len(g_callbacks) :
          Makes(g_callbacks[i]) /\ g_callbacks[i].port = a => <<"queue", i>> \in queue
    BY <2>1 DEF Makes
  <2>4. \A c : c \in Range(g_callbacks) <=> \E i \in 1..Len(g_callbacks) : c = g_callbacks[i]
    BY <2>1 DEF Range
  <2> HIDE DEF queue
  <2>5. \A x, y \in queue : x = y
    BY <1>i, <2>2 DEF OwnerInv, MadeOnce
  <2>6. queue # {} <=> Made(a)
    <3>1. Made(a) <=> \E i \in 1..Len(g_callbacks) :
                        Makes(g_callbacks[i]) /\ g_callbacks[i].port = a
      BY <2>4, Zenon DEF Made, MadeIn
    <3> QED
      BY <3>1, <2>2, <2>3
  <2> QED
    BY <2>5, <2>6
<1> HIDE DEF records, connects, queue, closing
<1>6. \A x, y \in owners : x = y
  BY <1>1, <1>2, <1>3, <1>4, <1>5 DEF Owned
<1>7. owners = {} <=> Unused(a)
  BY <1>1, <1>2, <1>3, <1>4, <1>5 DEF Owned, Shaped, Unused
<1>8. Cardinality(owners) = IF Unused(a) THEN 0 ELSE 1
  <2> HIDE DEF owners
  <2> QED
    BY <1>6, <1>7, AtMostOne
<1> QED
  BY <1>8 DEF records, connects, queue, closing

(* Every port structure in use belongs to exactly one party that will close *)
(* it, and no record, request or callback has one that is free.              *)
THEOREM AlwaysOneOwner == Spec => []OneOwner
BY Invariance, OwnersKept, PTL
==============================================================================
