----------------------------- MODULE Gatekeeper -----------------------------
(***************************************************************************)
(* The gatekeeper (src/src/swish/gatekeeper.ss): a gen-server that hands   *)
(* out reentrant mutexes, monitors their owners and refuses an enter that  *)
(* would close a cycle of waiting processes.  Clients reach it through     *)
(* gen-server:call (src/src/swish/gen-server.ss), whose timeout, late      *)
(* reply and failure behaviour is part of the model.                       *)
(*                                                                         *)
(* One action of the server handles one message of its inbox.  Its calls   *)
(* to send, monitor and demonitor&flush are separate critical sections in  *)
(* the code, but a client that dies between two of them is                 *)
(* indistinguishable from one that dies before the first or after the last *)
(* (monitor answers at once for a dead process, demonitor&flush takes back *)
(* a DOWN that has come in).                                               *)
(*                                                                         *)
(* A call is tagged by its monitor, a fresh object, so a reply that comes  *)
(* after its caller has given up is never matched.  Here the tag of a call *)
(* is the number of calls its process has given up so far: a call that was *)
(* answered leaves no trace, so its tag can be used again.  The monitor of *)
(* a mutex is identified by the mutex and its owner.                       *)
(***************************************************************************)
EXTENDS Integers, Sequences, FiniteSets, SequencesExt

CONSTANTS
  Clients,      \* processes that use the gatekeeper
  Resources,    \* mutex names
  None,         \* no reply yet
  MaxDepth,     \* bound: how often a client enters a mutex it holds
  MaxTimeouts   \* bound: how many calls a client gives up

ASSUME GatekeeperAssumption ==
  /\ None \notin Clients \cup Resources \cup {"ok", "deadlock", "unowned"}
  /\ MaxDepth \in Nat \ {0}
  /\ MaxTimeouts \in Nat

VARIABLES
  server,   \* "up", "failed" (handle-info raised), "looping" (in deadlock?)
  mutexes,  \* the state of the server: its list of <mutex> tuples
  inbox,    \* the inbox of the server
  pc,       \* what a client does: "run", "enter", "leave" or "dead"
  res,      \* the resource of the client's current call
  tag,      \* the tag of the client's current or next call
  reply,    \* the reply to the client's current call, if it has come
  held      \* how often the client is inside each mutex, as far as it knows

gvars == <<server, mutexes, inbox, pc, res, tag, reply, held>>

-----------------------------------------------------------------------------
(* Data *)

From(p) == [proc |-> p, tag |-> tag[p]]
Froms == [proc : Clients, tag : 0..MaxTimeouts]

MutexTuples == [resource : Resources, process : Clients, count : Nat \ {0},
                waiters : Seq(Froms)]

CallMsg(op, p, r) == [type |-> op, from |-> From(p), resource |-> r]
DOWNmsg(r, p) == [type |-> "DOWN", process |-> p, resource |-> r]
DOWNof(mx) == DOWNmsg(mx.resource, mx.process)

Msgs == [type : {"enter", "leave"}, from : Froms, resource : Resources]
        \cup [type : {"DOWN"}, process : Clients, resource : Resources]

Waiting(p) == pc[p] \in {"enter", "leave"}

(* The element of a list of mutexes at the lowest index in a set of indices *)
First(ms, I) == ms[CHOOSE i \in I : \A j \in I : i <= j]

Remq(mx, ms) == RemoveFirst(ms, mx)

(* find-resource: the indices of the mutexes of a resource *)
FindResource(r) == {i \in 1..Len(mutexes) : mutexes[i].resource = r}

(* The mutex of resource r if process p owns it *)
OwnedByAnyone(r, p) == FindResource(r)
OwnedBy(r, p) == {i \in FindResource(r) : mutexes[i].process = p}

(* The owner of mx is about to be inside it no more. *)
LastLeave(mx) == mx.count <= 1

Reenter(mx) == [mx EXCEPT !.count = @ + 1]
Lower(mx) == [mx EXCEPT !.count = @ - 1]
Queue(mx, from) == [mx EXCEPT !.waiters = Append(@, from)]

(* gen-server:reply: only the call that waits for this tag takes the reply *)
Reply(rep, from, val) ==
  IF Waiting(from.proc) /\ tag[from.proc] = from.tag
  THEN [rep EXCEPT ![from.proc] = val]
  ELSE rep

-----------------------------------------------------------------------------
(* enter-mutex and leave-mutex *)

MonitorLive(box, r, p) == box

(* (monitor process): a process that is dead already is DOWN at once *)
Monitor(box, r, p) ==
  IF pc[p] = "dead" THEN Append(box, DOWNmsg(r, p)) ELSE box

(* enter-mutex: tell the new owner, monitor it, and put its mutex in front *)
EnterMutex(r, from, waiters, ms, box, rep) ==
  /\ reply' = Reply(rep, from, "ok")
  /\ mutexes' = <<[resource |-> r, process |-> from.proc, count |-> 1,
                   waiters |-> waiters]>> \o ms
  /\ inbox' = Monitor(box, r, from.proc)

(* demonitor&flush takes the DOWN of the owner back out of the inbox. *)
Flush(box, mx) == RemoveFirst(box, DOWNof(mx))

(* leave-mutex: demonitor&flush the owner, then pass the mutex to the first *)
(* waiter, whoever that is and whether it still waits or not.               *)
LeaveMutex(mx, box, rep) ==
  LET flushed == Flush(box, mx)
      others == Remq(mx, mutexes)
  IN IF mx.waiters = <<>>
     THEN /\ mutexes' = others
          /\ inbox' = flushed
          /\ reply' = rep
     ELSE EnterMutex(mx.resource, Head(mx.waiters), Tail(mx.waiters),
                     others, flushed, rep)

ChaseOneHop(p, mx) == IF mx.process = p THEN "deadlock" ELSE "wait"

(* The mutexes, by index, that a process waits for *)
WaitsAt(o) ==
  {i \in 1..Len(mutexes) :
     \E j \in 1..Len(mutexes[i].waiters) : mutexes[i].waiters[j].proc = o}

(* deadlock?: go from an owner to the owner of the first mutex it waits for, *)
(* starting with o, until p or a process that waits for nothing is met.  The *)
(* processes on the way are those in every set that has o and is closed      *)
(* under these steps ...                                                     *)
Chased(p, o) ==
  {q \in Clients : \A S \in SUBSET Clients :
     o \in S /\ (\A s \in S : s # p /\ WaitsAt(s) # {} =>
                   First(mutexes, WaitsAt(s)).process \in S) => q \in S}

(* ... and if the search meets neither it never ends. *)
Chase(p, mx) ==
  IF p \in Chased(p, mx.process) THEN "deadlock"
  ELSE IF \E q \in Chased(p, mx.process) : WaitsAt(q) = {} THEN "wait"
  ELSE "forever"

-----------------------------------------------------------------------------
(* The server: handle-call and handle-info *)

(* The server is ready and its next message has the given type. *)
Receives(type) ==
  /\ server = "up"
  /\ inbox # <<>>
  /\ Head(inbox).type = type

(* #(enter resource) of a resource that nobody owns *)
HandleEnterFree ==
  /\ Receives("enter")
  /\ LET m == Head(inbox)
     IN /\ FindResource(m.resource) = {}
        /\ EnterMutex(m.resource, m.from, <<>>, mutexes, Tail(inbox), reply)
  /\ UNCHANGED <<server, pc, res, tag, held>>

(* #(enter resource) of an owned resource: by its owner, by a process that  *)
(* would close a cycle, or by one that may wait                             *)
HandleEnterTaken ==
  /\ Receives("enter")
  /\ FindResource(Head(inbox).resource) # {}
  /\ LET m == Head(inbox)
         mx == First(mutexes, FindResource(m.resource))
         others == Remq(mx, mutexes)
         verdict == Chase(m.from.proc, mx)
     IN \/ /\ mx.process = m.from.proc
           /\ mutexes' = <<Reenter(mx)>> \o others
           /\ reply' = Reply(reply, m.from, "ok")
           /\ UNCHANGED server
        \/ /\ mx.process # m.from.proc
           /\ mutexes' = IF verdict = "wait" THEN <<Queue(mx, m.from)>> \o others
                         ELSE mutexes
           /\ reply' = IF verdict = "deadlock" THEN Reply(reply, m.from, "deadlock")
                       ELSE reply
           /\ server' = IF verdict = "forever" THEN "looping" ELSE server
  /\ inbox' = Tail(inbox)
  /\ UNCHANGED <<pc, res, tag, held>>

(* #(leave resource) *)
HandleLeave ==
  /\ Receives("leave")
  /\ LET m == Head(inbox)
         owned == OwnedBy(m.resource, m.from.proc)
         mx == First(mutexes, owned)
     IN \/ /\ owned = {}
           /\ reply' = Reply(reply, m.from, "unowned")
           /\ inbox' = Tail(inbox)
           /\ UNCHANGED mutexes
        \/ /\ owned # {}
           /\ ~LastLeave(mx)
           /\ reply' = Reply(reply, m.from, "ok")
           /\ mutexes' = <<Lower(mx)>> \o Remq(mx, mutexes)
           /\ inbox' = Tail(inbox)
        \/ /\ owned # {}
           /\ LastLeave(mx)
           /\ LeaveMutex(mx, Tail(inbox), Reply(reply, m.from, "ok"))
  /\ UNCHANGED <<server, pc, res, tag, held>>

(* DOWN of an owner.  find-monitor has no base case: a DOWN that belongs to *)
(* no mutex raises an exception and ends the server.                        *)
HandleDown ==
  /\ Receives("DOWN")
  /\ LET found == {i \in 1..Len(mutexes) : DOWNof(mutexes[i]) = Head(inbox)}
     IN IF found # {}
        THEN /\ LeaveMutex(First(mutexes, found), Tail(inbox), reply)
             /\ UNCHANGED server
        ELSE /\ server' = "failed"
             /\ inbox' = <<>>
             /\ UNCHANGED <<mutexes, reply>>
  /\ UNCHANGED <<pc, res, tag, held>>

Serve == HandleEnterFree \/ HandleEnterTaken \/ HandleLeave \/ HandleDown

-----------------------------------------------------------------------------
(* The clients *)

(* gen-server:call: monitor the server and send it the request *)
Call(op, p, r) ==
  /\ pc[p] = "run"
  /\ server # "failed"
  /\ pc' = [pc EXCEPT ![p] = op]
  /\ res' = [res EXCEPT ![p] = r]
  /\ inbox' = Append(inbox, CallMsg(op, p, r))
  /\ UNCHANGED <<server, mutexes, tag, reply>>

(* gatekeeper:enter *)
enter(p, r) ==
  /\ held[p][r] < MaxDepth
  /\ Call("enter", p, r)
  /\ UNCHANGED held

(* gatekeeper:leave: from here on the client does not use the resource.  It *)
(* may leave a mutex that it never entered.                                 *)
leave(p, r) ==
  /\ Call("leave", p, r)
  /\ held' = [held EXCEPT ![p][r] = IF @ > 0 THEN @ - 1 ELSE 0]

(* The call ends with a reply, or with the DOWN of the server: enter and    *)
(* leave return, or throw.                                                  *)
Return(p) ==
  /\ Waiting(p)
  /\ reply[p] # None \/ server = "failed"
  /\ held' = IF pc[p] = "enter" /\ reply[p] = "ok"
             THEN [held EXCEPT ![p][res[p]] = @ + 1]
             ELSE held
  /\ pc' = [pc EXCEPT ![p] = "run"]
  /\ res' = [res EXCEPT ![p] = None]
  /\ reply' = [reply EXCEPT ![p] = None]
  /\ UNCHANGED <<server, mutexes, inbox, tag>>

(* No reply has come in time: the call throws, and gatekeeper:leave takes   *)
(* that for ok.  The request, or the place in a queue of waiters, stays.    *)
Timeout(p) ==
  /\ Waiting(p)
  /\ reply[p] = None
  /\ tag[p] < MaxTimeouts
  /\ tag' = [tag EXCEPT ![p] = @ + 1]
  /\ pc' = [pc EXCEPT ![p] = "run"]
  /\ res' = [res EXCEPT ![p] = None]
  /\ UNCHANGED <<server, mutexes, inbox, reply, held>>

(* The client dies, at any point: the server is told once for every mutex   *)
(* whose owner it monitors, in some order.                                  *)
Die(p) ==
  /\ pc[p] # "dead"
  /\ pc' = [pc EXCEPT ![p] = "dead"]
  /\ res' = [res EXCEPT ![p] = None]
  /\ reply' = [reply EXCEPT ![p] = None]
  /\ held' = [held EXCEPT ![p] = [r \in Resources |-> 0]]
  /\ LET owned == {i \in 1..Len(mutexes) : mutexes[i].process = p}
     IN \E order \in SetToSeqs({DOWNof(mutexes[i]) : i \in owned}) :
          inbox' = IF server = "failed" THEN inbox ELSE inbox \o order
  /\ UNCHANGED <<server, mutexes, tag>>

-----------------------------------------------------------------------------
Init ==
  /\ server = "up"
  /\ mutexes = <<>>
  /\ inbox = <<>>
  /\ pc = [p \in Clients |-> "run"]
  /\ res = [p \in Clients |-> None]
  /\ tag = [p \in Clients |-> 0]
  /\ reply = [p \in Clients |-> None]
  /\ held = [p \in Clients |-> [r \in Resources |-> 0]]

Next ==
  \/ Serve
  \/ \E p \in Clients : \/ \E r \in Resources : enter(p, r) \/ leave(p, r)
                        \/ Return(p)
                        \/ Timeout(p)
                        \/ Die(p)

Spec == Init /\ [][Next]_gvars

LeavesHeld(p, r) == held[p][r] > 0 /\ leave(p, r)

(* The scheduler runs every process that can run: the server handles its    *)
(* messages and a client takes its reply.  The body of                      *)
(* with-gatekeeper-mutex ends, and the exit thunk of its dynamic-wind       *)
(* leaves the mutex, whatever else the client enters in between.            *)
FairSpec ==
  /\ Spec
  /\ WF_gvars(Serve)
  /\ \A p \in Clients :
       /\ WF_gvars(Return(p))
       /\ \A r \in Resources : SF_gvars(LeavesHeld(p, r))

-----------------------------------------------------------------------------
(* Properties *)

TypeOK ==
  /\ server \in {"up", "failed", "looping"}
  /\ mutexes \in Seq(MutexTuples)
  /\ inbox \in Seq(Msgs)
  /\ pc \in [Clients -> {"run", "enter", "leave", "dead"}]
  /\ res \in [Clients -> Resources \cup {None}]
  /\ tag \in [Clients -> 0..MaxTimeouts]
  /\ reply \in [Clients -> {None, "ok", "deadlock", "unowned"}]
  /\ held \in [Clients -> [Resources -> 0..MaxDepth]]

(* No two processes are inside the mutex of one resource (the body of       *)
(* with-gatekeeper-mutex), whatever times out and whoever dies, and the     *)
(* server's list agrees: a client that is inside a mutex is its recorded    *)
(* owner, at least as often as it entered it.  So a leave of a mutex that   *)
(* is held is never refused as unowned.                                     *)
MutualExclusion ==
  /\ TypeOK
  /\ \A r \in Resources : \A p, q \in Clients :
       held[p][r] > 0 /\ held[q][r] > 0 => p = q
  /\ \A p \in Clients, r \in Resources :
       held[p][r] > 0 =>
         \E i \in 1..Len(mutexes) : /\ mutexes[i].resource = r
                                    /\ mutexes[i].process = p
                                    /\ mutexes[i].count >= held[p][r]

(* Nothing is left locked: the owner of a mutex is inside it exactly as     *)
(* often as its count says (give or take the call it is in), or it is dead  *)
(* and the DOWN that releases the mutex is on its way to a server that is   *)
(* not brought down by a DOWN it cannot find, nor kept busy by deadlock?.   *)
OwnersHold ==
  /\ server = "up"
  /\ \A i \in 1..Len(mutexes) :
       LET mx == mutexes[i]
           n == held[mx.process][mx.resource]
       IN \/ Waiting(mx.process) /\ mx.count \in {n, n + 1}
          \/ pc[mx.process] = "run" /\ mx.count = n
          \/ pc[mx.process] = "dead"
               /\ \E j \in 1..Len(inbox) : inbox[j] = DOWNof(mx)

(* p waits for a mutex that q owns *)
WaitsFor(p, q) ==
  /\ pc[p] = "enter"
  /\ \E i \in 1..Len(mutexes) :
       /\ mutexes[i].process = q
       /\ \E j \in 1..Len(mutexes[i].waiters) :
            mutexes[i].waiters[j] = From(p)

(* No set of processes wait for each other in a cycle: the enter that would *)
(* close a cycle gets an exception.                                         *)
NoCyclicWait ==
  \A S \in (SUBSET Clients) \ {{}} :
    \E p \in S : \A q \in S : ~WaitsFor(p, q)

(* Every enter is answered, if those inside a mutex leave it or die. *)
EveryEnterAnswered ==
  \A p \in Clients : (pc[p] = "enter") ~> (pc[p] # "enter")
=============================================================================
