----------------------------- MODULE Supervisor -----------------------------
(***************************************************************************)
(* The supervisor (src/src/swish/supervisor.ss): a gen-server that traps   *)
(* exits, starts the children of its list, restarts or forgets a child     *)
(* whose EXIT comes in, and shuts children down with a monitor, an unlink  *)
(* and a kill.                                                             *)
(*                                                                         *)
(* A step of the supervisor is one call that other processes can observe   *)
(* or interfere with: the thunk of a child, link, monitor, unlink, kill,   *)
(* receive.  Between any two of them children end, unlink themselves, the  *)
(* parent ends and time passes.  Calls of clients are taken when the       *)
(* server loop is idle; a call may come in before any message of the inbox *)
(* was sent, so a call is free to overtake the inbox of the model.  A      *)
(* request that is answered with an error changes nothing and is left out. *)
(*                                                                         *)
(* A process that traps exits decides itself when to end after a signal    *)
(* other than kill; one that does not trap ends at once.  Both are the     *)
(* action exit, which is always possible.  The arguments of the supervisor *)
(* and its child specifications are valid; the events it reports are left  *)
(* out.                                                                    *)
(***************************************************************************)
EXTENDS Integers, Sequences, FiniteSets, SequencesExt

CONSTANTS
  Names,         \* names of children
  Strategy,      \* "one-for-one" or "one-for-all"
  Intensity,     \* how many restarts are allowed ...
  Period,        \* ... within this time
  RestartTypes,  \* restart types that children of the instance may have
  Shutdowns,     \* shutdown values that children of the instance may have
  Results,       \* what thunks may do: "ok", "ignore" or "error"
  Reasons,       \* exit reasons of children
  Naughty,       \* whether children may unlink the supervisor
  None,          \* #f
  Pids,          \* bound: processes of children that exist at a time
  Parent,        \* the process that started the supervisor
  MaxTime        \* bound: how often the clock ticks

ASSUME SupervisorAssumption ==
  /\ Strategy \in {"one-for-one", "one-for-all"}
  /\ Intensity \in Nat
  /\ Period \in Nat \ {0}
  /\ RestartTypes \subseteq {"permanent", "temporary", "transient", "watch-only"}
  /\ Shutdowns \subseteq {"brutal-kill", "timeout", "infinity"}
  /\ Results \subseteq {"ok", "ignore", "error"}
  /\ Reasons \cap {"unborn", "alive"} = {}
  /\ Naughty \in BOOLEAN
  /\ MaxTime \in Nat
  /\ IsFiniteSet(Names) /\ Names \cap Pids = {}
  /\ Parent \notin Pids
  /\ None \notin Names \cup Pids \cup {Parent}

VARIABLES
  spec,       \* the specification of each child
  children,   \* the list of <child> tuples in the state of the server
  restarts,   \* the times of restarts in the state of the server
  pc,         \* what the supervisor does next
  job,        \* the handler that it is in
  todo,       \* children a loop has yet to start or to shut down
  acc,        \* children the loop is done with
  victim,     \* the child whose end is being handled, if any
  proc,       \* "unborn", "alive" or the reason a process has ended with
  owner,      \* the child that a live process was started for
  linked,     \* processes linked to the supervisor
  monitored,  \* processes the supervisor monitors
  inbox,      \* the EXIT and DOWN messages of the supervisor
  parent,     \* whether the parent of the supervisor is alive
  now,        \* erlang:now
  naughty,    \* history: processes that have unlinked the supervisor
  begun       \* history: when restarts were begun

server == <<children, restarts, begun>>
control == <<pc, job, todo, acc, victim>>
procs == <<proc, owner, linked, monitored, inbox>>
env == <<spec, parent, now, naughty>>
svars == <<server, control, procs, env>>

-----------------------------------------------------------------------------
(* Data *)

(* check-child-spec accepts "infinity" for a supervisor only, which ends *)
(* sooner or later when it is told to (valid-shutdown?).                 *)
Specs == [restart : RestartTypes, shutdown : Shutdowns]

Children == [name : Names, pid : Pids \cup {None}]
EXITmsg(p) == [type |-> "EXIT", pid |-> p]
DOWNmsg(p) == [type |-> "DOWN", pid |-> p]
Msgs == [type : {"EXIT", "DOWN"}, pid : Pids \cup {Parent}]

NamesOf(chs) == {chs[i].name : i \in DOMAIN chs}
PidsOf(chs) == {chs[i].pid : i \in DOMAIN chs} \ {None}
Dead(c) == [c EXCEPT !.pid = None]

(* find-child, find-pid *)
FindChild(n, chs) == CHOOSE c \in ToSet(chs) : c.name = n
FindPid(p, chs) == CHOOSE c \in ToSet(chs) : c.pid = p

ReplaceChild(c, chs) ==
  [i \in DOMAIN chs |-> IF chs[i].name = c.name THEN c ELSE chs[i]]

(* Names differ, so remp removes one child. *)
RemoveChild(c, chs) == RemoveFirstMatch(chs, LAMBDA x : x.name = c.name)

(* mark-child-dead: who is the name or the process of a child *)
MarkChildDead(who, chs) ==
  [i \in DOMAIN chs |-> IF who \in {chs[i].name, chs[i].pid}
                        THEN Dead(chs[i]) ELSE chs[i]]

(* prune-restarts: the latest restart is first; stop at the first old one *)
PruneRestartsEarly(rs, t) == SelectSeq(rs, LAMBDA r : t - r < Period)
PruneRestarts(rs, t) ==
  LET old == {i \in DOMAIN rs : t - rs[i] > Period}
  IN IF old = {} THEN rs ELSE SubSeq(rs, 1, Min(old) - 1)

-----------------------------------------------------------------------------
(* Processes: what the supervisor calls in erlang.ss *)

Alive(p) == proc[p] = "alive"
Ended(p) == proc[p] \notin {"unborn", "alive"}

(* The supervisor has no reference to p, which is as good as a new process. *)
Unknown(p) ==
  /\ ~Alive(p)
  /\ \A i \in DOMAIN inbox : inbox[i].pid # p
  /\ \A chs \in {children, todo, acc, victim} : p \notin PidsOf(chs)

(* A process ends with reason r: links are told before monitors. *)
Die(p, r) ==
  /\ proc' = [proc EXCEPT ![p] = r]
  /\ linked' = linked \ {p}
  /\ monitored' = monitored \ {p}
  /\ inbox' = IF pc = "stopped" THEN inbox
              ELSE inbox \o (IF p \in linked THEN <<EXITmsg(p)>> ELSE <<>>)
                         \o (IF p \in monitored THEN <<DOWNmsg(p)>> ELSE <<>>)
  /\ owner' = [owner EXCEPT ![p] = None]

Kill(p) == IF Alive(p) THEN Die(p, "killed") ELSE UNCHANGED procs

(* receive: the messages of p of one type, and the inbox without the first *)
From(type, p) == {i \in DOMAIN inbox : inbox[i].type = type /\ inbox[i].pid = p}
Take(type, p) == inbox' = RemoveAt(inbox, Min(From(type, p)))

-----------------------------------------------------------------------------
(* Control *)

Current == Head(todo)

(* The handler is done; the server loop waits for the next message. *)
Idle ==
  /\ pc' = "idle" /\ job' = "none"
  /\ todo' = <<>> /\ acc' = <<>> /\ victim' = <<>>

(* start-children of chs, oldest first *)
StartChildren(chs) == pc' = "start" /\ todo' = chs /\ acc' = <<>>

(* terminate-children of chs, newest first *)
TerminateChildren(chs) == pc' = "stop" /\ todo' = chs /\ acc' = <<>>

(* start-children fails: what its caller gets is in the order of the state *)
Unstarted == Reverse(Tail(todo)) \o <<Current>> \o acc

(* restart, add-restart and strategic-restart of child c; chs is the list of *)
(* children in the state                                                     *)
Restart(c, chs) ==
  LET r == PruneRestarts(<<now>> \o restarts, now)
  IN /\ restarts' = r
     /\ victim' = <<c>>
     /\ IF Len(r) <= Intensity
        THEN /\ children' = chs
             /\ begun' = Append(begun, now)
             /\ job' = Strategy
             /\ IF Strategy = "one-for-one"
                THEN StartChildren(<<c>>)
                ELSE TerminateChildren(MarkChildDead(c.pid, chs))
        ELSE /\ children' = RemoveChild(c, chs)
             /\ begun' = begun
             /\ job' = "terminate"
             /\ TerminateChildren(RemoveChild(c, chs))

-----------------------------------------------------------------------------
(* do-start-child, and what start-children, handle-start-child, handle-call *)
(* and strategic-restart do with its result                                 *)

StartedFirst(c) == <<c>> \o acc
Started(c) ==
  /\ IF job \in {"init", "one-for-all"}
     THEN /\ acc' = StartedFirst(c)
          /\ todo' = Tail(todo)
          /\ pc' = "start"
          /\ UNCHANGED <<children, job, victim>>
     ELSE /\ children' = IF job = "start-child" THEN <<c>> \o children
                         ELSE ReplaceChild(c, children)
          /\ Idle
  /\ UNCHANGED <<restarts, begun>>

NotStarted ==
  CASE job = "init" -> /\ job' = "init-failed"
                       /\ TerminateChildren(Unstarted)
                       /\ UNCHANGED <<server, victim>>
    [] job = "one-for-one" -> Restart(Head(victim), children)
    [] job = "one-for-all" -> Restart(Head(victim), Unstarted)
    [] OTHER -> Idle /\ UNCHANGED server

(* The thunk starts a process, linked to the supervisor or not. *)
thunkOk ==
  /\ pc = "start" /\ todo # <<>>
  /\ "ok" \in Results
  /\ \E p \in {q \in Pids : Unknown(q)} :
       /\ proc' = [proc EXCEPT ![p] = "alive"]
       /\ owner' = [owner EXCEPT ![p] = Current.name]
       /\ linked' \in {linked, linked \cup {p}}
       /\ naughty' = naughty \ {p}
       /\ todo' = [todo EXCEPT ![1].pid = p]
  /\ pc' = "link"
  /\ UNCHANGED <<server, job, acc, victim, monitored, inbox, spec, parent, now>>

linkChildAlive ==
  /\ pc = "link"
  /\ linked' = IF Alive(Current.pid) THEN linked \cup {Current.pid} ELSE linked
  /\ Started(Current)
  /\ UNCHANGED <<proc, owner, monitored, inbox, env>>

(* link: a process that is dead already sends its EXIT *)
linkChild ==
  /\ pc = "link"
  /\ IF Alive(Current.pid)
     THEN linked' = linked \cup {Current.pid} /\ UNCHANGED inbox
     ELSE inbox' = Append(inbox, EXITmsg(Current.pid)) /\ UNCHANGED linked
  /\ Started(Current)
  /\ UNCHANGED <<proc, owner, monitored, env>>

(* The thunk returns ignore: the child is taken as it was. *)
thunkIgnore ==
  /\ pc = "start" /\ todo # <<>>
  /\ "ignore" \in Results
  /\ Started(Current)
  /\ UNCHANGED <<procs, env>>

(* The thunk raises, returns an error, a bad value or a known process. *)
thunkError ==
  /\ pc = "start" /\ todo # <<>>
  /\ "error" \in Results
  /\ NotStarted
  /\ UNCHANGED <<procs, env>>

(* start-children is done. *)
startedAll ==
  /\ pc = "start" /\ todo = <<>>
  /\ children' = acc
  /\ Idle
  /\ UNCHANGED <<restarts, begun, procs, env>>

-----------------------------------------------------------------------------
(* do-terminate: shutdown and monitor-child *)

(* The process of the current child is down. *)
Terminated ==
  IF job = "terminate-child"
  THEN /\ children' = ReplaceChild(Dead(Current), children)
       /\ Idle
  ELSE /\ acc' = <<Dead(Current)>> \o acc
       /\ todo' = Tail(todo)
       /\ pc' = "stop"
       /\ UNCHANGED <<children, job, victim>>

(* terminate-children: the next child; one without a process is passed over *)
terminateNext ==
  /\ pc = "stop" /\ todo # <<>>
  /\ IF Current.pid = None
     THEN Terminated
     ELSE pc' = "monitor" /\ UNCHANGED <<children, job, todo, acc, victim>>
  /\ UNCHANGED <<restarts, begun, procs, env>>

(* terminate-children is done: start the children again, or end, which *)
(* leaves every process that is still linked with an exit signal.      *)
terminatedAll ==
  /\ pc = "stop" /\ todo = <<>>
  /\ IF job = "one-for-all"
     THEN StartChildren(acc) /\ UNCHANGED <<job, victim>>
     ELSE pc' = "stopped" /\ UNCHANGED <<job, todo, acc, victim>>
  /\ UNCHANGED <<server, procs, env>>

monitorChildAlive ==
  /\ pc = "monitor"
  /\ monitored' = IF Alive(Current.pid) THEN monitored \cup {Current.pid} ELSE monitored
  /\ pc' = "unlink"
  /\ UNCHANGED <<server, job, todo, acc, victim, proc, owner, linked, inbox, env>>

monitorChild ==
  /\ pc = "monitor"
  /\ IF Alive(Current.pid)
     THEN monitored' = monitored \cup {Current.pid} /\ UNCHANGED inbox
     ELSE inbox' = Append(inbox, DOWNmsg(Current.pid)) /\ UNCHANGED monitored
  /\ pc' = "unlink"
  /\ UNCHANGED <<server, job, todo, acc, victim, proc, owner, linked, env>>

unlinkChild ==
  /\ pc = "unlink"
  /\ linked' = linked \ {Current.pid}
  /\ pc' = "flush"
  /\ UNCHANGED <<server, job, todo, acc, victim, proc, owner, monitored, inbox, env>>

flushExitOnly ==
  /\ pc = "flush"
  /\ IF From("EXIT", Current.pid) # {}
     THEN Take("EXIT", Current.pid) /\ Terminated
     ELSE pc' = "kill" /\ UNCHANGED <<inbox, children, job, todo, acc, victim>>
  /\ UNCHANGED <<restarts, begun, proc, owner, linked, monitored, env>>

(* An EXIT that has come in says that there is nothing left to kill. *)
flushExit ==
  /\ pc = "flush"
  /\ IF From("EXIT", Current.pid) # {}
     THEN Take("EXIT", Current.pid) /\ pc' = "down"
     ELSE pc' = "kill" /\ UNCHANGED inbox
  /\ UNCHANGED <<server, job, todo, acc, victim, proc, owner, linked, monitored, env>>

killChildOnly ==
  /\ pc = "kill"
  /\ Terminated
  /\ UNCHANGED <<restarts, begun, procs, env>>

(* (kill pid 'kill) ends the process, (kill pid 'shutdown) asks it to end. *)
killChild ==
  /\ pc = "kill"
  /\ IF spec[Current.name].shutdown = "brutal-kill"
     THEN Kill(Current.pid) /\ pc' = "down"
     ELSE UNCHANGED procs /\ pc' = "await"
  /\ UNCHANGED <<server, job, todo, acc, victim, env>>

(* The time given to the child is over and its DOWN has not come. *)
timeoutChild ==
  /\ pc = "await"
  /\ spec[Current.name].shutdown = "timeout"
  /\ From("DOWN", Current.pid) = {}
  /\ Kill(Current.pid)
  /\ pc' = "down"
  /\ UNCHANGED <<server, job, todo, acc, victim, env>>

(* The DOWN of the child comes in. *)
childDown ==
  /\ pc \in {"await", "down"}
  /\ From("DOWN", Current.pid) # {}
  /\ Take("DOWN", Current.pid)
  /\ Terminated
  /\ UNCHANGED <<restarts, begun, proc, owner, linked, monitored, env>>

-----------------------------------------------------------------------------
(* handle-call *)

Call(name, chs) ==
  /\ job' = name /\ todo' = chs
  /\ UNCHANGED <<server, acc, victim, procs, env>>

startChild(n) ==
  /\ pc = "idle"
  /\ n \notin NamesOf(children)
  /\ pc' = "start"
  /\ Call("start-child", <<[name |-> n, pid |-> None]>>)

restartChildRunning(n) ==
  /\ pc = "idle"
  /\ n \in NamesOf(children)
  /\ pc' = "start"
  /\ Call("restart-child", <<FindChild(n, children)>>)

restartChild(n) ==
  /\ pc = "idle"
  /\ n \in NamesOf(children) /\ FindChild(n, children).pid = None
  /\ pc' = "start"
  /\ Call("restart-child", <<FindChild(n, children)>>)

terminateChild(n) ==
  /\ pc = "idle"
  /\ n \in NamesOf(children) /\ FindChild(n, children).pid # None
  /\ pc' = "monitor"
  /\ Call("terminate-child", <<FindChild(n, children)>>)

deleteChild(n) ==
  /\ pc = "idle"
  /\ n \in NamesOf(children) /\ FindChild(n, children).pid = None
  /\ children' = RemoveChild(FindChild(n, children), children)
  /\ UNCHANGED <<restarts, begun, control, procs, env>>

-----------------------------------------------------------------------------
(* handle-msg and handle-info *)

NextMessage ==
  /\ pc = "idle" /\ inbox # <<>>
  /\ inbox' = Tail(inbox)
  /\ UNCHANGED <<proc, owner, linked, monitored, env>>

MarkDead(c) ==
  /\ children' = MarkChildDead(c.name, children)
  /\ UNCHANGED <<restarts, begun, control>>

(* do-restart *)
DoRestart(c) ==
  LET type == spec[c.name].restart
      failed == proc[c.pid] \notin {"normal", "shutdown"}
      again == type = "permanent" \/ (type = "transient" /\ failed)
  IN \/ again /\ Restart(c, children)
     \/ ~again /\ type # "watch-only" /\ MarkDead(c)
     \/ /\ type = "watch-only"
        /\ children' = RemoveChild(c, children)
        /\ UNCHANGED <<restarts, begun, control>>

(* restart-child: an EXIT of a child *)
handleChildExit ==
  /\ NextMessage
  /\ LET m == Head(inbox)
     IN /\ m.type = "EXIT" /\ m.pid \in PidsOf(children)
        /\ DoRestart(FindPid(m.pid, children))

(* An EXIT of any other process is ignored. *)
handleOtherExit ==
  /\ NextMessage
  /\ LET m == Head(inbox)
     IN m.type = "EXIT" /\ m.pid \notin PidsOf(children) \cup {Parent}
  /\ UNCHANGED <<server, control>>

handleStopAtOnce ==
  /\ NextMessage
  /\ Head(inbox).type = "DOWN" \/ Head(inbox).pid = Parent
  /\ pc' = "stopped"
  /\ UNCHANGED <<server, job, todo, acc, victim>>

(* The parent's EXIT ends the server, and so would a message that handle-info *)
(* does not know: terminate.                                                  *)
handleStop ==
  /\ NextMessage
  /\ Head(inbox).type = "DOWN" \/ Head(inbox).pid = Parent
  /\ job' = "terminate"
  /\ TerminateChildren(children)
  /\ UNCHANGED <<server, victim>>

-----------------------------------------------------------------------------
(* The surroundings of the supervisor *)

exit(p, r) ==
  /\ Alive(p)
  /\ Die(p, r)
  /\ UNCHANGED <<server, control, env>>

(* A child unlinks the supervisor. *)
unlinkParent(p) ==
  /\ Naughty
  /\ Alive(p) /\ p \in linked
  /\ linked' = linked \ {p}
  /\ naughty' = naughty \cup {p}
  /\ UNCHANGED <<server, control, proc, owner, monitored, inbox, spec, parent, now>>

parentExit ==
  /\ parent = "alive" /\ pc # "stopped"
  /\ parent' = "dead"
  /\ inbox' = Append(inbox, EXITmsg(Parent))
  /\ UNCHANGED <<server, control, proc, owner, linked, monitored, spec, now, naughty>>

tick ==
  /\ now < MaxTime /\ pc # "stopped"
  /\ now' = now + 1
  /\ UNCHANGED <<server, control, procs, spec, parent, naughty>>

-----------------------------------------------------------------------------
(* The supervisor is started with a list of children (check-start-specs: *)
(* their names differ).                                                  *)
Init ==
  /\ spec \in [Names -> Specs]
  /\ children = <<>> /\ restarts = <<>> /\ begun = <<>>
  /\ pc = "start" /\ job = "init" /\ acc = <<>> /\ victim = <<>>
  /\ \E S \in SUBSET Names : \E names \in SetToSeqs(S) :
       todo = [i \in DOMAIN names |-> [name |-> names[i], pid |-> None]]
  /\ proc = [p \in Pids |-> "unborn"]
  /\ owner = [p \in Pids |-> None]
  /\ linked = {} /\ monitored = {} /\ inbox = <<>>
  /\ parent = "alive" /\ now = 0 /\ naughty = {}

Work ==
  \/ thunkOk \/ linkChild \/ thunkIgnore \/ thunkError \/ startedAll
  \/ terminateNext \/ terminatedAll
  \/ monitorChild \/ unlinkChild \/ flushExit \/ killChild \/ timeoutChild
  \/ childDown
  \/ handleChildExit \/ handleOtherExit \/ handleStop

Calls ==
  \E n \in Names : startChild(n) \/ restartChild(n) \/ terminateChild(n)
                   \/ deleteChild(n)

Surroundings ==
  \/ \E p \in Pids : unlinkParent(p) \/ \E r \in Reasons : exit(p, r)
  \/ parentExit
  \/ tick

Next == Work \/ Calls \/ Surroundings

Spec == Init /\ [][Next]_svars

(* The scheduler runs the supervisor again and again, and a receive takes   *)
(* messages in the order of the inbox, so a message is not overtaken by     *)
(* calls for ever.  A child that is given all the time it wants is itself a *)
(* supervisor, which ends when its parent asks it to.                       *)
Obey(p) == pc = "await" /\ Current.pid = p /\ \E r \in Reasons : exit(p, r)

FairSpec ==
  /\ Spec
  /\ WF_svars(Work)
  /\ SF_svars(handleChildExit \/ handleOtherExit \/ handleStop)
  /\ \A p \in Pids : WF_svars(Obey(p))

-----------------------------------------------------------------------------
(* Properties *)

(* The variables of the model have their types. *)
TypeOK ==
  /\ spec \in [Names -> Specs]
  /\ \A chs \in {children, todo, acc, victim} : chs \in Seq(Children)
  /\ \A times \in {restarts, begun} : times \in Seq(0..MaxTime)
  /\ pc \in {"idle", "start", "link", "stop", "monitor", "unlink", "flush",
            "kill", "await", "down", "stopped"}
  /\ job \in {"none", "init", "init-failed", "start-child", "restart-child",
             "terminate-child", "one-for-one", "one-for-all", "terminate"}
  /\ proc \in [Pids -> {"unborn", "alive", "killed"} \cup Reasons]
  /\ owner \in [Pids -> Names \cup {None}]
  /\ linked \subseteq Pids /\ monitored \subseteq Pids /\ naughty \subseteq Pids
  /\ inbox \in Seq(Msgs)
  /\ parent \in {"alive", "dead"} /\ now \in 0..MaxTime

(* No two processes of one child are alive at the same time, whichever of a  *)
(* restart, a restart-child, a terminate-child or a start-child brought them *)
(* about: a process is replaced only once it is known to be down.            *)
OneIncarnation ==
  \A p, q \in Pids : Alive(p) /\ Alive(q) /\ owner[p] = owner[q] => p = q

(* A supervisor that waits for messages has been told, or will be, of the end *)
(* of every process it lists, unless the child has unlinked it: no child that *)
(* has ended is taken for a running one (do-start-child, monitor-child).      *)
DeathNoticed ==
  /\ TypeOK
  /\ pc = "idle" =>
       \A p \in PidsOf(children) :
         \/ Alive(p) /\ p \in linked
         \/ From("EXIT", p) # {}
         \/ p \in naughty

(* Every DOWN that a shutdown asks for is consumed by that shutdown, so that *)
(* handle-info, which knows only EXIT, never meets one.                      *)
DownConsumed ==
  \A i \in DOMAIN inbox : inbox[i].type = "DOWN" =>
    /\ pc \in {"unlink", "flush", "kill", "await", "down"}
    /\ inbox[i].pid = Current.pid

(* terminate-children ends one child after the other: while one is shut down, *)
(* those before it in the list, the ones added later, have ended.             *)
TeardownInOrder ==
  pc \in {"stop", "monitor", "unlink", "flush", "kill", "await", "down"}
  /\ job # "terminate-child" =>
    \A i \in DOMAIN acc : \A p \in Pids : Alive(p) => owner[p] # acc[i].name

(* A supervisor that goes on has begun at most Intensity restarts in any *)
(* stretch of time of length Period (add-restart, prune-restarts).       *)
IntensityKept ==
  Cardinality({i \in DOMAIN begun : now - begun[i] <= Period}) <= Intensity

(* When the supervisor has ended, so have the processes of its children. *)
AllDown == pc = "stopped" => \A p \in Pids : ~Alive(p)

(* The end of the parent is the end of the supervisor: no shutdown waits for *)
(* ever, in whatever restart or call the EXIT of the parent finds it.        *)
ParentExitEnds == parent = "dead" ~> pc = "stopped"

(* A process that has ended does not stay in the list of a supervisor that *)
(* goes on: it is replaced, marked dead or removed.                        *)
EndedIsReplaced ==
  \A p \in Pids :
    p \in PidsOf(children) /\ Ended(p) ~> p \notin PidsOf(children) \/ pc = "stopped"

=============================================================================
