------------------------------- MODULE Process -------------------------------
(***************************************************************************)
(* The process layer of the Swish runtime (src/src/swish/erlang.ss):       *)
(* process control blocks, links, monitors, exit signals, the registrar    *)
(* and the mailbox seen as the sequence of its messages.                   *)
(*                                                                         *)
(* Every procedure of the process layer runs with interrupts disabled, so  *)
(* one operation of one process is one action.  @kill is the exception: it *)
(* is a recursive cascade over links and monitors, so it is modelled step  *)
(* by step with an explicit stack of activations.  While the stack is not  *)
(* empty no other action is enabled: interrupts stay disabled until the    *)
(* outermost @kill returns.                                                *)
(*                                                                         *)
(* Abstractions: link and monitor lists are sets, so a cascade may visit   *)
(* them in any order; an exit reason is a member of a small set, and the   *)
(* fault conditions that wrap a reason are dropped (the code unwraps them  *)
(* before every test); a message sent by user code has no contents.        *)
(***************************************************************************)
EXTENDS Integers, Sequences, SequencesExt

CONSTANTS
  Pids,        \* the pcb records that can be created
  SystemPids,  \* the event-loop and the finalizer process
  Names,       \* symbols a process can be registered under
  Mons,        \* the mon records that can be created
  Reasons,     \* exit reasons
  None,        \* Scheme's #f
  MaxInbox     \* bound: user sends stop at an inbox of this length

ASSUME ProcessAssumption ==
  /\ SystemPids \subseteq Pids
  /\ {"normal", "kill", "killed"} \subseteq Reasons
  /\ None \notin Pids \cup Names \cup Mons \cup Reasons
  /\ None \notin [origin : Pids, target : Pids]
  /\ MaxInbox \in Nat

VARIABLES
  status,     \* "unborn", "alive" (pcb-inbox is a queue) or "dead" (it is #f)
  reason,     \* pcb-exception-state of a dead process
  inbox,      \* pcb-inbox
  trap,       \* pcb-trap-exit
  name,       \* pcb-name
  registrar,  \* name -> process table
  links,      \* pcb-links
  monitors,   \* pcb-monitors
  mon,        \* the mon records made so far
  fate,       \* history: what the origin did with a monitor
  downs,      \* history: how many DOWN messages a monitor has produced
  pend,       \* the half-done operation of a process, if any
  stack,      \* activations of @kill, innermost first
  halted      \* panic has stopped the program

pvars == <<status, reason, inbox, trap, name, registrar, links, monitors,
           mon, fate, downs, pend, stack, halted>>

-----------------------------------------------------------------------------
(* Data *)

UserMsg == [type |-> "user"]
EXITmsg(p, r) == [type |-> "EXIT", pid |-> p, reason |-> r]
DOWNmsg(m, p, r) == [type |-> "DOWN", mon |-> m, pid |-> p, reason |-> r]

Msgs == {UserMsg}
        \cup [type : {"EXIT"}, pid : Pids, reason : Reasons]
        \cup [type : {"DOWN"}, mon : Mons, pid : Pids, reason : Reasons]

MonRecords == [origin : Pids, target : Pids]

(* One activation of @kill: the process it kills, the reason, the links the *)
(* process had, and those that @kill-linked has still to visit.             *)
Frames == [proc : Pids, reason : Reasons,
           linked : SUBSET Pids, todo : SUBSET Pids]

(* An operation that re-enables interrupts halfway: demonitor&flush between *)
(* its two steps, send to a name between whereis and @send.                 *)
Pending == {None}
           \cup [op : {"flush"}, mon : Mons]
           \cup [op : {"send"}, dest : Pids]

Alive(p) == status[p] = "alive"
Born(p) == status[p] # "unborn"

(* p runs user code: it is alive, interrupts are enabled and it is not      *)
(* inside a compound operation.                                             *)
Running(p) == Alive(p) /\ stack = <<>> /\ pend[p] = None /\ ~halted

(* @send: a dead process has no inbox and the message is dropped *)
Deliver(box, p, msg) ==
  IF Alive(p) THEN [box EXCEPT ![p] = Append(@, msg)] ELSE box

-----------------------------------------------------------------------------
(* @kill *)

(* @remove-links: the dying process p leaves every list of links *)
RemoveLinksOneWay(p) == [links EXCEPT ![p] = {}]
RemoveLinks(p) == [q \in Pids |-> IF q = p THEN {} ELSE links[q] \ {p}]

(* The name of p, if it has one, is free again. *)
ForgetNameNot(p) == registrar
ForgetName(p) == [n \in Names |-> IF n = name[p] THEN None ELSE registrar[n]]

(* @kill up to the call of @kill-linked: the pcb is cleared, the name is    *)
(* given back, and the process is taken out of its links on both sides.     *)
(* The event loop and the finalizer must not die: panic exits the program.  *)
BeginKill(p, r, callers) ==
  IF p \in SystemPids
  THEN /\ halted' = TRUE
       /\ stack' = callers
       /\ UNCHANGED <<status, reason, inbox, trap, name, registrar, links,
                      monitors, mon, fate, downs, pend>>
  ELSE /\ status' = [status EXCEPT ![p] = "dead"]
       /\ reason' = [reason EXCEPT ![p] = r]
       /\ inbox' = [inbox EXCEPT ![p] = <<>>]
       /\ trap' = [trap EXCEPT ![p] = FALSE]
       /\ name' = [name EXCEPT ![p] = None]
       /\ registrar' = ForgetName(p)
       /\ links' = RemoveLinks(p)
       /\ pend' = [pend EXCEPT ![p] = None]
       /\ stack' = <<[proc |-> p, reason |-> r,
                      linked |-> links[p], todo |-> links[p]]>> \o callers
       /\ UNCHANGED <<monitors, mon, fate, downs, halted>>

(* What the exit of a process with reason r does to a process q that was    *)
(* linked to it: a dead one is skipped, one that traps exits is told, any   *)
(* other is killed unless the reason is normal.                             *)
SignalDead(q, r) == CASE trap[q] -> "tell"
                      [] ~trap[q] /\ r # "normal" -> "kill"
                      [] OTHER -> "skip"
SignalNormalFirst(q, r) == CASE ~Alive(q) \/ r = "normal" -> "skip"
                             [] Alive(q) /\ r # "normal" /\ trap[q] -> "tell"
                             [] OTHER -> "kill"
Signal(q, r) == CASE ~Alive(q) -> "skip"
                  [] Alive(q) /\ trap[q] -> "tell"
                  [] Alive(q) /\ ~trap[q] /\ r # "normal" -> "kill"
                  [] OTHER -> "skip"

KillLinkedAgain(q) ==
  /\ stack # <<>> /\ ~halted
  /\ q \in Head(stack).todo
  /\ IF Signal(q, Head(stack).reason) = "kill"
     THEN BeginKill(q, Head(stack).reason, stack)
     ELSE UNCHANGED pvars

(* @kill-linked visits the next process q that was linked to the dying one. *)
KillLinked(q) ==
  LET f == Head(stack)
      rest == <<[f EXCEPT !.todo = @ \ {q}]>> \o Tail(stack)
  IN /\ stack # <<>> /\ ~halted
     /\ q \in f.todo
     /\ IF Signal(q, f.reason) = "kill"
        THEN BeginKill(q, f.reason, rest)
        ELSE /\ stack' = rest
             /\ inbox' = IF Signal(q, f.reason) = "tell"
                         THEN Deliver(inbox, q, EXITmsg(f.proc, f.reason))
                         ELSE inbox
             /\ UNCHANGED <<status, reason, trap, name, registrar, links,
                            monitors, mon, fate, downs, pend, halted>>

(* Monitor m is off the lists of both its ends. *)
ForgetMonitor(m) == [q \in Pids |-> monitors[q] \ {m}]

(* The last loop of @kill: a monitor of the dead process is dropped if it   *)
(* is its origin; otherwise its origin is told.  Either way the other side  *)
(* forgets the monitor too.                                                 *)
KillMonitor(m) ==
  LET f == Head(stack)
      p == f.proc
  IN /\ stack # <<>> /\ ~halted
     /\ f.todo = {}
     /\ m \in monitors[p]
     /\ monitors' = ForgetMonitor(m)
     /\ IF mon[m].origin = p
        THEN UNCHANGED <<inbox, downs>>
        ELSE /\ inbox' = Deliver(inbox, mon[m].origin, DOWNmsg(m, p, f.reason))
             /\ downs' = [downs EXCEPT ![m] = IF Alive(mon[m].origin)
                                              THEN @ + 1 ELSE @]
     /\ UNCHANGED <<status, reason, trap, name, registrar, links, mon, fate,
                    pend, stack, halted>>

(* This activation of @kill returns to its caller. *)
EndKill ==
  /\ stack # <<>> /\ ~halted
  /\ Head(stack).todo = {}
  /\ monitors[Head(stack).proc] = {}
  /\ stack' = Tail(stack)
  /\ UNCHANGED <<status, reason, inbox, trap, name, registrar, links,
                 monitors, mon, fate, downs, pend, halted>>

KillStep ==
  \/ \E q \in Pids : KillLinked(q)
  \/ \E m \in Mons : KillMonitor(m)
  \/ EndKill

-----------------------------------------------------------------------------
(* The operations of a running process p *)

(* @link adds both directions, or neither if the link is there *)
AddLink(p, q) == [links EXCEPT ![p] = @ \cup {q}, ![q] = @ \cup {p}]

spawn(p, q) ==
  /\ Running(p) /\ status[q] = "unborn"
  /\ status' = [status EXCEPT ![q] = "alive"]
  /\ UNCHANGED <<reason, inbox, trap, name, registrar, links, monitors, mon,
                 fate, downs, pend, stack, halted>>

spawnLink(p, q) ==
  /\ Running(p) /\ status[q] = "unborn"
  /\ status' = [status EXCEPT ![q] = "alive"]
  /\ links' = AddLink(p, q)
  /\ UNCHANGED <<reason, inbox, trap, name, registrar, monitors, mon, fate,
                 downs, pend, stack, halted>>

(* The thunk returns, raises, or exits: the process kills itself *)
finish(p, r) ==
  /\ Running(p)
  /\ BeginKill(p, r, <<>>)

(* kill delivers a signal: kill cannot be trapped, normal kills nobody *)
kill(p, q, r) ==
  /\ Running(p) /\ Alive(q)
  /\ CASE r = "kill" -> BeginKill(q, "killed", <<>>)
       [] r # "kill" /\ trap[q] ->
            /\ Len(inbox[q]) < MaxInbox
            /\ inbox' = Deliver(inbox, q, EXITmsg(p, r))
            /\ UNCHANGED <<status, reason, trap, name, registrar, links,
                           monitors, mon, fate, downs, pend, stack, halted>>
       [] r \notin {"kill", "normal"} /\ ~trap[q] -> BeginKill(q, r, <<>>)
       [] OTHER -> UNCHANGED pvars

(* link to a live process; linking to a dead one is as if it died now *)
link(p, q) ==
  /\ Running(p) /\ Born(q) /\ p # q
  /\ CASE Alive(q) ->
            /\ links' = AddLink(p, q)
            /\ UNCHANGED <<status, reason, inbox, trap, name, registrar,
                           monitors, mon, fate, downs, pend, stack, halted>>
       [] ~Alive(q) /\ trap[p] ->
            /\ Len(inbox[p]) < MaxInbox
            /\ inbox' = Deliver(inbox, p, EXITmsg(q, reason[q]))
            /\ UNCHANGED <<status, reason, trap, name, registrar, links,
                           monitors, mon, fate, downs, pend, stack, halted>>
       [] ~Alive(q) /\ ~trap[p] /\ reason[q] # "normal" ->
            BeginKill(p, reason[q], <<>>)
       [] OTHER -> UNCHANGED pvars

unlink(p, q) ==
  /\ Running(p) /\ Born(q)
  /\ links' = [links EXCEPT ![p] = @ \ {q}, ![q] = @ \ {p}]
  /\ UNCHANGED <<status, reason, inbox, trap, name, registrar, monitors, mon,
                 fate, downs, pend, stack, halted>>

(* A monitor of a live process is on the lists of both its ends. *)
AddMonitorAtOrigin(p, q, m) == [monitors EXCEPT ![p] = @ \cup {m}]
AddMonitor(p, q, m) ==
  [monitors EXCEPT ![p] = @ \cup {m}, ![q] = @ \cup {m}]

(* monitor makes a fresh mon; a dead target answers at once *)
monitor(p, q, m) ==
  /\ Running(p) /\ Born(q) /\ mon[m] = None
  /\ mon' = [mon EXCEPT ![m] = [origin |-> p, target |-> q]]
  /\ fate' = [fate EXCEPT ![m] = "watching"]
  /\ IF Alive(q)
     THEN /\ monitors' = AddMonitor(p, q, m)
          /\ UNCHANGED <<inbox, downs>>
     ELSE /\ inbox' = Deliver(inbox, p, DOWNmsg(m, q, reason[q]))
          /\ downs' = [downs EXCEPT ![m] = @ + 1]
          /\ UNCHANGED monitors
  /\ UNCHANGED <<status, reason, trap, name, registrar, links, pend, stack,
                 halted>>

(* Only the origin may demonitor.  Forgetting a monitor does not take back  *)
(* a DOWN message that is already in the inbox.                             *)
RemoveMonitorAtOrigin(p, m) ==
  /\ Running(p)
  /\ mon[m] # None
  /\ mon[m].origin = p
  /\ monitors' = [monitors EXCEPT ![p] = @ \ {m}]

RemoveMonitor(p, m) ==
  /\ Running(p)
  /\ mon[m] # None
  /\ mon[m].origin = p
  /\ monitors' = [monitors EXCEPT ![p] = @ \ {m},
                                  ![mon[m].target] = @ \ {m}]

demonitor(p, m) ==
  /\ RemoveMonitor(p, m)
  /\ fate' = [fate EXCEPT ![m] = IF @ = "watching" THEN "cancelled" ELSE @]
  /\ UNCHANGED <<status, reason, inbox, trap, name, registrar, links, mon,
                 downs, pend, stack, halted>>

demonitorFlush(p, m) ==
  /\ RemoveMonitor(p, m)
  /\ fate' = [fate EXCEPT ![m] = IF @ = "watching" THEN "cancelled" ELSE @]
  /\ pend' = [pend EXCEPT ![p] = [op |-> "flush", mon |-> m]]
  /\ UNCHANGED <<status, reason, inbox, trap, name, registrar, links, mon,
                 downs, stack, halted>>

(* Indices of the DOWN messages of monitor m in the inbox of p *)
DownsOf(p, m) ==
  {i \in 1..Len(inbox[p]) : /\ inbox[p][i].type = "DOWN"
                            /\ inbox[p][i].mon = m}

(* Second half of demonitor&flush: (receive (until 0 #t) [DOWN m #t]) takes *)
(* the first DOWN message of m, if there is one.                            *)
Flush(p) ==
  /\ Alive(p) /\ stack = <<>> /\ ~halted
  /\ pend[p] # None
  /\ pend[p].op = "flush"
  /\ LET m == pend[p].mon
         D == DownsOf(p, m)
     IN /\ IF D = {} THEN UNCHANGED inbox
           ELSE \E i \in D :
                  /\ \A j \in D : i <= j
                  /\ inbox' = [inbox EXCEPT ![p] = RemoveAt(@, i)]
        /\ fate' = [fate EXCEPT ![m] = "flushed"]
  /\ pend' = [pend EXCEPT ![p] = None]
  /\ UNCHANGED <<status, reason, trap, name, registrar, links, monitors, mon,
                 downs, stack, halted>>

processTrapExit(p, b) ==
  /\ Running(p)
  /\ trap' = [trap EXCEPT ![p] = b]
  /\ UNCHANGED <<status, reason, inbox, name, registrar, links, monitors, mon,
                 fate, downs, pend, stack, halted>>

(* register throws, and changes nothing, when q is dead, when q has a name  *)
(* and when the name is taken                                               *)
register(p, n, q) ==
  /\ Running(p) /\ Alive(q)
  /\ name[q] = None
  /\ registrar[n] = None
  /\ name' = [name EXCEPT ![q] = n]
  /\ registrar' = [registrar EXCEPT ![n] = q]
  /\ UNCHANGED <<status, reason, inbox, trap, links, monitors, mon, fate,
                 downs, pend, stack, halted>>

unregister(p, n) ==
  /\ Running(p)
  /\ registrar[n] # None
  /\ name' = [name EXCEPT ![registrar[n]] = None]
  /\ registrar' = [registrar EXCEPT ![n] = None]
  /\ UNCHANGED <<status, reason, inbox, trap, links, monitors, mon, fate,
                 downs, pend, stack, halted>>

send(p, q) ==
  /\ Running(p) /\ Born(q)
  /\ Len(inbox[q]) < MaxInbox
  /\ inbox' = Deliver(inbox, q, UserMsg)
  /\ UNCHANGED <<status, reason, trap, name, registrar, links, monitors, mon,
                 fate, downs, pend, stack, halted>>

(* send to a name looks it up in one critical section ... *)
whereis(p, n) ==
  /\ Running(p)
  /\ registrar[n] # None
  /\ pend' = [pend EXCEPT ![p] = [op |-> "send", dest |-> registrar[n]]]
  /\ UNCHANGED <<status, reason, inbox, trap, name, registrar, links,
                 monitors, mon, fate, downs, stack, halted>>

(* ... and delivers in another: the process found may have died since *)
sendFound(p) ==
  /\ Alive(p) /\ stack = <<>> /\ ~halted
  /\ pend[p] # None
  /\ pend[p].op = "send"
  /\ Len(inbox[pend[p].dest]) < MaxInbox
  /\ inbox' = Deliver(inbox, pend[p].dest, UserMsg)
  /\ pend' = [pend EXCEPT ![p] = None]
  /\ UNCHANGED <<status, reason, trap, name, registrar, links, monitors, mon,
                 fate, downs, stack, halted>>

(* A receive takes the first message that its patterns accept *)
receive(p) ==
  /\ Running(p)
  /\ \E i \in 1..Len(inbox[p]) :
       /\ \A j \in 1..(i - 1) : inbox[p][j] # inbox[p][i]
       /\ inbox' = [inbox EXCEPT ![p] = RemoveAt(@, i)]
  /\ UNCHANGED <<status, reason, trap, name, registrar, links, monitors, mon,
                 fate, downs, pend, stack, halted>>

-----------------------------------------------------------------------------
(* When the library is initialised the running program is one process, and  *)
(* the system processes have been spawned.                                  *)
Init ==
  /\ \E root \in Pids \ SystemPids :
       status = [p \in Pids |-> IF p = root \/ p \in SystemPids
                                THEN "alive" ELSE "unborn"]
  /\ reason = [p \in Pids |-> None]
  /\ inbox = [p \in Pids |-> <<>>]
  /\ trap = [p \in Pids |-> FALSE]
  /\ name = [p \in Pids |-> None]
  /\ registrar = [n \in Names |-> None]
  /\ links = [p \in Pids |-> {}]
  /\ monitors = [p \in Pids |-> {}]
  /\ mon = [m \in Mons |-> None]
  /\ fate = [m \in Mons |-> "unused"]
  /\ downs = [m \in Mons |-> 0]
  /\ pend = [p \in Pids |-> None]
  /\ stack = <<>>
  /\ halted = FALSE

UserStep(p) ==
  \/ \E q \in Pids : \/ spawn(p, q) \/ spawnLink(p, q) \/ link(p, q)
                     \/ unlink(p, q) \/ send(p, q)
  \/ \E r \in Reasons : finish(p, r)
  \/ \E q \in Pids, r \in Reasons : kill(p, q, r)
  \/ \E q \in Pids, m \in Mons : monitor(p, q, m)
  \/ \E m \in Mons : demonitor(p, m) \/ demonitorFlush(p, m)
  \/ Flush(p)
  \/ \E b \in BOOLEAN : processTrapExit(p, b)
  \/ \E n \in Names : whereis(p, n) \/ unregister(p, n)
  \/ \E n \in Names, q \in Pids : register(p, n, q)
  \/ sendFound(p)
  \/ receive(p)

Next == KillStep \/ \E p \in Pids : UserStep(p)

Spec == Init /\ [][Next]_pvars

(* The code between disable-interrupts and enable-interrupts runs to its    *)
(* end: nothing else can be scheduled before the cascade is over.           *)
FairSpec == Spec /\ WF_pvars(KillStep)

-----------------------------------------------------------------------------
(* Properties *)

(* The type of every field of the process layer; exactly the dead processes *)
(* have an exit reason, and a monitor list holds only monitors that exist.  *)
TypeOK ==
  /\ status \in [Pids -> {"unborn", "alive", "dead"}]
  /\ reason \in [Pids -> Reasons \cup {None}]
  /\ inbox \in [Pids -> Seq(Msgs)]
  /\ trap \in [Pids -> BOOLEAN]
  /\ name \in [Pids -> Names \cup {None}]
  /\ registrar \in [Names -> Pids \cup {None}]
  /\ links \in [Pids -> SUBSET Pids]
  /\ monitors \in [Pids -> SUBSET Mons]
  /\ mon \in [Mons -> MonRecords \cup {None}]
  /\ fate \in [Mons -> {"unused", "watching", "cancelled", "flushed"}]
  /\ downs \in [Mons -> Nat]
  /\ pend \in [Pids -> Pending]
  /\ stack \in Seq(Frames)
  /\ halted \in BOOLEAN
  /\ \A p \in Pids : status[p] = "dead" <=> reason[p] # None
  /\ \A p \in Pids : \A m \in monitors[p] : mon[m] # None

(* Links stay bidirectional and join live processes only, even in the       *)
(* middle of a cascade: @kill empties the list of the dying process and     *)
(* @remove-links takes it out of every list it was in.                      *)
LinksConsistent ==
  \A p, q \in Pids :
    q \in links[p] => p \in links[q] /\ Alive(p) /\ Alive(q) /\ p # q

(* The registrar and the pcb-name fields are inverses of each other and     *)
(* name live processes only, so whereis never returns a process that has    *)
(* already died.                                                            *)
RegistrarConsistent ==
  /\ \A n \in Names : registrar[n] # None =>
                        Alive(registrar[n]) /\ name[registrar[n]] = n
  /\ \A p \in Pids : name[p] # None => registrar[name[p]] = p

(* A monitor is on record at its origin exactly when it is on record at its *)
(* target; a dead process keeps no monitor once its @kill has returned.     *)
MonitorsConsistent ==
  /\ \A p \in Pids, m \in Mons :
       m \in monitors[p] =>
         /\ mon[m] # None
         /\ p \in {mon[m].origin, mon[m].target}
         /\ m \in monitors[mon[m].origin]
         /\ m \in monitors[mon[m].target]
  /\ \A p \in Pids : monitors[p] # {} =>
       Alive(p) \/ \E i \in 1..Len(stack) : stack[i].proc = p

(* Outside a cascade, a monitor that its live origin has not cancelled      *)
(* either still watches a live target or has produced exactly one DOWN      *)
(* message; no monitor ever produces two.                                   *)
DownExactlyOnce ==
  \A m \in Mons :
    /\ downs[m] <= 1
    /\ (stack = <<>> /\ fate[m] = "watching" /\ Alive(mon[m].origin)
          /\ mon[m].origin # mon[m].target)
       => \/ Alive(mon[m].target) /\ m \in monitors[mon[m].target]
             /\ downs[m] = 0
          \/ ~Alive(mon[m].target) /\ downs[m] = 1

(* Once demonitor&flush has returned, no DOWN message of that monitor is or *)
(* will be in the inbox, although another process may run (and the target   *)
(* may die) between its two halves.                                         *)
FlushedIsGone ==
  \A m \in Mons : fate[m] = "flushed" => DownsOf(mon[m].origin, m) = {}

(* During a cascade, every process that was linked to the dying one and has *)
(* been visited is dead, or is told of the exit, or (reason normal, no      *)
(* trapping) is left alone, unless a panic has stopped the program.         *)
LinkedAreSignalled ==
  halted \/ \A i \in 1..Len(stack) :
    LET f == stack[i]
    IN \A q \in f.linked \ f.todo :
         Alive(q) =>
           \/ f.reason = "normal" /\ ~trap[q]
           \/ \E j \in 1..Len(inbox[q]) :
                inbox[q][j] = EXITmsg(f.proc, f.reason)

(* Death is final: the exit reason that links and monitors report never     *)
(* changes, and @kill is never entered for a dead process again, even when  *)
(* a cascade meets it along a second path (@kill-linked tests alive?).      *)
KilledOnce(p) ==
  /\ status'[p] = "dead" /\ reason'[p] = reason[p]
  /\ Len(stack') > Len(stack) => Head(stack').proc # p
DeathIsFinal == [][\A p \in Pids : status[p] = "dead" => KilledOnce(p)]_pvars

(* Every cascade ends, whatever the shape of the link graph. *)
CascadeEnds == (stack # <<>>) ~> (stack = <<>> \/ halted)

-----------------------------------------------------------------------------
(* Strengthenings that make the invariants above inductive *)

(* The process of every activation of @kill is dead. *)
KilledAreDead == \A i \in 1..Len(stack) : status[stack[i].proc] = "dead"

(* What the monitor lists say about the history of a monitor. *)
MonitorHistory ==
  \A m \in Mons :
    /\ downs[m] <= 1
    /\ mon[m] = None <=> fate[m] = "unused"
    /\ mon[m] = None => downs[m] = 0
    /\ mon[m] # None => Born(mon[m].origin) /\ Born(mon[m].target)
    /\ (mon[m] # None /\ m \in monitors[mon[m].target])
         => fate[m] = "watching" /\ downs[m] = 0
    /\ (fate[m] = "watching" /\ Alive(mon[m].origin)
          /\ m \notin monitors[mon[m].target])
         => downs[m] = 1 /\ status[mon[m].target] = "dead"

(* Between the halves of demonitor&flush the monitor is off every list. *)
FlushPending ==
  \A p \in Pids :
    (pend[p] # None /\ pend[p].op = "flush") =>
      /\ fate[pend[p].mon] \in {"cancelled", "flushed"}
      /\ mon[pend[p].mon].origin = p

(* A DOWN message is at its origin, and it is the only one of its monitor. *)
InboxHistory ==
  \A p \in Pids, m \in Mons :
    /\ DownsOf(p, m) # {} => mon[m] # None /\ mon[m].origin = p /\ downs[m] = 1
    /\ \A i, j \in DownsOf(p, m) : i = j
=============================================================================
