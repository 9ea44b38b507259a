------------------------------- MODULE Mailbox -------------------------------
(***************************************************************************)
(* The mailbox of one process (src/src/swish/erlang.ss): the doubly-linked *)
(* list with a sentinel that @send appends to, the cursor with which       *)
(* $receive walks it, and the trap-exit handler that may run, and consume  *)
(* messages, whenever the process is resumed.                              *)
(*                                                                         *)
(* A message is the number of its arrival, the sentinel is 0.  The process *)
(* gives up the processor when it waits in $receive and, by preemption,    *)
(* wherever interrupts are enabled: in user code, in the handler and while *)
(* $receive calls the matcher.  Other processes run only then.             *)
(*                                                                         *)
(* The activations of the process are a stack: a $receive, a handler on    *)
(* top of what it interrupted, a $receive called by the handler.  Before   *)
(* and after the call of the handler interrupts are enabled although       *)
(* pcb-handling-exit? is not set, so that activations may be nested there. *)
(***************************************************************************)
EXTENDS Integers, Sequences, FiniteSets

CONSTANTS
  Kinds,            \* kinds of messages that a receive can tell apart
  Sent,             \* the kinds that reach the process by send
  TrapModes,        \* values given to process-trap-exit: "true", "handler"
  HandlersReceive,  \* whether trap-exit handlers call receive
  None,             \* Scheme's #f
  MaxMsgs           \* bound: how many messages arrive

ASSUME MailboxAssumption ==
  /\ "EXIT" \in Kinds
  /\ Sent \subseteq Kinds
  /\ TrapModes \subseteq {"true", "handler"}
  /\ TrapModes # {}
  /\ HandlersReceive \in BOOLEAN
  /\ MaxMsgs \in Nat
  /\ None \notin 0..MaxMsgs

VARIABLES
  kind,      \* the messages that have arrived, by number: their contents
  prev,      \* q-prev; #f marks a message that has been removed
  next,      \* q-next
  trap,      \* process-trap-exit
  exit,      \* pcb-exit?: an exit signal came in as a message
  handling,  \* pcb-handling-exit?: the handler is running
  cpu,       \* "on", "ready", "wait", "check" (in @handle-trap-exit) or
             \* "help" (in @handle-trap-exit-help after a handler's return)
  stack,     \* activations, innermost first
  taken,     \* history: how often each message has been received
  outcome    \* history: how the last receive or handler got its message

mvars == <<kind, prev, next, trap, exit, handling, cpu, stack, taken, outcome>>

-----------------------------------------------------------------------------
(* Data *)

Sentinel == 0
Q == 0..MaxMsgs

(* $receive: what its matcher accepts, whether it has a timeout, the last   *)
(* message it has looked at, and whether it is in the matcher with it.      *)
ReceiveFrames == [type : {"receive"}, accepts : SUBSET Kinds, timed : BOOLEAN,
                  cursor : Q, at : {"find", "match"}]

(* An activation of the trap-exit handler: an EXIT message has been removed *)
(* for it, it is running, or it has returned.                               *)
Starting == [type |-> "handler", at |-> "start"]
HandlerFrame == [type |-> "handler", at |-> "run"]
Ending == [type |-> "handler", at |-> "end"]
HandlerFrames == {Starting, HandlerFrame, Ending}

Arrived == 1..Len(kind)
Cells == Arrived \cup {Sentinel}
Enqueued(m) == prev[m] # None
Inside == {m \in Arrived : Enqueued(m)}

InReceive == stack # <<>> /\ Head(stack).type = "receive"
InUserCode == stack # <<>> => Head(stack) = HandlerFrame
InMatcher == InReceive /\ Head(stack).at = "match"

-----------------------------------------------------------------------------
(* The list: @insert-q at the end of the inbox, and @remove-msg *)

InsertInFront(k) ==
  LET m == Len(kind) + 1
      first == next[Sentinel]
  IN /\ Len(kind) < MaxMsgs
     /\ kind' = Append(kind, k)
     /\ next' = [next EXCEPT ![Sentinel] = m, ![m] = first]
     /\ prev' = [prev EXCEPT ![m] = Sentinel, ![first] = m]

Insert(k) ==
  LET m == Len(kind) + 1
      last == prev[Sentinel]
  IN /\ Len(kind) < MaxMsgs
     /\ kind' = Append(kind, k)
     /\ next' = [next EXCEPT ![last] = m, ![m] = Sentinel]
     /\ prev' = [prev EXCEPT ![m] = last, ![Sentinel] = m]

RemoveMsgUnmarked(m) ==
  /\ next' = [next EXCEPT ![prev[m]] = next[m]]
  /\ prev' = [prev EXCEPT ![next[m]] = prev[m]]
  /\ taken' = [taken EXCEPT ![m] = @ + 1]
  /\ outcome' = <<"message", m>>

(* The next pointer of the removed message stays: it leads a $receive whose *)
(* cursor it is back into the list.                                         *)
RemoveMsg(m) ==
  /\ IF Enqueued(m)
     THEN /\ next' = [next EXCEPT ![prev[m]] = next[m]]
          /\ prev' = [prev EXCEPT ![next[m]] = prev[m], ![m] = None]
     ELSE UNCHANGED <<next, prev>>
  /\ taken' = [taken EXCEPT ![m] = @ + 1]
  /\ outcome' = <<"message", m>>

(* find1 skips what has been removed: the cursors it goes through, starting *)
(* from c, are those in every set that has c and is closed under the next   *)
(* pointers to what has been removed ...                                    *)
Passed(c) ==
  {i \in Cells : \A S \in SUBSET Cells :
     c \in S /\ (\A j \in S : ~Enqueued(next[j]) => next[j] \in S) => i \in S}

(* ... and it ends up before a message in the list, or before the sentinel. *)
Skip(c) == CHOOSE i \in Passed(c) : Enqueued(next[i])

(* find1 with the cursor at c: examine the next message, or wait, or time   *)
(* out.  Whether the waketime has come is left open.                        *)
Find(f, c) ==
  LET i == Skip(c)
      m == next[i]
  IN IF m # Sentinel
     THEN /\ stack' = <<[f EXCEPT !.cursor = m, !.at = "match"]>> \o Tail(stack)
          /\ cpu' = "on"
          /\ UNCHANGED outcome
     ELSE \/ /\ stack' = <<[f EXCEPT !.cursor = i, !.at = "find"]>>
                           \o Tail(stack)
             /\ cpu' = "wait"
             /\ UNCHANGED outcome
          \/ /\ f.timed
             /\ stack' = Tail(stack)
             /\ cpu' = "on"
             /\ outcome' = <<"timeout", 0>>

-----------------------------------------------------------------------------
(* Other processes, and the scheduler *)

ArriveUnnoticed(k, signal) ==
  /\ cpu \in {"ready", "wait"}
  /\ Insert(k)
  /\ exit' = (exit \/ signal)
  /\ UNCHANGED <<trap, handling, cpu, stack, taken, outcome>>

(* @send, or with an exit signal @send-EXIT: the process is made ready *)
Arrive(k, signal) ==
  /\ cpu \in {"ready", "wait"}
  /\ Insert(k)
  /\ exit' = (exit \/ signal)
  /\ cpu' = "ready"
  /\ UNCHANGED <<trap, handling, stack, taken, outcome>>

send(k) == k \in Sent /\ Arrive(k, FALSE)
sendEXIT == Arrive("EXIT", TRUE)

(* The quantum is over where interrupts are enabled. *)
Preempt ==
  /\ cpu = "on"
  /\ cpu' = "ready"
  /\ UNCHANGED <<kind, prev, next, trap, exit, handling, stack, taken, outcome>>

(* The waketime of a sleeping process has come (@event-check), or a         *)
(* keyboard interrupt is to be handled: the process is made ready without a *)
(* message.                                                                 *)
Wake ==
  /\ cpu = "wait"
  /\ cpu' = "ready"
  /\ UNCHANGED <<kind, prev, next, trap, exit, handling, stack, taken, outcome>>

(* The restart point of @yield. *)
Resume ==
  /\ cpu = "ready"
  /\ cpu' = "check"
  /\ UNCHANGED <<kind, prev, next, trap, exit, handling, stack, taken, outcome>>

-----------------------------------------------------------------------------
(* @handle-trap-exit *)

EXITsInside == {m \in Inside : kind[m] = "EXIT"}

(* @handle-trap-exit tests the flags, the loop of its helper does not. *)
Looking == cpu = "help" \/ (cpu = "check" /\ exit /\ ~handling)
HandlerDue == Looking /\ trap = "handler" /\ EXITsInside # {}

(* pcb-exit? after finding nothing to do: it is not reset while a handler   *)
(* is running, so that a look is taken again if the handler raises.         *)
ExitReset == FALSE
ExitAfterCheck == exit /\ ~Looking

(* The first EXIT message in the inbox is removed and interrupts enabled.   *)
HandleTrapExit ==
  /\ HandlerDue
  /\ \E m \in EXITsInside : (\A n \in EXITsInside : m <= n) /\ RemoveMsg(m)
  /\ stack' = <<Starting>> \o stack
  /\ cpu' = "on"
  /\ UNCHANGED <<kind, trap, exit, handling>>

(* The dynamic-wind is entered: the handler is called with the message. *)
HandlerEnter ==
  /\ cpu = "on"
  /\ stack # <<>>
  /\ Head(stack) = Starting
  /\ stack' = <<HandlerFrame>> \o Tail(stack)
  /\ handling' = TRUE
  /\ UNCHANGED <<kind, prev, next, trap, exit, cpu, taken, outcome>>

(* There is nothing (more) to handle: the process goes on where it was. *)
HandleNone ==
  /\ cpu \in {"check", "help"}
  /\ ~HandlerDue
  /\ exit' = ExitAfterCheck
  /\ IF InReceive /\ Head(stack).at = "find"
     THEN Find(Head(stack), Head(stack).cursor)
     ELSE cpu' = "on" /\ UNCHANGED <<stack, outcome>>
  /\ UNCHANGED <<kind, prev, next, trap, handling, taken>>

(* The handler returns, and the dynamic-wind is left. *)
HandlerReturn ==
  /\ cpu = "on"
  /\ stack # <<>>
  /\ Head(stack) = HandlerFrame
  /\ stack' = <<Ending>> \o Tail(stack)
  /\ handling' = FALSE
  /\ UNCHANGED <<kind, prev, next, trap, exit, cpu, taken, outcome>>

(* Interrupts are disabled: look for the next EXIT message. *)
HandlerLoop ==
  /\ cpu = "on"
  /\ stack # <<>>
  /\ Head(stack) = Ending
  /\ stack' = Tail(stack)
  /\ cpu' = "help"
  /\ UNCHANGED <<kind, prev, next, trap, exit, handling, taken, outcome>>

(* The handler raises an exception, which ends what it interrupted: other   *)
(* activations, which have not entered their dynamic-wind or have left it,  *)
(* and the receive below them.                                              *)
HandlerRaise ==
  /\ cpu = "on"
  /\ stack # <<>>
  /\ Head(stack) = HandlerFrame
  /\ stack' = <<>>
  /\ handling' = FALSE
  /\ outcome' = <<"raised", 0>>
  /\ UNCHANGED <<kind, prev, next, trap, exit, cpu, taken>>

-----------------------------------------------------------------------------
(* The process itself *)

(* $receive, up to the first matcher call, wait or timeout, starts in find0 *)
(* with interrupts disabled.                                                *)
receive(S, timed) ==
  /\ cpu = "on"
  /\ InUserCode
  /\ stack # <<>> => HandlersReceive
  /\ stack' = <<[type |-> "receive", accepts |-> S, timed |-> timed,
                 cursor |-> Sentinel, at |-> "find"]>> \o stack
  /\ cpu' = "check"
  /\ UNCHANGED <<kind, prev, next, trap, exit, handling, taken, outcome>>

(* The matcher accepts the message. *)
Match ==
  /\ cpu = "on"
  /\ InMatcher
  /\ kind[Head(stack).cursor] \in Head(stack).accepts
  /\ RemoveMsg(Head(stack).cursor)
  /\ stack' = Tail(stack)
  /\ UNCHANGED <<kind, trap, exit, handling, cpu>>

(* The matcher does not: go on behind it. *)
Mismatch ==
  /\ cpu = "on"
  /\ InMatcher
  /\ kind[Head(stack).cursor] \notin Head(stack).accepts
  /\ Find(Head(stack), Head(stack).cursor)
  /\ UNCHANGED <<kind, prev, next, trap, exit, handling, taken>>

processTrapExit(x) ==
  /\ cpu = "on"
  /\ InUserCode
  /\ trap' = x
  /\ UNCHANGED <<kind, prev, next, exit, handling, cpu, stack, taken, outcome>>

(* The process sends itself a message, or an exit signal that it traps. *)
SendSelf(k) ==
  /\ cpu = "on"
  /\ InUserCode
  /\ Insert(k)
  /\ exit' = (exit \/ k = "EXIT")
  /\ UNCHANGED <<trap, handling, cpu, stack, taken, outcome>>

-----------------------------------------------------------------------------
Init ==
  /\ kind = <<>>
  /\ prev = [m \in Q |-> IF m = Sentinel THEN Sentinel ELSE None]
  /\ next = [m \in Q |-> IF m = Sentinel THEN Sentinel ELSE None]
  /\ trap \in TrapModes
  /\ exit = FALSE
  /\ handling = FALSE
  /\ cpu = "on"
  /\ stack = <<>>
  /\ taken = [m \in 1..MaxMsgs |-> 0]
  /\ outcome = <<"none", 0>>

Next ==
  \/ \E k \in Kinds : send(k) \/ SendSelf(k)
  \/ sendEXIT
  \/ Preempt \/ Wake \/ Resume
  \/ HandleTrapExit \/ HandleNone
  \/ HandlerEnter \/ HandlerReturn \/ HandlerLoop \/ HandlerRaise
  \/ \E S \in SUBSET Kinds, timed \in BOOLEAN : receive(S, timed)
  \/ Match \/ Mismatch
  \/ \E x \in TrapModes : processTrapExit(x)

Spec == Init /\ [][Next]_mvars

-----------------------------------------------------------------------------
(* Properties *)

(* The type of every field; a process that is in no queue waits in receive. *)
TypeOK ==
  /\ kind \in Seq(Kinds)
  /\ Len(kind) <= MaxMsgs
  /\ prev \in [Q -> Q \cup {None}]
  /\ next \in [Q -> Q \cup {None}]
  /\ trap \in TrapModes
  /\ exit \in BOOLEAN
  /\ handling \in BOOLEAN
  /\ cpu \in {"on", "check", "help", "ready", "wait"}
  /\ stack \in Seq(ReceiveFrames \cup HandlerFrames)
  /\ taken \in [1..MaxMsgs -> Nat]
  /\ cpu = "wait" => InReceive
  /\ outcome \in {"none", "raised", "timeout", "message"} \X Q

(* The inbox is one doubly-linked cycle through the sentinel that holds the *)
(* messages that have not been removed in the order of their arrival, and a *)
(* removed message still points forwards, so that no walk runs in circles.  *)
ListConsistent ==
  /\ TypeOK
  /\ \A m \in Inside \cup {Sentinel} :
       /\ next[m] \in Inside \cup {Sentinel}
       /\ prev[next[m]] = m
       /\ next[prev[m]] = m
       /\ \A n \in Inside : n > m => next[m] # Sentinel /\ next[m] <= n
  /\ \A m \in Arrived : next[m] = Sentinel \/ next[m] > m

(* A process waits in receive only when its inbox holds no message that the *)
(* receive accepts.                                                         *)
NothingMissed ==
  cpu = "wait" => \A m \in Inside : kind[m] \notin Head(stack).accepts

(* No message is received twice, and a message leaves the inbox only by     *)
(* being received.                                                          *)
ReceivedOnce ==
  \A m \in Arrived : taken[m] = IF Enqueued(m) THEN 0 ELSE 1

(* A process that always traps exits with a handler never has an exit       *)
(* message in its inbox that it has forgotten about: the flag that makes it *)
(* look for one is still set.  And it looks whenever it may: at most one    *)
(* handler is running, and only while the flag says so, also when           *)
(* activations are nested, when a handler raises an exception or waits in a *)
(* receive of its own; nothing but that receive interrupts it.              *)
ExitsAreFlagged ==
  /\ EXITsInside # {} => exit
  /\ Cardinality({i \in 1..Len(stack) : stack[i] = HandlerFrame})
       = IF handling THEN 1 ELSE 0
  /\ \A i, j \in 1..Len(stack) :
       i < j /\ stack[j] = HandlerFrame => stack[i].type = "receive"

(* src/doc/swish/erlang.tex:992: the scheduler retrieves the first exit     *)
(* message, invokes the handler on that message, and repeats this.  So an   *)
(* activation that has removed a message ends only by calling the handler.  *)
Activations == {i \in 1..Len(stack) : stack[i] = Starting}
ExitsAreHandled ==
  [][Cardinality(Activations') < Cardinality(Activations) => handling']_mvars

(* The mailbox implements an inbox from which receive takes the first       *)
(* message it accepts, and gives up only when there is none, although it    *)
(* looks at one message at a time while others arrive or go to the handler. *)
Accepted == {stack[i].accepts : i \in {j \in 1..Len(stack) : stack[j].type = "receive"}}
Abstract == INSTANCE Inbox WITH box <- Inside, wants <- Accepted
ImplementsInbox == Abstract!Spec
=============================================================================
