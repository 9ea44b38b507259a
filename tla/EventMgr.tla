------------------------------- MODULE EventMgr -------------------------------
(***************************************************************************)
(* The event manager (src/src/swish/event-mgr.ss and event-mgr-notify.ss):  *)
(* a gen-server that buffers events until it is told to flush, and from then *)
(* on gives each event to its handlers and to the log handler, or to the     *)
(* console if there is none.  A handler has an owner, to which the manager   *)
(* is linked.  Events are numbered in the order in which they are sent.      *)
(* The log handler is the one that log-db.ss installs: it sends the event to  *)
(* the database server, which is its owner.                                  *)
(***************************************************************************)
EXTENDS DbServer

CONSTANTS
  Owners,      \* owners of handlers other than the log handler
  MaxEvents    \* events in a behaviour

ASSUME EmAssumption == IsFiniteSet(Owners) /\ "log-db" \notin Owners /\ MaxEvents \in Nat

VARIABLES
  emState,       \* "up" or "ended"
  registered,    \* the name event-mgr is registered
  emInbox,       \* the messages of the manager
  buffering,     \* event-buffer is not #f
  event_buffer,  \* its events, the newest first
  pending,       \* what do-flush-buffer has left of them
  log_handler,   \* there is a log handler
  logLinked,     \* the manager is linked to the owner of the log handler
  handlers,      \* owners of the other handlers
  adding,        \* owners that have not called add-handler
  ended,         \* owners that have ended
  replied,       \* the call under way has been answered
  console,       \* events written to the console
  looking,       \* a process has looked up event-mgr and not yet sent its event
  events,        \* number of events so far
  late           \* those that the shutdown may lose: see Logging

emVars == <<emState, registered, emInbox, buffering, event_buffer, pending, log_handler,
            logLinked, handlers, adding, ended, replied, console, looking, events, late>>

Notify(e) == [type |-> "notify", event |-> e]
Asks(what) == [type |-> what]
AddHandler(o) == [type |-> "add-handler", owner |-> o]
ExitOf(p) == [type |-> "EXIT", owner |-> p]
ExitsOf(dying) == [i \in 1..Cardinality(dying) |-> ExitOf(SetToSeq(dying)[i])]

EmInit ==
  /\ emState = "up" /\ registered = TRUE /\ emInbox = <<>>
  /\ buffering = TRUE /\ event_buffer = <<>> /\ pending = <<>>
  /\ log_handler = FALSE /\ logLinked = FALSE
  /\ handlers = {} /\ adding = Owners /\ ended = {} /\ replied = FALSE
  /\ console = {} /\ looking = FALSE /\ events = 0 /\ late = {}

-----------------------------------------------------------------------------
(* event-mgr:notify looks the name up and then sends, and writes to the       *)
(* console if there is no such name.                                         *)

notify ==
  /\ events < MaxEvents /\ ~looking
  /\ \/ registered /\ looking' = TRUE /\ UNCHANGED <<console, events>>
     \/ /\ ~registered
        /\ events' = events + 1 /\ console' = console \cup {events'}
        /\ UNCHANGED looking
  /\ UNCHANGED <<emState, registered, emInbox, buffering, event_buffer, pending, log_handler,
                 logLinked, handlers, adding, ended, replied, late>>

notifySend ==
  /\ looking /\ looking' = FALSE
  /\ events' = events + 1
  /\ emInbox' = IF emState = "up" THEN Append(emInbox, Notify(events')) ELSE emInbox
  /\ UNCHANGED <<emState, registered, buffering, event_buffer, pending, log_handler,
                 logLinked, handlers, adding, ended, replied, console>>

(* event-mgr:add-handler, for the process that calls it. *)
addHandler(o) ==
  /\ o \in adding /\ emState = "up" /\ registered
  /\ adding' = adding \ {o} /\ emInbox' = Append(emInbox, AddHandler(o))
  /\ UNCHANGED <<emState, registered, buffering, event_buffer, pending, log_handler,
                 logLinked, handlers, ended, replied, console, looking, events, late>>

(* An owner ends, perhaps before the manager has linked to it.               *)
ownerEnds(o) ==
  /\ o \in Owners \ (adding \cup ended) /\ emState = "up"
  /\ ended' = ended \cup {o}
  /\ emInbox' = IF o \in handlers THEN Append(emInbox, ExitOf(o)) ELSE emInbox
  /\ UNCHANGED <<emState, registered, buffering, event_buffer, pending, log_handler,
                 logLinked, handlers, adding, replied, console, looking, events, late>>

-----------------------------------------------------------------------------
(* do-notify *)

(* The log handler does its work, or fails before or after it has; then the   *)
(* fault is endured, or the owner is unlinked and killed, which it traps, and  *)
(* the events go to the console from then on.                                *)
CallLogHandler(e) ==
  \/ /\ ~log_handler
     /\ console' = console \cup {e}
     /\ UNCHANGED <<log_handler, logLinked, dbInbox>>
  \/ /\ log_handler /\ Send(<<LogMsg(e)>>)
     /\ UNCHANGED <<console, log_handler, logLinked>>
  \/ /\ log_handler /\ \E done \in {<<>>, <<LogMsg(e)>>} :
          \/ Send(done) /\ UNCHANGED <<log_handler, logLinked>>
          \/ Send(Append(done, ExitMsg)) /\ log_handler' = FALSE /\ logLinked' = FALSE
     /\ console' = console \cup {e}

(* Every handler is called; the owners of those that fail are killed, and     *)
(* their EXIT messages come after what is in the inbox.                      *)
DoNotify(e, inbox) ==
  /\ \E dying \in SUBSET (handlers \ ended) :
       /\ ended' = ended \cup dying
       /\ emInbox' = inbox \o ExitsOf(dying)
  /\ CallLogHandler(e)

-----------------------------------------------------------------------------
(* The messages of the manager *)

EmTakes(type) ==
  /\ emState = "up" /\ pending = <<>>
  /\ emInbox # <<>> /\ Head(emInbox).type = type
EmTaken == emInbox' = Tail(emInbox)

BufferedLast(e) == Append(event_buffer, e)
Buffered(e) == <<e>> \o event_buffer
handle_notify ==
  /\ EmTakes("notify")
  /\ LET e == Head(emInbox).event
     IN \/ /\ buffering
           /\ event_buffer' = Buffered(e) /\ EmTaken
           /\ UNCHANGED <<log_handler, logLinked, ended, console, dbInbox>>
        \/ /\ ~buffering
           /\ DoNotify(e, Tail(emInbox))
           /\ UNCHANGED event_buffer
  /\ UNCHANGED <<emState, registered, buffering, pending, handlers, adding, replied,
                 looking, events, late>>

(* flush-buffer: do-notify of every event of the buffer, the oldest first.   *)
flush_buffer ==
  /\ EmTakes("flush-buffer") /\ EmTaken
  /\ pending' = event_buffer /\ event_buffer' = <<>> /\ buffering' = FALSE
  /\ replied' = (event_buffer = <<>>)
  /\ UNCHANGED <<emState, registered, log_handler, logLinked, handlers, adding, ended,
                 console, looking, events, late, dbInbox>>

do_flush_buffer ==
  /\ emState = "up" /\ pending # <<>>
  /\ DoNotify(Last(pending), emInbox)
  /\ pending' = Front(pending) /\ replied' = (pending' = <<>>)
  /\ UNCHANGED <<emState, registered, buffering, event_buffer, handlers, adding, looking,
                 events, late>>

(* To link to an owner that has ended is to receive its EXIT at once.        *)
LinkedExitNot(p, gone) == <<>>
LinkedExit(p, gone) == IF gone THEN <<ExitOf(p)>> ELSE <<>>

add_handler ==
  /\ EmTakes("add-handler")
  /\ LET o == Head(emInbox).owner
     IN /\ handlers' = handlers \cup {o}
        /\ emInbox' = Tail(emInbox) \o LinkedExit(o, o \in ended)
  /\ UNCHANGED <<emState, registered, buffering, event_buffer, pending, log_handler,
                 logLinked, adding, ended, replied, console, looking, events, late, dbInbox>>

set_log_handler ==
  /\ EmTakes("set-log-handler")
  /\ log_handler' = TRUE /\ logLinked' = DbAlive /\ replied' = TRUE
  /\ emInbox' = Tail(emInbox) \o LinkedExit("log-db", ~DbAlive)
  /\ UNCHANGED <<emState, registered, buffering, event_buffer, pending, handlers, adding,
                 ended, console, looking, events, late, dbInbox>>

unregister ==
  /\ EmTakes("unregister") /\ EmTaken
  /\ registered' = FALSE /\ replied' = TRUE
  /\ UNCHANGED <<emState, buffering, event_buffer, pending, log_handler, logLinked, handlers,
                 adding, ended, console, looking, events, late, dbInbox>>

owner_exit ==
  /\ EmTakes("EXIT") /\ EmTaken
  /\ LET p == Head(emInbox).owner
     IN IF log_handler /\ p = "log-db"
        THEN log_handler' = FALSE /\ UNCHANGED handlers
        ELSE handlers' = handlers \ {p} /\ UNCHANGED log_handler
  /\ UNCHANGED <<emState, registered, buffering, event_buffer, pending, logLinked, adding,
                 ended, replied, console, looking, events, late, dbInbox>>

(* The EXIT of the parent: what is still in the buffer goes to the console.   *)
em_terminate ==
  /\ EmTakes("parent-EXIT")
  /\ emState' = "ended" /\ emInbox' = <<>> /\ registered' = FALSE
  /\ console' = console \cup ToSet(event_buffer) /\ event_buffer' = <<>> /\ buffering' = FALSE
  /\ UNCHANGED <<pending, log_handler, logLinked, handlers, adding, ended, replied, looking,
                 events, late, dbInbox>>

EmMsgs ==
  [type : {"notify"}, event : Nat] \cup [type : {"add-handler"}, owner : Owners]
    \cup [type : {"EXIT"}, owner : Owners \cup {"log-db"}]
    \cup [type : {"set-log-handler", "flush-buffer", "unregister", "parent-EXIT"}]

EmTypeOK ==
  /\ emState \in {"up", "ended"} /\ emInbox \in Seq(EmMsgs)
  /\ event_buffer \in Seq(Nat) /\ pending \in Seq(Nat)
  /\ registered \in BOOLEAN /\ buffering \in BOOLEAN /\ log_handler \in BOOLEAN
  /\ logLinked \in BOOLEAN /\ replied \in BOOLEAN /\ looking \in BOOLEAN
  /\ handlers \subseteq Owners /\ adding \subseteq Owners /\ ended \subseteq Owners
  /\ console \subseteq Nat /\ late \subseteq Nat
  /\ events \in 0..MaxEvents /\ (looking => events < MaxEvents)

emLoop ==
  \/ handle_notify \/ flush_buffer \/ do_flush_buffer \/ add_handler \/ set_log_handler
  \/ unregister \/ owner_exit \/ em_terminate
=============================================================================
