----------------------------- MODULE SendRequest -----------------------------
(***************************************************************************)
(* osi_send_request (src/src/swish/osi.c): a thread that is not the Scheme *)
(* thread has a function called by the event loop, and goes on when it has *)
(* returned.  All threads share one slot, g_send_request, with a mutex, an *)
(* async handle and a condition variable on which they wait their turn; the *)
(* sender waits on a condition variable in its own frame, where its payload *)
(* may be too.  A wait may end without a signal.                           *)
(***************************************************************************)
EXTENDS Naturals, FiniteSets

CONSTANTS
  Threads,    \* threads other than the Scheme thread
  MaxSends,   \* requests a thread sends
  None

ASSUME SendAssumption ==
  MaxSends \in Nat /\ None \notin Threads \cup {"loop"} /\ "loop" \notin Threads

VARIABLES
  mutex,    \* the thread that holds it
  async,    \* uv_async_send has been called, the callback has not
  code,     \* whose function and payload are in the slot
  sender,   \* whose condition variable is in the slot
  conds,    \* the threads whose own condition variable exists
  at,       \* where in osi_send_request a thread is
  loop,     \* where the Scheme thread is
  sends,    \* requests sent by a thread
  ran,      \* how often the function of a thread's last request was called
  failed    \* an uv_async_send has failed

slot == <<async, code, sender>>
vars == <<mutex, slot, conds, at, loop, sends, ran, failed>>

(* Who holds the mutex is where it may hold it. *)
TypeOK ==
  /\ mutex \in Threads \cup {"loop", None}
  /\ async \in BOOLEAN /\ failed \in BOOLEAN
  /\ code \in Threads \cup {None} /\ sender \in Threads \cup {None}
  /\ conds \subseteq Threads
  /\ at \in [Threads -> {"idle", "lock", "test", "turn", "store", "own", "relock", "check"}]
  /\ loop \in {"scheme", "uv_run", "lock", "code"}
  /\ sends \in [Threads -> 0..MaxSends] /\ ran \in [Threads -> Nat]
  /\ \A t \in Threads : mutex = t <=> at[t] \in {"test", "store", "check"}
  /\ mutex = "loop" <=> loop = "code"

Init ==
  /\ mutex = None /\ async = FALSE /\ code = None /\ sender = None /\ conds = {}
  /\ at = [t \in Threads |-> "idle"] /\ loop = "scheme"
  /\ sends = [t \in Threads |-> 0] /\ ran = [t \in Threads |-> 0] /\ failed = FALSE

-----------------------------------------------------------------------------
(* osi_send_request *)

Go(t, place) == at' = [at EXCEPT ![t] = place]

osi_send_request(t) ==
  /\ at[t] = "idle" /\ sends[t] < MaxSends
  /\ sends' = [sends EXCEPT ![t] = @ + 1] /\ ran' = [ran EXCEPT ![t] = 0]
  /\ Go(t, "lock")
  /\ UNCHANGED <<mutex, slot, conds, loop, failed>>

(* uv_mutex_lock, also at the end of uv_cond_wait. *)
Lock(t) ==
  /\ at[t] \in {"lock", "relock"} /\ mutex = None
  /\ mutex' = t
  /\ Go(t, IF at[t] = "lock" THEN "test" ELSE "check")
  /\ UNCHANGED <<slot, conds, loop, sends, ran, failed>>

TakenNever == FALSE
Taken == sender # None
Unlock == mutex' = None

(* Wait for a turn, or send; if that fails, return. *)
TakeTurn(t) ==
  /\ at[t] = "test"
  /\ \/ /\ Taken
        /\ Go(t, "turn") /\ mutex' = None
        /\ UNCHANGED <<async, failed>>
     \/ /\ ~Taken
        /\ async' = TRUE
        /\ Go(t, "store") /\ UNCHANGED <<mutex, failed>>
     \/ /\ ~Taken
        /\ failed' = TRUE
        /\ Go(t, "idle") /\ Unlock
        /\ UNCHANGED async
  /\ UNCHANGED <<code, sender, conds, loop, sends, ran>>

(* uv_cond_init *)
OwnCondNot(t) == conds
OwnCond(t) == conds \cup {t}

(* Fill the slot, and wait for the callback to empty it. *)
Store(t) ==
  /\ at[t] = "store"
  /\ code' = t /\ sender' = t /\ conds' = OwnCond(t)
  /\ Go(t, "own") /\ mutex' = None
  /\ UNCHANGED <<async, loop, sends, ran, failed>>

(* uv_cond_signal of the shared condition: one of those that wait is woken. *)
LetNextInNot(t) == Go(t, "idle")
LetNextIn(t) ==
  LET turn == {u \in Threads : at[u] = "turn"}
  IN IF turn = {} THEN Go(t, "idle")
     ELSE \E u \in turn : at' = [at EXCEPT ![t] = "idle", ![u] = "lock"]

Consumed(t) == sender # t
Check(t) ==
  /\ at[t] = "check"
  /\ mutex' = None
  /\ IF Consumed(t)
     THEN LetNextIn(t) /\ conds' = conds \ {t}
     ELSE Go(t, "own") /\ UNCHANGED conds
  /\ UNCHANGED <<slot, loop, sends, ran, failed>>

Spurious(t) ==
  /\ \/ at[t] = "turn" /\ Go(t, "lock")
     \/ at[t] = "own" /\ Go(t, "relock")
  /\ UNCHANGED <<mutex, slot, conds, loop, sends, ran, failed>>

-----------------------------------------------------------------------------
(* The Scheme thread *)

osi_get_callbacks ==
  /\ \/ loop = "scheme" /\ loop' = "uv_run"
     \/ loop = "uv_run" /\ ~async /\ loop' = "scheme"
  /\ UNCHANGED <<mutex, slot, conds, at, sends, ran, failed>>

send_request_begin ==
  /\ loop = "uv_run" /\ async
  /\ async' = FALSE /\ loop' = "lock"
  /\ UNCHANGED <<mutex, code, sender, conds, at, sends, ran, failed>>

send_request_lock ==
  /\ loop = "lock" /\ mutex = None
  /\ mutex' = "loop" /\ loop' = "code"
  /\ UNCHANGED <<slot, conds, at, sends, ran, failed>>

(* The function is called, the slot is emptied and the sender signalled; if *)
(* it does not wait, it has been woken already and will find the slot empty. *)
send_request_async_cb ==
  /\ loop = "code"
  /\ ran' = IF code = None THEN ran ELSE [ran EXCEPT ![code] = @ + 1]
  /\ code' = None /\ sender' = None
  /\ at' = IF sender # None /\ at[sender] = "own" THEN [at EXCEPT ![sender] = "relock"]
           ELSE at
  /\ mutex' = None /\ loop' = "uv_run"
  /\ UNCHANGED <<async, conds, sends, failed>>

-----------------------------------------------------------------------------
thread(t) == TakeTurn(t) \/ Store(t) \/ Check(t)
scheme ==
  osi_get_callbacks \/ send_request_begin \/ send_request_async_cb

Next ==
  \/ scheme \/ send_request_lock
  \/ \E t \in Threads : thread(t) \/ Lock(t) \/ osi_send_request(t) \/ Spurious(t)

Spec == Init /\ [][Next]_vars

(* Threads run, the event loop polls again and again, and a mutex that is   *)
(* given up again and again is granted in the end.                         *)
FairSpec ==
  /\ Spec
  /\ WF_vars(scheme) /\ SF_vars(send_request_lock)
  /\ \A t \in Threads : WF_vars(thread(t)) /\ SF_vars(Lock(t))

-----------------------------------------------------------------------------
(* When the event loop calls a request, the frame of its sender is still     *)
(* there: it has not returned, its condition variable exists, and the        *)
(* function, the payload and the condition belong to the same thread.        *)
RequestIsLive ==
  /\ TypeOK
  /\ loop = "code" =>
       /\ sender # None /\ code = sender
       /\ sender \in conds /\ at[sender] \in {"own", "relock"}

(* Why it holds: a callback is due exactly while the slot is full or about to *)
(* be filled by the thread that holds the mutex, and never two of them.      *)
Pending == async \/ loop \in {"lock", "code"}
Filling == \E t \in Threads : at[t] = "store"
SlotInv ==
  /\ code = sender
  /\ sender # None => sender \in conds
  /\ \A t \in Threads : t \in conds <=> at[t] \in {"own", "relock", "check"}
  /\ Pending => sender # None \/ Filling
  /\ ~(async /\ loop \in {"lock", "code"})
  /\ Filling => sender = None

(* The function of a request has been called as often as the slot says. *)
RanInv ==
  \A t \in Threads :
    /\ at[t] \in {"lock", "test", "turn", "store"} => ran[t] = 0
    /\ t \in conds => ran[t] = IF sender = t THEN 0 ELSE 1

(* osi_send_request returns 0 only when its function has been called, once,  *)
(* whoever else sends and however often it is woken.                         *)
ReturnsWhenRun ==
  [][\A t \in Threads : at[t] = "check" /\ at'[t] = "idle" => ran[t] = 1]_vars

(* No wake-up is lost: every request returns, as long as uv_async_send does   *)
(* not fail (one that fails returns without letting the next thread in).     *)
EveryRequestReturns ==
  \A t \in Threads : (at[t] # "idle") ~> (at[t] = "idle" \/ failed)
=============================================================================
