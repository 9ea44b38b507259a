-------------------------- MODULE SendRequestProofs --------------------------
(***************************************************************************)
(* Proofs about SendRequest, for any set of threads and any number of       *)
(* requests.  The inductive invariant is Inv: TypeOK (which says where the  *)
(* holder of the mutex is), SlotInv and RanInv.                             *)
(***************************************************************************)
EXTENDS SendRequest, TLAPS

Inv == TypeOK /\ SlotInv /\ RanInv

(* In osi_init's state nothing is under way. *)
LEMMA InitInv == Init => Inv
<1> SUFFICES ASSUME Init PROVE Inv
  OBVIOUS
<1>1. TypeOK
  <2>1. /\ \A t \in Threads : mutex # t /\ at[t] = "idle"
        /\ mutex # "loop" /\ loop = "scheme"
    BY SendAssumption DEF Init
  <2>2. /\ sends \in [Threads -> 0..MaxSends] /\ ran \in [Threads -> Nat]
        /\ at \in [Threads -> {"idle", "lock", "test", "turn", "store", "own", "relock", "check"}]
    BY SendAssumption DEF Init
  <2>3. async \in BOOLEAN /\ failed \in BOOLEAN
    BY DEF Init
  <2> QED
    BY <2>1, <2>2, <2>3 DEF Init, TypeOK
<1>2. SlotInv
  BY SendAssumption DEF Init, SlotInv, Pending, Filling
<1>3. RanInv
  BY DEF Init, RanInv
<1> QED
  BY <1>1, <1>2, <1>3 DEF Inv

(* Every step of a thread or of the event loop keeps the types, and lets    *)
(* only the holder of the mutex be where the mutex is held.                 *)
LEMMA TypeStep == Inv /\ [Next]_vars => TypeOK'
<1> SUFFICES ASSUME Inv, [Next]_vars PROVE TypeOK'
  OBVIOUS
<1> USE SendAssumption DEF Inv, TypeOK, Go
<1>1. CASE osi_get_callbacks \/ send_request_begin \/ send_request_lock
  BY <1>1 DEF osi_get_callbacks, send_request_begin, send_request_lock, slot
<1>2. CASE send_request_async_cb
  BY <1>2 DEF send_request_async_cb, SlotInv
<1>3. ASSUME NEW t \in Threads, osi_send_request(t) PROVE TypeOK'
  BY <1>3 DEF osi_send_request, slot
<1>4. ASSUME NEW t \in Threads, Lock(t) PROVE TypeOK'
  BY <1>4 DEF Lock, slot
<1>5. ASSUME NEW t \in Threads, TakeTurn(t) PROVE TypeOK'
  <2>1. mutex = t /\ \A u \in Threads : u # t => at'[u] = at[u] /\ at[u] \notin {"test", "store", "check"}
    BY <1>5 DEF TakeTurn
  <2>2. /\ at' \in [Threads -> {"idle", "lock", "test", "turn", "store", "own", "relock", "check"}]
        /\ \/ at'[t] \in {"turn", "idle"} /\ mutex' = None
           \/ at'[t] = "store" /\ mutex' = t
    BY <1>5, <2>1 DEF TakeTurn, Unlock
  <2>3. async' \in BOOLEAN /\ failed' \in BOOLEAN
    BY <1>5 DEF TakeTurn
  <2> QED
    BY <1>5, <2>1, <2>2, <2>3 DEF TakeTurn
<1>6. ASSUME NEW t \in Threads, Store(t) PROVE TypeOK'
  BY <1>6 DEF Store, OwnCond
<1>7. ASSUME NEW t \in Threads, Check(t) PROVE TypeOK'
  BY <1>7 DEF Check, Consumed, LetNextIn, slot
<1>8. ASSUME NEW t \in Threads, Spurious(t) PROVE TypeOK'
  BY <1>8 DEF Spurious, slot
<1>9. CASE UNCHANGED vars
  BY <1>9 DEF vars, slot
<1> QED
  BY <1>1, <1>2, <1>3, <1>4, <1>5, <1>6, <1>7, <1>8, <1>9 DEF Next, scheme, thread

(* The slot: only the thread that holds the mutex fills it, and only the    *)
(* callback that holds the mutex empties it.                                *)
LEMMA SlotStep == Inv /\ [Next]_vars => SlotInv'
<1> SUFFICES ASSUME Inv, [Next]_vars PROVE SlotInv'
  OBVIOUS
<1> USE SendAssumption DEF Inv, TypeOK, SlotInv, Pending, Filling, Go
<1>1. CASE osi_get_callbacks \/ send_request_begin \/ send_request_lock
  BY <1>1 DEF osi_get_callbacks, send_request_begin, send_request_lock, slot
<1>2. CASE send_request_async_cb
  BY <1>2 DEF send_request_async_cb
<1>3. ASSUME NEW t \in Threads, osi_send_request(t) PROVE SlotInv'
  BY <1>3 DEF osi_send_request, slot
<1>4. ASSUME NEW t \in Threads, Lock(t) PROVE SlotInv'
  BY <1>4 DEF Lock, slot
<1>5. ASSUME NEW t \in Threads, TakeTurn(t) PROVE SlotInv'
  BY <1>5 DEF TakeTurn, Taken, Unlock
<1>6. ASSUME NEW t \in Threads, Store(t) PROVE SlotInv'
  BY <1>6 DEF Store, OwnCond
<1>7. ASSUME NEW t \in Threads, Check(t) PROVE SlotInv'
  BY <1>7 DEF Check, Consumed, LetNextIn, slot
<1>8. ASSUME NEW t \in Threads, Spurious(t) PROVE SlotInv'
  BY <1>8 DEF Spurious, slot
<1>9. CASE UNCHANGED vars
  BY <1>9 DEF vars, slot
<1> QED
  BY <1>1, <1>2, <1>3, <1>4, <1>5, <1>6, <1>7, <1>8, <1>9 DEF Next, scheme, thread

(* A function is called by the callback that empties the slot and by nobody  *)
(* else.                                                                     *)
LEMMA RanStep == Inv /\ [Next]_vars => RanInv'
<1> SUFFICES ASSUME Inv, [Next]_vars PROVE RanInv'
  OBVIOUS
<1> USE SendAssumption DEF Inv, TypeOK, SlotInv, RanInv, Go
<1>1. CASE osi_get_callbacks \/ send_request_begin \/ send_request_lock
  BY <1>1 DEF osi_get_callbacks, send_request_begin, send_request_lock, slot
<1>2. CASE send_request_async_cb
  BY <1>2 DEF send_request_async_cb
<1>3. ASSUME NEW t \in Threads, osi_send_request(t) PROVE RanInv'
  BY <1>3 DEF osi_send_request, slot
<1>4. ASSUME NEW t \in Threads, Lock(t) PROVE RanInv'
  BY <1>4 DEF Lock, slot
<1>5. ASSUME NEW t \in Threads, TakeTurn(t) PROVE RanInv'
  BY <1>5 DEF TakeTurn, Taken, Unlock
<1>6. ASSUME NEW t \in Threads, Store(t) PROVE RanInv'
  BY <1>6 DEF Store, OwnCond, Filling
<1>7. ASSUME NEW t \in Threads, Check(t) PROVE RanInv'
  BY <1>7 DEF Check, Consumed, LetNextIn, slot
<1>8. ASSUME NEW t \in Threads, Spurious(t) PROVE RanInv'
  BY <1>8 DEF Spurious, slot
<1>9. CASE UNCHANGED vars
  BY <1>9 DEF vars, slot
<1> QED
  BY <1>1, <1>2, <1>3, <1>4, <1>5, <1>6, <1>7, <1>8, <1>9 DEF Next, scheme, thread

(* The invariant holds throughout. *)
LEMMA Invariance == Spec => []Inv
<1>1. Inv /\ [Next]_vars => Inv'
  BY TypeStep, SlotStep, RanStep DEF Inv
<1> QED
  BY InitInv, <1>1, PTL DEF Spec

(* The frame of the sender exists whenever send_request_async_cb calls its  *)
(* function: the slot is full then, since nobody can be filling it while    *)
(* the callback holds the mutex, and the sender does not hold it.           *)
THEOREM RequestsAreLive == Spec => []RequestIsLive
<1>1. Inv => RequestIsLive
  BY SendAssumption DEF Inv, TypeOK, SlotInv, Pending, Filling, RequestIsLive
<1> QED
  BY Invariance, <1>1, PTL

(* osi_send_request returns 0 only after its own function has been called    *)
(* once.                                                                     *)
THEOREM ReturnsOnlyWhenRun == Spec => ReturnsWhenRun
<1>1. ASSUME Inv, [Next]_vars,
             NEW t \in Threads, at[t] = "check", at'[t] = "idle"
      PROVE  ran[t] = 1
  <2> USE SendAssumption DEF Inv, TypeOK, Go
  <2>1. ASSUME NEW u \in Threads, Check(u) PROVE ran[t] = 1
    <3>1. CASE u = t
      BY <1>1, <2>1, <3>1 DEF Check, Consumed, SlotInv, RanInv
    <3>2. CASE u # t
      BY <1>1, <2>1, <3>2 DEF Check, LetNextIn
    <3> QED
      BY <3>1, <3>2
  <2>2. ASSUME NEW u \in Threads, osi_send_request(u) \/ Lock(u) \/ TakeTurn(u) \/ Store(u)
                                  \/ Spurious(u)
        PROVE  FALSE
    BY <1>1, <2>2 DEF osi_send_request, Lock, TakeTurn, Store, Spurious
  <2>3. CASE osi_get_callbacks \/ send_request_begin \/ send_request_lock \/ UNCHANGED vars
    BY <1>1, <2>3 DEF osi_get_callbacks, send_request_begin, send_request_lock, vars
  <2>4. CASE send_request_async_cb
    BY <1>1, <2>4 DEF send_request_async_cb
  <2> QED
    BY <1>1, <2>1, <2>2, <2>3, <2>4 DEF Next, scheme, thread
<1>2. Inv /\ [Next]_vars =>
        [\A t \in Threads : at[t] = "check" /\ at'[t] = "idle" => ran[t] = 1]_vars
  BY <1>1
<1> QED
  BY Invariance, <1>2, PTL DEF Spec, ReturnsWhenRun
=============================================================================
