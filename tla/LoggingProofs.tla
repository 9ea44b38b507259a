---------------------------- MODULE LoggingProofs ----------------------------
(***************************************************************************)
(* Proofs about Logging, for any handlers, clients, commit limit and number  *)
(* of events.                                                                *)
(***************************************************************************)
EXTENDS Logging, SequenceTheorems, FiniteSetTheorems, WellFoundedInduction, TLAPS

-----------------------------------------------------------------------------
(* The invariants *)

(* A worker has one transaction, or log entries; its end is told once. *)
Gone == dbWorker # None /\ dbWorker.at = "gone"
WorkerInv ==
  /\ Downs # {} => Gone
  /\ OneDown /\ ClosedUnused
  /\ dbWorker # None =>
       /\ ~IsLog(dbWorker.work[1]) => Len(dbWorker.work) = 1
       /\ dbWorker.at \in {"rollback", "reply-ok", "reply-error"} => ~IsLog(dbWorker.work[1])
       /\ dbWorker.at = "commit" => txn = dbWorker.work

(* Where the call of a client is. *)
Once(entries) ==
  \A i, j \in DOMAIN entries :
    entries[i].type = "transaction" /\ entries[j].type = "transaction"
      /\ entries[i].client = entries[j].client => i = j
Asking == Calls(dbInbox) \cup Calls(dbQueue)
TxnInv ==
  /\ Once(dbInbox) /\ Once(dbQueue)
  /\ Calls(dbInbox) \cap Calls(dbQueue) = {}
  /\ Calls(Worked) \cap Asking = {}
  /\ \A c \in Asking \cup Calls(Worked) : answer[c] \in {"calls", "DOWN"}
  /\ Asking \cap Calls(disk) = {}
  /\ IF dbWorker # None /\ dbWorker.at = "reply-ok"
     THEN Calls(Worked) \subseteq Calls(disk) ELSE Calls(Worked) \cap Calls(disk) = {}
  /\ \A c \in Clients : answer[c] = "none" => c \notin Calls(disk)
  /\ AnswerIsTrue

(* The stages of an event, the last one first. *)
Undone == IF dbWorker # None /\ dbWorker.at \in {"begin", "work", "commit"}
          THEN dbWorker.work ELSE <<>>
NewestFirst(buffer) == \A i, j \in DOMAIN buffer : i < j => buffer[j] < buffer[i]
Ahead(A, B) == \A a \in A, b \in B : a < b
Stages(D, U, Q, I, P, B, E, N) ==
  /\ Ahead(D, U \cup Q \cup I \cup P \cup B \cup E \cup N)
  /\ Ahead(U, Q \cup I \cup P \cup B \cup E \cup N)
  /\ Ahead(Q, I \cup P \cup B \cup E \cup N)
  /\ Ahead(I, P \cup B \cup E \cup N)
  /\ Ahead(P, B \cup E \cup N)
  /\ Ahead(B, E \cup N)
  /\ Ahead(E, N)
OrderInv ==
  /\ InOrder(disk) /\ InOrder(Undone) /\ InOrder(dbQueue) /\ InOrder(dbInbox)
  /\ NewestFirst(pending) /\ NewestFirst(event_buffer) /\ InOrder(emInbox)
  /\ Stages(Events(disk), Events(Undone), Events(dbQueue), Events(dbInbox), ToSet(pending),
            ToSet(event_buffer), Events(emInbox), {events + 1})
  /\ ~buffering => event_buffer = <<>>

(* The requests of the application to the event manager. *)
Requests == {"set-log-handler", "flush-buffer", "unregister", "parent-EXIT"}
IsRequest(m) == m.type \in Requests
Has(s, type) == \E i \in DOMAIN s : s[i].type = type
OneRequest(s) == \A i, j \in DOMAIN s : IsRequest(s[i]) /\ IsRequest(s[j]) => i = j
CallInv ==
  /\ app # "event-mgr" => OneRequest(emInbox)
  /\ Has(emInbox, "set-log-handler") => app = "set-log-handler" /\ ~replied
  /\ Has(emInbox, "flush-buffer") => app = "flush-buffer" /\ ~replied /\ pending = <<>>
  /\ Has(emInbox, "unregister") => Closing /\ (app = "sentry" => ~replied)
  /\ Has(emInbox, "parent-EXIT") => app = "event-mgr"
  /\ pending # <<>> => app = "flush-buffer" /\ ~replied
  /\ log_handler => app \notin {"start", "setup"} /\ ~Has(emInbox, "set-log-handler")
  /\ emState = "ended" => app = "event-mgr"
  /\ app = "event-mgr" => ~DbAlive

(* What comes behind the request to unregister is late, everything in the    *)
(* inbox is when the sentry has its answer or is given up, and so is what    *)
(* reaches the database server behind an EXIT.                               *)
SentryDone == app \in {"log-db", "event-mgr"} \/ (app = "sentry" /\ replied)
Behind(s, type, S) ==
  \A i, j \in DOMAIN s : i < j /\ s[i].type = type /\ IsEvent(s[j]) => s[j].event \in S
Stopping == dbState # "loop" \/ Has(dbInbox, "EXIT")
Quit ==
  \/ app \in {"log-db", "event-mgr"}
  \/ app \notin {"start", "setup"} /\ ~log_handler /\ ~Has(emInbox, "set-log-handler")
EmLate ==
  /\ Behind(emInbox, "unregister", late)
  /\ SentryDone => Events(emInbox) \subseteq late
DbLate ==
  /\ ~fault => Behind(dbInbox, "EXIT", late)
  /\ ~fault /\ dbState # "loop" => Events(dbInbox) \subseteq late
  /\ ~fault /\ Stopping => Quit

(* Without a fault workers do what they are given. *)
FaultInv ==
  /\ \A i \in Downs : dbInbox[i].reason # "normal" => fault
  /\ dbState \in {"stop-worker", "shutdown", "kill", "killed"} => fault
  /\ dbState = "flush" /\ dbWorker = None => dbQueue = <<>>

-----------------------------------------------------------------------------
(* Sequences of entries: the events and the calls in them, and their order. *)

(* An event or a call of a sequence is that of one of its elements. *)
LEMMA MemberOf ==
  ASSUME NEW s
  PROVE  /\ \A e : e \in Events(s) <=> \E i \in DOMAIN s : IsEvent(s[i]) /\ s[i].event = e
         /\ \A c : c \in Calls(s) <=>
              \E i \in DOMAIN s : s[i].type = "transaction" /\ s[i].client = c
BY DEF Events, Calls

(* The empty sequence has neither. *)
LEMMA EmptyFacts ==
  /\ Events(<<>>) = {} /\ Calls(<<>>) = {} /\ InOrder(<<>>) /\ Once(<<>>)
  /\ NewestFirst(<<>>) /\ ToSet(<<>>) = {}
BY DEF Events, Calls, InOrder, Once, NewestFirst, ToSet

(* Two sequences, one behind the other. *)
LEMMA ConcatIndices ==
  ASSUME NEW M, NEW s \in Seq(M), NEW t \in Seq(M)
  PROVE  /\ s \o t \in Seq(M) /\ DOMAIN (s \o t) = 1..(Len(s) + Len(t))
         /\ Len(s) \in Nat /\ Len(t) \in Nat /\ DOMAIN s = 1..Len(s) /\ DOMAIN t = 1..Len(t)
         /\ \A i \in 1..Len(s) : (s \o t)[i] = s[i]
         /\ \A i \in 1..Len(t) : (s \o t)[i + Len(s)] = t[i]
         /\ \A i \in 1..(Len(s) + Len(t)) : i > Len(s) => i - Len(s) \in 1..Len(t)
                                             /\ (s \o t)[i] = t[i - Len(s)]
OBVIOUS

(* A sequence behind another: its events and its calls. *)
LEMMA ConcatFacts ==
  ASSUME NEW M, NEW s \in Seq(M), NEW t \in Seq(M)
  PROVE  /\ Events(s \o t) = Events(s) \cup Events(t)
         /\ Calls(s \o t) = Calls(s) \cup Calls(t)
         /\ InOrder(s) /\ InOrder(t) /\ Ahead(Events(s), Events(t)) => InOrder(s \o t)
         /\ Once(s) /\ Once(t) /\ Calls(s) \cap Calls(t) = {} => Once(s \o t)
<1> DEFINE r == s \o t
<1>1. /\ DOMAIN r = 1..(Len(s) + Len(t)) /\ Len(s) \in Nat /\ Len(t) \in Nat
      /\ DOMAIN s = 1..Len(s) /\ DOMAIN t = 1..Len(t)
      /\ \A i \in 1..Len(s) : r[i] = s[i]
      /\ \A i \in 1..Len(t) : r[i + Len(s)] = t[i]
      /\ \A i \in 1..(Len(s) + Len(t)) : i > Len(s) => i - Len(s) \in 1..Len(t)
                                             /\ r[i] = t[i - Len(s)]
  BY ConcatIndices
<1> HIDE DEF r
<1>2. \A i \in DOMAIN r : (i \in DOMAIN s /\ r[i] = s[i])
                       \/ (i - Len(s) \in DOMAIN t /\ r[i] = t[i - Len(s)] /\ i > Len(s))
  BY <1>1
<1>3. \A i \in DOMAIN t : i + Len(s) \in DOMAIN r /\ r[i + Len(s)] = t[i]
  BY <1>1
<1>4. \A i \in DOMAIN s : i \in DOMAIN r /\ r[i] = s[i]
  BY <1>1
<1>5. Events(r) = Events(s) \cup Events(t)
  <2>1. ASSUME NEW e \in Events(r) PROVE e \in Events(s) \cup Events(t)
    BY <1>2, MemberOf
  <2>2. ASSUME NEW e \in Events(s) PROVE e \in Events(r)
    BY <1>4, MemberOf
  <2>3. ASSUME NEW e \in Events(t) PROVE e \in Events(r)
    BY <1>3, MemberOf
  <2> QED
    BY <2>1, <2>2, <2>3
<1>6. Calls(r) = Calls(s) \cup Calls(t)
  <2>1. ASSUME NEW e \in Calls(r) PROVE e \in Calls(s) \cup Calls(t)
    BY <1>2, MemberOf
  <2>2. ASSUME NEW e \in Calls(s) PROVE e \in Calls(r)
    BY <1>4, MemberOf
  <2>3. ASSUME NEW e \in Calls(t) PROVE e \in Calls(r)
    BY <1>3, MemberOf
  <2> QED
    BY <2>1, <2>2, <2>3
<1>7. ASSUME InOrder(s), InOrder(t), Ahead(Events(s), Events(t)) PROVE InOrder(r)
  <2> SUFFICES ASSUME NEW i \in DOMAIN r, NEW j \in DOMAIN r,
                      i < j, IsEvent(r[i]), IsEvent(r[j])
               PROVE  r[i].event < r[j].event
    BY DEF InOrder
  <2>1. CASE j \in DOMAIN s
    <3>1. i \in DOMAIN s
      BY <2>1, <1>1
    <3> QED
      BY <2>1, <3>1, <1>4, <1>7 DEF InOrder
  <2>2. CASE i > Len(s)
    <3> DEFINE a == i - Len(s)
               b == j - Len(s)
    <3>1. a \in DOMAIN t /\ b \in DOMAIN t /\ r[i] = t[a] /\ r[j] = t[b] /\ a < b
      BY <2>2, <1>1
    <3> HIDE DEF a, b
    <3> QED
      BY <3>1, <1>7 DEF InOrder
  <2>3. CASE i \in DOMAIN s /\ j > Len(s)
    <3>1. r[i].event \in Events(s)
      BY <2>3, <1>4, MemberOf
    <3>2. r[j].event \in Events(t)
      <4>1. j - Len(s) \in DOMAIN t /\ r[j] = t[j - Len(s)]
        BY <2>3, <1>1
      <4> QED
        BY <4>1, MemberOf
    <3> QED
      BY <3>1, <3>2, <1>7 DEF Ahead
  <2> QED
    BY <2>1, <2>2, <2>3, <1>1
<1>8. ASSUME Once(s), Once(t), Calls(s) \cap Calls(t) = {} PROVE Once(r)
  <2> SUFFICES ASSUME NEW i \in DOMAIN r, NEW j \in DOMAIN r,
                      r[i].type = "transaction", r[j].type = "transaction",
                      r[i].client = r[j].client, i < j
               PROVE  FALSE
    BY <1>1 DEF Once
  <2>1. CASE j \in DOMAIN s
    <3>1. i \in DOMAIN s
      BY <2>1, <1>1
    <3> QED
      BY <2>1, <3>1, <1>1, <1>4, <1>8 DEF Once
  <2>2. CASE i > Len(s)
    <3> DEFINE a == i - Len(s)
               b == j - Len(s)
    <3>1. a \in DOMAIN t /\ b \in DOMAIN t /\ r[i] = t[a] /\ r[j] = t[b] /\ a # b
      BY <2>2, <1>1
    <3> HIDE DEF a, b
    <3> QED
      BY <3>1, <1>8 DEF Once
  <2>3. CASE i \in DOMAIN s /\ j > Len(s)
    <3>1. r[i].client \in Calls(s)
      BY <2>3, <1>4, MemberOf
    <3>2. r[j].client \in Calls(t)
      <4>1. j - Len(s) \in DOMAIN t /\ r[j] = t[j - Len(s)]
        BY <2>3, <1>1
      <4> QED
        BY <4>1, MemberOf
    <3> QED
      BY <3>1, <3>2, <1>8
  <2> QED
    BY <2>1, <2>2, <2>3, <1>1
<1> QED
  BY <1>5, <1>6, <1>7, <1>8 DEF r

(* Some of the elements of a sequence, in their order. *)
LEMMA PartFacts ==
  ASSUME NEW M, NEW s \in Seq(M), NEW r \in Seq(M), NEW f \in [DOMAIN r -> DOMAIN s],
         \A i \in DOMAIN r : r[i] = s[f[i]],
         \A i, j \in DOMAIN r : i < j => f[i] < f[j]
  PROVE  /\ Events(r) \subseteq Events(s) /\ Calls(r) \subseteq Calls(s)
         /\ InOrder(s) => InOrder(r)
         /\ Once(s) => Once(r)
<1>0. DOMAIN r \subseteq Nat /\ DOMAIN s \subseteq Nat /\ \A i \in DOMAIN r : f[i] \in DOMAIN s
  OBVIOUS
<1>1. Events(r) \subseteq Events(s) /\ Calls(r) \subseteq Calls(s)
  BY <1>0, MemberOf
<1>2. InOrder(s) => InOrder(r)
  BY <1>0 DEF InOrder
<1>3. ASSUME Once(s), NEW i \in DOMAIN r, NEW j \in DOMAIN r,
             r[i].type = "transaction", r[j].type = "transaction",
             r[i].client = r[j].client, i # j
      PROVE  FALSE
  <2>1. f[i] = f[j]
    BY <1>0, <1>3 DEF Once
  <2>2. i < j \/ j < i
    BY <1>0, <1>3
  <2>3. f[i] \in Nat /\ f[j] \in Nat
    BY <1>0
  <2> QED
    BY <2>1, <2>2, <2>3
<1> QED
  BY <1>1, <1>2, <1>3 DEF Once

(* The front of a sequence and the rest. *)
LEMMA SplitFacts ==
  ASSUME NEW M, NEW s \in Seq(M), NEW n \in 0..Len(s)
  PROVE  LET a == SubSeq(s, 1, n)
             b == SubSeq(s, n + 1, Len(s))
         IN /\ a \in Seq(M) /\ b \in Seq(M) /\ Len(a) = n /\ DOMAIN a = 1..n
            /\ \A i \in 1..n : a[i] = s[i]
            /\ Events(s) = Events(a) \cup Events(b) /\ Calls(s) = Calls(a) \cup Calls(b)
            /\ InOrder(s) => InOrder(a) /\ InOrder(b) /\ Ahead(Events(a), Events(b))
            /\ Once(s) => Once(a) /\ Once(b) /\ Calls(a) \cap Calls(b) = {}
<1> DEFINE a == SubSeq(s, 1, n)
           b == SubSeq(s, n + 1, Len(s))
<1>1. /\ a \in Seq(M) /\ b \in Seq(M) /\ DOMAIN a = 1..n /\ DOMAIN b = 1..(Len(s) - n)
      /\ \A i \in 1..n : a[i] = s[i]
      /\ \A i \in 1..(Len(s) - n) : b[i] = s[i + n]
      /\ DOMAIN s = 1..Len(s) /\ Len(s) \in Nat /\ Len(a) = n
  BY SMTT(30)
<1> HIDE DEF a, b
<1>2. /\ Events(a) \subseteq Events(s) /\ Calls(a) \subseteq Calls(s)
      /\ InOrder(s) => InOrder(a)
      /\ Once(s) => Once(a)
  <2> DEFINE f == [i \in DOMAIN a |-> i]
  <2>1. /\ f \in [DOMAIN a -> DOMAIN s] /\ \A i \in DOMAIN a : a[i] = s[f[i]]
        /\ \A i, j \in DOMAIN a : i < j => f[i] < f[j]
    BY <1>1
  <2> HIDE DEF f
  <2> QED
    BY <2>1, <1>1, PartFacts
<1>3. /\ Events(b) \subseteq Events(s) /\ Calls(b) \subseteq Calls(s)
      /\ InOrder(s) => InOrder(b)
      /\ Once(s) => Once(b)
  <2> DEFINE f == [i \in DOMAIN b |-> i + n]
  <2>1. /\ f \in [DOMAIN b -> DOMAIN s] /\ \A i \in DOMAIN b : b[i] = s[f[i]]
        /\ \A i, j \in DOMAIN b : i < j => f[i] < f[j]
    BY <1>1
  <2> HIDE DEF f
  <2> QED
    BY <2>1, <1>1, PartFacts
<1>4. \A i \in DOMAIN s : (i \in DOMAIN a /\ s[i] = a[i])
                       \/ (i - n \in DOMAIN b /\ s[i] = b[i - n])
  BY <1>1
<1>5. Events(s) \subseteq Events(a) \cup Events(b) /\ Calls(s) \subseteq Calls(a) \cup Calls(b)
  BY <1>4, MemberOf
<1>6. ASSUME InOrder(s), NEW x \in Events(a), NEW y \in Events(b) PROVE x < y
  <2>1. PICK i \in DOMAIN a : IsEvent(a[i]) /\ a[i].event = x
    BY MemberOf
  <2>2. PICK j \in DOMAIN b : IsEvent(b[j]) /\ b[j].event = y
    BY MemberOf
  <2>3. i \in DOMAIN s /\ j + n \in DOMAIN s /\ i < j + n /\ s[i] = a[i] /\ s[j + n] = b[j]
    BY <1>1
  <2> QED
    BY <2>1, <2>2, <2>3, <1>6 DEF InOrder
<1>7. ASSUME Once(s), NEW c \in Calls(a), c \in Calls(b) PROVE FALSE
  <2>1. PICK i \in DOMAIN a : a[i].type = "transaction" /\ a[i].client = c
    BY MemberOf
  <2>2. PICK j \in DOMAIN b : b[j].type = "transaction" /\ b[j].client = c
    BY <1>7, MemberOf
  <2>3. i \in DOMAIN s /\ j + n \in DOMAIN s /\ i < j + n /\ s[i] = a[i] /\ s[j + n] = b[j]
    BY <1>1
  <2>4. i = j + n
    BY <2>1, <2>2, <2>3, <1>7 DEF Once
  <2> QED
    BY <2>3, <2>4, <1>1
<1> QED
  BY <1>1, <1>2, <1>3, <1>5, <1>6, <1>7 DEF a, b, Ahead

(* The first element of a sequence and the rest. *)
LEMMA TailFacts ==
  ASSUME NEW M, NEW s \in Seq(M), s # <<>>
  PROVE  /\ Tail(s) \in Seq(M) /\ Head(s) \in M /\ Len(Tail(s)) = Len(s) - 1
         /\ Head(s) = s[1] /\ 1 \in DOMAIN s
         /\ DOMAIN Tail(s) = 1..(Len(s) - 1) /\ DOMAIN s = 1..Len(s) /\ Len(s) \in Nat \ {0}
         /\ \A i \in DOMAIN Tail(s) : i + 1 \in DOMAIN s /\ Tail(s)[i] = s[i + 1]
         /\ \A i \in DOMAIN s : i = 1 \/ (i - 1 \in DOMAIN Tail(s) /\ s[i] = Tail(s)[i - 1])
OBVIOUS

(* The first message is taken: the events and the calls of the rest. *)
LEMMA TakeFacts ==
  ASSUME NEW M, NEW s \in Seq(M), s # <<>>
  PROVE  /\ Events(s) = Events(Tail(s)) \cup (IF IsEvent(Head(s)) THEN {Head(s).event} ELSE {})
         /\ Calls(s) = Calls(Tail(s)) \cup (IF Head(s).type = "transaction" THEN {Head(s).client} ELSE {})
         /\ InOrder(s) => InOrder(Tail(s))
         /\ InOrder(s) /\ IsEvent(Head(s)) => Ahead({Head(s).event}, Events(Tail(s)))
         /\ Once(s) => Once(Tail(s))
         /\ Once(s) /\ Head(s).type = "transaction" => Head(s).client \notin Calls(Tail(s))
<1> DEFINE t == Tail(s)
<1>1. /\ t \in Seq(M) /\ Head(s) = s[1] /\ 1 \in DOMAIN s
      /\ DOMAIN t = 1..(Len(s) - 1) /\ DOMAIN s = 1..Len(s) /\ Len(s) \in Nat \ {0}
      /\ \A i \in DOMAIN t : i + 1 \in DOMAIN s /\ t[i] = s[i + 1]
      /\ \A i \in DOMAIN s : i = 1 \/ (i - 1 \in DOMAIN t /\ s[i] = t[i - 1])
  BY TailFacts
<1> HIDE DEF t
<1>2. /\ Events(t) \subseteq Events(s) /\ Calls(t) \subseteq Calls(s)
      /\ InOrder(s) => InOrder(t)
      /\ Once(s) => Once(t)
  <2> DEFINE f == [i \in DOMAIN t |-> i + 1]
  <2>1. /\ f \in [DOMAIN t -> DOMAIN s] /\ \A i \in DOMAIN t : t[i] = s[f[i]]
        /\ \A i, j \in DOMAIN t : i < j => f[i] < f[j]
    BY <1>1
  <2> HIDE DEF f
  <2> QED
    BY <2>1, <1>1, PartFacts
<1>3. Events(s) = Events(t) \cup (IF IsEvent(Head(s)) THEN {Head(s).event} ELSE {})
  <2>1. ASSUME NEW e \in Events(s), e \notin Events(t) PROVE IsEvent(Head(s)) /\ e = Head(s).event
    <3>1. PICK i \in DOMAIN s : IsEvent(s[i]) /\ s[i].event = e
      BY MemberOf
    <3>2. ~(i - 1 \in DOMAIN t /\ s[i] = t[i - 1])
      BY <2>1, <3>1, MemberOf
    <3> QED
      BY <1>1, <3>1, <3>2
  <2>2. IsEvent(Head(s)) => Head(s).event \in Events(s)
    BY <1>1, MemberOf
  <2> QED
    BY <1>2, <2>1, <2>2
<1>4. Calls(s) = Calls(t) \cup (IF Head(s).type = "transaction" THEN {Head(s).client} ELSE {})
  <2>1. ASSUME NEW e \in Calls(s), e \notin Calls(t)
        PROVE  Head(s).type = "transaction" /\ e = Head(s).client
    <3>1. PICK i \in DOMAIN s : s[i].type = "transaction" /\ s[i].client = e
      BY MemberOf
    <3>2. ~(i - 1 \in DOMAIN t /\ s[i] = t[i - 1])
      BY <2>1, <3>1, MemberOf
    <3> QED
      BY <1>1, <3>1, <3>2
  <2>2. Head(s).type = "transaction" => Head(s).client \in Calls(s)
    BY <1>1, MemberOf
  <2> QED
    BY <1>2, <2>1, <2>2
<1>5. ASSUME InOrder(s), IsEvent(Head(s)), NEW y \in Events(t) PROVE Head(s).event < y
  <2>1. PICK j \in DOMAIN t : IsEvent(t[j]) /\ t[j].event = y
    BY MemberOf
  <2>2. j + 1 \in DOMAIN s /\ 1 < j + 1 /\ s[j + 1] = t[j]
    BY <1>1
  <2> QED
    BY <2>1, <2>2, <1>1, <1>5 DEF InOrder
<1>6. ASSUME Once(s), Head(s).type = "transaction", Head(s).client \in Calls(t) PROVE FALSE
  <2>1. PICK j \in DOMAIN t : t[j].type = "transaction" /\ t[j].client = Head(s).client
    BY <1>6, MemberOf
  <2>2. j + 1 \in DOMAIN s /\ 1 # j + 1 /\ s[j + 1] = t[j]
    BY <1>1
  <2> QED
    BY <2>1, <2>2, <1>1, <1>6 DEF Once
<1> QED
  BY <1>2, <1>3, <1>4, <1>5, <1>6 DEF t, Ahead

(* A DOWN message taken out of a sequence. *)
LEMMA RemoveFacts ==
  ASSUME NEW M, NEW s \in Seq(M), NEW k \in DOMAIN s, s[k].type = "DOWN"
  PROVE  LET r == RemoveAt(s, k)
         IN /\ r \in Seq(M) /\ Events(r) = Events(s) /\ Calls(r) = Calls(s)
            /\ InOrder(s) => InOrder(r)
            /\ Once(s) => Once(r)
            /\ \E f \in [DOMAIN r -> DOMAIN s \ {k}] :
                 /\ \A i \in DOMAIN r : r[i] = s[f[i]]
                 /\ \A i, j \in DOMAIN r : i < j => f[i] < f[j]
<1> DEFINE a == SubSeq(s, 1, k - 1)
           b == SubSeq(s, k + 1, Len(s))
           r == a \o b
           f == [i \in DOMAIN r |-> IF i < k THEN i ELSE i + 1]
<1>0. k \in 1..Len(s) /\ Len(s) \in Nat /\ DOMAIN s = 1..Len(s)
  OBVIOUS
<1>1. /\ a \in Seq(M) /\ b \in Seq(M) /\ Len(a) = k - 1 /\ Len(b) = Len(s) - k
      /\ \A i \in 1..(k - 1) : a[i] = s[i]
      /\ \A i \in 1..(Len(s) - k) : b[i] = s[i + k]
  BY <1>0, SMTT(30)
<1> HIDE DEF a, b
<1>2. /\ r \in Seq(M) /\ DOMAIN r = 1..(Len(s) - 1)
      /\ \A i \in DOMAIN r : i < k => r[i] = s[i]
      /\ \A i \in DOMAIN r : i >= k => r[i] = s[i + 1]
  <2>1. /\ r \in Seq(M) /\ DOMAIN r = 1..(Len(a) + Len(b))
        /\ \A i \in 1..Len(a) : r[i] = a[i]
        /\ \A i \in 1..(Len(a) + Len(b)) : i > Len(a) => i - Len(a) \in 1..Len(b)
                                             /\ r[i] = b[i - Len(a)]
    <3>1. a \in Seq(M) /\ b \in Seq(M)
      BY <1>1
    <3> QED
      BY <3>1, ConcatIndices
  <2> HIDE DEF r
  <2>2. DOMAIN r = 1..(Len(s) - 1)
    BY <1>0, <1>1, <2>1
  <2>3. ASSUME NEW i \in DOMAIN r, i < k PROVE r[i] = s[i]
    <3>1. i \in 1..(k - 1) /\ i \in 1..Len(a)
      BY <1>0, <1>1, <2>2, <2>3
    <3> QED
      BY <3>1, <1>1, <2>1
  <2>4. ASSUME NEW i \in DOMAIN r, i >= k PROVE r[i] = s[i + 1]
    <3> DEFINE j == i - Len(a)
    <3>1. j \in 1..Len(b) /\ r[i] = b[j] /\ j + k = i + 1
      <4>1. i \in 1..(Len(a) + Len(b)) /\ i > Len(a) /\ j + k = i + 1
        BY <1>0, <1>1, <2>1, <2>4
      <4> QED
        BY <4>1, <2>1
    <3> HIDE DEF j
    <3>2. b[j] = s[j + k]
      BY <3>1, <1>1
    <3> QED
      BY <3>1, <3>2
  <2> QED
    BY <2>1, <2>2, <2>3, <2>4
<1> HIDE DEF r
<1>3. /\ f \in [DOMAIN r -> DOMAIN s \ {k}] /\ \A i \in DOMAIN r : r[i] = s[f[i]]
      /\ \A i, j \in DOMAIN r : i < j => f[i] < f[j]
  BY <1>0, <1>2
<1>4. \A j \in DOMAIN s \ {k} : \E i \in DOMAIN r : r[i] = s[j]
  <2> SUFFICES ASSUME NEW j \in DOMAIN s \ {k} PROVE \E i \in DOMAIN r : r[i] = s[j]
    OBVIOUS
  <2>1. CASE j < k
    BY <2>1, <1>0, <1>2
  <2>2. CASE j > k
    <3>1. j - 1 \in DOMAIN r /\ j - 1 >= k /\ (j - 1) + 1 = j
      BY <2>2, <1>0, <1>2
    <3> QED
      BY <3>1, <1>2
  <2> QED
    BY <2>1, <2>2, <1>0
<1> HIDE DEF f
<1>5. f \in [DOMAIN r -> DOMAIN s]
  BY <1>3
<1>6. /\ Events(r) \subseteq Events(s) /\ Calls(r) \subseteq Calls(s)
      /\ InOrder(s) => InOrder(r)
      /\ Once(s) => Once(r)
  BY <1>2, <1>3, <1>5, PartFacts
<1>7. ASSUME NEW e \in Events(s) PROVE e \in Events(r)
  BY <1>4, MemberOf DEF IsEvent
<1>8. ASSUME NEW c \in Calls(s) PROVE c \in Calls(r)
  BY <1>4, MemberOf
<1>9. RemoveAt(s, k) = r
  BY DEF RemoveAt, r, a, b
<1> QED
  BY <1>2, <1>3, <1>6, <1>7, <1>8, <1>9

(* One element more at the end. *)
LEMMA AppendFacts ==
  ASSUME NEW M, NEW s \in Seq(M), NEW x \in M
  PROVE  /\ Append(s, x) \in Seq(M)
         /\ Events(Append(s, x)) = Events(s) \cup (IF IsEvent(x) THEN {x.event} ELSE {})
         /\ Calls(Append(s, x)) = Calls(s) \cup (IF x.type = "transaction" THEN {x.client} ELSE {})
         /\ InOrder(s) /\ (IsEvent(x) => Ahead(Events(s), {x.event})) => InOrder(Append(s, x))
         /\ Once(s) /\ (x.type = "transaction" => x.client \notin Calls(s)) => Once(Append(s, x))
<1>1. <<x>> \in Seq(M) /\ Append(s, x) = s \o <<x>> /\ Append(s, x) \in Seq(M)
  OBVIOUS
<1> DEFINE t == <<x>>
<1>2. t \in Seq(M) /\ DOMAIN t = {1} /\ t[1] = x
  BY <1>1
<1> HIDE DEF t
<1>3. /\ Events(t) = (IF IsEvent(x) THEN {x.event} ELSE {})
      /\ Calls(t) = (IF x.type = "transaction" THEN {x.client} ELSE {})
      /\ InOrder(t) /\ Once(t)
  BY <1>2 DEF Events, Calls, InOrder, Once
<1>4. /\ Events(s \o t) = Events(s) \cup Events(t)
      /\ Calls(s \o t) = Calls(s) \cup Calls(t)
      /\ InOrder(s) /\ InOrder(t) /\ Ahead(Events(s), Events(t)) => InOrder(s \o t)
      /\ Once(s) /\ Once(t) /\ Calls(s) \cap Calls(t) = {} => Once(s \o t)
  BY <1>2, ConcatFacts
<1>5. Append(s, x) = s \o t /\ Append(s, x) \in Seq(M)
  BY <1>1 DEF t
<1>6. (IsEvent(x) => Ahead(Events(s), {x.event})) => Ahead(Events(s), Events(t))
  BY <1>3 DEF Ahead
<1>7. (x.type = "transaction" => x.client \notin Calls(s)) => Calls(s) \cap Calls(t) = {}
  BY <1>3
<1> QED
  BY <1>3, <1>4, <1>5, <1>6, <1>7

(* The least number of a set. *)
LEMMA Smallest ==
  ASSUME NEW T \in SUBSET Nat, T # {}
  PROVE  \E m \in T : \A n \in T : m <= n
<1>1. PICK x \in T : \A y \in T : ~ (<<y, x>> \in OpToRel(<, Nat))
  BY NatLessThanWellFounded, WFMin
<1>2. ASSUME NEW y \in T PROVE x <= y
  <2>1. <<y, x>> \in Nat \X Nat
    OBVIOUS
  <2>2. ~(y < x)
    BY <1>1, <2>1 DEF OpToRel
  <2> QED
    BY <2>1, <2>2
<1> QED
  BY <1>2

(* get-work takes at least one entry, a transaction alone. *)
LEMMA BatchFacts ==
  ASSUME NEW q \in Seq(Entries), q # <<>>
  PROVE  BatchSize(q) \in 1..Len(q) /\ (~IsLog(q[1]) => BatchSize(q) = 1)
<1>0. Len(q) \in Nat /\ Len(q) >= 1 /\ Head(q) = q[1] /\ CommitLimit \in Nat /\ CommitLimit >= 1
  BY DbAssumption
<1>1. CASE ~IsLog(q[1])
  BY <1>0, <1>1 DEF BatchSize
<1>2. CASE IsLog(q[1])
  <2> DEFINE T == {n \in 1..Len(q) : n = CommitLimit \/ n = Len(q) \/ ~IsLog(q[n + 1])}
  <2>1. T \in SUBSET Nat /\ Len(q) \in T
    BY <1>0
  <2>2. PICK m \in T : \A n \in T : m <= n
    BY <2>1, Smallest
  <2>3. m <= CommitLimit
    <3>1. SUFFICES ASSUME m > CommitLimit PROVE FALSE
      BY <1>0
    <3>2. CommitLimit \in T
      BY <1>0, <3>1
    <3> QED
      BY <1>0, <2>2, <3>1, <3>2
  <2>4. ASSUME NEW i \in 1..m PROVE IsLog(q[i])
    <3>1. CASE i = 1
      BY <3>1, <1>2
    <3>2. CASE i > 1
      <4> DEFINE k == i - 1
      <4>1. k \in 1..Len(q) /\ k < m /\ k + 1 = i
        BY <3>2, <1>0
      <4> HIDE DEF k
      <4>2. k \notin T
        BY <4>1, <2>2, <1>0
      <4>3. IsLog(q[k + 1])
        BY <4>1, <4>2
      <4> QED
        BY <4>1, <4>3
    <3> QED
      BY <3>1, <3>2, <1>0
  <2>5. /\ m \in 1..Len(q) /\ m <= CommitLimit /\ \A i \in 1..m : IsLog(q[i])
        /\ m = CommitLimit \/ m = Len(q) \/ ~IsLog(q[m + 1])
    BY <2>3, <2>4
  <2>6. \E n \in 1..Len(q) : /\ n <= CommitLimit /\ \A i \in 1..n : IsLog(q[i])
                             /\ n = CommitLimit \/ n = Len(q) \/ ~IsLog(q[n + 1])
    BY <2>5
  <2>7. BatchSize(q) = CHOOSE n \in 1..Len(q) :
          /\ n <= CommitLimit /\ \A i \in 1..n : IsLog(q[i])
          /\ n = CommitLimit \/ n = Len(q) \/ ~IsLog(q[n + 1])
    BY <1>0, <1>2 DEF BatchSize
  <2>8. BatchSize(q) \in 1..Len(q)
    BY <2>6, <2>7
  <2> QED
    BY <2>8, <1>2
<1> QED
  BY <1>1, <1>2

(* update keeps the worker and the queue, or starts a worker on the front. *)
LEMMA UpdateFacts ==
  ASSUME NEW q \in Seq(Entries), NEW w \in {None} \cup Workers, NEW t \in BOOLEAN, Update(q, w, t)
  PROVE  /\ \/ (w # None \/ q = <<>>) /\ dbQueue' = q /\ dbWorker' = w
            \/ /\ w = None
               /\ \E n \in 1..Len(q) :
                    /\ dbWorker' = [work |-> SubSeq(q, 1, n), at |-> "begin"]
                    /\ dbQueue' = SubSeq(q, n + 1, Len(q))
                    /\ ~IsLog(q[1]) => n = 1
         /\ log_timeout' \in BOOLEAN
<1>1. CASE w # None \/ q = <<>>
  BY <1>1 DEF Update
<1>2. CASE ~(w # None \/ q = <<>>)
  BY <1>2, BatchFacts DEF Update, Batched
<1> QED
  BY <1>1, <1>2

(* The worker that update starts, and the queue it leaves. *)
LEMMA BatchSplit ==
  ASSUME NEW q \in Seq(Entries), NEW n \in 1..Len(q), ~IsLog(q[1]) => n = 1
  PROVE  LET w == [work |-> SubSeq(q, 1, n), at |-> "begin"]
             r == SubSeq(q, n + 1, Len(q))
         IN /\ w \in Workers /\ w # None /\ w.work # <<>> /\ r \in Seq(Entries)
            /\ ~IsLog(w.work[1]) => Len(w.work) = 1
            /\ w.at = "begin" /\ w.work \in Seq(Entries)
            /\ Events(q) = Events(w.work) \cup Events(r) /\ Calls(q) = Calls(w.work) \cup Calls(r)
            /\ InOrder(q) => InOrder(w.work) /\ InOrder(r) /\ Ahead(Events(w.work), Events(r))
            /\ Once(q) => Once(w.work) /\ Once(r) /\ Calls(w.work) \cap Calls(r) = {}
<1> DEFINE a == SubSeq(q, 1, n)
           b == SubSeq(q, n + 1, Len(q))
<1>1. n \in 0..Len(q) /\ Len(q) \in Nat
  OBVIOUS
<1>2. /\ a \in Seq(Entries) /\ b \in Seq(Entries) /\ Len(a) = n
      /\ \A i \in 1..n : a[i] = q[i]
      /\ Events(q) = Events(a) \cup Events(b) /\ Calls(q) = Calls(a) \cup Calls(b)
      /\ InOrder(q) => InOrder(a) /\ InOrder(b) /\ Ahead(Events(a), Events(b))
      /\ Once(q) => Once(a) /\ Once(b) /\ Calls(a) \cap Calls(b) = {}
  BY <1>1, SplitFacts
<1> HIDE DEF a, b
<1> DEFINE w == [work |-> a, at |-> "begin"]
<1>3. w \in Workers /\ w.work = a /\ w.at = "begin"
  BY <1>2 DEF Workers, Places
<1>4. w # None
  BY <1>3, DbAssumption
<1>5. a # <<>>
  BY <1>2
<1>6. ~IsLog(a[1]) => Len(a) = 1
  BY <1>2
<1> QED
  BY <1>2, <1>3, <1>4, <1>5, <1>6 DEF a, b

(* The EXIT messages of the owners of failed handlers. *)
LEMMA ExitsFacts ==
  ASSUME NEW dying \in SUBSET Owners
  PROVE  /\ ExitsOf(dying) \in Seq([type : {"EXIT"}, owner : Owners \cup {"log-db"}])
         /\ ToSet(ExitsOf(dying)) = {ExitOf(o) : o \in dying}
<1> DEFINE n == Cardinality(dying)
           g == SetToSeq(dying)
<1>1. IsFiniteSet(dying) /\ n \in Nat /\ ExistsBijection(1..n, dying)
  BY EmAssumption, FS_Subset, FS_CardinalityType
<1>2. \E h \in [1..n -> dying] : IsInjective(h)
  BY <1>1 DEF ExistsBijection, Bijection, Injection
<1>3. g \in [1..n -> dying] /\ IsInjective(g)
  BY <1>2 DEF SetToSeq
<1> HIDE DEF g
<1>4. IsFiniteSet(1..n) /\ Cardinality(1..n) = n
  BY <1>1, FS_Interval
<1>5. g \in Surjection(1..n, dying)
  <2>1. g \in Injection(1..n, dying)
    BY <1>3 DEF Injection
  <2> QED
    BY <2>1, <1>1, <1>4, FS_Injection
<1>6. \A o \in dying : \E i \in 1..n : g[i] = o
  BY <1>5 DEF Surjection
<1> DEFINE r == ExitsOf(dying)
<1>7. r = [i \in 1..n |-> ExitOf(g[i])]
  BY DEF ExitsOf, g
<1> HIDE DEF r, n
<1>8. DOMAIN r = 1..n /\ \A i \in 1..n : r[i] = ExitOf(g[i]) /\ g[i] \in dying
  BY <1>7, <1>3
<1>9. \A i \in 1..n : r[i] \in [type : {"EXIT"}, owner : Owners \cup {"log-db"}]
  BY <1>8 DEF ExitOf
<1>10. r \in Seq([type : {"EXIT"}, owner : Owners \cup {"log-db"}])
  BY <1>1, <1>7, <1>9
<1>11. ToSet(r) = {ExitOf(o) : o \in dying}
  BY <1>6, <1>8 DEF ToSet
<1> QED
  BY <1>10, <1>11 DEF r

-----------------------------------------------------------------------------
(* Types, and the worker of the database server *)

(* The worker at another place of its work. *)
LEMMA WorkerAt ==
  ASSUME NEW w \in Workers, NEW p \in Places
  PROVE  LET v == [w EXCEPT !.at = p]
         IN v \in Workers /\ v # None /\ v.work = w.work /\ v.at = p
<1> DEFINE v == [w EXCEPT !.at = p]
<1>1. v \in Workers /\ v.work = w.work /\ v.at = p
  BY DEF Workers
<1>2. v # None
  BY <1>1, DbAssumption
<1> QED
  BY <1>1, <1>2

(* Messages to the server. *)
LEMMA DbMessages ==
  /\ \A e \in Nat : LogMsg(e) \in DbMsgs /\ LogMsg(e) \in Entries
  /\ \A c \in Clients : TxnMsg(c) \in DbMsgs
  /\ ExitMsg \in DbMsgs
  /\ \A x \in {"normal", "error", "killed"} : DownMsg(x) \in DbMsgs
BY DEF LogMsg, TxnMsg, ExitMsg, DownMsg, DbMsgs, Entries

(* What update makes of a queue and a worker of the right types. *)
LEMMA UpdateType ==
  ASSUME NEW q \in Seq(Entries), NEW w \in {None} \cup Workers, NEW t \in BOOLEAN, Update(q, w, t),
         w # None => w.work # <<>>
  PROVE  /\ dbQueue' \in Seq(Entries) /\ dbWorker' \in {None} \cup Workers
         /\ dbWorker' # None => dbWorker'.work # <<>>
         /\ log_timeout' \in BOOLEAN
<1>1. CASE (w # None \/ q = <<>>) /\ dbQueue' = q /\ dbWorker' = w
  BY <1>1, UpdateFacts
<1>2. CASE \E n \in 1..Len(q) :
             /\ dbWorker' = [work |-> SubSeq(q, 1, n), at |-> "begin"]
             /\ dbQueue' = SubSeq(q, n + 1, Len(q))
             /\ ~IsLog(q[1]) => n = 1
  <2>1. PICK n \in 1..Len(q) :
             /\ dbWorker' = [work |-> SubSeq(q, 1, n), at |-> "begin"]
             /\ dbQueue' = SubSeq(q, n + 1, Len(q))
             /\ ~IsLog(q[1]) => n = 1
    BY <1>2
  <2>2. log_timeout' \in BOOLEAN
    BY UpdateFacts
  <2> QED
    BY <2>1, <2>2, BatchSplit
<1> QED
  BY <1>1, <1>2, UpdateFacts

(* The message at the head of the inbox. *)
LEMMA DbHead ==
  ASSUME DbTypeOK, dbInbox # <<>>
  PROVE  /\ Head(dbInbox) \in DbMsgs /\ Tail(dbInbox) \in Seq(DbMsgs)
         /\ Head(dbInbox).type \in {"log", "transaction"} =>
              /\ Head(dbInbox) \in Entries
              /\ Append(dbQueue, Head(dbInbox)) \in Seq(Entries)
<1>1. dbInbox \in Seq(DbMsgs) /\ dbQueue \in Seq(Entries)
  BY DEF DbTypeOK
<1>2. Head(dbInbox) \in DbMsgs /\ Tail(dbInbox) \in Seq(DbMsgs)
  BY <1>1
<1>3. Head(dbInbox).type \in {"log", "transaction"} => Head(dbInbox) \in Entries
  BY <1>2 DEF DbMsgs, Entries
<1> QED
  BY <1>1, <1>2, <1>3

(* The loop of the server keeps the types. *)
LEMMA DbTypeLoop ==
  ASSUME DbTypeOK, dbLoop
  PROVE  DbTypeOK'
<1> USE DEF DbTypeOK
<1>1. CASE handle_transaction
  <2>1. dbInbox # <<>> /\ Head(dbInbox).type = "transaction" /\ dbInbox' = Tail(dbInbox)
        /\ Update(Append(dbQueue, Head(dbInbox)), dbWorker, log_timeout)
        /\ UNCHANGED <<dbState, commit_delay, txn, disk, answer, fault>>
    BY <1>1 DEF handle_transaction, Takes, Taken
  <2>2. Append(dbQueue, Head(dbInbox)) \in Seq(Entries) /\ Tail(dbInbox) \in Seq(DbMsgs)
    BY <2>1, DbHead
  <2>3. /\ dbQueue' \in Seq(Entries) /\ dbWorker' \in {None} \cup Workers
        /\ dbWorker' # None => dbWorker'.work # <<>>
        /\ log_timeout' \in BOOLEAN
    BY <2>1, <2>2, UpdateType
  <2> QED
    BY <2>1, <2>2, <2>3
<1>2. CASE handle_log
  <2>1. dbInbox # <<>> /\ Head(dbInbox).type = "log" /\ dbInbox' = Tail(dbInbox)
        /\ UNCHANGED <<dbState, commit_delay, txn, disk, answer, fault>>
    BY <1>2 DEF handle_log, Takes, Taken
  <2>2. Append(dbQueue, Head(dbInbox)) \in Seq(Entries) /\ Tail(dbInbox) \in Seq(DbMsgs)
    BY <2>1, DbHead
  <2>3. CASE commit_delay
    BY <1>2, <2>1, <2>2, <2>3 DEF handle_log
  <2>4. CASE ~commit_delay
    <3>1. Update(Append(dbQueue, Head(dbInbox)), dbWorker, TRUE)
      BY <1>2, <2>4 DEF handle_log
    <3>2. /\ dbQueue' \in Seq(Entries) /\ dbWorker' \in {None} \cup Workers
          /\ dbWorker' # None => dbWorker'.work # <<>>
          /\ log_timeout' \in BOOLEAN
      BY <3>1, <2>2, UpdateType
    <3> QED
      BY <2>1, <2>2, <3>2
  <2> QED
    BY <2>3, <2>4
<1>3. CASE handle_timeout
  <2>1. /\ dbQueue' \in Seq(Entries) /\ dbWorker' \in {None} \cup Workers
        /\ dbWorker' # None => dbWorker'.work # <<>>
        /\ log_timeout' \in BOOLEAN
    BY <1>3, UpdateType DEF handle_timeout
  <2> QED
    BY <1>3, <2>1 DEF handle_timeout
<1>4. CASE handle_down
  <2>1. dbInbox # <<>> /\ dbInbox' = Tail(dbInbox) /\ Update(dbQueue, None, log_timeout)
        /\ dbState' = (IF Head(dbInbox).reason = "normal" THEN "loop" ELSE "flush")
        /\ UNCHANGED <<commit_delay, txn, disk, answer, fault>>
    BY <1>4 DEF handle_down, Takes, Taken, WorkerDown
  <2>2. Tail(dbInbox) \in Seq(DbMsgs)
    BY <2>1, DbHead
  <2>3. /\ dbQueue' \in Seq(Entries) /\ dbWorker' \in {None} \cup Workers
        /\ dbWorker' # None => dbWorker'.work # <<>>
        /\ log_timeout' \in BOOLEAN
    BY <2>1, UpdateType
  <2> QED
    BY <2>1, <2>2, <2>3 DEF Terminating
<1>5. CASE handle_exit
  <2>1. dbInbox # <<>> /\ dbInbox' = Tail(dbInbox) /\ Update(dbQueue, dbWorker, log_timeout)
        /\ dbState' = "flush" /\ UNCHANGED <<commit_delay, txn, disk, answer, fault>>
    BY <1>5 DEF handle_exit, Takes, Taken
  <2>2. Tail(dbInbox) \in Seq(DbMsgs)
    BY <2>1, DbHead
  <2>3. /\ dbQueue' \in Seq(Entries) /\ dbWorker' \in {None} \cup Workers
        /\ dbWorker' # None => dbWorker'.work # <<>>
        /\ log_timeout' \in BOOLEAN
    BY <2>1, UpdateType
  <2> QED
    BY <2>1, <2>2, <2>3 DEF Terminating
<1> QED
  BY <1>1, <1>2, <1>3, <1>4, <1>5 DEF dbLoop

(* sqlite:close tells the clients that wait. *)
LEMMA AnswerDown ==
  ASSUME DbTypeOK,
         answer' = [c \in Clients |-> IF answer[c] = "calls" THEN "DOWN" ELSE answer[c]]
  PROVE  answer' \in [Clients -> {"none", "calls", "ok", "error", "DOWN"}]
BY DEF DbTypeOK

(* What the thread of a killed worker was committing. *)
LEMMA KillFacts ==
  ASSUME DbTypeOK, WorkerInv, dbWorker # None, KillWorker
  PROVE  /\ dbWorker' = [dbWorker EXCEPT !.at = "gone"]
         /\ dbInbox' = Append(dbInbox, DownMsg("killed"))
         /\ \/ txn' = txn /\ disk' = disk
            \/ dbWorker.at = "commit" /\ disk' = disk \o dbWorker.work /\ txn' = None
BY DEF KillWorker, WorkerInv

(* What stop-worker does to a worker that does not end: it is told once that *)
(* the worker is gone, and what it was committing may be on the disk.        *)
LEMMA StopFacts ==
  ASSUME DbTypeOK, WorkerInv, stop_worker
  PROVE  /\ dbWorker # None /\ Downs = {} /\ fault' = TRUE
         /\ UNCHANGED <<dbQueue, commit_delay, log_timeout, answer>>
         /\ dbState \in {"flush", "stop-worker", "shutdown"}
         /\ dbState' \in {"stop-worker", "shutdown", "kill"}
         /\ \/ UNCHANGED <<dbWorker, dbInbox, txn, disk>>
            \/ /\ dbWorker' = [dbWorker EXCEPT !.at = "gone"]
               /\ dbInbox' = Append(dbInbox, DownMsg("killed"))
               /\ \/ txn' = txn /\ disk' = disk
                  \/ dbWorker.at = "commit" /\ disk' = disk \o dbWorker.work /\ txn' = None
BY KillFacts DEF stop_worker, StopWorker

(* terminate and kill keep the types. *)
LEMMA DbTypeEnd ==
  ASSUME DbTypeOK, WorkerInv, terminate \/ kill_server
  PROVE  DbTypeOK'
<1> USE DEF DbTypeOK
<1>1. CASE Close
  BY <1>1, AnswerDown DEF Close
<1>2. CASE flush_next
  <2>1. PICK i \in Downs : dbInbox' = RemoveAt(dbInbox, i)
    BY <1>2 DEF flush_next
  <2>2. dbInbox' \in Seq(DbMsgs)
    BY <2>1, RemoveFacts DEF Downs, IsDown
  <2>3. Update(dbQueue, None, log_timeout) /\ dbState' = dbState
        /\ UNCHANGED <<commit_delay, txn, disk, answer, fault>>
    BY <1>2 DEF flush_next
  <2>4. /\ dbQueue' \in Seq(Entries) /\ dbWorker' \in {None} \cup Workers
        /\ dbWorker' # None => dbWorker'.work # <<>>
        /\ log_timeout' \in BOOLEAN
    BY <2>3, UpdateType
  <2> QED
    BY <2>2, <2>3, <2>4
<1>3. CASE stop_worker
  <2>1. /\ dbWorker # None /\ fault' = TRUE
        /\ UNCHANGED <<dbQueue, commit_delay, log_timeout, answer>>
        /\ dbState' \in Terminating
    BY <1>3, StopFacts DEF Terminating
  <2>2. CASE UNCHANGED <<dbWorker, dbInbox, txn, disk>>
    BY <2>1, <2>2
  <2>3. CASE /\ dbWorker' = [dbWorker EXCEPT !.at = "gone"]
             /\ dbInbox' = Append(dbInbox, DownMsg("killed"))
             /\ \/ txn' = txn /\ disk' = disk
                \/ dbWorker.at = "commit" /\ disk' = disk \o dbWorker.work /\ txn' = None
    <3>1. dbWorker \in Workers /\ dbWorker.work \in Seq(Entries) /\ "gone" \in Places
      BY <2>1 DEF Workers, Places
    <3>2. dbWorker' \in Workers /\ dbWorker'.work # <<>>
      BY <2>3, <3>1, <2>1, WorkerAt
    <3>3. dbInbox' \in Seq(DbMsgs)
      BY <2>3, DbMessages
    <3>4. txn' \in {None} \cup Seq(Entries) /\ disk' \in Seq(Entries)
      <4>1. disk \in Seq(Entries) /\ txn \in {None} \cup Seq(Entries)
        OBVIOUS
      <4>2. disk \o dbWorker.work \in Seq(Entries)
        BY <4>1, <3>1, ConcatIndices
      <4> QED
        BY <4>1, <4>2, <2>3
    <3> QED
      BY <2>1, <3>2, <3>3, <3>4
  <2> QED
    BY <1>3, <2>2, <2>3, StopFacts
<1>4. CASE kill_server
  BY <1>4, AnswerDown DEF kill_server
<1> QED
  BY <1>1, <1>2, <1>3, <1>4 DEF terminate, flush_done, worker_down

(* How far a step takes the worker. *)
LEMMA GoesFacts ==
  ASSUME DbTypeOK, dbWorker # None, NEW p \in Places, Goes(p)
  PROVE  /\ dbWorker' \in Workers /\ dbWorker' # None
         /\ dbWorker'.work = dbWorker.work /\ dbWorker'.at = p
         /\ dbInbox' = dbInbox /\ fault' = fault
BY WorkerAt DEF Goes, DbTypeOK

(* A worker that ends tells the server if that is alive. *)
LEMMA ExitsWorker ==
  ASSUME DbTypeOK, dbWorker # None, NEW x \in {"normal", "error"}, Exits(x)
  PROVE  /\ dbWorker' \in Workers /\ dbWorker' # None
         /\ dbWorker'.work = dbWorker.work /\ dbWorker'.at = "gone"
         /\ fault' = (fault \/ x # "normal") /\ fault' \in BOOLEAN
         /\ dbInbox' = IF DbAlive THEN Append(dbInbox, DownMsg(x)) ELSE dbInbox
         /\ dbInbox' \in Seq(DbMsgs)
<1>1. dbWorker' = [dbWorker EXCEPT !.at = "gone"] /\ "gone" \in Places /\ dbWorker \in Workers
  BY DEF Exits, Places, DbTypeOK
<1>2. dbInbox' = IF DbAlive THEN dbInbox \o <<DownMsg(x)>> ELSE dbInbox
  BY DEF Exits, Send
<1>3. dbInbox \in Seq(DbMsgs) /\ DownMsg(x) \in DbMsgs
  BY DbMessages DEF DbTypeOK
<1>4. dbInbox' = IF DbAlive THEN Append(dbInbox, DownMsg(x)) ELSE dbInbox
  BY <1>2, <1>3, AppendIsConcat
<1> QED
  BY <1>1, <1>3, <1>4, WorkerAt DEF Exits, DbTypeOK

(* The steps of the worker, each with what it does to the database. *)
LEMMA WorkFacts ==
  ASSUME DbTypeOK, WorkerInv, dbWork
  PROVE  /\ dbWorker # None /\ dbWorker.at # "gone" /\ dbWorker \in Workers
         /\ UNCHANGED <<dbState, dbQueue, commit_delay, log_timeout>>
         /\ dbWorker' \in Workers /\ dbWorker' # None /\ dbWorker'.work = dbWorker.work
         /\ \/ dbInbox' = dbInbox /\ fault' = fault /\ dbWorker'.at # "gone"
            \/ /\ dbWorker'.at = "gone"
               /\ \E x \in {"normal", "error"} :
                    /\ dbInbox' = IF DbAlive THEN Append(dbInbox, DownMsg(x)) ELSE dbInbox
                    /\ fault' = (fault \/ x # "normal")
                    /\ x = "normal" => \/ dbWorker.at = "commit" /\ disk' = disk \o dbWorker.work
                                       \/ dbWorker.at \in {"reply-ok", "reply-error"}
         /\ txn' \in {None} \cup Seq(Entries)
         /\ dbWorker'.at = "commit" => txn' = dbWorker.work
         /\ dbWorker'.at \in {"rollback", "reply-ok", "reply-error"} => ~IsLog(dbWorker.work[1])
         /\ dbWorker'.at \in {"begin", "work", "commit"} =>
              dbWorker.at \in {"begin", "work", "commit"} /\ disk' = disk
         /\ dbWorker.at \in {"reply-ok", "reply-error"} => dbWorker'.at = "gone"
         /\ \/ disk' = disk /\ dbWorker'.at # "reply-ok"
            \/ /\ dbWorker.at = "commit" /\ disk' = disk \o dbWorker.work
               /\ dbWorker'.at \in {"reply-ok", "gone"}
         /\ \/ answer' = answer
            \/ /\ dbWorker.at \in {"reply-ok", "reply-error"} /\ dbWorker'.at = "gone"
               /\ answer' = [answer EXCEPT ![dbWorker.work[1].client] =
                    IF @ # "calls" THEN @ ELSE IF dbWorker.at = "reply-ok" THEN "ok" ELSE "error"]
<1>0. \A p : At(p) => dbWorker # None /\ dbWorker.at = p
  BY DEF At
<1>a. dbWorker # None => dbWorker \in Workers /\ dbWorker.work \in Seq(Entries) /\ dbWorker.work # <<>>
  BY DEF DbTypeOK, Workers
<1>b. "gone" \in Places /\ "work" \in Places /\ "commit" \in Places /\ "rollback" \in Places
      /\ "reply-ok" \in Places /\ "reply-error" \in Places
  BY DEF Places
<1>c. UNCHANGED <<dbState, dbQueue, commit_delay, log_timeout>>
  BY DEF dbWork
<1>1. CASE BEGIN_IMMEDIATE
  <2>1. dbWorker # None /\ dbWorker.at = "begin" /\ disk' = disk /\ answer' = answer
    BY <1>1, <1>0 DEF BEGIN_IMMEDIATE
  <2>2. CASE txn' = <<>> /\ Goes("work")
    BY <2>1, <2>2, <1>a, <1>b, <1>c, GoesFacts
  <2>3. CASE Exits("error") /\ txn' = txn
    BY <2>1, <2>3, <1>a, <1>b, <1>c, ExitsWorker DEF DbTypeOK
  <2> QED
    BY <1>1, <2>2, <2>3 DEF BEGIN_IMMEDIATE
<1>2. CASE bulk_execute
  <2>1. dbWorker # None /\ dbWorker.at = "work" /\ disk' = disk /\ answer' = answer
    BY <1>2, <1>0 DEF bulk_execute
  <2>2. CASE txn' = dbWorker.work /\ Goes("commit")
    BY <2>1, <2>2, <1>a, <1>b, <1>c, GoesFacts
  <2>3. CASE \E n \in 0..(Len(dbWorker.work) - 1) :
               txn' = SubSeq(dbWorker.work, 1, n) /\ Exits("error")
    <3>1. PICK n \in 0..(Len(dbWorker.work) - 1) :
               txn' = SubSeq(dbWorker.work, 1, n) /\ Exits("error")
      BY <2>3
    <3>2. txn' \in Seq(Entries)
      BY <3>1, <2>1, <1>a
    <3> QED
      BY <2>1, <3>1, <3>2, <1>a, <1>b, <1>c, ExitsWorker
  <2> QED
    BY <1>2, <2>2, <2>3 DEF bulk_execute
<1>3. CASE call_f
  <2>1. dbWorker # None /\ dbWorker.at = "work" /\ disk' = disk /\ answer' = answer
        /\ txn' = dbWorker.work /\ ~IsLog(dbWorker.work[1])
    BY <1>3, <1>0 DEF call_f
  <2>2. CASE Goes("commit")
    BY <2>1, <2>2, <1>a, <1>b, <1>c, GoesFacts
  <2>3. CASE Goes("rollback")
    BY <2>1, <2>3, <1>a, <1>b, <1>c, GoesFacts
  <2> QED
    BY <1>3, <2>2, <2>3 DEF call_f
<1>4. CASE COMMIT
  <2>1. dbWorker # None /\ dbWorker.at = "commit" /\ answer' = answer /\ txn = dbWorker.work
    BY <1>4, <1>0 DEF COMMIT, WorkerInv
  <2>2. CASE disk' = disk \o txn /\ txn' = None /\ IsLog(dbWorker.work[1]) /\ Exits("normal")
    BY <2>1, <2>2, <1>a, <1>b, <1>c, ExitsWorker
  <2>3. CASE disk' = disk \o txn /\ txn' = None /\ ~IsLog(dbWorker.work[1]) /\ Goes("reply-ok")
    BY <2>1, <2>3, <1>a, <1>b, <1>c, GoesFacts
  <2>4. CASE Exits("error") /\ txn' = txn /\ disk' = disk
    BY <2>1, <2>4, <1>a, <1>b, <1>c, ExitsWorker DEF DbTypeOK
  <2> QED
    BY <1>4, <2>2, <2>3, <2>4 DEF COMMIT
<1>5. CASE ROLLBACK
  <2>1. dbWorker # None /\ dbWorker.at = "rollback" /\ disk' = disk /\ answer' = answer
        /\ ~IsLog(dbWorker.work[1])
    BY <1>5, <1>0 DEF ROLLBACK, WorkerInv
  <2>2. CASE txn' = None /\ Goes("reply-error")
    BY <2>1, <2>2, <1>a, <1>b, <1>c, GoesFacts
  <2>3. CASE Exits("error") /\ txn' = txn
    BY <2>1, <2>3, <1>a, <1>b, <1>c, ExitsWorker DEF DbTypeOK
  <2> QED
    BY <1>5, <2>2, <2>3 DEF ROLLBACK
<1>6. CASE reply
  <2>1. dbWorker # None /\ dbWorker.at \in {"reply-ok", "reply-error"} /\ disk' = disk /\ txn' = txn
        /\ Exits("normal")
    BY <1>6, <1>0 DEF reply
  <2>2. answer' = [answer EXCEPT ![dbWorker.work[1].client] =
          IF @ # "calls" THEN @ ELSE IF dbWorker.at = "reply-ok" THEN "ok" ELSE "error"]
    BY <1>6, <2>1 DEF reply, At
  <2> QED
    BY <2>1, <2>2, <1>a, <1>b, <1>c, ExitsWorker DEF DbTypeOK
<1> QED
  BY <1>1, <1>2, <1>3, <1>4, <1>5, <1>6 DEF dbWork

(* The steps of a worker keep the types. *)
LEMMA DbTypeWork ==
  ASSUME DbTypeOK, WorkerInv, dbWork
  PROVE  DbTypeOK'
<1>1. /\ dbWorker # None /\ dbWorker \in Workers
      /\ UNCHANGED <<dbState, dbQueue, commit_delay, log_timeout>>
      /\ dbWorker' \in Workers /\ dbWorker'.work = dbWorker.work
      /\ txn' \in {None} \cup Seq(Entries)
  BY WorkFacts
<1>2. dbInbox' \in Seq(DbMsgs) /\ fault' \in BOOLEAN
  <2>1. dbInbox \in Seq(DbMsgs) /\ fault \in BOOLEAN
    BY DEF DbTypeOK
  <2>2. CASE dbInbox' = dbInbox /\ fault' = fault
    BY <2>1, <2>2
  <2>3. CASE \E x \in {"normal", "error"} :
               /\ dbInbox' = IF DbAlive THEN Append(dbInbox, DownMsg(x)) ELSE dbInbox
               /\ fault' = (fault \/ x # "normal")
    BY <2>1, <2>3, DbMessages
  <2> QED
    BY <2>2, <2>3, WorkFacts
<1>3. disk' \in Seq(Entries)
  <2>1. disk \in Seq(Entries) /\ dbWorker.work \in Seq(Entries)
    BY <1>1 DEF DbTypeOK, Workers
  <2>2. disk \o dbWorker.work \in Seq(Entries)
    BY <2>1, ConcatIndices
  <2> QED
    BY <2>1, <2>2, WorkFacts
<1>4. answer' \in [Clients -> {"none", "calls", "ok", "error", "DOWN"}]
  <2>1. answer \in [Clients -> {"none", "calls", "ok", "error", "DOWN"}]
    BY DEF DbTypeOK
  <2>2. CASE answer' = [answer EXCEPT ![dbWorker.work[1].client] =
          IF @ # "calls" THEN @ ELSE IF dbWorker.at = "reply-ok" THEN "ok" ELSE "error"]
    BY <2>1, <2>2
  <2> QED
    BY <2>1, <2>2, WorkFacts
<1> QED
  BY <1>1, <1>2, <1>3, <1>4 DEF DbTypeOK

(* The DOWN messages of a sequence of messages. *)
DownsIn(s) == {i \in DOMAIN s : IsDown(s[i])}

(* There is at most one DOWN message when the first message is taken. *)
LEMMA DownsTail ==
  ASSUME NEW M, NEW s \in Seq(M), s # <<>>, \A i, j \in DownsIn(s) : i = j
  PROVE  /\ \A i, j \in DownsIn(Tail(s)) : i = j
         /\ DownsIn(Tail(s)) # {} => DownsIn(s) # {} /\ ~IsDown(Head(s))
         /\ \A i \in DownsIn(Tail(s)) : i + 1 \in DownsIn(s) /\ Tail(s)[i] = s[i + 1]
<1>1. /\ Head(s) = s[1] /\ 1 \in DOMAIN s /\ DOMAIN Tail(s) \subseteq Nat
      /\ \A i \in DOMAIN Tail(s) : i + 1 \in DOMAIN s /\ Tail(s)[i] = s[i + 1] /\ i + 1 # 1
  BY TailFacts
<1>2. \A i \in DownsIn(Tail(s)) : i + 1 \in DownsIn(s) /\ i \in Nat /\ i + 1 # 1
  BY <1>1 DEF DownsIn
<1>3. \A i, j \in DownsIn(Tail(s)) : i = j
  BY <1>2
<1>4. IsDown(Head(s)) => 1 \in DownsIn(s)
  BY <1>1 DEF DownsIn
<1>5. DownsIn(Tail(s)) # {} => ~IsDown(Head(s))
  BY <1>2, <1>4
<1>6. \A i \in DownsIn(Tail(s)) : Tail(s)[i] = s[i + 1]
  BY <1>1 DEF DownsIn
<1> QED
  BY <1>2, <1>3, <1>5, <1>6

(* A message at the end is one more DOWN message only if it is one. *)
LEMMA DownsAppend ==
  ASSUME NEW M, NEW s \in Seq(M), NEW x \in M
  PROVE  /\ ~IsDown(x) => DownsIn(Append(s, x)) = DownsIn(s)
         /\ IsDown(x) => DownsIn(Append(s, x)) = DownsIn(s) \cup {Len(s) + 1}
         /\ \A i \in DownsIn(s) : Append(s, x)[i] = s[i]
         /\ Append(s, x)[Len(s) + 1] = x
<1> DEFINE r == Append(s, x)
<1>1. /\ DOMAIN r = 1..(Len(s) + 1) /\ \A i \in 1..Len(s) : r[i] = s[i]
      /\ r[Len(s) + 1] = x /\ DOMAIN s = 1..Len(s) /\ Len(s) \in Nat
  OBVIOUS
<1> HIDE DEF r
<1>2. \A i \in DOMAIN r : (i \in DOMAIN s /\ r[i] = s[i]) \/ (i = Len(s) + 1 /\ r[i] = x)
  BY <1>1
<1>3. \A i \in DOMAIN s : i \in DOMAIN r /\ r[i] = s[i]
  BY <1>1
<1>4. Len(s) + 1 \in DOMAIN r /\ Len(s) + 1 \notin DOMAIN s
  BY <1>1
<1> QED
  BY <1>1, <1>2, <1>3, <1>4 DEF DownsIn, r

(* There is no DOWN message when the only one is taken. *)
LEMMA DownsRemove ==
  ASSUME NEW M, NEW s \in Seq(M), NEW k \in DownsIn(s), \A i, j \in DownsIn(s) : i = j
  PROVE  DownsIn(RemoveAt(s, k)) = {}
<1> DEFINE r == RemoveAt(s, k)
<1>1. k \in DOMAIN s /\ s[k].type = "DOWN"
  BY DEF DownsIn, IsDown
<1>2. PICK f \in [DOMAIN r -> DOMAIN s \ {k}] : \A i \in DOMAIN r : r[i] = s[f[i]]
  BY <1>1, RemoveFacts
<1> HIDE DEF r
<1>3. ASSUME NEW i \in DownsIn(r) PROVE FALSE
  <2>1. f[i] \in DOMAIN s /\ f[i] # k /\ IsDown(s[f[i]])
    BY <1>2, <1>3 DEF DownsIn
  <2> QED
    BY <2>1 DEF DownsIn
<1> QED
  BY <1>3 DEF r

(* What WorkerInv says of a worker. *)
WorkerOK(w, t) ==
  w # None =>
    /\ ~IsLog(w.work[1]) => Len(w.work) = 1
    /\ w.at \in {"rollback", "reply-ok", "reply-error"} => ~IsLog(w.work[1])
    /\ w.at = "commit" => t = w.work

(* The worker that update spawns has one transaction, or log entries. *)
LEMMA UpdateWorker ==
  ASSUME NEW q \in Seq(Entries), NEW w \in {None} \cup Workers, NEW t \in BOOLEAN, Update(q, w, t),
         WorkerOK(w, txn), txn' = txn
  PROVE  WorkerOK(dbWorker', txn') /\ (w # None => dbWorker' = w)
<1>1. CASE dbWorker' = w
  BY <1>1
<1>2. CASE w = None /\ \E n \in 1..Len(q) :
             /\ dbWorker' = [work |-> SubSeq(q, 1, n), at |-> "begin"]
             /\ dbQueue' = SubSeq(q, n + 1, Len(q))
             /\ ~IsLog(q[1]) => n = 1
  <2>1. PICK n \in 1..Len(q) :
             /\ dbWorker' = [work |-> SubSeq(q, 1, n), at |-> "begin"]
             /\ ~IsLog(q[1]) => n = 1
    BY <1>2
  <2>2. dbWorker'.at = "begin" /\ (~IsLog(dbWorker'.work[1]) => Len(dbWorker'.work) = 1)
    BY <2>1, BatchSplit
  <2> QED
    BY <1>2, <2>2 DEF WorkerOK
<1> QED
  BY <1>1, <1>2, UpdateFacts

(* The loop of the server spawns a worker only when the DOWN message of the  *)
(* last one has been taken.                                                  *)
LEMMA WorkerLoop ==
  ASSUME DbTypeOK, WorkerInv, dbLoop
  PROVE  WorkerInv'
<1>0. /\ dbInbox \in Seq(DbMsgs) /\ dbQueue \in Seq(Entries) /\ dbWorker \in {None} \cup Workers
      /\ log_timeout \in BOOLEAN /\ WorkerOK(dbWorker, txn) /\ WorkerOK(None, txn)
  BY DEF DbTypeOK, WorkerInv, WorkerOK
<1>1. /\ Downs = DownsIn(dbInbox) /\ Downs' = DownsIn(dbInbox')
      /\ \A i, j \in DownsIn(dbInbox) : i = j
      /\ DownsIn(dbInbox) # {} => Gone
  BY DEF Downs, DownsIn, WorkerInv, OneDown
<1>2. dbState = "loop" /\ dbState' \in {"loop", "flush"} /\ txn' = txn
  BY DEF dbLoop, handle_transaction, handle_log, handle_timeout, handle_down, handle_exit, Takes,
         WorkerDown
<1>3. SUFFICES /\ WorkerOK(dbWorker', txn')
               /\ DownsIn(dbInbox') # {} => Gone'
               /\ \A i, j \in DownsIn(dbInbox') : i = j
  BY <1>1, <1>2 DEF WorkerInv, WorkerOK, OneDown, ClosedUnused
<1>4. CASE handle_transaction \/ handle_log \/ handle_exit
  <2>1. dbInbox # <<>> /\ dbInbox' = Tail(dbInbox)
    BY <1>4 DEF handle_transaction, handle_log, handle_exit, Takes, Taken
  <2>2. /\ \A i, j \in DownsIn(dbInbox') : i = j
        /\ DownsIn(dbInbox') # {} => DownsIn(dbInbox) # {}
    BY <1>0, <1>1, <2>1, DownsTail
  <2>3. WorkerOK(dbWorker', txn') /\ (dbWorker # None => dbWorker' = dbWorker)
    <3>1. CASE handle_transaction
      <4>1. Append(dbQueue, Head(dbInbox)) \in Seq(Entries)
        BY <3>1, <2>1, DbHead DEF handle_transaction, Takes
      <4>2. Update(Append(dbQueue, Head(dbInbox)), dbWorker, log_timeout)
        BY <3>1 DEF handle_transaction
      <4> QED
        BY <4>1, <4>2, <1>0, <1>2, UpdateWorker
    <3>2. CASE handle_log
      <4>1. Append(dbQueue, Head(dbInbox)) \in Seq(Entries)
        BY <3>2, <2>1, DbHead DEF handle_log, Takes
      <4>2. CASE commit_delay
        BY <3>2, <4>2, <1>0, <1>2 DEF handle_log
      <4>3. CASE ~commit_delay
        <5>1. Update(Append(dbQueue, Head(dbInbox)), dbWorker, TRUE)
          BY <3>2, <4>3 DEF handle_log
        <5> QED
          BY <4>1, <5>1, <1>0, <1>2, UpdateWorker
      <4> QED
        BY <4>2, <4>3
    <3>3. CASE handle_exit
      BY <3>3, <1>0, <1>2, UpdateWorker DEF handle_exit
    <3> QED
      BY <1>4, <3>1, <3>2, <3>3
  <2> QED
    BY <1>1, <2>2, <2>3 DEF Gone
<1>5. CASE handle_timeout
  <2>1. dbInbox' = <<>> /\ WorkerOK(dbWorker', txn')
    BY <1>5, <1>0, <1>2, UpdateWorker DEF handle_timeout
  <2> QED
    BY <2>1 DEF DownsIn
<1>6. CASE handle_down
  <2>1. dbInbox # <<>> /\ dbInbox' = Tail(dbInbox) /\ IsDown(Head(dbInbox))
        /\ Update(dbQueue, None, log_timeout)
    BY <1>6 DEF handle_down, Takes, Taken, IsDown, WorkerDown
  <2>2. DownsIn(dbInbox') = {}
    BY <1>0, <1>1, <2>1, DownsTail
  <2>3. WorkerOK(dbWorker', txn')
    BY <2>1, <1>0, <1>2, UpdateWorker
  <2> QED
    BY <2>2, <2>3
<1> QED
  BY <1>4, <1>5, <1>6 DEF dbLoop

(* terminate takes the DOWN message too, and closes the database only then. *)
LEMMA WorkerEnd ==
  ASSUME DbTypeOK, WorkerInv, terminate \/ kill_server
  PROVE  WorkerInv'
<1>0. /\ dbInbox \in Seq(DbMsgs) /\ dbQueue \in Seq(Entries) /\ dbWorker \in {None} \cup Workers
      /\ log_timeout \in BOOLEAN /\ WorkerOK(dbWorker, txn) /\ WorkerOK(None, txn)
  BY DEF DbTypeOK, WorkerInv, WorkerOK
<1>1. /\ Downs = DownsIn(dbInbox) /\ Downs' = DownsIn(dbInbox')
      /\ \A i, j \in DownsIn(dbInbox) : i = j
      /\ DownsIn(dbInbox) # {} => Gone
  BY DEF Downs, DownsIn, WorkerInv, OneDown
<1>2. SUFFICES /\ WorkerOK(dbWorker', txn')
               /\ DownsIn(dbInbox') # {} => Gone'
               /\ \A i, j \in DownsIn(dbInbox') : i = j
               /\ ClosedUnused'
  BY <1>1 DEF WorkerInv, WorkerOK, OneDown
<1>3. CASE flush_done \/ worker_down
  <2>1. Close /\ (dbWorker = None \/ Gone)
    BY <1>1, <1>3 DEF flush_done, worker_down
  <2>2. dbInbox' = <<>> /\ dbWorker' = dbWorker /\ txn' = None
    BY <2>1 DEF Close
  <2>3. DownsIn(dbInbox') = {}
    BY <2>2 DEF DownsIn
  <2>4. WorkerOK(dbWorker', txn')
    BY <2>1, <2>2, <1>0 DEF WorkerOK, Gone
  <2> QED
    BY <2>1, <2>2, <2>3, <2>4 DEF ClosedUnused, Gone
<1>4. CASE flush_next
  <2>1. PICK k \in Downs : dbInbox' = RemoveAt(dbInbox, k)
    BY <1>4 DEF flush_next
  <2>2. DownsIn(dbInbox') = {}
    BY <2>1, <1>0, <1>1, DownsRemove
  <2>3. Update(dbQueue, None, log_timeout) /\ dbState' = "flush" /\ txn' = txn
    BY <1>4 DEF flush_next
  <2>4. WorkerOK(dbWorker', txn')
    BY <2>3, <1>0, UpdateWorker
  <2> QED
    BY <2>2, <2>3, <2>4 DEF ClosedUnused
<1>5. CASE stop_worker
  <2>1. dbWorker # None /\ dbWorker \in Workers /\ Downs = {} /\ dbState' # "closed"
    BY <1>0, <1>5, StopFacts
  <2>2. CASE UNCHANGED <<dbWorker, dbInbox, txn, disk>>
    BY <2>1, <2>2, <1>0, <1>1 DEF ClosedUnused
  <2>3. CASE /\ dbWorker' = [dbWorker EXCEPT !.at = "gone"]
             /\ dbInbox' = Append(dbInbox, DownMsg("killed"))
    <3>1. dbWorker' # None /\ dbWorker'.at = "gone" /\ dbWorker'.work = dbWorker.work
      BY <2>1, <2>3, WorkerAt DEF Places
    <3>2. DownsIn(dbInbox') = {Len(dbInbox) + 1}
      <4>1. DownMsg("killed") \in DbMsgs /\ IsDown(DownMsg("killed"))
        BY DbMessages DEF DownMsg, IsDown
      <4> QED
        BY <4>1, <2>1, <2>3, <1>0, <1>1, DownsAppend
    <3>3. WorkerOK(dbWorker', txn')
      BY <3>1, <1>0, <2>1 DEF WorkerOK
    <3> QED
      BY <2>1, <3>1, <3>2, <3>3 DEF ClosedUnused, Gone
  <2> QED
    BY <1>5, <2>2, <2>3, StopFacts
<1>6. CASE kill_server
  <2>1. dbState' = "killed" /\ dbInbox' = <<>> /\ dbWorker' = dbWorker /\ txn' = txn
    BY <1>6 DEF kill_server
  <2>2. DownsIn(dbInbox') = {}
    BY <2>1 DEF DownsIn
  <2> QED
    BY <2>1, <2>2, <1>0 DEF ClosedUnused
<1> QED
  BY <1>3, <1>4, <1>5, <1>6 DEF terminate

(* A worker works on what it was given, and its last step is to tell its end. *)
LEMMA WorkerWork ==
  ASSUME DbTypeOK, WorkerInv, dbWork
  PROVE  WorkerInv'
<1>0. dbInbox \in Seq(DbMsgs) /\ WorkerOK(dbWorker, txn)
  BY DEF DbTypeOK, WorkerInv, WorkerOK
<1>1. /\ Downs = DownsIn(dbInbox) /\ Downs' = DownsIn(dbInbox')
      /\ DownsIn(dbInbox) # {} => Gone
  BY DEF Downs, DownsIn, WorkerInv, OneDown
<1>2. /\ dbWorker # None /\ dbWorker.at # "gone" /\ dbState' = dbState
      /\ dbWorker' # None /\ dbWorker'.work = dbWorker.work
      /\ dbWorker'.at = "commit" => txn' = dbWorker.work
      /\ dbWorker'.at \in {"rollback", "reply-ok", "reply-error"} => ~IsLog(dbWorker.work[1])
  BY WorkFacts
<1>3. DownsIn(dbInbox) = {}
  BY <1>1, <1>2 DEF Gone
<1>4. WorkerOK(dbWorker', txn')
  BY <1>0, <1>2 DEF WorkerOK
<1>5. dbState' # "closed"
  BY <1>2 DEF WorkerInv, ClosedUnused
<1>6. /\ DownsIn(dbInbox') # {} => Gone'
      /\ \A i, j \in DownsIn(dbInbox') : i = j
  <2>1. CASE dbInbox' = dbInbox
    BY <2>1, <1>3
  <2>2. CASE dbWorker'.at = "gone" /\ \E x \in {"normal", "error"} :
                  dbInbox' = IF DbAlive THEN Append(dbInbox, DownMsg(x)) ELSE dbInbox
    <3>1. PICK x \in {"normal", "error"} :
                  dbInbox' = IF DbAlive THEN Append(dbInbox, DownMsg(x)) ELSE dbInbox
      BY <2>2
    <3>2. DownMsg(x) \in DbMsgs /\ IsDown(DownMsg(x))
      BY DbMessages DEF DownMsg, IsDown
    <3>3. DownsIn(Append(dbInbox, DownMsg(x))) = {Len(dbInbox) + 1}
      BY <1>0, <1>3, <3>2, DownsAppend
    <3> QED
      BY <1>2, <1>3, <2>2, <3>1, <3>3 DEF Gone
  <2> QED
    BY <2>1, <2>2, WorkFacts
<1> QED
  BY <1>1, <1>4, <1>5, <1>6 DEF WorkerInv, WorkerOK, OneDown, ClosedUnused

-----------------------------------------------------------------------------
(* What the event manager and the application do to the database server: at  *)
(* most they send it messages.                                               *)

(* Steps that leave the database server alone, but for its inbox. *)
SendsOnly ==
  UNCHANGED <<dbState, dbQueue, dbWorker, commit_delay, log_timeout, txn, disk, fault>>

(* What clients and the event manager send are not DOWN messages. *)
LEMMA SendFacts ==
  ASSUME DbTypeOK, NEW msgs \in Seq(DbMsgs), Send(msgs),
         \A i \in DOMAIN msgs : ~IsDown(msgs[i])
  PROVE  /\ dbInbox' \in Seq(DbMsgs) /\ Downs' = Downs
         /\ \A i \in Downs : dbInbox'[i] = dbInbox[i]
<1>1. dbInbox \in Seq(DbMsgs)
  BY DEF DbTypeOK
<1>2. CASE ~DbAlive
  BY <1>1, <1>2 DEF Send, Downs
<1>3. CASE DbAlive
  <2> DEFINE r == dbInbox \o msgs
  <2>1. dbInbox' = r
    BY <1>3 DEF Send
  <2>2. /\ r \in Seq(DbMsgs) /\ DOMAIN r = 1..(Len(dbInbox) + Len(msgs))
        /\ Len(dbInbox) \in Nat /\ Len(msgs) \in Nat /\ DOMAIN dbInbox = 1..Len(dbInbox)
        /\ DOMAIN msgs = 1..Len(msgs)
        /\ \A i \in 1..Len(dbInbox) : r[i] = dbInbox[i]
        /\ \A i \in 1..(Len(dbInbox) + Len(msgs)) :
             i > Len(dbInbox) => i - Len(dbInbox) \in 1..Len(msgs) /\ r[i] = msgs[i - Len(dbInbox)]
    BY <1>1, ConcatIndices
  <2> HIDE DEF r
  <2>3. \A i \in DOMAIN r : (i \in DOMAIN dbInbox /\ r[i] = dbInbox[i]) \/ ~IsDown(r[i])
    BY <2>2, SMTT(30)
  <2>4. \A i \in DOMAIN dbInbox : i \in DOMAIN r /\ r[i] = dbInbox[i]
    BY <2>2
  <2> QED
    BY <2>1, <2>2, <2>3, <2>4 DEF Downs
<1> QED
  BY <1>2, <1>3

(* db:transaction *)
LEMMA CallFacts ==
  ASSUME DbTypeOK, WorkerInv, NEW c \in Clients, transaction(c)
  PROVE  DbTypeOK' /\ WorkerInv'
<1>1. SendsOnly /\ Send(<<TxnMsg(c)>>) /\ answer[c] = "none"
      /\ answer' = [answer EXCEPT ![c] = IF DbAlive THEN "calls" ELSE "DOWN"]
  BY DEF transaction, SendsOnly
<1> DEFINE msgs == <<TxnMsg(c)>>
<1>2. msgs \in Seq(DbMsgs) /\ \A i \in DOMAIN msgs : ~IsDown(msgs[i])
  BY DbMessages DEF TxnMsg, IsDown
<1>3. dbInbox' \in Seq(DbMsgs) /\ Downs' = Downs
  BY <1>1, <1>2, SendFacts
<1>4. answer' \in [Clients -> {"none", "calls", "ok", "error", "DOWN"}]
  BY <1>1 DEF DbTypeOK
<1>5. DbTypeOK'
  BY <1>1, <1>3, <1>4 DEF DbTypeOK, SendsOnly
<1>6. WorkerInv'
  BY <1>1, <1>3 DEF WorkerInv, SendsOnly, Gone, OneDown, ClosedUnused
<1> QED
  BY <1>5, <1>6

(* Short sequences. *)
LEMMA AppendShort ==
  ASSUME NEW a, NEW b
  PROVE  Append(<<>>, a) = <<a>> /\ Append(<<b>>, a) = <<b, a>>
<1> DEFINE S == {a, b}
<1>1. <<>> \in Seq(S) /\ <<a>> \in Seq(S) /\ <<b>> \in Seq(S) /\ <<b, a>> \in Seq(S)
  OBVIOUS
<1>2. /\ Append(<<>>, a) \in Seq(S) /\ Len(Append(<<>>, a)) = 1 /\ Append(<<>>, a)[1] = a
  BY <1>1
<1>3. /\ Append(<<b>>, a) \in Seq(S) /\ Len(Append(<<b>>, a)) = 2
      /\ Append(<<b>>, a)[1] = b /\ Append(<<b>>, a)[2] = a
  BY <1>1
<1>4. Len(<<a>>) = 1 /\ Len(<<b, a>>) = 2 /\ <<b, a>>[1] = b /\ <<b, a>>[2] = a
  OBVIOUS
<1> HIDE DEF S
<1>5. Append(<<>>, a) = <<a>>
  BY <1>1, <1>2, <1>4, SeqEqual
<1>6. Append(<<b>>, a) = <<b, a>>
  <2>1. \A i \in 1..2 : Append(<<b>>, a)[i] = <<b, a>>[i]
    BY <1>3, <1>4
  <2> QED
    BY <1>1, <1>3, <1>4, <2>1, SeqEqual
<1> QED
  BY <1>5, <1>6

(* What do-notify does with the database server and the log handler. *)
LEMMA LogHandlerFacts ==
  ASSUME NEW e \in Nat, CallLogHandler(e)
  PROVE  /\ console' = console \/ console' = console \cup {e}
         /\ \/ ~log_handler /\ UNCHANGED <<log_handler, logLinked, dbInbox>> /\ e \in console'
            \/ /\ log_handler
               /\ \/ UNCHANGED <<log_handler, logLinked>>
                  \/ log_handler' = FALSE /\ logLinked' = FALSE
               /\ \E msgs \in {<<>>, <<LogMsg(e)>>, <<ExitMsg>>, <<LogMsg(e), ExitMsg>>} :
                    /\ Send(msgs)
                    /\ msgs \in {<<ExitMsg>>, <<LogMsg(e), ExitMsg>>} => log_handler' = FALSE
                    /\ msgs \notin {<<LogMsg(e)>>, <<LogMsg(e), ExitMsg>>} => e \in console'
<1>1. CASE ~log_handler /\ console' = console \cup {e} /\ UNCHANGED <<log_handler, logLinked, dbInbox>>
  BY <1>1
<1>2. CASE /\ log_handler /\ Send(<<LogMsg(e)>>)
           /\ UNCHANGED <<console, log_handler, logLinked>>
  <2>1. <<LogMsg(e)>> # <<ExitMsg>> /\ <<LogMsg(e)>> # <<LogMsg(e), ExitMsg>>
    BY DEF LogMsg, ExitMsg
  <2> QED
    BY <1>2, <2>1
<1>3. CASE /\ log_handler /\ \E done \in {<<>>, <<LogMsg(e)>>} :
                \/ Send(done) /\ UNCHANGED <<log_handler, logLinked>>
                \/ Send(Append(done, ExitMsg)) /\ log_handler' = FALSE /\ logLinked' = FALSE
           /\ console' = console \cup {e}
  <2>1. PICK done \in {<<>>, <<LogMsg(e)>>} :
                \/ Send(done) /\ UNCHANGED <<log_handler, logLinked>>
                \/ Send(Append(done, ExitMsg)) /\ log_handler' = FALSE /\ logLinked' = FALSE
    BY <1>3
  <2>2. Append(<<>>, ExitMsg) = <<ExitMsg>> /\ Append(<<LogMsg(e)>>, ExitMsg) = <<LogMsg(e), ExitMsg>>
    BY AppendShort
  <2>3. /\ <<LogMsg(e)>> # <<ExitMsg>> /\ <<LogMsg(e)>> # <<LogMsg(e), ExitMsg>>
        /\ <<>> # <<ExitMsg>> /\ <<>> # <<LogMsg(e), ExitMsg>>
    BY DEF LogMsg, ExitMsg
  <2>4. e \in console' /\ console' = console \cup {e}
    BY <1>3
  <2>5. CASE Send(done) /\ UNCHANGED <<log_handler, logLinked>>
    BY <1>3, <2>3, <2>4, <2>5
  <2>6. CASE Send(Append(done, ExitMsg)) /\ log_handler' = FALSE /\ logLinked' = FALSE
    BY <1>3, <2>2, <2>4, <2>6
  <2> QED
    BY <2>1, <2>5, <2>6
<1> QED
  BY <1>1, <1>2, <1>3 DEF CallLogHandler

(* The messages that it sends. *)
LEMMA LogMessages ==
  ASSUME NEW e \in Nat,
         NEW msgs \in {<<>>, <<LogMsg(e)>>, <<ExitMsg>>, <<LogMsg(e), ExitMsg>>}
  PROVE  /\ msgs \in Seq(DbMsgs) /\ \A i \in DOMAIN msgs : ~IsDown(msgs[i])
         /\ InOrder(msgs) /\ Once(msgs) /\ Calls(msgs) = {}
         /\ Events(msgs) = IF msgs \in {<<LogMsg(e)>>, <<LogMsg(e), ExitMsg>>} THEN {e} ELSE {}
<1>0. /\ LogMsg(e) \in DbMsgs /\ ExitMsg \in DbMsgs
      /\ LogMsg(e).type = "log" /\ LogMsg(e).event = e /\ ExitMsg.type = "EXIT"
  BY DbMessages DEF LogMsg, ExitMsg
<1>1. CASE msgs = <<>>
  BY <1>1, EmptyFacts
<1>2. CASE msgs = <<LogMsg(e)>>
  <2>1. msgs \in Seq(DbMsgs) /\ DOMAIN msgs = {1} /\ msgs[1] = LogMsg(e)
    BY <1>0, <1>2
  <2> QED
    BY <1>0, <1>2, <2>1 DEF Events, Calls, InOrder, Once, IsEvent, IsDown
<1>3. CASE msgs = <<ExitMsg>>
  <2>1. msgs \in Seq(DbMsgs) /\ DOMAIN msgs = {1} /\ msgs[1] = ExitMsg
    BY <1>0, <1>3
  <2>2. msgs # <<LogMsg(e)>> /\ msgs # <<LogMsg(e), ExitMsg>>
    BY <1>0, <1>3
  <2> QED
    BY <1>0, <2>1, <2>2 DEF Events, Calls, InOrder, Once, IsEvent, IsDown
<1>4. CASE msgs = <<LogMsg(e), ExitMsg>>
  <2>1. msgs \in Seq(DbMsgs) /\ DOMAIN msgs = {1, 2} /\ msgs[1] = LogMsg(e) /\ msgs[2] = ExitMsg
    BY <1>0, <1>4
  <2> QED
    BY <1>0, <1>4, <2>1 DEF Events, Calls, InOrder, Once, IsEvent, IsDown
<1> QED
  BY <1>1, <1>2, <1>3, <1>4

-----------------------------------------------------------------------------
(* The event manager: types *)

ExitMsgs == [type : {"EXIT"}, owner : Owners \cup {"log-db"}]

(* Messages to the manager. *)
LEMMA EmMessages ==
  /\ \A e \in Nat : Notify(e) \in EmMsgs
  /\ \A o \in Owners : AddHandler(o) \in EmMsgs
  /\ \A p \in Owners \cup {"log-db"} : ExitOf(p) \in EmMsgs
  /\ \A what \in {"set-log-handler", "flush-buffer", "unregister", "parent-EXIT"} :
       Asks(what) \in EmMsgs
  /\ ExitMsgs \subseteq EmMsgs
BY DEF Notify, AddHandler, ExitOf, Asks, EmMsgs, ExitMsgs

(* The EXIT that a link to a process that has ended brings. *)
LEMMA LinkedExits ==
  ASSUME NEW p \in Owners \cup {"log-db"}, NEW b \in BOOLEAN
  PROVE  LinkedExit(p, b) \in Seq(ExitMsgs) /\ LinkedExit(p, b) \in Seq(EmMsgs)
<1>1. <<ExitOf(p)>> \in Seq(ExitMsgs) /\ <<>> \in Seq(ExitMsgs)
  BY DEF ExitOf, ExitMsgs
<1>2. LinkedExit(p, b) \in Seq(ExitMsgs)
  BY <1>1 DEF LinkedExit
<1> QED
  BY <1>2, EmMessages, SeqMonotonic

(* The first message of the manager. *)
LEMMA EmHead ==
  ASSUME EmTypeOK, emInbox # <<>>
  PROVE  /\ emInbox \in Seq(EmMsgs) /\ Head(emInbox) \in EmMsgs /\ Tail(emInbox) \in Seq(EmMsgs)
         /\ Head(emInbox).type = "notify" => Head(emInbox).event \in Nat
         /\ Head(emInbox).type = "add-handler" => Head(emInbox).owner \in Owners
         /\ Head(emInbox).type = "EXIT" => Head(emInbox).owner \in Owners \cup {"log-db"}
<1>1. emInbox \in Seq(EmMsgs) /\ Head(emInbox) \in EmMsgs /\ Tail(emInbox) \in Seq(EmMsgs)
  BY DEF EmTypeOK
<1> QED
  BY <1>1 DEF EmMsgs

(* do-notify appends EXIT messages of the owners that end. *)
LEMMA NotifyFacts ==
  ASSUME EmTypeOK, DbTypeOK, NEW e \in Nat, NEW inbox \in Seq(EmMsgs), DoNotify(e, inbox)
  PROVE  /\ ended \subseteq ended' /\ ended' \subseteq Owners
         /\ \E x \in Seq(ExitMsgs) :
              /\ emInbox' = inbox \o x /\ emInbox' \in Seq(EmMsgs)
              /\ \A o \in ended' \ ended : ExitOf(o) \in ToSet(x)
         /\ CallLogHandler(e)
<1>1. PICK dying \in SUBSET (handlers \ ended) :
        ended' = ended \cup dying /\ emInbox' = inbox \o ExitsOf(dying)
  BY DEF DoNotify
<1>2. dying \in SUBSET Owners /\ ended \subseteq Owners
  BY DEF EmTypeOK
<1>3. /\ ExitsOf(dying) \in Seq(ExitMsgs)
      /\ ToSet(ExitsOf(dying)) = {ExitOf(o) : o \in dying}
  BY <1>2, ExitsFacts DEF ExitMsgs
<1>4. ExitsOf(dying) \in Seq(EmMsgs)
  BY <1>3, EmMessages, SeqMonotonic
<1>5. emInbox' \in Seq(EmMsgs)
  BY <1>1, <1>4, ConcatIndices
<1> QED
  BY <1>1, <1>2, <1>3, <1>5 DEF DoNotify

(* What it leaves of the types. *)
LEMMA NotifyTypes ==
  ASSUME EmTypeOK, DbTypeOK, WorkerInv, NEW e \in Nat, NEW inbox \in Seq(EmMsgs), DoNotify(e, inbox),
         UNCHANGED <<dbState, dbQueue, dbWorker, commit_delay, log_timeout, txn, disk, answer, fault>>
  PROVE  /\ DbTypeOK' /\ WorkerInv'
         /\ ended' \subseteq Owners /\ emInbox' \in Seq(EmMsgs) /\ console' \subseteq Nat
         /\ log_handler' \in BOOLEAN /\ logLinked' \in BOOLEAN
<1>1. ended' \subseteq Owners /\ emInbox' \in Seq(EmMsgs) /\ CallLogHandler(e)
  BY NotifyFacts
<1>2. console' \subseteq Nat /\ log_handler' \in BOOLEAN /\ logLinked' \in BOOLEAN
  BY <1>1, LogHandlerFacts DEF EmTypeOK
<1>3. dbInbox' \in Seq(DbMsgs) /\ Downs' = Downs
  <2>1. CASE dbInbox' = dbInbox
    BY <2>1 DEF DbTypeOK, Downs
  <2>2. CASE \E msgs \in {<<>>, <<LogMsg(e)>>, <<ExitMsg>>, <<LogMsg(e), ExitMsg>>} : Send(msgs)
    BY <2>2, LogMessages, SendFacts
  <2> QED
    BY <1>1, <2>1, <2>2, LogHandlerFacts
<1>4. DbTypeOK'
  BY <1>3 DEF DbTypeOK
<1>5. WorkerInv'
  BY <1>3 DEF WorkerInv, Gone, OneDown, ClosedUnused
<1> QED
  BY <1>1, <1>2, <1>4, <1>5

Base == TypeOK /\ WorkerInv

(* The event manager keeps the types, and sends no DOWN messages. *)
LEMMA BaseEm ==
  ASSUME Base, emProcess
  PROVE  Base'
<1> USE DEF EmTypeOK
<1>0. /\ EmTypeOK /\ DbTypeOK /\ WorkerInv /\ app' = app
      /\ UNCHANGED <<dbState, dbQueue, dbWorker, commit_delay, log_timeout, txn, disk, answer, fault>>
  BY DEF Base, TypeOK, emProcess
<1>1. SUFFICES EmTypeOK' /\ DbTypeOK' /\ WorkerInv'
  BY <1>0 DEF Base, TypeOK
<1>2. dbInbox' = dbInbox => DbTypeOK' /\ WorkerInv'
  BY <1>0 DEF DbTypeOK, WorkerInv, Gone, OneDown, ClosedUnused, Downs
<1>3. CASE handle_notify
  <2>1. emInbox # <<>> /\ Head(emInbox).type = "notify"
        /\ UNCHANGED <<emState, registered, buffering, pending, handlers, adding, replied,
                       looking, events, late>>
    BY <1>3 DEF handle_notify, EmTakes
  <2>2. Head(emInbox).event \in Nat /\ Tail(emInbox) \in Seq(EmMsgs)
    BY <1>0, <2>1, EmHead
  <2>3. CASE /\ event_buffer' = Buffered(Head(emInbox).event) /\ EmTaken
             /\ UNCHANGED <<log_handler, logLinked, ended, console, dbInbox>>
    <3>1. event_buffer' \in Seq(Nat) /\ emInbox' \in Seq(EmMsgs)
      BY <1>0, <2>2, <2>3 DEF Buffered, EmTaken
    <3> QED
      BY <1>0, <1>2, <2>1, <2>3, <3>1
  <2>4. CASE DoNotify(Head(emInbox).event, Tail(emInbox)) /\ event_buffer' = event_buffer
    <3>1. /\ DbTypeOK' /\ WorkerInv'
          /\ ended' \subseteq Owners /\ emInbox' \in Seq(EmMsgs) /\ console' \subseteq Nat
          /\ log_handler' \in BOOLEAN /\ logLinked' \in BOOLEAN
      BY <1>0, <2>2, <2>4, NotifyTypes
    <3> QED
      BY <1>0, <2>1, <2>4, <3>1
  <2> QED
    BY <1>3, <2>3, <2>4 DEF handle_notify
<1>4. CASE flush_buffer
  <2>1. Tail(emInbox) \in Seq(EmMsgs)
    BY <1>0, <1>4, EmHead DEF flush_buffer, EmTakes
  <2> QED
    BY <1>0, <1>2, <1>4, <2>1, EmptySeq DEF flush_buffer, EmTaken
<1>5. CASE do_flush_buffer
  <2>1. /\ pending # <<>> /\ DoNotify(Last(pending), emInbox)
        /\ pending' = Front(pending) /\ replied' = (pending' = <<>>)
        /\ UNCHANGED <<emState, registered, buffering, event_buffer, handlers, adding, looking,
                       events, late>>
    BY <1>5 DEF do_flush_buffer
  <2>2. Last(pending) \in Nat /\ Front(pending) \in Seq(Nat)
    BY <1>0, <2>1 DEF Last, Front
  <2>3. /\ DbTypeOK' /\ WorkerInv'
        /\ ended' \subseteq Owners /\ emInbox' \in Seq(EmMsgs) /\ console' \subseteq Nat
        /\ log_handler' \in BOOLEAN /\ logLinked' \in BOOLEAN
    BY <1>0, <2>1, <2>2, NotifyTypes
  <2> QED
    BY <1>0, <2>1, <2>2, <2>3
<1>6. CASE add_handler
  <2>1. emInbox # <<>> /\ Head(emInbox).type = "add-handler"
        /\ handlers' = handlers \cup {Head(emInbox).owner}
        /\ emInbox' = Tail(emInbox) \o LinkedExit(Head(emInbox).owner, Head(emInbox).owner \in ended)
        /\ UNCHANGED <<emState, registered, buffering, event_buffer, pending, log_handler,
                 logLinked, adding, ended, replied, console, looking, events, late, dbInbox>>
    BY <1>6 DEF add_handler, EmTakes
  <2>2. Head(emInbox).owner \in Owners /\ Tail(emInbox) \in Seq(EmMsgs)
    BY <1>0, <2>1, EmHead
  <2>3. LinkedExit(Head(emInbox).owner, Head(emInbox).owner \in ended) \in Seq(EmMsgs)
    BY <2>2, EmMessages DEF LinkedExit
  <2>4. emInbox' \in Seq(EmMsgs)
    BY <2>1, <2>2, <2>3, ConcatIndices
  <2> QED
    BY <1>0, <1>2, <2>1, <2>2, <2>4
<1>7. CASE set_log_handler
  <2>1. emInbox # <<>> /\ log_handler' = TRUE /\ logLinked' = DbAlive /\ replied' = TRUE
        /\ emInbox' = Tail(emInbox) \o LinkedExit("log-db", ~DbAlive)
        /\ UNCHANGED <<emState, registered, buffering, event_buffer, pending, handlers, adding,
                 ended, console, looking, events, late, dbInbox>>
    BY <1>7 DEF set_log_handler, EmTakes
  <2>2. Tail(emInbox) \in Seq(EmMsgs) /\ DbAlive \in BOOLEAN
    BY <1>0, <2>1, EmHead DEF DbAlive
  <2>3. LinkedExit("log-db", ~DbAlive) \in Seq(EmMsgs)
    BY <2>2, EmMessages DEF LinkedExit
  <2>4. emInbox' \in Seq(EmMsgs)
    BY <2>1, <2>2, <2>3, ConcatIndices
  <2> QED
    BY <1>0, <1>2, <2>1, <2>2, <2>4
<1>8. CASE unregister
  <2>1. Tail(emInbox) \in Seq(EmMsgs)
    BY <1>0, <1>8, EmHead DEF unregister, EmTakes
  <2> QED
    BY <1>0, <1>2, <1>8, <2>1 DEF unregister, EmTaken
<1>9. CASE owner_exit
  <2>1. Tail(emInbox) \in Seq(EmMsgs)
    BY <1>0, <1>9, EmHead DEF owner_exit, EmTakes
  <2> QED
    BY <1>0, <1>2, <1>9, <2>1 DEF owner_exit, EmTaken
<1>10. CASE em_terminate
  <2>1. ToSet(event_buffer) \subseteq Nat
    BY <1>0 DEF ToSet
  <2> QED
    BY <1>0, <1>2, <1>10, <2>1, EmptySeq DEF em_terminate
<1> QED
  BY <1>3, <1>4, <1>5, <1>6, <1>7, <1>8, <1>9, <1>10 DEF emProcess, emLoop

(* The database server tells the event manager of its end. *)
LEMMA LinkedType ==
  ASSUME EmTypeOK, Linked
  PROVE  emInbox' \in Seq(EmMsgs) /\ logLinked' \in BOOLEAN
<1>1. emInbox \in Seq(EmMsgs) /\ logLinked \in BOOLEAN /\ ExitOf("log-db") \in EmMsgs
  BY EmMessages DEF EmTypeOK
<1> QED
  BY <1>1 DEF Linked

(* The database server and its worker keep the types. *)
LEMMA BaseDb ==
  ASSUME Base, dbProcess \/ dbKilled \/ workerProcess
  PROVE  Base'
<1>0. EmTypeOK /\ DbTypeOK /\ WorkerInv
  BY DEF Base, TypeOK
<1>1. DbTypeOK' /\ WorkerInv'
  <2>1. dbLoop \/ (terminate \/ kill_server) \/ dbWork
    BY DEF dbProcess, dbKilled, workerProcess
  <2>2. CASE dbLoop
    BY <2>2, <1>0, DbTypeLoop, WorkerLoop
  <2>3. CASE terminate \/ kill_server
    BY <2>3, <1>0, DbTypeEnd, WorkerEnd
  <2>4. CASE dbWork
    BY <2>4, <1>0, DbTypeWork, WorkerWork
  <2> QED
    BY <2>1, <2>2, <2>3, <2>4
<1>2. EmTypeOK' /\ app' = app
  <2>1. CASE dbProcess \/ dbKilled
    <3>1. /\ Linked
          /\ UNCHANGED <<emState, registered, buffering, event_buffer, pending, log_handler,
                 handlers, adding, ended, replied, console, looking, events, late, app>>
      BY <2>1 DEF dbProcess, dbKilled
    <3>2. emInbox' \in Seq(EmMsgs) /\ logLinked' \in BOOLEAN
      BY <1>0, <3>1, LinkedType
    <3> QED
      BY <1>0, <3>1, <3>2 DEF EmTypeOK
  <2>2. CASE workerProcess
    BY <1>0, <2>2 DEF workerProcess, emVars, EmTypeOK
  <2> QED
    BY <2>1, <2>2
<1> QED
  BY <1>1, <1>2 DEF Base, TypeOK

(* Events are numbers. *)
LEMMA EventsAreNumbers ==
  /\ \A s \in Seq(DbMsgs) : Events(s) \subseteq Nat
  /\ \A s \in Seq(EmMsgs) : Events(s) \subseteq Nat
<1>1. \A m \in DbMsgs : IsEvent(m) => m.event \in Nat
  BY DEF DbMsgs, Entries, IsEvent
<1>2. \A m \in EmMsgs : IsEvent(m) => m.event \in Nat
  BY DEF EmMsgs, IsEvent
<1>3. ASSUME NEW s \in Seq(DbMsgs), NEW e \in Events(s) PROVE e \in Nat
  <2>1. PICK i \in DOMAIN s : IsEvent(s[i]) /\ s[i].event = e
    BY MemberOf
  <2> QED
    BY <1>1, <2>1
<1>4. ASSUME NEW s \in Seq(EmMsgs), NEW e \in Events(s) PROVE e \in Nat
  <2>1. PICK i \in DOMAIN s : IsEvent(s[i]) /\ s[i].event = e
    BY MemberOf
  <2> QED
    BY <1>2, <2>1
<1> QED
  BY <1>3, <1>4

(* A step that leaves the database server alone. *)
LEMMA DbSame ==
  ASSUME DbTypeOK, WorkerInv, UNCHANGED dbVars
  PROVE  DbTypeOK' /\ WorkerInv'
BY DEF dbVars, DbTypeOK, WorkerInv, Gone, OneDown, ClosedUnused, Downs

(* A request to the event manager. *)
LEMMA CallEmType ==
  ASSUME EmTypeOK, DbTypeOK, WorkerInv,
         NEW what \in {"set-log-handler", "flush-buffer", "unregister", "parent-EXIT"}, CallEm(what)
  PROVE  EmTypeOK' /\ DbTypeOK' /\ WorkerInv'
<1>1. UNCHANGED dbVars /\ emInbox' = Append(emInbox, Asks(what)) /\ replied' = FALSE
      /\ UNCHANGED <<emState, registered, buffering, event_buffer, pending, log_handler,
                 logLinked, handlers, adding, ended, console, looking, events, late>>
  BY DEF CallEm
<1>2. emInbox \in Seq(EmMsgs) /\ Asks(what) \in EmMsgs
  BY EmMessages DEF EmTypeOK
<1>3. emInbox' \in Seq(EmMsgs)
  BY <1>1, <1>2
<1> QED
  BY <1>1, <1>3, DbSame DEF EmTypeOK

(* The application asks the database server to end. *)
LEMMA StopType ==
  ASSUME DbTypeOK, WorkerInv, Send(<<ExitMsg>>),
         UNCHANGED <<dbState, dbQueue, dbWorker, commit_delay, log_timeout, txn, disk, answer, fault>>
  PROVE  DbTypeOK' /\ WorkerInv'
<1> DEFINE msgs == <<ExitMsg>>
<1>1. msgs \in Seq(DbMsgs) /\ \A i \in DOMAIN msgs : ~IsDown(msgs[i])
  BY DbMessages DEF ExitMsg, IsDown
<1>2. dbInbox' \in Seq(DbMsgs) /\ Downs' = Downs
  BY <1>1, SendFacts
<1> QED
  BY <1>2 DEF DbTypeOK, WorkerInv, Gone, OneDown, ClosedUnused

(* The application keeps the types. *)
LEMMA BaseApp ==
  ASSUME Base, appProcess \/ shutdown
  PROVE  Base'
<1>0. EmTypeOK /\ DbTypeOK /\ WorkerInv
  BY DEF Base, TypeOK
<1>1. SUFFICES EmTypeOK' /\ DbTypeOK' /\ WorkerInv' /\ app' \in
        {"start", "setup", "set-log-handler", "flush-buffer", "expire", "up", "stop", "sentry",
         "log-db", "event-mgr"}
  BY DEF Base, TypeOK
<1>2. UNCHANGED emVars => EmTypeOK'
  BY <1>0 DEF emVars, EmTypeOK
<1>3. CASE setup \/ expireCache
  <2>1. PICK c \in {"setup", "expire"} : transaction(c)
    BY <1>3 DEF setup, expireCache
  <2>2. c \in Clients
    BY LoggingAssumption
  <2>3. DbTypeOK' /\ WorkerInv'
    BY <1>0, <2>1, <2>2, CallFacts
  <2> QED
    BY <1>2, <1>3, <2>3 DEF setup, expireCache, App
<1>4. CASE UNCHANGED <<dbVars, emVars>>
  BY <1>0, <1>2, <1>4, DbSame DEF appProcess, shutdown, setup, setupFails, setLogHandler, flushBuffer,
     expireCache, up, stopSentry, stopLogDb, stopEventMgr, App
<1>5. CASE setLogHandler \/ flushBuffer \/ stopSentry \/ stopEventMgr
  <2>1. CASE Answered(FALSE)
    <3>1. EmTypeOK' /\ UNCHANGED dbVars
      BY <1>0, <2>1 DEF Answered, EmTypeOK
    <3> QED
      BY <1>0, <1>5, <3>1, DbSame DEF setLogHandler, flushBuffer, stopSentry, stopEventMgr, App
  <2>2. CASE ~Answered(FALSE)
    <3>1. PICK what \in {"set-log-handler", "flush-buffer", "unregister", "parent-EXIT"} : CallEm(what)
      BY <1>5, <2>2 DEF setLogHandler, flushBuffer, stopSentry, stopEventMgr
    <3>2. EmTypeOK' /\ DbTypeOK' /\ WorkerInv'
      BY <1>0, <3>1, CallEmType
    <3> QED
      BY <1>5, <3>2 DEF setLogHandler, flushBuffer, stopSentry, stopEventMgr, App
  <2> QED
    BY <2>1, <2>2
<1>6. CASE stopLogDb
  <2>1. DbTypeOK' /\ WorkerInv'
    BY <1>0, <1>6, StopType DEF stopLogDb
  <2>2. Events(emInbox) \subseteq Nat
    BY <1>0, EventsAreNumbers DEF EmTypeOK
  <2>3. late' \subseteq Nat
    BY <1>0, <1>6, <2>2 DEF stopLogDb, EmTypeOK
  <2>4. EmTypeOK'
    BY <1>0, <1>6, <2>3 DEF stopLogDb, EmTypeOK
  <2> QED
    BY <1>6, <2>1, <2>4 DEF stopLogDb, App
<1> QED
  BY <1>3, <1>4, <1>5, <1>6 DEF appProcess, shutdown, setupFails, up

(* The supervisor kills the event manager. *)
LEMMA BaseKilled ==
  ASSUME Base, emKilled
  PROVE  Base'
<1>0. EmTypeOK /\ DbTypeOK /\ WorkerInv /\ UNCHANGED dbVars /\ app' = app
  BY DEF Base, TypeOK, emKilled
<1>1. SUFFICES EmTypeOK'
  BY <1>0, DbSame DEF Base, TypeOK
<1>2. Events(emInbox) \subseteq Nat
  BY <1>0, EventsAreNumbers DEF EmTypeOK
<1>3. ToSet(event_buffer) \subseteq Nat /\ ToSet(pending) \subseteq Nat
  BY <1>0 DEF EmTypeOK, ToSet
<1>4. late' \subseteq Nat
  BY <1>0, <1>2, <1>3 DEF emKilled, EmTypeOK
<1>5. <<>> \in Seq(EmMsgs) /\ <<>> \in Seq(Nat)
  BY EmptySeq
<1> QED
  BY <1>0, <1>4, <1>5 DEF emKilled, EmTypeOK

(* Senders of events and owners of handlers keep the types. *)
LEMMA BaseOthers ==
  ASSUME Base, others \/ sender
  PROVE  Base'
<1>0. EmTypeOK /\ DbTypeOK /\ WorkerInv /\ UNCHANGED dbVars /\ app' = app
  BY DEF Base, TypeOK, others, sender
<1>1. SUFFICES EmTypeOK'
  BY <1>0, DbSame DEF Base, TypeOK
<1>a. events \in Nat /\ MaxEvents \in Nat
  BY <1>0, EmAssumption DEF EmTypeOK
<1>2. CASE notify
  <2>1. UNCHANGED <<emState, registered, emInbox, buffering, event_buffer, pending, log_handler,
                    logLinked, handlers, adding, ended, replied, late>>
    BY <1>2 DEF notify
  <2>2. CASE looking' = TRUE /\ UNCHANGED <<console, events>> /\ events < MaxEvents
    BY <1>0, <1>a, <2>1, <2>2 DEF EmTypeOK
  <2>3. CASE events' = events + 1 /\ console' = console \cup {events'} /\ looking' = looking
             /\ events < MaxEvents /\ ~looking
    <3>1. events' \in 0..MaxEvents /\ console' \subseteq Nat
      BY <1>0, <1>a, <2>3 DEF EmTypeOK
    <3> QED
      BY <1>0, <2>1, <2>3, <3>1 DEF EmTypeOK
  <2> QED
    BY <1>2, <2>2, <2>3 DEF notify
<1>3. CASE sender
  <2>0. notifySend
    BY <1>3 DEF sender
  <2>1. emInbox \in Seq(EmMsgs) /\ Notify(events') \in EmMsgs /\ events' \in 0..MaxEvents
        /\ events' \in Nat /\ looking' = FALSE
    BY <1>0, <2>0, <1>a, EmMessages DEF notifySend, EmTypeOK
  <2>2. emInbox' \in Seq(EmMsgs)
    BY <2>0, <2>1 DEF notifySend
  <2>3. late' \subseteq Nat
    BY <1>0, <1>3, <2>1 DEF sender, EmTypeOK
  <2> QED
    BY <1>0, <2>0, <2>1, <2>2, <2>3 DEF notifySend, EmTypeOK
<1>4. CASE \E o \in Owners : addHandler(o) \/ ownerEnds(o)
  <2>1. PICK o \in Owners : addHandler(o) \/ ownerEnds(o)
    BY <1>4
  <2>2. emInbox \in Seq(EmMsgs) /\ ExitOf(o) \in EmMsgs /\ AddHandler(o) \in EmMsgs
    BY <1>0, EmMessages DEF EmTypeOK
  <2>3. emInbox' \in Seq(EmMsgs)
    BY <2>1, <2>2 DEF addHandler, ownerEnds
  <2>4. adding' \subseteq Owners /\ ended' \subseteq Owners
    BY <1>0, <2>1 DEF addHandler, ownerEnds, EmTypeOK
  <2>5. UNCHANGED <<emState, registered, buffering, event_buffer, pending, log_handler,
                    logLinked, handlers, replied, console, looking, events, late>>
    BY <2>1 DEF addHandler, ownerEnds
  <2> QED
    BY <1>0, <2>3, <2>4, <2>5 DEF EmTypeOK
<1> QED
  BY <1>2, <1>3, <1>4 DEF others

(* Types, and what a worker is about, are kept by every step. *)
LEMMA BaseStep ==
  ASSUME Base, [Next]_vars
  PROVE  Base'
<1>1. CASE UNCHANGED vars
  <2>1. UNCHANGED dbVars /\ UNCHANGED emVars /\ app' = app
    BY <1>1 DEF vars
  <2>2. EmTypeOK'
    BY <2>1 DEF Base, TypeOK, emVars, EmTypeOK
  <2> QED
    BY <2>1, <2>2, DbSame DEF Base, TypeOK
<1> QED
  BY <1>1, BaseDb, BaseEm, BaseKilled, BaseApp, BaseOthers DEF Next

(* Types, and what a worker is about, hold at first. *)
LEMMA BaseInit ==
  ASSUME Init
  PROVE  Base
<1>1. DbTypeOK
  BY EmptySeq DEF Init, DbInit, DbTypeOK
<1>2. WorkerInv
  BY DEF Init, DbInit, WorkerInv, OneDown, ClosedUnused, Downs
<1>3. EmTypeOK
  <2>1. MaxEvents \in Nat /\ <<>> \in Seq(EmMsgs) /\ <<>> \in Seq(Nat)
    BY EmptySeq, EmAssumption
  <2>2. events = 0 /\ looking = FALSE /\ events \in 0..MaxEvents
    BY <2>1 DEF Init, EmInit
  <2> QED
    BY <2>1, <2>2 DEF Init, EmInit, EmTypeOK
<1> QED
  BY <1>1, <1>2, <1>3 DEF Init, Base, TypeOK

-----------------------------------------------------------------------------
(* Handlers and their owners *)

(* The elements of two sequences, one behind the other. *)
LEMMA SetConcat ==
  ASSUME NEW M, NEW s \in Seq(M), NEW t \in Seq(M)
  PROVE  ToSet(s \o t) = ToSet(s) \cup ToSet(t)
<1> DEFINE r == s \o t
<1>1. /\ DOMAIN r = 1..(Len(s) + Len(t)) /\ Len(s) \in Nat /\ Len(t) \in Nat
      /\ DOMAIN s = 1..Len(s) /\ DOMAIN t = 1..Len(t)
      /\ \A i \in 1..Len(s) : r[i] = s[i]
      /\ \A i \in 1..Len(t) : r[i + Len(s)] = t[i]
      /\ \A i \in 1..(Len(s) + Len(t)) : i > Len(s) => i - Len(s) \in 1..Len(t)
                                           /\ r[i] = t[i - Len(s)]
  BY ConcatIndices
<1> HIDE DEF r
<1>2. \A i \in DOMAIN r : (i \in DOMAIN s /\ r[i] = s[i])
                       \/ (i - Len(s) \in DOMAIN t /\ r[i] = t[i - Len(s)])
  BY <1>1
<1>3. \A i \in DOMAIN t : i + Len(s) \in DOMAIN r /\ r[i + Len(s)] = t[i]
  BY <1>1
<1>4. \A i \in DOMAIN s : i \in DOMAIN r /\ r[i] = s[i]
  BY <1>1
<1>5. ToSet(r) = ToSet(s) \cup ToSet(t)
  BY <1>2, <1>3, <1>4 DEF ToSet
<1> QED
  BY <1>5 DEF r

(* The elements of a sequence with one more at its end. *)
LEMMA SetAppend ==
  ASSUME NEW M, NEW s \in Seq(M), NEW x \in M
  PROVE  ToSet(Append(s, x)) = ToSet(s) \cup {x}
<1> DEFINE t == <<x>>
<1>1. t \in Seq(M) /\ Append(s, x) = s \o t /\ DOMAIN t = {1} /\ t[1] = x
  OBVIOUS
<1>2. ToSet(t) = {x}
  BY <1>1 DEF ToSet
<1> HIDE DEF t
<1> QED
  BY <1>1, <1>2, SetConcat

(* The first element of a sequence and the others. *)
LEMMA SetTail ==
  ASSUME NEW M, NEW s \in Seq(M), s # <<>>
  PROVE  ToSet(s) = ToSet(Tail(s)) \cup {Head(s)}
<1> DEFINE t == Tail(s)
<1>1. /\ Head(s) = s[1] /\ 1 \in DOMAIN s
      /\ \A i \in DOMAIN t : i + 1 \in DOMAIN s /\ t[i] = s[i + 1]
      /\ \A i \in DOMAIN s : i = 1 \/ (i - 1 \in DOMAIN t /\ s[i] = t[i - 1])
  BY TailFacts
<1> HIDE DEF t
<1>2. ASSUME NEW x \in ToSet(s) PROVE x \in ToSet(t) \cup {Head(s)}
  BY <1>1 DEF ToSet
<1>3. ASSUME NEW x \in ToSet(t) PROVE x \in ToSet(s)
  BY <1>1 DEF ToSet
<1>4. Head(s) \in ToSet(s)
  BY <1>1 DEF ToSet
<1> QED
  BY <1>2, <1>3, <1>4 DEF t

(* An EXIT message is told from the others by its type. *)
LEMMA ExitTypes ==
  \A o : ExitOf(o).type = "EXIT" /\ ExitOf(o).owner = o
BY DEF ExitOf

(* A step of the event manager leaves no handler without its owner. *)
LEMMA OwnersEm ==
  ASSUME Base, HandlersHaveOwners, emProcess
  PROVE  HandlersHaveOwners'
<1>0. EmTypeOK /\ DbTypeOK /\ emInbox \in Seq(EmMsgs) /\ handlers \subseteq Owners
  BY DEF Base, TypeOK, EmTypeOK
<1>1. emLoop
  BY DEF emProcess
<1>2. SUFFICES ASSUME emState' = "up", NEW o \in handlers', o \in ended'
               PROVE  ExitOf(o) \in ToSet(emInbox')
  BY DEF HandlersHaveOwners
<1>3. emState = "up"
  BY <1>1, <1>2 DEF emLoop, handle_notify, flush_buffer, do_flush_buffer, add_handler, set_log_handler,
     unregister, owner_exit, em_terminate, EmTakes
<1>4. o \in handlers /\ o \in ended => ExitOf(o) \in ToSet(emInbox)
  BY <1>3 DEF HandlersHaveOwners
<1>5. emInbox # <<>> => ToSet(emInbox) = ToSet(Tail(emInbox)) \cup {Head(emInbox)}
                        /\ Tail(emInbox) \in Seq(EmMsgs) /\ Head(emInbox) \in EmMsgs
  BY <1>0, SetTail, TailFacts
<1>6. ASSUME emInbox # <<>>, Head(emInbox).type # "EXIT", ExitOf(o) \in ToSet(emInbox)
      PROVE  ExitOf(o) \in ToSet(Tail(emInbox))
  BY <1>5, <1>6, ExitTypes
<1>7. ASSUME NEW e \in Nat, NEW inbox \in Seq(EmMsgs), DoNotify(e, inbox), handlers' = handlers,
             o \in ended => ExitOf(o) \in ToSet(inbox)
      PROVE  ExitOf(o) \in ToSet(emInbox')
  <2>1. PICK x \in Seq(ExitMsgs) :
              /\ emInbox' = inbox \o x /\ emInbox' \in Seq(EmMsgs)
              /\ \A p \in ended' \ ended : ExitOf(p) \in ToSet(x)
    BY <1>0, <1>7, NotifyFacts
  <2>2. x \in Seq(EmMsgs)
    BY EmMessages, SeqMonotonic
  <2>3. ToSet(emInbox') = ToSet(inbox) \cup ToSet(x)
    BY <2>1, <2>2, SetConcat
  <2> QED
    BY <1>2, <1>7, <2>1, <2>3
<1>8. CASE handle_notify
  <2>1. emInbox # <<>> /\ Head(emInbox).type = "notify" /\ handlers' = handlers
    BY <1>8 DEF handle_notify, EmTakes
  <2>2. CASE EmTaken /\ ended' = ended
    BY <1>2, <1>4, <1>6, <2>1, <2>2 DEF EmTaken
  <2>3. CASE DoNotify(Head(emInbox).event, Tail(emInbox))
    <3>1. Head(emInbox).event \in Nat /\ Tail(emInbox) \in Seq(EmMsgs)
      BY <1>0, <2>1, EmHead
    <3>2. o \in ended => ExitOf(o) \in ToSet(Tail(emInbox))
      BY <1>2, <1>4, <1>6, <2>1
    <3> QED
      BY <1>7, <2>1, <2>3, <3>1, <3>2
  <2> QED
    BY <1>8, <2>2, <2>3 DEF handle_notify
<1>9. CASE do_flush_buffer
  <2>1. /\ pending # <<>> /\ DoNotify(Last(pending), emInbox) /\ handlers' = handlers
    BY <1>9 DEF do_flush_buffer
  <2>2. Last(pending) \in Nat
    BY <1>0, <2>1 DEF Last, EmTypeOK
  <2> QED
    BY <1>0, <1>2, <1>4, <1>7, <2>1, <2>2
<1>10. CASE flush_buffer \/ unregister
  <2>1. emInbox # <<>> /\ Head(emInbox).type # "EXIT" /\ emInbox' = Tail(emInbox)
        /\ handlers' = handlers /\ ended' = ended
    BY <1>10 DEF flush_buffer, unregister, EmTakes, EmTaken
  <2> QED
    BY <1>2, <1>4, <1>6, <2>1
<1>11. CASE add_handler
  <2> DEFINE p == Head(emInbox).owner
             gone == p \in ended
             x == LinkedExit(p, gone)
  <2>1. emInbox # <<>> /\ Head(emInbox).type = "add-handler" /\ handlers' = handlers \cup {p}
        /\ emInbox' = Tail(emInbox) \o x /\ ended' = ended
    BY <1>11 DEF add_handler, EmTakes
  <2>2. p \in Owners
    BY <1>0, <2>1, EmHead
  <2> HIDE DEF p
  <2>3. x \in Seq(EmMsgs) /\ (p \in ended => ExitOf(p) \in ToSet(x))
    <3>1. gone \in BOOLEAN /\ (gone <=> p \in ended)
      OBVIOUS
    <3> HIDE DEF gone
    <3>2. x \in Seq(EmMsgs)
      BY <2>2, <3>1, LinkedExits
    <3>3. ASSUME gone PROVE ExitOf(p) \in ToSet(x)
      <4>1. x = <<ExitOf(p)>>
        BY <3>3 DEF LinkedExit
      <4> HIDE DEF x
      <4> QED
        BY <4>1 DEF ToSet
    <3> QED
      BY <3>1, <3>2, <3>3
  <2> HIDE DEF x
  <2>4. Tail(emInbox) \in Seq(EmMsgs) /\ x \in Seq(EmMsgs)
    BY <1>5, <2>1, <2>3
  <2>5. ToSet(Tail(emInbox) \o x) = ToSet(Tail(emInbox)) \cup ToSet(x)
    BY <2>4, SetConcat
  <2> QED
    BY <1>2, <1>4, <1>6, <2>1, <2>3, <2>5
<1>12. CASE set_log_handler
  <2> DEFINE gone == ~DbAlive
             x == LinkedExit("log-db", gone)
  <2>1. emInbox # <<>> /\ Head(emInbox).type # "EXIT" /\ handlers' = handlers /\ ended' = ended
        /\ emInbox' = Tail(emInbox) \o x /\ gone \in BOOLEAN
    BY <1>12 DEF set_log_handler, EmTakes
  <2> HIDE DEF gone
  <2>2. x \in Seq(EmMsgs)
    BY <2>1, LinkedExits
  <2> HIDE DEF x
  <2>3. Tail(emInbox) \in Seq(EmMsgs) /\ x \in Seq(EmMsgs)
    BY <1>5, <2>1, <2>2
  <2>4. ToSet(Tail(emInbox) \o x) = ToSet(Tail(emInbox)) \cup ToSet(x)
    BY <2>3, SetConcat
  <2> QED
    BY <1>2, <1>4, <1>6, <2>1, <2>4
<1>13. CASE owner_exit
  <2> DEFINE p == Head(emInbox).owner
  <2>1. emInbox # <<>> /\ emInbox' = Tail(emInbox) /\ ended' = ended
        /\ \/ p = "log-db" /\ handlers' = handlers
           \/ handlers' = handlers \ {p}
    BY <1>13 DEF owner_exit, EmTakes, EmTaken
  <2>2. o # p /\ o \in handlers
    BY <1>0, <1>2, <2>1, EmAssumption
  <2>3. ExitOf(o) # Head(emInbox)
    BY <2>2, ExitTypes
  <2> QED
    BY <1>2, <1>4, <1>5, <2>1, <2>2, <2>3
<1>14. CASE em_terminate
  BY <1>14, <1>2 DEF em_terminate
<1> QED
  BY <1>1, <1>8, <1>9, <1>10, <1>11, <1>12, <1>13, <1>14 DEF emLoop

(* A step of the others only adds messages. *)
LEMMA OwnersStep ==
  ASSUME Base, HandlersHaveOwners, [Next]_vars
  PROVE  HandlersHaveOwners'
<1>0. emInbox \in Seq(EmMsgs) /\ EmTypeOK
  BY DEF Base, TypeOK, EmTypeOK
<1>1. ASSUME NEW x \in EmMsgs, emInbox' \in {emInbox, Append(emInbox, x)},
             emState' = emState, handlers' = handlers, ended' = ended
      PROVE  HandlersHaveOwners'
  <2>1. ToSet(Append(emInbox, x)) = ToSet(emInbox) \cup {x}
    BY <1>0, SetAppend
  <2> QED
    BY <1>1, <2>1 DEF HandlersHaveOwners
<1>2. CASE dbProcess \/ dbKilled
  <2>1. ExitOf("log-db") \in EmMsgs
    BY EmMessages
  <2> QED
    BY <1>1, <1>2, <2>1 DEF dbProcess, dbKilled, Linked
<1>3. CASE UNCHANGED <<emState, emInbox, handlers, ended>>
  BY <1>3 DEF HandlersHaveOwners
<1>4. CASE workerProcess
  BY <1>3, <1>4 DEF workerProcess, emVars
<1>5. CASE appProcess \/ shutdown
  <2>1. \A what \in {"set-log-handler", "flush-buffer", "unregister", "parent-EXIT"} :
          Asks(what) \in EmMsgs
    BY EmMessages
  <2>2. CASE UNCHANGED emVars \/ Answered(FALSE) \/ stopLogDb
    BY <1>3, <2>2 DEF emVars, Answered, stopLogDb
  <2>3. ASSUME NEW what \in {"set-log-handler", "flush-buffer", "unregister", "parent-EXIT"},
               CallEm(what)
        PROVE  HandlersHaveOwners'
    BY <1>1, <2>1, <2>3 DEF CallEm
  <2> QED
    BY <1>5, <2>2, <2>3 DEF appProcess, shutdown, setup, setupFails, setLogHandler, flushBuffer,
       expireCache, up, stopSentry, stopEventMgr
<1>6. CASE others
  <2>1. CASE notify
    BY <1>3, <2>1 DEF notify
  <2>2. CASE \E o \in Owners : addHandler(o) \/ ownerEnds(o)
    <3>1. PICK o \in Owners : addHandler(o) \/ ownerEnds(o)
      BY <2>2
    <3>2. AddHandler(o) \in EmMsgs /\ ExitOf(o) \in EmMsgs
      BY EmMessages
    <3>3. CASE addHandler(o)
      BY <1>1, <3>2, <3>3 DEF addHandler
    <3>4. CASE ownerEnds(o)
      <4>1. o \in handlers => ToSet(emInbox') = ToSet(emInbox) \cup {ExitOf(o)}
        BY <1>0, <3>2, <3>4, SetAppend DEF ownerEnds
      <4>2. o \notin handlers => emInbox' = emInbox
        BY <3>4 DEF ownerEnds
      <4> QED
        BY <3>4, <4>1, <4>2 DEF ownerEnds, HandlersHaveOwners
    <3> QED
      BY <3>1, <3>3, <3>4
  <2> QED
    BY <1>6, <2>1, <2>2 DEF others
<1>7. CASE sender
  <2>1. events' \in Nat
    BY <1>0, <1>7 DEF sender, notifySend, EmTypeOK
  <2>2. Notify(events') \in EmMsgs
    BY <2>1, EmMessages
  <2> QED
    BY <1>1, <1>7, <2>2 DEF sender, notifySend
<1>8. CASE UNCHANGED vars
  BY <1>3, <1>8 DEF vars, emVars
<1>9. CASE emKilled
  BY <1>9 DEF emKilled, HandlersHaveOwners
<1> QED
  BY <1>2, <1>4, <1>5, <1>6, <1>7, <1>8, <1>9, OwnersEm DEF Next

(* A handler whose owner has ended goes, with any number of owners: the      *)
(* manager has the EXIT of the owner in its inbox, whether the owner ended   *)
(* before the manager linked to it, later, or because its handler failed.    *)
THEOREM OwnersOutliveHandlers == Spec => []HandlersHaveOwners
<1>1. Init => Base /\ HandlersHaveOwners
  BY BaseInit DEF Init, EmInit, HandlersHaveOwners
<1>2. Base /\ HandlersHaveOwners /\ [Next]_vars => (Base /\ HandlersHaveOwners)'
  BY BaseStep, OwnersStep
<1> QED
  BY <1>1, <1>2, PTL DEF Spec

-----------------------------------------------------------------------------
(* What the steps of the server do to the queue and the worker: whatever is  *)
(* not yet done stays in one of the two, in the same order.                  *)

Given(q, w) ==
  \/ dbQueue' = q /\ dbWorker' = w
  \/ w = None /\ \E n \in 1..Len(q) : /\ dbWorker' = [work |-> SubSeq(q, 1, n), at |-> "begin"]
                                      /\ dbQueue' = SubSeq(q, n + 1, Len(q))
                                      /\ ~IsLog(q[1]) => n = 1
WorkedOf(w) == IF w = None \/ w.at = "gone" THEN <<>> ELSE w.work
UndoneOf(w) == IF w # None /\ w.at \in {"begin", "work", "commit"} THEN w.work ELSE <<>>

(* A worker gets the front of the queue, or goes on with what it has. *)
LEMMA GivenFacts ==
  ASSUME NEW q \in Seq(Entries), NEW w \in {None} \cup Workers, Given(q, w)
  PROVE  /\ \/ dbWorker' = w /\ dbQueue' = q
            \/ w = None /\ dbWorker' # None /\ dbWorker'.at = "begin"
         /\ Events(Worked') \cup Events(dbQueue') = Events(WorkedOf(w)) \cup Events(q)
         /\ Calls(Worked') \cup Calls(dbQueue') = Calls(WorkedOf(w)) \cup Calls(q)
         /\ Once(q) => Once(dbQueue')
         /\ Once(q) /\ Calls(WorkedOf(w)) \cap Calls(q) = {} => Calls(Worked') \cap Calls(dbQueue') = {}
         /\ Events(Undone') \cup Events(dbQueue') = Events(UndoneOf(w)) \cup Events(q)
         /\ InOrder(q) /\ InOrder(UndoneOf(w)) /\ Ahead(Events(UndoneOf(w)), Events(q)) =>
              InOrder(dbQueue') /\ InOrder(Undone') /\ Ahead(Events(Undone'), Events(dbQueue'))
<1>0. Worked' = WorkedOf(dbWorker') /\ Undone' = UndoneOf(dbWorker')
  BY DEF Worked, WorkedOf, Undone, UndoneOf
<1>1. CASE dbQueue' = q /\ dbWorker' = w
  <2>1. Worked' = WorkedOf(w) /\ Undone' = UndoneOf(w)
    BY <1>0, <1>1
  <2> QED
    BY <1>1, <2>1
<1>2. CASE w = None /\ \E n \in 1..Len(q) :
             /\ dbWorker' = [work |-> SubSeq(q, 1, n), at |-> "begin"]
             /\ dbQueue' = SubSeq(q, n + 1, Len(q))
             /\ ~IsLog(q[1]) => n = 1
  <2>1. PICK n \in 1..Len(q) :
             /\ dbWorker' = [work |-> SubSeq(q, 1, n), at |-> "begin"]
             /\ dbQueue' = SubSeq(q, n + 1, Len(q))
             /\ ~IsLog(q[1]) => n = 1
    BY <1>2
  <2>2. /\ dbWorker' # None /\ dbWorker'.at = "begin"
        /\ Events(q) = Events(dbWorker'.work) \cup Events(dbQueue')
        /\ Calls(q) = Calls(dbWorker'.work) \cup Calls(dbQueue')
        /\ InOrder(q) => InOrder(dbWorker'.work) /\ InOrder(dbQueue')
                         /\ Ahead(Events(dbWorker'.work), Events(dbQueue'))
        /\ Once(q) => Once(dbQueue') /\ Calls(dbWorker'.work) \cap Calls(dbQueue') = {}
    BY <2>1, BatchSplit
  <2>3. Worked' = dbWorker'.work /\ Undone' = dbWorker'.work /\ WorkedOf(w) = <<>> /\ UndoneOf(w) = <<>>
    BY <1>0, <1>2, <2>2 DEF WorkedOf, UndoneOf
  <2> QED
    BY <1>2, <2>2, <2>3, EmptyFacts
<1> QED
  BY <1>1, <1>2 DEF Given

(* update is one such step, and leaves the worker idle only without work. *)
LEMMA UpdateGiven ==
  ASSUME NEW q \in Seq(Entries), NEW w \in {None} \cup Workers, NEW t \in BOOLEAN, Update(q, w, t)
  PROVE  Given(q, w) /\ (dbWorker' = None => dbQueue' = <<>>)
<1>0. \/ (w # None \/ q = <<>>) /\ dbQueue' = q /\ dbWorker' = w
      \/ /\ w = None
         /\ \E n \in 1..Len(q) :
              /\ dbWorker' = [work |-> SubSeq(q, 1, n), at |-> "begin"]
              /\ dbQueue' = SubSeq(q, n + 1, Len(q))
              /\ ~IsLog(q[1]) => n = 1
  BY UpdateFacts
<1>1. Given(q, w)
  BY <1>0 DEF Given
<1>2. CASE (w # None \/ q = <<>>) /\ dbQueue' = q /\ dbWorker' = w
  BY <1>1, <1>2
<1>3. CASE \E n \in 1..Len(q) :
                    /\ dbWorker' = [work |-> SubSeq(q, 1, n), at |-> "begin"]
                    /\ dbQueue' = SubSeq(q, n + 1, Len(q))
                    /\ ~IsLog(q[1]) => n = 1
  <2>1. PICK n \in 1..Len(q) : /\ dbWorker' = [work |-> SubSeq(q, 1, n), at |-> "begin"]
                               /\ ~IsLog(q[1]) => n = 1
    BY <1>3
  <2>2. [work |-> SubSeq(q, 1, n), at |-> "begin"] # None
    BY <2>1, BatchSplit
  <2> QED
    BY <1>1, <2>1, <2>2
<1> QED
  BY <1>0, <1>2, <1>3

(* A step of the loop takes an entry, a DOWN, an EXIT, or sees the time up. *)
LEMMA LoopFacts ==
  ASSUME DbTypeOK, dbLoop
  PROVE  /\ dbState = "loop" /\ UNCHANGED <<txn, disk, answer, fault>>
         /\ \/ /\ dbInbox # <<>> /\ Head(dbInbox).type \in {"log", "transaction"}
               /\ dbInbox' = Tail(dbInbox) /\ dbState' = "loop"
               /\ Append(dbQueue, Head(dbInbox)) \in Seq(Entries)
               /\ Given(Append(dbQueue, Head(dbInbox)), dbWorker)
            \/ /\ dbInbox' = dbInbox /\ dbState' = "loop" /\ Given(dbQueue, dbWorker)
            \/ /\ dbInbox # <<>> /\ Head(dbInbox).type = "DOWN" /\ dbInbox' = Tail(dbInbox)
               /\ Given(dbQueue, None)
               /\ \/ dbState' = "loop"
                  \/ dbState' = "flush" /\ Head(dbInbox).reason # "normal"
               /\ dbWorker' = None => dbQueue' = <<>>
            \/ /\ dbInbox # <<>> /\ Head(dbInbox).type = "EXIT" /\ dbInbox' = Tail(dbInbox)
               /\ dbState' = "flush" /\ Given(dbQueue, dbWorker)
               /\ dbWorker' = None => dbQueue' = <<>>
<1>0. /\ dbQueue \in Seq(Entries) /\ dbWorker \in {None} \cup Workers /\ log_timeout \in BOOLEAN
      /\ TRUE \in BOOLEAN /\ None \in {None} \cup Workers
  BY DEF DbTypeOK
<1>1. CASE handle_transaction
  <2>1. dbInbox # <<>> /\ Head(dbInbox).type = "transaction" /\ dbInbox' = Tail(dbInbox)
        /\ Update(Append(dbQueue, Head(dbInbox)), dbWorker, log_timeout) /\ dbState = "loop"
        /\ UNCHANGED <<dbState, txn, disk, answer, fault>>
    BY <1>1 DEF handle_transaction, Takes, Taken
  <2>2. Append(dbQueue, Head(dbInbox)) \in Seq(Entries)
    BY <2>1, DbHead
  <2>3. Given(Append(dbQueue, Head(dbInbox)), dbWorker)
    BY <1>0, <2>1, <2>2, UpdateGiven
  <2> QED
    BY <2>1, <2>2, <2>3
<1>2. CASE handle_log
  <2>1. dbInbox # <<>> /\ Head(dbInbox).type = "log" /\ dbInbox' = Tail(dbInbox)
        /\ UNCHANGED <<dbState, txn, disk, answer, fault>> /\ dbState = "loop"
    BY <1>2 DEF handle_log, Takes, Taken
  <2>2. Append(dbQueue, Head(dbInbox)) \in Seq(Entries)
    BY <2>1, DbHead
  <2>3. Given(Append(dbQueue, Head(dbInbox)), dbWorker)
    <3>1. CASE commit_delay
      BY <1>2, <3>1 DEF handle_log, Given
    <3>2. CASE ~commit_delay
      <4>1. Update(Append(dbQueue, Head(dbInbox)), dbWorker, TRUE)
        BY <1>2, <3>2 DEF handle_log
      <4> QED
        BY <1>0, <2>2, <4>1, UpdateGiven
    <3> QED
      BY <3>1, <3>2
  <2> QED
    BY <2>1, <2>2, <2>3
<1>3. CASE handle_timeout
  <2>1. Given(dbQueue, dbWorker)
    BY <1>0, <1>3, UpdateGiven DEF handle_timeout
  <2> QED
    BY <1>3, <2>1 DEF handle_timeout
<1>4. CASE handle_down
  <2>1. dbInbox # <<>> /\ dbInbox' = Tail(dbInbox) /\ Update(dbQueue, None, log_timeout)
        /\ dbState' = (IF Head(dbInbox).reason = "normal" THEN "loop" ELSE "flush")
        /\ UNCHANGED <<txn, disk, answer, fault>> /\ dbState = "loop" /\ Head(dbInbox).type = "DOWN"
    BY <1>4 DEF handle_down, Takes, Taken, WorkerDown
  <2>2. Given(dbQueue, None) /\ (dbWorker' = None => dbQueue' = <<>>)
    BY <1>0, <2>1, UpdateGiven
  <2> QED
    BY <2>1, <2>2
<1>5. CASE handle_exit
  <2>1. dbInbox # <<>> /\ dbInbox' = Tail(dbInbox) /\ Update(dbQueue, dbWorker, log_timeout)
        /\ dbState' = "flush" /\ UNCHANGED <<txn, disk, answer, fault>> /\ dbState = "loop"
        /\ Head(dbInbox).type = "EXIT"
    BY <1>5 DEF handle_exit, Takes, Taken
  <2>2. Given(dbQueue, dbWorker) /\ (dbWorker' = None => dbQueue' = <<>>)
    BY <1>0, <2>1, UpdateGiven
  <2> QED
    BY <2>1, <2>2
<1> QED
  BY <1>1, <1>2, <1>3, <1>4, <1>5 DEF dbLoop

(* A step of terminate, or the death of the server. *)
LEMMA EndFacts ==
  ASSUME DbTypeOK, WorkerInv, terminate \/ kill_server
  PROVE  \/ /\ dbState' \in {"closed", "killed"} /\ dbInbox' = <<>> /\ disk' = disk
            /\ dbQueue' = dbQueue /\ dbWorker' = dbWorker
            /\ answer' = [c \in Clients |-> IF answer[c] = "calls" THEN "DOWN" ELSE answer[c]]
            /\ \/ fault' = TRUE
               \/ fault' = fault /\ dbState = "flush" /\ dbWorker = None
               \/ fault' = fault /\ Downs # {} /\ dbState \in {"stop-worker", "shutdown", "kill"}
               \/ fault' = fault /\ \E i \in Downs : dbInbox[i].reason # "normal"
         \/ /\ dbState = "flush" /\ dbState' = "flush" /\ UNCHANGED <<txn, disk, answer, fault>>
            /\ \E i \in Downs : dbInbox' = RemoveAt(dbInbox, i)
            /\ Given(dbQueue, None) /\ (dbWorker' = None => dbQueue' = <<>>)
         \/ /\ dbWorker # None /\ Downs = {} /\ fault' = TRUE /\ UNCHANGED <<dbQueue, answer>>
            /\ dbState' \in {"stop-worker", "shutdown", "kill"}
            /\ \/ UNCHANGED <<dbWorker, dbInbox, txn, disk>>
               \/ /\ dbWorker' = [dbWorker EXCEPT !.at = "gone"]
                  /\ dbInbox' = Append(dbInbox, DownMsg("killed"))
                  /\ \/ disk' = disk
                     \/ dbWorker.at = "commit" /\ disk' = disk \o dbWorker.work
<1>1. CASE flush_done
  BY <1>1 DEF flush_done, Close
<1>2. CASE worker_down
  BY <1>2 DEF worker_down, Close
<1>3. CASE flush_next
  <2>1. dbQueue \in Seq(Entries) /\ None \in {None} \cup Workers /\ log_timeout \in BOOLEAN
    BY DEF DbTypeOK
  <2>2. Given(dbQueue, None) /\ (dbWorker' = None => dbQueue' = <<>>)
    BY <1>3, <2>1, UpdateGiven DEF flush_next
  <2> QED
    BY <1>3, <2>2 DEF flush_next
<1>4. CASE stop_worker
  BY <1>4, StopFacts
<1>5. CASE kill_server
  BY <1>5 DEF kill_server
<1> QED
  BY <1>1, <1>2, <1>3, <1>4, <1>5 DEF terminate

-----------------------------------------------------------------------------
(* What clients are told of their transactions *)

(* Calls are those of clients. *)
LEMMA CallersAreClients ==
  ASSUME NEW s \in Seq(DbMsgs)
  PROVE  Calls(s) \subseteq Clients
<1>1. \A m \in DbMsgs : m.type = "transaction" => m.client \in Clients
  BY DEF DbMsgs, Entries
<1>2. \A i \in DOMAIN s : s[i] \in DbMsgs
  OBVIOUS
<1> QED
  BY <1>1, <1>2, MemberOf

(* Entries are messages. *)
LEMMA EntriesAreMessages ==
  Seq(Entries) \subseteq Seq(DbMsgs)
<1>1. Entries \subseteq DbMsgs
  BY DEF DbMsgs
<1> QED
  BY <1>1, SeqMonotonic

(* The parts of TxnInv, of the calls in the inbox, in the queue, with the    *)
(* worker and on the disk.                                                   *)
CallsOK(I, Q, W, D, ok, ans) ==
  /\ I \cap Q = {} /\ W \cap (I \cup Q) = {}
  /\ \A c \in I \cup Q \cup W : ans[c] \in {"calls", "DOWN"}
  /\ (I \cup Q) \cap D = {}
  /\ IF ok THEN W \subseteq D ELSE W \cap D = {}
  /\ \A c \in Clients : /\ ans[c] = "none" => c \notin D
                        /\ ans[c] = "ok" => c \in D
                        /\ ans[c] = "error" => c \notin D
Replying(w) == w # None /\ w.at = "reply-ok"

(* TxnInv says that of where the calls are. *)
LEMMA TxnParts ==
  /\ TxnInv <=> /\ Once(dbInbox) /\ Once(dbQueue)
                /\ CallsOK(Calls(dbInbox), Calls(dbQueue), Calls(Worked), Calls(disk),
                           Replying(dbWorker), answer)
  /\ TxnInv' <=> /\ Once(dbInbox') /\ Once(dbQueue')
                 /\ CallsOK(Calls(dbInbox'), Calls(dbQueue'), Calls(Worked'), Calls(disk'),
                            Replying(dbWorker'), answer')
BY DEF TxnInv, Asking, AnswerIsTrue, CallsOK, Replying

(* A queue is given to a worker. *)
LEMMA TxnGiven ==
  ASSUME NEW q \in Seq(Entries), NEW w \in {None} \cup Workers, Given(q, w), NEW I,
         Once(dbInbox'), Calls(dbInbox') = I, Once(q),
         CallsOK(I, Calls(q), Calls(WorkedOf(w)), Calls(disk), Replying(w), answer),
         disk' = disk, answer' = answer
  PROVE  TxnInv'
<1> DEFINE Q == Calls(q)
           W == Calls(WorkedOf(w))
           Q1 == Calls(dbQueue')
           W1 == Calls(Worked')
           D == Calls(disk)
<1>1. /\ (dbWorker' = w /\ dbQueue' = q) \/ (w = None /\ dbWorker' # None /\ dbWorker'.at = "begin")
      /\ W1 \cup Q1 = W \cup Q
      /\ Once(dbQueue')
      /\ W \cap Q = {} => W1 \cap Q1 = {}
  BY GivenFacts
<1>2. CallsOK(I, Q, W, D, Replying(w), answer)
  OBVIOUS
<1>3. w = None => W = {}
  BY EmptyFacts DEF WorkedOf
<1>4. CASE dbWorker' = w /\ dbQueue' = q
  <2>1. Worked' = WorkedOf(w)
    BY <1>4 DEF Worked, WorkedOf
  <2> QED
    BY <1>1, <1>2, <1>4, <2>1, TxnParts
<1>5. CASE w = None /\ dbWorker' # None /\ dbWorker'.at = "begin"
  <2>1. ~Replying(dbWorker') /\ ~Replying(w) /\ W = {}
    BY <1>3, <1>5 DEF Replying
  <2> HIDE DEF Q, W, Q1, W1, D
  <2>2. CallsOK(I, Q1, W1, D, Replying(dbWorker'), answer)
    BY <1>1, <1>2, <2>1 DEF CallsOK
  <2> QED
    BY <1>1, <2>2, TxnParts DEF Q1, W1, D
<1> QED
  BY <1>1, <1>4, <1>5

(* The loop of the server. *)
LEMMA TxnLoop ==
  ASSUME DbTypeOK, WorkerInv, TxnInv, dbLoop
  PROVE  TxnInv'
<1>0. /\ dbInbox \in Seq(DbMsgs) /\ dbQueue \in Seq(Entries) /\ dbWorker \in {None} \cup Workers
      /\ None \in {None} \cup Workers /\ disk' = disk /\ answer' = answer
  BY LoopFacts DEF DbTypeOK
<1> DEFINE I == Calls(dbInbox)
           I1 == Calls(dbInbox')
           Q == Calls(dbQueue)
           W == Calls(WorkedOf(dbWorker))
           D == Calls(disk)
<1>1. /\ Once(dbInbox) /\ Once(dbQueue)
      /\ CallsOK(I, Q, W, D, Replying(dbWorker), answer)
  BY TxnParts DEF Worked, WorkedOf
<1>2. CASE /\ dbInbox # <<>> /\ Head(dbInbox).type \in {"log", "transaction"}
           /\ dbInbox' = Tail(dbInbox)
           /\ Append(dbQueue, Head(dbInbox)) \in Seq(Entries)
           /\ Given(Append(dbQueue, Head(dbInbox)), dbWorker)
  <2> DEFINE h == Head(dbInbox)
             q == Append(dbQueue, h)
             H == IF h.type = "transaction" THEN {h.client} ELSE {}
  <2>1. I = I1 \cup H /\ Once(dbInbox') /\ I1 \cap H = {}
    <3>1. /\ Calls(dbInbox) = Calls(Tail(dbInbox)) \cup H
          /\ Once(dbInbox) => Once(Tail(dbInbox))
          /\ Once(dbInbox) /\ h.type = "transaction" => h.client \notin Calls(Tail(dbInbox))
      BY <1>0, <1>2, TakeFacts
    <3> QED
      BY <1>1, <1>2, <3>1
  <2>2. h \in Entries
    BY <1>2, DbHead
  <2>3. Calls(q) = Q \cup H /\ (H \cap Q = {} => Once(q))
    BY <1>0, <1>1, <2>2, AppendFacts
  <2> HIDE DEF I, I1, Q, W, D, H, h
  <2>4. H \cap Q = {} /\ CallsOK(I1, Q \cup H, W, D, Replying(dbWorker), answer)
    BY <1>1, <2>1 DEF CallsOK
  <2>5. CallsOK(I1, Calls(q), Calls(WorkedOf(dbWorker)), Calls(disk), Replying(dbWorker), answer)
    BY <2>3, <2>4 DEF W, D
  <2>6. q \in Seq(Entries) /\ Given(q, dbWorker) /\ Once(q)
    BY <1>2, <2>3, <2>4 DEF h
  <2> HIDE DEF q
  <2> QED
    BY <1>0, <2>1, <2>5, <2>6, TxnGiven DEF I1
<1>3. CASE dbInbox' = dbInbox /\ Given(dbQueue, dbWorker)
  BY <1>0, <1>1, <1>3, TxnGiven
<1>4. ASSUME dbInbox # <<>>, Head(dbInbox).type \notin {"log", "transaction"},
             dbInbox' = Tail(dbInbox)
      PROVE  I1 = I /\ Once(dbInbox')
  <2>1. /\ Calls(dbInbox) = Calls(Tail(dbInbox))
              \cup (IF Head(dbInbox).type = "transaction" THEN {Head(dbInbox).client} ELSE {})
        /\ Once(dbInbox) => Once(Tail(dbInbox))
    BY <1>0, <1>4, TakeFacts
  <2> QED
    BY <1>1, <1>4, <2>1
<1>5. CASE dbInbox # <<>> /\ Head(dbInbox).type = "EXIT" /\ dbInbox' = Tail(dbInbox)
           /\ Given(dbQueue, dbWorker)
  BY <1>0, <1>1, <1>4, <1>5, TxnGiven
<1>6. CASE dbInbox # <<>> /\ Head(dbInbox).type = "DOWN" /\ dbInbox' = Tail(dbInbox)
           /\ Given(dbQueue, None)
  <2>1. Gone
    <3>1. 1 \in Downs
      BY <1>0, <1>6, TailFacts DEF Downs, IsDown
    <3> QED
      BY <3>1 DEF WorkerInv
  <2>2. WorkedOf(None) = WorkedOf(dbWorker) /\ ~Replying(None) /\ ~Replying(dbWorker)
    BY <2>1 DEF Gone, WorkedOf, Replying
  <2>3. CallsOK(I, Q, Calls(WorkedOf(None)), D, Replying(None), answer)
    BY <1>1, <2>2 DEF CallsOK
  <2> QED
    BY <1>0, <1>1, <1>4, <1>6, <2>3, TxnGiven
<1> QED
  BY <1>2, <1>3, <1>5, <1>6, LoopFacts

(* A DOWN message behind the others. *)
LEMMA DownLast ==
  ASSUME NEW s \in Seq(DbMsgs), NEW x \in {"normal", "error", "killed"}
  PROVE  LET r == Append(s, DownMsg(x))
         IN /\ r \in Seq(DbMsgs) /\ Events(r) = Events(s) /\ Calls(r) = Calls(s)
            /\ InOrder(s) => InOrder(r)
            /\ Once(s) => Once(r)
<1> DEFINE m == DownMsg(x)
<1>1. m \in DbMsgs /\ m.type = "DOWN"
  BY DbMessages DEF DownMsg
<1>2. ~IsEvent(m) /\ m.type # "transaction"
  BY <1>1 DEF IsEvent
<1> HIDE DEF m
<1>3. /\ Append(s, m) \in Seq(DbMsgs)
      /\ Events(Append(s, m)) = Events(s) \cup (IF IsEvent(m) THEN {m.event} ELSE {})
      /\ Calls(Append(s, m)) = Calls(s) \cup (IF m.type = "transaction" THEN {m.client} ELSE {})
      /\ InOrder(s) /\ (IsEvent(m) => Ahead(Events(s), {m.event})) => InOrder(Append(s, m))
      /\ Once(s) /\ (m.type = "transaction" => m.client \notin Calls(s)) => Once(Append(s, m))
  BY <1>1, AppendFacts
<1> QED
  BY <1>2, <1>3 DEF m

(* The end of the server. *)
LEMMA TxnEnd ==
  ASSUME DbTypeOK, WorkerInv, TxnInv, terminate \/ kill_server
  PROVE  TxnInv'
<1>0. /\ dbInbox \in Seq(DbMsgs) /\ dbQueue \in Seq(Entries) /\ dbWorker \in {None} \cup Workers
      /\ None \in {None} \cup Workers /\ disk \in Seq(Entries)
  BY DEF DbTypeOK
<1> DEFINE I == Calls(dbInbox)
           Q == Calls(dbQueue)
           W == Calls(Worked)
           D == Calls(disk)
<1>1. /\ Once(dbInbox) /\ Once(dbQueue)
      /\ CallsOK(I, Q, W, D, Replying(dbWorker), answer)
  BY TxnParts
<1>2. CASE /\ dbInbox' = <<>> /\ disk' = disk /\ dbQueue' = dbQueue /\ dbWorker' = dbWorker
           /\ answer' = [c \in Clients |-> IF answer[c] = "calls" THEN "DOWN" ELSE answer[c]]
  <2>1. Worked' = Worked /\ Replying(dbWorker') = Replying(dbWorker)
    BY <1>2 DEF Worked, Replying
  <2>2. Calls(dbInbox') = {} /\ Once(dbInbox')
    BY <1>2, EmptyFacts
  <2>3. \A c \in Clients : answer'[c] = IF answer[c] = "calls" THEN "DOWN" ELSE answer[c]
    BY <1>2
  <2>4. Q \subseteq Clients /\ W \subseteq Clients
    <3>1. dbQueue \in Seq(DbMsgs) /\ Worked \in Seq(DbMsgs)
      BY <1>0, EntriesAreMessages DEF Worked, Workers
    <3> QED
      BY <3>1, CallersAreClients
  <2> HIDE DEF I, Q, W, D
  <2>5. CallsOK({}, Q, W, D, Replying(dbWorker), answer')
    BY <1>1, <2>3, <2>4 DEF CallsOK
  <2> QED
    BY <1>1, <1>2, <2>1, <2>2, <2>5, TxnParts DEF Q, W, D
<1>3. CASE /\ \E i \in Downs : dbInbox' = RemoveAt(dbInbox, i)
           /\ Given(dbQueue, None) /\ disk' = disk /\ answer' = answer
  <2>1. PICK i \in Downs : dbInbox' = RemoveAt(dbInbox, i)
    BY <1>3
  <2>2. i \in DOMAIN dbInbox /\ dbInbox[i].type = "DOWN" /\ Gone
    BY DEF Downs, IsDown, WorkerInv
  <2>3. Calls(dbInbox') = I /\ Once(dbInbox')
    BY <1>0, <1>1, <2>1, <2>2, RemoveFacts
  <2>4. WorkedOf(None) = Worked /\ ~Replying(None) /\ ~Replying(dbWorker)
    BY <2>2 DEF Gone, Worked, WorkedOf, Replying
  <2>5. CallsOK(I, Q, Calls(WorkedOf(None)), D, Replying(None), answer)
    BY <1>1, <2>4 DEF CallsOK
  <2> QED
    BY <1>0, <1>1, <1>3, <2>3, <2>5, TxnGiven
<1>4. CASE UNCHANGED <<dbWorker, dbInbox, disk, dbQueue, answer>>
  <2>1. Worked' = Worked /\ Replying(dbWorker') = Replying(dbWorker)
    BY <1>4 DEF Worked, Replying
  <2> QED
    BY <1>1, <1>4, <2>1, TxnParts
<1>5. CASE /\ dbWorker # None /\ UNCHANGED <<dbQueue, answer>>
           /\ dbWorker' = [dbWorker EXCEPT !.at = "gone"]
           /\ dbInbox' = Append(dbInbox, DownMsg("killed"))
           /\ \/ disk' = disk
              \/ dbWorker.at = "commit" /\ disk' = disk \o dbWorker.work
  <2>1. dbWorker' # None /\ dbWorker'.at = "gone" /\ dbWorker.work \in Seq(Entries)
    BY <1>0, <1>5, WorkerAt DEF Places, Workers
  <2>2. Worked' = <<>> /\ ~Replying(dbWorker')
    BY <2>1 DEF Worked, Replying
  <2>4. Calls(dbInbox') = I /\ Once(dbInbox')
    BY <1>0, <1>1, <1>5, DownLast
  <2>5. \/ Calls(disk') = D
        \/ ~Replying(dbWorker) /\ Calls(disk') = D \cup W
    <3>1. CASE disk' = disk
      BY <3>1
    <3>2. CASE dbWorker.at = "commit" /\ disk' = disk \o dbWorker.work
      <4>1. Worked = dbWorker.work /\ ~Replying(dbWorker)
        BY <1>5, <3>2 DEF Worked, Replying
      <4> QED
        BY <1>0, <2>1, <3>2, <4>1, ConcatFacts
    <3> QED
      BY <1>5, <3>1, <3>2
  <2> DEFINE D1 == Calls(disk')
  <2> HIDE DEF I, Q, W, D, D1
  <2>6. CallsOK(I, Q, {}, D1, Replying(dbWorker'), answer)
    BY <1>1, <2>2, <2>5 DEF CallsOK, D1
  <2> QED
    BY <1>1, <1>5, <2>2, <2>4, <2>6, TxnParts, EmptyFacts DEF I, Q, D1
<1> QED
  BY <1>2, <1>3, <1>4, <1>5, EndFacts

(* The worker commits only what nobody has been told of. *)
LEMMA TxnWork ==
  ASSUME DbTypeOK, WorkerInv, TxnInv, dbWork
  PROVE  TxnInv'
<1>0. /\ dbInbox \in Seq(DbMsgs) /\ dbQueue \in Seq(Entries) /\ dbWorker \in Workers
      /\ disk \in Seq(Entries) /\ dbWorker.work \in Seq(Entries) /\ dbWorker.work # <<>>
      /\ answer \in [Clients -> {"none", "calls", "ok", "error", "DOWN"}]
      /\ dbWorker # None /\ dbWorker.at # "gone" /\ dbQueue' = dbQueue
      /\ dbWorker' # None /\ dbWorker'.work = dbWorker.work
  BY WorkFacts DEF DbTypeOK, Workers
<1> DEFINE I == Calls(dbInbox)
           Q == Calls(dbQueue)
           W == Calls(Worked)
           D == Calls(disk)
           D1 == Calls(disk')
           W1 == Calls(Worked')
<1>1. /\ Once(dbInbox) /\ Once(dbQueue)
      /\ CallsOK(I, Q, W, D, Replying(dbWorker), answer)
  BY TxnParts
<1>2. Calls(dbInbox') = I /\ Once(dbInbox')
  <2>1. CASE dbInbox' = dbInbox
    BY <1>1, <2>1
  <2>2. ASSUME NEW x \in {"normal", "error"}, dbInbox' = Append(dbInbox, DownMsg(x))
        PROVE  Calls(dbInbox') = I /\ Once(dbInbox')
    BY <1>0, <1>1, <2>2, DownLast
  <2> QED
    BY <2>1, <2>2, WorkFacts
<1>3. W = Calls(dbWorker.work) /\ W1 = IF dbWorker'.at = "gone" THEN {} ELSE W
  BY <1>0, EmptyFacts DEF Worked
<1>4. \/ D1 = D /\ ~Replying(dbWorker')
      \/ /\ ~Replying(dbWorker) /\ D1 = D \cup W
         /\ dbWorker'.at \in {"reply-ok", "gone"} /\ answer' = answer
  <2>1. CASE disk' = disk /\ dbWorker'.at # "reply-ok"
    BY <2>1 DEF Replying
  <2>2. CASE /\ dbWorker.at = "commit" /\ disk' = disk \o dbWorker.work
             /\ dbWorker'.at \in {"reply-ok", "gone"}
    <3>1. Calls(disk') = D \cup W
      BY <1>0, <1>3, <2>2, ConcatFacts
    <3>2. ~Replying(dbWorker) /\ answer' = answer
      BY <2>2, WorkFacts DEF Replying
    <3> QED
      BY <2>2, <3>1, <3>2
  <2> QED
    BY <2>1, <2>2, WorkFacts
<1>5. Replying(dbWorker) => dbWorker'.at = "gone"
  BY WorkFacts DEF Replying
<1>6. CASE answer' = answer
  <2>1. Replying(dbWorker') <=> dbWorker'.at = "reply-ok"
    BY <1>0 DEF Replying
  <2> HIDE DEF I, Q, W, D, D1, W1
  <2>2. CallsOK(I, Q, W1, D1, Replying(dbWorker'), answer)
    BY <1>1, <1>3, <1>4, <1>5, <2>1 DEF CallsOK
  <2> QED
    BY <1>0, <1>1, <1>2, <1>6, <2>2, TxnParts DEF I, Q, W1, D1
<1>7. CASE /\ dbWorker.at \in {"reply-ok", "reply-error"} /\ dbWorker'.at = "gone"
           /\ answer' = [answer EXCEPT ![dbWorker.work[1].client] =
                IF @ # "calls" THEN @ ELSE IF dbWorker.at = "reply-ok" THEN "ok" ELSE "error"]
  <2> DEFINE c0 == dbWorker.work[1].client
             new == IF Replying(dbWorker) THEN "ok" ELSE "error"
  <2>1. 1 \in DOMAIN dbWorker.work /\ dbWorker.work[1] \in Entries /\ ~IsLog(dbWorker.work[1])
    BY <1>0, <1>7 DEF WorkerInv
  <2>2. dbWorker.work[1].type = "transaction" /\ c0 \in Clients
    BY <2>1 DEF Entries, IsLog
  <2>3. c0 \in W
    BY <1>3, <2>1, <2>2, MemberOf
  <2>4. /\ \A c \in Clients : c # c0 => answer'[c] = answer[c]
        /\ answer'[c0] = IF answer[c0] = "calls" THEN new ELSE answer[c0]
    BY <1>0, <1>7, <2>2 DEF Replying
  <2>5. D1 = D /\ W1 = {} /\ ~Replying(dbWorker')
    BY <1>3, <1>4, <1>7, WorkFacts DEF Replying
  <2>6. I \subseteq Clients /\ Q \subseteq Clients
    BY <1>0, CallersAreClients, EntriesAreMessages
  <2>7. answer[c0] \in {"calls", "DOWN"} /\ c0 \notin I \cup Q
        /\ (IF Replying(dbWorker) THEN c0 \in D ELSE c0 \notin D)
    BY <1>1, <2>3 DEF CallsOK
  <2> HIDE DEF I, Q, W, D, D1, W1, c0
  <2>8. CallsOK(I, Q, W1, D1, Replying(dbWorker'), answer')
    <3>1. \A c \in I \cup Q \cup W1 : answer'[c] \in {"calls", "DOWN"}
      BY <1>1, <2>4, <2>5, <2>6, <2>7 DEF CallsOK
    <3>2. ASSUME NEW c \in Clients
          PROVE  /\ answer'[c] = "none" => c \notin D1
                 /\ answer'[c] = "ok" => c \in D1
                 /\ answer'[c] = "error" => c \notin D1
      BY <1>1, <2>4, <2>5, <2>7 DEF CallsOK
    <3> QED
      BY <1>1, <2>5, <3>1, <3>2 DEF CallsOK
  <2> QED
    BY <1>0, <1>1, <1>2, <2>8, TxnParts DEF I, Q, W1, D1
<1> QED
  BY <1>6, <1>7, WorkFacts

(* A client calls. *)
LEMMA TxnCall ==
  ASSUME DbTypeOK, TxnInv, NEW c \in Clients, transaction(c)
  PROVE  TxnInv'
<1>0. /\ dbInbox \in Seq(DbMsgs) /\ TxnMsg(c) \in DbMsgs
      /\ dbQueue \in Seq(Entries) /\ dbWorker \in {None} \cup Workers
      /\ answer \in [Clients -> {"none", "calls", "ok", "error", "DOWN"}]
  BY DbMessages DEF DbTypeOK
<1> DEFINE I == Calls(dbInbox)
           Q == Calls(dbQueue)
           W == Calls(Worked)
           D == Calls(disk)
           I1 == Calls(dbInbox')
<1>1. /\ Once(dbInbox) /\ Once(dbQueue)
      /\ CallsOK(I, Q, W, D, Replying(dbWorker), answer)
  BY TxnParts
<1>2. answer[c] = "none" /\ UNCHANGED <<dbQueue, dbWorker, disk>>
      /\ answer' = [answer EXCEPT ![c] = IF DbAlive THEN "calls" ELSE "DOWN"]
      /\ dbInbox' = IF DbAlive THEN Append(dbInbox, TxnMsg(c)) ELSE dbInbox
  BY <1>0, AppendIsConcat DEF transaction, Send
<1>3. c \notin I \cup Q \cup W \cup D
  BY <1>1, <1>2 DEF CallsOK
<1>4. Once(dbInbox') /\ I1 = I \cup (IF DbAlive THEN {c} ELSE {})
  <2>1. CASE ~DbAlive
    BY <1>1, <1>2, <2>1
  <2>2. CASE DbAlive
    <3> DEFINE m == TxnMsg(c)
    <3>1. /\ m \in DbMsgs /\ m.type = "transaction" /\ m.client = c /\ m.client \notin I
          /\ dbInbox' = Append(dbInbox, m)
      BY <1>0, <1>2, <1>3, <2>2 DEF TxnMsg
    <3> HIDE DEF m
    <3>2. dbInbox \in Seq(DbMsgs) /\ m \in DbMsgs
      BY <1>0, <3>1
    <3>3. /\ Calls(Append(dbInbox, m)) =
               Calls(dbInbox) \cup (IF m.type = "transaction" THEN {m.client} ELSE {})
          /\ Once(dbInbox) /\ (m.type = "transaction" => m.client \notin Calls(dbInbox))
               => Once(Append(dbInbox, m))
      BY <3>2, AppendFacts
    <3> QED
      BY <1>1, <2>2, <3>1, <3>3
  <2> QED
    BY <2>1, <2>2
<1>5. \A d \in Clients : answer'[d] = IF d = c THEN IF DbAlive THEN "calls" ELSE "DOWN" ELSE answer[d]
  BY <1>0, <1>2
<1>6. I \subseteq Clients /\ Q \subseteq Clients /\ W \subseteq Clients
  <2>1. dbQueue \in Seq(DbMsgs) /\ Worked \in Seq(DbMsgs)
    BY <1>0, EntriesAreMessages DEF Worked, Workers
  <2> QED
    BY <1>0, <2>1, CallersAreClients
<1>7. Worked' = Worked /\ Replying(dbWorker') = Replying(dbWorker)
  BY <1>2 DEF Worked, Replying
<1> HIDE DEF I, Q, W, D, I1
<1>8. CallsOK(I1, Q, W, D, Replying(dbWorker), answer')
  BY <1>1, <1>3, <1>4, <1>5, <1>6 DEF CallsOK
<1> QED
  BY <1>1, <1>2, <1>4, <1>7, <1>8, TxnParts DEF I1, Q, W, D

(* Messages of others are no calls. *)
LEMMA TxnSend ==
  ASSUME DbTypeOK, TxnInv, UNCHANGED <<dbQueue, dbWorker, disk, answer>>,
         Calls(dbInbox') = Calls(dbInbox), Once(dbInbox')
  PROVE  TxnInv'
<1>1. Worked' = Worked /\ Replying(dbWorker') = Replying(dbWorker)
  BY DEF Worked, Replying
<1> QED
  BY <1>1, TxnParts

(* A log message, an EXIT message or both are behind the others in the inbox *)
(* of the server, unless it is gone.                                         *)
LEMMA SentFacts ==
  ASSUME DbTypeOK, NEW e \in Nat,
         NEW msgs \in {<<>>, <<LogMsg(e)>>, <<ExitMsg>>, <<LogMsg(e), ExitMsg>>}, Send(msgs)
  PROVE  /\ Calls(dbInbox') = Calls(dbInbox) /\ (Once(dbInbox) => Once(dbInbox'))
         /\ Events(dbInbox) \subseteq Events(dbInbox')
         /\ Events(dbInbox') \subseteq Events(dbInbox) \cup {e}
         /\ DbAlive /\ msgs \in {<<LogMsg(e)>>, <<LogMsg(e), ExitMsg>>} => e \in Events(dbInbox')
         /\ InOrder(dbInbox) /\ Ahead(Events(dbInbox), {e}) => InOrder(dbInbox')
<1>0. dbInbox \in Seq(DbMsgs)
  BY DEF DbTypeOK
<1>1. /\ msgs \in Seq(DbMsgs) /\ InOrder(msgs) /\ Once(msgs) /\ Calls(msgs) = {}
      /\ Events(msgs) = IF msgs \in {<<LogMsg(e)>>, <<LogMsg(e), ExitMsg>>} THEN {e} ELSE {}
  BY LogMessages
<1>2. CASE ~DbAlive
  BY <1>2 DEF Send
<1>3. CASE DbAlive
  <2>1. dbInbox' = dbInbox \o msgs
    BY <1>3 DEF Send
  <2>2. /\ Events(dbInbox \o msgs) = Events(dbInbox) \cup Events(msgs)
        /\ Calls(dbInbox \o msgs) = Calls(dbInbox) \cup Calls(msgs)
        /\ InOrder(dbInbox) /\ InOrder(msgs) /\ Ahead(Events(dbInbox), Events(msgs)) =>
             InOrder(dbInbox \o msgs)
        /\ Once(dbInbox) /\ Once(msgs) /\ Calls(dbInbox) \cap Calls(msgs) = {} =>
             Once(dbInbox \o msgs)
    BY <1>0, <1>1, ConcatFacts
  <2>3. Ahead(Events(dbInbox), {e}) => Ahead(Events(dbInbox), Events(msgs))
    BY <1>1 DEF Ahead
  <2> QED
    BY <1>1, <2>1, <2>2, <2>3
<1> QED
  BY <1>2, <1>3

(* The event manager sends the database server log and EXIT messages only. *)
LEMMA EmSends ==
  ASSUME Base, emProcess
  PROVE  dbInbox' = dbInbox \/
         \E e \in Nat : \E msgs \in {<<>>, <<LogMsg(e)>>, <<ExitMsg>>, <<LogMsg(e), ExitMsg>>} : Send(msgs)
<1>0. EmTypeOK /\ DbTypeOK
  BY DEF Base, TypeOK
<1>1. ASSUME NEW e \in Nat, NEW inbox \in Seq(EmMsgs), DoNotify(e, inbox)
      PROVE  dbInbox' = dbInbox \/ \E msgs \in
                {<<>>, <<LogMsg(e)>>, <<ExitMsg>>, <<LogMsg(e), ExitMsg>>} : Send(msgs)
  BY <1>1, LogHandlerFacts DEF DoNotify
<1>2. CASE handle_notify
  <2>1. emInbox # <<>> /\ Head(emInbox).type = "notify"
    BY <1>2 DEF handle_notify, EmTakes
  <2>2. Head(emInbox).event \in Nat /\ Tail(emInbox) \in Seq(EmMsgs)
    BY <1>0, <2>1, EmHead
  <2> QED
    BY <1>1, <1>2, <2>2 DEF handle_notify
<1>3. CASE do_flush_buffer
  <2>1. pending # <<>> /\ DoNotify(Last(pending), emInbox)
    BY <1>3 DEF do_flush_buffer
  <2>2. Last(pending) \in Nat /\ emInbox \in Seq(EmMsgs)
    BY <1>0, <2>1 DEF Last, EmTypeOK
  <2> QED
    BY <1>1, <2>1, <2>2
<1> QED
  BY <1>2, <1>3 DEF emProcess, emLoop, flush_buffer, add_handler, set_log_handler, unregister,
     owner_exit, em_terminate

(* Every step keeps TxnInv. *)
LEMMA TxnStep ==
  ASSUME Base, TxnInv, [Next]_vars
  PROVE  TxnInv'
<1>0. DbTypeOK /\ WorkerInv
  BY DEF Base, TypeOK
<1>1. CASE UNCHANGED dbVars
  BY <1>0, <1>1, TxnSend DEF dbVars, TxnInv
<1>2. CASE dbProcess \/ dbKilled
  BY <1>0, <1>2, TxnLoop, TxnEnd DEF dbProcess, dbKilled
<1>3. CASE workerProcess
  BY <1>0, <1>3, TxnWork DEF workerProcess
<1>4. ASSUME NEW e \in Nat, NEW msgs \in {<<>>, <<LogMsg(e)>>, <<ExitMsg>>, <<LogMsg(e), ExitMsg>>},
             Send(msgs), UNCHANGED <<dbQueue, dbWorker, disk, answer>>
      PROVE  TxnInv'
  <2>1. Calls(dbInbox') = Calls(dbInbox) /\ (Once(dbInbox) => Once(dbInbox'))
    BY <1>0, <1>4, SentFacts
  <2> QED
    BY <1>0, <1>4, <2>1, TxnSend DEF TxnInv
<1>5. CASE emProcess
  <2>1. UNCHANGED <<dbQueue, dbWorker, disk, answer>>
    BY <1>5 DEF emProcess
  <2>2. CASE dbInbox' = dbInbox
    BY <1>0, <2>1, <2>2, TxnSend DEF TxnInv
  <2> QED
    BY <1>4, <1>5, <2>1, <2>2, EmSends
<1>6. CASE appProcess \/ shutdown
  <2>1. CASE setup \/ expireCache
    BY <1>0, <2>1, LoggingAssumption, TxnCall DEF setup, expireCache
  <2>2. CASE stopLogDb
    <3>1. Send(<<ExitMsg>>) /\ UNCHANGED <<dbQueue, dbWorker, disk, answer>> /\ 0 \in Nat
      BY <2>2 DEF stopLogDb
    <3> QED
      BY <1>4, <3>1
  <2> QED
    BY <1>1, <1>6, <2>1, <2>2 DEF appProcess, shutdown, setupFails, setLogHandler, flushBuffer, up,
       stopSentry, stopEventMgr, CallEm, Answered
<1> QED
  BY <1>1, <1>2, <1>3, <1>5, <1>6 DEF Next, others, sender, emKilled, vars

(* What clients and SQLite may rely on holds for any number of clients, any  *)
(* commit limit and any number of events: a client is told ok only when its  *)
(* transaction is committed and error only when it is not and never will be, *)
(* the end of a worker is told once, and the database is not closed under a  *)
(* worker.                                                                   *)
THEOREM DatabaseAlwaysSafe == Spec => []DatabaseSafe
<1>1. Init => Base /\ TxnInv
  <2>1. SUFFICES ASSUME Init PROVE Base /\ TxnInv
    OBVIOUS
  <2>2. /\ dbInbox = <<>> /\ dbQueue = <<>> /\ disk = <<>> /\ dbWorker = None
        /\ answer = [c \in Clients |-> "none"]
    BY <2>1 DEF Init, DbInit
  <2>3. TxnInv
    BY <2>2, EmptyFacts DEF TxnInv, Asking, AnswerIsTrue, Worked
  <2> QED
    BY <2>1, <2>3, BaseInit
<1>2. Base /\ TxnInv /\ [Next]_vars => (Base /\ TxnInv)'
  BY BaseStep, TxnStep
<1>3. Base /\ TxnInv => DatabaseSafe
  BY DEF Base, WorkerInv, TxnInv, DatabaseSafe
<1> QED
  BY <1>1, <1>2, <1>3, PTL DEF Spec

-----------------------------------------------------------------------------
(* The order of the events *)

(* The last event of a buffer is its oldest. *)
LEMMA BufferLast ==
  ASSUME NEW s \in Seq(Nat), s # <<>>
  PROVE  /\ Last(s) \in Nat /\ Front(s) \in Seq(Nat)
         /\ ToSet(s) = ToSet(Front(s)) \cup {Last(s)}
         /\ NewestFirst(s) => NewestFirst(Front(s)) /\ Ahead({Last(s)}, ToSet(Front(s)))
<1> DEFINE n == Len(s)
           f == Front(s)
<1>1. /\ n \in Nat \ {0} /\ DOMAIN s = 1..n /\ f \in Seq(Nat) /\ DOMAIN f = 1..(n - 1)
      /\ \A i \in 1..(n - 1) : f[i] = s[i]
      /\ Last(s) = s[n] /\ Last(s) \in Nat
  BY DEF Front, Last
<1> HIDE DEF n, f
<1>2. \A i \in DOMAIN f : i \in DOMAIN s /\ f[i] = s[i] /\ i < n /\ n \in DOMAIN s
  BY <1>1
<1>3. \A i \in DOMAIN s : i = n \/ (i \in DOMAIN f /\ f[i] = s[i])
  BY <1>1
<1>4. ToSet(s) = ToSet(f) \cup {Last(s)}
  <2>1. n \in DOMAIN s
    BY <1>1
  <2> QED
    BY <1>1, <1>2, <1>3, <2>1 DEF ToSet
<1>5. NewestFirst(s) => NewestFirst(f)
  BY <1>2 DEF NewestFirst
<1>6. ASSUME NewestFirst(s), NEW b \in ToSet(f) PROVE Last(s) < b
  <2>1. PICK i \in DOMAIN f : f[i] = b
    BY DEF ToSet
  <2> QED
    BY <1>1, <1>2, <1>6, <2>1 DEF NewestFirst
<1> QED
  BY <1>1, <1>4, <1>5, <1>6 DEF f, Ahead

(* The newest event is put in front. *)
LEMMA BufferFirst ==
  ASSUME NEW s \in Seq(Nat), NEW e \in Nat
  PROVE  /\ ToSet(<<e>> \o s) = ToSet(s) \cup {e}
         /\ NewestFirst(s) /\ Ahead(ToSet(s), {e}) => NewestFirst(<<e>> \o s)
<1> DEFINE r == <<e>> \o s
<1>1. /\ Len(s) \in Nat /\ DOMAIN s = 1..Len(s) /\ DOMAIN r = 1..(Len(s) + 1)
      /\ r[1] = e /\ \A i \in 1..Len(s) : r[i + 1] = s[i]
  OBVIOUS
<1> HIDE DEF r
<1>2. \A i \in DOMAIN s : i + 1 \in DOMAIN r /\ r[i + 1] = s[i]
  BY <1>1
<1>3. \A i \in DOMAIN r : i = 1 \/ (i - 1 \in DOMAIN s /\ r[i] = s[i - 1])
  <2> SUFFICES ASSUME NEW i \in DOMAIN r, i # 1 PROVE i - 1 \in DOMAIN s /\ r[i] = s[i - 1]
    OBVIOUS
  <2> DEFINE k == i - 1
  <2>1. k \in 1..Len(s) /\ k + 1 = i
    BY <1>1
  <2> HIDE DEF k
  <2>2. k \in DOMAIN s /\ r[i] = s[k]
    BY <1>1, <2>1
  <2> QED
    BY <2>2 DEF k
<1>4. ToSet(r) = ToSet(s) \cup {e}
  <2>1. 1 \in DOMAIN r
    BY <1>1
  <2>2. ASSUME NEW x \in ToSet(r) PROVE x \in ToSet(s) \cup {e}
    BY <1>1, <1>3 DEF ToSet
  <2>3. ASSUME NEW x \in ToSet(s) PROVE x \in ToSet(r)
    BY <1>2 DEF ToSet
  <2>4. e \in ToSet(r)
    BY <1>1, <2>1 DEF ToSet
  <2> QED
    BY <2>2, <2>3, <2>4
<1>5. ASSUME NewestFirst(s), Ahead(ToSet(s), {e}), NEW i \in DOMAIN r, NEW j \in DOMAIN r, i < j
      PROVE  r[j] < r[i]
  <2>1. j # 1 /\ i \in Nat /\ j \in Nat
    BY <1>1, <1>5
  <2>2. j - 1 \in DOMAIN s /\ r[j] = s[j - 1]
    BY <1>3, <2>1
  <2>3. CASE i = 1
    <3>1. r[j] \in ToSet(s)
      BY <2>2 DEF ToSet
    <3> QED
      BY <1>1, <1>5, <2>3, <3>1 DEF Ahead
  <2>4. CASE i # 1
    <3> DEFINE a == i - 1
               b == j - 1
    <3>1. a \in DOMAIN s /\ r[i] = s[a] /\ b \in DOMAIN s /\ r[j] = s[b] /\ a < b
      BY <1>3, <1>5, <2>1, <2>2, <2>4
    <3> HIDE DEF a, b
    <3> QED
      BY <1>5, <3>1 DEF NewestFirst
  <2> QED
    BY <2>3, <2>4
<1>6. NewestFirst(s) /\ Ahead(ToSet(s), {e}) => NewestFirst(r)
  BY <1>5 DEF NewestFirst
<1> QED
  BY <1>4, <1>6 DEF r

(* A message of the event manager that is no event. *)
LEMMA EmQuiet ==
  ASSUME NEW s \in Seq(EmMsgs), NEW x \in EmMsgs, ~IsEvent(x)
  PROVE  /\ Append(s, x) \in Seq(EmMsgs) /\ Events(Append(s, x)) = Events(s)
         /\ InOrder(s) => InOrder(Append(s, x))
<1>1. /\ Append(s, x) \in Seq(EmMsgs)
      /\ Events(Append(s, x)) = Events(s) \cup (IF IsEvent(x) THEN {x.event} ELSE {})
      /\ InOrder(s) /\ (IsEvent(x) => Ahead(Events(s), {x.event})) => InOrder(Append(s, x))
  BY AppendFacts
<1> QED
  BY <1>1

(* EXIT messages of owners are no events. *)
LEMMA ExitsQuiet ==
  ASSUME NEW s \in Seq(EmMsgs), NEW x \in Seq(ExitMsgs)
  PROVE  /\ s \o x \in Seq(EmMsgs) /\ Events(s \o x) = Events(s)
         /\ InOrder(s) => InOrder(s \o x)
<1>1. x \in Seq(EmMsgs) /\ \A i \in DOMAIN x : ~IsEvent(x[i])
  <2>1. \A m \in ExitMsgs : ~IsEvent(m)
    BY DEF ExitMsgs, IsEvent
  <2>2. \A i \in DOMAIN x : x[i] \in ExitMsgs
    OBVIOUS
  <2> QED
    BY <2>1, <2>2, EmMessages, SeqMonotonic
<1>2. Events(x) = {} /\ InOrder(x)
  BY <1>1 DEF Events, InOrder
<1>3. /\ s \o x \in Seq(EmMsgs)
      /\ Events(s \o x) = Events(s) \cup Events(x)
      /\ InOrder(s) /\ InOrder(x) /\ Ahead(Events(s), Events(x)) => InOrder(s \o x)
  BY <1>1, ConcatFacts, ConcatIndices
<1> QED
  BY <1>2, <1>3 DEF Ahead

(* The end of the database server is no event. *)
LEMMA LinkedQuiet ==
  ASSUME EmTypeOK, Linked
  PROVE  Events(emInbox') = Events(emInbox) /\ (InOrder(emInbox) => InOrder(emInbox'))
<1>1. emInbox \in Seq(EmMsgs) /\ ExitOf("log-db") \in EmMsgs /\ ~IsEvent(ExitOf("log-db"))
  BY EmMessages DEF EmTypeOK, ExitOf, IsEvent
<1>2. /\ Events(Append(emInbox, ExitOf("log-db"))) = Events(emInbox)
      /\ InOrder(emInbox) => InOrder(Append(emInbox, ExitOf("log-db")))
  BY <1>1, EmQuiet
<1> QED
  BY <1>2 DEF Linked

(* A step that leaves the events with the event manager where they are. *)
EmKeeps ==
  /\ Events(emInbox') = Events(emInbox) /\ InOrder(emInbox')
  /\ UNCHANGED <<pending, event_buffer, events, buffering>>

(* A step of the server or its worker: what they have stays in order. *)
LEMMA OrderServer ==
  ASSUME OrderInv, EmKeeps,
         InOrder(disk'), InOrder(Undone'), InOrder(dbQueue'), InOrder(dbInbox'),
         Stages(Events(disk'), Events(Undone'), Events(dbQueue'), Events(dbInbox'), ToSet(pending),
                ToSet(event_buffer), Events(emInbox), {events + 1})
  PROVE  OrderInv'
BY DEF OrderInv, EmKeeps

(* A queue is given to a worker. *)
LEMMA OrderGiven ==
  ASSUME NEW q \in Seq(Entries), NEW w \in {None} \cup Workers, Given(q, w),
         OrderInv, EmKeeps, InOrder(q), InOrder(UndoneOf(w)), InOrder(dbInbox'), disk' = disk,
         Stages(Events(disk), Events(UndoneOf(w)), Events(q), Events(dbInbox'), ToSet(pending),
                ToSet(event_buffer), Events(emInbox), {events + 1})
  PROVE  OrderInv'
<1> DEFINE U == Events(UndoneOf(w))
           Q == Events(q)
           U1 == Events(Undone')
           Q1 == Events(dbQueue')
           I1 == Events(dbInbox')
           D == Events(disk)
           P == ToSet(pending)
           B == ToSet(event_buffer)
           E == Events(emInbox)
           N == {events + 1}
<1>1. Stages(D, U, Q, I1, P, B, E, N)
  OBVIOUS
<1>2. Ahead(U, Q)
  <2> HIDE DEF U, Q, I1, D, P, B, E, N
  <2> QED
    BY <1>1 DEF Stages, Ahead
<1>3. InOrder(dbQueue') /\ InOrder(Undone') /\ Ahead(U1, Q1) /\ U1 \cup Q1 = U \cup Q
  BY <1>2, GivenFacts
<1>4. Stages(D, U1, Q1, I1, P, B, E, N)
  <2> HIDE DEF U, Q, U1, Q1, I1, D, P, B, E, N
  <2> QED
    BY <1>1, <1>3 DEF Stages, Ahead
<1>5. InOrder(disk') /\ Events(disk') = D
  BY DEF OrderInv
<1>6. Stages(Events(disk'), U1, Q1, I1, P, B, E, N)
  BY <1>4, <1>5
<1> QED
  BY <1>3, <1>5, <1>6, OrderServer

(* The loop of the server. *)
LEMMA OrderLoop ==
  ASSUME DbTypeOK, WorkerInv, OrderInv, dbLoop, EmKeeps
  PROVE  OrderInv'
<1>0. /\ dbInbox \in Seq(DbMsgs) /\ dbQueue \in Seq(Entries) /\ dbWorker \in {None} \cup Workers
      /\ None \in {None} \cup Workers /\ disk' = disk
  BY LoopFacts DEF DbTypeOK
<1> DEFINE U == Events(UndoneOf(dbWorker))
           Q == Events(dbQueue)
           I == Events(dbInbox)
           I1 == Events(dbInbox')
           D == Events(disk)
           P == ToSet(pending)
           B == ToSet(event_buffer)
           E == Events(emInbox)
           N == {events + 1}
<1>1. /\ Stages(D, U, Q, I, P, B, E, N)
      /\ InOrder(dbQueue) /\ InOrder(UndoneOf(dbWorker)) /\ InOrder(dbInbox)
  BY DEF OrderInv, Undone, UndoneOf
<1>2. CASE /\ dbInbox # <<>> /\ Head(dbInbox).type \in {"log", "transaction"}
           /\ dbInbox' = Tail(dbInbox)
           /\ Append(dbQueue, Head(dbInbox)) \in Seq(Entries)
           /\ Given(Append(dbQueue, Head(dbInbox)), dbWorker)
  <2> DEFINE h == Head(dbInbox)
             q == Append(dbQueue, h)
             H == IF IsEvent(h) THEN {h.event} ELSE {}
  <2>1. I = I1 \cup H /\ InOrder(dbInbox') /\ Ahead(H, I1)
    <3>1. /\ Events(dbInbox) = Events(Tail(dbInbox)) \cup H
          /\ InOrder(dbInbox) => InOrder(Tail(dbInbox))
          /\ InOrder(dbInbox) /\ IsEvent(h) => Ahead({h.event}, Events(Tail(dbInbox)))
      BY <1>0, <1>2, TakeFacts
    <3> QED
      BY <1>1, <1>2, <3>1 DEF Ahead
  <2>2. h \in Entries
    BY <1>2, DbHead
  <2>3. Events(q) = Q \cup H /\ (Ahead(Q, H) => InOrder(q))
    <3>1. /\ Events(Append(dbQueue, h)) = Events(dbQueue) \cup H
          /\ InOrder(dbQueue) /\ (IsEvent(h) => Ahead(Events(dbQueue), {h.event})) =>
               InOrder(Append(dbQueue, h))
      BY <1>0, <2>2, AppendFacts
    <3> QED
      BY <1>1, <3>1 DEF Ahead
  <2> HIDE DEF U, I, I1, Q, D, P, B, E, N, H, h
  <2>4. Ahead(Q, H) /\ Stages(D, U, Q \cup H, I1, P, B, E, N)
    BY <1>1, <2>1 DEF Stages, Ahead
  <2>5. Stages(D, U, Events(q), I1, P, B, E, N)
    BY <2>3, <2>4
  <2>6. q \in Seq(Entries) /\ Given(q, dbWorker) /\ InOrder(q)
    BY <1>2, <2>3, <2>4 DEF h
  <2> HIDE DEF q
  <2> QED
    BY <1>0, <1>1, <2>1, <2>5, <2>6, OrderGiven DEF U, I1, D, P, B, E, N
<1>3. CASE dbInbox' = dbInbox /\ Given(dbQueue, dbWorker)
  BY <1>0, <1>1, <1>3, OrderGiven
<1>4. ASSUME dbInbox # <<>>, Head(dbInbox).type \notin {"log", "transaction"},
             dbInbox' = Tail(dbInbox)
      PROVE  I1 = I /\ InOrder(dbInbox')
  <2>1. /\ Events(dbInbox) = Events(Tail(dbInbox))
              \cup (IF IsEvent(Head(dbInbox)) THEN {Head(dbInbox).event} ELSE {})
        /\ InOrder(dbInbox) => InOrder(Tail(dbInbox))
    BY <1>0, <1>4, TakeFacts
  <2>2. ~IsEvent(Head(dbInbox))
    BY <1>0, <1>4, DbHead DEF IsEvent, DbMsgs, Entries
  <2> QED
    BY <1>1, <1>4, <2>1, <2>2
<1>5. CASE dbInbox # <<>> /\ Head(dbInbox).type = "EXIT" /\ dbInbox' = Tail(dbInbox)
           /\ Given(dbQueue, dbWorker)
  BY <1>0, <1>1, <1>4, <1>5, OrderGiven
<1>6. CASE dbInbox # <<>> /\ Head(dbInbox).type = "DOWN" /\ dbInbox' = Tail(dbInbox)
           /\ Given(dbQueue, None)
  <2>1. Gone
    <3>1. 1 \in Downs
      BY <1>0, <1>6, TailFacts DEF Downs, IsDown
    <3> QED
      BY <3>1 DEF WorkerInv
  <2>2. UndoneOf(None) = UndoneOf(dbWorker)
    BY <2>1 DEF Gone, UndoneOf
  <2> QED
    BY <1>0, <1>1, <1>4, <1>6, <2>2, OrderGiven
<1> QED
  BY <1>2, <1>3, <1>5, <1>6, LoopFacts

(* The end of the server. *)
LEMMA OrderEnd ==
  ASSUME DbTypeOK, WorkerInv, OrderInv, terminate \/ kill_server, EmKeeps
  PROVE  OrderInv'
<1>0. /\ dbInbox \in Seq(DbMsgs) /\ dbQueue \in Seq(Entries) /\ dbWorker \in {None} \cup Workers
      /\ None \in {None} \cup Workers /\ disk \in Seq(Entries)
  BY DEF DbTypeOK
<1> DEFINE U == Events(Undone)
           Q == Events(dbQueue)
           I == Events(dbInbox)
           D == Events(disk)
           P == ToSet(pending)
           B == ToSet(event_buffer)
           E == Events(emInbox)
           N == {events + 1}
<1>1. /\ Stages(D, U, Q, I, P, B, E, N)
      /\ InOrder(dbQueue) /\ InOrder(Undone) /\ InOrder(dbInbox) /\ InOrder(disk)
  BY DEF OrderInv
<1>2. CASE /\ dbInbox' = <<>> /\ disk' = disk /\ dbQueue' = dbQueue /\ dbWorker' = dbWorker
  <2>1. Undone' = Undone
    BY <1>2 DEF Undone
  <2>2. Events(dbInbox') = {} /\ InOrder(dbInbox')
    BY <1>2, EmptyFacts
  <2>3. Stages(D, U, Q, {}, P, B, E, N)
    <3> HIDE DEF U, Q, I, D, P, B, E, N
    <3> QED
      BY <1>1 DEF Stages, Ahead
  <2> QED
    BY <1>1, <1>2, <2>1, <2>2, <2>3, OrderServer
<1>3. CASE /\ \E i \in Downs : dbInbox' = RemoveAt(dbInbox, i)
           /\ Given(dbQueue, None) /\ disk' = disk
  <2>1. PICK i \in Downs : dbInbox' = RemoveAt(dbInbox, i)
    BY <1>3
  <2>2. i \in DOMAIN dbInbox /\ dbInbox[i].type = "DOWN" /\ Gone
    BY DEF Downs, IsDown, WorkerInv
  <2>3. Events(dbInbox') = I /\ InOrder(dbInbox')
    BY <1>0, <1>1, <2>1, <2>2, RemoveFacts
  <2>4. UndoneOf(None) = Undone
    BY <2>2 DEF Gone, Undone, UndoneOf
  <2> QED
    BY <1>0, <1>1, <1>3, <2>3, <2>4, OrderGiven
<1>4. CASE UNCHANGED <<dbWorker, dbInbox, disk, dbQueue>>
  <2>1. Undone' = Undone
    BY <1>4 DEF Undone
  <2> QED
    BY <1>1, <1>4, <2>1, OrderServer
<1>5. CASE /\ dbWorker # None /\ UNCHANGED <<dbQueue, answer>>
           /\ dbWorker' = [dbWorker EXCEPT !.at = "gone"]
           /\ dbInbox' = Append(dbInbox, DownMsg("killed"))
           /\ \/ disk' = disk
              \/ dbWorker.at = "commit" /\ disk' = disk \o dbWorker.work
  <2>1. dbWorker' # None /\ dbWorker'.at = "gone" /\ dbWorker.work \in Seq(Entries)
    BY <1>0, <1>5, WorkerAt DEF Places, Workers
  <2>2. Undone' = <<>>
    BY <2>1 DEF Undone
  <2>3. Events(dbInbox') = I /\ InOrder(dbInbox')
    BY <1>0, <1>1, <1>5, DownLast
  <2> DEFINE D1 == Events(disk')
  <2>4. InOrder(disk') /\ (D1 = D \/ D1 = D \cup U)
    <3>1. CASE disk' = disk
      BY <1>1, <3>1
    <3>2. CASE dbWorker.at = "commit" /\ disk' = disk \o dbWorker.work
      <4>1. Undone = dbWorker.work
        BY <1>5, <3>2 DEF Undone
      <4>2. Ahead(D, U)
        <5> HIDE DEF U, Q, I, D, P, B, E, N
        <5> QED
          BY <1>1 DEF Stages, Ahead
      <4> QED
        BY <1>0, <1>1, <2>1, <3>2, <4>1, <4>2, ConcatFacts
    <3> QED
      BY <1>5, <3>1, <3>2
  <2>5. Stages(D1, {}, Q, I, P, B, E, N)
    <3> HIDE DEF U, Q, I, D, D1, P, B, E, N
    <3> QED
      BY <1>1, <2>4 DEF Stages, Ahead
  <2> QED
    BY <1>1, <1>5, <2>2, <2>3, <2>4, <2>5, OrderServer, EmptyFacts
<1> QED
  BY <1>2, <1>3, <1>4, <1>5, EndFacts

(* The worker. *)
LEMMA OrderWork ==
  ASSUME DbTypeOK, WorkerInv, OrderInv, dbWork, EmKeeps
  PROVE  OrderInv'
<1>0. /\ dbInbox \in Seq(DbMsgs) /\ disk \in Seq(Entries) /\ dbWorker.work \in Seq(Entries)
      /\ dbWorker # None /\ dbQueue' = dbQueue /\ dbWorker' # None /\ dbWorker'.work = dbWorker.work
  BY WorkFacts DEF DbTypeOK, Workers
<1> DEFINE U == Events(Undone)
           U1 == Events(Undone')
           Q == Events(dbQueue)
           I == Events(dbInbox)
           D == Events(disk)
           D1 == Events(disk')
           P == ToSet(pending)
           B == ToSet(event_buffer)
           E == Events(emInbox)
           N == {events + 1}
<1>1. /\ Stages(D, U, Q, I, P, B, E, N)
      /\ InOrder(dbQueue) /\ InOrder(Undone) /\ InOrder(dbInbox) /\ InOrder(disk)
  BY DEF OrderInv
<1>2. Events(dbInbox') = I /\ InOrder(dbInbox')
  <2>1. CASE dbInbox' = dbInbox
    BY <1>1, <2>1
  <2>2. ASSUME NEW x \in {"normal", "error"}, dbInbox' = Append(dbInbox, DownMsg(x))
        PROVE  Events(dbInbox') = I /\ InOrder(dbInbox')
    BY <1>0, <1>1, <2>2, DownLast
  <2> QED
    BY <2>1, <2>2, WorkFacts
<1>3. \/ D1 = D /\ InOrder(disk') /\ InOrder(Undone') /\ (U1 = U \/ U1 = {})
      \/ D1 = D \cup U /\ InOrder(disk') /\ InOrder(Undone') /\ U1 = {}
  <2>1. CASE dbWorker'.at \in {"begin", "work", "commit"}
    <3>1. dbWorker.at \in {"begin", "work", "commit"} /\ disk' = disk
      BY <2>1, WorkFacts
    <3>2. Undone' = Undone
      BY <1>0, <2>1, <3>1 DEF Undone
    <3> QED
      BY <1>1, <3>1, <3>2
  <2>2. CASE dbWorker'.at \notin {"begin", "work", "commit"}
    <3>1. Undone' = <<>>
      BY <1>0, <2>2 DEF Undone
    <3>2. CASE disk' = disk
      BY <1>1, <3>1, <3>2, EmptyFacts
    <3>3. CASE dbWorker.at = "commit" /\ disk' = disk \o dbWorker.work
      <4>1. Undone = dbWorker.work
        BY <1>0, <3>3 DEF Undone
      <4>2. Ahead(D, U)
        <5> HIDE DEF U, Q, I, D, P, B, E, N
        <5> QED
          BY <1>1 DEF Stages, Ahead
      <4>3. D1 = D \cup U /\ InOrder(disk')
        BY <1>0, <1>1, <3>3, <4>1, <4>2, ConcatFacts
      <4> QED
        BY <3>1, <4>3, EmptyFacts
    <3> QED
      BY <3>2, <3>3, WorkFacts
  <2> QED
    BY <2>1, <2>2
<1>4. Stages(D1, U1, Q, I, P, B, E, N)
  <2> HIDE DEF U, U1, Q, I, D, D1, P, B, E, N
  <2> QED
    BY <1>1, <1>3 DEF Stages, Ahead
<1> QED
  BY <1>0, <1>1, <1>2, <1>3, <1>4, OrderServer

(* do-notify moves an event to the inbox of the server or to the console. *)
LEMMA NotifyMoves ==
  ASSUME EmTypeOK, DbTypeOK, NEW e \in Nat, NEW inbox \in Seq(EmMsgs), DoNotify(e, inbox)
  PROVE  /\ Events(emInbox') = Events(inbox) /\ (InOrder(inbox) => InOrder(emInbox'))
         /\ Events(dbInbox) \subseteq Events(dbInbox')
         /\ Events(dbInbox') \subseteq Events(dbInbox) \cup {e}
         /\ InOrder(dbInbox) /\ Ahead(Events(dbInbox), {e}) => InOrder(dbInbox')
<1>1. PICK x \in Seq(ExitMsgs) : emInbox' = inbox \o x
  BY NotifyFacts
<1>2. CallLogHandler(e)
  BY DEF DoNotify
<1>3. Events(emInbox') = Events(inbox) /\ (InOrder(inbox) => InOrder(emInbox'))
  BY <1>1, ExitsQuiet
<1>4. CASE dbInbox' = dbInbox
  BY <1>3, <1>4
<1>5. CASE \E msgs \in {<<>>, <<LogMsg(e)>>, <<ExitMsg>>, <<LogMsg(e), ExitMsg>>} : Send(msgs)
  BY <1>3, <1>5, SentFacts
<1> QED
  BY <1>2, <1>4, <1>5, LogHandlerFacts

(* The events of the inbox without the first message. *)
LEMMA EmTakeFacts ==
  ASSUME EmTypeOK, emInbox # <<>>
  PROVE  LET E == Events(emInbox)
             T == Events(Tail(emInbox))
             h == Head(emInbox)
         IN /\ T \subseteq E /\ (h.type = "notify" => E = T \cup {h.event})
            /\ h.type # "notify" => T = E
            /\ InOrder(emInbox) => InOrder(Tail(emInbox))
            /\ InOrder(emInbox) /\ h.type = "notify" => Ahead({h.event}, T)
<1> DEFINE h == Head(emInbox)
<1>1. emInbox \in Seq(EmMsgs) /\ h \in EmMsgs
  BY EmHead
<1>2. IsEvent(h) <=> h.type = "notify"
  BY <1>1 DEF EmMsgs, IsEvent
<1>3. /\ Events(emInbox) = Events(Tail(emInbox)) \cup (IF IsEvent(h) THEN {h.event} ELSE {})
      /\ InOrder(emInbox) => InOrder(Tail(emInbox))
      /\ InOrder(emInbox) /\ IsEvent(h) => Ahead({h.event}, Events(Tail(emInbox)))
  BY <1>1, TakeFacts
<1> HIDE DEF h
<1>4. /\ Events(Tail(emInbox)) \subseteq Events(emInbox)
      /\ h.type = "notify" => Events(emInbox) = Events(Tail(emInbox)) \cup {h.event}
      /\ h.type # "notify" => Events(Tail(emInbox)) = Events(emInbox)
  BY <1>2, <1>3
<1> QED
  BY <1>2, <1>3, <1>4 DEF h

(* A step of the event manager keeps the order. *)
LEMMA OrderEm ==
  ASSUME Base, OrderInv, emProcess
  PROVE  OrderInv'
<1>0. /\ EmTypeOK /\ DbTypeOK /\ emInbox \in Seq(EmMsgs) /\ events \in Nat
      /\ pending \in Seq(Nat) /\ event_buffer \in Seq(Nat)
      /\ UNCHANGED <<dbState, dbQueue, dbWorker, txn, disk, answer, fault>>
  BY DEF Base, TypeOK, EmTypeOK, emProcess
<1>a. Undone' = Undone
  BY <1>0 DEF Undone
<1> DEFINE D == Events(disk)
           U == Events(Undone)
           Q == Events(dbQueue)
           I == Events(dbInbox)
           P == ToSet(pending)
           B == ToSet(event_buffer)
           E == Events(emInbox)
           N == {events + 1}
           I1 == Events(dbInbox')
           P1 == ToSet(pending')
           B1 == ToSet(event_buffer')
           E1 == Events(emInbox')
<1>1. /\ Stages(D, U, Q, I, P, B, E, N)
      /\ InOrder(disk) /\ InOrder(Undone) /\ InOrder(dbQueue) /\ InOrder(dbInbox)
      /\ NewestFirst(pending) /\ NewestFirst(event_buffer) /\ InOrder(emInbox)
      /\ ~buffering => event_buffer = <<>>
  BY DEF OrderInv
<1>2. SUFFICES /\ InOrder(dbInbox') /\ NewestFirst(pending') /\ NewestFirst(event_buffer')
               /\ InOrder(emInbox') /\ events' = events
               /\ Stages(D, U, Q, I1, P1, B1, E1, N)
               /\ ~buffering' => event_buffer' = <<>>
  BY <1>0, <1>a, <1>1 DEF OrderInv
<1>3. CASE handle_notify
  <2> DEFINE e == Head(emInbox).event
             T == Events(Tail(emInbox))
  <2>1. /\ emInbox # <<>> /\ Head(emInbox).type = "notify" /\ pending = <<>>
        /\ UNCHANGED <<buffering, pending, events>>
    BY <1>3 DEF handle_notify, EmTakes
  <2>2. e \in Nat /\ Tail(emInbox) \in Seq(EmMsgs)
    BY <1>0, <2>1, EmHead
  <2>3. E = T \cup {e} /\ InOrder(Tail(emInbox)) /\ Ahead({e}, T)
    BY <1>0, <1>1, <2>1, EmTakeFacts
  <2>4. P = {} /\ P1 = {} /\ NewestFirst(pending')
    BY <1>1, <2>1, EmptyFacts
  <2>5. CASE event_buffer' = Buffered(e) /\ EmTaken /\ buffering /\ dbInbox' = dbInbox
    <3>1. Ahead(B, {e})
      <4> HIDE DEF D, U, Q, I, P, B, E, N, T, e
      <4> QED
        BY <1>1, <2>3 DEF Stages, Ahead
    <3>2. B1 = B \cup {e} /\ NewestFirst(event_buffer')
      BY <1>0, <1>1, <2>2, <2>5, <3>1, BufferFirst DEF Buffered
    <3>3. E1 = T /\ I1 = I /\ InOrder(emInbox') /\ InOrder(dbInbox')
      BY <1>1, <2>3, <2>5 DEF EmTaken
    <3>4. Stages(D, U, Q, I1, P1, B1, E1, N)
      <4> HIDE DEF D, U, Q, I, P, B, E, N, T, e, I1, P1, B1, E1
      <4> QED
        BY <1>1, <2>3, <2>4, <3>2, <3>3 DEF Stages, Ahead
    <3> QED
      BY <2>1, <2>4, <2>5, <3>2, <3>3, <3>4
  <2>6. CASE DoNotify(e, Tail(emInbox)) /\ ~buffering /\ event_buffer' = event_buffer
    <3>1. Ahead(I, {e})
      <4> HIDE DEF D, U, Q, I, P, B, E, N, T, e
      <4> QED
        BY <1>1, <2>3 DEF Stages, Ahead
    <3>2. /\ E1 = T /\ InOrder(emInbox') /\ I1 \subseteq I \cup {e} /\ InOrder(dbInbox')
      BY <1>0, <1>1, <2>2, <2>3, <2>6, <3>1, NotifyMoves
    <3>3. B = {} /\ B1 = {} /\ NewestFirst(event_buffer') /\ event_buffer' = <<>>
      BY <1>1, <2>6, EmptyFacts
    <3>4. Stages(D, U, Q, I1, P1, B1, E1, N)
      <4> HIDE DEF D, U, Q, I, P, B, E, N, T, e, I1, P1, B1, E1
      <4> QED
        BY <1>1, <2>3, <2>4, <3>2, <3>3 DEF Stages, Ahead
    <3> QED
      BY <2>1, <2>4, <3>2, <3>3, <3>4
  <2> QED
    BY <1>3, <2>5, <2>6 DEF handle_notify
<1>4. CASE do_flush_buffer
  <2> DEFINE e == Last(pending)
  <2>1. /\ pending # <<>> /\ DoNotify(e, emInbox) /\ pending' = Front(pending)
        /\ UNCHANGED <<buffering, event_buffer, events>>
    BY <1>4 DEF do_flush_buffer
  <2>2. e \in Nat /\ P = P1 \cup {e} /\ NewestFirst(pending') /\ Ahead({e}, P1)
    BY <1>0, <1>1, <2>1, BufferLast
  <2>3. Ahead(I, {e})
    <3> HIDE DEF D, U, Q, I, P, B, E, N, P1, e
    <3> QED
      BY <1>1, <2>2 DEF Stages, Ahead
  <2>4. /\ E1 = E /\ InOrder(emInbox') /\ I1 \subseteq I \cup {e} /\ InOrder(dbInbox')
    BY <1>0, <1>1, <2>1, <2>2, <2>3, NotifyMoves
  <2>5. B1 = B
    BY <2>1
  <2>6. Stages(D, U, Q, I1, P1, B1, E1, N)
    <3> HIDE DEF D, U, Q, I, P, B, E, N, I1, P1, B1, E1, e
    <3> QED
      BY <1>1, <2>2, <2>4, <2>5 DEF Stages, Ahead
  <2> QED
    BY <1>1, <2>1, <2>2, <2>4, <2>6
<1>5. CASE flush_buffer
  <2>1. /\ emInbox # <<>> /\ Head(emInbox).type = "flush-buffer" /\ pending = <<>>
        /\ emInbox' = Tail(emInbox) /\ pending' = event_buffer /\ event_buffer' = <<>>
        /\ UNCHANGED <<events, dbInbox>>
    BY <1>5 DEF flush_buffer, EmTakes, EmTaken
  <2>2. E1 = E /\ InOrder(emInbox')
    BY <1>0, <1>1, <2>1, EmTakeFacts
  <2>3. P = {} /\ B1 = {} /\ P1 = B /\ I1 = I /\ NewestFirst(event_buffer')
    BY <2>1, EmptyFacts
  <2>4. Stages(D, U, Q, I1, P1, B1, E1, N)
    <3> HIDE DEF D, U, Q, I, P, B, E, N, I1, P1, B1, E1
    <3> QED
      BY <1>1, <2>2, <2>3 DEF Stages, Ahead
  <2> QED
    BY <1>1, <2>1, <2>2, <2>3, <2>4
<1>6. ASSUME NEW x \in Seq(ExitMsgs), emInbox # <<>>, Head(emInbox).type # "notify",
             emInbox' = Tail(emInbox) \o x,
             UNCHANGED <<buffering, event_buffer, pending, events, dbInbox>>
      PROVE  /\ InOrder(dbInbox') /\ NewestFirst(pending') /\ NewestFirst(event_buffer')
             /\ InOrder(emInbox') /\ events' = events
             /\ Stages(D, U, Q, I1, P1, B1, E1, N)
             /\ ~buffering' => event_buffer' = <<>>
  <2>1. Events(Tail(emInbox)) = E /\ InOrder(Tail(emInbox)) /\ Tail(emInbox) \in Seq(EmMsgs)
    BY <1>0, <1>1, <1>6, EmTakeFacts, EmHead
  <2>2. E1 = E /\ InOrder(emInbox')
    BY <1>6, <2>1, ExitsQuiet
  <2> QED
    BY <1>1, <1>6, <2>2
<1>7. CASE add_handler \/ set_log_handler
  <2>1. /\ emInbox # <<>> /\ Head(emInbox).type \in {"add-handler", "set-log-handler"}
        /\ UNCHANGED <<buffering, event_buffer, pending, events, dbInbox>>
        /\ \/ emInbox' = Tail(emInbox) \o LinkedExit("log-db", ~DbAlive)
           \/ /\ Head(emInbox).type = "add-handler"
              /\ emInbox' = Tail(emInbox) \o LinkedExit(Head(emInbox).owner, Head(emInbox).owner \in ended)
    BY <1>7 DEF add_handler, set_log_handler, EmTakes
  <2>2. Head(emInbox).type = "add-handler" => Head(emInbox).owner \in Owners
    BY <1>0, <2>1, EmHead
  <2>3. PICK x \in Seq(ExitMsgs) : emInbox' = Tail(emInbox) \o x
    <3>1. \A p \in Owners \cup {"log-db"} : <<>> \in Seq(ExitMsgs) /\ <<ExitOf(p)>> \in Seq(ExitMsgs)
      BY DEF ExitOf, ExitMsgs
    <3> QED
      BY <2>1, <2>2, <3>1 DEF LinkedExit
  <2> QED
    BY <1>6, <2>1, <2>3
<1>8. CASE unregister \/ owner_exit
  <2>1. /\ emInbox # <<>> /\ Head(emInbox).type \in {"unregister", "EXIT"}
        /\ UNCHANGED <<buffering, event_buffer, pending, events, dbInbox>>
        /\ emInbox' = Tail(emInbox)
    BY <1>8 DEF unregister, owner_exit, EmTakes, EmTaken
  <2>2. Events(Tail(emInbox)) = E /\ InOrder(Tail(emInbox))
    BY <1>0, <1>1, <2>1, EmTakeFacts
  <2> QED
    BY <1>1, <2>1, <2>2
<1>9. CASE em_terminate
  <2>1. /\ emInbox' = <<>> /\ event_buffer' = <<>> /\ UNCHANGED <<pending, events, dbInbox>>
    BY <1>9 DEF em_terminate
  <2>2. E1 = {} /\ B1 = {} /\ P1 = P /\ I1 = I /\ NewestFirst(event_buffer') /\ InOrder(emInbox')
    BY <2>1, EmptyFacts
  <2>3. Stages(D, U, Q, I1, P1, B1, E1, N)
    <3> HIDE DEF D, U, Q, I, P, B, E, N, I1, P1, B1, E1
    <3> QED
      BY <1>1, <2>2 DEF Stages, Ahead
  <2> QED
    BY <1>1, <2>1, <2>2, <2>3
<1> QED
  BY <1>3, <1>4, <1>5, <1>7, <1>8, <1>9 DEF emProcess, emLoop

(* Nothing moves, but for messages that are no events. *)
LEMMA OrderQuiet ==
  ASSUME OrderInv, EmKeeps, UNCHANGED <<dbQueue, dbWorker, disk>>,
         Events(dbInbox') = Events(dbInbox), InOrder(dbInbox')
  PROVE  OrderInv'
<1>1. Undone' = Undone
  BY DEF Undone
<1> QED
  BY <1>1, OrderServer DEF OrderInv

(* A new event comes after all the others. *)
LEMMA OrderSender ==
  ASSUME Base, OrderInv, others \/ sender
  PROVE  OrderInv'
<1>0. /\ EmTypeOK /\ DbTypeOK /\ emInbox \in Seq(EmMsgs) /\ events \in Nat
      /\ pending \in Seq(Nat) /\ event_buffer \in Seq(Nat)
      /\ UNCHANGED <<dbInbox, dbQueue, dbWorker, disk>>
  BY DEF Base, TypeOK, EmTypeOK, others, sender, dbVars
<1>a. Undone' = Undone
  BY <1>0 DEF Undone
<1> DEFINE D == Events(disk)
           U == Events(Undone)
           Q == Events(dbQueue)
           I == Events(dbInbox)
           P == ToSet(pending)
           B == ToSet(event_buffer)
           E == Events(emInbox)
           N == {events + 1}
           E1 == Events(emInbox')
           N1 == {events' + 1}
<1>1. /\ Stages(D, U, Q, I, P, B, E, N) /\ InOrder(emInbox) /\ InOrder(dbInbox)
  BY DEF OrderInv
<1>2. ASSUME NEW x \in EmMsgs, ~IsEvent(x), emInbox' \in {emInbox, Append(emInbox, x)},
             UNCHANGED <<pending, event_buffer, events, buffering>>
      PROVE  OrderInv'
  <2>1. Events(Append(emInbox, x)) = Events(emInbox) /\ InOrder(Append(emInbox, x))
    BY <1>0, <1>1, <1>2, EmQuiet
  <2>2. EmKeeps
    BY <1>1, <1>2, <2>1 DEF EmKeeps
  <2> QED
    BY <1>0, <1>1, <2>2, OrderQuiet
<1>3. CASE \E o \in Owners : addHandler(o) \/ ownerEnds(o)
  <2>1. PICK o \in Owners : addHandler(o) \/ ownerEnds(o)
    BY <1>3
  <2>2. /\ AddHandler(o) \in EmMsgs /\ ExitOf(o) \in EmMsgs
        /\ ~IsEvent(AddHandler(o)) /\ ~IsEvent(ExitOf(o))
    BY EmMessages DEF AddHandler, ExitOf, IsEvent
  <2>3. CASE addHandler(o)
    BY <1>2, <2>2, <2>3 DEF addHandler
  <2>4. CASE ownerEnds(o)
    BY <1>2, <2>2, <2>4 DEF ownerEnds
  <2> QED
    BY <2>1, <2>3, <2>4
<1>4. \A x \in D \cup U \cup Q \cup I \cup P \cup B \cup E : x \in Nat
  <2>1. /\ disk \in Seq(DbMsgs) /\ Undone \in Seq(DbMsgs) /\ dbQueue \in Seq(DbMsgs)
        /\ dbInbox \in Seq(DbMsgs)
    BY <1>0, EntriesAreMessages DEF DbTypeOK, Undone, Workers
  <2>2. P \subseteq Nat /\ B \subseteq Nat
    BY <1>0 DEF ToSet
  <2> QED
    BY <1>0, <2>1, <2>2, EventsAreNumbers
<1>5. ASSUME events' = events + 1, InOrder(emInbox'), E1 \subseteq E \cup N,
             UNCHANGED <<pending, event_buffer, buffering>>
      PROVE  OrderInv'
  <2>1. Ahead(D \cup U \cup Q \cup I \cup P \cup B \cup E \cup N, N1)
    <3>1. Ahead(D \cup U \cup Q \cup I \cup P \cup B \cup E, N)
      <4> HIDE DEF D, U, Q, I, P, B, E, N
      <4> QED
        BY <1>1 DEF Stages, Ahead
    <3>2. N = {events + 1} /\ N1 = {events + 2}
      BY <1>0, <1>5
    <3>3. ASSUME NEW x \in D \cup U \cup Q \cup I \cup P \cup B \cup E PROVE x < events + 2
      <4>1. x < events + 1
        BY <3>1, <3>2 DEF Ahead
      <4>2. x \in Nat
        BY <1>4
      <4> QED
        BY <1>0, <4>1, <4>2
    <3> HIDE DEF D, U, Q, I, P, B, E, N, N1
    <3> QED
      BY <1>0, <3>2, <3>3 DEF Ahead
  <2>2. Stages(D, U, Q, I, P, B, E1, N1)
    <3> HIDE DEF D, U, Q, I, P, B, E, N, E1, N1
    <3> QED
      BY <1>1, <1>5, <2>1 DEF Stages, Ahead
  <2> QED
    BY <1>0, <1>a, <1>5, <2>2 DEF OrderInv
<1>6. CASE notify
  <2>1. CASE looking' = TRUE /\ events' = events
    <3>1. EmKeeps
      BY <1>1, <1>6, <2>1 DEF notify, EmKeeps
    <3> QED
      BY <1>0, <1>1, <3>1, OrderQuiet
  <2>2. CASE events' = events + 1
    BY <1>1, <1>5, <1>6, <2>2 DEF notify
  <2> QED
    BY <1>6, <2>1, <2>2 DEF notify
<1>7. CASE notifySend
  <2> DEFINE m == Notify(events + 1)
  <2>1. m \in EmMsgs /\ IsEvent(m) /\ m.event = events + 1
    BY <1>0, EmMessages DEF Notify, IsEvent
  <2>2. emInbox' \in {emInbox, Append(emInbox, m)} /\ events' = events + 1
        /\ UNCHANGED <<pending, event_buffer, buffering>>
    BY <1>7 DEF notifySend
  <2> HIDE DEF m
  <2>3. /\ Events(Append(emInbox, m)) = E \cup (IF IsEvent(m) THEN {m.event} ELSE {})
        /\ InOrder(emInbox) /\ (IsEvent(m) => Ahead(Events(emInbox), {m.event})) =>
             InOrder(Append(emInbox, m))
    BY <1>0, <2>1, AppendFacts
  <2>4. Ahead(E, {m.event})
    <3>1. Ahead(E, N)
      <4> HIDE DEF D, U, Q, I, P, B, E, N
      <4> QED
        BY <1>1 DEF Stages
    <3> QED
      BY <2>1, <3>1
  <2>5. InOrder(emInbox') /\ E1 \subseteq E \cup N
    BY <1>1, <2>1, <2>2, <2>3, <2>4
  <2> QED
    BY <1>5, <2>2, <2>5
<1> QED
  BY <1>3, <1>6, <1>7 DEF others, sender

(* The application sends no events. *)
LEMMA OrderApp ==
  ASSUME Base, OrderInv, appProcess \/ shutdown
  PROVE  OrderInv'
<1>0. /\ EmTypeOK /\ DbTypeOK /\ emInbox \in Seq(EmMsgs) /\ dbInbox \in Seq(DbMsgs)
  BY DEF Base, TypeOK, EmTypeOK, DbTypeOK
<1>1. InOrder(emInbox) /\ InOrder(dbInbox)
  BY DEF OrderInv
<1>2. UNCHANGED emVars => EmKeeps
  BY <1>1 DEF emVars, EmKeeps
<1>3. CASE setup \/ expireCache
  <2>1. PICK c \in {"setup", "expire"} : transaction(c)
    BY <1>3 DEF setup, expireCache
  <2>2. TxnMsg(c) \in DbMsgs /\ ~IsEvent(TxnMsg(c))
    BY LoggingAssumption, DbMessages DEF TxnMsg, IsEvent
  <2>3. /\ Events(Append(dbInbox, TxnMsg(c))) = Events(dbInbox)
        /\ InOrder(Append(dbInbox, TxnMsg(c)))
    <3> DEFINE m == TxnMsg(c)
    <3>1. m \in DbMsgs /\ ~IsEvent(m)
      BY <2>2
    <3> HIDE DEF m
    <3>2. /\ Events(Append(dbInbox, m)) = Events(dbInbox) \cup (IF IsEvent(m) THEN {m.event} ELSE {})
          /\ InOrder(dbInbox) /\ (IsEvent(m) => Ahead(Events(dbInbox), {m.event})) =>
               InOrder(Append(dbInbox, m))
      BY <1>0, <3>1, AppendFacts
    <3>3. Events(Append(dbInbox, m)) = Events(dbInbox) /\ InOrder(Append(dbInbox, m))
      BY <1>1, <3>1, <3>2
    <3> QED
      BY <3>3 DEF m
  <2>4. dbInbox' \in {dbInbox, Append(dbInbox, TxnMsg(c))} /\ UNCHANGED <<dbQueue, dbWorker, disk>>
    BY <1>0, <2>1, <2>2, AppendIsConcat DEF transaction, Send
  <2> QED
    BY <1>1, <1>2, <1>3, <2>3, <2>4, OrderQuiet DEF setup, expireCache
<1>4. CASE stopLogDb
  <2>1. Send(<<ExitMsg>>) /\ EmKeeps /\ UNCHANGED <<dbQueue, dbWorker, disk>>
    BY <1>1, <1>4 DEF stopLogDb, EmKeeps
  <2>2. Events(dbInbox') = Events(dbInbox) /\ InOrder(dbInbox')
    <3>1. CASE ~DbAlive
      BY <1>1, <2>1, <3>1 DEF Send
    <3>2. CASE DbAlive
      <4> DEFINE m == ExitMsg
      <4>1. m \in DbMsgs /\ ~IsEvent(m)
        BY DbMessages DEF ExitMsg, IsEvent
      <4>2. dbInbox' = Append(dbInbox, m)
        BY <1>0, <2>1, <3>2, <4>1, AppendIsConcat DEF Send
      <4> HIDE DEF m
      <4>3. /\ Events(Append(dbInbox, m)) = Events(dbInbox) \cup (IF IsEvent(m) THEN {m.event} ELSE {})
            /\ InOrder(dbInbox) /\ (IsEvent(m) => Ahead(Events(dbInbox), {m.event})) =>
                 InOrder(Append(dbInbox, m))
        BY <1>0, <4>1, AppendFacts
      <4> QED
        BY <1>1, <4>1, <4>2, <4>3
    <3> QED
      BY <3>1, <3>2
  <2> QED
    BY <2>1, <2>2, OrderQuiet
<1>5. CASE UNCHANGED <<dbVars, emVars>>
  BY <1>1, <1>2, <1>5, OrderQuiet DEF dbVars
<1>6. ASSUME NEW what \in {"set-log-handler", "flush-buffer", "unregister", "parent-EXIT"},
             CallEm(what)
      PROVE  OrderInv'
  <2>1. Asks(what) \in EmMsgs /\ ~IsEvent(Asks(what))
    BY EmMessages DEF Asks, IsEvent
  <2>2. Events(Append(emInbox, Asks(what))) = Events(emInbox) /\ InOrder(Append(emInbox, Asks(what)))
    BY <1>0, <1>1, <2>1, EmQuiet
  <2>3. EmKeeps /\ UNCHANGED dbVars
    BY <1>6, <2>2 DEF CallEm, EmKeeps
  <2> QED
    BY <1>1, <2>3, OrderQuiet DEF dbVars
<1>7. CASE Answered(FALSE)
  BY <1>1, <1>7, OrderQuiet DEF Answered, EmKeeps, dbVars
<1> QED
  BY <1>3, <1>4, <1>5, <1>6, <1>7 DEF appProcess, shutdown, setupFails, setLogHandler, flushBuffer, up,
     stopSentry, stopEventMgr

(* A manager that is killed has no events any more. *)
LEMMA OrderKilled ==
  ASSUME OrderInv, emKilled
  PROVE  OrderInv'
<1>1. /\ emInbox' = <<>> /\ pending' = <<>> /\ event_buffer' = <<>>
      /\ UNCHANGED <<dbInbox, dbQueue, dbWorker, disk, events>>
  BY DEF emKilled, dbVars
<1>2. Undone' = Undone
  BY <1>1 DEF Undone
<1> DEFINE D == Events(disk)
           U == Events(Undone)
           Q == Events(dbQueue)
           I == Events(dbInbox)
           P == ToSet(pending)
           B == ToSet(event_buffer)
           E == Events(emInbox)
           N == {events + 1}
<1>3. Stages(D, U, Q, I, P, B, E, N)
  BY DEF OrderInv
<1>4. Stages(D, U, Q, I, {}, {}, {}, N)
  <2> HIDE DEF D, U, Q, I, P, B, E, N
  <2> QED
    BY <1>3 DEF Stages, Ahead
<1> QED
  BY <1>1, <1>2, <1>4, EmptyFacts DEF OrderInv

(* Every step keeps the order. *)
LEMMA OrderStep ==
  ASSUME Base, OrderInv, [Next]_vars
  PROVE  OrderInv'
<1>0. DbTypeOK /\ WorkerInv /\ EmTypeOK /\ InOrder(emInbox) /\ InOrder(dbInbox)
  BY DEF Base, TypeOK, OrderInv
<1>1. CASE dbProcess \/ dbKilled
  <2>1. EmKeeps
    BY <1>0, <1>1, LinkedQuiet DEF dbProcess, dbKilled, EmKeeps
  <2> QED
    BY <1>0, <1>1, <2>1, OrderLoop, OrderEnd DEF dbProcess, dbKilled
<1>2. CASE workerProcess
  <2>1. EmKeeps
    BY <1>0, <1>2 DEF workerProcess, emVars, EmKeeps
  <2> QED
    BY <1>0, <1>2, <2>1, OrderWork DEF workerProcess
<1>3. CASE UNCHANGED vars
  <2>1. EmKeeps /\ UNCHANGED dbVars
    BY <1>0, <1>3 DEF vars, emVars, EmKeeps
  <2> QED
    BY <1>0, <2>1, OrderQuiet DEF dbVars
<1> QED
  BY <1>1, <1>2, <1>3, OrderEm, OrderSender, OrderApp, OrderKilled DEF Next

(* At first there are no events. *)
LEMMA OrderInit ==
  ASSUME Init
  PROVE  OrderInv
<1>1. /\ dbInbox = <<>> /\ dbQueue = <<>> /\ disk = <<>> /\ dbWorker = None
      /\ emInbox = <<>> /\ pending = <<>> /\ event_buffer = <<>>
  BY DEF Init, DbInit, EmInit
<1>2. Undone = <<>>
  BY <1>1 DEF Undone
<1>3. Stages({}, {}, {}, {}, {}, {}, {}, {events + 1})
  BY DEF Stages, Ahead
<1> QED
  BY <1>1, <1>2, <1>3, EmptyFacts DEF OrderInv

(* The database holds the events in the order in which they were sent, each  *)
(* at most once, for any number of events, any commit limit and any clients: *)
(* through the buffer of the manager, its flush, batches, workers that fail  *)
(* or are killed, and the flush of the queue.                                *)
THEOREM AlwaysLoggedInOrder == Spec => []LoggedInOrder
<1>1. Init => Base /\ OrderInv
  BY BaseInit, OrderInit
<1>2. Base /\ OrderInv /\ [Next]_vars => (Base /\ OrderInv)'
  BY BaseStep, OrderStep
<1>3. OrderInv => LoggedInOrder
  BY DEF OrderInv, LoggedInOrder
<1> QED
  BY <1>1, <1>2, <1>3, PTL DEF Spec

-----------------------------------------------------------------------------
(* Messages behind others *)

(* Two sequences, one behind the other: the types of their messages, the     *)
(* requests, and the events behind a message of a type.                      *)
LEMMA HasConcat ==
  ASSUME NEW M, NEW s \in Seq(M), NEW t \in Seq(M)
  PROVE  /\ \A k : Has(s \o t, k) <=> Has(s, k) \/ Has(t, k)
         /\ OneRequest(s) /\ (\A i \in DOMAIN t : ~IsRequest(t[i])) => OneRequest(s \o t)
         /\ OneRequest(t) /\ (\A i \in DOMAIN s : ~IsRequest(s[i])) => OneRequest(s \o t)
         /\ \A k, S : Behind(s, k, S) /\ Behind(t, k, S) /\ (Has(s, k) => Events(t) \subseteq S)
                        => Behind(s \o t, k, S)
<1> DEFINE r == s \o t
<1>1. /\ DOMAIN r = 1..(Len(s) + Len(t)) /\ Len(s) \in Nat /\ Len(t) \in Nat
      /\ DOMAIN s = 1..Len(s) /\ DOMAIN t = 1..Len(t)
      /\ \A i \in 1..Len(s) : r[i] = s[i]
      /\ \A i \in 1..Len(t) : r[i + Len(s)] = t[i]
      /\ \A i \in 1..(Len(s) + Len(t)) : i > Len(s) => i - Len(s) \in 1..Len(t)
                                             /\ r[i] = t[i - Len(s)]
  BY ConcatIndices
<1> HIDE DEF r
<1>2. \A i \in DOMAIN r : (i \in DOMAIN s /\ r[i] = s[i])
                       \/ (i - Len(s) \in DOMAIN t /\ r[i] = t[i - Len(s)] /\ i > Len(s))
  BY <1>1
<1>3. \A i \in DOMAIN t : i + Len(s) \in DOMAIN r /\ r[i + Len(s)] = t[i]
  BY <1>1
<1>4. \A i \in DOMAIN s : i \in DOMAIN r /\ r[i] = s[i]
  BY <1>1
<1>5. ASSUME NEW k PROVE Has(r, k) <=> Has(s, k) \/ Has(t, k)
  BY <1>2, <1>3, <1>4 DEF Has
<1>6. ASSUME OneRequest(s), \A i \in DOMAIN t : ~IsRequest(t[i]) PROVE OneRequest(r)
  BY <1>2, <1>6 DEF OneRequest
<1>7. ASSUME OneRequest(t), \A i \in DOMAIN s : ~IsRequest(s[i]),
             NEW i \in DOMAIN r, NEW j \in DOMAIN r, IsRequest(r[i]), IsRequest(r[j])
      PROVE  i = j
  <2>1. /\ i - Len(s) \in DOMAIN t /\ r[i] = t[i - Len(s)]
        /\ j - Len(s) \in DOMAIN t /\ r[j] = t[j - Len(s)]
    BY <1>2, <1>7
  <2>2. i - Len(s) = j - Len(s)
    BY <1>7, <2>1 DEF OneRequest
  <2> QED
    BY <1>1, <2>2
<1>8. ASSUME NEW k, NEW S, Behind(s, k, S), Behind(t, k, S), Has(s, k) => Events(t) \subseteq S,
             NEW i \in DOMAIN r, NEW j \in DOMAIN r, i < j, r[i].type = k, IsEvent(r[j])
      PROVE  r[j].event \in S
  <2>1. CASE j \in DOMAIN s
    <3>1. i \in DOMAIN s
      BY <1>1, <1>8, <2>1
    <3> QED
      BY <1>4, <1>8, <2>1, <3>1 DEF Behind
  <2>2. CASE i > Len(s)
    <3> DEFINE a == i - Len(s)
               b == j - Len(s)
    <3>1. a \in DOMAIN t /\ b \in DOMAIN t /\ r[i] = t[a] /\ r[j] = t[b] /\ a < b
      BY <2>2, <1>1, <1>8
    <3> HIDE DEF a, b
    <3> QED
      BY <3>1, <1>8 DEF Behind
  <2>3. CASE i \in DOMAIN s /\ j > Len(s)
    <3>1. Has(s, k)
      BY <1>4, <1>8, <2>3 DEF Has
    <3>2. j - Len(s) \in DOMAIN t /\ r[j] = t[j - Len(s)]
      BY <2>3, <1>1
    <3>3. r[j].event \in Events(t)
      BY <1>8, <3>2, MemberOf
    <3> QED
      BY <1>8, <3>1, <3>3
  <2> QED
    BY <2>1, <2>2, <2>3, <1>1
<1>9. OneRequest(t) /\ (\A i \in DOMAIN s : ~IsRequest(s[i])) => OneRequest(r)
  BY <1>7 DEF OneRequest
<1>10. \A k, S : Behind(s, k, S) /\ Behind(t, k, S) /\ (Has(s, k) => Events(t) \subseteq S)
                   => Behind(r, k, S)
  BY <1>8 DEF Behind
<1> QED
  BY <1>5, <1>6, <1>9, <1>10 DEF r

(* One message. *)
LEMMA HasOne ==
  ASSUME NEW M, NEW x \in M
  PROVE  /\ <<x>> \in Seq(M) /\ (\A k : Has(<<x>>, k) <=> x.type = k)
         /\ OneRequest(<<x>>) /\ \A k, S : Behind(<<x>>, k, S)
         /\ (\E i \in DOMAIN <<x>> : IsRequest(<<x>>[i])) <=> IsRequest(x)
         /\ Events(<<x>>) = IF IsEvent(x) THEN {x.event} ELSE {}
<1> DEFINE t == <<x>>
<1>1. t \in Seq(M) /\ DOMAIN t = {1} /\ t[1] = x
  OBVIOUS
<1> HIDE DEF t
<1>2. /\ \A k : Has(t, k) <=> x.type = k
      /\ OneRequest(t) /\ \A k, S : Behind(t, k, S)
      /\ (\E i \in DOMAIN t : IsRequest(t[i])) <=> IsRequest(x)
      /\ Events(t) = IF IsEvent(x) THEN {x.event} ELSE {}
  BY <1>1 DEF Has, OneRequest, Behind, Events
<1> QED
  BY <1>1, <1>2 DEF t

(* A message at the end. *)
LEMMA HasAppend ==
  ASSUME NEW M, NEW s \in Seq(M), NEW x \in M
  PROVE  /\ Append(s, x) \in Seq(M)
         /\ \A k : Has(Append(s, x), k) <=> Has(s, k) \/ x.type = k
         /\ OneRequest(s) /\ ~IsRequest(x) => OneRequest(Append(s, x))
         /\ (\A i \in DOMAIN s : ~IsRequest(s[i])) => OneRequest(Append(s, x))
         /\ \A k, S : Behind(s, k, S) /\ (Has(s, k) /\ IsEvent(x) => x.event \in S)
                        => Behind(Append(s, x), k, S)
<1> DEFINE t == <<x>>
<1>1. /\ t \in Seq(M) /\ (\A k : Has(t, k) <=> x.type = k)
      /\ OneRequest(t) /\ \A k, S : Behind(t, k, S)
      /\ (\E i \in DOMAIN t : IsRequest(t[i])) <=> IsRequest(x)
      /\ Events(t) = IF IsEvent(x) THEN {x.event} ELSE {}
  BY HasOne
<1>2. Append(s, x) = s \o t /\ Append(s, x) \in Seq(M)
  BY AppendIsConcat
<1> HIDE DEF t
<1>3. /\ \A k : Has(s \o t, k) <=> Has(s, k) \/ Has(t, k)
      /\ OneRequest(s) /\ (\A i \in DOMAIN t : ~IsRequest(t[i])) => OneRequest(s \o t)
      /\ OneRequest(t) /\ (\A i \in DOMAIN s : ~IsRequest(s[i])) => OneRequest(s \o t)
  BY <1>1, HasConcat
<1>4. ASSUME NEW k, NEW S, Behind(s, k, S), Has(s, k) /\ IsEvent(x) => x.event \in S
      PROVE  Behind(s \o t, k, S)
  <2>1. Behind(t, k, S) /\ (Has(s, k) => Events(t) \subseteq S)
    BY <1>1, <1>4
  <2> QED
    BY <1>1, <1>4, <2>1, HasConcat
<1> QED
  BY <1>1, <1>2, <1>3, <1>4

(* The first message is taken. *)
LEMMA HasTail ==
  ASSUME NEW M, NEW s \in Seq(M), s # <<>>
  PROVE  /\ \A k : Has(Tail(s), k) => Has(s, k)
         /\ Has(s, Head(s).type)
         /\ OneRequest(s) => OneRequest(Tail(s))
         /\ OneRequest(s) /\ IsRequest(Head(s)) => \A i \in DOMAIN Tail(s) : ~IsRequest(Tail(s)[i])
         /\ \A k, S : Behind(s, k, S) => Behind(Tail(s), k, S)
         /\ \A k, S : Behind(s, k, S) /\ Head(s).type = k => Events(Tail(s)) \subseteq S
<1> DEFINE t == Tail(s)
<1>1. /\ Head(s) = s[1] /\ 1 \in DOMAIN s
      /\ DOMAIN t = 1..(Len(s) - 1) /\ DOMAIN s = 1..Len(s) /\ Len(s) \in Nat \ {0}
      /\ \A i \in DOMAIN t : i + 1 \in DOMAIN s /\ t[i] = s[i + 1]
  BY TailFacts
<1> HIDE DEF t
<1>2. \A i \in DOMAIN t : i \in Nat /\ 1 < i + 1 /\ i + 1 \in DOMAIN s /\ t[i] = s[i + 1]
  BY <1>1
<1>3. (\A k : Has(t, k) => Has(s, k)) /\ Has(s, Head(s).type)
  BY <1>1 DEF Has
<1>4. OneRequest(s) => OneRequest(t)
  BY <1>2 DEF OneRequest
<1>5. ASSUME OneRequest(s), IsRequest(Head(s)), NEW i \in DOMAIN t, IsRequest(t[i]) PROVE FALSE
  BY <1>1, <1>2, <1>5 DEF OneRequest
<1>6. ASSUME NEW k, NEW S, Behind(s, k, S), NEW i \in DOMAIN t, NEW j \in DOMAIN t,
             i < j, t[i].type = k, IsEvent(t[j])
      PROVE  t[j].event \in S
  <2>1. i + 1 < j + 1
    BY <1>2, <1>6
  <2> QED
    BY <1>2, <1>6, <2>1 DEF Behind
<1>7. ASSUME NEW k, NEW S, Behind(s, k, S), Head(s).type = k, NEW e \in Events(t) PROVE e \in S
  <2>1. PICK j \in DOMAIN t : IsEvent(t[j]) /\ t[j].event = e
    BY MemberOf
  <2> QED
    BY <1>1, <1>2, <1>7, <2>1 DEF Behind
<1>8. \A k, S : Behind(s, k, S) => Behind(t, k, S)
  BY <1>6 DEF Behind
<1>9. \A k, S : Behind(s, k, S) /\ Head(s).type = k => Events(t) \subseteq S
  BY <1>7
<1> QED
  BY <1>3, <1>4, <1>5, <1>8, <1>9 DEF t

(* A DOWN message is taken out. *)
LEMMA HasRemove ==
  ASSUME NEW M, NEW s \in Seq(M), NEW k \in DOMAIN s, s[k].type = "DOWN"
  PROVE  /\ \A type : Has(RemoveAt(s, k), type) => Has(s, type)
         /\ \A type, S : Behind(s, type, S) => Behind(RemoveAt(s, k), type, S)
<1> DEFINE r == RemoveAt(s, k)
<1>1. PICK f \in [DOMAIN r -> DOMAIN s \ {k}] :
        /\ \A i \in DOMAIN r : r[i] = s[f[i]]
        /\ \A i, j \in DOMAIN r : i < j => f[i] < f[j]
  BY RemoveFacts
<1> HIDE DEF r
<1>2. \A i \in DOMAIN r : f[i] \in DOMAIN s /\ r[i] = s[f[i]]
  BY <1>1
<1>3. /\ \A type : Has(r, type) => Has(s, type)
      /\ \A type, S : Behind(s, type, S) => Behind(r, type, S)
  BY <1>1, <1>2 DEF Has, Behind
<1> QED
  BY <1>3 DEF r

(* More is late. *)
LEMMA BehindMore ==
  ASSUME NEW s, NEW k, NEW S, NEW T, Behind(s, k, S), S \subseteq T
  PROVE  Behind(s, k, T)
BY DEF Behind

(* Nothing is behind another in an empty inbox. *)
LEMMA HasNone ==
  /\ \A k : ~Has(<<>>, k)
  /\ OneRequest(<<>>) /\ \A k, S : Behind(<<>>, k, S)
BY DEF Has, OneRequest, Behind

-----------------------------------------------------------------------------
(* Faults *)

(* A worker ends with another reason than normal only with a fault. *)
LEMMA FaultStep ==
  ASSUME Base, FaultInv, [Next]_vars
  PROVE  FaultInv'
<1>0. /\ DbTypeOK /\ WorkerInv /\ EmTypeOK /\ dbInbox \in Seq(DbMsgs)
  BY DEF Base, TypeOK, DbTypeOK
<1>1. /\ Downs = DownsIn(dbInbox) /\ Downs' = DownsIn(dbInbox')
      /\ \A i, j \in DownsIn(dbInbox) : i = j
  BY <1>0 DEF Downs, DownsIn, WorkerInv, OneDown
<1>2. ASSUME dbInbox # <<>>, dbInbox' = Tail(dbInbox), fault' = fault
      PROVE  \A i \in Downs' : dbInbox'[i].reason # "normal" => fault'
  <2>1. \A i \in DownsIn(dbInbox') : i + 1 \in DownsIn(dbInbox) /\ dbInbox'[i] = dbInbox[i + 1]
    BY <1>0, <1>1, <1>2, DownsTail
  <2> QED
    BY <1>1, <1>2, <2>1 DEF FaultInv
<1>3. CASE dbLoop
  <2>1. dbState' \in {"loop", "flush"} /\ fault' = fault
    BY <1>0, <1>3, LoopFacts
  <2>2. \A i \in Downs' : dbInbox'[i].reason # "normal" => fault'
    <3>1. CASE dbInbox' = dbInbox
      BY <1>1, <2>1, <3>1 DEF FaultInv
    <3>2. CASE dbInbox # <<>> /\ dbInbox' = Tail(dbInbox)
      BY <1>2, <2>1, <3>2
    <3> QED
      BY <1>0, <1>3, <3>1, <3>2, LoopFacts
  <2>3. dbState' = "flush" /\ dbWorker' = None => dbQueue' = <<>>
    BY <1>0, <1>3, LoopFacts
  <2> QED
    BY <2>1, <2>2, <2>3 DEF FaultInv
<1>4. CASE terminate \/ kill_server
  <2>1. CASE fault' = TRUE
    <3>1. dbState' = "flush" /\ dbWorker' = None => dbQueue' = <<>>
      BY <1>0, <1>4, EndFacts
    <3> QED
      BY <2>1, <3>1 DEF FaultInv
  <2>2. CASE /\ dbState' \in {"closed", "killed"} /\ dbInbox' = <<>>
             /\ \/ fault' = TRUE
                \/ fault' = fault /\ dbState = "flush" /\ dbWorker = None
                \/ fault' = fault /\ Downs # {} /\ dbState \in {"stop-worker", "shutdown", "kill"}
                \/ fault' = fault /\ \E i \in Downs : dbInbox[i].reason # "normal"
    <3>1. DownsIn(dbInbox') = {}
      BY <2>2 DEF DownsIn
    <3>2. dbState' = "closed" \/ fault'
      BY <1>4, <2>2 DEF terminate, kill_server, flush_done, flush_next, worker_down, Close, stop_worker,
         StopWorker
    <3> QED
      BY <1>1, <2>2, <3>1, <3>2 DEF FaultInv
  <2>3. CASE /\ dbState' = "flush" /\ (dbWorker' = None => dbQueue' = <<>>)
             /\ \E i \in Downs : dbInbox' = RemoveAt(dbInbox, i)
    <3>1. DownsIn(dbInbox') = {}
      BY <1>0, <1>1, <2>3, DownsRemove
    <3> QED
      BY <1>1, <2>3, <3>1 DEF FaultInv
  <2> QED
    BY <1>0, <1>4, <2>1, <2>2, <2>3, EndFacts
<1>5. CASE dbWork
  <2>1. dbWorker' # None /\ dbState' = dbState
    BY <1>0, <1>5, WorkFacts
  <2>2. CASE dbInbox' = dbInbox /\ fault' = fault
    BY <1>1, <2>1, <2>2 DEF FaultInv
  <2>3. CASE \E x \in {"normal", "error"} :
               /\ dbInbox' = IF DbAlive THEN Append(dbInbox, DownMsg(x)) ELSE dbInbox
               /\ fault' = (fault \/ x # "normal")
    <3>1. PICK x \in {"normal", "error"} :
               /\ dbInbox' = IF DbAlive THEN Append(dbInbox, DownMsg(x)) ELSE dbInbox
               /\ fault' = (fault \/ x # "normal")
      BY <2>3
    <3>2. fault => fault'
      BY <3>1
    <3>3. \A i \in DownsIn(dbInbox') : dbInbox'[i].reason # "normal" => fault'
      <4>1. CASE ~DbAlive
        BY <1>1, <3>1, <3>2, <4>1 DEF FaultInv
      <4>2. CASE DbAlive
        <5> DEFINE m == DownMsg(x)
        <5>1. m \in DbMsgs /\ IsDown(m) /\ m.reason = x /\ dbInbox' = Append(dbInbox, m)
          BY <3>1, <4>2, DbMessages DEF DownMsg, IsDown
        <5> HIDE DEF m
        <5>0. dbInbox \in Seq(DbMsgs) /\ m \in DbMsgs
          BY <1>0, <5>1
        <5>2. DownsIn(Append(dbInbox, m)) = DownsIn(dbInbox) \cup {Len(dbInbox) + 1}
          BY <5>0, <5>1, DownsAppend
        <5>3. \A i \in DownsIn(dbInbox) : Append(dbInbox, m)[i] = dbInbox[i]
          BY <5>0 DEF DownsIn
        <5>4. Append(dbInbox, m)[Len(dbInbox) + 1] = m
          BY <5>0
        <5> QED
          BY <1>1, <3>1, <3>2, <4>2, <5>1, <5>2, <5>3, <5>4 DEF FaultInv
      <4> QED
        BY <4>1, <4>2
    <3> QED
      BY <1>1, <2>1, <3>2, <3>3 DEF FaultInv
  <2> QED
    BY <1>0, <1>5, <2>2, <2>3, WorkFacts
<1>6. ASSUME UNCHANGED <<dbState, dbQueue, dbWorker, fault>>, NEW msgs \in Seq(DbMsgs), Send(msgs),
             \A i \in DOMAIN msgs : ~IsDown(msgs[i])
      PROVE  FaultInv'
  <2>1. Downs' = Downs /\ \A i \in Downs : dbInbox'[i] = dbInbox[i]
    BY <1>0, <1>6, SendFacts
  <2> QED
    BY <1>6, <2>1 DEF FaultInv
<1>7. CASE UNCHANGED <<dbState, dbQueue, dbWorker, fault, dbInbox>>
  BY <1>1, <1>7 DEF FaultInv
<1>8. CASE emProcess
  <2>1. UNCHANGED <<dbState, dbQueue, dbWorker, fault>>
    BY <1>8 DEF emProcess
  <2>2. ASSUME NEW e \in Nat, NEW msgs \in {<<>>, <<LogMsg(e)>>, <<ExitMsg>>, <<LogMsg(e), ExitMsg>>},
               Send(msgs)
        PROVE  FaultInv'
    <3>1. msgs \in Seq(DbMsgs) /\ \A i \in DOMAIN msgs : ~IsDown(msgs[i])
      BY LogMessages
    <3> QED
      BY <1>6, <2>1, <2>2, <3>1
  <2> QED
    BY <1>7, <1>8, <2>1, <2>2, EmSends
<1>9. CASE appProcess \/ shutdown
  <2>1. CASE setup \/ expireCache
    <3>1. PICK c \in {"setup", "expire"} : transaction(c)
      BY <2>1 DEF setup, expireCache
    <3> DEFINE msgs == <<TxnMsg(c)>>
    <3>2. msgs \in Seq(DbMsgs) /\ \A i \in DOMAIN msgs : ~IsDown(msgs[i])
      BY LoggingAssumption, DbMessages DEF TxnMsg, IsDown
    <3>3. Send(msgs) /\ UNCHANGED <<dbState, dbQueue, dbWorker, fault>>
      BY <3>1 DEF transaction
    <3> HIDE DEF msgs
    <3> QED
      BY <1>6, <3>2, <3>3
  <2>2. CASE stopLogDb
    <3> DEFINE msgs == <<ExitMsg>>
    <3>1. msgs \in Seq(DbMsgs) /\ \A i \in DOMAIN msgs : ~IsDown(msgs[i])
      BY DbMessages DEF ExitMsg, IsDown
    <3>2. Send(msgs) /\ UNCHANGED <<dbState, dbQueue, dbWorker, fault>>
      BY <2>2 DEF stopLogDb
    <3> HIDE DEF msgs
    <3> QED
      BY <1>6, <3>1, <3>2
  <2> QED
    BY <1>7, <1>9, <2>1, <2>2 DEF appProcess, shutdown, setupFails, setLogHandler, flushBuffer, up,
       stopSentry, stopEventMgr, CallEm, Answered, dbVars
<1> QED
  BY <1>3, <1>4, <1>5, <1>7, <1>8, <1>9 DEF Next, dbProcess, dbKilled, workerProcess, others, sender,
     emKilled, vars, dbVars

-----------------------------------------------------------------------------
(* The requests of the application *)

(* The last request has been taken, or there is none. *)
LEMMA NoRequest ==
  ASSUME NEW s, \A i \in DOMAIN s : ~IsRequest(s[i])
  PROVE  OneRequest(s) /\ \A k \in Requests : ~Has(s, k)
BY DEF OneRequest, Has, IsRequest

(* A step without a new request. *)
LEMMA CallQuiet ==
  ASSUME CallInv, app # "event-mgr" => OneRequest(emInbox'),
         \A k \in Requests : Has(emInbox', k) => Has(emInbox, k),
         UNCHANGED <<app, replied, pending>>, log_handler' => log_handler,
         emState' = "ended" => app = "event-mgr", DbAlive' => DbAlive
  PROVE  CallInv'
<1>1. /\ "set-log-handler" \in Requests /\ "flush-buffer" \in Requests
      /\ "unregister" \in Requests /\ "parent-EXIT" \in Requests
  BY DEF Requests
<1> QED
  BY <1>1 DEF CallInv, Closing

(* What is no request changes nothing. *)
LEMMA CallAppend ==
  ASSUME EmTypeOK, CallInv, NEW x \in EmMsgs, ~IsRequest(x),
         emInbox' \in {emInbox, Append(emInbox, x)},
         UNCHANGED <<app, replied, pending, log_handler, emState>>, DbAlive' => DbAlive
  PROVE  CallInv'
<1>0. emInbox \in Seq(EmMsgs)
  BY DEF EmTypeOK
<1>1. /\ \A k : Has(Append(emInbox, x), k) <=> Has(emInbox, k) \/ x.type = k
      /\ OneRequest(emInbox) => OneRequest(Append(emInbox, x))
  BY <1>0, HasAppend
<1>2. /\ app # "event-mgr" => OneRequest(emInbox')
      /\ \A k \in Requests : Has(emInbox', k) => Has(emInbox, k)
  BY <1>1 DEF CallInv, IsRequest
<1>3. emState' = "ended" => app = "event-mgr"
  BY DEF CallInv
<1> QED
  BY <1>2, <1>3, CallQuiet

(* EXIT messages of owners are no requests. *)
LEMMA CallExits ==
  ASSUME NEW s \in Seq(EmMsgs), NEW x \in Seq(ExitMsgs)
  PROVE  /\ OneRequest(s) => OneRequest(s \o x)
         /\ \A k \in Requests : Has(s \o x, k) <=> Has(s, k)
<1>1. x \in Seq(EmMsgs) /\ \A i \in DOMAIN x : ~IsRequest(x[i])
  <2>1. \A m \in ExitMsgs : ~IsRequest(m)
    BY DEF ExitMsgs, IsRequest, Requests
  <2>2. \A i \in DOMAIN x : x[i] \in ExitMsgs
    OBVIOUS
  <2> QED
    BY <2>1, <2>2, EmMessages, SeqMonotonic
<1>2. \A k \in Requests : ~Has(x, k)
  BY <1>1, NoRequest
<1>3. /\ \A k : Has(s \o x, k) <=> Has(s, k) \/ Has(x, k)
      /\ OneRequest(s) /\ (\A i \in DOMAIN x : ~IsRequest(x[i])) => OneRequest(s \o x)
  BY <1>1, HasConcat
<1> QED
  BY <1>1, <1>2, <1>3

(* The first message of the manager is taken. *)
LEMMA CallTail ==
  ASSUME EmTypeOK, CallInv, emInbox # <<>>
  PROVE  /\ Tail(emInbox) \in Seq(EmMsgs) /\ (app # "event-mgr" => OneRequest(Tail(emInbox)))
         /\ \A k \in Requests : Has(Tail(emInbox), k) => Has(emInbox, k)
         /\ Has(emInbox, Head(emInbox).type)
         /\ IsRequest(Head(emInbox)) /\ app # "event-mgr" =>
              \A k \in Requests : ~Has(Tail(emInbox), k)
<1>0. emInbox \in Seq(EmMsgs) /\ (app # "event-mgr" => OneRequest(emInbox))
  BY DEF EmTypeOK, CallInv
<1>1. Tail(emInbox) \in Seq(EmMsgs)
  BY <1>0, TailFacts
<1>2. /\ \A k : Has(Tail(emInbox), k) => Has(emInbox, k)
      /\ Has(emInbox, Head(emInbox).type)
      /\ OneRequest(emInbox) => OneRequest(Tail(emInbox))
      /\ OneRequest(emInbox) /\ IsRequest(Head(emInbox)) =>
           \A i \in DOMAIN Tail(emInbox) : ~IsRequest(Tail(emInbox)[i])
  BY <1>0, HasTail
<1>3. ASSUME IsRequest(Head(emInbox)), app # "event-mgr"
      PROVE  \A k \in Requests : ~Has(Tail(emInbox), k)
  <2>1. \A i \in DOMAIN Tail(emInbox) : ~IsRequest(Tail(emInbox)[i])
    BY <1>0, <1>2, <1>3
  <2> QED
    BY <2>1, NoRequest
<1> QED
  BY <1>0, <1>1, <1>2, <1>3

(* The event manager answers the requests in turn. *)
LEMMA CallManager ==
  ASSUME Base, CallInv, emProcess
  PROVE  CallInv'
<1>0. EmTypeOK /\ DbTypeOK /\ emInbox \in Seq(EmMsgs) /\ app' = app /\ (DbAlive' => DbAlive)
  BY DEF Base, TypeOK, EmTypeOK, emProcess, DbAlive
<1>1. /\ "set-log-handler" \in Requests /\ "flush-buffer" \in Requests
      /\ "unregister" \in Requests /\ "parent-EXIT" \in Requests
      /\ \A k \in Requests : k \in {"set-log-handler", "flush-buffer", "unregister", "parent-EXIT"}
  BY DEF Requests
<1>2. ASSUME NEW e \in Nat, NEW inbox \in Seq(EmMsgs), DoNotify(e, inbox)
      PROVE  /\ OneRequest(inbox) => OneRequest(emInbox')
             /\ \A k \in Requests : Has(emInbox', k) <=> Has(inbox, k)
             /\ log_handler' => log_handler
  <2>1. PICK x \in Seq(ExitMsgs) : emInbox' = inbox \o x
    BY <1>0, <1>2, NotifyFacts
  <2>2. log_handler' => log_handler
    BY <1>0, <1>2, LogHandlerFacts DEF DoNotify
  <2> QED
    BY <2>1, <2>2, CallExits
<1>3. CASE handle_notify
  <2>1. /\ emInbox # <<>> /\ Head(emInbox).type = "notify"
        /\ UNCHANGED <<emState, pending, replied>>
    BY <1>3 DEF handle_notify, EmTakes
  <2>2. /\ Tail(emInbox) \in Seq(EmMsgs) /\ (app # "event-mgr" => OneRequest(Tail(emInbox)))
        /\ \A k \in Requests : Has(Tail(emInbox), k) => Has(emInbox, k)
    BY <1>0, <2>1, CallTail
  <2>3. Head(emInbox).event \in Nat
    BY <1>0, <2>1, EmHead
  <2>4. CASE EmTaken /\ log_handler' = log_handler
    BY <1>0, <2>1, <2>2, <2>4, CallQuiet DEF EmTaken, CallInv
  <2>5. CASE DoNotify(Head(emInbox).event, Tail(emInbox))
    <3>1. /\ app # "event-mgr" => OneRequest(emInbox')
          /\ \A k \in Requests : Has(emInbox', k) => Has(emInbox, k)
          /\ log_handler' => log_handler
      BY <1>2, <2>2, <2>3, <2>5
    <3> QED
      BY <1>0, <2>1, <3>1, CallQuiet DEF CallInv
  <2> QED
    BY <1>3, <2>4, <2>5 DEF handle_notify
<1>4. CASE do_flush_buffer
  <2>1. /\ pending # <<>> /\ DoNotify(Last(pending), emInbox) /\ emState = "up"
        /\ pending' = Front(pending) /\ replied' = (pending' = <<>>)
        /\ UNCHANGED emState
    BY <1>4 DEF do_flush_buffer
  <2>2. Last(pending) \in Nat
    BY <1>0, <2>1, BufferLast DEF EmTypeOK
  <2>3. app = "flush-buffer" /\ \A k \in Requests : ~Has(emInbox, k)
    BY <1>1, <2>1 DEF CallInv, Closing
  <2>4. /\ OneRequest(emInbox') /\ (\A k \in Requests : ~Has(emInbox', k))
        /\ log_handler' => log_handler
    BY <1>0, <1>2, <2>1, <2>2, <2>3 DEF CallInv
  <2> QED
    BY <1>0, <1>1, <2>1, <2>3, <2>4 DEF CallInv
<1>5. CASE flush_buffer
  <2>1. /\ emInbox # <<>> /\ Head(emInbox).type = "flush-buffer" /\ emInbox' = Tail(emInbox)
        /\ pending' = event_buffer /\ replied' = (event_buffer = <<>>) /\ emState = "up"
        /\ UNCHANGED <<emState, log_handler>>
    BY <1>5 DEF flush_buffer, EmTakes, EmTaken
  <2>2. app = "flush-buffer"
    BY <1>0, <2>1, CallTail DEF CallInv
  <2>3. OneRequest(emInbox') /\ \A k \in Requests : ~Has(emInbox', k)
    BY <1>0, <1>1, <2>1, <2>2, CallTail DEF IsRequest
  <2> QED
    BY <1>0, <1>1, <2>1, <2>2, <2>3 DEF CallInv
<1>6. CASE add_handler
  <2> DEFINE p == Head(emInbox).owner
             x == LinkedExit(p, p \in ended)
  <2>1. emInbox # <<>> /\ Head(emInbox).type = "add-handler" /\ emInbox' = Tail(emInbox) \o x
        /\ UNCHANGED <<emState, pending, log_handler, replied>>
    BY <1>6 DEF add_handler, EmTakes
  <2>2. x \in Seq(ExitMsgs)
    <3>1. p \in Owners
      BY <1>0, <2>1, EmHead
    <3>2. <<ExitOf(p)>> \in Seq(ExitMsgs) /\ <<>> \in Seq(ExitMsgs)
      BY <3>1 DEF ExitOf, ExitMsgs
    <3> QED
      BY <3>2 DEF LinkedExit
  <2> HIDE DEF x
  <2>3. /\ Tail(emInbox) \in Seq(EmMsgs) /\ (app # "event-mgr" => OneRequest(Tail(emInbox)))
        /\ \A k \in Requests : Has(Tail(emInbox), k) => Has(emInbox, k)
    BY <1>0, <2>1, CallTail
  <2>4. /\ app # "event-mgr" => OneRequest(emInbox')
        /\ \A k \in Requests : Has(emInbox', k) => Has(emInbox, k)
    BY <2>1, <2>2, <2>3, CallExits
  <2> QED
    BY <1>0, <2>1, <2>4, CallQuiet DEF CallInv
<1>7. CASE set_log_handler
  <2> DEFINE x == LinkedExit("log-db", ~DbAlive)
  <2>1. emInbox # <<>> /\ Head(emInbox).type = "set-log-handler" /\ emInbox' = Tail(emInbox) \o x
        /\ log_handler' = TRUE /\ replied' = TRUE /\ emState = "up"
        /\ UNCHANGED <<emState, pending>>
    BY <1>7 DEF set_log_handler, EmTakes
  <2>2. x \in Seq(ExitMsgs)
    <3>1. <<ExitOf("log-db")>> \in Seq(ExitMsgs) /\ <<>> \in Seq(ExitMsgs)
      BY DEF ExitOf, ExitMsgs
    <3> QED
      BY <3>1 DEF LinkedExit
  <2> HIDE DEF x
  <2>3. app = "set-log-handler"
    BY <1>0, <2>1, CallTail DEF CallInv
  <2>4. /\ Tail(emInbox) \in Seq(EmMsgs) /\ OneRequest(Tail(emInbox))
        /\ \A k \in Requests : ~Has(Tail(emInbox), k)
    BY <1>0, <1>1, <2>1, <2>3, CallTail DEF IsRequest
  <2>5. OneRequest(emInbox') /\ \A k \in Requests : ~Has(emInbox', k)
    BY <2>1, <2>2, <2>4, CallExits
  <2> QED
    BY <1>0, <1>1, <2>1, <2>3, <2>5 DEF CallInv
<1>8. CASE unregister
  <2>1. emInbox # <<>> /\ Head(emInbox).type = "unregister" /\ emInbox' = Tail(emInbox)
        /\ replied' = TRUE /\ UNCHANGED <<emState, pending, log_handler>>
    BY <1>8 DEF unregister, EmTakes, EmTaken
  <2>2. Closing /\ pending = <<>>
    BY <1>0, <2>1, CallTail DEF CallInv, Closing
  <2>3. /\ app # "event-mgr" => OneRequest(emInbox') /\ \A k \in Requests : ~Has(emInbox', k)
        /\ \A k \in Requests : Has(emInbox', k) => Has(emInbox, k)
    BY <1>0, <1>1, <2>1, CallTail DEF IsRequest
  <2> QED
    BY <1>0, <1>1, <2>1, <2>2, <2>3 DEF CallInv, Closing
<1>9. CASE owner_exit
  <2>1. emInbox # <<>> /\ emInbox' = Tail(emInbox) /\ (log_handler' => log_handler)
        /\ UNCHANGED <<emState, pending, replied>>
    BY <1>9 DEF owner_exit, EmTakes, EmTaken
  <2>2. /\ app # "event-mgr" => OneRequest(emInbox')
        /\ \A k \in Requests : Has(emInbox', k) => Has(emInbox, k)
    BY <1>0, <2>1, CallTail
  <2> QED
    BY <1>0, <2>1, <2>2, CallQuiet DEF CallInv
<1>10. CASE em_terminate
  <2>1. /\ emInbox # <<>> /\ Head(emInbox).type = "parent-EXIT"
        /\ emInbox' = <<>> /\ UNCHANGED <<pending, log_handler, replied>>
    BY <1>10 DEF em_terminate, EmTakes
  <2>2. app = "event-mgr"
    BY <1>0, <2>1, CallTail DEF CallInv
  <2> QED
    BY <1>0, <2>1, <2>2, CallQuiet, HasNone
<1> QED
  BY <1>3, <1>4, <1>5, <1>6, <1>7, <1>8, <1>9, <1>10 DEF emProcess, emLoop

(* The application makes a request only after the answer to the last one,    *)
(* but for the EXIT of the manager.                                          *)
LEMMA CallApp ==
  ASSUME Base, CallInv, appProcess \/ shutdown
  PROVE  CallInv'
<1>0. /\ EmTypeOK /\ emInbox \in Seq(EmMsgs)
      /\ app \in {"start", "setup", "set-log-handler", "flush-buffer", "expire", "up", "stop",
                  "sentry", "log-db", "event-mgr"}
  BY DEF Base, TypeOK, EmTypeOK
<1>a. DbAlive' = DbAlive
  BY DEF appProcess, shutdown, setup, setupFails, setLogHandler, flushBuffer, expireCache, up,
     stopSentry, stopLogDb, stopEventMgr, transaction, CallEm, Answered, dbVars, DbAlive
<1>1. /\ "set-log-handler" \in Requests /\ "flush-buffer" \in Requests
      /\ "unregister" \in Requests /\ "parent-EXIT" \in Requests
      /\ \A k \in Requests : k \in {"set-log-handler", "flush-buffer", "unregister", "parent-EXIT"}
  BY DEF Requests
<1>2. ASSUME NEW what \in Requests, CallEm(what), \A k \in Requests : ~Has(emInbox, k)
      PROVE  /\ OneRequest(emInbox') /\ \A k \in Requests : Has(emInbox', k) <=> k = what
             /\ UNCHANGED <<emState, pending, log_handler>> /\ replied' = FALSE
  <2> DEFINE m == Asks(what)
  <2>1. /\ emInbox' = Append(emInbox, m) /\ replied' = FALSE
        /\ UNCHANGED <<emState, pending, log_handler>>
    BY <1>2 DEF CallEm
  <2>2. m \in EmMsgs /\ m.type = what
    BY <1>1, EmMessages DEF Asks
  <2> HIDE DEF m
  <2>3. \A i \in DOMAIN emInbox : ~IsRequest(emInbox[i])
    BY <1>2 DEF Has, IsRequest
  <2>4. /\ \A k : Has(Append(emInbox, m), k) <=> Has(emInbox, k) \/ m.type = k
        /\ OneRequest(Append(emInbox, m))
    BY <1>0, <2>2, <2>3, HasAppend
  <2> QED
    BY <1>2, <2>1, <2>2, <2>4
<1>3. CASE setLogHandler
  <2>1. app = "setup" /\ app' = "set-log-handler" /\ CallEm("set-log-handler")
    BY <1>3 DEF setLogHandler, App
  <2>2. (\A k \in Requests : ~Has(emInbox, k)) /\ pending = <<>> /\ ~log_handler
    BY <1>1, <2>1 DEF CallInv, Closing
  <2> QED
    BY <1>1, <1>2, <1>a, <2>1, <2>2 DEF CallInv, Closing
<1>4. CASE flushBuffer
  <2>1. app = "set-log-handler" /\ app' = "flush-buffer" /\ replied /\ CallEm("flush-buffer")
    BY <1>4 DEF flushBuffer, App
  <2>2. (\A k \in Requests : ~Has(emInbox, k)) /\ pending = <<>>
    BY <1>1, <2>1 DEF CallInv, Closing
  <2> QED
    BY <1>1, <1>2, <1>a, <2>1, <2>2 DEF CallInv, Closing
<1>5. CASE stopSentry
  <2>1. app = "stop" /\ app' = "sentry"
    BY <1>5 DEF stopSentry, App
  <2>2. (\A k \in Requests : ~Has(emInbox, k)) /\ pending = <<>>
    BY <1>1, <2>1 DEF CallInv, Closing
  <2>3. CASE CallEm("unregister")
    BY <1>1, <1>2, <1>a, <2>1, <2>2, <2>3 DEF CallInv, Closing
  <2>4. CASE Answered(FALSE)
    BY <1>1, <1>a, <2>1, <2>2, <2>4 DEF CallInv, Closing, Answered
  <2> QED
    BY <1>5, <2>3, <2>4 DEF stopSentry
<1>6. CASE stopEventMgr
  <2> DEFINE m == Asks("parent-EXIT")
  <2>1. /\ app = "log-db" /\ app' = "event-mgr" /\ ~DbAlive
        /\ emInbox' = Append(emInbox, m) /\ replied' = FALSE
        /\ UNCHANGED <<emState, pending, log_handler>>
    BY <1>6 DEF stopEventMgr, App, CallEm
  <2>2. m \in EmMsgs /\ m.type = "parent-EXIT"
    BY EmMessages DEF Asks
  <2> HIDE DEF m
  <2>3. \A k : Has(Append(emInbox, m), k) <=> Has(emInbox, k) \/ m.type = k
    BY <1>0, <2>2, HasAppend
  <2> QED
    BY <1>1, <1>a, <2>1, <2>2, <2>3 DEF CallInv, Closing
<1>7. CASE UNCHANGED <<emState, emInbox, pending, log_handler, replied>>
           /\ \/ app = "start" /\ app' = "setup"
              \/ app \in {"setup", "expire"} /\ app' = "stop"
              \/ app = "flush-buffer" /\ app' = "expire" /\ replied
              \/ app = "expire" /\ app' = "up"
              \/ app = "up" /\ app' = "stop"
              \/ app = "sentry" /\ app' = "log-db"
  BY <1>7, <1>a DEF CallInv, Closing
<1>8. CASE setup \/ expireCache \/ stopLogDb \/ up \/ setupFails \/ shutdown
  BY <1>7, <1>8 DEF setup, expireCache, stopLogDb, up, setupFails, shutdown, App, emVars
<1> QED
  BY <1>3, <1>4, <1>5, <1>6, <1>8 DEF appProcess

(* A server that takes a step is not gone. *)
LEMMA AliveBefore ==
  ASSUME dbLoop \/ terminate \/ kill_server
  PROVE  DbAlive
<1>1. CASE dbLoop
  BY <1>1 DEF dbLoop, handle_transaction, handle_log, handle_timeout, handle_down, handle_exit,
     Takes, DbAlive
<1>2. CASE terminate \/ kill_server
  BY <1>2 DEF terminate, flush_done, flush_next, worker_down, stop_worker, StopWorker, kill_server,
     DbAlive, Terminating
<1> QED
  BY <1>1, <1>2

(* Every step keeps CallInv. *)
LEMMA CallStep ==
  ASSUME Base, CallInv, [Next]_vars
  PROVE  CallInv'
<1>0. EmTypeOK
  BY DEF Base, TypeOK
<1>1. \A o : ~IsRequest(ExitOf(o)) /\ ~IsRequest(AddHandler(o)) /\ ~IsRequest(Notify(o))
  BY DEF ExitOf, AddHandler, Notify, IsRequest, Requests
<1>2. CASE dbProcess \/ dbKilled
  <2>1. ExitOf("log-db") \in EmMsgs
    BY EmMessages
  <2>2. DbAlive
    BY <1>2, AliveBefore DEF dbProcess, dbKilled
  <2> QED
    BY <1>0, <1>1, <1>2, <2>1, <2>2, CallAppend DEF dbProcess, dbKilled, Linked
<1>a. UNCHANGED dbState => DbAlive' = DbAlive
  BY DEF DbAlive
<1>3. CASE UNCHANGED <<app, replied, pending, log_handler, emState, emInbox, dbState>>
  BY <1>3, <1>a DEF CallInv, Closing
<1>4. CASE others
  <2>0. DbAlive' = DbAlive
    BY <1>4 DEF others, dbVars, DbAlive
  <2>1. CASE notify
    BY <1>3, <1>4, <2>1 DEF others, notify, dbVars
  <2>2. CASE \E o \in Owners : addHandler(o) \/ ownerEnds(o)
    <3>1. PICK o \in Owners : addHandler(o) \/ ownerEnds(o)
      BY <2>2
    <3>2. AddHandler(o) \in EmMsgs /\ ExitOf(o) \in EmMsgs /\ app' = app
      BY <1>4, EmMessages DEF others
    <3>3. CASE addHandler(o)
      BY <1>0, <1>1, <2>0, <3>2, <3>3, CallAppend DEF addHandler
    <3>4. CASE ownerEnds(o)
      BY <1>0, <1>1, <2>0, <3>2, <3>4, CallAppend DEF ownerEnds
    <3> QED
      BY <3>1, <3>3, <3>4
  <2> QED
    BY <1>4, <2>1, <2>2 DEF others
<1>5. CASE sender
  <2>1. events' \in Nat
    BY <1>0, <1>5 DEF sender, notifySend, EmTypeOK
  <2>2. Notify(events') \in EmMsgs
    BY <2>1, EmMessages
  <2>3. DbAlive' = DbAlive
    BY <1>5 DEF sender, dbVars, DbAlive
  <2> QED
    BY <1>0, <1>1, <1>5, <2>2, <2>3, CallAppend DEF sender, notifySend
<1>6. CASE emKilled
  <2>1. /\ app = "event-mgr" /\ emInbox' = <<>> /\ pending' = <<>>
        /\ UNCHANGED <<app, replied, log_handler, dbState>>
    BY <1>6 DEF emKilled, dbVars
  <2>2. pending = <<>>
    BY <2>1 DEF CallInv
  <2> QED
    BY <1>a, <2>1, <2>2, CallQuiet, HasNone
<1>7. CASE workerProcess
  BY <1>3, <1>7 DEF workerProcess, dbWork, emVars
<1> QED
  BY <1>2, <1>3, <1>4, <1>5, <1>6, <1>7, CallManager, CallApp DEF Next, vars, emVars, dbVars

-----------------------------------------------------------------------------
(* What is late at the event manager *)

(* An EXIT of an owner is no event. *)
LEMMA LateExits ==
  ASSUME NEW s \in Seq(EmMsgs), NEW x \in Seq(ExitMsgs), NEW k, NEW S, Behind(s, k, S)
  PROVE  Behind(s \o x, k, S)
<1>1. \A i \in DOMAIN x : ~IsEvent(x[i])
  <2>1. \A m \in ExitMsgs : ~IsEvent(m)
    BY DEF ExitMsgs, IsEvent
  <2>2. \A i \in DOMAIN x : x[i] \in ExitMsgs
    OBVIOUS
  <2> QED
    BY <2>1, <2>2
<1>2. x \in Seq(EmMsgs)
  BY EmMessages, SeqMonotonic
<1>3. Behind(x, k, S) /\ Events(x) \subseteq S
  BY <1>1, MemberOf DEF Behind
<1> QED
  BY <1>2, <1>3, HasConcat

(* Something else than an event comes. *)
LEMMA LateAppend ==
  ASSUME EmTypeOK, EmLate, NEW x \in EmMsgs, ~IsEvent(x),
         emInbox' \in {emInbox, Append(emInbox, x)}, late' = late, SentryDone' => SentryDone
  PROVE  EmLate'
<1>0. emInbox \in Seq(EmMsgs)
  BY DEF EmTypeOK
<1>1. Events(Append(emInbox, x)) = Events(emInbox)
  BY <1>0, EmQuiet
<1>2. Behind(emInbox, "unregister", late) => Behind(Append(emInbox, x), "unregister", late)
  BY <1>0, HasAppend
<1> QED
  BY <1>1, <1>2 DEF EmLate

(* A message is taken, and EXIT messages come. *)
LEMMA LateTake ==
  ASSUME EmTypeOK, EmLate, emInbox # <<>>, NEW x \in Seq(ExitMsgs),
         emInbox' \in {Tail(emInbox), Tail(emInbox) \o x}, late' = late, SentryDone' => SentryDone
  PROVE  EmLate'
<1>0. emInbox \in Seq(EmMsgs) /\ Tail(emInbox) \in Seq(EmMsgs)
  BY TailFacts DEF EmTypeOK
<1>1. Events(Tail(emInbox)) \subseteq Events(emInbox)
  BY EmTakeFacts
<1>2. Behind(emInbox, "unregister", late) => Behind(Tail(emInbox), "unregister", late)
  BY <1>0, HasTail
<1>3. Behind(Tail(emInbox), "unregister", late) => Behind(Tail(emInbox) \o x, "unregister", late)
  BY <1>0, LateExits
<1>4. Events(Tail(emInbox) \o x) = Events(Tail(emInbox))
  BY <1>0, ExitsQuiet
<1> QED
  BY <1>1, <1>2, <1>3, <1>4 DEF EmLate

(* The event manager takes what comes in turn. *)
LEMMA LateManager ==
  ASSUME Base, CallInv, EmLate, emProcess
  PROVE  EmLate'
<1>0. /\ EmTypeOK /\ DbTypeOK /\ emInbox \in Seq(EmMsgs) /\ <<>> \in Seq(ExitMsgs) /\ app' = app
  BY DEF Base, TypeOK, EmTypeOK, emProcess
<1>a. replied' = replied => (SentryDone' => SentryDone)
  BY <1>0 DEF SentryDone
<1>b. app \in {"set-log-handler", "flush-buffer"} => ~SentryDone'
  BY <1>0 DEF SentryDone
<1>c. ASSUME emInbox # <<>>, Head(emInbox).type \in {"set-log-handler", "flush-buffer"}
      PROVE  ~SentryDone'
  BY <1>0, <1>b, <1>c, CallTail DEF CallInv
<1>1. CASE handle_notify
  <2>1. /\ emInbox # <<>> /\ Head(emInbox).type = "notify" /\ late' = late
        /\ SentryDone' => SentryDone
    BY <1>1, <1>a DEF handle_notify, EmTakes
  <2>2. CASE EmTaken
    BY <1>0, <2>1, <2>2, LateTake DEF EmTaken
  <2>3. CASE DoNotify(Head(emInbox).event, Tail(emInbox))
    <3>1. Head(emInbox).event \in Nat /\ Tail(emInbox) \in Seq(EmMsgs)
      BY <1>0, <2>1, EmHead
    <3>2. PICK x \in Seq(ExitMsgs) : emInbox' = Tail(emInbox) \o x
      BY <1>0, <2>3, <3>1, NotifyFacts
    <3> QED
      BY <1>0, <2>1, <3>2, LateTake
  <2> QED
    BY <1>1, <2>2, <2>3 DEF handle_notify
<1>2. CASE do_flush_buffer
  <2>1. pending # <<>> /\ DoNotify(Last(pending), emInbox) /\ late' = late /\ ~SentryDone'
    BY <1>2, <1>b DEF do_flush_buffer, CallInv
  <2>2. Last(pending) \in Nat
    BY <1>0, <2>1, BufferLast DEF EmTypeOK
  <2>3. PICK x \in Seq(ExitMsgs) : emInbox' = emInbox \o x
    BY <1>0, <2>1, <2>2, NotifyFacts
  <2>4. Events(emInbox') = Events(emInbox)
    BY <1>0, <2>3, ExitsQuiet
  <2>5. Behind(emInbox', "unregister", late)
    BY <1>0, <2>3, LateExits DEF EmLate
  <2> QED
    BY <2>1, <2>4, <2>5 DEF EmLate
<1>3. CASE flush_buffer \/ owner_exit
  <2>1. /\ emInbox # <<>> /\ emInbox' = Tail(emInbox) /\ late' = late
        /\ SentryDone' => SentryDone
    BY <1>3, <1>a, <1>c DEF flush_buffer, owner_exit, EmTakes, EmTaken
  <2> QED
    BY <1>0, <2>1, LateTake
<1>4. CASE add_handler
  <2> DEFINE p == Head(emInbox).owner
             gone == p \in ended
  <2>1. /\ emInbox # <<>> /\ Head(emInbox).type = "add-handler" /\ late' = late
        /\ SentryDone' => SentryDone
        /\ emInbox' = Tail(emInbox) \o LinkedExit(p, gone)
    BY <1>4, <1>a DEF add_handler, EmTakes
  <2>2. p \in Owners \cup {"log-db"} /\ gone \in BOOLEAN
    BY <1>0, <2>1, EmHead
  <2> HIDE DEF p, gone
  <2> QED
    BY <1>0, <2>1, <2>2, LinkedExits, LateTake
<1>5. CASE set_log_handler
  <2> DEFINE gone == ~DbAlive
  <2>1. /\ emInbox # <<>> /\ late' = late /\ (SentryDone' => SentryDone)
        /\ emInbox' = Tail(emInbox) \o LinkedExit("log-db", gone)
    BY <1>5, <1>c DEF set_log_handler, EmTakes
  <2>2. gone \in BOOLEAN
    OBVIOUS
  <2> HIDE DEF gone
  <2> QED
    BY <1>0, <2>1, <2>2, LinkedExits, LateTake
<1>6. CASE unregister
  <2>1. /\ emInbox # <<>> /\ Head(emInbox).type = "unregister" /\ emInbox' = Tail(emInbox)
        /\ late' = late
    BY <1>6 DEF unregister, EmTakes, EmTaken
  <2>2. Behind(Tail(emInbox), "unregister", late) /\ Events(Tail(emInbox)) \subseteq late
    BY <1>0, <2>1, HasTail DEF EmLate
  <2> QED
    BY <2>1, <2>2 DEF EmLate
<1>7. CASE em_terminate
  <2>1. emInbox' = <<>>
    BY <1>7 DEF em_terminate
  <2> QED
    BY <2>1, HasNone, EmptyFacts DEF EmLate
<1> QED
  BY <1>1, <1>2, <1>3, <1>4, <1>5, <1>6, <1>7 DEF emProcess, emLoop

(* Every step keeps EmLate. *)
LEMMA EmLateStep ==
  ASSUME Base, CallInv, EmLate, [Next]_vars
  PROVE  EmLate'
<1>0. EmTypeOK /\ emInbox \in Seq(EmMsgs)
  BY DEF Base, TypeOK, EmTypeOK
<1>1. /\ \A o : ~IsEvent(ExitOf(o)) /\ ~IsEvent(AddHandler(o))
      /\ \A k \in Requests : ~IsEvent(Asks(k)) /\ Asks(k) \in EmMsgs
  BY EmMessages DEF ExitOf, AddHandler, Asks, IsEvent, Requests
<1>2. CASE dbProcess \/ dbKilled
  <2>1. ExitOf("log-db") \in EmMsgs
    BY EmMessages
  <2>2. SentryDone' = SentryDone
    BY <1>2 DEF dbProcess, dbKilled, SentryDone
  <2> QED
    BY <1>0, <1>1, <1>2, <2>1, <2>2, LateAppend DEF dbProcess, dbKilled, Linked
<1>3. CASE UNCHANGED <<emInbox, late>> /\ (SentryDone' => SentryDone)
  BY <1>3 DEF EmLate
<1>4. CASE others
  <2>0. SentryDone' = SentryDone
    BY <1>4 DEF others, notify, addHandler, ownerEnds, SentryDone
  <2>1. CASE notify
    BY <1>3, <2>0, <2>1 DEF notify
  <2>2. CASE \E o \in Owners : addHandler(o) \/ ownerEnds(o)
    <3>1. PICK o \in Owners : addHandler(o) \/ ownerEnds(o)
      BY <2>2
    <3>2. AddHandler(o) \in EmMsgs /\ ExitOf(o) \in EmMsgs
      BY EmMessages
    <3>3. CASE addHandler(o)
      BY <1>0, <1>1, <2>0, <3>2, <3>3, LateAppend DEF addHandler
    <3>4. CASE ownerEnds(o)
      BY <1>0, <1>1, <2>0, <3>2, <3>4, LateAppend DEF ownerEnds
    <3> QED
      BY <3>1, <3>3, <3>4
  <2> QED
    BY <1>4, <2>1, <2>2 DEF others
<1>5. CASE sender
  <2> DEFINE m == Notify(events')
  <2>1. m \in EmMsgs /\ IsEvent(m) /\ m.event = events' /\ m.type = "notify"
    <3>1. events' \in Nat
      BY <1>0, <1>5 DEF sender, notifySend, EmTypeOK
    <3> QED
      BY <3>1, EmMessages DEF Notify, IsEvent
  <2>2. /\ emInbox' = IF emState = "up" THEN Append(emInbox, m) ELSE emInbox
        /\ late' = IF Closing THEN late \cup {m.event} ELSE late
        /\ UNCHANGED <<app, replied>>
    BY <1>5, <2>1 DEF sender, notifySend
  <2> HIDE DEF m
  <2>3. /\ Has(emInbox, "unregister") => Closing
        /\ SentryDone' = SentryDone /\ (SentryDone => Closing)
    BY <2>2 DEF CallInv, SentryDone, Closing
  <2>4. Behind(emInbox, "unregister", late')
    BY <2>2, BehindMore DEF EmLate
  <2>5. Has(emInbox, "unregister") /\ IsEvent(m) => m.event \in late'
    BY <2>2, <2>3
  <2>6. Behind(Append(emInbox, m), "unregister", late')
    BY <1>0, <2>1, <2>4, <2>5, HasAppend
  <2>7. Events(Append(emInbox, m)) = Events(emInbox) \cup {m.event}
    BY <1>0, <2>1, AppendFacts
  <2> QED
    BY <2>1, <2>2, <2>3, <2>4, <2>6, <2>7 DEF EmLate
<1>6. CASE (appProcess \/ shutdown) /\ ~stopLogDb
  <2>1. SentryDone' => SentryDone
    BY <1>6 DEF appProcess, shutdown, setup, setupFails, setLogHandler, flushBuffer, expireCache, up,
       stopSentry, stopEventMgr, App, CallEm, Answered, SentryDone
  <2>2. CASE \E k \in Requests : CallEm(k)
    BY <1>0, <1>1, <2>1, <2>2, LateAppend DEF CallEm
  <2> QED
    BY <1>3, <1>6, <2>1, <2>2 DEF appProcess, shutdown, setup, setupFails, setLogHandler, flushBuffer,
       expireCache, up, stopSentry, stopEventMgr, Answered, emVars, Requests
<1>7. CASE stopLogDb
  <2>1. /\ app = "sentry" /\ late' = (IF replied THEN late ELSE late \cup Events(emInbox))
        /\ emInbox' = emInbox
    BY <1>7 DEF stopLogDb, App
  <2>2. Behind(emInbox, "unregister", late')
    BY <2>1, BehindMore DEF EmLate
  <2>3. Events(emInbox) \subseteq late'
    BY <2>1 DEF EmLate, SentryDone
  <2> QED
    BY <2>1, <2>2, <2>3 DEF EmLate
<1>8. CASE emKilled
  <2>1. emInbox' = <<>>
    BY <1>8 DEF emKilled
  <2> QED
    BY <2>1, HasNone, EmptyFacts DEF EmLate
<1>9. CASE workerProcess \/ UNCHANGED vars
  <2>1. UNCHANGED <<emInbox, late, app, replied>>
    BY <1>9 DEF workerProcess, vars, emVars
  <2> QED
    BY <1>3, <2>1 DEF SentryDone
<1> QED
  BY <1>2, <1>4, <1>5, <1>6, <1>7, <1>8, <1>9, LateManager DEF Next

-----------------------------------------------------------------------------
(* What is late at the database server *)

(* Nothing makes the log handler or the supervisor go back. *)
LEMMA QuitKept ==
  ASSUME Quit, app' = app, log_handler' => log_handler,
         Has(emInbox', "set-log-handler") => Has(emInbox, "set-log-handler")
  PROVE  Quit'
BY DEF Quit

(* The server hears nothing. *)
LEMMA LateSame ==
  ASSUME DbLate, UNCHANGED <<dbState, dbInbox, fault>>, late \subseteq late',
         ~fault /\ Stopping => Quit'
  PROVE  DbLate'
<1>1. Stopping' = Stopping
  BY DEF Stopping
<1>2. ~fault => Behind(dbInbox, "EXIT", late')
  BY BehindMore DEF DbLate
<1> QED
  BY <1>1, <1>2 DEF DbLate

(* Messages reach the server. *)
LEMMA LateSend ==
  ASSUME DbTypeOK, DbLate, NEW msgs \in Seq(DbMsgs), Send(msgs),
         UNCHANGED <<dbState, fault>>, late \subseteq late',
         Behind(msgs, "EXIT", late'), ~fault /\ Stopping => Events(msgs) \subseteq late',
         ~fault /\ (Stopping \/ Has(msgs, "EXIT")) => Quit'
  PROVE  DbLate'
<1>0. dbInbox \in Seq(DbMsgs)
  BY DEF DbTypeOK
<1>1. CASE ~DbAlive
  BY <1>1, LateSame DEF Send
<1>2. CASE DbAlive
  <2>1. dbInbox' = dbInbox \o msgs
    BY <1>2 DEF Send
  <2>2. Has(dbInbox', "EXIT") <=> Has(dbInbox, "EXIT") \/ Has(msgs, "EXIT")
    BY <1>0, <2>1, HasConcat
  <2>3. Events(dbInbox') = Events(dbInbox) \cup Events(msgs)
    BY <1>0, <2>1, ConcatFacts
  <2>4. ~fault => Behind(dbInbox', "EXIT", late')
    <3>1. SUFFICES ASSUME ~fault PROVE Behind(dbInbox \o msgs, "EXIT", late')
      BY <2>1
    <3>2. Behind(dbInbox, "EXIT", late') /\ (Has(dbInbox, "EXIT") => Events(msgs) \subseteq late')
      BY <3>1, BehindMore DEF DbLate, Stopping
    <3> QED
      BY <1>0, <3>2, HasConcat
  <2> QED
    BY <2>2, <2>3, <2>4 DEF DbLate, Stopping
<1> QED
  BY <1>1, <1>2

(* What the log handler sends: no event behind an EXIT. *)
LEMMA LogBehind ==
  ASSUME NEW e \in Nat,
         NEW msgs \in {<<>>, <<LogMsg(e)>>, <<ExitMsg>>, <<LogMsg(e), ExitMsg>>}, NEW S
  PROVE  /\ Behind(msgs, "EXIT", S)
         /\ Has(msgs, "EXIT") => msgs \in {<<ExitMsg>>, <<LogMsg(e), ExitMsg>>}
<1> DEFINE l == LogMsg(e)
           x == ExitMsg
<1>1. l.type = "log" /\ x.type = "EXIT" /\ ~IsEvent(x) /\ l \in DbMsgs /\ x \in DbMsgs
  BY DbMessages DEF LogMsg, ExitMsg, IsEvent
<1>2. msgs \in {<<>>, <<l>>, <<x>>, <<l, x>>}
  OBVIOUS
<1> HIDE DEF l, x
<1>3. CASE msgs = <<>>
  BY <1>3, HasNone
<1>4. CASE msgs = <<l>>
  BY <1>1, <1>4 DEF Behind, Has
<1>5. CASE msgs = <<x>>
  BY <1>1, <1>5 DEF Behind, Has, l, x
<1>6. CASE msgs = <<l, x>>
  BY <1>1, <1>6 DEF Behind, Has, l, x
<1> QED
  BY <1>2, <1>3, <1>4, <1>5, <1>6

(* Without a fault the server stops only when the manager has no log handler *)
(* any more or nobody finds the manager: what the log handler still sends is *)
(* late.                                                                     *)
LEMMA LateNotify ==
  ASSUME EmTypeOK, DbTypeOK, CallInv, DbLate, NEW e \in Nat, NEW inbox \in Seq(EmMsgs),
         DoNotify(e, inbox),
         UNCHANGED <<app, dbState, fault, late>>,
         \A k \in Requests : Has(inbox, k) => Has(emInbox, k),
         ~fault /\ Stopping /\ log_handler => e \in late
  PROVE  DbLate'
<1>0. Has(emInbox', "set-log-handler") => Has(emInbox, "set-log-handler")
  <2>1. PICK x \in Seq(ExitMsgs) : emInbox' = inbox \o x
    BY NotifyFacts
  <2>2. "set-log-handler" \in Requests
    BY DEF Requests
  <2> QED
    BY <2>1, <2>2, CallExits
<1>1. CallLogHandler(e)
  BY NotifyFacts
<1>2. log_handler' => log_handler
  BY <1>1, LogHandlerFacts
<1>3. ~fault /\ Stopping => Quit'
  BY <1>0, <1>1, <1>2, QuitKept DEF DbLate
<1>4. CASE dbInbox' = dbInbox
  BY <1>3, <1>4, LateSame
<1>5. CASE log_handler /\ dbInbox' # dbInbox
  <2>1. PICK msgs \in {<<>>, <<LogMsg(e)>>, <<ExitMsg>>, <<LogMsg(e), ExitMsg>>} :
          /\ Send(msgs)
          /\ msgs \in {<<ExitMsg>>, <<LogMsg(e), ExitMsg>>} => log_handler' = FALSE
    BY <1>1, <1>5, LogHandlerFacts
  <2>2. msgs \in Seq(DbMsgs) /\ Events(msgs) \subseteq {e}
    BY LogMessages
  <2>3. Behind(msgs, "EXIT", late) /\ (Has(msgs, "EXIT") => log_handler' = FALSE)
    BY <2>1, LogBehind
  <2>4. log_handler' = FALSE => Quit'
    BY <1>0, <1>1, <1>5 DEF CallInv, Quit
  <2>5. ~fault /\ (Stopping \/ Has(msgs, "EXIT")) => Quit'
    BY <1>3, <2>3, <2>4
  <2>6. ~fault /\ Stopping => Events(msgs) \subseteq late
    BY <1>5, <2>2
  <2> QED
    BY <2>1, <2>2, <2>3, <2>5, <2>6, LateSend
<1> QED
  BY <1>1, <1>4, <1>5, LogHandlerFacts

(* The event manager sends to the server. *)
LEMMA LateEm ==
  ASSUME Base, CallInv, EmLate, DbLate, emProcess
  PROVE  DbLate'
<1>0. /\ EmTypeOK /\ DbTypeOK /\ emInbox \in Seq(EmMsgs) /\ UNCHANGED <<app, dbState, fault>>
  BY DEF Base, TypeOK, EmTypeOK, emProcess
<1>1. ASSUME emInbox # <<>>
      PROVE  /\ Tail(emInbox) \in Seq(EmMsgs)
             /\ \A k \in Requests : Has(Tail(emInbox), k) => Has(emInbox, k)
  BY <1>0, <1>1, CallTail
<1>2. "set-log-handler" \in Requests
  BY DEF Requests
<1>3. ASSUME UNCHANGED <<dbInbox, late>>, log_handler' => log_handler,
             Has(emInbox', "set-log-handler") => Has(emInbox, "set-log-handler")
      PROVE  DbLate'
  <2>1. ~fault /\ Stopping => Quit'
    BY <1>0, <1>3, QuitKept DEF DbLate
  <2> QED
    BY <1>0, <1>3, <2>1, LateSame
<1>4. CASE handle_notify
  <2>1. emInbox # <<>> /\ Head(emInbox).type = "notify" /\ late' = late
    BY <1>4 DEF handle_notify, EmTakes
  <2> DEFINE e == Head(emInbox).event
  <2>2. e \in Nat
    BY <1>0, <2>1, EmHead
  <2>3. CASE EmTaken /\ UNCHANGED <<log_handler, dbInbox>>
    BY <1>1, <1>2, <1>3, <2>1, <2>3 DEF EmTaken
  <2>4. CASE DoNotify(e, Tail(emInbox))
    <3>1. e \in Events(emInbox)
      BY <1>0, <2>1, EmTakeFacts
    <3>2. ~fault /\ Stopping /\ log_handler => e \in late
      BY <3>1 DEF DbLate, Quit, EmLate, SentryDone
    <3> HIDE DEF e
    <3> QED
      BY <1>0, <1>1, <2>1, <2>2, <2>4, <3>2, LateNotify
  <2> QED
    BY <1>4, <2>3, <2>4 DEF handle_notify
<1>5. CASE do_flush_buffer
  <2>1. pending # <<>> /\ DoNotify(Last(pending), emInbox) /\ late' = late
    BY <1>5 DEF do_flush_buffer
  <2>2. Last(pending) \in Nat
    BY <1>0, <2>1, BufferLast DEF EmTypeOK
  <2>3. ~fault /\ Stopping /\ log_handler => Last(pending) \in late
    BY <2>1 DEF DbLate, Quit, CallInv
  <2> QED
    BY <1>0, <2>1, <2>2, <2>3, LateNotify
<1>6. CASE flush_buffer \/ unregister \/ owner_exit
  <2>1. emInbox # <<>> /\ emInbox' = Tail(emInbox) /\ UNCHANGED <<dbInbox, late>>
        /\ (log_handler' => log_handler)
    BY <1>6 DEF flush_buffer, unregister, owner_exit, EmTakes, EmTaken
  <2> QED
    BY <1>1, <1>2, <1>3, <2>1
<1>7. CASE add_handler
  <2> DEFINE p == Head(emInbox).owner
             gone == p \in ended
  <2>1. /\ emInbox # <<>> /\ Head(emInbox).type = "add-handler"
        /\ UNCHANGED <<dbInbox, late, log_handler>>
        /\ emInbox' = Tail(emInbox) \o LinkedExit(p, gone)
    BY <1>7 DEF add_handler, EmTakes
  <2>2. p \in Owners \cup {"log-db"} /\ gone \in BOOLEAN
    BY <1>0, <2>1, EmHead
  <2> HIDE DEF p, gone
  <2>3. LinkedExit(p, gone) \in Seq(ExitMsgs)
    BY <2>2, LinkedExits
  <2>4. Has(emInbox', "set-log-handler") => Has(emInbox, "set-log-handler")
    BY <1>1, <1>2, <2>1, <2>3, CallExits
  <2> QED
    BY <1>3, <2>1, <2>4
<1>8. CASE set_log_handler
  <2>1. /\ emInbox # <<>> /\ Head(emInbox).type = "set-log-handler" /\ UNCHANGED <<dbInbox, late>>
    BY <1>8 DEF set_log_handler, EmTakes
  <2>2. Has(emInbox, "set-log-handler")
    BY <1>0, <2>1, HasTail
  <2>3. ~(~fault /\ Stopping)
    BY <2>2 DEF DbLate, Quit, CallInv
  <2> QED
    BY <1>0, <2>1, <2>3, LateSame
<1>9. CASE em_terminate
  <2>1. emInbox' = <<>> /\ UNCHANGED <<dbInbox, late, log_handler>>
    BY <1>9 DEF em_terminate
  <2> QED
    BY <1>3, <2>1, HasNone
<1> QED
  BY <1>4, <1>5, <1>6, <1>7, <1>8, <1>9 DEF emProcess, emLoop

(* The application sends to the server. *)
LEMMA LateApp ==
  ASSUME Base, CallInv, DbLate, appProcess \/ shutdown
  PROVE  DbLate'
<1>0. DbTypeOK /\ EmTypeOK /\ emInbox \in Seq(EmMsgs)
  BY DEF Base, TypeOK, EmTypeOK
<1>1. app \in {"start", "setup"} /\ ~fault => ~Stopping
  BY DEF DbLate, Quit
<1>2. ASSUME NEW m \in DbMsgs, ~IsEvent(m), Send(<<m>>), UNCHANGED <<dbState, fault>>,
             late \subseteq late', ~fault /\ (Stopping \/ m.type = "EXIT") => Quit'
      PROVE  DbLate'
  <2> DEFINE t == <<m>>
  <2>1. /\ t \in Seq(DbMsgs) /\ (Has(t, "EXIT") <=> m.type = "EXIT") /\ Behind(t, "EXIT", late')
        /\ Events(t) = {}
    BY <1>2, HasOne
  <2>2. Send(t)
    BY <1>2
  <2> HIDE DEF t
  <2> QED
    BY <1>0, <1>2, <2>1, <2>2, LateSend
<1>3. CASE setup \/ expireCache
  <2>1. PICK c \in {"setup", "expire"} : transaction(c) /\ UNCHANGED emVars
      /\ \/ app = "start"
         \/ app = "flush-buffer" /\ app' = "expire"
    BY <1>3 DEF setup, expireCache, App
  <2>2. TxnMsg(c) \in DbMsgs /\ ~IsEvent(TxnMsg(c)) /\ TxnMsg(c).type # "EXIT"
    BY LoggingAssumption, DbMessages DEF TxnMsg, IsEvent
  <2>3. Send(<<TxnMsg(c)>>) /\ UNCHANGED <<dbState, fault, late, log_handler, emInbox>>
    BY <2>1 DEF transaction, emVars
  <2>4. ~fault /\ Stopping => Quit'
    BY <1>1, <2>1, <2>3 DEF DbLate, Quit
  <2> QED
    BY <1>2, <2>2, <2>3, <2>4
<1>4. CASE stopLogDb
  <2>1. /\ Send(<<ExitMsg>>) /\ UNCHANGED <<dbState, fault>> /\ late \subseteq late'
        /\ app' = "log-db"
    BY <1>4 DEF stopLogDb, App
  <2>2. ExitMsg \in DbMsgs /\ ~IsEvent(ExitMsg)
    BY DbMessages DEF ExitMsg, IsEvent
  <2>3. Quit'
    BY <2>1 DEF Quit
  <2> QED
    BY <1>2, <2>1, <2>2, <2>3
<1>5. ASSUME UNCHANGED <<dbState, dbInbox, fault, late, log_handler>>,
             app' \notin {"start", "setup"},
             app \in {"log-db", "event-mgr"} => app' \in {"log-db", "event-mgr"},
             app' = "event-mgr" \/
             (Has(emInbox', "set-log-handler") => Has(emInbox, "set-log-handler") \/ app = "setup")
      PROVE  DbLate'
  <2>1. ~fault /\ Stopping => Quit'
    BY <1>1, <1>5 DEF DbLate, Quit
  <2> QED
    BY <1>5, <2>1, LateSame
<1>6. CASE up \/ setupFails \/ shutdown
  BY <1>5, <1>6 DEF up, setupFails, shutdown, App, dbVars, emVars
<1>7. ASSUME NEW what \in Requests, CallEm(what)
      PROVE  /\ UNCHANGED <<dbState, dbInbox, fault, late, log_handler>>
             /\ what # "set-log-handler" =>
                  (Has(emInbox', "set-log-handler") => Has(emInbox, "set-log-handler"))
  <2> DEFINE m == Asks(what)
  <2>1. /\ emInbox' = Append(emInbox, m) /\ UNCHANGED <<dbState, dbInbox, fault, late, log_handler>>
    BY <1>7 DEF CallEm, dbVars
  <2>2. m \in EmMsgs /\ m.type = what
    BY EmMessages DEF Asks, Requests
  <2> HIDE DEF m
  <2>3. \A k : Has(Append(emInbox, m), k) <=> Has(emInbox, k) \/ m.type = k
    BY <1>0, <2>2, HasAppend
  <2> QED
    BY <2>1, <2>2, <2>3
<1>8. /\ "set-log-handler" \in Requests /\ "flush-buffer" \in Requests
      /\ "unregister" \in Requests /\ "parent-EXIT" \in Requests
  BY DEF Requests
<1>9. CASE setLogHandler
  BY <1>5, <1>7, <1>8, <1>9 DEF setLogHandler, App
<1>10. CASE flushBuffer \/ stopSentry
  <2>1. CASE Answered(FALSE)
    <3>1. UNCHANGED <<dbState, dbInbox, fault, late, log_handler, emInbox>>
      BY <2>1 DEF Answered, dbVars
    <3> QED
      BY <1>5, <1>10, <3>1 DEF flushBuffer, stopSentry, App
  <2> QED
    BY <1>5, <1>7, <1>8, <1>10, <2>1 DEF flushBuffer, stopSentry, App
<1>11. CASE stopEventMgr
  BY <1>5, <1>7, <1>8, <1>11 DEF stopEventMgr, App
<1> QED
  BY <1>3, <1>4, <1>6, <1>9, <1>10, <1>11 DEF appProcess

(* Every step keeps DbLate. *)
LEMMA DbLateStep ==
  ASSUME Base, CallInv, FaultInv, EmLate, DbLate, [Next]_vars
  PROVE  DbLate'
<1>0. /\ DbTypeOK /\ WorkerInv /\ EmTypeOK /\ dbInbox \in Seq(DbMsgs) /\ emInbox \in Seq(EmMsgs)
  BY DEF Base, TypeOK, DbTypeOK, EmTypeOK
<1>1. ASSUME dbProcess \/ dbKilled
      PROVE  UNCHANGED <<late, app>> /\ (Quit => Quit')
  <2>1. ExitOf("log-db") \in EmMsgs /\ ExitOf("log-db").type = "EXIT"
    BY EmMessages, ExitTypes
  <2>2. \A k : Has(Append(emInbox, ExitOf("log-db")), k) <=> Has(emInbox, k) \/ k = "EXIT"
    BY <1>0, <2>1, HasAppend
  <2>3. emInbox' \in {emInbox, Append(emInbox, ExitOf("log-db"))}
    BY <1>1 DEF dbProcess, dbKilled, Linked
  <2>4. Has(emInbox', "set-log-handler") => Has(emInbox, "set-log-handler")
    BY <2>2, <2>3
  <2>5. UNCHANGED <<late, app, log_handler>>
    BY <1>1 DEF dbProcess, dbKilled
  <2> QED
    BY <2>4, <2>5, QuitKept
<1>2. CASE (dbProcess \/ dbKilled) /\ fault'
  BY <1>2 DEF DbLate
<1>3. CASE dbProcess /\ dbLoop /\ ~fault'
  <2>1. fault' = fault /\ ~fault /\ dbState = "loop" /\ UNCHANGED <<late, app>> /\ (Quit => Quit')
    BY <1>0, <1>1, <1>3, LoopFacts
  <2>2. Behind(dbInbox, "EXIT", late)
    BY <2>1 DEF DbLate
  <2>3. CASE dbInbox' = dbInbox /\ dbState' = "loop"
    BY <2>1, <2>3 DEF DbLate, Stopping
  <2>4. ASSUME dbInbox # <<>>, dbInbox' = Tail(dbInbox)
        PROVE  /\ Behind(dbInbox', "EXIT", late)
               /\ Has(dbInbox', "EXIT") => Has(dbInbox, "EXIT")
               /\ Head(dbInbox).type = "EXIT" => Has(dbInbox, "EXIT") /\ Events(dbInbox') \subseteq late
    BY <1>0, <2>2, <2>4, HasTail
  <2>5. CASE dbInbox # <<>> /\ dbInbox' = Tail(dbInbox) /\ dbState' = "loop"
    BY <2>1, <2>4, <2>5 DEF DbLate, Stopping
  <2>6. CASE /\ dbInbox # <<>> /\ dbInbox' = Tail(dbInbox) /\ Head(dbInbox).type = "DOWN"
             /\ Head(dbInbox).reason # "normal"
    <3>1. 1 \in Downs /\ dbInbox[1] = Head(dbInbox)
      BY <1>0, <2>6, TailFacts DEF Downs, IsDown
    <3> QED
      BY <2>1, <2>6, <3>1 DEF FaultInv
  <2>7. CASE /\ dbInbox # <<>> /\ dbInbox' = Tail(dbInbox) /\ Head(dbInbox).type = "EXIT"
    BY <2>1, <2>4, <2>7 DEF DbLate, Stopping
  <2> QED
    BY <1>0, <1>3, <2>3, <2>5, <2>6, <2>7, LoopFacts
<1>4. CASE (dbProcess \/ dbKilled) /\ (terminate \/ kill_server) /\ ~fault'
  <2>1. UNCHANGED <<late, app>> /\ (Quit => Quit')
    BY <1>1, <1>4
  <2>2. CASE dbInbox' = <<>> /\ dbState # "loop" /\ fault' = fault
    <3>1. Behind(dbInbox', "EXIT", late) /\ Events(dbInbox') = {} /\ Quit
      BY <1>4, <2>2, HasNone, EmptyFacts DEF DbLate, Stopping
    <3> QED
      BY <2>1, <3>1 DEF DbLate
  <2>3. CASE /\ dbState = "flush" /\ dbState' = "flush" /\ fault' = fault
             /\ \E i \in Downs : dbInbox' = RemoveAt(dbInbox, i)
    <3>1. PICK i \in DOMAIN dbInbox : dbInbox[i].type = "DOWN" /\ dbInbox' = RemoveAt(dbInbox, i)
      BY <2>3 DEF Downs, IsDown
    <3>2. Behind(dbInbox, "EXIT", late) => Behind(dbInbox', "EXIT", late)
      BY <1>0, <3>1, HasRemove
    <3>3. Events(dbInbox') = Events(dbInbox)
      BY <1>0, <3>1, RemoveFacts
    <3> QED
      BY <1>4, <2>1, <2>3, <3>2, <3>3 DEF DbLate, Stopping
  <2>4. fault' = fault /\ (\E i \in Downs : dbInbox[i].reason # "normal") => FALSE
    BY <1>4 DEF FaultInv
  <2> QED
    BY <1>0, <1>4, <2>2, <2>3, <2>4, EndFacts
<1>5. CASE workerProcess
  <2>1. dbWork /\ UNCHANGED <<late, app, log_handler, emInbox>>
    BY <1>5 DEF workerProcess, emVars
  <2>2. Quit' = Quit
    BY <2>1 DEF Quit
  <2>3. dbState' = dbState
    BY <1>0, <2>1, WorkFacts
  <2>4. CASE dbInbox' = dbInbox /\ (~fault' => ~fault)
    BY <2>1, <2>2, <2>3, <2>4 DEF DbLate, Stopping
  <2>5. CASE \E x \in {"normal", "error"} : dbInbox' = Append(dbInbox, DownMsg(x)) /\ (~fault' => ~fault)
    <3>1. PICK x \in {"normal", "error"} : dbInbox' = Append(dbInbox, DownMsg(x)) /\ (~fault' => ~fault)
      BY <2>5
    <3> DEFINE m == DownMsg(x)
    <3>2. m \in DbMsgs /\ m.type = "DOWN" /\ ~IsEvent(m) /\ dbInbox' = Append(dbInbox, m)
      BY <3>1, DbMessages DEF DownMsg, IsEvent
    <3> HIDE DEF m
    <3>3. Behind(dbInbox, "EXIT", late) => Behind(dbInbox', "EXIT", late)
      BY <1>0, <3>2, HasAppend
    <3>4. Has(dbInbox', "EXIT") <=> Has(dbInbox, "EXIT")
      BY <1>0, <3>2, HasAppend
    <3>5. Events(Append(dbInbox, m)) = Events(dbInbox) \cup (IF IsEvent(m) THEN {m.event} ELSE {})
      BY <1>0, <3>2, AppendFacts
    <3>6. Events(dbInbox') = Events(dbInbox)
      BY <3>2, <3>5
    <3> QED
      BY <2>1, <2>2, <2>3, <3>1, <3>3, <3>4, <3>6 DEF DbLate, Stopping
  <2> QED
    BY <1>0, <2>1, <2>4, <2>5, WorkFacts
<1>6. ASSUME UNCHANGED <<dbState, dbInbox, fault, app, log_handler>>, late \subseteq late',
             Has(emInbox', "set-log-handler") => Has(emInbox, "set-log-handler")
      PROVE  DbLate'
  <2>1. ~fault /\ Stopping => Quit'
    BY <1>6, QuitKept DEF DbLate
  <2> QED
    BY <1>6, <2>1, LateSame
<1>7. ASSUME NEW m \in EmMsgs, m.type # "set-log-handler",
             emInbox' \in {emInbox, Append(emInbox, m)}
      PROVE  Has(emInbox', "set-log-handler") => Has(emInbox, "set-log-handler")
  BY <1>0, <1>7, HasAppend
<1>8. CASE others
  <2>1. CASE notify
    BY <1>6, <1>8, <2>1 DEF others, notify, dbVars
  <2>2. CASE \E o \in Owners : addHandler(o) \/ ownerEnds(o)
    <3>1. PICK o \in Owners : addHandler(o) \/ ownerEnds(o)
      BY <2>2
    <3>2. /\ AddHandler(o) \in EmMsgs /\ ExitOf(o) \in EmMsgs
          /\ AddHandler(o).type # "set-log-handler" /\ ExitOf(o).type # "set-log-handler"
      BY EmMessages DEF AddHandler, ExitOf
    <3>3. UNCHANGED <<dbState, dbInbox, fault, app, log_handler, late>>
      BY <1>8, <3>1 DEF others, addHandler, ownerEnds, dbVars
    <3>4. CASE addHandler(o)
      BY <1>6, <1>7, <3>2, <3>3, <3>4 DEF addHandler
    <3>5. CASE ownerEnds(o)
      BY <1>6, <1>7, <3>2, <3>3, <3>5 DEF ownerEnds
    <3> QED
      BY <3>1, <3>4, <3>5
  <2> QED
    BY <1>8, <2>1, <2>2 DEF others
<1>9. CASE sender
  <2>1. events' \in Nat
    BY <1>0, <1>9 DEF sender, notifySend, EmTypeOK
  <2>2. Notify(events') \in EmMsgs /\ Notify(events').type # "set-log-handler"
    BY <2>1, EmMessages DEF Notify
  <2>3. /\ UNCHANGED <<dbState, dbInbox, fault, app, log_handler>> /\ late \subseteq late'
        /\ emInbox' \in {emInbox, Append(emInbox, Notify(events'))}
    BY <1>9 DEF sender, notifySend, dbVars
  <2> QED
    BY <1>6, <1>7, <2>2, <2>3
<1>10. CASE UNCHANGED vars
  BY <1>6, <1>10 DEF vars, dbVars, emVars
<1>11. CASE dbProcess \/ dbKilled
  BY <1>2, <1>3, <1>4, <1>11 DEF dbProcess, dbKilled
<1>12. CASE emKilled
  BY <1>6, <1>12, HasNone DEF emKilled, dbVars
<1> QED
  BY <1>5, <1>8, <1>9, <1>10, <1>11, <1>12, LateEm, LateApp DEF Next

-----------------------------------------------------------------------------
(* Where events are kept *)

DbKept == Events(dbInbox) \cup Underway \cup Events(disk)
EmKept == console \cup Events(emInbox) \cup ToSet(event_buffer) \cup ToSet(pending)

(* Nothing is lost as long as what is kept stays somewhere, or is late and   *)
(* the server has ended.                                                     *)
LEMMA LostKept ==
  ASSUME NothingLost, events' = events, late \subseteq late', fault => fault', DbAlive' => DbAlive,
         ~fault' => \A e \in EmKept \cup DbKept :
                      (e \in late' /\ ~DbAlive') \/ e \in EmKept' \cup DbKept'
  PROVE  NothingLost'
<1>1. \A e \in 1..events : ~fault /\ (e \in late => DbAlive) => e \in EmKept \cup DbKept
  BY DEF NothingLost, EmKept, DbKept
<1>2. \A e \in 1..events : ~fault' /\ (e \in late' => DbAlive') => e \in EmKept' \cup DbKept'
  BY <1>1
<1> QED
  BY <1>2 DEF NothingLost, EmKept, DbKept

(* The loop of the server moves what it takes to the queue or to a worker. *)
LEMMA LostLoop ==
  ASSUME Base, dbLoop
  PROVE  DbKept \subseteq DbKept'
<1>0. /\ DbTypeOK /\ WorkerInv /\ dbInbox \in Seq(DbMsgs) /\ dbQueue \in Seq(Entries)
      /\ dbWorker \in {None} \cup Workers /\ None \in {None} \cup Workers
  BY DEF Base, TypeOK, DbTypeOK
<1>1. /\ dbState = "loop" /\ disk' = disk /\ dbState' \in {"loop", "flush"}
  BY <1>0, LoopFacts
<1>2. /\ DbAlive /\ DbAlive'
  BY <1>1 DEF DbAlive, Terminating
<1>3. /\ Underway = Events(Worked) \cup Events(dbQueue)
      /\ Underway' = Events(Worked') \cup Events(dbQueue')
      /\ Worked = WorkedOf(dbWorker) /\ WorkedOf(None) = <<>>
  BY <1>2 DEF Underway, Worked, WorkedOf
<1>4. ASSUME dbInbox # <<>>
      PROVE  LET h == Head(dbInbox)
             IN Events(dbInbox) = Events(Tail(dbInbox)) \cup (IF IsEvent(h) THEN {h.event} ELSE {})
  BY <1>0, <1>4, TakeFacts
<1>5. CASE /\ dbInbox # <<>> /\ Head(dbInbox).type \in {"log", "transaction"}
           /\ dbInbox' = Tail(dbInbox)
           /\ Append(dbQueue, Head(dbInbox)) \in Seq(Entries)
           /\ Given(Append(dbQueue, Head(dbInbox)), dbWorker)
  <2> DEFINE h == Head(dbInbox)
  <2>1. h \in Entries
    BY <1>0, <1>5, DbHead
  <2>2. Events(dbInbox) = Events(dbInbox') \cup (IF IsEvent(h) THEN {h.event} ELSE {})
    BY <1>4, <1>5
  <2>3. Append(dbQueue, h) \in Seq(Entries) /\ Given(Append(dbQueue, h), dbWorker)
    BY <1>5
  <2> HIDE DEF h
  <2>4. Events(Append(dbQueue, h)) = Events(dbQueue) \cup (IF IsEvent(h) THEN {h.event} ELSE {})
    BY <1>0, <2>1, AppendFacts
  <2>5. Events(Worked') \cup Events(dbQueue') = Events(WorkedOf(dbWorker)) \cup Events(Append(dbQueue, h))
    BY <1>0, <2>3, GivenFacts
  <2> QED
    BY <1>1, <1>3, <2>2, <2>4, <2>5 DEF DbKept
<1>6. CASE dbInbox' = dbInbox /\ Given(dbQueue, dbWorker)
  <2>1. Events(Worked') \cup Events(dbQueue') = Events(WorkedOf(dbWorker)) \cup Events(dbQueue)
    BY <1>0, <1>6, GivenFacts
  <2> QED
    BY <1>1, <1>3, <1>6, <2>1 DEF DbKept
<1>7. ASSUME dbInbox # <<>>, Head(dbInbox).type \in {"DOWN", "EXIT"}, dbInbox' = Tail(dbInbox)
      PROVE  Events(dbInbox') = Events(dbInbox)
  <2>1. ~IsEvent(Head(dbInbox))
    BY <1>7 DEF IsEvent
  <2> QED
    BY <1>4, <1>7, <2>1
<1>8. CASE /\ dbInbox # <<>> /\ Head(dbInbox).type = "DOWN" /\ dbInbox' = Tail(dbInbox)
           /\ Given(dbQueue, None)
  <2>1. 1 \in Downs
    BY <1>0, <1>8, TailFacts DEF Downs, IsDown
  <2>2. Worked = <<>>
    BY <2>1 DEF WorkerInv, Gone, Base, Worked
  <2>3. Events(Worked') \cup Events(dbQueue') = Events(WorkedOf(None)) \cup Events(dbQueue)
    BY <1>0, <1>8, GivenFacts
  <2> QED
    BY <1>1, <1>3, <1>7, <1>8, <2>2, <2>3 DEF DbKept
<1>9. CASE /\ dbInbox # <<>> /\ Head(dbInbox).type = "EXIT" /\ dbInbox' = Tail(dbInbox)
           /\ Given(dbQueue, dbWorker)
  <2>1. Events(Worked') \cup Events(dbQueue') = Events(WorkedOf(dbWorker)) \cup Events(dbQueue)
    BY <1>0, <1>9, GivenFacts
  <2> QED
    BY <1>1, <1>3, <1>7, <1>9, <2>1 DEF DbKept
<1> QED
  BY <1>0, <1>5, <1>6, <1>8, <1>9, LoopFacts

(* Without a fault the database is closed when the queue is done and all that *)
(* is left in the inbox is late.                                             *)
LEMMA LostEnd ==
  ASSUME Base, FaultInv, DbLate, terminate \/ kill_server, ~fault', fault => fault'
  PROVE  \A e \in DbKept : (e \in late /\ ~DbAlive') \/ e \in DbKept'
<1>0. /\ DbTypeOK /\ WorkerInv /\ dbInbox \in Seq(DbMsgs) /\ dbQueue \in Seq(Entries)
      /\ dbWorker \in {None} \cup Workers /\ None \in {None} \cup Workers
  BY DEF Base, TypeOK, DbTypeOK
<1>1. CASE disk' = disk /\ dbState = "flush" /\ dbWorker = None /\ dbState' \in {"closed", "killed"}
  <2>1. dbQueue = <<>> /\ Events(dbInbox) \subseteq late /\ ~DbAlive'
    BY <1>1 DEF FaultInv, DbLate, DbAlive, Terminating
  <2>2. Underway = {}
    BY <1>1, <2>1, EmptyFacts DEF Underway, Worked
  <2> QED
    BY <1>1, <2>1, <2>2 DEF DbKept
<1>2. CASE /\ dbState = "flush" /\ dbState' = "flush" /\ disk' = disk
           /\ \E i \in Downs : dbInbox' = RemoveAt(dbInbox, i)
           /\ Given(dbQueue, None)
  <2>1. PICK i \in DOMAIN dbInbox : dbInbox[i].type = "DOWN" /\ dbInbox' = RemoveAt(dbInbox, i)
    BY <1>2 DEF Downs, IsDown
  <2>2. Events(dbInbox') = Events(dbInbox)
    BY <1>0, <2>1, RemoveFacts
  <2>3. Worked = <<>>
    BY <1>0, <1>2 DEF WorkerInv, Gone, Worked
  <2>4. Events(Worked') \cup Events(dbQueue') = Events(WorkedOf(None)) \cup Events(dbQueue)
    BY <1>0, <1>2, GivenFacts
  <2>5. /\ Underway = Events(Worked) \cup Events(dbQueue)
        /\ Underway' = Events(Worked') \cup Events(dbQueue') /\ WorkedOf(None) = <<>>
    BY <1>2 DEF Underway, WorkedOf, DbAlive, Terminating
  <2> QED
    BY <1>2, <2>2, <2>3, <2>4, <2>5 DEF DbKept
<1>3. /\ ~(\E i \in Downs : dbInbox[i].reason # "normal")
      /\ dbState \notin {"stop-worker", "shutdown", "kill"} /\ fault' # TRUE
  BY DEF FaultInv
<1> QED
  BY <1>0, <1>1, <1>2, <1>3, EndFacts

(* A worker that ends without a fault has done its work, and a transaction   *)
(* holds no event.                                                           *)
LEMMA LostWork ==
  ASSUME Base, dbWork, ~fault'
  PROVE  DbKept \subseteq DbKept'
<1>0. /\ DbTypeOK /\ WorkerInv /\ dbInbox \in Seq(DbMsgs) /\ disk \in Seq(Entries)
  BY DEF Base, TypeOK, DbTypeOK
<1>1. /\ dbWorker # None /\ dbWorker.at # "gone" /\ dbWorker \in Workers
      /\ UNCHANGED <<dbState, dbQueue>>
      /\ dbWorker' # None /\ dbWorker'.work = dbWorker.work
      /\ \/ disk' = disk
         \/ disk' = disk \o dbWorker.work
  BY <1>0, WorkFacts
<1>2. dbWorker.work \in Seq(Entries) /\ Worked = dbWorker.work
  BY <1>1 DEF Workers, Worked
<1>3. Events(disk \o dbWorker.work) = Events(disk) \cup Events(dbWorker.work)
  BY <1>0, <1>2, ConcatFacts
<1>4. Events(dbInbox') = Events(dbInbox)
  <2>1. ASSUME NEW x \in {"normal", "error"}
        PROVE  Events(Append(dbInbox, DownMsg(x))) = Events(dbInbox)
    <3> DEFINE m == DownMsg(x)
    <3>1. m \in DbMsgs /\ ~IsEvent(m)
      BY DbMessages DEF DownMsg, IsEvent
    <3> HIDE DEF m
    <3>2. Events(Append(dbInbox, m)) = Events(dbInbox) \cup (IF IsEvent(m) THEN {m.event} ELSE {})
      BY <1>0, <3>1, AppendFacts
    <3> QED
      BY <3>1, <3>2 DEF m
  <2> QED
    BY <1>0, <2>1, WorkFacts
<1>5. Events(Worked) \subseteq Events(Worked') \cup Events(disk')
  <2>1. CASE dbWorker'.at # "gone"
    BY <1>1, <1>2, <2>1 DEF Worked
  <2>2. CASE dbWorker.at = "commit" /\ disk' = disk \o dbWorker.work
    BY <1>2, <1>3, <2>2
  <2>3. CASE dbWorker.at \in {"reply-ok", "reply-error"}
    <3>1. Len(dbWorker.work) = 1 /\ ~IsLog(dbWorker.work[1])
      BY <1>0, <1>1, <2>3 DEF WorkerInv
    <3>2. \A i \in DOMAIN dbWorker.work : i = 1 /\ dbWorker.work[1] \in Entries
      BY <1>2, <3>1
    <3>3. \A m \in Entries : ~IsLog(m) => ~IsEvent(m)
      BY DEF Entries, IsLog, IsEvent
    <3>4. Events(dbWorker.work) = {}
      BY <3>1, <3>2, <3>3, MemberOf
    <3> QED
      BY <1>2, <3>4
  <2>4. ASSUME NEW x \in {"normal", "error"}, fault' = (fault \/ x # "normal") PROVE x = "normal"
    BY <2>4
  <2> QED
    BY <1>0, <2>1, <2>2, <2>3, <2>4, WorkFacts
<1>6. DbAlive' = DbAlive
  BY <1>1 DEF DbAlive
<1> QED
  BY <1>1, <1>3, <1>4, <1>5, <1>6 DEF DbKept, Underway

(* The log handler has sent the event, the console shows it, or it is late   *)
(* and the server has ended.                                                 *)
LEMMA LostNotify ==
  ASSUME DbTypeOK, NEW e \in Nat, CallLogHandler(e), Stopping /\ log_handler => e \in late
  PROVE  /\ e \in console' \/ e \in Events(dbInbox') \/ (e \in late /\ ~DbAlive)
         /\ console \subseteq console'
<1>1. ASSUME log_handler, ~DbAlive PROVE e \in late
  BY <1>1 DEF Stopping, DbAlive
<1>2. ASSUME NEW msgs \in {<<>>, <<LogMsg(e)>>, <<ExitMsg>>, <<LogMsg(e), ExitMsg>>}, Send(msgs),
             DbAlive, msgs \in {<<LogMsg(e)>>, <<LogMsg(e), ExitMsg>>}
      PROVE  e \in Events(dbInbox')
  BY <1>2, SentFacts
<1> QED
  BY <1>1, <1>2, LogHandlerFacts

(* The event manager moves what it takes on, and what it still has when it   *)
(* ends is late or goes to the console.                                      *)
LEMMA LostEm ==
  ASSUME Base, CallInv, EmLate, DbLate, emProcess, ~fault
  PROVE  \A e \in EmKept \cup DbKept : (e \in late /\ ~DbAlive) \/ e \in EmKept' \cup DbKept'
<1>0. /\ EmTypeOK /\ DbTypeOK /\ emInbox \in Seq(EmMsgs) /\ event_buffer \in Seq(Nat)
      /\ UNCHANGED <<dbState, dbQueue, dbWorker, disk>>
  BY DEF Base, TypeOK, EmTypeOK, emProcess
<1>1. Underway' = Underway
  BY <1>0 DEF Underway, Worked, DbAlive
<1>2. ASSUME Events(dbInbox) \subseteq Events(dbInbox'),
             \A e \in EmKept : (e \in late /\ ~DbAlive) \/ e \in EmKept' \/ e \in Events(dbInbox')
      PROVE  \A e \in EmKept \cup DbKept : (e \in late /\ ~DbAlive) \/ e \in EmKept' \cup DbKept'
  BY <1>0, <1>1, <1>2 DEF DbKept
<1>3. ASSUME emInbox # <<>>, Head(emInbox).type # "notify"
      PROVE  Events(Tail(emInbox)) = Events(emInbox)
  BY <1>0, <1>3, EmTakeFacts
<1>4. CASE handle_notify
  <2> DEFINE e == Head(emInbox).event
  <2>1. emInbox # <<>> /\ Head(emInbox).type = "notify" /\ pending' = pending
    BY <1>4 DEF handle_notify, EmTakes
  <2>2. /\ e \in Nat /\ Tail(emInbox) \in Seq(EmMsgs)
        /\ Events(emInbox) = Events(Tail(emInbox)) \cup {e}
    BY <1>0, <2>1, EmHead, EmTakeFacts
  <2>3. CASE /\ event_buffer' = Buffered(e) /\ emInbox' = Tail(emInbox)
             /\ UNCHANGED <<console, dbInbox>>
    <3> HIDE DEF e
    <3>1. ToSet(event_buffer') = ToSet(event_buffer) \cup {e}
      BY <1>0, <2>2, <2>3, BufferFirst DEF Buffered
    <3> QED
      BY <1>2, <2>1, <2>2, <2>3, <3>1 DEF EmKept
  <2>4. CASE DoNotify(e, Tail(emInbox)) /\ event_buffer' = event_buffer
    <3>1. Stopping /\ log_handler => e \in late
      BY <2>2 DEF DbLate, Quit, EmLate, SentryDone
    <3> HIDE DEF e
    <3>2. Events(emInbox') = Events(Tail(emInbox)) /\ Events(dbInbox) \subseteq Events(dbInbox')
      BY <1>0, <2>2, <2>4, NotifyMoves
    <3>3. /\ e \in console' \/ e \in Events(dbInbox') \/ (e \in late /\ ~DbAlive)
          /\ console \subseteq console'
      BY <1>0, <2>2, <2>4, <3>1, LostNotify DEF DoNotify
    <3> QED
      BY <1>2, <2>1, <2>2, <2>4, <3>2, <3>3 DEF EmKept
  <2> QED
    BY <1>4, <2>3, <2>4 DEF handle_notify, EmTaken
<1>5. CASE do_flush_buffer
  <2> DEFINE e == Last(pending)
  <2>1. /\ pending # <<>> /\ DoNotify(e, emInbox) /\ pending' = Front(pending)
        /\ event_buffer' = event_buffer
    BY <1>5 DEF do_flush_buffer
  <2>2. e \in Nat /\ ToSet(pending) = ToSet(Front(pending)) \cup {e}
    BY <1>0, <2>1, BufferLast DEF EmTypeOK
  <2>3. Stopping /\ log_handler => e \in late
    BY <2>1 DEF DbLate, Quit, CallInv
  <2> HIDE DEF e
  <2>4. Events(emInbox') = Events(emInbox) /\ Events(dbInbox) \subseteq Events(dbInbox')
    BY <1>0, <2>1, <2>2, NotifyMoves
  <2>5. /\ e \in console' \/ e \in Events(dbInbox') \/ (e \in late /\ ~DbAlive)
        /\ console \subseteq console'
    BY <1>0, <2>1, <2>2, <2>3, LostNotify DEF DoNotify
  <2> QED
    BY <1>2, <2>1, <2>2, <2>4, <2>5 DEF EmKept
<1>6. CASE flush_buffer
  <2>1. /\ emInbox # <<>> /\ Head(emInbox).type # "notify" /\ emInbox' = Tail(emInbox)
        /\ pending = <<>> /\ pending' = event_buffer /\ UNCHANGED <<console, dbInbox>>
    BY <1>6 DEF flush_buffer, EmTakes, EmTaken
  <2> QED
    BY <1>2, <1>3, <2>1, EmptyFacts DEF EmKept
<1>7. CASE unregister \/ owner_exit
  <2>1. /\ emInbox # <<>> /\ Head(emInbox).type # "notify" /\ emInbox' = Tail(emInbox)
        /\ UNCHANGED <<event_buffer, pending, console, dbInbox>>
    BY <1>7 DEF unregister, owner_exit, EmTakes, EmTaken
  <2> QED
    BY <1>2, <1>3, <2>1 DEF EmKept
<1>8. ASSUME NEW p \in Owners \cup {"log-db"}, NEW gone \in BOOLEAN, emInbox # <<>>,
             emInbox' = Tail(emInbox) \o LinkedExit(p, gone), Head(emInbox).type # "notify",
             UNCHANGED <<event_buffer, pending, console, dbInbox>>
      PROVE  \A e \in EmKept \cup DbKept : (e \in late /\ ~DbAlive) \/ e \in EmKept' \cup DbKept'
  <2>1. Tail(emInbox) \in Seq(EmMsgs) /\ LinkedExit(p, gone) \in Seq(ExitMsgs)
    BY <1>0, <1>8, EmHead, LinkedExits
  <2>2. Events(emInbox') = Events(emInbox)
    BY <1>3, <1>8, <2>1, ExitsQuiet
  <2> QED
    BY <1>2, <1>8, <2>2 DEF EmKept
<1>9. CASE add_handler
  <2> DEFINE p == Head(emInbox).owner
             gone == p \in ended
  <2>1. /\ emInbox # <<>> /\ Head(emInbox).type = "add-handler"
        /\ UNCHANGED <<event_buffer, pending, console, dbInbox>>
        /\ emInbox' = Tail(emInbox) \o LinkedExit(p, gone)
    BY <1>9 DEF add_handler, EmTakes
  <2>2. p \in Owners \cup {"log-db"} /\ gone \in BOOLEAN
    BY <1>0, <2>1, EmHead
  <2> HIDE DEF p, gone
  <2> QED
    BY <1>8, <2>1, <2>2
<1>10. CASE set_log_handler
  <2> DEFINE gone == ~DbAlive
  <2>1. /\ emInbox # <<>> /\ Head(emInbox).type = "set-log-handler"
        /\ UNCHANGED <<event_buffer, pending, console, dbInbox>>
        /\ emInbox' = Tail(emInbox) \o LinkedExit("log-db", gone)
    BY <1>10 DEF set_log_handler, EmTakes
  <2>2. gone \in BOOLEAN
    OBVIOUS
  <2> HIDE DEF gone
  <2> QED
    BY <1>8, <2>1, <2>2
<1>11. CASE em_terminate
  <2>1. /\ emInbox # <<>> /\ Head(emInbox).type = "parent-EXIT" /\ pending' = pending
        /\ console' = console \cup ToSet(event_buffer) /\ dbInbox' = dbInbox
    BY <1>11 DEF em_terminate, EmTakes
  <2>2. Has(emInbox, "parent-EXIT")
    BY <1>0, <2>1, HasTail
  <2>3. Events(emInbox) \subseteq late /\ ~DbAlive
    BY <2>2 DEF CallInv, EmLate, SentryDone
  <2> QED
    BY <1>2, <2>1, <2>3 DEF EmKept
<1> QED
  BY <1>4, <1>5, <1>6, <1>7, <1>9, <1>10, <1>11 DEF emProcess, emLoop

(* The application sends requests. *)
LEMMA LostApp ==
  ASSUME Base, appProcess \/ shutdown
  PROVE  /\ EmKept \subseteq EmKept' /\ DbKept \subseteq DbKept' /\ UNCHANGED <<events, fault>>
         /\ late \subseteq late' /\ DbAlive' = DbAlive
<1>0. DbTypeOK /\ EmTypeOK /\ dbInbox \in Seq(DbMsgs) /\ emInbox \in Seq(EmMsgs)
  BY DEF Base, TypeOK, DbTypeOK, EmTypeOK
<1>1. ASSUME NEW m \in DbMsgs, Send(<<m>>), UNCHANGED <<dbState, dbQueue, dbWorker, disk, fault>>,
             UNCHANGED <<console, emInbox, event_buffer, pending, events>>, late \subseteq late'
      PROVE  /\ EmKept \subseteq EmKept' /\ DbKept \subseteq DbKept' /\ UNCHANGED <<events, fault>>
             /\ late \subseteq late' /\ DbAlive' = DbAlive
  <2> DEFINE t == <<m>>
  <2>1. t \in Seq(DbMsgs) /\ Send(t)
    BY <1>1
  <2> HIDE DEF t
  <2>2. Events(dbInbox) \subseteq Events(dbInbox')
    BY <1>0, <2>1, ConcatFacts DEF Send
  <2>3. Underway' = Underway
    BY <1>1 DEF Underway, Worked, DbAlive
  <2> QED
    BY <1>1, <2>2, <2>3 DEF DbKept, EmKept, DbAlive
<1>2. ASSUME NEW k \in Requests, CallEm(k)
      PROVE  /\ EmKept \subseteq EmKept' /\ DbKept \subseteq DbKept' /\ UNCHANGED <<events, fault>>
             /\ late \subseteq late' /\ DbAlive' = DbAlive
  <2>1. Asks(k) \in EmMsgs /\ ~IsEvent(Asks(k))
    BY EmMessages DEF Requests, Asks, IsEvent
  <2>2. /\ emInbox' = Append(emInbox, Asks(k)) /\ UNCHANGED dbVars
        /\ UNCHANGED <<console, event_buffer, pending, events, late>>
    BY <1>2 DEF CallEm
  <2>3. Events(emInbox') = Events(emInbox)
    BY <1>0, <2>1, <2>2, EmQuiet
  <2> QED
    BY <2>2, <2>3 DEF EmKept, DbKept, Underway, Worked, DbAlive, dbVars
<1>3. CASE UNCHANGED <<dbVars, emVars>> \/ Answered(FALSE)
  BY <1>3 DEF EmKept, DbKept, Underway, Worked, DbAlive, Answered, dbVars, emVars
<1>4. CASE setup \/ expireCache
  <2>1. PICK c \in {"setup", "expire"} : transaction(c) /\ UNCHANGED emVars
    BY <1>4 DEF setup, expireCache
  <2>2. TxnMsg(c) \in DbMsgs
    BY LoggingAssumption, DbMessages
  <2> QED
    BY <1>1, <2>1, <2>2 DEF transaction, emVars
<1>5. CASE stopLogDb
  <2>1. ExitMsg \in DbMsgs
    BY DbMessages
  <2> QED
    BY <1>1, <1>5, <2>1 DEF stopLogDb
<1> QED
  BY <1>2, <1>3, <1>4, <1>5 DEF appProcess, shutdown, setupFails, setLogHandler, flushBuffer, up,
     stopSentry, stopEventMgr, Requests

(* Every step keeps NothingLost. *)
LEMMA LostStep ==
  ASSUME Base, CallInv, FaultInv, EmLate, DbLate, NothingLost, [Next]_vars
  PROVE  NothingLost'
<1>0. DbTypeOK /\ WorkerInv /\ EmTypeOK /\ emInbox \in Seq(EmMsgs)
  BY DEF Base, TypeOK, EmTypeOK
<1>1. CASE dbProcess \/ dbKilled
  <2>1. Linked /\ UNCHANGED <<console, event_buffer, pending, events, late>>
    BY <1>1 DEF dbProcess, dbKilled
  <2>2. EmKept' = EmKept
    BY <1>0, <2>1, LinkedQuiet DEF EmKept
  <2>3. fault => fault'
    BY <1>0, <1>1, LoopFacts, EndFacts DEF dbProcess, dbKilled
  <2>4. ~fault' => \A e \in DbKept : (e \in late /\ ~DbAlive') \/ e \in DbKept'
    BY <1>1, <2>3, LostLoop, LostEnd DEF dbProcess, dbKilled
  <2>5. DbAlive
    BY <1>1, AliveBefore DEF dbProcess, dbKilled
  <2> QED
    BY <2>1, <2>2, <2>3, <2>4, <2>5, LostKept
<1>2. CASE workerProcess
  <2>1. dbWork /\ UNCHANGED <<console, emInbox, event_buffer, pending, events, late>>
    BY <1>2 DEF workerProcess, emVars
  <2>2. EmKept' = EmKept
    BY <2>1 DEF EmKept
  <2>3. fault => fault'
    BY <1>0, <2>1, WorkFacts
  <2>4. ~fault' => DbKept \subseteq DbKept'
    BY <2>1, LostWork
  <2>5. DbAlive' = DbAlive
    BY <2>1 DEF dbWork, DbAlive
  <2> QED
    BY <2>1, <2>2, <2>3, <2>4, <2>5, LostKept
<1>3. CASE emProcess
  <2>1. UNCHANGED <<events, late, fault>>
    BY <1>3 DEF emProcess, emLoop, handle_notify, flush_buffer, do_flush_buffer, add_handler,
       set_log_handler, unregister, owner_exit, em_terminate
  <2>2. DbAlive' = DbAlive
    BY <1>3 DEF emProcess, DbAlive
  <2> QED
    BY <1>3, <2>1, <2>2, LostEm, LostKept
<1>4. CASE appProcess \/ shutdown
  BY <1>4, LostApp, LostKept
<1>5. CASE UNCHANGED vars
  BY <1>5 DEF NothingLost, Underway, Worked, DbAlive, vars, dbVars, emVars
<1>6. CASE others \/ sender
  <2>1. UNCHANGED dbVars /\ DbKept' = DbKept /\ fault' = fault /\ DbAlive' = DbAlive
    BY <1>6 DEF others, sender, DbKept, Underway, Worked, DbAlive, dbVars
  <2>2. CASE \E o \in Owners : addHandler(o) \/ ownerEnds(o)
    <3>1. PICK o \in Owners : addHandler(o) \/ ownerEnds(o)
      BY <2>2
    <3>2. /\ AddHandler(o) \in EmMsgs /\ ~IsEvent(AddHandler(o))
          /\ ExitOf(o) \in EmMsgs /\ ~IsEvent(ExitOf(o))
      BY EmMessages DEF AddHandler, ExitOf, IsEvent
    <3>3. /\ Events(Append(emInbox, AddHandler(o))) = Events(emInbox)
          /\ Events(Append(emInbox, ExitOf(o))) = Events(emInbox)
      BY <1>0, <3>2, EmQuiet
    <3>4. /\ Events(emInbox') = Events(emInbox)
          /\ UNCHANGED <<console, event_buffer, pending, events, late>>
      BY <3>1, <3>3 DEF addHandler, ownerEnds
    <3> QED
      BY <2>1, <3>4, LostKept DEF EmKept
  <2>3. \A e \in 1..events : ~fault /\ (e \in late => DbAlive) => e \in EmKept \cup DbKept
    BY DEF NothingLost, EmKept, DbKept
  <2>4. events \in Nat
    BY <1>0 DEF EmTypeOK
  <2>5. ASSUME late \subseteq late', EmKept \subseteq EmKept', events' = events + 1,
               events' \in EmKept' \/ (events' \in late' /\ ~DbAlive')
        PROVE  NothingLost'
    <3>1. \A e \in 1..events' : e \in 1..events \/ e = events'
      BY <2>4, <2>5
    <3>2. \A e \in 1..events' : ~fault' /\ (e \in late' => DbAlive') => e \in EmKept' \cup DbKept'
      BY <2>1, <2>3, <2>5, <3>1
    <3> QED
      BY <3>2 DEF NothingLost, EmKept, DbKept
  <2>6. CASE notify
    <3>1. CASE events' = events
      <4>1. UNCHANGED <<console, emInbox, event_buffer, pending, late>>
        BY <2>4, <2>6, <3>1 DEF notify
      <4> QED
        BY <2>1, <3>1, <4>1, LostKept DEF EmKept
    <3>2. CASE events' = events + 1 /\ console' = console \cup {events'}
      BY <2>5, <2>6, <3>2 DEF notify, EmKept
    <3> QED
      BY <2>6, <3>1, <3>2 DEF notify
  <2>7. CASE sender
    <3> DEFINE m == Notify(events')
    <3>1. m \in EmMsgs /\ IsEvent(m) /\ m.event = events'
      BY <2>4, <2>7, EmMessages DEF sender, notifySend, Notify, IsEvent
    <3>2. /\ emInbox' = IF emState = "up" THEN Append(emInbox, m) ELSE emInbox
          /\ late \subseteq late' /\ (Closing => events' \in late') /\ events' = events + 1
          /\ UNCHANGED <<console, event_buffer, pending>>
      BY <2>7 DEF sender, notifySend
    <3> HIDE DEF m
    <3>3. Events(Append(emInbox, m)) = Events(emInbox) \cup {m.event}
      BY <1>0, <3>1, AppendFacts
    <3>4. emState # "up" => Closing /\ ~DbAlive
      BY <1>0 DEF EmTypeOK, CallInv, Closing
    <3> QED
      BY <2>1, <2>5, <3>1, <3>2, <3>3, <3>4 DEF EmKept
  <2> QED
    BY <1>6, <2>2, <2>6, <2>7 DEF others
<1>7. CASE emKilled
  <2>1. /\ app = "event-mgr" /\ UNCHANGED dbVars /\ UNCHANGED <<console, events>>
        /\ late' = late \cup Events(emInbox) \cup ToSet(event_buffer) \cup ToSet(pending)
    BY <1>7 DEF emKilled
  <2>2. ~DbAlive /\ DbAlive' = DbAlive /\ DbKept' = DbKept /\ fault' = fault
    BY <2>1 DEF CallInv, DbKept, Underway, Worked, DbAlive, dbVars
  <2>3. \A e \in EmKept : e \in late' \/ e \in EmKept'
    BY <2>1 DEF EmKept
  <2> QED
    BY <2>1, <2>2, <2>3, LostKept
<1> QED
  BY <1>1, <1>2, <1>3, <1>4, <1>5, <1>6, <1>7 DEF Next

(* At first nothing has been sent. *)
LEMMA LostInit ==
  ASSUME Init
  PROVE  CallInv /\ FaultInv /\ EmLate /\ DbLate /\ NothingLost
<1>1. /\ dbState = "loop" /\ dbInbox = <<>> /\ dbWorker = None /\ fault = FALSE
      /\ emInbox = <<>> /\ pending = <<>> /\ registered = TRUE /\ log_handler = FALSE
      /\ emState = "up" /\ events = 0 /\ app = "start"
  BY DEF Init, DbInit, EmInit
<1>2. CallInv /\ EmLate
  BY <1>1, HasNone DEF CallInv, EmLate, SentryDone
<1>3. FaultInv
  BY <1>1 DEF FaultInv, Downs
<1>4. DbLate
  BY <1>1, HasNone DEF DbLate, Stopping
<1>5. NothingLost
  BY <1>1 DEF NothingLost
<1> QED
  BY <1>2, <1>3, <1>4, <1>5

(* As long as no worker fails or is given up, an event is on its way, in the *)
(* database or on the console: when startup fails, when the log handler fails *)
(* or its owner ends, and in the shutdown too unless the database server has  *)
(* ended and the event is late, that is, was sent after the supervisor began *)
(* to stop the sentry, was in the inbox of the manager when the sentry was   *)
(* given up, or was with a manager that was killed.                          *)
THEOREM NothingEverLost == Spec => []NothingLost
<1> DEFINE IInv == Base /\ CallInv /\ FaultInv /\ EmLate /\ DbLate /\ NothingLost
<1>1. Init => IInv
  BY BaseInit, LostInit
<1>2. IInv /\ [Next]_vars => IInv'
  BY BaseStep, CallStep, FaultStep, EmLateStep, DbLateStep, LostStep
<1>3. IInv => NothingLost
  OBVIOUS
<1> HIDE DEF IInv
<1> QED
  BY <1>1, <1>2, <1>3, PTL DEF Spec

=============================================================================
