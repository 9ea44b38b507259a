-------------------------- MODULE GatekeeperProofs --------------------------
(***************************************************************************)
(* Proofs about Gatekeeper, for any clients, resources and bounds.  A      *)
(* client that thinks it has a resource must have its mutex, although it   *)
(* may have given up calls that the server has yet to handle.  So the      *)
(* invariant follows each call: calls are handled in the order they are    *)
(* made (OrderInv), hence when an answer is there no older call is left,   *)
(* and the count of a mutex covers what its owner holds, what it has been  *)
(* granted and does not know yet, and the leaves under way (HeldInv).      *)
(*                                                                         *)
(* Without timeouts more holds (PatientInv): each process has one request  *)
(* at most, processes do not wait for each other in a cycle, so deadlock?  *)
(* ends, DOWNs and dead owners match, and the counts are exact.            *)
(***************************************************************************)
EXTENDS Gatekeeper, FiniteSetTheorems, FunctionTheorems,
        SequenceTheorems, WellFoundedInduction, TLAPS

(* A resource has one mutex at most. *)
Uniq(ms) == \A i, j \in 1..Len(ms) : ms[i].resource = ms[j].resource => i = j
UniqueInv == Uniq(mutexes)

(* Only those that are dead are DOWN. *)
DownInv == \A m \in Range(inbox) : m.type = "DOWN" => pc[m.process] = "dead"

(* What a client knows by itself. *)
Client(p) ==
  /\ pc[p] = "dead" => \A r \in Resources : held[p][r] = 0
  /\ ~Waiting(p) => reply[p] = None
  /\ Waiting(p) => res[p] \in Resources
  /\ pc[p] = "enter" => held[p][res[p]] < MaxDepth
ClientInv == \A p \in Clients : Client(p)

(* A call, and a call of p, in the server's inbox *)
IsCall(m) == m.type # "DOWN"
CallOf(p, m) == IsCall(m) /\ m.from.proc = p
Silent(p, box) == \A i \in 1..Len(box) : ~CallOf(p, box[i])

(* A process has at most one call under way that it has not given up, and    *)
(* that call is behind all the others it has made.                           *)
Sent(p, box) ==
  \A i \in 1..Len(box) : CallOf(p, box[i]) =>
    /\ box[i].from.tag <= tag[p]
    /\ pc[p] = "run" => box[i].from.tag # tag[p]
    /\ Waiting(p) /\ box[i].from.tag = tag[p] =>
         /\ box[i].type = pc[p] /\ box[i].resource = res[p]
         /\ \A j \in 1..Len(box) : CallOf(p, box[j]) => j <= i

(* The same for a call that waits in the queue of a mutex: it is an enter    *)
(* that has not been answered, and there is one place in one queue for it.   *)
Current(p, w) == w.proc = p /\ w.tag = tag[p]
Queued(p, ms) ==
  \A mx \in Range(ms) : \A j \in 1..Len(mx.waiters) :
    mx.waiters[j].proc = p =>
      /\ mx.waiters[j].tag <= tag[p]
      /\ pc[p] = "run" => mx.waiters[j].tag # tag[p]
      /\ Waiting(p) /\ mx.waiters[j].tag = tag[p] =>
           pc[p] = "enter" /\ mx.resource = res[p] /\ reply[p] = None
QueuedNow(p, ms) ==
  \E mx \in Range(ms) : \E j \in 1..Len(mx.waiters) : Current(p, mx.waiters[j])
QueuedOnce(p, ms) ==
  \A mx, nx \in Range(ms) : \A j \in 1..Len(mx.waiters), k \in 1..Len(nx.waiters) :
    Current(p, mx.waiters[j]) /\ Current(p, nx.waiters[k]) => mx = nx /\ j = k

(* The server takes calls in the order they are made: once the current call  *)
(* of p is answered or queued, no call of p is left in the inbox.            *)
Ordered(p) ==
  /\ Sent(p, inbox)
  /\ Queued(p, mutexes)
  /\ Waiting(p) => /\ reply[p] # None => Silent(p, inbox)
                   /\ QueuedNow(p, mutexes) => Silent(p, inbox)
                   /\ QueuedOnce(p, mutexes)
OrderInv == server # "failed" => \A p \in Clients : Ordered(p)

(* What a client has, or will know it has, is in its mutex, over and above    *)
(* what it has already asked to leave.                                       *)
LeaveIndices(p, r, box) ==
  {i \in 1..Len(box) : /\ box[i].type = "leave" /\ box[i].from.proc = p
                       /\ box[i].resource = r}
Leaves(p, r, box) == Cardinality(LeaveIndices(p, r, box))
Granted(p, r) == IF pc[p] = "enter" /\ res[p] = r /\ reply[p] = "ok" THEN 1 ELSE 0
Has(p, r) == held[p][r] + Granted(p, r)
Covered(p, r) ==
  Has(p, r) > 0 =>
    \E mx \in Range(mutexes) :
      /\ mx.resource = r /\ mx.process = p
      /\ mx.count >= Has(p, r) + Leaves(p, r, inbox)
HeldInv == \A p \in Clients, r \in Resources : Covered(p, r)

Inv == TypeOK /\ UniqueInv /\ DownInv /\ ClientInv /\ OrderInv /\ HeldInv

-----------------------------------------------------------------------------
(* Sequences *)

(* A set of naturals that is not empty has a least element. *)
LEMMA Minimum ==
  ASSUME NEW S, S \subseteq Nat, S # {}
  PROVE  \E i \in S : \A j \in S : i <= j
<1>1. PICK x \in S : \A y \in S : ~ (<<y, x>> \in OpToRel(<, Nat))
  BY NatLessThanWellFounded, WFMin
<1>2. ASSUME NEW y \in S
      PROVE  x <= y
  <2>1. <<y, x>> \in Nat \X Nat
    OBVIOUS
  <2>2. ~(y < x)
    BY <1>1, <2>1 DEF OpToRel
  <2>3. QED
    BY <2>2
<1>3. QED
  BY <1>2

(* First picks an element of the list. *)
LEMMA FirstIn ==
  ASSUME NEW ms, NEW I, Len(ms) \in Nat, I \subseteq 1..Len(ms), I # {}
  PROVE  \E i \in I : First(ms, I) = ms[i]
<1>1. I \subseteq Nat
  OBVIOUS
<1>2. \E i \in I : \A j \in I : i <= j
  BY <1>1, Minimum
<1>3. QED
  BY <1>2 DEF First

(* RemoveAt, element by element *)
LEMMA RemovedAt ==
  ASSUME NEW T, NEW s \in Seq(T), NEW i \in 1..Len(s)
  PROVE  /\ RemoveAt(s, i) \in Seq(T)
         /\ Len(RemoveAt(s, i)) = Len(s) - 1
         /\ \A j \in 1..(Len(s) - 1) : RemoveAt(s, i)[j] = IF j < i THEN s[j] ELSE s[j + 1]
<1> DEFINE f == SubSeq(s, 1, i - 1)
           g == SubSeq(s, i + 1, Len(s))
<1>1. f \in Seq(T) /\ Len(f) = i - 1 /\ \A j \in 1..(i - 1) : f[j] = s[j]
  BY SubSeqProperties
<1>2. g \in Seq(T) /\ Len(g) = Len(s) - i /\ \A j \in 1..(Len(s) - i) : g[j] = s[i + j]
  BY SubSeqProperties
<1>3. RemoveAt(s, i) = f \o g
  BY DEF RemoveAt
<1> HIDE DEF f, g
<1>4. f \o g \in Seq(T) /\ Len(f \o g) = Len(s) - 1
  <2>1. Len(s) \in Nat /\ i \in Int
    OBVIOUS
  <2>2. f \o g \in Seq(T) /\ Len(f \o g) = Len(f) + Len(g)
    BY <1>1, <1>2, ConcatProperties
  <2>3. QED
    BY <1>1, <1>2, <2>1, <2>2
<1>5. ASSUME NEW j \in 1..(Len(s) - 1)
      PROVE  (f \o g)[j] = IF j < i THEN s[j] ELSE s[j + 1]
  <2>1. CASE j < i
    BY <1>1, <1>2, <2>1
  <2>2. CASE ~(j < i)
    <3>1. (f \o g)[j] = g[j - (i - 1)]
      BY <1>1, <1>2, <2>2
    <3>2. j - (i - 1) \in 1..(Len(s) - i) /\ i + (j - (i - 1)) = j + 1
      BY <2>2
    <3>3. QED
      BY <1>2, <2>2, <3>1, <3>2
  <2>3. QED
    BY <2>1, <2>2
<1>6. QED
  BY <1>3, <1>4, <1>5

(* RemoveFirst removes one element or nothing. *)
LEMMA RemovedFirst ==
  ASSUME NEW T, NEW s \in Seq(T), NEW e
  PROVE  \/ RemoveFirst(s, e) = s /\ \A i \in 1..Len(s) : s[i] # e
         \/ \E i \in 1..Len(s) : s[i] = e /\ RemoveFirst(s, e) = RemoveAt(s, i)
<1> DEFINE I == {i \in 1..Len(s) : s[i] = e}
<1>1. CASE I = {}
  BY <1>1 DEF RemoveFirst
<1>2. CASE I # {}
  <2>0. I \subseteq Nat
    OBVIOUS
  <2>1. \E i \in I : \A j \in I : i <= j
    BY <1>2, <2>0, Minimum
  <2>2. Min(I) \in I
    BY <2>1 DEF Min
  <2>3. RemoveFirst(s, e) = RemoveAt(s, Min(I))
    BY <1>2 DEF RemoveFirst, SelectInSeq
  <2>4. QED
    BY <2>2, <2>3
<1>3. QED
  BY <1>1, <1>2

-----------------------------------------------------------------------------
(* The list of mutexes *)

(* A resource tells which mutex is meant. *)
LEMMA OneMutex ==
  ASSUME NEW ms \in Seq(MutexTuples), Uniq(ms), NEW mx \in Range(ms), NEW nx \in Range(ms),
         mx.resource = nx.resource
  PROVE  mx = nx
BY DEF Range, Uniq

(* remq *)
LEMMA Removed ==
  ASSUME NEW ms \in Seq(MutexTuples), Uniq(ms), NEW mx \in Range(ms)
  PROVE  /\ Remq(mx, ms) \in Seq(MutexTuples) /\ Uniq(Remq(mx, ms))
         /\ Range(Remq(mx, ms)) = Range(ms) \ {mx}
         /\ \A nx \in Range(Remq(mx, ms)) : nx.resource # mx.resource
<1>1. PICK i \in 1..Len(ms) : ms[i] = mx /\ Remq(mx, ms) = RemoveAt(ms, i)
  BY RemovedFirst DEF Remq, Range
<1> DEFINE t == RemoveAt(ms, i)
<1>2. /\ t \in Seq(MutexTuples) /\ Len(t) = Len(ms) - 1
      /\ \A j \in 1..(Len(ms) - 1) : t[j] = IF j < i THEN ms[j] ELSE ms[j + 1]
  BY RemovedAt
<1> HIDE DEF t
<1>3. Uniq(t)
  BY <1>2 DEF Uniq
<1>4. \A nx \in Range(t) : nx \in Range(ms) /\ nx.resource # mx.resource
  <2>1. ASSUME NEW j \in 1..Len(t)
        PROVE  t[j] \in Range(ms) /\ t[j].resource # mx.resource
    <3>1. PICK k \in 1..Len(ms) : t[j] = ms[k] /\ k # i
      BY <1>2
    <3>2. QED
      BY <1>1, <3>1 DEF Range, Uniq
  <2>2. QED
    BY <1>2, <2>1 DEF Range
<1>5. \A nx \in Range(ms) : nx # mx => nx \in Range(t)
  <2>1. ASSUME NEW j \in 1..Len(ms), ms[j] # mx
        PROVE  ms[j] \in Range(t)
    <3>1. CASE j < i
      BY <1>2, <3>1 DEF Range
    <3>2. CASE j > i
      <4>1. j - 1 \in 1..(Len(ms) - 1) /\ ~(j - 1 < i) /\ (j - 1) + 1 = j
        BY <3>2
      <4>2. t[j - 1] = ms[j]
        BY <1>2, <4>1
      <4>3. QED
        BY <1>2, <4>1, <4>2 DEF Range
    <3>3. QED
      BY <1>1, <2>1, <3>1, <3>2
  <2>2. QED
    BY <2>1 DEF Range
<1>6. mx \notin Range(t)
  BY <1>4
<1>7. Range(t) = Range(ms) \ {mx}
  BY <1>4, <1>5, <1>6
<1>8. QED
  BY <1>1, <1>2, <1>3, <1>4, <1>7 DEF t

(* A mutex in front of the others *)
LEMMA Pushed ==
  ASSUME NEW ms \in Seq(MutexTuples), Uniq(ms), NEW x \in MutexTuples,
         \A mx \in Range(ms) : mx.resource # x.resource
  PROVE  /\ <<x>> \o ms \in Seq(MutexTuples) /\ Uniq(<<x>> \o ms)
         /\ Range(<<x>> \o ms) = Range(ms) \cup {x}
<1> DEFINE t == <<x>> \o ms
<1>1. /\ t \in Seq(MutexTuples) /\ Len(t) = Len(ms) + 1 /\ t[1] = x
      /\ \A j \in 1..Len(ms) : t[j + 1] = ms[j]
  OBVIOUS
<1> HIDE DEF t
<1>2. \A j \in 1..Len(t) : j = 1 \/ (j - 1 \in 1..Len(ms) /\ t[j] = ms[j - 1])
  <2>1. ASSUME NEW j \in 1..Len(t), j # 1
        PROVE  j - 1 \in 1..Len(ms) /\ t[j] = ms[j - 1]
    <3>1. j - 1 \in 1..Len(ms) /\ (j - 1) + 1 = j
      BY <1>1, <2>1
    <3>2. QED
      BY <1>1, <3>1
  <2>2. QED
    BY <2>1
<1>3. Uniq(t)
  <2>1. SUFFICES ASSUME NEW i \in 1..Len(t), NEW j \in 1..Len(t), t[i].resource = t[j].resource
                 PROVE  i = j
    BY DEF Uniq
  <2>2. \A k \in 1..Len(ms) : ms[k].resource # x.resource
    BY DEF Range
  <2>3. CASE i = 1 \/ j = 1
    BY <1>1, <1>2, <2>1, <2>2, <2>3
  <2>4. CASE i # 1 /\ j # 1
    <3>0. /\ i - 1 \in 1..Len(ms) /\ t[i] = ms[i - 1]
          /\ j - 1 \in 1..Len(ms) /\ t[j] = ms[j - 1]
      BY <1>2, <2>4
    <3>1. i - 1 = j - 1
      BY <2>1, <3>0 DEF Uniq
    <3>2. QED
      BY <1>1, <3>1
  <2>5. QED
    BY <2>3, <2>4
<1>4. Range(t) = Range(ms) \cup {x}
  <2>1. Range(t) \subseteq Range(ms) \cup {x}
    BY <1>1, <1>2 DEF Range
  <2>2. ASSUME NEW j \in 1..Len(ms)
        PROVE  ms[j] \in Range(t)
    <3>1. j + 1 \in 1..Len(t) /\ t[j + 1] = ms[j]
      BY <1>1
    <3>2. QED
      BY <1>1, <3>1 DEF Range
  <2>3. x \in Range(t)
    BY <1>1 DEF Range
  <2>4. QED
    BY <2>1, <2>2, <2>3 DEF Range
<1>5. QED
  BY <1>1, <1>3, <1>4 DEF t

-----------------------------------------------------------------------------
(* The inbox *)

(* The calls of t are calls of s, in the same order. *)
Thins(s, t) ==
  \E f \in [1..Len(t) -> Nat] :
    \A i \in 1..Len(t) : IsCall(t[i]) =>
      /\ f[i] \in 1..Len(s) /\ s[f[i]] = t[i]
      /\ \A j \in 1..Len(t) : IsCall(t[j]) /\ i < j => f[i] < f[j]

(* An inbox thins itself. *)
LEMMA ThinsSame ==
  ASSUME NEW s \in Seq(Msgs)
  PROVE  Thins(s, s)
<1> DEFINE f == [i \in 1..Len(s) |-> i]
<1>1. f \in [1..Len(s) -> Nat] /\ \A i \in 1..Len(s) : f[i] = i
  OBVIOUS
<1> HIDE DEF f
<1>2. QED
  BY <1>1 DEF Thins

(* Thinning twice is thinning. *)
LEMMA ThinsTrans ==
  ASSUME NEW s \in Seq(Msgs), NEW t \in Seq(Msgs), NEW u \in Seq(Msgs),
         Thins(s, t), Thins(t, u)
  PROVE  Thins(s, u)
<1>1. PICK f \in [1..Len(t) -> Nat] :
        \A i \in 1..Len(t) : IsCall(t[i]) =>
          /\ f[i] \in 1..Len(s) /\ s[f[i]] = t[i]
          /\ \A j \in 1..Len(t) : IsCall(t[j]) /\ i < j => f[i] < f[j]
  BY DEF Thins
<1>2. PICK g \in [1..Len(u) -> Nat] :
        \A i \in 1..Len(u) : IsCall(u[i]) =>
          /\ g[i] \in 1..Len(t) /\ t[g[i]] = u[i]
          /\ \A j \in 1..Len(u) : IsCall(u[j]) /\ i < j => g[i] < g[j]
  BY DEF Thins
<1> DEFINE h == [i \in 1..Len(u) |-> IF IsCall(u[i]) THEN f[g[i]] ELSE 0]
<1>3. /\ h \in [1..Len(u) -> Nat]
      /\ \A i \in 1..Len(u) : IsCall(u[i]) => h[i] = f[g[i]]
  BY <1>1, <1>2
<1> HIDE DEF h
<1>4. ASSUME NEW i \in 1..Len(u), IsCall(u[i])
      PROVE  /\ h[i] \in 1..Len(s) /\ s[h[i]] = u[i]
             /\ \A j \in 1..Len(u) : IsCall(u[j]) /\ i < j => h[i] < h[j]
  <2>1. g[i] \in 1..Len(t) /\ t[g[i]] = u[i] /\ IsCall(t[g[i]])
    BY <1>2, <1>4
  <2>2. h[i] \in 1..Len(s) /\ s[h[i]] = u[i]
    BY <1>1, <1>3, <1>4, <2>1
  <2>3. ASSUME NEW j \in 1..Len(u), IsCall(u[j]), i < j
        PROVE  h[i] < h[j]
    <3>1. g[j] \in 1..Len(t) /\ IsCall(t[g[j]]) /\ g[i] < g[j]
      BY <1>2, <1>4, <2>3
    <3>2. f[g[i]] < f[g[j]]
      BY <1>1, <2>1, <3>1
    <3>3. QED
      BY <1>3, <1>4, <2>3, <3>2
  <2>4. QED
    BY <2>2, <2>3
<1>5. QED
  BY <1>3, <1>4 DEF Thins

(* Taking the first message thins an inbox. *)
LEMMA ThinsTail ==
  ASSUME NEW s \in Seq(Msgs), s # <<>>
  PROVE  /\ Tail(s) \in Seq(Msgs) /\ Thins(s, Tail(s))
         /\ Len(Tail(s)) = Len(s) - 1 /\ \A i \in 1..(Len(s) - 1) : Tail(s)[i] = s[i + 1]
         /\ Head(s) \in Msgs /\ Head(s) = s[1] /\ Len(s) >= 1
<1>1. Len(s) \in Nat /\ Len(s) >= 1
  OBVIOUS
<1>2. /\ Tail(s) \in Seq(Msgs) /\ Len(Tail(s)) = Len(s) - 1
      /\ Head(s) \in Msgs /\ Head(s) = s[1]
  OBVIOUS
<1>3. \A i \in 1..(Len(s) - 1) : Tail(s)[i] = s[i + 1]
  BY <1>1
<1> DEFINE t == Tail(s)
           f == [i \in 1..Len(t) |-> i + 1]
<1>4. f \in [1..Len(t) -> Nat] /\ \A i \in 1..Len(t) : f[i] = i + 1
  OBVIOUS
<1>5. /\ t \in Seq(Msgs) /\ Len(t) = Len(s) - 1
      /\ \A i \in 1..(Len(s) - 1) : t[i] = s[i + 1]
  BY <1>2, <1>3
<1> HIDE DEF f, t
<1>6. Thins(s, t)
  BY <1>1, <1>4, <1>5 DEF Thins
<1>7. QED
  BY <1>1, <1>2, <1>3, <1>6 DEF t

(* demonitor&flush *)
LEMMA ThinsFlush ==
  ASSUME NEW s \in Seq(Msgs), NEW mx
  PROVE  /\ Flush(s, mx) \in Seq(Msgs) /\ Thins(s, Flush(s, mx))
         /\ Range(Flush(s, mx)) \subseteq Range(s)
<1>1. CASE Flush(s, mx) = s
  BY <1>1, ThinsSame
<1>2. ASSUME NEW i \in 1..Len(s), Flush(s, mx) = RemoveAt(s, i)
      PROVE  /\ Flush(s, mx) \in Seq(Msgs) /\ Thins(s, Flush(s, mx))
             /\ Range(Flush(s, mx)) \subseteq Range(s)
  <2> DEFINE t == Flush(s, mx)
             f == [j \in 1..Len(t) |-> IF j < i THEN j ELSE j + 1]
  <2>1. /\ t \in Seq(Msgs) /\ Len(t) = Len(s) - 1
        /\ \A j \in 1..(Len(s) - 1) : t[j] = IF j < i THEN s[j] ELSE s[j + 1]
    BY <1>2, RemovedAt
  <2>2. /\ f \in [1..Len(t) -> Nat]
        /\ \A j \in 1..Len(t) : f[j] = IF j < i THEN j ELSE j + 1
    OBVIOUS
  <2> HIDE DEF f, t
  <2>3. \A j \in 1..Len(t) : f[j] \in 1..Len(s) /\ s[f[j]] = t[j]
    BY <2>1, <2>2
  <2>4. \A j, k \in 1..Len(t) : j < k => f[j] < f[k]
    BY <2>1, <2>2
  <2>5. Thins(s, t)
    BY <2>2, <2>3, <2>4 DEF Thins
  <2>6. Range(t) \subseteq Range(s)
    BY <2>1, <2>3, SMTT(30) DEF Range
  <2>7. QED
    BY <2>1, <2>5, <2>6 DEF t
<1>3. QED
  BY <1>1, <1>2, RemovedFirst DEF Flush

(* DOWN messages are no calls. *)
LEMMA ThinsDowns ==
  ASSUME NEW s \in Seq(Msgs), NEW d \in Seq(Msgs), \A i \in 1..Len(d) : d[i].type = "DOWN"
  PROVE  s \o d \in Seq(Msgs) /\ Thins(s, s \o d) /\ Range(s \o d) = Range(s) \cup Range(d)
<1> DEFINE t == s \o d
           f == [i \in 1..Len(t) |-> i]
<1>1. /\ t \in Seq(Msgs) /\ Len(t) = Len(s) + Len(d)
      /\ \A i \in 1..Len(t) : t[i] = IF i <= Len(s) THEN s[i] ELSE d[i - Len(s)]
      /\ Range(t) = Range(s) \cup Range(d)
  BY ConcatProperties, RangeConcatenation
<1>2. f \in [1..Len(t) -> Nat] /\ \A i \in 1..Len(t) : f[i] = i
  BY <1>1
<1> HIDE DEF f, t
<1>3. Len(s) \in Nat /\ Len(d) \in Nat
  OBVIOUS
<1>4. ASSUME NEW i \in 1..Len(t), IsCall(t[i])
      PROVE  i \in 1..Len(s) /\ t[i] = s[i]
  <2>1. CASE i <= Len(s)
    BY <1>1, <1>3, <2>1
  <2>2. CASE ~(i <= Len(s))
    <3>1. i - Len(s) \in 1..Len(d)
      BY <1>1, <1>3, <2>2
    <3>2. QED
      BY <1>1, <1>4, <2>2, <3>1 DEF IsCall
  <2>3. QED
    BY <2>1, <2>2
<1>5. Thins(s, t)
  BY <1>2, <1>4 DEF Thins
<1>6. QED
  BY <1>1, <1>5 DEF t

(* An inbox without a call of p has none when it is thinner. *)
LEMMA ThinsSilent ==
  ASSUME NEW s \in Seq(Msgs), NEW t \in Seq(Msgs), Thins(s, t), NEW p, Silent(p, s)
  PROVE  Silent(p, t)
BY DEF Thins, Silent, CallOf

(* The order of the calls of p survives thinning. *)
LEMMA ThinsSent ==
  ASSUME NEW s \in Seq(Msgs), NEW t \in Seq(Msgs), Thins(s, t), NEW p \in Clients, Sent(p, s)
  PROVE  Sent(p, t)
<1>1. PICK f \in [1..Len(t) -> Nat] :
        \A i \in 1..Len(t) : IsCall(t[i]) =>
          /\ f[i] \in 1..Len(s) /\ s[f[i]] = t[i]
          /\ \A j \in 1..Len(t) : IsCall(t[j]) /\ i < j => f[i] < f[j]
  BY DEF Thins
<1>2. SUFFICES ASSUME NEW i \in 1..Len(t), CallOf(p, t[i])
               PROVE  /\ t[i].from.tag <= tag[p]
                      /\ pc[p] = "run" => t[i].from.tag # tag[p]
                      /\ Waiting(p) /\ t[i].from.tag = tag[p] =>
                           /\ t[i].type = pc[p] /\ t[i].resource = res[p]
                           /\ \A j \in 1..Len(t) : CallOf(p, t[j]) => j <= i
  BY DEF Sent
<1>3. f[i] \in 1..Len(s) /\ s[f[i]] = t[i] /\ CallOf(p, s[f[i]])
  BY <1>1, <1>2 DEF CallOf
<1>4. /\ t[i].from.tag <= tag[p]
      /\ pc[p] = "run" => t[i].from.tag # tag[p]
      /\ Waiting(p) /\ t[i].from.tag = tag[p] =>
           /\ t[i].type = pc[p] /\ t[i].resource = res[p]
           /\ \A j \in 1..Len(s) : CallOf(p, s[j]) => j <= f[i]
  BY <1>3 DEF Sent
<1>5. ASSUME Waiting(p), t[i].from.tag = tag[p], NEW j \in 1..Len(t), CallOf(p, t[j])
      PROVE  j <= i
  <2>1. f[j] \in 1..Len(s) /\ CallOf(p, s[f[j]])
    BY <1>1, <1>5 DEF CallOf
  <2>2. f[j] <= f[i]
    BY <1>4, <1>5, <2>1
  <2>3. ~(i < j)
    BY <1>1, <1>2, <1>3, <1>5, <2>1, <2>2 DEF CallOf
  <2>4. QED
    BY <2>3
<1>6. QED
  BY <1>4, <1>5

(* How many leaves of p are on their way *)
LEMMA LeavesType ==
  ASSUME NEW s \in Seq(Msgs), NEW p, NEW r
  PROVE  IsFiniteSet(LeaveIndices(p, r, s)) /\ Leaves(p, r, s) \in Nat
<1>1. IsFiniteSet(1..Len(s)) /\ LeaveIndices(p, r, s) \in SUBSET (1..Len(s))
  BY FS_Interval DEF LeaveIndices
<1>2. QED
  BY <1>1, FS_Subset, FS_CardinalityType DEF Leaves

(* A thinner inbox has no more leaves. *)
LEMMA LeavesThin ==
  ASSUME NEW s \in Seq(Msgs), NEW t \in Seq(Msgs), Thins(s, t), NEW p, NEW r
  PROVE  Leaves(p, r, t) <= Leaves(p, r, s)
<1>1. PICK f \in [1..Len(t) -> Nat] :
        \A i \in 1..Len(t) : IsCall(t[i]) =>
          /\ f[i] \in 1..Len(s) /\ s[f[i]] = t[i]
          /\ \A j \in 1..Len(t) : IsCall(t[j]) /\ i < j => f[i] < f[j]
  BY DEF Thins
<1> DEFINE I == LeaveIndices(p, r, t)
           J == LeaveIndices(p, r, s)
           g == [i \in I |-> f[i]]
<1>2. \A i \in I : i \in 1..Len(t) /\ IsCall(t[i])
  BY DEF LeaveIndices, IsCall
<1>3. \A i \in I : f[i] \in J
  BY <1>1 DEF LeaveIndices, IsCall
<1>4. \A i, j \in I : f[i] = f[j] => i = j
  <2>1. ASSUME NEW i \in I, NEW j \in I, i < j
        PROVE  f[i] < f[j]
    BY <1>1, <1>2, <2>1
  <2>2. \A i \in I : i \in Int /\ f[i] \in Int
    BY <1>1, <1>2
  <2>3. QED
    BY <2>1, <2>2
<1> HIDE DEF I, J
<1>5. g \in [I -> J] /\ \A i, j \in I : g[i] = g[j] => i = j
  BY <1>3, <1>4
<1>6. g \in Injection(I, J)
  BY <1>5 DEF Injection, IsInjective
<1>7. IsFiniteSet(J)
  BY LeavesType DEF J
<1>8. Cardinality(I) <= Cardinality(J)
  BY <1>6, <1>7, FS_Injection
<1>9. QED
  BY <1>8 DEF Leaves, I, J

(* Taking a leave leaves one less. *)
LEMMA LeavesTail ==
  ASSUME NEW s \in Seq(Msgs), s # <<>>, NEW p, NEW r,
         Head(s).type = "leave", Head(s).from.proc = p, Head(s).resource = r
  PROVE  Leaves(p, r, Tail(s)) + 1 <= Leaves(p, r, s)
<1> DEFINE t == Tail(s)
           I == LeaveIndices(p, r, t)
           J == LeaveIndices(p, r, s)
           g == [i \in I |-> i + 1]
<1>1. /\ t \in Seq(Msgs) /\ Len(t) = Len(s) - 1 /\ \A i \in 1..(Len(s) - 1) : t[i] = s[i + 1]
      /\ Head(s) = s[1] /\ Len(s) >= 1
  BY ThinsTail
<1> HIDE DEF t
<1>2. 1 \in J
  BY <1>1 DEF LeaveIndices
<1>3. \A i \in I : i \in Int /\ i + 1 \in J \ {1}
  BY <1>1 DEF LeaveIndices
<1>4. IsFiniteSet(J)
  BY LeavesType
<1>5. Cardinality(J) \in Nat
  BY <1>4, FS_CardinalityType
<1> HIDE DEF I, J
<1>6. g \in [I -> J \ {1}] /\ \A i, j \in I : g[i] = g[j] => i = j
  BY <1>3
<1>7. g \in Injection(I, J \ {1})
  BY <1>6 DEF Injection, IsInjective
<1>8. IsFiniteSet(J \ {1}) /\ Cardinality(J \ {1}) = Cardinality(J) - 1
  BY <1>2, <1>4, FS_RemoveElement
<1>9. Cardinality(I) <= Cardinality(J) - 1 /\ IsFiniteSet(I)
  BY <1>7, <1>8, FS_Injection
<1>10. Cardinality(I) \in Nat
  BY <1>9, FS_CardinalityType
<1>11. Cardinality(I) + 1 <= Cardinality(J)
  BY <1>5, <1>9, <1>10
<1>12. QED
  BY <1>11 DEF Leaves, I, J, t

(* A client that has no call in the inbox has no leave there. *)
LEMMA LeavesSilent ==
  ASSUME NEW s \in Seq(Msgs), NEW p, NEW r, Silent(p, s)
  PROVE  Leaves(p, r, s) = 0
<1>1. LeaveIndices(p, r, s) = {}
  BY DEF LeaveIndices, Silent, CallOf, IsCall
<1>2. QED
  BY <1>1, FS_EmptySet DEF Leaves

(* A message adds at most one leave, and only its own. *)
LEMMA LeavesAppend ==
  ASSUME NEW s \in Seq(Msgs), NEW m \in Msgs, NEW p, NEW r
  PROVE  /\ Leaves(p, r, Append(s, m)) <= Leaves(p, r, s) + 1
         /\ ~(m.type = "leave" /\ m.from.proc = p /\ m.resource = r) =>
              Leaves(p, r, Append(s, m)) <= Leaves(p, r, s)
<1> DEFINE t == Append(s, m)
           I == LeaveIndices(p, r, s)
           J == LeaveIndices(p, r, t)
           n == Len(s) + 1
<1>1. /\ t \in Seq(Msgs) /\ Len(t) = n /\ t[n] = m
      /\ \A i \in 1..Len(s) : t[i] = s[i]
  BY AppendProperties
<1>2. Len(s) \in Nat
  OBVIOUS
<1> HIDE DEF t
<1>3. J \in SUBSET (I \cup {n})
  BY <1>1, <1>2 DEF LeaveIndices
<1>4. ~(m.type = "leave" /\ m.from.proc = p /\ m.resource = r) => J \in SUBSET I
  BY <1>1, <1>2 DEF LeaveIndices
<1>5. IsFiniteSet(I) /\ Cardinality(I) \in Nat
  BY LeavesType, FS_CardinalityType
<1> HIDE DEF I, J, n
<1>6. IsFiniteSet(I \cup {n}) /\ Cardinality(I \cup {n}) <= Cardinality(I) + 1
  <2>1. /\ IsFiniteSet(I \cup {n})
        /\ Cardinality(I \cup {n}) = IF n \in I THEN Cardinality(I) ELSE Cardinality(I) + 1
    BY <1>5, FS_AddElement
  <2>2. QED
    BY <1>5, <2>1
<1>7. IsFiniteSet(J) /\ Cardinality(J) <= Cardinality(I \cup {n})
  BY <1>3, <1>6, FS_Subset
<1>8. Cardinality(J) \in Nat /\ Cardinality(I \cup {n}) \in Nat
  BY <1>6, <1>7, FS_CardinalityType
<1>9. Cardinality(J) <= Cardinality(I) + 1
  BY <1>5, <1>6, <1>7, <1>8
<1>10. J \in SUBSET I => Cardinality(J) <= Cardinality(I)
  BY <1>5, FS_Subset
<1>11. QED
  BY <1>4, <1>9, <1>10 DEF Leaves, I, J, t

-----------------------------------------------------------------------------
(* What the handlers of the server do *)

Calls == [type : {"enter", "leave"}, from : Froms, resource : Resources]
Downs == [type : {"DOWN"}, process : Clients, resource : Resources]

(* box has lost calls, and has gained DOWNs of those that are dead. *)
Delivers(box, new) ==
  /\ new \in Seq(Msgs) /\ Thins(box, new)
  /\ \A m \in Range(new) : m \in Range(box) \/ (m.type = "DOWN" /\ pc[m.process] = "dead")

(* Mutex mx has become nx. *)
Swapped(mx, nx) ==
  /\ mutexes' \in Seq(MutexTuples) /\ Uniq(mutexes')
  /\ Range(mutexes') = (Range(mutexes) \ {mx}) \cup {nx}
Dropped(mx) ==
  /\ mutexes' \in Seq(MutexTuples) /\ Uniq(mutexes')
  /\ Range(mutexes') = Range(mutexes) \ {mx}

New(r, p, waiters) == [resource |-> r, process |-> p, count |-> 1, waiters |-> waiters]
Passed(mx) == New(mx.resource, Head(mx.waiters).proc, Tail(mx.waiters))

(* What the message that the server takes can be. *)
LEMMA Received ==
  ASSUME TypeOK, inbox # <<>>
  PROVE  /\ Head(inbox).type \in {"enter", "leave"} => Head(inbox) \in Calls
         /\ Head(inbox).type = "DOWN" => Head(inbox) \in Downs
         /\ Tail(inbox) \in Seq(Msgs) /\ Thins(inbox, Tail(inbox))
         /\ Head(inbox) = inbox[1] /\ Len(inbox) >= 1
         /\ Range(Tail(inbox)) \subseteq Range(inbox) /\ Head(inbox) \in Range(inbox)
<1>1. inbox \in Seq(Msgs)
  BY DEF TypeOK
<1>2. /\ Tail(inbox) \in Seq(Msgs) /\ Thins(inbox, Tail(inbox))
      /\ Len(Tail(inbox)) = Len(inbox) - 1
      /\ \A i \in 1..(Len(inbox) - 1) : Tail(inbox)[i] = inbox[i + 1]
      /\ Head(inbox) \in Msgs /\ Head(inbox) = inbox[1] /\ Len(inbox) >= 1
  BY <1>1, ThinsTail
<1> DEFINE m == Head(inbox)
           t == Tail(inbox)
<1> HIDE DEF m, t
<1>3. /\ m.type \in {"enter", "leave"} => m \in Calls
      /\ m.type = "DOWN" => m \in Downs
  <2>1. m \in Calls \/ m \in Downs
    BY <1>2 DEF m, Msgs, Calls, Downs
  <2>2. QED
    BY <2>1 DEF Calls, Downs
<1>4. Range(t) \subseteq Range(inbox) /\ Head(inbox) \in Range(inbox)
  <2>1. DOMAIN t = 1..(Len(inbox) - 1) /\ DOMAIN inbox = 1..Len(inbox)
    BY <1>1, <1>2 DEF t
  <2>2. \A i \in 1..(Len(inbox) - 1) : t[i] = inbox[i + 1] /\ i + 1 \in 1..Len(inbox)
    BY <1>1, <1>2 DEF t
  <2>3. QED
    BY <1>1, <1>2, <2>1, <2>2 DEF Range
<1>5. QED
  BY <1>2, <1>3, <1>4 DEF m, t

(* monitor delivers at most a DOWN. *)
LEMMA Monitored ==
  ASSUME NEW box \in Seq(Msgs), NEW r \in Resources, NEW p \in Clients
  PROVE  Delivers(box, Monitor(box, r, p))
<1>1. CASE pc[p] = "dead"
  <2> DEFINE x == DOWNmsg(r, p)
             d == <<x>>
  <2>1. x \in Msgs /\ x.type = "DOWN" /\ x.process = p
    BY DEF Msgs, DOWNmsg
  <2>2. Monitor(box, r, p) = box \o d
    BY <1>1, <2>1, AppendIsConcat DEF Monitor
  <2> HIDE DEF x
  <2>3. d \in Seq(Msgs) /\ Len(d) = 1 /\ d[1] = x /\ Range(d) = {x}
    BY <2>1 DEF Range
  <2> HIDE DEF d
  <2>4. box \o d \in Seq(Msgs) /\ Thins(box, box \o d) /\ Range(box \o d) = Range(box) \cup Range(d)
    BY <2>1, <2>3, ThinsDowns
  <2>5. QED
    BY <1>1, <2>1, <2>2, <2>3, <2>4 DEF Delivers
<1>2. CASE pc[p] # "dead"
  BY <1>2, ThinsSame DEF Monitor, Delivers
<1>3. QED
  BY <1>1, <1>2

(* leave-mutex drops the mutex, or passes it to the first that waits. *)
LEMMA LeaveMutexEffect ==
  ASSUME TypeOK, UniqueInv, NEW mx \in Range(mutexes), NEW box \in Seq(Msgs), NEW rep,
         LeaveMutex(mx, box, rep)
  PROVE  /\ Delivers(box, inbox')
         /\ \/ mx.waiters = <<>> /\ Dropped(mx) /\ reply' = rep
            \/ /\ mx.waiters # <<>> /\ Swapped(mx, Passed(mx))
               /\ reply' = Reply(rep, Head(mx.waiters), "ok")
<1> DEFINE flushed == Flush(box, mx)
           others == Remq(mx, mutexes)
<1>1. mutexes \in Seq(MutexTuples) /\ mx \in MutexTuples
  BY DEF TypeOK, Range
<1>2. /\ others \in Seq(MutexTuples) /\ Uniq(others) /\ Range(others) = Range(mutexes) \ {mx}
      /\ \A nx \in Range(others) : nx.resource # mx.resource
  BY <1>1, Removed DEF UniqueInv
<1>3. flushed \in Seq(Msgs) /\ Thins(box, flushed) /\ Range(flushed) \subseteq Range(box)
  BY ThinsFlush
<1>4. IF mx.waiters = <<>>
      THEN mutexes' = others /\ inbox' = flushed /\ reply' = rep
      ELSE EnterMutex(mx.resource, Head(mx.waiters), Tail(mx.waiters), others, flushed, rep)
  BY DEF LeaveMutex
<1> HIDE DEF flushed, others
<1>5. CASE mx.waiters = <<>>
  BY <1>2, <1>3, <1>4, <1>5 DEF Delivers, Dropped
<1>6. CASE mx.waiters # <<>>
  <2>1. mx.waiters \in Seq(Froms) /\ mx.resource \in Resources
    BY <1>1 DEF MutexTuples
  <2>2. Head(mx.waiters) \in Froms /\ Tail(mx.waiters) \in Seq(Froms)
    BY <1>6, <2>1
  <2>3. Head(mx.waiters).proc \in Clients
    BY <2>2 DEF Froms
  <2>4. Passed(mx) \in MutexTuples /\ Passed(mx).resource = mx.resource
    BY <2>1, <2>2, <2>3 DEF Passed, New, MutexTuples
  <2>5. /\ reply' = Reply(rep, Head(mx.waiters), "ok")
        /\ mutexes' = <<Passed(mx)>> \o others
        /\ inbox' = Monitor(flushed, mx.resource, Head(mx.waiters).proc)
    BY <1>4, <1>6 DEF EnterMutex, Passed, New
  <2>6. Swapped(mx, Passed(mx))
    BY <1>2, <2>4, <2>5, Pushed DEF Swapped
  <2>7. Delivers(flushed, inbox')
    BY <1>3, <2>1, <2>3, <2>5, Monitored
  <2>8. Delivers(box, inbox')
    BY <1>3, <2>7, ThinsTrans DEF Delivers
  <2>9. QED
    BY <1>6, <2>5, <2>6, <2>8
<1>7. QED
  BY <1>5, <1>6

(* enter of a resource nobody has: a new mutex. *)
LEMMA EnterFreeEffect ==
  ASSUME TypeOK, UniqueInv, HandleEnterFree
  PROVE  /\ Head(inbox) \in Calls /\ Head(inbox).type = "enter"
         /\ \A mx \in Range(mutexes) : mx.resource # Head(inbox).resource
         /\ mutexes' \in Seq(MutexTuples) /\ Uniq(mutexes')
         /\ Range(mutexes') = Range(mutexes)
              \cup {New(Head(inbox).resource, Head(inbox).from.proc, <<>>)}
         /\ Delivers(Tail(inbox), inbox')
         /\ reply' = Reply(reply, Head(inbox).from, "ok")
<1> DEFINE m == Head(inbox)
           new == New(m.resource, m.from.proc, <<>>)
<1>1. /\ inbox # <<>> /\ m.type = "enter" /\ FindResource(m.resource) = {}
      /\ EnterMutex(m.resource, m.from, <<>>, mutexes, Tail(inbox), reply)
  BY DEF HandleEnterFree, Receives
<1>2. m \in Calls /\ Tail(inbox) \in Seq(Msgs)
  BY <1>1, Received
<1> HIDE DEF m
<1>3. m.resource \in Resources /\ m.from.proc \in Clients
  BY <1>2 DEF Calls, Froms
<1>4. new \in MutexTuples /\ new.resource = m.resource
  BY <1>3 DEF New, MutexTuples
<1>5. mutexes \in Seq(MutexTuples)
  BY DEF TypeOK
<1>6. \A mx \in Range(mutexes) : mx.resource # m.resource
  BY <1>1, <1>5 DEF FindResource, Range
<1>7. /\ reply' = Reply(reply, m.from, "ok")
      /\ mutexes' = <<new>> \o mutexes
      /\ inbox' = Monitor(Tail(inbox), m.resource, m.from.proc)
  BY <1>1 DEF EnterMutex, New
<1> HIDE DEF new
<1>8. mutexes' \in Seq(MutexTuples) /\ Uniq(mutexes') /\ Range(mutexes') = Range(mutexes) \cup {new}
  BY <1>4, <1>5, <1>6, <1>7, Pushed DEF UniqueInv
<1>9. Delivers(Tail(inbox), inbox')
  BY <1>2, <1>3, <1>7, Monitored
<1>10. QED
  BY <1>1, <1>2, <1>6, <1>7, <1>8, <1>9 DEF m, new

(* What replaces a mutex by another one of the same resource. *)
LEMMA SwappedBy ==
  ASSUME TypeOK, UniqueInv, NEW mx \in Range(mutexes), NEW nx \in MutexTuples,
         nx.resource = mx.resource, mutexes' = <<nx>> \o Remq(mx, mutexes)
  PROVE  Swapped(mx, nx)
<1>1. mutexes \in Seq(MutexTuples)
  BY DEF TypeOK
<1>2. /\ Remq(mx, mutexes) \in Seq(MutexTuples) /\ Uniq(Remq(mx, mutexes))
      /\ Range(Remq(mx, mutexes)) = Range(mutexes) \ {mx}
      /\ \A ox \in Range(Remq(mx, mutexes)) : ox.resource # mx.resource
  BY <1>1, Removed DEF UniqueInv
<1>3. QED
  BY <1>2, Pushed DEF Swapped

(* enter of a resource somebody has: refused, entered once more, or *)
(* queued.                                                          *)
LEMMA EnterTakenEffect ==
  ASSUME TypeOK, UniqueInv, HandleEnterTaken
  PROVE  /\ Head(inbox) \in Calls /\ Head(inbox).type = "enter" /\ inbox' = Tail(inbox)
         /\ server' \in {"up", "looping"}
         /\ \/ server' = "up"
            \/ \E mx \in Range(mutexes) : Chase(Head(inbox).from.proc, mx) = "forever"
         /\ \/ mutexes' = mutexes /\ reply' = reply
            \/ mutexes' = mutexes /\ reply' = Reply(reply, Head(inbox).from, "deadlock")
            \/ \E mx \in Range(mutexes) :
                 /\ mx.resource = Head(inbox).resource /\ mx.process = Head(inbox).from.proc
                 /\ Swapped(mx, Reenter(mx))
                 /\ reply' = Reply(reply, Head(inbox).from, "ok")
            \/ \E mx \in Range(mutexes) :
                 /\ mx.resource = Head(inbox).resource
                 /\ Chase(Head(inbox).from.proc, mx) = "wait"
                 /\ Swapped(mx, Queue(mx, Head(inbox).from))
                 /\ reply' = reply
<1> DEFINE m == Head(inbox)
           mx == First(mutexes, FindResource(m.resource))
           others == Remq(mx, mutexes)
           verdict == Chase(m.from.proc, mx)
<1>1. /\ inbox # <<>> /\ m.type = "enter" /\ FindResource(m.resource) # {}
      /\ server = "up" /\ inbox' = Tail(inbox)
  BY DEF HandleEnterTaken, Receives
<1>2. \/ /\ mx.process = m.from.proc
         /\ mutexes' = <<Reenter(mx)>> \o others
         /\ reply' = Reply(reply, m.from, "ok")
         /\ UNCHANGED server
      \/ /\ mutexes' = IF verdict = "wait" THEN <<Queue(mx, m.from)>> \o others
                       ELSE mutexes
         /\ reply' = IF verdict = "deadlock" THEN Reply(reply, m.from, "deadlock")
                     ELSE reply
         /\ server' = IF verdict = "forever" THEN "looping" ELSE server
  BY Zenon DEF HandleEnterTaken
<1>3. mutexes \in Seq(MutexTuples)
  BY DEF TypeOK
<1>4. m \in Calls
  BY <1>1, Received
<1>5. \E i \in FindResource(m.resource) : mx = mutexes[i]
  <2>1. FindResource(m.resource) \subseteq 1..Len(mutexes) /\ Len(mutexes) \in Nat
    BY <1>3 DEF FindResource
  <2>2. QED
    BY <1>1, <2>1, FirstIn
<1> HIDE DEF m, mx
<1>6. mx \in Range(mutexes) /\ mx.resource = m.resource
  BY <1>3, <1>5 DEF FindResource, Range
<1>8. mx \in MutexTuples /\ m.from \in Froms
  BY <1>3, <1>4, <1>6 DEF Range, Calls
<1>9. Reenter(mx) \in MutexTuples /\ Reenter(mx).resource = mx.resource
  BY <1>8 DEF Reenter, MutexTuples
<1>10. Queue(mx, m.from) \in MutexTuples /\ Queue(mx, m.from).resource = mx.resource
  BY <1>8 DEF Queue, MutexTuples
<1>7. /\ server' \in {"up", "looping"}
      /\ \/ server' = "up"
         \/ \E ox \in Range(mutexes) : Chase(m.from.proc, ox) = "forever"
  BY <1>1, <1>2, <1>6
<1>15. verdict = Chase(m.from.proc, mx)
  OBVIOUS
<1> HIDE DEF verdict
<1>11. CASE /\ mx.process = m.from.proc
            /\ mutexes' = <<Reenter(mx)>> \o others
            /\ reply' = Reply(reply, m.from, "ok")
  <2>2. Swapped(mx, Reenter(mx))
    BY <1>6, <1>9, <1>11, SwappedBy
  <2>3. QED
    BY <1>1, <1>4, <1>6, <1>7, <1>11, <2>2 DEF m
<1>12. CASE verdict = "wait" /\ mutexes' = <<Queue(mx, m.from)>> \o others /\ reply' = reply
  <2>2. Swapped(mx, Queue(mx, m.from))
    BY <1>6, <1>10, <1>12, SwappedBy
  <2>5. QED
    BY <1>1, <1>4, <1>6, <1>7, <1>12, <1>15, <2>2 DEF m
<1>13. CASE mutexes' = mutexes /\ reply' \in {reply, Reply(reply, m.from, "deadlock")}
  BY <1>1, <1>4, <1>7, <1>13 DEF m
<1>14. QED
  BY <1>2, <1>11, <1>12, <1>13

(* leave: refused, lowered, or passed on. *)
LEMMA LeaveEffect ==
  ASSUME TypeOK, UniqueInv, HandleLeave
  PROVE  /\ Head(inbox) \in Calls /\ Head(inbox).type = "leave"
         /\ \/ /\ mutexes' = mutexes /\ inbox' = Tail(inbox)
               /\ reply' = Reply(reply, Head(inbox).from, "unowned")
               /\ \A mx \in Range(mutexes) :
                    ~(mx.resource = Head(inbox).resource /\ mx.process = Head(inbox).from.proc)
            \/ \E mx \in Range(mutexes) :
                 /\ mx.resource = Head(inbox).resource /\ mx.process = Head(inbox).from.proc
                 /\ Swapped(mx, Lower(mx)) /\ inbox' = Tail(inbox)
                 /\ reply' = Reply(reply, Head(inbox).from, "ok")
            \/ \E mx \in Range(mutexes) :
                 /\ mx.resource = Head(inbox).resource /\ mx.process = Head(inbox).from.proc
                 /\ mx.count <= 1
                 /\ LeaveMutex(mx, Tail(inbox), Reply(reply, Head(inbox).from, "ok"))
<1> DEFINE m == Head(inbox)
           owned == OwnedBy(m.resource, m.from.proc)
           mx == First(mutexes, owned)
<1>1. inbox # <<>> /\ m.type = "leave"
  BY DEF HandleLeave, Receives
<1>2. \/ /\ owned = {} /\ reply' = Reply(reply, m.from, "unowned")
         /\ inbox' = Tail(inbox)
         /\ UNCHANGED mutexes
      \/ /\ owned # {} /\ ~LastLeave(mx)
         /\ reply' = Reply(reply, m.from, "ok")
         /\ mutexes' = <<Lower(mx)>> \o Remq(mx, mutexes)
         /\ inbox' = Tail(inbox)
      \/ /\ owned # {} /\ LastLeave(mx)
         /\ LeaveMutex(mx, Tail(inbox), Reply(reply, m.from, "ok"))
  BY Zenon DEF HandleLeave, Lower
<1>3. mutexes \in Seq(MutexTuples)
  BY DEF TypeOK
<1>4. m \in Calls
  BY <1>1, Received
<1>5. ASSUME owned # {}
      PROVE  mx \in Range(mutexes) /\ mx.resource = m.resource /\ mx.process = m.from.proc
  <2>1. owned \subseteq 1..Len(mutexes) /\ Len(mutexes) \in Nat
    BY <1>3 DEF OwnedBy, FindResource
  <2>2. \E i \in owned : mx = mutexes[i]
    BY <1>5, <2>1, FirstIn
  <2> HIDE DEF m, mx
  <2>3. QED
    BY <1>3, <2>2 DEF OwnedBy, FindResource, Range
<1> HIDE DEF m, owned, mx
<1>6. ASSUME owned # {}, ~LastLeave(mx), mutexes' = <<Lower(mx)>> \o Remq(mx, mutexes)
      PROVE  Swapped(mx, Lower(mx))
  <2>1. mx \in MutexTuples
    BY <1>3, <1>5, <1>6 DEF Range
  <2>2. Lower(mx) \in MutexTuples /\ Lower(mx).resource = mx.resource
    <3>1. mx.count \in Nat \ {0} /\ ~(mx.count <= 1)
      BY <1>6, <2>1 DEF LastLeave, MutexTuples
    <3>2. mx.count - 1 \in Nat \ {0}
      BY <3>1
    <3>3. QED
      BY <2>1, <3>2 DEF Lower, MutexTuples
  <2>3. QED
    BY <1>5, <1>6, <2>2, SwappedBy
<1>7. ASSUME owned = {}, NEW nx \in Range(mutexes)
      PROVE  ~(nx.resource = m.resource /\ nx.process = m.from.proc)
  BY <1>3, <1>7 DEF owned, OwnedBy, FindResource, Range
<1>8. QED
  BY <1>1, <1>2, <1>4, <1>5, <1>6, <1>7 DEF m, LastLeave

(* DOWN: the server fails, or the mutex of the dead owner is passed on. *)
LEMMA DownEffect ==
  ASSUME TypeOK, UniqueInv, HandleDown
  PROVE  /\ Head(inbox) \in Downs /\ Head(inbox) \in Range(inbox)
         /\ \/ /\ server' = "failed" /\ inbox' = <<>> /\ UNCHANGED <<mutexes, reply>>
               /\ \A mx \in Range(mutexes) : DOWNof(mx) # Head(inbox)
            \/ /\ server' = server
               /\ \E mx \in Range(mutexes) :
                    DOWNof(mx) = Head(inbox) /\ LeaveMutex(mx, Tail(inbox), reply)
<1> DEFINE found == {i \in 1..Len(mutexes) : DOWNof(mutexes[i]) = Head(inbox)}
           mx == First(mutexes, found)
<1>1. inbox # <<>> /\ Head(inbox).type = "DOWN"
  BY DEF HandleDown, Receives
<1>2. Head(inbox) \in Downs /\ Head(inbox) \in Range(inbox)
  BY <1>1, Received
<1>3. mutexes \in Seq(MutexTuples)
  BY DEF TypeOK
<1>4. IF found # {}
      THEN LeaveMutex(mx, Tail(inbox), reply) /\ UNCHANGED server
      ELSE server' = "failed" /\ inbox' = <<>> /\ UNCHANGED <<mutexes, reply>>
  BY DEF HandleDown
<1>5. ASSUME found # {}
      PROVE  mx \in Range(mutexes) /\ DOWNof(mx) = Head(inbox)
  <2>1. found \subseteq 1..Len(mutexes) /\ Len(mutexes) \in Nat
    BY <1>3
  <2>2. \E i \in found : mx = mutexes[i]
    BY <1>5, <2>1, FirstIn
  <2> HIDE DEF mx
  <2>3. QED
    BY <1>3, <2>2 DEF Range
<1>6. ASSUME found = {}, NEW nx \in Range(mutexes)
      PROVE  DOWNof(nx) # Head(inbox)
  BY <1>3, <1>6 DEF Range
<1> HIDE DEF found, mx
<1>7. QED
  BY <1>2, <1>4, <1>5, <1>6

(* The DOWNs of a process that dies *)
LEMMA DieEffect ==
  ASSUME TypeOK, NEW p \in Clients, Die(p)
  PROVE  /\ inbox' \in Seq(Msgs) /\ Thins(inbox, inbox')
         /\ \A m \in Range(inbox') : m \in Range(inbox) \/ (m.type = "DOWN" /\ m.process = p)
<1> DEFINE owned == {i \in 1..Len(mutexes) : mutexes[i].process = p}
           S == {DOWNof(mutexes[i]) : i \in owned}
<1>1. PICK d \in SetToSeqs(S) : inbox' = IF server = "failed" THEN inbox ELSE inbox \o d
  BY DEF Die
<1>2. mutexes \in Seq(MutexTuples) /\ inbox \in Seq(Msgs)
  BY DEF TypeOK
<1>3. \A i \in owned : DOWNof(mutexes[i]) \in Msgs /\ DOWNof(mutexes[i]).type = "DOWN"
                         /\ DOWNof(mutexes[i]).process = p
  <2>1. ASSUME NEW i \in owned
        PROVE  DOWNof(mutexes[i]) \in Msgs /\ DOWNof(mutexes[i]).type = "DOWN"
               /\ DOWNof(mutexes[i]).process = p
    <3>1. mutexes[i] \in MutexTuples /\ mutexes[i].process = p
      BY <1>2, <2>1
    <3>2. mutexes[i].resource \in Resources
      BY <3>1 DEF MutexTuples
    <3>3. QED
      BY <3>1, <3>2 DEF DOWNof, DOWNmsg, Msgs
  <2>2. QED
    BY <2>1
<1>4. \A x \in S : x \in Msgs /\ x.type = "DOWN" /\ x.process = p
  BY <1>3
<1>5. IsFiniteSet(owned)
  <2>1. IsFiniteSet(1..Len(mutexes)) /\ owned \in SUBSET (1..Len(mutexes))
    BY <1>2, FS_Interval
  <2>2. QED
    BY <2>1, FS_Subset
<1>6. Cardinality(S) \in Nat
  <2> DEFINE f == [i \in owned |-> DOWNof(mutexes[i])]
  <2>1. f \in Surjection(owned, S)
    BY DEF Surjection
  <2>2. IsFiniteSet(S)
    BY <1>5, <2>1, FS_Surjection
  <2>3. QED
    BY <2>2, FS_CardinalityType
<1> HIDE DEF S, owned
<1>7. d \in [1..Cardinality(S) -> S]
  BY DEF SetToSeqs
<1>8. d \in Seq(S) /\ Len(d) = Cardinality(S)
  BY <1>6, <1>7
<1>9. d \in Seq(Msgs) /\ \A i \in 1..Len(d) : d[i].type = "DOWN" /\ d[i].process = p
  BY <1>4, <1>7, <1>8
<1>10. \A m \in Range(d) : m.type = "DOWN" /\ m.process = p
  BY <1>9 DEF Range
<1>11. inbox \o d \in Seq(Msgs) /\ Thins(inbox, inbox \o d)
       /\ Range(inbox \o d) = Range(inbox) \cup Range(d)
  BY <1>2, <1>9, ThinsDowns
<1>12. QED
  BY <1>1, <1>2, <1>10, <1>11, ThinsSame

-----------------------------------------------------------------------------
(* A step of the server keeps what is known of the calls under way. *)

Replies == {None, "ok", "deadlock", "unowned"}

(* A reply reaches the client whose current call it answers, and nobody *)
(* else.                                                                *)
LEMMA ReplyTo ==
  ASSUME NEW rep \in [Clients -> Replies], NEW from, NEW val \in Replies
  PROVE  /\ Reply(rep, from, val) \in [Clients -> Replies]
         /\ \A p \in Clients : Reply(rep, from, val)[p] =
              IF Waiting(p) /\ Current(p, from) THEN val ELSE rep[p]
BY DEF Reply, Current

(* The server has taken the call that p waits for. *)
LEMMA CurrentCall ==
  ASSUME TypeOK, NEW p \in Clients, Ordered(p), inbox # <<>>, Head(inbox) \in Calls,
         Waiting(p), Current(p, Head(inbox).from)
  PROVE  /\ Head(inbox).type = pc[p] /\ Head(inbox).resource = res[p]
         /\ Silent(p, Tail(inbox)) /\ reply[p] = None /\ ~QueuedNow(p, mutexes)
<1>1. /\ inbox \in Seq(Msgs) /\ Tail(inbox) \in Seq(Msgs) /\ Len(Tail(inbox)) = Len(inbox) - 1
      /\ \A i \in 1..(Len(inbox) - 1) : Tail(inbox)[i] = inbox[i + 1]
      /\ Head(inbox) = inbox[1] /\ Len(inbox) >= 1
  BY ThinsTail DEF TypeOK
<1> DEFINE m == Head(inbox)
           t == Tail(inbox)
<1> HIDE DEF m, t
<1>2. m = inbox[1] /\ 1 \in 1..Len(inbox) /\ m \in Calls /\ m.from.tag = tag[p]
  BY <1>1 DEF m, Current
<1>3. CallOf(p, inbox[1])
  BY <1>2 DEF CallOf, IsCall, Calls, Current, m
<1>4. ~Silent(p, inbox)
  BY <1>2, <1>3 DEF Silent
<1>5. /\ m.type = pc[p] /\ m.resource = res[p]
      /\ \A j \in 1..Len(inbox) : CallOf(p, inbox[j]) => j <= 1
  BY <1>2, <1>3 DEF Ordered, Sent
<1>6. Silent(p, t)
  <2>1. Len(t) = Len(inbox) - 1 /\ \A i \in 1..(Len(inbox) - 1) : t[i] = inbox[i + 1]
    BY <1>1 DEF t
  <2>2. \A i \in 1..(Len(inbox) - 1) : i + 1 \in 1..Len(inbox) /\ ~(i + 1 <= 1)
    BY <1>1
  <2>3. QED
    BY <1>5, <2>1, <2>2 DEF Silent
<1>7. reply[p] = None /\ ~QueuedNow(p, mutexes)
  BY <1>4 DEF Ordered
<1>8. QED
  BY <1>5, <1>6, <1>7 DEF m, t

(* A call of p that is not the one it waits for *)
LEMMA OlderCall ==
  ASSUME TypeOK, NEW p \in Clients, Sent(p, inbox), inbox # <<>>, Head(inbox) \in Calls,
         Head(inbox).from.proc = p
  PROVE  Head(inbox).from.tag <= tag[p] /\ (pc[p] = "run" => Head(inbox).from.tag # tag[p])
<1>1. Head(inbox) = inbox[1] /\ Len(inbox) >= 1 /\ 1 \in 1..Len(inbox)
  BY ThinsTail DEF TypeOK
<1>2. CallOf(p, inbox[1])
  BY <1>1 DEF CallOf, IsCall, Calls
<1>3. QED
  BY <1>1, <1>2 DEF Sent

(* Waiters come from the queues, but for the one whose call was handled. *)
WaiterFrom(nx, j, ms) ==
  \/ \E mx \in Range(ms) : \E k \in 1..Len(mx.waiters) :
       mx.resource = nx.resource /\ mx.waiters[k] = nx.waiters[j]
  \/ /\ Head(inbox) \in Calls /\ Head(inbox).type = "enter"
     /\ nx.waiters[j] = Head(inbox).from /\ nx.resource = Head(inbox).resource

(* The order of the calls of p survives a step of the server that queues *)
(* no other waiter and answers p only when p has no call left.           *)
LEMMA OrderStep ==
  ASSUME TypeOK, NEW p \in Clients, Ordered(p), inbox # <<>>,
         UNCHANGED <<pc, res, tag>>, Delivers(Tail(inbox), inbox'),
         \A nx \in Range(mutexes') : \A j \in 1..Len(nx.waiters) : WaiterFrom(nx, j, mutexes),
         reply'[p] = reply[p] \/ (Silent(p, inbox') /\ ~QueuedNow(p, mutexes')),
         Waiting(p) => QueuedOnce(p, mutexes')
  PROVE  Ordered(p)'
<1>1. /\ inbox \in Seq(Msgs) /\ Tail(inbox) \in Seq(Msgs) /\ inbox' \in Seq(Msgs)
      /\ Thins(inbox, Tail(inbox)) /\ Thins(Tail(inbox), inbox')
  BY Received DEF Delivers, TypeOK
<1>2. Thins(inbox, inbox')
  BY <1>1, ThinsTrans
<1>3. Sent(p, inbox')
  BY <1>1, <1>2, ThinsSent DEF Ordered
<1>4. Silent(p, inbox) => Silent(p, inbox')
  BY <1>1, <1>2, ThinsSilent
<1>5. Silent(p, Tail(inbox)) => Silent(p, inbox')
  BY <1>1, ThinsSilent
<1>6. Waiting(p) => (QueuedNow(p, mutexes') => Silent(p, inbox'))
  <2>1. SUFFICES ASSUME Waiting(p), NEW nx \in Range(mutexes'), NEW j \in 1..Len(nx.waiters),
                        Current(p, nx.waiters[j])
                 PROVE  Silent(p, inbox')
    BY DEF QueuedNow
  <2>2. WaiterFrom(nx, j, mutexes)
    OBVIOUS
  <2>3. CASE QueuedNow(p, mutexes)
    BY <1>4, <2>1, <2>3 DEF Ordered
  <2>4. CASE Head(inbox) \in Calls /\ nx.waiters[j] = Head(inbox).from
    BY <1>5, <2>1, <2>4, CurrentCall
  <2>5. QED
    BY <2>1, <2>2, <2>3, <2>4 DEF WaiterFrom, QueuedNow
<1>7. ASSUME NEW nx \in Range(mutexes'), NEW j \in 1..Len(nx.waiters), nx.waiters[j].proc = p
      PROVE  /\ nx.waiters[j].tag <= tag[p]
             /\ pc[p] = "run" => nx.waiters[j].tag # tag[p]
             /\ Waiting(p) /\ nx.waiters[j].tag = tag[p] =>
                  pc[p] = "enter" /\ nx.resource = res[p] /\ reply'[p] = None
  <2>1. WaiterFrom(nx, j, mutexes)
    OBVIOUS
  <2>2. Current(p, nx.waiters[j]) => QueuedNow(p, mutexes')
    BY DEF QueuedNow
  <2>3. ASSUME NEW mx \in Range(mutexes), NEW k \in 1..Len(mx.waiters),
               mx.resource = nx.resource, mx.waiters[k] = nx.waiters[j]
        PROVE  /\ nx.waiters[j].tag <= tag[p]
               /\ pc[p] = "run" => nx.waiters[j].tag # tag[p]
               /\ Waiting(p) /\ nx.waiters[j].tag = tag[p] =>
                    pc[p] = "enter" /\ nx.resource = res[p] /\ reply'[p] = None
    <3>1. /\ nx.waiters[j].tag <= tag[p]
          /\ pc[p] = "run" => nx.waiters[j].tag # tag[p]
          /\ Waiting(p) /\ nx.waiters[j].tag = tag[p] =>
               pc[p] = "enter" /\ nx.resource = res[p] /\ reply[p] = None
      BY <1>7, <2>3 DEF Ordered, Queued
    <3>2. Waiting(p) /\ nx.waiters[j].tag = tag[p] => reply'[p] = reply[p]
      BY <1>7, <2>2 DEF Current
    <3>3. QED
      BY <3>1, <3>2
  <2>4. ASSUME Head(inbox) \in Calls, Head(inbox).type = "enter",
               nx.waiters[j] = Head(inbox).from, nx.resource = Head(inbox).resource
        PROVE  /\ nx.waiters[j].tag <= tag[p]
               /\ pc[p] = "run" => nx.waiters[j].tag # tag[p]
               /\ Waiting(p) /\ nx.waiters[j].tag = tag[p] =>
                    pc[p] = "enter" /\ nx.resource = res[p] /\ reply'[p] = None
    <3>1. nx.waiters[j].tag <= tag[p] /\ (pc[p] = "run" => nx.waiters[j].tag # tag[p])
      BY <1>7, <2>4, OlderCall DEF Ordered
    <3>2. ASSUME Waiting(p), nx.waiters[j].tag = tag[p]
          PROVE  pc[p] = "enter" /\ nx.resource = res[p] /\ reply'[p] = None
      <4>1. Current(p, Head(inbox).from) /\ Current(p, nx.waiters[j])
        BY <1>7, <2>4, <3>2 DEF Current
      <4>2. Head(inbox).type = pc[p] /\ Head(inbox).resource = res[p] /\ reply[p] = None
        BY <2>4, <3>2, <4>1, CurrentCall
      <4>3. reply'[p] = reply[p]
        BY <2>2, <4>1
      <4>4. QED
        BY <2>4, <4>2, <4>3
    <3>3. QED
      BY <3>1, <3>2
  <2>5. QED
    BY <2>1, <2>3, <2>4 DEF WaiterFrom
<1>8. Waiting(p)' = Waiting(p)
  BY DEF Waiting
<1>9. Sent(p, inbox)'
  BY <1>3, <1>8 DEF Sent, CallOf, IsCall
<1>10. Queued(p, mutexes)'
  BY <1>7, <1>8 DEF Queued
<1>11. /\ QueuedNow(p, mutexes)' <=> QueuedNow(p, mutexes')
       /\ QueuedOnce(p, mutexes)' <=> QueuedOnce(p, mutexes')
       /\ Silent(p, inbox)' <=> Silent(p, inbox')
  BY DEF QueuedNow, QueuedOnce, Current, Silent, CallOf, IsCall
<1>12. Waiting(p) => (reply'[p] # None => Silent(p, inbox'))
  BY <1>4 DEF Ordered
<1>13. QED
  BY <1>6, <1>8, <1>9, <1>10, <1>11, <1>12 DEF Ordered

(* The queues are as they were: a call is refused, granted or lowers a count. *)
LEMMA OrderKeep ==
  ASSUME TypeOK, NEW p \in Clients, Ordered(p), inbox # <<>>,
         UNCHANGED <<pc, res, tag>>, Delivers(Tail(inbox), inbox'),
         mutexes' \in Seq(MutexTuples), Uniq(mutexes'),
         \A nx \in Range(mutexes') :
           nx.waiters = <<>> \/ \E mx \in Range(mutexes) : /\ mx.resource = nx.resource
                                                         /\ mx.waiters = nx.waiters,
         \/ reply' = reply
         \/ Head(inbox) \in Calls
            /\ \E v \in Replies : reply' = Reply(reply, Head(inbox).from, v)
  PROVE  Ordered(p)'
<1>1. \A nx \in Range(mutexes') : \A j \in 1..Len(nx.waiters) :
        \E mx \in Range(mutexes) : mx.resource = nx.resource /\ mx.waiters = nx.waiters
  <2>1. SUFFICES ASSUME NEW nx \in Range(mutexes'), NEW j \in 1..Len(nx.waiters)
                 PROVE  \E mx \in Range(mutexes) : mx.resource = nx.resource /\ mx.waiters = nx.waiters
    OBVIOUS
  <2>2. nx.waiters # <<>>
    BY <2>1
  <2>3. QED
    BY <2>2
<1>2. QueuedNow(p, mutexes') => QueuedNow(p, mutexes)
  BY <1>1 DEF QueuedNow
<1>3. Waiting(p) => QueuedOnce(p, mutexes')
  <2>1. SUFFICES ASSUME Waiting(p), NEW mx \in Range(mutexes'), NEW nx \in Range(mutexes'),
                        NEW j \in 1..Len(mx.waiters), NEW k \in 1..Len(nx.waiters),
                        Current(p, mx.waiters[j]), Current(p, nx.waiters[k])
                 PROVE  mx = nx /\ j = k
    BY DEF QueuedOnce
  <2>2. PICK ox \in Range(mutexes) : ox.resource = mx.resource /\ ox.waiters = mx.waiters
    BY <1>1
  <2>3. PICK qx \in Range(mutexes) : qx.resource = nx.resource /\ qx.waiters = nx.waiters
    BY <1>1
  <2>4. ox = qx /\ j = k
    BY <2>1, <2>2, <2>3 DEF Ordered, QueuedOnce
  <2>5. mx = nx
    BY <2>2, <2>3, <2>4, OneMutex
  <2>6. QED
    BY <2>4, <2>5
<1>4. reply'[p] = reply[p] \/ (Silent(p, inbox') /\ ~QueuedNow(p, mutexes'))
  <2>1. CASE reply' = reply
    BY <2>1
  <2>2. ASSUME Head(inbox) \in Calls, NEW v \in Replies, reply' = Reply(reply, Head(inbox).from, v),
               reply'[p] # reply[p]
        PROVE  Silent(p, inbox') /\ ~QueuedNow(p, mutexes')
    <3>1. reply \in [Clients -> Replies]
      BY DEF TypeOK, Replies
    <3>2. Waiting(p) /\ Current(p, Head(inbox).from)
      BY <2>2, <3>1, ReplyTo
    <3>3. Silent(p, Tail(inbox)) /\ ~QueuedNow(p, mutexes)
      BY <2>2, <3>2, CurrentCall
    <3>4. Tail(inbox) \in Seq(Msgs)
      BY Received
    <3>5. Silent(p, inbox')
      BY <3>3, <3>4, ThinsSilent DEF Delivers
    <3>6. QED
      BY <1>2, <3>3, <3>5
  <2>3. QED
    BY <2>1, <2>2
<1>5. \A nx \in Range(mutexes') : \A j \in 1..Len(nx.waiters) : WaiterFrom(nx, j, mutexes)
  BY <1>1 DEF WaiterFrom
<1>6. QED
  BY <1>3, <1>4, <1>5, OrderStep

(* An enter joins the queue of a mutex. *)
LEMMA OrderQueue ==
  ASSUME TypeOK, UniqueInv, NEW p \in Clients, Ordered(p), inbox # <<>>,
         Head(inbox) \in Calls, Head(inbox).type = "enter",
         UNCHANGED <<pc, res, tag, reply>>, Delivers(Tail(inbox), inbox'),
         NEW mx \in Range(mutexes), mx.resource = Head(inbox).resource,
         Swapped(mx, Queue(mx, Head(inbox).from))
  PROVE  Ordered(p)'
<1> DEFINE from == Head(inbox).from
           new == Queue(mx, from)
           n == Len(mx.waiters) + 1
<1>1. mx \in MutexTuples /\ mutexes \in Seq(MutexTuples)
  BY DEF TypeOK, Range
<1>2. mx.waiters \in Seq(Froms)
  BY <1>1 DEF MutexTuples
<1>3. from \in Froms
  BY DEF Calls
<1> HIDE DEF from
<1>4. /\ new.resource = mx.resource /\ new.waiters = Append(mx.waiters, from)
  BY <1>1 DEF Queue, MutexTuples
<1>5. /\ Len(new.waiters) = n /\ new.waiters[n] = from
      /\ \A j \in 1..Len(mx.waiters) : new.waiters[j] = mx.waiters[j]
  BY <1>2, <1>3, <1>4
<1>6. Len(mx.waiters) \in Nat
  BY <1>2
<1>7. Range(mutexes') = (Range(mutexes) \ {mx}) \cup {new}
  BY DEF Swapped, from
<1> HIDE DEF new, n
<1>8. \A j \in 1..Len(new.waiters) :
        (j \in 1..Len(mx.waiters) /\ new.waiters[j] = mx.waiters[j]) \/ (j = n /\ new.waiters[j] = from)
  BY <1>5, <1>6 DEF n
<1>9. \A nx \in Range(mutexes') : \A j \in 1..Len(nx.waiters) : WaiterFrom(nx, j, mutexes)
  <2>1. SUFFICES ASSUME NEW nx \in Range(mutexes'), NEW j \in 1..Len(nx.waiters)
                 PROVE  WaiterFrom(nx, j, mutexes)
    OBVIOUS
  <2>2. CASE nx = new
    BY <1>4, <1>8, <2>2 DEF WaiterFrom, from
  <2>3. CASE nx \in Range(mutexes)
    BY <2>3 DEF WaiterFrom
  <2>4. QED
    BY <1>7, <2>2, <2>3
<1>10. ASSUME Waiting(p)
       PROVE  QueuedOnce(p, mutexes')
  <2>1. Current(p, from) => ~QueuedNow(p, mutexes)
    BY <1>10, CurrentCall DEF from
  <2>2. SUFFICES ASSUME NEW ox \in Range(mutexes'), NEW nx \in Range(mutexes'),
                        NEW j \in 1..Len(ox.waiters), NEW k \in 1..Len(nx.waiters),
                        Current(p, ox.waiters[j]), Current(p, nx.waiters[k])
                 PROVE  ox = nx /\ j = k
    BY DEF QueuedOnce
  <2>3. QueuedOnce(p, mutexes)
    BY <1>10 DEF Ordered
  <2>4. CASE Current(p, from)
    <3>1. ox = new /\ j = n
      BY <1>7, <1>8, <2>1, <2>2, <2>4 DEF QueuedNow
    <3>2. nx = new /\ k = n
      BY <1>7, <1>8, <2>1, <2>2, <2>4 DEF QueuedNow
    <3>3. QED
      BY <3>1, <3>2
  <2>5. CASE ~Current(p, from)
    <3>1. PICK o \in Range(mutexes) : /\ j \in 1..Len(o.waiters) /\ Current(p, o.waiters[j])
                                      /\ IF ox = new THEN o = mx ELSE o = ox
      BY <1>7, <1>8, <2>2, <2>5
    <3>2. PICK q \in Range(mutexes) : /\ k \in 1..Len(q.waiters) /\ Current(p, q.waiters[k])
                                      /\ IF nx = new THEN q = mx ELSE q = nx
      BY <1>7, <1>8, <2>2, <2>5
    <3>3. o = q /\ j = k
      BY <2>3, <3>1, <3>2 DEF QueuedOnce
    <3>4. ox # new => ox # mx
      BY <1>7, <2>2
    <3>5. nx # new => nx # mx
      BY <1>7, <2>2
    <3>6. QED
      BY <3>1, <3>2, <3>3, <3>4, <3>5
  <2>6. QED
    BY <2>4, <2>5
<1>11. QED
  BY <1>9, <1>10, OrderStep

(* The mutex goes to its first waiter. *)
LEMMA OrderPass ==
  ASSUME TypeOK, UniqueInv, NEW p \in Clients, Ordered(p), inbox # <<>>,
         UNCHANGED <<pc, res, tag>>, Delivers(Tail(inbox), inbox'),
         NEW mx \in Range(mutexes), mx.waiters # <<>>, Swapped(mx, Passed(mx)), NEW rep,
         \/ rep = reply
         \/ Head(inbox) \in Calls
            /\ \E v \in Replies : rep = Reply(reply, Head(inbox).from, v),
         reply' = Reply(rep, Head(mx.waiters), "ok")
  PROVE  Ordered(p)'
<1> DEFINE new == Passed(mx)
           w == Head(mx.waiters)
<1>1. mx \in MutexTuples /\ mutexes \in Seq(MutexTuples)
  BY DEF TypeOK, Range
<1>2. mx.waiters \in Seq(Froms)
  BY <1>1 DEF MutexTuples
<1>3. new.resource = mx.resource /\ new.waiters = Tail(mx.waiters)
  BY DEF Passed, New
<1>4. /\ Len(new.waiters) = Len(mx.waiters) - 1 /\ w = mx.waiters[1] /\ Len(mx.waiters) >= 1
      /\ Len(mx.waiters) \in Nat
      /\ \A j \in 1..Len(new.waiters) :
           new.waiters[j] = mx.waiters[j + 1] /\ j + 1 \in 1..Len(mx.waiters) /\ j + 1 # 1
  <2>1. Len(mx.waiters) \in Nat /\ Len(mx.waiters) >= 1
    BY <1>2
  <2>2. Len(new.waiters) = Len(mx.waiters) - 1 /\ w = mx.waiters[1]
    BY <1>2, <1>3
  <2>3. \A j \in 1..(Len(mx.waiters) - 1) : new.waiters[j] = mx.waiters[j + 1]
    BY <1>2, <1>3
  <2>4. QED
    BY <2>1, <2>2, <2>3
<1>5. Range(mutexes') = (Range(mutexes) \ {mx}) \cup {new}
  BY DEF Swapped
<1>6. w \in Froms
  BY <1>2
<1> HIDE DEF new, w
<1>7. \A nx \in Range(mutexes') : \A j \in 1..Len(nx.waiters) : WaiterFrom(nx, j, mutexes)
  <2>1. SUFFICES ASSUME NEW nx \in Range(mutexes'), NEW j \in 1..Len(nx.waiters)
                 PROVE  WaiterFrom(nx, j, mutexes)
    OBVIOUS
  <2>2. CASE nx = new
    BY <1>3, <1>4, <2>2 DEF WaiterFrom
  <2>3. CASE nx \in Range(mutexes)
    BY <2>3 DEF WaiterFrom
  <2>4. QED
    BY <1>5, <2>2, <2>3
<1>8. ASSUME Waiting(p)
      PROVE  QueuedOnce(p, mutexes')
  <2>1. SUFFICES ASSUME NEW ox \in Range(mutexes'), NEW nx \in Range(mutexes'),
                        NEW j \in 1..Len(ox.waiters), NEW k \in 1..Len(nx.waiters),
                        Current(p, ox.waiters[j]), Current(p, nx.waiters[k])
                 PROVE  ox = nx /\ j = k
    BY DEF QueuedOnce
  <2>2. QueuedOnce(p, mutexes)
    BY <1>8 DEF Ordered
  <2>3. CASE ox = new /\ nx = new
    <3>1. j + 1 = k + 1
      BY <1>4, <2>1, <2>2, <2>3 DEF QueuedOnce
    <3>2. QED
      BY <1>4, <2>3, <3>1
  <2>4. CASE ox = new /\ nx # new
    <3>1. nx \in Range(mutexes) /\ nx # mx
      BY <1>5, <2>4
    <3>2. QED
      BY <1>4, <2>1, <2>2, <2>4, <3>1 DEF QueuedOnce
  <2>5. CASE ox # new /\ nx = new
    <3>1. ox \in Range(mutexes) /\ ox # mx
      BY <1>5, <2>5
    <3>2. QED
      BY <1>4, <2>1, <2>2, <2>5, <3>1 DEF QueuedOnce
  <2>6. CASE ox # new /\ nx # new
    BY <1>5, <2>1, <2>2, <2>6 DEF QueuedOnce
  <2>7. QED
    BY <2>3, <2>4, <2>5, <2>6
<1>9. QueuedNow(p, mutexes') => QueuedNow(p, mutexes)
  BY <1>4, <1>5 DEF QueuedNow
<1>10. reply \in [Clients -> Replies] /\ rep \in [Clients -> Replies]
  BY ReplyTo, SMTT(30) DEF TypeOK, Replies
<1>11. \A q \in Clients : reply'[q] = IF Waiting(q) /\ Current(q, w) THEN "ok" ELSE rep[q]
  BY <1>10, ReplyTo DEF w, Replies
<1>12. inbox \in Seq(Msgs) /\ Tail(inbox) \in Seq(Msgs) /\ Thins(inbox, Tail(inbox))
  BY Received DEF TypeOK
<1>13. reply'[p] = reply[p] \/ (Silent(p, inbox') /\ ~QueuedNow(p, mutexes'))
  <2>1. CASE Waiting(p) /\ Current(p, w)
    <3>1. QueuedNow(p, mutexes) /\ QueuedOnce(p, mutexes)
      BY <1>4, <2>1 DEF QueuedNow, Ordered
    <3>2. Silent(p, inbox)
      BY <2>1, <3>1 DEF Ordered
    <3>3. Silent(p, inbox')
      BY <1>12, <3>2, ThinsTrans, ThinsSilent DEF Delivers
    <3>4. ~QueuedNow(p, mutexes')
      <4>1. ASSUME NEW nx \in Range(mutexes'), NEW j \in 1..Len(nx.waiters),
                   Current(p, nx.waiters[j])
            PROVE  FALSE
        <5>0. 1 \in 1..Len(mx.waiters) /\ Current(p, mx.waiters[1])
          BY <1>4, <2>1
        <5>1. CASE nx = new
          BY <1>4, <3>1, <4>1, <5>0, <5>1 DEF QueuedOnce
        <5>2. CASE nx # new
          BY <1>5, <3>1, <4>1, <5>0, <5>2 DEF QueuedOnce
        <5>3. QED
          BY <5>1, <5>2
      <4>2. QED
        BY <4>1 DEF QueuedNow
    <3>5. QED
      BY <3>3, <3>4
  <2>2. ASSUME ~(Waiting(p) /\ Current(p, w)), reply'[p] # reply[p]
        PROVE  Silent(p, inbox') /\ ~QueuedNow(p, mutexes')
    <3>1. rep[p] # reply[p]
      BY <1>11, <2>2
    <3>2. Head(inbox) \in Calls /\ Waiting(p) /\ Current(p, Head(inbox).from)
      BY <1>10, <3>1, ReplyTo
    <3>3. Silent(p, Tail(inbox)) /\ ~QueuedNow(p, mutexes)
      BY <3>2, CurrentCall
    <3>4. Silent(p, inbox')
      BY <1>12, <3>3, ThinsSilent DEF Delivers
    <3>5. QED
      BY <1>9, <3>3, <3>4
  <2>3. QED
    BY <2>1, <2>2
<1>14. QED
  BY <1>7, <1>8, <1>13, OrderStep

-----------------------------------------------------------------------------
(* A step of the server keeps what clients have covered by their mutexes. *)

(* What a client has is a number. *)
LEMMA HasType ==
  ASSUME TypeOK, NEW p \in Clients, NEW r \in Resources
  PROVE  held[p][r] \in Nat /\ Granted(p, r) \in {0, 1} /\ Has(p, r) \in Nat
<1>1. held[p][r] \in 0..MaxDepth
  BY DEF TypeOK
<1>2. held[p][r] \in Nat
  BY <1>1, GatekeeperAssumption
<1>3. Granted(p, r) \in {0, 1}
  BY DEF Granted
<1>4. QED
  BY <1>2, <1>3 DEF Has

(* Nothing is granted to p, and its mutex still has the count it needs. *)
LEMMA CoverStep ==
  ASSUME TypeOK, NEW p \in Clients, NEW r \in Resources, Covered(p, r),
         inbox' \in Seq(Msgs), Thins(inbox, inbox'), mutexes' \in Seq(MutexTuples),
         UNCHANGED held, Granted(p, r)' = Granted(p, r),
         \A mx \in Range(mutexes) : mx.resource = r /\ mx.process = p =>
           \E nx \in Range(mutexes') :
             /\ nx.resource = r /\ nx.process = p
             /\ nx.count >= mx.count
  PROVE  Covered(p, r)'
<1>1. Has(p, r)' = Has(p, r)
  BY DEF Has
<1>2. Leaves(p, r, inbox') <= Leaves(p, r, inbox)
  BY LeavesThin DEF TypeOK
<1>3. Leaves(p, r, inbox)' = Leaves(p, r, inbox')
  BY DEF Leaves, LeaveIndices
<1>4. Leaves(p, r, inbox') \in Nat /\ Leaves(p, r, inbox) \in Nat /\ Has(p, r) \in Nat
  BY LeavesType, HasType DEF TypeOK
<1>5. SUFFICES ASSUME Has(p, r) > 0
               PROVE  \E nx \in Range(mutexes') : /\ nx.resource = r /\ nx.process = p
                        /\ nx.count >= Has(p, r) + Leaves(p, r, inbox')
  BY <1>1, <1>3 DEF Covered
<1>6. PICK mx \in Range(mutexes) : /\ mx.resource = r /\ mx.process = p
                                   /\ mx.count >= Has(p, r) + Leaves(p, r, inbox)
  BY <1>5 DEF Covered
<1>7. PICK nx \in Range(mutexes') : nx.resource = r /\ nx.process = p /\ nx.count >= mx.count
  BY <1>6
<1>8. mx.count \in Nat /\ nx.count \in Nat
  <2>1. mx \in MutexTuples /\ nx \in MutexTuples
    BY DEF TypeOK, Range
  <2>2. QED
    BY <2>1 DEF MutexTuples
<1>9. nx.count >= Has(p, r) + Leaves(p, r, inbox')
  BY <1>2, <1>4, <1>6, <1>7, <1>8
<1>10. QED
  BY <1>7, <1>9

(* p is granted the mutex of r, and has made no call since. *)
LEMMA CoverGrant ==
  ASSUME TypeOK, NEW p \in Clients, NEW r \in Resources,
         inbox' \in Seq(Msgs), Silent(p, inbox'), mutexes' \in Seq(MutexTuples),
         UNCHANGED held, Granted(p, r)' \in {0, 1},
         NEW nx \in Range(mutexes'), nx.resource = r, nx.process = p,
         nx.count >= held[p][r] + 1
  PROVE  Covered(p, r)'
<1>1. Leaves(p, r, inbox') = 0 /\ Leaves(p, r, inbox)' = Leaves(p, r, inbox')
  <2>1. Leaves(p, r, inbox') = 0
    BY LeavesSilent
  <2>2. Leaves(p, r, inbox)' = Leaves(p, r, inbox')
    BY DEF Leaves, LeaveIndices
  <2>3. QED
    BY <2>1, <2>2
<1>2. held[p][r] \in Nat
  BY HasType
<1>3. nx \in MutexTuples
  BY DEF Range
<1>4. nx.count \in Nat
  BY <1>3 DEF MutexTuples
<1>5. Has(p, r)' = held[p][r] + Granted(p, r)'
  BY DEF Has
<1>6. nx.count >= Has(p, r)' + Leaves(p, r, inbox)'
  BY <1>1, <1>2, <1>4, <1>5
<1>7. QED
  BY <1>6 DEF Covered

(* Who owns a mutex that is about to be released is inside it no more. *)
LEMMA Released ==
  ASSUME TypeOK, UniqueInv, ClientInv, HeldInv, NEW mx \in Range(mutexes), inbox # <<>>,
         \/ /\ Head(inbox) \in Calls /\ Head(inbox).type = "leave" /\ mx.count <= 1
            /\ mx.resource = Head(inbox).resource /\ mx.process = Head(inbox).from.proc
         \/ pc[mx.process] = "dead"
  PROVE  mx.process \in Clients /\ mx.resource \in Resources /\ Has(mx.process, mx.resource) = 0
<1> DEFINE p == mx.process
           r == mx.resource
<1>1. mx \in MutexTuples /\ mutexes \in Seq(MutexTuples)
  BY DEF TypeOK, Range
<1>2. p \in Clients /\ r \in Resources /\ mx.count \in Nat
  BY <1>1 DEF MutexTuples
<1>3. Has(p, r) \in Nat
  BY <1>2, HasType
<1>4. CASE pc[p] = "dead"
  <2>1. held[p][r] = 0
    BY <1>2, <1>4 DEF ClientInv, Client
  <2>2. Granted(p, r) = 0
    BY <1>4 DEF Granted
  <2>3. QED
    BY <1>2, <2>1, <2>2 DEF Has
<1>5. CASE /\ Head(inbox) \in Calls /\ Head(inbox).type = "leave" /\ mx.count <= 1
           /\ mx.resource = Head(inbox).resource /\ mx.process = Head(inbox).from.proc
  <2>1. inbox \in Seq(Msgs) /\ Tail(inbox) \in Seq(Msgs)
    BY Received DEF TypeOK
  <2>2. Leaves(p, r, Tail(inbox)) + 1 <= Leaves(p, r, inbox)
    BY <1>5, <2>1, LeavesTail
  <2>3. Leaves(p, r, Tail(inbox)) \in Nat /\ Leaves(p, r, inbox) \in Nat
    BY <2>1, LeavesType
  <2>4. ASSUME Has(p, r) > 0
        PROVE  FALSE
    <3>1. Covered(p, r)
      BY <1>2 DEF HeldInv
    <3>2. PICK nx \in Range(mutexes) : /\ nx.resource = r /\ nx.process = p
                                       /\ nx.count >= Has(p, r) + Leaves(p, r, inbox)
      BY <2>4, <3>1 DEF Covered
    <3>3. nx = mx
      BY <1>1, <3>2, OneMutex DEF UniqueInv
    <3>4. QED
      BY <1>2, <1>3, <1>5, <2>2, <2>3, <2>4, <3>2, <3>3
  <2>5. QED
    BY <1>2, <1>3, <2>4
<1>6. QED
  BY <1>4, <1>5

(* leave-mutex *)
LEMMA CoverPass ==
  ASSUME TypeOK, UniqueInv, HeldInv, NEW p \in Clients, NEW r \in Resources, Ordered(p),
         UNCHANGED <<pc, res, held>>, inbox' \in Seq(Msgs), Thins(inbox, inbox'),
         NEW mx \in Range(mutexes), mx.process \in Clients, Has(mx.process, mx.resource) = 0,
         NEW rep \in [Clients -> Replies], pc[p] = "enter" => rep[p] = reply[p],
         \/ mx.waiters = <<>> /\ Dropped(mx) /\ reply' = rep
         \/ /\ mx.waiters # <<>> /\ Swapped(mx, Passed(mx))
            /\ reply' = Reply(rep, Head(mx.waiters), "ok")
  PROVE  Covered(p, r)'
<1> DEFINE new == Passed(mx)
           w == Head(mx.waiters)
<1>1. mx \in MutexTuples /\ mutexes \in Seq(MutexTuples) /\ mutexes' \in Seq(MutexTuples)
  BY DEF TypeOK, Range, Dropped, Swapped
<1>2. mx.waiters \in Seq(Froms)
  BY <1>1 DEF MutexTuples
<1>3. new.resource = mx.resource /\ new.process = w.proc /\ new.count = 1
  BY DEF Passed, New
<1>4. Covered(p, r)
  BY DEF HeldInv
<1>5. Has(p, r) \in Nat
  BY HasType
<1> HIDE DEF new, w
<1>6. CASE Granted(p, r)' = Granted(p, r)
  <2>1. CASE Has(p, r) = 0
    <3>1. Has(p, r)' = 0
      BY <1>6, <2>1 DEF Has
    <3>2. QED
      BY <3>1 DEF Covered
  <2>2. CASE Has(p, r) > 0
    <3>1. \A nx \in Range(mutexes) : nx.resource = r /\ nx.process = p => nx \in Range(mutexes')
      <4>1. SUFFICES ASSUME NEW nx \in Range(mutexes), nx.resource = r, nx.process = p
                     PROVE  nx \in Range(mutexes')
        OBVIOUS
      <4>2. nx # mx
        BY <2>2, <4>1
      <4>3. QED
        BY <4>2 DEF Dropped, Swapped
    <3>2. \A nx \in Range(mutexes) : nx.count >= nx.count
      <4>1. \A nx \in Range(mutexes) : nx \in MutexTuples
        BY <1>1 DEF Range
      <4>2. \A nx \in Range(mutexes) : nx.count \in Nat
        BY <4>1 DEF MutexTuples
      <4>3. QED
        BY <4>2
    <3>3. QED
      BY <1>1, <1>4, <1>6, <3>1, <3>2, CoverStep
  <2>3. QED
    BY <1>5, <2>1, <2>2
<1>7. CASE Granted(p, r)' # Granted(p, r)
  <2>0. pc[p] = "enter" /\ reply'[p] # reply[p] /\ r = res[p]
    BY <1>7 DEF Granted
  <2>1. /\ mx.waiters # <<>> /\ Swapped(mx, new)
        /\ reply' = Reply(rep, w, "ok") /\ rep[p] = reply[p]
    BY <2>0 DEF new, w
  <2>2. Waiting(p) /\ Current(p, w)
    BY <2>0, <2>1, ReplyTo DEF Replies
  <2>3. w = mx.waiters[1] /\ 1 \in 1..Len(mx.waiters)
    BY <1>2, <2>1 DEF w
  <2>4. QueuedNow(p, mutexes) /\ mx.resource = res[p]
    BY <2>2, <2>3 DEF QueuedNow, Ordered, Queued, Current
  <2>5. Silent(p, inbox')
    BY <2>2, <2>4, ThinsSilent DEF Ordered, TypeOK
  <2>11. Has(p, r) = 0
    <3>1. ASSUME Has(p, r) > 0
          PROVE  FALSE
      <4>1. PICK nx \in Range(mutexes) : nx.resource = r /\ nx.process = p
        BY <1>4, <3>1 DEF Covered
      <4>2. nx = mx
        BY <1>1, <2>4, <2>0, <4>1, OneMutex DEF UniqueInv
      <4>3. QED
        BY <2>4, <2>0, <3>1, <4>1, <4>2
    <3>2. QED
      BY <1>5, <3>1
  <2>12. held[p][r] = 0
    BY <2>11, HasType DEF Has
  <2>13. new \in Range(mutexes') /\ new.resource = r /\ new.process = p
    BY <1>3, <2>1, <2>2, <2>4, <2>0 DEF Swapped, Current
  <2>14. new.count >= held[p][r] + 1
    BY <1>3, <2>12
  <2>15. Granted(p, r)' \in {0, 1}
    BY DEF Granted
  <2>16. QED
    BY <1>1, <2>5, <2>13, <2>14, <2>15, CoverGrant
<1>8. QED
  BY <1>6, <1>7

-----------------------------------------------------------------------------
(* The handlers keep the invariant. *)

(* What a handler changes and leaves alone *)
Handled ==
  /\ server = "up" /\ inbox # <<>> /\ UNCHANGED <<pc, res, tag, held>>
  /\ server' \in {"up", "looping"}
  /\ Delivers(Tail(inbox), inbox') /\ mutexes' \in Seq(MutexTuples) /\ Uniq(mutexes')
  /\ reply' \in [Clients -> Replies]
  /\ \A p \in Clients : reply'[p] # reply[p] => Waiting(p)

(* A handler that keeps the order of calls and covers what clients have *)
LEMMA HandledKeeps ==
  ASSUME Inv, Handled, \A p \in Clients : Ordered(p)',
         \A p \in Clients, r \in Resources : Covered(p, r)'
  PROVE  Inv'
<1>1. TypeOK'
  BY DEF Inv, TypeOK, Handled, Delivers, Replies
<1>2. UniqueInv'
  BY DEF UniqueInv, Handled
<1>3. DownInv'
  <2>1. Range(Tail(inbox)) \subseteq Range(inbox)
    BY Received DEF Inv, Handled
  <2>2. QED
    BY <2>1 DEF Inv, DownInv, Handled, Delivers
<1>4. ClientInv'
  <2>1. SUFFICES ASSUME NEW p \in Clients
                 PROVE  Client(p)'
    BY DEF ClientInv
  <2>2. Client(p) /\ (reply'[p] # reply[p] => Waiting(p)) /\ UNCHANGED <<pc, res, held>>
    BY DEF Inv, ClientInv, Handled
  <2>3. QED
    BY <2>2 DEF Client, Waiting
<1>5. OrderInv' /\ HeldInv'
  BY DEF OrderInv, HeldInv
<1>6. QED
  BY <1>1, <1>2, <1>3, <1>4, <1>5 DEF Inv

(* The reply to the call that is handled *)
LEMMA Answered ==
  ASSUME TypeOK, NEW p \in Clients, Ordered(p), inbox # <<>>, Head(inbox) \in Calls,
         NEW v \in Replies, NEW rep, rep = Reply(reply, Head(inbox).from, v)
  PROVE  /\ rep \in [Clients -> Replies]
         /\ rep[p] # reply[p] =>
              /\ Waiting(p) /\ Head(inbox).from.proc = p /\ Head(inbox).type = pc[p]
              /\ Head(inbox).resource = res[p] /\ rep[p] = v /\ Silent(p, Tail(inbox))
              /\ reply[p] = None
<1>1. reply \in [Clients -> Replies]
  BY DEF TypeOK, Replies
<1>2. rep \in [Clients -> Replies]
  BY <1>1, ReplyTo
<1>3. ASSUME rep[p] # reply[p]
      PROVE  Waiting(p) /\ Current(p, Head(inbox).from) /\ rep[p] = v
  BY <1>1, <1>3, ReplyTo
<1>4. QED
  BY <1>2, <1>3, CurrentCall DEF Current

(* HandleEnterFree keeps the invariant. *)
LEMMA EnterFreeKeeps ==
  ASSUME Inv, HandleEnterFree
  PROVE  Inv'
<1> DEFINE m == Head(inbox)
           new == New(m.resource, m.from.proc, <<>>)
<1>1. TypeOK /\ UniqueInv /\ HeldInv
  BY DEF Inv
<1>2. server = "up" /\ inbox # <<>> /\ UNCHANGED <<server, pc, res, tag, held>>
  BY DEF HandleEnterFree, Receives
<1>3. /\ m \in Calls /\ m.type = "enter"
      /\ \A mx \in Range(mutexes) : mx.resource # m.resource
      /\ mutexes' \in Seq(MutexTuples) /\ Uniq(mutexes')
      /\ Range(mutexes') = Range(mutexes) \cup {new}
      /\ Delivers(Tail(inbox), inbox')
      /\ reply' = Reply(reply, m.from, "ok")
  BY <1>1, EnterFreeEffect
<1>4. \A p \in Clients : Ordered(p)
  BY <1>2 DEF Inv, OrderInv
<1>5. \A p \in Clients :
        /\ reply' \in [Clients -> Replies]
        /\ reply'[p] # reply[p] =>
             /\ Waiting(p) /\ m.from.proc = p /\ m.type = pc[p]
             /\ m.resource = res[p] /\ Silent(p, Tail(inbox)) /\ reply[p] = None
  BY <1>1, <1>2, <1>3, <1>4, Answered DEF Replies
<1>6. new.resource = m.resource /\ new.process = m.from.proc /\ new.count = 1 /\ new.waiters = <<>>
  BY DEF New
<1>7. /\ inbox \in Seq(Msgs) /\ Tail(inbox) \in Seq(Msgs) /\ inbox' \in Seq(Msgs)
      /\ Thins(inbox, inbox') /\ Thins(Tail(inbox), inbox')
  BY <1>1, <1>2, <1>3, Received, ThinsTrans DEF TypeOK, Delivers
<1> HIDE DEF m, new
<1>8. reply' \in [Clients -> Replies]
  <2>1. reply \in [Clients -> Replies]
    BY <1>1 DEF TypeOK, Replies
  <2>2. QED
    BY <1>3, <2>1, ReplyTo DEF Replies
<1>9. Handled
  BY <1>2, <1>3, <1>5, <1>8 DEF Handled
<1>10. \A nx \in Range(mutexes') :
         nx.waiters = <<>> \/ \E mx \in Range(mutexes) : /\ mx.resource = nx.resource
                                                       /\ mx.waiters = nx.waiters
  BY <1>3, <1>6
<1>11. \E v \in Replies : reply' = Reply(reply, Head(inbox).from, v)
  BY <1>3 DEF Replies, m
<1>12. ASSUME NEW p \in Clients
       PROVE  Ordered(p)'
  BY <1>1, <1>2, <1>3, <1>4, <1>10, <1>11, OrderKeep DEF m
<1>13. ASSUME NEW p \in Clients, NEW r \in Resources
       PROVE  Covered(p, r)'
  <2>1. Covered(p, r)
    BY <1>1 DEF HeldInv
  <2>2. CASE Granted(p, r)' = Granted(p, r)
    <3>1. \A mx \in Range(mutexes) : mx \in Range(mutexes') /\ mx.count >= mx.count
      <4>1. \A mx \in Range(mutexes) : mx \in MutexTuples
        BY <1>1 DEF TypeOK, Range
      <4>2. \A mx \in Range(mutexes) : mx.count \in Nat
        BY <4>1 DEF MutexTuples
      <4>3. QED
        BY <1>3, <4>2
    <3>2. QED
      BY <1>1, <1>2, <1>3, <1>7, <2>1, <2>2, <3>1, CoverStep
  <2>3. CASE Granted(p, r)' # Granted(p, r)
    <3>0. reply'[p] # reply[p] /\ r = res[p]
      BY <1>2, <2>3 DEF Granted
    <3>1. m.from.proc = p /\ r = m.resource /\ Silent(p, inbox')
      BY <1>5, <1>7, <3>0, ThinsSilent
    <3>2. Has(p, r) = 0
      BY <1>1, <1>3, <2>1, <3>1, HasType DEF Covered
    <3>3. held[p][r] = 0
      BY <1>1, <3>2, HasType DEF Has
    <3>4. Granted(p, r)' \in {0, 1}
      BY DEF Granted
    <3>5. new \in Range(mutexes') /\ new.resource = r /\ new.process = p /\ new.count >= held[p][r] + 1
      BY <1>3, <1>6, <3>1, <3>3
    <3>6. QED
      BY <1>1, <1>2, <1>3, <1>7, <3>1, <3>4, <3>5, CoverGrant
  <2>4. QED
    BY <2>2, <2>3
<1>14. QED
  BY <1>9, <1>12, <1>13, HandledKeeps

(* The fields of a mutex in the list. *)
LEMMA CountsType ==
  ASSUME NEW ms \in Seq(MutexTuples), NEW mx \in Range(ms)
  PROVE  mx \in MutexTuples /\ mx.count \in Nat /\ mx.waiters \in Seq(Froms)
<1>1. mx \in MutexTuples
  BY DEF Range
<1>2. QED
  BY <1>1 DEF MutexTuples

(* A mutex that is replaced by one with the same waiters, for an answer *)
LEMMA AnswerKeeps ==
  ASSUME Inv, server = "up", inbox # <<>>, inbox' = Tail(inbox), Head(inbox) \in Calls,
         UNCHANGED <<pc, res, tag, held>>, server' \in {"up", "looping"},
         \/ reply' = reply
         \/ \E v \in Replies : reply' = Reply(reply, Head(inbox).from, v),
         mutexes' \in Seq(MutexTuples), Uniq(mutexes'),
         \A nx \in Range(mutexes') :
           \E mx \in Range(mutexes) : mx.resource = nx.resource /\ mx.waiters = nx.waiters,
         \A p \in Clients, r \in Resources : Covered(p, r)'
  PROVE  Inv'
<1>1. TypeOK /\ \A p \in Clients : Ordered(p)
  BY DEF Inv, OrderInv
<1>2. reply \in [Clients -> Replies]
  BY <1>1 DEF TypeOK, Replies
<1>3. Tail(inbox) \in Seq(Msgs)
  BY <1>1, Received
<1>4. Delivers(Tail(inbox), inbox')
  BY <1>3, ThinsSame DEF Delivers
<1>5. /\ reply' \in [Clients -> Replies]
      /\ \A p \in Clients : reply'[p] # reply[p] => Waiting(p)
  BY <1>2, ReplyTo
<1>6. Handled
  BY <1>4, <1>5 DEF Handled
<1>7. ASSUME NEW p \in Clients
      PROVE  Ordered(p)'
  BY <1>1, <1>4, OrderKeep
<1>8. QED
  BY <1>6, <1>7, HandledKeeps

(* HandleEnterTaken keeps the invariant. *)
LEMMA EnterTakenKeeps ==
  ASSUME Inv, HandleEnterTaken
  PROVE  Inv'
<1> DEFINE m == Head(inbox)
<1>1. TypeOK /\ UniqueInv /\ HeldInv /\ mutexes \in Seq(MutexTuples)
  BY DEF Inv, TypeOK
<1>2. server = "up" /\ inbox # <<>> /\ UNCHANGED <<pc, res, tag, held>>
  BY DEF HandleEnterTaken, Receives
<1>3. /\ m \in Calls /\ m.type = "enter" /\ inbox' = Tail(inbox)
      /\ server' \in {"up", "looping"}
      /\ \/ mutexes' = mutexes /\ reply' = reply
         \/ mutexes' = mutexes /\ reply' = Reply(reply, m.from, "deadlock")
         \/ \E mx \in Range(mutexes) :
              /\ mx.resource = m.resource /\ mx.process = m.from.proc
              /\ Swapped(mx, Reenter(mx))
              /\ reply' = Reply(reply, m.from, "ok")
         \/ \E mx \in Range(mutexes) :
              /\ mx.resource = m.resource
              /\ Swapped(mx, Queue(mx, m.from))
              /\ reply' = reply
  BY <1>1, EnterTakenEffect
<1>4. \A p \in Clients : Ordered(p)
  BY <1>2 DEF Inv, OrderInv
<1>5. /\ inbox \in Seq(Msgs) /\ inbox' \in Seq(Msgs) /\ Thins(inbox, inbox')
  BY <1>1, <1>2, <1>3, Received DEF TypeOK
<1>6. reply \in [Clients -> Replies]
  BY <1>1 DEF TypeOK, Replies
<1>7. \A p \in Clients, r \in Resources : Covered(p, r)
  BY <1>1 DEF HeldInv
<1> HIDE DEF m
<1>8. CASE mutexes' = mutexes /\ (reply' = reply \/ reply' = Reply(reply, m.from, "deadlock"))
  <2>1. ASSUME NEW p \in Clients, NEW r \in Resources
        PROVE  Covered(p, r)'
    <3>1. reply'[p] = reply[p] \/ (reply'[p] = "deadlock" /\ reply[p] = None)
      BY <1>1, <1>2, <1>3, <1>4, <1>8, Answered DEF Replies, m
    <3>2. Granted(p, r)' = Granted(p, r)
      BY <1>2, <3>1, GatekeeperAssumption DEF Granted
    <3>3. \A mx \in Range(mutexes) : mx.count >= mx.count
      BY <1>1, CountsType
    <3>4. QED
      BY <1>1, <1>2, <1>5, <1>7, <1>8, <3>2, <3>3, CoverStep
  <2>2. \E v \in Replies : reply' = reply \/ reply' = Reply(reply, Head(inbox).from, v)
    BY <1>8 DEF Replies, m
  <2>3. QED
    BY <1>1, <1>2, <1>3, <1>8, <2>1, <2>2, AnswerKeeps DEF UniqueInv, m
<1>9. ASSUME NEW mx \in Range(mutexes), mx.resource = m.resource, mx.process = m.from.proc,
             Swapped(mx, Reenter(mx)), reply' = Reply(reply, m.from, "ok")
      PROVE  Inv'
  <2> DEFINE new == Reenter(mx)
  <2>1. mx \in MutexTuples /\ mx.count \in Nat
    BY <1>1, CountsType
  <2>2. /\ new.resource = mx.resource /\ new.process = mx.process
        /\ new.count = mx.count + 1 /\ new.waiters = mx.waiters
    BY <2>1 DEF Reenter, MutexTuples
  <2>3. /\ mutexes' \in Seq(MutexTuples) /\ Uniq(mutexes')
        /\ Range(mutexes') = (Range(mutexes) \ {mx}) \cup {new}
    BY <1>9 DEF Swapped
  <2> HIDE DEF new
  <2>4. ASSUME NEW p \in Clients, NEW r \in Resources
        PROVE  Covered(p, r)'
    <3>1. CASE Granted(p, r)' = Granted(p, r)
      <4>1. \A ox \in Range(mutexes) : ox.count >= ox.count /\ mx.count + 1 >= mx.count
        BY <1>1, CountsType
      <4>2. ASSUME NEW ox \in Range(mutexes), ox.resource = r, ox.process = p
            PROVE  \E nx \in Range(mutexes') : /\ nx.resource = r /\ nx.process = p
                                               /\ nx.count >= ox.count
        BY <2>2, <2>3, <4>1, <4>2
      <4>3. QED
        BY <1>1, <1>2, <1>5, <1>7, <2>3, <3>1, <4>2, CoverStep
    <3>2. CASE Granted(p, r)' # Granted(p, r)
      <4>1. reply'[p] # reply[p] /\ r = res[p]
        BY <1>2, <3>2 DEF Granted
      <4>2. p = m.from.proc /\ r = m.resource /\ Silent(p, inbox')
        BY <1>1, <1>2, <1>3, <1>4, <1>9, <4>1, Answered DEF Replies, m
      <4>3. held[p][r] \in Nat /\ Has(p, r) \in Nat /\ Has(p, r) >= held[p][r]
        BY <1>1, HasType DEF Has
      <4>4. new.count >= held[p][r] + 1
        <5>1. CASE held[p][r] = 0
          BY <2>1, <2>2, <5>1
        <5>2. CASE held[p][r] > 0
          <6>1. PICK ox \in Range(mutexes) : /\ ox.resource = r /\ ox.process = p
                                             /\ ox.count >= Has(p, r) + Leaves(p, r, inbox)
            BY <1>7, <4>3, <5>2 DEF Covered
          <6>2. ox = mx
            BY <1>1, <1>9, <4>2, <6>1, OneMutex DEF UniqueInv
          <6>3. Leaves(p, r, inbox) \in Nat
            BY <1>5, LeavesType
          <6>4. QED
            BY <2>1, <2>2, <4>3, <6>1, <6>2, <6>3
        <5>3. QED
          BY <4>3, <5>1, <5>2
      <4>5. new \in Range(mutexes') /\ new.resource = r /\ new.process = p
        BY <1>9, <2>2, <2>3, <4>2
      <4>6. Granted(p, r)' \in {0, 1}
        BY DEF Granted
      <4>7. QED
        BY <1>1, <1>2, <1>5, <2>3, <4>2, <4>4, <4>5, <4>6, CoverGrant
    <3>3. QED
      BY <3>1, <3>2
  <2>5. \E v \in Replies : reply' = Reply(reply, Head(inbox).from, v)
    BY <1>9 DEF Replies, m
  <2>6. \A nx \in Range(mutexes') :
          \E ox \in Range(mutexes) : ox.resource = nx.resource /\ ox.waiters = nx.waiters
    BY <2>2, <2>3
  <2>7. QED
    BY <1>1, <1>2, <1>3, <2>3, <2>4, <2>5, <2>6, AnswerKeeps DEF m
<1>10. ASSUME NEW mx \in Range(mutexes), mx.resource = m.resource,
              Swapped(mx, Queue(mx, m.from)), reply' = reply
       PROVE  Inv'
  <2> DEFINE new == Queue(mx, m.from)
  <2>1. mx \in MutexTuples /\ mx.count \in Nat
    BY <1>1, CountsType
  <2>2. new.resource = mx.resource /\ new.process = mx.process /\ new.count = mx.count
    BY <2>1 DEF Queue, MutexTuples
  <2>3. /\ mutexes' \in Seq(MutexTuples) /\ Uniq(mutexes')
        /\ Range(mutexes') = (Range(mutexes) \ {mx}) \cup {new}
    BY <1>10 DEF Swapped
  <2> HIDE DEF new
  <2>4. ASSUME NEW p \in Clients, NEW r \in Resources
        PROVE  Covered(p, r)'
    <3>1. Granted(p, r)' = Granted(p, r)
      BY <1>2, <1>10 DEF Granted
    <3>2. \A ox \in Range(mutexes) : ox.count >= ox.count
      BY <1>1, CountsType
    <3>3. ASSUME NEW ox \in Range(mutexes), ox.resource = r, ox.process = p
          PROVE  \E nx \in Range(mutexes') : /\ nx.resource = r /\ nx.process = p
                                             /\ nx.count >= ox.count
      BY <2>2, <2>3, <3>2, <3>3
    <3>4. QED
      BY <1>1, <1>2, <1>5, <1>7, <2>3, <3>1, <3>3, CoverStep
  <2>5. Delivers(Tail(inbox), inbox')
    BY <1>3, <1>5, ThinsSame DEF Delivers
  <2>6. ASSUME NEW p \in Clients
        PROVE  Ordered(p)'
    BY <1>1, <1>2, <1>3, <1>4, <1>10, <2>5, OrderQueue DEF m
  <2>7. Handled
    BY <1>2, <1>3, <1>6, <1>10, <2>3, <2>5 DEF Handled
  <2>8. QED
    BY <2>4, <2>6, <2>7, HandledKeeps
<1>11. QED
  BY <1>3, <1>8, <1>9, <1>10

(* A mutex is left or its owner is DOWN. *)
LEMMA LeaveMutexKeeps ==
  ASSUME Inv, server = "up", server' = server, inbox # <<>>, UNCHANGED <<pc, res, tag, held>>,
         NEW mx \in Range(mutexes), NEW rep, LeaveMutex(mx, Tail(inbox), rep),
         mx.process \in Clients, Has(mx.process, mx.resource) = 0,
         \/ rep = reply
         \/ /\ Head(inbox) \in Calls /\ Head(inbox).type = "leave"
            /\ rep = Reply(reply, Head(inbox).from, "ok")
  PROVE  Inv'
<1>1. TypeOK /\ UniqueInv /\ HeldInv /\ mutexes \in Seq(MutexTuples) /\ \A p \in Clients : Ordered(p)
  BY DEF Inv, TypeOK, OrderInv
<1>2. /\ inbox \in Seq(Msgs) /\ Tail(inbox) \in Seq(Msgs) /\ Thins(inbox, Tail(inbox))
  BY <1>1, Received DEF TypeOK
<1>3. /\ Delivers(Tail(inbox), inbox')
      /\ \/ mx.waiters = <<>> /\ Dropped(mx) /\ reply' = rep
         \/ /\ mx.waiters # <<>> /\ Swapped(mx, Passed(mx))
            /\ reply' = Reply(rep, Head(mx.waiters), "ok")
  BY <1>1, <1>2, LeaveMutexEffect
<1>4. inbox' \in Seq(Msgs) /\ Thins(inbox, inbox')
  BY <1>2, <1>3, ThinsTrans DEF Delivers
<1>5. reply \in [Clients -> Replies] /\ "ok" \in Replies
  BY <1>1 DEF TypeOK, Replies
<1>6. rep \in [Clients -> Replies]
  BY <1>5, ReplyTo
<1>7. /\ reply' \in [Clients -> Replies]
      /\ \A p \in Clients : reply'[p] # reply[p] => Waiting(p)
  <2>1. \A p \in Clients : rep[p] # reply[p] => Waiting(p)
    BY <1>5, ReplyTo
  <2>2. QED
    BY <1>3, <1>5, <1>6, <2>1, ReplyTo
<1>8. mutexes' \in Seq(MutexTuples) /\ Uniq(mutexes')
  BY <1>3 DEF Dropped, Swapped
<1>9. Handled
  BY <1>3, <1>7, <1>8 DEF Handled
<1>10. ASSUME NEW p \in Clients
       PROVE  Ordered(p)'
  <2>1. \/ rep = reply
        \/ Head(inbox) \in Calls
           /\ \E v \in Replies : rep = Reply(reply, Head(inbox).from, v)
    BY <1>5
  <2>2. CASE mx.waiters = <<>> /\ Dropped(mx) /\ reply' = rep
    <3>1. \A nx \in Range(mutexes') :
            \E ox \in Range(mutexes) : ox.resource = nx.resource /\ ox.waiters = nx.waiters
      BY <2>2 DEF Dropped
    <3>2. QED
      BY <1>1, <1>3, <1>8, <2>1, <2>2, <3>1, OrderKeep
  <2>3. CASE /\ mx.waiters # <<>> /\ Swapped(mx, Passed(mx))
             /\ reply' = Reply(rep, Head(mx.waiters), "ok")
    BY <1>1, <1>3, <2>1, <2>3, OrderPass
  <2>4. QED
    BY <1>3, <2>2, <2>3
<1>11. ASSUME NEW p \in Clients, NEW r \in Resources
       PROVE  Covered(p, r)'
  <2>1. pc[p] = "enter" => rep[p] = reply[p]
    <3>1. CASE rep = reply
      BY <3>1
    <3>2. CASE /\ Head(inbox) \in Calls /\ Head(inbox).type = "leave"
               /\ rep = Reply(reply, Head(inbox).from, "ok")
      <4>1. rep[p] # reply[p] => Head(inbox).type = pc[p]
        BY <1>1, <1>5, <3>2, Answered
      <4>2. QED
        BY <3>2, <4>1
    <3>3. QED
      BY <3>1, <3>2
  <2>2. QED
    BY <1>1, <1>3, <1>4, <1>6, <2>1, CoverPass
<1>12. QED
  BY <1>9, <1>10, <1>11, HandledKeeps

(* HandleLeave keeps the invariant. *)
LEMMA LeaveKeeps ==
  ASSUME Inv, HandleLeave
  PROVE  Inv'
<1> DEFINE m == Head(inbox)
<1>1. TypeOK /\ UniqueInv /\ ClientInv /\ HeldInv /\ mutexes \in Seq(MutexTuples)
  BY DEF Inv, TypeOK
<1>2. server = "up" /\ inbox # <<>> /\ UNCHANGED <<server, pc, res, tag, held>>
  BY DEF HandleLeave, Receives
<1>3. /\ m \in Calls /\ m.type = "leave"
      /\ \/ /\ mutexes' = mutexes /\ inbox' = Tail(inbox)
            /\ reply' = Reply(reply, m.from, "unowned")
         \/ \E mx \in Range(mutexes) :
              /\ mx.resource = m.resource /\ mx.process = m.from.proc
              /\ Swapped(mx, Lower(mx)) /\ inbox' = Tail(inbox)
              /\ reply' = Reply(reply, m.from, "ok")
         \/ \E mx \in Range(mutexes) :
              /\ mx.resource = m.resource /\ mx.process = m.from.proc
              /\ mx.count <= 1
              /\ LeaveMutex(mx, Tail(inbox), Reply(reply, m.from, "ok"))
  BY <1>1, LeaveEffect
<1>4. \A p \in Clients : Ordered(p)
  BY <1>2 DEF Inv, OrderInv
<1>5. inbox \in Seq(Msgs) /\ Tail(inbox) \in Seq(Msgs) /\ Thins(inbox, Tail(inbox))
  BY <1>1, <1>2, Received DEF TypeOK
<1>6. \A p \in Clients, r \in Resources : Covered(p, r)
  BY <1>1 DEF HeldInv
<1> HIDE DEF m
<1>7. ASSUME NEW v \in {"ok", "unowned"}, reply' = Reply(reply, m.from, v),
             NEW p \in Clients, NEW r \in Resources
      PROVE  Granted(p, r)' = Granted(p, r)
  <2>1. reply'[p] # reply[p] => pc[p] = "leave"
    BY <1>1, <1>2, <1>3, <1>4, <1>7, Answered DEF Replies, m
  <2>2. QED
    BY <1>2, <2>1 DEF Granted
<1>8. CASE /\ mutexes' = mutexes /\ inbox' = Tail(inbox)
           /\ reply' = Reply(reply, m.from, "unowned")
  <2>1. ASSUME NEW p \in Clients, NEW r \in Resources
        PROVE  Covered(p, r)'
    <3>1. \A mx \in Range(mutexes) : mx.count >= mx.count
      BY <1>1, CountsType
    <3>2. Granted(p, r)' = Granted(p, r)
      BY <1>7, <1>8
    <3>3. QED
      BY <1>1, <1>2, <1>5, <1>6, <1>8, <3>1, <3>2, CoverStep
  <2>2. \E v \in Replies : reply' = Reply(reply, Head(inbox).from, v)
    BY <1>8 DEF Replies, m
  <2>3. QED
    BY <1>1, <1>2, <1>3, <1>8, <2>1, <2>2, AnswerKeeps DEF UniqueInv, m
<1>9. ASSUME NEW mx \in Range(mutexes), mx.resource = m.resource, mx.process = m.from.proc,
             Swapped(mx, Lower(mx)), inbox' = Tail(inbox), reply' = Reply(reply, m.from, "ok")
      PROVE  Inv'
  <2> DEFINE new == Lower(mx)
  <2>1. mx \in MutexTuples /\ mx.count \in Nat
    BY <1>1, CountsType
  <2>2. /\ new.resource = mx.resource /\ new.process = mx.process
        /\ new.count = mx.count - 1 /\ new.waiters = mx.waiters
    BY <2>1 DEF Lower, MutexTuples
  <2>3. /\ mutexes' \in Seq(MutexTuples) /\ Uniq(mutexes')
        /\ Range(mutexes') = (Range(mutexes) \ {mx}) \cup {new}
    BY <1>9 DEF Swapped
  <2> HIDE DEF new
  <2>4. ASSUME NEW p \in Clients, NEW r \in Resources
        PROVE  Covered(p, r)'
    <3>1. Granted(p, r)' = Granted(p, r)
      BY <1>7, <1>9
    <3>2. CASE ~(p = mx.process /\ r = mx.resource)
      <4>1. \A ox \in Range(mutexes) : ox.count >= ox.count
        BY <1>1, CountsType
      <4>2. \A ox \in Range(mutexes) : ox.resource = r /\ ox.process = p => ox \in Range(mutexes')
        BY <2>3, <3>2
      <4>3. QED
        BY <1>1, <1>2, <1>5, <1>6, <1>9, <2>3, <3>1, <4>1, <4>2, CoverStep
    <3>3. CASE p = mx.process /\ r = mx.resource
      <4>1. Has(p, r)' = Has(p, r) /\ Has(p, r) \in Nat
        BY <1>1, <1>2, <3>1, HasType DEF Has
      <4>2. Leaves(p, r, inbox') + 1 <= Leaves(p, r, inbox)
        BY <1>2, <1>3, <1>5, <1>9, <3>3, LeavesTail DEF m
      <4>3. Leaves(p, r, inbox') \in Nat /\ Leaves(p, r, inbox) \in Nat
        BY <1>5, <1>9, LeavesType
      <4>4. Leaves(p, r, inbox)' = Leaves(p, r, inbox')
        BY DEF Leaves, LeaveIndices
      <4>5. ASSUME Has(p, r) > 0
            PROVE  new.count >= Has(p, r) + Leaves(p, r, inbox')
        <5>1. PICK ox \in Range(mutexes) : /\ ox.resource = r /\ ox.process = p
                                           /\ ox.count >= Has(p, r) + Leaves(p, r, inbox)
          BY <1>6, <4>5 DEF Covered
        <5>2. ox = mx
          BY <1>1, <3>3, <5>1, OneMutex DEF UniqueInv
        <5>3. QED
          BY <2>1, <2>2, <4>1, <4>2, <4>3, <5>1, <5>2
      <4>6. new \in Range(mutexes') /\ new.resource = r /\ new.process = p
        BY <2>2, <2>3, <3>3
      <4>7. QED
        BY <4>1, <4>4, <4>5, <4>6 DEF Covered
    <3>4. QED
      BY <3>2, <3>3
  <2>5. \E v \in Replies : reply' = Reply(reply, Head(inbox).from, v)
    BY <1>9 DEF Replies, m
  <2>6. \A nx \in Range(mutexes') :
          \E ox \in Range(mutexes) : ox.resource = nx.resource /\ ox.waiters = nx.waiters
    BY <2>2, <2>3
  <2>7. QED
    BY <1>1, <1>2, <1>3, <1>9, <2>3, <2>4, <2>5, <2>6, AnswerKeeps DEF m
<1>10. ASSUME NEW mx \in Range(mutexes), mx.resource = m.resource, mx.process = m.from.proc,
              mx.count <= 1, LeaveMutex(mx, Tail(inbox), Reply(reply, m.from, "ok"))
       PROVE  Inv'
  <2>1. mx.process \in Clients /\ Has(mx.process, mx.resource) = 0
    BY <1>1, <1>2, <1>3, <1>10, Released DEF m
  <2>2. QED
    BY <1>2, <1>3, <1>10, <2>1, LeaveMutexKeeps DEF m
<1>11. QED
  BY <1>3, <1>8, <1>9, <1>10

(* HandleDown keeps the invariant. *)
LEMMA DownKeeps ==
  ASSUME Inv, HandleDown
  PROVE  Inv'
<1>1. TypeOK /\ UniqueInv /\ ClientInv /\ DownInv /\ HeldInv /\ mutexes \in Seq(MutexTuples)
  BY DEF Inv, TypeOK
<1>2. server = "up" /\ inbox # <<>> /\ UNCHANGED <<pc, res, tag, held>>
  BY DEF HandleDown, Receives
<1>3. /\ Head(inbox) \in Downs /\ Head(inbox) \in Range(inbox)
      /\ \/ /\ server' = "failed" /\ inbox' = <<>> /\ UNCHANGED <<mutexes, reply>>
         \/ /\ server' = server
            /\ \E mx \in Range(mutexes) :
                 DOWNof(mx) = Head(inbox) /\ LeaveMutex(mx, Tail(inbox), reply)
  BY <1>1, DownEffect
<1>4. CASE server' = "failed" /\ inbox' = <<>> /\ UNCHANGED <<mutexes, reply>>
  <2>1. TypeOK' /\ UniqueInv' /\ ClientInv' /\ OrderInv'
    BY <1>1, <1>2, <1>4 DEF TypeOK, UniqueInv, ClientInv, Client, Waiting, OrderInv
  <2>2. DownInv'
    BY <1>4 DEF DownInv, Range
  <2>3. ASSUME NEW p \in Clients, NEW r \in Resources
        PROVE  Covered(p, r)'
    <3>1. Granted(p, r)' = Granted(p, r)
      BY <1>2, <1>4 DEF Granted
    <3>2. inbox' \in Seq(Msgs) /\ Thins(inbox, inbox')
      <4> DEFINE none == <<>>
      <4>1. none \in Seq(Msgs) /\ Len(none) = 0
        OBVIOUS
      <4> DEFINE f == [i \in 1..0 |-> 0]
      <4>2. f \in [1..0 -> Nat]
        OBVIOUS
      <4> HIDE DEF none, f
      <4>3. Thins(inbox, none)
        <5>1. f \in [1..Len(none) -> Nat] /\ 1..Len(none) = {}
          BY <4>1, <4>2
        <5>2. QED
          BY <5>1 DEF Thins
      <4>4. QED
        BY <1>4, <4>1, <4>3 DEF none
    <3>3. \A mx \in Range(mutexes) : mx.count >= mx.count
      BY <1>1, CountsType
    <3>4. QED
      BY <1>1, <1>2, <1>4, <3>1, <3>2, <3>3, CoverStep DEF HeldInv
  <2>4. QED
    BY <2>1, <2>2, <2>3 DEF Inv, HeldInv
<1>5. ASSUME server' = server, NEW mx \in Range(mutexes), DOWNof(mx) = Head(inbox),
             LeaveMutex(mx, Tail(inbox), reply)
      PROVE  Inv'
  <2>1. mx.process = Head(inbox).process /\ Head(inbox).type = "DOWN"
    BY <1>5 DEF DOWNof, DOWNmsg
  <2>2. pc[mx.process] = "dead"
    BY <1>1, <1>3, <2>1 DEF DownInv
  <2>3. mx.process \in Clients /\ Has(mx.process, mx.resource) = 0
    BY <1>1, <1>2, <2>2, Released
  <2>4. QED
    BY <1>2, <1>5, <2>3, LeaveMutexKeeps
<1>6. QED
  BY <1>3, <1>4, <1>5

-----------------------------------------------------------------------------
(* The clients keep the invariant. *)

(* What is known of q when a call of p is sent *)
LEMMA OthersSend ==
  ASSUME TypeOK, NEW p \in Clients, NEW q \in Clients, q # p, Ordered(q), NEW m \in Calls,
         m.from.proc = p, inbox' = Append(inbox, m), mutexes' = mutexes, reply' = reply,
         pc'[q] = pc[q], res'[q] = res[q], tag'[q] = tag[q]
  PROVE  Ordered(q)'
<1>1. inbox \in Seq(Msgs) /\ m \in Msgs
  BY DEF TypeOK, Calls, Msgs
<1>2. /\ Len(inbox') = Len(inbox) + 1 /\ inbox'[Len(inbox) + 1] = m /\ Len(inbox) \in Nat
      /\ \A i \in 1..Len(inbox) : inbox'[i] = inbox[i]
  BY <1>1, AppendProperties
<1>3. \A i \in 1..Len(inbox') : CallOf(q, inbox'[i]) => i \in 1..Len(inbox) /\ inbox'[i] = inbox[i]
  BY <1>2 DEF CallOf
<1>4. Waiting(q)' = Waiting(q)
  BY DEF Waiting
<1>5. Sent(q, inbox)'
  BY <1>2, <1>3, <1>4 DEF Ordered, Sent, CallOf, IsCall
<1>6. Silent(q, inbox) => Silent(q, inbox)'
  BY <1>3 DEF Silent, CallOf, IsCall
<1>7. Queued(q, mutexes)'
  BY <1>4 DEF Ordered, Queued
<1>8. /\ QueuedNow(q, mutexes)' => QueuedNow(q, mutexes)
      /\ QueuedOnce(q, mutexes) => QueuedOnce(q, mutexes)'
  BY DEF QueuedNow, QueuedOnce, Current
<1>9. QED
  BY <1>4, <1>5, <1>6, <1>7, <1>8 DEF Ordered

(* The process that sends a call has no other under way. *)
LEMMA SenderSends ==
  ASSUME TypeOK, NEW p \in Clients, Ordered(p), Client(p), NEW op \in {"enter", "leave"},
         NEW r \in Resources, Call(op, p, r)
  PROVE  Ordered(p)'
<1> DEFINE m == CallMsg(op, p, r)
<1>1. /\ pc[p] = "run" /\ pc' = [pc EXCEPT ![p] = op] /\ res' = [res EXCEPT ![p] = r]
      /\ inbox' = Append(inbox, m) /\ UNCHANGED <<mutexes, tag, reply>>
  BY DEF Call
<1>2. pc'[p] = op /\ res'[p] = r /\ tag[p] \in 0..MaxTimeouts
  BY <1>1 DEF TypeOK
<1>3. m \in Calls /\ m.from.proc = p /\ m.from.tag = tag[p] /\ m.type = op /\ m.resource = r
  BY <1>2 DEF CallMsg, From, Calls, Froms
<1> HIDE DEF m
<1>4. inbox \in Seq(Msgs) /\ m \in Msgs
  BY <1>3 DEF TypeOK, Calls, Msgs
<1> DEFINE n == Len(inbox) + 1
<1>5. /\ Len(inbox') = n /\ inbox'[n] = m /\ Len(inbox) \in Nat
      /\ \A i \in 1..Len(inbox) : inbox'[i] = inbox[i]
  BY <1>1, <1>4, AppendProperties
<1>6. Sent(p, inbox)'
  <2>1. ASSUME NEW i \in 1..Len(inbox'), CallOf(p, inbox'[i])
        PROVE  /\ inbox'[i].from.tag <= tag[p]
               /\ inbox'[i].from.tag = tag[p] => i = n
    <3>1. CASE i = n
      BY <1>2, <1>3, <1>5, <3>1
    <3>2. CASE i # n
      <4>1. i \in 1..Len(inbox) /\ inbox'[i] = inbox[i]
        BY <1>5, <3>2
      <4>2. QED
        BY <1>1, <2>1, <4>1 DEF Ordered, Sent
    <3>3. QED
      BY <3>1, <3>2
  <2>2. \A j \in 1..Len(inbox') : j <= n
    BY <1>5
  <2>3. pc'[p] # "run" /\ tag'[p] = tag[p]
    BY <1>1, <1>2
  <2>4. QED
    BY <1>2, <1>3, <1>5, <2>1, <2>2, <2>3 DEF Sent, CallOf, IsCall
<1>7. ~QueuedNow(p, mutexes)'
  BY <1>1 DEF Ordered, Queued, QueuedNow, Current
<1>8. reply'[p] = None
  BY <1>1 DEF Client, Waiting
<1>9. Queued(p, mutexes)'
  BY <1>1, <1>2 DEF Ordered, Queued
<1>10. QueuedOnce(p, mutexes)'
  BY <1>7 DEF QueuedNow, QueuedOnce
<1>11. QED
  BY <1>6, <1>7, <1>8, <1>9, <1>10 DEF Ordered

(* A new call keeps the invariant. *)
LEMMA CallKeeps ==
  ASSUME Inv, NEW p \in Clients, NEW r \in Resources, enter(p, r) \/ leave(p, r)
  PROVE  Inv'
<1>1. PICK op \in {"enter", "leave"} :
        /\ Call(op, p, r)
        /\ op = "enter" => held[p][r] < MaxDepth /\ held' = held
        /\ op = "leave" => held' = [held EXCEPT ![p][r] = IF @ > 0 THEN @ - 1 ELSE 0]
  BY DEF enter, leave
<1> DEFINE m == CallMsg(op, p, r)
<1>2. /\ pc[p] = "run" /\ pc' = [pc EXCEPT ![p] = op] /\ res' = [res EXCEPT ![p] = r]
      /\ inbox' = Append(inbox, m) /\ UNCHANGED <<server, mutexes, tag, reply>> /\ server # "failed"
  BY <1>1 DEF Call
<1>3. TypeOK /\ UniqueInv /\ ClientInv /\ DownInv /\ HeldInv /\ mutexes \in Seq(MutexTuples)
  BY DEF Inv, TypeOK
<1>4. m \in Calls /\ m.from.proc = p /\ m.type = op /\ m.resource = r
  BY <1>3 DEF CallMsg, From, Calls, Froms, TypeOK
<1> HIDE DEF m
<1>5. inbox \in Seq(Msgs) /\ m \in Msgs
  BY <1>3, <1>4 DEF TypeOK, Calls, Msgs
<1>6. /\ inbox' \in Seq(Msgs) /\ Len(inbox') = Len(inbox) + 1 /\ inbox'[Len(inbox) + 1] = m
      /\ Len(inbox) \in Nat /\ \A i \in 1..Len(inbox) : inbox'[i] = inbox[i]
  BY <1>2, <1>5, AppendProperties
<1>7. held[p][r] \in Nat /\ held[p][r] \in 0..MaxDepth /\ held \in [Clients -> [Resources -> 0..MaxDepth]]
  BY <1>3, HasType DEF TypeOK
<1>8. /\ held' \in [Clients -> [Resources -> 0..MaxDepth]]
      /\ \A q \in Clients, s \in Resources : held'[q][s] <= held[q][s]
      /\ \A q \in Clients, s \in Resources : ~(q = p /\ s = r) => held'[q][s] = held[q][s]
      /\ op = "leave" /\ held'[p][r] > 0 => held'[p][r] = held[p][r] - 1
      /\ op = "enter" => held'[p][r] < MaxDepth
  <2>1. \A q \in Clients, s \in Resources : held[q][s] \in Nat
    BY <1>3, HasType
  <2>2. CASE op = "enter"
    BY <1>1, <1>7, <2>1, <2>2
  <2>3. CASE op = "leave"
    <3> DEFINE h == IF held[p][r] > 0 THEN held[p][r] - 1 ELSE 0
    <3>1. held' = [held EXCEPT ![p] = [held[p] EXCEPT ![r] = h]]
      BY <1>1, <2>3
    <3>2. h \in 0..MaxDepth /\ h <= held[p][r] /\ (h > 0 => h = held[p][r] - 1)
      BY <1>7, GatekeeperAssumption
    <3> HIDE DEF h
    <3>3. /\ held' \in [Clients -> [Resources -> 0..MaxDepth]] /\ held'[p][r] = h
          /\ \A q \in Clients, s \in Resources : ~(q = p /\ s = r) => held'[q][s] = held[q][s]
      BY <1>7, <3>1, <3>2
    <3>4. QED
      BY <2>1, <2>3, <3>2, <3>3
  <2>4. QED
    BY <2>2, <2>3
<1>9. TypeOK'
  BY <1>2, <1>3, <1>6, <1>8 DEF TypeOK
<1>10. UniqueInv'
  BY <1>2, <1>3 DEF UniqueInv
<1>11. DownInv'
  <2>1. Range(inbox') \subseteq Range(inbox) \cup {m}
    BY <1>5, <1>6 DEF Range
  <2>2. \A q : pc[q] = "dead" => pc'[q] = "dead"
    BY <1>2, <1>3 DEF TypeOK
  <2>3. QED
    BY <1>3, <1>4, <2>1, <2>2 DEF DownInv
<1>12. ClientInv'
  <2>1. SUFFICES ASSUME NEW q \in Clients
                 PROVE  Client(q)'
    BY DEF ClientInv
  <2>2. Client(q)
    BY <1>3 DEF ClientInv
  <2>3. CASE q = p
    <3>1. pc'[p] = op /\ res'[p] = r
      BY <1>2, <1>3 DEF TypeOK
    <3>2. QED
      BY <1>8, <2>3, <3>1 DEF Client, Waiting
  <2>4. CASE q # p
    <3>1. pc'[q] = pc[q] /\ res'[q] = res[q] /\ reply'[q] = reply[q]
      BY <1>2, <1>3, <2>4 DEF TypeOK
    <3>2. \A s \in Resources : held'[q][s] = held[q][s]
      BY <1>8, <2>4
    <3>3. QED
      BY <2>2, <3>1, <3>2 DEF Client, Waiting
  <2>5. QED
    BY <2>3, <2>4
<1>13. OrderInv'
  <2>1. \A q \in Clients : Ordered(q) /\ Client(q)
    BY <1>2, <1>3 DEF Inv, OrderInv, ClientInv
  <2>2. Ordered(p)'
    BY <1>1, <1>3, <2>1, SenderSends
  <2>3. ASSUME NEW q \in Clients, q # p
        PROVE  Ordered(q)'
    <3>1. pc'[q] = pc[q] /\ res'[q] = res[q] /\ tag'[q] = tag[q]
      BY <1>2, <1>3, <2>3 DEF TypeOK
    <3>2. QED
      BY <1>2, <1>3, <1>4, <2>1, <2>3, <3>1, OthersSend
  <2>4. QED
    BY <2>2, <2>3 DEF OrderInv
<1>14. HeldInv'
  <2>1. SUFFICES ASSUME NEW q \in Clients, NEW s \in Resources
                 PROVE  Covered(q, s)'
    BY DEF HeldInv
  <2>2. Covered(q, s)
    BY <1>3 DEF HeldInv
  <2>3. Granted(q, s)' = Granted(q, s)
    <3>1. CASE q = p
      <4>1. reply[p] = None /\ reply'[p] = None
        BY <1>2, <1>3 DEF ClientInv, Client, Waiting
      <4>2. QED
        BY <1>2, <3>1, <4>1, GatekeeperAssumption DEF Granted
    <3>2. CASE q # p
      BY <1>2, <1>3, <3>2 DEF Granted, TypeOK
    <3>3. QED
      BY <3>1, <3>2
  <2>4. /\ Leaves(q, s, inbox') <= Leaves(q, s, inbox) + 1
        /\ ~(op = "leave" /\ q = p /\ s = r) => Leaves(q, s, inbox') <= Leaves(q, s, inbox)
    BY <1>2, <1>4, <1>5, LeavesAppend
  <2>5. Leaves(q, s, inbox') \in Nat /\ Leaves(q, s, inbox) \in Nat
    BY <1>5, <1>6, LeavesType
  <2>6. Leaves(q, s, inbox)' = Leaves(q, s, inbox')
    BY DEF Leaves, LeaveIndices
  <2>7. /\ held[q][s] \in Nat /\ Granted(q, s) \in {0, 1} /\ held'[q][s] \in Nat
    <3>1. held'[q][s] \in 0..MaxDepth
      BY <1>8
    <3>2. QED
      BY <1>3, <3>1, HasType, GatekeeperAssumption
  <2>8. Has(q, s) = held[q][s] + Granted(q, s) /\ Has(q, s)' = held'[q][s] + Granted(q, s)
    BY <2>3 DEF Has
  <2>9. ASSUME Has(q, s)' > 0
        PROVE  \E mx \in Range(mutexes') : /\ mx.resource = s /\ mx.process = q
                 /\ mx.count >= Has(q, s)' + Leaves(q, s, inbox')
    <3>1. /\ Has(q, s) > 0
          /\ Has(q, s)' + Leaves(q, s, inbox') <= Has(q, s) + Leaves(q, s, inbox)
      <4>1. CASE op = "leave" /\ q = p /\ s = r
        <5>1. Granted(p, r) = 0
          BY <1>2 DEF Granted
        <5>2. held'[p][r] > 0 /\ held'[p][r] = held[p][r] - 1
          BY <1>8, <2>7, <2>8, <2>9, <4>1, <5>1
        <5>3. QED
          BY <2>4, <2>5, <2>7, <2>8, <4>1, <5>1, <5>2
      <4>2. CASE ~(op = "leave" /\ q = p /\ s = r)
        <5>1. held'[q][s] <= held[q][s]
          BY <1>8
        <5>2. QED
          BY <2>4, <2>5, <2>7, <2>8, <2>9, <4>2, <5>1
      <4>3. QED
        BY <4>1, <4>2
    <3>2. PICK mx \in Range(mutexes) : /\ mx.resource = s /\ mx.process = q
                                       /\ mx.count >= Has(q, s) + Leaves(q, s, inbox)
      BY <2>2, <3>1 DEF Covered
    <3>3. mx.count \in Nat
      BY <1>3, CountsType
    <3>4. mx.count >= Has(q, s)' + Leaves(q, s, inbox')
      BY <2>5, <2>7, <2>8, <3>1, <3>2, <3>3
    <3>5. QED
      BY <1>2, <3>2, <3>4
  <2>10. QED
    BY <2>6, <2>9 DEF Covered
<1>15. QED
  BY <1>9, <1>10, <1>11, <1>12, <1>13, <1>14 DEF Inv

(* What a client does without the server leaves the others as they are. *)
LEMMA OthersStay ==
  ASSUME NEW q \in Clients, Ordered(q), UNCHANGED <<mutexes, inbox>>,
         pc'[q] = pc[q], res'[q] = res[q], tag'[q] = tag[q], reply'[q] = reply[q]
  PROVE  Ordered(q)'
<1>1. Waiting(q)' = Waiting(q)
  BY DEF Waiting
<1>2. Sent(q, inbox)' /\ Queued(q, mutexes)'
  BY <1>1 DEF Ordered, Sent, Queued, CallOf, IsCall
<1>3. /\ QueuedNow(q, mutexes)' <=> QueuedNow(q, mutexes)
      /\ QueuedOnce(q, mutexes)' <=> QueuedOnce(q, mutexes)
      /\ Silent(q, inbox)' <=> Silent(q, inbox)
  BY DEF QueuedNow, QueuedOnce, Current, Silent, CallOf, IsCall
<1>4. QED
  BY <1>1, <1>2, <1>3 DEF Ordered

(* A client that is in no call, and whose tag is ahead of what it has sent *)
LEMMA NowIdle ==
  ASSUME TypeOK, NEW p \in Clients, pc'[p] = "run",
         UNCHANGED <<mutexes, inbox>>, tag'[p] \in Nat,
         \A i \in 1..Len(inbox) : CallOf(p, inbox[i]) => inbox[i].from.tag < tag'[p],
         \A mx \in Range(mutexes) : \A j \in 1..Len(mx.waiters) :
           mx.waiters[j].proc = p => mx.waiters[j].tag < tag'[p]
  PROVE  Ordered(p)'
<1>1. Waiting(p)' = FALSE
  BY DEF Waiting
<1>2. \A i \in 1..Len(inbox) : CallOf(p, inbox[i]) => inbox[i].from.tag \in Nat
  <2>1. SUFFICES ASSUME NEW i \in 1..Len(inbox), CallOf(p, inbox[i])
                 PROVE  inbox[i].from.tag \in Nat
    OBVIOUS
  <2>2. inbox[i] \in Msgs
    BY DEF TypeOK
  <2>3. inbox[i] \in Calls
    BY <2>1, <2>2 DEF Msgs, Calls, CallOf, IsCall
  <2>4. inbox[i].from \in Froms
    BY <2>3 DEF Calls
  <2>5. QED
    BY <2>4, GatekeeperAssumption DEF Froms
<1>3. \A mx \in Range(mutexes) : \A j \in 1..Len(mx.waiters) : mx.waiters[j].tag \in Nat
  <2>1. SUFFICES ASSUME NEW mx \in Range(mutexes), NEW j \in 1..Len(mx.waiters)
                 PROVE  mx.waiters[j].tag \in Nat
    OBVIOUS
  <2>2. mx.waiters \in Seq(Froms)
    BY CountsType DEF TypeOK
  <2>3. mx.waiters[j] \in Froms
    BY <2>2
  <2>4. QED
    BY <2>3, GatekeeperAssumption DEF Froms
<1>4. Sent(p, inbox)'
  BY <1>1, <1>2 DEF Sent, CallOf, IsCall
<1>5. Queued(p, mutexes)'
  BY <1>1, <1>3 DEF Queued
<1>6. QED
  BY <1>1, <1>4, <1>5 DEF Ordered

(* A client that takes its answer keeps the invariant: what was granted *)
(* is now held.                                                         *)
LEMMA ReturnKeeps ==
  ASSUME Inv, NEW p \in Clients, Return(p)
  PROVE  Inv'
<1>1. TypeOK /\ UniqueInv /\ ClientInv /\ DownInv /\ HeldInv
  BY DEF Inv
<1>2. /\ Waiting(p) /\ (reply[p] # None \/ server = "failed")
      /\ held' = IF pc[p] = "enter" /\ reply[p] = "ok"
                 THEN [held EXCEPT ![p][res[p]] = @ + 1] ELSE held
      /\ pc' = [pc EXCEPT ![p] = "run"] /\ res' = [res EXCEPT ![p] = None]
      /\ reply' = [reply EXCEPT ![p] = None] /\ UNCHANGED <<server, mutexes, inbox, tag>>
  BY DEF Return
<1>3. /\ pc'[p] = "run" /\ res'[p] = None /\ reply'[p] = None
      /\ \A q \in Clients : q # p => pc'[q] = pc[q] /\ res'[q] = res[q] /\ reply'[q] = reply[q]
  BY <1>1, <1>2 DEF TypeOK
<1>4. res[p] \in Resources /\ (pc[p] = "enter" => held[p][res[p]] < MaxDepth)
  BY <1>1, <1>2 DEF ClientInv, Client
<1>5. held \in [Clients -> [Resources -> 0..MaxDepth]]
  BY <1>1 DEF TypeOK
<1>6. /\ held' \in [Clients -> [Resources -> 0..MaxDepth]]
      /\ \A q \in Clients, s \in Resources : held'[q][s] =
           IF q = p /\ pc[p] = "enter" /\ reply[p] = "ok" /\ s = res[p] THEN held[q][s] + 1 ELSE held[q][s]
  <2>1. CASE ~(pc[p] = "enter" /\ reply[p] = "ok")
    BY <1>2, <1>5, <2>1
  <2>2. CASE pc[p] = "enter" /\ reply[p] = "ok"
    <3> DEFINE h == held[p][res[p]] + 1
    <3>1. held' = [held EXCEPT ![p] = [held[p] EXCEPT ![res[p]] = h]]
      BY <1>2, <2>2
    <3>2. h \in 0..MaxDepth
      <4>1. held[p][res[p]] \in 0..MaxDepth
        BY <1>4, <1>5
      <4>2. QED
        BY <1>4, <2>2, <4>1, GatekeeperAssumption
    <3>3. /\ held' \in [Clients -> [Resources -> 0..MaxDepth]] /\ held'[p][res[p]] = h
          /\ \A q \in Clients, s \in Resources : ~(q = p /\ s = res[p]) => held'[q][s] = held[q][s]
      <4> HIDE DEF h
      <4>1. QED
        BY <1>4, <1>5, <3>1, <3>2
    <3>4. QED
      BY <2>2, <3>3
  <2>3. QED
    BY <2>1, <2>2
<1>7. TypeOK'
  BY <1>1, <1>2, <1>6 DEF TypeOK
<1>8. UniqueInv'
  BY <1>1, <1>2 DEF UniqueInv
<1>9. DownInv'
  <2>1. \A q : pc[q] = "dead" => pc'[q] = "dead"
    BY <1>1, <1>2 DEF TypeOK, Waiting
  <2>2. QED
    BY <1>1, <1>2, <2>1 DEF DownInv
<1>10. ClientInv'
  <2>1. SUFFICES ASSUME NEW q \in Clients
                 PROVE  Client(q)'
    BY DEF ClientInv
  <2>2. Client(q)
    BY <1>1 DEF ClientInv
  <2>3. CASE q = p
    BY <1>3, <2>3 DEF Client, Waiting
  <2>4. CASE q # p
    <3>1. \A s \in Resources : held'[q][s] = held[q][s]
      BY <1>6, <2>4
    <3>2. QED
      BY <1>3, <2>2, <2>4, <3>1 DEF Client, Waiting
  <2>5. QED
    BY <2>3, <2>4
<1>11. OrderInv'
  <2>1. SUFFICES ASSUME server # "failed", NEW q \in Clients
                 PROVE  Ordered(q)'
    BY <1>2 DEF OrderInv
  <2>2. Ordered(q)
    BY <2>1 DEF Inv, OrderInv
  <2>3. CASE q # p
    BY <1>2, <1>3, <2>2, <2>3, OthersStay
  <2>4. CASE q = p
    <3>1. Silent(p, inbox)
      BY <1>2, <2>1, <2>2, <2>4 DEF Ordered
    <3>2. tag'[p] = tag[p] /\ tag[p] \in Nat
      BY <1>1, <1>2, GatekeeperAssumption DEF TypeOK
    <3>3. \A mx \in Range(mutexes) : \A j \in 1..Len(mx.waiters) :
            mx.waiters[j].proc = p => mx.waiters[j].tag < tag'[p]
      <4>1. SUFFICES ASSUME NEW mx \in Range(mutexes), NEW j \in 1..Len(mx.waiters),
                            mx.waiters[j].proc = p
                     PROVE  mx.waiters[j].tag < tag[p]
        BY <3>2
      <4>2. mx.waiters[j].tag <= tag[p] /\ mx.waiters[j].tag # tag[p]
        BY <1>2, <2>1, <2>2, <2>4, <4>1 DEF Ordered, Queued
      <4>3. mx.waiters[j].tag \in Nat
        <5>1. mx.waiters \in Seq(Froms)
          BY <1>1, CountsType DEF TypeOK
        <5>2. mx.waiters[j] \in Froms
          BY <5>1
        <5>3. QED
          BY <5>2, GatekeeperAssumption DEF Froms
      <4>4. QED
        BY <3>2, <4>2, <4>3
    <3>4. \A i \in 1..Len(inbox) : CallOf(p, inbox[i]) => inbox[i].from.tag < tag'[p]
      BY <3>1 DEF Silent
    <3>5. QED
      BY <1>1, <1>2, <1>3, <2>4, <3>2, <3>3, <3>4, NowIdle
  <2>5. QED
    BY <2>3, <2>4
<1>12. HeldInv'
  <2>1. SUFFICES ASSUME NEW q \in Clients, NEW s \in Resources
                 PROVE  Covered(q, s)'
    BY DEF HeldInv
  <2>2. Covered(q, s) /\ held[q][s] \in Nat
    BY <1>1, HasType DEF HeldInv
  <2>3. Has(q, s)' = Has(q, s)
    <3>1. CASE q = p
      <4>1. Granted(q, s)' = 0
        BY <1>3, <3>1 DEF Granted
      <4>2. held'[q][s] = held[q][s] + Granted(q, s)
        BY <1>6, <2>2, <3>1 DEF Granted
      <4>3. QED
        BY <2>2, <4>1, <4>2, <1>1, HasType DEF Has
    <3>2. CASE q # p
      BY <1>3, <1>6, <3>2 DEF Has, Granted
    <3>3. QED
      BY <3>1, <3>2
  <2>4. Leaves(q, s, inbox)' = Leaves(q, s, inbox)
    BY <1>2 DEF Leaves, LeaveIndices
  <2>5. QED
    BY <1>2, <2>2, <2>3, <2>4 DEF Covered
<1>13. QED
  BY <1>7, <1>8, <1>9, <1>10, <1>11, <1>12 DEF Inv

(* A client that gives up its call keeps the invariant. *)
LEMMA TimeoutKeeps ==
  ASSUME Inv, NEW p \in Clients, Timeout(p)
  PROVE  Inv'
<1>1. TypeOK /\ UniqueInv /\ ClientInv /\ DownInv /\ HeldInv
  BY DEF Inv
<1>2. /\ Waiting(p) /\ reply[p] = None /\ tag[p] < MaxTimeouts
      /\ tag' = [tag EXCEPT ![p] = @ + 1]
      /\ pc' = [pc EXCEPT ![p] = "run"] /\ res' = [res EXCEPT ![p] = None]
      /\ UNCHANGED <<server, mutexes, inbox, reply, held>>
  BY DEF Timeout
<1>3. /\ pc'[p] = "run" /\ res'[p] = None /\ tag'[p] = tag[p] + 1 /\ tag[p] \in Nat
      /\ \A q \in Clients : q # p => pc'[q] = pc[q] /\ res'[q] = res[q] /\ tag'[q] = tag[q]
  BY <1>1, <1>2, GatekeeperAssumption DEF TypeOK
<1>4. TypeOK'
  <2>1. tag[p] + 1 \in 0..MaxTimeouts
    BY <1>2, <1>3, GatekeeperAssumption
  <2>2. QED
    BY <1>1, <1>2, <2>1 DEF TypeOK
<1>5. UniqueInv'
  BY <1>1, <1>2 DEF UniqueInv
<1>6. DownInv'
  <2>1. \A q : pc[q] = "dead" => pc'[q] = "dead"
    BY <1>1, <1>2 DEF TypeOK, Waiting
  <2>2. QED
    BY <1>1, <1>2, <2>1 DEF DownInv
<1>7. ClientInv'
  <2>1. SUFFICES ASSUME NEW q \in Clients
                 PROVE  Client(q)'
    BY DEF ClientInv
  <2>2. Client(q)
    BY <1>1 DEF ClientInv
  <2>3. CASE q = p
    BY <1>2, <1>3, <2>3 DEF Client, Waiting
  <2>4. CASE q # p
    BY <1>2, <1>3, <2>2, <2>4 DEF Client, Waiting
  <2>5. QED
    BY <2>3, <2>4
<1>8. OrderInv'
  <2>1. SUFFICES ASSUME server # "failed", NEW q \in Clients
                 PROVE  Ordered(q)'
    BY <1>2 DEF OrderInv
  <2>2. Ordered(q)
    BY <2>1 DEF Inv, OrderInv
  <2>3. CASE q # p
    BY <1>2, <1>3, <2>2, <2>3, OthersStay
  <2>4. CASE q = p
    <3>1. ASSUME NEW mx \in Range(mutexes), NEW j \in 1..Len(mx.waiters), mx.waiters[j].proc = p
          PROVE  mx.waiters[j].tag < tag'[p]
      <4>1. mx.waiters[j].tag <= tag[p]
        BY <2>2, <2>4, <3>1 DEF Ordered, Queued
      <4>2. mx.waiters \in Seq(Froms)
        BY <1>1, CountsType DEF TypeOK
      <4>3. mx.waiters[j] \in Froms
        BY <4>2
      <4>4. mx.waiters[j].tag \in Nat
        BY <4>3, GatekeeperAssumption DEF Froms
      <4>5. QED
        BY <1>3, <4>1, <4>4
    <3>2. ASSUME NEW i \in 1..Len(inbox), CallOf(p, inbox[i])
          PROVE  inbox[i].from.tag < tag'[p]
      <4>1. inbox[i].from.tag <= tag[p]
        BY <2>2, <2>4, <3>2 DEF Ordered, Sent
      <4>2. inbox[i] \in Msgs
        BY <1>1 DEF TypeOK
      <4>3. inbox[i] \in Calls
        BY <3>2, <4>2 DEF Msgs, Calls, CallOf, IsCall
      <4>4. inbox[i].from \in Froms
        BY <4>3 DEF Calls
      <4>5. inbox[i].from.tag \in Nat
        BY <4>4, GatekeeperAssumption DEF Froms
      <4>6. QED
        BY <1>3, <4>1, <4>5
    <3>3. tag'[p] \in Nat
      BY <1>3
    <3>4. QED
      BY <1>1, <1>2, <1>3, <2>4, <3>1, <3>2, <3>3, NowIdle
  <2>5. QED
    BY <2>3, <2>4
<1>9. HeldInv'
  <2>1. SUFFICES ASSUME NEW q \in Clients, NEW s \in Resources
                 PROVE  Covered(q, s)'
    BY DEF HeldInv
  <2>2. Covered(q, s)
    BY <1>1 DEF HeldInv
  <2>3. Has(q, s)' = Has(q, s)
    <3>1. CASE q = p
      BY <1>2, <3>1, GatekeeperAssumption DEF Has, Granted
    <3>2. CASE q # p
      BY <1>2, <1>3, <3>2 DEF Has, Granted
    <3>3. QED
      BY <3>1, <3>2
  <2>4. Leaves(q, s, inbox)' = Leaves(q, s, inbox)
    BY <1>2 DEF Leaves, LeaveIndices
  <2>5. QED
    BY <1>2, <2>2, <2>3, <2>4 DEF Covered
<1>10. QED
  BY <1>4, <1>5, <1>6, <1>7, <1>8, <1>9 DEF Inv

(* The end of a client keeps the invariant. *)
LEMMA DieKeeps ==
  ASSUME Inv, NEW p \in Clients, Die(p)
  PROVE  Inv'
<1>1. TypeOK /\ UniqueInv /\ ClientInv /\ DownInv /\ HeldInv /\ mutexes \in Seq(MutexTuples)
  BY DEF Inv, TypeOK
<1>2. /\ pc' = [pc EXCEPT ![p] = "dead"] /\ res' = [res EXCEPT ![p] = None]
      /\ reply' = [reply EXCEPT ![p] = None]
      /\ held' = [held EXCEPT ![p] = [r \in Resources |-> 0]]
      /\ UNCHANGED <<server, mutexes, tag>>
  BY DEF Die
<1>3. /\ pc'[p] = "dead" /\ reply'[p] = None /\ \A r \in Resources : held'[p][r] = 0
      /\ \A q \in Clients : q # p => /\ pc'[q] = pc[q] /\ res'[q] = res[q]
                                     /\ reply'[q] = reply[q] /\ held'[q] = held[q]
  BY <1>1, <1>2 DEF TypeOK
<1>4. /\ inbox \in Seq(Msgs) /\ inbox' \in Seq(Msgs) /\ Thins(inbox, inbox')
      /\ \A m \in Range(inbox') : m \in Range(inbox) \/ (m.type = "DOWN" /\ m.process = p)
  BY <1>1, DieEffect DEF TypeOK
<1>5. TypeOK'
  BY <1>1, <1>2, <1>4, GatekeeperAssumption DEF TypeOK
<1>6. UniqueInv'
  BY <1>1, <1>2 DEF UniqueInv
<1>7. DownInv'
  <2>1. \A q : pc[q] = "dead" => pc'[q] = "dead"
    BY <1>1, <1>2 DEF TypeOK
  <2>2. QED
    BY <1>1, <1>3, <1>4, <2>1 DEF DownInv
<1>8. ClientInv'
  <2>1. SUFFICES ASSUME NEW q \in Clients
                 PROVE  Client(q)'
    BY DEF ClientInv
  <2>2. Client(q)
    BY <1>1 DEF ClientInv
  <2>3. CASE q = p
    BY <1>3, <2>3 DEF Client, Waiting
  <2>4. CASE q # p
    BY <1>3, <2>2, <2>4 DEF Client, Waiting
  <2>5. QED
    BY <2>3, <2>4
<1>9. OrderInv'
  <2>1. SUFFICES ASSUME server # "failed", NEW q \in Clients
                 PROVE  Ordered(q)'
    BY <1>2 DEF OrderInv
  <2>2. Ordered(q)
    BY <2>1 DEF Inv, OrderInv
  <2>3. Sent(q, inbox') /\ (Silent(q, inbox) => Silent(q, inbox'))
    BY <1>4, <2>2, ThinsSent, ThinsSilent DEF Ordered
  <2>4. CASE q # p
    <3>1. Waiting(q)' = Waiting(q) /\ tag'[q] = tag[q] /\ pc'[q] = pc[q] /\ res'[q] = res[q]
          /\ reply'[q] = reply[q]
      BY <1>2, <1>3, <2>4 DEF Waiting
    <3>2. Sent(q, inbox)'
      BY <2>3, <3>1 DEF Sent, CallOf, IsCall
    <3>3. Queued(q, mutexes)'
      BY <1>2, <2>2, <3>1 DEF Ordered, Queued
    <3>4. /\ QueuedNow(q, mutexes)' <=> QueuedNow(q, mutexes)
          /\ QueuedOnce(q, mutexes)' <=> QueuedOnce(q, mutexes)
          /\ Silent(q, inbox)' <=> Silent(q, inbox')
      BY <1>2 DEF QueuedNow, QueuedOnce, Current, Silent, CallOf, IsCall
    <3>5. QED
      BY <2>2, <2>3, <3>1, <3>2, <3>3, <3>4 DEF Ordered
  <2>5. CASE q = p
    <3>1. Waiting(p)' = FALSE /\ pc'[p] # "run" /\ tag'[p] = tag[p]
      BY <1>2, <1>3 DEF Waiting
    <3>2. Sent(p, inbox)'
      BY <2>3, <2>5, <3>1 DEF Sent, CallOf, IsCall
    <3>3. Queued(p, mutexes)'
      BY <1>2, <2>2, <2>5, <3>1 DEF Ordered, Queued
    <3>4. QED
      BY <2>5, <3>1, <3>2, <3>3 DEF Ordered
  <2>6. QED
    BY <2>4, <2>5
<1>10. HeldInv'
  <2>1. SUFFICES ASSUME NEW q \in Clients, NEW s \in Resources
                 PROVE  Covered(q, s)'
    BY DEF HeldInv
  <2>2. CASE q = p
    <3>1. Has(p, s)' = 0
      BY <1>3 DEF Has, Granted
    <3>2. QED
      BY <2>2, <3>1 DEF Covered
  <2>3. CASE q # p
    <3>1. Has(q, s)' = Has(q, s) /\ Has(q, s) \in Nat
      BY <1>1, <1>3, <2>3, HasType DEF Has, Granted
    <3>2. Leaves(q, s, inbox') <= Leaves(q, s, inbox)
      BY <1>4, LeavesThin
    <3>3. Leaves(q, s, inbox') \in Nat /\ Leaves(q, s, inbox) \in Nat
      BY <1>4, LeavesType
    <3>4. Leaves(q, s, inbox)' = Leaves(q, s, inbox')
      BY DEF Leaves, LeaveIndices
    <3>5. ASSUME NEW mx \in Range(mutexes), mx.count >= Has(q, s) + Leaves(q, s, inbox)
          PROVE  mx.count >= Has(q, s) + Leaves(q, s, inbox')
      <4>1. mx.count \in Nat
        BY <1>1, CountsType
      <4>2. QED
        BY <3>1, <3>2, <3>3, <3>5, <4>1
    <3>6. Covered(q, s)
      BY <1>1 DEF HeldInv
    <3>7. QED
      BY <1>2, <3>1, <3>4, <3>5, <3>6 DEF Covered
  <2>4. QED
    BY <2>2, <2>3
<1>11. QED
  BY <1>5, <1>6, <1>7, <1>8, <1>9, <1>10 DEF Inv

-----------------------------------------------------------------------------
(* Nothing is held and nothing is asked for at first. *)
LEMMA InitInv == Init => Inv
<1> SUFFICES ASSUME Init
             PROVE  Inv
  OBVIOUS
<1>1. /\ mutexes = <<>> /\ inbox = <<>> /\ \A p \in Clients : pc[p] = "run" /\ reply[p] = None
      /\ \A p \in Clients, r \in Resources : held[p][r] = 0
  BY DEF Init
<1>2. TypeOK
  BY GatekeeperAssumption DEF Init, TypeOK
<1> DEFINE none == <<>>
<1>3. Len(none) = 0 /\ Range(none) = {}
  BY DEF Range
<1> HIDE DEF none
<1>4. mutexes = none /\ inbox = none
  BY <1>1 DEF none
<1>5. UniqueInv /\ DownInv
  BY <1>3, <1>4 DEF UniqueInv, Uniq, DownInv
<1>6. ClientInv
  BY <1>1 DEF ClientInv, Client, Waiting
<1>7. OrderInv
  BY <1>1, <1>3, <1>4 DEF OrderInv, Ordered, Sent, Queued, Waiting
<1>8. HeldInv
  <2>1. ASSUME NEW p \in Clients, NEW r \in Resources
        PROVE  Has(p, r) = 0
    BY <1>1, <2>1 DEF Has, Granted
  <2>2. QED
    BY <2>1 DEF HeldInv, Covered
<1>9. QED
  BY <1>2, <1>5, <1>6, <1>7, <1>8 DEF Inv

(* A step that changes nothing keeps the invariant. *)
LEMMA StutterInv ==
  ASSUME Inv, UNCHANGED gvars
  PROVE  Inv'
<1>1. UNCHANGED <<server, mutexes, inbox, pc, res, tag, reply, held>>
  BY DEF gvars
<1>2. TypeOK' /\ UniqueInv' /\ DownInv' /\ ClientInv'
  BY <1>1 DEF Inv, TypeOK, UniqueInv, DownInv, ClientInv, Client, Waiting
<1>3. OrderInv'
  BY <1>1, OthersStay DEF Inv, OrderInv
<1>4. HeldInv'
  BY <1>1, SMTT(30) DEF Inv, HeldInv, Covered, Has, Granted, Leaves, LeaveIndices
<1>5. QED
  BY <1>2, <1>3, <1>4 DEF Inv

(* Every step keeps the invariant. *)
LEMMA NextInv == Inv /\ [Next]_gvars => Inv'
<1> SUFFICES ASSUME Inv, [Next]_gvars
             PROVE  Inv'
  OBVIOUS
<1>1. CASE Serve
  BY <1>1, EnterFreeKeeps, EnterTakenKeeps, LeaveKeeps, DownKeeps DEF Serve
<1>2. ASSUME NEW p \in Clients, NEW r \in Resources, enter(p, r) \/ leave(p, r)
      PROVE  Inv'
  BY <1>2, CallKeeps
<1>3. ASSUME NEW p \in Clients, Return(p) \/ Timeout(p) \/ Die(p)
      PROVE  Inv'
  BY <1>3, ReturnKeeps, TimeoutKeeps, DieKeeps
<1>4. CASE UNCHANGED gvars
  BY <1>4, StutterInv
<1>5. QED
  BY <1>1, <1>2, <1>3, <1>4 DEF Next

(* A count that covers what a client has is a mutex of its own. *)
LEMMA InvExcludes == Inv => MutualExclusion
<1> SUFFICES ASSUME Inv
             PROVE  MutualExclusion
  OBVIOUS
<1>1. TypeOK /\ UniqueInv /\ HeldInv /\ mutexes \in Seq(MutexTuples) /\ inbox \in Seq(Msgs)
  BY DEF Inv, TypeOK
<1>2. ASSUME NEW p \in Clients, NEW r \in Resources, held[p][r] > 0
      PROVE  \E mx \in Range(mutexes) : /\ mx.resource = r /\ mx.process = p
                                         /\ mx.count >= held[p][r]
  <2>1. /\ held[p][r] \in Nat /\ Granted(p, r) \in {0, 1} /\ Leaves(p, r, inbox) \in Nat
    BY <1>1, HasType, LeavesType
  <2>2. Has(p, r) = held[p][r] + Granted(p, r)
    BY DEF Has
  <2>3. Has(p, r) > 0
    BY <1>2, <2>1, <2>2
  <2>4. PICK mx \in Range(mutexes) : /\ mx.resource = r /\ mx.process = p
                                     /\ mx.count >= Has(p, r) + Leaves(p, r, inbox)
    BY <1>1, <2>3 DEF HeldInv, Covered
  <2>5. mx.count \in Nat
    BY <1>1, CountsType
  <2>6. QED
    BY <2>1, <2>2, <2>4, <2>5
<1>3. ASSUME NEW r \in Resources, NEW p \in Clients, NEW q \in Clients,
             held[p][r] > 0, held[q][r] > 0
      PROVE  p = q
  BY <1>1, <1>2, <1>3, OneMutex DEF UniqueInv
<1>4. ASSUME NEW p \in Clients, NEW r \in Resources, held[p][r] > 0
      PROVE  \E i \in 1..Len(mutexes) : /\ mutexes[i].resource = r
                                        /\ mutexes[i].process = p
                                        /\ mutexes[i].count >= held[p][r]
  BY <1>1, <1>2, <1>4 DEF Range
<1>5. QED
  BY <1>1, <1>3, <1>4 DEF MutualExclusion

(* No two processes are ever inside the mutex of one resource, whichever     *)
(* calls time out, whoever dies and in whatever order the server handles its *)
(* inbox, for any clients, resources and bounds; and a process inside a      *)
(* mutex is the owner the gatekeeper has on record.                          *)
THEOREM AlwaysExclusive == Spec => []MutualExclusion
<1>1. Init => Inv
  BY InitInv
<1>2. Inv /\ [Next]_gvars => Inv'
  BY NextInv
<1>3. Inv => MutualExclusion
  BY InvExcludes
<1>4. QED
  BY <1>1, <1>2, <1>3, PTL DEF Spec

-----------------------------------------------------------------------------
(* Without timeouts *)

(* A process waits in the queue of mx. *)
WaitsIn(p, mx) == \E j \in 1..Len(mx.waiters) : mx.waiters[j].proc = p
OnePlace(p, mx) ==
  \A j, k \in 1..Len(mx.waiters) :
    mx.waiters[j].proc = p /\ mx.waiters[k].proc = p => j = k
OneCall(p, box) ==
  \A i, j \in 1..Len(box) : CallOf(p, box[i]) /\ CallOf(p, box[j]) => i = j

(* Dead or alive, a process has one request at most: in the inbox, or at one *)
(* place in one queue.                                                       *)
Asks(p, ms, box) ==
  /\ OneCall(p, box)
  /\ \A mx \in Range(ms) : WaitsIn(p, mx) => Silent(p, box) /\ OnePlace(p, mx)
  /\ \A mx, nx \in Range(ms) : WaitsIn(p, mx) /\ WaitsIn(p, nx) => mx = nx
RequestInv == \A p \in Clients : Asks(p, mutexes, inbox)

(* In every set of processes one does not wait for any of the set. *)
Acyclic(ms) ==
  \A S \in SUBSET Clients : S # {} =>
    \E p \in S : \A mx \in Range(ms) : WaitsIn(p, mx) => mx.process \notin S

(* The DOWNs in the inbox and the mutexes of dead owners match, one to one. *)
Once(box) ==
  \A i, j \in 1..Len(box) : ~IsCall(box[i]) /\ box[i] = box[j] => i = j
Known(ms, box) ==
  \A m \in Range(box) : ~IsCall(m) => \E mx \in Range(ms) : DOWNof(mx) = m
Told(ms, box) ==
  \A mx \in Range(ms) : pc[mx.process] = "dead" => DOWNof(mx) \in Range(box)
TellInv == Once(inbox) /\ Known(mutexes, inbox) /\ Told(mutexes, inbox)

(* The count of a mutex is what its owner holds, and one more while the      *)
(* owner does not know yet that it is in, or the server that it is out.      *)
Pending(p, r) ==
  IF /\ res[p] = r
     /\ \/ pc[p] = "enter" /\ reply[p] = "ok"
        \/ pc[p] = "leave" /\ reply[p] = None
  THEN 1 ELSE 0
Counted(mx) ==
  pc[mx.process] # "dead" =>
    mx.count = held[mx.process][mx.resource] + Pending(mx.process, mx.resource)
CountInv == \A mx \in Range(mutexes) : Counted(mx)

PatientInv ==
  /\ Inv
  /\ server = "up"
  /\ RequestInv
  /\ Acyclic(mutexes)
  /\ TellInv
  /\ CountInv

-----------------------------------------------------------------------------
(* One request for each process *)

(* Nobody gives up: every tag is 0. *)
LEMMA ZeroTags ==
  ASSUME TypeOK, MaxTimeouts = 0
  PROVE  /\ \A p \in Clients : tag[p] = 0
         /\ \A f \in Froms : f.tag = 0
BY DEF TypeOK, Froms

(* Thinning adds no call. *)
LEMMA ThinsOneCall ==
  ASSUME NEW s \in Seq(Msgs), NEW t \in Seq(Msgs), Thins(s, t), NEW p, OneCall(p, s)
  PROVE  OneCall(p, t)
<1>1. PICK f \in [1..Len(t) -> Nat] :
        \A i \in 1..Len(t) : IsCall(t[i]) =>
          /\ f[i] \in 1..Len(s) /\ s[f[i]] = t[i]
          /\ \A j \in 1..Len(t) : IsCall(t[j]) /\ i < j => f[i] < f[j]
  BY DEF Thins
<1>2. ASSUME NEW i \in 1..Len(t), NEW j \in 1..Len(t), CallOf(p, t[i]), CallOf(p, t[j]), i < j
      PROVE  FALSE
  <2>1. IsCall(t[i]) /\ IsCall(t[j])
    BY <1>2 DEF CallOf
  <2>2. /\ f[i] \in 1..Len(s) /\ s[f[i]] = t[i] /\ f[j] \in 1..Len(s) /\ s[f[j]] = t[j]
        /\ f[i] < f[j]
    BY <1>1, <1>2, <2>1
  <2>3. f[i] = f[j]
    BY <1>2, <2>2 DEF OneCall
  <2>4. QED
    BY <2>2, <2>3
<1>3. ASSUME NEW i \in 1..Len(t), NEW j \in 1..Len(t), CallOf(p, t[i]), CallOf(p, t[j])
      PROVE  i = j
  <2>1. i < j \/ j < i \/ i = j
    OBVIOUS
  <2>2. QED
    BY <1>2, <1>3, <2>1
<1>4. QED
  BY <1>3 DEF OneCall

(* If p waits for nx, it did before for the mutex of the same resource, and  *)
(* takes no more places.                                                     *)
Inherits(p, nx, ms) ==
  WaitsIn(p, nx) =>
    \E mx \in Range(ms) : /\ mx.resource = nx.resource /\ WaitsIn(p, mx)
                          /\ OnePlace(p, mx) => OnePlace(p, nx)

(* No request is added when calls are taken and queues get shorter. *)
LEMMA AsksKeep ==
  ASSUME NEW p, NEW ms, NEW ns \in Seq(MutexTuples), NEW s \in Seq(Msgs), NEW t \in Seq(Msgs),
         Asks(p, ms, s), Thins(s, t), Uniq(ns),
         \A nx \in Range(ns) : Inherits(p, nx, ms)
  PROVE  Asks(p, ns, t)
<1>1. OneCall(p, t)
  BY ThinsOneCall DEF Asks
<1>2. ASSUME NEW nx \in Range(ns), WaitsIn(p, nx)
      PROVE  Silent(p, t) /\ OnePlace(p, nx)
  <2>1. PICK mx \in Range(ms) : WaitsIn(p, mx) /\ (OnePlace(p, mx) => OnePlace(p, nx))
    BY <1>2 DEF Inherits
  <2>2. Silent(p, s) /\ OnePlace(p, mx)
    BY <2>1 DEF Asks
  <2>3. QED
    BY <2>1, <2>2, ThinsSilent
<1>3. ASSUME NEW nx \in Range(ns), NEW ny \in Range(ns), WaitsIn(p, nx), WaitsIn(p, ny)
      PROVE  nx = ny
  <2>1. PICK mx \in Range(ms) : mx.resource = nx.resource /\ WaitsIn(p, mx)
    BY <1>3 DEF Inherits
  <2>2. PICK my \in Range(ms) : my.resource = ny.resource /\ WaitsIn(p, my)
    BY <1>3 DEF Inherits
  <2>3. mx = my
    BY <2>1, <2>2 DEF Asks
  <2>4. QED
    BY <2>1, <2>2, <2>3, OneMutex
<1>4. QED
  BY <1>1, <1>2, <1>3 DEF Asks

(* A queue that stays as it is *)
LEMMA SameInherits ==
  ASSUME NEW p, NEW ms, NEW nx, NEW mx \in Range(ms),
         mx.resource = nx.resource, mx.waiters = nx.waiters
  PROVE  Inherits(p, nx, ms)
BY DEF Inherits, WaitsIn, OnePlace

(* Nobody waits in an empty queue. *)
LEMMA EmptyInherits ==
  ASSUME NEW p, NEW ms, NEW nx, nx.waiters = <<>>
  PROVE  Inherits(p, nx, ms) /\ ~WaitsIn(p, nx)
BY DEF Inherits, WaitsIn

(* A queue that loses its first waiter *)
LEMMA TailWaits ==
  ASSUME NEW p, NEW mx \in MutexTuples, NEW nx, mx.waiters # <<>>, nx.waiters = Tail(mx.waiters)
  PROVE  /\ WaitsIn(p, nx) => WaitsIn(p, mx)
         /\ OnePlace(p, mx) => OnePlace(p, nx)
         /\ WaitsIn(Head(mx.waiters).proc, mx)
         /\ OnePlace(Head(mx.waiters).proc, mx) => ~WaitsIn(Head(mx.waiters).proc, nx)
<1> DEFINE s == mx.waiters
           t == nx.waiters
           w == Head(s).proc
<1>1. s \in Seq(Froms) /\ s # <<>> /\ t = Tail(s)
  BY DEF MutexTuples
<1>2. /\ Len(s) \in Nat /\ Len(s) >= 1 /\ Len(t) = Len(s) - 1 /\ w = s[1].proc
      /\ \A i \in 1..Len(t) : t[i] = s[i + 1]
  BY <1>1
<1> HIDE DEF w, s, t
<1>3. \A i \in 1..Len(t) : i + 1 \in 1..Len(s) /\ t[i] = s[i + 1] /\ i + 1 # 1
  BY <1>2
<1>4. WaitsIn(p, nx) => WaitsIn(p, mx)
  BY <1>3 DEF WaitsIn, s, t
<1>5. ASSUME OnePlace(p, mx), NEW j \in 1..Len(t), NEW k \in 1..Len(t),
             t[j].proc = p, t[k].proc = p
      PROVE  j = k
  <2>1. j + 1 = k + 1
    BY <1>3, <1>5 DEF OnePlace, s
  <2>2. QED
    BY <1>2, <2>1
<1>6. 1 \in 1..Len(s) /\ s[1].proc = w
  BY <1>2
<1>7. ASSUME OnePlace(w, mx), WaitsIn(w, nx)
      PROVE  FALSE
  <2>1. PICK j \in 1..Len(t) : t[j].proc = w
    BY <1>7 DEF WaitsIn, t
  <2>2. j + 1 = 1
    BY <1>3, <1>6, <1>7, <2>1 DEF OnePlace, s
  <2>3. QED
    BY <1>3, <2>2
<1>8. WaitsIn(w, mx)
  BY <1>6 DEF WaitsIn, s
<1>9. OnePlace(p, mx) => OnePlace(p, nx)
  BY <1>5 DEF OnePlace, t
<1>10. QED
  BY <1>4, <1>7, <1>8, <1>9 DEF w, s

(* A queue that gets one more waiter *)
LEMMA QueueWaits ==
  ASSUME NEW p, NEW mx \in MutexTuples, NEW f \in Froms
  PROVE  /\ Queue(mx, f).resource = mx.resource /\ Queue(mx, f).process = mx.process
         /\ Queue(mx, f).count = mx.count
         /\ WaitsIn(p, Queue(mx, f)) <=> (WaitsIn(p, mx) \/ f.proc = p)
         /\ f.proc # p => (OnePlace(p, mx) => OnePlace(p, Queue(mx, f)))
         /\ ~WaitsIn(p, mx) => OnePlace(p, Queue(mx, f))
<1> DEFINE s == mx.waiters
           t == Append(s, f)
           nx == Queue(mx, f)
<1>1. /\ s \in Seq(Froms) /\ nx.waiters = t /\ nx.resource = mx.resource
      /\ nx.process = mx.process /\ nx.count = mx.count
  BY DEF MutexTuples, Queue
<1>2. /\ Len(s) \in Nat /\ Len(t) = Len(s) + 1 /\ t[Len(s) + 1] = f
      /\ \A i \in 1..Len(s) : t[i] = s[i]
  BY <1>1
<1> HIDE DEF s, t, nx
<1>3. \A i \in 1..Len(t) : i = Len(s) + 1 \/ i \in 1..Len(s)
  BY <1>2
<1>4. WaitsIn(p, nx) => WaitsIn(p, mx) \/ f.proc = p
  BY <1>1, <1>2, <1>3 DEF WaitsIn, s
<1>5. ASSUME WaitsIn(p, mx)
      PROVE  WaitsIn(p, nx)
  <2>1. PICK i \in 1..Len(s) : s[i].proc = p
    BY <1>5 DEF WaitsIn, s
  <2>2. i \in 1..Len(t) /\ t[i].proc = p
    BY <1>2, <2>1
  <2>3. QED
    BY <1>1, <2>2 DEF WaitsIn
<1>6. ASSUME f.proc = p
      PROVE  WaitsIn(p, nx)
  <2>1. Len(s) + 1 \in 1..Len(t) /\ t[Len(s) + 1].proc = p
    BY <1>2, <1>6
  <2>2. QED
    BY <1>1, <2>1 DEF WaitsIn
<1>7. ASSUME f.proc # p, OnePlace(p, mx)
      PROVE  OnePlace(p, nx)
  BY <1>1, <1>2, <1>3, <1>7 DEF OnePlace, s
<1>8. ASSUME ~WaitsIn(p, mx)
      PROVE  OnePlace(p, nx)
  BY <1>1, <1>2, <1>3, <1>8 DEF OnePlace, WaitsIn, s
<1>9. QED
  BY <1>1, <1>4, <1>5, <1>6, <1>7, <1>8 DEF nx

(* The call that the server takes is the only request of its process. *)
LEMMA TakenAlone ==
  ASSUME TypeOK, RequestInv, inbox # <<>>, Head(inbox) \in Calls
  PROVE  LET p == Head(inbox).from.proc
         IN  /\ p \in Clients /\ OneCall(p, Tail(inbox)) /\ Silent(p, Tail(inbox))
             /\ \A mx \in Range(mutexes) : ~WaitsIn(p, mx)
<1> DEFINE m == Head(inbox)
           p == m.from.proc
           t == Tail(inbox)
<1>1. /\ inbox \in Seq(Msgs) /\ t \in Seq(Msgs) /\ Len(t) = Len(inbox) - 1
      /\ \A i \in 1..(Len(inbox) - 1) : t[i] = inbox[i + 1]
      /\ m = inbox[1] /\ Len(inbox) >= 1
  BY ThinsTail DEF TypeOK
<1>2. m \in Calls
  OBVIOUS
<1> HIDE DEF m, t
<1>3. p \in Clients /\ CallOf(p, m) /\ 1 \in 1..Len(inbox)
  BY <1>1, <1>2 DEF Calls, Froms, CallOf, IsCall
<1> HIDE DEF p
<1>4. Asks(p, mutexes, inbox)
  BY <1>3 DEF RequestInv
<1>5. \A mx \in Range(mutexes) : ~WaitsIn(p, mx)
  BY <1>1, <1>3, <1>4 DEF Asks, Silent
<1>6. ASSUME NEW i \in 1..Len(t), CallOf(p, t[i])
      PROVE  FALSE
  <2>1. i + 1 \in 1..Len(inbox) /\ t[i] = inbox[i + 1] /\ i + 1 # 1
    BY <1>1, <1>6
  <2>2. i + 1 = 1
    BY <1>1, <1>3, <1>4, <1>6, <2>1 DEF Asks, OneCall
  <2>3. QED
    BY <2>1, <2>2
<1>7. OneCall(p, t) /\ Silent(p, t)
  BY <1>6 DEF OneCall, Silent
<1>8. QED
  BY <1>3, <1>5, <1>7 DEF p, m, t

(* An enter that has to wait goes from the inbox into a queue. *)
LEMMA QueueAsks ==
  ASSUME TypeOK, UniqueInv, RequestInv, inbox # <<>>, Head(inbox) \in Calls,
         inbox' = Tail(inbox), NEW mx \in Range(mutexes), Swapped(mx, Queue(mx, Head(inbox).from))
  PROVE  RequestInv'
<1> DEFINE f == Head(inbox).from
           new == Queue(mx, f)
<1>1. /\ f.proc \in Clients /\ OneCall(f.proc, inbox') /\ Silent(f.proc, inbox')
      /\ \A ox \in Range(mutexes) : ~WaitsIn(f.proc, ox)
  BY TakenAlone
<1>2. mutexes \in Seq(MutexTuples) /\ mx \in MutexTuples /\ inbox \in Seq(Msgs)
  BY DEF TypeOK, Range
<1>3. f \in Froms
  BY DEF Calls
<1>4. inbox' \in Seq(Msgs) /\ Thins(inbox, inbox')
  BY Received
<1>5. /\ mutexes' \in Seq(MutexTuples) /\ Uniq(mutexes')
      /\ Range(mutexes') = (Range(mutexes) \ {mx}) \cup {new}
  BY DEF Swapped
<1> HIDE DEF f
<1>6. ASSUME NEW p \in Clients
      PROVE  Asks(p, mutexes', inbox')
  <2>1. /\ new.resource = mx.resource
        /\ WaitsIn(p, new) <=> (WaitsIn(p, mx) \/ f.proc = p)
        /\ f.proc # p => (OnePlace(p, mx) => OnePlace(p, new))
        /\ ~WaitsIn(p, mx) => OnePlace(p, new)
    BY <1>2, <1>3, QueueWaits
  <2> HIDE DEF new
  <2>2. CASE p # f.proc
    <3>1. ASSUME NEW nx \in Range(mutexes')
          PROVE  Inherits(p, nx, mutexes)
      <4>1. CASE nx = new
        BY <2>1, <2>2, <4>1 DEF Inherits
      <4>2. CASE nx \in Range(mutexes)
        BY <4>2, SameInherits
      <4>3. QED
        BY <1>5, <3>1, <4>1, <4>2
    <3>2. Asks(p, mutexes, inbox)
      BY DEF RequestInv
    <3>3. QED
      BY <1>2, <1>4, <1>5, <3>1, <3>2, AsksKeep
  <2>3. CASE p = f.proc
    <3>1. \A nx \in Range(mutexes') : WaitsIn(p, nx) => nx = new
      BY <1>1, <1>5, <2>3
    <3>2. OnePlace(p, new)
      BY <1>1, <2>1, <2>3
    <3>3. QED
      BY <1>1, <2>3, <3>1, <3>2 DEF Asks
  <2>4. QED
    BY <2>2, <2>3
<1>7. QED
  BY <1>6 DEF RequestInv, Asks, OneCall, Silent, CallOf, WaitsIn, OnePlace

(* A step of the server that takes a message and lets queues be, or one get  *)
(* shorter.                                                                  *)
LEMMA ServeAsks ==
  ASSUME TypeOK, RequestInv, inbox # <<>>, Delivers(Tail(inbox), inbox'),
         mutexes' \in Seq(MutexTuples), Uniq(mutexes'),
         \A p \in Clients : \A nx \in Range(mutexes') : Inherits(p, nx, mutexes)
  PROVE  RequestInv'
<1>1. inbox \in Seq(Msgs) /\ inbox' \in Seq(Msgs) /\ Thins(inbox, inbox')
  <2>1. inbox \in Seq(Msgs) /\ Tail(inbox) \in Seq(Msgs) /\ Thins(inbox, Tail(inbox))
    BY Received DEF TypeOK
  <2>2. QED
    BY <2>1, ThinsTrans DEF Delivers
<1>2. ASSUME NEW p \in Clients
      PROVE  Asks(p, mutexes', inbox')
  <2>1. Asks(p, mutexes, inbox)
    BY DEF RequestInv
  <2>2. QED
    BY <1>1, <2>1, AsksKeep
<1>3. QED
  BY <1>2 DEF RequestInv, Asks, OneCall, Silent, CallOf, WaitsIn, OnePlace

-----------------------------------------------------------------------------
(* Who waits for whom *)

(* deadlock? looks at a mutex in whose queue the owner at hand waits. *)
LEMMA FirstWaits ==
  ASSUME TypeOK, NEW q, WaitsAt(q) # {}
  PROVE  /\ First(mutexes, WaitsAt(q)) \in Range(mutexes)
         /\ First(mutexes, WaitsAt(q)).process \in Clients
         /\ WaitsIn(q, First(mutexes, WaitsAt(q)))
<1>1. mutexes \in Seq(MutexTuples) /\ Len(mutexes) \in Nat
  BY DEF TypeOK
<1>2. WaitsAt(q) \subseteq 1..Len(mutexes)
  BY DEF WaitsAt
<1>3. PICK i \in WaitsAt(q) : First(mutexes, WaitsAt(q)) = mutexes[i]
  BY <1>1, <1>2, FirstIn
<1>4. i \in 1..Len(mutexes) /\ WaitsIn(q, mutexes[i])
  BY <1>3 DEF WaitsAt, WaitsIn
<1>5. mutexes[i] \in MutexTuples /\ mutexes[i] \in Range(mutexes)
  BY <1>1, <1>4 DEF Range
<1>6. mutexes[i].process \in Clients
  BY <1>5 DEF MutexTuples
<1>7. QED
  BY <1>3, <1>4, <1>5, <1>6

(* A process waits in a queue if deadlock? finds one. *)
LEMMA WaitsAtIn ==
  ASSUME TypeOK, NEW q
  PROVE  (WaitsAt(q) = {}) <=> \A mx \in Range(mutexes) : ~WaitsIn(q, mx)
<1>1. mutexes \in Seq(MutexTuples)
  BY DEF TypeOK
<1>2. QED
  BY <1>1 DEF WaitsAt, WaitsIn, Range

(* The search of deadlock? goes on from every process it meets. *)
LEMMA ChasedClosed ==
  ASSUME TypeOK, NEW p, NEW o \in Clients
  PROVE  /\ Chased(p, o) \in SUBSET Clients /\ o \in Chased(p, o)
         /\ \A s \in Chased(p, o) : s # p /\ WaitsAt(s) # {} =>
              First(mutexes, WaitsAt(s)).process \in Chased(p, o)
<1> DEFINE next(s) == First(mutexes, WaitsAt(s)).process
           Closed(S) == o \in S /\ \A s \in S : s # p /\ WaitsAt(s) # {} => next(s) \in S
<1>1. Chased(p, o) = {q \in Clients : \A S \in SUBSET Clients : Closed(S) => q \in S}
  BY DEF Chased
<1>2. \A s : WaitsAt(s) # {} => next(s) \in Clients
  BY FirstWaits
<1>3. ASSUME NEW s \in Chased(p, o), s # p, WaitsAt(s) # {}
      PROVE  next(s) \in Chased(p, o)
  <2>1. ASSUME NEW S \in SUBSET Clients, Closed(S)
        PROVE  next(s) \in S
    <3>1. s \in S
      BY <1>1, <1>3, <2>1
    <3>2. QED
      BY <1>3, <2>1, <3>1
  <2> HIDE DEF next
  <2>2. QED
    BY <1>1, <1>2, <1>3, <2>1
<1>4. QED
  BY <1>1, <1>3

(* deadlock? ends: the processes it goes through are finitely many and do    *)
(* not wait for each other in a cycle.                                       *)
LEMMA ChaseEnds ==
  ASSUME TypeOK, Acyclic(mutexes), NEW p, NEW mx \in Range(mutexes)
  PROVE  Chase(p, mx) # "forever"
<1> DEFINE C == Chased(p, mx.process)
<1>1. mx.process \in Clients
  <2>1. mx \in MutexTuples
    BY DEF TypeOK, Range
  <2>2. QED
    BY <2>1 DEF MutexTuples
<1>2. /\ C \in SUBSET Clients /\ C # {}
      /\ \A s \in C : s # p /\ WaitsAt(s) # {} => First(mutexes, WaitsAt(s)).process \in C
  BY <1>1, ChasedClosed
<1> HIDE DEF C
<1>3. PICK c \in C : \A nx \in Range(mutexes) : WaitsIn(c, nx) => nx.process \notin C
  BY <1>2 DEF Acyclic
<1>4. c = p \/ WaitsAt(c) = {}
  BY <1>2, <1>3, FirstWaits
<1>5. QED
  BY <1>3, <1>4 DEF Chase, C

(* No cycle appears when nobody waits who did not wait for the same owner. *)
LEMMA FewerWait ==
  ASSUME NEW ms, NEW ns, Acyclic(ms),
         \A q : \A nx \in Range(ns) : WaitsIn(q, nx) =>
           \E mx \in Range(ms) : WaitsIn(q, mx) /\ mx.process = nx.process
  PROVE  Acyclic(ns)
<1>1. ASSUME NEW S \in SUBSET Clients, S # {}
      PROVE  \E p \in S : \A nx \in Range(ns) : WaitsIn(p, nx) => nx.process \notin S
  <2>1. PICK p \in S : \A mx \in Range(ms) : WaitsIn(p, mx) => mx.process \notin S
    BY <1>1 DEF Acyclic
  <2>2. QED
    BY <2>1
<1>2. QED
  BY <1>1 DEF Acyclic

(* The new owner of a mutex waits for nobody any more. *)
LEMMA PassAcyclic ==
  ASSUME TypeOK, RequestInv, Acyclic(mutexes), NEW mx \in Range(mutexes), mx.waiters # <<>>,
         NEW ns, Range(ns) = (Range(mutexes) \ {mx}) \cup {Passed(mx)}
  PROVE  Acyclic(ns)
<1> DEFINE w == Head(mx.waiters).proc
           new == Passed(mx)
<1>1. mx \in MutexTuples /\ w \in Clients
  <2>1. mx \in MutexTuples
    BY DEF TypeOK, Range
  <2>2. mx.waiters \in Seq(Froms)
    BY <2>1 DEF MutexTuples
  <2>3. Head(mx.waiters) \in Froms
    BY <2>2
  <2>4. QED
    BY <2>1, <2>3 DEF Froms
<1>2. new.process = w /\ new.waiters = Tail(mx.waiters)
  BY DEF Passed, New
<1>3. /\ \A p : WaitsIn(p, new) => WaitsIn(p, mx)
      /\ WaitsIn(w, mx) /\ (OnePlace(w, mx) => ~WaitsIn(w, new))
  BY <1>1, <1>2, TailWaits
<1> HIDE DEF w, new
<1>4. OnePlace(w, mx) /\ \A ox \in Range(mutexes) : WaitsIn(w, ox) => ox = mx
  BY <1>1, <1>3 DEF RequestInv, Asks
<1>5. \A nx \in Range(ns) : ~WaitsIn(w, nx)
  BY <1>3, <1>4 DEF new
<1>6. ASSUME NEW S \in SUBSET Clients, S # {}
      PROVE  \E p \in S : \A nx \in Range(ns) : WaitsIn(p, nx) => nx.process \notin S
  <2>1. CASE w \in S
    BY <1>5, <2>1
  <2>2. CASE w \notin S
    <3>1. PICK p \in S : \A ox \in Range(mutexes) : WaitsIn(p, ox) => ox.process \notin S
      BY <1>6 DEF Acyclic
    <3>2. QED
      BY <1>2, <2>2, <3>1 DEF new
  <2>3. QED
    BY <2>1, <2>2
<1>7. QED
  BY <1>6 DEF Acyclic

(* A process that deadlock? lets wait closes no cycle: the search has met    *)
(* somebody who waits for nothing, and would have met the process.           *)
LEMMA QueueAcyclic ==
  ASSUME TypeOK, RequestInv, Acyclic(mutexes), NEW mx \in Range(mutexes), NEW f \in Froms,
         \A ox \in Range(mutexes) : ~WaitsIn(f.proc, ox), Chase(f.proc, mx) = "wait",
         NEW ns, Range(ns) = (Range(mutexes) \ {mx}) \cup {Queue(mx, f)}
  PROVE  Acyclic(ns)
<1> DEFINE p == f.proc
           o == mx.process
           new == Queue(mx, f)
           C == Chased(p, o)
<1>1. mx \in MutexTuples /\ o \in Clients /\ p \in Clients
  <2>1. mx \in MutexTuples
    BY DEF TypeOK, Range
  <2>2. QED
    BY <2>1 DEF MutexTuples, Froms
<1>2. /\ new.process = o
      /\ \A q : WaitsIn(q, new) <=> (WaitsIn(q, mx) \/ q = p)
  BY <1>1, QueueWaits
<1>3. p \notin C /\ \E q \in C : WaitsAt(q) = {}
  BY DEF Chase
<1>4. C \in SUBSET Clients
  BY <1>1, ChasedClosed
<1> HIDE DEF new
<1>5. \A q, ox : q # p => (ox \in Range(mutexes) /\ WaitsIn(q, ox) =>
                            \E nx \in Range(ns) : WaitsIn(q, nx) /\ nx.process = ox.process)
  BY <1>2 DEF new
<1>6. \A q, nx : q # p => (nx \in Range(ns) /\ WaitsIn(q, nx) =>
                            \E ox \in Range(mutexes) : WaitsIn(q, ox) /\ nx.process = ox.process)
  BY <1>2 DEF new
<1>7. ASSUME NEW S \in SUBSET Clients, S # {}
      PROVE  \E q \in S : \A nx \in Range(ns) : WaitsIn(q, nx) => nx.process \notin S
  <2>1. CASE p \notin S
    <3>1. PICK q \in S : \A ox \in Range(mutexes) : WaitsIn(q, ox) => ox.process \notin S
      BY <1>7 DEF Acyclic
    <3>2. QED
      BY <1>6, <2>1, <3>1
  <2>2. CASE p \in S /\ o \notin S
    <3>1. \A nx \in Range(ns) : WaitsIn(p, nx) => nx.process = o
      BY <1>2 DEF new
    <3>2. QED
      BY <2>2, <3>1
  <2>3. CASE p \in S /\ o \in S
    <3>1. SUFFICES ASSUME \A q \in S : \E nx \in Range(ns) : WaitsIn(q, nx) /\ nx.process \in S
                   PROVE  FALSE
      OBVIOUS
    <3>2. ASSUME NEW s \in S, s # p, WaitsAt(s) # {}
          PROVE  First(mutexes, WaitsAt(s)).process \in S
      <4>1. PICK ox \in Range(mutexes) : WaitsIn(s, ox) /\ ox.process \in S
        BY <1>6, <3>1, <3>2
      <4>2. First(mutexes, WaitsAt(s)) \in Range(mutexes) /\ WaitsIn(s, First(mutexes, WaitsAt(s)))
        BY <3>2, FirstWaits
      <4>3. First(mutexes, WaitsAt(s)) = ox
        BY <4>1, <4>2 DEF RequestInv, Asks
      <4>4. QED
        BY <4>1, <4>3
    <3>3. C \subseteq S
      <4>1. ASSUME NEW q \in C
            PROVE  q \in S
        BY <2>3, <3>2, <4>1 DEF Chased
      <4>2. QED
        BY <4>1
    <3>4. PICK q \in C : WaitsAt(q) = {}
      BY <1>3
    <3>5. q \in S /\ q # p /\ \A ox \in Range(mutexes) : ~WaitsIn(q, ox)
      BY <1>3, <3>3, <3>4, WaitsAtIn
    <3>6. QED
      BY <1>6, <3>1, <3>5
  <2>4. QED
    BY <2>1, <2>2, <2>3
<1>8. QED
  BY <1>7 DEF Acyclic

-----------------------------------------------------------------------------
(* Who is DOWN *)

(* The fields of a mutex and of its DOWN *)
LEMMA DownFields ==
  ASSUME NEW mx
  PROVE  /\ DOWNof(mx).type = "DOWN" /\ DOWNof(mx).process = mx.process
         /\ DOWNof(mx).resource = mx.resource /\ ~IsCall(DOWNof(mx))
BY DEF DOWNof, DOWNmsg, IsCall

(* The first message is taken. *)
LEMMA TailOnce ==
  ASSUME NEW s \in Seq(Msgs), s # <<>>, Once(s)
  PROVE  /\ Once(Tail(s)) /\ Range(s) = Range(Tail(s)) \cup {Head(s)}
         /\ ~IsCall(Head(s)) => Head(s) \notin Range(Tail(s))
<1> DEFINE t == Tail(s)
           h == Head(s)
<1>1. /\ t \in Seq(Msgs) /\ Len(t) = Len(s) - 1 /\ h = s[1] /\ Len(s) >= 1 /\ Len(s) \in Nat
      /\ \A i \in 1..(Len(s) - 1) : t[i] = s[i + 1]
  BY ThinsTail
<1> HIDE DEF t, h
<1>2. \A i \in 1..Len(t) : i + 1 \in 1..Len(s) /\ t[i] = s[i + 1] /\ i + 1 # 1
  BY <1>1
<1>3. ASSUME NEW i \in 1..Len(t), NEW j \in 1..Len(t), ~IsCall(t[i]), t[i] = t[j]
      PROVE  i = j
  <2>1. i + 1 = j + 1
    BY <1>2, <1>3 DEF Once
  <2>2. QED
    BY <1>1, <2>1
<1>4. ASSUME ~IsCall(h), NEW i \in 1..Len(t), t[i] = h
      PROVE  FALSE
  <2>1. 1 \in 1..Len(s)
    BY <1>1
  <2>2. i + 1 = 1
    BY <1>1, <1>2, <1>4, <2>1 DEF Once
  <2>3. QED
    BY <1>2, <2>2
<1>5. Range(s) = Range(t) \cup {h}
  <2>1. DOMAIN t = 1..Len(t) /\ DOMAIN s = 1..Len(s) /\ 1 \in 1..Len(s)
    BY <1>1
  <2>2. ASSUME NEW k \in 1..Len(s), k # 1
        PROVE  k - 1 \in 1..Len(t) /\ t[k - 1] = s[k]
    <3>1. k - 1 \in 1..Len(t) /\ k - 1 + 1 = k
      BY <1>1, <2>2
    <3>2. QED
      BY <1>2, <3>1
  <2>3. Range(s) \subseteq Range(t) \cup {h}
    <3>1. \A k \in 1..Len(s) : k # 1 => s[k] \in Range(t)
      BY <2>1, <2>2 DEF Range
    <3>2. \A k \in 1..Len(s) : s[k] \in Range(t) \cup {h}
      BY <1>1, <3>1
    <3>3. QED
      BY <2>1, <3>2 DEF Range
  <2>4. Range(t) \cup {h} \subseteq Range(s)
    BY <1>1, <1>2, <2>1 DEF Range
  <2>5. QED
    BY <2>3, <2>4
<1>6. DOMAIN t = 1..Len(t)
  BY <1>1
<1>7. Once(t) /\ (~IsCall(h) => h \notin Range(t))
  BY <1>3, <1>4, <1>6 DEF Once, Range
<1>8. QED
  BY <1>5, <1>7 DEF t, h

(* demonitor&flush leaves no DOWN of the owner it no longer monitors. *)
LEMMA FlushOnce ==
  ASSUME NEW s \in Seq(Msgs), Once(s), NEW mx
  PROVE  Once(Flush(s, mx)) /\ Range(Flush(s, mx)) = Range(s) \ {DOWNof(mx)}
<1> DEFINE x == DOWNof(mx)
<1>1. ~IsCall(x)
  BY DownFields
<1> HIDE DEF x
<1>2. CASE Flush(s, mx) = s /\ \A i \in 1..Len(s) : s[i] # x
  <2>1. x \notin Range(s)
    BY <1>2 DEF Range
  <2>2. QED
    BY <1>2, <2>1 DEF x
<1>3. ASSUME NEW i \in 1..Len(s), s[i] = x, Flush(s, mx) = RemoveAt(s, i)
      PROVE  Once(Flush(s, mx)) /\ Range(Flush(s, mx)) = Range(s) \ {x}
  <2> DEFINE t == Flush(s, mx)
             g(j) == IF j < i THEN j ELSE j + 1
  <2>1. /\ t \in Seq(Msgs) /\ Len(t) = Len(s) - 1
        /\ \A j \in 1..(Len(s) - 1) : t[j] = IF j < i THEN s[j] ELSE s[j + 1]
    BY <1>3, RemovedAt
  <2> HIDE DEF t
  <2>0. Len(s) \in Nat
    OBVIOUS
  <2>2. \A j \in 1..Len(t) : g(j) \in 1..Len(s) /\ t[j] = s[g(j)] /\ g(j) # i
    BY <2>0, <2>1
  <2>3. \A j, k \in 1..Len(t) : g(j) = g(k) => j = k
    BY <2>0, <2>1
  <2>4. \A k \in 1..Len(s) : k # i => \E j \in 1..Len(t) : g(j) = k
    <3>1. ASSUME NEW k \in 1..Len(s), k # i
          PROVE  \E j \in 1..Len(t) : g(j) = k
      <4>1. CASE k < i
        <5>1. k \in 1..Len(t) /\ g(k) = k
          BY <2>0, <2>1, <4>1
        <5>2. QED
          BY <5>1
      <4>2. CASE ~(k < i)
        <5>1. k - 1 \in 1..Len(t) /\ g(k - 1) = k
          BY <2>0, <2>1, <3>1, <4>2
        <5>2. QED
          BY <5>1
      <4>3. QED
        BY <4>1, <4>2
    <3>2. QED
      BY <3>1
  <2> HIDE DEF g
  <2>5. Once(t)
    BY <2>2, <2>3 DEF Once
  <2>6. DOMAIN t = 1..Len(t) /\ DOMAIN s = 1..Len(s)
    BY <2>1
  <2>7. \A k \in 1..Len(s) : k # i => s[k] # x
    BY <1>1, <1>3 DEF Once
  <2>8. Range(t) \subseteq Range(s) \ {x}
    BY <2>2, <2>6, <2>7 DEF Range
  <2>9. ASSUME NEW k \in 1..Len(s), s[k] # x
        PROVE  s[k] \in Range(t)
    <3>1. PICK j \in 1..Len(t) : g(j) = k
      BY <1>3, <2>4, <2>9
    <3>2. QED
      BY <2>2, <2>6, <3>1 DEF Range
  <2>10. QED
    BY <2>5, <2>6, <2>8, <2>9 DEF Range, t
<1>4. \/ Flush(s, mx) = s /\ \A i \in 1..Len(s) : s[i] # x
      \/ \E i \in 1..Len(s) : s[i] = x /\ Flush(s, mx) = RemoveAt(s, i)
  BY RemovedFirst DEF Flush, x
<1>5. QED
  BY <1>2, <1>3, <1>4 DEF x

(* A message that comes in *)
LEMMA AppendOnce ==
  ASSUME NEW s \in Seq(Msgs), Once(s), NEW x \in Msgs, IsCall(x) \/ x \notin Range(s)
  PROVE  Once(Append(s, x)) /\ Range(Append(s, x)) = Range(s) \cup {x}
<1> DEFINE t == Append(s, x)
<1>1. /\ t \in Seq(Msgs) /\ Len(s) \in Nat /\ Len(t) = Len(s) + 1 /\ t[Len(s) + 1] = x
      /\ \A i \in 1..Len(s) : t[i] = s[i]
  OBVIOUS
<1> HIDE DEF t
<1>2. \A i \in 1..Len(t) : i = Len(s) + 1 \/ i \in 1..Len(s)
  BY <1>1
<1>3. DOMAIN s = 1..Len(s) /\ DOMAIN t = 1..Len(t)
  BY <1>1
<1>4. IsCall(x) \/ \A i \in 1..Len(s) : s[i] # x
  BY <1>3 DEF Range
<1>5. Once(t)
  BY <1>1, <1>2, <1>4 DEF Once
<1>6. \A i \in 1..Len(s) : i \in 1..Len(t)
  BY <1>1
<1>7. Len(s) + 1 \in 1..Len(t)
  BY <1>1
<1>8. Range(t) = Range(s) \cup {x}
  BY <1>1, <1>2, <1>3, <1>6, <1>7 DEF Range
<1>9. QED
  BY <1>5, <1>8 DEF t

(* monitor: an owner that is dead is DOWN once. *)
LEMMA MonitorOnce ==
  ASSUME NEW s \in Seq(Msgs), Once(s), NEW r \in Resources, NEW p \in Clients,
         DOWNmsg(r, p) \notin Range(s)
  PROVE  /\ Once(Monitor(s, r, p))
         /\ Range(Monitor(s, r, p)) =
              IF pc[p] = "dead" THEN Range(s) \cup {DOWNmsg(r, p)} ELSE Range(s)
<1>1. DOWNmsg(r, p) \in Msgs
  BY DEF DOWNmsg, Msgs
<1>2. QED
  BY <1>1, AppendOnce DEF Monitor

(* A call is taken, and every mutex keeps its owner. *)
LEMMA OwnersTell ==
  ASSUME TypeOK, TellInv, inbox # <<>>, Head(inbox) \in Calls, inbox' = Tail(inbox),
         UNCHANGED pc,
         \A nx \in Range(mutexes') : \E mx \in Range(mutexes) :
           mx.resource = nx.resource /\ mx.process = nx.process,
         \A mx \in Range(mutexes) : \E nx \in Range(mutexes') :
           mx.resource = nx.resource /\ mx.process = nx.process
  PROVE  TellInv'
<1>1. Once(inbox') /\ Range(inbox) = Range(inbox') \cup {Head(inbox)}
  BY TailOnce DEF TypeOK, TellInv
<1>2. IsCall(Head(inbox))
  BY DEF Calls, IsCall
<1>3. ASSUME NEW m \in Range(inbox'), ~IsCall(m)
      PROVE  \E nx \in Range(mutexes') : DOWNof(nx) = m
  <2>1. PICK mx \in Range(mutexes) : DOWNof(mx) = m
    BY <1>1, <1>3 DEF TellInv, Known
  <2>2. PICK nx \in Range(mutexes') : mx.resource = nx.resource /\ mx.process = nx.process
    OBVIOUS
  <2>3. QED
    BY <2>1, <2>2 DEF DOWNof
<1>4. ASSUME NEW nx \in Range(mutexes'), pc[nx.process] = "dead"
      PROVE  DOWNof(nx) \in Range(inbox')
  <2>1. PICK mx \in Range(mutexes) : mx.resource = nx.resource /\ mx.process = nx.process
    OBVIOUS
  <2>2. DOWNof(mx) \in Range(inbox) /\ DOWNof(mx) = DOWNof(nx)
    BY <1>4, <2>1 DEF TellInv, Told, DOWNof
  <2>3. QED
    BY <1>1, <1>2, <2>2, DownFields
<1>5. QED
  BY <1>1, <1>3, <1>4 DEF TellInv, Once, Known, Told, IsCall, DOWNof, DOWNmsg

(* A new mutex is monitored, and its owner may be dead. *)
LEMMA EnterFreeTells ==
  ASSUME TypeOK, UniqueInv, TellInv, HandleEnterFree
  PROVE  TellInv'
<1> DEFINE m == Head(inbox)
           p == m.from.proc
           r == m.resource
           new == New(r, p, <<>>)
           t == Tail(inbox)
<1>1. inbox # <<>> /\ UNCHANGED pc
  BY DEF HandleEnterFree, Receives
<1>2. /\ m \in Calls /\ \A mx \in Range(mutexes) : mx.resource # r
      /\ Range(mutexes') = Range(mutexes) \cup {new}
  BY EnterFreeEffect
<1>3. inbox' = Monitor(t, r, p)
  BY DEF HandleEnterFree, EnterMutex
<1>4. Once(t) /\ Range(inbox) = Range(t) \cup {m} /\ t \in Seq(Msgs)
  BY <1>1, TailOnce, Received DEF TypeOK, TellInv
<1>5. DOWNof(new) = DOWNmsg(r, p) /\ new.process = p
  BY DEF DOWNof, New
<1> HIDE DEF m, t, new
<1>6. r \in Resources /\ p \in Clients /\ IsCall(m)
  BY <1>2 DEF Calls, Froms, IsCall
<1> HIDE DEF p, r
<1>7. \A x \in Range(t) : ~IsCall(x) => \E mx \in Range(mutexes) : DOWNof(mx) = x
  BY <1>4 DEF TellInv, Known
<1>8. DOWNmsg(r, p) \notin Range(t)
  BY <1>2, <1>5, <1>7, DownFields DEF DOWNmsg, IsCall
<1>9. /\ Once(inbox')
      /\ Range(inbox') = IF pc[p] = "dead" THEN Range(t) \cup {DOWNmsg(r, p)} ELSE Range(t)
  BY <1>3, <1>4, <1>6, <1>8, MonitorOnce
<1>10. \A x \in Range(inbox') : ~IsCall(x) => \E mx \in Range(mutexes') : DOWNof(mx) = x
  BY <1>2, <1>5, <1>7, <1>9
<1>11. ASSUME NEW nx \in Range(mutexes'), pc[nx.process] = "dead"
       PROVE  DOWNof(nx) \in Range(inbox')
  <2>1. CASE nx = new
    BY <1>5, <1>9, <1>11, <2>1
  <2>2. CASE nx \in Range(mutexes)
    <3>1. DOWNof(nx) \in Range(inbox)
      BY <1>11, <2>2 DEF TellInv, Told
    <3>2. DOWNof(nx) # m
      BY <1>6, DownFields
    <3>3. QED
      BY <1>4, <1>9, <3>1, <3>2
  <2>3. QED
    BY <1>2, <1>11, <2>1, <2>2
<1>12. QED
  BY <1>1, <1>9, <1>10, <1>11 DEF TellInv, Once, Known, Told, IsCall, DOWNof, DOWNmsg

(* leave-mutex: the old owner is monitored no more, the new one is. *)
LEMMA LeaveMutexTells ==
  ASSUME TypeOK, UniqueInv, UNCHANGED pc, NEW mx \in Range(mutexes), NEW box \in Seq(Msgs),
         NEW rep, LeaveMutex(mx, box, rep), Once(box), Known(mutexes, box),
         \A ox \in Range(mutexes) \ {mx} : pc[ox.process] = "dead" => DOWNof(ox) \in Range(box)
  PROVE  TellInv'
<1> DEFINE flushed == Flush(box, mx)
           w == Head(mx.waiters).proc
           x == DOWNmsg(mx.resource, w)
<1>1. mutexes \in Seq(MutexTuples) /\ mx \in MutexTuples
  BY DEF TypeOK, Range
<1>2. \A ox \in Range(mutexes) : ox # mx => ox.resource # mx.resource /\ DOWNof(ox) # DOWNof(mx)
  <2>1. ASSUME NEW ox \in Range(mutexes), ox # mx
        PROVE  ox.resource # mx.resource
    BY <1>1, <2>1, OneMutex DEF UniqueInv
  <2>2. QED
    BY <2>1, DownFields
<1>3. /\ flushed \in Seq(Msgs) /\ Once(flushed)
      /\ Range(flushed) = Range(box) \ {DOWNof(mx)}
  BY ThinsFlush, FlushOnce
<1>4. IF mx.waiters = <<>>
      THEN inbox' = flushed
      ELSE inbox' = Monitor(flushed, mx.resource, w)
  BY DEF LeaveMutex, EnterMutex
<1>5. \/ mx.waiters = <<>> /\ Dropped(mx)
      \/ mx.waiters # <<>> /\ Swapped(mx, Passed(mx))
  BY LeaveMutexEffect
<1> HIDE DEF flushed
<1>6. \A m \in Range(flushed) : ~IsCall(m) =>
        \E ox \in Range(mutexes) \ {mx} : DOWNof(ox) = m
  BY <1>3 DEF Known
<1>7. \A ox \in Range(mutexes) \ {mx} : pc[ox.process] = "dead" => DOWNof(ox) \in Range(flushed)
  BY <1>2, <1>3
<1>8. CASE mx.waiters = <<>>
  <2>1. Range(mutexes') = Range(mutexes) \ {mx} /\ inbox' = flushed
    BY <1>4, <1>5, <1>8 DEF Dropped
  <2>2. QED
    BY <1>3, <1>6, <1>7, <2>1 DEF TellInv, Once, Known, Told, IsCall, DOWNof, DOWNmsg
<1>9. CASE mx.waiters # <<>>
  <2>1. /\ Range(mutexes') = (Range(mutexes) \ {mx}) \cup {Passed(mx)}
        /\ inbox' = Monitor(flushed, mx.resource, w)
    BY <1>4, <1>5, <1>9 DEF Swapped
  <2>2. mx.resource \in Resources /\ w \in Clients
    <3>1. mx.resource \in Resources /\ mx.waiters \in Seq(Froms)
      BY <1>1 DEF MutexTuples
    <3>2. Head(mx.waiters) \in Froms
      BY <1>9, <3>1
    <3>3. QED
      BY <3>1, <3>2 DEF Froms
  <2>3. DOWNof(Passed(mx)) = x /\ Passed(mx).process = w
    BY DEF DOWNof, Passed, New
  <2>4. ~IsCall(x) /\ x.resource = mx.resource
    BY DEF DOWNmsg, IsCall
  <2> HIDE DEF w, x
  <2>5. x \notin Range(flushed)
    BY <1>2, <1>6, <2>4, DownFields
  <2>6. /\ Once(inbox')
        /\ Range(inbox') = IF pc[w] = "dead" THEN Range(flushed) \cup {x} ELSE Range(flushed)
    BY <1>3, <2>1, <2>2, <2>5, MonitorOnce DEF x
  <2>7. \A m \in Range(inbox') : ~IsCall(m) => \E nx \in Range(mutexes') : DOWNof(nx) = m
    BY <1>6, <2>1, <2>3, <2>6
  <2>8. \A nx \in Range(mutexes') : pc[nx.process] = "dead" => DOWNof(nx) \in Range(inbox')
    BY <1>7, <2>1, <2>3, <2>6
  <2>9. QED
    BY <2>6, <2>7, <2>8 DEF TellInv, Once, Known, Told, IsCall, DOWNof, DOWNmsg
<1>10. QED
  BY <1>8, <1>9

-----------------------------------------------------------------------------
(* The count of a mutex *)

(* A live process whose call is taken waits for the answer. *)
LEMMA LiveCaller ==
  ASSUME Inv, server = "up", MaxTimeouts = 0, inbox # <<>>, Head(inbox) \in Calls,
         NEW p, p = Head(inbox).from.proc, pc[p] # "dead"
  PROVE  /\ p \in Clients /\ Waiting(p) /\ Current(p, Head(inbox).from)
         /\ Head(inbox).type = pc[p] /\ Head(inbox).resource = res[p] /\ reply[p] = None
<1>1. TypeOK
  BY DEF Inv
<1>2. Head(inbox).from \in Froms
  BY DEF Calls
<1>3. p \in Clients
  BY <1>2 DEF Froms
<1>4. Ordered(p) /\ Sent(p, inbox)
  BY <1>3 DEF Inv, OrderInv, Ordered
<1>5. Head(inbox).from.tag = tag[p]
  BY <1>1, <1>2, <1>3, ZeroTags
<1>6. pc[p] # "run"
  BY <1>1, <1>3, <1>4, <1>5, OlderCall
<1>7. Waiting(p)
  BY <1>1, <1>3, <1>6 DEF TypeOK, Waiting
<1>8. Current(p, Head(inbox).from)
  BY <1>5 DEF Current
<1>9. QED
  BY <1>1, <1>3, <1>4, <1>7, <1>8, CurrentCall

(* So does a live process that is first in a queue. *)
LEMMA LiveWaiter ==
  ASSUME Inv, server = "up", MaxTimeouts = 0, NEW mx \in Range(mutexes), mx.waiters # <<>>,
         NEW w, w = Head(mx.waiters).proc
  PROVE  /\ w \in Clients
         /\ pc[w] # "dead" =>
              /\ Waiting(w) /\ Current(w, Head(mx.waiters))
              /\ pc[w] = "enter" /\ res[w] = mx.resource /\ reply[w] = None
<1>1. TypeOK /\ mutexes \in Seq(MutexTuples)
  BY DEF Inv, TypeOK
<1>2. mx.waiters \in Seq(Froms)
  BY <1>1, CountsType
<1>3. /\ Head(mx.waiters) \in Froms /\ Head(mx.waiters) = mx.waiters[1]
      /\ 1 \in 1..Len(mx.waiters)
  BY <1>2
<1>4. w \in Clients
  BY <1>3 DEF Froms
<1>5. mx.waiters[1].proc = w /\ mx.waiters[1].tag = tag[w]
  BY <1>1, <1>3, <1>4, ZeroTags
<1>6. Queued(w, mutexes)
  BY <1>4 DEF Inv, OrderInv, Ordered
<1>7. /\ pc[w] # "run"
      /\ Waiting(w) => pc[w] = "enter" /\ mx.resource = res[w] /\ reply[w] = None
  BY <1>3, <1>5, <1>6 DEF Queued
<1>8. pc[w] # "dead" => Waiting(w)
  BY <1>1, <1>4, <1>7 DEF TypeOK, Waiting
<1>9. Current(w, Head(mx.waiters))
  BY <1>3, <1>5 DEF Current
<1>10. QED
  BY <1>4, <1>7, <1>8, <1>9

(* Answers about resource r leave the counts of the others alone. *)
LEMMA CountStep ==
  ASSUME CountInv, UNCHANGED <<pc, res, held>>, NEW r,
         \A nx \in Range(mutexes') : nx.process \in Clients,
         \A p \in Clients : pc[p] # "dead" /\ reply'[p] # reply[p] => res[p] = r,
         \A nx \in Range(mutexes') :
           Counted(nx)' \/ (nx \in Range(mutexes) /\ nx.resource # r)
  PROVE  CountInv'
<1>1. ASSUME NEW nx \in Range(mutexes'), nx \in Range(mutexes), nx.resource # r
      PROVE  Counted(nx)'
  <2>1. Counted(nx) /\ nx.process \in Clients
    BY <1>1 DEF CountInv
  <2>2. CASE pc[nx.process] # "dead"
    <3>1. Pending(nx.process, nx.resource)' = Pending(nx.process, nx.resource)
      BY <1>1, <2>1, <2>2 DEF Pending
    <3>2. QED
      BY <2>1, <3>1 DEF Counted
  <2>3. CASE pc[nx.process] = "dead"
    BY <2>3 DEF Counted
  <2>4. QED
    BY <2>2, <2>3
<1>2. \A nx \in Range(mutexes') : Counted(nx)'
  BY <1>1
<1>3. QED
  BY <1>2 DEF CountInv

(* The owners in a list of mutexes *)
LEMMA OwnersType ==
  ASSUME NEW ms \in Seq(MutexTuples), NEW mx \in Range(ms)
  PROVE  mx.process \in Clients /\ mx.resource \in Resources
<1>1. mx \in MutexTuples
  BY DEF Range
<1>2. QED
  BY <1>1 DEF MutexTuples

(* The answer to a call is about the resource of the call, if the caller     *)
(* lives.                                                                    *)
LEMMA AnswerAbout ==
  ASSUME Inv, server = "up", MaxTimeouts = 0, inbox # <<>>, Head(inbox) \in Calls,
         NEW v \in Replies, NEW rep, rep = Reply(reply, Head(inbox).from, v)
  PROVE  /\ rep \in [Clients -> Replies]
         /\ \A p \in Clients : pc[p] # "dead" =>
              rep[p] = IF p = Head(inbox).from.proc THEN v ELSE reply[p]
         /\ \A p \in Clients : pc[p] # "dead" /\ rep[p] # reply[p] => res[p] = Head(inbox).resource
<1>1. reply \in [Clients -> Replies]
  BY DEF Inv, TypeOK, Replies
<1>2. /\ rep \in [Clients -> Replies]
      /\ \A p \in Clients : rep[p] = IF Waiting(p) /\ Current(p, Head(inbox).from) THEN v ELSE reply[p]
  BY <1>1, ReplyTo
<1>3. \A p \in Clients : pc[p] # "dead" /\ p = Head(inbox).from.proc =>
        Waiting(p) /\ Current(p, Head(inbox).from) /\ Head(inbox).resource = res[p]
  BY LiveCaller
<1>4. \A p \in Clients : Current(p, Head(inbox).from) => p = Head(inbox).from.proc
  BY DEF Current
<1>5. QED
  BY <1>2, <1>3, <1>4

-----------------------------------------------------------------------------
(* The steps of the server *)

(* HandleEnterFree *)
LEMMA EnterFreePatient ==
  ASSUME PatientInv, MaxTimeouts = 0, HandleEnterFree
  PROVE  PatientInv'
<1> DEFINE m == Head(inbox)
           p == m.from.proc
           r == m.resource
           new == New(r, p, <<>>)
<1>1. /\ Inv /\ TypeOK /\ UniqueInv /\ HeldInv /\ RequestInv /\ Acyclic(mutexes) /\ TellInv
      /\ CountInv
  BY DEF PatientInv, Inv
<1>2. server = "up" /\ inbox # <<>> /\ UNCHANGED <<server, pc, res, tag, held>>
  BY DEF HandleEnterFree, Receives
<1>3. /\ m \in Calls /\ m.type = "enter"
      /\ \A mx \in Range(mutexes) : mx.resource # r
      /\ mutexes' \in Seq(MutexTuples) /\ Uniq(mutexes')
      /\ Range(mutexes') = Range(mutexes) \cup {new}
      /\ Delivers(Tail(inbox), inbox')
      /\ reply' = Reply(reply, m.from, "ok")
  BY <1>1, EnterFreeEffect
<1>4. Inv'
  BY <1>1, EnterFreeKeeps
<1>5. new.resource = r /\ new.process = p /\ new.count = 1 /\ new.waiters = <<>>
  BY DEF New
<1>6. /\ \A q \in Clients : pc[q] # "dead" => reply'[q] = IF q = p THEN "ok" ELSE reply[q]
      /\ \A q \in Clients : pc[q] # "dead" /\ reply'[q] # reply[q] => res[q] = r
  BY <1>1, <1>2, <1>3, AnswerAbout DEF Replies
<1>7. pc[p] # "dead" => m.type = pc[p] /\ r = res[p]
  BY <1>1, <1>2, <1>3, LiveCaller
<1>8. p \in Clients /\ r \in Resources
  BY <1>3 DEF Calls, Froms
<1> HIDE DEF m, p, r, new
<1>9. \A q : \A nx \in Range(mutexes') : Inherits(q, nx, mutexes)
  BY <1>3, <1>5, SameInherits, EmptyInherits
<1>10. RequestInv'
  BY <1>1, <1>2, <1>3, <1>9, ServeAsks DEF m
<1>11. Acyclic(mutexes')
  <2>1. \A q : ~WaitsIn(q, new)
    BY <1>5, EmptyInherits
  <2>2. QED
    BY <1>1, <1>3, <2>1, FewerWait
<1>12. TellInv'
  BY <1>1, EnterFreeTells
<1>13. held[p][r] = 0
  <2>1. Covered(p, r) /\ Has(p, r) \in Nat /\ held[p][r] \in Nat /\ Granted(p, r) \in {0, 1}
    BY <1>1, <1>8, HasType DEF HeldInv
  <2>2. ~(Has(p, r) > 0)
    BY <1>3, <2>1 DEF Covered
  <2>3. QED
    BY <2>1, <2>2 DEF Has
<1>14. ASSUME NEW nx, nx = new
       PROVE  Counted(nx)'
  <2>1. nx.process = p /\ nx.resource = r /\ nx.count = 1
    BY <1>5, <1>14
  <2>2. ASSUME pc[nx.process] # "dead"
        PROVE  Pending(nx.process, nx.resource)' = 1 /\ held'[nx.process][nx.resource] = 0
    BY <1>2, <1>3, <1>6, <1>7, <1>8, <1>13, <2>1, <2>2 DEF Pending
  <2>3. QED
    BY <1>2, <2>1, <2>2 DEF Counted
<1>15. CountInv'
  <2>1. \A nx \in Range(mutexes') : nx.process \in Clients
    BY <1>3, OwnersType
  <2>2. \A nx \in Range(mutexes') : Counted(nx)' \/ (nx \in Range(mutexes) /\ nx.resource # r)
    BY <1>3, <1>14
  <2>3. QED
    BY <1>1, <1>2, <1>6, <2>1, <2>2, CountStep
<1>16. QED
  BY <1>2, <1>4, <1>10, <1>11, <1>12, <1>15 DEF PatientInv, Acyclic, WaitsIn

(* A call is answered and the mutexes keep their owners and queues. *)
LEMMA AnswerPatient ==
  ASSUME PatientInv, MaxTimeouts = 0, Inv', server' = "up", inbox # <<>>, inbox' = Tail(inbox),
         Head(inbox) \in Calls, UNCHANGED pc,
         \A nx \in Range(mutexes') : \E mx \in Range(mutexes) :
           mx.resource = nx.resource /\ mx.process = nx.process /\ mx.waiters = nx.waiters,
         \A mx \in Range(mutexes) : \E nx \in Range(mutexes') :
           mx.resource = nx.resource /\ mx.process = nx.process,
         CountInv'
  PROVE  PatientInv'
<1>1. TypeOK /\ UniqueInv /\ RequestInv /\ Acyclic(mutexes) /\ TellInv
  BY DEF PatientInv, Inv
<1>2. mutexes' \in Seq(MutexTuples) /\ Uniq(mutexes')
  BY DEF Inv, TypeOK, UniqueInv
<1>3. Delivers(Tail(inbox), inbox')
  BY <1>1, Received, ThinsSame DEF Delivers
<1>4. \A q : \A nx \in Range(mutexes') : Inherits(q, nx, mutexes)
  BY SameInherits
<1>5. RequestInv'
  BY <1>1, <1>2, <1>3, <1>4, ServeAsks
<1>6. ASSUME NEW q, NEW nx \in Range(mutexes'), WaitsIn(q, nx)
      PROVE  \E mx \in Range(mutexes) : WaitsIn(q, mx) /\ mx.process = nx.process
  BY <1>6 DEF WaitsIn
<1>7. Acyclic(mutexes')
  BY <1>1, <1>6, FewerWait
<1>8. TellInv'
  BY <1>1, OwnersTell
<1>9. QED
  BY <1>5, <1>7, <1>8 DEF PatientInv, Acyclic, WaitsIn

(* HandleEnterTaken *)
LEMMA EnterTakenPatient ==
  ASSUME PatientInv, MaxTimeouts = 0, HandleEnterTaken
  PROVE  PatientInv'
<1> DEFINE m == Head(inbox)
           p == m.from.proc
           r == m.resource
<1>1. /\ Inv /\ TypeOK /\ UniqueInv /\ RequestInv /\ Acyclic(mutexes) /\ TellInv
      /\ CountInv /\ mutexes \in Seq(MutexTuples)
  BY DEF PatientInv, Inv, TypeOK
<1>2. server = "up" /\ inbox # <<>> /\ UNCHANGED <<pc, res, tag, held>>
  BY DEF HandleEnterTaken, Receives
<1>3. /\ m \in Calls /\ m.type = "enter" /\ inbox' = Tail(inbox)
      /\ \/ server' = "up"
         \/ \E mx \in Range(mutexes) : Chase(p, mx) = "forever"
      /\ \/ mutexes' = mutexes /\ reply' = reply
         \/ mutexes' = mutexes /\ reply' = Reply(reply, m.from, "deadlock")
         \/ \E mx \in Range(mutexes) :
              /\ mx.resource = r /\ mx.process = p
              /\ Swapped(mx, Reenter(mx))
              /\ reply' = Reply(reply, m.from, "ok")
         \/ \E mx \in Range(mutexes) :
              /\ mx.resource = r
              /\ Chase(p, mx) = "wait"
              /\ Swapped(mx, Queue(mx, m.from))
              /\ reply' = reply
  BY <1>1, EnterTakenEffect
<1>4. Inv'
  BY <1>1, EnterTakenKeeps
<1>5. server' = "up"
  BY <1>1, <1>3, ChaseEnds
<1>6. ASSUME NEW v \in Replies, reply' = Reply(reply, m.from, v)
      PROVE  /\ \A q \in Clients : pc[q] # "dead" => reply'[q] = IF q = p THEN v ELSE reply[q]
             /\ \A q \in Clients : pc[q] # "dead" /\ reply'[q] # reply[q] => res[q] = r
  BY <1>1, <1>2, <1>3, <1>6, AnswerAbout
<1>7. pc[p] # "dead" => pc[p] = "enter" /\ r = res[p] /\ reply[p] = None
  BY <1>1, <1>2, <1>3, LiveCaller
<1>8. p \in Clients /\ r \in Resources /\ m.from \in Froms
  BY <1>3 DEF Calls, Froms
<1>9. None \notin {"ok", "deadlock"}
  BY GatekeeperAssumption
<1>10. \A nx \in Range(mutexes') : nx.process \in Clients
  BY <1>4, OwnersType DEF Inv, TypeOK
<1> HIDE DEF m, p, r
<1>11. CASE mutexes' = mutexes /\ reply' = reply
  <2>1. CountInv'
    BY <1>1, <1>2, <1>11 DEF CountInv, Counted, Pending
  <2>2. QED
    BY <1>2, <1>3, <1>4, <1>5, <1>11, <2>1, AnswerPatient DEF m
<1>12. CASE mutexes' = mutexes /\ reply' = Reply(reply, m.from, "deadlock")
  <2>1. ASSUME NEW mx \in Range(mutexes)
        PROVE  Counted(mx)'
    <3>1. mx.process \in Clients /\ Counted(mx)
      BY <1>1, OwnersType DEF CountInv
    <3>2. ASSUME pc[mx.process] # "dead"
          PROVE  Pending(mx.process, mx.resource)' = Pending(mx.process, mx.resource)
      BY <1>2, <1>6, <1>7, <1>9, <1>12, <3>1, <3>2 DEF Pending, Replies
    <3>3. QED
      BY <1>2, <3>1, <3>2 DEF Counted
  <2>2. CountInv'
    BY <1>12, <2>1 DEF CountInv
  <2>3. QED
    BY <1>2, <1>3, <1>4, <1>5, <1>12, <2>2, AnswerPatient DEF m
<1>13. ASSUME NEW mx \in Range(mutexes), mx.resource = r, mx.process = p,
              Swapped(mx, Reenter(mx)), reply' = Reply(reply, m.from, "ok")
       PROVE  PatientInv'
  <2> DEFINE new == Reenter(mx)
  <2>1. mx \in MutexTuples /\ mx.count \in Nat
    BY <1>1, CountsType
  <2>2. /\ new.resource = mx.resource /\ new.process = mx.process
        /\ new.count = mx.count + 1 /\ new.waiters = mx.waiters
    BY <2>1 DEF Reenter, MutexTuples
  <2>3. Range(mutexes') = (Range(mutexes) \ {mx}) \cup {new}
    BY <1>13 DEF Swapped
  <2> HIDE DEF new
  <2>4. ASSUME NEW nx, nx = new
        PROVE  Counted(nx)'
    <3>1. ASSUME pc[mx.process] # "dead"
          PROVE  /\ Pending(mx.process, mx.resource)' = 1
                 /\ Pending(mx.process, mx.resource) = 0
      BY <1>2, <1>6, <1>7, <1>8, <1>9, <1>13, <3>1 DEF Pending, Replies
    <3>2. held[mx.process][mx.resource] \in Nat
      BY <1>1, <1>8, <1>13, HasType
    <3>3. Counted(mx)
      BY <1>1 DEF CountInv
    <3>4. nx.process = mx.process /\ nx.resource = mx.resource /\ nx.count = mx.count + 1
      BY <2>2, <2>4
    <3>5. pc[mx.process] # "dead" => mx.count + 1 = held[mx.process][mx.resource] + 1
      BY <3>1, <3>2, <3>3 DEF Counted
    <3>6. QED
      BY <1>2, <3>1, <3>4, <3>5 DEF Counted
  <2>5. \A nx \in Range(mutexes') : Counted(nx)' \/ (nx \in Range(mutexes) /\ nx.resource # r)
    <3>1. \A nx \in Range(mutexes) : nx # mx => nx.resource # r
      BY <1>1, <1>13, OneMutex DEF UniqueInv
    <3>2. QED
      BY <2>3, <2>4, <3>1
  <2>6. CountInv'
    BY <1>1, <1>2, <1>6, <1>10, <1>13, <2>5, CountStep DEF Replies
  <2>7. /\ \A nx \in Range(mutexes') : \E ox \in Range(mutexes) :
             ox.resource = nx.resource /\ ox.process = nx.process /\ ox.waiters = nx.waiters
        /\ \A ox \in Range(mutexes) : \E nx \in Range(mutexes') :
             ox.resource = nx.resource /\ ox.process = nx.process
    BY <2>2, <2>3
  <2>8. QED
    BY <1>2, <1>3, <1>4, <1>5, <2>6, <2>7, AnswerPatient DEF m
<1>14. ASSUME NEW mx \in Range(mutexes), mx.resource = r, Chase(p, mx) = "wait",
              Swapped(mx, Queue(mx, m.from)), reply' = reply
       PROVE  PatientInv'
  <2> DEFINE new == Queue(mx, m.from)
  <2>1. mx \in MutexTuples /\ mx.count \in Nat
    BY <1>1, CountsType
  <2>2. new.resource = mx.resource /\ new.process = mx.process /\ new.count = mx.count
    BY <1>8, <2>1, QueueWaits
  <2>3. Range(mutexes') = (Range(mutexes) \ {mx}) \cup {new}
    BY <1>14 DEF Swapped
  <2>4. RequestInv'
    BY <1>1, <1>2, <1>3, <1>14, QueueAsks DEF m
  <2>5. \A ox \in Range(mutexes) : ~WaitsIn(m.from.proc, ox)
    BY <1>1, <1>2, <1>3, TakenAlone DEF m
  <2>6. Acyclic(mutexes')
    BY <1>1, <1>8, <1>14, <2>3, <2>5, QueueAcyclic DEF p
  <2> HIDE DEF new
  <2>7. TellInv'
    <3>1. /\ \A nx \in Range(mutexes') : \E ox \in Range(mutexes) :
               ox.resource = nx.resource /\ ox.process = nx.process
          /\ \A ox \in Range(mutexes) : \E nx \in Range(mutexes') :
               ox.resource = nx.resource /\ ox.process = nx.process
      BY <2>2, <2>3
    <3>2. QED
      BY <1>1, <1>2, <1>3, <3>1, OwnersTell DEF m
  <2>8. CountInv'
    <3>1. \A ox \in Range(mutexes) : Counted(ox)'
      BY <1>1, <1>2, <1>14 DEF CountInv, Counted, Pending
    <3>2. \A nx : nx = new => Counted(nx)'
      BY <2>2, <3>1 DEF Counted
    <3>3. QED
      BY <2>3, <3>1, <3>2 DEF CountInv
  <2>9. QED
    BY <1>4, <1>5, <2>4, <2>6, <2>7, <2>8 DEF PatientInv, Acyclic, WaitsIn
<1>15. QED
  BY <1>3, <1>11, <1>12, <1>13, <1>14

(* leave-mutex, for a leave or a DOWN: what the new owner is told is not     *)
(* lost on it, since it waits.                                               *)
LEMMA LeaveMutexPatient ==
  ASSUME PatientInv, MaxTimeouts = 0, Inv', inbox # <<>>, UNCHANGED <<server, pc, res, tag, held>>,
         NEW mx \in Range(mutexes), NEW rep \in [Clients -> Replies],
         LeaveMutex(mx, Tail(inbox), rep),
         \A p \in Clients : pc[p] # "dead" /\ rep[p] # reply[p] => res[p] = mx.resource,
         Head(inbox) \in Calls \/ Head(inbox) = DOWNof(mx)
  PROVE  PatientInv'
<1> DEFINE w == Head(mx.waiters).proc
           new == Passed(mx)
<1>1. /\ Inv /\ server = "up" /\ TypeOK /\ UniqueInv /\ HeldInv /\ RequestInv /\ Acyclic(mutexes)
      /\ TellInv /\ CountInv /\ mutexes \in Seq(MutexTuples) /\ inbox \in Seq(Msgs)
  BY DEF PatientInv, Inv, TypeOK
<1>2. Tail(inbox) \in Seq(Msgs)
  BY <1>1, Received
<1>3. /\ Delivers(Tail(inbox), inbox')
      /\ \/ mx.waiters = <<>> /\ Dropped(mx) /\ reply' = rep
         \/ /\ mx.waiters # <<>> /\ Swapped(mx, new)
            /\ reply' = Reply(rep, Head(mx.waiters), "ok")
  BY <1>1, <1>2, LeaveMutexEffect
<1>4. mx \in MutexTuples /\ mutexes' \in Seq(MutexTuples) /\ Uniq(mutexes')
  BY <1>1, <1>3, CountsType DEF Dropped, Swapped
<1>5. \A ox \in Range(mutexes) : ox # mx => ox.resource # mx.resource
  BY <1>1, OneMutex DEF UniqueInv
<1>6. TellInv'
  <2>1. /\ Once(Tail(inbox)) /\ Range(inbox) = Range(Tail(inbox)) \cup {Head(inbox)}
    BY <1>1, TailOnce DEF TellInv
  <2>2. Known(mutexes, Tail(inbox))
    BY <1>1, <2>1 DEF TellInv, Known
  <2>3. ASSUME NEW ox \in Range(mutexes) \ {mx}, pc[ox.process] = "dead"
        PROVE  DOWNof(ox) \in Range(Tail(inbox))
    <3>1. DOWNof(ox) \in Range(inbox)
      BY <1>1, <2>3 DEF TellInv, Told
    <3>2. DOWNof(ox) # DOWNof(mx)
      BY <1>5, DownFields
    <3>3. DOWNof(ox) \notin Calls
      BY DownFields DEF Calls
    <3>4. QED
      BY <2>1, <3>1, <3>2, <3>3
  <2>4. QED
    BY <1>1, <1>2, <2>1, <2>2, <2>3, LeaveMutexTells
<1>7. \A nx \in Range(mutexes') : nx.process \in Clients
  BY <1>4, OwnersType
<1>8. CASE mx.waiters = <<>> /\ Dropped(mx) /\ reply' = rep
  <2>1. Range(mutexes') = Range(mutexes) \ {mx}
    BY <1>8 DEF Dropped
  <2>2. RequestInv'
    <3>1. \A q : \A nx \in Range(mutexes') : Inherits(q, nx, mutexes)
      BY <2>1, SameInherits
    <3>2. QED
      BY <1>1, <1>3, <1>4, <3>1, ServeAsks
  <2>3. Acyclic(mutexes')
    BY <1>1, <2>1, FewerWait
  <2>4. CountInv'
    BY <1>1, <1>5, <1>7, <1>8, <2>1, CountStep
  <2>5. QED
    BY <1>1, <1>6, <2>2, <2>3, <2>4 DEF PatientInv, Acyclic, WaitsIn
<1>9. CASE /\ mx.waiters # <<>> /\ Swapped(mx, new)
           /\ reply' = Reply(rep, Head(mx.waiters), "ok")
  <2>1. Range(mutexes') = (Range(mutexes) \ {mx}) \cup {new}
    BY <1>9 DEF Swapped
  <2>2. /\ new.resource = mx.resource /\ new.process = w /\ new.count = 1
        /\ new.waiters = Tail(mx.waiters)
    BY DEF Passed, New
  <2>3. /\ w \in Clients
        /\ pc[w] # "dead" =>
             /\ Waiting(w) /\ Current(w, Head(mx.waiters))
             /\ pc[w] = "enter" /\ res[w] = mx.resource /\ reply[w] = None
    BY <1>1, <1>9, LiveWaiter
  <2>4. \A q : /\ WaitsIn(q, new) => WaitsIn(q, mx)
               /\ OnePlace(q, mx) => OnePlace(q, new)
               /\ WaitsIn(w, mx)
    BY <1>4, <1>9, <2>2, TailWaits
  <2>5. Acyclic(mutexes')
    BY <1>1, <1>9, <2>1, PassAcyclic
  <2>6. \A q \in Clients : reply'[q] =
          IF Waiting(q) /\ Current(q, Head(mx.waiters)) THEN "ok" ELSE rep[q]
    BY <1>9, ReplyTo DEF Replies
  <2> HIDE DEF new
  <2>7. RequestInv'
    <3>1. ASSUME NEW q, NEW nx \in Range(mutexes')
          PROVE  Inherits(q, nx, mutexes)
      <4>1. CASE nx = new
        BY <2>2, <2>4, <4>1 DEF Inherits
      <4>2. CASE nx \in Range(mutexes)
        BY <4>2, SameInherits
      <4>3. QED
        BY <2>1, <3>1, <4>1, <4>2
    <3>2. QED
      BY <1>1, <1>3, <1>4, <3>1, ServeAsks
  <2>8. \A q \in Clients : pc[q] # "dead" /\ reply'[q] # reply[q] => res[q] = mx.resource
    <3>1. \A q : Current(q, Head(mx.waiters)) => q = w
      BY DEF Current
    <3>2. QED
      BY <2>3, <2>6, <3>1
  <2> HIDE DEF w
  <2>9. held[w][mx.resource] = 0
    <3>0. mx.resource \in Resources
      BY <1>1, OwnersType
    <3>1. /\ Covered(w, mx.resource) /\ held[w][mx.resource] \in Nat
          /\ Granted(w, mx.resource) \in {0, 1}
      BY <1>1, <2>3, <3>0, HasType DEF HeldInv
    <3>2. mx.process # w
      <4>1. \E q \in {w} : \A ox \in Range(mutexes) : WaitsIn(q, ox) => ox.process \notin {w}
        BY <1>1, <2>3 DEF Acyclic
      <4>2. QED
        BY <2>4, <4>1
    <3>3. ~(Has(w, mx.resource) > 0)
      BY <1>5, <3>1, <3>2 DEF Covered
    <3>4. QED
      BY <3>1, <3>3 DEF Has
  <2>10. ASSUME NEW nx, nx = new
         PROVE  Counted(nx)'
    <3>1. nx.process = w /\ nx.resource = mx.resource /\ nx.count = 1
      BY <2>2, <2>10
    <3>2. ASSUME pc[nx.process] # "dead"
          PROVE  Pending(nx.process, nx.resource)' = 1 /\ held'[nx.process][nx.resource] = 0
      BY <2>3, <2>6, <2>9, <3>1, <3>2 DEF Pending
    <3>3. QED
      BY <3>1, <3>2 DEF Counted
  <2>11. CountInv'
    <3>1. \A nx \in Range(mutexes') :
            Counted(nx)' \/ (nx \in Range(mutexes) /\ nx.resource # mx.resource)
      BY <1>5, <2>1, <2>10
    <3>2. QED
      BY <1>1, <1>7, <2>8, <3>1, CountStep
  <2>12. QED
    BY <1>1, <1>6, <2>5, <2>7, <2>11 DEF PatientInv, Acyclic, WaitsIn
<1>10. QED
  BY <1>3, <1>8, <1>9

(* HandleLeave *)
LEMMA LeavePatient ==
  ASSUME PatientInv, MaxTimeouts = 0, HandleLeave
  PROVE  PatientInv'
<1> DEFINE m == Head(inbox)
           p == m.from.proc
           r == m.resource
<1>1. /\ Inv /\ TypeOK /\ UniqueInv /\ CountInv /\ mutexes \in Seq(MutexTuples)
  BY DEF PatientInv, Inv, TypeOK
<1>2. server = "up" /\ inbox # <<>> /\ UNCHANGED <<server, pc, res, tag, held>>
  BY DEF HandleLeave, Receives
<1>3. /\ m \in Calls /\ m.type = "leave"
      /\ \/ /\ mutexes' = mutexes /\ inbox' = Tail(inbox)
            /\ reply' = Reply(reply, m.from, "unowned")
            /\ \A mx \in Range(mutexes) : ~(mx.resource = r /\ mx.process = p)
         \/ \E mx \in Range(mutexes) :
              /\ mx.resource = r /\ mx.process = p
              /\ Swapped(mx, Lower(mx)) /\ inbox' = Tail(inbox)
              /\ reply' = Reply(reply, m.from, "ok")
         \/ \E mx \in Range(mutexes) :
              /\ mx.resource = r /\ mx.process = p
              /\ mx.count <= 1
              /\ LeaveMutex(mx, Tail(inbox), Reply(reply, m.from, "ok"))
  BY <1>1, LeaveEffect
<1>4. Inv'
  BY <1>1, LeaveKeeps
<1>5. ASSUME NEW v \in Replies, NEW rep, rep = Reply(reply, m.from, v)
      PROVE  /\ rep \in [Clients -> Replies]
             /\ \A q \in Clients : pc[q] # "dead" => rep[q] = IF q = p THEN v ELSE reply[q]
             /\ \A q \in Clients : pc[q] # "dead" /\ rep[q] # reply[q] => res[q] = r
  BY <1>1, <1>2, <1>3, <1>5, AnswerAbout
<1>6. pc[p] # "dead" => pc[p] = "leave" /\ r = res[p] /\ reply[p] = None
  BY <1>1, <1>2, <1>3, LiveCaller
<1>7. p \in Clients /\ r \in Resources
  BY <1>3 DEF Calls, Froms
<1>8. None \notin {"ok", "unowned"} /\ "ok" \in Replies /\ "unowned" \in Replies
  BY GatekeeperAssumption DEF Replies
<1>9. \A nx \in Range(mutexes') : nx.process \in Clients
  BY <1>4, OwnersType DEF Inv, TypeOK
<1> HIDE DEF m, p, r
<1>10. CASE /\ mutexes' = mutexes /\ inbox' = Tail(inbox)
            /\ reply' = Reply(reply, m.from, "unowned")
            /\ \A mx \in Range(mutexes) : ~(mx.resource = r /\ mx.process = p)
  <2>1. ASSUME NEW mx \in Range(mutexes)
        PROVE  Counted(mx)'
    <3>1. mx.process \in Clients /\ Counted(mx) /\ ~(mx.resource = r /\ mx.process = p)
      BY <1>1, <1>10, OwnersType DEF CountInv
    <3>2. ASSUME pc[mx.process] # "dead"
          PROVE  Pending(mx.process, mx.resource)' = Pending(mx.process, mx.resource)
      <4>1. /\ reply'[mx.process] = IF mx.process = p THEN "unowned" ELSE reply[mx.process]
        BY <1>5, <1>8, <1>10, <3>1, <3>2
      <4>2. QED
        BY <1>2, <1>6, <3>1, <3>2, <4>1 DEF Pending
    <3>3. QED
      BY <1>2, <3>1, <3>2 DEF Counted
  <2>2. CountInv'
    BY <1>10, <2>1 DEF CountInv
  <2>3. QED
    BY <1>2, <1>3, <1>4, <1>10, <2>2, AnswerPatient DEF m
<1>11. ASSUME NEW mx \in Range(mutexes), mx.resource = r, mx.process = p,
              Swapped(mx, Lower(mx)), inbox' = Tail(inbox), reply' = Reply(reply, m.from, "ok")
       PROVE  PatientInv'
  <2> DEFINE new == Lower(mx)
  <2>1. mx \in MutexTuples /\ mx.count \in Nat
    BY <1>1, CountsType
  <2>2. /\ new.resource = mx.resource /\ new.process = mx.process
        /\ new.count = mx.count - 1 /\ new.waiters = mx.waiters
    BY <2>1 DEF Lower, MutexTuples
  <2>3. Range(mutexes') = (Range(mutexes) \ {mx}) \cup {new}
    BY <1>11 DEF Swapped
  <2> HIDE DEF new
  <2>4. ASSUME NEW nx, nx = new
        PROVE  Counted(nx)'
    <3>1. ASSUME pc[mx.process] # "dead"
          PROVE  /\ Pending(mx.process, mx.resource)' = 0
                 /\ Pending(mx.process, mx.resource) = 1
      <4>1. reply'[p] = "ok"
        BY <1>5, <1>7, <1>8, <1>11, <3>1
      <4>2. QED
        BY <1>2, <1>6, <1>8, <1>11, <3>1, <4>1 DEF Pending
    <3>2. held[mx.process][mx.resource] \in Nat
      BY <1>1, <1>7, <1>11, HasType
    <3>3. Counted(mx)
      BY <1>1 DEF CountInv
    <3>4. nx.process = mx.process /\ nx.resource = mx.resource /\ nx.count = mx.count - 1
      BY <2>2, <2>4
    <3>5. pc[mx.process] # "dead" => mx.count - 1 = held[mx.process][mx.resource] + 0
      BY <3>1, <3>2, <3>3 DEF Counted
    <3>6. QED
      BY <1>2, <3>1, <3>4, <3>5 DEF Counted
  <2>5. \A nx \in Range(mutexes') : Counted(nx)' \/ (nx \in Range(mutexes) /\ nx.resource # r)
    <3>1. \A nx \in Range(mutexes) : nx # mx => nx.resource # r
      BY <1>1, <1>11, OneMutex DEF UniqueInv
    <3>2. QED
      BY <2>3, <2>4, <3>1
  <2>6. CountInv'
    <3>1. \A q \in Clients : pc[q] # "dead" /\ reply'[q] # reply[q] => res[q] = r
      BY <1>5, <1>8, <1>11
    <3>2. QED
      BY <1>1, <1>2, <1>9, <2>5, <3>1, CountStep
  <2>7. /\ \A nx \in Range(mutexes') : \E ox \in Range(mutexes) :
             ox.resource = nx.resource /\ ox.process = nx.process /\ ox.waiters = nx.waiters
        /\ \A ox \in Range(mutexes) : \E nx \in Range(mutexes') :
             ox.resource = nx.resource /\ ox.process = nx.process
    BY <2>2, <2>3
  <2>8. QED
    BY <1>2, <1>3, <1>4, <1>11, <2>6, <2>7, AnswerPatient DEF m
<1>12. ASSUME NEW mx \in Range(mutexes), mx.resource = r,
              LeaveMutex(mx, Tail(inbox), Reply(reply, m.from, "ok"))
       PROVE  PatientInv'
  <2> DEFINE rep == Reply(reply, m.from, "ok")
  <2>1. /\ rep \in [Clients -> Replies]
        /\ \A q \in Clients : pc[q] # "dead" /\ rep[q] # reply[q] => res[q] = mx.resource
    BY <1>5, <1>8, <1>12
  <2>2. LeaveMutex(mx, Tail(inbox), rep)
    BY <1>12
  <2> HIDE DEF rep
  <2>3. QED
    BY <1>2, <1>3, <1>4, <2>1, <2>2, LeaveMutexPatient DEF m
<1>13. QED
  BY <1>3, <1>10, <1>11, <1>12

(* HandleDown: the mutex is there. *)
LEMMA DownPatient ==
  ASSUME PatientInv, MaxTimeouts = 0, HandleDown
  PROVE  PatientInv'
<1>1. Inv /\ TypeOK /\ UniqueInv /\ TellInv
  BY DEF PatientInv, Inv
<1>2. inbox # <<>> /\ UNCHANGED <<pc, res, tag, held>>
  BY DEF HandleDown, Receives
<1>3. /\ Head(inbox) \in Downs /\ Head(inbox) \in Range(inbox)
      /\ \/ \A mx \in Range(mutexes) : DOWNof(mx) # Head(inbox)
         \/ /\ server' = server
            /\ \E mx \in Range(mutexes) :
                 DOWNof(mx) = Head(inbox) /\ LeaveMutex(mx, Tail(inbox), reply)
  BY <1>1, DownEffect
<1>4. ~IsCall(Head(inbox))
  BY <1>3 DEF Downs, IsCall
<1>5. \E mx \in Range(mutexes) : DOWNof(mx) = Head(inbox)
  BY <1>1, <1>3, <1>4 DEF TellInv, Known
<1>6. PICK mx \in Range(mutexes) : DOWNof(mx) = Head(inbox) /\ LeaveMutex(mx, Tail(inbox), reply)
  BY <1>3, <1>5
<1>7. server' = server
  BY <1>3, <1>5
<1>8. Inv' /\ reply \in [Clients -> Replies]
  BY <1>1, DownKeeps DEF TypeOK, Replies
<1>9. QED
  BY <1>2, <1>6, <1>7, <1>8, LeaveMutexPatient

-----------------------------------------------------------------------------
(* The steps of the clients *)

(* A process that runs has no request. *)
LEMMA RunsAlone ==
  ASSUME Inv, server = "up", MaxTimeouts = 0, NEW p \in Clients, pc[p] = "run"
  PROVE  Silent(p, inbox) /\ \A mx \in Range(mutexes) : ~WaitsIn(p, mx)
<1>1. TypeOK /\ Ordered(p) /\ inbox \in Seq(Msgs) /\ mutexes \in Seq(MutexTuples)
  BY DEF Inv, OrderInv, TypeOK
<1>2. tag[p] = 0 /\ \A f \in Froms : f.tag = 0
  BY <1>1, ZeroTags
<1>3. ASSUME NEW i \in 1..Len(inbox), CallOf(p, inbox[i])
      PROVE  FALSE
  <2> DEFINE x == inbox[i]
  <2>1. x \in Msgs /\ CallOf(p, x) /\ x.from.tag # tag[p]
    BY <1>1, <1>3 DEF Ordered, Sent
  <2> HIDE DEF x
  <2>2. x.from \in Froms
    BY <2>1 DEF Msgs, CallOf, IsCall
  <2>3. QED
    BY <1>2, <2>1, <2>2
<1>4. ASSUME NEW mx \in Range(mutexes), NEW j \in 1..Len(mx.waiters), mx.waiters[j].proc = p
      PROVE  FALSE
  <2>1. mx.waiters \in Seq(Froms)
    BY <1>1, CountsType
  <2>2. mx.waiters[j] \in Froms
    BY <1>4, <2>1
  <2>3. mx.waiters[j].tag # tag[p]
    BY <1>1, <1>4 DEF Ordered, Queued
  <2>4. QED
    BY <1>2, <2>2, <2>3
<1>5. QED
  BY <1>3, <1>4 DEF Silent, WaitsIn

(* A call is sent: the one request of its process. *)
LEMMA CallAsks ==
  ASSUME TypeOK, RequestInv, NEW p \in Clients, Silent(p, inbox),
         \A mx \in Range(mutexes) : ~WaitsIn(p, mx), UNCHANGED mutexes,
         NEW x \in Msgs, CallOf(p, x), inbox' = Append(inbox, x)
  PROVE  RequestInv'
<1>1. inbox \in Seq(Msgs)
  BY DEF TypeOK
<1>2. /\ Len(inbox) \in Nat /\ Len(inbox') = Len(inbox) + 1 /\ inbox'[Len(inbox) + 1] = x
      /\ \A i \in 1..Len(inbox) : inbox'[i] = inbox[i]
  BY <1>1
<1>3. \A i \in 1..Len(inbox') : i = Len(inbox) + 1 \/ i \in 1..Len(inbox)
  BY <1>2
<1>4. ASSUME NEW q \in Clients
      PROVE  Asks(q, mutexes', inbox')
  <2>1. Asks(q, mutexes, inbox)
    BY DEF RequestInv
  <2>2. CASE q = p
    <3>1. OneCall(p, inbox')
      BY <1>2, <1>3 DEF OneCall, Silent
    <3>2. QED
      BY <2>2, <3>1 DEF Asks
  <2>3. CASE q # p
    <3>1. \A i \in 1..Len(inbox') : CallOf(q, inbox'[i]) => i \in 1..Len(inbox) /\ CallOf(q, inbox[i])
      BY <1>2, <1>3, <2>3 DEF CallOf
    <3>2. OneCall(q, inbox')
      BY <2>1, <3>1 DEF Asks, OneCall
    <3>3. Silent(q, inbox) => Silent(q, inbox')
      BY <3>1 DEF Silent
    <3>4. QED
      BY <2>1, <3>2, <3>3 DEF Asks
  <2>4. QED
    BY <2>2, <2>3
<1>5. QED
  BY <1>4 DEF RequestInv, Asks, OneCall, Silent, CallOf, WaitsIn, OnePlace

(* enter and leave: a leave is no longer held by its caller before the       *)
(* server knows.                                                             *)
LEMMA CallPatient ==
  ASSUME PatientInv, MaxTimeouts = 0, NEW p \in Clients, NEW r \in Resources,
         enter(p, r) \/ leave(p, r)
  PROVE  PatientInv'
<1>1. /\ Inv /\ server = "up" /\ TypeOK /\ ClientInv /\ RequestInv /\ Acyclic(mutexes)
      /\ TellInv /\ CountInv /\ mutexes \in Seq(MutexTuples) /\ inbox \in Seq(Msgs)
  BY DEF PatientInv, Inv, TypeOK
<1>2. PICK op \in {"enter", "leave"} :
        /\ Call(op, p, r)
        /\ op = "enter" => held' = held
        /\ op = "leave" => held' = [held EXCEPT ![p][r] = IF @ > 0 THEN @ - 1 ELSE 0]
  BY Zenon DEF enter, leave
<1> DEFINE x == CallMsg(op, p, r)
<1>3. /\ pc[p] = "run" /\ pc' = [pc EXCEPT ![p] = op] /\ res' = [res EXCEPT ![p] = r]
      /\ inbox' = Append(inbox, x) /\ UNCHANGED <<server, mutexes, tag, reply>>
  BY <1>2 DEF Call
<1>4. x \in Msgs /\ CallOf(p, x) /\ IsCall(x)
  <2>1. From(p) \in Froms /\ From(p).proc = p
    BY <1>1 DEF From, Froms, TypeOK
  <2>2. QED
    BY <2>1 DEF CallMsg, Msgs, CallOf, IsCall
<1> HIDE DEF x
<1>5. Inv'
  BY <1>1, CallKeeps
<1>6. Silent(p, inbox) /\ \A mx \in Range(mutexes) : ~WaitsIn(p, mx)
  BY <1>1, <1>3, RunsAlone
<1>7. RequestInv'
  BY <1>1, <1>3, <1>4, <1>6, CallAsks
<1>8. pc \in [Clients -> {"run", "enter", "leave", "dead"}] /\ res \in [Clients -> Resources \cup {None}]
  BY <1>1 DEF TypeOK
<1>9. /\ pc'[p] = op /\ res'[p] = r
      /\ \A q \in Clients : q # p => pc'[q] = pc[q] /\ res'[q] = res[q]
  BY <1>3, <1>8
<1>10. TellInv'
  <2>1. Once(inbox') /\ Range(inbox') = Range(inbox) \cup {x}
    BY <1>1, <1>3, <1>4, AppendOnce DEF TellInv
  <2>2. Known(mutexes, inbox')
    BY <1>1, <1>4, <2>1 DEF TellInv, Known
  <2>3. ASSUME NEW mx \in Range(mutexes), pc'[mx.process] = "dead"
        PROVE  DOWNof(mx) \in Range(inbox')
    <3>1. mx.process \in Clients
      BY <1>1, OwnersType
    <3>2. pc[mx.process] = "dead"
      BY <1>2, <1>9, <2>3, <3>1
    <3>3. QED
      BY <1>1, <2>1, <3>2 DEF TellInv, Told
  <2>4. QED
    BY <1>3, <2>1, <2>2, <2>3 DEF TellInv, Once, Known, Told, IsCall, DOWNof, DOWNmsg
<1>11. ASSUME NEW mx \in Range(mutexes)
       PROVE  Counted(mx)'
  <2> DEFINE q == mx.process
             s == mx.resource
  <2>1. q \in Clients /\ s \in Resources /\ Counted(mx) /\ mx.count \in Nat \ {0}
    <3>1. mx \in MutexTuples
      BY <1>1, CountsType
    <3>2. QED
      BY <1>1, <3>1, OwnersType DEF CountInv, MutexTuples
  <2>2. held \in [Clients -> [Resources -> 0..MaxDepth]] /\ MaxDepth \in Nat
    BY <1>1, GatekeeperAssumption DEF TypeOK
  <2>3. CASE q # p
    <3>1. held'[q] = held[q]
      BY <1>2, <2>1, <2>2, <2>3
    <3>2. Pending(q, s)' = Pending(q, s)
      BY <1>3, <1>9, <2>1, <2>3 DEF Pending
    <3>3. pc'[q] = pc[q]
      BY <1>9, <2>1, <2>3
    <3>4. QED
      BY <2>1, <3>1, <3>2, <3>3 DEF Counted
  <2>4. CASE q = p
    <3>1. Client(p) /\ reply[p] = None
      BY <1>1, <1>3 DEF ClientInv, Client, Waiting
    <3>2. Pending(q, s) = 0
      BY <1>3, <2>4 DEF Pending
    <3>3. mx.count = held[q][s] /\ held[q][s] \in Nat
      BY <1>3, <2>1, <2>2, <2>4, <3>2 DEF Counted
    <3>4. CASE op = "enter"
      <4>1. "ok" # None
        BY GatekeeperAssumption
      <4>2. Pending(q, s)' = 0
        BY <1>3, <1>9, <2>4, <3>1, <3>4, <4>1 DEF Pending
      <4>3. QED
        BY <1>2, <3>3, <3>4, <4>2 DEF Counted
    <3>5. CASE op = "leave" /\ s = r
      <4>1. Pending(q, s)' = 1
        BY <1>3, <1>9, <2>4, <3>1, <3>5 DEF Pending
      <4>2. held'[q][s] = held[q][s] - 1
        BY <1>2, <2>1, <2>2, <2>4, <3>3, <3>5
      <4>3. QED
        BY <3>3, <4>1, <4>2 DEF Counted
    <3>6. CASE op = "leave" /\ s # r
      <4>1. Pending(q, s)' = 0
        BY <1>9, <2>4, <3>6 DEF Pending
      <4>2. held'[q][s] = held[q][s]
        BY <1>2, <2>1, <2>2, <2>4, <3>6
      <4>3. QED
        BY <3>3, <4>1, <4>2 DEF Counted
    <3>7. QED
      BY <3>4, <3>5, <3>6
  <2>5. QED
    BY <2>3, <2>4
<1>12. CountInv'
  BY <1>3, <1>11 DEF CountInv
<1>13. QED
  BY <1>1, <1>3, <1>5, <1>7, <1>10, <1>12 DEF PatientInv, Acyclic, WaitsIn

(* The server's side does not change. *)
LEMMA ServerStays ==
  ASSUME PatientInv, UNCHANGED <<server, mutexes, inbox>>, Inv', CountInv',
         \A p \in Clients : pc'[p] = "dead" => pc[p] = "dead"
  PROVE  PatientInv'
<1>1. \A mx \in Range(mutexes) : mx.process \in Clients
  BY OwnersType DEF PatientInv, Inv, TypeOK
<1>2. RequestInv'
  BY DEF PatientInv, RequestInv, Asks, OneCall, Silent, CallOf, WaitsIn, OnePlace
<1>3. TellInv'
  BY <1>1 DEF PatientInv, TellInv, Once, Known, Told, IsCall, DOWNof, DOWNmsg
<1>4. QED
  BY <1>2, <1>3 DEF PatientInv, Acyclic, WaitsIn

(* Return *)
LEMMA ReturnPatient ==
  ASSUME PatientInv, MaxTimeouts = 0, NEW p \in Clients, Return(p)
  PROVE  PatientInv'
<1>1. /\ Inv /\ server = "up" /\ TypeOK /\ ClientInv /\ CountInv
      /\ mutexes \in Seq(MutexTuples)
  BY DEF PatientInv, Inv, TypeOK
<1>2. Inv'
  BY <1>1, ReturnKeeps
<1>3. /\ Waiting(p) /\ reply[p] # None
      /\ held' = IF pc[p] = "enter" /\ reply[p] = "ok"
                 THEN [held EXCEPT ![p][res[p]] = @ + 1]
                 ELSE held
      /\ pc' = [pc EXCEPT ![p] = "run"]
      /\ res' = [res EXCEPT ![p] = None]
      /\ reply' = [reply EXCEPT ![p] = None]
      /\ UNCHANGED <<server, mutexes, inbox, tag>>
  BY <1>1 DEF Return
<1>4. /\ pc \in [Clients -> {"run", "enter", "leave", "dead"}]
      /\ res \in [Clients -> Resources \cup {None}]
      /\ reply \in [Clients -> {None, "ok", "deadlock", "unowned"}]
      /\ held \in [Clients -> [Resources -> 0..MaxDepth]] /\ MaxDepth \in Nat
  BY <1>1, GatekeeperAssumption DEF TypeOK
<1>5. /\ pc'[p] = "run"
      /\ \A q \in Clients : q # p => pc'[q] = pc[q] /\ res'[q] = res[q] /\ reply'[q] = reply[q]
                                     /\ held'[q] = held[q]
  BY <1>3, <1>4
<1>6. ASSUME NEW mx \in Range(mutexes)
      PROVE  Counted(mx)'
  <2> DEFINE q == mx.process
             s == mx.resource
  <2>1. q \in Clients /\ s \in Resources /\ Counted(mx)
    BY <1>1, OwnersType DEF CountInv
  <2>2. CASE q # p
    <3>1. Pending(q, s)' = Pending(q, s)
      BY <1>5, <2>1, <2>2 DEF Pending
    <3>2. QED
      BY <1>5, <2>1, <2>2, <3>1 DEF Counted
  <2>3. CASE q = p
    <3>1. Pending(q, s)' = 0
      BY <1>5, <2>3 DEF Pending
    <3>2. held[q][s] \in Nat
      BY <1>4, <2>1
    <3>3. mx.count = held[q][s] + Pending(q, s)
      BY <1>3, <2>1, <2>3 DEF Counted, Waiting
    <3>4. res[p] \in Resources
      BY <1>1, <1>3 DEF ClientInv, Client
    <3>5. held'[q][s] = held[q][s] + Pending(q, s)
      <4>1. CASE pc[p] = "enter" /\ reply[p] = "ok" /\ res[p] = s
        BY <1>3, <1>4, <2>1, <2>3, <3>2, <4>1 DEF Pending
      <4>2. CASE pc[p] = "enter" /\ reply[p] = "ok" /\ res[p] # s
        BY <1>3, <1>4, <2>1, <2>3, <3>2, <3>4, <4>2 DEF Pending
      <4>3. CASE ~(pc[p] = "enter" /\ reply[p] = "ok")
        BY <1>3, <2>3, <3>2, <4>3 DEF Pending
      <4>4. QED
        BY <4>1, <4>2, <4>3
    <3>6. held'[q][s] \in Nat
      BY <3>2, <3>5 DEF Pending
    <3>7. QED
      BY <3>1, <3>3, <3>5, <3>6 DEF Counted
  <2>4. QED
    BY <2>2, <2>3
<1>7. CountInv'
  BY <1>3, <1>6 DEF CountInv
<1>8. \A q \in Clients : pc'[q] = "dead" => pc[q] = "dead"
  BY <1>5
<1>9. QED
  BY <1>2, <1>3, <1>7, <1>8, ServerStays

(* A process that dies is DOWN once for each mutex it owns. *)
LEMMA DieDowns ==
  ASSUME TypeOK, server = "up", NEW p \in Clients, Die(p)
  PROVE  \E d \in Seq(Msgs) :
           /\ inbox' = inbox \o d
           /\ \A i, j \in 1..Len(d) : d[i] = d[j] => i = j
           /\ Range(d) = {DOWNof(mx) : mx \in {nx \in Range(mutexes) : nx.process = p}}
<1> DEFINE owned == {i \in 1..Len(mutexes) : mutexes[i].process = p}
           S == {DOWNof(mutexes[i]) : i \in owned}
<1>1. PICK d \in SetToSeqs(S) : inbox' = inbox \o d
  BY DEF Die
<1>2. mutexes \in Seq(MutexTuples)
  BY DEF TypeOK
<1>3. S = {DOWNof(mx) : mx \in {nx \in Range(mutexes) : nx.process = p}}
  <2>1. DOMAIN mutexes = 1..Len(mutexes)
    BY <1>2
  <2>2. QED
    BY <2>1 DEF Range
<1>4. S \subseteq Msgs
  <2>1. ASSUME NEW i \in owned
        PROVE  DOWNof(mutexes[i]) \in Msgs
    <3>1. mutexes[i] \in MutexTuples /\ mutexes[i].process = p
      BY <1>2, <2>1
    <3>2. mutexes[i].resource \in Resources
      BY <3>1 DEF MutexTuples
    <3>3. QED
      BY <3>1, <3>2 DEF DOWNof, DOWNmsg, Msgs
  <2>2. QED
    BY <2>1
<1>5. IsFiniteSet(S)
  <2>1. IsFiniteSet(1..Len(mutexes)) /\ owned \in SUBSET (1..Len(mutexes))
    BY <1>2, FS_Interval
  <2>2. IsFiniteSet(owned)
    BY <2>1, FS_Subset
  <2> DEFINE f == [i \in owned |-> DOWNof(mutexes[i])]
  <2>3. f \in Surjection(owned, S)
    BY DEF Surjection
  <2>4. QED
    BY <2>2, <2>3, FS_Surjection
<1> HIDE DEF S, owned
<1> DEFINE n == Cardinality(S)
<1>6. n \in Nat
  BY <1>5, FS_CardinalityType
<1>7. d \in [1..n -> S] /\ \A i, j \in 1..n : i # j => d[i] # d[j]
  BY DEF SetToSeqs
<1> HIDE DEF n
<1>8. d \in Seq(Msgs) /\ Len(d) = n /\ DOMAIN d = 1..n
  <2>1. d \in Seq(S) /\ Len(d) = n /\ DOMAIN d = 1..n
    BY <1>6, <1>7
  <2>2. QED
    BY <1>4, <1>6, <1>7, <2>1
<1>9. d \in Surjection(1..n, S)
  <2>1. d \in Injection(1..n, S)
    BY <1>7 DEF Injection, IsInjective
  <2>2. Cardinality(1..n) = n
    BY <1>6, FS_Interval
  <2>3. QED
    BY <1>5, <2>1, <2>2, FS_Injection DEF n
<1>10. Range(d) = S
  <2>1. \A y \in S : \E i \in 1..n : d[i] = y
    BY <1>9 DEF Surjection
  <2>2. QED
    BY <1>7, <1>8, <2>1 DEF Range
<1>11. QED
  BY <1>1, <1>3, <1>7, <1>8, <1>10

(* The mutexes of a process that dies are told of. *)
LEMMA DieTells ==
  ASSUME TypeOK, DownInv, TellInv, server = "up", NEW p \in Clients, Die(p)
  PROVE  TellInv'
<1>1. PICK d \in Seq(Msgs) :
        /\ inbox' = inbox \o d
        /\ \A i, j \in 1..Len(d) : d[i] = d[j] => i = j
        /\ Range(d) = {DOWNof(mx) : mx \in {nx \in Range(mutexes) : nx.process = p}}
  BY DieDowns
<1>2. /\ pc[p] # "dead" /\ pc' = [pc EXCEPT ![p] = "dead"] /\ UNCHANGED mutexes
      /\ pc \in [Clients -> {"run", "enter", "leave", "dead"}]
      /\ mutexes \in Seq(MutexTuples) /\ inbox \in Seq(Msgs)
  BY DEF Die, TypeOK
<1>3. \A m \in Range(d) : m.type = "DOWN" /\ m.process = p /\ ~IsCall(m)
                          /\ \E mx \in Range(mutexes) : DOWNof(mx) = m
  BY <1>1, DownFields
<1>4. \A i \in 1..Len(d) : d[i] \in Range(d)
  BY DEF Range
<1> DEFINE s == inbox
           t == s \o d
<1>5. /\ t \in Seq(Msgs) /\ Len(t) = Len(s) + Len(d) /\ Len(s) \in Nat /\ Len(d) \in Nat
      /\ \A i \in 1..Len(t) : t[i] = IF i <= Len(s) THEN s[i] ELSE d[i - Len(s)]
      /\ Range(t) = Range(s) \cup Range(d)
  BY <1>2, ConcatProperties, RangeConcatenation
<1>6. inbox' = t /\ inbox = s
  BY <1>1
<1>7. \A i \in 1..Len(s) : s[i] \in Range(s)
  BY <1>2 DEF Range
<1> HIDE DEF t
<1>8. Range(s) \cap Range(d) = {}
  BY <1>2, <1>3 DEF DownInv
<1>9. \A i \in 1..Len(t) : \/ i \in 1..Len(s) /\ t[i] = s[i]
                           \/ i - Len(s) \in 1..Len(d) /\ t[i] = d[i - Len(s)]
  BY <1>5
<1>10. Once(s)
  BY DEF TellInv
<1> HIDE DEF s
<1>11. Once(t)
  <2>1. SUFFICES ASSUME NEW i \in 1..Len(t), NEW j \in 1..Len(t), ~IsCall(t[i]), t[i] = t[j]
                 PROVE  i = j
    BY DEF Once
  <2>2. CASE i \in 1..Len(s) /\ t[i] = s[i]
    <3>1. CASE j \in 1..Len(s) /\ t[j] = s[j]
      BY <1>10, <2>1, <2>2, <3>1 DEF Once
    <3>2. CASE j - Len(s) \in 1..Len(d) /\ t[j] = d[j - Len(s)]
      BY <1>4, <1>7, <1>8, <2>1, <2>2, <3>2
    <3>3. QED
      BY <1>9, <3>1, <3>2
  <2>3. CASE i - Len(s) \in 1..Len(d) /\ t[i] = d[i - Len(s)]
    <3>1. CASE j \in 1..Len(s) /\ t[j] = s[j]
      BY <1>4, <1>7, <1>8, <2>1, <2>3, <3>1
    <3>2. CASE j - Len(s) \in 1..Len(d) /\ t[j] = d[j - Len(s)]
      <4>1. i - Len(s) = j - Len(s)
        BY <1>1, <2>1, <2>3, <3>2
      <4>2. i \in Int /\ j \in Int
        BY <1>5
      <4>3. QED
        BY <1>5, <4>1, <4>2
    <3>3. QED
      BY <1>9, <3>1, <3>2
  <2>4. QED
    BY <1>9, <2>2, <2>3
<1>12. \A m \in Range(t) : ~IsCall(m) => \E mx \in Range(mutexes) : DOWNof(mx) = m
  BY <1>3, <1>5, <1>6 DEF TellInv, Known
<1>13. ASSUME NEW mx \in Range(mutexes), pc'[mx.process] = "dead"
       PROVE  DOWNof(mx) \in Range(t)
  <2>1. CASE mx.process = p
    BY <1>1, <1>5, <2>1
  <2>2. CASE mx.process # p
    <3>1. mx.process \in Clients
      BY <1>2, OwnersType
    <3>2. pc[mx.process] = "dead"
      BY <1>2, <1>13, <2>2, <3>1
    <3>3. QED
      BY <1>5, <1>6, <3>2 DEF TellInv, Told
  <2>3. QED
    BY <2>1, <2>2
<1>14. QED
  BY <1>2, <1>6, <1>11, <1>12, <1>13 DEF TellInv, Once, Known, Told, IsCall, DOWNof, DOWNmsg

(* Die *)
LEMMA DiePatient ==
  ASSUME PatientInv, MaxTimeouts = 0, NEW p \in Clients, Die(p)
  PROVE  PatientInv'
<1>1. /\ Inv /\ server = "up" /\ TypeOK /\ DownInv /\ UniqueInv /\ RequestInv /\ TellInv /\ CountInv
      /\ mutexes \in Seq(MutexTuples) /\ inbox \in Seq(Msgs)
  BY DEF PatientInv, Inv, TypeOK
<1>2. Inv'
  BY <1>1, DieKeeps
<1>3. /\ pc' = [pc EXCEPT ![p] = "dead"] /\ res' = [res EXCEPT ![p] = None]
      /\ reply' = [reply EXCEPT ![p] = None]
      /\ held' = [held EXCEPT ![p] = [r \in Resources |-> 0]]
      /\ UNCHANGED <<server, mutexes, tag>>
  BY DEF Die
<1>4. inbox' \in Seq(Msgs) /\ Thins(inbox, inbox')
  BY <1>1, DieEffect
<1>5. TellInv'
  BY <1>1, DieTells
<1>6. RequestInv'
  <2>1. ASSUME NEW q \in Clients
        PROVE  Asks(q, mutexes', inbox')
    <3>1. Asks(q, mutexes, inbox)
      BY <1>1 DEF RequestInv
    <3>2. \A nx \in Range(mutexes) : Inherits(q, nx, mutexes)
      BY SameInherits
    <3>3. QED
      BY <1>1, <1>3, <1>4, <3>1, <3>2, AsksKeep DEF UniqueInv
  <2>2. QED
    BY <2>1 DEF RequestInv, Asks, OneCall, Silent, CallOf, WaitsIn, OnePlace
<1>7. ASSUME NEW mx \in Range(mutexes)
      PROVE  Counted(mx)'
  <2>1. mx.process \in Clients /\ Counted(mx)
    BY <1>1, OwnersType DEF CountInv
  <2>2. /\ pc \in [Clients -> {"run", "enter", "leave", "dead"}]
        /\ res \in [Clients -> Resources \cup {None}]
        /\ reply \in [Clients -> {None, "ok", "deadlock", "unowned"}]
        /\ held \in [Clients -> [Resources -> 0..MaxDepth]]
    BY <1>1 DEF TypeOK
  <2>3. CASE mx.process = p
    BY <1>3, <2>2, <2>3 DEF Counted
  <2>4. CASE mx.process # p
    <3>1. /\ pc'[mx.process] = pc[mx.process] /\ res'[mx.process] = res[mx.process]
          /\ reply'[mx.process] = reply[mx.process] /\ held'[mx.process] = held[mx.process]
      BY <1>3, <2>1, <2>2, <2>4
    <3>2. QED
      BY <2>1, <3>1 DEF Counted, Pending
  <2>5. QED
    BY <2>3, <2>4
<1>8. CountInv'
  BY <1>3, <1>7 DEF CountInv
<1>9. QED
  BY <1>2, <1>3, <1>5, <1>6, <1>8 DEF PatientInv, Acyclic, WaitsIn

-----------------------------------------------------------------------------
(* Nothing is left locked, and nobody waits in a cycle *)

(* The initial state *)
LEMMA InitPatient == Init => PatientInv
<1> SUFFICES ASSUME Init
             PROVE  PatientInv
  OBVIOUS
<1>1. Inv /\ server = "up"
  BY InitInv DEF Init
<1>2. Range(mutexes) = {} /\ Range(inbox) = {} /\ Len(inbox) = 0
  BY DEF Init, Range
<1>3. RequestInv /\ Acyclic(mutexes) /\ TellInv /\ CountInv
  BY <1>2 DEF RequestInv, Asks, OneCall, Acyclic, TellInv, Once, Known, Told, CountInv
<1>4. QED
  BY <1>1, <1>3 DEF PatientInv

(* Every step keeps the invariant, if no call times out. *)
LEMMA NextPatient ==
  ASSUME MaxTimeouts = 0
  PROVE  PatientInv /\ [Next]_gvars => PatientInv'
<1> SUFFICES ASSUME PatientInv, [Next]_gvars
             PROVE  PatientInv'
  OBVIOUS
<1>1. CASE Serve
  BY <1>1, EnterFreePatient, EnterTakenPatient, LeavePatient, DownPatient DEF Serve
<1>2. ASSUME NEW p \in Clients, NEW r \in Resources, enter(p, r) \/ leave(p, r)
      PROVE  PatientInv'
  BY <1>2, CallPatient
<1>3. ASSUME NEW p \in Clients, Return(p) \/ Die(p)
      PROVE  PatientInv'
  BY <1>3, ReturnPatient, DiePatient
<1>4. ASSUME NEW p \in Clients, Timeout(p)
      PROVE  FALSE
  <2>1. tag[p] = 0 /\ tag[p] < MaxTimeouts
    BY <1>4, ZeroTags DEF PatientInv, Inv, Timeout
  <2>2. QED
    BY <2>1
<1>5. CASE UNCHANGED gvars
  <2>1. Inv' /\ UNCHANGED <<server, mutexes, inbox, pc, res, tag, reply, held>>
    BY <1>5, StutterInv DEF PatientInv, gvars
  <2>2. CountInv'
    BY <2>1 DEF PatientInv, CountInv, Counted, Pending
  <2>3. QED
    BY <2>1, <2>2, ServerStays
<1>6. QED
  BY <1>1, <1>2, <1>3, <1>4, <1>5 DEF Next

(* A count that is exact, and a DOWN for every dead owner. *)
LEMMA PatientHolds == PatientInv => OwnersHold
<1> SUFFICES ASSUME PatientInv
             PROVE  OwnersHold
  OBVIOUS
<1>1. /\ server = "up" /\ TypeOK /\ TellInv /\ CountInv
      /\ mutexes \in Seq(MutexTuples) /\ inbox \in Seq(Msgs)
  BY DEF PatientInv, Inv, TypeOK
<1>2. ASSUME NEW i \in 1..Len(mutexes)
      PROVE  LET mx == mutexes[i]
                 n == held[mx.process][mx.resource]
             IN \/ Waiting(mx.process) /\ mx.count \in {n, n + 1}
                \/ pc[mx.process] = "run" /\ mx.count = n
                \/ pc[mx.process] = "dead"
                     /\ \E j \in 1..Len(inbox) : inbox[j] = DOWNof(mx)
  <2> DEFINE mx == mutexes[i]
             p == mx.process
             n == held[p][mx.resource]
  <2>1. mx \in Range(mutexes)
    BY <1>1, <1>2 DEF Range
  <2> HIDE DEF mx
  <2>2. p \in Clients /\ mx.resource \in Resources
    BY <1>1, <2>1, OwnersType
  <2>3. pc[p] \in {"run", "enter", "leave", "dead"} /\ n \in Nat
    BY <1>1, <2>2, HasType DEF TypeOK
  <2>4. CASE pc[p] = "dead"
    <3>1. DOWNof(mx) \in Range(inbox)
      BY <1>1, <2>1, <2>4 DEF TellInv, Told
    <3>2. \E j \in 1..Len(inbox) : inbox[j] = DOWNof(mx)
      BY <1>1, <3>1 DEF Range
    <3>3. QED
      BY <2>4, <3>2 DEF mx
  <2>5. CASE pc[p] # "dead"
    <3>1. mx.count = n + Pending(p, mx.resource)
      BY <1>1, <2>1, <2>5 DEF CountInv, Counted
    <3>2. Pending(p, mx.resource) \in {0, 1} /\ (pc[p] = "run" => Pending(p, mx.resource) = 0)
      BY DEF Pending
    <3>3. \/ Waiting(p) /\ mx.count \in {n, n + 1}
          \/ pc[p] = "run" /\ mx.count = n
      BY <2>3, <2>5, <3>1, <3>2 DEF Waiting
    <3>4. QED
      BY <3>3 DEF mx
  <2>6. QED
    BY <2>4, <2>5
<1>3. QED
  BY <1>1, <1>2 DEF OwnersHold

(* Those that wait are in a queue. *)
LEMMA PatientAcyclic == PatientInv => NoCyclicWait
<1> SUFFICES ASSUME PatientInv
             PROVE  NoCyclicWait
  OBVIOUS
<1>1. mutexes \in Seq(MutexTuples) /\ Acyclic(mutexes)
  BY DEF PatientInv, Inv, TypeOK
<1>2. ASSUME NEW p, NEW q, WaitsFor(p, q)
      PROVE  \E mx \in Range(mutexes) : WaitsIn(p, mx) /\ mx.process = q
  <2>1. PICK i \in 1..Len(mutexes) :
          /\ mutexes[i].process = q
          /\ \E j \in 1..Len(mutexes[i].waiters) : mutexes[i].waiters[j] = From(p)
    BY <1>2 DEF WaitsFor
  <2>2. From(p).proc = p
    BY DEF From
  <2>3. WaitsIn(p, mutexes[i]) /\ mutexes[i] \in Range(mutexes)
    BY <1>1, <2>1, <2>2 DEF WaitsIn, Range
  <2>4. QED
    BY <2>1, <2>3
<1>3. ASSUME NEW S \in (SUBSET Clients) \ {{}}
      PROVE  \E p \in S : \A q \in S : ~WaitsFor(p, q)
  <2>1. PICK p \in S : \A mx \in Range(mutexes) : WaitsIn(p, mx) => mx.process \notin S
    BY <1>1 DEF Acyclic
  <2>2. QED
    BY <1>2, <2>1
<1>4. QED
  BY <1>3 DEF NoCyclicWait

(* If no call times out, nothing is left locked, for any clients and         *)
(* resources: the count of a mutex is what its owner holds (give or take the *)
(* call it is in), the mutex of a dead owner has its DOWN on the way, no     *)
(* DOWN finds the server without its mutex, and deadlock? always ends.       *)
THEOREM NothingLeftLocked ==
  ASSUME MaxTimeouts = 0
  PROVE  Spec => []OwnersHold
<1>1. Init => PatientInv
  BY InitPatient
<1>2. PatientInv /\ [Next]_gvars => PatientInv'
  BY NextPatient
<1>3. PatientInv => OwnersHold
  BY PatientHolds
<1>4. QED
  BY <1>1, <1>2, <1>3, PTL DEF Spec

(* If no call times out, processes never wait for each other in a cycle,     *)
(* however many they are: deadlock? refuses every enter that would close     *)
(* one.                                                                      *)
THEOREM NobodyWaitsInACycle ==
  ASSUME MaxTimeouts = 0
  PROVE  Spec => []NoCyclicWait
<1>1. Init => PatientInv
  BY InitPatient
<1>2. PatientInv /\ [Next]_gvars => PatientInv'
  BY NextPatient
<1>3. PatientInv => NoCyclicWait
  BY PatientAcyclic
<1>4. QED
  BY <1>1, <1>2, <1>3, PTL DEF Spec

=============================================================================
