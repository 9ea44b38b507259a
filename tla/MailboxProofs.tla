---------------------------- MODULE MailboxProofs ----------------------------
(***************************************************************************)
(* Proofs about Mailbox.  The list is consistent for any kinds of messages *)
(* and any bound (ListInv, StackInv).  What is known of exit messages      *)
(* (FlagInv, HandlerInv) supposes that the process traps exits with a      *)
(* handler throughout and that EXIT messages come from exit signals only;  *)
(* that no message is missed (LookInv) supposes besides that handlers do   *)
(* not call receive, without which it is false.                            *)
(***************************************************************************)
EXTENDS Mailbox, FiniteSetTheorems, SequenceTheorems, WellFoundedInduction, TLAPS

InList == Inside \cup {Sentinel}

(* The two pointers of a cell in the list agree, next leads to the first     *)
(* message in the list that came later, and no pointer leads backwards.      *)
ListInv ==
  /\ \A m \in InList :
       /\ next[m] \in InList /\ prev[m] \in InList
       /\ prev[next[m]] = m /\ next[prev[m]] = m
       /\ \A n \in Inside : n > m => next[m] # Sentinel /\ next[m] <= n
  /\ \A m \in Arrived : next[m] \in Cells /\ (next[m] = Sentinel \/ next[m] > m)

(* The cursor of a receive is at a message that has arrived. *)
FramesUpTo(n) ==
  [type : {"receive"}, accepts : SUBSET Kinds, timed : BOOLEAN, cursor : 0..n, at : {"find"}]
  \cup [type : {"receive"}, accepts : SUBSET Kinds, timed : BOOLEAN, cursor : 1..n, at : {"match"}]
  \cup HandlerFrames
StackInv == stack \in Seq(FramesUpTo(Len(kind)))

Inv == TypeOK /\ ListInv /\ StackInv

(* One handler on the stack is running while the flag says so, and only its  *)
(* own receives are above it.  The helper goes on after a handler has ended. *)
OneHandler(h, s) ==
  IF h
  THEN \E i \in 1..Len(s) :
         /\ s[i] = HandlerFrame
         /\ \A j \in 1..Len(s) : s[j] = HandlerFrame => j = i
         /\ \A j \in 1..Len(s) : j < i => s[j].type = "receive"
  ELSE \A i \in 1..Len(s) : s[i] # HandlerFrame
FlagInv == EXITsInside # {} => exit
HandlerInv == OneHandler(handling, stack)
HelpInv == cpu = "help" => ~handling

(* A receive is at the bottom of the stack, activations of the handler above. *)
ShapeInv ==
  \A i \in 1..Len(stack) : stack[i] \notin HandlerFrames => i = Len(stack)

(* What a receive has passed it has rejected; its cursor is in the list (K    *)
(* are the contents of the messages, I those in the inbox).  When the process *)
(* runs in a receive, it is in the matcher and all exits have been handled.   *)
Looked(f, K, I) ==
  /\ f.cursor \in I \cup {Sentinel}
  /\ f.cursor # Sentinel => K[f.cursor] # "EXIT"
  /\ \A m \in I : m < f.cursor \/ (m = f.cursor /\ f.at = "find") => K[m] \notin f.accepts
LookInv ==
  /\ \A i \in 1..Len(stack) : stack[i] \notin HandlerFrames => Looked(stack[i], kind, Inside)
  /\ cpu = "on" /\ InReceive => EXITsInside = {} /\ Head(stack).at = "match"

-----------------------------------------------------------------------------
(* The list *)

(* A set of naturals has a least element. *)
LEMMA Minimum ==
  ASSUME NEW S, S \subseteq Nat, S # {}
  PROVE  \E i \in S : \A j \in S : i <= j
<1>1. PICK x \in S : \A y \in S : ~ (<<y, x>> \in OpToRel(<, Nat))
  BY NatLessThanWellFounded, WFMin
<1>2. ASSUME NEW y \in S
      PROVE  x <= y
  <2>1. <<y, x>> \in Nat \X Nat
    OBVIOUS
  <2>2. ~(y < x)
    BY <1>1, <2>1 DEF OpToRel
  <2>3. QED
    BY <2>2
<1>3. QED
  BY <1>2

(* What the type invariant says of the list. *)
LEMMA ListTypes ==
  ASSUME TypeOK
  PROVE  /\ Len(kind) \in Nat /\ Len(kind) <= MaxMsgs /\ MaxMsgs \in Nat
         /\ prev \in [Q -> Q \cup {None}]
         /\ next \in [Q -> Q \cup {None}]
         /\ Arrived \subseteq Q /\ Cells \subseteq Q /\ InList \subseteq Cells
         /\ Sentinel \in InList /\ Inside \subseteq Nat /\ None \notin Q
<1>1. Len(kind) \in Nat
  BY LenProperties DEF TypeOK
<1>2. QED
  BY <1>1, MailboxAssumption DEF TypeOK, Arrived, Cells, InList, Inside, Q, Sentinel

(* A cell in the list has a previous cell. *)
LEMMA InListEnqueued ==
  ASSUME TypeOK, ListInv, NEW c \in Cells
  PROVE  c \in InList <=> Enqueued(c)
<1>1. Sentinel \in InList => prev[Sentinel] \in InList
  BY DEF ListInv
<1>2. QED
  BY <1>1, ListTypes DEF InList, Inside, Cells, Enqueued, Sentinel

(* A message that arrives becomes the last in the list. *)
LEMMA InsertKeepsList ==
  ASSUME TypeOK, ListInv, NEW k \in Kinds, Insert(k)
  PROVE  ListInv'
<1> DEFINE n == Len(kind)
           last == prev[Sentinel]
<1>1. n \in Nat /\ n < MaxMsgs /\ Len(kind') = n + 1
  BY AppendProperties, ListTypes DEF TypeOK, Insert
<1>2. last \in InList /\ next[last] = Sentinel /\ last \in 0..n
  BY ListTypes DEF ListInv, InList, Inside, Arrived, Sentinel
<1>3. next' = [next EXCEPT ![last] = n + 1, ![n + 1] = Sentinel]
  BY DEF Insert
<1>4. prev' = [prev EXCEPT ![n + 1] = last, ![Sentinel] = n + 1]
  BY DEF Insert
<1> HIDE DEF n, last
<1>5. /\ \A c \in 0..n : next'[c] = IF c = last THEN n + 1 ELSE next[c]
      /\ next'[n + 1] = Sentinel
  BY <1>1, <1>2, <1>3, ListTypes DEF Q, Sentinel
<1>6. /\ \A c \in 1..n : prev'[c] = prev[c]
      /\ prev'[Sentinel] = n + 1 /\ prev'[n + 1] = last
  BY <1>1, <1>2, <1>4, ListTypes DEF Q, Sentinel
<1>7. Inside' = Inside \cup {n + 1} /\ InList' = InList \cup {n + 1} /\ Arrived = 1..n
  <2>1. Arrived' = 1..(n + 1) /\ Arrived = 1..n
    BY <1>1 DEF Arrived, n
  <2>2. n + 1 # None /\ last # None
    BY <1>1, <1>2, MailboxAssumption
  <2>3. QED
    BY <1>1, <1>6, <2>1, <2>2 DEF Inside, InList, Enqueued, Sentinel
<1>8. InList \subseteq 0..n /\ Inside \subseteq 1..n /\ InList = Inside \cup {0}
  BY <1>1, <1>7 DEF InList, Inside, Sentinel
<1>9. \A m \in Inside : m <= last
  BY <1>1, <1>2, <1>8 DEF ListInv, Sentinel
<1>10. ASSUME NEW m \in InList'
       PROVE  /\ next'[m] \in InList' /\ prev'[m] \in InList'
              /\ prev'[next'[m]] = m /\ next'[prev'[m]] = m
  <2>1. CASE m = n + 1
    BY <1>1, <1>2, <1>5, <1>6, <1>7, <2>1 DEF InList
  <2>2. CASE m = last
    <3>1. next'[m] = n + 1 /\ prev'[n + 1] = m
      BY <1>2, <1>5, <1>6, <2>2
    <3>2. CASE m = Sentinel
      BY <1>1, <1>2, <1>5, <1>6, <1>7, <2>2, <3>1, <3>2 DEF Sentinel
    <3>3. CASE m # Sentinel
      <4>1. m \in 1..n /\ prev'[m] = prev[m] /\ prev[m] \in InList /\ next[prev[m]] = m
        BY <1>2, <1>6, <1>8, <2>2, <3>3 DEF ListInv, Sentinel
      <4>2. prev[m] # last
        BY <1>2, <3>3, <4>1
      <4>3. next'[prev[m]] = m
        BY <1>5, <1>8, <4>1, <4>2
      <4>4. QED
        BY <1>7, <3>1, <4>1, <4>3
    <3>4. QED
      BY <3>2, <3>3
  <2>3. CASE m # n + 1 /\ m # last
    <3>1. m \in InList /\ m \in 0..n
      BY <1>7, <1>8, <2>3
    <3>2. next'[m] = next[m] /\ next[m] \in InList /\ prev[next[m]] = m
      BY <1>5, <2>3, <3>1 DEF ListInv
    <3>3. next[m] # Sentinel
      BY <2>3, <3>2 DEF last
    <3>4. prev'[next[m]] = m
      BY <1>6, <1>8, <3>2, <3>3 DEF Sentinel
    <3>5. prev'[m] \in InList' /\ next'[prev'[m]] = m
      <4>1. CASE m = Sentinel
        BY <1>5, <1>6, <1>7, <4>1
      <4>2. CASE m # Sentinel
        <5>1. prev'[m] = prev[m] /\ prev[m] \in InList /\ next[prev[m]] = m
          BY <1>6, <3>1, <4>2 DEF ListInv, Sentinel
        <5>2. prev[m] # last
          BY <1>2, <4>2, <5>1
        <5>3. QED
          BY <1>5, <1>7, <1>8, <5>1, <5>2
      <4>3. QED
        BY <4>1, <4>2
    <3>6. QED
      BY <1>7, <3>2, <3>4, <3>5
  <2>4. QED
    BY <2>1, <2>2, <2>3
<1>11. ASSUME NEW m \in InList', NEW o \in Inside', o > m
       PROVE  next'[m] # Sentinel /\ next'[m] <= o
  <2>1. m \in InList /\ m \in 0..n
    BY <1>1, <1>7, <1>8, <1>11
  <2>2. CASE m = last
    <3>1. next'[m] = n + 1
      BY <1>5, <2>1, <2>2
    <3>2. o = n + 1
      BY <1>1, <1>7, <1>8, <1>9, <1>11, <2>1, <2>2
    <3>3. QED
      BY <1>1, <3>1, <3>2 DEF Sentinel
  <2>3. CASE m # last
    <3>1. next'[m] = next[m] /\ next[m] \in InList /\ prev[next[m]] = m
      BY <1>5, <2>1, <2>3 DEF ListInv
    <3>2. next[m] # Sentinel
      BY <2>3, <3>1 DEF last
    <3>3. CASE o = n + 1
      <4>1. next[m] \in 0..n
        BY <1>8, <3>1
      <4>2. next[m] <= n + 1
        BY <1>1, <4>1
      <4>3. QED
        BY <3>1, <3>2, <3>3, <4>2
    <3>4. CASE o \in Inside
      BY <1>11, <2>1, <3>1, <3>4 DEF ListInv
    <3>5. QED
      BY <1>7, <3>3, <3>4
  <2>4. QED
    BY <2>2, <2>3
<1>12. ASSUME NEW m \in Arrived'
       PROVE  next'[m] \in Cells' /\ (next'[m] = Sentinel \/ next'[m] > m)
  <2>1. Arrived' = 1..(n + 1) /\ Cells' = 0..(n + 1)
    BY <1>1 DEF Arrived, Cells, Sentinel
  <2>2. CASE m = n + 1
    BY <1>1, <1>5, <2>1, <2>2 DEF Sentinel
  <2>3. CASE m \in 1..n
    <3>1. next[m] \in 0..n /\ (next[m] = Sentinel \/ next[m] > m)
      BY <1>1, <1>7, <2>3 DEF ListInv, Cells, Sentinel
    <3>2. QED
      BY <1>1, <1>5, <2>1, <2>3, <3>1 DEF Sentinel
  <2>4. QED
    BY <1>1, <2>1, <2>2, <2>3
<1>13. QED
  BY <1>10, <1>11, <1>12 DEF ListInv, Sentinel

(* Removing a message joins its neighbours. *)
LEMMA RemoveKeepsList ==
  ASSUME TypeOK, ListInv, NEW m \in Arrived, RemoveMsg(m), kind' = kind
  PROVE  ListInv'
<1>1. Arrived' = Arrived /\ Cells' = Cells
  BY DEF Arrived, Cells
<1>2. CASE ~Enqueued(m)
  <2>1. next' = next /\ prev' = prev
    BY <1>2 DEF RemoveMsg
  <2>2. QED
    BY <1>1, <2>1 DEF ListInv, InList, Inside, Enqueued
<1>3. CASE Enqueued(m)
  <2> DEFINE p == prev[m]
             s == next[m]
  <2>1. m \in InList /\ m # Sentinel /\ m \in Nat
    BY <1>3, ListTypes DEF InList, Inside, Arrived, Sentinel
  <2>2. p \in InList /\ s \in InList /\ next[p] = m /\ prev[s] = m
    BY <2>1 DEF ListInv
  <2>3. p # m /\ s # m
    <3>1. s # m
      BY <2>1 DEF ListInv
    <3>2. QED
      BY <2>2, <3>1
  <2>4. InList \subseteq Q /\ Cells \subseteq Q /\ p \in Q /\ s \in Q /\ m \in Q
    BY <2>1, <2>2, ListTypes
  <2>5. next' = [next EXCEPT ![p] = s]
    BY <1>3 DEF RemoveMsg
  <2>6. prev' = [prev EXCEPT ![s] = p, ![m] = None]
    BY <1>3 DEF RemoveMsg
  <2> HIDE DEF p, s
  <2>7. \A c \in Cells : next'[c] = IF c = p THEN s ELSE next[c]
    BY <2>4, <2>5, ListTypes
  <2>8. \A c \in Cells : prev'[c] = IF c = m THEN None ELSE IF c = s THEN p ELSE prev[c]
    BY <2>3, <2>4, <2>6, ListTypes
  <2>9. Inside' = Inside \ {m} /\ InList' = InList \ {m} /\ InList \subseteq Cells
    <3>1. p # None
      BY <2>4, ListTypes
    <3>2. s \in Inside \/ s = Sentinel
      BY <2>2 DEF InList
    <3>3. Arrived \subseteq Cells
      BY DEF Cells
    <3>4. Inside' = Inside \ {m}
      BY <1>1, <2>8, <3>1, <3>2, <3>3, <2>3 DEF Inside, Enqueued, Sentinel, Arrived
    <3>5. QED
      BY <2>1, <3>4, ListTypes DEF InList
  <2>10. ASSUME NEW c \in InList'
         PROVE  /\ next'[c] \in InList' /\ prev'[c] \in InList'
                /\ prev'[next'[c]] = c /\ next'[prev'[c]] = c
    <3>1. c \in InList /\ c # m /\ c \in Cells
      BY <2>9
    <3>2. /\ next[c] \in InList /\ prev[c] \in InList
          /\ prev[next[c]] = c /\ next[prev[c]] = c
      BY <3>1 DEF ListInv
    <3>3. next'[c] \in InList' /\ prev'[next'[c]] = c
      <4>1. CASE c = p
        BY <2>2, <2>3, <2>7, <2>8, <2>9, <3>1, <4>1
      <4>2. CASE c # p
        <5>1. next'[c] = next[c] /\ next[c] # m /\ next[c] # s
          BY <2>2, <2>7, <3>1, <3>2, <4>2 DEF p
        <5>2. QED
          BY <2>8, <2>9, <3>2, <5>1
      <4>3. QED
        BY <4>1, <4>2
    <3>4. prev'[c] \in InList' /\ next'[prev'[c]] = c
      <4>1. CASE c = s
        BY <2>2, <2>3, <2>7, <2>8, <2>9, <3>1, <4>1
      <4>2. CASE c # s
        <5>1. prev'[c] = prev[c] /\ prev[c] # m /\ prev[c] # p
          BY <2>2, <2>8, <3>1, <3>2, <4>2 DEF s
        <5>2. QED
          BY <2>7, <2>9, <3>2, <5>1
      <4>3. QED
        BY <4>1, <4>2
    <3>5. QED
      BY <3>3, <3>4
  <2>11. ASSUME NEW c \in InList', NEW o \in Inside', o > c
         PROVE  next'[c] # Sentinel /\ next'[c] <= o
    <3>1. c \in InList /\ c \in Cells /\ o \in Inside /\ o # m /\ o \in Nat /\ c \in Nat
      BY <2>9, ListTypes DEF Cells, Arrived, Sentinel
    <3>2. next[c] # Sentinel /\ next[c] <= o
      BY <2>11, <3>1 DEF ListInv
    <3>3. CASE c # p
      BY <2>7, <3>1, <3>2, <3>3
    <3>4. CASE c = p
      <4>1. next[c] = m /\ m < o
        BY <2>1, <2>2, <3>1, <3>2, <3>4
      <4>2. s # Sentinel /\ s <= o
        BY <2>1, <3>1, <4>1 DEF ListInv, s
      <4>3. QED
        BY <2>7, <3>1, <3>4, <4>2
    <3>5. QED
      BY <3>3, <3>4
  <2>12. ASSUME NEW c \in Arrived
         PROVE  next'[c] \in Cells /\ (next'[c] = Sentinel \/ next'[c] > c)
    <3>1. next[c] \in Cells /\ (next[c] = Sentinel \/ next[c] > c) /\ c \in Cells /\ c \in Nat
      BY DEF ListInv, Cells, Arrived
    <3>2. CASE c # p
      BY <2>7, <3>1, <3>2
    <3>3. CASE c = p
      <4>1. s \in Cells /\ (s = Sentinel \/ s > m) /\ m > c
        BY <2>1, <2>2, <3>1, <3>3 DEF ListInv, s, Sentinel
      <4>2. s \in Nat
        BY <2>2, <2>4 DEF Q
      <4>3. s = Sentinel \/ s > c
        BY <2>1, <3>1, <4>1, <4>2
      <4>4. QED
        BY <2>7, <3>1, <3>3, <4>1, <4>3
    <3>4. QED
      BY <3>2, <3>3
  <2>13. QED
    BY <1>1, <2>10, <2>11, <2>12 DEF ListInv, Sentinel
<1>4. QED
  BY <1>2, <1>3

-----------------------------------------------------------------------------
(* The walk of find1 *)

(* The walk ends before a cell of the list, and does not leave a cursor that *)
(* is in the list.                                                           *)
LEMMA SkipEnds ==
  ASSUME TypeOK, ListInv, NEW c \in Cells
  PROVE  /\ Skip(c) \in Cells
         /\ next[Skip(c)] \in InList
         /\ c \in InList => Skip(c) = c
<1>1. \A j \in Cells : next[j] \in Cells
  BY ListTypes DEF ListInv, Cells
<1>2. c \in Passed(c) /\ Passed(c) \subseteq Cells
  BY DEF Passed
<1>3. ASSUME NEW j \in Passed(c), ~Enqueued(next[j])
      PROVE  next[j] \in Passed(c)
  <2>1. j \in Cells /\ next[j] \in Cells
    BY <1>1, <1>2
  <2>2. ASSUME NEW S \in SUBSET Cells, c \in S,
               \A x \in S : ~Enqueued(next[x]) => next[x] \in S
        PROVE  next[j] \in S
    <3>1. j \in S
      BY <2>2 DEF Passed
    <3>2. QED
      BY <1>3, <2>2, <3>1
  <2>3. QED
    BY <2>1, <2>2 DEF Passed
<1>4. \A j \in Cells : j \in 0..MaxMsgs
  BY ListTypes DEF Q
<1>5. PICK x \in Passed(c) : \A j \in Passed(c) : j <= x
  <2> DEFINE T == {MaxMsgs - j : j \in Passed(c)}
  <2>1. T \subseteq Nat /\ T # {}
    BY <1>2, <1>4, MailboxAssumption
  <2>2. PICK t \in T : \A u \in T : t <= u
    BY <2>1, Minimum
  <2>3. PICK x \in Passed(c) : t = MaxMsgs - x
    BY <2>2
  <2>4. ASSUME NEW j \in Passed(c)
        PROVE  j <= x
    <3>1. MaxMsgs - x <= MaxMsgs - j
      BY <2>2, <2>3
    <3>2. MaxMsgs \in Nat /\ x \in Nat /\ j \in Nat
      BY <1>2, <1>4, MailboxAssumption
    <3>3. QED
      BY <3>1, <3>2
  <2>5. QED
    BY <2>4
<1>6. Enqueued(next[x])
  <2>1. SUFFICES ASSUME ~Enqueued(next[x])
                 PROVE  FALSE
    OBVIOUS
  <2>2. next[x] \in Passed(c) /\ next[x] <= x
    BY <1>3, <1>5, <2>1
  <2>3. x \in Cells /\ next[x] \in Cells
    BY <1>1, <1>2
  <2>4. next[x] \notin InList
    BY <2>1, <2>3, InListEnqueued
  <2>5. x \notin InList
    BY <2>4 DEF ListInv
  <2>6. x \in Arrived
    BY <2>3, <2>5 DEF InList, Cells
  <2>7. next[x] = Sentinel \/ next[x] > x
    BY <2>6 DEF ListInv
  <2>8. next[x] \in Nat /\ x \in Nat
    BY <1>4, <2>3
  <2>9. QED
    BY <2>2, <2>4, <2>7, <2>8 DEF InList
<1>7. Skip(c) \in Passed(c) /\ Enqueued(next[Skip(c)])
  BY <1>6 DEF Skip
<1>8. Skip(c) \in Cells /\ next[Skip(c)] \in InList
  BY <1>1, <1>2, <1>7, InListEnqueued
<1>9. ASSUME c \in InList
      PROVE  Skip(c) = c
  <2>1. next[c] \in InList /\ next[c] \in Cells
    BY <1>1, <1>9 DEF ListInv
  <2>2. Enqueued(next[c])
    BY <2>1, InListEnqueued
  <2>3. Passed(c) \subseteq {c}
    <3>1. {c} \in SUBSET Cells /\ \A j \in {c} : ~Enqueued(next[j]) => next[j] \in {c}
      BY <2>2
    <3>2. QED
      BY <3>1 DEF Passed
  <2>4. QED
    BY <1>7, <2>3
<1>10. QED
  BY <1>8, <1>9

-----------------------------------------------------------------------------
(* The stack of activations *)

(* Pushing a frame, element by element *)
LEMMA Pushed ==
  ASSUME NEW F, NEW s \in Seq(F), NEW f \in F
  PROVE  /\ <<f>> \o s \in Seq(F)
         /\ <<f>> \o s # <<>>
         /\ Len(<<f>> \o s) = Len(s) + 1
         /\ (<<f>> \o s)[1] = f
         /\ \A i \in 1..Len(s) : (<<f>> \o s)[i + 1] = s[i]
         /\ Head(<<f>> \o s) = f
<1>1. <<f>> \in Seq(F) /\ Len(<<f>>) = 1 /\ <<f>>[1] = f
  OBVIOUS
<1>2. Len(s) \in Nat
  BY LenProperties
<1> DEFINE g == <<f>>
           t == g \o s
<1> HIDE DEF g
<1>3. t \in Seq(F) /\ Len(t) = 1 + Len(s)
  BY <1>1, ConcatProperties DEF g
<1>4. \A i \in 1..(1 + Len(s)) : t[i] = IF i <= 1 THEN f ELSE s[i - 1]
  BY <1>1, ConcatProperties DEF g
<1> HIDE DEF t
<1>5. t[1] = f /\ \A i \in 1..Len(s) : t[i + 1] = s[i]
  <2>1. t[1] = f
    BY <1>2, <1>4
  <2>2. ASSUME NEW i \in 1..Len(s)
        PROVE  t[i + 1] = s[i]
    <3>1. i + 1 \in 1..(1 + Len(s)) /\ ~(i + 1 <= 1) /\ (i + 1) - 1 = i
      BY <1>2
    <3>2. QED
      BY <1>4, <3>1
  <2>3. QED
    BY <2>1, <2>2
<1>6. t # <<>>
  BY <1>2, <1>3, EmptySeq
<1>7. Head(t) = f
  BY <1>3, <1>5, <1>6
<1>8. QED
  BY <1>2, <1>3, <1>5, <1>6, <1>7 DEF g, t

(* A frame is a handler's or a receive's, whose cursor has arrived. *)
LEMMA FrameTypes ==
  ASSUME NEW n \in Nat, n <= MaxMsgs
  PROVE  /\ FramesUpTo(n) \subseteq ReceiveFrames \cup HandlerFrames
         /\ HandlerFrames \subseteq FramesUpTo(n)
         /\ \A f \in HandlerFrames : f.type = "handler"
         /\ \A f \in FramesUpTo(n) : f.type = "receive" <=> f \notin HandlerFrames
         /\ {Starting, HandlerFrame, Ending} = HandlerFrames
         /\ Starting # HandlerFrame /\ Ending # HandlerFrame
         /\ \A f \in FramesUpTo(n) : f.type = "receive" =>
              f.cursor \in 0..n /\ f.at \in {"find", "match"}
         /\ \A f \in FramesUpTo(n) : f.type = "receive" /\ f.at = "match" => f.cursor \in 1..n
<1>1. MaxMsgs \in Nat
  BY MailboxAssumption
<1>2. \A f \in HandlerFrames : f.type = "handler"
  BY DEF HandlerFrames, Starting, HandlerFrame, Ending
<1>3. Starting.at = "start" /\ HandlerFrame.at = "run" /\ Ending.at = "end"
  BY DEF Starting, HandlerFrame, Ending
<1>4. QED
  BY <1>1, <1>2, <1>3 DEF FramesUpTo, ReceiveFrames, HandlerFrames, Q

(* A frame stays one when a message arrives. *)
LEMMA FramesGrow ==
  ASSUME NEW n \in Nat
  PROVE  FramesUpTo(n) \subseteq FramesUpTo(n + 1)
BY DEF FramesUpTo

(* Moving the cursor of a receive to a message to look at, or to the end *)
AtMessage(f, c) == [f EXCEPT !.cursor = c, !.at = "match"]
AtEnd(f, c) == [f EXCEPT !.cursor = c, !.at = "find"]

(* A frame with another cursor is a frame. *)
LEMMA FrameMoved ==
  ASSUME NEW n \in Nat, NEW f \in FramesUpTo(n), f.type = "receive", NEW c \in 0..n
  PROVE  /\ c # 0 => AtMessage(f, c) \in FramesUpTo(n)
         /\ AtEnd(f, c) \in FramesUpTo(n)
         /\ AtMessage(f, c).cursor = c /\ AtMessage(f, c).at = "match"
         /\ AtEnd(f, c).cursor = c /\ AtEnd(f, c).at = "find"
         /\ AtMessage(f, c).type = "receive" /\ AtEnd(f, c).type = "receive"
         /\ AtMessage(f, c).accepts = f.accepts /\ AtEnd(f, c).accepts = f.accepts
<1>1. f \in [type : {"receive"}, accepts : SUBSET Kinds, timed : BOOLEAN, cursor : 0..n,
              at : {"find", "match"}]
  BY DEF FramesUpTo, HandlerFrames, Starting, HandlerFrame, Ending
<1>2. /\ AtMessage(f, c).cursor = c /\ AtMessage(f, c).at = "match"
      /\ AtEnd(f, c).cursor = c /\ AtEnd(f, c).at = "find"
      /\ AtMessage(f, c).type = "receive" /\ AtEnd(f, c).type = "receive"
      /\ AtMessage(f, c).accepts = f.accepts /\ AtEnd(f, c).accepts = f.accepts
  BY <1>1 DEF AtMessage, AtEnd
<1>3. AtEnd(f, c) \in [type : {"receive"}, accepts : SUBSET Kinds, timed : BOOLEAN,
                       cursor : 0..n, at : {"find"}]
  BY <1>1 DEF AtEnd
<1>4. ASSUME c # 0
      PROVE  AtMessage(f, c) \in [type : {"receive"}, accepts : SUBSET Kinds, timed : BOOLEAN,
                                  cursor : 1..n, at : {"match"}]
  <2>1. c \in 1..n
    BY <1>4
  <2>2. QED
    BY <1>1, <2>1 DEF AtMessage
<1>5. QED
  BY <1>2, <1>3, <1>4 DEF FramesUpTo

(* What Find does: it goes to the next message of the list, or waits or times *)
(* out at the end of it.                                                      *)
FindsNext(f, i) ==
  /\ next[i] # Sentinel
  /\ stack' = <<AtMessage(f, next[i])>> \o Tail(stack)
  /\ cpu' = "on"
  /\ outcome' = outcome
Waits(f, i) ==
  /\ next[i] = Sentinel
  /\ stack' = <<AtEnd(f, i)>> \o Tail(stack)
  /\ cpu' = "wait"
  /\ outcome' = outcome
TimesOut(i) ==
  /\ next[i] = Sentinel
  /\ stack' = Tail(stack)
  /\ cpu' = "on"
  /\ outcome' = <<"timeout", 0>>

(* find1 goes to a message, waits or times out, from the message that it *)
(* had, or from where the messages removed since then lead it.           *)
LEMMA FindEffect ==
  ASSUME TypeOK, ListInv, NEW f, f.cursor \in Cells, Find(f, f.cursor)
  PROVE  \E i \in Cells :
           /\ next[i] \in InList
           /\ f.cursor \in InList => i = f.cursor
           /\ FindsNext(f, i) \/ Waits(f, i) \/ TimesOut(i)
<1> DEFINE c == f.cursor
           i == Skip(c)
<1>1. i \in Cells /\ next[i] \in InList /\ (c \in InList => i = c)
  BY SkipEnds
<1>2. FindsNext(f, i) \/ Waits(f, i) \/ TimesOut(i)
  BY Zenon DEF Find, FindsNext, Waits, TimesOut, AtMessage, AtEnd
<1>3. QED
  BY <1>1, <1>2

-----------------------------------------------------------------------------
(* Every step keeps the list and the stack *)

(* The list is what the contents and the pointers say. *)
LEMMA SameList ==
  ASSUME UNCHANGED <<kind, prev, next>>
  PROVE  /\ ListInv => ListInv'
         /\ Inside' = Inside /\ InList' = InList /\ EXITsInside' = EXITsInside
BY DEF ListInv, InList, Inside, Arrived, Cells, Enqueued, EXITsInside

(* The contents of the list after an insertion *)
LEMMA Inserted ==
  ASSUME TypeOK, NEW k \in Kinds, Insert(k)
  PROVE  /\ kind' \in Seq(Kinds)
         /\ Len(kind) \in Nat /\ Len(kind') = Len(kind) + 1 /\ Len(kind') <= MaxMsgs
         /\ \A i \in Arrived : kind'[i] = kind[i]
         /\ kind'[Len(kind) + 1] = k
         /\ ListInv => /\ prev' \in [Q -> Q \cup {None}]
                       /\ next' \in [Q -> Q \cup {None}]
                       /\ Inside' = Inside \cup {Len(kind) + 1}
                       /\ Len(kind) + 1 \notin Inside
<1>1. Len(kind) \in Nat /\ Len(kind) < MaxMsgs /\ kind \in Seq(Kinds) /\ kind' = Append(kind, k)
  BY ListTypes DEF Insert, TypeOK
<1>2. /\ kind' \in Seq(Kinds) /\ Len(kind') = Len(kind) + 1
      /\ \A i \in 1..Len(kind) : kind'[i] = kind[i]
      /\ kind'[Len(kind) + 1] = k
  BY <1>1, AppendProperties
<1>3. MaxMsgs \in Nat
  BY MailboxAssumption
<1>4. ASSUME ListInv
      PROVE  /\ prev' \in [Q -> Q \cup {None}]
             /\ next' \in [Q -> Q \cup {None}]
             /\ Inside' = Inside \cup {Len(kind) + 1}
             /\ Len(kind) + 1 \notin Inside
  <2> DEFINE n == Len(kind)
             last == prev[Sentinel]
  <2>1. last \in Q /\ last # None
    BY <1>4, ListTypes DEF ListInv
  <2>2. n + 1 \in Q /\ Sentinel \in Q /\ n + 1 # Sentinel
    BY <1>1, <1>3 DEF Q, Sentinel
  <2>3. next' = [next EXCEPT ![last] = n + 1, ![n + 1] = Sentinel]
    BY DEF Insert
  <2>4. prev' = [prev EXCEPT ![n + 1] = last, ![Sentinel] = n + 1]
    BY DEF Insert
  <2>5. Arrived' = Arrived \cup {n + 1} /\ n + 1 \notin Arrived /\ Sentinel \notin Arrived
    BY <1>1, <1>2 DEF Arrived, Sentinel
  <2> HIDE DEF last, n
  <2>6. prev' \in [Q -> Q \cup {None}] /\ next' \in [Q -> Q \cup {None}]
    BY <2>1, <2>2, <2>3, <2>4, ListTypes
  <2>7. prev'[n + 1] = last /\ \A m \in Arrived : prev'[m] = prev[m]
    BY <2>1, <2>2, <2>4, <2>5, ListTypes
  <2>8. QED
    BY <2>1, <2>5, <2>6, <2>7 DEF Inside, Enqueued, n
<1>5. QED
  BY <1>1, <1>2, <1>3, <1>4 DEF Arrived

(* The contents of the list after a removal *)
LEMMA Removed ==
  ASSUME TypeOK, ListInv, NEW m \in Arrived, RemoveMsg(m), kind' = kind
  PROVE  /\ prev' \in [Q -> Q \cup {None}]
         /\ next' \in [Q -> Q \cup {None}]
         /\ taken' \in [1..MaxMsgs -> Nat]
         /\ outcome' \in {"none", "raised", "timeout", "message"} \X Q
         /\ Inside' = Inside \ {m}
<1>1. m \in Q /\ m \in 1..MaxMsgs /\ MaxMsgs \in Nat /\ m # Sentinel
  BY ListTypes DEF Arrived, Sentinel
<1>2. taken' \in [1..MaxMsgs -> Nat]
  BY <1>1 DEF RemoveMsg, TypeOK
<1>3. outcome' \in {"none", "raised", "timeout", "message"} \X Q
  BY <1>1 DEF RemoveMsg
<1>4. Arrived' = Arrived /\ Arrived \subseteq Q
  BY ListTypes DEF Arrived
<1>5. CASE ~Enqueued(m)
  <2>1. next' = next /\ prev' = prev
    BY <1>5 DEF RemoveMsg
  <2>2. QED
    BY <1>2, <1>3, <1>4, <1>5, <2>1, ListTypes DEF Inside, Enqueued
<1>6. CASE Enqueued(m)
  <2> DEFINE p == prev[m]
             s == next[m]
  <2>1. m \in InList
    BY <1>6 DEF InList, Inside
  <2>2. p \in InList /\ s \in InList /\ prev[s] = m
    BY <2>1 DEF ListInv
  <2>3. p \in Q /\ s \in Q /\ p # None
    BY <2>2, ListTypes
  <2>4. next' = [next EXCEPT ![p] = s]
    BY <1>6 DEF RemoveMsg
  <2>5. prev' = [prev EXCEPT ![s] = p, ![m] = None]
    BY <1>6 DEF RemoveMsg
  <2> HIDE DEF p, s
  <2>6. prev' \in [Q -> Q \cup {None}] /\ next' \in [Q -> Q \cup {None}]
    BY <1>1, <2>3, <2>4, <2>5, ListTypes
  <2>7. \A c \in Arrived : prev'[c] = IF c = m THEN None ELSE IF c = s THEN p ELSE prev[c]
    BY <1>1, <1>4, <2>3, <2>5, ListTypes
  <2>8. s \in Arrived => prev[s] # None
    BY <2>2, <1>1, ListTypes
  <2>9. Inside' = Inside \ {m}
    BY <1>4, <2>3, <2>7, <2>8 DEF Inside, Enqueued
  <2>10. QED
    BY <1>2, <1>3, <2>6, <2>9
<1>7. QED
  BY <1>5, <1>6

(* The stack, as far as the type invariant goes *)
LEMMA StackTypes ==
  ASSUME NEW n \in Nat, n <= MaxMsgs, NEW s \in Seq(FramesUpTo(n))
  PROVE  s \in Seq(ReceiveFrames \cup HandlerFrames)
BY FrameTypes, SeqMonotonic

(* An arriving message keeps the invariant. *)
LEMMA ArriveKeeps ==
  ASSUME Inv, NEW k \in Kinds, Insert(k), cpu' # "wait", cpu' \in {"on", "ready"},
         exit' \in BOOLEAN, UNCHANGED <<trap, handling, stack, taken, outcome>>
  PROVE  Inv'
<1>i. TypeOK /\ ListInv /\ StackInv
  BY DEF Inv
<1>1. ListInv'
  BY <1>i, InsertKeepsList
<1>2. /\ kind' \in Seq(Kinds) /\ Len(kind) \in Nat
      /\ Len(kind') = Len(kind) + 1 /\ Len(kind') <= MaxMsgs
      /\ prev' \in [Q -> Q \cup {None}]
      /\ next' \in [Q -> Q \cup {None}]
  BY <1>i, Inserted
<1>3. StackInv'
  <2>1. stack \in Seq(FramesUpTo(Len(kind))) /\ FramesUpTo(Len(kind)) \subseteq FramesUpTo(Len(kind) + 1)
    BY <1>i, <1>2, FramesGrow DEF StackInv
  <2>2. stack \in Seq(FramesUpTo(Len(kind) + 1))
    BY <2>1, SeqMonotonic
  <2>3. QED
    BY <1>2, <2>2 DEF StackInv
<1>4. TypeOK'
  BY <1>i, <1>2 DEF TypeOK
<1>5. QED
  BY <1>1, <1>3, <1>4 DEF Inv

(* Steps that leave the list alone, and those that take a message out of it:  *)
(* it remains to look at the stack.                                           *)
LEMMA StackStep ==
  ASSUME Inv, kind' = kind, stack' \in Seq(FramesUpTo(Len(kind))),
         \/ UNCHANGED <<prev, next, taken>>
         \/ \E m \in Arrived : RemoveMsg(m),
         trap' \in TrapModes, exit' \in BOOLEAN, handling' \in BOOLEAN,
         cpu' \in {"on", "check", "help", "ready", "wait"}, cpu' = "wait" => InReceive',
         outcome' \in {"none", "raised", "timeout", "message"} \X Q
  PROVE  Inv'
<1>i. TypeOK /\ ListInv
  BY DEF Inv
<1>1. ListInv'
  BY <1>i, SameList, RemoveKeepsList
<1>2. /\ prev' \in [Q -> Q \cup {None}]
      /\ next' \in [Q -> Q \cup {None}]
      /\ taken' \in [1..MaxMsgs -> Nat]
  BY <1>i, Removed DEF TypeOK
<1>3. StackInv'
  BY DEF StackInv
<1>4. Len(kind) \in Nat /\ Len(kind) <= MaxMsgs
  BY <1>i, ListTypes
<1>5. stack' \in Seq(ReceiveFrames \cup HandlerFrames)
  BY <1>4, StackTypes
<1>6. TypeOK'
  BY <1>i, <1>2, <1>5 DEF TypeOK
<1>7. QED
  BY <1>1, <1>3, <1>6 DEF Inv

(* The outcome of Find, as a change of the stack *)
LEMMA FindKeepsStack ==
  ASSUME Inv, InReceive, Find(Head(stack), Head(stack).cursor)
  PROVE  /\ stack' \in Seq(FramesUpTo(Len(kind)))
         /\ cpu' \in {"on", "wait"}
         /\ cpu' = "wait" => InReceive'
         /\ outcome' \in {"none", "raised", "timeout", "message"} \X Q
<1>i. TypeOK /\ ListInv /\ stack \in Seq(FramesUpTo(Len(kind))) /\ stack # <<>>
  BY DEF Inv, StackInv, InReceive
<1> DEFINE n == Len(kind)
           f == Head(stack)
           F == FramesUpTo(n)
<1>1. n \in Nat /\ n <= MaxMsgs /\ Cells = 0..n /\ InList \subseteq Cells
  BY <1>i, ListTypes DEF Cells, Arrived, Sentinel
<1>2. f \in F /\ Tail(stack) \in Seq(F) /\ f.type = "receive"
  BY <1>i, HeadTailProperties DEF InReceive
<1>3. f.cursor \in Cells
  BY <1>1, <1>2, FrameTypes
<1> HIDE DEF f, n, F
<1>4. PICK i \in Cells :
           /\ next[i] \in InList
           /\ FindsNext(f, i) \/ Waits(f, i) \/ TimesOut(i)
  BY <1>i, <1>3, FindEffect DEF f
<1>5. CASE FindsNext(f, i)
  <2> DEFINE g == AtMessage(f, next[i])
  <2>1. next[i] \in 0..n /\ next[i] # 0
    BY <1>1, <1>4, <1>5 DEF FindsNext, Sentinel
  <2>2. g \in F
    BY <1>1, <1>2, <2>1, FrameMoved DEF F
  <2>3. stack' = <<g>> \o Tail(stack) /\ cpu' = "on" /\ outcome' = outcome
    BY <1>5 DEF FindsNext
  <2> HIDE DEF g
  <2>4. stack' \in Seq(F)
    BY <1>2, <2>2, <2>3, Pushed
  <2>5. outcome' \in {"none", "raised", "timeout", "message"} \X Q
    BY <1>i, <2>3 DEF TypeOK
  <2>6. QED
    BY <2>3, <2>4, <2>5 DEF F, n
<1>6. CASE Waits(f, i)
  <2> DEFINE g == AtEnd(f, i)
  <2>2. g \in F /\ g.type = "receive"
    BY <1>1, <1>2, FrameMoved DEF F
  <2>3. stack' = <<g>> \o Tail(stack) /\ cpu' = "wait" /\ outcome' = outcome
    BY <1>6 DEF Waits
  <2> HIDE DEF g
  <2>4. stack' \in Seq(F) /\ stack' # <<>> /\ Head(stack') = g
    BY <1>2, <2>2, <2>3, Pushed
  <2>5. outcome' \in {"none", "raised", "timeout", "message"} \X Q
    BY <1>i, <2>3 DEF TypeOK
  <2>6. InReceive'
    BY <2>2, <2>4 DEF InReceive
  <2>7. QED
    BY <2>3, <2>4, <2>5, <2>6 DEF F, n
<1>7. CASE TimesOut(i)
  <2>1. stack' = Tail(stack) /\ cpu' = "on" /\ outcome' = <<"timeout", 0>>
    BY <1>7 DEF TimesOut
  <2>2. 0 \in Q
    BY MailboxAssumption DEF Q
  <2>3. QED
    BY <1>2, <2>1, <2>2 DEF F, n
<1>8. QED
  BY <1>4, <1>5, <1>6, <1>7

(* Every step keeps the list consistent. *)
LEMMA StepKeepsInv ==
  ASSUME Inv, [Next]_mvars
  PROVE  Inv'
<1>i. TypeOK /\ ListInv /\ stack \in Seq(FramesUpTo(Len(kind)))
  BY DEF Inv, StackInv
<1>t. /\ trap \in TrapModes /\ exit \in BOOLEAN /\ handling \in BOOLEAN
      /\ cpu \in {"on", "check", "help", "ready", "wait"}
      /\ cpu = "wait" => InReceive
      /\ outcome \in {"none", "raised", "timeout", "message"} \X Q
  BY <1>i DEF TypeOK
<1>n. Len(kind) \in Nat /\ Len(kind) <= MaxMsgs /\ MaxMsgs \in Nat /\ 0 \in Q
  BY <1>i, ListTypes DEF Q
<1> DEFINE F == FramesUpTo(Len(kind))
<1>h. Starting \in F /\ HandlerFrame \in F /\ Ending \in F
  BY <1>n, FrameTypes
<1>s. stack # <<>> => Head(stack) \in F /\ Tail(stack) \in Seq(F) /\ Len(Tail(stack)) = Len(stack) - 1
  BY <1>i, HeadTailProperties
<1>k. "EXIT" \in Kinds
  BY MailboxAssumption
<1>1. ASSUME NEW k \in Kinds, send(k) \/ SendSelf(k)
      PROVE  Inv'
  BY <1>1, <1>t, ArriveKeeps DEF send, Arrive, SendSelf
<1>2. ASSUME sendEXIT
      PROVE  Inv'
  BY <1>2, <1>t, <1>k, ArriveKeeps DEF sendEXIT, Arrive
<1>3. ASSUME Preempt \/ Wake \/ Resume
      PROVE  Inv'
  BY <1>3, <1>i, <1>t, StackStep DEF Preempt, Wake, Resume
<1>4. ASSUME HandleTrapExit
      PROVE  Inv'
  <2>1. \E m \in Arrived : RemoveMsg(m)
    BY <1>4 DEF HandleTrapExit, EXITsInside, Inside
  <2>2. outcome' \in {"none", "raised", "timeout", "message"} \X Q
    BY <1>i, <2>1, <1>4, Removed DEF HandleTrapExit
  <2>3. stack' \in Seq(F)
    BY <1>4, <1>i, <1>h, Pushed DEF HandleTrapExit
  <2>4. /\ kind' = kind /\ trap' = trap /\ exit' = exit /\ handling' = handling /\ cpu' = "on"
    BY <1>4 DEF HandleTrapExit
  <2>5. QED
    BY <1>t, <2>1, <2>2, <2>3, <2>4, StackStep
<1>5. ASSUME HandleNone
      PROVE  Inv'
  <2>1. /\ UNCHANGED <<kind, prev, next, trap, handling, taken>>
        /\ exit' \in BOOLEAN
    BY <1>5, <1>t DEF HandleNone, ExitAfterCheck
  <2>2. /\ stack' \in Seq(F)
        /\ cpu' \in {"on", "wait"}
        /\ cpu' = "wait" => InReceive'
        /\ outcome' \in {"none", "raised", "timeout", "message"} \X Q
    <3>1. CASE InReceive /\ Head(stack).at = "find"
      <4>1. Find(Head(stack), Head(stack).cursor)
        BY <1>5, <3>1 DEF HandleNone
      <4>2. QED
        BY <3>1, <4>1, FindKeepsStack
    <3>2. CASE ~(InReceive /\ Head(stack).at = "find")
      <4>1. cpu' = "on" /\ stack' = stack /\ outcome' = outcome
        BY <1>5, <3>2 DEF HandleNone
      <4>2. QED
        BY <1>i, <1>t, <4>1
    <3>3. QED
      BY <3>1, <3>2
  <2>3. QED
    BY <1>t, <2>1, <2>2, StackStep
<1>6. ASSUME HandlerReturn
      PROVE  Inv'
  <2>1. /\ UNCHANGED <<kind, prev, next, trap, exit, cpu, taken, outcome>>
        /\ stack' = <<Ending>> \o Tail(stack) /\ stack # <<>> /\ handling' = FALSE /\ cpu = "on"
    BY <1>6 DEF HandlerReturn
  <2>2. stack' \in Seq(F)
    BY <1>h, <1>s, <2>1, Pushed
  <2>3. QED
    BY <1>t, <2>1, <2>2, StackStep
<1>6a. ASSUME HandlerEnter
       PROVE  Inv'
  <2>1. /\ UNCHANGED <<kind, prev, next, trap, exit, cpu, taken, outcome>>
        /\ stack' = <<HandlerFrame>> \o Tail(stack) /\ stack # <<>> /\ handling' = TRUE /\ cpu = "on"
    BY <1>6a DEF HandlerEnter
  <2>2. stack' \in Seq(F)
    BY <1>h, <1>s, <2>1, Pushed
  <2>3. QED
    BY <1>t, <2>1, <2>2, StackStep
<1>6b. ASSUME HandlerLoop
       PROVE  Inv'
  <2>1. /\ UNCHANGED <<kind, prev, next, trap, exit, handling, taken, outcome>>
        /\ stack' = Tail(stack) /\ stack # <<>> /\ cpu' = "help"
    BY <1>6b DEF HandlerLoop
  <2>2. QED
    BY <1>s, <1>t, <2>1, StackStep
<1>7. ASSUME HandlerRaise
      PROVE  Inv'
  <2>1. /\ UNCHANGED <<kind, prev, next, trap, exit, cpu, taken>>
        /\ stack' = <<>> /\ handling' = FALSE /\ cpu = "on"
        /\ outcome' = <<"raised", 0>>
    BY <1>7 DEF HandlerRaise
  <2>2. stack' \in Seq(F)
    BY <2>1, EmptySeq
  <2>3. QED
    BY <1>n, <1>t, <2>1, <2>2, StackStep
<1>8. ASSUME NEW S \in SUBSET Kinds, NEW timed \in BOOLEAN, receive(S, timed)
      PROVE  Inv'
  <2> DEFINE f == [type |-> "receive", accepts |-> S, timed |-> timed,
                   cursor |-> Sentinel, at |-> "find"]
  <2>1. f \in F
    BY <1>n DEF FramesUpTo, Sentinel
  <2>2. /\ UNCHANGED <<kind, prev, next, trap, exit, handling, taken, outcome>>
        /\ stack' = <<f>> \o stack /\ cpu' = "check"
    BY <1>8 DEF receive
  <2> HIDE DEF f
  <2>3. stack' \in Seq(F)
    BY <1>i, <2>1, <2>2, Pushed
  <2>4. QED
    BY <1>t, <2>2, <2>3, StackStep
<1>9. ASSUME Match
      PROVE  Inv'
  <2>1. /\ UNCHANGED <<kind, trap, exit, handling, cpu>>
        /\ InMatcher /\ RemoveMsg(Head(stack).cursor) /\ stack' = Tail(stack) /\ cpu = "on"
    BY <1>9 DEF Match
  <2>2. Head(stack).cursor \in Arrived /\ stack # <<>>
    BY <1>n, <1>s, <2>1, FrameTypes DEF InMatcher, InReceive, Arrived
  <2>3. outcome' \in {"none", "raised", "timeout", "message"} \X Q
    BY <1>i, <2>1, <2>2, Removed
  <2>4. QED
    BY <1>s, <1>t, <2>1, <2>2, <2>3, StackStep
<1>10. ASSUME Mismatch
       PROVE  Inv'
  <2>1. /\ UNCHANGED <<kind, prev, next, trap, exit, handling, taken>>
        /\ InReceive /\ Find(Head(stack), Head(stack).cursor)
    BY <1>10 DEF Mismatch, InMatcher
  <2>2. /\ stack' \in Seq(F)
        /\ cpu' \in {"on", "wait"}
        /\ cpu' = "wait" => InReceive'
        /\ outcome' \in {"none", "raised", "timeout", "message"} \X Q
    BY <2>1, FindKeepsStack
  <2>3. QED
    BY <1>t, <2>1, <2>2, StackStep
<1>11. ASSUME NEW x \in TrapModes, processTrapExit(x)
       PROVE  Inv'
  BY <1>11, <1>i, <1>t, StackStep DEF processTrapExit
<1>12. ASSUME UNCHANGED mvars
       PROVE  Inv'
  <2>1. UNCHANGED <<kind, prev, next, trap, exit, handling, cpu, stack, taken, outcome>>
    BY <1>12 DEF mvars
  <2>2. InReceive' = InReceive
    BY <2>1 DEF InReceive
  <2>3. QED
    BY <1>i, <1>t, <2>1, <2>2, StackStep
<1>13. QED
  BY <1>1, <1>2, <1>3, <1>4, <1>5, <1>6, <1>6a, <1>6b, <1>7, <1>8, <1>9, <1>10, <1>11, <1>12
     DEF Next

(* The inbox is empty at first. *)
LEMMA InitInv == Init => Inv
<1>1. SUFFICES ASSUME Init
               PROVE  Inv
  OBVIOUS
<1>2. /\ kind = <<>> /\ Len(kind) = 0 /\ stack = <<>>
      /\ prev = [m \in Q |-> IF m = Sentinel THEN Sentinel ELSE None]
      /\ next = [m \in Q |-> IF m = Sentinel THEN Sentinel ELSE None]
  BY <1>1 DEF Init
<1>3. MaxMsgs \in Nat /\ 0 \in Q /\ Sentinel = 0
  BY MailboxAssumption DEF Q, Sentinel
<1>4. TypeOK
  <2>1. kind \in Seq(Kinds) /\ Len(kind) <= MaxMsgs
    BY <1>2, <1>3, EmptySeq
  <2>2. prev \in [Q -> Q \cup {None}] /\ next \in [Q -> Q \cup {None}]
    BY <1>2, <1>3
  <2>3. stack \in Seq(ReceiveFrames \cup HandlerFrames)
    BY <1>2, EmptySeq
  <2>4. /\ trap \in TrapModes /\ exit \in BOOLEAN /\ handling \in BOOLEAN /\ cpu = "on"
        /\ taken \in [1..MaxMsgs -> Nat]
        /\ outcome \in {"none", "raised", "timeout", "message"} \X Q
    BY <1>1, <1>3 DEF Init
  <2>5. QED
    BY <2>1, <2>2, <2>3, <2>4 DEF TypeOK
<1>5. Inside = {} /\ InList = {0} /\ Arrived = {}
  BY <1>2, <1>3 DEF Inside, InList, Arrived
<1>6. next[0] = 0 /\ prev[0] = 0
  BY <1>2, <1>3
<1>7. ListInv
  BY <1>3, <1>5, <1>6 DEF ListInv
<1>8. StackInv
  BY <1>2, EmptySeq DEF StackInv
<1>9. QED
  BY <1>4, <1>7, <1>8 DEF Inv

(* The list is consistent throughout. *)
LEMMA InvAlways == Spec => []Inv
<1>1. Inv /\ [Next]_mvars => Inv'
  BY StepKeepsInv
<1>2. QED
  BY <1>1, InitInv, PTL DEF Spec

(* The inbox stays one doubly-linked cycle in the order of arrival, whatever  *)
(* interleaving of @send, the trap-exit handler and nested receives inserts   *)
(* and removes messages, and no pointer of a removed message leads back.      *)
THEOREM ListAlwaysConsistent == Spec => []ListConsistent
<1>1. Inv => ListConsistent
  BY DEF Inv, ListInv, ListConsistent, InList
<1>2. QED
  BY <1>1, InvAlways, PTL

-----------------------------------------------------------------------------
(* Exit messages and handlers *)

(* Popping a frame, and replacing the innermost one, element by element *)
LEMMA Popped ==
  ASSUME NEW F, NEW s \in Seq(F), s # <<>>
  PROVE  /\ Len(s) \in Nat \ {0}
         /\ s[1] = Head(s)
         /\ Tail(s) \in Seq(F)
         /\ Len(Tail(s)) = Len(s) - 1
         /\ \A i \in 1..(Len(s) - 1) : Tail(s)[i] = s[i + 1]
<1>1. Len(s) \in Nat \ {0}
  BY EmptySeq
<1>2. QED
  BY <1>1, HeadTailProperties

(* Another frame on top of the stack. *)
LEMMA Replaced ==
  ASSUME NEW F, NEW s \in Seq(F), s # <<>>, NEW g \in F
  PROVE  /\ <<g>> \o Tail(s) \in Seq(F)
         /\ <<g>> \o Tail(s) # <<>>
         /\ Head(<<g>> \o Tail(s)) = g
         /\ Len(<<g>> \o Tail(s)) = Len(s)
         /\ (<<g>> \o Tail(s))[1] = g
         /\ \A i \in 2..Len(s) : (<<g>> \o Tail(s))[i] = s[i]
<1> DEFINE t == Tail(s)
<1>1. /\ Len(s) \in Nat \ {0} /\ t \in Seq(F) /\ Len(t) = Len(s) - 1
      /\ \A i \in 1..(Len(s) - 1) : t[i] = s[i + 1]
  BY Popped
<1> HIDE DEF t
<1> DEFINE u == <<g>> \o t
<1>2. /\ u \in Seq(F) /\ u # <<>> /\ Head(u) = g /\ Len(u) = Len(t) + 1 /\ u[1] = g
      /\ \A i \in 1..Len(t) : u[i + 1] = t[i]
  BY <1>1, Pushed
<1> HIDE DEF u
<1>3. ASSUME NEW i \in 2..Len(s)
      PROVE  u[i] = s[i]
  <2> DEFINE j == i - 1
  <2>1. j \in 1..(Len(s) - 1) /\ j + 1 = i
    BY <1>1
  <2> HIDE DEF j
  <2>2. u[j + 1] = t[j] /\ t[j] = s[j + 1]
    BY <1>1, <1>2, <2>1
  <2>3. QED
    BY <2>1, <2>2
<1>4. Len(u) = Len(s)
  BY <1>1, <1>2
<1>5. QED
  BY <1>2, <1>3, <1>4 DEF t, u

(* How the handlers on the stack change *)
LEMMA HandlerPushed ==
  ASSUME NEW F, NEW s \in Seq(F), HandlerFrame \in F, OneHandler(FALSE, s)
  PROVE  OneHandler(TRUE, <<HandlerFrame>> \o s)
<1> DEFINE t == <<HandlerFrame>> \o s
           H == HandlerFrame
<1>1. Len(s) \in Nat
  BY LenProperties
<1>2. /\ Len(t) = Len(s) + 1 /\ t[1] = H /\ \A i \in 1..Len(s) : t[i + 1] = s[i]
  BY Pushed
<1> HIDE DEF t, H
<1>3. ASSUME NEW j \in 1..Len(t), t[j] = H
      PROVE  j = 1
  <2>1. SUFFICES ASSUME j # 1
                 PROVE  FALSE
    OBVIOUS
  <2>2. j - 1 \in 1..Len(s) /\ (j - 1) + 1 = j
    BY <1>1, <1>2, <2>1
  <2>3. t[j] = s[j - 1]
    BY <1>2, <2>2
  <2>4. QED
    BY <1>3, <2>2, <2>3 DEF OneHandler, H
<1>4. 1 \in 1..Len(t) /\ \A j \in 1..Len(t) : ~(j < 1)
  BY <1>1, <1>2
<1>5. QED
  BY <1>2, <1>3, <1>4 DEF OneHandler, H, t

(* A receive that begins leaves the handlers of the stack alone, and so does *)
(* an activation that begins while no handler is running ...                 *)
LEMMA ReceivePushed ==
  ASSUME NEW F, NEW s \in Seq(F), NEW f \in F, f # HandlerFrame, NEW h \in BOOLEAN,
         h => f.type = "receive", OneHandler(h, s)
  PROVE  OneHandler(h, <<f>> \o s)
<1> DEFINE t == <<f>> \o s
           H == HandlerFrame
<1>1. Len(s) \in Nat
  BY LenProperties
<1>2. /\ Len(t) = Len(s) + 1 /\ t[1] = f /\ \A i \in 1..Len(s) : t[i + 1] = s[i]
  BY Pushed
<1> HIDE DEF t, H
<1>3. ASSUME NEW j \in 1..Len(t), t[j] = H
      PROVE  j - 1 \in 1..Len(s) /\ s[j - 1] = H
  <2>1. j # 1
    BY <1>2, <1>3 DEF H
  <2>2. j - 1 \in 1..Len(s) /\ (j - 1) + 1 = j
    BY <1>1, <1>2, <2>1
  <2>3. QED
    BY <1>2, <1>3, <2>2
<1>4. CASE h
  <2>1. PICK i \in 1..Len(s) :
              /\ s[i] = H /\ \A j \in 1..Len(s) : s[j] = H => j = i
              /\ \A j \in 1..Len(s) : j < i => s[j].type = "receive"
    BY <1>4 DEF OneHandler, H
  <2>2. t[i + 1] = H /\ i + 1 \in 1..Len(t)
    BY <1>1, <1>2, <2>1
  <2>r. ASSUME NEW j \in 1..Len(t), j < i + 1
        PROVE  t[j].type = "receive"
    <3>1. CASE j = 1
      BY <1>2, <1>4, <3>1
    <3>2. CASE j # 1
      <4>1. j - 1 \in 1..Len(s) /\ (j - 1) + 1 = j /\ j - 1 < i
        BY <1>1, <1>2, <2>r, <3>2
      <4>2. t[j] = s[j - 1]
        BY <1>2, <4>1
      <4>3. QED
        BY <2>1, <4>1, <4>2
    <3>3. QED
      BY <3>1, <3>2
  <2>3. ASSUME NEW j \in 1..Len(t), t[j] = H
        PROVE  j = i + 1
    <3>1. j - 1 = i
      BY <1>3, <2>1, <2>3
    <3>2. QED
      BY <1>1, <1>2, <3>1
  <2>4. QED
    BY <1>4, <2>2, <2>3, <2>r DEF OneHandler, H, t
<1>5. CASE ~h
  BY <1>3, <1>5 DEF OneHandler, H, t
<1>6. QED
  BY <1>4, <1>5

(* ... one that ends as well ... *)
LEMMA ReceivePopped ==
  ASSUME NEW F, NEW s \in Seq(F), s # <<>>, Head(s) # HandlerFrame, NEW h \in BOOLEAN,
         OneHandler(h, s)
  PROVE  OneHandler(h, Tail(s))
<1> DEFINE t == Tail(s)
           H == HandlerFrame
<1>1. /\ Len(s) \in Nat \ {0} /\ s[1] = Head(s) /\ Len(t) = Len(s) - 1
      /\ \A i \in 1..(Len(s) - 1) : t[i] = s[i + 1]
  BY Popped
<1> HIDE DEF t, H
<1>2. ASSUME NEW j \in 1..Len(t), t[j] = H
      PROVE  j + 1 \in 1..Len(s) /\ s[j + 1] = H
  BY <1>1, <1>2
<1>3. CASE h
  <2>1. PICK i \in 1..Len(s) :
              /\ s[i] = H /\ \A j \in 1..Len(s) : s[j] = H => j = i
              /\ \A j \in 1..Len(s) : j < i => s[j].type = "receive"
    BY <1>3 DEF OneHandler, H
  <2>r. ASSUME NEW j \in 1..Len(t), j < i - 1
        PROVE  t[j].type = "receive"
    <3>1. j + 1 \in 1..Len(s) /\ j \in 1..(Len(s) - 1) /\ j + 1 < i
      BY <1>1, <2>r
    <3>2. QED
      BY <1>1, <2>1, <3>1
  <2>2. i # 1
    BY <1>1, <2>1 DEF H
  <2>3. i - 1 \in 1..(Len(s) - 1) /\ (i - 1) + 1 = i
    BY <1>1, <2>1, <2>2
  <2>4. t[i - 1] = H /\ i - 1 \in 1..Len(t)
    BY <1>1, <2>1, <2>3
  <2>5. ASSUME NEW j \in 1..Len(t), t[j] = H
        PROVE  j = i - 1
    <3>1. j + 1 = i
      BY <1>2, <2>1, <2>5
    <3>2. j \in Int /\ i \in Int
      BY <1>1
    <3>3. QED
      BY <3>1, <3>2
  <2>6. QED
    BY <1>3, <2>4, <2>5, <2>r DEF OneHandler, H, t
<1>4. CASE ~h
  BY <1>2, <1>4 DEF OneHandler, H, t
<1>5. QED
  BY <1>3, <1>4

(* ... a handler that ends was the only one ... *)
LEMMA HandlerPopped ==
  ASSUME NEW F, NEW s \in Seq(F), s # <<>>, Head(s) = HandlerFrame, NEW h \in BOOLEAN,
         OneHandler(h, s)
  PROVE  /\ \A i \in 2..Len(s) : s[i] # HandlerFrame
         /\ OneHandler(FALSE, Tail(s))
<1> DEFINE t == Tail(s)
           H == HandlerFrame
<1>1. /\ Len(s) \in Nat \ {0} /\ s[1] = H /\ Len(t) = Len(s) - 1
      /\ \A i \in 1..(Len(s) - 1) : t[i] = s[i + 1]
  BY Popped
<1> HIDE DEF t, H
<1>2. 1 \in 1..Len(s)
  BY <1>1
<1>3. h
  BY <1>1, <1>2 DEF OneHandler, H
<1>4. PICK i \in 1..Len(s) : s[i] = H /\ \A j \in 1..Len(s) : s[j] = H => j = i
  BY <1>3 DEF OneHandler, H
<1>5. i = 1
  BY <1>1, <1>2, <1>4
<1>6. \A j \in 2..Len(s) : s[j] # H
  BY <1>1, <1>4, <1>5
<1>7. ASSUME NEW j \in 1..Len(t)
      PROVE  t[j] # H
  <2>1. j \in 1..(Len(s) - 1) /\ j + 1 \in 2..Len(s)
    BY <1>1
  <2>2. QED
    BY <1>1, <1>6, <2>1
<1>8. QED
  BY <1>6, <1>7 DEF OneHandler, H, t

(* ... an activation that is not running is not above one that is ... *)
LEMMA NoHandlerBelow ==
  ASSUME NEW F, NEW s \in Seq(F), s # <<>>, Head(s) # HandlerFrame, Head(s).type # "receive",
         NEW h \in BOOLEAN, OneHandler(h, s)
  PROVE  h = FALSE
<1>1. Len(s) \in Nat \ {0} /\ s[1] = Head(s)
  BY Popped
<1>2. SUFFICES ASSUME h
               PROVE  FALSE
  OBVIOUS
<1>3. PICK i \in 1..Len(s) :
           /\ s[i] = HandlerFrame
           /\ \A j \in 1..Len(s) : j < i => s[j].type = "receive"
  BY <1>2 DEF OneHandler
<1>4. 1 \in 1..Len(s) /\ (i = 1 \/ 1 < i)
  BY <1>1
<1>5. QED
  BY <1>1, <1>3, <1>4

(* ... and a receive that goes on is still no handler. *)
LEMMA ReceiveReplaced ==
  ASSUME NEW F, NEW s \in Seq(F), s # <<>>, Head(s) # HandlerFrame,
         NEW g \in F, g # HandlerFrame, g.type = "receive", NEW h \in BOOLEAN, OneHandler(h, s)
  PROVE  OneHandler(h, <<g>> \o Tail(s))
<1>1. OneHandler(h, Tail(s)) /\ Tail(s) \in Seq(F)
  BY ReceivePopped, Popped
<1>2. QED
  BY <1>1, ReceivePushed

(* At most one handler is counted. *)
LEMMA HandlersCounted ==
  ASSUME NEW s, Len(s) \in Nat, NEW h \in BOOLEAN, OneHandler(h, s)
  PROVE  Cardinality({i \in 1..Len(s) : s[i] = HandlerFrame}) = IF h THEN 1 ELSE 0
<1> DEFINE C == {i \in 1..Len(s) : s[i] = HandlerFrame}
<1>1. CASE h
  <2>1. PICK i \in 1..Len(s) : s[i] = HandlerFrame /\ \A j \in 1..Len(s) : s[j] = HandlerFrame => j = i
    BY <1>1 DEF OneHandler
  <2>2. C = {i}
    BY <2>1
  <2>3. QED
    BY <1>1, <2>2, FS_Singleton
<1>2. CASE ~h
  <2>1. C = {}
    BY <1>2 DEF OneHandler
  <2>2. QED
    BY <1>2, <2>1, FS_EmptySet
<1>3. QED
  BY <1>1, <1>2

(* The exit messages that are waiting, after an insertion and a removal *)
LEMMA ExitsInserted ==
  ASSUME TypeOK, ListInv, NEW k \in Kinds, Insert(k)
  PROVE  k # "EXIT" => EXITsInside' = EXITsInside
<1> DEFINE n == Len(kind)
<1>1. /\ Inside' = Inside \cup {n + 1} /\ Inside \subseteq Arrived
      /\ \A i \in Arrived : kind'[i] = kind[i]
      /\ kind'[n + 1] = k
  BY Inserted DEF Inside
<1> HIDE DEF n
<1>2. QED
  BY <1>1 DEF EXITsInside

(* Find replaces or pops a receive. *)
LEMMA FindKeepsHandlers ==
  ASSUME Inv, HandlerInv, InReceive, Find(Head(stack), Head(stack).cursor), handling' = handling
  PROVE  HandlerInv'
<1>i. TypeOK /\ ListInv /\ stack \in Seq(FramesUpTo(Len(kind))) /\ stack # <<>> /\ handling \in BOOLEAN
  BY DEF Inv, StackInv, InReceive, TypeOK
<1> DEFINE n == Len(kind)
           f == Head(stack)
           F == FramesUpTo(n)
<1>1. n \in Nat /\ n <= MaxMsgs /\ Cells = 0..n /\ InList \subseteq Cells
  BY <1>i, ListTypes DEF Cells, Arrived, Sentinel
<1>2. f \in F /\ Tail(stack) \in Seq(F) /\ f.type = "receive" /\ stack \in Seq(F)
  BY <1>i, HeadTailProperties DEF InReceive
<1>3. f.cursor \in Cells /\ f # HandlerFrame /\ \A g \in F : g.type = "receive" => g # HandlerFrame
  <2>1. \A g \in F : g.type = "receive" => g # HandlerFrame
    BY <1>1, FrameTypes
  <2>2. QED
    BY <1>1, <1>2, <2>1, FrameTypes
<1>4. OneHandler(handling, stack)
  BY DEF HandlerInv
<1> HIDE DEF f, n, F
<1>5. PICK i \in Cells :
           /\ next[i] \in InList
           /\ FindsNext(f, i) \/ Waits(f, i) \/ TimesOut(i)
  BY <1>i, <1>3, FindEffect DEF f
<1>6. next[i] \in 0..n /\ i \in 0..n
  BY <1>1, <1>5
<1>7. ASSUME NEW g \in F, g.type = "receive", stack' = <<g>> \o Tail(stack)
      PROVE  OneHandler(handling', stack')
  <2>1. g # HandlerFrame
    BY <1>3, <1>7
  <2>2. OneHandler(handling, <<g>> \o Tail(stack))
    BY <1>i, <1>2, <1>3, <1>4, <1>7, <2>1, ReceiveReplaced DEF f
  <2>3. QED
    BY <1>7, <2>2
<1>8. CASE FindsNext(f, i)
  <2>1. next[i] # 0 /\ stack' = <<AtMessage(f, next[i])>> \o Tail(stack)
    BY <1>8 DEF FindsNext, Sentinel
  <2>2. AtMessage(f, next[i]) \in F /\ AtMessage(f, next[i]).type = "receive"
    BY <1>1, <1>2, <1>6, <2>1, FrameMoved DEF F
  <2>3. QED
    BY <1>7, <2>1, <2>2 DEF HandlerInv
<1>9. CASE Waits(f, i)
  <2>1. stack' = <<AtEnd(f, i)>> \o Tail(stack)
    BY <1>9 DEF Waits
  <2>2. AtEnd(f, i) \in F /\ AtEnd(f, i).type = "receive"
    BY <1>1, <1>2, <1>6, FrameMoved DEF F
  <2>3. QED
    BY <1>7, <2>1, <2>2 DEF HandlerInv
<1>10. CASE TimesOut(i)
  <2>1. stack' = Tail(stack)
    BY <1>10 DEF TimesOut
  <2>2. OneHandler(handling, Tail(stack))
    BY <1>i, <1>2, <1>3, <1>4, ReceivePopped DEF f
  <2>3. QED
    BY <2>1, <2>2 DEF HandlerInv
<1>11. QED
  BY <1>5, <1>8, <1>9, <1>10

(* The helper is entered from an activation that has ended: no handler runs. *)
LEMMA StepKeepsHelp ==
  ASSUME Inv, HandlerInv, HelpInv, [Next]_mvars
  PROVE  HelpInv'
<1>i. stack \in Seq(FramesUpTo(Len(kind))) /\ handling \in BOOLEAN
  BY DEF Inv, StackInv, TypeOK
<1>n. Len(kind) \in Nat /\ Len(kind) <= MaxMsgs
  BY ListTypes DEF Inv
<1>1. ASSUME HandlerLoop
      PROVE  HelpInv'
  <2>1. stack # <<>> /\ Head(stack) = Ending /\ handling' = handling
    BY <1>1 DEF HandlerLoop
  <2>2. Ending # HandlerFrame /\ Ending.type # "receive"
    BY <1>n, FrameTypes
  <2>3. handling = FALSE
    BY <1>i, <2>1, <2>2, NoHandlerBelow DEF HandlerInv
  <2>4. QED
    BY <2>1, <2>3 DEF HelpInv
<1>2. ASSUME HandleNone \/ Mismatch
      PROVE  HelpInv'
  <2>1. CASE cpu' = "on"
    BY <2>1 DEF HelpInv
  <2>2. CASE InReceive /\ Find(Head(stack), Head(stack).cursor)
    BY <2>2, FindKeepsStack DEF HelpInv
  <2>3. QED
    BY <1>2, <2>1, <2>2 DEF HandleNone, Mismatch, InMatcher
<1>3. ASSUME UNCHANGED mvars
      PROVE  HelpInv'
  BY <1>3 DEF HelpInv, mvars
<1>4. ASSUME cpu' # "help"
      PROVE  HelpInv'
  BY <1>4 DEF HelpInv
<1>5. ASSUME NEW k \in Kinds, send(k) \/ SendSelf(k)
      PROVE  HelpInv'
  BY <1>4, <1>5 DEF send, Arrive, SendSelf
<1>6. ASSUME NEW S \in SUBSET Kinds, NEW timed \in BOOLEAN, receive(S, timed)
      PROVE  HelpInv'
  BY <1>4, <1>6 DEF receive
<1>7. ASSUME NEW x \in TrapModes, processTrapExit(x)
      PROVE  HelpInv'
  BY <1>4, <1>7 DEF processTrapExit
<1>8. ASSUME sendEXIT \/ Preempt \/ Wake \/ Resume \/ HandleTrapExit \/ Match
      PROVE  HelpInv'
  BY <1>4, <1>8 DEF sendEXIT, Arrive, Preempt, Wake, Resume, HandleTrapExit, Match
<1>9. ASSUME HandlerEnter \/ HandlerReturn \/ HandlerRaise
      PROVE  HelpInv'
  BY <1>4, <1>9 DEF HandlerEnter, HandlerReturn, HandlerRaise
<1>10. QED
  BY <1>1, <1>2, <1>3, <1>5, <1>6, <1>7, <1>8, <1>9 DEF Next

(* No EXIT message is forgotten, and one handler runs at a time. *)
ExitInv == FlagInv /\ HandlerInv

(* Every step keeps what is known of exit messages and handlers. *)
LEMMA StepKeepsExitInv ==
  ASSUME TrapModes = {"handler"}, "EXIT" \notin Sent, Inv, ExitInv, HelpInv, [Next]_mvars
  PROVE  ExitInv'
<1>i. TypeOK /\ ListInv /\ stack \in Seq(FramesUpTo(Len(kind))) /\ FlagInv /\ HandlerInv
  BY DEF Inv, StackInv, ExitInv
<1>t. trap = "handler" /\ exit \in BOOLEAN /\ handling \in BOOLEAN
  BY <1>i DEF TypeOK
<1>n. Len(kind) \in Nat /\ Len(kind) <= MaxMsgs
  BY <1>i, ListTypes
<1> DEFINE F == FramesUpTo(Len(kind))
<1>h. /\ Starting \in F /\ HandlerFrame \in F /\ Ending \in F
      /\ Starting # HandlerFrame /\ Ending # HandlerFrame
      /\ Starting.type # "receive" /\ Ending.type # "receive"
      /\ \A f \in F : f.type = "receive" => f # HandlerFrame
  BY <1>n, FrameTypes
<1>k. "EXIT" \in Kinds
  BY MailboxAssumption
<1>o. OneHandler(handling, stack)
  BY <1>i DEF HandlerInv
<1>1. ASSUME NEW k \in Kinds, send(k) \/ SendSelf(k)
      PROVE  ExitInv'
  <2>1. /\ Insert(k) /\ UNCHANGED <<handling, stack>>
        /\ exit' = exit \/ (k = "EXIT" /\ exit' = TRUE)
    BY <1>1, <1>t DEF send, SendSelf, Arrive
  <2>2. FlagInv'
    <3>1. CASE k = "EXIT"
      <4>1. exit' = TRUE
        BY <1>1, <1>t, <3>1 DEF send, SendSelf
      <4>2. QED
        BY <4>1 DEF FlagInv
    <3>2. CASE k # "EXIT"
      <4>1. EXITsInside' = EXITsInside /\ exit' = exit
        BY <1>i, <2>1, <3>2, ExitsInserted
      <4>2. QED
        BY <1>i, <4>1 DEF FlagInv
    <3>3. QED
      BY <3>1, <3>2
  <2>3. QED
    BY <1>i, <2>1, <2>2 DEF ExitInv, HandlerInv
<1>2. ASSUME sendEXIT
      PROVE  ExitInv'
  <2>1. UNCHANGED <<handling, stack>> /\ exit' = TRUE
    BY <1>2, <1>t DEF sendEXIT, Arrive
  <2>2. QED
    BY <1>i, <2>1 DEF ExitInv, FlagInv, HandlerInv
<1>3. ASSUME UNCHANGED <<kind, prev, next, exit, handling, stack>>
      PROVE  ExitInv'
  BY <1>3, <1>i, SameList DEF ExitInv, FlagInv, HandlerInv
<1>4. ASSUME HandleTrapExit
      PROVE  ExitInv'
  <2>1. exit /\ exit' = exit /\ handling' = handling /\ stack' = <<Starting>> \o stack
    BY <1>4, <1>i DEF HandleTrapExit, HandlerDue, FlagInv
  <2>2. handling = FALSE
    BY <1>4, <1>t DEF HandleTrapExit, HandlerDue, Looking, HelpInv
  <2>3. OneHandler(FALSE, stack)
    BY <1>o, <2>2
  <2>4. OneHandler(FALSE, <<Starting>> \o stack)
    BY <1>i, <1>h, <2>3, ReceivePushed
  <2>5. QED
    BY <2>1, <2>2, <2>4 DEF ExitInv, FlagInv, HandlerInv
<1>5. ASSUME HandleNone
      PROVE  ExitInv'
  <2>1. UNCHANGED <<kind, prev, next, handling>> /\ ~HandlerDue /\ exit' = (exit /\ ~Looking)
    BY <1>5 DEF HandleNone, ExitAfterCheck
  <2>2. FlagInv'
    BY <1>i, <1>t, <2>1, SameList DEF FlagInv, HandlerDue
  <2>3. HandlerInv'
    <3>1. CASE InReceive /\ Head(stack).at = "find"
      <4>1. Find(Head(stack), Head(stack).cursor)
        BY <1>5, <3>1 DEF HandleNone
      <4>2. QED
        BY <1>i, <2>1, <3>1, <4>1, FindKeepsHandlers
    <3>2. CASE ~(InReceive /\ Head(stack).at = "find")
      <4>1. stack' = stack
        BY <1>5, <3>2 DEF HandleNone
      <4>2. QED
        BY <1>o, <2>1, <4>1 DEF HandlerInv
    <3>3. QED
      BY <3>1, <3>2
  <2>4. QED
    BY <2>2, <2>3 DEF ExitInv
<1>6. ASSUME HandlerReturn
      PROVE  ExitInv'
  <2>1. /\ UNCHANGED <<kind, prev, next, exit>>
        /\ stack' = <<Ending>> \o Tail(stack) /\ stack # <<>> /\ Head(stack) = HandlerFrame
        /\ handling' = FALSE
    BY <1>6 DEF HandlerReturn
  <2>2. OneHandler(FALSE, Tail(stack)) /\ Tail(stack) \in Seq(F)
    BY <1>i, <1>o, <1>t, <2>1, HandlerPopped, Popped
  <2>3. OneHandler(FALSE, <<Ending>> \o Tail(stack))
    BY <1>h, <2>2, ReceivePushed
  <2>4. QED
    BY <1>i, <2>1, <2>3, SameList DEF ExitInv, FlagInv, HandlerInv
<1>6a. ASSUME HandlerEnter
       PROVE  ExitInv'
  <2>1. /\ UNCHANGED <<kind, prev, next, exit>>
        /\ stack' = <<HandlerFrame>> \o Tail(stack) /\ stack # <<>> /\ Head(stack) = Starting
        /\ handling' = TRUE
    BY <1>6a DEF HandlerEnter
  <2>2. handling = FALSE
    BY <1>h, <1>i, <1>o, <1>t, <2>1, NoHandlerBelow
  <2>3. OneHandler(FALSE, Tail(stack)) /\ Tail(stack) \in Seq(F)
    BY <1>h, <1>i, <1>o, <2>1, <2>2, ReceivePopped, Popped
  <2>4. OneHandler(TRUE, <<HandlerFrame>> \o Tail(stack))
    BY <1>h, <2>3, HandlerPushed
  <2>5. QED
    BY <1>i, <2>1, <2>4, SameList DEF ExitInv, FlagInv, HandlerInv
<1>6b. ASSUME HandlerLoop
       PROVE  ExitInv'
  <2>1. /\ UNCHANGED <<kind, prev, next, exit, handling>>
        /\ stack' = Tail(stack) /\ stack # <<>> /\ Head(stack) = Ending
    BY <1>6b DEF HandlerLoop
  <2>2. OneHandler(handling, Tail(stack))
    BY <1>h, <1>i, <1>o, <1>t, <2>1, ReceivePopped
  <2>3. QED
    BY <1>i, <2>1, <2>2, SameList DEF ExitInv, FlagInv, HandlerInv
<1>7. ASSUME HandlerRaise
      PROVE  ExitInv'
  <2>1. /\ UNCHANGED <<kind, prev, next, exit>>
        /\ stack' = <<>> /\ handling' = FALSE
    BY <1>7 DEF HandlerRaise
  <2>3. OneHandler(FALSE, stack')
    <3>1. Len(stack') = 0
      BY <2>1
    <3>2. QED
      BY <3>1 DEF OneHandler
  <2>4. QED
    BY <1>i, <2>1, <2>3, SameList DEF ExitInv, FlagInv, HandlerInv
<1>8. ASSUME NEW S \in SUBSET Kinds, NEW timed \in BOOLEAN, receive(S, timed)
      PROVE  ExitInv'
  <2> DEFINE f == [type |-> "receive", accepts |-> S, timed |-> timed,
                   cursor |-> Sentinel, at |-> "find"]
  <2>1. f \in F /\ f.type = "receive" /\ f # HandlerFrame
    <3>1. f \in F /\ f.type = "receive"
      BY <1>n DEF FramesUpTo, Sentinel
    <3>2. QED
      BY <1>h, <3>1
  <2>2. UNCHANGED <<kind, prev, next, exit, handling>> /\ stack' = <<f>> \o stack
    BY <1>8 DEF receive
  <2> HIDE DEF f
  <2>3. OneHandler(handling, <<f>> \o stack)
    BY <1>i, <1>o, <1>t, <2>1, ReceivePushed
  <2>4. QED
    BY <1>i, <2>2, <2>3, SameList DEF ExitInv, FlagInv, HandlerInv
<1>9. ASSUME Match
      PROVE  ExitInv'
  <2>1. /\ UNCHANGED <<kind, exit, handling>>
        /\ InMatcher /\ RemoveMsg(Head(stack).cursor) /\ stack' = Tail(stack)
    BY <1>9 DEF Match
  <2>2. stack # <<>> /\ Head(stack) \in F /\ Head(stack).type = "receive" /\ Head(stack).at = "match"
    BY <1>i, <2>1, HeadTailProperties DEF InMatcher, InReceive
  <2>3. Head(stack).cursor \in Arrived /\ Head(stack) # HandlerFrame
    BY <1>n, <2>2, FrameTypes DEF Arrived
  <2>4. EXITsInside' \subseteq EXITsInside
    BY <1>i, <2>1, <2>3, Removed DEF EXITsInside
  <2>5. OneHandler(handling, Tail(stack))
    BY <1>i, <1>o, <1>t, <2>2, <2>3, ReceivePopped
  <2>6. QED
    BY <1>i, <2>1, <2>4, <2>5 DEF ExitInv, FlagInv, HandlerInv
<1>10. ASSUME Mismatch
       PROVE  ExitInv'
  <2>1. /\ UNCHANGED <<kind, prev, next, exit, handling>>
        /\ InReceive /\ Find(Head(stack), Head(stack).cursor)
    BY <1>10 DEF Mismatch, InMatcher
  <2>2. HandlerInv'
    BY <1>i, <2>1, FindKeepsHandlers
  <2>3. QED
    BY <1>i, <2>1, <2>2, SameList DEF ExitInv, FlagInv
<1>11. ASSUME Preempt \/ Wake \/ Resume \/ (\E x \in TrapModes : processTrapExit(x)) \/ UNCHANGED mvars
       PROVE  ExitInv'
  BY <1>3, <1>11 DEF Preempt, Wake, Resume, processTrapExit, mvars
<1>12. QED
  BY <1>1, <1>2, <1>4, <1>5, <1>6, <1>6a, <1>6b, <1>7, <1>8, <1>9, <1>10, <1>11 DEF Next

(* It holds throughout. *)
LEMMA ExitInvAlways ==
  ASSUME TrapModes = {"handler"}, "EXIT" \notin Sent
  PROVE  Spec => [](ExitInv /\ HelpInv)
<1>1. Init => ExitInv /\ HelpInv
  <2>1. SUFFICES ASSUME Init
                 PROVE  ExitInv /\ HelpInv
    OBVIOUS
  <2>2. Len(kind) = 0 /\ Len(stack) = 0 /\ handling = FALSE
    BY <2>1 DEF Init
  <2>3. EXITsInside = {}
    BY <2>2 DEF EXITsInside, Inside, Arrived
  <2>4. OneHandler(FALSE, stack)
    BY <2>2 DEF OneHandler
  <2>5. QED
    BY <2>2, <2>3, <2>4 DEF ExitInv, FlagInv, HandlerInv, HelpInv
<1>2. Inv /\ ExitInv /\ HelpInv /\ [Next]_mvars => ExitInv' /\ HelpInv'
  BY StepKeepsExitInv, StepKeepsHelp DEF ExitInv
<1>3. QED
  BY <1>1, <1>2, InvAlways, PTL DEF Spec

(* A process that traps exits with a handler throughout, and whose EXIT      *)
(* messages all come from exit signals, does not lose sight of an exit       *)
(* message: pcb-exit? stays set while one is in the inbox.  And one handler  *)
(* is running exactly while pcb-handling-exit? says so, with nothing but its *)
(* own receives above it, although activations can be nested before and      *)
(* after their handlers run.                                                 *)
THEOREM ExitsAlwaysFlagged ==
  ASSUME TrapModes = {"handler"}, "EXIT" \notin Sent
  PROVE  Spec => []ExitsAreFlagged
<1>1. Inv /\ ExitInv => ExitsAreFlagged
  <2>1. SUFFICES ASSUME Inv, ExitInv
                 PROVE  ExitsAreFlagged
    OBVIOUS
  <2>2. Len(stack) \in Nat /\ handling \in BOOLEAN
    BY <2>1, LenProperties DEF Inv, TypeOK
  <2>3. OneHandler(handling, stack) /\ (EXITsInside # {} => exit)
    BY <2>1 DEF ExitInv, FlagInv, HandlerInv
  <2>4. ASSUME NEW i \in 1..Len(stack), NEW j \in 1..Len(stack), i < j, stack[j] = HandlerFrame
        PROVE  stack[i].type = "receive"
    BY <2>2, <2>3, <2>4 DEF OneHandler
  <2>5. QED
    BY <2>2, <2>3, <2>4, HandlersCounted DEF ExitsAreFlagged
<1>2. QED
  BY <1>1, InvAlways, ExitInvAlways, PTL

-----------------------------------------------------------------------------
(* What a receive has looked at *)

SeenInv == ShapeInv /\ LookInv /\ NothingMissed

(* A receive that is under way is alone on the stack. *)
LEMMA ReceiveAlone ==
  ASSUME Inv, HandlerInv, SeenInv, InReceive
  PROVE  /\ Len(stack) = 1 /\ stack[1] = Head(stack) /\ stack # <<>>
         /\ Head(stack) \notin HandlerFrames
         /\ Looked(Head(stack), kind, Inside)
         /\ ~handling
<1>1. stack \in Seq(FramesUpTo(Len(kind))) /\ stack # <<>> /\ Head(stack).type = "receive"
  BY DEF Inv, StackInv, InReceive
<1>2. Len(kind) \in Nat /\ Len(kind) <= MaxMsgs
  BY ListTypes DEF Inv
<1>3. Len(stack) \in Nat \ {0} /\ stack[1] = Head(stack) /\ Head(stack) \in FramesUpTo(Len(kind))
  BY <1>1, Popped, HeadTailProperties
<1>4. Head(stack) \notin HandlerFrames
  BY <1>1, <1>2, <1>3, FrameTypes
<1>5. 1 \in 1..Len(stack)
  BY <1>3
<1>6. Len(stack) = 1
  BY <1>3, <1>4, <1>5 DEF SeenInv, ShapeInv
<1>7. Looked(Head(stack), kind, Inside)
  BY <1>3, <1>4, <1>5 DEF SeenInv, LookInv
<1>8. ~handling
  <2>1. Head(stack) # HandlerFrame
    BY <1>2, <1>4, FrameTypes
  <2>2. QED
    BY <1>3, <1>6, <2>1 DEF HandlerInv, OneHandler
<1>9. QED
  BY <1>1, <1>3, <1>4, <1>6, <1>7, <1>8

(* Stacks that are empty or hold one receive after a step *)
LEMMA SeenEmpty ==
  ASSUME Len(stack') = 0, stack' = <<>>, cpu' # "wait"
  PROVE  SeenInv'
BY DEF SeenInv, ShapeInv, LookInv, NothingMissed, InReceive

(* Enough for a state with one receive on the stack. *)
LEMMA SeenOne ==
  ASSUME NEW g, Len(stack') = 1, stack'[1] = g, Head(stack') = g, g \notin HandlerFrames,
         Looked(g, kind', Inside'),
         cpu' = "on" => EXITsInside' = {} /\ g.at = "match",
         cpu' = "wait" => \A m \in Inside' : kind'[m] \notin g.accepts
  PROVE  SeenInv'
<1>1. \A i \in 1..Len(stack') : i = 1
  OBVIOUS
<1>2. ShapeInv'
  BY <1>1 DEF ShapeInv
<1>3. LookInv'
  BY <1>1 DEF LookInv
<1>4. NothingMissed'
  BY DEF NothingMissed
<1>5. QED
  BY <1>2, <1>3, <1>4 DEF SeenInv

(* A receive f goes on, or gives up because the inbox holds nothing it wants. *)
GoesOn(f) ==
  /\ Len(stack') = 1 /\ stack'[1].type = "receive" /\ stack'[1].accepts = f.accepts
  /\ outcome' = outcome
GivesUp(f) ==
  /\ Len(stack') = 0 /\ outcome' = <<"timeout", 0>>
  /\ \A m \in Inside : kind[m] \notin f.accepts

(* Find goes on where everything has been rejected. *)
LEMMA FindLooks ==
  ASSUME Inv, HandlerInv, SeenInv, InReceive, EXITsInside = {},
         Find(Head(stack), Head(stack).cursor),
         Head(stack).at = "match" => kind[Head(stack).cursor] \notin Head(stack).accepts,
         UNCHANGED <<kind, prev, next>>
  PROVE  SeenInv' /\ (GoesOn(Head(stack)) \/ GivesUp(Head(stack)))
<1>i. TypeOK /\ ListInv /\ stack \in Seq(FramesUpTo(Len(kind)))
  BY DEF Inv, StackInv
<1> DEFINE n == Len(kind)
           f == Head(stack)
           F == FramesUpTo(n)
           c == f.cursor
<1>1. /\ n \in Nat /\ n <= MaxMsgs /\ Cells = 0..n /\ InList \subseteq Cells
      /\ InList = Inside \cup {Sentinel} /\ Sentinel = 0 /\ Inside \subseteq Nat
  BY <1>i, ListTypes DEF Cells, Arrived, Sentinel, InList
<1>2. Len(stack) = 1 /\ stack # <<>> /\ Looked(f, kind, Inside)
  BY ReceiveAlone
<1>3. f \in F /\ Tail(stack) \in Seq(F) /\ f.type = "receive" /\ stack \in Seq(F)
      /\ Len(Tail(stack)) = 0
  BY <1>i, <1>2, HeadTailProperties DEF InReceive
<1>4. c \in Cells /\ c \in InList /\ c \in Nat /\ f.at \in {"find", "match"}
  <2>1. c \in InList
    BY <1>1, <1>2 DEF Looked
  <2>2. f.at \in {"find", "match"}
    BY <1>1, <1>3, FrameTypes
  <2> HIDE DEF c
  <2>3. c \in 0..n
    BY <1>1, <2>1
  <2>4. QED
    BY <1>1, <2>1, <2>2, <2>3
<1>5. \A m \in Inside : m <= c => kind[m] \notin f.accepts
  <2>1. ASSUME NEW m \in Inside, m <= c
        PROVE  kind[m] \notin f.accepts
    <3>1. m < c \/ (m = c /\ f.at = "find") => kind[m] \notin f.accepts
      BY <1>2 DEF Looked
    <3>2. m < c \/ m = c
      BY <1>1, <1>4, <2>1
    <3>3. QED
      BY <1>4, <3>1, <3>2
  <2>2. QED
    BY <2>1
<1>6. Inside' = Inside /\ EXITsInside' = {} /\ kind' = kind
  BY SameList
<1> HIDE DEF c
<1>7. FindsNext(f, c) \/ Waits(f, c) \/ TimesOut(c)
  <2>1. PICK i \in Cells :
           /\ f.cursor \in InList => i = f.cursor
           /\ FindsNext(f, i) \/ Waits(f, i) \/ TimesOut(i)
    BY <1>i, <1>4, FindEffect DEF c
  <2>2. QED
    BY <1>4, <2>1 DEF c
<1>8. next[c] \in InList /\ \A m \in Inside : m > c => next[c] # Sentinel /\ next[c] <= m
  BY <1>i, <1>4 DEF ListInv
<1> HIDE DEF f, F, n
<1>9. CASE FindsNext(f, c)
  <2> DEFINE g == AtMessage(f, next[c])
  <2>1. next[c] # 0 /\ next[c] \in 0..n /\ next[c] \in Inside /\ next[c] \in Nat
    BY <1>1, <1>8, <1>9 DEF FindsNext
  <2>2. stack' = <<g>> \o Tail(stack) /\ cpu' = "on"
    BY <1>9 DEF FindsNext
  <2>3. /\ g \in F /\ g.type = "receive" /\ g.cursor = next[c] /\ g.at = "match"
        /\ g.accepts = f.accepts
    <3> DEFINE d == next[c]
    <3>1. d \in 0..n /\ d # 0 /\ f \in FramesUpTo(n) /\ f.type = "receive"
      BY <1>3, <2>1 DEF F
    <3> HIDE DEF d
    <3>2. AtMessage(f, d) \in FramesUpTo(n)
      BY <1>1, <3>1, FrameMoved
    <3>3. /\ AtMessage(f, d).type = "receive" /\ AtMessage(f, d).cursor = d
          /\ AtMessage(f, d).at = "match" /\ AtMessage(f, d).accepts = f.accepts
      <4>1. n \in Nat
        BY <1>1
      <4>2. QED
        BY <3>1, <3>2, <4>1, FrameMoved
    <3>4. QED
      BY <3>2, <3>3 DEF d, F
  <2> HIDE DEF g
  <2>4. g \notin HandlerFrames
    BY <1>1, <2>3, FrameTypes DEF F
  <2>5. stack' \in Seq(F) /\ Len(stack') = 1 /\ stack'[1] = g /\ Head(stack') = g
    BY <1>2, <1>3, <2>2, <2>3, Replaced
  <2>6. Looked(g, kind, Inside)
    <3>1. kind[next[c]] # "EXIT"
      BY <2>1 DEF EXITsInside
    <3>2. ASSUME NEW m \in Inside, m < next[c]
          PROVE  kind[m] \notin f.accepts
      <4>1. ~(m > c)
        BY <1>1, <1>8, <2>1, <3>2
      <4>2. QED
        BY <1>1, <1>4, <1>5, <4>1
    <3>3. QED
      BY <2>1, <2>3, <3>1, <3>2 DEF Looked
  <2>7. GoesOn(f)
    BY <1>9, <2>3, <2>5 DEF FindsNext, GoesOn
  <2>8. QED
    BY <1>6, <2>2, <2>3, <2>4, <2>5, <2>6, <2>7, SeenOne DEF f
<1>10. CASE Waits(f, c)
  <2> DEFINE g == AtEnd(f, c)
  <2>2. stack' = <<g>> \o Tail(stack) /\ cpu' = "wait" /\ next[c] = Sentinel
    BY <1>10 DEF Waits
  <2>3. /\ g \in F /\ g.type = "receive" /\ g.cursor = c /\ g.at = "find"
        /\ g.accepts = f.accepts
    BY <1>1, <1>3, <1>4, FrameMoved DEF F
  <2> HIDE DEF g
  <2>4. g \notin HandlerFrames
    BY <1>1, <2>3, FrameTypes DEF F
  <2>5. stack' \in Seq(F) /\ Len(stack') = 1 /\ stack'[1] = g /\ Head(stack') = g
    BY <1>2, <1>3, <2>2, <2>3, Replaced
  <2>6. \A m \in Inside : kind[m] \notin g.accepts
    BY <1>1, <1>4, <1>5, <1>8, <2>2, <2>3
  <2>7. Looked(g, kind, Inside)
    BY <1>1, <1>2, <1>4, <2>3, <2>6 DEF Looked, c
  <2>8. GoesOn(f)
    BY <1>10, <2>3, <2>5 DEF Waits, GoesOn
  <2>9. QED
    BY <1>6, <2>2, <2>4, <2>5, <2>6, <2>7, <2>8, SeenOne DEF f
<1>11. CASE TimesOut(c)
  <2>1. stack' = Tail(stack) /\ cpu' = "on" /\ next[c] = Sentinel /\ outcome' = <<"timeout", 0>>
    BY <1>11 DEF TimesOut
  <2>2. Len(stack') = 0 /\ stack' = <<>>
    BY <1>3, <2>1, EmptySeq
  <2>3. \A m \in Inside : kind[m] \notin f.accepts
    BY <1>1, <1>4, <1>5, <1>8, <2>1
  <2>4. GivesUp(f)
    BY <2>1, <2>2, <2>3 DEF GivesUp
  <2>5. QED
    BY <2>1, <2>2, <2>4, SeenEmpty DEF f
<1>12. QED
  BY <1>7, <1>9, <1>10, <1>11

(* A step that takes nothing out of the inbox that a receive is at, and adds  *)
(* only behind its cursor, leaves what the receive has seen as it was.        *)
LEMMA SeenSame ==
  ASSUME SeenInv, stack' = stack, cpu' # "on" \/ ~InReceive,
         cpu' # "wait",
         NEW n \in Nat, Inside \subseteq 1..n,
         Inside' = Inside \/ Inside' = Inside \cup {n + 1},
         \A i \in 1..n : kind'[i] = kind[i],
         \A i \in 1..Len(stack) : stack[i] \notin HandlerFrames => stack[i].cursor \in 0..n
  PROVE  SeenInv'
<1>1. ShapeInv'
  BY DEF SeenInv, ShapeInv
<1>2. ASSUME NEW i \in 1..Len(stack), stack[i] \notin HandlerFrames
      PROVE  Looked(stack[i], kind', Inside')
  <2> DEFINE f == stack[i]
             c == f.cursor
  <2>1. Looked(f, kind, Inside) /\ c \in 0..n
    BY <1>2 DEF SeenInv, LookInv
  <2> HIDE DEF f
  <2>2. c \in Inside' \cup {Sentinel} /\ (c # Sentinel => kind'[c] # "EXIT")
    BY <2>1 DEF Looked, Sentinel
  <2>3. ASSUME NEW m \in Inside', m < c \/ (m = c /\ f.at = "find")
        PROVE  kind'[m] \notin f.accepts
    <3>1. m # n + 1
      BY <2>1, <2>3
    <3>2. m \in Inside /\ m \in 1..n
      BY <3>1
    <3>3. QED
      BY <2>1, <2>3, <3>2 DEF Looked
  <2>4. QED
    BY <2>2, <2>3 DEF Looked, f
<1>3. LookInv'
  <2>1. InReceive' = InReceive
    BY DEF InReceive
  <2>2. QED
    BY <1>2, <2>1 DEF LookInv
<1>4. NothingMissed'
  BY DEF NothingMissed
<1>5. QED
  BY <1>1, <1>3, <1>4 DEF SeenInv

(* Every step keeps what a receive knows of the messages it has passed. *)
LEMMA StepKeepsSeen ==
  ASSUME TrapModes = {"handler"}, "EXIT" \notin Sent, HandlersReceive = FALSE,
         Inv, ExitInv, SeenInv, [Next]_mvars
  PROVE  SeenInv'
<1>i. TypeOK /\ ListInv /\ stack \in Seq(FramesUpTo(Len(kind))) /\ FlagInv /\ HandlerInv
  BY DEF Inv, StackInv, ExitInv
<1>t. trap = "handler" /\ exit \in BOOLEAN /\ handling \in BOOLEAN /\ (cpu = "wait" => InReceive)
  BY <1>i DEF TypeOK
<1> DEFINE n == Len(kind)
           F == FramesUpTo(n)
<1>n. n \in Nat /\ n <= MaxMsgs /\ Inside \subseteq 1..n /\ Arrived = 1..n
  BY <1>i, ListTypes DEF Inside, Arrived
<1>h. /\ HandlerFrames \subseteq F /\ \A f \in HandlerFrames : f.type # "receive"
      /\ {Starting, HandlerFrame, Ending} = HandlerFrames
      /\ \A f \in F : f.type = "receive" <=> f \notin HandlerFrames
      /\ \A f \in F : f \notin HandlerFrames => f.cursor \in 0..n
  BY <1>n, FrameTypes
<1>u. InUserCode => ~InReceive
  BY <1>h DEF InUserCode, InReceive
<1>l. Len(stack) \in Nat /\ \A i \in 1..Len(stack) : stack[i] \in F
  BY <1>i, LenProperties, ElementOfSeq
<1>c. \A i \in 1..Len(stack) : stack[i] \notin HandlerFrames => stack[i].cursor \in 0..n
  BY <1>h, <1>l
<1>k. "EXIT" \in Kinds
  BY MailboxAssumption
<1> HIDE DEF n, F
<1>1. ASSUME NEW k \in Kinds, Insert(k), stack' = stack, cpu' = "ready" \/ (cpu' = "on" /\ ~InReceive)
      PROVE  SeenInv'
  <2>1. Inside' = Inside \cup {n + 1} /\ \A i \in 1..n : kind'[i] = kind[i]
    BY <1>1, <1>i, <1>n, Inserted DEF n
  <2>2. QED
    BY <1>1, <1>c, <1>n, <2>1, SeenSame
<1>2. ASSUME NEW k \in Kinds, send(k) \/ SendSelf(k) \/ sendEXIT
      PROVE  SeenInv'
  BY <1>1, <1>2, <1>k, <1>u DEF send, SendSelf, sendEXIT, Arrive
<1>3. ASSUME UNCHANGED <<kind, prev, next, stack>>, cpu' # "on" \/ ~InReceive, cpu' # "wait"
      PROVE  SeenInv'
  <2>1. Inside' = Inside
    BY <1>3, SameList
  <2>2. QED
    BY <1>3, <1>c, <1>n, <2>1, SeenSame
<1>4. ASSUME HandleTrapExit
      PROVE  SeenInv'
  <2>1. /\ stack' = <<Starting>> \o stack /\ cpu' = "on" /\ kind' = kind
    BY <1>4 DEF HandleTrapExit
  <2>2. PICK m \in EXITsInside : RemoveMsg(m)
    BY <1>4 DEF HandleTrapExit
  <2>3. Inside' = Inside \ {m} /\ kind[m] = "EXIT"
    BY <1>i, <2>1, <2>2, Removed DEF EXITsInside, Inside
  <2>4. /\ stack' # <<>> /\ Head(stack') \in HandlerFrames
        /\ Len(stack') = Len(stack) + 1 /\ stack'[1] \in HandlerFrames
        /\ \A i \in 1..Len(stack) : stack'[i + 1] = stack[i]
    BY <1>i, <1>h, <2>1, Pushed DEF F, n
  <2>6. ASSUME NEW i \in 1..Len(stack'), stack'[i] \notin HandlerFrames
        PROVE  /\ i - 1 \in 1..Len(stack) /\ stack'[i] = stack[i - 1] /\ i - 1 = Len(stack)
               /\ i = Len(stack')
    <3>1. i - 1 \in 1..Len(stack) /\ (i - 1) + 1 = i
      BY <1>l, <2>4, <2>6
    <3>2. stack'[i] = stack[i - 1]
      BY <2>4, <3>1
    <3>3. i - 1 = Len(stack)
      BY <2>6, <3>1, <3>2 DEF SeenInv, ShapeInv
    <3>4. QED
      BY <1>l, <2>4, <3>1, <3>2, <3>3
  <2>7. ShapeInv'
    BY <2>6 DEF ShapeInv
  <2>8. ASSUME NEW f, Looked(f, kind, Inside)
        PROVE  Looked(f, kind', Inside')
    BY <2>1, <2>3, <2>8 DEF Looked
  <2>9. LookInv'
    <3>1. ~InReceive'
      BY <1>h, <2>4 DEF InReceive
    <3>2. ASSUME NEW i \in 1..Len(stack'), stack'[i] \notin HandlerFrames
          PROVE  Looked(stack'[i], kind', Inside')
      <4>1. i - 1 \in 1..Len(stack) /\ stack'[i] = stack[i - 1]
        BY <2>6, <3>2
      <4>2. Looked(stack[i - 1], kind, Inside)
        BY <3>2, <4>1 DEF SeenInv, LookInv
      <4>3. QED
        BY <2>8, <4>1, <4>2
    <3>3. QED
      BY <3>1, <3>2 DEF LookInv
  <2>10. QED
    BY <2>1, <2>7, <2>9 DEF SeenInv, NothingMissed
<1>5. ASSUME HandleNone
      PROVE  SeenInv'
  <2>1. UNCHANGED <<kind, prev, next>> /\ ~HandlerDue
    BY <1>5 DEF HandleNone
  <2>2. ASSUME InReceive
        PROVE  EXITsInside = {}
    <3>1. ~handling
      BY <1>i, <2>2, ReceiveAlone
    <3>2. QED
      BY <1>5, <1>i, <1>t, <2>1, <3>1 DEF HandleNone, HandlerDue, Looking, FlagInv
  <2>3. CASE InReceive /\ Head(stack).at = "find"
    <3>1. Find(Head(stack), Head(stack).cursor)
      BY <1>5, <2>3 DEF HandleNone
    <3>2. QED
      BY <1>i, <2>1, <2>2, <2>3, <3>1, FindLooks
  <2>4. CASE InReceive /\ Head(stack).at # "find"
    <3>1. stack' = stack /\ cpu' = "on"
      BY <1>5, <2>4 DEF HandleNone
    <3>2. /\ Len(stack) = 1 /\ stack[1] = Head(stack) /\ Head(stack) \notin HandlerFrames
          /\ Looked(Head(stack), kind, Inside)
      BY <1>i, <2>4, ReceiveAlone
    <3>3. Inside' = Inside /\ EXITsInside' = {} /\ kind' = kind
      BY <2>1, <2>2, <2>4, SameList
    <3>4. Head(stack).at = "match"
      <4>1. Head(stack) \in F /\ Head(stack).type = "receive"
        BY <2>4, <1>l, <3>2 DEF InReceive
      <4>2. QED
        BY <1>n, <2>4, <4>1, FrameTypes DEF F
    <3> DEFINE g == Head(stack)
    <3>5. /\ Len(stack') = 1 /\ stack'[1] = g /\ Head(stack') = g /\ g \notin HandlerFrames
          /\ Looked(g, kind', Inside') /\ g.at = "match"
      BY <3>1, <3>2, <3>3, <3>4
    <3> HIDE DEF g
    <3>6. QED
      BY <3>1, <3>3, <3>5, SeenOne
  <2>5. CASE ~InReceive
    <3>1. stack' = stack /\ cpu' = "on"
      BY <1>5, <2>5 DEF HandleNone
    <3>2. QED
      BY <1>3, <2>1, <2>5, <3>1
  <2>6. QED
    BY <2>3, <2>4, <2>5
<1>6. ASSUME HandlerEnter \/ HandlerReturn
      PROVE  SeenInv'
  <2>1. UNCHANGED <<kind, prev, next>> /\ stack # <<>> /\ cpu' = "on"
    BY <1>6 DEF HandlerEnter, HandlerReturn
  <2>2. PICK h \in HandlerFrames : stack' = <<h>> \o Tail(stack)
    BY <1>6, <1>h DEF HandlerEnter, HandlerReturn
  <2>3. /\ Len(stack') = Len(stack) /\ stack'[1] = h /\ Head(stack') = h
        /\ \A i \in 2..Len(stack) : stack'[i] = stack[i]
    BY <1>h, <1>i, <2>1, <2>2, Replaced DEF F, n
  <2>4. ASSUME NEW i \in 1..Len(stack'), stack'[i] \notin HandlerFrames
        PROVE  i \in 1..Len(stack) /\ stack'[i] = stack[i]
    BY <1>l, <2>3, <2>4
  <2>5. ShapeInv'
    BY <2>3, <2>4 DEF SeenInv, ShapeInv
  <2>6. Inside' = Inside /\ kind' = kind
    BY <2>1, SameList
  <2>7. LookInv'
    <3>1. ~InReceive'
      BY <1>h, <2>3 DEF InReceive
    <3>2. QED
      BY <2>4, <2>6, <3>1 DEF SeenInv, LookInv
  <2>8. QED
    BY <2>1, <2>5, <2>7 DEF SeenInv, NothingMissed
<1>6a. ASSUME HandlerLoop
       PROVE  SeenInv'
  <2>1. /\ UNCHANGED <<kind, prev, next>>
        /\ stack' = Tail(stack) /\ stack # <<>> /\ cpu' = "help"
    BY <1>6a DEF HandlerLoop
  <2>2. /\ Len(stack) \in Nat \ {0} /\ Len(stack') = Len(stack) - 1
        /\ \A i \in 1..(Len(stack) - 1) : stack'[i] = stack[i + 1]
    BY <1>i, <2>1, Popped
  <2>4. ASSUME NEW i \in 1..Len(stack'), stack'[i] \notin HandlerFrames
        PROVE  i + 1 \in 1..Len(stack) /\ stack'[i] = stack[i + 1] /\ i = Len(stack')
    <3>1. i + 1 \in 1..Len(stack) /\ stack'[i] = stack[i + 1]
      BY <2>2
    <3>3. i + 1 = Len(stack)
      BY <2>4, <3>1 DEF SeenInv, ShapeInv
    <3>4. i = Len(stack')
      BY <2>2, <3>3
    <3>5. QED
      BY <3>1, <3>4
  <2>5. ShapeInv'
    BY <2>4 DEF ShapeInv
  <2>6. Inside' = Inside /\ kind' = kind
    BY <2>1, SameList
  <2>7. LookInv'
    <3>1. ASSUME NEW i \in 1..Len(stack'), stack'[i] \notin HandlerFrames
          PROVE  Looked(stack'[i], kind', Inside')
      BY <2>4, <2>6, <3>1 DEF SeenInv, LookInv
    <3>2. QED
      BY <2>1, <3>1 DEF LookInv
  <2>8. QED
    BY <2>1, <2>5, <2>7 DEF SeenInv, NothingMissed
<1>7. ASSUME HandlerRaise
      PROVE  SeenInv'
  <2>1. cpu' = "on" /\ stack' = <<>> /\ Len(stack') = 0
    BY <1>7 DEF HandlerRaise
  <2>2. QED
    BY <2>1, SeenEmpty
<1>8. ASSUME NEW S \in SUBSET Kinds, NEW timed \in BOOLEAN, receive(S, timed)
      PROVE  SeenInv'
  <2> DEFINE f == [type |-> "receive", accepts |-> S, timed |-> timed,
                   cursor |-> Sentinel, at |-> "find"]
  <2>1. f \in F /\ f \notin HandlerFrames /\ f.cursor = Sentinel /\ Sentinel = 0
    <3>1. f \in F /\ f.type = "receive" /\ f.cursor = Sentinel
      BY <1>n DEF F, FramesUpTo, Sentinel
    <3>2. QED
      BY <1>h, <3>1 DEF Sentinel
  <2>2. UNCHANGED <<kind, prev, next>> /\ stack' = <<f>> \o stack /\ stack = <<>> /\ cpu' = "check"
    BY <1>8 DEF receive
  <2> HIDE DEF f
  <2>3. Len(stack') = 1 /\ stack'[1] = f /\ Head(stack') = f
    BY <1>i, <2>1, <2>2, Pushed DEF F, n
  <2>4. Inside' = Inside /\ kind' = kind
    BY <2>2, SameList
  <2>5. Looked(f, kind, Inside)
    <3>1. f.cursor = 0 /\ \A m \in Inside : ~(m < 0) /\ m # 0
      BY <1>n, <2>1
    <3>2. QED
      BY <2>1, <3>1 DEF Looked
  <2>6. QED
    BY <2>1, <2>2, <2>3, <2>4, <2>5, SeenOne
<1>9. ASSUME Match
      PROVE  SeenInv'
  <2>1. stack' = Tail(stack) /\ InReceive /\ cpu' = "on"
    BY <1>9 DEF Match, InMatcher
  <2>2. Len(stack) = 1 /\ stack # <<>>
    BY <1>i, <2>1, ReceiveAlone
  <2>3. stack' \in Seq(F) /\ Len(stack') = 0
    BY <1>i, <2>1, <2>2, Popped DEF F, n
  <2>4. QED
    BY <2>1, <2>3, EmptySeq, SeenEmpty
<1>10. ASSUME Mismatch
       PROVE  SeenInv'
  <2>1. /\ UNCHANGED <<kind, prev, next>> /\ cpu = "on"
        /\ InReceive /\ Find(Head(stack), Head(stack).cursor)
        /\ kind[Head(stack).cursor] \notin Head(stack).accepts
    BY <1>10 DEF Mismatch, InMatcher
  <2>2. EXITsInside = {}
    BY <2>1 DEF SeenInv, LookInv
  <2>3. QED
    BY <1>i, <2>1, <2>2, FindLooks
<1>11. ASSUME Preempt \/ Wake \/ Resume \/ \E x \in TrapModes : processTrapExit(x)
       PROVE  SeenInv'
  BY <1>3, <1>11, <1>u DEF Preempt, Wake, Resume, processTrapExit
<1>12. ASSUME UNCHANGED mvars
       PROVE  SeenInv'
  <2>1. UNCHANGED <<kind, prev, next, cpu, stack>>
    BY <1>12 DEF mvars
  <2>2. Inside' = Inside /\ EXITsInside' = EXITsInside /\ InReceive' = InReceive
    BY <2>1, SameList DEF InReceive
  <2>3. QED
    BY <2>1, <2>2 DEF SeenInv, ShapeInv, LookInv, NothingMissed
<1>13. QED
  BY <1>2, <1>4, <1>5, <1>6, <1>6a, <1>7, <1>8, <1>9, <1>10, <1>11, <1>12, <1>k DEF Next

(* It holds throughout. *)
LEMMA SeenInvAlways ==
  ASSUME TrapModes = {"handler"}, "EXIT" \notin Sent, HandlersReceive = FALSE
  PROVE  Spec => []SeenInv
<1>1. Init => SeenInv
  <2>1. SUFFICES ASSUME Init
                 PROVE  SeenInv
    OBVIOUS
  <2>2. Len(stack) = 0 /\ stack = <<>> /\ cpu = "on"
    BY <2>1 DEF Init
  <2>3. QED
    BY <2>2 DEF SeenInv, ShapeInv, LookInv, NothingMissed, InReceive
<1>2. Inv /\ ExitInv /\ SeenInv /\ [Next]_mvars => SeenInv'
  BY StepKeepsSeen
<1>3. Spec => []ExitInv
  BY ExitInvAlways
<1>4. QED
  BY <1>1, <1>2, <1>3, InvAlways, PTL DEF Spec

(* A process that traps exits with a handler throughout, whose EXIT messages *)
(* all come from exit signals and whose handlers do not call receive, never  *)
(* waits in $receive while its inbox holds a message that the receive        *)
(* accepts, although the handler may remove messages around the cursor.      *)
THEOREM NothingEverMissed ==
  ASSUME TrapModes = {"handler"}, "EXIT" \notin Sent, HandlersReceive = FALSE
  PROVE  Spec => []NothingMissed
<1>1. SeenInv => NothingMissed
  BY DEF SeenInv
<1>2. QED
  BY <1>1, SeenInvAlways, PTL

-----------------------------------------------------------------------------
(* The mailbox implements the inbox that receive promises *)

AcceptedIn(s) == {s[i].accepts : i \in {j \in 1..Len(s) : s[j].type = "receive"}}

(* What the receive accepts that is alone on a stack, or on no stack *)
LEMMA AcceptedInShort ==
  ASSUME NEW s
  PROVE  /\ Len(s) = 0 => AcceptedIn(s) = {}
         /\ Len(s) = 1 /\ s[1].type = "receive" => AcceptedIn(s) = {s[1].accepts}
<1>1. ASSUME Len(s) = 0
      PROVE  AcceptedIn(s) = {}
  BY <1>1 DEF AcceptedIn
<1>2. ASSUME Len(s) = 1, s[1].type = "receive"
      PROVE  AcceptedIn(s) = {s[1].accepts}
  <2>1. {j \in 1..Len(s) : s[j].type = "receive"} = {1}
    BY <1>2
  <2>2. QED
    BY <2>1 DEF AcceptedIn
<1>3. QED
  BY <1>1, <1>2

(* A handler on top of a stack accepts nothing. *)
LEMMA AcceptedBelow ==
  ASSUME NEW s, NEW t, Len(s) \in Nat, Len(t) = Len(s) + 1, t[1].type # "receive",
         \A i \in 1..Len(s) : t[i + 1] = s[i]
  PROVE  AcceptedIn(t) = AcceptedIn(s)
<1>1. ASSUME NEW i \in 1..Len(s), s[i].type = "receive"
      PROVE  s[i].accepts \in AcceptedIn(t)
  <2>1. i + 1 \in 1..Len(t) /\ t[i + 1].type = "receive" /\ t[i + 1].accepts = s[i].accepts
    BY <1>1
  <2>2. QED
    BY <2>1 DEF AcceptedIn
<1>2. ASSUME NEW i \in 1..Len(t), t[i].type = "receive"
      PROVE  t[i].accepts \in AcceptedIn(s)
  <2>1. i # 1
    BY <1>2
  <2>2. i - 1 \in 1..Len(s) /\ (i - 1) + 1 = i
    BY <2>1
  <2>3. t[i] = s[i - 1]
    BY <2>2
  <2>4. QED
    BY <1>2, <2>2, <2>3 DEF AcceptedIn
<1>3. QED
  BY <1>1, <1>2 DEF AcceptedIn

(* Every step of the mailbox is a step of the inbox, or leaves it alone.     *)
LEMMA StepImplements ==
  ASSUME TrapModes = {"handler"}, "EXIT" \notin Sent, HandlersReceive = FALSE,
         Inv, ExitInv, SeenInv, [Next]_mvars
  PROVE  [Abstract!Next]_(Abstract!ivars)
<1>i. TypeOK /\ ListInv /\ stack \in Seq(FramesUpTo(Len(kind))) /\ FlagInv /\ HandlerInv
  BY DEF Inv, StackInv, ExitInv
<1>t. trap = "handler" /\ exit \in BOOLEAN /\ handling \in BOOLEAN
  BY <1>i DEF TypeOK
<1>n. Len(kind) \in Nat /\ Len(kind) <= MaxMsgs /\ Inside \subseteq Arrived /\ Arrived = 1..Len(kind)
  BY <1>i, ListTypes DEF Inside, Arrived
<1> DEFINE F == FramesUpTo(Len(kind))
<1>h. /\ HandlerFrames \subseteq F /\ \A f \in HandlerFrames : f.type # "receive"
      /\ {Starting, HandlerFrame, Ending} = HandlerFrames /\ "EXIT" \in Kinds
  BY <1>n, FrameTypes, MailboxAssumption
<1>a. Accepted = AcceptedIn(stack) /\ Accepted' = AcceptedIn(stack')
  BY DEF Accepted, AcceptedIn
<1>l. Len(stack) \in Nat
  BY <1>i, LenProperties
<1> HIDE DEF F
<1>s. ASSUME Inside' = Inside, kind' = kind, Accepted' = Accepted, outcome' = outcome
      PROVE  [Abstract!Next]_(Abstract!ivars)
  BY <1>s DEF Abstract!ivars
<1>r. ASSUME InReceive
      PROVE  /\ Len(stack) = 1 /\ stack[1] = Head(stack) /\ stack # <<>> /\ ~handling
             /\ Looked(Head(stack), kind, Inside)
             /\ Head(stack) \in F /\ Head(stack).type = "receive"
             /\ Accepted = {Head(stack).accepts}
  <2>1. /\ Len(stack) = 1 /\ stack[1] = Head(stack) /\ stack # <<>> /\ ~handling
        /\ Looked(Head(stack), kind, Inside) /\ Head(stack).type = "receive"
    BY <1>i, <1>r, ReceiveAlone DEF InReceive
  <2>2. Head(stack) \in F
    BY <1>i, <2>1, HeadTailProperties DEF F
  <2>3. QED
    BY <1>a, <2>1, <2>2, AcceptedInShort
<1>1. ASSUME NEW k \in Kinds, Insert(k), UNCHANGED <<stack, outcome>>
      PROVE  Abstract!Next
  <2>1. Len(kind) < MaxMsgs /\ kind' = Append(kind, k)
    BY <1>1 DEF Insert
  <2>2. Inside' = Inside \cup {Len(kind) + 1} /\ Accepted' = Accepted
    BY <1>1, <1>a, <1>i, Inserted
  <2>3. Abstract!Put(k)
    BY <1>1, <2>1, <2>2 DEF Abstract!Put
  <2>4. QED
    BY <2>3 DEF Abstract!Next
<1>2. ASSUME NEW k \in Kinds, send(k) \/ SendSelf(k) \/ sendEXIT
      PROVE  Abstract!Next
  BY <1>1, <1>2, <1>h DEF send, SendSelf, sendEXIT, Arrive
<1>3. ASSUME UNCHANGED <<kind, prev, next, stack, outcome>>
      PROVE  [Abstract!Next]_(Abstract!ivars)
  <2>1. Inside' = Inside /\ Accepted' = Accepted
    BY <1>3, <1>a, SameList
  <2>2. QED
    BY <1>3, <1>s, <2>1
<1>4. ASSUME HandleTrapExit
      PROVE  Abstract!Next
  <2>1. kind' = kind /\ stack' = <<Starting>> \o stack
    BY <1>4 DEF HandleTrapExit
  <2>2. PICK m \in EXITsInside : (\A n \in EXITsInside : m <= n) /\ RemoveMsg(m)
    BY <1>4 DEF HandleTrapExit
  <2>3. Inside' = Inside \ {m} /\ outcome' = <<"message", m>>
    <3>1. m \in Arrived
      BY DEF EXITsInside, Inside
    <3>2. QED
      BY <1>i, <2>1, <2>2, <3>1, Removed DEF RemoveMsg
  <2>4. Accepted' = Accepted
    <3>1. /\ Len(stack') = Len(stack) + 1 /\ stack'[1] = Starting
          /\ \A i \in 1..Len(stack) : stack'[i + 1] = stack[i]
      BY <1>i, <1>h, <2>1, Pushed DEF F
    <3>2. stack'[1].type # "receive"
      BY <1>h, <3>1
    <3>3. QED
      BY <1>a, <1>l, <3>1, <3>2, AcceptedBelow
  <2>5. Abstract!Of({"EXIT"}) = EXITsInside
    BY DEF Abstract!Of, EXITsInside
  <2>6. Abstract!Take({"EXIT"})
    BY <2>1, <2>2, <2>3, <2>5 DEF Abstract!Take
  <2>7. QED
    BY <2>4, <2>6 DEF Abstract!TakeEXIT, Abstract!Next
<1>5. ASSUME InReceive, EXITsInside = {}, Find(Head(stack), Head(stack).cursor),
             Head(stack).at = "match" => kind[Head(stack).cursor] \notin Head(stack).accepts,
             UNCHANGED <<kind, prev, next>>
      PROVE  [Abstract!Next]_(Abstract!ivars)
  <2>1. GoesOn(Head(stack)) \/ GivesUp(Head(stack))
    BY <1>i, <1>5, FindLooks
  <2>2. Inside' = Inside /\ Accepted = {Head(stack).accepts}
    BY <1>5, <1>r, SameList
  <2>3. CASE GoesOn(Head(stack))
    <3>1. Accepted' = Accepted /\ outcome' = outcome
      BY <1>a, <2>2, <2>3, AcceptedInShort DEF GoesOn
    <3>2. QED
      BY <1>5, <1>s, <2>2, <3>1
  <2>4. CASE GivesUp(Head(stack))
    <3>1. Accepted' = {} /\ outcome' = <<"timeout", 0>>
      BY <1>a, <2>4, AcceptedInShort DEF GivesUp
    <3>2. Abstract!Of(Head(stack).accepts) = {}
      BY <2>4 DEF GivesUp, Abstract!Of
    <3>3. Abstract!GiveUp
      BY <1>5, <2>2, <3>1, <3>2 DEF Abstract!GiveUp
    <3>4. QED
      BY <3>3 DEF Abstract!Next
  <2>5. QED
    BY <2>1, <2>3, <2>4
<1>6. ASSUME HandleNone
      PROVE  [Abstract!Next]_(Abstract!ivars)
  <2>1. UNCHANGED <<kind, prev, next>> /\ ~HandlerDue
    BY <1>6 DEF HandleNone
  <2>2. CASE InReceive /\ Head(stack).at = "find"
    <3>1. Find(Head(stack), Head(stack).cursor)
      BY <1>6, <2>2 DEF HandleNone
    <3>2. EXITsInside = {}
      BY <1>6, <1>i, <1>r, <1>t, <2>1, <2>2 DEF HandleNone, HandlerDue, Looking, FlagInv
    <3>3. QED
      BY <1>5, <2>1, <2>2, <3>1, <3>2
  <2>3. CASE ~(InReceive /\ Head(stack).at = "find")
    <3>1. UNCHANGED <<stack, outcome>>
      BY <1>6, <2>3 DEF HandleNone
    <3>2. QED
      BY <1>3, <2>1, <3>1
  <2>4. QED
    BY <2>2, <2>3
<1>7. ASSUME HandlerEnter \/ HandlerReturn \/ HandlerLoop
      PROVE  [Abstract!Next]_(Abstract!ivars)
  <2> DEFINE s == Tail(stack)
  <2>1. UNCHANGED <<kind, prev, next, outcome>> /\ stack # <<>> /\ Head(stack) \in HandlerFrames
    BY <1>7, <1>h DEF HandlerEnter, HandlerReturn, HandlerLoop
  <2>2. \/ stack' = s
        \/ \E h \in HandlerFrames : stack' = <<h>> \o s
    BY <1>7, <1>h DEF HandlerEnter, HandlerReturn, HandlerLoop
  <2>3. /\ s \in Seq(F) /\ Len(s) \in Nat /\ Len(stack) = Len(s) + 1
        /\ stack[1].type # "receive" /\ \A i \in 1..Len(s) : stack[i + 1] = s[i]
    BY <1>h, <1>i, <2>1, Popped DEF F
  <2> HIDE DEF s
  <2>4. AcceptedIn(stack) = AcceptedIn(s)
    BY <2>3, AcceptedBelow
  <2>5. AcceptedIn(stack') = AcceptedIn(s)
    <3>1. CASE stack' = s
      BY <3>1
    <3>2. ASSUME NEW h \in HandlerFrames, stack' = <<h>> \o s
          PROVE  AcceptedIn(stack') = AcceptedIn(s)
      <4>1. /\ Len(stack') = Len(s) + 1 /\ stack'[1] = h
            /\ \A i \in 1..Len(s) : stack'[i + 1] = s[i]
        BY <1>h, <2>3, <3>2, Pushed
      <4>2. stack'[1].type # "receive"
        BY <1>h, <4>1
      <4>3. QED
        BY <2>3, <4>1, <4>2, AcceptedBelow
    <3>3. QED
      BY <2>2, <3>1, <3>2
  <2>6. Accepted' = Accepted /\ Inside' = Inside
    BY <1>a, <2>1, <2>4, <2>5, SameList
  <2>7. QED
    BY <1>s, <2>1, <2>6
<1>8. ASSUME HandlerRaise
      PROVE  Abstract!Next
  <2>1. UNCHANGED <<kind, prev, next>> /\ outcome' = <<"raised", 0>> /\ stack' = <<>>
    BY <1>8 DEF HandlerRaise
  <2>2. Len(stack') = 0
    BY <2>1
  <2>3. Accepted' = {} /\ Inside' = Inside
    BY <1>a, <2>1, <2>2, AcceptedInShort, SameList
  <2>4. QED
    BY <2>1, <2>3 DEF Abstract!Abandon, Abstract!Next
<1>9. ASSUME NEW S \in SUBSET Kinds, NEW timed \in BOOLEAN, receive(S, timed)
      PROVE  Abstract!Next
  <2> DEFINE f == [type |-> "receive", accepts |-> S, timed |-> timed,
                   cursor |-> Sentinel, at |-> "find"]
  <2>1. f \in F /\ f.type = "receive" /\ f.accepts = S
    BY <1>n DEF F, FramesUpTo, Sentinel
  <2>2. /\ UNCHANGED <<kind, prev, next, outcome>>
        /\ stack' = <<f>> \o stack /\ stack = <<>> /\ Len(stack) = 0
    BY <1>9 DEF receive
  <2> HIDE DEF f
  <2>3. Len(stack') = 1 /\ stack'[1] = f
    BY <1>i, <2>1, <2>2, Pushed DEF F
  <2>4. Inside' = Inside /\ Accepted = {} /\ Accepted' = {S}
    BY <1>a, <2>1, <2>2, <2>3, AcceptedInShort, SameList
  <2>5. Abstract!Ask(S)
    BY <2>2, <2>4 DEF Abstract!Ask
  <2>6. QED
    BY <2>5 DEF Abstract!Next
<1>10. ASSUME Match
       PROVE  Abstract!Next
  <2> DEFINE f == Head(stack)
             m == f.cursor
  <2>1. /\ kind' = kind /\ InReceive /\ f.at = "match"
        /\ kind[m] \in f.accepts /\ RemoveMsg(m) /\ stack' = Tail(stack)
    BY <1>10 DEF Match, InMatcher
  <2>2. /\ Len(stack) = 1 /\ stack # <<>> /\ Looked(f, kind, Inside) /\ f \in F
        /\ f.type = "receive" /\ Accepted = {f.accepts}
    BY <1>r, <2>1
  <2>3. m \in 1..Len(kind) /\ m \in Inside
    <3>1. m \in 1..Len(kind)
      BY <1>n, <2>1, <2>2, FrameTypes DEF F
    <3>2. QED
      BY <2>2, <3>1 DEF Looked, Sentinel
  <2>4. Inside' = Inside \ {m} /\ outcome' = <<"message", m>>
    BY <1>i, <1>n, <2>1, <2>3, Removed DEF RemoveMsg
  <2>5. Len(stack') = 0
    BY <1>i, <2>1, <2>2, Popped
  <2>6. Accepted' = {}
    BY <1>a, <2>5, AcceptedInShort
  <2>7. m \in Abstract!Of(f.accepts)
    BY <2>1, <2>3 DEF Abstract!Of
  <2>8. ASSUME NEW n \in Abstract!Of(f.accepts)
        PROVE  m <= n
    <3>1. n \in Inside /\ kind[n] \in f.accepts
      BY DEF Abstract!Of
    <3>2. ~(n < m) /\ n \in Nat
      BY <1>n, <2>2, <3>1 DEF Looked
    <3>3. QED
      BY <2>3, <3>2
  <2> HIDE DEF m
  <2>9. Abstract!Take(f.accepts)
    BY <2>1, <2>4, <2>7, <2>8 DEF Abstract!Take
  <2>10. QED
    BY <2>2, <2>6, <2>9 DEF Abstract!Answer, Abstract!Next
<1>11. ASSUME Mismatch
       PROVE  [Abstract!Next]_(Abstract!ivars)
  <2>1. /\ UNCHANGED <<kind, prev, next>> /\ cpu = "on"
        /\ InReceive /\ Find(Head(stack), Head(stack).cursor)
        /\ kind[Head(stack).cursor] \notin Head(stack).accepts
    BY <1>11 DEF Mismatch, InMatcher
  <2>2. EXITsInside = {}
    BY <2>1 DEF SeenInv, LookInv
  <2>3. QED
    BY <1>5, <2>1, <2>2
<1>12. ASSUME Preempt \/ Wake \/ Resume \/ (\E x \in TrapModes : processTrapExit(x)) \/ UNCHANGED mvars
       PROVE  [Abstract!Next]_(Abstract!ivars)
  BY <1>3, <1>12 DEF Preempt, Wake, Resume, processTrapExit, mvars
<1>13. QED
  BY <1>2, <1>4, <1>6, <1>7, <1>8, <1>9, <1>10, <1>11, <1>12, <1>h DEF Next

(* Under the assumptions of NothingEverMissed $receive keeps its promise: it *)
(* takes the first message of the inbox that it accepts, gives up only when  *)
(* there is none, and the exit messages are taken for the handler in order,  *)
(* however the walk of the cursor is interleaved with @send, preemption and  *)
(* the handler's removals.                                                   *)
THEOREM MailboxImplementsInbox ==
  ASSUME TrapModes = {"handler"}, "EXIT" \notin Sent, HandlersReceive = FALSE
  PROVE  Spec => ImplementsInbox
<1>1. Init => Abstract!Init
  <2>1. SUFFICES ASSUME Init
                 PROVE  Abstract!Init
    OBVIOUS
  <2>2. kind = <<>> /\ Len(kind) = 0 /\ Len(stack) = 0 /\ outcome = <<"none", 0>>
    BY <2>1 DEF Init
  <2>3. Inside = {} /\ Accepted = {}
    BY <2>2 DEF Inside, Arrived, Accepted
  <2>4. QED
    BY <2>2, <2>3 DEF Abstract!Init
<1>2. Inv /\ ExitInv /\ SeenInv /\ [Next]_mvars => [Abstract!Next]_(Abstract!ivars)
  BY StepImplements
<1>3. QED
  BY <1>1, <1>2, InvAlways, ExitInvAlways, SeenInvAlways, PTL DEF Spec, ImplementsInbox, Abstract!Spec

=============================================================================
