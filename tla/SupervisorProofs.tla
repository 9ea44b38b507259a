--------------------------- MODULE SupervisorProofs ---------------------------
(***************************************************************************)
(* Proofs about Supervisor: its types, and its six safety properties for   *)
(* any number of children and processes, any intensity, period and time.   *)
(*                                                                         *)
(* Lists says how a handler, its next step and its lists fit together and  *)
(* that names differ; MsgInv that an EXIT or a DOWN in the inbox is from a *)
(* process that has ended, and that there is a DOWN only while a shutdown  *)
(* waits for it.  Together they are ShutdownInv, on which the others rest: *)
(*   - OwnInv: the child of every live process is still referred to;       *)
(*   - RestartInv: the times in the state are those of the last period;    *)
(*   - NoticeInv: every process that is listed will be heard of.           *)
(* A step changes the lists in one of few ways (ListStep); the proofs go   *)
(* through these instead of the actions where they can.                    *)
(***************************************************************************)
EXTENDS Supervisor, FiniteSetTheorems, SequenceTheorems, WellFoundedInduction, TLAPS

(* Lists as sets; their names *)
El(s) == {s[i] : i \in 1..Len(s)}
Distinct(s) == \A i, j \in 1..Len(s) : s[i].name = s[j].name => i = j
Apart(s, t) == \A e \in El(s), f \in El(t) : e.name # f.name

(* Handlers that start children, that shut several down, that go over all the *)
(* children, that are about one child; steps of a shutdown and of a teardown  *)
Starting == {"init", "start-child", "restart-child", "one-for-one", "one-for-all"}
Stopping == {"one-for-all", "init-failed", "terminate"}
Looping == {"init", "one-for-all", "init-failed", "terminate"}
Single == {"start-child", "restart-child", "one-for-one", "terminate-child"}
Shutting == {"monitor", "unlink", "flush", "kill", "await", "down"}
Tearing == Shutting \cup {"stop", "stopped"}

(* The handler and its next step fit together. *)
ControlInv ==
  /\ pc = "idle" <=> job = "none"
  /\ pc = "idle" => todo = <<>> /\ acc = <<>>
  /\ pc \in {"start", "link"} => job \in Starting
  /\ pc = "stop" => job \in Stopping
  /\ pc \in Shutting => job \in Stopping \cup {"terminate-child"}
  /\ pc = "stopped" => job \in {"init-failed", "terminate"} /\ todo = <<>>
  /\ pc \in Shutting \cup {"link"} => todo # <<>> /\ Current.pid \in Pids
  /\ job \in Single => Len(todo) = 1 /\ acc = <<>>
  /\ job \in {"one-for-one", "one-for-all"} => job = Strategy /\ victim # <<>>

(* Children that a loop is done with are down, those it has yet to start are *)
(* not up.                                                                   *)
DoneInv ==
  /\ pc \in Tearing /\ job # "terminate-child" => \A e \in El(acc) : e.pid = None
  /\ pc = "start" /\ job # "one-for-one" => \A e \in El(todo) : e.pid = None
  /\ pc = "link" => \A e \in El(Tail(todo)) : e.pid = None

(* Names differ. *)
NameInv ==
  /\ job \notin Looping => Distinct(children)
  /\ job \in Looping => Distinct(todo) /\ Distinct(acc) /\ Apart(todo, acc)
  /\ job = "start-child" => \A e \in El(children) : e.name # Current.name
  /\ job \in {"restart-child", "one-for-one", "terminate-child"} =>
       \E e \in El(children) : e.name = Current.name
  /\ job = "terminate-child" => Current \in El(children)
  /\ job = "one-for-one" => Head(victim).name = Current.name

(* Messages are those of processes that have ended; a DOWN is for the current *)
(* shutdown, and there is at most one.                                        *)
NoDown(box) == \A i \in 1..Len(box) : box[i].type # "DOWN"
OneDown(box, p) ==
  /\ \A i \in 1..Len(box) : box[i].type = "DOWN" => box[i].pid = p
  /\ \A i, j \in 1..Len(box) : box[i].type = "DOWN" /\ box[j].type = "DOWN" => i = j
Watching == Shutting \ {"monitor"}
MsgInv ==
  /\ \A m \in El(inbox) : m.pid \in Pids => ~Alive(m.pid)
  /\ pc \notin Watching => monitored = {} /\ NoDown(inbox)
  /\ pc \in Watching => /\ monitored \subseteq {Current.pid}
                        /\ OneDown(inbox, Current.pid)
                        /\ monitored # {} => NoDown(inbox)

-----------------------------------------------------------------------------
(* Lists of children *)

(* A set of naturals that is not empty has a least element. *)
LEMMA Least ==
  ASSUME NEW S, S \subseteq Nat, S # {}
  PROVE  Min(S) \in S /\ \A j \in S : Min(S) <= j
<1>1. PICK x \in S : \A y \in S : ~ (<<y, x>> \in OpToRel(<, Nat))
  BY NatLessThanWellFounded, WFMin
<1>2. ASSUME NEW y \in S
      PROVE  x <= y
  <2>1. <<y, x>> \in Nat \X Nat
    OBVIOUS
  <2>2. ~(y < x)
    BY <1>1, <2>1 DEF OpToRel
  <2> QED
    BY <2>2
<1> QED
  BY <1>2 DEF Min

(* A child in front of a list *)
LEMMA ConsList ==
  ASSUME NEW T, NEW s \in Seq(T), NEW c \in T
  PROVE  /\ <<c>> \o s \in Seq(T) /\ El(<<c>> \o s) = {c} \cup El(s)
         /\ <<c>> \o s # <<>> /\ Head(<<c>> \o s) = c
         /\ Distinct(s) /\ (\A e \in El(s) : e.name # c.name) => Distinct(<<c>> \o s)
<1> DEFINE t == <<c>> \o s
<1>1. /\ t \in Seq(T) /\ Len(t) = Len(s) + 1 /\ t[1] = c
      /\ \A i \in 1..Len(s) : t[i + 1] = s[i]
  <2>1. <<c>> \in Seq(T) /\ Len(<<c>>) = 1 /\ <<c>>[1] = c
    OBVIOUS
  <2>2. t \in Seq(T) /\ Len(t) = 1 + Len(s)
    BY <2>1, ConcatProperties
  <2>3. Len(s) \in Nat
    OBVIOUS
  <2> QED
    BY <2>1, <2>2, <2>3, ConcatProperties
<1>2. t # <<>> /\ Head(t) = c
  <2>1. Len(<<>>) = 0 /\ Len(s) \in Nat
    OBVIOUS
  <2>2. t # <<>>
    BY <1>1, <2>1
  <2> HIDE DEF t
  <2> QED
    BY <1>1, <2>2
<1> HIDE DEF t
<1>3. \A j \in 1..Len(t) : j = 1 \/ (j - 1 \in 1..Len(s) /\ t[j] = s[j - 1])
  <2> SUFFICES ASSUME NEW j \in 1..Len(t), j # 1
               PROVE  j - 1 \in 1..Len(s) /\ t[j] = s[j - 1]
    OBVIOUS
  <2>1. Len(s) \in Nat /\ j - 1 \in 1..Len(s)
    BY <1>1
  <2>2. t[(j - 1) + 1] = s[j - 1]
    BY <1>1, <2>1
  <2>3. (j - 1) + 1 = j
    OBVIOUS
  <2> QED
    BY <2>1, <2>2, <2>3
<1>4. Len(s) \in Nat /\ 1 \in 1..Len(t) /\ \A i \in 1..Len(s) : i + 1 \in 1..Len(t)
  BY <1>1
<1>5. El(t) = {c} \cup El(s)
  <2>1. \A e \in El(t) : e = c \/ e \in El(s)
    BY <1>1, <1>3 DEF El
  <2>2. c \in El(t)
    BY <1>1, <1>4 DEF El
  <2>3. \A e \in El(s) : e \in El(t)
    BY <1>1, <1>4 DEF El
  <2> QED
    BY <2>1, <2>2, <2>3
<1>6. ASSUME Distinct(s), \A e \in El(s) : e.name # c.name
      PROVE  Distinct(t)
  <2>1. \A i \in 1..Len(s) : s[i].name # c.name
    BY <1>6 DEF El
  <2> SUFFICES ASSUME NEW i \in 1..Len(t), NEW j \in 1..Len(t), t[i].name = t[j].name
               PROVE  i = j
    BY DEF Distinct
  <2>2. CASE i = 1 \/ j = 1
    BY <1>1, <1>3, <2>1, <2>2
  <2>3. CASE i # 1 /\ j # 1
    <3>1. i - 1 \in 1..Len(s) /\ j - 1 \in 1..Len(s) /\ s[i - 1].name = s[j - 1].name
      BY <1>3, <2>3
    <3>2. i - 1 = j - 1
      BY <1>6, <3>1 DEF Distinct
    <3> QED
      BY <3>2
  <2> QED
    BY <2>2, <2>3
<1> QED
  BY <1>1, <1>2, <1>5, <1>6 DEF t

(* The head and the tail of a list *)
LEMMA TailList ==
  ASSUME NEW T, NEW s \in Seq(T), s # <<>>
  PROVE  /\ Tail(s) \in Seq(T) /\ Head(s) \in T /\ El(s) = {Head(s)} \cup El(Tail(s))
         /\ Distinct(s) => Distinct(Tail(s)) /\ \A e \in El(Tail(s)) : e.name # Head(s).name
<1> DEFINE t == Tail(s)
<1>1. /\ t \in Seq(T) /\ Len(t) = Len(s) - 1 /\ Len(s) \in Nat /\ Len(s) >= 1
      /\ Head(s) = s[1] /\ \A i \in 1..Len(t) : t[i] = s[i + 1]
  OBVIOUS
<1> HIDE DEF t
<1>2. s[1] \in T /\ 1 \in 1..Len(s) /\ \A i \in 1..Len(t) : i + 1 \in 1..Len(s)
  BY <1>1
<1>3. \A j \in 1..Len(s) : j = 1 \/ (j - 1 \in 1..Len(t) /\ s[j] = t[j - 1])
  <2> SUFFICES ASSUME NEW j \in 1..Len(s), j # 1
               PROVE  j - 1 \in 1..Len(t) /\ s[j] = t[j - 1]
    OBVIOUS
  <2>1. j - 1 \in 1..Len(t) /\ (j - 1) + 1 = j
    BY <1>1
  <2>2. t[j - 1] = s[(j - 1) + 1]
    BY <1>1, <2>1
  <2> QED
    BY <2>1, <2>2
<1>4. El(s) = {Head(s)} \cup El(t)
  <2>1. \A e \in El(s) : e = Head(s) \/ e \in El(t)
    <3>1. \A j \in 1..Len(s) : s[j] = Head(s) \/ s[j] \in El(t)
      <4> TAKE j \in 1..Len(s)
      <4>1. CASE j = 1
        BY <1>1, <4>1
      <4>2. CASE j # 1
        BY <1>3, <4>2 DEF El
      <4> QED
        BY <4>1, <4>2
    <3> QED
      BY <3>1 DEF El
  <2>2. Head(s) \in El(s)
    BY <1>1, <1>2 DEF El
  <2>3. \A e \in El(t) : e \in El(s)
    BY <1>1, <1>2 DEF El
  <2> QED
    BY <2>1, <2>2, <2>3
<1>5. ASSUME Distinct(s)
      PROVE  Distinct(t) /\ \A e \in El(t) : e.name # Head(s).name
  <2>1. ASSUME NEW i \in 1..Len(t), NEW j \in 1..Len(t), t[i].name = t[j].name
        PROVE  i = j
    <3>1. i + 1 = j + 1
      BY <1>1, <1>2, <1>5, <2>1 DEF Distinct
    <3> QED
      BY <3>1
  <2>2. ASSUME NEW i \in 1..Len(t)
        PROVE  t[i].name # Head(s).name
    <3>1. i + 1 # 1
      OBVIOUS
    <3> QED
      BY <1>1, <1>2, <1>5, <3>1 DEF Distinct
  <2> QED
    BY <2>1, <2>2 DEF Distinct, El
<1> QED
  BY <1>1, <1>2, <1>4, <1>5 DEF t

(* Two lists whose names differ, one after the other *)
LEMMA JoinList ==
  ASSUME NEW T, NEW s \in Seq(T), NEW t \in Seq(T)
  PROVE  /\ s \o t \in Seq(T) /\ El(s \o t) = El(s) \cup El(t)
         /\ Distinct(s) /\ Distinct(t) /\ Apart(s, t) => Distinct(s \o t)
<1> DEFINE u == s \o t
<1>1. /\ u \in Seq(T) /\ Len(u) = Len(s) + Len(t) /\ Len(s) \in Nat /\ Len(t) \in Nat
      /\ \A i \in 1..Len(u) : u[i] = IF i <= Len(s) THEN s[i] ELSE t[i - Len(s)]
  BY ConcatProperties
<1> HIDE DEF u
<1>2. /\ \A i \in 1..Len(s) : i \in 1..Len(u) /\ u[i] = s[i]
      /\ \A i \in 1..Len(t) : i + Len(s) \in 1..Len(u) /\ u[i + Len(s)] = t[i]
  <2>1. \A i \in 1..Len(s) : i \in 1..Len(u) /\ i <= Len(s)
    BY <1>1
  <2>2. \A i \in 1..Len(t) : /\ i + Len(s) \in 1..Len(u) /\ ~(i + Len(s) <= Len(s))
                             /\ (i + Len(s)) - Len(s) = i
    BY <1>1
  <2> QED
    BY <1>1, <2>1, <2>2
<1>3. \A i \in 1..Len(u) :
        \/ i \in 1..Len(s) /\ u[i] = s[i]
        \/ i - Len(s) \in 1..Len(t) /\ u[i] = t[i - Len(s)]
  <2>1. \A i \in 1..Len(u) : i \in 1..Len(s) \/ (~(i <= Len(s)) /\ i - Len(s) \in 1..Len(t))
    BY <1>1
  <2>2. \A i \in 1..Len(s) : i <= Len(s)
    BY <1>1
  <2> QED
    BY <1>1, <2>1, <2>2
<1>4. El(u) = El(s) \cup El(t)
  <2>1. \A e \in El(u) : e \in El(s) \cup El(t)
    BY <1>3 DEF El
  <2>2. \A e \in El(s) \cup El(t) : e \in El(u)
    BY <1>2 DEF El
  <2> QED
    BY <2>1, <2>2
<1>5. ASSUME Distinct(s), Distinct(t), Apart(s, t)
      PROVE  Distinct(u)
  <2> SUFFICES ASSUME NEW i \in 1..Len(u), NEW j \in 1..Len(u), u[i].name = u[j].name
               PROVE  i = j
    BY DEF Distinct
  <2>1. \A k \in 1..Len(s), l \in 1..Len(t) : s[k].name # t[l].name
    BY <1>5 DEF Apart, El
  <2>2. CASE i \in 1..Len(s) /\ j \in 1..Len(s)
    BY <1>2, <1>5, <2>2 DEF Distinct
  <2>3. CASE i \notin 1..Len(s) /\ j \notin 1..Len(s)
    <3>1. i - Len(s) \in 1..Len(t) /\ u[i] = t[i - Len(s)]
      BY <1>3, <2>3
    <3>2. j - Len(s) \in 1..Len(t) /\ u[j] = t[j - Len(s)]
      BY <1>3, <2>3
    <3>3. t[i - Len(s)].name = t[j - Len(s)].name
      BY <3>1, <3>2
    <3>4. i - Len(s) = j - Len(s)
      BY <1>5, <3>1, <3>2, <3>3 DEF Distinct
    <3> QED
      BY <1>1, <3>4
  <2>4. CASE i \in 1..Len(s) /\ j \notin 1..Len(s)
    <3>1. u[i] = s[i]
      BY <1>2, <2>4
    <3>2. j - Len(s) \in 1..Len(t) /\ u[j] = t[j - Len(s)]
      BY <1>3, <2>4
    <3> QED
      BY <2>1, <2>4, <3>1, <3>2
  <2>5. CASE i \notin 1..Len(s) /\ j \in 1..Len(s)
    <3>1. u[j] = s[j]
      BY <1>2, <2>5
    <3>2. i - Len(s) \in 1..Len(t) /\ u[i] = t[i - Len(s)]
      BY <1>3, <2>5
    <3> QED
      BY <2>1, <2>5, <3>1, <3>2
  <2> QED
    BY <2>2, <2>3, <2>4, <2>5
<1> QED
  BY <1>1, <1>4, <1>5 DEF u

(* reverse *)
LEMMA ReverseList ==
  ASSUME NEW T, NEW s \in Seq(T)
  PROVE  /\ Reverse(s) \in Seq(T) /\ El(Reverse(s)) = El(s)
         /\ Distinct(s) => Distinct(Reverse(s))
<1> DEFINE r == Reverse(s)
           n == Len(s)
<1>1. n \in Nat /\ \A i \in 1..n : (n - i) + 1 \in 1..n /\ (n - ((n - i) + 1)) + 1 = i
  OBVIOUS
<1>2. r \in Seq(T) /\ Len(r) = n /\ \A i \in 1..n : r[i] = s[(n - i) + 1]
  <2>1. r = [i \in 1..n |-> s[(n - i) + 1]]
    BY DEF Reverse
  <2>2. \A i \in 1..n : s[(n - i) + 1] \in T
    BY <1>1
  <2> QED
    BY <1>1, <2>1, <2>2
<1>3. n = Len(s) /\ n = Len(r)
  BY <1>2
<1> HIDE DEF r, n
<1>4. El(r) = El(s)
  <2>1. ASSUME NEW i \in 1..n PROVE r[i] \in El(s)
    BY <1>1, <1>2, <1>3 DEF El
  <2>2. ASSUME NEW i \in 1..n PROVE s[i] \in El(r)
    <3>1. (n - i) + 1 \in 1..n /\ r[(n - i) + 1] = s[i]
      BY <1>1, <1>2
    <3> QED
      BY <1>3, <3>1 DEF El
  <2> QED
    BY <1>3, <2>1, <2>2 DEF El
<1>5. ASSUME Distinct(s), NEW i \in 1..n, NEW j \in 1..n, r[i].name = r[j].name
      PROVE  i = j
  <2>1. (n - i) + 1 = (n - j) + 1
    BY <1>1, <1>2, <1>3, <1>5 DEF Distinct
  <2> QED
    BY <1>1, <2>1
<1>6. Distinct(s) => Distinct(r)
  BY <1>3, <1>5 DEF Distinct
<1> QED
  BY <1>2, <1>4, <1>6 DEF r

(* The fields of a child *)
LEMMA ChildFields ==
  ASSUME NEW c \in Children
  PROVE  /\ c.name \in Names /\ c.pid \in Pids \cup {None}
         /\ Dead(c) \in Children /\ Dead(c).name = c.name /\ Dead(c).pid = None
         /\ \A p \in Pids : LET d == [c EXCEPT !.pid = p]
                            IN d \in Children /\ d.name = c.name /\ d.pid = p
BY DEF Children, Dead

(* A list that is changed one child at a time, names kept *)
LEMMA MapList ==
  ASSUME NEW s \in Seq(Children), NEW t, t = [i \in DOMAIN s |-> t[i]],
         \A i \in 1..Len(s) : t[i] \in Children /\ t[i].name = s[i].name
  PROVE  t \in Seq(Children) /\ Len(t) = Len(s) /\ (Distinct(s) => Distinct(t))
<1>1. DOMAIN s = 1..Len(s) /\ Len(s) \in Nat
  OBVIOUS
<1>2. t \in [1..Len(s) -> Children]
  BY <1>1
<1>3. t \in Seq(Children) /\ Len(t) = Len(s)
  BY <1>1, <1>2
<1>4. ASSUME Distinct(s), NEW i \in 1..Len(t), NEW j \in 1..Len(t), t[i].name = t[j].name
      PROVE  i = j
  BY <1>3, <1>4 DEF Distinct
<1> QED
  BY <1>3, <1>4 DEF Distinct

(* replace-child *)
LEMMA Replaced ==
  ASSUME NEW s \in Seq(Children), NEW c \in Children
  PROVE  /\ ReplaceChild(c, s) \in Seq(Children)
         /\ Distinct(s) => Distinct(ReplaceChild(c, s))
         /\ \A e \in El(ReplaceChild(c, s)) :
              \/ e = c /\ \E f \in El(s) : f.name = c.name
              \/ e \in El(s) /\ e.name # c.name
         /\ \A e \in El(s) : e.name # c.name => e \in El(ReplaceChild(c, s))
         /\ (\E e \in El(s) : e.name = c.name) => c \in El(ReplaceChild(c, s))
<1> DEFINE t == ReplaceChild(c, s)
<1>1. DOMAIN s = 1..Len(s) /\ Len(s) \in Nat /\ \A i \in 1..Len(s) : s[i] \in Children
  OBVIOUS
<1>2. t = [i \in DOMAIN s |-> t[i]]
  BY DEF ReplaceChild
<1>3. \A i \in 1..Len(s) : t[i] = IF s[i].name = c.name THEN c ELSE s[i]
  BY <1>1 DEF ReplaceChild
<1> HIDE DEF t
<1>4. \A i \in 1..Len(s) : t[i] \in Children /\ t[i].name = s[i].name
  BY <1>1, <1>3
<1>5. t \in Seq(Children) /\ Len(t) = Len(s) /\ (Distinct(s) => Distinct(t))
  BY <1>2, <1>4, MapList
<1>6. \A e \in El(t) : \/ e = c /\ \E f \in El(s) : f.name = c.name
                       \/ e \in El(s) /\ e.name # c.name
  BY <1>3, <1>5 DEF El
<1>7. \A e \in El(s) : e.name # c.name => e \in El(t)
  BY <1>3, <1>5 DEF El
<1>8. (\E e \in El(s) : e.name = c.name) => c \in El(t)
  BY <1>3, <1>5 DEF El
<1> QED
  BY <1>5, <1>6, <1>7, <1>8 DEF t

(* mark-child-dead *)
Marked(who, e) == IF who \in {e.name, e.pid} THEN Dead(e) ELSE e

(* Children are marked one by one, and keep their names. *)
LEMMA MarkedDead ==
  ASSUME NEW s \in Seq(Children), NEW who
  PROVE  /\ MarkChildDead(who, s) \in Seq(Children)
         /\ Distinct(s) => Distinct(MarkChildDead(who, s))
         /\ \A e \in El(MarkChildDead(who, s)) : \E f \in El(s) : e = Marked(who, f)
         /\ \A f \in El(s) : Marked(who, f) \in El(MarkChildDead(who, s))
<1> DEFINE t == MarkChildDead(who, s)
<1>1. DOMAIN s = 1..Len(s) /\ Len(s) \in Nat /\ \A i \in 1..Len(s) : s[i] \in Children
  OBVIOUS
<1>2. t = [i \in DOMAIN s |-> t[i]]
  BY DEF MarkChildDead
<1>3. \A i \in 1..Len(s) : t[i] = Marked(who, s[i])
  BY <1>1 DEF MarkChildDead, Marked
<1> HIDE DEF t
<1>4. \A i \in 1..Len(s) : t[i] \in Children /\ t[i].name = s[i].name
  BY <1>1, <1>3, ChildFields DEF Marked
<1>5. t \in Seq(Children) /\ Len(t) = Len(s) /\ (Distinct(s) => Distinct(t))
  BY <1>2, <1>4, MapList
<1>6. \A e \in El(t) : \E f \in El(s) : e = Marked(who, f)
  BY <1>3, <1>5 DEF El
<1>7. \A f \in El(s) : Marked(who, f) \in El(t)
  BY <1>3, <1>5 DEF El
<1> QED
  BY <1>5, <1>6, <1>7 DEF t

(* A list without one of its elements *)
LEMMA RemovedAt ==
  ASSUME NEW T, NEW s \in Seq(T), NEW i \in 1..Len(s)
  PROVE  /\ RemoveAt(s, i) \in Seq(T)
         /\ Len(RemoveAt(s, i)) = Len(s) - 1
         /\ \A j \in 1..(Len(s) - 1) : RemoveAt(s, i)[j] = s[IF j < i THEN j ELSE j + 1]
<1> DEFINE f == SubSeq(s, 1, i - 1)
           g == SubSeq(s, i + 1, Len(s))
<1>1. f \in Seq(T) /\ Len(f) = i - 1 /\ \A j \in 1..(i - 1) : f[j] = s[j]
  BY SubSeqProperties
<1>2. g \in Seq(T) /\ Len(g) = Len(s) - i /\ \A j \in 1..(Len(s) - i) : g[j] = s[i + j]
  BY SubSeqProperties
<1>3. RemoveAt(s, i) = f \o g
  BY DEF RemoveAt
<1> HIDE DEF f, g
<1>4. Len(s) \in Nat /\ i \in Int /\ f \o g \in Seq(T) /\ Len(f \o g) = Len(s) - 1
  <2>1. Len(s) \in Nat /\ i \in Int
    OBVIOUS
  <2>2. f \o g \in Seq(T) /\ Len(f \o g) = Len(f) + Len(g)
    BY <1>1, <1>2, ConcatProperties
  <2> QED
    BY <1>1, <1>2, <2>1, <2>2
<1>5. ASSUME NEW j \in 1..(Len(s) - 1)
      PROVE  (f \o g)[j] = s[IF j < i THEN j ELSE j + 1]
  <2>1. CASE j < i
    BY <1>1, <1>2, <2>1
  <2>2. CASE ~(j < i)
    <3>1. (f \o g)[j] = g[j - (i - 1)]
      BY <1>1, <1>2, <2>2
    <3>2. j - (i - 1) \in 1..(Len(s) - i) /\ i + (j - (i - 1)) = j + 1
      BY <1>4, <2>2
    <3> QED
      BY <1>2, <2>2, <3>1, <3>2
  <2> QED
    BY <2>1, <2>2
<1> QED
  BY <1>3, <1>4, <1>5

(* remove-child: one child goes, if names differ. *)
LEMMA Removed ==
  ASSUME NEW s \in Seq(Children), Distinct(s), NEW c
  PROVE  /\ RemoveChild(c, s) \in Seq(Children) /\ Distinct(RemoveChild(c, s))
         /\ El(RemoveChild(c, s)) = {e \in El(s) : e.name # c.name}
<1> DEFINE I == {i \in 1..Len(s) : s[i].name = c.name}
           t == RemoveChild(c, s)
<1>1. CASE I = {}
  <2>1. t = s
    BY <1>1 DEF RemoveChild, RemoveFirstMatch
  <2>2. \A e \in El(s) : e.name # c.name
    BY <1>1 DEF El
  <2> QED
    BY <2>1, <2>2
<1>2. CASE I # {}
  <2>1. I \subseteq Nat
    OBVIOUS
  <2>2. PICK i \in I : t = RemoveAt(s, i)
    <3>1. Min(I) \in I
      BY <1>2, <2>1, Least
    <3>2. t = RemoveAt(s, Min(I))
      BY <1>2 DEF RemoveChild, RemoveFirstMatch, SelectInSeq
    <3> QED
      BY <3>1, <3>2
  <2> DEFINE at(j) == IF j < i THEN j ELSE j + 1
  <2>3. /\ i \in 1..Len(s) /\ s[i].name = c.name /\ Len(s) \in Nat
        /\ t \in Seq(Children) /\ Len(t) = Len(s) - 1
        /\ \A j \in 1..Len(t) : t[j] = s[at(j)]
    <3>1. i \in 1..Len(s) /\ s[i].name = c.name /\ Len(s) \in Nat
      OBVIOUS
    <3> HIDE DEF I, t
    <3>2. /\ t \in Seq(Children) /\ Len(t) = Len(s) - 1
          /\ \A j \in 1..(Len(s) - 1) : t[j] = s[IF j < i THEN j ELSE j + 1]
      BY <2>2, <3>1, RemovedAt
    <3> QED
      BY <3>1, <3>2
  <2> HIDE DEF t
  <2>4. \A j \in 1..Len(t) : at(j) \in 1..Len(s) /\ at(j) # i
    BY <2>3
  <2>5. \A k \in 1..Len(s) : k # i => \E j \in 1..Len(t) : at(j) = k
    <3> SUFFICES ASSUME NEW k \in 1..Len(s), k # i
                 PROVE  \E j \in 1..Len(t) : at(j) = k
      OBVIOUS
    <3>1. CASE k < i
      <4>1. k \in 1..Len(t) /\ at(k) = k
        BY <2>3, <3>1
      <4> QED
        BY <4>1
    <3>2. CASE ~(k < i)
      <4>1. k - 1 \in 1..Len(t) /\ at(k - 1) = k
        BY <2>3, <3>2
      <4> QED
        BY <4>1
    <3> QED
      BY <3>1, <3>2
  <2>6. \A j, k \in 1..Len(t) : at(j) = at(k) => j = k
    BY <2>3
  <2> HIDE DEF at, I
  <2>7. Distinct(t)
    <3> SUFFICES ASSUME NEW j \in 1..Len(t), NEW k \in 1..Len(t), t[j].name = t[k].name
                 PROVE  j = k
      BY DEF Distinct
    <3>1. /\ at(j) \in 1..Len(s) /\ at(k) \in 1..Len(s)
          /\ t[j] = s[at(j)] /\ t[k] = s[at(k)]
      BY <2>3, <2>4
    <3>2. at(j) = at(k)
      BY <3>1 DEF Distinct
    <3> QED
      BY <2>6, <3>2
  <2>8. \A k \in 1..Len(s) : k # i => s[k].name # c.name
    BY <2>3 DEF Distinct
  <2>9. \A e \in El(t) : e \in El(s) /\ e.name # c.name
    BY <2>3, <2>4, <2>8 DEF El
  <2>10. \A e \in El(s) : e.name # c.name => e \in El(t)
    <3>1. ASSUME NEW k \in 1..Len(s), s[k].name # c.name
          PROVE  \E j \in 1..Len(t) : t[j] = s[k]
      <4>1. PICK j \in 1..Len(t) : at(j) = k
        BY <2>3, <2>5, <3>1
      <4> QED
        BY <2>3, <4>1
    <3> QED
      BY <3>1 DEF El
  <2> QED
    BY <2>3, <2>7, <2>9, <2>10 DEF t
<1> QED
  BY <1>1, <1>2

(* A process for the first child of a list *)
Born(s, p) == [s EXCEPT ![1].pid = p]

(* The first child keeps its name; the others are as they were. *)
LEMMA HeadBorn ==
  ASSUME NEW s \in Seq(Children), s # <<>>, NEW p \in Pids, NEW t, t = Born(s, p)
  PROVE  /\ t \in Seq(Children) /\ t # <<>> /\ Len(t) = Len(s)
         /\ Head(t) = [Head(s) EXCEPT !.pid = p] /\ Tail(t) = Tail(s)
         /\ Head(t).name = Head(s).name /\ Head(t).pid = p
         /\ Distinct(s) => Distinct(t)
<1>1. Len(s) \in Nat /\ Len(s) >= 1 /\ s[1] = Head(s) /\ s[1] \in Children
  OBVIOUS
<1>2. [s[1] EXCEPT !.pid = p] \in Children
  BY <1>1, ChildFields
<1>3. t = [s EXCEPT ![1] = [s[1] EXCEPT !.pid = p]]
  BY DEF Born
<1> DEFINE d == [s[1] EXCEPT !.pid = p]
<1>4. d = [Head(s) EXCEPT !.pid = p]
  BY <1>1
<1> HIDE DEF d
<1>5. t \in Seq(Children) /\ Len(t) = Len(s) /\ t[1] = d /\ \A i \in 2..Len(s) : t[i] = s[i]
  BY <1>1, <1>2, <1>3 DEF d
<1>6. t # <<>> /\ Head(t) = d
  <2>1. Len(<<>>) = 0
    OBVIOUS
  <2>2. t # <<>>
    BY <1>1, <1>5, <2>1
  <2> QED
    BY <1>5, <2>2
<1>7. Tail(t) = Tail(s)
  <2>1. Tail(t) \in Seq(Children) /\ Tail(s) \in Seq(Children) /\ Len(Tail(t)) = Len(Tail(s))
    BY <1>5, <1>6
  <2>2. \A i \in 1..Len(Tail(s)) : Tail(t)[i] = Tail(s)[i]
    BY <1>1, <1>5, <1>6
  <2> QED
    BY <2>1, <2>2, SeqEqual
<1>8. d.name = s[1].name /\ d.pid = p
  BY <1>1, ChildFields DEF d
<1>9. \A i \in 1..Len(s) : t[i].name = s[i].name
  <2> TAKE i \in 1..Len(s)
  <2>1. CASE i = 1
    BY <1>5, <1>8, <2>1
  <2>2. CASE i # 1
    BY <1>5, <2>2
  <2> QED
    BY <2>1, <2>2
<1>10. Distinct(s) => Distinct(t)
  BY <1>5, <1>9 DEF Distinct
<1> QED
  BY <1>1, <1>4, <1>5, <1>6, <1>7, <1>8, <1>10

(* find-child and find-pid *)
LEMMA Found ==
  ASSUME NEW s \in Seq(Children)
  PROVE  /\ \A n : n \in NamesOf(s) <=> \E e \in El(s) : e.name = n
         /\ \A p : p \in PidsOf(s) <=> p # None /\ \E e \in El(s) : e.pid = p
         /\ \A n \in NamesOf(s) : FindChild(n, s) \in El(s) /\ FindChild(n, s).name = n
         /\ \A p \in PidsOf(s) : FindPid(p, s) \in El(s) /\ FindPid(p, s).pid = p
         /\ El(s) \subseteq Children
<1>1. DOMAIN s = 1..Len(s) /\ \A i \in 1..Len(s) : s[i] \in Children
  OBVIOUS
<1>2. ToSet(s) = El(s)
  BY <1>1 DEF ToSet, El
<1>3. \A n : n \in NamesOf(s) <=> \E e \in El(s) : e.name = n
  BY <1>1 DEF NamesOf, El
<1>4. \A p : p \in PidsOf(s) <=> p # None /\ \E e \in El(s) : e.pid = p
  BY <1>1 DEF PidsOf, El
<1>5. \A n \in NamesOf(s) : FindChild(n, s) \in El(s) /\ FindChild(n, s).name = n
  BY <1>2, <1>3 DEF FindChild
<1>6. \A p \in PidsOf(s) : FindPid(p, s) \in El(s) /\ FindPid(p, s).pid = p
  BY <1>2, <1>4 DEF FindPid
<1>7. El(s) \subseteq Children
  BY <1>1 DEF El
<1> QED
  BY <1>3, <1>4, <1>5, <1>6, <1>7

(* The empty list, and a list of one *)
LEMMA SmallLists ==
  /\ El(<<>>) = {} /\ Distinct(<<>>) /\ <<>> \in Seq(Children) /\ Len(<<>>) = 0
  /\ \A c \in Children : /\ <<c>> \in Seq(Children) /\ <<c>> # <<>> /\ Head(<<c>>) = c
                         /\ Tail(<<c>>) = <<>> /\ Len(<<c>>) = 1 /\ El(<<c>>) = {c}
BY DEF El, Distinct

(* A list of length 0 *)
LEMMA NoElements ==
  ASSUME NEW s, Len(s) = 0
  PROVE  El(s) = {}
<1>1. 1..0 = {}
  OBVIOUS
<1>2. El(s) = {s[i] : i \in 1..0}
  BY DEF El
<1> QED
  BY <1>1, <1>2

(* What start-children leaves when a thunk fails is all the children. *)
LEMMA Unstartable ==
  ASSUME TypeOK, todo # <<>>, Distinct(todo), Distinct(acc), Apart(todo, acc)
  PROVE  /\ Unstarted \in Seq(Children) /\ El(Unstarted) = El(todo) \cup El(acc)
         /\ Distinct(Unstarted)
<1>1. todo \in Seq(Children) /\ acc \in Seq(Children)
  BY DEF TypeOK
<1>2. /\ Tail(todo) \in Seq(Children) /\ Current \in Children
      /\ El(todo) = {Current} \cup El(Tail(todo)) /\ Distinct(Tail(todo))
      /\ \A e \in El(Tail(todo)) : e.name # Current.name
  BY <1>1, TailList DEF Current
<1> DEFINE r == Reverse(Tail(todo))
           v == <<Current>>
           u == r \o v
<1>3. r \in Seq(Children) /\ El(r) = El(Tail(todo)) /\ Distinct(r)
  BY <1>2, ReverseList
<1>4. Unstarted = u \o acc
  BY DEF Unstarted
<1> HIDE DEF r
<1>5. v \in Seq(Children) /\ El(v) = {Current} /\ Distinct(v)
  BY <1>2, SmallLists DEF Distinct
<1> HIDE DEF v
<1>6. Apart(r, v)
  BY <1>2, <1>3, <1>5 DEF Apart
<1>7. u \in Seq(Children) /\ El(u) = El(todo) /\ Distinct(u)
  <2>1. u \in Seq(Children) /\ El(u) = El(r) \cup El(v) /\ Distinct(u)
    BY <1>3, <1>5, <1>6, JoinList
  <2> QED
    BY <1>2, <1>3, <1>5, <2>1
<1> HIDE DEF u
<1>8. Apart(u, acc)
  BY <1>7 DEF Apart
<1> QED
  BY <1>1, <1>4, <1>7, <1>8, JoinList

-----------------------------------------------------------------------------
(* What a step does to the lists *)

SameLists == UNCHANGED <<children, job, todo, acc, victim>>
Stays == SameLists /\ pc' = pc
Advances ==
  /\ SameLists
  /\ \/ pc = "stop" /\ todo # <<>> /\ Current.pid # None /\ pc' = "monitor"
     \/ pc \in Shutting /\ pc' \in Shutting \ {"monitor"}
     \/ pc = "stop" /\ todo = <<>> /\ job # "one-for-all" /\ pc' = "stopped"
Birth(p) ==
  /\ pc = "start" /\ todo # <<>> /\ pc' = "link"
  /\ todo' = Born(todo, p)
  /\ UNCHANGED <<children, job, acc, victim>>

(* do-start-child has returned. *)
Returned == pc \in {"start", "link"} /\ todo # <<>>
StartsMore ==
  /\ Returned /\ job \in {"init", "one-for-all"}
  /\ acc' = <<Current>> \o acc /\ todo' = Tail(todo) /\ pc' = "start"
  /\ UNCHANGED <<children, job, victim>>
StartsOne ==
  /\ Returned /\ job \notin {"init", "one-for-all"}
  /\ children' = IF job = "start-child" THEN <<Current>> \o children
                 ELSE ReplaceChild(Current, children)
  /\ Idle
InitFails ==
  /\ pc = "start" /\ todo # <<>> /\ job = "init" /\ job' = "init-failed"
  /\ TerminateChildren(Unstarted)
  /\ UNCHANGED <<children, victim>>
GivesUp ==
  /\ pc = "start" /\ todo # <<>> /\ job \notin {"init", "one-for-one", "one-for-all"}
  /\ Idle /\ UNCHANGED children
Retries ==
  /\ pc = "start" /\ todo # <<>>
  /\ \/ job = "one-for-one" /\ Restart(Head(victim), children)
     \/ job = "one-for-all" /\ Restart(Head(victim), Unstarted)
AllStarted == pc = "start" /\ todo = <<>> /\ children' = acc /\ Idle

(* A child is down. *)
EndsMore ==
  /\ pc \in {"stop", "await", "down"} /\ todo # <<>> /\ job # "terminate-child"
  /\ acc' = <<Dead(Current)>> \o acc /\ todo' = Tail(todo) /\ pc' = "stop"
  /\ UNCHANGED <<children, job, victim>>
EndsOne ==
  /\ pc \in {"await", "down"} /\ todo # <<>> /\ job = "terminate-child"
  /\ children' = ReplaceChild(Dead(Current), children) /\ Idle
StartsAgain ==
  /\ pc = "stop" /\ todo = <<>> /\ job = "one-for-all"
  /\ StartChildren(acc) /\ UNCHANGED <<children, job, victim>>

(* The server loop takes a call or a message. *)
Asks(n) ==
  /\ pc = "idle" /\ UNCHANGED <<children, acc, victim>>
  /\ \/ /\ n \notin NamesOf(children) /\ pc' = "start" /\ job' = "start-child"
        /\ todo' = <<[name |-> n, pid |-> None]>>
     \/ /\ n \in NamesOf(children) /\ FindChild(n, children).pid = None
        /\ pc' = "start" /\ job' = "restart-child" /\ todo' = <<FindChild(n, children)>>
     \/ /\ n \in NamesOf(children) /\ FindChild(n, children).pid # None
        /\ pc' = "monitor" /\ job' = "terminate-child" /\ todo' = <<FindChild(n, children)>>
Forgets(c) ==
  /\ pc = "idle" /\ c \in El(children) /\ UNCHANGED control
  /\ children' \in {RemoveChild(c, children), MarkChildDead(c.name, children)}
Restarts(c) == pc = "idle" /\ c \in El(children) /\ Restart(c, children)
Quits ==
  /\ pc = "idle" /\ job' = "terminate"
  /\ TerminateChildren(children) /\ UNCHANGED <<children, victim>>

ListStep ==
  \/ Stays \/ Advances \/ \E p \in Pids : Birth(p)
  \/ StartsMore \/ StartsOne \/ InitFails \/ GivesUp \/ Retries \/ AllStarted
  \/ EndsMore \/ EndsOne \/ StartsAgain
  \/ \E n \in Names : Asks(n)
  \/ \E c \in El(children) : Forgets(c) \/ Restarts(c)
  \/ Quits

(* A child that is down is marked dead. *)
LEMMA TerminatedEffect ==
  ASSUME ControlInv, Terminated, todo # <<>>,
         \/ pc = "stop" /\ Current.pid = None
         \/ pc \in {"await", "down"}
  PROVE  EndsMore \/ EndsOne
<1>1. pc = "stop" => job # "terminate-child"
  BY DEF ControlInv, Stopping
<1>2. CASE job = "terminate-child"
  BY <1>1, <1>2 DEF Terminated, EndsOne
<1>3. CASE job # "terminate-child"
  BY <1>3 DEF Terminated, EndsMore
<1> QED
  BY <1>2, <1>3

(* A child that is started is put into a list. *)
LEMMA StartedEffect ==
  ASSUME Returned, Started(Current)
  PROVE  StartsMore \/ StartsOne
BY DEF Started, StartedFirst, StartsMore, StartsOne

(* A step of the system is one of these steps for the lists. *)
LEMMA ListSteps ==
  ASSUME TypeOK, ControlInv, [Next]_svars
  PROVE  ListStep
<1>1. children \in Seq(Children)
  BY DEF TypeOK
<1>2. CASE UNCHANGED svars
  BY <1>2 DEF svars, server, control, ListStep, Stays, SameLists
<1>3. CASE Calls
  <2>1. PICK n \in Names : startChild(n) \/ restartChild(n) \/ terminateChild(n) \/ deleteChild(n)
    BY <1>3 DEF Calls
  <2>2. CASE startChild(n) \/ restartChild(n) \/ terminateChild(n)
    <3>1. Asks(n)
      BY <2>2 DEF startChild, restartChild, terminateChild, Call, server, Asks
    <3> QED
      BY <3>1 DEF ListStep
  <2>3. CASE deleteChild(n)
    <3> DEFINE c == FindChild(n, children)
    <3>1. c \in El(children)
      BY <1>1, <2>3, Found DEF deleteChild
    <3>2. Forgets(c)
      BY <2>3, <3>1 DEF deleteChild, Forgets
    <3> QED
      BY <3>1, <3>2 DEF ListStep
  <2> QED
    BY <2>1, <2>2, <2>3
<1>4. CASE Surroundings
  <2>1. Stays
    BY <1>4 DEF Surroundings, unlinkParent, exit, parentExit, tick, server, control, Stays,
                SameLists
  <2> QED
    BY <2>1 DEF ListStep
<1>5. CASE thunkOk
  BY <1>5 DEF thunkOk, server, ListStep, Birth, Born
<1>6. CASE linkChild \/ thunkIgnore
  <2>1. Returned
    BY <1>6 DEF linkChild, thunkIgnore, Returned, ControlInv
  <2> QED
    BY <1>6, <2>1, StartedEffect DEF linkChild, thunkIgnore, ListStep
<1>7. CASE thunkError
  <2>1. InitFails \/ GivesUp \/ Retries
    BY <1>7 DEF thunkError, NotStarted, server, InitFails, GivesUp, Retries
  <2> QED
    BY <2>1 DEF ListStep
<1>8. CASE startedAll
  BY <1>8 DEF startedAll, ListStep, AllStarted
<1>9. CASE terminateNext
  <2>1. CASE Current.pid = None
    BY <1>9, <2>1, TerminatedEffect DEF terminateNext, ListStep
  <2>2. CASE Current.pid # None
    BY <1>9, <2>2 DEF terminateNext, ListStep, Advances, SameLists
  <2> QED
    BY <2>1, <2>2
<1>10. CASE terminatedAll
  BY <1>10 DEF terminatedAll, server, ListStep, StartsAgain, Advances, SameLists
<1>11. CASE monitorChild \/ unlinkChild \/ flushExit \/ killChild \/ timeoutChild
  <2>1. Advances
    BY <1>11 DEF monitorChild, unlinkChild, flushExit, killChild, timeoutChild, server,
                 Advances, SameLists, Shutting
  <2> QED
    BY <2>1 DEF ListStep
<1>12. CASE childDown
  <2>1. pc \in {"await", "down"} /\ Terminated
    BY <1>12 DEF childDown
  <2>2. todo # <<>>
    BY <2>1 DEF ControlInv, Shutting
  <2> QED
    BY <2>1, <2>2, TerminatedEffect DEF ListStep
<1>13. CASE handleChildExit
  <2> DEFINE c == FindPid(Head(inbox).pid, children)
  <2>1. c \in El(children) /\ DoRestart(c) /\ pc = "idle"
    BY <1>1, <1>13, Found DEF handleChildExit, NextMessage
  <2> HIDE DEF c
  <2>2. Forgets(c) \/ Restarts(c)
    BY <2>1 DEF DoRestart, MarkDead, Forgets, Restarts
  <2> QED
    BY <2>1, <2>2 DEF ListStep
<1>14. CASE handleOtherExit
  BY <1>14 DEF handleOtherExit, server, control, ListStep, Stays, SameLists
<1>15. CASE handleStop
  BY <1>15 DEF handleStop, NextMessage, server, ListStep, Quits
<1> QED
  BY <1>2, <1>3, <1>4, <1>5, <1>6, <1>7, <1>8, <1>9, <1>10, <1>11, <1>12, <1>13, <1>14,
     <1>15 DEF Next, Work

-----------------------------------------------------------------------------
(* The lists and the control of the handlers *)

ListsOK ==
  /\ children \in Seq(Children) /\ todo \in Seq(Children)
  /\ acc \in Seq(Children) /\ victim \in Seq(Children)
  /\ pc \in {"idle", "start", "link", "stop", "monitor", "unlink", "flush",
            "kill", "await", "down", "stopped"}
  /\ job \in {"none", "init", "init-failed", "start-child", "restart-child",
             "terminate-child", "one-for-one", "one-for-all", "terminate"}
Lists == ListsOK /\ ControlInv /\ DoneInv /\ NameInv

(* strategic-restart, or the end of the supervisor *)
LEMMA RestartEffect ==
  ASSUME NEW c, NEW chs, Restart(c, chs)
  PROVE  /\ victim' = <<c>> /\ acc' = <<>>
         /\ \/ /\ Strategy = "one-for-one" /\ job' = Strategy
               /\ children' = chs /\ pc' = "start" /\ todo' = <<c>>
            \/ /\ Strategy = "one-for-all" /\ job' = Strategy
               /\ children' = chs /\ pc' = "stop" /\ todo' = MarkChildDead(c.pid, chs)
            \/ /\ job' = "terminate" /\ pc' = "stop"
               /\ children' = RemoveChild(c, chs) /\ todo' = RemoveChild(c, chs)
<1>1. Strategy \in {"one-for-one", "one-for-all"}
  BY SupervisorAssumption
<1> DEFINE r == PruneRestarts(<<now>> \o restarts, now)
<1>2. CASE Len(r) <= Intensity
  BY <1>1, <1>2 DEF Restart, StartChildren, TerminateChildren
<1>3. CASE ~(Len(r) <= Intensity)
  BY <1>3 DEF Restart, TerminateChildren
<1> QED
  BY <1>2, <1>3

(* A restart that begins with a list of all the children *)
LEMMA RestartLists ==
  ASSUME NEW c \in Children, NEW chs \in Seq(Children), Distinct(chs), Restart(c, chs),
         Strategy = "one-for-one" => \E e \in El(chs) : e.name = c.name
  PROVE  Lists'
<1>1. /\ <<c>> \in Seq(Children) /\ <<c>> # <<>> /\ Head(<<c>>) = c /\ Tail(<<c>>) = <<>>
      /\ Len(<<c>>) = 1 /\ El(<<c>>) = {c}
      /\ El(<<>>) = {} /\ Distinct(<<>>) /\ <<>> \in Seq(Children)
  BY SmallLists
<1>2. victim' = <<c>> /\ acc' = <<>>
  BY RestartEffect
<1>3. CASE /\ Strategy = "one-for-one" /\ job' = Strategy
           /\ children' = chs /\ pc' = "start" /\ todo' = <<c>>
  <2>1. ListsOK'
    BY <1>1, <1>2, <1>3 DEF ListsOK
  <2>2. ControlInv'
    BY <1>1, <1>2, <1>3 DEF ControlInv, Starting, Stopping, Single, Shutting
  <2>3. DoneInv'
    BY <1>3 DEF DoneInv, Tearing, Shutting
  <2>4. NameInv'
    BY <1>1, <1>2, <1>3 DEF NameInv, Looping, Current
  <2> QED
    BY <2>1, <2>2, <2>3, <2>4 DEF Lists
<1>4. ASSUME job' \in {"one-for-all", "terminate"}, job' = "one-for-all" => Strategy = job',
             pc' = "stop", children' \in Seq(Children), todo' \in Seq(Children), Distinct(todo')
      PROVE  Lists'
  <2>1. ListsOK'
    BY <1>1, <1>2, <1>4 DEF ListsOK
  <2>2. ControlInv'
    BY <1>1, <1>2, <1>4 DEF ControlInv, Starting, Stopping, Single, Shutting
  <2>3. DoneInv'
    BY <1>1, <1>2, <1>4 DEF DoneInv, Tearing, Shutting
  <2>4. NameInv'
    BY <1>1, <1>2, <1>4 DEF NameInv, Looping, Apart
  <2> QED
    BY <2>1, <2>2, <2>3, <2>4 DEF Lists
<1>5. CASE /\ Strategy = "one-for-all" /\ job' = Strategy
           /\ children' = chs /\ pc' = "stop" /\ todo' = MarkChildDead(c.pid, chs)
  BY <1>4, <1>5, MarkedDead
<1>6. CASE /\ job' = "terminate" /\ pc' = "stop"
           /\ children' = RemoveChild(c, chs) /\ todo' = RemoveChild(c, chs)
  BY <1>4, <1>6, Removed
<1> QED
  BY <1>3, <1>5, <1>6, RestartEffect

(* An idle server has a list of children with different names. *)
LEMMA IdleLists ==
  ASSUME Idle, children' \in Seq(Children), Distinct(children')
  PROVE  Lists'
<1>1. El(<<>>) = {} /\ Distinct(<<>>) /\ <<>> \in Seq(Children)
  BY SmallLists
<1>2. ListsOK'
  BY <1>1 DEF ListsOK, Idle
<1>3. ControlInv'
  BY DEF Idle, ControlInv, Starting, Stopping, Single, Shutting
<1>4. DoneInv'
  BY DEF Idle, DoneInv, Tearing, Shutting
<1>5. NameInv'
  BY DEF Idle, NameInv, Looping
<1> QED
  BY <1>2, <1>3, <1>4, <1>5 DEF Lists

(* A loop over children with different names *)
LEMMA LoopLists ==
  ASSUME children' \in Seq(Children), victim' \in Seq(Children),
         todo' \in Seq(Children), acc' \in Seq(Children), job' \in Looping,
         (pc' = "start" /\ job' \in {"init", "one-for-all"}) \/ (pc' = "stop" /\ job' \in Stopping),
         job' = "one-for-all" => Strategy = job' /\ victim' # <<>>,
         Distinct(todo'), Distinct(acc'), Apart(todo', acc'),
         pc' = "stop" => \A e \in El(acc') : e.pid = None,
         pc' = "start" => \A e \in El(todo') : e.pid = None
  PROVE  Lists'
<1>1. ListsOK'
  BY DEF ListsOK, Looping
<1>2. ControlInv'
  BY DEF ControlInv, Starting, Stopping, Single, Shutting, Looping
<1>3. DoneInv'
  BY DEF DoneInv, Tearing, Shutting, Looping
<1>4. NameInv'
  BY DEF NameInv, Looping
<1> QED
  BY <1>1, <1>2, <1>3, <1>4 DEF Lists

(* Every step keeps the lists and the control of the handlers. *)
LEMMA ListKeeps ==
  ASSUME Lists, TypeOK, ListStep
  PROVE  Lists'
<1>1. ListsOK /\ ControlInv /\ DoneInv /\ NameInv
  BY DEF Lists
<1>2. /\ children \in Seq(Children) /\ todo \in Seq(Children)
      /\ acc \in Seq(Children) /\ victim \in Seq(Children)
  BY <1>1 DEF ListsOK
<1>3. El(<<>>) = {} /\ Distinct(<<>>) /\ <<>> \in Seq(Children) /\ Len(<<>>) = 0
  BY SmallLists
<1>4. CASE Stays
  <2>1. UNCHANGED <<children, todo, acc, victim, pc, job>>
    BY <1>4 DEF Stays, SameLists
  <2> QED
    BY <1>1, <2>1 DEF Lists, ListsOK, ControlInv, DoneInv, NameInv, Current
<1>5. CASE Advances
  <2>1. UNCHANGED <<children, todo, acc, victim, job>> /\ Current' = Current
    BY <1>5 DEF Advances, SameLists, Current
  <2>2. \/ pc = "stop" /\ todo # <<>> /\ Current.pid # None /\ pc' = "monitor"
        \/ pc \in Shutting /\ pc' \in Shutting \ {"monitor"}
        \/ pc = "stop" /\ todo = <<>> /\ job # "one-for-all" /\ pc' = "stopped"
    BY <1>5 DEF Advances
  <2>3. ListsOK'
    BY <1>1, <2>1, <2>2 DEF ListsOK, Shutting
  <2>4. pc = "stop" /\ todo # <<>> /\ Current.pid # None => Current.pid \in Pids
    BY <1>2, TailList, ChildFields DEF Current
  <2>5. ControlInv'
    BY <1>1, <2>1, <2>2, <2>4 DEF ControlInv, Starting, Stopping, Shutting
  <2>6. DoneInv'
    <3>1. pc' \in Tearing /\ pc \in Tearing
      BY <2>2 DEF Tearing, Shutting
    <3>2. pc' \notin {"start", "link"}
      BY <2>2 DEF Shutting
    <3> QED
      BY <1>1, <2>1, <3>1, <3>2 DEF DoneInv
  <2>7. NameInv'
    BY <1>1, <2>1 DEF NameInv
  <2> QED
    BY <2>3, <2>5, <2>6, <2>7 DEF Lists
<1>6. ASSUME NEW p \in Pids, Birth(p)
      PROVE  Lists'
  <2>1. /\ pc = "start" /\ todo # <<>> /\ pc' = "link" /\ todo' = Born(todo, p)
        /\ UNCHANGED <<children, job, acc, victim>>
    BY <1>6 DEF Birth
  <2>2. /\ todo' \in Seq(Children) /\ todo' # <<>> /\ Len(todo') = Len(todo)
        /\ Tail(todo') = Tail(todo)
        /\ Head(todo').name = Head(todo).name /\ Head(todo').pid = p
        /\ Distinct(todo) => Distinct(todo')
    BY <1>2, <2>1, HeadBorn
  <2>3. El(todo) = {Head(todo)} \cup El(Tail(todo))
    BY <1>2, <2>1, TailList
  <2>4. El(todo') = {Head(todo')} \cup El(Tail(todo))
    BY <2>2, TailList
  <2>5. ListsOK'
    BY <1>1, <2>1, <2>2 DEF ListsOK
  <2>6. ControlInv'
    BY <1>1, <2>1, <2>2 DEF ControlInv, Starting, Stopping, Shutting, Current
  <2>7. DoneInv'
    <3>1. \A e \in El(Tail(todo)) : e.pid = None
      <4>1. CASE job = "one-for-one"
        <5>1. Len(todo) = 1
          BY <1>1, <4>1 DEF ControlInv, Single
        <5>2. Len(Tail(todo)) = 0
          BY <1>2, <2>1, <5>1
        <5> QED
          BY <5>2, NoElements
      <4>2. CASE job # "one-for-one"
        BY <1>1, <2>1, <2>3, <4>2 DEF DoneInv
      <4> QED
        BY <4>1, <4>2
    <3> QED
      BY <2>1, <2>2, <3>1 DEF DoneInv, Tearing, Shutting
  <2>8. job \in Looping => Distinct(todo')
    BY <1>1, <2>2 DEF NameInv
  <2>9. job \in Looping => Apart(todo', acc)
    BY <1>1, <2>2, <2>3, <2>4 DEF NameInv, Apart
  <2>10. job # "terminate-child"
    BY <1>1, <2>1 DEF ControlInv, Starting
  <2>11. NameInv'
    BY <1>1, <2>1, <2>2, <2>8, <2>9, <2>10 DEF NameInv, Current
  <2> QED
    BY <2>5, <2>6, <2>7, <2>11 DEF Lists
<1>7. CASE StartsMore
  <2>1. /\ pc \in {"start", "link"} /\ todo # <<>> /\ job \in {"init", "one-for-all"}
        /\ acc' = <<Current>> \o acc /\ todo' = Tail(todo) /\ pc' = "start"
        /\ UNCHANGED <<children, job, victim>>
    BY <1>7 DEF StartsMore, Returned
  <2>2. job \in Looping /\ Distinct(todo) /\ Distinct(acc) /\ Apart(todo, acc)
    BY <1>1, <2>1 DEF NameInv, Looping
  <2>3. /\ Tail(todo) \in Seq(Children) /\ Current \in Children
        /\ El(todo) = {Current} \cup El(Tail(todo)) /\ Distinct(Tail(todo))
        /\ \A e \in El(Tail(todo)) : e.name # Current.name
    BY <1>2, <2>1, <2>2, TailList DEF Current
  <2>4. \A e \in El(acc) : e.name # Current.name
    BY <2>2, <2>3 DEF Apart
  <2>5. /\ acc' \in Seq(Children) /\ El(acc') = {Current} \cup El(acc) /\ Distinct(acc')
    <3> DEFINE d == Current
    <3> HIDE DEF d
    <3>1. acc' = <<d>> \o acc /\ d \in Children /\ \A e \in El(acc) : e.name # d.name
      BY <2>1, <2>3, <2>4 DEF d
    <3>2. acc' \in Seq(Children) /\ El(acc') = {d} \cup El(acc) /\ Distinct(acc')
      BY <1>2, <2>2, <3>1, ConsList
    <3> QED
      BY <3>2 DEF d
  <2>6. Apart(todo', acc')
    BY <2>1, <2>2, <2>3, <2>5 DEF Apart
  <2>7. \A e \in El(todo') : e.pid = None
    BY <1>1, <2>1, <2>3 DEF DoneInv
  <2>8. job' = "one-for-all" => Strategy = job' /\ victim' # <<>>
    BY <1>1, <2>1 DEF ControlInv
  <2>9. children' \in Seq(Children) /\ victim' \in Seq(Children) /\ todo' \in Seq(Children)
    BY <1>2, <2>1, <2>3
  <2> QED
    BY <2>1, <2>2, <2>3, <2>5, <2>6, <2>7, <2>8, <2>9, LoopLists
<1>8. CASE StartsOne
  <2>1. /\ pc \in {"start", "link"} /\ todo # <<>> /\ job \notin {"init", "one-for-all"} /\ Idle
        /\ children' = IF job = "start-child" THEN <<Current>> \o children
                       ELSE ReplaceChild(Current, children)
    BY <1>8 DEF StartsOne, Returned
  <2>2. Current \in Children
    BY <1>2, <2>1, TailList DEF Current
  <2>3. Distinct(children)
    BY <1>1, <2>1 DEF ControlInv, NameInv, Looping, Starting
  <2> DEFINE d == Current
  <2> HIDE DEF d
  <2>4. CASE job = "start-child"
    <3>1. children' = <<d>> \o children /\ d \in Children /\ \A e \in El(children) : e.name # d.name
      BY <1>1, <2>1, <2>2, <2>4 DEF NameInv, d
    <3>2. children' \in Seq(Children) /\ Distinct(children')
      BY <1>2, <2>3, <3>1, ConsList
    <3> QED
      BY <2>1, <3>2, IdleLists
  <2>5. CASE job # "start-child"
    <3>1. children' \in Seq(Children) /\ Distinct(children')
      BY <1>2, <2>1, <2>2, <2>3, <2>5, Replaced
    <3> QED
      BY <2>1, <3>1, IdleLists
  <2> QED
    BY <2>4, <2>5
<1>9. CASE InitFails
  <2>1. /\ pc = "start" /\ todo # <<>> /\ job = "init" /\ job' = "init-failed"
        /\ pc' = "stop" /\ todo' = Unstarted /\ acc' = <<>> /\ UNCHANGED <<children, victim>>
    BY <1>9 DEF InitFails, TerminateChildren
  <2>2. Unstarted \in Seq(Children) /\ Distinct(Unstarted)
    BY <1>1, <2>1, Unstartable DEF NameInv, Looping
  <2>3. job' \in Looping /\ job' \in Stopping /\ Apart(todo', acc')
    BY <1>3, <2>1 DEF Looping, Stopping, Apart
  <2> QED
    BY <1>2, <1>3, <2>1, <2>2, <2>3, LoopLists
<1>10. CASE GivesUp
  <2>1. /\ pc = "start" /\ job \notin {"init", "one-for-one", "one-for-all"} /\ Idle
        /\ children' = children
    BY <1>10 DEF GivesUp
  <2>2. Distinct(children)
    BY <1>1, <2>1 DEF ControlInv, NameInv, Looping, Starting
  <2> QED
    BY <1>2, <2>1, <2>2, IdleLists
<1>11. CASE Retries
  <2>1. /\ pc = "start" /\ todo # <<>> /\ job \in {"one-for-one", "one-for-all"}
        /\ job = Strategy /\ victim # <<>>
        /\ job = "one-for-one" => Restart(Head(victim), children)
        /\ job = "one-for-all" => Restart(Head(victim), Unstarted)
    BY <1>1, <1>11 DEF Retries, ControlInv
  <2>2. Head(victim) \in Children
    BY <1>2, <2>1, TailList
  <2>3. CASE job = "one-for-one"
    <3>1. Distinct(children) /\ \E e \in El(children) : e.name = Head(victim).name
      BY <1>1, <2>3 DEF NameInv, Looping
    <3> QED
      BY <1>2, <2>1, <2>2, <2>3, <3>1, RestartLists
  <2>4. CASE job = "one-for-all"
    <3>1. Unstarted \in Seq(Children) /\ Distinct(Unstarted)
      BY <1>1, <2>1, <2>4, Unstartable DEF NameInv, Looping
    <3> QED
      BY <2>1, <2>2, <2>4, <3>1, RestartLists
  <2> QED
    BY <2>1, <2>3, <2>4
<1>12. CASE AllStarted
  <2>1. pc = "start" /\ todo = <<>> /\ children' = acc /\ Idle
    BY <1>12 DEF AllStarted
  <2>2. Distinct(acc)
    <3>1. Len(todo) = 0
      BY <1>3, <2>1
    <3>2. job \in Looping
      BY <1>1, <2>1, <3>1 DEF ControlInv, Looping, Starting, Single
    <3> QED
      BY <1>1, <3>2 DEF NameInv
  <2> QED
    BY <1>2, <2>1, <2>2, IdleLists
<1>13. CASE EndsMore
  <2>1. /\ pc \in {"stop", "await", "down"} /\ todo # <<>> /\ job # "terminate-child"
        /\ acc' = <<Dead(Current)>> \o acc /\ todo' = Tail(todo) /\ pc' = "stop"
        /\ UNCHANGED <<children, job, victim>>
    BY <1>13 DEF EndsMore
  <2>2. /\ job \in Looping /\ job \in Stopping
        /\ Distinct(todo) /\ Distinct(acc) /\ Apart(todo, acc)
    BY <1>1, <2>1 DEF ControlInv, NameInv, Looping, Stopping, Shutting
  <2>3. /\ Tail(todo) \in Seq(Children) /\ Current \in Children
        /\ El(todo) = {Current} \cup El(Tail(todo)) /\ Distinct(Tail(todo))
        /\ \A e \in El(Tail(todo)) : e.name # Current.name
    BY <1>2, <2>1, <2>2, TailList DEF Current
  <2>4. \A e \in El(acc) : e.name # Current.name
    BY <2>2, <2>3 DEF Apart
  <2> DEFINE d == Dead(Current)
  <2>5. d \in Children /\ d.name = Current.name /\ d.pid = None
    BY <2>3, ChildFields
  <2>6. acc' = <<d>> \o acc
    BY <2>1
  <2> HIDE DEF d
  <2>7. acc' \in Seq(Children) /\ El(acc') = {d} \cup El(acc) /\ Distinct(acc')
    BY <1>2, <2>2, <2>4, <2>5, <2>6, ConsList
  <2>8. Apart(todo', acc')
    BY <2>1, <2>2, <2>3, <2>5, <2>7 DEF Apart
  <2>9. \A e \in El(acc') : e.pid = None
    BY <1>1, <2>1, <2>5, <2>7 DEF DoneInv, Tearing, Shutting
  <2>10. job' = "one-for-all" => Strategy = job' /\ victim' # <<>>
    BY <1>1, <2>1 DEF ControlInv
  <2>11. children' \in Seq(Children) /\ victim' \in Seq(Children) /\ todo' \in Seq(Children)
    BY <1>2, <2>1, <2>3
  <2> QED
    BY <2>1, <2>2, <2>3, <2>7, <2>8, <2>9, <2>10, <2>11, LoopLists
<1>14. CASE EndsOne
  <2>1. /\ todo # <<>> /\ job = "terminate-child" /\ Idle
        /\ children' = ReplaceChild(Dead(Current), children)
    BY <1>14 DEF EndsOne
  <2>2. Dead(Current) \in Children
    BY <1>2, <2>1, TailList, ChildFields DEF Current
  <2>3. Distinct(children)
    BY <1>1, <2>1 DEF NameInv, Looping
  <2>4. children' \in Seq(Children) /\ Distinct(children')
    BY <1>2, <2>1, <2>2, <2>3, Replaced
  <2> QED
    BY <2>1, <2>4, IdleLists
<1>15. CASE StartsAgain
  <2>1. /\ pc = "stop" /\ todo = <<>> /\ job = "one-for-all"
        /\ pc' = "start" /\ todo' = acc /\ acc' = <<>> /\ UNCHANGED <<children, job, victim>>
    BY <1>15 DEF StartsAgain, StartChildren
  <2>2. Distinct(acc) /\ (\A e \in El(acc) : e.pid = None) /\ Strategy = job /\ victim # <<>>
    BY <1>1, <2>1 DEF NameInv, DoneInv, ControlInv, Looping, Tearing, Shutting
  <2>3. job' \in Looping /\ Apart(todo', acc')
    BY <1>3, <2>1 DEF Looping, Apart
  <2> QED
    BY <1>2, <1>3, <2>1, <2>2, <2>3, LoopLists
<1>16. ASSUME NEW n \in Names, Asks(n)
       PROVE  Lists'
  <2>1. pc = "idle" /\ acc = <<>> /\ UNCHANGED <<children, acc, victim>> /\ Distinct(children)
    BY <1>1, <1>16 DEF Asks, ControlInv, NameInv, Looping
  <2>2. PICK d \in Children :
          /\ todo' = <<d>>
          /\ \/ /\ \A e \in El(children) : e.name # d.name
                /\ pc' = "start" /\ job' = "start-child" /\ d.pid = None
             \/ d \in El(children) /\ pc' = "start" /\ job' = "restart-child" /\ d.pid = None
             \/ d \in El(children) /\ pc' = "monitor" /\ job' = "terminate-child" /\ d.pid # None
    <3> DEFINE new == [name |-> n, pid |-> None]
               old == FindChild(n, children)
    <3>1. new \in Children /\ new.name = n /\ new.pid = None
      BY DEF Children
    <3>2. n \in NamesOf(children) => old \in El(children) /\ old \in Children
      BY <1>2, Found
    <3>3. n \notin NamesOf(children) => \A e \in El(children) : e.name # new.name
      BY <1>2, <3>1, Found
    <3>4. \/ /\ n \notin NamesOf(children) /\ pc' = "start" /\ job' = "start-child"
             /\ todo' = <<new>>
          \/ /\ n \in NamesOf(children) /\ old.pid = None
             /\ pc' = "start" /\ job' = "restart-child" /\ todo' = <<old>>
          \/ /\ n \in NamesOf(children) /\ old.pid # None
             /\ pc' = "monitor" /\ job' = "terminate-child" /\ todo' = <<old>>
      BY <1>16 DEF Asks
    <3> HIDE DEF new, old
    <3> QED
      BY <3>1, <3>2, <3>3, <3>4
  <2>3. /\ todo' \in Seq(Children) /\ todo' # <<>> /\ Head(todo') = d /\ Len(todo') = 1
        /\ El(todo') = {d}
    BY <2>2, SmallLists
  <2>4. d.pid # None => d.pid \in Pids
    BY ChildFields
  <2>5. ListsOK'
    BY <1>1, <2>1, <2>2, <2>3 DEF ListsOK
  <2>6. ControlInv'
    BY <2>1, <2>2, <2>3, <2>4 DEF ControlInv, Starting, Stopping, Single, Shutting, Current
  <2>7. DoneInv'
    BY <2>2, <2>3 DEF DoneInv, Tearing, Shutting
  <2>8. NameInv'
    BY <2>1, <2>2, <2>3 DEF NameInv, Looping, Current
  <2> QED
    BY <2>5, <2>6, <2>7, <2>8 DEF Lists
<1>17. ASSUME NEW c \in El(children), Forgets(c)
       PROVE  Lists'
  <2>1. /\ pc = "idle" /\ job = "none" /\ UNCHANGED <<pc, job, todo, acc, victim>>
        /\ children' \in {RemoveChild(c, children), MarkChildDead(c.name, children)}
        /\ todo = <<>> /\ acc = <<>>
    BY <1>1, <1>17 DEF Forgets, control, ControlInv
  <2>2. Distinct(children)
    BY <1>1, <2>1 DEF NameInv, Looping
  <2>3. children' \in Seq(Children) /\ Distinct(children')
    <3>1. CASE children' = RemoveChild(c, children)
      BY <1>2, <2>2, <3>1, Removed
    <3>2. CASE children' = MarkChildDead(c.name, children)
      BY <1>2, <2>2, <3>2, MarkedDead
    <3> QED
      BY <2>1, <3>1, <3>2
  <2>4. ListsOK'
    BY <1>1, <2>1, <2>3 DEF ListsOK
  <2>5. ControlInv'
    BY <1>1, <2>1 DEF ControlInv, Current, Shutting, Single
  <2>6. DoneInv'
    BY <2>1 DEF DoneInv, Tearing, Shutting
  <2>7. NameInv'
    BY <2>1, <2>3 DEF NameInv, Looping
  <2> QED
    BY <2>4, <2>5, <2>6, <2>7 DEF Lists
<1>18. ASSUME NEW c \in El(children), Restarts(c)
       PROVE  Lists'
  <2>1. pc = "idle" /\ Restart(c, children) /\ c \in Children
    BY <1>2, <1>18, Found DEF Restarts
  <2>2. Distinct(children)
    BY <1>1, <2>1 DEF ControlInv, NameInv, Looping
  <2> QED
    BY <1>2, <2>1, <2>2, RestartLists
<1>19. CASE Quits
  <2>1. /\ pc = "idle" /\ job' = "terminate" /\ pc' = "stop" /\ todo' = children /\ acc' = <<>>
        /\ UNCHANGED <<children, victim>>
    BY <1>19 DEF Quits, TerminateChildren
  <2>2. Distinct(children)
    BY <1>1, <2>1 DEF ControlInv, NameInv, Looping
  <2>3. job' \in Looping /\ job' \in Stopping /\ Apart(todo', acc')
    BY <1>3, <2>1 DEF Looping, Stopping, Apart
  <2> QED
    BY <1>2, <1>3, <2>1, <2>2, <2>3, LoopLists
<1> QED
  BY <1>4, <1>5, <1>6, <1>7, <1>8, <1>9, <1>10, <1>11, <1>12, <1>13, <1>14, <1>15, <1>16,
     <1>17, <1>18, <1>19 DEF ListStep

-----------------------------------------------------------------------------
(* The inbox *)

(* The messages that are sent *)
LEMMA MsgTypes ==
  /\ \A p \in Pids \cup {Parent} :
       /\ EXITmsg(p) \in Msgs /\ EXITmsg(p).type = "EXIT" /\ EXITmsg(p).pid = p
       /\ DOWNmsg(p) \in Msgs /\ DOWNmsg(p).type = "DOWN" /\ DOWNmsg(p).pid = p
  /\ \A m \in Msgs : /\ m.type \in {"EXIT", "DOWN"} /\ m.pid \in Pids \cup {Parent}
                     /\ m.type = "EXIT" => m = EXITmsg(m.pid)
BY DEF EXITmsg, DOWNmsg, Msgs

(* A message comes in. *)
LEMMA BoxAppend ==
  ASSUME NEW box \in Seq(Msgs), NEW m \in Msgs
  PROVE  /\ Append(box, m) \in Seq(Msgs) /\ El(Append(box, m)) = El(box) \cup {m}
         /\ m.type = "EXIT" => /\ NoDown(box) => NoDown(Append(box, m))
                               /\ \A p : OneDown(box, p) => OneDown(Append(box, m), p)
         /\ m.type = "DOWN" /\ NoDown(box) => OneDown(Append(box, m), m.pid)
<1> DEFINE t == Append(box, m)
<1>1. /\ t \in Seq(Msgs) /\ Len(t) = Len(box) + 1 /\ Len(box) \in Nat
      /\ t[Len(box) + 1] = m /\ \A i \in 1..Len(box) : t[i] = box[i]
  OBVIOUS
<1> HIDE DEF t
<1>2. /\ \A i \in 1..Len(t) : i \in 1..Len(box) \/ i = Len(box) + 1
      /\ Len(box) + 1 \in 1..Len(t) /\ \A i \in 1..Len(box) : i \in 1..Len(t)
  BY <1>1
<1>3. El(t) = El(box) \cup {m}
  <2>1. \A i \in 1..Len(t) : t[i] \in El(box) \cup {m}
    BY <1>1, <1>2 DEF El
  <2>2. m \in El(t) /\ \A i \in 1..Len(box) : box[i] \in El(t)
    BY <1>1, <1>2 DEF El
  <2> QED
    BY <2>1, <2>2 DEF El
<1>4. m.type = "EXIT" /\ NoDown(box) => NoDown(t)
  BY <1>1, <1>2 DEF NoDown
<1>5. m.type = "EXIT" => \A p : OneDown(box, p) => OneDown(t, p)
  <2>1. m.type = "EXIT" => \A i \in 1..Len(t) : t[i].type = "DOWN" => i \in 1..Len(box)
    BY <1>1, <1>2
  <2> QED
    BY <1>1, <2>1 DEF OneDown
<1>6. m.type = "DOWN" /\ NoDown(box) => OneDown(t, m.pid)
  BY <1>1, <1>2 DEF OneDown, NoDown
<1> QED
  BY <1>1, <1>3, <1>4, <1>5, <1>6 DEF t

(* A message is taken. *)
LEMMA BoxRemove ==
  ASSUME NEW box \in Seq(Msgs), NEW i \in 1..Len(box)
  PROVE  /\ RemoveAt(box, i) \in Seq(Msgs) /\ El(RemoveAt(box, i)) \subseteq El(box)
         /\ \A m \in El(box) : m # box[i] => m \in El(RemoveAt(box, i))
         /\ NoDown(box) => NoDown(RemoveAt(box, i))
         /\ \A p : OneDown(box, p) =>
              /\ OneDown(RemoveAt(box, i), p)
              /\ box[i].type = "DOWN" => NoDown(RemoveAt(box, i))
<1> DEFINE t == RemoveAt(box, i)
           at(j) == IF j < i THEN j ELSE j + 1
<1>1. Len(box) \in Nat
  OBVIOUS
<1>2. /\ t \in Seq(Msgs) /\ Len(t) = Len(box) - 1
      /\ \A j \in 1..(Len(box) - 1) : t[j] = box[IF j < i THEN j ELSE j + 1]
  BY RemovedAt
<1> HIDE DEF t
<1>3. \A j \in 1..Len(t) : at(j) \in 1..Len(box) /\ at(j) # i /\ t[j] = box[at(j)]
  BY <1>1, <1>2
<1>4. \A j, k \in 1..Len(t) : at(j) = at(k) => j = k
  BY <1>1, <1>2
<1>5. ASSUME NEW k \in 1..Len(box), k # i
      PROVE  \E j \in 1..Len(t) : at(j) = k
  <2>1. CASE k < i
    <3>1. k \in 1..Len(t) /\ at(k) = k
      BY <1>1, <1>2, <2>1
    <3> QED
      BY <3>1
  <2>2. CASE ~(k < i)
    <3>1. k - 1 \in 1..Len(t) /\ at(k - 1) = k
      BY <1>1, <1>2, <1>5, <2>2
    <3> QED
      BY <3>1
  <2> QED
    BY <2>1, <2>2
<1> HIDE DEF at
<1>6. El(t) \subseteq El(box)
  BY <1>3 DEF El
<1>7. \A m \in El(box) : m # box[i] => m \in El(t)
  <2>1. ASSUME NEW k \in 1..Len(box), box[k] # box[i]
        PROVE  box[k] \in El(t)
    <3>1. PICK j \in 1..Len(t) : at(j) = k
      BY <1>5, <2>1
    <3> QED
      BY <1>3, <3>1 DEF El
  <2> QED
    BY <2>1 DEF El
<1>8. NoDown(box) => NoDown(t)
  BY <1>3 DEF NoDown
<1>9. \A p : OneDown(box, p) => OneDown(t, p)
  BY <1>3, <1>4 DEF OneDown
<1>10. \A p : OneDown(box, p) /\ box[i].type = "DOWN" => NoDown(t)
  BY <1>3 DEF OneDown, NoDown
<1> QED
  BY <1>2, <1>6, <1>7, <1>8, <1>9, <1>10 DEF t

(* The first message is taken. *)
LEMMA BoxTail ==
  ASSUME NEW box \in Seq(Msgs), box # <<>>
  PROVE  /\ Tail(box) \in Seq(Msgs) /\ El(Tail(box)) \subseteq El(box)
         /\ Head(box) \in Msgs /\ Head(box) \in El(box)
         /\ \A m \in El(box) : m # Head(box) => m \in El(Tail(box))
         /\ NoDown(box) => NoDown(Tail(box))
<1>1. /\ Tail(box) \in Seq(Msgs) /\ Head(box) \in Msgs
      /\ El(box) = {Head(box)} \cup El(Tail(box))
  BY TailList
<1>2. \A b \in Seq(Msgs) : NoDown(b) <=> \A m \in El(b) : m.type # "DOWN"
  BY DEF NoDown, El
<1> QED
  BY <1>1, <1>2

(* What the end of a process tells the supervisor *)
LEMMA DieEffect ==
  ASSUME NEW p \in Pids, NEW r, Die(p, r), TypeOK,
         p \in monitored => NoDown(inbox)
  PROVE  /\ proc' = [proc EXCEPT ![p] = r] /\ owner' = [owner EXCEPT ![p] = None]
         /\ linked' = linked \ {p} /\ monitored' = monitored \ {p}
         /\ inbox' \in Seq(Msgs) /\ El(inbox) \subseteq El(inbox')
         /\ \A m \in El(inbox') : m \in El(inbox) \/ m.pid = p
         /\ p \in linked /\ pc # "stopped" => EXITmsg(p) \in El(inbox')
         /\ p \notin monitored /\ NoDown(inbox) => NoDown(inbox')
         /\ p \notin monitored => \A q : OneDown(inbox, q) => OneDown(inbox', q)
         /\ p \in monitored => OneDown(inbox', p)
<1>1. inbox \in Seq(Msgs)
  BY DEF TypeOK
<1>2. /\ EXITmsg(p) \in Msgs /\ EXITmsg(p).type = "EXIT" /\ EXITmsg(p).pid = p
      /\ DOWNmsg(p) \in Msgs /\ DOWNmsg(p).type = "DOWN" /\ DOWNmsg(p).pid = p
  BY MsgTypes
<1>3. /\ proc' = [proc EXCEPT ![p] = r] /\ owner' = [owner EXCEPT ![p] = None]
      /\ linked' = linked \ {p} /\ monitored' = monitored \ {p}
  BY DEF Die
<1> DEFINE x == EXITmsg(p)
           d == DOWNmsg(p)
           e == Append(inbox, x)
<1>4. /\ pc = "stopped" \/ (p \notin linked /\ p \notin monitored) => inbox' = inbox
      /\ pc # "stopped" /\ p \in linked /\ p \notin monitored => inbox' = e
      /\ pc # "stopped" /\ p \notin linked /\ p \in monitored => inbox' = Append(inbox, d)
      /\ pc # "stopped" /\ p \in linked /\ p \in monitored => inbox' = Append(e, d)
  <2> HIDE DEF x, d
  <2>1. inbox' = IF pc = "stopped" THEN inbox
                 ELSE inbox \o (IF p \in linked THEN <<x>> ELSE <<>>)
                            \o (IF p \in monitored THEN <<d>> ELSE <<>>)
    BY DEF Die, x, d
  <2>2. /\ inbox \o <<>> = inbox /\ inbox \o <<x>> = e /\ inbox \o <<d>> = Append(inbox, d)
        /\ e \o <<d>> = Append(e, d) /\ e \o <<>> = e
    BY <1>1, <1>2 DEF x, d
  <2> QED
    BY <2>1, <2>2
<1>5. x \in Msgs /\ x.type = "EXIT" /\ x.pid = p /\ d \in Msgs /\ d.type = "DOWN" /\ d.pid = p
  BY <1>2
<1> HIDE DEF x, d
<1>6. /\ e \in Seq(Msgs) /\ El(e) = El(inbox) \cup {x} /\ (NoDown(inbox) => NoDown(e))
      /\ \A q : OneDown(inbox, q) => OneDown(e, q)
  BY <1>1, <1>5, BoxAppend
<1> HIDE DEF e
<1> DEFINE Told ==
      /\ inbox' \in Seq(Msgs) /\ El(inbox) \subseteq El(inbox')
      /\ \A m \in El(inbox') : m \in El(inbox) \/ m.pid = p
      /\ p \in linked /\ pc # "stopped" => x \in El(inbox')
      /\ p \notin monitored /\ NoDown(inbox) => NoDown(inbox')
      /\ p \notin monitored => \A q : OneDown(inbox, q) => OneDown(inbox', q)
      /\ p \in monitored => OneDown(inbox', p)
<1>7. ASSUME pc = "stopped" \/ (p \notin linked /\ p \notin monitored)
      PROVE  Told
  <2>1. NoDown(inbox) => OneDown(inbox, p)
    BY DEF NoDown, OneDown
  <2> QED
    BY <1>1, <1>4, <1>7, <2>1
<1>8. ASSUME pc # "stopped", p \in linked, p \notin monitored
      PROVE  Told
  BY <1>4, <1>5, <1>6, <1>8
<1>9. ASSUME pc # "stopped", p \notin linked, p \in monitored
      PROVE  Told
  <2>1. inbox' \in Seq(Msgs) /\ El(inbox') = El(inbox) \cup {d} /\ OneDown(inbox', p)
    <3>1. inbox' = Append(inbox, d) /\ NoDown(inbox)
      BY <1>4, <1>9
    <3> QED
      BY <1>1, <1>5, <3>1, BoxAppend
  <2> QED
    BY <1>5, <1>9, <2>1
<1>10. ASSUME pc # "stopped", p \in linked, p \in monitored
       PROVE  Told
  <2>1. inbox' \in Seq(Msgs) /\ El(inbox') = El(e) \cup {d} /\ OneDown(inbox', p)
    <3>1. inbox' = Append(e, d) /\ NoDown(e)
      BY <1>4, <1>6, <1>10
    <3> QED
      BY <1>5, <1>6, <3>1, BoxAppend
  <2> QED
    BY <1>5, <1>6, <1>10, <2>1
<1>11. Told
  BY <1>7, <1>8, <1>9, <1>10
<1> QED
  BY <1>3, <1>11 DEF x

(* A monitored process has not sent its DOWN. *)
LEMMA NoDownYet ==
  ASSUME MsgInv, monitored # {}
  PROVE  NoDown(inbox)
BY DEF MsgInv

-----------------------------------------------------------------------------
(* The types of the other variables *)

(* prune-restarts keeps the restarts before the first old one. *)
LEMMA Pruned ==
  ASSUME NEW T, T \subseteq Nat, NEW rs \in Seq(T), NEW t \in Nat
  PROVE  LET q == PruneRestarts(rs, t)
         IN /\ q \in Seq(T) /\ Len(q) <= Len(rs)
            /\ \A i \in 1..Len(q) : q[i] = rs[i] /\ t - rs[i] <= Period
            /\ Len(q) < Len(rs) => t - rs[Len(q) + 1] > Period
<1>1. Len(rs) \in Nat /\ Period \in Nat /\ \A i \in 1..Len(rs) : rs[i] \in Nat
  <2>1. Period \in Nat
    BY SupervisorAssumption
  <2>2. Len(rs) \in Nat /\ \A i \in 1..Len(rs) : rs[i] \in T
    OBVIOUS
  <2> QED
    BY <2>1, <2>2
<1> DEFINE old == {i \in DOMAIN rs : t - rs[i] > Period}
           q == PruneRestarts(rs, t)
<1>2. \A i : i \in old <=> i \in 1..Len(rs) /\ t - rs[i] > Period
  OBVIOUS
<1>3. q = IF old = {} THEN rs ELSE SubSeq(rs, 1, Min(old) - 1)
  BY DEF PruneRestarts
<1> HIDE DEF old, q
<1>4. CASE old = {}
  <2>1. q = rs
    BY <1>3, <1>4
  <2>2. \A i \in 1..Len(rs) : t - rs[i] <= Period
    BY <1>1, <1>2, <1>4
  <2> QED
    BY <1>1, <2>1, <2>2 DEF q
<1>5. CASE old # {}
  <2> DEFINE k == Min(old)
  <2>1. k \in old /\ \A j \in old : k <= j
    <3>1. old \subseteq Nat
      BY <1>2
    <3> QED
      BY <1>5, <3>1, Least
  <2> HIDE DEF k
  <2>2. k \in 1..Len(rs) /\ t - rs[k] > Period
    BY <1>2, <2>1
  <2>3. q = SubSeq(rs, 1, k - 1)
    BY <1>3, <1>5 DEF k
  <2>4. q \in Seq(T) /\ Len(q) = k - 1 /\ \A i \in 1..(k - 1) : q[i] = rs[i]
    BY <1>1, <2>2, <2>3, SubSeqProperties
  <2>5. \A i \in 1..(k - 1) : t - rs[i] <= Period
    <3> TAKE i \in 1..(k - 1)
    <3>1. i \in 1..Len(rs) /\ ~(k <= i)
      BY <1>1, <2>2
    <3>2. i \notin old
      BY <2>1, <3>1
    <3>3. ~(t - rs[i] > Period) /\ rs[i] \in Nat
      BY <1>1, <1>2, <3>1, <3>2
    <3> QED
      BY <1>1, <3>3
  <2>6. Len(q) + 1 = k /\ Len(q) <= Len(rs)
    BY <1>1, <2>2, <2>4
  <2> QED
    BY <2>2, <2>4, <2>5, <2>6 DEF q
<1> QED
  BY <1>4, <1>5

OthersOK ==
  /\ spec \in [Names -> Specs]
  /\ restarts \in Seq(0..MaxTime) /\ begun \in Seq(0..MaxTime) /\ now \in 0..MaxTime
  /\ proc \in [Pids -> {"unborn", "alive", "killed"} \cup Reasons]
  /\ owner \in [Pids -> Names \cup {None}]
  /\ linked \subseteq Pids /\ monitored \subseteq Pids /\ naughty \subseteq Pids
  /\ inbox \in Seq(Msgs) /\ parent \in {"alive", "dead"}

(* The types are those of the lists and those of the rest. *)
LEMMA TypeParts ==
  /\ TypeOK <=> ListsOK /\ OthersOK
  /\ TypeOK' <=> ListsOK' /\ OthersOK'
<1>1. TypeOK <=> ListsOK /\ OthersOK
  BY DEF TypeOK, ListsOK, OthersOK
<1>2. TypeOK' <=> ListsOK' /\ OthersOK'
  BY DEF TypeOK, ListsOK, OthersOK
<1> QED
  BY <1>1, <1>2

(* A restart is remembered in both lists of times. *)
LEMMA RestartTimes ==
  ASSUME OthersOK, NEW c, NEW chs, Restart(c, chs)
  PROVE  restarts' \in Seq(0..MaxTime) /\ begun' \in Seq(0..MaxTime)
<1>1. 0..MaxTime \subseteq Nat /\ now \in 0..MaxTime /\ now \in Nat
  BY SupervisorAssumption DEF OthersOK
<1>2. restarts \in Seq(0..MaxTime) /\ begun \in Seq(0..MaxTime)
  BY DEF OthersOK
<1> DEFINE rs == <<now>> \o restarts
<1>3. rs \in Seq(0..MaxTime)
  BY <1>1, <1>2
<1> HIDE DEF rs
<1>4. restarts' = PruneRestarts(rs, now) /\ begun' \in {begun, Append(begun, now)}
  BY DEF Restart, rs
<1>5. PruneRestarts(rs, now) \in Seq(0..MaxTime)
  BY <1>1, <1>3, Pruned
<1>6. Append(begun, now) \in Seq(0..MaxTime)
  BY <1>1, <1>2
<1> QED
  BY <1>2, <1>4, <1>5, <1>6

(* The end of a process keeps the types. *)
LEMMA DieTypes ==
  ASSUME TypeOK, MsgInv, NEW p \in Pids, NEW r \in {"killed"} \cup Reasons, Die(p, r),
         UNCHANGED <<spec, restarts, begun, now, naughty, parent>>
  PROVE  OthersOK'
<1>1. OthersOK
  BY TypeParts
<1>2. /\ proc' = [proc EXCEPT ![p] = r] /\ owner' = [owner EXCEPT ![p] = None]
      /\ linked' = linked \ {p} /\ monitored' = monitored \ {p} /\ inbox' \in Seq(Msgs)
  BY NoDownYet, DieEffect
<1> QED
  BY <1>1, <1>2 DEF OthersOK

(* Every step keeps the types. *)
LEMMA OthersKept ==
  ASSUME TypeOK, ControlInv, MsgInv, [Next]_svars
  PROVE  OthersOK'
<1>1. OthersOK /\ inbox \in Seq(Msgs)
  BY TypeParts DEF OthersOK
<1>2. todo # <<>> => Current \in Children /\ Current.name \in Names
  <2>1. todo \in Seq(Children)
    BY DEF TypeOK
  <2> QED
    BY <2>1, TailList, ChildFields DEF Current
<1> DEFINE Times == restarts' \in Seq(0..MaxTime) /\ begun' \in Seq(0..MaxTime)
           Rest == UNCHANGED <<spec, now, parent, naughty>>
<1>3. ASSUME Times, Rest, UNCHANGED <<proc, owner>>, linked' \subseteq linked \cup Pids,
             monitored' \subseteq Pids, inbox' \in Seq(Msgs)
      PROVE  OthersOK'
  BY <1>1, <1>3 DEF OthersOK
<1>4. UNCHANGED <<restarts, begun>> => Times
  BY <1>1 DEF OthersOK
<1>5. CASE UNCHANGED svars
  BY <1>1, <1>5 DEF svars, server, procs, env, OthersOK
<1>6. CASE Calls
  <2>1. UNCHANGED <<restarts, begun, procs, env>>
    BY <1>6 DEF Calls, startChild, restartChild, terminateChild, deleteChild, Call, server
  <2> QED
    BY <1>1, <2>1 DEF procs, env, OthersOK
<1>7. CASE Surroundings
  <2>1. ASSUME NEW p \in Pids, unlinkParent(p)
        PROVE  OthersOK'
    BY <1>1, <2>1 DEF unlinkParent, server, OthersOK
  <2>2. ASSUME NEW p \in Pids, NEW r \in Reasons, exit(p, r)
        PROVE  OthersOK'
    BY <2>2, DieTypes DEF exit, server, env
  <2>3. CASE parentExit
    <3>1. inbox' \in Seq(Msgs)
      BY <1>1, <2>3, MsgTypes, BoxAppend DEF parentExit
    <3> QED
      BY <1>1, <2>3, <3>1 DEF parentExit, server, OthersOK
  <2>4. CASE tick
    <3>1. now' \in 0..MaxTime
      BY <1>1, <2>4, SupervisorAssumption DEF tick, OthersOK
    <3> QED
      BY <1>1, <2>4, <3>1 DEF tick, server, procs, OthersOK
  <2> QED
    BY <1>7, <2>1, <2>2, <2>3, <2>4 DEF Surroundings
<1>8. CASE thunkOk
  <2>1. PICK p \in Pids : /\ proc' = [proc EXCEPT ![p] = "alive"]
                          /\ owner' = [owner EXCEPT ![p] = Current.name]
                          /\ linked' \in {linked, linked \cup {p}}
                          /\ naughty' = naughty \ {p}
    BY <1>8 DEF thunkOk
  <2>2. Current.name \in Names
    BY <1>2, <1>8 DEF thunkOk
  <2>3. UNCHANGED <<restarts, begun, monitored, inbox, spec, parent, now>>
    BY <1>8 DEF thunkOk, server
  <2> QED
    BY <1>1, <2>1, <2>2, <2>3 DEF OthersOK
<1>9. CASE linkChild
  <2>1. Current.pid \in Pids
    BY <1>9 DEF linkChild, ControlInv
  <2>2. inbox' \in Seq(Msgs) /\ linked' \subseteq linked \cup Pids
    <3>1. EXITmsg(Current.pid) \in Msgs
      BY <2>1, MsgTypes
    <3>2. Append(inbox, EXITmsg(Current.pid)) \in Seq(Msgs)
      BY <1>1, <3>1, BoxAppend
    <3> QED
      BY <1>1, <1>9, <2>1, <3>2 DEF linkChild
  <2>3. UNCHANGED <<restarts, begun, proc, owner, monitored, env>>
    BY <1>9 DEF linkChild, Started
  <2> QED
    BY <1>1, <1>3, <1>4, <2>2, <2>3 DEF env, OthersOK
<1>10. CASE thunkIgnore \/ startedAll \/ terminateNext \/ terminatedAll
  <2>1. UNCHANGED <<restarts, begun, procs, env>>
    BY <1>10 DEF thunkIgnore, startedAll, terminateNext, terminatedAll, Started, server
  <2> QED
    BY <1>1, <2>1 DEF procs, env, OthersOK
<1>11. CASE thunkError
  <2>1. UNCHANGED <<procs, env>> /\ NotStarted
    BY <1>11 DEF thunkError
  <2>2. Times
    <3>1. \/ UNCHANGED <<restarts, begun>>
          \/ Restart(Head(victim), children) \/ Restart(Head(victim), Unstarted)
      BY <2>1 DEF NotStarted, server
    <3> QED
      BY <1>1, <1>4, <3>1, RestartTimes
  <2> QED
    BY <1>1, <2>1, <2>2 DEF procs, env, OthersOK
<1>12. CASE monitorChild
  <2>1. Current.pid \in Pids
    BY <1>12 DEF monitorChild, ControlInv, Shutting
  <2>2. inbox' \in Seq(Msgs) /\ monitored' \subseteq monitored \cup Pids
    <3>1. DOWNmsg(Current.pid) \in Msgs
      BY <2>1, MsgTypes
    <3>2. Append(inbox, DOWNmsg(Current.pid)) \in Seq(Msgs)
      BY <1>1, <3>1, BoxAppend
    <3> QED
      BY <1>1, <1>12, <2>1, <3>2 DEF monitorChild
  <2>3. UNCHANGED <<restarts, begun, proc, owner, linked, env>>
    BY <1>12 DEF monitorChild, server
  <2> QED
    BY <1>1, <2>2, <2>3 DEF env, OthersOK
<1>13. CASE unlinkChild
  BY <1>1, <1>13 DEF unlinkChild, server, env, OthersOK
<1>14. ASSUME NEW type, NEW p, From(type, p) # {}, Take(type, p)
       PROVE  inbox' \in Seq(Msgs)
  <2>1. From(type, p) \subseteq Nat /\ From(type, p) \subseteq 1..Len(inbox)
    BY <1>1 DEF From
  <2> QED
    BY <1>1, <1>14, <2>1, Least, BoxRemove DEF Take
<1>15. CASE flushExit
  <2>1. inbox' \in Seq(Msgs)
    BY <1>1, <1>14, <1>15 DEF flushExit
  <2> QED
    BY <1>1, <1>15, <2>1 DEF flushExit, server, env, OthersOK
<1>16. CASE killChild \/ timeoutChild
  <2>1. Current.pid \in Pids
    BY <1>16 DEF killChild, timeoutChild, ControlInv, Shutting
  <2>2. UNCHANGED <<spec, restarts, begun, now, naughty, parent>>
    BY <1>16 DEF killChild, timeoutChild, server, env
  <2>3. Die(Current.pid, "killed") \/ UNCHANGED procs
    BY <1>16 DEF killChild, timeoutChild, Kill
  <2>4. CASE Die(Current.pid, "killed")
    BY <2>1, <2>2, <2>4, DieTypes
  <2>5. CASE UNCHANGED procs
    BY <1>1, <2>2, <2>5 DEF procs, OthersOK
  <2> QED
    BY <2>3, <2>4, <2>5
<1>17. CASE childDown
  <2>1. inbox' \in Seq(Msgs)
    BY <1>1, <1>14, <1>17 DEF childDown
  <2> QED
    BY <1>1, <1>17, <2>1 DEF childDown, env, OthersOK
<1>18. CASE handleChildExit \/ handleOtherExit \/ handleStop
  <2>1. inbox # <<>> /\ inbox' = Tail(inbox) /\ UNCHANGED <<proc, owner, linked, monitored, env>>
    BY <1>18 DEF handleChildExit, handleOtherExit, handleStop, NextMessage
  <2>2. inbox' \in Seq(Msgs)
    BY <1>1, <2>1, BoxTail
  <2>3. Times
    <3>1. CASE handleOtherExit \/ handleStop
      BY <1>4, <3>1 DEF handleOtherExit, handleStop, server
    <3>2. CASE handleChildExit
      <4> DEFINE c == FindPid(Head(inbox).pid, children)
      <4>1. DoRestart(c)
        BY <3>2 DEF handleChildExit
      <4> HIDE DEF c
      <4>2. UNCHANGED <<restarts, begun>> \/ Restart(c, children)
        BY <4>1 DEF DoRestart, MarkDead
      <4> QED
        BY <1>1, <1>4, <4>2, RestartTimes
    <3> QED
      BY <1>18, <3>1, <3>2
  <2> QED
    BY <1>1, <2>1, <2>2, <2>3 DEF env, OthersOK
<1> QED
  BY <1>5, <1>6, <1>7, <1>8, <1>9, <1>10, <1>11, <1>12, <1>13, <1>15, <1>16, <1>17, <1>18
     DEF Next, Work

-----------------------------------------------------------------------------
(* The messages: every DOWN is consumed by the shutdown that asked for it. *)

(* Messages are taken, or an EXIT of a process that has ended comes in. *)
Delivers ==
  \/ inbox' = inbox
  \/ \E x \in Pids \cup {Parent} :
       inbox' = Append(inbox, EXITmsg(x)) /\ (x \in Pids => ~Alive(x))
  \/ \E i \in 1..Len(inbox) : inbox' = RemoveAt(inbox, i)
  \/ pc = "idle" /\ inbox # <<>> /\ inbox' = Tail(inbox)

(* Such a step keeps what is known of messages. *)
LEMMA MsgKept ==
  ASSUME TypeOK, MsgInv, UNCHANGED <<proc, monitored>>, Delivers,
         \/ pc \notin Watching /\ pc' \notin Watching
         \/ pc \in Watching /\ pc' \in Watching /\ Current' = Current
  PROVE  MsgInv'
<1>1. inbox \in Seq(Msgs)
  BY DEF TypeOK
<1>2. /\ NoDown(inbox) => NoDown(inbox')
      /\ \A m \in El(inbox') : m \in El(inbox) \/ (m.pid \in Pids => ~Alive(m.pid))
  <2>1. CASE inbox' = inbox
    BY <2>1
  <2>2. ASSUME NEW x \in Pids \cup {Parent}, inbox' = Append(inbox, EXITmsg(x)),
               x \in Pids => ~Alive(x)
        PROVE  /\ NoDown(inbox) => NoDown(inbox')
               /\ \A m \in El(inbox') : m \in El(inbox) \/ (m.pid \in Pids => ~Alive(m.pid))
    <3> DEFINE y == EXITmsg(x)
    <3>1. y \in Msgs /\ y.type = "EXIT" /\ y.pid = x
      BY MsgTypes
    <3>2. inbox' = Append(inbox, y)
      BY <2>2
    <3> HIDE DEF y
    <3>3. El(inbox') = El(inbox) \cup {y} /\ (NoDown(inbox) => NoDown(inbox'))
      BY <1>1, <3>1, <3>2, BoxAppend
    <3> QED
      BY <2>2, <3>1, <3>3
  <2>3. ASSUME NEW i \in 1..Len(inbox), inbox' = RemoveAt(inbox, i)
        PROVE  (NoDown(inbox) => NoDown(inbox')) /\ El(inbox') \subseteq El(inbox)
    BY <1>1, <2>3, BoxRemove
  <2>4. ASSUME inbox # <<>>, inbox' = Tail(inbox)
        PROVE  (NoDown(inbox) => NoDown(inbox')) /\ El(inbox') \subseteq El(inbox)
    BY <1>1, <2>4, BoxTail
  <2> QED
    BY <2>1, <2>2, <2>3, <2>4 DEF Delivers
<1>3. \A p \in Pids : Alive(p)' <=> Alive(p)
  BY DEF Alive
<1>4. \A m \in El(inbox') : m.pid \in Pids => ~Alive(m.pid)'
  BY <1>2, <1>3 DEF MsgInv
<1>5. CASE pc \notin Watching /\ pc' \notin Watching
  BY <1>2, <1>4, <1>5 DEF MsgInv, Alive
<1>6. CASE pc \in Watching /\ pc' \in Watching /\ Current' = Current
  <2> DEFINE p == Current.pid
  <2> HIDE DEF p
  <2>1. OneDown(inbox, p) => OneDown(inbox', p)
    <3>1. CASE inbox' = inbox
      BY <3>1
    <3>2. ASSUME NEW x \in Pids \cup {Parent}, inbox' = Append(inbox, EXITmsg(x))
          PROVE  OneDown(inbox, p) => OneDown(inbox', p)
      BY <1>1, <3>2, MsgTypes, BoxAppend
    <3>3. ASSUME NEW i \in 1..Len(inbox), inbox' = RemoveAt(inbox, i)
          PROVE  OneDown(inbox, p) => OneDown(inbox', p)
      BY <1>1, <3>3, BoxRemove
    <3> QED
      BY <1>6, <3>1, <3>2, <3>3 DEF Delivers, Watching, Shutting
  <2> QED
    BY <1>2, <1>4, <1>6, <2>1 DEF MsgInv, Alive, p
<1> QED
  BY <1>5, <1>6

(* A process ends. *)
LEMMA MsgDied ==
  ASSUME TypeOK, MsgInv, NEW p \in Pids, NEW r \in {"killed"} \cup Reasons, Die(p, r),
         Current' = Current, pc \in Watching <=> pc' \in Watching
  PROVE  MsgInv'
<1>1. p \in monitored => NoDown(inbox)
  BY NoDownYet
<1>2. /\ proc' = [proc EXCEPT ![p] = r]
      /\ monitored' = monitored \ {p}
      /\ \A m \in El(inbox') : m \in El(inbox) \/ m.pid = p
      /\ p \notin monitored /\ NoDown(inbox) => NoDown(inbox')
      /\ p \notin monitored => \A q : OneDown(inbox, q) => OneDown(inbox', q)
      /\ p \in monitored => OneDown(inbox', p)
  BY <1>1, DieEffect
<1>3. r # "alive"
  BY SupervisorAssumption
<1>4. \A q \in Pids : Alive(q)' => Alive(q) /\ q # p
  BY <1>2, <1>3 DEF Alive, TypeOK
<1>5. \A m \in El(inbox') : m.pid \in Pids => ~Alive(m.pid)'
  BY <1>2, <1>4 DEF MsgInv
<1>6. CASE pc \notin Watching
  BY <1>2, <1>5, <1>6 DEF MsgInv, Alive
<1>7. CASE pc \in Watching
  <2>1. OneDown(inbox', Current.pid)
    BY <1>2, <1>7 DEF MsgInv
  <2>2. monitored' # {} => NoDown(inbox')
    BY <1>2, <1>7 DEF MsgInv
  <2> QED
    BY <1>2, <1>5, <1>7, <2>1, <2>2 DEF MsgInv, Alive
<1> QED
  BY <1>6, <1>7

(* The first message of a kind is one of that kind. *)
LEMMA Taken ==
  ASSUME TypeOK, NEW type, NEW p, From(type, p) # {}, Take(type, p)
  PROVE  \E i \in 1..Len(inbox) :
           inbox' = RemoveAt(inbox, i) /\ inbox[i].type = type /\ inbox[i].pid = p
<1>1. inbox \in Seq(Msgs)
  BY DEF TypeOK
<1>2. From(type, p) \subseteq Nat /\ From(type, p) \subseteq 1..Len(inbox)
  BY <1>1 DEF From
<1>3. Min(From(type, p)) \in From(type, p)
  BY <1>2, Least
<1> QED
  BY <1>2, <1>3 DEF From, Take

(* Every step keeps what is known of messages. *)
LEMMA MsgKeeps ==
  ASSUME TypeOK, ControlInv, MsgInv, [Next]_svars
  PROVE  MsgInv'
<1>1. inbox \in Seq(Msgs) /\ monitored \subseteq Pids /\ proc \in [Pids -> {"unborn", "alive", "killed"} \cup Reasons]
  BY DEF TypeOK
<1> DEFINE Away == pc \notin Watching /\ pc' \notin Watching
<1>2. \A s \in {"idle", "start", "link", "stop", "monitor", "stopped"} : s \notin Watching
  BY DEF Watching, Shutting
<1>3. CASE UNCHANGED svars
  <2>1. UNCHANGED <<pc, todo, proc, monitored, inbox>>
    BY <1>3 DEF svars, control, procs
  <2> QED
    BY <2>1, MsgKept DEF Delivers, Current
<1>4. CASE Calls
  <2>1. UNCHANGED <<proc, monitored, inbox>> /\ pc = "idle" /\ pc' \in {"idle", "start", "monitor"}
    BY <1>4 DEF Calls, startChild, restartChild, terminateChild, deleteChild, Call, procs, control
  <2> QED
    BY <1>2, <2>1, MsgKept DEF Delivers
<1>5. CASE Surroundings
  <2>1. UNCHANGED <<pc, todo>> /\ Current' = Current
    BY <1>5 DEF Surroundings, unlinkParent, exit, parentExit, tick, control, Current
  <2>2. CASE tick \/ \E p \in Pids : unlinkParent(p)
    <3>1. UNCHANGED <<proc, monitored, inbox>>
      BY <2>2 DEF tick, unlinkParent, procs
    <3> QED
      BY <2>1, <3>1, MsgKept DEF Delivers
  <2>3. CASE parentExit
    <3>1. UNCHANGED <<proc, monitored>> /\ inbox' = Append(inbox, EXITmsg(Parent))
      BY <2>3 DEF parentExit
    <3>2. Delivers
      BY <3>1, SupervisorAssumption DEF Delivers
    <3> QED
      BY <2>1, <3>1, <3>2, MsgKept
  <2>4. ASSUME NEW p \in Pids, NEW r \in Reasons, exit(p, r)
        PROVE  MsgInv'
    BY <2>1, <2>4, MsgDied DEF exit
  <2> QED
    BY <1>5, <2>2, <2>3, <2>4 DEF Surroundings
<1>6. CASE thunkOk
  <2>1. PICK p \in Pids : Unknown(p) /\ proc' = [proc EXCEPT ![p] = "alive"]
    BY <1>6 DEF thunkOk
  <2>2. pc = "start" /\ pc' = "link" /\ UNCHANGED <<monitored, inbox>>
    BY <1>6 DEF thunkOk
  <2>3. \A m \in El(inbox) : m.pid # p
    BY <1>1, <2>1 DEF Unknown, El
  <2>4. \A m \in El(inbox) : m.pid \in Pids => ~Alive(m.pid)'
    BY <1>1, <2>1, <2>3 DEF MsgInv, Alive
  <2> QED
    BY <1>2, <2>2, <2>4 DEF MsgInv, Alive
<1>7. CASE linkChild
  <2>1. Current.pid \in Pids /\ pc = "link" /\ pc' \in {"start", "idle"}
    BY <1>7 DEF linkChild, ControlInv, Started, Idle
  <2>2. UNCHANGED <<proc, monitored>> /\ Delivers
    BY <1>7, <2>1 DEF linkChild, Delivers
  <2> QED
    BY <1>2, <2>1, <2>2, MsgKept
<1>8. CASE thunkIgnore \/ startedAll \/ terminateNext \/ terminatedAll
  <2>1. UNCHANGED <<proc, monitored, inbox>>
    BY <1>8 DEF thunkIgnore, startedAll, terminateNext, terminatedAll, procs
  <2>2. pc \in {"start", "stop"} /\ pc' \in {"start", "idle", "stop", "monitor", "stopped"}
    BY <1>8 DEF thunkIgnore, startedAll, terminateNext, terminatedAll, Started, Idle, Terminated,
                StartChildren
  <2> QED
    BY <1>2, <2>1, <2>2, MsgKept DEF Delivers
<1>9. CASE thunkError
  <2>1. UNCHANGED <<proc, monitored, inbox>> /\ pc = "start" /\ NotStarted
    BY <1>9 DEF thunkError, procs
  <2>2. pc' \in {"start", "idle", "stop"}
    <3>1. \/ pc' \in {"idle", "stop"}
          \/ Restart(Head(victim), children) \/ Restart(Head(victim), Unstarted)
      BY <2>1 DEF NotStarted, Idle, TerminateChildren
    <3> QED
      BY <3>1, RestartEffect
  <2> QED
    BY <1>2, <2>1, <2>2, MsgKept DEF Delivers
<1>10. CASE monitorChild
  <2> DEFINE p == Current.pid
  <2>1. p \in Pids /\ pc = "monitor" /\ pc' = "unlink" /\ Current' = Current /\ proc' = proc
    BY <1>10 DEF monitorChild, ControlInv, Shutting, Current
  <2>2. monitored = {} /\ NoDown(inbox) /\ pc' \in Watching
    BY <1>2, <2>1 DEF MsgInv, Watching, Shutting
  <2>3. NoDown(inbox) => OneDown(inbox, p)
    BY DEF NoDown, OneDown
  <2>4. CASE Alive(p)
    <3>1. monitored' = {p} /\ inbox' = inbox
      BY <1>10, <2>2, <2>4 DEF monitorChild
    <3> QED
      BY <2>1, <2>2, <2>3, <3>1 DEF MsgInv, Alive
  <2>5. CASE ~Alive(p)
    <3>1. monitored' = {} /\ inbox' = Append(inbox, DOWNmsg(p))
      BY <1>10, <2>2, <2>5 DEF monitorChild
    <3> DEFINE d == DOWNmsg(p)
    <3>2. d \in Msgs /\ d.type = "DOWN" /\ d.pid = p
      BY <2>1, MsgTypes
    <3> HIDE DEF d, p
    <3>3. El(inbox') = El(inbox) \cup {d} /\ OneDown(inbox', p)
      BY <1>1, <2>2, <3>1, <3>2, BoxAppend DEF d
    <3>4. \A m \in El(inbox') : m.pid \in Pids => ~Alive(m.pid)'
      BY <2>1, <2>5, <3>2, <3>3 DEF MsgInv, Alive
    <3> QED
      BY <2>1, <2>2, <3>1, <3>3, <3>4 DEF MsgInv, Alive, p
  <2> QED
    BY <2>4, <2>5
<1>11. CASE unlinkChild \/ flushExit
  <2>1. pc \in Watching /\ pc' \in Watching /\ Current' = Current /\ UNCHANGED <<proc, monitored>>
    BY <1>11 DEF unlinkChild, flushExit, Watching, Shutting, Current
  <2>2. Delivers
    <3>1. inbox' = inbox \/ (From("EXIT", Current.pid) # {} /\ Take("EXIT", Current.pid))
      BY <1>11 DEF unlinkChild, flushExit
    <3> QED
      BY <3>1, Taken DEF Delivers
  <2> QED
    BY <2>1, <2>2, MsgKept
<1>12. CASE killChild \/ timeoutChild
  <2>1. /\ pc \in Watching /\ pc' \in Watching /\ Current' = Current /\ Current.pid \in Pids
    BY <1>12 DEF killChild, timeoutChild, Watching, Shutting, Current, ControlInv
  <2>2. Die(Current.pid, "killed") \/ UNCHANGED procs
    BY <1>12 DEF killChild, timeoutChild, Kill
  <2>3. CASE Die(Current.pid, "killed")
    BY <2>1, <2>3, MsgDied
  <2>4. CASE UNCHANGED procs
    BY <2>1, <2>4, MsgKept DEF procs, Delivers
  <2> QED
    BY <2>2, <2>3, <2>4
<1>13. CASE childDown
  <2>1. /\ pc \in {"await", "down"} /\ pc' \in {"stop", "idle"} /\ UNCHANGED <<proc, monitored>>
        /\ From("DOWN", Current.pid) # {} /\ Take("DOWN", Current.pid)
    BY <1>13 DEF childDown, Terminated, Idle
  <2>2. PICK i \in 1..Len(inbox) :
          inbox' = RemoveAt(inbox, i) /\ inbox[i].type = "DOWN" /\ inbox[i].pid = Current.pid
    BY <2>1, Taken
  <2>3. pc \in Watching /\ OneDown(inbox, Current.pid)
    BY <2>1 DEF MsgInv, Watching, Shutting
  <2>4. NoDown(inbox') /\ El(inbox') \subseteq El(inbox)
    BY <1>1, <2>2, <2>3, BoxRemove
  <2>5. monitored' = {}
    BY <2>1, <2>2, <2>3 DEF MsgInv, NoDown
  <2> QED
    BY <1>2, <2>1, <2>4, <2>5 DEF MsgInv, Alive
<1>14. CASE handleChildExit \/ handleOtherExit \/ handleStop
  <2>1. pc = "idle" /\ inbox # <<>> /\ inbox' = Tail(inbox) /\ UNCHANGED <<proc, monitored>>
    BY <1>14 DEF handleChildExit, handleOtherExit, handleStop, NextMessage
  <2>2. pc' \in {"idle", "start", "stop"}
    <3>1. CASE handleOtherExit \/ handleStop
      BY <2>1, <3>1 DEF handleOtherExit, handleStop, control, TerminateChildren
    <3>2. CASE handleChildExit
      <4> DEFINE c == FindPid(Head(inbox).pid, children)
      <4>1. DoRestart(c)
        BY <3>2 DEF handleChildExit
      <4> HIDE DEF c
      <4>2. pc' = pc \/ Restart(c, children)
        BY <4>1 DEF DoRestart, MarkDead, control
      <4> QED
        BY <2>1, <4>2, RestartEffect
    <3> QED
      BY <1>14, <3>1, <3>2
  <2> QED
    BY <1>2, <2>1, <2>2, MsgKept DEF Delivers
<1> QED
  BY <1>3, <1>4, <1>5, <1>6, <1>7, <1>8, <1>9, <1>10, <1>11, <1>12, <1>13, <1>14
     DEF Next, Work

-----------------------------------------------------------------------------
(* The invariant of lists and messages *)

ShutdownInv == OthersOK /\ Lists /\ MsgInv

(* Nothing is started and nothing has come in at first. *)
LEMMA InitShutdown == Init => ShutdownInv
<1> SUFFICES ASSUME Init
             PROVE  ShutdownInv
  OBVIOUS
<1>1. PICK S \in SUBSET Names : \E names \in SetToSeqs(S) :
        todo = [i \in DOMAIN names |-> [name |-> names[i], pid |-> None]]
  BY DEF Init
<1>2. PICK names \in SetToSeqs(S) :
        todo = [i \in DOMAIN names |-> [name |-> names[i], pid |-> None]]
  BY <1>1
<1>3. Cardinality(S) \in Nat
  BY FS_Subset, FS_CardinalityType, SupervisorAssumption
<1>4. /\ DOMAIN names = 1..Cardinality(S) /\ \A i \in 1..Cardinality(S) : names[i] \in Names
      /\ \A i, j \in 1..Cardinality(S) : i # j => names[i] # names[j]
  BY <1>2 DEF SetToSeqs
<1>5. \A i \in 1..Cardinality(S) : [name |-> names[i], pid |-> None] \in Children
  BY <1>4 DEF Children
<1>6. todo \in Seq(Children) /\ Len(todo) = Cardinality(S)
  BY <1>2, <1>3, <1>4, <1>5
<1>7. \A i \in 1..Len(todo) : todo[i].name = names[i] /\ todo[i].pid = None
  BY <1>2, <1>4, <1>6
<1>8. Distinct(todo) /\ \A e \in El(todo) : e.pid = None
  BY <1>4, <1>6, <1>7 DEF Distinct, El
<1>9. El(<<>>) = {} /\ Distinct(<<>>) /\ <<>> \in Seq(Children) /\ Len(<<>>) = 0
  BY SmallLists
<1>10. /\ children = <<>> /\ acc = <<>> /\ victim = <<>> /\ pc = "start" /\ job = "init"
  BY DEF Init
<1>11. ListsOK
  BY <1>6, <1>9, <1>10 DEF ListsOK
<1>12. ControlInv
  BY <1>10 DEF ControlInv, Starting, Stopping, Shutting, Single
<1>13. DoneInv
  BY <1>8, <1>10 DEF DoneInv, Tearing, Shutting
<1>14. NameInv
  BY <1>8, <1>9, <1>10 DEF NameInv, Looping, Apart
<1>15. OthersOK
  <2>1. restarts = <<>> /\ begun = <<>> /\ inbox = <<>> /\ now = 0
    BY DEF Init
  <2>2. restarts \in Seq(0..MaxTime) /\ begun \in Seq(0..MaxTime) /\ inbox \in Seq(Msgs)
    BY <2>1
  <2>3. now \in 0..MaxTime
    BY <2>1, SupervisorAssumption
  <2>4. /\ spec \in [Names -> Specs] /\ linked = {} /\ monitored = {} /\ naughty = {}
        /\ parent = "alive"
    BY DEF Init
  <2>5. /\ proc \in [Pids -> {"unborn", "alive", "killed"} \cup Reasons]
        /\ owner \in [Pids -> Names \cup {None}]
    BY DEF Init
  <2> QED
    BY <2>2, <2>3, <2>4, <2>5 DEF OthersOK
<1>16. MsgInv
  <2>1. inbox = <<>> /\ monitored = {}
    BY DEF Init
  <2> QED
    BY <1>9, <1>10, <2>1 DEF MsgInv, Watching, Shutting, NoDown, El
<1> QED
  BY <1>11, <1>12, <1>13, <1>14, <1>15, <1>16 DEF ShutdownInv, Lists

(* Every step keeps it. *)
LEMMA ShutdownStep ==
  ASSUME ShutdownInv, [Next]_svars
  PROVE  ShutdownInv'
<1>1. TypeOK /\ ControlInv /\ Lists /\ MsgInv
  BY TypeParts DEF ShutdownInv, Lists
<1>2. Lists'
  BY <1>1, ListSteps, ListKeeps
<1>3. OthersOK' /\ MsgInv'
  BY <1>1, OthersKept, MsgKeeps
<1> QED
  BY <1>2, <1>3 DEF ShutdownInv

(* Lists, messages and types are as they should be in every behaviour. *)
LEMMA ShutdownAlways == Spec => []ShutdownInv
<1>1. ShutdownInv /\ [Next]_svars => ShutdownInv'
  BY ShutdownStep
<1> QED
  BY <1>1, InitShutdown, PTL DEF Spec

(* The variables of the model have their types in every behaviour. *)
THEOREM TypesCorrect == Spec => []TypeOK
<1>1. ShutdownInv => TypeOK
  BY TypeParts DEF ShutdownInv, Lists
<1> QED
  BY <1>1, ShutdownAlways, PTL

(* The DOWN that a shutdown asks for is consumed by that shutdown: the server *)
(* loop never meets one, and the loop over the children is never one behind.  *)
THEOREM DownAlwaysConsumed == Spec => []DownConsumed
<1>1. ShutdownInv => DownConsumed
  <2> SUFFICES ASSUME ShutdownInv
               PROVE  DownConsumed
    OBVIOUS
  <2>1. MsgInv /\ inbox \in Seq(Msgs)
    BY DEF ShutdownInv, OthersOK
  <2>2. DOMAIN inbox = 1..Len(inbox)
    BY <2>1
  <2> QED
    BY <2>1, <2>2 DEF DownConsumed, MsgInv, NoDown, OneDown, Watching, Shutting
<1> QED
  BY <1>1, ShutdownAlways, PTL

-----------------------------------------------------------------------------
(* Which processes are alive, and for which children *)

(* A child without a live process *)
Inert(e) == e.pid = None \/ ~Alive(e.pid)

(* The children that the supervisor refers to: in a loop they are in its lists, *)
(* and the list in the state is out of date.                                    *)
Owned(S) == \A p \in Pids : Alive(p) => \E e \in S : e.name = owner[p] /\ e.pid = p
Refs == IF job \in Looping THEN El(todo) \cup El(acc) ELSE El(children) \cup El(todo)

(* Every live process is the process of a child that the supervisor refers to. *)
(* A child that is restarted, started again or given up on has none, and those *)
(* that terminate-children is done with have none.  When a one-for-all restart *)
(* is refused half-way the child it began with is forgotten, alive or not.     *)
OwnInv ==
  /\ OneIncarnation
  /\ ~(job = "terminate" /\ Strategy = "one-for-all") =>
       Owned(Refs)
  /\ job \in {"restart-child", "one-for-one"} =>
       \A e \in El(children) : e.name = Current.name => Inert(e)
  /\ pc = "start" => \A e \in El(todo) : Inert(e)
  /\ pc \in Tearing /\ job # "terminate-child" =>
       \A p \in Pids : Alive(p) =>
         /\ \A e \in El(acc) : e.name # owner[p]
         /\ \A e \in El(todo) : e.name = owner[p] => e.pid = p
  /\ job \in {"one-for-one", "one-for-all"} => Inert(Head(victim))

(* A process ends; nothing but the control changes. *)
Falls(p) ==
  /\ Stays \/ Advances
  /\ \E r \in {"killed"} \cup Reasons : proc' = [proc EXCEPT ![p] = r]
  /\ owner' = [owner EXCEPT ![p] = None]

(* A process that the supervisor does not know is started. *)
Bears(p) ==
  /\ Birth(p)
  /\ proc' = [proc EXCEPT ![p] = "alive"]
  /\ owner' = [owner EXCEPT ![p] = Current.name]
  /\ ~Alive(p)
  /\ \A e \in El(children) \cup El(todo) \cup El(acc) \cup El(victim) : e.pid # p

(* A child is marked dead or forgotten only when its process is down. *)
Loses ==
  \/ (EndsMore \/ EndsOne) /\ Inert(Current)
  \/ \E c \in El(children) : Inert(c) /\ (Forgets(c) \/ Restarts(c))

Quiet ==
  /\ UNCHANGED <<proc, owner>>
  /\ \/ Stays \/ Advances
     \/ StartsMore \/ StartsOne \/ InitFails \/ GivesUp \/ Retries \/ AllStarted
     \/ StartsAgain \/ (\E n \in Names : Asks(n)) \/ Quits
     \/ Loses

(* Every step is one of these for the processes of the children. *)
LEMMA OwnSteps ==
  ASSUME TypeOK, ControlInv, MsgInv, [Next]_svars
  PROVE  Quiet \/ \E p \in Pids : Falls(p) \/ Bears(p)
<1>1. /\ children \in Seq(Children) /\ todo \in Seq(Children) /\ acc \in Seq(Children)
      /\ victim \in Seq(Children) /\ inbox \in Seq(Msgs)
  BY DEF TypeOK
<1>2. CASE UNCHANGED svars
  BY <1>2 DEF svars, server, control, procs, Quiet, Stays, SameLists
<1>3. CASE Calls
  <2>1. PICK n \in Names : startChild(n) \/ restartChild(n) \/ terminateChild(n) \/ deleteChild(n)
    BY <1>3 DEF Calls
  <2>2. UNCHANGED <<proc, owner>>
    BY <2>1 DEF startChild, restartChild, terminateChild, deleteChild, Call, procs
  <2>3. CASE startChild(n) \/ restartChild(n) \/ terminateChild(n)
    <3>1. Asks(n)
      BY <2>3 DEF startChild, restartChild, terminateChild, Call, server, Asks
    <3> QED
      BY <2>2, <3>1 DEF Quiet
  <2>4. CASE deleteChild(n)
    <3> DEFINE c == FindChild(n, children)
    <3>1. c \in El(children)
      BY <1>1, <2>4, Found DEF deleteChild
    <3>2. Forgets(c) /\ Inert(c)
      BY <2>4, <3>1 DEF deleteChild, Forgets, Inert
    <3> QED
      BY <2>2, <3>1, <3>2 DEF Quiet, Loses
  <2> QED
    BY <2>1, <2>3, <2>4
<1>4. CASE Surroundings
  <2>1. Stays
    BY <1>4 DEF Surroundings, unlinkParent, exit, parentExit, tick, server, control, Stays,
                SameLists
  <2>2. UNCHANGED <<proc, owner>> \/ \E p \in Pids, r \in Reasons : Die(p, r)
    BY <1>4 DEF Surroundings, unlinkParent, exit, parentExit, tick, procs
  <2> QED
    BY <2>1, <2>2 DEF Quiet, Falls, Die
<1>5. CASE thunkOk
  <2>1. PICK p \in Pids : /\ Unknown(p) /\ proc' = [proc EXCEPT ![p] = "alive"]
                          /\ owner' = [owner EXCEPT ![p] = Current.name]
                          /\ todo' = [todo EXCEPT ![1].pid = p]
    BY <1>5 DEF thunkOk
  <2>2. Birth(p)
    BY <1>5, <2>1 DEF thunkOk, server, Birth, Born
  <2>3. p # None
    BY SupervisorAssumption
  <2>4. \A e \in El(children) \cup El(todo) \cup El(acc) \cup El(victim) : e.pid # p
    <3>1. ASSUME NEW chs \in {children, todo, acc, victim}, NEW e \in El(chs)
          PROVE  e.pid # p
      <4>1. chs \in Seq(Children) /\ p \notin PidsOf(chs)
        BY <1>1, <2>1 DEF Unknown
      <4> QED
        BY <2>3, <4>1, Found
    <3> QED
      BY <3>1
  <2>5. ~Alive(p)
    BY <2>1 DEF Unknown
  <2> QED
    BY <2>1, <2>2, <2>4, <2>5 DEF Bears
<1>6. CASE linkChild \/ thunkIgnore
  <2>1. Returned /\ UNCHANGED <<proc, owner>>
    BY <1>6 DEF linkChild, thunkIgnore, Returned, ControlInv, procs
  <2>2. StartsMore \/ StartsOne
    BY <1>6, <2>1, StartedEffect DEF linkChild, thunkIgnore
  <2> QED
    BY <2>1, <2>2 DEF Quiet
<1>7. CASE thunkError
  <2>1. UNCHANGED <<proc, owner>> /\ (InitFails \/ GivesUp \/ Retries)
    BY <1>7 DEF thunkError, NotStarted, server, procs, InitFails, GivesUp, Retries
  <2> QED
    BY <2>1 DEF Quiet
<1>8. CASE startedAll
  BY <1>8 DEF startedAll, procs, Quiet, AllStarted
<1>9. CASE terminateNext
  <2>1. UNCHANGED <<proc, owner>>
    BY <1>9 DEF terminateNext, procs
  <2>2. CASE Current.pid = None
    <3>1. EndsMore \/ EndsOne
      BY <1>9, <2>2, TerminatedEffect DEF terminateNext
    <3> QED
      BY <2>1, <2>2, <3>1 DEF Quiet, Loses, Inert
  <2>3. CASE Current.pid # None
    BY <1>9, <2>1, <2>3 DEF terminateNext, Quiet, Advances, SameLists
  <2> QED
    BY <2>2, <2>3
<1>10. CASE terminatedAll
  <2>1. UNCHANGED <<proc, owner>> /\ (StartsAgain \/ Advances)
    BY <1>10 DEF terminatedAll, server, procs, StartsAgain, Advances, SameLists
  <2> QED
    BY <2>1 DEF Quiet
<1>11. CASE monitorChild \/ unlinkChild \/ flushExit \/ killChild \/ timeoutChild
  <2>1. Advances
    BY <1>11 DEF monitorChild, unlinkChild, flushExit, killChild, timeoutChild, server,
                 Advances, SameLists, Shutting
  <2>2. UNCHANGED <<proc, owner>> \/ Die(Current.pid, "killed")
    BY <1>11 DEF monitorChild, unlinkChild, flushExit, killChild, timeoutChild, Kill, procs
  <2>3. Current.pid \in Pids
    BY <1>11 DEF monitorChild, unlinkChild, flushExit, killChild, timeoutChild, ControlInv,
                 Shutting
  <2> QED
    BY <2>1, <2>2, <2>3 DEF Quiet, Falls, Die
<1>12. CASE childDown
  <2>1. /\ pc \in {"await", "down"} /\ Terminated /\ UNCHANGED <<proc, owner>>
        /\ From("DOWN", Current.pid) # {}
    BY <1>12 DEF childDown
  <2>2. todo # <<>> /\ Current.pid \in Pids
    BY <2>1 DEF ControlInv, Shutting
  <2>3. PICK i \in DOMAIN inbox : inbox[i].pid = Current.pid
    BY <2>1 DEF From
  <2>4. inbox[i] \in El(inbox)
    BY <1>1 DEF El
  <2>5. Inert(Current)
    BY <2>2, <2>3, <2>4 DEF MsgInv, Inert
  <2>6. EndsMore \/ EndsOne
    BY <2>1, <2>2, TerminatedEffect
  <2> QED
    BY <2>1, <2>5, <2>6 DEF Quiet, Loses
<1>13. CASE handleChildExit
  <2> DEFINE c == FindPid(Head(inbox).pid, children)
  <2>1. /\ c \in El(children) /\ c.pid = Head(inbox).pid /\ DoRestart(c) /\ pc = "idle"
        /\ inbox # <<>> /\ UNCHANGED <<proc, owner>>
    BY <1>1, <1>13, Found DEF handleChildExit, NextMessage
  <2> HIDE DEF c
  <2>2. c \in Children /\ c.pid \in Pids \cup {None}
    BY <1>1, <2>1, Found, ChildFields
  <2>3. Head(inbox) \in El(inbox)
    BY <1>1, <2>1, BoxTail
  <2>4. Inert(c)
    BY <2>1, <2>2, <2>3 DEF MsgInv, Inert
  <2>5. Forgets(c) \/ Restarts(c)
    BY <2>1 DEF DoRestart, MarkDead, Forgets, Restarts
  <2> QED
    BY <2>1, <2>4, <2>5 DEF Quiet, Loses
<1>14. CASE handleOtherExit
  BY <1>14 DEF handleOtherExit, NextMessage, server, control, Quiet, Stays, SameLists
<1>15. CASE handleStop
  BY <1>15 DEF handleStop, NextMessage, server, Quiet, Quits
<1> QED
  BY <1>2, <1>3, <1>4, <1>5, <1>6, <1>7, <1>8, <1>9, <1>10, <1>11, <1>12, <1>13, <1>14,
     <1>15 DEF Next, Work

(* In a list of all the children, the child of a live process is that one. *)
LEMMA OwnEntry ==
  ASSUME NEW s \in Seq(Children), Distinct(s), Owned(El(s))
  PROVE  \A p \in Pids, e \in El(s) : Alive(p) /\ e.name = owner[p] => e.pid = p
<1> SUFFICES ASSUME NEW p \in Pids, NEW e \in El(s), Alive(p), e.name = owner[p]
             PROVE  e.pid = p
  OBVIOUS
<1>1. PICK f \in El(s) : f.name = owner[p] /\ f.pid = p
  BY DEF Owned
<1>2. e = f
  BY <1>1 DEF El, Distinct
<1> QED
  BY <1>1, <1>2

(* An idle server lists the child of every live process. *)
LEMMA OwnIdle ==
  ASSUME OneIncarnation, UNCHANGED <<proc, owner>>, pc' = "idle", job' = "none",
         Owned(El(children'))
  PROVE  OwnInv'
<1>1. OneIncarnation'
  BY DEF OneIncarnation, Alive
<1>2. Owned(Refs)'
  BY DEF Owned, Refs, Alive, Looping
<1> QED
  BY <1>1, <1>2 DEF OwnInv, Tearing, Shutting

(* terminate-children begins with a list of all the children, or of those left. *)
LEMMA OwnTeardown ==
  ASSUME OneIncarnation, UNCHANGED <<proc, owner>>, pc' = "stop", acc' = <<>>,
         job' \in {"init-failed", "one-for-all", "terminate"},
         ~(job' = "terminate" /\ Strategy = "one-for-all") => Owned(El(todo')),
         \A p \in Pids, e \in El(todo') : Alive(p) /\ e.name = owner[p] => e.pid = p,
         job' = "one-for-all" => Inert(Head(victim'))
  PROVE  OwnInv'
<1>1. OneIncarnation'
  BY DEF OneIncarnation, Alive
<1>2. El(acc') = {} /\ job' \in Looping
  BY SmallLists DEF Looping
<1>3. Refs' = El(todo')
  BY <1>2 DEF Refs
<1>4. ~(job' = "terminate" /\ Strategy = "one-for-all") => Owned(Refs)'
  BY <1>3 DEF Owned, Alive
<1>5. \A p \in Pids : Alive(p)' =>
         /\ \A e \in El(acc') : e.name # owner'[p]
         /\ \A e \in El(todo') : e.name = owner'[p] => e.pid = p
  BY <1>2 DEF Alive
<1>6. job' = "one-for-all" => Inert(Head(victim))'
  BY DEF Inert, Alive
<1> QED
  BY <1>1, <1>4, <1>5, <1>6 DEF OwnInv

(* A restart begins when the process of its child is down. *)
LEMMA OwnRestart ==
  ASSUME NEW c \in Children, NEW chs \in Seq(Children), Distinct(chs), Restart(c, chs),
         OneIncarnation, UNCHANGED <<proc, owner>>, Inert(c), Owned(El(chs)),
         Strategy = "one-for-one" => \A e \in El(chs) : e.name = c.name => Inert(e)
  PROVE  OwnInv'
<1>1. victim' = <<c>> /\ acc' = <<>>
  BY RestartEffect
<1>2. Head(<<c>>) = c /\ El(<<c>>) = {c} /\ El(<<>>) = {}
  BY SmallLists
<1>3. \A p \in Pids, e \in El(chs) : Alive(p) /\ e.name = owner[p] => e.pid = p
  BY OwnEntry
<1>4. \A e \in El(chs) : e \in Children
  BY Found
<1>5. CASE /\ Strategy = "one-for-one" /\ job' = Strategy
           /\ children' = chs /\ pc' = "start" /\ todo' = <<c>>
  <2>1. OneIncarnation'
    BY DEF OneIncarnation, Alive
  <2>2. Owned(Refs)'
    <3>1. Refs' = El(chs) \cup {c}
      BY <1>2, <1>5 DEF Refs, Looping
    <3> QED
      BY <3>1 DEF Owned, Alive
  <2>3. \A e : Inert(e)' <=> Inert(e)
    BY DEF Inert, Alive
  <2>4. Current' = c /\ Head(victim') = c
    BY <1>1, <1>2, <1>5 DEF Current
  <2> QED
    BY <1>2, <1>5, <2>1, <2>2, <2>3, <2>4 DEF OwnInv, Tearing, Shutting, Inert
<1>6. CASE /\ Strategy = "one-for-all" /\ job' = Strategy
           /\ children' = chs /\ pc' = "stop" /\ todo' = MarkChildDead(c.pid, chs)
  <2>1. ASSUME NEW p \in Pids, NEW e \in El(chs), Alive(p), e.pid = p
        PROVE  Marked(c.pid, e) = e
    <3>1. c.pid # p
      BY <2>1, SupervisorAssumption DEF Inert
    <3>2. c.pid # e.name
      BY <1>4, ChildFields, SupervisorAssumption
    <3> QED
      BY <2>1, <3>1, <3>2 DEF Marked
  <2>2. Owned(El(todo'))
    <3> SUFFICES ASSUME NEW p \in Pids, Alive(p)
                 PROVE  \E e \in El(todo') : e.name = owner[p] /\ e.pid = p
      BY DEF Owned
    <3>1. PICK e \in El(chs) : e.name = owner[p] /\ e.pid = p
      BY DEF Owned
    <3>2. e \in El(todo')
      BY <1>6, <2>1, <3>1, MarkedDead
    <3> QED
      BY <3>1, <3>2
  <2>3. todo' \in Seq(Children) /\ Distinct(todo')
    BY <1>6, MarkedDead
  <2>4. \A p \in Pids, e \in El(todo') : Alive(p) /\ e.name = owner[p] => e.pid = p
    BY <2>2, <2>3, OwnEntry
  <2> QED
    BY <1>1, <1>2, <1>6, <2>2, <2>4, OwnTeardown
<1>7. CASE /\ job' = "terminate" /\ pc' = "stop"
           /\ children' = RemoveChild(c, chs) /\ todo' = RemoveChild(c, chs)
  <2>1. El(todo') = {e \in El(chs) : e.name # c.name}
    BY <1>7, Removed
  <2>2. ASSUME Strategy = "one-for-one"
        PROVE  Owned(El(todo'))
    <3> SUFFICES ASSUME NEW p \in Pids, Alive(p)
                 PROVE  \E e \in El(todo') : e.name = owner[p] /\ e.pid = p
      BY DEF Owned
    <3>1. PICK e \in El(chs) : e.name = owner[p] /\ e.pid = p
      BY DEF Owned
    <3>2. e.name # c.name
      BY <2>2, <3>1, SupervisorAssumption DEF Inert
    <3> QED
      BY <2>1, <3>1, <3>2
  <2>3. \A p \in Pids, e \in El(todo') : Alive(p) /\ e.name = owner[p] => e.pid = p
    BY <1>3, <2>1
  <2>4. Strategy \in {"one-for-one", "one-for-all"}
    BY SupervisorAssumption
  <2> QED
    BY <1>1, <1>7, <2>2, <2>3, <2>4, OwnTeardown
<1> QED
  BY <1>5, <1>6, <1>7, RestartEffect

(* A process ends. *)
LEMMA OwnFalls ==
  ASSUME TypeOK, ControlInv, OwnInv, NEW p \in Pids, Falls(p)
  PROVE  OwnInv'
<1>1. PICK r \in {"killed"} \cup Reasons : proc' = [proc EXCEPT ![p] = r]
  BY DEF Falls
<1>2. r # "alive" /\ owner' = [owner EXCEPT ![p] = None]
  BY SupervisorAssumption DEF Falls
<1>3. \A q \in Pids : Alive(q)' => Alive(q) /\ owner'[q] = owner[q]
  BY <1>1, <1>2 DEF Alive, TypeOK
<1>4. UNCHANGED <<children, job, todo, acc, victim>> /\ Current' = Current
  BY DEF Falls, Stays, Advances, SameLists, Current
<1>5. (pc' = "start" => pc = "start") /\ (pc' \in Tearing => pc \in Tearing)
  BY DEF Falls, Stays, Advances, Tearing, Shutting
<1>6. \A e \in Children : Inert(e) => Inert(e)'
  BY <1>3, ChildFields DEF Inert
<1>7. OneIncarnation'
  BY <1>3 DEF OwnInv, OneIncarnation
<1>8. ~(job = "terminate" /\ Strategy = "one-for-all") => Owned(Refs)'
  BY <1>3, <1>4 DEF OwnInv, Owned, Refs
<1>9. children \in Seq(Children) /\ todo \in Seq(Children) /\ victim \in Seq(Children)
  BY DEF TypeOK
<1>10. El(children) \subseteq Children /\ El(todo) \subseteq Children
  BY <1>9, Found
<1>11. job \in {"one-for-one", "one-for-all"} => Inert(Head(victim))'
  <2> SUFFICES ASSUME job \in {"one-for-one", "one-for-all"}
               PROVE  Inert(Head(victim))'
    OBVIOUS
  <2>1. Head(victim) \in Children /\ Inert(Head(victim))
    BY <1>9, TailList DEF ControlInv, OwnInv
  <2> QED
    BY <1>3, <1>4, <2>1, ChildFields DEF Inert
<1>12. job \in {"restart-child", "one-for-one"} =>
         \A e \in El(children) : e.name = Current.name => Inert(e)'
  BY <1>6, <1>10 DEF OwnInv
<1>13. pc' = "start" => \A e \in El(todo) : Inert(e)'
  BY <1>5, <1>6, <1>10 DEF OwnInv
<1>14. pc' \in Tearing /\ job # "terminate-child" =>
         \A q \in Pids : Alive(q)' =>
           /\ \A e \in El(acc) : e.name # owner'[q]
           /\ \A e \in El(todo) : e.name = owner'[q] => e.pid = q
  BY <1>3, <1>5 DEF OwnInv
<1> QED
  BY <1>4, <1>7, <1>8, <1>11, <1>12, <1>13, <1>14 DEF OwnInv

(* A process is started for a child that has none. *)
LEMMA OwnBears ==
  ASSUME TypeOK, Lists, OwnInv, NEW p \in Pids, Bears(p)
  PROVE  OwnInv'
<1>1. /\ pc = "start" /\ todo # <<>> /\ pc' = "link" /\ todo' = Born(todo, p)
      /\ UNCHANGED <<children, job, acc, victim>>
  BY DEF Bears, Birth
<1>2. /\ proc' = [proc EXCEPT ![p] = "alive"] /\ owner' = [owner EXCEPT ![p] = Current.name]
      /\ ~Alive(p)
      /\ \A e \in El(children) \cup El(todo) \cup El(acc) \cup El(victim) : e.pid # p
  BY DEF Bears
<1>3. children \in Seq(Children) /\ todo \in Seq(Children) /\ victim \in Seq(Children)
  BY DEF TypeOK
<1>4. /\ todo' # <<>> /\ todo' \in Seq(Children) /\ Tail(todo') = Tail(todo)
      /\ Head(todo').name = Head(todo).name /\ Head(todo').pid = p
  BY <1>1, <1>3, HeadBorn
<1>5. El(todo) = {Current} \cup El(Tail(todo)) /\ El(todo') = {Current'} \cup El(Tail(todo))
  BY <1>1, <1>3, <1>4, TailList DEF Current
<1>6. Current'.name = Current.name /\ Current'.pid = p /\ Inert(Current)
  BY <1>1, <1>4, <1>5 DEF OwnInv, Current
<1>7. \A q \in Pids : (Alive(q)' <=> Alive(q) \/ q = p)
                      /\ (q # p => owner'[q] = owner[q]) /\ owner'[p] = Current.name
  BY <1>2 DEF Alive, TypeOK
<1>8. job \in Starting /\ job # "terminate"
  BY <1>1 DEF Lists, ControlInv, Starting
<1>9. Owned(Refs)
  BY <1>8 DEF OwnInv
<1>10. \A q \in Pids : Alive(q) => \E e \in Refs : e.name = owner[q] /\ e.pid = q /\ e # Current
  BY <1>6, <1>9, SupervisorAssumption DEF Owned, Inert
<1>11. \A e \in Refs : e # Current => e.name # Current.name \/ Inert(e)
  <2>1. CASE job \in Looping
    <3>1. Distinct(todo) /\ Apart(todo, acc) /\ Refs = El(todo) \cup El(acc)
      BY <2>1 DEF Lists, NameInv, Refs
    <3>2. \A e \in El(Tail(todo)) : e.name # Current.name
      BY <1>1, <1>3, <3>1, TailList DEF Current
    <3>3. \A e \in El(acc) : e.name # Current.name
      BY <1>5, <3>1 DEF Apart
    <3> QED
      BY <1>5, <3>1, <3>2, <3>3
  <2>2. CASE job \notin Looping
    <3>1. Refs = El(children) \cup El(todo)
      BY <2>2 DEF Refs
    <3>2. job \in {"start-child", "restart-child", "one-for-one"}
      BY <1>8, <2>2 DEF Starting, Looping
    <3>3. \A e \in El(children) : e.name # Current.name \/ Inert(e)
      BY <3>2 DEF Lists, NameInv, OwnInv
    <3>4. \A e \in El(todo) : Inert(e)
      BY <1>1 DEF OwnInv
    <3> QED
      BY <3>1, <3>3, <3>4
  <2> QED
    BY <2>1, <2>2
<1>12. \A q \in Pids : Alive(q) => owner[q] # Current.name
  BY <1>10, <1>11, SupervisorAssumption DEF Inert
<1>13. OneIncarnation'
  BY <1>7, <1>12 DEF OwnInv, OneIncarnation
<1>14. Owned(Refs)'
  <2>1. Current' \in Refs' /\ \A e \in Refs : e # Current => e \in Refs'
    BY <1>1, <1>5 DEF Refs
  <2> QED
    BY <1>6, <1>7, <1>10, <2>1 DEF Owned
<1>15. \A e \in El(children) : Inert(e) => Inert(e)'
  <2>1. \A e \in El(children) : e.pid \in Pids \cup {None} /\ e.pid # p
    BY <1>2, <1>3, Found, ChildFields
  <2> QED
    BY <1>7, <2>1 DEF Inert
<1>16. job \in {"one-for-one", "one-for-all"} => Inert(Head(victim))'
  <2> SUFFICES ASSUME job \in {"one-for-one", "one-for-all"}
               PROVE  Inert(Head(victim))'
    OBVIOUS
  <2>1. Inert(Head(victim)) /\ victim # <<>>
    BY DEF Lists, ControlInv, OwnInv
  <2>2. Head(victim).pid # p /\ Head(victim).pid \in Pids \cup {None}
    BY <1>2, <1>3, <2>1, TailList, ChildFields
  <2> QED
    BY <1>1, <1>7, <2>1, <2>2 DEF Inert
<1>17. job \in {"restart-child", "one-for-one"} =>
         \A e \in El(children) : e.name = Current'.name => Inert(e)'
  BY <1>6, <1>15 DEF OwnInv
<1> QED
  BY <1>1, <1>13, <1>14, <1>16, <1>17 DEF OwnInv, Tearing, Shutting

(* The other steps *)
LEMMA OwnQuiet ==
  ASSUME TypeOK, Lists, OwnInv, Quiet
  PROVE  OwnInv'
<1>1. ControlInv /\ DoneInv /\ NameInv
  BY DEF Lists
<1>2. /\ children \in Seq(Children) /\ todo \in Seq(Children)
      /\ acc \in Seq(Children) /\ victim \in Seq(Children)
  BY DEF TypeOK
<1>3. UNCHANGED <<proc, owner>> /\ OneIncarnation /\ OneIncarnation'
  BY DEF Quiet, OwnInv, OneIncarnation, Alive
<1>4. (\A e : Inert(e)' <=> Inert(e)) /\ (\A q \in Pids : Alive(q)' <=> Alive(q))
  BY <1>3 DEF Inert, Alive
<1>5. El(<<>>) = {} /\ Distinct(<<>>)
  BY SmallLists
<1>6. \A q \in Pids : \A e : Alive(q) /\ e.pid = q => ~Inert(e)
  BY SupervisorAssumption DEF Inert
<1>7. todo # <<>> => /\ El(todo) = {Current} \cup El(Tail(todo)) /\ Current \in Children
                     /\ Current \in El(todo) /\ Tail(todo) \in Seq(Children)
  BY <1>2, TailList DEF Current
<1>8. ASSUME pc = "idle"
      PROVE  Distinct(children) /\ Owned(El(children))
  <2>1. job = "none" /\ todo = <<>>
    BY <1>1, <1>8 DEF ControlInv
  <2> QED
    BY <1>1, <1>5, <2>1 DEF NameInv, OwnInv, Refs, Looping
<1>9. ASSUME job \in {"start-child", "restart-child", "one-for-one"}
      PROVE  /\ Distinct(children) /\ Owned(El(children) \cup {Current}) /\ todo # <<>>
             /\ \A e \in El(children) : e.name = Current.name => Inert(e)
  <2>1. Len(todo) = 1
    BY <1>1, <1>9 DEF ControlInv, Single
  <2>2. todo # <<>>
    BY <2>1, SmallLists
  <2>3. Len(Tail(todo)) = 0
    BY <1>2, <2>1, <2>2
  <2>4. El(Tail(todo)) = {}
    BY <2>3, NoElements
  <2>5. El(todo) = {Current}
    BY <1>7, <2>2, <2>4
  <2>6. job = "start-child" => \A e \in El(children) : e.name # Current.name
    BY <1>1 DEF NameInv
  <2> QED
    BY <1>1, <1>9, <2>2, <2>5, <2>6 DEF NameInv, OwnInv, Refs, Looping
<1>10. ASSUME Stays \/ Advances
       PROVE  OwnInv'
  <2>1. UNCHANGED <<children, job, todo, acc, victim>> /\ Current' = Current
    BY <1>10 DEF Stays, Advances, SameLists, Current
  <2>2. (pc' = "start" => pc = "start") /\ (pc' \in Tearing => pc \in Tearing)
    BY <1>10 DEF Stays, Advances, Tearing, Shutting
  <2>3. Refs' = Refs /\ (Owned(Refs) => Owned(Refs)')
    BY <1>3, <2>1 DEF Refs, Owned, Alive
  <2> QED
    BY <1>3, <2>1, <2>2, <2>3 DEF OwnInv, Inert, Alive
<1>11. CASE StartsMore
  <2>1. /\ pc \in {"start", "link"} /\ todo # <<>> /\ job \in {"init", "one-for-all"}
        /\ acc' = <<Current>> \o acc /\ todo' = Tail(todo) /\ pc' = "start"
        /\ UNCHANGED <<children, job, victim>>
    BY <1>11 DEF StartsMore, Returned
  <2>2. El(acc') = {Current} \cup El(acc)
    <3> DEFINE d == Current
    <3> HIDE DEF d
    <3>1. acc' = <<d>> \o acc /\ d \in Children
      BY <1>7, <2>1 DEF d
    <3>2. El(acc') = {d} \cup El(acc)
      BY <1>2, <3>1, ConsList
    <3> QED
      BY <3>2 DEF d
  <2>3. job \in Looping /\ Refs' = Refs
    BY <1>7, <2>1, <2>2 DEF Refs, Looping
  <2>4. Owned(Refs)'
    BY <1>3, <2>1, <2>3 DEF OwnInv, Owned, Alive
  <2>5. \A e \in El(todo') : Inert(e)'
    BY <1>1, <1>4, <1>7, <2>1 DEF OwnInv, DoneInv, Inert
  <2>6. job \in {"one-for-one", "one-for-all"} => Inert(Head(victim))'
    BY <1>3, <2>1 DEF OwnInv, Inert, Alive
  <2> QED
    BY <1>3, <2>1, <2>4, <2>5, <2>6 DEF OwnInv, Tearing, Shutting
<1>12. CASE StartsOne
  <2>1. /\ pc \in {"start", "link"} /\ job \notin {"init", "one-for-all"}
        /\ pc' = "idle" /\ job' = "none"
        /\ children' = IF job = "start-child" THEN <<Current>> \o children
                       ELSE ReplaceChild(Current, children)
    BY <1>12 DEF StartsOne, Returned, Idle
  <2>2. job \in {"start-child", "restart-child", "one-for-one"}
    BY <1>1, <2>1 DEF ControlInv, Starting
  <2>3. /\ Owned(El(children) \cup {Current}) /\ todo # <<>> /\ Current \in Children
        /\ \A e \in El(children) : e.name = Current.name => Inert(e)
    BY <1>7, <1>9, <2>2
  <2>4. /\ Current \in El(children')
        /\ \A e \in El(children) : e.name # Current.name => e \in El(children')
    <3> DEFINE d == Current
    <3> HIDE DEF d
    <3>1. CASE job = "start-child"
      <4>1. children' = <<d>> \o children /\ d \in Children
        BY <2>1, <2>3, <3>1 DEF d
      <4>2. El(children') = {d} \cup El(children)
        BY <1>2, <4>1, ConsList
      <4> QED
        BY <4>2 DEF d
    <3>2. CASE job # "start-child"
      <4>1. \E e \in El(children) : e.name = Current.name
        BY <1>1, <2>2, <3>2 DEF NameInv
      <4> QED
        BY <1>2, <2>1, <2>3, <3>2, <4>1, Replaced
    <3> QED
      BY <3>1, <3>2
  <2>5. Owned(El(children'))
    BY <1>6, <2>3, <2>4 DEF Owned
  <2> QED
    BY <1>3, <2>1, <2>5, OwnIdle
<1>13. CASE InitFails
  <2>1. /\ todo # <<>> /\ job = "init" /\ job' = "init-failed"
        /\ pc' = "stop" /\ todo' = Unstarted /\ acc' = <<>>
    BY <1>13 DEF InitFails, TerminateChildren
  <2>2. /\ todo' \in Seq(Children) /\ Distinct(todo') /\ El(todo') = El(todo) \cup El(acc)
    BY <1>1, <2>1, Unstartable DEF NameInv, Looping
  <2>3. Owned(El(todo'))
    BY <2>1, <2>2 DEF OwnInv, Refs, Looping
  <2>4. \A p \in Pids, e \in El(todo') : Alive(p) /\ e.name = owner[p] => e.pid = p
    BY <2>2, <2>3, OwnEntry
  <2> QED
    BY <1>3, <2>1, <2>3, <2>4, OwnTeardown
<1>14. CASE GivesUp
  <2>1. /\ pc = "start" /\ job \notin {"init", "one-for-one", "one-for-all"} /\ pc' = "idle"
        /\ job' = "none" /\ children' = children
    BY <1>14 DEF GivesUp, Idle
  <2>2. job \in {"start-child", "restart-child"}
    BY <1>1, <2>1 DEF ControlInv, Starting
  <2>3. Owned(El(children) \cup {Current}) /\ Inert(Current)
    BY <1>7, <1>9, <2>1, <2>2 DEF OwnInv
  <2>4. Owned(El(children'))
    BY <1>6, <2>1, <2>3 DEF Owned
  <2> QED
    BY <1>3, <2>1, <2>4, OwnIdle
<1>15. CASE Retries
  <2>1. /\ pc = "start" /\ todo # <<>> /\ job \in {"one-for-one", "one-for-all"}
        /\ job = Strategy /\ victim # <<>> /\ Inert(Head(victim))
        /\ job = "one-for-one" => Restart(Head(victim), children)
        /\ job = "one-for-all" => Restart(Head(victim), Unstarted)
    BY <1>1, <1>15 DEF Retries, ControlInv, OwnInv
  <2>2. Head(victim) \in Children
    BY <1>2, <2>1, TailList
  <2>3. CASE job = "one-for-one"
    <3>1. /\ Distinct(children) /\ Owned(El(children) \cup {Current}) /\ Inert(Current)
          /\ Head(victim).name = Current.name
          /\ \A e \in El(children) : e.name = Current.name => Inert(e)
      BY <1>1, <1>7, <1>9, <2>1, <2>3 DEF OwnInv, NameInv
    <3>2. Owned(El(children))
      BY <1>6, <3>1 DEF Owned
    <3> QED
      BY <1>2, <1>3, <2>1, <2>2, <2>3, <3>1, <3>2, OwnRestart
  <2>4. CASE job = "one-for-all"
    <3>1. /\ Unstarted \in Seq(Children) /\ Distinct(Unstarted)
          /\ El(Unstarted) = El(todo) \cup El(acc)
      BY <1>1, <2>1, <2>4, Unstartable DEF NameInv, Looping
    <3>2. Owned(El(Unstarted))
      BY <2>4, <3>1 DEF OwnInv, Refs, Looping
    <3> QED
      BY <1>3, <2>1, <2>2, <2>4, <3>1, <3>2, OwnRestart
  <2> QED
    BY <2>1, <2>3, <2>4
<1>16. CASE AllStarted
  <2>1. pc = "start" /\ todo = <<>> /\ children' = acc /\ pc' = "idle" /\ job' = "none"
    BY <1>16 DEF AllStarted, Idle
  <2>2. Len(todo) = 0
    BY <2>1, SmallLists
  <2>3. job \in {"init", "one-for-all"}
    BY <1>1, <2>1, <2>2 DEF ControlInv, Starting, Single
  <2>4. Owned(El(children'))
    BY <1>5, <2>1, <2>3 DEF OwnInv, Refs, Looping
  <2> QED
    BY <1>3, <2>1, <2>4, OwnIdle
<1>17. CASE EndsMore /\ Inert(Current)
  <2>1. /\ pc \in Tearing /\ todo # <<>> /\ job # "terminate-child"
        /\ acc' = <<Dead(Current)>> \o acc /\ todo' = Tail(todo) /\ pc' = "stop"
        /\ UNCHANGED <<job, victim>>
    BY <1>17 DEF EndsMore, Tearing, Shutting
  <2>2. job \in Looping
    BY <1>1, <1>17 DEF EndsMore, ControlInv, Looping, Stopping, Shutting
  <2> DEFINE d == Dead(Current)
  <2>3. d \in Children /\ d.name = Current.name /\ acc' = <<d>> \o acc
    BY <1>7, <2>1, ChildFields
  <2> HIDE DEF d
  <2>4. El(acc') = {d} \cup El(acc)
    BY <1>2, <2>3, ConsList
  <2>5. \A e \in Refs : e # Current => e \in Refs'
    BY <1>7, <2>1, <2>2, <2>4 DEF Refs
  <2>6. ~(job = "terminate" /\ Strategy = "one-for-all") => Owned(Refs)'
    BY <1>3, <1>6, <1>17, <2>1, <2>5 DEF OwnInv, Owned, Alive
  <2>7. \A p \in Pids : Alive(p) =>
          /\ \A e \in El(acc') : e.name # owner[p]
          /\ \A e \in El(todo') : e.name = owner[p] => e.pid = p
    BY <1>6, <1>7, <1>17, <2>1, <2>3, <2>4 DEF OwnInv
  <2>8. job \in {"one-for-one", "one-for-all"} => Inert(Head(victim))'
    BY <1>3, <2>1 DEF OwnInv, Inert, Alive
  <2>9. job \notin {"restart-child", "one-for-one"}
    BY <2>2 DEF Looping
  <2> QED
    BY <1>3, <1>4, <2>1, <2>6, <2>7, <2>8, <2>9 DEF OwnInv
<1>18. CASE EndsOne /\ Inert(Current)
  <2>1. /\ todo # <<>> /\ job = "terminate-child" /\ pc' = "idle" /\ job' = "none"
        /\ children' = ReplaceChild(Dead(Current), children)
    BY <1>18 DEF EndsOne, Idle
  <2>2. Dead(Current) \in Children /\ Dead(Current).name = Current.name
    BY <1>7, <2>1, ChildFields
  <2>3. Distinct(children) /\ Current \in El(children)
    BY <1>1, <2>1 DEF NameInv, Looping
  <2>4. \A e \in El(children) : e = Current \/ e.name # Current.name
    BY <2>3 DEF Distinct, El
  <2>5. \A e \in El(children) : e # Current => e \in El(children')
    BY <1>2, <2>1, <2>2, <2>4, Replaced
  <2>6. Owned(El(children) \cup {Current})
    <3>1. Len(todo) = 1
      BY <1>1, <2>1 DEF ControlInv, Single
    <3>2. Len(Tail(todo)) = 0
      BY <1>2, <2>1, <3>1
    <3>3. El(todo) = {Current}
      BY <1>7, <2>1, <3>2, NoElements
    <3> QED
      BY <2>1, <3>3 DEF OwnInv, Refs, Looping
  <2>7. Owned(El(children'))
    BY <1>6, <1>18, <2>5, <2>6 DEF Owned
  <2> QED
    BY <1>3, <2>1, <2>7, OwnIdle
<1>19. CASE StartsAgain
  <2>1. /\ pc = "stop" /\ todo = <<>> /\ job = "one-for-all"
        /\ pc' = "start" /\ todo' = acc /\ acc' = <<>> /\ UNCHANGED <<children, job, victim>>
    BY <1>19 DEF StartsAgain, StartChildren
  <2>2. \A e \in El(acc) : e.pid = None
    BY <1>1, <2>1 DEF DoneInv, Tearing, Shutting
  <2>3. Refs' = Refs
    BY <2>1 DEF Refs, Looping
  <2>4. Owned(Refs)'
    BY <1>3, <2>1, <2>3 DEF OwnInv, Owned, Alive
  <2>5. \A e \in El(todo') : Inert(e)'
    BY <2>1, <2>2 DEF Inert
  <2>6. Inert(Head(victim))'
    BY <1>3, <2>1 DEF OwnInv, Inert, Alive
  <2> QED
    BY <1>3, <2>1, <2>4, <2>5, <2>6 DEF OwnInv, Tearing, Shutting
<1>20. ASSUME NEW n \in Names, Asks(n)
       PROVE  OwnInv'
  <2>1. /\ pc = "idle" /\ children' = children
        /\ pc' \in {"start", "monitor"}
        /\ job' \in {"start-child", "restart-child", "terminate-child"}
        /\ pc' # "start" => job' = "terminate-child"
    BY <1>20 DEF Asks
  <2>2. Distinct(children) /\ Owned(El(children))
    BY <1>8, <2>1
  <2>3. El(children) \subseteq Refs'
    BY <2>1 DEF Refs, Looping
  <2>4. Owned(Refs)'
    BY <1>3, <2>2, <2>3 DEF Owned, Alive
  <2>5. pc' = "start" => \A e \in El(todo') : e.pid = None
    <3>1. ASSUME pc' = "start"
          PROVE  \E d \in Children : d.pid = None /\ todo' = <<d>>
      <4>1. CASE todo' = <<[name |-> n, pid |-> None]>>
        BY <4>1 DEF Children
      <4>2. CASE /\ n \in NamesOf(children) /\ FindChild(n, children).pid = None
                 /\ todo' = <<FindChild(n, children)>>
        BY <1>2, <4>2, Found
      <4> QED
        BY <1>20, <3>1, <4>1, <4>2 DEF Asks
    <3> QED
      BY <3>1, SmallLists
  <2>6. ASSUME job' = "restart-child", NEW e \in El(children), e.name = Current'.name
        PROVE  Inert(e)'
    <3> DEFINE c == FindChild(n, children)
    <3>1. n \in NamesOf(children) /\ c.pid = None /\ todo' = <<c>>
      BY <1>20, <2>6 DEF Asks
    <3>2. c \in El(children) /\ c \in Children
      BY <1>2, <3>1, Found
    <3> HIDE DEF c
    <3>3. Current' = c
      BY <3>1, <3>2, SmallLists DEF Current
    <3>4. e = c
      BY <2>2, <2>6, <3>2, <3>3 DEF Distinct, El
    <3> QED
      BY <3>1, <3>4 DEF Inert
  <2>7. pc' = "start" => \A e \in El(todo') : Inert(e)'
    BY <2>5 DEF Inert
  <2>8. pc' \in Tearing => job' = "terminate-child"
    BY <2>1 DEF Tearing, Shutting
  <2>9. job' \notin {"one-for-one", "one-for-all", "terminate"}
    BY <2>1
  <2> QED
    BY <1>3, <2>1, <2>4, <2>6, <2>7, <2>8, <2>9 DEF OwnInv
<1>21. ASSUME NEW c \in El(children), Inert(c), Forgets(c)
       PROVE  OwnInv'
  <2>1. /\ pc = "idle" /\ UNCHANGED <<pc, job>>
        /\ children' \in {RemoveChild(c, children), MarkChildDead(c.name, children)}
    BY <1>21 DEF Forgets, control
  <2>2. Distinct(children) /\ Owned(El(children)) /\ job' = "none"
    BY <1>1, <1>8, <2>1 DEF ControlInv
  <2>3. \A e \in El(children) : e = c \/ e.name # c.name
    BY <2>2 DEF Distinct, El
  <2>4. ASSUME NEW q \in Pids, Alive(q), NEW e \in El(children), e.pid = q
        PROVE  e \in El(children')
    <3>1. e.name # c.name
      BY <1>6, <1>21, <2>3, <2>4
    <3>2. CASE children' = RemoveChild(c, children)
      BY <1>2, <2>2, <3>1, <3>2, Removed
    <3>3. CASE children' = MarkChildDead(c.name, children)
      <4>1. c.name # q
        BY <1>2, Found, ChildFields, SupervisorAssumption
      <4>2. Marked(c.name, e) = e
        BY <2>4, <3>1, <4>1 DEF Marked
      <4> QED
        BY <1>2, <3>3, <4>2, MarkedDead
    <3> QED
      BY <2>1, <3>2, <3>3
  <2>5. Owned(El(children'))
    BY <2>2, <2>4 DEF Owned
  <2> QED
    BY <1>3, <2>1, <2>2, <2>5, OwnIdle
<1>22. ASSUME NEW c \in El(children), Inert(c), Restarts(c)
       PROVE  OwnInv'
  <2>1. pc = "idle" /\ Restart(c, children) /\ c \in Children
    BY <1>2, <1>22, Found DEF Restarts
  <2>2. Distinct(children) /\ Owned(El(children))
    BY <1>8, <2>1
  <2>3. \A e \in El(children) : e.name = c.name => Inert(e)
    BY <1>22, <2>2 DEF Distinct, El
  <2> QED
    BY <1>2, <1>3, <1>22, <2>1, <2>2, <2>3, OwnRestart
<1>23. CASE Quits
  <2>1. /\ pc = "idle" /\ job' = "terminate" /\ pc' = "stop" /\ todo' = children /\ acc' = <<>>
    BY <1>23 DEF Quits, TerminateChildren
  <2>2. Distinct(children) /\ Owned(El(children))
    BY <1>8, <2>1
  <2>3. \A p \in Pids, e \in El(children) : Alive(p) /\ e.name = owner[p] => e.pid = p
    BY <1>2, <2>2, OwnEntry
  <2> QED
    BY <1>3, <2>1, <2>2, <2>3, OwnTeardown
<1> QED
  BY <1>10, <1>11, <1>12, <1>13, <1>14, <1>15, <1>16, <1>17, <1>18, <1>19, <1>20, <1>21,
     <1>22, <1>23 DEF Quiet, Loses

(* The invariant of lists and messages with that of processes *)
ChildInv == ShutdownInv /\ OwnInv

(* Every child has at most one live process, and the supervisor lists it. *)
LEMMA ChildAlways == Spec => []ChildInv
<1>1. Init => ChildInv
  <2> SUFFICES ASSUME Init
               PROVE  ChildInv
    OBVIOUS
  <2>1. ShutdownInv /\ pc = "start" /\ job = "init"
    BY InitShutdown DEF Init
  <2>2. \A e \in El(todo) : e.pid = None
    BY <2>1 DEF ShutdownInv, Lists, DoneInv
  <2>3. \A p \in Pids : ~Alive(p)
    BY DEF Init, Alive
  <2>4. OwnInv
    BY <2>1, <2>2, <2>3 DEF OwnInv, OneIncarnation, Owned, Inert, Tearing, Shutting
  <2> QED
    BY <2>1, <2>4 DEF ChildInv
<1>2. ASSUME ChildInv, [Next]_svars
      PROVE  ChildInv'
  <2>1. TypeOK /\ ControlInv /\ Lists /\ MsgInv /\ OwnInv
    BY <1>2, TypeParts DEF ChildInv, ShutdownInv, Lists
  <2>2. ShutdownInv'
    BY <1>2, ShutdownStep DEF ChildInv
  <2>3. OwnInv'
    BY <1>2, <2>1, OwnSteps, OwnFalls, OwnBears, OwnQuiet
  <2> QED
    BY <2>2, <2>3 DEF ChildInv
<1>3. ChildInv /\ [Next]_svars => ChildInv'
  BY <1>2
<1> QED
  BY <1>1, <1>3, PTL DEF Spec

(* No two processes of one child are alive at the same time: do-start-child *)
(* runs a thunk only when the process before it is known to be down.        *)
THEOREM AlwaysOneIncarnation == Spec => []OneIncarnation
<1>1. ChildInv => OneIncarnation
  BY DEF ChildInv, OwnInv
<1> QED
  BY <1>1, ChildAlways, PTL

(* terminate-children goes on to the next child when the one before has ended, *)
(* whatever its children do meanwhile.                                         *)
THEOREM AlwaysInOrder == Spec => []TeardownInOrder
<1>1. ChildInv => TeardownInOrder
  <2> SUFFICES ASSUME ChildInv
               PROVE  TeardownInOrder
    OBVIOUS
  <2>1. OwnInv /\ acc \in Seq(Children)
    BY DEF ChildInv, ShutdownInv, Lists, ListsOK
  <2>2. \A i \in DOMAIN acc : acc[i] \in El(acc)
    BY <2>1 DEF El
  <2> QED
    BY <2>1, <2>2 DEF TeardownInOrder, OwnInv, Tearing, Shutting
<1> QED
  BY <1>1, ChildAlways, PTL

(* A one-for-one supervisor leaves no process of a child behind (terminate).   *)
(* A one-for-all one may: the child that it gives up on may have been started  *)
(* again in the meantime, and remove-child forgets it; see SupervisorOrphan.cfg. *)
THEOREM OneForOneAllDown ==
  ASSUME Strategy = "one-for-one"
  PROVE  Spec => []AllDown
<1>1. ChildInv => AllDown
  <2> SUFFICES ASSUME ChildInv, pc = "stopped", NEW p \in Pids, Alive(p)
               PROVE  FALSE
    BY DEF AllDown
  <2>1. ControlInv /\ DoneInv /\ OwnInv
    BY DEF ChildInv, ShutdownInv, Lists
  <2>2. job \in {"init-failed", "terminate"} /\ todo = <<>>
    BY <2>1 DEF ControlInv
  <2>3. Refs = El(acc)
    BY <2>2, SmallLists DEF Refs, Looping
  <2>4. \A e \in El(acc) : e.pid = None
    BY <2>1, <2>2 DEF DoneInv, Tearing
  <2>5. Owned(El(acc))
    BY <2>1, <2>2, <2>3 DEF OwnInv
  <2> QED
    BY <2>4, <2>5, SupervisorAssumption DEF Owned
<1> QED
  BY <1>1, ChildAlways, PTL

-----------------------------------------------------------------------------
(* The intensity of restarts *)

(* Restarts are begun one after the other. *)
Past(b, t) ==
  /\ \A i, j \in 1..Len(b) : i <= j => b[i] <= b[j]
  /\ \A i \in 1..Len(b) : b[i] <= t

(* The restarts in the state are the latest ones that were begun, and those *)
(* that are not in it are old.                                              *)
Latest(b, rs, t) ==
  /\ Len(rs) <= Len(b)
  /\ \A i \in 1..Len(rs) : rs[i] = b[Len(b) + 1 - i]
  /\ \A k \in 1..Len(b) : t - b[k] <= Period => k > Len(b) - Len(rs)

RestartInv ==
  /\ Past(begun, now)
  /\ job # "terminate" => Latest(begun, restarts, now) /\ Len(restarts) <= Intensity
  /\ IntensityKept

(* add-restart and prune-restarts keep the restarts of the last period. *)
LEMMA RestartAdded ==
  ASSUME NEW b \in Seq(Nat), NEW rs \in Seq(Nat), NEW t \in Nat, Past(b, t), Latest(b, rs, t)
  PROVE  /\ Past(Append(b, t), t)
         /\ Latest(Append(b, t), PruneRestarts(<<t>> \o rs, t), t)
<1> DEFINE x == <<t>> \o rs
           a == Append(b, t)
           q == PruneRestarts(x, t)
           n == Len(b)
           l == Len(rs)
<1>1. n \in Nat /\ l \in Nat /\ Period \in Nat
  BY SupervisorAssumption
<1>2. /\ x \in Seq(Nat) /\ Len(x) = l + 1 /\ x[1] = t
      /\ \A i \in 1..l : x[i + 1] = rs[i]
  <2>1. <<t>> \in Seq(Nat) /\ Len(<<t>>) = 1 /\ <<t>>[1] = t
    OBVIOUS
  <2>2. x \in Seq(Nat) /\ Len(x) = 1 + Len(rs)
    BY <2>1, ConcatProperties
  <2>3. \A i \in 1..(l + 1) : x[i] = IF i <= 1 THEN <<t>>[i] ELSE rs[i - 1]
    BY <1>1, <2>1, <2>2, ConcatProperties
  <2>4. x[1] = t
    BY <1>1, <2>1, <2>3
  <2>5. ASSUME NEW i \in 1..l
        PROVE  x[i + 1] = rs[i]
    <3>1. i + 1 \in 1..(l + 1) /\ ~(i + 1 <= 1) /\ (i + 1) - 1 = i
      BY <1>1
    <3> QED
      BY <2>3, <3>1
  <2> QED
    BY <1>1, <2>2, <2>4, <2>5
<1>3. /\ q \in Seq(Nat) /\ Len(q) <= Len(x)
      /\ \A i \in 1..Len(q) : q[i] = x[i] /\ t - x[i] <= Period
      /\ Len(q) < Len(x) => t - x[Len(q) + 1] > Period
  BY <1>2, Pruned
<1>4. a \in Seq(Nat) /\ Len(a) = n + 1 /\ a[n + 1] = t /\ \A i \in 1..n : a[i] = b[i]
  BY <1>1
<1>5. /\ \A i, j \in 1..n : i <= j => b[i] <= b[j]
      /\ \A i \in 1..n : b[i] <= t
      /\ l <= n
      /\ \A i \in 1..l : rs[i] = b[n + 1 - i]
      /\ \A k \in 1..n : t - b[k] <= Period => k > n - l
  BY DEF Past, Latest
<1>6. \A i \in 1..n : b[i] \in Nat
  OBVIOUS
<1> HIDE DEF x, a, q, n, l
<1> DEFINE m == Len(q)
<1>7. m \in Nat /\ m <= l + 1
  BY <1>2, <1>3
<1>8. Past(a, t)
  <2>1. \A i \in 1..(n + 1) : i \in 1..n \/ i = n + 1
    BY <1>1
  <2>2. ASSUME NEW i \in 1..(n + 1)
        PROVE  a[i] <= t
    <3>1. CASE i = n + 1
      BY <1>4, <3>1
    <3>2. CASE i \in 1..n
      BY <1>4, <1>5, <3>2
    <3> QED
      BY <2>1, <3>1, <3>2
  <2>3. ASSUME NEW i \in 1..(n + 1), NEW j \in 1..(n + 1), i <= j
        PROVE  a[i] <= a[j]
    <3>1. CASE j = n + 1
      BY <1>4, <2>2, <3>1
    <3>2. CASE j # n + 1
      <4>1. i \in 1..n /\ j \in 1..n
        BY <1>1, <2>3, <3>2
      <4> QED
        BY <1>4, <1>5, <2>3, <4>1
    <3> QED
      BY <3>1, <3>2
  <2> QED
    BY <1>4, <2>2, <2>3 DEF Past
<1>9. m # 0
  <2> SUFFICES ASSUME m = 0
               PROVE  FALSE
    OBVIOUS
  <2>1. Len(q) < Len(x) /\ Len(q) + 1 = 1
    BY <1>1, <1>2
  <2>2. t - t > Period
    BY <1>2, <1>3, <2>1
  <2> QED
    BY <1>1, <2>2
<1>10. ASSUME NEW i \in 1..m
       PROVE  q[i] = a[(n + 1) + 1 - i]
  <2>1. q[i] = x[i]
    BY <1>3
  <2>2. CASE i = 1
    <3>1. (n + 1) + 1 - i = n + 1
      BY <1>1, <2>2
    <3> QED
      BY <1>2, <1>4, <2>1, <2>2, <3>1
  <2>3. CASE i # 1
    <3> DEFINE h == i - 1
    <3>1. h \in 1..l /\ h + 1 = i /\ n + 1 - h = (n + 1) + 1 - i /\ n + 1 - h \in 1..n
      BY <1>1, <1>5, <1>7, <2>3
    <3> HIDE DEF h
    <3>2. x[h + 1] = rs[h] /\ rs[h] = b[n + 1 - h] /\ a[n + 1 - h] = b[n + 1 - h]
      BY <1>2, <1>4, <1>5, <3>1
    <3> QED
      BY <2>1, <3>1, <3>2
  <2> QED
    BY <2>2, <2>3
<1>11. ASSUME NEW k \in 1..(n + 1), k <= (n + 1) - m
       PROVE  t - a[k] > Period
  <2>1. k \in 1..n /\ a[k] = b[k] /\ b[k] \in Nat
    BY <1>1, <1>4, <1>6, <1>7, <1>9, <1>11
  <2>2. CASE m = l + 1
    <3>1. ~(k > n - l)
      BY <1>1, <1>11, <2>2
    <3>2. ~(t - b[k] <= Period)
      BY <1>5, <2>1, <3>1
    <3> QED
      BY <1>1, <2>1, <3>2
  <2>3. CASE m # l + 1
    <3>1. m \in 1..l
      BY <1>1, <1>7, <1>9, <2>3
    <3>2. Len(q) < Len(x)
      BY <1>1, <1>2, <3>1
    <3>3. n + 1 - m \in 1..n /\ k <= n + 1 - m
      BY <1>1, <1>5, <1>11, <3>1
    <3>4. t - x[m + 1] > Period
      BY <1>3, <3>2
    <3>5. x[m + 1] = b[n + 1 - m]
      BY <1>2, <1>5, <3>1
    <3>6. b[k] <= b[n + 1 - m] /\ b[n + 1 - m] \in Nat
      BY <1>5, <1>6, <2>1, <3>3
    <3>7. t - b[n + 1 - m] > Period
      BY <3>4, <3>5
    <3>8. \A y, z \in Nat : z <= y /\ t - y > Period => t - z > Period
      BY <1>1
    <3>9. t - b[k] > Period
      BY <2>1, <3>6, <3>7, <3>8
    <3> QED
      BY <2>1, <3>9
  <2> QED
    BY <2>2, <2>3
<1>12. \A k \in 1..(n + 1) : t - a[k] <= Period => k > (n + 1) - m
  <2> TAKE k \in 1..(n + 1)
  <2> HAVE t - a[k] <= Period
  <2>1. a[k] \in Nat
    BY <1>4
  <2>2. ~(k <= (n + 1) - m)
    BY <1>1, <1>11, <2>1
  <2> QED
    BY <1>1, <1>7, <2>2
<1>13. Latest(a, q, t)
  <2>1. m <= n + 1
    BY <1>1, <1>5, <1>7
  <2> QED
    BY <1>4, <1>10, <1>12, <2>1 DEF Latest
<1> QED
  BY <1>8, <1>13 DEF a, q, x

(* The restarts of the last period are no more than those in the state. *)
LEMMA FewRestarts ==
  ASSUME NEW b \in Seq(Nat), NEW rs \in Seq(Nat), NEW t \in Nat, Latest(b, rs, t)
  PROVE  Cardinality({i \in DOMAIN b : t - b[i] <= Period}) <= Len(rs)
<1> DEFINE S == {i \in DOMAIN b : t - b[i] <= Period}
           n == Len(b)
           l == Len(rs)
<1>1. n \in Nat /\ l \in Nat /\ l <= n /\ DOMAIN b = 1..n
  BY DEF Latest
<1>2. S \subseteq (n - l + 1)..n
  <2> SUFFICES ASSUME NEW i \in 1..n, t - b[i] <= Period
               PROVE  i \in (n - l + 1)..n
    BY <1>1
  <2>1. i > n - l
    BY DEF Latest
  <2> QED
    BY <1>1, <2>1
<1>3. /\ IsFiniteSet((n - l + 1)..n)
      /\ Cardinality((n - l + 1)..n) = IF n - l + 1 > n THEN 0 ELSE n - (n - l + 1) + 1
  <2>1. n - l + 1 \in Int /\ n \in Int
    BY <1>1
  <2> HIDE DEF n, l
  <2> QED
    BY <2>1, FS_Interval
<1>4. Cardinality((n - l + 1)..n) = l
  BY <1>1, <1>3
<1>5. Cardinality(S) <= Cardinality((n - l + 1)..n)
  BY <1>2, <1>3, FS_Subset
<1> QED
  BY <1>4, <1>5

(* A supervisor that has given up does not take anything else up. *)
LEMMA StillEnding ==
  ASSUME ControlInv, job = "terminate", ListStep
  PROVE  job' = "terminate"
<1>1. pc \notin {"idle", "start", "link"}
  BY DEF ControlInv, Starting
<1>2. CASE Stays \/ Advances \/ EndsMore
  BY <1>2 DEF Stays, Advances, SameLists, EndsMore
<1> QED
  BY <1>1, <1>2 DEF ListStep, Birth, StartsMore, StartsOne, Returned, InitFails, GivesUp, Retries,
     AllStarted, EndsOne, StartsAgain, Asks, Forgets, Restarts, Quits

(* What a step does to the times of restarts *)
LEMMA TimeSteps ==
  ASSUME TypeOK, ControlInv, [Next]_svars
  PROVE  \/ UNCHANGED <<restarts, begun, now>>
         \/ UNCHANGED <<restarts, begun, job>> /\ now' = now + 1
         \/ /\ job # "terminate" /\ now' = now
            /\ \E c, chs : Restart(c, chs)
<1>1. CASE UNCHANGED svars
  BY <1>1 DEF svars, server, env
<1>2. CASE Calls
  BY <1>2 DEF Calls, startChild, restartChild, terminateChild, deleteChild, Call, server, env
<1>3. CASE Surroundings
  BY <1>3 DEF Surroundings, unlinkParent, exit, parentExit, tick, server, env, control
<1>4. CASE thunkOk \/ linkChild \/ thunkIgnore \/ startedAll
  BY <1>4 DEF thunkOk, linkChild, thunkIgnore, startedAll, Started, server, env
<1>5. CASE thunkError
  <2>1. now' = now /\ pc = "start" /\ NotStarted
    BY <1>5 DEF thunkError, env
  <2>2. job # "terminate"
    BY <2>1 DEF ControlInv, Starting
  <2> QED
    BY <2>1, <2>2 DEF NotStarted, server
<1>6. CASE terminateNext \/ terminatedAll \/ childDown
  BY <1>6 DEF terminateNext, terminatedAll, childDown, server, env
<1>7. CASE monitorChild \/ unlinkChild \/ flushExit \/ killChild \/ timeoutChild
  BY <1>7 DEF monitorChild, unlinkChild, flushExit, killChild, timeoutChild, server, env
<1>8. CASE handleChildExit
  <2>1. now' = now /\ pc = "idle" /\ \E c : DoRestart(c)
    BY <1>8 DEF handleChildExit, NextMessage, env
  <2>2. job # "terminate"
    BY <2>1 DEF ControlInv
  <2> QED
    BY <2>1, <2>2 DEF DoRestart, MarkDead
<1>9. CASE handleOtherExit \/ handleStop
  BY <1>9 DEF handleOtherExit, handleStop, NextMessage, server, env
<1> QED
  BY <1>1, <1>2, <1>3, <1>4, <1>5, <1>6, <1>7, <1>8, <1>9 DEF Next, Work

(* What is known of the times of restarts is kept. *)
LEMMA RestartKeeps ==
  ASSUME TypeOK, ControlInv, RestartInv, [Next]_svars
  PROVE  RestartInv'
<1>1. /\ restarts \in Seq(0..MaxTime) /\ begun \in Seq(0..MaxTime) /\ now \in 0..MaxTime
  BY DEF TypeOK
<1>2. MaxTime \in Nat /\ Period \in Nat /\ Intensity \in Nat
  BY SupervisorAssumption
<1>3. restarts \in Seq(Nat) /\ begun \in Seq(Nat) /\ now \in Nat
  <2>1. ASSUME NEW s \in Seq(0..MaxTime)
        PROVE  s \in Seq(Nat)
    <3>1. Len(s) \in Nat /\ s \in [1..Len(s) -> Nat]
      BY <1>2
    <3> QED
      BY <3>1
  <2>2. now \in Nat
    BY <1>1, <1>2
  <2> QED
    BY <1>1, <2>1, <2>2
<1>4. job = "terminate" => job' = "terminate"
  BY ListSteps, StillEnding
<1>5. CASE UNCHANGED <<restarts, begun, now>>
  BY <1>4, <1>5 DEF RestartInv, IntensityKept
<1>6. CASE UNCHANGED <<restarts, begun, job>> /\ now' = now + 1
  <2>1. DOMAIN begun = 1..Len(begun) /\ Len(begun) \in Nat /\ \A i \in 1..Len(begun) : begun[i] \in Nat
    BY <1>3
  <2>2. \A i \in 1..Len(begun) : /\ now' - begun[i] <= Period => now - begun[i] <= Period
                                 /\ begun[i] <= now => begun[i] <= now'
    BY <1>2, <1>3, <1>6, <2>1
  <2>3. Past(begun, now) => Past(begun', now')
    BY <1>6, <2>2 DEF Past
  <2>4. Latest(begun, restarts, now) => Latest(begun', restarts', now')
    BY <1>6, <2>2 DEF Latest
  <2>5. IntensityKept'
    <3> DEFINE S == {i \in DOMAIN begun : now - begun[i] <= Period}
               T == {i \in DOMAIN begun : now' - begun[i] <= Period}
    <3>1. T \subseteq S /\ S \subseteq 1..Len(begun)
      BY <2>1, <2>2
    <3>2. IsFiniteSet(1..Len(begun))
      BY <2>1, FS_Interval
    <3>3. IsFiniteSet(S)
      BY <3>1, <3>2, FS_Subset
    <3>4. /\ Cardinality(T) <= Cardinality(S) /\ Cardinality(S) \in Nat
          /\ Cardinality(T) \in Nat
      BY <3>1, <3>3, FS_Subset, FS_CardinalityType
    <3>5. Cardinality(S) <= Intensity
      BY DEF RestartInv, IntensityKept
    <3>6. Cardinality(T) <= Intensity
      BY <1>2, <3>4, <3>5
    <3> QED
      BY <1>6, <3>6 DEF IntensityKept
  <2> QED
    BY <1>6, <2>3, <2>4, <2>5 DEF RestartInv
<1>7. ASSUME job # "terminate", now' = now, NEW c, NEW chs, Restart(c, chs)
      PROVE  RestartInv'
  <2> DEFINE r == PruneRestarts(<<now>> \o restarts, now)
  <2>1. restarts' = r
    BY <1>7 DEF Restart
  <2>2. Past(begun, now) /\ Latest(begun, restarts, now) /\ Len(restarts) <= Intensity
    BY <1>7 DEF RestartInv
  <2>3. CASE Len(r) <= Intensity
    <3>1. begun' = Append(begun, now)
      BY <1>7, <2>3 DEF Restart
    <3>2. begun' \in Seq(Nat) /\ restarts' \in Seq(Nat)
      <4>1. <<now>> \o restarts \in Seq(Nat)
        BY <1>3, ConcatProperties
      <4>2. r \in Seq(Nat)
        BY <1>3, <4>1, Pruned
      <4>3. Append(begun, now) \in Seq(Nat)
        BY <1>3
      <4> QED
        BY <2>1, <3>1, <4>2, <4>3
    <3>3. Past(begun', now) /\ Latest(begun', restarts', now)
      BY <1>3, <2>1, <2>2, <3>1, RestartAdded
    <3>4. Len(restarts') <= Intensity
      BY <2>1, <2>3
    <3>5. Cardinality({i \in DOMAIN begun' : now - begun'[i] <= Period}) <= Len(restarts')
      BY <1>3, <3>2, <3>3, FewRestarts
    <3>6. Cardinality({i \in DOMAIN begun' : now - begun'[i] <= Period}) <= Intensity
      <4> DEFINE k == Cardinality({i \in DOMAIN begun' : now - begun'[i] <= Period})
      <4>1. k \in Nat
        <5>1. DOMAIN begun' = 1..Len(begun') /\ Len(begun') \in Nat
          BY <3>2
        <5>2. IsFiniteSet(1..Len(begun'))
          BY <5>1, FS_Interval
        <5>3. {i \in DOMAIN begun' : now - begun'[i] <= Period} \subseteq 1..Len(begun')
          BY <5>1
        <5>4. IsFiniteSet({i \in DOMAIN begun' : now - begun'[i] <= Period})
          BY <5>2, <5>3, FS_Subset
        <5> QED
          BY <5>4, FS_CardinalityType
      <4> HIDE DEF k
      <4>2. k <= Len(restarts') /\ Len(restarts') \in Nat
        BY <3>2, <3>5 DEF k
      <4>3. k <= Intensity
        BY <1>2, <3>4, <4>1, <4>2
      <4> QED
        BY <4>3 DEF k
    <3> QED
      BY <1>7, <3>3, <3>4, <3>6 DEF RestartInv, IntensityKept
  <2>4. CASE ~(Len(r) <= Intensity)
    <3>1. begun' = begun /\ job' = "terminate"
      BY <1>7, <2>4 DEF Restart
    <3> QED
      BY <1>7, <2>2, <3>1 DEF RestartInv, IntensityKept
  <2> QED
    BY <2>3, <2>4
<1> QED
  BY <1>5, <1>6, <1>7, TimeSteps

(* A supervisor never begins more than Intensity restarts within Period: *)
(* pruning the list of times loses no restart that still counts.         *)
THEOREM AlwaysWithinIntensity == Spec => []IntensityKept
<1> DEFINE Inv == ShutdownInv /\ RestartInv
<1>1. Init => Inv
  <2> SUFFICES ASSUME Init
               PROVE  RestartInv
    BY InitShutdown
  <2>1. begun = <<>> /\ restarts = <<>> /\ Len(<<>>) = 0 /\ Intensity \in Nat
    BY SupervisorAssumption DEF Init
  <2>2. Past(begun, now) /\ Latest(begun, restarts, now) /\ Len(restarts) <= Intensity
    BY <2>1 DEF Past, Latest
  <2>3. {i \in DOMAIN begun : now - begun[i] <= Period} = {}
    BY <2>1
  <2>4. IntensityKept
    BY <2>1, <2>3, FS_EmptySet DEF IntensityKept
  <2> QED
    BY <2>2, <2>4 DEF RestartInv
<1>2. Inv /\ [Next]_svars => Inv'
  <2> SUFFICES ASSUME Inv, [Next]_svars
               PROVE  Inv'
    OBVIOUS
  <2>1. TypeOK /\ ControlInv
    BY TypeParts DEF ShutdownInv, Lists
  <2> QED
    BY <2>1, ShutdownStep, RestartKeeps
<1>3. Inv => IntensityKept
  BY DEF RestartInv
<1> HIDE DEF Inv
<1> QED
  BY <1>1, <1>2, <1>3, PTL DEF Spec

-----------------------------------------------------------------------------
(* The death of a child does not go unnoticed. *)

(* A child is up and linked, or its EXIT has come in, or it has unlinked. *)
Noticed(e) ==
  \/ e.pid = None
  \/ Alive(e.pid) /\ e.pid \in linked
  \/ EXITmsg(e.pid) \in El(inbox)
  \/ e.pid \in naughty
PidsApart(s) == \A e, f \in El(s) : e.pid = f.pid /\ e.pid # None => e = f

(* A child is unnoticed only while it is the one that is restarted or shut     *)
(* down; no two children have one process, so an EXIT says which one has died. *)
Handled(e) == job \in {"one-for-one", "terminate-child"} /\ e.name = Current.name
NoticeInv ==
  /\ job \notin Looping => /\ PidsApart(children)
                           /\ \A e \in El(children) : Handled(e) \/ Noticed(e)
  /\ pc \in {"start", "link"} /\ job \in Looping =>
       PidsApart(acc) /\ \A e \in El(acc) : Noticed(e)
  /\ pc = "link" => \A e \in El(children) \cup El(acc) : e.pid # Current.pid

Keeps == \A e \in Children : Noticed(e) => Noticed(e)'

(* A loop that shuts children down has nothing to notice. *)
LEMMA NoticeNothing ==
  ASSUME job' \in Looping, pc' # "link", pc' = "start" => acc' = <<>>
  PROVE  NoticeInv'
<1>1. El(<<>>) = {}
  BY SmallLists
<1> QED
  BY <1>1 DEF NoticeInv, PidsApart

(* An idle server has noticed every death, or will. *)
LEMMA NoticeIdle ==
  ASSUME pc' = "idle", job' = "none", PidsApart(children'),
         \A e \in El(children') : Noticed(e)'
  PROVE  NoticeInv'
BY DEF NoticeInv, Looping

(* The lists stay as they are. *)
LEMMA NoticeStays ==
  ASSUME TypeOK, ControlInv, NoticeInv, Stays \/ Advances,
         job \notin Looping =>
           \A e \in El(children) :
             Noticed(e) => Noticed(e)' \/ (job = "terminate-child" /\ e.name = Current.name),
         pc \in {"start", "link"} /\ job \in Looping =>
           \A e \in El(acc) : Noticed(e) => Noticed(e)'
  PROVE  NoticeInv'
<1>1. UNCHANGED <<children, job, todo, acc, victim>> /\ Current' = Current
  BY DEF Stays, Advances, SameLists, Current
<1>2. \A s \in {"start", "link"} : pc' = s => pc = s
  BY DEF Stays, Advances, Shutting
<1>3. \A e : Handled(e)' <=> Handled(e)
  BY <1>1 DEF Handled
<1>4. job \notin Looping => /\ PidsApart(children)
                            /\ \A e \in El(children) : Handled(e) \/ Noticed(e)'
  BY DEF NoticeInv, Handled
<1>5. pc' \in {"start", "link"} /\ job \in Looping =>
        PidsApart(acc) /\ \A e \in El(acc) : Noticed(e)'
  BY <1>2 DEF NoticeInv
<1>6. pc' = "link" => \A e \in El(children) \cup El(acc) : e.pid # Current.pid
  BY <1>2 DEF NoticeInv
<1> QED
  BY <1>1, <1>3, <1>4, <1>5, <1>6 DEF NoticeInv

(* The same when nothing is forgotten. *)
LEMMA NoticeKept ==
  ASSUME TypeOK, ControlInv, NoticeInv, Stays \/ Advances, Keeps
  PROVE  NoticeInv'
<1>1. children \in Seq(Children) /\ acc \in Seq(Children)
  BY DEF TypeOK
<1>2. El(children) \subseteq Children /\ El(acc) \subseteq Children
  BY <1>1, Found
<1> QED
  BY <1>2, NoticeStays DEF Keeps

(* The end of a process is told to the supervisor if they are linked. *)
LEMMA NoticeDied ==
  ASSUME TypeOK, MsgInv, NEW p \in Pids, NEW r, Die(p, r), pc # "stopped", naughty' = naughty
  PROVE  Keeps
<1>1. /\ proc' = [proc EXCEPT ![p] = r] /\ linked' = linked \ {p}
      /\ El(inbox) \subseteq El(inbox') /\ (p \in linked => EXITmsg(p) \in El(inbox'))
  BY NoDownYet, DieEffect
<1> SUFFICES ASSUME NEW e \in Children, Noticed(e)
             PROVE  Noticed(e)'
  BY DEF Keeps
<1>2. CASE e.pid = p
  BY <1>1, <1>2 DEF Noticed
<1>3. CASE e.pid # p
  <2>1. e.pid \in Pids \cup {None}
    BY ChildFields
  <2>2. e.pid \in Pids => (Alive(e.pid)' <=> Alive(e.pid))
    BY <1>1, <1>3 DEF Alive, TypeOK
  <2> QED
    BY <1>1, <1>3, <2>1, <2>2 DEF Noticed
<1> QED
  BY <1>2, <1>3

(* A child that is started is noticed. *)
LEMMA NoticeStarted ==
  ASSUME TypeOK, Lists, NoticeInv, StartsMore \/ StartsOne, Keeps,
         \A c : c = Current => Noticed(c)',
         Current.pid = None \/ \A e \in El(children) \cup El(acc) : e.pid # Current.pid
  PROVE  NoticeInv'
<1>1. /\ children \in Seq(Children) /\ todo \in Seq(Children) /\ acc \in Seq(Children)
      /\ ControlInv /\ NameInv
  BY DEF TypeOK, Lists
<1>2. El(children) \subseteq Children /\ El(acc) \subseteq Children
  BY <1>1, Found
<1> DEFINE d == Current
<1>3. d \in Children
  BY <1>1, TailList DEF Current, StartsMore, StartsOne, Returned
<1>5. ASSUME NEW s, PidsApart(s), d.pid = None \/ \A e \in El(s) : e.pid # d.pid, NEW t,
             \A e \in El(t) : e = d \/ e \in El(s)
      PROVE  PidsApart(t)
  BY <1>5 DEF PidsApart
<1>6. CASE StartsMore
  <2>1. /\ pc \in {"start", "link"} /\ job \in Looping
        /\ acc' = <<d>> \o acc /\ pc' = "start" /\ job' = job
    BY <1>6 DEF StartsMore, Returned, Looping
  <2>2. PidsApart(acc) /\ \A e \in El(acc) : Noticed(e)
    BY <2>1 DEF NoticeInv
  <2>3. /\ \A c : c = d => Noticed(c)'
        /\ d.pid = None \/ \A e \in El(acc) : e.pid # d.pid
    OBVIOUS
  <2> HIDE DEF d
  <2>4. El(acc') = {d} \cup El(acc)
    BY <1>1, <1>3, <2>1, ConsList
  <2>5. PidsApart(acc')
    BY <1>5, <2>2, <2>3, <2>4
  <2>6. \A e \in El(acc') : Noticed(e)'
    BY <1>2, <2>2, <2>3, <2>4 DEF Keeps
  <2> QED
    BY <2>1, <2>5, <2>6 DEF NoticeInv
<1>7. CASE StartsOne
  <2>1. /\ pc \in {"start", "link"} /\ todo # <<>> /\ job \notin {"init", "one-for-all"}
        /\ pc' = "idle" /\ job' = "none"
        /\ children' = IF job = "start-child" THEN <<d>> \o children
                       ELSE ReplaceChild(d, children)
    BY <1>7 DEF StartsOne, Returned, Idle
  <2>2. job \in {"start-child", "restart-child", "one-for-one"}
    BY <1>1, <2>1 DEF ControlInv, Starting
  <2>3. /\ PidsApart(children)
        /\ \A e \in El(children) : Noticed(e) \/ (job # "start-child" /\ e.name = d.name)
    BY <2>2 DEF NoticeInv, Looping, Handled
  <2>4. /\ \A c : c = d => Noticed(c)'
        /\ d.pid = None \/ \A e \in El(children) : e.pid # d.pid
    OBVIOUS
  <2> HIDE DEF d
  <2>5. \A e \in El(children') : e = d \/ (e \in El(children) /\ Noticed(e))
    <3>1. CASE job = "start-child"
      <4>1. El(children') = {d} \cup El(children)
        BY <1>1, <1>3, <2>1, <3>1, ConsList
      <4> QED
        BY <2>3, <3>1, <4>1
    <3>2. CASE job # "start-child"
      BY <1>1, <1>3, <2>1, <2>3, <3>2, Replaced
    <3> QED
      BY <3>1, <3>2
  <2>6. PidsApart(children')
    BY <1>5, <2>3, <2>4, <2>5
  <2>7. \A e \in El(children') : Noticed(e)'
    BY <1>2, <2>4, <2>5 DEF Keeps
  <2> QED
    BY <2>1, <2>6, <2>7, NoticeIdle
<1> QED
  BY <1>6, <1>7

(* Every step keeps what is known of the deaths of children. *)
LEMMA NoticeKeeps ==
  ASSUME Strategy = "one-for-one" => "ignore" \notin Results,
         TypeOK, Lists, MsgInv, NoticeInv, [Next]_svars
  PROVE  NoticeInv'
<1>1. ControlInv /\ DoneInv /\ NameInv
  BY DEF Lists
<1>2. /\ children \in Seq(Children) /\ todo \in Seq(Children) /\ acc \in Seq(Children)
      /\ victim \in Seq(Children) /\ inbox \in Seq(Msgs)
  BY DEF TypeOK
<1>3. El(children) \subseteq Children /\ El(acc) \subseteq Children
  BY <1>2, Found
<1>4. \A p, q : EXITmsg(p) = EXITmsg(q) => p = q
  BY DEF EXITmsg
<1>5. ASSUME UNCHANGED <<proc, naughty>>, linked \subseteq linked', El(inbox) \subseteq El(inbox')
      PROVE  Keeps
  BY <1>5 DEF Keeps, Noticed, Alive
<1>6. ASSUME UNCHANGED <<procs, naughty>>
      PROVE  Keeps
  BY <1>5, <1>6 DEF procs
<1>sent. \A p \in Pids : /\ El(Append(inbox, EXITmsg(p))) = El(inbox) \cup {EXITmsg(p)}
                      /\ El(Append(inbox, DOWNmsg(p))) = El(inbox) \cup {DOWNmsg(p)}
  <2> TAKE p \in Pids
  <2> DEFINE x == EXITmsg(p)
             y == DOWNmsg(p)
  <2>1. x \in Msgs /\ y \in Msgs
    BY MsgTypes
  <2> HIDE DEF x, y
  <2>2. /\ El(Append(inbox, x)) = El(inbox) \cup {x}
        /\ El(Append(inbox, y)) = El(inbox) \cup {y}
    BY <1>2, <2>1, BoxAppend
  <2> QED
    BY <2>2 DEF x, y
<1>7. ASSUME pc = "idle"
      PROVE  /\ job = "none" /\ PidsApart(children) /\ Distinct(children)
             /\ \A e \in El(children) : Noticed(e)
  BY <1>1, <1>7 DEF ControlInv, NameInv, NoticeInv, Looping, Handled
<1>8. CASE UNCHANGED svars
  <2>1. Stays /\ UNCHANGED <<procs, naughty>>
    BY <1>8 DEF svars, server, control, env, Stays, SameLists
  <2> QED
    BY <1>1, <1>6, <2>1, NoticeKept
<1>9. CASE Calls
  <2>1. PICK n \in Names : startChild(n) \/ restartChild(n) \/ terminateChild(n) \/ deleteChild(n)
    BY <1>9 DEF Calls
  <2>2. UNCHANGED <<procs, naughty>> /\ pc = "idle"
    BY <2>1 DEF startChild, restartChild, terminateChild, deleteChild, Call, env
  <2>3. Keeps /\ PidsApart(children) /\ \A e \in El(children) : Noticed(e)'
    BY <1>3, <1>6, <1>7, <2>2 DEF Keeps
  <2>4. CASE startChild(n) \/ restartChild(n) \/ terminateChild(n)
    <3>1. /\ children' = children /\ pc' # "link"
          /\ job' \in {"start-child", "restart-child", "terminate-child"}
      BY <2>4 DEF startChild, restartChild, terminateChild, Call, server
    <3> QED
      BY <2>3, <3>1 DEF NoticeInv, Looping
  <2>5. CASE deleteChild(n)
    <3> DEFINE c == FindChild(n, children)
    <3>1. children' = RemoveChild(c, children) /\ pc' = "idle" /\ job' = "none"
      BY <1>7, <2>2, <2>5 DEF deleteChild, control
    <3> HIDE DEF c
    <3>2. El(children') \subseteq El(children)
      BY <1>2, <1>7, <2>2, <3>1, Removed
    <3> QED
      BY <2>3, <3>1, <3>2, NoticeIdle DEF PidsApart
  <2> QED
    BY <2>1, <2>4, <2>5
<1>10. CASE Surroundings
  <2>1. Stays
    BY <1>10 DEF Surroundings, unlinkParent, exit, parentExit, tick, server, control, Stays,
                 SameLists
  <2>2. CASE tick
    BY <1>1, <1>6, <2>1, <2>2, NoticeKept DEF tick
  <2>3. CASE parentExit
    <3>1. UNCHANGED <<proc, naughty, linked>> /\ inbox' = Append(inbox, EXITmsg(Parent))
      BY <2>3 DEF parentExit
    <3>2. El(inbox) \subseteq El(inbox')
      BY <1>2, <3>1, BoxAppend, MsgTypes
    <3> QED
      BY <1>1, <1>5, <2>1, <3>1, <3>2, NoticeKept
  <2>4. ASSUME NEW p \in Pids, unlinkParent(p)
        PROVE  NoticeInv'
    <3>1. /\ linked' = linked \ {p} /\ naughty' = naughty \cup {p}
          /\ UNCHANGED <<proc, inbox>>
      BY <2>4 DEF unlinkParent
    <3>2. Keeps
      BY <3>1 DEF Keeps, Noticed, Alive
    <3> QED
      BY <1>1, <2>1, <3>2, NoticeKept
  <2>5. ASSUME NEW p \in Pids, NEW r \in Reasons, exit(p, r)
        PROVE  NoticeInv'
    <3>1. Die(p, r) /\ naughty' = naughty
      BY <2>5 DEF exit, env
    <3>2. CASE pc = "stopped"
      <4>1. job \in Looping /\ UNCHANGED <<pc, job>>
        BY <1>1, <2>1, <3>2 DEF ControlInv, Looping, Stays, SameLists
      <4> QED
        BY <3>2, <4>1, NoticeNothing
    <3>3. CASE pc # "stopped"
      BY <1>1, <2>1, <3>1, <3>3, NoticeDied, NoticeKept
    <3> QED
      BY <3>2, <3>3
  <2> QED
    BY <1>10, <2>2, <2>3, <2>4, <2>5 DEF Surroundings
<1>11. CASE thunkOk
  <2>1. PICK p \in Pids : /\ Unknown(p) /\ proc' = [proc EXCEPT ![p] = "alive"]
                          /\ linked' \in {linked, linked \cup {p}} /\ naughty' = naughty \ {p}
                          /\ todo' = [todo EXCEPT ![1].pid = p]
    BY <1>11 DEF thunkOk
  <2>2. /\ pc = "start" /\ todo # <<>> /\ pc' = "link"
        /\ UNCHANGED <<children, job, acc, inbox>>
    BY <1>11 DEF thunkOk, server
  <2>3. \A e \in El(children) \cup El(acc) : e.pid # p
    <3>1. p # None /\ p \notin PidsOf(children) /\ p \notin PidsOf(acc)
      BY <2>1, SupervisorAssumption DEF Unknown
    <3> QED
      BY <1>2, <3>1, Found
  <2>4. ASSUME NEW e \in El(children) \cup El(acc), Noticed(e)
        PROVE  Noticed(e)'
    <3>1. e.pid \in Pids \cup {None} /\ e.pid # p
      BY <1>3, <2>3, ChildFields
    <3>2. e.pid \in Pids => (Alive(e.pid)' <=> Alive(e.pid))
      BY <2>1, <3>1 DEF Alive, TypeOK
    <3> QED
      BY <2>1, <2>2, <2>4, <3>1, <3>2 DEF Noticed
  <2>5. Current'.name = Current.name /\ Current'.pid = p
    <3>1. todo' = Born(todo, p)
      BY <2>1 DEF Born
    <3> QED
      BY <1>2, <2>2, <3>1, HeadBorn DEF Current
  <2>6. \A e : Handled(e)' <=> Handled(e)
    BY <2>2, <2>5 DEF Handled
  <2>7. job \notin Looping => /\ PidsApart(children)
                              /\ \A e \in El(children) : Handled(e) \/ Noticed(e)'
    BY <2>4 DEF NoticeInv
  <2>8. job \in Looping => PidsApart(acc) /\ \A e \in El(acc) : Noticed(e)'
    BY <2>2, <2>4 DEF NoticeInv
  <2> QED
    BY <2>2, <2>3, <2>5, <2>6, <2>7, <2>8 DEF NoticeInv
<1>12. CASE linkChild
  <2> DEFINE p == Current.pid
  <2>1. /\ pc = "link" /\ todo # <<>> /\ p \in Pids
        /\ \A e \in El(children) \cup El(acc) : e.pid # p
    BY <1>1, <1>12 DEF linkChild, ControlInv, NoticeInv
  <2>2. StartsMore \/ StartsOne
    BY <1>12, <2>1, StartedEffect DEF linkChild, Returned
  <2>3. UNCHANGED <<proc, naughty>>
    BY <1>12 DEF linkChild, env
  <2>4. \/ Alive(p) /\ linked' = linked \cup {p} /\ inbox' = inbox
        \/ linked' = linked /\ inbox' = Append(inbox, EXITmsg(p))
    BY <1>12 DEF linkChild
  <2> HIDE DEF p
  <2>5. /\ linked \subseteq linked' /\ El(inbox) \subseteq El(inbox')
        /\ (Alive(p) /\ p \in linked') \/ EXITmsg(p) \in El(inbox')
    <3>1. CASE Alive(p) /\ linked' = linked \cup {p} /\ inbox' = inbox
      BY <3>1
    <3>2. CASE linked' = linked /\ inbox' = Append(inbox, EXITmsg(p))
      <4>1. El(inbox') = El(inbox) \cup {EXITmsg(p)}
        BY <1>2, <1>sent, <2>1, <3>2
      <4> QED
        BY <3>2, <4>1
    <3> QED
      BY <2>4, <3>1, <3>2
  <2>6. \A c : c.pid = p => Noticed(c)'
    BY <2>3, <2>5 DEF Noticed, Alive
  <2>7. \A c : c = Current => Noticed(c)'
    BY <2>6 DEF p
  <2> QED
    BY <1>5, <2>1, <2>2, <2>3, <2>5, <2>7, NoticeStarted DEF p
<1>13. CASE thunkIgnore
  <2>1. /\ pc = "start" /\ todo # <<>> /\ "ignore" \in Results /\ UNCHANGED <<procs, naughty>>
    BY <1>13 DEF thunkIgnore, env
  <2>2. StartsMore \/ StartsOne
    BY <1>13, <2>1, StartedEffect DEF thunkIgnore, Returned
  <2>3. job # "one-for-one"
    BY <1>1, <2>1 DEF ControlInv
  <2>4. Current.pid = None
    BY <1>1, <1>2, <2>1, <2>3, TailList DEF DoneInv, Current
  <2>5. \A c : c = Current => Noticed(c)'
    BY <2>4 DEF Noticed
  <2> QED
    BY <1>6, <2>1, <2>2, <2>4, <2>5, NoticeStarted
<1>14. CASE thunkError
  <2>1. pc = "start" /\ todo # <<>> /\ NotStarted /\ UNCHANGED <<procs, naughty>>
    BY <1>14 DEF thunkError, env
  <2>2. Keeps
    BY <1>6, <2>1
  <2>3. CASE job \notin {"init", "one-for-one", "one-for-all"}
    <3>1. pc' = "idle" /\ job' = "none" /\ children' = children
      BY <2>1, <2>3 DEF NotStarted, Idle, server
    <3>2. job \in {"start-child", "restart-child"}
      BY <1>1, <2>1, <2>3 DEF ControlInv, Starting
    <3>3. PidsApart(children) /\ \A e \in El(children) : Noticed(e)
      BY <3>2 DEF NoticeInv, Looping, Handled
    <3> QED
      BY <1>3, <2>2, <3>1, <3>3, NoticeIdle DEF Keeps
  <2>4. CASE job = "init"
    BY <2>1, <2>4, NoticeNothing DEF NotStarted, TerminateChildren, Looping
  <2>5. CASE job = "one-for-all"
    <3>1. Restart(Head(victim), Unstarted) /\ Strategy = "one-for-all"
      BY <1>1, <2>1, <2>5 DEF NotStarted, ControlInv
    <3>2. job' \in {"one-for-all", "terminate"} /\ pc' = "stop"
      BY <3>1, RestartEffect
    <3> QED
      BY <3>2, NoticeNothing DEF Looping
  <2>6. CASE job = "one-for-one"
    <3>1. /\ Restart(Head(victim), children) /\ Strategy = "one-for-one"
          /\ Head(victim).name = Current.name /\ Head(victim) \in Children
      BY <1>1, <1>2, <2>1, <2>6, TailList DEF NotStarted, ControlInv, NameInv
    <3>2. CASE job' = "terminate" /\ pc' = "stop"
      BY <3>2, NoticeNothing DEF Looping
    <3>3. CASE /\ job' = "one-for-one" /\ children' = children /\ pc' = "start"
               /\ todo' = <<Head(victim)>>
      <4>1. Current'.name = Current.name
        BY <3>1, <3>3, SmallLists DEF Current
      <4>2. \A e : Handled(e) => Handled(e)'
        BY <2>6, <3>3, <4>1 DEF Handled
      <4>3. PidsApart(children) /\ \A e \in El(children) : Handled(e) \/ Noticed(e)
        BY <2>6 DEF NoticeInv, Looping
      <4> QED
        BY <1>3, <2>2, <3>3, <4>2, <4>3 DEF NoticeInv, Looping, Keeps
    <3> QED
      BY <3>1, <3>2, <3>3, RestartEffect
  <2> QED
    BY <2>3, <2>4, <2>5, <2>6
<1>15. CASE startedAll
  <2>1. /\ pc = "start" /\ todo = <<>> /\ children' = acc /\ pc' = "idle" /\ job' = "none"
        /\ UNCHANGED <<procs, naughty>>
    BY <1>15 DEF startedAll, Idle, env
  <2>2. job \in Looping
    <3>1. Len(todo) = 0
      BY <2>1, SmallLists
    <3> QED
      BY <1>1, <2>1, <3>1 DEF ControlInv, Starting, Single, Looping
  <2>3. PidsApart(acc) /\ \A e \in El(acc) : Noticed(e)
    BY <2>1, <2>2 DEF NoticeInv
  <2>4. \A e \in El(acc) : Noticed(e)'
    BY <1>3, <1>6, <2>1, <2>3 DEF Keeps
  <2> QED
    BY <2>1, <2>3, <2>4, NoticeIdle
<1>16. CASE terminateNext
  <2>1. job \in Looping /\ job # "terminate-child"
    BY <1>1, <1>16 DEF terminateNext, ControlInv, Stopping, Looping
  <2>2. job' = job /\ pc' \in {"stop", "monitor"}
    BY <1>16, <2>1 DEF terminateNext, Terminated
  <2> QED
    BY <2>1, <2>2, NoticeNothing
<1>17. CASE terminatedAll
  <2>1. job \in Looping
    BY <1>1, <1>17 DEF terminatedAll, ControlInv, Stopping, Looping
  <2>2. job' = job /\ (pc' = "stopped" \/ (pc' = "start" /\ acc' = <<>>))
    BY <1>17 DEF terminatedAll, StartChildren
  <2> QED
    BY <2>1, <2>2, NoticeNothing
<1>18. CASE monitorChild \/ unlinkChild \/ flushExit \/ killChild \/ timeoutChild
  <2>1. Advances /\ naughty' = naughty /\ pc # "stopped" /\ pc \notin {"start", "link"}
    BY <1>18 DEF monitorChild, unlinkChild, flushExit, killChild, timeoutChild, server, env,
                 Advances, SameLists, Shutting
  <2>2. Current.pid \in Pids
    BY <1>1, <1>18 DEF monitorChild, unlinkChild, flushExit, killChild, timeoutChild, ControlInv,
                       Shutting
  <2>3. CASE monitorChild
    <3>1. /\ UNCHANGED <<proc, linked>>
          /\ inbox' = inbox \/ inbox' = Append(inbox, DOWNmsg(Current.pid))
      BY <2>3 DEF monitorChild
    <3>2. El(inbox) \subseteq El(inbox')
      BY <1>sent, <2>2, <3>1
    <3> QED
      BY <1>1, <1>5, <2>1, <3>1, <3>2, NoticeKept
  <2>4. CASE killChild \/ timeoutChild
    <3>1. UNCHANGED procs \/ Die(Current.pid, "killed")
      BY <2>4 DEF killChild, timeoutChild, Kill
    <3>2. Keeps
      BY <1>6, <2>1, <2>2, <3>1, NoticeDied
    <3> QED
      BY <1>1, <2>1, <3>2, NoticeKept
  <2>5. CASE unlinkChild \/ flushExit
    <3>1. \A e : e.pid # Current.pid /\ Noticed(e) => Noticed(e)'
      <4>1. CASE unlinkChild
        BY <4>1 DEF unlinkChild, Noticed, Alive, env
      <4>2. CASE flushExit
        <5>1. UNCHANGED <<proc, linked>>
          BY <4>2 DEF flushExit
        <5>2. CASE inbox' = inbox
          BY <2>1, <5>1, <5>2 DEF Noticed, Alive
        <5>3. CASE inbox' # inbox
          <6>1. From("EXIT", Current.pid) # {} /\ Take("EXIT", Current.pid)
            BY <4>2, <5>3 DEF flushExit
          <6>2. PICK i \in 1..Len(inbox) :
                  /\ inbox' = RemoveAt(inbox, i) /\ inbox[i].type = "EXIT"
                  /\ inbox[i].pid = Current.pid
            BY <6>1, Taken
          <6>3. inbox[i] = EXITmsg(Current.pid)
            BY <1>2, <6>2, MsgTypes
          <6>4. /\ El(inbox') \subseteq El(inbox)
                /\ \A x \in El(inbox) : x # inbox[i] => x \in El(inbox')
            BY <1>2, <6>2, BoxRemove
          <6> QED
            BY <1>4, <2>1, <5>1, <6>3, <6>4 DEF Noticed, Alive
        <5> QED
          BY <5>2, <5>3
      <4> QED
        BY <2>5, <4>1, <4>2
    <3>2. ASSUME job \notin Looping, NEW e \in El(children), Noticed(e)
          PROVE  Noticed(e)' \/ (job = "terminate-child" /\ e.name = Current.name)
      <4>1. job = "terminate-child" /\ Current \in El(children)
        BY <1>1, <2>5, <3>2 DEF unlinkChild, flushExit, ControlInv, NameInv, Shutting, Stopping,
                                Looping
      <4>2. PidsApart(children)
        BY <3>2 DEF NoticeInv
      <4>3. CASE e.pid = Current.pid
        <5>1. e = Current
          BY <2>2, <4>1, <4>2, <4>3, SupervisorAssumption DEF PidsApart
        <5> QED
          BY <4>1, <5>1
      <4>4. CASE e.pid # Current.pid
        BY <3>1, <3>2, <4>4
      <4> QED
        BY <4>3, <4>4
    <3> QED
      BY <1>1, <2>1, <3>2, NoticeStays
  <2> QED
    BY <1>18, <2>3, <2>4, <2>5
<1>19. CASE childDown
  <2>1. /\ pc \in {"await", "down"} /\ From("DOWN", Current.pid) # {} /\ Take("DOWN", Current.pid)
        /\ Terminated /\ UNCHANGED <<proc, linked, naughty>>
    BY <1>19 DEF childDown, env
  <2>2. PICK i \in 1..Len(inbox) : inbox' = RemoveAt(inbox, i) /\ inbox[i].type = "DOWN"
    BY <2>1, Taken
  <2>3. \A x \in El(inbox) : x # inbox[i] => x \in El(inbox')
    BY <1>2, <2>2, BoxRemove
  <2>4. \A p : EXITmsg(p) # inbox[i]
    BY <2>2 DEF EXITmsg
  <2>5. \A e : Noticed(e) => Noticed(e)'
    BY <2>1, <2>3, <2>4 DEF Noticed, Alive
  <2>6. job \in Looping \cup {"terminate-child"} /\ todo # <<>>
    BY <1>1, <2>1 DEF ControlInv, Looping, Stopping, Shutting
  <2>7. CASE job # "terminate-child"
    <3>1. job' = job /\ pc' = "stop"
      BY <2>1, <2>7 DEF Terminated
    <3> QED
      BY <2>6, <2>7, <3>1, NoticeNothing
  <2>8. CASE job = "terminate-child"
    <3> DEFINE d == Dead(Current)
    <3>1. /\ children' = ReplaceChild(d, children) /\ pc' = "idle" /\ job' = "none"
      BY <2>1, <2>8 DEF Terminated, Idle
    <3>2. d \in Children /\ d.name = Current.name /\ d.pid = None
      BY <1>2, <2>6, TailList, ChildFields DEF Current
    <3>3. /\ PidsApart(children)
          /\ \A e \in El(children) : e.name = d.name \/ Noticed(e)
      BY <2>8, <3>2 DEF NoticeInv, Looping, Handled
    <3> HIDE DEF d
    <3>4. \A e \in El(children') : e = d \/ (e \in El(children) /\ e.name # d.name)
      BY <1>2, <3>1, <3>2, Replaced
    <3>5. PidsApart(children')
      BY <3>2, <3>3, <3>4 DEF PidsApart
    <3>6. \A e \in El(children') : Noticed(e)'
      BY <2>5, <3>2, <3>3, <3>4 DEF Noticed
    <3> QED
      BY <3>1, <3>5, <3>6, NoticeIdle
  <2> QED
    BY <2>7, <2>8
<1>20. CASE handleChildExit \/ handleOtherExit
  <2> DEFINE m == Head(inbox)
  <2>1. /\ pc = "idle" /\ inbox # <<>> /\ inbox' = Tail(inbox) /\ m.type = "EXIT"
        /\ UNCHANGED <<proc, linked, naughty>>
    BY <1>20 DEF handleChildExit, handleOtherExit, NextMessage, env
  <2>2. /\ m \in Msgs /\ El(inbox') \subseteq El(inbox)
        /\ \A x \in El(inbox) : x # m => x \in El(inbox')
    BY <1>2, <2>1, BoxTail
  <2>3. m = EXITmsg(m.pid)
    BY <2>1, <2>2, MsgTypes
  <2>4. \A e : e.pid # m.pid /\ Noticed(e) => Noticed(e)'
    BY <1>4, <2>1, <2>2, <2>3 DEF Noticed, Alive
  <2>5. /\ job = "none" /\ PidsApart(children) /\ Distinct(children)
        /\ \A e \in El(children) : Noticed(e)
    BY <1>7, <2>1
  <2>6. CASE handleOtherExit
    <3>1. m.pid \notin PidsOf(children) /\ Stays
      BY <2>6 DEF handleOtherExit, server, control, Stays, SameLists
    <3>2. m.pid # None
      BY <2>2, MsgTypes, SupervisorAssumption
    <3>3. \A e \in El(children) : e.pid # m.pid
      BY <1>2, <3>1, <3>2, Found
    <3>4. pc' = "idle" /\ job' = "none" /\ children' = children
      BY <2>1, <2>5, <3>1 DEF Stays, SameLists
    <3> QED
      BY <2>4, <2>5, <3>3, <3>4, NoticeIdle
  <2>7. CASE handleChildExit
    <3> DEFINE c == FindPid(m.pid, children)
    <3>1. c \in El(children) /\ c.pid = m.pid /\ DoRestart(c) /\ c.pid # None
      BY <1>2, <2>7, Found DEF handleChildExit
    <3> HIDE DEF c, m
    <3>2. \A e \in El(children) : e # c => Noticed(e)' /\ e.name # c.name
      <4>1. \A e \in El(children) : e # c => e.pid # c.pid
        BY <2>5, <3>1 DEF PidsApart
      <4>2. \A e \in El(children) : e # c => e.name # c.name
        BY <2>5, <3>1 DEF Distinct, El
      <4> QED
        BY <2>4, <2>5, <3>1, <4>1, <4>2
    <3>3. c \in Children
      BY <1>3, <3>1
    <3>4. CASE Restart(c, children)
      <4>1. CASE job' \in {"one-for-all", "terminate"} /\ pc' = "stop"
        BY <4>1, NoticeNothing DEF Looping
      <4>2. CASE job' = "one-for-one" /\ children' = children /\ pc' = "start" /\ todo' = <<c>>
        <5>1. Current' = c
          BY <3>3, <4>2, SmallLists DEF Current
        <5>2. \A e \in El(children) : Handled(e)' \/ Noticed(e)'
          BY <3>2, <4>2, <5>1 DEF Handled
        <5> QED
          BY <2>5, <4>2, <5>2 DEF NoticeInv, Looping
      <4> QED
        BY <3>4, <4>1, <4>2, RestartEffect
    <3>5. CASE children' = RemoveChild(c, children) /\ UNCHANGED control
      <4>1. El(children') = {e \in El(children) : e.name # c.name}
        BY <1>2, <2>5, <3>5, Removed
      <4>2. \A e \in El(children') : e \in El(children) /\ Noticed(e)'
        BY <3>2, <4>1
      <4>3. PidsApart(children')
        BY <2>5, <4>2 DEF PidsApart
      <4> QED
        BY <2>1, <2>5, <3>5, <4>2, <4>3, NoticeIdle DEF control
    <3>6. CASE children' = MarkChildDead(c.name, children) /\ UNCHANGED control
      <4>1. \A e \in El(children') :
              e.pid = None \/ (e \in El(children) /\ Noticed(e)')
        <5> SUFFICES ASSUME NEW e \in El(children')
                     PROVE  e.pid = None \/ (e \in El(children) /\ Noticed(e)')
          OBVIOUS
        <5>1. PICK f \in El(children) : e = Marked(c.name, f)
          BY <1>2, <3>6, MarkedDead
        <5>2. CASE f = c
          BY <3>3, <5>1, <5>2, ChildFields DEF Marked
        <5>3. CASE f # c
          <6>1. c.name # f.name /\ c.name # f.pid /\ Noticed(f)'
            BY <1>3, <3>2, <3>3, <5>3, ChildFields, SupervisorAssumption
          <6> QED
            BY <5>1, <6>1 DEF Marked
        <5> QED
          BY <5>2, <5>3
      <4>2. PidsApart(children')
        BY <2>5, <4>1 DEF PidsApart
      <4>3. \A e \in El(children') : Noticed(e)'
        BY <4>1 DEF Noticed
      <4> QED
        BY <2>1, <2>5, <3>6, <4>2, <4>3, NoticeIdle DEF control
    <3> QED
      BY <3>1, <3>4, <3>5, <3>6 DEF DoRestart, MarkDead
  <2> QED
    BY <1>20, <2>6, <2>7
<1>21. CASE handleStop
  BY <1>21, NoticeNothing DEF handleStop, TerminateChildren, Looping
<1> QED
  BY <1>8, <1>9, <1>10, <1>11, <1>12, <1>13, <1>14, <1>15, <1>16, <1>17, <1>18, <1>19, <1>20,
     <1>21 DEF Next, Work

(* An idle supervisor is told, or has been, of the end of every process that   *)
(* it lists, unless the child has unlinked it.  A one-for-one supervisor whose *)
(* thunk answers ignore to a restart takes the ended process as it was, so     *)
(* that case is left out.                                                      *)
THEOREM DeathAlwaysNoticed ==
  ASSUME Strategy = "one-for-one" => "ignore" \notin Results
  PROVE  Spec => []DeathNoticed
<1> DEFINE Inv == ShutdownInv /\ NoticeInv
<1>1. Init => Inv
  <2> SUFFICES ASSUME Init
               PROVE  NoticeInv
    BY InitShutdown
  <2>1. acc = <<>> /\ pc = "start" /\ job = "init"
    BY DEF Init
  <2> QED
    BY <2>1, SmallLists DEF NoticeInv, PidsApart, Looping
<1>2. Inv /\ [Next]_svars => Inv'
  <2> SUFFICES ASSUME Inv, [Next]_svars
               PROVE  Inv'
    OBVIOUS
  <2>1. TypeOK /\ Lists /\ MsgInv
    BY TypeParts DEF ShutdownInv, Lists
  <2> QED
    BY <2>1, ShutdownStep, NoticeKeeps
<1>3. Inv => DeathNoticed
  <2> SUFFICES ASSUME Inv
               PROVE  DeathNoticed
    OBVIOUS
  <2>1. TypeOK /\ ControlInv
    BY TypeParts DEF ShutdownInv, Lists
  <2>2. children \in Seq(Children) /\ inbox \in Seq(Msgs)
    BY <2>1 DEF TypeOK
  <2>3. ASSUME pc = "idle", NEW p \in PidsOf(children)
        PROVE  (Alive(p) /\ p \in linked) \/ From("EXIT", p) # {} \/ p \in naughty
    <3>1. PICK e \in El(children) : e.pid = p
      BY <2>2, Found
    <3>2. p # None
      BY DEF PidsOf
    <3>3. Noticed(e)
      BY <2>1, <2>3 DEF ControlInv, NoticeInv, Looping, Handled
    <3>4. EXITmsg(p) \in El(inbox) => From("EXIT", p) # {}
      <4> SUFFICES ASSUME EXITmsg(p) \in El(inbox)
                   PROVE  From("EXIT", p) # {}
        OBVIOUS
      <4>1. PICK i \in 1..Len(inbox) : inbox[i] = EXITmsg(p)
        BY DEF El
      <4>2. inbox[i].type = "EXIT" /\ inbox[i].pid = p /\ i \in DOMAIN inbox
        BY <2>2, <4>1 DEF EXITmsg
      <4> QED
        BY <4>2 DEF From
    <3> QED
      BY <3>1, <3>2, <3>3, <3>4 DEF Noticed
  <2> QED
    BY <2>1, <2>3 DEF DeathNoticed
<1> HIDE DEF Inv
<1> QED
  BY <1>1, <1>2, <1>3, PTL DEF Spec

=============================================================================
