------------------------- MODULE SqliteWorkerProofs -------------------------
(***************************************************************************)
(* Proofs about SqliteWorker, for any processes, statements and bindings.  *)
(* The inductive invariant is Inv.  Its heart is Handover: whose turn it   *)
(* is between the loop thread and the worker, which no field of database_t *)
(* says alone.                                                             *)
(***************************************************************************)
EXTENDS SqliteWorker, SequenceTheorems, TLAPS

(* The worker holds the mutex exactly where database_worker says. *)
MutexInv == mutex = IF worker \in {"test", "sleep", "leave"} THEN "worker" ELSE None

(* Work is asked for (the loop is about to lock), stored, run, answered. *)
Handover ==
  /\ loop.at = "lock" =>
       /\ ~busy /\ life = "live"
       /\ loop.work \in Works /\ data = loop.work /\ loop.proc \in Procs
  /\ loop.at = "signal" => busy
  /\ loop.at = "join" => ~busy /\ ~handle /\ life = "live"
  /\ ~busy => work = None /\ ~sent
  /\ busy => /\ life = "live" /\ callback \in Procs /\ data \in Works
             /\ work = IF sent THEN None ELSE data
  /\ worker \in {"run", "relock"} => busy /\ ~sent /\ ran = data
  /\ worker \in {"off", "leave"} /\ life = "live" =>
       loop.at = "join" \/ (sent /\ data = "close" /\ rc)

(* When there is no database there is no work and no worker. *)
Lifetime ==
  /\ life = "opening" => callback \in Procs
  /\ life # "live" => worker = "off" /\ ~handle
  /\ handle => ~(data = "close" /\ (busy \/ loop.at = "lock"))

(* A process waits only for the work under way. *)
WaitInv ==
  \A p \in Procs : waiting[p] \in Works =>
    /\ data = waiting[p]
    /\ (loop.at = "lock" /\ loop.proc = p) \/ (busy /\ callback = p)

(* The list has the statements that are linked, once; held are those a     *)
(* Scheme record points to, all but the one just prepared.                 *)
ListInv ==
  /\ Range(list) = {s \in Stmts : stmt[s] = "linked"}
  /\ IsInjective(list)
  /\ held \subseteq {s \in Stmts : stmt[s] # "none"}
Answering(w) == (worker = "relock" \/ sent) /\ data = w /\ rc
FreshInv ==
  /\ Answering("prepare") => list # <<>> /\ list[1] \notin held
  /\ \A s \in Range(list) : s \in held \/ (Answering("prepare") /\ s = list[1])
ClosedInv == life # "live" \/ loop.at = "join" \/ Answering("close") => list = <<>>

(* What step_worker and bulk_worker are given to work on. *)
Usable(a, w) ==
  w \in {"step", "bulk"} =>
    /\ a # None /\ a.stmt \in held /\ stmt[a.stmt] = "linked"
    /\ w = "bulk" => a.binds \in Binds /\ holder[a.binds] # "none"
ArgInv ==
  /\ loop.at = "lock" => Usable(loop.arg, loop.work)
  /\ busy => Usable(arg, data)

ResInv ==
  res = IF life = "live" THEN Range(Resources)
        ELSE IF life = "closing" THEN {"d", "async"} ELSE {}

Inv == /\ TypeOK /\ MutexInv /\ Handover /\ Lifetime /\ WaitInv
       /\ ListInv /\ FreshInv /\ ClosedInv /\ ArgInv /\ ResInv

-----------------------------------------------------------------------------
(* Lemmas about the list of statements. *)

(* A statement that is linked at the head of the list. *)
LEMMA PushProperties ==
  ASSUME NEW q \in Seq(Stmts), NEW s \in Stmts
  PROVE  /\ <<s>> \o q \in Seq(Stmts) /\ Range(<<s>> \o q) = {s} \cup Range(q)
         /\ (<<s>> \o q)[1] = s /\ <<s>> \o q # <<>>
         /\ s \notin Range(q) /\ IsInjective(q) => IsInjective(<<s>> \o q)
<1> DEFINE r == <<s>> \o q
<1>1. r \in Seq(Stmts) /\ Len(r) = Len(q) + 1 /\ r[1] = s
      /\ \A i \in 1..Len(q) : r[i+1] = q[i]
  OBVIOUS
<1>2. \A j \in 2..Len(r) : j - 1 \in 1..Len(q) /\ r[j] = q[j-1]
  BY <1>1
<1> HIDE DEF r
<1>3. Range(r) = {s} \cup Range(q)
  <2>1. ASSUME NEW x \in Range(r) PROVE x \in {s} \cup Range(q)
    BY <1>1, <1>2 DEF Range
  <2>2. ASSUME NEW j \in 1..Len(q) PROVE q[j] \in Range(r)
    BY <1>1 DEF Range
  <2>3. s \in Range(r)
    BY <1>1 DEF Range
  <2>4. Range(q) = {q[j] : j \in 1..Len(q)}
    BY DEF Range
  <2> QED
    BY <2>1, <2>2, <2>3, <2>4
<1>4. ASSUME s \notin Range(q), IsInjective(q) PROVE IsInjective(r)
  <2> SUFFICES ASSUME NEW a \in 1..Len(r), NEW b \in 1..Len(r), r[a] = r[b] PROVE a = b
    BY <1>1 DEF IsInjective
  <2>1. CASE a = 1 /\ b # 1
    BY <2>1, <1>1, <1>2, <1>4 DEF Range
  <2>2. CASE b = 1 /\ a # 1
    BY <2>2, <1>1, <1>2, <1>4 DEF Range
  <2>3. CASE a # 1 /\ b # 1
    <3>1. a-1 \in DOMAIN q /\ b-1 \in DOMAIN q /\ q[a-1] = q[b-1]
      BY <2>3, <1>1, <1>2
    <3>2. a-1 = b-1
      BY <3>1, <1>4, Zenon DEF IsInjective
    <3> QED
      BY <3>2
  <2> QED
    BY <2>1, <2>2, <2>3
<1> QED
  BY <1>1, <1>3, <1>4 DEF r

(* A statement that is unlinked from the list. *)
LEMMA RemoveProperties ==
  ASSUME NEW q \in Seq(Stmts), IsInjective(q), NEW i \in 1..Len(q)
  PROVE  /\ RemoveAt(q, i) \in Seq(Stmts) /\ IsInjective(RemoveAt(q, i))
         /\ Range(RemoveAt(q, i)) = Range(q) \ {q[i]}
<1> DEFINE f == SubSeq(q, 1, i-1)
           g == SubSeq(q, i+1, Len(q))
           r == f \o g
<1>1. /\ f \in Seq(Stmts) /\ Len(f) = i-1 /\ \A j \in 1..i-1 : f[j] = q[j]
      /\ g \in Seq(Stmts) /\ Len(g) = Len(q)-i /\ \A j \in 1..Len(q)-i : g[j] = q[j+i]
  OBVIOUS
<1> HIDE DEF f, g
<1>2. /\ r \in Seq(Stmts) /\ Len(r) = Len(q)-1
      /\ \A j \in 1..Len(q)-1 : r[j] = IF j < i THEN q[j] ELSE q[j+1]
  <2>1. /\ r \in Seq(Stmts) /\ Len(r) = Len(f) + Len(g)
        /\ \A j \in 1..Len(f)+Len(g) : r[j] = IF j <= Len(f) THEN f[j] ELSE g[j-Len(f)]
    BY <1>1, ConcatProperties
  <2> HIDE DEF r
  <2>2. ASSUME NEW j \in 1..Len(q)-1 PROVE r[j] = IF j < i THEN q[j] ELSE q[j+1]
    <3>1. CASE j < i
      BY <3>1, <1>1, <2>1
    <3>2. CASE ~(j < i)
      <4> DEFINE k == j-(i-1)
      <4>1. k \in 1..Len(q)-i /\ k+i = j+1 /\ k = j - Len(f)
        BY <3>2, <1>1
      <4> HIDE DEF k
      <4>2. r[j] = g[k]
        <5>1. j \in 1..Len(f)+Len(g) /\ ~(j <= Len(f))
          BY <3>2, <1>1
        <5>2. r[j] = g[j-Len(f)]
          BY <5>1, <2>1
        <5> QED
          BY <5>2, <4>1
      <4> QED
        BY <3>2, <4>1, <4>2, <1>1
    <3> QED
      BY <3>1, <3>2
  <2> QED
    BY <1>1, <2>1, <2>2
<1> HIDE DEF r
<1>3. IsInjective(r)
  <2> SUFFICES ASSUME NEW a \in 1..Len(q)-1, NEW b \in 1..Len(q)-1, r[a] = r[b] PROVE a = b
    BY <1>2 DEF IsInjective
  <2> DEFINE at(j) == IF j < i THEN j ELSE j+1
  <2>1. at(a) \in DOMAIN q /\ at(b) \in DOMAIN q /\ q[at(a)] = q[at(b)]
    BY <1>2
  <2>2. at(a) = at(b)
    BY <2>1 DEF IsInjective
  <2> QED
    BY <2>2
<1>4. ASSUME NEW x PROVE x \in Range(r) <=> x \in Range(q) \ {q[i]}
  <2>1. ASSUME NEW j \in 1..Len(q)-1, x = r[j] PROVE x \in Range(q) /\ x # q[i]
    BY <2>1, <1>2 DEF Range, IsInjective
  <2>2. ASSUME NEW j \in 1..Len(q), x = q[j], j # i PROVE x \in Range(r)
    <3>1. CASE j < i
      BY <3>1, <2>2, <1>2 DEF Range
    <3>2. CASE j > i
      <4> DEFINE k == j-1
      <4>1. k \in 1..Len(q)-1 /\ ~(k < i) /\ k+1 = j
        BY <3>2
      <4> HIDE DEF k
      <4>2. r[k] = x /\ k \in DOMAIN r
        BY <4>1, <2>2, <1>2
      <4> QED
        BY <4>2 DEF Range
    <3> QED
      BY <2>2, <3>1, <3>2
  <2> QED
    BY <2>1, <2>2, <1>2 DEF Range
<1> QED
  BY <1>2, <1>3, <1>4 DEF RemoveAt, r, f, g

(* What Tail leaves is what is left without the first. *)
LEMMA TailProperties ==
  ASSUME NEW q \in Seq(Stmts), IsInjective(q), q # <<>>
  PROVE  /\ Tail(q) \in Seq(Stmts) /\ IsInjective(Tail(q))
         /\ Range(Tail(q)) = Range(q) \ {Head(q)} /\ Head(q) \in Stmts
<1>1. /\ Tail(q) \in Seq(Stmts) /\ Len(Tail(q)) = Len(q)-1 /\ Head(q) = q[1] /\ Len(q) >= 1
      /\ \A j \in 1..Len(q)-1 : Tail(q)[j] = q[j+1]
  OBVIOUS
<1>2. IsInjective(Tail(q))
  BY <1>1 DEF IsInjective
<1>3. ASSUME NEW x PROVE x \in Range(Tail(q)) <=> x \in Range(q) \ {Head(q)}
  <2>1. ASSUME NEW j \in 1..Len(q)-1, x = Tail(q)[j] PROVE x \in Range(q) /\ x # q[1]
    BY <2>1, <1>1 DEF Range, IsInjective
  <2>2. ASSUME NEW j \in 1..Len(q), x = q[j], j # 1 PROVE x \in Range(Tail(q))
    <3> DEFINE k == j-1
    <3>1. k \in 1..Len(q)-1 /\ k+1 = j
      BY <2>2
    <3> HIDE DEF k
    <3>2. Tail(q)[k] = x /\ k \in DOMAIN Tail(q)
      BY <3>1, <2>2, <1>1
    <3> QED
      BY <3>2 DEF Range
  <2> QED
    BY <2>1, <2>2, <1>1 DEF Range
<1> QED
  BY <1>1, <1>2, <1>3

(* A statement that is linked is linked to a database that is open. *)
LEMMA LinkedIsLive ==
  ASSUME Inv, NEW s \in Stmts, stmt[s] = "linked"
  PROVE  life = "live"
BY DEF Inv, TypeOK, ListInv, ClosedInv, Range

(* Only database_worker takes the mutex and gives it up; the loop thread      *)
(* takes it and gives it up within StoreWork.                              *)
LEMMA MutexStep == Inv /\ [Next]_vars => MutexInv'
<1> SUFFICES ASSUME Inv, [Next]_vars PROVE MutexInv'
  OBVIOUS
<1> USE SqliteAssumption DEF Inv, TypeOK, MutexInv, Handover, Lifetime, dvars, wvars, svars
<1>1. ASSUME UNCHANGED <<mutex, worker>> PROVE MutexInv'
  BY <1>1
<1>2. CASE worker_lock
  BY <1>2 DEF worker_lock
<1>3. CASE worker_test
  BY <1>3 DEF worker_test
<1>4. CASE prepare_worker
  BY <1>4 DEF prepare_worker, Running, Push
<1>5. CASE step_worker
  BY <1>5 DEF step_worker, Running
<1>6. CASE bulk_worker
  BY <1>6 DEF bulk_worker, Running
<1>7. CASE close_worker
  BY <1>7 DEF close_worker, Running
<1>8. CASE worker_done
  BY <1>8 DEF worker_done, Relock
<1>9. CASE worker_wait
  BY <1>9 DEF worker_wait
<1>10. CASE worker_exit
  BY <1>10 DEF worker_exit
<1>11. CASE Spurious
  BY <1>11 DEF Spurious
<1>12. CASE Signal
  BY <1>12 DEF Signal, Idle
<1>13. CASE open_cb
  BY <1>13 DEF open_cb
<1> QED
  BY <1>1, <1>2, <1>3, <1>4, <1>5, <1>6, <1>7, <1>8, <1>9, <1>10, <1>11, <1>12, <1>13 DEF Next, worker_step, loop_step, vars, dvars, wvars, svars,
    Caller, CanCall, Complete, Free, Idle, Joined, KeptLive, Kill, StoreWork, Submit, Unlinkable, bulk_cb, close_cb, close_free_cb, close_join, execute_exit, osi_bind_statement_bindings, osi_bulk_execute, osi_close_database, osi_finalize_statement, osi_marshal_bindings, osi_open_database, osi_prepare_statement, osi_step_statement, osi_unmarshal_bindings, prepare_cb, step_cb

(* Every step keeps the account of whose turn it is.  The decisive ones are  *)
(* StoreWork, which finds the worker idle because the database is not busy,  *)
(* and the callbacks, which find it past the work because it has sent.       *)
LEMMA HandoverStep == Inv /\ [Next]_vars => Handover'
<1> SUFFICES ASSUME Inv, [Next]_vars PROVE Handover'
  OBVIOUS
<1> USE SqliteAssumption DEF Inv, TypeOK, MutexInv, Handover, Lifetime, Works, dvars, wvars, svars
<1>1. ASSUME UNCHANGED <<loop, busy, life, data, handle, work, sent, callback, worker, ran, rc>> PROVE Handover'
  BY <1>1
<1>2. CASE worker_lock
  BY <1>2 DEF worker_lock
<1>3. CASE worker_test
  BY <1>3 DEF worker_test
<1>4. CASE prepare_worker
  BY <1>4 DEF prepare_worker, Running, Push
<1>5. CASE step_worker
  BY <1>5 DEF step_worker, Running
<1>6. CASE bulk_worker
  BY <1>6 DEF bulk_worker, Running
<1>7. CASE close_worker
  BY <1>7 DEF close_worker, Running
<1>8. CASE worker_done
  BY <1>8 DEF worker_done, Relock
<1>9. CASE worker_wait
  BY <1>9 DEF worker_wait
<1>10. CASE worker_exit
  BY <1>10 DEF worker_exit
<1>11. CASE Spurious
  BY <1>11 DEF Spurious
<1>12. CASE StoreWork
  BY <1>12 DEF StoreWork, Caller
<1>13. CASE Signal
  BY <1>13 DEF Signal, Idle
<1>14. CASE close_cb
  BY <1>14 DEF close_cb, Complete, Idle
<1>15. CASE close_join
  BY <1>15 DEF close_join, Joined, Idle
<1>16. CASE prepare_cb
  BY <1>16 DEF prepare_cb, Complete
<1>17. CASE step_cb
  BY <1>17 DEF step_cb, Complete
<1>18. CASE bulk_cb
  BY <1>18 DEF bulk_cb, Complete
<1>19. CASE open_cb
  BY <1>19 DEF open_cb
<1>20. CASE close_free_cb
  BY <1>20 DEF close_free_cb
<1>21. ASSUME NEW p \in Procs, osi_open_database(p) PROVE Handover'
  BY <1>21 DEF osi_open_database, CanCall
<1>22. ASSUME NEW p \in Procs, osi_close_database(p) PROVE Handover'
  BY <1>22 DEF osi_close_database, CanCall, Submit, Free
<1>23. ASSUME NEW p \in Procs, osi_prepare_statement(p) PROVE Handover'
  BY <1>23 DEF osi_prepare_statement, CanCall, Submit, Free
<1>24. ASSUME NEW p \in Procs, NEW s \in Stmts, osi_step_statement(p, s) PROVE Handover'
  BY <1>24, LinkedIsLive DEF osi_step_statement, CanCall, Submit, Free
<1>25. ASSUME NEW p \in Procs, NEW s \in Stmts, NEW b \in Binds, osi_bulk_execute(p, s, b) PROVE Handover'
  BY <1>25, LinkedIsLive DEF osi_bulk_execute, CanCall, Submit, Free
<1> QED
  BY <1>1, <1>2, <1>3, <1>4, <1>5, <1>6, <1>7, <1>8, <1>9, <1>10, <1>11, <1>12, <1>13, <1>14, <1>15, <1>16, <1>17, <1>18, <1>19, <1>20, <1>21, <1>22, <1>23, <1>24, <1>25 DEF Next, worker_step, loop_step, vars, dvars, wvars, svars,
    CanCall, KeptLive, Kill, Unlinkable, execute_exit, osi_bind_statement_bindings, osi_finalize_statement, osi_marshal_bindings, osi_unmarshal_bindings

(* The Scheme record has its handle only while the database is open and no  *)
(* close is under way.                                                     *)
LEMMA LifetimeStep == Inv /\ [Next]_vars => Lifetime'
<1> SUFFICES ASSUME Inv, [Next]_vars PROVE Lifetime'
  OBVIOUS
<1> USE SqliteAssumption DEF Inv, TypeOK, MutexInv, Handover, Lifetime, dvars, wvars, svars
<1>1. ASSUME UNCHANGED <<loop, busy, life, data, handle, callback, worker>> PROVE Lifetime'
  BY <1>1
<1>2. CASE worker_lock
  BY <1>2 DEF worker_lock
<1>3. CASE worker_test
  BY <1>3 DEF worker_test
<1>4. CASE prepare_worker
  BY <1>4 DEF prepare_worker, Running, Push
<1>5. CASE step_worker
  BY <1>5 DEF step_worker, Running
<1>6. CASE bulk_worker
  BY <1>6 DEF bulk_worker, Running
<1>7. CASE close_worker
  BY <1>7 DEF close_worker, Running
<1>8. CASE worker_done
  BY <1>8 DEF worker_done, Relock
<1>9. CASE worker_wait
  BY <1>9 DEF worker_wait
<1>10. CASE worker_exit
  BY <1>10 DEF worker_exit
<1>11. CASE Spurious
  BY <1>11 DEF Spurious
<1>12. CASE StoreWork
  BY <1>12 DEF StoreWork, Caller
<1>13. CASE Signal
  BY <1>13 DEF Signal, Idle
<1>14. CASE close_cb
  BY <1>14 DEF close_cb, Complete, Idle
<1>15. CASE close_join
  BY <1>15 DEF close_join, Joined, Idle
<1>16. CASE prepare_cb
  BY <1>16 DEF prepare_cb, Complete
<1>17. CASE step_cb
  BY <1>17 DEF step_cb, Complete
<1>18. CASE bulk_cb
  BY <1>18 DEF bulk_cb, Complete
<1>19. CASE open_cb
  BY <1>19 DEF open_cb
<1>20. CASE close_free_cb
  BY <1>20 DEF close_free_cb
<1>21. ASSUME NEW p \in Procs, osi_open_database(p) PROVE Lifetime'
  BY <1>21 DEF osi_open_database, CanCall
<1>22. ASSUME NEW p \in Procs, osi_close_database(p) PROVE Lifetime'
  BY <1>22 DEF osi_close_database, CanCall, Submit, Free
<1>23. ASSUME NEW p \in Procs, osi_prepare_statement(p) PROVE Lifetime'
  BY <1>23 DEF osi_prepare_statement, CanCall, Submit, Free
<1>24. ASSUME NEW p \in Procs, NEW s \in Stmts, osi_step_statement(p, s) PROVE Lifetime'
  BY <1>24 DEF osi_step_statement, CanCall, Submit, Free
<1>25. ASSUME NEW p \in Procs, NEW s \in Stmts, NEW b \in Binds, osi_bulk_execute(p, s, b) PROVE Lifetime'
  BY <1>25 DEF osi_bulk_execute, CanCall, Submit, Free
<1> QED
  BY <1>1, <1>2, <1>3, <1>4, <1>5, <1>6, <1>7, <1>8, <1>9, <1>10, <1>11, <1>12, <1>13, <1>14, <1>15, <1>16, <1>17, <1>18, <1>19, <1>20, <1>21, <1>22, <1>23, <1>24, <1>25 DEF Next, worker_step, loop_step, vars, dvars, wvars, svars,
    CanCall, KeptLive, Kill, Unlinkable, execute_exit, osi_bind_statement_bindings, osi_finalize_statement, osi_marshal_bindings, osi_unmarshal_bindings

(* No callback answers a process that did not ask for what was done. *)
LEMMA WaitStep == Inv /\ [Next]_vars => WaitInv'
<1> SUFFICES ASSUME Inv, [Next]_vars PROVE WaitInv'
  OBVIOUS
<1> USE SqliteAssumption DEF Inv, TypeOK, MutexInv, Handover, Lifetime, WaitInv, Works, dvars, wvars, svars
<1>1. ASSUME UNCHANGED <<waiting, data, loop, busy, callback>> PROVE WaitInv'
  BY <1>1
<1>2. CASE StoreWork
  BY <1>2 DEF StoreWork, Caller
<1>3. CASE Signal
  BY <1>3 DEF Signal, Idle
<1>4. CASE close_cb
  BY <1>4 DEF close_cb, Complete, Idle
<1>5. CASE close_join
  BY <1>5 DEF close_join, Joined, Idle
<1>6. CASE prepare_cb
  BY <1>6 DEF prepare_cb, Complete
<1>7. CASE step_cb
  BY <1>7 DEF step_cb, Complete
<1>8. CASE bulk_cb
  BY <1>8 DEF bulk_cb, Complete
<1>9. CASE open_cb
  BY <1>9 DEF open_cb
<1>10. ASSUME NEW p \in Procs, osi_open_database(p) PROVE WaitInv'
  BY <1>10 DEF osi_open_database, CanCall
<1>11. ASSUME NEW p \in Procs, osi_close_database(p) PROVE WaitInv'
  BY <1>11 DEF osi_close_database, CanCall, Submit, Free
<1>12. ASSUME NEW p \in Procs, osi_prepare_statement(p) PROVE WaitInv'
  BY <1>12 DEF osi_prepare_statement, CanCall, Submit, Free
<1>13. ASSUME NEW p \in Procs, Kill(p) PROVE WaitInv'
  BY <1>13 DEF Kill
<1>14. ASSUME NEW p \in Procs, NEW s \in Stmts, osi_step_statement(p, s) PROVE WaitInv'
  BY <1>14 DEF osi_step_statement, CanCall, Submit, Free
<1>15. ASSUME NEW p \in Procs, NEW s \in Stmts, NEW b \in Binds, osi_bulk_execute(p, s, b) PROVE WaitInv'
  BY <1>15 DEF osi_bulk_execute, CanCall, Submit, Free
<1> QED
  BY <1>1, <1>2, <1>3, <1>4, <1>5, <1>6, <1>7, <1>8, <1>9, <1>10, <1>11, <1>12, <1>13, <1>14, <1>15 DEF Next, worker_step, loop_step, vars, dvars, wvars, svars,
    CanCall, KeptLive, Push, Relock, Running, Spurious, Unlinkable, bulk_worker, close_free_cb, close_worker, execute_exit, osi_bind_statement_bindings, osi_finalize_statement, osi_marshal_bindings, osi_unmarshal_bindings, prepare_worker, step_worker, worker_done, worker_exit, worker_lock, worker_test, worker_wait

(* The types; that bulk_worker has a statement and bindings is ArgInv. *)
LEMMA TypeStep == Inv /\ [Next]_vars => TypeOK'
<1> SUFFICES ASSUME Inv, [Next]_vars PROVE TypeOK'
  OBVIOUS
<1> USE SqliteAssumption DEF Inv, TypeOK, Works, dvars, wvars, svars
<1>1. CASE worker_lock
  BY <1>1 DEF worker_lock
<1>2. CASE worker_test
  BY <1>2 DEF worker_test
<1>3. CASE prepare_worker
  <2>1. rc' \in BOOLEAN
    BY <1>3 DEF prepare_worker
  <2>2. list' \in Seq(Stmts)
    <3>1. list' = list \/ \E s \in Stmts : list' = <<s>> \o list
      BY <1>3 DEF prepare_worker, Push
    <3>2. CASE list' = list
      BY <3>2
    <3>3. ASSUME NEW s \in Stmts, list' = <<s>> \o list PROVE list' \in Seq(Stmts)
      BY <3>3, PushProperties
    <3> QED
      BY <3>1, <3>2, <3>3
  <2>3. stmt' \in [Stmts -> {"none", "linked", "detached"}]
    BY <1>3 DEF prepare_worker
  <2>4. bound' \in [Stmts -> Binds \cup {None}]
    BY <1>3 DEF prepare_worker
  <2> QED
    BY <1>3, <2>1, <2>2, <2>3, <2>4 DEF prepare_worker
<1>4. CASE step_worker
  BY <1>4 DEF step_worker, Running
<1>5. CASE bulk_worker
  BY <1>5 DEF bulk_worker, Running, Handover, ArgInv, Usable
<1>6. CASE close_worker
  <2>1. list' \in Seq(Stmts)
    BY <1>6, TailProperties DEF close_worker, ListInv
  <2>2. stmt' \in [Stmts -> {"none", "linked", "detached"}]
    BY <1>6 DEF close_worker
  <2>3. bound' \in [Stmts -> Binds \cup {None}]
    BY <1>6 DEF close_worker
  <2>4. rc' \in BOOLEAN
    BY <1>6 DEF close_worker
  <2> QED
    BY <1>6, <2>1, <2>2, <2>3, <2>4 DEF close_worker
<1>7. CASE worker_done
  BY <1>7 DEF worker_done, Relock
<1>8. CASE worker_wait
  BY <1>8 DEF worker_wait
<1>9. CASE worker_exit
  BY <1>9 DEF worker_exit
<1>10. CASE Spurious
  BY <1>10 DEF Spurious
<1>11. CASE StoreWork
  BY <1>11 DEF StoreWork, Caller
<1>12. CASE Signal
  BY <1>12 DEF Signal, Idle
<1>13. CASE close_cb
  <2>1. busy' \in BOOLEAN /\ sent' \in BOOLEAN /\ handle' \in BOOLEAN /\ rc' \in BOOLEAN
    BY <1>13 DEF close_cb, Complete
  <2>2. waiting' \in [Procs -> Works \cup {"open", None}] /\ callback' \in Procs \cup {None}
    BY <1>13 DEF close_cb, Complete
  <2>3. loop' = loop \/ loop' = [at |-> "join", work |-> None, proc |-> None, arg |-> None]
    BY <1>13 DEF close_cb, Idle
  <2> QED
    BY <1>13, <2>1, <2>2, <2>3 DEF close_cb
<1>14. CASE close_join
  BY <1>14 DEF close_join, Joined, Idle
<1>15. CASE prepare_cb
  <2>1. busy' \in BOOLEAN /\ sent' \in BOOLEAN /\ handle' \in BOOLEAN /\ rc' \in BOOLEAN
    BY <1>15 DEF prepare_cb, Complete
  <2>2. waiting' \in [Procs -> Works \cup {"open", None}] /\ callback' \in Procs \cup {None}
    BY <1>15 DEF prepare_cb, Complete
  <2>3. rc => Head(list) \in Stmts
    BY <1>15 DEF prepare_cb, Complete, FreshInv, Answering
  <2>4. held' \subseteq Stmts
    BY <1>15, <2>3 DEF prepare_cb
  <2> QED
    BY <1>15, <2>1, <2>2, <2>4 DEF prepare_cb
<1>16. CASE step_cb
  <2>1. busy' \in BOOLEAN /\ sent' \in BOOLEAN /\ handle' \in BOOLEAN /\ rc' \in BOOLEAN
    BY <1>16 DEF step_cb, Complete
  <2>2. waiting' \in [Procs -> Works \cup {"open", None}] /\ callback' \in Procs \cup {None}
    BY <1>16 DEF step_cb, Complete
  <2> QED
    BY <1>16, <2>1, <2>2 DEF step_cb, Complete
<1>17. CASE bulk_cb
  <2>1. busy' \in BOOLEAN /\ sent' \in BOOLEAN /\ handle' \in BOOLEAN /\ rc' \in BOOLEAN
    BY <1>17 DEF bulk_cb, Complete
  <2>2. waiting' \in [Procs -> Works \cup {"open", None}] /\ callback' \in Procs \cup {None}
    BY <1>17 DEF bulk_cb, Complete
  <2> QED
    BY <1>17, <2>1, <2>2 DEF bulk_cb, Complete
<1>18. CASE open_cb
  <2>1. waiting' \in [Procs -> Works \cup {"open", None}] /\ callback' \in Procs \cup {None}
    BY <1>18 DEF open_cb
  <2>2. rc' \in BOOLEAN /\ busy' \in BOOLEAN /\ handle' \in BOOLEAN
    BY <1>18 DEF open_cb
  <2>3. list' \in Seq(Stmts)
    <3>1. list' = <<>> \/ list' = list
      BY <1>18 DEF open_cb
    <3>2. <<>> \in Seq(Stmts) /\ list \in Seq(Stmts)
      OBVIOUS
    <3> QED
      BY <3>1, <3>2, Zenon
  <2>4. res' \subseteq Range(Resources)
    BY <1>18 DEF open_cb, Resources, Range
  <2>5. life' \in {"none", "opening", "live", "closing"}
    BY <1>18 DEF open_cb
  <2> QED
    BY <1>18, <2>1, <2>2, <2>3, <2>4, <2>5 DEF open_cb
<1>19. CASE close_free_cb
  BY <1>19 DEF close_free_cb
<1>20. ASSUME NEW p \in Procs, osi_open_database(p) PROVE TypeOK'
  BY <1>20 DEF osi_open_database, CanCall
<1>21. ASSUME NEW p \in Procs, osi_close_database(p) PROVE TypeOK'
  <2>1. handle' \in BOOLEAN
    BY <1>21 DEF osi_close_database
  <2> QED
    BY <1>21, <2>1 DEF osi_close_database, Submit
<1>22. ASSUME NEW p \in Procs, osi_prepare_statement(p) PROVE TypeOK'
  BY <1>22 DEF osi_prepare_statement, CanCall, Submit, Free
<1>23. ASSUME NEW p \in Procs, Kill(p) PROVE TypeOK'
  BY <1>23 DEF Kill
<1>24. ASSUME NEW p \in Procs, NEW s \in Stmts, osi_step_statement(p, s) PROVE TypeOK'
  BY <1>24 DEF osi_step_statement, CanCall, Submit, Free
<1>25. ASSUME NEW p \in Procs, NEW b \in Binds, osi_marshal_bindings(p, b) PROVE TypeOK'
  BY <1>25 DEF osi_marshal_bindings, CanCall
<1>26. ASSUME NEW p \in Procs, NEW b \in Binds, execute_exit(p, b) PROVE TypeOK'
  BY <1>26 DEF execute_exit, CanCall
<1>27. ASSUME NEW p \in Procs, NEW s \in Stmts, NEW b \in Binds, osi_bind_statement_bindings(p, s, b) PROVE TypeOK'
  BY <1>27 DEF osi_bind_statement_bindings, CanCall
<1>28. ASSUME NEW p \in Procs, NEW s \in Stmts, NEW b \in Binds, osi_bulk_execute(p, s, b) PROVE TypeOK'
  BY <1>28 DEF osi_bulk_execute, CanCall, Submit, Free
<1>29. ASSUME NEW s \in Stmts, osi_finalize_statement(s) PROVE TypeOK'
  <2>1. list' \in Seq(Stmts)
    BY <1>29, RemoveProperties DEF osi_finalize_statement, ListInv
  <2> QED
    BY <1>29, <2>1 DEF osi_finalize_statement
<1>30. ASSUME NEW b \in Binds, osi_unmarshal_bindings(b) PROVE TypeOK'
  BY <1>30 DEF osi_unmarshal_bindings, KeptLive
<1>31. CASE UNCHANGED vars
  BY <1>31 DEF vars, dvars, wvars, svars
<1> QED
  BY <1>1, <1>2, <1>3, <1>4, <1>5, <1>6, <1>7, <1>8, <1>9, <1>10, <1>11, <1>12, <1>13, <1>14, <1>15, <1>16, <1>17, <1>18, <1>19, <1>20, <1>21, <1>22, <1>23, <1>24, <1>25, <1>26, <1>27, <1>28, <1>29, <1>30, <1>31 DEF Next, worker_step, loop_step

(* The list, the statements and the records that point to them change       *)
(* together.                                                               *)
LEMMA ListStep == Inv /\ [Next]_vars => ListInv'
<1> SUFFICES ASSUME Inv, [Next]_vars PROVE ListInv'
  OBVIOUS
<1> USE SqliteAssumption DEF Inv, TypeOK, ListInv, dvars, wvars, svars
<1>1. ASSUME UNCHANGED <<list, stmt, held>> PROVE ListInv'
  BY <1>1
<1>2. CASE prepare_worker
  <2>1. CASE UNCHANGED <<stmt, bound, list>>
    BY <1>2, <2>1 DEF prepare_worker
  <2>2. ASSUME NEW s \in Stmts, stmt[s] = "none", list' = Push(s),
               stmt' = [stmt EXCEPT ![s] = "linked"]
        PROVE  ListInv'
    <3>1. s \notin Range(list)
      BY <2>2
    <3>2. Range(list') = {s} \cup Range(list) /\ IsInjective(list')
      BY <2>2, <3>1, PushProperties DEF Push
    <3> QED
      BY <1>2, <2>2, <3>2 DEF prepare_worker
  <2> QED
    BY <1>2, <2>1, <2>2 DEF prepare_worker
<1>3. CASE close_worker
  <2>1. CASE list = <<>>
    BY <1>3, <2>1 DEF close_worker
  <2>2. CASE list # <<>>
    <3>1. /\ IsInjective(list') /\ Range(list') = Range(list) \ {Head(list)}
          /\ Head(list) \in Stmts
      <4>1. list' = Tail(list)
        BY <1>3, <2>2 DEF close_worker
      <4> QED
        BY <4>1, <2>2, TailProperties
    <3>2. stmt' = [stmt EXCEPT ![Head(list)] = "detached"] /\ held' = held
      BY <1>3, <2>2 DEF close_worker
    <3> QED
      BY <3>1, <3>2
  <2> QED
    BY <2>1, <2>2
<1>4. CASE prepare_cb
  <2>1. rc => Head(list) \in Range(list)
    BY <1>4 DEF prepare_cb, Complete, FreshInv, Answering, Range
  <2> QED
    BY <1>4, <2>1 DEF prepare_cb
<1>5. CASE open_cb
  <2>1. list' = list
    BY <1>5 DEF open_cb, ClosedInv
  <2> QED
    BY <1>5, <2>1 DEF open_cb
<1>6. ASSUME NEW s \in Stmts, osi_finalize_statement(s) PROVE ListInv'
  <2>1. CASE stmt[s] = "detached"
    BY <1>6, <2>1 DEF osi_finalize_statement, Unlinkable
  <2>2. CASE stmt[s] # "detached"
    <3>1. IsInjective(list') /\ Range(list') = Range(list) \ {s}
      BY <1>6, <2>2, RemoveProperties DEF osi_finalize_statement
    <3> QED
      BY <1>6, <2>2, <3>1 DEF osi_finalize_statement, Unlinkable
  <2> QED
    BY <2>1, <2>2
<1> QED
  BY <1>1, <1>2, <1>3, <1>4, <1>5, <1>6 DEF Next, worker_step, loop_step, vars, dvars, wvars, svars,
    Caller, CanCall, Complete, Free, Idle, Joined, KeptLive, Kill, Relock, Running, Signal, Spurious, StoreWork, Submit, bulk_cb, bulk_worker, close_cb, close_free_cb, close_join, execute_exit, osi_bind_statement_bindings, osi_bulk_execute, osi_close_database, osi_marshal_bindings, osi_open_database, osi_prepare_statement, osi_step_statement, osi_unmarshal_bindings, step_cb, step_worker, worker_done, worker_exit, worker_lock, worker_test, worker_wait

(* Only prepare_worker puts a statement in the list that no record points   *)
(* to, at the front, and it stays there until prepare_cb hands it out.     *)
LEMMA FreshStep == Inv /\ [Next]_vars => FreshInv'
<1> SUFFICES ASSUME Inv, [Next]_vars PROVE FreshInv'
  OBVIOUS
<1> USE SqliteAssumption DEF Inv, TypeOK, Works, Handover, Lifetime, FreshInv, Answering, dvars, wvars, svars
<1>1. CASE worker_lock
  BY <1>1 DEF worker_lock
<1>2. CASE worker_test
  BY <1>2 DEF worker_test
<1>3. CASE prepare_worker
  <2>1. ASSUME UNCHANGED <<stmt, bound, list>>, rc' = FALSE PROVE FreshInv'
    BY <1>3, <2>1 DEF prepare_worker, Running
  <2>2. ASSUME NEW s \in Stmts, stmt[s] = "none", list' = Push(s), rc' = TRUE
        PROVE  FreshInv'
    <3>1. Range(list') = {s} \cup Range(list) /\ list'[1] = s /\ list' # <<>>
      BY <2>2, PushProperties DEF Push
    <3>2. s \notin held /\ Range(list) \subseteq held
      BY <1>3, <2>2 DEF prepare_worker, Running, ListInv
    <3> QED
      BY <1>3, <2>2, <3>1, <3>2 DEF prepare_worker, Running
  <2> QED
    BY <1>3, <2>1, <2>2 DEF prepare_worker
<1>4. CASE step_worker
  BY <1>4 DEF step_worker, Running
<1>5. CASE bulk_worker
  BY <1>5 DEF bulk_worker, Running
<1>6. CASE close_worker
  <2>1. CASE list = <<>>
    BY <1>6, <2>1 DEF close_worker, Running
  <2>2. CASE list # <<>>
    <3>1. list' = Tail(list) /\ UNCHANGED <<worker, sent, data, rc, held>>
      BY <1>6, <2>2 DEF close_worker
    <3>2. Range(list') = Range(list) \ {Head(list)}
      BY <3>1, <2>2, TailProperties DEF ListInv
    <3> QED
      BY <1>6, <3>1, <3>2 DEF close_worker, Running
  <2> QED
    BY <2>1, <2>2
<1>7. CASE worker_done
  BY <1>7 DEF worker_done, Relock
<1>8. CASE worker_wait
  BY <1>8 DEF worker_wait
<1>9. CASE worker_exit
  BY <1>9 DEF worker_exit
<1>10. CASE Spurious
  BY <1>10 DEF Spurious
<1>11. CASE StoreWork
  BY <1>11 DEF StoreWork, Caller
<1>12. CASE Signal
  BY <1>12 DEF Signal, Idle
<1>13. CASE close_cb
  BY <1>13 DEF close_cb, Complete, Idle
<1>14. CASE close_join
  BY <1>14 DEF close_join, Joined, Idle
<1>15. CASE prepare_cb
  <2>1. rc => list # <<>> /\ Head(list) = list[1]
    BY <1>15 DEF prepare_cb, Complete
  <2> QED
    BY <1>15, <2>1 DEF prepare_cb, Complete
<1>16. CASE step_cb
  BY <1>16 DEF step_cb, Complete
<1>17. CASE bulk_cb
  BY <1>17 DEF bulk_cb, Complete
<1>18. CASE open_cb
  <2>1. list' = list /\ list = <<>> /\ UNCHANGED <<sent, held>>
    BY <1>18 DEF open_cb, ClosedInv
  <2>2. Range(list) = {}
    BY <2>1 DEF Range
  <2>3. worker' # "relock" /\ ~sent
    BY <1>18 DEF open_cb
  <2> QED
    BY <2>1, <2>2, <2>3
<1>19. CASE close_free_cb
  BY <1>19 DEF close_free_cb
<1>20. ASSUME NEW p \in Procs, osi_open_database(p) PROVE FreshInv'
  BY <1>20 DEF osi_open_database, CanCall
<1>21. ASSUME NEW p \in Procs, osi_close_database(p) PROVE FreshInv'
  BY <1>21 DEF osi_close_database, CanCall, Submit, Free
<1>22. ASSUME NEW p \in Procs, osi_prepare_statement(p) PROVE FreshInv'
  BY <1>22 DEF osi_prepare_statement, CanCall, Submit, Free
<1>23. ASSUME NEW p \in Procs, Kill(p) PROVE FreshInv'
  BY <1>23 DEF Kill
<1>24. ASSUME NEW p \in Procs, NEW s \in Stmts, osi_step_statement(p, s) PROVE FreshInv'
  BY <1>24 DEF osi_step_statement, CanCall, Submit, Free
<1>25. ASSUME NEW p \in Procs, NEW b \in Binds, osi_marshal_bindings(p, b) PROVE FreshInv'
  BY <1>25 DEF osi_marshal_bindings, CanCall
<1>26. ASSUME NEW p \in Procs, NEW b \in Binds, execute_exit(p, b) PROVE FreshInv'
  BY <1>26 DEF execute_exit, CanCall
<1>27. ASSUME NEW p \in Procs, NEW s \in Stmts, NEW b \in Binds, osi_bind_statement_bindings(p, s, b) PROVE FreshInv'
  BY <1>27 DEF osi_bind_statement_bindings, CanCall
<1>28. ASSUME NEW p \in Procs, NEW s \in Stmts, NEW b \in Binds, osi_bulk_execute(p, s, b) PROVE FreshInv'
  BY <1>28 DEF osi_bulk_execute, CanCall, Submit, Free
<1>29. ASSUME NEW s \in Stmts, osi_finalize_statement(s) PROVE FreshInv'
  <2>1. CASE stmt[s] = "detached"
    BY <1>29, <2>1 DEF osi_finalize_statement, Unlinkable, ListInv
  <2>2. CASE stmt[s] # "detached"
    <3>1. Range(list') = Range(list) \ {s}
      BY <1>29, <2>2, RemoveProperties DEF osi_finalize_statement, ListInv
    <3> QED
      BY <1>29, <2>2, <3>1 DEF osi_finalize_statement, Unlinkable
  <2> QED
    BY <2>1, <2>2
<1>30. ASSUME NEW b \in Binds, osi_unmarshal_bindings(b) PROVE FreshInv'
  BY <1>30 DEF osi_unmarshal_bindings, KeptLive
<1>31. CASE UNCHANGED vars
  BY <1>31 DEF vars, dvars, wvars, svars
<1> QED
  BY <1>1, <1>2, <1>3, <1>4, <1>5, <1>6, <1>7, <1>8, <1>9, <1>10, <1>11, <1>12, <1>13, <1>14, <1>15, <1>16, <1>17, <1>18, <1>19, <1>20, <1>21, <1>22, <1>23, <1>24, <1>25, <1>26, <1>27, <1>28, <1>29, <1>30, <1>31 DEF Next, worker_step, loop_step

(* A close that succeeded has emptied the list, and nothing is prepared     *)
(* after it.                                                               *)
LEMMA ClosedStep == Inv /\ [Next]_vars => ClosedInv'
<1> SUFFICES ASSUME Inv, [Next]_vars PROVE ClosedInv'
  OBVIOUS
<1> USE SqliteAssumption DEF Inv, TypeOK, Works, Handover, Lifetime, ClosedInv, Answering, dvars, wvars, svars
<1>1. CASE worker_lock
  BY <1>1 DEF worker_lock
<1>2. CASE worker_test
  BY <1>2 DEF worker_test
<1>3. CASE prepare_worker
  BY <1>3 DEF prepare_worker, Running, Push
<1>4. CASE step_worker
  BY <1>4 DEF step_worker, Running
<1>5. CASE bulk_worker
  BY <1>5 DEF bulk_worker, Running
<1>6. CASE close_worker
  BY <1>6 DEF close_worker, Running
<1>7. CASE worker_done
  BY <1>7 DEF worker_done, Relock
<1>8. CASE worker_wait
  BY <1>8 DEF worker_wait
<1>9. CASE worker_exit
  BY <1>9 DEF worker_exit
<1>10. CASE Spurious
  BY <1>10 DEF Spurious
<1>11. CASE StoreWork
  BY <1>11 DEF StoreWork, Caller
<1>12. CASE Signal
  BY <1>12 DEF Signal, Idle
<1>13. CASE close_cb
  BY <1>13 DEF close_cb, Complete, Idle
<1>14. CASE close_join
  BY <1>14 DEF close_join, Joined, Idle
<1>15. CASE prepare_cb
  BY <1>15 DEF prepare_cb, Complete
<1>16. CASE step_cb
  BY <1>16 DEF step_cb, Complete
<1>17. CASE bulk_cb
  BY <1>17 DEF bulk_cb, Complete
<1>18. CASE open_cb
  BY <1>18 DEF open_cb
<1>19. CASE close_free_cb
  BY <1>19 DEF close_free_cb
<1>20. ASSUME NEW p \in Procs, osi_open_database(p) PROVE ClosedInv'
  BY <1>20 DEF osi_open_database, CanCall
<1>21. ASSUME NEW p \in Procs, osi_close_database(p) PROVE ClosedInv'
  BY <1>21 DEF osi_close_database, CanCall, Submit, Free
<1>22. ASSUME NEW p \in Procs, osi_prepare_statement(p) PROVE ClosedInv'
  BY <1>22 DEF osi_prepare_statement, CanCall, Submit, Free
<1>23. ASSUME NEW p \in Procs, Kill(p) PROVE ClosedInv'
  BY <1>23 DEF Kill
<1>24. ASSUME NEW p \in Procs, NEW s \in Stmts, osi_step_statement(p, s) PROVE ClosedInv'
  BY <1>24 DEF osi_step_statement, CanCall, Submit, Free
<1>25. ASSUME NEW p \in Procs, NEW b \in Binds, osi_marshal_bindings(p, b) PROVE ClosedInv'
  BY <1>25 DEF osi_marshal_bindings, CanCall
<1>26. ASSUME NEW p \in Procs, NEW b \in Binds, execute_exit(p, b) PROVE ClosedInv'
  BY <1>26 DEF execute_exit, CanCall
<1>27. ASSUME NEW p \in Procs, NEW s \in Stmts, NEW b \in Binds, osi_bind_statement_bindings(p, s, b) PROVE ClosedInv'
  BY <1>27 DEF osi_bind_statement_bindings, CanCall
<1>28. ASSUME NEW p \in Procs, NEW s \in Stmts, NEW b \in Binds, osi_bulk_execute(p, s, b) PROVE ClosedInv'
  BY <1>28 DEF osi_bulk_execute, CanCall, Submit, Free
<1>29. ASSUME NEW s \in Stmts, osi_finalize_statement(s) PROVE ClosedInv'
  BY <1>29, LinkedIsLive DEF osi_finalize_statement, Unlinkable, ListInv
<1>30. ASSUME NEW b \in Binds, osi_unmarshal_bindings(b) PROVE ClosedInv'
  BY <1>30 DEF osi_unmarshal_bindings, KeptLive
<1>31. CASE UNCHANGED vars
  BY <1>31 DEF vars, dvars, wvars, svars
<1> QED
  BY <1>1, <1>2, <1>3, <1>4, <1>5, <1>6, <1>7, <1>8, <1>9, <1>10, <1>11, <1>12, <1>13, <1>14, <1>15, <1>16, <1>17, <1>18, <1>19, <1>20, <1>21, <1>22, <1>23, <1>24, <1>25, <1>26, <1>27, <1>28, <1>29, <1>30, <1>31 DEF Next, worker_step, loop_step

(* What was handed to the worker can neither be finalized nor unmarshalled   *)
(* while the database is busy.                                             *)
LEMMA ArgStep == Inv /\ [Next]_vars => ArgInv'
<1> SUFFICES ASSUME Inv, [Next]_vars PROVE ArgInv'
  OBVIOUS
<1> USE SqliteAssumption DEF Inv, TypeOK, Works, Handover, Lifetime, ArgInv, Usable, dvars, wvars, svars
<1>1. ASSUME UNCHANGED <<loop, busy, arg, data, held, stmt, holder>> PROVE ArgInv'
  BY <1>1
<1>2. CASE prepare_worker
  BY <1>2 DEF prepare_worker, Running, Push
<1>3. CASE close_worker
  BY <1>3 DEF close_worker, Running
<1>4. CASE StoreWork
  BY <1>4 DEF StoreWork, Caller
<1>5. CASE Signal
  BY <1>5 DEF Signal, Idle
<1>6. CASE close_cb
  BY <1>6 DEF close_cb, Complete, Idle
<1>7. CASE close_join
  BY <1>7 DEF close_join, Joined, Idle
<1>8. CASE prepare_cb
  BY <1>8 DEF prepare_cb, Complete
<1>9. CASE step_cb
  BY <1>9 DEF step_cb, Complete
<1>10. CASE bulk_cb
  BY <1>10 DEF bulk_cb, Complete
<1>11. CASE open_cb
  BY <1>11 DEF open_cb
<1>12. ASSUME NEW p \in Procs, osi_close_database(p) PROVE ArgInv'
  BY <1>12 DEF osi_close_database, CanCall, Submit, Free
<1>13. ASSUME NEW p \in Procs, osi_prepare_statement(p) PROVE ArgInv'
  BY <1>13 DEF osi_prepare_statement, CanCall, Submit, Free
<1>14. ASSUME NEW p \in Procs, Kill(p) PROVE ArgInv'
  BY <1>14 DEF Kill
<1>15. ASSUME NEW p \in Procs, NEW s \in Stmts, osi_step_statement(p, s) PROVE ArgInv'
  BY <1>15 DEF osi_step_statement, CanCall, Submit, Free
<1>16. ASSUME NEW p \in Procs, NEW b \in Binds, osi_marshal_bindings(p, b) PROVE ArgInv'
  BY <1>16 DEF osi_marshal_bindings, CanCall
<1>17. ASSUME NEW p \in Procs, NEW b \in Binds, execute_exit(p, b) PROVE ArgInv'
  BY <1>17 DEF execute_exit, CanCall
<1>18. ASSUME NEW p \in Procs, NEW s \in Stmts, NEW b \in Binds, osi_bulk_execute(p, s, b) PROVE ArgInv'
  BY <1>18 DEF osi_bulk_execute, CanCall, Submit, Free
<1>19. ASSUME NEW s \in Stmts, osi_finalize_statement(s) PROVE ArgInv'
  BY <1>19 DEF osi_finalize_statement, Unlinkable
<1>20. ASSUME NEW b \in Binds, osi_unmarshal_bindings(b) PROVE ArgInv'
  BY <1>20 DEF osi_unmarshal_bindings, KeptLive
<1> QED
  BY <1>1, <1>2, <1>3, <1>4, <1>5, <1>6, <1>7, <1>8, <1>9, <1>10, <1>11, <1>12, <1>13, <1>14, <1>15, <1>16, <1>17, <1>18, <1>19, <1>20 DEF Next, worker_step, loop_step, vars, dvars, wvars, svars,
    CanCall, Relock, Running, Spurious, bulk_worker, close_free_cb, osi_bind_statement_bindings, osi_open_database, step_worker, worker_done, worker_exit, worker_lock, worker_test, worker_wait

(* Whichever step of open_cb fails, all that was acquired is given back but  *)
(* what uv_close gives back later.                                         *)
LEMMA ResStep == Inv /\ [Next]_vars => ResInv'
<1> SUFFICES ASSUME Inv, [Next]_vars PROVE ResInv'
  OBVIOUS
<1> USE SqliteAssumption DEF Inv, TypeOK, Handover, Lifetime, ResInv
<1>1. ASSUME UNCHANGED <<res, life>> PROVE ResInv'
  BY <1>1
<1>2. CASE close_join
  BY <1>2 DEF close_join, Resources, Range
<1>3. CASE open_cb
  <2>1. CASE life' = "live" /\ res' = Range(Resources)
    BY <2>1
  <2>2. ASSUME NEW i \in 1..Len(Resources),
               res' = {Resources[j] : j \in 1..i-1} \ Released(i),
               life' = IF "async" \in res' THEN "closing" ELSE "none"
        PROVE  ResInv'
    <3>1. i \in 1..3 => res' = {}
      BY <2>2 DEF Resources, Released
    <3>2. i \in 4..6 => res' = {"d", "async"}
      <4>1. CASE i = 4
        <5>1. {Resources[j] : j \in 1..i-1} = {"sqlite", "d", "async"}
          BY <4>1 DEF Resources
        <5>2. Released(i) = {"sqlite"}
          BY <4>1 DEF Released
        <5> QED
          BY <2>2, <5>1, <5>2
      <4>2. CASE i = 5
        <5>1. {Resources[j] : j \in 1..i-1} = {"sqlite", "d", "async", "mutex"}
          BY <4>2 DEF Resources
        <5>2. Released(i) = {"sqlite", "mutex"}
          BY <4>2 DEF Released
        <5> QED
          BY <2>2, <5>1, <5>2
      <4>3. CASE i = 6
        <5>1. {Resources[j] : j \in 1..i-1} = {"sqlite", "d", "async", "mutex", "cond"}
          BY <4>3 DEF Resources
        <5>2. Released(i) = {"sqlite", "mutex", "cond"}
          BY <4>3 DEF Released
        <5> QED
          BY <2>2, <5>1, <5>2
      <4> QED
        BY <4>1, <4>2, <4>3
    <3>3. i \in 1..3 \cup 4..6
      BY DEF Resources
    <3> QED
      BY <2>2, <3>1, <3>2, <3>3
  <2> QED
    BY <1>3, <2>1, <2>2 DEF open_cb
<1>4. CASE close_free_cb
  BY <1>4 DEF close_free_cb
<1>5. ASSUME NEW p \in Procs, osi_open_database(p) PROVE ResInv'
  BY <1>5 DEF osi_open_database, CanCall
<1> QED
  BY <1>1, <1>2, <1>3, <1>4, <1>5 DEF Next, worker_step, loop_step, vars, dvars, wvars, svars,
    Caller, CanCall, Complete, Free, Idle, KeptLive, Kill, Push, Relock, Running, Signal, Spurious, StoreWork, Submit, Unlinkable, bulk_cb, bulk_worker, close_cb, close_worker, execute_exit, osi_bind_statement_bindings, osi_bulk_execute, osi_close_database, osi_finalize_statement, osi_marshal_bindings, osi_prepare_statement, osi_step_statement, osi_unmarshal_bindings, prepare_cb, prepare_worker, step_cb, step_worker, worker_done, worker_exit, worker_lock, worker_test, worker_wait

(* Before the first open there is no database. *)
LEMMA InitInv == Init => Inv
<1> SUFFICES ASSUME Init PROVE Inv
  OBVIOUS
<1> USE SqliteAssumption DEF Init, Idle
<1>1. TypeOK
  <2>1. busy \in BOOLEAN /\ sent \in BOOLEAN /\ handle \in BOOLEAN /\ rc \in BOOLEAN
    OBVIOUS
  <2> QED
    BY <2>1 DEF TypeOK
<1>2. MutexInv /\ Handover /\ Lifetime /\ WaitInv
  BY DEF MutexInv, Handover, Lifetime, WaitInv, Works
<1>3. ListInv /\ FreshInv /\ ClosedInv
  <2>1. Range(list) = {} /\ IsInjective(list)
    BY DEF Range, IsInjective
  <2> QED
    BY <2>1 DEF ListInv, FreshInv, ClosedInv, Answering
<1>4. ArgInv /\ ResInv
  BY DEF ArgInv, ResInv
<1> QED
  BY <1>1, <1>2, <1>3, <1>4 DEF Inv

(* Every step keeps the invariant. *)
LEMMA InvStep == Inv /\ [Next]_vars => Inv'
BY MutexStep, HandoverStep, LifetimeStep, WaitStep, TypeStep, ListStep, FreshStep,
   ClosedStep, ArgStep, ResStep DEF Inv

(* The invariant holds throughout. *)
LEMMA Invariance == Spec => []Inv
BY InitInv, InvStep, PTL DEF Spec

(* The answer that reaches a process is the result of the work it asked for:  *)
(* d->work, d->callback and async.data are never those of different calls,   *)
(* whoever was killed meanwhile.                                             *)
THEOREM AnswersAlwaysMatch == Spec => []AnswersMatch
<1>1. Inv => AnswersMatch
  <2> SUFFICES ASSUME Inv PROVE AnswersMatch
    OBVIOUS
  <2> USE SqliteAssumption DEF Inv, TypeOK, Handover, Lifetime, WaitInv, AnswersMatch
  <2> QED
    OBVIOUS
<1> QED
  BY <1>1, Invariance, PTL

(* prepare_cb hands out the statement that was prepared, nothing is linked    *)
(* that nobody will finalize, and the statement the worker steps without the *)
(* mutex is not finalized meanwhile.                                         *)
THEOREM StatementsAlwaysSafe == Spec => []StatementsSafe
<1>1. Inv => OwnStatement
  <2> SUFFICES ASSUME Inv PROVE OwnStatement
    OBVIOUS
  <2> DEFINE fresh == {s \in Range(list) : s \notin held}
  <2>1. Answering("prepare") => list[1] \in Range(list)
    BY DEF Inv, TypeOK, FreshInv, Range
  <2>2. fresh = IF Answering("prepare") THEN {list[1]} ELSE {}
    BY <2>1 DEF Inv, FreshInv
  <2>3. Answering("prepare") <=> (worker = "relock" \/ sent) /\ data = "prepare" /\ rc
    BY DEF Answering
  <2> QED
    BY <2>2, <2>3 DEF Inv, ListInv, OwnStatement
<1>2. Inv => SteppedIsLive
  BY DEF Inv, Handover, ArgInv, Usable, SteppedIsLive
<1> QED
  BY <1>1, <1>2, Invariance, PTL DEF StatementsSafe

(* When the database is gone the worker has ended, the mutex is free, no      *)
(* callback is on its way, and everything open_cb acquired is given back.    *)
THEOREM ClosedAlwaysQuiet == Spec => []ClosedIsQuiet
<1>1. Inv => ClosedIsQuiet
  BY DEF Inv, TypeOK, MutexInv, Handover, Lifetime, ResInv, ClosedIsQuiet
<1> QED
  BY <1>1, Invariance, PTL
=============================================================================
