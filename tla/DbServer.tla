------------------------------- MODULE DbServer -------------------------------
(***************************************************************************)
(* The database server (src/src/swish/db.ss): a gen-server that queues      *)
(* transactions and log entries and has them done, a transaction or a batch *)
(* of log entries at a time, by one worker process that it monitors.  When  *)
(* it ends, for whatever reason, it has the queue done first, as long as    *)
(* workers end normally and in time, and then closes the database.          *)
(* SQL is what is on the disk and what is in the transaction under way; the *)
(* statement cache is left out.  Logging joins this module with EventMgr.   *)
(***************************************************************************)
EXTENDS Naturals, Sequences, FiniteSets, SequencesExt

CONSTANTS
  Clients,       \* the processes that call db:transaction, once each
  CommitLimit,   \* commit-limit of db:options
  None

VARIABLES
  dbState,        \* where the server is: in its loop, in terminate, or gone
  dbInbox,        \* its messages
  dbQueue,        \* queue: log entries and transactions not yet given to a worker
  dbWorker,       \* worker: None or what it does and how far its process is
  commit_delay,   \* commit-delay is not zero
  log_timeout,    \* log-timeout is set
  txn,            \* what the open transaction of the database has done, or None
  disk,           \* what has been committed, in order
  answer,         \* what a client knows of its transaction
  fault           \* a worker has failed, or the server has lost patience with it

dbVars == <<dbState, dbInbox, dbQueue, dbWorker, commit_delay, log_timeout,
            txn, disk, answer, fault>>

LogMsg(e) == [type |-> "log", event |-> e]
TxnMsg(c) == [type |-> "transaction", client |-> c]
ExitMsg == [type |-> "EXIT"]
DownMsg(reason) == [type |-> "DOWN", reason |-> reason]
IsLog(entry) == entry.type = "log"
IsDown(msg) == msg.type = "DOWN"

(* What the queue holds, and a worker with the front of it. *)
Entries == [type : {"log"}, event : Nat] \cup [type : {"transaction"}, client : Clients]
DbMsgs == Entries \cup [type : {"EXIT"}]
          \cup [type : {"DOWN"}, reason : {"normal", "error", "killed"}]
Places == {"begin", "work", "commit", "rollback", "reply-ok", "reply-error", "gone"}
Workers == [work : Seq(Entries), at : Places]

ASSUME DbAssumption == CommitLimit \in Nat \ {0} /\ None \notin Workers

Terminating == {"flush", "stop-worker", "shutdown", "kill"}
DbAlive == dbState \in {"loop"} \cup Terminating
Send(msgs) == dbInbox' = IF DbAlive THEN dbInbox \o msgs ELSE dbInbox

(* Until it is asked to, the server has no work. *)
DbInit ==
  /\ dbState = "loop" /\ dbInbox = <<>> /\ dbQueue = <<>> /\ dbWorker = None
  /\ commit_delay \in BOOLEAN /\ log_timeout = FALSE
  /\ txn = None /\ disk = <<>>
  /\ answer = [c \in Clients |-> "none"] /\ fault = FALSE

-----------------------------------------------------------------------------
(* The queue *)

(* get-work and get-logs: one transaction, or the log entries up to the next  *)
(* transaction, commit-limit of them at most.                               *)
BatchSize(q) ==
  IF ~IsLog(Head(q)) THEN 1
  ELSE CHOOSE n \in 1..Len(q) :
         /\ n <= CommitLimit /\ \A i \in 1..n : IsLog(q[i])
         /\ n = CommitLimit \/ n = Len(q) \/ ~IsLog(q[n + 1])

Batched(q) == SubSeq(q, BatchSize(q) + 1, Len(q))

(* update: unless a worker is at work, spawn one for the front of the queue. *)
Update(q, w, timeout) ==
  IF w # None \/ q = <<>>
  THEN dbQueue' = q /\ dbWorker' = w /\ log_timeout' = timeout
  ELSE /\ dbWorker' = [work |-> SubSeq(q, 1, BatchSize(q)), at |-> "begin"]
       /\ dbQueue' = Batched(q)
       /\ log_timeout' = (timeout /\ Batched(q) # <<>>)

-----------------------------------------------------------------------------
(* The messages of the server *)

Takes(type) == dbState = "loop" /\ dbInbox # <<>> /\ Head(dbInbox).type = type
Taken == dbInbox' = Tail(dbInbox)

handle_transaction ==
  /\ Takes("transaction") /\ Taken
  /\ Update(Append(dbQueue, Head(dbInbox)), dbWorker, log_timeout)
  /\ UNCHANGED <<dbState, commit_delay, txn, disk, answer, fault>>

handle_log ==
  /\ Takes("log") /\ Taken
  /\ LET q == Append(dbQueue, Head(dbInbox))
     IN IF commit_delay
        THEN dbQueue' = q /\ log_timeout' = TRUE /\ UNCHANGED dbWorker
        ELSE Update(q, dbWorker, TRUE)
  /\ UNCHANGED <<dbState, commit_delay, txn, disk, answer, fault>>

(* No message has come until the time that get-timeout gave. *)
handle_timeout ==
  /\ dbState = "loop" /\ dbInbox = <<>> /\ log_timeout /\ dbWorker = None
  /\ Update(dbQueue, dbWorker, log_timeout)
  /\ UNCHANGED <<dbState, dbInbox, commit_delay, txn, disk, answer, fault>>

(* The worker is done, or has failed: then the server stops. *)
WorkerDownIdle ==
  /\ dbWorker' = None
  /\ UNCHANGED <<dbState, dbQueue, log_timeout>>
WorkerDown ==
  /\ Update(dbQueue, None, log_timeout)
  /\ dbState' = IF Head(dbInbox).reason = "normal" THEN "loop" ELSE "flush"
handle_down ==
  /\ Takes("DOWN") /\ Taken
  /\ WorkerDown
  /\ UNCHANGED <<commit_delay, txn, disk, answer, fault>>

(* The parent, the event manager or db:stop wants the server to end.  As     *)
(* after a failure, terminate calls update, and then flush.                  *)
handle_exit ==
  /\ Takes("EXIT") /\ Taken
  /\ Update(dbQueue, dbWorker, log_timeout)
  /\ dbState' = "flush"
  /\ UNCHANGED <<commit_delay, txn, disk, answer, fault>>

-----------------------------------------------------------------------------
(* terminate *)

(* The receive of flush and of stop-worker takes the DOWN message of the     *)
(* worker, wherever it is in the inbox.                                     *)
Downs == {i \in DOMAIN dbInbox : IsDown(dbInbox[i])}

(* sqlite:close, which rolls back; the clients see the end of the server.    *)
(* When the thread is busy for a worker that was killed, finalizing a cached *)
(* statement raises and skips sqlite:close: the finalizer process closes the *)
(* database later, but nobody is left who could commit in the meantime, so   *)
(* the roll-back is taken here too.                                          *)
Close ==
  /\ dbState' = "closed" /\ dbInbox' = <<>>
  /\ txn' = None
  /\ answer' = [c \in Clients |-> IF answer[c] = "calls" THEN "DOWN" ELSE answer[c]]
  /\ UNCHANGED <<dbQueue, dbWorker, commit_delay, log_timeout, disk, fault>>

flush_done ==
  /\ dbState = "flush" /\ dbWorker = None
  /\ Close

flush_next ==
  /\ dbState = "flush"
  /\ \E i \in Downs : dbInbox[i].reason = "normal" /\ dbInbox' = RemoveAt(dbInbox, i)
  /\ Update(dbQueue, None, log_timeout)
  /\ UNCHANGED <<dbState, commit_delay, txn, disk, answer, fault>>

(* A worker that fails in flush, and one that ends after its second was up,  *)
(* end the flush: what is in the queue is not done.                          *)
worker_down ==
  /\ \E i \in Downs : \/ dbState = "flush" /\ dbInbox[i].reason # "normal"
                     \/ dbState \in {"stop-worker", "shutdown", "kill"}
  /\ Close
(* Its second is up: the statement is interrupted, then the worker is told   *)
(* to end, and then it is killed; a worker that traps exits survives the     *)
(* first of these.  What its thread is committing may be committed.          *)
KillWorker ==
  /\ dbWorker' = [dbWorker EXCEPT !.at = "gone"]
  /\ dbInbox' = Append(dbInbox, DownMsg("killed"))
  /\ \/ UNCHANGED <<txn, disk>>
     \/ dbWorker.at = "commit" /\ disk' = disk \o txn /\ txn' = None

StopWorkerBriefly ==
  /\ \/ dbState = "flush" /\ dbState' = "stop-worker"
     \/ dbState = "stop-worker" /\ dbState' = "closed"
  /\ UNCHANGED <<dbWorker, dbInbox, txn, disk>>
StopWorker ==
  \/ /\ dbState = "flush" /\ dbState' = "stop-worker"
     /\ UNCHANGED <<dbWorker, dbInbox, txn, disk>>
  \/ /\ dbState = "stop-worker" /\ dbState' = "shutdown"
     /\ \/ KillWorker
        \/ ~IsLog(dbWorker.work[1]) /\ UNCHANGED <<dbWorker, dbInbox, txn, disk>>
  \/ /\ dbState = "shutdown" /\ dbState' = "kill"
     /\ KillWorker

stop_worker ==
  /\ dbWorker # None /\ Downs = {}
  /\ StopWorker
  /\ fault' = TRUE
  /\ UNCHANGED <<dbQueue, commit_delay, log_timeout, answer>>

(* The supervisor of the server has waited ten seconds, and kills it.  Its    *)
(* worker is not linked to it, and goes on.                                  *)
kill_server ==
  /\ dbState \in Terminating
  /\ dbState' = "killed" /\ dbInbox' = <<>> /\ fault' = TRUE
  /\ answer' = [c \in Clients |-> IF answer[c] = "calls" THEN "DOWN" ELSE answer[c]]
  /\ UNCHANGED <<dbQueue, dbWorker, commit_delay, log_timeout, txn, disk>>

-----------------------------------------------------------------------------
(* The worker: make-log-worker and make-transaction-worker.  A statement can  *)
(* fail, BEGIN, COMMIT and ROLLBACK after the last of their retries; that     *)
(* ends the worker and leaves the transaction open.                          *)

At(place) == dbWorker # None /\ dbWorker.at = place
Goes(place) ==
  /\ dbWorker' = [dbWorker EXCEPT !.at = place]
  /\ UNCHANGED <<dbInbox, fault>>
Exits(reason) ==
  /\ dbWorker' = [dbWorker EXCEPT !.at = "gone"]
  /\ Send(<<DownMsg(reason)>>)
  /\ fault' = (fault \/ reason # "normal")

(* A transaction within a transaction is an error. *)
BEGIN_IMMEDIATE ==
  /\ At("begin")
  /\ \/ txn = None /\ txn' = <<>> /\ Goes("work")
     \/ Exits("error") /\ UNCHANGED txn
  /\ UNCHANGED <<disk, answer>>

(* sqlite:bulk-execute stops at the first statement that fails. *)
bulk_execute ==
  /\ At("work") /\ IsLog(dbWorker.work[1])
  /\ \/ txn' = dbWorker.work /\ Goes("commit")
     \/ \E n \in 0..(Len(dbWorker.work) - 1) :
          txn' = SubSeq(dbWorker.work, 1, n) /\ Exits("error")
  /\ UNCHANGED <<disk, answer>>

(* The procedure of a transaction returns or raises. *)
call_f ==
  /\ At("work") /\ ~IsLog(dbWorker.work[1])
  /\ txn' = dbWorker.work
  /\ Goes("commit") \/ Goes("rollback")
  /\ UNCHANGED <<disk, answer>>

COMMIT ==
  /\ At("commit")
  /\ \/ /\ disk' = disk \o txn /\ txn' = None
        /\ IF IsLog(dbWorker.work[1]) THEN Exits("normal") ELSE Goes("reply-ok")
     \/ Exits("error") /\ UNCHANGED <<txn, disk>>
  /\ UNCHANGED answer

ROLLBACK ==
  /\ At("rollback")
  /\ \/ txn' = None /\ Goes("reply-error")
     \/ Exits("error") /\ UNCHANGED txn
  /\ UNCHANGED <<disk, answer>>

(* gen-server:reply; a client that has seen the server end ignores it.       *)
reply ==
  /\ At("reply-ok") \/ At("reply-error")
  /\ LET c == dbWorker.work[1].client
     IN answer' = [answer EXCEPT ![c] =
          IF @ # "calls" THEN @ ELSE IF At("reply-ok") THEN "ok" ELSE "error"]
  /\ Exits("normal")
  /\ UNCHANGED <<txn, disk>>

-----------------------------------------------------------------------------
(* db:transaction; a call to a server that is gone fails at once.            *)
transaction(c) ==
  /\ answer[c] = "none"
  /\ answer' = [answer EXCEPT ![c] = IF DbAlive THEN "calls" ELSE "DOWN"]
  /\ Send(<<TxnMsg(c)>>)
  /\ UNCHANGED <<dbState, dbQueue, dbWorker, commit_delay, log_timeout, txn, disk, fault>>

DbTypeOK ==
  /\ dbState \in {"loop", "closed", "killed"} \cup Terminating
  /\ dbInbox \in Seq(DbMsgs) /\ dbQueue \in Seq(Entries) /\ disk \in Seq(Entries)
  /\ dbWorker \in {None} \cup Workers /\ txn \in {None} \cup Seq(Entries)
  /\ dbWorker # None => dbWorker.work # <<>>
  /\ answer \in [Clients -> {"none", "calls", "ok", "error", "DOWN"}]
  /\ commit_delay \in BOOLEAN /\ log_timeout \in BOOLEAN /\ fault \in BOOLEAN

dbLoop == handle_transaction \/ handle_log \/ handle_timeout \/ handle_down \/ handle_exit
terminate == flush_done \/ flush_next \/ worker_down \/ stop_worker
dbWork ==
  /\ BEGIN_IMMEDIATE \/ bulk_execute \/ call_f \/ COMMIT \/ ROLLBACK \/ reply
  /\ UNCHANGED <<dbState, dbQueue, commit_delay, log_timeout>>
=============================================================================
