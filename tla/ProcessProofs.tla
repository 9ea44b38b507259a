---------------------------- MODULE ProcessProofs ----------------------------
(* Proofs about Process, for every number of processes, monitors and names. *)
EXTENDS Process, TLAPS

USE ProcessAssumption

(* Delivering a message keeps the inboxes sequences of messages. *)
LEMMA DeliverType ==
  ASSUME TypeOK, NEW q \in Pids, NEW msg \in Msgs
  PROVE  Deliver(inbox, q, msg) \in [Pids -> Seq(Msgs)]
BY DEF TypeOK, Deliver

(* A sequence without one of its elements is a sequence. *)
LEMMA RemoveAtType ==
  ASSUME NEW S, NEW s \in Seq(S), NEW i \in 1..Len(s)
  PROVE  RemoveAt(s, i) \in Seq(S)
<1>1. SubSeq(s, 1, i - 1) \in Seq(S)
  OBVIOUS
<1>2. SubSeq(s, i + 1, Len(s)) \in Seq(S)
  OBVIOUS
<1> QED
  BY <1>1, <1>2 DEF RemoveAt

(* The constants keep #f apart from the records that share a field with it. *)
LEMMA NoneIsNoRecord == None \notin MonRecords
BY DEF MonRecords

(* The beginning of @kill keeps the types. *)
LEMMA BeginKillType ==
  ASSUME TypeOK, NEW p \in Pids, NEW r \in Reasons,
         NEW callers \in Seq(Frames), BeginKill(p, r, callers)
  PROVE  TypeOK'
<1>1. CASE p \in SystemPids
  BY <1>1 DEF TypeOK, BeginKill
<1>2. CASE p \notin SystemPids
  <2>1. status' \in [Pids -> {"unborn", "alive", "dead"}]
    <3>1. status' = [status EXCEPT ![p] = "dead"]
      BY <1>2 DEF BeginKill
    <3> QED BY <3>1 DEF TypeOK
  <2>2. reason' \in [Pids -> Reasons \cup {None}]
    <3>1. reason' = [reason EXCEPT ![p] = r]
      BY <1>2, Zenon DEF BeginKill
    <3> QED BY <3>1 DEF TypeOK
  <2>3. inbox' \in [Pids -> Seq(Msgs)]
    <3>1. inbox' = [inbox EXCEPT ![p] = <<>>]
      BY <1>2, Zenon DEF BeginKill
    <3> QED BY <3>1 DEF TypeOK
  <2>4. links' \in [Pids -> SUBSET Pids]
    <3>1. links' = [q \in Pids |-> IF q = p THEN {} ELSE links[q] \ {p}]
      BY <1>2, Zenon DEF BeginKill, RemoveLinks
    <3> QED BY <3>1 DEF TypeOK
  <2>5. stack' \in Seq(Frames)
    <3>1. stack' = <<[proc |-> p, reason |-> r, linked |-> links[p],
                      todo |-> links[p]]>> \o callers
      BY <1>2, Zenon DEF BeginKill
    <3>2. [proc |-> p, reason |-> r, linked |-> links[p], todo |-> links[p]]
            \in Frames
      BY DEF TypeOK, Frames
    <3> QED BY <3>1, <3>2
  <2>6. trap' \in [Pids -> BOOLEAN]
    <3>1. trap' = [trap EXCEPT ![p] = FALSE]
      BY <1>2, Zenon DEF BeginKill
    <3> QED BY <3>1 DEF TypeOK
  <2>7. name' \in [Pids -> Names \cup {None}]
    <3>1. name' = [name EXCEPT ![p] = None]
      BY <1>2, Zenon DEF BeginKill
    <3> QED BY <3>1 DEF TypeOK
  <2>8. registrar' \in [Names -> Pids \cup {None}]
    <3>1. registrar' = [n \in Names |-> IF n = name[p] THEN None
                                                       ELSE registrar[n]]
      BY <1>2, Zenon DEF BeginKill, ForgetName
    <3> QED BY <3>1 DEF TypeOK
  <2>9. pend' \in [Pids -> Pending]
    <3>1. pend' = [pend EXCEPT ![p] = None]
      BY <1>2, Zenon DEF BeginKill
    <3> QED BY <3>1 DEF TypeOK, Pending
  <2>10. UNCHANGED <<monitors, mon, fate, downs, halted>>
    BY <1>2, Zenon DEF BeginKill
  <2>11. \A q \in Pids : status'[q] = "dead" <=> reason'[q] # None
    <3>1. /\ status' = [status EXCEPT ![p] = "dead"]
          /\ reason' = [reason EXCEPT ![p] = r]
      BY <1>2, Zenon DEF BeginKill
    <3> QED BY <3>1 DEF TypeOK
  <2> QED
    BY <2>1, <2>2, <2>3, <2>4, <2>5, <2>6, <2>7, <2>8, <2>9, <2>10, <2>11
    DEF TypeOK
<1> QED
  BY <1>1, <1>2

(* @kill-linked kills only processes that are alive. *)
LEMMA SignalKillsLive ==
  ASSUME NEW q \in Pids, NEW r, Signal(q, r) = "kill" PROVE Alive(q)
BY DEF Signal

(* Every action keeps the types. *)
LEMMA NextType == TypeOK /\ [Next]_pvars => TypeOK'
<1> SUFFICES ASSUME TypeOK, [Next]_pvars PROVE TypeOK'
  OBVIOUS
<1>1. CASE UNCHANGED pvars
  BY <1>1 DEF TypeOK, pvars
<1>2. ASSUME NEW q \in Pids, KillLinked(q) PROVE TypeOK'
  <2> DEFINE f == Head(stack)
             rest == <<[f EXCEPT !.todo = @ \ {q}]>> \o Tail(stack)
  <2>1. f \in Frames /\ Tail(stack) \in Seq(Frames)
    BY <1>2 DEF KillLinked, TypeOK
  <2>2. [f EXCEPT !.todo = @ \ {q}] \in Frames
    BY <2>1 DEF Frames
  <2>3. rest \in Seq(Frames)
    BY <2>1, <2>2
  <2>4. f.reason \in Reasons /\ f.proc \in Pids
    BY <2>1 DEF Frames
  <2>5. CASE BeginKill(q, f.reason, rest)
    <3> HIDE DEF f, rest
    <3> QED BY <2>3, <2>4, <2>5, BeginKillType
  <2>6. CASE ~BeginKill(q, f.reason, rest)
    <3>1. /\ stack' = rest
          /\ inbox' = IF Signal(q, f.reason) = "tell"
                      THEN Deliver(inbox, q, EXITmsg(f.proc, f.reason))
                      ELSE inbox
          /\ UNCHANGED <<status, reason, trap, name, registrar, links,
                         monitors, mon, fate, downs, pend, halted>>
      BY <1>2, <2>6, Zenon DEF KillLinked
    <3>2. EXITmsg(f.proc, f.reason) \in Msgs
      BY <2>4 DEF EXITmsg, Msgs
    <3>3. inbox' \in [Pids -> Seq(Msgs)]
      BY <3>1, <3>2, DeliverType DEF TypeOK
    <3> QED
      BY <3>1, <3>3, <2>3 DEF TypeOK
  <2> QED
    BY <2>5, <2>6
<1>3. ASSUME NEW m \in Mons, KillMonitor(m) PROVE TypeOK'
  <2>1. Head(stack) \in Frames
    BY <1>3 DEF KillMonitor, TypeOK
  <2>2. Head(stack).proc \in Pids /\ Head(stack).reason \in Reasons
    BY <2>1 DEF Frames
  <2>3. DOWNmsg(m, Head(stack).proc, Head(stack).reason) \in Msgs
    BY <2>2 DEF DOWNmsg, Msgs
  <2>4. mon[m] # None
    BY <1>3, <2>2 DEF KillMonitor, TypeOK
  <2>5. mon[m].origin \in Pids
    BY <2>4 DEF TypeOK, MonRecords
  <2>6. inbox' \in [Pids -> Seq(Msgs)] /\ downs' \in [Mons -> Nat]
    <3>1. CASE UNCHANGED <<inbox, downs>>
      BY <3>1 DEF TypeOK
    <3>2. CASE /\ inbox' = Deliver(inbox, mon[m].origin,
                     DOWNmsg(m, Head(stack).proc, Head(stack).reason))
               /\ downs' = [downs EXCEPT ![m] = IF Alive(mon[m].origin)
                                                THEN @ + 1 ELSE @]
      BY <3>2, <2>3, <2>5, DeliverType DEF TypeOK
    <3> QED BY <1>3, <3>1, <3>2 DEF KillMonitor
  <2>7. /\ monitors' = [q \in Pids |-> monitors[q] \ {m}]
        /\ UNCHANGED <<status, reason, trap, name, registrar, links, mon,
                       fate, pend, stack, halted>>
    BY <1>3 DEF KillMonitor, ForgetMonitor
  <2> QED
    BY <2>6, <2>7 DEF TypeOK
<1>4. CASE EndKill
  BY <1>4 DEF EndKill, TypeOK
<1>5. ASSUME NEW p \in Pids, NEW q \in Pids, spawn(p, q) PROVE TypeOK'
  BY <1>5 DEF spawn, TypeOK
<1>6. ASSUME NEW p \in Pids, NEW q \in Pids, spawnLink(p, q) PROVE TypeOK'
  BY <1>6 DEF spawnLink, AddLink, TypeOK
<1>7. ASSUME NEW p \in Pids, NEW q \in Pids, link(p, q) PROVE TypeOK'
  <2>1. CASE Alive(q)
    <3>1. /\ links' = AddLink(p, q)
          /\ UNCHANGED <<status, reason, inbox, trap, name, registrar,
                         monitors, mon, fate, downs, pend, stack, halted>>
      BY <1>7, <2>1, Zenon DEF link
    <3> QED BY <3>1 DEF AddLink, TypeOK
  <2>2. CASE ~Alive(q) /\ trap[p]
    <3>1. /\ inbox' = Deliver(inbox, p, EXITmsg(q, reason[q]))
          /\ UNCHANGED <<status, reason, trap, name, registrar, links,
                         monitors, mon, fate, downs, pend, stack, halted>>
      BY <1>7, <2>2, Zenon DEF link
    <3>2. reason[q] \in Reasons
      BY <1>7, <2>2 DEF link, Born, Alive, TypeOK
    <3>3. EXITmsg(q, reason[q]) \in Msgs
      BY <3>2 DEF EXITmsg, Msgs
    <3> QED BY <3>1, <3>3, DeliverType DEF TypeOK
  <2>3. CASE ~Alive(q) /\ ~trap[p] /\ reason[q] # "normal"
    <3>1. BeginKill(p, reason[q], <<>>)
      BY <1>7, <2>3, Zenon DEF link
    <3>2. reason[q] \in Reasons /\ <<>> \in Seq(Frames)
      BY <1>7, <2>3 DEF link, Born, Alive, TypeOK
    <3> QED BY <3>1, <3>2, BeginKillType
  <2>4. CASE ~Alive(q) /\ ~trap[p] /\ reason[q] = "normal"
    <3>1. UNCHANGED pvars
      BY <1>7, <2>4, Zenon DEF link
    <3> QED BY <1>1, <3>1
  <2> QED BY <2>1, <2>2, <2>3, <2>4
<1>8. ASSUME NEW p \in Pids, NEW q \in Pids, unlink(p, q) PROVE TypeOK'
  BY <1>8 DEF unlink, TypeOK
<1>9. ASSUME NEW p \in Pids, NEW q \in Pids, send(p, q) PROVE TypeOK'
  <2>1. UserMsg \in Msgs
    BY DEF Msgs
  <2> QED
    BY <1>9, <2>1, DeliverType DEF send, TypeOK
<1>10. ASSUME NEW p \in Pids, NEW r \in Reasons, finish(p, r) PROVE TypeOK'
  <2>1. <<>> \in Seq(Frames)
    OBVIOUS
  <2> QED BY <1>10, <2>1, BeginKillType DEF finish
<1>11. ASSUME NEW p \in Pids, NEW q \in Pids, NEW r \in Reasons, kill(p, q, r)
       PROVE  TypeOK'
  <2>0. <<>> \in Seq(Frames)
    OBVIOUS
  <2>1. CASE r = "kill"
    <3>1. BeginKill(q, "killed", <<>>)
      BY <1>11, <2>1, Zenon DEF kill
    <3>2. "killed" \in Reasons
      OBVIOUS
    <3> QED BY <2>0, <3>1, <3>2, BeginKillType
  <2>2. CASE r # "kill" /\ trap[q]
    <3>1. /\ inbox' = Deliver(inbox, q, EXITmsg(p, r))
          /\ UNCHANGED <<status, reason, trap, name, registrar, links,
                         monitors, mon, fate, downs, pend, stack, halted>>
      BY <1>11, <2>2, Zenon DEF kill
    <3>2. EXITmsg(p, r) \in Msgs
      BY DEF EXITmsg, Msgs
    <3> QED BY <3>1, <3>2, DeliverType DEF TypeOK
  <2>3. CASE r \notin {"kill", "normal"} /\ ~trap[q]
    <3>1. r # "kill" /\ ~(r # "kill" /\ trap[q])
      BY <2>3
    <3>2. BeginKill(q, r, <<>>)
      BY <1>11, <2>3, <3>1, Zenon DEF kill
    <3> QED BY <2>0, <3>2, BeginKillType
  <2>4. CASE r = "normal" /\ ~trap[q]
    <3>1. /\ r # "kill" /\ ~(r # "kill" /\ trap[q])
          /\ ~(r \notin {"kill", "normal"} /\ ~trap[q])
      BY <2>4
    <3>2. UNCHANGED pvars
      BY <1>11, <3>1, Zenon DEF kill
    <3> QED BY <1>1, <3>2
  <2> QED BY <2>1, <2>2, <2>3, <2>4
<1>12. ASSUME NEW p \in Pids, NEW q \in Pids, NEW m \in Mons, monitor(p, q, m)
       PROVE  TypeOK'
  <2>1. mon' \in [Mons -> MonRecords \cup {None}] /\ mon'[m] # None
        /\ \A k \in Mons : mon[k] # None => mon'[k] # None
    <3>1. [origin |-> p, target |-> q] \in MonRecords
      BY DEF MonRecords
    <3>2. [origin |-> p, target |-> q] # None
      BY <3>1, NoneIsNoRecord DEF MonRecords
    <3>3. mon' = [mon EXCEPT ![m] = [origin |-> p, target |-> q]]
      BY <1>12, Zenon DEF monitor
    <3> QED BY <3>1, <3>2, <3>3 DEF TypeOK
  <2>2. /\ UNCHANGED <<status, reason, trap, name, registrar, links, pend,
                      stack, halted>>
        /\ fate' = [fate EXCEPT ![m] = "watching"]
    BY <1>12, Zenon DEF monitor
  <2>4. CASE Alive(q)
    <3>1. /\ monitors' = [monitors EXCEPT ![p] = @ \cup {m},
                                          ![q] = @ \cup {m}]
          /\ UNCHANGED <<inbox, downs>>
      BY <1>12, <2>4, Zenon DEF monitor, AddMonitor
    <3>2. /\ monitors' \in [Pids -> SUBSET Mons]
          /\ \A t \in Pids : \A k \in monitors'[t] : mon'[k] # None
      BY <2>1, <3>1 DEF TypeOK
    <3> QED BY <2>1, <2>2, <3>1, <3>2 DEF TypeOK
  <2>3. CASE ~Alive(q)
    <3>1. reason[q] \in Reasons
      BY <1>12, <2>3 DEF monitor, Born, Alive, TypeOK
    <3>2. DOWNmsg(m, q, reason[q]) \in Msgs
      BY <3>1 DEF DOWNmsg, Msgs
    <3>3. inbox' \in [Pids -> Seq(Msgs)]
      BY <1>12, <2>3, <3>2, DeliverType DEF monitor
    <3>4. downs' = [downs EXCEPT ![m] = @ + 1] /\ UNCHANGED monitors
      BY <1>12, <2>3, Zenon DEF monitor
    <3> QED BY <2>1, <2>2, <3>3, <3>4 DEF TypeOK
  <2> QED BY <2>3, <2>4
<1>13. ASSUME NEW p \in Pids, NEW m \in Mons, demonitor(p, m) PROVE TypeOK'
  BY <1>13 DEF demonitor, RemoveMonitor, TypeOK, MonRecords
<1>14. ASSUME NEW p \in Pids, NEW m \in Mons, demonitorFlush(p, m) PROVE TypeOK'
  BY <1>14 DEF demonitorFlush, RemoveMonitor, TypeOK, MonRecords, Pending
<1>15. ASSUME NEW p \in Pids, Flush(p) PROVE TypeOK'
  <2>1. pend[p].mon \in Mons
    BY <1>15 DEF Flush, TypeOK, Pending
  <2>2. inbox' \in [Pids -> Seq(Msgs)]
    <3>1. CASE UNCHANGED inbox
      BY <3>1 DEF TypeOK
    <3>2. CASE \E i \in DownsOf(p, pend[p].mon) :
                 inbox' = [inbox EXCEPT ![p] = RemoveAt(@, i)]
      <4>1. PICK i \in DownsOf(p, pend[p].mon) :
              inbox' = [inbox EXCEPT ![p] = RemoveAt(@, i)]
        BY <3>2
      <4>2. i \in 1..Len(inbox[p]) /\ inbox[p] \in Seq(Msgs)
        BY <4>1 DEF DownsOf, TypeOK
      <4>3. RemoveAt(inbox[p], i) \in Seq(Msgs)
        BY <4>2, RemoveAtType
      <4> QED BY <4>1, <4>3 DEF TypeOK
    <3> QED BY <1>15, <3>1, <3>2 DEF Flush
  <2> QED BY <1>15, <2>1, <2>2 DEF Flush, TypeOK, Pending
<1>16. ASSUME NEW p \in Pids, NEW b \in BOOLEAN, processTrapExit(p, b)
       PROVE  TypeOK'
  BY <1>16 DEF processTrapExit, TypeOK
<1>17. ASSUME NEW p \in Pids, NEW n \in Names, whereis(p, n) PROVE TypeOK'
  BY <1>17 DEF whereis, TypeOK, Pending
<1>18. ASSUME NEW p \in Pids, NEW n \in Names, unregister(p, n) PROVE TypeOK'
  BY <1>18 DEF unregister, TypeOK
<1>19. ASSUME NEW p \in Pids, NEW n \in Names, NEW q \in Pids,
              register(p, n, q)
       PROVE  TypeOK'
  BY <1>19 DEF register, TypeOK
<1>20. ASSUME NEW p \in Pids, sendFound(p) PROVE TypeOK'
  <2>1. UserMsg \in Msgs
    BY DEF Msgs
  <2>2. pend[p].dest \in Pids
    BY <1>20 DEF sendFound, TypeOK, Pending
  <2>3. inbox' \in [Pids -> Seq(Msgs)]
    BY <1>20, <2>1, <2>2, DeliverType DEF sendFound
  <2> QED BY <1>20, <2>3 DEF sendFound, TypeOK, Pending
<1>21. ASSUME NEW p \in Pids, receive(p) PROVE TypeOK'
  BY <1>21, RemoveAtType DEF receive, TypeOK
<1> QED
  BY <1>1, <1>2, <1>3, <1>4, <1>5, <1>6, <1>7, <1>8, <1>9, <1>10, <1>11,
     <1>12, <1>13, <1>14, <1>15, <1>16, <1>17, <1>18, <1>19, <1>20, <1>21
  DEF Next, KillStep, UserStep

(* The types at first. *)
LEMMA InitType == Init => TypeOK
<1> SUFFICES ASSUME Init PROVE TypeOK
  OBVIOUS
<1>1. status \in [Pids -> {"unborn", "alive", "dead"}]
      /\ \A p \in Pids : status[p] # "dead"
  BY DEF Init
<1>2. stack \in Seq(Frames) /\ inbox \in [Pids -> Seq(Msgs)]
  BY DEF Init
<1> QED
  BY <1>1, <1>2 DEF Init, TypeOK, Pending

(* THEOREM: type correctness of the process layer (erlang.ss), whatever the *)
(* sequence of spawns, links, monitors, signals and deaths.                 *)
THEOREM TypeCorrect == Spec => []TypeOK
BY InitType, NextType, PTL DEF Spec

-----------------------------------------------------------------------------
(* What a step can do to the state that the invariants relate.              *)

(* callers are the activations on the stack. *)
Covers(callers) ==
  /\ Len(callers) = Len(stack)
  /\ \A i \in 1..Len(stack) : callers[i].proc = stack[i].proc

KillStarts ==
  \E p \in Pids \ SystemPids, r \in Reasons, callers \in Seq(Frames) :
    Alive(p) /\ Covers(callers) /\ BeginKill(p, r, callers)

StackMoves ==
  /\ stack' \in Seq(Frames)
  /\ Covers(stack')
  /\ UNCHANGED <<status, reason, name, registrar, links, monitors, mon, fate,
                 downs, pend>>

Quiet ==
  /\ UNCHANGED <<status, reason, name, registrar, links, monitors, mon, fate,
                 downs, stack>>
  /\ \A p \in Pids : \/ pend'[p] \in {pend[p], None}
                     \/ pend'[p].op = "send"

LinkStep ==
  \/ \E p, q \in Pids : spawn(p, q) \/ spawnLink(p, q) \/ unlink(p, q)
  \/ \E p, q \in Pids :
       /\ Alive(p) /\ Alive(q) /\ p # q
       /\ links' = AddLink(p, q)
       /\ UNCHANGED <<status, reason, name, registrar, monitors, mon, fate,
                      downs, pend, stack>>

NameStep ==
  \E p, q \in Pids, n \in Names : register(p, n, q) \/ unregister(p, n)

MonitorStep ==
  \/ \E m \in Mons : KillMonitor(m)
  \/ \E p, q \in Pids, m \in Mons : monitor(p, q, m)
  \/ \E p \in Pids, m \in Mons : demonitor(p, m) \/ demonitorFlush(p, m)
  \/ \E p \in Pids : Flush(p)

(* The outermost steps of a cascade cover the stack they start from. *)
LEMMA BeginKillCases ==
  ASSUME TypeOK, NEW p \in Pids, NEW r \in Reasons,
         NEW callers \in Seq(Frames), Covers(callers), Alive(p),
         BeginKill(p, r, callers)
  PROVE  KillStarts \/ StackMoves
<1>1. CASE p \in SystemPids
  <2>1. /\ stack' = callers
        /\ UNCHANGED <<status, reason, name, registrar, links, monitors, mon,
                       fate, downs, pend>>
    BY <1>1, Zenon DEF BeginKill
  <2>2. Covers(stack')
    BY <2>1 DEF Covers
  <2> QED BY <2>1, <2>2 DEF StackMoves
<1>2. CASE p \notin SystemPids
  BY <1>2 DEF KillStarts
<1> QED
  BY <1>1, <1>2

(* A visit of a linked process begins a kill or moves on. *)
LEMMA KillLinkedCases ==
  ASSUME TypeOK, NEW q \in Pids, KillLinked(q)
  PROVE  KillStarts \/ StackMoves
<1> DEFINE f == Head(stack)
           rest == <<[f EXCEPT !.todo = @ \ {q}]>> \o Tail(stack)
<1>1. stack # <<>> /\ f \in Frames /\ Tail(stack) \in Seq(Frames)
  BY DEF KillLinked, TypeOK
<1>2. [f EXCEPT !.todo = @ \ {q}] \in Frames
      /\ [f EXCEPT !.todo = @ \ {q}].proc = f.proc
  BY <1>1 DEF Frames
<1>3. rest \in Seq(Frames) /\ f.reason \in Reasons
  BY <1>1, <1>2 DEF Frames
<1>4. Covers(rest)
  <2>1. Len(rest) = Len(stack)
    BY <1>1, <1>2 DEF TypeOK
  <2>2. rest[1] = [f EXCEPT !.todo = @ \ {q}] /\ f = stack[1]
    BY <1>1, <1>2 DEF TypeOK
  <2>3. ASSUME NEW i \in 1..Len(stack), i # 1 PROVE rest[i] = stack[i]
    BY <2>3, <1>1, <1>2 DEF TypeOK
  <2> HIDE DEF rest
  <2> QED BY <1>2, <2>1, <2>2, <2>3 DEF Covers
<1>5. CASE Alive(q) /\ BeginKill(q, f.reason, rest)
  <2> HIDE DEF f, rest
  <2> QED BY <1>3, <1>4, <1>5, BeginKillCases
<1>6. CASE ~(Alive(q) /\ BeginKill(q, f.reason, rest))
  <2>1. /\ stack' = rest
        /\ UNCHANGED <<status, reason, trap, name, registrar, links,
                       monitors, mon, fate, downs, pend, halted>>
    BY <1>6, SignalKillsLive, Zenon DEF KillLinked
  <2> HIDE DEF rest
  <2>2. Covers(stack')
    BY <1>4, <2>1 DEF Covers
  <2> QED BY <1>3, <2>1, <2>2 DEF StackMoves
<1> QED
  BY <1>5, <1>6

(* Every step is one of these. *)
LEMMA StepCases ==
  ASSUME TypeOK, [Next]_pvars
  PROVE  \/ KillStarts \/ StackMoves \/ Quiet \/ LinkStep \/ NameStep
         \/ MonitorStep \/ EndKill
<1>0. <<>> \in Seq(Frames) /\ (stack = <<>> => Covers(<<>>))
  BY DEF Covers
<1>1. CASE UNCHANGED pvars
  BY <1>1, Zenon DEF Quiet, pvars
<1>2. ASSUME NEW q \in Pids, KillLinked(q) PROVE KillStarts \/ StackMoves
  BY <1>2, KillLinkedCases
<1>3. ASSUME NEW p \in Pids, NEW q \in Pids, link(p, q)
      PROVE  KillStarts \/ StackMoves \/ Quiet \/ LinkStep
  <2>1. CASE Alive(q)
    BY <1>3, <2>1, Zenon DEF link, LinkStep, Running
  <2>2. CASE ~Alive(q) /\ trap[p]
    BY <1>3, <2>2, Zenon DEF link, Quiet
  <2>3. CASE ~Alive(q) /\ ~trap[p] /\ reason[q] # "normal"
    <3>1. BeginKill(p, reason[q], <<>>) /\ Alive(p) /\ stack = <<>>
      BY <1>3, <2>3, Zenon DEF link, Running
    <3>2. reason[q] \in Reasons
      BY <1>3, <2>3 DEF link, Born, Alive, TypeOK
    <3> QED BY <1>0, <3>1, <3>2, BeginKillCases
  <2>4. CASE ~Alive(q) /\ ~trap[p] /\ reason[q] = "normal"
    BY <1>1, <1>3, <2>4, Zenon DEF link, Quiet, pvars
  <2> QED BY <2>1, <2>2, <2>3, <2>4
<1>4. ASSUME NEW p \in Pids, NEW r \in Reasons, finish(p, r)
      PROVE  KillStarts \/ StackMoves
  BY <1>0, <1>4, BeginKillCases DEF finish, Running
<1>5. ASSUME NEW p \in Pids, NEW q \in Pids, NEW r \in Reasons, kill(p, q, r)
      PROVE  KillStarts \/ StackMoves \/ Quiet
  <2>0. stack = <<>> /\ Alive(q)
    BY <1>5, Zenon DEF kill, Running
  <2>1. CASE r = "kill"
    <3>1. BeginKill(q, "killed", <<>>)
      BY <1>5, <2>1, Zenon DEF kill
    <3>2. "killed" \in Reasons
      OBVIOUS
    <3> QED BY <1>0, <2>0, <3>1, <3>2, BeginKillCases
  <2>2. CASE r # "kill" /\ trap[q]
    BY <1>5, <2>2, Zenon DEF kill, Quiet
  <2>3. CASE r \notin {"kill", "normal"} /\ ~trap[q]
    <3>1. r # "kill" /\ ~(r # "kill" /\ trap[q])
      BY <2>3
    <3>2. BeginKill(q, r, <<>>)
      BY <1>5, <2>3, <3>1, Zenon DEF kill
    <3> QED BY <1>0, <2>0, <3>2, BeginKillCases
  <2>4. CASE r = "normal" /\ ~trap[q]
    <3>1. /\ r # "kill" /\ ~(r # "kill" /\ trap[q])
          /\ ~(r \notin {"kill", "normal"} /\ ~trap[q])
      BY <2>4
    <3>2. UNCHANGED pvars
      BY <1>5, <3>1, Zenon DEF kill
    <3> QED BY <3>2, Zenon DEF Quiet, pvars
  <2> QED BY <2>1, <2>2, <2>3, <2>4
<1>6. ASSUME NEW p \in Pids, NEW q \in Pids,
             spawn(p, q) \/ spawnLink(p, q) \/ unlink(p, q)
      PROVE  LinkStep
  BY <1>6, Zenon DEF LinkStep
<1>7. ASSUME NEW p \in Pids, NEW q \in Pids, send(p, q) PROVE Quiet
  BY <1>7, Zenon DEF send, Quiet
<1>8. CASE MonitorStep
  BY <1>8
<1>9. ASSUME NEW p \in Pids, NEW b \in BOOLEAN, processTrapExit(p, b)
      PROVE  Quiet
  BY <1>9, Zenon DEF processTrapExit, Quiet
<1>10. ASSUME NEW p \in Pids, NEW n \in Names, whereis(p, n) PROVE Quiet
  <2>1. \A q \in Pids : pend'[q] = pend[q] \/ pend'[q].op = "send"
    BY <1>10 DEF whereis, TypeOK
  <2> QED BY <1>10, <2>1, Zenon DEF whereis, Quiet
<1>11. ASSUME NEW p \in Pids, NEW n \in Names, NEW q \in Pids,
              unregister(p, n) \/ register(p, n, q)
       PROVE  NameStep
  BY <1>11, Zenon DEF NameStep
<1>12. ASSUME NEW p \in Pids, sendFound(p) PROVE Quiet
  <2>1. \A q \in Pids : pend'[q] = pend[q] \/ pend'[q] = None
    BY <1>12 DEF sendFound, TypeOK
  <2> QED BY <1>12, <2>1, Zenon DEF sendFound, Quiet
<1>13. ASSUME NEW p \in Pids, receive(p) PROVE Quiet
  BY <1>13, Zenon DEF receive, Quiet
<1> QED
  BY <1>1, <1>2, <1>3, <1>4, <1>5, <1>6, <1>7, <1>8, <1>9, <1>10, <1>11,
     <1>12, <1>13
  DEF Next, KillStep, UserStep, MonitorStep

-----------------------------------------------------------------------------
(* Links *)

(* A kill that begins removes the links of its process on both sides. *)
LEMMA KillLinksEffect ==
  ASSUME KillStarts
  PROVE  \E p \in Pids :
           /\ Alive(p)
           /\ status' = [status EXCEPT ![p] = "dead"]
           /\ links' = [q \in Pids |-> IF q = p THEN {} ELSE links[q] \ {p}]
<1>1. PICK p \in Pids \ SystemPids, r \in Reasons, callers \in Seq(Frames) :
        Alive(p) /\ Covers(callers) /\ BeginKill(p, r, callers)
  BY DEF KillStarts
<1>2. /\ status' = [status EXCEPT ![p] = "dead"]
      /\ links' = [q \in Pids |-> IF q = p THEN {} ELSE links[q] \ {p}]
  BY <1>1, Zenon DEF BeginKill, RemoveLinks
<1> QED
  BY <1>1, <1>2

(* Every step keeps links consistent. *)
LEMMA LinksStep ==
  ASSUME TypeOK, LinksConsistent, [Next]_pvars
  PROVE  LinksConsistent'
<1>1. CASE KillStarts
  <2>1. PICK p \in Pids :
           /\ Alive(p)
           /\ status' = [status EXCEPT ![p] = "dead"]
           /\ links' = [q \in Pids |-> IF q = p THEN {} ELSE links[q] \ {p}]
    BY <1>1, KillLinksEffect
  <2> QED
    BY <2>1 DEF LinksConsistent, Alive, TypeOK
<1>2. CASE UNCHANGED <<status, links>>
  BY <1>2 DEF LinksConsistent, Alive
<1>3. CASE LinkStep
  <2>1. ASSUME NEW p \in Pids, NEW q \in Pids, spawn(p, q)
        PROVE  LinksConsistent'
    BY <2>1 DEF spawn, LinksConsistent, Alive, TypeOK
  <2>2. ASSUME NEW p \in Pids, NEW q \in Pids, spawnLink(p, q)
        PROVE  LinksConsistent'
    <3>1. p # q
      BY <2>2 DEF spawnLink, Running, Alive
    <3> QED
      BY <2>2, <3>1
      DEF spawnLink, AddLink, Running, LinksConsistent, Alive, TypeOK
  <2>3. ASSUME NEW p \in Pids, NEW q \in Pids, unlink(p, q)
        PROVE  LinksConsistent'
    BY <2>3 DEF unlink, LinksConsistent, Alive, TypeOK
  <2>4. ASSUME NEW p \in Pids, NEW q \in Pids, Alive(p), Alive(q), p # q,
               links' = AddLink(p, q), UNCHANGED status
        PROVE  LinksConsistent'
    BY <2>4 DEF AddLink, LinksConsistent, Alive, TypeOK
  <2> QED
    BY <1>3, <2>1, <2>2, <2>3, <2>4 DEF LinkStep
<1>4. StackMoves \/ Quiet \/ NameStep \/ MonitorStep \/ EndKill
        => UNCHANGED <<status, links>>
  BY DEF StackMoves, Quiet, NameStep, MonitorStep, EndKill, register,
         unregister, KillMonitor, monitor, demonitor, demonitorFlush, Flush
<1> QED
  BY <1>1, <1>2, <1>3, <1>4, StepCases

(* THEOREM: links are symmetric and join live processes only, also between  *)
(* the steps of a kill cascade (@kill, @link, unlink, spawn&link).          *)
THEOREM LinksAreConsistent == Spec => []LinksConsistent
<1>1. Init => LinksConsistent
  BY DEF Init, LinksConsistent
<1>2. TypeOK /\ LinksConsistent /\ [Next]_pvars => LinksConsistent'
  BY LinksStep
<1> QED
  BY <1>1, <1>2, TypeCorrect, PTL DEF Spec

-----------------------------------------------------------------------------
(* The registrar *)

(* Every step keeps the registrar consistent. *)
LEMMA RegistrarStep ==
  ASSUME TypeOK, RegistrarConsistent, [Next]_pvars
  PROVE  RegistrarConsistent'
<1>1. CASE KillStarts
  <2>1. PICK p \in Pids \ SystemPids, r \in Reasons, callers \in Seq(Frames) :
          Alive(p) /\ Covers(callers) /\ BeginKill(p, r, callers)
    BY <1>1 DEF KillStarts
  <2>2. /\ status' = [status EXCEPT ![p] = "dead"]
        /\ name' = [name EXCEPT ![p] = None]
        /\ registrar' = [n \in Names |-> IF n = name[p] THEN None
                                                        ELSE registrar[n]]
    BY <2>1, Zenon DEF BeginKill, ForgetName
  <2> QED
    BY <2>2 DEF RegistrarConsistent, Alive, TypeOK
<1>2. CASE UNCHANGED <<status, name, registrar>>
  BY <1>2 DEF RegistrarConsistent, Alive
<1>3. ASSUME NEW p \in Pids, NEW q \in Pids, spawn(p, q) \/ spawnLink(p, q)
      PROVE  RegistrarConsistent'
  BY <1>3 DEF spawn, spawnLink, RegistrarConsistent, Alive, TypeOK
<1>4. ASSUME NEW p \in Pids, NEW q \in Pids, NEW n \in Names,
             register(p, n, q)
      PROVE  RegistrarConsistent'
  BY <1>4 DEF register, RegistrarConsistent, Alive, TypeOK
<1>5. ASSUME NEW p \in Pids, NEW n \in Names, unregister(p, n)
      PROVE  RegistrarConsistent'
  BY <1>5 DEF unregister, RegistrarConsistent, Alive, TypeOK
<1>6. StackMoves \/ Quiet \/ MonitorStep \/ EndKill
        => UNCHANGED <<status, name, registrar>>
  BY DEF StackMoves, Quiet, MonitorStep, EndKill,
         KillMonitor, monitor, demonitor, demonitorFlush, Flush
<1>7. LinkStep =>
        \/ UNCHANGED <<status, name, registrar>>
        \/ \E p, q \in Pids : spawn(p, q) \/ spawnLink(p, q)
  BY DEF LinkStep, unlink
<1> QED
  BY <1>1, <1>2, <1>3, <1>4, <1>5, <1>6, <1>7, StepCases DEF NameStep

(* THEOREM: whereis only ever returns live processes: the registrar and the *)
(* pcb-name fields stay inverses (register, unregister, @kill).             *)
THEOREM RegistrarIsConsistent == Spec => []RegistrarConsistent
<1>1. Init => RegistrarConsistent
  BY DEF Init, RegistrarConsistent
<1>2. TypeOK /\ RegistrarConsistent /\ [Next]_pvars => RegistrarConsistent'
  BY RegistrarStep
<1> QED
  BY <1>1, <1>2, TypeCorrect, PTL DEF Spec

-----------------------------------------------------------------------------
(* Monitors *)

(* Every step keeps monitors consistent. *)
LEMMA MonitorsStep ==
  ASSUME TypeOK, MonitorsConsistent, [Next]_pvars
  PROVE  MonitorsConsistent'
<1> DEFINE Sides(p, m) ==
             m \in monitors[p] =>
               /\ mon[m] # None
               /\ p \in {mon[m].origin, mon[m].target}
               /\ m \in monitors[mon[m].origin]
               /\ m \in monitors[mon[m].target]
           Kept(p) ==
             monitors[p] # {} =>
               Alive(p) \/ \E i \in 1..Len(stack) : stack[i].proc = p
<1>0. /\ \A p \in Pids, m \in Mons : Sides(p, m)
      /\ \A p \in Pids : Kept(p)
  BY Zenon DEF MonitorsConsistent
<1>Q. SUFFICES /\ \A p \in Pids, m \in Mons : Sides(p, m)'
               /\ \A p \in Pids : Kept(p)'
  BY Zenon DEF MonitorsConsistent
<1>1. CASE KillStarts
  <2>1. PICK p \in Pids \ SystemPids, r \in Reasons, callers \in Seq(Frames) :
          Alive(p) /\ Covers(callers) /\ BeginKill(p, r, callers)
    BY <1>1 DEF KillStarts
  <2> DEFINE f == [proc |-> p, reason |-> r,
                   linked |-> links[p], todo |-> links[p]]
  <2>2. /\ status' = [status EXCEPT ![p] = "dead"]
        /\ stack' = <<f>> \o callers
        /\ UNCHANGED <<monitors, mon>>
    BY <2>1, Zenon DEF BeginKill
  <2>3. f \in Frames /\ f.proc = p
    BY DEF Frames, TypeOK
  <2> HIDE DEF f
  <2>4. /\ Len(stack') = Len(callers) + 1
        /\ stack'[1] = f
        /\ \A j \in 1..Len(callers) : stack'[j + 1] = callers[j]
    BY <2>1, <2>2, <2>3
  <2>5. ASSUME NEW q \in Pids PROVE Kept(q)'
    <3>1. CASE q = p
      <4>1. 1 \in 1..Len(stack')
        BY <2>1, <2>4
      <4> QED BY <2>3, <2>4, <3>1, <4>1
    <3>2. CASE q # p /\ monitors[q] # {} /\ ~Alive(q)
      <4>1. PICK i \in 1..Len(stack) : stack[i].proc = q
        BY <1>0, <3>2
      <4>2. i \in 1..Len(callers) /\ callers[i].proc = stack[i].proc
        BY <2>1 DEF Covers
      <4>3. i + 1 \in 1..Len(stack')
        BY <2>1, <2>4, <4>2
      <4> QED BY <2>4, <4>1, <4>2, <4>3
    <3>3. CASE q # p /\ (monitors[q] = {} \/ Alive(q))
      BY <2>2, <3>3 DEF Alive, TypeOK
    <3> QED BY <3>1, <3>2, <3>3
  <2>6. \A q \in Pids, m \in Mons : Sides(q, m)'
    BY <1>0, <2>2
  <2> QED BY <2>5, <2>6
<1>2. CASE StackMoves
  <2>1. UNCHANGED <<monitors, mon, status>> /\ Covers(stack')
    BY <1>2 DEF StackMoves
  <2>2. ASSUME NEW q \in Pids PROVE Kept(q)'
    BY <1>0, <2>1 DEF Covers, Alive
  <2> QED BY <1>0, <2>1, <2>2
<1>3. CASE EndKill
  <2>0. /\ stack # <<>>
        /\ monitors[Head(stack).proc] = {}
        /\ stack' = Tail(stack)
        /\ UNCHANGED <<monitors, mon, status>>
    BY <1>3, Zenon DEF EndKill
  <2>1. /\ stack # <<>>
        /\ monitors[stack[1].proc] = {}
        /\ stack' = Tail(stack)
        /\ UNCHANGED <<monitors, mon, status>>
    <3>1. Head(stack) = stack[1]
      BY DEF TypeOK
    <3> QED BY <2>0, <3>1
  <2>2. ASSUME NEW q \in Pids, monitors[q] # {}, ~Alive(q)
        PROVE  \E i \in 1..Len(stack') : stack'[i].proc = q
    <3>1. PICK i \in 1..Len(stack) : stack[i].proc = q
      BY <1>0, <2>2
    <3>2. i # 1
      BY <2>1, <2>2, <3>1
    <3>3. i - 1 \in 1..Len(stack') /\ stack'[i - 1] = stack[i]
      BY <2>1, <3>2 DEF TypeOK
    <3> QED BY <3>1, <3>3
  <2>3. \A q \in Pids : Kept(q)'
    BY <2>1, <2>2 DEF Alive
  <2> QED BY <1>0, <2>1, <2>3
<1>4. CASE UNCHANGED <<monitors, mon, stack>>
           /\ \A q \in Pids : Alive(q) => Alive(q)'
  BY <1>0, <1>4
<1>5. ASSUME NEW m \in Mons, KillMonitor(m)
      PROVE  /\ \A p \in Pids, k \in Mons : Sides(p, k)'
             /\ \A p \in Pids : Kept(p)'
  <2>1. /\ monitors' = [q \in Pids |-> monitors[q] \ {m}]
        /\ UNCHANGED <<mon, status, stack>>
    BY <1>5, Zenon DEF KillMonitor, ForgetMonitor
  <2>2. ASSUME NEW p \in Pids, NEW k \in Mons PROVE Sides(p, k)'
    BY <1>0, <2>1 DEF TypeOK, MonRecords
  <2>3. ASSUME NEW p \in Pids PROVE Kept(p)'
    BY <1>0, <2>1 DEF Alive
  <2> QED BY <2>2, <2>3
<1>6. ASSUME NEW p \in Pids, NEW q \in Pids, NEW m \in Mons, monitor(p, q, m)
      PROVE  /\ \A t \in Pids, k \in Mons : Sides(t, k)'
             /\ \A t \in Pids : Kept(t)'
  <2>1. /\ mon' = [mon EXCEPT ![m] = [origin |-> p, target |-> q]]
        /\ mon[m] = None /\ Alive(p)
        /\ UNCHANGED <<status, stack>>
    BY <1>6, Zenon DEF monitor, Running
  <2>2. \A t \in Pids : m \notin monitors[t]
    BY <2>1 DEF TypeOK
  <2>3. [origin |-> p, target |-> q] # None
    BY NoneIsNoRecord DEF MonRecords
  <2>4. CASE Alive(q)
    <3>0. monitors' = [monitors EXCEPT ![p] = @ \cup {m}, ![q] = @ \cup {m}]
      BY <1>6, <2>4, Zenon DEF monitor, AddMonitor
    <3>1. \A t \in Pids, k \in Mons :
            k \in monitors'[t] <=> k \in monitors[t] \/ (k = m /\ t \in {p, q})
      BY <3>0 DEF TypeOK
    <3>2. ASSUME NEW t \in Pids, NEW k \in Mons PROVE Sides(t, k)'
      <4>1. CASE k = m
        <5>1. mon'[m] = [origin |-> p, target |-> q]
          BY <2>1 DEF TypeOK
        <5>2. mon'[m].origin = p /\ mon'[m].target = q /\ mon'[m] # None
          BY <2>3, <5>1
        <5>3. m \in monitors'[t] => t \in {p, q}
          BY <2>2, <3>1
        <5>4. m \in monitors'[p] /\ m \in monitors'[q]
          BY <3>1
        <5> QED BY <4>1, <5>2, <5>3, <5>4
      <4>2. CASE k # m
        <5>0. mon'[k] = mon[k]
          BY <2>1, <4>2 DEF TypeOK
        <5>1. \A u \in Pids : k \in monitors'[u] <=> k \in monitors[u]
          BY <3>1, <4>2
        <5>2. mon[k] # None => mon[k].origin \in Pids /\ mon[k].target \in Pids
          BY DEF TypeOK, MonRecords
        <5> QED BY <1>0, <5>0, <5>1, <5>2
      <4> QED BY <4>1, <4>2
    <3>3. ASSUME NEW t \in Pids PROVE Kept(t)'
      <4>1. t \notin {p, q} => monitors'[t] = monitors[t]
        BY <3>0 DEF TypeOK
      <4>2. t \in {p, q} => Alive(t)'
        BY <2>1, <2>4 DEF Alive
      <4> QED BY <1>0, <2>1, <4>1, <4>2, Zenon DEF Alive
    <3> QED BY <3>2, <3>3
  <2>5. CASE ~Alive(q)
    <3>1. UNCHANGED monitors
      BY <1>6, <2>5, Zenon DEF monitor
    <3>2. ASSUME NEW t \in Pids, NEW k \in Mons PROVE Sides(t, k)'
      BY <1>0, <2>1, <2>2, <3>1 DEF TypeOK
    <3> QED BY <1>0, <2>1, <3>1, <3>2 DEF Alive
  <2> QED BY <2>4, <2>5
<1>7. ASSUME NEW p \in Pids, NEW m \in Mons,
             demonitor(p, m) \/ demonitorFlush(p, m)
      PROVE  /\ \A t \in Pids, k \in Mons : Sides(t, k)'
             /\ \A t \in Pids : Kept(t)'
  <2>1. /\ monitors' = [monitors EXCEPT ![p] = @ \ {m},
                                        ![mon[m].target] = @ \ {m}]
        /\ mon[m] # None /\ mon[m].origin = p
        /\ UNCHANGED <<mon, status, stack>>
    BY <1>7, Zenon DEF demonitor, demonitorFlush, RemoveMonitor
  <2>2. mon[m].target \in Pids
    BY <2>1 DEF TypeOK, MonRecords
  <2>5. /\ \A t \in Pids, k \in Mons :
             k \in monitors'[t] <=> /\ k \in monitors[t]
                                    /\ ~(k = m /\ t \in {p, mon[m].target})
        /\ \A t \in Pids : monitors'[t] \subseteq monitors[t]
    BY <2>1, <2>2 DEF TypeOK
  <2>6. \A k \in Mons : mon[k] # None =>
          mon[k].origin \in Pids /\ mon[k].target \in Pids
    BY DEF TypeOK, MonRecords
  <2>3. ASSUME NEW t \in Pids, NEW k \in Mons PROVE Sides(t, k)'
    <3>1. mon'[k] = mon[k]
      BY <2>1
    <3>2. ASSUME k \in monitors'[t]
          PROVE  /\ mon[k] # None /\ t \in {mon[k].origin, mon[k].target}
                 /\ k \in monitors'[mon[k].origin]
                 /\ k \in monitors'[mon[k].target]
      <4>1. k \in monitors[t] /\ ~(k = m /\ t \in {p, mon[m].target})
        BY <2>5, <3>2
      <4>2. /\ mon[k] # None /\ t \in {mon[k].origin, mon[k].target}
            /\ k \in monitors[mon[k].origin] /\ k \in monitors[mon[k].target]
        BY <1>0, <4>1
      <4>3. k # m
        BY <2>1, <4>1, <4>2
      <4> QED BY <2>5, <2>6, <4>2, <4>3
    <3> QED BY <3>1, <3>2
  <2>4. ASSUME NEW t \in Pids PROVE Kept(t)'
    <3>1. monitors'[t] # {} => monitors[t] # {}
      BY <2>5
    <3> QED BY <1>0, <2>1, <3>1, Zenon DEF Alive
  <2> QED BY <2>3, <2>4
<1>8. Quiet \/ NameStep \/ LinkStep \/ (\E p \in Pids : Flush(p)) =>
        /\ UNCHANGED <<monitors, mon, stack>>
        /\ \A q \in Pids : Alive(q) => Alive(q)'
  <2>1. Quiet \/ NameStep \/ (\E p \in Pids : Flush(p)) =>
          UNCHANGED <<monitors, mon, stack, status>>
    BY DEF Quiet, NameStep, Flush, register, unregister
  <2>2. LinkStep => UNCHANGED <<monitors, mon, stack>>
    BY DEF LinkStep, spawn, spawnLink, unlink
  <2>3. LinkStep => \/ UNCHANGED status
                    \/ \E q \in Pids : status' = [status EXCEPT ![q] = "alive"]
    BY DEF LinkStep, spawn, spawnLink, unlink
  <2> QED BY <2>1, <2>2, <2>3 DEF Alive, TypeOK
<1> QED
  BY <1>1, <1>2, <1>3, <1>4, <1>5, <1>6, <1>7, <1>8, StepCases, Zenon
  DEF MonitorStep

(* THEOREM: a monitor is on the lists of both its processes or of neither,  *)
(* and a process whose @kill has returned keeps none.                       *)
THEOREM MonitorsAreConsistent == Spec => []MonitorsConsistent
<1>1. Init => MonitorsConsistent
  BY DEF Init, MonitorsConsistent
<1>2. TypeOK /\ MonitorsConsistent /\ [Next]_pvars => MonitorsConsistent'
  BY MonitorsStep
<1> QED
  BY <1>1, <1>2, TypeCorrect, PTL DEF Spec

-----------------------------------------------------------------------------
(* Death *)

(* No step revives a process, changes its reason or kills it again. *)
LEMMA DeadStaysDead ==
  ASSUME TypeOK, [Next]_pvars
  PROVE  \A p \in Pids : status[p] = "dead" => KilledOnce(p)
<1>1. CASE KillStarts
  <2>1. PICK p \in Pids \ SystemPids, r \in Reasons, callers \in Seq(Frames) :
          Alive(p) /\ Covers(callers) /\ BeginKill(p, r, callers)
    BY <1>1 DEF KillStarts
  <2>2. /\ status' = [status EXCEPT ![p] = "dead"]
        /\ reason' = [reason EXCEPT ![p] = r]
        /\ stack' = <<[proc |-> p, reason |-> r,
                       linked |-> links[p], todo |-> links[p]]>> \o callers
    BY <2>1, Zenon DEF BeginKill
  <2>3. Head(stack').proc = p
    BY <2>2
  <2> QED BY <2>1, <2>2, <2>3 DEF Alive, TypeOK, KilledOnce
<1>2. CASE LinkStep
  <2>1. UNCHANGED <<reason, stack>>
    BY <1>2 DEF LinkStep, spawn, spawnLink, unlink
  <2>2. \/ UNCHANGED status
        \/ \E q \in Pids : /\ status[q] = "unborn"
                           /\ status' = [status EXCEPT ![q] = "alive"]
    BY <1>2 DEF LinkStep, spawn, spawnLink, unlink
  <2>3. Len(stack) \in Nat
    BY DEF TypeOK
  <2> QED BY <2>1, <2>2, <2>3 DEF TypeOK, KilledOnce
<1>3. StackMoves \/ Quiet \/ NameStep \/ MonitorStep \/ EndKill
        => UNCHANGED <<status, reason>>
  BY DEF StackMoves, Quiet, NameStep, MonitorStep, EndKill, register,
         unregister, KillMonitor, monitor, demonitor, demonitorFlush, Flush
<1>4. StackMoves \/ Quiet \/ NameStep \/ MonitorStep \/ EndKill
        => ~(Len(stack') > Len(stack))
  <2>1. Len(stack) \in Nat /\ stack \in Seq(Frames)
    BY DEF TypeOK
  <2>2. Quiet \/ NameStep \/ MonitorStep => UNCHANGED stack
    BY DEF Quiet, NameStep, MonitorStep, register, unregister, KillMonitor,
           monitor, demonitor, demonitorFlush, Flush
  <2>3. EndKill => stack # <<>> /\ stack' = Tail(stack)
    BY DEF EndKill
  <2>4. StackMoves => Len(stack') = Len(stack)
    BY DEF StackMoves, Covers
  <2> QED BY <2>1, <2>2, <2>3, <2>4
<1> QED
  BY <1>1, <1>2, <1>3, <1>4, StepCases DEF KilledOnce

(* THEOREM: no step brings a dead process back, replaces its exit reason or *)
(* enters @kill for it again: a cascade that reaches a process along two    *)
(* paths kills it once (@kill-linked tests alive?).                         *)
THEOREM DeathFinal == Spec => DeathIsFinal
<1>1. TypeOK /\ [Next]_pvars =>
        [\A p \in Pids : status[p] = "dead" => KilledOnce(p)]_pvars
  BY DeadStaysDead
<1> QED
  BY <1>1, TypeCorrect, PTL DEF Spec, DeathIsFinal

(* No step makes a live process unborn. *)
LEMMA AliveIsNotUnborn ==
  ASSUME TypeOK, [Next]_pvars, NEW p \in Pids, status[p] = "alive"
  PROVE  status'[p] # "unborn"
<1>1. KillStarts => \E q \in Pids : status' = [status EXCEPT ![q] = "dead"]
  BY KillLinksEffect
<1>2. LinkStep => \/ UNCHANGED status
                  \/ \E q \in Pids : status' = [status EXCEPT ![q] = "alive"]
  BY DEF LinkStep, spawn, spawnLink, unlink
<1>3. StackMoves \/ Quiet \/ NameStep \/ MonitorStep \/ EndKill
        => UNCHANGED status
  BY DEF StackMoves, Quiet, NameStep, MonitorStep, EndKill, register,
         unregister, KillMonitor, monitor, demonitor, demonitorFlush, Flush
<1> QED
  BY <1>1, <1>2, <1>3, StepCases DEF TypeOK

(* The activations of @kill are for processes. *)
LEMMA FrameProc ==
  ASSUME TypeOK
  PROVE  \A i \in 1..Len(stack) : stack[i].proc \in Pids
<1>1. ASSUME NEW i \in 1..Len(stack) PROVE stack[i] \in Frames
  BY DEF TypeOK
<1> QED
  BY <1>1 DEF Frames

(* The process of every activation of @kill is dead. *)
LEMMA KilledAreDeadStep ==
  ASSUME TypeOK, KilledAreDead, [Next]_pvars
  PROVE  KilledAreDead'
<1>1. CASE KillStarts
  <2>1. PICK p \in Pids \ SystemPids, r \in Reasons, callers \in Seq(Frames) :
          Alive(p) /\ Covers(callers) /\ BeginKill(p, r, callers)
    BY <1>1 DEF KillStarts
  <2> DEFINE f == [proc |-> p, reason |-> r,
                   linked |-> links[p], todo |-> links[p]]
  <2>2. status' = [status EXCEPT ![p] = "dead"] /\ stack' = <<f>> \o callers
    BY <2>1, Zenon DEF BeginKill
  <2>3. f \in Frames /\ f.proc = p
    BY DEF Frames, TypeOK
  <2> HIDE DEF f
  <2>4. ASSUME NEW i \in 1..Len(stack')
        PROVE  status'[stack'[i].proc] = "dead"
    <3>1. CASE i = 1
      <4>1. stack'[1] = f
        BY <2>1, <2>2, <2>3
      <4> QED BY <2>2, <2>3, <3>1, <4>1 DEF TypeOK
    <3>2. CASE i # 1
      <4>1. i - 1 \in 1..Len(callers) /\ stack'[i] = callers[i - 1]
        BY <2>1, <2>2, <2>3, <3>2
      <4>2. /\ i - 1 \in 1..Len(stack)
            /\ callers[i - 1].proc = stack[i - 1].proc
        BY <2>1, <4>1 DEF Covers
      <4>3. status[stack[i - 1].proc] = "dead"
        BY <4>2 DEF KilledAreDead
      <4>4. stack[i - 1].proc \in Pids
        BY <4>2, FrameProc
      <4> QED BY <2>2, <4>1, <4>2, <4>3, <4>4 DEF TypeOK
    <3> QED BY <3>1, <3>2
  <2> QED BY <2>4 DEF KilledAreDead
<1>2. CASE StackMoves
  BY <1>2 DEF StackMoves, Covers, KilledAreDead
<1>3. CASE EndKill
  <2>1. stack' = Tail(stack) /\ stack # <<>> /\ UNCHANGED status
    BY <1>3, Zenon DEF EndKill
  <2>2. ASSUME NEW i \in 1..Len(stack')
        PROVE  i + 1 \in 1..Len(stack) /\ stack'[i] = stack[i + 1]
    BY <2>1 DEF TypeOK
  <2> QED BY <2>1, <2>2 DEF KilledAreDead
<1>4. CASE UNCHANGED stack
           /\ \A p \in Pids : status[p] = "dead" => status'[p] = "dead"
  BY <1>4, FrameProc DEF KilledAreDead
<1>5. Quiet \/ NameStep \/ MonitorStep \/ LinkStep => UNCHANGED stack
  BY DEF Quiet, NameStep, MonitorStep, LinkStep, register, unregister, spawn,
         spawnLink, unlink, KillMonitor, monitor, demonitor, demonitorFlush,
         Flush
<1>6. \A p \in Pids : status[p] = "dead" => status'[p] = "dead"
  BY DeadStaysDead DEF KilledOnce
<1> QED
  BY <1>1, <1>2, <1>3, <1>4, <1>5, <1>6, StepCases

-----------------------------------------------------------------------------
(* DOWN messages *)

(* MonitorHistory for one monitor. *)
History(m) ==
  /\ downs[m] <= 1
  /\ mon[m] = None <=> fate[m] = "unused"
  /\ mon[m] = None => downs[m] = 0
  /\ mon[m] # None => Born(mon[m].origin) /\ Born(mon[m].target)
  /\ (mon[m] # None /\ m \in monitors[mon[m].target])
       => fate[m] = "watching" /\ downs[m] = 0
  /\ (fate[m] = "watching" /\ Alive(mon[m].origin)
        /\ m \notin monitors[mon[m].target])
       => downs[m] = 1 /\ status[mon[m].target] = "dead"

(* A monitor is between two processes. *)
LEMMA MonEnds ==
  ASSUME TypeOK, NEW m \in Mons, mon[m] # None
  PROVE  mon[m].origin \in Pids /\ mon[m].target \in Pids
BY DEF TypeOK, MonRecords

(* A step that touches only the status of processes. *)
LEMMA HistoryStatus ==
  ASSUME TypeOK, MonitorHistory, UNCHANGED <<mon, fate, downs, monitors>>,
         \A p \in Pids : Alive(p)' => Alive(p) \/ status[p] = "unborn",
         \A p \in Pids : status[p] = "dead" => status'[p] = "dead",
         \A p \in Pids : Born(p) => Born(p)'
  PROVE  MonitorHistory'
<1>1. ASSUME NEW m \in Mons PROVE History(m)'
  <2>1. History(m)
    BY DEF History, MonitorHistory
  <2>2. CASE mon[m] = None
    BY <2>1, <2>2 DEF History
  <2>3. CASE mon[m] # None
    <3>1. mon[m].origin \in Pids /\ mon[m].target \in Pids
      BY <2>3, MonEnds
    <3>2. Alive(mon[m].origin)' => Alive(mon[m].origin)
      BY <2>1, <2>3, <3>1 DEF History, Born
    <3>3. UNCHANGED <<mon, fate, downs, monitors>>
      OBVIOUS
    <3> QED BY <2>1, <2>3, <3>1, <3>2, <3>3 DEF History, Alive, Born
  <2> QED BY <2>2, <2>3
<1> QED
  BY <1>1 DEF MonitorHistory, History

(* Every step keeps what the history of a monitor says. *)
LEMMA HistoryStep ==
  ASSUME TypeOK, MonitorsConsistent, KilledAreDead, MonitorHistory,
         FlushPending, [Next]_pvars
  PROVE  MonitorHistory'
<1>1. SUFFICES ASSUME NEW k \in Mons,
                      ~(UNCHANGED <<mon, fate, downs, monitors>>)
               PROVE  History(k)'
  <2>1. CASE UNCHANGED <<mon, fate, downs, monitors>>
    <3>1. \A p \in Pids : status[p] = "dead" => status'[p] = "dead"
      BY DeadStaysDead DEF KilledOnce
    <3>2. /\ \A p \in Pids : Alive(p)' => Alive(p) \/ status[p] = "unborn"
          /\ \A p \in Pids : Born(p) => Born(p)'
      <4>1. \A p \in Pids : status[p] \in {"unborn", "alive", "dead"}
        BY DEF TypeOK
      <4>2. ASSUME NEW p \in Pids, status[p] = "alive"
            PROVE  status'[p] # "unborn"
        BY <4>2, AliveIsNotUnborn
      <4> QED BY <3>1, <4>1, <4>2 DEF Alive, Born
    <3> QED BY <2>1, <3>1, <3>2, HistoryStatus
  <2> QED BY <2>1 DEF MonitorHistory, History
<1>2. History(k)
  BY DEF MonitorHistory, History
<1>3. mon[k] # None => mon[k].origin \in Pids /\ mon[k].target \in Pids
  BY MonEnds
<1>4. ASSUME NEW m \in Mons, KillMonitor(m) PROVE History(k)'
  <2> DEFINE p == Head(stack).proc
             r == Head(stack).reason
  <2>1. /\ stack # <<>> /\ m \in monitors[p]
        /\ monitors' = [q \in Pids |-> monitors[q] \ {m}]
        /\ \/ mon[m].origin = p /\ UNCHANGED downs
           \/ /\ mon[m].origin # p
              /\ downs' = [downs EXCEPT ![m] = IF Alive(mon[m].origin)
                                               THEN @ + 1 ELSE @]
        /\ UNCHANGED <<mon, fate, status>>
    BY <1>4, Zenon DEF KillMonitor, ForgetMonitor
  <2>2. 1 \in 1..Len(stack) /\ Head(stack) = stack[1]
    BY <2>1 DEF TypeOK
  <2>3. p \in Pids /\ status[p] = "dead"
    BY <2>2, FrameProc DEF KilledAreDead
  <2>4. CASE k # m
    <3>1. /\ mon'[k] = mon[k] /\ fate'[k] = fate[k] /\ downs'[k] = downs[k]
          /\ \A q \in Pids : k \in monitors'[q] <=> k \in monitors[q]
      BY <2>1, <2>4 DEF TypeOK
    <3> QED BY <1>2, <1>3, <2>1, <3>1 DEF History, Alive, Born
  <2>5. CASE k = m
    <3>1. /\ mon[m] # None /\ p \in {mon[m].origin, mon[m].target}
          /\ m \in monitors[mon[m].target]
      BY <2>1, <2>3 DEF MonitorsConsistent
    <3>2. fate[m] = "watching" /\ downs[m] = 0
          /\ Born(mon[m].origin) /\ Born(mon[m].target)
      BY <1>2, <2>5, <3>1 DEF History
    <3>3. mon[m].target \in Pids /\ m \notin monitors'[mon[m].target]
      BY <1>3, <2>1, <2>5, <3>1
    <3>4. downs'[m] = IF mon[m].origin # p /\ Alive(mon[m].origin)
                      THEN 1 ELSE 0
      BY <2>1, <3>2 DEF TypeOK
    <3>5. Alive(mon[m].origin) => mon[m].origin # p /\ mon[m].target = p
      BY <2>3, <3>1 DEF Alive
    <3> HIDE DEF p
    <3> QED
      BY <2>1, <2>3, <2>5, <3>1, <3>2, <3>3, <3>4, <3>5
      DEF History, Alive, Born
  <2> QED BY <2>4, <2>5
<1>5. ASSUME NEW p \in Pids, NEW q \in Pids, NEW m \in Mons, monitor(p, q, m)
      PROVE  History(k)'
  <2>1. /\ mon' = [mon EXCEPT ![m] = [origin |-> p, target |-> q]]
        /\ fate' = [fate EXCEPT ![m] = "watching"]
        /\ mon[m] = None /\ Alive(p) /\ Born(q)
        /\ UNCHANGED status
    BY <1>5, Zenon DEF monitor, Running
  <2>2. \/ /\ Alive(q)
           /\ monitors' = [monitors EXCEPT ![p] = @ \cup {m},
                                           ![q] = @ \cup {m}]
           /\ UNCHANGED downs
        \/ /\ ~Alive(q)
           /\ UNCHANGED monitors
           /\ downs' = [downs EXCEPT ![m] = @ + 1]
    BY <1>5, Zenon DEF monitor, AddMonitor
  <2>3. CASE k # m
    <3>1. mon'[k] = mon[k] /\ fate'[k] = fate[k] /\ downs'[k] = downs[k]
      BY <2>1, <2>2, <2>3 DEF TypeOK
    <3>2. \A t \in Pids : k \in monitors'[t] <=> k \in monitors[t]
      <4>1. CASE UNCHANGED monitors
        BY <4>1
      <4>2. CASE monitors' = [monitors EXCEPT ![p] = @ \cup {m},
                                              ![q] = @ \cup {m}]
        BY <2>3, <4>2 DEF TypeOK
      <4> QED BY <2>2, <4>1, <4>2
    <3> QED BY <1>2, <1>3, <2>1, <3>1, <3>2 DEF History, Alive, Born
  <2>4. CASE k = m
    <3>1. mon'[m] = [origin |-> p, target |-> q] /\ fate'[m] = "watching"
      BY <2>1 DEF TypeOK
    <3>2. mon'[m].origin = p /\ mon'[m].target = q /\ mon'[m] # None
      BY <3>1, NoneIsNoRecord DEF MonRecords
    <3>3. downs[m] = 0 /\ \A t \in Pids : m \notin monitors[t]
      BY <1>2, <2>1, <2>4 DEF History, TypeOK
    <3>4. CASE Alive(q)
      <4>1. downs'[m] = 0 /\ m \in monitors'[q]
        BY <2>2, <3>3, <3>4 DEF TypeOK
      <4> QED
        BY <2>1, <2>4, <3>1, <3>2, <4>1 DEF History, Alive, Born
    <3>5. CASE ~Alive(q)
      <4>1. downs'[m] = 1 /\ m \notin monitors'[q]
        BY <2>2, <3>3, <3>5 DEF TypeOK
      <4>2. status[q] = "dead"
        BY <2>1, <3>5 DEF Alive, Born, TypeOK
      <4> QED
        BY <2>1, <2>4, <3>1, <3>2, <4>1, <4>2 DEF History, Alive, Born
    <3> QED BY <3>4, <3>5
  <2> QED BY <2>3, <2>4
<1>6. ASSUME NEW p \in Pids, NEW m \in Mons,
             demonitor(p, m) \/ demonitorFlush(p, m)
      PROVE  History(k)'
  <2>1. /\ monitors' = [monitors EXCEPT ![p] = @ \ {m},
                                        ![mon[m].target] = @ \ {m}]
        /\ fate' = [fate EXCEPT ![m] = IF @ = "watching"
                                       THEN "cancelled" ELSE @]
        /\ mon[m] # None
        /\ UNCHANGED <<mon, status, downs>>
    BY <1>6, Zenon DEF demonitor, demonitorFlush, RemoveMonitor
  <2>2. mon[m].target \in Pids
    BY <2>1, MonEnds
  <2>3. CASE k # m
    <3>1. mon'[k] = mon[k] /\ fate'[k] = fate[k] /\ downs'[k] = downs[k]
      BY <2>1, <2>3 DEF TypeOK
    <3>2. \A t \in Pids : k \in monitors'[t] <=> k \in monitors[t]
      BY <2>1, <2>2, <2>3 DEF TypeOK
    <3> QED BY <1>2, <1>3, <2>1, <3>1, <3>2 DEF History, Alive, Born
  <2>4. CASE k = m
    <3>1. m \notin monitors'[mon[m].target]
      BY <2>1, <2>2 DEF TypeOK
    <3>2. fate'[m] # "watching" /\ (fate'[m] = "unused" <=> fate[m] = "unused")
      BY <2>1 DEF TypeOK
    <3> QED BY <1>2, <2>1, <2>4, <3>1, <3>2 DEF History, Alive, Born
  <2> QED BY <2>3, <2>4
<1>7. ASSUME NEW p \in Pids, Flush(p) PROVE History(k)'
  <2>1. /\ pend[p] # None /\ pend[p].op = "flush"
        /\ fate' = [fate EXCEPT ![pend[p].mon] = "flushed"]
        /\ UNCHANGED <<mon, status, downs, monitors>>
    BY <1>7, Zenon DEF Flush
  <2>2. fate[pend[p].mon] \in {"cancelled", "flushed"}
    BY <2>1 DEF FlushPending
  <2>3. \/ fate'[k] = fate[k]
        \/ fate[k] \in {"cancelled", "flushed"} /\ fate'[k] = "flushed"
    BY <2>1, <2>2 DEF TypeOK
  <2> QED BY <1>2, <2>1, <2>3 DEF History, Alive, Born
<1>8. KillStarts \/ StackMoves \/ Quiet \/ LinkStep \/ NameStep \/ EndKill
        => UNCHANGED <<mon, fate, downs, monitors>>
  BY Zenon DEF KillStarts, BeginKill, StackMoves, Quiet, LinkStep, NameStep,
     EndKill, register, unregister, spawn, spawnLink, unlink
<1> QED
  BY <1>1, <1>4, <1>5, <1>6, <1>7, <1>8, StepCases, Zenon DEF MonitorStep

(* Every step keeps what is known of a demonitor&flush under way. *)
LEMMA FlushPendingStep ==
  ASSUME TypeOK, MonitorHistory, FlushPending, [Next]_pvars
  PROVE  FlushPending'
<1>1. SUFFICES ASSUME NEW t \in Pids, pend'[t] # None, pend'[t].op = "flush"
               PROVE  /\ fate'[pend'[t].mon] \in {"cancelled", "flushed"}
                      /\ mon'[pend'[t].mon].origin = t
  BY DEF FlushPending
<1> DEFINE k == pend[t].mon
<1>2. ASSUME pend'[t] = pend[t]
      PROVE  /\ k \in Mons /\ fate[k] \in {"cancelled", "flushed"}
             /\ mon[k].origin = t /\ mon[k] # None
  <2>1. k \in Mons
    BY <1>1, <1>2 DEF TypeOK, Pending
  <2>2. fate[k] \in {"cancelled", "flushed"} /\ mon[k].origin = t
    BY <1>1, <1>2 DEF FlushPending
  <2>3. mon[k] # None
    BY <2>1, <2>2 DEF MonitorHistory
  <2> QED BY <2>1, <2>2, <2>3
<1> DEFINE Goal == /\ fate'[pend'[t].mon] \in {"cancelled", "flushed"}
                   /\ mon'[pend'[t].mon].origin = t
<1>3. ASSUME pend'[t] = pend[t], UNCHANGED <<fate, mon>> PROVE Goal
  BY <1>2, <1>3
<1>4. CASE KillStarts
  <2>1. PICK p \in Pids \ SystemPids, r \in Reasons, callers \in Seq(Frames) :
          Alive(p) /\ Covers(callers) /\ BeginKill(p, r, callers)
    BY <1>4 DEF KillStarts
  <2>2. pend' = [pend EXCEPT ![p] = None] /\ UNCHANGED <<fate, mon>>
    BY <2>1, Zenon DEF BeginKill
  <2>3. pend'[t] = pend[t]
    BY <1>1, <2>2 DEF TypeOK
  <2> QED BY <1>3, <2>2, <2>3
<1>5. CASE Quiet
  <2>1. pend'[t] = pend[t] /\ UNCHANGED <<fate, mon>>
    BY <1>1, <1>5 DEF Quiet
  <2> QED BY <1>3, <2>1
<1>6. StackMoves \/ LinkStep \/ NameStep \/ EndKill
        \/ (\E m \in Mons : KillMonitor(m)) => UNCHANGED <<pend, fate, mon>>
  BY Zenon DEF StackMoves, LinkStep, NameStep, EndKill, register, unregister,
     spawn, spawnLink, unlink, KillMonitor
<1>7. ASSUME NEW p \in Pids, NEW q \in Pids, NEW m \in Mons, monitor(p, q, m)
      PROVE  Goal
  <2>1. /\ mon' = [mon EXCEPT ![m] = [origin |-> p, target |-> q]]
        /\ fate' = [fate EXCEPT ![m] = "watching"]
        /\ mon[m] = None /\ UNCHANGED pend
    BY <1>7, Zenon DEF monitor
  <2>2. k # m /\ k \in Mons
    BY <1>2, <2>1
  <2>3. mon'[k] = mon[k] /\ fate'[k] = fate[k]
    BY <2>1, <2>2 DEF TypeOK
  <2> QED BY <1>2, <2>1, <2>3
<1>8. ASSUME NEW p \in Pids, NEW m \in Mons, demonitor(p, m) PROVE Goal
  <2>1. /\ fate' = [fate EXCEPT ![m] = IF @ = "watching"
                                       THEN "cancelled" ELSE @]
        /\ UNCHANGED <<pend, mon>>
    BY <1>8, Zenon DEF demonitor
  <2>2. fate'[k] \in {"cancelled", "flushed"}
    BY <1>2, <2>1 DEF TypeOK
  <2> QED BY <1>2, <2>1, <2>2
<1>9. ASSUME NEW p \in Pids, NEW m \in Mons, demonitorFlush(p, m) PROVE Goal
  <2>1. /\ fate' = [fate EXCEPT ![m] = IF @ = "watching"
                                       THEN "cancelled" ELSE @]
        /\ pend' = [pend EXCEPT ![p] = [op |-> "flush", mon |-> m]]
        /\ mon[m] # None /\ mon[m].origin = p
        /\ UNCHANGED mon
    BY <1>9, Zenon DEF demonitorFlush, RemoveMonitor
  <2>2. CASE t = p
    <3>1. pend'[t] = [op |-> "flush", mon |-> m]
      BY <2>1, <2>2 DEF TypeOK
    <3>2. pend'[t].mon = m
      BY <3>1
    <3>3. fate[m] # "unused"
      BY <2>1 DEF MonitorHistory
    <3>4. fate'[m] \in {"cancelled", "flushed"}
      BY <2>1, <3>3 DEF TypeOK
    <3> QED BY <2>1, <2>2, <3>2, <3>4
  <2>3. CASE t # p
    <3>1. pend'[t] = pend[t]
      BY <2>1, <2>3 DEF TypeOK
    <3>2. fate'[k] \in {"cancelled", "flushed"}
      BY <1>2, <2>1, <3>1 DEF TypeOK
    <3> QED BY <1>2, <2>1, <3>1, <3>2
  <2> QED BY <2>2, <2>3
<1>10. ASSUME NEW p \in Pids, Flush(p) PROVE Goal
  <2>1. /\ fate' = [fate EXCEPT ![pend[p].mon] = "flushed"]
        /\ pend' = [pend EXCEPT ![p] = None]
        /\ UNCHANGED mon
    BY <1>10, Zenon DEF Flush
  <2>2. pend'[t] = pend[t]
    BY <1>1, <2>1 DEF TypeOK
  <2>3. fate'[k] \in {"cancelled", "flushed"}
    BY <1>2, <2>1, <2>2 DEF TypeOK
  <2> QED BY <1>2, <2>1, <2>2, <2>3
<1> QED
  BY <1>3, <1>4, <1>5, <1>6, <1>7, <1>8, <1>9, <1>10, StepCases, Zenon
  DEF MonitorStep

(* The inductive invariant behind the monitor theorems. *)
MonitorInv ==
  /\ TypeOK /\ MonitorsConsistent /\ KilledAreDead
  /\ MonitorHistory /\ FlushPending

(* The invariant about monitors holds throughout. *)
LEMMA MonitorInvariant == Spec => []MonitorInv
<1>1. Init => MonitorInv
  <2>1. Init => MonitorsConsistent /\ KilledAreDead /\ MonitorHistory
                /\ FlushPending
    BY DEF Init, MonitorsConsistent, KilledAreDead, MonitorHistory,
           FlushPending
  <2> QED BY <2>1, InitType DEF MonitorInv
<1>2. MonitorInv /\ [Next]_pvars => MonitorInv'
  BY NextType, MonitorsStep, KilledAreDeadStep, HistoryStep, FlushPendingStep
  DEF MonitorInv
<1> QED
  BY <1>1, <1>2, PTL DEF Spec

(* THEOREM: outside a cascade, a monitor that its live origin still wants   *)
(* either watches a live target or has produced exactly one DOWN message    *)
(* (monitor, demonitor, @kill).                                             *)
THEOREM DownIsExactlyOnce == Spec => []DownExactlyOnce
<1>1. MonitorInv => DownExactlyOnce
  <2> SUFFICES ASSUME MonitorInv, NEW m \in Mons
               PROVE  /\ downs[m] <= 1
                      /\ (/\ stack = <<>> /\ fate[m] = "watching"
                          /\ Alive(mon[m].origin)
                          /\ mon[m].origin # mon[m].target)
                         => \/ /\ Alive(mon[m].target)
                               /\ m \in monitors[mon[m].target]
                               /\ downs[m] = 0
                            \/ ~Alive(mon[m].target) /\ downs[m] = 1
    BY DEF DownExactlyOnce
  <2>1. History(m)
    BY DEF MonitorInv, MonitorHistory, History
  <2>2. ASSUME stack = <<>>, fate[m] = "watching"
        PROVE  m \in monitors[mon[m].target] => Alive(mon[m].target)
    <3>1. mon[m] # None
      BY <2>1, <2>2 DEF History
    <3>2. mon[m].target \in Pids
      BY <3>1, MonEnds DEF MonitorInv
    <3> QED BY <2>2, <3>2 DEF MonitorInv, MonitorsConsistent
  <2>3. fate[m] = "watching" => mon[m] # None
    BY <2>1 DEF History
  <2> QED BY <2>1, <2>2, <2>3 DEF History, Alive
<1> QED
  BY <1>1, MonitorInvariant, PTL

-----------------------------------------------------------------------------
(* demonitor&flush and the DOWN messages of an inbox *)

(* DownsOf for any sequence of messages *)
DownAt(s, m) == {i \in 1..Len(s) : s[i].type = "DOWN" /\ s[i].mon = m}

(* t has no DOWN message that s has not, and none twice unless s has. *)
Keeps(s, t) ==
  \A m \in Mons :
    /\ DownAt(s, m) = {} => DownAt(t, m) = {}
    /\ (\A i, j \in DownAt(s, m) : i = j) => (\A i, j \in DownAt(t, m) : i = j)

BoxesKept == \A p \in Pids : Keeps(inbox[p], inbox'[p])

(* An inbox keeps its own messages. *)
LEMMA KeepsSame == \A s : Keeps(s, s)
BY DEF Keeps

(* A dead process has no messages at all. *)
LEMMA KeepsEmpty == \A s : Keeps(s, <<>>)
BY DEF Keeps, DownAt

(* An EXIT message or a message of user code is no DOWN message. *)
LEMMA KeepsAppend ==
  ASSUME NEW s \in Seq(Msgs), NEW msg \in Msgs, msg.type # "DOWN"
  PROVE  Keeps(s, Append(s, msg))
<1> DEFINE t == Append(s, msg)
<1>1. /\ Len(t) = Len(s) + 1 /\ t[Len(s) + 1] = msg
      /\ \A i \in 1..Len(s) : t[i] = s[i]
  OBVIOUS
<1> HIDE DEF t
<1>2. \A m \in Mons : DownAt(t, m) = DownAt(s, m)
  BY <1>1 DEF DownAt
<1>3. Keeps(s, t)
  BY <1>2 DEF Keeps
<1> QED
  BY <1>3 DEF t

(* What is left of a sequence without its i-th element *)
LEMMA RemoveAtElements ==
  ASSUME NEW S, NEW s \in Seq(S), NEW i \in 1..Len(s)
  PROVE  /\ Len(RemoveAt(s, i)) = Len(s) - 1
         /\ \A j \in 1..Len(s) - 1 :
              RemoveAt(s, i)[j] = IF j < i THEN s[j] ELSE s[j + 1]
<1> DEFINE a == SubSeq(s, 1, i - 1)
           b == SubSeq(s, i + 1, Len(s))
<1>1. /\ a \in Seq(S) /\ Len(a) = i - 1
      /\ \A j \in 1..i - 1 : a[j] = s[j]
  OBVIOUS
<1>2. /\ b \in Seq(S) /\ Len(b) = Len(s) - i
      /\ \A j \in 1..Len(s) - i : b[j] = s[i + j]
  OBVIOUS
<1>3. RemoveAt(s, i) = a \o b
  BY DEF RemoveAt
<1> HIDE DEF a, b
<1>4. Len(a \o b) = Len(s) - 1
  BY <1>1, <1>2
<1>5. ASSUME NEW j \in 1..Len(s) - 1
      PROVE  (a \o b)[j] = IF j < i THEN s[j] ELSE s[j + 1]
  <2>1. CASE j < i
    BY <1>1, <1>2, <2>1
  <2>2. CASE ~(j < i)
    <3>1. (a \o b)[j] = b[j - Len(a)]
      BY <1>1, <1>2, <2>2
    <3>2. j - Len(a) = j - i + 1 /\ j - i + 1 \in 1..Len(s) - i /\ i + (j - i + 1) = j + 1
      BY <1>1, <2>2
    <3> QED
      BY <1>2, <2>2, <3>1, <3>2
  <2> QED
    BY <2>1, <2>2
<1> QED
  BY <1>3, <1>4, <1>5

(* An inbox that loses a message gains none. *)
LEMMA KeepsRemove ==
  ASSUME NEW s \in Seq(Msgs), NEW i \in 1..Len(s)
  PROVE  Keeps(s, RemoveAt(s, i))
<1> DEFINE t == RemoveAt(s, i)
           old(j) == IF j < i THEN j ELSE j + 1
<1>1. Len(t) = Len(s) - 1 /\ \A j \in 1..Len(s) - 1 : t[j] = s[old(j)]
  BY RemoveAtElements
<1> HIDE DEF t
<1>2. ASSUME NEW m \in Mons, NEW j \in DownAt(t, m) PROVE old(j) \in DownAt(s, m)
  BY <1>1 DEF DownAt
<1>3. ASSUME NEW m \in Mons, NEW j \in DownAt(t, m), NEW k \in DownAt(t, m), old(j) = old(k)
      PROVE  j = k
  BY <1>3 DEF DownAt
<1> HIDE DEF old
<1>4. ASSUME NEW m \in Mons
      PROVE  /\ DownAt(s, m) = {} => DownAt(t, m) = {}
             /\ (\A j, k \in DownAt(s, m) : j = k) => (\A j, k \in DownAt(t, m) : j = k)
  BY <1>2, <1>3
<1>5. Keeps(s, t)
  BY <1>4 DEF Keeps
<1> QED
  BY <1>5 DEF t

(* The only DOWN message of a monitor is gone when it is taken out. *)
LEMMA RemoveOnly ==
  ASSUME NEW s \in Seq(Msgs), NEW m \in Mons, NEW i \in DownAt(s, m),
         \A j \in DownAt(s, m) : j = i
  PROVE  DownAt(RemoveAt(s, i), m) = {}
<1> DEFINE t == RemoveAt(s, i)
<1>0. i \in 1..Len(s)
  BY DEF DownAt
<1>1. Len(t) = Len(s) - 1 /\ \A j \in 1..Len(s) - 1 : t[j] = IF j < i THEN s[j] ELSE s[j + 1]
  BY <1>0, RemoveAtElements
<1> HIDE DEF t
<1>2. ASSUME NEW j \in DownAt(t, m) PROVE FALSE
  <2>1. j \in 1..Len(s) - 1 /\ t[j].type = "DOWN" /\ t[j].mon = m
    BY <1>1 DEF DownAt
  <2>2. CASE j < i
    BY <1>0, <1>1, <2>1, <2>2 DEF DownAt
  <2>3. CASE ~(j < i)
    <3>1. j + 1 \in DownAt(s, m)
      BY <1>0, <1>1, <2>1, <2>3 DEF DownAt
    <3> QED
      BY <3>1, <2>1, <2>3, <1>0
  <2> QED
    BY <2>2, <2>3
<1>3. DownAt(t, m) = {}
  BY <1>2
<1> QED
  BY <1>3 DEF t

(* A message that is not a DOWN message may be delivered to anyone. *)
LEMMA DeliverKeeps ==
  ASSUME TypeOK, NEW q \in Pids, NEW msg \in Msgs, msg.type # "DOWN",
         inbox' = Deliver(inbox, q, msg)
  PROVE  BoxesKept
<1>1. ASSUME NEW p \in Pids PROVE Keeps(inbox[p], inbox'[p])
  <2>1. inbox[p] \in Seq(Msgs)
    BY DEF TypeOK
  <2>2. inbox'[p] = inbox[p] \/ inbox'[p] = Append(inbox[p], msg)
    BY DEF Deliver, TypeOK
  <2> QED
    BY <2>1, <2>2, KeepsAppend, KeepsSame
<1> QED
  BY <1>1 DEF BoxesKept

(* The same for the inboxes of all processes. *)
LEMMA RemoveKeeps ==
  ASSUME TypeOK, NEW p \in Pids, NEW i \in 1..Len(inbox[p]),
         inbox' = [inbox EXCEPT ![p] = RemoveAt(@, i)]
  PROVE  BoxesKept
<1>1. ASSUME NEW q \in Pids PROVE Keeps(inbox[q], inbox'[q])
  <2>1. inbox[p] \in Seq(Msgs)
    BY DEF TypeOK
  <2>2. CASE q = p
    <3>1. inbox'[p] = RemoveAt(inbox[p], i)
      BY DEF TypeOK
    <3>2. Keeps(inbox[p], RemoveAt(inbox[p], i))
      BY <2>1, KeepsRemove
    <3> QED
      BY <2>2, <3>1, <3>2
  <2>3. CASE q # p
    <3>1. inbox'[q] = inbox[q]
      BY <2>3 DEF TypeOK
    <3> QED
      BY <3>1, KeepsSame
  <2> QED
    BY <2>2, <2>3
<1> QED
  BY <1>1 DEF BoxesKept

(* Inboxes that do not change gain nothing. *)
LEMMA SameKeeps == UNCHANGED inbox => BoxesKept
BY KeepsSame DEF BoxesKept

(* @kill drops the messages of the process, and nobody else's. *)
LEMMA BeginKillKeeps ==
  ASSUME TypeOK, NEW p \in Pids, NEW r, NEW callers, BeginKill(p, r, callers)
  PROVE  BoxesKept
<1>1. UNCHANGED inbox \/ inbox' = [inbox EXCEPT ![p] = <<>>]
  BY Zenon DEF BeginKill
<1>2. \A q \in Pids : inbox'[q] = inbox[q] \/ inbox'[q] = <<>>
  BY <1>1 DEF TypeOK
<1> QED
  BY <1>2, KeepsSame, KeepsEmpty DEF BoxesKept

(* Only monitor and @kill deliver DOWN messages. *)
LEMMA BoxCases ==
  ASSUME TypeOK, [Next]_pvars
  PROVE  \/ BoxesKept
         \/ \E m \in Mons : KillMonitor(m)
         \/ \E p, q \in Pids, m \in Mons : monitor(p, q, m)
<1>1. CASE UNCHANGED pvars
  BY <1>1, SameKeeps DEF pvars
<1>2. ASSUME NEW q \in Pids, KillLinked(q) PROVE BoxesKept
  <2> DEFINE f == Head(stack)
             rest == <<[f EXCEPT !.todo = @ \ {q}]>> \o Tail(stack)
  <2>1. f \in Frames
    BY <1>2 DEF KillLinked, TypeOK
  <2>2. EXITmsg(f.proc, f.reason) \in Msgs /\ EXITmsg(f.proc, f.reason).type # "DOWN"
    BY <2>1 DEF Frames, EXITmsg, Msgs
  <2>3. \/ BeginKill(q, f.reason, rest)
        \/ inbox' = Deliver(inbox, q, EXITmsg(f.proc, f.reason))
        \/ UNCHANGED inbox
    BY <1>2, Zenon DEF KillLinked
  <2> HIDE DEF f, rest
  <2> QED
    BY <2>2, <2>3, BeginKillKeeps, DeliverKeeps, SameKeeps
<1>3. ASSUME NEW p \in Pids, NEW q \in Pids, link(p, q) PROVE BoxesKept
  <2>1. CASE BeginKill(p, reason[q], <<>>)
    BY <2>1, BeginKillKeeps
  <2>2. CASE ~Alive(q) /\ inbox' = Deliver(inbox, p, EXITmsg(q, reason[q]))
    <3>1. reason[q] \in Reasons
      BY <1>3, <2>2 DEF link, Born, Alive, TypeOK
    <3>2. EXITmsg(q, reason[q]) \in Msgs /\ EXITmsg(q, reason[q]).type # "DOWN"
      BY <3>1 DEF EXITmsg, Msgs
    <3> QED
      BY <2>2, <3>2, DeliverKeeps
  <2>3. CASE UNCHANGED inbox
    BY <2>3, SameKeeps
  <2> QED
    BY <1>3, <2>1, <2>2, <2>3, Zenon DEF link, pvars
<1>4. ASSUME NEW p \in Pids, NEW r \in Reasons, finish(p, r) PROVE BoxesKept
  BY <1>4, BeginKillKeeps DEF finish
<1>5. ASSUME NEW p \in Pids, NEW q \in Pids, NEW r \in Reasons, kill(p, q, r)
      PROVE  BoxesKept
  <2>1. EXITmsg(p, r) \in Msgs /\ EXITmsg(p, r).type # "DOWN"
    BY DEF EXITmsg, Msgs
  <2>2. \/ \E s : BeginKill(q, s, <<>>)
        \/ inbox' = Deliver(inbox, q, EXITmsg(p, r))
        \/ UNCHANGED inbox
    BY <1>5, Zenon DEF kill, pvars
  <2> QED
    BY <2>1, <2>2, BeginKillKeeps, DeliverKeeps, SameKeeps
<1>6. ASSUME NEW p \in Pids, NEW q \in Pids, send(p, q) PROVE BoxesKept
  <2>1. UserMsg \in Msgs /\ UserMsg.type # "DOWN"
    BY DEF Msgs, UserMsg
  <2> QED
    BY <1>6, <2>1, DeliverKeeps DEF send
<1>7. ASSUME NEW p \in Pids, sendFound(p) PROVE BoxesKept
  <2>1. UserMsg \in Msgs /\ UserMsg.type # "DOWN"
    BY DEF Msgs, UserMsg
  <2>2. pend[p].dest \in Pids
    BY <1>7 DEF sendFound, TypeOK, Pending
  <2> QED
    BY <1>7, <2>1, <2>2, DeliverKeeps DEF sendFound
<1>8. ASSUME NEW p \in Pids, receive(p) PROVE BoxesKept
  BY <1>8, RemoveKeeps DEF receive
<1>9. ASSUME NEW p \in Pids, Flush(p) PROVE BoxesKept
  <2>1. CASE UNCHANGED inbox
    BY <2>1, SameKeeps
  <2>2. CASE \E i \in DownsOf(p, pend[p].mon) :
               inbox' = [inbox EXCEPT ![p] = RemoveAt(@, i)]
    BY <2>2, RemoveKeeps DEF DownsOf
  <2> QED
    BY <1>9, <2>1, <2>2 DEF Flush
<1>10. CASE EndKill \/ \E p, q \in Pids : spawn(p, q) \/ spawnLink(p, q) \/ unlink(p, q)
  <2>1. UNCHANGED inbox
    BY <1>10, Zenon DEF EndKill, spawn, spawnLink, unlink
  <2> QED
    BY <2>1, SameKeeps
<1>11. ASSUME NEW p \in Pids, NEW m \in Mons, demonitor(p, m) \/ demonitorFlush(p, m)
       PROVE  BoxesKept
  <2>1. UNCHANGED inbox
    BY <1>11, Zenon DEF demonitor, demonitorFlush
  <2> QED
    BY <2>1, SameKeeps
<1>12. ASSUME NEW p \in Pids, NEW n \in Names, whereis(p, n) \/ unregister(p, n)
       PROVE  BoxesKept
  <2>1. UNCHANGED inbox
    BY <1>12, Zenon DEF whereis, unregister
  <2> QED
    BY <2>1, SameKeeps
<1>13. ASSUME NEW p \in Pids, NEW n \in Names, NEW q \in Pids, register(p, n, q)
       PROVE  BoxesKept
  BY <1>13, SameKeeps DEF register
<1>14. ASSUME NEW p \in Pids, NEW b \in BOOLEAN, processTrapExit(p, b)
       PROVE  BoxesKept
  BY <1>14, SameKeeps DEF processTrapExit
<1> QED
  BY <1>1, <1>2, <1>3, <1>4, <1>5, <1>6, <1>7, <1>8, <1>9, <1>10, <1>11, <1>12, <1>13, <1>14
  DEF Next, KillStep, UserStep

(* What the history of monitor m says of the DOWN messages of an inbox. *)
BoxHistory(p, m) ==
  /\ DownAt(inbox[p], m) # {} => mon[m] # None /\ mon[m].origin = p /\ downs[m] = 1
  /\ \A i, j \in DownAt(inbox[p], m) : i = j

(* InboxHistory, one inbox and one monitor at a time *)
LEMMA BoxHistories ==
  /\ InboxHistory <=> \A p \in Pids, m \in Mons : BoxHistory(p, m)
  /\ InboxHistory' <=> \A p \in Pids, m \in Mons : BoxHistory(p, m)'
<1>1. \A p \in Pids, m \in Mons : DownsOf(p, m) = DownAt(inbox[p], m)
  BY DEF DownsOf, DownAt
<1>2. \A p \in Pids, m \in Mons : DownsOf(p, m)' = DownAt(inbox'[p], m)
  BY DEF DownsOf, DownAt
<1> DEFINE H(p, m) ==
             /\ DownsOf(p, m) # {} => mon[m] # None /\ mon[m].origin = p /\ downs[m] = 1
             /\ \A i, j \in DownsOf(p, m) : i = j
<1>3. \A p \in Pids, m \in Mons : H(p, m) <=> BoxHistory(p, m)
  BY <1>1 DEF BoxHistory
<1>4. \A p \in Pids, m \in Mons : H(p, m)' <=> BoxHistory(p, m)'
  BY <1>2 DEF BoxHistory
<1>5. /\ InboxHistory <=> \A p \in Pids, m \in Mons : H(p, m)
      /\ InboxHistory' <=> \A p \in Pids, m \in Mons : H(p, m)'
  BY Zenon DEF InboxHistory
<1> HIDE DEF H
<1> QED
  BY <1>3, <1>4, <1>5

(* A monitor that has produced no DOWN message gets its first one. *)
LEMMA DownArrives ==
  ASSUME TypeOK, InboxHistory, NEW m \in Mons, NEW q \in Pids, NEW r \in Reasons,
         downs[m] = 0,
         mon'[m] # None, mon'[m].origin \in Pids,
         \A k \in Mons : k # m => mon'[k] = mon[k] /\ downs'[k] = downs[k],
         \/ UNCHANGED inbox /\ downs'[m] = 0
         \/ /\ inbox' = Deliver(inbox, mon'[m].origin, DOWNmsg(m, q, r))
            /\ downs'[m] = IF Alive(mon'[m].origin) THEN 1 ELSE 0
  PROVE  InboxHistory'
<1> DEFINE o == mon'[m].origin
           msg == DOWNmsg(m, q, r)
<1>1. \A p \in Pids, k \in Mons : BoxHistory(p, k)
  BY BoxHistories
<1>2. \A p \in Pids : DownAt(inbox[p], m) = {}
  BY <1>1 DEF BoxHistory
<1>3. msg.type = "DOWN" /\ msg.mon = m
  BY DEF DOWNmsg
<1> HIDE DEF msg
<1>4. ASSUME NEW p \in Pids, NEW k \in Mons PROVE BoxHistory(p, k)'
  <2>1. inbox[p] \in Seq(Msgs)
    BY DEF TypeOK
  <2>2. CASE inbox'[p] = inbox[p]
    <3>1. CASE k = m
      BY <1>2, <2>2, <3>1 DEF BoxHistory
    <3>2. CASE k # m
      BY <1>1, <2>2, <3>2 DEF BoxHistory
    <3> QED
      BY <3>1, <3>2
  <2>3. CASE inbox'[p] = Append(inbox[p], msg) /\ p = o /\ Alive(o)
    <3> DEFINE s == inbox[p]
               t == inbox'[p]
    <3>1. /\ Len(t) = Len(s) + 1 /\ t[Len(s) + 1] = msg
          /\ \A i \in 1..Len(s) : t[i] = s[i]
      BY <2>1, <2>3
    <3>2. downs'[m] = 1
      BY <1>2, <2>3, <2>1 DEF Deliver
    <3> HIDE DEF s, t
    <3>3. CASE k # m
      <4>1. DownAt(t, k) = DownAt(s, k)
        BY <1>3, <3>1, <3>3 DEF DownAt
      <4> QED
        BY <1>1, <3>3, <4>1 DEF BoxHistory, s, t
    <3>4. CASE k = m
      <4>1. DownAt(s, m) = {}
        BY <1>2 DEF s
      <4>2. \A i \in DownAt(t, m) : i = Len(s) + 1
        BY <4>1, <3>1 DEF DownAt
      <4> QED
        BY <2>3, <3>2, <3>4, <4>2 DEF BoxHistory, t
    <3> QED
      BY <3>3, <3>4
  <2>4. \/ inbox'[p] = inbox[p]
        \/ inbox'[p] = Append(inbox[p], msg) /\ p = o /\ Alive(o)
    BY DEF Deliver, TypeOK, msg
  <2> QED
    BY <2>2, <2>3, <2>4
<1> QED
  BY <1>4, BoxHistories

(* Every step keeps the DOWNs in an inbox to those that were sent. *)
LEMMA InboxStep ==
  ASSUME MonitorInv, InboxHistory, [Next]_pvars
  PROVE  InboxHistory'
<1>1. TypeOK /\ MonitorsConsistent /\ KilledAreDead /\ MonitorHistory /\ FlushPending
  BY DEF MonitorInv
<1>2. \A p \in Pids, m \in Mons : BoxHistory(p, m)
  BY BoxHistories
<1>3. ASSUME NEW m \in Mons, KillMonitor(m) PROVE InboxHistory'
  <2> DEFINE p == Head(stack).proc
             r == Head(stack).reason
  <2>1. /\ stack # <<>> /\ m \in monitors[p]
        /\ \/ mon[m].origin = p /\ UNCHANGED <<inbox, downs>>
           \/ /\ mon[m].origin # p
              /\ inbox' = Deliver(inbox, mon[m].origin, DOWNmsg(m, p, r))
              /\ downs' = [downs EXCEPT ![m] = IF Alive(mon[m].origin)
                                               THEN @ + 1 ELSE @]
        /\ UNCHANGED mon
    BY <1>3, Zenon DEF KillMonitor
  <2>a. Head(stack) \in Frames
    BY <1>1, <2>1 DEF TypeOK
  <2>2. p \in Pids /\ r \in Reasons
    BY <2>a DEF Frames
  <2>3. mon[m] # None /\ m \in monitors[mon[m].target]
    BY <1>1, <2>1, <2>2 DEF MonitorsConsistent
  <2>4. downs[m] = 0 /\ mon[m].origin \in Pids
    BY <1>1, <2>3, MonEnds DEF MonitorHistory
  <2>5. \A k \in Mons : k # m => downs'[k] = downs[k]
    BY <1>1, <2>1 DEF TypeOK
  <2>6. \/ UNCHANGED inbox /\ downs'[m] = 0
        \/ /\ inbox' = Deliver(inbox, mon[m].origin, DOWNmsg(m, p, r))
           /\ downs'[m] = IF Alive(mon[m].origin) THEN 1 ELSE 0
    BY <1>1, <2>1, <2>4 DEF TypeOK
  <2> HIDE DEF p, r
  <2> QED
    BY <1>1, <2>1, <2>2, <2>3, <2>4, <2>5, <2>6, DownArrives
<1>4. ASSUME NEW p \in Pids, NEW q \in Pids, NEW m \in Mons, monitor(p, q, m)
      PROVE  InboxHistory'
  <2>1. /\ mon' = [mon EXCEPT ![m] = [origin |-> p, target |-> q]]
        /\ mon[m] = None /\ Alive(p) /\ Born(q)
        /\ \/ Alive(q) /\ UNCHANGED <<inbox, downs>>
           \/ /\ ~Alive(q)
              /\ inbox' = Deliver(inbox, p, DOWNmsg(m, q, reason[q]))
              /\ downs' = [downs EXCEPT ![m] = @ + 1]
    BY <1>4, Zenon DEF monitor, Running
  <2>2. mon'[m] = [origin |-> p, target |-> q] /\ \A k \in Mons : k # m => mon'[k] = mon[k]
    BY <1>1, <2>1 DEF TypeOK
  <2>3. mon'[m].origin = p /\ mon'[m] # None
    BY <2>2, NoneIsNoRecord DEF MonRecords
  <2>4. downs[m] = 0
    BY <1>1, <2>1 DEF MonitorHistory
  <2>5. \A k \in Mons : k # m => downs'[k] = downs[k]
    BY <1>1, <2>1 DEF TypeOK
  <2>6. CASE Alive(q)
    <3>1. UNCHANGED inbox /\ downs'[m] = 0
      BY <2>1, <2>4, <2>6
    <3>2. "normal" \in Reasons
      OBVIOUS
    <3> QED
      BY <1>1, <2>2, <2>3, <2>4, <2>5, <3>1, <3>2, DownArrives
  <2>7. CASE ~Alive(q)
    <3>1. reason[q] \in Reasons
      BY <1>1, <2>1, <2>7 DEF Born, Alive, TypeOK
    <3>2. inbox' = Deliver(inbox, p, DOWNmsg(m, q, reason[q])) /\ downs'[m] = 1
      BY <1>1, <2>1, <2>4, <2>7 DEF TypeOK
    <3>3. downs'[m] = IF Alive(mon'[m].origin) THEN 1 ELSE 0
      BY <2>1, <2>3, <3>2
    <3> QED
      BY <1>1, <2>2, <2>3, <2>4, <2>5, <3>1, <3>2, <3>3, DownArrives
  <2> QED
    BY <2>6, <2>7
<1>5. ASSUME BoxesKept, UNCHANGED <<mon, downs>> PROVE InboxHistory'
  <2>1. ASSUME NEW p \in Pids, NEW m \in Mons PROVE BoxHistory(p, m)'
    <3>1. Keeps(inbox[p], inbox'[p]) /\ BoxHistory(p, m) /\ UNCHANGED <<mon, downs>>
      BY <1>2, <1>5 DEF BoxesKept
    <3>2. /\ DownAt(inbox'[p], m) # {} => DownAt(inbox[p], m) # {}
          /\ (\A i, j \in DownAt(inbox[p], m) : i = j) => (\A i, j \in DownAt(inbox'[p], m) : i = j)
      BY <3>1 DEF Keeps
    <3> QED
      BY <3>1, <3>2 DEF BoxHistory
  <2> QED
    BY <2>1, BoxHistories
<1>6. \/ UNCHANGED <<mon, downs>>
      \/ \E m \in Mons : KillMonitor(m)
      \/ \E p, q \in Pids, m \in Mons : monitor(p, q, m)
  <2>1. KillStarts \/ StackMoves \/ Quiet \/ LinkStep \/ NameStep \/ EndKill
          => UNCHANGED <<mon, downs>>
    BY Zenon DEF KillStarts, BeginKill, StackMoves, Quiet, LinkStep, NameStep,
       EndKill, register, unregister, spawn, spawnLink, unlink
  <2>2. (\E p \in Pids, m \in Mons : demonitor(p, m) \/ demonitorFlush(p, m))
          \/ (\E p \in Pids : Flush(p)) => UNCHANGED <<mon, downs>>
    BY Zenon DEF demonitor, demonitorFlush, Flush
  <2> QED
    BY <1>1, <2>1, <2>2, StepCases, Zenon DEF MonitorStep
<1> QED
  BY <1>1, <1>3, <1>4, <1>5, <1>6, BoxCases

(* Every step keeps an inbox free of the DOWNs that were flushed. *)
LEMMA FlushedStep ==
  ASSUME MonitorInv, InboxHistory, FlushedIsGone, [Next]_pvars
  PROVE  FlushedIsGone'
<1>1. TypeOK /\ MonitorsConsistent /\ KilledAreDead /\ MonitorHistory /\ FlushPending
  BY DEF MonitorInv
<1>2. \A m \in Mons : fate[m] # "unused" => mon[m] # None /\ mon[m].origin \in Pids
  BY <1>1, MonEnds DEF MonitorHistory
<1>3. \A m \in Mons : fate[m] = "flushed" => DownAt(inbox[mon[m].origin], m) = {}
  BY DEF FlushedIsGone, DownsOf, DownAt
<1>4. SUFFICES ASSUME NEW m \in Mons, fate'[m] = "flushed"
               PROVE  DownAt(inbox'[mon'[m].origin], m) = {}
  BY DEF FlushedIsGone, DownsOf, DownAt
<1>5. ASSUME fate[m] = "flushed", mon'[m] = mon[m], BoxesKept
      PROVE  DownAt(inbox'[mon'[m].origin], m) = {}
  BY <1>2, <1>3, <1>5 DEF BoxesKept, Keeps
<1>6. ASSUME NEW k \in Mons, KillMonitor(k)
      PROVE  DownAt(inbox'[mon'[m].origin], m) = {}
  <2> DEFINE p == Head(stack).proc
             r == Head(stack).reason
             s == inbox[mon[m].origin]
             t == inbox'[mon[m].origin]
  <2>1. /\ stack # <<>> /\ k \in monitors[p] /\ UNCHANGED <<mon, fate>>
        /\ \/ UNCHANGED inbox
           \/ inbox' = Deliver(inbox, mon[k].origin, DOWNmsg(k, p, r))
    BY <1>6, Zenon DEF KillMonitor
  <2>a. Head(stack) \in Frames
    BY <1>1, <2>1 DEF TypeOK
  <2>2. p \in Pids
    BY <2>a DEF Frames
  <2>3. mon[k] # None /\ k \in monitors[mon[k].target]
    BY <1>1, <2>1, <2>2 DEF MonitorsConsistent
  <2>4. fate[k] = "watching"
    BY <1>1, <2>3 DEF MonitorHistory
  <2>5. k # m /\ mon[m].origin \in Pids /\ DownAt(s, m) = {}
    BY <1>2, <1>3, <1>4, <2>1, <2>4
  <2>6. s \in Seq(Msgs) /\ (t = s \/ t = Append(s, DOWNmsg(k, p, r)))
    BY <1>1, <2>1, <2>5 DEF Deliver, TypeOK
  <2>7. DOWNmsg(k, p, r).mon = k
    BY DEF DOWNmsg
  <2> HIDE DEF s, t, p, r
  <2>8. DownAt(t, m) = {}
    BY <2>5, <2>6, <2>7 DEF DownAt
  <2> QED
    BY <2>1, <2>8 DEF t
<1>7. ASSUME NEW p \in Pids, NEW q \in Pids, NEW k \in Mons, monitor(p, q, k)
      PROVE  DownAt(inbox'[mon'[m].origin], m) = {}
  <2> DEFINE s == inbox[mon[m].origin]
             t == inbox'[mon[m].origin]
  <2>1. /\ mon' = [mon EXCEPT ![k] = [origin |-> p, target |-> q]]
        /\ fate' = [fate EXCEPT ![k] = "watching"]
        /\ \/ UNCHANGED inbox
           \/ inbox' = Deliver(inbox, p, DOWNmsg(k, q, reason[q]))
    BY <1>7, Zenon DEF monitor
  <2>2. k # m /\ fate[m] = "flushed" /\ mon'[m] = mon[m]
    BY <1>1, <1>4, <2>1 DEF TypeOK
  <2>3. mon[m].origin \in Pids /\ DownAt(s, m) = {}
    BY <1>2, <1>3, <2>2
  <2>4. s \in Seq(Msgs) /\ (t = s \/ t = Append(s, DOWNmsg(k, q, reason[q])))
    BY <1>1, <2>1, <2>3 DEF Deliver, TypeOK
  <2>5. DOWNmsg(k, q, reason[q]).mon = k
    BY DEF DOWNmsg
  <2> HIDE DEF s, t
  <2>6. DownAt(t, m) = {}
    BY <2>2, <2>3, <2>4, <2>5 DEF DownAt
  <2> QED
    BY <2>2, <2>6 DEF t
<1>8. ASSUME NEW p \in Pids, Flush(p), fate[m] # "flushed"
      PROVE  DownAt(inbox'[mon'[m].origin], m) = {}
  <2>1. /\ pend[p] # None /\ pend[p].op = "flush" /\ UNCHANGED mon
        /\ fate' = [fate EXCEPT ![pend[p].mon] = "flushed"]
        /\ \/ DownsOf(p, pend[p].mon) = {} /\ UNCHANGED inbox
           \/ \E i \in DownsOf(p, pend[p].mon) : inbox' = [inbox EXCEPT ![p] = RemoveAt(@, i)]
    BY <1>8, Zenon DEF Flush
  <2>2. pend[p].mon = m
    BY <1>1, <1>4, <1>8, <2>1 DEF TypeOK
  <2>3. mon[m].origin = p
    BY <1>1, <2>1, <2>2 DEF FlushPending
  <2>4. DownsOf(p, m) = DownAt(inbox[p], m)
    BY DEF DownsOf, DownAt
  <2>5. CASE DownsOf(p, m) = {} /\ UNCHANGED inbox
    BY <2>1, <2>3, <2>4, <2>5
  <2>6. ASSUME NEW i \in DownAt(inbox[p], m), inbox' = [inbox EXCEPT ![p] = RemoveAt(@, i)]
        PROVE  DownAt(inbox'[p], m) = {}
    <3>1. inbox[p] \in Seq(Msgs) /\ inbox'[p] = RemoveAt(inbox[p], i)
      BY <1>1, <2>6 DEF TypeOK
    <3>2. \A j \in DownAt(inbox[p], m) : j = i
      BY <2>4, <2>6 DEF InboxHistory
    <3> QED
      BY <3>1, <3>2, RemoveOnly
  <2> QED
    BY <2>1, <2>2, <2>3, <2>4, <2>5, <2>6
<1>9. \/ \E k \in Mons : KillMonitor(k)
      \/ \E p, q \in Pids, k \in Mons : monitor(p, q, k)
      \/ /\ BoxesKept /\ mon'[m] = mon[m]
         /\ fate[m] = "flushed" \/ \E p \in Pids : Flush(p)
  <2>1. KillStarts \/ StackMoves \/ Quiet \/ LinkStep \/ NameStep \/ EndKill
          => UNCHANGED <<mon, fate>>
    BY Zenon DEF KillStarts, BeginKill, StackMoves, Quiet, LinkStep, NameStep,
       EndKill, register, unregister, spawn, spawnLink, unlink
  <2>2. ASSUME NEW p \in Pids, NEW k \in Mons, demonitor(p, k) \/ demonitorFlush(p, k)
        PROVE  fate[m] = "flushed" /\ UNCHANGED mon
    <3>1. /\ fate' = [fate EXCEPT ![k] = IF @ = "watching" THEN "cancelled" ELSE @]
          /\ UNCHANGED mon
      BY <2>2, Zenon DEF demonitor, demonitorFlush
    <3> QED
      BY <1>1, <1>4, <3>1 DEF TypeOK
  <2>3. (\E p \in Pids : Flush(p)) => UNCHANGED mon
    BY Zenon DEF Flush
  <2> QED
    BY <1>1, <1>4, <2>1, <2>2, <2>3, StepCases, BoxCases, Zenon DEF MonitorStep
<1> QED
  BY <1>5, <1>6, <1>7, <1>8, <1>9

(* THEOREM: once demonitor&flush has returned, no DOWN message of its       *)
(* monitor is or comes to be in the inbox (demonitor&flush, @kill, receive),*)
(* although the target may die between its two halves.                      *)
THEOREM FlushedStaysGone == Spec => []FlushedIsGone
<1>1. Init => InboxHistory /\ FlushedIsGone
  BY DEF Init, InboxHistory, FlushedIsGone, DownsOf
<1>2. MonitorInv /\ InboxHistory /\ FlushedIsGone /\ [Next]_pvars
        => InboxHistory' /\ FlushedIsGone'
  BY InboxStep, FlushedStep
<1> QED
  BY <1>1, <1>2, MonitorInvariant, PTL DEF Spec

-----------------------------------------------------------------------------
(* Exit signals *)

(* Every process that activation f has visited is dead, or knows, or need   *)
(* not know, when the processes have this status and these inboxes.         *)
Signalled(f, st, tr, box) ==
  \A q \in f.linked \ f.todo :
    st[q] = "alive" =>
      \/ f.reason = "normal" /\ ~tr[q]
      \/ \E j \in 1..Len(box[q]) : box[q][j] = EXITmsg(f.proc, f.reason)

(* In a cascade, live processes only get messages. *)
Grows ==
  \A q \in Pids :
    Alive(q)' => /\ Alive(q) /\ trap'[q] = trap[q]
                 /\ \A j \in 1..Len(inbox[q]) :
                      j \in 1..Len(inbox'[q]) /\ inbox'[q][j] = inbox[q][j]

(* A process that was signalled stays so as inboxes grow. *)
LEMMA SignalledStays ==
  ASSUME NEW f \in Frames, Grows, Signalled(f, status, trap, inbox)
  PROVE  Signalled(f, status', trap', inbox')
<1>1. ASSUME NEW q \in f.linked \ f.todo, Alive(q)'
      PROVE  \/ f.reason = "normal" /\ ~trap'[q]
             \/ \E j \in 1..Len(inbox'[q]) : inbox'[q][j] = EXITmsg(f.proc, f.reason)
  <2>1. q \in Pids
    BY DEF Frames
  <2>2. /\ Alive(q) /\ trap'[q] = trap[q]
        /\ \A j \in 1..Len(inbox[q]) :
             j \in 1..Len(inbox'[q]) /\ inbox'[q][j] = inbox[q][j]
    BY <1>1, <2>1 DEF Grows
  <2>3. \/ f.reason = "normal" /\ ~trap[q]
        \/ \E j \in 1..Len(inbox[q]) : inbox[q][j] = EXITmsg(f.proc, f.reason)
    BY <2>2 DEF Signalled, Alive
  <2> QED
    BY <2>2, <2>3
<1> QED
  BY <1>1 DEF Signalled, Alive

(* Delivering only adds to an inbox. *)
LEMMA DeliverGrows ==
  ASSUME TypeOK, NEW p \in Pids, NEW msg \in Msgs, inbox' = Deliver(inbox, p, msg),
         UNCHANGED <<status, trap>>
  PROVE  Grows
<1>1. ASSUME NEW q \in Pids, NEW j \in 1..Len(inbox[q])
      PROVE  j \in 1..Len(inbox'[q]) /\ inbox'[q][j] = inbox[q][j]
  <2>1. inbox[q] \in Seq(Msgs) /\ (inbox'[q] = inbox[q] \/ inbox'[q] = Append(inbox[q], msg))
    BY DEF TypeOK, Deliver
  <2> QED
    BY <2>1
<1> QED
  BY <1>1 DEF Grows, Alive

(* A kill that begins only ends a process. *)
LEMMA BeginKillGrows ==
  ASSUME TypeOK, NEW p \in Pids, NEW r, NEW callers, BeginKill(p, r, callers)
  PROVE  Grows
<1>1. \/ UNCHANGED <<status, trap, inbox>>
      \/ /\ status' = [status EXCEPT ![p] = "dead"]
         /\ trap' = [trap EXCEPT ![p] = FALSE]
         /\ inbox' = [inbox EXCEPT ![p] = <<>>]
  BY Zenon DEF BeginKill
<1>2. CASE UNCHANGED <<status, trap, inbox>>
  BY <1>2 DEF Grows, Alive
<1>3. ASSUME status' = [status EXCEPT ![p] = "dead"],
             trap' = [trap EXCEPT ![p] = FALSE], inbox' = [inbox EXCEPT ![p] = <<>>]
      PROVE  Grows
  <2>1. ASSUME NEW q \in Pids, Alive(q)'
        PROVE  Alive(q) /\ trap'[q] = trap[q] /\ inbox'[q] = inbox[q]
    BY <1>3, <2>1 DEF Alive, TypeOK
  <2> QED
    BY <2>1 DEF Grows
<1> QED
  BY <1>1, <1>2, <1>3

(* Every step keeps the linked processes that were visited signalled. *)
LEMMA SignalledStep ==
  ASSUME TypeOK, LinkedAreSignalled, [Next]_pvars
  PROVE  LinkedAreSignalled'
<1>1. CASE halted
  <2>1. ASSUME NEW p \in Pids, UserStep(p) PROVE FALSE
    BY <1>1, <2>1, Zenon DEF UserStep, spawn, spawnLink, link, unlink, send, finish, kill,
       monitor, demonitor, demonitorFlush, RemoveMonitor, Flush, processTrapExit, whereis,
       unregister, register, sendFound, receive, Running
  <2>2. ~KillStep
    BY <1>1, Zenon DEF KillStep, KillLinked, KillMonitor, EndKill
  <2>3. halted'
    BY <1>1, <2>1, <2>2, Zenon DEF Next, pvars
  <2> QED
    BY <2>3 DEF LinkedAreSignalled
<1>2. SUFFICES ASSUME ~halted, ~halted' PROVE LinkedAreSignalled'
  BY <1>1 DEF LinkedAreSignalled
<1>3. \A i \in 1..Len(stack) : stack[i] \in Frames /\ Signalled(stack[i], status, trap, inbox)
  BY <1>2 DEF LinkedAreSignalled, Signalled, Alive, TypeOK
<1>4. SUFFICES ASSUME NEW i \in 1..Len(stack') PROVE Signalled(stack'[i], status', trap', inbox')
  BY DEF LinkedAreSignalled, Signalled, Alive
<1>5. ASSUME NEW p \in Pids, NEW r \in Reasons, NEW callers \in Seq(Frames),
             BeginKill(p, r, callers),
             \A k \in 1..Len(callers) : Signalled(callers[k], status', trap', inbox')
      PROVE  Signalled(stack'[i], status', trap', inbox')
  <2> DEFINE f == [proc |-> p, reason |-> r, linked |-> links[p], todo |-> links[p]]
  <2>1. stack' = <<f>> \o callers
    BY <1>2, <1>5, Zenon DEF BeginKill
  <2>2. f.linked \ f.todo = {} /\ f \in Frames
    BY DEF Frames, TypeOK
  <2> HIDE DEF f
  <2>3. CASE i = 1
    <3>1. stack'[i] = f
      BY <2>1, <2>2, <2>3
    <3> QED
      BY <3>1, <2>2 DEF Signalled
  <2>4. CASE i # 1
    <3>1. stack'[i] = callers[i - 1] /\ i - 1 \in 1..Len(callers)
      BY <2>1, <2>2, <2>4, <1>4
    <3> QED
      BY <3>1, <1>5, <2>4 DEF Signalled
  <2> QED
    BY <2>3, <2>4
<1>6. ASSUME NEW q \in Pids, KillLinked(q) PROVE Signalled(stack'[i], status', trap', inbox')
  <2> DEFINE f == Head(stack)
             g == [f EXCEPT !.todo = @ \ {q}]
             rest == <<g>> \o Tail(stack)
  <2>1. stack # <<>> /\ f \in Frames /\ Tail(stack) \in Seq(Frames) /\ q \in f.todo
    BY <1>6 DEF KillLinked, TypeOK
  <2>2. /\ g \in Frames /\ g.proc = f.proc /\ g.reason = f.reason
        /\ g.linked = f.linked /\ g.todo = f.todo \ {q}
    BY <2>1 DEF Frames
  <2>3. f = stack[1] /\ 1 \in 1..Len(stack) /\ Signalled(f, status, trap, inbox)
    BY <1>3, <2>1 DEF TypeOK
  <2>4. f.reason \in Reasons /\ f.proc \in Pids
    BY <2>1 DEF Frames
  <2>5. \/ Signal(q, f.reason) = "kill" /\ BeginKill(q, f.reason, rest)
        \/ /\ Signal(q, f.reason) # "kill"
           /\ stack' = rest
           /\ inbox' = IF Signal(q, f.reason) = "tell"
                       THEN Deliver(inbox, q, EXITmsg(f.proc, f.reason)) ELSE inbox
           /\ UNCHANGED <<status, trap>>
    BY <1>6, Zenon DEF KillLinked
  <2>6. /\ rest \in Seq(Frames) /\ rest[1] = g /\ Len(rest) = Len(stack)
        /\ \A k \in 1..Len(rest) : k # 1 => rest[k] = stack[k]
    BY <2>1, <2>2 DEF TypeOK
  <2>7. EXITmsg(f.proc, f.reason) \in Msgs
    BY <2>4 DEF EXITmsg, Msgs
  <2> HIDE DEF f, g, rest
  <2>8. Grows
    <3>1. CASE UNCHANGED <<status, trap, inbox>>
      BY <3>1 DEF Grows, Alive
    <3> QED
      BY <2>5, <2>7, <3>1, BeginKillGrows, DeliverGrows
  <2>9. Signalled(f, status', trap', inbox')
    BY <2>1, <2>3, <2>8, SignalledStays
  <2>10. Alive(q)' => \/ f.reason = "normal" /\ ~trap'[q]
                      \/ \E j \in 1..Len(inbox'[q]) : inbox'[q][j] = EXITmsg(f.proc, f.reason)
    <3>1. CASE Signal(q, f.reason) = "kill"
      <4>1. status' = [status EXCEPT ![q] = "dead"]
        BY <1>2, <2>5, <3>1, Zenon DEF BeginKill
      <4> QED
        BY <4>1 DEF Alive, TypeOK
    <3>2. CASE Signal(q, f.reason) = "tell"
      <4>1. Alive(q) /\ inbox' = Deliver(inbox, q, EXITmsg(f.proc, f.reason))
        BY <2>5, <3>2 DEF Signal
      <4>2. inbox'[q] = Append(inbox[q], EXITmsg(f.proc, f.reason)) /\ inbox[q] \in Seq(Msgs)
        BY <4>1 DEF Deliver, TypeOK
      <4>3. inbox'[q][Len(inbox[q]) + 1] = EXITmsg(f.proc, f.reason)
            /\ Len(inbox[q]) + 1 \in 1..Len(inbox'[q])
        BY <4>2, <2>7
      <4> QED
        BY <4>3
    <3>3. CASE Signal(q, f.reason) \notin {"kill", "tell"}
      <4>1. ~Alive(q) \/ (~trap[q] /\ f.reason = "normal")
        BY <3>3 DEF Signal
      <4>2. UNCHANGED <<status, trap>>
        BY <2>5, <3>3
      <4> QED
        BY <4>1, <4>2 DEF Alive
    <3> QED
      BY <3>1, <3>2, <3>3
  <2>11. ASSUME NEW k \in 1..Len(rest) PROVE Signalled(rest[k], status', trap', inbox')
    <3>1. CASE k = 1
      <4>1. \A x \in g.linked \ g.todo : x = q \/ x \in f.linked \ f.todo
        BY <2>2
      <4>2. ASSUME NEW x \in g.linked \ g.todo, Alive(x)'
            PROVE  \/ g.reason = "normal" /\ ~trap'[x]
                   \/ \E j \in 1..Len(inbox'[x]) : inbox'[x][j] = EXITmsg(g.proc, g.reason)
        BY <2>2, <2>9, <2>10, <4>1, <4>2 DEF Signalled, Alive
      <4> QED
        BY <2>6, <3>1, <4>2 DEF Signalled, Alive
    <3>2. CASE k # 1
      <4>1. rest[k] = stack[k] /\ k \in 1..Len(stack)
        BY <2>6, <3>2
      <4>2. Signalled(stack[k], status, trap, inbox) /\ stack[k] \in Frames
        BY <1>3, <4>1
      <4> QED
        BY <4>1, <4>2, <2>8, SignalledStays
    <3> QED
      BY <3>1, <3>2
  <2>12. CASE stack' = rest
    BY <1>4, <2>11, <2>12 DEF Signalled
  <2>13. CASE BeginKill(q, f.reason, rest)
    BY <1>5, <2>4, <2>6, <2>11, <2>13
  <2> QED
    BY <2>5, <2>12, <2>13
<1>7. ASSUME NEW m \in Mons, KillMonitor(m) PROVE Signalled(stack'[i], status', trap', inbox')
  <2> DEFINE msg == DOWNmsg(m, Head(stack).proc, Head(stack).reason)
  <2>1. /\ stack # <<>> /\ m \in monitors[Head(stack).proc] /\ UNCHANGED <<stack, status, trap>>
        /\ UNCHANGED inbox \/ inbox' = Deliver(inbox, mon[m].origin, msg)
    BY <1>7, Zenon DEF KillMonitor
  <2>2. Head(stack) \in Frames
    BY <2>1 DEF TypeOK
  <2>3. Head(stack).proc \in Pids /\ Head(stack).reason \in Reasons
    BY <2>2 DEF Frames
  <2>4. msg \in Msgs
    BY <2>3 DEF DOWNmsg, Msgs
  <2>5. mon[m] # None
    BY <2>1, <2>3 DEF TypeOK
  <2>6. mon[m].origin \in Pids
    BY <2>5, MonEnds
  <2> HIDE DEF msg
  <2>7. CASE UNCHANGED inbox
    BY <1>3, <1>4, <2>1, <2>7
  <2>8. CASE inbox' = Deliver(inbox, mon[m].origin, msg)
    <3>1. Grows
      BY <2>1, <2>4, <2>6, <2>8, DeliverGrows
    <3> QED
      BY <1>3, <1>4, <2>1, <3>1, SignalledStays
  <2> QED
    BY <2>1, <2>7, <2>8
<1>8. CASE EndKill
  <2>1. stack # <<>> /\ stack' = Tail(stack) /\ UNCHANGED <<status, trap, inbox>>
    BY <1>8, Zenon DEF EndKill
  <2>2. stack'[i] = stack[i + 1] /\ i + 1 \in 1..Len(stack)
    BY <1>4, <2>1 DEF TypeOK
  <2> QED
    BY <1>3, <2>1, <2>2
<1>9. ASSUME NEW p \in Pids, NEW r \in Reasons, BeginKill(p, r, <<>>)
      PROVE  Signalled(stack'[i], status', trap', inbox')
  <2> DEFINE callers == <<>>
  <2>1. callers \in Seq(Frames) /\ Len(callers) = 0
    OBVIOUS
  <2>2. BeginKill(p, r, callers)
    BY <1>9
  <2> HIDE DEF callers
  <2>3. \A k \in 1..Len(callers) : Signalled(callers[k], status', trap', inbox')
    BY <2>1
  <2> QED
    BY <1>5, <2>1, <2>2, <2>3
<1>10. ASSUME NEW p \in Pids, UserStep(p)
       PROVE  \/ UNCHANGED stack
              \/ \E q \in Pids, r \in Reasons : BeginKill(q, r, <<>>)
  <2>1. ASSUME NEW q \in Pids, link(p, q)
        PROVE  UNCHANGED stack \/ \E r \in Reasons : BeginKill(p, r, <<>>)
    <3>1. CASE Alive(q) \/ trap[p] \/ reason[q] = "normal"
      BY <2>1, <3>1, Zenon DEF link, pvars
    <3>2. CASE ~Alive(q) /\ ~trap[p] /\ reason[q] # "normal"
      <4>1. BeginKill(p, reason[q], <<>>)
        BY <2>1, <3>2, Zenon DEF link
      <4>2. reason[q] \in Reasons
        BY <2>1, <3>2 DEF link, Born, Alive, TypeOK
      <4> QED
        BY <4>1, <4>2
    <3> QED
      BY <3>1, <3>2
  <2>2. ASSUME NEW q \in Pids, NEW r \in Reasons, kill(p, q, r)
        PROVE  UNCHANGED stack \/ \E x \in Reasons : BeginKill(q, x, <<>>)
    <3>1. "killed" \in Reasons
      OBVIOUS
    <3> QED
      BY <2>2, <3>1, Zenon DEF kill, pvars
  <2>3. (\E r \in Reasons : finish(p, r)) => \E r \in Reasons : BeginKill(p, r, <<>>)
    BY Zenon DEF finish
  <2> QED
    BY <1>10, <2>1, <2>2, <2>3, Zenon DEF UserStep, spawn, spawnLink, unlink, send, monitor,
       demonitor, demonitorFlush, Flush, processTrapExit, whereis, unregister, register,
       sendFound, receive
<1>11. ASSUME NEW p \in Pids, UserStep(p), UNCHANGED stack PROVE FALSE
  <2>1. stack = <<>>
    BY <1>11, Zenon DEF UserStep, spawn, spawnLink, link, unlink, send, finish, kill,
       monitor, demonitor, demonitorFlush, RemoveMonitor, Flush, processTrapExit, whereis,
       unregister, register, sendFound, receive, Running
  <2> QED
    BY <1>4, <1>11, <2>1
<1>12. CASE UNCHANGED pvars
  BY <1>3, <1>4, <1>12 DEF pvars
<1> QED
  BY <1>6, <1>7, <1>8, <1>9, <1>10, <1>11, <1>12, Zenon DEF Next, KillStep

(* THEOREM: in a cascade of exits (@kill, @kill-linked) every process that  *)
(* was linked to a dying one and has been visited is dead, has been told,   *)
(* or need not be told, however deep the recursion and whatever the graph.  *)
THEOREM LinkedAlwaysSignalled == Spec => []LinkedAreSignalled
<1>1. Init => LinkedAreSignalled
  BY DEF Init, LinkedAreSignalled
<1>2. TypeOK /\ LinkedAreSignalled /\ [Next]_pvars => LinkedAreSignalled'
  BY SignalledStep
<1> QED
  BY <1>1, <1>2, TypeCorrect, PTL DEF Spec
=============================================================================
