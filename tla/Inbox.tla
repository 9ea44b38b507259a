-------------------------------- MODULE Inbox --------------------------------
(***************************************************************************)
(* What receive promises (src/doc/swish/erlang.tex, "receive"): messages   *)
(* are kept in the order of their arrival; a receive takes the first that  *)
(* it accepts, and gives up only when the inbox holds none.  Mailbox       *)
(* implements this with a linked list and a cursor.                        *)
(*                                                                         *)
(* A message is the number of its arrival.  One receive is under way at a  *)
(* time: the promise does not extend to trap-exit handlers that receive    *)
(* messages themselves.                                                    *)
(***************************************************************************)
EXTENDS Naturals, Sequences

CONSTANTS Kinds,    \* kinds of messages a receive can tell apart
          MaxMsgs   \* bound: how many messages arrive

VARIABLES
  kind,     \* the messages that have arrived, by number: their contents
  box,      \* the messages that have not been received
  wants,    \* the kinds accepted by the receive under way, if there is one
  outcome   \* how the last receive (or trap-exit handler) got its message

ivars == <<kind, box, wants, outcome>>

(* The messages of kinds S in the inbox *)
Of(S) == {m \in box : kind[m] \in S}

Init == kind = <<>> /\ box = {} /\ wants = {} /\ outcome = <<"none", 0>>

Put(k) ==
  /\ Len(kind) < MaxMsgs
  /\ kind' = Append(kind, k)
  /\ box' = box \cup {Len(kind) + 1}
  /\ UNCHANGED <<wants, outcome>>

Ask(S) ==
  /\ wants = {}
  /\ wants' = {S}
  /\ UNCHANGED <<kind, box, outcome>>

(* The first message of kinds S is received. *)
Take(S) ==
  /\ \E m \in Of(S) :
       /\ \A n \in Of(S) : m <= n
       /\ box' = box \ {m}
       /\ outcome' = <<"message", m>>
  /\ UNCHANGED kind

(* The receive under way gets the first message it accepts ... *)
Answer == \E S \in wants : Take(S) /\ wants' = {}

(* ... or finds none in time ... *)
GiveUp ==
  /\ \E S \in wants : Of(S) = {}
  /\ wants' = {}
  /\ outcome' = <<"timeout", 0>>
  /\ UNCHANGED <<kind, box>>

(* ... or is left because a trap-exit handler raises an exception. *)
Abandon ==
  /\ wants' = {}
  /\ outcome' = <<"raised", 0>>
  /\ UNCHANGED <<kind, box>>

(* The first EXIT message is taken for the trap-exit handler. *)
TakeEXIT == Take({"EXIT"}) /\ UNCHANGED wants

Next ==
  \/ \E k \in Kinds : Put(k)
  \/ \E S \in SUBSET Kinds : Ask(S)
  \/ Answer \/ GiveUp \/ Abandon \/ TakeEXIT

Spec == Init /\ [][Next]_ivars
=============================================================================
