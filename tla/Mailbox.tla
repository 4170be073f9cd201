------------------------------ MODULE Mailbox ------------------------------
(***************************************************************************)
(* What LooperImpl promises to the callers of postMessage and sendMessage. *)
(*                                                                         *)
(* A looper is a mailbox that is open until it stops.  A message is        *)
(* accepted while the mailbox is open and refused afterwards; an accepted  *)
(* message is taken exactly once, in the order of acceptance, and handled; *)
(* a mailbox closes only when it is empty; the caller of a synchronous     *)
(* send gets control back only after a refusal, or after the message was   *)
(* handled and its answer written.  Nothing is said of nesting, sockets,   *)
(* wake-ups or timers.                                                     *)
(***************************************************************************)
EXTENDS Sequences

CONSTANTS Loopers, MsgIds

VARIABLES
  box,      \* box[l]: accepted messages that were not taken yet
  open,     \* open[l]: l accepts messages
  fate,     \* what became of each message
  waiting,  \* synchronous sends whose caller has not got control back
  answered  \* messages whose answer was written

vars == <<box, open, fate, waiting, answered>>

Init ==
  /\ box = [l \in Loopers |-> <<>>]
  /\ open = [l \in Loopers |-> TRUE]
  /\ fate = [i \in MsgIds |-> "new"]
  /\ waiting = {}
  /\ answered = {}

Start(i) ==
  /\ fate[i] = "new"
  /\ fate' = [fate EXCEPT ![i] = "calling"]
  /\ waiting' \in {waiting, waiting \cup {i}}
  /\ UNCHANGED <<box, open, answered>>

Refuse(i, l) ==
  /\ fate[i] = "calling" /\ ~open[l]
  /\ fate' = [fate EXCEPT ![i] = "refused"]
  /\ waiting' = waiting \ {i}
  /\ UNCHANGED <<box, open, answered>>

Accept(i, l) ==
  /\ fate[i] = "calling" /\ open[l]
  /\ fate' = [fate EXCEPT ![i] = "queued"]
  /\ box' = [box EXCEPT ![l] = Append(@, i)]
  /\ UNCHANGED <<open, waiting, answered>>

Take(l) ==
  /\ box[l] # <<>> /\ open[l]
  /\ fate[Head(box[l])] = "queued"
  /\ fate' = [fate EXCEPT ![Head(box[l])] = "taken"]
  /\ box' = [box EXCEPT ![l] = Tail(@)]
  /\ UNCHANGED <<open, waiting, answered>>

Answer(i) ==
  /\ fate[i] = "taken" /\ i \in waiting
  /\ answered' = answered \cup {i}
  /\ UNCHANGED <<box, open, fate, waiting>>

Finish(i) ==
  /\ fate[i] = "taken"
  /\ i \in waiting => i \in answered
  /\ fate' = [fate EXCEPT ![i] = "handled"]
  /\ UNCHANGED <<box, open, waiting, answered>>

GetBack(i) ==
  /\ i \in waiting /\ fate[i] = "handled"
  /\ waiting' = waiting \ {i}
  /\ UNCHANGED <<box, open, fate, answered>>

Close(l) ==
  /\ open[l] /\ box[l] = <<>>
  /\ open' = [open EXCEPT ![l] = FALSE]
  /\ UNCHANGED <<box, fate, waiting, answered>>

Next ==
  \/ \E i \in MsgIds : Start(i) \/ Answer(i) \/ Finish(i) \/ GetBack(i)
  \/ \E i \in MsgIds, l \in Loopers : Accept(i, l) \/ Refuse(i, l)
  \/ \E l \in Loopers : Take(l) \/ Close(l)

Spec == Init /\ [][Next]_vars

=============================================================================
