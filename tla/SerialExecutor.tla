-------------------------- MODULE SerialExecutor --------------------------
(***************************************************************************)
(* What AsyncTaskLooper promises: the tasks it has taken are executed one  *)
(* at a time, in the order in which they were taken, and all of them.      *)
(***************************************************************************)
EXTENDS Sequences

CONSTANTS Tasks, None

VARIABLES
  queue,     \* tasks taken and not begun
  current,   \* the task under way, or None
  finished   \* tasks that are over

vars == <<queue, current, finished>>

Init == queue = <<>> /\ current = None /\ finished = {}

Take(t) ==
  /\ queue' = Append(queue, t)
  /\ UNCHANGED <<current, finished>>

Begin ==
  /\ current = None /\ queue # <<>>
  /\ current' = Head(queue) /\ queue' = Tail(queue)
  /\ UNCHANGED finished

\* The next task may begin in the same step.
Finish ==
  /\ current # None
  /\ finished' = finished \cup {current}
  /\ \/ current' = None /\ UNCHANGED queue
     \/ queue # <<>> /\ current' = Head(queue) /\ queue' = Tail(queue)

Next == (\E t \in Tasks : Take(t)) \/ Begin \/ Finish

Spec == Init /\ [][Next]_vars /\ WF_vars(Begin) /\ WF_vars(Finish)
=============================================================================
