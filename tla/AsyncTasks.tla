---------------------------- MODULE AsyncTasks ----------------------------
(***************************************************************************)
(* AsyncTask and AsyncTaskLooper.  Tasks are executed by one looper, a     *)
(* child of the main looper that is created when the first task asks for   *)
(* it.  A task is executed on its behalf between two synchronous messages  *)
(* to the task's home; while the looper waits for them it runs a nested    *)
(* loop, in which further tasks come in.                                   *)
(*                                                                         *)
(* The main looper may quit meanwhile.  Loopers that stop and are replaced *)
(* are told apart by a generation.                                         *)
(***************************************************************************)
EXTENDS Naturals, Sequences, FiniteSets

CONSTANTS
  Tasks,
  Inner,   \* the tasks that are started by the Run of another one
  None

ASSUME TasksAssumption == IsFiniteSet(Tasks) /\ Inner \subseteq Tasks /\ None \notin Tasks

VARIABLES
  main,     \* the main looper: "running", "quitting" (after OnDestroy) or "stopped"
  gen,      \* generation of the AsyncTaskLooper, 0 before the first
  alive,    \* it runs
  told,     \* BM_QUIT was posted to it
  caller,   \* how far the caller of Execute is
  held,     \* the looper that the caller has in its hands
  box,      \* BM_ADD_TASK messages in the looper's list
  mBusying,
  mTasks,
  stack,    \* calls of DoTask, innermost last
  executed  \* tasks whose DoTask has returned

vars == <<main, gen, alive, told, caller, held, box, mBusying, mTasks, stack, executed>>

looperVars == <<mBusying, mTasks, stack, executed>>
lifeVars == <<main, gen, alive, told>>

Stage == {"pre", "run", "post"}

TypeOK ==
  /\ main \in {"running", "quitting", "stopped"}
  /\ gen \in 0..Cardinality(Tasks) /\ alive \in BOOLEAN /\ told \in BOOLEAN
  /\ caller \in [Tasks -> {"new", "find", "create", "add", "added", "refused", "failed"}]
  /\ held \in [Tasks -> 0..Cardinality(Tasks)]
  /\ box \in Seq(Tasks) /\ mTasks \in Seq(Tasks)
  /\ mBusying \in BOOLEAN /\ mBusying = (stack # <<>>)
  /\ stack \in Seq([task : Tasks, stage : Stage])
  /\ executed \subseteq Tasks

Init ==
  /\ main = "running" /\ gen = 0 /\ alive = FALSE /\ told = FALSE
  /\ caller = [t \in Tasks |-> "new"] /\ held = [t \in Tasks |-> 0]
  /\ box = <<>> /\ mBusying = FALSE /\ mTasks = <<>> /\ stack = <<>> /\ executed = {}

----------------------------------------------------------------------------
(* Execute, in the looper that the task belongs to *)

Execute(t) ==
  /\ caller[t] = "new"
  /\ t \in Inner => stack # <<>> /\ stack[Len(stack)].stage = "run"
  /\ caller' = [caller EXCEPT ![t] = "find"]
  /\ UNCHANGED <<lifeVars, looperVars, held, box>>

\* FindObject, answered by the main looper while that runs.  A looper that has stopped is found
\* until it is deleted.
Found == gen > 0 /\ main # "stopped"
Missing == ~alive \/ main = "stopped"

FindLooper(t) ==
  /\ caller[t] = "find"
  /\ \/ Found /\ caller' = [caller EXCEPT ![t] = "add"] /\ held' = [held EXCEPT ![t] = gen]
     \/ Missing /\ caller' = [caller EXCEPT ![t] = "create"] /\ UNCHANGED held
  /\ UNCHANGED <<lifeVars, looperVars, box>>

CreateLooperUnseen(t) ==
  /\ caller[t] = "create"
  /\ gen' = gen + 1 /\ alive' = TRUE /\ told' = FALSE
  /\ caller' = [caller EXCEPT ![t] = "add"]
  /\ held' = [held EXCEPT ![t] = gen']
  /\ UNCHANGED <<main, looperVars, box>>
CreateLooperAgain(t) ==
  /\ caller[t] = "create" /\ main # "stopped"
  /\ gen' = (IF alive THEN gen ELSE gen + 1) /\ alive' = TRUE /\ told' = FALSE
  /\ caller' = [caller EXCEPT ![t] = "add"]
  /\ held' = [held EXCEPT ![t] = gen']
  /\ UNCHANGED <<main, looperVars, box>>

\* The runnable sent to the main looper: it looks again, and creates and starts the looper if
\* there is none.  AddChild to a main looper that is destroyed destroys the new looper, but that
\* one does not run yet and Destroy has no effect: nobody tells it to quit.
CreateLooper(t) ==
  /\ caller[t] = "create"
  /\ \/ /\ main = "stopped"
        /\ caller' = [caller EXCEPT ![t] = "failed"]
        /\ UNCHANGED <<held, lifeVars>>
     \/ /\ Found
        /\ caller' = [caller EXCEPT ![t] = "add"] /\ held' = [held EXCEPT ![t] = gen]
        /\ UNCHANGED lifeVars
     \/ /\ main # "stopped" /\ Missing
        /\ gen' = gen + 1 /\ alive' = TRUE /\ told' = FALSE
        /\ caller' = [caller EXCEPT ![t] = "add"] /\ held' = [held EXCEPT ![t] = gen']
        /\ UNCHANGED main
  /\ UNCHANGED <<looperVars, box>>

\* AddTask: a looper that has stopped drops the message, and the task with it.
AddTask(t) ==
  /\ caller[t] = "add"
  /\ IF alive /\ held[t] = gen
     THEN caller' = [caller EXCEPT ![t] = "added"] /\ box' = Append(box, t)
     ELSE caller' = [caller EXCEPT ![t] = "refused"] /\ UNCHANGED box
  /\ UNCHANGED <<lifeVars, looperVars, held>>

----------------------------------------------------------------------------
(* The AsyncTaskLooper *)

Frame(t) == [task |-> t, stage |-> "pre"]

OnAddTaskNested ==
  /\ box # <<>> /\ box' = Tail(box)
  /\ stack' = Append(stack, Frame(Head(box))) /\ mBusying' = TRUE
  /\ UNCHANGED <<lifeVars, caller, held, mTasks, executed>>

\* BM_ADD_TASK, in the loop or in a loop nested in DoTask.
OnAddTask ==
  /\ box # <<>> /\ box' = Tail(box)
  /\ IF mBusying
     THEN mTasks' = Append(mTasks, Head(box)) /\ UNCHANGED <<mBusying, stack>>
     ELSE stack' = Append(stack, Frame(Head(box))) /\ mBusying' = TRUE /\ UNCHANGED mTasks
  /\ UNCHANGED <<lifeVars, caller, held, executed>>

\* DoTask: BM_PRE_EXECUTE was answered, or Run has returned.
DoTask ==
  /\ stack # <<>> /\ stack[Len(stack)].stage # "post"
  /\ stack' = [stack EXCEPT ![Len(stack)].stage = IF @ = "pre" THEN "run" ELSE "post"]
  /\ UNCHANGED <<lifeVars, caller, held, box, mBusying, mTasks, executed>>

EndTaskBusy ==
  /\ stack # <<>> /\ stack[Len(stack)].stage = "post"
  /\ executed' = executed \cup {stack[Len(stack)].task}
  /\ stack' = SubSeq(stack, 1, Len(stack) - 1)
  /\ UNCHANGED <<lifeVars, caller, held, box, mBusying, mTasks>>
EndTaskOnly ==
  /\ stack # <<>> /\ stack[Len(stack)].stage = "post"
  /\ executed' = executed \cup {stack[Len(stack)].task}
  /\ stack' = SubSeq(stack, 1, Len(stack) - 1) /\ mBusying' = FALSE
  /\ UNCHANGED <<lifeVars, caller, held, box, mTasks>>

\* BM_POST_EXECUTE was answered: DoTask returns, and OnMessage goes on with the tasks that came
\* in meanwhile.
EndTask ==
  /\ stack # <<>> /\ stack[Len(stack)].stage = "post"
  /\ executed' = executed \cup {stack[Len(stack)].task}
  /\ LET outer == SubSeq(stack, 1, Len(stack) - 1)
     IN  IF mTasks = <<>>
         THEN stack' = outer /\ mBusying' = FALSE /\ UNCHANGED mTasks
         ELSE /\ stack' = Append(outer, Frame(Head(mTasks))) /\ mBusying' = TRUE
              /\ mTasks' = Tail(mTasks)
  /\ UNCHANGED <<lifeVars, caller, held, box>>

\* The end of the looper's Run.
StopLooper ==
  /\ alive /\ told /\ stack = <<>> /\ box = <<>>
  /\ alive' = FALSE /\ told' = FALSE
  /\ UNCHANGED <<main, gen, caller, held, box, looperVars>>

\* BM_QUIT and BM_DESTROY of the main looper: its child looper is told.
QuitMain ==
  /\ main = "running"
  /\ main' = "quitting" /\ told' = alive
  /\ UNCHANGED <<gen, alive, caller, held, box, looperVars>>

\* The main looper stops when no child is left.
StopMain ==
  /\ main = "quitting" /\ ~alive
  /\ main' = "stopped"
  /\ UNCHANGED <<gen, alive, told, caller, held, box, looperVars>>

CallerStep(t) == FindLooper(t) \/ CreateLooper(t) \/ AddTask(t)
LooperStep == OnAddTask \/ DoTask \/ EndTask

Next ==
  \/ \E t \in Tasks : Execute(t) \/ CallerStep(t)
  \/ LooperStep \/ StopLooper \/ QuitMain \/ StopMain

Spec ==
  /\ Init /\ [][Next]_vars
  /\ \A t \in Tasks : WF_vars(CallerStep(t))
  /\ WF_vars(DoTask \/ EndTask) /\ WF_vars(OnAddTask) /\ WF_vars(StopLooper) /\ WF_vars(StopMain)

----------------------------------------------------------------------------
(* Properties *)

\* Tasks are executed one at a time and in the order in which they were taken, however
\* BM_ADD_TASK comes in while a task waits in DoTask, and none is forgotten.
Serial == INSTANCE SerialExecutor WITH
            queue <- mTasks \o box,
            current <- IF stack = <<>> THEN None ELSE stack[1].task,
            finished <- executed
ImplementsSerial == Serial!Spec

\* Callers on several loopers that all find no AsyncTaskLooper do not create two of them: a new
\* one is only made when there is none.
OneLooper == [][gen' # gen => ~alive]_vars

\* A looper that has stopped leaves no task behind that it had taken.
NoTaskLeft == ~alive => \A t \in Tasks : caller[t] = "added" => t \in executed

\* The main looper, once it quits, comes to its end: a child that is added to a destroyed parent
\* is destroyed at once (AddChildHelper), so that no new AsyncTaskLooper can hold it up.
MainStops == main = "quitting" ~> main = "stopped"

\* A looper that was told to quit stops, whatever comes in before.
QuitStops == \A g \in 1..Cardinality(Tasks) : (told /\ gen = g) ~> (~alive \/ gen # g)
=============================================================================
