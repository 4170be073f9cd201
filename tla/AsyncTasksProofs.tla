------------------------- MODULE AsyncTasksProofs -------------------------
(***************************************************************************)
(* Theorems about AsyncTasks, for every finite set of tasks: type          *)
(* correctness, that a looper which has stopped leaves no task behind,     *)
(* that there is one looper at a time, and that every step is a step of    *)
(* SerialExecutor.                                                         *)
(***************************************************************************)
EXTENDS AsyncTasks, SequenceTheorems, FiniteSetTheorems, TLAPS

Frames == [task : Tasks, stage : Stage]

\* The callers that are through with looking for a looper: each has made one at most.
Served == {t \in Tasks : caller[t] \in {"add", "added", "refused", "failed"}}

Listed(t, s) == \E i \in 1..Len(s) : s[i] = t

\* A task that was taken is somewhere.
Taken(t) ==
  \/ t \in executed
  \/ Listed(t, box) \/ Listed(t, mTasks)
  \/ stack # <<>> /\ stack[1].task = t

\* DoTask does not nest, and tasks wait in mTasks only while it runs.
OneTask == Len(stack) <= 1 /\ (stack = <<>> => mTasks = <<>>)

Inv ==
  /\ TypeOK
  /\ OneTask
  /\ ~alive => stack = <<>> /\ box = <<>>
  /\ gen <= Cardinality(Served)
  /\ \A t \in Tasks : caller[t] = "added" => Taken(t)

----------------------------------------------------------------------------
(* Sequences *)

\* What is appended to the second part is appended to the whole.
LEMMA AppendToConcat ==
  ASSUME NEW S, NEW s \in Seq(S), NEW t \in Seq(S), NEW e \in S
  PROVE  s \o Append(t, e) = Append(s \o t, e)
  <1>1. Append(t, e) = t \o <<e>> /\ <<e>> \in Seq(S)
    BY AppendIsConcat
  <1>2. s \o t \in Seq(S)
    BY ConcatProperties
  <1>3. Append(s \o t, e) = (s \o t) \o <<e>>
    BY <1>2, AppendIsConcat
  <1> QED BY <1>1, <1>3, ConcatAssociative

\* A sequence is its head and its tail.
LEMMA HeadThenTail ==
  ASSUME NEW S, NEW s \in Seq(S), s # <<>>
  PROVE  <<Head(s)>> \o Tail(s) = s
  <1>1. /\ Head(s) \in S /\ Tail(s) \in Seq(S) /\ Len(s) \in Nat \ {0}
        /\ Len(Tail(s)) = Len(s) - 1
        /\ \A i \in 1..Len(Tail(s)) : Tail(s)[i] = s[i + 1]
    BY HeadTailProperties, EmptySeq
  <1> DEFINE h == <<Head(s)>>
  <1>2. h \in Seq(S) /\ Len(h) = 1 /\ h[1] = s[1]
    BY <1>1
  <1> HIDE DEF h
  <1>3. /\ h \o Tail(s) \in Seq(S) /\ Len(h \o Tail(s)) = Len(s)
        /\ \A i \in 1..Len(s) : (h \o Tail(s))[i] = IF i <= 1 THEN h[i] ELSE Tail(s)[i - 1]
    <2>1. /\ h \o Tail(s) \in Seq(S) /\ Len(h \o Tail(s)) = Len(h) + Len(Tail(s))
          /\ \A i \in 1..Len(h) + Len(Tail(s)) :
               (h \o Tail(s))[i] = IF i <= Len(h) THEN h[i] ELSE Tail(s)[i - Len(h)]
      BY <1>1, <1>2, ConcatProperties
    <2>2. Len(h) + Len(Tail(s)) = Len(s)
      BY <1>1, <1>2
    <2> QED BY <1>2, <2>1, <2>2
  <1>4. \A i \in 1..Len(s) : (h \o Tail(s))[i] = s[i]
    BY <1>1, <1>2, <1>3
  <1>5. h \o Tail(s) = s
    BY <1>3, <1>4, SeqEqual
  <1> QED BY <1>5 DEF h

\* The head of the second part moves to the end of the first.
LEMMA MoveHead ==
  ASSUME NEW S, NEW s \in Seq(S), NEW t \in Seq(S), t # <<>>
  PROVE  Append(s, Head(t)) \o Tail(t) = s \o t
  <1>1. Head(t) \in S /\ Tail(t) \in Seq(S) /\ <<Head(t)>> \in Seq(S)
    BY HeadTailProperties
  <1>2. Append(s, Head(t)) = s \o <<Head(t)>>
    BY <1>1, AppendIsConcat
  <1>3. (s \o <<Head(t)>>) \o Tail(t) = s \o (<<Head(t)>> \o Tail(t))
    BY <1>1, ConcatAssociative
  <1> QED BY <1>2, <1>3, HeadThenTail

\* Head and tail of a sequence whose first part is not empty.
LEMMA HeadOfConcat ==
  ASSUME NEW S, NEW s \in Seq(S), NEW t \in Seq(S), s # <<>>
  PROVE  s \o t # <<>> /\ Head(s \o t) = Head(s) /\ Tail(s \o t) = Tail(s) \o t
  <1>1. /\ Tail(s) \in Seq(S) /\ Len(s) \in Nat \ {0} /\ Len(t) \in Nat
        /\ Len(Tail(s)) = Len(s) - 1
        /\ \A i \in 1..Len(Tail(s)) : Tail(s)[i] = s[i + 1]
    BY HeadTailProperties, EmptySeq, LenProperties
  <1> DEFINE u == s \o t
  <1>2. /\ u \in Seq(S) /\ Len(u) = Len(s) + Len(t)
        /\ \A i \in 1..Len(s) + Len(t) : u[i] = IF i <= Len(s) THEN s[i] ELSE t[i - Len(s)]
    BY ConcatProperties
  <1> HIDE DEF u
  <1>3. u # <<>>
    BY <1>1, <1>2
  <1>4. /\ Tail(u) \in Seq(S) /\ Len(Tail(u)) = Len(u) - 1
        /\ \A i \in 1..Len(Tail(u)) : Tail(u)[i] = u[i + 1]
    BY <1>2, <1>3, HeadTailProperties
  <1> DEFINE v == Tail(s) \o t
  <1>5. /\ v \in Seq(S) /\ Len(v) = Len(s) - 1 + Len(t)
        /\ \A i \in 1..Len(s) - 1 + Len(t) :
             v[i] = IF i <= Len(s) - 1 THEN Tail(s)[i] ELSE t[i - (Len(s) - 1)]
    BY <1>1, ConcatProperties
  <1> HIDE DEF v
  <1>6. \A i \in 1..Len(Tail(u)) : Tail(u)[i] = v[i]
    <2>1. SUFFICES ASSUME NEW i \in 1..Len(Tail(u)) PROVE Tail(u)[i] = v[i]
      OBVIOUS
    <2>2. /\ i \in Nat /\ i >= 1 /\ i + 1 \in 1..Len(s) + Len(t) /\ i \in 1..Len(s) - 1 + Len(t)
          /\ Tail(u)[i] = u[i + 1]
      BY <1>1, <1>2, <1>4
    <2>3. CASE i <= Len(s) - 1
      BY <2>2, <2>3, <1>1, <1>2, <1>5
    <2>4. CASE i > Len(s) - 1
      <3>1. (i + 1) - Len(s) = i - (Len(s) - 1)
        BY <2>2, <1>1
      <3>2. ~(i + 1 <= Len(s)) /\ ~(i <= Len(s) - 1)
        BY <2>2, <2>4, <1>1
      <3>3. u[i + 1] = t[(i + 1) - Len(s)]
        BY <2>2, <3>2, <1>2
      <3>4. v[i] = t[i - (Len(s) - 1)]
        BY <2>2, <3>2, <1>5
      <3> QED BY <2>2, <3>1, <3>3, <3>4
    <2> QED BY <2>2, <2>3, <2>4, <1>1
  <1>7. Tail(u) = v
    BY <1>1, <1>2, <1>4, <1>5, <1>6, SeqEqual
  <1>8. Head(u) = Head(s)
    BY <1>1, <1>2, <1>3
  <1> QED BY <1>3, <1>7, <1>8 DEF u, v

\* What is listed stays listed when something is appended, and so does what is appended.
LEMMA ListedAppend ==
  ASSUME NEW S, NEW s \in Seq(S), NEW e \in S
  PROVE  Listed(e, Append(s, e)) /\ \A t : Listed(t, s) => Listed(t, Append(s, e))
  BY AppendProperties, LenProperties DEF Listed

\* What is listed is the head or in the tail.
LEMMA ListedHead ==
  ASSUME NEW S, NEW s \in Seq(S), s # <<>>, NEW t, Listed(t, s)
  PROVE  t = Head(s) \/ Listed(t, Tail(s))
  <1>1. /\ Len(s) \in Nat \ {0} /\ Len(Tail(s)) = Len(s) - 1
        /\ \A i \in 1..Len(Tail(s)) : Tail(s)[i] = s[i + 1]
    BY HeadTailProperties, EmptySeq
  <1>2. PICK i \in 1..Len(s) : s[i] = t
    BY DEF Listed
  <1>3. CASE i = 1
    BY <1>2, <1>3
  <1>4. CASE i # 1
    <2>1. i - 1 \in 1..Len(Tail(s)) /\ Tail(s)[i - 1] = s[(i - 1) + 1] /\ (i - 1) + 1 = i
      BY <1>1, <1>4
    <2> QED BY <1>2, <2>1 DEF Listed
  <1> QED BY <1>3, <1>4

----------------------------------------------------------------------------
(* The inductive invariant *)

\* The number of loopers is bounded by the callers that were served.
LEMMA Bound ==
  ASSUME NEW A \in SUBSET Tasks, NEW B \in SUBSET Tasks, A \subseteq B,
         NEW g \in Nat, g <= Cardinality(A)
  PROVE  g <= Cardinality(B) /\ g \in 0..Cardinality(Tasks)
  <1>1. /\ IsFiniteSet(B) /\ Cardinality(B) <= Cardinality(Tasks)
        /\ IsFiniteSet(Tasks) /\ Cardinality(Tasks) \in Nat
    BY TasksAssumption, FS_Subset, FS_CardinalityType
  <1>2. Cardinality(A) <= Cardinality(B) /\ IsFiniteSet(A)
    BY <1>1, FS_Subset
  <1>3. Cardinality(A) \in Nat /\ Cardinality(B) \in Nat
    BY <1>1, <1>2, FS_CardinalityType
  <1> QED BY <1>1, <1>2, <1>3

\* One more caller was served.
LEMMA BoundPlus ==
  ASSUME NEW A \in SUBSET Tasks, NEW t \in Tasks, t \notin A, NEW g \in Nat, g <= Cardinality(A)
  PROVE  g + 1 <= Cardinality(A \cup {t}) /\ g + 1 \in 0..Cardinality(Tasks)
  <1>1. IsFiniteSet(A) /\ Cardinality(A) \in Nat
    BY TasksAssumption, FS_Subset, FS_CardinalityType
  <1>2. Cardinality(A \cup {t}) = Cardinality(A) + 1
    BY <1>1, FS_AddElement
  <1>3. g + 1 \in Nat /\ g + 1 <= Cardinality(A \cup {t})
    BY <1>1, <1>2
  <1> QED BY <1>3, Bound

\* DoTask runs once at most: its frame is the first one, and nothing is below it.
LEMMA StackTop ==
  ASSUME NEW s \in Seq(Frames), Len(s) <= 1, s # <<>>
  PROVE  /\ Len(s) = 1 /\ s[1] \in Frames /\ s[1].task \in Tasks
         /\ SubSeq(s, 1, Len(s) - 1) = <<>>
  <1>1. Len(s) = 1
    <2>1. Len(s) \in Nat
      BY LenProperties
    <2>2. Len(s) # 0
      BY EmptySeq
    <2> QED BY <2>1, <2>2
  <1>2. s[1] \in Frames
    BY <1>1
  <1>4. s[1].task \in Tasks
    BY <1>2 DEF Frames
  <1>3. SubSeq(s, 1, Len(s) - 1) = <<>>
    BY <1>1, SubSeqEmpty
  <1> QED BY <1>1, <1>2, <1>3, <1>4

\* Appending to nothing.
LEMMA EmptyAppend ==
  ASSUME NEW f \in Frames
  PROVE  Append(<<>>, f) = <<f>>
  <1>1. <<f>> \in Seq(Frames) /\ <<>> \in Seq(Frames)
    OBVIOUS
  <1> QED BY <1>1, AppendIsConcat, ConcatEmptySeq

\* A single frame as the stack.
LEMMA OneFrame ==
  ASSUME NEW f \in Frames
  PROVE  <<f>> \in Seq(Frames) /\ Len(<<f>>) = 1 /\ <<f>> # <<>> /\ <<f>>[1] = f
  OBVIOUS

\* No task has been taken and no looper made.
LEMMA InvInit == Init => Inv
  <1> SUFFICES ASSUME Init PROVE Inv
    OBVIOUS
  <1>1. Cardinality(Tasks) \in Nat /\ Served \in SUBSET Tasks
    BY TasksAssumption, FS_CardinalityType DEF Served
  <1>2. Cardinality(Served) \in Nat
    BY <1>1, TasksAssumption, FS_Subset, FS_CardinalityType
  <1>3. TypeOK
    <2>1. mBusying \in BOOLEAN /\ mBusying = (stack # <<>>)
      BY Zenon DEF Init
    <2>2. /\ gen \in 0..Cardinality(Tasks) /\ held \in [Tasks -> 0..Cardinality(Tasks)]
          /\ box \in Seq(Tasks) /\ mTasks \in Seq(Tasks)
          /\ stack \in Seq([task : Tasks, stage : Stage])
      BY <1>1, SMT DEF Init
    <2>3. main \in {"running", "quitting", "stopped"} /\ alive \in BOOLEAN /\ told \in BOOLEAN
      BY Zenon DEF Init
    <2>4. /\ caller \in [Tasks -> {"new", "find", "create", "add", "added", "refused", "failed"}]
          /\ executed \subseteq Tasks
      BY Zenon DEF Init
    <2> QED BY <2>1, <2>2, <2>3, <2>4, Zenon DEF TypeOK
  <1> QED BY <1>2, <1>3 DEF Init, Inv, OneTask

\* Every step keeps the invariant.
LEMMA InvNext == Inv /\ [Next]_vars => Inv'
  <1> SUFFICES ASSUME Inv, [Next]_vars PROVE Inv'
    OBVIOUS
  <1> USE DEF lifeVars, looperVars
  <1>1. /\ TypeOK /\ OneTask /\ gen \in Nat /\ gen <= Cardinality(Served)
        /\ Cardinality(Tasks) \in Nat /\ Served \in SUBSET Tasks /\ Served' \in SUBSET Tasks
        /\ ~alive => stack = <<>> /\ box = <<>>
        /\ \A t \in Tasks : caller[t] = "added" => Taken(t)
    BY TasksAssumption, FS_CardinalityType DEF Inv, TypeOK, Served
  <1>2. ASSUME NEW t \in Tasks, Execute(t) PROVE Inv'
    <2>1. /\ caller' = [caller EXCEPT ![t] = "find"] /\ Served' = Served
          /\ TypeOK' /\ OneTask'
      BY <1>1, <1>2 DEF Execute, TypeOK, OneTask, Served
    <2>2. \A u \in Tasks : caller'[u] = "added" => Taken(u)'
      BY <1>1, <1>2, <2>1 DEF Execute, TypeOK, Taken
    <2> QED BY <1>1, <1>2, <2>1, <2>2 DEF Execute, Inv
  <1>3. ASSUME NEW t \in Tasks, FindLooper(t) PROVE Inv'
    <2>1. Served \subseteq Served' /\ TypeOK' /\ OneTask'
      BY <1>1, <1>3 DEF FindLooper, TypeOK, OneTask, Served
    <2>2. \A u \in Tasks : caller'[u] = "added" => Taken(u)'
      BY <1>1, <1>3 DEF FindLooper, TypeOK, Taken
    <2>3. gen <= Cardinality(Served')
      BY <1>1, <2>1, Bound
    <2> QED BY <1>1, <1>3, <2>1, <2>2, <2>3 DEF FindLooper, Inv
  <1>4. ASSUME NEW t \in Tasks, CreateLooper(t) PROVE Inv'
    <2>1. /\ Served' = Served \cup {t} /\ t \notin Served
          /\ UNCHANGED <<box, mBusying, mTasks, stack, executed>>
          /\ \A u \in Tasks : caller'[u] = "added" => caller[u] = "added"
          /\ caller' \in [Tasks -> {"new", "find", "create", "add", "added", "refused", "failed"}]
      BY <1>1, <1>4 DEF CreateLooper, TypeOK, Served
    <2>2. gen <= Cardinality(Served') /\ gen + 1 <= Cardinality(Served')
          /\ gen + 1 \in 0..Cardinality(Tasks)
      BY <1>1, <2>1, Bound, BoundPlus
    <2>3. /\ gen' \in {gen, gen + 1} /\ alive' \in BOOLEAN /\ told' \in BOOLEAN
          /\ main' = main /\ (~alive' => ~alive)
          /\ held' \in [Tasks -> 0..Cardinality(Tasks)]
      <3>1. CASE UNCHANGED lifeVars
        BY <1>1, <1>4, <2>2, <3>1 DEF CreateLooper, TypeOK
      <3>2. CASE /\ main # "stopped" /\ Missing /\ main' = main
                 /\ gen' = gen + 1 /\ alive' = TRUE /\ told' = FALSE
                 /\ held' = [held EXCEPT ![t] = gen']
        BY <1>1, <2>2, <3>2 DEF TypeOK, Missing
      <3> QED BY <1>4, <3>1, <3>2 DEF CreateLooper
    <2>4. TypeOK' /\ OneTask'
      BY <1>1, <2>1, <2>2, <2>3 DEF TypeOK, OneTask
    <2>5. \A u \in Tasks : caller'[u] = "added" => Taken(u)'
      BY <1>1, <2>1 DEF Taken
    <2> QED BY <1>1, <2>1, <2>2, <2>3, <2>4, <2>5 DEF Inv
  <1>5. ASSUME NEW t \in Tasks, AddTask(t) PROVE Inv'
    <2>1. /\ Served' = Served /\ UNCHANGED <<lifeVars, looperVars, held>>
          /\ caller' \in [Tasks -> {"new", "find", "create", "add", "added", "refused", "failed"}]
      BY <1>1, <1>5 DEF AddTask, TypeOK, Served
    <2>2. Append(box, t) \in Seq(Tasks) /\ Listed(t, Append(box, t))
          /\ \A u : Listed(u, box) => Listed(u, Append(box, t))
      BY <1>1, AppendProperties, ListedAppend DEF TypeOK
    <2>3. box' \in Seq(Tasks) /\ (~alive => box' = box)
      BY <1>1, <1>5, <2>2 DEF AddTask, TypeOK
    <2>4. TypeOK' /\ OneTask'
      BY <1>1, <2>1, <2>3 DEF TypeOK, OneTask
    <2>5. \A u \in Tasks : caller'[u] = "added" => Taken(u)'
      BY <1>1, <1>5, <2>1, <2>2 DEF AddTask, TypeOK, Taken
    <2> QED BY <1>1, <2>1, <2>3, <2>4, <2>5 DEF Inv
  <1>6. CASE OnAddTask
    <2>1. /\ UNCHANGED <<lifeVars, caller, held, executed>> /\ box # <<>> /\ box' = Tail(box)
          /\ Head(box) \in Tasks /\ Tail(box) \in Seq(Tasks) /\ Served' = Served /\ alive
      BY <1>1, <1>6, HeadTailProperties DEF OnAddTask, TypeOK, Served
    <2>2. \A u : Listed(u, box) => u = Head(box) \/ Listed(u, Tail(box))
      BY <1>1, <2>1, ListedHead DEF TypeOK
    <2>3. CASE mBusying
      <3>1. /\ mTasks' = Append(mTasks, Head(box)) /\ UNCHANGED <<mBusying, stack>>
            /\ stack # <<>>
        BY <1>1, <1>6, <2>3 DEF OnAddTask, TypeOK
      <3>2. /\ mTasks' \in Seq(Tasks) /\ Listed(Head(box), mTasks')
            /\ \A u : Listed(u, mTasks) => Listed(u, mTasks')
        BY <1>1, <2>1, <3>1, AppendProperties, ListedAppend DEF TypeOK
      <3>3. TypeOK' /\ OneTask'
        BY <1>1, <2>1, <3>1, <3>2 DEF TypeOK, OneTask
      <3>4. \A u \in Tasks : caller'[u] = "added" => Taken(u)'
        BY <1>1, <2>1, <2>2, <3>1, <3>2 DEF Taken
      <3> QED BY <1>1, <2>1, <3>3, <3>4 DEF Inv
    <2>4. CASE ~mBusying
      <3>1. stack = <<>> /\ mTasks = <<>> /\ mTasks' = mTasks /\ mBusying' = TRUE
            /\ stack' = Append(<<>>, Frame(Head(box)))
        BY <1>1, <1>6, <2>4 DEF OnAddTask, TypeOK, OneTask
      <3>2. Frame(Head(box)) \in Frames /\ Frame(Head(box)).task = Head(box)
        BY <2>1 DEF Frame, Frames, Stage
      <3>3. stack' \in Seq(Frames) /\ Len(stack') = 1 /\ stack' # <<>> /\ stack'[1].task = Head(box)
        BY <3>1, <3>2, EmptyAppend, OneFrame
      <3>4. TypeOK' /\ OneTask'
        <4>1. mBusying' \in BOOLEAN /\ mBusying' = (stack' # <<>>)
          BY <3>1, <3>3, Zenon
        <4> QED BY <1>1, <2>1, <3>1, <3>3, <4>1 DEF TypeOK, OneTask, Frames
      <3>5. \A u \in Tasks : caller'[u] = "added" => Taken(u)'
        BY <1>1, <2>1, <2>2, <3>1, <3>3 DEF Taken
      <3> QED BY <1>1, <2>1, <3>4, <3>5 DEF Inv
    <2> QED BY <2>3, <2>4
  <1>7. CASE DoTask
    <2>1. UNCHANGED <<lifeVars, caller, held, box, mBusying, mTasks, executed>> /\ Served' = Served
          /\ stack # <<>> /\ stack \in Seq(Frames) /\ Len(stack) <= 1 /\ alive
      BY <1>1, <1>7 DEF DoTask, TypeOK, OneTask, Frames, Served
    <2>2. Len(stack) = 1 /\ stack[1] \in Frames
      BY <2>1, StackTop
    <2>3. stack' = [stack EXCEPT ![1].stage = IF @ = "pre" THEN "run" ELSE "post"]
      BY <1>7, <2>2 DEF DoTask
    <2>4. stack' \in Seq(Frames) /\ Len(stack') = 1 /\ stack' # <<>>
          /\ stack'[1].task = stack[1].task
      BY <2>1, <2>2, <2>3 DEF Frames, Stage
    <2>5. TypeOK' /\ OneTask'
      BY <1>1, <2>1, <2>4 DEF TypeOK, OneTask, Frames
    <2>6. \A u \in Tasks : caller'[u] = "added" => Taken(u)'
      BY <1>1, <2>1, <2>4 DEF Taken
    <2> QED BY <1>1, <2>1, <2>5, <2>6 DEF Inv
  <1>8. CASE EndTask
    <2>1. UNCHANGED <<lifeVars, caller, held, box>> /\ Served' = Served
          /\ stack # <<>> /\ stack \in Seq(Frames) /\ Len(stack) <= 1 /\ alive
      BY <1>1, <1>8 DEF EndTask, TypeOK, OneTask, Frames, Served
    <2>2. /\ Len(stack) = 1 /\ stack[1].task \in Tasks
          /\ SubSeq(stack, 1, Len(stack) - 1) = <<>>
      BY <2>1, StackTop
    <2>3. executed' = executed \cup {stack[1].task} /\ executed' \subseteq Tasks
      BY <1>1, <1>8, <2>2 DEF EndTask, TypeOK
    <2>4. CASE mTasks = <<>>
      <3>1. stack' = <<>> /\ mBusying' = FALSE /\ mTasks' = mTasks
        BY <1>8, <2>2, <2>4 DEF EndTask
      <3>2. TypeOK' /\ OneTask'
        <4>1. mBusying' \in BOOLEAN /\ mBusying' = (stack' # <<>>)
          BY <3>1, Zenon
        <4> QED BY <1>1, <2>1, <2>3, <2>4, <3>1, <4>1 DEF TypeOK, OneTask
      <3>3. \A u \in Tasks : caller'[u] = "added" => Taken(u)'
        BY <1>1, <2>1, <2>3, <3>1 DEF Taken
      <3> QED BY <1>1, <2>1, <3>2, <3>3 DEF Inv
    <2>5. CASE mTasks # <<>>
      <3>1. /\ stack' = Append(<<>>, Frame(Head(mTasks))) /\ mBusying' = TRUE
            /\ mTasks' = Tail(mTasks)
        BY <1>8, <2>2, <2>5 DEF EndTask
      <3>2. Head(mTasks) \in Tasks /\ mTasks' \in Seq(Tasks)
            /\ \A u : Listed(u, mTasks) => u = Head(mTasks) \/ Listed(u, mTasks')
        BY <1>1, <2>5, <3>1, HeadTailProperties, ListedHead DEF TypeOK
      <3>3. Frame(Head(mTasks)) \in Frames /\ Frame(Head(mTasks)).task = Head(mTasks)
        BY <3>2 DEF Frame, Frames, Stage
      <3>4. stack' \in Seq(Frames) /\ Len(stack') = 1 /\ stack' # <<>>
            /\ stack'[1].task = Head(mTasks)
        BY <3>1, <3>3, EmptyAppend, OneFrame
      <3>5. TypeOK' /\ OneTask'
        <4>1. mBusying' \in BOOLEAN /\ mBusying' = (stack' # <<>>)
          BY <3>1, <3>4, Zenon
        <4> QED BY <1>1, <2>1, <2>3, <3>1, <3>2, <3>4, <4>1 DEF TypeOK, OneTask, Frames
      <3>6. \A u \in Tasks : caller'[u] = "added" => Taken(u)'
        BY <1>1, <2>1, <2>3, <3>2, <3>4 DEF Taken
      <3> QED BY <1>1, <2>1, <3>5, <3>6 DEF Inv
    <2> QED BY <2>4, <2>5
  <1>9. CASE StopLooper \/ QuitMain \/ StopMain
    <2>1. /\ UNCHANGED <<gen, caller, held, box, looperVars>> /\ Served' = Served
          /\ main' \in {"running", "quitting", "stopped"} /\ alive' \in BOOLEAN /\ told' \in BOOLEAN
          /\ ~alive' => stack = <<>> /\ box = <<>>
      BY <1>1, <1>9 DEF StopLooper, QuitMain, StopMain, TypeOK, Served
    <2>2. TypeOK' /\ OneTask'
      BY <1>1, <2>1 DEF TypeOK, OneTask
    <2>3. \A u \in Tasks : caller'[u] = "added" => Taken(u)'
      BY <1>1, <2>1 DEF Taken
    <2> QED BY <1>1, <2>1, <2>2, <2>3 DEF Inv
  <1>10. CASE UNCHANGED vars
    <2>1. Served' = Served /\ TypeOK' /\ OneTask' /\ UNCHANGED <<alive, stack, box, gen>>
      BY <1>1, <1>10 DEF vars, Served, TypeOK, OneTask
    <2>2. \A u \in Tasks : caller'[u] = "added" => Taken(u)'
      BY <1>1, <1>10 DEF vars, Taken
    <2> QED BY <1>1, <2>1, <2>2 DEF Inv
  <1> QED BY <1>2, <1>3, <1>4, <1>5, <1>6, <1>7, <1>8, <1>9, <1>10
          DEF Next, CallerStep, LooperStep

----------------------------------------------------------------------------
(* The theorems *)

\* The invariant holds of every behaviour.
LEMMA InvAlways == Spec => []Inv
  BY InvInit, InvNext, PTL DEF Spec

\* Every variable keeps its type: there are never more loopers than callers of Execute, however
\* often a looper has stopped and another one is made, and mBusying is set exactly while DoTask
\* runs.
THEOREM TypeCorrect == Spec => []TypeOK
  <1>1. Inv => TypeOK
    BY DEF Inv
  <1> QED BY InvAlways, <1>1, PTL

\* A looper that has stopped has executed every task that AddTask was able to give it, those that
\* came in during a task and waited in mTasks included.
THEOREM NothingLeft == Spec => []NoTaskLeft
  <1>1. Inv => NoTaskLeft
    <2>1. SUFFICES ASSUME Inv, ~alive, NEW t \in Tasks, caller[t] = "added"
                   PROVE  t \in executed
      BY DEF NoTaskLeft
    <2>2. stack = <<>> /\ box = <<>> /\ mTasks = <<>> /\ Taken(t)
      BY <2>1 DEF Inv, OneTask
    <2>3. ~Listed(t, <<>>)
      BY DEF Listed
    <2> QED BY <2>2, <2>3 DEF Taken
  <1> QED BY InvAlways, <1>1, PTL

\* The second look at the main looper's children, in the runnable that CreateLooper stands for:
\* callers that have all found no looper make one together.
THEOREM OneAtATime == Spec => OneLooper
  <1>1. Inv /\ [Next]_vars => (gen' # gen => ~alive) \/ UNCHANGED vars
    BY DEF Next, CallerStep, LooperStep, Execute, FindLooper, CreateLooper, AddTask, OnAddTask,
           DoTask, EndTask, StopLooper, QuitMain, StopMain, Missing, lifeVars, looperVars
  <1> QED BY InvAlways, <1>1, PTL DEF Spec, OneLooper

----------------------------------------------------------------------------
(* The refinement *)

\* Initially nothing is taken, under way or finished.
LEMMA RefinesInit == Init => Serial!Init
  <1>1. <<>> \o <<>> = <<>>
    BY ConcatEmptySeq, <<>> \in Seq(Tasks)
  <1> QED BY <1>1 DEF Init, Serial!Init

\* AddTask is Take when it is not refused; BM_ADD_TASK is Begin when the looper is idle and moves
\* a task within the queue otherwise; the return of DoTask is Finish.
LEMMA RefinesNext == Inv /\ [Next]_vars => [Serial!Next]_(Serial!vars)
  <1> SUFFICES ASSUME Inv, [Next]_vars PROVE [Serial!Next]_(Serial!vars)
    OBVIOUS
  <1> USE DEF lifeVars, looperVars
  <1>1. /\ TypeOK /\ OneTask /\ box \in Seq(Tasks) /\ mTasks \in Seq(Tasks)
        /\ stack \in Seq(Frames) /\ Len(stack) <= 1
    BY DEF Inv, TypeOK, OneTask, Frames
  <1>2. ASSUME UNCHANGED <<box, mTasks, stack, executed>> PROVE UNCHANGED Serial!vars
    BY <1>2 DEF Serial!vars
  <1>3. ASSUME NEW t \in Tasks, AddTask(t) PROVE [Serial!Next]_(Serial!vars)
    <2>1. CASE box' = Append(box, t)
      <3>1. mTasks' \o box' = Append(mTasks \o box, t) /\ UNCHANGED <<stack, executed>>
        BY <1>1, <1>3, <2>1, AppendToConcat DEF AddTask
      <3>2. Serial!Take(t)
        BY <3>1 DEF Serial!Take
      <3> QED BY <3>2 DEF Serial!Next
    <2>2. CASE UNCHANGED box
      BY <1>2, <1>3, <2>2 DEF AddTask
    <2> QED BY <1>3, <2>1, <2>2 DEF AddTask
  <1>4. CASE OnAddTask
    <2>1. box # <<>> /\ box' = Tail(box) /\ UNCHANGED executed /\ Head(box) \in Tasks
          /\ Tail(box) \in Seq(Tasks)
      BY <1>1, <1>4, HeadTailProperties DEF OnAddTask
    <2>2. CASE mBusying
      <3>1. mTasks' = Append(mTasks, Head(box)) /\ UNCHANGED stack
        BY <1>4, <2>2 DEF OnAddTask
      <3>2. mTasks' \o box' = mTasks \o box
        BY <1>1, <2>1, <3>1, MoveHead
      <3> QED BY <2>1, <3>1, <3>2 DEF Serial!vars
    <2>3. CASE ~mBusying
      <3>1. /\ stack = <<>> /\ mTasks = <<>> /\ mTasks' = <<>>
            /\ stack' = Append(<<>>, Frame(Head(box)))
        BY <1>1, <1>4, <2>3 DEF OnAddTask, TypeOK, OneTask
      <3>2. Frame(Head(box)) \in Frames /\ Frame(Head(box)).task = Head(box)
        BY <2>1 DEF Frame, Frames, Stage
      <3>3. stack' # <<>> /\ stack'[1].task = Head(box)
        BY <3>1, <3>2, EmptyAppend, OneFrame
      <3>4. mTasks \o box = box /\ mTasks' \o box' = Tail(box)
        BY <1>1, <2>1, <3>1, ConcatEmptySeq
      <3>5. Serial!Begin
        BY <2>1, <3>1, <3>3, <3>4 DEF Serial!Begin
      <3> QED BY <3>5 DEF Serial!Next
    <2> QED BY <2>2, <2>3
  <1>5. CASE DoTask
    <2>1. stack # <<>> /\ Len(stack) = 1 /\ stack[1] \in Frames
      BY <1>1, <1>5, StackTop DEF DoTask
    <2>2. stack' = [stack EXCEPT ![1].stage = IF @ = "pre" THEN "run" ELSE "post"]
      BY <1>5, <2>1 DEF DoTask
    <2>3. stack' # <<>> /\ stack'[1].task = stack[1].task
      BY <1>1, <2>1, <2>2 DEF Frames
    <2> QED BY <1>5, <2>1, <2>3 DEF DoTask, Serial!vars
  <1>6. CASE EndTask
    <2>1. /\ stack # <<>> /\ Len(stack) = 1 /\ stack[1].task \in Tasks
          /\ SubSeq(stack, 1, Len(stack) - 1) = <<>> /\ UNCHANGED box
          /\ executed' = executed \cup {stack[1].task}
      BY <1>1, <1>6, StackTop DEF EndTask
    <2>2. stack[1].task # None
      BY <2>1, TasksAssumption
    <2>3. CASE mTasks = <<>>
      <3>1. stack' = <<>> /\ mTasks' = mTasks
        BY <1>6, <2>1, <2>3 DEF EndTask
      <3>2. Serial!Finish
        BY <2>1, <2>2, <3>1 DEF Serial!Finish
      <3> QED BY <3>2 DEF Serial!Next
    <2>4. CASE mTasks # <<>>
      <3>1. stack' = Append(<<>>, Frame(Head(mTasks))) /\ mTasks' = Tail(mTasks)
        BY <1>6, <2>1, <2>4 DEF EndTask
      <3>2. Head(mTasks) \in Tasks
        BY <1>1, <2>4, HeadTailProperties
      <3>3. Frame(Head(mTasks)) \in Frames /\ Frame(Head(mTasks)).task = Head(mTasks)
        BY <3>2 DEF Frame, Frames, Stage
      <3>4. stack' # <<>> /\ stack'[1].task = Head(mTasks)
        BY <3>1, <3>3, EmptyAppend, OneFrame
      <3>5. /\ mTasks \o box # <<>> /\ Head(mTasks \o box) = Head(mTasks)
            /\ Tail(mTasks \o box) = mTasks' \o box'
        BY <1>1, <2>1, <2>4, <3>1, HeadOfConcat
      <3>6. Serial!Finish
        BY <2>1, <2>2, <3>4, <3>5 DEF Serial!Finish
      <3> QED BY <3>6 DEF Serial!Next
    <2> QED BY <2>3, <2>4
  <1>7. ASSUME NEW t \in Tasks, Execute(t) \/ FindLooper(t) \/ CreateLooper(t)
        PROVE  [Serial!Next]_(Serial!vars)
    BY <1>2, <1>7 DEF Execute, FindLooper, CreateLooper
  <1>8. CASE StopLooper \/ QuitMain \/ StopMain \/ UNCHANGED vars
    BY <1>2, <1>8 DEF StopLooper, QuitMain, StopMain, vars
  <1> QED BY <1>3, <1>4, <1>5, <1>6, <1>7, <1>8 DEF Next, CallerStep, LooperStep

\* The safety part of ImplementsSerial: for any number of tasks and any order in which they come
\* in, every step of the looper and its callers is a step of the serial executor or leaves it
\* alone.  Tasks are executed one at a time, in the order of AddTask, and no task is lost.
THEOREM ImplementsSerialSafely == Spec => Serial!Init /\ [][Serial!Next]_(Serial!vars)
  BY RefinesInit, InvAlways, RefinesNext, PTL DEF Spec
=============================================================================
