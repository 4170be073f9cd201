------------------------- MODULE HandlerTreeProofs -------------------------
(***************************************************************************)
(* Theorems about HandlerTree, for any handlers, threads and timer ids,    *)
(* as long as updates of the flags are not torn.                           *)
(***************************************************************************)
EXTENDS HandlerTree, FiniteSetTheorems, WellFoundedInduction, TLAPS

----------------------------------------------------------------------------
(* The inductive invariant *)

\* t is in ~Handler: of arg[t].h.
InDtor(t) == pc[t] \in {"dtor", "unref"} \/ (pc[t] = "wait" /\ arg[t].h # None)

\* OnDestroy goes with the mark, the mark with mDestroy, and mDestroy with BM_CREATE.
FlagsFit ==
  /\ \A n \in Nodes : /\ flags[n].mark => flags[n].destroy
                      /\ flags[n].destroy => flags[n].created
  /\ \A h \in Handlers : destroys[h] = IF flags[h].mark THEN 1 ELSE 0
  /\ flags[Root].created

\* Who is referred to by a shared_ptr is alive.
RefsAlive ==
  /\ \A h \in selfRef \cup destroyed : life[h] = "alive"
  /\ \A t \in Threads : \A h \in held[t] : life[h] = "alive"
  /\ \A m \in inbox : m.on \in Handlers => life[m.on] = "alive"
  /\ ParentOutlives

\* Who was created has a parent, and a reference to itself until it is marked; while the looper
\* runs its parent knows it.
CreatedInTree ==
  /\ \A h \in Handlers : life[h] = "new" => ~flags[h].created
  /\ \A h \in Handlers : life[h] = "alive" /\ flags[h].created =>
       /\ parent[h] # None /\ running
       /\ flags[h].mark \/ h \in selfRef
       /\ h \in children[parent[h]]
  /\ \A h \in Handlers : parent[h] # None => flags[h].created /\ flags[parent[h]].created
  /\ \A n \in Nodes : \A c \in children[n] : flags[c].created
  /\ \A h \in destroyed : flags[h].mark
  /\ \A m \in inbox : flags[m.on].created

\* Parents come before their children.
Rooted == \E rank \in [Nodes -> Nat] :
            \A h \in Handlers : parent[h] # None => rank[parent[h]] < rank[h]

\* A message that is waited for, and the thread that waits.
MessagesFit ==
  /\ \A m \in inbox : m.by \in Threads => pc[m.by] = "wait"
  /\ \A m, n \in inbox : m.by \in Threads /\ m.by = n.by => m = n
  /\ \A m \in inbox : m.kind = "addChild" => m.child \in held[m.by]
  /\ \A m \in inbox : m.by \in Threads =>
       arg[m.by].h = IF m.kind = "childDtor" THEN m.child ELSE None

\* Where a thread is, and the handler it works on.
ThreadsFit ==
  /\ \A t \in Threads : pc[t] = "run" => arg[t].h = None
  /\ \A t \in Threads : pc[t] = "store" => arg[t].h \in held[t] /\ flags[arg[t].h].created
  /\ \A t \in Threads : InDtor(t) => arg[t].h \in Handlers /\ life[arg[t].h] = "dtor"
  /\ \A t, u \in Threads : InDtor(t) /\ InDtor(u) /\ arg[t].h = arg[u].h => t = u

\* gc goes through mDestroyedHandlers, one handler at a time.
GcFits ==
  /\ gc.todo \subseteq destroyed
  /\ gc.step \in {"off", "pick"} => gc.cur = None
  /\ gc.step \in {"drop", "relock"} =>
       gc.cur \in Handlers /\ gc.cur \notin gc.todo /\ flags[gc.cur].mark /\ life[gc.cur] # "new"
  /\ gc.step = "drop" => gc.cur \in destroyed

\* The ids from 1 up to n, round the end.
UpTo(n) == {i \in Ids : IF n > 0 THEN 1 <= i /\ i <= n ELSE n < 0 /\ (1 <= i \/ i <= n)}

\* Before NextTimerId has wrapped round, the ids in use are those up to the last one.
IdsFit ==
  /\ \A h \in Handlers : ~flags[h].created => nodes[h] = NoTimers
  /\ \A h \in Handlers : life[h] = "alive" /\ ~ids[h].rewind =>
       \A i \in Ids : nodes[h][i] # 0 => i \in UpTo(ids[h].next)

Inv ==
  /\ TypeOK /\ FlagsFit /\ RefsAlive /\ CreatedInTree /\ Rooted
  /\ MessagesFit /\ ThreadsFit /\ GcFits /\ NoOrphan /\ DestroyedIsWatched
  /\ IdsFit /\ TimerIdsUnique /\ NoTimerOfDead /\ TimersStayHome

----------------------------------------------------------------------------
(* Messages, numbers and trees *)

\* What the fields of a message are.
LEMMA MessageFields ==
  ASSUME NEW m \in Message
  PROVE  /\ m.on \in Nodes /\ m.by \in Threads \cup {None}
         /\ m.kind \in {"destroy", "dispose", "quit", "addChild", "childDtor"}
         /\ m.kind \in {"addChild", "childDtor"} => m.child \in Handlers /\ m.by \in Threads
  BY DEF Message

\* The messages that are sent.
LEMMA MsgType ==
  ASSUME NEW on \in Nodes
  PROVE  /\ \A k \in {"destroy", "dispose", "quit"}, t \in Threads \cup {None} :
              Msg(k, on, None, t) \in Message
         /\ \A k \in {"addChild", "childDtor"}, t \in Threads, c \in Handlers :
              Msg(k, on, c, t) \in Message
  BY DEF Message, Msg

\* The fields of a message that is sent.
LEMMA MsgFields ==
  ASSUME NEW k, NEW on, NEW c, NEW t
  PROVE  /\ Msg(k, on, c, t).kind = k /\ Msg(k, on, c, t).on = on
         /\ Msg(k, on, c, t).child = c /\ Msg(k, on, c, t).by = t
  BY DEF Msg

\* Every set of natural numbers has a least element.
LEMMA LeastNat ==
  ASSUME NEW S \in SUBSET Nat, S # {}
  PROVE  \E x \in S : \A y \in S : x <= y
  <1> DEFINE R == OpToRel(<, Nat)
  <1>1. IsWellFoundedOn(R, Nat)
    BY NatLessThanWellFounded
  <1>2. \A x, y \in Nat : y < x => <<y, x>> \in R
    BY DEF OpToRel
  <1> HIDE DEF R
  <1>3. PICK x \in S : \A y \in S : ~(<<y, x>> \in R)
    BY <1>1, WFMin
  <1>4. \A y \in S : x \in Nat /\ y \in Nat /\ ~(y < x)
    BY <1>2, <1>3
  <1>5. \A y \in S : x <= y
    BY <1>4
  <1> QED BY <1>5

\* The handlers that a BM_DESTROY reaches: n unless it is marked, the live children of those that
\* are reached and have no mark, and nobody who has one.
LEMMA DestroySetReach ==
  ASSUME TypeOK, NEW n \in Nodes, n \in Handlers => life[n] = "alive"
  PROVE  /\ DestroySet(n) \subseteq Nodes
         /\ \A x \in DestroySet(n) : ~flags[x].mark /\ (x \in Handlers => life[x] = "alive")
         /\ ~flags[n].mark => n \in DestroySet(n)
         /\ \A x \in DestroySet(n) : \A c \in children[x] :
              life[c] = "alive" /\ ~flags[c].mark => c \in DestroySet(n)
  <1> DEFINE Fresh(S) == {x \in S : ~flags[x].mark /\ (x \in Handlers => life[x] = "alive")}
             Closed(S) == \A x \in S : Fresh(children[x]) \subseteq S
             F == Fresh(Nodes)
  <1>1. DestroySet(n) = {x \in F : ~flags[n].mark /\ \A S \in SUBSET F : n \in S /\ Closed(S) => x \in S}
    BY DEF DestroySet
  <1>2. DestroySet(n) \subseteq F
    BY <1>1
  <1>3. ~flags[n].mark => n \in DestroySet(n)
    BY <1>1
  <1>4. ASSUME NEW x \in DestroySet(n), NEW c \in children[x], life[c] = "alive", ~flags[c].mark
        PROVE  c \in DestroySet(n)
    <2>1. c \in Handlers /\ x \in Nodes
      BY <1>2, <1>4 DEF TypeOK, Nodes
    <2>2. c \in F /\ c \in Fresh(children[x]) /\ ~flags[n].mark
      BY <1>1, <1>4, <2>1 DEF Nodes
    <2>3. ASSUME NEW S \in SUBSET F, n \in S, Closed(S) PROVE c \in S
      <3>1. x \in S
        BY <1>1, <2>3
      <3> QED BY <2>2, <2>3, <3>1
    <2> HIDE DEF F, Closed
    <2> QED BY <1>1, <2>2, <2>3
  <1> QED BY <1>2, <1>3, <1>4

\* Only handlers that were created are reached.
LEMMA DestroySetCreated ==
  ASSUME TypeOK, NEW n \in Nodes, n \in Handlers => life[n] = "alive", flags[n].created,
         \A x \in Nodes : \A c \in children[x] : flags[c].created
  PROVE  \A x \in DestroySet(n) : flags[x].created
  <1> DEFINE Fresh(S) == {x \in S : ~flags[x].mark /\ (x \in Handlers => life[x] = "alive")}
             Closed(S) == \A x \in S : Fresh(children[x]) \subseteq S
             F == Fresh(Nodes)
             C == {x \in F : flags[x].created}
  <1>1. DestroySet(n) = {x \in F : ~flags[n].mark /\ \A S \in SUBSET F : n \in S /\ Closed(S) => x \in S}
    BY DEF DestroySet
  <1>2. \A x \in Nodes : children[x] \subseteq Nodes
    BY DEF TypeOK, Nodes
  <1>3. C \in SUBSET F /\ (~flags[n].mark => n \in C)
    OBVIOUS
  <1>4. Closed(C)
    BY <1>2
  <1> HIDE DEF F, Closed
  <1>5. DestroySet(n) \subseteq C
    BY <1>1, <1>3, <1>4
  <1> QED BY <1>5

----------------------------------------------------------------------------
(* Timer ids *)

TimerIds == [next : Ids, rewind : BOOLEAN]

\* Counting up a long, round the end.
LEMMA WrapOnce ==
  ASSUME NEW i \in Ids, NEW k \in 0..(2 * MaxLong + 1)
  PROVE  /\ Wrap(i + k, MaxLong) = IF i + k <= MaxLong THEN i + k ELSE i + k - 2 * (MaxLong + 1)
         /\ Wrap(i + k, MaxLong) \in Ids
  <1> DEFINE n == 2 * (MaxLong + 1)
             a == i + k + MaxLong + 1
  <1>1. MaxLong \in Nat \ {0} /\ i \in Int /\ k \in Int /\ n \in Nat \ {0} /\ a \in Int
        /\ 0 - MaxLong - 1 <= i /\ i <= MaxLong /\ 0 <= k /\ k <= n - 1
    BY TreeAssumption DEF Ids
  <1>2. Wrap(i + k, MaxLong) = (a % n) - (MaxLong + 1)
    BY DEF Wrap
  <1>3. CASE i + k <= MaxLong
    <2>1. a \in 0..(n - 1)
      BY <1>1, <1>3
    <2> HIDE DEF a, n
    <2>2. a % n = a
      BY <1>1, <2>1
    <2> QED BY <1>1, <1>2, <1>3, <2>1, <2>2 DEF a, n, Ids
  <1>4. CASE i + k > MaxLong
    <2>1. a \in n..(2 * n - 1)
      BY <1>1, <1>4
    <2> HIDE DEF a, n
    <2>2. a % n = a - n
      BY <1>1, <2>1
    <2> QED BY <1>1, <1>2, <1>4, <2>1, <2>2 DEF a, n, Ids
  <1> QED BY <1>1, <1>3, <1>4

\* 0 is an id that RemoveAllTimer removes.
LEMMA ZeroRemovable == 0 \in Ids /\ Removable(0)
  <1>1. MaxLong \in Nat /\ MaxInt \in Nat /\ MaxInt + 1 \in 0..(2 * (MaxInt + 1) - 1)
        /\ 2 * (MaxInt + 1) \in Nat \ {0}
    BY TreeAssumption
  <1>2. \A n \in Nat \ {0} : \A a \in 0..(n - 1) : a % n = a
    OBVIOUS
  <1>3. (MaxInt + 1) % (2 * (MaxInt + 1)) = MaxInt + 1
    BY <1>1, <1>2
  <1>4. 0 + MaxInt + 1 = MaxInt + 1
    BY <1>1
  <1>5. Wrap(0, MaxInt) = 0
    BY <1>1, <1>3, <1>4 DEF Wrap
  <1> QED BY <1>1, <1>5 DEF Removable, Ids

\* The loop of NextTimerId ends with an unused id if there is one.
LEMMA FirstFreeIsFree ==
  ASSUME NEW used \in [Ids -> Nat], NEW i \in Ids, NEW f \in Ids, used[f] = 0
  PROVE  FirstFree(used, i) \in Ids /\ used[FirstFree(used, i)] = 0
  <1> DEFINE Id(k) == Wrap(i + k, MaxLong)
             S == {k \in 0..(2 * MaxLong + 1) : used[Id(k)] = 0}
             First(k) == used[Id(k)] = 0 /\ \A j \in 0..(k - 1) : used[Id(j)] # 0
  <1>1. \E k \in 0..(2 * MaxLong + 1) : Id(k) = f
    <2>1. MaxLong \in Nat \ {0} /\ i \in Int /\ f \in Int
          /\ 0 - MaxLong - 1 <= i /\ i <= MaxLong /\ 0 - MaxLong - 1 <= f /\ f <= MaxLong
      BY TreeAssumption DEF Ids
    <2> DEFINE k == IF f >= i THEN f - i ELSE f - i + 2 * (MaxLong + 1)
    <2>2. k \in 0..(2 * MaxLong + 1)
      BY <2>1
    <2>3. Wrap(i + k, MaxLong) = IF i + k <= MaxLong THEN i + k ELSE i + k - 2 * (MaxLong + 1)
      BY <2>2, WrapOnce
    <2>4. i + k = f \/ (i + k = f + 2 * (MaxLong + 1) /\ ~(i + k <= MaxLong))
      BY <2>1
    <2> HIDE DEF k
    <2>5. Wrap(i + k, MaxLong) = f
      BY <2>1, <2>2, <2>3, <2>4
    <2> QED BY <2>2, <2>5
  <1>2. S # {} /\ S \in SUBSET Nat
    BY <1>1
  <1> HIDE DEF Id
  <1>3. PICK k \in S : \A j \in S : k <= j
    BY <1>2, LeastNat
  <1>4. k \in 0..(2 * MaxLong + 1) /\ First(k)
    <2>1. k \in 0..(2 * MaxLong + 1) /\ used[Id(k)] = 0
      BY <1>3
    <2>2. ASSUME NEW j \in 0..(k - 1), used[Id(j)] = 0 PROVE FALSE
      <3>1. j \in S
        BY <2>1, <2>2, TreeAssumption
      <3> QED BY <1>3, <2>1, <2>2, <3>1, TreeAssumption
    <2> QED BY <2>1, <2>2
  <1> DEFINE c == CHOOSE x \in 0..(2 * MaxLong + 1) : First(x)
  <1> HIDE DEF First, S
  <1>5. c \in 0..(2 * MaxLong + 1) /\ First(c)
    BY <1>4
  <1>6. FirstFree(used, i) = Id(c)
    BY DEF FirstFree, Id, c, First
  <1>7. Id(c) \in Ids
    BY <1>5, WrapOnce DEF Id
  <1> QED BY <1>5, <1>6, <1>7 DEF First

\* A handler with fewer timers than there are ids has an id left.
LEMMA IdLeft ==
  ASSUME NEW used \in [Ids -> Nat], Cardinality({i \in Ids : used[i] # 0}) < MaxTimers
  PROVE  \E f \in Ids : used[f] = 0
  <1>1. MaxLong \in Nat /\ MaxTimers \in Nat /\ MaxTimers <= 2 * (MaxLong + 1)
    BY TreeAssumption
  <1>2. Cardinality(Ids) = 2 * (MaxLong + 1)
    <2>1. 0 - MaxLong - 1 \in Int /\ MaxLong \in Int
          /\ ~(0 - MaxLong - 1 > MaxLong) /\ MaxLong - (0 - MaxLong - 1) + 1 = 2 * (MaxLong + 1)
      BY <1>1
    <2> QED BY <2>1, FS_Interval DEF Ids
  <1> DEFINE S == {i \in Ids : used[i] # 0}
  <1>3. S = Ids \/ \E f \in Ids : used[f] = 0
    OBVIOUS
  <1>4. Cardinality(S) < MaxTimers
    OBVIOUS
  <1> HIDE DEF S
  <1>5. S # Ids
    BY <1>1, <1>2, <1>4
  <1> QED BY <1>3, <1>5

\* NextTimerId finds an unused id, and keeps to the ids it has not come to yet until it has
\* wrapped round.
LEMMA NextTimerIdIsFree ==
  ASSUME NEW used \in [Ids -> Nat], \E f \in Ids : used[f] = 0, NEW n \in TimerIds,
         ~n.rewind => \A i \in Ids : used[i] # 0 => i \in UpTo(n.next)
  PROVE  /\ NextTimerId(used, n) \in TimerIds
         /\ used[NextTimerId(used, n).next] = 0
         /\ ~NextTimerId(used, n).rewind =>
              /\ NextTimerId(used, n).next # 0
              /\ \A i \in Ids : used[i] # 0 \/ i = NextTimerId(used, n).next
                                => i \in UpTo(NextTimerId(used, n).next)
  <1> DEFINE r == NextTimerId(used, n)
             id == Wrap(n.next + 1, MaxLong)
             start == IF id = 0 THEN 1 ELSE id
  <1>1. MaxLong \in Nat \ {0} /\ n.next \in Ids /\ n.rewind \in BOOLEAN /\ Ids \subseteq Int
        /\ n.next \in Int /\ 0 - MaxLong - 1 <= n.next /\ n.next <= MaxLong /\ 1 \in Ids
        /\ n = [next |-> n.next, rewind |-> n.rewind]
    BY TreeAssumption DEF TimerIds, Ids
  <1>2. CASE used = NoTimers
    <2>1. r = [next |-> 1, rewind |-> FALSE]
      BY <1>2 DEF NextTimerId
    <2>2. \A i \in Ids : used[i] = 0
      BY <1>2 DEF NoTimers
    <2> QED BY <1>1, <2>1, <2>2 DEF UpTo, TimerIds
  <1>3. CASE used # NoTimers /\ n.next # 0 /\ used[n.next] = 0
    <2>1. r = n
      BY <1>3 DEF NextTimerId
    <2> QED BY <1>1, <1>3, <2>1 DEF UpTo
  <1>4. CASE used # NoTimers /\ ~(n.next # 0 /\ used[n.next] = 0)
    <2>1. id \in Ids /\ start \in Ids
          /\ id = IF n.next = MaxLong THEN 0 - MaxLong - 1 ELSE n.next + 1
      BY <1>1, WrapOnce
    <2>2. r = IF n.rewind \/ id = 0 THEN [next |-> FirstFree(used, start), rewind |-> TRUE]
              ELSE [next |-> id, rewind |-> FALSE]
      BY <1>4 DEF NextTimerId
    <2> HIDE DEF id, start, r
    <2>3. CASE n.rewind \/ id = 0
      <3>1. r = [next |-> FirstFree(used, start), rewind |-> TRUE]
        BY <2>2, <2>3
      <3>2. FirstFree(used, start) \in Ids /\ used[FirstFree(used, start)] = 0
        BY <2>1, FirstFreeIsFree
      <3> QED BY <3>1, <3>2 DEF TimerIds, r
    <2>4. CASE ~n.rewind /\ id # 0
      <3>1. r = [next |-> id, rewind |-> FALSE]
        BY <2>2, <2>4
      <3>2. \E i \in Ids : used[i] # 0
        BY <1>4 DEF NoTimers
      <3>3. n.next # 0
        BY <1>1, <2>4, <3>2 DEF UpTo
      <3>4. id \notin UpTo(n.next)
        BY <1>1, <2>1, <2>4, <3>3 DEF UpTo
      <3>5. used[id] = 0
        BY <2>1, <2>4, <3>4
      <3>6. \A i \in Ids : i \in UpTo(n.next) \/ i = id => i \in UpTo(id)
        BY <1>1, <2>1, <2>4, <3>3 DEF UpTo
      <3> QED BY <2>1, <2>4, <3>1, <3>5, <3>6 DEF TimerIds, r
    <2> QED BY <2>3, <2>4 DEF r
  <1> QED BY <1>2, <1>3, <1>4

----------------------------------------------------------------------------
(* What Adopt and OnDestroy change *)

\* What it changes.
Adopted(p, c, box) ==
  /\ parent' \in [Handlers -> Nodes \cup {None}] /\ children' \in [Nodes -> SUBSET Handlers]
  /\ flags' \in [Nodes -> Flags] /\ destroys' \in [Handlers -> Nat]
  /\ selfRef' \subseteq Handlers /\ destroyed' \subseteq Handlers /\ inbox' \subseteq Message
  /\ gcTimer' \in BOOLEAN
  /\ \A h \in Handlers : parent'[h] = IF h = c THEN p ELSE parent[h]
  /\ \A n \in Nodes : children'[n] = IF n = p THEN children[n] \cup {c} ELSE children[n]
  /\ \A n \in Nodes : n # c => flags'[n] = flags[n]
  /\ flags'[c].created /\ (flags'[c].destroy <=> flags[p].destroy)
  /\ flags'[c].mark <=> flags[p].destroy
  /\ \A h \in Handlers : destroys'[h] = IF h = c /\ flags[p].destroy THEN destroys[h] + 1
                                        ELSE destroys[h]
  /\ selfRef' = IF flags[p].destroy THEN selfRef ELSE selfRef \cup {c}
  /\ destroyed' = IF flags[p].destroy THEN destroyed \cup {c} ELSE destroyed
  /\ inbox' = IF flags[p].destroy THEN box \cup {Msg("dispose", c, None, None)} ELSE box
  /\ gcTimer' <=> (gcTimer \/ flags[p].destroy)

\* Adopt gives c its parent, and destroys it at once if the parent is destroyed.
LEMMA AdoptEffect ==
  ASSUME TypeOK, NEW p \in Nodes, NEW c \in Handlers, NEW box \in SUBSET inbox, Adopt(p, c, box)
  PROVE  Adopted(p, c, box)
  <1> DEFINE D == IF flags[p].destroy THEN {c} ELSE {}
             f == [created |-> TRUE, destroy |-> c \in D, mark |-> c \in D]
  <1>1. /\ parent' = [parent EXCEPT ![c] = p]
        /\ children' = [children EXCEPT ![p] = @ \cup {c}]
        /\ flags' = [flags EXCEPT ![c] = f]
        /\ destroys' = [destroys EXCEPT ![c] = IF c \in D THEN @ + 1 ELSE @]
        /\ selfRef' = selfRef \cup ({c} \ D)
        /\ inbox' = box \cup {Msg("dispose", h, None, None) : h \in D}
        /\ destroyed' = destroyed \cup D
        /\ gcTimer' = (gcTimer \/ D # {})
    BY DEF Adopt
  <1>2. c \in Nodes /\ (c \in D <=> flags[p].destroy) /\ (D # {} <=> flags[p].destroy)
        /\ {c} \ D = (IF flags[p].destroy THEN {} ELSE {c})
        /\ {Msg("dispose", h, None, None) : h \in D}
             = (IF flags[p].destroy THEN {Msg("dispose", c, None, None)} ELSE {})
    BY DEF Nodes
  <1> HIDE DEF D
  <1>3. f \in Flags /\ f.created /\ (f.destroy <=> c \in D) /\ (f.mark <=> c \in D)
    <2>1. \A b \in BOOLEAN : /\ [created |-> TRUE, destroy |-> b, mark |-> b] \in Flags
                             /\ [created |-> TRUE, destroy |-> b, mark |-> b].created
                             /\ [created |-> TRUE, destroy |-> b, mark |-> b].destroy = b
                             /\ [created |-> TRUE, destroy |-> b, mark |-> b].mark = b
      BY DEF Flags
    <2>2. (c \in D) \in BOOLEAN
      OBVIOUS
    <2> QED BY <2>1, <2>2, Zenon
  <1> HIDE DEF f
  <1>4. /\ parent' \in [Handlers -> Nodes \cup {None}] /\ children' \in [Nodes -> SUBSET Handlers]
        /\ \A h \in Handlers : parent'[h] = IF h = c THEN p ELSE parent[h]
        /\ \A n \in Nodes : children'[n] = IF n = p THEN children[n] \cup {c} ELSE children[n]
    BY <1>1 DEF TypeOK
  <1>5. /\ flags' \in [Nodes -> Flags] /\ flags'[c] = f
        /\ \A n \in Nodes : n # c => flags'[n] = flags[n]
    BY <1>1, <1>2, <1>3 DEF TypeOK
  <1>6. /\ destroys' \in [Handlers -> Nat]
        /\ \A h \in Handlers : destroys'[h] = IF h = c /\ flags[p].destroy THEN destroys[h] + 1
                                              ELSE destroys[h]
    BY <1>1, <1>2 DEF TypeOK
  <1>7. /\ inbox' = IF flags[p].destroy THEN box \cup {Msg("dispose", c, None, None)} ELSE box
        /\ inbox' \subseteq Message
    <2>1. Msg("dispose", c, None, None) \in Message
      BY <1>2, MsgType
    <2>2. inbox' = IF flags[p].destroy THEN box \cup {Msg("dispose", c, None, None)} ELSE box
      BY <1>1, <1>2
    <2>3. box \subseteq Message
      BY DEF TypeOK
    <2> QED BY <2>1, <2>2, <2>3
  <1>8. /\ selfRef' = IF flags[p].destroy THEN selfRef ELSE selfRef \cup {c}
        /\ destroyed' = IF flags[p].destroy THEN destroyed \cup {c} ELSE destroyed
        /\ selfRef' \subseteq Handlers /\ destroyed' \subseteq Handlers
    BY <1>1, <1>2 DEF TypeOK, D
  <1>9. gcTimer' \in BOOLEAN /\ (gcTimer' <=> (gcTimer \/ flags[p].destroy))
    BY <1>1, <1>2, Zenon
  <1> QED BY <1>2, <1>3, <1>4, <1>5, <1>6, <1>7, <1>8, <1>9 DEF Adopted

\* What it changes.
Destroyed(D, box) ==
  /\ flags' \in [Nodes -> Flags] /\ destroys' \in [Handlers -> Nat]
  /\ selfRef' \subseteq Handlers /\ destroyed' \subseteq Handlers /\ inbox' \subseteq Message
  /\ gcTimer' \in BOOLEAN
  /\ \A n \in Nodes : /\ flags'[n].created <=> flags[n].created
                      /\ flags'[n].destroy <=> (flags[n].destroy \/ n \in D)
                      /\ flags'[n].mark <=> (flags[n].mark \/ n \in D)
  /\ \A h \in Handlers : destroys'[h] = IF h \in D THEN destroys[h] + 1 ELSE destroys[h]
  /\ selfRef' = selfRef \ D
  /\ \A h \in Handlers : h \in destroyed' <=> h \in destroyed \/ h \in D
  /\ \A m \in inbox' : \/ m \in box
                       \/ \E h \in D \cap selfRef : m = Msg("dispose", h, None, None)
  /\ gcTimer => gcTimer'
  /\ \A h \in Handlers : h \in D => gcTimer'

\* OnDestroy marks the nodes D, and hands their references to gc and to BM_POST_DISPOSE.
LEMMA OnDestroyEffect ==
  ASSUME TypeOK, NEW D \in SUBSET Nodes, NEW box \in SUBSET inbox, OnDestroy(D, box)
  PROVE  Destroyed(D, box)
  <1>1. /\ flags' = [n \in Nodes |-> IF n \in D
                                     THEN [flags[n] EXCEPT !.destroy = TRUE, !.mark = TRUE]
                                     ELSE flags[n]]
        /\ destroys' = [h \in Handlers |-> IF h \in D THEN destroys[h] + 1 ELSE destroys[h]]
        /\ selfRef' = selfRef \ D
        /\ inbox' = box \cup {Msg("dispose", h, None, None) : h \in D \cap selfRef}
        /\ destroyed' = destroyed \cup (D \ {Root})
        /\ gcTimer' = (gcTimer \/ D \ {Root} # {})
    BY DEF OnDestroy
  <1>2. /\ flags' \in [Nodes -> Flags]
        /\ \A n \in Nodes : /\ flags'[n].created <=> flags[n].created
                            /\ flags'[n].destroy <=> (flags[n].destroy \/ n \in D)
                            /\ flags'[n].mark <=> (flags[n].mark \/ n \in D)
    <2>1. \A f \in Flags :
            /\ [f EXCEPT !.destroy = TRUE, !.mark = TRUE] \in Flags
            /\ [f EXCEPT !.destroy = TRUE, !.mark = TRUE].created = f.created
            /\ [f EXCEPT !.destroy = TRUE, !.mark = TRUE].destroy
            /\ [f EXCEPT !.destroy = TRUE, !.mark = TRUE].mark
      BY DEF Flags
    <2>2. \A n \in Nodes : flags[n] \in Flags
      BY DEF TypeOK
    <2>3. \A n \in Nodes : flags'[n] = IF n \in D
                                       THEN [flags[n] EXCEPT !.destroy = TRUE, !.mark = TRUE]
                                       ELSE flags[n]
      BY <1>1
    <2>4. \A n \in Nodes : flags'[n] \in Flags
      BY <2>1, <2>2, <2>3
    <2>5. flags' = [n \in Nodes |-> flags'[n]]
      BY <1>1
    <2>6. flags' \in [Nodes -> Flags]
      BY <2>4, <2>5, Zenon
    <2>7. \A n \in Nodes : n \in D => /\ flags'[n].created <=> flags[n].created
                                      /\ flags'[n].destroy /\ flags'[n].mark
      BY <2>1, <2>2, <2>3
    <2>8. \A n \in Nodes : n \notin D => flags'[n] = flags[n]
      BY <2>3
    <2> QED BY <2>6, <2>7, <2>8
  <1>3. /\ destroys' \in [Handlers -> Nat]
        /\ \A h \in Handlers : destroys'[h] = IF h \in D THEN destroys[h] + 1 ELSE destroys[h]
    <2>1. \A h \in Handlers : destroys[h] \in Nat /\ destroys[h] + 1 \in Nat
      BY DEF TypeOK
    <2>2. destroys' = [h \in Handlers |-> IF h \in D THEN destroys[h] + 1 ELSE destroys[h]]
      BY <1>1
    <2> QED BY <2>1, <2>2, Zenon
  <1>4. /\ selfRef' \subseteq Handlers /\ destroyed' \subseteq Handlers
        /\ \A h \in Handlers : h \in destroyed' <=> h \in destroyed \/ h \in D
    BY <1>1, TreeAssumption DEF TypeOK, Nodes
  <1>5. inbox' \subseteq Message
    <2>1. ASSUME NEW h \in D \cap selfRef PROVE Msg("dispose", h, None, None) \in Message
      BY MsgType
    <2>2. box \subseteq Message
      BY DEF TypeOK
    <2> QED BY <1>1, <2>1, <2>2
  <1>6. gcTimer' \in BOOLEAN /\ (gcTimer => gcTimer') /\ (D \ {Root} # {} => gcTimer')
    BY <1>1, Zenon
  <1>7. \A h \in Handlers : h \in D => D \ {Root} # {}
    BY TreeAssumption
  <1> QED BY <1>1, <1>2, <1>3, <1>4, <1>5, <1>6, <1>7 DEF Destroyed

----------------------------------------------------------------------------
(* AddChildHelper and BM_DESTROY keep the tree in order *)

\* A created parent adopts a handler that was not created before.
LEMMA AdoptKeeps ==
  ASSUME Inv, NEW p \in Nodes, NEW c \in Handlers, NEW box \in SUBSET inbox,
         p \in Handlers => life[p] = "alive", flags[p].created,
         ~flags[c].created, parent[c] = None, running,
         Adopt(p, c, box), life' = [life EXCEPT ![c] = "alive"],
         UNCHANGED <<running, held, gc, nodes, ids>>
  PROVE  /\ FlagsFit' /\ RefsAlive' /\ CreatedInTree' /\ Rooted' /\ GcFits'
         /\ NoOrphan' /\ DestroyedIsWatched' /\ IdsFit' /\ NoTimerOfDead'
  <1> USE TreeAssumption
  <1>1. TypeOK /\ FlagsFit /\ RefsAlive /\ CreatedInTree /\ GcFits /\ NoOrphan
        /\ DestroyedIsWatched /\ IdsFit /\ NoTimerOfDead /\ Rooted
    BY DEF Inv
  <1>2. /\ \A h \in Handlers : parent'[h] = IF h = c THEN p ELSE parent[h]
        /\ \A n \in Nodes : children'[n] = IF n = p THEN children[n] \cup {c} ELSE children[n]
        /\ \A n \in Nodes : n # c => flags'[n] = flags[n]
        /\ flags'[c].created /\ (flags'[c].destroy <=> flags[p].destroy)
        /\ flags'[c].mark <=> flags[p].destroy
        /\ \A h \in Handlers : destroys'[h] = IF h = c /\ flags[p].destroy THEN destroys[h] + 1
                                              ELSE destroys[h]
        /\ selfRef' = IF flags[p].destroy THEN selfRef ELSE selfRef \cup {c}
        /\ destroyed' = IF flags[p].destroy THEN destroyed \cup {c} ELSE destroyed
        /\ inbox' = IF flags[p].destroy THEN box \cup {Msg("dispose", c, None, None)} ELSE box
        /\ gcTimer' <=> (gcTimer \/ flags[p].destroy)
    <2>1. Adopted(p, c, box)
      BY <1>1, AdoptEffect
    <2> QED BY <2>1 DEF Adopted
  <1>3. /\ \A h \in Handlers : life'[h] = IF h = c THEN "alive" ELSE life[h]
        /\ running' = running /\ held' = held /\ gc' = gc /\ nodes' = nodes /\ ids' = ids
    BY <1>1 DEF TypeOK
  <1>4. p # c /\ c \in Nodes /\ Root \in Nodes /\ Root # c /\ Handlers \subseteq Nodes
        /\ ~flags[c].mark /\ ~flags[c].destroy /\ destroys[c] = 0
    BY <1>1 DEF FlagsFit, Nodes
  <1>5. \A h \in Handlers : parent[h] # c /\ (parent[h] # None => parent[h] \in Nodes)
    BY <1>1 DEF CreatedInTree, TypeOK
  <1>6. \A m \in inbox' : m \in inbox \/ m.on = c
    BY <1>2, MsgFields
  <1>7. \A m \in inbox : m.on \in Nodes
    BY <1>1, MessageFields DEF TypeOK
  <1>8. FlagsFit'
    BY <1>1, <1>2, <1>4 DEF FlagsFit
  <1>9. RefsAlive'
    <2>1. \A h \in selfRef' \cup destroyed' : life'[h] = "alive"
      BY <1>1, <1>2, <1>3 DEF RefsAlive, TypeOK
    <2>2. \A t \in Threads : \A h \in held'[t] : life'[h] = "alive"
      BY <1>1, <1>3 DEF RefsAlive, TypeOK
    <2>3. \A m \in inbox' : m.on \in Handlers => life'[m.on] = "alive"
      BY <1>1, <1>3, <1>6 DEF RefsAlive
    <2>4. ParentOutlives'
      BY <1>1, <1>2, <1>3, <1>4, <1>5 DEF RefsAlive, ParentOutlives
    <2> QED BY <2>1, <2>2, <2>3, <2>4 DEF RefsAlive
  <1>10. CreatedInTree'
    <2>1. \A h \in Handlers : life'[h] = "new" => ~flags'[h].created
      BY <1>1, <1>2, <1>3, <1>4 DEF CreatedInTree
    <2>2. ASSUME NEW h \in Handlers, life'[h] = "alive", flags'[h].created
          PROVE  /\ parent'[h] # None /\ running'
                 /\ flags'[h].mark \/ h \in selfRef'
                 /\ h \in children'[parent'[h]]
      <3>1. CASE h = c
        <4>1. parent'[h] = p /\ p # None /\ p \in Nodes /\ h \in children'[p]
          BY <1>2, <3>1 DEF Nodes
        <4>2. flags'[h].mark \/ h \in selfRef'
          BY <1>2, <3>1
        <4> QED BY <1>3, <4>1, <4>2
      <3>2. CASE h # c
        <4>1. life[h] = "alive" /\ flags[h].created /\ h \in Nodes
          BY <1>2, <1>3, <1>4, <2>2, <3>2
        <4>2. parent[h] # None /\ parent[h] \in Nodes /\ (flags[h].mark \/ h \in selfRef)
              /\ h \in children[parent[h]]
          BY <1>1, <1>5, <4>1 DEF CreatedInTree
        <4>3. flags'[h].mark \/ h \in selfRef'
          BY <1>2, <3>2, <4>1, <4>2
        <4>4. parent'[h] = parent[h] /\ h \in children'[parent[h]]
          BY <1>2, <3>2, <4>2
        <4> QED BY <1>3, <4>2, <4>3, <4>4
      <3> QED BY <3>1, <3>2
    <2>3. \A h \in Handlers : parent'[h] # None => flags'[h].created /\ flags'[parent'[h]].created
      <3>1. \A h \in Handlers : h # c /\ parent[h] # None => flags[h].created /\ flags[parent[h]].created
        BY <1>1 DEF CreatedInTree
      <3>2. \A x \in Nodes : flags[x].created => flags'[x].created
        BY <1>2
      <3>3. flags'[c].created /\ flags'[p].created
        BY <1>2, <3>2
      <3>4. \A h \in Handlers : parent'[h] = IF h = c THEN p ELSE parent[h]
        BY <1>2
      <3> QED BY <1>4, <1>5, <3>1, <3>2, <3>3, <3>4
    <2>4. \A n \in Nodes : \A x \in children'[n] : flags'[x].created
      <3>1. \A n \in Nodes : \A x \in children[n] : x \in Nodes /\ flags[x].created
        BY <1>1, <1>4 DEF CreatedInTree, TypeOK
      <3>2. \A x \in Nodes : flags[x].created => flags'[x].created
        BY <1>2
      <3>3. \A n \in Nodes : \A x \in children'[n] : x \in children[n] \/ x = c
        <4>1. \A n \in Nodes : children'[n] = IF n = p THEN children[n] \cup {c} ELSE children[n]
          BY <1>2
        <4> QED BY <4>1
      <3>4. flags'[c].created
        BY <1>2
      <3> QED BY <3>1, <3>2, <3>3, <3>4
    <2>5. \A h \in destroyed' : flags'[h].mark
      BY <1>1, <1>2, <1>4 DEF CreatedInTree, TypeOK
    <2>6. \A m \in inbox' : flags'[m.on].created
      BY <1>1, <1>2, <1>6, <1>7 DEF CreatedInTree
    <2> QED BY <2>1, <2>2, <2>3, <2>4, <2>5, <2>6 DEF CreatedInTree
  <1>11. Rooted'
    <2>1. PICK rank \in [Nodes -> Nat] :
                 \A h \in Handlers : parent[h] # None => rank[parent[h]] < rank[h]
      BY <1>1 DEF Rooted
    <2> DEFINE new == [rank EXCEPT ![c] = rank[p] + 1]
    <2>2. new \in [Nodes -> Nat] /\ new[c] = rank[p] + 1 /\ \A n \in Nodes : n # c => new[n] = rank[n]
      BY <1>4
    <2> HIDE DEF new
    <2>3. \A h \in Handlers : parent'[h] # None => new[parent'[h]] < new[h]
      BY <1>2, <1>4, <1>5, <2>1, <2>2
    <2> QED BY <2>2, <2>3 DEF Rooted
  <1>12. GcFits'
    BY <1>1, <1>2, <1>3, <1>4 DEF GcFits, TypeOK
  <1>13. NoOrphan'
    BY <1>1, <1>2, <1>3, <1>4, <1>5 DEF NoOrphan, FlagsFit
  <1>14. DestroyedIsWatched'
    BY <1>1, <1>2, <1>3, <1>4 DEF DestroyedIsWatched
  <1>15. IdsFit'
    BY <1>1, <1>2, <1>3, <1>4 DEF IdsFit, NoTimers
  <1>16. NoTimerOfDead'
    BY <1>1, <1>3 DEF NoTimerOfDead
  <1> QED BY <1>8, <1>9, <1>10, <1>11, <1>12, <1>13, <1>14, <1>15, <1>16

\* BM_DESTROY of a live node n marks it and, down the tree, its live children.
LEMMA OnDestroyKeeps ==
  ASSUME Inv, NEW n \in Nodes, NEW box \in SUBSET inbox,
         n \in Handlers => life[n] = "alive", flags[n].created, running,
         OnDestroy(DestroySet(n), box),
         UNCHANGED <<life, parent, children, running, held, gc, nodes, ids>>
  PROVE  /\ FlagsFit' /\ RefsAlive' /\ CreatedInTree' /\ Rooted' /\ GcFits'
         /\ NoOrphan' /\ DestroyedIsWatched' /\ IdsFit' /\ NoTimerOfDead'
  <1> USE TreeAssumption
  <1>1. TypeOK /\ FlagsFit /\ RefsAlive /\ CreatedInTree /\ GcFits /\ NoOrphan
        /\ DestroyedIsWatched /\ IdsFit /\ NoTimerOfDead /\ Rooted
    BY DEF Inv
  <1> DEFINE D == DestroySet(n)
  <1>2. /\ D \in SUBSET Nodes
        /\ \A x \in D : ~flags[x].mark /\ (x \in Handlers => life[x] = "alive")
        /\ \A x \in D : \A c \in children[x] : life[c] = "alive" /\ ~flags[c].mark => c \in D
    BY <1>1, DestroySetReach
  <1>3. OnDestroy(D, box)
    OBVIOUS
  <1> HIDE DEF D
  <1>4. /\ \A x \in Nodes : /\ flags'[x].created <=> flags[x].created
                            /\ flags'[x].destroy <=> (flags[x].destroy \/ x \in D)
                            /\ flags'[x].mark <=> (flags[x].mark \/ x \in D)
        /\ \A h \in Handlers : destroys'[h] = IF h \in D THEN destroys[h] + 1 ELSE destroys[h]
        /\ selfRef' = selfRef \ D
        /\ \A h \in Handlers : h \in destroyed' <=> h \in destroyed \/ h \in D
        /\ \A m \in inbox' : m \in box \/ \E h \in D \cap selfRef : m = Msg("dispose", h, None, None)
        /\ gcTimer => gcTimer'
        /\ \A h \in Handlers : h \in D => gcTimer'
        /\ destroyed' \subseteq Handlers
    <2>1. Destroyed(D, box)
      BY <1>1, <1>2, <1>3, OnDestroyEffect
    <2> QED BY <2>1 DEF Destroyed
  <1>5. /\ life' = life /\ parent' = parent /\ children' = children /\ running' = running
        /\ held' = held /\ gc' = gc /\ nodes' = nodes /\ ids' = ids
    OBVIOUS
  <1>6. Root \in Nodes /\ Handlers \subseteq Nodes /\ \A h \in Handlers : parent[h] # None => parent[h] \in Nodes
    BY <1>1 DEF TypeOK, Nodes
  <1>7. \A m \in inbox' : m \in inbox \/ m.on \in D \cap selfRef
    BY <1>4, MsgFields
  <1>8. \A m \in inbox : m.on \in Nodes
    BY <1>1, MessageFields DEF TypeOK
  <1>9. \A x \in D : flags[x].created
    BY <1>1, DestroySetCreated DEF D, CreatedInTree
  <1>10. FlagsFit'
    <2>1. \A x \in Nodes : /\ flags'[x].mark => flags'[x].destroy
                           /\ flags'[x].destroy => flags'[x].created
      BY <1>1, <1>4, <1>9 DEF FlagsFit
    <2>2. \A h \in Handlers : destroys'[h] = IF flags'[h].mark THEN 1 ELSE 0
      BY <1>1, <1>2, <1>4, <1>6 DEF FlagsFit
    <2>3. flags'[Root].created
      BY <1>1, <1>4, <1>6 DEF FlagsFit
    <2> QED BY <2>1, <2>2, <2>3 DEF FlagsFit
  <1>11. RefsAlive'
    BY <1>1, <1>2, <1>4, <1>5, <1>7 DEF RefsAlive, ParentOutlives, TypeOK
  <1>12. CreatedInTree'
    <2>1. \A h \in Handlers : life[h] = "alive" /\ flags'[h].created =>
            /\ parent[h] # None /\ running
            /\ flags'[h].mark \/ h \in selfRef'
            /\ h \in children[parent[h]]
      BY <1>1, <1>4, <1>6 DEF CreatedInTree
    <2>2. \A h \in Handlers : parent[h] # None => flags'[h].created /\ flags'[parent[h]].created
      BY <1>1, <1>4, <1>6 DEF CreatedInTree
    <2>3. \A x \in Nodes : \A c \in children[x] : flags'[c].created
      BY <1>1, <1>4, <1>6 DEF CreatedInTree, TypeOK
    <2>4. \A h \in destroyed' : flags'[h].mark
      BY <1>1, <1>4, <1>6 DEF CreatedInTree
    <2>5. \A m \in inbox' : flags'[m.on].created
      BY <1>1, <1>2, <1>4, <1>7, <1>8, <1>9 DEF CreatedInTree
    <2> QED BY <1>1, <1>4, <1>5, <1>6, <2>1, <2>2, <2>3, <2>4, <2>5 DEF CreatedInTree
  <1>13. Rooted'
    BY <1>1, <1>5 DEF Rooted
  <1>14. GcFits'
    BY <1>1, <1>4, <1>5, <1>6 DEF GcFits, TypeOK
  <1>15. NoOrphan'
    BY <1>1, <1>2, <1>4, <1>5, <1>6 DEF NoOrphan, CreatedInTree
  <1>16. DestroyedIsWatched'
    BY <1>1, <1>4, <1>5, <1>6 DEF DestroyedIsWatched
  <1>17. IdsFit'
    BY <1>1, <1>4, <1>5, <1>6 DEF IdsFit
  <1>18. NoTimerOfDead'
    BY <1>1, <1>5 DEF NoTimerOfDead
  <1> QED BY <1>10, <1>11, <1>12, <1>13, <1>14, <1>15, <1>16, <1>17, <1>18

----------------------------------------------------------------------------
(* The steps that create and destroy handlers *)

\* The parts of Inv that are about the tree.
TreeInv ==
  /\ FlagsFit /\ RefsAlive /\ CreatedInTree /\ Rooted /\ GcFits
  /\ NoOrphan /\ DestroyedIsWatched /\ IdsFit /\ NoTimerOfDead

\* The steps that call OnCreate or OnDestroy.
TreeStep ==
  \/ \E h \in Handlers : HomeDestroy(h) \/ \E p \in Nodes : HomeAddChild(p, h)
  \/ \E m \in inbox : HandleDestroy(m) \/ HandleAddChild(m)

\* They keep the tree in order.
LEMMA TreeStepKeeps ==
  ASSUME Inv, TreeStep
  PROVE  TreeInv'
  <1>1. TypeOK /\ RefsAlive /\ CreatedInTree /\ FlagsFit /\ MessagesFit /\ inbox \in SUBSET inbox
    BY DEF Inv
  <1>2. Root \in Nodes /\ Handlers \subseteq Nodes
    BY DEF Nodes
  <1>3. ASSUME NEW m \in inbox
        PROVE  /\ m.on \in Nodes /\ flags[m.on].created /\ (m.on \in Handlers => life[m.on] = "alive")
               /\ m.kind = "addChild" => m.child \in Handlers /\ life[m.child] = "alive"
    <2>1. m \in Message
      BY <1>1 DEF TypeOK
    <2>2. m.kind = "addChild" => m.child \in Handlers /\ m.by \in Threads /\ m.child \in held[m.by]
      BY <1>1, <2>1, MessageFields DEF MessagesFit
    <2> QED BY <1>1, <2>1, <2>2, MessageFields DEF CreatedInTree, RefsAlive
  <1>4. ASSUME NEW h \in Handlers, HomeDestroy(h) PROVE TreeInv'
    <2>1. /\ running /\ life[h] = "alive" /\ flags[h].created /\ h \in Nodes
          /\ OnDestroy(DestroySet(h), inbox)
          /\ UNCHANGED <<life, parent, children, running, held, gc, nodes, ids>>
      BY <1>2, <1>4 DEF HomeDestroy, looper, threads, timers
    <2> QED BY <1>1, <2>1, OnDestroyKeeps DEF TreeInv
  <1>5. ASSUME NEW h \in Handlers, NEW p \in Nodes, HomeAddChild(p, h) PROVE TreeInv'
    <2>1. /\ running /\ (p \in Handlers => life[p] = "alive") /\ life[h] = "new"
          /\ life' = [life EXCEPT ![h] = "alive"] /\ Adopt(p, h, inbox)
          /\ UNCHANGED <<running, held, gc, nodes, ids>>
      BY <1>5 DEF HomeAddChild, looper, threads, timers
    <2>2. flags[p].created
      BY <1>1, <1>5 DEF HomeAddChild, FlagsFit, Nodes
    <2>3. ~flags[h].created /\ parent[h] = None
      BY <1>1, <2>1 DEF CreatedInTree
    <2> QED BY <1>1, <2>1, <2>2, <2>3, AdoptKeeps DEF TreeInv
  <1>6. ASSUME NEW m \in inbox, HandleDestroy(m) PROVE TreeInv'
    <2>1. /\ running /\ OnDestroy(DestroySet(m.on), inbox \ {m})
          /\ UNCHANGED <<life, parent, children, running, held, gc, nodes, ids>>
      BY <1>6 DEF HandleDestroy, looper, timers
    <2>2. inbox \ {m} \in SUBSET inbox
      OBVIOUS
    <2> QED BY <1>3, <2>1, <2>2, OnDestroyKeeps DEF TreeInv
  <1>7. ASSUME NEW m \in inbox, HandleAddChild(m) PROVE TreeInv'
    <2>1. /\ running /\ m.kind = "addChild" /\ AddChildHelper(m.on, m.child, inbox \ {m})
          /\ UNCHANGED <<running, held, gc, nodes, ids>>
      BY <1>7 DEF HandleAddChild, looper, timers
    <2>2. inbox \ {m} \in SUBSET inbox
      OBVIOUS
    <2>3. CASE parent[m.child] = None /\ ~flags[m.child].created
      <3>1. Adopt(m.on, m.child, inbox \ {m}) /\ life' = life
        BY <2>1, <2>3 DEF AddChildHelper
      <3>2. life' = [life EXCEPT ![m.child] = "alive"]
        BY <1>1, <1>3, <2>1, <3>1 DEF TypeOK
      <3> QED BY <1>3, <2>1, <2>2, <2>3, <3>1, <3>2, AdoptKeeps DEF TreeInv
    <2>4. CASE ~(parent[m.child] = None /\ ~flags[m.child].created)
      <3>1. /\ inbox' = inbox \ {m}
            /\ UNCHANGED <<life, flags, parent, children, selfRef, destroyed, destroys, gcTimer>>
        BY <2>1, <2>4 DEF AddChildHelper
      <3> QED BY <2>1, <3>1 DEF Inv, TreeInv, FlagsFit, RefsAlive, ParentOutlives, CreatedInTree, Rooted,
                 GcFits, NoOrphan, DestroyedIsWatched, IdsFit, NoTimerOfDead
    <2> QED BY <2>3, <2>4
  <1> QED BY <1>4, <1>5, <1>6, <1>7 DEF TreeStep

----------------------------------------------------------------------------
(* The steps *)

\* What the parts of Inv are about: a step that leaves it alone keeps them.
LEMMA Untouched ==
  ASSUME Inv
  PROVE  /\ UNCHANGED <<flags, destroys>> => FlagsFit'
         /\ UNCHANGED <<selfRef, destroyed, held, inbox, life, parent>> => RefsAlive'
         /\ UNCHANGED <<life, flags, parent, running, selfRef, children, destroyed, inbox>> => CreatedInTree'
         /\ UNCHANGED parent => Rooted'
         /\ UNCHANGED <<inbox, pc, held, arg>> => MessagesFit'
         /\ UNCHANGED <<pc, arg, held, flags, life>> => ThreadsFit'
         /\ UNCHANGED <<gc, destroyed, flags, life>> => GcFits'
         /\ UNCHANGED <<life, parent, flags>> => NoOrphan'
         /\ UNCHANGED <<flags, life, gcTimer, destroyed, gc>> => DestroyedIsWatched'
         /\ UNCHANGED <<flags, nodes, life, ids>> => IdsFit'
         /\ UNCHANGED <<nodes, ids>> => TimerIdsUnique'
         /\ UNCHANGED <<life, gc, nodes>> => NoTimerOfDead'
         /\ UNCHANGED strayed => TimersStayHome'
  <1> USE DEF Inv
  <1>1. UNCHANGED <<flags, destroys>> => FlagsFit'
    BY DEF FlagsFit
  <1>2. UNCHANGED <<selfRef, destroyed, held, inbox, life, parent>> => RefsAlive'
    BY DEF RefsAlive, ParentOutlives
  <1>3. UNCHANGED <<life, flags, parent, running, selfRef, children, destroyed, inbox>> => CreatedInTree'
    BY DEF CreatedInTree
  <1>4. UNCHANGED parent => Rooted'
    BY DEF Rooted
  <1>5. UNCHANGED <<inbox, pc, held, arg>> => MessagesFit'
    BY DEF MessagesFit
  <1>6. UNCHANGED <<pc, arg, held, flags, life>> => ThreadsFit'
    BY DEF ThreadsFit, InDtor
  <1>7. UNCHANGED <<gc, destroyed, flags, life>> => GcFits'
    BY DEF GcFits
  <1>8. UNCHANGED <<life, parent, flags>> => NoOrphan'
    BY DEF NoOrphan
  <1>9. UNCHANGED <<flags, life, gcTimer, destroyed, gc>> => DestroyedIsWatched'
    BY DEF DestroyedIsWatched
  <1>10. UNCHANGED <<flags, nodes, life, ids>> => IdsFit'
    BY DEF IdsFit
  <1>11. UNCHANGED <<nodes, ids>> => TimerIdsUnique'
    BY DEF TimerIdsUnique
  <1>12. UNCHANGED <<life, gc, nodes>> => NoTimerOfDead'
    BY DEF NoTimerOfDead
  <1>13. UNCHANGED strayed => TimersStayHome'
    BY DEF TimersStayHome
  <1> QED BY <1>1, <1>2, <1>3, <1>4, <1>5, <1>6, <1>7, <1>8, <1>9, <1>10, <1>11, <1>12, <1>13

\* An answer is for one thread only.
LEMMA AnswerType ==
  ASSUME TypeOK, NEW m \in inbox, Answer(m)
  PROVE  /\ pc' \in [Threads -> {"run", "store", "wait", "dtor", "unref"}]
         /\ \A t \in Threads : pc'[t] = IF t # m.by THEN pc[t]
                                        ELSE IF m.kind = "childDtor" THEN "unref" ELSE "run"
  <1>1. \A t \in Threads : pc[t] \in {"run", "store", "wait", "dtor", "unref"}
    BY DEF TypeOK
  <1> QED BY <1>1 DEF Answer

\* The timer of gc fires: gc has everybody to look at who is in mDestroyedHandlers.
LEMMA GcTimerKeeps ==
  ASSUME Inv, GcTimer
  PROVE  Inv'
  <1> USE TreeAssumption DEF Inv, Nodes
  <1>1. TypeOK'
    BY DEF GcTimer, tree, threads, timers, looper, TypeOK
  <1>2. GcFits'
    BY DEF GcTimer, tree, GcFits
  <1>3. DestroyedIsWatched'
    BY DEF GcTimer, tree, Home, GcFits, DestroyedIsWatched
  <1>4. NoTimerOfDead'
    BY DEF GcTimer, tree, timers, Home, GcFits, NoTimerOfDead
  <1> QED BY <1>1, <1>2, <1>3, <1>4, Untouched DEF GcTimer, tree, threads, timers, looper

\* gc tests the use count of a handler.
LEMMA GcPickKeeps ==
  ASSUME Inv, NEW h \in Handlers, GcPick(h)
  PROVE  Inv'
  <1> USE TreeAssumption DEF Inv, Nodes
  <1>1. /\ gc.step = "pick" /\ h \in gc.todo /\ gc.cur = None /\ h \in destroyed
        /\ gc'.todo = gc.todo \ {h}
        /\ \/ gc'.step = "pick" /\ gc'.cur = None
           \/ gc'.step = "drop" /\ gc'.cur = h
        /\ gc' \in [step : {"off", "pick", "drop", "relock"}, todo : SUBSET Handlers, cur : Handlers \cup {None}]
    BY DEF GcPick, TypeOK, GcFits
  <1>2. TypeOK'
    BY <1>1 DEF GcPick, tree, threads, timers, looper, TypeOK
  <1>3. GcFits'
    BY <1>1 DEF tree, GcPick, TypeOK, GcFits, CreatedInTree, RefsAlive
  <1>4. DestroyedIsWatched'
    BY <1>1 DEF GcPick, tree, GcFits, DestroyedIsWatched
  <1>5. NoTimerOfDead'
    BY <1>1 DEF GcPick, tree, timers, GcFits, NoTimerOfDead
  <1> QED BY <1>2, <1>3, <1>4, <1>5, Untouched DEF GcPick, tree, threads, timers, looper

\* gc is through with the list.
LEMMA GcEndKeeps ==
  ASSUME Inv, GcEnd
  PROVE  Inv'
  <1> USE TreeAssumption DEF Inv, Nodes
  <1>1. TypeOK'
    BY DEF GcEnd, tree, threads, timers, looper, TypeOK, NoGc
  <1>2. GcFits'
    BY DEF GcEnd, tree, GcFits, NoGc, TypeOK
  <1>3. DestroyedIsWatched'
    <2>1. gc.cur = None /\ gc'.cur = None
      BY DEF GcEnd, GcFits, NoGc
    <2>2. destroyed # {} /\ gcTimer => gcTimer'
      BY DEF GcEnd
    <2>3. flags' = flags /\ life' = life /\ destroyed' = destroyed
      BY DEF GcEnd, tree
    <2>4. \A h \in Handlers : flags[h].mark /\ life[h] = "alive" => gcTimer /\ h \in destroyed
      BY <2>1 DEF DestroyedIsWatched
    <2> QED BY <2>1, <2>2, <2>3, <2>4 DEF DestroyedIsWatched
  <1>4. NoTimerOfDead'
    BY DEF GcEnd, tree, timers, GcFits, NoTimerOfDead, NoGc
  <1> QED BY <1>1, <1>2, <1>3, <1>4, Untouched DEF GcEnd, tree, threads, timers, looper

\* BM_POST_DISPOSE is handled, and gc starts.
LEMMA HandleDisposeKeeps ==
  ASSUME Inv, NEW m \in inbox, HandleDispose(m)
  PROVE  Inv'
  <1> USE TreeAssumption DEF Inv, Nodes
  <1>1. TypeOK'
    BY DEF HandleDispose, tree, threads, timers, looper, TypeOK
  <1>2. RefsAlive'
    BY DEF HandleDispose, tree, threads, RefsAlive, ParentOutlives
  <1>3. CreatedInTree'
    BY DEF HandleDispose, tree, looper, CreatedInTree
  <1>4. MessagesFit'
    BY DEF HandleDispose, threads, MessagesFit
  <1>5. GcFits'
    BY DEF HandleDispose, tree, GcFits
  <1>6. DestroyedIsWatched'
    BY DEF HandleDispose, tree, Home, GcFits, DestroyedIsWatched
  <1>7. NoTimerOfDead'
    BY DEF HandleDispose, tree, timers, Home, GcFits, NoTimerOfDead
  <1> QED BY <1>1, <1>2, <1>3, <1>4, <1>5, <1>6, <1>7, Untouched DEF HandleDispose, tree, threads, timers, looper

\* BM_QUIT is handled: the looper destroys itself.
LEMMA HandleQuitKeeps ==
  ASSUME Inv, NEW m \in inbox, HandleQuit(m)
  PROVE  Inv'
  <1> USE TreeAssumption DEF Inv, Nodes
  <1>1. Msg("destroy", Root, None, None) \in Message
    BY MsgType
  <1>2. \A x \in inbox' : x \in inbox \/ (x.on = Root /\ x.by = None /\ x.kind = "destroy" /\ x.child = None)
    BY MsgFields DEF HandleQuit
  <1>3. TypeOK'
    BY <1>1, <1>2 DEF HandleQuit, tree, threads, timers, looper, TypeOK
  <1>4. RefsAlive'
    BY <1>1, <1>2 DEF HandleQuit, tree, threads, RefsAlive, ParentOutlives
  <1>5. CreatedInTree'
    BY <1>1, <1>2 DEF HandleQuit, tree, looper, CreatedInTree, FlagsFit
  <1>6. MessagesFit'
    BY <1>1, <1>2 DEF HandleQuit, threads, MessagesFit
  <1> QED BY <1>3, <1>4, <1>5, <1>6, Untouched DEF HandleQuit, tree, threads, timers, looper

\* PostQuitMessage.
LEMMA QuitKeeps ==
  ASSUME Inv, NEW t \in Threads, Quit(t)
  PROVE  Inv'
  <1> USE TreeAssumption DEF Inv, Nodes
  <1>1. Msg("quit", Root, None, None) \in Message
    BY MsgType
  <1>2. \A x \in inbox' : x \in inbox \/ (x.on = Root /\ x.by = None /\ x.kind = "quit")
    BY MsgFields DEF Quit
  <1>3. TypeOK'
    BY <1>1, <1>2 DEF Quit, tree, threads, timers, looper, TypeOK
  <1>4. RefsAlive'
    BY <1>1, <1>2 DEF Quit, tree, threads, RefsAlive, ParentOutlives
  <1>5. CreatedInTree'
    BY <1>1, <1>2 DEF Quit, tree, looper, CreatedInTree, FlagsFit
  <1>6. MessagesFit'
    BY <1>1, <1>2 DEF Quit, threads, MessagesFit
  <1> QED BY <1>3, <1>4, <1>5, <1>6, Untouched DEF Quit, tree, threads, timers, looper

\* A thread locks a weak_ptr.
LEMMA LockKeeps ==
  ASSUME Inv, NEW t \in Threads, NEW h \in Handlers, Lock(t, h)
  PROVE  Inv'
  <1> USE TreeAssumption DEF Inv, Nodes
  <1>1. /\ held' \in [Threads -> SUBSET Handlers]
        /\ \A u \in Threads : held'[u] = IF u = t THEN held[u] \cup {h} ELSE held[u]
    BY DEF Lock, TypeOK
  <1>2. TypeOK'
    BY <1>1 DEF Lock, tree, threads, timers, looper, TypeOK
  <1>3. RefsAlive'
    BY <1>1 DEF Lock, tree, threads, RefsAlive, ParentOutlives
  <1>4. MessagesFit'
    BY <1>1, MessageFields DEF Lock, threads, MessagesFit, TypeOK
  <1>5. ThreadsFit'
    BY <1>1 DEF Lock, tree, threads, ThreadsFit, InDtor
  <1> QED BY <1>2, <1>3, <1>4, <1>5, Untouched DEF Lock, tree, threads, timers, looper

\* A thread is about to store mDestroy.
LEMMA DestroyTestKeeps ==
  ASSUME Inv, NEW t \in Threads, NEW h \in Handlers, DestroyTest(t, h)
  PROVE  Inv'
  <1> USE TreeAssumption DEF Inv, Nodes
  <1>1. /\ pc' \in [Threads -> {"run", "store", "wait", "dtor", "unref"}]
        /\ arg' \in [Threads -> [h : Handlers \cup {None}, old : Flags]]
        /\ pc[t] = "run" /\ pc'[t] = "store" /\ arg'[t].h = h
        /\ \A u \in Threads : u # t => pc'[u] = pc[u] /\ arg'[u] = arg[u]
        /\ h \in held[t] /\ flags[h].created /\ held' = held /\ inbox' = inbox
    BY DEF DestroyTest, At, Goto, TypeOK
  <1>2. life' = life /\ flags' = flags
    BY DEF DestroyTest, tree
  <1>3. TypeOK'
    BY <1>1, <1>2 DEF DestroyTest, tree, threads, timers, looper, TypeOK
  <1>4. MessagesFit'
    BY <1>1, <1>2 DEF DestroyTest, threads, MessagesFit, TypeOK
  <1>5. ThreadsFit'
    BY <1>1, <1>2 DEF DestroyTest, tree, threads, ThreadsFit, InDtor
  <1> QED BY <1>3, <1>4, <1>5, Untouched DEF DestroyTest, tree, threads, timers, looper

\* BM_CHILD_DTOR is handled: the parent forgets a child whose destructor runs.
LEMMA HandleChildDtorKeeps ==
  ASSUME Inv, NEW m \in inbox, HandleChildDtor(m)
  PROVE  Inv'
  <1> USE TreeAssumption DEF Inv, Nodes
  <1>1. m \in Message /\ m.kind = "childDtor" /\ m.on \in Nodes /\ m.child \in Handlers /\ m.by \in Threads
    BY MessageFields DEF HandleChildDtor, TypeOK
  <1>2. pc[m.by] = "wait" /\ arg[m.by].h = m.child /\ life[m.child] = "dtor"
    BY <1>1 DEF MessagesFit, ThreadsFit, InDtor
  <1>3. /\ pc' \in [Threads -> {"run", "store", "wait", "dtor", "unref"}]
        /\ pc'[m.by] = "unref" /\ \A t \in Threads : t # m.by => pc'[t] = pc[t]
    BY <1>1, AnswerType DEF HandleChildDtor
  <1>4. /\ children' \in [Nodes -> SUBSET Handlers]
        /\ \A n \in Nodes : children'[n] = IF n = m.on THEN children[n] \ {m.child} ELSE children[n]
    BY <1>1 DEF HandleChildDtor, TypeOK
  <1>5. TypeOK'
    BY <1>1, <1>2, <1>3, <1>4 DEF HandleChildDtor, timers, looper, TypeOK
  <1>6. RefsAlive'
    BY <1>1, <1>2, <1>3, <1>4 DEF HandleChildDtor, RefsAlive, ParentOutlives
  <1>7. CreatedInTree'
    BY <1>1, <1>2, <1>3, <1>4 DEF HandleChildDtor, looper, CreatedInTree, TypeOK
  <1>8. MessagesFit'
    BY <1>1, <1>2, <1>3, <1>4 DEF HandleChildDtor, MessagesFit
  <1>9. ThreadsFit'
    BY <1>1, <1>2, <1>3, <1>4 DEF HandleChildDtor, ThreadsFit, InDtor, TypeOK
  <1> QED BY <1>5, <1>6, <1>7, <1>8, <1>9, Untouched DEF HandleChildDtor, tree, threads, timers, looper

\* The looper stops: no handler that was created is alive.
LEMMA StopKeeps ==
  ASSUME Inv, Stop
  PROVE  Inv'
  <1> USE TreeAssumption DEF Inv, Nodes
  <1>1. ASSUME NEW x \in Handlers, life[x] = "alive", flags[x].created PROVE FALSE
    <2>1. PICK rank \in [Nodes -> Nat] :
                 \A h \in Handlers : parent[h] # None => rank[parent[h]] < rank[h]
      BY DEF Rooted
    <2> DEFINE L == {h \in Handlers : life[h] = "alive" /\ flags[h].created}
               R == {rank[h] : h \in L}
    <2>2. PICK r \in R : \A y \in R : r <= y
      <3>1. R \in SUBSET Nat /\ R # {}
        BY <1>1
      <3> QED BY <3>1, LeastNat
    <2>3. PICK h \in L : rank[h] = r
      BY <2>2
    <2>4. parent[h] \in Nodes /\ h \in children[parent[h]] /\ rank[parent[h]] < rank[h]
      BY <2>1, <2>3 DEF CreatedInTree, TypeOK
    <2>5. parent[h] \notin L
      <3>1. rank[parent[h]] \in Nat /\ rank[h] \in Nat /\ ~(rank[h] <= rank[parent[h]])
        BY <2>3, <2>4
      <3>2. parent[h] \in L => rank[h] <= rank[parent[h]]
        BY <2>2, <2>3
      <3> QED BY <3>1, <3>2
    <2>6. parent[h] \in Handlers => life[parent[h]] = "alive" /\ flags[parent[h]].created
      BY <2>3, <2>4 DEF RefsAlive, ParentOutlives, CreatedInTree
    <2>7. parent[h] = Root
      BY <2>4, <2>5, <2>6
    <2> QED BY <2>3, <2>4, <2>7 DEF Stop
  <1>2. /\ children' \in [Nodes -> SUBSET Handlers]
        /\ \A n \in Nodes : children'[n] \subseteq children[n]
    BY DEF Stop, TypeOK
  <1>3. TypeOK'
    BY <1>1, <1>2 DEF Stop, threads, timers, TypeOK
  <1>4. CreatedInTree'
    BY <1>1, <1>2 DEF Stop, CreatedInTree, TypeOK
  <1> QED BY <1>3, <1>4, Untouched DEF Stop, tree, threads, timers, looper

\* A thread constructs a handler.
LEMMA NewKeeps ==
  ASSUME Inv, NEW t \in Threads, NEW h \in Handlers, New(t, h)
  PROVE  Inv'
  <1> USE TreeAssumption DEF Inv, Nodes
  <1>1. /\ held' \in [Threads -> SUBSET Handlers]
        /\ \A u \in Threads : held'[u] = IF u = t THEN held[u] \cup {h} ELSE held[u]
    BY DEF New, TypeOK
  <1>2. /\ life' \in [Handlers -> {"new", "alive", "dtor", "gone"}] /\ life[h] = "new"
        /\ \A x \in Handlers : life'[x] = IF x = h THEN "alive" ELSE life[x]
    BY DEF New, TypeOK
  <1>3. ~flags[h].created /\ parent[h] = None /\ ~flags[h].mark /\ nodes[h] = NoTimers
    BY <1>2 DEF CreatedInTree, FlagsFit, IdsFit
  <1>4. TypeOK'
    BY <1>1, <1>2, <1>3 DEF New, timers, looper, TypeOK
  <1>5. RefsAlive'
    BY <1>1, <1>2, <1>3 DEF New, RefsAlive, ParentOutlives, TypeOK
  <1>6. CreatedInTree'
    BY <1>1, <1>2, <1>3 DEF New, looper, CreatedInTree
  <1>7. MessagesFit'
    BY <1>1, <1>2, <1>3, MessageFields DEF New, MessagesFit, TypeOK
  <1>8. ThreadsFit'
    BY <1>1, <1>2, <1>3 DEF New, ThreadsFit, InDtor
  <1>9. GcFits'
    BY <1>1, <1>2, <1>3 DEF New, GcFits
  <1>10. NoOrphan'
    BY <1>1, <1>2, <1>3 DEF New, NoOrphan, CreatedInTree
  <1>11. DestroyedIsWatched'
    BY <1>1, <1>2, <1>3 DEF New, DestroyedIsWatched, CreatedInTree, FlagsFit
  <1>12. IdsFit'
    BY <1>1, <1>2, <1>3 DEF New, timers, IdsFit, CreatedInTree, NoTimers
  <1>13. NoTimerOfDead'
    BY <1>1, <1>2, <1>3 DEF New, timers, NoTimerOfDead
  <1> QED BY <1>4, <1>5, <1>6, <1>7, <1>8, <1>9, <1>10, <1>11, <1>12, <1>13, Untouched DEF New, tree, threads, timers, looper

\* A thread sends AddChild.
LEMMA AddChildKeeps ==
  ASSUME Inv, NEW t \in Threads, NEW p \in Nodes, NEW c \in Handlers, AddChild(t, p, c)
  PROVE  Inv'
  <1> USE TreeAssumption DEF Inv, Nodes
  <1>1. /\ pc' \in [Threads -> {"run", "store", "wait", "dtor", "unref"}]
        /\ pc[t] = "run" /\ pc'[t] = "wait" /\ \A u \in Threads : u # t => pc'[u] = pc[u]
    BY DEF AddChild, At, Goto, TypeOK
  <1>2. PICK x \in Message : /\ inbox' = inbox \cup {x}
                             /\ x.kind = "addChild" /\ x.on = p /\ x.child = c /\ x.by = t
    <2>1. Msg("addChild", p, c, t) \in Message
      BY MsgType
    <2> QED BY <2>1, MsgFields DEF AddChild
  <1>3. c \in held[t] /\ (p = Root \/ (p \in held[t] /\ flags[p].created)) /\ arg[t].h = None
    BY <1>1 DEF AddChild, ThreadsFit
  <1>4. TypeOK'
    BY <1>1, <1>2, <1>3 DEF AddChild, tree, timers, looper, TypeOK
  <1>5. RefsAlive'
    BY <1>1, <1>2, <1>3 DEF AddChild, tree, RefsAlive, ParentOutlives
  <1>6. CreatedInTree'
    BY <1>1, <1>2, <1>3 DEF AddChild, tree, looper, CreatedInTree, FlagsFit
  <1>7. MessagesFit'
    BY <1>1, <1>2, <1>3 DEF AddChild, MessagesFit, ThreadsFit
  <1>8. ThreadsFit'
    BY <1>1, <1>2, <1>3 DEF AddChild, tree, ThreadsFit, InDtor
  <1> QED BY <1>4, <1>5, <1>6, <1>7, <1>8, Untouched DEF AddChild, tree, threads, timers, looper

\* A thread stores mDestroy and sends BM_DESTROY.
LEMMA DestroyStoreKeeps ==
  ASSUME Inv, NEW t \in Threads, DestroyStore(t), TornUpdates = FALSE
  PROVE  Inv'
  <1> USE TreeAssumption DEF Inv, Nodes
  <1> DEFINE h == arg[t].h
  <1>1. h \in held[t] /\ h \in Handlers /\ life[h] = "alive" /\ flags[h].created /\ running /\ pc[t] = "store"
    BY DEF DestroyStore, At, ThreadsFit, RefsAlive, CreatedInTree, TypeOK
  <1>2. flags' = [flags EXCEPT ![h] = [flags[h] EXCEPT !.destroy = TRUE]]
    BY DEF DestroyStore
  <1>3. /\ flags' \in [Nodes -> Flags]
        /\ \A n \in Nodes : /\ flags'[n].created <=> flags[n].created
                            /\ flags'[n].mark <=> flags[n].mark
                            /\ flags'[n].destroy <=> flags[n].destroy \/ n = h
    <2>1. \A f \in Flags : /\ [f EXCEPT !.destroy = TRUE] \in Flags
                           /\ [f EXCEPT !.destroy = TRUE].created = f.created
                           /\ [f EXCEPT !.destroy = TRUE].mark = f.mark
                           /\ [f EXCEPT !.destroy = TRUE].destroy
      BY DEF Flags
    <2>2. flags \in [Nodes -> Flags] /\ h \in Nodes
      BY <1>1 DEF TypeOK
    <2> HIDE DEF h
    <2> QED BY <1>2, <2>1, <2>2
  <1>4. PICK x \in Message : /\ inbox' = inbox \cup {x}
                             /\ x.kind = "destroy" /\ x.on = h /\ x.by = t
    <2>1. Msg("destroy", h, None, t) \in Message
      BY <1>1, MsgType
    <2> QED BY <1>1, <2>1, MsgFields DEF DestroyStore
  <1>5. /\ pc' \in [Threads -> {"run", "store", "wait", "dtor", "unref"}]
        /\ arg' \in [Threads -> [h : Handlers \cup {None}, old : Flags]]
        /\ pc'[t] = "wait" /\ arg'[t].h = None
        /\ \A u \in Threads : u # t => pc'[u] = pc[u] /\ arg'[u] = arg[u]
    BY <1>1 DEF DestroyStore, Goto, TypeOK, NoArg, Flags
  <1> HIDE DEF h
  <1>6. TypeOK'
    BY <1>1, <1>2, <1>3, <1>4, <1>5 DEF DestroyStore, timers, looper, TypeOK
  <1>7. FlagsFit'
    BY <1>1, <1>2, <1>3, <1>4, <1>5 DEF DestroyStore, FlagsFit
  <1>8. RefsAlive'
    BY <1>1, <1>2, <1>3, <1>4, <1>5 DEF DestroyStore, RefsAlive, ParentOutlives
  <1>9. CreatedInTree'
    <2>1. \A m \in inbox : m.on \in Nodes
      BY MessageFields DEF TypeOK
    <2>2. \A m \in inbox' : flags'[m.on].created
      BY <1>1, <1>2, <1>3, <1>4, <1>5, <2>1 DEF CreatedInTree
    <2> QED BY <1>1, <1>2, <1>3, <1>4, <1>5, <2>2 DEF DestroyStore, looper, CreatedInTree, TypeOK
  <1>10. MessagesFit'
    BY <1>1, <1>2, <1>3, <1>4, <1>5 DEF DestroyStore, MessagesFit
  <1>11. ThreadsFit'
    BY <1>1, <1>2, <1>3, <1>4, <1>5 DEF DestroyStore, ThreadsFit, InDtor, TypeOK
  <1>12. GcFits'
    BY <1>1, <1>2, <1>3, <1>4, <1>5 DEF DestroyStore, GcFits
  <1>13. NoOrphan'
    BY <1>1, <1>2, <1>3, <1>4, <1>5 DEF DestroyStore, NoOrphan, TypeOK
  <1>14. DestroyedIsWatched'
    BY <1>1, <1>2, <1>3, <1>4, <1>5 DEF DestroyStore, DestroyedIsWatched
  <1>15. IdsFit'
    BY <1>1, <1>2, <1>3, <1>4, <1>5 DEF DestroyStore, timers, IdsFit
  <1> QED BY <1>6, <1>7, <1>8, <1>9, <1>10, <1>11, <1>12, <1>13, <1>14, <1>15, Untouched DEF DestroyStore, tree, threads, timers, looper

\* gc gives up its reference; the handler is destructed if that was the last one.
LEMMA GcDropKeeps ==
  ASSUME Inv, GcDrop
  PROVE  Inv'
  <1> USE TreeAssumption DEF Inv, Nodes
  <1> DEFINE h == gc.cur
  <1>1. /\ gc.step = "drop" /\ gc'.step = "relock" /\ gc'.cur = gc.cur /\ gc'.todo = gc.todo
        /\ gc' \in [step : {"off", "pick", "drop", "relock"}, todo : SUBSET Handlers, cur : Handlers \cup {None}]
    BY DEF GcDrop, TypeOK
  <1>2. /\ h \in Handlers /\ h \in destroyed /\ life[h] = "alive" /\ flags[h].mark /\ flags[h].created
        /\ parent[h] \in Nodes /\ destroyed' = destroyed \ {h} /\ h \notin gc.todo
    BY <1>1 DEF GcDrop, GcFits, RefsAlive, FlagsFit, CreatedInTree, TypeOK
  <1>3. /\ life' \in [Handlers -> {"new", "alive", "dtor", "gone"}]
        /\ \A x \in Handlers : x # h => life'[x] = life[x]
        /\ life'[h] \in {"alive", "gone"}
        /\ Pinned(h) => life'[h] = "alive"
    <2>1. life' = IF Pinned(h) THEN life ELSE [life EXCEPT ![h] = "gone"]
      BY DEF GcDrop
    <2> HIDE DEF h
    <2> QED BY <1>2, <2>1 DEF TypeOK
  <1>4. /\ children' \in [Nodes -> SUBSET Handlers]
        /\ \A n \in Nodes : /\ children'[n] \subseteq children[n]
                            /\ \A x \in children[n] : x # h \/ life'[h] = "alive" => x \in children'[n]
    <2>1. CASE Pinned(h)
      <3>1. children' = children
        BY <2>1 DEF GcDrop
      <3> QED BY <3>1 DEF TypeOK
    <2>2. CASE ~Pinned(h)
      <3>1. children' = [children EXCEPT ![parent[h]] = @ \ {h}] /\ life' = [life EXCEPT ![h] = "gone"]
        BY <2>2 DEF GcDrop
      <3>2. life'[h] = "gone"
        BY <1>2, <3>1 DEF TypeOK
      <3> HIDE DEF h
      <3> QED BY <1>2, <3>1, <3>2 DEF TypeOK
    <2> QED BY <2>1, <2>2
  <1>5. gc'.cur = h
    BY <1>1
  <1> HIDE DEF h
  <1>6. TypeOK'
    BY <1>1, <1>2, <1>3, <1>4, <1>5 DEF GcDrop, threads, timers, looper, TypeOK
  <1>7. RefsAlive'
    <2>1. \A t \in Threads : \A x \in held[t] : life'[x] = "alive"
      BY <1>1, <1>2, <1>3, <1>4, <1>5 DEF RefsAlive, Pinned, TypeOK
    <2>2. \A x \in selfRef \cup destroyed' : life'[x] = "alive"
      BY <1>1, <1>2, <1>3, <1>4, <1>5 DEF RefsAlive, Pinned, Referenced, TypeOK
    <2>3. \A m \in inbox : m.on \in Handlers => life'[m.on] = "alive"
      BY <1>1, <1>2, <1>3, <1>4, <1>5 DEF RefsAlive, Pinned, Referenced
    <2>4. \A c \in Handlers : parent[c] \in Handlers => life'[parent[c]] = "alive"
      BY <1>1, <1>2, <1>3, <1>4, <1>5 DEF RefsAlive, ParentOutlives, Pinned, Referenced
    <2> QED BY <2>1, <2>2, <2>3, <2>4 DEF GcDrop, threads, RefsAlive, ParentOutlives
  <1>8. CreatedInTree'
    BY <1>1, <1>2, <1>3, <1>4, <1>5 DEF GcDrop, looper, CreatedInTree, TypeOK
  <1>9. ThreadsFit'
    BY <1>1, <1>2, <1>3, <1>4, <1>5 DEF GcDrop, threads, ThreadsFit, InDtor
  <1>10. GcFits'
    BY <1>1, <1>2, <1>3, <1>4, <1>5 DEF GcDrop, GcFits, TypeOK
  <1>11. NoOrphan'
    BY <1>1, <1>2, <1>3, <1>4, <1>5 DEF GcDrop, NoOrphan
  <1>12. DestroyedIsWatched'
    BY <1>1, <1>2, <1>3, <1>4, <1>5 DEF GcDrop, DestroyedIsWatched
  <1>13. IdsFit'
    BY <1>1, <1>2, <1>3, <1>4, <1>5 DEF GcDrop, timers, IdsFit
  <1>14. NoTimerOfDead'
    BY <1>1, <1>2, <1>3, <1>4, <1>5 DEF GcDrop, timers, NoTimerOfDead
  <1> QED BY <1>6, <1>7, <1>8, <1>9, <1>10, <1>11, <1>12, <1>13, <1>14, Untouched DEF GcDrop, tree, threads, timers, looper

\* gc puts the handler back, or removes its timers and lets go of its data.
LEMMA GcRelockKeeps ==
  ASSUME Inv, GcRelock
  PROVE  Inv'
  <1> USE TreeAssumption DEF Inv, Nodes
  <1> DEFINE h == gc.cur
  <1>1. /\ gc.step = "relock" /\ gc'.step = "pick" /\ gc'.cur = None /\ gc'.todo = gc.todo
        /\ gc' \in [step : {"off", "pick", "drop", "relock"}, todo : SUBSET Handlers, cur : Handlers \cup {None}]
    BY DEF GcRelock, TypeOK
  <1>2. h \in Handlers /\ flags[h].mark /\ flags[h].created
    BY <1>1 DEF GcFits, FlagsFit
  <1>3. /\ destroyed' = IF life[h] = "alive" THEN destroyed \cup {h} ELSE destroyed
        /\ life' = life /\ flags' = flags
    BY DEF GcRelock
  <1>4. /\ parent' \in [Handlers -> Nodes \cup {None}]
        /\ ids' \in [Handlers -> [next : Ids, rewind : BOOLEAN]]
        /\ \A x \in Handlers : parent'[x] = IF x = h /\ life[h] = "gone" THEN None ELSE parent[x]
        /\ \A x \in Handlers : x # h \/ life[h] # "gone" => ids'[x] = ids[x]
    <2>1. FirstIds \in [next : Ids, rewind : BOOLEAN]
      BY ZeroRemovable DEF FirstIds
    <2>2. CASE life[h] = "gone"
      <3>1. parent' = [parent EXCEPT ![h] = None] /\ ids' = [ids EXCEPT ![h] = FirstIds]
        BY <2>2 DEF GcRelock
      <3> HIDE DEF h
      <3> QED BY <1>2, <2>1, <2>2, <3>1 DEF TypeOK
    <2>3. CASE life[h] # "gone"
      <3>1. parent' = parent /\ ids' = ids
        BY <2>3 DEF GcRelock
      <3> QED BY <2>3, <3>1 DEF TypeOK
    <2> QED BY <2>2, <2>3
  <1>5. /\ nodes' \in [Handlers -> [Ids -> Nat]]
        /\ \A x \in Handlers : x # h \/ life[h] = "alive" => nodes'[x] = nodes[x]
        /\ life[h] # "alive" => \A i \in Ids : nodes'[h][i] = IF Removable(i) THEN 0 ELSE nodes[h][i]
    <2>1. RemoveAllTimer(nodes[h]) \in [Ids -> Nat]
      BY <1>2 DEF RemoveAllTimer, TypeOK
    <2>2. \A i \in Ids : RemoveAllTimer(nodes[h])[i] = IF Removable(i) THEN 0 ELSE nodes[h][i]
      BY DEF RemoveAllTimer
    <2>3. nodes' = IF life[h] = "alive" THEN nodes ELSE [nodes EXCEPT ![h] = RemoveAllTimer(nodes[h])]
      BY DEF GcRelock
    <2> HIDE DEF h
    <2> QED BY <1>2, <2>1, <2>2, <2>3 DEF TypeOK
  <1> HIDE DEF h
  <1>6. TypeOK'
    BY <1>1, <1>2, <1>3, <1>4, <1>5 DEF GcRelock, threads, looper, TypeOK
  <1>7. RefsAlive'
    BY <1>1, <1>2, <1>3, <1>4, <1>5 DEF GcRelock, threads, RefsAlive, ParentOutlives, TypeOK
  <1>8. CreatedInTree'
    BY <1>1, <1>2, <1>3, <1>4, <1>5 DEF GcRelock, looper, CreatedInTree
  <1>9. Rooted'
    BY <1>1, <1>2, <1>3, <1>4, <1>5 DEF GcRelock, Rooted
  <1>10. GcFits'
    BY <1>1, <1>2, <1>3, <1>4, <1>5 DEF GcRelock, GcFits, TypeOK
  <1>11. NoOrphan'
    BY <1>1, <1>2, <1>3, <1>4, <1>5 DEF GcRelock, NoOrphan
  <1>12. DestroyedIsWatched'
    BY <1>1, <1>2, <1>3, <1>4, <1>5 DEF GcRelock, DestroyedIsWatched, TypeOK
  <1>13. IdsFit'
    BY <1>1, <1>2, <1>3, <1>4, <1>5 DEF GcRelock, IdsFit, FlagsFit
  <1>14. TimerIdsUnique'
    <2>1. ASSUME NEW x \in Handlers, NEW i \in Ids PROVE nodes'[x][i] <= 1
      <3>1. nodes[x][i] <= 1
        BY DEF TimerIdsUnique
      <3>2. nodes'[x][i] = nodes[x][i] \/ nodes'[x][i] = 0
        BY <1>5
      <3> QED BY <3>1, <3>2
    <2>2. \A x \in Handlers : ~ids'[x].rewind => nodes'[x][0] = 0
      BY <1>1, <1>2, <1>3, <1>4, <1>5, ZeroRemovable DEF TimerIdsUnique
    <2> QED BY <2>1, <2>2 DEF TimerIdsUnique
  <1>15. NoTimerOfDead'
    <2>1. ASSUME NEW x \in Handlers, life[x] \in {"dtor", "gone"}, NEW i \in Ids, Removable(i)
          PROVE  nodes'[x][i] = 0
      <3>1. CASE x = h
        BY <1>5, <2>1, <3>1
      <3>2. CASE x # h
        BY <1>5, <2>1, <3>2 DEF NoTimerOfDead, h
      <3> QED BY <3>1, <3>2
    <2> QED BY <1>3, <2>1 DEF NoTimerOfDead
  <1> QED BY <1>6, <1>7, <1>8, <1>9, <1>10, <1>11, <1>12, <1>13, <1>14, <1>15, Untouched DEF GcRelock, tree, threads, timers, looper

\* A thread gives up a shared_ptr; the handler's destructor begins if that was the last one.
LEMMA DropKeeps ==
  ASSUME Inv, NEW t \in Threads, NEW h \in Handlers, Drop(t, h)
  PROVE  Inv'
  <1> USE TreeAssumption DEF Inv, Nodes
  <1>1. pc[t] = "run" /\ h \in held[t] /\ life[h] = "alive" /\ arg[t].h = None
    BY DEF Drop, At, RefsAlive, ThreadsFit
  <1>2. /\ held' \in [Threads -> SUBSET Handlers]
        /\ \A u \in Threads : held'[u] = IF u = t THEN held[u] \ {h} ELSE held[u]
    BY DEF Drop, TypeOK
  <1>3. /\ life' \in [Handlers -> {"new", "alive", "dtor", "gone"}]
        /\ pc' \in [Threads -> {"run", "store", "wait", "dtor", "unref"}]
        /\ arg' \in [Threads -> [h : Handlers \cup {None}, old : Flags]]
        /\ \A x \in Handlers : x # h => life'[x] = life[x]
        /\ \A u \in Threads : u # t => pc'[u] = pc[u] /\ arg'[u] = arg[u]
    <2>1. CASE UNCHANGED <<life, pc, arg>>
      BY <2>1 DEF TypeOK
    <2>2. CASE /\ life' = [life EXCEPT ![h] = "dtor"] /\ pc' = [pc EXCEPT ![t] = "dtor"]
               /\ arg' = [arg EXCEPT ![t].h = h]
      <3>1. \A a \in [h : Handlers \cup {None}, old : Flags], x \in Handlers :
              [a EXCEPT !.h = x] \in [h : Handlers \cup {None}, old : Flags]
        OBVIOUS
      <3>2. [arg[t] EXCEPT !.h = h] \in [h : Handlers \cup {None}, old : Flags]
        BY <3>1 DEF TypeOK
      <3> QED BY <2>2, <3>2 DEF TypeOK
    <2> QED BY <2>1, <2>2 DEF Drop, Goto
  <1>4. \/ life'[h] = "alive" /\ pc'[t] = "run" /\ arg'[t].h = None
        \/ /\ life'[h] = "dtor" /\ pc'[t] = "dtor" /\ arg'[t].h = h
           /\ ~Referenced(h) /\ h \notin destroyed /\ \A u \in Threads \ {t} : h \notin held[u]
    BY <1>1 DEF Drop, Goto, TypeOK
  <1>5. TypeOK'
    BY <1>1, <1>2, <1>3, <1>4 DEF Drop, timers, looper, TypeOK
  <1>6. RefsAlive'
    <2>1. ASSUME NEW u \in Threads, NEW x \in held'[u] PROVE life'[x] = "alive"
      <3>0. x \in held[u]
        BY <1>2, <2>1
      <3>1. x \in held[u] /\ x \in Handlers /\ life[x] = "alive"
        BY <3>0 DEF RefsAlive, TypeOK
      <3>2. x = h => life'[h] = "alive"
        BY <1>2, <1>4, <2>1, <3>1
      <3> QED BY <1>3, <3>1, <3>2
    <2>2. \A x \in selfRef \cup destroyed : life'[x] = "alive"
      BY <1>1, <1>2, <1>3, <1>4 DEF RefsAlive, Referenced, TypeOK
    <2>3. \A m \in inbox : m.on \in Handlers => life'[m.on] = "alive"
      BY <1>1, <1>2, <1>3, <1>4 DEF RefsAlive, Referenced
    <2>4. \A c \in Handlers : parent[c] \in Handlers => life'[parent[c]] = "alive"
      BY <1>1, <1>2, <1>3, <1>4 DEF RefsAlive, ParentOutlives, Referenced
    <2> QED BY <2>1, <2>2, <2>3, <2>4 DEF Drop, RefsAlive, ParentOutlives
  <1>7. CreatedInTree'
    BY <1>1, <1>2, <1>3, <1>4 DEF Drop, looper, CreatedInTree
  <1>8. MessagesFit'
    <2>1. \A m \in inbox : m.by \in Threads => m.by # t
      BY <1>1, <1>2, <1>3, <1>4 DEF MessagesFit
    <2>2. \A m \in inbox : m.kind = "addChild" => m.by \in Threads
      BY MessageFields DEF TypeOK
    <2>3. inbox' = inbox
      BY DEF Drop
    <2> QED BY <1>1, <1>2, <1>3, <1>4, <2>1, <2>2, <2>3 DEF MessagesFit
  <1>9. ThreadsFit'
    <2>1. \A u \in Threads : pc'[u] = "run" => arg'[u].h = None
      BY <1>1, <1>2, <1>3, <1>4 DEF ThreadsFit
    <2>2. \A u \in Threads : pc'[u] = "store" => arg'[u].h \in held'[u] /\ flags[arg'[u].h].created
      BY <1>1, <1>2, <1>3, <1>4 DEF ThreadsFit
    <2>3. \A u \in Threads : InDtor(u)' => arg'[u].h \in Handlers /\ life'[arg'[u].h] = "dtor"
      BY <1>1, <1>2, <1>3, <1>4 DEF ThreadsFit, InDtor
    <2>4. \A u \in Threads : u # t /\ InDtor(u)' => InDtor(u) /\ arg'[u].h # h
      BY <1>1, <1>2, <1>3, <1>4 DEF ThreadsFit, InDtor
    <2>5. InDtor(t)' => arg'[t].h = h
      BY <1>1, <1>2, <1>3, <1>4 DEF ThreadsFit, InDtor
    <2>6. \A u, v \in Threads : InDtor(u)' /\ InDtor(v)' /\ arg'[u].h = arg'[v].h => u = v
      BY <1>3, <2>4, <2>5 DEF ThreadsFit
    <2> QED BY <2>1, <2>2, <2>3, <2>6 DEF Drop, ThreadsFit
  <1>10. GcFits'
    BY <1>1, <1>2, <1>3, <1>4 DEF Drop, GcFits, RefsAlive
  <1>11. NoOrphan'
    BY <1>1, <1>2, <1>3, <1>4 DEF Drop, NoOrphan
  <1>12. DestroyedIsWatched'
    BY <1>1, <1>2, <1>3, <1>4 DEF Drop, DestroyedIsWatched
  <1>13. IdsFit'
    BY <1>1, <1>2, <1>3, <1>4 DEF Drop, timers, IdsFit
  <1>14. NoTimerOfDead'
    <2>1. life'[h] = "dtor" /\ gc.cur # h => ~flags[h].created
      BY <1>1, <1>2, <1>3, <1>4 DEF CreatedInTree, DestroyedIsWatched, Referenced
    <2>2. ~flags[h].created => \A i \in Ids : nodes[h][i] = 0
      BY DEF IdsFit, NoTimers
    <2> QED BY <1>1, <1>2, <1>3, <1>4, <2>1, <2>2 DEF Drop, timers, NoTimerOfDead
  <1> QED BY <1>5, <1>6, <1>7, <1>8, <1>9, <1>10, <1>11, <1>12, <1>13, <1>14, Untouched DEF Drop, tree, threads, timers, looper

\* A destructor tells the parent.
LEMMA DtorSendKeeps ==
  ASSUME Inv, NEW t \in Threads, DtorSend(t)
  PROVE  Inv'
  <1> USE TreeAssumption DEF Inv, Nodes
  <1> DEFINE h == arg[t].h
  <1>1. pc[t] = "dtor" /\ h \in Handlers /\ life[h] = "dtor"
    BY DEF DtorSend, At, ThreadsFit, InDtor
  <1>2. /\ pc' \in [Threads -> {"run", "store", "wait", "dtor", "unref"}]
        /\ pc'[t] \in {"wait", "unref"} /\ \A u \in Threads : u # t => pc'[u] = pc[u]
    <2>1. \E l \in {"wait", "unref"} : pc' = [pc EXCEPT ![t] = l]
      BY DEF DtorSend, Goto
    <2> QED BY <2>1 DEF TypeOK
  <1>3. \/ inbox' = inbox
        \/ /\ parent[h] \in Nodes /\ parent[h] # None /\ pc'[t] = "wait"
           /\ \E x \in Message : /\ inbox' = inbox \cup {x}
                                 /\ x.kind = "childDtor" /\ x.on = parent[h] /\ x.child = h /\ x.by = t
    <2>1. CASE parent[h] # None /\ running
      <3>1. parent[h] \in Nodes
        BY <1>1, <2>1 DEF TypeOK
      <3>2. Msg("childDtor", parent[h], h, t) \in Message
        BY <1>1, <3>1, MsgType
      <3>3. inbox' = inbox \cup {Msg("childDtor", parent[h], h, t)} /\ pc' = [pc EXCEPT ![t] = "wait"]
        BY <2>1 DEF DtorSend, Goto
      <3>4. pc'[t] = "wait"
        BY <3>3 DEF TypeOK
      <3> HIDE DEF h
      <3> QED BY <2>1, <3>1, <3>2, <3>3, <3>4, MsgFields
    <2>2. CASE ~(parent[h] # None /\ running)
      BY <2>2 DEF DtorSend
    <2> QED BY <2>1, <2>2
  <1>4. arg' = arg /\ held' = held
    BY DEF DtorSend
  <1>5. TypeOK'
    BY <1>1, <1>2, <1>3, <1>4 DEF DtorSend, tree, timers, looper, TypeOK
  <1>6. RefsAlive'
    BY <1>1, <1>2, <1>3, <1>4 DEF DtorSend, tree, RefsAlive, ParentOutlives
  <1>7. CreatedInTree'
    BY <1>1, <1>2, <1>3, <1>4 DEF DtorSend, tree, looper, CreatedInTree
  <1>8. MessagesFit'
    BY <1>1, <1>2, <1>3, <1>4 DEF DtorSend, MessagesFit
  <1>9. ThreadsFit'
    BY <1>1, <1>2, <1>3, <1>4 DEF DtorSend, tree, ThreadsFit, InDtor
  <1> QED BY <1>5, <1>6, <1>7, <1>8, <1>9, Untouched DEF DtorSend, tree, threads, timers, looper

\* The data of a handler is destructed with it, unless gc has a reference; no timer is removed.
LEMMA UnrefKeeps ==
  ASSUME Inv, NEW t \in Threads, Unref(t)
  PROVE  Inv'
  <1> USE TreeAssumption DEF Inv, Nodes
  <1> DEFINE h == arg[t].h
  <1>1. pc[t] = "unref" /\ InDtor(t) /\ h \in Handlers /\ life[h] = "dtor"
    BY DEF Unref, At, ThreadsFit, InDtor
  <1>2. /\ life' \in [Handlers -> {"new", "alive", "dtor", "gone"}] /\ life'[h] = "gone"
        /\ \A x \in Handlers : x # h => life'[x] = life[x]
    BY <1>1 DEF Unref, TypeOK
  <1>3. /\ pc' \in [Threads -> {"run", "store", "wait", "dtor", "unref"}]
        /\ arg' \in [Threads -> [h : Handlers \cup {None}, old : Flags]]
        /\ pc'[t] = "run" /\ arg'[t].h = None
        /\ \A u \in Threads : u # t => pc'[u] = pc[u] /\ arg'[u] = arg[u]
    BY DEF Unref, Goto, TypeOK, NoArg, Flags
  <1>4. /\ parent' \in [Handlers -> Nodes \cup {None}]
        /\ ids' \in [Handlers -> [next : Ids, rewind : BOOLEAN]]
        /\ \A x \in Handlers : parent'[x] = parent[x] \/ (x = h /\ parent'[x] = None)
        /\ \A x \in Handlers : ids'[x] = ids[x] \/ (x = h /\ gc.cur # h)
    <2>1. FirstIds \in [next : Ids, rewind : BOOLEAN]
      BY ZeroRemovable DEF FirstIds
    <2>2. CASE gc.cur # h
      <3>1. parent' = [parent EXCEPT ![h] = None] /\ ids' = [ids EXCEPT ![h] = FirstIds]
        BY <2>2 DEF Unref
      <3> HIDE DEF h
      <3> QED BY <1>1, <2>1, <2>2, <3>1 DEF TypeOK
    <2>3. CASE gc.cur = h
      <3>1. parent' = parent /\ ids' = ids
        BY <2>3 DEF Unref, timers
      <3> QED BY <3>1 DEF TypeOK
    <2> QED BY <2>2, <2>3
  <1>5. nodes' = nodes
    <2>1. CASE gc.cur # h
      <3>1. RemoveAllTimer(nodes[h]) = nodes[h]
        <4>1. \A i \in Ids : Removable(i) => nodes[h][i] = 0
          BY <1>1, <2>1 DEF NoTimerOfDead
        <4>2. nodes[h] = [i \in Ids |-> nodes[h][i]]
          BY <1>1 DEF TypeOK
        <4> HIDE DEF h
        <4> QED BY <4>1, <4>2 DEF RemoveAllTimer
      <3>2. nodes' = [nodes EXCEPT ![h] = RemoveAllTimer(nodes[h])]
        BY <2>1 DEF Unref
      <3> HIDE DEF h
      <3> QED BY <1>1, <3>1, <3>2 DEF TypeOK
    <2>2. CASE gc.cur = h
      BY <2>2 DEF Unref, timers
    <2> QED BY <2>1, <2>2
  <1> HIDE DEF h
  <1>6. TypeOK'
    BY <1>1, <1>2, <1>3, <1>4, <1>5 DEF Unref, looper, timers, TypeOK
  <1>7. RefsAlive'
    <2>1. UNCHANGED <<selfRef, destroyed, held, inbox>>
      BY DEF Unref
    <2>2. \A x \in Handlers : life[x] = "alive" => life'[x] = "alive"
      BY <1>1, <1>2
    <2>3. /\ selfRef \cup destroyed \subseteq Handlers
          /\ \A u \in Threads : held[u] \subseteq Handlers
      BY DEF TypeOK
    <2>4. ParentOutlives'
      BY <1>4, <2>2 DEF RefsAlive, ParentOutlives
    <2> QED BY <2>1, <2>2, <2>3, <2>4 DEF RefsAlive
  <1>8. CreatedInTree'
    BY <1>1, <1>2, <1>3, <1>4, <1>5 DEF Unref, looper, CreatedInTree
  <1>9. Rooted'
    BY <1>1, <1>2, <1>3, <1>4, <1>5 DEF Unref, Rooted
  <1>10. MessagesFit'
    BY <1>1, <1>2, <1>3, <1>4, <1>5 DEF Unref, MessagesFit
  <1>11. ThreadsFit'
    <2>1. \A u \in Threads : u # t /\ InDtor(u)' => InDtor(u) /\ arg[u].h # h
      BY <1>1, <1>2, <1>3, <1>4, <1>5 DEF ThreadsFit, InDtor, h
    <2>2. ~InDtor(t)'
      BY <1>1, <1>2, <1>3, <1>4, <1>5 DEF InDtor
    <2>3. \A u \in Threads : pc'[u] = "store" => u # t
      BY <1>1, <1>2, <1>3, <1>4, <1>5
    <2>4. held' = held /\ flags' = flags
      BY DEF Unref
    <2>5. \A u \in Threads : InDtor(u)' => u # t /\ InDtor(u) /\ arg[u].h # h /\ arg'[u] = arg[u]
      BY <1>1, <1>2, <1>3, <1>4, <1>5, <2>1, <2>2
    <2>6. \A u \in Threads : InDtor(u)' => arg'[u].h \in Handlers /\ life'[arg'[u].h] = "dtor"
      BY <1>1, <1>2, <1>3, <1>4, <1>5, <2>5 DEF ThreadsFit
    <2>7. \A u, v \in Threads : InDtor(u)' /\ InDtor(v)' /\ arg'[u].h = arg'[v].h => u = v
      BY <2>5 DEF ThreadsFit
    <2>8. \A u \in Threads : pc'[u] = "run" => arg'[u].h = None
      BY <1>1, <1>2, <1>3, <1>4, <1>5 DEF ThreadsFit
    <2>9. \A u \in Threads : pc'[u] = "store" => arg'[u].h \in held'[u] /\ flags'[arg'[u].h].created
      BY <1>1, <1>2, <1>3, <1>4, <1>5, <2>3, <2>4 DEF ThreadsFit
    <2> QED BY <2>6, <2>7, <2>8, <2>9 DEF ThreadsFit
  <1>12. GcFits'
    BY <1>1, <1>2, <1>3, <1>4, <1>5 DEF Unref, GcFits
  <1>13. NoOrphan'
    BY <1>1, <1>2, <1>3, <1>4, <1>5 DEF Unref, NoOrphan
  <1>14. DestroyedIsWatched'
    BY <1>1, <1>2, <1>3, <1>4, <1>5 DEF Unref, DestroyedIsWatched
  <1>15. IdsFit'
    BY <1>1, <1>2, <1>3, <1>4, <1>5 DEF Unref, IdsFit
  <1>16. TimerIdsUnique'
    <2>1. \A x \in Handlers : ~ids'[x].rewind => nodes[x][0] = 0
      BY <1>1, <1>2, <1>3, <1>4, <1>5, ZeroRemovable DEF TimerIdsUnique, NoTimerOfDead
    <2> QED BY <1>1, <1>2, <1>3, <1>4, <1>5, <2>1 DEF TimerIdsUnique
  <1>17. NoTimerOfDead'
    BY <1>1, <1>2, <1>3, <1>4, <1>5 DEF Unref, NoTimerOfDead
  <1>18. TimersStayHome'
    BY <1>1, <1>2, <1>3, <1>4, <1>5 DEF Unref, timers, TimersStayHome
  <1> QED BY <1>6, <1>7, <1>8, <1>9, <1>10, <1>11, <1>12, <1>13, <1>14, <1>15, <1>16, <1>17, <1>18, Untouched DEF Unref, tree, threads, timers, looper

\* A timer is killed.
LEMMA KillTimerKeeps ==
  ASSUME Inv, NEW h \in Handlers, NEW i \in Ids, KillTimer(h, i)
  PROVE  Inv'
  <1> USE TreeAssumption DEF Inv, Nodes
  <1>1. life[h] = "alive" /\ flags[h].created /\ nodes[h][i] \in Nat \ {0}
    BY DEF KillTimer, TypeOK
  <1>2. /\ nodes' \in [Handlers -> [Ids -> Nat]]
        /\ \A x \in Handlers : x # h => nodes'[x] = nodes[x]
        /\ \A j \in Ids : nodes'[h][j] = IF j = i THEN nodes[h][j] - 1 ELSE nodes[h][j]
    <2>1. nodes[h] \in [Ids -> Nat] /\ [nodes[h] EXCEPT ![i] = @ - 1] \in [Ids -> Nat]
      BY <1>1 DEF TypeOK
    <2>2. nodes' = [nodes EXCEPT ![h] = [nodes[h] EXCEPT ![i] = @ - 1]]
      BY DEF KillTimer
    <2> QED BY <2>1, <2>2 DEF TypeOK
  <1>3. \A x \in Handlers : \A j \in Ids : nodes[x][j] \in Nat
    BY DEF TypeOK
  <1>4. TypeOK'
    BY <1>1, <1>2, <1>3 DEF KillTimer, tree, threads, timers, looper, TypeOK
  <1>5. IdsFit'
    <2>1. \A x \in Handlers : \A j \in Ids : nodes'[x][j] # 0 => nodes[x][j] # 0
      BY <1>1, <1>2, <1>3
    <2>2. \A x \in Handlers : ~flags[x].created => nodes'[x] = nodes[x]
      BY <1>1, <1>2, <1>3
    <2> QED BY <1>1, <1>2, <1>3, <2>1, <2>2 DEF KillTimer, tree, IdsFit
  <1>6. TimerIdsUnique'
    BY <1>1, <1>2, <1>3 DEF KillTimer, TimerIdsUnique, TypeOK
  <1>7. NoTimerOfDead'
    BY <1>1, <1>2, <1>3 DEF KillTimer, tree, NoTimerOfDead
  <1> QED BY <1>4, <1>5, <1>6, <1>7, Untouched DEF KillTimer, tree, threads, timers, looper

\* A timer is set, with an id that no other timer of the handler has.
LEMMA SetTimerKeeps ==
  ASSUME Inv, NEW h \in Handlers, SetTimer(h)
  PROVE  Inv'
  <1> USE TreeAssumption DEF Inv, Nodes
  <1> DEFINE id == NextTimerId(nodes[h], ids[h])
  <1>1. life[h] = "alive" /\ flags[h].created /\ nodes[h] \in [Ids -> Nat] /\ ids[h] \in TimerIds
    BY DEF SetTimer, TypeOK, TimerIds
  <1>2. /\ id \in TimerIds /\ nodes[h][id.next] = 0
        /\ ~id.rewind => \A j \in Ids : nodes[h][j] # 0 \/ j = id.next => j \in UpTo(id.next)
    <2>1. \E f \in Ids : nodes[h][f] = 0
      BY <1>1, IdLeft DEF SetTimer
    <2>2. ~ids[h].rewind => \A j \in Ids : nodes[h][j] # 0 => j \in UpTo(ids[h].next)
      BY <1>1 DEF IdsFit
    <2> QED BY <1>1, <2>1, <2>2, NextTimerIdIsFree
  <1>3. ids' = [ids EXCEPT ![h] = id] /\ nodes' = [nodes EXCEPT ![h][ids'[h].next] = @ + 1]
    BY DEF SetTimer
  <1> HIDE DEF id
  <1>4. /\ ids' \in [Handlers -> TimerIds] /\ ids'[h] = id
        /\ \A x \in Handlers : x # h => ids'[x] = ids[x]
    BY <1>2, <1>3 DEF TypeOK, TimerIds
  <1>5. /\ nodes' \in [Handlers -> [Ids -> Nat]]
        /\ \A x \in Handlers : x # h => nodes'[x] = nodes[x]
        /\ \A j \in Ids : nodes'[h][j] = IF j = id.next THEN 1 ELSE nodes[h][j]
    <2>1. id.next \in Ids
      BY <1>2 DEF TimerIds
    <2>2. /\ [nodes[h] EXCEPT ![id.next] = @ + 1] \in [Ids -> Nat]
          /\ \A j \in Ids : [nodes[h] EXCEPT ![id.next] = @ + 1][j] = IF j = id.next THEN 1 ELSE nodes[h][j]
      BY <1>1, <1>2, <2>1
    <2>3. nodes' = [nodes EXCEPT ![h] = [nodes[h] EXCEPT ![id.next] = @ + 1]]
      BY <1>3, <1>4
    <2> QED BY <2>2, <2>3 DEF TypeOK
  <1>6. TypeOK'
    BY <1>1, <1>2, <1>3, <1>4, <1>5 DEF SetTimer, tree, threads, timers, looper, TypeOK, TimerIds
  <1>7. IdsFit'
    <2>1. \A x \in Handlers : ~flags[x].created => nodes'[x] = NoTimers
      BY <1>1, <1>2, <1>4, <1>5 DEF IdsFit
    <2>2. ~ids'[h].rewind => \A j \in Ids : nodes'[h][j] # 0 => j \in UpTo(ids'[h].next)
      BY <1>1, <1>2, <1>4, <1>5
    <2>3. \A x \in Handlers : life[x] = "alive" /\ ~ids'[x].rewind =>
            \A j \in Ids : nodes'[x][j] # 0 => j \in UpTo(ids'[x].next)
      BY <1>1, <1>2, <1>4, <1>5, <2>2 DEF IdsFit
    <2> QED BY <2>1, <2>3 DEF SetTimer, tree, IdsFit
  <1>8. TimerIdsUnique'
    <2>1. ASSUME NEW x \in Handlers, NEW j \in Ids PROVE nodes'[x][j] <= 1
      <3>1. nodes[x][j] <= 1
        BY DEF TimerIdsUnique
      <3>2. nodes'[x][j] = nodes[x][j] \/ nodes'[x][j] = 1
        BY <1>1, <1>2, <1>4, <1>5
      <3> QED BY <3>1, <3>2
    <2>2. ASSUME NEW x \in Handlers, ~ids'[x].rewind PROVE nodes'[x][0] = 0
      <3>1. CASE x # h
        BY <1>1, <1>2, <1>4, <1>5, <2>2, <3>1 DEF TimerIdsUnique
      <3>2. CASE x = h
        <4>1. 0 \notin UpTo(ids'[h].next)
          BY <1>1, <1>2, <1>4, <1>5, TreeAssumption DEF UpTo, TimerIds, Ids
        <4>2. \A j \in Ids : nodes'[h][j] # 0 => j \in UpTo(ids'[h].next)
          BY <1>1, <1>2, <1>4, <1>5, <2>2, <3>2
        <4> QED BY <4>1, <4>2, <3>2, ZeroRemovable
      <3> QED BY <3>1, <3>2
    <2> QED BY <2>1, <2>2 DEF TimerIdsUnique
  <1>9. NoTimerOfDead'
    BY <1>1, <1>2, <1>3, <1>4, <1>5 DEF SetTimer, tree, NoTimerOfDead
  <1> QED BY <1>6, <1>7, <1>8, <1>9, Untouched DEF SetTimer, tree, threads, timers, looper

\* The steps that create and destroy handlers.
LEMMA TreeStepTypes ==
  ASSUME Inv, TreeStep
  PROVE  TypeOK'
  <1> USE TreeAssumption DEF Nodes
  <1>1. TypeOK /\ inbox \in SUBSET inbox
    BY DEF Inv
  <1>2. ASSUME NEW h \in Handlers, HomeDestroy(h) PROVE TypeOK'
    <2>1. DestroySet(h) \in SUBSET Nodes
      BY <1>1, <1>2, DestroySetReach DEF HomeDestroy
    <2>2. Destroyed(DestroySet(h), inbox)
      BY <1>1, <1>2, <2>1, OnDestroyEffect DEF HomeDestroy
    <2> QED BY <1>1, <1>2, <2>2 DEF Destroyed, HomeDestroy, TypeOK, looper, threads, timers
  <1>3. ASSUME NEW h \in Handlers, NEW p \in Nodes, HomeAddChild(p, h) PROVE TypeOK'
    <2>1. Adopted(p, h, inbox)
      BY <1>1, <1>3, AdoptEffect DEF HomeAddChild
    <2>2. life' \in [Handlers -> {"new", "alive", "dtor", "gone"}]
      BY <1>1, <1>3 DEF HomeAddChild, TypeOK
    <2> QED BY <1>1, <1>3, <2>1, <2>2 DEF Adopted, HomeAddChild, TypeOK, looper, threads, timers
  <1>4. ASSUME NEW m \in inbox, HandleDestroy(m) PROVE TypeOK'
    <2>1. m.on \in Nodes /\ (m.on \in Handlers => life[m.on] = "alive") /\ inbox \ {m} \in SUBSET inbox
      BY <1>1, MessageFields DEF Inv, RefsAlive, TypeOK
    <2>2. DestroySet(m.on) \in SUBSET Nodes
      BY <1>1, <2>1, DestroySetReach
    <2>3. Destroyed(DestroySet(m.on), inbox \ {m})
      BY <1>1, <1>4, <2>1, <2>2, OnDestroyEffect DEF HandleDestroy
    <2>4. pc' \in [Threads -> {"run", "store", "wait", "dtor", "unref"}]
      BY <1>1, <1>4, AnswerType DEF HandleDestroy
    <2> QED BY <1>1, <1>4, <2>3, <2>4 DEF Destroyed, HandleDestroy, TypeOK, looper, timers
  <1>5. ASSUME NEW m \in inbox, HandleAddChild(m) PROVE TypeOK'
    <2>1. m.on \in Nodes /\ m.child \in Handlers /\ inbox \ {m} \in SUBSET inbox
      BY <1>1, <1>5, MessageFields DEF HandleAddChild, TypeOK
    <2>2. pc' \in [Threads -> {"run", "store", "wait", "dtor", "unref"}]
      BY <1>1, <1>5, AnswerType DEF HandleAddChild
    <2>3. CASE Adopt(m.on, m.child, inbox \ {m})
      <3>1. Adopted(m.on, m.child, inbox \ {m})
        BY <1>1, <2>1, <2>3, AdoptEffect
      <3> QED BY <1>1, <1>5, <2>2, <3>1 DEF Adopted, HandleAddChild, AddChildHelper, TypeOK, looper, timers
    <2>4. CASE /\ inbox' = inbox \ {m}
               /\ UNCHANGED <<flags, parent, children, selfRef, destroyed, destroys, gcTimer>>
      BY <1>1, <1>5, <2>2, <2>4 DEF HandleAddChild, AddChildHelper, TypeOK, looper, timers
    <2> QED BY <1>5, <2>3, <2>4 DEF HandleAddChild, AddChildHelper
  <1> QED BY <1>2, <1>3, <1>4, <1>5 DEF TreeStep

\* A message that is answered, and no other: nobody else was waiting.
LEMMA AnswerKeeps ==
  ASSUME Inv, NEW m \in inbox, m.kind # "childDtor", Answer(m), UNCHANGED <<held, arg>>,
         \A x \in inbox' : x \in inbox \ {m} \/ (x.kind = "dispose" /\ x.by = None),
         \A n \in Nodes : flags[n].created => flags'[n].created,
         \A h \in Handlers : life[h] = "dtor" => life'[h] = "dtor"
  PROVE  MessagesFit' /\ ThreadsFit'
  <1> USE TreeAssumption DEF Nodes
  <1>1. TypeOK /\ MessagesFit /\ ThreadsFit
    BY DEF Inv
  <1>2. \A t \in Threads : pc'[t] = IF t # m.by THEN pc[t] ELSE "run"
    BY <1>1, AnswerType
  <1>3. \A x \in inbox' : x.by \in Threads => x \in inbox /\ x.by # m.by
    BY <1>1 DEF MessagesFit
  <1>4. \A x \in inbox' : x.kind = "addChild" => x \in inbox /\ x.by \in Threads
    BY <1>1, MessageFields DEF TypeOK
  <1>5. m.by \in Threads => pc[m.by] = "wait" /\ arg[m.by].h = None
    BY <1>1 DEF MessagesFit
  <1>6. MessagesFit'
    BY <1>1, <1>2, <1>3, <1>4 DEF MessagesFit
  <1>7. ThreadsFit'
    <2>1. \A t \in Threads : pc'[t] = "run" => arg[t].h = None
      BY <1>1, <1>2, <1>5 DEF ThreadsFit
    <2>2. \A t \in Threads : pc'[t] = "store" => arg[t].h \in held[t] /\ flags'[arg[t].h].created
      BY <1>1, <1>2 DEF ThreadsFit, TypeOK
    <2>3. \A t \in Threads : InDtor(t)' => InDtor(t)
      BY <1>2 DEF InDtor
    <2> QED BY <1>1, <2>1, <2>2, <2>3 DEF ThreadsFit
  <1> QED BY <1>6, <1>7

\* A step of home that answers nobody.
LEMMA NoAnswerKeeps ==
  ASSUME Inv, UNCHANGED <<held, arg, pc>>,
         \A x \in inbox' : x \in inbox \/ (x.kind = "dispose" /\ x.by = None),
         \A n \in Nodes : flags[n].created => flags'[n].created,
         \A h \in Handlers : life[h] = "dtor" => life'[h] = "dtor"
  PROVE  MessagesFit' /\ ThreadsFit'
  <1> USE TreeAssumption DEF Nodes
  <1>1. TypeOK /\ MessagesFit /\ ThreadsFit
    BY DEF Inv
  <1>2. \A x \in inbox' : x.by \in Threads \/ x.kind = "addChild" => x \in inbox
    BY <1>1
  <1>3. MessagesFit'
    BY <1>1, <1>2 DEF MessagesFit
  <1>4. ThreadsFit'
    <2>1. \A t \in Threads : InDtor(t)' <=> InDtor(t)
      BY DEF InDtor
    <2>2. \A t \in Threads : pc[t] = "store" => arg[t].h \in Handlers
      BY <1>1 DEF ThreadsFit, TypeOK
    <2> QED BY <1>1, <2>1, <2>2 DEF ThreadsFit
  <1> QED BY <1>3, <1>4

\* The steps that create and destroy handlers keep the invariant.
LEMMA TreeStepInv ==
  ASSUME Inv, TreeStep
  PROVE  Inv'
  <1> USE TreeAssumption DEF Nodes
  <1>1. TypeOK /\ inbox \in SUBSET inbox
    BY DEF Inv
  <1>2. MessagesFit' /\ ThreadsFit' /\ UNCHANGED <<timers, strayed>>
    <2>1. ASSUME NEW h \in Handlers, HomeDestroy(h) PROVE MessagesFit' /\ ThreadsFit'
      <3>1. DestroySet(h) \in SUBSET Nodes
        BY <1>1, <2>1, DestroySetReach DEF HomeDestroy
      <3>2. Destroyed(DestroySet(h), inbox)
        BY <1>1, <2>1, <3>1, OnDestroyEffect DEF HomeDestroy
      <3>3. \A x \in inbox' : x \in inbox \/ (x.kind = "dispose" /\ x.by = None)
        BY <3>2, MsgFields DEF Destroyed
      <3>4. \A n \in Nodes : flags[n].created => flags'[n].created
        BY <3>2 DEF Destroyed
      <3>5. UNCHANGED <<life, held, arg, pc>>
        BY <2>1 DEF HomeDestroy, threads
      <3> QED BY <3>3, <3>4, <3>5, NoAnswerKeeps
    <2>2. ASSUME NEW h \in Handlers, NEW p \in Nodes, HomeAddChild(p, h) PROVE MessagesFit' /\ ThreadsFit'
      <3>1. Adopted(p, h, inbox)
        BY <1>1, <2>2, AdoptEffect DEF HomeAddChild
      <3>2. \A x \in inbox' : x \in inbox \/ (x.kind = "dispose" /\ x.by = None)
        BY <3>1, MsgFields DEF Adopted
      <3>3. \A n \in Nodes : flags[n].created => flags'[n].created
        BY <3>1 DEF Adopted
      <3>4. \A x \in Handlers : life[x] = "dtor" => life'[x] = "dtor"
        BY <1>1, <2>2 DEF HomeAddChild, TypeOK
      <3>5. UNCHANGED <<held, arg, pc>>
        BY <2>2 DEF HomeAddChild, threads
      <3> QED BY <3>2, <3>3, <3>4, <3>5, NoAnswerKeeps
    <2>3. ASSUME NEW m \in inbox, HandleDestroy(m) PROVE MessagesFit' /\ ThreadsFit'
      <3>1. m.on \in Nodes /\ (m.on \in Handlers => life[m.on] = "alive") /\ inbox \ {m} \in SUBSET inbox
        BY <1>1, MessageFields DEF Inv, RefsAlive, TypeOK
      <3>2. DestroySet(m.on) \in SUBSET Nodes
        BY <1>1, <3>1, DestroySetReach
      <3>3. Destroyed(DestroySet(m.on), inbox \ {m})
        BY <1>1, <2>3, <3>1, <3>2, OnDestroyEffect DEF HandleDestroy
      <3>4. \A x \in inbox' : x \in inbox \ {m} \/ (x.kind = "dispose" /\ x.by = None)
        BY <3>3, MsgFields DEF Destroyed
      <3>5. \A n \in Nodes : flags[n].created => flags'[n].created
        BY <3>3 DEF Destroyed
      <3>6. m.kind = "destroy" /\ Answer(m) /\ UNCHANGED <<life, held, arg>>
        BY <2>3 DEF HandleDestroy
      <3> QED BY <3>4, <3>5, <3>6, AnswerKeeps
    <2>4. ASSUME NEW m \in inbox, HandleAddChild(m) PROVE MessagesFit' /\ ThreadsFit'
      <3>1. m.on \in Nodes /\ m.child \in Handlers /\ inbox \ {m} \in SUBSET inbox
        BY <1>1, <2>4, MessageFields DEF HandleAddChild, TypeOK
      <3>2. m.kind = "addChild" /\ Answer(m) /\ UNCHANGED <<life, held, arg>>
        BY <2>4 DEF HandleAddChild, AddChildHelper
      <3>3. CASE Adopt(m.on, m.child, inbox \ {m})
        <4>1. Adopted(m.on, m.child, inbox \ {m})
          BY <1>1, <3>1, <3>3, AdoptEffect
        <4>2. \A x \in inbox' : x \in inbox \ {m} \/ (x.kind = "dispose" /\ x.by = None)
          BY <4>1, MsgFields DEF Adopted
        <4>3. \A n \in Nodes : flags[n].created => flags'[n].created
          BY <4>1 DEF Adopted
        <4> QED BY <3>2, <4>2, <4>3, AnswerKeeps
      <3>4. CASE inbox' = inbox \ {m} /\ UNCHANGED flags
        BY <3>2, <3>4, AnswerKeeps
      <3> QED BY <2>4, <3>3, <3>4 DEF HandleAddChild, AddChildHelper
    <2>5. UNCHANGED <<timers, strayed>>
      BY DEF TreeStep, HomeDestroy, HomeAddChild, HandleDestroy, HandleAddChild
    <2> QED BY <2>1, <2>2, <2>3, <2>4, <2>5 DEF TreeStep
  <1>3. TimerIdsUnique' /\ TimersStayHome'
    BY <1>2, Untouched DEF timers
  <1> QED BY <1>2, <1>3, TreeStepTypes, TreeStepKeeps DEF Inv, TreeInv

----------------------------------------------------------------------------
(* The theorems *)

\* Nothing is constructed yet.
LEMMA InvInit == Init => Inv
  <1> SUFFICES ASSUME Init PROVE Inv
    OBVIOUS
  <1> USE TreeAssumption, ZeroRemovable DEF Init, Nodes
  <1>1. TypeOK
    <2>1. flags \in [Nodes -> Flags]
      BY DEF Flags
    <2>2. nodes \in [Handlers -> [Ids -> Nat]] /\ ids \in [Handlers -> [next : Ids, rewind : BOOLEAN]]
      BY DEF FirstIds
    <2>3. /\ gc \in [step : {"off", "pick", "drop", "relock"}, todo : SUBSET Handlers, cur : Handlers \cup {None}]
          /\ arg \in [Threads -> [h : Handlers \cup {None}, old : Flags]]
      BY DEF NoGc, NoArg, Flags
    <2> QED BY <2>1, <2>2, <2>3 DEF TypeOK
  <1>2. FlagsFit
    BY DEF FlagsFit
  <1>3. RefsAlive /\ CreatedInTree
    BY DEF RefsAlive, ParentOutlives, CreatedInTree
  <1>4. Rooted
    <2>1. [n \in Nodes |-> 0] \in [Nodes -> Nat]
      OBVIOUS
    <2> QED BY <2>1 DEF Rooted
  <1>5. MessagesFit /\ ThreadsFit /\ GcFits
    BY DEF MessagesFit, ThreadsFit, InDtor, GcFits, NoGc, NoArg
  <1>6. NoOrphan /\ DestroyedIsWatched
    BY DEF NoOrphan, DestroyedIsWatched
  <1>7. IdsFit /\ TimerIdsUnique /\ NoTimerOfDead /\ TimersStayHome
    BY DEF IdsFit, NoTimers, TimerIdsUnique, NoTimerOfDead, TimersStayHome
  <1> QED BY <1>1, <1>2, <1>3, <1>4, <1>5, <1>6, <1>7 DEF Inv

\* Every step keeps the invariant.
LEMMA InvNext ==
  ASSUME Inv, TornUpdates = FALSE, [Next]_vars
  PROVE  Inv'
  <1>1. CASE TreeStep
    BY <1>1, TreeStepInv
  <1>2. CASE \E h \in Handlers : SetTimer(h) \/ \E i \in Ids : KillTimer(h, i)
    BY <1>2, SetTimerKeeps, KillTimerKeeps
  <1>3. CASE \E m \in inbox : HandleChildDtor(m) \/ HandleDispose(m) \/ HandleQuit(m)
    BY <1>3, HandleChildDtorKeeps, HandleDisposeKeeps, HandleQuitKeeps
  <1>4. CASE GcStep \/ GcTimer \/ Stop
    BY <1>4, GcPickKeeps, GcDropKeeps, GcRelockKeeps, GcEndKeeps, GcTimerKeeps, StopKeeps DEF GcStep
  <1>5. CASE \E t \in Threads : ThreadStep(t)
    BY <1>5, DtorSendKeeps, UnrefKeeps, DestroyStoreKeeps DEF ThreadStep
  <1>6. CASE \E t \in Threads : ThreadApp(t)
    BY <1>6, NewKeeps, LockKeeps, DropKeeps, DestroyTestKeeps, AddChildKeeps, QuitKeeps DEF ThreadApp
  <1>7. CASE UNCHANGED vars
    <2>1. TypeOK'
      BY <1>7 DEF vars, tree, looper, threads, timers, Inv, TypeOK
    <2> QED BY <1>7, <2>1, Untouched DEF vars, tree, looper, threads, timers, Inv
  <1> QED BY <1>1, <1>2, <1>3, <1>4, <1>5, <1>6, <1>7 DEF Next, HandleMessage, HomeApp, TreeStep

\* The invariant holds of every behaviour, as long as no update of a byte of flags undoes another.
THEOREM TreeInvariant ==
  ASSUME TornUpdates = FALSE
  PROVE  Spec => []Inv
  <1>1. Init => Inv
    BY InvInit
  <1>2. Inv /\ [Next]_vars => Inv'
    BY InvNext
  <1> QED BY <1>1, <1>2, PTL DEF Spec

\* The variables keep their types.
THEOREM Types ==
  ASSUME TornUpdates = FALSE
  PROVE  Spec => []TypeOK
  <1>1. Inv => TypeOK
    BY DEF Inv
  <1> QED BY <1>1, TreeInvariant, PTL

\* OnDestroy of a handler is called at most once, whoever destroys it and in which order: home, other
\* threads, or the parent.
THEOREM DestroysOnce ==
  ASSUME TornUpdates = FALSE
  PROVE  Spec => []OnDestroyOnce
  <1>1. Inv => OnDestroyOnce
    BY DEF Inv, FlagsFit, OnDestroyOnce
  <1> QED BY <1>1, TreeInvariant, PTL

\* No live handler misses the destruction of its parent.
THEOREM OrphansNever ==
  ASSUME TornUpdates = FALSE
  PROVE  Spec => []NoOrphan
  <1>1. Inv => NoOrphan
    BY DEF Inv
  <1> QED BY <1>1, TreeInvariant, PTL

\* gc and its timer know every destroyed handler that is not destructed yet.
THEOREM WatchesDestroyed ==
  ASSUME TornUpdates = FALSE
  PROVE  Spec => []DestroyedIsWatched
  <1>1. Inv => DestroyedIsWatched
    BY DEF Inv
  <1> QED BY <1>1, TreeInvariant, PTL

\* The parent that the data of a handler points to is alive.
THEOREM ParentsOutlive ==
  ASSUME TornUpdates = FALSE
  PROVE  Spec => []ParentOutlives
  <1>1. Inv => ParentOutlives
    BY DEF Inv, RefsAlive
  <1> QED BY <1>1, TreeInvariant, PTL

\* A handler whose destructor has begun has no timers, but for negative ids and while gc has its data.
THEOREM DeadHaveNoTimers ==
  ASSUME TornUpdates = FALSE
  PROVE  Spec => []NoTimerOfDead
  <1>1. Inv => NoTimerOfDead
    BY DEF Inv
  <1> QED BY <1>1, TreeInvariant, PTL

\* No thread but home removes a timer, although destructors run on all threads.
THEOREM OnlyHomeRemovesTimers ==
  ASSUME TornUpdates = FALSE
  PROVE  Spec => []TimersStayHome
  <1>1. Inv => TimersStayHome
    BY DEF Inv
  <1> QED BY <1>1, TreeInvariant, PTL

\* Timers of one handler have different ids, for longs of any size, and none is 0 before the ids wrap.
THEOREM IdsAreUnique ==
  ASSUME TornUpdates = FALSE
  PROVE  Spec => []TimerIdsUnique
  <1>1. Inv => TimerIdsUnique
    BY DEF Inv
  <1> QED BY <1>1, TreeInvariant, PTL

\* The looper runs as long as a thread holds a handler that was created.
THEOREM LooperOutlives ==
  ASSUME TornUpdates = FALSE
  PROVE  Spec => []HeldIsReachable
  <1>1. Inv => HeldIsReachable
    BY DEF Inv, TypeOK, RefsAlive, CreatedInTree, HeldIsReachable
  <1> QED BY <1>1, TreeInvariant, PTL
=============================================================================
