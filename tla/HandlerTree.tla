---------------------------- MODULE HandlerTree ----------------------------
(***************************************************************************)
(* The handlers of one looper (src/core/looper/handler.cpp,                *)
(* handlerinternaldata.cpp, looperinternaldata.cpp): how they are added to *)
(* their parents, destroyed, collected and destructed, and their timers.   *)
(*                                                                         *)
(* The looper's own thread is called home; it does one thing at a time:    *)
(* handle a message, run application code, or a step of gc.  Other threads *)
(* hold shared_ptrs to handlers, lock weak ones and send messages to home. *)
(* A handler is destructed by the thread that gives up the last reference, *)
(* and so is its tagHandlerInternalData, which has a reference count of    *)
(* its own.                                                                *)
(*                                                                         *)
(* The looper is Root, the top of the tree.  Messages in its list are a    *)
(* set: they may be handled in any order, which is more than the list      *)
(* allows; MessageLoop is about their order.                               *)
(***************************************************************************)
EXTENDS Integers, FiniteSets

CONSTANTS
  Handlers, Threads,
  Root,         \* the looper, as a handler
  None,
  TornUpdates,  \* whether a thread's update of a bit-field can undo home's update of
                \* another bit of the same byte, as the C++ memory model allows
  MaxLong,      \* largest long: timer ids are longs
  MaxInt,       \* largest int
  Timed,        \* bound: handlers that set timers
  MaxTimers     \* bound: timers a handler has at a time

ASSUME TreeAssumption ==
  /\ Root \notin Handlers /\ None \notin Handlers \cup {Root} \cup Threads
  /\ TornUpdates \in BOOLEAN /\ Timed \subseteq Handlers
  /\ MaxLong \in Nat \ {0} /\ MaxInt \in Nat
  /\ MaxTimers \in Nat /\ MaxTimers <= 2 * (MaxLong + 1)

Nodes == Handlers \cup {Root}

VARIABLES
  life,       \* "new" (not constructed), "alive", "dtor" (a thread is in ~Handler), "gone"
  flags,      \* mCreated, mDestroy and mDestroyMarkCalled: bits of one byte
  parent,     \* mParent: a shared_ptr, released with the handler's data
  children,   \* mChildren: weak_ptrs
  selfRef,    \* handlers with an mSelfRef
  destroyed,  \* mDestroyedHandlers
  inbox,      \* the looper's message list
  running,    \* mLooperRunning
  bmQuit,     \* mBMQuit
  held,       \* held[t]: handlers thread t has a shared_ptr to
  pc,         \* where thread t is
  arg,        \* arg[t]: the handler t works on, and its flags as t loaded them
  gc,         \* where home is in gc
  gcTimer,    \* mTimerGC is set
  nodes,      \* nodes[h][i]: timers of h with id i in the timer wheel
  ids,        \* mNextTimerId, mTimerIdRewind
  destroys,   \* destroys[h]: calls of OnDestroy of h: history
  strayed     \* handlers whose timers a thread other than home removed: history

tree == <<life, flags, parent, children, selfRef, destroyed, destroys>>
threads == <<held, pc, arg>>
timers == <<nodes, ids>>
looper == <<running, bmQuit>>
vars == <<tree, inbox, looper, threads, gc, gcTimer, timers, strayed>>

Flags == [created : BOOLEAN, destroy : BOOLEAN, mark : BOOLEAN]
Ids == (0 - MaxLong - 1)..MaxLong

\* Messages: by is the thread that waits for the answer, or None for a post.
Message == [kind : {"destroy", "dispose", "quit"}, on : Nodes, child : {None}, by : Threads \cup {None}]
           \cup [kind : {"addChild", "childDtor"}, on : Nodes, child : Handlers, by : Threads]
Msg(kind, on, child, by) == [kind |-> kind, on |-> on, child |-> child, by |-> by]

NoGc == [step |-> "off", todo |-> {}, cur |-> None]
NoArg == [h |-> None, old |-> [created |-> FALSE, destroy |-> FALSE, mark |-> FALSE]]

FirstIds == [next |-> 0, rewind |-> FALSE]

TypeOK ==
  /\ life \in [Handlers -> {"new", "alive", "dtor", "gone"}]
  /\ flags \in [Nodes -> Flags]
  /\ parent \in [Handlers -> Nodes \cup {None}]
  /\ children \in [Nodes -> SUBSET Handlers]
  /\ selfRef \subseteq Handlers /\ destroyed \subseteq Handlers
  /\ inbox \subseteq Message
  /\ running \in BOOLEAN /\ bmQuit \in BOOLEAN
  /\ held \in [Threads -> SUBSET Handlers]
  /\ pc \in [Threads -> {"run", "store", "wait", "dtor", "unref"}]
  /\ arg \in [Threads -> [h : Handlers \cup {None}, old : Flags]]
  /\ gc \in [step : {"off", "pick", "drop", "relock"}, todo : SUBSET Handlers, cur : Handlers \cup {None}]
  /\ gcTimer \in BOOLEAN
  /\ nodes \in [Handlers -> [Ids -> Nat]]
  /\ ids \in [Handlers -> [next : Ids, rewind : BOOLEAN]]
  /\ destroys \in [Handlers -> Nat]
  /\ strayed \subseteq Handlers

Init ==
  /\ life = [h \in Handlers |-> "new"]
  /\ flags = [n \in Nodes |-> [created |-> n = Root, destroy |-> FALSE, mark |-> FALSE]]
  /\ parent = [h \in Handlers |-> None]
  /\ children = [n \in Nodes |-> {}]
  /\ selfRef = {} /\ destroyed = {} /\ inbox = {}
  /\ running = TRUE /\ bmQuit = FALSE
  /\ held = [t \in Threads |-> {}]
  /\ pc = [t \in Threads |-> "run"]
  /\ arg = [t \in Threads |-> NoArg]
  /\ gc = NoGc /\ gcTimer = FALSE
  /\ nodes = [h \in Handlers |-> [i \in Ids |-> 0]]
  /\ ids = [h \in Handlers |-> FirstIds]
  /\ destroys = [h \in Handlers |-> 0]
  /\ strayed = {}

----------------------------------------------------------------------------
(* References *)

ReferencedByNoChild(h) == h \in selfRef \/ \E m \in inbox : m.on = h

\* A message, the handler itself or the data of a child holds h.
Referenced(h) ==
  \/ h \in selfRef
  \/ \E m \in inbox : m.on = h
  \/ \E c \in Handlers : parent[c] = h

\* Somebody other than mDestroyedHandlers holds h: use_count is not 1.
Pinned(h) == Referenced(h) \/ \E t \in Threads : h \in held[t]

Home == gc.step = "off"   \* home is not in the middle of gc

\* The answer to a synchronous send: its thread goes on.
Answer(m) == pc' = [t \in Threads |-> IF t # m.by THEN pc[t]
                                      ELSE IF m.kind = "childDtor" THEN "unref" ELSE "run"]

----------------------------------------------------------------------------
(* Timers *)

\* long and int arithmetic.
Wrap(i, max) == ((i + max + 1) % (2 * (max + 1))) - (max + 1)

NoTimers == [i \in Ids |-> 0]

\* The loop of NextTimerId: the first unused id from i on.
FirstFree(used, i) ==
  LET At(k) == Wrap(i + k, MaxLong)
  IN  At(CHOOSE k \in 0..(2 * MaxLong + 1) :
           /\ used[At(k)] = 0
           /\ \A j \in 0..(k - 1) : used[At(j)] # 0)

NextTimerIdUnsearched(used, n) ==
  LET id == Wrap(n.next + 1, MaxLong)
  IN  [next |-> IF id = 0 THEN 1 ELSE id, rewind |-> n.rewind]

NextTimerId(used, n) ==
  IF used = NoTimers THEN [next |-> 1, rewind |-> FALSE]
  ELSE IF n.next # 0 /\ used[n.next] = 0 THEN n
  ELSE LET id == Wrap(n.next + 1, MaxLong)
           start == IF id = 0 THEN 1 ELSE id
       IN  IF n.rewind \/ id = 0 THEN [next |-> FirstFree(used, start), rewind |-> TRUE]
           ELSE [next |-> id, rewind |-> FALSE]

\* RemoveAllTimer: timers with a negative (int) id are kept.
Removable(i) == Wrap(i, MaxInt) >= 0
RemoveAllTimer(used) == [i \in Ids |-> IF Removable(i) THEN 0 ELSE used[i]]

\* Handler::SetTimer, by code at home.  LooperImpl::SetTimerEx asks itself, not the handler,
\* whether it is a looper, so that destroyed handlers may set timers too.
SetTimer(h) ==
  /\ Home /\ running /\ life[h] = "alive" /\ flags[h].created
  /\ h \in Timed /\ Cardinality({i \in Ids : nodes[h][i] # 0}) < MaxTimers
  /\ ids' = [ids EXCEPT ![h] = NextTimerId(nodes[h], ids[h])]
  /\ nodes' = [nodes EXCEPT ![h][ids'[h].next] = @ + 1]
  /\ UNCHANGED <<tree, inbox, looper, threads, gc, gcTimer, strayed>>

KillTimerUnknown(h, i) ==
  /\ Home /\ running /\ life[h] = "alive" /\ flags[h].created
  /\ nodes' = [nodes EXCEPT ![h][i] = @ - 1]
  /\ UNCHANGED <<tree, inbox, looper, threads, gc, gcTimer, ids, strayed>>

KillTimer(h, i) ==
  /\ Home /\ running /\ life[h] = "alive" /\ flags[h].created
  /\ nodes[h][i] # 0
  /\ nodes' = [nodes EXCEPT ![h][i] = @ - 1]
  /\ UNCHANGED <<tree, inbox, looper, threads, gc, gcTimer, ids, strayed>>

----------------------------------------------------------------------------
(* The tree *)

DestroySetMarked(n) == {n} \cup {x \in children[n] : life[x] = "alive"}

\* The handlers whose OnDestroy the BM_DESTROY of n calls: n and, down the tree, the live
\* children, without those that had theirs.
DestroySet(n) ==
  LET Fresh(S) == {x \in S : ~flags[x].mark /\ (x \in Handlers => life[x] = "alive")}
      Closed(S) == \A x \in S : Fresh(children[x]) \subseteq S
  IN  {x \in Fresh(Nodes) :
         /\ ~flags[n].mark
         /\ \A S \in SUBSET Fresh(Nodes) : n \in S /\ Closed(S) => x \in S}

\* OnDestroy of the nodes D: mSelfRef moves to a BM_POST_DISPOSE, BM_HANDLER_DESTROY puts the
\* handler into mDestroyedHandlers and sets the timer of gc.  box is the rest of the list.
OnDestroy(D, box) ==
  /\ flags' = [n \in Nodes |-> IF n \in D THEN [flags[n] EXCEPT !.destroy = TRUE, !.mark = TRUE]
                               ELSE flags[n]]
  /\ destroys' = [h \in Handlers |-> IF h \in D THEN destroys[h] + 1 ELSE destroys[h]]
  /\ selfRef' = selfRef \ D
  /\ inbox' = box \cup {Msg("dispose", h, None, None) : h \in D \cap selfRef}
  /\ destroyed' = destroyed \cup (D \ {Root})
  /\ gcTimer' = (gcTimer \/ D \ {Root} # {})

AdoptOnly(p, c, box) ==
  /\ parent' = [parent EXCEPT ![c] = p]
  /\ children' = [children EXCEPT ![p] = @ \cup {c}]
  /\ flags' = [flags EXCEPT ![c].created = TRUE]
  /\ selfRef' = selfRef \cup {c}
  /\ inbox' = box
  /\ UNCHANGED <<destroys, destroyed, gcTimer>>

\* The part of AddChildHelper that makes c a child of p: mSelfRef, BM_CREATE and, if p is
\* destroyed already, Destroy of c at once.
Adopt(p, c, box) ==
  LET D == IF flags[p].destroy THEN {c} ELSE {}
  IN  /\ parent' = [parent EXCEPT ![c] = p]
      /\ children' = [children EXCEPT ![p] = @ \cup {c}]
      /\ flags' = [flags EXCEPT ![c] = [created |-> TRUE, destroy |-> c \in D, mark |-> c \in D]]
      /\ destroys' = [destroys EXCEPT ![c] = IF c \in D THEN @ + 1 ELSE @]
      /\ selfRef' = selfRef \cup ({c} \ D)
      /\ inbox' = box \cup {Msg("dispose", h, None, None) : h \in D}
      /\ destroyed' = destroyed \cup D
      /\ gcTimer' = (gcTimer \/ D # {})

\* AddChildHelper refuses a child that has a parent or was created.
AddChildHelper(p, c, box) ==
  /\ UNCHANGED life
  /\ IF parent[c] = None /\ ~flags[c].created
     THEN Adopt(p, c, box)
     ELSE /\ inbox' = box
          /\ UNCHANGED <<flags, parent, children, selfRef, destroyed, destroys, gcTimer>>

\* Code at home constructs a handler and adds it to p.
HomeAddChild(p, c) ==
  /\ Home /\ running
  /\ p \in Handlers => life[p] = "alive" /\ flags[p].created
  /\ life[c] = "new"
  /\ life' = [life EXCEPT ![c] = "alive"]
  /\ Adopt(p, c, inbox)
  /\ UNCHANGED <<looper, threads, gc, timers, strayed>>

\* Destroy, called at home.
HomeDestroy(h) ==
  /\ Home /\ running
  /\ life[h] = "alive" /\ flags[h].created /\ ~flags[h].destroy
  /\ OnDestroy(DestroySet(h), inbox)
  /\ UNCHANGED <<life, parent, children, looper, threads, gc, timers, strayed>>

----------------------------------------------------------------------------
(* Messages, handled at home *)

HandleDestroy(m) ==
  /\ Home /\ running /\ m \in inbox /\ m.kind = "destroy"
  /\ OnDestroy(DestroySet(m.on), inbox \ {m})
  /\ Answer(m)
  /\ UNCHANGED <<life, parent, children, looper, held, arg, gc, timers, strayed>>

HandleAddChild(m) ==
  /\ Home /\ running /\ m \in inbox /\ m.kind = "addChild"
  /\ AddChildHelper(m.on, m.child, inbox \ {m})
  /\ Answer(m)
  /\ UNCHANGED <<looper, held, arg, gc, timers, strayed>>

HandleChildDtor(m) ==
  /\ Home /\ running /\ m \in inbox /\ m.kind = "childDtor"
  /\ inbox' = inbox \ {m}
  /\ children' = [children EXCEPT ![m.on] = @ \ {m.child}]
  /\ Answer(m)
  /\ UNCHANGED <<life, flags, parent, selfRef, destroyed, destroys, looper, held, arg, gc, gcTimer, timers, strayed>>

\* BM_POST_DISPOSE gives up the reference and calls gc.
HandleDispose(m) ==
  /\ Home /\ running /\ m \in inbox /\ m.kind = "dispose"
  /\ inbox' = inbox \ {m}
  /\ gc' = [step |-> "pick", todo |-> destroyed, cur |-> None]
  /\ UNCHANGED <<tree, looper, threads, gcTimer, timers, strayed>>

HandleQuit(m) ==
  /\ Home /\ running /\ m \in inbox /\ m.kind = "quit"
  /\ bmQuit' = TRUE
  /\ inbox' = (inbox \ {m}) \cup (IF bmQuit THEN {} ELSE {Msg("destroy", Root, None, None)})
  /\ UNCHANGED <<tree, running, threads, gc, gcTimer, timers, strayed>>

StopAtOnce ==
  /\ Home /\ running /\ bmQuit /\ inbox = {}
  /\ running' = FALSE
  /\ children' = [children EXCEPT ![Root] = {}]
  /\ UNCHANGED <<life, flags, parent, selfRef, destroyed, destroys, inbox, bmQuit, threads, gc, gcTimer, timers, strayed>>

\* The end of Run: CanQuitLooperNow counts the live children of the looper.
Stop ==
  /\ Home /\ running /\ bmQuit /\ inbox = {}
  /\ \A c \in children[Root] : life[c] # "alive"
  /\ running' = FALSE
  /\ children' = [children EXCEPT ![Root] = {}]
  /\ UNCHANGED <<life, flags, parent, selfRef, destroyed, destroys, inbox, bmQuit, threads, gc, gcTimer, timers, strayed>>

----------------------------------------------------------------------------
(* gc, at home: the destroyed handlers one after the other *)

\* OnTimer of mTimerGC.
GcTimer ==
  /\ Home /\ running /\ gcTimer
  /\ gc' = [step |-> "pick", todo |-> destroyed, cur |-> None]
  /\ UNCHANGED <<tree, inbox, looper, threads, gcTimer, timers, strayed>>

\* The test of use_count.
GcPick(h) ==
  /\ gc.step = "pick" /\ h \in gc.todo
  /\ gc' = IF Pinned(h) THEN [gc EXCEPT !.todo = @ \ {h}]
           ELSE [step |-> "drop", todo |-> gc.todo \ {h}, cur |-> h]
  /\ UNCHANGED <<tree, inbox, looper, threads, gcTimer, timers, strayed>>

\* items[key] = nullptr: ~Handler, unless a thread locked the handler since.
GcDrop ==
  LET h == gc.cur IN
  /\ gc.step = "drop"
  /\ gc' = [gc EXCEPT !.step = "relock"]
  /\ destroyed' = destroyed \ {h}
  /\ IF Pinned(h) THEN UNCHANGED <<life, children>>
     ELSE /\ life' = [life EXCEPT ![h] = "gone"]
          /\ children' = [children EXCEPT ![parent[h]] = @ \ {h}]
  /\ UNCHANGED <<flags, parent, selfRef, destroys, inbox, looper, threads, gcTimer, timers, strayed>>

GcRelockKeepsTimers ==
  LET h == gc.cur IN
  /\ gc.step = "relock"
  /\ gc' = [gc EXCEPT !.step = "pick", !.cur = None]
  /\ destroyed' = IF life[h] = "alive" THEN destroyed \cup {h} ELSE destroyed
  /\ IF life[h] = "gone"
     THEN parent' = [parent EXCEPT ![h] = None] /\ ids' = [ids EXCEPT ![h] = FirstIds]
     ELSE UNCHANGED <<parent, ids>>
  /\ UNCHANGED <<life, flags, children, selfRef, destroys, inbox, looper, threads, gcTimer, nodes, strayed>>
GcRelockGone ==
  LET h == gc.cur IN
  /\ gc.step = "relock"
  /\ gc' = [gc EXCEPT !.step = "pick", !.cur = None]
  /\ destroyed' = IF life[h] = "alive" THEN destroyed \cup {h} ELSE destroyed
  /\ IF life[h] = "gone"
     THEN /\ parent' = [parent EXCEPT ![h] = None] /\ ids' = [ids EXCEPT ![h] = FirstIds]
          /\ nodes' = [nodes EXCEPT ![h] = RemoveAllTimer(@)]
     ELSE UNCHANGED <<parent, ids, nodes>>
  /\ UNCHANGED <<life, flags, children, selfRef, destroys, inbox, looper, threads, gcTimer, strayed>>

\* handler.lock(): back into the list, or erased, and the timers with it; handlerData, gc's
\* reference to the data, goes out of scope.
GcRelock ==
  LET h == gc.cur IN
  /\ gc.step = "relock"
  /\ gc' = [gc EXCEPT !.step = "pick", !.cur = None]
  /\ destroyed' = IF life[h] = "alive" THEN destroyed \cup {h} ELSE destroyed
  /\ nodes' = IF life[h] = "alive" THEN nodes ELSE [nodes EXCEPT ![h] = RemoveAllTimer(@)]
  /\ IF life[h] = "gone"
     THEN parent' = [parent EXCEPT ![h] = None] /\ ids' = [ids EXCEPT ![h] = FirstIds]
     ELSE UNCHANGED <<parent, ids>>
  /\ UNCHANGED <<life, flags, children, selfRef, destroys, inbox, looper, threads, gcTimer, strayed>>

GcEndOnce ==
  /\ gc.step = "pick" /\ gc.todo = {}
  /\ gc' = NoGc
  /\ gcTimer' = FALSE
  /\ UNCHANGED <<tree, inbox, looper, threads, timers, strayed>>

\* The end of gc, and of OnTimer, which sets the timer again with a longer interval.
GcEnd ==
  /\ gc.step = "pick" /\ gc.todo = {}
  /\ gc' = NoGc
  /\ gcTimer' = (gcTimer /\ destroyed # {})
  /\ UNCHANGED <<tree, inbox, looper, threads, timers, strayed>>

----------------------------------------------------------------------------
(* Other threads *)

At(t, label) == pc[t] = label
Goto(t, label) == pc' = [pc EXCEPT ![t] = label]

New(t, h) ==
  /\ At(t, "run") /\ life[h] = "new"
  /\ life' = [life EXCEPT ![h] = "alive"]
  /\ held' = [held EXCEPT ![t] = @ \cup {h}]
  /\ UNCHANGED <<flags, parent, children, selfRef, destroyed, destroys, inbox, looper, pc, arg, gc, gcTimer, timers, strayed>>

\* weak_ptr::lock.
Lock(t, h) ==
  /\ At(t, "run") /\ life[h] = "alive" /\ h \notin held[t]
  /\ held' = [held EXCEPT ![t] = @ \cup {h}]
  /\ UNCHANGED <<tree, inbox, looper, pc, arg, gc, gcTimer, timers, strayed>>

\* A shared_ptr goes out of scope; the last one calls ~Handler.
Drop(t, h) ==
  /\ At(t, "run") /\ h \in held[t]
  /\ held' = [held EXCEPT ![t] = @ \ {h}]
  /\ IF Referenced(h) \/ h \in destroyed \/ \E u \in Threads \ {t} : h \in held[u]
     THEN UNCHANGED <<life, pc, arg>>
     ELSE /\ life' = [life EXCEPT ![h] = "dtor"]
          /\ Goto(t, "dtor")
          /\ arg' = [arg EXCEPT ![t].h = h]
  /\ UNCHANGED <<flags, parent, children, selfRef, destroyed, destroys, inbox, looper, gc, gcTimer, timers, strayed>>

\* ~Handler sends BM_CHILD_DTOR to the parent.
DtorSend(t) ==
  LET h == arg[t].h IN
  /\ At(t, "dtor")
  /\ IF parent[h] # None /\ running
     THEN /\ inbox' = inbox \cup {Msg("childDtor", parent[h], h, t)}
          /\ Goto(t, "wait")
     ELSE UNCHANGED inbox /\ Goto(t, "unref")
  /\ UNCHANGED <<tree, looper, held, arg, gc, gcTimer, timers, strayed>>

\* The members of the handler are destructed: its data too, unless gc has a reference.
\* ~tagHandlerInternalData removes the timers and releases the parent.  Its synchronous
\* BM_REMOVE_CHILD_WEAKREF is left out: after BM_CHILD_DTOR the parent finds nothing to remove.
Unref(t) ==
  LET h == arg[t].h IN
  /\ At(t, "unref")
  /\ life' = [life EXCEPT ![h] = "gone"]
  /\ IF gc.cur = h THEN UNCHANGED <<parent, timers, strayed>>
     ELSE /\ parent' = [parent EXCEPT ![h] = None] /\ ids' = [ids EXCEPT ![h] = FirstIds]
          /\ nodes' = [nodes EXCEPT ![h] = RemoveAllTimer(@)]
          /\ strayed' = IF nodes'[h] = nodes[h] THEN strayed ELSE strayed \cup {h}
  /\ Goto(t, "run")
  /\ arg' = [arg EXCEPT ![t] = NoArg]
  /\ UNCHANGED <<flags, children, selfRef, destroyed, destroys, inbox, looper, held, gc, gcTimer>>

\* Destroy, first half: the tests, and the load of the byte with the flags.
DestroyTest(t, h) ==
  /\ At(t, "run") /\ h \in held[t]
  /\ flags[h].created /\ ~flags[h].destroy
  /\ Goto(t, "store")
  /\ arg' = [arg EXCEPT ![t] = [h |-> h, old |-> flags[h]]]
  /\ UNCHANGED <<tree, inbox, looper, held, gc, gcTimer, timers, strayed>>

\* Destroy, second half: mDestroy = true writes the whole byte back; BM_DESTROY is sent.
\* Home's own writes to the byte are one step: a store of this thread that they undo is
\* repeated by OnDestroy's MarkDestroyed.
DestroyStore(t) ==
  LET h == arg[t].h IN
  /\ At(t, "store")
  /\ \E byte \in {flags[h]} \cup (IF TornUpdates THEN {arg[t].old} ELSE {}) :
       flags' = [flags EXCEPT ![h] = [byte EXCEPT !.destroy = TRUE]]
  /\ inbox' = IF running THEN inbox \cup {Msg("destroy", h, None, t)} ELSE inbox
  /\ Goto(t, IF running THEN "wait" ELSE "run")
  /\ arg' = [arg EXCEPT ![t] = NoArg]
  /\ UNCHANGED <<life, parent, children, selfRef, destroyed, destroys, looper, held, gc, gcTimer, timers, strayed>>

\* AddChild from another thread.
AddChild(t, p, c) ==
  /\ At(t, "run") /\ running
  /\ c \in held[t] /\ p # c
  /\ p = Root \/ (p \in held[t] /\ flags[p].created)
  /\ inbox' = inbox \cup {Msg("addChild", p, c, t)}
  /\ Goto(t, "wait")
  /\ UNCHANGED <<tree, looper, held, arg, gc, gcTimer, timers, strayed>>

\* PostQuitMessage.
Quit(t) ==
  /\ At(t, "run") /\ running
  /\ inbox' = inbox \cup {Msg("quit", Root, None, None)}
  /\ UNCHANGED <<tree, looper, threads, gc, gcTimer, timers, strayed>>

----------------------------------------------------------------------------
GcStep == (\E h \in Handlers : GcPick(h)) \/ GcDrop \/ GcRelock \/ GcEnd

HandleMessage(m) ==
  \/ HandleDestroy(m) \/ HandleAddChild(m) \/ HandleChildDtor(m) \/ HandleDispose(m) \/ HandleQuit(m)

HomeApp ==
  \E h \in Handlers :
    \/ HomeDestroy(h) \/ SetTimer(h)
    \/ \E i \in Ids : KillTimer(h, i)
    \/ \E p \in Nodes : HomeAddChild(p, h)

ThreadStep(t) == DtorSend(t) \/ Unref(t) \/ DestroyStore(t)

ThreadApp(t) ==
  \/ \E h \in Handlers : New(t, h) \/ Lock(t, h) \/ Drop(t, h) \/ DestroyTest(t, h)
  \/ \E p \in Nodes, c \in Handlers : AddChild(t, p, c)
  \/ Quit(t)

Next ==
  \/ GcStep \/ GcTimer \/ Stop \/ HomeApp
  \/ \E m \in inbox : HandleMessage(m)
  \/ \E t \in Threads : ThreadStep(t) \/ ThreadApp(t)

Spec == Init /\ [][Next]_vars

----------------------------------------------------------------------------
(* Properties *)

\* OnDestroy of a handler is called once, whoever calls Destroy and however often, also when
\* the parent is destroyed at the same time (Handler::OnMessage, BM_DESTROY).
OnDestroyOnce == \A h \in Handlers : destroys[h] <= 1

\* A handler does not miss the destruction of its parent: whether it was added before, while a
\* thread was about to destroy the parent, or afterwards (OnDestroy, AddChildHelper).
NoOrphan ==
  \A h \in Handlers : life[h] = "alive" /\ parent[h] # None /\ flags[parent[h]].mark => flags[h].mark

\* A destroyed handler is never forgotten: until it is destructed gc knows it, and the timer
\* that calls gc is set (BM_HANDLER_DESTROY, gc, OnTimer).
DestroyedIsWatched ==
  \A h \in Handlers :
    flags[h].mark /\ life[h] = "alive" => gcTimer /\ (h \in destroyed \/ gc.cur = h)

\* The data of a handler outlives the handler only together with the parent it points to: who
\* uses mParent, in a destructor too, finds it alive (~Handler, ~tagHandlerInternalData).
ParentOutlives == \A h \in Handlers : parent[h] \in Handlers => life[parent[h]] = "alive"

\* No timer fires for a handler whose destructor has begun ("the framework guarantees that the
\* handler is valid when a TaskEntry runs", Handler::post).  Negative ids are excepted, which
\* RemoveAllTimer keeps.
NoTimerOfDead ==
  \A h \in Handlers : life[h] \in {"dtor", "gone"} /\ gc.cur # h =>
    \A i \in Ids : Removable(i) => nodes[h][i] = 0

\* The timer wheel, which has no lock, is changed by home only, although destructors run on
\* other threads: gc removes the timers before it lets go of the data.
TimersStayHome == strayed = {}

\* Timers of one handler have different ids, also when the counter has wrapped round and ids are
\* used again; 0, which is no valid id, is not one of them before that (NextTimerId).
TimerIdsUnique ==
  \A h \in Handlers : /\ \A i \in Ids : nodes[h][i] <= 1
                      /\ ~ids[h].rewind => nodes[h][0] = 0

\* The looper does not stop under a thread that holds a created handler of it: what the thread
\* posts is not refused, and the self reference of a queued runnable is cleared one day
\* (CanQuitLooperNow, postRunnable).
HeldIsReachable == \A t \in Threads : \A h \in held[t] : flags[h].created => running
=============================================================================
