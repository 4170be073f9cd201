---------------------------- MODULE MessageLoop ----------------------------
(***************************************************************************)
(* The message loop of CoreLooper: LooperImpl (src/core/looper) on top of  *)
(* Looper_Linux (src/arch/linux).                                          *)
(*                                                                         *)
(* A looper is a thread that pops messages off its own list and runs their *)
(* handlers.  postMessage appends to the list of another looper and rings  *)
(* its socket pair; sendMessage does the same and then keeps running its   *)
(* OWN loop (SingleStep) until the receiver has set the done flag, so that *)
(* handlers nest.  Timer and socket callbacks are run from inside          *)
(* getMessage, and may send messages too.  A thread that is no looper      *)
(* sends through a looper it borrows from a pool (a "TLS looper"), which   *)
(* has a socket pair and no message loop.  A looper that was told to quit  *)
(* tells its child loopers, waits for their exit events and destructors,   *)
(* and stops at the first moment its list is empty.                        *)
(*                                                                         *)
(* The call stack of a thread is modelled as frames 1..top.  A frame is a  *)
(* handler activation: the Run loop itself ("run"), a dispatched message   *)
(* ("msg"), a callback ("timer", "io") or the code of a plain thread       *)
(* ("thread"); "pc" says where it is.  A frame whose pc is check, get or  *)
(* poll is inside the loop: that of Run, or of its own sendMessage.        *)
(***************************************************************************)
EXTENDS Naturals, Sequences

CONSTANTS
  Loopers,      \* the loopers, all started
  Threads,      \* plain threads that call into loopers
  TlsLoopers,   \* SmartTlsLooperManager_Linux's loopers
  None,         \* null pointer
  Parent,       \* Parent[l]: the looper l was added to and that owns its exit event
  Timed,        \* loopers on which the application sets timers (GetTimerManager)
  PostKinds,    \* what the application posts: "user" messages, "quit" requests
  MaxMsg,       \* bound: messages posted or sent by the application
  MaxCallbacks, \* bound: timer and socket callbacks with a body of their own
  SockCap,      \* capacity of the socket pair, in wake-up bytes
  RecvMax       \* bytes one recv() takes (1024 in the code)

Actors   == Loopers \cup Threads
Sockets  == Loopers \cup TlsLoopers
MsgIds   == 1..MaxMsg
\* Every frame below the top has a send of its own in progress, except Run.
MaxDepth == MaxMsg + 2

ASSUME ConstantsAssumption ==
  /\ Loopers \cap Threads = {}
  /\ Loopers \cap TlsLoopers = {}
  /\ None \notin Loopers \cup Threads \cup TlsLoopers
  /\ Parent \in [Loopers -> Loopers \cup {None}]
  /\ Timed \subseteq Loopers
  /\ PostKinds \subseteq {"user", "quit"}
  /\ MaxMsg \in Nat /\ MaxCallbacks \in Nat
  /\ SockCap \in Nat \ {0} /\ RecvMax \in Nat \ {0}

VARIABLES
  queue,     \* queue[l]: mMessageList
  bytes,     \* bytes[s]: unread bytes of the socket pair of s
  quit,      \* quit[l]: mBMQuit
  life,      \* "run": mLooperRunning; "stopped": Run left; "exited": exit event set
  freed,     \* the destructor of the looper has run
  frame,     \* frame[a][k]: k-th activation on the stack of a
  top,       \* number of activations
  tls,       \* tls[t]: TLS looper borrowed by thread t
  done,      \* ids whose *mDone was set
  ack,       \* ids whose *mAck was written
  fate,      \* what became of each message: history, read by no action
  nextId,    \* next message id
  callbacks  \* callbacks started so far

vars == <<queue, bytes, quit, life, freed, frame, top, tls, done, ack, fate,
          nextId, callbacks>>

Msg == [kind : {"none", "user", "null", "quit", "destroy"},
        id   : 0..MaxMsg,
        from : Loopers \cup TlsLoopers \cup {None}]

NoMsg == [kind |-> "none", id |-> 0, from |-> None]

\* A posted message (mDone is null).
Posted(kind, id) == [kind |-> kind, id |-> id, from |-> None]

InLoop == {"check", "get", "poll"}

Frame == [cb   : {"none", "run", "msg", "timer", "io", "thread"},
          msg  : Msg,
          pc   : {"body", "push", "ring", "reply", "wake", "wakering"} \cup InLoop,
          op   : {"none", "post", "send"},
          kind : {"none", "user", "quit"},
          dst  : Loopers \cup {None},
          id   : 0..MaxMsg,
          todo : SUBSET Loopers]

Activation(cb, msg, pc) ==
  [cb |-> cb, msg |-> msg, pc |-> pc, op |-> "none", kind |-> "none",
   dst |-> None, id |-> 0, todo |-> {}]

NoFrame == Activation("none", NoMsg, "body")

Children(l) == {c \in Loopers : Parent[c] = l}

-----------------------------------------------------------------------------
(* The stack.                                                              *)

Top(a) == frame[a][top[a]]

\* The top frame of a is at pc.
At(a, pc) == top[a] > 0 /\ Top(a).pc = pc

\* Replace the top frame.
Becomes(a, f) == frame' = [frame EXCEPT ![a][top[a]] = f]

Goto(a, pc) == Becomes(a, [Top(a) EXCEPT !.pc = pc])

\* Call f; the caller resumes at pc.
Call(a, pc, f) ==
  /\ top[a] < MaxDepth
  /\ top' = [top EXCEPT ![a] = @ + 1]
  /\ frame' = [frame EXCEPT ![a] =
                  [@ EXCEPT ![top[a]].pc = pc, ![top[a] + 1] = f]]

Return(a) ==
  /\ top' = [top EXCEPT ![a] = @ - 1]
  /\ frame' = [frame EXCEPT ![a][top[a]] = NoFrame]

\* The call a frame makes is over: back to the code of the handler.
EndOfCall(f) ==
  [f EXCEPT !.pc = "body", !.op = "none", !.kind = "none", !.dst = None, !.id = 0]

RungLost(s) == bytes[s]

\* PostQueuedCompletionStatus: one byte; a full socket drops it.
Rung(s) == IF bytes[s] < SockCap THEN bytes[s] + 1 ELSE bytes[s]

RungTwice(s) == IF bytes[s] + 1 < SockCap THEN bytes[s] + 2 ELSE SockCap

DrainedBlindly(s) == bytes[s] - RecvMax

\* EpollProxyDummy::OnEvent: one recv().
Drained(s) == IF bytes[s] > RecvMax THEN bytes[s] - RecvMax ELSE 0

\* The looper whose epoll a sleeps on.
SleepsOn(a) == IF a \in Threads THEN tls[a] ELSE a

-----------------------------------------------------------------------------
(* postMessage and sendMessage.  A call on a looper that is seen not to be *)
(* running returns at once and changes nothing; the other calls go on to   *)
(* the locked test, with the looper free to stop in between.               *)

\* Code of the application: it may call into loopers.
AppCode(f) == f.cb \in {"timer", "io", "thread"} \/ (f.cb = "msg" /\ f.msg.kind = "user")

BeginCall(a, op, kind, dst) ==
  /\ At(a, "body")
  /\ AppCode(Top(a))
  /\ nextId <= MaxMsg
  /\ life[dst] = "run"
  /\ Becomes(a, [Top(a) EXCEPT !.pc = "push", !.op = op, !.kind = kind,
                               !.dst = dst, !.id = nextId])
  /\ fate' = [fate EXCEPT ![nextId] = "calling"]
  /\ nextId' = nextId + 1
  /\ UNCHANGED <<queue, bytes, quit, life, freed, top, done, ack, callbacks>>

\* postMessage, and PostQuitMessage (which posts BM_QUIT).
Post(a, kind, dst) == BeginCall(a, "post", kind, dst) /\ UNCHANGED tls

\* sendMessage to another looper, from a looper.
SendFromLooper(l, dst) == l # dst /\ BeginCall(l, "send", "user", dst) /\ UNCHANGED tls

\* sendMessage from a plain thread: _StackLooperSendMessage borrows a TLS looper.
SendFromThread(t, dst) ==
  /\ BeginCall(t, "send", "user", dst)
  /\ \E s \in TlsLoopers : /\ \A u \in Threads : tls[u] # s
                           /\ tls' = [tls EXCEPT ![t] = s]

\* ~SmartTlsLooper_Linux: the TLS looper goes back to the pool when the call ends.
DropTls(a) == tls' = IF a \in Threads THEN [tls EXCEPT ![a] = None] ELSE tls

AcceptsAlways(l) == TRUE

\* The test of mLooperRunning under mMessageLock.
Accepts(l) == life[l] = "run"

PutFirst(q, m) == <<m>> \o q

\* mMessageList.push_back
Put(q, m) == Append(q, m)

\* The locked part: refuse, or append to the list.
Push(a) ==
  LET f == Top(a) IN
  /\ At(a, "push")
  /\ \/ /\ ~Accepts(f.dst)
        /\ Becomes(a, EndOfCall(f))
        /\ fate' = IF f.id = 0 THEN fate ELSE [fate EXCEPT ![f.id] = "refused"]
        /\ DropTls(a)
        /\ UNCHANGED queue
     \/ /\ Accepts(f.dst)
        /\ queue' = [queue EXCEPT ![f.dst] = Put(@,
              [kind |-> f.kind, id |-> f.id,
               from |-> IF f.op = "send" THEN SleepsOn(a) ELSE None])]
        /\ fate' = IF f.id = 0 THEN fate ELSE [fate EXCEPT ![f.id] = "queued"]
        /\ Goto(a, "ring")
        /\ UNCHANGED tls
  /\ UNCHANGED <<bytes, quit, life, freed, top, done, ack, nextId, callbacks>>

\* PostQueuedCompletionStatus, after the lock was released.
Ring(a) ==
  LET f == Top(a) IN
  /\ At(a, "ring")
  /\ bytes' = [bytes EXCEPT ![f.dst] = Rung(f.dst)]
  /\ IF f.op = "send" THEN Goto(a, "check") ELSE Becomes(a, EndOfCall(f))
  /\ UNCHANGED <<queue, quit, life, freed, top, tls, done, ack, fate, nextId, callbacks>>

\* while (!*msg.mDone) looper.SingleStep(): leave the loop, or step.
SendCheck(a) ==
  LET f == Top(a) IN
  /\ At(a, "check") /\ f.op = "send"
  /\ \/ f.id \in done /\ Becomes(a, EndOfCall(f)) /\ DropTls(a)
     \/ /\ f.id \notin done
        /\ Goto(a, IF a \in Threads THEN "poll" ELSE "get")
        /\ UNCHANGED tls
  /\ UNCHANGED <<queue, bytes, quit, life, freed, top, done, ack, fate, nextId, callbacks>>

-----------------------------------------------------------------------------
(* Run and getMessage.                                                     *)

CanQuitAfterEvents(l) == \A c \in Children(l) : life[c] = "exited"

\* CanQuitLooperNow: the exit event of every child looper is set and no
\* child object is left.
CanQuit(l) == \A c \in Children(l) : life[c] = "exited" /\ freed[c]

MayStopAtOnce(l) == quit[l] /\ CanQuit(l)

\* The condition on which Run breaks.
MayStop(l) == quit[l] /\ CanQuit(l) /\ queue[l] = <<>>

\* Run, after SingleStep returned: stop, under the lock, or step again.
RunCheck(l) ==
  /\ At(l, "check") /\ Top(l).cb = "run"
  /\ \/ /\ MayStop(l)
        /\ life' = [life EXCEPT ![l] = "stopped"]
        /\ Return(l)
     \/ /\ ~MayStop(l)
        /\ Goto(l, "get")
        /\ UNCHANGED <<life, top>>
  /\ UNCHANGED <<queue, bytes, quit, freed, tls, done, ack, fate, nextId, callbacks>>

\* getMessage takes the first message, SingleStep dispatches it; when the
\* handler is done SingleStep returns and the caller's loop tests again.
Dispatch(l) ==
  /\ At(l, "get")
  /\ queue[l] # <<>>
  /\ queue' = [queue EXCEPT ![l] = Tail(@)]
  /\ LET m == Head(queue[l]) IN
     /\ Call(l, "check", [Activation("msg", m, "body") EXCEPT
                             !.todo = IF m.kind = "destroy" THEN Children(l) ELSE {}])
     /\ fate' = IF m.id = 0 THEN fate ELSE [fate EXCEPT ![m.id] = "taken"]
  /\ UNCHANGED <<bytes, quit, life, freed, tls, done, ack, nextId, callbacks>>

\* With an empty list getMessage returns -1 when the looper can quit, and
\* goes to sleep otherwise.
NoMessage(l) ==
  /\ At(l, "get")
  /\ queue[l] = <<>>
  /\ Goto(l, IF quit[l] /\ CanQuit(l) THEN "check" ELSE "poll")
  /\ UNCHANGED <<queue, bytes, quit, life, freed, top, tls, done, ack, fate, nextId, callbacks>>

\* A timer is due (ProcessTimer, before epoll_wait; TimerManager::mBusying
\* keeps timers from nesting) or a socket is ready (after epoll_wait).  The
\* callback returns into getMessage, which does not look at the done flag,
\* and after a timer not at the list either.
Callback(l, cb) ==
  /\ At(l, "poll")
  /\ callbacks < MaxCallbacks
  /\ cb = "timer" => l \in Timed /\ \A k \in 1..top[l] : frame[l][k].cb # "timer"
  /\ Call(l, IF cb = "timer" THEN "poll" ELSE "get", Activation(cb, NoMsg, "body"))
  /\ callbacks' = callbacks + 1
  /\ UNCHANGED <<queue, bytes, quit, life, freed, tls, done, ack, fate, nextId>>

WokenAgain(a) ==
  /\ At(a, "poll")
  /\ bytes[SleepsOn(a)] > 0
  /\ bytes' = [bytes EXCEPT ![SleepsOn(a)] = Drained(SleepsOn(a))]
  /\ IF a \in Threads THEN UNCHANGED frame ELSE Goto(a, "get")
  /\ UNCHANGED <<queue, quit, life, freed, top, tls, done, ack, fate, nextId, callbacks>>

\* epoll_wait returns because of the socket pair.  getMessage of a TLS
\* looper returns, that of a looper goes back to its list.
Woken(a) ==
  /\ At(a, "poll")
  /\ bytes[SleepsOn(a)] > 0
  /\ bytes' = [bytes EXCEPT ![SleepsOn(a)] = Drained(SleepsOn(a))]
  /\ Goto(a, IF a \in Threads THEN "check" ELSE "get")
  /\ UNCHANGED <<queue, quit, life, freed, top, tls, done, ack, fate, nextId, callbacks>>

HasOwnTimer(l) == l \in Timed

\* A looper has a TimerManager when the application sets timers on it, and
\* from BM_QUIT on (mTimerCheckQuitLooper); a TLS looper has none.
HasTimer(l) == l \in Timed \/ quit[l]

\* epoll_wait returns after cmsDelayNext, which is INFINITE without a TimerManager.
Timeout(l) ==
  /\ At(l, "poll")
  /\ HasTimer(l)
  /\ Goto(l, "get")
  /\ UNCHANGED <<queue, bytes, quit, life, freed, top, tls, done, ack, fate, nextId, callbacks>>

-----------------------------------------------------------------------------
(* The handlers.                                                           *)

AnswersNone(m) == FALSE

\* msg.mDone is set: somebody waits for the answer.
Answers(m) == m.from # None

\* Application code, or a BM_NULL, is through.  dispatchMessage writes the
\* answer of a sent message.
HandlerReturns(l) ==
  LET f == Top(l) IN
  /\ At(l, "body")
  /\ f.cb \in {"timer", "io"} \/ (f.cb = "msg" /\ f.msg.kind \in {"user", "null"})
  /\ \/ /\ ~Answers(f.msg)
        /\ Return(l)
        /\ fate' = IF f.msg.id = 0 THEN fate ELSE [fate EXCEPT ![f.msg.id] = "handled"]
        /\ UNCHANGED ack
     \/ /\ Answers(f.msg)
        /\ ack' = ack \cup {f.msg.id}
        /\ Goto(l, "reply")
        /\ UNCHANGED <<top, fate>>
  /\ UNCHANGED <<queue, bytes, quit, life, freed, tls, done, nextId, callbacks>>

\* *msg.mDone = true
SetDone(l) ==
  LET f == Top(l) IN
  /\ At(l, "reply")
  /\ done' = done \cup {f.msg.id}
  /\ fate' = [fate EXCEPT ![f.msg.id] = "handled"]
  /\ Goto(l, "wake")
  /\ UNCHANGED <<queue, bytes, quit, life, freed, top, tls, ack, nextId, callbacks>>

WithoutNull(s) == queue

\* postMessage(BM_NULL): a TLS looper has no message loop and gets no message.
WithNull(s) == IF s \in TlsLoopers THEN queue
               ELSE [queue EXCEPT ![s] = Put(@, Posted("null", 0))]

\* msg.mSendLooper->Wakeup(): a BM_NULL for a looper that still runs, only
\* the byte for a TLS looper.
Wakeup(l) ==
  LET s == Top(l).msg.from IN
  /\ At(l, "wake")
  /\ \/ /\ s \in Loopers => life[s] = "run"
        /\ queue' = WithNull(s)
        /\ Goto(l, "wakering")
        /\ UNCHANGED top
     \/ /\ s \in Loopers /\ life[s] # "run"
        /\ Return(l)
        /\ UNCHANGED queue
  /\ UNCHANGED <<bytes, quit, life, freed, tls, done, ack, fate, nextId, callbacks>>

WakeupRing(l) ==
  LET s == Top(l).msg.from IN
  /\ At(l, "wakering")
  /\ bytes' = [bytes EXCEPT ![s] = Rung(s)]
  /\ Return(l)
  /\ UNCHANGED <<queue, quit, life, freed, tls, done, ack, fate, nextId, callbacks>>

\* BM_QUIT: the first one posts BM_DESTROY to the looper itself, sets mBMQuit
\* and starts mTimerCheckQuitLooper, for which SetTimerEx posts a BM_NULL.
OnQuit(l) ==
  LET m == Top(l).msg IN
  /\ At(l, "body") /\ m.kind = "quit"
  /\ IF quit[l]
     THEN UNCHANGED <<queue, bytes, quit>>
     ELSE /\ queue' = [queue EXCEPT ![l] =
                          Put(Put(@, Posted("destroy", 0)), Posted("null", 0))]
          /\ bytes' = [bytes EXCEPT ![l] = RungTwice(l)]
          /\ quit' = [quit EXCEPT ![l] = TRUE]
  /\ fate' = IF m.id = 0 THEN fate ELSE [fate EXCEPT ![m.id] = "handled"]
  /\ Return(l)
  /\ UNCHANGED <<life, freed, tls, done, ack, nextId, callbacks>>

\* BM_DESTROY: Handler::OnDestroy tells the child loopers that live to quit.
OnDestroy(l) ==
  LET f == Top(l) IN
  /\ At(l, "body") /\ f.msg.kind = "destroy"
  /\ \/ f.todo = {} /\ Return(l)
     \/ \E c \in f.todo :
          /\ Becomes(l, IF ~freed[c] /\ life[c] = "run"
                        THEN [f EXCEPT !.pc = "push", !.op = "post", !.kind = "quit",
                                       !.dst = c, !.todo = @ \ {c}]
                        ELSE [f EXCEPT !.todo = @ \ {c}])
          /\ UNCHANGED top
  /\ UNCHANGED <<queue, bytes, quit, life, freed, tls, done, ack, fate, nextId, callbacks>>

-----------------------------------------------------------------------------
(* The end of a looper.                                                    *)

\* _WorkThreadCB: the exit event is set after Run returned.
SetExitEvent(l) ==
  /\ life[l] = "stopped"
  /\ life' = [life EXCEPT ![l] = "exited"]
  /\ UNCHANGED <<queue, bytes, quit, freed, frame, top, tls, done, ack, fate, nextId, callbacks>>

\* Somebody's call holds a shared_ptr to l.  Wakeup takes one
\* (shared_from_this) only once it runs.
Referenced(l) ==
  \E a \in Actors : \E k \in 1..top[a] :
     \/ frame[a][k].dst = l
     \/ frame[a][k].pc = "wakering" /\ frame[a][k].msg.from = l

\* The last shared_ptr goes: mSelfRef in _WorkThread, or one the application held.
\* ~Handler's synchronous BM_CHILD_DTOR to the parent, which only takes l off the parent's list
\* of weak references, is left out.
Free(l) ==
  /\ life[l] # "run" /\ ~freed[l] /\ ~Referenced(l)
  /\ freed' = [freed EXCEPT ![l] = TRUE]
  /\ UNCHANGED <<queue, bytes, quit, life, frame, top, tls, done, ack, fate, nextId, callbacks>>

-----------------------------------------------------------------------------
Init ==
  /\ queue = [l \in Loopers |-> <<>>]
  /\ bytes = [s \in Sockets |-> 0]
  /\ quit = [l \in Loopers |-> FALSE]
  /\ life = [l \in Loopers |-> "run"]
  /\ freed = [l \in Loopers |-> FALSE]
  /\ frame = [a \in Actors |-> [k \in 1..MaxDepth |->
        IF k > 1 THEN NoFrame
        ELSE IF a \in Loopers THEN Activation("run", NoMsg, "get")
                              ELSE Activation("thread", NoMsg, "body")]]
  /\ top = [a \in Actors |-> 1]
  /\ tls = [t \in Threads |-> None]
  /\ done = {} /\ ack = {}
  /\ fate = [i \in MsgIds |-> "new"]
  /\ nextId = 1
  /\ callbacks = 0

\* What the thread of looper l does without being asked to.
LoopStep(l) ==
  \/ RunCheck(l) \/ Dispatch(l) \/ NoMessage(l)
  \/ HandlerReturns(l) \/ SetDone(l) \/ Wakeup(l) \/ WakeupRing(l)
  \/ OnQuit(l) \/ OnDestroy(l) \/ SetExitEvent(l)

CallStep(a) == Push(a) \/ Ring(a) \/ SendCheck(a) \/ Woken(a)

Next ==
  \/ \E a \in Actors, d \in Loopers, kind \in PostKinds : Post(a, kind, d)
  \/ \E l \in Loopers, d \in Loopers : SendFromLooper(l, d)
  \/ \E t \in Threads, d \in Loopers : SendFromThread(t, d)
  \/ \E a \in Actors : CallStep(a)
  \/ \E l \in Loopers : LoopStep(l) \/ Timeout(l) \/ Free(l)
  \/ \E l \in Loopers : Callback(l, "timer") \/ Callback(l, "io")

Spec == Init /\ [][Next]_vars

-----------------------------------------------------------------------------
(* Properties.                                                             *)

Fates == {"new", "calling", "refused", "queued", "taken", "handled"}

\* Every variable keeps its type.
TypeOK ==
  /\ queue \in [Loopers -> Seq(Msg)]
  /\ bytes \in [Sockets -> 0..SockCap]
  /\ quit \in [Loopers -> BOOLEAN]
  /\ life \in [Loopers -> {"run", "stopped", "exited"}]
  /\ freed \in [Loopers -> BOOLEAN]
  /\ frame \in [Actors -> [1..MaxDepth -> Frame]]
  /\ top \in [Actors -> 0..MaxDepth]
  /\ tls \in [Threads -> TlsLoopers \cup {None}]
  /\ done \subseteq MsgIds /\ ack \subseteq MsgIds
  /\ fate \in [MsgIds -> Fates]
  /\ nextId \in 1..(MaxMsg + 1)
  /\ callbacks \in 0..MaxCallbacks

\* A frame inside sendMessageHelper, its message accepted.
Waits(f) == f.op = "send" /\ f.pc \in InLoop \cup {"ring"}

\* Message i is in the list of d, or being handled there with *mDone unset.
Listed(d, i) == \E j \in 1..Len(queue[d]) : queue[d][j].id = i
Handled(d, i) ==
  \E k \in 1..top[d] : /\ frame[d][k].cb = "msg" /\ frame[d][k].msg.id = i
                       /\ frame[d][k].pc \notin {"wake", "wakering"}

\* The looper stops (Run, under mMessageLock) only when its list is empty
\* and no handler is active on it, and nothing is appended afterwards: no
\* accepted message is dropped by a quit.
StoppedIsDrained == \A l \in Loopers : life[l] # "run" => queue[l] = <<>> /\ top[l] = 0

\* The caller of sendMessage never waits for nothing: until done is set the
\* message is in the list of a running looper or a handler there still has
\* to answer it (sendMessageHelper's loop has no other way out).
AwaitedIsPending ==
  \A a \in Actors : \A k \in 1..top[a] :
    LET f == frame[a][k] IN
    Waits(f) => \/ f.id \in done
                \/ life[f.dst] = "run" /\ (Listed(f.dst, f.id) \/ Handled(f.dst, f.id))

\* Somebody is between appending to the list of s and ringing its socket.
RingPending(s) ==
  \E a \in Actors : \/ At(a, "ring") /\ Top(a).dst = s
                    \/ At(a, "wakering") /\ Top(a).msg.from = s

\* A looper in epoll_wait with messages in its list has a byte to read or
\* one on its way, with the socket full and partial recv()s included: the
\* test of the list and the sleep are not atomic (getMessage).
NoLostRing ==
  \A l \in Loopers : At(l, "poll") /\ queue[l] # <<>> => bytes[l] > 0 \/ RingPending(l)

\* A sender whose message was handled, and that is past its test of done,
\* has a BM_NULL (a TLS looper: a byte) to get out of getMessage, or one is
\* about to be posted by dispatchMessage.  doc/cn/event.message.sigslot.md
\* promises that waiting for each other is no deadlock.
NoStrandedSender ==
  \A a \in Actors :
    LET f == Top(a) IN
    top[a] > 0 /\ f.op = "send" /\ f.id \in done /\ f.pc \in {"get", "poll"} =>
      \/ a \in Loopers /\ queue[a] # <<>>
      \/ a \in Threads /\ (bytes[tls[a]] > 0 \/ RingPending(tls[a]))
      \/ \E l \in Loopers : At(l, "wake") /\ Top(l).msg.from = SleepsOn(a)

\* dispatchMessage, line 525: the looper of the sender is valid when
\* Wakeup is called on it.
SenderValidAtWakeup ==
  \A l \in Loopers : At(l, "wake") /\ Top(l).msg.from \in Loopers => ~freed[Top(l).msg.from]

\* A looper outlives its children: its destructor runs after theirs, and it
\* stops only after their exit events (CanQuitLooperNow).
ChildrenFirst ==
  \A c \in Loopers : Parent[c] # None =>
    (life[Parent[c]] # "run" => life[c] = "exited" /\ freed[c])

\* The message loop implements a mailbox, in which the messages that loopers
\* send to themselves, those without an id, do not show.
IdsOf(q) ==
  LET upTo[n \in 0..Len(q)] ==
        IF n = 0 THEN <<>>
        ELSE IF q[n].id = 0 THEN upTo[n - 1] ELSE Append(upTo[n - 1], q[n].id)
  IN  upTo[Len(q)]

BoxOf(l) == IdsOf(queue[l])

SyncSends == {i \in MsgIds : \E a \in Actors : \E k \in 1..top[a] :
                 frame[a][k].op = "send" /\ frame[a][k].id = i}

Mail == INSTANCE Mailbox WITH
  box <- [l \in Loopers |-> BoxOf(l)], open <- [l \in Loopers |-> life[l] = "run"],
  waiting <- SyncSends, answered <- ack

\* Acceptance, order, exactly-once handling and the return of synchronous
\* sends are those of Mailbox.
ImplementsMailbox == Mail!Spec

\* Scheduling: every thread runs, handlers end, epoll_wait with a finite
\* timeout returns, the application lets go of loopers that stopped.
Fairness ==
  /\ \A a \in Actors : WF_vars(CallStep(a))
  /\ \A l \in Loopers : WF_vars(LoopStep(l)) /\ WF_vars(Timeout(l)) /\ WF_vars(Free(l))

FairSpec == Spec /\ Fairness

\* A callback that getMessage runs inside the wait of a send is in a send itself.
CallbackSends ==
  \E a \in Actors : \E k \in 1..top[a] : \E j \in k + 1..top[a] :
    frame[a][k].op = "send" /\ frame[a][j].op = "send" /\ frame[a][j].cb \in {"timer", "io"}

\* A synchronous send gets back to its caller, whatever loopers send to each
\* other meanwhile and whichever of them quit, as long as no callback sends
\* inside the wait of a send.  Where one does, getMessage may wait for ever,
\* with timers too: it polls again, and looks at done only in sendMessage.
SendReturns ==
  []~CallbackSends => \A i \in MsgIds : i \in SyncSends ~> i \notin SyncSends

\* A looper that handled BM_QUIT stops, after its children and theirs, on the
\* same condition: a send that waits for ever holds its looper, and the one it
\* was sent to.
QuitCompletes == []~CallbackSends => \A l \in Loopers : quit[l] ~> life[l] = "exited"

=============================================================================
