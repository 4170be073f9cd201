# CoreLooper: a TLA+ verification project

CoreLooper is a C++11 framework of message loops. This directory holds TLA+ models of
its core, the TLC runs that check them and TLAPS proofs about them. The models follow
the Linux build (`src/src/CMakeLists.txt`): `LooperImpl` on `Looper_Linux`.

## The system

| Component | State | Operations | Talks to |
|---|---|---|---|
| Message loop: `LooperImpl`, `Looper_Linux` | message list, `mLooperRunning`, `mBMQuit`, exit events, a socket pair, an epoll | `postMessage`, `sendMessage`, `getMessage`, `dispatchMessage`, `Run`, `Wakeup`, quit | every other looper and thread, by messages and wake-up bytes |
| TLS loopers: `SmartTlsLooperManager_Linux` | a pool of loopers without a loop | pop, push | `sendMessage` of plain threads |
| Timer wheel: `TimerManager` | five wheels of spokes, the ready list, `mStartTick` | `SetTimer`, `KillTimer`, `ProcessTimer`, `GetMinIdleTime` | called by the looper inside `getMessage`; calls `OnTimer` |
| Handlers: `Handler`, `tagHandlerInternalData` | parent and children, timers and their ids, created and destroyed flags, a cache of children | `Create`, `AddChild`, `Destroy`, `FindObject`, `NextTimerId` | their looper, by messages |
| Garbage collection: `tagLooperInternalData::gc` | destroyed handlers, reference counts | `gc` on a timer and on `BM_POST_DISPOSE` | other threads, through `shared_ptr` |
| Runnables | self references of queued runnables | post, post delayed, send, cancel | message list and timers |
| Tasks: `AsyncTask`, `AsyncTaskLooper` | busy flag, cached tasks | `Execute`, `AddTask`, `DoTask` | synchronous sends to the task's looper; a child of the main looper |
| Channels: `TcpClient_Linux`, `TcpServer_Linux` | socket, listened events, address | connect, accept, send, receive, close | epoll events of their looper; `DnsLooper`; callbacks of the application |
| Resolver: `DnsLooper` | requests, the worker's input and result | `AddRequest`, worker thread, timer | synchronous messages from and to clients |
| Protocols: CTP, JCP, SCTP | parser state, pending requests | frames, requests, answers | TCP channels |

What is hard here: every call crosses threads; a synchronous send runs the message loop
of the caller while it waits, so that handlers nest and finish in any order; the test of
the list and the sleep in `epoll_wait` are separated; timers and socket callbacks run in
between and may send again; a looper may stop while calls to it are in flight; wheels lag
behind the clock; handlers are destroyed by any thread, and destructed by whichever thread
lets go last; sockets are called back through raw pointers; names resolve late. `PROJECT.json`
lists each hazard at its line.

What makes the components correct:

* message loop: a message is accepted or refused, never lost; accepted messages are
  handled once, in order; a wait ends; a wake-up is not lost; a looper stops drained and
  after its children;
* timer wheel: no timer is forgotten or fires after `KillTimer`; the looper does not sleep
  past a timer; a timer is not early;
* handlers: `OnDestroy` once, a child never misses the end of its parent, a destroyed handler
  is collected, no timer outlives its handler, ids are unique;
* channels: a channel connects where it was told last, a short send is continued, received
  data is not lost, no event is delivered to a deleted object; every request is polled for;
* tasks: strictly serial, none forgotten, one looper, and an end.

## Modules

`MessageLoop` is the detailed specification of the message loop. A looper's thread is a
stack of frames `frame[a][1..top[a]]`; a frame is the activation of `Run`, of a message
handler, of a timer or socket callback, or the code of a plain thread, and `pc` is where
it is. Each action is one step of a thread between two points where other threads can
interfere: the unlocked test (`Post`, `SendFromLooper`, `SendFromThread`), the locked part
(`Push`), the ring after the lock (`Ring`), the test of `done` (`SendCheck`), the locked
pop and dispatch (`Dispatch`), the way to sleep (`NoMessage`), the ends of `epoll_wait`
(`Woken`, `Timeout`, `Callback`), the end of a handler (`HandlerReturns`), and the answer,
which is four steps in the code and in the model: ack, done (`SetDone`), `Wakeup`
(append a `BM_NULL`) and its ring (`WakeupRing`). `OnQuit` and `OnDestroy` are the handlers
of `BM_QUIT` and `BM_DESTROY`; `RunCheck` is the end of `Run`; `SetExitEvent` and `Free` are
the exit event and the destructor.

`Mailbox` is what the message loop promises to its callers: acceptance, order,
exactly-once handling, return of a synchronous send after its answer. `MessageLoop`
instantiates it (`Mail`); `ImplementsMailbox` is checked as a property and proved.

`TimerWheel` is `TimerManager`: position of the wheels, spoke of each node, the turn and
the cascade of `DetectList`, the ready list of `ProcessTimeOut`, and `GetMinIdleTime` as an
operator. `Tick` is the clock.

`HandlerTree` is the life of the handlers of one looper, `Root`. Its thread, home, handles a
message, runs application code or makes one step of `gc`; other threads construct handlers,
lock weak pointers, drop references, call `AddChild`, `Destroy` and quit. References are
counted by who has them: messages, `mSelfRef`, the data of children (`parent`),
`mDestroyedHandlers` and threads (`held`). The thread that drops the last one is in `~Handler`
(`DtorSend`, `Unref`), which sends `BM_CHILD_DTOR` home and waits. `gc` is cut where another
thread can interfere: the test of `use_count` (`GcPick`), `items[key] = nullptr` (`GcDrop`) and
`lock()` (`GcRelock`). `Destroy` on a thread is a load of the byte with the flags
(`DestroyTest`) and a store (`DestroyStore`); whether the store can undo what home wrote to
another bit of the byte is `TornUpdates`. `NextTimerId` and `RemoveAllTimer` are operators on
integers of a small width.

`DnsLooper` is the resolver and `TcpClient` composes it with the channels and the server of a
looper. `frames` are the loops of that looper, the outermost first: each has the batch that
`epoll_wait` returned and the `OnEvent` it is in, with the parts still to do (`first`, `in`,
`out`, `hup`) and whether a callback is running. In a callback, and between batches, the
application connects, sends and closes. `Connect` to a name is a synchronous send and so
begins a nested loop.

`AsyncTasks` is `AsyncTask::Execute` and `AsyncTaskLooper`, with a main looper that may quit.
`stack` are the calls of `DoTask`; that there is never more than one is a result.
`SerialExecutor` is what it promises: the tasks it took, one at a time, in order, all of them.
`ImplementsSerial` is the refinement, with fairness.

The `MC` modules are the instances for TLC; `MessageLoopProofs`, `WakeupProofs`,
`MailboxProofs`, `TimerWheelProofs`, `HandlerTreeProofs`, `TcpClientProofs` and
`AsyncTasksProofs` hold the theorems.

How the models relate to the code, where it is not obvious:

* A call on a looper that is already seen not to run (the unlocked test) returns and
  changes nothing; it is no action. A send to the own looper is a function call inside the
  handler's body.
* Messages are identified by numbers; payload and handler are left out. `fate` is history.
* A frame sends and posts only from application code. `BM_QUIT` is posted by
  `PostQuitMessage`, `BM_NULL` by `Wakeup` and `SetTimerEx`.
* `OnQuit` posts to its own looper, which is running: its two pushes and rings are one step.
* Several events of one `epoll_wait` are handled in separate rounds; the byte of the socket
  pair then stays unread for longer, which only causes extra rounds.
* The children of a looper are those it was made the owner of before `Start`
  (`SetOwnerLooper`, `StartHelper`), so that it also holds their exit events (`Parent`).
* `Wakeup` on a destroyed looper is taken as on a stopped one; that it can happen is what
  run `wakeup` shows.
* Plain stores and loads of `mDone`, `mAck` and `mLooperRunning` are interleaved in program
  order; a weaker memory model is not considered.
* `TimerWheel` leaves out the `BM_NULL` that `SetTimerEx` posts (the message loop has it for
  the timer of `OnQuit`), and the looper's own rule to wait one millisecond while it was
  busy within the last second.
* The message list of `HandlerTree` is a set: messages are handled in any order, which is
  more than the list allows. A handler's `OnDestroy` and those of its children are one step:
  they are function calls at home. A refused call (looper stopped) is no action.
* In `TcpClient` bytes are abstracted to "there is data", "there is room", "data is pending".
  Connections and data arrive when the loop is idle; what arrives during a batch is not seen
  before the next `epoll_wait`. Room in the send buffer arrives at any moment. An address that
  is none, or unreachable, makes a "dead" socket, whose first event reports no error, as on
  Linux.
* The application is assumed to read all there is in `OnReceive`, to go on in `OnSend` with
  what is pending, to send after `OnConnect`, and not to connect after `Close`, nor in the
  `OnClose` that `Close` calls. A `DnsLooper` is assumed to run.
* `Close` closes the socket, calls `OnClose` and then destroys the channel. `OnHangUp` does this in
  two steps with the callback between them; when the application calls `Close`, `OnClose` is part
  of the callback that is running.
* `Gc` deletes who has no strong reference left (`Held`): those of a `BM_DNS_ACK` under way, of the
  `AddRequest` a nested loop waits for (`wait`), of the local variable in `OnAccept` (`sp`) and, for
  the server, of the channels it accepted (`mParent`), which keep it until they are deleted. That the
  application keeps no reference of its own is the case that matters.
* Two synchronous messages of destructors are left out: in `MessageLoop` the `BM_CHILD_DTOR` of a
  looper (`handler.cpp:113-119`), which takes it off the parent's list of weak references, and in
  `HandlerTree` the `BM_REMOVE_CHILD_WEAKREF` (`handlerinternaldata.cpp:65-68`), which finds nothing
  to remove after `BM_CHILD_DTOR`.
* A looper that has stopped may still be found by `FindObject` until it is deleted
  (`Found` of `AsyncTasks`); a task that is added to it is dropped.

## Runs

| Run | Instance | Checks |
|---|---|---|
| `calls` | two loopers, one thread, 3 messages, socket of 3 bytes, `recv` of 2 | `NoLostRing`, `NoStrandedSender`, `AwaitedIsPending`, `ImplementsMailbox` |
| `shutdown` | A owns B, a plain thread, 2 messages or quits, one callback, timers on A, socket of one byte, with fairness | `StoppedIsDrained`, `ChildrenFirst`, `AwaitedIsPending`, `ImplementsMailbox`, `SendReturns` |
| `liveness` | A owns B, 2 sends or quits, two callbacks that start or interrupt them, timers on B, socket of one byte, with fairness | `SendReturns`, `QuitCompletes` |
| `timers` | a periodic and a one-shot timer, three wheels of 2, intervals 0, 3 and 6, clock to 9 | `ListedIsMapped`, `NoOverdueTimer`, `ShortSleepIsSafe`, `EarlyByLessThanLag` |
| `handlers` | two handlers, two threads, ids of 2 bits, 2 timers | `OnDestroyOnce`, `NoOrphan`, `DestroyedIsWatched`, `ParentOutlives`, `NoTimerOfDead`, `TimersStayHome`, `TimerIdsUnique`, `HeldIsReachable` |
| `channels` | a client and an accepted channel, a server, a name and an address, 2 calls of `Connect`, callbacks that do not nest | `ConnectsToLatest`, `NoStuckSend`, `NothingLost`, `BatchIsAlive`, `RequestIsPolled` |
| `tasks` | four tasks, one of them started by another | `NoTaskLeft`, `ImplementsSerial`, `OneLooper`, `QuitStops` |
| `wakeup` | two loopers, 3 messages or quits | `SenderValidAtWakeup`, violated |
| `stranded` | two loopers, 3 sends, one socket callback, no timers | `NoStrandedSender`, violated |
| `twice` | a handler, a thread, torn updates | `OnDestroyOnce`, violated |
| `deleted` | a client, an accepted channel, a server, callbacks that nest | `BatchIsAlive`, violated |
| `late_start` | one task | `MainStops`, violated |

Deadlock is not checked: the bounds stop the application, and loopers end.

Why the bounds are enough. Three messages let two loopers send to each other from within a
handler of the other, with a third message in the list while they wait. A socket of three
bytes with a `recv` of two shows partial reads, one of a single byte shows dropped rings. In
`shutdown` a quit can arrive before, during and after a send in either direction and the
owner learns of it before or after its child. In `liveness` callbacks start the sends, so that two
callbacks and two messages are enough for one that interrupts the send of the other and sends
itself: without the premise of `SendReturns` (see Fairness) TLC finds the case of finding 2 in this
very instance. Two spokes per wheel make every carry happen
within four ticks, and the clock reaches a timer of the top wheel. Two handlers are a child and
its parent, or two children of the looper; two threads are one that destroys or adds and one
that drops the last reference. Ids of two bits wrap after three timers. Two calls of `Connect`
let the second replace the first while its name is resolved, or name an address at once. Four
tasks fill the cache of `AsyncTaskLooper` with two while one is executed.

`calls` has no callbacks: with them `NoStrandedSender` does not hold, as `stranded` shows, and
with timer callbacks `NoLostRing` does not either: `getMessage` tests its list, runs timers, then
sleeps; a timer callback that sends runs a nested loop whose `recv` takes several wake-up bytes
at once, and the outer loop goes to sleep with a message in its list, for as long as the next
timer allows. Two more limits of the timer wheel are bounded by the properties that do hold: a
timer set while the wheels are behind the clock is early by that much (`EarlyByLessThanLag`),
and with its next timer on wheel 2 a looper may sleep almost one turn of wheel 0 too long
(`ShortSleepIsSafe` is for the two lower wheels). `channels` has no nested loops in callbacks:
with them, `BatchIsAlive` does not hold, as `deleted` shows. `handlers` has no torn updates, as
when the compiler sets a bit of the byte in one instruction on one processor; `twice` has them.

### Findings

1. `wakeup`: `dispatchMessage` sets `*mDone` and then calls `Wakeup` on a raw pointer to the
   sender, which may be gone by then, against the comment on the call.
2. `stranded`: a socket callback that sends a message consumes, in its nested loop, the
   `BM_NULL` of the send it interrupted. The outer `getMessage` then polls until some other
   message arrives; a timer does not help, since after a time-out it polls again and does not
   return to the test of `done`.
3. `twice`: `mDestroy` and `mDestroyMarkCalled` are bit-fields of one byte; the store of
   `mDestroy` by a thread can take the mark back that home has just set, and `OnDestroy` is
   called again.
4. `deleted`: a socket callback that makes a synchronous call, such as `Connect` to a name,
   runs a nested loop, whose `gc` deletes the channel whose `OnEvent` made the callback, if it was
   closed in the callback or in the nested loop, or a channel of the outer batch. The server is
   safe in `OnAccept`: the channel it has just accepted holds it.
5. `late_start`: an `AsyncTaskLooper` that is created while the main looper quits is destroyed
   by `AddChildHelper` before it runs, which has no effect, and then started: the main looper
   waits for it for ever.

### Fairness

`FairSpec` assumes weak fairness of every thread's own steps (the scheduler runs every
thread; handlers end), of `Timeout` (a finite `epoll_wait` returns) and of `Free` (the
application lets go of loopers that stopped). Application code is under no obligation to
call anything, and callbacks are not fair. `Timeout` is enabled only where the code has a
finite time-out: on loopers with timers and, from `BM_QUIT` on, on every looper, because
of `mTimerCheckQuitLooper`.

`SendReturns` and `QuitCompletes` have the premise that no callback that runs inside the wait of a
send is ever in a send itself (`[]~CallbackSends`). Without it both fail, with timers or without:
finding 2 strands the outer send, and with it the looper that is told to quit. With it callbacks
still interrupt sends and post from there, and callbacks outside of one still send. A plain thread
cannot be stranded in this way, since its TLS looper has no callbacks; `shutdown` has one and checks
`SendReturns` with the callback and the quits that can get in its way.

`Spec` of `AsyncTasks` assumes weak fairness of a caller that is inside `Execute`, of the task
under way (the two synchronous messages are answered and `Run` returns), of the message list
of the `AsyncTaskLooper` and of the ends of both loopers. Nobody has to call `Execute`, and the
main looper need not quit.

## Proofs

`MessageLoopProofs` proves for every set of loopers, threads and TLS loopers, every owner
relation, socket capacity and bound (`ConstantsAssumption` is all that is assumed):

| Theorem | Statement |
|---|---|
| `TypeCorrect` | `Spec => []TypeOK` |
| `StopsDrained` | `Spec => []StoppedIsDrained` |
| `ChildrenGoFirst` | `Spec => []ChildrenFirst` |
| `SendersAreOwed` | `Spec => []AwaitedIsPending` |

`TypeOK` is not inductive: that `Push` appends a message, or that the answer is written to
an id, needs to know what a frame at that `pc` holds. `LInv` adds `Shape`: a message that
asks for an answer is a user message with an id (`GoodMsg`), a frame's fields fit its
`pc` (`FrameOK`), the frame of `Run` is the lowest, and a thread that sends has a TLS
looper. `StoppedIsDrained` is inductive with it, since only a running looper is appended to
and `Run` is the last frame to return. `ChildrenFirst` needs `StoppedIsDrained`, which says
that a looper at the end of `Run` has not stopped before.

`AwaitedIsPending` is strengthened to `Pending`: the message that is waited for does not
only exist somewhere, it asks for an answer there. Otherwise a message that nobody
answers could stand for it. Every action but `Push` follows one argument (`PendingKept`):
nobody begins to wait (`NoNewWait`) and what is owed stays owed until `done` is set
(`StaysOwed`); one lemma per stack operation says when that is so. `Push` is where a wait
begins, with the message in the list. A looper cannot stop while it owes an answer: its list
is empty, and `Run` handles no message.

`WakeupProofs` proves two more, from the same assumption:

| Theorem | Statement |
|---|---|
| `NoRingIsLost` | `Spec => [](Timed = {} \/ callbacks = 0 => NoLostRing)` |
| `NoSenderStranded` | `Spec => [](callbacks = 0 => NoStrandedSender)` |

The conditions are part of the statements and no assumptions: beyond them the properties are
false (finding 2, and timer callbacks that send). `BelowOK` is why they are needed. When a frame
returns, the loop below goes on at its test of `done` after a message, at the list after a socket
callback, and in front of `epoll_wait` after a timer callback; only the first two look at the
list again, and only the first at the flag. `WInv` adds that ids are used once and a message is
from the one that sends it (`IdsFit`), so that whoever sets a done flag is about to wake that
sender up; that a TLS looper is borrowed by one thread (`TlsDistinct`), so that nobody else reads
the byte; and `StoppedIsDrained`, so that `Wakeup` finds the sender's looper running. Every step
is then one of `Moves`: one thread moves and ends where it overlooks nothing (`Lands`), and what
it does concerns nobody else (`Calm`), or it is `Push`, `Ring`, `SetDone`, `Wakeup` or
`WakeupRing`, each of which turns one kind of help for a sleeper into the next.

`MailboxProofs` proves `ImplementsMail`, `Spec => ImplementsMailbox`: all of `Mailbox`, which has
no fairness. The invariant `MInv` adds `FatesFit` to the parts of `WInv`: the history variable
`fate` says where a message is. A message that is about to be pushed is "calling", one that is
"queued" lies in one place of one list, one that is "taken" is run by one frame of one looper, which
has written the answer before it sets `done`, and a done flag is only set for a message that was
"handled". As long as a message that asks for an answer is in a list or taken, its sender is in
`SyncSends`; that nobody waits for one that does not comes from `IdsFit`. Each step is then one of
the mailboxes (`AsStart`, `AsRefuse`, `AsAccept`, `AsTake`, `AsAnswer`, `AsFinish`, `AsGetBack`,
`AsClose`) or none (`AsStutter`): `BeginCall` starts, `Push` accepts or refuses, `Dispatch` takes,
`HandlerReturns` and `OnQuit` finish a posted message, `HandlerReturns` and `SetDone` answer and
finish a sent one, `SendCheck` gives control back, `RunCheck` closes, and the messages without an
id that loopers send to themselves do not show. The box of a looper is defined by a recursive
function (`IdsOf`); what it does to `Append` and `Tail` (`IdsOfPut`, `IdsOfTail`) is shown with the
least position at which it would fail (`Least`), since there is no induction here.

`TimerWheelProofs` proves for every number of wheels from three up, every size of the wheels and
any timers and intervals (`WheelAssumption`):

| Theorem | Statement |
|---|---|
| `WheelInvariant` | `Spec => []Inv` |
| `WheelTypes` | `Spec => []TypeOK` |
| `ListsAreMapped` | `Spec => []ListedIsMapped` |
| `NeverOverdue` | `Spec => []NoOverdueTimer` |
| `EarlyByLag` | `Spec => EarlyByLessThanLag` |
| `ShortSleeps` | `Spec => []ShortSleepIsSafe` |

`NoOverdueTimer` looks at one moment, when the wheels have caught up. `Inv` says what holds in
between: the wheels show `startTick` (`IndexFits`: `index[w]` is the number of turns of wheel `w`
modulo its size), and a node on a spoke will be emptied after `k` turns in all, no later than its
time and, from wheel 0, no earlier than `slack` before it (`NodesFit`). `SetTimer` establishes it
with the choice of wheel and spoke, `DetectList` keeps it: a turn of wheel 0 empties the spoke
that is due, and the cascade puts every node of a higher spoke on a lower wheel, stage by stage
(`Staged`). `GetMinIdleTime` is bounded by the first spoke that is not empty on the two lower
wheels. `Unit` and the cascade are recursive functions; that they have values, and what they
are, follows from the well-foundedness of the natural numbers (`LeastNat`), since the library's
induction rules cannot be instantiated.

`HandlerTreeProofs` proves for any handlers, threads and widths of ids, when stores to the flags
are not torn (`TornUpdates = FALSE`; finding 3 is the other case):

| Theorem | Statement |
|---|---|
| `TreeInvariant` | `Spec => []Inv` |
| `Types` | `Spec => []TypeOK` |
| `DestroysOnce` | `Spec => []OnDestroyOnce` |
| `OrphansNever` | `Spec => []NoOrphan` |
| `WatchesDestroyed` | `Spec => []DestroyedIsWatched` |
| `ParentsOutlive` | `Spec => []ParentOutlives` |
| `DeadHaveNoTimers` | `Spec => []NoTimerOfDead` |
| `OnlyHomeRemovesTimers` | `Spec => []TimersStayHome` |
| `IdsAreUnique` | `Spec => []TimerIdsUnique` |
| `LooperOutlives` | `Spec => []HeldIsReachable` |

`Inv` relates what each thread knows. `RefsAlive` is the meaning of `shared_ptr`: who is referred
to by a message, a thread, `mSelfRef` or `mDestroyedHandlers` is alive. `CreatedInTree` ties the
flags to the tree: who was created has a parent that knows it, and `mSelfRef` until `OnDestroy`.
`MessagesFit` and `ThreadsFit` give each thread at most one synchronous call and each destructor
one thread; `GcFits` says what `gc` holds between its three steps; `IdsFit` that before the
counter wraps the ids in use are those up to the last one, which is why `NextTimerId` need not
search. The looper stops when its children are gone; that no handler is left then needs that the
tree has no cycle (`Rooted`): a handler of least rank would be a child of the looper.
`TimerIdsUnique` claims that no id is 0 only before the counter has wrapped: afterwards
`NextTimerId` can return 0 (`handlerinternaldata.cpp:109`).

`TcpClientProofs` proves for any clients, accepted channels, names, addresses and number of calls:

| Theorem | Statement |
|---|---|
| `ChannelInvariant` | `Spec => []Inv` |
| `ChannelTypes` | `Spec => []TypeOK` |
| `RequestsArePolled` | `Spec => []RequestIsPolled` |
| `LatestWins` | `Spec => []ConnectsToLatest` |
| `SendsGoOn` | `Spec => []NoStuckSend` |
| `BatchInvariant` | `Spec => []BatchInv`, if `Nesting = FALSE` |
| `BatchesAreAlive` | `Spec => []BatchIsAlive`, if `Nesting = FALSE` |
| `AllIsReceived` | `Spec => []NothingLost`, if `Nesting = FALSE` |

The first five hold with nested loops too. `TypeOK` bounds the number of loops, which is no local
fact: `NestFits` maps each nested loop to a call of `Connect` of its own, injectively. `DnsFits`
says that the worker runs only while it is polled for and that an address in flight belongs to
the name it was asked for, from which `ConnectsToLatest` follows although answers come late.
`NoStuckSend` needs that nothing is pending before the first event, which turns `EPOLLOUT` off
(`SendFits`, `FirstFits`). `BatchInv` is about events in flight: a channel in a batch has been
accepted or connected and not been deleted, since `gc` runs only when the loop is idle, and a
hang-up that is reported without data means that none is left. Both need that outer loops are idle
(`OuterIdle`), which is what nested loops in callbacks break (finding 4).

`AsyncTasksProofs` proves for every finite set of tasks (`TasksAssumption`):

| Theorem | Statement |
|---|---|
| `TypeCorrect` | `Spec => []TypeOK` |
| `NothingLeft` | `Spec => []NoTaskLeft` |
| `OneAtATime` | `Spec => OneLooper` |
| `ImplementsSerialSafely` | `Spec => Serial!Init /\ [][Serial!Next]_(Serial!vars)` |

The inductive invariant `Inv` adds to `TypeOK` that `DoTask` does not nest and tasks wait in
`mTasks` only while it runs (`OneTask`), that a looper which does not run has an empty list
and an empty stack, that a task which was added is in the list, in `mTasks`, under way or
executed (`Taken`), and that there are no more loopers than callers that were served, which
bounds `gen`. `NoTaskLeft` is then what remains of `Taken` when list, `mTasks` and stack are
empty. The refinement needs `OneTask`: with two frames on the stack the return of `DoTask`
would finish another task than `current`. Its steps are facts about sequences: `AddTask`
appends to the whole queue `mTasks \o box` (`AppendToConcat`), `BM_ADD_TASK` during a task
moves the head of `box` to the end of `mTasks` and leaves the queue as it is (`MoveHead`),
and the task that `OnMessage` goes on with is the head of the queue (`HeadOfConcat`).

Only model-checked: liveness (`SendReturns`, `QuitCompletes`, `QuitStops` and the fairness of
`ImplementsSerial`), which is out of the prover's reach. The five violated properties have counterexamples and no theorems.

## Not modelled

Windows and Android platforms, the profiler, `core2`, protocols, files and logging, the
companion libraries and vendored code; see `components` in `PROJECT.json` for each. Of the
modelled components: TLS and UDP channels, `cancelRunnable`, `CancelRequest` of the resolver
(no caller), the creation of the `DnsLooper`, handlers that are not passive, and lookups by
name. Failures of `epoll_create`, `socketpair` or of starting a thread are only logged by the
code and are left out.

## Plan

1. Done: `MessageLoop`, `Mailbox`, `TimerWheel`, `HandlerTree`, `DnsLooper`, `TcpClient`,
   `AsyncTasks`, `SerialExecutor`, their runs, and a theorem for every invariant and action
   property that a run checks and no run refutes, and for both refinements (that of
   `SerialExecutor` without its fairness).
2. `Runnables`: cancelling over message list and timers. The framing of the text protocol.
