---------------------------- MODULE WakeupProofs ----------------------------
(***************************************************************************)
(* Theorems about the wake-ups of MessageLoop: no ring is lost as long as  *)
(* no timer callback runs, and no sender is left in epoll_wait as long as  *)
(* no callback does.  Any loopers, threads, TLS loopers, owner relation,   *)
(* sizes of the socket pair and number of messages.                        *)
(***************************************************************************)
EXTENDS MessageLoopProofs

-----------------------------------------------------------------------------
(* The inductive invariant *)

\* A frame in its own code, or that answers, has no call under way, and Run makes none.
InCall == InLoop \cup {"push", "ring"}
FrameTidy(f) ==
  /\ f.pc \notin InCall => f.id = 0 /\ f.op = "none"
  /\ f.cb = "run" => f.op = "none" /\ f.pc \in InLoop
Tidy == \A a \in Actors : \A k \in 1..top[a] : FrameTidy(frame[a][k])

\* Where the loops below the top frame of a looper go on.
Below(S) == \A l \in Loopers : \A k \in 1..top[l] : k < top[l] => frame[l][k].pc \in S

\* The k-th frame of a is in the call with id i: which it sends, which it has yet to push.
Calls(a, k, i)  == k \in 1..top[a] /\ frame[a][k].id = i
Sends(a, k, i)  == Calls(a, k, i) /\ frame[a][k].op = "send"
Pushes(a, k, i) == Calls(a, k, i) /\ frame[a][k].pc = "push"

Senders == Loopers \cup TlsLoopers \cup {None}

\* There is a message i, in a list or in a handler, that s waits for.
InList(i, s)    == \E l \in Loopers : \E j \in 1..Len(queue[l]) : queue[l][j].id = i /\ queue[l][j].from = s
InHandler(i, s) == \E l \in Loopers : \E k \in 1..top[l] : frame[l][k].msg.id = i /\ frame[l][k].msg.from = s
Exists(i, s)    == InList(i, s) \/ InHandler(i, s)

\* Ids are used once, and whoever sends a message is the one it says it is from.
IdFits(i) ==
  /\ i >= nextId => /\ \A a \in Actors, k \in 1..MaxDepth : ~Calls(a, k, i)
                    /\ i \notin done /\ \A s \in Senders : ~Exists(i, s)
  /\ \A a, b \in Actors : \A k, j \in 1..MaxDepth : Calls(a, k, i) /\ Calls(b, j, i) => a = b /\ k = j
  /\ \A a \in Actors, k \in 1..MaxDepth :
       /\ Pushes(a, k, i) => i \notin done /\ \A s \in Senders : ~Exists(i, s)
       /\ Sends(a, k, i) => \A s \in Senders : Exists(i, s) => s = SleepsOn(a)
IdsFit == \A i \in MsgIds : IdFits(i)

\* A TLS looper is borrowed by one thread at a time.
TlsDistinct == \A t, u \in Threads : tls[t] = tls[u] /\ tls[t] # None => t = u

WInv == LInv /\ StoppedIsDrained /\ Tidy /\ IdsFit /\ TlsDistinct

-----------------------------------------------------------------------------
(* What a step does to the stacks *)

\* The top frame of a is replaced by f; a returns; a calls f and goes on at pc.
Replaced(a, f) ==
  \A b \in Actors :
    /\ top'[b] = top[b]
    /\ \A k \in 1..MaxDepth : frame'[b][k] = IF b = a /\ k = top[a] THEN f ELSE frame[b][k]
Popped(a) ==
  \A b \in Actors :
    /\ top'[b] = IF b = a THEN top[a] - 1 ELSE top[b]
    /\ \A k \in 1..MaxDepth : frame'[b][k] = IF b = a /\ k = top[a] THEN NoFrame ELSE frame[b][k]
Stacked(a, pc, f) ==
  \A b \in Actors :
    /\ top'[b] = IF b = a THEN top[a] + 1 ELSE top[b]
    /\ \A k \in 1..MaxDepth : frame'[b][k] = IF b = a /\ k = top[a] THEN [Top(a) EXCEPT !.pc = pc]
                                             ELSE IF b = a /\ k = top[a] + 1 THEN f ELSE frame[b][k]

\* Becomes, Return and Call do.
LEMMA Effects ==
  ASSUME LInv, NEW a \in Actors, top[a] > 0
  PROVE  /\ \A f : Becomes(a, f) /\ top' = top => Replaced(a, f)
         /\ Return(a) => Popped(a)
         /\ \A f \in GoodFrame, pc \in InLoop : Call(a, pc, f) => Stacked(a, pc, f) /\ top[a] < MaxDepth
  <1>1. ASSUME NEW f, Becomes(a, f), top' = top PROVE Replaced(a, f)
    <2>1. frame \in [Actors -> [1..MaxDepth -> GoodFrame]] /\ top[a] \in 1..MaxDepth
      BY TopType DEF LInv, Shape, Stacks
    <2> QED BY <1>1, <2>1 DEF Becomes, Replaced
  <1>2. Return(a) => Popped(a)
    BY ReturnFrame DEF Popped
  <1>3. ASSUME NEW f \in GoodFrame, NEW pc \in InLoop, Call(a, pc, f)
        PROVE  Stacked(a, pc, f) /\ top[a] < MaxDepth
    BY <1>3, CallFrame DEF Stacked
  <1> QED BY <1>1, <1>2, <1>3

\* The fields of a frame that goes elsewhere.
LEMMA GotoFields ==
  ASSUME LInv, NEW a \in Actors, top[a] > 0, NEW pc
  PROVE  /\ [Top(a) EXCEPT !.pc = pc].pc = pc
         /\ [Top(a) EXCEPT !.pc = pc].id = Top(a).id
         /\ [Top(a) EXCEPT !.pc = pc].op = Top(a).op
         /\ [Top(a) EXCEPT !.pc = pc].cb = Top(a).cb
         /\ [Top(a) EXCEPT !.pc = pc].msg = Top(a).msg
         /\ [Top(a) EXCEPT !.pc = pc].dst = Top(a).dst
  BY TopType DEF GoodFrame, Frame

\* The fields of a frame whose call is over.
LEMMA EndFields ==
  ASSUME LInv, NEW a \in Actors, top[a] > 0
  PROVE  /\ EndOfCall(Top(a)).pc = "body" /\ EndOfCall(Top(a)).id = 0
         /\ EndOfCall(Top(a)).op = "none" /\ EndOfCall(Top(a)).cb = Top(a).cb
         /\ EndOfCall(Top(a)).msg = Top(a).msg
  BY TopType DEF GoodFrame, Frame, EndOfCall

-----------------------------------------------------------------------------
(* Ids *)

\* No call, send, push or message is new.
QuietFrames ==
  \A a \in Actors, k \in 1..MaxDepth, i \in MsgIds :
    /\ Calls(a, k, i)' => Calls(a, k, i)
    /\ Sends(a, k, i)' => Sends(a, k, i)
    /\ Pushes(a, k, i)' => Pushes(a, k, i)
QuietHandlers == \A i \in MsgIds, s \in Senders : InHandler(i, s)' => InHandler(i, s)
QuietLists == \A i \in MsgIds, s \in Senders : InList(i, s)' => InList(i, s)
SleepsKept ==
  \A a \in Actors, k \in 1..MaxDepth, i \in MsgIds : Sends(a, k, i)' => SleepsOn(a)' = SleepsOn(a)

\* Then ids stay as they are.
LEMMA QuietIds ==
  ASSUME IdsFit, QuietFrames, SleepsKept, nextId' = nextId,
         \A i \in MsgIds, s \in Senders : Exists(i, s)' => Exists(i, s),
         \A i \in MsgIds : i \in done' => i \in done \/ \E s \in Senders : Exists(i, s)
  PROVE  IdsFit'
  <1>1. SUFFICES ASSUME NEW i \in MsgIds PROVE IdFits(i)'
    BY DEF IdsFit
  <1>2. IdFits(i)
    BY DEF IdsFit
  <1>3. (i >= nextId => /\ \A a \in Actors, k \in 1..MaxDepth : ~Calls(a, k, i)
                        /\ i \notin done /\ \A s \in Senders : ~Exists(i, s))'
    BY <1>2 DEF IdFits, QuietFrames
  <1>4. (\A a, b \in Actors : \A k, j \in 1..MaxDepth : Calls(a, k, i) /\ Calls(b, j, i) => a = b /\ k = j)'
    BY <1>2 DEF IdFits, QuietFrames
  <1>5. ASSUME NEW a \in Actors, NEW k \in 1..MaxDepth
        PROVE  /\ Pushes(a, k, i)' => i \notin done' /\ \A s \in Senders : ~Exists(i, s)'
               /\ Sends(a, k, i)' => \A s \in Senders : Exists(i, s)' => s = SleepsOn(a)'
    <2>1. Pushes(a, k, i) => i \notin done /\ \A s \in Senders : ~Exists(i, s)
      BY <1>2 DEF IdFits
    <2>2. Sends(a, k, i) => \A s \in Senders : Exists(i, s) => s = SleepsOn(a)
      BY <1>2 DEF IdFits
    <2>3. Pushes(a, k, i)' => Pushes(a, k, i)
      BY DEF QuietFrames
    <2>4. Sends(a, k, i)' => Sends(a, k, i) /\ SleepsOn(a)' = SleepsOn(a)
      BY DEF QuietFrames, SleepsKept
    <2> QED BY <2>1, <2>2, <2>3, <2>4
  <1> QED BY <1>3, <1>4, <1>5 DEF IdFits

\* A frame that is replaced.
LEMMA ReplacedQuiet ==
  ASSUME LInv, NEW a \in Actors, top[a] > 0, NEW f, Replaced(a, f),
         f.id = Top(a).id \/ f.id = 0,
         f.op = "send" => Top(a).op = "send",
         f.pc = "push" => f.id = 0 \/ Top(a).pc = "push",
         f.msg = Top(a).msg
  PROVE  QuietFrames /\ QuietHandlers
  <1>1. top[a] \in 1..MaxDepth /\ Top(a) = frame[a][top[a]]
    BY TopType
  <1>2. \A i \in MsgIds : i # 0
    BY ConstantsAssumption DEF MsgIds
  <1>3. QuietFrames
    BY <1>1, <1>2 DEF QuietFrames, Calls, Sends, Pushes, Replaced
  <1>4. \A l \in Loopers : \A k \in 1..top[l] : top'[l] = top[l] /\ frame'[l][k].msg = frame[l][k].msg
    <2>1. SUFFICES ASSUME NEW l \in Loopers, NEW k \in 1..top[l]
                   PROVE  top'[l] = top[l] /\ frame'[l][k].msg = frame[l][k].msg
      OBVIOUS
    <2>2. l \in Actors /\ k \in 1..MaxDepth
      BY DepthType DEF LInv, TypeOK, Actors
    <2> QED BY <1>1, <2>2 DEF Replaced
  <1>5. QuietHandlers
    <2>1. \A l \in Loopers : l \in Actors /\ top'[l] = top[l]
      BY DEF Replaced, Actors
    <2> QED BY <1>4, <2>1 DEF QuietHandlers, InHandler
  <1> QED BY <1>3, <1>5

\* A frame that returns.
LEMMA PoppedQuiet ==
  ASSUME LInv, NEW a \in Actors, top[a] > 0, Popped(a)
  PROVE  QuietFrames /\ QuietHandlers
  <1>1. \A b \in Actors : \A k \in 1..top'[b] : k \in 1..top[b] /\ k \in 1..MaxDepth /\ frame'[b][k] = frame[b][k]
    <2>1. \A b \in Actors : top[b] \in 0..MaxDepth
      BY DEF LInv, TypeOK
    <2> QED BY <2>1, DepthType DEF Popped
  <1>2. QuietFrames
    BY <1>1 DEF QuietFrames, Calls, Sends, Pushes
  <1>3. QuietHandlers
    BY <1>1 DEF QuietHandlers, InHandler, Actors
  <1> QED BY <1>2, <1>3

\* A frame that is called.
LEMMA StackedQuiet ==
  ASSUME LInv, NEW a \in Actors, top[a] > 0, NEW pc \in InLoop, NEW f, Stacked(a, pc, f), f.id = 0,
         top[a] < MaxDepth
  PROVE  /\ QuietFrames
         /\ \A i \in MsgIds, s \in Senders :
              InHandler(i, s)' => InHandler(i, s) \/ (f.msg.id = i /\ f.msg.from = s)
  <1>1. top[a] \in 1..MaxDepth /\ Top(a) = frame[a][top[a]]
    BY TopType
  <1>2. \A i \in MsgIds : i # 0
    BY ConstantsAssumption DEF MsgIds
  <1> DEFINE g == [Top(a) EXCEPT !.pc = pc]
  <1>3. g.pc = pc /\ pc # "push" /\ g.id = Top(a).id /\ g.op = Top(a).op /\ g.msg = Top(a).msg
    BY GotoFields DEF InLoop
  <1> HIDE DEF g
  <1>4. \A b \in Actors : \A k \in 1..MaxDepth :
          /\ top[b] \in 0..MaxDepth
          /\ k \in 1..top'[b] => \/ b = a /\ k = top[a] + 1 /\ frame'[b][k] = f
                                 \/ b = a /\ k = top[a] /\ k \in 1..top[b] /\ frame'[b][k] = g
                                 \/ k \in 1..top[b] /\ frame'[b][k] = frame[b][k]
    <2>1. \A b \in Actors : top[b] \in 0..MaxDepth
      BY DEF LInv, TypeOK
    <2> QED BY <1>1, <2>1, DepthType DEF Stacked, g
  <1>5. QuietFrames
    BY <1>1, <1>2, <1>3, <1>4 DEF QuietFrames, Calls, Sends, Pushes
  <1>6. ASSUME NEW i \in MsgIds, NEW s \in Senders, InHandler(i, s)'
        PROVE  InHandler(i, s) \/ (f.msg.id = i /\ f.msg.from = s)
    <2>1. PICK l \in Loopers : \E k \in 1..top'[l] : frame'[l][k].msg.id = i /\ frame'[l][k].msg.from = s
      BY <1>6 DEF InHandler
    <2>2. PICK k \in 1..top'[l] : frame'[l][k].msg.id = i /\ frame'[l][k].msg.from = s
      BY <2>1
    <2>3. l \in Actors /\ k \in 1..MaxDepth
      <3>1. l \in Actors /\ top[l] \in 0..MaxDepth
        BY DEF Actors, LInv, TypeOK
      <3> QED BY <1>1, <2>2, <3>1, DepthType DEF Stacked
    <2>4. \/ k \in 1..top[l] /\ frame'[l][k].msg = frame[l][k].msg
          \/ frame'[l][k] = f
      BY <1>1, <1>3, <1>4, <2>2, <2>3
    <2> QED BY <2>2, <2>4 DEF InHandler
  <1> QED BY <1>5, <1>6

\* A call ends, and with it the loan of a TLS looper.
LEMMA EndIds ==
  ASSUME LInv, IdsFit, NEW a \in Actors, top[a] > 0, Becomes(a, EndOfCall(Top(a))),
         UNCHANGED <<top, queue, done, nextId>>, tls' = tls \/ DropTls(a)
  PROVE  IdsFit'
  <1> DEFINE f == EndOfCall(Top(a))
  <1>1. Replaced(a, f)
    BY Effects
  <1>2. f.pc = "body" /\ f.id = 0 /\ f.op = "none" /\ f.msg = Top(a).msg
    BY EndFields
  <1> HIDE DEF f
  <1>3. QuietFrames /\ QuietHandlers
    BY <1>1, <1>2, ReplacedQuiet
  <1>4. SleepsKept
    <2>1. SUFFICES ASSUME NEW b \in Actors, NEW k \in 1..MaxDepth, NEW i \in MsgIds, Sends(b, k, i)'
                   PROVE  SleepsOn(b)' = SleepsOn(b)
      BY DEF SleepsKept
    <2>2. CASE b \notin Threads \/ tls' = tls
      BY <2>2 DEF SleepsOn
    <2>3. CASE b \in Threads /\ b # a /\ DropTls(a)
      BY <2>3 DEF SleepsOn, DropTls, LInv, TypeOK
    <2>4. CASE b \in Threads /\ b = a
      <3>1. top[a] = 1 /\ top'[a] = 1 /\ frame'[a][1] = f
        BY <1>1, <2>4, DepthType DEF LInv, Shape, Replaced
      <3>2. k = 1
        BY <2>1, <2>4, <3>1 DEF Sends, Calls
      <3> QED BY <1>2, <2>1, <2>4, <3>1, <3>2 DEF Sends
    <2> QED BY <2>2, <2>3, <2>4
  <1>5. \A i \in MsgIds, s \in Senders : Exists(i, s)' => Exists(i, s)
    BY <1>3 DEF Exists, QuietHandlers, InList
  <1> QED BY <1>3, <1>4, <1>5, QuietIds

\* A frame goes elsewhere, and may set a done flag.
LEMMA GotoIds ==
  ASSUME LInv, IdsFit, NEW a \in Actors, top[a] > 0, NEW pc, pc # "push", Goto(a, pc),
         UNCHANGED <<top, nextId, tls>>, QuietLists,
         \A i \in MsgIds : i \in done' => i \in done \/ \E s \in Senders : Exists(i, s)
  PROVE  IdsFit'
  <1> DEFINE f == [Top(a) EXCEPT !.pc = pc]
  <1>1. Replaced(a, f)
    BY Effects DEF Goto
  <1>2. f.pc # "push" /\ f.id = Top(a).id /\ f.op = Top(a).op /\ f.msg = Top(a).msg
    BY GotoFields
  <1> HIDE DEF f
  <1>3. QuietFrames /\ QuietHandlers
    BY <1>1, <1>2, ReplacedQuiet
  <1>4. SleepsKept
    BY DEF SleepsKept, SleepsOn
  <1>5. \A i \in MsgIds, s \in Senders : Exists(i, s)' => Exists(i, s)
    BY <1>3 DEF Exists, QuietHandlers, QuietLists
  <1> QED BY <1>3, <1>4, <1>5, QuietIds

\* A frame returns.
LEMMA ReturnIds ==
  ASSUME LInv, IdsFit, NEW a \in Actors, top[a] > 0, Return(a),
         UNCHANGED <<nextId, tls, done>>, QuietLists
  PROVE  IdsFit'
  <1>1. QuietFrames /\ QuietHandlers
    BY Effects, PoppedQuiet
  <1>2. SleepsKept
    BY DEF SleepsKept, SleepsOn
  <1>3. \A i \in MsgIds, s \in Senders : Exists(i, s)' => Exists(i, s)
    BY <1>1 DEF Exists, QuietHandlers, QuietLists
  <1> QED BY <1>1, <1>2, <1>3, QuietIds

\* A handler is called: for the first message of the list, or for none.
LEMMA CallIds ==
  ASSUME LInv, IdsFit, NEW a \in Actors, top[a] > 0, NEW pc \in InLoop, NEW f \in GoodFrame,
         Call(a, pc, f), f.id = 0, UNCHANGED <<nextId, tls, done>>, QuietLists,
         \A i \in MsgIds, s \in Senders : f.msg.id = i /\ f.msg.from = s => InList(i, s)
  PROVE  IdsFit'
  <1>1. Stacked(a, pc, f) /\ top[a] < MaxDepth
    BY Effects
  <1>2. /\ QuietFrames
        /\ \A i \in MsgIds, s \in Senders :
              InHandler(i, s)' => InHandler(i, s) \/ (f.msg.id = i /\ f.msg.from = s)
    BY <1>1, StackedQuiet
  <1>3. SleepsKept
    BY DEF SleepsKept, SleepsOn
  <1>4. \A i \in MsgIds, s \in Senders : Exists(i, s)' => Exists(i, s)
    BY <1>2 DEF Exists, QuietLists
  <1> QED BY <1>2, <1>3, <1>4, QuietIds

\* What is put in a list.
LEMMA PutList ==
  ASSUME LInv, NEW d \in Loopers, NEW m, queue' = [queue EXCEPT ![d] = Put(queue[d], m)]
  PROVE  \A i, s : InList(i, s)' => InList(i, s) \/ (m.id = i /\ m.from = s)
  <1>1. queue \in [Loopers -> Seq(GoodMsg)]
    BY DEF LInv, Shape
  <1>2. \A l \in Loopers : queue'[l] = IF l = d THEN Append(queue[l], m) ELSE queue[l]
    BY <1>1 DEF Put
  <1>3. /\ Len(Append(queue[d], m)) = Len(queue[d]) + 1 /\ Len(queue[d]) \in Nat
        /\ \A j \in 1..(Len(queue[d]) + 1) :
             Append(queue[d], m)[j] = IF j = Len(queue[d]) + 1 THEN m ELSE queue[d][j]
    BY <1>1
  <1>4. ASSUME NEW l \in Loopers, NEW j \in 1..Len(queue'[l])
        PROVE  queue'[l][j] = m \/ (j \in 1..Len(queue[l]) /\ queue'[l][j] = queue[l][j])
    <2>1. CASE l # d
      BY <1>2, <1>4, <2>1
    <2>2. CASE l = d
      <3>1. queue'[l] = Append(queue[d], m) /\ Len(queue'[l]) = Len(queue[d]) + 1
        BY <1>2, <1>3, <2>2
      <3>2. j \in 1..(Len(queue[d]) + 1)
        BY <1>4, <3>1
      <3>3. queue'[l][j] = IF j = Len(queue[d]) + 1 THEN m ELSE queue[d][j]
        BY <1>3, <3>1, <3>2
      <3>4. j # Len(queue[d]) + 1 => j \in 1..Len(queue[d])
        BY <1>3, <3>2
      <3> QED BY <2>2, <3>3, <3>4
    <2> QED BY <2>1, <2>2
  <1> QED BY <1>4 DEF InList

\* A message without an id is no message here.
LEMMA PutNull ==
  ASSUME LInv, NEW d \in Loopers, NEW kind, queue' = [queue EXCEPT ![d] = Put(queue[d], Posted(kind, 0))]
  PROVE  QuietLists
  <1> DEFINE m == Posted(kind, 0)
  <1>1. m.id = 0
    BY DEF Posted
  <1>2. \A i \in MsgIds : i # 0
    BY ConstantsAssumption DEF MsgIds
  <1>3. queue' = [queue EXCEPT ![d] = Put(queue[d], m)]
    OBVIOUS
  <1> HIDE DEF m
  <1>4. \A i, s : InList(i, s)' => InList(i, s) \/ (m.id = i /\ m.from = s)
    BY <1>3, PutList
  <1> QED BY <1>1, <1>2, <1>4 DEF QuietLists

\* The locked part of a call.
LEMMA PushIds ==
  ASSUME LInv, IdsFit, NEW a \in Actors, Push(a)
  PROVE  IdsFit'
  <1>0. top[a] > 0 /\ Top(a).pc = "push" /\ UNCHANGED <<top, done, nextId>>
    BY DEF Push, At
  <1>1. CASE ~Accepts(Top(a).dst)
    BY <1>0, <1>1, EndIds DEF Push
  <1>2. CASE Accepts(Top(a).dst)
    <2> DEFINE f == [Top(a) EXCEPT !.pc = "ring"]
               d == Top(a).dst
               m == PushedMsg(a)
               k0 == top[a]
    <2>1. /\ queue' = [queue EXCEPT ![d] = Put(queue[d], m)] /\ Goto(a, "ring") /\ tls' = tls
      BY <1>2 DEF Push, PushedMsg
    <2>2. d \in Loopers /\ k0 \in 1..MaxDepth /\ Top(a) = frame[a][k0]
      BY <1>0, TopType DEF GoodFrame, FrameOK
    <2>3. m.id = Top(a).id /\ (Top(a).op = "send" => m.from = SleepsOn(a))
      BY DEF PushedMsg
    <2>4. Replaced(a, f)
      BY <1>0, <2>1, Effects DEF Goto
    <2>5. f.pc = "ring" /\ f.id = Top(a).id /\ f.op = Top(a).op /\ f.msg = Top(a).msg
      BY <1>0, GotoFields
    <2> HIDE DEF m, d, f
    <2>6. QuietFrames /\ QuietHandlers
      BY <1>0, <2>4, <2>5, ReplacedQuiet
    <2>7. \A i \in MsgIds, s \in Senders : Exists(i, s)' => Exists(i, s) \/ (m.id = i /\ m.from = s)
      BY <2>1, <2>2, <2>6, PutList DEF Exists, QuietHandlers
    <2>8. \A b \in Actors : SleepsOn(b)' = SleepsOn(b)
      BY <2>1 DEF SleepsOn
    <2>9. ASSUME NEW i \in MsgIds PROVE IdFits(i)'
      <3>1. IdFits(i)
        BY DEF IdsFit
      <3>2. CASE i # m.id
        <4>1. \A s \in Senders : Exists(i, s)' => Exists(i, s)
          BY <2>7, <3>2
        <4>2. (i >= nextId => /\ \A b \in Actors, k \in 1..MaxDepth : ~Calls(b, k, i)
                              /\ i \notin done /\ \A s \in Senders : ~Exists(i, s))'
          BY <1>0, <2>6, <3>1, <4>1 DEF IdFits, QuietFrames
        <4>3. (\A b, c \in Actors : \A k, j \in 1..MaxDepth : Calls(b, k, i) /\ Calls(c, j, i) => b = c /\ k = j)'
          BY <2>6, <3>1 DEF IdFits, QuietFrames
        <4>4. ASSUME NEW b \in Actors, NEW k \in 1..MaxDepth
              PROVE  /\ Pushes(b, k, i)' => i \notin done' /\ \A s \in Senders : ~Exists(i, s)'
                     /\ Sends(b, k, i)' => \A s \in Senders : Exists(i, s)' => s = SleepsOn(b)'
          BY <1>0, <2>6, <2>8, <3>1, <4>1 DEF IdFits, QuietFrames
        <4> QED BY <4>2, <4>3, <4>4 DEF IdFits
      <3>3. CASE i = m.id
        <4>1. Calls(a, k0, i) /\ Pushes(a, k0, i) /\ k0 \in 1..k0
          BY <1>0, <2>2, <2>3, <3>3 DEF Calls, Pushes
        <4>2. /\ i \notin done /\ \A s \in Senders : ~Exists(i, s)
              /\ \A b \in Actors, k \in 1..MaxDepth : Calls(b, k, i) => b = a /\ k = k0
              /\ ~(i >= nextId)
          BY <2>2, <3>1, <4>1 DEF IdFits
        <4>3. \A b \in Actors, k \in 1..MaxDepth : Calls(b, k, i)' => b = a /\ k = k0
          BY <2>6, <4>2 DEF QuietFrames
        <4>4. \A k \in 1..MaxDepth : k = k0 => ~Pushes(a, k, i)'
          BY <2>2, <2>4, <2>5 DEF Pushes, Replaced
        <4>5. ASSUME NEW b \in Actors, NEW k \in 1..MaxDepth
              PROVE  /\ ~Pushes(b, k, i)'
                     /\ Sends(b, k, i)' => \A s \in Senders : Exists(i, s)' => s = SleepsOn(b)'
          <5>1. Pushes(b, k, i)' => Calls(b, k, i)'
            BY DEF Pushes
          <5>2. Sends(b, k, i)' => Calls(b, k, i)' /\ Sends(b, k, i)
            BY <2>6 DEF Sends, QuietFrames
          <5>3. Sends(a, k0, i) => m.from = SleepsOn(a)
            BY <2>2, <2>3 DEF Sends
          <5>4. ~Pushes(b, k, i)'
            <6>1. SUFFICES ASSUME Pushes(b, k, i)' PROVE FALSE
              OBVIOUS
            <6>2. b = a /\ k = k0
              BY <4>3, <5>1, <6>1
            <6> QED BY <4>4, <6>1, <6>2
          <5>5. ASSUME Sends(b, k, i)', NEW s \in Senders, Exists(i, s)' PROVE s = SleepsOn(b)'
            <6>1. b = a /\ k = k0
              BY <4>3, <5>2, <5>5
            <6>2. m.from = SleepsOn(a)
              BY <5>2, <5>3, <5>5, <6>1
            <6>3. m.from = s
              BY <2>7, <4>2, <5>5
            <6> QED BY <2>8, <6>1, <6>2, <6>3
          <5> QED BY <5>4, <5>5
        <4> QED BY <1>0, <4>2, <4>3, <4>5 DEF IdFits
      <3> QED BY <3>2, <3>3
    <2> QED BY <2>9 DEF IdsFit
  <1> QED BY <1>1, <1>2

\* A call begins: its id is new.
LEMMA BeginIds ==
  ASSUME LInv, IdsFit, NEW a \in Actors, NEW op \in {"post", "send"}, NEW kind \in {"user", "quit"},
         NEW dst \in Loopers, op = "send" => kind = "user", BeginCall(a, op, kind, dst),
         \A b \in Actors : b # a => SleepsOn(b)' = SleepsOn(b)
  PROVE  IdsFit'
  <1> DEFINE f == [Top(a) EXCEPT !.pc = "push", !.op = op, !.kind = kind, !.dst = dst, !.id = nextId]
  <1>0. /\ top[a] > 0 /\ Becomes(a, f) /\ UNCHANGED <<top, queue, done>> /\ nextId' = nextId + 1
        /\ nextId <= MaxMsg
    BY DEF BeginCall, At
  <1>1. nextId \in MsgIds /\ nextId \in Nat /\ \A i \in MsgIds : i \in Nat
    BY <1>0, ConstantsAssumption DEF LInv, TypeOK, MsgIds
  <1>2. f.id = nextId /\ f.msg = Top(a).msg
    BY <1>0, TopType DEF GoodFrame, Frame
  <1>3. Replaced(a, f)
    BY <1>0, Effects
  <1> HIDE DEF f
  <1>4. top[a] \in 1..MaxDepth /\ Top(a) = frame[a][top[a]]
    BY <1>0, TopType
  <1>5. ASSUME NEW b \in Actors, NEW k \in 1..MaxDepth, NEW i \in MsgIds
        PROVE  /\ Calls(b, k, i)' => IF b = a /\ k = top[a] THEN i = nextId ELSE Calls(b, k, i)
               /\ Sends(b, k, i)' => IF b = a /\ k = top[a] THEN i = nextId ELSE Sends(b, k, i)
               /\ Pushes(b, k, i)' => IF b = a /\ k = top[a] THEN i = nextId ELSE Pushes(b, k, i)
    BY <1>2, <1>3 DEF Calls, Sends, Pushes, Replaced
  <1>6. \A i \in MsgIds, s \in Senders : Exists(i, s)' => Exists(i, s)
    <2>1. \A l \in Loopers : l \in Actors /\ top'[l] = top[l] /\ top[l] \in 0..MaxDepth
      BY <1>0 DEF Actors, LInv, TypeOK
    <2>2. ASSUME NEW l \in Loopers, NEW k \in 1..top[l] PROVE frame'[l][k].msg = frame[l][k].msg
      <3>1. k \in 1..MaxDepth /\ l \in Actors
        BY <2>1, DepthType
      <3> QED BY <1>2, <1>3, <1>4, <3>1 DEF Replaced
    <2>3. \A i, s : InHandler(i, s)' => InHandler(i, s)
      BY <2>1, <2>2 DEF InHandler
    <2>4. \A i, s : InList(i, s)' => InList(i, s)
      BY <1>0 DEF InList
    <2> QED BY <2>3, <2>4 DEF Exists
  <1>7. ASSUME NEW i \in MsgIds PROVE IdFits(i)'
    <2>1. IdFits(i)
      BY DEF IdsFit
    <2>2. CASE i = nextId
      <3>1. /\ \A b \in Actors, k \in 1..MaxDepth : ~Calls(b, k, i)
            /\ i \notin done /\ \A s \in Senders : ~Exists(i, s)
        BY <1>1, <2>1, <2>2 DEF IdFits
      <3>2. ~(i >= nextId')
        BY <1>0, <1>1, <2>2
      <3>3. \A b \in Actors, k \in 1..MaxDepth : Calls(b, k, i)' => b = a /\ k = top[a]
        BY <1>5, <3>1
      <3>4. i \notin done' /\ \A s \in Senders : ~Exists(i, s)'
        BY <1>0, <1>6, <3>1
      <3> QED BY <3>2, <3>3, <3>4 DEF IdFits
    <2>3. CASE i # nextId
      <3>1. \A b \in Actors, k \in 1..MaxDepth :
              /\ Calls(b, k, i)' => Calls(b, k, i)
              /\ Pushes(b, k, i)' => Pushes(b, k, i)
              /\ Sends(b, k, i)' => Sends(b, k, i) /\ ~(b = a /\ k = top[a])
        BY <1>5, <2>3
      <3>2. i >= nextId' => i >= nextId
        BY <1>0, <1>1
      <3>3. (i >= nextId => /\ \A b \in Actors, k \in 1..MaxDepth : ~Calls(b, k, i)
                            /\ i \notin done /\ \A s \in Senders : ~Exists(i, s))'
        BY <1>0, <1>6, <2>1, <3>1, <3>2 DEF IdFits
      <3>4. (\A b, c \in Actors : \A k, j \in 1..MaxDepth : Calls(b, k, i) /\ Calls(c, j, i) => b = c /\ k = j)'
        BY <2>1, <3>1 DEF IdFits
      <3>5. ASSUME NEW b \in Actors, NEW k \in 1..MaxDepth
            PROVE  /\ Pushes(b, k, i)' => i \notin done' /\ \A s \in Senders : ~Exists(i, s)'
                   /\ Sends(b, k, i)' => \A s \in Senders : Exists(i, s)' => s = SleepsOn(b)'
        <4>1. Pushes(b, k, i)' => i \notin done' /\ \A s \in Senders : ~Exists(i, s)'
          BY <1>0, <1>6, <2>1, <3>1 DEF IdFits
        <4>2. ASSUME Sends(b, k, i)' PROVE SleepsOn(b)' = SleepsOn(b)
          <5>1. CASE b # a
            BY <5>1
          <5>2. CASE b = a /\ a \in Threads
            <6>1. top[a] = 1 /\ top'[a] = 1
              BY <1>3, <5>2 DEF LInv, Shape, Replaced
            <6>2. k = top[a]
              BY <4>2, <5>2, <6>1 DEF Sends, Calls
            <6> QED BY <3>1, <4>2, <5>2, <6>2
          <5>3. CASE b = a /\ a \notin Threads
            BY <5>3 DEF SleepsOn
          <5> QED BY <5>1, <5>2, <5>3
        <4>3. Sends(b, k, i)' => \A s \in Senders : Exists(i, s)' => s = SleepsOn(b)'
          BY <1>6, <2>1, <3>1, <4>2 DEF IdFits
        <4> QED BY <4>1, <4>3
      <3> QED BY <3>3, <3>4, <3>5 DEF IdFits
    <2> QED BY <2>2, <2>3
  <1> QED BY <1>7 DEF IdsFit

\* The list stays the same, or loses its first message.
LEMMA QuietQueue ==
  ASSUME LInv
  PROVE  /\ queue' = queue => QuietLists
         /\ \A l \in Loopers : queue[l] # <<>> /\ queue' = [queue EXCEPT ![l] = Tail(queue[l])] => QuietLists
  <1>1. queue' = queue => QuietLists
    BY DEF QuietLists, InList
  <1>2. ASSUME NEW l \in Loopers, queue[l] # <<>>, queue' = [queue EXCEPT ![l] = Tail(queue[l])]
        PROVE  QuietLists
    <2>1. queue \in [Loopers -> Seq(GoodMsg)]
      BY DEF LInv, Shape
    <2>2. \A j \in 1..Len(Tail(queue[l])) : j + 1 \in 1..Len(queue[l]) /\ Tail(queue[l])[j] = queue[l][j + 1]
      BY <1>2, <2>1
    <2>3. \A d \in Loopers : queue'[d] = IF d = l THEN Tail(queue[l]) ELSE queue[d]
      BY <1>2, <2>1
    <2>4. ASSUME NEW d \in Loopers, NEW j \in 1..Len(queue'[d])
          PROVE  \E k \in 1..Len(queue[d]) : queue'[d][j] = queue[d][k]
      <3>1. CASE d = l
        <4>1. j \in 1..Len(Tail(queue[l])) /\ queue'[d] = Tail(queue[l])
          BY <2>3, <2>4, <3>1
        <4> QED BY <2>2, <3>1, <4>1
      <3>2. CASE d # l
        BY <2>3, <2>4, <3>2
      <3> QED BY <3>1, <3>2
    <2> QED BY <2>4 DEF QuietLists, InList
  <1> QED BY <1>1, <1>2

\* The steps of a call after the locked part.
LEMMA CallStepIds ==
  ASSUME LInv, IdsFit, NEW a \in Actors, CallStep(a)
  PROVE  IdsFit'
  <1>1. CASE Push(a)
    BY <1>1, PushIds
  <1>2. CASE Ring(a) \/ SendCheck(a) \/ Woken(a)
    <2>1. top[a] > 0 /\ UNCHANGED <<top, queue, done, nextId>>
      BY <1>2 DEF Ring, SendCheck, Woken, At
    <2>2. \/ Becomes(a, EndOfCall(Top(a))) /\ (tls' = tls \/ DropTls(a))
          \/ tls' = tls /\ \E pc \in InLoop : Goto(a, pc)
      BY <1>2 DEF Ring, SendCheck, Woken, InLoop
    <2>3. CASE Becomes(a, EndOfCall(Top(a))) /\ (tls' = tls \/ DropTls(a))
      BY <2>1, <2>3, EndIds
    <2>4. ASSUME tls' = tls, NEW pc \in InLoop, Goto(a, pc) PROVE IdsFit'
      <3>1. pc # "push" /\ QuietLists
        BY <2>1, QuietQueue DEF InLoop
      <3> QED BY <2>1, <2>4, <3>1, GotoIds
    <2> QED BY <2>2, <2>3, <2>4
  <1> QED BY <1>1, <1>2 DEF CallStep

\* The frame of a message, and that of a callback.
DispatchFrame(l, m) ==
  [Activation("msg", m, "body") EXCEPT !.todo = IF m.kind = "destroy" THEN Children(l) ELSE {}]

\* They have the right shape.
LEMMA CalledFrames ==
  /\ \A l \in Loopers, m \in GoodMsg :
       LET f == DispatchFrame(l, m) IN
       f \in GoodFrame /\ f.op = "none" /\ f.pc = "body" /\ f.msg = m /\ f.id = 0 /\ f.cb = "msg" /\ f.dst = None
  /\ \A cb \in {"timer", "io"} :
       LET f == Activation(cb, NoMsg, "body") IN
       f \in GoodFrame /\ f.op = "none" /\ f.pc = "body" /\ f.msg = NoMsg /\ f.id = 0 /\ f.cb = cb /\ f.dst = None
  <1>1. ASSUME NEW l \in Loopers, NEW m \in GoodMsg
        PROVE  LET f == DispatchFrame(l, m) IN
               f \in GoodFrame /\ f.op = "none" /\ f.pc = "body" /\ f.msg = m /\ f.id = 0 /\ f.cb = "msg" /\ f.dst = None
    <2>1. Children(l) \subseteq Loopers /\ m \in Msg
      BY DEF Children, GoodMsg
    <2> QED BY <2>1, ConstantsAssumption DEF DispatchFrame, GoodFrame, Frame, FrameOK, Activation
  <1>2. ASSUME NEW cb \in {"timer", "io"}
        PROVE  LET f == Activation(cb, NoMsg, "body") IN
               f \in GoodFrame /\ f.op = "none" /\ f.pc = "body" /\ f.msg = NoMsg /\ f.id = 0 /\ f.cb = cb /\ f.dst = None
    BY ConstantsAssumption DEF GoodFrame, Frame, FrameOK, Activation, NoMsg, GoodMsg, Msg
  <1> QED BY <1>1, <1>2

\* What Dispatch does.
LEMMA DispatchEffect ==
  ASSUME LInv, NEW l \in Loopers, Dispatch(l)
  PROVE  /\ queue[l] # <<>> /\ Head(queue[l]) \in GoodMsg /\ Head(queue[l]) = queue[l][1]
         /\ 1 \in 1..Len(queue[l])
         /\ queue' = [queue EXCEPT ![l] = Tail(queue[l])]
         /\ Call(l, "check", DispatchFrame(l, Head(queue[l])))
         /\ top[l] > 0 /\ l \in Actors /\ "check" \in InLoop
  <1>1. queue[l] # <<>> /\ queue[l] \in Seq(GoodMsg)
    BY DEF Dispatch, LInv, Shape
  <1>2. Head(queue[l]) \in GoodMsg /\ Head(queue[l]) = queue[l][1] /\ 1 \in 1..Len(queue[l])
    BY <1>1
  <1>3. Call(l, "check", DispatchFrame(l, Head(queue[l])))
    BY Zenon DEF Dispatch, DispatchFrame
  <1>4. queue' = [queue EXCEPT ![l] = Tail(queue[l])]
    BY DEF Dispatch
  <1>5. top[l] > 0 /\ l \in Actors /\ "check" \in InLoop
    BY DEF Dispatch, At, Actors, InLoop
  <1> QED BY <1>1, <1>2, <1>3, <1>4, <1>5

\* The loop of a looper.
LEMMA GetMessageIds ==
  ASSUME LInv, IdsFit, NEW l \in Loopers,
         \/ RunCheck(l) \/ Dispatch(l) \/ NoMessage(l) \/ Timeout(l)
         \/ Callback(l, "timer") \/ Callback(l, "io")
  PROVE  IdsFit'
  <1>0. l \in Actors /\ top[l] > 0 /\ UNCHANGED <<done, nextId, tls>>
    BY DEF RunCheck, Dispatch, NoMessage, Timeout, Callback, At, Actors
  <1>1. CASE RunCheck(l) \/ NoMessage(l) \/ Timeout(l)
    <2>1. QuietLists
      BY <1>1, QuietQueue DEF RunCheck, NoMessage, Timeout
    <2>2. Return(l) \/ (UNCHANGED top /\ \E pc \in InLoop : Goto(l, pc))
      BY <1>1 DEF RunCheck, NoMessage, Timeout, InLoop
    <2>3. CASE Return(l)
      BY <1>0, <2>1, <2>3, ReturnIds
    <2>4. ASSUME UNCHANGED top, NEW pc \in InLoop, Goto(l, pc) PROVE IdsFit'
      <3>1. pc # "push"
        BY DEF InLoop
      <3> QED BY <1>0, <2>1, <2>4, <3>1, GotoIds
    <2> QED BY <2>2, <2>3, <2>4
  <1>2. CASE Dispatch(l)
    <2> DEFINE m == Head(queue[l])
               f == DispatchFrame(l, m)
    <2>1. m \in GoodMsg /\ m = queue[l][1] /\ 1 \in 1..Len(queue[l]) /\ Call(l, "check", f) /\ "check" \in InLoop
      BY <1>2, DispatchEffect
    <2>2. f \in GoodFrame /\ f.id = 0 /\ f.msg = m
      BY <2>1, CalledFrames
    <2>3. QuietLists
      BY <1>2, DispatchEffect, QuietQueue
    <2> HIDE DEF f
    <2>4. \A i \in MsgIds, s \in Senders : f.msg.id = i /\ f.msg.from = s => InList(i, s)
      BY <2>1, <2>2 DEF InList
    <2> QED BY <1>0, <2>1, <2>2, <2>3, <2>4, CallIds
  <1>3. ASSUME NEW cb \in {"timer", "io"}, Callback(l, cb) PROVE IdsFit'
    <2> DEFINE f == Activation(cb, NoMsg, "body")
    <2>1. f \in GoodFrame /\ f.id = 0 /\ f.msg = NoMsg
      BY CalledFrames
    <2>2. queue' = queue /\ \E pc \in InLoop : Call(l, pc, f)
      BY <1>3 DEF Callback, InLoop
    <2> HIDE DEF f
    <2>3. QuietLists
      BY <2>2, QuietQueue
    <2>4. \A i \in MsgIds : NoMsg.id # i
      BY ConstantsAssumption DEF MsgIds, NoMsg
    <2> QED BY <1>0, <2>1, <2>2, <2>3, <2>4, CallIds
  <1> QED BY <1>1, <1>2, <1>3

\* What OnDestroy does to its frame.
LEMMA DestroyEffect ==
  ASSUME LInv, NEW l \in Loopers, OnDestroy(l)
  PROVE  \/ Return(l)
         \/ \E g : /\ Becomes(l, g) /\ top' = top /\ g.id = Top(l).id /\ g.msg = Top(l).msg
                   /\ g.cb = Top(l).cb
                   /\ (g.pc = "push" /\ g.op = "post") \/ (g.pc = "body" /\ g.op = Top(l).op)
  <1>0. l \in Actors /\ top[l] > 0 /\ Top(l).pc = "body"
    BY DEF OnDestroy, At, Actors
  <1>1. Top(l) \in Frame
    BY <1>0, TopType DEF GoodFrame
  <1>2. CASE Return(l)
    BY <1>2
  <1>3. ASSUME NEW c \in Top(l).todo, UNCHANGED top,
               Becomes(l, IF ~freed[c] /\ life[c] = "run"
                          THEN [Top(l) EXCEPT !.pc = "push", !.op = "post", !.kind = "quit",
                                              !.dst = c, !.todo = @ \ {c}]
                          ELSE [Top(l) EXCEPT !.todo = @ \ {c}])
        PROVE  \E g : /\ Becomes(l, g) /\ top' = top /\ g.id = Top(l).id /\ g.msg = Top(l).msg
                      /\ g.cb = Top(l).cb
                      /\ (g.pc = "push" /\ g.op = "post") \/ (g.pc = "body" /\ g.op = Top(l).op)
    <2> DEFINE g1 == [Top(l) EXCEPT !.pc = "push", !.op = "post", !.kind = "quit", !.dst = c, !.todo = @ \ {c}]
               g2 == [Top(l) EXCEPT !.todo = @ \ {c}]
    <2>1. g1.id = Top(l).id /\ g1.msg = Top(l).msg /\ g1.cb = Top(l).cb /\ g1.pc = "push" /\ g1.op = "post"
      BY <1>1 DEF Frame
    <2>2. g2.id = Top(l).id /\ g2.msg = Top(l).msg /\ g2.cb = Top(l).cb /\ g2.pc = "body" /\ g2.op = Top(l).op
      BY <1>0, <1>1 DEF Frame
    <2>3. Becomes(l, g1) \/ Becomes(l, g2)
      BY <1>3
    <2> HIDE DEF g1, g2
    <2> QED BY <1>3, <2>1, <2>2, <2>3
  <1> QED BY <1>2, <1>3 DEF OnDestroy

\* OnQuit and Wakeup put messages without an id.
LEMMA QuitQuiet ==
  ASSUME LInv, NEW l \in Loopers, OnQuit(l) \/ Wakeup(l)
  PROVE  QuietLists
  <1>1. queue \in [Loopers -> Seq(GoodMsg)]
    BY DEF LInv, Shape
  <1>2. CASE queue' = queue
    BY <1>2, QuietQueue
  <1>3. ASSUME NEW d \in Loopers, queue' = [queue EXCEPT ![d] = Put(queue[d], Posted("null", 0))]
        PROVE  QuietLists
    BY <1>3, PutNull
  <1>4. CASE queue' = [queue EXCEPT ![l] = Put(Put(queue[l], Posted("destroy", 0)), Posted("null", 0))]
    <2> DEFINE m == Posted("destroy", 0)
               n == Posted("null", 0)
    <2>1. m.id = 0 /\ n.id = 0
      BY DEF Posted
    <2>2. \A d \in Loopers : queue'[d] = IF d = l THEN Append(Append(queue[l], m), n) ELSE queue[d]
      BY <1>1, <1>4 DEF Put
    <2> HIDE DEF m, n
    <2>3. \A j \in 1..Len(Append(Append(queue[l], m), n)) :
            \/ Append(Append(queue[l], m), n)[j] = m
            \/ Append(Append(queue[l], m), n)[j] = n
            \/ j \in 1..Len(queue[l]) /\ Append(Append(queue[l], m), n)[j] = queue[l][j]
      BY <1>1
    <2>4. ASSUME NEW d \in Loopers, NEW j \in 1..Len(queue'[d])
          PROVE  queue'[d][j].id = 0 \/ (j \in 1..Len(queue[d]) /\ queue'[d][j] = queue[d][j])
      <3>1. CASE d = l
        <4>1. queue'[d] = Append(Append(queue[l], m), n) /\ j \in 1..Len(Append(Append(queue[l], m), n))
          BY <2>2, <2>4, <3>1
        <4> QED BY <2>1, <2>3, <3>1, <4>1
      <3>2. CASE d # l
        BY <2>2, <2>4, <3>2
      <3> QED BY <3>1, <3>2
    <2>5. \A i \in MsgIds : i # 0
      BY ConstantsAssumption DEF MsgIds
    <2> QED BY <2>4, <2>5 DEF QuietLists, InList
  <1>5. CASE OnQuit(l)
    <2>1. queue' = queue \/ queue' = [queue EXCEPT ![l] = Put(Put(queue[l], Posted("destroy", 0)), Posted("null", 0))]
      BY <1>5 DEF OnQuit
    <2> QED BY <1>2, <1>4, <2>1
  <1>6. CASE Wakeup(l)
    <2>1. l \in Actors /\ top[l] > 0 /\ Top(l).pc = "wake"
      BY <1>6 DEF Wakeup, At, Actors
    <2>2. Top(l).msg.from \in Loopers \cup TlsLoopers
      BY <2>1, TopType DEF GoodFrame, FrameOK, GoodMsg, Msg
    <2>3. queue' = queue \/ \E d \in Loopers : queue' = [queue EXCEPT ![d] = Put(queue[d], Posted("null", 0))]
      BY <1>6, <2>2 DEF Wakeup, WithNull
    <2> QED BY <1>2, <1>3, <2>3
  <1> QED BY <1>5, <1>6

\* The handlers.
LEMMA HandlerIds ==
  ASSUME LInv, Tidy, IdsFit, NEW l \in Loopers,
         \/ HandlerReturns(l) \/ SetDone(l) \/ Wakeup(l) \/ WakeupRing(l)
         \/ OnQuit(l) \/ OnDestroy(l)
  PROVE  IdsFit'
  <1>0. l \in Actors /\ top[l] > 0 /\ UNCHANGED <<nextId, tls>> /\ top[l] \in 1..top[l]
    <2>1. l \in Actors /\ top[l] > 0 /\ UNCHANGED <<nextId, tls>>
      BY DEF HandlerReturns, SetDone, Wakeup, WakeupRing, OnQuit, OnDestroy, At, Actors
    <2>2. top[l] \in 1..MaxDepth
      BY <2>1, TopType
    <2> QED BY <2>1, <2>2, DepthType
  <1>1. QuietLists
    BY QuitQuiet, QuietQueue DEF HandlerReturns, SetDone, WakeupRing, OnDestroy
  <1>2. CASE HandlerReturns(l) \/ Wakeup(l) \/ WakeupRing(l) \/ OnQuit(l)
    <2>1. done' = done /\ (Return(l) \/ (UNCHANGED top /\ \E pc \in {"reply", "wakering"} : Goto(l, pc)))
      BY <1>2 DEF HandlerReturns, Wakeup, WakeupRing, OnQuit
    <2> QED BY <1>0, <1>1, <2>1, ReturnIds, GotoIds
  <1>3. CASE SetDone(l)
    <2> DEFINE m == Top(l).msg
    <2>1. done' = done \cup {m.id} /\ Goto(l, "wake") /\ UNCHANGED top
      BY <1>3 DEF SetDone
    <2>2. m.from \in Senders
      BY <1>0, TopType DEF GoodFrame, FrameOK, GoodMsg, Msg, Senders
    <2>3. InHandler(m.id, m.from)
      BY <1>0 DEF InHandler, Top
    <2>4. \A i \in MsgIds : i \in done' => i \in done \/ \E s \in Senders : Exists(i, s)
      BY <2>1, <2>2, <2>3 DEF Exists
    <2> QED BY <1>0, <1>1, <2>1, <2>4, GotoIds
  <1>4. CASE OnDestroy(l)
    <2>1. UNCHANGED <<done>>
      BY <1>4 DEF OnDestroy
    <2>2. CASE Return(l)
      BY <1>0, <1>1, <2>1, <2>2, ReturnIds
    <2>3. ASSUME NEW g, Becomes(l, g), top' = top, g.id = Top(l).id, g.msg = Top(l).msg,
                 (g.pc = "push" /\ g.op = "post") \/ (g.pc = "body" /\ g.op = Top(l).op)
          PROVE  IdsFit'
      <3>1. Top(l).id = 0
        BY <1>0, <1>4 DEF Tidy, FrameTidy, OnDestroy, At, Top, InCall, InLoop
      <3>2. QuietFrames /\ QuietHandlers
        <4>1. Replaced(l, g)
          BY <1>0, <2>3, Effects
        <4> QED BY <1>0, <2>3, <3>1, <4>1, ReplacedQuiet
      <3>3. SleepsKept
        BY <1>0 DEF SleepsKept, SleepsOn
      <3>4. \A i \in MsgIds, s \in Senders : Exists(i, s)' => Exists(i, s)
        BY <1>1, <3>2 DEF Exists, QuietHandlers, QuietLists
      <3> QED BY <1>0, <2>1, <3>2, <3>3, <3>4, QuietIds
    <2> QED BY <1>4, <2>2, <2>3, DestroyEffect
  <1> QED BY <1>2, <1>3, <1>4

\* Every step.
LEMMA IdsStep == LInv /\ Tidy /\ IdsFit /\ [Next]_vars => IdsFit'
  <1> SUFFICES ASSUME LInv, Tidy, IdsFit, [Next]_vars PROVE IdsFit'
    OBVIOUS
  <1>1. ASSUME NEW a \in Actors, NEW d \in Loopers, NEW kind \in PostKinds, Post(a, kind, d) PROVE IdsFit'
    <2>1. kind \in {"user", "quit"} /\ BeginCall(a, "post", kind, d) /\ tls' = tls
      BY <1>1, ConstantsAssumption DEF Post
    <2>2. \A b \in Actors : b # a => SleepsOn(b)' = SleepsOn(b)
      BY <2>1 DEF SleepsOn
    <2> QED BY <2>1, <2>2, BeginIds
  <1>2. ASSUME NEW l \in Loopers, NEW d \in Loopers, SendFromLooper(l, d) PROVE IdsFit'
    <2>1. l \in Actors /\ BeginCall(l, "send", "user", d) /\ tls' = tls
      BY <1>2 DEF SendFromLooper, Actors
    <2>2. \A b \in Actors : b # l => SleepsOn(b)' = SleepsOn(b)
      BY <2>1 DEF SleepsOn
    <2> QED BY <2>1, <2>2, BeginIds
  <1>3. ASSUME NEW t \in Threads, NEW d \in Loopers, SendFromThread(t, d) PROVE IdsFit'
    <2>1. t \in Actors /\ BeginCall(t, "send", "user", d) /\ \E s \in TlsLoopers : tls' = [tls EXCEPT ![t] = s]
      BY <1>3 DEF SendFromThread, Actors
    <2>2. \A b \in Actors : b # t => SleepsOn(b)' = SleepsOn(b)
      BY <2>1 DEF SleepsOn, LInv, TypeOK
    <2> QED BY <2>1, <2>2, BeginIds
  <1>4. ASSUME UNCHANGED <<queue, frame, top, tls, done, nextId>> PROVE IdsFit'
    <2>1. QuietFrames /\ SleepsKept
      BY <1>4 DEF QuietFrames, Calls, Sends, Pushes, SleepsKept, SleepsOn
    <2>2. \A i \in MsgIds, s \in Senders : Exists(i, s)' => Exists(i, s)
      BY <1>4 DEF Exists, InList, InHandler
    <2> QED BY <1>4, <2>1, <2>2, QuietIds
  <1>5. ASSUME NEW l \in Loopers, SetExitEvent(l) \/ Free(l) PROVE IdsFit'
    BY <1>4, <1>5 DEF SetExitEvent, Free
  <1>6. CASE UNCHANGED vars
    BY <1>4, <1>6 DEF vars
  <1> QED
    BY <1>1, <1>2, <1>3, <1>5, <1>6, CallStepIds, GetMessageIds, HandlerIds DEF Next, LoopStep

-----------------------------------------------------------------------------
(* Frames, and what is below them *)

\* A step leaves the stacks alone, or replaces, pops or stacks one frame.
Stacking ==
  \/ UNCHANGED <<frame, top, callbacks>>
  \/ \E a \in Actors : /\ top[a] > 0 /\ callbacks' = callbacks
                       /\ \/ Popped(a)
                          \/ \E f : Replaced(a, f) /\ FrameTidy(f)
  \/ \E l \in Loopers : \E pc \in InLoop :
       /\ top[l] > 0 /\ top[l] < MaxDepth
       /\ \E f : Stacked(l, pc, f) /\ FrameTidy(f)
       /\ \/ pc = "check" /\ callbacks' = callbacks
          \/ pc \in {"get", "poll"} /\ callbacks' # 0 /\ (pc = "poll" => Timed # {})

\* The frames that replace others.
LEMMA TidyFrames ==
  ASSUME LInv, Tidy, NEW a \in Actors, top[a] > 0
  PROVE  /\ FrameTidy(EndOfCall(Top(a))) \/ Top(a).cb = "run"
         /\ \A pc \in InLoop : FrameTidy([Top(a) EXCEPT !.pc = pc])
         /\ Top(a).cb = "run" => Top(a).op = "none" /\ Top(a).pc \in InLoop
         /\ \A pc \in {"ring", "reply", "wake", "wakering"} :
              Top(a).cb # "run" /\ (pc = "ring" \/ Top(a).pc \notin InCall) =>
                FrameTidy([Top(a) EXCEPT !.pc = pc])
  <1>1. FrameTidy(Top(a)) /\ Top(a) \in GoodFrame
    <2>1. top[a] \in 1..top[a]
      BY TopType, DepthType
    <2> QED BY <2>1, TopType DEF Tidy
  <1>2. FrameTidy(EndOfCall(Top(a))) \/ Top(a).cb = "run"
    BY EndFields DEF FrameTidy
  <1>3. \A pc \in InLoop : FrameTidy([Top(a) EXCEPT !.pc = pc])
    <2>1. SUFFICES ASSUME NEW pc \in InLoop PROVE FrameTidy([Top(a) EXCEPT !.pc = pc])
      OBVIOUS
    <2>2. /\ [Top(a) EXCEPT !.pc = pc].pc = pc
          /\ [Top(a) EXCEPT !.pc = pc].op = Top(a).op
          /\ [Top(a) EXCEPT !.pc = pc].cb = Top(a).cb
      BY GotoFields
    <2> QED BY <1>1, <2>2 DEF FrameTidy, InLoop, InCall
  <1>4. ASSUME NEW pc \in {"ring", "reply", "wake", "wakering"}, Top(a).cb # "run",
               pc = "ring" \/ Top(a).pc \notin InCall
        PROVE  FrameTidy([Top(a) EXCEPT !.pc = pc])
    <2>2. /\ [Top(a) EXCEPT !.pc = pc].pc = pc
          /\ [Top(a) EXCEPT !.pc = pc].cb = Top(a).cb
          /\ [Top(a) EXCEPT !.pc = pc].id = Top(a).id
          /\ [Top(a) EXCEPT !.pc = pc].op = Top(a).op
      BY GotoFields
    <2> QED BY <1>1, <1>4, <2>2 DEF FrameTidy, InCall
  <1>5. Top(a).cb = "run" => Top(a).op = "none" /\ Top(a).pc \in InLoop
    BY <1>1 DEF FrameTidy
  <1> QED BY <1>2, <1>3, <1>4, <1>5

\* The steps that replace a frame.
LEMMA ReplacingStep ==
  ASSUME LInv, Tidy, NEW a \in Actors, top[a] > 0, top' = top,
         \/ Becomes(a, EndOfCall(Top(a))) /\ Top(a).cb # "run"
         \/ \E pc \in InLoop : Goto(a, pc)
         \/ /\ Top(a).cb # "run"
            /\ \E pc \in {"ring", "reply", "wake", "wakering"} :
                 Goto(a, pc) /\ (pc = "ring" \/ Top(a).pc \notin InCall)
  PROVE  \E f : Replaced(a, f) /\ FrameTidy(f)
  BY TidyFrames, Effects DEF Goto

\* Every step is of that kind.
LEMMA StackingStep == LInv /\ Tidy /\ [Next]_vars => Stacking
  <1> SUFFICES ASSUME LInv, Tidy, [Next]_vars PROVE Stacking
    OBVIOUS
  <1>1. ASSUME NEW a \in Actors, NEW op \in {"post", "send"}, NEW kind \in {"user", "quit"}, NEW d \in Loopers,
               op = "send" => kind = "user", BeginCall(a, op, kind, d)
        PROVE  Stacking
    <2>1. PICK f \in GoodFrame : /\ top[a] > 0 /\ Becomes(a, f) /\ f.cb = Top(a).cb /\ f.pc = "push"
      BY <1>1, BeginFrame
    <2>2. Top(a).cb # "run" /\ UNCHANGED <<top, callbacks>>
      BY <1>1 DEF BeginCall, AppCode
    <2>3. FrameTidy(f) /\ Replaced(a, f)
      BY <2>1, <2>2, Effects DEF FrameTidy, InCall
    <2> QED BY <2>1, <2>2, <2>3 DEF Stacking
  <1>2. ASSUME NEW a \in Actors, CallStep(a) PROVE Stacking
    <2>1. top[a] > 0 /\ top' = top /\ callbacks' = callbacks
      BY <1>2 DEF CallStep, Push, Ring, SendCheck, Woken, At
    <2>2. \/ Becomes(a, EndOfCall(Top(a))) /\ (Top(a).pc \notin InLoop \/ Top(a).op = "send")
          \/ \E pc \in InLoop : Goto(a, pc)
          \/ Top(a).pc = "push" /\ Goto(a, "ring")
      BY <1>2 DEF CallStep, Push, Ring, SendCheck, Woken, At, InLoop
    <2>3. Top(a).cb # "run" \/ (Top(a).op = "none" /\ Top(a).pc \in InLoop)
      BY <2>1, TidyFrames
    <2>4. \E f : Replaced(a, f) /\ FrameTidy(f)
      BY <2>1, <2>2, <2>3, ReplacingStep DEF InLoop
    <2> QED BY <2>1, <2>4 DEF Stacking
  <1>3. ASSUME NEW l \in Loopers, RunCheck(l) \/ NoMessage(l) \/ Timeout(l) PROVE Stacking
    <2>1. l \in Actors /\ top[l] > 0 /\ callbacks' = callbacks
      BY <1>3 DEF RunCheck, NoMessage, Timeout, At, Actors
    <2>2. Return(l) \/ (top' = top /\ \E pc \in InLoop : Goto(l, pc))
      BY <1>3 DEF RunCheck, NoMessage, Timeout, InLoop
    <2>3. Popped(l) \/ \E f : Replaced(l, f) /\ FrameTidy(f)
      BY <2>1, <2>2, Effects, ReplacingStep
    <2> QED BY <2>1, <2>3 DEF Stacking
  <1>4. ASSUME NEW l \in Loopers, Dispatch(l) PROVE Stacking
    <2> DEFINE f == DispatchFrame(l, Head(queue[l]))
    <2>1. Head(queue[l]) \in GoodMsg /\ Call(l, "check", f) /\ top[l] > 0 /\ l \in Actors /\ "check" \in InLoop
      BY <1>4, DispatchEffect
    <2>2. f \in GoodFrame /\ f.id = 0 /\ f.op = "none" /\ f.cb = "msg"
      BY <2>1, CalledFrames
    <2> HIDE DEF f
    <2>3. Stacked(l, "check", f) /\ top[l] < MaxDepth /\ FrameTidy(f)
      BY <2>1, <2>2, Effects DEF FrameTidy
    <2>4. callbacks' = callbacks
      BY <1>4 DEF Dispatch
    <2> QED BY <2>1, <2>3, <2>4 DEF Stacking
  <1>5. ASSUME NEW l \in Loopers, NEW cb \in {"timer", "io"}, Callback(l, cb) PROVE Stacking
    <2> DEFINE f == Activation(cb, NoMsg, "body")
               pc == IF cb = "timer" THEN "poll" ELSE "get"
    <2>1. f \in GoodFrame /\ f.id = 0 /\ f.op = "none" /\ f.cb = cb
      BY CalledFrames
    <2>2. Call(l, pc, f) /\ callbacks' = callbacks + 1 /\ top[l] > 0
      BY <1>5 DEF Callback, At
    <2>3. pc \in {"get", "poll"} /\ pc \in InLoop /\ (pc = "poll" => Timed # {})
      BY <1>5 DEF Callback, InLoop
    <2> HIDE DEF f, pc
    <2>4. l \in Actors /\ callbacks' # 0
      BY <2>2, ConstantsAssumption DEF Actors, LInv, TypeOK
    <2>5. Stacked(l, pc, f) /\ top[l] < MaxDepth /\ FrameTidy(f)
      BY <2>1, <2>2, <2>3, <2>4, Effects DEF FrameTidy
    <2> QED BY <2>2, <2>3, <2>4, <2>5 DEF Stacking
  <1>6. ASSUME NEW l \in Loopers, HandlerReturns(l) \/ SetDone(l) \/ Wakeup(l) \/ WakeupRing(l) \/ OnQuit(l)
        PROVE  Stacking
    <2>1. l \in Actors /\ top[l] > 0 /\ callbacks' = callbacks /\ Top(l).pc \notin InCall
      BY <1>6 DEF HandlerReturns, SetDone, Wakeup, WakeupRing, OnQuit, At, Actors, InLoop, InCall
    <2>2. Return(l) \/ (top' = top /\ \E pc \in {"reply", "wake", "wakering"} : Goto(l, pc))
      BY <1>6 DEF HandlerReturns, SetDone, Wakeup, WakeupRing, OnQuit
    <2>3. Top(l).cb # "run"
      BY <2>1, TidyFrames DEF InCall
    <2>4. Popped(l) \/ \E f : Replaced(l, f) /\ FrameTidy(f)
      BY <2>1, <2>2, <2>3, Effects, ReplacingStep
    <2> QED BY <2>1, <2>4 DEF Stacking
  <1>7. ASSUME NEW l \in Loopers, OnDestroy(l) PROVE Stacking
    <2>1. l \in Actors /\ top[l] > 0 /\ callbacks' = callbacks /\ Top(l).pc = "body"
      BY <1>7 DEF OnDestroy, At, Actors
    <2>2. Top(l).cb # "run" /\ Top(l).id = 0 /\ Top(l).op = "none"
      <3>1. top[l] \in 1..top[l]
        BY <2>1, TopType, DepthType
      <3> QED BY <2>1, <3>1 DEF Tidy, FrameTidy, InLoop, InCall, Top
    <2>3. CASE Return(l)
      BY <2>1, <2>3, Effects DEF Stacking
    <2>4. ASSUME NEW g, Becomes(l, g), top' = top, g.id = Top(l).id, g.cb = Top(l).cb,
                 (g.pc = "push" /\ g.op = "post") \/ (g.pc = "body" /\ g.op = Top(l).op)
          PROVE  Stacking
      <3>1. FrameTidy(g)
        BY <2>2, <2>4 DEF FrameTidy, InCall
      <3>2. Replaced(l, g)
        BY <2>1, <2>4, Effects
      <3> QED BY <2>1, <3>1, <3>2 DEF Stacking
    <2> QED BY <1>7, <2>3, <2>4, DestroyEffect
  <1>8. ASSUME NEW l \in Loopers, SetExitEvent(l) \/ Free(l) PROVE Stacking
    BY <1>8 DEF SetExitEvent, Free, Stacking
  <1>9. CASE UNCHANGED vars
    BY <1>9 DEF vars, Stacking
  <1>10. \A kind \in PostKinds : kind \in {"user", "quit"}
    BY ConstantsAssumption
  <1>11. \A l \in Loopers \cup Threads : l \in Actors
    BY DEF Actors
  <1>12. CASE \/ \E a \in Actors, d \in Loopers, kind \in PostKinds : Post(a, kind, d)
              \/ \E l \in Loopers, d \in Loopers : SendFromLooper(l, d)
              \/ \E t \in Threads, d \in Loopers : SendFromThread(t, d)
    BY <1>1, <1>10, <1>11, <1>12 DEF Post, SendFromLooper, SendFromThread
  <1> QED
    BY <1>2, <1>3, <1>4, <1>5, <1>6, <1>7, <1>8, <1>9, <1>12 DEF Next, LoopStep

\* Where the loops below go on after a socket callback, and after a message.
BelowOK == /\ Timed = {} => Below({"check", "get"})
           /\ callbacks = 0 => Below({"check"})

\* They are right, whatever is stacked and popped.
LEMMA FramesStep == LInv /\ Tidy /\ BelowOK /\ [Next]_vars => Tidy' /\ BelowOK'
  <1> SUFFICES ASSUME LInv, Tidy, BelowOK, [Next]_vars PROVE Tidy' /\ BelowOK'
    OBVIOUS
  <1>0. Stacking /\ LInv'
    BY StackingStep, TypeStep
  <1>1. /\ \A a \in Actors : top[a] \in 0..MaxDepth /\ top'[a] \in 0..MaxDepth
        /\ MaxDepth \in Nat /\ \A l \in Loopers : l \in Actors
        /\ callbacks \in Nat
    BY <1>0, DepthType, ConstantsAssumption DEF LInv, TypeOK, Actors
  <1>2. CASE UNCHANGED <<frame, top, callbacks>>
    BY <1>2 DEF Tidy, BelowOK, Below
  <1>3. ASSUME NEW a \in Actors, top[a] > 0, callbacks' = callbacks, Popped(a) PROVE Tidy' /\ BelowOK'
    <2>1. ASSUME NEW b \in Actors, NEW k \in 1..top'[b]
          PROVE  /\ k \in 1..top[b] /\ frame'[b][k] = frame[b][k] /\ (k < top'[b] => k < top[b])
      BY <1>1, <1>3, <2>1 DEF Popped
    <2>2. Tidy'
      BY <2>1 DEF Tidy
    <2>3. ASSUME NEW S, Below(S) PROVE Below(S)'
      BY <1>1, <2>1, <2>3 DEF Below
    <2> QED BY <1>3, <2>2, <2>3 DEF BelowOK
  <1>4. ASSUME NEW a \in Actors, top[a] > 0, callbacks' = callbacks, NEW f, Replaced(a, f), FrameTidy(f)
        PROVE  Tidy' /\ BelowOK'
    <2>1. ASSUME NEW b \in Actors, NEW k \in 1..top'[b]
          PROVE  /\ k \in 1..top[b] /\ top'[b] = top[b]
                 /\ frame'[b][k] = frame[b][k] \/ (b = a /\ k = top[b] /\ frame'[b][k] = f)
      BY <1>1, <1>4, <2>1 DEF Replaced
    <2>2. Tidy'
      BY <1>4, <2>1 DEF Tidy
    <2>3. ASSUME NEW S, Below(S) PROVE Below(S)'
      <3>1. SUFFICES ASSUME NEW l \in Loopers, NEW k \in 1..top'[l], k < top'[l] PROVE frame'[l][k].pc \in S
        BY DEF Below
      <3>2. k \in 1..top[l] /\ top'[l] = top[l] /\ frame'[l][k] = frame[l][k]
        BY <1>1, <2>1, <3>1
      <3> QED BY <2>3, <3>1, <3>2 DEF Below
    <2> QED BY <1>4, <2>2, <2>3 DEF BelowOK
  <1>5. ASSUME NEW l \in Loopers, NEW pc \in InLoop, top[l] > 0, top[l] < MaxDepth,
               NEW f, Stacked(l, pc, f), FrameTidy(f),
               \/ pc = "check" /\ callbacks' = callbacks
               \/ pc \in {"get", "poll"} /\ callbacks' # 0 /\ (pc = "poll" => Timed # {})
        PROVE  Tidy' /\ BelowOK'
    <2> DEFINE g == [Top(l) EXCEPT !.pc = pc]
    <2>0. l \in Actors
      BY <1>1
    <2>1. FrameTidy(g) /\ g.pc = pc
      <3>1. FrameTidy(g)
        BY <1>5, <2>0, TidyFrames
      <3>2. g.pc = pc
        BY <1>5, <2>0, GotoFields
      <3> QED BY <3>1, <3>2
    <2>3. ASSUME NEW b \in Actors, NEW k \in 1..top'[b]
          PROVE  \/ b = l /\ k = top'[b] /\ frame'[b][k] = f
                 \/ b = l /\ k = top[b] /\ frame'[b][k] = g
                 \/ b = l /\ k \in 1..top[b] /\ k < top[b] /\ frame'[b][k] = frame[b][k]
                 \/ b # l /\ top'[b] = top[b] /\ frame'[b][k] = frame[b][k]
      BY <1>1, <1>5, <2>3 DEF Stacked
    <2> HIDE DEF g
    <2>4. Tidy'
      BY <1>5, <2>1, <2>3 DEF Tidy
    <2>5. ASSUME NEW S, Below(S), pc \in S PROVE Below(S)'
      <3>1. SUFFICES ASSUME NEW d \in Loopers, NEW k \in 1..top'[d], k < top'[d] PROVE frame'[d][k].pc \in S
        BY DEF Below
      <3> QED BY <1>1, <2>1, <2>3, <2>5, <3>1 DEF Below
    <2> QED BY <1>5, <2>4, <2>5 DEF BelowOK
  <1> QED BY <1>0, <1>2, <1>3, <1>4, <1>5 DEF Stacking

\* A TLS looper that is borrowed is not borrowed again.
LEMMA TlsStep == LInv /\ TlsDistinct /\ [Next]_vars => TlsDistinct'
  <1> SUFFICES ASSUME LInv, TlsDistinct, [Next]_vars PROVE TlsDistinct'
    OBVIOUS
  <1>0. tls \in [Threads -> TlsLoopers \cup {None}]
    BY DEF LInv, TypeOK
  <1>1. ASSUME tls' = tls PROVE TlsDistinct'
    BY <1>1 DEF TlsDistinct
  <1>2. ASSUME NEW a \in Actors, DropTls(a) PROVE TlsDistinct'
    BY <1>0, <1>2 DEF TlsDistinct, DropTls
  <1>3. ASSUME NEW t \in Threads, NEW d \in Loopers, SendFromThread(t, d) PROVE TlsDistinct'
    <2>1. PICK s \in TlsLoopers : (\A u \in Threads : tls[u] # s) /\ tls' = [tls EXCEPT ![t] = s]
      BY <1>3 DEF SendFromThread
    <2> QED BY <1>0, <2>1 DEF TlsDistinct
  <1>4. ASSUME NEW a \in Actors, CallStep(a) PROVE TlsDistinct'
    BY <1>1, <1>2, <1>4 DEF CallStep, Push, Ring, SendCheck, Woken
  <1>5. ASSUME NEW l \in Loopers, LoopStep(l) \/ Timeout(l) \/ Free(l) PROVE TlsDistinct'
    BY <1>1, <1>5 DEF LoopStep, RunCheck, Dispatch, NoMessage, HandlerReturns, SetDone, Wakeup, WakeupRing,
                      OnQuit, OnDestroy, SetExitEvent, Timeout, Free
  <1>6. ASSUME NEW l \in Loopers, NEW cb \in {"timer", "io"}, Callback(l, cb) PROVE TlsDistinct'
    BY <1>1, <1>6 DEF Callback
  <1>7. CASE UNCHANGED vars
    BY <1>1, <1>7 DEF vars
  <1> QED BY <1>1, <1>3, <1>4, <1>5, <1>6, <1>7 DEF Next, Post, SendFromLooper

-----------------------------------------------------------------------------
(* What a step means for those that sleep *)

\* Sender a is past its test of the done flag, which is set.
Past(a) == top[a] > 0 /\ Top(a).op = "send" /\ Top(a).id \in done /\ Top(a).pc \in {"get", "poll"}

\* Only a moves, and a ends where no message and no done flag is overlooked.
OthersKept(a) ==
  \A b \in Actors \ {a} :
    /\ top'[b] = top[b] /\ (top[b] > 0 => Top(b)' = Top(b))
    /\ SleepsOn(b)' = SleepsOn(b)
Lands(a) ==
  \/ Popped(a)
  \/ /\ a \in Loopers /\ Top(a)'.pc = "poll" => queue'[a] = <<>>
     /\ Top(a)'.pc \in {"get", "poll"} =>
          \/ Top(a)'.op # "send" \/ Top(a)'.id \notin done'
          \/ a \in Loopers /\ Past(a) /\ queue'[a] = queue[a]

\* What a does concerns nobody else.
Calm(a) ==
  /\ \A l \in Loopers \ {a} : queue'[l] = queue[l]
  /\ \A s \in Sockets \ {SleepsOn(a)} : bytes'[s] = bytes[s]
  /\ done' = done
  /\ ~At(a, "ring") /\ ~At(a, "wake") /\ ~At(a, "wakering")

Moves(a) ==
  /\ top[a] > 0 /\ OthersKept(a) /\ Lands(a)
  /\ Calm(a) \/ Push(a) \/ Ring(a) \/ (a \in Loopers /\ (SetDone(a) \/ Wakeup(a) \/ WakeupRing(a)))

\* The stacks of the others, and the frame on top.
LEMMA MovedStacks ==
  ASSUME LInv, NEW a \in Actors, top[a] > 0, \A b \in Actors \ {a} : SleepsOn(b)' = SleepsOn(b)
  PROVE  /\ \A f : Replaced(a, f) => OthersKept(a) /\ Top(a)' = f
         /\ Popped(a) => OthersKept(a)
         /\ \A f : \A pc \in InLoop : top[a] < MaxDepth /\ Stacked(a, pc, f) => OthersKept(a) /\ Top(a)' = f
  <1>1. \A b \in Actors : top[b] \in 0..MaxDepth /\ (top[b] > 0 => top[b] \in 1..MaxDepth)
    BY DepthType DEF LInv, TypeOK
  <1>2. ASSUME NEW f, Replaced(a, f) PROVE OthersKept(a) /\ Top(a)' = f
    BY <1>1, <1>2 DEF Replaced, OthersKept, Top
  <1>3. Popped(a) => OthersKept(a)
    BY <1>1 DEF Popped, OthersKept, Top
  <1>4. ASSUME NEW pc \in InLoop, NEW f, top[a] < MaxDepth, Stacked(a, pc, f)
        PROVE  OthersKept(a) /\ Top(a)' = f
    <2>1. top[a] + 1 \in 1..MaxDepth /\ top[a] + 1 # top[a]
      BY <1>1, <1>4, DepthType
    <2>2. Top(a)' = f
      BY <1>4, <2>1 DEF Stacked, Top
    <2>3. OthersKept(a)
      BY <1>1, <1>4 DEF Stacked, OthersKept, Top
    <2> QED BY <2>2, <2>3
  <1> QED BY <1>2, <1>3, <1>4

\* A frame that goes elsewhere.
LEMMA GotoMoves ==
  ASSUME LInv, NEW a \in Actors, top[a] > 0, \A b \in Actors \ {a} : SleepsOn(b)' = SleepsOn(b),
         top' = top, NEW pc, Goto(a, pc)
  PROVE  OthersKept(a) /\ Top(a)'.pc = pc /\ Top(a)'.op = Top(a).op /\ Top(a)'.id = Top(a).id
         /\ Top(a)'.msg = Top(a).msg /\ Top(a)'.dst = Top(a).dst
  <1> DEFINE g == [Top(a) EXCEPT !.pc = pc]
  <1>1. Replaced(a, g)
    BY Effects DEF Goto
  <1>2. g.pc = pc /\ g.op = Top(a).op /\ g.id = Top(a).id /\ g.msg = Top(a).msg /\ g.dst = Top(a).dst
    BY GotoFields
  <1> HIDE DEF g
  <1>3. OthersKept(a) /\ Top(a)' = g
    BY <1>1, MovedStacks
  <1> QED BY <1>2, <1>3

\* Every step is one of those, or does not move.
LEMMA MovesStep ==
  ASSUME LInv, Tidy, [Next]_vars
  PROVE  \/ UNCHANGED <<queue, bytes, frame, top, tls, done>>
         \/ \E a \in Actors : Moves(a)
  <1>1. ASSUME NEW a \in Actors, NEW op \in {"post", "send"}, NEW kind \in {"user", "quit"}, NEW d \in Loopers,
               op = "send" => kind = "user", BeginCall(a, op, kind, d),
               \A b \in Actors \ {a} : SleepsOn(b)' = SleepsOn(b)
        PROVE  Moves(a)
    <2>1. PICK f \in GoodFrame : /\ top[a] > 0 /\ Becomes(a, f) /\ f.pc = "push"
      BY <1>1, BeginFrame
    <2>2. Replaced(a, f) /\ UNCHANGED <<queue, bytes, done>> /\ Top(a).pc = "body"
      BY <1>1, <2>1, Effects DEF BeginCall, At
    <2>3. OthersKept(a) /\ Top(a)'.pc = "push"
      BY <1>1, <2>1, <2>2, MovedStacks
    <2> QED BY <2>1, <2>2, <2>3 DEF Moves, Lands, Calm, At
  <1>2. \A kind \in PostKinds : kind \in {"user", "quit"}
    BY ConstantsAssumption
  <1>3. ASSUME NEW a \in Actors, NEW d \in Loopers, NEW kind \in PostKinds, Post(a, kind, d) PROVE Moves(a)
    BY <1>1, <1>2, <1>3 DEF Post, SleepsOn
  <1>4. ASSUME NEW l \in Loopers, NEW d \in Loopers, SendFromLooper(l, d) PROVE l \in Actors /\ Moves(l)
    BY <1>1, <1>4 DEF SendFromLooper, SleepsOn, Actors
  <1>5. ASSUME NEW t \in Threads, NEW d \in Loopers, SendFromThread(t, d) PROVE t \in Actors /\ Moves(t)
    <2>1. t \in Actors /\ BeginCall(t, "send", "user", d) /\ \E s \in TlsLoopers : tls' = [tls EXCEPT ![t] = s]
      BY <1>5 DEF SendFromThread, Actors
    <2>2. \A b \in Actors \ {t} : SleepsOn(b)' = SleepsOn(b)
      BY <2>1 DEF SleepsOn, LInv, TypeOK
    <2> QED BY <1>1, <2>1, <2>2
  <1>6. ASSUME NEW a \in Actors, CallStep(a) PROVE Moves(a)
    <2>0. top[a] > 0 /\ UNCHANGED <<top, done>>
      BY <1>6 DEF CallStep, Push, Ring, SendCheck, Woken, At
    <2>1. \A b \in Actors \ {a} : SleepsOn(b)' = SleepsOn(b)
      <3>1. tls' = tls \/ DropTls(a)
        BY <1>6 DEF CallStep, Push, Ring, SendCheck, Woken
      <3> QED BY <3>1 DEF SleepsOn, DropTls, LInv, TypeOK
    <2>2. ASSUME Becomes(a, EndOfCall(Top(a))) PROVE OthersKept(a) /\ Lands(a)
      BY <2>0, <2>1, <2>2, Effects, EndFields, MovedStacks DEF Lands
    <2>3. ASSUME NEW pc, Goto(a, pc)
          PROVE  OthersKept(a) /\ Top(a)'.pc = pc /\ Top(a)'.op = Top(a).op /\ Top(a)'.id = Top(a).id
      BY <2>0, <2>1, <2>3, GotoMoves
    <2>4. CASE Push(a)
      BY <2>0, <2>2, <2>3, <2>4 DEF Push, Moves, Lands
    <2>5. CASE Ring(a)
      BY <2>0, <2>2, <2>3, <2>5 DEF Ring, Moves, Lands
    <2>6. CASE SendCheck(a)
      <3>1. UNCHANGED <<queue, bytes, done>> /\ Top(a).pc = "check"
        BY <2>6 DEF SendCheck, At
      <3>2. Calm(a)
        BY <3>1 DEF Calm, At
      <3>3. CASE Becomes(a, EndOfCall(Top(a)))
        BY <2>0, <2>2, <3>2, <3>3 DEF Moves
      <3>4. CASE Top(a).id \notin done /\ Goto(a, IF a \in Threads THEN "poll" ELSE "get")
        <4>1. a \in Loopers => a \notin Threads
          BY ConstantsAssumption
        <4> QED BY <2>0, <2>3, <3>1, <3>2, <3>4, <4>1 DEF Moves, Lands
      <3> QED BY <2>6, <3>3, <3>4 DEF SendCheck
    <2>7. CASE Woken(a)
      <3>1. UNCHANGED queue /\ Top(a).pc = "poll" /\ bytes' = [bytes EXCEPT ![SleepsOn(a)] = Drained(SleepsOn(a))]
        BY <2>7 DEF Woken, At
      <3>2. Calm(a)
        BY <2>0, <3>1 DEF Calm, At, LInv, TypeOK
      <3>3. Goto(a, IF a \in Threads THEN "check" ELSE "get")
        BY <2>7 DEF Woken
      <3>4. a \notin Threads => a \in Loopers
        BY DEF Actors
      <3> QED BY <2>0, <2>3, <3>1, <3>2, <3>3, <3>4 DEF Moves, Lands, Past
    <2> QED BY <1>6, <2>4, <2>5, <2>6, <2>7 DEF CallStep
  <1>7. ASSUME NEW l \in Loopers, RunCheck(l) \/ NoMessage(l) \/ Timeout(l) PROVE l \in Actors /\ Moves(l)
    <2>0. l \in Actors /\ top[l] > 0 /\ UNCHANGED <<queue, bytes, tls, done>> /\ Top(l).pc \in InLoop
      BY <1>7 DEF RunCheck, NoMessage, Timeout, At, Actors, InLoop
    <2>1. \A b \in Actors \ {l} : SleepsOn(b)' = SleepsOn(b)
      BY <2>0 DEF SleepsOn
    <2>2. Calm(l)
      BY <2>0 DEF Calm, At, InLoop
    <2>3. CASE Return(l)
      BY <2>0, <2>1, <2>2, <2>3, Effects, MovedStacks DEF Moves, Lands
    <2>4. ASSUME top' = top, NEW pc, Goto(l, pc)
          PROVE  OthersKept(l) /\ Top(l)'.pc = pc /\ Top(l)'.op = Top(l).op /\ Top(l)'.id = Top(l).id
      BY <2>0, <2>1, <2>4, GotoMoves
    <2>5. CASE RunCheck(l)
      <3>1. CASE Goto(l, "get") /\ top' = top
        <4>1. Top(l).op # "send"
          BY <2>0, <2>5, TidyFrames DEF RunCheck
        <4> QED BY <2>0, <2>2, <2>4, <3>1, <4>1 DEF Moves, Lands
      <3> QED BY <2>3, <2>0, <2>5, <3>1 DEF RunCheck
    <2>6. CASE NoMessage(l) \/ Timeout(l)
      <3>1. /\ Top(l).pc \in {"get", "poll"} /\ top' = top
            /\ \E pc \in InLoop : Goto(l, pc) /\ (pc = "poll" => queue[l] = <<>>)
        BY <2>6 DEF NoMessage, Timeout, At, InLoop
      <3>2. PICK pc \in InLoop : Goto(l, pc) /\ (pc = "poll" => queue[l] = <<>>)
        BY <3>1
      <3> QED BY <2>0, <2>2, <2>4, <3>1, <3>2 DEF Moves, Lands, Past
    <2> QED BY <1>7, <2>5, <2>6
  <1>8. ASSUME NEW l \in Loopers, Dispatch(l) PROVE l \in Actors /\ Moves(l)
    <2> DEFINE f == DispatchFrame(l, Head(queue[l]))
    <2>1. /\ Head(queue[l]) \in GoodMsg /\ Call(l, "check", f) /\ top[l] > 0 /\ l \in Actors /\ "check" \in InLoop
          /\ queue' = [queue EXCEPT ![l] = Tail(queue[l])]
      BY <1>8, DispatchEffect
    <2>2. f \in GoodFrame /\ f.pc = "body"
      BY <2>1, CalledFrames
    <2> HIDE DEF f
    <2>3. Stacked(l, "check", f) /\ top[l] < MaxDepth
      BY <2>1, <2>2, Effects
    <2>4. UNCHANGED <<bytes, tls, done>> /\ Top(l).pc = "get"
      BY <1>8 DEF Dispatch, At
    <2>5. OthersKept(l) /\ Top(l)'.pc = "body"
      BY <2>1, <2>2, <2>3, <2>4, MovedStacks DEF SleepsOn
    <2>6. Calm(l)
      BY <2>1, <2>4 DEF Calm, At, LInv, TypeOK
    <2> QED BY <2>1, <2>5, <2>6 DEF Moves, Lands
  <1>9. ASSUME NEW l \in Loopers, NEW cb \in {"timer", "io"}, Callback(l, cb) PROVE l \in Actors /\ Moves(l)
    <2> DEFINE f == Activation(cb, NoMsg, "body")
               pc == IF cb = "timer" THEN "poll" ELSE "get"
    <2>1. f \in GoodFrame /\ f.pc = "body"
      BY CalledFrames
    <2>2. Call(l, pc, f) /\ top[l] > 0 /\ UNCHANGED <<queue, bytes, tls, done>> /\ Top(l).pc = "poll"
      BY <1>9 DEF Callback, At
    <2>3. pc \in InLoop /\ l \in Actors
      BY DEF InLoop, Actors
    <2> HIDE DEF f, pc
    <2>4. Stacked(l, pc, f) /\ top[l] < MaxDepth
      BY <2>1, <2>2, <2>3, Effects
    <2>5. OthersKept(l) /\ Top(l)'.pc = "body"
      BY <2>1, <2>2, <2>3, <2>4, MovedStacks DEF SleepsOn
    <2> QED BY <2>2, <2>3, <2>5 DEF Moves, Lands, Calm, At
  <1>10. ASSUME NEW l \in Loopers, HandlerReturns(l) \/ SetDone(l) \/ Wakeup(l) \/ WakeupRing(l) \/ OnQuit(l)
         PROVE  l \in Actors /\ Moves(l)
    <2>0. l \in Actors /\ top[l] > 0 /\ tls' = tls
      BY <1>10 DEF HandlerReturns, SetDone, Wakeup, WakeupRing, OnQuit, At, Actors
    <2>1. Return(l) \/ (top' = top /\ \E pc \in {"reply", "wake", "wakering"} : Goto(l, pc))
      BY <1>10 DEF HandlerReturns, SetDone, Wakeup, WakeupRing, OnQuit
    <2>2. OthersKept(l) /\ (Popped(l) \/ Top(l)'.pc \in {"reply", "wake", "wakering"})
      <3>1. \A b \in Actors \ {l} : SleepsOn(b)' = SleepsOn(b)
        BY <2>0 DEF SleepsOn
      <3>2. CASE Return(l)
        BY <2>0, <3>1, <3>2, Effects, MovedStacks
      <3>3. ASSUME top' = top, NEW pc \in {"reply", "wake", "wakering"}, Goto(l, pc)
            PROVE  OthersKept(l) /\ Top(l)'.pc = pc
        BY <2>0, <3>1, <3>3, GotoMoves
      <3> QED BY <2>1, <3>2, <3>3
    <2>3. Lands(l)
      BY <2>2 DEF Lands
    <2>4. CASE HandlerReturns(l) \/ OnQuit(l)
      <3>1. Top(l).pc = "body" /\ done' = done
        BY <2>4 DEF HandlerReturns, OnQuit, At
      <3>2. SleepsOn(l) = l /\ l \in Sockets
        BY ConstantsAssumption DEF SleepsOn, Sockets
      <3>3. /\ \A d \in Loopers \ {l} : queue'[d] = queue[d]
            /\ \A s \in Sockets \ {l} : bytes'[s] = bytes[s]
        BY <2>4 DEF HandlerReturns, OnQuit, LInv, TypeOK
      <3> QED BY <2>0, <2>2, <2>3, <3>1, <3>2, <3>3 DEF Moves, Calm, At
    <2> QED BY <1>10, <2>0, <2>2, <2>3, <2>4 DEF Moves
  <1>11. ASSUME NEW l \in Loopers, OnDestroy(l) PROVE l \in Actors /\ Moves(l)
    <2>1. l \in Actors /\ top[l] > 0 /\ Top(l).pc = "body" /\ UNCHANGED <<queue, bytes, tls, done>>
      BY <1>11 DEF OnDestroy, At, Actors
    <2>2. Calm(l) /\ \A b \in Actors \ {l} : SleepsOn(b)' = SleepsOn(b)
      BY <2>1 DEF Calm, At, SleepsOn
    <2>3. CASE Return(l)
      BY <2>1, <2>2, <2>3, Effects, MovedStacks DEF Moves, Lands
    <2>4. ASSUME NEW g, Becomes(l, g), top' = top, g.pc \in {"push", "body"} PROVE Moves(l)
      BY <2>1, <2>2, <2>4, Effects, MovedStacks DEF Moves, Lands
    <2> QED BY <1>11, <2>1, <2>3, <2>4, DestroyEffect
  <1>12. ASSUME NEW l \in Loopers, SetExitEvent(l) \/ Free(l)
         PROVE  UNCHANGED <<queue, bytes, frame, top, tls, done>>
    BY <1>12 DEF SetExitEvent, Free
  <1>13. UNCHANGED vars => UNCHANGED <<queue, bytes, frame, top, tls, done>>
    BY DEF vars
  <1> QED
    BY <1>3, <1>4, <1>5, <1>6, <1>7, <1>8, <1>9, <1>10, <1>11, <1>12, <1>13 DEF Next, LoopStep

-----------------------------------------------------------------------------
(* Rings *)

Rings(s) == bytes[s] > 0 \/ RingPending(s)

\* The byte that is there, or on its way, is read by nobody but the one it is for.
LEMMA RingsKept ==
  ASSUME LInv, NEW a \in Actors, Moves(a), NEW s \in Sockets, s # SleepsOn(a), Rings(s)
  PROVE  Rings(s)'
  <1>0. OthersKept(a) /\ top[a] > 0 /\ bytes \in [Sockets -> 0..SockCap] /\ SockCap \in Nat \ {0}
    BY ConstantsAssumption DEF Moves, LInv, TypeOK
  <1>1. ASSUME NEW b \in Actors, b # a, \/ At(b, "ring") /\ Top(b).dst = s
                                        \/ At(b, "wakering") /\ Top(b).msg.from = s
        PROVE  RingPending(s)'
    <2>1. top'[b] = top[b] /\ top[b] > 0 /\ Top(b)' = Top(b)
      BY <1>0, <1>1 DEF OthersKept, At
    <2> QED BY <1>1, <2>1 DEF RingPending, At
  <1>2. bytes'[s] = bytes[s] \/ bytes'[s] = Rung(s)
    BY <1>0 DEF Moves, Calm, Push, Ring, SetDone, Wakeup, WakeupRing
  <1>3. bytes[s] \in Nat /\ Rung(s) > 0
    BY <1>0 DEF Rung
  <1>4. CASE bytes[s] > 0
    BY <1>2, <1>3, <1>4 DEF Rings
  <1>5. CASE At(a, "ring") /\ Top(a).dst = s
    <2>1. Ring(a)
      BY <1>5 DEF Moves, Calm, Push, SetDone, Wakeup, WakeupRing, At
    <2>2. bytes'[s] = Rung(s)
      BY <1>0, <1>5, <2>1 DEF Ring
    <2> QED BY <1>3, <2>2 DEF Rings
  <1>6. CASE At(a, "wakering") /\ Top(a).msg.from = s
    <2>1. WakeupRing(a)
      BY <1>6 DEF Moves, Calm, Push, Ring, SetDone, Wakeup, At
    <2>2. bytes'[s] = Rung(s)
      BY <1>0, <1>6, <2>1 DEF WakeupRing
    <2> QED BY <1>3, <2>2 DEF Rings
  <1> QED BY <1>1, <1>4, <1>5, <1>6 DEF Rings, RingPending

\* The frame on top once a has pushed, set the flag or woken somebody.
LEMMA AfterGoto ==
  ASSUME LInv, NEW a \in Actors, Moves(a), top' = top, NEW pc, Goto(a, pc)
  PROVE  At(a, pc)' /\ Top(a)'.msg = Top(a).msg /\ Top(a)'.dst = Top(a).dst
  <1>1. top[a] > 0 /\ \A b \in Actors \ {a} : SleepsOn(b)' = SleepsOn(b)
    BY DEF Moves, OthersKept
  <1>2. Top(a)'.pc = pc /\ Top(a)'.msg = Top(a).msg /\ Top(a)'.dst = Top(a).dst
    BY <1>1, GotoMoves
  <1> QED BY <1>1, <1>2 DEF At

\* The list of another looper grows with a ring on its way, and never shrinks.
LEMMA ListGrows ==
  ASSUME LInv, NEW a \in Actors, Moves(a), NEW l \in Loopers, l # a
  PROVE  /\ queue[l] # <<>> => queue'[l] # <<>>
         /\ queue'[l] # <<>> => queue[l] # <<>> \/ RingPending(l)'
  <1>0. queue \in [Loopers -> Seq(GoodMsg)] /\ top[a] > 0
    BY DEF LInv, Shape, Moves
  <1>1. ASSUME NEW m PROVE Put(queue[l], m) # <<>>
    <2>1. Len(Append(queue[l], m)) = Len(queue[l]) + 1 /\ Len(queue[l]) \in Nat
      BY <1>0
    <2>2. Len(Append(queue[l], m)) # 0
      BY <2>1
    <2> QED BY <2>2 DEF Put
  <1>2. CASE queue' = queue \/ Calm(a)
    BY <1>2 DEF Calm
  <1>3. CASE Push(a) /\ queue' # queue
    <2>1. /\ queue' = [queue EXCEPT ![Top(a).dst] = Put(@, PushedMsg(a))]
          /\ Goto(a, "ring") /\ top' = top
      BY <1>3 DEF Push, PushedMsg
    <2>2. At(a, "ring")' /\ Top(a)'.dst = Top(a).dst
      BY <2>1, AfterGoto
    <2>3. CASE l = Top(a).dst
      BY <1>0, <1>1, <2>1, <2>2, <2>3 DEF RingPending
    <2>4. CASE l # Top(a).dst
      BY <1>0, <2>1, <2>4
    <2> QED BY <2>3, <2>4
  <1>4. CASE Wakeup(a) /\ queue' # queue
    <2>1. /\ queue' = [queue EXCEPT ![Top(a).msg.from] = Put(@, Posted("null", 0))]
          /\ Goto(a, "wakering") /\ top' = top
      BY <1>4 DEF Wakeup, WithNull
    <2>2. At(a, "wakering")' /\ Top(a)'.msg = Top(a).msg
      BY <2>1, AfterGoto
    <2>3. CASE l = Top(a).msg.from
      BY <1>0, <1>1, <2>1, <2>2, <2>3 DEF RingPending
    <2>4. CASE l # Top(a).msg.from
      BY <1>0, <2>1, <2>4
    <2> QED BY <2>3, <2>4
  <1>5. Ring(a) \/ SetDone(a) \/ WakeupRing(a) => queue' = queue
    BY DEF Ring, SetDone, WakeupRing
  <1> QED BY <1>2, <1>3, <1>4, <1>5 DEF Moves

\* The frame a comes back to.
LEMMA BackBelow ==
  ASSUME LInv, NEW l \in Loopers, top[l] > 0, Popped(l), top'[l] > 0, NEW S, Below(S)
  PROVE  Top(l)'.pc \in S
  <1>1. l \in Actors /\ top[l] \in 1..MaxDepth
    BY TopType DEF Actors
  <1>2. top'[l] = top[l] - 1 /\ top[l] - 1 \in 1..MaxDepth /\ top[l] - 1 \in 1..top[l] /\ top[l] - 1 < top[l]
    BY <1>1, DepthType DEF Popped
  <1>3. frame'[l][top[l] - 1] = frame[l][top[l] - 1]
    BY <1>1, <1>2 DEF Popped
  <1> QED BY <1>2, <1>3 DEF Below, Top

\* A step that overlooks no message.
LEMMA RingStep ==
  ASSUME LInv, Tidy, [Next]_vars, NoLostRing, Below({"check", "get"})
  PROVE  NoLostRing'
  <1>1. CASE UNCHANGED <<queue, bytes, frame, top, tls, done>>
    BY <1>1 DEF NoLostRing, RingPending, At, Top
  <1>2. ASSUME NEW a \in Actors, Moves(a) PROVE NoLostRing'
    <2>1. SUFFICES ASSUME NEW l \in Loopers, At(l, "poll")', queue'[l] # <<>>
                   PROVE  Rings(l)'
      BY DEF NoLostRing, Rings
    <2>2. CASE l = a
      <3>1. top[l] > 0 /\ Lands(l) /\ top'[l] > 0 /\ Top(l)'.pc = "poll"
        BY <1>2, <2>1, <2>2 DEF Moves, At
      <3>2. CASE Popped(l)
        BY <3>1, <3>2, BackBelow
      <3> QED BY <2>1, <3>1, <3>2 DEF Lands
    <2>3. CASE l # a
      <3>0. l \in Actors \ {a} /\ l \in Sockets
        BY <2>3 DEF Actors, Sockets
      <3>1. At(l, "poll")
        BY <1>2, <2>1, <3>0 DEF Moves, OthersKept, At
      <3>2. l # SleepsOn(a)
        BY <2>3, ConstantsAssumption DEF SleepsOn, LInv, TypeOK
      <3>3. CASE queue[l] # <<>>
        <4>1. Rings(l)
          BY <3>1, <3>3 DEF NoLostRing, Rings
        <4> QED BY <1>2, <3>0, <3>2, <4>1, RingsKept
      <3>4. CASE queue[l] = <<>>
        BY <1>2, <2>1, <2>3, <3>4, ListGrows DEF Rings
      <3> QED BY <3>3, <3>4
    <2> QED BY <2>2, <2>3
  <1> QED BY <1>1, <1>2, MovesStep

-----------------------------------------------------------------------------
(* Senders *)

\* What gets a out of getMessage.
Helped(a) ==
  \/ a \in Loopers /\ queue[a] # <<>>
  \/ a \in Threads /\ Rings(tls[a])
  \/ \E l \in Loopers : At(l, "wake") /\ Top(l).msg.from = SleepsOn(a)

\* The done flag is set by whoever is about to wake the sender up.
LEMMA FlagStep ==
  ASSUME LInv, IdsFit, NEW a \in Actors, Moves(a), NEW b \in Actors, b # a, Past(b)', ~Past(b)
  PROVE  Helped(b)'
  <1>1. top'[b] = top[b] /\ top[b] > 0 /\ Top(b)' = Top(b) /\ SleepsOn(b)' = SleepsOn(b)
    BY DEF Moves, OthersKept, Past
  <1>2. Top(b).op = "send" /\ Top(b).id \in done' /\ Top(b).id \notin done
    BY <1>1 DEF Past
  <1>3. SetDone(a) /\ a \in Loopers
    BY <1>2 DEF Moves, Calm, Push, Ring, Wakeup, WakeupRing
  <1> DEFINE m == Top(a).msg
             k0 == top[b]
  <1>4. done' = done \cup {m.id} /\ Goto(a, "wake") /\ top' = top /\ top[a] > 0
    BY <1>3 DEF SetDone, At
  <1>5. Top(b).id = m.id /\ m.id \in MsgIds /\ m.from \in Senders
    <2>1. m \in GoodMsg
      BY <1>4, TopType DEF GoodFrame, FrameOK
    <2>2. m.from # None
      BY <1>3, <1>4, TopType DEF SetDone, At, GoodFrame, FrameOK
    <2>3. m.id \in 0..MaxMsg /\ m.id # 0 /\ m.from \in Senders
      BY <2>1, <2>2 DEF GoodMsg, Msg, Senders
    <2>4. m.id \in MsgIds
      BY <2>3, ConstantsAssumption DEF MsgIds
    <2> QED BY <1>2, <1>4, <2>3, <2>4
  <1>6. k0 \in 1..MaxDepth /\ k0 \in 1..k0 /\ frame[b][k0] = Top(b)
    BY <1>1, TopType, DepthType
  <1>7. Sends(b, k0, m.id)
    BY <1>2, <1>5, <1>6 DEF Sends, Calls
  <1>8. Exists(m.id, m.from)
    <2>1. top[a] \in 1..top[a] /\ frame[a][top[a]] = Top(a)
      BY <1>4, TopType, DepthType
    <2> QED BY <1>3, <2>1 DEF Exists, InHandler
  <1>9. m.from = SleepsOn(b)
    <2>1. IdFits(m.id)
      BY <1>5 DEF IdsFit
    <2> HIDE DEF m, k0
    <2> QED BY <1>5, <1>6, <1>7, <1>8, <2>1 DEF IdFits
  <1>10. At(a, "wake")' /\ Top(a)'.msg = m
    BY <1>4, AfterGoto
  <1> QED BY <1>1, <1>3, <1>9, <1>10 DEF Helped

\* Help for another sender stays, or becomes more.
LEMMA HelpKept ==
  ASSUME LInv, StoppedIsDrained, TlsDistinct, NEW a \in Actors, Moves(a),
         NEW b \in Actors, b # a, Past(b), Helped(b)
  PROVE  Helped(b)'
  <1>1. top[b] > 0 /\ top[a] > 0 /\ SleepsOn(b)' = SleepsOn(b) /\ OthersKept(a)
    BY DEF Moves, OthersKept, Past
  <1>2. b \in Threads => tls[b] \in TlsLoopers /\ tls'[b] = tls[b] /\ SleepsOn(b) = tls[b]
    <2>1. ASSUME b \in Threads PROVE tls[b] \in TlsLoopers
      BY <2>1 DEF Past, Top, LInv, Shape
    <2> QED BY <1>1, <2>1 DEF SleepsOn
  <1>3. CASE b \in Loopers /\ queue[b] # <<>>
    BY <1>3, ListGrows DEF Helped
  <1>4. CASE b \in Threads /\ Rings(tls[b])
    <2>1. tls[b] # SleepsOn(a)
      <3>1. CASE a \in Threads
        BY <1>2, <1>4, <3>1, ConstantsAssumption DEF SleepsOn, TlsDistinct
      <3>2. CASE a \notin Threads
        BY <1>2, <1>4, <3>2, ConstantsAssumption DEF SleepsOn, Actors
      <3> QED BY <3>1, <3>2
    <2>2. tls[b] \in Sockets
      BY <1>2, <1>4 DEF Sockets
    <2>3. \A s \in Sockets : s = tls[b] => Rings(s)'
      BY <1>4, <2>1, <2>2, RingsKept
    <2>4. Rings(tls[b])'
      BY <1>2, <1>4, <2>2, <2>3
    <2> QED BY <1>4, <2>4 DEF Helped
  <1>5. ASSUME NEW l \in Loopers, l # a, At(l, "wake"), Top(l).msg.from = SleepsOn(b) PROVE Helped(b)'
    <2>1. top'[l] = top[l] /\ top[l] > 0 /\ Top(l)' = Top(l)
      BY <1>1, <1>5 DEF OthersKept, At, Actors
    <2> QED BY <1>1, <1>5, <2>1 DEF Helped, At
  <1>6. CASE a \in Loopers /\ At(a, "wake") /\ Top(a).msg.from = SleepsOn(b)
    <2>1. Wakeup(a)
      BY <1>6 DEF Moves, Calm, Push, Ring, SetDone, WakeupRing, At
    <2>2. CASE b \in Threads
      <3>1. SleepsOn(b) \in TlsLoopers /\ SleepsOn(b) \notin Loopers
        BY <1>2, <2>2, ConstantsAssumption
      <3>2. Goto(a, "wakering") /\ top' = top
        BY <1>6, <2>1, <3>1 DEF Wakeup
      <3>3. At(a, "wakering")' /\ Top(a)'.msg.from = tls'[b]
        BY <1>2, <1>6, <2>2, <3>2, AfterGoto
      <3>4. Rings(tls[b])'
        BY <3>3 DEF Rings, RingPending
      <3> QED BY <2>2, <3>4 DEF Helped
    <2>3. CASE b \notin Threads
      <3>1. b \in Loopers /\ SleepsOn(b) = b /\ b \notin TlsLoopers
        BY <2>3, ConstantsAssumption DEF Actors, SleepsOn
      <3>2. life[b] = "run"
        BY <1>1, <3>1 DEF StoppedIsDrained
      <3>3. queue' = [queue EXCEPT ![b] = Put(@, Posted("null", 0))]
        BY <1>6, <2>1, <3>1, <3>2 DEF Wakeup, WithNull
      <3>4. queue'[b] # <<>>
        BY <3>1, <3>3 DEF Put, LInv, Shape
      <3> QED BY <3>1, <3>4 DEF Helped
    <2> QED BY <2>2, <2>3
  <1> QED BY <1>3, <1>4, <1>5, <1>6 DEF Helped

\* A step that strands nobody.
LEMMA SenderStep ==
  ASSUME LInv, StoppedIsDrained, Tidy, IdsFit, TlsDistinct, [Next]_vars, NoStrandedSender, Below({"check"})
  PROVE  NoStrandedSender'
  <1>0. \A a \in Actors : Past(a) => Helped(a)
    BY DEF NoStrandedSender, Past, Helped, Rings
  <1>1. SUFFICES \A a \in Actors : Past(a)' => Helped(a)'
    BY DEF NoStrandedSender, Past, Helped, Rings
  <1>2. CASE UNCHANGED <<queue, bytes, frame, top, tls, done>>
    BY <1>0, <1>2 DEF Past, Helped, Rings, RingPending, At, Top, SleepsOn
  <1>3. ASSUME NEW a \in Actors, Moves(a), NEW b \in Actors, Past(b)' PROVE Helped(b)'
    <2>1. CASE b # a
      BY <1>0, <1>3, <2>1, FlagStep, HelpKept
    <2>2. CASE b = a
      <3>1. top[a] > 0 /\ Lands(a) /\ OthersKept(a)
        BY <1>3 DEF Moves
      <3>2. CASE Popped(a)
        <4>1. a \notin Threads
          BY <1>3, <2>2, <3>1, <3>2 DEF Popped, Past, LInv, Shape
        <4>2. a \in Loopers
          BY <4>1 DEF Actors
        <4> QED BY <1>3, <2>2, <3>1, <3>2, <4>2, BackBelow DEF Past
      <3>3. CASE a \in Loopers /\ Past(a) /\ queue'[a] = queue[a]
        <4>1. Helped(a) /\ a \notin Threads
          BY <1>0, <3>3, ConstantsAssumption
        <4>2. CASE queue[a] # <<>>
          BY <2>2, <3>3, <4>2 DEF Helped
        <4>3. ASSUME NEW l \in Loopers, At(l, "wake"), Top(l).msg.from = SleepsOn(a) PROVE Helped(a)'
          <5>1. l # a /\ l \in Actors
            BY <3>3, <4>3 DEF Past, At, Actors
          <5>2. top'[l] = top[l] /\ top[l] > 0 /\ Top(l)' = Top(l)
            BY <3>1, <4>3, <5>1 DEF OthersKept, At
          <5>3. SleepsOn(a)' = SleepsOn(a)
            BY <4>1 DEF SleepsOn
          <5> QED BY <4>3, <5>2, <5>3 DEF Helped, At
        <4> QED BY <2>2, <4>1, <4>2, <4>3 DEF Helped
      <3> QED BY <1>3, <2>2, <3>1, <3>2, <3>3 DEF Lands, Past
    <2> QED BY <2>1, <2>2
  <1> QED BY <1>2, <1>3, MovesStep

-----------------------------------------------------------------------------
(* The theorems *)

\* The invariant holds when the loopers start, and is kept.
LEMMA WakeupInv ==
  /\ Init => WInv /\ BelowOK
  /\ WInv /\ BelowOK /\ [Next]_vars => (WInv /\ BelowOK)'
  <1>1. ASSUME Init PROVE WInv /\ BelowOK
    <2>1. LInv /\ StoppedIsDrained
      BY <1>1, InitShape DEF Init, StoppedIsDrained
    <2>2. \A a \in Actors : /\ top[a] = 1 /\ 1 \in 1..MaxDepth
                            /\ frame[a][1] = IF a \in Loopers THEN Activation("run", NoMsg, "get")
                                                              ELSE Activation("thread", NoMsg, "body")
      BY <1>1, DepthType DEF Init
    <2>3. /\ \A a \in Actors : FrameTidy(frame[a][1]) /\ frame[a][1].id = 0 /\ frame[a][1].msg = NoMsg
          /\ NoMsg.id = 0
      BY <2>2 DEF FrameTidy, Activation, InLoop, NoMsg
    <2>4. Tidy /\ BelowOK
      <3>1. \A l \in Loopers : l \in Actors
        BY DEF Actors
      <3> QED BY <2>2, <2>3, <3>1 DEF Tidy, BelowOK, Below
    <2>5. TlsDistinct
      BY <1>1 DEF Init, TlsDistinct
    <2>6. IdsFit
      <3>1. \A i \in MsgIds : i # 0
        BY ConstantsAssumption DEF MsgIds
      <3>2. \A a \in Actors, k \in 1..MaxDepth, i \in MsgIds : ~Calls(a, k, i)
        BY <2>2, <2>3, <3>1 DEF Calls
      <3>3. \A i \in MsgIds, s \in Senders : ~Exists(i, s)
        <4>1. \A l \in Loopers : l \in Actors /\ queue[l] = <<>>
          BY <1>1 DEF Init, Actors
        <4>2. \A i \in MsgIds, s \in Senders : ~InHandler(i, s)
          BY <2>2, <2>3, <3>1, <4>1 DEF InHandler
        <4>3. \A i \in MsgIds, s \in Senders : ~InList(i, s)
          BY <4>1 DEF InList
        <4> QED BY <4>2, <4>3 DEF Exists
      <3>4. done = {}
        BY <1>1 DEF Init
      <3> QED BY <3>2, <3>3, <3>4 DEF IdsFit, IdFits, Sends, Pushes
    <2> QED BY <2>1, <2>4, <2>5, <2>6 DEF WInv
  <1>2. ASSUME WInv, BelowOK, [Next]_vars PROVE (WInv /\ BelowOK)'
    <2>1. LInv /\ StoppedIsDrained /\ Tidy /\ IdsFit /\ TlsDistinct
      BY <1>2 DEF WInv
    <2>2. LInv' /\ StoppedIsDrained' /\ IdsFit' /\ TlsDistinct' /\ Tidy' /\ BelowOK'
      BY <1>2, <2>1, TypeStep, DrainedStep, IdsStep, TlsStep, FramesStep
    <2> QED BY <2>2 DEF WInv
  <1> QED BY <1>1, <1>2

\* Callbacks are not forgotten.
LEMMA CallbacksCounted == LInv /\ Tidy /\ [Next]_vars => (callbacks' = 0 => callbacks = 0)
  BY StackingStep DEF Stacking

\* NoLostRing: a looper in epoll_wait with messages in its list has a byte to
\* read or one on its way, however many loopers and threads push while it
\* tests the list, goes to sleep and drains its socket, socket callbacks that
\* send and their nested loops included.  Timer callbacks are the exception
\* (getMessage does not look at the list after them, and its timer ends the
\* sleep): no looper has timers, or none of them was due yet.
THEOREM NoRingIsLost == Spec => [](Timed = {} \/ callbacks = 0 => NoLostRing)
  <1> DEFINE Inv == WInv /\ BelowOK /\ (Timed = {} \/ callbacks = 0 => NoLostRing)
  <1>1. Init => Inv
    <2>1. ASSUME Init PROVE NoLostRing
      <3>1. \A l \in Loopers : queue[l] = <<>>
        BY <2>1 DEF Init
      <3> QED BY <3>1 DEF NoLostRing
    <2> QED BY <2>1, WakeupInv
  <1>2. Inv /\ [Next]_vars => Inv'
    <2>1. SUFFICES ASSUME Inv, [Next]_vars, Timed = {} \/ callbacks' = 0 PROVE NoLostRing'
      BY WakeupInv
    <2>2. LInv /\ Tidy /\ (Timed = {} \/ callbacks = 0)
      BY <2>1, CallbacksCounted DEF WInv
    <2>3. Below({"check", "get"})
      BY <2>1, <2>2 DEF BelowOK, Below
    <2> QED BY <2>1, <2>2, <2>3, RingStep
  <1> QED BY <1>1, <1>2, PTL DEF Spec

\* NoStrandedSender: while no callback of the application has run inside
\* getMessage, a sender that is past its test of the done flag when the flag
\* is set has a BM_NULL, or a byte, to get out of getMessage.  Once one has,
\* the property is false, which the run stranded shows.
THEOREM NoSenderStranded == Spec => [](callbacks = 0 => NoStrandedSender)
  <1> DEFINE Inv == WInv /\ BelowOK /\ (callbacks = 0 => NoStrandedSender)
  <1>1. Init => Inv
    <2>1. ASSUME Init PROVE NoStrandedSender
      <3>1. done = {}
        BY <2>1 DEF Init
      <3> QED BY <3>1 DEF NoStrandedSender
    <2> QED BY <2>1, WakeupInv
  <1>2. Inv /\ [Next]_vars => Inv'
    <2>1. SUFFICES ASSUME Inv, [Next]_vars, callbacks' = 0 PROVE NoStrandedSender'
      BY WakeupInv
    <2>2. LInv /\ StoppedIsDrained /\ Tidy /\ IdsFit /\ TlsDistinct /\ callbacks = 0
      BY <2>1, CallbacksCounted DEF WInv
    <2>3. Below({"check"})
      BY <2>1, <2>2 DEF BelowOK
    <2> QED BY <2>1, <2>2, <2>3, SenderStep
  <1> QED BY <1>1, <1>2, PTL DEF Spec

=============================================================================
