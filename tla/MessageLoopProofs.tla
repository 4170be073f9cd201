------------------------- MODULE MessageLoopProofs -------------------------
(***************************************************************************)
(* Theorems about MessageLoop, for any loopers, threads, bounds and owner  *)
(* relation: type correctness, that a looper stops drained, that a looper  *)
(* outlives its children, and that the caller of sendMessage never waits   *)
(* for a message that nobody is going to answer.                           *)
(***************************************************************************)
EXTENDS MessageLoop, TLAPS

-----------------------------------------------------------------------------
(* The inductive invariant.                                                *)

\* A message that asks for an answer is a user message with an id.
GoodMsg == {m \in Msg : m.from # None => m.id # 0 /\ m.kind = "user"}

\* Where a frame is says what its fields hold.
FrameOK(f) ==
  /\ f.msg \in GoodMsg
  /\ f.msg.from # None => f.cb = "msg"
  /\ f.pc \in {"push", "ring"} => f.dst \in Loopers
  /\ f.op = "send" => f.dst \in Loopers /\ f.id # 0 /\ f.kind = "user"
  /\ f.pc \in {"reply", "wake", "wakering"} => f.msg.from # None

GoodFrame == {f \in Frame : FrameOK(f)}

Stacks == [Actors -> [1..MaxDepth -> GoodFrame]]

\* The list and the stack hold such messages and frames; Run is at the bottom
\* of the stack; a thread has one frame, and a TLS looper while it sends.
Shape ==
  /\ queue \in [Loopers -> Seq(GoodMsg)]
  /\ frame \in Stacks
  /\ \A a \in Actors : \A k \in 1..MaxDepth : frame[a][k].cb = "run" => k = 1
  /\ \A t \in Threads : top[t] = 1 /\ (frame[t][1].op = "send" => tls[t] \in TlsLoopers)

LInv == TypeOK /\ Shape

-----------------------------------------------------------------------------
(* The stack operations.                                                   *)

\* There is room for the frame of Run.
LEMMA DepthType == MaxDepth \in Nat /\ MaxDepth >= 2
  BY ConstantsAssumption DEF MaxDepth

\* Becomes replaces one frame, by one of the right shape.
LEMMA BecomesFrame ==
  ASSUME LInv, NEW a \in Actors, top[a] > 0, NEW f \in GoodFrame, Becomes(a, f)
  PROVE  /\ frame' \in Stacks
         /\ \A b \in Actors : \A k \in 1..MaxDepth :
              frame'[b][k] = IF b = a /\ k = top[a] THEN f ELSE frame[b][k]
  BY DepthType DEF LInv, Shape, TypeOK, Stacks, Becomes

\* The frame of a handler that has nothing on its mind.
LEMMA NoFrameType == NoFrame \in GoodFrame /\ NoFrame.cb = "none" /\ NoFrame.op = "none"
  BY ConstantsAssumption
  DEF NoFrame, GoodFrame, Frame, FrameOK, Activation, NoMsg, GoodMsg, Msg, InLoop

\* Return clears the top frame.
LEMMA ReturnFrame ==
  ASSUME LInv, NEW a \in Actors, top[a] > 0, Return(a)
  PROVE  /\ frame' \in Stacks
         /\ \A b \in Actors : \A k \in 1..MaxDepth :
              frame'[b][k] = IF b = a /\ k = top[a] THEN NoFrame ELSE frame[b][k]
         /\ top' \in [Actors -> 0..MaxDepth]
         /\ \A b \in Actors : top'[b] = IF b = a THEN top[a] - 1 ELSE top[b]
  BY DepthType, NoFrameType DEF LInv, Shape, TypeOK, Stacks, Return

\* Call leaves the caller inside its loop and puts one frame on top.
LEMMA CallFrame ==
  ASSUME LInv, NEW a \in Actors, top[a] > 0, NEW f \in GoodFrame, NEW pc \in InLoop,
         Call(a, pc, f)
  PROVE  /\ frame' \in Stacks
         /\ \A b \in Actors : \A k \in 1..MaxDepth :
              frame'[b][k] = IF b = a /\ k = top[a] THEN [Top(a) EXCEPT !.pc = pc]
                             ELSE IF b = a /\ k = top[a] + 1 THEN f ELSE frame[b][k]
         /\ top' \in [Actors -> 0..MaxDepth]
         /\ \A b \in Actors : top'[b] = IF b = a THEN top[a] + 1 ELSE top[b]
         /\ top[a] < MaxDepth
<1> DEFINE g == [Top(a) EXCEPT !.pc = pc]
<1>1. Top(a) \in GoodFrame
  BY DepthType DEF LInv, Shape, TypeOK, Stacks, Top
<1>2. g \in GoodFrame
  BY <1>1 DEF GoodFrame, FrameOK, Frame, InLoop
<1>3. frame[a] \in [1..MaxDepth -> GoodFrame] /\ top[a] \in 1..MaxDepth
  BY DepthType DEF LInv, Shape, TypeOK, Stacks
<1> HIDE DEF g
<1>4. top[a] < MaxDepth
  BY DEF Call
<1> DEFINE stack == [frame[a] EXCEPT ![top[a]] = g, ![top[a] + 1] = f]
<1>5. /\ stack \in [1..MaxDepth -> GoodFrame]
      /\ \A k \in 1..MaxDepth : stack[k] = IF k = top[a] THEN g
                                         ELSE IF k = top[a] + 1 THEN f ELSE frame[a][k]
  BY <1>2, <1>3, <1>4, DepthType
<1>6. frame' = [frame EXCEPT ![a] = stack]
  BY DEF Call, Top, g
<1> HIDE DEF stack
<1>7. /\ frame' \in Stacks
      /\ \A b \in Actors : frame'[b] = IF b = a THEN stack ELSE frame[b]
  BY <1>5, <1>6 DEF LInv, Shape, Stacks
<1>8. /\ top' \in [Actors -> 0..MaxDepth]
      /\ \A b \in Actors : top'[b] = IF b = a THEN top[a] + 1 ELSE top[b]
  BY <1>3, <1>4, DepthType DEF Call, LInv, TypeOK
<1> QED
  BY <1>4, <1>5, <1>7, <1>8 DEF g

\* The initial state.
LEMMA InitShape == Init => LInv
<1> SUFFICES ASSUME Init PROVE LInv
  OBVIOUS
<1>1. \A cb \in {"run", "thread"}, pc \in {"get", "body"} :
         /\ Activation(cb, NoMsg, pc) \in GoodFrame
         /\ Activation(cb, NoMsg, pc).op = "none"
  BY ConstantsAssumption
  DEF GoodFrame, Frame, FrameOK, Activation, NoMsg, GoodMsg, Msg, InLoop
<1> DEFINE first(a, k) == IF k > 1 THEN NoFrame
                          ELSE IF a \in Loopers THEN Activation("run", NoMsg, "get")
                                                ELSE Activation("thread", NoMsg, "body")
<1>2. \A a \in Actors : \A k \in 1..MaxDepth :
         /\ first(a, k) \in GoodFrame
         /\ first(a, k).cb = "run" => k = 1
         /\ first(a, k).op = "none"
  <2> TAKE a \in Actors
  <2> TAKE k \in 1..MaxDepth
  <2>1. CASE k > 1
    BY <2>1, NoFrameType
  <2>2. CASE ~(k > 1)
    BY <2>2, <1>1, DepthType
  <2> QED
    BY <2>1, <2>2
<1>3. frame = [a \in Actors |-> [k \in 1..MaxDepth |-> first(a, k)]]
  BY DEF Init
<1> HIDE DEF first
<1>4. /\ frame \in Stacks
      /\ \A a \in Actors : \A k \in 1..MaxDepth : frame[a][k] = first(a, k)
  BY <1>2, <1>3 DEF Stacks
<1>5. Shape
  <2>1. queue \in [Loopers -> Seq(GoodMsg)]
    BY DEF Init
  <2>2. top = [a \in Actors |-> 1]
    BY DEF Init
  <2>3. \A t \in Threads : t \in Actors /\ 1 \in 1..MaxDepth
    BY DepthType DEF Actors
  <2>4. \A t \in Threads : top[t] = 1 /\ frame[t][1].op # "send"
    BY <1>2, <1>4, <2>2, <2>3
  <2> QED
    BY <1>2, <1>4, <2>1, <2>4 DEF Shape
<1>6. frame \in [Actors -> [1..MaxDepth -> Frame]]
  BY <1>4 DEF Stacks, GoodFrame
<1>7. TypeOK
  <2>1. queue \in [Loopers -> Seq(Msg)] /\ top \in [Actors -> 0..MaxDepth]
    BY DepthType DEF Init
  <2>2. bytes \in [Sockets -> 0..SockCap] /\ nextId \in 1..(MaxMsg + 1)
        /\ callbacks \in 0..MaxCallbacks
    BY ConstantsAssumption DEF Init
  <2>3. quit \in [Loopers -> BOOLEAN] /\ freed \in [Loopers -> BOOLEAN]
    BY DEF Init
  <2>4. /\ life \in [Loopers -> {"run", "stopped", "exited"}]
        /\ tls \in [Threads -> TlsLoopers \cup {None}]
        /\ done \subseteq MsgIds /\ ack \subseteq MsgIds
        /\ fate \in [MsgIds -> Fates]
    BY DEF Init, Fates
  <2> QED
    BY <1>6, <2>1, <2>2, <2>3, <2>4 DEF TypeOK
<1> QED
  BY <1>5, <1>7 DEF LInv

-----------------------------------------------------------------------------
(* Shape, one lemma per stack operation.                                   *)

\* The variables' types, the list and the stack set apart.
RestOK ==
  /\ bytes \in [Sockets -> 0..SockCap]
  /\ quit \in [Loopers -> BOOLEAN]
  /\ life \in [Loopers -> {"run", "stopped", "exited"}]
  /\ freed \in [Loopers -> BOOLEAN]
  /\ tls \in [Threads -> TlsLoopers \cup {None}]
  /\ done \subseteq MsgIds /\ ack \subseteq MsgIds
  /\ fate \in [MsgIds -> Fates]
  /\ nextId \in 1..(MaxMsg + 1)
  /\ callbacks \in 0..MaxCallbacks

\* The shape of list and stack implies their types.
LEMMA ShapeTypes ==
  ASSUME Shape', RestOK', top' \in [Actors -> 0..MaxDepth]
  PROVE  LInv'
<1>1. \A s \in Seq(GoodMsg) : s \in Seq(Msg)
  BY DEF GoodMsg
<1>2. queue' \in [Loopers -> Seq(Msg)]
  BY <1>1 DEF Shape
<1>3. frame' \in [Actors -> [1..MaxDepth -> Frame]]
  BY DEF Shape, Stacks, GoodFrame
<1> QED
  BY <1>2, <1>3 DEF LInv, TypeOK, RestOK

\* The type of the rest is part of the invariant.
LEMMA RestType == LInv => RestOK
  BY DEF LInv, TypeOK, RestOK

\* The top frame is one of the right shape.
LEMMA TopType ==
  ASSUME LInv, NEW a \in Actors, top[a] > 0
  PROVE  /\ top[a] \in 1..MaxDepth
         /\ Top(a) \in GoodFrame
         /\ Top(a) = frame[a][top[a]]
         /\ Top(a).cb = "run" => top[a] = 1
  BY DepthType DEF LInv, Shape, TypeOK, Stacks, Top

\* A step that replaces the top frame, and keeps what it is a call of.
LEMMA BecomesShape ==
  ASSUME LInv, NEW a \in Actors, top[a] > 0, NEW f \in GoodFrame, Becomes(a, f),
         f.cb = Top(a).cb, top' = top, queue' \in [Loopers -> Seq(GoodMsg)],
         \A t \in Threads \ {a} : tls'[t] = tls[t],
         a \in Threads /\ f.op = "send" => tls'[a] \in TlsLoopers
  PROVE  Shape' /\ top' \in [Actors -> 0..MaxDepth]
<1>1. /\ frame' \in Stacks
      /\ \A b \in Actors : \A k \in 1..MaxDepth :
           frame'[b][k] = IF b = a /\ k = top[a] THEN f ELSE frame[b][k]
  BY BecomesFrame
<1>2. top[a] \in 1..MaxDepth /\ (Top(a).cb = "run" => top[a] = 1)
  BY TopType
<1>3. \A b \in Actors : \A k \in 1..MaxDepth : frame'[b][k].cb = "run" => k = 1
  BY <1>1, <1>2 DEF LInv, Shape
<1>4. \A t \in Threads : t \in Actors /\ 1 \in 1..MaxDepth
  BY DepthType DEF Actors
<1>5. \A t \in Threads : top[t] = 1 /\ (frame'[t][1].op = "send" => tls'[t] \in TlsLoopers)
  BY <1>1, <1>4 DEF LInv, Shape
<1> QED
  BY <1>1, <1>3, <1>5 DEF LInv, Shape, TypeOK

\* A handler of a looper returns.
LEMMA ReturnShape ==
  ASSUME LInv, NEW l \in Loopers, top[l] > 0, Return(l),
         queue' \in [Loopers -> Seq(GoodMsg)], tls' = tls
  PROVE  Shape' /\ top' \in [Actors -> 0..MaxDepth]
<1>0. l \in Actors /\ l \notin Threads
  BY ConstantsAssumption DEF Actors
<1>1. /\ frame' \in Stacks
      /\ \A b \in Actors : \A k \in 1..MaxDepth :
           frame'[b][k] = IF b = l /\ k = top[l] THEN NoFrame ELSE frame[b][k]
      /\ top' \in [Actors -> 0..MaxDepth]
      /\ \A b \in Actors : top'[b] = IF b = l THEN top[l] - 1 ELSE top[b]
  BY <1>0, ReturnFrame
<1>2. \A b \in Actors : \A k \in 1..MaxDepth : frame'[b][k].cb = "run" => k = 1
  <2>1. NoFrame.cb # "run"
    BY NoFrameType
  <2>2. \A b \in Actors : \A k \in 1..MaxDepth : frame[b][k].cb = "run" => k = 1
    BY DEF LInv, Shape
  <2> QED
    BY <1>1, <2>1, <2>2
<1>3. \A t \in Threads : t \in Actors /\ 1 \in 1..MaxDepth /\ t # l
  BY <1>0, DepthType DEF Actors
<1>4. \A t \in Threads : top'[t] = 1 /\ (frame'[t][1].op = "send" => tls'[t] \in TlsLoopers)
  BY <1>1, <1>3 DEF LInv, Shape
<1> QED
  BY <1>1, <1>2, <1>4 DEF Shape

\* A looper calls a handler from inside its loop.
LEMMA CallShape ==
  ASSUME LInv, NEW l \in Loopers, top[l] > 0, NEW f \in GoodFrame, f.cb # "run",
         NEW pc \in InLoop, Call(l, pc, f),
         queue' \in [Loopers -> Seq(GoodMsg)], tls' = tls
  PROVE  Shape' /\ top' \in [Actors -> 0..MaxDepth]
<1>0. l \in Actors /\ l \notin Threads
  BY ConstantsAssumption DEF Actors
<1>1. /\ frame' \in Stacks
      /\ \A b \in Actors : \A k \in 1..MaxDepth :
           frame'[b][k] = IF b = l /\ k = top[l] THEN [Top(l) EXCEPT !.pc = pc]
                          ELSE IF b = l /\ k = top[l] + 1 THEN f ELSE frame[b][k]
      /\ top' \in [Actors -> 0..MaxDepth]
      /\ \A b \in Actors : top'[b] = IF b = l THEN top[l] + 1 ELSE top[b]
  BY <1>0, CallFrame
<1>2. Top(l) \in GoodFrame /\ (Top(l).cb = "run" => top[l] = 1)
  BY <1>0, TopType
<1>3. [Top(l) EXCEPT !.pc = pc].cb = Top(l).cb
  BY <1>2 DEF GoodFrame, Frame
<1>4. \A b \in Actors : \A k \in 1..MaxDepth : frame'[b][k].cb = "run" => k = 1
  BY <1>1, <1>2, <1>3 DEF LInv, Shape
<1>5. \A t \in Threads : t \in Actors /\ 1 \in 1..MaxDepth /\ t # l
  BY <1>0, DepthType DEF Actors
<1>6. \A t \in Threads : top'[t] = 1 /\ (frame'[t][1].op = "send" => tls'[t] \in TlsLoopers)
  BY <1>1, <1>5 DEF LInv, Shape
<1> QED
  BY <1>1, <1>4, <1>6 DEF Shape

-----------------------------------------------------------------------------
(* Every action keeps types and shape.                                     *)

\* The frame of a call that begins.
LEMMA BeginFrame ==
  ASSUME LInv, NEW a \in Actors, NEW op \in {"post", "send"}, NEW kind \in {"user", "quit"},
         NEW dst \in Loopers, op = "send" => kind = "user", BeginCall(a, op, kind, dst)
  PROVE  \E f \in GoodFrame : /\ top[a] > 0 /\ nextId \in 1..MaxMsg /\ Becomes(a, f)
                              /\ f.cb = Top(a).cb /\ f.msg = Top(a).msg
                              /\ f.op = op /\ f.pc = "push"
<1> DEFINE f == [Top(a) EXCEPT !.pc = "push", !.op = op, !.kind = kind, !.dst = dst, !.id = nextId]
<1>1. top[a] > 0 /\ Becomes(a, f) /\ nextId <= MaxMsg
  BY DEF BeginCall, At
<1>2. Top(a) \in Frame /\ FrameOK(Top(a))
  BY <1>1, TopType DEF GoodFrame
<1>3. nextId \in 1..MaxMsg
  BY <1>1, ConstantsAssumption DEF LInv, TypeOK
<1>4. f = [Top(a) EXCEPT !.pc = "push", !.op = op, !.kind = kind, !.dst = dst, !.id = nextId]
  OBVIOUS
<1> HIDE DEF f
<1>5. f = [cb |-> Top(a).cb, msg |-> Top(a).msg, pc |-> "push", op |-> op, kind |-> kind,
           dst |-> dst, id |-> nextId, todo |-> Top(a).todo]
  BY <1>2, <1>4 DEF Frame
<1>6. f \in Frame
  BY <1>2, <1>3, <1>5, ConstantsAssumption DEF Frame
<1>7. FrameOK(f) /\ f.cb = Top(a).cb /\ f.msg = Top(a).msg /\ f.op = op /\ f.pc = "push"
  BY <1>2, <1>3, <1>5 DEF FrameOK
<1> QED
  BY <1>1, <1>3, <1>6, <1>7 DEF GoodFrame

\* postMessage or sendMessage begins.
LEMMA BeginCallType ==
  ASSUME LInv, NEW a \in Actors, NEW op \in {"post", "send"}, NEW kind \in {"user", "quit"},
         NEW dst \in Loopers, op = "send" => kind = "user", BeginCall(a, op, kind, dst),
         tls' \in [Threads -> TlsLoopers \cup {None}],
         \A t \in Threads \ {a} : tls'[t] = tls[t],
         a \in Threads /\ op = "send" => tls'[a] \in TlsLoopers
  PROVE  LInv'
<1>1. PICK f \in GoodFrame : /\ top[a] > 0 /\ nextId \in 1..MaxMsg /\ Becomes(a, f)
                             /\ f.cb = Top(a).cb /\ f.op = op
  BY BeginFrame
<1>5. queue' \in [Loopers -> Seq(GoodMsg)] /\ top' = top
  BY DEF BeginCall, LInv, Shape
<1>6. Shape' /\ top' \in [Actors -> 0..MaxDepth]
  BY <1>1, <1>5, BecomesShape
<1>7. RestOK'
  BY <1>1, ConstantsAssumption DEF BeginCall, LInv, TypeOK, RestOK, Fates, MsgIds
<1> QED
  BY <1>6, <1>7, ShapeTypes

\* The three ways to begin a call.
LEMMA BeginType ==
  ASSUME LInv, \/ \E a \in Actors, d \in Loopers, kind \in PostKinds : Post(a, kind, d)
               \/ \E l \in Loopers, d \in Loopers : SendFromLooper(l, d)
               \/ \E t \in Threads, d \in Loopers : SendFromThread(t, d)
  PROVE  LInv'
<1>1. tls \in [Threads -> TlsLoopers \cup {None}]
  BY DEF LInv, TypeOK
<1>2. ASSUME NEW a \in Actors, NEW d \in Loopers, NEW kind \in PostKinds, Post(a, kind, d)
      PROVE  LInv'
  BY <1>1, <1>2, BeginCallType, ConstantsAssumption DEF Post
<1>3. ASSUME NEW l \in Loopers, NEW d \in Loopers, SendFromLooper(l, d)
      PROVE  LInv'
  <2>1. l \in Actors /\ l \notin Threads
    BY ConstantsAssumption DEF Actors
  <2> QED
    BY <1>1, <1>3, <2>1, BeginCallType DEF SendFromLooper
<1>4. ASSUME NEW t \in Threads, NEW d \in Loopers, SendFromThread(t, d)
      PROVE  LInv'
  <2>1. PICK s \in TlsLoopers : tls' = [tls EXCEPT ![t] = s]
    BY <1>4 DEF SendFromThread
  <2>2. /\ tls' \in [Threads -> TlsLoopers \cup {None}]
        /\ \A u \in Threads \ {t} : tls'[u] = tls[u]
        /\ tls'[t] \in TlsLoopers
    BY <1>1, <2>1
  <2>3. t \in Actors
    BY DEF Actors
  <2> QED
    BY <1>4, <2>2, <2>3, BeginCallType DEF SendFromThread
<1> QED
  BY <1>2, <1>3, <1>4

\* The call of a frame is over.
LEMMA EndOfCallType ==
  ASSUME NEW f \in GoodFrame
  PROVE  EndOfCall(f) \in GoodFrame /\ EndOfCall(f).cb = f.cb /\ EndOfCall(f).op = "none"
<1> DEFINE g == EndOfCall(f)
<1>1. f \in Frame /\ FrameOK(f)
  BY DEF GoodFrame
<1>0. g = [f EXCEPT !.pc = "body", !.op = "none", !.kind = "none", !.dst = None, !.id = 0]
  BY DEF EndOfCall
<1> HIDE DEF g
<1>2. g = [cb |-> f.cb, msg |-> f.msg, pc |-> "body", op |-> "none", kind |-> "none",
           dst |-> None, id |-> 0, todo |-> f.todo]
  BY <1>0, <1>1 DEF Frame
<1>3. g \in Frame
  BY <1>1, <1>2, ConstantsAssumption DEF Frame
<1>4. FrameOK(g) /\ g.cb = f.cb /\ g.op = "none"
  BY <1>1, <1>2 DEF FrameOK
<1> QED
  BY <1>3, <1>4 DEF GoodFrame, g

\* A frame moves on to another place.
LEMMA GotoType ==
  ASSUME LInv, NEW a \in Actors, top[a] > 0,
         NEW pc \in InLoop \cup {"ring", "reply", "wake", "wakering"},
         pc = "ring" => Top(a).dst \in Loopers,
         pc \in {"reply", "wake", "wakering"} => Top(a).msg.from # None,
         Goto(a, pc), top' = top, queue' \in [Loopers -> Seq(GoodMsg)], tls' = tls
  PROVE  Shape' /\ top' \in [Actors -> 0..MaxDepth]
<1> DEFINE f == Top(a)
           g == [f EXCEPT !.pc = pc]
<1>1. f \in GoodFrame /\ top[a] \in 1..MaxDepth /\ f = frame[a][top[a]]
  BY TopType
<1> HIDE DEF f
<1>2. g \in GoodFrame /\ g.cb = f.cb /\ g.op = f.op
  BY <1>1 DEF GoodFrame, Frame, FrameOK, InLoop, f
<1>3. Becomes(a, g)
  BY DEF Goto, f
<1> HIDE DEF g
<1>4. a \in Threads /\ g.op = "send" => tls'[a] \in TlsLoopers
  BY <1>1, <1>2 DEF LInv, Shape
<1> QED
  BY <1>2, <1>3, <1>4, BecomesShape DEF f

\* A call ends; the TLS looper goes back.
LEMMA EndShape ==
  ASSUME LInv, NEW a \in Actors, top[a] > 0, Becomes(a, EndOfCall(Top(a))),
         top' = top, queue' = queue, tls' = tls \/ DropTls(a)
  PROVE  /\ Shape' /\ top' \in [Actors -> 0..MaxDepth]
         /\ tls' \in [Threads -> TlsLoopers \cup {None}]
<1>1. tls \in [Threads -> TlsLoopers \cup {None}] /\ queue \in [Loopers -> Seq(GoodMsg)]
  BY DEF LInv, TypeOK, Shape
<1>2. /\ tls' \in [Threads -> TlsLoopers \cup {None}]
      /\ \A t \in Threads \ {a} : tls'[t] = tls[t]
  BY <1>1 DEF DropTls
<1>3. Top(a) \in GoodFrame
  BY TopType
<1>4. /\ EndOfCall(Top(a)) \in GoodFrame
      /\ EndOfCall(Top(a)).cb = Top(a).cb
      /\ EndOfCall(Top(a)).op # "send"
  BY <1>3, EndOfCallType
<1> QED
  BY <1>1, <1>2, <1>4, BecomesShape

\* The socket pair never holds more than it can.
LEMMA BytesType ==
  ASSUME LInv, NEW s,
         \/ bytes' = [bytes EXCEPT ![s] = Rung(s)]
         \/ bytes' = [bytes EXCEPT ![s] = RungTwice(s)]
         \/ bytes' = [bytes EXCEPT ![s] = Drained(s)]
  PROVE  bytes' \in [Sockets -> 0..SockCap]
<1>1. bytes \in [Sockets -> 0..SockCap]
  BY DEF LInv, TypeOK
<1>2. CASE s \in Sockets
  <2>1. bytes[s] \in 0..SockCap
    BY <1>1, <1>2
  <2>2. Rung(s) \in 0..SockCap /\ RungTwice(s) \in 0..SockCap /\ Drained(s) \in 0..SockCap
    BY <2>1, ConstantsAssumption DEF Rung, RungTwice, Drained
  <2> QED
    BY <1>1, <2>2
<1>3. CASE s \notin Sockets
  BY <1>1, <1>3
<1> QED
  BY <1>2, <1>3

\* The message Push appends.
PushedMsg(a) == [kind |-> Top(a).kind, id |-> Top(a).id,
                 from |-> IF Top(a).op = "send" THEN SleepsOn(a) ELSE None]

\* A message that is put on a list has the right shape.
LEMMA PushedType ==
  ASSUME LInv, NEW a \in Actors, top[a] > 0
  PROVE  PushedMsg(a) \in GoodMsg
<1>1. Top(a) \in Frame /\ FrameOK(Top(a))
  BY TopType DEF GoodFrame
<1>2. /\ Top(a).kind \in {"none", "user", "quit"} /\ Top(a).id \in 0..MaxMsg
      /\ Top(a).op = "send" => Top(a).id # 0 /\ Top(a).kind = "user"
  BY <1>1 DEF Frame, FrameOK
<1>3. SleepsOn(a) \in Loopers \cup TlsLoopers \cup {None}
  BY DEF SleepsOn, LInv, TypeOK, Actors
<1> QED
  BY <1>2, <1>3 DEF PushedMsg, GoodMsg, Msg

\* Appending keeps the shape of the lists.
LEMMA PutType ==
  ASSUME NEW q \in [Loopers -> Seq(GoodMsg)], NEW l \in Loopers, NEW m \in GoodMsg
  PROVE  [q EXCEPT ![l] = Put(q[l], m)] \in [Loopers -> Seq(GoodMsg)]
<1>1. Put(q[l], m) \in Seq(GoodMsg)
  BY DEF Put
<1> QED
  BY <1>1

\* Calls: the locked part, the ring, the loop of sendMessage, waking up.
LEMMA CallStepType ==
  ASSUME LInv, NEW a \in Actors, CallStep(a)
  PROVE  LInv'
<1>0. /\ RestOK /\ queue \in [Loopers -> Seq(GoodMsg)]
      /\ tls \in [Threads -> TlsLoopers \cup {None}]
  BY RestType DEF LInv, Shape, RestOK
<1>1. ASSUME Push(a) PROVE LInv'
  <2>0. top[a] > 0 /\ top' = top /\ Top(a).pc = "push"
    BY <1>1 DEF Push, At
  <2>1. Top(a) \in GoodFrame
    BY <2>0, TopType
  <2>2. Top(a).dst \in Loopers
    BY <2>0, <2>1 DEF GoodFrame, FrameOK
  <2>3. ASSUME ~Accepts(Top(a).dst), Becomes(a, EndOfCall(Top(a))), DropTls(a), UNCHANGED queue
        PROVE  /\ Shape' /\ top' \in [Actors -> 0..MaxDepth]
               /\ tls' \in [Threads -> TlsLoopers \cup {None}]
    BY <2>0, <2>3, EndShape
  <2>4. ASSUME queue' = [queue EXCEPT ![Top(a).dst] = Put(@, PushedMsg(a))],
               Goto(a, "ring"), UNCHANGED tls
        PROVE  /\ Shape' /\ top' \in [Actors -> 0..MaxDepth]
               /\ tls' \in [Threads -> TlsLoopers \cup {None}]
    <3>1. queue' \in [Loopers -> Seq(GoodMsg)]
      BY <1>0, <2>0, <2>2, <2>4, PushedType, PutType
    <3> QED
      BY <1>0, <2>0, <2>2, <2>4, <3>1, GotoType
  <2>5. /\ Shape' /\ top' \in [Actors -> 0..MaxDepth]
        /\ tls' \in [Threads -> TlsLoopers \cup {None}]
    BY <1>1, <2>3, <2>4 DEF Push, PushedMsg
  <2>6. RestOK'
    BY <1>0, <1>1, <2>5 DEF Push, RestOK, Fates
  <2> QED
    BY <2>5, <2>6, ShapeTypes
<1>2. ASSUME Ring(a) PROVE LInv'
  <2>0. /\ top[a] > 0 /\ top' = top /\ queue' = queue /\ tls' = tls
        /\ bytes' = [bytes EXCEPT ![Top(a).dst] = Rung(Top(a).dst)]
    BY <1>2 DEF Ring, At
  <2>1. Shape' /\ top' \in [Actors -> 0..MaxDepth]
    <3>1. CASE Goto(a, "check")
      BY <1>0, <2>0, <3>1, GotoType DEF InLoop
    <3>2. CASE Becomes(a, EndOfCall(Top(a)))
      BY <2>0, <3>2, EndShape
    <3> QED
      BY <1>2, <3>1, <3>2 DEF Ring
  <2>2. bytes' \in [Sockets -> 0..SockCap]
    BY <2>0, BytesType
  <2>3. RestOK'
    BY <1>0, <1>2, <2>2 DEF Ring, RestOK
  <2> QED
    BY <2>1, <2>3, ShapeTypes
<1>3. ASSUME SendCheck(a) PROVE LInv'
  <2>0. top[a] > 0 /\ top' = top /\ queue' = queue
    BY <1>3 DEF SendCheck, At
  <2>1. /\ Shape' /\ top' \in [Actors -> 0..MaxDepth]
        /\ tls' \in [Threads -> TlsLoopers \cup {None}]
    <3>1. CASE Becomes(a, EndOfCall(Top(a))) /\ DropTls(a)
      BY <2>0, <3>1, EndShape
    <3>2. CASE Goto(a, IF a \in Threads THEN "poll" ELSE "get") /\ UNCHANGED tls
      BY <1>0, <2>0, <3>2, GotoType DEF InLoop
    <3> QED
      BY <1>3, <3>1, <3>2 DEF SendCheck
  <2>2. RestOK'
    BY <1>0, <1>3, <2>1 DEF SendCheck, RestOK
  <2> QED
    BY <2>1, <2>2, ShapeTypes
<1>4. ASSUME Woken(a) PROVE LInv'
  <2>0. /\ top[a] > 0 /\ top' = top /\ queue' = queue /\ tls' = tls
        /\ bytes' = [bytes EXCEPT ![SleepsOn(a)] = Drained(SleepsOn(a))]
    BY <1>4 DEF Woken, At
  <2>1. Shape' /\ top' \in [Actors -> 0..MaxDepth]
    BY <1>0, <1>4, <2>0, GotoType DEF Woken, InLoop
  <2>2. bytes' \in [Sockets -> 0..SockCap]
    BY <2>0, BytesType
  <2>3. RestOK'
    BY <1>0, <1>4, <2>2 DEF Woken, RestOK
  <2> QED
    BY <2>1, <2>3, ShapeTypes
<1> QED
  BY <1>1, <1>2, <1>3, <1>4 DEF CallStep

\* The loop of a looper: Run, getMessage, callbacks and timeouts.
LEMMA GetMessageType ==
  ASSUME LInv, NEW l \in Loopers,
         \/ RunCheck(l) \/ Dispatch(l) \/ NoMessage(l) \/ Timeout(l)
         \/ Callback(l, "timer") \/ Callback(l, "io")
  PROVE  LInv'
<1>0. /\ RestOK /\ queue \in [Loopers -> Seq(GoodMsg)] /\ l \in Actors
  BY RestType DEF LInv, Shape, Actors
<1>1. ASSUME RunCheck(l) PROVE LInv'
  <2>0. top[l] > 0 /\ queue' = queue /\ tls' = tls
    BY <1>1 DEF RunCheck, At
  <2>1. Shape' /\ top' \in [Actors -> 0..MaxDepth]
    <3>1. CASE Return(l)
      BY <1>0, <2>0, <3>1, ReturnShape
    <3>2. CASE Goto(l, "get") /\ UNCHANGED top
      BY <1>0, <2>0, <3>2, GotoType DEF InLoop
    <3> QED
      BY <1>1, <3>1, <3>2 DEF RunCheck
  <2>2. RestOK'
    BY <1>0, <1>1 DEF RunCheck, RestOK
  <2> QED
    BY <2>1, <2>2, ShapeTypes
<1>2. ASSUME Dispatch(l) PROVE LInv'
  <2> DEFINE m == Head(queue[l])
             f == [Activation("msg", m, "body") EXCEPT
                      !.todo = IF m.kind = "destroy" THEN Children(l) ELSE {}]
  <2>0. top[l] > 0 /\ queue[l] # <<>> /\ tls' = tls /\ Call(l, "check", f)
    BY <1>2 DEF Dispatch, At
  <2>1. m \in GoodMsg /\ Tail(queue[l]) \in Seq(GoodMsg)
    BY <1>0, <2>0
  <2>2. queue' \in [Loopers -> Seq(GoodMsg)]
    BY <1>0, <1>2, <2>1 DEF Dispatch
  <2>3. f \in GoodFrame /\ f.cb # "run"
    <3> HIDE DEF m
    <3>1. Children(l) \subseteq Loopers
      BY DEF Children
    <3>2. m \in Msg
      BY <2>1 DEF GoodMsg
    <3> QED
      BY <2>1, <3>1, <3>2, ConstantsAssumption DEF GoodFrame, Frame, FrameOK, Activation
  <2>4. Shape' /\ top' \in [Actors -> 0..MaxDepth]
    <3> HIDE DEF f
    <3> QED
      BY <2>0, <2>2, <2>3, CallShape DEF InLoop
  <2>5. RestOK'
    BY <1>0, <1>2 DEF Dispatch, RestOK, Fates
  <2> QED
    BY <2>4, <2>5, ShapeTypes
<1>3. ASSUME NoMessage(l) PROVE LInv'
  <2>1. top[l] > 0 /\ top' = top /\ queue' = queue /\ tls' = tls
    BY <1>3 DEF NoMessage, At
  <2>2. Shape' /\ top' \in [Actors -> 0..MaxDepth]
    BY <1>0, <1>3, <2>1, GotoType DEF NoMessage, InLoop
  <2>3. RestOK'
    BY <1>0, <1>3 DEF NoMessage, RestOK
  <2> QED
    BY <2>2, <2>3, ShapeTypes
<1>4. ASSUME Timeout(l) PROVE LInv'
  <2>1. top[l] > 0 /\ top' = top /\ queue' = queue /\ tls' = tls
    BY <1>4 DEF Timeout, At
  <2>2. Shape' /\ top' \in [Actors -> 0..MaxDepth]
    BY <1>0, <1>4, <2>1, GotoType DEF Timeout, InLoop
  <2>3. RestOK'
    BY <1>0, <1>4 DEF Timeout, RestOK
  <2> QED
    BY <2>2, <2>3, ShapeTypes
<1>5. ASSUME NEW cb \in {"timer", "io"}, Callback(l, cb) PROVE LInv'
  <2>1. top[l] > 0 /\ queue' = queue /\ tls' = tls /\ callbacks < MaxCallbacks
    BY <1>5 DEF Callback, At
  <2>2. /\ Activation(cb, NoMsg, "body") \in GoodFrame
        /\ Activation(cb, NoMsg, "body").cb # "run"
    BY ConstantsAssumption DEF GoodFrame, Frame, FrameOK, Activation, NoMsg, GoodMsg, Msg
  <2>3. Shape' /\ top' \in [Actors -> 0..MaxDepth]
    BY <1>0, <1>5, <2>1, <2>2, CallShape DEF Callback, InLoop
  <2>4. RestOK'
    BY <1>0, <1>5, <2>1, ConstantsAssumption DEF Callback, RestOK
  <2> QED
    BY <2>3, <2>4, ShapeTypes
<1> QED
  BY <1>1, <1>2, <1>3, <1>4, <1>5

\* OnDestroy returns, or goes on with one child less and a BM_QUIT to post.
LEMMA DestroyFrame ==
  ASSUME LInv, NEW l \in Loopers, OnDestroy(l)
  PROVE  \/ Return(l)
         \/ \E g \in GoodFrame :
              /\ Becomes(l, g) /\ UNCHANGED top
              /\ g.cb = Top(l).cb /\ g.msg = Top(l).msg /\ g.pc \in {"body", "push"}
<1>0. At(l, "body") /\ top[l] > 0 /\ l \in Actors
  BY DEF OnDestroy, At, Actors
<1>1. Top(l) \in Frame /\ FrameOK(Top(l)) /\ Top(l).pc = "body"
  BY <1>0, TopType DEF GoodFrame, At
<1>2. ASSUME NEW c \in Top(l).todo, NEW g,
             g = IF ~freed[c] /\ life[c] = "run"
                 THEN [Top(l) EXCEPT !.pc = "push", !.op = "post", !.kind = "quit",
                                     !.dst = c, !.todo = @ \ {c}]
                 ELSE [Top(l) EXCEPT !.todo = @ \ {c}]
      PROVE  /\ g \in GoodFrame
             /\ g.cb = Top(l).cb /\ g.msg = Top(l).msg /\ g.pc \in {"body", "push"}
  <2>1. c \in Loopers
    BY <1>1 DEF Frame
  <2>2. CASE g = [Top(l) EXCEPT !.pc = "push", !.op = "post", !.kind = "quit",
                                !.dst = c, !.todo = @ \ {c}]
    <3>1. g = [cb |-> Top(l).cb, msg |-> Top(l).msg, pc |-> "push", op |-> "post",
               kind |-> "quit", dst |-> c, id |-> Top(l).id, todo |-> Top(l).todo \ {c}]
      BY <1>1, <2>2 DEF Frame
    <3>2. g \in Frame
      BY <1>1, <2>1, <3>1 DEF Frame
    <3>3. FrameOK(g)
      BY <1>1, <2>1, <3>1 DEF FrameOK
    <3> QED
      BY <3>1, <3>2, <3>3 DEF GoodFrame
  <2>3. CASE g = [Top(l) EXCEPT !.todo = @ \ {c}]
    BY <1>1, <2>3 DEF GoodFrame, Frame, FrameOK
  <2> QED
    BY <1>2, <2>2, <2>3
<1> QED
  BY <1>2 DEF OnDestroy

\* Handlers: their end, the answer and the wake-up, BM_QUIT and BM_DESTROY.
LEMMA HandlerType ==
  ASSUME LInv, NEW l \in Loopers,
         \/ HandlerReturns(l) \/ SetDone(l) \/ Wakeup(l) \/ WakeupRing(l)
         \/ OnQuit(l) \/ OnDestroy(l)
  PROVE  LInv'
<1>0. /\ RestOK /\ queue \in [Loopers -> Seq(GoodMsg)] /\ l \in Actors
  BY RestType DEF LInv, Shape, Actors
<1>a. top[l] > 0 /\ tls' = tls
  BY DEF HandlerReturns, SetDone, Wakeup, WakeupRing, OnQuit, OnDestroy, At
<1>b. Top(l) \in GoodFrame /\ Top(l).msg \in GoodMsg
  BY <1>0, <1>a, TopType DEF GoodFrame, FrameOK
<1>c. Top(l).msg.from # None => Top(l).msg.id \in MsgIds
  BY <1>b, ConstantsAssumption DEF GoodMsg, Msg, MsgIds
<1>d. \A kind \in {"null", "destroy"} : Posted(kind, 0) \in GoodMsg
  BY ConstantsAssumption DEF Posted, GoodMsg, Msg
<1>1. ASSUME HandlerReturns(l) PROVE LInv'
  <2>0. queue' = queue
    BY <1>1 DEF HandlerReturns
  <2>1. CASE Return(l) /\ UNCHANGED ack
    <3>1. Shape' /\ top' \in [Actors -> 0..MaxDepth]
      BY <1>0, <1>a, <2>0, <2>1, ReturnShape
    <3>2. fate' \in [MsgIds -> Fates]
      BY <1>0, <1>1 DEF HandlerReturns, RestOK, Fates
    <3>3. RestOK'
      BY <1>0, <1>1, <2>1, <3>2 DEF HandlerReturns, RestOK
    <3> QED
      BY <3>1, <3>3, ShapeTypes
  <2>2. CASE /\ Top(l).msg.from # None /\ ack' = ack \cup {Top(l).msg.id}
             /\ Goto(l, "reply") /\ UNCHANGED <<top, fate>>
    <3>1. Shape' /\ top' \in [Actors -> 0..MaxDepth]
      BY <1>0, <1>a, <2>0, <2>2, GotoType
    <3>2. RestOK'
      BY <1>0, <1>1, <1>c, <2>2 DEF HandlerReturns, RestOK
    <3> QED
      BY <3>1, <3>2, ShapeTypes
  <2> QED
    BY <1>1, <2>1, <2>2 DEF HandlerReturns, Answers
<1>2. ASSUME SetDone(l) PROVE LInv'
  <2>0. top' = top /\ queue' = queue /\ Goto(l, "wake")
    BY <1>2 DEF SetDone
  <2>1. Top(l).msg.from # None
    BY <1>2, <1>b DEF SetDone, At, GoodFrame, FrameOK
  <2>2. Shape' /\ top' \in [Actors -> 0..MaxDepth]
    BY <1>0, <1>a, <2>0, <2>1, GotoType
  <2>3. RestOK'
    BY <1>0, <1>2, <1>c, <2>1 DEF SetDone, RestOK, Fates
  <2> QED
    BY <2>2, <2>3, ShapeTypes
<1>3. ASSUME Wakeup(l) PROVE LInv'
  <2>1. Top(l).msg.from # None /\ Top(l).msg.from \in Loopers \cup TlsLoopers
    BY <1>3, <1>b DEF Wakeup, At, GoodFrame, FrameOK, GoodMsg, Msg
  <2>2. Shape' /\ top' \in [Actors -> 0..MaxDepth]
    <3>1. CASE queue' = WithNull(Top(l).msg.from) /\ Goto(l, "wakering") /\ UNCHANGED top
      <4>1. queue' \in [Loopers -> Seq(GoodMsg)]
        BY <1>0, <1>d, <2>1, <3>1, PutType DEF WithNull
      <4> QED
        BY <1>0, <1>a, <2>1, <3>1, <4>1, GotoType
    <3>2. CASE Return(l) /\ UNCHANGED queue
      BY <1>0, <1>a, <3>2, ReturnShape
    <3> QED
      BY <1>3, <3>1, <3>2 DEF Wakeup
  <2>3. RestOK'
    BY <1>0, <1>3 DEF Wakeup, RestOK
  <2> QED
    BY <2>2, <2>3, ShapeTypes
<1>4. ASSUME WakeupRing(l) PROVE LInv'
  <2>0. /\ queue' = queue /\ Return(l)
        /\ bytes' = [bytes EXCEPT ![Top(l).msg.from] = Rung(Top(l).msg.from)]
    BY <1>4 DEF WakeupRing
  <2>1. Shape' /\ top' \in [Actors -> 0..MaxDepth]
    BY <1>0, <1>a, <2>0, ReturnShape
  <2>2. bytes' \in [Sockets -> 0..SockCap]
    BY <2>0, BytesType
  <2>3. RestOK'
    BY <1>0, <1>4, <2>2 DEF WakeupRing, RestOK
  <2> QED
    BY <2>1, <2>3, ShapeTypes
<1>5. ASSUME OnQuit(l) PROVE LInv'
  <2>1. queue' \in [Loopers -> Seq(GoodMsg)]
    <3> DEFINE q == Put(Put(queue[l], Posted("destroy", 0)), Posted("null", 0))
    <3>1. q \in Seq(GoodMsg)
      BY <1>0, <1>d DEF Put
    <3>2. queue' = queue \/ queue' = [queue EXCEPT ![l] = q]
      BY <1>5 DEF OnQuit
    <3> QED
      BY <1>0, <3>1, <3>2
  <2>2. Shape' /\ top' \in [Actors -> 0..MaxDepth]
    BY <1>5, <1>a, <2>1, ReturnShape DEF OnQuit
  <2>3. bytes' \in [Sockets -> 0..SockCap]
    <3>1. bytes' = bytes \/ bytes' = [bytes EXCEPT ![l] = RungTwice(l)]
      BY <1>5 DEF OnQuit
    <3> QED
      BY <1>0, <3>1, BytesType DEF RestOK
  <2>4. quit' \in [Loopers -> BOOLEAN] /\ fate' \in [MsgIds -> Fates]
    BY <1>0, <1>5 DEF OnQuit, RestOK, Fates
  <2>5. RestOK'
    BY <1>0, <1>5, <2>3, <2>4 DEF OnQuit, RestOK
  <2> QED
    BY <2>2, <2>5, ShapeTypes
<1>6. ASSUME OnDestroy(l) PROVE LInv'
  <2>0. queue' = queue /\ l \notin Threads
    BY <1>6, ConstantsAssumption DEF OnDestroy
  <2>1. Shape' /\ top' \in [Actors -> 0..MaxDepth]
    <3>1. CASE Return(l)
      BY <1>0, <1>a, <2>0, <3>1, ReturnShape
    <3>2. CASE \E g \in GoodFrame : Becomes(l, g) /\ UNCHANGED top /\ g.cb = Top(l).cb
      BY <1>0, <1>a, <2>0, <3>2, BecomesShape
    <3> QED
      BY <1>6, <3>1, <3>2, DestroyFrame
  <2>2. RestOK'
    BY <1>0, <1>6 DEF OnDestroy, RestOK
  <2> QED
    BY <2>1, <2>2, ShapeTypes
<1> QED
  BY <1>1, <1>2, <1>3, <1>4, <1>5, <1>6

\* The end of a looper changes no list and no stack.
LEMMA EndType ==
  ASSUME LInv, NEW l \in Loopers, SetExitEvent(l) \/ Free(l)
  PROVE  LInv'
<1>1. Shape' /\ top' \in [Actors -> 0..MaxDepth]
  BY DEF SetExitEvent, Free, LInv, Shape, TypeOK
<1>2. CASE SetExitEvent(l)
  <2>1. RestOK'
    BY <1>2, RestType DEF SetExitEvent, RestOK
  <2> QED
    BY <1>1, <2>1, ShapeTypes
<1>3. CASE Free(l)
  <2>1. RestOK'
    BY <1>3, RestType DEF Free, RestOK
  <2> QED
    BY <1>1, <2>1, ShapeTypes
<1> QED
  BY <1>2, <1>3

\* Types and shape are inductive.
LEMMA TypeStep == LInv /\ [Next]_vars => LInv'
<1> SUFFICES ASSUME LInv, [Next]_vars PROVE LInv'
  OBVIOUS
<1>1. CASE UNCHANGED vars
  <2>1. Shape' /\ RestOK' /\ top' \in [Actors -> 0..MaxDepth]
    BY <1>1, RestType DEF vars, LInv, Shape, TypeOK, RestOK
  <2> QED
    BY <2>1, ShapeTypes
<1>2. CASE Next
  BY <1>2, BeginType, CallStepType, GetMessageType, HandlerType, EndType DEF Next, LoopStep
<1> QED
  BY <1>1, <1>2

\* Every variable keeps its type: whatever application code posts, sends and
\* handles, messages, frames, ids and counters stay well formed.
THEOREM TypeCorrect == Spec => []TypeOK
<1>1. Init => LInv
  BY InitShape
<1>2. LInv /\ [Next]_vars => LInv'
  BY TypeStep
<1>3. LInv => TypeOK
  BY DEF LInv
<1> QED
  BY <1>1, <1>2, <1>3, PTL DEF Spec

-----------------------------------------------------------------------------
(* A looper stops drained.                                                 *)

\* Only Push, Wakeup, Dispatch and OnQuit touch a list, and only those of a
\* looper that runs; only a looper with a frame calls or returns; Run is the
\* last frame to go.
LEMMA DrainedStep == LInv /\ StoppedIsDrained /\ [Next]_vars => StoppedIsDrained'
<1> SUFFICES ASSUME LInv, StoppedIsDrained, [Next]_vars PROVE StoppedIsDrained'
  OBVIOUS
<1>0. /\ queue \in [Loopers -> Seq(GoodMsg)] /\ top \in [Actors -> 0..MaxDepth]
      /\ life \in [Loopers -> {"run", "stopped", "exited"}]
      /\ Loopers \subseteq Actors
  BY DEF LInv, Shape, TypeOK, Actors
<1>1. ASSUME UNCHANGED <<queue, top, life>> PROVE StoppedIsDrained'
  BY <1>1 DEF StoppedIsDrained
<1>2. ASSUME NEW l \in Loopers, top[l] > 0, UNCHANGED life, Return(l) \/ UNCHANGED top,
             \A d \in Loopers : life[d] # "run" => queue'[d] = queue[d]
      PROVE  StoppedIsDrained'
  BY <1>0, <1>2 DEF StoppedIsDrained, Return
<1>3. ASSUME NEW a \in Actors, CallStep(a) PROVE StoppedIsDrained'
  <2>1. CASE Push(a)
    BY <1>0, <2>1 DEF Push, Accepts, StoppedIsDrained
  <2>2. CASE Ring(a) \/ SendCheck(a) \/ Woken(a)
    BY <1>1, <2>2 DEF Ring, SendCheck, Woken
  <2> QED
    BY <1>3, <2>1, <2>2 DEF CallStep
<1>4. ASSUME NEW l \in Loopers, LoopStep(l) PROVE StoppedIsDrained'
  <2>1. CASE RunCheck(l)
    <3>1. CASE MayStop(l) /\ life' = [life EXCEPT ![l] = "stopped"] /\ Return(l)
      <4>1. top[l] = 1 /\ queue[l] = <<>> /\ queue' = queue
        BY <1>0, <2>1, <3>1, TopType DEF RunCheck, MayStop, At
      <4> QED
        BY <1>0, <3>1, <4>1 DEF StoppedIsDrained, Return
    <3> QED
      BY <1>1, <2>1, <3>1 DEF RunCheck
  <2>2. CASE Dispatch(l)
    <3>1. top[l] > 0 /\ queue' = [queue EXCEPT ![l] = Tail(queue[l])] /\ life' = life
          /\ top' = [top EXCEPT ![l] = top[l] + 1]
      BY <2>2 DEF Dispatch, At, Call
    <3> QED
      BY <1>0, <3>1 DEF StoppedIsDrained
  <2>3. CASE NoMessage(l) \/ SetDone(l)
    BY <1>1, <2>3 DEF NoMessage, SetDone
  <2>4. CASE HandlerReturns(l) \/ WakeupRing(l) \/ OnDestroy(l)
    BY <1>2, <2>4 DEF HandlerReturns, WakeupRing, OnDestroy, At
  <2>5. CASE Wakeup(l)
    <3>1. top[l] > 0 /\ UNCHANGED life /\ (Return(l) \/ UNCHANGED top)
      BY <2>5 DEF Wakeup, At
    <3>2. \A d \in Loopers : life[d] # "run" => queue'[d] = queue[d]
      BY <1>0, <2>5 DEF Wakeup, WithNull
    <3> QED
      BY <1>2, <3>1, <3>2
  <2>6. CASE OnQuit(l)
    <3>1. top[l] > 0 /\ UNCHANGED life /\ Return(l)
      BY <2>6 DEF OnQuit, At
    <3>2. life[l] = "run"
      BY <1>0, <3>1 DEF StoppedIsDrained
    <3>3. \A d \in Loopers : life[d] # "run" => queue'[d] = queue[d]
      BY <1>0, <2>6, <3>2 DEF OnQuit
    <3> QED
      BY <1>2, <3>1, <3>3
  <2>7. CASE SetExitEvent(l)
    BY <1>0, <2>7 DEF SetExitEvent, StoppedIsDrained
  <2> QED
    BY <1>4, <2>1, <2>2, <2>3, <2>4, <2>5, <2>6, <2>7 DEF LoopStep
<1>5. ASSUME NEW l \in Loopers, Timeout(l) \/ Free(l) PROVE StoppedIsDrained'
  BY <1>1, <1>5 DEF Timeout, Free
<1>6. ASSUME NEW l \in Loopers, NEW cb, Callback(l, cb) PROVE StoppedIsDrained'
  <2>1. top[l] > 0 /\ UNCHANGED <<queue, life>> /\ top' = [top EXCEPT ![l] = top[l] + 1]
    BY <1>6 DEF Callback, At, Call
  <2> QED
    BY <1>0, <2>1 DEF StoppedIsDrained
<1>7. ASSUME \/ \E a \in Actors, d \in Loopers, kind \in PostKinds : Post(a, kind, d)
             \/ \E l \in Loopers, d \in Loopers : SendFromLooper(l, d)
             \/ \E t \in Threads, d \in Loopers : SendFromThread(t, d)
      PROVE  StoppedIsDrained'
  BY <1>1, <1>7 DEF Post, SendFromLooper, SendFromThread, BeginCall
<1>8. ASSUME UNCHANGED vars PROVE StoppedIsDrained'
  BY <1>1, <1>8 DEF vars
<1> QED
  BY <1>3, <1>4, <1>5, <1>6, <1>7, <1>8 DEF Next

\* A looper stops (Run) only with an empty list and an empty stack, and
\* nothing is appended to its list afterwards: a quit drops no message that
\* postMessage or sendMessage accepted.
THEOREM StopsDrained == Spec => []StoppedIsDrained
<1> DEFINE Inv == LInv /\ StoppedIsDrained
<1>1. Init => Inv
  BY InitShape DEF Init, StoppedIsDrained
<1>2. Inv /\ [Next]_vars => Inv'
  BY TypeStep, DrainedStep
<1> QED
  BY <1>1, <1>2, PTL DEF Spec

-----------------------------------------------------------------------------
(* A looper outlives its children.                                         *)

\* Only RunCheck stops a looper, after CanQuit; a child stays as it is then.
LEMMA ChildrenStep ==
  LInv /\ StoppedIsDrained /\ ChildrenFirst /\ [Next]_vars => ChildrenFirst'
<1> SUFFICES ASSUME LInv, StoppedIsDrained, ChildrenFirst, [Next]_vars PROVE ChildrenFirst'
  OBVIOUS
<1>0. /\ life \in [Loopers -> {"run", "stopped", "exited"}]
      /\ freed \in [Loopers -> BOOLEAN]
      /\ \A c \in Loopers : Parent[c] # None => Parent[c] \in Loopers
  BY ConstantsAssumption DEF LInv, TypeOK
<1>1. ASSUME UNCHANGED <<life, freed>> PROVE ChildrenFirst'
  BY <1>1 DEF ChildrenFirst
<1>2. ASSUME NEW l \in Loopers, LoopStep(l) PROVE ChildrenFirst'
  <2>1. CASE RunCheck(l)
    <3>1. CASE MayStop(l) /\ life' = [life EXCEPT ![l] = "stopped"]
      <4>1. life[l] = "run" /\ freed' = freed
        BY <2>1, <1>0 DEF RunCheck, At, StoppedIsDrained, LInv, TypeOK, Actors
      <4>2. \A c \in Loopers : Parent[c] = l => life[c] = "exited" /\ freed[c]
        BY <3>1 DEF MayStop, CanQuit, Children
      <4> QED
        BY <1>0, <3>1, <4>1, <4>2 DEF ChildrenFirst
    <3> QED
      BY <1>1, <2>1, <3>1 DEF RunCheck
  <2>2. CASE SetExitEvent(l)
    BY <1>0, <2>2 DEF SetExitEvent, ChildrenFirst
  <2>3. CASE \/ Dispatch(l) \/ NoMessage(l) \/ HandlerReturns(l) \/ SetDone(l)
             \/ Wakeup(l) \/ WakeupRing(l) \/ OnQuit(l) \/ OnDestroy(l)
    BY <1>1, <2>3
    DEF Dispatch, NoMessage, HandlerReturns, SetDone, Wakeup, WakeupRing, OnQuit, OnDestroy
  <2> QED
    BY <1>2, <2>1, <2>2, <2>3 DEF LoopStep
<1>3. ASSUME NEW l \in Loopers, Free(l) PROVE ChildrenFirst'
  BY <1>0, <1>3 DEF Free, ChildrenFirst
<1>4. ASSUME NEW l \in Loopers, Timeout(l) \/ \E cb \in {"timer", "io"} : Callback(l, cb)
      PROVE  ChildrenFirst'
  BY <1>1, <1>4 DEF Timeout, Callback
<1>5. ASSUME NEW a \in Actors, CallStep(a) PROVE ChildrenFirst'
  BY <1>1, <1>5 DEF CallStep, Push, Ring, SendCheck, Woken
<1>6. ASSUME \/ \E a \in Actors, d \in Loopers, kind \in PostKinds : Post(a, kind, d)
             \/ \E l \in Loopers, d \in Loopers : SendFromLooper(l, d)
             \/ \E t \in Threads, d \in Loopers : SendFromThread(t, d)
      PROVE  ChildrenFirst'
  BY <1>1, <1>6 DEF Post, SendFromLooper, SendFromThread, BeginCall
<1>7. ASSUME UNCHANGED vars PROVE ChildrenFirst'
  BY <1>1, <1>7 DEF vars
<1> QED
  BY <1>2, <1>3, <1>4, <1>5, <1>6, <1>7 DEF Next

\* A looper that has stopped was the last of its family: the exit events of
\* its child loopers are set and their destructors have run
\* (CanQuitLooperNow), whatever the owner relation is.
THEOREM ChildrenGoFirst == Spec => []ChildrenFirst
<1> DEFINE Inv == LInv /\ StoppedIsDrained /\ ChildrenFirst
<1>1. Init => Inv
  BY InitShape, ConstantsAssumption DEF Init, StoppedIsDrained, ChildrenFirst
<1>2. Inv /\ [Next]_vars => Inv'
  BY TypeStep, DrainedStep, ChildrenStep
<1> QED
  BY <1>1, <1>2, PTL DEF Spec

-----------------------------------------------------------------------------
(* Who waits is going to be answered.  An answer is owed while a message   *)
(* that asks for it is in the list of a running looper, or is handled      *)
(* there and *mDone not set.                                               *)

Answering == {"wake", "wakering"}

AskedInList(d, i) ==
  \E j \in 1..Len(queue[d]) : queue[d][j].id = i /\ queue[d][j].from # None

AskedInHandler(d, i) ==
  \E k \in 1..top[d] : /\ frame[d][k].msg.id = i /\ frame[d][k].msg.from # None
                       /\ frame[d][k].pc \notin Answering

Owed(d, i) == life[d] = "run" /\ (AskedInList(d, i) \/ AskedInHandler(d, i))

\* Somebody is inside sendMessage to d with message i.
Awaited(d, i) ==
  \E a \in Actors : \E k \in 1..top[a] :
    Waits(frame[a][k]) /\ frame[a][k].dst = d /\ frame[a][k].id = i

Pending == \A d \in Loopers : \A i \in MsgIds : Awaited(d, i) => i \in done \/ Owed(d, i)

\* Nobody begins to wait.
NoNewWait == \A d \in Loopers : \A i \in MsgIds : Awaited(d, i)' => Awaited(d, i)

\* What is owed stays owed, until done is set.
StaysOwed == \A d \in Loopers : \A i \in MsgIds : Owed(d, i) => i \in done' \/ Owed(d, i)'

ListKept == \A d \in Loopers : \A i \in MsgIds : AskedInList(d, i) => AskedInList(d, i)'

\* The argument every action but Push follows.
LEMMA PendingKept ==
  ASSUME Pending, NoNewWait, StaysOwed, done \subseteq done'
  PROVE  Pending'
  BY DEF Pending, NoNewWait, StaysOwed

\* The top frame is replaced, and does not begin to wait.
LEMMA BecomesWaits ==
  ASSUME LInv, NEW a \in Actors, top[a] > 0, NEW f \in GoodFrame, Becomes(a, f), top' = top,
         Waits(f) => Waits(Top(a)) /\ f.id = Top(a).id /\ f.dst = Top(a).dst
  PROVE  NoNewWait
<1>1. \A b \in Actors : \A k \in 1..MaxDepth :
         frame'[b][k] = IF b = a /\ k = top[a] THEN f ELSE frame[b][k]
  BY BecomesFrame
<1>2. \A b \in Actors : \A k \in 1..top[b] : k \in 1..MaxDepth
  BY DepthType DEF LInv, TypeOK
<1>3. Top(a) = frame[a][top[a]]
  BY TopType
<1> SUFFICES ASSUME NEW d \in Loopers, NEW i \in MsgIds, Awaited(d, i)' PROVE Awaited(d, i)
  BY DEF NoNewWait
<1>4. PICK b \in Actors : \E k \in 1..top[b] :
         Waits(frame'[b][k]) /\ frame'[b][k].dst = d /\ frame'[b][k].id = i
  BY DEF Awaited, Waits
<1>5. PICK k \in 1..top[b] :
         Waits(frame'[b][k]) /\ frame'[b][k].dst = d /\ frame'[b][k].id = i
  BY <1>4
<1>6. Waits(frame[b][k]) /\ frame[b][k].dst = d /\ frame[b][k].id = i
  BY <1>1, <1>2, <1>3, <1>5
<1> QED
  BY <1>6 DEF Awaited

\* What is owed stays owed when the top frame is replaced.
LEMMA BecomesOwed ==
  ASSUME LInv, NEW a \in Actors, top[a] > 0, NEW f \in GoodFrame, Becomes(a, f), top' = top,
         life' = life, f.msg = Top(a).msg, ListKept,
         f.pc \in Answering => Top(a).pc \in Answering \/ Top(a).msg.id \in done'
  PROVE  StaysOwed
<1> SUFFICES ASSUME NEW d \in Loopers, NEW i \in MsgIds, Owed(d, i), i \notin done'
             PROVE  Owed(d, i)'
  BY DEF StaysOwed
<1>1. \A b \in Actors : \A k \in 1..MaxDepth :
         frame'[b][k] = IF b = a /\ k = top[a] THEN f ELSE frame[b][k]
  BY BecomesFrame
<1>2. d \in Actors /\ \A k \in 1..top[d] : k \in 1..MaxDepth
  BY DepthType DEF LInv, TypeOK, Actors
<1>3. CASE AskedInList(d, i)
  BY <1>3 DEF ListKept, Owed
<1>4. CASE AskedInHandler(d, i)
  <2>1. PICK k \in 1..top[d] : /\ frame[d][k].msg.id = i /\ frame[d][k].msg.from # None
                               /\ frame[d][k].pc \notin Answering
    BY <1>4 DEF AskedInHandler
  <2>2. /\ frame'[d][k].msg.id = i /\ frame'[d][k].msg.from # None
        /\ frame'[d][k].pc \notin Answering
    BY <1>1, <1>2, <2>1, TopType
  <2> QED
    BY <2>2 DEF Owed, AskedInHandler
<1> QED
  BY <1>3, <1>4 DEF Owed

\* Nobody begins to wait when a handler returns.
LEMMA ReturnWaits ==
  ASSUME LInv, NEW l \in Loopers, top[l] > 0, Return(l)
  PROVE  NoNewWait
<1>1. /\ \A b \in Actors : \A k \in 1..MaxDepth :
           frame'[b][k] = IF b = l /\ k = top[l] THEN NoFrame ELSE frame[b][k]
      /\ \A b \in Actors : top'[b] = IF b = l THEN top[l] - 1 ELSE top[b]
  BY ReturnFrame DEF Actors
<1>2. \A b \in Actors : top[b] \in 0..MaxDepth
  BY DEF LInv, TypeOK
<1>3. \A b \in Actors : \A k \in 1..top'[b] : k \in 1..top[b] /\ frame'[b][k] = frame[b][k]
  BY <1>1, <1>2, DepthType
<1> QED
  BY <1>3 DEF NoNewWait, Awaited, Waits

\* What is owed stays owed when a handler returns that owes nothing.
LEMMA ReturnOwed ==
  ASSUME LInv, NEW l \in Loopers, top[l] > 0, Return(l), life' = life, ListKept,
         Top(l).msg.from = None \/ Top(l).pc \in Answering
  PROVE  StaysOwed
<1> SUFFICES ASSUME NEW d \in Loopers, NEW i \in MsgIds, Owed(d, i) PROVE Owed(d, i)'
  BY DEF StaysOwed
<1>1. /\ \A b \in Actors : \A k \in 1..MaxDepth :
           frame'[b][k] = IF b = l /\ k = top[l] THEN NoFrame ELSE frame[b][k]
      /\ \A b \in Actors : top'[b] = IF b = l THEN top[l] - 1 ELSE top[b]
  BY ReturnFrame DEF Actors
<1>2. d \in Actors /\ top[d] \in 0..MaxDepth
  BY DEF LInv, TypeOK, Actors
<1>3. CASE AskedInList(d, i)
  BY <1>3 DEF ListKept, Owed
<1>4. CASE AskedInHandler(d, i)
  <2>1. PICK k \in 1..top[d] : /\ frame[d][k].msg.id = i /\ frame[d][k].msg.from # None
                               /\ frame[d][k].pc \notin Answering
    BY <1>4 DEF AskedInHandler
  <2>2. ~(d = l /\ k = top[l])
    BY <2>1 DEF Top
  <2>3. k \in 1..top'[d] /\ frame'[d][k] = frame[d][k]
    BY <1>1, <1>2, <2>2, DepthType
  <2> QED
    BY <2>1, <2>3 DEF Owed, AskedInHandler
<1> QED
  BY <1>3, <1>4 DEF Owed

\* A looper calls a handler: nobody begins to wait, and the handler owes the
\* answer to the message that was taken off the list.
LEMMA CallOwed ==
  ASSUME LInv, NEW l \in Loopers, top[l] > 0, Top(l).pc \in InLoop,
         NEW f \in GoodFrame, f.op = "none", f.pc = "body",
         NEW pc \in InLoop, Call(l, pc, f), life' = life,
         \A d \in Loopers : \A i \in MsgIds : AskedInList(d, i) =>
            AskedInList(d, i)' \/ (d = l /\ f.msg.id = i /\ f.msg.from # None)
  PROVE  NoNewWait /\ StaysOwed
<1> DEFINE g == [Top(l) EXCEPT !.pc = pc]
<1>0. l \in Actors /\ Top(l) \in GoodFrame /\ Top(l) = frame[l][top[l]]
  BY TopType DEF Actors
<1>1. /\ \A b \in Actors : \A k \in 1..MaxDepth :
           frame'[b][k] = IF b = l /\ k = top[l] THEN g
                          ELSE IF b = l /\ k = top[l] + 1 THEN f ELSE frame[b][k]
      /\ \A b \in Actors : top'[b] = IF b = l THEN top[l] + 1 ELSE top[b]
      /\ top[l] < MaxDepth
  BY <1>0, CallFrame
<1>2. /\ g.op = Top(l).op /\ g.id = Top(l).id /\ g.dst = Top(l).dst /\ g.msg = Top(l).msg
      /\ g.pc = pc
  BY <1>0 DEF GoodFrame, Frame
<1> HIDE DEF g
<1>3. \A b \in Actors : top[b] \in 0..MaxDepth
  BY DEF LInv, TypeOK
<1>4. /\ Waits(g) => Waits(Top(l))
      /\ ~Waits(f)
      /\ g.pc \notin Answering /\ f.pc \notin Answering
  BY <1>2 DEF Waits, InLoop, Answering
<1>5. NoNewWait
  <2>1. \A b \in Actors : \A k \in 1..top'[b] : Waits(frame'[b][k]) =>
           /\ k \in 1..top[b] /\ Waits(frame[b][k])
           /\ frame'[b][k].dst = frame[b][k].dst /\ frame'[b][k].id = frame[b][k].id
    BY <1>0, <1>1, <1>2, <1>3, <1>4, DepthType
  <2> SUFFICES ASSUME NEW d \in Loopers, NEW i \in MsgIds, Awaited(d, i)' PROVE Awaited(d, i)
    BY DEF NoNewWait
  <2>2. PICK b \in Actors : \E k \in 1..top'[b] :
           Waits(frame'[b][k]) /\ frame'[b][k].dst = d /\ frame'[b][k].id = i
    BY DEF Awaited, Waits
  <2> QED
    BY <2>1, <2>2 DEF Awaited
<1>6. StaysOwed
  <2> SUFFICES ASSUME NEW d \in Loopers, NEW i \in MsgIds, Owed(d, i) PROVE Owed(d, i)'
    BY DEF StaysOwed
  <2>0. d \in Actors
    BY DEF Actors
  <2>1. CASE AskedInList(d, i)'
    BY <2>1 DEF Owed
  <2>2. CASE d = l /\ f.msg.id = i /\ f.msg.from # None
    <3>1. top[l] + 1 \in 1..top'[l] /\ frame'[l][top[l] + 1] = f
      BY <1>0, <1>1, <1>3, DepthType
    <3> QED
      BY <1>4, <2>2, <3>1 DEF Owed, AskedInHandler
  <2>3. CASE AskedInHandler(d, i)
    <3>1. PICK k \in 1..top[d] : /\ frame[d][k].msg.id = i /\ frame[d][k].msg.from # None
                                 /\ frame[d][k].pc \notin Answering
      BY <2>3 DEF AskedInHandler
    <3>2. /\ k \in 1..top'[d]
          /\ frame'[d][k].msg.id = i /\ frame'[d][k].msg.from # None
          /\ frame'[d][k].pc \notin Answering
      BY <1>0, <1>1, <1>2, <1>3, <1>4, <2>0, <3>1, DepthType
    <3> QED
      BY <3>2 DEF Owed, AskedInHandler
  <2> QED
    BY <2>1, <2>2, <2>3 DEF Owed
<1> QED
  BY <1>5, <1>6

\* Lists that stay, or only get longer, keep what is asked for.
LEMMA PutKept ==
  ASSUME LInv, NEW l \in Loopers, NEW m, queue' = [queue EXCEPT ![l] = Put(queue[l], m)]
  PROVE  ListKept
<1>1. queue \in [Loopers -> Seq(GoodMsg)]
  BY DEF LInv, Shape
<1>2. \A d \in Loopers : \A j \in 1..Len(queue[d]) :
         j \in 1..Len(queue'[d]) /\ queue'[d][j] = queue[d][j]
  BY <1>1 DEF Put
<1> QED
  BY <1>2 DEF ListKept, AskedInList

\* The same, for a list that does not change.
LEMMA SameKept == ASSUME queue' = queue PROVE ListKept
  BY DEF ListKept, AskedInList

\* Neither lists, stacks nor lives change.
LEMMA SameOwed ==
  ASSUME UNCHANGED <<queue, frame, top, life>>
  PROVE  NoNewWait /\ StaysOwed
  BY DEF NoNewWait, StaysOwed, Awaited, Waits, Owed, AskedInList, AskedInHandler

\* A frame that goes from one place of the loop to another keeps waiting, and
\* owes what it owed.
LEMMA GotoOwed ==
  ASSUME LInv, NEW a \in Actors, top[a] > 0,
         NEW pc \in InLoop \cup {"ring", "reply", "wake", "wakering"},
         pc = "ring" => Top(a).dst \in Loopers,
         pc \in {"reply", "wake", "wakering"} => Top(a).msg.from # None,
         pc \in InLoop \cup {"ring"} => Top(a).pc \in InLoop \cup {"ring"},
         pc \in Answering => Top(a).pc \in Answering \/ Top(a).msg.id \in done',
         Goto(a, pc), top' = top, life' = life, ListKept
  PROVE  NoNewWait /\ StaysOwed
<1> DEFINE f == Top(a)
           g == [f EXCEPT !.pc = pc]
<1>1. f \in GoodFrame
  BY TopType
<1> HIDE DEF f
<1>2. g \in GoodFrame /\ g.msg = f.msg /\ g.op = f.op /\ g.id = f.id /\ g.dst = f.dst /\ g.pc = pc
  BY <1>1 DEF GoodFrame, Frame, FrameOK, InLoop, f
<1>3. Becomes(a, g)
  BY DEF Goto, f
<1> HIDE DEF g
<1>4. Waits(g) => Waits(f)
  BY <1>2 DEF Waits, InLoop, f
<1>5. NoNewWait
  BY <1>2, <1>3, <1>4, BecomesWaits DEF f
<1>6. StaysOwed
  BY <1>2, <1>3, BecomesOwed DEF f
<1> QED
  BY <1>5, <1>6

\* A call that ends waits no longer.
LEMMA EndOwed ==
  ASSUME LInv, NEW a \in Actors, top[a] > 0, Becomes(a, EndOfCall(Top(a))),
         top' = top, life' = life, queue' = queue
  PROVE  NoNewWait /\ StaysOwed
<1> DEFINE g == EndOfCall(Top(a))
<1>1. Top(a) \in GoodFrame
  BY TopType
<1>2. g \in GoodFrame /\ g.op = "none"
  BY <1>1, EndOfCallType
<1>3. g.msg = Top(a).msg /\ g.pc = "body"
  BY <1>1 DEF EndOfCall, GoodFrame, Frame
<1> HIDE DEF g
<1>4. NoNewWait
  BY <1>2, BecomesWaits DEF Waits, g
<1>5. StaysOwed
  BY <1>2, <1>3, BecomesOwed, SameKept DEF g, Answering
<1> QED
  BY <1>4, <1>5

\* Push is where waiting begins: the message is in the list by then.
LEMMA PushPending ==
  ASSUME LInv, Pending, NEW a \in Actors, Push(a)
  PROVE  Pending'
<1> DEFINE f == Top(a)
           d0 == f.dst
           g == [f EXCEPT !.pc = "ring"]
<1>0. top[a] > 0 /\ top' = top /\ life' = life /\ done' = done /\ f.pc = "push"
  BY DEF Push, At
<1>1. f \in GoodFrame /\ f = frame[a][top[a]] /\ top[a] \in 1..MaxDepth
  BY <1>0, TopType
<1> HIDE DEF f
<1>2. d0 \in Loopers /\ (f.op = "send" => f.id # 0)
  BY <1>0, <1>1 DEF GoodFrame, FrameOK
<1>3. CASE ~Accepts(d0)
  <2>1. Becomes(a, EndOfCall(Top(a))) /\ queue' = queue
    BY <1>3 DEF Push, f
  <2> QED
    BY <1>0, <2>1, EndOwed, PendingKept
<1>4. CASE Accepts(d0)
  <2>1. /\ Becomes(a, g) /\ life[d0] = "run"
        /\ queue' = [queue EXCEPT ![d0] = Put(queue[d0], PushedMsg(a))]
    BY <1>4 DEF Push, Goto, Accepts, PushedMsg, f
  <2>2. g \in GoodFrame /\ g.msg = f.msg /\ g.op = f.op /\ g.id = f.id /\ g.dst = f.dst /\ g.pc = "ring"
    BY <1>0, <1>1, <1>2 DEF GoodFrame, Frame, FrameOK
  <2> HIDE DEF g
  <2>3. ListKept
    BY <1>2, <2>1, PutKept
  <2>4. StaysOwed
    BY <1>0, <2>1, <2>2, <2>3, BecomesOwed DEF f, Answering
  <2>5. ASSUME NEW d \in Loopers, NEW i \in MsgIds, f.op = "send", d = d0, i = f.id
        PROVE  AskedInList(d, i)'
    <3>1. SleepsOn(a) # None
      BY <1>0, <1>1, <2>5, ConstantsAssumption DEF SleepsOn, LInv, Shape, TypeOK, Actors, f
    <3>2. PushedMsg(a).id = f.id /\ PushedMsg(a).from # None
      BY <2>5, <3>1 DEF PushedMsg, f
    <3>3. queue[d0] \in Seq(GoodMsg) /\ PushedMsg(a) \in GoodMsg
      BY <1>0, <1>2, PushedType DEF LInv, Shape
    <3>4. /\ Len(queue[d0]) + 1 \in 1..Len(queue'[d0])
          /\ queue'[d0][Len(queue[d0]) + 1] = PushedMsg(a)
      BY <1>2, <2>1, <3>3 DEF Put, LInv, Shape
    <3> QED
      BY <2>5, <3>2, <3>4 DEF AskedInList
  <2>6. ASSUME NEW d \in Loopers, NEW i \in MsgIds, Awaited(d, i)'
        PROVE  i \in done' \/ Owed(d, i)'
    <3>1. PICK b \in Actors : \E k \in 1..top[b] :
             Waits(frame'[b][k]) /\ frame'[b][k].dst = d /\ frame'[b][k].id = i
      BY <1>0, <2>6 DEF Awaited, Waits
    <3>2. PICK k \in 1..top[b] :
             Waits(frame'[b][k]) /\ frame'[b][k].dst = d /\ frame'[b][k].id = i
      BY <3>1
    <3>3. k \in 1..MaxDepth /\ frame'[b][k] = IF b = a /\ k = top[a] THEN g ELSE frame[b][k]
      BY <1>0, <2>1, <2>2, BecomesFrame, DepthType DEF LInv, TypeOK
    <3>4. CASE b = a /\ k = top[a]
      <4>1. f.op = "send" /\ d0 = d /\ f.id = i
        BY <2>2, <3>2, <3>3, <3>4 DEF Waits
      <4> QED
        BY <1>0, <2>1, <2>5, <4>1 DEF Owed
    <3>5. CASE ~(b = a /\ k = top[a])
      <4>1. Awaited(d, i)
        BY <3>2, <3>3, <3>5 DEF Awaited
      <4> QED
        BY <1>0, <2>4, <4>1 DEF Pending, StaysOwed
    <3> QED
      BY <3>4, <3>5
  <2> QED
    BY <2>6 DEF Pending
<1> QED
  BY <1>3, <1>4

\* The other steps of a call.
LEMMA CallPending ==
  ASSUME LInv, Pending, NEW a \in Actors, Ring(a) \/ SendCheck(a) \/ Woken(a)
  PROVE  Pending'
<1>0. /\ top[a] > 0 /\ top' = top /\ life' = life /\ queue' = queue /\ done' = done
      /\ Top(a).pc \in InLoop \cup {"ring"}
  BY DEF Ring, SendCheck, Woken, At, InLoop
<1>1. \/ Becomes(a, EndOfCall(Top(a)))
      \/ \E pc \in InLoop : Goto(a, pc)
  BY DEF Ring, SendCheck, Woken, InLoop
<1>2. CASE Becomes(a, EndOfCall(Top(a)))
  BY <1>0, <1>2, EndOwed, PendingKept
<1>3. ASSUME NEW pc \in InLoop, Goto(a, pc) PROVE Pending'
  <2>1. pc \notin {"ring", "reply", "wake", "wakering"}
    BY DEF InLoop
  <2> QED
    BY <1>0, <1>3, <2>1, SameKept, GotoOwed, PendingKept DEF Answering
<1> QED
  BY <1>1, <1>2, <1>3

\* The loop of a looper.
LEMMA GetMessagePending ==
  ASSUME LInv, StoppedIsDrained, Pending, NEW l \in Loopers,
         \/ RunCheck(l) \/ Dispatch(l) \/ NoMessage(l) \/ Timeout(l)
         \/ Callback(l, "timer") \/ Callback(l, "io")
  PROVE  Pending'
<1>0. /\ l \in Actors /\ top[l] > 0 /\ done' = done /\ Top(l).pc \in InLoop
  BY DEF RunCheck, Dispatch, NoMessage, Timeout, Callback, At, Actors, InLoop
<1>1. ASSUME NEW pc \in InLoop, Goto(l, pc), UNCHANGED <<top, life, queue>> PROVE Pending'
  <2>1. pc \notin {"ring", "reply", "wake", "wakering"}
    BY DEF InLoop
  <2> QED
    BY <1>0, <1>1, <2>1, SameKept, GotoOwed, PendingKept DEF Answering
<1>2. CASE NoMessage(l) \/ Timeout(l)
  BY <1>1, <1>2 DEF NoMessage, Timeout, InLoop
<1>3. CASE RunCheck(l)
  <2>1. CASE ~MayStop(l)
    BY <1>1, <1>3, <2>1 DEF RunCheck, InLoop
  <2>2. CASE MayStop(l)
    <3>1. /\ Return(l) /\ life' = [life EXCEPT ![l] = "stopped"] /\ queue' = queue
          /\ queue[l] = <<>> /\ Top(l).cb = "run"
      BY <1>3, <2>2 DEF RunCheck, MayStop
    <3>2. NoNewWait
      BY <1>0, <3>1, ReturnWaits
    <3>3. top[l] = 1 /\ frame[l][1].msg.from = None
      <4>1. top[l] \in 1..MaxDepth /\ Top(l) \in GoodFrame /\ Top(l) = frame[l][top[l]]
        BY <1>0, TopType
      <4>2. top[l] = 1
        BY <1>0, <3>1, <4>1 DEF LInv, Shape
      <4> QED
        BY <3>1, <4>1, <4>2 DEF GoodFrame, FrameOK
    <3>4. \A i \in MsgIds : ~Owed(l, i)
      BY <3>1, <3>3 DEF Owed, AskedInList, AskedInHandler
    <3>5. /\ \A b \in Actors : \A k \in 1..MaxDepth :
               frame'[b][k] = IF b = l /\ k = top[l] THEN NoFrame ELSE frame[b][k]
          /\ \A b \in Actors : top'[b] = IF b = l THEN top[l] - 1 ELSE top[b]
      BY <1>0, <3>1, ReturnFrame
    <3>6. ASSUME NEW d \in Loopers, NEW i \in MsgIds, Owed(d, i) PROVE Owed(d, i)'
      <4>1. d # l /\ d \in Actors /\ top[d] \in 0..MaxDepth
        BY <3>4, <3>6 DEF Actors, LInv, TypeOK
      <4>2. top'[d] = top[d] /\ \A k \in 1..top[d] : frame'[d][k] = frame[d][k]
        BY <3>5, <4>1, DepthType
      <4>3. life'[d] = life[d]
        BY <3>1, <4>1 DEF LInv, TypeOK
      <4> QED
        BY <3>1, <3>6, <4>2, <4>3 DEF Owed, AskedInList, AskedInHandler
    <3> QED
      BY <1>0, <3>2, <3>6, PendingKept DEF StaysOwed
  <2> QED
    BY <2>1, <2>2
<1>4. CASE Dispatch(l)
  <2> DEFINE m == Head(queue[l])
             f == [Activation("msg", m, "body") EXCEPT
                      !.todo = IF m.kind = "destroy" THEN Children(l) ELSE {}]
  <2>0. queue[l] # <<>> /\ Call(l, "check", f) /\ queue[l] \in Seq(GoodMsg)
    BY <1>4 DEF Dispatch, LInv, Shape
  <2>1. m \in GoodMsg /\ m = queue[l][1]
    BY <2>0
  <2>2. /\ queue' = [queue EXCEPT ![l] = Tail(queue[l])] /\ life' = life
        /\ queue \in [Loopers -> Seq(GoodMsg)]
    BY <1>4 DEF Dispatch, LInv, Shape
  <2>3. f \in GoodFrame /\ f.op = "none" /\ f.pc = "body" /\ f.msg = m
    <3> HIDE DEF m
    <3>1. Children(l) \subseteq Loopers /\ m \in Msg
      BY <2>1 DEF Children, GoodMsg
    <3> QED
      BY <2>1, <3>1, ConstantsAssumption DEF GoodFrame, Frame, FrameOK, Activation
  <2> HIDE DEF f, m
  <2>4. ASSUME NEW d \in Loopers, NEW i \in MsgIds, AskedInList(d, i)
        PROVE  AskedInList(d, i)' \/ (d = l /\ f.msg.id = i /\ f.msg.from # None)
    <3>1. PICK j \in 1..Len(queue[d]) : queue[d][j].id = i /\ queue[d][j].from # None
      BY <2>4 DEF AskedInList
    <3>2. CASE d = l /\ j = 1
      BY <2>1, <2>3, <3>1, <3>2
    <3>3. CASE d # l
      BY <2>2, <3>1, <3>3 DEF AskedInList
    <3>4. CASE d = l /\ j # 1
      <4>1. j - 1 \in 1..Len(queue'[l]) /\ queue'[l][j - 1] = queue[l][j]
        BY <2>0, <2>2, <3>1, <3>4
      <4> QED
        BY <3>1, <3>4, <4>1 DEF AskedInList
    <3> QED
      BY <3>2, <3>3, <3>4
  <2>5. NoNewWait /\ StaysOwed
    BY <1>0, <2>0, <2>2, <2>3, <2>4, CallOwed DEF InLoop
  <2> QED
    BY <1>0, <2>5, PendingKept
<1>5. ASSUME NEW cb \in {"timer", "io"}, Callback(l, cb) PROVE Pending'
  <2> DEFINE f == Activation(cb, NoMsg, "body")
  <2>1. f \in GoodFrame /\ f.op = "none" /\ f.pc = "body"
    BY ConstantsAssumption DEF GoodFrame, Frame, FrameOK, Activation, NoMsg, GoodMsg, Msg
  <2>2. life' = life /\ queue' = queue /\ \E pc \in InLoop : Call(l, pc, f)
    BY <1>5 DEF Callback, InLoop
  <2> HIDE DEF f
  <2>3. ListKept
    BY <2>2, SameKept
  <2>4. NoNewWait /\ StaysOwed
    BY <1>0, <2>1, <2>2, <2>3, CallOwed DEF ListKept
  <2> QED
    BY <1>0, <2>4, PendingKept
<1> QED
  BY <1>2, <1>3, <1>4, <1>5

\* The handlers: an answer that is not owed any more was given.
LEMMA HandlerPending ==
  ASSUME LInv, Pending, NEW l \in Loopers,
         \/ HandlerReturns(l) \/ SetDone(l) \/ Wakeup(l) \/ WakeupRing(l)
         \/ OnQuit(l) \/ OnDestroy(l)
  PROVE  Pending'
<1>0. /\ l \in Actors /\ top[l] > 0 /\ life' = life /\ done \subseteq done'
  BY DEF HandlerReturns, SetDone, Wakeup, WakeupRing, OnQuit, OnDestroy, At, Actors
<1>1. Top(l) \in GoodFrame /\ Top(l).msg \in GoodMsg
  BY <1>0, TopType DEF GoodFrame, FrameOK
<1>2. CASE HandlerReturns(l)
  <2>0. ListKept
    BY <1>2, SameKept DEF HandlerReturns
  <2>1. CASE Return(l) /\ Top(l).msg.from = None
    BY <1>0, <2>0, <2>1, ReturnWaits, ReturnOwed, PendingKept
  <2>2. CASE Goto(l, "reply") /\ Top(l).msg.from # None /\ UNCHANGED top
    <3>1. NoNewWait /\ StaysOwed
      BY <1>0, <2>0, <2>2, GotoOwed DEF InLoop, Answering
    <3> QED
      BY <1>0, <3>1, PendingKept
  <2> QED
    BY <1>2, <2>1, <2>2 DEF HandlerReturns, Answers
<1>3. CASE SetDone(l)
  <2>1. Top(l).msg.from # None /\ Top(l).msg.id \in done' /\ top' = top /\ Goto(l, "wake")
    BY <1>1, <1>3 DEF SetDone, At, GoodFrame, FrameOK
  <2>2. ListKept
    BY <1>3, SameKept DEF SetDone
  <2>3. NoNewWait /\ StaysOwed
    BY <1>0, <2>1, <2>2, GotoOwed DEF InLoop
  <2> QED
    BY <1>0, <2>3, PendingKept
<1>4. CASE Wakeup(l)
  <2>1. Top(l).msg.from # None /\ Top(l).pc \in Answering
    BY <1>1, <1>4 DEF Wakeup, At, GoodFrame, FrameOK, Answering
  <2>2. CASE Return(l) /\ UNCHANGED queue
    BY <1>0, <2>1, <2>2, SameKept, ReturnWaits, ReturnOwed, PendingKept
  <2>3. CASE queue' = WithNull(Top(l).msg.from) /\ Goto(l, "wakering") /\ UNCHANGED top
    <3>1. Top(l).msg.from \in Loopers \cup TlsLoopers
      BY <1>1, <2>1 DEF GoodMsg, Msg
    <3>2. ListKept
      <4>1. CASE queue' = queue
        BY <4>1, SameKept
      <4>2. CASE \E s \in Loopers : queue' = [queue EXCEPT ![s] = Put(queue[s], Posted("null", 0))]
        BY <4>2, PutKept
      <4> QED
        BY <2>3, <3>1, <4>1, <4>2 DEF WithNull
    <3>3. NoNewWait /\ StaysOwed
      BY <1>0, <2>1, <2>3, <3>2, GotoOwed DEF InLoop
    <3> QED
      BY <1>0, <3>3, PendingKept
  <2> QED
    BY <1>4, <2>2, <2>3 DEF Wakeup
<1>5. CASE WakeupRing(l)
  <2>1. Top(l).pc \in Answering /\ Return(l) /\ queue' = queue
    BY <1>5 DEF WakeupRing, At, Answering
  <2> QED
    BY <1>0, <2>1, SameKept, ReturnWaits, ReturnOwed, PendingKept
<1>6. CASE OnQuit(l)
  <2>1. Top(l).msg.from = None /\ Return(l)
    BY <1>1, <1>6 DEF OnQuit, GoodMsg
  <2>2. ListKept
    <3>1. CASE queue' = queue
      BY <3>1, SameKept
    <3>2. CASE queue' = [queue EXCEPT ![l] =
                            Put(Put(@, Posted("destroy", 0)), Posted("null", 0))]
      <4>1. queue \in [Loopers -> Seq(GoodMsg)]
        BY DEF LInv, Shape
      <4>2. \A d \in Loopers : \A j \in 1..Len(queue[d]) :
               j \in 1..Len(queue'[d]) /\ queue'[d][j] = queue[d][j]
        BY <3>2, <4>1 DEF Put
      <4> QED
        BY <4>2 DEF ListKept, AskedInList
    <3> QED
      BY <1>6, <3>1, <3>2 DEF OnQuit
  <2> QED
    BY <1>0, <2>1, <2>2, ReturnWaits, ReturnOwed, PendingKept
<1>7. CASE OnDestroy(l)
  <2>1. Top(l).msg.from = None /\ Top(l).pc = "body"
    BY <1>1, <1>7 DEF OnDestroy, At, GoodMsg
  <2>2. ListKept
    BY <1>7, SameKept DEF OnDestroy
  <2>3. CASE Return(l)
    BY <1>0, <2>1, <2>2, <2>3, ReturnWaits, ReturnOwed, PendingKept
  <2>4. ASSUME NEW g \in GoodFrame, Becomes(l, g), UNCHANGED top, g.msg = Top(l).msg,
               g.pc \in {"body", "push"}
        PROVE  Pending'
    <3>1. ~Waits(g) /\ g.pc \notin Answering
      BY <2>4 DEF Waits, InLoop, Answering
    <3> QED
      BY <1>0, <2>2, <2>4, <3>1, BecomesWaits, BecomesOwed, PendingKept
  <2> QED
    BY <1>7, <2>3, <2>4, DestroyFrame
<1> QED
  BY <1>2, <1>3, <1>4, <1>5, <1>6, <1>7

\* Nobody waits yet when a call begins.
LEMMA BeginPending ==
  ASSUME LInv, Pending, NEW a \in Actors, NEW op \in {"post", "send"},
         NEW kind \in {"user", "quit"}, NEW dst \in Loopers, op = "send" => kind = "user",
         BeginCall(a, op, kind, dst)
  PROVE  Pending'
<1>1. UNCHANGED <<queue, life, top, done>>
  BY DEF BeginCall
<1>2. PICK f \in GoodFrame : /\ top[a] > 0 /\ Becomes(a, f) /\ f.msg = Top(a).msg
                             /\ f.pc = "push"
  BY BeginFrame
<1>3. ~Waits(f) /\ f.pc \notin Answering
  BY <1>2 DEF Waits, InLoop, Answering
<1>4. NoNewWait
  BY <1>1, <1>2, <1>3, BecomesWaits
<1>5. StaysOwed
  BY <1>1, <1>2, <1>3, BecomesOwed, SameKept
<1> QED
  BY <1>1, <1>4, <1>5, PendingKept

\* The debt is inductive.
LEMMA PendingStep == LInv /\ StoppedIsDrained /\ Pending /\ [Next]_vars => Pending'
<1> SUFFICES ASSUME LInv, StoppedIsDrained, Pending, [Next]_vars PROVE Pending'
  OBVIOUS
<1>1. ASSUME \/ \E a \in Actors, d \in Loopers, kind \in PostKinds : Post(a, kind, d)
             \/ \E l \in Loopers, d \in Loopers : SendFromLooper(l, d)
             \/ \E t \in Threads, d \in Loopers : SendFromThread(t, d)
      PROVE  Pending'
  BY <1>1, BeginPending, ConstantsAssumption DEF Post, SendFromLooper, SendFromThread, Actors
<1>2. ASSUME NEW a \in Actors, CallStep(a) PROVE Pending'
  BY <1>2, PushPending, CallPending DEF CallStep
<1>3. ASSUME NEW l \in Loopers, Free(l) \/ UNCHANGED vars PROVE Pending'
  BY <1>3, SameOwed, PendingKept DEF Free, vars
<1>4. ASSUME NEW l \in Loopers, SetExitEvent(l) PROVE Pending'
  <2>1. /\ UNCHANGED <<queue, frame, top, done>> /\ life[l] = "stopped"
        /\ life' = [life EXCEPT ![l] = "exited"] /\ l \in DOMAIN life
    BY <1>4 DEF SetExitEvent, LInv, TypeOK
  <2>2. \A d \in Loopers : life[d] = "run" => life'[d] = "run"
    BY <2>1 DEF LInv, TypeOK
  <2> QED
    BY <2>1, <2>2 DEF Pending, Awaited, Waits, Owed, AskedInList, AskedInHandler
<1>5. CASE UNCHANGED vars
  BY <1>5, SameOwed, PendingKept DEF vars
<1> QED
  BY <1>1, <1>2, <1>3, <1>4, <1>5, GetMessagePending, HandlerPending DEF Next, LoopStep

\* Nobody is inside sendMessage before the first step, and the debt says what
\* the run checks.
LEMMA PendingMeans == /\ Init => Pending
                      /\ LInv /\ Pending => AwaitedIsPending
<1>1. Init => Pending
  <2> SUFFICES ASSUME Init PROVE Pending
    OBVIOUS
  <2>1. \A a \in Actors : top[a] = 1 /\ frame[a][1].op = "none"
    BY DepthType DEF Init, Activation
  <2> QED
    BY <2>1 DEF Pending, Awaited, Waits
<1>2. ASSUME LInv, Pending PROVE AwaitedIsPending
  <2> SUFFICES ASSUME NEW a \in Actors, NEW k \in 1..top[a], Waits(frame[a][k]),
                      frame[a][k].id \notin done
               PROVE  /\ life[frame[a][k].dst] = "run"
                      /\ \/ Listed(frame[a][k].dst, frame[a][k].id)
                         \/ Handled(frame[a][k].dst, frame[a][k].id)
    BY DEF AwaitedIsPending
  <2>1. \A b \in Actors : \A j \in 1..top[b] : frame[b][j] \in GoodFrame
    BY <1>2, DepthType DEF LInv, Shape, TypeOK, Stacks
  <2>2. PICK d \in Loopers : d = frame[a][k].dst
    BY <2>1 DEF GoodFrame, FrameOK, Waits
  <2>3. PICK i \in MsgIds : i = frame[a][k].id
    BY <2>1, ConstantsAssumption DEF GoodFrame, Frame, FrameOK, Waits, MsgIds
  <2>4. Owed(d, i)
    BY <1>2, <2>2, <2>3 DEF Pending, Awaited
  <2>5. AskedInHandler(d, i) => Handled(d, i)
    BY <2>1 DEF AskedInHandler, Handled, Answering, GoodFrame, FrameOK, Actors
  <2> QED
    BY <2>2, <2>3, <2>4, <2>5 DEF Owed, AskedInList, Listed
<1> QED
  BY <1>1, <1>2

\* The caller of sendMessage never waits for nothing: while the done flag of
\* its message is unset, the message is in the list of a looper that runs or
\* a handler there has yet to answer it, whatever quits meanwhile and however
\* deep handlers nest (sendMessageHelper, dispatchMessage, Run).
THEOREM SendersAreOwed == Spec => []AwaitedIsPending
<1> DEFINE Inv == LInv /\ StoppedIsDrained /\ Pending
<1>1. Init => Inv
  BY InitShape, PendingMeans DEF Init, StoppedIsDrained
<1>2. Inv /\ [Next]_vars => Inv'
  BY TypeStep, DrainedStep, PendingStep
<1>3. Inv => AwaitedIsPending
  BY PendingMeans
<1> QED
  BY <1>1, <1>2, <1>3, PTL DEF Spec

=============================================================================
