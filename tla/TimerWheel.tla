----------------------------- MODULE TimerWheel -----------------------------
(***************************************************************************)
(* TimerManager (src/core/looper/timermanager.cpp): the hierarchical timer *)
(* wheel of a looper.                                                      *)
(*                                                                         *)
(* Wheel 0 has SIZE1 spokes of one millisecond, the wheels above SIZE2     *)
(* spokes each, of SIZE1, SIZE1*SIZE2, ... milliseconds.  The wheels are   *)
(* turned by ProcessTimer, which the looper calls between messages; they   *)
(* stand at startTick, which falls behind the clock while the looper       *)
(* handles messages or sleeps.  A spoke is the set of the timers on it:    *)
(* the order in which the timers of one spoke fire is left open.           *)
(***************************************************************************)
EXTENDS Naturals

CONSTANTS
  Timers,     \* timer nodes
  OneShot,    \* those with an mExtraInfo (postDelayedRunnable)
  Intervals,  \* intervals the application asks for
  SIZE1,      \* WHEEL_SIZE1 (256)
  SIZE2,      \* WHEEL_SIZE2 (64)
  WHEEL_NUM,  \* number of wheels (5)
  MaxTime     \* bound: the clock stops here

ASSUME WheelAssumption ==
  /\ OneShot \subseteq Timers
  /\ Intervals \subseteq Nat
  /\ SIZE1 \in Nat \ {0, 1} /\ SIZE2 \in Nat \ {0, 1} /\ WHEEL_NUM \in Nat \ {0, 1, 2}
  /\ MaxTime \in Nat

Wheels == 0..(WHEEL_NUM - 1)
Size(w) == IF w = 0 THEN SIZE1 ELSE SIZE2

\* Milliseconds per spoke of wheel w: 1 << (WHEEL_BITS1 + (w-1) * WHEEL_BITS2).
Unit[w \in Wheels] == IF w = 0 THEN 1 ELSE IF w = 1 THEN SIZE1 ELSE Unit[w - 1] * SIZE2

\* The places of a node: a spoke <<wheel, spoke>>, mReadyNodes, no list.
Ready   == <<WHEEL_NUM, 0>>
Nowhere == <<WHEEL_NUM + 1, 0>>

VARIABLES
  now,        \* GetCurrentMillisec()
  startTick,  \* mStartTick
  index,      \* index[w]: spokeIndex of wheel w
  timerMap,   \* the timers in the mTimerMap of their handler, which owns the nodes
  place,      \* place[t]: the list the node of t is in
  dead,       \* mDeadTime
  interval,   \* mInterval
  pc,         \* "out" of ProcessTimer (mBusying is false), turning the "wheel",
              \* "fire" (ProcessTimeOut), or in the "call" of a timer
  loops,      \* spokes DetectList still has to turn
  tickNow,    \* ProcessTimeOut's reading of the clock
  slack       \* slack[t]: how far startTick was behind when t was put on a spoke: history

vars == <<now, startTick, index, timerMap, place, dead, interval, pc, loops, tickNow, slack>>

Lag == now - startTick

WheelOfInclusive(ms) == CHOOSE w \in Wheels : /\ w > 0 => ms > Unit[w]
                                              /\ w < WHEEL_NUM - 1 => ms <= Unit[w + 1]

\* AddTimer: the spoke for a timer that is due in ms, the wheels being at idx.
WheelOf(ms) == CHOOSE w \in Wheels : /\ w > 0 => ms >= Unit[w]
                                     /\ w < WHEEL_NUM - 1 => ms < Unit[w + 1]
SpokeUnmasked(ms, idx) == <<0, ms + idx[0]>>
SpokeLate(ms, idx) ==
  LET w == WheelOf(ms) IN <<w, ((ms + idx[w] * Unit[w]) \div Unit[w]) % Size(w)>>

Spoke(ms, idx) ==
  LET w == WheelOf(ms) IN
  IF w = 0 THEN <<0, (ms + idx[0]) % SIZE1>>
  ELSE <<w, ((ms - Unit[w] + idx[w] * Unit[w]) \div Unit[w]) % SIZE2>>

-----------------------------------------------------------------------------
(* SetTimer and KillTimer: called by handlers, and by the callbacks of     *)
(* timers.                                                                 *)

SetTimer(t, i) ==
  LET ms == IF i = 0 THEN 1 ELSE i IN
  /\ pc \in {"out", "call"}
  /\ t \notin timerMap
  /\ timerMap' = timerMap \cup {t}
  /\ dead' = [dead EXCEPT ![t] = now + ms]
  /\ interval' = [interval EXCEPT ![t] = ms]
  /\ place' = [place EXCEPT ![t] = Spoke(ms, index)]
  /\ slack' = [slack EXCEPT ![t] = Lag]
  /\ UNCHANGED <<now, startTick, index, pc, loops, tickNow>>

\* Without RemoveTimer.
ForgetInMap(t) ==
  /\ timerMap' = timerMap \ {t}
  /\ UNCHANGED <<place, dead, interval, slack>>

\* The node goes: off its list, out of the handler's map.
Forget(t) ==
  /\ timerMap' = timerMap \ {t}
  /\ place' = [place EXCEPT ![t] = Nowhere]
  /\ dead' = [dead EXCEPT ![t] = 0]
  /\ interval' = [interval EXCEPT ![t] = 1]
  /\ slack' = [slack EXCEPT ![t] = 0]

KillTimer(t) ==
  /\ pc \in {"out", "call"}
  /\ t \in timerMap
  /\ Forget(t)
  /\ UNCHANGED <<now, startTick, index, pc, loops, tickNow>>

-----------------------------------------------------------------------------
(* ProcessTimer.                                                           *)

\* DetectList reads the clock once.
Detect ==
  /\ pc = "out"
  /\ loops' = IF now > startTick THEN now - startTick ELSE 0
  /\ pc' = "wheel"
  /\ UNCHANGED <<now, startTick, index, timerMap, place, dead, interval, tickNow, slack>>

\* Cascade(w): empty the current spoke of wheel w onto the wheels below, and
\* turn it; carry says whether the wheel below came round.
CascadeOne(st, w) ==
  LET idx   == [st.index EXCEPT ![w] = @ + 1]
      moved == {t \in Timers : st.place[t] = <<w, st.index[w]>>}
  IN  [index |-> [idx EXCEPT ![w] = @ % SIZE2],
       carry |-> idx[w] >= SIZE2,
       place |-> [t \in Timers |->
                    IF t \notin moved THEN st.place[t]
                    ELSE IF dead[t] <= now THEN Ready
                    ELSE Spoke(dead[t] - now, idx)],
       moved |-> st.moved \cup moved]

\* Wheels 1..w, as far as the carry goes.
Cascade(first) ==
  LET upTo[w \in Wheels] ==
        IF w = 0 THEN first
        ELSE IF upTo[w - 1].carry THEN CascadeOne(upTo[w - 1], w) ELSE upTo[w - 1]
  IN  upTo[WHEEL_NUM - 1]

\* One turn of DetectList's loop: the whole spoke becomes ready.
Turn ==
  LET spun == [index |-> [index EXCEPT ![0] = (@ + 1) % SIZE1],
               carry |-> index[0] + 1 >= SIZE1,
               place |-> [t \in Timers |->
                            IF place[t] = <<0, index[0]>> THEN Ready ELSE place[t]],
               moved |-> {}]
      next == Cascade(spun)
  IN
  /\ pc = "wheel" /\ loops > 0
  /\ index' = next.index
  /\ place' = next.place
  /\ slack' = [t \in Timers |-> IF t \in next.moved THEN Lag ELSE slack[t]]
  /\ startTick' = startTick + 1
  /\ loops' = loops - 1
  /\ UNCHANGED <<now, timerMap, dead, interval, pc, tickNow>>

\* ProcessTimeOut reads the clock once.
BeginFire ==
  /\ pc = "wheel" /\ loops = 0
  /\ tickNow' = now
  /\ pc' = "fire"
  /\ UNCHANGED <<now, startTick, index, timerMap, place, dead, interval, loops, slack>>

\* Take a node off mReadyNodes, put it back on a wheel unless it is a
\* one-shot timer, and call OnTimer or the runnable.
Fire(t) ==
  /\ pc = "fire" /\ place[t] = Ready
  /\ \/ t \in OneShot /\ Forget(t)
     \/ /\ t \notin OneShot
        /\ dead' = [dead EXCEPT ![t] = tickNow + interval[t]]
        /\ place' = [place EXCEPT ![t] = Spoke(interval[t], index)]
        /\ slack' = [slack EXCEPT ![t] = IF tickNow > startTick THEN tickNow - startTick ELSE 0]
        /\ UNCHANGED <<timerMap, interval>>
  /\ pc' = "call"
  /\ UNCHANGED <<now, startTick, index, loops, tickNow>>

\* The callback returns.
Called ==
  /\ pc = "call"
  /\ pc' = "fire"
  /\ UNCHANGED <<now, startTick, index, timerMap, place, dead, interval, loops, tickNow, slack>>

\* mReadyNodes is empty.
EndFire ==
  /\ pc = "fire"
  /\ \A t \in Timers : place[t] # Ready
  /\ pc' = "out"
  /\ tickNow' = 0
  /\ UNCHANGED <<now, startTick, index, timerMap, place, dead, interval, loops, slack>>

\* Time passes: the looper is busy, or asleep.
Tick ==
  /\ now < MaxTime
  /\ now' = now + 1
  /\ UNCHANGED <<startTick, index, timerMap, place, dead, interval, pc, loops, tickNow, slack>>

-----------------------------------------------------------------------------
Init ==
  /\ now = 0 /\ startTick = 0
  /\ index = [w \in Wheels |-> 0]
  /\ timerMap = {}
  /\ place = [t \in Timers |-> Nowhere]
  /\ dead = [t \in Timers |-> 0]
  /\ interval = [t \in Timers |-> 1]
  /\ pc = "out" /\ loops = 0 /\ tickNow = 0
  /\ slack = [t \in Timers |-> 0]

Next ==
  \/ \E t \in Timers, i \in Intervals : SetTimer(t, i)
  \/ \E t \in Timers : KillTimer(t) \/ Fire(t)
  \/ Detect \/ Turn \/ BeginFire \/ Called \/ EndFire \/ Tick

Spec == Init /\ [][Next]_vars

-----------------------------------------------------------------------------
(* GetMinIdleTime: how long the looper may sleep.                          *)

BusyLowest(w, s) == w = 0 /\ \E t \in Timers : place[t] = <<w, s>>

\* Spoke s of wheel w holds a timer.
Busy(w, s) == \E t \in Timers : place[t] = <<w, s>>

\* Spokes of wheel w, from the current one on, before the first with a timer.
EmptySpokes(w) ==
  LET taken == {i \in 0..(Size(w) - 1) : Busy(w, (i + index[w]) % Size(w))} IN
  IF taken = {} THEN Size(w) ELSE CHOOSE i \in taken : \A j \in taken : i <= j

\* Spokes of wheel w before it comes round.
Rewind(w) == Size(w) - index[w]

GetMinIdleTime ==
  CASE EmptySpokes(0) < Rewind(0) -> EmptySpokes(0)
    [] EmptySpokes(0) >= Rewind(0) /\ Busy(1, index[1]) -> Rewind(0)
    [] OTHER ->
         CASE EmptySpokes(0) < SIZE1 -> EmptySpokes(0)
           [] EmptySpokes(0) = SIZE1 /\ EmptySpokes(1) < Rewind(1) -> EmptySpokes(1) * Unit[1]
           [] OTHER ->
                IF Busy(2, index[2]) THEN Rewind(1) * Unit[1]
                ELSE IF EmptySpokes(1) < SIZE2 THEN EmptySpokes(1) * Unit[1]
                ELSE EmptySpokes(2) * Unit[2]

-----------------------------------------------------------------------------
(* Properties.                                                             *)

\* Every variable keeps its type, spokes stay on their wheels, and the wheels
\* never get ahead of the clock (DetectList, AddTimer).
TypeOK ==
  /\ now \in 0..MaxTime /\ startTick \in 0..MaxTime /\ startTick + loops <= now
  /\ timerMap \subseteq Timers
  /\ index \in [Wheels -> Nat] /\ \A w \in Wheels : index[w] < Size(w)
  /\ \A t \in Timers : \/ place[t] \in {Ready, Nowhere}
                       \/ \E w \in Wheels : place[t] \in {w} \X (0..(Size(w) - 1))
  /\ dead \in [Timers -> Nat] /\ interval \in [Timers -> Nat \ {0}]
  /\ pc \in {"out", "wheel", "fire", "call"}
  /\ loops \in Nat /\ tickNow \in Nat /\ slack \in [Timers -> Nat]

\* The step that calls OnTimer, or the runnable, of t.
Fires(t) == pc = "fire" /\ place[t] = Ready /\ pc' = "call" /\ place'[t] # Ready

\* A timer is never forgotten on a wheel: when DetectList has caught up with
\* the clock, no timer is past its time, whichever wheels it went
\* through (AddTimer's spokes and Cascade).
NoOverdueTimer ==
  pc = "out" /\ startTick = now => \A t \in Timers : t \in timerMap => dead[t] >= now

\* A timer that fires early does so by less than what the wheels were behind
\* the clock when it was put on its last spoke (AddTimer counts from
\* spokeIndex, mDeadTime from the clock).
EarlyByLessThanLag ==
  [][\A t \in Timers : Fires(t) => dead[t] <= now \/ dead[t] < now + slack[t]]_vars

\* The lists hold the nodes of the timers that exist, and no other: after
\* KillTimer a timer does not fire (doc/cn/timer.md), a ready one included,
\* and no list points to a node its map let go of.
ListedIsMapped == \A t \in Timers : place[t] # Nowhere <=> t \in timerMap

\* The looper does not sleep past the next timer (comment on GetMinIdleTime).
SleepIsSafe ==
  pc = "out" /\ startTick = now =>
    \A t \in Timers : t \in timerMap =>
      GetMinIdleTime <= 1 \/ now + GetMinIdleTime <= dead[t] + 1

\* The same, as long as every timer is on one of the wheels GetMinIdleTime
\* looks at in full.
ShortSleepIsSafe == (\A t \in Timers : place[t][1] \notin 2..(WHEEL_NUM - 1)) => SleepIsSafe

=============================================================================
