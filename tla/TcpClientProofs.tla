-------------------------- MODULE TcpClientProofs --------------------------
(***************************************************************************)
(* Theorems about TcpClient and DnsLooper, for any clients, names and      *)
(* addresses.                                                              *)
(***************************************************************************)
EXTENDS TcpClient, FiniteSetTheorems, SequenceTheorems, TLAPS

----------------------------------------------------------------------------
(* The inductive invariants *)

Frame == [batch : SUBSET Event,
          cur : [who : Proxies \cup {None}, todo : SUBSET Phase, app : BOOLEAN],
          wait : Clients \cup {None}, sp : Clients \cup {None}]

\* The types of the channels' variables, one by one.
SockTypes ==
  /\ sock \in [Clients -> {"none", "syn", "up", "failed", "dead"}]
  /\ target \in [Clients -> Names \cup Ips \cup {None}]
  /\ addr \in [Clients -> Names \cup Ips \cup {None}]
  /\ first \in [Clients -> BOOLEAN] /\ writable \in [Clients -> BOOLEAN]
  /\ want \in [Clients -> BOOLEAN] /\ room \in [Clients -> BOOLEAN]
  /\ rx \in [Clients -> BOOLEAN] /\ fin \in [Clients -> BOOLEAN]
  /\ outbox \in [Clients -> BOOLEAN] /\ lost \in [Clients -> BOOLEAN]

\* Without a socket there is nothing to send, to read or to wait for.
NoneFits == \A c \in Clients : sock[c] = "none" => ~want[c] /\ ~room[c] /\ ~rx[c] /\ ~fin[c] /\ ~outbox[c]

LifeTypes ==
  /\ backlog \subseteq Accepted
  /\ destroyed \in [Proxies -> BOOLEAN] /\ gone \in [Proxies -> BOOLEAN]
  /\ connects \in [Clients -> 0..MaxConnects]

FramesFit == frames \in Seq(Frame) /\ frames # <<>>

\* Every nested loop belongs to a call of Connect: to another one than the other loops.
NestFits ==
  \E call \in [2..Len(frames) -> Clients \X (1..MaxConnects)] :
    /\ \A i \in 2..Len(frames) : call[i][2] <= connects[call[i][1]]
    /\ \A i, j \in 2..Len(frames) : call[i] = call[j] => i = j

\* The worker runs only while it is polled; an address is the one of the name that was asked for.
DnsFits ==
  /\ threadRunning => timerCheck
  /\ mIP \in {mDns, None} /\ ack.ip \in {ack.dns, None}
  /\ ack.state # "none" => ack.who \in Clients /\ ack.dns \in Names

\* EPOLLOUT is asked for while data is pending, and none is before the first event.
SendFits ==
  /\ \A c \in Clients : outbox[c] => want[c]
  /\ \A c \in Clients \ Accepted : first[c] => ~outbox[c]

\* The first event is handled before any callback runs.
FirstFits ==
  \A i \in 1..Len(frames) : "first" \in frames[i].cur.todo =>
    /\ i = Len(frames) /\ ~frames[i].cur.app
    /\ frames[i].cur.who \in Clients /\ first[frames[i].cur.who]

Inv ==
  /\ DnsTypeOK /\ SockTypes /\ NoneFits /\ LifeTypes
  /\ FramesFit /\ NestFits /\ DnsFits /\ RequestIsPolled
  /\ ConnectsToLatest /\ SendFits /\ FirstFits

\* Loops below the top have nothing under way.
OuterIdle == \A i \in 1..(Len(frames) - 1) : frames[i].batch = {} /\ frames[i].cur = NoEvent

\* An event of a client: it has not been deleted, it has been accepted, and a hang-up without
\* something to read means that nothing is left to read.
EventFits(e) ==
  /\ e.who # None => ~gone[e.who]
  /\ e.who \in Clients => e.who \notin backlog
  /\ "hup" \in e.todo => e.who \in Clients /\ ("in" \notin e.todo => ~rx[e.who])

EventsFit ==
  /\ \A e \in Top.batch : EventFits(e)
  /\ EventFits(Top.cur) /\ (Top.cur.who = None => Top.cur = NoEvent)

\* Who is deleted was destroyed, has no socket and waits for no name; who waits to be accepted has
\* no socket either, had no event, lives, and never asked for a name.
GoneFits ==
  /\ \A p \in Proxies : gone[p] => destroyed[p]
  /\ \A c \in Clients : gone[c] => sock[c] = "none"
  /\ ack.state # "none" => ~gone[ack.who]
  /\ \A c \in backlog : sock[c] = "none" /\ first[c] /\ ~destroyed[c]
  /\ \A c \in Accepted : addr[c] = None

BatchInv == OuterIdle /\ EventsFit /\ GoneFits /\ NothingLost

----------------------------------------------------------------------------
(* The resolver *)

\* The head and the tail of a list of requests.
LEMMA HeadTail ==
  ASSUME NEW s \in Seq(Request), s # <<>>
  PROVE  Head(s) \in Request /\ Tail(s) \in Seq(Request)
         /\ Head(s).who \in Clients /\ Head(s).dns \in Names
  <1>1. Head(s) \in Request /\ Tail(s) \in Seq(Request)
    BY HeadTailProperties
  <1> QED BY <1>1 DEF Request

\* StartDnsThread starts the worker if there is something to do.
LEMMA StartEffect ==
  ASSUME NEW queue \in Seq(Request), NEW busy \in BOOLEAN, DnsTypeOK, mIP \in {mDns, None},
         StartDnsThread(queue, busy)
  PROVE  /\ threadRunning' \in BOOLEAN /\ (threadRunning' <=> busy \/ queue # <<>>)
         /\ mDns' \in Names \cup {None} /\ mIP' \in Names \cup {None} /\ mIP' \in {mDns', None}
  <1>1. CASE busy \/ queue = <<>>
    BY <1>1 DEF StartDnsThread, DnsTypeOK
  <1>2. CASE ~busy /\ queue # <<>>
    BY <1>2, HeadTail DEF StartDnsThread
  <1> QED BY <1>1, <1>2

\* Every step of the resolver keeps its part of the invariant, and answers live clients only.
LEMMA DnsStep ==
  ASSUME DnsTypeOK, DnsFits, RequestIsPolled, NEW alive \in SUBSET Clients, DnsNext(alive)
  PROVE  /\ DnsTypeOK' /\ DnsFits' /\ RequestIsPolled'
         /\ ack'.state = "none" \/ ack' = ack \/ ack'.who \in alive
  <1> USE DnsAssumption
  <1>1. CASE OnAddRequest
    <2>1. /\ dnsBox # <<>> /\ dnsBox' = Tail(dnsBox) /\ items' = Append(items, Head(dnsBox))
          /\ StartDnsThread(items', threadRunning) /\ ack' = ack
          /\ timerCheck' = (timerCheck \/ ~threadRunning)
      BY <1>1 DEF OnAddRequest
    <2>2. dnsBox' \in Seq(Request) /\ items' \in Seq(Request) /\ items' # <<>>
      BY <2>1, HeadTail, AppendProperties DEF DnsTypeOK
    <2>3. timerCheck' \in BOOLEAN /\ (timerCheck' <=> timerCheck \/ ~threadRunning)
      BY <2>1, Zenon
    <2>4. /\ threadRunning' \in BOOLEAN
          /\ mDns' \in Names \cup {None} /\ mIP' \in Names \cup {None} /\ mIP' \in {mDns', None}
      BY <2>1, <2>2, StartEffect DEF DnsTypeOK, DnsFits
    <2>5. timerCheck'
      BY <2>3 DEF DnsFits
    <2> QED BY <2>1, <2>2, <2>3, <2>4, <2>5 DEF DnsTypeOK, DnsFits, RequestIsPolled
  <1>2. CASE DnsThread
    BY <1>2 DEF DnsThread, DnsTypeOK, DnsFits, RequestIsPolled
  <1>3. CASE OnTimer(alive)
    <2> DEFINE hit == items # <<>> /\ Head(items).dns = mDns
               left == IF hit THEN Tail(items) ELSE items
    <2>1. ack.state = "none" /\ timerCheck /\ ~threadRunning /\ dnsBox' = dnsBox /\ items' = left
      BY <1>3 DEF OnTimer
    <2>2. left \in Seq(Request)
      BY HeadTail DEF DnsTypeOK
    <2>3. CASE hit /\ Head(items).who \in alive
      <3>1. /\ ack' = [state |-> "sent", who |-> Head(items).who, dns |-> mDns, ip |-> mIP]
            /\ timerCheck' = FALSE /\ threadRunning' = threadRunning /\ mDns' = mDns /\ mIP' = mIP
        BY <1>3, <2>3 DEF OnTimer
      <3>2. Head(items).who \in Clients /\ mDns \in Names
        BY <2>3, HeadTail DEF DnsTypeOK
      <3> HIDE DEF left
      <3> QED BY <2>1, <2>2, <2>3, <3>1, <3>2 DEF DnsTypeOK, DnsFits, RequestIsPolled
    <2>4. CASE ~(hit /\ Head(items).who \in alive)
      <3>1. StartDnsThread(left, FALSE) /\ timerCheck' = (left # <<>>) /\ ack' = ack
        BY <1>3, <2>4 DEF OnTimer
      <3> HIDE DEF left, hit
      <3>2. timerCheck' \in BOOLEAN /\ (timerCheck' <=> left # <<>>)
        BY <3>1, Zenon
      <3>3. /\ threadRunning' \in BOOLEAN /\ (threadRunning' <=> left # <<>>)
            /\ mDns' \in Names \cup {None} /\ mIP' \in Names \cup {None} /\ mIP' \in {mDns', None}
        BY <2>2, <3>1, StartEffect DEF DnsFits
      <3> QED BY <2>1, <2>2, <3>1, <3>2, <3>3 DEF DnsTypeOK, DnsFits, RequestIsPolled
    <2> QED BY <2>3, <2>4
  <1>4. CASE AfterAck
    <2>1. /\ ack' = NoAck /\ StartDnsThread(items, threadRunning) /\ UNCHANGED <<dnsBox, items>>
          /\ timerCheck' = (timerCheck \/ (items # <<>> /\ ~threadRunning))
      BY <1>4 DEF AfterAck
    <2>2. timerCheck' \in BOOLEAN /\ (timerCheck' <=> timerCheck \/ (items # <<>> /\ ~threadRunning))
      BY <2>1, Zenon
    <2>3. /\ threadRunning' \in BOOLEAN /\ (threadRunning' <=> threadRunning \/ items # <<>>)
          /\ mDns' \in Names \cup {None} /\ mIP' \in Names \cup {None} /\ mIP' \in {mDns', None}
      BY <2>1, StartEffect DEF DnsTypeOK, DnsFits
    <2>4. NoAck.state = "none" /\ NoAck.ip = NoAck.dns
          /\ NoAck \in [state : {"none", "sent", "done"}, who : Clients \cup {None},
                        dns : Names \cup {None}, ip : Names \cup {None}]
      BY DEF NoAck
    <2>5. items # <<>> => timerCheck'
      BY <2>2 DEF DnsFits
    <2>6. threadRunning' => timerCheck'
      BY <2>2, <2>3 DEF DnsFits
    <2> QED BY <2>1, <2>2, <2>3, <2>4, <2>5, <2>6 DEF DnsTypeOK, DnsFits, RequestIsPolled
  <1> QED BY <1>1, <1>2, <1>3, <1>4 DEF DnsNext

----------------------------------------------------------------------------
(* The loops *)

\* The top loop is one of the loops.
LEMMA TopType ==
  ASSUME FramesFit
  PROVE  /\ Len(frames) \in Nat \ {0} /\ Top \in Frame
         /\ Top.cur.who \in Proxies \cup {None} /\ Top.cur.todo \subseteq Phase /\ Top.cur.app \in BOOLEAN
         /\ Top.batch \subseteq Event
  <1>1. Len(frames) \in Nat \ {0} /\ Top \in Frame
    BY EmptySeq DEF FramesFit, Top
  <1> QED BY <1>1 DEF Frame

\* The top loop is replaced by f; the others stay.
ReplaceTop(f) == frames' = [frames EXCEPT ![Len(frames)] = f]

\* The loops after that.
LEMMA ReplaceTopEffect ==
  ASSUME FramesFit, NEW f \in Frame, ReplaceTop(f)
  PROVE  /\ FramesFit' /\ Len(frames') = Len(frames) /\ Top' = f
         /\ \A i \in 1..Len(frames) : frames'[i] = IF i = Len(frames) THEN f ELSE frames[i]
  <1>1. Len(frames) \in Nat \ {0} /\ Len(frames) \in 1..Len(frames)
    BY TopType
  <1>2. /\ frames' \in Seq(Frame) /\ Len(frames') = Len(frames)
        /\ \A i \in 1..Len(frames) : frames'[i] = IF i = Len(frames) THEN f ELSE frames[i]
    BY <1>1, ExceptSeq DEF FramesFit, ReplaceTop
  <1>3. frames' # <<>>
    BY <1>1, <1>2
  <1> QED BY <1>1, <1>2, <1>3 DEF FramesFit, Top

\* The event of the top loop after Continue.
Continued(todo, app) ==
  IF todo = {} /\ ~app THEN NoEvent ELSE [who |-> Top.cur.who, todo |-> todo, app |-> app]

\* OnEvent goes on, whatever it holds.
Continues(todo, app) == \E sp \in Clients \cup {None} : ContinueWith(todo, app, sp)

\* Continue and OnAccept make OnEvent go on.
LEMMA Continuing ==
  /\ \A todo, app : Continue(todo, app) => Continues(todo, app)
  /\ \A todo, app : \A c \in Clients : ContinueWith(todo, app, c) => Continues(todo, app)
  BY DEF Continue, Continues

\* The loops after that.
LEMMA ContinueEffect ==
  ASSUME FramesFit, NEW todo \in SUBSET Phase, NEW app \in BOOLEAN, Continues(todo, app)
  PROVE  /\ FramesFit' /\ Len(frames') = Len(frames)
         /\ Top'.batch = Top.batch /\ Top'.cur = Continued(todo, app)
         /\ Top'.cur.todo = todo
         /\ Top'.cur.who = Top.cur.who \/ (Top'.cur.who = None /\ todo = {})
         /\ Top'.cur.app <=> app
         /\ \A i \in 1..Len(frames) : i # Len(frames) => frames'[i] = frames[i]
  <1>0. PICK sp \in Clients \cup {None} : ContinueWith(todo, app, sp)
    BY DEF Continues
  <1> DEFINE f == [Top EXCEPT !.sp = sp, !.cur = Continued(todo, app)]
  <1>1. Continued(todo, app) \in [who : Proxies \cup {None}, todo : SUBSET Phase, app : BOOLEAN]
    BY TopType DEF Continued, NoEvent
  <1>2. f \in Frame /\ f.batch = Top.batch /\ f.cur = Continued(todo, app)
    BY <1>1, TopType DEF Frame
  <1>3. ReplaceTop(f)
    BY <1>0 DEF ContinueWith, ReplaceTop, Continued
  <1>4. /\ Continued(todo, app).todo = todo
        /\ Continued(todo, app).who = Top.cur.who \/ (Continued(todo, app).who = None /\ todo = {})
        /\ Continued(todo, app).app <=> app
    BY DEF Continued, NoEvent
  <1> HIDE DEF f
  <1> QED BY <1>2, <1>3, <1>4, ReplaceTopEffect

\* A loop is nested in the others.
LEMMA PushEffect ==
  ASSUME FramesFit, NEW c \in Clients, frames' = Append(frames, [IdleFrame EXCEPT !.wait = c])
  PROVE  /\ FramesFit' /\ Len(frames') = Len(frames) + 1
         /\ Top'.batch = {} /\ Top'.cur = NoEvent
         /\ \A i \in 1..Len(frames) : frames'[i] = frames[i]
  <1> DEFINE f == [IdleFrame EXCEPT !.wait = c]
  <1>1. f \in Frame /\ f.batch = {} /\ f.cur = NoEvent
    BY DEF IdleFrame, NoEvent, Frame
  <1> HIDE DEF f
  <1>2. /\ frames' \in Seq(Frame) /\ Len(frames') = Len(frames) + 1
        /\ frames'[Len(frames) + 1] = f /\ \A i \in 1..Len(frames) : frames'[i] = frames[i]
    BY <1>1, AppendProperties DEF FramesFit, f
  <1>3. frames' # <<>>
    BY <1>2, TopType
  <1> QED BY <1>1, <1>2, <1>3 DEF FramesFit, Top

\* The nested loop on top ends.
LEMMA PopEffect ==
  ASSUME FramesFit, Len(frames) > 1, frames' = SubSeq(frames, 1, Len(frames) - 1)
  PROVE  /\ FramesFit' /\ Len(frames') = Len(frames) - 1
         /\ \A i \in 1..(Len(frames) - 1) : frames'[i] = frames[i]
  <1>1. Len(frames) \in Nat \ {0}
    BY TopType
  <1>2. /\ frames' \in Seq(Frame) /\ Len(frames') = Len(frames) - 1
        /\ \A i \in 1..(Len(frames) - 1) : frames'[i] = frames[i]
    <2>1. /\ frames \in Seq(Frame) /\ 1 \in 1..(Len(frames) + 1) /\ Len(frames) - 1 \in 0..Len(frames)
          /\ 1 <= Len(frames) - 1 /\ (Len(frames) - 1) - 1 + 1 = Len(frames) - 1
      BY <1>1 DEF FramesFit
    <2>2. /\ SubSeq(frames, 1, Len(frames) - 1) \in Seq(Frame)
          /\ Len(SubSeq(frames, 1, Len(frames) - 1)) = Len(frames) - 1
      BY <2>1, SubSeqProperties
    <2>3. \A i \in 1..(Len(frames) - 1) : SubSeq(frames, 1, Len(frames) - 1)[i] = frames[i]
      BY <1>1 DEF FramesFit
    <2> QED BY <2>2, <2>3
  <1>3. frames' # <<>>
    <2>1. \A n \in Nat \ {0} : n > 1 => n - 1 # 0
      OBVIOUS
    <2>2. Len(frames) - 1 # 0
      BY <1>1, <2>1
    <2>3. Len(frames') # 0
      BY <1>2, <2>2, Zenon
    <2>4. Len(<<>>) = 0
      OBVIOUS
    <2> QED BY <2>3, <2>4, Zenon
  <1> QED BY <1>2, <1>3 DEF FramesFit

\* There are no more loops than calls of Connect.
LEMMA NestBound ==
  ASSUME FramesFit, NestFits
  PROVE  Len(frames) \in 1..(1 + MaxConnects * Cardinality(Clients))
  <1>1. Len(frames) \in Nat \ {0} /\ IsFiniteSet(Clients) /\ MaxConnects \in Nat
    BY TopType, TcpAssumption
  <1> DEFINE S == 2..Len(frames)
             T == Clients \X (1..MaxConnects)
  <1>2. PICK call \in [S -> T] : \A i, j \in S : call[i] = call[j] => i = j
    BY DEF NestFits
  <1>3. /\ IsFiniteSet(1..MaxConnects) /\ Cardinality(1..MaxConnects) = MaxConnects
        /\ IsFiniteSet(S) /\ Cardinality(S) = Len(frames) - 1
    <2>1. ASSUME NEW a \in Int, NEW b \in Int, a <= b + 1
          PROVE  IsFiniteSet(a..b) /\ Cardinality(a..b) = b - a + 1
      <3>1. IsFiniteSet(a..b) /\ Cardinality(a..b) = IF a > b THEN 0 ELSE b - a + 1
        BY FS_Interval
      <3>2. a > b => b - a + 1 = 0
        BY <2>1
      <3> QED BY <3>1, <3>2
    <2>2. 1 <= MaxConnects + 1 /\ MaxConnects - 1 + 1 = MaxConnects /\ MaxConnects \in Int /\ 1 \in Int
      BY <1>1
    <2>3. 2 <= Len(frames) + 1 /\ Len(frames) - 2 + 1 = Len(frames) - 1 /\ Len(frames) \in Int /\ 2 \in Int
      BY <1>1
    <2>4. IsFiniteSet(1..MaxConnects) /\ Cardinality(1..MaxConnects) = MaxConnects
      BY <2>1, <2>2
    <2>5. IsFiniteSet(S) /\ Cardinality(S) = Len(frames) - 1
      BY <2>1, <2>3
    <2> QED BY <2>4, <2>5
  <1>4. IsFiniteSet(T) /\ Cardinality(T) = Cardinality(Clients) * MaxConnects
    BY <1>1, <1>3, FS_Product
  <1>5. call \in Injection(S, T)
    BY <1>2 DEF Injection, IsInjective
  <1>6. Cardinality(S) <= Cardinality(T)
    BY <1>4, <1>5, FS_Injection DEF ExistsInjection
  <1>7. Cardinality(Clients) \in Nat
    BY <1>1, FS_CardinalityType
  <1>8. \A m, n, l \in Nat : l - 1 <= m * n => l <= 1 + n * m
    OBVIOUS
  <1>9. Len(frames) <= 1 + MaxConnects * Cardinality(Clients)
    BY <1>1, <1>3, <1>4, <1>6, <1>7, <1>8
  <1> QED BY <1>1, <1>7, <1>9

\* The nested loops go with the calls of Connect, of which there are only more.
LEMMA NestKeeps ==
  ASSUME FramesFit, NestFits, LifeTypes, Len(frames') \in 1..Len(frames),
         \A c \in Clients : connects'[c] \in Nat /\ connects[c] <= connects'[c]
  PROVE  NestFits'
  <1>1. PICK call \in [2..Len(frames) -> Clients \X (1..MaxConnects)] :
               /\ \A i \in 2..Len(frames) : call[i][2] <= connects[call[i][1]]
               /\ \A i, j \in 2..Len(frames) : call[i] = call[j] => i = j
    BY DEF NestFits
  <1> DEFINE new == [i \in 2..Len(frames') |-> call[i]]
  <1>2. Len(frames) \in Nat /\ Len(frames') \in Nat /\ 2..Len(frames') \subseteq 2..Len(frames)
    BY TopType
  <1>3. new \in [2..Len(frames') -> Clients \X (1..MaxConnects)]
    BY <1>2
  <1>4. \A i \in 2..Len(frames') : new[i] = call[i]
    OBVIOUS
  <1>5. ASSUME NEW i \in 2..Len(frames') PROVE new[i][2] <= connects'[new[i][1]]
    <2>1. i \in 2..Len(frames) /\ new[i] = call[i]
      BY <1>2, <1>4
    <2>2. call[i] \in Clients \X (1..MaxConnects)
      BY <2>1
    <2>3. /\ call[i][1] \in Clients /\ call[i][2] \in Nat /\ connects[call[i][1]] \in Nat
          /\ connects'[call[i][1]] \in Nat /\ connects[call[i][1]] <= connects'[call[i][1]]
      BY <2>2, TcpAssumption DEF LifeTypes
    <2>4. call[i][2] <= connects[call[i][1]]
      BY <1>1, <2>1
    <2> HIDE DEF new
    <2> QED BY <2>1, <2>3, <2>4
  <1> HIDE DEF new
  <1>6. \A i, j \in 2..Len(frames') : new[i] = new[j] => i = j
    BY <1>1, <1>2, <1>4
  <1> QED BY <1>3, <1>5, <1>6 DEF NestFits

\* Connect to a name nests one more.
LEMMA NestPush ==
  ASSUME FramesFit, NestFits, LifeTypes, NEW c \in Clients, connects[c] < MaxConnects,
         connects' = [connects EXCEPT ![c] = @ + 1], Len(frames') = Len(frames) + 1
  PROVE  NestFits'
  <1>1. PICK call \in [2..Len(frames) -> Clients \X (1..MaxConnects)] :
               /\ \A i \in 2..Len(frames) : call[i][2] <= connects[call[i][1]]
               /\ \A i, j \in 2..Len(frames) : call[i] = call[j] => i = j
    BY DEF NestFits
  <1> DEFINE top == Len(frames) + 1
             mine == <<c, connects[c] + 1>>
             new == [i \in 2..top |-> IF i = top THEN mine ELSE call[i]]
  <1>2. /\ Len(frames) \in Nat \ {0} /\ MaxConnects \in Nat /\ connects[c] \in Nat
        /\ \A x \in Clients : connects[x] \in Nat
        /\ \A x \in Clients : connects'[x] = IF x = c THEN connects[x] + 1 ELSE connects[x]
    BY TopType, TcpAssumption DEF LifeTypes
  <1>3. mine \in Clients \X (1..MaxConnects) /\ mine[1] = c /\ mine[2] = connects[c] + 1
    BY <1>2
  <1>4. \A i \in 2..top : i # top => i \in 2..Len(frames)
    BY <1>2
  <1>5. top \in 2..top /\ 2..Len(frames') = 2..top
    BY <1>2
  <1> HIDE DEF mine, top
  <1>6. new \in [2..top -> Clients \X (1..MaxConnects)]
    BY <1>3, <1>4
  <1>7. \A i \in 2..top : new[i] = IF i = top THEN mine ELSE call[i]
    OBVIOUS
  <1> HIDE DEF new
  <1>8. ASSUME NEW i \in 2..Len(frames)
        PROVE  /\ call[i][1] \in Clients /\ call[i][2] \in Nat /\ call[i] # mine
               /\ call[i][2] <= connects'[call[i][1]]
    <2>1. call[i] \in Clients \X (1..MaxConnects)
      OBVIOUS
    <2>2. call[i][1] \in Clients /\ call[i][2] \in Nat /\ call[i][2] <= connects[call[i][1]]
      BY <1>1, <1>2, <2>1
    <2> QED BY <1>2, <1>3, <2>2
  <1>9. ASSUME NEW i \in 2..top PROVE new[i][2] <= connects'[new[i][1]]
    <2>1. CASE i = top
      BY <1>2, <1>3, <1>7, <2>1
    <2>2. CASE i # top
      BY <1>4, <1>7, <1>8, <2>2
    <2> QED BY <2>1, <2>2
  <1>10. \A i, j \in 2..top : new[i] = new[j] => i = j
    BY <1>1, <1>4, <1>7, <1>8
  <1> QED BY <1>5, <1>6, <1>9, <1>10 DEF NestFits

\* OnEvent goes on with what follows the first event.
LEMMA ContinueKeeps ==
  ASSUME FramesFit, NestFits, FirstFits, LifeTypes, NEW todo \in SUBSET Phase, NEW app \in BOOLEAN,
         Continues(todo, app), "first" \notin todo, UNCHANGED connects
  PROVE  FramesFit' /\ NestFits' /\ FirstFits'
  <1>1. /\ FramesFit' /\ Len(frames') = Len(frames) /\ Top'.cur.todo = todo
        /\ \A i \in 1..Len(frames) : i # Len(frames) => frames'[i] = frames[i]
    BY ContinueEffect
  <1>2. NestFits'
    <2>1. Len(frames') \in 1..Len(frames)
      BY <1>1, TopType
    <2>2. \A c \in Clients : connects'[c] \in Nat /\ connects[c] <= connects'[c]
      BY TcpAssumption DEF LifeTypes
    <2> QED BY <2>1, <2>2, NestKeeps
  <1>3. ASSUME NEW i \in 1..Len(frames'), "first" \in frames'[i].cur.todo PROVE FALSE
    <2>1. CASE i = Len(frames)
      BY <1>1, <1>3, <2>1 DEF Top
    <2>2. CASE i # Len(frames)
      BY <1>1, <1>3, <2>2 DEF FirstFits
    <2> QED BY <2>1, <2>2
  <1> QED BY <1>1, <1>2, <1>3 DEF FirstFits

----------------------------------------------------------------------------
(* The channels *)

\* An update of one channel's flag.
LEMMA BoolUpdate ==
  ASSUME NEW f \in [Clients -> BOOLEAN], NEW c \in Clients, NEW b \in BOOLEAN
  PROVE  /\ [f EXCEPT ![c] = b] \in [Clients -> BOOLEAN]
         /\ [f EXCEPT ![c] = b][c] = b
         /\ \A x \in Clients : x # c => [f EXCEPT ![c] = b][x] = f[x]
  OBVIOUS

\* Close forgets everything about the sockets.
Shutdown(cs) ==
  /\ SockTypes'
  /\ \A c \in Clients : sock'[c] = IF c \in cs THEN "none" ELSE sock[c]
  /\ \A c \in Clients : target'[c] = IF c \in cs THEN None ELSE target[c]
  /\ \A c \in Clients : /\ want'[c] <=> want[c] /\ c \notin cs
                        /\ room'[c] <=> room[c] /\ c \notin cs
                        /\ rx'[c] <=> rx[c] /\ c \notin cs
                        /\ fin'[c] <=> fin[c] /\ c \notin cs
                        /\ outbox'[c] <=> outbox[c] /\ c \notin cs
  /\ first' = first /\ writable' = writable

\* That is what Shut does.
LEMMA ShutEffect ==
  ASSUME SockTypes, NEW cs, Shut(cs), addr' = addr, lost' \in [Clients -> BOOLEAN]
  PROVE  Shutdown(cs)
  <1>1. /\ sock' = [c \in Clients |-> IF c \in cs THEN "none" ELSE sock[c]]
        /\ target' = [c \in Clients |-> IF c \in cs THEN None ELSE target[c]]
        /\ want' = [c \in Clients |-> want[c] /\ c \notin cs]
        /\ room' = [c \in Clients |-> room[c] /\ c \notin cs]
        /\ rx' = [c \in Clients |-> rx[c] /\ c \notin cs]
        /\ fin' = [c \in Clients |-> fin[c] /\ c \notin cs]
        /\ outbox' = [c \in Clients |-> outbox[c] /\ c \notin cs]
        /\ first' = first /\ writable' = writable
    BY DEF Shut
  <1>2. /\ \A c \in Clients : want'[c] <=> want[c] /\ c \notin cs
        /\ \A c \in Clients : room'[c] <=> room[c] /\ c \notin cs
        /\ \A c \in Clients : rx'[c] <=> rx[c] /\ c \notin cs
        /\ \A c \in Clients : fin'[c] <=> fin[c] /\ c \notin cs
        /\ \A c \in Clients : outbox'[c] <=> outbox[c] /\ c \notin cs
    BY <1>1, Zenon
  <1>3. /\ want' \in [Clients -> BOOLEAN] /\ room' \in [Clients -> BOOLEAN]
        /\ rx' \in [Clients -> BOOLEAN] /\ fin' \in [Clients -> BOOLEAN]
        /\ outbox' \in [Clients -> BOOLEAN]
    BY <1>1, Zenon
  <1>4. /\ sock' \in [Clients -> {"none", "syn", "up", "failed", "dead"}]
        /\ \A c \in Clients : sock'[c] = IF c \in cs THEN "none" ELSE sock[c]
    BY <1>1 DEF SockTypes
  <1>5. /\ target' \in [Clients -> Names \cup Ips \cup {None}]
        /\ \A c \in Clients : target'[c] = IF c \in cs THEN None ELSE target[c]
    BY <1>1 DEF SockTypes
  <1> QED BY <1>1, <1>2, <1>3, <1>4, <1>5 DEF Shutdown, SockTypes

\* send() of a channel with a socket: EPOLLOUT is asked for if data is left.
LEMMA TransmitEffect ==
  ASSUME SockTypes, NoneFits, NEW c \in Clients, NEW w \in BOOLEAN, NEW l \in BOOLEAN, Transmit(c, w, l),
         sock[c] # "none", addr' = addr, lost' = lost
  PROVE  /\ SockTypes' /\ NoneFits'
         /\ sock' = sock /\ target' = target /\ first' = first /\ rx' = rx /\ fin' = fin
         /\ outbox'[c] => want'[c]
         /\ \A x \in Clients : x # c => outbox'[x] = outbox[x] /\ want'[x] = want[x]
  <1>1. sock' = sock /\ target' = target /\ first' = first /\ rx' = rx /\ fin' = fin
    BY DEF Transmit
  <1>2. CASE /\ outbox' = [outbox EXCEPT ![c] = FALSE]
             /\ want' = [want EXCEPT ![c] = w] /\ writable' = [writable EXCEPT ![c] = l]
             /\ room' = room
    BY <1>1, <1>2, BoolUpdate DEF SockTypes, NoneFits
  <1>3. CASE /\ outbox' = [outbox EXCEPT ![c] = TRUE]
             /\ want' = [want EXCEPT ![c] = TRUE] /\ writable' = [writable EXCEPT ![c] = TRUE]
             /\ room' = [room EXCEPT ![c] = FALSE]
    BY <1>1, <1>3, BoolUpdate DEF SockTypes, NoneFits
  <1> QED BY <1>2, <1>3 DEF Transmit

\* What the parts of Inv are about: a step that leaves it alone keeps them.
LEMMA Untouched ==
  ASSUME Inv
  PROVE  /\ UNCHANGED dnsVars => DnsTypeOK' /\ DnsFits' /\ RequestIsPolled'
         /\ UNCHANGED <<sockVars, addr, lost>> => SockTypes'
         /\ UNCHANGED <<sock, want, room, rx, fin, outbox>> => NoneFits'
         /\ UNCHANGED <<backlog, lifeVars, connects>> => LifeTypes'
         /\ UNCHANGED frames => FramesFit'
         /\ UNCHANGED <<frames, connects>> => NestFits'
         /\ UNCHANGED <<sock, target, addr>> => ConnectsToLatest'
         /\ UNCHANGED <<outbox, want, first>> => SendFits'
         /\ UNCHANGED <<frames, first>> => FirstFits'
  <1> USE DEF Inv
  <1>1. UNCHANGED dnsVars => DnsTypeOK' /\ DnsFits' /\ RequestIsPolled'
    BY DEF dnsVars, DnsTypeOK, DnsFits, RequestIsPolled
  <1>2. UNCHANGED <<sockVars, addr, lost>> => SockTypes'
    BY DEF sockVars, SockTypes
  <1>3. UNCHANGED <<sock, want, room, rx, fin, outbox>> => NoneFits'
    BY DEF NoneFits
  <1>4. UNCHANGED <<backlog, lifeVars, connects>> => LifeTypes'
    BY DEF lifeVars, LifeTypes
  <1>5. UNCHANGED frames => FramesFit'
    BY DEF FramesFit
  <1>6. UNCHANGED <<frames, connects>> => NestFits'
    BY DEF NestFits
  <1>7. UNCHANGED <<sock, target, addr>> => ConnectsToLatest'
    BY DEF ConnectsToLatest
  <1>8. UNCHANGED <<outbox, want, first>> => SendFits'
    BY DEF SendFits
  <1>9. UNCHANGED <<frames, first>> => FirstFits'
    BY DEF FirstFits
  <1> QED BY <1>1, <1>2, <1>3, <1>4, <1>5, <1>6, <1>7, <1>8, <1>9

----------------------------------------------------------------------------
(* The steps keep the invariant *)

\* A step of the top loop: a first event is at hand only before the callbacks.
LEMMA TopStep ==
  ASSUME FramesFit, NestFits, FirstFits, LifeTypes, NEW f \in Frame, ReplaceTop(f),
         "first" \in f.cur.todo => ~f.cur.app /\ f.cur.who \in Clients /\ first[f.cur.who],
         UNCHANGED <<connects, first>>
  PROVE  FramesFit' /\ NestFits' /\ FirstFits'
  <1>1. /\ FramesFit' /\ Len(frames') = Len(frames)
        /\ \A i \in 1..Len(frames) : frames'[i] = IF i = Len(frames) THEN f ELSE frames[i]
    BY ReplaceTopEffect
  <1>2. NestFits'
    <2>1. Len(frames') \in 1..Len(frames)
      BY <1>1, TopType
    <2>2. \A c \in Clients : connects'[c] \in Nat /\ connects[c] <= connects'[c]
      BY TcpAssumption DEF LifeTypes
    <2> QED BY <2>1, <2>2, NestKeeps
  <1>3. FirstFits'
    BY <1>1 DEF FirstFits
  <1> QED BY <1>1, <1>2, <1>3

\* The events of a batch.
LEMMA ReadyType ==
  ASSUME NEW p \in Proxies
  PROVE  Ready(p) \subseteq Phase /\ "first" \notin Ready(p) /\ ("hup" \in Ready(p) => p # Server)
  BY DEF Ready, Phase

\* epoll_wait returns.
LEMMA EpollWaitKeeps ==
  ASSUME Inv, EpollWait
  PROVE  Inv'
  <1> DEFINE B == {[who |-> p, todo |-> Ready(p)] : p \in {q \in Proxies : Ready(q) # {}}}
             f == [Top EXCEPT !.batch = B]
  <1>1. FramesFit /\ NestFits /\ FirstFits /\ LifeTypes
    BY DEF Inv
  <1>2. B \subseteq Event
    BY ReadyType DEF Event
  <1> HIDE DEF B
  <1>3. f \in Frame /\ f.cur = Top.cur
    BY <1>1, <1>2, TopType DEF Frame
  <1>4. ReplaceTop(f)
    BY DEF EpollWait, ReplaceTop, Top, B
  <1>5. Top.cur = NoEvent
    BY DEF EpollWait, Idle
  <1>6. UNCHANGED <<connects, first>>
    BY DEF EpollWait, appVars, sockVars
  <1> HIDE DEF f
  <1>7. FramesFit' /\ NestFits' /\ FirstFits'
    <2>1. "first" \notin f.cur.todo
      BY <1>3, <1>5 DEF NoEvent
    <2> QED BY <1>1, <1>3, <1>4, <1>6, <2>1, TopStep
  <1> QED BY <1>7, Untouched DEF Inv, EpollWait, sockVars, appVars

\* OnEvent of an event of the batch begins.
TakenCur(e) ==
  IF gone[e.who] THEN NoEvent
  ELSE [who |-> e.who, app |-> FALSE,
        todo |-> e.todo \cup {f \in {"first"} : e.who # Server /\ first[e.who]}]

\* The event leaves the batch.
LEMMA TakeEventEffect ==
  ASSUME FramesFit, TakeEvent
  PROVE  \E e \in Top.batch : \E f \in Frame :
           /\ ReplaceTop(f) /\ f.batch = Top.batch \ {e} /\ f.cur = TakenCur(e) /\ e \in Event
  <1>1. PICK e \in Top.batch :
          frames' = [frames EXCEPT ![Len(frames)] = [Top EXCEPT !.batch = Top.batch \ {e}, !.cur = TakenCur(e)]]
    BY DEF TakeEvent, TakenCur
  <1> DEFINE f == [Top EXCEPT !.batch = Top.batch \ {e}, !.cur = TakenCur(e)]
  <1>2. ReplaceTop(f)
    BY <1>1 DEF ReplaceTop
  <1>3. e \in Event /\ Top \in Frame
    BY <1>1, TopType
  <1>4. TakenCur(e) \in [who : Proxies \cup {None}, todo : SUBSET Phase, app : BOOLEAN]
    BY <1>3 DEF TakenCur, NoEvent, Event, Phase
  <1>5. f \in Frame /\ f.batch = Top.batch \ {e} /\ f.cur = TakenCur(e)
    BY <1>3, <1>4 DEF Frame
  <1> HIDE DEF f
  <1> QED BY <1>2, <1>3, <1>5

\* The first event is at hand only for a channel that waits for it.
LEMMA TakeEventKeeps ==
  ASSUME Inv, TakeEvent
  PROVE  Inv'
  <1>1. FramesFit /\ NestFits /\ FirstFits /\ LifeTypes
    BY DEF Inv
  <1>2. PICK e \in Top.batch, f \in Frame : ReplaceTop(f) /\ f.cur = TakenCur(e) /\ e \in Event
    BY <1>1, TakeEventEffect
  <1>3. "first" \in f.cur.todo => ~f.cur.app /\ f.cur.who \in Clients /\ first[f.cur.who]
    <2>1. e.who \in Proxies /\ e.todo \subseteq Phase
      BY <1>2 DEF Event
    <2>2. "first" \notin e.todo
      BY <1>2 DEF Event
    <2> QED BY <1>2, <2>1, <2>2 DEF TakenCur, NoEvent, Proxies
  <1>4. UNCHANGED <<connects, first>>
    BY DEF TakeEvent, appVars, sockVars
  <1>5. FramesFit' /\ NestFits' /\ FirstFits'
    BY <1>1, <1>2, <1>3, <1>4, TopStep
  <1> QED BY <1>5, Untouched DEF Inv, TakeEvent, sockVars, appVars

\* The last callback of OnEvent returns.
LEMMA OnEventReturnsKeeps ==
  ASSUME Inv, OnEventReturns
  PROVE  Inv'
  <1>1. Continues({}, FALSE) /\ UNCHANGED connects
    BY Continuing DEF OnEventReturns, appVars
  <1>2. FramesFit' /\ NestFits' /\ FirstFits'
    BY <1>1, ContinueKeeps DEF Inv
  <1> QED BY <1>2, Untouched DEF Inv, OnEventReturns, sockVars, appVars

\* A nested loop ends: the loop below it is in a callback, and so past the first event.
LEMMA NestedReturnsKeeps ==
  ASSUME Inv, NestedReturns
  PROVE  Inv'
  <1>1. FramesFit /\ NestFits /\ FirstFits /\ LifeTypes
    BY DEF Inv
  <1>2. /\ Len(frames) > 1 /\ frames' = SubSeq(frames, 1, Len(frames) - 1) /\ UNCHANGED <<connects, first>>
    BY DEF NestedReturns, appVars, sockVars
  <1>3. /\ FramesFit' /\ Len(frames') = Len(frames) - 1
        /\ \A i \in 1..(Len(frames) - 1) : frames'[i] = frames[i]
    BY <1>1, <1>2, PopEffect
  <1>4. Len(frames) \in Nat /\ Len(frames') \in 1..Len(frames)
    BY <1>1, <1>2, <1>3, TopType
  <1>5. NestFits'
    <2>1. \A c \in Clients : connects'[c] \in Nat /\ connects[c] <= connects'[c]
      BY <1>1, <1>2, TcpAssumption DEF LifeTypes
    <2> QED BY <1>1, <1>4, <2>1, NestKeeps
  <1>6. ASSUME NEW i \in 1..Len(frames') PROVE "first" \notin frames'[i].cur.todo
    <2>1. i \in 1..(Len(frames) - 1) /\ i \in 1..Len(frames) /\ i # Len(frames)
      BY <1>3, <1>4
    <2> QED BY <1>1, <1>3, <2>1 DEF FirstFits
  <1>7. FirstFits'
    BY <1>6 DEF FirstFits
  <1> QED BY <1>3, <1>5, <1>7, Untouched DEF Inv, NestedReturns, sockVars, appVars

\* Application code runs past the first event.
LEMMA AppIsPastFirst ==
  ASSUME FramesFit, FirstFits, AppRuns
  PROVE  "first" \notin Top.cur.todo
  <1>1. Len(frames) \in 1..Len(frames)
    BY TopType
  <1>2. CASE Idle
    BY <1>2 DEF Idle, NoEvent
  <1>3. CASE Top.cur.app
    BY <1>1, <1>3 DEF FirstFits, Top
  <1> QED BY <1>2, <1>3 DEF AppRuns

\* A socket begins to connect.
Connecting(c, ip) ==
  /\ sock' \in [Clients -> {"none", "syn", "up", "failed", "dead"}] /\ sock'[c] \in {"syn", "dead"}
  /\ target' \in [Clients -> Names \cup Ips \cup {None}] /\ target'[c] = ip
  /\ want' \in [Clients -> BOOLEAN] /\ want'[c]
  /\ \A x \in Clients : x # c => sock'[x] = sock[x] /\ target'[x] = target[x] /\ (want'[x] <=> want[x])

\* That is what ConnectHelper does.
LEMMA ConnectHelperEffect ==
  ASSUME SockTypes, NEW c \in Clients, NEW ip \in Names \cup Ips \cup {None}, ConnectHelper(c, ip)
  PROVE  Connecting(c, ip)
  <1>1. PICK s \in {"syn", "dead"} : sock' = [sock EXCEPT ![c] = s]
    BY DEF ConnectHelper
  <1>2. target' = [target EXCEPT ![c] = ip] /\ want' = [want EXCEPT ![c] = TRUE]
    BY DEF ConnectHelper
  <1>3. /\ sock' \in [Clients -> {"none", "syn", "up", "failed", "dead"}] /\ sock'[c] \in {"syn", "dead"}
        /\ \A x \in Clients : x # c => sock'[x] = sock[x]
    BY <1>1 DEF SockTypes
  <1>4. /\ target' \in [Clients -> Names \cup Ips \cup {None}] /\ target'[c] = ip
        /\ \A x \in Clients : x # c => target'[x] = target[x]
    BY <1>2 DEF SockTypes
  <1>5. /\ want' \in [Clients -> BOOLEAN] /\ want'[c]
        /\ \A x \in Clients : x # c => (want'[x] <=> want[x])
    BY <1>2, BoolUpdate DEF SockTypes
  <1> QED BY <1>3, <1>4, <1>5 DEF Connecting

\* The answer of the resolver: it connects only a client that still wants this name.
LEMMA OnDnsAckKeeps ==
  ASSUME Inv, OnDnsAck
  PROVE  Inv'
  <1> DEFINE w == ack.who
  <1>1. /\ ack.state = "sent" /\ ack' = [ack EXCEPT !.state = "done"]
        /\ UNCHANGED <<dnsBox, items, threadRunning, mDns, mIP, timerCheck>>
        /\ UNCHANGED <<first, writable, room, rx, fin, outbox, lifeVars, addr, connects, backlog, lost, frames>>
    BY DEF OnDnsAck, appVars
  <1>2. DnsTypeOK' /\ DnsFits' /\ RequestIsPolled'
    BY <1>1 DEF Inv, DnsTypeOK, DnsFits, RequestIsPolled
  <1>3. LifeTypes' /\ FramesFit' /\ NestFits' /\ FirstFits'
    BY <1>1, Untouched DEF Inv
  <1>4. w \in Clients /\ ack.ip \in Names \cup Ips \cup {None} /\ ack.ip \in {ack.dns, None}
    BY <1>1 DEF Inv, DnsFits, DnsTypeOK
  <1>5. CASE ack.dns = addr[w] /\ sock[w] = "none"
    <2>1. Connecting(w, ack.ip)
      <3>1. ConnectHelper(w, ack.ip)
        BY <1>5 DEF OnDnsAck
      <3> QED BY <1>4, <3>1, ConnectHelperEffect DEF Inv
    <2>2. SockTypes'
      BY <1>1, <2>1 DEF Inv, SockTypes, Connecting
    <2>3. NoneFits'
      BY <1>1, <1>4, <2>1 DEF Inv, NoneFits, Connecting
    <2>4. ConnectsToLatest'
      BY <1>1, <1>4, <1>5, <2>1 DEF Inv, ConnectsToLatest, Connecting
    <2>5. SendFits'
      BY <1>1, <1>4, <2>1 DEF Inv, SendFits, Connecting
    <2> QED BY <1>2, <1>3, <2>2, <2>3, <2>4, <2>5 DEF Inv
  <1>6. CASE ~(ack.dns = addr[w] /\ sock[w] = "none")
    <2>1. UNCHANGED <<sock, target, want>>
      BY <1>6 DEF OnDnsAck
    <2> QED BY <1>1, <1>2, <1>3, <2>1, Untouched DEF Inv, sockVars
  <1> QED BY <1>5, <1>6

\* Connect, to an address or to a name.
LEMMA ConnectKeeps ==
  ASSUME Inv, NEW c \in Clients, NEW a \in Names \cup Ips, Connect(c, a)
  PROVE  Inv'
  <1>1. /\ AppRuns /\ sock[c] = "none" /\ connects[c] < MaxConnects
        /\ addr' = [addr EXCEPT ![c] = a] /\ connects' = [connects EXCEPT ![c] = @ + 1]
        /\ first' = [first EXCEPT ![c] = TRUE]
        /\ UNCHANGED <<writable, room, rx, fin, outbox, backlog, lifeVars, lost>>
    BY DEF Connect
  <1>2. /\ addr' \in [Clients -> Names \cup Ips \cup {None}] /\ addr'[c] = a
        /\ \A x \in Clients : x # c => addr'[x] = addr[x]
    BY <1>1 DEF Inv, SockTypes
  <1>3. /\ first' \in [Clients -> BOOLEAN] /\ \A x \in Clients : first'[x] <=> first[x] \/ x = c
    BY <1>1, BoolUpdate DEF Inv, SockTypes
  <1>4. /\ LifeTypes' /\ \A x \in Clients : connects'[x] \in Nat /\ connects[x] <= connects'[x]
    BY <1>1, TcpAssumption DEF Inv, LifeTypes, lifeVars
  <1>5. ~want[c] /\ ~room[c] /\ ~rx[c] /\ ~fin[c] /\ ~outbox[c]
    BY <1>1 DEF Inv, NoneFits
  <1>6. CASE a \in Ips /\ ConnectHelper(c, a) /\ UNCHANGED <<dnsVars, frames>>
    <2>1. Connecting(c, a)
      BY <1>6, ConnectHelperEffect DEF Inv
    <2>2. DnsTypeOK' /\ DnsFits' /\ RequestIsPolled' /\ FramesFit'
      BY <1>6, Untouched
    <2>3. NestFits'
      <3>1. Len(frames') \in 1..Len(frames)
        BY <1>6, TopType DEF Inv
      <3> QED BY <1>4, <3>1, NestKeeps DEF Inv
    <2>4. FirstFits'
      BY <1>3, <1>6 DEF Inv, FirstFits
    <2>5. SockTypes' /\ NoneFits'
      BY <1>1, <1>2, <1>3, <2>1 DEF Inv, SockTypes, NoneFits, Connecting
    <2>6. ConnectsToLatest'
      BY <1>2, <2>1 DEF Inv, ConnectsToLatest, Connecting
    <2>7. SendFits'
      BY <1>1, <1>3, <1>5, <2>1 DEF Inv, SendFits, Connecting
    <2> QED BY <1>4, <2>2, <2>3, <2>4, <2>5, <2>6, <2>7 DEF Inv
  <1>7. CASE /\ a \in Names /\ AddRequest(c, a)
             /\ frames' = Append(frames, [IdleFrame EXCEPT !.wait = c])
             /\ UNCHANGED <<sock, target, want>>
    <2>1. DnsTypeOK' /\ DnsFits' /\ RequestIsPolled'
      <3>1. dnsBox' = Append(dnsBox, [who |-> c, dns |-> a])
            /\ UNCHANGED <<items, threadRunning, mDns, mIP, timerCheck, ack>>
        BY <1>7 DEF AddRequest
      <3>2. [who |-> c, dns |-> a] \in Request
        BY <1>7 DEF Request
      <3>3. dnsBox' \in Seq(Request)
        BY <3>1, <3>2, AppendProperties DEF Inv, DnsTypeOK
      <3> QED BY <3>1, <3>3 DEF Inv, DnsTypeOK, DnsFits, RequestIsPolled
    <2>2. /\ FramesFit' /\ Len(frames') = Len(frames) + 1
          /\ Top'.cur = NoEvent /\ \A i \in 1..Len(frames) : frames'[i] = frames[i]
      BY <1>7, PushEffect DEF Inv
    <2>3. NestFits'
      BY <1>1, <2>2, NestPush DEF Inv
    <2>4. ASSUME NEW i \in 1..Len(frames') PROVE "first" \notin frames'[i].cur.todo
      <3>1. Len(frames) \in Nat /\ "first" \notin Top.cur.todo
        BY <1>1, TopType, AppIsPastFirst DEF Inv
      <3>2. CASE i = Len(frames')
        BY <2>2, <3>2 DEF Top, NoEvent
      <3>3. CASE i = Len(frames)
        BY <2>2, <3>1, <3>3 DEF Top
      <3>4. CASE i # Len(frames') /\ i # Len(frames)
        <4>1. i \in 1..Len(frames)
          BY <2>2, <3>1, <3>4
        <4> QED BY <2>2, <3>4, <4>1 DEF Inv, FirstFits
      <3> QED BY <3>2, <3>3, <3>4
    <2>5. FirstFits'
      BY <2>4 DEF FirstFits
    <2>6. SockTypes' /\ NoneFits'
      BY <1>1, <1>2, <1>3, <1>7 DEF Inv, SockTypes, NoneFits
    <2>7. ConnectsToLatest'
      BY <1>1, <1>2, <1>7 DEF Inv, ConnectsToLatest
    <2>8. SendFits'
      BY <1>1, <1>3, <1>5, <1>7 DEF Inv, SendFits
    <2> QED BY <1>4, <2>1, <2>2, <2>3, <2>5, <2>6, <2>7, <2>8 DEF Inv
  <1> QED BY <1>6, <1>7 DEF Connect

\* Send, once the channel is connected.
LEMMA SendKeeps ==
  ASSUME Inv, NEW c \in Clients, Send(c)
  PROVE  Inv'
  <1>1. /\ sock[c] # "none" /\ (first[c] => c \in Accepted)
        /\ Transmit(c, want[c], writable[c])
        /\ UNCHANGED <<dnsVars, lifeVars, addr, connects, backlog, lost, frames>>
    BY DEF Send, appVars
  <1>2. want[c] \in BOOLEAN /\ writable[c] \in BOOLEAN
    BY DEF Inv, SockTypes
  <1>3. /\ SockTypes' /\ NoneFits'
        /\ sock' = sock /\ target' = target /\ first' = first /\ rx' = rx /\ fin' = fin
        /\ outbox'[c] => want'[c]
        /\ \A x \in Clients : x # c => outbox'[x] = outbox[x] /\ want'[x] = want[x]
    BY <1>1, <1>2, TransmitEffect DEF Inv
  <1>4. SendFits'
    BY <1>1, <1>3 DEF Inv, SendFits
  <1> QED BY <1>1, <1>3, <1>4, Untouched DEF Inv

\* Closed sockets keep what Inv says of the channels.
LEMMA ShutKeeps ==
  ASSUME Inv, NEW cs, Shutdown(cs), addr' = addr
  PROVE  SockTypes' /\ NoneFits' /\ ConnectsToLatest' /\ SendFits'
  <1>1. SockTypes'
    BY DEF Shutdown
  <1>2. NoneFits'
    BY DEF Inv, NoneFits, Shutdown
  <1>3. ConnectsToLatest'
    BY DEF Inv, ConnectsToLatest, Shutdown
  <1>4. SendFits'
    BY DEF Inv, SendFits, Shutdown
  <1> QED BY <1>1, <1>2, <1>3, <1>4

\* An update of the flag of one channel or server.
LEMMA LifeUpdate ==
  ASSUME NEW f \in [Proxies -> BOOLEAN], NEW p \in Proxies
  PROVE  /\ [f EXCEPT ![p] = TRUE] \in [Proxies -> BOOLEAN]
         /\ \A x \in Proxies : [f EXCEPT ![p] = TRUE][x] <=> f[x] \/ x = p
  OBVIOUS

\* Close of a channel.
LEMMA CloseKeeps ==
  ASSUME Inv, NEW c \in Clients, Close(c)
  PROVE  Inv'
  <1>1. /\ Shut({c}) /\ destroyed' = [destroyed EXCEPT ![c] = TRUE]
        /\ UNCHANGED <<dnsVars, gone, addr, connects, backlog, lost, frames>>
    BY DEF Close, appVars
  <1>2. Shutdown({c})
    <2>1. lost' \in [Clients -> BOOLEAN]
      BY <1>1 DEF Inv, SockTypes
    <2> QED BY <1>1, <2>1, ShutEffect DEF Inv
  <1>3. LifeTypes'
    BY <1>1, LifeUpdate DEF Inv, LifeTypes, Proxies
  <1>4. first' = first
    BY <1>2 DEF Shutdown
  <1> QED BY <1>1, <1>2, <1>3, <1>4, ShutKeeps, Untouched DEF Inv

\* Destroy of the server and its channels.
LEMMA DestroyServerKeeps ==
  ASSUME Inv, DestroyServer
  PROVE  Inv'
  <1>1. /\ Shut(Children) /\ backlog' = {}
        /\ destroyed' = [p \in Proxies |-> destroyed[p] \/ p \in Children \cup {Server}]
        /\ UNCHANGED <<dnsVars, gone, addr, connects, lost, frames>>
    BY DEF DestroyServer, appVars
  <1>2. Shutdown(Children)
    <2>1. lost' \in [Clients -> BOOLEAN]
      BY <1>1 DEF Inv, SockTypes
    <2> QED BY <1>1, <2>1, ShutEffect DEF Inv
  <1>3. destroyed' \in [Proxies -> BOOLEAN]
    BY <1>1, Zenon
  <1>4. LifeTypes'
    BY <1>1, <1>3 DEF Inv, LifeTypes
  <1>5. first' = first
    BY <1>2 DEF Shutdown
  <1> QED BY <1>1, <1>2, <1>4, <1>5, ShutKeeps, Untouched DEF Inv

\* gc of a channel or of the server.
LEMMA GcKeeps ==
  ASSUME Inv, NEW p \in Proxies, Gc(p)
  PROVE  Inv'
  <1>1. /\ Shut({p} \cap Clients) /\ gone' = [gone EXCEPT ![p] = TRUE]
        /\ UNCHANGED <<dnsVars, destroyed, addr, connects, backlog, lost, frames>>
    BY DEF Gc, appVars
  <1>2. Shutdown({p} \cap Clients)
    <2>1. lost' \in [Clients -> BOOLEAN]
      BY <1>1 DEF Inv, SockTypes
    <2> QED BY <1>1, <2>1, ShutEffect DEF Inv
  <1>3. LifeTypes'
    BY <1>1, LifeUpdate DEF Inv, LifeTypes
  <1>4. first' = first
    BY <1>2 DEF Shutdown
  <1> QED BY <1>1, <1>2, <1>3, <1>4, ShutKeeps, Untouched DEF Inv

\* A step of the resolver.
LEMMA ResolverKeeps ==
  ASSUME Inv, ResolverStep
  PROVE  Inv'
  <1>1. DnsNext({c \in Clients : ~gone[c]}) /\ UNCHANGED tcpVars
    BY DEF ResolverStep
  <1>2. {c \in Clients : ~gone[c]} \in SUBSET Clients
    OBVIOUS
  <1>3. DnsTypeOK' /\ DnsFits' /\ RequestIsPolled'
    BY <1>1, <1>2, DnsStep DEF Inv
  <1> QED BY <1>1, <1>3, Untouched DEF Inv, tcpVars, sockVars, lifeVars, appVars

\* The server accepts a connection, or has accepted all.
LEMMA OnAcceptKeeps ==
  ASSUME Inv, OnAccept
  PROVE  Inv'
  <1>1. UNCHANGED <<dnsVars, lifeVars, addr, connects, lost>>
    BY DEF OnAccept, appVars
  <1>2. CASE Continues({}, FALSE) /\ UNCHANGED <<sockVars, backlog>>
    <2>1. FramesFit' /\ NestFits' /\ FirstFits'
      BY <1>1, <1>2, ContinueKeeps DEF Inv
    <2> QED BY <1>1, <1>2, <2>1, Untouched DEF Inv, sockVars
  <1>3. ASSUME NEW c \in backlog, backlog' = backlog \ {c}, sock' = [sock EXCEPT ![c] = "up"],
               room' = [room EXCEPT ![c] = TRUE], Continues({"accept"}, TRUE),
               UNCHANGED <<target, first, writable, want, rx, fin, outbox>>
        PROVE  Inv'
    <2>1. FramesFit' /\ NestFits' /\ FirstFits'
      <3>1. {"accept"} \in SUBSET Phase
        BY DEF Phase
      <3> QED BY <1>1, <1>3, <3>1, ContinueKeeps DEF Inv
    <2>2. c \in Clients /\ c \in Accepted
      BY TcpAssumption DEF Inv, LifeTypes
    <2>3. /\ sock' \in [Clients -> {"none", "syn", "up", "failed", "dead"}] /\ sock'[c] = "up"
          /\ \A x \in Clients : x # c => sock'[x] = sock[x]
      BY <1>3, <2>2 DEF Inv, SockTypes
    <2>4. room' \in [Clients -> BOOLEAN] /\ \A x \in Clients : x # c => room'[x] = room[x]
      BY <1>3, <2>2, BoolUpdate DEF Inv, SockTypes
    <2>5. SockTypes'
      BY <1>1, <1>3, <2>3, <2>4 DEF Inv, SockTypes
    <2>6. NoneFits'
      BY <1>3, <2>3, <2>4 DEF Inv, NoneFits
    <2>7. ConnectsToLatest'
      BY <1>1, <1>3, <2>2, <2>3 DEF Inv, ConnectsToLatest
    <2>8. LifeTypes'
      BY <1>1, <1>3 DEF Inv, LifeTypes, lifeVars
    <2> QED BY <1>1, <1>3, <2>1, <2>5, <2>6, <2>7, <2>8, Untouched DEF Inv
  <1>4. backlog \subseteq Clients
    BY TcpAssumption DEF Inv, LifeTypes
  <1> QED BY <1>2, <1>3, <1>4, Continuing DEF OnAccept

\* The first event of a channel: nothing was sent before, and so nothing is pending when
\* EPOLLOUT is turned off.
LEMMA OnFirstEventKeeps ==
  ASSUME Inv, NEW c \in Clients, OnFirstEvent(c)
  PROVE  Inv'
  <1> DEFINE error == sock[c] \in {"failed", "none"}
             reported == c \notin Accepted
             todo == IF reported /\ error THEN {} ELSE Top.cur.todo \ {"first"}
  <1>1. /\ Top.cur.who = c /\ "first" \in Top.cur.todo /\ first' = [first EXCEPT ![c] = FALSE]
        /\ Continues(todo, reported)
        /\ want' = [want EXCEPT ![c] = @ /\ (error \/ ~reported)]
        /\ writable' = [writable EXCEPT ![c] = @ /\ (error \/ ~reported)]
        /\ UNCHANGED <<dnsVars, sock, target, room, rx, fin, outbox, lifeVars, addr, connects, backlog, lost>>
    BY Continuing DEF OnFirstEvent, Calls, appVars
  <1>2. FramesFit' /\ NestFits' /\ FirstFits'
    <2>1. todo \in SUBSET Phase /\ "first" \notin todo
      BY TopType DEF Inv
    <2> HIDE DEF todo
    <2> QED BY <1>1, <2>1, ContinueKeeps DEF Inv
  <1>3. first[c]
    <2>1. Len(frames) \in 1..Len(frames)
      BY TopType DEF Inv
    <2> QED BY <1>1, <2>1 DEF Inv, FirstFits, Top
  <1>4. /\ first' \in [Clients -> BOOLEAN] /\ \A x \in Clients : first'[x] <=> first[x] /\ x # c
    BY <1>1, BoolUpdate DEF Inv, SockTypes
  <1>5. /\ want' \in [Clients -> BOOLEAN] /\ (want'[c] <=> want[c] /\ (error \/ ~reported))
        /\ writable' \in [Clients -> BOOLEAN]
        /\ \A x \in Clients : x # c => want'[x] = want[x]
    <2> DEFINE w == want[c] /\ (error \/ ~reported)
               l == writable[c] /\ (error \/ ~reported)
    <2>1. w \in BOOLEAN /\ l \in BOOLEAN
      BY Zenon
    <2>2. want' = [want EXCEPT ![c] = w] /\ writable' = [writable EXCEPT ![c] = l]
      BY <1>1, Zenon
    <2>3. w <=> want[c] /\ (error \/ ~reported)
      OBVIOUS
    <2> HIDE DEF w, l, error, reported
    <2> QED BY <2>1, <2>2, <2>3, BoolUpdate DEF Inv, SockTypes
  <1>6. SockTypes'
    BY <1>1, <1>4, <1>5 DEF Inv, SockTypes
  <1>7. NoneFits'
    BY <1>1, <1>5 DEF Inv, NoneFits
  <1>8. SendFits'
    BY <1>1, <1>3, <1>4, <1>5 DEF Inv, SendFits
  <1> HIDE DEF todo
  <1> QED BY <1>1, <1>2, <1>6, <1>7, <1>8, Untouched DEF Inv

\* Data is read.
LEMMA OnReceiveKeeps ==
  ASSUME Inv, NEW c \in Clients, OnReceive(c)
  PROVE  Inv'
  <1>1. /\ "first" \notin Top.cur.todo /\ Continues(Top.cur.todo \ {"in"}, TRUE)
        /\ rx' = [rx EXCEPT ![c] = FALSE]
        /\ UNCHANGED <<dnsVars, sock, target, first, writable, want, room, fin, outbox, lifeVars, addr,
                       connects, backlog, lost>>
    BY Continuing DEF OnReceive, appVars
  <1>2. FramesFit' /\ NestFits' /\ FirstFits'
    BY <1>1, TopType, ContinueKeeps DEF Inv
  <1>3. rx' \in [Clients -> BOOLEAN] /\ ~rx'[c] /\ \A x \in Clients : x # c => rx'[x] = rx[x]
    BY <1>1, BoolUpdate DEF Inv, SockTypes
  <1>4. SockTypes' /\ NoneFits'
    BY <1>1, <1>3 DEF Inv, SockTypes, NoneFits
  <1> QED BY <1>1, <1>2, <1>4, Untouched DEF Inv

\* What is pending is sent.
LEMMA OnSendKeeps ==
  ASSUME Inv, NEW c \in Clients, OnSend(c)
  PROVE  Inv'
  <1> DEFINE w == want[c] /\ ~writable[c]
  <1>0. w \in BOOLEAN
    BY Zenon
  <1>1. /\ Top.cur.todo \cap {"first", "in"} = {} /\ Continues(Top.cur.todo \ {"out"}, TRUE)
        /\ UNCHANGED <<dnsVars, lifeVars, addr, connects, backlog, lost>>
    BY Continuing DEF OnSend, appVars
  <1>2. FramesFit' /\ NestFits' /\ FirstFits'
    BY <1>1, TopType, ContinueKeeps DEF Inv
  <1>3. CASE outbox[c] /\ Transmit(c, w, FALSE)
    <2>1. sock[c] # "none"
      BY <1>3 DEF Inv, NoneFits
    <2> HIDE DEF w
    <2>2. /\ SockTypes' /\ NoneFits' /\ sock' = sock /\ target' = target /\ first' = first
          /\ outbox'[c] => want'[c]
          /\ \A x \in Clients : x # c => outbox'[x] = outbox[x] /\ want'[x] = want[x]
      BY <1>0, <1>1, <1>3, <2>1, TransmitEffect DEF Inv
    <2>3. SendFits'
      BY <1>3, <2>2 DEF Inv, SendFits
    <2> QED BY <1>1, <1>2, <2>2, <2>3, Untouched DEF Inv
  <1>4. CASE /\ ~outbox[c] /\ want' = [want EXCEPT ![c] = w]
             /\ writable' = [writable EXCEPT ![c] = FALSE]
             /\ UNCHANGED <<sock, target, first, room, rx, fin, outbox>>
    <2>1. w => want[c]
      OBVIOUS
    <2> HIDE DEF w
    <2>2. /\ want' \in [Clients -> BOOLEAN] /\ writable' \in [Clients -> BOOLEAN]
          /\ (want'[c] <=> w) /\ \A x \in Clients : x # c => want'[x] = want[x]
      BY <1>0, <1>4, BoolUpdate DEF Inv, SockTypes
    <2>3. SockTypes'
      BY <1>1, <1>4, <2>2 DEF Inv, SockTypes
    <2>4. NoneFits'
      BY <1>4, <2>1, <2>2 DEF Inv, NoneFits
    <2>5. SendFits'
      BY <1>4, <2>2 DEF Inv, SendFits
    <2> QED BY <1>1, <1>2, <1>4, <2>3, <2>4, <2>5, Untouched DEF Inv
  <1> QED BY <1>3, <1>4 DEF OnSend

\* A hang-up closes the channel.
LEMMA OnHangUpKeeps ==
  ASSUME Inv, NEW c \in Clients, OnHangUp(c)
  PROVE  Inv'
  <1> DEFINE l == lost[c] \/ rx[c]
  <1>1. /\ Shut({c}) /\ lost' = [lost EXCEPT ![c] = l]
        /\ destroyed' \in {destroyed, [destroyed EXCEPT ![c] = TRUE]}
        /\ Continues({"hup"}, TRUE) \/ Continues({}, FALSE)
        /\ UNCHANGED <<dnsVars, gone, addr, connects, backlog>>
    BY Continuing DEF OnHangUp, appVars
  <1>2. l \in BOOLEAN
    BY Zenon
  <1> HIDE DEF l
  <1>3. FramesFit' /\ NestFits' /\ FirstFits'
    <2>1. {"hup"} \in SUBSET Phase
      BY DEF Phase
    <2> QED BY <1>1, <2>1, ContinueKeeps DEF Inv
  <1>4. Shutdown({c})
    <2>1. lost' \in [Clients -> BOOLEAN]
      BY <1>1, <1>2, BoolUpdate DEF Inv, SockTypes
    <2> QED BY <1>1, <2>1, ShutEffect DEF Inv
  <1>5. LifeTypes'
    BY <1>1, LifeUpdate DEF Inv, LifeTypes, Proxies
  <1> QED BY <1>1, <1>3, <1>4, <1>5, ShutKeeps, Untouched DEF Inv

\* The kernel and the peers.
LEMMA NetworkKeeps ==
  ASSUME Inv, Network
  PROVE  Inv'
  <1>1. UNCHANGED <<dnsVars, lifeVars, addr, connects, lost, frames>>
    BY DEF Network, appVars
  <1>2. PICK c \in Clients : Established(c) \/ PeerSends(c) \/ PeerReads(c) \/ PeerConnects(c)
    BY DEF Network
  <1>3. CASE Established(c)
    <2>1. PICK s \in {"up", "failed"}, r \in BOOLEAN :
                 sock' = [sock EXCEPT ![c] = s] /\ room' = [room EXCEPT ![c] = r]
      <3>1. room[c] \in BOOLEAN /\ room = [room EXCEPT ![c] = room[c]]
        BY DEF Inv, SockTypes
      <3> QED BY <1>3, <3>1 DEF Established
    <2>2. UNCHANGED <<target, first, writable, want, rx, fin, outbox, backlog>> /\ sock[c] = "syn"
      BY <1>3 DEF Established
    <2>3. /\ sock' \in [Clients -> {"none", "syn", "up", "failed", "dead"}] /\ sock'[c] # "none"
          /\ \A x \in Clients : x # c => sock'[x] = sock[x]
      BY <2>1 DEF Inv, SockTypes
    <2>4. room' \in [Clients -> BOOLEAN] /\ \A x \in Clients : x # c => room'[x] = room[x]
      BY <2>1, BoolUpdate DEF Inv, SockTypes
    <2>5. SockTypes'
      BY <1>1, <2>2, <2>3, <2>4 DEF Inv, SockTypes
    <2>6. NoneFits'
      BY <2>2, <2>3, <2>4 DEF Inv, NoneFits
    <2>7. ConnectsToLatest'
      BY <1>1, <2>2, <2>3 DEF Inv, ConnectsToLatest
    <2> QED BY <1>1, <2>2, <2>5, <2>6, <2>7, Untouched DEF Inv
  <1>4. CASE PeerSends(c)
    <2>1. PICK r \in BOOLEAN, e \in BOOLEAN : rx' = [rx EXCEPT ![c] = r] /\ fin' = [fin EXCEPT ![c] = e]
      <3>1. /\ rx[c] \in BOOLEAN /\ rx = [rx EXCEPT ![c] = rx[c]]
            /\ fin[c] \in BOOLEAN /\ fin = [fin EXCEPT ![c] = fin[c]]
        BY DEF Inv, SockTypes
      <3> QED BY <1>4, <3>1 DEF PeerSends
    <2>2. UNCHANGED <<sock, target, first, writable, want, room, outbox, backlog>> /\ sock[c] = "up"
      BY <1>4 DEF PeerSends
    <2>3. /\ rx' \in [Clients -> BOOLEAN] /\ fin' \in [Clients -> BOOLEAN]
          /\ \A x \in Clients : x # c => rx'[x] = rx[x] /\ fin'[x] = fin[x]
      BY <2>1, BoolUpdate DEF Inv, SockTypes
    <2>4. SockTypes' /\ NoneFits'
      BY <1>1, <2>2, <2>3 DEF Inv, SockTypes, NoneFits
    <2> QED BY <1>1, <2>2, <2>4, Untouched DEF Inv
  <1>5. CASE PeerReads(c)
    <2>1. /\ UNCHANGED <<sock, target, first, writable, want, rx, fin, outbox, backlog>> /\ sock[c] = "up"
          /\ room' = [room EXCEPT ![c] = TRUE]
      BY <1>5 DEF PeerReads
    <2>2. room' \in [Clients -> BOOLEAN] /\ \A x \in Clients : x # c => room'[x] = room[x]
      BY <2>1, BoolUpdate DEF Inv, SockTypes
    <2>3. SockTypes' /\ NoneFits'
      BY <1>1, <2>1, <2>2 DEF Inv, SockTypes, NoneFits
    <2> QED BY <1>1, <2>1, <2>3, Untouched DEF Inv
  <1>6. CASE PeerConnects(c)
    <2>1. UNCHANGED sockVars /\ backlog' = backlog \cup {c} /\ c \in Accepted
      BY <1>6 DEF PeerConnects
    <2>2. LifeTypes'
      BY <1>1, <2>1 DEF Inv, LifeTypes, lifeVars
    <2> QED BY <1>1, <2>1, <2>2, Untouched DEF Inv, sockVars
  <1> QED BY <1>2, <1>3, <1>4, <1>5, <1>6

----------------------------------------------------------------------------
(* What holds with nested loops and without *)

\* Init establishes the invariant.
LEMMA InvInit ==
  ASSUME Init
  PROVE  Inv
  <1>1. DnsTypeOK /\ DnsFits /\ RequestIsPolled
    <2>1. /\ dnsBox = <<>> /\ items = <<>> /\ ack = NoAck
          /\ threadRunning = FALSE /\ timerCheck = FALSE /\ mDns = None /\ mIP = None
      BY DEF Init, DnsInit
    <2>2. /\ ack \in [state : {"none", "sent", "done"}, who : Clients \cup {None},
                      dns : Names \cup {None}, ip : Names \cup {None}]
          /\ ack.state = "none" /\ ack.ip = None
      BY <2>1 DEF NoAck
    <2>3. <<>> \in Seq(Request)
      OBVIOUS
    <2> QED BY <2>1, <2>2, <2>3 DEF DnsTypeOK, DnsFits, RequestIsPolled
  <1>2. /\ \A f \in {writable, want, room, rx, fin, outbox, lost} :
              f \in [Clients -> BOOLEAN] /\ \A c \in Clients : ~f[c]
        /\ first \in [Clients -> BOOLEAN]
    BY DEF Init
  <1>3. SockTypes /\ NoneFits /\ ConnectsToLatest /\ SendFits
    BY <1>2 DEF Init, SockTypes, NoneFits, ConnectsToLatest, SendFits
  <1>4. LifeTypes
    BY TcpAssumption DEF Init, LifeTypes
  <1>5. FramesFit /\ Len(frames) = 1 /\ frames[1] = IdleFrame
    <2>1. IdleFrame \in Frame
      BY DEF IdleFrame, NoEvent, Frame
    <2> QED BY <2>1 DEF Init, FramesFit
  <1>6. FirstFits
    BY <1>5 DEF FirstFits, IdleFrame, NoEvent
  <1>7. NestFits
    <2> DEFINE call == [i \in 2..Len(frames) |-> <<>>]
    <2>1. 2..Len(frames) = {}
      BY <1>5
    <2>2. call \in [2..Len(frames) -> Clients \X (1..MaxConnects)]
      BY <2>1
    <2> HIDE DEF call
    <2> QED BY <2>1, <2>2 DEF NestFits
  <1> QED BY <1>1, <1>3, <1>4, <1>5, <1>6, <1>7 DEF Inv

\* A step that changes nothing keeps the invariant.
LEMMA InvStutters ==
  ASSUME Inv, UNCHANGED vars
  PROVE  Inv'
  BY Untouched DEF Inv, vars, tcpVars, sockVars, appVars, lifeVars

\* Every step keeps the invariant.
LEMMA InvStep ==
  ASSUME Inv, [Next]_vars
  PROVE  Inv'
  <1>1. CASE HomeStep
    <2>1. ASSUME NEW c \in Clients, SocketEvent(c) PROVE Inv'
      BY <2>1, OnFirstEventKeeps, OnReceiveKeeps, OnSendKeeps, OnHangUpKeeps DEF SocketEvent
    <2> QED BY <1>1, <2>1, EpollWaitKeeps, TakeEventKeeps, OnEventReturnsKeeps, NestedReturnsKeeps,
               OnDnsAckKeeps, OnAcceptKeeps DEF HomeStep
  <1>2. CASE AppStep
    BY <1>2, ConnectKeeps, SendKeeps, CloseKeeps, DestroyServerKeeps DEF AppStep
  <1>3. CASE ResolverStep
    BY <1>3, ResolverKeeps
  <1>4. CASE GcStep
    BY <1>4, GcKeeps DEF GcStep
  <1>5. CASE Network
    BY <1>5, NetworkKeeps
  <1>6. CASE UNCHANGED vars
    BY <1>6, InvStutters
  <1> QED BY <1>1, <1>2, <1>3, <1>4, <1>5, <1>6 DEF Next

\* The inductive invariant of the channels and the resolver (TcpClient_Linux, TcpServer_Linux,
\* Looper_Linux, DnsLooper), whether or not callbacks nest loops.
THEOREM ChannelInvariant == Spec => []Inv
  <1>1. Init => Inv
    BY InvInit
  <1>2. Inv /\ [Next]_vars => Inv'
    BY InvStep
  <1> QED BY <1>1, <1>2, PTL DEF Spec

\* Every variable keeps its type, a channel without a socket has nothing to send, to read or to
\* wait for (Close), and there are no more nested loops than calls of Connect.
THEOREM ChannelTypes == Spec => []TypeOK
  <1>1. ASSUME Inv PROVE TypeOK
    <2>1. Len(frames) \in 1..1 + MaxConnects * Cardinality(Clients)
      BY <1>1, NestBound DEF Inv
    <2>2. \A i \in DOMAIN frames : frames[i] \in Frame
      BY <1>1 DEF Inv, FramesFit
    <2>3. \A f \in {first, writable, want, room, rx, fin, outbox, lost} : f \in [Clients -> BOOLEAN]
      BY <1>1 DEF Inv, SockTypes
    <2>4. \A c \in Clients : sock[c] = "none" => ~(want[c] \/ room[c] \/ rx[c] \/ fin[c] \/ outbox[c])
      BY <1>1 DEF Inv, NoneFits
    <2> QED BY <1>1, <2>1, <2>2, <2>3, <2>4 DEF TypeOK, Inv, SockTypes, LifeTypes, Frame
  <1>2. Inv => TypeOK
    BY <1>1
  <1> QED BY <1>2, ChannelInvariant, PTL

\* A request in mItems is polled for, whatever comes in while the worker runs and while an answer
\* is given (OnAddRequest, OnTimer, StartDnsThread).
THEOREM RequestsArePolled == Spec => []RequestIsPolled
  <1>1. Inv => RequestIsPolled
    BY DEF Inv
  <1> QED BY <1>1, ChannelInvariant, PTL

\* A late answer of the resolver never decides where a channel connects to (BM_DNS_ACK).
THEOREM LatestWins == Spec => []ConnectsToLatest
  <1>1. Inv => ConnectsToLatest
    BY DEF Inv
  <1> QED BY <1>1, ChannelInvariant, PTL

\* Pending data is waited for with EPOLLOUT whenever the looper may sleep (Send, OnEvent,
\* EnableListenWritable).
THEOREM SendsGoOn == Spec => []NoStuckSend
  <1>1. Inv => NoStuckSend
    BY DEF Inv, SendFits, NoStuckSend
  <1> QED BY <1>1, ChannelInvariant, PTL

----------------------------------------------------------------------------
(* What holds as long as callbacks do not nest loops *)

\* No channel is deleted, waits to be accepted, or has data come in.
Calm ==
  /\ \A p \in Proxies : gone'[p] => gone[p]
  /\ backlog' \subseteq backlog
  /\ \A c \in Clients : rx'[c] => rx[c]

\* What was true of an event stays true.
LEMMA EventKept ==
  ASSUME Calm
  PROVE  \A e : e.who \in Proxies \cup {None} /\ EventFits(e) => EventFits(e)'
  BY DEF Calm, EventFits, Proxies

\* An idle loop has no event to speak of.
LEMMA IdleFits ==
  ASSUME Idle'
  PROVE  EventsFit'
  BY TcpAssumption, DnsAssumption DEF Idle, EventsFit, EventFits, NoEvent

\* A step that does not touch the loops.
LEMMA LoopsKept ==
  ASSUME FramesFit, OuterIdle, EventsFit, Calm, frames' = frames
  PROVE  OuterIdle' /\ EventsFit'
  <1>1. OuterIdle'
    BY DEF OuterIdle
  <1>2. Top' = Top
    BY DEF Top
  <1>3. \A e \in Top.batch : e.who \in Proxies
    BY TopType DEF Event
  <1> QED BY <1>1, <1>2, <1>3, TopType, EventKept DEF EventsFit

\* OnEvent goes on: a hang-up is still to be handled only if it was before, and what there was to
\* read has been read.
LEMMA ContinueFits ==
  ASSUME FramesFit, OuterIdle, EventsFit, Calm, NEW todo \in SUBSET Phase, NEW app \in BOOLEAN,
         Continues(todo, app), Top.cur.who # None \/ (todo = {} /\ app = FALSE),
         "hup" \in todo => /\ "hup" \in Top.cur.todo
                           /\ "in" \in todo \/ "in" \notin Top.cur.todo \/ ~rx'[Top.cur.who]
  PROVE  OuterIdle' /\ EventsFit'
  <1>1. /\ Len(frames') = Len(frames) /\ Top'.batch = Top.batch /\ Top'.cur.todo = todo
        /\ Top'.cur.who = Top.cur.who \/ (Top'.cur.who = None /\ todo = {})
        /\ \A i \in 1..Len(frames) : i # Len(frames) => frames'[i] = frames[i]
    BY ContinueEffect
  <1>2. OuterIdle'
    <2>1. \A i \in 1..(Len(frames) - 1) : i \in 1..Len(frames) /\ i # Len(frames)
      BY TopType
    <2> QED BY <1>1, <2>1 DEF OuterIdle
  <1>3. \A e \in Top.batch : e.who \in Proxies
    BY TopType DEF Event
  <1>4. \A e \in Top'.batch : EventFits(e)'
    BY <1>1, <1>3, EventKept DEF EventsFit
  <1>5. Top'.cur.who = None => Top'.cur = NoEvent
    <2>1. Top'.cur = Continued(todo, app)
      BY ContinueEffect
    <2> QED BY <2>1 DEF Continued
  <1>6. EventFits(Top.cur) /\ Top.cur.who \in Proxies \cup {None}
    BY TopType DEF EventsFit
  <1>7. CASE Top'.cur.who = Top.cur.who
    BY <1>1, <1>2, <1>4, <1>5, <1>6, <1>7 DEF EventsFit, EventFits, Calm, Proxies
  <1>8. CASE Top'.cur.who = None /\ todo = {}
    BY <1>1, <1>2, <1>4, <1>5, <1>8, DnsAssumption, TcpAssumption DEF EventsFit, EventFits
  <1> QED BY <1>1, <1>2, <1>7, <1>8

\* A step that does not touch the life of channels.
LEMMA GoneKept ==
  ASSUME GoneFits, UNCHANGED <<sock, first, destroyed, gone, backlog, addr, ack>>
  PROVE  GoneFits'
  BY DEF GoneFits

\* Who has an event has a socket, and so has not been deleted.
LEMMA ReadyFits ==
  ASSUME Inv, GoneFits, NEW p \in Proxies, Ready(p) # {}
  PROVE  EventFits([who |-> p, todo |-> Ready(p)])
  <1>1. CASE p = Server
    <2>1. ~destroyed[Server] /\ "hup" \notin Ready(p)
      BY <1>1 DEF Ready
    <2>2. Server \notin Clients /\ ~gone[p]
      BY <1>1, <2>1, TcpAssumption DEF GoneFits
    <2> QED BY <1>1, <2>1, <2>2 DEF EventFits
  <1>2. CASE p \in Clients
    <2>1. p # Server
      BY <1>2, TcpAssumption
    <2>2. sock[p] # "none"
      BY <1>2, <2>1 DEF Ready, Inv, NoneFits
    <2>3. ~gone[p] /\ p \notin backlog
      BY <1>2, <2>2 DEF GoneFits
    <2>4. rx[p] => "in" \in Ready(p)
      BY <1>2, <2>1 DEF Ready
    <2> QED BY <1>2, <2>2, <2>3, <2>4 DEF EventFits
  <1> QED BY <1>1, <1>2 DEF Proxies

\* epoll_wait returns.
LEMMA EpollWaitFits ==
  ASSUME Inv, BatchInv, EpollWait
  PROVE  BatchInv'
  <1> DEFINE B == {[who |-> p, todo |-> Ready(p)] : p \in {q \in Proxies : Ready(q) # {}}}
             f == [Top EXCEPT !.batch = B]
  <1>1. /\ FramesFit /\ Top.cur = NoEvent /\ lost' = lost
        /\ UNCHANGED <<sock, first, rx, destroyed, gone, backlog, addr, ack>>
    BY DEF Inv, EpollWait, Idle, sockVars, lifeVars, appVars, dnsVars
  <1>2. B \subseteq Event
    BY ReadyType DEF Event
  <1>3. \A e \in B : EventFits(e)
    BY ReadyFits DEF BatchInv
  <1> HIDE DEF B
  <1>4. f \in Frame /\ f.batch = B /\ f.cur = NoEvent
    BY <1>1, <1>2, TopType DEF Frame
  <1>5. ReplaceTop(f)
    BY DEF EpollWait, ReplaceTop, Top, B
  <1> HIDE DEF f
  <1>6. /\ Len(frames') = Len(frames) /\ Top' = f
        /\ \A i \in 1..Len(frames) : frames'[i] = IF i = Len(frames) THEN f ELSE frames[i]
    BY <1>1, <1>4, <1>5, ReplaceTopEffect
  <1>7. OuterIdle'
    <2>1. \A i \in 1..(Len(frames) - 1) : i \in 1..Len(frames) /\ i # Len(frames)
      BY <1>1, TopType
    <2> QED BY <1>6, <2>1 DEF BatchInv, OuterIdle
  <1>8. EventsFit'
    BY <1>1, <1>3, <1>4, <1>6, TcpAssumption, DnsAssumption DEF EventsFit, EventFits, NoEvent
  <1>9. GoneFits'
    BY <1>1, GoneKept DEF BatchInv
  <1> QED BY <1>1, <1>7, <1>8, <1>9 DEF BatchInv, NothingLost

\* OnEvent begins.
LEMMA TakeEventFits ==
  ASSUME Inv, BatchInv, TakeEvent
  PROVE  BatchInv'
  <1>1. /\ FramesFit /\ lost' = lost /\ UNCHANGED <<sock, first, rx, destroyed, gone, backlog, addr, ack>>
    BY DEF Inv, TakeEvent, sockVars, lifeVars, appVars, dnsVars
  <1>2. PICK e \in Top.batch, f \in Frame :
               ReplaceTop(f) /\ f.batch = Top.batch \ {e} /\ f.cur = TakenCur(e) /\ e \in Event
    BY <1>1, TakeEventEffect
  <1>3. /\ Len(frames') = Len(frames) /\ Top' = f
        /\ \A i \in 1..Len(frames) : frames'[i] = IF i = Len(frames) THEN f ELSE frames[i]
    BY <1>1, <1>2, ReplaceTopEffect
  <1>4. OuterIdle'
    <2>1. \A i \in 1..(Len(frames) - 1) : i \in 1..Len(frames) /\ i # Len(frames)
      BY <1>1, TopType
    <2> QED BY <1>3, <2>1 DEF BatchInv, OuterIdle
  <1>5. \A x \in Top'.batch : EventFits(x)'
    BY <1>1, <1>2, <1>3 DEF BatchInv, EventsFit, EventFits
  <1>6. EventFits(Top.cur)'
    <2>1. EventFits(e)
      BY <1>2 DEF BatchInv, EventsFit
    <2>2. \/ f.cur.who = e.who /\ \A x \in {"hup", "in"} : x \in f.cur.todo <=> x \in e.todo
          \/ f.cur.who = None /\ f.cur.todo = {}
      BY <1>2 DEF TakenCur, NoEvent
    <2> QED BY <1>1, <1>3, <2>1, <2>2, TcpAssumption, DnsAssumption DEF EventFits
  <1>7. Top'.cur.who = None => Top'.cur = NoEvent
    <2>1. e.who # None
      BY <1>2, TcpAssumption, DnsAssumption DEF Event, Proxies
    <2> QED BY <1>2, <1>3, <2>1 DEF TakenCur
  <1>8. GoneFits'
    BY <1>1, GoneKept DEF BatchInv
  <1> QED BY <1>1, <1>4, <1>5, <1>6, <1>7, <1>8 DEF BatchInv, EventsFit, NothingLost

\* The last callback of OnEvent returns.
LEMMA OnEventReturnsFits ==
  ASSUME Inv, BatchInv, OnEventReturns
  PROVE  BatchInv'
  <1>1. /\ Continues({}, FALSE) /\ UNCHANGED <<sock, first, rx, destroyed, gone, backlog, addr, ack, lost>>
    BY Continuing DEF OnEventReturns, sockVars, lifeVars, appVars, dnsVars
  <1>2. OuterIdle' /\ EventsFit'
    <2>1. Calm
      BY <1>1 DEF Calm
    <2> QED BY <1>1, <2>1, ContinueFits DEF Inv, BatchInv
  <1> QED BY <1>1, <1>2, GoneKept DEF BatchInv, NothingLost

\* A nested loop ends: the loop below it was idle.
LEMMA NestedReturnsFits ==
  ASSUME Inv, BatchInv, NestedReturns
  PROVE  BatchInv'
  <1>1. /\ Len(frames) > 1 /\ frames' = SubSeq(frames, 1, Len(frames) - 1)
        /\ UNCHANGED <<sock, first, rx, destroyed, gone, backlog, addr, ack, lost>>
    BY DEF NestedReturns, sockVars, lifeVars, appVars, dnsVars
  <1>2. /\ Len(frames') = Len(frames) - 1 /\ Len(frames) \in Nat
        /\ \A i \in 1..(Len(frames) - 1) : frames'[i] = frames[i]
    BY <1>1, PopEffect, TopType DEF Inv
  <1>3. OuterIdle' /\ Idle'
    <2>1. \A i \in 1..Len(frames') : i \in 1..(Len(frames) - 1)
      BY <1>2
    <2>2. Len(frames') \in 1..Len(frames') /\ \A i \in 1..(Len(frames') - 1) : i \in 1..Len(frames')
      BY <1>1, <1>2
    <2> QED BY <1>2, <2>1, <2>2 DEF BatchInv, OuterIdle, Idle, Top
  <1> QED BY <1>1, <1>3, IdleFits, GoneKept DEF BatchInv, NothingLost

\* The client that is answered has not been deleted.
LEMMA OnDnsAckFits ==
  ASSUME Inv, BatchInv, OnDnsAck
  PROVE  BatchInv'
  <1> DEFINE w == ack.who
  <1>1. /\ Idle /\ ack.state = "sent" /\ ack' = [ack EXCEPT !.state = "done"]
        /\ UNCHANGED <<first, rx, destroyed, gone, addr, backlog, lost, frames>>
    BY DEF OnDnsAck, appVars, lifeVars
  <1>2. OuterIdle' /\ EventsFit'
    <2>1. Idle'
      BY <1>1 DEF Idle, Top
    <2> QED BY <1>1, <2>1, IdleFits DEF BatchInv, OuterIdle
  <1>3. w \in Clients /\ ack.dns \in Names /\ ack'.who = w /\ ~gone[w]
    BY <1>1 DEF Inv, DnsFits, DnsTypeOK, BatchInv, GoneFits
  <1>4. sock' = sock \/ (w \notin Accepted /\ \A x \in Clients : x # w => sock'[x] = sock[x])
    <2>1. CASE ack.dns = addr[w] /\ sock[w] = "none"
      <3>1. ConnectHelper(w, ack.ip) /\ ack.ip \in Names \cup Ips \cup {None}
        BY <2>1 DEF OnDnsAck, Inv, DnsTypeOK
      <3>2. Connecting(w, ack.ip)
        BY <1>3, <3>1, ConnectHelperEffect DEF Inv
      <3> QED BY <1>3, <2>1, <3>2, DnsAssumption DEF Connecting, BatchInv, GoneFits
    <2>2. CASE ~(ack.dns = addr[w] /\ sock[w] = "none")
      BY <2>2 DEF OnDnsAck
    <2> QED BY <2>1, <2>2
  <1>5. GoneFits'
    <2>1. backlog \subseteq Accepted /\ Accepted \subseteq Clients
      BY TcpAssumption DEF Inv, LifeTypes
    <2> QED BY <1>1, <1>3, <1>4, <2>1 DEF BatchInv, GoneFits
  <1> QED BY <1>1, <1>2, <1>5 DEF BatchInv, NothingLost

\* Connect, to an address in any callback, to a name between two batches.
LEMMA ConnectFits ==
  ASSUME Nesting = FALSE, Inv, BatchInv, NEW c \in Clients, NEW a \in Names \cup Ips, Connect(c, a)
  PROVE  BatchInv'
  <1>1. /\ c \notin Accepted /\ ~destroyed[c] /\ addr' = [addr EXCEPT ![c] = a]
        /\ first' = [first EXCEPT ![c] = TRUE]
        /\ UNCHANGED <<rx, backlog, destroyed, gone, lost>>
    BY DEF Connect, lifeVars
  <1>2. backlog \subseteq Accepted /\ Accepted \subseteq Clients /\ ~gone[c]
    BY <1>1, TcpAssumption DEF Inv, LifeTypes, BatchInv, GoneFits, Proxies
  <1>3. \A x \in Accepted : addr'[x] = addr[x] /\ first'[x] = first[x]
    BY <1>1, <1>2 DEF Inv, SockTypes
  <1>4. CASE a \in Ips /\ ConnectHelper(c, a) /\ UNCHANGED <<dnsVars, frames>>
    <2>1. Connecting(c, a)
      BY <1>4, ConnectHelperEffect DEF Inv
    <2>2. sock'[c] # "none" /\ \A x \in Clients : x # c => sock'[x] = sock[x]
      BY <2>1 DEF Connecting
    <2>3. Calm
      BY <1>1, <2>2 DEF Calm
    <2>4. OuterIdle' /\ EventsFit'
      BY <1>4, <2>3, LoopsKept DEF Inv, BatchInv
    <2>5. GoneFits'
      BY <1>1, <1>2, <1>3, <1>4, <2>2 DEF BatchInv, GoneFits, dnsVars
    <2> QED BY <1>1, <2>4, <2>5 DEF BatchInv, NothingLost
  <1>5. CASE /\ Idle \/ Nesting
             /\ AddRequest(c, a)
             /\ frames' = Append(frames, [IdleFrame EXCEPT !.wait = c])
             /\ UNCHANGED <<sock, target, want>>
    <2>1. /\ Len(frames') = Len(frames) + 1 /\ Top'.batch = {} /\ Top'.cur = NoEvent
          /\ \A i \in 1..Len(frames) : frames'[i] = frames[i]
      BY <1>5, PushEffect DEF Inv
    <2>2. Idle /\ Idle' /\ ack' = ack
      BY <1>5, <2>1 DEF Idle, AddRequest
    <2>3. OuterIdle'
      <3>1. ASSUME NEW i \in 1..(Len(frames') - 1) PROVE frames'[i].batch = {} /\ frames'[i].cur = NoEvent
        <4>1. Len(frames) \in Nat /\ i \in 1..Len(frames) /\ (i # Len(frames) => i \in 1..(Len(frames) - 1))
          BY <2>1, TopType DEF Inv
        <4>2. CASE i = Len(frames)
          BY <2>1, <2>2, <4>1, <4>2 DEF Idle, Top
        <4>3. CASE i # Len(frames)
          BY <2>1, <4>1, <4>3 DEF BatchInv, OuterIdle
        <4> QED BY <4>2, <4>3
      <3> QED BY <3>1 DEF OuterIdle
    <2>4. GoneFits'
      BY <1>1, <1>2, <1>3, <1>5, <2>2 DEF BatchInv, GoneFits
    <2> QED BY <1>1, <2>2, <2>3, <2>4, IdleFits DEF BatchInv, NothingLost
  <1> QED BY <1>4, <1>5 DEF Connect

\* Send in any callback.
LEMMA SendKeepsBatch ==
  ASSUME Inv, BatchInv, NEW c \in Clients, Send(c)
  PROVE  BatchInv'
  <1>1. UNCHANGED <<sock, first, rx, destroyed, gone, backlog, addr, ack, lost, frames>>
    BY DEF Send, Transmit, lifeVars, appVars, dnsVars
  <1>2. Calm
    BY <1>1 DEF Calm
  <1> QED BY <1>1, <1>2, LoopsKept, GoneKept DEF Inv, BatchInv, NothingLost

\* Who is closed was accepted or connected; it may be destroyed with it, and is not deleted.
LEMMA ShutFits ==
  ASSUME Inv, BatchInv, NEW cs \in SUBSET Clients, Shutdown(cs), cs \cap backlog' = {},
         backlog' \subseteq backlog, UNCHANGED <<gone, addr, ack>>,
         \A p \in Proxies : destroyed[p] => destroyed'[p],
         \A c \in Clients : destroyed'[c] => destroyed[c] \/ c \in cs
  PROVE  Calm /\ GoneFits'
  <1>1. \A c \in Clients : c \in Proxies /\ c # Server
    BY TcpAssumption DEF Proxies
  <1>2. backlog \subseteq Clients
    BY TcpAssumption DEF Inv, LifeTypes
  <1>3. \A c \in Clients : /\ sock'[c] = IF c \in cs THEN "none" ELSE sock[c]
                           /\ rx'[c] => rx[c]
                           /\ first'[c] = first[c]
    BY DEF Shutdown
  <1>4. Calm
    BY <1>1, <1>3 DEF Calm
  <1>5. GoneFits'
    BY <1>1, <1>2, <1>3 DEF BatchInv, GoneFits
  <1> QED BY <1>4, <1>5

\* Close in any callback.
LEMMA CloseFits ==
  ASSUME Inv, BatchInv, NEW c \in Clients, Close(c)
  PROVE  BatchInv'
  <1>1. /\ sock[c] # "none" \/ c \notin Accepted \/ (c \in Children /\ ~destroyed[c])
        /\ Shut({c}) /\ destroyed' = [destroyed EXCEPT ![c] = TRUE]
        /\ UNCHANGED <<gone, addr, ack, backlog, lost, frames>>
    BY DEF Close, appVars, dnsVars
  <1>2. Shutdown({c})
    <2>1. lost' \in [Clients -> BOOLEAN]
      BY <1>1 DEF Inv, SockTypes
    <2> QED BY <1>1, <2>1, ShutEffect DEF Inv
  <1>3. \A p \in Proxies : destroyed'[p] <=> destroyed[p] \/ p = c
    BY <1>1, LifeUpdate DEF Inv, LifeTypes, Proxies
  <1>4. c \notin backlog
    BY <1>1 DEF Inv, LifeTypes, BatchInv, GoneFits, Children
  <1>5. Calm /\ GoneFits'
    BY <1>1, <1>2, <1>3, <1>4, ShutFits DEF Proxies
  <1> QED BY <1>1, <1>5, LoopsKept DEF Inv, BatchInv, NothingLost

\* Destroy of the server in any callback.
LEMMA DestroyServerFits ==
  ASSUME Inv, BatchInv, DestroyServer
  PROVE  BatchInv'
  <1>1. /\ Shut(Children) /\ backlog' = {}
        /\ destroyed' = [p \in Proxies |-> destroyed[p] \/ p \in Children \cup {Server}]
        /\ UNCHANGED <<gone, addr, ack, lost, frames>>
    BY DEF DestroyServer, appVars, dnsVars
  <1>2. Children \in SUBSET Clients
    BY TcpAssumption DEF Children
  <1>3. Shutdown(Children)
    <2>1. lost' \in [Clients -> BOOLEAN]
      BY <1>1 DEF Inv, SockTypes
    <2> QED BY <1>1, <2>1, ShutEffect DEF Inv
  <1>4. \A p \in Proxies : destroyed'[p] <=> destroyed[p] \/ p \in Children \/ p = Server
    <2>1. \A p \in Proxies : destroyed'[p] <=> destroyed[p] \/ p \in Children \cup {Server}
      BY <1>1, Zenon
    <2> QED BY <2>1
  <1>5. Calm /\ GoneFits'
    BY <1>1, <1>2, <1>3, <1>4, ShutFits, TcpAssumption DEF Proxies
  <1> QED BY <1>1, <1>5, LoopsKept DEF Inv, BatchInv, NothingLost

\* gc deletes between two batches only, and nobody who is waited for.
LEMMA GcFits ==
  ASSUME Inv, BatchInv, NEW p \in Proxies, Gc(p)
  PROVE  BatchInv'
  <1>1. /\ Idle /\ destroyed[p] /\ ack.who # p
        /\ Shut({p} \cap Clients) /\ gone' = [gone EXCEPT ![p] = TRUE]
        /\ UNCHANGED <<destroyed, addr, ack, backlog, lost, frames>>
    BY DEF Gc, Held, appVars, dnsVars
  <1>2. Shutdown({p} \cap Clients)
    <2>1. lost' \in [Clients -> BOOLEAN]
      BY <1>1 DEF Inv, SockTypes
    <2> QED BY <1>1, <2>1, ShutEffect DEF Inv
  <1>3. OuterIdle' /\ EventsFit'
    <2>1. Idle'
      BY <1>1 DEF Idle, Top
    <2> QED BY <1>1, <2>1, IdleFits DEF BatchInv, OuterIdle
  <1>4. \A x \in Proxies : gone'[x] <=> gone[x] \/ x = p
    BY <1>1, LifeUpdate DEF Inv, LifeTypes
  <1>5. \A c \in Clients : c \in Proxies /\ first'[c] = first[c]
                         /\ sock'[c] = IF c = p THEN "none" ELSE sock[c]
    BY <1>2 DEF Shutdown, Proxies
  <1>6. backlog \subseteq Clients
    BY TcpAssumption DEF Inv, LifeTypes
  <1>7. ack.state # "none" => ack.who \in Clients
    BY DEF Inv, DnsFits
  <1>8. GoneFits'
    BY <1>1, <1>4, <1>5, <1>6, <1>7 DEF BatchInv, GoneFits
  <1> QED BY <1>1, <1>3, <1>8 DEF BatchInv, NothingLost

\* The resolver answers live clients.
LEMMA ResolverFits ==
  ASSUME Inv, BatchInv, ResolverStep
  PROVE  BatchInv'
  <1> DEFINE alive == {c \in Clients : ~gone[c]}
  <1>1. DnsNext(alive) /\ UNCHANGED <<sock, first, rx, destroyed, gone, backlog, addr, lost, frames>>
    BY DEF ResolverStep, tcpVars, sockVars, lifeVars, appVars
  <1>2. alive \in SUBSET Clients
    OBVIOUS
  <1>3. ack'.state = "none" \/ ack' = ack \/ ack'.who \in alive
    <2> HIDE DEF alive
    <2> QED BY <1>1, <1>2, DnsStep DEF Inv
  <1>4. GoneFits'
    BY <1>1, <1>3 DEF BatchInv, GoneFits
  <1>5. Calm
    BY <1>1 DEF Calm
  <1> QED BY <1>1, <1>4, <1>5, LoopsKept DEF Inv, BatchInv, NothingLost

\* The server accepts.
LEMMA OnAcceptFits ==
  ASSUME Inv, BatchInv, OnAccept
  PROVE  BatchInv'
  <1>1. Top.cur.who # None /\ UNCHANGED <<destroyed, gone, addr, ack, lost>>
    BY TcpAssumption DEF OnAccept, Calls, lifeVars, appVars, dnsVars
  <1>2. CASE Continues({}, FALSE) /\ UNCHANGED <<sockVars, backlog>>
    <2>1. UNCHANGED <<sock, first, rx>>
      BY <1>2 DEF sockVars
    <2>2. Calm
      BY <1>1, <1>2, <2>1 DEF Calm
    <2>3. OuterIdle' /\ EventsFit'
      BY <1>1, <1>2, <2>2, ContinueFits DEF Inv, BatchInv
    <2> QED BY <1>1, <1>2, <2>1, <2>3, GoneKept DEF BatchInv, NothingLost
  <1>3. ASSUME NEW c \in backlog, backlog' = backlog \ {c}, sock' = [sock EXCEPT ![c] = "up"],
               Continues({"accept"}, TRUE), rx' = rx, first' = first
        PROVE  BatchInv'
    <2>1. c \in Clients /\ backlog \subseteq Clients /\ c \in Proxies
      BY TcpAssumption DEF Inv, LifeTypes, Proxies
    <2>2. sock'[c] = "up" /\ \A x \in Clients : x # c => sock'[x] = sock[x]
      BY <1>3, <2>1 DEF Inv, SockTypes
    <2>3. Calm
      BY <1>1, <1>3, <2>2 DEF Calm
    <2>4. OuterIdle' /\ EventsFit'
      <3>1. {"accept"} \in SUBSET Phase
        BY DEF Phase
      <3> QED BY <1>1, <1>3, <2>3, <3>1, ContinueFits DEF Inv, BatchInv
    <2>5. ~gone[c]
      BY <2>1 DEF BatchInv, GoneFits
    <2>6. GoneFits'
      BY <1>1, <1>3, <2>1, <2>2, <2>5 DEF BatchInv, GoneFits
    <2> QED BY <1>1, <2>4, <2>6 DEF BatchInv, NothingLost
  <1>4. backlog \subseteq Clients
    BY TcpAssumption DEF Inv, LifeTypes
  <1> QED BY <1>2, <1>3, <1>4, Continuing DEF OnAccept

\* The first event.
LEMMA OnFirstEventFits ==
  ASSUME Inv, BatchInv, NEW c \in Clients, OnFirstEvent(c)
  PROVE  BatchInv'
  <1> DEFINE error == sock[c] \in {"failed", "none"}
             reported == c \notin Accepted
             todo == IF reported /\ error THEN {} ELSE Top.cur.todo \ {"first"}
  <1>1. /\ Top.cur.who # None /\ Continues(todo, reported)
        /\ first' = [first EXCEPT ![c] = FALSE] /\ Top.cur.who = c
        /\ UNCHANGED <<sock, rx, destroyed, gone, backlog, addr, ack, lost>>
    BY Continuing, DnsAssumption DEF OnFirstEvent, Calls, lifeVars, appVars, dnsVars
  <1>2. todo \in SUBSET Phase /\ \A x \in {"hup", "in"} : todo = {} \/ (x \in todo <=> x \in Top.cur.todo)
    BY TopType DEF Inv
  <1>3. Calm
    BY <1>1 DEF Calm
  <1>4. reported \in BOOLEAN
    BY Zenon
  <1> HIDE DEF todo, reported, error
  <1>5. OuterIdle' /\ EventsFit'
    BY <1>1, <1>2, <1>3, <1>4, ContinueFits DEF Inv, BatchInv
  <1>6. \A x \in Clients : first'[x] <=> first[x] /\ x # c
    BY <1>1, BoolUpdate DEF Inv, SockTypes
  <1>7. c \notin backlog /\ backlog \subseteq Clients
    BY <1>1, TcpAssumption DEF Inv, LifeTypes, BatchInv, EventsFit, EventFits
  <1>8. GoneFits'
    BY <1>1, <1>6, <1>7 DEF BatchInv, GoneFits
  <1> QED BY <1>1, <1>5, <1>8 DEF BatchInv, NothingLost

\* Data is read, all of it.
LEMMA OnReceiveFits ==
  ASSUME Inv, BatchInv, NEW c \in Clients, OnReceive(c)
  PROVE  BatchInv'
  <1>1. /\ Top.cur.who = c /\ Continues(Top.cur.todo \ {"in"}, TRUE) /\ rx' = [rx EXCEPT ![c] = FALSE]
        /\ UNCHANGED <<sock, first, destroyed, gone, backlog, addr, ack, lost>>
    BY Continuing DEF OnReceive, Calls, lifeVars, appVars, dnsVars
  <1>2. ~rx'[c] /\ \A x \in Clients : rx'[x] => rx[x]
    BY <1>1, BoolUpdate DEF Inv, SockTypes
  <1>3. Calm
    BY <1>1, <1>2 DEF Calm
  <1>4. OuterIdle' /\ EventsFit'
    <2>1. Top.cur.todo \ {"in"} \in SUBSET Phase /\ Top.cur.who # None
      BY <1>1, TopType, DnsAssumption DEF Inv
    <2> QED BY <1>1, <1>2, <1>3, <2>1, ContinueFits DEF Inv, BatchInv
  <1> QED BY <1>1, <1>4, GoneKept DEF BatchInv, NothingLost

\* What is pending is sent.
LEMMA OnSendFits ==
  ASSUME Inv, BatchInv, NEW c \in Clients, OnSend(c)
  PROVE  BatchInv'
  <1>1. /\ Continues(Top.cur.todo \ {"out"}, TRUE)
        /\ UNCHANGED <<sock, first, rx, destroyed, gone, backlog, addr, ack, lost>>
    BY Continuing DEF OnSend, Transmit, lifeVars, appVars, dnsVars
  <1>2. Calm
    BY <1>1 DEF Calm
  <1>3. OuterIdle' /\ EventsFit'
    <2>1. Top.cur.todo \ {"out"} \in SUBSET Phase /\ Top.cur.who # None
      BY TopType, DnsAssumption DEF Inv, OnSend, Calls
    <2> QED BY <1>1, <1>2, <2>1, ContinueFits DEF Inv, BatchInv
  <1> QED BY <1>1, <1>3, GoneKept DEF BatchInv, NothingLost

\* A hang-up: OnReceive came before it if there was something to read.
LEMMA OnHangUpFits ==
  ASSUME Inv, BatchInv, NEW c \in Clients, OnHangUp(c)
  PROVE  BatchInv'
  <1> DEFINE l == lost[c] \/ rx[c]
  <1>1. /\ Top.cur.who = c /\ "hup" \in Top.cur.todo /\ "in" \notin Top.cur.todo
        /\ Shut({c}) /\ destroyed' \in {destroyed, [destroyed EXCEPT ![c] = TRUE]}
        /\ Continues({"hup"}, TRUE) \/ Continues({}, FALSE)
        /\ lost' = [lost EXCEPT ![c] = l]
        /\ UNCHANGED <<gone, addr, ack, backlog>>
    BY Continuing DEF OnHangUp, Calls, appVars, dnsVars
  <1>2. EventFits(Top.cur)
    BY DEF BatchInv, EventsFit
  <1>3. ~rx[c] /\ c \notin backlog
    BY <1>1, <1>2 DEF EventFits
  <1>4. NothingLost'
    <2>1. l \in BOOLEAN /\ ~l
      BY <1>3 DEF BatchInv, NothingLost
    <2> HIDE DEF l
    <2> QED BY <1>1, <2>1, BoolUpdate DEF Inv, SockTypes, BatchInv, NothingLost
  <1>5. l \in BOOLEAN
    BY Zenon
  <1> HIDE DEF l
  <1>6. Shutdown({c})
    <2>1. lost' \in [Clients -> BOOLEAN]
      BY <1>1, <1>5, BoolUpdate DEF Inv, SockTypes
    <2> QED BY <1>1, <2>1, ShutEffect DEF Inv
  <1>7. Calm /\ GoneFits'
    <2>1. \A p \in Proxies : /\ destroyed[p] => destroyed'[p]
                             /\ destroyed'[p] => destroyed[p] \/ p = c
      BY <1>1, LifeUpdate DEF Inv, LifeTypes, Proxies
    <2> QED BY <1>1, <1>3, <1>6, <2>1, ShutFits DEF Proxies
  <1>8. OuterIdle' /\ EventsFit'
    <2>1. {"hup"} \in SUBSET Phase /\ Top.cur.who # None
      BY <1>1, DnsAssumption DEF Phase
    <2>2. CASE Continues({"hup"}, TRUE)
      BY <1>1, <1>7, <2>1, <2>2, ContinueFits DEF Inv, BatchInv
    <2>3. CASE Continues({}, FALSE)
      BY <1>7, <2>1, <2>3, ContinueFits DEF Inv, BatchInv
    <2> QED BY <1>1, <2>2, <2>3
  <1> QED BY <1>4, <1>7, <1>8 DEF BatchInv

\* The kernel and the peers: what comes in comes in between two batches.
LEMMA NetworkFits ==
  ASSUME Inv, BatchInv, Network
  PROVE  BatchInv'
  <1>1. UNCHANGED <<destroyed, gone, addr, ack, lost, frames>>
    BY DEF Network, appVars, lifeVars, dnsVars
  <1>2. PICK c \in Clients : Established(c) \/ PeerSends(c) \/ PeerReads(c) \/ PeerConnects(c)
    BY DEF Network
  <1>3. OuterIdle' /\ EventsFit'
    <2>1. CASE Idle
      <3>1. Idle'
        BY <1>1, <2>1 DEF Idle, Top
      <3> QED BY <1>1, <3>1, IdleFits DEF BatchInv, OuterIdle
    <2>2. CASE PeerReads(c)
      <3>1. Calm
        BY <1>1, <2>2 DEF PeerReads, Calm
      <3> QED BY <1>1, <3>1, LoopsKept DEF Inv, BatchInv
    <2> QED BY <1>2, <2>1, <2>2 DEF Established, PeerSends, PeerConnects
  <1>4. GoneFits'
    <2>1. CASE Established(c)
      <3>1. sock[c] = "syn" /\ backlog' = backlog /\ first' = first /\ \A x \in Clients : x # c => sock'[x] = sock[x]
        BY <2>1 DEF Established, Inv, SockTypes
      <3>2. backlog \subseteq Clients
        BY TcpAssumption DEF Inv, LifeTypes
      <3> QED BY <1>1, <3>1, <3>2 DEF BatchInv, GoneFits
    <2>2. CASE PeerSends(c) \/ PeerReads(c)
      BY <1>1, <2>2, GoneKept DEF BatchInv, PeerSends, PeerReads
    <2>3. CASE PeerConnects(c)
      BY <1>1, <2>3 DEF BatchInv, GoneFits, PeerConnects, Children, sockVars
    <2> QED BY <1>2, <2>1, <2>2, <2>3
  <1> QED BY <1>1, <1>3, <1>4 DEF BatchInv, NothingLost

\* Init establishes it.
LEMMA BatchInit ==
  ASSUME Init
  PROVE  BatchInv
  <1>1. Len(frames) = 1 /\ frames[1] = IdleFrame
    BY DEF Init
  <1>2. Top = IdleFrame /\ 1..(Len(frames) - 1) = {}
    BY <1>1 DEF Top
  <1>3. OuterIdle
    BY <1>2 DEF OuterIdle
  <1>4. EventsFit
    BY <1>2, TcpAssumption, DnsAssumption DEF EventsFit, EventFits, IdleFrame, NoEvent
  <1>5. /\ \A p \in Proxies : ~gone[p] /\ ack.state = "none"
        /\ backlog = {} /\ \A c \in Clients : addr[c] = None
    BY DEF Init, DnsInit, NoAck
  <1>6. GoneFits
    <2>1. ack.state = "none" /\ Accepted \subseteq Clients
      BY TcpAssumption DEF Init, DnsInit, NoAck
    <2> QED BY <1>5, <2>1 DEF GoneFits, Proxies
  <1>7. NothingLost
    BY DEF Init, NothingLost
  <1> QED BY <1>3, <1>4, <1>6, <1>7 DEF BatchInv

\* Every step keeps it.
LEMMA BatchStep ==
  ASSUME Nesting = FALSE, Inv, BatchInv, [Next]_vars
  PROVE  BatchInv'
  <1>1. CASE HomeStep
    <2>1. ASSUME NEW c \in Clients, SocketEvent(c) PROVE BatchInv'
      BY <2>1, OnFirstEventFits, OnReceiveFits, OnSendFits, OnHangUpFits DEF SocketEvent
    <2> QED BY <1>1, <2>1, EpollWaitFits, TakeEventFits, OnEventReturnsFits, NestedReturnsFits,
               OnDnsAckFits, OnAcceptFits DEF HomeStep
  <1>2. CASE AppStep
    BY <1>2, ConnectFits, SendKeepsBatch, CloseFits, DestroyServerFits DEF AppStep
  <1>3. CASE ResolverStep
    BY <1>3, ResolverFits
  <1>4. CASE GcStep
    BY <1>4, GcFits DEF GcStep
  <1>5. CASE Network
    BY <1>5, NetworkFits
  <1>6. CASE UNCHANGED vars
    <2>1. UNCHANGED <<sock, first, rx, destroyed, gone, backlog, addr, ack, lost, frames>>
      BY <1>6 DEF vars, tcpVars, sockVars, lifeVars, appVars, dnsVars
    <2>2. Calm
      BY <2>1 DEF Calm
    <2> QED BY <2>1, <2>2, LoopsKept, GoneKept DEF Inv, BatchInv, NothingLost
  <1> QED BY <1>1, <1>2, <1>3, <1>4, <1>5, <1>6 DEF Next

\* Without nested loops in callbacks the events of a batch stay those of live channels.
THEOREM BatchInvariant ==
  ASSUME Nesting = FALSE
  PROVE  Spec => []BatchInv
  <1>1. Init => BatchInv
    BY BatchInit
  <1>2. Inv /\ BatchInv /\ [Next]_vars => BatchInv'
    BY BatchStep
  <1> QED BY <1>1, <1>2, ChannelInvariant, PTL DEF Spec

\* gc never deletes the proxy of an event that is still to be handled or whose OnEvent runs.
THEOREM BatchesAreAlive ==
  ASSUME Nesting = FALSE
  PROVE  Spec => []BatchIsAlive
  <1>1. ASSUME Inv, BatchInv PROVE BatchIsAlive
    <2>1. /\ Len(frames) \in Nat \ {0} /\ DOMAIN frames = 1..Len(frames)
          /\ Top.batch \subseteq Event /\ Top.cur.who \in Proxies \cup {None}
      BY <1>1, TopType DEF Inv, FramesFit
    <2>2. ASSUME NEW i \in DOMAIN frames
          PROVE  /\ \A e \in frames[i].batch : ~gone[e.who]
                 /\ frames[i].cur # NoEvent => ~gone[frames[i].cur.who]
      <3>1. CASE i = Len(frames)
        <4>1. \A e \in Top.batch : e.who # None
          BY <2>1, TcpAssumption, DnsAssumption DEF Event, Proxies
        <4>2. Top.cur.who = None => Top.cur = NoEvent
          BY <1>1 DEF BatchInv, EventsFit
        <4> QED BY <1>1, <3>1, <4>1, <4>2 DEF BatchInv, EventsFit, EventFits, Top
      <3>2. CASE i # Len(frames)
        <4>1. i \in 1..(Len(frames) - 1)
          BY <2>1, <3>2
        <4> QED BY <1>1, <4>1 DEF BatchInv, OuterIdle
      <3> QED BY <3>1, <3>2
    <2> QED BY <2>2 DEF BatchIsAlive
  <1>2. Inv /\ BatchInv => BatchIsAlive
    BY <1>1
  <1> QED BY <1>2, ChannelInvariant, BatchInvariant, PTL

\* What arrived before the peer closed is received before OnEvent closes the channel.
THEOREM AllIsReceived ==
  ASSUME Nesting = FALSE
  PROVE  Spec => []NothingLost
  <1>1. BatchInv => NothingLost
    BY DEF BatchInv
  <1> QED BY <1>1, BatchInvariant, PTL
=============================================================================
