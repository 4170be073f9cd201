----------------------------- MODULE TcpClient -----------------------------
(***************************************************************************)
(* TcpClient_Linux, TcpServer_Linux and the epoll loop of Looper_Linux on  *)
(* one home looper, together with the DnsLooper that resolves names.       *)
(*                                                                         *)
(* epoll_wait returns a batch of events with raw pointers to their         *)
(* proxies; OnEvent runs through its parts (first event, readable,         *)
(* writable, hang-up), each with a callback of the application.  In a      *)
(* callback, and between batches (a message or a timer), the application   *)
(* may connect, send on and close any channel.  The application reads all  *)
(* there is in OnReceive and sends what is pending in OnSend.              *)
(*                                                                         *)
(* Bytes are abstracted: a channel has data to read or not, the kernel has *)
(* room or not, the application has pending data or not.                   *)
(***************************************************************************)
EXTENDS DnsLooper, FiniteSets

CONSTANTS
  Accepted,     \* the clients that a TcpServer accepts; the others call Connect
  Server,       \* the TcpServer
  Ips,          \* addresses that need no resolver
  MaxConnects,  \* calls of Connect per client
  Nesting       \* socket callbacks call synchronously (Connect to a name), and so nest a loop

ASSUME TcpAssumption ==
  /\ Accepted \subseteq Clients /\ Server \notin Clients \cup {None}
  /\ Ips \cap (Names \cup {None}) = {}
  /\ IsFiniteSet(Clients) /\ MaxConnects \in Nat /\ Nesting \in BOOLEAN

Proxies == Clients \cup {Server}

VARIABLES
  sock,       \* mSock: "none", or the state the kernel has it in
  target,     \* what the socket was told to connect to, None when that is no address
  addr,       \* mBundle's address
  first,      \* mWaitFirstEvent
  writable,   \* mListenWritable
  want,       \* EPOLLOUT is among the events asked for
  room,       \* the send buffer of the kernel has room
  rx,         \* data to read
  fin,        \* the peer has closed
  outbox,     \* data the application has to send, after a short Send
  backlog,    \* connections the server has not accepted
  destroyed,  \* OnDestroy was called
  gone,       \* deleted by gc
  connects,   \* calls of Connect so far
  lost,       \* channels that were closed with data to read
  frames      \* the loops of the home looper, outermost first

sockVars == <<sock, target, first, writable, want, room, rx, fin, outbox>>
lifeVars == <<destroyed, gone>>
appVars == <<addr, connects>>
tcpVars == <<sockVars, lifeVars, appVars, backlog, lost, frames>>
vars == <<dnsVars, tcpVars>>

Phase == {"first", "in", "out", "hup", "accept"}
Event == [who : Proxies, todo : SUBSET (Phase \ {"first"})]   \* what epoll_wait returns
NoEvent == [who |-> None, todo |-> {}, app |-> FALSE]
IdleFrame == [batch |-> {}, cur |-> NoEvent, wait |-> None, sp |-> None]

TypeOK ==
  /\ DnsTypeOK
  /\ sock \in [Clients -> {"none", "syn", "up", "failed", "dead"}]
  /\ target \in [Clients -> Names \cup Ips \cup {None}]
  /\ addr \in [Clients -> Names \cup Ips \cup {None}]
  /\ \A f \in {first, writable, want, room, rx, fin, outbox, lost} : f \in [Clients -> BOOLEAN]
  /\ \A c \in Clients : sock[c] = "none" => ~(want[c] \/ room[c] \/ rx[c] \/ fin[c] \/ outbox[c])
  /\ backlog \subseteq Accepted
  /\ destroyed \in [Proxies -> BOOLEAN] /\ gone \in [Proxies -> BOOLEAN]
  /\ connects \in [Clients -> 0..MaxConnects]
  /\ Len(frames) \in 1..1 + MaxConnects * Cardinality(Clients)
  /\ \A i \in DOMAIN frames :
       frames[i] \in [batch : SUBSET Event,
                      cur : [who : Proxies \cup {None}, todo : SUBSET Phase, app : BOOLEAN],
                      wait : Clients \cup {None}, sp : Clients \cup {None}]

Init ==
  /\ DnsInit
  /\ sock = [c \in Clients |-> "none"]
  /\ target = [c \in Clients |-> None] /\ addr = [c \in Clients |-> None]
  /\ first = [c \in Clients |-> TRUE] /\ writable = [c \in Clients |-> FALSE]
  /\ want = [c \in Clients |-> FALSE] /\ room = [c \in Clients |-> FALSE]
  /\ rx = [c \in Clients |-> FALSE] /\ fin = [c \in Clients |-> FALSE]
  /\ outbox = [c \in Clients |-> FALSE] /\ lost = [c \in Clients |-> FALSE]
  /\ backlog = {}
  /\ destroyed = [p \in Proxies |-> FALSE] /\ gone = [p \in Proxies |-> FALSE]
  /\ connects = [c \in Clients |-> 0]
  /\ frames = <<IdleFrame>>

----------------------------------------------------------------------------
(* The loop *)

Top == frames[Len(frames)]
Idle == Top.batch = {} /\ Top.cur = NoEvent
Calls(p) == Top.cur.who = p   \* OnEvent of p is on top; its callback, if any, returns

\* Application code runs: a callback, or a message or timer between two batches.
AppRuns == Idle \/ Top.cur.app

\* OnEvent goes on with todo, after a callback if app; its local shared_ptr is sp.
ContinueWith(todo, app, sp) ==
  frames' = [frames EXCEPT ![Len(frames)] =
               [Top EXCEPT !.sp = sp,
                           !.cur = IF todo = {} /\ ~app THEN NoEvent
                                   ELSE [who |-> Top.cur.who, todo |-> todo, app |-> app]]]

\* OnEvent of a channel has no reference to anybody.
Continue(todo, app) == ContinueWith(todo, app, None)

\* The events the kernel has for a proxy that is registered.
Ready(p) ==
  IF p = Server THEN IF ~destroyed[Server] /\ backlog # {} THEN {"accept"} ELSE {}
  ELSE {e \in {"in", "out", "hup"} :
          CASE e = "in"  -> sock[p] = "failed" \/ rx[p] \/ fin[p]
            [] e = "out" -> want[p] /\ (sock[p] \in {"failed", "dead"} \/ room[p])
            [] e = "hup" -> sock[p] \in {"failed", "dead"} \/ fin[p]}

\* epoll_wait, after the message list was found empty.
EpollWait ==
  /\ Idle /\ ack.state # "sent"
  /\ \E p \in Proxies : Ready(p) # {}
  /\ frames' = [frames EXCEPT ![Len(frames)].batch =
                  {[who |-> p, todo |-> Ready(p)] : p \in {q \in Proxies : Ready(q) # {}}}]
  /\ UNCHANGED <<dnsVars, sockVars, lifeVars, appVars, backlog, lost>>

\* proxy->OnEvent.  A proxy that is gone is undefined behaviour: no more is said of it.
TakeEvent ==
  /\ Top.cur = NoEvent
  /\ \E e \in Top.batch :
       frames' = [frames EXCEPT ![Len(frames)] =
                    [Top EXCEPT !.batch = Top.batch \ {e},
                                !.cur = IF gone[e.who] THEN NoEvent
                                        ELSE [who |-> e.who, app |-> FALSE,
                                              todo |-> e.todo \cup {f \in {"first"} : e.who # Server /\ first[e.who]}]]]
  /\ UNCHANGED <<dnsVars, sockVars, lifeVars, appVars, backlog, lost>>

\* The last callback returns, and with it OnEvent.
OnEventReturns ==
  /\ Top.cur.app /\ Top.cur.todo = {}
  /\ Continue({}, FALSE)
  /\ UNCHANGED <<dnsVars, sockVars, lifeVars, appVars, backlog, lost>>

\* The send that nested a loop has been handled.
NestedReturns ==
  /\ Len(frames) > 1 /\ Idle
  /\ \A i \in DOMAIN dnsBox : dnsBox[i].who # Top.wait
  /\ frames' = SubSeq(frames, 1, Len(frames) - 1)
  /\ UNCHANGED <<dnsVars, sockVars, lifeVars, appVars, backlog, lost>>

----------------------------------------------------------------------------
(* The channel *)

\* ConnectHelper: an address that is none, or that cannot be reached, fails at once; the socket
\* is registered for EPOLLOUT either way, and the result is left to OnEvent.
ConnectHelper(c, ip) ==
  /\ sock' \in {[sock EXCEPT ![c] = s] : s \in IF ip = None THEN {"dead"} ELSE {"syn", "dead"}}
  /\ target' = [target EXCEPT ![c] = ip]
  /\ want' = [want EXCEPT ![c] = TRUE]

\* Connect.  The request for a name is a synchronous message, during which
\* the looper runs a nested loop.  OnClose does not connect the channel again: Close destroys it.
Connect(c, a) ==
  /\ AppRuns /\ c \notin Accepted /\ ~destroyed[c] /\ connects[c] < MaxConnects
  /\ sock[c] = "none"
  /\ \A i \in DOMAIN frames : ~(frames[i].cur.who = c /\ "hup" \in frames[i].cur.todo)
  /\ addr' = [addr EXCEPT ![c] = a]
  /\ connects' = [connects EXCEPT ![c] = @ + 1]
  /\ first' = [first EXCEPT ![c] = TRUE]
  /\ \/ /\ a \in Ips
        /\ ConnectHelper(c, a)
        /\ UNCHANGED <<dnsVars, frames>>
     \/ /\ a \in Names
        /\ AddRequest(c, a)
        /\ Idle \/ Nesting
        /\ frames' = Append(frames, [IdleFrame EXCEPT !.wait = c])
        /\ UNCHANGED <<sock, target, want>>
  /\ UNCHANGED <<writable, room, rx, fin, outbox, backlog, lifeVars, lost>>

OnDnsAckLate ==
  /\ Idle /\ ack.state = "sent"
  /\ ack' = [ack EXCEPT !.state = "done"]
  /\ IF sock[ack.who] = "none" THEN ConnectHelper(ack.who, ack.ip) ELSE UNCHANGED <<sock, target, want>>
  /\ UNCHANGED <<dnsBox, items, threadRunning, mDns, mIP, timerCheck, first, writable, room, rx,
                 fin, outbox, lifeVars, appVars, backlog, lost, frames>>

\* BM_DNS_ACK: the answer to a request that was replaced or has connected is ignored.
OnDnsAck ==
  /\ Idle /\ ack.state = "sent"
  /\ ack' = [ack EXCEPT !.state = "done"]
  /\ IF ack.dns = addr[ack.who] /\ sock[ack.who] = "none"
     THEN ConnectHelper(ack.who, ack.ip)
     ELSE UNCHANGED <<sock, target, want>>
  /\ UNCHANGED <<dnsBox, items, threadRunning, mDns, mIP, timerCheck, first, writable, room, rx,
                 fin, outbox, lifeVars, appVars, backlog, lost, frames>>

\* send() of what is pending, with w and l the value of want and writable before: all of it,
\* a part, or nothing; a short result is followed by EnableListenWritable.
Transmit(c, w, l) ==
  /\ \/ /\ sock[c] = "up" /\ room[c]
        /\ outbox' = [outbox EXCEPT ![c] = FALSE]
        /\ want' = [want EXCEPT ![c] = w] /\ writable' = [writable EXCEPT ![c] = l]
        /\ UNCHANGED room
     \/ /\ outbox' = [outbox EXCEPT ![c] = TRUE]
        /\ want' = [want EXCEPT ![c] = TRUE] /\ writable' = [writable EXCEPT ![c] = TRUE]
        /\ room' = [room EXCEPT ![c] = FALSE]
  /\ UNCHANGED <<sock, target, first, rx, fin>>

\* Send, once OnConnect was signalled.
Send(c) ==
  /\ AppRuns /\ sock[c] # "none" /\ ~destroyed[c] /\ (first[c] => c \in Accepted)
  /\ Transmit(c, want[c], writable[c])
  /\ UNCHANGED <<dnsVars, lifeVars, appVars, backlog, lost, frames>>

ShutSocket(cs) ==
  /\ sock' = [c \in Clients |-> IF c \in cs THEN "none" ELSE sock[c]]
  /\ UNCHANGED <<target, want, room, rx, fin, outbox, first, writable>>

\* The sockets of the channels in cs are taken out of epoll and closed.
Shut(cs) ==
  /\ sock' = [c \in Clients |-> IF c \in cs THEN "none" ELSE sock[c]]
  /\ target' = [c \in Clients |-> IF c \in cs THEN None ELSE target[c]]
  /\ want' = [c \in Clients |-> want[c] /\ c \notin cs]
  /\ room' = [c \in Clients |-> room[c] /\ c \notin cs]
  /\ rx' = [c \in Clients |-> rx[c] /\ c \notin cs]
  /\ fin' = [c \in Clients |-> fin[c] /\ c \notin cs]
  /\ outbox' = [c \in Clients |-> outbox[c] /\ c \notin cs]
  /\ UNCHANGED <<first, writable>>

\* The channels the server has accepted: OnEvent has run or the socket is there until they are
\* destroyed.
Children == {c \in Accepted : sock[c] # "none" \/ ~first[c] \/ destroyed[c]}

\* Close by the application: the socket, OnClose, which is part of the callback that runs, and
\* Destroy.
Close(c) ==
  /\ AppRuns /\ (sock[c] # "none" \/ (~destroyed[c] /\ (c \in Accepted => c \in Children)))
  /\ ~gone[c]
  /\ Shut({c})
  /\ destroyed' = [destroyed EXCEPT ![c] = TRUE]
  /\ UNCHANGED <<dnsVars, gone, appVars, backlog, lost, frames>>

\* OnEvent, first event: the result of connect is read off the socket and reported.  getsockopt
\* fails on a channel that is closed.
OnFirstEvent(c) ==
  /\ Calls(c) /\ "first" \in Top.cur.todo
  /\ first' = [first EXCEPT ![c] = FALSE]
  /\ LET error == sock[c] \in {"failed", "none"}
         rest == Top.cur.todo \ {"first"}
         reported == c \notin Accepted
     IN  /\ Continue(IF reported /\ error THEN {} ELSE rest, reported)
         /\ want' = [want EXCEPT ![c] = @ /\ (error \/ ~reported)]
         /\ writable' = [writable EXCEPT ![c] = @ /\ (error \/ ~reported)]
  /\ UNCHANGED <<dnsVars, sock, target, room, rx, fin, outbox, lifeVars, appVars, backlog, lost>>

\* OnReceive; the application reads all there is.
OnReceive(c) ==
  /\ Calls(c) /\ "in" \in Top.cur.todo /\ "first" \notin Top.cur.todo
  /\ Continue(Top.cur.todo \ {"in"}, TRUE)
  /\ rx' = [rx EXCEPT ![c] = FALSE]
  /\ UNCHANGED <<dnsVars, sock, target, first, writable, want, room, fin, outbox, lifeVars,
                 appVars, backlog, lost>>

OnSendThenDisable(c) ==
  /\ Calls(c) /\ "out" \in Top.cur.todo /\ Top.cur.todo \cap {"first", "in"} = {}
  /\ Continue(Top.cur.todo \ {"out"}, TRUE)
  /\ want' = [want EXCEPT ![c] = FALSE] /\ writable' = [writable EXCEPT ![c] = FALSE]
  /\ outbox' \in {outbox, [outbox EXCEPT ![c] = FALSE]}
  /\ UNCHANGED <<sock, target, first, room, rx, fin>>
  /\ UNCHANGED <<dnsVars, lifeVars, appVars, backlog, lost>>

\* EPOLLOUT: writability is no longer listened to, then OnSend sends what is pending.
OnSend(c) ==
  /\ Calls(c) /\ "out" \in Top.cur.todo /\ Top.cur.todo \cap {"first", "in"} = {}
  /\ Continue(Top.cur.todo \ {"out"}, TRUE)
  /\ IF outbox[c] THEN Transmit(c, want[c] /\ ~writable[c], FALSE)
     ELSE /\ want' = [want EXCEPT ![c] = @ /\ ~writable[c]]
          /\ writable' = [writable EXCEPT ![c] = FALSE]
          /\ UNCHANGED <<sock, target, first, room, rx, fin, outbox>>
  /\ UNCHANGED <<dnsVars, lifeVars, appVars, backlog, lost>>

OnHangUpFirst(c) ==
  /\ Calls(c) /\ "hup" \in Top.cur.todo /\ "first" \notin Top.cur.todo
  /\ \/ /\ sock[c] # "none"
        /\ Continue({"hup"}, TRUE)
        /\ UNCHANGED destroyed
     \/ /\ sock[c] = "none"
        /\ Continue({}, FALSE)
        /\ destroyed' = [destroyed EXCEPT ![c] = TRUE]
  /\ Shut({c})
  /\ lost' = [lost EXCEPT ![c] = @ \/ rx[c]]
  /\ UNCHANGED <<dnsVars, gone, appVars, backlog>>

\* EPOLLRDHUP, EPOLLHUP or EPOLLERR: Close, which closes the socket, calls OnClose and, when that
\* returns, destroys; without a socket it only destroys.
OnHangUp(c) ==
  /\ Calls(c) /\ "hup" \in Top.cur.todo /\ Top.cur.todo \cap {"first", "in", "out"} = {}
  /\ \/ /\ sock[c] # "none"
        /\ Continue({"hup"}, TRUE)
        /\ UNCHANGED destroyed
     \/ /\ sock[c] = "none"
        /\ Continue({}, FALSE)
        /\ destroyed' = [destroyed EXCEPT ![c] = TRUE]
  /\ Shut({c})
  /\ lost' = [lost EXCEPT ![c] = @ \/ rx[c]]
  /\ UNCHANGED <<dnsVars, gone, appVars, backlog>>

----------------------------------------------------------------------------
(* The server, gc and the kernel *)

\* OnAccept: until accept() fails, a channel for every connection, with a callback during which
\* a local shared_ptr holds the channel.
OnAccept ==
  /\ Calls(Server)
  /\ IF backlog = {} THEN Continue({}, FALSE) /\ UNCHANGED <<sockVars, backlog>>
     ELSE \E c \in backlog :
            /\ backlog' = backlog \ {c}
            /\ sock' = [sock EXCEPT ![c] = "up"]
            /\ room' = [room EXCEPT ![c] = TRUE]
            /\ ContinueWith({"accept"}, TRUE, c)
            /\ UNCHANGED <<target, first, writable, want, rx, fin, outbox>>
  /\ UNCHANGED <<dnsVars, lifeVars, appVars, lost>>

\* Destroy of the server: Stop, then the channels.
DestroyServer ==
  /\ AppRuns /\ ~destroyed[Server]
  /\ backlog' = {}
  /\ Shut(Children)
  /\ destroyed' = [p \in Proxies |-> destroyed[p] \/ p \in Children \cup {Server}]
  /\ UNCHANGED <<dnsVars, gone, appVars, lost, frames>>

\* Somebody besides gc has a strong reference to p: the call that delivers an answer to it, a
\* request of its Connect that is not handled, OnAccept, or a channel that has p as its parent.
Held(p) ==
  \/ ack.who = p
  \/ \E i \in DOMAIN frames : p \in {frames[i].wait, frames[i].sp}
  \/ p = Server /\ \E c \in Children : ~gone[c]

GcAtOnce(p) ==
  /\ AppRuns /\ destroyed[p] /\ ~gone[p] /\ ~Held(p)
  /\ Shut({p} \cap Clients)
  /\ gone' = [gone EXCEPT ![p] = TRUE]
  /\ UNCHANGED <<dnsVars, destroyed, appVars, backlog, lost, frames>>

\* gc, a timer of the loop: nobody else has a reference.  The destructor closes the socket.
Gc(p) ==
  /\ Idle /\ destroyed[p] /\ ~gone[p] /\ ~Held(p)
  /\ Shut({p} \cap Clients)
  /\ gone' = [gone EXCEPT ![p] = TRUE]
  /\ UNCHANGED <<dnsVars, destroyed, appVars, backlog, lost, frames>>

\* The kernel.  Connections and data that come in while a batch is handled are seen by the next
\* epoll_wait: they come in when the loop is idle.  Room, which send() sees, comes at any moment.
Established(c) ==
  /\ Idle /\ sock[c] = "syn"
  /\ \/ /\ sock' = [sock EXCEPT ![c] = "up"] /\ room' = [room EXCEPT ![c] = TRUE]
     \/ /\ sock' = [sock EXCEPT ![c] = "failed"] /\ UNCHANGED room
  /\ UNCHANGED <<target, first, writable, want, rx, fin, outbox, backlog>>

PeerSends(c) ==
  /\ Idle /\ sock[c] = "up" /\ ~fin[c]
  /\ \/ rx' = [rx EXCEPT ![c] = TRUE] /\ UNCHANGED fin
     \/ fin' = [fin EXCEPT ![c] = TRUE] /\ UNCHANGED rx
  /\ UNCHANGED <<sock, target, first, writable, want, room, outbox, backlog>>

PeerReads(c) ==
  /\ sock[c] = "up"
  /\ room' = [room EXCEPT ![c] = TRUE]
  /\ UNCHANGED <<sock, target, first, writable, want, rx, fin, outbox, backlog>>

PeerConnects(c) ==
  /\ Idle /\ ~destroyed[Server]
  /\ c \in Accepted \ (backlog \cup Children)
  /\ backlog' = backlog \cup {c}
  /\ UNCHANGED sockVars

Network ==
  /\ \E c \in Clients : Established(c) \/ PeerSends(c) \/ PeerReads(c) \/ PeerConnects(c)
  /\ UNCHANGED <<dnsVars, lifeVars, appVars, lost, frames>>

----------------------------------------------------------------------------

SocketEvent(c) == OnFirstEvent(c) \/ OnReceive(c) \/ OnSend(c) \/ OnHangUp(c)
HomeStep ==
  \/ EpollWait \/ TakeEvent \/ OnEventReturns \/ NestedReturns \/ OnDnsAck \/ OnAccept
  \/ \E c \in Clients : SocketEvent(c)
AppStep ==
  \/ \E c \in Clients :
       \/ \E a \in Names \cup Ips : Connect(c, a)
       \/ Send(c) \/ Close(c)
  \/ DestroyServer
ResolverStep == DnsNext({c \in Clients : ~gone[c]}) /\ UNCHANGED tcpVars
GcStep == \E p \in Proxies : Gc(p)

Next == HomeStep \/ AppStep \/ ResolverStep \/ GcStep \/ Network

Spec == Init /\ [][Next]_vars

----------------------------------------------------------------------------
(* Properties *)

\* Connect may be called again while the name of an earlier call is being resolved: the late
\* answer to that call never decides where the channel connects to (BM_DNS_ACK).
ConnectsToLatest ==
  \A c \in Clients \ Accepted : sock[c] # "none" => target[c] \in {addr[c], None}

\* A channel with pending data is told when it may go on, although every EPOLLOUT and the end
\* of connect turn writability off and callbacks send in between: whenever the looper is about
\* to sleep, EPOLLOUT is asked for (Send, OnEvent, EnableListenWritable).
NoStuckSend == Idle => \A c \in Clients : outbox[c] => want[c]

\* What arrived before the peer closed is received before OnEvent closes the channel.
NothingLost == \A c \in Clients : ~lost[c]

\* gc never deletes the proxy of an event that epoll_wait has returned and that is still to be
\* handled, nor the one whose OnEvent is running.
BatchIsAlive ==
  \A i \in DOMAIN frames :
    /\ \A e \in frames[i].batch : ~gone[e.who]
    /\ frames[i].cur # NoEvent => ~gone[frames[i].cur.who]
=============================================================================
