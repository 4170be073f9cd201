----------------------------- MODULE DnsLooper -----------------------------
(***************************************************************************)
(* DnsLooper (src/core/net/dnslooper.cpp): a looper that resolves names    *)
(* one after the other on a worker thread.                                 *)
(*                                                                         *)
(* The worker only touches static variables; the looper polls them with a  *)
(* timer.  The answer is a synchronous message to the client, sent from    *)
(* within OnTimer: while the looper waits for it, it handles further       *)
(* requests in a nested loop, but no timer (ProcessTimer is not            *)
(* re-entrant).  CancelRequest has no caller and is left out.              *)
(***************************************************************************)
EXTENDS Naturals, Sequences

CONSTANTS
  Clients,   \* handlers that ask
  Names,     \* host names
  None

ASSUME DnsAssumption == None \notin Clients \cup Names

VARIABLES
  dnsBox,         \* the looper's message list
  items,          \* mItems
  threadRunning,  \* mThreadRunning
  mDns,           \* the worker's input
  mIP,            \* its result: the name whose address it is, or None (empty)
  timerCheck,     \* mTimerCheck is set
  ack             \* the answer under way: "sent", "done" (handled), or "none"

dnsVars == <<dnsBox, items, threadRunning, mDns, mIP, timerCheck, ack>>

Request == [who : Clients, dns : Names]
NoAck == [state |-> "none", who |-> None, dns |-> None, ip |-> None]

DnsTypeOK ==
  /\ dnsBox \in Seq(Request)
  /\ items \in Seq(Request)
  /\ threadRunning \in BOOLEAN /\ timerCheck \in BOOLEAN
  /\ mDns \in Names \cup {None} /\ mIP \in Names \cup {None}
  /\ ack \in [state : {"none", "sent", "done"}, who : Clients \cup {None},
              dns : Names \cup {None}, ip : Names \cup {None}]

DnsInit ==
  /\ dnsBox = <<>> /\ items = <<>>
  /\ threadRunning = FALSE /\ timerCheck = FALSE
  /\ mDns = None /\ mIP = None
  /\ ack = NoAck

\* AddRequest, called by a client: a synchronous send, during which the client's looper goes on
\* in a nested loop.
AddRequest(c, n) ==
  /\ dnsBox' = Append(dnsBox, [who |-> c, dns |-> n])
  /\ UNCHANGED <<items, threadRunning, mDns, mIP, timerCheck, ack>>

\* StartDnsThread, unless the worker runs or nothing is left to do.
StartDnsThread(queue, busy) ==
  IF busy \/ queue = <<>> THEN UNCHANGED <<mDns, mIP>> /\ threadRunning' = busy
  ELSE /\ threadRunning' = TRUE
       /\ mDns' = Head(queue).dns /\ mIP' = None

\* BM_ADD_REQUEST, in the outer or the nested loop.
OnAddRequest ==
  /\ dnsBox # <<>>
  /\ dnsBox' = Tail(dnsBox)
  /\ items' = Append(items, Head(dnsBox))
  /\ StartDnsThread(items', threadRunning)
  /\ timerCheck' = (timerCheck \/ ~threadRunning)
  /\ UNCHANGED ack

\* _DnsThreadCB: getaddrinfo succeeds or not.
DnsThread ==
  /\ threadRunning
  /\ threadRunning' = FALSE
  /\ mIP' \in {mDns, None}
  /\ UNCHANGED <<dnsBox, items, mDns, timerCheck, ack>>

\* OnTimer: OnDnsParseDone pops the first request if it is the one that was resolved, and
\* answers it if its client is alive; otherwise the next one is started at once.
OnTimer(alive) ==
  /\ ack.state = "none" /\ timerCheck /\ ~threadRunning
  /\ UNCHANGED dnsBox
  /\ LET hit == items # <<>> /\ Head(items).dns = mDns
         left == IF hit THEN Tail(items) ELSE items
     IN  /\ items' = left
         /\ IF hit /\ Head(items).who \in alive
            THEN /\ ack' = [state |-> "sent", who |-> Head(items).who, dns |-> mDns, ip |-> mIP]
                 /\ timerCheck' = FALSE
                 /\ UNCHANGED <<threadRunning, mDns, mIP>>
            ELSE /\ StartDnsThread(left, FALSE)
                 /\ timerCheck' = (left # <<>>)
                 /\ UNCHANGED ack

AfterAckUnpolled ==
  /\ ack.state = "done"
  /\ ack' = NoAck
  /\ UNCHANGED <<dnsBox, items, threadRunning, mDns, mIP, timerCheck>>

\* The end of OnTimer, after the answer.
AfterAck ==
  /\ ack.state = "done"
  /\ ack' = NoAck
  /\ StartDnsThread(items, threadRunning)
  /\ timerCheck' = (timerCheck \/ (items # <<>> /\ ~threadRunning))
  /\ UNCHANGED <<dnsBox, items>>

DnsNext(alive) == OnAddRequest \/ DnsThread \/ OnTimer(alive) \/ AfterAck

----------------------------------------------------------------------------
(* Properties *)

\* The looper does not forget a request: while one is in mItems the timer that looks for the
\* result is set, or OnTimer is on its way to start the worker again, although requests come in
\* while the worker runs and while an answer is given.
RequestIsPolled == items # <<>> => timerCheck \/ ack.state # "none"
=============================================================================
