--------------------------- MODULE MailboxProofs ---------------------------
(***************************************************************************)
(* MessageLoop implements Mailbox: for any loopers, threads, TLS loopers,  *)
(* owner relation, timers, callbacks and bounds, every step of a thread is *)
(* a step of the mailboxes or leaves them alone.                           *)
(***************************************************************************)
EXTENDS WakeupProofs, SequenceTheorems, WellFoundedInduction

-----------------------------------------------------------------------------
(* The list without the messages that have no id *)

\* A set of natural numbers has a least one.
LEMMA Least ==
  ASSUME NEW S \in SUBSET Nat, S # {}
  PROVE  \E x \in S : \A y \in S : x <= y
  <1> DEFINE R == OpToRel(<, Nat)
  <1>1. IsWellFoundedOn(R, Nat) /\ \A x, y \in Nat : y < x => <<y, x>> \in R
    BY NatLessThanWellFounded DEF OpToRel
  <1> HIDE DEF R
  <1>2. PICK x \in S : \A y \in S : ~(<<y, x>> \in R)
    BY <1>1, WFMin
  <1>3. \A y \in S : x \in Nat /\ y \in Nat /\ ~(y < x)
    BY <1>1, <1>2
  <1> QED BY <1>2, <1>3

\* The recursion of IdsOf.
IdsOfStep(q, f, n) ==
  IF n = 0 THEN <<>> ELSE IF q[n].id = 0 THEN f[n - 1] ELSE Append(f[n - 1], q[n].id)

\* Its equation has a solution.
LEMMA IdsOfDef ==
  ASSUME NEW q, Len(q) \in Nat
  PROVE  \E f : f = [n \in 0..Len(q) |-> IdsOfStep(q, f, n)] /\ IdsOf(q) = f[Len(q)]
  <1> DEFINE P(g, n) == g = [w \in 0..n |-> IdsOfStep(q, g, w)]
             S == {n \in Nat : ~ \E g : P(g, n)}
  <1>1. S = {}
    <2>1. SUFFICES ASSUME S # {} PROVE FALSE
      OBVIOUS
    <2>2. PICK n \in S : \A m \in S : n <= m
      BY <2>1, Least
    <2>3. n \in Nat /\ ~ \E g : P(g, n)
      BY <2>2
    <2>4. CASE n = 0
      <3> DEFINE g == [w \in 0..0 |-> <<>>]
      <3>1. P(g, 0)
        <4>1. \A w \in 0..0 : IdsOfStep(q, g, w) = <<>>
          BY DEF IdsOfStep
        <4> QED BY <4>1
      <3> HIDE DEF P, g
      <3> QED BY <2>3, <2>4, <3>1
    <2>5. CASE n # 0
      <3>0. n - 1 \in Nat /\ ~(n <= n - 1)
        BY <2>3, <2>5
      <3>1. n - 1 \in Nat /\ n - 1 \notin S
        <4> HIDE DEF S
        <4> QED BY <2>2, <3>0
      <3>2. PICK g : P(g, n - 1)
        <4> HIDE DEF P
        <4> QED BY <3>1
      <3> DEFINE h == [w \in 0..n |-> IdsOfStep(q, g, w)]
      <3>3. \A w \in 0..(n - 1) : h[w] = g[w]
        <4>1. \A w \in 0..(n - 1) : w \in 0..n
          BY <2>3
        <4>2. \A w \in 0..(n - 1) : g[w] = IdsOfStep(q, g, w)
          BY <3>2, Zenon
        <4>3. \A w \in 0..n : h[w] = IdsOfStep(q, g, w)
          BY Zenon
        <4> HIDE DEF h
        <4> QED BY <4>1, <4>2, <4>3, Zenon
      <3>4. \A w \in 0..n : w # 0 => w - 1 \in 0..(n - 1)
        BY <2>3
      <3>5. P(h, n)
        <4>1. ASSUME NEW w \in 0..n PROVE IdsOfStep(q, g, w) = IdsOfStep(q, h, w)
          <5>1. CASE w = 0
            BY <5>1, Zenon DEF IdsOfStep
          <5>2. CASE w # 0
            <6>1. h[w - 1] = g[w - 1]
              BY <3>3, <3>4, <5>2
            <6> HIDE DEF h
            <6> QED BY <6>1, Zenon DEF IdsOfStep
          <5> QED BY <5>1, <5>2
        <4>2. h = [w \in 0..n |-> IdsOfStep(q, g, w)]
          OBVIOUS
        <4> HIDE DEF h
        <4> QED BY <4>1, <4>2, Zenon
      <3> HIDE DEF P, h
      <3> QED BY <2>3, <3>5
    <2> QED BY <2>4, <2>5
  <1>2. \E g : g = [n \in 0..Len(q) |-> IdsOfStep(q, g, n)]
    <2>1. \E g : P(g, Len(q))
      <3> HIDE DEF P
      <3> QED BY <1>1
    <2> QED BY <2>1, Zenon
  <1> DEFINE f == CHOOSE g : g = [n \in 0..Len(q) |-> IdsOfStep(q, g, n)]
  <1>3. f = [n \in 0..Len(q) |-> IdsOfStep(q, f, n)]
    BY <1>2, Zenon
  <1>4. IdsOf(q) = f[Len(q)]
    BY Zenon DEF IdsOf, IdsOfStep
  <1> HIDE DEF f
  <1> QED BY <1>3, <1>4

\* f[n]: the ids of the first n messages of q.
Picks(f, q) ==
  /\ f[0] = <<>>
  /\ \A n \in 1..Len(q) : /\ f[n] \in Seq(MsgIds) /\ f[n - 1] \in Seq(MsgIds)
                          /\ f[n] = IF q[n].id = 0 THEN f[n - 1] ELSE Append(f[n - 1], q[n].id)

\* Such an f there is.
LEMMA HasPicks ==
  ASSUME NEW q \in Seq(GoodMsg)
  PROVE  \E f : Picks(f, q) /\ IdsOf(q) = f[Len(q)]
  <1>0. Len(q) \in Nat /\ \A n \in 1..Len(q) : q[n] \in GoodMsg
    OBVIOUS
  <1>1. PICK f : f = [n \in 0..Len(q) |-> IdsOfStep(q, f, n)] /\ IdsOf(q) = f[Len(q)]
    BY <1>0, IdsOfDef
  <1>2. \A n \in 0..Len(q) : f[n] = IdsOfStep(q, f, n)
    BY <1>1, Zenon
  <1>3. f[0] = <<>>
    BY <1>0, <1>2 DEF IdsOfStep
  <1>4. \A n \in 1..Len(q) : /\ n - 1 \in 0..Len(q) /\ n \in 0..Len(q) /\ n # 0 /\ ~(n <= n - 1)
                             /\ f[n] = IF q[n].id = 0 THEN f[n - 1] ELSE Append(f[n - 1], q[n].id)
    <2>1. \A n \in 1..Len(q) : n - 1 \in 0..Len(q) /\ n \in 0..Len(q) /\ n # 0 /\ ~(n <= n - 1)
      BY <1>0
    <2> QED BY <1>2, <2>1 DEF IdsOfStep
  <1>5. \A n \in 1..Len(q) : q[n].id = 0 \/ q[n].id \in MsgIds
    BY <1>0, ConstantsAssumption DEF GoodMsg, Msg, MsgIds
  <1> DEFINE S == {n \in Nat : n \in 0..Len(q) /\ f[n] \notin Seq(MsgIds)}
  <1>6. S = {}
    <2>1. SUFFICES ASSUME S # {} PROVE FALSE
      OBVIOUS
    <2>2. PICK n \in S : \A m \in S : n <= m
      BY <2>1, Least
    <2>3. n \in 1..Len(q)
      <3>1. n \in Nat /\ n \in 0..Len(q) /\ f[n] \notin Seq(MsgIds)
        BY <2>2
      <3>2. f[0] \in Seq(MsgIds)
        BY <1>3
      <3> QED BY <1>0, <3>1, <3>2
    <2>4. f[n - 1] \in Seq(MsgIds)
      BY <1>4, <2>2, <2>3
    <2>5. f[n] \in Seq(MsgIds)
      <3>1. f[n] = IF q[n].id = 0 THEN f[n - 1] ELSE Append(f[n - 1], q[n].id)
        BY <1>4, <2>3
      <3>2. q[n].id \in MsgIds => Append(f[n - 1], q[n].id) \in Seq(MsgIds)
        BY <2>4, AppendProperties
      <3> QED BY <1>5, <2>3, <2>4, <3>1, <3>2
    <2> QED BY <2>2, <2>5
  <1>7. \A n \in 0..Len(q) : f[n] \in Seq(MsgIds)
    BY <1>0, <1>6
  <1>8. Picks(f, q)
    BY <1>3, <1>4, <1>7 DEF Picks
  <1> QED BY <1>1, <1>8

\* The ids of the first messages depend on these only.
LEMMA SamePicks ==
  ASSUME NEW q \in Seq(GoodMsg), NEW r \in Seq(GoodMsg), NEW f, NEW g, Picks(f, q), Picks(g, r),
         Len(q) <= Len(r), \A j \in 1..Len(q) : q[j] = r[j]
  PROVE  f[Len(q)] = g[Len(q)]
  <1>0. Len(q) \in Nat /\ Len(r) \in Nat
    OBVIOUS
  <1> DEFINE S == {n \in Nat : n \in 0..Len(q) /\ f[n] # g[n]}
  <1>1. S = {}
    <2>1. SUFFICES ASSUME S # {} PROVE FALSE
      OBVIOUS
    <2>2. PICK n \in S : \A m \in S : n <= m
      BY <2>1, Least
    <2>3. n # 0
      BY <2>2 DEF Picks
    <2>4. n \in 1..Len(q) /\ n \in 1..Len(r) /\ n - 1 \in 0..Len(q) /\ n - 1 \in Nat /\ ~(n <= n - 1)
      BY <1>0, <2>2, <2>3
    <2>5. f[n - 1] = g[n - 1]
      BY <2>2, <2>4
    <2>6. f[n] = g[n]
      BY <2>4, <2>5 DEF Picks
    <2> QED BY <2>2, <2>6
  <1> QED BY <1>0, <1>1

\* A message is put at the end.
LEMMA IdsOfPut ==
  ASSUME NEW q \in Seq(GoodMsg), NEW m \in GoodMsg
  PROVE  /\ IdsOf(q) \in Seq(MsgIds)
         /\ IdsOf(Put(q, m)) = IF m.id = 0 THEN IdsOf(q) ELSE Append(IdsOf(q), m.id)
  <1> DEFINE r == Append(q, m)
  <1>1. /\ r \in Seq(GoodMsg) /\ Len(r) = Len(q) + 1 /\ Len(q) \in Nat /\ r[Len(q) + 1] = m
        /\ \A j \in 1..Len(q) : q[j] = r[j]
    OBVIOUS
  <1> HIDE DEF r
  <1>2. PICK f : Picks(f, q) /\ IdsOf(q) = f[Len(q)]
    BY HasPicks
  <1>3. PICK g : Picks(g, r) /\ IdsOf(r) = g[Len(r)]
    BY <1>1, HasPicks
  <1>4. f[Len(q)] = g[Len(q)]
    BY <1>1, <1>2, <1>3, SamePicks
  <1>5. /\ g[Len(q) + 1] = IF m.id = 0 THEN g[Len(q)] ELSE Append(g[Len(q)], m.id)
        /\ g[Len(q)] \in Seq(MsgIds)
    <2>1. Len(q) + 1 \in 1..Len(r) /\ (Len(q) + 1) - 1 = Len(q)
      BY <1>1
    <2> QED BY <1>1, <1>3, <2>1 DEF Picks
  <1> QED BY <1>1, <1>2, <1>3, <1>4, <1>5 DEF r, Put

\* What is appended does not change the head.
LEMMA TailOfAppend ==
  ASSUME NEW T, NEW s \in Seq(T), NEW e \in T, s # <<>>
  PROVE  Append(s, e) # <<>> /\ Head(Append(s, e)) = Head(s) /\ Tail(Append(s, e)) = Append(Tail(s), e)
  <1> DEFINE w == Append(s, e)
             t == Tail(s)
             u == Tail(w)
             v == Append(t, e)
  <1>0. PICK n : n = Len(s) /\ n \in Nat /\ n # 0
    OBVIOUS
  <1>1. t \in Seq(T) /\ Len(t) = n - 1 /\ \A j \in 1..(n - 1) : t[j] = s[j + 1]
    BY <1>0
  <1>2. /\ w \in Seq(T) /\ Len(w) = n + 1 /\ w[n + 1] = e /\ \A j \in 1..n : w[j] = s[j]
    BY <1>0, AppendProperties
  <1>3. w # <<>> /\ Head(w) = Head(s)
    BY <1>0, <1>2
  <1> HIDE DEF w, t
  <1>4. u \in Seq(T) /\ Len(u) = n /\ \A j \in 1..n : u[j] = w[j + 1]
    BY <1>0, <1>2, <1>3
  <1>5. v \in Seq(T) /\ Len(v) = n /\ v[n] = e /\ \A j \in 1..(n - 1) : v[j] = t[j]
    <2>1. (n - 1) + 1 = n
      BY <1>0
    <2>2. v \in Seq(T) /\ Len(v) = Len(t) + 1 /\ v[Len(t) + 1] = e /\ \A j \in 1..Len(t) : v[j] = t[j]
      BY <1>1, AppendProperties
    <2> HIDE DEF v
    <2> QED BY <1>1, <2>1, <2>2
  <1> HIDE DEF u, v
  <1>6. \A j \in 1..n : j = n \/ (j \in 1..(n - 1) /\ j + 1 \in 1..n)
    BY <1>0
  <1>7. n \in 1..n
    BY <1>0
  <1>8. ASSUME NEW j \in 1..n PROVE u[j] = v[j]
    <2>1. CASE j = n
      BY <1>2, <1>4, <1>5, <1>7, <2>1
    <2>2. CASE j # n
      <3>1. j \in 1..(n - 1) /\ j + 1 \in 1..n
        BY <1>6, <2>2
      <3>2. v[j] = s[j + 1]
        BY <1>1, <1>5, <3>1
      <3>3. u[j] = s[j + 1]
        BY <1>2, <1>4, <3>1
      <3> QED BY <3>2, <3>3
    <2> QED BY <2>1, <2>2
  <1>9. u = v
    BY <1>4, <1>5, <1>8, SeqEqual
  <1> QED BY <1>3, <1>9 DEF u, v, w, t

\* The first message is taken.
LEMMA IdsOfTail ==
  ASSUME NEW q \in Seq(GoodMsg), q # <<>>
  PROVE  IF Head(q).id = 0 THEN IdsOf(Tail(q)) = IdsOf(q)
         ELSE IdsOf(q) # <<>> /\ Head(IdsOf(q)) = Head(q).id /\ IdsOf(Tail(q)) = Tail(IdsOf(q))
  <1> DEFINE r == Tail(q)
  <1>1. /\ r \in Seq(GoodMsg) /\ Len(q) \in Nat \ {0} /\ Len(r) = Len(q) - 1 /\ q[1] = Head(q) /\ q[1] \in GoodMsg
        /\ \A j \in 1..Len(r) : r[j] = q[j + 1] /\ r[j] \in GoodMsg
    OBVIOUS
  <1> HIDE DEF r
  <1>2. PICK f : Picks(f, q) /\ IdsOf(q) = f[Len(q)]
    BY HasPicks
  <1>3. PICK g : Picks(g, r) /\ IdsOf(r) = g[Len(r)]
    BY <1>1, HasPicks
  <1>4. \A m \in GoodMsg : m.id = 0 \/ m.id \in MsgIds
    BY ConstantsAssumption DEF GoodMsg, Msg, MsgIds
  <1> DEFINE Fits(n) == IF q[1].id = 0 THEN f[n + 1] = g[n]
                        ELSE f[n + 1] # <<>> /\ Head(f[n + 1]) = q[1].id /\ g[n] = Tail(f[n + 1])
             S == {n \in Nat : n \in 0..Len(r) /\ ~Fits(n)}
  <1>5. Fits(0)
    <2>1. 1 \in 1..Len(q) /\ 1 - 1 = 0 /\ 0 + 1 = 1
      BY <1>1
    <2>2. f[1] = IF q[1].id = 0 THEN <<>> ELSE Append(<<>>, q[1].id)
      BY <1>2, <2>1 DEF Picks
    <2>3. g[0] = <<>>
      BY <1>3 DEF Picks
    <2>4. q[1].id # 0 => /\ Append(<<>>, q[1].id) # <<>> /\ Head(Append(<<>>, q[1].id)) = q[1].id
                         /\ Tail(Append(<<>>, q[1].id)) = <<>>
      BY <1>1, <1>4
    <2> QED BY <2>1, <2>2, <2>3, <2>4
  <1>6. ASSUME NEW n \in 1..Len(r), Fits(n - 1) PROVE Fits(n)
    <2>1. n + 1 \in 1..Len(q) /\ (n + 1) - 1 = n /\ (n - 1) + 1 = n /\ n \in 1..Len(q)
      BY <1>1
    <2>2. r[n] = q[n + 1] /\ r[n] \in GoodMsg
      BY <1>1
    <2>3. /\ f[n + 1] = IF r[n].id = 0 THEN f[n] ELSE Append(f[n], r[n].id)
          /\ f[n] \in Seq(MsgIds)
      BY <1>2, <2>1, <2>2 DEF Picks
    <2>4. g[n] = IF r[n].id = 0 THEN g[n - 1] ELSE Append(g[n - 1], r[n].id)
      BY <1>3 DEF Picks
    <2>5. CASE r[n].id = 0
      BY <1>6, <2>1, <2>3, <2>4, <2>5
    <2>6. CASE r[n].id # 0
      <3>1. r[n].id \in MsgIds
        BY <1>4, <2>2, <2>6
      <3>2. f[n] # <<>> => /\ Append(f[n], r[n].id) # <<>> /\ Head(Append(f[n], r[n].id)) = Head(f[n])
                           /\ Tail(Append(f[n], r[n].id)) = Append(Tail(f[n]), r[n].id)
        BY <2>3, <3>1, TailOfAppend
      <3> QED BY <1>6, <2>1, <2>3, <2>4, <2>6, <3>2
    <2> QED BY <2>5, <2>6
  <1> HIDE DEF Fits
  <1>7. S = {}
    <2>1. SUFFICES ASSUME S # {} PROVE FALSE
      OBVIOUS
    <2>2. PICK n \in S : \A m \in S : n <= m
      BY <2>1, Least
    <2>3. n # 0
      BY <1>5, <2>2
    <2>4. n \in 1..Len(r) /\ n - 1 \in 0..Len(r) /\ n - 1 \in Nat /\ ~(n <= n - 1)
      BY <1>1, <2>2, <2>3
    <2>5. Fits(n - 1)
      BY <2>2, <2>4
    <2> QED BY <1>6, <2>2, <2>4, <2>5
  <1>8. Fits(Len(r)) /\ Len(r) + 1 = Len(q)
    BY <1>1, <1>7
  <1> QED BY <1>1, <1>2, <1>3, <1>8 DEF Fits, r

-----------------------------------------------------------------------------
(* The steps of the mailboxes, in the variables of the message loop *)

\* The mailboxes make a step, or none.
MailStep == Mail!Next \/ UNCHANGED Mail!vars

\* Their parts stay the same.
SameBoxes == \A l \in Loopers : BoxOf(l)' = BoxOf(l)
SameOpen  == \A l \in Loopers : life'[l] = "run" <=> life[l] = "run"

\* As functions.
LEMMA SameFunctions ==
  /\ SameBoxes => [l \in Loopers |-> BoxOf(l)]' = [l \in Loopers |-> BoxOf(l)]
  /\ SameOpen => [l \in Loopers |-> life[l] = "run"]' = [l \in Loopers |-> life[l] = "run"]
  <1>1. ASSUME SameBoxes PROVE [l \in Loopers |-> BoxOf(l)]' = [l \in Loopers |-> BoxOf(l)]
    BY <1>1, Zenon DEF SameBoxes
  <1>2. ASSUME SameOpen PROVE [l \in Loopers |-> life[l] = "run"]' = [l \in Loopers |-> life[l] = "run"]
    <2>1. \A l \in Loopers : (life'[l] = "run") = (life[l] = "run")
      BY <1>2, Zenon DEF SameOpen
    <2> QED BY <2>1, Zenon
  <1> QED BY <1>1, <1>2

\* Nothing of theirs changes.
LEMMA AsStutter ==
  ASSUME SameBoxes, SameOpen, fate' = fate, SyncSends' = SyncSends, ack' = ack
  PROVE  MailStep
  <1>1. UNCHANGED Mail!vars
    BY SameFunctions, Zenon DEF Mail!vars
  <1> QED BY <1>1 DEF MailStep

\* A call begins.
LEMMA AsStart ==
  ASSUME NEW i \in MsgIds, fate[i] = "new", fate' = [fate EXCEPT ![i] = "calling"],
         SyncSends' \in {SyncSends, SyncSends \cup {i}}, SameBoxes, SameOpen, ack' = ack
  PROVE  MailStep
  <1>1. Mail!Start(i)
    BY SameFunctions DEF Mail!Start
  <1> QED BY <1>1 DEF MailStep, Mail!Next

\* A message is refused.
LEMMA AsRefuse ==
  ASSUME NEW i \in MsgIds, NEW d \in Loopers, fate[i] = "calling", life[d] # "run",
         fate' = [fate EXCEPT ![i] = "refused"], SyncSends' = SyncSends \ {i},
         SameBoxes, SameOpen, ack' = ack
  PROVE  MailStep
  <1>1. ~[l \in Loopers |-> life[l] = "run"][d]
    BY Zenon
  <1>2. Mail!Refuse(i, d)
    BY <1>1, SameFunctions, Zenon DEF Mail!Refuse
  <1> QED BY <1>2 DEF MailStep, Mail!Next

\* A message is put in a box.
LEMMA AsAccept ==
  ASSUME NEW i \in MsgIds, NEW d \in Loopers, fate[i] = "calling", life[d] = "run",
         fate' = [fate EXCEPT ![i] = "queued"], SyncSends' = SyncSends, SameOpen, ack' = ack,
         \A l \in Loopers : BoxOf(l)' = IF l = d THEN Append(BoxOf(l), i) ELSE BoxOf(l)
  PROVE  MailStep
  <1>1. [l \in Loopers |-> life[l] = "run"][d]
    BY Zenon
  <1> DEFINE box == [l \in Loopers |-> BoxOf(l)]
  <1>2. box' = [box EXCEPT ![d] = Append(box[d], i)]
    <2>1. \A l \in Loopers : box[l] = BoxOf(l)
      BY Zenon
    <2>2. box' = [l \in Loopers |-> BoxOf(l)']
      BY Zenon
    <2>3. box' = [l \in Loopers |-> IF l = d THEN Append(box[d], i) ELSE box[l]]
      BY <2>1, <2>2, Zenon
    <2> QED BY <2>3
  <1>3. Mail!Accept(i, d)
    BY <1>1, <1>2, SameFunctions, Zenon DEF Mail!Accept
  <1> QED BY <1>3 DEF MailStep, Mail!Next

\* The first message of a box is taken.
LEMMA AsTake ==
  ASSUME NEW d \in Loopers, BoxOf(d) # <<>>, life[d] = "run", fate[Head(BoxOf(d))] = "queued",
         fate' = [fate EXCEPT ![Head(BoxOf(d))] = "taken"], SyncSends' = SyncSends, SameOpen, ack' = ack,
         \A l \in Loopers : BoxOf(l)' = IF l = d THEN Tail(BoxOf(l)) ELSE BoxOf(l)
  PROVE  MailStep
  <1>1. [l \in Loopers |-> life[l] = "run"][d]
    BY Zenon
  <1> DEFINE box == [l \in Loopers |-> BoxOf(l)]
  <1>2. box[d] = BoxOf(d)
    BY Zenon
  <1>3. box' = [box EXCEPT ![d] = Tail(box[d])]
    <2>1. \A l \in Loopers : box[l] = BoxOf(l)
      BY Zenon
    <2>2. box' = [l \in Loopers |-> BoxOf(l)']
      BY Zenon
    <2>3. box' = [l \in Loopers |-> IF l = d THEN Tail(box[d]) ELSE box[l]]
      BY <2>1, <2>2, Zenon
    <2> QED BY <2>3
  <1>4. Mail!Take(d)
    BY <1>1, <1>2, <1>3, SameFunctions, Zenon DEF Mail!Take
  <1> QED BY <1>4 DEF MailStep, Mail!Next

\* The answer of a message is written.
LEMMA AsAnswer ==
  ASSUME NEW i \in MsgIds, fate[i] = "taken", i \in SyncSends, ack' = ack \cup {i},
         fate' = fate, SyncSends' = SyncSends, SameBoxes, SameOpen
  PROVE  MailStep
  <1>1. Mail!Answer(i)
    BY SameFunctions DEF Mail!Answer
  <1> QED BY <1>1 DEF MailStep, Mail!Next

\* A message was handled.
LEMMA AsFinish ==
  ASSUME NEW i \in MsgIds, fate[i] = "taken", i \in SyncSends => i \in ack,
         fate' = [fate EXCEPT ![i] = "handled"], SyncSends' = SyncSends, SameBoxes, SameOpen, ack' = ack
  PROVE  MailStep
  <1>1. Mail!Finish(i)
    BY SameFunctions DEF Mail!Finish
  <1> QED BY <1>1 DEF MailStep, Mail!Next

\* A caller gets control back.
LEMMA AsGetBack ==
  ASSUME NEW i \in MsgIds, fate[i] = "handled", i \in SyncSends, SyncSends' = SyncSends \ {i},
         fate' = fate, SameBoxes, SameOpen, ack' = ack
  PROVE  MailStep
  <1>1. Mail!GetBack(i)
    BY SameFunctions DEF Mail!GetBack
  <1> QED BY <1>1 DEF MailStep, Mail!Next

\* A looper stops.
LEMMA AsClose ==
  ASSUME NEW d \in Loopers, life[d] = "run", BoxOf(d) = <<>>, life' = [life EXCEPT ![d] = "stopped"],
         life \in [Loopers -> {"run", "stopped", "exited"}],
         fate' = fate, SyncSends' = SyncSends, SameBoxes, ack' = ack
  PROVE  MailStep
  <1>1. [l \in Loopers |-> life[l] = "run"][d]
    BY Zenon
  <1>2. [l \in Loopers |-> BoxOf(l)][d] = <<>>
    BY Zenon
  <1> DEFINE open == [l \in Loopers |-> life[l] = "run"]
  <1>3. open' = [open EXCEPT ![d] = FALSE]
    <2>1. \A l \in Loopers : life'[l] = "run" <=> (IF l = d THEN FALSE ELSE open[l])
      <3>1. \A l \in Loopers : life'[l] = IF l = d THEN "stopped" ELSE life[l]
        OBVIOUS
      <3>2. \A l \in Loopers : open[l] <=> life[l] = "run"
        BY Zenon
      <3> QED BY <3>1, <3>2
    <2>2. \A l \in Loopers : (life'[l] = "run") = (IF l = d THEN FALSE ELSE open[l])
      BY <2>1, Zenon
    <2>3. open' = [l \in Loopers |-> life'[l] = "run"]
      BY Zenon
    <2>4. open' = [l \in Loopers |-> IF l = d THEN FALSE ELSE open[l]]
      BY <2>2, <2>3, Zenon
    <2> QED BY <2>4, Zenon
  <1>4. Mail!Close(d)
    BY <1>1, <1>2, <1>3, SameFunctions, Zenon DEF Mail!Close
  <1> QED BY <1>4 DEF MailStep, Mail!Next

-----------------------------------------------------------------------------
(* What happens to the boxes *)

\* A list that stays the same, that gets a message, that gives away its first one.
LEMMA Boxes ==
  ASSUME LInv
  PROVE  /\ queue' = queue => SameBoxes
         /\ \A d \in Loopers, m \in GoodMsg :
              queue' = [queue EXCEPT ![d] = Put(queue[d], m)] =>
                \A l \in Loopers : BoxOf(l)' = IF l = d /\ m.id # 0 THEN Append(BoxOf(l), m.id) ELSE BoxOf(l)
         /\ \A d \in Loopers : queue[d] # <<>> /\ queue' = [queue EXCEPT ![d] = Tail(queue[d])] =>
              /\ Head(queue[d]).id = 0 => SameBoxes
              /\ Head(queue[d]).id # 0 =>
                   /\ BoxOf(d) # <<>> /\ Head(BoxOf(d)) = Head(queue[d]).id
                   /\ \A l \in Loopers : BoxOf(l)' = IF l = d THEN Tail(BoxOf(l)) ELSE BoxOf(l)
  <1>0. queue \in [Loopers -> Seq(GoodMsg)]
    BY DEF LInv, Shape
  <1>1. \A l : BoxOf(l) = IdsOf(queue[l]) /\ BoxOf(l)' = IdsOf(queue'[l])
    <2>1. \A q : IdsOf(q)' = IdsOf(q)
      BY Zenon DEF IdsOf
    <2> QED BY <2>1, Zenon DEF BoxOf, IdsOf
  <1>2. queue' = queue => SameBoxes
    BY <1>1 DEF SameBoxes
  <1>3. ASSUME NEW d \in Loopers, NEW m \in GoodMsg, queue' = [queue EXCEPT ![d] = Put(queue[d], m)],
               NEW l \in Loopers
        PROVE  BoxOf(l)' = IF l = d /\ m.id # 0 THEN Append(BoxOf(l), m.id) ELSE BoxOf(l)
    <2>1. queue'[l] = IF l = d THEN Put(queue[d], m) ELSE queue[l]
      BY <1>0, <1>3
    <2>2. IdsOf(Put(queue[d], m)) = IF m.id = 0 THEN IdsOf(queue[d]) ELSE Append(IdsOf(queue[d]), m.id)
      BY <1>0, IdsOfPut
    <2> QED BY <1>1, <2>1, <2>2
  <1>4. ASSUME NEW d \in Loopers, queue[d] # <<>>, queue' = [queue EXCEPT ![d] = Tail(queue[d])]
        PROVE  /\ Head(queue[d]).id = 0 => SameBoxes
               /\ Head(queue[d]).id # 0 =>
                   /\ BoxOf(d) # <<>> /\ Head(BoxOf(d)) = Head(queue[d]).id
                   /\ \A l \in Loopers : BoxOf(l)' = IF l = d THEN Tail(BoxOf(l)) ELSE BoxOf(l)
    <2>1. \A l \in Loopers : queue'[l] = IF l = d THEN Tail(queue[d]) ELSE queue[l]
      BY <1>0, <1>4
    <2>2. IF Head(queue[d]).id = 0 THEN IdsOf(Tail(queue[d])) = IdsOf(queue[d])
          ELSE /\ IdsOf(queue[d]) # <<>> /\ Head(IdsOf(queue[d])) = Head(queue[d]).id
               /\ IdsOf(Tail(queue[d])) = Tail(IdsOf(queue[d]))
      BY <1>0, <1>4, IdsOfTail
    <2>3. BoxOf(d) = IdsOf(queue[d])
      BY <1>1
    <2>4. \A l \in Loopers : BoxOf(l)' = IF l = d THEN IdsOf(Tail(queue[d])) ELSE BoxOf(l)
      BY <1>1, <2>1
    <2> QED BY <2>2, <2>3, <2>4 DEF SameBoxes
  <1> QED BY <1>2, <1>3, <1>4

\* An empty list.
LEMMA EmptyBox == ASSUME NEW l \in Loopers, queue[l] = <<>> PROVE BoxOf(l) = <<>>
  <1>1. <<>> \in Seq(GoodMsg) /\ Len(<<>>) = 0
    OBVIOUS
  <1>2. PICK f : Picks(f, <<>>) /\ IdsOf(<<>>) = f[Len(<<>>)]
    BY <1>1, HasPicks
  <1> QED BY <1>1, <1>2 DEF Picks, BoxOf

\* OnQuit and Wakeup put messages without an id.
LEMMA QuitBoxes ==
  ASSUME LInv, NEW l \in Loopers, OnQuit(l) \/ Wakeup(l)
  PROVE  SameBoxes
  <1>0. queue \in [Loopers -> Seq(GoodMsg)]
    BY DEF LInv, Shape
  <1>1. \A kind \in {"null", "destroy"} : Posted(kind, 0) \in GoodMsg /\ Posted(kind, 0).id = 0
    BY ConstantsAssumption DEF Posted, GoodMsg, Msg
  <1>2. CASE queue' = queue
    BY <1>2, Boxes
  <1>3. ASSUME NEW d \in Loopers, queue' = [queue EXCEPT ![d] = Put(queue[d], Posted("null", 0))]
        PROVE  SameBoxes
    BY <1>1, <1>3, Boxes DEF SameBoxes
  <1>4. CASE queue' = [queue EXCEPT ![l] = Put(Put(queue[l], Posted("destroy", 0)), Posted("null", 0))]
    <2> DEFINE m == Posted("destroy", 0)
               n == Posted("null", 0)
               q == Put(queue[l], m)
    <2>1. m \in GoodMsg /\ n \in GoodMsg /\ m.id = 0 /\ n.id = 0
      BY <1>1
    <2> HIDE DEF m, n
    <2>2. IdsOf(q) = IdsOf(queue[l])
      BY <1>0, <2>1, IdsOfPut
    <2>3. q \in Seq(GoodMsg)
      BY <1>0, <2>1 DEF Put
    <2> HIDE DEF q
    <2>4. IdsOf(Put(q, n)) = IdsOf(q)
      BY <2>1, <2>3, IdsOfPut
    <2>5. \A d \in Loopers : queue'[d] = IF d = l THEN Put(q, n) ELSE queue[d]
      BY <1>0, <1>4 DEF q, m, n
    <2>6. \A d : BoxOf(d) = IdsOf(queue[d]) /\ BoxOf(d)' = IdsOf(queue'[d])
      <3>1. \A p : IdsOf(p)' = IdsOf(p)
        BY Zenon DEF IdsOf
      <3> QED BY <3>1, Zenon DEF BoxOf, IdsOf
    <2> QED BY <2>2, <2>4, <2>5, <2>6 DEF SameBoxes
  <1>5. CASE OnQuit(l)
    <2>1. queue' = queue \/ queue' = [queue EXCEPT ![l] = Put(Put(queue[l], Posted("destroy", 0)), Posted("null", 0))]
      BY <1>5 DEF OnQuit
    <2> QED BY <1>2, <1>4, <2>1
  <1>6. CASE Wakeup(l)
    <2>1. l \in Actors /\ top[l] > 0 /\ Top(l).pc = "wake"
      BY <1>6 DEF Wakeup, At, Actors
    <2>2. Top(l).msg.from \in Loopers \cup TlsLoopers
      BY <2>1, TopType DEF GoodFrame, FrameOK, GoodMsg, Msg
    <2>3. queue' = queue \/ \E d \in Loopers : queue' = [queue EXCEPT ![d] = Put(queue[d], Posted("null", 0))]
      BY <1>6, <2>2 DEF Wakeup, WithNull
    <2> QED BY <1>2, <1>3, <2>3
  <1> QED BY <1>5, <1>6

-----------------------------------------------------------------------------
(* The inductive invariant: what the fate of a message says of where it is *)

\* Message i is the j-th of a list, and is run by the k-th frame of a looper.
Lies(l, j, i) == j \in 1..Len(queue[l]) /\ queue[l][j].id = i
Runs(l, k, i) == k \in 1..top[l] /\ frame[l][k].msg.id = i
Woke(l, k)    == frame[l][k].pc \in {"wake", "wakering"}

\* A message that is not in a list yet, or that was handled.
StartFits(i) ==
  /\ i >= nextId => fate[i] = "new"
  /\ \A a \in Actors, k \in 1..MaxDepth : Pushes(a, k, i) => fate[i] = "calling"
  /\ i \in done => fate[i] = "handled"

\* A message lies in one place, and its sender waits for it.
ListFits(i) ==
  /\ \A l \in Loopers, j \in Nat : Lies(l, j, i) =>
       fate[i] = "queued" /\ (queue[l][j].from # None => i \in SyncSends)
  /\ \A l, d \in Loopers : \A j, k \in Nat : Lies(l, j, i) /\ Lies(d, k, i) => l = d /\ j = k

\* One handler runs it, and its sender waits for it until done is set.
RunFits(i) ==
  /\ \A l \in Loopers, k \in 1..MaxDepth : Runs(l, k, i) =>
       /\ Woke(l, k) => fate[i] = "handled"
       /\ ~Woke(l, k) => fate[i] = "taken" /\ (frame[l][k].msg.from # None => i \in SyncSends)
       /\ frame[l][k].pc = "reply" => i \in ack
  /\ \A l, d \in Loopers : \A j, k \in 1..MaxDepth : Runs(l, j, i) /\ Runs(d, k, i) => l = d /\ j = k

FateFits(i) == StartFits(i) /\ ListFits(i) /\ RunFits(i)
FatesFit == \A i \in MsgIds : FateFits(i)

\* What a step that is not about message i leaves as it is.
KeepsStart(i) ==
  /\ i >= nextId' => i >= nextId
  /\ \A a \in Actors, k \in 1..MaxDepth : Pushes(a, k, i)' => Pushes(a, k, i)
  /\ i \in done' => i \in done
KeepsList(i) ==
  \A l \in Loopers : \E h \in Nat : \A j \in Nat :
    Lies(l, j, i)' => Lies(l, j + h, i) /\ queue'[l][j] = queue[l][j + h]
KeepsRuns(i) ==
  \A l \in Loopers, k \in 1..MaxDepth : Runs(l, k, i)' =>
    /\ Runs(l, k, i) /\ frame'[l][k].msg = frame[l][k].msg
    /\ Woke(l, k)' <=> Woke(l, k)
    /\ frame'[l][k].pc = "reply" => frame[l][k].pc = "reply"
KeepsSends(i) == i \in SyncSends /\ fate[i] \in {"queued", "taken"} => i \in SyncSends'

\* Then its fate fits as before: outside the lists and the handlers,
LEMMA KeptStart ==
  ASSUME NEW i \in MsgIds, StartFits(i), fate'[i] = fate[i], KeepsStart(i)
  PROVE  StartFits(i)'
  BY DEF StartFits, KeepsStart

\* in the lists,
LEMMA KeptList ==
  ASSUME NEW i \in MsgIds, ListFits(i), fate'[i] = fate[i], KeepsList(i), KeepsSends(i)
  PROVE  ListFits(i)'
  <1>1. ASSUME NEW l \in Loopers, NEW j \in Nat, Lies(l, j, i)'
        PROVE  fate'[i] = "queued" /\ (queue'[l][j].from # None => i \in SyncSends')
    <2>1. PICK h \in Nat : Lies(l, j + h, i) /\ queue'[l][j] = queue[l][j + h]
      BY <1>1 DEF KeepsList
    <2>2. j + h \in Nat
      OBVIOUS
    <2> QED BY <2>1, <2>2 DEF ListFits, KeepsSends
  <1>2. ASSUME NEW l \in Loopers, NEW d \in Loopers, NEW j \in Nat, NEW k \in Nat, Lies(l, j, i)', Lies(d, k, i)'
        PROVE  l = d /\ j = k
    <2>1. PICK h \in Nat : \A n \in Nat : Lies(l, n, i)' => Lies(l, n + h, i)
      BY DEF KeepsList
    <2>2. PICK g \in Nat : Lies(d, k + g, i)
      BY <1>2 DEF KeepsList
    <2>3. j + h \in Nat /\ k + g \in Nat /\ k + h \in Nat
      OBVIOUS
    <2>4. l = d
      BY <1>2, <2>1, <2>2, <2>3 DEF ListFits
    <2>5. Lies(l, j + h, i) /\ Lies(l, k + h, i)
      BY <1>2, <2>1, <2>4
    <2>6. j + h = k + h
      BY <2>3, <2>5 DEF ListFits
    <2>7. j = k
      BY <2>6
    <2> QED BY <2>4, <2>7
  <1> QED BY <1>1, <1>2 DEF ListFits

\* in the handlers,
LEMMA KeptRuns ==
  ASSUME NEW i \in MsgIds, RunFits(i), fate'[i] = fate[i], KeepsRuns(i), KeepsSends(i), ack \subseteq ack'
  PROVE  RunFits(i)'
  <1>1. ASSUME NEW l \in Loopers, NEW k \in 1..MaxDepth, Runs(l, k, i)'
        PROVE  /\ Woke(l, k)' => fate'[i] = "handled"
               /\ ~Woke(l, k)' => fate'[i] = "taken" /\ (frame'[l][k].msg.from # None => i \in SyncSends')
               /\ frame'[l][k].pc = "reply" => i \in ack'
    BY <1>1 DEF RunFits, KeepsRuns, KeepsSends
  <1>2. ASSUME NEW l \in Loopers, NEW d \in Loopers, NEW j \in 1..MaxDepth, NEW k \in 1..MaxDepth,
               Runs(l, j, i)', Runs(d, k, i)'
        PROVE  l = d /\ j = k
    BY <1>2 DEF RunFits, KeepsRuns
  <1> QED BY <1>1, <1>2 DEF RunFits

\* and everywhere.
LEMMA KeptFate ==
  ASSUME NEW i \in MsgIds, FateFits(i), fate'[i] = fate[i], KeepsStart(i), KeepsList(i), KeepsRuns(i),
         KeepsSends(i), ack \subseteq ack'
  PROVE  FateFits(i)'
  BY KeptStart, KeptList, KeptRuns DEF FateFits

\* Lists that stay the same, that get another message, that give away their first one.
LEMMA ListsKept ==
  ASSUME LInv, NEW i \in MsgIds
  PROVE  /\ queue' = queue => KeepsList(i)
         /\ \A d \in Loopers, m \in GoodMsg :
              m.id # i /\ queue' = [queue EXCEPT ![d] = Put(queue[d], m)] => KeepsList(i)
         /\ \A d \in Loopers : queue[d] # <<>> /\ queue' = [queue EXCEPT ![d] = Tail(queue[d])] => KeepsList(i)
         /\ \A l \in Loopers : OnQuit(l) \/ Wakeup(l) => KeepsList(i)
  <1>0. queue \in [Loopers -> Seq(GoodMsg)] /\ i # 0
    BY ConstantsAssumption DEF LInv, Shape, MsgIds
  <1>1. ASSUME \A l \in Loopers : \A j \in Nat : Lies(l, j, i)' => Lies(l, j, i) /\ queue'[l][j] = queue[l][j]
        PROVE  KeepsList(i)
    <2>1. \A j \in Nat : j + 0 = j
      OBVIOUS
    <2> QED BY <1>1, <2>1 DEF KeepsList
  <1>2. queue' = queue => KeepsList(i)
    BY <1>1 DEF Lies
  <1>3. ASSUME NEW d \in Loopers, NEW m, m.id # i, queue' = [queue EXCEPT ![d] = Put(queue[d], m)]
        PROVE  KeepsList(i)
    <2>1. \A l \in Loopers : queue'[l] = IF l = d THEN Append(queue[d], m) ELSE queue[l]
      BY <1>0, <1>3 DEF Put
    <2>2. \A j \in 1..Len(Append(queue[d], m)) :
             \/ Append(queue[d], m)[j] = m
             \/ j \in 1..Len(queue[d]) /\ Append(queue[d], m)[j] = queue[d][j]
      BY <1>0
    <2>3. ASSUME NEW l \in Loopers, NEW j \in Nat, Lies(l, j, i)'
          PROVE  Lies(l, j, i) /\ queue'[l][j] = queue[l][j]
      <3>1. j \in 1..Len(queue'[l]) /\ queue'[l][j].id = i
        BY <2>3 DEF Lies
      <3>2. CASE l = d
        <4>1. queue'[l] = Append(queue[d], m)
          BY <2>1, <3>2
        <4> QED BY <1>3, <2>2, <3>1, <3>2, <4>1 DEF Lies
      <3>3. CASE l # d
        BY <2>1, <3>1, <3>3 DEF Lies
      <3> QED BY <3>2, <3>3
    <2> QED BY <1>1, <2>3
  <1>4. ASSUME NEW d \in Loopers, queue[d] # <<>>, queue' = [queue EXCEPT ![d] = Tail(queue[d])]
        PROVE  KeepsList(i)
    <2>1. \A l \in Loopers : queue'[l] = IF l = d THEN Tail(queue[d]) ELSE queue[l]
      BY <1>0, <1>4
    <2>2. \A j \in 1..Len(Tail(queue[d])) : j + 1 \in 1..Len(queue[d]) /\ Tail(queue[d])[j] = queue[d][j + 1]
      BY <1>0, <1>4
    <2>3. ASSUME NEW l \in Loopers
          PROVE  \E h \in Nat : \A j \in Nat : Lies(l, j, i)' => Lies(l, j + h, i) /\ queue'[l][j] = queue[l][j + h]
      <3>1. CASE l = d
        <4>1. queue'[l] = Tail(queue[d])
          BY <2>1, <3>1
        <4>2. \A j \in Nat : Lies(l, j, i)' => Lies(l, j + 1, i) /\ queue'[l][j] = queue[l][j + 1]
          BY <2>2, <3>1, <4>1 DEF Lies
        <4> QED BY <4>2
      <3>2. CASE l # d
        <4>1. \A j \in Nat : Lies(l, j, i)' => Lies(l, j, i) /\ queue'[l][j] = queue[l][j]
          BY <2>1, <3>2 DEF Lies
        <4>2. \A j \in Nat : j + 0 = j
          OBVIOUS
        <4> QED BY <4>1, <4>2
      <3> QED BY <3>1, <3>2
    <2> QED BY <2>3 DEF KeepsList
  <1>5. ASSUME NEW l \in Loopers,
               queue' = [queue EXCEPT ![l] = Put(Put(queue[l], Posted("destroy", 0)), Posted("null", 0))]
        PROVE  KeepsList(i)
    <2> DEFINE m == Posted("destroy", 0)
               n == Posted("null", 0)
    <2>1. m.id = 0 /\ n.id = 0
      BY DEF Posted
    <2>2. \A d \in Loopers : queue'[d] = IF d = l THEN Append(Append(queue[l], m), n) ELSE queue[d]
      BY <1>0, <1>5 DEF Put
    <2> HIDE DEF m, n
    <2>3. \A j \in 1..Len(Append(Append(queue[l], m), n)) :
            \/ Append(Append(queue[l], m), n)[j] = m
            \/ Append(Append(queue[l], m), n)[j] = n
            \/ j \in 1..Len(queue[l]) /\ Append(Append(queue[l], m), n)[j] = queue[l][j]
      BY <1>0
    <2>4. ASSUME NEW d \in Loopers, NEW j \in Nat, Lies(d, j, i)'
          PROVE  Lies(d, j, i) /\ queue'[d][j] = queue[d][j]
      <3>1. j \in 1..Len(queue'[d]) /\ queue'[d][j].id = i
        BY <2>4 DEF Lies
      <3>2. CASE d = l
        <4>1. queue'[d] = Append(Append(queue[l], m), n)
          BY <2>2, <3>2
        <4> QED BY <1>0, <2>1, <2>3, <3>1, <3>2, <4>1 DEF Lies
      <3>3. CASE d # l
        BY <2>2, <3>1, <3>3 DEF Lies
      <3> QED BY <3>2, <3>3
    <2> QED BY <1>1, <2>4
  <1>6. ASSUME NEW l \in Loopers, OnQuit(l) PROVE KeepsList(i)
    <2>1. queue' = queue \/ queue' = [queue EXCEPT ![l] = Put(Put(queue[l], Posted("destroy", 0)), Posted("null", 0))]
      BY <1>6 DEF OnQuit
    <2> QED BY <1>2, <1>5, <2>1
  <1>7. ASSUME NEW l \in Loopers, Wakeup(l) PROVE KeepsList(i)
    <2>1. l \in Actors /\ top[l] > 0 /\ Top(l).pc = "wake"
      BY <1>7 DEF Wakeup, At, Actors
    <2>2. Top(l).msg.from \in Loopers \cup TlsLoopers
      BY <2>1, TopType DEF GoodFrame, FrameOK, GoodMsg, Msg
    <2>3. queue' = queue \/ \E d \in Loopers : queue' = [queue EXCEPT ![d] = Put(queue[d], Posted("null", 0))]
      BY <1>7, <2>2 DEF Wakeup, WithNull
    <2>4. Posted("null", 0).id # i
      BY <1>0 DEF Posted
    <2> QED BY <1>2, <1>3, <2>3, <2>4
  <1> QED BY <1>2, <1>3, <1>4, <1>6, <1>7

\* Two frames are as far with their answer.
Alike(f, g) ==
  /\ f.pc \in {"wake", "wakering"} <=> g.pc \in {"wake", "wakering"}
  /\ f.pc = "reply" => g.pc = "reply"

\* Frames that are replaced, that return, that are called.
LEMMA RunsKept ==
  ASSUME LInv, NEW a \in Actors, top[a] > 0, NEW i \in MsgIds
  PROVE  /\ \A f : Replaced(a, f) /\ f.msg = Top(a).msg /\ (Top(a).msg.id # i \/ Alike(f, Top(a))) => KeepsRuns(i)
         /\ Popped(a) => KeepsRuns(i)
         /\ \A pc \in InLoop : \A f :
              Stacked(a, pc, f) /\ top[a] < MaxDepth /\ f.msg.id # i /\ Top(a).pc \in InLoop => KeepsRuns(i)
  <1>0. top[a] \in 1..MaxDepth /\ Top(a) = frame[a][top[a]] /\ \A l \in Loopers : l \in Actors /\ top[l] \in 0..MaxDepth
    BY TopType DEF Actors, LInv, TypeOK
  <1>1. ASSUME NEW f, Replaced(a, f), f.msg = Top(a).msg,
               Top(a).msg.id # i \/ Alike(f, Top(a))
        PROVE  KeepsRuns(i)
    <2>1. SUFFICES ASSUME NEW l \in Loopers, NEW k \in 1..MaxDepth, Runs(l, k, i)'
                   PROVE  /\ Runs(l, k, i) /\ frame'[l][k].msg = frame[l][k].msg
                          /\ Woke(l, k)' <=> Woke(l, k)
                          /\ frame'[l][k].pc = "reply" => frame[l][k].pc = "reply"
      BY DEF KeepsRuns
    <2>2. l \in Actors /\ top'[l] = top[l] /\ k \in 1..top[l] /\ frame'[l][k].msg.id = i
          /\ frame'[l][k] = IF l = a /\ k = top[a] THEN f ELSE frame[l][k]
      BY <1>0, <1>1, <2>1 DEF Runs, Replaced
    <2>3. CASE l = a /\ k = top[a]
      BY <1>0, <1>1, <2>2, <2>3 DEF Runs, Woke, Alike
    <2>4. CASE ~(l = a /\ k = top[a])
      BY <2>2, <2>4 DEF Runs, Woke
    <2> QED BY <2>3, <2>4
  <1>2. ASSUME Popped(a) PROVE KeepsRuns(i)
    <2>1. SUFFICES ASSUME NEW l \in Loopers, NEW k \in 1..MaxDepth, Runs(l, k, i)'
                   PROVE  Runs(l, k, i) /\ frame'[l][k] = frame[l][k]
      BY DEF KeepsRuns, Woke
    <2>2. l \in Actors /\ k \in 1..top'[l] /\ frame'[l][k].msg.id = i
      BY <1>0, <2>1 DEF Runs
    <2>3. k \in 1..top[l] /\ ~(l = a /\ k = top[a])
      BY <1>0, <1>2, <2>2 DEF Popped
    <2>4. frame'[l][k] = frame[l][k]
      BY <1>2, <2>2, <2>3 DEF Popped
    <2> QED BY <2>2, <2>3, <2>4 DEF Runs
  <1>3. ASSUME NEW pc \in InLoop, NEW f, Stacked(a, pc, f), top[a] < MaxDepth, f.msg.id # i, Top(a).pc \in InLoop
        PROVE  KeepsRuns(i)
    <2> DEFINE g == [Top(a) EXCEPT !.pc = pc]
    <2>1. g.pc = pc /\ g.msg = Top(a).msg
      BY GotoFields
    <2>2. SUFFICES ASSUME NEW l \in Loopers, NEW k \in 1..MaxDepth, Runs(l, k, i)'
                   PROVE  /\ Runs(l, k, i) /\ frame'[l][k].msg = frame[l][k].msg
                          /\ Woke(l, k)' <=> Woke(l, k)
                          /\ frame'[l][k].pc = "reply" => frame[l][k].pc = "reply"
      BY DEF KeepsRuns
    <2>3. l \in Actors /\ k \in 1..top'[l] /\ frame'[l][k].msg.id = i
      BY <1>0, <2>2 DEF Runs
    <2>4. frame'[l][k] = IF l = a /\ k = top[a] THEN g ELSE IF l = a /\ k = top[a] + 1 THEN f ELSE frame[l][k]
      BY <1>3, <2>3 DEF Stacked
    <2> HIDE DEF g
    <2>5. CASE l = a /\ k = top[a]
      <3>1. frame'[l][k] = g /\ k \in 1..top[l] /\ Top(a) = frame[l][k]
        BY <1>0, <2>4, <2>5
      <3>2. frame'[l][k].pc = pc /\ frame'[l][k].msg = frame[l][k].msg /\ frame[l][k].pc \in InLoop
        BY <1>3, <2>1, <3>1
      <3> QED BY <2>3, <3>1, <3>2 DEF Runs, Woke, InLoop
    <2>6. CASE l = a /\ k = top[a] + 1
      BY <1>0, <1>3, <2>3, <2>4, <2>6
    <2>7. CASE ~(l = a /\ k = top[a]) /\ ~(l = a /\ k = top[a] + 1)
      <3>1. k \in 1..top[l]
        BY <1>0, <1>3, <2>3, <2>7 DEF Stacked
      <3>2. frame'[l][k] = frame[l][k]
        BY <2>4, <2>7
      <3> QED BY <2>3, <3>1, <3>2 DEF Runs, Woke
    <2> QED BY <2>5, <2>6, <2>7
  <1> QED BY <1>1, <1>2, <1>3

\* The synchronous sends, by frame.
SyncByFrame == \A i \in MsgIds : i \in SyncSends <=> \E a \in Actors, k \in 1..MaxDepth : Sends(a, k, i)

\* They are those of the frames, before a step and after it.
LEMMA SyncOf ==
  ASSUME LInv, LInv'
  PROVE  /\ SyncByFrame /\ SyncByFrame'
         /\ SyncSends \subseteq MsgIds /\ SyncSends' \subseteq MsgIds
  <1>1. \A a \in Actors : top[a] \in 0..MaxDepth /\ top'[a] \in 0..MaxDepth
    BY DEF LInv, TypeOK
  <1>2. \A a \in Actors : \A k \in 1..top[a] : k \in 1..MaxDepth
    BY <1>1, DepthType
  <1>3. \A a \in Actors : \A k \in 1..top'[a] : k \in 1..MaxDepth
    BY <1>1, DepthType
  <1>4. SyncByFrame
    BY <1>2 DEF SyncByFrame, SyncSends, Sends, Calls
  <1>5. SyncByFrame'
    BY <1>3 DEF SyncByFrame, SyncSends, Sends, Calls
  <1> QED BY <1>4, <1>5 DEF SyncSends

\* They stay the same when every frame sends what it sent.
LEMMA SameSends ==
  ASSUME LInv, LInv',
         \A i \in MsgIds, a \in Actors, k \in 1..MaxDepth : Sends(a, k, i)' <=> Sends(a, k, i)
  PROVE  SyncSends' = SyncSends
  BY SyncOf DEF SyncByFrame

\* Frames that are replaced, that return, that are called.
LEMMA SendsKept ==
  ASSUME LInv, LInv', NEW a \in Actors, top[a] > 0
  PROVE  /\ \A f : Replaced(a, f) /\ f.id = Top(a).id /\ f.op = Top(a).op => SyncSends' = SyncSends
         /\ \A f : Replaced(a, f) /\ f.op # "send" /\ Top(a).op # "send" => SyncSends' = SyncSends
         /\ Popped(a) /\ Top(a).op # "send" => SyncSends' = SyncSends
         /\ \A pc \in InLoop : \A f : Stacked(a, pc, f) /\ top[a] < MaxDepth /\ f.op # "send" => SyncSends' = SyncSends
  <1>0. top[a] \in 1..MaxDepth /\ Top(a) = frame[a][top[a]] /\ \A b \in Actors : top[b] \in 0..MaxDepth
    BY TopType DEF LInv, TypeOK
  <1>1. ASSUME NEW f, Replaced(a, f), (f.id = Top(a).id /\ f.op = Top(a).op) \/ (f.op # "send" /\ Top(a).op # "send")
        PROVE  SyncSends' = SyncSends
    <2>1. \A i \in MsgIds, b \in Actors, k \in 1..MaxDepth : Sends(b, k, i)' <=> Sends(b, k, i)
      BY <1>0, <1>1 DEF Sends, Calls, Replaced
    <2> QED BY <2>1, SameSends
  <1>2. ASSUME Popped(a), Top(a).op # "send" PROVE SyncSends' = SyncSends
    <2>1. ASSUME NEW i \in MsgIds, NEW b \in Actors, NEW k \in 1..MaxDepth PROVE Sends(b, k, i)' <=> Sends(b, k, i)
      <3>1. CASE b = a /\ k = top[a]
        <4>1. ~(k \in 1..top'[b])
          BY <1>0, <1>2, <3>1 DEF Popped
        <4> QED BY <1>0, <1>2, <3>1, <4>1 DEF Sends, Calls
      <3>2. CASE ~(b = a /\ k = top[a])
        <4>1. frame'[b][k] = frame[b][k] /\ (k \in 1..top'[b] <=> k \in 1..top[b])
          BY <1>0, <1>2, <3>2 DEF Popped
        <4> QED BY <4>1 DEF Sends, Calls
      <3> QED BY <3>1, <3>2
    <2> QED BY <2>1, SameSends
  <1>3. ASSUME NEW pc \in InLoop, NEW f, Stacked(a, pc, f), top[a] < MaxDepth, f.op # "send"
        PROVE  SyncSends' = SyncSends
    <2> DEFINE g == [Top(a) EXCEPT !.pc = pc]
    <2>1. g.id = Top(a).id /\ g.op = Top(a).op
      BY GotoFields
    <2>2. ASSUME NEW i \in MsgIds, NEW b \in Actors, NEW k \in 1..MaxDepth PROVE Sends(b, k, i)' <=> Sends(b, k, i)
      <3>1. frame'[b][k] = IF b = a /\ k = top[a] THEN g ELSE IF b = a /\ k = top[a] + 1 THEN f ELSE frame[b][k]
        BY <1>3 DEF Stacked
      <3> HIDE DEF g
      <3>2. CASE b = a /\ k = top[a]
        <4>1. k \in 1..top'[b] /\ k \in 1..top[b] /\ frame'[b][k] = g
          BY <1>0, <1>3, <3>1, <3>2 DEF Stacked
        <4> QED BY <1>0, <2>1, <3>2, <4>1 DEF Sends, Calls
      <3>3. CASE b = a /\ k = top[a] + 1
        <4>1. ~(k \in 1..top[b]) /\ frame'[b][k] = f
          BY <1>0, <3>1, <3>3
        <4> QED BY <1>3, <4>1 DEF Sends, Calls
      <3>4. CASE ~(b = a /\ k = top[a]) /\ ~(b = a /\ k = top[a] + 1)
        <4>1. frame'[b][k] = frame[b][k] /\ (k \in 1..top'[b] <=> k \in 1..top[b])
          BY <1>0, <1>3, <3>1, <3>4 DEF Stacked
        <4> QED BY <4>1 DEF Sends, Calls
      <3> QED BY <3>2, <3>3, <3>4
    <2> QED BY <2>2, SameSends
  <1> QED BY <1>1, <1>2, <1>3

\* A send begins, and ends.
LEMMA SendsChange ==
  ASSUME LInv, LInv', IdsFit, NEW a \in Actors, top[a] > 0, NEW f, Replaced(a, f)
  PROVE  /\ \A i \in MsgIds : f.id = i /\ f.op = "send" /\ Top(a).op # "send" => SyncSends' = SyncSends \cup {i}
         /\ \A i \in MsgIds : f.op # "send" /\ Top(a).id = i => SyncSends' = SyncSends \ {i}
  <1>0. top[a] \in 1..MaxDepth /\ Top(a) = frame[a][top[a]]
    BY TopType
  <1>1. \A j \in MsgIds : j \in SyncSends <=> \E b \in Actors, k \in 1..MaxDepth : Sends(b, k, j)
    BY SyncOf DEF SyncByFrame
  <1>2. \A j \in MsgIds : j \in SyncSends' <=> \E b \in Actors, k \in 1..MaxDepth : Sends(b, k, j)'
    BY SyncOf DEF SyncByFrame
  <1>3. SyncSends \subseteq MsgIds /\ SyncSends' \subseteq MsgIds
    BY SyncOf
  <1>4. \A b \in Actors, k \in 1..MaxDepth, j \in MsgIds :
          /\ b = a /\ k = top[a] => (Sends(b, k, j)' <=> f.op = "send" /\ f.id = j)
          /\ b = a /\ k = top[a] => (Sends(b, k, j) <=> Top(a).op = "send" /\ Top(a).id = j)
          /\ b = a /\ k = top[a] => (Calls(b, k, j) <=> Top(a).id = j)
          /\ ~(b = a /\ k = top[a]) => (Sends(b, k, j)' <=> Sends(b, k, j))
    BY <1>0 DEF Sends, Calls, Replaced
  <1>5. ASSUME NEW i \in MsgIds, f.id = i, f.op = "send", Top(a).op # "send" PROVE SyncSends' = SyncSends \cup {i}
    <2>1. \A j \in MsgIds : j \in SyncSends' <=> j \in SyncSends \/ j = i
      BY <1>0, <1>1, <1>2, <1>4, <1>5
    <2> QED BY <1>3, <2>1
  <1>6. ASSUME NEW i \in MsgIds, f.op # "send", Top(a).id = i PROVE SyncSends' = SyncSends \ {i}
    <2>1. \A b \in Actors, k \in 1..MaxDepth : Sends(b, k, i) => b = a /\ k = top[a]
      <3>1. Calls(a, top[a], i)
        BY <1>0, <1>4, <1>6
      <3>2. \A b, c \in Actors : \A k, j \in 1..MaxDepth : Calls(b, k, i) /\ Calls(c, j, i) => b = c /\ k = j
        BY DEF IdsFit, IdFits
      <3> QED BY <1>0, <3>1, <3>2 DEF Sends
    <2>2. \A j \in MsgIds : j \in SyncSends' <=> j \in SyncSends /\ j # i
      BY <1>0, <1>1, <1>2, <1>4, <1>6, <2>1
    <2> QED BY <1>3, <2>2
  <1> QED BY <1>5, <1>6

-----------------------------------------------------------------------------
(* The steps that the mailboxes do not see *)

MInv == LInv /\ StoppedIsDrained /\ Tidy /\ IdsFit /\ FatesFit

\* A step keeps the invariant and is a step of the mailboxes.
Refines == FatesFit' /\ MailStep

\* Nothing that the mailboxes know of changes, but the frames.
Aside == /\ UNCHANGED <<fate, nextId, done, ack>> /\ SameBoxes /\ SameOpen
         /\ \A i \in MsgIds : KeepsList(i)

\* Such a step is none of theirs.
LEMMA QuietRefines ==
  ASSUME MInv, Aside, QuietFrames, \A i \in MsgIds : KeepsRuns(i), SyncSends' = SyncSends
  PROVE  Refines
  <1>1. MailStep
    BY AsStutter DEF Aside
  <1>2. ASSUME NEW i \in MsgIds PROVE FateFits(i)'
    <2>1. FateFits(i) /\ fate'[i] = fate[i] /\ KeepsList(i) /\ KeepsRuns(i) /\ KeepsSends(i) /\ ack \subseteq ack'
      BY DEF MInv, FatesFit, Aside, KeepsSends
    <2>2. KeepsStart(i)
      BY DEF KeepsStart, Aside, QuietFrames
    <2> QED BY <2>1, <2>2, KeptFate
  <1> QED BY <1>1, <1>2 DEF Refines, FatesFit

\* A frame goes elsewhere.
LEMMA GotoRefines ==
  ASSUME MInv, LInv', Aside, NEW a \in Actors, top[a] > 0, top' = top, NEW pc, pc # "push", Goto(a, pc),
         \/ pc \in InLoop \cup {"ring", "body"} /\ Top(a).pc \in InLoop \cup {"push", "ring", "body"}
         \/ pc = "wakering" /\ Top(a).pc = "wake"
  PROVE  Refines
  <1> DEFINE f == [Top(a) EXCEPT !.pc = pc]
  <1>0. LInv
    BY DEF MInv
  <1>1. Replaced(a, f)
    BY <1>0, Effects DEF Goto
  <1>2. f.pc = pc /\ f.id = Top(a).id /\ f.op = Top(a).op /\ f.msg = Top(a).msg
    BY <1>0, GotoFields
  <1> HIDE DEF f
  <1>3. Alike(f, Top(a))
    BY <1>2 DEF Alike, InLoop
  <1>4. QuietFrames
    BY <1>0, <1>1, <1>2, ReplacedQuiet
  <1>5. \A i \in MsgIds : KeepsRuns(i)
    BY <1>0, <1>1, <1>2, <1>3, RunsKept
  <1>6. SyncSends' = SyncSends
    BY <1>0, <1>1, <1>2, SendsKept
  <1> QED BY <1>4, <1>5, <1>6, QuietRefines

\* A frame returns.
LEMMA ReturnRefines ==
  ASSUME MInv, LInv', Aside, NEW a \in Actors, top[a] > 0, Return(a), Top(a).op # "send"
  PROVE  Refines
  <1>0. LInv
    BY DEF MInv
  <1>1. Popped(a)
    BY <1>0, Effects
  <1>2. QuietFrames
    BY <1>0, <1>1, PoppedQuiet
  <1>3. \A i \in MsgIds : KeepsRuns(i)
    BY <1>0, <1>1, RunsKept
  <1>4. SyncSends' = SyncSends
    BY <1>0, <1>1, SendsKept
  <1> QED BY <1>2, <1>3, <1>4, QuietRefines

\* The frame of a callback.
LEMMA CallbackRefines ==
  ASSUME MInv, LInv', NEW l \in Loopers, NEW cb \in {"timer", "io"}, Callback(l, cb)
  PROVE  Refines
  <1> DEFINE f == Activation(cb, NoMsg, "body")
             pc == IF cb = "timer" THEN "poll" ELSE "get"
  <1>0. LInv /\ l \in Actors /\ top[l] > 0 /\ Top(l).pc \in InLoop /\ UNCHANGED <<queue, life, fate, nextId, done, ack>>
    BY DEF MInv, Callback, At, Actors, InLoop
  <1>1. f \in GoodFrame /\ f.id = 0 /\ f.op = "none" /\ f.msg = NoMsg
    BY CalledFrames
  <1>2. Call(l, pc, f) /\ pc \in InLoop
    BY DEF Callback, InLoop
  <1>3. NoMsg.id = 0 /\ \A i \in MsgIds : i # 0
    BY ConstantsAssumption DEF MsgIds, NoMsg
  <1> HIDE DEF f, pc
  <1>4. Stacked(l, pc, f) /\ top[l] < MaxDepth
    BY <1>0, <1>1, <1>2, Effects
  <1>5. QuietFrames
    BY <1>0, <1>1, <1>2, <1>4, StackedQuiet
  <1>6. ASSUME NEW i \in MsgIds PROVE KeepsRuns(i)
    <2>1. f.msg.id # i
      BY <1>1, <1>3
    <2> QED BY <1>0, <1>2, <1>4, <2>1, RunsKept
  <1>7. SyncSends' = SyncSends
    <2>1. f.op # "send"
      BY <1>1
    <2> QED BY <1>0, <1>2, <1>4, <2>1, SendsKept
  <1>8. Aside
    <2>1. SameOpen
      BY <1>0 DEF SameOpen
    <2> QED BY <1>0, <2>1, Boxes, ListsKept DEF Aside
  <1> QED BY <1>5, <1>6, <1>7, <1>8, QuietRefines

\* A frame that is not of a send is through with its call.
LEMMA EndRefines ==
  ASSUME MInv, LInv', Aside, NEW a \in Actors, top[a] > 0, top' = top, Becomes(a, EndOfCall(Top(a))),
         Top(a).op # "send", Top(a).pc \in {"push", "ring"}
  PROVE  Refines
  <1> DEFINE f == EndOfCall(Top(a))
  <1>0. LInv
    BY DEF MInv
  <1>1. Replaced(a, f)
    BY <1>0, Effects
  <1>2. f.pc = "body" /\ f.id = 0 /\ f.op = "none" /\ f.msg = Top(a).msg
    BY <1>0, EndFields
  <1> HIDE DEF f
  <1>3. Alike(f, Top(a))
    BY <1>2 DEF Alike
  <1>4. QuietFrames
    BY <1>0, <1>1, <1>2, ReplacedQuiet
  <1>5. \A i \in MsgIds : KeepsRuns(i)
    BY <1>0, <1>1, <1>2, <1>3, RunsKept
  <1>6. SyncSends' = SyncSends
    BY <1>0, <1>1, <1>2, SendsKept
  <1> QED BY <1>4, <1>5, <1>6, QuietRefines

\* The list and the rest stay the same.
LEMMA AsideWhen ==
  ASSUME MInv, UNCHANGED <<queue, life, fate, nextId, done, ack>>
  PROVE  Aside
  <1>1. SameOpen
    BY DEF SameOpen
  <1> QED BY <1>1, Boxes, ListsKept DEF Aside, MInv

\* The other steps of the loop, the ring, and the end of a looper.
LEMMA LoopRefines ==
  ASSUME MInv, LInv'
  PROVE  /\ \A a \in Actors : Ring(a) \/ Woken(a) => Refines
         /\ \A l \in Loopers : NoMessage(l) \/ Timeout(l) => Refines
         /\ \A l \in Loopers : SetExitEvent(l) \/ Free(l) => Refines
         /\ UNCHANGED vars => Refines
  <1>1. ASSUME NEW a \in Actors, Ring(a) PROVE Refines
    <2>1. /\ top[a] > 0 /\ top' = top /\ Top(a).pc = "ring" /\ Aside
          /\ (Top(a).op # "send" /\ Becomes(a, EndOfCall(Top(a)))) \/ Goto(a, "check")
      BY <1>1, AsideWhen DEF Ring, At
    <2> QED BY <2>1, GotoRefines, EndRefines DEF InLoop
  <1>2. ASSUME NEW a \in Actors, Woken(a) PROVE Refines
    <2>1. /\ top[a] > 0 /\ top' = top /\ Top(a).pc = "poll" /\ Aside
          /\ \E pc \in InLoop : Goto(a, pc)
      BY <1>2, AsideWhen DEF Woken, At, InLoop
    <2> QED BY <2>1, GotoRefines DEF InLoop
  <1>3. ASSUME NEW l \in Loopers, NoMessage(l) \/ Timeout(l) PROVE Refines
    <2>1. /\ top[l] > 0 /\ top' = top /\ Top(l).pc \in InLoop /\ Aside /\ l \in Actors
          /\ \E pc \in InLoop : Goto(l, pc)
      BY <1>3, AsideWhen DEF NoMessage, Timeout, At, InLoop, Actors
    <2> QED BY <2>1, GotoRefines DEF InLoop
  <1>4. ASSUME UNCHANGED <<queue, frame, top, fate, nextId, done, ack>>, SameOpen PROVE Refines
    <2>1. Aside
      BY <1>4, Boxes, ListsKept DEF Aside, MInv
    <2>2. QuietFrames /\ \A i \in MsgIds : KeepsRuns(i)
      BY <1>4 DEF QuietFrames, Calls, Sends, Pushes, KeepsRuns, Runs, Woke
    <2>3. SyncSends' = SyncSends
      BY <1>4 DEF SyncSends
    <2> QED BY <2>1, <2>2, <2>3, QuietRefines
  <1>5. ASSUME NEW l \in Loopers, SetExitEvent(l) \/ Free(l) PROVE Refines
    <2>1. SameOpen
      BY <1>5 DEF SameOpen, SetExitEvent, Free, MInv, LInv, TypeOK
    <2> QED BY <1>4, <1>5, <2>1 DEF SetExitEvent, Free
  <1>6. ASSUME UNCHANGED vars PROVE Refines
    <2>1. SameOpen
      BY <1>6 DEF SameOpen, vars
    <2> QED BY <1>4, <1>6, <2>1 DEF vars
  <1> QED BY <1>1, <1>2, <1>3, <1>5, <1>6

-----------------------------------------------------------------------------
(* The steps that they see *)

\* A message that is in no list, and that no frame runs.
Unlisted(i) == \A l \in Loopers, j \in Nat : ~Lies(l, j, i)
NotRun(i)   == \A l \in Loopers, k \in 1..MaxDepth : ~Runs(l, k, i)

\* What the fate of a message rules out, and what being nowhere gives.
LEMMA Nowhere ==
  ASSUME NEW i \in MsgIds, FateFits(i)
  PROVE  /\ fate[i] # "queued" => Unlisted(i)
         /\ fate[i] \notin {"taken", "handled"} => NotRun(i)
         /\ fate[i] # "calling" => \A a \in Actors, k \in 1..MaxDepth : ~Pushes(a, k, i)
         /\ fate[i] # "new" => ~(i >= nextId)
         /\ fate[i] # "handled" => i \notin done
         /\ Unlisted(i) /\ KeepsList(i) => Unlisted(i)'
         /\ NotRun(i) /\ KeepsRuns(i) => NotRun(i)'
         /\ Unlisted(i)' => ListFits(i)'
         /\ NotRun(i)' => RunFits(i)'
  <1>1. Unlisted(i) /\ KeepsList(i) => Unlisted(i)'
    <2>1. ASSUME Unlisted(i), KeepsList(i), NEW l \in Loopers, NEW j \in Nat, Lies(l, j, i)' PROVE FALSE
      <3>1. PICK h \in Nat : Lies(l, j + h, i)
        BY <2>1 DEF KeepsList
      <3>2. j + h \in Nat
        OBVIOUS
      <3> QED BY <2>1, <3>1, <3>2 DEF Unlisted
    <2> QED BY <2>1 DEF Unlisted
  <1>2. NotRun(i) /\ KeepsRuns(i) => NotRun(i)'
    BY DEF NotRun, KeepsRuns
  <1>3. Unlisted(i)' => ListFits(i)'
    BY DEF Unlisted, ListFits
  <1>4. NotRun(i)' => RunFits(i)'
    BY DEF NotRun, RunFits
  <1>5. fate[i] # "queued" => Unlisted(i)
    BY DEF FateFits, ListFits, Unlisted
  <1>6. fate[i] \notin {"taken", "handled"} => NotRun(i)
    BY DEF FateFits, RunFits, NotRun
  <1> QED BY <1>1, <1>2, <1>3, <1>4, <1>5, <1>6 DEF FateFits, StartFits

\* The messages that a step is not about.
LEMMA OthersFit ==
  ASSUME MInv, NEW i \in MsgIds, NEW j \in MsgIds, j # i, NEW w, fate' = [fate EXCEPT ![i] = w],
         KeepsStart(j), KeepsList(j), KeepsRuns(j), SyncSends \ {i} \subseteq SyncSends', ack \subseteq ack'
  PROVE  FateFits(j)'
  <1>1. FateFits(j) /\ fate'[j] = fate[j] /\ KeepsSends(j)
    BY DEF MInv, FatesFit, KeepsSends, LInv, TypeOK
  <1> QED BY <1>1, KeptFate

\* A call begins.
LEMMA StartRefines ==
  ASSUME MInv, LInv', NEW a \in Actors, NEW op \in {"post", "send"}, NEW kind \in {"user", "quit"},
         NEW dst \in Loopers, op = "send" => kind = "user", BeginCall(a, op, kind, dst)
  PROVE  Refines
  <1> DEFINE f == [Top(a) EXCEPT !.pc = "push", !.op = op, !.kind = kind, !.dst = dst, !.id = nextId]
  <1>p. nextId \in MsgIds /\ nextId \in Nat /\ \A j \in MsgIds : j \in Nat
    BY ConstantsAssumption DEF MInv, LInv, TypeOK, MsgIds, BeginCall
  <1>i. PICK i : i = nextId
    OBVIOUS
  <1>0. /\ LInv /\ top[a] > 0 /\ Becomes(a, f) /\ Top(a).pc = "body" /\ nextId <= MaxMsg
        /\ UNCHANGED <<top, queue, life, done, ack>> /\ nextId' = i + 1 /\ fate' = [fate EXCEPT ![i] = "calling"]
    BY <1>i DEF BeginCall, At, MInv
  <1>1. i \in MsgIds /\ i \in Nat /\ \A j \in MsgIds : j \in Nat
    BY <1>p, <1>i
  <1>2. f.id = i /\ f.op = op /\ f.msg = Top(a).msg /\ f.pc = "push"
    BY <1>0, <1>i, TopType DEF GoodFrame, Frame
  <1>3. Replaced(a, f)
    BY <1>0, Effects
  <1> HIDE DEF f
  <1>4. Top(a).op = "none" /\ top[a] \in 1..MaxDepth
    <2>1. top[a] \in 1..top[a] /\ top[a] \in 1..MaxDepth
      BY <1>0, TopType, DepthType
    <2>2. FrameTidy(frame[a][top[a]])
      BY <2>1 DEF MInv, Tidy
    <2> QED BY <1>0, <2>1, <2>2 DEF FrameTidy, InCall, InLoop, Top
  <1>5. SyncSends' \in {SyncSends, SyncSends \cup {i}}
    <2>1. CASE op = "send"
      BY <1>0, <1>1, <1>2, <1>3, <1>4, <2>1, SendsChange DEF MInv
    <2>2. CASE op # "send"
      <3>1. SyncSends' = SyncSends
        BY <1>0, <1>2, <1>3, <1>4, <2>2, SendsKept
      <3> QED BY <3>1
    <2> QED BY <2>1, <2>2
  <1>6. FateFits(i) /\ fate[i] = "new" /\ fate'[i] = "calling"
    <2>1. FateFits(i)
      BY <1>1 DEF MInv, FatesFit
    <2> QED BY <1>0, <1>1, <1>i, <2>1 DEF FateFits, StartFits, LInv, TypeOK
  <1>7. \A j \in MsgIds : KeepsList(j) /\ KeepsRuns(j)
    <2>1. Alike(f, Top(a))
      BY <1>0, <1>2 DEF Alike
    <2> QED BY <1>0, <1>2, <1>3, <2>1, ListsKept, RunsKept
  <1>8. MailStep
    <2>1. SameBoxes /\ SameOpen
      BY <1>0, Boxes DEF SameOpen
    <2> QED BY <1>0, <1>1, <1>5, <1>6, <2>1, AsStart
  <1>9. FateFits(i)'
    <2>1. ListFits(i)' /\ RunFits(i)'
      BY <1>1, <1>6, <1>7, Nowhere
    <2>2. ~(i >= i + 1) /\ i \notin done'
      BY <1>0, <1>1, <1>6, Nowhere
    <2>3. StartFits(i)'
      BY <1>0, <1>6, <2>2 DEF StartFits
    <2> QED BY <2>1, <2>3 DEF FateFits
  <1>10. ASSUME NEW j \in MsgIds, j # i PROVE FateFits(j)'
    <2>1. \A b \in Actors, k \in 1..MaxDepth : Pushes(b, k, j)' => Pushes(b, k, j)
      BY <1>2, <1>3, <1>10 DEF Pushes, Calls, Replaced
    <2>2. KeepsStart(j)
      BY <1>0, <1>1, <1>i, <2>1 DEF KeepsStart
    <2> QED BY <1>0, <1>1, <1>5, <1>7, <1>10, <2>2, OthersFit
  <1>11. \A j \in MsgIds : FateFits(j)'
    BY <1>9, <1>10
  <1> QED BY <1>8, <1>11 DEF Refines, FatesFit

\* The id of a call belongs to the frame that makes it.
LEMMA CallOfTop ==
  ASSUME MInv, NEW a \in Actors, top[a] > 0, NEW i \in MsgIds, Top(a).id = i
  PROVE  /\ top[a] \in 1..MaxDepth /\ Calls(a, top[a], i)
         /\ \A b \in Actors, k \in 1..MaxDepth : Calls(b, k, i) => b = a /\ k = top[a]
         /\ Top(a).pc = "push" => Pushes(a, top[a], i) /\ fate[i] = "calling" /\ i \notin done /\ ~(i >= nextId)
         /\ Top(a).op = "send" => i \in SyncSends
  <1>0. LInv /\ IdFits(i) /\ FateFits(i)
    BY DEF MInv, IdsFit, FatesFit
  <1>1. top[a] \in 1..MaxDepth /\ Top(a) = frame[a][top[a]] /\ top[a] \in 1..top[a]
    BY <1>0, TopType, DepthType
  <1>2. Calls(a, top[a], i)
    BY <1>1 DEF Calls
  <1>3. \A b \in Actors, k \in 1..MaxDepth : Calls(b, k, i) => b = a /\ k = top[a]
    BY <1>0, <1>1, <1>2 DEF IdFits
  <1>4. Top(a).pc = "push" => Pushes(a, top[a], i)
    BY <1>1, <1>2 DEF Pushes
  <1>5. Pushes(a, top[a], i) => fate[i] = "calling" /\ i \notin done /\ ~(i >= nextId)
    BY <1>0, <1>1, Nowhere DEF FateFits, StartFits
  <1>6. Top(a).op = "send" => i \in SyncSends
    BY <1>1 DEF SyncSends
  <1> QED BY <1>1, <1>2, <1>3, <1>4, <1>5, <1>6

\* The locked part refuses.
LEMMA RefuseRefines ==
  ASSUME MInv, LInv', NEW a \in Actors, Push(a), ~Accepts(Top(a).dst)
  PROVE  Refines
  <1> DEFINE f == EndOfCall(Top(a))
  <1>0. /\ LInv /\ top[a] > 0 /\ Becomes(a, f) /\ Top(a).pc = "push" /\ life[Top(a).dst] # "run"
        /\ UNCHANGED <<queue, life, top, done, ack, nextId>>
        /\ fate' = IF Top(a).id = 0 THEN fate ELSE [fate EXCEPT ![Top(a).id] = "refused"]
    BY DEF Push, At, MInv, Accepts
  <1>1. f.pc = "body" /\ f.id = 0 /\ f.op = "none" /\ f.msg = Top(a).msg
    BY <1>0, EndFields
  <1>2. Replaced(a, f)
    BY <1>0, Effects
  <1>3. /\ Top(a).id = 0 \/ Top(a).id \in MsgIds
        /\ Top(a).dst \in Loopers
        /\ Top(a).op = "send" => Top(a).id # 0
    BY <1>0, TopType, ConstantsAssumption DEF GoodFrame, Frame, FrameOK, MsgIds
  <1>4. CASE Top(a).id = 0
    <2>1. fate' = fate /\ Top(a).op # "send"
      BY <1>0, <1>3, <1>4
    <2>2. Aside
      BY <1>0, <2>1, AsideWhen
    <2> QED BY <1>0, <2>1, <2>2, EndRefines
  <1>5. ASSUME NEW i \in MsgIds, Top(a).id = i PROVE Refines
    <2> HIDE DEF f
    <2>0. i # 0 /\ fate' = [fate EXCEPT ![i] = "refused"]
      BY <1>0, <1>5, ConstantsAssumption DEF MsgIds
    <2>1. /\ top[a] \in 1..MaxDepth /\ \A b \in Actors, k \in 1..MaxDepth : Calls(b, k, i) => b = a /\ k = top[a]
          /\ fate[i] = "calling" /\ i \notin done /\ ~(i >= nextId)
      BY <1>0, <1>5, CallOfTop
    <2>2. SyncSends' = SyncSends \ {i}
      BY <1>0, <1>1, <1>2, <1>5, SendsChange DEF MInv
    <2>3. SameBoxes /\ SameOpen
      BY <1>0, Boxes DEF SameOpen
    <2>4. MailStep
      BY <1>0, <1>3, <2>0, <2>1, <2>2, <2>3, AsRefuse
    <2>5. QuietFrames
      BY <1>0, <1>1, <1>2, ReplacedQuiet
    <2>6. \A j \in MsgIds : KeepsList(j) /\ KeepsRuns(j) /\ KeepsStart(j)
      <3>1. Alike(f, Top(a))
        BY <1>0, <1>1 DEF Alike
      <3>2. \A j \in MsgIds : KeepsStart(j)
        BY <1>0, <2>5 DEF KeepsStart, QuietFrames
      <3> QED BY <1>0, <1>1, <1>2, <3>1, <3>2, ListsKept, RunsKept
    <2>7. FateFits(i)'
      <3>1. FateFits(i) /\ fate'[i] = "refused"
        BY <2>0, <2>1 DEF MInv, FatesFit, LInv, TypeOK
      <3>2. ListFits(i)' /\ RunFits(i)'
        BY <2>1, <2>6, <3>1, Nowhere
      <3>3. \A b \in Actors, k \in 1..MaxDepth : ~Pushes(b, k, i)'
        <4>1. \A b \in Actors, k \in 1..MaxDepth : b = a /\ k = top[a] => ~Pushes(b, k, i)'
          BY <1>1, <1>2 DEF Pushes, Replaced
        <4>2. \A b \in Actors, k \in 1..MaxDepth : Pushes(b, k, i)' => Pushes(b, k, i)
          BY <2>5 DEF QuietFrames
        <4>3. \A b \in Actors, k \in 1..MaxDepth : Pushes(b, k, i) => b = a /\ k = top[a]
          BY <2>1 DEF Pushes
        <4> QED BY <4>1, <4>2, <4>3
      <3>4. StartFits(i)'
        BY <1>0, <2>1, <3>3 DEF StartFits
      <3> QED BY <3>2, <3>4 DEF FateFits
    <2>8. \A j \in MsgIds : j # i => FateFits(j)'
      BY <1>0, <2>0, <2>2, <2>6, OthersFit
    <2> QED BY <2>4, <2>7, <2>8 DEF Refines, FatesFit
  <1> QED BY <1>3, <1>4, <1>5

\* The locked part appends to the list.
LEMMA AcceptRefines ==
  ASSUME MInv, LInv', NEW a \in Actors, Push(a), Accepts(Top(a).dst)
  PROVE  Refines
  <1> DEFINE f == [Top(a) EXCEPT !.pc = "ring"]
             m == PushedMsg(a)
  <1>d. PICK d : d = Top(a).dst
    OBVIOUS
  <1>0. /\ LInv /\ top[a] > 0 /\ Goto(a, "ring") /\ Top(a).pc = "push" /\ life[d] = "run"
        /\ UNCHANGED <<life, top, done, ack, nextId>>
        /\ fate' = IF Top(a).id = 0 THEN fate ELSE [fate EXCEPT ![Top(a).id] = "queued"]
        /\ queue' = [queue EXCEPT ![d] = Put(queue[d], m)]
    BY <1>d DEF Push, At, MInv, Accepts, PushedMsg
  <1>1. f.pc = "ring" /\ f.id = Top(a).id /\ f.op = Top(a).op /\ f.msg = Top(a).msg
    BY <1>0, GotoFields
  <1>2. Replaced(a, f)
    BY <1>0, Effects DEF Goto
  <1>3. /\ Top(a).id = 0 \/ Top(a).id \in MsgIds
        /\ d \in Loopers
        /\ m \in GoodMsg /\ m.id = Top(a).id
    <2>1. (Top(a).id = 0 \/ Top(a).id \in MsgIds) /\ d \in Loopers
      BY <1>0, <1>d, TopType, ConstantsAssumption DEF GoodFrame, Frame, FrameOK, MsgIds
    <2>2. m \in GoodMsg /\ m.id = Top(a).id
      BY <1>0, PushedType DEF PushedMsg
    <2> QED BY <2>1, <2>2
  <1>4. m.from # None => Top(a).op = "send"
    BY DEF PushedMsg
  <1> HIDE DEF f, m
  <1>5. SameOpen
    BY <1>0 DEF SameOpen
  <1>6. CASE Top(a).id = 0
    <2>1. Aside
      <3>1. SameBoxes
        BY <1>0, <1>3, <1>6, Boxes DEF SameBoxes
      <3>2. \A j \in MsgIds : KeepsList(j)
        <4>1. \A j \in MsgIds : m.id # j
          BY <1>3, <1>6, ConstantsAssumption DEF MsgIds
        <4> QED BY <1>0, <1>3, <4>1, ListsKept
      <3> QED BY <1>0, <1>5, <1>6, <3>1, <3>2 DEF Aside
    <2> QED BY <1>0, <2>1, GotoRefines
  <1>7. ASSUME NEW i \in MsgIds, Top(a).id = i PROVE Refines
    <2>0. i # 0 /\ fate' = [fate EXCEPT ![i] = "queued"] /\ m.id = i
      BY <1>0, <1>3, <1>7, ConstantsAssumption DEF MsgIds
    <2>1. /\ top[a] \in 1..MaxDepth /\ \A b \in Actors, k \in 1..MaxDepth : Calls(b, k, i) => b = a /\ k = top[a]
          /\ fate[i] = "calling" /\ i \notin done /\ ~(i >= nextId)
          /\ Top(a).op = "send" => i \in SyncSends
      BY <1>0, <1>7, CallOfTop
    <2>2. SyncSends' = SyncSends
      BY <1>0, <1>1, <1>2, SendsKept
    <2>3. \A l \in Loopers : BoxOf(l)' = IF l = d THEN Append(BoxOf(l), i) ELSE BoxOf(l)
      BY <1>0, <1>3, <2>0, Boxes
    <2>4. MailStep
      BY <1>0, <1>3, <1>5, <2>0, <2>1, <2>2, <2>3, AsAccept
    <2>5. QuietFrames
      BY <1>0, <1>1, <1>2, ReplacedQuiet
    <2>6. \A j \in MsgIds : KeepsRuns(j) /\ KeepsStart(j)
      <3>1. Alike(f, Top(a))
        BY <1>0, <1>1 DEF Alike
      <3>2. \A j \in MsgIds : KeepsStart(j)
        BY <1>0, <2>5 DEF KeepsStart, QuietFrames
      <3> QED BY <1>0, <1>1, <1>2, <3>1, <3>2, RunsKept
    <2>7. FateFits(i)'
      <3>1. FateFits(i) /\ fate'[i] = "queued"
        BY <2>0, <2>1 DEF MInv, FatesFit, LInv, TypeOK
      <3>2. RunFits(i)' /\ Unlisted(i)
        BY <2>1, <2>6, <3>1, Nowhere
      <3>3. \A b \in Actors, k \in 1..MaxDepth : ~Pushes(b, k, i)'
        <4>1. \A b \in Actors, k \in 1..MaxDepth : b = a /\ k = top[a] => ~Pushes(b, k, i)'
          BY <1>1, <1>2 DEF Pushes, Replaced
        <4>2. \A b \in Actors, k \in 1..MaxDepth : Pushes(b, k, i)' => Pushes(b, k, i)
          BY <2>5 DEF QuietFrames
        <4>3. \A b \in Actors, k \in 1..MaxDepth : Pushes(b, k, i) => b = a /\ k = top[a]
          BY <2>1 DEF Pushes
        <4> QED BY <4>1, <4>2, <4>3
      <3>4. StartFits(i)'
        BY <1>0, <2>1, <3>3 DEF StartFits
      <3>5. ListFits(i)'
        <4> DEFINE n == Len(queue[d]) + 1
        <4>1. queue \in [Loopers -> Seq(GoodMsg)]
          BY <1>0 DEF LInv, Shape
        <4>2. \A l \in Loopers : queue'[l] = IF l = d THEN Append(queue[d], m) ELSE queue[l]
          BY <1>0, <4>1 DEF Put
        <4>3. \A j \in 1..Len(Append(queue[d], m)) :
                 \/ j = n /\ Append(queue[d], m)[j] = m
                 \/ j \in 1..Len(queue[d]) /\ Append(queue[d], m)[j] = queue[d][j]
          BY <1>3, <4>1
        <4>4. ASSUME NEW l \in Loopers, NEW j \in Nat, Lies(l, j, i)' PROVE l = d /\ j = n /\ queue'[l][j] = m
          <5>1. j \in 1..Len(queue'[l]) /\ queue'[l][j].id = i
            BY <4>4 DEF Lies
          <5>2. CASE l = d
            <6>1. queue'[l] = Append(queue[d], m)
              BY <4>2, <5>2
            <6>2. ~(j \in 1..Len(queue[d]) /\ queue[d][j].id = i)
              BY <1>3, <3>2 DEF Unlisted, Lies
            <6> QED BY <4>3, <5>1, <5>2, <6>1, <6>2
          <5>3. CASE l # d
            BY <3>2, <4>2, <5>1, <5>3 DEF Unlisted, Lies
          <5> QED BY <5>2, <5>3
        <4> HIDE DEF n
        <4>5. \A l \in Loopers, j \in Nat : Lies(l, j, i)' => (queue'[l][j].from # None => i \in SyncSends')
          BY <1>4, <2>1, <2>2, <4>4
        <4>6. \A l, e \in Loopers : \A j, k \in Nat : Lies(l, j, i)' /\ Lies(e, k, i)' => l = e /\ j = k
          BY <4>4
        <4> QED BY <3>1, <4>5, <4>6 DEF ListFits
      <3> QED BY <3>2, <3>4, <3>5 DEF FateFits
    <2>8. ASSUME NEW j \in MsgIds, j # i PROVE FateFits(j)'
      <3>1. KeepsList(j)
        BY <1>0, <1>3, <2>0, <2>8, ListsKept
      <3> QED BY <1>0, <2>0, <2>2, <2>6, <2>8, <3>1, OthersFit
    <2> QED BY <2>4, <2>7, <2>8 DEF Refines, FatesFit
  <1> QED BY <1>3, <1>6, <1>7

\* The loop of sendMessage.
LEMMA CheckRefines ==
  ASSUME MInv, LInv', NEW a \in Actors, SendCheck(a)
  PROVE  Refines
  <1>0. /\ LInv /\ top[a] > 0 /\ top' = top /\ Top(a).pc = "check" /\ Top(a).op = "send"
        /\ UNCHANGED <<queue, life, done, ack, nextId, fate>>
    BY DEF SendCheck, At, MInv
  <1>1. Aside
    BY <1>0, AsideWhen
  <1>2. ASSUME NEW pc \in InLoop, Goto(a, pc) PROVE Refines
    BY <1>0, <1>1, <1>2, GotoRefines DEF InLoop
  <1>3. ASSUME Top(a).id \in done, Becomes(a, EndOfCall(Top(a))) PROVE Refines
    <2> DEFINE f == EndOfCall(Top(a))
    <2>0. PICK i : i = Top(a).id
      OBVIOUS
    <2>1. f.pc = "body" /\ f.id = 0 /\ f.op = "none" /\ f.msg = Top(a).msg
      BY <1>0, EndFields
    <2>2. Replaced(a, f)
      BY <1>0, <1>3, Effects
    <2> HIDE DEF f
    <2>3. i \in MsgIds /\ FateFits(i) /\ fate[i] = "handled" /\ i \in SyncSends
      <3>1. i \in MsgIds /\ i \in done
        BY <1>0, <1>3, <2>0 DEF LInv, TypeOK
      <3>2. FateFits(i)
        BY <3>1 DEF MInv, FatesFit
      <3> QED BY <1>0, <2>0, <3>1, <3>2, CallOfTop DEF FateFits, StartFits
    <2>4. SyncSends' = SyncSends \ {i}
      BY <1>0, <2>0, <2>1, <2>2, <2>3, SendsChange DEF MInv
    <2>5. MailStep
      BY <1>0, <1>1, <2>3, <2>4, AsGetBack DEF Aside
    <2>6. QuietFrames
      BY <1>0, <2>1, <2>2, ReplacedQuiet
    <2>7. ASSUME NEW j \in MsgIds PROVE FateFits(j)'
      <3>1. Alike(f, Top(a))
        BY <1>0, <2>1 DEF Alike
      <3>2. KeepsStart(j) /\ KeepsList(j)
        BY <1>0, <1>1, <2>6 DEF KeepsStart, QuietFrames, Aside
      <3>3. KeepsRuns(j)
        BY <1>0, <2>1, <2>2, <3>1, RunsKept
      <3>4. KeepsSends(j)
        BY <2>3, <2>4 DEF KeepsSends
      <3>5. FateFits(j) /\ fate'[j] = fate[j] /\ ack \subseteq ack'
        BY <1>0 DEF MInv, FatesFit
      <3> QED BY <3>2, <3>3, <3>4, <3>5, KeptFate
    <2> QED BY <2>5, <2>7 DEF Refines, FatesFit
  <1>4. (Top(a).id \in done /\ Becomes(a, EndOfCall(Top(a)))) \/ \E pc \in InLoop : Goto(a, pc)
    BY DEF SendCheck, InLoop
  <1> QED BY <1>2, <1>3, <1>4

\* Run stops, or steps again.
LEMMA RunRefines ==
  ASSUME MInv, LInv', NEW l \in Loopers, RunCheck(l)
  PROVE  Refines
  <1>0. /\ LInv /\ l \in Actors /\ top[l] > 0 /\ Top(l).pc = "check" /\ Top(l).cb = "run"
        /\ UNCHANGED <<queue, done, ack, nextId, fate>>
    BY DEF RunCheck, At, MInv, Actors
  <1>1. CASE Goto(l, "get") /\ UNCHANGED <<life, top>>
    <2>1. Aside
      BY <1>0, <1>1, AsideWhen
    <2> QED BY <1>0, <1>1, <2>1, GotoRefines DEF InLoop
  <1>2. CASE MayStop(l) /\ life' = [life EXCEPT ![l] = "stopped"] /\ Return(l)
    <2>1. life[l] = "run" /\ life \in [Loopers -> {"run", "stopped", "exited"}]
      BY <1>0 DEF MInv, StoppedIsDrained, LInv, TypeOK
    <2>2. BoxOf(l) = <<>>
      BY <1>2, EmptyBox DEF MayStop
    <2>3. Top(l).op # "send"
      BY <1>0, TidyFrames DEF MInv
    <2>4. Popped(l)
      BY <1>0, <1>2, Effects
    <2>5. SyncSends' = SyncSends
      BY <1>0, <2>3, <2>4, SendsKept
    <2>6. MailStep
      BY <1>0, <1>2, <2>1, <2>2, <2>5, Boxes, AsClose
    <2>7. ASSUME NEW i \in MsgIds PROVE FateFits(i)'
      <3>1. QuietFrames
        BY <1>0, <2>4, PoppedQuiet
      <3>2. KeepsStart(i)
        BY <1>0, <3>1 DEF KeepsStart, QuietFrames
      <3>3. KeepsList(i) /\ KeepsRuns(i) /\ KeepsSends(i)
        BY <1>0, <2>4, <2>5, ListsKept, RunsKept DEF KeepsSends
      <3>4. FateFits(i) /\ fate'[i] = fate[i] /\ ack \subseteq ack'
        BY <1>0 DEF MInv, FatesFit
      <3> QED BY <3>2, <3>3, <3>4, KeptFate
    <2> QED BY <2>6, <2>7 DEF Refines, FatesFit
  <1> QED BY <1>1, <1>2 DEF RunCheck

\* The first message of the list is taken.
LEMMA TakeRefines ==
  ASSUME MInv, LInv', NEW l \in Loopers, Dispatch(l)
  PROVE  Refines
  <1> DEFINE f == DispatchFrame(l, Head(queue[l]))
  <1>m. PICK m : m = Head(queue[l])
    OBVIOUS
  <1>0. /\ LInv /\ queue[l] # <<>> /\ m \in GoodMsg /\ m = queue[l][1] /\ 1 \in 1..Len(queue[l])
        /\ queue' = [queue EXCEPT ![l] = Tail(queue[l])] /\ Call(l, "check", f)
        /\ top[l] > 0 /\ l \in Actors /\ "check" \in InLoop
    BY <1>m, DispatchEffect DEF MInv
  <1>1. f \in GoodFrame /\ f.id = 0 /\ f.op = "none" /\ f.pc = "body" /\ f.msg = m
    BY <1>0, <1>m, CalledFrames
  <1> HIDE DEF f
  <1>2. /\ Top(l).pc \in InLoop /\ UNCHANGED <<life, nextId, done, ack>>
        /\ fate' = IF m.id = 0 THEN fate ELSE [fate EXCEPT ![m.id] = "taken"]
    BY <1>m DEF Dispatch, At, InLoop
  <1>3. Stacked(l, "check", f) /\ top[l] < MaxDepth
    BY <1>0, <1>1, Effects
  <1>4. QuietFrames
    BY <1>0, <1>1, <1>3, StackedQuiet
  <1>5. SyncSends' = SyncSends
    <2>1. f.op # "send"
      BY <1>1
    <2> QED BY <1>0, <1>3, <2>1, SendsKept
  <1>6. SameOpen
    BY <1>2 DEF SameOpen
  <1>7. \A j \in MsgIds : KeepsList(j) /\ KeepsStart(j)
    BY <1>0, <1>2, <1>4, ListsKept DEF KeepsStart, QuietFrames
  <1>8. ASSUME NEW j \in MsgIds, m.id # j PROVE KeepsRuns(j)
    BY <1>0, <1>1, <1>2, <1>3, <1>8, RunsKept
  <1>9. CASE m.id = 0
    <2>1. \A j \in MsgIds : KeepsRuns(j)
      <3>1. \A j \in MsgIds : m.id # j
        BY <1>9, ConstantsAssumption DEF MsgIds
      <3> QED BY <1>8, <3>1
    <2>2. Aside
      BY <1>0, <1>2, <1>6, <1>7, <1>9, <1>m, Boxes DEF Aside
    <2> QED BY <1>4, <1>5, <2>1, <2>2, QuietRefines
  <1>10. ASSUME NEW i \in MsgIds, m.id = i PROVE Refines
    <2>0. i # 0 /\ fate' = [fate EXCEPT ![i] = "taken"]
      BY <1>2, <1>10, ConstantsAssumption DEF MsgIds
    <2>1. FateFits(i) /\ Lies(l, 1, i)
      BY <1>0, <1>10 DEF MInv, FatesFit, Lies
    <2>2. /\ fate[i] = "queued" /\ (m.from # None => i \in SyncSends)
          /\ \A d \in Loopers, j \in Nat : Lies(d, j, i) => d = l /\ j = 1
      BY <1>0, <2>1 DEF FateFits, ListFits
    <2>3. life[l] = "run"
      BY <1>0 DEF MInv, StoppedIsDrained
    <2>4. MailStep
      <3>1. /\ BoxOf(l) # <<>> /\ Head(BoxOf(l)) = i
            /\ \A d \in Loopers : BoxOf(d)' = IF d = l THEN Tail(BoxOf(d)) ELSE BoxOf(d)
        BY <1>0, <1>m, <1>10, <2>0, Boxes
      <3> QED BY <1>2, <1>5, <1>6, <2>0, <2>2, <2>3, <3>1, AsTake
    <2>5. FateFits(i)'
      <3>1. fate'[i] = "taken" /\ NotRun(i)
        BY <1>0, <2>0, <2>1, <2>2, Nowhere DEF LInv, TypeOK
      <3>2. StartFits(i)'
        <4>1. \A a \in Actors, k \in 1..MaxDepth : ~Pushes(a, k, i)'
          BY <1>4, <2>1, <2>2, Nowhere DEF QuietFrames
        <4>2. ~(i >= nextId') /\ i \notin done'
          BY <1>2, <2>1, <2>2, Nowhere
        <4> QED BY <4>1, <4>2 DEF StartFits
      <3>3. Unlisted(i)'
        <4>1. queue \in [Loopers -> Seq(GoodMsg)]
          BY <1>0 DEF LInv, Shape
        <4>2. \A d \in Loopers : queue'[d] = IF d = l THEN Tail(queue[l]) ELSE queue[d]
          BY <1>0, <4>1
        <4>3. \A j \in 1..Len(Tail(queue[l])) :
                /\ j + 1 \in 1..Len(queue[l]) /\ Tail(queue[l])[j] = queue[l][j + 1]
                /\ j + 1 # 1 /\ j + 1 \in Nat
          BY <1>0, <4>1
        <4>4. ASSUME NEW d \in Loopers, NEW j \in Nat, Lies(d, j, i)' PROVE FALSE
          <5>1. j \in 1..Len(queue'[d]) /\ queue'[d][j].id = i
            BY <4>4 DEF Lies
          <5>2. CASE d = l
            <6>1. queue'[d] = Tail(queue[l])
              BY <4>2, <5>2
            <6>2. Lies(l, j + 1, i) /\ j + 1 \in Nat /\ j + 1 # 1
              BY <4>3, <5>1, <5>2, <6>1 DEF Lies
            <6> QED BY <2>2, <6>2
          <5>3. CASE d # l
            <6>1. Lies(d, j, i)
              BY <4>2, <5>1, <5>3 DEF Lies
            <6> QED BY <2>2, <5>3, <6>1
          <5> QED BY <5>2, <5>3
        <4> QED BY <4>4 DEF Unlisted
      <3>4. RunFits(i)'
        <4>1. ASSUME NEW d \in Loopers, NEW k \in 1..MaxDepth, Runs(d, k, i)'
              PROVE  d = l /\ k = top[l] + 1 /\ frame'[d][k] = f
          <5>0. d \in Actors /\ top[d] \in 0..MaxDepth /\ top[l] \in 1..MaxDepth /\ Top(l) = frame[l][top[l]]
            BY <1>0, TopType DEF Actors, LInv, TypeOK
          <5>1. k \in 1..top'[d] /\ frame'[d][k].msg.id = i
            BY <4>1 DEF Runs
          <5> DEFINE g == [Top(l) EXCEPT !.pc = "check"]
          <5>2. g.msg = Top(l).msg
            BY <1>0, GotoFields
          <5>3. /\ top'[d] = IF d = l THEN top[l] + 1 ELSE top[d]
                /\ frame'[d][k] = IF d = l /\ k = top[l] THEN g
                                  ELSE IF d = l /\ k = top[l] + 1 THEN f ELSE frame[d][k]
            BY <1>3, <5>0 DEF Stacked
          <5> HIDE DEF g
          <5>4. CASE d = l /\ k = top[l]
            <6>1. Runs(d, k, i)
              BY <5>0, <5>1, <5>2, <5>3, <5>4 DEF Runs
            <6> QED BY <3>1, <6>1 DEF NotRun
          <5>5. CASE ~(d = l /\ k = top[l]) /\ ~(d = l /\ k = top[l] + 1)
            <6>1. k \in 1..top[d]
              BY <5>0, <5>1, <5>3, <5>5
            <6>2. Runs(d, k, i)
              BY <5>1, <5>3, <5>5, <6>1 DEF Runs
            <6> QED BY <3>1, <6>2 DEF NotRun
          <5> QED BY <5>3, <5>4, <5>5
        <4>2. ASSUME NEW d \in Loopers, NEW k \in 1..MaxDepth, Runs(d, k, i)'
              PROVE  /\ ~Woke(d, k)' /\ frame'[d][k].pc # "reply"
                     /\ frame'[d][k].msg.from # None => i \in SyncSends'
          <5>1. frame'[d][k] = f
            BY <4>1, <4>2
          <5> QED BY <1>1, <1>5, <2>2, <5>1 DEF Woke
        <4>3. ASSUME NEW d \in Loopers, NEW e \in Loopers, NEW j \in 1..MaxDepth, NEW k \in 1..MaxDepth,
                     Runs(d, j, i)', Runs(e, k, i)'
              PROVE  d = e /\ j = k
          <5>1. d = l /\ j = top[l] + 1 /\ e = l /\ k = top[l] + 1
            BY <4>1, <4>3
          <5> QED BY <5>1
        <4> QED BY <3>1, <4>2, <4>3 DEF RunFits
      <3>5. ListFits(i)'
        BY <2>1, <3>3, Nowhere
      <3> QED BY <3>2, <3>4, <3>5 DEF FateFits
    <2>6. ASSUME NEW j \in MsgIds, j # i PROVE FateFits(j)'
      <3>1. KeepsRuns(j)
        BY <1>8, <1>10, <2>6
      <3> QED BY <1>2, <1>5, <1>7, <2>0, <2>6, <3>1, OthersFit
    <2> QED BY <2>4, <2>5, <2>6 DEF Refines, FatesFit
  <1>11. m.id = 0 \/ m.id \in MsgIds
    BY <1>0, ConstantsAssumption DEF GoodMsg, Msg, MsgIds
  <1> QED BY <1>9, <1>10, <1>11

\* The message that the top frame runs.
LEMMA RunOfTop ==
  ASSUME MInv, NEW l \in Loopers, top[l] > 0, NEW i \in MsgIds, Top(l).msg.id = i,
         Top(l).pc \in {"body", "reply"}
  PROVE  /\ FateFits(i) /\ fate[i] = "taken" /\ (Top(l).msg.from # None => i \in SyncSends)
         /\ top[l] \in 1..MaxDepth /\ (Top(l).pc = "reply" => i \in ack)
         /\ \A d \in Loopers, k \in 1..MaxDepth : Runs(d, k, i) => d = l /\ k = top[l]
  <1>0. l \in Actors /\ LInv /\ FateFits(i)
    BY DEF Actors, MInv, FatesFit
  <1>1. top[l] \in 1..MaxDepth /\ Top(l) = frame[l][top[l]] /\ top[l] \in 1..top[l]
    BY <1>0, TopType, DepthType
  <1>2. Runs(l, top[l], i) /\ ~Woke(l, top[l])
    BY <1>1 DEF Runs, Woke
  <1> QED BY <1>0, <1>1, <1>2 DEF FateFits, RunFits

\* Nobody waits for a message that asks for no answer.
LEMMA PostedIsNotSent ==
  ASSUME MInv, LInv', NEW l \in Loopers, top[l] > 0, NEW i \in MsgIds, Top(l).msg.id = i, Top(l).msg.from = None
  PROVE  i \notin SyncSends
  <1>0. l \in Actors /\ LInv /\ IdFits(i)
    BY DEF Actors, MInv, IdsFit
  <1>1. top[l] \in 1..top[l] /\ Top(l) = frame[l][top[l]]
    BY <1>0, TopType, DepthType
  <1>2. Exists(i, None) /\ None \in Senders
    BY <1>1 DEF Exists, InHandler, Senders
  <1>3. ASSUME NEW a \in Actors, NEW k \in 1..MaxDepth, Sends(a, k, i) PROVE FALSE
    <2>1. SleepsOn(a) = None
      BY <1>0, <1>2, <1>3 DEF IdFits
    <2>2. CASE a \in Threads
      <3>1. top[a] = 1 /\ (frame[a][1].op = "send" => tls[a] \in TlsLoopers)
        BY <1>0, <2>2 DEF LInv, Shape
      <3>2. k = 1 /\ frame[a][1].op = "send"
        BY <1>3, <3>1 DEF Sends, Calls
      <3> QED BY <2>1, <2>2, <3>1, <3>2, ConstantsAssumption DEF SleepsOn
    <2>3. CASE a \notin Threads
      BY <2>1, <2>3, ConstantsAssumption DEF SleepsOn, Actors
    <2> QED BY <2>2, <2>3
  <1>4. SyncByFrame
    BY <1>0, SyncOf
  <1> QED BY <1>3, <1>4 DEF SyncByFrame

\* A handler returns whose message asks for no answer.
LEMMA FinishRefines ==
  ASSUME MInv, LInv', NEW l \in Loopers, top[l] > 0, Top(l).pc = "body", Top(l).msg.from = None, Return(l),
         fate' = IF Top(l).msg.id = 0 THEN fate ELSE [fate EXCEPT ![Top(l).msg.id] = "handled"],
         UNCHANGED <<nextId, done, ack>>, SameBoxes, SameOpen, \A j \in MsgIds : KeepsList(j)
  PROVE  Refines
  <1>0. LInv /\ l \in Actors /\ Top(l).op # "send"
    <2>1. LInv /\ l \in Actors /\ top[l] \in 1..top[l]
      BY TopType, DepthType DEF MInv, Actors
    <2>2. FrameTidy(frame[l][top[l]])
      BY <2>1 DEF MInv, Tidy
    <2> QED BY <2>1, <2>2 DEF FrameTidy, InCall, InLoop, Top
  <1>1. Top(l).msg.id = 0 \/ Top(l).msg.id \in MsgIds
    BY <1>0, TopType, ConstantsAssumption DEF GoodFrame, FrameOK, GoodMsg, Msg, MsgIds
  <1>2. CASE Top(l).msg.id = 0
    <2>1. Aside
      BY <1>2 DEF Aside
    <2> QED BY <1>0, <2>1, ReturnRefines
  <1>3. ASSUME NEW i \in MsgIds, Top(l).msg.id = i PROVE Refines
    <2>0. fate' = [fate EXCEPT ![i] = "handled"]
      BY <1>3, ConstantsAssumption DEF MsgIds
    <2>1. /\ FateFits(i) /\ fate[i] = "taken" /\ i \notin SyncSends /\ top[l] \in 1..MaxDepth
          /\ \A d \in Loopers, k \in 1..MaxDepth : Runs(d, k, i) => d = l /\ k = top[l]
      BY <1>3, RunOfTop, PostedIsNotSent
    <2>2. Popped(l)
      BY <1>0, Effects
    <2>3. SyncSends' = SyncSends
      BY <1>0, <2>2, SendsKept
    <2>4. MailStep
      BY <2>0, <2>1, <2>3, AsFinish
    <2>5. QuietFrames /\ \A j \in MsgIds : KeepsRuns(j)
      BY <1>0, <2>2, PoppedQuiet, RunsKept
    <2>6. \A j \in MsgIds : KeepsStart(j)
      BY <2>5 DEF KeepsStart, QuietFrames
    <2>7. FateFits(i)'
      <3>1. fate'[i] = "handled"
        BY <1>0, <2>0 DEF LInv, TypeOK
      <3>2. NotRun(i)'
        <4>1. \A k \in 1..MaxDepth : k = top[l] => ~Runs(l, k, i)'
          BY <1>0, <2>1, <2>2 DEF Popped, Runs
        <4>2. \A d \in Loopers, k \in 1..MaxDepth : Runs(d, k, i)' => d = l /\ k = top[l]
          BY <2>1, <2>5 DEF KeepsRuns
        <4> QED BY <4>1, <4>2 DEF NotRun
      <3>3. ListFits(i)' /\ RunFits(i)'
        BY <2>1, <3>2, Nowhere
      <3>4. StartFits(i)'
        <4>1. \A a \in Actors, k \in 1..MaxDepth : ~Pushes(a, k, i)'
          BY <2>1, <2>5, Nowhere DEF QuietFrames
        <4>2. ~(i >= nextId')
          BY <2>1, Nowhere
        <4> QED BY <3>1, <4>1, <4>2 DEF StartFits
      <3> QED BY <3>3, <3>4 DEF FateFits
    <2>8. \A j \in MsgIds : j # i => FateFits(j)'
      BY <2>0, <2>3, <2>5, <2>6, OthersFit
    <2> QED BY <2>4, <2>7, <2>8 DEF Refines, FatesFit
  <1> QED BY <1>1, <1>2, <1>3

\* The answer is written.
LEMMA AnswerRefines ==
  ASSUME MInv, LInv', NEW l \in Loopers, top[l] > 0, Top(l).pc = "body", Top(l).msg.from # None,
         ack' = ack \cup {Top(l).msg.id}, Goto(l, "reply"), top' = top,
         UNCHANGED <<fate, queue, life, nextId, done>>
  PROVE  Refines
  <1> DEFINE f == [Top(l) EXCEPT !.pc = "reply"]
  <1>i. PICK i : i = Top(l).msg.id
    OBVIOUS
  <1>0. LInv /\ l \in Actors
    BY DEF MInv, Actors
  <1>1. i \in MsgIds
    BY <1>0, <1>i, TopType, ConstantsAssumption DEF GoodFrame, FrameOK, GoodMsg, Msg, MsgIds
  <1>2. /\ FateFits(i) /\ fate[i] = "taken" /\ i \in SyncSends /\ top[l] \in 1..MaxDepth
        /\ \A d \in Loopers, k \in 1..MaxDepth : Runs(d, k, i) => d = l /\ k = top[l]
    BY <1>1, <1>i, RunOfTop
  <1>3. f.pc = "reply" /\ f.id = Top(l).id /\ f.op = Top(l).op /\ f.msg = Top(l).msg
    BY <1>0, GotoFields
  <1>4. Replaced(l, f)
    BY <1>0, Effects DEF Goto
  <1> HIDE DEF f
  <1>5. SyncSends' = SyncSends
    BY <1>0, <1>3, <1>4, SendsKept
  <1>6. SameBoxes /\ SameOpen
    BY <1>0, Boxes DEF SameOpen
  <1>7. MailStep
    BY <1>1, <1>2, <1>i, <1>5, <1>6, AsAnswer
  <1>8. QuietFrames
    BY <1>0, <1>3, <1>4, ReplacedQuiet
  <1>9. \A j \in MsgIds : KeepsStart(j) /\ KeepsList(j) /\ KeepsSends(j)
    BY <1>0, <1>5, <1>8, ListsKept DEF KeepsStart, QuietFrames, KeepsSends
  <1>10. ASSUME NEW j \in MsgIds PROVE FateFits(j)'
    <2>1. FateFits(j) /\ fate'[j] = fate[j] /\ ack \subseteq ack'
      BY DEF MInv, FatesFit
    <2>2. CASE j # i
      <3>1. KeepsRuns(j)
        BY <1>0, <1>i, <1>3, <1>4, <2>2, RunsKept
      <3> QED BY <1>9, <2>1, <3>1, KeptFate
    <2>3. CASE j = i
      <3>1. StartFits(i)' /\ ListFits(i)'
        BY <1>1, <1>9, <2>1, <2>3, KeptStart, KeptList DEF FateFits
      <3>2. ASSUME NEW d \in Loopers, NEW k \in 1..MaxDepth, Runs(d, k, i)'
            PROVE  d = l /\ k = top[l] /\ frame'[d][k] = f
        <4>1. d \in Actors /\ k \in 1..top[d] /\ frame'[d][k].msg.id = i
              /\ frame'[d][k] = IF d = l /\ k = top[l] THEN f ELSE frame[d][k]
          BY <1>4, <3>2 DEF Replaced, Runs, Actors
        <4>2. ~(d = l /\ k = top[l]) => Runs(d, k, i)
          BY <4>1 DEF Runs
        <4> QED BY <1>2, <4>1, <4>2
      <3>3. ASSUME NEW d \in Loopers, NEW k \in 1..MaxDepth, Runs(d, k, i)'
            PROVE  ~Woke(d, k)'
        <4>1. frame'[d][k] = f
          BY <3>2, <3>3
        <4> QED BY <1>3, <4>1 DEF Woke
      <3>4. fate'[i] = "taken" /\ i \in SyncSends' /\ i \in ack'
        BY <1>2, <1>i, <1>5
      <3>5. RunFits(i)'
        BY <3>2, <3>3, <3>4 DEF RunFits
      <3> QED BY <2>3, <3>1, <3>5 DEF FateFits
    <2> QED BY <2>2, <2>3
  <1> QED BY <1>7, <1>10 DEF Refines, FatesFit

\* The done flag is set.
LEMMA DoneRefines ==
  ASSUME MInv, LInv', NEW l \in Loopers, SetDone(l)
  PROVE  Refines
  <1> DEFINE f == [Top(l) EXCEPT !.pc = "wake"]
  <1>i. PICK i : i = Top(l).msg.id
    OBVIOUS
  <1>0. /\ LInv /\ l \in Actors /\ top[l] > 0 /\ Top(l).pc = "reply" /\ top' = top
        /\ done' = done \cup {i} /\ fate' = [fate EXCEPT ![i] = "handled"] /\ Goto(l, "wake")
        /\ UNCHANGED <<queue, life, ack, nextId>>
    BY <1>i DEF MInv, Actors, SetDone, At
  <1>1. i \in MsgIds
    BY <1>0, <1>i, TopType, ConstantsAssumption DEF GoodFrame, FrameOK, GoodMsg, Msg, MsgIds
  <1>2. /\ FateFits(i) /\ fate[i] = "taken" /\ i \in ack /\ top[l] \in 1..MaxDepth
        /\ \A d \in Loopers, k \in 1..MaxDepth : Runs(d, k, i) => d = l /\ k = top[l]
    BY <1>0, <1>1, <1>i, RunOfTop
  <1>3. f.pc = "wake" /\ f.id = Top(l).id /\ f.op = Top(l).op /\ f.msg = Top(l).msg
    BY <1>0, GotoFields
  <1>4. Replaced(l, f)
    BY <1>0, Effects DEF Goto
  <1> HIDE DEF f
  <1>5. SyncSends' = SyncSends
    BY <1>0, <1>3, <1>4, SendsKept
  <1>6. SameBoxes /\ SameOpen
    BY <1>0, Boxes DEF SameOpen
  <1>7. MailStep
    BY <1>0, <1>1, <1>2, <1>5, <1>6, AsFinish
  <1>8. QuietFrames
    BY <1>0, <1>3, <1>4, ReplacedQuiet
  <1>9. \A j \in MsgIds : KeepsList(j)
    BY <1>0, ListsKept
  <1>10. ASSUME NEW j \in MsgIds, j # i PROVE FateFits(j)'
    <2>1. KeepsStart(j)
      BY <1>0, <1>8, <1>10 DEF KeepsStart, QuietFrames
    <2>2. KeepsRuns(j)
      BY <1>0, <1>i, <1>3, <1>4, <1>10, RunsKept
    <2> QED BY <1>0, <1>1, <1>5, <1>9, <1>10, <2>1, <2>2, OthersFit
  <1>11. FateFits(i)'
    <2>1. fate'[i] = "handled"
      BY <1>0, <1>1 DEF LInv, TypeOK
    <2>2. StartFits(i)'
      <3>1. \A a \in Actors, k \in 1..MaxDepth : ~Pushes(a, k, i)'
        BY <1>1, <1>2, <1>8, Nowhere DEF QuietFrames
      <3>2. ~(i >= nextId')
        BY <1>0, <1>1, <1>2, Nowhere
      <3> QED BY <2>1, <3>1, <3>2 DEF StartFits
    <2>3. ListFits(i)'
      BY <1>1, <1>2, <1>9, Nowhere
    <2>4. ASSUME NEW d \in Loopers, NEW k \in 1..MaxDepth, Runs(d, k, i)'
          PROVE  d = l /\ k = top[l] /\ frame'[d][k] = f
      <3>1. d \in Actors /\ k \in 1..top[d] /\ frame'[d][k].msg.id = i
            /\ frame'[d][k] = IF d = l /\ k = top[l] THEN f ELSE frame[d][k]
        BY <1>0, <1>4, <2>4 DEF Replaced, Runs, Actors
      <3>2. ~(d = l /\ k = top[l]) => Runs(d, k, i)
        BY <3>1 DEF Runs
      <3> QED BY <1>2, <3>1, <3>2
    <2>5. ASSUME NEW d \in Loopers, NEW k \in 1..MaxDepth, Runs(d, k, i)'
          PROVE  Woke(d, k)' /\ frame'[d][k].pc # "reply"
      <3>1. frame'[d][k] = f
        BY <2>4, <2>5
      <3> QED BY <1>3, <3>1 DEF Woke
    <2>6. RunFits(i)'
      BY <2>1, <2>4, <2>5 DEF RunFits
    <2> QED BY <2>2, <2>3, <2>6 DEF FateFits
  <1> QED BY <1>7, <1>10, <1>11 DEF Refines, FatesFit

\* The handlers.
LEMMA HandlerRefines ==
  ASSUME MInv, LInv', NEW l \in Loopers,
         \/ HandlerReturns(l) \/ Wakeup(l) \/ WakeupRing(l) \/ OnQuit(l) \/ OnDestroy(l)
  PROVE  Refines
  <1>0. /\ LInv /\ l \in Actors /\ top[l] > 0 /\ UNCHANGED <<life, done, nextId>> /\ SameOpen
        /\ Top(l).op = "none" /\ Top(l).id = 0 /\ Top(l).cb # "run"
    <2>1. /\ LInv /\ l \in Actors /\ top[l] > 0 /\ UNCHANGED <<life, done, nextId>>
          /\ Top(l).pc \in {"body", "wake", "wakering"}
      BY DEF HandlerReturns, Wakeup, WakeupRing, OnQuit, OnDestroy, At, Actors, MInv
    <2>2. top[l] \in 1..top[l]
      BY <2>1, TopType, DepthType
    <2>3. FrameTidy(frame[l][top[l]])
      BY <2>1, <2>2 DEF MInv, Tidy
    <2> QED BY <2>1, <2>3 DEF FrameTidy, InCall, InLoop, Top, SameOpen
  <1>1. CASE HandlerReturns(l)
    <2>1. Top(l).pc = "body" /\ queue' = queue
      BY <1>1 DEF HandlerReturns, At
    <2>2. CASE ~Answers(Top(l).msg)
      <3>1. /\ Top(l).msg.from = None /\ Return(l) /\ ack' = ack
            /\ fate' = IF Top(l).msg.id = 0 THEN fate ELSE [fate EXCEPT ![Top(l).msg.id] = "handled"]
        BY <1>1, <2>2 DEF HandlerReturns, Answers
      <3>2. SameBoxes /\ \A j \in MsgIds : KeepsList(j)
        BY <1>0, <2>1, Boxes, ListsKept
      <3> QED BY <1>0, <2>1, <3>1, <3>2, FinishRefines
    <2>3. CASE Answers(Top(l).msg)
      <3>1. /\ Top(l).msg.from # None /\ Goto(l, "reply") /\ ack' = ack \cup {Top(l).msg.id}
            /\ UNCHANGED <<top, fate>>
        BY <1>1, <2>3 DEF HandlerReturns, Answers
      <3> QED BY <1>0, <2>1, <3>1, AnswerRefines
    <2> QED BY <2>2, <2>3
  <1>2. CASE Wakeup(l)
    <2>1. Aside
      BY <1>0, <1>2, QuitBoxes, ListsKept DEF Aside, Wakeup
    <2>2. Top(l).pc = "wake" /\ (Return(l) \/ (top' = top /\ Goto(l, "wakering")))
      BY <1>2 DEF Wakeup, At
    <2> QED BY <1>0, <2>1, <2>2, GotoRefines, ReturnRefines
  <1>3. CASE WakeupRing(l)
    <2>1. Aside /\ Return(l)
      BY <1>0, <1>3, AsideWhen DEF WakeupRing
    <2> QED BY <1>0, <2>1, ReturnRefines
  <1>4. CASE OnQuit(l)
    <2>1. /\ Top(l).pc = "body" /\ Return(l) /\ ack' = ack /\ Top(l).msg.kind = "quit"
          /\ fate' = IF Top(l).msg.id = 0 THEN fate ELSE [fate EXCEPT ![Top(l).msg.id] = "handled"]
      BY <1>4 DEF OnQuit, At
    <2>2. Top(l).msg.from = None
      BY <1>0, <2>1, TopType DEF GoodFrame, FrameOK, GoodMsg
    <2>3. SameBoxes /\ \A j \in MsgIds : KeepsList(j)
      BY <1>0, <1>4, QuitBoxes, ListsKept
    <2> QED BY <1>0, <2>1, <2>2, <2>3, FinishRefines
  <1>5. CASE OnDestroy(l)
    <2>1. Aside /\ Top(l).pc = "body"
      BY <1>0, <1>5, AsideWhen DEF OnDestroy, At
    <2>2. CASE Return(l)
      BY <1>0, <2>1, <2>2, ReturnRefines
    <2>3. ASSUME NEW g, Becomes(l, g), top' = top, g.id = Top(l).id, g.msg = Top(l).msg,
                 (g.pc = "push" /\ g.op = "post") \/ (g.pc = "body" /\ g.op = Top(l).op)
          PROVE  Refines
      <3>1. Replaced(l, g)
        BY <1>0, <2>3, Effects
      <3>2. QuietFrames
        BY <1>0, <2>3, <3>1, ReplacedQuiet
      <3>3. Alike(g, Top(l))
        BY <2>1, <2>3 DEF Alike
      <3>4. \A i \in MsgIds : KeepsRuns(i)
        BY <1>0, <2>3, <3>1, <3>3, RunsKept
      <3>5. SyncSends' = SyncSends
        BY <1>0, <2>3, <3>1, SendsKept
      <3> QED BY <2>1, <3>2, <3>4, <3>5, QuietRefines
    <2> QED BY <1>0, <1>5, <2>2, <2>3, DestroyEffect
  <1> QED BY <1>1, <1>2, <1>3, <1>4, <1>5

-----------------------------------------------------------------------------
(* The theorem *)

\* Every step keeps the invariant, and is a step of the mailboxes or none.
LEMMA RefinesStep == MInv /\ BelowOK /\ [Next]_vars => MInv' /\ BelowOK' /\ MailStep
  <1> SUFFICES ASSUME MInv, BelowOK, [Next]_vars PROVE MInv' /\ BelowOK' /\ MailStep
    OBVIOUS
  <1>1. LInv /\ StoppedIsDrained /\ Tidy /\ IdsFit
    BY DEF MInv
  <1>2. LInv' /\ StoppedIsDrained' /\ Tidy' /\ BelowOK' /\ IdsFit'
    BY <1>1, TypeStep, DrainedStep, IdsStep, FramesStep
  <1>3. \A kind \in PostKinds : kind \in {"user", "quit"}
    BY ConstantsAssumption
  <1>4. \A a \in Loopers \cup Threads : a \in Actors
    BY DEF Actors
  <1>5. ASSUME \/ \E a \in Actors, d \in Loopers, kind \in PostKinds : Post(a, kind, d)
               \/ \E l \in Loopers, d \in Loopers : SendFromLooper(l, d)
               \/ \E t \in Threads, d \in Loopers : SendFromThread(t, d)
        PROVE  Refines
    BY <1>2, <1>3, <1>4, <1>5, StartRefines DEF Post, SendFromLooper, SendFromThread
  <1>6. ASSUME NEW a \in Actors, CallStep(a) PROVE Refines
    BY <1>2, <1>6, RefuseRefines, AcceptRefines, CheckRefines, LoopRefines DEF CallStep
  <1>7. ASSUME NEW l \in Loopers, LoopStep(l) \/ Timeout(l) \/ Free(l) PROVE Refines
    BY <1>2, <1>7, RunRefines, TakeRefines, DoneRefines, HandlerRefines, LoopRefines DEF LoopStep
  <1>8. ASSUME NEW l \in Loopers, Callback(l, "timer") \/ Callback(l, "io") PROVE Refines
    BY <1>2, <1>8, CallbackRefines
  <1>9. ASSUME UNCHANGED vars PROVE Refines
    BY <1>2, <1>9, LoopRefines
  <1>10. Refines
    BY <1>5, <1>6, <1>7, <1>8, <1>9 DEF Next
  <1> QED BY <1>2, <1>10 DEF Refines, MInv

\* The loopers start with empty mailboxes.
LEMMA RefinesInit == Init => MInv /\ BelowOK /\ Mail!Init
  <1> SUFFICES ASSUME Init PROVE MInv /\ BelowOK /\ Mail!Init
    OBVIOUS
  <1>1. LInv /\ StoppedIsDrained /\ Tidy /\ IdsFit /\ BelowOK
    BY WakeupInv DEF WInv
  <1>2. \A a \in Actors : /\ top[a] = 1 /\ 1 \in 1..MaxDepth
                          /\ frame[a][1].id = 0 /\ frame[a][1].msg.id = 0 /\ frame[a][1].op = "none"
    <2>1. \A a \in Actors : /\ top[a] = 1 /\ 1 \in 1..MaxDepth
                            /\ frame[a][1] = IF a \in Loopers THEN Activation("run", NoMsg, "get")
                                                              ELSE Activation("thread", NoMsg, "body")
      BY DepthType DEF Init
    <2> QED BY <2>1 DEF Activation, NoMsg
  <1>3. /\ \A l \in Loopers : l \in Actors /\ queue[l] = <<>> /\ life[l] = "run"
        /\ done = {} /\ ack = {} /\ fate = [i \in MsgIds |-> "new"] /\ nextId = 1
    BY DEF Init, Actors
  <1>4. FatesFit
    <2>1. SUFFICES ASSUME NEW i \in MsgIds PROVE FateFits(i)
      BY DEF FatesFit
    <2>2. i # 0
      BY ConstantsAssumption DEF MsgIds
    <2>3. \A a \in Actors, k \in 1..MaxDepth : ~Pushes(a, k, i)
      BY <1>2, <2>2 DEF Pushes, Calls
    <2>4. \A l \in Loopers, k \in 1..MaxDepth : ~Runs(l, k, i)
      BY <1>2, <1>3, <2>2 DEF Runs
    <2>5. \A l \in Loopers, j \in Nat : ~Lies(l, j, i)
      BY <1>3 DEF Lies
    <2> QED BY <1>3, <2>3, <2>4, <2>5 DEF FateFits, StartFits, ListFits, RunFits
  <1>5. SyncSends = {}
    BY <1>2 DEF SyncSends
  <1>6. [l \in Loopers |-> BoxOf(l)] = [l \in Loopers |-> <<>>]
    <2>1. \A l \in Loopers : BoxOf(l) = <<>>
      BY <1>3, EmptyBox
    <2> QED BY <2>1, Zenon
  <1>7. [l \in Loopers |-> life[l] = "run"] = [l \in Loopers |-> TRUE]
    <2>1. \A l \in Loopers : (life[l] = "run") = TRUE
      BY <1>3, Zenon
    <2> QED BY <2>1, Zenon
  <1>8. Mail!Init
    BY <1>3, <1>5, <1>6, <1>7, Zenon DEF Mail!Init
  <1> QED BY <1>1, <1>4, <1>8 DEF MInv

\* The message loop implements Mailbox: whatever loopers, threads, timers and
\* sockets do, and however handlers nest inside sendMessage, a message is
\* refused or taken exactly once in the order of acceptance, a looper closes
\* with an empty list, and the caller of a synchronous send gets control back
\* after a refusal or after its answer was written.
THEOREM ImplementsMail == Spec => ImplementsMailbox
  <1>1. Init => MInv /\ BelowOK /\ Mail!Init
    BY RefinesInit
  <1>2. MInv /\ BelowOK /\ [Next]_vars => MInv' /\ BelowOK' /\ [Mail!Next]_(Mail!vars)
    BY RefinesStep DEF MailStep
  <1> QED BY <1>1, <1>2, PTL DEF Spec, ImplementsMailbox, Mail!Spec

=============================================================================
