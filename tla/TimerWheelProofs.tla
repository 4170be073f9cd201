-------------------------- MODULE TimerWheelProofs --------------------------
(***************************************************************************)
(* Theorems about TimerWheel, for wheels of any number and size, any       *)
(* timers and any intervals.                                               *)
(***************************************************************************)
EXTENDS TimerWheel, WellFoundedInduction, TLAPS

-----------------------------------------------------------------------------
(* The inductive invariant *)

\* How many spokes of each wheel have been turned at time n.
Base(n) == [w \in Wheels |-> n \div Unit[w]]

\* A node on a spoke, the wheels having been turned b times: the spoke is emptied after k more
\* turns, which is no later than d; from the lowest wheel, no earlier than sl before d.
OnSpoke(p, b, d, sl, w, k) ==
  /\ p = <<w, k % Size(w)>>
  /\ b[w] <= k /\ Unit[w] * (k + 1) <= d + 1
  /\ w = 0 => k < b[0] + SIZE1 /\ d <= k + sl
OnWheel(p, b, d, sl) == \E w \in Wheels, k \in Nat : OnSpoke(p, b, d, sl, w, k)

\* A node may be ready when it is due, or almost.
NodeFits(p, b, d, sl) ==
  p = Nowhere \/ (p = Ready /\ (d <= now \/ d < now + sl)) \/ OnWheel(p, b, d, sl)

Types ==
  /\ now \in 0..MaxTime /\ startTick \in 0..MaxTime /\ startTick + loops <= now
  /\ timerMap \subseteq Timers
  /\ index \in [Wheels -> Nat] /\ place \in [Timers -> Nat \X Nat]
  /\ dead \in [Timers -> Nat] /\ interval \in [Timers -> Nat \ {0}]
  /\ pc \in {"out", "wheel", "fire", "call"}
  /\ loops \in Nat /\ tickNow \in Nat /\ slack \in [Timers -> Nat]
  /\ pc \in {"fire", "call"} => startTick <= tickNow

\* The wheels show startTick.
IndexFits == \A w \in Wheels : index[w] = Base(startTick)[w] % Size(w)

NodesFit == \A t \in Timers : NodeFits(place[t], Base(startTick), dead[t], slack[t])

\* The loop of ProcessTimeOut ends with an empty list.
ReadyIsDrained == pc = "out" => \A t \in Timers : place[t] # Ready

Inv == Types /\ IndexFits /\ NodesFit /\ ListedIsMapped /\ ReadyIsDrained

-----------------------------------------------------------------------------
(* Numbers *)

\* A set of natural numbers has a least one.
LEMMA LeastNat ==
  ASSUME NEW S \in SUBSET Nat, S # {}
  PROVE  \E x \in S : \A y \in S : x <= y
  <1> DEFINE R == OpToRel(<, Nat)
  <1>1. IsWellFoundedOn(R, Nat)
    BY NatLessThanWellFounded
  <1>2. \A x, y \in Nat : y < x => <<y, x>> \in R
    BY DEF OpToRel
  <1> HIDE DEF R
  <1>3. PICK x \in S : \A y \in S : ~(<<y, x>> \in R)
    BY <1>1, WFMin
  <1>4. \A y \in S : x \in Nat /\ y \in Nat /\ ~(y < x)
    BY <1>2, <1>3
  <1> QED BY <1>3, <1>4

\* Quotient and remainder.
LEMMA DivMod ==
  ASSUME NEW n \in Nat, NEW d \in Nat \ {0}
  PROVE  /\ n \div d \in Nat /\ n % d \in Nat /\ n % d < d
         /\ n = d * (n \div d) + (n % d)
  <1> DEFINE q == n \div d
             r == n % d
  <1>1. q \in Nat /\ r \in Nat /\ r < d
    OBVIOUS
  <1>2. r = n - d * q
    OBVIOUS
  <1> HIDE DEF q, r
  <1>3. n = d * q + r
    BY <1>1, <1>2
  <1> QED BY <1>1, <1>3, Zenon DEF q, r

\* They are unique.
LEMMA DivModUnique ==
  ASSUME NEW n \in Nat, NEW d \in Nat \ {0}, NEW q \in Nat, NEW r \in Nat, r < d, n = d * q + r
  PROVE  n \div d = q /\ n % d = r
  OBVIOUS

\* The quotient goes up when the remainder comes round.
LEMMA NextDiv ==
  ASSUME NEW n \in Nat, NEW d \in Nat \ {0}
  PROVE  IF (n + 1) % d = 0 THEN (n + 1) \div d = (n \div d) + 1 ELSE (n + 1) \div d = n \div d
  <1> DEFINE q == n \div d
             r == n % d
  <1>1. q \in Nat /\ r \in Nat /\ r < d /\ n = d * q + r
    BY DivMod
  <1> HIDE DEF q, r
  <1>2. CASE r + 1 < d
    <2>1. n + 1 = d * q + (r + 1)
      BY <1>1
    <2>2. (n + 1) \div d = q /\ (n + 1) % d = r + 1
      <3>1. n + 1 \in Nat /\ q \in Nat /\ r + 1 \in Nat
        BY <1>1
      <3> QED BY <1>2, <2>1, <3>1, DivModUnique, Zenon
    <2>3. r + 1 # 0
      BY <1>1
    <2> QED BY <2>2, <2>3 DEF q
  <1>3. CASE r + 1 = d
    <2>1. n + 1 = d * (q + 1) + 0
      BY <1>1, <1>3
    <2>2. (n + 1) \div d = q + 1 /\ (n + 1) % d = 0
      BY <1>1, <2>1, DivModUnique
    <2> QED BY <2>2 DEF q
  <1> QED BY <1>1, <1>2, <1>3

\* The remainder of a sum.
LEMMA ModAdd ==
  ASSUME NEW m \in Nat, NEW a \in Nat, NEW d \in Nat \ {0}
  PROVE  (a + (m % d)) % d = (a + m) % d
  <1> DEFINE q == m \div d
             r == m % d
             p == (a + r) \div d
             s == (a + r) % d
  <1>1. q \in Nat /\ r \in Nat /\ r < d /\ m = d * q + r
    BY DivMod
  <1> HIDE DEF q, r
  <1>2. p \in Nat /\ s \in Nat /\ s < d /\ a + r = d * p + s
    BY <1>1, DivMod
  <1> HIDE DEF p, s
  <1>3. a + m = d * (p + q) + s
    <2>1. d * (p + q) = d * p + d * q /\ d * p \in Nat /\ d * q \in Nat
      BY <1>1, <1>2
    <2> QED BY <1>1, <1>2, <2>1
  <1>4. a + m \in Nat /\ p + q \in Nat
    BY <1>1, <1>2
  <1>5. (a + m) % d = s
    BY <1>2, <1>3, <1>4, DivModUnique
  <1> QED BY <1>5 DEF s, r

\* The remainder comes round when it reaches the divisor.
LEMMA NextMod ==
  ASSUME NEW m \in Nat, NEW d \in Nat \ {0}
  PROVE  /\ ((m % d) + 1) % d = (m + 1) % d
         /\ (m % d) + 1 >= d <=> (m + 1) % d = 0
  <1>1. m % d \in Nat /\ m % d < d /\ 1 + (m % d) = (m % d) + 1 /\ 1 + m = m + 1
    BY DivMod
  <1>2. (1 + (m % d)) % d = (1 + m) % d
    BY ModAdd
  <1>3. ((m % d) + 1) % d = (m + 1) % d
    BY <1>1, <1>2
  <1> DEFINE r == m % d
  <1>4. r \in Nat /\ r < d
    BY <1>1
  <1>5. (r + 1) % d = (m + 1) % d
    BY <1>3
  <1> HIDE DEF r
  <1>6. CASE r + 1 = d
    <2>1. r + 1 = d * 1 + 0
      BY <1>4, <1>6
    <2>2. (r + 1) % d = 0
      BY <1>4, <2>1, DivModUnique
    <2> QED BY <1>3, <1>4, <1>5, <1>6, <2>2 DEF r
  <1>7. CASE r + 1 < d
    <2>1. r + 1 = d * 0 + (r + 1)
      BY <1>4
    <2>2. (r + 1) % d = r + 1
      BY <1>4, <1>7, <2>1, DivModUnique
    <2>3. r + 1 # 0 /\ ~(r + 1 >= d)
      BY <1>4, <1>7
    <2> QED BY <1>3, <1>5, <2>2, <2>3 DEF r
  <1> QED BY <1>4, <1>6, <1>7

\* A multiple of a product.
LEMMA MultipleOf ==
  ASSUME NEW n \in Nat, NEW u \in Nat \ {0}, NEW d \in Nat \ {0}
  PROVE  n % (u * d) = 0 <=> n % u = 0 /\ (n \div u) % d = 0
  <1> DEFINE q == n \div u
             r == n % u
             p == q \div d
             s == q % d
  <1>1. q \in Nat /\ r \in Nat /\ r < u /\ n = u * q + r
    BY DivMod
  <1> HIDE DEF q, r
  <1>2. p \in Nat /\ s \in Nat /\ s < d /\ q = d * p + s
    BY <1>1, DivMod
  <1> HIDE DEF p, s
  <1>3. u * d \in Nat \ {0} /\ u * s + r \in Nat
    BY <1>1, <1>2
  <1>4. n = (u * d) * p + (u * s + r)
    <2>1. u * (d * p + s) = u * (d * p) + u * s /\ u * (d * p) = (u * d) * p
      BY <1>2
    <2> QED BY <1>1, <1>2, <2>1
  <1>5. u * s + r < u * d
    <2>1. s + 1 <= d
      BY <1>2
    <2>2. \A x, y, z \in Nat : x <= y => z * x <= z * y
      OBVIOUS
    <2>3. u * (s + 1) <= u * d
      BY <1>2, <2>1, <2>2
    <2>4. u * (s + 1) = u * s + u
      BY <1>2
    <2>5. u * s \in Nat
      BY <1>2
    <2> QED BY <1>1, <1>3, <2>3, <2>4, <2>5
  <1>6. n % (u * d) = u * s + r
    BY <1>2, <1>3, <1>4, <1>5, DivModUnique
  <1>7. u * s + r = 0 <=> s = 0 /\ r = 0
    <2>1. s # 0 => u * s # 0
      BY <1>2
    <2>2. u * s \in Nat /\ u * 0 = 0
      BY <1>2
    <2> QED BY <1>1, <2>1, <2>2
  <1> QED BY <1>6, <1>7 DEF r, q, s

\* The spokes that a timer of ms is away, from spoke i on.
LEMMA SpokeDiv ==
  ASSUME NEW ms \in Nat, NEW u \in Nat \ {0}, NEW i \in Nat, ms >= u
  PROVE  /\ ms \div u >= 1 /\ ms - u + i * u \in Nat
         /\ (ms - u + i * u) \div u = (ms \div u) - 1 + i
  <1> DEFINE q == ms \div u
             r == ms % u
  <1>1. q \in Nat /\ r \in Nat /\ r < u /\ ms = u * q + r
    BY DivMod
  <1> HIDE DEF q, r
  <1>2. q >= 1
    <2>1. CASE q = 0
      BY <1>1, <2>1
    <2> QED BY <1>1, <2>1
  <1>3. q - 1 + i \in Nat /\ u * (q - 1 + i) = u * q - u + i * u
    BY <1>1, <1>2
  <1>4. ms - u + i * u = u * (q - 1 + i) + r
    <2>1. u * q \in Nat /\ i * u \in Nat
      BY <1>1
    <2> QED BY <1>1, <1>3, <2>1
  <1>5. u * (q - 1 + i) \in Nat
    BY <1>3
  <1>6. ms - u + i * u \in Nat
    BY <1>1, <1>4, <1>5
  <1>7. (ms - u + i * u) \div u = q - 1 + i
    BY <1>1, <1>3, <1>4, <1>6, DivModUnique
  <1> QED BY <1>2, <1>6, <1>7 DEF q

\* Less than the next multiple.
LEMMA BeforeNext ==
  ASSUME NEW n \in Nat, NEW u \in Nat \ {0}, NEW k \in Nat, n \div u <= k
  PROVE  n < u * (k + 1)
  <1> DEFINE q == n \div u
             r == n % u
  <1>1. q \in Nat /\ r \in Nat /\ r < u /\ n = u * q + r /\ q <= k
    BY DivMod
  <1> HIDE DEF q, r
  <1>2. \A x, y, z \in Nat : x <= y => z * x <= z * y
    OBVIOUS
  <1>3. u * q <= u * k /\ u * (k + 1) = u * k + u /\ u * k \in Nat /\ u * q \in Nat
    BY <1>1, <1>2
  <1> QED BY <1>1, <1>3

\* On a wheel that has not come round, spokes are different turns.
LEMMA SameSpoke ==
  ASSUME NEW n \in Nat, NEW k \in Nat, NEW d \in Nat \ {0}, n <= k, k < n + d, n % d = k % d
  PROVE  n = k
  <1> DEFINE q == n \div d
             p == k \div d
             r == n % d
  <1>1. q \in Nat /\ r \in Nat /\ n = d * q + r
    BY DivMod
  <1>2. p \in Nat /\ k = d * p + r
    BY DivMod
  <1> HIDE DEF q, p, r
  <1>3. k - n = d * (p - q) /\ k - n \in Nat /\ k - n < d /\ p - q \in Int
    <2>1. k - n = d * p - d * q /\ d * p \in Nat /\ d * q \in Nat
      BY <1>1, <1>2
    <2>2. d * p - d * q = d * (p - q)
      BY <1>1, <1>2
    <2> QED BY <1>1, <1>2, <2>1, <2>2
  <1>4. CASE p - q <= 0 - 1
    <2> DEFINE x == p - q
    <2>1. x \in Int /\ x <= 0 - 1 /\ d * x \in Nat
      BY <1>3, <1>4
    <2> HIDE DEF x
    <2>2. d * x < 0
      BY <2>1
    <2> QED BY <2>1, <2>2
  <1>5. CASE p - q >= 1
    <2> DEFINE x == p - q
    <2>1. x \in Int /\ x >= 1 /\ d * x < d
      BY <1>3, <1>5
    <2> HIDE DEF x
    <2>2. d * x >= d
      BY <2>1
    <2> QED BY <2>1, <2>2
  <1>6. CASE p - q = 0
    <2>1. p = q
      BY <1>1, <1>2, <1>6
    <2> QED BY <1>1, <1>2, <2>1
  <1> QED BY <1>3, <1>4, <1>5, <1>6

\* Taking the remainder twice.
LEMMA ModMod ==
  ASSUME NEW x \in Nat, NEW d \in Nat \ {0}
  PROVE  x % d \in Nat /\ (x % d) % d = x % d
  <1>1. x % d \in Nat /\ (0 + (x % d)) % d = (0 + x) % d
    <2>1. x % d \in Nat
      BY DivMod
    <2>2. (0 + (x % d)) % d = (0 + x) % d
      BY ModAdd, Zenon
    <2> QED BY <2>1, <2>2
  <1> DEFINE y == x % d
  <1>2. y \in Nat /\ 0 + y = y /\ 0 + x = x
    BY <1>1
  <1> QED BY <1>1, <1>2

-----------------------------------------------------------------------------
(* The wheels *)

\* Unit satisfies its equation: longer and longer functions do, and so one on all wheels.
LEMMA UnitDef ==
  Unit = [w \in Wheels |-> IF w = 0 THEN 1 ELSE IF w = 1 THEN SIZE1 ELSE Unit[w - 1] * SIZE2]
  <1> DEFINE P(g, n) == g = [w \in 0..n |-> IF w = 0 THEN 1 ELSE IF w = 1 THEN SIZE1 ELSE g[w - 1] * SIZE2]
             S == {n \in Nat : ~ \E g : P(g, n)}
  <1>1. S = {}
    <2>1. SUFFICES ASSUME S # {} PROVE FALSE
      OBVIOUS
    <2>2. PICK n \in S : \A m \in S : n <= m
      BY <2>1, LeastNat
    <2>3. n \in Nat /\ ~ \E g : P(g, n)
      BY <2>2
    <2>4. CASE n = 0
      <3> DEFINE g == [w \in 0..0 |-> 1]
      <3>1. P(g, 0)
        OBVIOUS
      <3> HIDE DEF P, g
      <3> QED BY <2>3, <2>4, <3>1
    <2>5. CASE n # 0
      <3>0. n - 1 \in Nat /\ ~(n <= n - 1)
        BY <2>3, <2>5
      <3>1. n - 1 \in Nat /\ n - 1 \notin S
        <4> HIDE DEF S
        <4> QED BY <2>2, <3>0
      <3>2. PICK g : P(g, n - 1)
        <4> HIDE DEF P
        <4> QED BY <3>1
      <3> DEFINE h == [w \in 0..n |-> IF w = 0 THEN 1 ELSE IF w = 1 THEN SIZE1 ELSE g[w - 1] * SIZE2]
      <3>3. \A w \in 0..(n - 1) : h[w] = g[w]
        <4>1. \A w \in 0..(n - 1) : w \in 0..n
          BY <2>3
        <4>2. \A w \in 0..(n - 1) : g[w] = IF w = 0 THEN 1 ELSE IF w = 1 THEN SIZE1 ELSE g[w - 1] * SIZE2
          BY <3>2, Zenon
        <4> QED BY <4>1, <4>2
      <3>4. \A w \in 0..n : w # 0 => w - 1 \in 0..(n - 1)
        BY <2>3
      <3>5. P(h, n)
        BY <3>3, <3>4
      <3> HIDE DEF P, h
      <3> QED BY <2>3, <3>5
    <2> QED BY <2>4, <2>5
  <1>2. WHEEL_NUM - 1 \in Nat
    BY WheelAssumption
  <1>3. \E g : P(g, WHEEL_NUM - 1)
    <2> HIDE DEF P
    <2> QED BY <1>1, <1>2
  <1> QED BY <1>3, Zenon DEF Unit, Wheels

\* The sizes of the wheels are not 0, and a spoke is one turn of the wheel below.
LEMMA Units ==
  /\ \A w \in Wheels : w \in Nat /\ Size(w) \in Nat \ {0} /\ Unit[w] \in Nat \ {0}
  /\ \A w \in Wheels : w # WHEEL_NUM - 1 => w + 1 \in Wheels /\ Unit[w + 1] = Unit[w] * Size(w)
  /\ 0 \in Wheels /\ 1 \in Wheels /\ 2 \in Wheels /\ WHEEL_NUM - 1 \in Wheels /\ WHEEL_NUM \in Nat
  /\ Unit[0] = 1 /\ Unit[1] = SIZE1
  <1>1. /\ WHEEL_NUM \in Nat /\ WHEEL_NUM > 2 /\ SIZE1 \in Nat \ {0} /\ SIZE2 \in Nat \ {0}
        /\ 0 \in Wheels /\ 1 \in Wheels /\ 2 \in Wheels /\ WHEEL_NUM - 1 \in Wheels
        /\ \A w \in Wheels : w \in Nat /\ (w # WHEEL_NUM - 1 => w + 1 \in Wheels)
        /\ \A w \in Wheels : w # 0 => w - 1 \in Wheels
    BY WheelAssumption DEF Wheels
  <1>2. \A w \in Wheels : Unit[w] = IF w = 0 THEN 1 ELSE IF w = 1 THEN SIZE1 ELSE Unit[w - 1] * SIZE2
    BY UnitDef, Zenon
  <1>3. \A w \in Wheels : Size(w) \in Nat \ {0}
    BY <1>1 DEF Size
  <1> DEFINE S == {w \in Nat : w \in Wheels /\ Unit[w] \notin Nat \ {0}}
  <1>4. S = {}
    <2>1. SUFFICES ASSUME S # {} PROVE FALSE
      OBVIOUS
    <2>2. PICK n \in S : \A m \in S : n <= m
      BY <2>1, LeastNat
    <2>3. n # 0 /\ n # 1
      BY <1>1, <1>2, <2>2
    <2>4. n \in Wheels /\ n \in Nat /\ n - 1 \in Wheels /\ n - 1 \in Nat /\ ~(n <= n - 1)
      <3>1. n \in Wheels /\ n \in Nat
        BY <2>2
      <3>2. n - 1 \in Wheels
        BY <1>1, <2>3, <3>1
      <3>3. \A m \in Nat : m # 0 => m - 1 \in Nat /\ ~(m <= m - 1)
        OBVIOUS
      <3> QED BY <2>3, <3>1, <3>2, <3>3
    <2>5. Unit[n - 1] \in Nat \ {0}
      BY <2>2, <2>4
    <2>6. Unit[n] = Unit[n - 1] * SIZE2
      BY <1>2, <2>3, <2>4
    <2>7. Unit[n] \in Nat \ {0}
      BY <1>1, <2>5, <2>6
    <2> QED BY <2>2, <2>7
  <1>5. \A w \in Wheels : Unit[w] \in Nat \ {0}
    BY <1>1, <1>4
  <1>6. ASSUME NEW w \in Wheels, w # WHEEL_NUM - 1 PROVE Unit[w + 1] = Unit[w] * Size(w)
    <2>1. w + 1 \in Wheels /\ w \in Nat /\ w + 1 # 0 /\ (w + 1) - 1 = w /\ (w = 0 <=> w + 1 = 1)
      BY <1>1, <1>6
    <2>2. CASE w = 0
      BY <1>1, <1>2, <2>1, <2>2 DEF Size
    <2>3. CASE w # 0
      BY <1>2, <2>1, <2>3 DEF Size
    <2> QED BY <2>2, <2>3
  <1> QED BY <1>1, <1>2, <1>3, <1>5, <1>6

\* Every time to go has its wheel.
LEMMA WheelOfFits ==
  ASSUME NEW ms \in Nat
  PROVE  /\ WheelOf(ms) \in Wheels
         /\ WheelOf(ms) > 0 => ms >= Unit[WheelOf(ms)]
         /\ WheelOf(ms) < WHEEL_NUM - 1 => ms < Unit[WheelOf(ms) + 1]
  <1> DEFINE S == {w \in Nat : w \in Wheels /\ (w < WHEEL_NUM - 1 => ms < Unit[w + 1])}
  <1>1. WHEEL_NUM - 1 \in S
    BY Units
  <1>2. PICK n \in S : \A m \in S : n <= m
    BY <1>1, LeastNat
  <1>3. n \in Wheels /\ n \in Nat /\ (n < WHEEL_NUM - 1 => ms < Unit[n + 1])
    BY <1>2
  <1>4. n > 0 => ms >= Unit[n]
    <2>1. SUFFICES ASSUME n > 0 PROVE ms >= Unit[n]
      OBVIOUS
    <2>2. n - 1 \in Nat /\ ~(n <= n - 1) /\ (n - 1) + 1 = n /\ n - 1 \in Wheels /\ n - 1 < WHEEL_NUM - 1
      BY <1>3, <2>1, WheelAssumption DEF Wheels
    <2>3. ~(ms < Unit[n])
      BY <1>2, <2>2
    <2> QED BY <1>3, <2>3, Units
  <1> HIDE DEF S
  <1> QED BY <1>3, <1>4 DEF WheelOf

\* The wheels at time n.
LEMMA BaseFits ==
  ASSUME NEW n \in Nat
  PROVE  /\ Base(n) \in [Wheels -> Nat] /\ Base(n)[0] = n
         /\ \A w \in Wheels : Base(n)[w] = n \div Unit[w] /\ Unit[w] * Base(n)[w] <= n
         /\ \A w \in Wheels : n \div Unit[w] \in Nat /\ Unit[w] * (n \div Unit[w]) <= n
  <1>1. \A w \in Wheels : Base(n)[w] = n \div Unit[w]
    BY DEF Base
  <1>2. ASSUME NEW w \in Wheels PROVE n \div Unit[w] \in Nat /\ Unit[w] * (n \div Unit[w]) <= n
    <2> DEFINE u == Unit[w]
               q == n \div u
               r == n % u
    <2>1. u \in Nat \ {0}
      BY Units
    <2> HIDE DEF u
    <2>2. q \in Nat /\ r \in Nat /\ n = u * q + r
      BY <2>1, DivMod
    <2> HIDE DEF q, r
    <2>3. u * q \in Nat
      BY <2>1, <2>2
    <2>4. u * q <= n
      BY <2>2, <2>3
    <2> QED BY <2>2, <2>4 DEF q, u
  <1>3. n \div Unit[0] = n
    <2>1. n = 1 * n + 0
      OBVIOUS
    <2> QED BY <2>1, DivModUnique, Units
  <1>4. Base(n) \in [Wheels -> Nat]
    BY <1>2 DEF Base
  <1> QED BY <1>1, <1>2, <1>3, <1>4, Units

\* AddTimer: the node is on a spoke that is emptied in time.
LEMMA SpokeFits ==
  ASSUME NEW ms \in Nat, NEW n \in Nat, NEW b \in [Wheels -> Nat], b[0] = n,
         \A w \in Wheels : Unit[w] * b[w] <= n,
         NEW idx \in [Wheels -> Nat], \A w \in Wheels : idx[w] % Size(w) = b[w] % Size(w),
         NEW d \in Nat, NEW sl \in Nat, n + ms <= d, d <= n + ms + sl
  PROVE  OnWheel(Spoke(ms, idx), b, d, sl) /\ Spoke(ms, idx) \in Nat \X Nat
  <1> DEFINE w == WheelOf(ms)
             u == Unit[w]
  <1>1. /\ w \in Wheels /\ (w > 0 => ms >= Unit[w]) /\ (w < WHEEL_NUM - 1 => ms < Unit[w + 1])
    BY WheelOfFits
  <1> HIDE DEF w
  <1>2. /\ u \in Nat \ {0} /\ w \in Nat /\ Size(w) \in Nat \ {0} /\ b[w] \in Nat /\ idx[w] \in Nat
    BY <1>1, Units
  <1>3. CASE w = 0
    <2> DEFINE k == n + ms
    <2>1. Spoke(ms, idx) = <<0, (ms + idx[0]) % SIZE1>>
      BY <1>3 DEF Spoke, w
    <2>2. Size(0) = SIZE1 /\ SIZE1 \in Nat \ {0} /\ idx[0] \in Nat /\ idx[0] % SIZE1 = n % SIZE1
      BY <1>2, <1>3, Units DEF Size
    <2>3. (ms + idx[0]) % SIZE1 = (ms + n) % SIZE1
      <3>1. (ms + (idx[0] % SIZE1)) % SIZE1 = (ms + idx[0]) % SIZE1
        BY <2>2, ModAdd
      <3>2. (ms + (n % SIZE1)) % SIZE1 = (ms + n) % SIZE1
        BY <2>2, ModAdd
      <3> QED BY <2>2, <3>1, <3>2
    <2>4. k \in Nat /\ k = ms + n /\ Unit[0] = 1 /\ Unit[0] * (k + 1) <= d + 1 /\ b[0] <= k /\ d <= k + sl
      BY Units
    <2>5. ms < SIZE1
      <3>1. 0 < WHEEL_NUM - 1 /\ 0 + 1 = 1
        BY WheelAssumption
      <3> QED BY <1>1, <1>3, <3>1, Units
    <2>6. k < b[0] + SIZE1
      BY <2>2, <2>5
    <2>7. k % SIZE1 \in Nat
      BY <2>2, <2>4, DivMod
    <2> HIDE DEF k
    <2>8. Spoke(ms, idx) = <<0, k % Size(0)>>
      BY <2>1, <2>2, <2>3, <2>4
    <2>9. OnSpoke(Spoke(ms, idx), b, d, sl, 0, k)
      BY <2>4, <2>6, <2>8 DEF OnSpoke
    <2> QED BY <2>2, <2>4, <2>7, <2>8, <2>9, Units DEF OnWheel
  <1>4. CASE w # 0
    <2>1. w > 0 /\ ms >= u /\ Size(w) = SIZE2 /\ SIZE2 \in Nat \ {0}
      BY <1>1, <1>2, <1>4, WheelAssumption DEF Size
    <2>2. Spoke(ms, idx) = <<w, ((ms - u + idx[w] * u) \div u) % SIZE2>>
      BY <1>4 DEF Spoke, w
    <2> HIDE DEF u
    <2> DEFINE q == ms \div u
               k == q - 1 + b[w]
    <2>3. q \in Nat /\ q >= 1 /\ (ms - u + idx[w] * u) \div u = q - 1 + idx[w]
      <3>1. ms \div u \in Nat
        BY <1>2, DivMod
      <3>2. \A i \in Nat : ms \div u >= 1 /\ (ms - u + i * u) \div u = (ms \div u) - 1 + i
        <4>1. u \in Nat \ {0} /\ ms >= u
          BY <1>2, <2>1
        <4> QED BY <4>1, SpokeDiv, Zenon
      <3>3. idx[w] \in Nat
        BY <1>2
      <3> QED BY <3>1, <3>2, <3>3, Zenon
    <2>4. u * (b[w] + q) <= n + ms
      <3>1. u * q <= ms
        <4> DEFINE r == ms % u
        <4>1. q \in Nat /\ r \in Nat /\ ms = u * q + r
          BY <1>2, DivMod
        <4> HIDE DEF q, r
        <4>2. u * q \in Nat
          BY <1>2, <4>1
        <4> QED BY <4>1, <4>2
      <3> HIDE DEF q
      <3>2. u * b[w] <= n
        BY <1>1 DEF u
      <3>3. u * (b[w] + q) = u * b[w] + u * q /\ u * b[w] \in Nat /\ u * q \in Nat
        BY <1>2, <2>3
      <3> QED BY <3>1, <3>2, <3>3
    <2> HIDE DEF q
    <2>5. k \in Nat /\ b[w] <= k /\ k + 1 = b[w] + q /\ q - 1 \in Nat /\ q - 1 + idx[w] \in Nat
      BY <1>2, <2>3
    <2>6. (q - 1 + idx[w]) % SIZE2 = k % SIZE2
      <3>1. idx[w] % SIZE2 = b[w] % SIZE2
        BY <1>1, <2>1
      <3>2. ((q - 1) + (idx[w] % SIZE2)) % SIZE2 = ((q - 1) + idx[w]) % SIZE2
        BY <1>2, <2>1, <2>5, ModAdd
      <3>3. ((q - 1) + (b[w] % SIZE2)) % SIZE2 = ((q - 1) + b[w]) % SIZE2
        BY <1>2, <2>1, <2>5, ModAdd
      <3> QED BY <3>1, <3>2, <3>3
    <2>7. k % SIZE2 \in Nat
      BY <2>1, <2>5, DivMod
    <2> HIDE DEF k
    <2>8. u * (k + 1) <= d + 1
      <3>1. u * (k + 1) <= n + ms /\ u * (k + 1) \in Nat
        BY <1>2, <2>4, <2>5
      <3> QED BY <3>1
    <2>9. Spoke(ms, idx) = <<w, k % Size(w)>>
      BY <2>1, <2>2, <2>3, <2>6
    <2>10. OnSpoke(Spoke(ms, idx), b, d, sl, w, k)
      BY <1>4, <2>5, <2>8, <2>9 DEF OnSpoke, u
    <2> QED BY <1>1, <1>2, <2>1, <2>5, <2>7, <2>9, <2>10 DEF OnWheel
  <1> QED BY <1>3, <1>4

\* A spoke is neither the ready list nor no list.
LEMMA SpokeIsSpoke ==
  ASSUME NEW p, NEW b, NEW d, NEW sl, OnWheel(p, b, d, sl)
  PROVE  p # Ready /\ p # Nowhere
  <1>1. PICK w \in Wheels, k \in Nat : p = <<w, k % Size(w)>>
    BY DEF OnWheel, OnSpoke
  <1>2. w # WHEEL_NUM /\ w # WHEEL_NUM + 1
    BY WheelAssumption DEF Wheels
  <1> QED BY <1>1, <1>2 DEF Ready, Nowhere

-----------------------------------------------------------------------------
(* Cascade *)

\* The recursion of Cascade: the wheels from the lowest on.
CascadeStep(first, f, w) ==
  IF w = 0 THEN first ELSE IF f[w - 1].carry THEN CascadeOne(f[w - 1], w) ELSE f[w - 1]

\* Its equation has a solution.
LEMMA CascadeDef ==
  ASSUME NEW first
  PROVE  \E f : f = [w \in Wheels |-> CascadeStep(first, f, w)] /\ Cascade(first) = f[WHEEL_NUM - 1]
  <1> DEFINE P(g, n) == g = [w \in 0..n |-> CascadeStep(first, g, w)]
             S == {n \in Nat : ~ \E g : P(g, n)}
  <1>1. S = {}
    <2>1. SUFFICES ASSUME S # {} PROVE FALSE
      OBVIOUS
    <2>2. PICK n \in S : \A m \in S : n <= m
      BY <2>1, LeastNat
    <2>3. n \in Nat /\ ~ \E g : P(g, n)
      BY <2>2
    <2>4. CASE n = 0
      <3> DEFINE g == [w \in 0..0 |-> first]
      <3>1. P(g, 0)
        <4>1. \A w \in 0..0 : CascadeStep(first, g, w) = first
          BY DEF CascadeStep
        <4> QED BY <4>1
      <3> HIDE DEF P, g
      <3> QED BY <2>3, <2>4, <3>1
    <2>5. CASE n # 0
      <3>0. n - 1 \in Nat /\ ~(n <= n - 1)
        BY <2>3, <2>5
      <3>1. n - 1 \in Nat /\ n - 1 \notin S
        <4> HIDE DEF S
        <4> QED BY <2>2, <3>0
      <3>2. PICK g : P(g, n - 1)
        <4> HIDE DEF P
        <4> QED BY <3>1
      <3> DEFINE h == [w \in 0..n |-> CascadeStep(first, g, w)]
      <3>3. \A w \in 0..(n - 1) : h[w] = g[w]
        <4>1. \A w \in 0..(n - 1) : w \in 0..n
          BY <2>3
        <4>2. \A w \in 0..(n - 1) : g[w] = CascadeStep(first, g, w)
          BY <3>2, Zenon
        <4>3. \A w \in 0..n : h[w] = CascadeStep(first, g, w)
          BY Zenon
        <4> HIDE DEF h
        <4> QED BY <4>1, <4>2, <4>3, Zenon
      <3>4. \A w \in 0..n : w # 0 => w - 1 \in 0..(n - 1)
        BY <2>3
      <3>5. P(h, n)
        <4>1. ASSUME NEW w \in 0..n PROVE CascadeStep(first, g, w) = CascadeStep(first, h, w)
          <5>1. CASE w = 0
            BY <5>1, Zenon DEF CascadeStep
          <5>2. CASE w # 0
            <6>1. h[w - 1] = g[w - 1]
              BY <3>3, <3>4, <5>2
            <6> HIDE DEF h
            <6> QED BY <6>1, Zenon DEF CascadeStep
          <5> QED BY <5>1, <5>2
        <4>2. h = [w \in 0..n |-> CascadeStep(first, g, w)]
          OBVIOUS
        <4> HIDE DEF h
        <4> QED BY <4>1, <4>2, Zenon
      <3> HIDE DEF P, h
      <3> QED BY <2>3, <3>5
    <2> QED BY <2>4, <2>5
  <1>2. WHEEL_NUM - 1 \in Nat
    BY WheelAssumption
  <1>3. \E g : P(g, WHEEL_NUM - 1)
    <2> HIDE DEF P
    <2> QED BY <1>1, <1>2
  <1>4. \E g : g = [w \in Wheels |-> CascadeStep(first, g, w)]
    BY <1>3, Zenon DEF Wheels
  <1> DEFINE f == CHOOSE g : g = [w \in Wheels |-> CascadeStep(first, g, w)]
  <1>5. f = [w \in Wheels |-> CascadeStep(first, f, w)]
    BY <1>4, Zenon
  <1>6. Cascade(first) = f[WHEEL_NUM - 1]
    BY Zenon DEF Cascade, CascadeStep
  <1> HIDE DEF f
  <1> QED BY <1>5, <1>6

\* Turns of each wheel when Cascade is done with wheel w.
Staged(w) == [v \in Wheels |-> IF v <= w THEN (startTick + 1) \div Unit[v] ELSE startTick \div Unit[v]]

\* What wheels and nodes are like then.
StageIndex(st, w) ==
  /\ st.index \in [Wheels -> Nat]
  /\ \A v \in Wheels : st.index[v] = Staged(w)[v] % Size(v)
  /\ st.carry <=> (startTick + 1) % (Unit[w] * Size(w)) = 0
StageNodes(st, w) ==
  /\ st.moved \in SUBSET Timers
  /\ st.place \in [Timers -> Nat \X Nat]
  /\ \A t \in Timers :
       /\ st.place[t] = Nowhere <=> place[t] = Nowhere
       /\ NodeFits(st.place[t], Staged(w), dead[t], IF t \in st.moved THEN Lag ELSE slack[t])
StageFits(st, w) == StageIndex(st, w) /\ StageNodes(st, w)

\* The turns are what time has brought.
LEMMA StagedFits ==
  ASSUME Types, NEW w \in Wheels
  PROVE  /\ Staged(w) \in [Wheels -> Nat] /\ Staged(w)[0] = startTick + 1
         /\ \A v \in Wheels : /\ Staged(w)[v] = IF v <= w THEN (startTick + 1) \div Unit[v]
                                                ELSE startTick \div Unit[v]
                              /\ Unit[v] * Staged(w)[v] <= startTick + 1
  <1>1. startTick \in Nat /\ startTick + 1 \in Nat
    BY DEF Types
  <1>2. \A v \in Wheels : Staged(w)[v] = IF v <= w THEN (startTick + 1) \div Unit[v] ELSE startTick \div Unit[v]
    BY DEF Staged
  <1>3. \A v \in Wheels : (startTick \div Unit[v]) \in Nat /\ Unit[v] * (startTick \div Unit[v]) <= startTick
    BY <1>1, BaseFits, Zenon
  <1>4. \A v \in Wheels : ((startTick + 1) \div Unit[v]) \in Nat /\ Unit[v] * ((startTick + 1) \div Unit[v]) <= startTick + 1
    BY <1>1, BaseFits, Zenon
  <1>5. \A v \in Wheels : Staged(w)[v] \in Nat
    BY <1>2, <1>3, <1>4, Zenon
  <1>6. ASSUME NEW v \in Wheels PROVE Unit[v] * Staged(w)[v] <= startTick + 1
    <2>1. CASE v <= w
      BY <1>2, <1>4, <2>1
    <2>2. CASE ~(v <= w)
      <3> DEFINE x == startTick \div Unit[v]
      <3>1. Staged(w)[v] = x /\ x \in Nat /\ Unit[v] * x <= startTick
        BY <1>2, <1>3, <2>2, Zenon
      <3> HIDE DEF x
      <3>2. Unit[v] \in Nat /\ Unit[v] * x \in Nat
        BY <3>1, Units
      <3> QED BY <1>1, <3>1, <3>2
    <2> QED BY <2>1, <2>2
  <1>7. Staged(w)[0] = startTick + 1
    <2>1. 0 \in Wheels /\ 0 <= w
      BY Units
    <2>2. (startTick + 1) \div Unit[0] = startTick + 1
      BY <1>1, <2>1, BaseFits, Zenon
    <2> QED BY <1>2, <2>1, <2>2
  <1>8. Staged(w) \in [Wheels -> Nat]
    <2>1. Staged(w) = [v \in Wheels |-> Staged(w)[v]]
      BY DEF Staged
    <2> QED BY <1>5, <2>1, Zenon
  <1> QED BY <1>2, <1>6, <1>7, <1>8

\* The wheel above turns if wheel w - 1 came round.
LEMMA StagedNext ==
  ASSUME Types, NEW w \in Wheels, w # 0
  PROVE  /\ w - 1 \in Wheels
         /\ \A v \in Wheels : v # w => Staged(w)[v] = Staged(w - 1)[v]
         /\ IF (startTick + 1) % (Unit[w - 1] * Size(w - 1)) = 0
            THEN Staged(w)[w] = Staged(w - 1)[w] + 1
            ELSE Staged(w)[w] = Staged(w - 1)[w]
         /\ (startTick + 1) % (Unit[w - 1] * Size(w - 1)) = (startTick + 1) % Unit[w]
  <1>1. w - 1 \in Wheels /\ w \in Nat /\ (w - 1) + 1 = w /\ w - 1 # WHEEL_NUM - 1 /\ ~(w <= w - 1)
    BY WheelAssumption DEF Wheels
  <1>2. Unit[w] = Unit[w - 1] * Size(w - 1)
    BY <1>1, Units
  <1>3. Staged(w)[w] = (startTick + 1) \div Unit[w] /\ Staged(w - 1)[w] = startTick \div Unit[w]
    BY <1>1, StagedFits
  <1>4. IF (startTick + 1) % Unit[w] = 0 THEN (startTick + 1) \div Unit[w] = (startTick \div Unit[w]) + 1
        ELSE (startTick + 1) \div Unit[w] = startTick \div Unit[w]
    <2>1. startTick \in Nat /\ Unit[w] \in Nat \ {0}
      BY Units DEF Types
    <2> QED BY <2>1, NextDiv, Zenon
  <1>5. ASSUME NEW v \in Wheels, v # w PROVE Staged(w)[v] = Staged(w - 1)[v]
    <2>1. v <= w <=> v <= w - 1
      BY <1>1, <1>5 DEF Wheels
    <2> QED BY <1>1, <2>1, StagedFits
  <1> QED BY <1>1, <1>2, <1>3, <1>4, <1>5

\* A wheel that does not come round leaves the wheels above alone.
LEMMA StageKeep ==
  ASSUME Types, NEW w \in Wheels, w # 0, NEW st, StageFits(st, w - 1), ~st.carry
  PROVE  StageFits(st, w)
  <1>1. w - 1 \in Wheels /\ (startTick + 1) % (Unit[w - 1] * Size(w - 1)) # 0
    BY StagedNext DEF StageFits, StageIndex
  <1>2. \A v \in Wheels : Staged(w)[v] = Staged(w - 1)[v]
    BY <1>1, StagedNext
  <1>3. Staged(w) = Staged(w - 1)
    <2>1. Staged(w) \in [Wheels -> Nat] /\ Staged(w - 1) \in [Wheels -> Nat]
      BY <1>1, StagedFits
    <2> QED BY <1>2, <2>1
  <1>4. (startTick + 1) % (Unit[w] * Size(w)) # 0
    <2>1. startTick + 1 \in Nat /\ Unit[w] \in Nat \ {0} /\ Size(w) \in Nat \ {0}
      BY Units DEF Types
    <2>2. (startTick + 1) % Unit[w] # 0
      BY <1>1, StagedNext
    <2> QED BY <2>1, <2>2, MultipleOf
  <1>5. StageIndex(st, w)
    BY <1>3, <1>4 DEF StageFits, StageIndex
  <1> QED BY <1>3, <1>5 DEF StageFits, StageNodes

\* One cascade that moves a spoke: wheel w turns ...
LEMMA CascadeIndex ==
  ASSUME Types, NEW w \in Wheels, w # 0, NEW st, StageFits(st, w - 1), st.carry
  PROVE  /\ StageIndex(CascadeOne(st, w), w)
         /\ Staged(w)[w] = Staged(w - 1)[w] + 1 /\ Staged(w - 1)[w] \in Nat
         /\ [st.index EXCEPT ![w] = @ + 1] \in [Wheels -> Nat]
         /\ \A v \in Wheels : [st.index EXCEPT ![w] = @ + 1][v] % Size(v) = Staged(w)[v] % Size(v)
  <1> DEFINE idx == [st.index EXCEPT ![w] = @ + 1]
             m == Staged(w - 1)[w]
             st2 == CascadeOne(st, w)
  <1>1. /\ w - 1 \in Wheels /\ (startTick + 1) % (Unit[w - 1] * Size(w - 1)) = 0
    BY StagedNext DEF StageFits, StageIndex
  <1>2. /\ Staged(w)[w] = m + 1 /\ (startTick + 1) % Unit[w] = 0
        /\ \A v \in Wheels : v # w => Staged(w)[v] = Staged(w - 1)[v]
    BY <1>1, StagedNext
  <1>3. m \in Nat /\ Staged(w) \in [Wheels -> Nat] /\ Staged(w - 1) \in [Wheels -> Nat]
    BY <1>1, StagedFits
  <1>4. /\ st.index \in [Wheels -> Nat] /\ \A v \in Wheels : st.index[v] = Staged(w - 1)[v] % Size(v)
    BY DEF StageFits, StageIndex
  <1>5. Size(w) = SIZE2 /\ SIZE2 \in Nat \ {0} /\ Unit[w] \in Nat \ {0} /\ startTick + 1 \in Nat
    BY Units DEF Size, Types
  <1>6. idx \in [Wheels -> Nat] /\ idx[w] = (m % SIZE2) + 1 /\ \A v \in Wheels : v # w => idx[v] = st.index[v]
    <2>1. st.index[w] = m % SIZE2 /\ st.index[w] \in Nat
      BY <1>4, <1>5
    <2> QED BY <1>4, <2>1
  <1>7. /\ ((m % SIZE2) + 1) % SIZE2 = (m + 1) % SIZE2
        /\ (m % SIZE2) + 1 >= SIZE2 <=> (m + 1) % SIZE2 = 0
    BY <1>3, <1>5, NextMod
  <1>8. st2.index = [idx EXCEPT ![w] = @ % SIZE2] /\ (st2.carry <=> idx[w] >= SIZE2)
    BY DEF CascadeOne
  <1> HIDE DEF idx, m, st2
  <1>9. \A v \in Wheels : (Staged(w - 1)[v] % Size(v)) \in Nat /\ (Staged(w - 1)[v] % Size(v)) % Size(v) = Staged(w - 1)[v] % Size(v)
    <2>1. \A v \in Wheels : Size(v) \in Nat \ {0} /\ Staged(w - 1)[v] \in Nat
      BY <1>3, Units
    <2> QED BY <2>1, ModMod, Zenon
  <1>10. \A v \in Wheels : v # w => idx[v] % Size(v) = Staged(w)[v] % Size(v) /\ idx[v] = Staged(w)[v] % Size(v)
    BY <1>2, <1>4, <1>6, <1>9, Zenon
  <1>11. idx[w] % Size(w) = Staged(w)[w] % Size(w)
    BY <1>2, <1>5, <1>6, <1>7, Zenon
  <1>12. \A v \in Wheels : idx[v] % Size(v) = Staged(w)[v] % Size(v)
    BY <1>10, <1>11, Zenon
  <1>13. /\ st2.index \in [Wheels -> Nat]
         /\ \A v \in Wheels : st2.index[v] = Staged(w)[v] % Size(v)
    <2>1. st2.index[w] = Staged(w)[w] % Size(w)
      BY <1>5, <1>6, <1>8, <1>11
    <2>2. \A v \in Wheels : v # w => st2.index[v] = Staged(w)[v] % Size(v)
      BY <1>6, <1>8, <1>10
    <2>3. idx[w] % SIZE2 \in Nat
      BY <1>5, <1>6, DivMod
    <2>4. st2.index \in [Wheels -> Nat]
      BY <1>6, <1>8, <2>3
    <2> QED BY <2>1, <2>2, <2>4
  <1>14. st2.carry <=> (startTick + 1) % (Unit[w] * Size(w)) = 0
    <2>1. (startTick + 1) \div Unit[w] = m + 1
      BY <1>1, <1>2, StagedFits, Units
    <2>2. (startTick + 1) % (Unit[w] * Size(w)) = 0 <=> ((startTick + 1) \div Unit[w]) % SIZE2 = 0
      <3>1. (startTick + 1) % (Unit[w] * SIZE2) = 0 <=> (startTick + 1) % Unit[w] = 0 /\ ((startTick + 1) \div Unit[w]) % SIZE2 = 0
        BY <1>5, MultipleOf
      <3> QED BY <1>2, <1>5, <3>1, Zenon
    <2>3. (m + 1) % SIZE2 = 0 <=> (m % SIZE2) + 1 >= SIZE2
      BY <1>7
    <2> QED BY <1>6, <1>8, <2>1, <2>2, <2>3, Zenon
  <1>15. StageIndex(st2, w)
    BY <1>13, <1>14 DEF StageIndex
  <1> QED BY <1>2, <1>3, <1>6, <1>12, <1>15, Zenon DEF idx, m, st2

\* ... and the nodes of its spoke go to spokes below, or are ready.
LEMMA CascadeNodes ==
  ASSUME Types, loops > 0, NEW w \in Wheels, w # 0, NEW st, StageFits(st, w - 1), st.carry
  PROVE  StageNodes(CascadeOne(st, w), w)
  <1> DEFINE idx == [st.index EXCEPT ![w] = @ + 1]
             moved == {t \in Timers : st.place[t] = <<w, st.index[w]>>}
             st2 == CascadeOne(st, w)
  <1>1. /\ Staged(w)[w] = Staged(w - 1)[w] + 1 /\ Staged(w - 1)[w] \in Nat /\ idx \in [Wheels -> Nat]
        /\ \A v \in Wheels : idx[v] % Size(v) = Staged(w)[v] % Size(v)
    BY CascadeIndex
  <1>2. /\ Staged(w) \in [Wheels -> Nat] /\ Staged(w)[0] = startTick + 1
        /\ \A v \in Wheels : Unit[v] * Staged(w)[v] <= startTick + 1
        /\ \A v \in Wheels : v # w => Staged(w)[v] = Staged(w - 1)[v]
    BY StagedFits, StagedNext
  <1>3. /\ st2.moved = st.moved \cup moved
        /\ st2.place = [t \in Timers |-> IF t \notin moved THEN st.place[t]
                                         ELSE IF dead[t] <= now THEN Ready ELSE Spoke(dead[t] - now, idx)]
    BY DEF CascadeOne
  <1>4. /\ st.moved \in SUBSET Timers /\ st.place \in [Timers -> Nat \X Nat]
        /\ \A t \in Timers :
             /\ st.place[t] = Nowhere <=> place[t] = Nowhere
             /\ NodeFits(st.place[t], Staged(w - 1), dead[t], IF t \in st.moved THEN Lag ELSE slack[t])
    BY DEF StageFits, StageNodes
  <1>5. st.index[w] = Staged(w - 1)[w] % Size(w)
    BY DEF StageFits, StageIndex
  <1>6. /\ now \in Nat /\ startTick \in Nat /\ startTick + 1 <= now /\ dead \in [Timers -> Nat] /\ Lag \in Nat
        /\ Lag = now - startTick
    BY DEF Types, Lag
  <1>7. Ready \in Nat \X Nat /\ Ready # Nowhere /\ \A x : <<w, x>> # Nowhere
    BY WheelAssumption DEF Ready, Nowhere, Wheels
  <1> HIDE DEF idx, st2
  <1>8. ASSUME NEW t \in Timers, t \in moved
        PROVE  /\ place[t] # Nowhere /\ st2.place[t] # Nowhere /\ st2.place[t] \in Nat \X Nat
               /\ NodeFits(st2.place[t], Staged(w), dead[t], Lag)
    <2>1. place[t] # Nowhere
      BY <1>4, <1>7, <1>8
    <2>2. CASE dead[t] <= now
      <3>1. st2.place[t] = Ready
        BY <1>3, <1>8, <2>2
      <3> QED BY <1>7, <2>1, <2>2, <3>1 DEF NodeFits
    <2>3. CASE ~(dead[t] <= now)
      <3> DEFINE ms == dead[t] - now
      <3>1. st2.place[t] = Spoke(ms, idx)
        BY <1>3, <1>8, <2>3
      <3>2. ms \in Nat /\ (startTick + 1) + ms <= dead[t] /\ dead[t] <= (startTick + 1) + ms + Lag
            /\ dead[t] \in Nat /\ startTick + 1 \in Nat
        BY <1>6, <2>3
      <3> HIDE DEF ms
      <3>3. OnWheel(Spoke(ms, idx), Staged(w), dead[t], Lag) /\ Spoke(ms, idx) \in Nat \X Nat
        BY <1>1, <1>2, <1>6, <3>2, SpokeFits
      <3> QED BY <2>1, <3>1, <3>3, SpokeIsSpoke DEF NodeFits
    <2> QED BY <2>2, <2>3
  <1>9. ASSUME NEW t \in Timers, t \notin moved, NEW sl, NodeFits(st.place[t], Staged(w - 1), dead[t], sl)
        PROVE  NodeFits(st.place[t], Staged(w), dead[t], sl)
    <2>1. CASE ~OnWheel(st.place[t], Staged(w - 1), dead[t], sl)
      BY <1>9, <2>1 DEF NodeFits
    <2>2. CASE OnWheel(st.place[t], Staged(w - 1), dead[t], sl)
      <3>1. PICK v \in Wheels, k \in Nat : OnSpoke(st.place[t], Staged(w - 1), dead[t], sl, v, k)
        BY <2>2 DEF OnWheel
      <3>2. CASE v # w
        <4>1. Staged(w)[v] = Staged(w - 1)[v]
          BY <1>2, <3>2
        <4>2. Staged(w)[0] = Staged(w - 1)[0]
          BY <1>2, Units
        <4>3. OnSpoke(st.place[t], Staged(w), dead[t], sl, v, k)
          BY <3>1, <4>1, <4>2 DEF OnSpoke
        <4> QED BY <4>3 DEF OnWheel, NodeFits
      <3>3. CASE v = w
        <4>1. st.place[t] = <<w, k % Size(w)>> /\ Staged(w - 1)[w] <= k
          BY <3>1, <3>3 DEF OnSpoke
        <4>2. k # Staged(w - 1)[w]
          BY <1>5, <1>9, <4>1
        <4>3. Staged(w)[w] <= k
          BY <1>1, <4>1, <4>2
        <4>4. OnSpoke(st.place[t], Staged(w), dead[t], sl, w, k)
          BY <3>1, <3>3, <4>3 DEF OnSpoke
        <4> QED BY <4>4 DEF OnWheel, NodeFits
      <3> QED BY <3>2, <3>3
    <2> QED BY <2>1, <2>2
  <1>10. moved \in SUBSET Timers
    OBVIOUS
  <1> HIDE DEF moved
  <1>11. \A t \in Timers : t \notin moved => st2.place[t] = st.place[t] /\ (t \in st2.moved <=> t \in st.moved)
    BY <1>3
  <1>12. st2.moved \in SUBSET Timers /\ \A t \in moved : t \in st2.moved
    BY <1>3, <1>4, <1>10
  <1>13. st2.place \in [Timers -> Nat \X Nat]
    <2>1. \A t \in Timers : st2.place[t] \in Nat \X Nat
      BY <1>4, <1>8, <1>11
    <2>2. st2.place = [t \in Timers |-> st2.place[t]]
      BY <1>3
    <2> QED BY <2>1, <2>2, Zenon
  <1>14. ASSUME NEW t \in Timers
         PROVE  /\ st2.place[t] = Nowhere <=> place[t] = Nowhere
                /\ NodeFits(st2.place[t], Staged(w), dead[t], IF t \in st2.moved THEN Lag ELSE slack[t])
    <2>1. CASE t \in moved
      BY <1>8, <1>12, <2>1
    <2>2. CASE t \notin moved
      <3> DEFINE sl == IF t \in st.moved THEN Lag ELSE slack[t]
      <3>1. NodeFits(st.place[t], Staged(w - 1), dead[t], sl) /\ (st.place[t] = Nowhere <=> place[t] = Nowhere)
        BY <1>4
      <3> HIDE DEF sl
      <3>2. NodeFits(st.place[t], Staged(w), dead[t], sl)
        BY <1>9, <2>2, <3>1
      <3> QED BY <1>11, <2>2, <3>1, <3>2 DEF sl
    <2> QED BY <2>1, <2>2
  <1> QED BY <1>12, <1>13, <1>14 DEF StageNodes, st2

\* What Cascade begins with: wheel 0 has turned, its spoke is ready.
LEMMA StageZero ==
  ASSUME Types, IndexFits, NodesFit, loops > 0,
         NEW st, st = [index |-> [index EXCEPT ![0] = (@ + 1) % SIZE1],
                       carry |-> index[0] + 1 >= SIZE1,
                       place |-> [t \in Timers |-> IF place[t] = <<0, index[0]>> THEN Ready ELSE place[t]],
                       moved |-> {}]
  PROVE  StageFits(st, 0)
  <1> DEFINE b == Base(startTick)
  <1>1. /\ startTick \in Nat /\ startTick + 1 \in Nat /\ now \in Nat /\ startTick + 1 <= now
        /\ dead \in [Timers -> Nat] /\ slack \in [Timers -> Nat] /\ index \in [Wheels -> Nat]
        /\ place \in [Timers -> Nat \X Nat]
    BY DEF Types
  <1>2. /\ b \in [Wheels -> Nat] /\ b[0] = startTick /\ \A v \in Wheels : b[v] = startTick \div Unit[v]
    BY <1>1, BaseFits
  <1>3. Size(0) = SIZE1 /\ SIZE1 \in Nat \ {0} /\ 0 \in Wheels /\ Unit[0] = 1
    BY Units, WheelAssumption DEF Size
  <1>4. Staged(0)[0] = startTick + 1 /\ \A v \in Wheels : v # 0 => Staged(0)[v] = b[v]
    <2>1. \A v \in Wheels : v # 0 => ~(v <= 0)
      BY DEF Wheels
    <2> QED BY <1>2, <1>3, <2>1, StagedFits
  <1> HIDE DEF b
  <1>5. \A v \in Wheels : index[v] = b[v] % Size(v)
    BY DEF IndexFits, b
  <1>6. index[0] = startTick % SIZE1
    BY <1>2, <1>3, <1>5
  <1>7. /\ ((startTick % SIZE1) + 1) % SIZE1 = (startTick + 1) % SIZE1
        /\ (startTick % SIZE1) + 1 >= SIZE1 <=> (startTick + 1) % SIZE1 = 0
        /\ (startTick + 1) % SIZE1 \in Nat
    BY <1>1, <1>3, NextMod, DivMod
  <1>8. /\ st.index = [index EXCEPT ![0] = (index[0] + 1) % SIZE1] /\ (st.carry <=> index[0] + 1 >= SIZE1)
        /\ st.place = [t \in Timers |-> IF place[t] = <<0, index[0]>> THEN Ready ELSE place[t]]
        /\ st.moved = {}
    <2>1. [index EXCEPT ![0] = (@ + 1) % SIZE1] = [index EXCEPT ![0] = (index[0] + 1) % SIZE1]
      BY <1>1, <1>3
    <2> QED BY <2>1
  <1>9. StageIndex(st, 0)
    <2>1. st.index[0] = Staged(0)[0] % Size(0)
      BY <1>1, <1>3, <1>4, <1>6, <1>7, <1>8
    <2>2. \A v \in Wheels : v # 0 => st.index[v] = Staged(0)[v] % Size(v)
      BY <1>1, <1>4, <1>5, <1>8
    <2>3. st.index \in [Wheels -> Nat]
      BY <1>1, <1>6, <1>7, <1>8
    <2>4. st.carry <=> (startTick + 1) % (Unit[0] * Size(0)) = 0
      <3>1. Unit[0] * Size(0) = SIZE1
        BY <1>3
      <3> QED BY <1>6, <1>7, <1>8, <3>1, Zenon
    <2> QED BY <2>1, <2>2, <2>3, <2>4 DEF StageIndex
  <1>10. Ready \in Nat \X Nat /\ Ready # Nowhere /\ \A x : <<0, x>> # Nowhere
    BY WheelAssumption DEF Ready, Nowhere
  <1>11. ASSUME NEW t \in Timers PROVE NodeFits(st.place[t], Staged(0), dead[t], slack[t])
    <2>1. NodeFits(place[t], b, dead[t], slack[t])
      BY DEF NodesFit, b
    <2>2. CASE ~OnWheel(place[t], b, dead[t], slack[t])
      <3>1. place[t] \in {Nowhere, Ready}
        BY <2>1, <2>2 DEF NodeFits
      <3>2. st.place[t] = place[t]
        BY <1>8, <1>10, <3>1
      <3> QED BY <2>1, <2>2, <3>2 DEF NodeFits
    <2>3. CASE OnWheel(place[t], b, dead[t], slack[t])
      <3>1. PICK v \in Wheels, k \in Nat : OnSpoke(place[t], b, dead[t], slack[t], v, k)
        BY <2>3 DEF OnWheel
      <3>2. CASE v # 0
        <4>1. place[t] # <<0, index[0]>>
          BY <3>1, <3>2 DEF OnSpoke
        <4>2. st.place[t] = place[t]
          BY <1>8, <4>1
        <4>3. OnSpoke(st.place[t], Staged(0), dead[t], slack[t], v, k)
          BY <1>4, <3>1, <3>2, <4>2 DEF OnSpoke
        <4> QED BY <4>3 DEF OnWheel, NodeFits
      <3>3. CASE v = 0
        <4>1. /\ place[t] = <<0, k % SIZE1>> /\ startTick <= k /\ Unit[0] * (k + 1) <= dead[t] + 1
              /\ k < startTick + SIZE1 /\ dead[t] <= k + slack[t]
          BY <1>2, <1>3, <3>1, <3>3 DEF OnSpoke
        <4>2. CASE k = startTick
          <5>1. st.place[t] = Ready
            BY <1>6, <1>8, <4>1, <4>2
          <5>2. dead[t] < now + slack[t]
            <6>1. dead[t] \in Nat /\ slack[t] \in Nat
              BY <1>1
            <6> QED BY <1>1, <4>1, <4>2, <6>1
          <5> QED BY <5>1, <5>2 DEF NodeFits
        <4>3. CASE k # startTick
          <5>1. k % SIZE1 # startTick % SIZE1
            BY <1>1, <1>3, <4>1, <4>3, SameSpoke
          <5>2. st.place[t] = place[t]
            BY <1>6, <1>8, <4>1, <5>1
          <5>3. OnSpoke(st.place[t], Staged(0), dead[t], slack[t], 0, k)
            BY <1>1, <1>3, <1>4, <4>1, <4>3, <5>2 DEF OnSpoke
          <5> QED BY <1>3, <5>3 DEF OnWheel, NodeFits
        <4> QED BY <4>2, <4>3
      <3> QED BY <3>2, <3>3
    <2> QED BY <2>2, <2>3
  <1>12. StageNodes(st, 0)
    <2>1. st.place \in [Timers -> Nat \X Nat] /\ st.moved \in SUBSET Timers
      BY <1>1, <1>8, <1>10
    <2>2. \A t \in Timers : st.place[t] = Nowhere <=> place[t] = Nowhere
      BY <1>8, <1>10
    <2>3. \A t \in Timers : t \notin st.moved
      BY <1>8
    <2> QED BY <1>11, <2>1, <2>2, <2>3 DEF StageNodes
  <1> QED BY <1>9, <1>12 DEF StageFits

\* The whole cascade, wheel by wheel.
LEMMA CascadeFits ==
  ASSUME Types, loops > 0, NEW st, StageFits(st, 0)
  PROVE  StageFits(Cascade(st), WHEEL_NUM - 1)
  <1>1. PICK f : f = [w \in Wheels |-> CascadeStep(st, f, w)] /\ Cascade(st) = f[WHEEL_NUM - 1]
    BY CascadeDef
  <1>2. \A w \in Wheels : f[w] = CascadeStep(st, f, w)
    BY <1>1, Zenon
  <1> DEFINE S == {w \in Nat : w \in Wheels /\ ~StageFits(f[w], w)}
  <1>3. S = {}
    <2>1. SUFFICES ASSUME S # {} PROVE FALSE
      OBVIOUS
    <2>2. PICK w \in S : \A v \in S : w <= v
      BY <2>1, LeastNat
    <2>3. w \in Nat /\ w \in Wheels /\ ~StageFits(f[w], w)
      BY <2>2
    <2>4. w # 0
      <3>1. SUFFICES ASSUME w = 0 PROVE FALSE
        OBVIOUS
      <3>2. f[0] = st
        BY <1>2, <2>3, <3>1 DEF CascadeStep
      <3> QED BY <2>3, <3>1, <3>2
    <2>5. w - 1 \in Nat /\ w - 1 \in Wheels /\ ~(w <= w - 1)
      <3>1. \A v \in Wheels : v # 0 => v - 1 \in Nat /\ v - 1 \in Wheels /\ ~(v <= v - 1)
        BY WheelAssumption DEF Wheels
      <3> QED BY <2>3, <2>4, <3>1
    <2>6. StageFits(f[w - 1], w - 1)
      BY <2>2, <2>5
    <2>7. f[w] = IF f[w - 1].carry THEN CascadeOne(f[w - 1], w) ELSE f[w - 1]
      BY <1>2, <2>3, <2>4 DEF CascadeStep
    <2>8. CASE f[w - 1].carry
      BY <2>3, <2>4, <2>6, <2>7, <2>8, CascadeIndex, CascadeNodes DEF StageFits
    <2>9. CASE ~f[w - 1].carry
      BY <2>3, <2>4, <2>6, <2>7, <2>9, StageKeep
    <2> QED BY <2>8, <2>9
  <1>4. WHEEL_NUM - 1 \in Wheels /\ WHEEL_NUM - 1 \in Nat
    BY WheelAssumption DEF Wheels
  <1> QED BY <1>1, <1>3, <1>4

-----------------------------------------------------------------------------
(* The steps *)

\* Time may pass: what was ready stays so.
LEMMA KeepNodes ==
  ASSUME Types, NodesFit, now' \in Nat, now' >= now, UNCHANGED <<startTick, place, dead, slack>>
  PROVE  NodesFit'
  <1>1. \A t \in Timers : dead[t] \in Nat /\ slack[t] \in Nat /\ now \in Nat
    BY DEF Types
  <1>2. ASSUME NEW t \in Timers
        PROVE  \/ place[t] = Nowhere
               \/ place[t] = Ready /\ (dead[t] <= now' \/ dead[t] < now' + slack[t])
               \/ OnWheel(place[t], Base(startTick), dead[t], slack[t])
    BY <1>1 DEF NodesFit, NodeFits
  <1> QED BY <1>2 DEF NodesFit, NodeFits

\* One node gets a new place.
LEMMA OneNode ==
  ASSUME Types, NodesFit, NEW t \in Timers, NEW p, NEW d, NEW s, NodeFits(p, Base(startTick), d, s),
         place' = [place EXCEPT ![t] = p], dead' = [dead EXCEPT ![t] = d],
         slack' = [slack EXCEPT ![t] = s], now' = now, startTick' = startTick
  PROVE  NodesFit'
  <1>1. /\ place'[t] = p /\ dead'[t] = d /\ slack'[t] = s
        /\ \A o \in Timers : o # t => place'[o] = place[o] /\ dead'[o] = dead[o] /\ slack'[o] = slack[o]
    BY DEF Types
  <1>2. ASSUME NEW o \in Timers
        PROVE  NodeFits(place'[o], Base(startTick), dead'[o], slack'[o])
    BY <1>1 DEF NodesFit
  <1> QED BY <1>2 DEF NodesFit, NodeFits

\* AddTimer, the wheels being at startTick.
LEMMA AddTimerFits ==
  ASSUME Types, IndexFits, NEW ms \in Nat, NEW d \in Nat, NEW sl \in Nat,
         startTick + ms <= d, d <= startTick + ms + sl
  PROVE  OnWheel(Spoke(ms, index), Base(startTick), d, sl) /\ Spoke(ms, index) \in Nat \X Nat
  <1> DEFINE b == Base(startTick)
  <1>1. startTick \in Nat
    BY DEF Types
  <1>2. b \in [Wheels -> Nat] /\ b[0] = startTick /\ \A w \in Wheels : Unit[w] * b[w] <= startTick
    BY <1>1, BaseFits
  <1>3. \A w \in Wheels : index[w] = b[w] % Size(w)
    BY DEF IndexFits
  <1> HIDE DEF b
  <1>4. \A w \in Wheels : b[w] \in Nat /\ Size(w) \in Nat \ {0}
    BY <1>2, Units
  <1>5. \A w \in Wheels : (b[w] % Size(w)) % Size(w) = b[w] % Size(w)
    BY <1>4, ModMod
  <1>6. index \in [Wheels -> Nat] /\ \A w \in Wheels : index[w] % Size(w) = b[w] % Size(w)
    BY <1>3, <1>5 DEF Types
  <1>7. OnWheel(Spoke(ms, index), b, d, sl) /\ Spoke(ms, index) \in Nat \X Nat
    BY <1>1, <1>2, <1>6, SpokeFits
  <1> QED BY <1>7 DEF b

\* SetTimer.
LEMMA SetTimerKeeps ==
  ASSUME Inv, NEW t \in Timers, NEW i \in Intervals, SetTimer(t, i)
  PROVE  Inv'
  <1> DEFINE ms == IF i = 0 THEN 1 ELSE i
             p == Spoke(ms, index)
  <1>1. ms \in Nat \ {0}
    BY WheelAssumption
  <1>2. /\ timerMap' = timerMap \cup {t} /\ dead' = [dead EXCEPT ![t] = now + ms]
        /\ interval' = [interval EXCEPT ![t] = ms] /\ place' = [place EXCEPT ![t] = p]
        /\ slack' = [slack EXCEPT ![t] = Lag] /\ UNCHANGED <<now, startTick, index, pc, loops, tickNow>>
    BY DEF SetTimer
  <1>3. Types /\ IndexFits /\ NodesFit /\ ListedIsMapped /\ ReadyIsDrained
    BY DEF Inv
  <1>4. now \in Nat /\ startTick \in Nat /\ startTick <= now /\ Lag \in Nat /\ Lag = now - startTick
    BY <1>3 DEF Types, Lag
  <1> HIDE DEF ms, p
  <1>5. OnWheel(p, Base(startTick), now + ms, Lag) /\ p \in Nat \X Nat
    <2>1. now + ms \in Nat /\ startTick + ms <= now + ms /\ now + ms <= startTick + ms + Lag /\ ms \in Nat
      BY <1>1, <1>4
    <2> QED BY <1>3, <1>4, <2>1, AddTimerFits DEF p
  <1>6. p # Ready /\ p # Nowhere
    BY <1>5, SpokeIsSpoke
  <1>7. NodesFit'
    <2>1. NodeFits(p, Base(startTick), now + ms, Lag)
      BY <1>5 DEF NodeFits
    <2> QED BY <1>2, <1>3, <2>1, OneNode
  <1>8. Types'
    <2>1. place' \in [Timers -> Nat \X Nat]
      BY <1>2, <1>3, <1>5 DEF Types
    <2>2. dead' \in [Timers -> Nat] /\ interval' \in [Timers -> Nat \ {0}] /\ slack' \in [Timers -> Nat]
      BY <1>1, <1>2, <1>3, <1>4 DEF Types
    <2>3. timerMap' \subseteq Timers
      BY <1>2, <1>3 DEF Types
    <2> QED BY <1>2, <1>3, <2>1, <2>2, <2>3 DEF Types
  <1>9. IndexFits'
    BY <1>2, <1>3 DEF IndexFits
  <1>10. ListedIsMapped' /\ ReadyIsDrained'
    <2>1. place'[t] = p /\ \A o \in Timers : o # t => place'[o] = place[o]
      BY <1>2, <1>3 DEF Types
    <2> QED BY <1>2, <1>3, <1>6, <2>1 DEF ListedIsMapped, ReadyIsDrained
  <1> QED BY <1>7, <1>8, <1>9, <1>10 DEF Inv

\* The node goes.
LEMMA ForgetKeeps ==
  ASSUME Inv, NEW t \in Timers, Forget(t), UNCHANGED <<now, startTick, index, loops, tickNow>>,
         pc' \in {"out", "call"}, pc' = "out" => pc = "out",
         pc' = "call" => startTick <= tickNow
  PROVE  Inv'
  <1>1. Types /\ IndexFits /\ NodesFit /\ ListedIsMapped /\ ReadyIsDrained
    BY DEF Inv
  <1>2. /\ timerMap' = timerMap \ {t} /\ place' = [place EXCEPT ![t] = Nowhere] /\ dead' = [dead EXCEPT ![t] = 0]
        /\ interval' = [interval EXCEPT ![t] = 1] /\ slack' = [slack EXCEPT ![t] = 0]
    BY DEF Forget
  <1>3. Nowhere \in Nat \X Nat /\ Nowhere # Ready
    BY WheelAssumption DEF Nowhere, Ready
  <1>4. NodesFit'
    <2>1. NodeFits(Nowhere, Base(startTick), 0, 0)
      BY DEF NodeFits
    <2> QED BY <1>1, <1>2, <2>1, OneNode
  <1>5. Types'
    <2>1. place' \in [Timers -> Nat \X Nat]
      BY <1>1, <1>2, <1>3 DEF Types
    <2>2. dead' \in [Timers -> Nat] /\ interval' \in [Timers -> Nat \ {0}] /\ slack' \in [Timers -> Nat]
      BY <1>1, <1>2 DEF Types
    <2>3. timerMap' \subseteq Timers
      BY <1>1, <1>2 DEF Types
    <2>4. pc' \in {"out", "wheel", "fire", "call"} /\ (pc' \in {"fire", "call"} => startTick' <= tickNow')
      OBVIOUS
    <2> QED BY <1>1, <2>1, <2>2, <2>3, <2>4 DEF Types
  <1>6. IndexFits'
    BY <1>1 DEF IndexFits
  <1>7. ListedIsMapped' /\ ReadyIsDrained'
    <2>1. place'[t] = Nowhere /\ \A o \in Timers : o # t => place'[o] = place[o]
      BY <1>1, <1>2 DEF Types
    <2> QED BY <1>1, <1>2, <1>3, <2>1 DEF ListedIsMapped, ReadyIsDrained
  <1> QED BY <1>4, <1>5, <1>6, <1>7 DEF Inv

\* KillTimer.
LEMMA KillTimerKeeps ==
  ASSUME Inv, NEW t \in Timers, KillTimer(t)
  PROVE  Inv'
  <1>1. Forget(t) /\ UNCHANGED <<now, startTick, index, loops, tickNow>> /\ pc' = pc /\ pc \in {"out", "call"}
    BY DEF KillTimer
  <1>2. pc = "call" => startTick <= tickNow
    BY DEF Inv, Types
  <1> QED BY <1>1, <1>2, ForgetKeeps

\* DetectList's clock reading.
LEMMA DetectKeeps ==
  ASSUME Inv, Detect
  PROVE  Inv'
  <1>1. Types /\ IndexFits /\ NodesFit /\ ListedIsMapped /\ ReadyIsDrained
    BY DEF Inv
  <1>2. /\ loops' = (IF now > startTick THEN now - startTick ELSE 0) /\ pc' = "wheel"
        /\ UNCHANGED <<now, startTick, index, timerMap, place, dead, interval, tickNow, slack>>
    BY DEF Detect
  <1>3. Types'
    <2>1. loops' \in Nat /\ startTick + loops' <= now
      BY <1>1, <1>2 DEF Types
    <2> QED BY <1>1, <1>2, <2>1 DEF Types
  <1>4. NodesFit'
    <2>1. now' \in Nat /\ now' >= now
      BY <1>1, <1>2 DEF Types
    <2> QED BY <1>1, <1>2, <2>1, KeepNodes
  <1>5. IndexFits' /\ ListedIsMapped' /\ ReadyIsDrained'
    BY <1>1, <1>2 DEF IndexFits, ListedIsMapped, ReadyIsDrained
  <1> QED BY <1>3, <1>4, <1>5 DEF Inv

\* DetectList turns wheel 0 by one spoke, and the others with it.
LEMMA TurnKeeps ==
  ASSUME Inv, Turn
  PROVE  Inv'
  <1> DEFINE spun == [index |-> [index EXCEPT ![0] = (@ + 1) % SIZE1],
                      carry |-> index[0] + 1 >= SIZE1,
                      place |-> [t \in Timers |-> IF place[t] = <<0, index[0]>> THEN Ready ELSE place[t]],
                      moved |-> {}]
             last == WHEEL_NUM - 1
             next == Cascade(spun)
  <1>1. Types /\ IndexFits /\ NodesFit /\ ListedIsMapped
    BY DEF Inv
  <1>2. /\ pc = "wheel" /\ loops > 0 /\ index' = next.index /\ place' = next.place
        /\ slack' = [t \in Timers |-> IF t \in next.moved THEN Lag ELSE slack[t]]
        /\ startTick' = startTick + 1 /\ loops' = loops - 1
        /\ UNCHANGED <<now, timerMap, dead, interval, pc, tickNow>>
    BY Zenon DEF Turn
  <1>3. StageFits(spun, 0)
    BY <1>1, <1>2, StageZero
  <1> HIDE DEF spun
  <1>4. StageIndex(next, last) /\ StageNodes(next, last)
    BY <1>1, <1>2, <1>3, CascadeFits DEF StageFits
  <1> HIDE DEF next
  <1>5. Staged(last) = Base(startTick + 1)
    <2>1. \A v \in Wheels : v <= last
      BY WheelAssumption DEF Wheels
    <2> QED BY <2>1 DEF Staged, Base
  <1> HIDE DEF last
  <1>6. IndexFits'
    <2>1. \A w \in Wheels : index'[w] = Base(startTick + 1)[w] % Size(w)
      BY <1>2, <1>4, <1>5 DEF StageIndex
    <2> QED BY <1>2, <2>1 DEF IndexFits
  <1>7. NodesFit'
    <2>1. ASSUME NEW t \in Timers
          PROVE  NodeFits(place'[t], Base(startTick + 1), dead[t], slack'[t])
      <3>1. NodeFits(next.place[t], Base(startTick + 1), dead[t], IF t \in next.moved THEN Lag ELSE slack[t])
        BY <1>4, <1>5 DEF StageNodes
      <3>2. slack'[t] = IF t \in next.moved THEN Lag ELSE slack[t]
        BY <1>2
      <3> QED BY <1>2, <3>1, <3>2
    <2> QED BY <1>2, <2>1 DEF NodesFit, NodeFits
  <1>8. Types'
    <2>1. index' \in [Wheels -> Nat] /\ place' \in [Timers -> Nat \X Nat]
      BY <1>2, <1>4 DEF StageIndex, StageNodes
    <2>2. Lag \in Nat /\ slack \in [Timers -> Nat]
      BY <1>1 DEF Types, Lag
    <2>3. slack' \in [Timers -> Nat]
      BY <1>2, <2>2
    <2>4. startTick' \in 0..MaxTime /\ loops' \in Nat /\ startTick' + loops' <= now
      BY <1>1, <1>2, WheelAssumption DEF Types
    <2> QED BY <1>1, <1>2, <2>1, <2>3, <2>4 DEF Types
  <1>9. ListedIsMapped' /\ ReadyIsDrained'
    <2>1. \A t \in Timers : place'[t] = Nowhere <=> place[t] = Nowhere
      BY <1>2, <1>4 DEF StageNodes
    <2> QED BY <1>1, <1>2, <2>1 DEF ListedIsMapped, ReadyIsDrained
  <1> QED BY <1>6, <1>7, <1>8, <1>9 DEF Inv

\* ProcessTimeOut fires a timer.
LEMMA FireKeeps ==
  ASSUME Inv, NEW t \in Timers, Fire(t)
  PROVE  Inv'
  <1>1. Types /\ IndexFits /\ NodesFit /\ ListedIsMapped
    BY DEF Inv
  <1>2. pc = "fire" /\ place[t] = Ready /\ pc' = "call" /\ UNCHANGED <<now, startTick, index, loops, tickNow>>
    BY DEF Fire
  <1>3. startTick \in Nat /\ tickNow \in Nat /\ startTick <= tickNow
    BY <1>1, <1>2 DEF Types
  <1>4. CASE Forget(t)
    BY <1>2, <1>3, <1>4, ForgetKeeps
  <1>5. CASE ~Forget(t)
    <2> DEFINE sl == IF tickNow > startTick THEN tickNow - startTick ELSE 0
               p == Spoke(interval[t], index)
               d == tickNow + interval[t]
    <2>1. /\ dead' = [dead EXCEPT ![t] = d] /\ place' = [place EXCEPT ![t] = p]
          /\ slack' = [slack EXCEPT ![t] = sl] /\ UNCHANGED <<timerMap, interval>>
      BY <1>5 DEF Fire
    <2>2. interval[t] \in Nat
      BY <1>1 DEF Types
    <2>3. sl \in Nat /\ d \in Nat /\ startTick + interval[t] <= d /\ d <= startTick + interval[t] + sl
      BY <1>3, <2>2
    <2> HIDE DEF sl, d
    <2>4. OnWheel(p, Base(startTick), d, sl) /\ p \in Nat \X Nat
      BY <1>1, <2>2, <2>3, AddTimerFits
    <2>5. p # Ready /\ p # Nowhere /\ Ready # Nowhere
      BY <2>4, SpokeIsSpoke, WheelAssumption DEF Ready, Nowhere
    <2> HIDE DEF p
    <2>6. NodesFit'
      <3>1. NodeFits(p, Base(startTick), d, sl)
        BY <2>4 DEF NodeFits
      <3> QED BY <1>1, <1>2, <2>1, <3>1, OneNode
    <2>7. Types'
      <3>1. place' \in [Timers -> Nat \X Nat]
        BY <1>1, <2>1, <2>4 DEF Types
      <3>2. dead' \in [Timers -> Nat] /\ slack' \in [Timers -> Nat]
        BY <1>1, <2>1, <2>3 DEF Types
      <3> QED BY <1>1, <1>2, <2>1, <3>1, <3>2 DEF Types
    <2>8. IndexFits'
      BY <1>1, <1>2 DEF IndexFits
    <2>9. ListedIsMapped' /\ ReadyIsDrained'
      <3>1. place'[t] = p /\ \A o \in Timers : o # t => place'[o] = place[o]
        BY <1>1, <2>1 DEF Types
      <3>2. t \in timerMap
        BY <1>1, <1>2, <2>5 DEF ListedIsMapped
      <3> QED BY <1>1, <1>2, <2>1, <2>5, <3>1, <3>2 DEF ListedIsMapped, ReadyIsDrained
    <2> QED BY <2>6, <2>7, <2>8, <2>9 DEF Inv
  <1> QED BY <1>4, <1>5

\* The steps of ProcessTimeOut that move no node, and the clock.
LEMMA OtherKeeps ==
  ASSUME Inv, BeginFire \/ Called \/ EndFire \/ Tick \/ UNCHANGED vars
  PROVE  Inv'
  <1>1. Types /\ IndexFits /\ NodesFit /\ ListedIsMapped /\ ReadyIsDrained
    BY DEF Inv
  <1>2. UNCHANGED <<startTick, index, timerMap, place, dead, interval, loops, slack>>
    BY DEF BeginFire, Called, EndFire, Tick, vars
  <1>3. now' \in 0..MaxTime /\ now' >= now
    BY <1>1, WheelAssumption DEF BeginFire, Called, EndFire, Tick, vars, Types
  <1>4. /\ pc' \in {"out", "wheel", "fire", "call"} /\ tickNow' \in Nat
        /\ pc' \in {"fire", "call"} => startTick <= tickNow'
    <2>1. now \in Nat /\ startTick \in Nat /\ startTick <= now
      BY <1>1 DEF Types
    <2>2. CASE BeginFire
      BY <2>1, <2>2 DEF BeginFire
    <2>3. CASE Called
      BY <1>1, <2>3 DEF Called, Types
    <2>4. CASE EndFire
      BY <2>4 DEF EndFire
    <2>5. CASE Tick \/ UNCHANGED vars
      BY <1>1, <2>5 DEF Tick, vars, Types
    <2> QED BY <2>2, <2>3, <2>4, <2>5
  <1>5. Types'
    <2>1. startTick + loops <= now'
      BY <1>1, <1>3 DEF Types
    <2> QED BY <1>1, <1>2, <1>3, <1>4, <2>1 DEF Types
  <1>6. NodesFit'
    <2>1. now' \in Nat
      BY <1>3
    <2> QED BY <1>1, <1>2, <1>3, <2>1, KeepNodes
  <1>7. IndexFits' /\ ListedIsMapped'
    BY <1>1, <1>2 DEF IndexFits, ListedIsMapped
  <1>8. ReadyIsDrained'
    <2>1. CASE EndFire
      BY <1>2, <2>1 DEF EndFire, ReadyIsDrained
    <2>2. CASE ~EndFire
      <3>1. pc' = "out" => pc = "out"
        BY <2>2 DEF BeginFire, Called, Tick, vars
      <3> QED BY <1>1, <1>2, <3>1 DEF ReadyIsDrained
    <2> QED BY <2>1, <2>2
  <1> QED BY <1>5, <1>6, <1>7, <1>8 DEF Inv

\* The initial state.
LEMMA InvInit == Init => Inv
  <1>1. SUFFICES ASSUME Init PROVE Inv
    OBVIOUS
  <1>2. Nowhere \in Nat \X Nat /\ Nowhere # Ready
    BY WheelAssumption DEF Nowhere, Ready
  <1>3. Types
    BY <1>1, <1>2, WheelAssumption DEF Init, Types
  <1>4. IndexFits
    <2>1. ASSUME NEW w \in Wheels PROVE index[w] = Base(startTick)[w] % Size(w)
      <3>1. Unit[w] \in Nat \ {0} /\ Size(w) \in Nat \ {0}
        BY Units
      <3>2. 0 = Unit[w] * 0 + 0 /\ 0 = Size(w) * 0 + 0 /\ 0 < Unit[w] /\ 0 < Size(w)
        BY <3>1
      <3>3. 0 \div Unit[w] = 0 /\ 0 % Size(w) = 0
        BY <3>1, <3>2, DivModUnique
      <3>4. Base(0)[w] = 0
        BY <3>3 DEF Base
      <3> QED BY <1>1, <3>3, <3>4 DEF Init
    <2> QED BY <2>1 DEF IndexFits
  <1>5. NodesFit
    BY <1>1 DEF Init, NodesFit, NodeFits
  <1>6. ListedIsMapped /\ ReadyIsDrained
    BY <1>1, <1>2 DEF Init, ListedIsMapped, ReadyIsDrained
  <1> QED BY <1>3, <1>4, <1>5, <1>6 DEF Inv

\* Every step.
LEMMA InvNext == Inv /\ [Next]_vars => Inv'
  <1>1. SUFFICES ASSUME Inv, [Next]_vars PROVE Inv'
    OBVIOUS
  <1>2. CASE \E t \in Timers, i \in Intervals : SetTimer(t, i)
    BY <1>1, <1>2, SetTimerKeeps
  <1>3. CASE \E t \in Timers : KillTimer(t) \/ Fire(t)
    BY <1>1, <1>3, KillTimerKeeps, FireKeeps
  <1>4. CASE Detect
    BY <1>1, <1>4, DetectKeeps
  <1>5. CASE Turn
    BY <1>1, <1>5, TurnKeeps
  <1>6. CASE BeginFire \/ Called \/ EndFire \/ Tick \/ UNCHANGED vars
    BY <1>1, <1>6, OtherKeeps
  <1> QED BY <1>1, <1>2, <1>3, <1>4, <1>5, <1>6 DEF Next

-----------------------------------------------------------------------------
(* Theorems *)

\* The inductive invariant holds: the wheels show startTick, and every node is on a spoke that is
\* emptied before the node is late (TimerManager::AddTimer, DetectList, Cascade).
THEOREM WheelInvariant == Spec => []Inv
  BY InvInit, InvNext, PTL DEF Spec

\* Types: spokes stay on their wheels, and the wheels do not get ahead of the clock.
THEOREM WheelTypes == Spec => []TypeOK
  <1>1. Inv => TypeOK
    <2>1. SUFFICES ASSUME Inv PROVE TypeOK
      OBVIOUS
    <2>2. Types /\ IndexFits /\ NodesFit
      BY <2>1 DEF Inv
    <2>3. \A w \in Wheels : index[w] < Size(w)
      <3>1. startTick \in Nat
        BY <2>2 DEF Types
      <3>2. \A w \in Wheels : Base(startTick)[w] \in Nat /\ Size(w) \in Nat \ {0}
        BY <3>1, BaseFits, Units
      <3>3. \A w \in Wheels : Base(startTick)[w] % Size(w) < Size(w)
        BY <3>2, DivMod
      <3> QED BY <2>2, <3>3 DEF IndexFits
    <2>4. ASSUME NEW t \in Timers, place[t] \notin {Ready, Nowhere}
          PROVE  \E w \in Wheels : place[t] \in {w} \X (0..(Size(w) - 1))
      <3>1. OnWheel(place[t], Base(startTick), dead[t], slack[t])
        BY <2>2, <2>4 DEF NodesFit, NodeFits
      <3>2. PICK w \in Wheels, k \in Nat : place[t] = <<w, k % Size(w)>>
        BY <3>1 DEF OnWheel, OnSpoke
      <3>3. Size(w) \in Nat \ {0}
        BY Units
      <3>4. k % Size(w) \in Nat /\ k % Size(w) < Size(w)
        BY <3>3, DivMod
      <3>5. k % Size(w) \in 0..(Size(w) - 1)
        <4> DEFINE x == k % Size(w)
        <4>1. x \in Nat /\ x < Size(w)
          BY <3>4
        <4> HIDE DEF x
        <4>2. x \in 0..(Size(w) - 1)
          BY <3>3, <4>1
        <4> QED BY <4>2 DEF x
      <3> QED BY <3>2, <3>5
    <2> QED BY <2>2, <2>3, <2>4 DEF TypeOK, Types
  <1> QED BY <1>1, WheelInvariant, PTL

\* The lists hold the nodes of the timers that exist: after KillTimer a timer does not fire, and
\* no list points to a node that its map let go of.
THEOREM ListsAreMapped == Spec => []ListedIsMapped
  <1>1. Inv => ListedIsMapped
    BY DEF Inv
  <1> QED BY <1>1, WheelInvariant, PTL

\* When DetectList has caught up with the clock no timer is past its time.
THEOREM NeverOverdue == Spec => []NoOverdueTimer
  <1>1. Inv => NoOverdueTimer
    <2>1. SUFFICES ASSUME Inv, pc = "out", startTick = now, NEW t \in Timers, t \in timerMap
                   PROVE  dead[t] >= now
      BY DEF NoOverdueTimer
    <2>2. Types /\ NodesFit /\ ListedIsMapped /\ ReadyIsDrained
      BY <2>1 DEF Inv
    <2>3. OnWheel(place[t], Base(startTick), dead[t], slack[t])
      BY <2>1, <2>2 DEF NodesFit, NodeFits, ListedIsMapped, ReadyIsDrained
    <2>4. PICK w \in Wheels, k \in Nat : Base(startTick)[w] <= k /\ Unit[w] * (k + 1) <= dead[t] + 1
      BY <2>3 DEF OnWheel, OnSpoke
    <2>5. startTick \in Nat /\ dead[t] \in Nat /\ Unit[w] \in Nat \ {0}
      BY <2>2, Units DEF Types
    <2>6. startTick \div Unit[w] <= k
      BY <2>4, <2>5, BaseFits
    <2>7. startTick < Unit[w] * (k + 1)
      BY <2>5, <2>6, BeforeNext
    <2>8. Unit[w] * (k + 1) \in Nat
      BY <2>5
    <2> QED BY <2>1, <2>4, <2>5, <2>7, <2>8
  <1> QED BY <1>1, WheelInvariant, PTL

\* A timer fires early by less than what the wheels were behind when it was put on its spoke.
THEOREM EarlyByLag == Spec => EarlyByLessThanLag
  <1>1. Inv => \A t \in Timers : Fires(t) => dead[t] <= now \/ dead[t] < now + slack[t]
    <2>1. SUFFICES ASSUME Inv, NEW t \in Timers, place[t] = Ready
                   PROVE  dead[t] <= now \/ dead[t] < now + slack[t]
      BY DEF Fires
    <2>2. NodeFits(place[t], Base(startTick), dead[t], slack[t])
      BY <2>1 DEF Inv, NodesFit
    <2>3. Ready # Nowhere
      BY WheelAssumption DEF Ready, Nowhere
    <2> QED BY <2>1, <2>2, <2>3, SpokeIsSpoke DEF NodeFits
  <1>2. Inv /\ [Next]_vars => [\A t \in Timers : Fires(t) => dead[t] <= now \/ dead[t] < now + slack[t]]_vars
    BY <1>1
  <1> QED BY <1>2, WheelInvariant, PTL DEF Spec, EarlyByLessThanLag

-----------------------------------------------------------------------------
(* GetMinIdleTime *)

\* EmptySpokes counts up to the first busy spoke.
LEMMA EmptySpokesFits ==
  ASSUME NEW w \in Wheels
  PROVE  /\ EmptySpokes(w) \in Nat
         /\ \A i \in 0..(Size(w) - 1) : Busy(w, (i + index[w]) % Size(w)) => EmptySpokes(w) <= i
  <1> DEFINE taken == {i \in 0..(Size(w) - 1) : Busy(w, (i + index[w]) % Size(w))}
  <1>1. Size(w) \in Nat
    BY Units
  <1>2. EmptySpokes(w) = IF taken = {} THEN Size(w) ELSE CHOOSE i \in taken : \A j \in taken : i <= j
    BY Zenon DEF EmptySpokes
  <1>3. taken \in SUBSET Nat
    BY <1>1
  <1>4. \A i \in 0..(Size(w) - 1) : Busy(w, (i + index[w]) % Size(w)) => i \in taken
    OBVIOUS
  <1> HIDE DEF taken
  <1>5. CASE taken = {}
    BY <1>1, <1>2, <1>4, <1>5
  <1>6. CASE taken # {}
    <2>1. \E i \in taken : \A j \in taken : i <= j
      BY <1>3, <1>6, LeastNat
    <2>2. EmptySpokes(w) \in taken /\ \A j \in taken : EmptySpokes(w) <= j
      BY <1>2, <1>6, <2>1
    <2> QED BY <1>3, <1>4, <2>2
  <1> QED BY <1>5, <1>6

\* A node on a spoke is at most as many spokes away as it has turns to go.
LEMMA NodeIsCounted ==
  ASSUME Types, IndexFits, NEW w \in Wheels, NEW k \in Nat, NEW t \in Timers,
         place[t] = <<w, k % Size(w)>>, Base(startTick)[w] <= k
  PROVE  /\ Base(startTick)[w] + EmptySpokes(w) <= k
         /\ EmptySpokes(w) < Size(w)
         /\ ~Busy(w, index[w]) => Base(startTick)[w] # k
  <1> DEFINE b == Base(startTick)[w]
             d == Size(w)
             i == (k - b) % d
             q == (k - b) \div d
  <1>1. b \in Nat /\ d \in Nat \ {0} /\ index[w] = b % d /\ b <= k
    BY BaseFits, Units DEF Types, IndexFits
  <1> HIDE DEF b, d
  <1>2. k - b \in Nat
    BY <1>1
  <1>3. i \in Nat /\ i < d /\ q \in Nat /\ k - b = d * q + i
    BY <1>1, <1>2, DivMod
  <1>4. (i + index[w]) % d = k % d
    <2>1. b % d \in Nat /\ i \in Nat
      BY <1>1, <1>3, DivMod
    <2>2. ((b % d) + ((k - b) % d)) % d = ((b % d) + (k - b)) % d
      BY <1>1, <1>2, <2>1, ModAdd
    <2>3. ((k - b) + (b % d)) % d = ((k - b) + b) % d
      BY <1>1, <1>2, ModAdd
    <2> DEFINE r == b % d
    <2>4. r \in Nat /\ (r + i) % d = (r + (k - b)) % d /\ ((k - b) + r) % d = ((k - b) + b) % d
      BY <2>1, <2>2, <2>3
    <2>5. index[w] = r
      BY <1>1
    <2> HIDE DEF r, i
    <2>6. r + i = i + r /\ r + (k - b) = (k - b) + r /\ (k - b) + b = k
      BY <1>1, <1>2, <2>1, <2>4
    <2> QED BY <2>4, <2>5, <2>6
  <1> HIDE DEF i, q
  <1>5. i \in 0..(d - 1)
    BY <1>1, <1>3
  <1>6. Busy(w, (i + index[w]) % d)
    BY <1>4 DEF Busy, d
  <1>7. EmptySpokes(w) \in Nat /\ EmptySpokes(w) <= i
    BY <1>5, <1>6, EmptySpokesFits DEF d
  <1>8. i <= k - b
    <2>1. d * q \in Nat
      BY <1>1, <1>3
    <2> QED BY <1>2, <1>3, <2>1
  <1>9. b + EmptySpokes(w) <= k /\ EmptySpokes(w) < d
    <2>1. i \in Nat /\ i < d
      BY <1>3
    <2> DEFINE e == EmptySpokes(w)
    <2>2. e \in Nat /\ e <= i
      BY <1>7
    <2>3. b \in Nat /\ d \in Nat /\ k \in Nat
      BY <1>1
    <2> HIDE DEF e
    <2>4. b + e <= k /\ e < d
      BY <1>8, <2>1, <2>2, <2>3
    <2> QED BY <2>4 DEF e
  <1>10. b = k => Busy(w, index[w])
    <2>1. b = k => place[t] = <<w, index[w]>>
      BY <1>1 DEF d
    <2> QED BY <2>1 DEF Busy
  <1> QED BY <1>9, <1>10 DEF b, d

\* What the looper may sleep: three cases, if no timer is above the second wheel.
LEMMA IdleTimes ==
  ASSUME Types, IndexFits, \A t \in Timers : place[t][1] \notin 2..(WHEEL_NUM - 1)
  PROVE  GetMinIdleTime =
           IF EmptySpokes(0) < Rewind(0) THEN EmptySpokes(0)
           ELSE IF Busy(1, index[1]) THEN Rewind(0)
           ELSE IF EmptySpokes(0) < SIZE1 THEN EmptySpokes(0)
           ELSE IF EmptySpokes(1) < SIZE2 \/ (EmptySpokes(0) = SIZE1 /\ EmptySpokes(1) < Rewind(1))
                THEN EmptySpokes(1) * Unit[1]
           ELSE EmptySpokes(2) * Unit[2]
  <1>1. EmptySpokes(0) \in Nat /\ EmptySpokes(1) \in Nat
    BY EmptySpokesFits, Units
  <1>2. Rewind(0) \in Int /\ Rewind(1) \in Int /\ SIZE1 \in Nat
    <2>1. Size(0) \in Nat /\ Size(1) \in Nat /\ index[0] \in Nat /\ index[1] \in Nat
      BY Units DEF Types
    <2> QED BY <2>1, WheelAssumption DEF Rewind
  <1>3. ~Busy(2, index[2])
    <2>1. 2 \in 2..(WHEEL_NUM - 1)
      BY WheelAssumption
    <2> QED BY <2>1 DEF Busy
  <1>4. CASE EmptySpokes(0) < Rewind(0)
    BY <1>1, <1>2, <1>4 DEF GetMinIdleTime
  <1>5. CASE ~(EmptySpokes(0) < Rewind(0))
    <2>1. EmptySpokes(0) >= Rewind(0)
      BY <1>1, <1>2, <1>5
    <2>2. CASE Busy(1, index[1])
      BY <1>5, <2>1, <2>2 DEF GetMinIdleTime
    <2>3. CASE ~Busy(1, index[1])
      <3>1. CASE EmptySpokes(0) < SIZE1
        <4>1. EmptySpokes(0) # SIZE1
          BY <1>1, <1>2, <3>1
        <4> QED BY <1>5, <2>1, <2>3, <3>1, <4>1 DEF GetMinIdleTime
      <3>2. CASE ~(EmptySpokes(0) < SIZE1)
        BY <1>3, <1>5, <2>1, <2>3, <3>2 DEF GetMinIdleTime
      <3> QED BY <3>1, <3>2
    <2> QED BY <2>2, <2>3
  <1> QED BY <1>4, <1>5

\* The looper does not sleep past the next timer, as long as the timers are on the wheels that
\* GetMinIdleTime looks at in full.
THEOREM ShortSleeps == Spec => []ShortSleepIsSafe
  <1>1. Inv => ShortSleepIsSafe
    <2>1. SUFFICES ASSUME Inv, \A t \in Timers : place[t][1] \notin 2..(WHEEL_NUM - 1),
                          pc = "out", startTick = now, NEW t \in Timers, t \in timerMap
                   PROVE  now + GetMinIdleTime <= dead[t] + 1
      BY DEF ShortSleepIsSafe, SleepIsSafe
    <2>2. Types /\ IndexFits /\ NodesFit /\ ListedIsMapped /\ ReadyIsDrained
      BY <2>1 DEF Inv
    <2>3. OnWheel(place[t], Base(startTick), dead[t], slack[t])
      BY <2>1, <2>2 DEF NodesFit, NodeFits, ListedIsMapped, ReadyIsDrained
    <2>4. PICK w \in Wheels, k \in Nat : OnSpoke(place[t], Base(startTick), dead[t], slack[t], w, k)
      BY <2>3 DEF OnWheel
    <2> DEFINE b == Base(now)
               E0 == EmptySpokes(0)
               E1 == EmptySpokes(1)
               R0 == Rewind(0)
               B1 == b[1]
    <2>5. place[t] = <<w, k % Size(w)>> /\ b[w] <= k /\ Unit[w] * (k + 1) <= dead[t] + 1
      BY <2>1, <2>4 DEF OnSpoke
    <2>6. w = 0 \/ w = 1
      <3>1. w \notin 2..(WHEEL_NUM - 1)
        BY <2>1, <2>5
      <3> QED BY <3>1, WheelAssumption DEF Wheels
    <2>7. /\ now \in Nat /\ dead[t] \in Nat /\ SIZE1 \in Nat \ {0} /\ E0 \in Nat /\ E1 \in Nat
          /\ Unit[0] = 1 /\ Unit[1] = SIZE1 /\ Size(0) = SIZE1 /\ Size(1) = SIZE2
      BY <2>2, EmptySpokesFits, Units, WheelAssumption DEF Types, Size
    <2>8. /\ b[0] = now /\ B1 = now \div SIZE1 /\ B1 \in Nat /\ index[0] = now % SIZE1
      <3>1. 0 \in Wheels /\ 1 \in Wheels
        BY Units
      <3>2. b \in [Wheels -> Nat] /\ b[0] = now /\ b[1] = now \div Unit[1]
        BY <2>7, <3>1, BaseFits
      <3>3. index[0] = b[0] % Size(0)
        BY <2>1, <2>2, <3>1 DEF IndexFits
      <3> HIDE DEF b
      <3>4. b[1] \in Nat
        BY <3>1, <3>2
      <3> QED BY <2>7, <3>2, <3>3, <3>4
    <2> DEFINE r == now % SIZE1
    <2>9. r \in Nat /\ r < SIZE1 /\ now = SIZE1 * B1 + r /\ R0 = SIZE1 - r
      BY <2>7, <2>8, DivMod DEF Rewind
    <2>10. b[w] + EmptySpokes(w) <= k /\ EmptySpokes(w) < Size(w) /\ (~Busy(w, index[w]) => b[w] # k)
      BY <2>1, <2>2, <2>5, NodeIsCounted
    <2>11. GetMinIdleTime =
             IF E0 < R0 THEN E0 ELSE IF Busy(1, index[1]) THEN R0 ELSE IF E0 < SIZE1 THEN E0
             ELSE IF E1 < SIZE2 \/ (E0 = SIZE1 /\ E1 < Rewind(1)) THEN E1 * Unit[1]
             ELSE EmptySpokes(2) * Unit[2]
      BY <2>1, <2>2, IdleTimes
    <2> HIDE DEF b, E0, E1, R0, B1, r
    <2>12. CASE w = 0
      <3>1. now + E0 <= k /\ E0 < SIZE1 /\ k <= dead[t]
        <4>1. 1 * (k + 1) = k + 1
          OBVIOUS
        <4> QED BY <2>5, <2>7, <2>8, <2>10, <2>12, <4>1 DEF E0
      <3>2. GetMinIdleTime = E0 \/ (GetMinIdleTime = R0 /\ R0 <= E0)
        <4>1. R0 \in Nat
          BY <2>7, <2>9
        <4>2. E0 < R0 \/ R0 <= E0
          BY <2>7, <4>1
        <4> QED BY <2>11, <3>1, <4>2
      <3>3. R0 \in Nat
        BY <2>7, <2>9
      <3> QED BY <2>7, <3>1, <3>2, <3>3
    <2>13. CASE w = 1
      <3>1. B1 + E1 <= k /\ E1 < SIZE2 /\ (~Busy(1, index[1]) => B1 # k) /\ B1 <= k
        BY <2>5, <2>7, <2>10, <2>13 DEF E1, B1
      <3>2. SIZE1 * (k + 1) <= dead[t] + 1
        BY <2>5, <2>7, <2>13
      <3>3. \A x, y, z \in Nat : x <= y => z * x <= z * y
        OBVIOUS
      <3>4. ASSUME NEW e \in Nat, B1 + e <= k PROVE SIZE1 * B1 + SIZE1 * e + SIZE1 <= dead[t] + 1
        <4>1. B1 + e + 1 \in Nat /\ k + 1 \in Nat /\ B1 + e + 1 <= k + 1
          BY <2>8, <3>4
        <4>2. SIZE1 * (B1 + e + 1) <= SIZE1 * (k + 1)
          BY <2>7, <3>3, <4>1
        <4>3. SIZE1 * (B1 + e + 1) = SIZE1 * B1 + SIZE1 * e + SIZE1
          BY <2>7, <2>8
        <4>4. SIZE1 * (k + 1) \in Nat /\ SIZE1 * B1 \in Nat /\ SIZE1 * e \in Nat
          BY <2>7, <2>8
        <4> QED BY <2>7, <3>2, <4>2, <4>3, <4>4
      <3>5. now + R0 <= dead[t] + 1
        <4>1. SIZE1 * B1 + SIZE1 * 0 + SIZE1 <= dead[t] + 1
          BY <2>8, <3>1, <3>4
        <4>2. SIZE1 * 0 = 0 /\ SIZE1 * B1 \in Nat
          BY <2>7, <2>8
        <4> QED BY <2>7, <2>9, <4>1, <4>2
      <3>6. now + E1 * SIZE1 <= dead[t] + 1
        <4>1. SIZE1 * B1 + SIZE1 * E1 + SIZE1 <= dead[t] + 1
          BY <2>7, <3>1, <3>4
        <4>2. E1 * SIZE1 = SIZE1 * E1 /\ SIZE1 * E1 \in Nat /\ SIZE1 * B1 \in Nat
          BY <2>7, <2>8
        <4> QED BY <2>7, <2>9, <4>1, <4>2
      <3>7. ASSUME ~Busy(1, index[1]), E0 < SIZE1 PROVE now + E0 <= dead[t] + 1
        <4>1. B1 + 1 <= k
          BY <2>8, <3>1, <3>7
        <4>2. SIZE1 * B1 + SIZE1 * 1 + SIZE1 <= dead[t] + 1
          BY <3>4, <4>1
        <4>3. SIZE1 * 1 = SIZE1 /\ SIZE1 * B1 \in Nat
          BY <2>7, <2>8
        <4> QED BY <2>7, <2>9, <3>7, <4>2, <4>3
      <3>8. E0 < R0 => now + E0 <= dead[t] + 1
        <4>1. R0 \in Nat
          BY <2>7, <2>9
        <4> QED BY <2>7, <3>5, <4>1
      <3> QED BY <2>7, <2>11, <3>1, <3>5, <3>6, <3>7, <3>8
    <2> QED BY <2>6, <2>12, <2>13
  <1> QED BY <1>1, WheelInvariant, PTL
=============================================================================
