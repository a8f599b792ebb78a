------------------------ MODULE SwapControllerProofs ------------------------
(***************************************************************************)
(* The coefficient and the swaps, for every set of coefficients, ramp      *)
(* times and amounts, every length of a day and any coins: the owner's     *)
(* calls never make the coefficient jump; ramps chained and cut short move *)
(* it no further in a day than one ramp may; swaps keep their worth.       *)
(***************************************************************************)
EXTENDS SwapController, DataLemmas

\* What the interpolation needs of its variables.
RampInv ==
    /\ now \in Nat
    /\ initial_A \in Int /\ future_A \in Int
    /\ initial_A_time \in Nat /\ future_A_time \in Nat
    /\ initial_A_time <= now

\* A ramp in progress has a length, so that the interpolation is an integer.
LEMMA CurrentIsInt ==
    ASSUME RampInv
    PROVE  Current \in Int
<1> DEFINE passed == now - initial_A_time
           whole == future_A_time - initial_A_time
<1>1. CASE now >= future_A_time
    BY <1>1 DEF RampInv, Current, CurrentAt
<1>2. CASE ~ (now >= future_A_time)
  <2>1. passed \in Nat /\ whole \in Nat /\ whole > 0
      BY <1>2 DEF RampInv
  <2>2. /\ ((future_A - initial_A) * passed) \div whole \in Int
        /\ ((initial_A - future_A) * passed) \div whole \in Int
    <3>1. (future_A - initial_A) * passed \in Int /\ (initial_A - future_A) * passed \in Int
        BY <2>1 DEF RampInv
    <3> HIDE DEF passed, whole
    <3>2. \A n \in Int : n \div whole \in Int
        BY <2>1
    <3> QED BY <3>1, <3>2
  <2> QED BY <1>2, <2>2 DEF RampInv, Current, CurrentAt
<1> QED BY <1>1, <1>2

LEMMA RampInvHolds == Spec => []RampInv
<1>1. Init => RampInv
    BY SwapAssumption DEF Init, RampInv
<1>2. RampInv /\ [Next]_vars => RampInv'
  <2> SUFFICES ASSUME RampInv, [Next]_vars
               PROVE  RampInv'
      OBVIOUS
  <2>1. CASE Tick
      BY <2>1 DEF Tick, ramp, RampInv
  <2>2. ASSUME NEW future \in FutureAs, NEW time \in RampTimes, RampA(future, now + time)
        PROVE  RampInv'
    <3>1. future \in Int /\ now + time \in Nat
        BY SwapAssumption DEF RampInv
    <3> QED BY <2>2, <3>1, CurrentIsInt DEF RampA, RampFrom, RampInv
  <2>3. CASE StopRampA
      BY <2>3, CurrentIsInt DEF StopRampA, RampInv
  <2>4. ASSUME NEW d \in Tokens, NEW amount \in Amounts,
               \/ SwapVUND(d, amount)
               \/ \E c \in Tokens, tolerance \in Tolerances :
                     SwapExecution(c, d, amount, tolerance)
        PROVE  RampInv'
      BY <2>4 DEF SwapVUND, SwapExecution, ramp, RampInv
  <2>5. CASE UNCHANGED vars
      BY <2>5 DEF vars, ramp, RampInv
  <2> QED BY <2>1, <2>2, <2>3, <2>4, <2>5 DEF Next
<1> QED BY <1>1, <1>2, PTL DEF Spec

\* At its first moment a ramp has not moved: zero time has passed.
LEMMA StartsWhereItIs ==
    ASSUME NEW from \in Int, NEW to \in Int, NEW start \in Int, NEW end \in Int, end > start
    PROVE  /\ from + ((to - from) * (start - start)) \div (end - start) = from
           /\ from - ((from - to) * (start - start)) \div (end - start) = from
<1>1. end - start \in Nat /\ end - start > 0 /\ start - start = 0
    OBVIOUS
<1>2. (to - from) * 0 = 0 /\ (from - to) * 0 = 0
    OBVIOUS
<1>3. 0 \div (end - start) = 0
    BY <1>1
<1> QED BY <1>1, <1>2, <1>3

\* ramp_A begins at the interpolated value and stop_ramp_A ends at it: only
\* time moves the coefficient.
THEOREM OwnerNeverJumps == Spec => OnlyTimeMovesA
<1>1. RampInv /\ RampInv' /\ [Next]_vars => (now' = now => Current' = Current)
  <2> SUFFICES ASSUME RampInv, RampInv', [Next]_vars, now' = now
               PROVE  Current' = Current
      OBVIOUS
  <2>1. CASE Tick
      BY <2>1 DEF Tick, RampInv
  <2>2. ASSUME NEW future \in FutureAs, NEW time \in RampTimes, RampA(future, now + time)
        PROVE  Current' = Current
    <3>1. PICK from \in Int : from = Current
        BY CurrentIsInt
    <3>2. PICK start \in Int, end \in Int : start = now /\ end = now + time /\ end > start
        BY <2>2, SwapAssumption DEF RampA, MayRamp, RampInv
    <3>3. /\ initial_A' = from /\ future_A' = future /\ future \in Int
          /\ initial_A_time' = start /\ future_A_time' = end /\ now' = start
        BY <2>2, <3>1, <3>2, SwapAssumption DEF RampA, RampFrom
    <3>4. /\ from + ((future - from) * (start - start)) \div (end - start) = from
          /\ from - ((from - future) * (start - start)) \div (end - start) = from
        BY <3>2, <3>3, StartsWhereItIs
    <3>5. Current' = from
        BY <3>2, <3>3, <3>4 DEF Current, CurrentAt
    <3> QED BY <3>1, <3>5
  <2>3. CASE StopRampA
      BY <2>3 DEF StopRampA, Current, CurrentAt, RampInv
  <2>4. ASSUME NEW d \in Tokens, NEW amount \in Amounts,
               \/ SwapVUND(d, amount)
               \/ \E c \in Tokens, tolerance \in Tolerances :
                     SwapExecution(c, d, amount, tolerance)
        PROVE  Current' = Current
      BY <2>4 DEF SwapVUND, SwapExecution, ramp, Current, CurrentAt
  <2>5. CASE UNCHANGED vars
      BY <2>5 DEF vars, ramp, Current, CurrentAt
  <2> QED BY <2>1, <2>2, <2>3, <2>4, <2>5 DEF Next
<1> QED BY <1>1, RampInvHolds, PTL DEF Spec, OnlyTimeMovesA

-----------------------------------------------------------------------------
(* Arithmetic of a ramp.                                                   *)

\* What p units of time make of a change k that takes w of them.
Part(k, p, w) == IF p >= w THEN k ELSE (k * p) \div w

LEMMA PartBounds ==
    ASSUME NEW k \in Nat, NEW p \in Nat, NEW w \in Nat
    PROVE  /\ Part(k, p, w) \in Nat
           /\ Part(k, p, w) <= k
           /\ w * Part(k, p, w) <= k * p
           /\ p < w => k * p < w * Part(k, p, w) + w
<1>1. CASE p >= w
    <2>1. w * k <= p * k /\ p * k = k * p
        BY <1>1, TimesGrows
    <2> QED BY <1>1, <2>1 DEF Part
<1>2. CASE p < w
    <2>1. k * p \in Nat /\ w \in Nat \ {0}
        BY <1>2
    <2>2. PICK x \in Nat : x = (k * p) \div w
        BY <2>1, DivBounds
    <2>3. w * x <= k * p /\ k * p < w * x + w
        BY <2>1, <2>2, DivBounds
    <2>4. x <= k
        <3>1. p * k <= w * k /\ p * k = k * p /\ w * x = x * w /\ w * k = k * w
            BY <1>2, TimesGrows
        <3>2. x * w <= k * w
            BY <2>3, <3>1
        <3> QED BY <2>1, <3>2, TimesShrinks
    <2>5. Part(k, p, w) = x
        BY <1>2, <2>2 DEF Part
    <2> QED BY <2>3, <2>4, <2>5
<1> QED BY <1>1, <1>2

\* A ramp goes one way.
LEMMA PartGrows ==
    ASSUME NEW k \in Nat, NEW p \in Nat, NEW q \in Nat, NEW w \in Nat, p <= q
    PROVE  Part(k, p, w) <= Part(k, q, w)
<1>1. CASE q >= w
    BY <1>1, PartBounds DEF Part
<1>2. CASE q < w
    <2>1. k * p \in Nat /\ k * q \in Nat /\ w \in Nat \ {0}
        BY <1>2
    <2>2. p * k <= q * k /\ p * k = k * p /\ q * k = k * q
        BY TimesGrows
    <2>3. (k * p) \div w <= (k * q) \div w
        BY <2>1, <2>2, DivGrows
    <2> QED BY <1>2, <2>3 DEF Part
<1> QED BY <1>1, <1>2

\* Between two moments it makes no more of the change than their distance, and
\* a rounding.
LEMMA PartStep ==
    ASSUME NEW k \in Nat, NEW p \in Nat, NEW q \in Nat, NEW w \in Nat, p <= q,
           NEW d \in Int, d = Part(k, q, w) - Part(k, p, w)
    PROVE  w * d <= k * (q - p) + w
<1>1. PICK x \in Nat : x = Part(k, p, w)
    BY PartBounds
<1>2. PICK y \in Nat : y = Part(k, q, w)
    BY PartBounds
<1>3. CASE p >= w
    <2>1. d = 0
        BY <1>3 DEF Part
    <2>2. k * (q - p) >= 0
        OBVIOUS
    <2> QED BY <2>1, <2>2
<1>4. CASE p < w
    <2>1. k * p < w * x + w
        BY <1>1, <1>4, PartBounds
    <2>2. w * y <= k * q
        BY <1>2, PartBounds
    <2>3. w * d = w * y - w * x /\ k * (q - p) = k * q - k * p
        BY <1>1, <1>2
    <2> QED BY <2>1, <2>2, <2>3
<1> QED BY <1>3, <1>4

-----------------------------------------------------------------------------
(* What a value x, n units of time before a ramp begins at c, has to do    *)
(* with c: m is MIN_RAMP_TIME.                                             *)

NotFarAbove(c, x, n, m) == c * (10 * m - 9 * n) <= 10 * m * (x + 1)
NotFarBelow(c, x, n, m) == m * (x - 1) <= c * (m + 9 * n)

\* A rising ramp.
LEMMA RiseAbove ==
    ASSUME NEW a \in Nat, NEW k \in Nat, k <= 9 * a,
           NEW m \in Nat \ {0}, NEW w \in Nat, w >= m,
           NEW p \in Nat, NEW q \in Nat, p <= q, q - p <= m, q >= m
    PROVE  NotFarAbove(a + Part(k, q, w), a + Part(k, p, w), q - p, m)
<1>1. PICK x \in Nat : x = Part(k, p, w)
    BY PartBounds
<1>2. PICK c \in Nat : c = Part(k, q, w)
    BY PartBounds
<1>3. PICK n \in Nat : n = q - p
    OBVIOUS
<1>4. SUFFICES (a + c) * (10 * m - 9 * n) <= 10 * m * (a + x + 1)
    BY <1>1, <1>2, <1>3 DEF NotFarAbove
<1>5. CASE p >= w
    <2>1. x = c
        BY <1>1, <1>2, <1>5 DEF Part
    <2>2. (10 * m - 9 * n) * (a + c) <= 10 * m * (a + c)
        BY TimesGrows
    <2>3. (10 * m - 9 * n) * (a + c) = (a + c) * (10 * m - 9 * n)
        OBVIOUS
    <2>4. 10 * m * (a + c) <= 10 * m * (a + x + 1)
        BY <2>1
    <2> QED BY <2>2, <2>3, <2>4
<1>6. CASE p < w
    <2>1. PICK r \in Nat : /\ r >= m /\ r >= p /\ r - p <= n /\ w * c <= k * r
        <3>1. CASE q >= w
            <4>1. c = k /\ w * k = k * w
                BY <1>2, <3>1 DEF Part
            <4>2. w >= p /\ w - p <= n
                BY <1>3, <1>6, <3>1
            <4> QED BY <4>1, <4>2
        <3>2. CASE q < w
            <4>1. w * c <= k * q
                BY <1>2, PartBounds
            <4> QED BY <1>3, <4>1
        <3> QED BY <3>1, <3>2
    <2>2. PICK e \in Nat : e = r - p /\ e <= n /\ e <= m
        BY <1>3, <2>1
    <2>3. k * p < w * x + w
        BY <1>1, <1>6, PartBounds
    <2>4. PICK t \in Nat : t = w * a + k * r
        OBVIOUS
    <2>5. w * (a + c) <= t
        <3>1. w * (a + c) = w * a + w * c
            OBVIOUS
        <3> QED BY <2>1, <2>4, <3>1
    <2>6. t - k * e <= w * (a + x + 1)
        <3>1. w * (a + x + 1) = w * a + w * x + w
            OBVIOUS
        <3>2. k * e = k * r - k * p
            BY <2>2
        <3> QED BY <2>3, <2>4, <3>1, <3>2
    <2>7. 10 * m * k <= 9 * t
        <3>1. m * k <= w * k /\ m * k <= r * k
            BY <2>1, TimesGrows
        <3>2. k * w <= (9 * a) * w
            BY TimesGrows
        <3>3. k * w = w * k /\ r * k = k * r /\ (9 * a) * w = 9 * (w * a) /\ 10 * m * k = 10 * (m * k)
            OBVIOUS
        <3> QED BY <2>4, <3>1, <3>2, <3>3
    <2>8. (10 * m * k) * e <= (9 * t) * e
        BY <2>7, TimesGrows
    <2>9. t * (10 * m - 9 * e) <= 10 * m * (t - k * e)
        <3>1. t * (10 * m - 9 * e) = 10 * m * t - (9 * t) * e
            OBVIOUS
        <3>2. 10 * m * (t - k * e) = 10 * m * t - (10 * m * k) * e
            OBVIOUS
        <3> QED BY <2>8, <3>1, <3>2
    <2>10. (w * (a + c)) * (10 * m - 9 * e) <= t * (10 * m - 9 * e)
        BY <2>2, <2>5, TimesGrows
    <2>11. (t - k * e) * (10 * m) <= (w * (a + x + 1)) * (10 * m)
        BY <2>6, TimesGrows
    <2>12. ((a + c) * (10 * m - 9 * e)) * w <= (10 * m * (a + x + 1)) * w
        <3>1. (w * (a + c)) * (10 * m - 9 * e) = ((a + c) * (10 * m - 9 * e)) * w
            OBVIOUS
        <3>2. (w * (a + x + 1)) * (10 * m) = (10 * m * (a + x + 1)) * w
            OBVIOUS
        <3>3. (t - k * e) * (10 * m) = 10 * m * (t - k * e)
            OBVIOUS
        <3> QED BY <2>9, <2>10, <2>11, <3>1, <3>2, <3>3
    <2>13. (a + c) * (10 * m - 9 * e) <= 10 * m * (a + x + 1)
        BY <2>12, TimesShrinks
    <2>14. (10 * m - 9 * n) * (a + c) <= (10 * m - 9 * e) * (a + c)
        BY <2>2, TimesGrows
    <2>15. /\ (10 * m - 9 * n) * (a + c) = (a + c) * (10 * m - 9 * n)
           /\ (10 * m - 9 * e) * (a + c) = (a + c) * (10 * m - 9 * e)
        OBVIOUS
    <2> QED BY <2>13, <2>14, <2>15
<1> QED BY <1>5, <1>6

\* A value that is not above the start of a ramp, and one that is not below it.
LEMMA NotAbove ==
    ASSUME NEW c \in Nat, NEW x \in Nat, NEW n \in Nat, NEW m \in Nat, x <= c
    PROVE  NotFarBelow(c, x, n, m)
<1>1. (x - 1) * m <= c * m
    BY TimesGrows
<1>2. (x - 1) * m = m * (x - 1) /\ c * (m + 9 * n) = c * m + 9 * (c * n) /\ c * n >= 0
    OBVIOUS
<1> QED BY <1>1, <1>2 DEF NotFarBelow

LEMMA NotBelow ==
    ASSUME NEW c \in Nat, NEW x \in Nat, NEW n \in Nat, NEW m \in Nat, c <= x
    PROVE  NotFarAbove(c, x, n, m)
<1>1. c * (10 * m) <= (x + 1) * (10 * m)
    BY TimesGrows
<1>2. /\ c * (10 * m - 9 * n) = c * (10 * m) - 9 * (c * n) /\ c * n >= 0
      /\ (x + 1) * (10 * m) = 10 * m * (x + 1)
    OBVIOUS
<1> QED BY <1>1, <1>2 DEF NotFarAbove

\* A falling ramp, from a to a - k.
LEMMA FallBelow ==
    ASSUME NEW a \in Nat, NEW k \in Nat, k <= 9 * (a - k),
           NEW m \in Nat \ {0}, NEW w \in Nat, w >= m,
           NEW p \in Nat, NEW q \in Nat, p <= q
    PROVE  NotFarBelow(a - Part(k, q, w), a - Part(k, p, w), q - p, m)
<1>1. PICK x \in Nat : x = Part(k, p, w)
    BY PartBounds
<1>2. PICK y \in Nat : y = Part(k, q, w)
    BY PartBounds
<1>3. PICK n \in Nat : n = q - p
    OBVIOUS
<1>4. PICK c \in Nat : c = a - y /\ k <= 9 * c
    <2>1. y <= k /\ 0 <= a - k
        BY <1>2, PartBounds
    <2>2. a - y \in Nat /\ a - k <= a - y
        BY <2>1
    <2> QED BY <2>2
<1>5. PICK d \in Nat : d = y - x
    BY <1>1, <1>2, PartGrows
<1>6. w * d <= k * n + w
    BY <1>1, <1>2, <1>3, <1>5, PartStep, SMTT(20)
<1>7. m * (d - 1) <= 9 * (c * n)
    <2>1. w * (d - 1) = w * d - w
        OBVIOUS
    <2>2. k * n <= (9 * c) * n /\ (9 * c) * n = 9 * (c * n)
        BY <1>4, TimesGrows
    <2>3. CASE d = 0
        <3>1. c * n >= 0 /\ m * (0 - 1) = 0 - m
            OBVIOUS
        <3> QED BY <2>3, <3>1
    <2>4. CASE d >= 1
        <3>1. m * (d - 1) <= w * (d - 1)
            BY <2>4, TimesGrows
        <3> QED BY <1>6, <2>1, <2>2, <3>1
    <2> QED BY <2>3, <2>4
<1>8. m * (c + d - 1) <= c * (m + 9 * n)
    <2>1. m * (c + d - 1) = m * c + m * (d - 1)
        OBVIOUS
    <2>2. c * (m + 9 * n) = m * c + 9 * (c * n)
        OBVIOUS
    <2> QED BY <1>7, <2>1, <2>2
<1>9. a - x = c + d
    BY <1>1, <1>2, <1>4, <1>5
<1> QED BY <1>1, <1>2, <1>3, <1>4, <1>8, <1>9 DEF NotFarBelow

-----------------------------------------------------------------------------
(* What a value v, n units of time after a ramp began at c, has to do with *)
(* c.                                                                      *)

GrowsSlowly(c, v, n, m) == m * v <= c * (m + 9 * n)
ShrinksSlowly(c, v, n, m) == c * (10 * m - 9 * n) <= 10 * m * v

LEMMA RiseIsSlow ==
    ASSUME NEW a \in Nat, NEW k \in Nat, k <= 9 * a,
           NEW m \in Nat \ {0}, NEW w \in Nat, w >= m, NEW p \in Nat
    PROVE  /\ GrowsSlowly(a, a + Part(k, p, w), p, m)
           /\ ShrinksSlowly(a, a + Part(k, p, w), p, m)
<1>1. PICK x \in Nat : x = Part(k, p, w)
    BY PartBounds
<1>2. w * x <= k * p
    BY <1>1, PartBounds
<1>3. m * x <= 9 * (a * p)
    <2>1. m * x <= w * x
        BY TimesGrows
    <2>2. k * p <= (9 * a) * p /\ (9 * a) * p = 9 * (a * p)
        BY TimesGrows
    <2> QED BY <1>2, <2>1, <2>2
<1>4. /\ m * (a + x) = a * m + m * x
      /\ a * (m + 9 * p) = a * m + 9 * (a * p)
      /\ a * (10 * m - 9 * p) = 10 * (a * m) - 9 * (a * p)
      /\ 10 * m * (a + x) = 10 * (a * m) + 10 * (m * x)
      /\ m * x >= 0 /\ a * p >= 0
    OBVIOUS
<1> QED BY <1>1, <1>3, <1>4 DEF GrowsSlowly, ShrinksSlowly

LEMMA FallIsSlow ==
    ASSUME NEW a \in Nat, NEW k \in Nat, k <= 9 * (a - k),
           NEW m \in Nat \ {0}, NEW w \in Nat, w >= m, NEW p \in Nat
    PROVE  /\ GrowsSlowly(a, a - Part(k, p, w), p, m)
           /\ ShrinksSlowly(a, a - Part(k, p, w), p, m)
<1>1. PICK x \in Nat : x = Part(k, p, w)
    BY PartBounds
<1>2. w * x <= k * p
    BY <1>1, PartBounds
<1>3. 10 * (m * x) <= 9 * (a * p)
    <2>1. m * x <= w * x
        BY TimesGrows
    <2>2. (10 * k) * p <= (9 * a) * p
        BY TimesGrows
    <2>3. (9 * a) * p = 9 * (a * p) /\ (10 * k) * p = 10 * (k * p)
        OBVIOUS
    <2> QED BY <1>2, <2>1, <2>2, <2>3
<1>4. /\ m * (a - x) = a * m - m * x
      /\ a * (m + 9 * p) = a * m + 9 * (a * p)
      /\ a * (10 * m - 9 * p) = 10 * (a * m) - 9 * (a * p)
      /\ 10 * m * (a - x) = 10 * (a * m) - 10 * (m * x)
      /\ m * x >= 0 /\ a * p >= 0
    OBVIOUS
<1> QED BY <1>1, <1>3, <1>4 DEF GrowsSlowly, ShrinksSlowly

\* A value n units before a ramp begins at c and one n2 units after it: when the
\* two are m units apart or less, so are their changes.
LEMMA AcrossTheStart ==
    ASSUME NEW c \in Nat, NEW x \in Nat, NEW v \in Nat,
           NEW n \in Nat, NEW n2 \in Nat, NEW m \in Nat \ {0}, n + n2 <= m,
           NotFarAbove(c, x, n, m), NotFarBelow(c, x, n, m),
           GrowsSlowly(c, v, n2, m), ShrinksSlowly(c, v, n2, m)
    PROVE  v <= 10 * (x + 1) /\ x <= 10 * (v + 1)
<1>1. v <= 10 * (x + 1)
    <2>1. (m + 9 * n2) * c <= (10 * m - 9 * n) * c
        BY TimesGrows
    <2>2. /\ (m + 9 * n2) * c = c * (m + 9 * n2)
          /\ (10 * m - 9 * n) * c = c * (10 * m - 9 * n)
          /\ m * v = v * m /\ 10 * m * (x + 1) = (10 * (x + 1)) * m
        OBVIOUS
    <2>3. v * m <= (10 * (x + 1)) * m
        BY <2>1, <2>2 DEF NotFarAbove, GrowsSlowly
    <2> QED BY <2>3, TimesShrinks
<1>2. x <= 10 * (v + 1)
    <2>1. (m + 9 * n) * c <= (10 * m - 9 * n2) * c
        BY TimesGrows
    <2>2. /\ (m + 9 * n) * c = c * (m + 9 * n)
          /\ (10 * m - 9 * n2) * c = c * (10 * m - 9 * n2)
          /\ m * (x - 1) = (x - 1) * m /\ 10 * m * v = (10 * v) * m
        OBVIOUS
    <2>3. (x - 1) * m <= (10 * v) * m
        BY <2>1, <2>2 DEF NotFarBelow, ShrinksSlowly
    <2>4. x - 1 <= 10 * v
        BY <2>3, TimesShrinks
    <2> QED BY <2>4
<1> QED BY <1>1, <1>2

-----------------------------------------------------------------------------
(* One ramp, from a at time s to b at time e.                              *)

GoodRamp(a, b, s, e) ==
    /\ a \in PositiveNat /\ b \in PositiveNat
    /\ s \in Nat /\ e \in Nat /\ s <= e
    /\ a # b => /\ e - s >= MIN_RAMP_TIME
                /\ a <= 10 * b /\ b <= 10 * a

Ramped(a, b, s, e, t) ==
    IF b > a THEN a + Part(b - a, t - s, e - s)
             ELSE a - Part(a - b, t - s, e - s)

LEMMA RampedBetween ==
    ASSUME NEW a, NEW b, NEW s, NEW e, GoodRamp(a, b, s, e), NEW t \in Nat, t >= s
    PROVE  /\ Ramped(a, b, s, e, t) \in PositiveNat
           /\ \/ a <= Ramped(a, b, s, e, t) /\ Ramped(a, b, s, e, t) <= b
              \/ b <= Ramped(a, b, s, e, t) /\ Ramped(a, b, s, e, t) <= a
           /\ a = b => Ramped(a, b, s, e, t) = a
<1>1. /\ a \in Nat /\ b \in Nat /\ a > 0 /\ b > 0
      /\ t - s \in Nat /\ e - s \in Nat
    BY DEF GoodRamp, PositiveNat
<1>2. CASE b > a
    <2>1. b - a \in Nat
        BY <1>1, <1>2
    <2>2. PICK x \in Nat : x = Part(b - a, t - s, e - s) /\ x <= b - a
        BY <1>1, <2>1, PartBounds
    <2> QED BY <1>1, <1>2, <2>2 DEF Ramped, PositiveNat
<1>3. CASE ~(b > a)
    <2>1. a - b \in Nat
        BY <1>1, <1>3
    <2>2. PICK x \in Nat : x = Part(a - b, t - s, e - s) /\ x <= a - b
        BY <1>1, <2>1, PartBounds
    <2> QED BY <1>1, <1>3, <2>2 DEF Ramped, PositiveNat
<1> QED BY <1>2, <1>3

\* Two values of one ramp are within the factor.
LEMMA RampedClose ==
    ASSUME NEW a, NEW b, NEW s, NEW e, GoodRamp(a, b, s, e),
           NEW t \in Nat, t >= s, NEW u \in Nat, u >= s
    PROVE  Ramped(a, b, s, e, u) <= 10 * (Ramped(a, b, s, e, t) + 1)
<1>1. PICK x \in PositiveNat :
          x = Ramped(a, b, s, e, t) /\ ((a <= x /\ x <= b) \/ (b <= x /\ x <= a))
    BY RampedBetween
<1>2. PICK v \in PositiveNat :
          v = Ramped(a, b, s, e, u) /\ ((a <= v /\ v <= b) \/ (b <= v /\ v <= a))
    BY RampedBetween
<1>3. a \in Nat /\ b \in Nat /\ a <= 10 * b /\ b <= 10 * a
    BY DEF GoodRamp, PositiveNat
<1>4. v <= 10 * (x + 1)
    BY <1>1, <1>2, <1>3 DEF PositiveNat
<1> QED BY <1>1, <1>2, <1>4

\* At its first moment a ramp has not moved.
LEMMA RampedAtStart ==
    ASSUME NEW a, NEW b, NEW s, NEW e, GoodRamp(a, b, s, e)
    PROVE  Ramped(a, b, s, e, s) = a
<1>1. CASE a = b
    <2>1. s \in Nat /\ s >= s
        BY DEF GoodRamp
    <2> QED BY <1>1, <2>1, RampedBetween
<1>2. CASE a # b
    <2>1. e - s \in Nat \ {0} /\ s - s = 0
        BY <1>2, SwapAssumption DEF GoodRamp
    <2>2. \A k \in Int : Part(k, 0, e - s) = 0
        <3> SUFFICES ASSUME NEW k \in Int PROVE (k * 0) \div (e - s) = 0
            BY <2>1 DEF Part
        <3>1. k * 0 = 0 /\ 0 \div (e - s) = 0
            BY <2>1
        <3> QED BY <3>1
    <2>3. a \in Int /\ b \in Int /\ a - b \in Int /\ b - a \in Int
        BY DEF GoodRamp, PositiveNat
    <2>4. Part(b - a, s - s, e - s) = 0 /\ Part(a - b, s - s, e - s) = 0
        BY <2>1, <2>2, <2>3
    <2> QED BY <2>3, <2>4 DEF Ramped
<1> QED BY <1>1, <1>2

\* In its first units of time a ramp is slow.
LEMMA RampedIsSlow ==
    ASSUME NEW a, NEW b, NEW s, NEW e, GoodRamp(a, b, s, e), a # b, NEW t \in Nat, t >= s
    PROVE  /\ GrowsSlowly(a, Ramped(a, b, s, e, t), t - s, MIN_RAMP_TIME)
           /\ ShrinksSlowly(a, Ramped(a, b, s, e, t), t - s, MIN_RAMP_TIME)
<1>1. /\ a \in Nat /\ b \in Nat /\ a <= 10 * b /\ b <= 10 * a
      /\ MIN_RAMP_TIME \in Nat \ {0}
      /\ t - s \in Nat /\ e - s \in Nat /\ e - s >= MIN_RAMP_TIME
    BY SwapAssumption DEF GoodRamp, PositiveNat
<1>2. CASE b > a
    <2>1. b - a \in Nat /\ b - a <= 9 * a
        BY <1>1, <1>2
    <2> HIDE DEF GrowsSlowly, ShrinksSlowly
    <2> QED BY <1>1, <1>2, <2>1, RiseIsSlow DEF Ramped
<1>3. CASE ~(b > a)
    <2>1. a - b \in Nat /\ a - b <= 9 * (a - (a - b))
        BY <1>1, <1>3
    <2> HIDE DEF GrowsSlowly, ShrinksSlowly
    <2> QED BY <1>1, <1>3, <2>1, FallIsSlow DEF Ramped
<1> QED BY <1>2, <1>3

\* So it is in its last ones, whenever it is cut.
LEMMA RampedWasSlow ==
    ASSUME NEW a, NEW b, NEW s, NEW e, GoodRamp(a, b, s, e),
           NEW t \in Nat, t >= s, NEW u \in Nat, u >= t,
           u - s >= MIN_RAMP_TIME, u - t <= MIN_RAMP_TIME
    PROVE  /\ NotFarAbove(Ramped(a, b, s, e, u), Ramped(a, b, s, e, t), u - t, MIN_RAMP_TIME)
           /\ NotFarBelow(Ramped(a, b, s, e, u), Ramped(a, b, s, e, t), u - t, MIN_RAMP_TIME)
<1>1. /\ a \in Nat /\ b \in Nat /\ s \in Nat
      /\ MIN_RAMP_TIME \in Nat \ {0}
      /\ t - s \in Nat /\ u - s \in Nat /\ e - s \in Nat
      /\ t - s <= u - s /\ u - t = (u - s) - (t - s) /\ u - t \in Nat
    BY SwapAssumption DEF GoodRamp, PositiveNat
<1>2. PICK x \in Nat : x = Ramped(a, b, s, e, t)
    BY RampedBetween DEF PositiveNat
<1>3. PICK c \in Nat : c = Ramped(a, b, s, e, u)
    BY <1>1, RampedBetween DEF PositiveNat
<1>4. CASE a = b
    <2>1. x = c
        BY <1>1, <1>2, <1>3, <1>4, RampedBetween
    <2>2. NotFarAbove(c, x, u - t, MIN_RAMP_TIME) /\ NotFarBelow(c, x, u - t, MIN_RAMP_TIME)
        BY <1>1, <2>1, NotAbove, NotBelow
    <2> QED BY <1>2, <1>3, <2>2
<1>5. CASE b > a
    <2>1. b - a \in Nat /\ b - a <= 9 * a /\ e - s >= MIN_RAMP_TIME
        BY <1>1, <1>5 DEF GoodRamp
    <2>2. /\ x = a + Part(b - a, t - s, e - s)
          /\ c = a + Part(b - a, u - s, e - s)
        BY <1>2, <1>3, <1>5 DEF Ramped
    <2>3. x <= c
        <3>1. Part(b - a, t - s, e - s) <= Part(b - a, u - s, e - s)
            BY <1>1, <2>1, PartGrows
        <3>2. Part(b - a, t - s, e - s) \in Nat /\ Part(b - a, u - s, e - s) \in Nat
            BY <1>1, <2>1, PartBounds
        <3> QED BY <1>1, <2>2, <3>1, <3>2
    <2>4. NotFarBelow(c, x, u - t, MIN_RAMP_TIME)
        BY <1>1, <2>3, NotAbove
    <2>5. NotFarAbove(c, x, (u - s) - (t - s), MIN_RAMP_TIME)
        BY <1>1, <2>1, <2>2, RiseAbove
    <2> QED BY <1>1, <1>2, <1>3, <2>4, <2>5
<1>6. CASE a > b
    <2>1. a - b \in Nat /\ a - b <= 9 * (a - (a - b)) /\ e - s >= MIN_RAMP_TIME
        BY <1>1, <1>6 DEF GoodRamp
    <2>2. /\ x = a - Part(a - b, t - s, e - s)
          /\ c = a - Part(a - b, u - s, e - s)
        BY <1>1, <1>2, <1>3, <1>6 DEF Ramped
    <2>3. c <= x
        <3>1. Part(a - b, t - s, e - s) <= Part(a - b, u - s, e - s)
            BY <1>1, <2>1, PartGrows
        <3>2. Part(a - b, t - s, e - s) \in Nat /\ Part(a - b, u - s, e - s) \in Nat
            BY <1>1, <2>1, PartBounds
        <3> QED BY <1>1, <2>2, <3>1, <3>2
    <2>4. NotFarAbove(c, x, u - t, MIN_RAMP_TIME)
        BY <1>1, <2>3, NotBelow
    <2>5. NotFarBelow(c, x, (u - s) - (t - s), MIN_RAMP_TIME)
        BY <1>1, <2>1, <2>2, FallBelow
    <2> QED BY <1>1, <1>2, <1>3, <2>4, <2>5
<1> QED BY <1>1, <1>4, <1>5, <1>6

-----------------------------------------------------------------------------
(* The ramp in progress and the trail of those before it.                  *)

RampIsGood ==
    /\ now \in Nat /\ initial_A_time <= now
    /\ GoodRamp(initial_A, future_A, initial_A_time, future_A_time)

\* Since its start, the trail is what the ramp says.
TrailFollows ==
    /\ trail \in Seq(PositiveNat) /\ Len(trail) = now
    /\ \A t \in 1..now : t >= initial_A_time =>
          trail[t] = Ramped(initial_A, future_A, initial_A_time, future_A_time, t)

\* It started from a coefficient that had moved slowly, unless it goes nowhere.
StartedSlowly ==
    initial_A # future_A =>
        \A t \in 1..now :
            t <= initial_A_time /\ initial_A_time - t <= MIN_RAMP_TIME =>
                /\ NotFarAbove(initial_A, trail[t], initial_A_time - t, MIN_RAMP_TIME)
                /\ NotFarBelow(initial_A, trail[t], initial_A_time - t, MIN_RAMP_TIME)

RateInv == RampIsGood /\ TrailFollows /\ StartedSlowly /\ RateIsBounded

LEMMA CurrentIsRamped ==
    ASSUME RampIsGood, NEW t \in Nat, t >= initial_A_time
    PROVE  CurrentAt(t) = Ramped(initial_A, future_A, initial_A_time, future_A_time, t)
<1>1. /\ initial_A_time \in Nat /\ future_A_time \in Nat
      /\ initial_A \in Nat /\ future_A \in Nat
      /\ initial_A_time <= future_A_time
    BY DEF RampIsGood, GoodRamp, PositiveNat
<1>2. CASE t >= future_A_time
    <2>1. t - initial_A_time >= future_A_time - initial_A_time
        BY <1>1, <1>2
    <2> QED BY <1>1, <1>2, <2>1 DEF CurrentAt, Ramped, Part
<1>3. CASE ~(t >= future_A_time)
    <2>1. ~(t - initial_A_time >= future_A_time - initial_A_time)
        BY <1>1, <1>3
    <2> QED BY <1>1, <1>3, <2>1 DEF CurrentAt, Ramped, Part
<1> QED BY <1>2, <1>3

LEMMA CurrentIsGood ==
    ASSUME RampIsGood
    PROVE  /\ Current = Ramped(initial_A, future_A, initial_A_time, future_A_time, now)
           /\ Current \in PositiveNat
<1>1. /\ now \in Nat /\ now >= initial_A_time
      /\ GoodRamp(initial_A, future_A, initial_A_time, future_A_time)
    BY DEF RampIsGood, GoodRamp
<1>2. Current = Ramped(initial_A, future_A, initial_A_time, future_A_time, now)
    BY <1>1, CurrentIsRamped DEF Current
<1> QED BY <1>1, <1>2, RampedBetween

LEMMA RateInit == Init => RateInv
<1> SUFFICES ASSUME Init PROVE RateInv
    OBVIOUS
<1>1. /\ now \in Nat /\ A = 10 /\ A \in PositiveNat
      /\ initial_A = A /\ future_A = A
      /\ initial_A_time = 0 /\ future_A_time = 0
    BY SwapAssumption DEF Init, PositiveNat
<1>2. GoodRamp(initial_A, future_A, initial_A_time, future_A_time)
    BY <1>1 DEF GoodRamp
<1>3. RampIsGood
    BY <1>1, <1>2 DEF RampIsGood
<1>4. trail = [t \in 1..now |-> A]
    BY DEF Init
<1>5. trail \in Seq(PositiveNat) /\ Len(trail) = now /\ \A t \in 1..now : trail[t] = A
    BY <1>1, <1>4
<1>6. TrailFollows
    <2> SUFFICES ASSUME NEW t \in 1..now
                 PROVE  Ramped(initial_A, future_A, initial_A_time, future_A_time, t) = A
        BY <1>5 DEF TrailFollows
    <2>1. t \in Nat /\ t >= initial_A_time
        BY <1>1
    <2> QED BY <1>1, <1>2, <2>1, RampedBetween
<1>7. StartedSlowly
    BY <1>1 DEF StartedSlowly
<1>8. RateIsBounded
    BY <1>1, <1>5 DEF RateIsBounded, MAX_A_CHANGE
<1> QED BY <1>3, <1>6, <1>7, <1>8 DEF RateInv

LEMMA RateTick == RateInv /\ Tick => RateInv'
<1> SUFFICES ASSUME RateInv, Tick PROVE RateInv'
    OBVIOUS
<1>1. PICK a, b, s, e : /\ a = initial_A /\ b = future_A
                        /\ s = initial_A_time /\ e = future_A_time
    OBVIOUS
<1>2. PICK n \in Nat : n = now /\ s <= n /\ GoodRamp(a, b, s, e)
    BY <1>1 DEF RateInv, RampIsGood
<1>3. /\ initial_A' = a /\ future_A' = b /\ initial_A_time' = s /\ future_A_time' = e
      /\ now' = n + 1
    BY <1>1, <1>2 DEF Tick, ramp
<1>4. PICK old \in Seq(PositiveNat) :
          /\ old = trail /\ Len(old) = n
          /\ \A t \in 1..n : t >= s => old[t] = Ramped(a, b, s, e, t)
    BY <1>1, <1>2 DEF RateInv, TrailFollows
<1>5. s \in Nat /\ n + 1 \in Nat /\ n + 1 >= s
    BY <1>2 DEF GoodRamp
<1>6. PICK v \in PositiveNat : v = Ramped(a, b, s, e, n + 1)
    BY <1>2, <1>5, RampedBetween
<1>7. trail' = Append(old, v)
    <2>1. CurrentAt(n + 1) = v
        BY <1>1, <1>5, <1>6, CurrentIsRamped DEF RateInv
    <2> QED BY <1>2, <1>4, <2>1 DEF Tick
<1>8. /\ trail' \in Seq(PositiveNat) /\ Len(trail') = n + 1
      /\ trail'[n + 1] = v
      /\ \A t \in 1..n : trail'[t] = old[t]
    BY <1>4, <1>7
<1>9. RampIsGood'
    BY <1>2, <1>3, <1>5 DEF RampIsGood
<1>10. \A t \in 1..(n + 1) : t >= s => trail'[t] = Ramped(a, b, s, e, t)
    <2> SUFFICES ASSUME NEW t \in 1..(n + 1), t >= s
                 PROVE  trail'[t] = Ramped(a, b, s, e, t)
        OBVIOUS
    <2>1. t = n + 1 \/ t \in 1..n
        OBVIOUS
    <2> QED BY <1>4, <1>6, <1>8, <2>1
<1>11. TrailFollows'
    BY <1>3, <1>8, <1>10 DEF TrailFollows
<1>12. StartedSlowly'
    <2> SUFFICES ASSUME a # b, NEW t \in 1..(n + 1), t <= s, s - t <= MIN_RAMP_TIME
                 PROVE  /\ NotFarAbove(a, trail'[t], s - t, MIN_RAMP_TIME)
                        /\ NotFarBelow(a, trail'[t], s - t, MIN_RAMP_TIME)
        BY <1>3 DEF StartedSlowly
    <2>1. t \in 1..n
        BY <1>2, <1>5
    <2>2. trail'[t] = trail[t]
        BY <1>4, <1>8, <2>1
    <2> QED BY <1>1, <1>2, <2>1, <2>2 DEF RateInv, StartedSlowly
<1>13. RateIsBounded'
    <2>1. DOMAIN trail' = 1..(n + 1)
        BY <1>8
    <2> SUFFICES ASSUME NEW t \in 1..(n + 1), NEW u \in 1..(n + 1), t <= u, u - t <= MIN_RAMP_TIME
                 PROVE  /\ trail'[u] <= 10 * (trail'[t] + 1)
                        /\ trail'[t] <= 10 * (trail'[u] + 1)
        BY <2>1 DEF RateIsBounded, MAX_A_CHANGE
    <2>2. CASE u \in 1..n
        <3>1. t \in 1..n /\ DOMAIN trail = 1..n
            BY <1>4, <2>2
        <3>2. trail'[t] = trail[t] /\ trail'[u] = trail[u]
            BY <1>4, <1>8, <2>2, <3>1
        <3> QED BY <2>2, <3>1, <3>2 DEF RateInv, RateIsBounded, MAX_A_CHANGE
    <2>3. CASE u = n + 1 /\ t >= s
        <3>1. /\ trail'[u] = Ramped(a, b, s, e, u) /\ trail'[t] = Ramped(a, b, s, e, t)
              /\ u >= s
            BY <1>5, <1>10, <2>3
        <3> QED BY <1>2, <2>3, <3>1, RampedClose
    <2>4. CASE u = n + 1 /\ t < s
        <3>1. t \in 1..n /\ t \in Nat /\ s \in 1..n /\ DOMAIN trail = 1..n
            BY <1>2, <1>4, <1>5, <2>4
        <3>2. PICK x \in Nat : x = trail'[t] /\ x = trail[t]
            BY <1>4, <1>8, <3>1, SMTT(20) DEF PositiveNat
        <3>3. trail'[u] = v /\ v \in Nat
            BY <1>8, <2>4 DEF PositiveNat
        <3>4. CASE a = b
            <4>1. v = a
                BY <1>2, <1>5, <1>6, <3>4, RampedBetween
            <4>2. trail[s] = a
                BY <1>2, <1>4, <3>1, RampedAtStart
            <4>3. s - t <= MIN_RAMP_TIME
                BY <1>2, <1>5, <2>4, SwapAssumption
            <4> QED BY <2>4, <3>1, <3>2, <3>3, <4>1, <4>2, <4>3, SMTT(20)
                    DEF RateInv, RateIsBounded, MAX_A_CHANGE
        <3>5. CASE a # b
            <4>1. PICK k \in Nat, l \in Nat :
                      /\ k = s - t /\ l = n + 1 - s
                      /\ k + l <= MIN_RAMP_TIME /\ k <= MIN_RAMP_TIME
                BY <1>2, <1>5, <2>4, <3>1, SwapAssumption
            <4>2. NotFarAbove(a, x, k, MIN_RAMP_TIME) /\ NotFarBelow(a, x, k, MIN_RAMP_TIME)
                BY <1>1, <1>2, <2>4, <3>1, <3>2, <3>5, <4>1 DEF RateInv, StartedSlowly
            <4>3. GrowsSlowly(a, v, l, MIN_RAMP_TIME) /\ ShrinksSlowly(a, v, l, MIN_RAMP_TIME)
                BY <1>2, <1>5, <1>6, <3>5, <4>1, RampedIsSlow
            <4>4. a \in Nat /\ MIN_RAMP_TIME \in Nat \ {0}
                BY <1>2, SwapAssumption DEF GoodRamp, PositiveNat
            <4>5. v <= 10 * (x + 1) /\ x <= 10 * (v + 1)
                <5>1. k + l <= MIN_RAMP_TIME
                    BY <4>1
                <5>2. x \in Nat /\ v \in Nat /\ k \in Nat /\ l \in Nat
                    BY <3>2, <3>3, <4>1
                <5> QED BY <4>2, <4>3, <4>4, <5>1, <5>2, AcrossTheStart, SMTT(20)
            <4> QED BY <3>2, <3>3, <4>5
        <3> QED BY <3>4, <3>5
    <2>5. u \in 1..n \/ u = n + 1
        OBVIOUS
    <2>6. t >= s \/ t < s
        BY <1>5
    <2> QED BY <2>2, <2>3, <2>4, <2>5, <2>6
<1> QED BY <1>9, <1>11, <1>12, <1>13 DEF RateInv

\* A new ramp begins where the last one has come to, a day or more after it began.
LEMMA RateRampA ==
    ASSUME NEW future \in FutureAs, NEW time \in RampTimes
    PROVE  RateInv /\ RampA(future, now + time) => RateInv'
<1> SUFFICES ASSUME RateInv, RampA(future, now + time) PROVE RateInv'
    OBVIOUS
<1>1. PICK a, b, s, e : /\ a = initial_A /\ b = future_A
                        /\ s = initial_A_time /\ e = future_A_time
    OBVIOUS
<1>2. PICK n \in Nat : n = now /\ s <= n /\ GoodRamp(a, b, s, e)
    BY <1>1 DEF RateInv, RampIsGood
<1>3. PICK old \in Seq(PositiveNat) :
          /\ old = trail /\ Len(old) = n
          /\ \A t \in 1..n : t >= s => old[t] = Ramped(a, b, s, e, t)
    BY <1>1, <1>2 DEF RateInv, TrailFollows
<1>4. PICK from \in PositiveNat : from = Current /\ from = Ramped(a, b, s, e, n)
    BY <1>1, <1>2, CurrentIsGood DEF RateInv
<1>5. /\ s \in Nat /\ n >= s + MIN_RAMP_TIME /\ MIN_RAMP_TIME \in Nat \ {0}
      /\ n + time \in Nat /\ n + time >= n + MIN_RAMP_TIME
      /\ future \in PositiveNat
      /\ from <= 10 * future /\ future <= 10 * from
    <2>1. /\ n >= s + MIN_RAMP_TIME /\ n + time >= n + MIN_RAMP_TIME /\ future > 0
          /\ InReach(future, from)
        BY <1>1, <1>2, <1>4 DEF RampA, MayRamp
    <2>2. s \in Nat /\ time \in Nat /\ future \in Nat /\ MIN_RAMP_TIME \in Nat \ {0}
        BY <1>2, SwapAssumption DEF GoodRamp
    <2> QED BY <2>1, <2>2 DEF InReach, MAX_A_CHANGE, PositiveNat
<1>6. /\ initial_A' = from /\ future_A' = future
      /\ initial_A_time' = n /\ future_A_time' = n + time
      /\ now' = n /\ trail' = old
    BY <1>2, <1>3, <1>4 DEF RampA, RampFrom
<1>7. GoodRamp(from, future, n, n + time)
    BY <1>5 DEF GoodRamp
<1>8. RampIsGood'
    BY <1>6, <1>7 DEF RampIsGood
<1>9. TrailFollows'
    <2> SUFFICES ASSUME NEW t \in 1..n, t >= n
                 PROVE  old[t] = Ramped(from, future, n, n + time, t)
        BY <1>3, <1>6 DEF TrailFollows
    <2>1. t = n
        OBVIOUS
    <2>2. old[n] = from
        BY <1>2, <1>3, <1>4, <2>1
    <2> QED BY <1>7, <2>1, <2>2, RampedAtStart
<1>10. StartedSlowly'
    <2> SUFFICES ASSUME NEW t \in 1..n, t <= n, n - t <= MIN_RAMP_TIME
                 PROVE  /\ NotFarAbove(from, old[t], n - t, MIN_RAMP_TIME)
                        /\ NotFarBelow(from, old[t], n - t, MIN_RAMP_TIME)
        BY <1>6 DEF StartedSlowly
    <2>1. t \in Nat /\ t >= s /\ n - s >= MIN_RAMP_TIME
        BY <1>5
    <2>2. old[t] = Ramped(a, b, s, e, t)
        BY <1>3, <2>1
    <2> QED BY <1>2, <1>4, <2>1, <2>2, RampedWasSlow
<1>11. RateIsBounded'
    BY <1>3, <1>6 DEF RateInv, RateIsBounded
<1> QED BY <1>8, <1>9, <1>10, <1>11 DEF RateInv

\* A ramp that is stopped goes nowhere from where it has come to.
LEMMA RateStop == RateInv /\ StopRampA => RateInv'
<1> SUFFICES ASSUME RateInv, StopRampA PROVE RateInv'
    OBVIOUS
<1>1. PICK n \in Nat : /\ n = now /\ initial_A_time <= n
                       /\ trail \in Seq(PositiveNat) /\ Len(trail) = n
    BY DEF RateInv, RampIsGood, TrailFollows
<1>2. PICK from \in PositiveNat : from = Current
    BY CurrentIsGood DEF RateInv
<1>3. /\ initial_A' = from /\ future_A' = from
      /\ initial_A_time' = n /\ future_A_time' = n
      /\ now' = n /\ trail' = trail
    BY <1>1, <1>2 DEF StopRampA
<1>4. GoodRamp(from, from, n, n)
    BY DEF GoodRamp
<1>5. RampIsGood'
    BY <1>3, <1>4 DEF RampIsGood
<1>6. TrailFollows'
    <2> SUFFICES ASSUME NEW t \in 1..n, t >= n
                 PROVE  trail[t] = Ramped(from, from, n, n, t)
        BY <1>1, <1>3 DEF TrailFollows
    <2>1. t = n
        OBVIOUS
    <2>2. trail[n] = from
        BY <1>1, <1>2, <2>1, CurrentIsGood DEF RateInv, TrailFollows
    <2> QED BY <1>4, <2>1, <2>2, RampedAtStart
<1>7. StartedSlowly'
    BY <1>3 DEF StartedSlowly
<1>8. RateIsBounded'
    BY <1>3 DEF RateInv, RateIsBounded
<1> QED BY <1>5, <1>6, <1>7, <1>8 DEF RateInv

LEMMA RateInvHolds == Spec => []RateInv
<1>1. RateInv /\ [Next]_vars => RateInv'
  <2> SUFFICES ASSUME RateInv, [Next]_vars
               PROVE  RateInv'
      OBVIOUS
  <2>1. CASE Tick
      BY <2>1, RateTick
  <2>2. ASSUME NEW future \in FutureAs, NEW time \in RampTimes, RampA(future, now + time)
        PROVE  RateInv'
      BY <2>2, RateRampA
  <2>3. CASE StopRampA
      BY <2>3, RateStop
  <2>4. CASE UNCHANGED <<now, ramp, trail>>
      BY <2>4 DEF ramp, RateInv, RampIsGood, TrailFollows, StartedSlowly, RateIsBounded
  <2>5. ASSUME NEW d \in Tokens, NEW amount \in Amounts,
               \/ SwapVUND(d, amount)
               \/ \E c \in Tokens, tolerance \in Tolerances :
                     SwapExecution(c, d, amount, tolerance)
        PROVE  UNCHANGED <<now, ramp, trail>>
      BY <2>5 DEF SwapVUND, SwapExecution
  <2>6. CASE UNCHANGED vars
      BY <2>4, <2>6 DEF vars
  <2> QED BY <2>1, <2>2, <2>3, <2>4, <2>5, <2>6 DEF Next
<1> QED BY <1>1, RateInit, PTL DEF Spec

\* However long the owner ramps and stops, and however long a day is, the
\* coefficient changes by no more than the factor the contract allows within
\* one day: the limit on each ramp is a limit on what ramps add up to.
THEOREM RateStaysBounded == Spec => []RateIsBounded
<1>1. RateInv => RateIsBounded
    BY DEF RateInv
<1> QED BY <1>1, RateInvHolds, PTL

-----------------------------------------------------------------------------
(* What swaps between coins leave in the vault.                            *)

LEMMA MinOfTwo ==
    ASSUME NEW a \in Int, NEW b \in Int
    PROVE  Min({a, b}) \in {a, b} /\ Min({a, b}) <= b
<1>1. \E x \in {a, b} : \A y \in {a, b} : x <= y
    <2>1. CASE a <= b
        BY <2>1
    <2>2. CASE b <= a
        BY <2>2
    <2> QED BY <2>1, <2>2
<1>2. Min({a, b}) \in {a, b} /\ \A y \in {a, b} : Min({a, b}) <= y
    BY <1>1 DEF Min
<1> QED BY <1>2

LEMMA MaxOfTwo ==
    ASSUME NEW a \in Int, NEW b \in Int
    PROVE  Max({a, b}) \in {a, b} /\ Max({a, b}) >= a /\ Max({a, b}) >= b
<1>1. \E x \in {a, b} : \A y \in {a, b} : x >= y
    <2>1. CASE a <= b
        BY <2>1
    <2>2. CASE b <= a
        BY <2>2
    <2> QED BY <2>1, <2>2
<1>2. Max({a, b}) \in {a, b} /\ \A y \in {a, b} : Max({a, b}) >= y
    BY <1>1 DEF Max
<1> QED BY <1>2

LEMMA CoinTypes ==
    ASSUME NEW c \in Coins, NEW x \in Nat
    PROVE  /\ CoinInfo[c].scale \in Nat \ {0}
           /\ CoinToVUND(x, CoinInfo[c]) \in Nat
           /\ VUNDToCoin(x, CoinInfo[c]) \in Nat
<1>1. CoinInfo[c] \in Coin
    BY SwapAssumption DEF Coins
<1>2. PICK s \in Nat \ {0} : s = CoinInfo[c].scale
    BY <1>1 DEF Coin
<1>3. x \div s \in Nat /\ x * s \in Nat
    BY DivBounds
<1> QED BY <1>2, <1>3 DEF CoinToVUND, VUNDToCoin

\* Every token has a place in the pool and a scale; those of the list their own.
LEMMA InfoTypes ==
    ASSUME NEW t \in Tokens, NEW x \in Nat
    PROVE  /\ Index(t) \in Coins
           /\ CoinToVUND(x, InfoOf(t)) \in Nat
           /\ VUNDToCoin(x, InfoOf(t)) \in Nat
           /\ t \in Coins => t # Other /\ Index(t) = t /\ InfoOf(t) = CoinInfo[t]
<1>1. PICK n \in Nat : n = Len(CoinInfo) /\ Coins = 1..n /\ n >= 2
    BY SwapAssumption DEF Coins
<1>2. CASE t = Other
    <2>1. PICK s \in Nat \ {0} : s = UnlistedScale
        BY SwapAssumption
    <2>2. InfoOf(t) = [scale |-> s, wider |-> FALSE]
        BY <1>2, <2>1 DEF InfoOf
    <2>3. x * s \in Nat /\ x \div s \in Nat
        BY DivBounds
    <2>4. CoinToVUND(x, InfoOf(t)) \in Nat /\ VUNDToCoin(x, InfoOf(t)) \in Nat
        BY <2>2, <2>3 DEF CoinToVUND, VUNDToCoin
    <2>5. t \notin Coins
        BY <1>1, <1>2 DEF Other
    <2> QED BY <1>1, <1>2, <2>4, <2>5 DEF Index
<1>3. CASE t # Other
    <2>1. t \in Coins /\ Index(t) = t /\ InfoOf(t) = CoinInfo[t]
        BY <1>3 DEF Tokens, Index, InfoOf
    <2> QED BY <1>3, <2>1, CoinTypes
<1> QED BY <1>2, <1>3

\* The cap of a swap's output and the premium on it cancel out: i units of VUND
\* are j of the coin, o is the output in VUND and out the same in the coin.
LEMMA PremiumCoversCap ==
    ASSUME NEW i \in Nat \ {0}, NEW j \in Nat \ {0},
           NEW out \in Nat, NEW o \in Nat, NEW V \in Nat,
           i * out <= j * o,
           o <= V + (V * premiumPositive) \div pct_denom,
           NEW pct \in {premiumPositive, premiumNegative},
           NetOut(out, pct) > 0
    PROVE  NetOut(out, pct) \in Nat /\ i * (NetOut(out, pct) - 1) < j * V
<1>1. PICK k \in Nat, den \in Nat \ {0}, p \in Nat :
          /\ k = premiumPositive /\ den = pct_denom /\ p = pct /\ k <= p
    BY SwapAssumption
<1>2. PICK q \in Nat : q = (out * p) \div den
    BY DivBounds
<1>3. PICK r \in Nat : r = (out * k) \div den
    BY DivBounds
<1>4. r <= q
    <2>1. k * out <= p * out /\ k * out = out * k /\ p * out = out * p
        BY <1>1, TimesGrows
    <2> QED BY <1>2, <1>3, <2>1, DivGrows
<1>5. PICK net \in Nat : net = NetOut(out, pct) /\ net = out - q /\ net > 0
    <2>1. NetOut(out, pct) = out - q
        BY <1>1, <1>2 DEF NetOut
    <2>2. out - q > 0 /\ out - q \in Nat
        BY <2>1
    <2> QED BY <2>1, <2>2
<1>6. out * k < den * r + den
    BY <1>3, DivBounds
<1>7. PICK f \in Nat : f = den - k
    <2> SUFFICES ASSUME k > den PROVE FALSE
        OBVIOUS
    <2>1. r + 1 <= out
        BY <1>4, <1>5
    <2>2. (r + 1) * den <= out * den /\ (r + 1) * den = den * r + den
        BY <2>1, TimesGrows
    <2>3. den * out <= k * out /\ den * out = out * den /\ k * out = out * k
        BY TimesGrows
    <2> QED BY <1>6, <2>2, <2>3
<1>8. den * (net - 1) < out * f
    <2>1. (net - 1) * den <= (out - r - 1) * den
        BY <1>4, <1>5, TimesGrows
    <2>2. /\ (net - 1) * den = den * (net - 1)
          /\ (out - r - 1) * den = out * den - den * r - den
          /\ out * f = out * den - out * k
        BY <1>7
    <2> QED BY <1>6, <2>1, <2>2
<1>9. den * o <= V * (den + k)
    <2>1. PICK x \in Nat : x = (V * k) \div den /\ den * x <= V * k
        BY DivBounds
    <2>2. o * den <= (V + x) * den
        BY <1>1, <2>1, TimesGrows
    <2>3. /\ o * den = den * o /\ (V + x) * den = V * den + den * x
          /\ V * (den + k) = V * den + V * k
        OBVIOUS
    <2> QED BY <2>1, <2>2, <2>3
<1>10. PICK y \in Nat, z \in Nat : y = net - 1 /\ z = i * y
    BY <1>5
<1>11. den * z < (j * o) * f
    <2>1. (den * y + 1) * i <= (out * f) * i
        BY <1>8, <1>10, TimesGrows
    <2>2. (i * out) * f <= (j * o) * f
        BY TimesGrows
    <2>3. /\ (den * y + 1) * i = den * (i * y) + i
          /\ (out * f) * i = (i * out) * f
        OBVIOUS
    <2> QED BY <1>10, <2>1, <2>2, <2>3
<1>12. (den * o) * (j * f) <= (V * j) * (den * den)
    <2>1. (den * o) * (j * f) <= (V * (den + k)) * (j * f)
        BY <1>9, TimesGrows
    <2>2. f * (den + k) = den * den - k * k
        BY <1>7
    <2>3. (f * (den + k)) * (V * j) <= (den * den) * (V * j)
        <3>1. k * k >= 0
            OBVIOUS
        <3> QED BY <2>2, <3>1, TimesGrows
    <2>4. /\ (V * (den + k)) * (j * f) = (f * (den + k)) * (V * j)
          /\ (den * den) * (V * j) = (V * j) * (den * den)
        OBVIOUS
    <2> QED BY <2>1, <2>3, <2>4
<1>13. z < j * V
    <2> SUFFICES ASSUME j * V <= z PROVE FALSE
        OBVIOUS
    <2>1. (j * V) * (den * den) <= z * (den * den)
        BY TimesGrows
    <2>2. (den * z + 1) * den <= ((j * o) * f) * den
        BY <1>11, TimesGrows
    <2>3. /\ (den * z + 1) * den = z * (den * den) + den
          /\ ((j * o) * f) * den = (den * o) * (j * f)
          /\ (j * V) * (den * den) = (V * j) * (den * den)
        OBVIOUS
    <2> QED BY <1>12, <2>1, <2>2, <2>3
<1> QED BY <1>5, <1>10, <1>13

-----------------------------------------------------------------------------
(* The curve.  The iteration divides by every balance and by a denominator *)
(* of its own, and starts a turn from what the last one ended with.        *)

\* What a turn divides by is positive: D_P is a natural number, and one at most
\* for an invariant of one.
LEMMA SpreadBounds ==
    ASSUME NEW b \in Seq(PositiveNat), NEW d \in PositiveNat
    PROVE  /\ Spread(d, b) \in Nat
           /\ d = 1 => Spread(d, b) <= 1
<1> DEFINE n == Len(b)
           Solves(g) == g = [k \in 0..n |-> IF k = 0 THEN d ELSE (g[k - 1] * d) \div (b[k] * n)]
           step == [k \in 1..n |-> [x \in Nat |-> (x * d) \div (b[k] * n)]]
<1>1. n \in Nat /\ d \in Nat /\ \A k \in 1..n : b[k] * n \in Nat \ {0}
    BY DEF PositiveNat
<1>2. \A k \in 1..n, x \in Nat : (x * d) \div (b[k] * n) \in Nat
    <2> SUFFICES ASSUME NEW k \in 1..n, NEW x \in Nat
                 PROVE  (x * d) \div (b[k] * n) \in Nat
        OBVIOUS
    <2>1. x * d \in Nat /\ b[k] * n \in Nat \ {0}
        BY <1>1
    <2> QED BY <2>1, DivBounds
<1>3. step \in [1..n -> [Nat -> Nat]]
    BY <1>2
<1>4. \A k \in 1..n, x \in Nat : step[k][x] = (x * d) \div (b[k] * n)
    OBVIOUS
<1> HIDE DEF n, step
<1>5. PICK f \in [0..n -> Nat] : IsLoop(f, step, d, n)
    BY <1>1, <1>3, LoopExists
<1>6. Solves(f)
    <2>1. \A k \in 0..n : f[k] = IF k = 0 THEN d ELSE (f[k - 1] * d) \div (b[k] * n)
        <3> SUFFICES ASSUME NEW k \in 0..n, k # 0
                     PROVE  f[k] = (f[k - 1] * d) \div (b[k] * n)
            BY <1>5 DEF IsLoop
        <3>1. k \in 1..n /\ k - 1 \in 0..n
            BY <1>1
        <3>2. f[k - 1] \in Nat /\ f[k] = step[k][f[k - 1]]
            BY <1>5, <3>1 DEF IsLoop
        <3> QED BY <1>4, <3>1, <3>2
    <2>2. f = [k \in 0..n |-> f[k]]
        BY <1>5
    <2> QED BY <2>1, <2>2, Zenon
<1>7. PICK g : g = (CHOOSE h : Solves(h)) /\ Solves(g)
    BY <1>6
<1>8. Spread(d, b) = g[n]
    BY <1>7 DEF Spread, n
<1>9. /\ g[0] = d
      /\ \A k \in 1..n : g[k] = (g[k - 1] * d) \div (b[k] * n)
    <2>1. \A k \in 0..n : g[k] = IF k = 0 THEN d ELSE (g[k - 1] * d) \div (b[k] * n)
        BY <1>7, Zenon
    <2>2. 0 \in 0..n /\ \A k \in 1..n : k \in 0..n /\ k # 0
        BY <1>1
    <2> QED BY <2>1, <2>2
<1> DEFINE G == { k \in 0..n : g[k] \in Nat /\ (d = 1 => g[k] <= 1) }
<1>10. 0 \in G
    BY <1>1, <1>9
<1>11. \A k \in 1..n : k - 1 \in G => k \in G
    <2> SUFFICES ASSUME NEW k \in 1..n, g[k - 1] \in Nat, d = 1 => g[k - 1] <= 1
                 PROVE  g[k] \in Nat /\ (d = 1 => g[k] <= 1)
        BY <1>1
    <2>1. PICK x \in Nat : x = g[k - 1] /\ (d = 1 => x <= 1)
        OBVIOUS
    <2>2. PICK q \in Nat \ {0} : q = b[k] * n
        BY <1>1
    <2>3. g[k] = (x * d) \div q
        BY <1>9, <2>1, <2>2
    <2>4. x * d \in Nat
        BY <1>1
    <2>5. (x * d) \div q \in Nat /\ q * ((x * d) \div q) <= x * d
        BY <2>4, DivBounds
    <2>6. d = 1 => (x * d) \div q <= 1
        <3> SUFFICES ASSUME d = 1 PROVE x \div q <= 1
            OBVIOUS
        <3>1. x < q * 1 + q
            BY <2>1
        <3> QED BY <3>1, DivAtMost
    <2> QED BY <2>3, <2>5, <2>6
<1> HIDE DEF G
<1>12. \A k \in 0..n : k \in G
    BY <1>1, <1>10, <1>11, UpTo
<1> QED BY <1>1, <1>8, <1>12 DEF G

\* A turn from a positive invariant ends with one; if that exceeds the sum by no
\* more than one part in ann - 1, so does what it ends with.
LEMMA TurnBounds ==
    ASSUME NEW b \in Seq(PositiveNat), Len(b) >= 2, NEW amp \in PositiveNat,
           NEW s \in PositiveNat, s = SumOf(b),
           NEW d \in PositiveNat
    PROVE  /\ Turn(d, b, amp) \in PositiveNat
           /\ (amp * Len(b) - 1) * d <= amp * Len(b) * s =>
                  (amp * Len(b) - 1) * Turn(d, b, amp) <= amp * Len(b) * s
<1> USE DEF PositiveNat
<1>1. PICK n \in Nat : n = Len(b) /\ n >= 2
    OBVIOUS
<1>2. PICK ann \in Nat : ann = amp * n /\ ann >= 2
    <2>1. n * 1 <= n * amp /\ n * amp = amp * n
        BY DEF PositiveNat
    <2> QED BY <1>1, <2>1 DEF PositiveNat
<1>3. PICK p \in Nat : p = Spread(d, b) /\ (d = 1 => p <= 1)
    BY SpreadBounds
<1>4. d \in Nat /\ d >= 1 /\ s \in Nat /\ s >= 1
    BY DEF PositiveNat
<1>5. PICK den \in Nat \ {0} : den = (ann - 1) * d + (n + 1) * p
    <2>1. 1 * d <= (ann - 1) * d
        BY <1>2, <1>4, TimesGrows
    <2>2. (ann - 1) * d \in Int /\ (n + 1) * p \in Nat
        BY <1>1, <1>2, <1>3, <1>4
    <2> QED BY <1>4, <2>1, <2>2
<1>6. PICK num \in Nat : num = (ann * s + p * n) * d
    <2>1. PICK u \in Nat, v \in Nat : u = ann * s /\ v = p * n
        BY <1>4
    <2>2. (u + v) * d \in Nat
        BY <1>4
    <2> QED BY <2>1, <2>2
<1>7. Turn(d, b, amp) = num \div den
    BY <1>1, <1>2, <1>3, <1>5, <1>6 DEF Turn
<1>8. PICK t \in Nat : t = num \div den /\ den * t <= num /\ num < den * t + den
    BY DivBounds
<1>9. num >= den
    <2>1. (ann - 1) * d + d = ann * d /\ ann * d \in Nat
        BY <1>4
    <2>2. d * ann <= (ann * s) * d
        <3>1. PICK u \in Nat : u = d * ann
            BY <1>4
        <3>2. 1 * u <= s * u
            <4>1. PICK one \in Int, k \in Int : one = 1 /\ k = s /\ one <= k
                BY <1>4
            <4>2. one * u <= k * u
                BY <4>1, TimesGrows
            <4> QED BY <4>1, <4>2
        <3>3. s * (d * ann) = (ann * s) * d
            BY <1>4
        <3> QED BY <3>1, <3>2, <3>3
    <2>3. num = (ann * s) * d + (p * n) * d
        BY <1>6
    <2>4. d * ann = ann * d
        OBVIOUS
    <2>5. (n + 1) * p <= (p * n) * d + d
        <3>1. CASE d = 1
            <4>1. (n + 1) * p = p * n + p
                OBVIOUS
            <4> QED BY <1>3, <3>1, <4>1
        <3>2. CASE d >= 2
            <4>1. 2 * (p * n) <= d * (p * n)
                BY <3>2, TimesGrows
            <4>2. 2 * p <= n * p
                BY <1>1, TimesGrows
            <4>3. (n + 1) * p = p * n + p /\ n * p = p * n /\ d * (p * n) = (p * n) * d
                OBVIOUS
            <4> QED BY <1>4, <4>1, <4>2, <4>3
        <3> QED BY <1>4, <3>1, <3>2
    <2> QED BY <1>5, <2>1, <2>2, <2>3, <2>4, <2>5, SMTT(20)
<1>10. t >= 1
    <2> SUFFICES ASSUME t = 0 PROVE FALSE
        OBVIOUS
    <2>1. den * 0 = 0
        OBVIOUS
    <2> QED BY <1>8, <1>9, <2>1
<1>11. ASSUME (amp * Len(b) - 1) * d <= amp * Len(b) * s
      PROVE  (ann - 1) * t <= ann * s
    <2>1. PICK m \in Nat : m = ann - 1
        BY <1>2
    <2>2. PICK T \in Nat : T = ann * s
        OBVIOUS
    <2>3. m * d <= T
        BY <1>1, <1>2, <1>11, <2>1, <2>2
    <2>4. m * num <= T * den
        <3>1. m * num = m * T * d + (m * d) * (p * n)
            <4>1. num = (T + p * n) * d
                BY <1>6, <2>2
            <4>2. PICK v \in Nat : v = p * n
                OBVIOUS
            <4>3. m * ((T + v) * d) = m * T * d + (m * d) * v
                BY <1>4
            <4> QED BY <4>1, <4>2, <4>3
        <3>2. T * den = T * (m * d) + T * ((n + 1) * p)
            BY <1>5, <2>1
        <3>3. (m * d) * (p * n) <= T * (p * n)
            BY <2>3, TimesGrows
        <3>4. T * ((n + 1) * p) = T * (p * n) + T * p /\ T * p \in Nat
            OBVIOUS
        <3>5. m * T * d = T * (m * d)
            OBVIOUS
        <3> QED BY <3>1, <3>2, <3>3, <3>4, <3>5
    <2>5. (den * t) * m <= num * m
        BY <1>8, TimesGrows
    <2>6. (m * t) * den <= T * den
        <3>1. PICK x \in Nat : x = m * num
            OBVIOUS
        <3>2. x <= T * den
            BY <2>4, <3>1
        <3>3. (den * t) * m <= x
            <4>1. num * m = m * num
                OBVIOUS
            <4> QED BY <2>5, <3>1, <4>1
        <3>4. (den * t) * m = (m * t) * den
            OBVIOUS
        <3> QED BY <3>2, <3>3, <3>4
    <2>7. m * t <= T
        BY <2>6, TimesShrinks
    <2> QED BY <2>1, <2>2, <2>7
<1> QED BY <1>1, <1>2, <1>7, <1>8, <1>10, <1>11 DEF PositiveNat

\* The sum of the balances is positive.
LEMMA SumOfBounds ==
    ASSUME NEW b \in Seq(PositiveNat), Len(b) >= 1
    PROVE  SumOf(b) \in PositiveNat
<1>1. PICK T : T = DOMAIN b /\ T = 1..Len(b)
    OBVIOUS
<1>2. IsFiniteSet(T)
    BY <1>1, FS_Interval
<1>3. \A i \in T : b[i] \in Nat /\ b[i] >= 1
    BY <1>1 DEF PositiveNat
<1>4. SumFunctionOnSet(b, T) \in Nat
    BY <1>2, <1>3, SumIsNatural
<1>5. PICK j \in T : j = 1
    BY <1>1
<1>6. b[j] <= SumFunctionOnSet(b, T)
    BY <1>2, <1>3, SumBoundsTerm
<1>7. SumOf(b) = SumFunctionOnSet(b, T)
    BY <1>1 DEF SumOf
<1> QED BY <1>3, <1>4, <1>6, <1>7 DEF PositiveNat

\* However many turns it takes, the iteration finds a positive invariant, and
\* one that exceeds the sum by no more than one part in ann - 1.
LEMMA DBounds ==
    ASSUME NEW b \in Seq(PositiveNat), Len(b) >= 2, NEW amp \in PositiveNat
    PROVE  /\ D(b, amp) \in PositiveNat
           /\ (amp * Len(b) - 1) * D(b, amp) <= amp * Len(b) * SumOf(b)
<1> DEFINE S == [PositiveNat -> PositiveNat]
           AtRest == [d \in PositiveNat |-> d]
           Again(g) == [d \in PositiveNat |->
                           IF Turn(d, b, amp) - d \in -1..1 THEN Turn(d, b, amp)
                           ELSE g[Turn(d, b, amp)]]
           step == [k \in 1..Rounds |-> [g \in S |-> Again(g)]]
           Solves(f) == f = [left \in 0..Rounds |->
                                [d \in Nat \ {0} |->
                                    IF left = 0 THEN d
                                    ELSE IF Turn(d, b, amp) - d \in -1..1
                                         THEN Turn(d, b, amp)
                                         ELSE f[left - 1][Turn(d, b, amp)]]]
<1>1. PICK s \in PositiveNat : s = SumOf(b)
    BY SumOfBounds
<1>2. \A d \in PositiveNat : Turn(d, b, amp) \in PositiveNat
    BY <1>1, TurnBounds
<1>3. AtRest \in S
    OBVIOUS
<1>4. step \in [1..Rounds -> [S -> S]]
    BY <1>2
<1>5. \A k \in 1..Rounds, g \in S : step[k][g] = Again(g)
    OBVIOUS
<1>6. Rounds \in Nat
    BY DEF Rounds
<1> HIDE DEF AtRest, step, S
<1>7. PICK f \in [0..Rounds -> S] : IsLoop(f, step, AtRest, Rounds)
    BY <1>3, <1>4, <1>6, LoopExists
<1>8. f[0] = AtRest /\ \A k \in 1..Rounds : f[k] = Again(f[k - 1])
    <2>1. \A k \in 1..Rounds : f[k - 1] \in S
        BY <1>6, <1>7
    <2> QED BY <1>5, <1>7, <2>1 DEF IsLoop
<1>9. Solves(f)
    <2> DEFINE Body(left) == [d \in Nat \ {0} |->
                                 IF left = 0 THEN d
                                 ELSE IF Turn(d, b, amp) - d \in -1..1
                                      THEN Turn(d, b, amp)
                                      ELSE f[left - 1][Turn(d, b, amp)]]
    <2>1. Body(0) = AtRest
        BY DEF AtRest, PositiveNat
    <2>2. \A k \in 1..Rounds : Body(k) = Again(f[k - 1])
        BY DEF PositiveNat
    <2>3. \A k \in 0..Rounds : k = 0 \/ k \in 1..Rounds
        BY <1>6
    <2> HIDE DEF Body, Again
    <2>4. \A k \in 0..Rounds : f[k] = Body(k)
        BY <1>8, <2>1, <2>2, <2>3
    <2>5. f = [k \in 0..Rounds |-> f[k]]
        BY <1>7
    <2>6. f = [k \in 0..Rounds |-> Body(k)]
        BY <2>4, <2>5, Zenon
    <2> QED BY <2>6 DEF Body
<1>10. PICK g : g = (CHOOSE h : Solves(h)) /\ Solves(g)
    <2> HIDE DEF Solves
    <2> QED BY <1>9, Zenon
<1>11. D(b, amp) = g[Rounds][SumOf(b)]
    BY <1>10 DEF D
<1> DEFINE X == { d \in PositiveNat : (amp * Len(b) - 1) * d <= amp * Len(b) * s }
           G == { k \in 0..Rounds : \A d \in X : g[k][d] \in X }
<1>12. \A d \in X : d \in PositiveNat /\ Turn(d, b, amp) \in X
    BY <1>1, TurnBounds
<1>13. \A k \in 0..Rounds : \A d \in PositiveNat :
          g[k][d] = IF k = 0 THEN d
                    ELSE IF Turn(d, b, amp) - d \in -1..1 THEN Turn(d, b, amp)
                    ELSE g[k - 1][Turn(d, b, amp)]
    <2> SUFFICES ASSUME NEW k \in 0..Rounds, NEW d \in PositiveNat
                 PROVE  g[k][d] = IF k = 0 THEN d
                                  ELSE IF Turn(d, b, amp) - d \in -1..1 THEN Turn(d, b, amp)
                                  ELSE g[k - 1][Turn(d, b, amp)]
        OBVIOUS
    <2>1. g[k] = [e \in Nat \ {0} |->
                     IF k = 0 THEN e
                     ELSE IF Turn(e, b, amp) - e \in -1..1 THEN Turn(e, b, amp)
                     ELSE g[k - 1][Turn(e, b, amp)]]
        BY <1>10, Zenon
    <2>2. d \in Nat \ {0}
        BY DEF PositiveNat
    <2> QED BY <2>1, <2>2, Zenon
<1> HIDE DEF X, Solves
<1>14. 0 \in G
    <2>1. 0 \in 0..Rounds
        BY <1>6
    <2>2. \A d \in X : g[0][d] = d
        BY <1>12, <1>13, <2>1, Zenon
    <2>3. \A d \in X : g[0][d] \in X
        BY <2>2, Zenon
    <2> QED BY <2>1, <2>3, Zenon
<1>15. \A k \in 1..Rounds : k - 1 \in G => k \in G
    <2> SUFFICES ASSUME NEW k \in 1..Rounds, \A d \in X : g[k - 1][d] \in X, NEW d \in X
                 PROVE  g[k][d] \in X
        BY <1>6
    <2>1. k \in 0..Rounds /\ k # 0
        BY <1>6
    <2>2. d \in PositiveNat /\ Turn(d, b, amp) \in X
        BY <1>12, Zenon
    <2>3. g[k][d] = Turn(d, b, amp) \/ g[k][d] = g[k - 1][Turn(d, b, amp)]
        BY <1>13, <2>1, <2>2, Zenon
    <2>4. g[k - 1][Turn(d, b, amp)] \in X
        BY <2>2, Zenon
    <2> QED BY <2>2, <2>3, <2>4, Zenon
<1> HIDE DEF G
<1>16. \A k \in 0..Rounds : k \in G
    BY <1>6, <1>14, <1>15, UpTo
<1>17. s \in X
    <2>1. PICK t \in Nat : t = amp * Len(b) * s /\ (amp * Len(b) - 1) * s = t - s
        BY DEF PositiveNat
    <2> QED BY <2>1 DEF X, PositiveNat
<1>18. g[Rounds][s] \in X
    BY <1>6, <1>16, <1>17 DEF G
<1> QED BY <1>1, <1>11, <1>18 DEF X

HeldInv == held \in [Coins -> Nat]

\* The pool of a swap: two coins at least, each with a balance.
LEMMA PoolOfSwap ==
    ASSUME HeldInv, PoolIsPriced, NEW c \in Coins, NEW V \in Nat,
           NEW b, b = BalancesInVUND
    PROVE  /\ b \in Seq(PositiveNat) /\ Len(b) >= 2
           /\ [b EXCEPT ![c] = @ + V] \in Seq(PositiveNat)
           /\ Len([b EXCEPT ![c] = @ + V]) >= 2
<1>1. PICK n \in Nat : n = Len(CoinInfo) /\ Coins = 1..n
    BY SwapAssumption DEF Coins
<1>2. n >= 2
    BY <1>1, SwapAssumption
<1>3. \A i \in 1..n : CoinToVUND(held[i], CoinInfo[i]) \in PositiveNat
    <2> SUFFICES ASSUME NEW i \in 1..n PROVE CoinToVUND(held[i], CoinInfo[i]) \in PositiveNat
        OBVIOUS
    <2>1. held[i] \in Nat /\ i \in Coins
        BY <1>1 DEF HeldInv
    <2>2. CoinToVUND(held[i], CoinInfo[i]) \in Nat
        BY <2>1, CoinTypes
    <2>3. CoinToVUND(held[i], CoinInfo[i]) > 0
        BY <1>1, <2>1 DEF PoolIsPriced, CanFindD, BalancesInVUND
    <2> QED BY <2>2, <2>3 DEF PositiveNat
<1>4. b = [i \in 1..n |-> CoinToVUND(held[i], CoinInfo[i])]
    BY <1>1 DEF BalancesInVUND
<1>5. b \in [1..n -> PositiveNat] /\ [b EXCEPT ![c] = @ + V] \in [1..n -> PositiveNat]
    <2>1. b \in [1..n -> PositiveNat]
        BY <1>3, <1>4
    <2>2. \A x \in PositiveNat : x + V \in PositiveNat
        BY DEF PositiveNat
    <2>3. b[c] \in PositiveNat
        BY <1>1, <2>1
    <2> QED BY <2>1, <2>2, <2>3
<1> QED BY <1>2, <1>5

\* What a swap yields in VUND is capped, whatever the curve says.
LEMMA OutputIsCapped ==
    ASSUME HeldInv, PoolIsPriced, NEW c \in Coins, NEW d \in Coins,
           NEW V \in Nat, NEW amp \in PositiveNat
    PROVE  /\ OutputVUND(c, d, V, amp) \in Nat
           /\ OutputVUND(c, d, V, amp) <= V + (V * premiumPositive) \div pct_denom
<1>1. PICK cap \in Nat : cap = V + (V * premiumPositive) \div pct_denom
    <2>1. premiumPositive \in Nat /\ pct_denom \in Nat \ {0} /\ V * premiumPositive \in Nat
        BY SwapAssumption
    <2>2. (V * premiumPositive) \div pct_denom \in Nat
        BY <2>1, DivBounds
    <2> QED BY <2>2
<1>2. PICK with : with = [BalancesInVUND EXCEPT ![c] = @ + V]
    OBVIOUS
<1>a. PICK growth \in Int :
          growth = D(with, amp) - D(BalancesInVUND, amp) - 1
    <2>1. PICK b, w : b = BalancesInVUND /\ w = [b EXCEPT ![c] = @ + V] /\ w = with
        BY <1>2
    <2>2. /\ b \in Seq(PositiveNat) /\ Len(b) >= 2
          /\ w \in Seq(PositiveNat) /\ Len(w) >= 2
        BY <2>1, PoolOfSwap
    <2>3. D(b, amp) \in PositiveNat /\ D(w, amp) \in PositiveNat
        BY <2>2, DBounds
    <2>4. PICK x \in Int, y \in Int : x = D(b, amp) /\ y = D(w, amp)
        BY <2>3 DEF PositiveNat
    <2>5. y - x - 1 \in Int
        BY <2>4
    <2> QED BY <2>1, <2>4, <2>5
<1>3. OutputVUND(c, d, V, amp) =
          IF growth < 0 \/ with[d] < Capped(growth, V) + MinLiquidity
          THEN 0 ELSE Capped(growth, V)
    BY <1>2, <1>a DEF OutputVUND
<1>4. growth \in Nat => Capped(growth, V) \in Nat /\ Capped(growth, V) <= cap
    <2> SUFFICES ASSUME growth \in Nat
                 PROVE  Capped(growth, V) \in Nat /\ Capped(growth, V) <= cap
        OBVIOUS
    <2>1. Capped(growth, V) = Min({growth, cap})
        BY <1>1 DEF Capped
    <2>2. Min({growth, cap}) \in {growth, cap} /\ Min({growth, cap}) <= cap
        BY MinOfTwo
    <2> QED BY <2>1, <2>2
<1> QED BY <1>1, <1>3, <1>4

\* Its worth, for coins with more and with fewer decimals than VUND.
LEMMA OutputKeepsWorth ==
    ASSUME HeldInv, PoolIsPriced, NEW c \in Coins, NEW d \in Coins,
           NEW amount \in Nat, NEW amp \in PositiveNat,
           NEW out, out = Output(c, d, amount, amp),
           NEW pct \in {premiumPositive, premiumNegative},
           NetOut(out, pct) > 0
    PROVE  /\ out \in Nat /\ NetOut(out, pct) \in Nat
           /\ CoinToVUND(NetOut(out, pct), CoinInfo[d])
                  < CoinToVUND(amount, CoinInfo[c]) + Max({1, CoinToVUND(1, CoinInfo[d])})
<1>1. PICK V \in Nat : V = CoinToVUND(amount, CoinInfo[c])
    BY CoinTypes
<1>2. PICK o \in Nat : /\ o = OutputVUND(c, d, V, amp)
                       /\ o <= V + (V * premiumPositive) \div pct_denom
    BY OutputIsCapped
<1>3. out = VUNDToCoin(o, CoinInfo[d]) /\ out \in Nat
    <2>1. /\ Index(c) = c /\ InfoOf(c) = CoinInfo[c]
          /\ Index(d) = d
        BY InfoTypes DEF Tokens
    <2> QED BY <1>1, <1>2, <2>1, CoinTypes DEF Output
<1>4. PICK s \in Nat \ {0} : s = CoinInfo[d].scale
    BY CoinTypes
<1>5. CoinToVUND(1, CoinInfo[d]) \in Nat
    BY CoinTypes
<1>6. PICK unit \in Nat : /\ unit = Max({1, CoinToVUND(1, CoinInfo[d])})
                          /\ unit >= 1 /\ unit >= CoinToVUND(1, CoinInfo[d])
    <2>1. PICK w \in Nat : w = CoinToVUND(1, CoinInfo[d])
        BY <1>5
    <2>2. Max({1, w}) \in {1, w} /\ Max({1, w}) >= 1 /\ Max({1, w}) >= w
        BY MaxOfTwo
    <2>3. Max({1, w}) \in Nat
        BY <2>2
    <2> QED BY <2>1, <2>2, <2>3
<1>7. CASE ~CoinInfo[d].wider
    <2>1. s * out <= 1 * o
        <3>1. s * (o \div s) <= o
            BY DivBounds
        <3> QED BY <1>3, <1>4, <1>7, <3>1 DEF VUNDToCoin
    <2>2. NetOut(out, pct) \in Nat /\ s * (NetOut(out, pct) - 1) < 1 * V
        <3>1. PICK j \in Nat \ {0} : j = 1
            OBVIOUS
        <3>2. s * out <= j * o
            BY <2>1, <3>1
        <3>3. NetOut(out, pct) \in Nat /\ s * (NetOut(out, pct) - 1) < j * V
            BY <1>2, <1>3, <3>2, PremiumCoversCap
        <3> QED BY <3>1, <3>3
    <2>3. PICK net \in Nat : net = NetOut(out, pct) /\ s * (net - 1) < V
        BY <2>2
    <2>4. net * s = s * (net - 1) + s
        OBVIOUS
    <2>5. CoinToVUND(net, CoinInfo[d]) = net * s /\ unit >= s
        BY <1>4, <1>6, <1>7 DEF CoinToVUND
    <2> QED BY <1>1, <1>3, <1>6, <2>3, <2>4, <2>5
<1>8. CASE CoinInfo[d].wider
    <2>1. 1 * out <= s * o
        BY <1>3, <1>4, <1>8 DEF VUNDToCoin
    <2>2. NetOut(out, pct) \in Nat /\ 1 * (NetOut(out, pct) - 1) < s * V
        <3>1. PICK i \in Nat \ {0} : i = 1
            OBVIOUS
        <3>2. i * out <= s * o
            BY <2>1, <3>1
        <3>3. NetOut(out, pct) \in Nat /\ i * (NetOut(out, pct) - 1) < s * V
            BY <1>2, <1>3, <3>2, PremiumCoversCap
        <3> QED BY <3>1, <3>3
    <2>3. PICK net \in Nat : net = NetOut(out, pct) /\ net < s * V + s
        <3>1. s * V \in Nat
            OBVIOUS
        <3> QED BY <2>2, <3>1
    <2>4. net \div s <= V
        BY <2>3, DivAtMost
    <2>5. CoinToVUND(net, CoinInfo[d]) = net \div s /\ net \div s \in Nat
        BY <1>4, <1>8, DivBounds DEF CoinToVUND
    <2> QED BY <1>1, <1>3, <1>6, <2>3, <2>4, <2>5
<1> QED BY <1>7, <1>8

\* What a swap does to the vault, whether its tokens are listed or not.
LEMMA SwapStep ==
    ASSUME NEW c \in Tokens, NEW d \in Tokens, NEW amount \in Amounts, NEW tolerance \in Tolerances,
           HeldInv, RateInv, SwapExecution(c, d, amount, tolerance)
    PROVE  \E pct \in {premiumPositive, premiumNegative}, out \in Nat :
               /\ amount \in Nat /\ PoolIsPriced
               /\ out = Output(c, d, amount, Current)
               /\ NetOut(out, pct) \in Int /\ NetOut(out, pct) <= out
               /\ d \in Coins => StaysQuotable(d, out) /\ out <= held[d] /\ c # d
               /\ held' = [x \in Coins |-> IF x = d THEN held[x] - NetOut(out, pct)
                                           ELSE IF x = c THEN held[x] + amount ELSE held[x]]
<1>1. PICK pct \in {premiumPositive, premiumNegative}, out \in {Output(c, d, amount, Current)} :
          /\ c # d \/ c = Other
          /\ out = Output(c, d, amount, Current)
          /\ d \in Coins => StaysQuotable(d, out)
          /\ held' = [x \in Coins |-> IF x = d THEN held[x] - NetOut(out, pct)
                                      ELSE Received(c, amount)[x]]
    BY DEF SwapExecution, Premium
<1>2. amount \in Nat /\ pct \in Nat /\ pct_denom \in Nat \ {0} /\ ONE \in Nat
    BY SwapAssumption
<1>3. PICK V \in Nat : V = CoinToVUND(amount, InfoOf(c))
    BY <1>2, InfoTypes
<1>a. Current \in PositiveNat /\ PoolIsPriced
    BY CurrentIsGood DEF RateInv, SwapExecution, PoolIsPriced
<1>4. out \in Nat
    <2>1. Index(c) \in Coins /\ Index(d) \in Coins
        <3>1. PICK zero \in Nat : zero = 0
            OBVIOUS
        <3> QED BY <3>1, InfoTypes
    <2>2. OutputVUND(Index(c), Index(d), V, Current) \in Nat
        BY <1>a, <2>1, OutputIsCapped
    <2> QED BY <1>1, <1>3, <2>1, <2>2, CoinTypes DEF Output
<1>5. PICK q \in Nat : q = (out * pct) \div pct_denom
    <2>1. out * pct \in Nat
        BY <1>2, <1>4
    <2> QED BY <1>2, <2>1, DivBounds
<1>6. NetOut(out, pct) = out - q
    BY <1>5 DEF NetOut
<1>7. d \in Coins => StaysQuotable(d, out) /\ out <= held[d] /\ c # d
    <2> SUFFICES ASSUME d \in Coins PROVE StaysQuotable(d, out) /\ out <= held[d] /\ c # d
        OBVIOUS
    <2>1. VUNDToCoin(ONE, CoinInfo[d]) \in Nat
        BY <1>2, CoinTypes
    <2>2. held[d] \in Nat /\ out <= held[d]
        BY <1>1, <1>4, <2>1 DEF HeldInv, StaysQuotable
    <2>3. d # Other
        BY <1>2, InfoTypes
    <2> QED BY <1>1, <2>2, <2>3
<1>8. NetOut(out, pct) \in Int /\ NetOut(out, pct) <= out
    BY <1>4, <1>6
<1>9. held' = [x \in Coins |-> IF x = d THEN held[x] - NetOut(out, pct)
                               ELSE IF x = c THEN held[x] + amount ELSE held[x]]
    BY <1>1 DEF Received
<1> QED BY <1>1, <1>2, <1>4, <1>7, <1>8, <1>9, <1>a

\* What a swap from VUND does to it.
LEMMA SwapVUNDStep ==
    ASSUME NEW d \in Tokens, NEW amount \in Amounts, HeldInv, SwapVUND(d, amount)
    PROVE  \E out \in Nat :
               /\ d \in Coins => StaysQuotable(d, out) /\ out <= held[d]
               /\ held' = [x \in Coins |-> IF x = d THEN held[x] - out ELSE held[x]]
<1>1. PICK out \in Nat : out = VUNDToCoin(amount, InfoOf(d))
    BY SwapAssumption, InfoTypes
<1>2. held' = [x \in Coins |-> IF x = d THEN held[x] - out ELSE held[x]]
    BY <1>1 DEF SwapVUND
<1>3. d \in Coins => StaysQuotable(d, out) /\ out <= held[d]
    <2> SUFFICES ASSUME d \in Coins PROVE StaysQuotable(d, out) /\ out <= held[d]
        OBVIOUS
    <2>1. d # Other
        BY <1>1, InfoTypes
    <2>2. StaysQuotable(d, out)
        BY <1>1, <2>1 DEF SwapVUND
    <2>3. VUNDToCoin(ONE, CoinInfo[d]) \in Nat
        BY SwapAssumption, CoinTypes
    <2> QED BY <2>2, <2>3 DEF HeldInv, StaysQuotable
<1> QED BY <1>2, <1>3

LEMMA HeldInvHolds == Spec => []HeldInv
<1>1. Init => HeldInv
    BY SwapAssumption DEF Init, HeldInv
<1>2. HeldInv /\ RateInv /\ [Next]_vars => HeldInv'
  <2> SUFFICES ASSUME HeldInv, RateInv, [Next]_vars PROVE HeldInv'
      OBVIOUS
  <2>1. CASE UNCHANGED held
      BY <2>1 DEF HeldInv
  <2>2. ASSUME NEW d \in Tokens, NEW amount \in Amounts, SwapVUND(d, amount)
        PROVE  HeldInv'
    <3>1. PICK out \in Nat :
              /\ d \in Coins => out <= held[d]
              /\ held' = [x \in Coins |-> IF x = d THEN held[x] - out ELSE held[x]]
        BY <2>2, SwapVUNDStep
    <3> QED BY <3>1 DEF HeldInv
  <2>3. ASSUME NEW c \in Tokens, NEW d \in Tokens, NEW amount \in Amounts,
               NEW tolerance \in Tolerances, SwapExecution(c, d, amount, tolerance)
        PROVE  HeldInv'
    <3>1. PICK pct \in {premiumPositive, premiumNegative}, out \in Nat :
              /\ amount \in Nat
              /\ NetOut(out, pct) \in Int /\ NetOut(out, pct) <= out
              /\ d \in Coins => out <= held[d]
              /\ held' = [x \in Coins |-> IF x = d THEN held[x] - NetOut(out, pct)
                                          ELSE IF x = c THEN held[x] + amount ELSE held[x]]
        BY <2>3, SwapStep
    <3>2. PICK net \in Int : net = NetOut(out, pct) /\ net <= out
        BY <3>1
    <3> QED BY <3>1, <3>2 DEF HeldInv
  <2>4. CASE Tick \/ StopRampA \/ UNCHANGED vars
      BY <2>1, <2>4 DEF Tick, StopRampA, vars
  <2>5. ASSUME NEW future \in FutureAs, NEW time \in RampTimes, RampA(future, now + time)
        PROVE  HeldInv'
      BY <2>1, <2>5 DEF RampA
  <2> QED BY <2>2, <2>3, <2>4, <2>5 DEF Next
<1> QED BY <1>1, <1>2, RateInvHolds, PTL DEF Spec

\* Whatever the curve, its coefficient and the decimals of the coins, a swap
\* between coins takes out no more than it brings in: the cap and the premium
\* see to it, as long as the premium of the cap is the smaller one.
THEOREM SwapsKeepWorth == Spec => WorthIsKept
<1> DEFINE Kept(c, d) ==
        held'[c] > held[c] /\ held'[d] < held[d] =>
            CoinToVUND(held[d] - held'[d], CoinInfo[d])
                < CoinToVUND(held'[c] - held[c], CoinInfo[c])
                      + Max({1, CoinToVUND(1, CoinInfo[d])})
<1>1. HeldInv /\ RateInv /\ [Next]_vars => \A c, d \in Coins : Kept(c, d)
  <2> SUFFICES ASSUME HeldInv, RateInv, [Next]_vars, NEW c \in Coins, NEW d \in Coins,
                      held'[c] > held[c], held'[d] < held[d]
               PROVE  CoinToVUND(held[d] - held'[d], CoinInfo[d])
                          < CoinToVUND(held'[c] - held[c], CoinInfo[c])
                                + Max({1, CoinToVUND(1, CoinInfo[d])})
      OBVIOUS
  <2>1. held[c] \in Nat /\ held[d] \in Nat
      BY DEF HeldInv
  <2>2. CASE UNCHANGED held
      BY <2>1, <2>2
  <2>3. ASSUME NEW e \in Tokens, NEW amount \in Amounts, SwapVUND(e, amount)
        PROVE  FALSE
    <3>1. PICK out \in Nat : held' = [x \in Coins |-> IF x = e THEN held[x] - out ELSE held[x]]
        BY <2>3, SwapVUNDStep
    <3>2. held'[c] = held[c] \/ held'[c] = held[c] - out
        BY <3>1
    <3> QED BY <2>1, <3>2
  <2>4. ASSUME NEW a \in Tokens, NEW b \in Tokens, NEW amount \in Amounts,
               NEW tolerance \in Tolerances, SwapExecution(a, b, amount, tolerance)
        PROVE  CoinToVUND(held[d] - held'[d], CoinInfo[d])
                   < CoinToVUND(held'[c] - held[c], CoinInfo[c])
                         + Max({1, CoinToVUND(1, CoinInfo[d])})
    <3>1. PICK pct \in {premiumPositive, premiumNegative}, out \in Nat :
              /\ amount \in Nat /\ PoolIsPriced
              /\ out = Output(a, b, amount, Current)
              /\ NetOut(out, pct) \in Int
              /\ held' = [x \in Coins |-> IF x = b THEN held[x] - NetOut(out, pct)
                                          ELSE IF x = a THEN held[x] + amount ELSE held[x]]
        BY <2>4, SwapStep
    <3>2. PICK net \in Int : net = NetOut(out, pct)
        BY <3>1
    <3>3. \A x \in Coins : held'[x] = IF x = b THEN held[x] - net
                                     ELSE IF x = a THEN held[x] + amount ELSE held[x]
        BY <3>1, <3>2
    <3>4. d = b /\ net > 0
        <4>1. held'[d] = held[d] - net \/ held'[d] = held[d] + amount \/ held'[d] = held[d]
            BY <3>3
        <4>2. held[d] + amount >= held[d]
            BY <2>1, <3>1
        <4>3. d = b
            <5> SUFFICES ASSUME d # b PROVE FALSE
                OBVIOUS
            <5>1. held'[d] = held[d] + amount \/ held'[d] = held[d]
                BY <3>3
            <5>2. held'[d] \in Nat /\ held'[d] >= held[d]
                BY <2>1, <3>1, <5>1
            <5> QED BY <2>1, <5>2
        <4>4. held[d] - net < held[d]
            BY <3>3, <4>3
        <4> QED BY <2>1, <3>2, <4>3, <4>4
    <3>5. c = a /\ c # b
        <4>1. c # d
            BY <2>1, <3>3, <3>4
        <4>2. c = a
            BY <2>1, <3>3, <3>4, <4>1
        <4> QED BY <3>4, <4>1, <4>2
    <3>6. held[d] - held'[d] = net /\ held'[c] - held[c] = amount
        <4>1. held'[d] = held[d] - net /\ held'[c] = held[c] + amount
            BY <3>3, <3>4, <3>5
        <4> QED BY <2>1, <3>1, <4>1
    <3>7. CoinToVUND(net, CoinInfo[d])
              < CoinToVUND(amount, CoinInfo[c]) + Max({1, CoinToVUND(1, CoinInfo[d])})
        <4>1. Current \in PositiveNat
            BY CurrentIsGood DEF RateInv
        <4> QED BY <3>1, <3>2, <3>4, <3>5, <4>1, OutputKeepsWorth
    <3> QED BY <3>6, <3>7
  <2>5. CASE Tick \/ StopRampA \/ UNCHANGED vars
      BY <2>2, <2>5 DEF Tick, StopRampA, vars
  <2>6. ASSUME NEW future \in FutureAs, NEW time \in RampTimes, RampA(future, now + time)
        PROVE  UNCHANGED held
      BY <2>6 DEF RampA
  <2> QED BY <2>2, <2>3, <2>4, <2>5, <2>6 DEF Next
<1>2. HeldInv /\ RateInv /\ [Next]_vars => \A c, d \in Coins :
          held'[c] > held[c] /\ held'[d] < held[d] =>
              CoinToVUND(held[d] - held'[d], CoinInfo[d])
                  < CoinToVUND(held'[c] - held[c], CoinInfo[c])
                        + Max({1, CoinToVUND(1, CoinInfo[d])})
    BY <1>1
<1> QED BY <1>2, HeldInvHolds, RateInvHolds, PTL DEF Spec, WorthIsKept

-----------------------------------------------------------------------------
(* Pools can be priced.                                                    *)

\* What the vault's coins have to be: none with so few decimals that one of its
\* units is worth more than one VUND, and of every coin enough at the start to be
\* worth a unit of VUND.
PoolStartsPriced ==
    /\ ONE > 0
    /\ \A c \in Coins : ~CoinInfo[c].wider => CoinInfo[c].scale <= ONE
    /\ \A c \in Coins, s \in StartBalances : CoinToVUND(s, CoinInfo[c]) > 0

\* More of a coin is worth no less.
LEMMA WorthGrows ==
    ASSUME NEW c \in Coins, NEW x \in Nat, NEW y \in Nat, x <= y
    PROVE  CoinToVUND(x, CoinInfo[c]) <= CoinToVUND(y, CoinInfo[c])
<1>1. PICK s \in Nat \ {0} : s = CoinInfo[c].scale
    BY CoinTypes
<1>2. x \div s <= y \div s /\ x * s <= y * s
    BY DivGrows, TimesGrows
<1> QED BY <1>1, <1>2 DEF CoinToVUND

\* What Vault.swap leaves of a coin is worth something.
LEMMA OneIsWorthSomething ==
    ASSUME PoolStartsPriced, NEW c \in Coins, NEW x \in Nat, x >= VUNDToCoin(ONE, CoinInfo[c])
    PROVE  CoinToVUND(x, CoinInfo[c]) > 0
<1>1. PICK s \in Nat \ {0} : s = CoinInfo[c].scale /\ (~CoinInfo[c].wider => s <= ONE)
    BY CoinTypes DEF PoolStartsPriced
<1>2. PICK one \in Nat : one = ONE /\ one > 0
    BY SwapAssumption DEF PoolStartsPriced
<1>3. PICK y \in Nat : y = VUNDToCoin(one, CoinInfo[c]) /\ y <= x
    BY <1>2, CoinTypes
<1>4. CoinToVUND(y, CoinInfo[c]) > 0
    <2>1. CASE CoinInfo[c].wider
        <3>1. y = one * s
            BY <1>1, <1>3, <2>1 DEF VUNDToCoin
        <3>2. y \div s > 0
            <4> SUFFICES ASSUME y \div s <= 0 PROVE FALSE
                BY DivBounds
            <4>1. PICK zero \in Int : zero = 0
                OBVIOUS
            <4>2. y < s * zero + s
                BY <4>1, DivAtMost
            <4>3. 1 * s <= one * s
                BY <1>2, TimesGrows
            <4> QED BY <3>1, <4>1, <4>2, <4>3
        <3> QED BY <1>1, <2>1, <3>2 DEF CoinToVUND
    <2>2. CASE ~CoinInfo[c].wider
        <3>1. y = one \div s /\ s <= one
            BY <1>1, <1>2, <1>3, <2>2 DEF VUNDToCoin
        <3>2. y # 0
            <4> SUFFICES ASSUME y = 0 PROVE FALSE
                OBVIOUS
            <4>1. one < s * 0 + s
                BY <3>1, DivBounds
            <4> QED BY <3>1, <4>1
        <3>3. y * s > 0
            BY <3>2
        <3> QED BY <1>1, <2>2, <3>3 DEF CoinToVUND
    <2> QED BY <2>1, <2>2
<1>5. CoinToVUND(y, CoinInfo[c]) <= CoinToVUND(x, CoinInfo[c])
    BY <1>3, WorthGrows
<1>6. PICK u \in Nat, v \in Nat : u = CoinToVUND(y, CoinInfo[c]) /\ v = CoinToVUND(x, CoinInfo[c])
    BY CoinTypes
<1> QED BY <1>4, <1>5, <1>6

\* Swaps keep every coin at a balance, coins that come in and coins that leave.
LEMMA SwapsLeaveABalance ==
    ASSUME PoolStartsPriced, HeldInv, RateInv, PoolIsPriced, [Next]_vars, HeldInv'
    PROVE  PoolIsPriced'
<1> SUFFICES ASSUME NEW c \in Coins PROVE CoinToVUND(held'[c], CoinInfo[c]) > 0
    BY DEF PoolIsPriced, CanFindD, BalancesInVUND
<1>1. held[c] \in Nat /\ held'[c] \in Nat
    BY DEF HeldInv
<1>2. CoinToVUND(held[c], CoinInfo[c]) > 0
    BY DEF PoolIsPriced, CanFindD, BalancesInVUND
<1>3. CASE held'[c] >= held[c]
    <2>1. CoinToVUND(held[c], CoinInfo[c]) <= CoinToVUND(held'[c], CoinInfo[c])
        BY <1>1, <1>3, WorthGrows
    <2>2. PICK u \in Nat, v \in Nat :
              u = CoinToVUND(held[c], CoinInfo[c]) /\ v = CoinToVUND(held'[c], CoinInfo[c])
        BY <1>1, CoinTypes
    <2> QED BY <1>2, <2>1, <2>2
<1>4. CASE held'[c] >= VUNDToCoin(ONE, CoinInfo[c])
    BY <1>1, <1>4, OneIsWorthSomething
<1>5. held'[c] >= held[c] \/ held'[c] >= VUNDToCoin(ONE, CoinInfo[c])
    <2>1. CASE UNCHANGED held
        BY <1>1, <2>1
    <2>2. ASSUME NEW d \in Tokens, NEW amount \in Amounts, SwapVUND(d, amount)
          PROVE  held'[c] >= held[c] \/ held'[c] >= VUNDToCoin(ONE, CoinInfo[c])
        <3>1. PICK out \in Nat :
                  /\ d \in Coins => StaysQuotable(d, out)
                  /\ held' = [x \in Coins |-> IF x = d THEN held[x] - out ELSE held[x]]
            BY <2>2, SwapVUNDStep
        <3>2. CASE c = d
            <4>1. held'[c] = held[c] - out /\ StaysQuotable(c, out)
                BY <3>1, <3>2
            <4>2. PICK one \in Nat : one = VUNDToCoin(ONE, CoinInfo[c])
                BY SwapAssumption, CoinTypes
            <4> QED BY <1>1, <4>1, <4>2 DEF StaysQuotable
        <3>3. CASE c # d
            <4>1. held'[c] = held[c]
                BY <3>1, <3>3
            <4> QED BY <1>1, <4>1
        <3> QED BY <3>2, <3>3
    <2>3. ASSUME NEW a \in Tokens, NEW d \in Tokens, NEW amount \in Amounts,
                 NEW tolerance \in Tolerances, SwapExecution(a, d, amount, tolerance)
          PROVE  held'[c] >= held[c] \/ held'[c] >= VUNDToCoin(ONE, CoinInfo[c])
        <3>1. PICK pct \in {premiumPositive, premiumNegative}, out \in Nat :
                  /\ amount \in Nat
                  /\ d \in Coins => StaysQuotable(d, out)
                  /\ NetOut(out, pct) \in Int /\ NetOut(out, pct) <= out
                  /\ held' = [x \in Coins |-> IF x = d THEN held[x] - NetOut(out, pct)
                                              ELSE IF x = a THEN held[x] + amount ELSE held[x]]
            BY <2>3, SwapStep
        <3>2. PICK net \in Int : net = NetOut(out, pct) /\ net <= out
            BY <3>1
        <3>3. CASE c = d
            <4>1. held'[c] = held[c] - net /\ StaysQuotable(c, out)
                BY <3>1, <3>2, <3>3
            <4>2. PICK one \in Nat : one = VUNDToCoin(ONE, CoinInfo[c])
                BY SwapAssumption, CoinTypes
            <4> QED BY <1>1, <3>2, <4>1, <4>2 DEF StaysQuotable
        <3>4. CASE c # d
            <4>1. held'[c] = held[c] \/ held'[c] = held[c] + amount
                BY <3>1, <3>4
            <4> QED BY <1>1, <3>1, <4>1
        <3> QED BY <3>3, <3>4
    <2>4. CASE Tick \/ StopRampA \/ UNCHANGED vars
        BY <2>1, <2>4 DEF Tick, StopRampA, vars
    <2>5. ASSUME NEW future \in FutureAs, NEW time \in RampTimes, RampA(future, now + time)
          PROVE  UNCHANGED held
        BY <2>5 DEF RampA
    <2> QED BY <2>1, <2>2, <2>3, <2>4, <2>5 DEF Next
<1> QED BY <1>3, <1>4, <1>5

\* The owner's ramps and the users' swaps never lead to a pool that cannot be
\* priced: no price divides by zero, D is positive whatever the turns of the
\* iteration come to, and at most one part in ann - 1 above the sum.
THEOREM PoolsStayPriced ==
    ASSUME PoolStartsPriced
    PROVE  Spec => [](PoolIsPriced /\ DIsSound)
<1>1. Init => PoolIsPriced
  <2> SUFFICES ASSUME Init, NEW c \in Coins PROVE CoinToVUND(held[c], CoinInfo[c]) > 0
      BY DEF PoolIsPriced, CanFindD, BalancesInVUND
  <2>1. held[c] \in StartBalances
      BY DEF Init
  <2> QED BY <2>1 DEF PoolStartsPriced
<1>2. PoolIsPriced /\ HeldInv /\ HeldInv' /\ RateInv /\ [Next]_vars => PoolIsPriced'
    BY SwapsLeaveABalance
<1>3. PoolIsPriced /\ HeldInv /\ RateInv => DIsSound
  <2> SUFFICES ASSUME PoolIsPriced, HeldInv, RateInv PROVE DIsSound
      OBVIOUS
  <2>1. PICK c \in Coins : c = 1
    <3>1. 1 \in Coins
        BY SwapAssumption DEF Coins
    <3> QED BY <3>1
  <2>2. PICK b : b = BalancesInVUND
      OBVIOUS
  <2>3. PICK zero \in Nat : zero = 0
      OBVIOUS
  <2>4. b \in Seq(PositiveNat) /\ Len(b) >= 2
      BY <2>1, <2>2, <2>3, PoolOfSwap
  <2>5. Len(b) = Len(CoinInfo)
    <3>1. DOMAIN b = 1..Len(CoinInfo) /\ Len(CoinInfo) \in Nat
        BY <2>2, SwapAssumption DEF BalancesInVUND, Coins
    <3> QED BY <2>4, <3>1
  <2>6. PICK amp \in PositiveNat : amp = Current
      BY CurrentIsGood DEF RateInv
  <2>7. D(b, amp) \in PositiveNat /\ (amp * Len(b) - 1) * D(b, amp) <= amp * Len(b) * SumOf(b)
      BY <2>4, DBounds
  <2>8. D(b, amp) > 0
      BY <2>7 DEF PositiveNat
  <2> QED BY <2>2, <2>5, <2>6, <2>7, <2>8 DEF DIsSound
<1> QED BY <1>1, <1>2, <1>3, HeldInvHolds, RateInvHolds, PTL DEF Spec

-----------------------------------------------------------------------------
(* Types.                                                                  *)

\* Every variable keeps its type: coefficients stay positive, the vault never
\* owes a coin, and the history is as long as the time.
THEOREM SwapTypeCorrect == Spec => []TypeOK
<1> DEFINE PositiveA == A \in PositiveNat
<1>1. Init => PositiveA
    BY DEF Init, PositiveNat
<1>2. PositiveA /\ RateInv /\ [Next]_vars => PositiveA'
  <2> SUFFICES ASSUME PositiveA, RateInv, [Next]_vars PROVE PositiveA'
      OBVIOUS
  <2>1. A' = A \/ A' = Current
    <3>1. CASE Tick \/ StopRampA \/ UNCHANGED vars
        BY <3>1 DEF Tick, StopRampA, vars
    <3>2. ASSUME NEW future \in FutureAs, NEW time \in RampTimes, RampA(future, now + time)
          PROVE  A' = A
        BY <3>2 DEF RampA
    <3>3. ASSUME NEW d \in Tokens, NEW amount \in Amounts,
                 \/ SwapVUND(d, amount)
                 \/ \E c \in Tokens, tolerance \in Tolerances :
                       SwapExecution(c, d, amount, tolerance)
          PROVE  A' = Current
        BY <3>3 DEF SwapVUND, SwapExecution
    <3> QED BY <3>1, <3>2, <3>3 DEF Next
  <2> QED BY <2>1, CurrentIsGood DEF RateInv
<1>3. PositiveA /\ HeldInv /\ RateInv => TypeOK
  <2> SUFFICES ASSUME PositiveA, HeldInv, RateInv PROVE TypeOK
      OBVIOUS
  <2>1. /\ now \in Nat /\ initial_A_time \in Nat /\ initial_A_time <= now
        /\ future_A_time \in Nat
        /\ initial_A \in PositiveNat /\ future_A \in PositiveNat
      BY DEF RateInv, RampIsGood, GoodRamp
  <2>2. trail \in Seq(PositiveNat) /\ Len(trail) = now
      BY DEF RateInv, TrailFollows
  <2> QED BY <2>1, <2>2 DEF TypeOK, HeldInv
<1> QED BY <1>1, <1>2, <1>3, RateInvHolds, HeldInvHolds, PTL DEF Spec

=============================================================================
