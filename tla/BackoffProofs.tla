---------------------------- MODULE BackoffProofs ----------------------------
(***************************************************************************)
(* The retry delay for durations of any width, 64 bits included: what        *)
(* backoffDuration returns where nothing overflows, and what it still         *)
(* guarantees where the shift or the product does.                            *)
(***************************************************************************)
EXTENDS Backoff, WellFoundedInduction, TLAPS

\* A set of numbers that holds 0 and with n also n + 1 holds every number: the
\* least number outside of it would be neither 0 nor a successor.
LEMMA Induction ==
    ASSUME NEW T \in SUBSET Nat, 0 \in T, \A n \in T : n + 1 \in T
    PROVE  T = Nat
<1> DEFINE less == {ss \in Nat \X Nat : ss[1] < ss[2]}
<1>1. IsWellFoundedOn(less, Nat)
  BY NatLessThanWellFounded DEF OpToRel
<1>2. SUFFICES ASSUME Nat \ T # {} PROVE FALSE
  OBVIOUS
<1> HIDE DEF less
<1>3. PICK m \in Nat \ T : \A n \in Nat \ T : <<n, m>> \notin less
  BY <1>1, <1>2, WFMin
<1>4. m - 1 \in Nat /\ m - 1 < m /\ (m - 1) + 1 = m
  OBVIOUS
<1>5. m - 1 \in T
  BY <1>3, <1>4 DEF less
<1> QED
  BY <1>4, <1>5


-----------------------------------------------------------------------------
(* The powers of two.                                                       *)

\* The first n + 1 powers of two.
Powers(n, g) ==
    /\ g \in [0..n -> Nat]
    /\ g[0] = 1
    /\ \A i \in 1..n : g[i] = 2 * g[i - 1]

LEMMA PowersExist ==
    ASSUME NEW n \in Nat
    PROVE  \E g \in [0..n -> Nat] : Powers(n, g)
<1> DEFINE T == {m \in Nat : \E g \in [0..m -> Nat] : Powers(m, g)}
<1>1. 0 \in T
  <2> DEFINE g == [i \in 0..0 |-> 1]
  <2>1. g \in [0..0 -> Nat] /\ Powers(0, g)
    BY DEF Powers
  <2> QED
    BY <2>1
<1>2. ASSUME NEW m \in T PROVE m + 1 \in T
  <2>1. PICK g \in [0..m -> Nat] : Powers(m, g)
    OBVIOUS
  <2> DEFINE h == [i \in 0..(m + 1) |-> IF i = m + 1 THEN 2 * g[m] ELSE g[i]]
  <2>2. h \in [0..(m + 1) -> Nat]
    OBVIOUS
  <2>3. h[0] = 1 /\ \A i \in 1..(m + 1) : h[i] = 2 * h[i - 1]
    <3>1. h[0] = 1
      BY <2>1 DEF Powers
    <3>2. ASSUME NEW i \in 1..(m + 1) PROVE h[i] = 2 * h[i - 1]
      <4>1. i - 1 \in 0..(m + 1) /\ i - 1 # m + 1 /\ i \in 0..(m + 1)
        OBVIOUS
      <4>2. h[i - 1] = g[i - 1]
        BY <4>1
      <4>3. CASE i = m + 1
        BY <4>2, <4>3
      <4>4. CASE i # m + 1
        BY <2>1, <4>1, <4>2, <4>4 DEF Powers
      <4> QED
        BY <4>3, <4>4
    <3> QED
      BY <3>1, <3>2
  <2>4. Powers(m + 1, h)
    BY <2>2, <2>3 DEF Powers
  <2> QED
    BY <2>2, <2>4
<1>3. T = Nat
  <2> HIDE DEF T
  <2>1. T \in SUBSET Nat
    BY DEF T
  <2> QED
    BY <1>1, <1>2, <2>1, Induction
<1> QED
  BY <1>3

LEMMA PowersAgree ==
    ASSUME NEW n \in Nat, NEW m \in Nat, NEW g, NEW h, Powers(n, g), Powers(m, h),
           NEW i \in Nat, i <= n, i <= m
    PROVE  g[i] = h[i]
<1> DEFINE T == {j \in Nat : j <= n /\ j <= m => g[j] = h[j]}
<1>1. 0 \in T
  BY DEF Powers
<1>2. ASSUME NEW j \in T PROVE j + 1 \in T
  <2> SUFFICES ASSUME j + 1 <= n, j + 1 <= m PROVE g[j + 1] = h[j + 1]
    OBVIOUS
  <2>1. g[j] = h[j] /\ j + 1 \in 1..n /\ j + 1 \in 1..m /\ (j + 1) - 1 = j
    OBVIOUS
  <2> QED
    BY <2>1 DEF Powers
<1>3. T = Nat
  <2> HIDE DEF T
  <2>1. T \in SUBSET Nat
    BY DEF T
  <2> QED
    BY <1>1, <1>2, <2>1, Induction
<1> QED
  BY <1>3

\* The recursive definition of Pow2 defines a function.
LEMMA Pow2Unfolds ==
    Pow2 = [n \in Nat |-> IF n = 0 THEN 1 ELSE 2 * Pow2[n - 1]]
<1> DEFINE G(n) == CHOOSE g \in [0..n -> Nat] : Powers(n, g)
           F    == [n \in Nat |-> G(n)[n]]
<1>1. ASSUME NEW n \in Nat PROVE Powers(n, G(n))
  BY PowersExist
<1>2. F[0] = 1
  BY <1>1 DEF Powers
<1>3. ASSUME NEW n \in Nat \ {0} PROVE F[n] = 2 * F[n - 1]
  <2>1. G(n)[n] = 2 * G(n)[n - 1]
    <3> HIDE DEF G
    <3>1. Powers(n, G(n)) /\ n \in 1..n
      BY <1>1
    <3> QED
      BY <3>1 DEF Powers
  <2>2. G(n)[n - 1] = G(n - 1)[n - 1]
    <3>1. n - 1 \in Nat /\ n - 1 <= n /\ n - 1 <= n - 1
      OBVIOUS
    <3> HIDE DEF G
    <3> QED
      BY <1>1, <3>1, PowersAgree
  <2> QED
    BY <2>1, <2>2
<1> HIDE DEF G
<1>4. F = [n \in Nat |-> IF n = 0 THEN 1 ELSE 2 * F[n - 1]]
  <2>1. \A n \in Nat : F[n] = IF n = 0 THEN 1 ELSE 2 * F[n - 1]
    <3> HIDE DEF F
    <3> QED
      BY <1>2, <1>3
  <2> QED
    BY <2>1
<1> HIDE DEF F
<1>5. \E f : f = [n \in Nat |-> IF n = 0 THEN 1 ELSE 2 * f[n - 1]]
  BY <1>4
<1> QED
  BY <1>5 DEF Pow2

LEMMA Pow2Step ==
    ASSUME NEW n \in Nat
    PROVE  Pow2[0] = 1 /\ Pow2[n + 1] = 2 * Pow2[n]
<1>1. \A m \in Nat : Pow2[m] = IF m = 0 THEN 1 ELSE 2 * Pow2[m - 1]
  BY Pow2Unfolds, Zenon
<1>2. n + 1 \in Nat /\ n + 1 # 0 /\ (n + 1) - 1 = n
  OBVIOUS
<1> QED
  BY <1>1, <1>2

LEMMA Pow2Type == ASSUME NEW n \in Nat PROVE Pow2[n] \in Nat \ {0}
<1> DEFINE T == {m \in Nat : Pow2[m] \in Nat \ {0}}
<1>1. 0 \in T
  BY Pow2Step
<1>2. \A m \in T : m + 1 \in T
  BY Pow2Step
<1>3. T = Nat
  <2>1. T \in SUBSET Nat
    OBVIOUS
  <2> HIDE DEF T
  <2> QED
    BY <1>1, <1>2, <2>1, Induction
<1> QED
  BY <1>3

LEMMA Pow2Sum ==
    ASSUME NEW a \in Nat, NEW b \in Nat
    PROVE  Pow2[a + b] = Pow2[a] * Pow2[b]
<1> DEFINE T == {m \in Nat : Pow2[a + m] = Pow2[a] * Pow2[m]}
<1>1. 0 \in T
  BY Pow2Step, Pow2Type
<1>2. ASSUME NEW m \in T PROVE m + 1 \in T
  <2>1. /\ Pow2[a + m] = Pow2[a] * Pow2[m]
        /\ Pow2[m + 1] = 2 * Pow2[m]
        /\ a + m \in Nat /\ Pow2[(a + m) + 1] = 2 * Pow2[a + m]
        /\ (a + m) + 1 = a + (m + 1)
    BY Pow2Step
  <2>2. Pow2[a] \in Nat /\ Pow2[m] \in Nat
    BY Pow2Type
  <2>3. 2 * (Pow2[a] * Pow2[m]) = Pow2[a] * (2 * Pow2[m])
    BY <2>2
  <2> QED
    BY <2>1, <2>3
<1>3. T = Nat
  <2>1. T \in SUBSET Nat
    OBVIOUS
  <2> HIDE DEF T
  <2> QED
    BY <1>1, <1>2, <2>1, Induction
<1> QED
  BY <1>3

LEMMA Pow2Monotone ==
    ASSUME NEW a \in Nat, NEW b \in Nat, a <= b
    PROVE  Pow2[a] <= Pow2[b]
<1>1. b - a \in Nat /\ a + (b - a) = b
  OBVIOUS
<1>2. Pow2[b] = Pow2[a] * Pow2[b - a]
  BY <1>1, Pow2Sum
<1>3. Pow2[a] \in Nat \ {0} /\ Pow2[b - a] \in Nat \ {0}
  BY <1>1, Pow2Type
<1>4. \A x, y \in Nat \ {0} : x <= x * y
  OBVIOUS
<1> QED
  BY <1>2, <1>3, <1>4

-----------------------------------------------------------------------------
(* Arithmetic modulo 2^Width.                                               *)

LEMMA Weights ==
    /\ SignBit \in Nat \ {0}
    /\ 2 * SignBit = Pow2[Width]
    /\ \A n \in 0..Width : \E m \in Nat : 2 * SignBit = m * Pow2[n]
<1>1. Width - 1 \in Nat /\ (Width - 1) + 1 = Width
  BY WidthAssumption
<1>2. SignBit \in Nat \ {0} /\ 2 * SignBit = Pow2[Width]
  BY <1>1, Pow2Type, Pow2Step DEF SignBit
<1>3. ASSUME NEW n \in 0..Width PROVE \E m \in Nat : 2 * SignBit = m * Pow2[n]
  <2>1. Width - n \in Nat /\ (Width - n) + n = Width
    BY WidthAssumption
  <2>2. Pow2[Width] = Pow2[Width - n] * Pow2[n]
    BY <2>1, Pow2Sum
  <2>3. Pow2[Width - n] \in Nat
    BY <2>1, Pow2Type
  <2> QED
    BY <1>2, <2>2, <2>3
<1> QED
  BY <1>2, <1>3

LEMMA Division ==
    ASSUME NEW x \in Int, NEW b \in Nat \ {0}, NEW q, NEW r, q = x \div b, r = x % b
    PROVE  q \in Int /\ r \in 0..(b - 1) /\ x = b * q + r
BY Z3

\* A wrapped value fits the register.
LEMMA WrapRange == ASSUME NEW x \in Int PROVE Wrap(x) \in -SignBit..(SignBit - 1)
<1>1. (x + SignBit) % (2 * SignBit) \in 0..(2 * SignBit - 1)
  BY Weights
<1> QED
  BY <1>1, Weights DEF Wrap

\* A value that fits the register is kept.
LEMMA WrapFits ==
    ASSUME NEW x \in -SignBit..(SignBit - 1)
    PROVE  Wrap(x) = x
<1>1. SignBit \in Nat \ {0} /\ x + SignBit \in 0..(2 * SignBit - 1)
  BY Weights
<1>2. \A b \in Nat \ {0} : \A y \in 0..(b - 1) : y % b = y
  OBVIOUS
<1>3. (x + SignBit) % (2 * SignBit) = x + SignBit
  BY <1>1, <1>2
<1> QED
  BY <1>1, <1>3 DEF Wrap

\* Wrapping keeps the low bits: a multiple of a bit's weight stays one.
LEMMA WrapMultiple ==
    ASSUME NEW n \in 0..Width, NEW k \in Int
    PROVE  \E m \in Int : Wrap(k * Pow2[n]) = m * Pow2[n]
<1> DEFINE w == Pow2[n]
           b == 2 * SignBit
           x == k * w
           q == (x + SignBit) \div b
           r == (x + SignBit) % b
<1>1. w \in Nat \ {0} /\ SignBit \in Nat \ {0} /\ b \in Nat \ {0}
  BY Pow2Type, Weights
<1>2. x \in Int /\ x + SignBit \in Int
  BY <1>1
<1>3. q \in Int /\ r \in 0..(b - 1) /\ x + SignBit = b * q + r
  <2> HIDE DEF x, b
  <2> QED
    BY <1>1, <1>2, Division
<1>4. PICK c \in Nat : b = c * w
  BY Weights
<1>5. Wrap(x) = r - SignBit
  BY DEF Wrap
<1> HIDE DEF q, r, b
<1>6. Wrap(x) = x - b * q
  <2>1. b * q \in Int /\ r \in Int
    BY <1>1, <1>3
  <2> HIDE DEF x
  <2> QED
    BY <1>1, <1>2, <1>3, <1>5, <2>1
<1>7. b * q = (c * q) * w
  BY <1>1, <1>3, <1>4
<1>8. x - (c * q) * w = (k - c * q) * w
  BY <1>1, <1>3
<1>9. k - c * q \in Int
  BY <1>3
<1> QED
  BY <1>6, <1>7, <1>8, <1>9

-----------------------------------------------------------------------------
(* The retry delay.                                                         *)

LEMMA ShiftOneIs ==
    ASSUME NEW n \in Nat
    PROVE  /\ ShiftOne(n) \in Int
           /\ n >= Width => ShiftOne(n) = 0
           /\ n < Width => \E m \in Int : ShiftOne(n) = m * Pow2[n]
           /\ n <= Width - 2 => ShiftOne(n) = Pow2[n]
<1>1. Pow2[n] \in Nat \ {0} /\ SignBit \in Nat \ {0}
  BY Pow2Type, Weights
<1>2. Wrap(Pow2[n]) \in Int
  BY <1>1, WrapRange
<1>3. ASSUME n < Width PROVE \E m \in Int : ShiftOne(n) = m * Pow2[n]
  <2>1. n \in 0..Width /\ ~(n >= Width) /\ 1 * Pow2[n] = Pow2[n]
    BY <1>1, <1>3, WidthAssumption
  <2> QED
    BY <2>1, WrapMultiple DEF ShiftOne
<1>4. ASSUME n <= Width - 2 PROVE ShiftOne(n) = Pow2[n]
  <2>1. n + 1 \in Nat /\ Width - 1 \in Nat /\ n + 1 <= Width - 1 /\ ~(n >= Width)
    BY <1>4, WidthAssumption
  <2>2. 2 * Pow2[n] <= SignBit
    BY <2>1, Pow2Monotone, Pow2Step DEF SignBit
  <2>3. Pow2[n] \in -SignBit..(SignBit - 1)
    BY <1>1, <2>2
  <2> QED
    BY <2>1, <2>3, WrapFits DEF ShiftOne
<1> QED
  BY <1>1, <1>2, <1>3, <1>4 DEF ShiftOne

LEMMA RawBackoffType ==
    ASSUME NEW initial \in Int, NEW attempts \in Int
    PROVE  RawBackoff(initial, attempts) \in Int
<1> DEFINE n == IF attempts < 0 THEN 0 ELSE attempts
<1>1. ShiftOne(n) \in Int
  BY ShiftOneIs
<1>2. initial * ShiftOne(n) \in Int
  BY <1>1
<1>3. Wrap(initial * ShiftOne(n)) \in -SignBit..(SignBit - 1)
  BY <1>2, WrapRange
<1> QED
  BY <1>3, Weights DEF RawBackoff

\* However many attempts have failed, also past the overflow of the shift and
\* of the product, backoffDuration waits at least one unit and at most max.
THEOREM BackoffBounded ==
    ASSUME NEW initial \in Nat \ {0}, NEW max \in Nat \ {0}, NEW attempts \in Int
    PROVE  BackoffDuration(initial, max, attempts) \in 1..max
<1>1. RawBackoff(initial, attempts) \in Int
  BY RawBackoffType
<1> QED
  BY <1>1 DEF BackoffDuration

\* Where neither the shift nor the product overflows, the delay doubles with
\* every failed attempt until it meets max.
THEOREM BackoffDoubles ==
    ASSUME NEW initial \in Nat \ {0}, NEW max \in Nat \ {0},
           NEW attempts \in 0..(Width - 2), initial * Pow2[attempts] < SignBit
    PROVE  BackoffDuration(initial, max, attempts) =
              IF initial * Pow2[attempts] < max THEN initial * Pow2[attempts] ELSE max
<1> DEFINE x == initial * Pow2[attempts]
<1>1. attempts \in Nat /\ attempts <= Width - 2
  BY WidthAssumption
<1>2. ShiftOne(attempts) = Pow2[attempts]
  BY <1>1, ShiftOneIs
<1>3. x \in Nat \ {0} /\ SignBit \in Nat \ {0}
  <2>1. Pow2[attempts] \in Nat \ {0}
    BY <1>1, Pow2Type
  <2>2. \A a, b \in Nat \ {0} : a * b \in Nat \ {0}
    OBVIOUS
  <2> QED
    BY <2>1, <2>2, Weights
<1>4. RawBackoff(initial, attempts) = Wrap(x)
  BY <1>1, <1>2 DEF RawBackoff
<1> HIDE DEF x
<1>5. Wrap(x) = x
  BY <1>3, WrapFits, x < SignBit DEF x
<1>6. BackoffDuration(initial, max, attempts) = IF x < max THEN x ELSE max
  BY <1>3, <1>4, <1>5 DEF BackoffDuration
<1> QED
  BY <1>6 DEF x

\* An initial backoff of less than half the bits never makes a retry come sooner
\* than the first one: what the overflow leaves of the product is nothing, a
\* negative number or a multiple of a weight above it.
THEOREM BackoffNeverBelowFirst ==
    ASSUME NEW initial \in Nat \ {0}, NEW max \in Nat \ {0}, NEW attempts \in Int,
           initial < Pow2[Width \div 2]
    PROVE  BackoffDuration(initial, max, attempts) >= IF initial < max THEN initial ELSE max
<1> DEFINE n   == IF attempts < 0 THEN 0 ELSE attempts
           raw == RawBackoff(initial, attempts)
           h   == Width \div 2
<1>1. n \in Nat /\ raw \in Int /\ raw = Wrap(initial * ShiftOne(n))
  <2>1. n \in Nat
    OBVIOUS
  <2>2. raw \in Int
    BY RawBackoffType
  <2>3. raw = Wrap(initial * ShiftOne(n))
    BY Zenon DEF RawBackoff
  <2> QED
    BY <2>1, <2>2, <2>3
<1>2. h \in Nat /\ h <= Width - 1 /\ h + h <= Width
  BY WidthAssumption
<1>3. SUFFICES ASSUME raw > 0 PROVE raw >= initial
  <2> HIDE DEF raw
  <2>1. raw <= 0 \/ raw >= initial
    BY <1>1, <1>3
  <2>2. BackoffDuration(initial, max, attempts) =
          LET base == IF raw <= 0 THEN initial ELSE raw
          IN  IF max > 0 /\ base > max THEN max ELSE base
    BY DEF BackoffDuration, raw
  <2> QED
    BY <1>1, <2>1, <2>2
<1> HIDE DEF n, raw, h
<1>4. ASSUME n >= Width PROVE FALSE
  <2>1. ShiftOne(n) = 0
    BY <1>1, <1>4, ShiftOneIs
  <2>2. initial * ShiftOne(n) = 0 /\ 0 \in -SignBit..(SignBit - 1)
    BY <2>1, Weights
  <2>3. raw = 0
    BY <1>1, <2>2, WrapFits
  <2> QED
    BY <1>3, <2>3
<1>5. CASE n < Width /\ n >= h
  <2>1. PICK m \in Int : ShiftOne(n) = m * Pow2[n]
    BY <1>1, <1>5, ShiftOneIs
  <2>2. Pow2[n] \in Nat \ {0} /\ Pow2[h] \in Nat \ {0} /\ Pow2[h] <= Pow2[n]
    BY <1>1, <1>2, <1>5, Pow2Type, Pow2Monotone
  <2>3. initial * ShiftOne(n) = (initial * m) * Pow2[n] /\ initial * m \in Int
    BY <2>1, <2>2
  <2>4. n \in 0..Width
    BY <1>1, <1>5, WidthAssumption
  <2>5. PICK k \in Int : raw = k * Pow2[n]
    BY <1>1, <2>3, <2>4, WrapMultiple
  <2>6. k > 0
    <3>1. \A a \in Int : \A b \in Nat \ {0} : a <= 0 => a * b <= 0
      OBVIOUS
    <3> QED
      BY <1>3, <2>2, <2>5, <3>1
  <2>7. k * Pow2[n] >= Pow2[n]
    <3>1. \A a, b \in Nat \ {0} : a * b >= b
      OBVIOUS
    <3> QED
      BY <2>2, <2>6, <3>1
  <2> QED
    BY <1>1, <2>2, <2>5, <2>7 DEF h
<1>6. CASE n < h
  <2> DEFINE a == initial
             b == Pow2[n]
             c == Pow2[h]
  <2>1. n <= Width - 2 /\ n + 1 <= h /\ Width - 1 \in Nat
    BY <1>1, <1>2, <1>6, WidthAssumption
  <2>2. b \in Nat \ {0} /\ c \in Nat \ {0} /\ 2 * b <= c
    BY <1>1, <1>2, <2>1, Pow2Type, Pow2Step, Pow2Monotone
  <2>3. c * c <= 2 * SignBit
    <3>1. h + h \in Nat /\ Width \in Nat
      BY <1>2, WidthAssumption
    <3>2. Pow2[h + h] = c * c /\ Pow2[h + h] <= Pow2[Width]
      BY <1>2, <3>1, Pow2Sum, Pow2Monotone
    <3> QED
      BY <3>2, Weights
  <2>4. a \in Nat \ {0} /\ a < c
    BY DEF h
  <2>5. ShiftOne(n) = b
    BY <1>1, <2>1, ShiftOneIs
  <2> HIDE DEF a, b, c
  <2>6. a * b < SignBit /\ a * b >= a /\ a * b \in Nat
    <3>1. 2 * (a * b) = a * (2 * b)
      BY <2>2, <2>4
    <3>2. a * (2 * b) <= a * c
      <4>1. \A x, y, z \in Nat : y <= z => x * y <= x * z
        OBVIOUS
      <4> QED
        BY <2>2, <2>4, <4>1
    <3>3. a * c < c * c
      <4>1. \A x, y \in Nat \ {0} : x < y => x * y < y * y
        OBVIOUS
      <4> QED
        BY <2>2, <2>4, <4>1
    <3>4. a * b \in Nat /\ a * c \in Nat /\ c * c \in Nat /\ a * b >= a
      BY <2>2, <2>4
    <3> QED
      BY <2>3, <3>1, <3>2, <3>3, <3>4, Weights
  <2>7. Wrap(a * b) = a * b
    BY <2>6, WrapFits, Weights
  <2> QED
    BY <1>1, <2>5, <2>6, <2>7 DEF a
<1> QED
  BY <1>1, <1>2, <1>4, <1>5, <1>6, WidthAssumption
=============================================================================
