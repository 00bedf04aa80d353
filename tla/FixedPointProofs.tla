-------------------------- MODULE FixedPointProofs --------------------------
(***************************************************************************)
(* What the scalar operators of FixedPoint return, for every word size:    *)
(* truncated quotients are odd and lose magnitude, and the descent of      *)
(* isqrt64 ends at the floor of the root, so a direction survives.         *)
(***************************************************************************)
EXTENDS FixedPoint, NaturalLemmas

(* A truncated quotient is odd in the numerator and in the denominator. *)
LEMMA TruncatedIsOdd ==
  ASSUME NEW n \in Int, NEW d \in Int, d # 0
  PROVE  /\ Truncated(-n, d) = -Truncated(n, d)
         /\ Truncated(n, -d) = -Truncated(n, d)
<1>1. /\ SignOf(-n) = -SignOf(n) /\ AbsOf(-n) = AbsOf(n)
      /\ SignOf(-d) = -SignOf(d) /\ AbsOf(-d) = AbsOf(d)
  BY DEF SignOf, AbsOf
<1>2. AbsOf(n) \in Nat /\ AbsOf(d) \in Nat \ {0}
  BY DEF AbsOf
<1>3. AbsOf(n) \div AbsOf(d) \in Int
  BY <1>2
<1>4. SignOf(n) \in {-1, 0, 1} /\ SignOf(d) \in {-1, 1}
  BY DEF SignOf
<1> HIDE DEF SignOf, AbsOf
<1> QED
  BY <1>1, <1>3, <1>4 DEF Truncated

(* It never gains magnitude. *)
LEMMA TruncatedLosesMagnitude ==
  ASSUME NEW n \in Int, NEW d \in Nat \ {0}
  PROVE  Truncated(n, d) \in Int /\ AbsOf(Truncated(n, d)) * d <= AbsOf(n)
<1> DEFINE a == AbsOf(n)
           q == a \div d
<1>1. a \in Nat /\ AbsOf(d) = d /\ SignOf(d) = 1
  BY DEF AbsOf, SignOf
<1> HIDE DEF a
<1>2. q \in Nat /\ q * d <= a
  <2>1. a = d * q + (a % d) /\ a % d \in 0 .. d - 1 /\ q \in Int
    BY <1>1
  <2>2. q >= 0
    BY <1>1
  <2>3. d * q \in Int /\ d * q = q * d
    BY <2>1
  <2> QED
    BY <1>1, <2>1, <2>2, <2>3
<1>3. SignOf(n) \in {-1, 0, 1}
  BY DEF SignOf
<1>4. Truncated(n, d) = SignOf(n) * q
  BY <1>1, <1>2, <1>3 DEF Truncated, a
<1> HIDE DEF q
<1>5. /\ SignOf(n) * q \in Int
      /\ AbsOf(SignOf(n) * q) = q \/ AbsOf(SignOf(n) * q) = 0
  BY <1>2, <1>3 DEF AbsOf
<1>6. AbsOf(SignOf(n) * q) * d <= a
  BY <1>1, <1>2, <1>5
<1> QED
  BY <1>4, <1>5, <1>6 DEF a

-----------------------------------------------------------------------------

(* The powers of a base, as a recursive function defines them: there is    *)
(* such a function, and any such function has them.                        *)
IsPower(f, base) == f = [n \in Nat |-> IF n = 0 THEN 1 ELSE base * f[n - 1]]

LEMMA PowersExist ==
  ASSUME NEW base \in Nat
  PROVE  \E f : IsPower(f, base)
<1> DEFINE times == [n \in Nat |-> [power \in Nat |-> base * power]]
<1>1. PICK f : Iterates(f, Nat, 1, times)
  <2>1. times \in [Nat -> [Nat -> Nat]]
    OBVIOUS
  <2> HIDE DEF times
  <2> QED
    BY <2>1, Recursion
<1>2. f \in [Nat -> Nat] /\ f[0] = 1 /\ \A n \in Nat : f[n + 1] = base * f[n]
  BY <1>1 DEF Iterates
<1>3. ASSUME NEW n \in Nat PROVE f[n] = IF n = 0 THEN 1 ELSE base * f[n - 1]
  <2>1. CASE n = 0
    BY <1>2, <2>1
  <2>2. CASE n # 0
    <3>1. n - 1 \in Nat /\ (n - 1) + 1 = n
      BY <2>2
    <3> QED
      BY <1>2, <2>2, <3>1
  <2> QED
    BY <2>1, <2>2
<1> QED
  BY <1>2, <1>3 DEF IsPower

LEMMA PowersMultiply ==
  ASSUME NEW base \in Nat, NEW f, IsPower(f, base)
  PROVE  f \in [Nat -> Nat] /\ f[0] = 1 /\ \A n \in Nat : f[n + 1] = base * f[n]
<1>1. ASSUME NEW n \in Nat PROVE f[n] = IF n = 0 THEN 1 ELSE base * f[n - 1]
  BY DEF IsPower
<1>2. f[0] = 1 /\ \A n \in Nat : f[n + 1] = base * f[n]
  BY <1>1
<1> DEFINE S == {n \in Nat : f[n] \in Nat}
<1>3. 0 \in S /\ \A n \in Nat : n \in S => n + 1 \in S
  BY <1>2
<1>4. Nat \subseteq S
  <2> HIDE DEF S
  <2> QED
    BY <1>3, SetInduction
<1>5. f = [n \in Nat |-> f[n]]
  BY DEF IsPower
<1> QED
  BY <1>2, <1>4, <1>5

LEMMA PowersOfTwo ==
  /\ PowerOfTwo \in [Nat -> Nat]
  /\ PowerOfTwo[0] = 1
  /\ \A n \in Nat : PowerOfTwo[n + 1] = 2 * PowerOfTwo[n]
<1>1. \E f : IsPower(f, 2)
  BY PowersExist
<1>2. IsPower(PowerOfTwo, 2)
  BY <1>1 DEF PowerOfTwo, IsPower
<1> QED
  BY <1>2, PowersMultiply

(* A power of two exceeds its exponent, and doubling the exponent squares it. *)
LEMMA PowerGrows ==
  ASSUME NEW n \in Nat
  PROVE  n < PowerOfTwo[n]
<1> DEFINE S == {m \in Nat : m < PowerOfTwo[m]}
<1>1. 0 \in S /\ \A m \in Nat : m \in S => m + 1 \in S
  BY PowersOfTwo
<1> HIDE DEF S
<1>2. Nat \subseteq S
  BY <1>1, SetInduction
<1> QED
  BY <1>2 DEF S

LEMMA PowerOfDouble ==
  ASSUME NEW n \in Nat
  PROVE  PowerOfTwo[2 * n] = PowerOfTwo[n] * PowerOfTwo[n]
<1> DEFINE S == {m \in Nat : PowerOfTwo[2 * m] = PowerOfTwo[m] * PowerOfTwo[m]}
<1>1. 0 \in S
  BY PowersOfTwo
<1>2. ASSUME NEW m \in Nat, m \in S PROVE m + 1 \in S
  <2> DEFINE p == PowerOfTwo[m]
  <2>1. p \in Nat /\ PowerOfTwo[m + 1] = 2 * p /\ PowerOfTwo[2 * m] = p * p
    BY <1>2, PowersOfTwo
  <2>2. 2 * (m + 1) = ((2 * m) + 1) + 1 /\ 2 * m \in Nat /\ (2 * m) + 1 \in Nat
    OBVIOUS
  <2>3. PowerOfTwo[2 * (m + 1)] = 2 * (2 * PowerOfTwo[2 * m])
    BY <2>2, PowersOfTwo
  <2> HIDE DEF p
  <2>4. 2 * (2 * (p * p)) = (2 * p) * (2 * p)
    BY <2>1
  <2> QED
    BY <2>1, <2>3, <2>4
<1> HIDE DEF S
<1>3. Nat \subseteq S
  BY <1>1, <1>2, SetInduction
<1> QED
  BY <1>3 DEF S

(* A value has so many bits that the power of two of them exceeds it. *)
LEMMA BitsReach ==
  ASSUME NEW v \in Nat
  PROVE  Bits[v] \in Nat /\ v < PowerOfTwo[Bits[v]]
<1> DEFINE Equation(f) == f = [n \in Nat |-> IF n = 0 THEN 0 ELSE 1 + f[n \div 2]]
           Reaching(n) == {k \in Nat : n < PowerOfTwo[k]}
           least == [n \in Nat |-> CHOOSE k \in Reaching(n) : \A j \in Reaching(n) : k <= j]
<1>1. ASSUME NEW n \in Nat
      PROVE  least[n] \in Reaching(n) /\ \A j \in Reaching(n) : least[n] <= j
  <2>1. n \in Reaching(n) /\ Reaching(n) \in SUBSET Nat
    BY PowerGrows
  <2> HIDE DEF Reaching
  <2>2. \E k \in Reaching(n) : \A j \in Reaching(n) : k <= j
    BY <2>1, LeastElement
  <2> QED
    BY <2>2
<1> HIDE DEF least
<1>2. ASSUME NEW n \in Nat
      PROVE  least[n] = IF n = 0 THEN 0 ELSE 1 + least[n \div 2]
  <2>1. CASE n = 0
    <3>1. 0 \in Reaching(0)
      BY PowersOfTwo
    <3> QED
      BY <1>1, <2>1, <3>1
  <2>2. CASE n # 0
    <3> DEFINE half == n \div 2
               k == least[half]
    <3>1. half \in Nat /\ n \in {2 * half, (2 * half) + 1}
      OBVIOUS
    <3> HIDE DEF half
    <3>2. k \in Nat /\ half < PowerOfTwo[k]
      BY <1>1, <3>1
    <3>3. k + 1 \in Reaching(n)
      <4>1. PowerOfTwo[k + 1] = 2 * PowerOfTwo[k] /\ PowerOfTwo[k] \in Nat
        BY <3>2, PowersOfTwo
      <4> QED
        BY <3>1, <3>2, <4>1
    <3>4. ASSUME NEW j \in Reaching(n) PROVE k + 1 <= j
      <4>1. j \in Nat /\ n < PowerOfTwo[j]
        OBVIOUS
      <4>2. j # 0
        BY <2>2, <4>1, PowersOfTwo
      <4>3. j - 1 \in Nat /\ (j - 1) + 1 = j
        BY <4>1, <4>2
      <4>4. PowerOfTwo[j] = 2 * PowerOfTwo[j - 1] /\ PowerOfTwo[j - 1] \in Nat
        BY <4>3, PowersOfTwo
      <4>5. j - 1 \in Reaching(half)
        BY <3>1, <4>1, <4>3, <4>4
      <4>6. k <= j - 1
        BY <1>1, <3>1, <4>5
      <4> QED
        BY <3>2, <4>1, <4>6
    <3>5. least[n] <= k + 1 /\ k + 1 <= least[n] /\ least[n] \in Nat
      BY <1>1, <3>3, <3>4
    <3>6. least[n] = 1 + k
      BY <3>2, <3>5
    <3> QED
      BY <2>2, <3>6 DEF half
  <2> QED
    BY <2>1, <2>2
<1>3. least = [n \in Nat |-> least[n]]
  BY DEF least
<1>4. Equation(least)
  BY <1>2, <1>3
<1>5. Equation(Bits)
  BY <1>4 DEF Bits
<1>6. ASSUME NEW n \in Nat PROVE Bits[n] = IF n = 0 THEN 0 ELSE 1 + Bits[n \div 2]
  BY <1>5
<1> DEFINE S == {n \in Nat : Bits[n] \in Nat /\ n < PowerOfTwo[Bits[n]]}
<1>7. ASSUME NEW n \in Nat, \A m \in 0 .. n - 1 : m \in S PROVE n \in S
  <2>1. CASE n = 0
    BY <1>6, <2>1, PowersOfTwo
  <2>2. CASE n # 0
    <3> DEFINE half == n \div 2
               b == Bits[half]
    <3>1. half \in 0 .. n - 1 /\ n \in {2 * half, (2 * half) + 1}
      BY <2>2
    <3>2. Bits[n] = 1 + b
      BY <1>6, <2>2
    <3> HIDE DEF half
    <3>3. b \in Nat /\ half < PowerOfTwo[b]
      BY <1>7, <3>1
    <3>4. PowerOfTwo[b + 1] = 2 * PowerOfTwo[b] /\ PowerOfTwo[b] \in Nat /\ 1 + b = b + 1
      BY <3>3, PowersOfTwo
    <3> HIDE DEF b
    <3> QED
      BY <3>1, <3>2, <3>3, <3>4
  <2> QED
    BY <2>1, <2>2
<1> HIDE DEF S
<1>8. Nat \subseteq S
  BY <1>7, StrongSetInduction
<1> QED
  BY <1>8 DEF S

(* So the guess isqrt64 starts from is above the root. *)
LEMMA GuessAboveRoot ==
  ASSUME NEW v \in Nat, NEW root \in Nat, root * root <= v
  PROVE  RootGuess(v) \in Nat /\ root < RootGuess(v)
<1> DEFINE b == Bits[v]
           h == (b + 1) \div 2
           p == PowerOfTwo[h]
<1>1. b \in Nat /\ v < PowerOfTwo[b]
  BY BitsReach
<1> HIDE DEF b
<1>2. h \in Nat /\ (2 * h = b \/ 2 * h = b + 1)
  BY <1>1
<1>3. PowerOfTwo[b] \in Nat /\ PowerOfTwo[b + 1] = 2 * PowerOfTwo[b]
  BY <1>1, PowersOfTwo
<1>4. v < PowerOfTwo[2 * h]
  BY <1>1, <1>2, <1>3
<1>5. p \in Nat /\ PowerOfTwo[2 * h] = p * p
  BY <1>2, PowersOfTwo, PowerOfDouble
<1>6. RootGuess(v) = p
  BY DEF RootGuess, b
<1> HIDE DEF p, h
<1>7. root * root < p * p
  BY <1>4, <1>5
<1>8. root < p
  <2> SUFFICES ASSUME p <= root PROVE FALSE
    BY <1>5
  <2>1. p * p <= root * root
    BY <1>5
  <2> QED
    BY <1>5, <1>7, <2>1
<1> QED
  BY <1>5, <1>6, <1>8

-----------------------------------------------------------------------------

IsFloorRoot(root, v) == root * root <= v /\ v < (root + 1) * (root + 1)

LEMMA FloorRootExists ==
  ASSUME NEW v \in Nat
  PROVE  \E root \in Nat : IsFloorRoot(root, v)
<1> DEFINE S == {n \in Nat : \E root \in Nat : IsFloorRoot(root, n)}
<1>1. 0 \in S
  <2>1. IsFloorRoot(0, 0)
    BY DEF IsFloorRoot
  <2> QED
    BY <2>1
<1>2. ASSUME NEW n \in Nat, n \in S PROVE n + 1 \in S
  <2>1. PICK root \in Nat : IsFloorRoot(root, n)
    BY <1>2
  <2>2. CASE n + 1 < (root + 1) * (root + 1)
    <3>1. IsFloorRoot(root, n + 1)
      BY <2>1, <2>2 DEF IsFloorRoot
    <3> QED
      BY <3>1
  <2>3. CASE n + 1 >= (root + 1) * (root + 1)
    <3>1. (root + 2) * (root + 2) = ((root + 1) * (root + 1)) + (2 * root) + 3
      OBVIOUS
    <3>2. IsFloorRoot(root + 1, n + 1)
      BY <2>1, <2>3, <3>1 DEF IsFloorRoot
    <3> QED
      BY <3>2
  <2> QED
    BY <2>1, <2>2, <2>3
<1> HIDE DEF S
<1>3. Nat \subseteq S
  BY <1>1, <1>2, SetInduction
<1> QED
  BY <1>3 DEF S

(* One step of the descent never falls below the root, and stops falling   *)
(* only at it.                                                             *)
LEMMA NewtonStep ==
  ASSUME NEW v \in Nat \ {0}, NEW root \in Nat \ {0}, IsFloorRoot(root, v),
         NEW guess \in Nat \ {0}
  PROVE  LET next == (guess + v \div guess) \div 2
         IN  /\ next \in Nat \ {0}
             /\ root <= next
             /\ next >= guess <=> guess <= root
<1> DEFINE q == v \div guess
           r == v % guess
           next == (guess + q) \div 2
<1>1. /\ v = (guess * q) + r /\ r \in 0 .. guess - 1 /\ q \in Nat
      /\ guess * q \in Nat
  <2>1. v = (guess * q) + r /\ r \in 0 .. guess - 1 /\ q \in Int
    OBVIOUS
  <2>2. q >= 0
    OBVIOUS
  <2> QED
    BY <2>1, <2>2
<1> HIDE DEF q, r
<1>2. next \in Nat /\ guess + q \in {2 * next, (2 * next) + 1}
  BY <1>1
<1> HIDE DEF next
<1>3. /\ root * root \in Nat /\ (root + 1) * (root + 1) \in Nat
      /\ root * root <= v /\ v < (root + 1) * (root + 1)
  BY DEF IsFloorRoot
<1>4. root <= next
  <2> SUFFICES ASSUME next < root PROVE FALSE
    BY <1>2
  <2> DEFINE sum == guess + (q + 1)
             gap == guess - (q + 1)
  <2>1. sum \in Nat /\ gap \in Int /\ sum <= 2 * root
    BY <1>1, <1>2
  <2>2. sum * sum = (4 * (guess * (q + 1))) + (gap * gap) /\ gap * gap >= 0
    BY <1>1
  <2>3. guess * (q + 1) = (guess * q) + guess
    BY <1>1
  <2>4. v < guess * (q + 1)
    BY <1>1, <2>3
  <2> HIDE DEF sum, gap
  <2>5. sum * sum <= (2 * root) * (2 * root) /\ (2 * root) * (2 * root) = 4 * (root * root)
    BY <2>1
  <2>6. guess * (q + 1) \in Nat /\ sum * sum \in Nat /\ gap * gap \in Int
    BY <1>1, <2>1
  <2> HIDE DEF next
  <2> QED
    BY <1>3, <2>2, <2>4, <2>5, <2>6
<1>5. ASSUME next >= guess PROVE guess <= root
  <2>1. q >= guess
    BY <1>1, <1>2, <1>5
  <2>2. guess * guess <= guess * q
    BY <1>1, <2>1
  <2>3. guess * guess < (root + 1) * (root + 1)
    BY <1>1, <1>3, <2>2
  <2> SUFFICES ASSUME guess >= root + 1 PROVE FALSE
    OBVIOUS
  <2>4. guess * guess >= (root + 1) * (root + 1)
    OBVIOUS
  <2> QED
    BY <2>3, <2>4
<1>6. ASSUME guess <= root PROVE next >= guess
  <2> SUFFICES ASSUME q < guess PROVE FALSE
    BY <1>1, <1>2
  <2>1. guess * (q + 1) <= guess * guess /\ guess * (q + 1) = (guess * q) + guess
    BY <1>1
  <2>2. v < guess * guess
    BY <1>1, <2>1
  <2>3. guess * guess <= root * root
    BY <1>6
  <2> QED
    BY <1>3, <2>2, <2>3
<1> QED
  BY <1>2, <1>4, <1>5, <1>6 DEF next, q

(* From a guess no smaller than the root the descent ends at the root. *)
LEMMA DescentEndsAtRoot ==
  ASSUME NEW v \in Nat \ {0}, NEW root \in Nat \ {0}, IsFloorRoot(root, v),
         NEW guess \in Nat \ {0}, root <= guess
  PROVE  Descent(v)[guess] = root
<1> DEFINE Step(g) == (g + v \div g) \div 2
           Equation(f) == f = [g \in Nat \ {0} |-> IF Step(g) >= g THEN g ELSE f[Step(g)]]
           ending == [g \in Nat \ {0} |-> IF g <= root THEN g ELSE root]
           below == CHOOSE f : Equation(f)
<1>1. \A g \in Nat \ {0} : Step(g) \in Nat \ {0} /\ root <= Step(g) /\ (Step(g) >= g <=> g <= root)
  BY NewtonStep
<1>2. Descent(v) = below
  BY DEF Descent
<1> HIDE DEF Step
<1>3. Equation(ending)
  <2>1. ASSUME NEW g \in Nat \ {0}
        PROVE  ending[g] = IF Step(g) >= g THEN g ELSE ending[Step(g)]
    <3>1. CASE g <= root
      BY <1>1, <3>1
    <3>2. CASE ~(g <= root)
      <4>1. ending[g] = root /\ ~(Step(g) >= g) /\ Step(g) \in Nat \ {0} /\ root <= Step(g)
        BY <1>1, <3>2
      <4>2. ending[Step(g)] = root
        BY <4>1
      <4> QED
        BY <4>1, <4>2
    <3> QED
      BY <3>1, <3>2
  <2> QED
    BY <2>1
<1>4. Equation(below)
  <2> HIDE DEF ending
  <2> QED
    BY <1>3
<1> HIDE DEF below
<1>5. \A g \in Nat \ {0} : below[g] = IF Step(g) >= g THEN g ELSE below[Step(g)]
  BY <1>4
<1> DEFINE S == {n \in Nat : n \in Nat \ {0} /\ root <= n => below[n] = root}
<1>6. ASSUME NEW n \in Nat, \A m \in 0 .. n - 1 : m \in S PROVE n \in S
  <2> SUFFICES ASSUME n \in Nat \ {0}, root <= n PROVE below[n] = root
    OBVIOUS
  <2>1. CASE n <= root
    <3>1. n = root
      BY <2>1
    <3> QED
      BY <1>1, <1>5, <3>1
  <2>2. CASE ~(n <= root)
    <3>1. Step(n) \in Nat \ {0} /\ root <= Step(n) /\ ~(Step(n) >= n)
      BY <1>1, <2>2
    <3>2. Step(n) \in 0 .. n - 1
      BY <3>1
    <3>3. below[Step(n)] = root
      BY <1>6, <3>1, <3>2
    <3> QED
      BY <1>5, <3>1, <3>3
  <2> QED
    BY <2>1, <2>2
<1> HIDE DEF S
<1>7. Nat \subseteq S
  BY <1>6, StrongSetInduction
<1> QED
  BY <1>2, <1>7 DEF S

(* isqrt64 is the floor of the square root. *)
LEMMA FloorOfRoot ==
  ASSUME NEW v \in Nat
  PROVE  Isqrt(v) \in Nat /\ IsFloorRoot(Isqrt(v), v)
<1>1. CASE v < 2
  BY <1>1 DEF Isqrt, IsFloorRoot
<1>2. CASE ~(v < 2)
  <2>1. PICK root \in Nat : IsFloorRoot(root, v)
    BY FloorRootExists
  <2>2. root # 0 /\ v \in Nat \ {0}
    BY <1>2, <2>1 DEF IsFloorRoot
  <2>3. RootGuess(v) \in Nat \ {0} /\ root <= RootGuess(v)
    BY <2>1, GuessAboveRoot DEF IsFloorRoot
  <2>4. Descent(v)[RootGuess(v)] = root
    BY <2>1, <2>2, <2>3, DescentEndsAtRoot
  <2> QED
    BY <1>2, <2>1, <2>4 DEF Isqrt
<1> QED
  BY <1>1, <1>2

-----------------------------------------------------------------------------

(* A vector of integers, whatever their size. *)
IsVector(v) == v = Vec(v.x, v.y, v.z) /\ v.x \in Int /\ v.y \in Int /\ v.z \in Int

(* The length is the floor of the root of the raw square, and only the     *)
(* zero vector has none.                                                   *)
LEMMA LengthIsFloor ==
  ASSUME NEW v, IsVector(v)
  PROVE  /\ RawDot(v, v) \in Nat /\ Length(v) \in Nat
         /\ IsFloorRoot(Length(v), RawDot(v, v))
         /\ Length(v) = 0 <=> (v.x = 0 /\ v.y = 0 /\ v.z = 0)
<1> DEFINE x == v.x
           y == v.y
           z == v.z
           sum == (x * x) + (y * y) + (z * z)
<1>1. x \in Int /\ y \in Int /\ z \in Int
  BY DEF IsVector
<1>2. RawDot(v, v) = sum
  BY DEF RawDot
<1> HIDE DEF x, y, z
<1>3. /\ x * x \in Nat /\ y * y \in Nat /\ z * z \in Nat
      /\ x * x = 0 <=> x = 0
      /\ y * y = 0 <=> y = 0
      /\ z * z = 0 <=> z = 0
  BY <1>1
<1>4. sum \in Nat /\ (sum = 0 <=> (x = 0 /\ y = 0 /\ z = 0))
  BY <1>3
<1> HIDE DEF sum
<1>5. Length(v) = Isqrt(sum)
  BY <1>2 DEF Length
<1>6. Isqrt(sum) \in Nat /\ IsFloorRoot(Isqrt(sum), sum)
  BY <1>4, FloorOfRoot
<1>7. Isqrt(sum) = 0 <=> sum = 0
  <2> DEFINE root == Isqrt(sum)
  <2>1. root \in Nat /\ root * root <= sum /\ sum < (root + 1) * (root + 1)
    BY <1>6 DEF IsFloorRoot
  <2> HIDE DEF root
  <2>2. root = 0 => sum < 1
    BY <2>1
  <2>3. sum = 0 => root = 0
    <3> SUFFICES ASSUME root >= 1, sum = 0 PROVE FALSE
      BY <2>1
    <3>1. root * root >= 1
      BY <2>1
    <3> QED
      BY <2>1, <3>1
  <2> QED
    BY <1>4, <2>2, <2>3 DEF root
<1> QED
  BY <1>2, <1>4, <1>5, <1>6, <1>7 DEF x, y, z

(* A truncated quotient is zero only below the denominator, and has the    *)
(* sign of the numerator.                                                  *)
LEMMA TruncatedKeepsSign ==
  ASSUME NEW n \in Int, NEW d \in Nat \ {0}
  PROVE  /\ Truncated(n, d) \in Int
         /\ Truncated(n, d) = 0 <=> AbsOf(n) < d
         /\ n >= 0 => Truncated(n, d) >= 0
         /\ n <= 0 => Truncated(n, d) <= 0
<1> DEFINE a == AbsOf(n)
           q == a \div d
<1>1. a \in Nat /\ AbsOf(d) = d /\ SignOf(d) = 1
  BY DEF AbsOf, SignOf
<1> HIDE DEF a
<1>2. a = (d * q) + (a % d) /\ a % d \in 0 .. d - 1 /\ q \in Int
  BY <1>1
<1>3. q \in Nat
  BY <1>1
<1>4. q = 0 <=> a < d
  <2>1. ASSUME q = 0 PROVE a < d
    <3>1. d * q = 0
      BY <2>1
    <3> QED
      BY <1>1, <1>2, <3>1
  <2>2. ASSUME q # 0 PROVE ~(a < d)
    <3> HIDE DEF q
    <3>1. d * q >= d
      BY <1>3, <2>2
    <3> QED
      BY <1>1, <1>2, <1>3, <3>1
  <2> QED
    BY <2>1, <2>2
<1>5. Truncated(n, d) = SignOf(n) * 1 * q
  BY <1>1 DEF Truncated, a
<1> HIDE DEF q
<1> USE DEF a
<1>6. /\ n > 0 => SignOf(n) * 1 * q = q
      /\ n < 0 => SignOf(n) * 1 * q = -q
      /\ n = 0 => SignOf(n) * 1 * q = 0 /\ a = 0
  BY <1>3 DEF SignOf, AbsOf
<1> HIDE DEF a
<1> QED
  BY <1>1, <1>3, <1>4, <1>5, <1>6 DEF a

(* One coordinate of a unit vector keeps the sign of the vector's. *)
LEMMA CoordinateKeepsSign ==
  ASSUME NEW c \in Int, NEW length \in Nat \ {0}
  PROVE  /\ QDiv(c, length) \in Int
         /\ QDiv(c, length) * c >= 0
         /\ QDiv(c, length) = 0 <=> AbsOf(c) * One < length
<1>1. One \in Nat \ {0, 1}
  BY FixedAssumption
<1>2. c * One \in Int /\ AbsOf(c * One) = AbsOf(c) * One
      /\ (c >= 0 => c * One >= 0) /\ (c <= 0 => c * One <= 0)
  BY <1>1 DEF AbsOf
<1> DEFINE q == QDiv(c, length)
<1>3. /\ q \in Int
      /\ q = 0 <=> AbsOf(c * One) < length
      /\ c * One >= 0 => q >= 0
      /\ c * One <= 0 => q <= 0
  BY <1>2, TruncatedKeepsSign DEF QDiv
<1> HIDE DEF q
<1>4. q * c >= 0
  BY <1>2, <1>3
<1> QED
  BY <1>2, <1>3, <1>4 DEF q

(* A vector so short in every coordinate that all of them truncate to zero *)
(* would be shorter than its length.                                       *)
LEMMA SomeCoordinateSurvives ==
  ASSUME NEW v, IsVector(v), NEW length \in Nat \ {0}, length * length <= RawDot(v, v),
         AbsOf(v.x) * One < length, AbsOf(v.y) * One < length, AbsOf(v.z) * One < length
  PROVE  FALSE
<1> DEFINE x == AbsOf(v.x)
           y == AbsOf(v.y)
           z == AbsOf(v.z)
<1>1. /\ x \in Nat /\ y \in Nat /\ z \in Nat
      /\ RawDot(v, v) = (x * x) + (y * y) + (z * z)
  <2>1. /\ v.x * v.x = x * x /\ v.y * v.y = y * y /\ v.z * v.z = z * z
        /\ x \in Nat /\ y \in Nat /\ z \in Nat
    BY DEF IsVector, AbsOf
  <2> QED
    BY <2>1 DEF RawDot
<1>2. One \in Nat /\ One >= 2
  BY FixedAssumption
<1> HIDE DEF x, y, z
<1>3. 2 * x < length /\ 2 * y < length /\ 2 * z < length
  <2>1. 2 * x <= x * One /\ 2 * y <= y * One /\ 2 * z <= z * One
        /\ x * One \in Nat /\ y * One \in Nat /\ z * One \in Nat
    BY <1>1, <1>2
  <2> QED
    BY <2>1, <1>1 DEF x, y, z
<1>4. ASSUME NEW c \in Nat, 2 * c < length PROVE 4 * (c * c) < length * length
  <2>1. (2 * c) * (2 * c) < length * length
    BY <1>4
  <2> QED
    BY <2>1
<1>5. /\ 4 * (x * x) < length * length /\ 4 * (y * y) < length * length
      /\ 4 * (z * z) < length * length
      /\ x * x \in Nat /\ y * y \in Nat /\ z * z \in Nat /\ length * length \in Nat
  BY <1>1, <1>3, <1>4
<1> QED
  BY <1>1, <1>5

-----------------------------------------------------------------------------

(* Words are their own low words. *)
LEMMA WordsDoNotWrap ==
  ASSUME NEW a \in Word
  PROVE  Wrap(a) = a
<1> DEFINE modulus == 2 * WordLimit
           r == a + WordLimit
<1>1. WordLimit \in Nat \ {0} /\ a \in Int /\ modulus \in Nat \ {0} /\ r \in 0 .. modulus - 1
  BY FixedAssumption DEF Word
<1> HIDE DEF modulus, r
<1>2. ((modulus * 0) + r) % modulus = r
  BY <1>1, QuotientOf
<1>3. (modulus * 0) + r = r
  BY <1>1
<1>4. r % modulus = r
  BY <1>2, <1>3
<1> QED
  BY <1>1, <1>4 DEF Wrap, modulus, r

(* A product with one is exact, and with minus one the opposite. *)
LEMMA ProductWithOne ==
  ASSUME NEW a \in Int
  PROVE  QMul(a, One) = a /\ QMul(a, -One) = -a
<1>1. One \in Nat \ {0}
  BY FixedAssumption
<1> DEFINE m == AbsOf(a)
<1>2. m \in Nat /\ AbsOf(a * One) = m * One /\ SignOf(a * One) = SignOf(a)
      /\ AbsOf(One) = One /\ SignOf(One) = 1 /\ a * One \in Int
      /\ a * (-One) = -(a * One)
  BY <1>1 DEF AbsOf, SignOf
<1>3. (m * One) \div One = m
  <2> HIDE DEF m
  <2>1. 0 \in 0 .. One - 1 /\ m \in Int
    BY <1>1, <1>2
  <2>2. ((One * m) + 0) \div One = m
    BY <1>1, <2>1, QuotientOf
  <2>3. (One * m) + 0 = m * One
    BY <1>1, <1>2
  <2> QED
    BY <2>2, <2>3
<1>4. SignOf(a) * 1 * m = a
  BY DEF SignOf, AbsOf
<1>5. Truncated(a * One, One) = a
  <2> HIDE DEF m
  <2> QED
    BY <1>2, <1>3, <1>4 DEF Truncated
<1>6. Truncated(-(a * One), One) = -a
  BY <1>1, <1>2, <1>5, TruncatedIsOdd
<1> QED
  BY <1>2, <1>5, <1>6 DEF QMul

(* So the half turn of team one changes two signs and nothing else. *)
LEMMA TurnedChangesSigns ==
  ASSUME NEW v, IsVector(v)
  PROVE  Turned(v) = Vec(-v.x, -v.y, v.z) /\ IsVector(Turned(v))
<1>1. QMul(v.x, -One) = -v.x /\ QMul(v.y, -One) = -v.y
  BY ProductWithOne DEF IsVector
<1>2. Turned(v) = Vec(-v.x, -v.y, v.z)
  BY <1>1 DEF Turned
<1> QED
  BY <1>2 DEF IsVector, Vec

LEMMA TurnedTwice ==
  ASSUME NEW v, IsVector(v)
  PROVE  Turned(Turned(v)) = v
<1>1. Turned(v) = Vec(-v.x, -v.y, v.z) /\ IsVector(Turned(v))
  BY TurnedChangesSigns
<1>2. Turned(Turned(v)) = Vec(-(-v.x), -(-v.y), v.z)
  BY <1>1, TurnedChangesSigns DEF Vec
<1>3. -(-v.x) = v.x /\ -(-v.y) = v.y
  BY DEF IsVector
<1> QED
  BY <1>2, <1>3 DEF IsVector

LEMMA DirectionsTurn ==
  ASSUME NEW v, IsVector(v)
  PROVE  Turned(Normalized(v)) = Normalized(Turned(v))
<1> DEFINE a == v.x
           b == v.y
           c == v.z
           length == Length(v)
<1>1. v = Vec(a, b, c) /\ a \in Int /\ b \in Int /\ c \in Int
  BY DEF IsVector
<1>2. Turned(v) = Vec(-a, -b, c)
  BY TurnedChangesSigns
<1>3. length \in Nat
  BY LengthIsFloor
<1>4. Length(Turned(v)) = length
  <2>1. RawDot(v, v) = (a * a) + (b * b) + (c * c)
    BY DEF RawDot
  <2>2. RawDot(Turned(v), Turned(v)) = ((-a) * (-a)) + ((-b) * (-b)) + (c * c)
    BY <1>2 DEF RawDot, Vec
  <2>3. RawDot(Turned(v), Turned(v)) = RawDot(v, v)
    <3> HIDE DEF a, b, c
    <3> QED
      BY <1>1, <2>1, <2>2
  <2> QED
    BY <2>3 DEF Length
<1>5. /\ Normalized(v) = IF length = 0 THEN Zero
                         ELSE Vec(QDiv(a, length), QDiv(b, length), QDiv(c, length))
      /\ Normalized(Turned(v)) = IF length = 0 THEN Zero
                         ELSE Vec(QDiv(-a, length), QDiv(-b, length), QDiv(c, length))
  BY <1>2, <1>4 DEF Normalized, Vec
<1> HIDE DEF a, b, c, length
<1>6. CASE length = 0
  <2>1. IsVector(Zero)
    BY DEF IsVector, Zero, Vec
  <2>2. Turned(Zero) = Zero
    BY <2>1, TurnedChangesSigns DEF Zero, Vec
  <2> QED
    BY <1>5, <1>6, <2>2
<1>7. CASE length # 0
  <2>1. One \in Nat \ {0} /\ length \in Nat \ {0}
    BY <1>3, <1>7, FixedAssumption
  <2>2. ASSUME NEW e \in Int PROVE QDiv(e, length) \in Int /\ QDiv(-e, length) = -QDiv(e, length)
    <3>1. e * One \in Int /\ (-e) * One = -(e * One)
      BY <2>1
    <3> QED
      BY <2>1, <3>1, TruncatedIsOdd, TruncatedLosesMagnitude DEF QDiv
  <2> DEFINE p == QDiv(a, length)
             q == QDiv(b, length)
             r == QDiv(c, length)
  <2>3. p \in Int /\ q \in Int /\ r \in Int /\ QDiv(-a, length) = -p /\ QDiv(-b, length) = -q
    BY <1>1, <2>2
  <2>4. Normalized(v) = Vec(p, q, r) /\ Normalized(Turned(v)) = Vec(-p, -q, r)
    BY <1>5, <1>7, <2>3
  <2> HIDE DEF p, q, r
  <2>5. IsVector(Vec(p, q, r))
    BY <2>3 DEF IsVector, Vec
  <2>6. Turned(Vec(p, q, r)) = Vec(-p, -q, r)
    BY <2>5, TurnedChangesSigns DEF Vec
  <2> QED
    BY <2>4, <2>6
<1> QED
  BY <1>6, <1>7

LEMMA LengthsTurn ==
  ASSUME NEW v, IsVector(v)
  PROVE  RawDot(Turned(v), Turned(v)) = RawDot(v, v) /\ Length(Turned(v)) = Length(v)
<1> DEFINE a == v.x
           b == v.y
           c == v.z
<1>1. RawDot(v, v) = (a * a) + (b * b) + (c * c)
  BY DEF RawDot
<1>2. RawDot(Turned(v), Turned(v)) = ((-a) * (-a)) + ((-b) * (-b)) + (c * c)
  BY TurnedChangesSigns DEF RawDot, Vec
<1>3. a \in Int /\ b \in Int /\ c \in Int
  BY DEF IsVector
<1> HIDE DEF a, b, c
<1>4. RawDot(Turned(v), Turned(v)) = RawDot(v, v)
  BY <1>1, <1>2, <1>3
<1> QED
  BY <1>4 DEF Length

-----------------------------------------------------------------------------

(* Vectors within a cube about the origin, of which sums stay exact while  *)
(* cubes add up to less than the word.                                     *)
InCube(v, r) ==
  v = Vec(v.x, v.y, v.z) /\ v.x \in -r .. r /\ v.y \in -r .. r /\ v.z \in -r .. r

LEMMA CubesHoldVectors ==
  ASSUME NEW r \in Nat, NEW v, InCube(v, r)
  PROVE  /\ IsVector(v)
         /\ InCube(Turned(v), r)
         /\ \A s \in Nat : r <= s => InCube(v, s)
         /\ r < WordLimit => v \in Vector
<1>1. IsVector(v)
  BY DEF InCube, IsVector
<1>2. Turned(v) = Vec(-v.x, -v.y, v.z)
  BY <1>1, TurnedChangesSigns
<1>3. InCube(Turned(v), r)
  BY <1>2 DEF InCube, Vec
<1>4. \A s \in Nat : r <= s => InCube(v, s)
  BY DEF InCube
<1>5. ASSUME r < WordLimit PROVE v \in Vector
  <2>1. WordLimit \in Nat
    BY FixedAssumption
  <2>2. v.x \in Word /\ v.y \in Word /\ v.z \in Word
    BY <1>5, <2>1 DEF InCube, Word
  <2> QED
    BY <2>2 DEF InCube, Vec, Vector
<1> QED
  BY <1>1, <1>3, <1>4, <1>5

LEMMA SumsAreExact ==
  ASSUME NEW r \in Nat, NEW s \in Nat, r + s < WordLimit,
         NEW v, InCube(v, r), NEW w, InCube(w, s)
  PROVE  /\ Plus(v, w) = Vec(v.x + w.x, v.y + w.y, v.z + w.z)
         /\ Minus(v, w) = Vec(v.x - w.x, v.y - w.y, v.z - w.z)
         /\ InCube(Plus(v, w), r + s)
         /\ InCube(Minus(v, w), r + s)
<1>1. WordLimit \in Nat
  BY FixedAssumption
<1>2. ASSUME NEW a \in -r .. r, NEW b \in -s .. s
      PROVE  /\ a + b \in -(r + s) .. r + s /\ a - b \in -(r + s) .. r + s
             /\ Wrap(a + b) = a + b /\ Wrap(a - b) = a - b
  <2>1. a + b \in Word /\ a - b \in Word
    BY <1>1 DEF Word
  <2> QED
    BY <2>1, WordsDoNotWrap
<1>3. /\ Plus(v, w) = Vec(v.x + w.x, v.y + w.y, v.z + w.z)
      /\ Minus(v, w) = Vec(v.x - w.x, v.y - w.y, v.z - w.z)
  BY <1>2 DEF InCube, Plus, Minus
<1>4. InCube(Plus(v, w), r + s)
  BY <1>2, <1>3 DEF InCube, Vec
<1>5. InCube(Minus(v, w), r + s)
  BY <1>2, <1>3 DEF InCube, Vec
<1> QED
  BY <1>3, <1>4, <1>5

LEMMA SumsTurnInCubes ==
  ASSUME NEW r \in Nat, NEW s \in Nat, r + s < WordLimit,
         NEW v, InCube(v, r), NEW w, InCube(w, s)
  PROVE  /\ Plus(Turned(v), Turned(w)) = Turned(Plus(v, w))
         /\ Minus(Turned(v), Turned(w)) = Turned(Minus(v, w))
<1>1. InCube(Turned(v), r) /\ InCube(Turned(w), s) /\ IsVector(v) /\ IsVector(w)
  BY CubesHoldVectors
<1>2. /\ Plus(v, w) = Vec(v.x + w.x, v.y + w.y, v.z + w.z)
      /\ Minus(v, w) = Vec(v.x - w.x, v.y - w.y, v.z - w.z)
      /\ IsVector(Plus(v, w)) /\ IsVector(Minus(v, w))
  BY SumsAreExact, CubesHoldVectors
<1>3. /\ Turned(v) = Vec(-v.x, -v.y, v.z) /\ Turned(w) = Vec(-w.x, -w.y, w.z)
      /\ Turned(Plus(v, w)) = Vec(-(v.x + w.x), -(v.y + w.y), v.z + w.z)
      /\ Turned(Minus(v, w)) = Vec(-(v.x - w.x), -(v.y - w.y), v.z - w.z)
  BY <1>1, <1>2, TurnedChangesSigns DEF Vec
<1>4. /\ Plus(Turned(v), Turned(w)) = Vec(-v.x + -w.x, -v.y + -w.y, v.z + w.z)
      /\ Minus(Turned(v), Turned(w)) = Vec(-v.x - (-w.x), -v.y - (-w.y), v.z - w.z)
  BY <1>1, <1>3, SumsAreExact DEF Vec
<1>5. /\ -v.x + -w.x = -(v.x + w.x) /\ -v.y + -w.y = -(v.y + w.y)
      /\ -v.x - (-w.x) = -(v.x - w.x) /\ -v.y - (-w.y) = -(v.y - w.y)
  BY <1>1 DEF IsVector
<1> QED
  BY <1>3, <1>4, <1>5

(* A product with a coordinate of a unit vector is no larger than the      *)
(* other factor, and turns with either.                                    *)
LEMMA ProductIsOdd ==
  ASSUME NEW a \in Int, NEW factor \in Int
  PROVE  /\ QMul(a, factor) \in Int
         /\ QMul(-a, factor) = -QMul(a, factor)
         /\ QMul(a, -factor) = -QMul(a, factor)
<1>1. One \in Nat \ {0}
  BY FixedAssumption
<1>2. a * factor \in Int /\ (-a) * factor = -(a * factor) /\ a * (-factor) = -(a * factor)
  OBVIOUS
<1> QED
  BY <1>1, <1>2, TruncatedIsOdd, TruncatedLosesMagnitude DEF QMul

LEMMA UnitProduct ==
  ASSUME NEW a \in -One .. One, NEW factor \in Int
  PROVE  QMul(a, factor) \in -AbsOf(factor) .. AbsOf(factor)
<1>1. One \in Nat \ {0} /\ a \in Int
  BY FixedAssumption
<1> DEFINE m == AbsOf(factor)
           p == a * factor
           t == Truncated(p, One)
<1>2. m \in Nat /\ p \in Int
  BY <1>1 DEF AbsOf
<1>3. AbsOf(p) <= m * One
  <2>1. AbsOf(p) = AbsOf(a) * m
    BY <1>1 DEF AbsOf
  <2>2. AbsOf(a) \in 0 .. One
    BY <1>1 DEF AbsOf
  <2> HIDE DEF m, p
  <2> DEFINE q == AbsOf(a)
  <2>3. q * m <= m * One
    <3> HIDE DEF q
    <3> QED
      BY <1>1, <1>2, <2>2 DEF q
  <2> QED
    BY <2>1, <2>3
<1> HIDE DEF p
<1>4. t \in Int /\ AbsOf(t) * One <= AbsOf(p) /\ AbsOf(p) \in Nat
  BY <1>1, <1>2, TruncatedLosesMagnitude DEF AbsOf
<1> HIDE DEF m, t
<1>5. AbsOf(t) <= m
  <2> DEFINE k == AbsOf(t)
  <2>1. k \in Nat /\ k * One <= m * One
    BY <1>1, <1>2, <1>3, <1>4 DEF AbsOf
  <2> HIDE DEF k
  <2>2. k <= m
    BY <1>1, <1>2, <2>1
  <2> QED
    BY <2>2 DEF k
<1>6. t \in -m .. m
  BY <1>2, <1>4, <1>5 DEF AbsOf
<1> QED
  BY <1>6 DEF QMul, t, m, p

LEMMA ScaledUnits ==
  ASSUME NEW v, InCube(v, One), NEW factor \in Int
  PROVE  /\ InCube(Scaled(v, factor), AbsOf(factor))
         /\ Scaled(Turned(v), factor) = Turned(Scaled(v, factor))
<1>1. One \in Nat /\ AbsOf(factor) \in Nat
  BY FixedAssumption DEF AbsOf
<1>2. IsVector(v) /\ v.x \in -One .. One /\ v.y \in -One .. One /\ v.z \in -One .. One
  BY <1>1, CubesHoldVectors DEF InCube
<1>3. InCube(Scaled(v, factor), AbsOf(factor))
  BY <1>2, UnitProduct DEF InCube, Scaled, Vec
<1>4. IsVector(Scaled(v, factor))
  BY <1>1, <1>3, CubesHoldVectors
<1>5. Turned(Scaled(v, factor)) = Vec(-QMul(v.x, factor), -QMul(v.y, factor), QMul(v.z, factor))
  BY <1>4, TurnedChangesSigns DEF Scaled, Vec
<1>6. Turned(v) = Vec(-v.x, -v.y, v.z)
  BY <1>2, TurnedChangesSigns
<1>7. Scaled(Turned(v), factor) = Vec(QMul(-v.x, factor), QMul(-v.y, factor), QMul(v.z, factor))
  BY <1>6 DEF Scaled, Vec
<1>8. QMul(-v.x, factor) = -QMul(v.x, factor) /\ QMul(-v.y, factor) = -QMul(v.y, factor)
  BY <1>2, ProductIsOdd DEF IsVector
<1> QED
  BY <1>3, <1>5, <1>7, <1>8

(* No coordinate is longer than its vector, and no vector longer than its  *)
(* coordinates together.                                                   *)
LEMMA LengthsBound ==
  ASSUME NEW v, IsVector(v)
  PROVE  /\ Length(v) \in Nat
         /\ AbsOf(v.x) <= Length(v) /\ AbsOf(v.y) <= Length(v) /\ AbsOf(v.z) <= Length(v)
         /\ Length(v) <= AbsOf(v.x) + AbsOf(v.y) + AbsOf(v.z)
<1> DEFINE a == AbsOf(v.x)
           b == AbsOf(v.y)
           c == AbsOf(v.z)
           d == RawDot(v, v)
           length == Length(v)
<1>1. /\ a \in Nat /\ b \in Nat /\ c \in Nat
      /\ d = (a * a) + (b * b) + (c * c)
  <2>1. /\ a \in Nat /\ b \in Nat /\ c \in Nat
        /\ a * a = v.x * v.x /\ b * b = v.y * v.y /\ c * c = v.z * v.z
    BY DEF IsVector, AbsOf
  <2> HIDE DEF a, b, c
  <2> QED
    BY <2>1 DEF RawDot
<1>2. d \in Nat /\ length \in Nat /\ length * length <= d /\ d < (length + 1) * (length + 1)
  BY LengthIsFloor DEF IsFloorRoot
<1> HIDE DEF a, b, c, d, length
<1>3. a * a \in Nat /\ b * b \in Nat /\ c * c \in Nat
  BY <1>1
<1>4. ASSUME NEW e \in Nat, e * e <= d PROVE e <= length
  <2> SUFFICES ASSUME e >= length + 1 PROVE FALSE
    BY <1>2
  <2>1. e * e >= (length + 1) * (length + 1)
    BY <1>2
  <2> QED
    BY <1>2, <1>4, <2>1
<1>5. a <= length /\ b <= length /\ c <= length
  BY <1>1, <1>3, <1>4
<1>6. length <= a + b + c
  <2> DEFINE e == a + b + c
  <2>1. e \in Nat /\ e * e >= (a * a) + (b * b) + (c * c)
    <3>1. e * e = (a * a) + (b * b) + (c * c) + 2 * (a * b) + 2 * (b * c) + 2 * (a * c)
      BY <1>1
    <3>2. a * b \in Nat /\ b * c \in Nat /\ a * c \in Nat
      BY <1>1
    <3> QED
      BY <1>1, <1>3, <3>1, <3>2
  <2> HIDE DEF e
  <2>2. length * length <= e * e
    BY <1>1, <1>2, <2>1
  <2>3. ASSUME length >= e + 1 PROVE FALSE
    <3>1. length * length >= (e + 1) * (e + 1)
      BY <1>2, <2>1, <2>3
    <3>2. (e + 1) * (e + 1) = e * e + 2 * e + 1 /\ e * e \in Nat
      BY <2>1
    <3> QED
      BY <1>2, <2>1, <2>2, <3>1, <3>2
  <2> QED
    BY <1>2, <2>1, <2>3 DEF e
<1> QED
  BY <1>2, <1>5, <1>6 DEF a, b, c, length

LEMMA DirectionsAreUnits ==
  ASSUME NEW v, IsVector(v)
  PROVE  /\ InCube(Normalized(v), One)
         /\ Normalized(v).x * v.x >= 0
<1> DEFINE length == Length(v)
<1>1. One \in Nat \ {0} /\ length \in Nat
  BY FixedAssumption, LengthsBound
<1>2. /\ v.x \in Int /\ v.y \in Int /\ v.z \in Int
      /\ AbsOf(v.x) <= length /\ AbsOf(v.y) <= length /\ AbsOf(v.z) <= length
  BY LengthsBound DEF IsVector
<1> HIDE DEF length
<1>3. CASE length = 0
  <2>1. Normalized(v) = Zero
    BY <1>3 DEF Normalized, length
  <2> QED
    BY <1>1, <1>2, <2>1 DEF InCube, Zero, Vec
<1>4. CASE length # 0
  <2>1. ASSUME NEW e \in Int, AbsOf(e) <= length
        PROVE  QDiv(e, length) \in -One .. One /\ QDiv(e, length) * e >= 0
    <3> DEFINE t == QDiv(e, length)
               m == AbsOf(e)
    <3>1. length \in Nat \ {0} /\ e * One \in Int /\ m \in Nat
      BY <1>1, <1>4 DEF AbsOf
    <3>2. AbsOf(e * One) = m * One
      BY <1>1 DEF AbsOf
    <3>3. t \in Int /\ AbsOf(t) * length <= m * One /\ t * e >= 0
      BY <3>1, <3>2, TruncatedLosesMagnitude, CoordinateKeepsSign DEF QDiv
    <3>4. m * One <= length * One
      <4> HIDE DEF m
      <4> QED
        BY <1>1, <2>1, <3>1 DEF m
    <3> HIDE DEF t, m
    <3> DEFINE k == AbsOf(t)
    <3>5. k \in Nat
      BY <3>3 DEF AbsOf
    <3>6. k <= One
      <4>1. k * length <= length * One
        BY <1>1, <3>1, <3>3, <3>4, <3>5
      <4> HIDE DEF k
      <4> SUFFICES ASSUME k >= One + 1 PROVE FALSE
        BY <1>1, <3>5
      <4>2. k * length >= (One + 1) * length
        BY <1>1, <3>1, <3>5
      <4>3. (One + 1) * length = length * One + length
        BY <1>1, <3>1
      <4> QED
        BY <1>1, <3>1, <3>5, <4>1, <4>2, <4>3
    <3>7. t \in -One .. One
      BY <1>1, <3>3, <3>6 DEF AbsOf
    <3> QED
      BY <3>3, <3>7 DEF t
  <2>2. Normalized(v) = Vec(QDiv(v.x, length), QDiv(v.y, length), QDiv(v.z, length))
    BY <1>4 DEF Normalized, length
  <2> QED
    BY <1>2, <2>1, <2>2 DEF InCube, Vec
<1> QED
  BY <1>3, <1>4

(* A truncated mean is among its terms' bounds.                            *)
LEMMA MeanBetween ==
  ASSUME NEW count \in Nat \ {0}, NEW sum \in Int, NEW low \in Int, NEW high \in Int,
         count * low <= sum, sum <= count * high
  PROVE  Truncated(sum, count) \in low .. high
<1> DEFINE a == AbsOf(sum)
           q == a \div count
           r == a % count
<1>1. a \in Nat /\ AbsOf(count) = count /\ SignOf(count) = 1
  BY DEF AbsOf, SignOf
<1>2. Truncated(sum, count) = SignOf(sum) * q
  <2> HIDE DEF a
  <2>1. q \in Int /\ SignOf(sum) \in Int
    BY <1>1 DEF SignOf
  <2>2. SignOf(sum) * 1 * q = SignOf(sum) * q
    BY <2>1
  <2> QED
    BY <1>1, <2>2 DEF Truncated, a
<1>3. a = sum \/ a = -sum
  BY DEF AbsOf
<1>4. SignOf(sum) = (IF sum < 0 THEN -1 ELSE IF sum > 0 THEN 1 ELSE 0) /\ (sum < 0 => a = -sum) /\ (sum >= 0 => a = sum)
  BY DEF SignOf, AbsOf
<1> HIDE DEF a
<1>5. a = count * q + r /\ q \in Nat /\ r \in 0 .. count - 1
  <2>1. a = count * q + r /\ q \in Int /\ r \in 0 .. count - 1
    BY <1>1
  <2>2. q >= 0
    BY <1>1
  <2> QED
    BY <2>1, <2>2
<1> HIDE DEF q, r
<1> DEFINE p == count * q
           l == count * low
           h == count * high
<1>6. p \in Nat /\ l \in Int /\ h \in Int /\ l <= sum /\ sum <= h /\ a = p + r
  BY <1>5
<1>7. ASSUME NEW u \in Int, NEW w \in Int, count * u < count * w + count PROVE u <= w
  <2> SUFFICES ASSUME u >= w + 1 PROVE FALSE
    OBVIOUS
  <2>1. count * u >= count * (w + 1)
    OBVIOUS
  <2>2. count * (w + 1) = count * w + count
    OBVIOUS
  <2> QED
    BY <1>7, <2>1, <2>2
<1>8. CASE sum < 0
  <2>1. p = -sum - r /\ count * (-q) = -p
    BY <1>4, <1>5, <1>6, <1>8
  <2> HIDE DEF p, l, h
  <2>2. count * low < count * (-q) + count
    BY <1>5, <1>6, <2>1 DEF l
  <2>3. low <= -q
    BY <1>5, <1>7, <2>2
  <2>4. count * (-q) < count * high + count
    BY <1>5, <1>6, <2>1 DEF h
  <2>5. -q <= high
    BY <1>5, <1>7, <2>4
  <2> QED
    BY <1>2, <1>4, <1>5, <1>8, <2>3, <2>5
<1>9. CASE sum >= 0
  <2>1. p = sum - r
    BY <1>4, <1>5, <1>6, <1>9
  <2>2. count * low < p + count
    <3> HIDE DEF p, l
    <3> QED
      BY <1>5, <1>6, <2>1 DEF l
  <2>3. low <= q
    BY <1>5, <1>7, <2>2
  <2>4. p < count * high + count
    <3> HIDE DEF p, h
    <3> QED
      BY <1>5, <1>6, <2>1 DEF h
  <2>5. q <= high
    BY <1>5, <1>7, <2>4
  <2>6. SignOf(sum) * q = q
    <3>1. CASE sum = 0
      <4>1. p = 0
        <5> HIDE DEF p
        <5> QED
          BY <1>5, <1>6, <2>1, <3>1
      <4>2. q = 0
        BY <1>5, <4>1
      <4> QED
        BY <1>4, <4>2, <3>1
    <3> QED
      BY <1>4, <1>5, <1>9, <3>1
  <2> QED
    BY <1>2, <1>5, <2>3, <2>5, <2>6
<1> QED
  BY <1>8, <1>9

-----------------------------------------------------------------------------

LEMMA ProductsGrow ==
  ASSUME NEW a \in Nat, NEW b \in Nat, a <= b, NEW c \in Nat
  PROVE  a * c <= b * c
<1>1. PICK k \in Nat : b = a + k
  <2>1. b - a \in Nat /\ b = a + (b - a)
    OBVIOUS
  <2> QED
    BY <2>1
<1>2. b * c = a * c + k * c
  BY <1>1
<1>3. a * c \in Nat /\ k * c \in Nat
  OBVIOUS
<1> QED
  BY <1>2, <1>3

LEMMA ProductsCancel ==
  ASSUME NEW a \in Nat, NEW b \in Nat, NEW c \in Nat \ {0}, c * a <= c * b
  PROVE  a <= b
<1> SUFFICES ASSUME b + 1 <= a PROVE FALSE
  OBVIOUS
<1>1. b + 1 \in Nat /\ c \in Nat
  OBVIOUS
<1>2. (b + 1) * c <= a * c
  BY <1>1, ProductsGrow
<1>3. (b + 1) * c = c * b + c /\ a * c = c * a /\ c * b \in Nat /\ c * a \in Nat
  OBVIOUS
<1> QED
  BY <1>2, <1>3

(* The vertical axis is what a half turn is about. *)
LEMMA VerticalStays ==
  ASSUME NEW c \in Int
  PROVE  Turned(Vec(0, 0, c)) = Vec(0, 0, c)
<1> DEFINE b == 0
<1>1. b \in Int /\ b + b = 0
  OBVIOUS
<1> HIDE DEF b
<1>2. -b = b
  BY <1>1
<1>3. IsVector(Vec(b, b, c))
  BY <1>1 DEF IsVector, Vec
<1>4. Turned(Vec(b, b, c)) = Vec(-b, -b, c)
  BY <1>3, TurnedChangesSigns DEF Vec
<1> QED
  BY <1>2, <1>4 DEF b

LEMMA ZeroStays ==
  /\ Turned(Zero) = Zero
  /\ \A v : IsVector(v) => (Turned(v) = Zero <=> v = Zero)
<1>1. Turned(Zero) = Zero
  BY VerticalStays DEF Zero
<1>2. ASSUME NEW v, IsVector(v), Turned(v) = Zero PROVE v = Zero
  BY <1>1, <1>2, TurnedTwice
<1> QED
  BY <1>1, <1>2

(* Products, dots and crosses of turned vectors are those of the vectors.  *)
LEMMA ScaledTurns ==
  ASSUME NEW v, IsVector(v), NEW factor \in Int
  PROVE  /\ IsVector(Scaled(v, factor))
         /\ Scaled(Turned(v), factor) = Turned(Scaled(v, factor))
<1>1. v.x \in Int /\ v.y \in Int /\ v.z \in Int
  BY DEF IsVector
<1>2. /\ QMul(v.x, factor) \in Int /\ QMul(v.y, factor) \in Int /\ QMul(v.z, factor) \in Int
      /\ QMul(-v.x, factor) = -QMul(v.x, factor) /\ QMul(-v.y, factor) = -QMul(v.y, factor)
  BY <1>1, ProductIsOdd
<1>3. IsVector(Scaled(v, factor))
  BY <1>2 DEF IsVector, Scaled, Vec
<1>4. Turned(v) = Vec(-v.x, -v.y, v.z)
  BY TurnedChangesSigns
<1>5. Scaled(Turned(v), factor) = Vec(QMul(-v.x, factor), QMul(-v.y, factor), QMul(v.z, factor))
  BY <1>4 DEF Scaled, Vec
<1>6. Turned(Scaled(v, factor)) = Vec(-QMul(v.x, factor), -QMul(v.y, factor), QMul(v.z, factor))
  BY <1>3, TurnedChangesSigns DEF Scaled, Vec
<1> QED
  BY <1>2, <1>3, <1>5, <1>6

LEMMA SharesShrink ==
  ASSUME NEW r \in Nat, NEW v, InCube(v, r), NEW share \in -One .. One
  PROVE  InCube(Scaled(v, share), r)
<1>1. ASSUME NEW a \in -r .. r PROVE QMul(a, share) \in -r .. r
  <2>1. One \in Nat /\ a \in Int /\ share \in Int
    BY FixedAssumption
  <2>2. a * share = share * a
    BY <2>1
  <2>3. QMul(a, share) = QMul(share, a)
    BY <2>2 DEF QMul
  <2>4. QMul(share, a) \in -AbsOf(a) .. AbsOf(a) /\ AbsOf(a) \in 0 .. r
    BY <2>1, UnitProduct DEF AbsOf
  <2> HIDE DEF QMul
  <2> QED
    BY <2>3, <2>4
<1>2. v.x \in -r .. r /\ v.y \in -r .. r /\ v.z \in -r .. r
  BY DEF InCube
<1>3. /\ QMul(v.x, share) \in -r .. r /\ QMul(v.y, share) \in -r .. r /\ QMul(v.z, share) \in -r .. r
  BY <1>1, <1>2
<1> QED
  BY <1>3 DEF InCube, Scaled, Vec

LEMMA DotsTurn ==
  ASSUME NEW v, IsVector(v), NEW w, IsVector(w)
  PROVE  /\ RawDot(v, w) \in Int /\ Dot(v, w) \in Int
         /\ Dot(Turned(v), Turned(w)) = Dot(v, w)
<1> DEFINE a == v.x
           b == v.y
           c == v.z
           d == w.x
           e == w.y
           f == w.z
<1>1. a \in Int /\ b \in Int /\ c \in Int /\ d \in Int /\ e \in Int /\ f \in Int
  BY DEF IsVector
<1>2. RawDot(v, w) = a * d + b * e + c * f
  BY DEF RawDot
<1>3. RawDot(Turned(v), Turned(w)) = (-a) * (-d) + (-b) * (-e) + c * f
  BY TurnedChangesSigns DEF RawDot, Vec
<1> HIDE DEF a, b, c, d, e, f
<1>4. (-a) * (-d) = a * d /\ (-b) * (-e) = b * e
      /\ a * d \in Int /\ b * e \in Int /\ c * f \in Int
  BY <1>1
<1>5. RawDot(Turned(v), Turned(w)) = RawDot(v, w) /\ RawDot(v, w) \in Int
  BY <1>2, <1>3, <1>4
<1>6. One \in Nat \ {0}
  BY FixedAssumption
<1> QED
  BY <1>5, <1>6, TruncatedKeepsSign DEF Dot

LEMMA CrossesTurn ==
  ASSUME NEW v, IsVector(v), NEW w, IsVector(w)
  PROVE  /\ IsVector(Cross(v, w))
         /\ Cross(Turned(v), Turned(w)) = Turned(Cross(v, w))
<1> DEFINE a == v.x
           b == v.y
           c == v.z
           d == w.x
           e == w.y
           f == w.z
           p == b * f - c * e
           q == c * d - a * f
           r == a * e - b * d
<1>1. a \in Int /\ b \in Int /\ c \in Int /\ d \in Int /\ e \in Int /\ f \in Int
  BY DEF IsVector
<1>2. Cross(v, w) = Vec(Truncated(p, One), Truncated(q, One), Truncated(r, One))
  BY DEF Cross
<1>3. Cross(Turned(v), Turned(w)) =
        Vec(Truncated((-b) * f - c * (-e), One), Truncated(c * (-d) - (-a) * f, One),
            Truncated((-a) * (-e) - (-b) * (-d), One))
  BY TurnedChangesSigns DEF Cross, Vec
<1> HIDE DEF a, b, c, d, e, f
<1>4. p \in Int /\ q \in Int /\ r \in Int
  BY <1>1
<1>5. (-b) * f - c * (-e) = -p /\ c * (-d) - (-a) * f = -q
  BY <1>1
<1>6. (-a) * (-e) - (-b) * (-d) = r
  BY <1>1
<1> HIDE DEF p, q, r
<1>7. One \in Nat \ {0} /\ One \in Int /\ One # 0
  BY FixedAssumption
<1>8. /\ Truncated(p, One) \in Int /\ Truncated(q, One) \in Int /\ Truncated(r, One) \in Int
      /\ Truncated(-p, One) = -Truncated(p, One) /\ Truncated(-q, One) = -Truncated(q, One)
  BY <1>4, <1>7, TruncatedKeepsSign, TruncatedIsOdd
<1>9. IsVector(Cross(v, w))
  BY <1>2, <1>8 DEF IsVector, Vec
<1>10. Turned(Cross(v, w)) = Vec(-Truncated(p, One), -Truncated(q, One), Truncated(r, One))
  BY <1>2, <1>9, TurnedChangesSigns DEF Vec
<1> QED
  BY <1>3, <1>5, <1>6, <1>8, <1>9, <1>10

(* How large products, dots and crosses get. *)
LEMMA TruncatedWithin ==
  ASSUME NEW n \in Int, NEW d \in Nat \ {0}, NEW r \in Nat, AbsOf(n) <= r * d
  PROVE  Truncated(n, d) \in -r .. r
<1> DEFINE t == Truncated(n, d)
           m == AbsOf(t)
<1>1. t \in Int /\ m * d <= AbsOf(n)
  BY TruncatedLosesMagnitude
<1>2. AbsOf(n) \in Nat
  BY DEF AbsOf
<1>3. m \in Nat /\ (m <= r => t \in -r .. r)
  <2> HIDE DEF t
  <2> QED
    BY <1>1 DEF AbsOf
<1> HIDE DEF t, m
<1>4. m * d <= r * d
  <2>1. m * d \in Nat /\ r * d \in Nat
    BY <1>3
  <2> QED
    BY <1>1, <1>2, <2>1
<1>5. m <= r
  <2> SUFFICES ASSUME m >= r + 1 PROVE FALSE
    BY <1>3
  <2>1. PICK k \in Nat : m = (r + 1) + k
    <3>1. m - (r + 1) \in Nat /\ m = (r + 1) + (m - (r + 1))
      BY <1>3
    <3> QED
      BY <3>1
  <2>2. m * d = r * d + d + k * d
    BY <2>1
  <2>3. k * d \in Nat /\ r * d \in Nat
    OBVIOUS
  <2> QED
    BY <1>4, <2>2, <2>3
<1> QED
  BY <1>3, <1>5 DEF t

LEMMA ProductsWithin ==
  ASSUME NEW r \in Nat, NEW s \in Nat, NEW a \in -r .. r, NEW b \in -s .. s
  PROVE  a * b \in Int /\ AbsOf(a * b) <= r * s /\ r * s \in Nat
<1> DEFINE m == AbsOf(a)
           n == AbsOf(b)
<1>1. a \in Int /\ b \in Int /\ m \in Nat /\ n \in Nat /\ m <= r /\ n <= s
  BY DEF AbsOf
<1>2. AbsOf(a * b) = m * n /\ a * b \in Int
  BY <1>1 DEF AbsOf
<1> HIDE DEF m, n
<1>3. PICK i \in Nat : r = m + i
  <2>1. r - m \in Nat /\ r = m + (r - m)
    BY <1>1
  <2> QED
    BY <2>1
<1>4. PICK j \in Nat : s = n + j
  <2>1. s - n \in Nat /\ s = n + (s - n)
    BY <1>1
  <2> QED
    BY <2>1
<1>5. r * s = m * n + m * j + i * n + i * j
  BY <1>1, <1>3, <1>4
<1>6. m * n \in Nat /\ m * j \in Nat /\ i * n \in Nat /\ i * j \in Nat
  BY <1>1
<1> QED
  BY <1>2, <1>5, <1>6

LEMMA DotsWithin ==
  ASSUME NEW r \in Nat, NEW v, InCube(v, r), NEW w, InCube(w, One)
  PROVE  Dot(v, w) \in -(3 * r) .. 3 * r
<1> DEFINE p == v.x * w.x
           q == v.y * w.y
           s == v.z * w.z
           m == r * One
<1>1. One \in Nat \ {0}
  BY FixedAssumption
<1>2. /\ p \in Int /\ q \in Int /\ s \in Int /\ m \in Nat
      /\ AbsOf(p) <= m /\ AbsOf(q) <= m /\ AbsOf(s) <= m
  <2>1. v.x \in -r .. r /\ v.y \in -r .. r /\ v.z \in -r .. r
    BY DEF InCube
  <2>2. w.x \in -One .. One /\ w.y \in -One .. One /\ w.z \in -One .. One
    BY DEF InCube
  <2> QED
    BY <1>1, <2>1, <2>2, ProductsWithin
<1>3. RawDot(v, w) = p + q + s
  BY DEF RawDot
<1>4. (3 * r) * One = 3 * m
  BY <1>1
<1> HIDE DEF p, q, s, m
<1>5. p + q + s \in Int /\ AbsOf(p + q + s) <= 3 * m
  BY <1>2 DEF AbsOf
<1> QED
  BY <1>1, <1>3, <1>4, <1>5, TruncatedWithin DEF Dot

LEMMA CrossesWithin ==
  ASSUME NEW r \in Nat, NEW s \in Nat, NEW v, InCube(v, r), NEW w, InCube(w, s)
  PROVE  \A axis \in {"x", "y", "z"} :
           Cross(v, w)[axis] \in Int /\ AbsOf(Cross(v, w)[axis]) * One <= 2 * (r * s)
<1>1. One \in Nat \ {0}
  BY FixedAssumption
<1> DEFINE Fits(n) == n \in Int /\ AbsOf(n) * One <= 2 * (r * s)
<1>2. ASSUME NEW a \in -r .. r, NEW b \in -s .. s, NEW c \in -r .. r, NEW d \in -s .. s
      PROVE  Fits(Truncated(a * b - c * d, One))
  <2> DEFINE p == a * b
             q == c * d
             m == r * s
  <2>1. p \in Int /\ q \in Int /\ m \in Nat /\ AbsOf(p) <= m /\ AbsOf(q) <= m
    BY ProductsWithin
  <2> HIDE DEF p, q, m
  <2>2. p - q \in Int /\ AbsOf(p - q) <= 2 * m
    BY <2>1 DEF AbsOf
  <2> DEFINE t == Truncated(p - q, One)
  <2>3. t \in Int /\ AbsOf(t) * One <= AbsOf(p - q)
    BY <1>1, <2>2, TruncatedLosesMagnitude
  <2> HIDE DEF t
  <2>4. AbsOf(p - q) \in Nat /\ AbsOf(t) \in Nat
    BY <2>2, <2>3 DEF AbsOf
  <2>5. AbsOf(t) * One \in Nat
    BY <1>1, <2>4
  <2>6. AbsOf(t) * One <= 2 * m
    BY <2>1, <2>2, <2>3, <2>4, <2>5
  <2> QED
    BY <2>3, <2>6 DEF t, p, q, m
<1>3. /\ v.x \in -r .. r /\ v.y \in -r .. r /\ v.z \in -r .. r
      /\ w.x \in -s .. s /\ w.y \in -s .. s /\ w.z \in -s .. s
  BY DEF InCube
<1> HIDE DEF Fits
<1>4. /\ Fits(Truncated(v.y * w.z - v.z * w.y, One))
      /\ Fits(Truncated(v.z * w.x - v.x * w.z, One))
      /\ Fits(Truncated(v.x * w.y - v.y * w.x, One))
  BY <1>2, <1>3
<1>5. Fits(Cross(v, w).x) /\ Fits(Cross(v, w).y) /\ Fits(Cross(v, w).z)
  BY <1>4 DEF Cross, Vec
<1> QED
  BY <1>5 DEF Fits

(* A vector whose image under the half turn is another, and its size.      *)
Faces(image, v, r) == InCube(v, r) /\ image = Turned(v)

LEMMA SumsFace ==
  ASSUME NEW r \in Nat, NEW s \in Nat, NEW t \in Nat, r + s <= t, t < WordLimit,
         NEW v, NEW i, Faces(i, v, r), NEW w, NEW j, Faces(j, w, s)
  PROVE  Faces(Plus(i, j), Plus(v, w), t) /\ Faces(Minus(i, j), Minus(v, w), t)
<1>1. r + s \in Nat /\ r + s < WordLimit
  BY FixedAssumption
<1>2. InCube(v, r) /\ InCube(w, s) /\ i = Turned(v) /\ j = Turned(w)
  BY DEF Faces
<1>3. InCube(Plus(v, w), r + s) /\ InCube(Minus(v, w), r + s)
  BY <1>1, <1>2, SumsAreExact
<1>4. InCube(Plus(v, w), t) /\ InCube(Minus(v, w), t)
  BY <1>1, <1>3, CubesHoldVectors
<1>5. Plus(i, j) = Turned(Plus(v, w)) /\ Minus(i, j) = Turned(Minus(v, w))
  BY <1>1, <1>2, SumsTurnInCubes
<1> QED
  BY <1>4, <1>5 DEF Faces

LEMMA SharesFace ==
  ASSUME NEW r \in Nat, NEW v, NEW i, Faces(i, v, r), NEW share \in -One .. One
  PROVE  Faces(Scaled(i, share), Scaled(v, share), r)
<1>1. InCube(v, r) /\ i = Turned(v) /\ IsVector(v) /\ share \in Int
  BY FixedAssumption, CubesHoldVectors DEF Faces
<1> QED
  BY <1>1, SharesShrink, ScaledTurns DEF Faces

LEMMA UnitsFace ==
  ASSUME NEW v, NEW i, Faces(i, v, One), NEW s \in Nat, NEW factor \in -s .. s
  PROVE  Faces(Scaled(i, factor), Scaled(v, factor), s)
<1>1. InCube(v, One) /\ i = Turned(v) /\ factor \in Int /\ AbsOf(factor) \in Nat /\ AbsOf(factor) <= s
  BY DEF Faces, AbsOf
<1>2. /\ InCube(Scaled(v, factor), AbsOf(factor))
      /\ Scaled(Turned(v), factor) = Turned(Scaled(v, factor))
  BY <1>1, ScaledUnits
<1>3. InCube(Scaled(v, factor), s)
  BY <1>1, <1>2, CubesHoldVectors
<1> QED
  BY <1>1, <1>2, <1>3 DEF Faces

LEMMA DirectionsFace ==
  ASSUME NEW v, IsVector(v)
  PROVE  Faces(Normalized(Turned(v)), Normalized(v), One)
BY DirectionsTurn, DirectionsAreUnits DEF Faces

LEMMA FacesAreVectors ==
  ASSUME NEW r \in Nat, NEW v, NEW i, Faces(i, v, r)
  PROVE  /\ IsVector(v) /\ InCube(v, r) /\ i = Turned(v)
         /\ \A s \in Nat : r <= s => Faces(i, v, s)
BY CubesHoldVectors DEF Faces

LEMMA ZeroFaces ==
  ASSUME NEW r \in Nat
  PROVE  Faces(Zero, Zero, r)
<1>1. InCube(Zero, r)
  BY DEF InCube, Zero, Vec
<1> QED
  BY <1>1, ZeroStays DEF Faces

LEMMA NegatedFaces ==
  ASSUME NEW r \in Nat, r < WordLimit, NEW v, NEW i, Faces(i, v, r)
  PROVE  Faces(Negated(i), Negated(v), r)
<1>1. ASSUME NEW w, IsVector(w) PROVE Negated(w) = Minus(Zero, w)
  <2>1. 0 - w.x = -w.x /\ 0 - w.y = -w.y /\ 0 - w.z = -w.z
    BY <1>1 DEF IsVector
  <2> QED
    BY <2>1 DEF Negated, Minus, Zero, Vec
<1>2. IsVector(v) /\ IsVector(i)
  BY FacesAreVectors, TurnedChangesSigns
<1>3. Faces(Minus(Zero, i), Minus(Zero, v), r)
  <2>1. Faces(Zero, Zero, 0) /\ 0 + r <= r /\ 0 \in Nat
    BY ZeroFaces
  <2> QED
    BY <2>1, SumsFace
<1> QED
  BY <1>1, <1>2, <1>3

=============================================================================
