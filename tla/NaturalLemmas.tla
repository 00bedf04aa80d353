---------------------------- MODULE NaturalLemmas ---------------------------
(***************************************************************************)
(* Facts about the naturals: induction and recursion, stated over sets and *)
(* functions and resting on the well-foundedness of finite subsets; and    *)
(* how quotient and remainder move when a clock advances by one, which     *)
(* tell how often something due on every d-th tick has been done.          *)
(***************************************************************************)
EXTENDS FiniteSetTheorems, TLAPS

(* The least-number principle, from the well-foundedness of the strict     *)
(* subset ordering on the initial segments of Nat.                         *)
LEMMA LeastElement ==
  ASSUME NEW S \in SUBSET Nat, S # {}
  PROVE  \E m \in S : \A k \in S : m <= k
<1> DEFINE Below(n) == 0 .. n
           T == {Below(n) : n \in S}
<1>1. IsWellFoundedOn(StrictSubsetOrdering(Nat), FiniteSubsetsOf(Nat))
  BY FS_StrictSubsetOrderingWellFounded
<1>2. T \subseteq FiniteSubsetsOf(Nat)
  <2>1. \A n \in S : IsFiniteSet(0 .. n)
    BY FS_Interval
  <2>2. \A n \in S : Below(n) \in SUBSET Nat
    OBVIOUS
  <2> QED
    BY <2>1, <2>2 DEF FiniteSubsetsOf
<1>3. T # {}
  OBVIOUS
<1> HIDE DEF T
<1>4. PICK t \in T : \A u \in T : <<u, t>> \notin StrictSubsetOrdering(Nat)
  BY <1>1, <1>2, <1>3, WFMin
<1> USE DEF T
<1>5. PICK m \in S : t = Below(m)
  OBVIOUS
<1>6. ASSUME NEW k \in S, k < m
      PROVE  FALSE
  <2>1. Below(k) \subseteq Below(m) /\ Below(k) # Below(m)
    BY <1>6
  <2>2. <<Below(k), Below(m)>> \in StrictSubsetOrdering(Nat)
    BY <2>1 DEF StrictSubsetOrdering
  <2> QED
    BY <1>4, <1>5, <2>2
<1> QED
  BY <1>6

(* A set with zero in it and with every successor of its naturals has them *)
(* all: else the least one that is missing succeeds one that is not.       *)
LEMMA SetInduction ==
  ASSUME NEW S, 0 \in S, \A n \in Nat : n \in S => n + 1 \in S
  PROVE  Nat \subseteq S
<1> DEFINE Missing == {n \in Nat : n \notin S}
<1> SUFFICES ASSUME Missing # {} PROVE FALSE
  OBVIOUS
<1>1. PICK k \in Missing : \A j \in Missing : k <= j
  <2> HIDE DEF Missing
  <2>1. Missing \in SUBSET Nat
    BY DEF Missing
  <2> QED
    BY <2>1, LeastElement
<1>2. k # 0 /\ k - 1 \in Nat /\ (k - 1) + 1 = k
  OBVIOUS
<1>3. k - 1 \notin Missing
  BY <1>1, <1>2
<1> QED
  BY <1>2, <1>3

(* So has a set that a natural is in as soon as all lesser ones are. *)
LEMMA StrongSetInduction ==
  ASSUME NEW S, \A n \in Nat : (\A m \in 0 .. n - 1 : m \in S) => n \in S
  PROVE  Nat \subseteq S
<1> DEFINE T == {n \in Nat : \A m \in 0 .. n - 1 : m \in S}
<1>1. 0 \in T
  OBVIOUS
<1>2. ASSUME NEW n \in Nat, n \in T PROVE n + 1 \in T
  <2>1. n \in S
    BY <1>2
  <2>2. \A m \in 0 .. (n + 1) - 1 : m \in 0 .. n - 1 \/ m = n
    OBVIOUS
  <2> QED
    BY <1>2, <2>1, <2>2
<1>3. Nat \subseteq T
  <2> HIDE DEF T
  <2> QED
    BY <1>1, <1>2, SetInduction
<1> QED
  BY <1>3

(* Every step from value to value has a function that takes it at every    *)
(* natural: what makes a recursive definition mean what it says.           *)
Iterates(f, values, base, step) ==
  /\ f \in [Nat -> values]
  /\ f[0] = base
  /\ \A n \in Nat : f[n + 1] = step[n][f[n]]

LEMMA Recursion ==
  ASSUME NEW V, NEW base \in V, NEW step \in [Nat -> [V -> V]]
  PROVE  \E f : Iterates(f, V, base, step)
<1> DEFINE Upto(n) == {g \in [0 .. n -> V] : /\ g[0] = base
                                           /\ \A i \in 0 .. n - 1 : g[i + 1] = step[i][g[i]]}
<1>1. \A n \in Nat : Upto(n) # {}
  <2> DEFINE S == {n \in Nat : Upto(n) # {}}
  <2>1. 0 \in S
    <3>1. [i \in 0 .. 0 |-> base] \in Upto(0)
      OBVIOUS
    <3> QED
      BY <3>1
  <2>2. ASSUME NEW n \in Nat, n \in S PROVE n + 1 \in S
    <3>1. PICK g \in [0 .. n -> V] : g[0] = base /\ \A i \in 0 .. n - 1 : g[i + 1] = step[i][g[i]]
      BY <2>2
    <3> DEFINE h == [i \in 0 .. n + 1 |-> IF i = n + 1 THEN step[n][g[n]] ELSE g[i]]
    <3>2. g[n] \in V /\ step[n][g[n]] \in V
      BY <3>1
    <3>3. h \in [0 .. n + 1 -> V]
      BY <3>1, <3>2
    <3>4. h[0] = base
      BY <3>1
    <3>5. ASSUME NEW i \in 0 .. (n + 1) - 1 PROVE h[i + 1] = step[i][h[i]]
      <4>1. i \in 0 .. n + 1 /\ i + 1 \in 0 .. n + 1 /\ i # n + 1 /\ (i = n \/ (i \in 0 .. n - 1 /\ i + 1 # n + 1))
        OBVIOUS
      <4>2. h[i] = g[i]
        BY <4>1
      <4>3. CASE i = n
        BY <4>1, <4>2, <4>3
      <4>4. CASE i \in 0 .. n - 1 /\ i + 1 # n + 1
        BY <4>1, <4>2, <4>4, <3>1
      <4> QED
        BY <4>1, <4>3, <4>4
    <3>6. h \in Upto(n + 1)
      <4> HIDE DEF h
      <4> QED
        BY <3>3, <3>4, <3>5
    <3> HIDE DEF Upto
    <3> QED
      BY <3>6
  <2>3. Nat \subseteq S
    <3> HIDE DEF S
    <3> QED
      BY <2>1, <2>2, SetInduction
  <2> QED
    BY <2>3
<1>2. ASSUME NEW m \in Nat, NEW n \in Nat, m <= n, NEW g \in Upto(m), NEW h \in Upto(n)
      PROVE  \A i \in 0 .. m : g[i] = h[i]
  <2> DEFINE S == {i \in Nat : i <= m => g[i] = h[i]}
  <2>1. 0 \in S
    OBVIOUS
  <2>2. ASSUME NEW i \in Nat, i \in S PROVE i + 1 \in S
    <3> SUFFICES ASSUME i + 1 <= m PROVE g[i + 1] = h[i + 1]
      OBVIOUS
    <3>1. i \in 0 .. m - 1 /\ i \in 0 .. n - 1 /\ i <= m
      BY <1>2
    <3>2. g[i + 1] = step[i][g[i]] /\ h[i + 1] = step[i][h[i]]
      BY <3>1
    <3> QED
      BY <2>2, <3>1, <3>2
  <2>3. Nat \subseteq S
    <3> HIDE DEF S
    <3> QED
      BY <2>1, <2>2, SetInduction
  <2> QED
    BY <2>3
<1> DEFINE some(n) == CHOOSE g : g \in Upto(n)
           f == [n \in Nat |-> some(n)[n]]
<1>3. \A n \in Nat : some(n) \in Upto(n)
  <2> HIDE DEF Upto
  <2> QED
    BY <1>1
<1>4. ASSUME NEW n \in Nat
      PROVE  /\ some(n)[n] \in V
             /\ some(n + 1)[n] = some(n)[n]
             /\ some(n + 1)[n + 1] = step[n][some(n)[n]]
  <2>0. n <= n + 1 /\ n + 1 \in Nat
    OBVIOUS
  <2>1. some(n) \in Upto(n) /\ some(n + 1) \in Upto(n + 1)
    <3> HIDE DEF some, Upto
    <3> QED
      BY <1>3, <2>0
  <2> HIDE DEF some
  <2>2. some(n)[n] \in V
    BY <2>1
  <2>3. \A i \in 0 .. n : some(n)[i] = some(n + 1)[i]
    <3> HIDE DEF Upto
    <3> QED
      BY <1>2, <2>0, <2>1
  <2>4. some(n + 1)[n + 1] = step[n][some(n + 1)[n]]
    BY <2>1
  <2> QED
    BY <2>2, <2>3, <2>4
<1>5. some(0)[0] = base
  <2>1. some(0) \in Upto(0)
    BY <1>3
  <2> HIDE DEF some
  <2> QED
    BY <2>1
<1> HIDE DEF some
<1>6. Iterates(f, V, base, step)
  BY <1>4, <1>5 DEF Iterates
<1> QED
  BY <1>6

-----------------------------------------------------------------------------


(* Quotient and remainder are the only ones. *)
LEMMA QuotientOf ==
  ASSUME NEW d \in Nat \ {0}, NEW q \in Int, NEW r \in 0 .. d - 1
  PROVE  (d * q + r) \div d = q /\ (d * q + r) % d = r
<1> DEFINE m == d * q + r
           p == m \div d
           s == m % d
<1>1. m \in Int /\ d * q \in Int
  OBVIOUS
<1>2. m = d * p + s /\ p \in Int /\ s \in 0 .. d - 1 /\ d * p \in Int
  BY <1>1
<1>3. d * q - d * p = s - r
  BY <1>1, <1>2
<1> HIDE DEF p, s
<1>4. d * (q - p) = s - r
  BY <1>2, <1>3
<1>5. q = p
  <2>1. CASE q - p >= 1
    <3>1. d * (q - p) >= d
      BY <1>2, <2>1
    <3> QED
      BY <1>2, <1>4, <3>1
  <2>2. CASE q - p <= -1
    <3>1. d * (q - p) <= -d
      BY <1>2, <2>2
    <3> QED
      BY <1>2, <1>4, <3>1
  <2> QED
    BY <1>2, <2>1, <2>2
<1> QED
  BY <1>2, <1>4, <1>5 DEF p, s

(* Within a window the phase advances with the clock. *)
LEMMA NextTickOfWindow ==
  ASSUME NEW d \in Nat \ {0}, NEW n \in Nat, (n + 1) % d # 0
  PROVE  (n + 1) % d = (n % d) + 1
<1> DEFINE q == n \div d
           r == n % d
<1>1. n = d * q + r /\ q \in Int /\ r \in 0 .. d - 1 /\ d * q \in Int
  OBVIOUS
<1> HIDE DEF q, r
<1>2. CASE r = d - 1
  <2>1. n + 1 = d * (q + 1) + 0 /\ q + 1 \in Int
    BY <1>1, <1>2
  <2>2. (d * (q + 1) + 0) % d = 0
    BY <1>1, QuotientOf
  <2> QED
    BY <2>1, <2>2
<1>3. CASE r # d - 1
  <2>1. n + 1 = d * q + (r + 1) /\ r + 1 \in 0 .. d - 1
    BY <1>1, <1>3
  <2>2. (d * q + (r + 1)) % d = r + 1
    BY <1>1, <2>1, QuotientOf
  <2> QED
    BY <2>1, <2>2 DEF r
<1> QED
  BY <1>2, <1>3

(* What is done at the end of every d-th tick has been done once more      *)
(* exactly after such a tick.                                              *)
LEMMA CountAtEnds ==
  ASSUME NEW d \in Nat \ {0}, NEW n \in Nat
  PROVE  /\ n \div d \in Nat
         /\ (n + 1) % d = 0 => (n + 1) \div d = n \div d + 1
         /\ (n + 1) % d # 0 => (n + 1) \div d = n \div d
<1> DEFINE q == n \div d
           r == n % d
<1>1. n = d * q + r /\ q \in Int /\ r \in 0 .. d - 1 /\ d * q \in Int
  OBVIOUS
<1>2. q \in Nat
  OBVIOUS
<1> HIDE DEF q, r
<1>3. CASE r = d - 1
  <2>1. n + 1 = d * (q + 1) + 0 /\ q + 1 \in Int
    BY <1>1, <1>3
  <2>2. (d * (q + 1) + 0) \div d = q + 1 /\ (d * (q + 1) + 0) % d = 0
    BY <1>1, QuotientOf
  <2> QED
    BY <1>2, <2>1, <2>2 DEF q
<1>4. CASE r # d - 1
  <2>1. n + 1 = d * q + (r + 1) /\ r + 1 \in 0 .. d - 1
    BY <1>1, <1>4
  <2>2. (d * q + (r + 1)) \div d = q /\ (d * q + (r + 1)) % d = r + 1
    BY <1>1, <2>1, QuotientOf
  <2> QED
    BY <1>1, <1>2, <2>1, <2>2 DEF q
<1> QED
  BY <1>3, <1>4

(* What is done at the start of every d-th tick, tick zero included, has   *)
(* been done once more exactly after such a tick.                          *)
LEMMA CountAtStarts ==
  ASSUME NEW d \in Nat \ {0}, NEW n \in Nat
  PROVE  /\ (n + d - 1) \div d \in Nat
         /\ n % d = 0 => (n + 1 + d - 1) \div d = (n + d - 1) \div d + 1
         /\ n % d # 0 => (n + 1 + d - 1) \div d = (n + d - 1) \div d
<1> DEFINE m == n + d - 1
<1>1. m \in Nat /\ m + 1 = n + d /\ n + 1 + d - 1 = m + 1
  OBVIOUS
<1>2. (n + d) % d = n % d
  <2> DEFINE q == n \div d
             r == n % d
  <2>1. n = d * q + r /\ q \in Int /\ r \in 0 .. d - 1 /\ d * q \in Int
    OBVIOUS
  <2> HIDE DEF q, r
  <2>2. n + d = d * (q + 1) + r /\ q + 1 \in Int
    BY <2>1
  <2>3. (d * (q + 1) + r) % d = r
    BY <2>1, <2>2, QuotientOf
  <2> QED
    BY <2>2, <2>3 DEF r
<1> HIDE DEF m
<1>3. /\ m \div d \in Nat
      /\ (m + 1) % d = 0 => (m + 1) \div d = m \div d + 1
      /\ (m + 1) % d # 0 => (m + 1) \div d = m \div d
  BY <1>1, CountAtEnds
<1> QED
  BY <1>1, <1>2, <1>3 DEF m

=============================================================================
