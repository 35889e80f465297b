---------------------------- MODULE Ieee754Proofs ----------------------------
(***************************************************************************)
(* The addition of simulator/probe.c is an addition, for all widths: the   *)
(* leading zeroes are counted right, the sum has the width of a number and *)
(* is as near to the exact one as IsSum has it, and 0 changes nothing.     *)
(***************************************************************************)
EXTENDS Ieee754, FiniteSetTheorems, WellFoundedInduction, TLAPS

(***************************************************************************)
(* Arithmetic.                                                             *)
(***************************************************************************)
\* A set of naturals has a least one.
LEMMA LeastExists ==
  ASSUME NEW T \in SUBSET Nat, T # {}
  PROVE  \E x \in T : \A y \in T : x <= y
<1>1. \E x \in T : \A y \in T : ~(<<y, x>> \in OpToRel(<, Nat))
  BY NatLessThanWellFounded, WFMin, Zenon
<1>2. \A x, y \in T : <<y, x>> \in OpToRel(<, Nat) <=> y < x
  BY Zenon DEF OpToRel
<1>3. \E x \in T : \A y \in T : ~(y < x)
  BY <1>1, <1>2, Zenon
<1> QED BY <1>3

\* Induction, for sets: the induction theorem of the library takes an operator.
LEMMA Induction ==
  ASSUME NEW S, 0 \in S, \A n \in Nat : n \in S => n + 1 \in S
  PROVE  Nat \subseteq S
<1> SUFFICES ASSUME Nat \ S # {} PROVE FALSE
  OBVIOUS
<1>1. PICK x \in Nat \ S : \A y \in Nat \ S : x <= y
  BY LeastExists
<1>2. x # 0 /\ x - 1 \in Nat /\ x - 1 \notin Nat \ S
  BY <1>1
<1> QED BY <1>1, <1>2

\* Division with remainder, and that it has no other result.
LEMMA DivMod ==
  ASSUME NEW n \in Nat, NEW k \in Nat \ {0}
  PROVE  /\ n \div k \in Nat /\ n % k \in 0 .. k - 1
         /\ n = k * (n \div k) + (n % k)
OBVIOUS

\* A quotient and a rest are those of the division.
LEMMA DivIs ==
  ASSUME NEW k \in Nat \ {0}, NEW q \in Nat, NEW r \in 0 .. k - 1
  PROVE  (q * k + r) \div k = q /\ (q * k + r) % k = r
OBVIOUS

\* What is smaller than the divisor has the quotient 0.
LEMMA DivZero ==
  \A n \in Nat, k \in Nat \ {0} : n \div k = 0 <=> n < k
OBVIOUS

(***************************************************************************)
(* Powers of two: the provers know only those of numbers.                  *)
(***************************************************************************)
\* 2^n counts the subsets of a set of n elements.
LEMMA PowerCounts ==
  ASSUME NEW n \in Nat
  PROVE  /\ IsFiniteSet(SUBSET (1 .. n)) /\ Cardinality(SUBSET (1 .. n)) = 2^n
         /\ 2^n \in Nat
<1>1. IsFiniteSet(1 .. n) /\ Cardinality(1 .. n) = n
  BY FS_Interval
<1>2. IsFiniteSet(SUBSET (1 .. n)) /\ Cardinality(SUBSET (1 .. n)) = 2^n
  BY <1>1, FS_SUBSET, Zenon
<1> QED BY <1>2, FS_CardinalityType, Zenon

\* Of the subsets of n + 1 elements, as many have the last one as have not.
LEMMA PowerStep ==
  ASSUME NEW n \in Nat
  PROVE  2^(n + 1) = 2 * 2^n
<1> DEFINE Without == SUBSET (1 .. n)
           With == {T \cup {n + 1} : T \in Without}
           add == [T \in Without |-> T \cup {n + 1}]
<1>1. n + 1 \notin 1 .. n /\ 1 .. n + 1 = (1 .. n) \cup {n + 1} /\ n + 1 \in Nat
  OBVIOUS
<1>2. SUBSET (1 .. n + 1) = Without \cup With
  <2>1. ASSUME NEW U \in SUBSET (1 .. n + 1) PROVE U \in Without \cup With
    <3>1. U \in Without \/ U = (U \ {n + 1}) \cup {n + 1}
      BY <1>1
    <3>2. U \ {n + 1} \in Without
      BY <1>1
    <3> QED BY <3>1, <3>2
  <2>2. ASSUME NEW U \in Without \cup With PROVE U \in SUBSET (1 .. n + 1)
    BY <1>1
  <2> QED BY <2>1, <2>2
<1>3. Without \cap With = {}
  BY <1>1
<1>4. ExistsBijection(Without, With)
  <2>1. add \in [Without -> With]
    OBVIOUS
  <2>2. ASSUME NEW T \in Without, NEW U \in Without, add[T] = add[U] PROVE T = U
    <3>1. T = add[T] \ {n + 1} /\ U = add[U] \ {n + 1}
      BY <1>1
    <3> QED BY <3>1, <2>2
  <2>3. \A U \in With : \E T \in Without : add[T] = U
    OBVIOUS
  <2>4. add \in Bijection(Without, With)
    BY <2>1, <2>2, <2>3 DEF Bijection, Injection, Surjection, IsInjective
  <2> QED BY <2>4 DEF ExistsBijection
<1>5. IsFiniteSet(Without) /\ Cardinality(Without) = 2^n /\ 2^n \in Nat
  BY PowerCounts
<1>6. IsFiniteSet(With) /\ Cardinality(With) = Cardinality(Without)
  BY <1>4, <1>5, FS_Bijection, Zenon
<1>7. Cardinality(Without \cup With) = Cardinality(Without) + Cardinality(With) - Cardinality(Without \cap With)
  BY <1>5, <1>6, FS_Union, Zenon
<1>8. Cardinality(Without \cap With) = 0
  BY <1>3, FS_EmptySet
<1>9. Cardinality(Without \cup With) = 2^(n + 1)
  <2>1. Cardinality(SUBSET (1 .. n + 1)) = 2^(n + 1)
    BY <1>1, PowerCounts
  <2> QED BY <2>1, <1>2
<1> HIDE DEF Without, With
<1> QED BY <1>5, <1>6, <1>7, <1>8, <1>9

\* By induction on n, from PowerStep.
LEMMA PowerPositive ==
  \A n \in Nat : 2^n \in Nat \ {0}
<1> DEFINE S == {n \in Nat : 2^n # 0}
<1>1. 0 \in S
  OBVIOUS
<1>2. \A n \in Nat : n \in S => n + 1 \in S
  BY PowerStep, PowerCounts
<1>3. Nat \subseteq S
  <2> HIDE DEF S
  <2> QED BY <1>1, <1>2, Induction
<1> QED BY <1>3, PowerCounts

\* A shift by m + n is one by m and one by n.
LEMMA PowerSum ==
  ASSUME NEW m \in Nat, NEW n \in Nat
  PROVE  2^(m + n) = 2^m * 2^n
<1> DEFINE S == {k \in Nat : 2^(m + k) = 2^m * 2^k}
<1>1. 0 \in S
  <2>1. m + 0 = m /\ 2^0 = 1 /\ 2^m \in Nat
    BY PowerPositive
  <2>2. 2^(m + 0) = 2^m
    BY <2>1
  <2> QED BY <2>1, <2>2
<1>2. ASSUME NEW k \in Nat, k \in S PROVE k + 1 \in S
  <2>1. 2^((m + k) + 1) = 2 * 2^(m + k) /\ 2^(k + 1) = 2 * 2^k
    BY PowerStep
  <2>2. (m + k) + 1 = m + (k + 1)
    OBVIOUS
  <2>3. 2^(m + k) = 2^m * 2^k /\ 2^m \in Nat /\ 2^k \in Nat
    BY <1>2, PowerPositive
  <2>4. \A a, b, c, d, e \in Int : a = b * c /\ d = 2 * a /\ e = 2 * c => d = b * e
    OBVIOUS
  <2>5. 2^(k + 1) \in Nat /\ 2^(m + k) \in Nat /\ 2^(m + (k + 1)) \in Nat
    BY PowerPositive
  <2> QED BY <2>1, <2>2, <2>3, <2>4, <2>5
<1>3. Nat \subseteq S
  <2> HIDE DEF S
  <2> QED BY <1>1, <1>2, Induction
<1> QED BY <1>3

\* A shift further makes no number smaller.
LEMMA PowerMonotone ==
  ASSUME NEW m \in Nat, NEW n \in Nat, m <= n
  PROVE  2^m <= 2^n
<1>1. n - m \in Nat /\ m + (n - m) = n
  OBVIOUS
<1>2. 2^n = 2^m * 2^(n - m)
  BY <1>1, PowerSum
<1>3. \A a, b \in Nat \ {0} : a <= a * b
  OBVIOUS
<1> QED BY <1>1, <1>2, <1>3, PowerPositive
----------------------------------------------------------------------------
(***************************************************************************)
(* Counting the leading zeroes.                                            *)
(***************************************************************************)
Steps(f, D, x, G, N) ==
  f \in [0 .. N -> D] /\ f[0] = x /\ \A i \in 1 .. N : f[i] = G[i][f[i - 1]]

\* A function that is defined step by step from 0 on exists.
LEMMA StepsExist ==
  ASSUME NEW D, NEW x \in D, NEW G \in [Nat -> [D -> D]], NEW N \in Nat
  PROVE  \E f : Steps(f, D, x, G, N)
<1> DEFINE Defined(k) == \E f \in [0 .. k -> D] :
                           f[0] = x /\ \A i \in 1 .. k : f[i] = G[i][f[i - 1]]
           S == {k \in Nat : Defined(k)}
<1>1. 0 \in S
  <2> DEFINE f == [i \in 0 .. 0 |-> x]
  <2>1. f \in [0 .. 0 -> D] /\ f[0] = x /\ \A i \in 1 .. 0 : f[i] = G[i][f[i - 1]]
    OBVIOUS
  <2>2. Defined(0)
    <3> HIDE DEF f
    <3> QED BY <2>1
  <2> QED BY <2>2
<1>2. ASSUME NEW k \in Nat, k \in S PROVE k + 1 \in S
  <2>1. PICK f \in [0 .. k -> D] : f[0] = x /\ \A i \in 1 .. k : f[i] = G[i][f[i - 1]]
    BY <1>2
  <2> DEFINE g == [i \in 0 .. k + 1 |-> IF i <= k THEN f[i] ELSE G[k + 1][f[k]]]
  <2>2. f[k] \in D /\ G[k + 1][f[k]] \in D
    OBVIOUS
  <2>3. g \in [0 .. k + 1 -> D]
    BY <2>2
  <2>4. g[0] = x
    BY <2>1
  <2>5. ASSUME NEW i \in 1 .. k + 1 PROVE g[i] = G[i][g[i - 1]]
    <3>1. i - 1 \in 0 .. k /\ i \in 0 .. k + 1 /\ g[i - 1] = f[i - 1]
      OBVIOUS
    <3>2. CASE i <= k
      BY <3>1, <3>2, <2>1
    <3>3. CASE i = k + 1
      BY <3>1, <3>3
    <3> QED BY <3>2, <3>3
  <2>6. Defined(k + 1)
    <3> HIDE DEF g
    <3> QED BY <2>3, <2>4, <2>5
  <2> HIDE DEF Defined
  <2> QED BY <2>6
<1>3. Nat \subseteq S
  <2> HIDE DEF S
  <2> QED BY <1>1, <1>2, Induction
<1>4. Defined(N)
  BY <1>3
<1> QED BY <1>4 DEF Steps

\* The widths, with WIDTH = 2^HALVINGS as it is a power of two.
LEMMA Registers ==
  /\ EXP_BITS \in Nat \ {0} /\ MANT_BITS \in Nat \ {0} /\ WIDTH \in Nat /\ WIDTH >= 3
  /\ HALVINGS \in 1 .. WIDTH /\ WIDTH = 2^HALVINGS
<1>1. EXP_BITS \in Nat \ {0} /\ MANT_BITS \in Nat \ {0} /\ WIDTH \in Nat /\ WIDTH >= 3
  BY BitsAssumption DEF WIDTH
<1>2. HALVINGS \in 1 .. WIDTH /\ WIDTH = 2^HALVINGS
  BY RegisterAssumption DEF HALVINGS
<1> QED BY <1>1, <1>2

State == [n : Nat, count : Nat]

\* A halving leaves a number and a count.
LEMMA HalveType ==
  ASSUME NEW acc \in State, NEW half \in Nat
  PROVE  Halve(acc, half) \in State
<1>1. Shl(acc.n, half) \in Nat
  BY PowerPositive, Registers, DivMod DEF Shl, State
<1> QED BY <1>1 DEF Halve, State

\* The width that step i tests is again a power of two.
LEMMA WidthHalves ==
  ASSUME NEW i \in 0 .. HALVINGS
  PROVE  WIDTH \div 2^i = 2^(HALVINGS - i)
<1>1. HALVINGS - i \in Nat /\ i \in Nat /\ (HALVINGS - i) + i = HALVINGS
  BY Registers
<1>2. WIDTH = 2^(HALVINGS - i) * 2^i
  BY <1>1, PowerSum, Registers
<1>3. 2^i \in Nat \ {0} /\ 2^(HALVINGS - i) \in Nat
  BY <1>1, PowerPositive
<1>4. \A q \in Nat, k \in Nat \ {0} : (q * k + 0) \div k = q
  BY DivIs
<1>5. WIDTH = 2^(HALVINGS - i) * 2^i + 0
  BY <1>2, <1>3, Registers
<1> QED BY <1>5, <1>4, <1>3, Zenon

\* The recursive function exists: it starts with n, and each step halves.
LEMMA HalvedSteps ==
  ASSUME NEW n \in Nat
  PROVE  /\ Halved(n) \in [0 .. HALVINGS -> State]
         /\ Halved(n)[0] = [n |-> n, count |-> 0]
         /\ \A i \in 1 .. HALVINGS : Halved(n)[i] = Halve(Halved(n)[i - 1], WIDTH \div 2^i)
<1> DEFINE x == [n |-> n, count |-> 0]
           G == [i \in Nat |-> [acc \in State |-> Halve(acc, WIDTH \div 2^i)]]
           Is(f) == f = [i \in 0 .. HALVINGS |->
                           IF i = 0 THEN x ELSE Halve(f[i - 1], WIDTH \div 2^i)]
<1>1. x \in State
  BY DEF State
<1>2. G \in [Nat -> [State -> State]]
  <2>1. ASSUME NEW acc \in State, NEW i \in Nat PROVE Halve(acc, WIDTH \div 2^i) \in State
    <3>1. WIDTH \div 2^i \in Nat
      BY PowerPositive, DivMod, Registers
    <3> QED BY <3>1, HalveType
  <2> QED BY <2>1
<1>3. HALVINGS \in Nat
  BY Registers
<1> HIDE DEF G, x
<1>4. PICK f : Steps(f, State, x, G, HALVINGS)
  BY <1>1, <1>2, <1>3, StepsExist
<1> USE DEF G, x
<1>5. ASSUME NEW i \in 1 .. HALVINGS PROVE f[i] = Halve(f[i - 1], WIDTH \div 2^i)
  <2>1. f[i - 1] \in State /\ i \in Nat
    BY <1>3, <1>4 DEF Steps
  <2> QED BY <2>1, <1>4 DEF Steps
<1>6. Is(f)
  <2>2. f \in [0 .. HALVINGS -> State]
    BY <1>4 DEF Steps
  <2>1. \A i \in 0 .. HALVINGS : f[i] = IF i = 0 THEN x ELSE Halve(f[i - 1], WIDTH \div 2^i)
    BY <1>3, <1>4, <1>5 DEF Steps
  <2> QED BY <2>1, <2>2
<1>7. Halved(n) = CHOOSE g : Is(g)
  BY DEF Halved
<1>8. Is(CHOOSE g : Is(g))
  <2> HIDE DEF Is
  <2> QED BY <1>6
<1>9. Is(Halved(n))
  BY <1>7, <1>8
<1> DEFINE h == Halved(n)
<1>10. h = [i \in 0 .. HALVINGS |-> IF i = 0 THEN x ELSE Halve(h[i - 1], WIDTH \div 2^i)]
  BY <1>9
<1> HIDE DEF h
<1>11. DOMAIN h = 0 .. HALVINGS /\ h[0] = x
  BY <1>3, <1>10
<1>12. \A i \in 1 .. HALVINGS : h[i] = Halve(h[i - 1], WIDTH \div 2^i)
  BY <1>3, <1>10
<1>13. \A i \in 0 .. HALVINGS : h[i] \in State
  <2> DEFINE S == {i \in Nat : i <= HALVINGS => h[i] \in State}
  <2>1. 0 \in S
    BY <1>1, <1>11
  <2>2. ASSUME NEW i \in Nat, i \in S PROVE i + 1 \in S
    <3>1. CASE i + 1 <= HALVINGS
      <4>1. i + 1 \in 1 .. HALVINGS /\ (i + 1) - 1 = i /\ h[i] \in State
        BY <2>2, <3>1, <1>3
      <4>2. WIDTH \div 2^(i + 1) \in Nat
        BY PowerPositive, DivMod, Registers
      <4> QED BY <4>1, <4>2, <1>12, HalveType
    <3>2. CASE ~(i + 1 <= HALVINGS)
      BY <3>2
    <3> QED BY <3>1, <3>2
  <2>3. Nat \subseteq S
    <3> HIDE DEF S
    <3> QED BY <2>1, <2>2, Induction
  <2> QED BY <2>3, <1>3
<1>14. h = [i \in 0 .. HALVINGS |-> h[i]]
  BY <1>10, <1>11
<1>15. h \in [0 .. HALVINGS -> State]
  BY <1>13, <1>14
<1> QED BY <1>11, <1>12, <1>15 DEF h

(***************************************************************************)
(* After i halvings the bits of n moved up by the count, and none of the   *)
(* upper WIDTH \div 2^i of them was lost: one of these is set.             *)
(***************************************************************************)
Moved(n, acc, i) ==
  /\ acc \in State /\ acc.count <= WIDTH - 2^(HALVINGS - i)
  /\ acc.n = n * 2^acc.count
  /\ 2^(WIDTH - 2^(HALVINGS - i)) <= acc.n /\ acc.n < 2^WIDTH

\* One test of count_leading_left_zeroes keeps Moved, for half the width.
LEMMA HalveMoves ==
  ASSUME NEW n \in Nat, NEW i \in 1 .. HALVINGS, NEW acc,
         Moved(n, acc, i - 1)
  PROVE  Moved(n, Halve(acc, WIDTH \div 2^i), i)
<1> DEFINE half == 2^(HALVINGS - i)
           whole == 2^(HALVINGS - (i - 1))
           res == Halve(acc, half)
<1>1. HALVINGS - i \in Nat /\ HALVINGS - (i - 1) = (HALVINGS - i) + 1 /\ HALVINGS - i <= HALVINGS
  BY Registers
<1>2. half \in Nat \ {0} /\ whole = 2 * half /\ half <= WIDTH /\ WIDTH \div 2^i = half
  BY <1>1, PowerPositive, PowerStep, PowerMonotone, WidthHalves, Registers
<1>3. acc.n \in Nat /\ acc.count \in Nat /\ acc.n = n * 2^acc.count /\ acc.count <= WIDTH - whole
  BY DEF Moved, State
<1>4. 2^(WIDTH - whole) <= acc.n /\ acc.n < 2^WIDTH
  BY DEF Moved
<1>5. whole <= WIDTH
  <2>1. HALVINGS - (i - 1) \in Nat /\ HALVINGS - (i - 1) <= HALVINGS
    BY Registers
  <2> QED BY <2>1, PowerMonotone, Registers
<1> HIDE DEF half, whole
<1>6. WIDTH - half \in Nat /\ WIDTH - whole \in Nat /\ WIDTH \in Nat /\ WIDTH - half = (WIDTH - whole) + half
  BY <1>2, <1>5, Registers
<1>7. /\ 2^(WIDTH - half) \in Nat \ {0} /\ 2^half \in Nat \ {0} /\ 2^WIDTH \in Nat \ {0}
      /\ 2^(WIDTH - whole) \in Nat \ {0} /\ 2^acc.count \in Nat \ {0}
  BY <1>2, <1>3, <1>6, PowerPositive
<1>8. 2^WIDTH = 2^(WIDTH - half) * 2^half
  <2>1. (WIDTH - half) + half = WIDTH
    BY <1>2, <1>6
  <2> QED BY <2>1, <1>2, <1>6, PowerSum
<1>9. res \in State
  BY <1>2, HalveType DEF Moved
<1>10. CASE Shr(acc.n, WIDTH - half) = 0
  <2>1. acc.n < 2^(WIDTH - half)
    <3>1. acc.n \div 2^(WIDTH - half) = 0
      BY <1>10 DEF Shr
    <3> HIDE DEF res
    <3> QED BY <3>1, <1>3, <1>7, DivZero
  <2>2. acc.n * 2^half \in Nat /\ acc.n * 2^half < 2^WIDTH
    <3>1. \A a, b, c \in Nat : a < b /\ c # 0 => a * c \in Nat /\ a * c < b * c
      OBVIOUS
    <3> QED BY <3>1, <2>1, <1>3, <1>7, <1>8
  <2>3. Shl(acc.n, half) = acc.n * 2^half
    <3>1. \A a, b \in Nat : a < b => a % b = a
      OBVIOUS
    <3> QED BY <3>1, <2>2, <1>7 DEF Shl
  <2>4. res.n = acc.n * 2^half /\ res.count = acc.count + half
    BY <1>10, <2>3 DEF Halve
  <2>5. 2^(acc.count + half) = 2^acc.count * 2^half
    BY <1>2, <1>3, PowerSum
  <2>6. res.n = n * 2^res.count
    <3>1. \A a, b, c \in Nat : (a * b) * c = a * (b * c)
      OBVIOUS
    <3> QED BY <3>1, <2>4, <2>5, <1>3, <1>7
  <2>7. 2^(WIDTH - half) <= res.n
    <3>1. 2^(WIDTH - half) = 2^(WIDTH - whole) * 2^half
      BY <1>2, <1>6, PowerSum
    <3>2. \A a, b, c \in Nat : a <= b => a * c <= b * c
      OBVIOUS
    <3> QED BY <3>1, <3>2, <2>4, <1>3, <1>4, <1>7
  <2>8. res.count <= WIDTH - half
    <3> HIDE DEF res
    <3> QED BY <2>4, <1>2, <1>3, <1>6
  <2> HIDE DEF res
  <2>9. res.n < 2^WIDTH
    BY <2>2, <2>4
  <2>10. Moved(n, res, i)
    BY <1>9, <2>6, <2>7, <2>8, <2>9 DEF Moved, half
  <2> QED BY <2>10, <1>2 DEF res
<1>11. CASE Shr(acc.n, WIDTH - half) # 0
  <2>1. 2^(WIDTH - half) <= acc.n
    <3>1. acc.n \div 2^(WIDTH - half) # 0
      BY <1>11 DEF Shr
    <3> HIDE DEF res
    <3> QED BY <3>1, <1>3, <1>7, DivZero
  <2>2. res = acc
    BY <1>11 DEF Halve
  <2>3. acc.count <= WIDTH - half
    BY <1>2, <1>3, <1>6
  <2> HIDE DEF res
  <2>4. Moved(n, acc, i)
    BY <1>9, <2>2, <1>3, <1>4, <2>1, <2>3 DEF Moved, half
  <2> QED BY <2>4, <2>2, <1>2 DEF res
<1> QED BY <1>10, <1>11

(***************************************************************************)
(* count_leading_left_zeroes (probe.c:123) counts the zeroes above the     *)
(* most significant bit, for every number of a register.                   *)
(***************************************************************************)
THEOREM CountLeadingZeroes ==
  ASSUME NEW n \in Nat, n # 0, n < 2^WIDTH
  PROVE  /\ count_leading_left_zeroes(n) \in 0 .. WIDTH - 1
         /\ 2^(WIDTH - 1) <= n * 2^count_leading_left_zeroes(n)
         /\ n * 2^count_leading_left_zeroes(n) < 2^WIDTH
<1> DEFINE h == Halved(n)
           S == {i \in Nat : i <= HALVINGS => Moved(n, h[i], i)}
<1>1. /\ h \in [0 .. HALVINGS -> State] /\ h[0] = [n |-> n, count |-> 0]
      /\ \A i \in 1 .. HALVINGS : h[i] = Halve(h[i - 1], WIDTH \div 2^i)
  BY HalvedSteps
<1> HIDE DEF h
<1>2. 0 \in S
  <2>1. 2^(WIDTH - 2^(HALVINGS - 0)) = 1
    BY Registers
  <2>2. h[0] \in State /\ h[0].n = n /\ h[0].count = 0
    BY <1>1, Registers
  <2>3. h[0].n = n * 2^h[0].count
    BY <2>2
  <2>4. 0 <= WIDTH - 2^(HALVINGS - 0)
    BY Registers
  <2>5. 1 <= n
    OBVIOUS
  <2>6. Moved(n, h[0], 0)
    BY <2>1, <2>2, <2>3, <2>4, <2>5 DEF Moved
  <2> QED BY <2>6
<1>3. ASSUME NEW i \in Nat, i \in S PROVE i + 1 \in S
  <2>1. CASE i + 1 <= HALVINGS
    <3>1. i + 1 \in 1 .. HALVINGS /\ (i + 1) - 1 = i /\ Moved(n, h[i], i)
      BY <1>3, <2>1, Registers
    <3>2. Moved(n, Halve(h[i], WIDTH \div 2^(i + 1)), i + 1)
      BY <3>1, HalveMoves
    <3>3. h[i + 1] = Halve(h[i], WIDTH \div 2^(i + 1))
      BY <3>1, <1>1
    <3>4. Moved(n, h[i + 1], i + 1)
      BY <3>2, <3>3
    <3> QED BY <3>4
  <2>2. CASE ~(i + 1 <= HALVINGS)
    BY <2>2
  <2> QED BY <2>1, <2>2
<1>4. Nat \subseteq S
  <2> HIDE DEF S
  <2> QED BY <1>2, <1>3, Induction
<1>5. Moved(n, h[HALVINGS], HALVINGS)
  BY <1>4, Registers
<1>6. 2^(HALVINGS - HALVINGS) = 1
  BY Registers
<1>7. count_leading_left_zeroes(n) = h[HALVINGS].count
  BY DEF count_leading_left_zeroes, h
<1> QED BY <1>5, <1>6, <1>7, Registers DEF Moved, State
----------------------------------------------------------------------------
(***************************************************************************)
(* The fields of a number.                                                 *)
(***************************************************************************)
\* The widths as factors and bounds of one another.
LEMMA Bits ==
  /\ HIDDEN \in Nat /\ HIDDEN >= 2 /\ EXP_MASK \in Nat /\ 2^EXP_BITS = EXP_MASK + 1
  /\ SIGN_BIT \in Nat /\ SIGN_BIT = (EXP_MASK + 1) * HIDDEN
  /\ 2^(MANT_BITS + 1) = 2 * HIDDEN
  /\ 2^(WIDTH - 1) = SIGN_BIT /\ 2^WIDTH = 2 * SIGN_BIT
  /\ MANT_BITS + 2 <= EXP_MASK /\ MANT_BITS + 1 <= WIDTH - 1
<1>1. EXP_BITS \in Nat \ {0} /\ MANT_BITS \in Nat \ {0} /\ WIDTH = 1 + EXP_BITS + MANT_BITS
  BY BitsAssumption DEF WIDTH
<1>2. 2^EXP_BITS \in Nat \ {0} /\ HIDDEN \in Nat \ {0}
  BY <1>1, PowerPositive DEF HIDDEN
<1>3. HIDDEN >= 2
  <2>1. 1 \in Nat /\ MANT_BITS \in Nat /\ 1 <= MANT_BITS
    BY <1>1
  <2>2. 2^1 <= 2^MANT_BITS
    BY <2>1, PowerMonotone, Zenon
  <2> QED BY <2>2, <1>2 DEF HIDDEN
<1>4. EXP_MASK \in Nat /\ 2^EXP_BITS = EXP_MASK + 1
  BY <1>2 DEF EXP_MASK
<1>5. SIGN_BIT = (EXP_MASK + 1) * HIDDEN /\ SIGN_BIT \in Nat
  <2>1. 2^(EXP_BITS + MANT_BITS) = 2^EXP_BITS * 2^MANT_BITS
    BY <1>1, PowerSum
  <2> QED BY <2>1, <1>2, <1>4 DEF SIGN_BIT, HIDDEN
<1>6. 2^(MANT_BITS + 1) = 2 * HIDDEN
  BY <1>1, PowerStep DEF HIDDEN
<1>7. 2^(WIDTH - 1) = SIGN_BIT /\ 2^WIDTH = 2 * SIGN_BIT
  <2>1. WIDTH - 1 = EXP_BITS + MANT_BITS /\ WIDTH = (EXP_BITS + MANT_BITS) + 1
    BY <1>1
  <2>2. EXP_BITS + MANT_BITS \in Nat
    BY <1>1
  <2> QED BY <2>1, <2>2, PowerStep DEF SIGN_BIT
<1>8. MANT_BITS + 2 <= EXP_MASK /\ MANT_BITS + 1 <= WIDTH - 1
  BY <1>1, RangeAssumption
<1> QED BY <1>2, <1>3, <1>4, <1>5, <1>6, <1>7, <1>8

Packed(s, e, f) == s * SIGN_BIT + e * HIDDEN + f

\* The fields of what is put together are those it was put together from.
LEMMA PackedFields ==
  ASSUME NEW s \in {0, 1}, NEW e \in 0 .. EXP_MASK, NEW f \in 0 .. HIDDEN - 1
  PROVE  /\ Packed(s, e, f) \in Numbers
         /\ sign(Packed(s, e, f)) = s
         /\ exponent(Packed(s, e, f)) = e
         /\ fraction(Packed(s, e, f)) = f
<1> DEFINE x == Packed(s, e, f)
           low == e * HIDDEN + f
           high == s * (EXP_MASK + 1) + e
<1>1. low \in 0 .. SIGN_BIT - 1
  <2>1. \A h, g \in Nat : \A i \in 0 .. g, j \in 0 .. h - 1 : i * h + j \in 0 .. (g + 1) * h - 1
    <3> SUFFICES ASSUME NEW h \in Nat, NEW g \in Nat, NEW i \in 0 .. g, NEW j \in 0 .. h - 1
                 PROVE  i * h + j \in 0 .. (g + 1) * h - 1
      OBVIOUS
    <3>1. i * h \in Nat /\ i * h <= g * h /\ (g + 1) * h = g * h + h /\ g * h \in Nat
      OBVIOUS
    <3> QED BY <3>1
  <2> QED BY <2>1, Bits
<1>2. x = s * SIGN_BIT + low /\ x \in Numbers
  <2>1. e * HIDDEN \in Nat
    BY Bits
  <2> HIDE DEF low
  <2>2. x = s * SIGN_BIT + low
    BY <2>1, Bits DEF Packed, low
  <2> QED BY <2>2, <1>1, Bits DEF Numbers
<1>3. high \in Nat /\ x = high * HIDDEN + f
  <2>1. \A k, h \in Nat, i \in {0, 1} : i * (k * h) + e * h + f = (i * k + e) * h + f
    <3> SUFFICES ASSUME NEW k \in Nat, NEW h \in Nat, NEW i \in {0, 1}
                 PROVE  i * (k * h) + e * h + f = (i * k + e) * h + f
      OBVIOUS
    <3> QED OBVIOUS
  <2> QED BY <2>1, Bits DEF Packed
<1>4. sign(x) = s
  <2> HIDE DEF low
  <2>1. SIGN_BIT \in Nat \ {0} /\ s \in Nat
    BY <1>1, Bits
  <2>2. (s * SIGN_BIT + low) \div SIGN_BIT = s
    BY <2>1, <1>1, DivIs, Zenon
  <2> QED BY <2>2, <1>2 DEF sign, Shr, SIGN_BIT
<1>5. x \div HIDDEN = high /\ x % HIDDEN = f
  <2> HIDE DEF x, high
  <2>1. HIDDEN \in Nat \ {0}
    BY Bits
  <2> QED BY <2>1, <1>3, DivIs, Zenon
<1>6. high % (EXP_MASK + 1) = e
  <2>1. EXP_MASK + 1 \in Nat \ {0} /\ (EXP_MASK + 1) - 1 = EXP_MASK /\ s \in Nat
    BY Bits
  <2> QED BY <2>1, DivIs, Zenon
<1>7. exponent(x) = e
  BY <1>5, <1>6, Bits DEF exponent, Shr, HIDDEN
<1>8. fraction(x) = f
  BY <1>5 DEF fraction
<1> QED BY <1>2, <1>4, <1>7, <1>8

\* Every number is put together from its fields.
LEMMA Fields ==
  ASSUME NEW x \in Numbers
  PROVE  /\ sign(x) \in {0, 1} /\ exponent(x) \in 0 .. EXP_MASK /\ fraction(x) \in 0 .. HIDDEN - 1
         /\ x = Packed(sign(x), exponent(x), fraction(x))
<1> DEFINE q == x \div HIDDEN
           f == x % HIDDEN
           t == q \div (EXP_MASK + 1)
           e == q % (EXP_MASK + 1)
<1>1. x \in Nat /\ x < 2 * SIGN_BIT
  BY Bits DEF Numbers
<1>2. q \in Nat /\ f \in 0 .. HIDDEN - 1 /\ x = HIDDEN * q + f
  <2>1. HIDDEN \in Nat \ {0}
    BY Bits
  <2> QED BY <2>1, <1>1, DivMod, Zenon
<1> HIDE DEF q, f
<1>3. t \in Nat /\ e \in 0 .. EXP_MASK /\ q = (EXP_MASK + 1) * t + e
  <2>1. EXP_MASK + 1 \in Nat \ {0} /\ (EXP_MASK + 1) - 1 = EXP_MASK
    BY Bits
  <2> QED BY <1>2, <2>1, DivMod, Zenon
<1> HIDE DEF t, e
<1>4. x = t * SIGN_BIT + e * HIDDEN + f
  <2>1. \A h, k, i, j, m, n \in Nat : n = k * i + j => h * n + m = i * (k * h) + j * h + m
    OBVIOUS
  <2> QED BY <2>1, <1>2, <1>3, Bits
<1>5. t \in {0, 1}
  <2>1. \A a, b \in Nat : a * b < 2 * b => a < 2
    OBVIOUS
  <2>2. e * HIDDEN \in Nat /\ t * SIGN_BIT \in Nat
    BY <1>3, Bits
  <2>3. t * SIGN_BIT <= x
    BY <2>2, <1>2, <1>4
  <2>4. t * SIGN_BIT < 2 * SIGN_BIT
    BY <1>1, <2>2, <2>3, Bits
  <2>5. t < 2
    BY <2>1, <2>4, <1>3, Bits
  <2> QED BY <2>5, <1>3
<1>6. x = Packed(t, e, f)
  BY <1>4 DEF Packed
<1> QED BY <1>2, <1>3, <1>5, <1>6, PackedFields

\* The hidden bit is set in the mantissa of a number with an exponent.
LEMMA MantissaBounds ==
  ASSUME NEW x \in Numbers
  PROVE  /\ mantissa(x) \in 0 .. 2 * HIDDEN - 1
         /\ exponent(x) # 0 => mantissa(x) >= HIDDEN
         /\ exponent(x) = 0 => mantissa(x) < HIDDEN
BY Fields, Bits DEF mantissa
----------------------------------------------------------------------------
(***************************************************************************)
(* Aligning and normalizing.                                               *)
(***************************************************************************)
Ordered(l, s) == \/ exponent(l) > exponent(s)
                 \/ exponent(l) = exponent(s) /\ mantissa(l) >= mantissa(s)

\* A mantissa that is shifted right keeps its quotient, even when the shift
\* is capped at the width of a register.
LEMMA ShiftedOut ==
  ASSUME NEW m \in 0 .. 2 * HIDDEN - 1, NEW d \in Nat
  PROVE  /\ Shr(m, Capped(d)) \in Nat
         /\ Shr(m, Capped(d)) * 2^d <= m /\ m < (Shr(m, Capped(d)) + 1) * 2^d
<1>1. \A k \in Nat : 2^k \in Nat \ {0}
  BY PowerPositive
<1>2. WIDTH \in Nat /\ m \in Nat
  BY Registers, Bits
<1>3. CASE d <= WIDTH - 1
  <2>1. m \div 2^d \in Nat /\ m % 2^d \in 0 .. 2^d - 1 /\ m = 2^d * (m \div 2^d) + (m % 2^d)
    BY <1>1, <1>2, DivMod, Zenon
  <2>2. Shr(m, Capped(d)) = m \div 2^d
    BY <1>2, <1>3 DEF Shr, Capped
  <2>3. \A q, p, r \in Nat : m = p * q + r /\ r < p => q * p <= m /\ m < (q + 1) * p
    BY <1>2
  <2> QED BY <2>1, <2>2, <2>3, <1>1
<1>4. CASE d > WIDTH - 1
  <2>1. WIDTH - 1 \in Nat /\ WIDTH - 1 <= d
    BY <1>4, Registers
  <2>2. 2^(WIDTH - 1) <= 2^d /\ 2^(MANT_BITS + 1) <= 2^(WIDTH - 1)
    <3>1. MANT_BITS + 1 \in Nat /\ MANT_BITS + 1 <= WIDTH - 1
      BY Bits, Registers
    <3> QED BY <3>1, <2>1, PowerMonotone
  <2>3. m < 2^(WIDTH - 1) /\ m < 2^d
    BY <2>1, <2>2, <1>1, <1>2, Bits
  <2>4. Shr(m, Capped(d)) = 0
    <3>1. Shr(m, Capped(d)) = m \div 2^(WIDTH - 1)
      BY <1>2, <1>4 DEF Shr, Capped
    <3>2. m \div 2^(WIDTH - 1) = 0
      BY <1>1, <1>2, <2>1, <2>3, DivZero
    <3> QED BY <3>1, <3>2
  <2> QED BY <2>3, <2>4, <1>1, <1>2
<1> QED BY <1>2, <1>3, <1>4

(***************************************************************************)
(* The result of a normalization.  shift moved the most significant bit to *)
(* the hidden one and made k of m; rest is what a shift to the right lost. *)
(***************************************************************************)
Fitted(m, shift, k, rest) ==
  /\ shift \in -MANT_BITS .. 1 /\ k \in HIDDEN .. 2 * HIDDEN - 1 /\ rest \in {0, 1}
  /\ shift = 1 => m = 2 * k + rest
  /\ shift < 1 => k = m * 2^(-shift) /\ rest = 0

\* The most significant bit goes where the hidden bit is, and an exponent that
\* does not fit makes the result 0.
LEMMA NormalizedIs ==
  ASSUME NEW s \in {0, 1}, NEW e \in 0 .. EXP_MASK, NEW m \in 1 .. 4 * HIDDEN - 1
  PROVE  \E shift \in -MANT_BITS .. 1, k \in HIDDEN .. 2 * HIDDEN - 1, rest \in {0, 1} :
           /\ Fitted(m, shift, k, rest)
           /\ Normalized(s, e, m) = IF e + shift > EXP_MASK - 1 \/ e + shift < 0 THEN 0
                                    ELSE Packed(s, e + shift, k - HIDDEN)
<1> DEFINE c == count_leading_left_zeroes(m)
           shift == (WIDTH - 1 - c) - MANT_BITS
           m_res == IF shift > 0 THEN Shr(m, Capped(shift)) ELSE Shl(m, Capped(-shift))
<1>1. /\ WIDTH \in Nat /\ MANT_BITS \in Nat /\ MANT_BITS + 1 <= WIDTH - 1
      /\ HIDDEN \in Nat /\ HIDDEN >= 2 /\ EXP_MASK \in Nat /\ SIGN_BIT \in Nat
      /\ 2^WIDTH = 2 * SIGN_BIT /\ 2^(WIDTH - 1) = SIGN_BIT
  BY Registers, Bits
<1>2. 4 * HIDDEN <= 2^WIDTH
  <2>1. MANT_BITS + 2 \in Nat /\ MANT_BITS + 2 <= WIDTH /\ MANT_BITS + 1 \in Nat
        /\ MANT_BITS + 2 = (MANT_BITS + 1) + 1
    BY <1>1
  <2>2. 2^(MANT_BITS + 2) <= 2^WIDTH
    BY <2>1, <1>1, PowerMonotone
  <2>3. 2^(MANT_BITS + 2) = 2 * 2^(MANT_BITS + 1)
    BY <2>1, PowerStep
  <2> QED BY <2>2, <2>3, <1>1, Bits
<1>3. m \in Nat /\ m # 0 /\ m < 2^WIDTH /\ m < 4 * HIDDEN
  BY <1>1, <1>2
<1>4. c \in 0 .. WIDTH - 1 /\ 2^(WIDTH - 1) <= m * 2^c /\ m * 2^c < 2^WIDTH
  BY <1>3, CountLeadingZeroes
<1> HIDE DEF c
<1>5. \A k \in Nat : 2^k \in Nat \ {0}
  BY PowerPositive
<1>6. shift \in Int /\ c = WIDTH - 1 - MANT_BITS - shift
  BY <1>1, <1>4
<1>7. shift <= 1
  <2> SUFFICES ASSUME shift >= 2 PROVE FALSE
    BY <1>6
  <2>1. c + (MANT_BITS + 2) <= WIDTH - 1 /\ MANT_BITS + 2 \in Nat /\ c \in Nat
    BY <1>1, <1>4
  <2>2. 2^(c + (MANT_BITS + 2)) <= 2^(WIDTH - 1)
    BY <2>1, <1>1, PowerMonotone
  <2>3. 2^(c + (MANT_BITS + 2)) = 2^c * (4 * HIDDEN)
    <3>1. 2^(c + (MANT_BITS + 2)) = 2^c * 2^(MANT_BITS + 2)
      BY <2>1, PowerSum
    <3>2. MANT_BITS + 2 = (MANT_BITS + 1) + 1 /\ MANT_BITS + 1 \in Nat
      BY <1>1
    <3>3. 2^(MANT_BITS + 2) = 2 * 2^(MANT_BITS + 1)
      BY <3>2, PowerStep
    <3>4. 2^(MANT_BITS + 2) = 4 * HIDDEN
      BY <3>3, <1>1, Bits
    <3> QED BY <3>1, <3>4
  <2>4. \A a, b, p \in Nat : a < b /\ p # 0 => a * p < p * b
    OBVIOUS
  <2>5. m * 2^c < 2^c * (4 * HIDDEN)
    <3>1. 4 * HIDDEN \in Nat /\ 2^c \in Nat /\ 2^c # 0
      BY <1>1, <1>5, <2>1
    <3> QED BY <3>1, <2>4, <1>3
  <2>6. m * 2^c \in Nat /\ 2^c * (4 * HIDDEN) \in Nat
    BY <1>1, <1>3, <1>5, <2>1
  <2> QED BY <2>2, <2>3, <2>5, <2>6, <1>1, <1>4
<1>8. shift >= -MANT_BITS
  BY <1>1, <1>4
<1>9. CASE shift = 1
  <2>1. c \in Nat /\ MANT_BITS + 1 \in Nat /\ WIDTH - 1 = c + (MANT_BITS + 1)
    BY <1>1, <1>4, <1>9
  <2>2. SIGN_BIT = 2^c * (2 * HIDDEN)
    BY <2>1, PowerSum, Bits
  <2>3. 2 * HIDDEN <= m
    <3>1. \A a, b, p \in Nat : p * b <= a * p /\ p # 0 => b <= a
      OBVIOUS
    <3>2. 2^c * (2 * HIDDEN) <= m * 2^c
      BY <2>2, <1>1, <1>4
    <3>3. 2 * HIDDEN \in Nat /\ 2^c \in Nat /\ 2^c # 0
      BY <1>1, <1>5, <2>1
    <3> QED BY <3>1, <3>2, <3>3, <1>3
  <2>4. m_res = m \div 2
    <3> HIDE DEF shift
    <3>1. Capped(shift) = 1 /\ shift > 0
      BY <1>1, <1>9 DEF Capped
    <3>2. m_res = m \div 2^1
      BY <3>1 DEF Shr, m_res
    <3> QED BY <3>2
  <2>5. m_res \in HIDDEN .. 2 * HIDDEN - 1 /\ m % 2 \in {0, 1} /\ m = 2 * m_res + (m % 2)
    BY <2>3, <2>4, <1>1, <1>3
  <2> HIDE DEF m_res, shift
  <2>6. Fitted(m, shift, m_res, m % 2)
    BY <2>5, <1>1, <1>9 DEF Fitted
  <2>7. m_res % HIDDEN = m_res - HIDDEN
    <3>1. \A h, x \in Nat : h # 0 /\ h <= x /\ x < 2 * h => x % h = x - h
      OBVIOUS
    <3>2. m_res \in Nat /\ HIDDEN \in Nat /\ HIDDEN # 0 /\ HIDDEN <= m_res /\ m_res < 2 * HIDDEN
      BY <2>5, <1>1
    <3> QED BY <3>1, <3>2, Zenon
  <2>8. Normalized(s, e, m) = IF e + shift > EXP_MASK - 1 \/ e + shift < 0 THEN 0
                              ELSE Packed(s, e + shift, m_res - HIDDEN)
    BY <2>7 DEF Normalized, Packed, m_res, shift, c
  <2> QED BY <2>5, <2>6, <2>8, <1>1, <1>9
<1>10. CASE shift <= 0
  <2>1. -shift \in Nat /\ -shift <= MANT_BITS /\ Capped(-shift) = -shift
    BY <1>1, <1>6, <1>8, <1>10 DEF Capped
  <2> DEFINE p == 2^(-shift)
             g == 2^(WIDTH - 1 - MANT_BITS)
  <2>2. c = (-shift) + (WIDTH - 1 - MANT_BITS) /\ WIDTH - 1 - MANT_BITS \in Nat
    BY <1>1, <1>6
  <2>3. 2^c = p * g /\ p \in Nat \ {0} /\ g \in Nat \ {0}
    BY <2>1, <2>2, <1>5, PowerSum
  <2>4. SIGN_BIT = HIDDEN * g
    <3>1. WIDTH - 1 = MANT_BITS + (WIDTH - 1 - MANT_BITS)
      BY <1>1
    <3>2. 2^(MANT_BITS + (WIDTH - 1 - MANT_BITS)) = 2^MANT_BITS * g
      BY <2>2, <1>1, PowerSum
    <3> QED BY <3>1, <3>2, <1>1 DEF HIDDEN
  <2> HIDE DEF p, g, shift
  <2>5. m * p \in HIDDEN .. 2 * HIDDEN - 1
    <3>1. m * p \in Nat
      BY <2>3, <1>3
    <3>2. m * 2^c = (m * p) * g
      <4>1. \A a, x, y \in Nat : a * (x * y) = (a * x) * y
        OBVIOUS
      <4> QED BY <4>1, <2>3, <1>3
    <3>3. HIDDEN * g <= (m * p) * g /\ (m * p) * g < (2 * HIDDEN) * g
      <4>1. \A h, x \in Nat : 2 * (h * x) = (2 * h) * x
        OBVIOUS
      <4> QED BY <4>1, <3>2, <2>3, <2>4, <1>1, <1>4
    <3>4. \A a, b, x \in Nat : (a * x <= b * x /\ x # 0 => a <= b) /\ (a * x < b * x => a < b)
      OBVIOUS
    <3>5. 2 * HIDDEN \in Nat
      BY <1>1
    <3> QED BY <3>1, <3>3, <3>4, <3>5, <2>3, <1>1
  <2>6. m_res = m * p
    <3>1. m_res = (m * p) % 2^WIDTH
      BY <2>1, <1>6, <1>10 DEF m_res, Shl, p
    <3>2. m * p \in Nat /\ m * p < 2^WIDTH
      BY <2>5, <1>1, <1>2
    <3>3. \A a, b \in Nat : a < b => a % b = a
      OBVIOUS
    <3>4. 2^WIDTH \in Nat
      BY <1>1
    <3> QED BY <3>1, <3>2, <3>3, <3>4
  <2> HIDE DEF m_res
  <2>7. Fitted(m, shift, m_res, 0)
    BY <2>5, <2>6, <1>1, <1>6, <1>8, <1>10 DEF Fitted, p
  <2>8. m_res % HIDDEN = m_res - HIDDEN
    <3>1. \A h, x \in Nat : h # 0 /\ h <= x /\ x < 2 * h => x % h = x - h
      OBVIOUS
    <3>2. m_res \in Nat /\ HIDDEN <= m_res /\ m_res < 2 * HIDDEN
      BY <2>5, <2>6, <1>1
    <3> QED BY <3>1, <3>2, <1>1
  <2>9. Normalized(s, e, m) = IF e + shift > EXP_MASK - 1 \/ e + shift < 0 THEN 0
                              ELSE Packed(s, e + shift, m_res - HIDDEN)
    BY <2>8 DEF Normalized, Packed, m_res, shift, c
  <2>10. m_res \in HIDDEN .. 2 * HIDDEN - 1 /\ shift \in -MANT_BITS .. 1
    BY <2>5, <2>6, <1>1, <1>6, <1>8, <1>10
  <2> QED BY <2>7, <2>9, <2>10
<1> QED BY <1>6, <1>7, <1>9, <1>10

Gap(l, s) == mantissa(s) * Scale(s) - Aligned(l, s) * Scale(l)

\* The scale of a number is half of 2^exponent, and 1 without an exponent.
LEMMA Scales ==
  ASSUME NEW x \in Numbers
  PROVE  /\ Scale(x) \in Nat \ {0}
         /\ exponent(x) = 0 => Scale(x) = 1
         /\ exponent(x) > 0 => 2^exponent(x) = 2 * Scale(x)
<1>1. exponent(x) \in Nat
  BY Fields, Bits
<1>2. CASE exponent(x) = 0
  BY <1>2 DEF Scale
<1>3. CASE exponent(x) > 0
  <2>1. exponent(x) - 1 \in Nat /\ (exponent(x) - 1) + 1 = exponent(x)
    BY <1>1, <1>3
  <2>2. Scale(x) = 2^(exponent(x) - 1)
    BY <1>3 DEF Scale
  <2>3. 2^((exponent(x) - 1) + 1) = 2 * 2^(exponent(x) - 1)
    BY <2>1, PowerStep
  <2> QED BY <2>1, <2>2, <2>3, <1>3, PowerPositive
<1> QED BY <1>1, <1>2, <1>3

\* The scale of the larger number is that of the smaller one, moved.
LEMMA ScalesApart ==
  ASSUME NEW l \in Numbers, NEW s \in Numbers, 0 < exponent(s), exponent(s) <= exponent(l)
  PROVE  Scale(l) = 2^(exponent(l) - exponent(s)) * Scale(s)
<1>1. exponent(l) \in Nat /\ exponent(s) \in Nat
  BY Fields, Bits
<1>2. /\ exponent(l) - exponent(s) \in Nat /\ exponent(s) - 1 \in Nat
      /\ exponent(l) - 1 = (exponent(l) - exponent(s)) + (exponent(s) - 1)
  BY <1>1
<1>3. Scale(l) = 2^(exponent(l) - 1) /\ Scale(s) = 2^(exponent(s) - 1)
  BY <1>1 DEF Scale
<1> QED BY <1>2, <1>3, PowerSum

(***************************************************************************)
(* The gap is what the alignment of the mantissas lost of the smaller      *)
(* number: less than a unit of the larger one's last place.  A number that *)
(* is not normal is halved more than its exponent says.                    *)
(***************************************************************************)
LEMMA GapBounds ==
  ASSUME NEW l \in Numbers, NEW s \in Numbers, exponent(s) <= exponent(l)
  PROVE  /\ Aligned(l, s) \in Nat /\ Gap(l, s) \in Nat /\ Flushed(s) \in Nat
         /\ Gap(l, s) < Scale(l) + Flushed(s)
         /\ exponent(l) = exponent(s) => Gap(l, s) = 0 /\ Aligned(l, s) = mantissa(s)
         /\ exponent(l) > exponent(s) => Aligned(l, s) < HIDDEN
         /\ exponent(l) > MANT_BITS => Gap(l, s) < Scale(l)
<1> DEFINE d == exponent(l) - exponent(s)
           A == Aligned(l, s)
           m == mantissa(s)
           G == Gap(l, s)
           sl == Scale(l)
           ss == Scale(s)
<1>1. exponent(l) \in Nat /\ exponent(s) \in Nat /\ d \in Nat
  BY Fields, Bits
<1>2. m \in 0 .. 2 * HIDDEN - 1 /\ m \in Nat /\ (exponent(s) = 0 => m < HIDDEN)
  BY MantissaBounds, Bits
<1>3. A \in Nat /\ A * 2^d <= m /\ m < (A + 1) * 2^d
  <2> HIDE DEF d, m
  <2>1. A = Shr(m, Capped(d))
    BY DEF Aligned, d, m
  <2> QED BY <2>1, <1>1, <1>2, ShiftedOut
<1>4. sl \in Nat \ {0} /\ ss \in Nat \ {0} /\ 2^d \in Nat \ {0}
  BY <1>1, Scales, PowerPositive
<1>5. G = m * ss - A * sl
  BY DEF Gap
<1>6. exponent(s) = 0 => Flushed(s) = m
  BY DEF Flushed, IsNormal
<1>7. Flushed(s) \in Nat
  BY <1>2 DEF Flushed
<1>8. d # 0 => A < HIDDEN
  <2> SUFFICES ASSUME d # 0 PROVE A < HIDDEN
    OBVIOUS
  <2>1. 2^1 <= 2^d
    <3>1. 1 \in Nat /\ 1 <= d
      BY <1>1
    <3> QED BY <3>1, <1>1, PowerMonotone, Zenon
  <2>2. \A a, p, n \in Nat : 2 <= p /\ a * p <= n => 2 * a <= n
    OBVIOUS
  <2>3. 2 * A <= m
    <3>1. 2 <= 2^d
      BY <2>1
    <3> QED BY <3>1, <2>2, <1>2, <1>3, <1>4
  <2> QED BY <2>3, <1>2, <1>3, Bits
<1> HIDE DEF A, m, G, sl, ss
<1>9. CASE d = 0
  <2>1. 2^d = 1 /\ exponent(l) = exponent(s)
    <3>1. exponent(l) = exponent(s)
      BY <1>1, <1>9
    <3> HIDE DEF d
    <3>2. 2^d = 1
      BY <1>9
    <3> QED BY <3>1, <3>2
  <2>2. A = m
    BY <2>1, <1>2, <1>3
  <2>3. sl = ss
    BY <2>1 DEF sl, ss, Scale
  <2>4. G = 0
    BY <2>2, <2>3, <1>2, <1>4, <1>5
  <2> QED BY <2>1, <2>2, <2>4, <1>1, <1>3, <1>4, <1>7 DEF A, G, m, sl
<1>10. CASE d # 0 /\ exponent(s) # 0
  <2>1. sl = 2^d * ss
    BY <1>1, <1>10, ScalesApart DEF sl, ss
  <2>2. \A a, n, p, u \in Nat :
          a * p <= n /\ n < (a + 1) * p /\ u # 0
            => n * u - a * (p * u) \in Nat /\ n * u - a * (p * u) < p * u
    <3> SUFFICES ASSUME NEW a \in Nat, NEW n \in Nat, NEW p \in Nat, NEW u \in Nat \ {0},
                        a * p <= n, n < (a + 1) * p
                 PROVE  n * u - a * (p * u) \in Nat /\ n * u - a * (p * u) < p * u
      OBVIOUS
    <3>1. a * p \in Nat /\ p * u \in Nat /\ n * u \in Nat /\ (a + 1) * p = a * p + p
      OBVIOUS
    <3>2. n - a * p \in Nat /\ n - a * p < p /\ n * u - a * (p * u) = (n - a * p) * u
      BY <3>1
    <3>3. \A x, y \in Nat : x < y => x * u \in Nat /\ x * u < y * u
      OBVIOUS
    <3> QED BY <3>2, <3>3
  <2>3. G \in Nat /\ G < sl
    BY <2>1, <2>2, <1>2, <1>3, <1>4, <1>5
  <2> QED BY <2>3, <1>1, <1>3, <1>4, <1>7, <1>8, <1>10 DEF A, G, sl
<1>11. CASE d # 0 /\ exponent(s) = 0
  <2>1. ss = 1 /\ d = exponent(l) /\ 2^d = 2 * sl
    BY <1>1, <1>11, Scales DEF ss, sl
  <2>2. A * sl \in Nat /\ A * sl <= m
    <3>1. A * 2^d = 2 * (A * sl) /\ A * sl \in Nat
      BY <2>1, <1>3, <1>4
    <3> QED BY <3>1, <1>2, <1>3
  <2>3. G \in Nat /\ G <= m
    BY <2>1, <2>2, <1>2, <1>5
  <2>4. exponent(l) > MANT_BITS => m < sl
    <3> SUFFICES ASSUME exponent(l) > MANT_BITS PROVE m < sl
      OBVIOUS
    <3>1. MANT_BITS + 1 \in Nat /\ MANT_BITS + 1 <= d
      BY <2>1, <1>1, Registers
    <3>2. 2^(MANT_BITS + 1) <= 2^d
      BY <3>1, <1>1, PowerMonotone
    <3> QED BY <3>2, <2>1, <1>2, <1>4, <1>11, Bits
  <2>5. G < sl + m
    BY <2>3, <1>2, <1>4
  <2>6. exponent(l) > MANT_BITS => G < sl
    BY <2>3, <2>4, <1>2, <1>4
  <2> QED BY <2>3, <2>5, <2>6, <1>1, <1>3, <1>4, <1>6, <1>7, <1>8, <1>11 DEF A, G, sl
<1> QED BY <1>9, <1>10, <1>11
----------------------------------------------------------------------------
(***************************************************************************)
(* The exact sum, and the cases of an addition.                            *)
(***************************************************************************)
Sign(s) == IF s = 1 THEN -1 ELSE 1

\* The exact sum, without its sign: the combined mantissas and the gap.
Exact(l, s) == IF sign(l) = sign(s) THEN Combined(l, s) * Scale(l) + Gap(l, s)
                                    ELSE Combined(l, s) * Scale(l) - Gap(l, s)

\* The combined mantissas fit a register and are never negative; when they
\* cancel, nothing was lost.
LEMMA CombinedBounds ==
  ASSUME NEW l \in Numbers, NEW s \in Numbers, Ordered(l, s)
  PROVE  /\ Combined(l, s) \in 0 .. 4 * HIDDEN - 1
         /\ sign(l) # sign(s) => Combined(l, s) < 2 * HIDDEN
         /\ Combined(l, s) = 0 => Gap(l, s) = 0
<1>1. exponent(l) \in Nat /\ exponent(s) \in Nat /\ exponent(s) <= exponent(l)
  BY Fields, Bits DEF Ordered
<1>2. /\ mantissa(l) \in 0 .. 2 * HIDDEN - 1 /\ (exponent(l) # 0 => mantissa(l) >= HIDDEN)
      /\ mantissa(s) \in 0 .. 2 * HIDDEN - 1
  BY MantissaBounds
<1>3. /\ Aligned(l, s) \in Nat /\ (exponent(l) > exponent(s) => Aligned(l, s) < HIDDEN)
      /\ (exponent(l) = exponent(s) => Gap(l, s) = 0 /\ Aligned(l, s) = mantissa(s))
  BY <1>1, GapBounds
<1>4. HIDDEN \in Nat /\ HIDDEN >= 2
  BY Bits
<1>5. Aligned(l, s) <= mantissa(l) /\ Aligned(l, s) < 2 * HIDDEN
  BY <1>1, <1>2, <1>3, <1>4 DEF Ordered
<1>6. Combined(l, s) \in 0 .. 4 * HIDDEN - 1 /\ (sign(l) # sign(s) => Combined(l, s) < 2 * HIDDEN)
  BY <1>2, <1>3, <1>4, <1>5 DEF Combined
<1>7. Combined(l, s) = 0 => exponent(l) = exponent(s)
  BY <1>1, <1>2, <1>3, <1>4, <1>5 DEF Combined
<1> QED BY <1>3, <1>6, <1>7

\* The exact sum is the combined mantissas and the gap, with the sign of the
\* larger number.
LEMMA ExactIs ==
  ASSUME NEW l \in Numbers, NEW s \in Numbers, Ordered(l, s)
  PROVE  /\ Exact(l, s) \in Nat /\ Exact(l, s) <= 2 * (mantissa(l) * Scale(l))
         /\ Value(l) + Value(s) = Sign(sign(l)) * Exact(l, s)
<1> DEFINE ml == mantissa(l)
           ms == mantissa(s)
           sl == Scale(l)
           ss == Scale(s)
<1>1. exponent(l) \in Nat /\ exponent(s) \in Nat /\ exponent(s) <= exponent(l)
  BY Fields, Bits DEF Ordered
<1>2. /\ ml \in Nat /\ ms \in Nat /\ ms < 2 * HIDDEN
      /\ (exponent(l) # 0 => ml >= HIDDEN) /\ (exponent(s) = 0 => ms < HIDDEN)
      /\ HIDDEN \in Nat
  BY MantissaBounds, Bits
<1>3. sl \in Nat \ {0} /\ ss \in Nat \ {0}
  BY Scales
<1>4. sign(l) \in {0, 1} /\ sign(s) \in {0, 1}
  BY Fields
<1>5. ms * ss \in Nat /\ ml * sl \in Nat /\ ms * ss <= ml * sl
  <2>1. ms * ss \in Nat /\ ml * sl \in Nat
    BY <1>2, <1>3
  <2>2. CASE exponent(l) = exponent(s)
    <3>1. ms <= ml /\ sl = ss
      BY <2>2, <1>1 DEF Ordered, Scale
    <3>2. \A a, b, u \in Nat : a <= b => a * u <= b * u
      OBVIOUS
    <3> QED BY <2>1, <3>1, <3>2, <1>2, <1>3
  <2>3. CASE exponent(l) # exponent(s) /\ exponent(s) = 0
    <3>1. ss = 1 /\ ms < HIDDEN /\ HIDDEN <= ml
      BY <2>3, <1>1, <1>2, Scales
    <3>2. \A a, u \in Nat : u # 0 => a <= a * u
      OBVIOUS
    <3>3. ml <= ml * sl
      BY <3>2, <1>2, <1>3
    <3> HIDE DEF ml, ms, sl, ss
    <3> QED BY <2>1, <3>1, <3>3, <1>2, <1>3
  <2>4. CASE exponent(l) # exponent(s) /\ exponent(s) # 0
    <3> DEFINE p == 2^(exponent(l) - exponent(s))
    <3>1. sl = p * ss
      BY <2>4, <1>1, ScalesApart
    <3>2. p \in Nat /\ 2 <= p
      <4>1. 1 \in Nat /\ exponent(l) - exponent(s) \in Nat /\ 1 <= exponent(l) - exponent(s)
        BY <2>4, <1>1
      <4>2. 2^1 <= p
        BY <4>1, PowerMonotone, Zenon
      <4> QED BY <4>1, <4>2, PowerPositive
    <3>3. HIDDEN <= ml
      BY <2>4, <1>1, <1>2
    <3> HIDE DEF p
    <3>4. \A a, b, h, u, q \in Nat : a < 2 * h /\ h <= b /\ 2 <= q => a * u <= b * (q * u)
      <4> SUFFICES ASSUME NEW a \in Nat, NEW b \in Nat, NEW h \in Nat, NEW u \in Nat, NEW q \in Nat,
                          a < 2 * h, h <= b, 2 <= q
                   PROVE  a * u <= b * (q * u)
        OBVIOUS
      <4>1. a <= b * 2 /\ b * 2 <= b * q /\ b * q \in Nat
        OBVIOUS
      <4>2. a * u <= (b * q) * u
        BY <4>1
      <4> QED BY <4>2
    <3> QED BY <2>1, <3>1, <3>2, <3>3, <3>4, <1>2, <1>3
  <2> QED BY <2>2, <2>3, <2>4
<1>6. /\ Value(l) = Sign(sign(l)) * (ml * sl) /\ Value(s) = Sign(sign(s)) * (ms * ss)
  <2>1. \A i \in {-1, 1}, a, b \in Nat : i * a * b = i * (a * b)
    OBVIOUS
  <2>2. Sign(sign(l)) \in {-1, 1} /\ Sign(sign(s)) \in {-1, 1}
    BY DEF Sign
  <2> QED BY <2>1, <2>2, <1>2, <1>3 DEF Value, Sign
<1>7. Exact(l, s) = IF sign(l) = sign(s) THEN ml * sl + ms * ss ELSE ml * sl - ms * ss
  <2>1. Aligned(l, s) \in Nat
    BY <1>1, GapBounds
  <2>2. \A a, b, u, x \in Nat : /\ (a + b) * u + (x - b * u) = a * u + x
                                /\ (a - b) * u - (x - b * u) = a * u - x
    OBVIOUS
  <2> HIDE DEF ml, ms, sl, ss
  <2>3. /\ (ml + Aligned(l, s)) * sl + (ms * ss - Aligned(l, s) * sl) = ml * sl + ms * ss
        /\ (ml - Aligned(l, s)) * sl - (ms * ss - Aligned(l, s) * sl) = ml * sl - ms * ss
    BY <2>1, <2>2, <1>2, <1>3, <1>5
  <2> QED BY <2>3 DEF Exact, Combined, Gap, ml, ms, sl, ss
<1> HIDE DEF ml, ms, sl, ss
<1>8. Exact(l, s) \in Nat /\ Exact(l, s) <= 2 * (ml * sl)
  BY <1>5, <1>7
<1>9. Value(l) + Value(s) = Sign(sign(l)) * Exact(l, s)
  <2>1. \A a, b \in Nat : /\ 1 * a + 1 * b = 1 * (a + b) /\ (-1) * a + (-1) * b = (-1) * (a + b)
                          /\ 1 * a + (-1) * b = 1 * (a - b) /\ (-1) * a + 1 * b = (-1) * (a - b)
    OBVIOUS
  <2> QED BY <2>1, <1>4, <1>5, <1>6, <1>7 DEF Sign
<1> QED BY <1>8, <1>9 DEF ml, sl

\* What a normalized result stands for.
LEMMA PackedValue ==
  ASSUME NEW s \in {0, 1}, NEW e \in 0 .. EXP_MASK, NEW k \in HIDDEN .. 2 * HIDDEN - 1
  PROVE  LET x == Packed(s, e, k - HIDDEN)
         IN  /\ x \in Numbers /\ (IsNormal(x) <=> e # 0 /\ e < EXP_MASK)
             /\ e = 0 => Value(x) = Sign(s) * (k - HIDDEN)
             /\ e # 0 => Value(x) = Sign(s) * (k * Scale(x))
             /\ Scale(x) \in Nat \ {0} /\ (e # 0 => Scale(x) = 2^(e - 1))
<1> DEFINE x == Packed(s, e, k - HIDDEN)
<1>1. k \in Nat /\ HIDDEN \in Nat /\ k - HIDDEN \in 0 .. HIDDEN - 1 /\ e \in Nat
  BY Bits
<1>2. x \in Numbers /\ sign(x) = s /\ exponent(x) = e /\ fraction(x) = k - HIDDEN
  BY <1>1, PackedFields
<1> HIDE DEF x
<1>3. mantissa(x) = IF e # 0 THEN k ELSE k - HIDDEN
  BY <1>1, <1>2 DEF mantissa
<1>4. Scale(x) \in Nat \ {0} /\ (e = 0 => Scale(x) = 1) /\ (e # 0 => Scale(x) = 2^(e - 1))
  BY <1>2, Scales DEF Scale
<1>5. Value(x) = Sign(s) * mantissa(x) * Scale(x)
  BY <1>2 DEF Value, Sign
<1>6. Sign(s) \in {-1, 1}
  BY DEF Sign
<1>7. \A i \in {-1, 1}, a, b \in Nat : i * a * b = i * (a * b) /\ i * a * 1 = i * a
  OBVIOUS
<1>8. e = 0 => Value(x) = Sign(s) * (k - HIDDEN)
  BY <1>1, <1>3, <1>4, <1>5, <1>6, <1>7
<1>9. e # 0 => Value(x) = Sign(s) * (k * Scale(x))
  BY <1>1, <1>3, <1>4, <1>5, <1>6, <1>7
<1> QED BY <1>2, <1>4, <1>8, <1>9 DEF x, IsNormal, IsFinite

\* An exact sum is too large if and only if the largest exponent overflows.
LEMMA ExactBounds ==
  ASSUME NEW l \in Numbers, NEW s \in Numbers, IsFinite(l), IsFinite(s), Ordered(l, s)
  PROVE  /\ BeyondLargest \in Nat \ {0}
         /\ exponent(l) + 1 < EXP_MASK => Exact(l, s) < BeyondLargest
         /\ exponent(l) + 1 = EXP_MASK =>
              /\ Combined(l, s) < 2 * HIDDEN => Exact(l, s) < BeyondLargest
              /\ Combined(l, s) >= 2 * HIDDEN => Exact(l, s) >= BeyondLargest
<1> DEFINE E == exponent(l)
           ml == mantissa(l)
           sl == Scale(l)
           C == Combined(l, s)
           G == Gap(l, s)
           X == Exact(l, s)
           top == 2^(EXP_MASK - 2)
<1>1. /\ E \in Nat /\ exponent(s) \in Nat /\ exponent(s) <= E /\ E < EXP_MASK /\ EXP_MASK \in Nat
      /\ MANT_BITS \in Nat /\ MANT_BITS + 2 <= EXP_MASK /\ HIDDEN \in Nat /\ HIDDEN >= 2
      /\ MANT_BITS >= 1
  BY Fields, Bits, Registers DEF Ordered, IsFinite
<1>2. EXP_MASK - 2 \in Nat /\ EXP_MASK - 3 \in Nat /\ EXP_MASK - 2 = (EXP_MASK - 3) + 1
  BY <1>1
<1>3. top \in Nat \ {0} /\ top = 2 * 2^(EXP_MASK - 3) /\ 2^(EXP_MASK - 3) \in Nat \ {0}
  BY <1>2, PowerPositive, PowerStep
<1>4. BeyondLargest = 2 * HIDDEN * top
  BY DEF BeyondLargest
<1>5. sl \in Nat \ {0} /\ (E = 0 => sl = 1) /\ (E # 0 => sl = 2^(E - 1))
  BY <1>1, Scales DEF Scale
<1>6. ml \in Nat /\ ml < 2 * HIDDEN /\ C \in Nat
  BY <1>1, MantissaBounds, CombinedBounds
<1>7. X \in Nat /\ X <= 2 * (ml * sl) /\ G \in Nat
  BY <1>1, ExactIs, GapBounds
<1>8. BeyondLargest \in Nat \ {0}
  <2>1. \A a, b \in Nat : a # 0 /\ b # 0 => 2 * a * b \in Nat \ {0}
    OBVIOUS
  <2> HIDE DEF top
  <2> QED BY <2>1, <1>1, <1>3, <1>4
<1>9. ASSUME E + 1 < EXP_MASK PROVE X < BeyondLargest
  <2>1. sl <= 2^(EXP_MASK - 3)
    <3>1. CASE E = 0
      BY <3>1, <1>3, <1>5
    <3>2. CASE E # 0
      <4>1. E - 1 \in Nat /\ E - 1 <= EXP_MASK - 3
        BY <3>2, <1>1, <1>9
      <4> QED BY <4>1, <3>2, <1>2, <1>5, PowerMonotone
    <3> QED BY <3>1, <3>2
  <2>2. \A a, h, u, t \in Nat : a < 2 * h /\ u # 0 /\ u <= t => 2 * (a * u) < 2 * h * (2 * t)
    <3> SUFFICES ASSUME NEW a \in Nat, NEW h \in Nat, NEW u \in Nat, NEW t \in Nat,
                        a < 2 * h, u # 0, u <= t
                 PROVE  2 * (a * u) < 2 * h * (2 * t)
      OBVIOUS
    <3>1. a * u < 2 * h * u /\ 2 * h * u <= 2 * h * t
      OBVIOUS
    <3>2. a * u \in Nat /\ 2 * h * u \in Nat /\ 2 * h * t \in Nat /\ 2 * h * (2 * t) = 2 * (2 * h * t)
      OBVIOUS
    <3> HIDE DEF X
    <3> QED BY <3>1, <3>2
  <2> HIDE DEF X, ml, sl, top
  <2>3. 2 * (ml * sl) < BeyondLargest
    BY <2>1, <2>2, <1>1, <1>3, <1>4, <1>5, <1>6
  <2>4. ml * sl \in Nat
    BY <1>5, <1>6
  <2> QED BY <2>3, <2>4, <1>7, <1>8
<1>10. ASSUME E + 1 = EXP_MASK PROVE sl = top /\ G < sl
  <2>1. E # 0 /\ E - 1 = EXP_MASK - 2 /\ E > MANT_BITS
    BY <1>1, <1>10
  <2>2. G < sl
    BY <2>1, <1>1, GapBounds
  <2> QED BY <2>1, <2>2, <1>5
<1>11. C * sl \in Nat /\ X <= C * sl + G /\ (sign(l) = sign(s) => X = C * sl + G)
  <2>1. C * sl \in Nat
    BY <1>5, <1>6
  <2> QED BY <2>1, <1>7 DEF Exact
<1>12. sign(l) # sign(s) => C < 2 * HIDDEN
  BY CombinedBounds
<1> HIDE DEF E, C, G, X, sl, top
<1>13. ASSUME E + 1 = EXP_MASK, C < 2 * HIDDEN PROVE X < BeyondLargest
  <2>1. \A c, b, u, g \in Nat : c < b /\ g < u => c * u + g < b * u
    <3> SUFFICES ASSUME NEW c \in Nat, NEW b \in Nat, NEW u \in Nat, NEW g \in Nat, c < b, g < u
                 PROVE  c * u + g < b * u
      OBVIOUS
    <3>1. (c + 1) * u <= b * u /\ (c + 1) * u = c * u + u /\ c * u \in Nat /\ b * u \in Nat
      OBVIOUS
    <3> QED BY <3>1
  <2>2. 2 * HIDDEN \in Nat /\ sl = top /\ G < sl
    BY <1>1, <1>10, <1>13
  <2>3. C * sl + G < (2 * HIDDEN) * sl
    BY <2>1, <2>2, <1>5, <1>6, <1>7, <1>13
  <2>4. C * sl + G < BeyondLargest
    BY <2>2, <2>3, <1>4
  <2> QED BY <2>4, <1>7, <1>8, <1>11
<1>14. ASSUME E + 1 = EXP_MASK, C >= 2 * HIDDEN PROVE X >= BeyondLargest
  <2>1. X = C * sl + G /\ sl = top
    BY <1>1, <1>6, <1>10, <1>11, <1>12, <1>14
  <2>2. \A c, b, u \in Nat : b <= c => b * u <= c * u
    OBVIOUS
  <2>3. (2 * HIDDEN) * sl <= C * sl
    <3>1. 2 * HIDDEN \in Nat
      BY <1>1
    <3> QED BY <3>1, <2>2, <1>5, <1>6, <1>14
  <2>4. BeyondLargest <= C * sl
    BY <2>1, <2>3, <1>4
  <2> QED BY <2>1, <2>4, <1>7, <1>8, <1>11
<1> QED BY <1>8, <1>9, <1>13, <1>14 DEF E, C, X

(***************************************************************************)
(* Off is the distance of two magnitudes.  A sum is one as IsSum has it    *)
(* when its magnitude V is near enough to the exact one, with the same     *)
(* sign.                                                                   *)
(***************************************************************************)
Off(V, X) == IF V < X THEN X - V ELSE V - X
Allowed(l, s, sum) ==
  Scale(l) + Flushed(s) + (IF IsNormal(sum) THEN 0 ELSE SmallestNormal)

\* The types of what a number stands for.
LEMMA ValueInt ==
  ASSUME NEW x \in Numbers
  PROVE  /\ Value(x) \in Int /\ Scale(x) \in Nat \ {0} /\ Flushed(x) \in Nat
         /\ mantissa(x) \in Nat
<1>1. mantissa(x) \in Nat /\ Scale(x) \in Nat \ {0}
  BY MantissaBounds, Scales, Bits
<1>2. Flushed(x) \in Nat
  BY <1>1 DEF Flushed
<1>3. \A i \in {-1, 1}, a, b \in Nat : i * a * b \in Int
  OBVIOUS
<1> QED BY <1>1, <1>2, <1>3 DEF Value

\* A sum may be off by the scale of either operand, and by its own.
LEMMA LostBounds ==
  ASSUME NEW a \in Numbers, NEW b \in Numbers, NEW sum \in Numbers
  PROVE  /\ Lost(a, b, sum) \in Nat \ {0} /\ Lost(a, b, sum) >= Scale(a)
         /\ Lost(a, b, sum) >= Scale(sum) /\ Lost(a, b, sum) = Lost(b, a, sum)
<1>1. Scale(a) \in Nat \ {0} /\ Scale(b) \in Nat \ {0} /\ Scale(sum) \in Nat \ {0}
  BY ValueInt
<1> QED BY <1>1 DEF Lost, Highest

\* A sum is one when its magnitude is near the exact one, which is not too large.
LEMMA NearIsSum ==
  ASSUME NEW l \in Numbers, NEW s \in Numbers, NEW sum \in Numbers,
         NEW i \in {0, 1}, NEW V \in Nat, NEW X \in Nat, NEW D \in Nat,
         Value(sum) = Sign(i) * V, Value(l) + Value(s) = Sign(i) * X,
         BeyondLargest \in Nat, X < BeyondLargest,
         Off(V, X) < D + Flushed(s) + (IF IsNormal(sum) THEN 0 ELSE SmallestNormal),
         D <= Lost(l, s, sum)
  PROVE  IsSum(sum, l, s)
<1>1. \A x, y \in Nat : Magnitude(Sign(i) * x) = x /\ Magnitude(Sign(i) * x - Sign(i) * y) = Off(x, y)
  BY DEF Sign, Magnitude, Off
<1>2. Flushed(l) \in Nat /\ Flushed(s) \in Nat /\ Lost(l, s, sum) \in Nat
  BY ValueInt, LostBounds
<1>3. Magnitude(Value(l) + Value(s)) = X
      /\ Magnitude(Value(sum) - (Value(l) + Value(s))) = Off(V, X)
  BY <1>1
<1>4. Off(V, X) \in Nat
  BY DEF Off
<1>5. (IF IsNormal(sum) THEN 0 ELSE SmallestNormal) \in Nat
  BY Bits DEF SmallestNormal, HIDDEN
<1>6. \A o, d, f, g, n, h \in Nat : o < d + f + n /\ d <= h => o < h + g + f + n
  OBVIOUS
<1>7. Off(V, X) < Lost(l, s, sum) + Flushed(l) + Flushed(s)
                    + (IF IsNormal(sum) THEN 0 ELSE SmallestNormal)
  BY <1>2, <1>4, <1>5, <1>6
<1> QED BY <1>3, <1>7 DEF IsSum

\* 0 is a number that stands for 0.
LEMMA Zero ==
  /\ 0 \in Numbers /\ exponent(0) = 0 /\ mantissa(0) = 0 /\ sign(0) = 0
  /\ Value(0) = 0 /\ ~IsNormal(0)
<1>1. 0 = Packed(0, 0, 0)
  BY Bits DEF Packed
<1>2. 0 \in 0 .. EXP_MASK /\ 0 \in 0 .. HIDDEN - 1
  BY Bits
<1>3. 0 \in Numbers /\ sign(0) = 0 /\ exponent(0) = 0 /\ fraction(0) = 0
  BY <1>1, <1>2, PackedFields
<1>4. mantissa(0) = 0
  BY <1>3 DEF mantissa
<1>5. Value(0) = 0
  BY <1>3, <1>4, ValueInt DEF Value
<1> QED BY <1>3, <1>4, <1>5 DEF IsNormal

\* An addition cancels, or normalizes its combined mantissas.
LEMMA AddOrderedIs ==
  ASSUME NEW l \in Numbers, NEW s \in Numbers, Ordered(l, s)
  PROVE  \/ Combined(l, s) = 0 /\ AddOrdered(l, s) = 0
         \/ \E shift \in -MANT_BITS .. 1, k \in HIDDEN .. 2 * HIDDEN - 1, rest \in {0, 1} :
              /\ Combined(l, s) # 0 /\ Fitted(Combined(l, s), shift, k, rest)
              /\ AddOrdered(l, s) =
                   IF exponent(l) + shift > EXP_MASK - 1 \/ exponent(l) + shift < 0 THEN 0
                   ELSE Packed(sign(l), exponent(l) + shift, k - HIDDEN)
<1>1. CASE Combined(l, s) = 0
  BY <1>1 DEF AddOrdered
<1>2. CASE Combined(l, s) # 0
  <2>1. Combined(l, s) \in 1 .. 4 * HIDDEN - 1
    BY <1>2, CombinedBounds, Bits
  <2>2. sign(l) \in {0, 1} /\ exponent(l) \in 0 .. EXP_MASK
    BY Fields
  <2>3. AddOrdered(l, s) = Normalized(sign(l), exponent(l), Combined(l, s))
    BY <1>2 DEF AddOrdered
  <2> HIDE DEF Fitted
  <2> QED BY <2>1, <2>2, <2>3, <1>2, NormalizedIs
<1> QED BY <1>1, <1>2

\* Every case of an addition puts a number together.
LEMMA AddOrderedType ==
  ASSUME NEW l \in Numbers, NEW s \in Numbers, Ordered(l, s)
  PROVE  AddOrdered(l, s) \in Numbers
<1>1. CASE AddOrdered(l, s) = 0
  BY <1>1, Zero
<1>2. CASE AddOrdered(l, s) # 0
  <2>1. PICK shift \in -MANT_BITS .. 1, k \in HIDDEN .. 2 * HIDDEN - 1 :
          /\ exponent(l) + shift <= EXP_MASK - 1 /\ exponent(l) + shift >= 0
          /\ AddOrdered(l, s) = Packed(sign(l), exponent(l) + shift, k - HIDDEN)
    <3>1. MANT_BITS \in Nat /\ EXP_MASK \in Nat /\ exponent(l) \in Nat
      BY Registers, Bits, Fields
    <3> QED BY <3>1, <1>2, AddOrderedIs
  <2>2. sign(l) \in {0, 1} /\ exponent(l) + shift \in 0 .. EXP_MASK /\ k - HIDDEN \in 0 .. HIDDEN - 1
    BY <2>1, Fields, Bits, Registers
  <2> QED BY <2>1, <2>2, PackedFields
<1> QED BY <1>1, <1>2

(***************************************************************************)
(* The cases of an addition.  In each, C is the combined mantissa of the   *)
(* scale u, g the gap, and shift, k and rest are what normalizes C.        *)
(***************************************************************************)
LEMMA TooLargeSum ==
  ASSUME NEW l \in Numbers, NEW s \in Numbers, IsFinite(l), IsFinite(s), Ordered(l, s),
         NEW shift \in -MANT_BITS .. 1, NEW k \in HIDDEN .. 2 * HIDDEN - 1, NEW rest \in {0, 1},
         Fitted(Combined(l, s), shift, k, rest),
         exponent(l) + shift > EXP_MASK - 1
  PROVE  IsSum(0, l, s)
<1>1. exponent(l) \in Nat /\ exponent(l) < EXP_MASK /\ EXP_MASK \in Nat /\ HIDDEN \in Nat /\ MANT_BITS \in Nat
  BY Fields, Bits, Registers DEF IsFinite
<1>2. shift = 1 /\ exponent(l) + 1 = EXP_MASK
  BY <1>1
<1>3. Combined(l, s) >= 2 * HIDDEN
  BY <1>1, <1>2 DEF Fitted
<1>4. Exact(l, s) >= BeyondLargest /\ BeyondLargest \in Nat
  BY <1>2, <1>3, ExactBounds
<1>5. Magnitude(Value(l) + Value(s)) = Exact(l, s) /\ Exact(l, s) \in Nat
  BY ExactIs DEF Sign, Magnitude
<1>6. Lost(l, s, 0) \in Nat
  BY LostBounds, Zero
<1>7. Magnitude(Value(l) + Value(s)) >= BeyondLargest - Lost(l, s, 0)
  BY <1>4, <1>5, <1>6
<1> QED BY <1>7 DEF IsSum

\* When the exponent of the result fits, the exact sum is not too large.
LEMMA ExactNotTooLarge ==
  ASSUME NEW l \in Numbers, NEW s \in Numbers, IsFinite(l), IsFinite(s), Ordered(l, s),
         NEW shift \in -MANT_BITS .. 1, NEW k \in HIDDEN .. 2 * HIDDEN - 1, NEW rest \in {0, 1},
         Fitted(Combined(l, s), shift, k, rest),
         exponent(l) + shift <= EXP_MASK - 1
  PROVE  Exact(l, s) < BeyondLargest
<1>1. exponent(l) \in Nat /\ exponent(l) < EXP_MASK /\ EXP_MASK \in Nat /\ HIDDEN \in Nat /\ MANT_BITS \in Nat
  BY Fields, Bits, Registers DEF IsFinite
<1>2. CASE exponent(l) + 1 < EXP_MASK
  BY <1>2, ExactBounds
<1>3. CASE exponent(l) + 1 = EXP_MASK
  <2>1. -shift \in Nat /\ shift < 1
    BY <1>1, <1>3
  <2>2. k = Combined(l, s) * 2^(-shift) /\ Combined(l, s) \in Nat /\ 2^(-shift) \in Nat \ {0}
    BY <2>1, CombinedBounds, PowerPositive, <1>1 DEF Fitted
  <2>3. \A a, p \in Nat : p # 0 => a <= a * p
    OBVIOUS
  <2>4. Combined(l, s) <= k
    BY <2>2, <2>3
  <2>5. Combined(l, s) < 2 * HIDDEN
    BY <2>2, <2>4, <1>1
  <2> QED BY <2>5, <1>3, ExactBounds
<1> QED BY <1>1, <1>2, <1>3

\* A sum whose exponent is below 0 becomes 0, and is below the smallest normal.
LEMMA TooSmallSum ==
  ASSUME NEW l \in Numbers, NEW s \in Numbers, IsFinite(l), IsFinite(s), Ordered(l, s),
         NEW shift \in -MANT_BITS .. 1, NEW k \in HIDDEN .. 2 * HIDDEN - 1, NEW rest \in {0, 1},
         Fitted(Combined(l, s), shift, k, rest),
         exponent(l) + shift < 0
  PROVE  IsSum(0, l, s)
<1> DEFINE C == Combined(l, s)
           u == Scale(l)
           g == Gap(l, s)
           X == Exact(l, s)
<1>1. /\ exponent(l) \in Nat /\ exponent(s) \in Nat /\ exponent(s) <= exponent(l)
      /\ HIDDEN \in Nat /\ MANT_BITS \in Nat /\ EXP_MASK \in Nat
  BY Fields, Bits, Registers DEF Ordered
<1>2. C \in Nat /\ u \in Nat \ {0} /\ g \in Nat /\ X \in Nat /\ Flushed(s) \in Nat /\ g < u + Flushed(s)
  BY <1>1, CombinedBounds, Scales, GapBounds, ExactIs, Bits
<1>3. -shift \in Nat /\ shift < 1 /\ exponent(l) + 1 <= -shift
  BY <1>1
<1>4. k = C * 2^(-shift) /\ k < 2 * HIDDEN
  BY <1>1, <1>3 DEF Fitted
<1>5. 2 * u <= 2^(-shift) /\ 2^(-shift) \in Nat
  <2>1. exponent(l) + 1 \in Nat
    BY <1>1
  <2>2. 2^(exponent(l) + 1) <= 2^(-shift)
    BY <2>1, <1>3, PowerMonotone
  <2>3. 2^(exponent(l) + 1) = 2 * 2^exponent(l)
    BY <1>1, PowerStep
  <2>4. u <= 2^exponent(l)
    <3>1. CASE exponent(l) = 0
      BY <3>1, <1>1, Scales, PowerPositive
    <3>2. CASE exponent(l) > 0
      BY <3>2, <1>2, Scales
    <3> QED BY <3>1, <3>2, <1>1
  <2>5. 2^exponent(l) \in Nat /\ 2^(-shift) \in Nat
    BY <1>1, <1>3, PowerPositive
  <2> QED BY <2>2, <2>3, <2>4, <2>5, <1>2
<1> HIDE DEF C, u, g, X
<1>6. C * u \in Nat /\ C * u < HIDDEN
  <2>1. \A c, a, p, h \in Nat : 2 * a <= p /\ c * p < 2 * h => c * a < h
    <3> SUFFICES ASSUME NEW c \in Nat, NEW a \in Nat, NEW p \in Nat, NEW h \in Nat,
                        2 * a <= p, c * p < 2 * h
                 PROVE  c * a < h
      OBVIOUS
    <3>1. c * (2 * a) <= c * p /\ c * (2 * a) = 2 * (c * a) /\ c * a \in Nat /\ c * p \in Nat
      OBVIOUS
    <3> QED BY <3>1
  <2> QED BY <2>1, <1>1, <1>2, <1>4, <1>5
<1>7. X <= C * u + g
  BY <1>2, <1>6 DEF X, Exact, C, u, g
<1>8. Off(0, X) = X /\ X < u + Flushed(s) + HIDDEN
  BY <1>1, <1>2, <1>6, <1>7 DEF Off
<1>9. X < BeyondLargest /\ BeyondLargest \in Nat
  <2>1. exponent(l) + shift <= EXP_MASK - 1
    BY <1>1
  <2> QED BY <2>1, ExactNotTooLarge, ExactBounds DEF X
<1>10. Value(0) = Sign(sign(l)) * 0 /\ Value(l) + Value(s) = Sign(sign(l)) * X
  BY Zero, ExactIs DEF Sign, X
<1>11. u <= Lost(l, s, 0)
  BY Zero, LostBounds DEF u
<1>12. Off(0, X) < u + Flushed(s) + (IF IsNormal(0) THEN 0 ELSE SmallestNormal)
  BY <1>8, Zero DEF SmallestNormal, HIDDEN
<1>13. 0 \in Nat /\ sign(l) \in {0, 1} /\ 0 \in Numbers /\ u \in Nat
  BY Zero, Fields, <1>2
<1> QED BY <1>2, <1>9, <1>10, <1>11, <1>12, <1>13, NearIsSum

\* A sum whose exponent fits: shifted right once, shifted left, or denormal.
LEMMA FittedSum ==
  ASSUME NEW l \in Numbers, NEW s \in Numbers, IsFinite(l), IsFinite(s), Ordered(l, s),
         NEW shift \in -MANT_BITS .. 1, NEW k \in HIDDEN .. 2 * HIDDEN - 1, NEW rest \in {0, 1},
         Fitted(Combined(l, s), shift, k, rest), Combined(l, s) # 0,
         exponent(l) + shift <= EXP_MASK - 1, exponent(l) + shift >= 0
  PROVE  IsSum(Packed(sign(l), exponent(l) + shift, k - HIDDEN), l, s)
<1> DEFINE C == Combined(l, s)
           u == Scale(l)
           g == Gap(l, s)
           X == Exact(l, s)
           F == Flushed(s)
           E == exponent(l) + shift
           sum == Packed(sign(l), E, k - HIDDEN)
<1>1. /\ exponent(l) \in Nat /\ exponent(s) \in Nat /\ exponent(s) <= exponent(l)
      /\ HIDDEN \in Nat /\ HIDDEN >= 2 /\ MANT_BITS \in Nat /\ EXP_MASK \in Nat /\ k \in Nat
      /\ sign(l) \in {0, 1} /\ k < 2 * HIDDEN /\ HIDDEN <= k
  BY Fields, Bits, Registers DEF Ordered
<1>2. /\ C \in Nat /\ C # 0 /\ u \in Nat \ {0} /\ g \in Nat /\ X \in Nat /\ F \in Nat
      /\ g < u + F /\ (exponent(l) = exponent(s) => g = 0)
      /\ (sign(l) # sign(s) => C < 2 * HIDDEN)
  BY <1>1, CombinedBounds, Scales, GapBounds, ExactIs, Bits
<1>3. X < BeyondLargest /\ BeyondLargest \in Nat
  BY ExactNotTooLarge, ExactBounds
<1>4. E \in 0 .. EXP_MASK - 1 /\ E \in 0 .. EXP_MASK
  BY <1>1
<1>5. /\ sum \in Numbers /\ (IsNormal(sum) <=> E # 0 /\ E < EXP_MASK)
      /\ (E = 0 => Value(sum) = Sign(sign(l)) * (k - HIDDEN))
      /\ (E # 0 => Value(sum) = Sign(sign(l)) * (k * Scale(sum)))
      /\ Scale(sum) \in Nat \ {0} /\ (E # 0 => Scale(sum) = 2^(E - 1))
  BY <1>1, <1>4, PackedValue
<1>6. /\ Value(l) + Value(s) = Sign(sign(l)) * X
      /\ X = IF sign(l) = sign(s) THEN C * u + g ELSE C * u - g
  BY ExactIs DEF Exact
<1>7. /\ shift = 1 => C = 2 * k + rest
      /\ shift < 1 => k = C * 2^(-shift)
  BY DEF Fitted
<1>8. C * u \in Nat /\ C * u >= u
  <2>1. \A a, b \in Nat : a # 0 => a * b \in Nat /\ a * b >= b
    OBVIOUS
  <2> HIDE DEF C, u
  <2> QED BY <2>1, <1>2
<1>9. u <= Lost(l, s, sum) /\ Scale(sum) <= Lost(l, s, sum)
  BY <1>5, LostBounds
<1>10. CASE shift = 1
  <2>1. C >= 2 * HIDDEN /\ sign(l) = sign(s) /\ E # 0 /\ E - 1 = exponent(l)
    BY <1>1, <1>2, <1>7, <1>10
  <2>2. exponent(l) # 0
    <3> SUFFICES ASSUME exponent(l) = 0 PROVE FALSE
      OBVIOUS
    <3>1. exponent(s) = 0
      BY <1>1
    <3>2. mantissa(l) < HIDDEN /\ mantissa(s) < HIDDEN /\ mantissa(l) \in Nat /\ mantissa(s) \in Nat
      BY <3>1, MantissaBounds, ValueInt
    <3>3. Aligned(l, s) = mantissa(s)
      BY <3>1, GapBounds, <1>1
    <3>4. C = mantissa(l) + mantissa(s)
      BY <3>3, <2>1 DEF Combined
    <3> HIDE DEF C
    <3> QED BY <3>2, <3>4, <2>1, <1>1
  <2>3. Scale(sum) = 2 * u
    <3>1. Scale(sum) = 2^exponent(l)
      BY <2>1, <1>5
    <3>2. 2^exponent(l) = 2 * u
      BY <2>2, <1>1, Scales
    <3> QED BY <3>1, <3>2
  <2> HIDE DEF C, u, g, X, F, E, sum
  <2>4. \A a, b, c, r \in Nat : c = 2 * a + r => c * b = a * (2 * b) + r * b
    OBVIOUS
  <2>5. C * u = k * (2 * u) + rest * u /\ k * (2 * u) \in Nat
    BY <2>4, <1>1, <1>2, <1>7, <1>10
  <2>6. rest * u <= u /\ rest * u \in Nat
    BY <1>2
  <2>7. X = k * (2 * u) + rest * u + g
    BY <2>1, <2>5, <1>6, <1>8
  <2>8. Off(k * (2 * u), X) < 2 * u + F + 0
    BY <2>5, <2>6, <2>7, <1>2 DEF Off
  <2>9. IsNormal(sum) /\ Value(sum) = Sign(sign(l)) * (k * (2 * u))
    BY <2>1, <2>3, <1>1, <1>4, <1>5
  <2>10. 2 * u \in Nat /\ 2 * u <= Lost(l, s, sum)
    BY <2>3, <1>2, <1>9
  <2>11. Off(k * (2 * u), X) < 2 * u + Flushed(s) + (IF IsNormal(sum) THEN 0 ELSE SmallestNormal)
    BY <2>8, <2>9 DEF F
  <2>12. IsSum(sum, l, s)
    BY <2>5, <2>9, <2>10, <2>11, <1>1, <1>2, <1>3, <1>5, <1>6, NearIsSum
  <2> QED BY <2>12 DEF sum, E
<1>11. CASE shift < 1 /\ E # 0
  <2>1. -shift \in Nat /\ exponent(l) # 0 /\ E - 1 \in Nat /\ exponent(l) - 1 = (-shift) + (E - 1)
    BY <1>1, <1>4, <1>11
  <2>2. u = 2^(-shift) * Scale(sum)
    <3>1. u = 2^(exponent(l) - 1)
      BY <2>1 DEF Scale
    <3>2. Scale(sum) = 2^(E - 1)
      BY <1>5, <1>11
    <3> HIDE DEF u, E, sum
    <3>3. 2^((-shift) + (E - 1)) = 2^(-shift) * 2^(E - 1)
      BY <2>1, PowerSum
    <3> QED BY <3>1, <3>2, <3>3, <2>1
  <2>3. 2^(-shift) \in Nat
    BY <2>1, PowerPositive
  <2> HIDE DEF C, u, g, X, F, E, sum
  <2>4. \A a, b, p \in Nat : (a * p) * b = a * (p * b)
    OBVIOUS
  <2>5. k * Scale(sum) = C * u
    BY <2>2, <2>3, <2>4, <1>2, <1>5, <1>7, <1>11
  <2>6. Off(C * u, X) < u + F + 0
    BY <1>2, <1>6, <1>8 DEF Off
  <2>7. IsNormal(sum) /\ Value(sum) = Sign(sign(l)) * (C * u)
    BY <2>5, <1>1, <1>4, <1>5, <1>11
  <2>8. Off(C * u, X) < u + Flushed(s) + (IF IsNormal(sum) THEN 0 ELSE SmallestNormal)
    BY <2>6, <2>7 DEF F
  <2>9. u \in Nat
    BY <1>2
  <2>10. IsSum(sum, l, s)
    BY <2>7, <2>8, <2>9, <1>1, <1>2, <1>3, <1>5, <1>6, <1>8, <1>9, NearIsSum
  <2> QED BY <2>10 DEF sum, E
<1>12. CASE shift < 1 /\ E = 0
  <2>1. -shift = exponent(l)
    BY <1>1, <1>12
  <2>2. k = C * 2^exponent(l)
    BY <2>1, <1>7, <1>12
  <2>3. (k = C * u /\ g = 0) \/ k = 2 * (C * u)
    <3>1. CASE exponent(l) = 0
      <4>1. u = 1 /\ g = 0
        BY <3>1, <1>1, <1>2, Scales
      <4>2. 2^exponent(l) = 1
        BY <3>1
      <4> HIDE DEF C, u, g
      <4> QED BY <4>1, <4>2, <2>2, <1>2
    <3>2. CASE exponent(l) # 0
      <4>1. 2^exponent(l) = 2 * u
        BY <3>2, <1>1, Scales
      <4> HIDE DEF C, u, g
      <4>2. \A a, b \in Nat : a * (2 * b) = 2 * (a * b)
        OBVIOUS
      <4> QED BY <4>1, <4>2, <2>2, <1>2
    <3> QED BY <3>1, <3>2
  <2> HIDE DEF C, u, g, X, F, E, sum
  <2>4. k - HIDDEN \in Nat
    BY <1>1
  <2>5. Off(k - HIDDEN, X) < u + F + HIDDEN
    <3> DEFINE n == C * u
    <3>1. n \in Nat /\ n >= u
      BY <1>8
    <3>2. X = n + g \/ X = n - g
      BY <1>6
    <3>3. (k = n /\ g = 0) \/ k = 2 * n
      BY <2>3
    <3> HIDE DEF n
    <3> QED BY <3>1, <3>2, <3>3, <2>4, <1>1, <1>2 DEF Off
  <2>6. ~IsNormal(sum) /\ Value(sum) = Sign(sign(l)) * (k - HIDDEN)
    BY <1>5, <1>12
  <2>7. Off(k - HIDDEN, X) < u + Flushed(s) + (IF IsNormal(sum) THEN 0 ELSE SmallestNormal)
    BY <2>5, <2>6 DEF F, SmallestNormal, HIDDEN
  <2>8. u \in Nat
    BY <1>2
  <2>9. IsSum(sum, l, s)
    BY <2>4, <2>6, <2>7, <2>8, <1>1, <1>2, <1>3, <1>5, <1>6, <1>9, NearIsSum
  <2> QED BY <2>9 DEF sum, E
<1> QED BY <1>10, <1>11, <1>12

\* The cases together.
LEMMA OrderedIsSum ==
  ASSUME NEW l \in Numbers, NEW s \in Numbers, IsFinite(l), IsFinite(s), Ordered(l, s)
  PROVE  IsSum(AddOrdered(l, s), l, s)
<1>1. CASE Combined(l, s) = 0 /\ AddOrdered(l, s) = 0
  <2>1. Gap(l, s) = 0 /\ Scale(l) \in Nat \ {0}
    BY <1>1, CombinedBounds, Scales
  <2>2. Exact(l, s) = 0
    BY <1>1, <2>1 DEF Exact
  <2>3. BeyondLargest \in Nat \ {0}
    BY ExactBounds
  <2>4. Value(0) = Sign(sign(l)) * 0 /\ Value(l) + Value(s) = Sign(sign(l)) * 0
    BY <2>2, Zero, ExactIs DEF Sign
  <2>5. Off(0, 0) < Scale(l) + Flushed(s) + (IF IsNormal(0) THEN 0 ELSE SmallestNormal)
    BY <2>1, Zero, ValueInt, Bits DEF Off, SmallestNormal, HIDDEN
  <2>6. Scale(l) <= Lost(l, s, 0) /\ 0 \in Numbers /\ sign(l) \in {0, 1}
    BY LostBounds, Zero, Fields
  <2>7. IsSum(0, l, s)
    BY <2>1, <2>3, <2>4, <2>5, <2>6, NearIsSum
  <2> QED BY <1>1, <2>7
<1>2. ASSUME NEW shift \in -MANT_BITS .. 1, NEW k \in HIDDEN .. 2 * HIDDEN - 1, NEW rest \in {0, 1},
             Combined(l, s) # 0, Fitted(Combined(l, s), shift, k, rest),
             AddOrdered(l, s) =
               IF exponent(l) + shift > EXP_MASK - 1 \/ exponent(l) + shift < 0 THEN 0
               ELSE Packed(sign(l), exponent(l) + shift, k - HIDDEN)
      PROVE  IsSum(AddOrdered(l, s), l, s)
  <2>1. CASE exponent(l) + shift > EXP_MASK - 1
    BY <2>1, <1>2, TooLargeSum
  <2>2. CASE exponent(l) + shift < 0
    BY <2>2, <1>2, TooSmallSum
  <2>3. CASE ~(exponent(l) + shift > EXP_MASK - 1) /\ ~(exponent(l) + shift < 0)
    <3>1. exponent(l) + shift <= EXP_MASK - 1 /\ exponent(l) + shift >= 0
      BY <2>3, Fields, Bits, Registers
    <3>2. IsSum(Packed(sign(l), exponent(l) + shift, k - HIDDEN), l, s)
      BY <3>1, <1>2, FittedSum
    <3>3. AddOrdered(l, s) = Packed(sign(l), exponent(l) + shift, k - HIDDEN)
      BY <1>2, <2>3, Zenon
    <3> QED BY <3>2, <3>3
  <2> QED BY <2>1, <2>2, <2>3
<1> QED BY <1>1, <1>2, AddOrderedIs
----------------------------------------------------------------------------
(***************************************************************************)
(* The addition.                                                           *)
(***************************************************************************)
LEMMA LargerOrders ==
  ASSUME NEW a \in Numbers, NEW b \in Numbers
  PROVE  /\ Larger(a, b) => Ordered(a, b)
         /\ ~Larger(a, b) => Ordered(b, a)
<1>1. exponent(a) \in Nat /\ exponent(b) \in Nat /\ mantissa(a) \in Nat /\ mantissa(b) \in Nat
  BY Fields, ValueInt, Bits
<1> QED BY <1>1 DEF Larger, Ordered

\* Being a sum does not depend on the order of the operands.
LEMMA SumIsSymmetric ==
  ASSUME NEW a \in Numbers, NEW b \in Numbers, NEW sum \in Numbers, IsSum(sum, a, b)
  PROVE  IsSum(sum, b, a)
<1>1. Value(a) + Value(b) = Value(b) + Value(a)
  BY ValueInt
<1>2. Lost(a, b, sum) = Lost(b, a, sum) /\ Lost(a, b, sum) \in Nat
  BY LostBounds
<1>3. \A n, f, g, h \in Nat : n + f + g + h = n + g + f + h
  OBVIOUS
<1>4. (IF IsNormal(sum) THEN 0 ELSE SmallestNormal) \in Nat
  BY Bits DEF SmallestNormal, HIDDEN
<1>5. Lost(a, b, sum) + Flushed(a) + Flushed(b) + (IF IsNormal(sum) THEN 0 ELSE SmallestNormal)
        = Lost(b, a, sum) + Flushed(b) + Flushed(a) + (IF IsNormal(sum) THEN 0 ELSE SmallestNormal)
  BY <1>2, <1>3, <1>4, ValueInt
<1> QED BY <1>1, <1>2, <1>5 DEF IsSum

(***************************************************************************)
(* ieee754_add (probe.c:155) never leaves the bits of a number, infinities *)
(* and what is not a number included.                                      *)
(***************************************************************************)
THEOREM AdditionType ==
  ASSUME NEW a \in Numbers, NEW b \in Numbers
  PROVE  ieee754_add(a, b) \in Numbers
BY LargerOrders, AddOrderedType DEF ieee754_add

(***************************************************************************)
(* What ieee754_add (probe.c:155) returns for finite numbers of any widths *)
(* is their sum, as closely as IsSum has it, in whichever order they come. *)
(***************************************************************************)
THEOREM AdditionIsSum ==
  ASSUME NEW a \in Numbers, NEW b \in Numbers, IsFinite(a), IsFinite(b)
  PROVE  IsSum(ieee754_add(a, b), a, b) /\ IsSum(ieee754_add(a, b), b, a)
<1>1. CASE Larger(a, b)
  <2>1. Ordered(a, b) /\ ieee754_add(a, b) = AddOrdered(a, b)
    BY <1>1, LargerOrders DEF ieee754_add
  <2>2. IsSum(AddOrdered(a, b), a, b) /\ AddOrdered(a, b) \in Numbers
    BY <2>1, OrderedIsSum, AddOrderedType
  <2> QED BY <2>1, <2>2, SumIsSymmetric
<1>2. CASE ~Larger(a, b)
  <2>1. Ordered(b, a) /\ ieee754_add(a, b) = AddOrdered(b, a)
    BY <1>2, LargerOrders DEF ieee754_add
  <2>2. IsSum(AddOrdered(b, a), b, a) /\ AddOrdered(b, a) \in Numbers
    BY <2>1, OrderedIsSum, AddOrderedType
  <2> QED BY <2>1, <2>2, SumIsSymmetric
<1> QED BY <1>1, <1>2

(***************************************************************************)
(* A 0 that is added leaves a normal number and 0 as they were, to the     *)
(* bit.                                                                    *)
(***************************************************************************)
THEOREM AddingZero ==
  ASSUME NEW x \in Numbers, IsNormal(x) \/ x = 0
  PROVE  ieee754_add(0, x) = x
<1>1. 0 \in Numbers /\ exponent(0) = 0 /\ mantissa(0) = 0 /\ sign(0) = 0
  BY Zero
<1>2. /\ exponent(x) \in 0 .. EXP_MASK /\ mantissa(x) \in Nat /\ fraction(x) \in 0 .. HIDDEN - 1
      /\ sign(x) \in {0, 1} /\ HIDDEN \in Nat /\ EXP_MASK \in Nat /\ MANT_BITS \in Nat
  BY Fields, ValueInt, Bits, Registers
<1>3. ~Larger(0, x)
  BY <1>1, <1>2 DEF Larger
<1>4. ieee754_add(0, x) = AddOrdered(x, 0) /\ Ordered(x, 0)
  BY <1>1, <1>3, LargerOrders DEF ieee754_add
<1>5. Aligned(x, 0) = 0
  <2>1. 0 \in 0 .. 2 * HIDDEN - 1 /\ exponent(x) - exponent(0) \in Nat
    BY <1>1, <1>2, Bits
  <2>2. Aligned(x, 0) \in Nat /\ Aligned(x, 0) * 2^(exponent(x) - exponent(0)) <= 0
    BY <2>1, <1>1, ShiftedOut DEF Aligned
  <2>3. 2^(exponent(x) - exponent(0)) \in Nat \ {0}
    BY <2>1, PowerPositive
  <2>4. \A a, p \in Nat : p # 0 /\ a * p <= 0 => a = 0
    OBVIOUS
  <2> QED BY <2>2, <2>3, <2>4
<1>6. Combined(x, 0) = mantissa(x)
  BY <1>2, <1>5 DEF Combined
<1>7. CASE x = 0
  BY <1>1, <1>4, <1>6, <1>7 DEF AddOrdered
<1>8. CASE IsNormal(x)
  <2>1. exponent(x) # 0 /\ exponent(x) < EXP_MASK
    BY <1>8 DEF IsNormal, IsFinite
  <2>2. mantissa(x) = fraction(x) + HIDDEN
    BY <2>1 DEF mantissa
  <2>3. PICK shift \in -MANT_BITS .. 1, k \in HIDDEN .. 2 * HIDDEN - 1, rest \in {0, 1} :
          /\ Fitted(mantissa(x), shift, k, rest)
          /\ AddOrdered(x, 0) =
               IF exponent(x) + shift > EXP_MASK - 1 \/ exponent(x) + shift < 0 THEN 0
               ELSE Packed(sign(x), exponent(x) + shift, k - HIDDEN)
    <3>1. Combined(x, 0) # 0
      BY <1>2, <1>6, <2>2, Bits
    <3> HIDE DEF Fitted
    <3> QED BY <3>1, <1>1, <1>4, <1>6, AddOrderedIs
  <2>4. shift < 1
    BY <2>2, <2>3, <1>2 DEF Fitted
  <2>5. -shift \in Nat /\ k = mantissa(x) * 2^(-shift) /\ k < 2 * HIDDEN
    BY <2>3, <2>4, <1>2 DEF Fitted
  <2>6. shift = 0
    <3> SUFFICES ASSUME shift # 0 PROVE FALSE
      OBVIOUS
    <3>1. 1 \in Nat /\ 1 <= -shift
      BY <2>4, <2>5
    <3>2. 2^1 <= 2^(-shift)
      BY <3>1, <2>5, PowerMonotone, Zenon
    <3>3. 2 <= 2^(-shift) /\ 2^(-shift) \in Nat
      BY <3>2, <2>5, PowerPositive
    <3>4. \A a, p \in Nat : 2 <= p => 2 * a <= a * p
      OBVIOUS
    <3>5. 2 * mantissa(x) <= k
      BY <3>3, <3>4, <2>5, <1>2
    <3> QED BY <3>5, <2>2, <2>5, <1>2
  <2>7. k = mantissa(x)
    <3>1. 2^(-shift) = 1
      BY <2>6
    <3> QED BY <3>1, <2>5, <1>2
  <2>8. AddOrdered(x, 0) = Packed(sign(x), exponent(x), fraction(x))
    BY <2>1, <2>2, <2>3, <2>6, <2>7, <1>2
  <2> QED BY <2>8, <1>4, Fields
<1> QED BY <1>7, <1>8

(***************************************************************************)
(* The order of the operands makes no difference, not to a single bit:     *)
(* when neither is larger, they are equal or cancel.  So the probe may add *)
(* a perturbation to a cell or a cell to a perturbation (probe.c:176).     *)
(***************************************************************************)
THEOREM AdditionCommutes ==
  ASSUME NEW a \in Numbers, NEW b \in Numbers
  PROVE  ieee754_add(a, b) = ieee754_add(b, a)
<1>1. /\ exponent(a) \in Nat /\ exponent(b) \in Nat /\ mantissa(a) \in Nat /\ mantissa(b) \in Nat
      /\ fraction(a) \in Nat /\ fraction(b) \in Nat /\ HIDDEN \in Nat
  BY Fields, ValueInt, Bits
<1>2. CASE Larger(a, b) \/ Larger(b, a)
  <2>1. ~(Larger(a, b) /\ Larger(b, a))
    BY <1>1 DEF Larger
  <2> QED BY <2>1, <1>2 DEF ieee754_add
<1>3. CASE ~Larger(a, b) /\ ~Larger(b, a)
  <2>1. exponent(a) = exponent(b) /\ mantissa(a) = mantissa(b)
    BY <1>1, <1>3 DEF Larger
  <2>2. ieee754_add(a, b) = AddOrdered(b, a) /\ ieee754_add(b, a) = AddOrdered(a, b)
    BY <1>3 DEF ieee754_add
  <2>3. CASE sign(a) = sign(b)
    <3>1. fraction(a) = fraction(b)
      BY <2>1, <1>1 DEF mantissa
    <3>2. a = b
      BY <2>1, <2>3, <3>1, Fields
    <3> QED BY <3>2
  <2>4. CASE sign(a) # sign(b)
    <3>1. Aligned(a, b) = mantissa(b) /\ Aligned(b, a) = mantissa(a)
      BY <2>1, <1>1, GapBounds
    <3>2. Combined(a, b) = 0 /\ Combined(b, a) = 0
      BY <2>1, <2>4, <3>1, <1>1 DEF Combined
    <3> QED BY <2>2, <3>2 DEF AddOrdered
  <2> QED BY <2>3, <2>4
<1> QED BY <1>2, <1>3

\* There is one way to write a number with the hidden bit set.
LEMMA OneNormalForm ==
  ASSUME NEW m \in HIDDEN .. 2 * HIDDEN - 1, NEW k \in HIDDEN .. 2 * HIDDEN - 1,
         NEW p \in Nat, NEW q \in Nat, m * 2^p = k * 2^q
  PROVE  p = q /\ m = k
<1>1. \A i, j \in Nat, x, y \in HIDDEN .. 2 * HIDDEN - 1 : x * 2^i = y * 2^j => ~(i < j)
  <2> SUFFICES ASSUME NEW i \in Nat, NEW j \in Nat, NEW x \in HIDDEN .. 2 * HIDDEN - 1,
                      NEW y \in HIDDEN .. 2 * HIDDEN - 1, x * 2^i = y * 2^j, i < j
               PROVE  FALSE
    OBVIOUS
  <2>1. j - i \in Nat /\ 1 <= j - i /\ j = (j - i) + i /\ 1 \in Nat
    OBVIOUS
  <2>2. 2^j = 2^(j - i) * 2^i
    BY <2>1, PowerSum
  <2>3. 2^1 <= 2^(j - i)
    BY <2>1, PowerMonotone, Zenon
  <2>4. 2^i \in Nat \ {0} /\ 2^(j - i) \in Nat
    BY <2>1, PowerPositive
  <2>5. x \in Nat /\ y \in Nat /\ x < 2 * HIDDEN /\ HIDDEN <= y /\ HIDDEN \in Nat
    BY Bits
  <2>6. \A a, b, u, v \in Nat : v # 0 /\ a * v = b * (u * v) => a = b * u
    OBVIOUS
  <2>7. x * 2^i = y * (2^(j - i) * 2^i)
    BY <2>2
  <2>8. x = y * 2^(j - i)
    BY <2>4, <2>5, <2>6, <2>7
  <2>9. \A a, u \in Nat : 2 <= u => 2 * a <= a * u
    OBVIOUS
  <2>10. 2 <= 2^(j - i)
    BY <2>3
  <2>11. 2 * y <= x
    BY <2>4, <2>5, <2>8, <2>9, <2>10
  <2> QED BY <2>5, <2>11
<1>2. p = q
  <2>1. ~(p < q) /\ ~(q < p)
    BY <1>1
  <2> QED BY <2>1
<1>3. \A a, b, v \in Nat : v # 0 /\ a * v = b * v => a = b
  OBVIOUS
<1>4. 2^p \in Nat \ {0} /\ m \in Nat /\ k \in Nat
  BY PowerPositive, Bits
<1> QED BY <1>2, <1>3, <1>4

\* What is shifted until the hidden bit is set gets that form.
LEMMA ShiftedNormalForm ==
  ASSUME NEW m \in HIDDEN .. 2 * HIDDEN - 1, NEW k \in HIDDEN .. 2 * HIDDEN - 1,
         NEW c \in Nat, NEW p \in Nat, NEW q \in Nat, NEW j \in Nat,
         m * 2^p = c * 2^q, k = c * 2^j
  PROVE  p + j = q /\ m = k
<1> DEFINE r == p + j
<1>1. m \in Nat /\ 2^p \in Nat /\ 2^q \in Nat /\ 2^j \in Nat
  BY PowerPositive, Bits
<1>2. 2^r = 2^p * 2^j /\ r \in Nat
  BY PowerSum
<1>3. \A a, b, d, e \in Nat : a * b = c * d => a * (b * e) = (c * e) * d
  <2> SUFFICES ASSUME NEW a \in Nat, NEW b \in Nat, NEW d \in Nat, NEW e \in Nat, a * b = c * d
               PROVE  a * (b * e) = (c * e) * d
    OBVIOUS
  <2>1. a * (b * e) = (a * b) * e /\ (c * e) * d = (c * d) * e
    OBVIOUS
  <2> QED BY <2>1
<1>4. m * (2^p * 2^j) = (c * 2^j) * 2^q
  BY <1>1, <1>3
<1>5. m * 2^r = k * 2^q
  BY <1>2, <1>4
<1>6. r = q /\ m = k
  <2> HIDE DEF r
  <2> QED BY <1>2, <1>5, OneNormalForm
<1> QED BY <1>6

\* Twice such a number and one has no such form: it takes a place more.
LEMMA OddHasNoNormalForm ==
  ASSUME NEW m \in HIDDEN .. 2 * HIDDEN - 1, NEW k \in HIDDEN .. 2 * HIDDEN - 1,
         NEW p \in Nat, NEW q \in Nat
  PROVE  m * 2^p # (2 * k + 1) * 2^q
<1> SUFFICES ASSUME m * 2^p = (2 * k + 1) * 2^q PROVE FALSE
  OBVIOUS
<1>1. m \in Nat /\ k \in Nat /\ m < 2 * HIDDEN /\ HIDDEN <= k /\ HIDDEN \in Nat
  BY Bits
<1>2. 2^p \in Nat \ {0} /\ 2^q \in Nat \ {0}
  BY PowerPositive
<1>3. \A a, b, u, v \in Nat : v # 0 /\ a * v = b * (u * v) => a = b * u
  OBVIOUS
<1>4. CASE p <= q
  <2>1. q - p \in Nat /\ q = (q - p) + p
    BY <1>4
  <2>2. 2^q = 2^(q - p) * 2^p /\ 2^(q - p) \in Nat \ {0}
    BY <2>1, PowerSum, PowerPositive
  <2>3. 2 * k + 1 \in Nat
    BY <1>1
  <2>4. m * 2^p = (2 * k + 1) * (2^(q - p) * 2^p)
    BY <2>2
  <2>5. m = (2 * k + 1) * 2^(q - p)
    BY <2>2, <2>3, <2>4, <1>1, <1>2, <1>3
  <2>6. \A a, u \in Nat : u # 0 => a <= a * u
    OBVIOUS
  <2>7. 2 * k + 1 <= m
    BY <2>2, <2>3, <2>5, <2>6
  <2> QED BY <2>7, <1>1
<1>5. CASE p > q
  <2>1. (p - q) - 1 \in Nat /\ p - q \in Nat /\ p = (p - q) + q /\ p - q = ((p - q) - 1) + 1
    BY <1>5
  <2>2. 2^p = 2^(p - q) * 2^q /\ 2^(p - q) = 2 * 2^((p - q) - 1) /\ 2^((p - q) - 1) \in Nat
    <3>1. 2^p = 2^(p - q) * 2^q
      BY <2>1, PowerSum
    <3>2. 2^(((p - q) - 1) + 1) = 2 * 2^((p - q) - 1)
      BY <2>1, PowerStep
    <3> QED BY <3>1, <3>2, <2>1, PowerPositive
  <2>3. 2 * k + 1 \in Nat /\ 2^(p - q) \in Nat
    BY <1>1, <2>1, PowerPositive
  <2>4. (2 * k + 1) * 2^q = m * (2^(p - q) * 2^q)
    BY <2>2
  <2>5. 2 * k + 1 = m * 2^(p - q)
    BY <2>3, <2>4, <1>1, <1>2, <1>3
  <2>6. \A a, b, u \in Nat : 2 * a + 1 # b * (2 * u)
    <3> SUFFICES ASSUME NEW a \in Nat, NEW b \in Nat, NEW u \in Nat PROVE 2 * a + 1 # b * (2 * u)
      OBVIOUS
    <3>1. b * (2 * u) = 2 * (b * u) /\ b * u \in Nat
      OBVIOUS
    <3>2. \A n \in Nat : 2 * a + 1 # 2 * n
      OBVIOUS
    <3> QED BY <3>1, <3>2
  <2>7. 2 * k + 1 # m * (2 * 2^((p - q) - 1))
    BY <2>2, <2>6, <1>1
  <2> QED BY <2>2, <2>5, <2>7
<1> QED BY <1>4, <1>5

\* The exact sum, when nothing of the smaller number is shifted out.
LEMMA OrderedIsExact ==
  ASSUME NEW l \in Numbers, NEW s \in Numbers, IsNormal(l), IsNormal(s), Ordered(l, s),
         NEW n \in Int, Value(s) = n * Scale(l),
         NEW x \in Numbers, IsNormal(x) \/ x = 0, Value(x) = Value(l) + Value(s)
  PROVE  AddOrdered(l, s) = x
<1> DEFINE C == Combined(l, s)
           u == Scale(l)
           A == Aligned(l, s)
           v == mantissa(s) * Scale(s)
<1>1. /\ exponent(l) \in Nat \ {0} /\ exponent(s) \in Nat \ {0} /\ exponent(s) <= exponent(l)
      /\ MANT_BITS \in Nat /\ EXP_MASK \in Nat /\ HIDDEN \in Nat /\ HIDDEN >= 2
      /\ sign(s) \in {0, 1} /\ sign(l) \in {0, 1} /\ sign(x) \in {0, 1}
  BY Fields, Bits, Registers DEF Ordered, IsNormal
<1>2. u \in Nat \ {0} /\ A \in Nat /\ Gap(l, s) \in Nat /\ Gap(l, s) < u /\ v \in Nat
  <2>1. Flushed(s) = 0
    BY DEF Flushed
  <2> QED BY <2>1, <1>1, GapBounds, Scales, ValueInt
<1>3. Gap(l, s) = 0
  <2>1. Gap(l, s) = v - A * u
    BY DEF Gap
  <2>2. Value(s) = v \/ Value(s) = -v
    <3>1. \A a, b \in Nat : 1 * a * b = a * b /\ (-1) * a * b = -(a * b)
      OBVIOUS
    <3> QED BY <3>1, ValueInt DEF Value
  <2>3. \E i \in Int : v = i * u
    <3>1. CASE Value(s) = v
      BY <3>1
    <3>2. CASE Value(s) = -v
      <4>1. v = (-n) * u /\ -n \in Int
        <5>1. \A i \in Int, a, b \in Nat : -b = i * a => b = (-i) * a
          OBVIOUS
        <5>2. -v = n * u
          BY <3>2
        <5> HIDE DEF v, u
        <5> QED BY <5>1, <5>2, <1>2
      <4> QED BY <4>1
    <3> QED BY <2>2, <3>1, <3>2
  <2>4. PICK i \in Int : v = i * u
    BY <2>3
  <2>5. \A a, i1 \in Int, b \in Nat : b # 0 /\ i1 * b - a * b >= 0 /\ i1 * b - a * b < b
                                        => i1 * b - a * b = 0
    <3> SUFFICES ASSUME NEW a \in Int, NEW i1 \in Int, NEW b \in Nat, b # 0,
                        i1 * b - a * b >= 0, i1 * b - a * b < b
                 PROVE  i1 * b - a * b = 0
      OBVIOUS
    <3>1. i1 * b - a * b = (i1 - a) * b
      OBVIOUS
    <3>2. \A j \in Int : j * b >= 0 /\ j * b < b => j = 0
      OBVIOUS
    <3>3. i1 - a = 0
      BY <3>1, <3>2
    <3> QED BY <3>1, <3>3
  <2> HIDE DEF v, A, u
  <2>6. i * u - A * u >= 0 /\ i * u - A * u < u
    BY <2>1, <2>4, <1>2
  <2> QED BY <2>1, <2>4, <2>5, <2>6, <1>2
<1>4. C \in Nat /\ Value(x) = Sign(sign(l)) * (C * u)
  <2>1. C \in Nat
    BY CombinedBounds, <1>1
  <2>2. C * u \in Nat
    BY <2>1, <1>2
  <2>3. Exact(l, s) = C * u
    BY <1>3, <2>2 DEF Exact
  <2> QED BY <2>1, <2>3, ExactIs
<1>5. Value(0) = 0
  BY Zero
<1>6. IsNormal(x) => /\ exponent(x) \in Nat \ {0} /\ exponent(x) < EXP_MASK
                     /\ mantissa(x) \in HIDDEN .. 2 * HIDDEN - 1 /\ fraction(x) = mantissa(x) - HIDDEN
                     /\ Scale(x) \in Nat \ {0} /\ 2^exponent(x) = 2 * Scale(x)
                     /\ Value(x) = Sign(sign(x)) * (mantissa(x) * Scale(x))
  <2> SUFFICES ASSUME IsNormal(x)
               PROVE  /\ exponent(x) \in Nat \ {0} /\ exponent(x) < EXP_MASK
                      /\ mantissa(x) \in HIDDEN .. 2 * HIDDEN - 1
                      /\ fraction(x) = mantissa(x) - HIDDEN
                      /\ Scale(x) \in Nat \ {0} /\ 2^exponent(x) = 2 * Scale(x)
                      /\ Value(x) = Sign(sign(x)) * (mantissa(x) * Scale(x))
    OBVIOUS
  <2>1. exponent(x) \in Nat \ {0} /\ exponent(x) < EXP_MASK
    BY Fields, Bits DEF IsNormal, IsFinite
  <2>2. mantissa(x) \in HIDDEN .. 2 * HIDDEN - 1 /\ fraction(x) = mantissa(x) - HIDDEN
    BY <2>1, Fields, Bits DEF mantissa
  <2>3. Scale(x) \in Nat \ {0} /\ 2^exponent(x) = 2 * Scale(x)
    BY <2>1, Scales
  <2>4. \A a, b \in Nat : 1 * a * b = 1 * (a * b) /\ (-1) * a * b = (-1) * (a * b)
    OBVIOUS
  <2>5. Value(x) = Sign(sign(x)) * (mantissa(x) * Scale(x))
    BY <2>4, <1>1, ValueInt DEF Value, Sign
  <2> QED BY <2>1, <2>2, <2>3, <2>5
<1>7. CASE C = 0
  <2>1. AddOrdered(l, s) = 0
    BY <1>7 DEF AddOrdered
  <2>2. Value(x) = 0
    BY <1>4, <1>7, <1>2 DEF Sign
  <2>3. ~IsNormal(x)
    <3> SUFFICES ASSUME IsNormal(x) PROVE FALSE
      OBVIOUS
    <3>1. \A a, b \in Nat : a # 0 /\ b # 0 => 1 * (a * b) # 0 /\ (-1) * (a * b) # 0
      OBVIOUS
    <3>2. mantissa(x) \in Nat \ {0}
      BY <1>1, <1>6
    <3> QED BY <3>1, <3>2, <1>1, <1>6, <2>2 DEF Sign
  <2> QED BY <2>1, <2>3
<1>8. CASE C # 0
  <2>1. \A a, b \in Nat : a # 0 /\ b # 0 => a * b \in Nat \ {0}
    OBVIOUS
  <2>2. C * u \in Nat \ {0}
    BY <2>1, <1>2, <1>4, <1>8
  <2>3. IsNormal(x)
    BY <2>2, <1>1, <1>4, <1>5 DEF Sign
  <2>4. mantissa(x) * Scale(x) \in Nat \ {0}
    BY <2>1, <2>3, <1>1, <1>6
  <2>5. sign(x) = sign(l) /\ mantissa(x) * Scale(x) = C * u
    <3>1. \A a, b \in Nat \ {0} : /\ 1 * a # (-1) * b /\ (-1) * a # 1 * b
                                  /\ (1 * a = 1 * b => a = b) /\ ((-1) * a = (-1) * b => a = b)
      OBVIOUS
    <3> HIDE DEF C, u
    <3> QED BY <3>1, <2>2, <2>3, <2>4, <1>1, <1>4, <1>6 DEF Sign
  <2>6. mantissa(x) * 2^exponent(x) = C * 2^exponent(l)
    <3>1. 2^exponent(l) = 2 * u
      BY <1>1, Scales
    <3>2. \A a, b, c, d \in Nat : a * b = c * d => a * (2 * b) = c * (2 * d)
      OBVIOUS
    <3>3. mantissa(x) \in Nat /\ Scale(x) \in Nat
      BY ValueInt
    <3> QED BY <3>1, <3>2, <3>3, <2>3, <2>5, <1>2, <1>4, <1>6
  <2>7. PICK shift \in -MANT_BITS .. 1, k \in HIDDEN .. 2 * HIDDEN - 1, rest \in {0, 1} :
          /\ Fitted(C, shift, k, rest)
          /\ AddOrdered(l, s) =
               IF exponent(l) + shift > EXP_MASK - 1 \/ exponent(l) + shift < 0 THEN 0
               ELSE Packed(sign(l), exponent(l) + shift, k - HIDDEN)
    <3> HIDE DEF Fitted
    <3> QED BY <1>8, AddOrderedIs
  <2>8. exponent(x) = exponent(l) + shift /\ mantissa(x) = k
    <3>1. mantissa(x) \in HIDDEN .. 2 * HIDDEN - 1 /\ mantissa(x) \in Nat /\ exponent(x) \in Nat
          /\ k \in Nat
      BY <2>3, <1>1, <1>6
    <3>2. CASE shift = 1
      <4>1. C = 2 * k + rest
        BY <2>7, <3>2 DEF Fitted
      <4>2. rest # 1
        <5>1. mantissa(x) * 2^exponent(x) # (2 * k + 1) * 2^exponent(l)
          BY <3>1, <1>1, OddHasNoNormalForm
        <5> QED BY <5>1, <4>1, <2>6
      <4>3. C = 2 * k
        BY <4>1, <4>2, <3>1
      <4>4. 2^(exponent(l) + 1) = 2 * 2^exponent(l)
        BY <1>1, PowerStep
      <4>5. \A a, b \in Nat : (2 * a) * b = a * (2 * b)
        OBVIOUS
      <4>6. 2^exponent(l) \in Nat
        BY <1>1, PowerPositive
      <4>7. mantissa(x) * 2^exponent(x) = k * 2^(exponent(l) + 1)
        BY <2>6, <4>3, <4>4, <4>5, <4>6, <3>1
      <4>8. exponent(l) + 1 \in Nat
        BY <1>1
      <4> QED BY <4>7, <4>8, <3>1, <3>2, OneNormalForm
    <3>3. CASE shift < 1
      <4>1. k = C * 2^(-shift) /\ -shift \in Nat
        BY <2>7, <3>3, <1>1 DEF Fitted
      <4>2. exponent(x) + (-shift) = exponent(l) /\ mantissa(x) = k
        <5> HIDE DEF C
        <5>1. C \in Nat /\ exponent(l) \in Nat
          BY <1>1, <1>4
        <5>2. PICK j \in Nat : j = -shift
          BY <4>1
        <5>3. k = C * 2^j
          BY <4>1, <5>2
        <5>4. exponent(x) + j = exponent(l) /\ mantissa(x) = k
          BY <5>1, <5>3, <2>6, <3>1, ShiftedNormalForm
        <5> QED BY <5>2, <5>4
      <4> QED BY <4>1, <4>2, <3>1, <1>1
    <3> QED BY <2>7, <3>2, <3>3, <1>1
  <2>9. AddOrdered(l, s) = Packed(sign(x), exponent(x), fraction(x))
    BY <2>3, <2>5, <2>7, <2>8, <1>1, <1>6
  <2> QED BY <2>9, Fields
<1> QED BY <1>7, <1>8, <1>4

(***************************************************************************)
(* An addition that has nothing to round is exact: when both numbers are   *)
(* multiples of the larger one's last place, as whole numbers of up to 53  *)
(* bits are, and their sum is a number or 0, ieee754_add returns it, to    *)
(* the bit (probe.c:155).                                                  *)
(***************************************************************************)
THEOREM AdditionIsExact ==
  ASSUME NEW a \in Numbers, NEW b \in Numbers, IsNormal(a), IsNormal(b),
         NEW m \in Int, NEW n \in Int,
         Value(a) = m * Scale(b), Value(b) = n * Scale(a),
         NEW x \in Numbers, IsNormal(x) \/ x = 0, Value(x) = Value(a) + Value(b)
  PROVE  ieee754_add(a, b) = x
<1>1. CASE Larger(a, b)
  BY <1>1, LargerOrders, OrderedIsExact DEF ieee754_add
<1>2. CASE ~Larger(a, b)
  <2>1. Value(x) = Value(b) + Value(a)
    BY ValueInt
  <2> QED BY <2>1, <1>2, LargerOrders, OrderedIsExact DEF ieee754_add
<1> QED BY <1>1, <1>2
==============================================================================
