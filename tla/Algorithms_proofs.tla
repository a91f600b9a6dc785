-------------------------- MODULE Algorithms_proofs --------------------------
(***************************************************************************)
(* Proofs about the algorithms on addresses, for every base, size of byte, *)
(* length of address and input. What a recursive function computes is      *)
(* proved by induction, which here is the statement that a set of numbers  *)
(* with each number whose predecessors it has is all numbers: a statement  *)
(* about a number is the set of those it holds for. From it follow what    *)
(* powers, numbers and digits are, that digits and numbers are each        *)
(* other's inverse, and with that: that Base58 is read back; that the      *)
(* kernel's search, its suffix tests and the entries of its table are      *)
(* right; that the ranges of a prefix are the addresses written with it.   *)
(* Last, the layout of the kernels' memory, for every stride.              *)
(***************************************************************************)
EXTENDS AddressAlgorithms, SequenceTheorems, WellFoundedInduction, TLAPS

-------------------------------------------------------------------------------
(* Induction, for sets; a statement is the set of numbers it holds for. *)

\* A set of numbers that is not empty has a least one.
LEMMA Least ==
  ASSUME NEW S \in SUBSET Nat, S # {}
  PROVE \E x \in S : \A y \in S : x <= y
  <1> DEFINE R == {p \in Nat \X Nat : p[1] < p[2]}
  <1>1. IsWellFoundedOn(R, Nat)
    BY NatLessThanWellFounded DEF OpToRel
  <1>2. PICK x \in S : \A y \in S : ~(<<y, x>> \in R)
    BY <1>1, WFMin
  <1>3. ASSUME NEW y \in S PROVE x <= y
    <2>1. ~(y < x)
      BY <1>2
    <2> QED BY <2>1
  <1> QED BY <1>3

\* What all numbers below a number hand on to it holds for all.
LEMMA Induction ==
  ASSUME NEW S,
         \A n \in Nat : (\A m \in 0 .. n - 1 : m \in S) => n \in S
  PROVE \A n \in Nat : n \in S
  <1> SUFFICES ASSUME NEW n \in Nat, n \notin S PROVE FALSE
    OBVIOUS
  <1>1. PICK x \in {m \in Nat : m \notin S} : \A y \in {m \in Nat : m \notin S} : x <= y
    BY Least
  <1>2. \A m \in 0 .. x - 1 : m \in S
    BY <1>1
  <1> QED BY <1>1, <1>2

\* H gives a lesser number, and p is defined by G from its value there.
Descends(H) == H \in [Nat -> Nat] /\ \A m \in Nat \ {0} : H[m] < m
Steps(V) == [Nat \X V -> V]
Defined(p, V, a, H, G) ==
  p \in [Nat -> V] /\ p[0] = a /\ \A m \in Nat \ {0} : p[m] = G[<<m, p[H[m]]>>]

\* A function of numbers may be defined from its own values for lesser numbers.
LEMMA Recursion ==
  ASSUME NEW V, NEW a \in V, NEW H, Descends(H), NEW G \in Steps(V)
  PROVE \E p : Defined(p, V, a, H, G)
  <1> USE DEF Descends, Steps
  <1> DEFINE Part(n, p) == /\ p \in [0 .. n -> V] /\ p[0] = a
                           /\ \A m \in 1 .. n : p[m] = G[<<m, p[H[m]]>>]
  <1>0. \A n \in Nat : \A m \in 1 .. n : H[m] \in 0 .. m - 1 /\ H[m] \in 0 .. n /\ H[m] \in 0 .. n - 1
    OBVIOUS
  <1>1. ASSUME NEW n \in Nat, NEW k \in 0 .. n, NEW p, NEW q, Part(n, p), Part(k, q)
        PROVE \A m \in 0 .. k : p[m] = q[m]
    <2> DEFINE S == {m \in Nat : m <= k => p[m] = q[m]}
    <2>1. ASSUME NEW m \in Nat, \A i \in 0 .. m - 1 : i \in S
          PROVE m \in S
      <3>1. CASE m = 0
        BY <1>1, <3>1
      <3>2. CASE m # 0 /\ m <= k
        <4>1. m \in 1 .. n /\ m \in 1 .. k /\ H[m] \in 0 .. m - 1 /\ H[m] \in Nat /\ H[m] <= k
          BY <1>0, <3>2
        <4>2. H[m] \in S
          BY <2>1, <4>1
        <4>3. p[H[m]] = q[H[m]]
          BY <4>1, <4>2
        <4>4. p[m] = G[<<m, p[H[m]]>>] /\ q[m] = G[<<m, q[H[m]]>>]
          BY <1>1, <4>1
        <4> QED BY <4>3, <4>4
      <3> QED BY <3>1, <3>2
    <2>2. \A m \in Nat : m \in S
      <3> HIDE DEF S
      <3> QED BY <2>1, Induction
    <2> QED BY <2>2
  <1>2. \A n \in Nat : \E p : Part(n, p)
    <2> DEFINE S == {n \in Nat : \E p : Part(n, p)}
    <2>1. ASSUME NEW n \in Nat, \A i \in 0 .. n - 1 : i \in S
          PROVE n \in S
      <3>1. CASE n = 0
        <4>1. Part(0, [i \in 0 .. 0 |-> a])
          OBVIOUS
        <4> QED BY <3>1, <4>1
      <3>2. CASE n # 0
        <4>1. n - 1 \in 0 .. n - 1
          BY <3>2
        <4>1a. n - 1 \in S
          BY <2>1, <4>1
        <4>2. PICK p : Part(n - 1, p)
          BY <4>1a
        <4>2a. p \in [0 .. n - 1 -> V] /\ p[0] = a /\ \A m \in 1 .. n - 1 : p[m] = G[<<m, p[H[m]]>>]
          BY <4>2
        <4>3. H[n] \in 0 .. n - 1
          BY <1>0, <3>2
        <4>3a. PICK g \in V : g = G[<<n, p[H[n]]>>]
          <5>1. p[H[n]] \in V
            BY <4>2a, <4>3
          <5> QED BY <5>1
        <4> DEFINE q == [i \in 0 .. n |-> IF i = n THEN g ELSE p[i]]
        <4>4. q \in [0 .. n -> V]
          BY <4>2a
        <4>5. q[0] = a
          BY <3>2, <4>2a
        <4>6. ASSUME NEW m \in 1 .. n PROVE q[m] = G[<<m, q[H[m]]>>]
          <5>1. H[m] \in 0 .. n /\ H[m] # n
            BY <1>0
          <5>2. q[H[m]] = p[H[m]]
            BY <5>1
          <5>3. CASE m = n
            <6>1. q[m] = g
              BY <5>3
            <6> QED BY <4>3a, <5>2, <5>3, <6>1
          <5>4. CASE m # n
            <6>1. m \in 1 .. n - 1 /\ q[m] = p[m]
              BY <5>4
            <6> QED BY <4>2a, <5>2, <6>1
          <5> QED BY <5>3, <5>4
        <4> HIDE DEF q
        <4>7. Part(n, q)
          BY <4>4, <4>5, <4>6
        <4> QED BY <4>7
      <3> QED BY <3>1, <3>2
    <2>2. \A n \in Nat : n \in S
      <3> HIDE DEF S
      <3> QED BY <2>1, Induction
    <2> QED BY <2>2
  <1> DEFINE F(n) == CHOOSE p : Part(n, p)
             p == [n \in Nat |-> F(n)[n]]
  <1>3. ASSUME NEW n \in Nat PROVE Part(n, F(n))
    <2> HIDE DEF Part
    <2> QED BY <1>2
  <1>4. ASSUME NEW n \in Nat, NEW k \in 0 .. n PROVE F(n)[k] = F(k)[k]
    <2>1. Part(n, F(n)) /\ Part(k, F(k)) /\ k \in 0 .. k
      <3> HIDE DEF F, Part
      <3> QED BY <1>3
    <2> HIDE DEF F, Part
    <2>2. \A m \in 0 .. k : F(n)[m] = F(k)[m]
      BY <1>1, <2>1
    <2> QED BY <2>1, <2>2
  <1>5. p \in [Nat -> V]
    <2>1. ASSUME NEW n \in Nat PROVE F(n)[n] \in V
      <3> HIDE DEF F
      <3>1. F(n) \in [0 .. n -> V] /\ n \in 0 .. n
        <4>1. \A q : Part(n, q) => q \in [0 .. n -> V]
          OBVIOUS
        <4> HIDE DEF Part
        <4>2. n \in 0 .. n
          OBVIOUS
        <4> QED BY <1>3, <4>1, <4>2
      <3> HIDE DEF Part
      <3> QED BY <3>1
    <2> HIDE DEF F
    <2> QED BY <2>1
  <1>6. ASSUME NEW m \in Nat PROVE p[m] = IF m = 0 THEN a ELSE G[<<m, p[H[m]]>>]
    <2>1. CASE m = 0
      <3> HIDE DEF F
      <3> QED BY <1>3, <2>1
    <2>2. CASE m # 0
      <3>1. m \in 1 .. m /\ H[m] \in 0 .. m /\ H[m] \in Nat
        BY <1>0, <2>2
      <3> HIDE DEF F
      <3>2. F(m)[m] = G[<<m, F(m)[H[m]]>>]
        BY <1>3, <3>1
      <3>3. F(m)[H[m]] = F(H[m])[H[m]]
        BY <1>4, <3>1
      <3> QED BY <2>2, <3>1, <3>2, <3>3
    <2> QED BY <2>1, <2>2, Zenon
  <1> HIDE DEF p
  <1> QED BY <1>5, <1>6 DEF Defined
\* The same, from the number before.
Counted(p, V, a, G) ==
  p \in [Nat -> V] /\ p[0] = a /\ \A m \in Nat \ {0} : p[m] = G[<<m, p[m - 1]>>]

LEMMA Counting ==
  ASSUME NEW V, NEW a \in V, NEW G \in Steps(V)
  PROVE \E p : Counted(p, V, a, G)
  <1> DEFINE H == [k \in Nat |-> IF k = 0 THEN 0 ELSE k - 1]
  <1>1. Descends(H) /\ \A k \in Nat \ {0} : H[k] = k - 1
    BY DEF Descends
  <1> HIDE DEF H
  <1>2. PICK p : Defined(p, V, a, H, G)
    BY <1>1, Recursion
  <1>3. Counted(p, V, a, G)
    BY <1>1, <1>2 DEF Defined, Counted
  <1> QED BY <1>3

-------------------------------------------------------------------------------
(* Powers *)

LEMMA PowRule ==
  ASSUME NEW b \in Nat
  PROVE /\ Pow(b, 0) = 1
        /\ \A n \in Nat : Pow(b, n) \in Nat /\ Pow(b, n + 1) = b * Pow(b, n)
  <1> DEFINE p == CHOOSE p : p = [k \in Nat |-> IF k = 0 THEN 1 ELSE b * p[k - 1]]
  <1>1. \A n : Pow(b, n) = p[n]
    BY DEF Pow
  <1> DEFINE G == [x \in Nat \X Nat |-> b * x[2]]
  <1>2. G \in Steps(Nat) /\ \A k, x \in Nat : G[<<k, x>>] = b * x
    BY DEF Steps
  <1> HIDE DEF G
  <1>3. PICK q : Counted(q, Nat, 1, G)
    BY <1>2, Counting
  <1>4. ASSUME NEW k \in Nat \ {0} PROVE q[k] = b * q[k - 1]
    <2>1. k - 1 \in Nat /\ q[k] = G[<<k, q[k - 1]>>] /\ q[k - 1] \in Nat
      BY <1>3 DEF Counted
    <2> QED BY <1>2, <2>1
  <1>5. q \in [Nat -> Nat] /\ q[0] = 1
    BY <1>3 DEF Counted
  <1>6. q = [k \in Nat |-> IF k = 0 THEN 1 ELSE b * q[k - 1]]
    BY <1>4, <1>5
  <1>7. p = [k \in Nat |-> IF k = 0 THEN 1 ELSE b * p[k - 1]]
    <2>1. \E r : r = [k \in Nat |-> IF k = 0 THEN 1 ELSE b * r[k - 1]]
      BY <1>6
    <2> QED BY <2>1
  <1> HIDE DEF p
  <1>8. p[0] = 1 /\ \A n \in Nat : p[n + 1] = b * p[n]
    <2>1. ASSUME NEW n \in Nat PROVE p[n + 1] = b * p[n]
      <3>1. n + 1 \in Nat /\ n + 1 # 0 /\ (n + 1) - 1 = n
        OBVIOUS
      <3> QED BY <1>7, <3>1
    <2> QED BY <1>7, <2>1
  <1>9. \A n \in Nat : p[n] \in Nat
    <2> DEFINE S == {n \in Nat : p[n] \in Nat}
    <2>1. ASSUME NEW n \in Nat, \A m \in 0 .. n - 1 : m \in S PROVE n \in S
      <3>1. CASE n = 0
        BY <1>8, <3>1
      <3>2. CASE n # 0
        <4>1. n - 1 \in 0 .. n - 1 /\ (n - 1) + 1 = n
          BY <3>2
        <4>2. n - 1 \in S
          BY <2>1, <4>1
        <4>3. p[n] = b * p[n - 1]
          BY <1>8, <4>1, <4>2
        <4> QED BY <4>2, <4>3
      <3> QED BY <3>1, <3>2
    <2>2. \A n \in Nat : n \in S
      <3> HIDE DEF S
      <3> QED BY <2>1, Induction
    <2> QED BY <2>2
  <1> QED BY <1>1, <1>8, <1>9

\* Induction by one.
LEMMA StepInduction ==
  ASSUME NEW S, 0 \in S, \A n \in Nat : n \in S => n + 1 \in S
  PROVE \A n \in Nat : n \in S
  <1>1. ASSUME NEW n \in Nat, \A m \in 0 .. n - 1 : m \in S PROVE n \in S
    <2>1. CASE n # 0
      <3>1. n - 1 \in 0 .. n - 1 /\ n - 1 \in Nat /\ (n - 1) + 1 = n
        BY <2>1
      <3>2. n - 1 \in S
        BY <1>1, <3>1
      <3> QED BY <3>1, <3>2
    <2> QED BY <2>1
  <1> QED BY <1>1, Induction

LEMMA PowPositive ==
  ASSUME NEW b \in Nat \ {0}, NEW n \in Nat
  PROVE Pow(b, n) \in Nat \ {0}
  <1> DEFINE S == {k \in Nat : Pow(b, k) # 0}
  <1>1. 0 \in S
    BY PowRule
  <1>2. ASSUME NEW k \in Nat, k \in S PROVE k + 1 \in S
    <2>1. Pow(b, k + 1) = b * Pow(b, k) /\ Pow(b, k) \in Nat \ {0}
      BY <1>2, PowRule
    <2> QED BY <2>1
  <1>3. n \in S
    <2> HIDE DEF S
    <2> QED BY <1>1, <1>2, StepInduction
  <1> QED BY <1>3, PowRule

LEMMA PowSum ==
  ASSUME NEW b \in Nat, NEW m \in Nat, NEW n \in Nat
  PROVE Pow(b, m + n) = Pow(b, m) * Pow(b, n)
  <1> DEFINE S == {k \in Nat : Pow(b, m + k) = Pow(b, m) * Pow(b, k)}
  <1>1. 0 \in S
    BY PowRule
  <1>2. ASSUME NEW k \in Nat, k \in S PROVE k + 1 \in S
    <2>1. Pow(b, (m + k) + 1) = b * Pow(b, m + k)
      BY PowRule
    <2>2. (m + k) + 1 = m + (k + 1)
      OBVIOUS
    <2>3. Pow(b, k + 1) = b * Pow(b, k) /\ Pow(b, k) \in Nat /\ Pow(b, m) \in Nat
      BY PowRule
    <2>4. b * (Pow(b, m) * Pow(b, k)) = Pow(b, m) * (b * Pow(b, k))
      <3>1. ASSUME NEW x \in Nat, NEW y \in Nat PROVE b * (x * y) = x * (b * y)
        OBVIOUS
      <3> QED BY <2>3, <3>1
    <2> QED BY <1>2, <2>1, <2>2, <2>3, <2>4
  <1>3. n \in S
    <2> HIDE DEF S
    <2> QED BY <1>1, <1>2, StepInduction
  <1> QED BY <1>3

\* A product is at least a factor, and more if the other is more than one.
LEMMA Product ==
  ASSUME NEW x \in Nat \ {0}, NEW y \in Nat \ {0}
  PROVE x * y \in Nat /\ x <= x * y /\ (y > 1 => x < x * y)
  <1>1. PICK n \in Nat : y = n + 1
    <2>1. y - 1 \in Nat /\ y = (y - 1) + 1
      OBVIOUS
    <2> QED BY <2>1
  <1>2. x * y = x * n + x
    BY <1>1
  <1>3. x * n \in Nat
    OBVIOUS
  <1>4. CASE n = 0
    BY <1>1, <1>2, <1>4
  <1>5. CASE n > 0
    <2>1. PICK k \in Nat : n = k + 1
      <3>1. n - 1 \in Nat /\ n = (n - 1) + 1
        BY <1>5
      <3> QED BY <3>1
    <2>2. x * n = x * k + x /\ x * k \in Nat
      BY <2>1
    <2> QED BY <1>2, <2>2
  <1> QED BY <1>4, <1>5

LEMMA PowGrows ==
  ASSUME NEW b \in Nat \ {0, 1}, NEW m \in Nat, NEW n \in Nat
  PROVE /\ m <= n => Pow(b, m) <= Pow(b, n)
        /\ m < n => Pow(b, m) < Pow(b, n)
        /\ n < Pow(b, n)
  <1>1. ASSUME NEW k \in Nat PROVE Pow(b, k) < Pow(b, k + 1) /\ Pow(b, k) \in Nat
    <2>1. Pow(b, k + 1) = b * Pow(b, k) /\ Pow(b, k) \in Nat \ {0}
      BY PowRule, PowPositive
    <2>2. ASSUME NEW x \in Nat \ {0} PROVE x < b * x
      <3>1. x < x * b
        BY Product
      <3> QED BY <3>1
    <2> QED BY <2>1, <2>2
  <1>2. \A k \in Nat : Pow(b, m) <= Pow(b, m + k) /\ (k # 0 => Pow(b, m) < Pow(b, m + k))
    <2> DEFINE S == {k \in Nat : Pow(b, m) <= Pow(b, m + k) /\ (k # 0 => Pow(b, m) < Pow(b, m + k))}
    <2>1. 0 \in S
      BY <1>1
    <2>2. ASSUME NEW k \in Nat, k \in S PROVE k + 1 \in S
      <3>1. Pow(b, m + k) < Pow(b, (m + k) + 1) /\ Pow(b, m + k) \in Nat /\ Pow(b, (m + k) + 1) \in Nat /\ Pow(b, m) \in Nat
        BY <1>1
      <3>2. (m + k) + 1 = m + (k + 1)
        OBVIOUS
      <3> QED BY <2>2, <3>1, <3>2
    <2>3. \A k \in Nat : k \in S
      <3> HIDE DEF S
      <3> QED BY <2>1, <2>2, StepInduction
    <2> QED BY <2>3
  <1>3. m <= n => n - m \in Nat /\ n = m + (n - m)
    OBVIOUS
  <1>4. n < Pow(b, n)
    <2> DEFINE S == {k \in Nat : k < Pow(b, k)}
    <2>1. 0 \in S
      BY PowRule
    <2>2. ASSUME NEW k \in Nat, k \in S PROVE k + 1 \in S
      <3>1. Pow(b, k) < Pow(b, k + 1) /\ Pow(b, k) \in Nat /\ Pow(b, k + 1) \in Nat
        BY <1>1
      <3> QED BY <2>2, <3>1
    <2>3. \A k \in Nat : k \in S
      <3> HIDE DEF S
      <3> QED BY <2>1, <2>2, StepInduction
    <2> QED BY <2>3
  <1> QED BY <1>2, <1>3, <1>4

-------------------------------------------------------------------------------
(* Division *)

\* Quotient and remainder.
LEMMA Divides ==
  ASSUME NEW a \in Nat, NEW s \in Nat \ {0}
  PROVE /\ a \div s \in Nat /\ a % s \in 0 .. s - 1
        /\ a = ((a \div s) * s) + (a % s)
  <1>1. a \div s \in Nat /\ a % s \in 0 .. s - 1
    OBVIOUS
  <1>2. ASSUME NEW q \in Nat, NEW r \in Nat, q = a \div s, r = a % s
        PROVE a = (q * s) + r
    BY <1>2, Z3
  <1> QED BY <1>1, <1>2

\* There is but one of each.
LEMMA Unique ==
  ASSUME NEW s \in Nat \ {0}, NEW q \in Nat, NEW r \in Nat,
         NEW u \in 0 .. s - 1, NEW v \in 0 .. s - 1, (q * s) + u = (r * s) + v
  PROVE q = r /\ u = v
  <1>1. ASSUME NEW x \in Nat, NEW y \in Nat, NEW k \in 0 .. s - 1, NEW l \in 0 .. s - 1,
               (x * s) + k = (y * s) + l, x < y
        PROVE FALSE
    <2>1. PICK n \in Nat : y = x + 1 + n
      <3>1. y - x - 1 \in Nat /\ y = x + 1 + (y - x - 1)
        BY <1>1
      <3> QED BY <3>1
    <2>2. y * s = x * s + s + n * s
      BY <2>1
    <2>3. n * s \in Nat /\ x * s \in Nat
      OBVIOUS
    <2> QED BY <1>1, <2>2, <2>3
  <1>2. q = r
    BY <1>1
  <1> QED BY <1>2

\* A quotient is no smaller than what goes in.
LEMMA AtLeast ==
  ASSUME NEW a \in Nat, NEW s \in Nat \ {0}, NEW k \in Nat, k * s <= a
  PROVE k <= a \div s
  <1>1. PICK q \in Nat, r \in 0 .. s - 1 : q = a \div s /\ a = (q * s) + r
    BY Divides
  <1>2. CASE q < k
    <2>1. k - q - 1 \in Nat /\ k = q + 1 + (k - q - 1)
      BY <1>2
    <2>2. PICK n \in Nat : k = q + 1 + n
      BY <2>1
    <2>3. k * s = q * s + s + n * s
      BY <2>2
    <2>4. n * s \in Nat /\ q * s \in Nat
      OBVIOUS
    <2> QED BY <1>1, <2>3, <2>4
  <1> QED BY <1>1, <1>2


\* The quotient is less than what is divided, and what is below a product has a quotient
\* below the factor.
LEMMA Quotient ==
  ASSUME NEW b \in Nat \ {0, 1}, NEW n \in Nat \ {0}
  PROVE n \div b \in 0 .. n - 1
  <1>1. PICK q \in Nat, r \in 0 .. b - 1 : q = n \div b /\ n = (q * b) + r
    BY Divides
  <1>2. CASE q = 0
    BY <1>1, <1>2
  <1>3. CASE q # 0
    <2>1. q < q * b /\ q * b \in Nat
      BY <1>3, Product
    <2> QED BY <1>1, <2>1
  <1> QED BY <1>2, <1>3

LEMMA Below ==
  ASSUME NEW a \in Nat, NEW s \in Nat \ {0}, NEW k \in Nat, a < k * s
  PROVE a \div s < k
  <1>1. PICK q \in Nat, r \in 0 .. s - 1 : q = a \div s /\ a = (q * s) + r
    BY Divides
  <1>2. CASE k <= q
    <2>1. PICK n \in Nat : q = k + n
      <3>1. q - k \in Nat /\ q = k + (q - k)
        BY <1>2
      <3> QED BY <3>1
    <2>2. q * s = k * s + n * s /\ n * s \in Nat /\ k * s \in Nat
      BY <2>1
    <2> QED BY <1>1, <2>2
  <1> QED BY <1>1, <1>2

\* Quotient and remainder of what is put together of both.
LEMMA Assembled ==
  ASSUME NEW q \in Nat, NEW s \in Nat \ {0}, NEW r \in 0 .. s - 1
  PROVE ((q * s) + r) \div s = q /\ ((q * s) + r) % s = r
  <1>1. PICK a \in Nat : a = (q * s) + r
    <2>1. q * s \in Nat
      OBVIOUS
    <2> QED BY <2>1
  <1>2. a \div s \in Nat /\ a % s \in 0 .. s - 1 /\ a = ((a \div s) * s) + (a % s)
    BY <1>1, Divides
  <1>3. a \div s = q /\ a % s = r
    BY <1>1, <1>2, Unique, SMTT(30)
  <1> QED BY <1>1, <1>3

\* A digit more does not reach the next number.
LEMMA Carry ==
  ASSUME NEW b \in Nat \ {0}, NEW x \in Nat, NEW y \in Nat, NEW d \in 0 .. b - 1, x < y
  PROVE x * b + d < b * y /\ x * b + d < y * b
  <1>1. PICK n \in Nat : y = x + 1 + n
    <2>1. y - x - 1 \in Nat /\ y = x + 1 + (y - x - 1)
      OBVIOUS
    <2> QED BY <2>1
  <1>2. b * y = x * b + b + n * b /\ y * b = b * y
    BY <1>1
  <1>3. PICK u \in Nat, w \in Nat : u = x * b /\ w = n * b
    OBVIOUS
  <1> QED BY <1>2, <1>3

\* A number that is not zero is not zero with a digit more.
LEMMA NotZero ==
  ASSUME NEW b \in Nat \ {0}, NEW x \in Nat, NEW d \in Nat
  PROVE x * b + d = 0 <=> x = 0 /\ d = 0
  <1>1. CASE x = 0
    BY <1>1
  <1>2. CASE x # 0
    <2>1. PICK u \in Nat : u = x * b /\ x <= u
      BY <1>2, Product
    <2> QED BY <1>2, <2>1
  <1> QED BY <1>1, <1>2

LEMMA Regroup ==
  ASSUME NEW x \in Nat, NEW y \in Nat, NEW p \in Nat, NEW b \in Nat, NEW d \in Nat
  PROVE ((x * p) + y) * b + d = x * (b * p) + (y * b + d)
  <1>1. PICK u \in Nat : u = x * p
    OBVIOUS
  <1>2. (u + y) * b = u * b + y * b
    OBVIOUS
  <1>3. u * b = x * (b * p)
    BY <1>1
  <1>4. y * b \in Nat /\ x * (b * p) \in Nat
    <2>1. b * p \in Nat
      OBVIOUS
    <2> QED BY <2>1
  <1> QED BY <1>1, <1>2, <1>3, <1>4

-------------------------------------------------------------------------------
(* Numbers *)

\* v has the numbers of the beginnings of s.
Accumulates(v, s, b) ==
  v \in [0 .. Len(s) -> Nat] /\ v[0] = 0 /\ \A i \in 1 .. Len(s) : v[i] = v[i - 1] * b + s[i]

LEMMA NumberSteps ==
  ASSUME NEW b \in Nat, NEW s \in Seq(Nat)
  PROVE \E v : Accumulates(v, s, b) /\ Number(s, b) = v[Len(s)]
  <1>1. Len(s) \in Nat /\ \A i \in 1 .. Len(s) : s[i] \in Nat
    OBVIOUS
  <1> DEFINE G == [x \in Nat \X Nat |-> x[2] * b + IF x[1] \in 1 .. Len(s) THEN s[x[1]] ELSE 0]
  <1>2. G \in Steps(Nat) /\ \A i \in 1 .. Len(s) : \A x \in Nat : G[<<i, x>>] = x * b + s[i]
    <2>1. \A x \in Nat : x * b \in Nat
      OBVIOUS
    <2>2. \A x \in Nat \X Nat : G[x] \in Nat
      BY <1>1, <2>1
    <2>3. \A i \in 1 .. Len(s) : i \in Nat
      BY <1>1
    <2> QED BY <2>2, <2>3 DEF Steps
  <1> HIDE DEF G
  <1>3. PICK p : Counted(p, Nat, 0, G)
    BY <1>2, Counting
  <1> DEFINE w == [i \in 0 .. Len(s) |-> p[i]]
  <1>4. ASSUME NEW i \in 1 .. Len(s) PROVE w[i] = w[i - 1] * b + s[i]
    <2>1. i \in Nat \ {0} /\ i - 1 \in Nat /\ i - 1 \in 0 .. Len(s) /\ i \in 0 .. Len(s)
      BY <1>1
    <2>2. p[i] = G[<<i, p[i - 1]>>] /\ p[i - 1] \in Nat
      BY <1>3, <2>1 DEF Counted
    <2>3. p[i] = p[i - 1] * b + s[i]
      BY <1>2, <2>2
    <2> QED BY <2>1, <2>3
  <1>5. w \in [0 .. Len(s) -> Nat] /\ w[0] = 0
    BY <1>1, <1>3 DEF Counted
  <1> HIDE DEF w
  <1> DEFINE v == CHOOSE v : v = [i \in 0 .. Len(s) |-> IF i = 0 THEN 0 ELSE v[i - 1] * b + s[i]]
  <1>6. Number(s, b) = v[Len(s)]
    BY DEF Number
  <1>7. v = [i \in 0 .. Len(s) |-> IF i = 0 THEN 0 ELSE v[i - 1] * b + s[i]]
    <2>1. w = [i \in 0 .. Len(s) |-> IF i = 0 THEN 0 ELSE w[i - 1] * b + s[i]]
      BY <1>4, <1>5
    <2>2. \E r : r = [i \in 0 .. Len(s) |-> IF i = 0 THEN 0 ELSE r[i - 1] * b + s[i]]
      BY <2>1
    <2> QED BY <2>2
  <1> HIDE DEF v
  <1>8. DOMAIN v = 0 .. Len(s) /\ v[0] = 0 /\ \A i \in 1 .. Len(s) : v[i] = v[i - 1] * b + s[i]
    <2>1. v[0] = 0 /\ DOMAIN v = 0 .. Len(s)
      BY <1>1, <1>7
    <2>2. ASSUME NEW i \in 1 .. Len(s) PROVE v[i] = v[i - 1] * b + s[i]
      <3>1. i \in 0 .. Len(s) /\ i # 0
        BY <1>1
      <3> QED BY <1>7, <3>1
    <2> QED BY <2>1, <2>2
  <1>9. \A i \in Nat : i <= Len(s) => v[i] \in Nat
    <2> DEFINE S == {i \in Nat : i <= Len(s) => v[i] \in Nat}
    <2>1. 0 \in S
      BY <1>8
    <2>2. ASSUME NEW i \in Nat, i \in S PROVE i + 1 \in S
      <3>1. CASE i + 1 <= Len(s)
        <4>1. i + 1 \in 1 .. Len(s) /\ (i + 1) - 1 = i /\ v[i] \in Nat
          BY <1>1, <2>2, <3>1
        <4>2. v[i + 1] = v[i] * b + s[i + 1] /\ s[i + 1] \in Nat
          BY <1>1, <1>8, <4>1
        <4>3. v[i] * b \in Nat
          BY <4>1
        <4> QED BY <4>2, <4>3
      <3> QED BY <3>1
    <2>3. \A i \in Nat : i \in S
      <3> HIDE DEF S
      <3> QED BY <2>1, <2>2, StepInduction
    <2> QED BY <2>3
  <1>10. v \in [0 .. Len(s) -> Nat]
    BY <1>1, <1>7, <1>8, <1>9, SMTT(30)
  <1> QED BY <1>6, <1>8, <1>10 DEF Accumulates

Alike(s, t, n) == \A i \in 1 .. n : s[i] = t[i]

\* What begins alike has the same numbers so far.
LEMMA SameSteps ==
  ASSUME NEW b \in Nat, NEW s \in Seq(Nat), NEW t \in Seq(Nat), NEW v, NEW w,
         Accumulates(v, s, b), Accumulates(w, t, b),
         NEW n \in Nat, n <= Len(s), n <= Len(t), Alike(s, t, n)
  PROVE v[n] = w[n]
  <1>1. Len(s) \in Nat /\ Len(t) \in Nat
    OBVIOUS
  <1>1a. \A i \in 1 .. n : s[i] = t[i]
    BY DEF Alike
  <1> DEFINE S == {i \in Nat : i <= n => v[i] = w[i]}
  <1>2. 0 \in S
    BY DEF Accumulates
  <1>3. ASSUME NEW i \in Nat, i \in S PROVE i + 1 \in S
    <2>1. CASE i + 1 <= n
      <3>1. /\ i + 1 \in 1 .. Len(s) /\ i + 1 \in 1 .. Len(t) /\ i + 1 \in 1 .. n
            /\ (i + 1) - 1 = i /\ v[i] = w[i]
        BY <1>1, <1>3, <2>1
      <3>2. v[i + 1] = v[i] * b + s[i + 1] /\ w[i + 1] = w[i] * b + t[i + 1]
        BY <3>1 DEF Accumulates
      <3> QED BY <1>1a, <3>1, <3>2
    <2> QED BY <2>1
  <1>4. n \in S
    <2> HIDE DEF S
    <2> QED BY <1>2, <1>3, StepInduction
  <1> QED BY <1>4

LEMMA NumberRule ==
  ASSUME NEW b \in Nat
  PROVE /\ Number(<<>>, b) = 0
        /\ \A s \in Seq(Nat) : Number(s, b) \in Nat
        /\ \A s \in Seq(Nat), d \in Nat : Number(Append(s, d), b) = Number(s, b) * b + d
  <1>1. \A s \in Seq(Nat) : Number(s, b) \in Nat
    <2> TAKE s \in Seq(Nat)
    <2>1. PICK v : Accumulates(v, s, b) /\ Number(s, b) = v[Len(s)]
      BY NumberSteps
    <2>2. Len(s) \in 0 .. Len(s)
      OBVIOUS
    <2> QED BY <2>1, <2>2 DEF Accumulates
  <1>2. Number(<<>>, b) = 0
    <2>1. <<>> \in Seq(Nat) /\ Len(<<>>) = 0
      OBVIOUS
    <2>2. PICK v : Accumulates(v, <<>>, b) /\ Number(<<>>, b) = v[Len(<<>>)]
      BY <2>1, NumberSteps
    <2> QED BY <2>1, <2>2 DEF Accumulates
  <1>3. ASSUME NEW s \in Seq(Nat), NEW d \in Nat
        PROVE Number(Append(s, d), b) = Number(s, b) * b + d
    <2>1. PICK t \in Seq(Nat) : t = Append(s, d)
      BY AppendProperties
    <2>2. Len(t) = Len(s) + 1 /\ t[Len(t)] = d /\ Len(s) \in Nat /\ \A i \in 1 .. Len(s) : s[i] = t[i]
      BY <2>1
    <2>3. PICK v : Accumulates(v, s, b) /\ Number(s, b) = v[Len(s)]
      BY NumberSteps
    <2>4. PICK w : Accumulates(w, t, b) /\ Number(t, b) = w[Len(t)]
      BY NumberSteps
    <2>5. v[Len(s)] = w[Len(s)]
      <3>1. Len(s) <= Len(s) /\ Len(s) <= Len(t) /\ Alike(s, t, Len(s))
        BY <2>2 DEF Alike
      <3> QED BY <2>2, <2>3, <2>4, <3>1, SameSteps
    <2>6. w[Len(t)] = w[Len(t) - 1] * b + t[Len(t)]
      <3>1. Len(t) \in 1 .. Len(t)
        BY <2>2
      <3> QED BY <2>4, <3>1 DEF Accumulates
    <2>7. Len(t) - 1 = Len(s)
      BY <2>2
    <2> QED BY <2>1, <2>2, <2>3, <2>4, <2>5, <2>6, <2>7
  <1> QED BY <1>1, <1>2, <1>3

\* Induction by one more element.
LEMMA AppendInduction ==
  ASSUME NEW V, NEW S, <<>> \in S,
         \A s \in Seq(V), d \in V : s \in S => Append(s, d) \in S
  PROVE \A s \in Seq(V) : s \in S
  <1> DEFINE T == {n \in Nat : \A s \in Seq(V) : Len(s) = n => s \in S}
  <1>1. 0 \in T
    BY EmptySeq
  <1>2. ASSUME NEW n \in Nat, n \in T PROVE n + 1 \in T
    <2> SUFFICES ASSUME NEW s \in Seq(V), Len(s) = n + 1 PROVE s \in S
      OBVIOUS
    <2>1. s # <<>>
      BY EmptySeq
    <2>2. PICK t \in Seq(V), d \in V : s = Append(t, d)
      BY <2>1, SequenceEmptyOrAppend
    <2>3. Len(t) = n
      <3>1. Len(s) = Len(t) + 1 /\ Len(t) \in Nat
        BY <2>2, AppendProperties, LenProperties
      <3> QED BY <3>1
    <2> QED BY <1>2, <2>2, <2>3
  <1>3. \A n \in Nat : n \in T
    <2> HIDE DEF T
    <2> QED BY <1>1, <1>2, StepInduction
  <1> QED BY <1>3, LenProperties

LEMMA DigitsRule ==
  ASSUME NEW b \in Nat \ {0, 1}
  PROVE /\ Digits(0, b) = <<>>
        /\ \A n \in Nat : Digits(n, b) \in Seq(0 .. b - 1)
        /\ \A n \in Nat \ {0} : Digits(n, b) = Append(Digits(n \div b, b), n % b)
  <1> DEFINE d == CHOOSE d : d = [m \in Nat |-> IF m = 0 THEN <<>> ELSE Append(d[m \div b], m % b)]
             V == Seq(0 .. b - 1)
             H == [m \in Nat |-> m \div b]
             G == [x \in Nat \X V |-> Append(x[2], x[1] % b)]
  <1>1. \A n : Digits(n, b) = d[n]
    BY DEF Digits
  <1>2. Descends(H) /\ \A m \in Nat : H[m] = m \div b
    <2>1. \A m \in Nat : m \div b \in Nat
      OBVIOUS
    <2>2. \A m \in Nat \ {0} : m \div b < m
      BY Quotient
    <2> QED BY <2>1, <2>2 DEF Descends
  <1>3. G \in Steps(V) /\ \A m \in Nat, s \in V : G[<<m, s>>] = Append(s, m % b)
    <2>1. ASSUME NEW m \in Nat, NEW s \in V PROVE Append(s, m % b) \in V
      <3>1. m % b \in 0 .. b - 1
        OBVIOUS
      <3> QED BY <3>1, AppendProperties
    <2> HIDE DEF V
    <2> QED BY <2>1 DEF Steps
  <1>4. <<>> \in V
    BY EmptySeq
  <1> HIDE DEF V, H, G
  <1>5. PICK q : Defined(q, V, <<>>, H, G)
    BY <1>2, <1>3, <1>4, Recursion
  <1>6. q \in [Nat -> V] /\ q[0] = <<>>
    BY <1>5 DEF Defined
  <1>7. ASSUME NEW m \in Nat \ {0} PROVE q[m] = Append(q[m \div b], m % b)
    <2>1. m \div b \in Nat /\ q[m] = G[<<m, q[m \div b]>>]
      <3>1. m \div b \in Nat
        OBVIOUS
      <3>2. q[m] = G[<<m, q[H[m]]>>]
        BY <1>5 DEF Defined
      <3> QED BY <1>2, <3>1, <3>2
    <2>2. q[m \div b] \in V
      BY <1>6, <2>1
    <2> QED BY <1>3, <2>1, <2>2
  <1>8. q = [m \in Nat |-> IF m = 0 THEN <<>> ELSE Append(q[m \div b], m % b)]
    <2>1. q = [m \in Nat |-> q[m]]
      BY <1>6
    <2> QED BY <1>6, <1>7, <2>1, Zenon
  <1>9. d = [m \in Nat |-> IF m = 0 THEN <<>> ELSE Append(d[m \div b], m % b)]
    <2>1. \E r : r = [m \in Nat |-> IF m = 0 THEN <<>> ELSE Append(r[m \div b], m % b)]
      BY <1>8, Zenon
    <2> QED BY <2>1, Zenon
  <1> HIDE DEF d
  <1>10. d[0] = <<>>
    BY <1>9
  <1>11. \A m \in Nat \ {0} : d[m] = Append(d[m \div b], m % b)
    BY <1>9
  <1>12. \A m \in Nat : d[m] \in V
    <2> DEFINE S == {m \in Nat : d[m] \in V}
    <2>1. ASSUME NEW n \in Nat, \A m \in 0 .. n - 1 : m \in S PROVE n \in S
      <3>1. CASE n = 0
        BY <1>4, <1>10, <3>1
      <3>2. CASE n # 0
        <4>1. n \div b \in 0 .. n - 1 /\ n % b \in 0 .. b - 1
          <5>1. n % b \in 0 .. b - 1
            OBVIOUS
          <5> QED BY <3>2, <5>1, Quotient
        <4>2. d[n \div b] \in V
          BY <2>1, <4>1
        <4>3. Append(d[n \div b], n % b) \in V
          BY <4>1, <4>2, AppendProperties DEF V
        <4> QED BY <1>11, <3>2, <4>3
      <3> QED BY <3>1, <3>2
    <2>2. \A n \in Nat : n \in S
      <3> HIDE DEF S
      <3> QED BY <2>1, Induction
    <2> QED BY <2>2
  <1> QED BY <1>1, <1>10, <1>11, <1>12 DEF V

\* The digits of a number are digits of it.
LEMMA NumberOfDigits ==
  ASSUME NEW b \in Nat \ {0, 1}, NEW n \in Nat
  PROVE Number(Digits(n, b), b) = n
  <1> DEFINE S == {k \in Nat : Number(Digits(k, b), b) = k}
  <1>1. ASSUME NEW k \in Nat, \A m \in 0 .. k - 1 : m \in S PROVE k \in S
    <2>1. CASE k = 0
      BY <2>1, DigitsRule, NumberRule
    <2>2. CASE k # 0
      <3>1. k \div b \in 0 .. k - 1 /\ k % b \in 0 .. b - 1 /\ k = ((k \div b) * b) + (k % b)
        BY <2>2, Quotient, Divides
      <3>2. PICK q \in Nat, r \in Nat : q = k \div b /\ r = k % b /\ k = (q * b) + r /\ q \in 0 .. k - 1
        BY <3>1
      <3>3. Digits(k, b) = Append(Digits(q, b), r) /\ Digits(q, b) \in Seq(Nat)
        <4>1. Digits(q, b) \in Seq(0 .. b - 1)
          BY DigitsRule
        <4>2. 0 .. b - 1 \subseteq Nat
          OBVIOUS
        <4>3. Digits(q, b) \in Seq(Nat)
          BY <4>1, <4>2, SeqMonotonic
        <4> QED BY <2>2, <3>2, <4>3, DigitsRule
      <3>4. Number(Digits(q, b), b) = q
        BY <1>1, <3>2
      <3>5. Number(Append(Digits(q, b), r), b) = Number(Digits(q, b), b) * b + r
        BY <3>3, NumberRule
      <3> QED BY <3>2, <3>3, <3>4, <3>5
    <2> QED BY <2>1, <2>2
  <1>2. n \in S
    <2> HIDE DEF S
    <2> QED BY <1>1, Induction
  <1> QED BY <1>2

LEMMA DigitsAreNumbers ==
  ASSUME NEW b \in Nat, NEW s \in Seq(0 .. b - 1)
  PROVE s \in Seq(Nat) /\ Number(s, b) \in Nat
  <1>1. 0 .. b - 1 \subseteq Nat
    OBVIOUS
  <1>2. s \in Seq(Nat)
    BY <1>1, SeqMonotonic
  <1> QED BY <1>2, NumberRule

\* So many digits make a number less than the power.
LEMMA NumberBound ==
  ASSUME NEW b \in Nat \ {0}, NEW s \in Seq(0 .. b - 1)
  PROVE Number(s, b) \in 0 .. Pow(b, Len(s)) - 1
  <1> DEFINE S == {t \in Seq(0 .. b - 1) : Number(t, b) < Pow(b, Len(t))}
  <1>1. <<>> \in S
    <2>1. Number(<<>>, b) = 0 /\ Pow(b, 0) = 1 /\ Len(<<>>) = 0 /\ <<>> \in Seq(0 .. b - 1)
      BY NumberRule, PowRule, EmptySeq
    <2> QED BY <2>1
  <1>2. ASSUME NEW t \in Seq(0 .. b - 1), NEW d \in 0 .. b - 1, t \in S PROVE Append(t, d) \in S
    <2>1. /\ Append(t, d) \in Seq(0 .. b - 1) /\ Len(Append(t, d)) = Len(t) + 1 /\ Len(t) \in Nat
      BY AppendProperties, LenProperties
    <2>2. Number(Append(t, d), b) = Number(t, b) * b + d
      BY DigitsAreNumbers, NumberRule
    <2>3. Pow(b, Len(t) + 1) = b * Pow(b, Len(t))
      BY <2>1, PowRule
    <2>4. PICK x \in Nat, y \in Nat : x = Number(t, b) /\ y = Pow(b, Len(t)) /\ x < y
      BY <1>2, <2>1, PowRule, DigitsAreNumbers
    <2>5. x * b + d < b * y
      BY <2>4, Carry
    <2> QED BY <2>1, <2>2, <2>3, <2>4, <2>5
  <1>3. s \in S
    <2> HIDE DEF S
    <2> QED BY <1>1, <1>2, AppendInduction
  <1>4. Pow(b, Len(s)) \in Nat /\ Number(s, b) \in Nat
    BY PowRule, LenProperties, DigitsAreNumbers
  <1> QED BY <1>3, <1>4

\* The first digit of a number is not zero.
Canonical(s) == s = <<>> \/ s[1] # 0

LEMMA DigitsCanonical ==
  ASSUME NEW b \in Nat \ {0, 1}, NEW n \in Nat
  PROVE Canonical(Digits(n, b)) /\ (n # 0 => Digits(n, b) # <<>>)
  <1> DEFINE S == {k \in Nat : Canonical(Digits(k, b))}
  <1>1. ASSUME NEW k \in Nat, \A m \in 0 .. k - 1 : m \in S PROVE k \in S
    <2>1. CASE k = 0
      BY <2>1, DigitsRule DEF Canonical
    <2>2. CASE k # 0
      <3>1. PICK q \in Nat, r \in 0 .. b - 1 : q = k \div b /\ r = k % b /\ k = (q * b) + r /\ q \in 0 .. k - 1
        BY <2>2, Quotient, Divides
      <3>2. Digits(k, b) = Append(Digits(q, b), r) /\ Digits(q, b) \in Seq(0 .. b - 1)
        BY <2>2, <3>1, DigitsRule
      <3>3. Digits(q, b) \in Seq(0 .. b - 1) /\ Len(Digits(q, b)) \in Nat
        BY <3>2, LenProperties
      <3>4. CASE q = 0
        <4>1. Digits(k, b) = Append(<<>>, r) /\ r # 0
          <5>1. r # 0
            <6>1. r \in Nat /\ (q * b) + r # 0
              BY <2>2, <3>1
            <6> QED BY <3>4, <6>1, NotZero
          <5>2. Digits(q, b) = <<>>
            BY <3>4, DigitsRule
          <5> QED BY <3>2, <5>1, <5>2
        <4>2. Append(<<>>, r)[1] = r
          OBVIOUS
        <4> QED BY <4>1, <4>2 DEF Canonical
      <3>5. CASE q # 0
        <4>1. Canonical(Digits(q, b))
          BY <1>1, <3>1
        <4>2. Digits(q, b) # <<>>
          <5>1. q \div b \in Nat /\ q % b \in 0 .. b - 1
            OBVIOUS
          <5>2. Digits(q, b) = Append(Digits(q \div b, b), q % b) /\ Digits(q \div b, b) \in Seq(0 .. b - 1)
            BY <3>5, <5>1, DigitsRule
          <5> QED BY <5>1, <5>2, AppendProperties
        <4>3. Len(Digits(q, b)) \in Nat \ {0} /\ Digits(q, b)[1] # 0
          BY <3>3, <4>1, <4>2, EmptySeq DEF Canonical
        <4>4. 1 \in 1 .. Len(Digits(q, b))
          BY <4>3
        <4>5. Append(Digits(q, b), r)[1] = Digits(q, b)[1]
          BY <3>3, <4>4, AppendProperties
        <4> QED BY <3>2, <4>3, <4>5 DEF Canonical
      <3> QED BY <3>4, <3>5
    <2> QED BY <2>1, <2>2
  <1>2. n \in S
    <2> HIDE DEF S
    <2> QED BY <1>1, Induction
  <1>3. ASSUME n # 0 PROVE Digits(n, b) # <<>>
    <2>1. n \div b \in Nat /\ n % b \in 0 .. b - 1
      OBVIOUS
    <2>2. Digits(n, b) = Append(Digits(n \div b, b), n % b) /\ Digits(n \div b, b) \in Seq(0 .. b - 1)
      BY <1>3, <2>1, DigitsRule
    <2> QED BY <2>1, <2>2, AppendProperties
  <1> QED BY <1>2, <1>3

\* The digits of the number of a sequence are the sequence.
LEMMA DigitsOfNumber ==
  ASSUME NEW b \in Nat \ {0, 1}, NEW s \in Seq(0 .. b - 1), Canonical(s)
  PROVE Digits(Number(s, b), b) = s
  <1> DEFINE S == {t \in Seq(0 .. b - 1) : Canonical(t) => /\ Digits(Number(t, b), b) = t
                                                           /\ t # <<>> => Number(t, b) # 0}
  <1>1. <<>> \in S
    BY NumberRule, DigitsRule, EmptySeq
  <1>2. ASSUME NEW t \in Seq(0 .. b - 1), NEW d \in 0 .. b - 1, t \in S PROVE Append(t, d) \in S
    <2>1. Append(t, d) \in Seq(0 .. b - 1)
      BY AppendProperties
    <2> SUFFICES ASSUME Canonical(Append(t, d))
                 PROVE /\ Digits(Number(Append(t, d), b), b) = Append(t, d)
                       /\ Number(Append(t, d), b) # 0
      BY <2>1
    <2>2. PICK x \in Nat : x = Number(t, b) /\ Number(Append(t, d), b) = x * b + d
      <3>1. t \in Seq(Nat) /\ Number(t, b) \in Nat /\ d \in Nat
        BY DigitsAreNumbers
      <3> QED BY <3>1, NumberRule
    <2>3. PICK k \in Nat : k = x * b + d
      <3>1. x * b \in Nat
        OBVIOUS
      <3> QED BY <3>1
    <2>4. k \div b = x /\ k % b = d
      BY <2>3, Assembled
    <2>5. CASE t = <<>>
      <3>1. x = 0 /\ k = d
        BY <2>2, <2>3, <2>5, NumberRule
      <3>2. Append(t, d)[1] = d /\ Append(t, d) # <<>>
        BY <2>5
      <3>3. k # 0
        BY <3>1, <3>2 DEF Canonical
      <3>4. Digits(k, b) = Append(Digits(0, b), d)
        BY <2>4, <3>1, <3>3, DigitsRule
      <3> QED BY <2>2, <2>3, <2>5, <3>3, <3>4, DigitsRule
    <2>6. CASE t # <<>>
      <3>1. Append(t, d)[1] = t[1] /\ Append(t, d) # <<>>
        <4>1. 1 \in 1 .. Len(t)
          BY <2>6, EmptySeq
        <4> QED BY <4>1, AppendProperties
      <3>2. Digits(x, b) = t /\ x # 0
        BY <1>2, <2>2, <2>6, <3>1 DEF Canonical
      <3>3. k # 0
        <4>1. d \in Nat
          OBVIOUS
        <4> QED BY <2>3, <3>2, <4>1, NotZero
      <3> QED BY <2>2, <2>3, <2>4, <3>2, <3>3, DigitsRule
    <2> QED BY <2>5, <2>6
  <1>3. s \in S
    <2> HIDE DEF S
    <2> QED BY <1>1, <1>2, AppendInduction
  <1> QED BY <1>3

LEMMA NumberConcat ==
  ASSUME NEW b \in Nat, NEW s \in Seq(Nat), NEW t \in Seq(Nat)
  PROVE Number(s \o t, b) = Number(s, b) * Pow(b, Len(t)) + Number(t, b)
  <1> DEFINE S == {u \in Seq(Nat) : Number(s \o u, b) = Number(s, b) * Pow(b, Len(u)) + Number(u, b)}
  <1>1. <<>> \in S
    <2>1. s \o <<>> = s /\ Len(<<>>) = 0 /\ <<>> \in Seq(Nat)
      BY ConcatEmptySeq, EmptySeq
    <2>2. Number(s, b) \in Nat /\ Number(<<>>, b) = 0 /\ Pow(b, 0) = 1
      BY NumberRule, PowRule
    <2> QED BY <2>1, <2>2
  <1>2. ASSUME NEW u \in Seq(Nat), NEW d \in Nat, u \in S PROVE Append(u, d) \in S
    <2>1. s \o u \in Seq(Nat) /\ Append(u, d) \in Seq(Nat) /\ Len(Append(u, d)) = Len(u) + 1 /\ Len(u) \in Nat
      BY ConcatProperties, AppendProperties, LenProperties
    <2>2. s \o Append(u, d) = Append(s \o u, d)
      <3>1. <<d>> \in Seq(Nat)
        OBVIOUS
      <3>2. Append(u, d) = u \o <<d>> /\ Append(s \o u, d) = (s \o u) \o <<d>>
        BY <2>1, AppendIsConcat
      <3> QED BY <3>1, <3>2, ConcatAssociative
    <2>3. /\ Number(Append(s \o u, d), b) = Number(s \o u, b) * b + d
          /\ Number(Append(u, d), b) = Number(u, b) * b + d
      BY <2>1, NumberRule
    <2>4. Pow(b, Len(u) + 1) = b * Pow(b, Len(u))
      BY <2>1, PowRule
    <2>5. PICK x \in Nat, y \in Nat, p \in Nat :
            x = Number(s, b) /\ y = Number(u, b) /\ p = Pow(b, Len(u))
      BY <2>1, NumberRule, PowRule
    <2>6. Number(s \o u, b) = x * p + y
      BY <1>2, <2>5
    <2>7. ((x * p) + y) * b + d = x * (b * p) + (y * b + d)
      BY Regroup
    <2> QED BY <2>1, <2>2, <2>3, <2>4, <2>5, <2>6, <2>7
  <1>3. t \in S
    <2> HIDE DEF S
    <2> QED BY <1>1, <1>2, AppendInduction, Zenon
  <1> QED BY <1>3

\* A sequence cut in two is a quotient and a remainder.
LEMMA Split ==
  ASSUME NEW b \in Nat \ {0}, NEW s \in Seq(0 .. b - 1), NEW l \in 0 .. Len(s)
  PROVE /\ SubSeq(s, 1, l) \in Seq(0 .. b - 1) /\ SubSeq(s, l + 1, Len(s)) \in Seq(0 .. b - 1)
        /\ Len(SubSeq(s, 1, l)) = l /\ Len(SubSeq(s, l + 1, Len(s))) = Len(s) - l
        /\ s = SubSeq(s, 1, l) \o SubSeq(s, l + 1, Len(s))
        /\ Number(SubSeq(s, 1, l), b) = Number(s, b) \div Pow(b, Len(s) - l)
        /\ Number(SubSeq(s, l + 1, Len(s)), b) = Number(s, b) % Pow(b, Len(s) - l)
  <1>1. Len(s) \in Nat /\ l \in Nat /\ l <= Len(s) /\ \A i \in 1 .. Len(s) : s[i] \in 0 .. b - 1
    BY LenProperties, ElementOfSeq
  <1>2. SubSeq(s, 1, l) \in Seq(0 .. b - 1) /\ Len(SubSeq(s, 1, l)) = l
    <2>1. \A i \in 1 .. l : s[i] \in 0 .. b - 1
      BY <1>1
    <2>2. /\ SubSeq(s, 1, l) \in Seq(0 .. b - 1)
          /\ Len(SubSeq(s, 1, l)) = IF 1 <= l THEN l - 1 + 1 ELSE 0
      BY <1>1, <2>1, SubSeqProperties
    <2> QED BY <1>1, <2>2
  <1>3. SubSeq(s, l + 1, Len(s)) \in Seq(0 .. b - 1) /\ Len(SubSeq(s, l + 1, Len(s))) = Len(s) - l
    <2>1. \A i \in l + 1 .. Len(s) : s[i] \in 0 .. b - 1
      BY <1>1
    <2>2. l + 1 \in Int /\ Len(s) \in Int
      BY <1>1
    <2>3. /\ SubSeq(s, l + 1, Len(s)) \in Seq(0 .. b - 1)
          /\ Len(SubSeq(s, l + 1, Len(s))) = IF l + 1 <= Len(s) THEN Len(s) - (l + 1) + 1 ELSE 0
      BY <2>1, <2>2, SubSeqProperties
    <2> QED BY <1>1, <2>3
  <1>4. s = SubSeq(s, 1, l) \o SubSeq(s, l + 1, Len(s))
    <2>1. 1 \in 1 .. Len(s) + 1 /\ l \in 1 - 1 .. Len(s) /\ Len(s) \in l .. Len(s)
      BY <1>1
    <2>2. SubSeq(s, 1, l) \o SubSeq(s, l + 1, Len(s)) = SubSeq(s, 1, Len(s))
      BY <2>1, ConcatAdjacentSubSeq
    <2> QED BY <2>2, SubSeqFull
  <1>5. PICK t, u : /\ t = SubSeq(s, 1, l) /\ u = SubSeq(s, l + 1, Len(s))
                    /\ t \in Seq(0 .. b - 1) /\ u \in Seq(0 .. b - 1)
    BY <1>2, <1>3
  <1>6. t \in Seq(Nat) /\ u \in Seq(Nat) /\ s = t \o u /\ Len(u) = Len(s) - l
    BY <1>3, <1>4, <1>5, DigitsAreNumbers
  <1>7. Number(s, b) = Number(t, b) * Pow(b, Len(u)) + Number(u, b)
    BY <1>6, NumberConcat
  <1>8. /\ Number(t, b) \in Nat /\ Pow(b, Len(u)) \in Nat \ {0}
        /\ Number(u, b) \in 0 .. Pow(b, Len(u)) - 1
    <2>1. Len(u) \in Nat
      BY <1>5, LenProperties
    <2>2. Pow(b, Len(u)) \in Nat \ {0}
      BY <2>1, PowPositive
    <2> QED BY <1>5, <2>2, DigitsAreNumbers, NumberBound
  <1>9. /\ Number(s, b) \div Pow(b, Len(u)) = Number(t, b)
        /\ Number(s, b) % Pow(b, Len(u)) = Number(u, b)
    <2>1. PICK q \in Nat, p \in Nat \ {0} : q = Number(t, b) /\ p = Pow(b, Len(u))
      BY <1>8
    <2>2. PICK r \in 0 .. p - 1 : r = Number(u, b)
      BY <1>8, <2>1
    <2>3. ((q * p) + r) \div p = q /\ ((q * p) + r) % p = r
      BY Assembled
    <2> QED BY <1>7, <2>1, <2>2, <2>3
  <1> QED BY <1>2, <1>3, <1>4, <1>5, <1>6, <1>9

\* The digits a sequence begins with
LEMMA Front ==
  ASSUME NEW b \in Nat \ {0}, NEW d \in Seq(0 .. b - 1)
  PROVE \A l \in 0 .. Len(d) :
           /\ SubSeq(d, 1, l) \in Seq(0 .. b - 1) /\ Len(SubSeq(d, 1, l)) = l
           /\ Number(SubSeq(d, 1, l), b) = Number(d, b) \div Pow(b, Len(d) - l)
  BY Split

\* A number has n digits if it lies between two powers.
LEMMA DigitsBetween ==
  ASSUME NEW b \in Nat \ {0, 1}, NEW x \in Nat \ {0}
  PROVE /\ Len(Digits(x, b)) \in Nat \ {0}
        /\ Pow(b, Len(Digits(x, b)) - 1) <= x /\ x < Pow(b, Len(Digits(x, b)))
  <1>1. PICK s \in Seq(0 .. b - 1) : s = Digits(x, b) /\ Canonical(s) /\ s # <<>> /\ Number(s, b) = x
    BY DigitsRule, DigitsCanonical, NumberOfDigits
  <1>2. Len(s) \in Nat \ {0} /\ s[1] \in 0 .. b - 1 /\ s[1] # 0
    <2>1. Len(s) \in Nat \ {0}
      BY <1>1, EmptySeq
    <2>2. 1 \in 1 .. Len(s)
      BY <2>1
    <2> QED BY <1>1, <2>1, <2>2, ElementOfSeq DEF Canonical
  <1>3. x < Pow(b, Len(s))
    <2>1. Number(s, b) \in 0 .. Pow(b, Len(s)) - 1 /\ Pow(b, Len(s)) \in Nat
      BY <1>2, NumberBound, PowRule
    <2> QED BY <1>1, <2>1
  <1>4. Pow(b, Len(s) - 1) <= x
    <2>1. 1 \in 0 .. Len(s) /\ Len(s) - 1 \in Nat
      BY <1>2
    <2>1a. /\ SubSeq(s, 1, 1) \in Seq(0 .. b - 1) /\ Len(SubSeq(s, 1, 1)) = 1
           /\ Number(SubSeq(s, 1, 1), b) = Number(s, b) \div Pow(b, Len(s) - 1)
      <3>1. b \in Nat \ {0}
        OBVIOUS
      <3>2. \A l \in 0 .. Len(s) :
               /\ SubSeq(s, 1, l) \in Seq(0 .. b - 1) /\ Len(SubSeq(s, 1, l)) = l
               /\ Number(SubSeq(s, 1, l), b) = Number(s, b) \div Pow(b, Len(s) - l)
        BY <3>1, Front
      <3> QED BY <2>1, <3>2
    <2>1b. PICK t : t = SubSeq(s, 1, 1)
      OBVIOUS
    <2>2. t = SubSeq(s, 1, 1) /\ t \in Seq(0 .. b - 1) /\ Len(t) = 1
          /\ Number(t, b) = x \div Pow(b, Len(s) - 1)
      BY <1>1, <2>1a, <2>1b, Zenon
    <2>3. t = <<s[1]>>
      <3>1. \A i \in 1 .. 1 : s[i] \in 0 .. b - 1
        BY <1>2
      <3>2. \A i \in 1 .. 1 - 1 + 1 : SubSeq(s, 1, 1)[i] = s[1 + i - 1]
        BY <3>1, SubSeqProperties
      <3>3. t[1] = s[1]
        BY <2>2, <3>2
      <3>4. <<s[1]>> \in Seq(0 .. b - 1) /\ Len(<<s[1]>>) = 1 /\ <<s[1]>>[1] = s[1]
        BY <1>2
      <3>5. \A i \in 1 .. 1 : t[i] = <<s[1]>>[i]
        BY <3>3, <3>4
      <3> QED BY <2>2, <3>4, <3>5, SeqEqual
    <2>4. Number(t, b) = s[1]
      <3>1. <<s[1]>> = Append(<<>>, s[1]) /\ <<>> \in Seq(Nat) /\ s[1] \in Nat
        BY <1>2
      <3>2. Number(Append(<<>>, s[1]), b) = Number(<<>>, b) * b + s[1] /\ Number(<<>>, b) = 0
        BY <3>1, NumberRule
      <3> QED BY <1>2, <2>3, <3>1, <3>2
    <2>5. Pow(b, Len(s) - 1) \in Nat \ {0}
      BY <2>1, PowPositive
    <2>6. ASSUME x < Pow(b, Len(s) - 1) PROVE FALSE
      <3>1. x < 1 * Pow(b, Len(s) - 1)
        BY <2>5, <2>6
      <3>2. x \div Pow(b, Len(s) - 1) < 1
        BY <2>5, <3>1, Below
      <3> QED BY <1>2, <2>2, <2>4, <3>2
    <2> QED BY <2>5, <2>6
  <1> QED BY <1>1, <1>2, <1>3, <1>4

LEMMA DigitsCount ==
  ASSUME NEW b \in Nat \ {0, 1}, NEW x \in Nat, NEW n \in Nat, Pow(b, n) <= x, x < Pow(b, n + 1)
  PROVE Len(Digits(x, b)) = n + 1
  <1>1. x # 0
    BY PowPositive
  <1>2. PICK k \in Nat : Len(Digits(x, b)) = k + 1 /\ Pow(b, k) <= x /\ x < Pow(b, k + 1)
    <2>1. PICK l \in Nat \ {0} : l = Len(Digits(x, b)) /\ Pow(b, l - 1) <= x /\ x < Pow(b, l)
      BY <1>1, DigitsBetween
    <2>2. l - 1 \in Nat /\ l = (l - 1) + 1
      OBVIOUS
    <2> QED BY <2>1, <2>2
  <1>3. Pow(b, n) \in Nat /\ Pow(b, n + 1) \in Nat /\ Pow(b, k) \in Nat /\ Pow(b, k + 1) \in Nat
    <2>1. n + 1 \in Nat /\ k + 1 \in Nat
      OBVIOUS
    <2> QED BY <2>1, PowRule
  <1>4. ~(k < n)
    <2>1. k + 1 <= n => Pow(b, k + 1) <= Pow(b, n)
      BY PowGrows
    <2> QED BY <1>2, <1>3, <2>1
  <1>5. ~(n < k)
    <2>1. n + 1 <= k => Pow(b, n + 1) <= Pow(b, k)
      BY PowGrows
    <2> QED BY <1>2, <1>3, <2>1
  <1> QED BY <1>2, <1>4, <1>5

\* The last digit of a number, and the number before it.
LEMMA LastDigit ==
  ASSUME NEW b \in Nat \ {0}, NEW s \in Seq(0 .. b - 1), NEW d \in 0 .. b - 1
  PROVE Number(Append(s, d), b) \div b = Number(s, b) /\ Number(Append(s, d), b) % b = d
  <1>1. PICK x \in Nat : x = Number(s, b)
    BY DigitsAreNumbers
  <1>2. s \in Seq(Nat) /\ d \in Nat
    BY DigitsAreNumbers
  <1>3. Number(Append(s, d), b) = (x * b) + d
    BY <1>1, <1>2, NumberRule
  <1>4. ((x * b) + d) \div b = x /\ ((x * b) + d) % b = d
    BY Assembled
  <1> QED BY <1>1, <1>3, <1>4

\* Sequences of one length that are one number are one.
LEMMA SameNumber ==
  ASSUME NEW b \in Nat \ {0}, NEW s \in Seq(0 .. b - 1), NEW t \in Seq(0 .. b - 1),
         Len(s) = Len(t), Number(s, b) = Number(t, b)
  PROVE s = t
  <1> DEFINE V == 0 .. b - 1
             S == {n \in Nat : \A u, v \in Seq(V) :
                     Len(u) = n /\ Len(v) = n /\ Number(u, b) = Number(v, b) => u = v}
  <1>1. 0 \in S
    BY EmptySeq
  <1>2. ASSUME NEW n \in Nat, n \in S PROVE n + 1 \in S
    <2>1. \A u, v \in Seq(V) : Len(u) = n /\ Len(v) = n /\ Number(u, b) = Number(v, b) => u = v
      BY <1>2
    <2>2. ASSUME NEW u \in Seq(V), NEW v \in Seq(V), Len(u) = n + 1, Len(v) = n + 1,
                 Number(u, b) = Number(v, b)
          PROVE u = v
      <3> HIDE DEF S
      <3>1. u # <<>> /\ v # <<>>
        BY <2>2, EmptySeq
      <3>2. PICK x \in Seq(V), d \in V : u = Append(x, d)
        BY <3>1, SequenceEmptyOrAppend
      <3>3. PICK y \in Seq(V), e \in V : v = Append(y, e)
        BY <3>1, SequenceEmptyOrAppend
      <3>4. Len(x) = n /\ Len(y) = n
        <4>1. Len(u) = Len(x) + 1 /\ Len(v) = Len(y) + 1 /\ Len(x) \in Nat /\ Len(y) \in Nat
          BY <3>2, <3>3, AppendProperties, LenProperties
        <4> QED BY <2>2, <4>1
      <3>5. Number(x, b) = Number(y, b) /\ d = e
        <4>1. Number(u, b) \div b = Number(x, b) /\ Number(u, b) % b = d
          BY <3>2, LastDigit
        <4>2. Number(v, b) \div b = Number(y, b) /\ Number(v, b) % b = e
          BY <3>3, LastDigit
        <4> QED BY <2>2, <4>1, <4>2
      <3>6. x = y
        BY <2>1, <3>4, <3>5
      <3> QED BY <3>2, <3>3, <3>5, <3>6
    <2> QED BY <2>2
  <1>3. Len(s) \in S
    <2> HIDE DEF S
    <2> QED BY <1>1, <1>2, StepInduction, LenProperties
  <1> QED BY <1>3

-------------------------------------------------------------------------------
(* Leading zeros *)

LEMMA Repeated ==
  ASSUME NEW n \in Nat, NEW V, NEW x \in V
  PROVE /\ Repeat(x, n) \in Seq(V) /\ Len(Repeat(x, n)) = n
        /\ \A i \in 1 .. n : Repeat(x, n)[i] = x
  BY DEF Repeat

LEMMA ZerosAreNone ==
  ASSUME NEW b \in Nat, NEW n \in Nat, NEW s \in Seq(Nat)
  PROVE Number(Repeat(0, n), b) = 0 /\ Number(Repeat(0, n) \o s, b) = Number(s, b)
  <1> DEFINE S == {k \in Nat : Number(Repeat(0, k), b) = 0}
  <1>1. 0 \in S
    <2>1. Repeat(0, 0) = <<>>
      BY DEF Repeat
    <2> QED BY <2>1, NumberRule
  <1>2. ASSUME NEW k \in Nat, k \in S PROVE k + 1 \in S
    <2>1. Repeat(0, k) \in Seq(Nat) /\ Repeat(0, k + 1) \in Seq(Nat)
      BY Repeated
    <2>2. Repeat(0, k + 1) = Append(Repeat(0, k), 0)
      <3>1. /\ Append(Repeat(0, k), 0) \in Seq(Nat) /\ Len(Append(Repeat(0, k), 0)) = k + 1
            /\ \A i \in 1 .. k : Append(Repeat(0, k), 0)[i] = 0
            /\ Append(Repeat(0, k), 0)[k + 1] = 0
        <4>1. Len(Repeat(0, k)) = k /\ \A i \in 1 .. k : Repeat(0, k)[i] = 0
          BY Repeated
        <4> QED BY <2>1, <4>1, AppendProperties
      <3>2. /\ Len(Repeat(0, k + 1)) = k + 1
            /\ \A i \in 1 .. k + 1 : Repeat(0, k + 1)[i] = 0
        BY Repeated
      <3>3. \A i \in 1 .. k + 1 : Append(Repeat(0, k), 0)[i] = 0
        BY <3>1
      <3> QED BY <2>1, <3>1, <3>2, <3>3, SeqEqual
    <2>3. Number(Append(Repeat(0, k), 0), b) = Number(Repeat(0, k), b) * b + 0
      BY <2>1, NumberRule
    <2>4. 0 * b + 0 = 0
      OBVIOUS
    <2>5. Number(Repeat(0, k), b) = 0
      BY <1>2
    <2>6. Number(Repeat(0, k + 1), b) = 0
      BY <2>2, <2>3, <2>4, <2>5
    <2> QED BY <2>6
  <1>3. n \in S
    <2> HIDE DEF S
    <2> QED BY <1>1, <1>2, StepInduction
  <1>4. Repeat(0, n) \in Seq(Nat)
    BY Repeated
  <1>5. Number(Repeat(0, n) \o s, b) = Number(Repeat(0, n), b) * Pow(b, Len(s)) + Number(s, b)
    BY <1>4, NumberConcat
  <1>6. Pow(b, Len(s)) \in Nat /\ Number(s, b) \in Nat
    BY LenProperties, PowRule, NumberRule
  <1> QED BY <1>3, <1>5, <1>6

LEMMA LeadingRule ==
  ASSUME NEW s \in Seq(Nat)
  PROVE /\ Leading(s) \in 0 .. Len(s)
        /\ \A i \in 1 .. Leading(s) : s[i] = 0
        /\ Leading(s) = Len(s) \/ s[Leading(s) + 1] # 0
  <1>1. Len(s) \in Nat
    BY LenProperties
  <1> DEFINE First(n) == (\A i \in 1 .. n : s[i] = 0) /\ (n = Len(s) \/ s[n + 1] # 0)
  <1>2. \E n \in 0 .. Len(s) : First(n)
    <2> DEFINE T == {n \in Nat : n >= Len(s) \/ s[n + 1] # 0}
    <2>1. T \in SUBSET Nat /\ T # {}
      <3>1. Len(s) \in T
        BY <1>1
      <3> QED BY <3>1
    <2>2. PICK n \in T : \A m \in T : n <= m
      <3> HIDE DEF T
      <3> QED BY <2>1, Least
    <2>3. n <= Len(s)
      BY <1>1, <2>2
    <2>4. ASSUME NEW i \in 1 .. n PROVE s[i] = 0
      <3>1. i - 1 \in Nat /\ (i - 1) + 1 = i /\ i - 1 < n
        BY <2>2
      <3>2. ASSUME i - 1 \in T PROVE FALSE
        <4>1. n <= i - 1
          BY <2>2, <3>2
        <4> QED BY <2>2, <3>1, <4>1
      <3> QED BY <3>1, <3>2
    <2> QED BY <1>1, <2>2, <2>3, <2>4
  <1>3. Leading(s) \in 0 .. Len(s) /\ First(Leading(s))
    <2>1. Leading(s) = CHOOSE n \in 0 .. Len(s) : First(n)
      BY DEF Leading
    <2> HIDE DEF First
    <2> QED BY <1>2, <2>1
  <1> QED BY <1>3

-------------------------------------------------------------------------------
(* Base58 *)

LEMMA Elements ==
  ASSUME NEW V, NEW W, NEW s \in Seq(V)
  PROVE /\ \A i \in DOMAIN s : s[i] \in V
        /\ (\A i \in DOMAIN s : s[i] \in W) => s \in Seq(W)
  OBVIOUS

\* A part of a sequence, by its elements
LEMMA Parts ==
  ASSUME NEW V, NEW s \in Seq(V), NEW l \in 0 .. Len(s),
         NEW h \in Seq(V), NEW t \in Seq(V), Len(h) = l, s = h \o t
  PROVE /\ \A i \in 1 .. l : h[i] = s[i]
        /\ l < Len(s) => t[1] = s[l + 1]
        /\ Len(t) = Len(s) - l
  BY SMTT(30)

\* A sequence of digits is its leading zeros and the digits of its number.
LEMMA Whole ==
  ASSUME NEW b \in Nat \ {0, 1}, NEW s \in Seq(0 .. b - 1)
  PROVE Repeat(0, Leading(s)) \o Digits(Number(s, b), b) = s
  <1>1. s \in Seq(Nat) /\ Len(s) \in Nat /\ b \in Nat \ {0}
    BY DigitsAreNumbers, LenProperties
  <1>2. PICK z \in 0 .. Len(s) : /\ z = Leading(s) /\ \A i \in 1 .. z : s[i] = 0
                                 /\ z = Len(s) \/ s[z + 1] # 0
    BY <1>1, LeadingRule
  <1>3. PICK h \in Seq(0 .. b - 1), t \in Seq(0 .. b - 1) :
          /\ h = SubSeq(s, 1, z) /\ t = SubSeq(s, z + 1, Len(s))
          /\ Len(h) = z /\ Len(t) = Len(s) - z /\ s = h \o t
    <2>1. /\ SubSeq(s, 1, z) \in Seq(0 .. b - 1) /\ SubSeq(s, z + 1, Len(s)) \in Seq(0 .. b - 1)
          /\ Len(SubSeq(s, 1, z)) = z /\ Len(SubSeq(s, z + 1, Len(s))) = Len(s) - z
          /\ s = SubSeq(s, 1, z) \o SubSeq(s, z + 1, Len(s))
      <3>1. b \in Nat \ {0}
        OBVIOUS
      <3> QED BY <3>1, Split, Zenon
    <2>2. PICK h, t : h = SubSeq(s, 1, z) /\ t = SubSeq(s, z + 1, Len(s))
      OBVIOUS
    <2> QED BY <2>1, <2>2
  <1>3a. (\A i \in 1 .. z : h[i] = s[i]) /\ (z < Len(s) => t[1] = s[z + 1])
    <2>1. Len(h) = z /\ s = h \o t
      BY <1>3
    <2> QED BY <2>1, Parts
  <1>3b. h \in Seq(Nat) /\ t \in Seq(Nat)
    BY <1>1, DigitsAreNumbers
  <1>4. h = Repeat(0, z)
    <2>1. \A i \in 1 .. z : h[i] = s[i]
      BY <1>3a
    <2>2. Repeat(0, z) \in Seq(Nat) /\ Len(Repeat(0, z)) = z /\ \A i \in 1 .. z : Repeat(0, z)[i] = 0
      BY <1>1, <1>2, Repeated, SMTT(30)
    <2>3. Len(h) = z /\ \A i \in 1 .. z : h[i] = Repeat(0, z)[i]
      BY <1>2, <1>3, <2>1, <2>2
    <2> QED BY <1>3b, <2>2, <2>3, SeqEqual
  <1>5. Canonical(t)
    <2>1. CASE z = Len(s)
      <3>1. Len(t) = 0
        <4>1. Len(t) = Len(s) - z
          BY <1>3
        <4>2. Len(s) - Len(s) = 0
          BY <1>1
        <4> QED BY <2>1, <4>1, <4>2
      <3>2. t = <<>>
        BY <1>3, <3>1, EmptySeq
      <3> QED BY <3>2 DEF Canonical
    <2>2. CASE z # Len(s)
      <3>1. t[1] = s[z + 1]
        <4>1. z < Len(s)
          BY <1>1, <2>2
        <4> QED BY <1>3a, <4>1
      <3> QED BY <1>2, <2>2, <3>1 DEF Canonical
    <2> QED BY <2>1, <2>2
  <1>6. Number(s, b) = Number(t, b)
    <2>1. t \in Seq(Nat) /\ z \in Nat /\ b \in Nat
      BY <1>1, <1>3b
    <2>2. Number(Repeat(0, z) \o t, b) = Number(t, b)
      BY <2>1, ZerosAreNone
    <2> QED BY <1>3, <1>4, <2>2
  <1>7. Digits(Number(t, b), b) = t
    BY <1>3, <1>5, DigitsOfNumber
  <1> QED BY <1>2, <1>3, <1>4, <1>6, <1>7

\* Zeros before a number without leading zeros are its leading zeros.
LEMMA LeadingOfRepeat ==
  ASSUME NEW n \in Nat, NEW t \in Seq(Nat), Canonical(t)
  PROVE Leading(Repeat(0, n) \o t) = n
  <1>1. /\ Repeat(0, n) \in Seq(Nat) /\ Len(Repeat(0, n)) = n
        /\ \A i \in 1 .. n : Repeat(0, n)[i] = 0
    BY Repeated
  <1>2. PICK s \in Seq(Nat) : s = Repeat(0, n) \o t
    BY <1>1, ConcatProperties
  <1>3. Len(s) = n + Len(t) /\ Len(t) \in Nat /\ Len(s) \in Nat
    BY <1>1, <1>2, ConcatProperties, LenProperties
  <1>4. \A i \in 1 .. n : s[i] = 0
    BY <1>1, <1>2, <1>3, ConcatProperties
  <1>5. t # <<>> => s[n + 1] # 0
    <2>1. SUFFICES ASSUME t # <<>> PROVE s[n + 1] # 0
      OBVIOUS
    <2>2. Len(t) > 0
      BY <1>3, <2>1, EmptySeq
    <2>3. s[n + 1] = t[(n + 1) - n]
      BY <1>1, <1>2, <1>3, <2>2, ConcatProperties
    <2>4. (n + 1) - n = 1
      OBVIOUS
    <2> QED BY <2>1, <2>3, <2>4 DEF Canonical
  <1>6. PICK l \in 0 .. Len(s) : l = Leading(s) /\ (\A i \in 1 .. l : s[i] = 0)
                                 /\ (l = Len(s) \/ s[l + 1] # 0)
    BY LeadingRule
  <1>7. ~ (l < n)
    <2>1. SUFFICES ASSUME l < n PROVE FALSE
      OBVIOUS
    <2>2. l + 1 \in 1 .. n /\ l # Len(s)
      BY <1>3, <1>6, <2>1
    <2> QED BY <1>4, <1>6, <2>2
  <1>8. ~ (l > n)
    <2>1. SUFFICES ASSUME l > n PROVE FALSE
      OBVIOUS
    <2>2. n + 1 \in 1 .. l /\ Len(t) > 0
      BY <1>3, <1>6, <2>1
    <2>3. t # <<>>
      BY <2>2
    <2> QED BY <1>5, <1>6, <2>2, <2>3
  <1> QED BY <1>2, <1>3, <1>6, <1>7, <1>8

\* The conversion from one base to another, leading zeros kept, is undone by that back.
LEMMA Conversion ==
  ASSUME NEW a \in Nat \ {0, 1}, NEW b \in Nat \ {0, 1}, NEW s \in Seq(0 .. a - 1),
         NEW t, t = Repeat(0, Leading(s)) \o Digits(Number(s, a), b)
  PROVE /\ t \in Seq(0 .. b - 1)
        /\ Repeat(0, Leading(t)) \o Digits(Number(t, b), a) = s
  <1>1. PICK x \in Nat : x = Number(s, a)
    BY DigitsAreNumbers
  <1>2. PICK z \in Nat : z = Leading(s)
    <2>1. s \in Seq(Nat)
      BY DigitsAreNumbers
    <2> QED BY <2>1, LeadingRule, LenProperties
  <1>3. PICK d \in Seq(0 .. b - 1) : d = Digits(x, b)
    BY DigitsRule
  <1>4. d \in Seq(Nat) /\ Canonical(d) /\ Number(d, b) = x
    BY <1>3, DigitsAreNumbers, DigitsCanonical, NumberOfDigits
  <1>5. t = Repeat(0, z) \o d
    BY <1>1, <1>2, <1>3
  <1>6. t \in Seq(0 .. b - 1)
    <2>1. 0 \in 0 .. b - 1
      OBVIOUS
    <2>2. Repeat(0, z) \in Seq(0 .. b - 1)
      BY <2>1, Repeated
    <2> QED BY <1>5, <2>2, ConcatProperties
  <1>7. Leading(t) = z
    BY <1>4, <1>5, LeadingOfRepeat
  <1>8. Number(t, b) = x
    <2>1. b \in Nat
      OBVIOUS
    <2>2. Number(Repeat(0, z) \o d, b) = Number(d, b)
      BY <1>4, <2>1, ZerosAreNone
    <2> QED BY <1>4, <1>5, <2>2
  <1>9. Repeat(0, z) \o Digits(x, a) = s
    BY <1>1, <1>2, Whole
  <1> QED BY <1>6, <1>7, <1>8, <1>9

-------------------------------------------------------------------------------
(* Base58 *)

\* All that is used of the checksum
LEMMA ChecksumBytes ==
  ASSUME NEW s \in Seq(0 .. BYTE - 1)
  PROVE Checksum(s) \in Seq(0 .. BYTE - 1) /\ Len(Checksum(s)) = CheckLen
  <1>1. BYTE \in Nat \ {0} /\ CheckLen \in Nat
    BY Base58Assumption
  <1>2. Number(s, 3) \in Nat /\ Len(s) \in Nat
    BY <1>1, DigitsAreNumbers, NumberRule, LenProperties
  <1>3. ASSUME NEW i \in 1 .. CheckLen
        PROVE (Number(s, 3) + (i * Len(s))) % BYTE \in 0 .. BYTE - 1
    <2>1. i * Len(s) \in Nat
      BY <1>1, <1>2
    <2>2. PICK x \in Nat : x = Number(s, 3) + (i * Len(s))
      BY <1>2, <2>1
    <2>3. x % BYTE \in 0 .. BYTE - 1
      BY <1>1
    <2> QED BY <2>2, <2>3
  <1> DEFINE F(i) == (Number(s, 3) + (i * Len(s))) % BYTE
  <1>4. Checksum(s) = [i \in 1 .. CheckLen |-> F(i)]
    BY DEF Checksum
  <1>5. \A i \in 1 .. CheckLen : F(i) \in 0 .. BYTE - 1
    BY <1>3
  <1> HIDE DEF F
  <1> QED BY <1>1, <1>4, <1>5

\* The characters that are read, so far
Reads(c, text, V) ==
  /\ c \in [0 .. Len(text) -> Seq(V)] /\ c[0] = <<>>
  /\ \A i \in 1 .. Len(text) :
       c[i] = IF text[i] = Space THEN c[i - 1] ELSE Append(c[i - 1], text[i])

LEMMA UnspacedSteps ==
  ASSUME NEW V, NEW text \in Seq(V)
  PROVE \E c : Reads(c, text, V) /\ Unspaced(text) = c[Len(text)]
  <1>1. Len(text) \in Nat /\ \A i \in 1 .. Len(text) : text[i] \in V
    BY LenProperties, ElementOfSeq
  <1> DEFINE G == [x \in Nat \X Seq(V) |->
                     IF x[1] \in 1 .. Len(text) /\ text[x[1]] # Space
                     THEN Append(x[2], text[x[1]]) ELSE x[2]]
  <1>2. G \in Steps(Seq(V))
    <2>1. ASSUME NEW x \in Nat \X Seq(V)
          PROVE (IF x[1] \in 1 .. Len(text) /\ text[x[1]] # Space
                 THEN Append(x[2], text[x[1]]) ELSE x[2]) \in Seq(V)
      <3>1. x[2] \in Seq(V)
        OBVIOUS
      <3> QED BY <1>1, <3>1, AppendProperties
    <2> QED BY <2>1 DEF Steps
  <1>3. \A i \in 1 .. Len(text) : \A x \in Seq(V) :
          G[<<i, x>>] = IF text[i] = Space THEN x ELSE Append(x, text[i])
    <2>1. \A i \in 1 .. Len(text) : i \in Nat
      BY <1>1
    <2> QED BY <2>1
  <1> HIDE DEF G
  <1>4. PICK p : Counted(p, Seq(V), <<>>, G)
    <2>1. <<>> \in Seq(V)
      BY EmptySeq
    <2> QED BY <1>2, <2>1, Counting
  <1> DEFINE w == [i \in 0 .. Len(text) |-> p[i]]
  <1>5. ASSUME NEW i \in 1 .. Len(text)
        PROVE w[i] = IF text[i] = Space THEN w[i - 1] ELSE Append(w[i - 1], text[i])
    <2>1. i \in Nat \ {0} /\ i - 1 \in Nat /\ i - 1 \in 0 .. Len(text) /\ i \in 0 .. Len(text)
      BY <1>1
    <2>2. p[i] = G[<<i, p[i - 1]>>] /\ p[i - 1] \in Seq(V)
      BY <1>4, <2>1 DEF Counted
    <2>3. p[i] = IF text[i] = Space THEN p[i - 1] ELSE Append(p[i - 1], text[i])
      BY <1>3, <2>2
    <2>4. w[i] = p[i] /\ w[i - 1] = p[i - 1]
      BY <2>1
    <2> QED BY <2>3, <2>4
  <1>6. w \in [0 .. Len(text) -> Seq(V)] /\ w[0] = <<>> /\ DOMAIN w = 0 .. Len(text)
    BY <1>1, <1>4 DEF Counted
  <1> HIDE DEF w
  <1> DEFINE c == CHOOSE c : c = [i \in 0 .. Len(text) |->
                     IF i = 0 THEN <<>>
                     ELSE IF text[i] = Space THEN c[i - 1] ELSE Append(c[i - 1], text[i])]
  <1>7. Unspaced(text) = c[Len(text)]
    BY DEF Unspaced
  <1>8. c = [i \in 0 .. Len(text) |->
                     IF i = 0 THEN <<>>
                     ELSE IF text[i] = Space THEN c[i - 1] ELSE Append(c[i - 1], text[i])]
    <2>1. w = [i \in 0 .. Len(text) |->
                     IF i = 0 THEN <<>>
                     ELSE IF text[i] = Space THEN w[i - 1] ELSE Append(w[i - 1], text[i])]
      <3>1. \A i \in 0 .. Len(text) :
              w[i] = IF i = 0 THEN <<>>
                     ELSE IF text[i] = Space THEN w[i - 1] ELSE Append(w[i - 1], text[i])
        <4> TAKE i \in 0 .. Len(text)
        <4>1. CASE i = 0
          BY <1>6, <4>1
        <4>2. CASE i # 0
          <5>1. i \in 1 .. Len(text)
            BY <1>1, <4>2
          <5> QED BY <1>5, <4>2, <5>1
        <4> QED BY <4>1, <4>2
      <3> QED BY <1>6, <3>1
    <2>2. \E r : r = [i \in 0 .. Len(text) |->
                     IF i = 0 THEN <<>>
                     ELSE IF text[i] = Space THEN r[i - 1] ELSE Append(r[i - 1], text[i])]
      BY <2>1
    <2> QED BY <2>2, Zenon
  <1> HIDE DEF c
  <1>9. /\ DOMAIN c = 0 .. Len(text) /\ c[0] = <<>>
        /\ \A i \in 1 .. Len(text) :
             c[i] = IF text[i] = Space THEN c[i - 1] ELSE Append(c[i - 1], text[i])
    <2>1. c[0] = <<>> /\ DOMAIN c = 0 .. Len(text)
      BY <1>1, <1>8
    <2>2. ASSUME NEW i \in 1 .. Len(text)
          PROVE c[i] = IF text[i] = Space THEN c[i - 1] ELSE Append(c[i - 1], text[i])
      <3>1. i \in 0 .. Len(text) /\ i # 0
        BY <1>1
      <3> QED BY <1>8, <3>1
    <2> QED BY <2>1, <2>2
  <1>10. \A i \in Nat : i <= Len(text) => c[i] \in Seq(V)
    <2> DEFINE S == {i \in Nat : i <= Len(text) => c[i] \in Seq(V)}
    <2>1. 0 \in S
      BY <1>9, EmptySeq
    <2>2. ASSUME NEW i \in Nat, i \in S PROVE i + 1 \in S
      <3>1. CASE i + 1 <= Len(text)
        <4>1. i + 1 \in 1 .. Len(text) /\ (i + 1) - 1 = i /\ c[i] \in Seq(V)
          BY <1>1, <2>2, <3>1
        <4>2. text[i + 1] \in V
          BY <1>1, <4>1
        <4>3. c[i + 1] = IF text[i + 1] = Space THEN c[i] ELSE Append(c[i], text[i + 1])
          BY <1>9, <4>1
        <4>4. c[i + 1] \in Seq(V)
          BY <4>1, <4>2, <4>3, AppendProperties
        <4> QED BY <4>4
      <3> QED BY <3>1
    <2>3. \A i \in Nat : i \in S
      <3> HIDE DEF S
      <3> QED BY <2>1, <2>2, StepInduction
    <2> QED BY <2>3
  <1>11. c \in [0 .. Len(text) -> Seq(V)]
    BY <1>1, <1>8, <1>9, <1>10
  <1> QED BY <1>7, <1>9, <1>11 DEF Reads

\* Without spaces all characters are read.
LEMMA NothingSkipped ==
  ASSUME NEW V, Space \notin V, NEW text \in Seq(V)
  PROVE Unspaced(text) = text
  <1>1. Len(text) \in Nat /\ \A i \in 1 .. Len(text) : text[i] \in V
    BY LenProperties, ElementOfSeq
  <1>2. PICK c : Reads(c, text, V) /\ Unspaced(text) = c[Len(text)]
    BY UnspacedSteps
  <1> DEFINE S == {i \in Nat : i <= Len(text) =>
                     /\ c[i] \in Seq(V) /\ Len(c[i]) = i
                     /\ \A j \in 1 .. i : c[i][j] = text[j]}
  <1>3. 0 \in S
    BY <1>2, EmptySeq DEF Reads
  <1>4. ASSUME NEW i \in Nat, i \in S PROVE i + 1 \in S
    <2> SUFFICES ASSUME i + 1 <= Len(text)
                 PROVE /\ c[i + 1] \in Seq(V) /\ Len(c[i + 1]) = i + 1
                       /\ \A j \in 1 .. i + 1 : c[i + 1][j] = text[j]
      OBVIOUS
    <2>1. i + 1 \in 1 .. Len(text) /\ (i + 1) - 1 = i
      BY <1>1
    <2>2. c[i] \in Seq(V) /\ Len(c[i]) = i /\ \A j \in 1 .. i : c[i][j] = text[j]
      BY <1>1, <1>4
    <2>3. text[i + 1] \in V /\ text[i + 1] # Space
      BY <1>1, <2>1
    <2>4. c[i + 1] = Append(c[i], text[i + 1])
      BY <1>2, <2>1, <2>3 DEF Reads
    <2> QED BY <2>2, <2>3, <2>4, AppendProperties
  <1>5. Len(text) \in S
    <2> HIDE DEF S
    <2> QED BY <1>1, <1>3, <1>4, StepInduction
  <1>6. c[Len(text)] = text
    BY <1>1, <1>5, SeqEqual
  <1> QED BY <1>2, <1>6

LEMMA Written58 ==
  ASSUME NEW text \in Seq(0 .. BYTE - 1), text # <<>>
  PROVE Decoded(EncodedCheck(text)) = text
  <1>1. BYTE \in Nat \ {0, 1} /\ DBASE \in Nat \ {0, 1} /\ CheckLen \in Nat \ {0}
        /\ Space \notin 0 .. DBASE - 1
    BY Base58Assumption
  <1>2. PICK k \in Seq(0 .. BYTE - 1) : k = Checksum(text) /\ Len(k) = CheckLen
    BY ChecksumBytes
  <1>3. PICK s \in Seq(0 .. BYTE - 1) : s = text \o k
    BY ConcatProperties
  <1>4. PICK t : t = Repeat(0, Leading(s)) \o Digits(Number(s, BYTE), DBASE)
    OBVIOUS
  <1>5. EncodedCheck(text) = t
    BY <1>2, <1>3, <1>4 DEF EncodedCheck, Encoded
  <1>6. t \in Seq(0 .. DBASE - 1) /\ Repeat(0, Leading(t)) \o Digits(Number(t, DBASE), BYTE) = s
    BY <1>1, <1>4, Conversion
  <1>7. Unspaced(t) = t
    BY <1>1, <1>6, NothingSkipped
  <1>8. ~ \E i \in DOMAIN t : t[i] \notin 0 .. DBASE - 1
    BY <1>6, Elements
  <1>9. Len(text) \in Nat \ {0} /\ Len(s) = Len(text) + CheckLen
    BY <1>2, <1>3, ConcatProperties, LenProperties, EmptySeq
  <1>10. PICK n \in Nat \ {0} : n = Len(text) /\ Len(s) - CheckLen = n /\ ~ (n < 1)
    BY <1>1, <1>9
  <1>11. SubSeq(s, 1, n) = text /\ SubSeq(s, n + 1, Len(s)) = k
    BY <1>2, <1>3, <1>9, <1>10
  <1>12. Decoded(t) = SubSeq(s, 1, Len(s) - CheckLen)
    BY <1>2, <1>6, <1>7, <1>8, <1>10, <1>11 DEF Decoded
  <1> QED BY <1>5, <1>10, <1>11, <1>12

LEMMA Accepted58 ==
  ASSUME NEW V, NEW text \in Seq(V), Decoded(text) # Refused
  PROVE EncodedCheck(Decoded(text)) = Unspaced(text)
  <1>1. BYTE \in Nat \ {0, 1} /\ DBASE \in Nat \ {0, 1} /\ CheckLen \in Nat \ {0}
    BY Base58Assumption
  <1>2. PICK t \in Seq(V) : t = Unspaced(text)
    <2>1. PICK c : Reads(c, text, V) /\ Unspaced(text) = c[Len(text)]
      BY UnspacedSteps
    <2>2. Len(text) \in 0 .. Len(text)
      BY LenProperties
    <2> QED BY <2>1, <2>2 DEF Reads
  <1>3. PICK s : s = Repeat(0, Leading(t)) \o Digits(Number(t, DBASE), BYTE)
    OBVIOUS
  <1>4. PICK n : n = Len(s) - CheckLen
    OBVIOUS
  <1>5. Decoded(text) = IF \E i \in DOMAIN t : t[i] \notin 0 .. DBASE - 1 THEN Refused
                         ELSE IF n < 1 THEN Refused
                         ELSE IF SubSeq(s, n + 1, Len(s)) # Checksum(SubSeq(s, 1, n)) THEN Refused
                         ELSE SubSeq(s, 1, n)
    BY <1>2, <1>3, <1>4 DEF Decoded
  <1>6. /\ \A i \in DOMAIN t : t[i] \in 0 .. DBASE - 1 
        /\ ~ (n < 1)
        /\ SubSeq(s, n + 1, Len(s)) = Checksum(SubSeq(s, 1, n))
        /\ Decoded(text) = SubSeq(s, 1, n)
    BY <1>5
  <1>7. t \in Seq(0 .. DBASE - 1)
    BY <1>2, <1>6, Elements, Zenon
  <1>8. s \in Seq(0 .. BYTE - 1) /\ Repeat(0, Leading(s)) \o Digits(Number(s, BYTE), DBASE) = t
    BY <1>1, <1>3, <1>7, Conversion
  <1>9. n \in 1 .. Len(s)
    <2>1. PICK l \in Nat : l = Len(s)
      BY <1>8, LenProperties
    <2>2. PICK c \in Nat \ {0} : c = CheckLen
      BY <1>1
    <2>3. n = l - c /\ ~ (n < 1)
      BY <1>4, <1>6, <2>1, <2>2
    <2>4. n \in 1 .. l
      BY <2>3
    <2> QED BY <2>1, <2>4
  <1>10. s = SubSeq(s, 1, n) \o SubSeq(s, n + 1, Len(s))
    <2>1. n \in 0 .. Len(s) /\ BYTE \in Nat \ {0}
      BY <1>1, <1>9
    <2> QED BY <1>8, <2>1, Split
  <1>11. EncodedCheck(SubSeq(s, 1, n)) = t
    BY <1>6, <1>8, <1>10 DEF EncodedCheck, Encoded
  <1> QED BY <1>2, <1>6, <1>11

\* Whatever is written with vg_b58_encode_check is read back, leading zeros included; what
\* vg_b58_decode_check accepts, but for spaces, is what would be written for what it reads.
THEOREM Base58RoundTrip ==
  ASSUME NEW V, NEW text \in Seq(V)
  PROVE Base58Right(text)
  <1>1. text # <<>> /\ (\A i \in DOMAIN text : text[i] \in 0 .. BYTE - 1) =>
          Decoded(EncodedCheck(text)) = text
    <2> SUFFICES ASSUME text # <<>>, \A i \in DOMAIN text : text[i] \in 0 .. BYTE - 1
                 PROVE Decoded(EncodedCheck(text)) = text
      OBVIOUS
    <2>1. text \in Seq(0 .. BYTE - 1)
      BY Elements
    <2> QED BY <2>1, Written58
  <1>2. Decoded(text) # Refused => EncodedCheck(Decoded(text)) = Unspaced(text)
    BY Accepted58
  <1> QED BY <1>1, <1>2 DEF Base58Right

-------------------------------------------------------------------------------
(* The search of the kernels *)

LEMMA NotMore ==
  ASSUME NEW x \in Nat, NEW y \in Nat, NEW p \in Nat \ {0}, x \div p < y \div p
  PROVE x < y
  <1>1. PICK q \in Nat, r \in 0 .. p - 1 : q = x \div p /\ x = (q * p) + r
    BY Divides
  <1>2. PICK u \in Nat, w \in 0 .. p - 1 : u = y \div p /\ y = (u * p) + w
    BY Divides
  <1>3. PICK d \in Nat : u = q + 1 + d
    <2>1. u - q - 1 \in Nat /\ u = q + 1 + (u - q - 1)
      BY <1>1, <1>2
    <2> QED BY <2>1
  <1>4. (q + 1 + d) * p = (q * p) + p + (d * p) /\ d * p \in Nat /\ q * p \in Nat
    <2>1. p \in Nat
      OBVIOUS
    <2> QED BY <2>1
  <1> QED BY <1>1, <1>2, <1>3, <1>4

\* A number below a power is written with so many digits, with zeros before.
LEMMA FilledRule ==
  ASSUME NEW b \in Nat \ {0, 1}, NEW n \in Nat, NEW s \in Seq(0 .. b - 1), Len(s) <= n
  PROVE /\ Filled(s, n) \in Seq(0 .. b - 1) /\ Len(Filled(s, n)) = n
        /\ Number(Filled(s, n), b) = Number(s, b)
  <1>1. PICK k \in Nat : k = n - Len(s)
    <2>1. PICK m \in Nat : m = Len(s)
      BY LenProperties
    <2>2. n - m \in Nat
      BY <2>1
    <2> QED BY <2>1, <2>2
  <1>2. Filled(s, n) = Repeat(0, k) \o s
    BY <1>1 DEF Filled
  <1>3. Repeat(0, k) \in Seq(0 .. b - 1) /\ Len(Repeat(0, k)) = k
    <2>1. 0 \in 0 .. b - 1
      OBVIOUS
    <2> QED BY <2>1, Repeated
  <1>4. Number(Repeat(0, k) \o s, b) = Number(s, b)
    <2>1. b \in Nat /\ s \in Seq(Nat)
      BY DigitsAreNumbers
    <2> QED BY <2>1, ZerosAreNone
  <1>5. Len(Repeat(0, k) \o s) = k + Len(s) /\ Len(s) \in Nat /\ Repeat(0, k) \o s \in Seq(0 .. b - 1)
    BY <1>3, ConcatProperties, LenProperties
  <1>6. k + Len(s) = n
    BY <1>1, <1>5
  <1> QED BY <1>2, <1>4, <1>5, <1>6

LEMMA DigitsFit ==
  ASSUME NEW b \in Nat \ {0, 1}, NEW n \in Nat, NEW v \in Nat, v < Pow(b, n)
  PROVE Len(Digits(v, b)) \in 0 .. n
  <1>1. CASE v = 0
    <2>1. Len(Digits(v, b)) = 0
      BY <1>1, DigitsRule, EmptySeq
    <2> QED BY <2>1
  <1>2. CASE v # 0
    <2>1. PICK l \in Nat \ {0} : l = Len(Digits(v, b)) /\ Pow(b, l - 1) <= v
      BY <1>2, DigitsBetween
    <2>2. l - 1 \in Nat /\ b \in Nat
      BY <2>1
    <2>3. Pow(b, n) \in Nat /\ Pow(b, l - 1) \in Nat
      BY <2>2, PowRule
    <2>4. ~ (n <= l - 1)
      <3>1. n <= l - 1 => Pow(b, n) <= Pow(b, l - 1)
        BY <2>2, PowGrows
      <3> QED BY <2>1, <2>3, <3>1
    <2> QED BY <2>1, <2>2, <2>4
  <1> QED BY <1>1, <1>2

LEMMA HashWordsRule ==
  ASSUME NEW v \in Hashes
  PROVE /\ v \in Nat /\ HashWords(v) \in Seq(0 .. HBASE - 1) /\ Len(HashWords(v)) = HWORDS
        /\ Number(HashWords(v), HBASE) = v
  <1>1. HBASE \in Nat \ {0, 1} /\ HWORDS \in Nat
    BY SearchAssumption
  <1>2. v \in Nat /\ v < Pow(HBASE, HWORDS)
    <2>1. Pow(HBASE, HWORDS) \in Nat
      BY <1>1, PowRule
    <2> QED BY <2>1 DEF Hashes
  <1>3. PICK s \in Seq(0 .. HBASE - 1) : s = Digits(v, HBASE)
    BY <1>1, <1>2, DigitsRule
  <1>4. Len(s) <= HWORDS /\ Number(s, HBASE) = v
    <2>1. Number(Digits(v, HBASE), HBASE) = v
      BY <1>1, <1>2, NumberOfDigits
    <2>2. Len(Digits(v, HBASE)) \in 0 .. HWORDS
      BY <1>1, <1>2, DigitsFit
    <2>3. Len(Digits(v, HBASE)) <= HWORDS
      BY <1>1, <2>2
    <2> QED BY <1>3, <2>1, <2>3
  <1> QED BY <1>1, <1>2, <1>3, <1>4, FilledRule DEF HashWords

LEMMA DifferRule ==
  ASSUME NEW a, NEW b
  PROVE /\ Differ(a, b) \in 0 .. HWORDS
        /\ Differ(a, b) = 0 => \A i \in 1 .. HWORDS : a[i] = b[i]
        /\ Differ(a, b) # 0 => /\ a[Differ(a, b)] # b[Differ(a, b)]
                               /\ \A i \in 1 .. Differ(a, b) - 1 : a[i] = b[i]
  <1>1. HWORDS \in Nat
    BY SearchAssumption
  <1> DEFINE D == {i \in 1 .. HWORDS : a[i] # b[i]}
  <1>2. CASE D = {}
    <2>1. Differ(a, b) = 0
      BY <1>2 DEF Differ
    <2> QED BY <1>1, <1>2, <2>1
  <1>3. CASE D # {}
    <2>1. D \in SUBSET Nat
      BY <1>1
    <2>2. \E i \in D : \A j \in D : i <= j
      BY <1>3, <2>1, Least
    <2>3. Differ(a, b) = CHOOSE i \in D : \A j \in D : i <= j
      BY <1>3 DEF Differ
    <2>4. PICK l : l = Differ(a, b) /\ l \in D /\ \A j \in D : l <= j
      BY <2>2, <2>3
    <2>5. l \in 1 .. HWORDS /\ a[l] # b[l]
      BY <2>4
    <2>6. ASSUME NEW i \in 1 .. l - 1 PROVE a[i] = b[i]
      <3>1. i \in 1 .. HWORDS /\ ~ (l <= i)
        BY <1>1, <2>5
      <3> QED BY <2>4, <3>1
    <2> QED BY <1>1, <2>4, <2>5, <2>6
  <1> QED BY <1>2, <1>3

\* The number of the words up to one place
LEMMA UpTo ==
  ASSUME NEW b \in Nat \ {0}, NEW s \in Seq(0 .. b - 1), NEW l \in 1 .. Len(s)
  PROVE /\ SubSeq(s, 1, l - 1) \in Seq(0 .. b - 1) /\ Len(SubSeq(s, 1, l - 1)) = l - 1
        /\ \A i \in 1 .. l - 1 : SubSeq(s, 1, l - 1)[i] = s[i]
        /\ s[l] \in 0 .. b - 1
        /\ Number(s, b) \div Pow(b, Len(s) - l) = Number(SubSeq(s, 1, l - 1), b) * b + s[l]
  <1>1. Len(s) \in Nat /\ l \in Nat /\ l - 1 \in 0 .. Len(s) /\ l \in 0 .. Len(s)
    BY LenProperties
  <1>2. s[l] \in 0 .. b - 1
    BY ElementOfSeq
  <1>3. PICK h : h = SubSeq(s, 1, l - 1)
    OBVIOUS
  <1>4. h \in Seq(0 .. b - 1) /\ Len(h) = l - 1
    BY <1>1, <1>3, Split, SMTT(30)
  <1>5. \A i \in 1 .. l - 1 : h[i] = s[i]
    BY <1>1, <1>3
  <1>6. Number(SubSeq(s, 1, l), b) = Number(s, b) \div Pow(b, Len(s) - l)
        /\ SubSeq(s, 1, l) \in Seq(0 .. b - 1) /\ Len(SubSeq(s, 1, l)) = l
    BY <1>1, Split
  <1>7. SubSeq(s, 1, l) = Append(h, s[l])
    <2>1. \A i \in 1 .. l : SubSeq(s, 1, l)[i] = s[i]
      BY <1>1
    <2>2. Append(h, s[l]) \in Seq(0 .. b - 1) /\ Len(Append(h, s[l])) = l
          /\ (\A i \in 1 .. l - 1 : Append(h, s[l])[i] = s[i]) /\ Append(h, s[l])[l] = s[l]
      <3>1. (l - 1) + 1 = l
        BY <1>1
      <3> QED BY <1>1, <1>2, <1>4, <1>5, <3>1, AppendProperties
    <2>3. \A i \in 1 .. l : Append(h, s[l])[i] = s[i]
      BY <1>1, <2>2
    <2>4. PICK u, w : u = SubSeq(s, 1, l) /\ w = Append(h, s[l])
      OBVIOUS
    <2>5. u \in Seq(0 .. b - 1) /\ w \in Seq(0 .. b - 1) /\ Len(u) = l /\ Len(w) = l
      BY <1>6, <2>2, <2>4
    <2>6. \A i \in 1 .. l : u[i] = w[i]
      BY <2>1, <2>3, <2>4
    <2>7. u = w
      BY <2>5, <2>6, SeqEqual
    <2> QED BY <2>4, <2>7
  <1>8. Number(Append(h, s[l]), b) = Number(h, b) * b + s[l]
    <2>1. h \in Seq(Nat) /\ s[l] \in Nat /\ b \in Nat
      <3>1. h \in Seq(Nat)
        BY <1>4, DigitsAreNumbers
      <3>2. s[l] \in Nat
        BY <1>2
      <3> QED BY <3>1, <3>2
    <2> QED BY <2>1, NumberRule
  <1> QED BY <1>2, <1>3, <1>4, <1>5, <1>6, <1>7, <1>8

\* Of two sequences of words as long the one that is less in the first place where they
\* differ is the lesser number.
LEMMA LessAt ==
  ASSUME NEW b \in Nat \ {0}, NEW s \in Seq(0 .. b - 1), NEW t \in Seq(0 .. b - 1),
         Len(s) = Len(t), NEW l \in 1 .. Len(s), \A i \in 1 .. l - 1 : s[i] = t[i], s[l] < t[l]
  PROVE Number(s, b) < Number(t, b)
  <1>1. Len(s) \in Nat /\ l \in 1 .. Len(t)
    BY LenProperties
  <1>2. PICK g \in Seq(0 .. b - 1) :
          /\ Len(g) = l - 1 /\ \A i \in 1 .. l - 1 : g[i] = s[i]
          /\ Number(s, b) \div Pow(b, Len(s) - l) = Number(g, b) * b + s[l]
    BY UpTo
  <1>3. PICK h \in Seq(0 .. b - 1) :
          /\ Len(h) = l - 1 /\ \A i \in 1 .. l - 1 : h[i] = t[i]
          /\ Number(t, b) \div Pow(b, Len(t) - l) = Number(h, b) * b + t[l]
    BY <1>1, UpTo
  <1>4. g = h
    <2>1. \A i \in 1 .. l - 1 : g[i] = h[i]
      BY <1>2, <1>3
    <2> QED BY <1>2, <1>3, <2>1, SeqEqual
  <1>5. PICK x \in Nat : x = Number(g, b)
    BY DigitsAreNumbers
  <1>6. PICK y \in Nat, z \in Nat : y = Number(s, b) /\ z = Number(t, b)
    BY DigitsAreNumbers
  <1>7. PICK p \in Nat \ {0} : p = Pow(b, Len(s) - l)
    <2>1. Len(s) - l \in Nat
      BY <1>1
    <2> QED BY <2>1, PowPositive
  <1>8. s[l] \in Nat /\ t[l] \in Nat
    <2>1. s[l] \in 0 .. b - 1 /\ t[l] \in 0 .. b - 1
      BY <1>1, ElementOfSeq
    <2> QED BY <2>1
  <1>9. y \div p < z \div p
    <2>1. x * b \in Nat
      OBVIOUS
    <2>2. x * b + s[l] < x * b + t[l]
      BY <1>8, <2>1
    <2> QED BY <1>2, <1>3, <1>4, <1>5, <1>6, <1>7, <2>2
  <1> QED BY <1>6, <1>9, NotMore

LEMMA Order ==
  ASSUME NEW s \in Seq(0 .. HBASE - 1), NEW t \in Seq(0 .. HBASE - 1),
         Len(s) = HWORDS, Len(t) = HWORDS, NEW l, l = Differ(s, t)
  PROVE /\ l # 0 /\ s[l] < t[l] <=> Number(s, HBASE) < Number(t, HBASE)
        /\ l # 0 /\ s[l] > t[l] <=> Number(s, HBASE) > Number(t, HBASE)
  <1>1. HBASE \in Nat \ {0} /\ HWORDS \in Nat
    BY SearchAssumption
  <1>2. PICK x \in Nat, y \in Nat : x = Number(s, HBASE) /\ y = Number(t, HBASE)
    BY <1>1, DigitsAreNumbers
  <1>2a. /\ l \in 0 .. HWORDS
         /\ l = 0 => \A i \in 1 .. HWORDS : s[i] = t[i]
         /\ l # 0 => s[l] # t[l] /\ \A i \in 1 .. l - 1 : s[i] = t[i]
    BY DifferRule
  <1>3. CASE l = 0
    <2>1. s = t
      BY <1>2a, <1>3, SeqEqual
    <2> QED BY <1>2, <1>3, <2>1
  <1>4. CASE l # 0
    <2>1. l \in 1 .. HWORDS /\ s[l] # t[l] /\ \A i \in 1 .. l - 1 : s[i] = t[i]
      BY <1>1, <1>2a, <1>4
    <2>2. s[l] \in Nat /\ t[l] \in Nat
      <3>1. s[l] \in 0 .. HBASE - 1 /\ t[l] \in 0 .. HBASE - 1
        BY <2>1, ElementOfSeq
      <3> QED BY <1>1, <3>1
    <2>3. s[l] < t[l] => x < y
      BY <1>1, <1>2, <2>1, LessAt
    <2>4. t[l] < s[l] => y < x
      BY <1>1, <1>2, <2>1, LessAt
    <2>5. s[l] < t[l] \/ t[l] < s[l]
      BY <2>1, <2>2
    <2> QED BY <1>2, <1>4, <2>2, <2>3, <2>4, <2>5
  <1> QED BY <1>3, <1>4

LEMMA CompareRule ==
  ASSUME NEW v \in Hashes, NEW low \in Hashes, NEW high \in Hashes, low <= high
  PROVE Compare(HashWords(v), <<HashWords(low), HashWords(high)>>) =
          IF v < low THEN -1 ELSE IF v > high THEN 1 ELSE 0
  <1>1. PICK s \in Seq(0 .. HBASE - 1), t \in Seq(0 .. HBASE - 1), u \in Seq(0 .. HBASE - 1) :
          /\ s = HashWords(v) /\ t = HashWords(low) /\ u = HashWords(high)
          /\ Len(s) = HWORDS /\ Len(t) = HWORDS /\ Len(u) = HWORDS
          /\ Number(s, HBASE) = v /\ Number(t, HBASE) = low /\ Number(u, HBASE) = high
    BY HashWordsRule
  <1>2. v \in Nat /\ low \in Nat /\ high \in Nat
    BY HashWordsRule
  <1>3. PICK l, h : l = Differ(s, t) /\ h = Differ(s, u)
    OBVIOUS
  <1>4. (l # 0 /\ s[l] < t[l] <=> v < low) /\ (h # 0 /\ s[h] > u[h] <=> v > high)
    BY <1>1, <1>3, Order
  <1>5. Compare(s, <<t, u>>) = CASE l # 0 /\ s[l] < t[l] -> -1
                                 [] h # 0 /\ s[h] > u[h] -> 1
                                 [] OTHER -> 0
    BY <1>3 DEF Compare
  <1>6. ~ (v < low /\ v > high)
    BY <1>2
  <1> QED BY <1>1, <1>4, <1>5, <1>6

-------------------------------------------------------------------------------
(* The halving search *)

LoopState == [low : Int, high : Int, found : Int]

LEMMA RoundType ==
  ASSUME NEW hash, NEW table, NEW l \in LoopState
  PROVE SearchRound(hash, table, l) \in LoopState
  <1>1. l.low \in Int /\ l.high \in Int /\ l.found \in Int
    BY DEF LoopState
  <1>2. PICK i \in Int : i = l.low + ((l.high - l.low) \div 2)
    BY <1>1
  <1>3. i + 1 \in Int /\ i - 1 \in Int /\ -1 \in Int /\ 0 \in Int
    OBVIOUS
  <1> DEFINE p == Compare(hash, table[i + 1])
  <1>4. SearchRound(hash, table, l) =
          IF l.high < l.low THEN l
          ELSE [low |-> IF p > 0 THEN i + 1 ELSE l.low,
                high |-> IF p < 0 THEN i - 1 ELSE IF p = 0 THEN -1 ELSE l.high,
                found |-> IF p = 0 THEN i + 1 ELSE 0]
    BY <1>2 DEF SearchRound
  <1> HIDE DEF p
  <1> QED BY <1>1, <1>3, <1>4 DEF LoopState

LEMMA HalvingRule ==
  ASSUME NEW hash, NEW table, Len(table) \in Nat
  PROVE /\ Halving(hash, table)[0] = [low |-> 0, high |-> Len(table) - 1, found |-> 0]
        /\ \A k \in Nat : Halving(hash, table)[k + 1] = SearchRound(hash, table, Halving(hash, table)[k])
  <1> DEFINE a == [low |-> 0, high |-> Len(table) - 1, found |-> 0]
             Round(l) == SearchRound(hash, table, l)
             G == [x \in Nat \X LoopState |-> Round(x[2])]
  <1>1. a \in LoopState
    BY DEF LoopState
  <1>2. \A l \in LoopState : Round(l) \in LoopState
    BY RoundType
  <1> HIDE DEF a, Round
  <1>3. G \in Steps(LoopState) /\ \A k \in Nat, l \in LoopState : G[<<k, l>>] = Round(l)
    BY <1>2 DEF Steps
  <1> HIDE DEF G
  <1>4. PICK p : Counted(p, LoopState, a, G)
    BY <1>1, <1>3, Counting
  <1>5. \A k \in Nat \ {0} : p[k] = Round(p[k - 1])
    <2> TAKE k \in Nat \ {0}
    <2>1. k \in Nat /\ k - 1 \in Nat /\ p[k - 1] \in LoopState /\ p[k] = G[<<k, p[k - 1]>>]
      BY <1>4 DEF Counted
    <2> QED BY <1>3, <2>1
  <1> DEFINE h == CHOOSE h : h = [k \in Nat |-> IF k = 0 THEN a ELSE Round(h[k - 1])]
  <1>6. Halving(hash, table) = h
    BY DEF Halving, a, Round
  <1>7. h = [k \in Nat |-> IF k = 0 THEN a ELSE Round(h[k - 1])]
    <2>1. p = [k \in Nat |-> IF k = 0 THEN a ELSE Round(p[k - 1])]
      <3>1. DOMAIN p = Nat /\ p[0] = a /\ p = [k \in Nat |-> p[k]]
        BY <1>4 DEF Counted
      <3>2. \A k \in Nat : p[k] = IF k = 0 THEN a ELSE Round(p[k - 1])
        BY <1>5, <3>1
      <3> QED BY <3>1, <3>2
    <2>2. \E r : r = [k \in Nat |-> IF k = 0 THEN a ELSE Round(r[k - 1])]
      BY <2>1
    <2> QED BY <2>2
  <1> HIDE DEF h
  <1>8. h[0] = a
    BY <1>7
  <1>9. ASSUME NEW k \in Nat PROVE h[k + 1] = Round(h[k])
    <2>1. k + 1 \in Nat /\ k + 1 # 0 /\ (k + 1) - 1 = k
      OBVIOUS
    <2> QED BY <1>7, <2>1
  <1> QED BY <1>6, <1>8, <1>9 DEF a, Round

\* What holds of a table of n ranges and a number: low and high bounds, in order
Ranged(low, high, n) ==
  /\ low \in [1 .. n -> Hashes] /\ high \in [1 .. n -> Hashes]
  /\ \A i \in 1 .. n : low[i] <= high[i] /\ \A j \in 1 .. i - 1 : high[j] < low[i]

Has(low, high, v, i) == low[i] <= v /\ v <= high[i]

\* The range is found or is among those that are left, fewer each time.
Narrowed(l, low, high, n, v, k) ==
  /\ l.low \in Nat /\ l.high \in Int /\ l.high < n /\ l.found \in 0 .. n
  /\ l.found # 0 => Has(low, high, v, l.found) /\ l.high < l.low
  /\ l.found = 0 => \A i \in 1 .. n : Has(low, high, v, i) => l.low < i /\ i <= l.high + 1
  /\ l.high < l.low \/ l.high - l.low + 1 + k <= n

\* Ranges before one that ends below a number, and after one that begins above it, have it not.
LEMMA OutOfRanges ==
  ASSUME NEW n \in Nat, NEW low, NEW high, Ranged(low, high, n), NEW v \in Nat,
         NEW i \in 1 .. n, NEW j \in 1 .. n, Has(low, high, v, j)
  PROVE (v < low[i] => j < i) /\ (v > high[i] => j > i)
  <1>1. /\ \A h \in 1 .. n : low[h] \in Nat /\ high[h] \in Nat
        /\ \A h \in 1 .. n : low[h] <= high[h]
    BY HashWordsRule DEF Ranged
  <1>2. low[j] <= v /\ v <= high[j]
    BY DEF Has
  <1>3. i < j => high[i] < low[j]
    <2>1. i < j => i \in 1 .. j - 1
      OBVIOUS
    <2> QED BY <2>1 DEF Ranged
  <1>4. j < i => high[j] < low[i]
    <2>1. j < i => j \in 1 .. i - 1
      OBVIOUS
    <2> QED BY <2>1 DEF Ranged
  <1>5. low[i] \in Nat /\ high[i] \in Nat /\ low[j] \in Nat /\ high[j] \in Nat /\ low[i] <= high[i] /\ low[j] <= high[j]
    BY <1>1
  <1>6. i \in Nat /\ j \in Nat
    OBVIOUS
  <1>7. i = j \/ i < j \/ j < i
    BY <1>6
  <1>8. CASE i = j
    BY <1>2, <1>5, <1>8
  <1>9. CASE i < j
    BY <1>2, <1>3, <1>5, <1>6, <1>9
  <1>10. CASE j < i
    BY <1>2, <1>4, <1>5, <1>6, <1>10
  <1> QED BY <1>7, <1>8, <1>9, <1>10

LEMMA RoundNarrows ==
  ASSUME NEW n \in Nat, NEW low, NEW high, Ranged(low, high, n), NEW v \in Hashes,
         NEW table, \A i \in 1 .. n : table[i] = <<HashWords(low[i]), HashWords(high[i])>>,
         NEW k \in Nat, NEW l, Narrowed(l, low, high, n, v, k)
  PROVE Narrowed(SearchRound(HashWords(v), table, l), low, high, n, v, k + 1)
  <1>1. CASE l.high < l.low
    <2>1. SearchRound(HashWords(v), table, l) = l
      BY <1>1 DEF SearchRound
    <2> QED BY <1>1, <2>1 DEF Narrowed
  <1>2. CASE ~ (l.high < l.low)
    <2>1. /\ l.low \in Nat /\ l.high \in Nat /\ l.low <= l.high /\ l.high < n /\ l.found = 0
          /\ l.high - l.low + 1 + k <= n
      BY <1>2 DEF Narrowed
    <2>2. PICK i \in Nat : i = l.low + ((l.high - l.low) \div 2) /\ l.low <= i /\ i <= l.high
      <3>1. PICK d \in Nat : d = l.high - l.low
        BY <2>1
      <3>2. d \div 2 \in Nat /\ d \div 2 <= d
        OBVIOUS
      <3> QED BY <2>1, <3>1, <3>2
    <2>3. i + 1 \in 1 .. n
      BY <2>1, <2>2
    <2>4. PICK c : c = Compare(HashWords(v), table[i + 1])
      OBVIOUS
    <2>5. c = IF v < low[i + 1] THEN -1 ELSE IF v > high[i + 1] THEN 1 ELSE 0
      <3>1. PICK x \in Hashes, y \in Hashes : x = low[i + 1] /\ y = high[i + 1] /\ x <= y
        BY <2>3 DEF Ranged
      <3>2. table[i + 1] = <<HashWords(x), HashWords(y)>>
        BY <2>3, <3>1
      <3>3. c = IF v < x THEN -1 ELSE IF v > y THEN 1 ELSE 0
        BY <2>4, <3>1, <3>2, CompareRule
      <3> QED BY <3>1, <3>3
    <2>6. v \in Nat /\ low[i + 1] \in Nat /\ high[i + 1] \in Nat
      BY <2>3, HashWordsRule DEF Ranged
    <2>7. PICK m : m = SearchRound(HashWords(v), table, l)
      OBVIOUS
    <2>8. m = [low |-> IF c > 0 THEN i + 1 ELSE l.low,
               high |-> IF c < 0 THEN i - 1 ELSE IF c = 0 THEN -1 ELSE l.high,
               found |-> IF c = 0 THEN i + 1 ELSE 0]
      BY <1>2, <2>2, <2>4, <2>7 DEF SearchRound
    <2>9. ASSUME NEW j \in 1 .. n, Has(low, high, v, j)
          PROVE /\ l.low < j /\ j <= l.high + 1
                /\ v < low[i + 1] => j < i + 1
                /\ v > high[i + 1] => j > i + 1
      BY <2>1, <2>3, <2>6, <2>9, OutOfRanges DEF Narrowed
    <2>10. CASE v < low[i + 1]
      <3>1. m.low = l.low /\ m.high = i - 1 /\ m.found = 0
        BY <2>5, <2>8, <2>10
      <3>2. \A j \in 1 .. n : Has(low, high, v, j) => m.low < j /\ j <= m.high + 1
        BY <2>2, <2>9, <2>10, <3>1
      <3>3. m.high < m.low \/ m.high - m.low + 1 + (k + 1) <= n
        BY <2>1, <2>2, <3>1
      <3>4. m.low \in Nat /\ m.high \in Int /\ m.high < n /\ m.found \in 0 .. n
        BY <2>1, <2>2, <3>1
      <3> QED BY <2>7, <3>1, <3>2, <3>3, <3>4 DEF Narrowed
    <2>11. CASE ~ (v < low[i + 1]) /\ v > high[i + 1]
      <3>1. m.low = i + 1 /\ m.high = l.high /\ m.found = 0
        BY <2>5, <2>8, <2>11
      <3>2. \A j \in 1 .. n : Has(low, high, v, j) => m.low < j /\ j <= m.high + 1
        BY <2>2, <2>9, <2>11, <3>1
      <3>3. m.high < m.low \/ m.high - m.low + 1 + (k + 1) <= n
        BY <2>1, <2>2, <3>1
      <3>4. m.low \in Nat /\ m.high \in Int /\ m.high < n /\ m.found \in 0 .. n
        BY <2>1, <2>2, <3>1
      <3> QED BY <2>7, <3>1, <3>2, <3>3, <3>4 DEF Narrowed
    <2>12. CASE ~ (v < low[i + 1]) /\ ~ (v > high[i + 1])
      <3>1. m.low = l.low /\ m.high = -1 /\ m.found = i + 1
        BY <2>5, <2>8, <2>12
      <3>2. Has(low, high, v, i + 1)
        BY <2>6, <2>12 DEF Has
      <3>3. m.high < m.low /\ m.found # 0
        BY <2>1, <2>2, <3>1
      <3>4. m.low \in Nat /\ m.high \in Int /\ m.high < n /\ m.found \in 0 .. n
        BY <2>1, <2>2, <2>3, <3>1
      <3> QED BY <2>7, <3>1, <3>2, <3>3, <3>4 DEF Narrowed
    <2> QED BY <2>10, <2>11, <2>12
  <1> QED BY <1>1, <1>2

LEMMA SearchFinds ==
  ASSUME NEW n \in Nat, NEW low, NEW high, Ranged(low, high, n), NEW v \in Hashes,
         NEW table, Len(table) = n,
         \A i \in 1 .. n : table[i] = <<HashWords(low[i]), HashWords(high[i])>>
  PROVE LET entry == Search(HashWords(v), table)
        IN /\ entry \in 0 .. n
           /\ entry # 0 => Has(low, high, v, entry)
           /\ entry = 0 => \A i \in 1 .. n : ~ Has(low, high, v, i)
  <1> DEFINE h == Halving(HashWords(v), table)
             S == {k \in Nat : Narrowed(h[k], low, high, n, v, k)}
  <1>1. /\ h[0] = [low |-> 0, high |-> n - 1, found |-> 0]
        /\ \A k \in Nat : h[k + 1] = SearchRound(HashWords(v), table, h[k])
    BY HalvingRule
  <1>2. Search(HashWords(v), table) = h[n].found
    BY DEF Search
  <1> HIDE DEF h
  <1>3. 0 \in S
    <2>1. h[0].low = 0 /\ h[0].high = n - 1 /\ h[0].found = 0
      BY <1>1
    <2>2. \A i \in 1 .. n : 0 < i /\ i <= (n - 1) + 1
      OBVIOUS
    <2>3. (n - 1) - 0 + 1 + 0 <= n /\ n - 1 \in Int /\ n - 1 < n /\ 0 \in 0 .. n
      OBVIOUS
    <2> QED BY <2>1, <2>2, <2>3 DEF Narrowed
  <1>4. ASSUME NEW k \in Nat, k \in S PROVE k + 1 \in S
    <2>1. Narrowed(h[k], low, high, n, v, k)
      BY <1>4
    <2>2. Narrowed(SearchRound(HashWords(v), table, h[k]), low, high, n, v, k + 1)
      BY <2>1, RoundNarrows
    <2>3. h[k + 1] = SearchRound(HashWords(v), table, h[k]) /\ k + 1 \in Nat
      BY <1>1
    <2> QED BY <2>2, <2>3
  <1>5. n \in S
    <2> HIDE DEF S
    <2> QED BY <1>3, <1>4, StepInduction
  <1>6. Narrowed(h[n], low, high, n, v, n)
    BY <1>5
  <1>7. h[n].high < h[n].low
    BY <1>6 DEF Narrowed
  <1>8. h[n].found = 0 => \A i \in 1 .. n : ~ Has(low, high, v, i)
    <2>1. h[n].low \in Nat /\ h[n].high \in Int
      BY <1>6 DEF Narrowed
    <2> QED BY <1>6, <1>7, <2>1 DEF Narrowed
  <1> QED BY <1>2, <1>6, <1>8 DEF Narrowed

\* The halving search of the kernel finds the range a hash is in, in a table of any number of
\* ranges that are in order and apart, and reports none if it is in none.
THEOREM KernelSearchRight ==
  ASSUME NEW bounds \in Seq(Hashes)
  PROVE SearchRight(bounds)
  <1> SUFFICES ASSUME InOrder(bounds), NEW v \in Hashes
               PROVE LET entry == Search(HashWords(v), TableOf(bounds))
                     IN IF Containing(bounds, v) = {} THEN entry = 0 ELSE entry \in Containing(bounds, v)
    BY DEF SearchRight
  <1>1. Len(bounds) \in Nat /\ \A i \in 1 .. Len(bounds) : bounds[i] \in Hashes
    BY LenProperties, ElementOfSeq
  <1>2. PICK n \in Nat : n = Len(bounds) \div 2
    BY <1>1
  <1>3. \A i \in 1 .. n : 2 * i - 1 \in 1 .. Len(bounds) /\ 2 * i \in 1 .. Len(bounds)
    BY <1>1, <1>2
  <1> DEFINE low == [i \in 1 .. n |-> bounds[2 * i - 1]]
             high == [i \in 1 .. n |-> bounds[2 * i]]
             table == TableOf(bounds)
             entry == Search(HashWords(v), table)
  <1>4. Ranged(low, high, n)
    <2>1. low \in [1 .. n -> Hashes] /\ high \in [1 .. n -> Hashes]
      BY <1>1, <1>3
    <2>2. ASSUME NEW i \in 1 .. n
          PROVE low[i] <= high[i] /\ \A j \in 1 .. i - 1 : high[j] < low[i]
      <3>1. \A j \in 1 .. i - 1 : j \in 1 .. n
        OBVIOUS
      <3> QED BY <1>2, <3>1 DEF InOrder
    <2> QED BY <2>1, <2>2 DEF Ranged
  <1>5. Len(table) = n /\ \A i \in 1 .. n : table[i] = <<HashWords(low[i]), HashWords(high[i])>>
    BY <1>2 DEF TableOf
  <1>6. \A i \in 1 .. n : i \in Containing(bounds, v) <=> Has(low, high, v, i)
    BY <1>2 DEF Containing, Has
  <1>7. \A i \in Containing(bounds, v) : i \in 1 .. n
    BY <1>2 DEF Containing
  <1> HIDE DEF low, high, table
  <1>8. /\ entry \in 0 .. n
        /\ entry # 0 => Has(low, high, v, entry)
        /\ entry = 0 => \A i \in 1 .. n : ~ Has(low, high, v, i)
    BY <1>4, <1>5, SearchFinds
  <1> HIDE DEF entry
  <1>9. IF Containing(bounds, v) = {} THEN entry = 0 ELSE entry \in Containing(bounds, v)
    <2>1. CASE entry = 0
      BY <1>6, <1>7, <1>8, <2>1
    <2>2. CASE entry # 0
      <3>1. entry \in 1 .. n
        BY <1>8, <2>2
      <3> QED BY <1>6, <1>8, <2>2, <3>1
    <2> QED BY <2>1, <2>2
  <1> QED BY <1>9 DEF entry, table

-------------------------------------------------------------------------------
(* Suffixes of Base58 addresses *)

\* A remainder may be taken at every step.
LEMMA Remainder ==
  ASSUME NEW m \in Nat \ {0}, NEW x \in Nat, NEW b \in Nat, NEW d \in Nat
  PROVE ((x % m) * b + d) % m = (x * b + d) % m
  <1>1. PICK q \in Nat, r \in 0 .. m - 1 : r = x % m /\ x = (q * m) + r
    BY Divides
  <1>2. PICK y \in Nat : y = r * b + d
    <2>1. r \in Nat /\ r * b \in Nat
      OBVIOUS
    <2> QED BY <2>1
  <1>3. PICK u \in Nat, w \in 0 .. m - 1 : w = y % m /\ y = (u * m) + w
    BY Divides
  <1>4. x * b + d = ((q * b) * m) + y
    <2>1. r \in Nat /\ m \in Nat
      OBVIOUS
    <2>2. x * b = (q * b) * m + r * b
      BY <1>1, <2>1
    <2> QED BY <1>2, <2>1, <2>2
  <1>5. PICK v \in Nat : v = q * b
    OBVIOUS
  <1>6. x * b + d = ((v + u) * m) + w
    <2>1. (v + u) * m = (v * m) + (u * m) /\ v * m \in Nat /\ u * m \in Nat
      <3>1. m \in Nat
        OBVIOUS
      <3> QED BY <3>1
    <2> QED BY <1>3, <1>4, <1>5, <2>1
  <1>7. (((v + u) * m) + w) % m = w
    <2>1. v + u \in Nat
      OBVIOUS
    <2> QED BY <2>1, Assembled
  <1> QED BY <1>1, <1>2, <1>3, <1>6, <1>7

\* A power of the base that fits the word with a byte to spare
LEMMA DivisorFits ==
  ASSUME NEW k \in 0 .. MaxSuffix
  PROVE /\ Pow(DBASE, k) \in Nat \ {0}
        /\ Pow(DBASE, k) * BYTE <= Pow(BYTE, LWIDTH)
        /\ Pow(DBASE, k) < Pow(BYTE, LWIDTH)
        /\ Pow(DBASE, k) <= Pow(BYTE, LWIDTH - 1)
        /\ Pow(BYTE, LWIDTH) \in Nat \ {0}
  <1>1. /\ BYTE \in Nat \ {0, 1} /\ DBASE \in Nat \ {0, 1}
        /\ LWIDTH \in Nat \ {0} /\ MaxSuffix \in Nat \ {0}
        /\ Pow(DBASE, MaxSuffix) * BYTE <= Pow(BYTE, LWIDTH)
    BY Base58Assumption, SearchAssumption
  <1>2. PICK p \in Nat \ {0}, t \in Nat \ {0} : p = Pow(DBASE, k) /\ t = Pow(DBASE, MaxSuffix)
    <2>1. k \in Nat /\ DBASE \in Nat \ {0} /\ MaxSuffix \in Nat
      BY <1>1
    <2> QED BY <2>1, PowPositive
  <1>3. PICK l \in Nat : LWIDTH = l + 1 /\ l = LWIDTH - 1
    BY <1>1
  <1>4. PICK w \in Nat \ {0} : w = Pow(BYTE, l) /\ Pow(BYTE, LWIDTH) = BYTE * w
    <2>1. BYTE \in Nat /\ BYTE \in Nat \ {0}
      BY <1>1
    <2> QED BY <1>3, <2>1, PowRule, PowPositive
  <1>5. p <= t
    <2>1. k \in Nat /\ k <= MaxSuffix /\ MaxSuffix \in Nat
      BY <1>1
    <2> QED BY <1>1, <1>2, <2>1, PowGrows
  <1>6. t * BYTE <= BYTE * w
    BY <1>1, <1>2, <1>4
  <1>7. t <= w
    <2>1. SUFFICES ASSUME w < t PROVE FALSE
      BY <1>2, <1>4
    <2>2. PICK d \in Nat \ {0} : t = w + d
      <3>1. t - w \in Nat \ {0} /\ t = w + (t - w)
        BY <1>2, <1>4, <2>1
      <3> QED BY <3>1
    <2>3. BYTE \in Nat /\ t * BYTE = BYTE * w + d * BYTE /\ d * BYTE \in Nat \ {0} /\ BYTE * w \in Nat
      <3>1. BYTE \in Nat \ {0}
        BY <1>1
      <3>2. d * BYTE \in Nat \ {0}
        BY <3>1, Product
      <3> QED BY <2>2, <3>1, <3>2
    <2> QED BY <1>6, <2>3
  <1>8. p * BYTE <= BYTE * w /\ p < BYTE * w
    <2>1. PICK d \in Nat : w = p + d
      <3>1. w - p \in Nat /\ w = p + (w - p)
        BY <1>2, <1>4, <1>5, <1>7
      <3> QED BY <3>1
    <2>2. BYTE * w = p * BYTE + d * BYTE /\ d * BYTE \in Nat /\ p * BYTE \in Nat
      <3>1. BYTE \in Nat
        BY <1>1
      <3> QED BY <2>1, <3>1
    <2>3. p < p * BYTE
      <3>1. BYTE \in Nat \ {0} /\ BYTE > 1
        BY <1>1
      <3> QED BY <3>1, Product
    <2> QED BY <2>2, <2>3
  <1>9. BYTE * w \in Nat \ {0}
    <2>1. BYTE \in Nat \ {0}
      BY <1>1
    <2> QED BY <1>4, <2>1, Product
  <1> QED BY <1>2, <1>3, <1>4, <1>5, <1>7, <1>8, <1>9

LEMMA Small ==
  ASSUME NEW s \in Nat \ {0}, NEW r \in Nat, r < s
  PROVE r % s = r /\ r \div s = 0
  <1>1. r \in 0 .. s - 1 /\ 0 \in Nat /\ (0 * s) + r = r
    OBVIOUS
  <1> QED BY <1>1, Assembled

\* The remainder of the kernel is that of the number.
LEMMA RemainderSteps ==
  ASSUME NEW suffix \in Seq(0 .. DBASE - 1), Len(suffix) <= MaxSuffix,
         NEW bytes \in Seq(0 .. BYTE - 1)
  PROVE SuffixFits(bytes, suffix) <=>
          Number(bytes, BYTE) % Pow(DBASE, Len(suffix)) = Number(suffix, DBASE)
  <1>1. BYTE \in Nat \ {0, 1} /\ DBASE \in Nat \ {0, 1}
    BY Base58Assumption
  <1>2. PICK k \in 0 .. MaxSuffix : k = Len(suffix)
    <2>1. MaxSuffix \in Nat /\ Len(suffix) \in Nat
      BY SearchAssumption, LenProperties
    <2> QED BY <2>1
  <1>3. PICK m \in Nat \ {0}, u \in Nat \ {0} :
          m = Pow(DBASE, k) /\ u = Pow(BYTE, LWIDTH) /\ m * BYTE <= u /\ m < u
    BY DivisorFits
  <1>4. PICK t \in Nat : t = Number(suffix, DBASE) /\ t < m
    <2>1. DBASE \in Nat \ {0}
      BY <1>1
    <2>2. Number(suffix, DBASE) \in 0 .. m - 1
      BY <1>2, <1>3, <2>1, NumberBound
    <2> QED BY <2>2
  <1>5. Ulong(m) = m /\ Ulong(t) = t
    <2>1. t < u /\ m \in Nat
      BY <1>3, <1>4
    <2>2. m % u = m /\ t % u = t
      BY <1>3, <2>1, Small
    <2> QED BY <1>3, <2>2 DEF Ulong
  <1>6. PICK n \in Nat : n = Len(bytes) /\ \A i \in 1 .. n : bytes[i] \in 0 .. BYTE - 1
    BY LenProperties, ElementOfSeq
  <1>7. PICK v : Accumulates(v, bytes, BYTE) /\ Number(bytes, BYTE) = v[n]
    <2>1. bytes \in Seq(Nat) /\ BYTE \in Nat
      <3>1. BYTE \in Nat
        BY <1>1
      <3>2. bytes \in Seq(Nat)
        BY <3>1, DigitsAreNumbers
      <3> QED BY <3>1, <3>2
    <2> QED BY <1>6, <2>1, NumberSteps
  <1>8. /\ \A i \in 0 .. n : v[i] \in Nat
        /\ v[0] = 0 /\ \A i \in 1 .. n : v[i] = v[i - 1] * BYTE + bytes[i]
    BY <1>6, <1>7 DEF Accumulates
  \* No step overflows.
  <1>9. ASSUME NEW x \in Nat, NEW d \in 0 .. BYTE - 1
        PROVE Ulong((x % m) * BYTE + d) % m = (x * BYTE + d) % m
    <2>1. PICK r \in Nat : r = x % m /\ r < m
      <3>1. x % m \in 0 .. m - 1
        BY Divides
      <3>2. x % m \in Nat /\ x % m < m
        BY <3>1
      <3> QED BY <3>2
    <2>2. r * BYTE + d < m * BYTE
      <3>1. BYTE \in Nat \ {0}
        BY <1>1
      <3> QED BY <2>1, <3>1, Carry
    <2>3. PICK y \in Nat : y = r * BYTE + d
      <3>1. BYTE \in Nat /\ d \in Nat /\ r * BYTE \in Nat
        BY <1>1
      <3> QED BY <3>1
    <2>4. y < u
      <3>1. m * BYTE \in Nat
        BY <1>1
      <3> QED BY <1>3, <2>2, <2>3, <3>1
    <2>5. Ulong(y) = y
      <3>1. y % u = y
        BY <2>4, Small
      <3> QED BY <1>3, <3>1 DEF Ulong
    <2>6. ((x % m) * BYTE + d) % m = (x * BYTE + d) % m
      <3>1. BYTE \in Nat /\ d \in Nat
        BY <1>1
      <3>2. \A b \in Nat, e \in Nat : ((x % m) * b + e) % m = (x * b + e) % m
        BY Remainder
      <3> QED BY <3>1, <3>2
    <2> QED BY <2>1, <2>3, <2>5, <2>6
  <1> DEFINE r == CHOOSE r : r = [i \in 0 .. n |->
                    IF i = 0 THEN 0 ELSE Ulong(r[i - 1] * BYTE + bytes[i]) % m]
             w == [i \in 0 .. n |-> v[i] % m]
  <1>10. SuffixFits(bytes, suffix) <=> r[n] = t
    BY <1>2, <1>3, <1>4, <1>5, <1>6 DEF SuffixFits
  <1>11. \A i \in 1 .. n : w[i] = Ulong(w[i - 1] * BYTE + bytes[i]) % m
    <2> TAKE i \in 1 .. n
    <2>1. i \in 0 .. n /\ i - 1 \in 0 .. n
      OBVIOUS
    <2>2. w[i] = v[i] % m /\ w[i - 1] = v[i - 1] % m
      BY <2>1
    <2>3. v[i] = v[i - 1] * BYTE + bytes[i] /\ v[i - 1] \in Nat /\ bytes[i] \in 0 .. BYTE - 1
      BY <1>6, <1>8, <2>1
    <2> HIDE DEF w
    <2> QED BY <1>9, <2>2, <2>3
  <1>12. w[0] = 0 /\ DOMAIN w = 0 .. n /\ w = [i \in 0 .. n |-> w[i]]
    <2>1. 0 % m = 0
      BY Small, SMTT(30)
    <2> QED BY <1>8, <2>1
  <1> HIDE DEF w
  <1>13. r = [i \in 0 .. n |-> IF i = 0 THEN 0 ELSE Ulong(r[i - 1] * BYTE + bytes[i]) % m]
    <2>1. w = [i \in 0 .. n |-> IF i = 0 THEN 0 ELSE Ulong(w[i - 1] * BYTE + bytes[i]) % m]
      <3>1. \A i \in 0 .. n : w[i] = IF i = 0 THEN 0 ELSE Ulong(w[i - 1] * BYTE + bytes[i]) % m
        <4> TAKE i \in 0 .. n
        <4>1. CASE i = 0
          BY <1>12, <4>1
        <4>2. CASE i # 0
          <5>1. i \in 1 .. n
            BY <4>2
          <5> QED BY <1>11, <4>2, <5>1
        <4> QED BY <4>1, <4>2
      <3> QED BY <1>12, <3>1
    <2>2. \E q : q = [i \in 0 .. n |-> IF i = 0 THEN 0 ELSE Ulong(q[i - 1] * BYTE + bytes[i]) % m]
      BY <2>1
    <2> QED BY <2>2
  <1> HIDE DEF r
  <1>14. r[0] = 0 /\ \A i \in 1 .. n : r[i] = Ulong(r[i - 1] * BYTE + bytes[i]) % m
    <2>1. \A i \in 1 .. n : i \in 0 .. n /\ i # 0
      OBVIOUS
    <2>2. 0 \in 0 .. n
      OBVIOUS
    <2> QED BY <1>13, <2>1, <2>2
  <1> DEFINE S == {i \in Nat : i <= n => r[i] = w[i]}
  <1>15. 0 \in S
    BY <1>12, <1>14
  <1>16. ASSUME NEW i \in Nat, i \in S PROVE i + 1 \in S
    <2>1. CASE i + 1 <= n
      <3>1. i + 1 \in 1 .. n /\ (i + 1) - 1 = i /\ r[i] = w[i]
        BY <1>16, <2>1
      <3>2. r[i + 1] = w[i + 1]
        BY <1>11, <1>14, <3>1
      <3> QED BY <3>2
    <2> QED BY <2>1
  <1>17. n \in S
    <2> HIDE DEF S
    <2> QED BY <1>15, <1>16, StepInduction
  <1>18. r[n] = v[n] % m
    <2>1. n \in 0 .. n
      OBVIOUS
    <2> QED BY <1>17, <2>1 DEF w
  <1> QED BY <1>2, <1>3, <1>4, <1>7, <1>10, <1>18

\* A number of so many bytes, the first not zero, has more digits than a suffix.
LEMMA MoreDigits ==
  ASSUME NEW bytes \in Seq(0 .. BYTE - 1), Len(bytes) >= LWIDTH, bytes[1] # 0
  PROVE Len(Digits(Number(bytes, BYTE), DBASE)) > MaxSuffix
  <1>1. /\ BYTE \in Nat \ {0, 1} /\ DBASE \in Nat \ {0, 1} /\ LWIDTH \in Nat \ {0}
        /\ MaxSuffix \in Nat \ {0} /\ Len(bytes) \in Nat
    BY Base58Assumption, SearchAssumption, LenProperties
  <1>2. PICK x \in Nat : x = Number(bytes, BYTE) /\ Digits(x, BYTE) = bytes
    <2>1. Canonical(bytes)
      BY DEF Canonical
    <2>2. Number(bytes, BYTE) \in Nat
      BY <1>1, DigitsAreNumbers
    <2>3. Digits(Number(bytes, BYTE), BYTE) = bytes
      BY <1>1, <2>1, DigitsOfNumber
    <2> QED BY <2>2, <2>3
  <1>3. x # 0
    <2>1. SUFFICES ASSUME x = 0 PROVE FALSE
      OBVIOUS
    <2>2. bytes = <<>>
      BY <1>1, <1>2, <2>1, DigitsRule
    <2> QED BY <1>1, <2>2
  <1>4. Pow(BYTE, Len(bytes) - 1) <= x
    BY <1>1, <1>2, <1>3, DigitsBetween
  <1>5. PICK p \in Nat : p = Pow(BYTE, LWIDTH - 1) /\ p <= x
    <2>1. LWIDTH - 1 \in Nat /\ Len(bytes) - 1 \in Nat /\ LWIDTH - 1 <= Len(bytes) - 1 /\ BYTE \in Nat
      BY <1>1
    <2>2. Pow(BYTE, LWIDTH - 1) \in Nat /\ Pow(BYTE, Len(bytes) - 1) \in Nat
      BY <2>1, PowRule
    <2>3. Pow(BYTE, LWIDTH - 1) <= Pow(BYTE, Len(bytes) - 1)
      BY <1>1, <2>1, PowGrows
    <2> QED BY <1>4, <2>2, <2>3
  <1>6. Pow(DBASE, MaxSuffix) \in Nat /\ Pow(DBASE, MaxSuffix) <= p
    <2>1. MaxSuffix \in 0 .. MaxSuffix
      BY <1>1
    <2> QED BY <1>5, <2>1, DivisorFits
  <1>7. PICK l \in Nat \ {0} : l = Len(Digits(x, DBASE)) /\ x < Pow(DBASE, l)
    BY <1>1, <1>2, <1>3, DigitsBetween
  <1>8. ~ (l <= MaxSuffix)
    <2>1. l <= MaxSuffix => Pow(DBASE, l) <= Pow(DBASE, MaxSuffix)
      BY <1>1, PowGrows
    <2>2. Pow(DBASE, l) \in Nat
      <3>1. DBASE \in Nat /\ l \in Nat
        BY <1>1
      <3> QED BY <3>1, PowRule
    <2> QED BY <1>5, <1>6, <1>7, <2>1, <2>2
  <1> QED BY <1>1, <1>2, <1>7, <1>8

\* The last so many digits of a number are its remainder.
LEMMA EndsWith ==
  ASSUME NEW b \in Nat \ {0}, NEW s \in Seq(0 .. b - 1), NEW t \in Seq(0 .. b - 1), Len(t) <= Len(s)
  PROVE SubSeq(s, Len(s) - Len(t) + 1, Len(s)) = t
          <=> Number(s, b) % Pow(b, Len(t)) = Number(t, b)
  <1>1. PICK n \in Nat, k \in Nat : n = Len(s) /\ k = Len(t) /\ k <= n
    BY LenProperties
  <1>2. n - k \in 0 .. n /\ n - (n - k) = k
    BY <1>1
  <1>3. PICK u : u = SubSeq(s, (n - k) + 1, n)
    OBVIOUS
  <1>4. u \in Seq(0 .. b - 1) /\ Len(u) = k /\ Number(u, b) = Number(s, b) % Pow(b, k)
    <2>1. PICK l \in 0 .. Len(s) : l = n - k
      BY <1>1, <1>2
    <2>2. /\ SubSeq(s, l + 1, Len(s)) \in Seq(0 .. b - 1)
          /\ Len(SubSeq(s, l + 1, Len(s))) = Len(s) - l
          /\ Number(SubSeq(s, l + 1, Len(s)), b) = Number(s, b) % Pow(b, Len(s) - l)
      BY Split
    <2> QED BY <1>1, <1>2, <1>3, <2>1, <2>2
  <1>5. Number(u, b) = Number(t, b) => u = t
    BY <1>1, <1>4, SameNumber
  <1> QED BY <1>1, <1>3, <1>4, <1>5

\* The remainder, taken a byte at a time in a word that could overflow, says whether the
\* address ends with the suffix.
THEOREM KernelSuffixRight ==
  ASSUME NEW suffix \in Seq(0 .. DBASE - 1)
  PROVE SuffixRight(suffix)
  <1> SUFFICES ASSUME SuffixAccepted(suffix), NEW a \in Seq(0 .. BYTE - 1), Len(a) >= LWIDTH, a[1] # 0
               PROVE SuffixFits(a, suffix) <=> AddressEnds(a, suffix)
    BY AddressesAssumption DEF SuffixRight
  <1>1. BYTE \in Nat \ {0, 1} /\ DBASE \in Nat \ {0, 1} /\ MaxSuffix \in Nat
    BY Base58Assumption, SearchAssumption
  <1>2. PICK k \in Nat : k = Len(suffix) /\ k <= MaxSuffix
    BY <1>1, LenProperties DEF SuffixAccepted
  <1>3. PICK x \in Nat : x = Number(a, BYTE)
    BY <1>1, DigitsAreNumbers
  <1>4. PICK z \in Nat : z = Leading(a)
    <2>1. BYTE \in Nat
      BY <1>1
    <2>2. a \in Seq(Nat)
      BY <2>1, DigitsAreNumbers
    <2> QED BY <2>2, LeadingRule, LenProperties
  <1>5. PICK d \in Seq(0 .. DBASE - 1) : d = Digits(x, DBASE) /\ Number(d, DBASE) = x
    BY <1>1, DigitsRule, NumberOfDigits
  <1>6. Len(d) \in Nat /\ Len(d) > MaxSuffix
    <2>1. Len(d) > MaxSuffix
      BY <1>3, <1>5, MoreDigits
    <2> QED BY <2>1, LenProperties
  <1>7. PICK e \in Seq(0 .. DBASE - 1) :
          e = Encoded(a) /\ Len(e) = z + Len(d) /\ Number(e, DBASE) = x
    <2>1. Encoded(a) = Repeat(0, z) \o d
      BY <1>3, <1>4, <1>5 DEF Encoded
    <2>2. Repeat(0, z) \in Seq(0 .. DBASE - 1) /\ Len(Repeat(0, z)) = z
      <3>1. 0 \in 0 .. DBASE - 1
        BY <1>1
      <3> QED BY <3>1, Repeated
    <2>3. Number(Repeat(0, z) \o d, DBASE) = x
      <3>1. DBASE \in Nat
        BY <1>1
      <3>2. d \in Seq(Nat)
        BY <3>1, DigitsAreNumbers
      <3> QED BY <1>5, <3>1, <3>2, ZerosAreNone
    <2>4. Len(Repeat(0, z) \o d) = z + Len(d) /\ Repeat(0, z) \o d \in Seq(0 .. DBASE - 1)
      BY <2>2, ConcatProperties
    <2> QED BY <2>1, <2>3, <2>4
  <1>8. Len(suffix) <= Len(e) /\ Len(e) >= Len(suffix)
    BY <1>1, <1>2, <1>6, <1>7
  <1>9. AddressEnds(a, suffix) <=> SubSeq(e, Len(e) - Len(suffix) + 1, Len(e)) = suffix
    BY <1>7, <1>8 DEF AddressEnds
  <1>10. SubSeq(e, Len(e) - Len(suffix) + 1, Len(e)) = suffix
           <=> Number(e, DBASE) % Pow(DBASE, Len(suffix)) = Number(suffix, DBASE)
    <2>1. DBASE \in Nat \ {0}
      BY <1>1
    <2> QED BY <1>8, <2>1, EndsWith
  <1>11. SuffixFits(a, suffix) <=> Number(a, BYTE) % Pow(DBASE, Len(suffix)) = Number(suffix, DBASE)
    <2>1. Len(suffix) <= MaxSuffix
      BY <1>2
    <2> QED BY <2>1, RemainderSteps
  <1> QED BY <1>3, <1>7, <1>9, <1>10, <1>11

-------------------------------------------------------------------------------
(* Suffixes of hexadecimal addresses *)

\* The digits of a suffix in their places, zeros before
LEMMA Padded ==
  ASSUME NEW V, 0 \in V, NEW suffix \in Seq(V), NEW n \in Nat, Len(suffix) <= n
  PROVE LET p == Repeat(0, n - Len(suffix)) \o suffix
        IN /\ p \in Seq(V) /\ Len(p) = n
           /\ \A j \in 1 .. n - Len(suffix) : p[j] = 0
           /\ \A j \in n - Len(suffix) + 1 .. n : p[j] = suffix[j - (n - Len(suffix))]
  <1>1. PICK k \in Nat : k = Len(suffix)
    BY LenProperties
  <1>2. PICK z \in Nat : z = n - k
    <2>1. n - k \in Nat
      BY <1>1
    <2> QED BY <2>1
  <1>3. /\ Repeat(0, z) \in Seq(V) /\ Len(Repeat(0, z)) = z
        /\ \A i \in 1 .. z : Repeat(0, z)[i] = 0
    BY Repeated
  <1>4. PICK p : p = Repeat(0, z) \o suffix
    OBVIOUS
  <1>5. /\ p \in Seq(V) /\ Len(p) = z + k
        /\ \A i \in 1 .. z : p[i] = 0
        /\ \A i \in z + 1 .. z + k : p[i] = suffix[i - z]
    <2>1. PICK q \in Seq(V) : q = Repeat(0, z)
      BY <1>3
    <2>2. Len(q) = z /\ (\A i \in 1 .. z : q[i] = 0) /\ p = q \o suffix
      BY <1>3, <1>4, <2>1
    <2>3. p \in Seq(V) /\ Len(p) = Len(q) + Len(suffix)
          /\ \A i \in 1 .. Len(q) + Len(suffix) :
               p[i] = IF i <= Len(q) THEN q[i] ELSE suffix[i - Len(q)]
      BY <2>2, ConcatProperties
    <2>4. \A i \in 1 .. z + k : p[i] = IF i <= z THEN q[i] ELSE suffix[i - z]
      BY <1>1, <2>2, <2>3
    <2>5. \A i \in 1 .. z : i \in 1 .. z + k /\ i <= z
      OBVIOUS
    <2>6. \A i \in z + 1 .. z + k : i \in 1 .. z + k /\ ~ (i <= z)
      OBVIOUS
    <2>7. \A i \in 1 .. z : p[i] = 0
      BY <2>2, <2>4, <2>5
    <2>8. \A i \in z + 1 .. z + k : p[i] = suffix[i - z]
      BY <2>4, <2>6
    <2> QED BY <1>1, <2>2, <2>3, <2>7, <2>8
  <1>6. z + k = n
    BY <1>1, <1>2
  <1> QED BY <1>1, <1>2, <1>4, <1>5, <1>6

\* Where a digit is, of a number of bytes of two digits
LEMMA TwoDigits ==
  ASSUME NEW n \in Nat
  PROVE /\ (2 * n) \div 2 = n
        /\ \A i \in 1 .. n : 2 * i \in 1 .. 2 * n /\ 2 * i - 1 \in 1 .. 2 * n
        /\ \A j \in 1 .. 2 * n : \E i \in 1 .. n : j = 2 * i \/ j = 2 * i - 1
  <1>1. ASSUME NEW j \in 1 .. 2 * n PROVE \E i \in 1 .. n : j = 2 * i \/ j = 2 * i - 1
    <2>1. (j + 1) \div 2 \in 1 .. n /\ (j = 2 * ((j + 1) \div 2) \/ j = 2 * ((j + 1) \div 2) - 1)
      OBVIOUS
    <2> QED BY <2>1
  <1> QED BY <1>1

\* The bits of a mask leave of a byte the low part of it.
LEMMA Parted ==
  ASSUME NEW b \in Nat \ {0, 1}, NEW x \in 0 .. b - 1, NEW y \in 0 .. b - 1
  PROVE /\ b * x + y \in 0 .. b * b - 1
        /\ (b * x + y) % (b * b) = b * x + y
        /\ (b * x + y) % b = y
        /\ (b * x + y) % 1 = 0
        /\ \A u \in 0 .. b - 1, w \in 0 .. b - 1 : b * x + y = b * u + w <=> x = u /\ y = w
  <1>1. b \in Nat \ {0} /\ x \in Nat /\ y \in Nat /\ b \in Nat
    OBVIOUS
  <1>2. b * x = x * b /\ x * b \in Nat
    BY <1>1
  <1>3. (x * b + y) % b = y
    BY <1>1, Assembled
  <1>4. x * b + y < b * b
    <2>1. x < b
      BY <1>1
    <2> QED BY <1>1, <2>1, Carry
  <1>5. PICK a \in Nat : a = x * b + y
    BY <1>1, <1>2
  <1>6. PICK c \in Nat \ {0} : c = b * b
    BY <1>1, Product
  <1>7. a % c = a
    BY <1>4, <1>5, <1>6, Small
  <1>8. a % 1 = 0
    OBVIOUS
  <1>9. ASSUME NEW u \in 0 .. b - 1, NEW w \in 0 .. b - 1, b * x + y = b * u + w PROVE x = u /\ y = w
    <2>1. u \in Nat /\ b * u = u * b
      BY <1>1
    <2>2. (x * b) + y = (u * b) + w
      BY <1>2, <1>9, <2>1
    <2> QED BY <1>1, <2>1, <2>2, Unique
  <1>10. a \in 0 .. c - 1
    BY <1>4, <1>5, <1>6
  <1> QED BY <1>2, <1>3, <1>5, <1>6, <1>7, <1>8, <1>9, <1>10

LEMMA PartedHex ==
  ASSUME NEW x \in 0 .. HEX - 1, NEW y \in 0 .. HEX - 1, NEW u \in 0 .. HEX - 1, NEW w \in 0 .. HEX - 1
  PROVE /\ (HEX * x + y) % (HEX * HEX) = HEX * x + y
        /\ (HEX * x + y) % HEX = y
        /\ (HEX * x + y) % 1 = 0
        /\ HEX * x + y = HEX * u + w <=> x = u /\ y = w
  <1>1. HEX \in Nat \ {0, 1}
    BY SearchAssumption
  <1> QED BY <1>1, Parted

LEMMA BytesRule ==
  ASSUME NEW n \in Nat, NEW s, Len(s) = 2 * n, NEW i \in 1 .. n
  PROVE Bytes(s)[i] = HEX * s[2 * i - 1] + s[2 * i]
  <1>1. Bytes(s) = [k \in 1 .. n |-> HEX * s[2 * k - 1] + s[2 * k]]
    BY TwoDigits DEF Bytes
  <1> QED BY <1>1

LEMMA Halves ==
  ASSUME NEW k \in Nat
  PROVE \E f \in Nat : f = k \div 2 /\ ((k = 2 * f /\ k % 2 = 0) \/ (k = 2 * f + 1 /\ k % 2 = 1))
  OBVIOUS

LEMMA AsSequence ==
  ASSUME NEW V, NEW m \in Nat, NEW g \in [1 .. m -> V]
  PROVE g \in Seq(V) /\ Len(g) = m
  OBVIOUS

\* Whole bytes of the mask from the right, one half, and nothing before
LEMMA MaskRule ==
  ASSUME NEW k \in 0 .. 2 * HBYTES, NEW suffix, Len(suffix) = k, NEW i \in 1 .. HBYTES
  PROVE /\ 2 * i - 1 > 2 * HBYTES - k => Mask(suffix)[i] + 1 = HEX * HEX
        /\ 2 * i - 1 = 2 * HBYTES - k => Mask(suffix)[i] + 1 = HEX
        /\ 2 * i <= 2 * HBYTES - k => Mask(suffix)[i] + 1 = 1
  <1>1. HBYTES \in Nat \ {0} /\ HEX \in Nat \ {0, 1}
    BY SearchAssumption
  <1>2. PICK f \in Nat : f = k \div 2 /\ ((k = 2 * f /\ k % 2 = 0) \/ (k = 2 * f + 1 /\ k % 2 = 1)) /\ f <= HBYTES
    <2>1. k \in Nat /\ k <= 2 * HBYTES
      BY <1>1
    <2>2. PICK f \in Nat : f = k \div 2 /\ ((k = 2 * f /\ k % 2 = 0) \/ (k = 2 * f + 1 /\ k % 2 = 1))
      BY <2>1, Halves
    <2>4. f <= HBYTES
      BY <1>1, <2>1, <2>2
    <2> QED BY <2>2, <2>4
  <1>3. PICK z \in Nat : z = HBYTES - f
    <2>1. HBYTES - f \in Nat
      BY <1>1, <1>2
    <2> QED BY <2>1
  <1>4. PICK v \in Nat : v = (HEX * HEX) - 1 /\ v + 1 = HEX * HEX
    <2>1. HEX \in Nat \ {0}
      BY <1>1
    <2>2. PICK w \in Nat \ {0} : w = HEX * HEX
      BY <2>1, Product
    <2>3. w - 1 \in Nat /\ (w - 1) + 1 = w
      BY <2>2
    <2> QED BY <2>2, <2>3
  <1>5. PICK rest : rest = Repeat(0, z) \o Repeat(v, f)
    OBVIOUS
  <1>6. /\ rest \in Seq(Nat) /\ Len(rest) = HBYTES
        /\ \A j \in 1 .. z : rest[j] = 0
        /\ \A j \in z + 1 .. HBYTES : rest[j] = v
    <2>1. /\ Repeat(0, z) \in Seq(Nat) /\ Len(Repeat(0, z)) = z /\ \A j \in 1 .. z : Repeat(0, z)[j] = 0
          /\ Repeat(v, f) \in Seq(Nat) /\ Len(Repeat(v, f)) = f /\ \A j \in 1 .. f : Repeat(v, f)[j] = v
      BY Repeated
    <2>2. rest \in Seq(Nat) /\ Len(rest) = z + f
      BY <1>5, <2>1, ConcatProperties
    <2>3. z + f = HBYTES
      BY <1>1, <1>2, <1>3
    <2>4. \A j \in 1 .. z : rest[j] = 0
      BY <1>5, <2>1, <2>2, ConcatProperties
    <2>5. \A j \in z + 1 .. HBYTES : rest[j] = v
      <3> TAKE j \in z + 1 .. HBYTES
      <3>1. j \in Nat /\ j - z \in 1 .. f /\ j > z /\ j <= z + f
        BY <2>3
      <3>2. rest[j] = Repeat(v, f)[j - z]
        BY <1>5, <2>1, <3>1, ConcatProperties
      <3> QED BY <2>1, <3>1, <3>2
    <2> QED BY <2>2, <2>3, <2>4, <2>5
  <1>7. Mask(suffix) = IF k % 2 = 0 THEN rest ELSE [rest EXCEPT ![z] = HEX - 1]
    BY <1>2, <1>3, <1>4, <1>5 DEF Mask
  <1>8. i \in Nat /\ i \in 1 .. HBYTES
    BY <1>1
  <1>9. CASE k % 2 = 0
    <2>1. Mask(suffix)[i] = rest[i] /\ k = 2 * f
      BY <1>2, <1>7, <1>9
    <2>2. 2 * HBYTES - k = 2 * z
      BY <1>1, <1>3, <2>1
    <2>3. 2 * i - 1 > 2 * HBYTES - k => i \in z + 1 .. HBYTES
      BY <1>1, <1>8, <2>2
    <2>4. 2 * i <= 2 * HBYTES - k => i \in 1 .. z
      BY <1>8, <2>2
    <2>5. 2 * i - 1 # 2 * HBYTES - k
      BY <1>8, <2>2
    <2> QED BY <1>4, <1>6, <2>1, <2>3, <2>4, <2>5
  <1>10. CASE k % 2 # 0
    <2>1. k = 2 * f + 1 /\ Mask(suffix) = [rest EXCEPT ![z] = HEX - 1]
      BY <1>2, <1>7, <1>10
    <2>2. 2 * HBYTES - k = 2 * z - 1
      BY <1>1, <1>3, <2>1
    <2>3. i \in DOMAIN rest
      BY <1>6, <1>8
    <2>4. i # z => Mask(suffix)[i] = rest[i]
      BY <2>1, <2>3
    <2>5. i = z => Mask(suffix)[i] = HEX - 1
      BY <2>1, <2>3
    <2>6. 2 * i - 1 > 2 * HBYTES - k => i \in z + 1 .. HBYTES /\ i # z
      BY <1>1, <1>8, <2>2
    <2>7. 2 * i <= 2 * HBYTES - k => i \in 1 .. z /\ i # z
      BY <1>8, <2>2
    <2>8. 2 * i - 1 = 2 * HBYTES - k => i = z
      BY <1>8, <2>2
    <2>9. (HEX - 1) + 1 = HEX /\ 0 + 1 = 1
      BY <1>1
    <2> QED BY <1>4, <1>6, <2>4, <2>5, <2>6, <2>7, <2>8, <2>9
  <1> QED BY <1>9, <1>10

\* The masks and targets accept the addresses that end with the suffix, of an odd number of
\* digits too.
THEOREM KernelHexSuffixRight ==
  ASSUME NEW suffix \in Seq(0 .. HEX - 1)
  PROVE HexSuffixRight(suffix)
  <1> SUFFICES ASSUME HexSuffixAccepted(suffix), NEW h \in [1 .. 2 * HBYTES -> 0 .. HEX - 1]
               PROVE Masked(Bytes(h), suffix) <=> SubSeq(h, 2 * HBYTES - Len(suffix) + 1, 2 * HBYTES) = suffix
    BY DEF HexSuffixRight
  <1>1. HBYTES \in Nat \ {0} /\ HEX \in Nat \ {0, 1} /\ 0 \in 0 .. HEX - 1
    BY SearchAssumption
  <1>2. PICK k \in 0 .. 2 * HBYTES : k = Len(suffix)
    BY <1>1, LenProperties DEF HexSuffixAccepted
  <1>3. PICK z \in Nat : z = 2 * HBYTES - k /\ z <= 2 * HBYTES
    <2>1. 2 * HBYTES - k \in Nat /\ 2 * HBYTES - k <= 2 * HBYTES
      BY <1>1
    <2> QED BY <2>1
  <1>4. h \in Seq(0 .. HEX - 1) /\ Len(h) = 2 * HBYTES
    <2>1. PICK n \in Nat : n = 2 * HBYTES
      BY <1>1
    <2>2. h \in [1 .. n -> 0 .. HEX - 1]
      BY <2>1
    <2> QED BY <2>1, <2>2, AsSequence
  <1>5. PICK p : p = Repeat(0, z) \o suffix
    OBVIOUS
  <1>6. /\ p \in Seq(0 .. HEX - 1) /\ Len(p) = 2 * HBYTES
        /\ \A j \in 1 .. z : p[j] = 0
        /\ \A j \in z + 1 .. 2 * HBYTES : p[j] = suffix[j - z]
    <2>1. PICK n \in Nat : n = 2 * HBYTES /\ Len(suffix) <= n /\ n - Len(suffix) = z
      BY <1>1, <1>2, <1>3
    <2>2. PICK V : V = 0 .. HEX - 1
      OBVIOUS
    <2>3. 0 \in V /\ suffix \in Seq(V)
      BY <1>1, <2>2
    <2>4. /\ Repeat(0, n - Len(suffix)) \o suffix \in Seq(V)
          /\ Len(Repeat(0, n - Len(suffix)) \o suffix) = n
          /\ \A j \in 1 .. n - Len(suffix) : (Repeat(0, n - Len(suffix)) \o suffix)[j] = 0
          /\ \A j \in n - Len(suffix) + 1 .. n :
               (Repeat(0, n - Len(suffix)) \o suffix)[j] = suffix[j - (n - Len(suffix))]
      BY <2>1, <2>3, Padded, Zenon
    <2> QED BY <1>5, <2>1, <2>2, <2>4
  <1>7. \A j \in 1 .. 2 * HBYTES : p[j] \in 0 .. HEX - 1 /\ h[j] \in 0 .. HEX - 1
    <2>1. \A j \in 1 .. 2 * HBYTES : p[j] \in 0 .. HEX - 1
      BY <1>6, ElementOfSeq
    <2> QED BY <2>1
  <1>8. Target(suffix) = Bytes(p)
    BY <1>2, <1>3, <1>5 DEF Target
  <1> DEFINE Agree(i) == (2 * i - 1 > z => h[2 * i - 1] = p[2 * i - 1]) /\ (2 * i > z => h[2 * i] = p[2 * i])
  <1>9. ASSUME NEW i \in 1 .. HBYTES
        PROVE Bytes(h)[i] % (Mask(suffix)[i] + 1) = Target(suffix)[i] <=> Agree(i)
    <2>1. PICK a \in Nat, c \in Nat : /\ a = 2 * i - 1 /\ c = 2 * i /\ c = a + 1
                                      /\ a \in 1 .. 2 * HBYTES /\ c \in 1 .. 2 * HBYTES
      BY <1>1, TwoDigits
    <2>2. PICK x \in 0 .. HEX - 1, y \in 0 .. HEX - 1 : x = h[a] /\ y = h[c]
      BY <1>7, <2>1
    <2>3. PICK u \in 0 .. HEX - 1, w \in 0 .. HEX - 1 : u = p[a] /\ w = p[c]
      BY <1>7, <2>1
    <2>4. Bytes(h)[i] = HEX * x + y /\ Bytes(p)[i] = HEX * u + w
      <3>1. HBYTES \in Nat
        BY <1>1
      <3>2. Bytes(h)[i] = HEX * h[2 * i - 1] + h[2 * i]
        BY <1>4, <3>1, BytesRule, Zenon
      <3>3. Bytes(p)[i] = HEX * p[2 * i - 1] + p[2 * i]
        BY <1>6, <3>1, BytesRule, Zenon
      <3> QED BY <2>1, <2>2, <2>3, <3>2, <3>3, Zenon
    <2>5. /\ a > z => Mask(suffix)[i] + 1 = HEX * HEX
          /\ a = z => Mask(suffix)[i] + 1 = HEX
          /\ c <= z => Mask(suffix)[i] + 1 = 1
      BY <1>2, <1>3, <2>1, MaskRule
    <2>6. /\ (HEX * x + y) % (HEX * HEX) = HEX * x + y
          /\ (HEX * x + y) % HEX = y
          /\ (HEX * x + y) % 1 = 0
          /\ HEX * x + y = HEX * u + w <=> x = u /\ y = w
      BY PartedHex
    <2>7. HEX * 0 = 0 /\ 0 + w = w
      BY <1>1, <2>3
    <2>8. Agree(i) <=> (a > z => x = u) /\ (c > z => y = w)
      BY <2>1, <2>2, <2>3
    <2>9. CASE a > z
      <3>1. c > z
        BY <2>1, <2>9
      <3> QED BY <1>8, <2>4, <2>5, <2>6, <2>8, <2>9, <3>1
    <2>10. CASE a = z
      <3>1. c > z /\ ~ (a > z)
        BY <2>1, <2>10
      <3>2. u = 0
        BY <1>6, <2>1, <2>3, <2>10
      <3>3. HEX * u + w = w
        BY <2>7, <3>2
      <3> QED BY <1>8, <2>4, <2>5, <2>6, <2>8, <2>10, <3>1, <3>3
    <2>11. CASE a < z
      <3>1. c <= z /\ ~ (a > z) /\ ~ (c > z)
        BY <2>1, <2>11
      <3>2. u = 0 /\ w = 0
        <4>1. a \in 1 .. z /\ c \in 1 .. z
          BY <2>1, <2>11, <3>1
        <4> QED BY <1>6, <2>3, <4>1
      <3>3. HEX * u + w = 0
        BY <2>7, <3>2
      <3> QED BY <1>8, <2>4, <2>5, <2>6, <2>8, <3>1, <3>3
    <2>12. a > z \/ a = z \/ a < z
      BY <2>1
    <2> QED BY <2>9, <2>10, <2>11, <2>12
  <1>10. Masked(Bytes(h), suffix) <=> \A i \in 1 .. HBYTES : Agree(i)
    BY <1>9 DEF Masked
  <1>11. (\A i \in 1 .. HBYTES : Agree(i)) <=> \A j \in z + 1 .. 2 * HBYTES : h[j] = p[j]
    <2>1. ASSUME \A i \in 1 .. HBYTES : Agree(i), NEW j \in z + 1 .. 2 * HBYTES PROVE h[j] = p[j]
      <3>1. j \in 1 .. 2 * HBYTES /\ j > z
        BY <1>1
      <3>2. PICK i \in 1 .. HBYTES : j = 2 * i \/ j = 2 * i - 1
        <4>1. HBYTES \in Nat
          BY <1>1
        <4> QED BY <3>1, <4>1, TwoDigits
      <3> QED BY <2>1, <3>1, <3>2
    <2>2. ASSUME \A j \in z + 1 .. 2 * HBYTES : h[j] = p[j], NEW i \in 1 .. HBYTES PROVE Agree(i)
      <3>1. /\ 2 * i - 1 > z => 2 * i - 1 \in z + 1 .. 2 * HBYTES
            /\ 2 * i > z => 2 * i \in z + 1 .. 2 * HBYTES
        BY <1>1
      <3> QED BY <2>2, <3>1
    <2> HIDE DEF Agree
    <2> QED BY <2>1, <2>2
  <1>12. PICK s : s = SubSeq(h, z + 1, 2 * HBYTES)
    OBVIOUS
  <1>13. s \in Seq(0 .. HEX - 1) /\ Len(s) = k /\ \A i \in 1 .. k : s[i] = h[i + z]
    <2>1. PICK n \in Nat : n = 2 * HBYTES /\ z + k = n
      BY <1>1, <1>3
    <2>2. z \in 0 .. Len(h) /\ Len(h) = n
      BY <1>3, <1>4, <2>1
    <2>3. SubSeq(h, z + 1, n) \in Seq(0 .. HEX - 1) /\ Len(SubSeq(h, z + 1, n)) = n - z
      <3>1. HEX \in Nat \ {0}
        BY <1>1
      <3> QED BY <1>4, <2>2, <3>1, Split
    <2>4. n - z = k
      BY <1>1, <2>1
    <2>5. \A i \in 1 .. k : SubSeq(h, z + 1, n)[i] = h[i + z]
      BY <1>4, <2>1, <2>2
    <2> QED BY <1>12, <2>1, <2>3, <2>4, <2>5
  <1>14. s = suffix <=> \A j \in z + 1 .. 2 * HBYTES : h[j] = p[j]
    <2>1. s = suffix <=> \A i \in 1 .. k : s[i] = suffix[i]
      <3>1. (\A i \in 1 .. k : s[i] = suffix[i]) => s = suffix
        BY <1>2, <1>13, SeqEqual
      <3> QED BY <3>1
    <2>2. \A i \in 1 .. k : p[i + z] = suffix[i]
      <3> TAKE i \in 1 .. k
      <3>1. i + z \in z + 1 .. 2 * HBYTES /\ (i + z) - z = i
        BY <1>1, <1>3
      <3> QED BY <1>6, <3>1
    <2>3. \A j \in z + 1 .. 2 * HBYTES : j - z \in 1 .. k /\ (j - z) + z = j
      BY <1>1, <1>3
    <2>4. \A i \in 1 .. k : i + z \in z + 1 .. 2 * HBYTES
      BY <1>1, <1>3
    <2>5. ASSUME \A i \in 1 .. k : s[i] = suffix[i], NEW j \in z + 1 .. 2 * HBYTES PROVE h[j] = p[j]
      <3>1. PICK i \in 1 .. k : i + z = j
        BY <2>3
      <3> QED BY <1>13, <2>2, <2>5, <3>1
    <2>6. ASSUME \A j \in z + 1 .. 2 * HBYTES : h[j] = p[j], NEW i \in 1 .. k PROVE s[i] = suffix[i]
      BY <1>13, <2>2, <2>4, <2>6
    <2> QED BY <2>1, <2>5, <2>6
  <1>15. SubSeq(h, 2 * HBYTES - Len(suffix) + 1, 2 * HBYTES) = s
    BY <1>2, <1>3, <1>12
  <1> QED BY <1>10, <1>11, <1>14, <1>15

-------------------------------------------------------------------------------
(* The bounds as entries of the table *)

\* The digits from one place to another
LEMMA Between ==
  ASSUME NEW b \in Nat \ {0}, NEW s \in Seq(0 .. b - 1), NEW m \in 0 .. Len(s), NEW k \in 0 .. m
  PROVE /\ SubSeq(s, k + 1, m) \in Seq(0 .. b - 1) /\ Len(SubSeq(s, k + 1, m)) = m - k
        /\ Number(SubSeq(s, k + 1, m), b)
             = (Number(s, b) \div Pow(b, Len(s) - m)) % Pow(b, m - k)
  <1>1. PICK p : p = SubSeq(s, 1, m)
    OBVIOUS
  <1>2. p \in Seq(0 .. b - 1) /\ Len(p) = m /\ Number(p, b) = Number(s, b) \div Pow(b, Len(s) - m)
    BY <1>1, Split, Zenon
  <1>3. k \in 0 .. Len(p) /\ m \in Nat /\ k \in Nat /\ k <= m /\ m <= Len(s) /\ Len(s) \in Nat
    BY <1>2, LenProperties
  <1>4. PICK q : q = SubSeq(p, k + 1, Len(p))
    OBVIOUS
  <1>5. q \in Seq(0 .. b - 1) /\ Len(q) = m - k /\ Number(q, b) = Number(p, b) % Pow(b, m - k)
    <2>1. q \in Seq(0 .. b - 1) /\ Len(q) = Len(p) - k
          /\ Number(q, b) = Number(p, b) % Pow(b, Len(p) - k)
      BY <1>2, <1>3, <1>4, Split, Zenon
    <2> QED BY <1>2, <2>1
  <1>6. q = SubSeq(s, k + 1, m)
    BY <1>1, <1>2, <1>3, <1>4
  <1> QED BY <1>2, <1>5, <1>6

LEMMA Shorter ==
  ASSUME NEW b \in Nat \ {0, 1}, NEW x \in Nat, NEW n \in Nat, NEW m \in Nat, n <= m, x < Pow(b, n)
  PROVE x \div Pow(b, m) = 0 /\ x % Pow(b, m) = x
  <1>1. PICK p \in Nat \ {0} : p = Pow(b, m)
    <2>1. b \in Nat \ {0}
      OBVIOUS
    <2> QED BY <2>1, PowPositive
  <1>2. Pow(b, n) \in Nat /\ Pow(b, n) <= p
    <2>1. b \in Nat
      OBVIOUS
    <2> QED BY <1>1, <2>1, PowRule, PowGrows
  <1>3. x < p
    BY <1>1, <1>2
  <1> QED BY <1>1, <1>3, Small

\* What is left of a number after so many digits are taken from its end is below a power.
LEMMA QuotientBound ==
  ASSUME NEW b \in Nat \ {0, 1}, NEW x \in Nat, NEW n \in Nat, NEW m \in Nat, x < Pow(b, m + n)
  PROVE x \div Pow(b, m) \in Nat /\ x \div Pow(b, m) < Pow(b, n)
  <1>1. b \in Nat \ {0} /\ b \in Nat
    OBVIOUS
  <1>2. PICK p \in Nat \ {0}, q \in Nat \ {0} : p = Pow(b, m) /\ q = Pow(b, n) /\ Pow(b, m + n) = p * q
    <2>1. Pow(b, m) \in Nat \ {0} /\ Pow(b, n) \in Nat \ {0}
      BY <1>1, PowPositive
    <2>2. Pow(b, m + n) = Pow(b, m) * Pow(b, n)
      BY <1>1, PowSum
    <2> QED BY <2>1, <2>2
  <1>3. x < q * p
    BY <1>2
  <1> QED BY <1>2, <1>3, Below, Divides

LEMMA DigitsBound ==
  ASSUME NEW b \in Nat \ {0, 1}, NEW x \in Nat
  PROVE /\ Digits(x, b) \in Seq(0 .. b - 1) /\ Number(Digits(x, b), b) = x
        /\ Len(Digits(x, b)) \in Nat /\ x < Pow(b, Len(Digits(x, b)))
  <1>1. Digits(x, b) \in Seq(0 .. b - 1) /\ Number(Digits(x, b), b) = x
    BY DigitsRule, NumberOfDigits
  <1>2. PICK d : d = Digits(x, b)
    OBVIOUS
  <1>3. Len(d) \in Nat
    BY <1>1, <1>2, LenProperties
  <1>4. x < Pow(b, Len(d))
    <2>1. b \in Nat \ {0} /\ d \in Seq(0 .. b - 1)
      BY <1>1, <1>2
    <2>2. Number(d, b) \in 0 .. Pow(b, Len(d)) - 1
      BY <2>1, NumberBound
    <2>3. Pow(b, Len(d)) \in Nat
      BY <1>3, <2>1, PowPositive
    <2> QED BY <1>1, <1>2, <2>2, <2>3
  <1> QED BY <1>1, <1>2, <1>3, <1>4

LEMMA HashEntryRight ==
  ASSUME NEW bound \in Nat
  PROVE /\ Len(HashEntry(bound)) = HBYTES
        /\ Number(HashEntry(bound), BYTE) = (bound \div Pow(BYTE, CheckLen)) % Pow(BYTE, HBYTES)
  <1>1. BYTE \in Nat \ {0, 1} /\ BYTE \in Nat \ {0} /\ CheckLen \in Nat \ {0} /\ HBYTES \in Nat \ {0}
    BY Base58Assumption, SearchAssumption
  <1>1a. PICK s : s = Digits(bound, BYTE)
    OBVIOUS
  <1>1b. PICK n : n = Len(s)
    OBVIOUS
  <1>2. /\ n \in Nat /\ s = Digits(bound, BYTE) /\ n = Len(s) /\ s \in Seq(0 .. BYTE - 1)
        /\ Number(s, BYTE) = bound /\ bound < Pow(BYTE, n)
    <2>1. /\ Digits(bound, BYTE) \in Seq(0 .. BYTE - 1) /\ Number(Digits(bound, BYTE), BYTE) = bound
          /\ Len(Digits(bound, BYTE)) \in Nat /\ bound < Pow(BYTE, Len(Digits(bound, BYTE)))
      BY <1>1, DigitsBound
    <2> QED BY <1>1a, <1>1b, <2>1
  <1>3. PICK copy, skip :
          /\ copy = IF n >= HBYTES + CheckLen THEN HBYTES ELSE IF n > CheckLen THEN n - CheckLen ELSE 0
          /\ skip = IF n >= HBYTES + CheckLen THEN n - (HBYTES + CheckLen) ELSE 0
    OBVIOUS
  <1>4. PICK e : e = SubSeq(s, skip + 1, skip + copy)
    OBVIOUS
  <1>5. HashEntry(bound) = Filled(e, HBYTES)
    BY <1>2, <1>3, <1>4 DEF HashEntry
  <1>6. /\ copy \in Nat /\ skip \in Nat /\ copy <= HBYTES
        /\ skip + copy \in 0 .. Len(s) /\ skip \in 0 .. skip + copy /\ (skip + copy) - skip = copy
    BY <1>1, <1>2, <1>3
  <1>7. /\ e \in Seq(0 .. BYTE - 1) /\ Len(e) = copy
        /\ Number(e, BYTE) = (bound \div Pow(BYTE, n - (skip + copy))) % Pow(BYTE, copy)
    <2>1. PICK m \in 0 .. Len(s) : m = skip + copy
      BY <1>6
    <2>1a. PICK k \in 0 .. m : k = skip
      BY <1>6, <2>1
    <2>2. /\ SubSeq(s, k + 1, m) \in Seq(0 .. BYTE - 1) /\ Len(SubSeq(s, k + 1, m)) = m - k
          /\ Number(SubSeq(s, k + 1, m), BYTE)
               = (Number(s, BYTE) \div Pow(BYTE, Len(s) - m)) % Pow(BYTE, m - k)
      BY <1>1, <1>2, Between
    <2> QED BY <1>2, <1>4, <1>6, <2>1, <2>1a, <2>2
  <1>8. Len(Filled(e, HBYTES)) = HBYTES /\ Number(Filled(e, HBYTES), BYTE) = Number(e, BYTE)
    <2>1. HBYTES \in Nat /\ Len(e) <= HBYTES
      BY <1>1, <1>6, <1>7
    <2> QED BY <1>1, <1>7, <2>1, FilledRule
  <1>9. CASE n >= HBYTES + CheckLen
    <2>1. copy = HBYTES /\ n - (skip + copy) = CheckLen
      BY <1>1, <1>2, <1>3, <1>9
    <2> QED BY <1>5, <1>7, <1>8, <2>1
  <1>10. CASE ~ (n >= HBYTES + CheckLen) /\ n > CheckLen
    <2>1. copy = n - CheckLen /\ n - (skip + copy) = CheckLen /\ CheckLen + copy = n
      BY <1>1, <1>2, <1>3, <1>10
    <2>2. PICK y \in Nat : y = bound \div Pow(BYTE, CheckLen) /\ y < Pow(BYTE, copy)
      BY <1>1, <1>2, <1>6, <2>1, QuotientBound
    <2>3. y % Pow(BYTE, copy) = y /\ y % Pow(BYTE, HBYTES) = y
      <3>1. copy <= copy /\ HBYTES \in Nat
        BY <1>1, <1>6
      <3> QED BY <1>1, <1>6, <2>2, <3>1, Shorter
    <2> QED BY <1>5, <1>7, <1>8, <2>1, <2>2, <2>3
  <1>11. CASE ~ (n > CheckLen)
    <2>1. copy = 0 /\ n <= CheckLen /\ CheckLen \in Nat
      BY <1>1, <1>2, <1>3, <1>11
    <2>2. bound \div Pow(BYTE, CheckLen) = 0
      BY <1>1, <1>2, <2>1, Shorter
    <2>3. Number(e, BYTE) = 0
      <3>1. e = <<>>
        BY <1>7, <2>1, EmptySeq
      <3> QED BY <1>1, <3>1, NumberRule
    <2>4. 0 % Pow(BYTE, HBYTES) = 0
      <3>1. HBYTES \in Nat
        BY <1>1
      <3>2. Pow(BYTE, HBYTES) \in Nat \ {0}
        BY <1>1, <3>1, PowPositive
      <3> QED BY <3>2, Small
    <2> QED BY <1>5, <1>8, <2>2, <2>3, <2>4
  <1>12. n > CheckLen \/ ~ (n > CheckLen)
    OBVIOUS
  <1> QED BY <1>9, <1>10, <1>11

LEMMA EthEntryRight ==
  ASSUME NEW bound \in Nat
  PROVE /\ Len(EthEntry(bound)) = HBYTES
        /\ bound < Pow(BYTE, HBYTES) => Number(EthEntry(bound), BYTE) = bound
  <1>1. BYTE \in Nat \ {0, 1} /\ BYTE \in Nat \ {0} /\ HBYTES \in Nat
    BY Base58Assumption, SearchAssumption
  <1>1a. PICK s : s = Digits(bound, BYTE)
    OBVIOUS
  <1>1b. PICK n : n = Len(s)
    OBVIOUS
  <1>2. /\ n \in Nat /\ s = Digits(bound, BYTE) /\ n = Len(s) /\ s \in Seq(0 .. BYTE - 1)
        /\ Number(s, BYTE) = bound
    <2>1. /\ Digits(bound, BYTE) \in Seq(0 .. BYTE - 1) /\ Number(Digits(bound, BYTE), BYTE) = bound
          /\ Len(Digits(bound, BYTE)) \in Nat /\ bound < Pow(BYTE, Len(Digits(bound, BYTE)))
      BY <1>1, DigitsBound
    <2> QED BY <1>1a, <1>1b, <2>1
  <1>3. PICK m \in 0 .. Len(s) : m = IF n >= HBYTES THEN HBYTES ELSE n
    BY <1>1, <1>2
  <1>4. PICK e : e = SubSeq(s, 1, m)
    OBVIOUS
  <1>5. EthEntry(bound) = Filled(e, HBYTES)
    BY <1>2, <1>3, <1>4 DEF EthEntry
  <1>6. e \in Seq(0 .. BYTE - 1) /\ Len(e) = m /\ s = e \o SubSeq(s, m + 1, Len(s))
    <2>1. /\ SubSeq(s, 1, m) \in Seq(0 .. BYTE - 1) /\ Len(SubSeq(s, 1, m)) = m
          /\ s = SubSeq(s, 1, m) \o SubSeq(s, m + 1, Len(s))
      <3>1. s \in Seq(0 .. BYTE - 1) /\ BYTE \in Nat \ {0}
        BY <1>1, <1>2
      <3> QED BY <3>1, Split
    <2> QED BY <1>4, <2>1
  <1>7. Len(Filled(e, HBYTES)) = HBYTES /\ Number(Filled(e, HBYTES), BYTE) = Number(e, BYTE)
    <2>1. Len(e) <= HBYTES
      BY <1>1, <1>2, <1>3, <1>6
    <2> QED BY <1>1, <1>6, <2>1, FilledRule
  <1>8. bound < Pow(BYTE, HBYTES) => Number(e, BYTE) = bound
    <2> SUFFICES ASSUME bound < Pow(BYTE, HBYTES) PROVE Number(e, BYTE) = bound
      OBVIOUS
    <2>1. n <= HBYTES
      <3>1. Len(Digits(bound, BYTE)) \in 0 .. HBYTES
        BY <1>1, DigitsFit
      <3> QED BY <1>1, <1>2, <3>1
    <2>2. m = n
      BY <1>1, <1>2, <1>3, <2>1
    <2>3. e = s
      <3>1. \A i \in 1 .. n : e[i] = s[i]
        BY <1>2, <1>4, <2>2
      <3> QED BY <1>2, <1>6, <2>2, <3>1, SeqEqual
    <2> QED BY <1>2, <2>3
  <1> QED BY <1>5, <1>7, <1>8

\* An entry has all bytes, in their places, of the hash a bound stands for, with a bound that
\* has fewer bytes than an address too.
THEOREM KernelEntryRight ==
  ASSUME NEW bound \in Nat
  PROVE EntryRight(bound)
  BY HashEntryRight, EthEntryRight DEF EntryRight

-------------------------------------------------------------------------------
(* The ranges of a prefix *)

(* Arithmetic *)

\* A quotient is the one whose multiple is next below.
LEMMA Within ==
  ASSUME NEW x \in Nat, NEW p \in Nat \ {0}, NEW q \in Nat
  PROVE x \div p = q <=> q * p <= x /\ x < (q + 1) * p
  <1>1. PICK u \in Nat, r \in 0 .. p - 1 : u = x \div p /\ x = (u * p) + r
    BY Divides
  <1>2. p \in Nat /\ q * p \in Nat /\ u * p \in Nat /\ (q + 1) * p = (q * p) + p
    BY <1>1
  <1>3. u = q => q * p <= x /\ x < (q + 1) * p
    BY <1>1, <1>2
  <1>4. ASSUME q * p <= x, x < (q + 1) * p PROVE u = q
    <2>1. x - (q * p) \in 0 .. p - 1 /\ (q * p) + (x - (q * p)) = x
      BY <1>2, <1>4
    <2>2. PICK v \in 0 .. p - 1 : (q * p) + v = (u * p) + r
      BY <1>1, <2>1
    <2> QED BY <1>1, <2>2, Unique
  <1> QED BY <1>1, <1>3, <1>4

\* Factors keep the order, and only they do.
LEMMA Factors ==
  ASSUME NEW x \in Nat, NEW y \in Nat, NEW p \in Nat \ {0}
  PROVE /\ x <= y <=> x * p <= y * p
        /\ x < y <=> x * p < y * p
        /\ x * p \in Nat /\ y * p \in Nat
  <1>1. ASSUME NEW a \in Nat, NEW b \in Nat, a < b PROVE a * p + p <= b * p /\ a * p < b * p
    <2>1. PICK d \in Nat : b = a + 1 + d
      <3>1. b - a - 1 \in Nat /\ b = a + 1 + (b - a - 1)
        BY <1>1
      <3> QED BY <3>1
    <2>2. b * p = (a * p) + p + (d * p) /\ d * p \in Nat /\ a * p \in Nat /\ p \in Nat
      BY <2>1
    <2> QED BY <2>2
  <1>2. x * p \in Nat /\ y * p \in Nat
    OBVIOUS
  <1>3. x < y \/ x = y \/ y < x
    OBVIOUS
  <1>4. CASE x < y
    BY <1>1, <1>2, <1>4
  <1>5. CASE x = y
    BY <1>2, <1>5
  <1>6. CASE y < x
    BY <1>1, <1>2, <1>6
  <1> QED BY <1>3, <1>4, <1>5, <1>6

-------------------------------------------------------------------------------
(* Digits of the bounds *)

Floored(n, d) ==
  /\ d.pow \in Nat /\ d.top \in 1 .. Base
  /\ d.top * Pow(Base, d.pow) <= n /\ n < (d.top + 1) * Pow(Base, d.pow)

LEMMA DigitsOfSteps ==
  \A m \in Nat : DigitsOf(m) = IF m > Base THEN [pow |-> DigitsOf(m \div Base).pow + 1,
                                               top |-> DigitsOf(m \div Base).top]
                               ELSE [pow |-> 0, top |-> m]
  <1>1. Base \in Nat \ {0, 1}
    BY RangesAssumption
  <1> DEFINE V == [pow : Nat, top : Nat]
             H == [m \in Nat |-> IF m > Base THEN m \div Base ELSE 0]
             G == [x \in Nat \X V |-> IF x[1] > Base THEN [pow |-> x[2].pow + 1, top |-> x[2].top]
                                      ELSE [pow |-> 0, top |-> x[1]]]
             a == [pow |-> 0, top |-> 0]
  <1>2. Descends(H)
    <2>1. ASSUME NEW m \in Nat PROVE H[m] \in Nat /\ (m # 0 => H[m] < m)
      <3>1. CASE m > Base
        <4>0. m \in Nat \ {0}
          BY <1>1, <3>1
        <4>1. m # 0 /\ m \div Base \in 0 .. m - 1
          BY <1>1, <4>0, Quotient
        <4> QED BY <3>1, <4>1
      <3>2. CASE ~ (m > Base)
        BY <3>2
      <3> QED BY <3>1, <3>2
    <2>2. H = [m \in Nat |-> H[m]]
      OBVIOUS
    <2> HIDE DEF H
    <2> QED BY <2>1, <2>2 DEF Descends
  <1>3. G \in Steps(V) /\ a \in V
    BY DEF Steps
  <1>4. PICK p : Defined(p, V, a, H, G)
    <2> HIDE DEF V, H, G, a
    <2> QED BY <1>2, <1>3, Recursion
  <1>5. p \in [Nat -> V] /\ p[0] = a /\ \A m \in Nat \ {0} : p[m] = G[<<m, p[H[m]]>>]
    BY <1>4 DEF Defined
  <1>6. \A m \in Nat : p[m] = IF m > Base THEN [pow |-> p[m \div Base].pow + 1, top |-> p[m \div Base].top]
                              ELSE [pow |-> 0, top |-> m]
    <2> TAKE m \in Nat
    <2>1. CASE m = 0
      BY <1>1, <1>5, <2>1
    <2>2. CASE m # 0
      <3>1. p[m] = G[<<m, p[H[m]]>>]
        BY <1>5, <2>2
      <3>2. H[m] \in Nat
        BY <1>2 DEF Descends
      <3>3. p[H[m]] \in V
        BY <1>5, <3>2
      <3>4. p[m] = IF m > Base THEN [pow |-> p[H[m]].pow + 1, top |-> p[H[m]].top]
                   ELSE [pow |-> 0, top |-> m]
        BY <3>1, <3>3
      <3> QED BY <3>4
    <2> QED BY <2>1, <2>2
  <1> HIDE DEF V, H, G, a
  <1> DEFINE d == CHOOSE d : d = [m \in Nat |-> IF m > Base THEN [pow |-> d[m \div Base].pow + 1,
                                                             top |-> d[m \div Base].top]
                                              ELSE [pow |-> 0, top |-> m]]
  <1>7. d = [m \in Nat |-> IF m > Base THEN [pow |-> d[m \div Base].pow + 1, top |-> d[m \div Base].top]
                           ELSE [pow |-> 0, top |-> m]]
    <2>1. p = [m \in Nat |-> p[m]]
      BY <1>5
    <2>2. p = [m \in Nat |-> IF m > Base THEN [pow |-> p[m \div Base].pow + 1, top |-> p[m \div Base].top]
                             ELSE [pow |-> 0, top |-> m]]
      BY <1>6, <2>1
    <2>3. \E r : r = [m \in Nat |-> IF m > Base THEN [pow |-> r[m \div Base].pow + 1, top |-> r[m \div Base].top]
                             ELSE [pow |-> 0, top |-> m]]
      BY <2>2
    <2> QED BY <2>3, Zenon
  <1>8. \A m : DigitsOf(m) = d[m]
    BY DEF DigitsOf
  <1> HIDE DEF d
  <1>9. \A m \in Nat : d[m] = IF m > Base THEN [pow |-> d[m \div Base].pow + 1, top |-> d[m \div Base].top]
                              ELSE [pow |-> 0, top |-> m]
    BY <1>7
  <1> QED BY <1>8, <1>9

\* What b58pow and b58ceil are: the number lies between its first digit, then zeros, and the next.
LEMMA DigitsOfRule ==
  ASSUME NEW n \in Nat \ {0}
  PROVE Floored(n, DigitsOf(n))
  <1>1. Base \in Nat \ {0, 1}
    BY RangesAssumption
  <1> DEFINE S == {m \in Nat : m # 0 => Floored(m, DigitsOf(m))}
  <1>2. ASSUME NEW m \in Nat, \A i \in 0 .. m - 1 : i \in S PROVE m \in S
    <2> SUFFICES ASSUME m # 0 PROVE Floored(m, DigitsOf(m))
      OBVIOUS
    <2>1. CASE ~ (m > Base)
      <3>1. DigitsOf(m) = [pow |-> 0, top |-> m]
        BY <2>1, DigitsOfSteps
      <3>2. Pow(Base, 0) = 1
        <4>1. Base \in Nat
          BY <1>1
        <4> QED BY <4>1, PowRule
      <3>3. m \in 1 .. Base /\ m * 1 <= m /\ m < (m + 1) * 1 /\ 0 \in Nat
        BY <1>1, <2>1
      <3> QED BY <3>1, <3>2, <3>3 DEF Floored
    <2>2. CASE m > Base
      <3>1. PICK q \in Nat : q = m \div Base /\ q \in 0 .. m - 1
        <4>1. m \in Nat \ {0}
          OBVIOUS
        <4>2. m \div Base \in 0 .. m - 1
          BY <1>1, <4>1, Quotient
        <4>3. m \div Base \in Nat
          BY <4>2
        <4> QED BY <4>2, <4>3
      <3>2. q # 0
        <4>1. 1 * Base <= m /\ Base \in Nat \ {0} /\ 1 \in Nat
          BY <1>1, <2>2
        <4>2. 1 <= m \div Base
          BY <4>1, AtLeast
        <4> QED BY <3>1, <4>2
      <3>3. Floored(q, DigitsOf(q))
        BY <1>2, <3>1, <3>2
      <3>4. PICK k \in Nat, t \in 1 .. Base : k = DigitsOf(q).pow /\ t = DigitsOf(q).top
                                             /\ t * Pow(Base, k) <= q /\ q < (t + 1) * Pow(Base, k)
        BY <3>3 DEF Floored
      <3>5. DigitsOf(m) = [pow |-> k + 1, top |-> t]
        BY <2>2, <3>1, <3>4, DigitsOfSteps
      <3>6. PICK p \in Nat \ {0} : p = Pow(Base, k) /\ Pow(Base, k + 1) = Base * p
        <4>1. Base \in Nat /\ Base \in Nat \ {0}
          BY <1>1
        <4> QED BY <4>1, PowRule, PowPositive
      <3>7. PICK u \in Nat, r \in 0 .. Base - 1 : u = q /\ m = (u * Base) + r
        <4>1. Base \in Nat \ {0}
          BY <1>1
        <4> QED BY <3>1, <4>1, Divides
      <3>8. t \in Nat /\ t + 1 \in Nat /\ Base \in Nat /\ Base \in Nat \ {0}
        BY <1>1
      <3>9. (t * p) * Base = t * (Base * p) /\ ((t + 1) * p) * Base = (t + 1) * (Base * p)
        BY <3>6, <3>8
      <3>10. t * (Base * p) <= m
        <4>1. PICK x \in Nat : x = t * p /\ x <= q
          BY <3>4, <3>6, <3>8
        <4>2. x * Base <= q * Base /\ x * Base \in Nat /\ q * Base \in Nat
          BY <3>8, <4>1, Factors
        <4> QED BY <3>7, <3>9, <4>1, <4>2
      <3>11. m < (t + 1) * (Base * p)
        <4>1. PICK y \in Nat : y = (t + 1) * p /\ q < y
          BY <3>4, <3>6, <3>8
        <4>2. q * Base + r < y * Base
          BY <3>8, <4>1, Carry
        <4> QED BY <3>7, <3>9, <4>1, <4>2
      <3>12. /\ DigitsOf(m).pow = k + 1 /\ DigitsOf(m).top = t
             /\ k + 1 \in Nat /\ t \in 1 .. Base
        BY <3>5
      <3>13. /\ t * Pow(Base, k + 1) <= m /\ m < (t + 1) * Pow(Base, k + 1)
        BY <3>6, <3>10, <3>11
      <3> QED BY <3>12, <3>13 DEF Floored
    <2> QED BY <2>1, <2>2
  <1>3. n \in S
    <2> HIDE DEF S
    <2> QED BY <1>2, Induction
  <1> QED BY <1>3

-------------------------------------------------------------------------------
(* Numbers that begin with digits *)

\* A number has so many digits and begins with some of them exactly if it is between two bounds.
IsBegun(x, b, s, n) ==
  x \div Pow(b, n - Len(s)) = Number(s, b)
    <=> Len(Digits(x, b)) = n /\ SubSeq(Digits(x, b), 1, Len(s)) = s

LEMMA Begins ==
  ASSUME NEW b \in Nat \ {0, 1}, NEW s \in Seq(0 .. b - 1), s # <<>>, s[1] # 0,
         NEW n \in Nat, Len(s) <= n, NEW x \in Nat
  PROVE IsBegun(x, b, s, n)
  <1>1. b \in Nat \ {0} /\ b \in Nat
    OBVIOUS
  <1>2. PICK m \in Nat : m = Len(s) /\ m # 0 /\ n - m \in Nat
    <2>1. Len(s) \in Nat /\ Len(s) # 0
      BY LenProperties, EmptySeq
    <2> QED BY <2>1
  <1>3. PICK v \in Nat : v = Number(s, b)
    BY <1>1, DigitsAreNumbers
  <1>4. PICK d \in Seq(0 .. b - 1) : d = Digits(x, b)
    BY DigitsRule
  <1>5. d \in Seq(0 .. b - 1) /\ Number(d, b) = x /\ Len(d) \in Nat
    BY <1>4, NumberOfDigits, LenProperties
  <1>5a. \A l \in 0 .. Len(d) :
           /\ SubSeq(d, 1, l) \in Seq(0 .. b - 1) /\ Len(SubSeq(d, 1, l)) = l
           /\ Number(SubSeq(d, 1, l), b) = Number(d, b) \div Pow(b, Len(d) - l)
    BY <1>1, Front
  <1>6. PICK p \in Nat \ {0} : p = Pow(b, n - m)
    BY <1>1, <1>2, PowPositive
  <1>7. ASSUME Len(d) = n, SubSeq(d, 1, m) = s PROVE x \div p = v
    <2>1. m \in 0 .. Len(d)
      BY <1>2, <1>7
    <2>2. Number(SubSeq(d, 1, m), b) = Number(d, b) \div Pow(b, Len(d) - m)
      BY <1>5a, <2>1
    <2> QED BY <1>3, <1>5, <1>6, <1>7, <2>2
  <1>8. ASSUME x \div p = v PROVE Len(d) = n /\ SubSeq(d, 1, m) = s
    <2>1. v * p <= x /\ x < (v + 1) * p
      BY <1>8, Within
    <2>2. Canonical(s) /\ Digits(v, b) = s
      <3>1. Canonical(s)
        BY DEF Canonical
      <3> QED BY <1>3, <3>1, DigitsOfNumber
    <2>3. v # 0
      <3>1. Digits(0, b) = <<>>
        BY DigitsRule
      <3> QED BY <2>2, <3>1
    <2>4. PICK e \in Nat, f \in Nat : e = Pow(b, m - 1) /\ f = Pow(b, m) /\ e <= v /\ v < f
      <3>1. m - 1 \in Nat
        BY <1>2
      <3>2. Pow(b, m - 1) \in Nat /\ Pow(b, m) \in Nat
        BY <1>1, <3>1, PowRule
      <3>3. v \in Nat \ {0}
        BY <2>3
      <3>4. Pow(b, Len(Digits(v, b)) - 1) <= v /\ v < Pow(b, Len(Digits(v, b)))
        BY <3>3, DigitsBetween
      <3> QED BY <1>2, <2>2, <3>2, <3>4
    <2>5. Pow(b, n - 1) = e * p /\ Pow(b, n) = f * p
      <3>1. m - 1 \in Nat /\ (m - 1) + (n - m) = n - 1 /\ m + (n - m) = n
        BY <1>2
      <3>2. Pow(b, (m - 1) + (n - m)) = Pow(b, m - 1) * Pow(b, n - m)
        <4>1. PICK i \in Nat, j \in Nat : i = m - 1 /\ j = n - m
          BY <1>2, <3>1
        <4>2. Pow(b, i + j) = Pow(b, i) * Pow(b, j)
          BY <1>1, PowSum
        <4> QED BY <4>1, <4>2
      <3>3. Pow(b, m + (n - m)) = Pow(b, m) * Pow(b, n - m)
        BY <1>1, <1>2, PowSum, Zenon
      <3> QED BY <1>6, <2>4, <3>1, <3>2, <3>3
    <2>6. e * p <= v * p /\ (v + 1) * p <= f * p /\ e * p \in Nat /\ f * p \in Nat /\ v * p \in Nat
          /\ (v + 1) * p \in Nat
      <3>1. v + 1 \in Nat /\ v + 1 <= f
        BY <2>4
      <3> QED BY <2>4, <3>1, Factors
    <2>7. Pow(b, n - 1) <= x /\ x < Pow(b, n)
      <3>1. PICK g \in Nat, h \in Nat, i \in Nat, j \in Nat :
              g = e * p /\ h = f * p /\ i = v * p /\ j = (v + 1) * p /\ g <= i /\ j <= h
        BY <2>6
      <3>2. g <= x /\ x < h
        BY <2>1, <3>1
      <3> QED BY <2>5, <3>1, <3>2
    <2>8. Len(d) = n
      <3>1. PICK l \in Nat : l = n - 1 /\ l + 1 = n
        <4>1. n - 1 \in Nat /\ (n - 1) + 1 = n
          BY <1>2
        <4> QED BY <4>1
      <3>2. Len(Digits(x, b)) = l + 1
        BY <2>7, <3>1, DigitsCount
      <3> QED BY <1>4, <3>1, <3>2
    <2>9. m \in 0 .. Len(d)
      BY <1>2, <2>8
    <2>10. SubSeq(d, 1, m) \in Seq(0 .. b - 1) /\ Len(SubSeq(d, 1, m)) = m
           /\ Number(SubSeq(d, 1, m), b) = Number(d, b) \div Pow(b, Len(d) - m)
      BY <1>5a, <2>9
    <2>11. PICK u : u = SubSeq(d, 1, m)
      OBVIOUS
    <2>12. u \in Seq(0 .. b - 1) /\ Len(u) = Len(s) /\ Number(u, b) = Number(s, b)
      BY <1>2, <1>3, <1>5, <1>6, <1>8, <2>8, <2>10, <2>11
    <2>13. u = s
      BY <1>1, <2>12, SameNumber
    <2> QED BY <2>8, <2>11, <2>13
  <1> QED BY <1>2, <1>3, <1>4, <1>6, <1>7, <1>8 DEF IsBegun

-------------------------------------------------------------------------------
(* How addresses are written *)

\* A part of a sequence, element by element
LEMMA Starts ==
  ASSUME NEW V, NEW w \in Seq(V), NEW p \in Seq(V)
  PROVE (Len(w) >= Len(p) /\ SubSeq(w, 1, Len(p)) = p)
          <=> (Len(w) >= Len(p) /\ \A i \in 1 .. Len(p) : w[i] = p[i])
  <1> SUFFICES ASSUME Len(w) >= Len(p)
               PROVE SubSeq(w, 1, Len(p)) = p <=> \A i \in 1 .. Len(p) : w[i] = p[i]
    OBVIOUS
  <1>1. PICK n \in Nat, m \in Nat : n = Len(p) /\ m = Len(w) /\ n <= m
    BY LenProperties
  <1>2. PICK u : u = SubSeq(w, 1, n)
    OBVIOUS
  <1>3. u \in Seq(V) /\ Len(u) = n /\ \A i \in 1 .. n : u[i] = w[i]
    BY <1>1, <1>2
  <1>4. (\A i \in 1 .. n : u[i] = p[i]) => u = p
    BY <1>1, <1>3, SeqEqual
  <1> QED BY <1>1, <1>2, <1>3, <1>4

Shifts(z, l, m, n) ==
  /\ z + l >= n <=> l >= m
  /\ \A j \in 1 .. m : z + j \in 1 .. n /\ (l >= m => j \in 1 .. l)
  /\ \A i \in 1 .. n : i <= z \/ \E j \in 1 .. m : z + j = i

LEMMA Shifted ==
  ASSUME NEW z \in Nat, NEW l \in Nat, NEW m \in Nat, NEW n \in Nat, z + m = n
  PROVE Shifts(z, l, m, n)
  <1>1. ASSUME NEW i \in 1 .. n, ~ (i <= z) PROVE \E j \in 1 .. m : z + j = i
    <2>1. i - z \in 1 .. m /\ z + (i - z) = i
      BY <1>1
    <2> QED BY <2>1
  <1> QED BY <1>1 DEF Shifts

IsRest(s, p, z, n) == s \in Seq(Nat) /\ Len(s) = n - z /\ \A j \in 1 .. n - z : s[j] = p[z + j]

LEMMA Rest ==
  ASSUME NEW p \in Seq(Nat), NEW n \in Nat, n = Len(p), NEW z \in Nat, z < n,
         NEW s, s = SubSeq(p, z + 1, n)
  PROVE IsRest(s, p, z, n)
  <1>1. s \in Seq(Nat) /\ Len(s) = n - z
    OBVIOUS
  <1>2. ASSUME NEW j \in 1 .. n - z PROVE s[j] = p[z + j]
    <2>1. (z + 1) + j - 1 = z + j
      OBVIOUS
    <2> QED BY <2>1
  <1> QED BY <1>1, <1>2 DEF IsRest

\* A prefix with so many zeros, and zeros and digits
SameBeginning(p, z, d, y) ==
  LET w == Repeat(0, y) \o d
      s == SubSeq(p, z + 1, Len(p))
  IN (Len(w) >= Len(p) /\ SubSeq(w, 1, Len(p)) = p)
       <=> (y = z /\ Len(d) >= Len(s) /\ SubSeq(d, 1, Len(s)) = s)

\* Zeros and digits begin with a prefix exactly if the zeros are as many and the digits begin
\* with the others.
LEMMA ZerosAlike ==
  ASSUME NEW p \in Seq(Nat), NEW z \in Nat, z = Leading(p), z < Len(p),
         NEW d \in Seq(Nat), Canonical(d), NEW y \in Nat
  PROVE SameBeginning(p, z, d, y)
  <1>1. PICK n \in Nat : n = Len(p) /\ z < n
    BY LenProperties
  <1>2. (\A i \in 1 .. z : p[i] = 0) /\ p[z + 1] # 0
    <2>1. Leading(p) = Len(p) \/ p[Leading(p) + 1] # 0
      BY LeadingRule
    <2>2. \A i \in 1 .. Leading(p) : p[i] = 0
      BY LeadingRule
    <2> QED BY <1>1, <2>1, <2>2
  <1>3. PICK q \in Seq(Nat) : q = Repeat(0, y) /\ Len(q) = y /\ \A i \in 1 .. y : q[i] = 0
    BY Repeated
  <1>4. PICK l \in Nat : l = Len(d)
    BY LenProperties
  <1>5. PICK w \in Seq(Nat) : w = q \o d
    BY ConcatProperties
  <1>6. Len(w) = y + l /\ \A i \in 1 .. y + l : w[i] = IF i <= y THEN q[i] ELSE d[i - y]
    <2>1. Len(w) = Len(q) + Len(d)
          /\ \A i \in 1 .. Len(q) + Len(d) : w[i] = IF i <= Len(q) THEN q[i] ELSE d[i - Len(q)]
      BY <1>5, ConcatProperties
    <2> QED BY <1>3, <1>4, <2>1
  <1>7. /\ \A i \in 1 .. y : w[i] = 0
        /\ \A j \in 1 .. l : w[y + j] = d[j]
    <2>1. \A i \in 1 .. y : i \in 1 .. y + l /\ i <= y
      OBVIOUS
    <2>2. \A j \in 1 .. l : y + j \in 1 .. y + l /\ ~ (y + j <= y) /\ (y + j) - y = j
      OBVIOUS
    <2> QED BY <1>3, <1>6, <2>1, <2>2
  <1>8. l # 0 => d[1] # 0
    <2>1. l # 0 => d # <<>>
      BY <1>4, EmptySeq
    <2> QED BY <2>1 DEF Canonical
  <1>9. PICK s \in Seq(Nat) : /\ s = SubSeq(p, z + 1, n) /\ Len(s) = n - z
                              /\ \A j \in 1 .. n - z : s[j] = p[z + j]
    <2>1. PICK s : s = SubSeq(p, z + 1, n)
      OBVIOUS
    <2>2. s \in Seq(Nat) /\ Len(s) = n - z /\ \A j \in 1 .. n - z : s[j] = p[z + j]
      <3>1. IsRest(s, p, z, n)
        BY <1>1, <2>1, Rest
      <3> QED BY <3>1 DEF IsRest
    <2> QED BY <2>1, <2>2
  <1>10. PICK m \in Nat : m = n - z /\ m > 0 /\ z + m = n
    <2>1. n - z \in Nat /\ n - z > 0 /\ z + (n - z) = n
      BY <1>1
    <2> QED BY <2>1
  <1>10a. Shifts(z, l, m, n)
    BY <1>10, Shifted
  <1>11. ASSUME y + l >= n, \A i \in 1 .. n : w[i] = p[i] PROVE y = z
    <2>1. y > z => FALSE
      <3>1. y > z => z + 1 \in 1 .. y /\ z + 1 \in 1 .. n
        BY <1>1
      <3> QED BY <1>2, <1>7, <1>11, <3>1
    <2>2. y < z => FALSE
      <3>1. y < z => y + 1 \in 1 .. z /\ y + 1 \in 1 .. n /\ 1 \in 1 .. l /\ l # 0
        BY <1>1, <1>11
      <3> QED BY <1>2, <1>7, <1>8, <1>11, <3>1
    <2> QED BY <2>1, <2>2
  <1>12. ASSUME y = z
         PROVE (y + l >= n /\ \A i \in 1 .. n : w[i] = p[i]) <=> (l >= m /\ \A j \in 1 .. m : d[j] = s[j])
    <2>1. y + l >= n <=> l >= m
      BY <1>10a, <1>12 DEF Shifts
    <2>2. ASSUME l >= m, \A i \in 1 .. n : w[i] = p[i], NEW j \in 1 .. m PROVE d[j] = s[j]
      <3>1. j \in 1 .. l /\ z + j \in 1 .. n /\ j \in 1 .. n - z
        BY <1>10, <1>10a, <2>2 DEF Shifts
      <3> QED BY <1>7, <1>9, <1>12, <2>2, <3>1
    <2>3. ASSUME l >= m, \A j \in 1 .. m : d[j] = s[j], NEW i \in 1 .. n PROVE w[i] = p[i]
      <3>1. CASE i <= z
        <4>1. i \in 1 .. z
          BY <3>1
        <4> QED BY <1>2, <1>7, <1>12, <4>1
      <3>2. CASE ~ (i <= z)
        <4>1. PICK j \in 1 .. m : z + j = i
          BY <1>10a, <3>2 DEF Shifts
        <4>2. j \in 1 .. l /\ j \in 1 .. n - z
          BY <1>10, <1>10a, <2>3 DEF Shifts
        <4>3. w[z + j] = d[j] /\ d[j] = s[j] /\ s[j] = p[z + j]
          BY <1>7, <1>9, <1>12, <2>3, <4>2
        <4> QED BY <4>1, <4>3
      <3> QED BY <3>1, <3>2
    <2> QED BY <2>1, <2>2, <2>3
  <1>13. Len(w) >= Len(p) /\ SubSeq(w, 1, Len(p)) = p <=> y + l >= n /\ \A i \in 1 .. n : w[i] = p[i]
    <2>1. (Len(w) >= Len(p) /\ SubSeq(w, 1, Len(p)) = p)
            <=> (Len(w) >= Len(p) /\ \A i \in 1 .. Len(p) : w[i] = p[i])
      BY Starts
    <2> QED BY <1>1, <1>6, <2>1
  <1>14. Len(d) >= Len(s) /\ SubSeq(d, 1, Len(s)) = s <=> l >= m /\ \A j \in 1 .. m : d[j] = s[j]
    <2>1. (Len(d) >= Len(s) /\ SubSeq(d, 1, Len(s)) = s)
            <=> (Len(d) >= Len(s) /\ \A i \in 1 .. Len(s) : d[i] = s[i])
      BY Starts
    <2> QED BY <1>4, <1>9, <1>10, <2>1
  <1>15. Len(w) >= Len(p) /\ SubSeq(w, 1, Len(p)) = p
             <=> y = z /\ Len(d) >= Len(s) /\ SubSeq(d, 1, Len(s)) = s
    BY <1>11, <1>12, <1>13, <1>14
  <1> QED BY <1>1, <1>3, <1>5, <1>9, <1>15 DEF SameBeginning

\* An address of the length is written with a prefix exactly if it has as many leading zero
\* bytes and its digits begin with the others of the prefix.
LEMMA SpeltRule ==
  ASSUME NEW pfx \in Seq(0 .. Base - 1), NEW z \in Nat, z = Zeros(pfx), z < Len(pfx), z < AddrLen,
         NEW x \in Nat, x < Pow(Byte, AddrLen)
  PROVE LET s == SubSeq(pfx, z + 1, Len(pfx))
            d == Digits(x, Base)
        IN Spelt(x, pfx) <=> /\ Floor(z) <= x /\ x <= Ceil(z)
                             /\ Len(d) >= Len(s) /\ SubSeq(d, 1, Len(s)) = s
  <1>1. Base \in Nat \ {0, 1} /\ Byte \in Nat \ {0, 1} /\ AddrLen \in Nat \ {0}
    BY RangesAssumption
  <1>2. PICK n \in Nat : n = Len(Digits(x, Byte)) /\ n <= AddrLen
    <2>1. Len(Digits(x, Byte)) \in 0 .. AddrLen
      BY <1>1, DigitsFit
    <2>2. Len(Digits(x, Byte)) \in Nat /\ Len(Digits(x, Byte)) <= AddrLen
      BY <1>1, <2>1
    <2> QED BY <2>2
  <1>3. PICK y \in Nat : y = AddrLen - n
    <2>1. AddrLen - n \in Nat
      BY <1>1, <1>2
    <2> QED BY <2>1
  <1>4. PICK d \in Seq(Nat) : d = Digits(x, Base) /\ Canonical(d)
    <2>1. Digits(x, Base) \in Seq(0 .. Base - 1) /\ Canonical(Digits(x, Base)) /\ Base \in Nat
      BY <1>1, DigitsRule, DigitsCanonical
    <2>2. Digits(x, Base) \in Seq(Nat)
      BY <2>1, DigitsAreNumbers
    <2> QED BY <2>1, <2>2
  <1>5. Written(x) = Repeat(0, y) \o d
    BY <1>2, <1>3, <1>4 DEF Written
  <1>6. pfx \in Seq(Nat) /\ z = Leading(pfx)
    <2>1. Base \in Nat
      BY <1>1
    <2> QED BY <2>1, DigitsAreNumbers DEF Zeros
  <1>7. Spelt(x, pfx) <=> /\ Len(Repeat(0, y) \o d) >= Len(pfx)
                          /\ SubSeq(Repeat(0, y) \o d, 1, Len(pfx)) = pfx
    BY <1>5 DEF Spelt
  <1>8. Spelt(x, pfx) <=> /\ y = z
                          /\ Len(d) >= Len(SubSeq(pfx, z + 1, Len(pfx)))
                          /\ SubSeq(d, 1, Len(SubSeq(pfx, z + 1, Len(pfx)))) = SubSeq(pfx, z + 1, Len(pfx))
    <2>1. PICK w, s : w = Repeat(0, y) \o d /\ s = SubSeq(pfx, z + 1, Len(pfx))
      OBVIOUS
    <2>2. (Len(w) >= Len(pfx) /\ SubSeq(w, 1, Len(pfx)) = pfx)
             <=> (y = z /\ Len(d) >= Len(s) /\ SubSeq(d, 1, Len(s)) = s)
      <3>1. (Len(Repeat(0, y) \o d) >= Len(pfx) /\ SubSeq(Repeat(0, y) \o d, 1, Len(pfx)) = pfx)
              <=> (y = z /\ Len(d) >= Len(SubSeq(pfx, z + 1, Len(pfx)))
                   /\ SubSeq(d, 1, Len(SubSeq(pfx, z + 1, Len(pfx)))) = SubSeq(pfx, z + 1, Len(pfx)))
        <4>1. SameBeginning(pfx, z, d, y)
          BY <1>4, <1>6, ZerosAlike
        <4> QED BY <4>1 DEF SameBeginning
      <3> QED BY <2>1, <3>1
    <2> QED BY <1>7, <2>1, <2>2
  <1>9. y = z <=> Floor(z) <= x /\ x <= Ceil(z)
    <2>1. PICK k \in Nat : k = AddrLen - 1 - z /\ AddrLen - z = k + 1 /\ (y = z <=> n = k + 1)
      <3>1. AddrLen - 1 - z \in Nat /\ AddrLen - z = (AddrLen - 1 - z) + 1
            /\ (y = z <=> n = (AddrLen - 1 - z) + 1)
        BY <1>1, <1>2, <1>3
      <3> QED BY <3>1
    <2>2. PICK f \in Nat, c \in Nat : f = Pow(Byte, k) /\ c = Pow(Byte, k + 1)
      <3>1. Byte \in Nat /\ k + 1 \in Nat
        BY <1>1
      <3> QED BY <3>1, PowRule
    <2>3. Floor(z) = f /\ Ceil(z) = c - 1
      BY <2>1, <2>2 DEF Floor, Ceil
    <2>4. ASSUME n = k + 1 PROVE f <= x /\ x < c
      <3>1. x # 0
        <4>1. SUFFICES ASSUME x = 0 PROVE FALSE
          OBVIOUS
        <4>2. Digits(0, Byte) = <<>>
          BY <1>1, DigitsRule
        <4>3. n = 0
          BY <1>2, <4>1, <4>2, EmptySeq
        <4> QED BY <2>4, <4>3
      <3>2. Pow(Byte, n - 1) <= x /\ x < Pow(Byte, n)
        <4>1. x \in Nat \ {0}
          BY <3>1
        <4> QED BY <1>1, <1>2, <4>1, DigitsBetween
      <3>3. n - 1 = k
        BY <2>4
      <3> QED BY <2>2, <2>4, <3>2, <3>3
    <2>5. ASSUME f <= x, x < c PROVE n = k + 1
      BY <1>1, <1>2, <2>2, <2>5, DigitsCount
    <2>6. x <= c - 1 <=> x < c
      OBVIOUS
    <2> QED BY <2>1, <2>3, <2>4, <2>5, <2>6
  <1> QED BY <1>4, <1>8, <1>9

-------------------------------------------------------------------------------
(* Sequences of ranges *)

Pairs == Nat \X Nat

LEMMA NoneOrOne ==
  ASSUME NEW x \in Nat, NEW l \in Nat, NEW h \in Nat
  PROVE /\ ~ InRanges(x, <<>>)
        /\ InRanges(x, << <<l, h>> >>) <=> l <= x /\ x <= h
  <1>1. Len(<<>>) = 0 /\ 1 .. 0 = {}
    OBVIOUS
  <1>2. Len(<< <<l, h>> >>) = 1 /\ 1 .. 1 = {1} /\ << <<l, h>> >>[1] = <<l, h>>
    OBVIOUS
  <1> QED BY <1>1, <1>2 DEF InRanges

LEMMA Singleton ==
  ASSUME NEW l \in Nat, NEW h \in Nat
  PROVE << <<l, h>> >> \in Seq(Pairs) /\ Len(<< <<l, h>> >>) = 1 /\ << <<l, h>> >> # <<>>
  <1>1. PICK p \in Pairs : p = <<l, h>>
    BY DEF Pairs
  <1>2. <<p>> \in Seq(Pairs) /\ Len(<<p>>) = 1
    OBVIOUS
  <1>3. Len(<<>>) = 0
    OBVIOUS
  <1> QED BY <1>1, <1>2, <1>3

LEMMA Joined ==
  ASSUME NEW a \in Seq(Pairs), NEW b \in Seq(Pairs), NEW x \in Nat
  PROVE InRanges(x, a \o b) <=> InRanges(x, a) \/ InRanges(x, b)
  <1>1. PICK l \in Nat, m \in Nat : l = Len(a) /\ m = Len(b)
    BY LenProperties
  <1>2. PICK c : c = a \o b
    OBVIOUS
  <1>3. Len(c) = l + m /\ \A i \in 1 .. l + m : c[i] = IF i <= l THEN a[i] ELSE b[i - l]
    BY <1>1, <1>2, ConcatProperties
  <1>4. ASSUME InRanges(x, c) PROVE InRanges(x, a) \/ InRanges(x, b)
    <2>1. PICK k \in 1 .. l + m : c[k][1] <= x /\ x <= c[k][2]
      BY <1>3, <1>4 DEF InRanges
    <2>2. CASE k <= l
      <3>1. k \in 1 .. l /\ c[k] = a[k]
        BY <1>3, <2>2
      <3> QED BY <1>1, <2>1, <3>1 DEF InRanges
    <2>3. CASE ~ (k <= l)
      <3>1. k - l \in 1 .. m /\ c[k] = b[k - l]
        BY <1>3, <2>3
      <3> QED BY <1>1, <2>1, <3>1 DEF InRanges
    <2> QED BY <2>2, <2>3
  <1>5. ASSUME InRanges(x, a) PROVE InRanges(x, c)
    <2>1. PICK k \in 1 .. l : a[k][1] <= x /\ x <= a[k][2]
      BY <1>1, <1>5 DEF InRanges
    <2>2. k \in 1 .. l + m /\ c[k] = a[k]
      BY <1>3
    <2> QED BY <1>3, <2>1, <2>2 DEF InRanges
  <1>6. ASSUME InRanges(x, b) PROVE InRanges(x, c)
    <2>1. PICK k \in 1 .. m : b[k][1] <= x /\ x <= b[k][2]
      BY <1>1, <1>6 DEF InRanges
    <2>2. l + k \in 1 .. l + m /\ ~ (l + k <= l) /\ (l + k) - l = k
      OBVIOUS
    <2>3. c[l + k] = b[k]
      BY <1>3, <2>2
    <2> QED BY <1>3, <2>1, <2>2, <2>3 DEF InRanges
  <1> QED BY <1>2, <1>4, <1>5, <1>6

\* Ends of ranges within bounds
Ends(rs, low, high) ==
  \A k \in 1 .. Len(rs) : {rs[k][1], rs[k][2]} \subseteq low .. high

LEMMA EndsJoined ==
  ASSUME NEW a \in Seq(Pairs), NEW b \in Seq(Pairs), NEW low, NEW high,
         Ends(a, low, high), Ends(b, low, high)
  PROVE Ends(a \o b, low, high)
  <1>1. PICK l \in Nat, m \in Nat : l = Len(a) /\ m = Len(b)
    BY LenProperties
  <1>2. PICK c : c = a \o b
    OBVIOUS
  <1>3. Len(c) = l + m /\ \A i \in 1 .. l + m : c[i] = IF i <= l THEN a[i] ELSE b[i - l]
    BY <1>1, <1>2, ConcatProperties
  <1>4. ASSUME NEW k \in 1 .. l + m PROVE {c[k][1], c[k][2]} \subseteq low .. high
    <2>1. CASE k <= l
      <3>1. k \in 1 .. l /\ c[k] = a[k]
        BY <1>3, <2>1
      <3> QED BY <1>1, <3>1 DEF Ends
    <2>2. CASE ~ (k <= l)
      <3>1. k - l \in 1 .. m /\ c[k] = b[k - l]
        BY <1>3, <2>2
      <3> QED BY <1>1, <3>1 DEF Ends
    <2> QED BY <2>1, <2>2
  <1> QED BY <1>2, <1>3, <1>4 DEF Ends

\* What is left of a range is what lies in both.
LEMMA MeetRule ==
  ASSUME NEW r \in Pairs, NEW low \in Nat, NEW high \in Nat, low <= high
  PROVE /\ Meet(r, low, high) \in Seq(Pairs)
        /\ Ends(Meet(r, low, high), low, high)
        /\ \A x \in Nat : InRanges(x, Meet(r, low, high))
                            <=> r[1] <= x /\ x <= r[2] /\ low <= x /\ x <= high
  <1>1. PICK p \in Nat, q \in Nat : r = <<p, q>> /\ r[1] = p /\ r[2] = q
    BY DEF Pairs
  <1>2. CASE q < low \/ high < p
    <2>1. Meet(r, low, high) = <<>>
      BY <1>1, <1>2 DEF Meet
    <2>2. <<>> \in Seq(Pairs) /\ Ends(<<>>, low, high)
      BY DEF Ends
    <2>3. \A x \in Nat : ~ (p <= x /\ x <= q /\ low <= x /\ x <= high)
      BY <1>2
    <2> QED BY <1>1, <2>1, <2>2, <2>3, NoneOrOne
  <1>3. CASE ~ (q < low \/ high < p)
    <2>1. PICK u \in Nat, v \in Nat : u = Greater(p, low) /\ v = Lesser(q, high)
      BY DEF Greater, Lesser
    <2>2. Meet(r, low, high) = << <<u, v>> >>
      BY <1>1, <1>3, <2>1 DEF Meet
    <2>3. u \in low .. high /\ v \in low .. high
      BY <1>3, <2>1 DEF Greater, Lesser
    <2>4. << <<u, v>> >> \in Seq(Pairs)
      <3>1. <<u, v>> \in Pairs
        BY DEF Pairs
      <3> QED BY <3>1
    <2>5. Ends(<< <<u, v>> >>, low, high)
      BY <2>3 DEF Ends
    <2>6. \A x \in Nat : u <= x /\ x <= v <=> p <= x /\ x <= q /\ low <= x /\ x <= high
      BY <2>1 DEF Greater, Lesser
    <2> QED BY <1>1, <2>2, <2>4, <2>5, <2>6, NoneOrOne
  <1> QED BY <1>2, <1>3

\* Of no more than two ranges, what get_prefix_ranges leaves is what is of the type.
LEMMA Limits ==
  ASSUME NEW type \in 0 .. Byte - 1, NEW pfx, PrefixRange(pfx) \in Seq(Pairs),
         Len(PrefixRange(pfx)) <= 2
  PROVE /\ Ends(Ranges(type, pfx), TypeLow(type), TypeHigh(type))
        /\ \A x \in Nat : InRanges(x, Ranges(type, pfx))
                            <=> /\ InRanges(x, PrefixRange(pfx))
                                /\ TypeLow(type) <= x /\ x <= TypeHigh(type)
  <1>1. PICK low \in Nat, high \in Nat : low = TypeLow(type) /\ high = TypeHigh(type) /\ low <= high
    <2>1. Byte \in Nat /\ Byte \in Nat \ {0} /\ AddrLen - 1 \in Nat /\ type \in Nat
      BY RangesAssumption
    <2>2. PICK p \in Nat \ {0} : p = Pow(Byte, AddrLen - 1)
      BY <2>1, PowPositive
    <2>3. PICK a \in Nat : a = type * p
      BY <2>1, <2>2
    <2>4. TypeLow(type) = a /\ TypeHigh(type) = a + p - 1
      <3>1. (type + 1) * p = (type * p) + p
        BY <2>1, <2>2
      <3> QED BY <2>2, <2>3, <3>1 DEF TypeLow, TypeHigh
    <2>5. a + p - 1 \in Nat /\ a <= a + p - 1
      BY <2>2
    <2> QED BY <2>4, <2>5
  <1>2. PICK rs \in Seq(Pairs), n \in Nat : rs = PrefixRange(pfx) /\ n = Len(rs) /\ n <= 2
    BY LenProperties
  <1> DEFINE Left(k) == IF k > n THEN <<>> ELSE Meet(rs[k], low, high)
  <1>3. Ranges(type, pfx) = Left(1) \o Left(2)
    BY <1>1, <1>2 DEF Ranges
  <1>4. \A k \in 1 .. 2 :
          /\ Left(k) \in Seq(Pairs) /\ Ends(Left(k), low, high)
          /\ \A x \in Nat : InRanges(x, Left(k))
                              <=> k <= n /\ rs[k][1] <= x /\ x <= rs[k][2] /\ low <= x /\ x <= high
    <2> TAKE k \in 1 .. 2
    <2>1. CASE k > n
      <3>1. Left(k) = <<>> /\ <<>> \in Seq(Pairs) /\ Ends(<<>>, low, high)
        BY <2>1 DEF Ends
      <3>2. \A x \in Nat : ~ InRanges(x, <<>>)
        BY NoneOrOne
      <3>3. ~ (k <= n)
        BY <2>1
      <3> HIDE DEF Left
      <3> QED BY <3>1, <3>2, <3>3
    <2>2. CASE ~ (k > n)
      <3>1. k \in 1 .. n /\ k <= n
        BY <2>2
      <3>2. rs[k] \in Pairs
        BY <1>2, <3>1, ElementOfSeq
      <3>3. Left(k) = Meet(rs[k], low, high)
        BY <2>2
      <3> HIDE DEF Left
      <3> QED BY <1>1, <3>1, <3>2, <3>3, MeetRule
    <2> QED BY <2>1, <2>2
  <1> HIDE DEF Left
  <1>5. \A x \in Nat : InRanges(x, rs) <=> \E k \in 1 .. 2 : k <= n /\ rs[k][1] <= x /\ x <= rs[k][2]
    <2>1. \A k : k \in 1 .. n <=> (k \in 1 .. 2 /\ k <= n)
      BY <1>2
    <2>2. \A x \in Nat : InRanges(x, rs) <=> \E k \in 1 .. n : rs[k][1] <= x /\ x <= rs[k][2]
      BY <1>2 DEF InRanges
    <2> QED BY <2>1, <2>2
  <1>6. ASSUME NEW x \in Nat
        PROVE InRanges(x, Left(1) \o Left(2)) <=> InRanges(x, rs) /\ low <= x /\ x <= high
    <2>1. \A k \in 1 .. 2 : InRanges(x, Left(k))
                              <=> k <= n /\ rs[k][1] <= x /\ x <= rs[k][2] /\ low <= x /\ x <= high
      BY <1>4
    <2>2. InRanges(x, Left(1) \o Left(2)) <=> \E k \in 1 .. 2 : InRanges(x, Left(k))
      <3>1. 1 .. 2 = {1, 2}
        OBVIOUS
      <3> QED BY <1>4, <3>1, Joined
    <2> QED BY <1>5, <2>1, <2>2
  <1>7. Ends(Left(1) \o Left(2), low, high)
    BY <1>4, EndsJoined
  <1> QED BY <1>1, <1>2, <1>3, <1>6, <1>7

-------------------------------------------------------------------------------
(* The bounds of get_prefix_ranges *)

LEMMA LeadingDigit ==
  ASSUME NEW b \in Nat \ {0, 1}, NEW s \in Seq(0 .. b - 1), NEW m \in Nat \ {0}, m = Len(s)
  PROVE /\ s[1] \in 0 .. b - 1
        /\ s[1] * Pow(b, m - 1) <= Number(s, b) /\ Number(s, b) < (s[1] + 1) * Pow(b, m - 1)
  <1>1. b \in Nat \ {0} /\ b \in Nat /\ m - 1 \in Nat /\ 1 \in 0 .. Len(s) /\ 1 \in 1 .. Len(s)
    OBVIOUS
  <1>2. PICK d \in 0 .. b - 1 : d = s[1]
    BY <1>1, ElementOfSeq
  <1>3. PICK u : u = SubSeq(s, 1, 1)
    OBVIOUS
  <1>4. u \in Seq(0 .. b - 1) /\ Len(u) = 1 /\ Number(u, b) = Number(s, b) \div Pow(b, m - 1)
    BY <1>1, <1>3, Front
  <1>5. u = Append(<<>>, d)
    <2>1. Len(<<d>>) = 1 /\ <<d>>[1] = d /\ <<d>> \in Seq(0 .. b - 1) /\ <<d>> = Append(<<>>, d)
      OBVIOUS
    <2>2. u[1] = d
      BY <1>1, <1>2, <1>3
    <2>3. u = <<d>>
      BY <1>4, <2>1, <2>2, SeqEqual
    <2> QED BY <2>1, <2>3
  <1>6. Number(u, b) = d
    <2>1. <<>> \in Seq(Nat) /\ d \in Nat
      OBVIOUS
    <2>2. Number(Append(<<>>, d), b) = Number(<<>>, b) * b + d /\ Number(<<>>, b) = 0
      BY <1>1, <2>1, NumberRule
    <2> QED BY <1>1, <1>5, <2>1, <2>2
  <1>7. PICK v \in Nat, p \in Nat \ {0} : v = Number(s, b) /\ p = Pow(b, m - 1)
    BY <1>1, DigitsAreNumbers, PowPositive
  <1>8. d * p <= v /\ v < (d + 1) * p
    <2>1. v \div p = d /\ d \in Nat
      BY <1>4, <1>6, <1>7
    <2> QED BY <1>7, <2>1, Within
  <1> QED BY <1>2, <1>7, <1>8

\* How the bounds of the shorter numbers are to those of the addresses
Bounded(B, R, t, T, C, F, low, high) ==
  /\ high <= C /\ F <= B * low /\ R <= low
  /\ T > t => F <= low /\ C < B * low
  /\ F >= high => B * low <= C
  /\ t # B => C < B * (B * R)

LEMMA Bounding ==
  ASSUME NEW B \in Nat \ {0, 1}, NEW Y \in Nat, B < Y, NEW R \in Nat \ {0},
         NEW t \in 1 .. B, NEW T \in 1 .. B - 1, NEW C \in Nat, NEW F \in Nat \ {0}, C + 1 = Y * F,
         NEW low \in Nat, NEW high \in Nat, low <= high, T * R <= low, high < (T + 1) * R,
         t * (B * R) <= C, C < (t + 1) * (B * R)
  PROVE Bounded(B, R, t, T, C, F, low, high)
  <1>1. PICK P \in Nat \ {0} : P = B * R
    BY Product
  <1>2. B \in Nat \ {0} /\ B \in Nat /\ R \in Nat /\ P \in Nat /\ F \in Nat /\ t \in Nat /\ T \in Nat
        /\ T + 1 \in Nat /\ t + 1 \in Nat /\ B + 1 \in Nat
    OBVIOUS
  <1>3. PICK g \in Nat : g = Y * F
    BY <1>2
  <1>4. (B + 1) * F <= g /\ (B + 1) * F = (B * F) + F /\ B * F \in Nat
    <2>1. B + 1 <= Y
      BY <1>2
    <2>2. (B + 1) * F <= Y * F
      BY <1>2, <2>1, Factors
    <2> QED BY <1>2, <1>3, <2>2
  <1>5. PICK q \in Nat, r \in Nat : q = t * P /\ r = (t + 1) * P /\ q <= C /\ C < r /\ g = C + 1
    BY <1>1, <1>2, <1>3
  <1>6. PICK e \in Nat, f \in Nat : e = T * R /\ f = (T + 1) * R /\ e <= low /\ high < f
    BY <1>2
  <1>7. high <= C
    <2>1. f <= P
      <3>1. T + 1 <= B
        OBVIOUS
      <3> QED BY <1>1, <1>2, <1>6, <3>1, Factors
    <2>2. P <= q
      <3>1. 1 * P <= t * P /\ 1 * P = P
        <4>1. 1 <= t /\ 1 \in Nat
          OBVIOUS
        <4> QED BY <1>2, <4>1, Factors
      <3> QED BY <1>5, <3>1
    <2> QED BY <1>2, <1>5, <1>6, <2>1, <2>2
  <1>8. R <= low
    <2>1. 1 * R <= T * R /\ 1 * R = R
      <3>1. 1 <= T /\ 1 \in Nat
        OBVIOUS
      <3> QED BY <1>2, <3>1, Factors
    <2> QED BY <1>2, <1>6, <2>1
  <1>9. PICK l \in Nat : l = B * low /\ l = low * B
    BY <1>2
  <1>10. T * P <= l /\ T * P \in Nat
    <2>1. (T * R) * B <= low * B
      BY <1>2, <1>6, Factors
    <2>2. (T * R) * B = T * (B * R)
      BY <1>2
    <2> QED BY <1>1, <1>2, <1>9, <2>1, <2>2
  <1>11. F <= l
    <2>1. r <= (B + 1) * P /\ (B + 1) * P \in Nat
      <3>1. t + 1 <= B + 1
        OBVIOUS
      <3> QED BY <1>2, <1>5, <3>1, Factors
    <2>2. F <= P
      <3>1. (B + 1) * F <= (B + 1) * P
        BY <1>2, <1>4, <1>5, <2>1
      <3>2. F * (B + 1) <= P * (B + 1)
        BY <1>2, <3>1
      <3>3. B + 1 \in Nat \ {0}
        BY <1>2
      <3> QED BY <1>2, <3>2, <3>3, Factors
    <2>3. 1 * P <= T * P /\ 1 * P = P
      <3>1. 1 <= T /\ 1 \in Nat
        OBVIOUS
      <3> QED BY <1>2, <3>1, Factors
    <2> QED BY <1>2, <1>9, <1>10, <2>2, <2>3
  <1>12. ASSUME T > t PROVE F <= low /\ C < l
    <2>1. r <= T * P
      <3>1. t + 1 <= T
        BY <1>12
      <3> QED BY <1>2, <1>5, <3>1, Factors
    <2>2. C < l
      BY <1>5, <1>9, <1>10, <2>1
    <2>3. F * B <= low * B
      <3>1. F * B = B * F
        BY <1>2
      <3> QED BY <1>2, <1>4, <1>5, <1>9, <2>2, <3>1
    <2>4. F <= low
      BY <1>2, <2>3, Factors
    <2> QED BY <2>2, <2>4
  <1>13. ASSUME F >= high PROVE l <= C
    <2>1. low <= F
      BY <1>13
    <2>2. low * B <= F * B /\ F * B = B * F
      BY <1>2, <2>1, Factors
    <2>3. F >= 1
      OBVIOUS
    <2> QED BY <1>2, <1>4, <1>5, <1>9, <2>2, <2>3
  <1>14. ASSUME t # B PROVE C < B * (B * R)
    <2>1. t + 1 <= B
      BY <1>14
    <2>2. r <= B * P /\ B * P \in Nat
      BY <1>2, <1>5, <2>1, Factors
    <2> QED BY <1>1, <1>5, <2>2
  <1> QED BY <1>7, <1>8, <1>9, <1>11, <1>12, <1>13, <1>14 DEF Bounded

\* The digits of a number begin with the digits of a prefix after its zeros.
Starting(x, pfx, z) ==
  LET s == SubSeq(pfx, z + 1, Len(pfx))
      d == Digits(x, Base)
  IN Len(d) >= Len(s) /\ SubSeq(d, 1, Len(s)) = s

\* What the ranges of a prefix are meant to be, before the type limits them
RangesMeant(pfx, z) ==
  /\ PrefixRange(pfx) \in Seq(Pairs) /\ Len(PrefixRange(pfx)) <= 2 /\ PrefixRange(pfx) # <<>>
  /\ \A x \in Nat : InRanges(x, PrefixRange(pfx))
                      <=> Floor(z) <= x /\ x <= Ceil(z) /\ Starting(x, pfx, z) /\ TwoLongest(x, z)

\* One or two numbers of digits
LEMMA TwoLengths ==
  ASSUME NEW b \in Nat \ {0, 1}, NEW k \in Nat \ {0}, NEW x \in Nat \ {0},
         Len(Digits(x, b)) >= k, x < Pow(b, k + 1)
  PROVE Len(Digits(x, b)) = k \/ Len(Digits(x, b)) = k + 1
  <1>1. PICK l \in Nat \ {0} : l = Len(Digits(x, b)) /\ Pow(b, l - 1) <= x
    BY DigitsBetween
  <1>2. CASE k + 1 < l
    <2>1. PICK i \in Nat, j \in Nat : i = k + 1 /\ j = l - 1 /\ i <= j
      <3>1. k + 1 \in Nat /\ l - 1 \in Nat /\ k + 1 <= l - 1
        BY <1>2
      <3> QED BY <3>1
    <2>2. PICK p \in Nat, q \in Nat : p = Pow(b, i) /\ q = Pow(b, j)
      <3>1. b \in Nat
        OBVIOUS
      <3> QED BY <3>1, PowRule
    <2>3. p <= q
      BY <2>1, <2>2, PowGrows
    <2>4. x < p /\ q <= x
      BY <1>1, <2>1, <2>2
    <2> QED BY <2>3, <2>4
  <1> QED BY <1>1, <1>2

\* The numbers with a digit more that begin as the numbers from low to high
Quotients(b, v, u, w, low, high, x) ==
  /\ x \div u = v <=> low <= x /\ x <= high
  /\ x \div w = v <=> b * low <= x /\ x <= b * high + b - 1

LEMMA OneMore ==
  ASSUME NEW b \in Nat \ {0, 1}, NEW v \in Nat, NEW u \in Nat \ {0}, NEW w, w = b * u,
         NEW low \in Nat, low = u * v, NEW high \in Nat, high = low + u - 1, NEW x \in Nat
  PROVE Quotients(b, v, u, w, low, high, x)
  <1>1. b \in Nat \ {0} /\ w \in Nat \ {0} /\ b \in Nat /\ u \in Nat
    BY Product
  <1>2. v * u = low /\ (v + 1) * u = low + u
    BY <1>1
  <1>3. v * w = b * low /\ (v + 1) * w = b * (low + u)
    <2>1. v * w = b * (v * u) /\ (v + 1) * w = b * ((v + 1) * u)
      BY <1>1
    <2> QED BY <1>2, <2>1
  <1>4. b * (low + u) = (b * high + b - 1) + 1
    <2>1. low + u = high + 1
      BY <1>1
    <2>2. b * (high + 1) = (b * high) + b
      BY <1>1
    <2>3. b * high \in Nat
      BY <1>1
    <2> QED BY <1>1, <2>1, <2>2, <2>3
  <1>5. x < low + u <=> x <= high
    BY <1>1
  <1>6. PICK g \in Nat, h \in Nat : g = b * low /\ h = b * high + b - 1
    <2>1. b * low \in Nat /\ b * high \in Nat /\ b - 1 \in Nat
      BY <1>1
    <2> QED BY <2>1
  <1>7. x < h + 1 <=> x <= h
    BY <1>6
  <1>8. x \div u = v <=> v * u <= x /\ x < (v + 1) * u
    BY Within
  <1>9. x \div w = v <=> v * w <= x /\ x < (v + 1) * w
    BY <1>1, Within
  <1> QED BY <1>2, <1>3, <1>4, <1>5, <1>6, <1>7, <1>8, <1>9 DEF Quotients

\* A floor is not the last number that begins with some digits.
LEMMA NotLast ==
  ASSUME NEW j \in 1 .. AddrLen, NEW n \in Nat \ {0}, NEW v \in Nat,
         Pow(Byte, j) + 1 = Pow(Base, n) * (v + 1)
  PROVE FALSE
  <1>1. Base \in Nat \ {0} /\ Base \in Nat
    BY RangesAssumption
  <1>2. PICK p \in Nat : Pow(Base, n) = Base * p
    <2>1. PICK i \in Nat : n = i + 1
      <3>1. n - 1 \in Nat /\ n = (n - 1) + 1
        OBVIOUS
      <3> QED BY <3>1
    <2>2. Pow(Base, i) \in Nat /\ Pow(Base, i + 1) = Base * Pow(Base, i)
      BY <1>1, PowRule
    <2> QED BY <2>1, <2>2
  <1>3. PICK q \in Nat : q = p * (v + 1)
    BY <1>2
  <1>4. (Base * p) * (v + 1) = (q * Base) + 0
    BY <1>1, <1>2, <1>3
  <1>5. ((q * Base) + 0) % Base = 0
    <2>1. 0 \in 0 .. Base - 1
      BY <1>1
    <2> QED BY <1>1, <1>3, <2>1, Assembled
  <1> QED BY <1>2, <1>4, <1>5, CeilingAssumption

\* The powers of a base up to the place of a digit
Placed(b, m, k, R, u, w, p) ==
  /\ R = Pow(b, k - 1) /\ u = Pow(b, k - m) /\ w = Pow(b, (k + 1) - m) /\ p = Pow(b, m - 1)
  /\ Pow(b, k) = b * R /\ R = p * u /\ w = b * u /\ Pow(b, k + 1) = b * (b * R)

LEMMA Places ==
  ASSUME NEW b \in Nat \ {0}, NEW m \in Nat \ {0}, NEW k \in Nat \ {0}, m < k
  PROVE \E R, u, w, p \in Nat \ {0} : Placed(b, m, k, R, u, w, p)
  <1>1. PICK i \in Nat, e \in Nat, n \in Nat :
          i = k - 1 /\ k = i + 1 /\ e = k - m /\ (k + 1) - m = e + 1 /\ n = m - 1 /\ i = n + e
    <2>1. k - 1 \in Nat /\ k = (k - 1) + 1 /\ k - m \in Nat /\ (k + 1) - m = (k - m) + 1 /\ m - 1 \in Nat
          /\ k - 1 = (m - 1) + (k - m)
      OBVIOUS
    <2> QED BY <2>1
  <1>2. b \in Nat /\ k \in Nat /\ e + 1 \in Nat
    BY <1>1
  <1>3. Pow(b, i + 1) = b * Pow(b, i) /\ Pow(b, e + 1) = b * Pow(b, e) /\ Pow(b, k + 1) = b * Pow(b, k)
    BY <1>1, <1>2, PowRule
  <1>4. Pow(b, n + e) = Pow(b, n) * Pow(b, e)
    BY <1>1, <1>2, PowSum
  <1>5. Pow(b, i) \in Nat \ {0} /\ Pow(b, e) \in Nat \ {0} /\ Pow(b, e + 1) \in Nat \ {0}
        /\ Pow(b, n) \in Nat \ {0}
    BY <1>2, PowPositive
  <1>6. Placed(b, m, k, Pow(b, i), Pow(b, e), Pow(b, e + 1), Pow(b, n))
    BY <1>1, <1>3, <1>4 DEF Placed
  <1> QED BY <1>5, <1>6

\* The first digit bounds the numbers that begin alike.
Spreads(T, R, low, high) == T * R <= low /\ high < (T + 1) * R

LEMMA Spread ==
  ASSUME NEW p \in Nat \ {0}, NEW u \in Nat \ {0}, NEW R \in Nat, R = p * u, NEW v \in Nat, NEW T \in Nat,
         T * p <= v, v < (T + 1) * p, NEW low \in Nat, low = u * v, NEW high \in Nat, high = low + u - 1
  PROVE Spreads(T, R, low, high)
  <1>1. T + 1 \in Nat /\ u \in Nat /\ p \in Nat /\ v + 1 \in Nat
    OBVIOUS
  <1>2. PICK q \in Nat, r \in Nat : q = T * p /\ r = (T + 1) * p /\ q <= v /\ v + 1 <= r
    <2>1. T * p \in Nat /\ (T + 1) * p \in Nat
      BY <1>1
    <2> QED BY <2>1
  <1>3. q * u <= v * u /\ (v + 1) * u <= r * u
    BY <1>1, <1>2, Factors
  <1>4. (T * p) * u = T * (p * u) /\ ((T + 1) * p) * u = (T + 1) * (p * u)
    BY <1>1
  <1>5. v * u = low /\ (v + 1) * u = high + 1
    BY <1>1
  <1>6. T * R \in Nat /\ (T + 1) * R \in Nat
    BY <1>1
  <1>7. T * R <= low /\ high < (T + 1) * R
    BY <1>2, <1>3, <1>4, <1>5, <1>6
  <1> QED BY <1>7 DEF Spreads

\* The numbers of k digits, and of one more, that begin with some digits
Begun(b, s, m, k, low, high) ==
  \A x \in Nat :
    /\ low <= x /\ x <= high <=> Len(Digits(x, b)) = k /\ SubSeq(Digits(x, b), 1, m) = s
    /\ b * low <= x /\ x <= b * high + b - 1
         <=> Len(Digits(x, b)) = k + 1 /\ SubSeq(Digits(x, b), 1, m) = s

LEMMA Beginnings ==
  ASSUME NEW b \in Nat \ {0, 1}, NEW s \in Seq(0 .. b - 1), NEW m \in Nat \ {0}, m = Len(s), s[1] # 0,
         NEW k \in Nat \ {0}, m < k, NEW u \in Nat \ {0}, u = Pow(b, k - m),
         NEW w, w = b * u, w = Pow(b, (k + 1) - m), NEW v \in Nat, v = Number(s, b),
         NEW low \in Nat, low = u * v, NEW high \in Nat, high = low + u - 1
  PROVE Begun(b, s, m, k, low, high)
  <1>1. s # <<>>
    BY EmptySeq
  <1>2. Len(s) <= k /\ k \in Nat
    OBVIOUS
  <1>3. PICK n : n = k + 1
    OBVIOUS
  <1>3a. n \in Nat /\ Len(s) <= n
    BY <1>3
  <1> SUFFICES ASSUME NEW x \in Nat
      PROVE /\ low <= x /\ x <= high <=> Len(Digits(x, b)) = k /\ SubSeq(Digits(x, b), 1, m) = s
            /\ b * low <= x /\ x <= b * high + b - 1
                 <=> Len(Digits(x, b)) = k + 1 /\ SubSeq(Digits(x, b), 1, m) = s
    BY DEF Begun
  <1>4. x \div Pow(b, k - Len(s)) = Number(s, b)
           <=> Len(Digits(x, b)) = k /\ SubSeq(Digits(x, b), 1, Len(s)) = s
    <2>1. IsBegun(x, b, s, k)
      BY <1>1, <1>2, Begins
    <2> QED BY <2>1 DEF IsBegun
  <1>5. x \div Pow(b, n - Len(s)) = Number(s, b)
           <=> Len(Digits(x, b)) = n /\ SubSeq(Digits(x, b), 1, Len(s)) = s
    <2>1. IsBegun(x, b, s, n)
      BY <1>1, <1>3a, Begins
    <2> QED BY <2>1 DEF IsBegun
  <1>6. /\ x \div u = v <=> low <= x /\ x <= high
        /\ x \div w = v <=> b * low <= x /\ x <= b * high + b - 1
    <2>1. Quotients(b, v, u, w, low, high, x)
      BY OneMore
    <2> QED BY <2>1 DEF Quotients
  <1> QED BY <1>3, <1>4, <1>5, <1>6

\* What the two ranges of get_prefix_ranges hold
Above(r, low, high, F) ==
  /\ r \in Seq(Pairs) /\ Len(r) <= 1 /\ (~ (F >= high) => Len(r) = 1)
  /\ \A x \in Nat : InRanges(x, r) <=> ~ (F >= high) /\ F <= x /\ low <= x /\ x <= high

Longer(r, g, h, C) ==
  /\ r \in Seq(Pairs) /\ Len(r) <= 1 /\ (g <= C => Len(r) = 1)
  /\ \A x \in Nat : InRanges(x, r) <=> g <= x /\ x <= h /\ x <= C

LEMMA AboveRule ==
  ASSUME NEW low \in Nat, NEW high \in Nat, NEW F \in Nat, NEW r, r = AboveFloor(low, high, F)
  PROVE Above(r, low, high, F)
  <1>1. CASE F >= high
    <2>1. r = <<>> /\ <<>> \in Seq(Pairs) /\ Len(<<>>) = 0
      BY <1>1 DEF AboveFloor
    <2>2. \A x \in Nat : ~ InRanges(x, <<>>)
      BY NoneOrOne
    <2> QED BY <1>1, <2>1, <2>2 DEF Above
  <1>2. CASE ~ (F >= high)
    <2>1. PICK e \in Nat : e = Greater(low, F) /\ \A x \in Nat : e <= x <=> F <= x /\ low <= x
      BY DEF Greater
    <2>2. r = << <<e, high>> >>
      BY <1>2, <2>1 DEF AboveFloor
    <2>3. r \in Seq(Pairs) /\ Len(r) = 1
      BY <2>2, Singleton
    <2>4. \A x \in Nat : InRanges(x, r) <=> e <= x /\ x <= high
      BY <2>2, NoneOrOne
    <2>5. ASSUME NEW x \in Nat
          PROVE InRanges(x, r) <=> ~ (F >= high) /\ F <= x /\ low <= x /\ x <= high
      BY <1>2, <2>1, <2>4
    <2>6. Len(r) <= 1
      BY <2>3
    <2> QED BY <2>3, <2>5, <2>6 DEF Above
  <1> QED BY <1>1, <1>2 DEF Above

LEMMA LongerRule ==
  ASSUME NEW low \in Nat, NEW high \in Nat, NEW C \in Nat, NEW r, r = HighRange(low, high, C),
         NEW g \in Nat, g = Base * low, NEW h \in Nat, h = Base * high + Base - 1
  PROVE Longer(r, g, h, C)
  <1>0. r = IF C < g THEN <<>> ELSE << <<g, Lesser(h, C)>> >>
    BY DEF HighRange
  <1>1. CASE C < g
    <2>1. r = <<>> /\ <<>> \in Seq(Pairs) /\ Len(<<>>) = 0
      BY <1>0, <1>1
    <2>2. \A x \in Nat : ~ InRanges(x, <<>>)
      BY NoneOrOne
    <2>3. (\A x \in Nat : ~ (g <= x /\ x <= C)) /\ ~ (g <= C)
      BY <1>1
    <2> QED BY <2>1, <2>2, <2>3 DEF Longer
  <1>2. CASE ~ (C < g)
    <2>1. PICK e \in Nat : e = Lesser(h, C) /\ \A x \in Nat : x <= e <=> x <= h /\ x <= C
      BY DEF Lesser
    <2>2. r = << <<g, e>> >>
      BY <1>0, <1>2, <2>1
    <2>3. r \in Seq(Pairs) /\ Len(r) = 1
      BY <2>2, Singleton
    <2>4. \A x \in Nat : InRanges(x, r) <=> g <= x /\ x <= e
      BY <2>2, NoneOrOne
    <2>5. ASSUME NEW x \in Nat PROVE InRanges(x, r) <=> g <= x /\ x <= h /\ x <= C
      BY <2>1, <2>4
    <2>6. Len(r) <= 1
      BY <2>3
    <2> QED BY <2>3, <2>5, <2>6 DEF Longer
  <1> QED BY <1>1, <1>2

LEMMA PrefixRangeRule ==
  ASSUME NEW pfx \in Seq(0 .. Base - 1), InReach(pfx), NEW z, z = Zeros(pfx)
  PROVE RangesMeant(pfx, z)
  <1>1. /\ Base \in Nat \ {0, 1} /\ Base \in Nat \ {0} /\ Base \in Nat
        /\ Byte \in Nat \ {0, 1} /\ Byte \in Nat \ {0} /\ Byte \in Nat
        /\ AddrLen \in Nat \ {0, 1} /\ Base < Byte
    BY RangesAssumption
  <1>2. pfx \in Seq(Nat)
    BY <1>1, DigitsAreNumbers
  <1>3. z \in 0 .. Len(pfx) /\ z < Len(pfx) /\ z < AddrLen - 1 /\ pfx[z + 1] # 0
        /\ Len(pfx) - z < DigitsOf(Ceil(z)).pow
    <2>1. z < Len(pfx) /\ z < AddrLen - 1 /\ Len(pfx) - z < DigitsOf(Ceil(z)).pow
      BY DEF InReach
    <2>2. Leading(pfx) \in 0 .. Len(pfx) /\ (Leading(pfx) = Len(pfx) \/ pfx[Leading(pfx) + 1] # 0)
      BY <1>2, LeadingRule
    <2>3. z = Leading(pfx)
      BY DEF Zeros
    <2> QED BY <2>1, <2>2, <2>3
  <1>4. PICK l \in Nat : l = Len(pfx)
    BY LenProperties
  <1>5. PICK s \in Seq(0 .. Base - 1), m \in Nat \ {0} :
          s = SubSeq(pfx, z + 1, Len(pfx)) /\ m = Len(s) /\ m = Len(pfx) - z /\ s[1] # 0
    <2>1. PICK s : s = SubSeq(pfx, z + 1, Len(pfx))
      OBVIOUS
    <2>2. s \in Seq(0 .. Base - 1) /\ Len(s) = Len(pfx) - z
      BY <1>1, <1>3, <2>1, Split, SMTT(30)
    <2>3. Len(pfx) - z \in Nat \ {0} /\ z \in Nat
      BY <1>3, <1>4
    <2>4. IsRest(s, pfx, z, l)
      BY <1>2, <1>3, <1>4, <2>1, <2>3, Rest
    <2>5. 1 \in 1 .. l - z
      BY <1>4, <2>3
    <2>6. s[1] = pfx[z + 1]
      BY <2>4, <2>5 DEF IsRest
    <2> QED BY <1>3, <2>1, <2>2, <2>3, <2>6
  <1>6. PICK C \in Nat \ {0}, F \in Nat \ {0}, j \in 1 .. AddrLen :
          C = Ceil(z) /\ F = Floor(z) /\ C + 1 = Byte * F /\ F = Pow(Byte, j)
          /\ DigitsOf(C).top # Base
    <2>1. PICK j \in 1 .. AddrLen, i \in 1 .. AddrLen :
            j = AddrLen - 1 - z /\ j + 1 = AddrLen - z /\ i = j + 1 /\ j \in Nat /\ i \in Nat /\ 0 < i
      <3>1. AddrLen - 1 - z \in 1 .. AddrLen /\ (AddrLen - 1 - z) + 1 = AddrLen - z
            /\ AddrLen - z \in 1 .. AddrLen /\ AddrLen - 1 - z \in Nat /\ AddrLen - z \in Nat
            /\ 0 < AddrLen - z
        BY <1>1, <1>3, SMTT(30)
      <3> QED BY <3>1
    <2>2. PICK f \in Nat \ {0} : f = Pow(Byte, j)
      BY <1>1, <2>1, PowPositive
    <2>3. PICK c \in Nat : c = Pow(Byte, i) /\ c = Byte * f /\ 1 < c
      <3>1. Pow(Byte, j + 1) = Byte * f
        BY <1>1, <2>1, <2>2, PowRule
      <3>2. Byte * f \in Nat /\ Byte \in Nat \ {0}
        BY <1>1
      <3>3. Byte <= Byte * f
        BY <3>2, Product
      <3>4. PICK e \in Nat : e = Byte * f
        BY <3>2
      <3>5. 1 < Byte /\ Byte <= e
        BY <1>1, <3>3, <3>4
      <3>6. 1 < e
        BY <3>2, <3>5
      <3> QED BY <2>1, <3>1, <3>4, <3>6
    <2>4. Ceil(z) = c - 1 /\ Floor(z) = f
      BY <2>1, <2>2, <2>3 DEF Ceil, Floor
    <2>5. DigitsOf(c - 1).top # Base
      BY <2>1, <2>3, CeilingAssumption
    <2>6. c - 1 \in Nat \ {0} /\ (c - 1) + 1 = c
      BY <2>3
    <2> QED BY <2>1, <2>2, <2>3, <2>4, <2>5, <2>6
  <1>7. PICK k \in Nat \ {0}, t \in 1 .. Base :
          /\ k = DigitsOf(C).pow /\ t = DigitsOf(C).top /\ m < k /\ t # Base
          /\ t * Pow(Base, k) <= C /\ C < (t + 1) * Pow(Base, k)
    <2>1. Floored(C, DigitsOf(C))
      BY DigitsOfRule
    <2>2. PICK k \in Nat, t \in 1 .. Base :
          /\ k = DigitsOf(C).pow /\ t = DigitsOf(C).top
          /\ t * Pow(Base, k) <= C /\ C < (t + 1) * Pow(Base, k)
      BY <2>1 DEF Floored
    <2>3. m < k
      BY <1>3, <1>5, <1>6, <2>2
    <2>4. k \in Nat \ {0}
      BY <2>3
    <2> QED BY <1>6, <2>2, <2>3, <2>4
  <1>8. PICK R \in Nat \ {0}, u \in Nat \ {0}, w \in Nat \ {0}, p \in Nat \ {0} :
          Placed(Base, m, k, R, u, w, p)
    BY <1>1, <1>7, Places
  <1>9. PICK T \in 1 .. Base - 1, v \in Nat :
          T = s[1] /\ v = Number(s, Base) /\ T * p <= v /\ v < (T + 1) * p
    <2>1. s[1] \in 0 .. Base - 1 /\ s[1] * Pow(Base, m - 1) <= Number(s, Base)
          /\ Number(s, Base) < (s[1] + 1) * Pow(Base, m - 1)
      BY <1>1, <1>5, LeadingDigit
    <2>2. PICK q \in 0 .. Base - 1 : q = s[1] /\ q # 0
      BY <1>5, <2>1
    <2>3. q \in 1 .. Base - 1
      BY <1>1, <2>2
    <2>4. Number(s, Base) \in Nat
      BY <1>1, DigitsAreNumbers
    <2>5. p = Pow(Base, m - 1)
      BY <1>8 DEF Placed
    <2> QED BY <2>1, <2>2, <2>3, <2>4, <2>5
  <1>10. PICK low \in Nat, high \in Nat : low = u * v /\ high = low + u - 1 /\ low <= high
    <2>1. u * v \in Nat /\ (u * v) + u - 1 \in Nat /\ u * v <= (u * v) + u - 1
      OBVIOUS
    <2> QED BY <2>1
  <1>11. T * R <= low /\ high < (T + 1) * R
    <2>1. T \in Nat /\ R \in Nat /\ R = p * u
      BY <1>8 DEF Placed
    <2>2. Spreads(T, R, low, high)
      BY <1>9, <1>10, <2>1, Spread
    <2> QED BY <2>2 DEF Spreads
  <1>12. Bounded(Base, R, t, T, C, F, low, high)
    <2>1. Pow(Base, k) = Base * R
      BY <1>8 DEF Placed
    <2> QED BY <1>1, <1>6, <1>7, <1>10, <1>11, <2>1, Bounding
  <1>13. PrefixRange(pfx) = IF T > t THEN << <<low, high>> >>
                            ELSE AboveFloor(low, high, F) \o HighRange(low, high, C)
    <2>1. s # <<>>
      BY <1>5, EmptySeq
    <2>2. u = Pow(Base, k - m)
      BY <1>8 DEF Placed
    <2> QED BY <1>5, <1>6, <1>7, <1>9, <1>10, <2>1, <2>2 DEF PrefixRange
  <1>14. Begun(Base, s, m, k, low, high)
    <2>1. u = Pow(Base, k - m) /\ w = Base * u /\ w = Pow(Base, (k + 1) - m)
      BY <1>8 DEF Placed
    <2> QED BY <1>1, <1>5, <1>7, <1>9, <1>10, <2>1, Beginnings
  <1>15. PICK g \in Nat, h \in Nat : g = Base * low /\ h = Base * high + Base - 1
    <2>1. Base * low \in Nat /\ Base * high \in Nat /\ Base - 1 \in Nat
      BY <1>1
    <2> QED BY <2>1
  \* What the two ranges hold
  <1>16. PICK above : above = AboveFloor(low, high, F)
    OBVIOUS
  <1>17. PICK longer : longer = HighRange(low, high, C)
    OBVIOUS
  <1>18. /\ above \in Seq(Pairs) /\ Len(above) <= 1 /\ (~ (F >= high) => Len(above) = 1)
         /\ \A x \in Nat : InRanges(x, above) <=> ~ (F >= high) /\ F <= x /\ low <= x /\ x <= high
    <2>1. F \in Nat
      OBVIOUS
    <2>2. Above(above, low, high, F)
      BY <1>16, <2>1, AboveRule
    <2> QED BY <2>2 DEF Above
  <1>19. /\ longer \in Seq(Pairs) /\ Len(longer) <= 1 /\ (g <= C => Len(longer) = 1)
         /\ \A x \in Nat : InRanges(x, longer) <=> g <= x /\ x <= h /\ x <= C
    <2>1. C \in Nat
      OBVIOUS
    <2>2. Longer(longer, g, h, C)
      BY <1>15, <1>17, <2>1, LongerRule
    <2> QED BY <2>2 DEF Longer
  <1>20. /\ low <= high /\ high <= C /\ F <= g /\ R <= low
         /\ T > t => F <= low /\ C < g
         /\ F >= high => g <= C
         /\ C < Pow(Base, k + 1) /\ R = Pow(Base, k - 1)
    <2>1. Pow(Base, k + 1) = Base * (Base * R) /\ R = Pow(Base, k - 1)
      BY <1>8 DEF Placed
    <2> QED BY <1>7, <1>10, <1>12, <1>15, <2>1 DEF Bounded
  <1>21. /\ PrefixRange(pfx) \in Seq(Pairs) /\ Len(PrefixRange(pfx)) <= 2 /\ PrefixRange(pfx) # <<>>
         /\ \A x \in Nat : InRanges(x, PrefixRange(pfx))
                             <=> IF T > t THEN low <= x /\ x <= high
                                 ELSE \/ ~ (F >= high) /\ F <= x /\ low <= x /\ x <= high
                                      \/ g <= x /\ x <= h /\ x <= C
    <2>1. CASE T > t
      <3>1. PICK rs : rs = << <<low, high>> >> /\ rs = PrefixRange(pfx)
        BY <1>13, <2>1
      <3>2. rs \in Seq(Pairs) /\ Len(rs) = 1 /\ rs # <<>>
        BY <3>1, Singleton
      <3>3. \A x \in Nat : InRanges(x, rs) <=> low <= x /\ x <= high
        BY <3>1, NoneOrOne
      <3>4. Len(rs) <= 2
        BY <3>2
      <3> QED BY <2>1, <3>1, <3>2, <3>3, <3>4
    <2>2. CASE ~ (T > t)
      <3>1. PICK rs : rs = above \o longer /\ rs = PrefixRange(pfx)
        BY <1>13, <1>16, <1>17, <2>2
      <3>2. above \in Seq(Pairs) /\ longer \in Seq(Pairs)
        BY <1>18, <1>19
      <3>3. rs \in Seq(Pairs) /\ Len(rs) = Len(above) + Len(longer)
        BY <3>1, <3>2, ConcatProperties
      <3>4. PICK a \in Nat, b \in Nat : a = Len(above) /\ b = Len(longer) /\ a <= 1 /\ b <= 1
        BY <1>18, <1>19, <3>2, LenProperties
      <3>5. a = 1 \/ b = 1
        BY <1>18, <1>19, <1>20, <3>4
      <3>6. Len(rs) <= 2 /\ rs # <<>>
        <4>1. Len(rs) <= 2 /\ Len(rs) # 0 /\ Len(<<>>) = 0
          BY <3>3, <3>4, <3>5
        <4> QED BY <4>1
      <3>7. \A x \in Nat : InRanges(x, rs) <=> InRanges(x, above) \/ InRanges(x, longer)
        <4> TAKE x \in Nat
        <4>1. InRanges(x, above \o longer) <=> InRanges(x, above) \/ InRanges(x, longer)
          BY <3>2, Joined
        <4> QED BY <3>1, <4>1
      <3> QED BY <1>18, <1>19, <2>2, <3>1, <3>3, <3>6, <3>7
    <2> QED BY <2>1, <2>2
  <1>22. ASSUME NEW x \in Nat
         PROVE Starting(x, pfx, z) <=> Len(Digits(x, Base)) >= m /\ SubSeq(Digits(x, Base), 1, m) = s
    BY <1>5 DEF Starting
  <1>23. ASSUME NEW x \in Nat PROVE TwoLongest(x, z) <=> Len(Digits(x, Base)) >= k
    BY <1>6, <1>7 DEF TwoLongest
  <1>24. ASSUME NEW x \in Nat, InRanges(x, PrefixRange(pfx))
         PROVE F <= x /\ x <= C /\ Starting(x, pfx, z) /\ TwoLongest(x, z)
    <2>1. (low <= x /\ x <= high /\ F <= x) \/ (g <= x /\ x <= h /\ x <= C)
      BY <1>20, <1>21, <1>24
    <2>2. CASE low <= x /\ x <= high /\ F <= x
      <3>1. Len(Digits(x, Base)) = k /\ SubSeq(Digits(x, Base), 1, m) = s
        BY <1>14, <2>2 DEF Begun
      <3>2. x <= C
        BY <1>20, <2>2
      <3>3. Len(Digits(x, Base)) >= m
        BY <1>7, <3>1
      <3>4. Len(Digits(x, Base)) >= k
        BY <3>1
      <3> QED BY <1>22, <1>23, <2>2, <3>1, <3>2, <3>3, <3>4
    <2>3. CASE g <= x /\ x <= h /\ x <= C
      <3>1. Len(Digits(x, Base)) = k + 1 /\ SubSeq(Digits(x, Base), 1, m) = s
        BY <1>14, <1>15, <2>3 DEF Begun
      <3>2. F <= x
        BY <1>20, <2>3
      <3>3. Len(Digits(x, Base)) >= m
        BY <1>7, <3>1
      <3>4. Len(Digits(x, Base)) >= k
        BY <3>1
      <3> QED BY <1>22, <1>23, <2>3, <3>1, <3>2, <3>3, <3>4
    <2> QED BY <2>1, <2>2, <2>3
  <1>25. ASSUME NEW x \in Nat, F <= x, x <= C, Starting(x, pfx, z), TwoLongest(x, z)
         PROVE InRanges(x, PrefixRange(pfx))
    <2>1. SubSeq(Digits(x, Base), 1, m) = s
      BY <1>22, <1>25
    <2>2. Len(Digits(x, Base)) = k \/ Len(Digits(x, Base)) = k + 1
      <3>1. x < Pow(Base, k + 1)
        <4>1. PICK q \in Nat : q = Pow(Base, k + 1)
          <5>1. k + 1 \in Nat
            OBVIOUS
          <5> QED BY <1>1, <5>1, PowRule
        <4>2. x < q
          BY <1>20, <1>25, <4>1
        <4> QED BY <4>1, <4>2
      <3>2. x \in Nat \ {0} /\ Len(Digits(x, Base)) >= k
        BY <1>23, <1>25
      <3> QED BY <1>1, <3>1, <3>2, TwoLengths
    <2>3. CASE Len(Digits(x, Base)) = k
      <3>1. low <= x /\ x <= high
        BY <1>14, <2>1, <2>3 DEF Begun
      <3>2. ~ (F >= high)
        <4> SUFFICES ASSUME F >= high PROVE FALSE
          OBVIOUS
        <4>1. F = high
          BY <1>25, <3>1
        <4>2. F + 1 = u * (v + 1)
          <5>1. u * (v + 1) = (u * v) + u
            OBVIOUS
          <5> QED BY <1>10, <4>1, <5>1
        <4>3. PICK n \in Nat \ {0} : u = Pow(Base, n)
          <5>1. k - m \in Nat \ {0}
            BY <1>7
          <5> QED BY <1>8, <5>1 DEF Placed
        <4> QED BY <1>6, <4>2, <4>3, NotLast
      <3> QED BY <1>21, <1>25, <3>1, <3>2
    <2>4. CASE Len(Digits(x, Base)) = k + 1
      <3>1. g <= x /\ x <= h
        BY <1>14, <1>15, <2>1, <2>4 DEF Begun
      <3>2. ~ (T > t)
        BY <1>20, <1>25, <3>1
      <3> QED BY <1>21, <1>25, <3>1, <3>2
    <2> QED BY <2>2, <2>3, <2>4
  <1>26. \A x \in Nat : InRanges(x, PrefixRange(pfx))
                           <=> F <= x /\ x <= C /\ Starting(x, pfx, z) /\ TwoLongest(x, z)
    BY <1>24, <1>25
  <1>27. Floor(z) = F /\ Ceil(z) = C
    BY <1>6
  <1> QED BY <1>21, <1>26, <1>27 DEF RangesMeant

\* The ranges of a prefix are right for every type of address.
THEOREM PrefixRangesRight ==
  ASSUME NEW type \in 0 .. Byte - 1, NEW pfx \in Seq(0 .. Base - 1)
  PROVE RangesRight(type, pfx)
  <1>1. SUFFICES ASSUME InReach(pfx)
                 PROVE LET z == Zeros(pfx)
                           ranges == Ranges(type, pfx)
                           numbers == TypeLow(type) .. TypeHigh(type)
                       IN /\ \A x \in numbers : InRanges(x, ranges) <=> Spelt(x, pfx) /\ TwoLongest(x, z)
                          /\ \A k \in 1 .. Len(ranges) : {ranges[k][1], ranges[k][2]} \subseteq numbers
                          /\ PrefixRange(pfx) # <<>>
    BY DEF RangesRight
  <1>2. PICK z : z = Zeros(pfx)
    OBVIOUS
  <1>3. RangesMeant(pfx, z)
    BY <1>1, <1>2, PrefixRangeRule
  <1>4. /\ Ends(Ranges(type, pfx), TypeLow(type), TypeHigh(type))
        /\ \A x \in Nat : InRanges(x, Ranges(type, pfx))
                            <=> /\ InRanges(x, PrefixRange(pfx))
                                /\ TypeLow(type) <= x /\ x <= TypeHigh(type)
    <2>1. PrefixRange(pfx) \in Seq(Pairs) /\ Len(PrefixRange(pfx)) <= 2
      BY <1>3 DEF RangesMeant
    <2> QED BY <2>1, Limits
  <1>5. z \in Nat /\ z < Len(pfx) /\ z < AddrLen
    <2>1. z < Len(pfx) /\ z < AddrLen - 1
      BY <1>1, <1>2 DEF InReach
    <2>2. pfx \in Seq(Nat)
      <3>1. Base \in Nat
        BY RangesAssumption
      <3> QED BY <3>1, DigitsAreNumbers
    <2>3. Leading(pfx) \in 0 .. Len(pfx)
      BY <2>2, LeadingRule
    <2>4. z \in Nat
      BY <1>2, <2>3 DEF Zeros
    <2> QED BY <2>1, <2>4, RangesAssumption
  <1>6. ASSUME NEW x \in TypeLow(type) .. TypeHigh(type)
        PROVE x \in Nat /\ x < Pow(Byte, AddrLen) /\ TypeLow(type) <= x /\ x <= TypeHigh(type)
    <2>1. Byte \in Nat /\ Byte \in Nat \ {0} /\ type \in Nat /\ type + 1 \in Nat /\ type + 1 <= Byte
      BY RangesAssumption
    <2>2. PICK i \in Nat : i = AddrLen - 1 /\ AddrLen = i + 1
      <3>1. AddrLen - 1 \in Nat /\ AddrLen = (AddrLen - 1) + 1
        BY RangesAssumption
      <3> QED BY <3>1
    <2>3. PICK p \in Nat \ {0} : p = Pow(Byte, AddrLen - 1) /\ Pow(Byte, AddrLen) = Byte * p
      <3>1. Pow(Byte, i) \in Nat \ {0} /\ Pow(Byte, i + 1) = Byte * Pow(Byte, i)
        BY <2>1, PowRule, PowPositive
      <3> QED BY <2>2, <3>1
    <2>4. PICK a \in Nat, e \in Nat, q \in Nat : a = type * p /\ e = (type + 1) * p /\ q = Byte * p /\ e <= q
      <3>1. type * p \in Nat /\ (type + 1) * p \in Nat /\ Byte * p \in Nat
        BY <2>1
      <3>2. (type + 1) * p <= Byte * p
        BY <2>1, Factors
      <3> QED BY <3>1, <3>2
    <2>5. TypeLow(type) = a /\ TypeHigh(type) = e - 1
      BY <2>3, <2>4 DEF TypeLow, TypeHigh
    <2>6. x \in a .. e - 1
      BY <2>5
    <2> QED BY <2>3, <2>4, <2>5, <2>6
  <1>7. ASSUME NEW x \in TypeLow(type) .. TypeHigh(type)
        PROVE Spelt(x, pfx) <=> Floor(z) <= x /\ x <= Ceil(z) /\ Starting(x, pfx, z)
    BY <1>2, <1>5, <1>6, SpeltRule DEF Starting
  <1>8. ASSUME NEW x \in TypeLow(type) .. TypeHigh(type)
        PROVE InRanges(x, Ranges(type, pfx)) <=> Spelt(x, pfx) /\ TwoLongest(x, z)
    BY <1>3, <1>4, <1>6, <1>7 DEF RangesMeant
  <1> QED BY <1>2, <1>3, <1>4, <1>8 DEF RangesMeant, Ends

-------------------------------------------------------------------------------
(* Every input *)

LEMMA InputKinds ==
  ASSUME InputTypeOK
  PROVE /\ kind = "prefix" => input \in Seq(0 .. Base - 1)
        /\ kind = "bounds" => input \in Seq(Hashes)
        /\ kind = "suffix" => input \in Seq(0 .. DBASE - 1)
        /\ kind = "hexsuffix" => input \in Seq(0 .. HEX - 1)
        /\ kind = "base58" => input \in Seq((0 .. BYTE - 1) \cup {Space, Space + 1})
  BY DEF InputTypeOK, AddressSymbols

\* Whatever the prefix and the type, the ranges of get_prefix_ranges are the addresses written
\* with it; whatever the bytes, Base58 reads back what it writes.
THEOREM AddressesWritten ==
  ASSUME InputTypeOK
  PROVE AddressesAsWritten
  BY InputKinds, PrefixRangesRight, Base58RoundTrip DEF AddressesAsWritten

\* Whatever the table, the hash and the suffix, the kernel reports what the host accepts, and
\* its entries have the bytes of the hash for whatever bound.
THEOREM KernelAgrees ==
  ASSUME InputTypeOK
  PROVE KernelFindsWhatHostAccepts
  <1>1. kind = "bounds" => SearchRight(input)
    BY InputKinds, KernelSearchRight
  <1>2. kind = "suffix" => SuffixRight(input)
    BY InputKinds, KernelSuffixRight
  <1>3. kind = "hexsuffix" => HexSuffixRight(input)
    BY InputKinds, KernelHexSuffixRight
  <1>4. ASSUME kind = "base58", \A i \in DOMAIN input : input[i] \in 0 .. BYTE - 1,
               NEW tail \in {<<>>, <<0, 0>>, <<1, BYTE - 1>>}
        PROVE EntryRight(Number(input \o tail, BYTE))
    <2>1. input \in Seq(0 .. BYTE - 1)
      <3>1. PICK V, W : V = (0 .. BYTE - 1) \cup {Space, Space + 1} /\ W = 0 .. BYTE - 1
        OBVIOUS
      <3>2. input \in Seq(V)
        BY <1>4, <3>1, InputKinds
      <3>3. \A i \in DOMAIN input : input[i] \in W
        BY <1>4, <3>1
      <3>4. (\A i \in DOMAIN input : input[i] \in W) => input \in Seq(W)
        BY <3>2, Elements
      <3> QED BY <3>1, <3>3, <3>4
    <2>2. BYTE \in Nat /\ BYTE - 1 \in Nat
      BY Base58Assumption
    <2>3. input \in Seq(Nat)
      BY <2>1, <2>2, DigitsAreNumbers
    <2>4. tail \in Seq(Nat)
      <3>1. <<>> \in Seq(Nat) /\ <<0, 0>> \in Seq(Nat) /\ <<1, BYTE - 1>> \in Seq(Nat)
        BY <2>2
      <3> QED BY <3>1
    <2>5. input \o tail \in Seq(Nat)
      BY <2>3, <2>4, ConcatProperties
    <2> QED BY <2>2, <2>5, NumberRule, KernelEntryRight
  <1> QED BY <1>1, <1>2, <1>3, <1>4 DEF KernelFindsWhatHostAccepts

-------------------------------------------------------------------------------
(* The memory of the kernels, for every stride and every number of words *)

CONSTANTS STRIDE, NWORDS

Memory == INSTANCE KernelMemory

\* What the layout assumes.
LEMMA LayoutFacts ==
  ASSUME Memory!LayoutAssumed
  PROVE /\ STRIDE \in Nat \ {0} /\ NWORDS \in Nat \ {0}
        /\ Memory!Bundle \in Nat \ {0} /\ Memory!Bundle = STRIDE * NWORDS
        /\ STRIDE \div 2 \in Nat \ {0} /\ STRIDE = 2 * (STRIDE \div 2)
  <1>1. STRIDE \in Nat \ {0} /\ NWORDS \in Nat \ {0} /\ STRIDE % 2 = 0
    BY DEF Memory!LayoutAssumed
  <1>2. STRIDE * NWORDS \in Nat \ {0}
    BY <1>1
  <1> QED BY <1>1, <1>2 DEF Memory!Bundle

\* Word i of the number that begins at r in bundle q.
LEMMA InBundle ==
  ASSUME Memory!LayoutAssumed, NEW q \in Nat, NEW r \in 0 .. STRIDE - 1, NEW i \in 1 .. NWORDS
  PROVE /\ Memory!WordPlace((q * Memory!Bundle) + r, i) = (((q * NWORDS) + (i - 1)) * STRIDE) + r
        /\ (q * NWORDS) + (i - 1) \in Nat
        /\ Memory!WordPlace((q * Memory!Bundle) + r, i) \in 0 .. ((q + 1) * Memory!Bundle) - 1
  <1>1. /\ STRIDE \in Nat \ {0} /\ NWORDS \in Nat \ {0} /\ Memory!Bundle = STRIDE * NWORDS
    BY LayoutFacts
  <1>2. q * (STRIDE * NWORDS) = (q * NWORDS) * STRIDE
    BY <1>1
  <1>3. PICK w \in Nat : w = q * NWORDS
    BY <1>1
  <1>4. (w + (i - 1)) * STRIDE = (w * STRIDE) + ((i - 1) * STRIDE)
    BY <1>1
  <1>5. Memory!WordPlace((q * Memory!Bundle) + r, i) = ((w + (i - 1)) * STRIDE) + r
    BY <1>1, <1>2, <1>3, <1>4 DEF Memory!WordPlace
  <1>6. PICK n \in Nat : NWORDS = i + n
    <2>1. NWORDS - i \in Nat /\ NWORDS = i + (NWORDS - i)
      BY <1>1
    <2> QED BY <2>1
  <1>7. NWORDS * STRIDE = ((i - 1) * STRIDE) + STRIDE + (n * STRIDE)
    BY <1>1, <1>6
  <1>8. n * STRIDE \in Nat /\ (i - 1) * STRIDE \in Nat /\ w * STRIDE \in Nat
    <2>1. i - 1 \in Nat
      OBVIOUS
    <2> QED BY <1>1, <2>1
  <1>9. (q + 1) * Memory!Bundle = (w * STRIDE) + (NWORDS * STRIDE)
    <2>1. (q + 1) * (STRIDE * NWORDS) = q * (STRIDE * NWORDS) + STRIDE * NWORDS
      BY <1>1
    <2> QED BY <1>1, <1>2, <1>3, <2>1
  <1>10. /\ (w * STRIDE) + ((i - 1) * STRIDE) + r \in Nat
         /\ (w * STRIDE) + ((i - 1) * STRIDE) + r < (w * STRIDE) + (NWORDS * STRIDE)
    BY <1>1, <1>7, <1>8
  <1>11. ((q + 1) * Memory!Bundle) \in Nat
    BY <1>1
  <1>12. /\ Memory!WordPlace((q * Memory!Bundle) + r, i) \in Nat
         /\ Memory!WordPlace((q * Memory!Bundle) + r, i) < ((q + 1) * Memory!Bundle)
    BY <1>4, <1>5, <1>9, <1>10
  <1>13. Memory!WordPlace((q * Memory!Bundle) + r, i) \in 0 .. ((q + 1) * Memory!Bundle) - 1
    BY <1>11, <1>12
  <1> QED BY <1>3, <1>5, <1>13

\* Two places that are one are the same word of the same number.
LEMMA WordsApart ==
  ASSUME Memory!LayoutAssumed,
         NEW q \in Nat, NEW r \in 0 .. STRIDE - 1, NEW i \in 1 .. NWORDS,
         NEW p \in Nat, NEW t \in 0 .. STRIDE - 1, NEW j \in 1 .. NWORDS,
         Memory!WordPlace((q * Memory!Bundle) + r, i) = Memory!WordPlace((p * Memory!Bundle) + t, j)
  PROVE q = p /\ r = t /\ i = j
  <1>1. STRIDE \in Nat \ {0} /\ NWORDS \in Nat \ {0}
    BY LayoutFacts
  <1>2. /\ (q * NWORDS) + (i - 1) = (p * NWORDS) + (j - 1) /\ r = t
    <2>1. /\ (q * NWORDS) + (i - 1) \in Nat /\ (p * NWORDS) + (j - 1) \in Nat
          /\ (((q * NWORDS) + (i - 1)) * STRIDE) + r = (((p * NWORDS) + (j - 1)) * STRIDE) + t
      BY InBundle
    <2> QED BY <1>1, <2>1, Unique
  <1>3. i - 1 \in 0 .. NWORDS - 1 /\ j - 1 \in 0 .. NWORDS - 1
    BY <1>1
  <1>4. q = p /\ i - 1 = j - 1
    BY <1>1, <1>2, <1>3, Unique
  <1> QED BY <1>2, <1>4

\* Where a number begins, and a coordinate.
LEMMA CellStarts ==
  ASSUME Memory!LayoutAssumed, NEW c \in Nat
  PROVE /\ Memory!ZStart(c) = ((c \div STRIDE) * Memory!Bundle) + (c % STRIDE)
        /\ c \div STRIDE \in Nat /\ c % STRIDE \in 0 .. STRIDE - 1
        /\ c = ((c \div STRIDE) * STRIDE) + (c % STRIDE)
        /\ Memory!XStart(c) = ((c \div (STRIDE \div 2)) * Memory!Bundle) + (c % (STRIDE \div 2))
        /\ Memory!YStart(c) = ((c \div (STRIDE \div 2)) * Memory!Bundle)
                                + ((c % (STRIDE \div 2)) + (STRIDE \div 2))
        /\ c \div (STRIDE \div 2) \in Nat
        /\ c % (STRIDE \div 2) \in 0 .. (STRIDE \div 2) - 1
        /\ c = ((c \div (STRIDE \div 2)) * (STRIDE \div 2)) + (c % (STRIDE \div 2))
  <1> DEFINE h == STRIDE \div 2
  <1>1. /\ STRIDE \in Nat \ {0} /\ h \in Nat \ {0} /\ STRIDE = 2 * h /\ Memory!Bundle \in Nat
    BY LayoutFacts
  <1> HIDE DEF h
  <1>2. c \div h \in Nat /\ c % h \in 0 .. h - 1 /\ c = ((c \div h) * h) + (c % h)
    BY <1>1, Divides
  <1>3. c \div STRIDE \in Nat /\ c % STRIDE \in 0 .. STRIDE - 1 /\ c = ((c \div STRIDE) * STRIDE) + (c % STRIDE)
    BY <1>1, Divides
  <1>4. (2 * c) \div STRIDE = c \div h
    <2>1. PICK q \in Nat, r \in 0 .. h - 1 : q = c \div h /\ c = (q * h) + r
      BY <1>2
    <2>2. 2 * c = (q * (2 * h)) + (2 * r)
      <3>1. q * (2 * h) = 2 * (q * h)
        BY <1>1
      <3>2. q * h \in Nat
        BY <1>1
      <3> QED BY <2>1, <3>1, <3>2
    <2>3. 2 * r \in 0 .. (2 * h) - 1
      BY <1>1
    <2>4. PICK p \in Nat, t \in 0 .. STRIDE - 1 : p = (2 * c) \div STRIDE /\ 2 * c = (p * STRIDE) + t
      <3>1. PICK a \in Nat : a = 2 * c
        OBVIOUS
      <3>2. a \div STRIDE \in Nat /\ a % STRIDE \in 0 .. STRIDE - 1 /\ a = ((a \div STRIDE) * STRIDE) + (a % STRIDE)
        BY <1>1, Divides
      <3> QED BY <3>1, <3>2
    <2>5. (q * STRIDE) + (2 * r) = (p * STRIDE) + t /\ 2 * r \in 0 .. STRIDE - 1
      BY <1>1, <2>2, <2>3, <2>4
    <2>6. q = p
      BY <1>1, <2>5, Unique
    <2> QED BY <2>1, <2>4, <2>6
  <1>5. (c \div h) * Memory!Bundle \in Nat
    BY <1>1, <1>2
  <1>6. /\ Memory!XStart(c) = ((c \div h) * Memory!Bundle) + (c % h)
        /\ Memory!YStart(c) = ((c \div h) * Memory!Bundle) + ((c % h) + h)
    <2>1. Memory!XStart(c) = ((c \div h) * Memory!Bundle) + (c % h)
      BY <1>4 DEF Memory!XStart, h
    <2>2. Memory!YStart(c) = Memory!XStart(c) + h
      BY DEF Memory!YStart, h
    <2> QED BY <1>1, <1>2, <1>5, <2>1, <2>2
  <1> QED BY <1>2, <1>3, <1>6 DEF Memory!ZStart, h

\* The words of so many bundles fit, if the sizes in words exceed those of the bundles before.
LEMMA Fits ==
  ASSUME Memory!LayoutAssumed, NEW q \in Nat, NEW r \in 0 .. STRIDE - 1, NEW i \in 1 .. NWORDS,
         NEW words \in Nat, q * Memory!Bundle < words
  PROVE Memory!WordPlace((q * Memory!Bundle) + r, i)
          \in 0 .. Memory!round_up_pow2(words, Memory!Bundle) - 1
  <1> DEFINE b == Memory!Bundle
             n == (words + (b - 1)) \div b
  <1>1. b \in Nat \ {0}
    BY LayoutFacts
  <1>2. Memory!WordPlace((q * Memory!Bundle) + r, i) \in 0 .. ((q + 1) * b) - 1
    BY InBundle
  <1>2a. q * b < words
    OBVIOUS
  <1>2b. Memory!round_up_pow2(words, b) = n * b
    BY DEF Memory!round_up_pow2
  <1> HIDE DEF b
  <1>3. words + (b - 1) \in Nat /\ (q + 1) * b <= words + (b - 1)
    <2>1. (q + 1) * b = (q * b) + b
      BY <1>1
    <2>2. q * b \in Nat
      BY <1>1
    <2> QED BY <1>1, <1>2a, <2>1, <2>2
  <1>4. n \in Nat /\ q + 1 <= n
    <2>1. PICK a \in Nat : a = words + (b - 1)
      BY <1>3
    <2>2. a \div b \in Nat
      BY <1>1, Divides
    <2>3. q + 1 <= a \div b
      BY <1>1, <1>3, <2>1, AtLeast
    <2> QED BY <2>1, <2>2, <2>3
  <1> HIDE DEF n
  <1>5. PICK m \in Nat : n = q + 1 + m
    <2>1. n - (q + 1) \in Nat /\ n = q + 1 + (n - (q + 1))
      BY <1>4
    <2> QED BY <2>1
  <1>6. n * b = ((q + 1) * b) + (m * b)
    BY <1>1, <1>5
  <1>7. m * b \in Nat /\ (q + 1) * b \in Nat
    BY <1>1
  <1> QED BY <1>2, <1>2b, <1>6, <1>7 DEF b

\* The words of cells up to c are more than those of the bundles before c's.
LEMMA WordsBefore ==
  ASSUME NEW s \in Nat \ {0}, NEW w \in Nat \ {0}, NEW q \in Nat, NEW r \in Nat,
         NEW cells \in Nat, (q * s) + r < cells
  PROVE w * cells \in Nat /\ q * (s * w) < w * cells
  <1>1. PICK n \in Nat : cells = (q * s) + 1 + n
    <2>1. q * s \in Nat
      OBVIOUS
    <2>2. cells - ((q * s) + 1) \in Nat /\ cells = (q * s) + 1 + (cells - ((q * s) + 1))
      BY <2>1
    <2> QED BY <2>2
  <1>2. w * cells = (q * (s * w)) + w + (n * w)
    BY <1>1
  <1>3. n * w \in Nat /\ q * (s * w) \in Nat
    <2>1. s * w \in Nat
      OBVIOUS
    <2> QED BY <2>1
  <1> QED BY <1>2, <1>3

\* However many cells a grid has and whatever the stride, the kernels and the host
\* (vg_ocl_get_bignum_tpa, vg_ocl_put_point_tpa) put no two words of their numbers in one place
\* of a buffer, nor of the coordinates of their points: the xs of a bundle end before the ys.
THEOREM LayoutApart ==
  ASSUME Memory!LayoutAssumed, NEW cells \in Nat
  PROVE Memory!NumbersApart(cells) /\ Memory!PointsApart(cells)
  <1>1. STRIDE \in Nat \ {0} /\ STRIDE \div 2 \in Nat \ {0} /\ STRIDE = 2 * (STRIDE \div 2)
    BY LayoutFacts
  <1>2. SUFFICES ASSUME NEW c \in 0 .. cells - 1, NEW d \in 0 .. cells - 1,
                        NEW i \in 1 .. NWORDS, NEW j \in 1 .. NWORDS
                 PROVE /\ Memory!WordPlace(Memory!ZStart(c), i) = Memory!WordPlace(Memory!ZStart(d), j)
                            => c = d /\ i = j
                       /\ Memory!WordPlace(Memory!XStart(c), i) = Memory!WordPlace(Memory!XStart(d), j)
                            => c = d /\ i = j
                       /\ Memory!WordPlace(Memory!YStart(c), i) = Memory!WordPlace(Memory!YStart(d), j)
                            => c = d /\ i = j
                       /\ Memory!WordPlace(Memory!XStart(c), i) # Memory!WordPlace(Memory!YStart(d), j)
    BY DEF Memory!NumbersApart, Memory!PointsApart
  <1>3. c \in Nat /\ d \in Nat
    OBVIOUS
  <1>4. ASSUME Memory!WordPlace(Memory!ZStart(c), i) = Memory!WordPlace(Memory!ZStart(d), j)
        PROVE c = d /\ i = j
    <2>1. PICK q \in Nat, r \in 0 .. STRIDE - 1 :
            Memory!ZStart(c) = (q * Memory!Bundle) + r /\ c = (q * STRIDE) + r
      BY <1>3, CellStarts
    <2>2. PICK p \in Nat, t \in 0 .. STRIDE - 1 :
            Memory!ZStart(d) = (p * Memory!Bundle) + t /\ d = (p * STRIDE) + t
      BY <1>3, CellStarts
    <2>3. q = p /\ r = t /\ i = j
      BY <1>4, <2>1, <2>2, WordsApart
    <2> QED BY <2>1, <2>2, <2>3
  <1> DEFINE h == STRIDE \div 2
             qc == c \div h
             rc == c % h
             qd == d \div h
             rd == d % h
  <1>5. /\ Memory!XStart(c) = (qc * Memory!Bundle) + rc /\ Memory!YStart(c) = (qc * Memory!Bundle) + (rc + h)
        /\ qc \in Nat /\ rc \in 0 .. h - 1 /\ c = (qc * h) + rc
        /\ Memory!XStart(d) = (qd * Memory!Bundle) + rd /\ Memory!YStart(d) = (qd * Memory!Bundle) + (rd + h)
        /\ qd \in Nat /\ rd \in 0 .. h - 1 /\ d = (qd * h) + rd
    BY <1>3, CellStarts
  <1>6. h \in Nat \ {0} /\ STRIDE = 2 * h
    BY <1>1
  <1> HIDE DEF h, qc, rc, qd, rd
  <1>7. /\ rc \in 0 .. STRIDE - 1 /\ rc + h \in 0 .. STRIDE - 1
        /\ rd \in 0 .. STRIDE - 1 /\ rd + h \in 0 .. STRIDE - 1
        /\ rc # rd + h
    BY <1>5, <1>6
  <1>8. ASSUME Memory!WordPlace(Memory!XStart(c), i) = Memory!WordPlace(Memory!XStart(d), j)
        PROVE c = d /\ i = j
    <2>1. qc = qd /\ rc = rd /\ i = j
      BY <1>5, <1>7, <1>8, WordsApart, SMTT(30)
    <2> QED BY <1>5, <2>1
  <1>9. ASSUME Memory!WordPlace(Memory!YStart(c), i) = Memory!WordPlace(Memory!YStart(d), j)
        PROVE c = d /\ i = j
    <2>1. qc = qd /\ rc + h = rd + h /\ i = j
      BY <1>5, <1>7, <1>9, WordsApart
    <2>2. rc = rd
      BY <1>5, <1>6, <2>1
    <2> QED BY <1>5, <2>1, <2>2
  <1>10. ASSUME Memory!WordPlace(Memory!XStart(c), i) = Memory!WordPlace(Memory!YStart(d), j)
         PROVE FALSE
    <2>1. rc = rd + h
      BY <1>5, <1>7, <1>10, WordsApart
    <2> QED BY <1>7, <2>1
  <1> QED BY <1>4, <1>8, <1>9, <1>10

\* The buffers vg_opencl_loop makes for a round have every place the kernels use, although
\* the last bundle need not be full.
THEOREM LayoutFits ==
  ASSUME Memory!LayoutAssumed, NEW cells \in Nat
  PROVE Memory!BuffersLargeEnough(cells)
  <1> DEFINE h == STRIDE \div 2
  <1>1. /\ STRIDE \in Nat \ {0} /\ NWORDS \in Nat \ {0} /\ Memory!Bundle = STRIDE * NWORDS
        /\ h \in Nat \ {0} /\ STRIDE = 2 * h
    BY LayoutFacts
  <1>2. SUFFICES ASSUME NEW c \in 0 .. cells - 1, NEW i \in 1 .. NWORDS
                 PROVE /\ Memory!WordPlace(Memory!ZStart(c), i) \in 0 .. Memory!NumberWords(cells) - 1
                       /\ Memory!WordPlace(Memory!XStart(c), i) \in 0 .. Memory!PointWords(cells) - 1
                       /\ Memory!WordPlace(Memory!YStart(c), i) \in 0 .. Memory!PointWords(cells) - 1
    BY DEF Memory!BuffersLargeEnough
  <1>3. c \in Nat /\ c < cells
    OBVIOUS
  <1>4. Memory!WordPlace(Memory!ZStart(c), i) \in 0 .. Memory!NumberWords(cells) - 1
    <2>1. PICK q \in Nat, r \in 0 .. STRIDE - 1 :
            Memory!ZStart(c) = (q * Memory!Bundle) + r /\ c = (q * STRIDE) + r
      BY <1>3, CellStarts
    <2>2. NWORDS * cells \in Nat /\ q * Memory!Bundle < NWORDS * cells
      BY <1>1, <1>3, <2>1, WordsBefore
    <2> QED BY <2>1, <2>2, Fits DEF Memory!NumberWords
  <1>5. PICK q \in Nat, r \in 0 .. h - 1 :
          /\ Memory!XStart(c) = (q * Memory!Bundle) + r
          /\ Memory!YStart(c) = (q * Memory!Bundle) + (r + h)
          /\ c = (q * h) + r
    BY <1>3, CellStarts
  <1> HIDE DEF h
  <1>6. NWORDS * 2 * cells \in Nat /\ q * Memory!Bundle < NWORDS * 2 * cells
    <2>1. NWORDS * 2 \in Nat \ {0} /\ h * (NWORDS * 2) = STRIDE * NWORDS
      BY <1>1
    <2> QED BY <1>1, <1>3, <1>5, <2>1, WordsBefore
  <1>7. r \in 0 .. STRIDE - 1 /\ r + h \in 0 .. STRIDE - 1
    BY <1>1
  <1> QED BY <1>4, <1>5, <1>6, <1>7, Fits DEF Memory!PointWords
==============================================================================
