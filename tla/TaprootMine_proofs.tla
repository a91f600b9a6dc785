-------------------------- MODULE TaprootMine_proofs --------------------------
(***************************************************************************)
(* Proofs about the standalone taproot programs, for every group, tweak,   *)
(* pattern and number of threads.  A match that is printed leads back to   *)
(* its address by the arithmetic of the group alone, whatever the threads  *)
(* do in between; that they share the keys out is so while all of them     *)
(* together have not gone round the group (NoWrap).                        *)
(***************************************************************************)
EXTENDS TaprootMine, FiniteSetTheorems, TLAPS

\* The group has more points than are tested.
NoWrap == nthreads * MaxKeys <= Order

\* The key a thread tests after n others.
NthKey(t, n) == (base + t + n * Stride) % Order

ConfigInv ==
  /\ program \in Programs /\ mode_split \in BOOLEAN
  /\ mode_split => alice \in Scalars /\ base \in Scalars /\ program # "taproot"
  /\ ~mode_split => alice = 0

ThreadsInv ==
  /\ \A t \in Threads : t >= started => at[t] = "none"
  /\ main = "join" \/ main = "create" \/ \A t \in Threads : at[t] \in {"none", "ended"}
  /\ \A t \in Threads : at[t] = "record" => Address(program, point[t]) \in Wanted
  /\ \A t \in Threads : zeroed[t] => at[t] \notin {"none", "setup"}
  /\ tested \in [Threads -> SUBSET Nat] /\ zeroed \in [Threads -> BOOLEAN]

\* What was printed, as long as the thread has not met the order.
PrintedInv == \A r \in printed :
  /\ r.by \in Threads
  /\ ~zeroed[r.by] =>
       IF mode_split
       THEN /\ Combined(program, alice, r.secret) = <<r.address, r.address>>
            /\ InternalScalar(program, alice, r.secret) = r.internal
       ELSE Derived(program, r.secret) = r.address /\ DerivedTaproot(r.secret) = r.address

\* The keys a thread has tested are the first of its own.
KeysOf(t) ==
  /\ IsFiniteSet(tested[t]) /\ Cardinality(tested[t]) <= MaxKeys
  /\ at[t] \in {"none", "setup"} => tested[t] = {}
  /\ at[t] = "top" => Cardinality(tested[t]) < MaxKeys
  /\ mode_split /\ ~zeroed[t] =>
       /\ \A s \in tested[t] : \E j \in 0 .. Cardinality(tested[t]) - 1 : s = NthKey(t, j)
       /\ at[t] = "top" => scalar[t] = NthKey(t, Cardinality(tested[t]))
       /\ at[t] \in {"record", "next"} =>
            /\ Cardinality(tested[t]) >= 1
            /\ scalar[t] = NthKey(t, Cardinality(tested[t]) - 1)

KeysInv == \A t \in Threads : KeysOf(t)

CountInv ==
  /\ found <= stop_after
  /\ found # 0 => printed # {}
  /\ main = "ok" => found = stop_after

MineInv == TypeOK /\ ConfigInv /\ ThreadsInv /\ PrintedInv /\ CountInv

-------------------------------------------------------------------------------
(* The integers modulo the order *)

LEMMA Sizes == /\ Order \in Nat \ {0} /\ Order > 1 /\ nthreads \in Nat \ {0}
               /\ stop_after \in Nat \ {0} /\ MaxKeys \in Nat \ {0}
  BY TaprootAssumption

LEMMA MulNat == ASSUME NEW a \in Nat, NEW b \in Nat PROVE a * b \in Nat
  OBVIOUS

LEMMA Remainder == ASSUME NEW k \in Nat, NEW d \in Nat \ {0}
                   PROVE k % d \in 0 .. d - 1
  OBVIOUS

LEMMA Quotient == ASSUME NEW k \in Nat, NEW d \in Nat \ {0}
                  PROVE k \div d \in Int
  BY Z3

LEMMA Divided == ASSUME NEW k \in Nat, NEW d \in Nat \ {0}
                 PROVE k = d * (k \div d) + (k % d)
  OBVIOUS

LEMMA RemainderOf == ASSUME NEW k \in Nat, NEW d \in Nat \ {0}, NEW q \in Int,
                            NEW r \in 0 .. d - 1, k = d * q + r
                     PROVE k % d = r
  OBVIOUS

LEMMA RemainderSmall == ASSUME NEW d \in Nat \ {0}, NEW r \in 0 .. d - 1
                        PROVE r % d = r
  <1>1. r \in Nat /\ r = d * 0 + r
    OBVIOUS
  <1> QED BY <1>1, RemainderOf

\* To reduce a summand first makes no difference.
LEMMA ModAdd == ASSUME NEW a \in Nat, NEW b \in Nat, NEW d \in Nat \ {0}
                PROVE ((a % d) + b) % d = (a + b) % d
  <1> DEFINE r == a % d
             q == a \div d
             s == (r + b) % d
             p == (r + b) \div d
  <1>1. r \in 0 .. d - 1 /\ a = d * q + r
    BY Remainder, Divided
  <1>2. q \in Int
    BY Quotient
  <1> HIDE DEF r, q
  <1>3. r + b \in Nat
    BY <1>1
  <1>4. s \in 0 .. d - 1 /\ r + b = d * p + s
    BY <1>3, Remainder, Divided
  <1>5. p \in Int
    BY <1>3, Quotient
  <1> HIDE DEF s, p
  <1>6. a + b = d * (q + p) + s /\ a + b \in Nat /\ q + p \in Int
    BY <1>1, <1>2, <1>4, <1>5
  <1>7. (a + b) % d = s
    BY <1>4, <1>6, RemainderOf
  <1> QED BY <1>7 DEF s, r

LEMMA MulOne == ASSUME NEW d \in Nat, NEW n \in Int, n >= 1 PROVE d * n >= d
  <1>1. n - 1 \in Nat
    OBVIOUS
  <1>2. d * (n - 1) \in Nat
    BY <1>1, MulNat
  <1>3. d * n = d * (n - 1) + d
    OBVIOUS
  <1> QED BY <1>2, <1>3

\* Numbers less than the order apart are the same if their remainders are.
LEMMA ModSame == ASSUME NEW a \in Nat, NEW b \in Nat, NEW d \in Nat \ {0},
                        a <= b, b - a < d, a % d = b % d
                 PROVE a = b
  <1> DEFINE p == a \div d
             q == b \div d
             r == a % d
             s == b % d
  <1>1. p \in Int /\ q \in Int
    BY Quotient
  <1>2. r \in 0 .. d - 1 /\ a = d * p + r /\ b = d * q + s /\ r = s
    BY Remainder, Divided
  <1> HIDE DEF p, q, r, s
  <1>3. b - a = d * (q - p) /\ q - p \in Int
    BY <1>1, <1>2
  <1>4. q - p < 1
    <2> SUFFICES ASSUME q - p >= 1 PROVE FALSE
      BY <1>3
    <2>1. d * (q - p) >= d
      BY <1>3, MulOne
    <2> QED BY <2>1, <1>3
  <1>5. q - p > -1
    <2> SUFFICES ASSUME q - p <= -1 PROVE FALSE
      BY <1>3
    <2>1. p - q \in Int /\ p - q >= 1
      BY <1>1
    <2>2. d * (p - q) >= d
      BY <2>1, MulOne
    <2>3. d * (p - q) = -(d * (q - p))
      BY <1>1
    <2> QED BY <2>2, <2>3, <1>3
  <1>6. q - p = 0
    BY <1>3, <1>4, <1>5
  <1> QED BY <1>3, <1>6

LEMMA RemainderUnique ==
  ASSUME NEW d \in Nat \ {0}, NEW k \in Nat
  PROVE \A q, p \in Int : \A r, s \in 0 .. d - 1 :
          k = d * q + r /\ k = d * p + s => r = s
  <1>1. \A q \in Int : \A r \in 0 .. d - 1 : k = d * q + r => k % d = r
    BY RemainderOf
  <1> QED BY <1>1

\* A thread's number and how often it has gone on are known from where it is.
LEMMA Mixed == ASSUME NEW d \in Nat \ {0}, NEW t \in 0 .. d - 1, NEW u \in 0 .. d - 1,
                      NEW i \in Nat, NEW j \in Nat, t + i * d = u + j * d
               PROVE t = u /\ i = j
  <1> DEFINE k == t + i * d
  <1>1. k \in Nat /\ k = d * i + t /\ k = d * j + u /\ i \in Int /\ j \in Int
    <2>1. i * d \in Nat
      BY MulNat
    <2> QED BY <2>1
  <1> HIDE DEF k
  <1>2. \A q, p \in Int : \A r, s \in 0 .. d - 1 :
          k = d * q + r /\ k = d * p + s => r = s
    BY <1>1, RemainderUnique
  <1>3. t = u
    BY <1>1, <1>2
  <1>4. d * i = d * j
    BY <1>1, <1>3
  <1>5. d * (i - j) = 0
    BY <1>4
  <1>6. ~(i - j >= 1)
    BY <1>5, MulOne
  <1>7. ~(j - i >= 1)
    <2> SUFFICES ASSUME j - i >= 1 PROVE FALSE
      OBVIOUS
    <2>1. d * (j - i) >= d
      BY MulOne
    <2>2. d * (j - i) = -(d * (i - j))
      OBVIOUS
    <2> QED BY <2>1, <2>2, <1>5
  <1> QED BY <1>3, <1>6, <1>7

LEMMA StrideIs == /\ Stride \in Nat \ {0} /\ Stride <= nthreads
                  /\ Threads = 0 .. Stride - 1
  <1> DEFINE n == IF program = "optimized" THEN nthreads ELSE 1
  <1>1. n \in Nat \ {0} /\ n <= nthreads /\ Threads = 0 .. n - 1
    BY Sizes DEF Threads
  <1> HIDE DEF n
  <1>2. Cardinality(0 .. n - 1) = n
    <2>1. 0 \in Int /\ n - 1 \in Int /\ ~(0 > n - 1) /\ n - 1 - 0 + 1 = n
      BY <1>1
    <2> QED BY <2>1, FS_Interval
  <1> QED BY <1>1, <1>2 DEF Stride

\* The keys of the threads are apart.
LEMMA KeysApart ==
  ASSUME NoWrap, base \in Nat, NEW t \in Threads, NEW u \in Threads,
         NEW i \in 0 .. MaxKeys - 1, NEW j \in 0 .. MaxKeys - 1,
         NthKey(t, i) = NthKey(u, j)
  PROVE t = u /\ i = j
  <1> DEFINE d == Stride
             a == t + i * d
             b == u + j * d
  <1>1. d \in Nat \ {0} /\ d <= nthreads /\ t \in 0 .. d - 1 /\ u \in 0 .. d - 1
    BY StrideIs
  <1>2. i \in Nat /\ j \in Nat /\ MaxKeys \in Nat /\ nthreads \in Nat /\ Order \in Nat \ {0}
    BY Sizes
  <1>3. ASSUME NEW v \in 0 .. d - 1, NEW n \in 0 .. MaxKeys - 1
        PROVE v + n * d \in 0 .. Order - 1
    <2> HIDE DEF d
    <2>1. n \in Nat /\ v \in Nat /\ MaxKeys - 1 - n \in Nat
      BY <1>1, <1>2
    <2>2. n * d \in Nat /\ (MaxKeys - 1 - n) * d \in Nat /\ (nthreads - d) * MaxKeys \in Nat
      BY <1>1, <1>2, <2>1, MulNat
    <2>3. d * MaxKeys = n * d + d + (MaxKeys - 1 - n) * d
      BY <1>1, <1>2, <2>1
    <2>4. nthreads * MaxKeys = d * MaxKeys + (nthreads - d) * MaxKeys
      BY <1>1, <1>2
    <2>5. n * d + d <= Order
      BY <2>1, <2>2, <2>3, <2>4, <1>1, <1>2 DEF NoWrap
    <2> QED BY <2>1, <2>2, <2>5, <1>1, <1>2
  <1>4. a \in 0 .. Order - 1 /\ b \in 0 .. Order - 1
    BY <1>1, <1>3
  <1>5. (base + a) % Order = (base + b) % Order
    <2>1. i * d \in Nat /\ j * d \in Nat
      BY <1>1, <1>2, MulNat
    <2>2. base + t + i * d = base + a /\ base + u + j * d = base + b
      BY <2>1, <1>1
    <2> QED BY <2>2 DEF NthKey
  <1>6. a = b
    <2> HIDE DEF a, b
    <2>1. base + a \in Nat /\ base + b \in Nat
      BY <1>4, Sizes
    <2>2. base + a = base + b
      <3>1. CASE a <= b
        <4>1. base + a <= base + b /\ (base + b) - (base + a) < Order
          BY <3>1, <1>4, Sizes
        <4> QED BY <4>1, <2>1, <1>2, <1>5, ModSame
      <3>2. CASE b <= a
        <4>1. base + b <= base + a /\ (base + a) - (base + b) < Order
          BY <3>2, <1>4, Sizes
        <4> QED BY <4>1, <2>1, <1>2, <1>5, ModSame
      <3> QED BY <3>1, <3>2, <1>4, Sizes
    <2> QED BY <2>2, <1>4, Sizes
  <1> HIDE DEF d
  <1> QED BY <1>6, <1>1, <1>2, Mixed

-------------------------------------------------------------------------------
(* Keys and addresses *)

\* A point and its negative have one x, and one of them has an even y.
LEMMA EvenOf == ASSUME NEW k \in Scalars
                PROVE /\ Even(k) \in Scalars /\ Even(k) \notin Odd /\ X(Even(k)) = X(k)
                      /\ Tweak[X(k)] \in Scalars /\ X(k) # 0
                      /\ Even(k) = (IF k \in Odd THEN Neg(k) ELSE k)
  <1>1. k \in 1 .. Order - 1 /\ Order \in Nat \ {0}
    BY Sizes DEF Scalars
  <1>2. Order - k \in 0 .. Order - 1
    BY <1>1
  <1>3. Neg(k) = Order - k
    BY <1>1, <1>2, RemainderSmall DEF Neg
  <1>4. Order - k \in Scalars /\ X(Order - k) = X(k) /\ X(k) # 0
    BY <1>1 DEF Scalars, X
  <1>5. k \in Odd => Order - k \notin Odd
    BY TaprootAssumption
  <1>6. Tweak[X(k)] \in Scalars
    <2>1. Tweak \in [{X(i) : i \in Scalars} -> Scalars]
      BY TaprootAssumption
    <2> QED BY <2>1
  <1> QED BY <1>3, <1>4, <1>5, <1>6 DEF Even

LEMMA EvenStays == ASSUME NEW k \in Scalars, k \notin Odd PROVE Even(k) = k
  BY DEF Even

LEMMA ZeroIsEven == 0 \notin Odd /\ 0 \notin Scalars /\ X(0) = 0
  BY Sizes, TaprootAssumption DEF Scalars, X

LEMMA AddressOfEven ==
  ASSUME NEW k \in Scalars, NEW prog
  PROVE Address(prog, Even(k)) = X((Even(k) + Tweak[X(k)]) % Order)
  <1>1. Even(k) \in Scalars /\ Even(k) \notin Odd /\ X(Even(k)) = X(k)
    BY EvenOf
  <1>2. Even(Even(k)) = Even(k)
    BY <1>1, EvenStays
  <1>3. ~Refused(prog, Even(k))
    BY <1>1, ZeroIsEven DEF Refused
  <1> QED BY <1>1, <1>2, <1>3 DEF Address, Output

\* The private key that is printed gives the address of the point that matched.
LEMMA SecretDerives ==
  ASSUME NEW prog \in {"taproot", "split", "optimized"}, NEW k \in 0 .. Order - 1,
         NEW secret, secret = IF prog = "optimized" /\ k \in Odd THEN Neg(k) ELSE k
  PROVE Derived(prog, secret) = Address(prog, k) /\ DerivedTaproot(secret) = Address(prog, k)
  <1>1. CASE k = 0
    <2>1. secret = 0 /\ secret \notin Scalars
      BY <1>1, ZeroIsEven
    <2>2. Address(prog, k) = NoAddress
      BY <1>1 DEF Address, Refused
    <2>3. DerivedTaproot(secret) = NoAddress /\ DerivedSplit(secret) = NoAddress
      BY <2>1 DEF DerivedTaproot, DerivedSplit
    <2>4. DerivedOptimized(secret) = NoAddress
      BY <2>1 DEF DerivedOptimized
    <2> QED BY <2>2, <2>3, <2>4 DEF Derived
  <1>2. CASE k # 0
    <2>1. k \in Scalars
      BY <1>2, Sizes DEF Scalars
    <2>2. CASE prog # "optimized"
      <3>1. secret = k /\ Address(prog, k) = Address("taproot", k)
            /\ Address(prog, k) = Address("split", k)
        BY <2>2 DEF Address, Refused
      <3>2. DerivedTaproot(secret) = Address(prog, k) /\ DerivedSplit(secret) = Address(prog, k)
        BY <3>1, <2>1, <1>2 DEF DerivedTaproot, DerivedSplit
      <3> QED BY <3>2, <2>2 DEF Derived
    <2>3. CASE prog = "optimized"
      <3>1. secret = Even(k) /\ secret \in Scalars /\ Even(secret) = secret
            /\ X(secret) = X(k)
        BY <2>1, <2>3, EvenOf, EvenStays
      <3>2. \A p : Address(p, secret) = X((secret + Tweak[X(k)]) % Order)
        BY <2>1, <3>1, AddressOfEven
      <3>3. Address("optimized", k) = X((secret + Tweak[X(k)]) % Order)
        BY <2>1, <3>1, <1>2 DEF Address, Refused, Output
      <3>4. DerivedTaproot(secret) = Address("optimized", k)
        BY <3>1, <3>2, <3>3 DEF DerivedTaproot
      <3>5. DerivedOptimized(secret) = Address("optimized", k)
        <4>1. CASE (secret + Tweak[X(secret)]) % Order = 0
          BY <4>1, <3>1, <3>3, ZeroIsEven DEF DerivedOptimized, NoAddress
        <4>2. CASE (secret + Tweak[X(secret)]) % Order # 0
          BY <4>2, <3>1, <3>2, <3>3 DEF DerivedOptimized
        <4> QED BY <4>1, <4>2
      <3> QED BY <2>3, <3>4, <3>5 DEF Derived
    <2> QED BY <2>2, <2>3
  <1> QED BY <1>1, <1>2

\* Alice's key and Bob's part give the address of the point that matched.
LEMMA PartsGive ==
  ASSUME NEW prog \in {"split", "optimized"}, NEW a \in Nat, NEW b \in Nat,
         NEW p, p = (a + b) % Order, Address(prog, p) # NoAddress
  PROVE /\ Combined(prog, a, b) = <<Address(prog, p), Address(prog, p)>>
        /\ InternalScalar(prog, a, b) = Even(p)
  <1> DEFINE k == InternalScalar(prog, a, b)
             tweaked == (k + Tweak[X(k)]) % Order
  <1>1. p \in Scalars
    <2>1. p \in 0 .. Order - 1
      BY Sizes, Remainder
    <2>2. p # 0
      BY DEF Address, Refused
    <2> QED BY <2>1, <2>2, Sizes DEF Scalars
  <1>2. prog = "split" => p \notin Odd
    BY DEF Address, Refused
  <1>3. k = Even(p)
    BY <1>1, <1>2, EvenStays DEF InternalScalar
  <1>4. X(k) = X(p)
    BY <1>1, <1>3, EvenOf
  <1>5. Address(prog, k) = X(tweaked)
    BY <1>1, <1>3, <1>4, AddressOfEven
  <1>6. Address(prog, p) = X(tweaked)
    BY <1>3, <1>4 DEF Address, Output
  <1>7. tweaked # 0
    BY <1>6, ZeroIsEven DEF NoAddress
  <1>8. Combined(prog, a, b) = <<Address(prog, k), TweakedAddress(tweaked)>>
    BY <1>5, <1>6, <1>7 DEF Combined
  <1> QED BY <1>3, <1>5, <1>6, <1>8 DEF TweakedAddress

-------------------------------------------------------------------------------
(* The programs: each step keeps MineInv *)

USE DEF config

LEMMA SameThreads == ASSUME UNCHANGED config
                     PROVE Threads' = Threads /\ Stride' = Stride
  BY DEF Threads, Stride

LEMMA InitMine == Init => MineInv
  <1> SUFFICES ASSUME Init PROVE MineInv
    OBVIOUS
  <1>1. ConfigInv
    <2>1. /\ program \in Programs /\ mode_split \in BOOLEAN
          /\ mode_split => program # "taproot"
      BY DEF Init
    <2>2. mode_split => alice \in Scalars /\ base \in Scalars
      BY TaprootAssumption DEF Init
    <2>3. ~mode_split => alice = 0
      BY DEF Init
    <2> QED BY <2>1, <2>2, <2>3 DEF ConfigInv
  <1>2. TypeOK
    <2>1. 0 \in 0 .. Stride /\ 0 \in 0 .. Order - 1
      BY Sizes, StrideIs
    <2>2. /\ scalar \in [Threads -> 0 .. Order - 1] /\ point \in [Threads -> 0 .. Order - 1]
          /\ started \in 0 .. Stride
      BY <2>1 DEF Init
    <2> QED BY <2>2 DEF Init, TypeOK
  <1>3. ThreadsInv
    BY DEF Init, ThreadsInv
  <1>4. PrintedInv /\ CountInv
    BY Sizes DEF Init, PrintedInv, CountInv
  <1> QED BY <1>1, <1>2, <1>3, <1>4 DEF MineInv

\* What was printed stays right: a scalar that has met the order does not forget it.
LEMMA PrintedStays ==
  ASSUME MineInv, UNCHANGED <<config, printed>>,
         \A t \in Threads : zeroed[t] => zeroed'[t]
  PROVE PrintedInv' /\ ConfigInv'
  <1>1. ConfigInv'
    BY DEF MineInv, ConfigInv
  <1>2. PrintedInv'
    BY SameThreads DEF MineInv, PrintedInv
  <1> QED BY <1>1, <1>2

LEMMA MainMine ==
  ASSUME MineInv, Create \/ CreateFails \/ Join \/ UNCHANGED vars
  PROVE MineInv'
  <1> USE DEF MineInv
  <1>1. /\ UNCHANGED <<config, found, scalar, point, tested, zeroed, printed>>
        /\ Threads' = Threads /\ Stride' = Stride
    BY SameThreads DEF Create, CreateFails, Join, vars
  <1>2. PrintedInv' /\ ConfigInv'
    BY <1>1, PrintedStays
  <1>3. /\ at \in [Threads -> {"none", "setup", "top", "record", "next", "ended"}]
        /\ started \in 0 .. Stride /\ stop \in BOOLEAN /\ Stride \in Nat \ {0}
        /\ Threads = 0 .. Stride - 1
    BY StrideIs DEF TypeOK
  <1>4. CASE Create
    <2>1. CASE started < Stride
      <3>1. /\ at' = [at EXCEPT ![started] = "setup"] /\ started' = started + 1
            /\ started \in Threads /\ UNCHANGED <<main, stop>> /\ main = "create"
            /\ started' \in 0 .. Stride
        BY <1>3, <1>4, <2>1 DEF Create
      <3>2. /\ at' \in [Threads -> {"none", "setup", "top", "record", "next", "ended"}]
            /\ at'[started] = "setup"
            /\ \A t \in Threads : t # started => at'[t] = at[t]
        BY <1>3, <3>1
      <3>3. TypeOK'
        BY <1>1, <3>1, <3>2 DEF TypeOK
      <3>4. ASSUME NEW t \in Threads, t >= started' PROVE at'[t] = "none"
        <4>1. t # started /\ t >= started
          BY <3>1, <3>4, <1>3
        <4> QED BY <4>1, <3>2 DEF ThreadsInv
      <3>5. ASSUME NEW t \in Threads, zeroed[t] PROVE at'[t] \notin {"none", "setup"}
        <4>1. \A u \in Threads : zeroed[u] => at[u] \notin {"none", "setup"}
          BY DEF ThreadsInv
        <4>2. at[t] \notin {"none", "setup"}
          BY <4>1, <3>5, Zenon
        <4>3. at[started] = "none"
          BY <3>1, <1>3 DEF ThreadsInv
        <4>4. t # started
          BY <4>2, <4>3
        <4> QED BY <4>2, <4>4, <3>2
      <3>6. ASSUME NEW t \in Threads, at'[t] = "record"
            PROVE Address(program, point[t]) \in Wanted
        <4>1. at[t] = "record"
          BY <3>2, <3>6
        <4> QED BY <4>1 DEF ThreadsInv
      <3>7. /\ tested' \in [Threads' -> SUBSET Nat] /\ zeroed' \in [Threads' -> BOOLEAN]
            /\ main' = "create"
        BY <1>1, <3>1 DEF ThreadsInv
      <3>8. \A t \in Threads : zeroed'[t] => at'[t] \notin {"none", "setup"}
        BY <3>5, <1>1, Zenon
      <3>9. ThreadsInv'
        BY <1>1, <3>4, <3>6, <3>7, <3>8 DEF ThreadsInv
      <3> QED BY <1>1, <1>2, <3>1, <3>3, <3>9 DEF CountInv
    <2>2. CASE ~(started < Stride)
      <3>1. main' = "join" /\ UNCHANGED <<at, started, stop>>
        BY <1>4, <2>2 DEF Create
      <3> QED BY <1>1, <1>2, <3>1 DEF TypeOK, ThreadsInv, CountInv
    <2> QED BY <2>1, <2>2
  <1>5. CASE CreateFails
    <2>1. main' = "join" /\ UNCHANGED <<at, started>> /\ stop' = TRUE
      BY <1>5 DEF CreateFails
    <2> QED BY <1>1, <1>2, <2>1 DEF TypeOK, ThreadsInv, CountInv
  <1>6. CASE Join
    <2>1. /\ UNCHANGED <<at, started, stop>> /\ main' \in {"ok", "failed"}
          /\ main' = "ok" => found = stop_after
          /\ \A t \in Threads : at[t] \in {"none", "ended"}
      BY <1>6 DEF Join
    <2> QED BY <1>1, <1>2, <2>1 DEF TypeOK, ThreadsInv, CountInv
  <1>7. CASE UNCHANGED vars
    <2>1. UNCHANGED <<main, at, started, stop>>
      BY <1>7 DEF vars
    <2> QED BY <1>1, <1>2, <2>1 DEF TypeOK, ThreadsInv, CountInv
  <1> QED BY <1>4, <1>5, <1>6, <1>7

\* What a step of a thread leaves alone, and what has to be shown of it alone.
LEMMA ThreadStep ==
  ASSUME MineInv, NEW t \in Threads, UNCHANGED <<config, main, started, found, printed>>,
         at[t] \notin {"none", "ended"}, at'[t] \notin {"none", "setup"}, stop' \in BOOLEAN,
         at' \in [Threads -> {"none", "setup", "top", "record", "next", "ended"}],
         scalar' \in [Threads -> 0 .. Order - 1], point' \in [Threads -> 0 .. Order - 1],
         zeroed' \in [Threads -> BOOLEAN], tested' \in [Threads -> SUBSET Nat],
         \A u \in Threads : u # t => /\ at'[u] = at[u] /\ scalar'[u] = scalar[u]
                                     /\ point'[u] = point[u] /\ zeroed'[u] = zeroed[u],
         zeroed[t] => zeroed'[t],
         at'[t] \in {"top", "record", "next"} /\ ~zeroed'[t]
           => point'[t] = (alice + scalar'[t]) % Order,
         at'[t] = "record" => Address(program, point'[t]) \in Wanted
  PROVE MineInv'
  <1> USE DEF MineInv
  <1>1. Threads' = Threads /\ Stride' = Stride
    BY SameThreads
  <1>2. PrintedInv' /\ ConfigInv'
    BY PrintedStays
  <1>3. TypeOK'
    <2>1. ASSUME NEW u \in Threads, at'[u] \in {"top", "record", "next"}, ~zeroed'[u]
          PROVE point'[u] = (alice + scalar'[u]) % Order
      <3>1. CASE u = t
        BY <2>1, <3>1
      <3>2. CASE u # t
        BY <2>1, <3>2 DEF TypeOK
      <3> QED BY <3>1, <3>2
    <2>2. main' \in {"create", "join", "ok", "failed"} /\ started' \in 0 .. Stride'
          /\ found' \in Nat
      BY <1>1 DEF TypeOK
    <2> QED BY <2>1, <2>2, <1>1 DEF TypeOK
  <1>4. ThreadsInv'
    <2>1. ~(t >= started) /\ main \in {"create", "join"}
      BY DEF ThreadsInv
    <2>2. ASSUME NEW u \in Threads, at'[u] = "record"
          PROVE Address(program, point'[u]) \in Wanted
      <3>1. CASE u = t
        BY <2>2, <3>1
      <3>2. CASE u # t
        BY <2>2, <3>2 DEF ThreadsInv
      <3> QED BY <3>1, <3>2
    <2>4. ASSUME NEW u \in Threads, zeroed'[u]
          PROVE at'[u] \notin {"none", "setup"}
      <3>1. CASE u = t
        BY <3>1
      <3>2. CASE u # t
        <4>1. at'[u] = at[u] /\ zeroed[u]
          BY <2>4, <3>2
        <4>2. \A v \in Threads : zeroed[v] => at[v] \notin {"none", "setup"}
          BY DEF ThreadsInv
        <4> QED BY <4>1, <4>2, Zenon
      <3> QED BY <3>1, <3>2
    <2>3. \A u \in Threads : u >= started => at'[u] = "none"
      BY <2>1 DEF ThreadsInv
    <2> QED BY <1>1, <2>1, <2>2, <2>3, <2>4 DEF ThreadsInv
  <1>5. CountInv'
    BY DEF CountInv
  <1> QED BY <1>2, <1>3, <1>4, <1>5

-------------------------------------------------------------------------------
(* The steps of a thread *)

\* The scalar goes on modulo the order, and past 0.
LEMMA IncrementedIs ==
  ASSUME NEW s \in Nat, NEW n \in Nat, Order > 1
  PROVE /\ Incremented(s, n) \in 0 .. Order - 1
        /\ (s + n) % Order # 0 => Incremented(s, n) = (s + n) % Order
  <1>1. (s + n) % Order \in 0 .. Order - 1
    BY Sizes, Remainder
  <1>2. Incremented(s, n) = IF (s + n) % Order = 0 THEN 1 ELSE (s + n) % Order
    BY DEF Incremented
  <1> QED BY <1>1, <1>2, Sizes

\* And the point with it.
LEMMA PointFollows ==
  ASSUME NEW a \in Nat, NEW s \in Nat, NEW n \in Nat
  PROVE (a + ((s + n) % Order)) % Order = (a + s + n) % Order
  <1> DEFINE b == s + n
             m == b % Order
  <1>1. b \in Nat /\ b + a = a + s + n
    OBVIOUS
  <1> HIDE DEF b
  <1>2. (m + a) % Order = (b + a) % Order
    BY <1>1, Sizes, ModAdd
  <1>3. m \in Nat
    BY <1>1, Sizes, Remainder
  <1> HIDE DEF m
  <1>4. m + a = a + m
    BY <1>3
  <1>5. (a + m) % Order = (a + s + n) % Order
    BY <1>1, <1>2, <1>4
  <1> QED BY <1>5 DEF m, b

LEMMA SetupMine == ASSUME MineInv, NEW t \in Threads, Setup(t) PROVE MineInv'
  <1> USE DEF MineInv
  <1>1. PICK r \in (IF mode_split THEN {base} ELSE Scalars) :
          /\ scalar' = [scalar EXCEPT ![t] = Incremented(r, t)]
          /\ point' = [point EXCEPT ![t] = IF mode_split THEN (alice + r + Offset(t)) % Order
                                           ELSE scalar'[t]]
          /\ zeroed' = [zeroed EXCEPT ![t] = mode_split /\ (r + t) % Order = 0]
    BY DEF Setup
  <1>2. /\ at[t] = "setup" /\ at' = [at EXCEPT ![t] = "top"]
        /\ UNCHANGED <<config, main, started, stop, found, tested, printed>>
    BY DEF Setup
  <1>3. /\ scalar \in [Threads -> 0 .. Order - 1] /\ point \in [Threads -> 0 .. Order - 1]
        /\ at \in [Threads -> {"none", "setup", "top", "record", "next", "ended"}]
        /\ zeroed \in [Threads -> BOOLEAN] /\ tested \in [Threads -> SUBSET Nat]
        /\ stop \in BOOLEAN
    BY DEF TypeOK, ThreadsInv
  <1>4. r \in Scalars /\ r \in Nat /\ Order > 1 /\ t \in Nat
    BY StrideIs, Sizes DEF ConfigInv, Scalars
  <1>5. alice \in Nat
    BY Sizes DEF ConfigInv, Scalars
  <1>6. Incremented(r, t) \in 0 .. Order - 1
    BY <1>4, IncrementedIs
  <1>7. /\ scalar' \in [Threads -> 0 .. Order - 1] /\ scalar'[t] = Incremented(r, t)
        /\ \A u \in Threads : u # t => scalar'[u] = scalar[u]
    BY <1>1, <1>3, <1>6
  <1>8. (alice + r + t) % Order \in 0 .. Order - 1
    BY <1>4, <1>5, Sizes, Remainder
  <1>9. /\ point' \in [Threads -> 0 .. Order - 1]
        /\ point'[t] = IF mode_split THEN (alice + r + t) % Order ELSE scalar'[t]
        /\ \A u \in Threads : u # t => point'[u] = point[u]
    BY <1>1, <1>3, <1>7, <1>8 DEF Offset
  <1>10. /\ zeroed' \in [Threads -> BOOLEAN]
         /\ zeroed'[t] = (mode_split /\ (r + t) % Order = 0)
         /\ \A u \in Threads : u # t => zeroed'[u] = zeroed[u]
    BY <1>1, <1>3 DEF ConfigInv
  <1>11. ASSUME ~zeroed'[t] PROVE point'[t] = (alice + scalar'[t]) % Order
    <2>1. CASE mode_split
      <3>1. scalar'[t] = (r + t) % Order
        <4>1. (r + t) % Order # 0
          BY <1>10, <1>11, <2>1
        <4>2. Incremented(r, t) = (r + t) % Order
          BY <4>1, <1>4, IncrementedIs
        <4> QED BY <4>2, <1>7, Zenon
      <3> QED BY <3>1, <2>1, <1>4, <1>5, <1>9, PointFollows
    <2>2. CASE ~mode_split
      <3>1. alice = 0 /\ point'[t] = scalar'[t] /\ 0 + scalar'[t] = scalar'[t]
        BY <2>2, <1>7, <1>9 DEF ConfigInv
      <3> QED BY <3>1, <1>7, Sizes, RemainderSmall
    <2> QED BY <2>1, <2>2
  <1>12. /\ at' \in [Threads -> {"none", "setup", "top", "record", "next", "ended"}]
         /\ at'[t] = "top" /\ \A u \in Threads : u # t => at'[u] = at[u]
    BY <1>2, <1>3
  <1>13. ~zeroed[t]
    <2>1. at[t] \in {"none", "setup"}
      BY <1>2
    <2>2. \A v \in Threads : zeroed[v] => at[v] \notin {"none", "setup"}
      BY DEF ThreadsInv
    <2> QED BY <2>1, <2>2, Zenon
  <1> QED BY <1>2, <1>3, <1>7, <1>9, <1>10, <1>11, <1>12, <1>13, ThreadStep

LEMMA FailsMine == ASSUME MineInv, NEW t \in Threads, ThreadFails(t) \/ Top(t) PROVE MineInv'
  <1> USE DEF MineInv
  <1>1. /\ UNCHANGED <<config, main, started, stop, found, scalar, point, zeroed, printed>>
        /\ at[t] \in {"setup", "next", "top"}
        /\ at' \in {[at EXCEPT ![t] = "ended"], [at EXCEPT ![t] = "next"],
                    [at EXCEPT ![t] = "record"]}
        /\ at[t] = "setup" => at' = [at EXCEPT ![t] = "ended"]
        /\ at' = [at EXCEPT ![t] = "record"] => Address(program, point[t]) \in Wanted
    BY DEF ThreadFails, Top, TypeOK
  <1>2. /\ scalar \in [Threads -> 0 .. Order - 1] /\ point \in [Threads -> 0 .. Order - 1]
        /\ at \in [Threads -> {"none", "setup", "top", "record", "next", "ended"}]
        /\ zeroed \in [Threads -> BOOLEAN] /\ tested \in [Threads -> SUBSET Nat]
        /\ stop \in BOOLEAN
    BY DEF TypeOK, ThreadsInv
  <1>3. tested' \in [Threads -> SUBSET Nat]
    <2>1. CASE tested' = tested
      BY <2>1, <1>2
    <2>2. CASE tested' = [tested EXCEPT ![t] = @ \cup {scalar[t]}]
      <3>1. scalar[t] \in Nat
        BY <1>2, Sizes
      <3> QED BY <3>1, <2>2, <1>2
    <2> QED BY <2>1, <2>2 DEF ThreadFails, Top
  <1>4. /\ at' \in [Threads -> {"none", "setup", "top", "record", "next", "ended"}]
        /\ at'[t] \in {"ended", "next", "record"}
        /\ \A u \in Threads : u # t => at'[u] = at[u]
        /\ at[t] = "setup" => at'[t] = "ended"
        /\ at'[t] = "record" => Address(program, point[t]) \in Wanted
    BY <1>1, <1>2
  <1>5. at'[t] \in {"top", "record", "next"} /\ ~zeroed'[t]
           => point'[t] = (alice + scalar'[t]) % Order
    BY <1>1, <1>4 DEF TypeOK
  <1> QED BY <1>1, <1>2, <1>3, <1>4, <1>5, ThreadStep

LEMMA NextKeyMine == ASSUME MineInv, NEW t \in Threads, NextKey(t) PROVE MineInv'
  <1> USE DEF MineInv
  <1>1. /\ UNCHANGED <<config, main, started, stop, found, tested, printed>>
        /\ at[t] = "next" /\ at' = [at EXCEPT ![t] = IF stop THEN "ended" ELSE "top"]
    BY DEF NextKey
  <1>2. /\ scalar \in [Threads -> 0 .. Order - 1] /\ point \in [Threads -> 0 .. Order - 1]
        /\ at \in [Threads -> {"none", "setup", "top", "record", "next", "ended"}]
        /\ zeroed \in [Threads -> BOOLEAN] /\ tested \in [Threads -> SUBSET Nat]
        /\ stop \in BOOLEAN
    BY DEF TypeOK, ThreadsInv
  <1>3. /\ at' \in [Threads -> {"none", "setup", "top", "record", "next", "ended"}]
        /\ at'[t] = (IF stop THEN "ended" ELSE "top")
        /\ \A u \in Threads : u # t => at'[u] = at[u]
    BY <1>1, <1>2
  <1>4. CASE stop
    <2>1. UNCHANGED <<scalar, point, zeroed>>
      BY <1>4 DEF NextKey
    <2> QED BY <1>1, <1>2, <1>3, <1>4, <2>1, ThreadStep
  <1>5. CASE ~stop /\ program = "taproot"
    <2>1. NewKey(t)
      BY <1>5 DEF NextKey
    <2>2. PICK r \in Scalars : /\ scalar' = [scalar EXCEPT ![t] = r]
                               /\ point' = [point EXCEPT ![t] = r] /\ UNCHANGED zeroed
      BY <2>1 DEF NewKey
    <2>3. r \in 0 .. Order - 1 /\ alice = 0 /\ 0 + r = r
      BY <1>5, Sizes DEF Scalars, ConfigInv
    <2>4. r % Order = r
      BY <2>3, Sizes, RemainderSmall
    <2>5. /\ scalar' \in [Threads -> 0 .. Order - 1] /\ point' \in [Threads -> 0 .. Order - 1]
          /\ scalar'[t] = r /\ point'[t] = r
          /\ \A u \in Threads : u # t => scalar'[u] = scalar[u] /\ point'[u] = point[u]
      BY <2>2, <2>3, <1>2
    <2>6. point'[t] = (alice + scalar'[t]) % Order
      BY <2>3, <2>4, <2>5
    <2> QED BY <1>1, <1>2, <1>3, <1>5, <2>2, <2>5, <2>6, ThreadStep
  <1>6. CASE ~stop /\ program # "taproot"
    <2> DEFINE s == scalar[t]
               p == point[t]
    <2>1. /\ scalar' = [scalar EXCEPT ![t] = Incremented(s, Step)]
          /\ point' = [point EXCEPT ![t] = (p + Step) % Order]
          /\ zeroed' = [zeroed EXCEPT ![t] = @ \/ (s + Step) % Order = 0]
      BY <1>6 DEF NextKey, GoOn
    <2>2. Step \in Nat /\ s \in Nat /\ p \in Nat
      BY <1>2, StrideIs, Sizes DEF Step
    <2>3. CASE Order > 1
      <3>1. /\ Incremented(s, Step) \in 0 .. Order - 1
            /\ (p + Step) % Order \in 0 .. Order - 1
        <4> HIDE DEF s, p
        <4>1. Incremented(s, Step) \in 0 .. Order - 1
          BY <2>2, <2>3, IncrementedIs
        <4>2. p + Step \in Nat
          BY <2>2
        <4> QED BY <4>1, <4>2, Sizes, Remainder
      <3>2. /\ scalar' \in [Threads -> 0 .. Order - 1]
            /\ point' \in [Threads -> 0 .. Order - 1]
            /\ zeroed' \in [Threads -> BOOLEAN]
        BY <2>1, <3>1, <1>2
      <3>3. /\ scalar'[t] = Incremented(s, Step) /\ point'[t] = (p + Step) % Order
            /\ \A u \in Threads : u # t => /\ scalar'[u] = scalar[u] /\ point'[u] = point[u]
                                           /\ zeroed'[u] = zeroed[u]
        BY <2>1, <1>2
      <3>4. zeroed'[t] = (zeroed[t] \/ (s + Step) % Order = 0)
        BY <2>1, <1>2
      <3>5. ASSUME ~zeroed'[t] PROVE point'[t] = (alice + scalar'[t]) % Order
        <4>1. ~zeroed[t] /\ (s + Step) % Order # 0
          BY <3>4, <3>5
        <4>2. p = (alice + s) % Order
          BY <4>1, <1>1 DEF TypeOK
        <4>3. alice \in Nat
          BY Sizes DEF ConfigInv, Scalars
        <4> HIDE DEF s, p
        <4>4. (p + Step) % Order = (alice + s + Step) % Order
          <5>1. alice + s \in Nat
            BY <4>3, <2>2
          <5> QED BY <5>1, <4>2, <2>2, Sizes, ModAdd
        <4>5. (alice + ((s + Step) % Order)) % Order = (alice + s + Step) % Order
          BY <4>3, <2>2, PointFollows
        <4>6. Incremented(s, Step) = (s + Step) % Order
          BY <4>1, <2>2, <2>3, IncrementedIs
        <4>7. scalar'[t] = (s + Step) % Order
          BY <4>6, <3>3
        <4> QED BY <4>4, <4>5, <4>7, <3>3
      <3>6. zeroed[t] => zeroed'[t]
        BY <3>4
      <3> QED BY <1>1, <1>2, <1>3, <1>6, <3>2, <3>3, <3>5, <3>6, ThreadStep
    <2>4. Order > 1
        BY TaprootAssumption
    <2> QED BY <2>3, <2>4
  <1> QED BY <1>4, <1>5, <1>6

LEMMA RecordMine == ASSUME MineInv, NEW t \in Threads, Record(t) PROVE MineInv'
  <1> USE DEF MineInv
  <1>1. /\ at[t] = "record" /\ at' = [at EXCEPT ![t] = "next"]
        /\ UNCHANGED <<config, main, started, scalar, point, tested, zeroed>>
        /\ Threads' = Threads /\ Stride' = Stride
    BY SameThreads DEF Record
  <1>2. /\ at \in [Threads -> {"none", "setup", "top", "record", "next", "ended"}]
        /\ stop \in BOOLEAN /\ found \in Nat /\ found <= stop_after
    BY DEF TypeOK, CountInv
  <1>3. /\ at' \in [Threads -> {"none", "setup", "top", "record", "next", "ended"}]
        /\ at'[t] = "next" /\ \A u \in Threads : u # t => at'[u] = at[u]
    BY <1>1, <1>2
  <1>4. main \in {"create", "join"} /\ ~(t >= started)
    BY <1>1 DEF ThreadsInv
  <1>5. ConfigInv'
    BY <1>1 DEF ConfigInv
  <1>6. ThreadsInv'
    <2>1. \A u \in Threads : u >= started => at'[u] = "none"
      BY <1>3, <1>4 DEF ThreadsInv
    <2>2. \A u \in Threads : at'[u] = "record" => Address(program, point[u]) \in Wanted
      BY <1>3 DEF ThreadsInv
    <2>3. \A u \in Threads : zeroed[u] => at'[u] \notin {"none", "setup"}
      <3>1. \A u \in Threads : zeroed[u] => at[u] \notin {"none", "setup"}
        BY DEF ThreadsInv
      <3>2. \A u \in Threads : at[u] \notin {"none", "setup"} => at'[u] \notin {"none", "setup"}
        BY <1>3
      <3> QED BY <3>1, <3>2, Zenon
    <2>4. tested' \in [Threads' -> SUBSET Nat] /\ zeroed' \in [Threads' -> BOOLEAN]
      BY <1>1 DEF ThreadsInv
    <2>5. \A u \in Threads' : zeroed'[u] => at'[u] \notin {"none", "setup"}
      BY <2>3, <1>1, Zenon
    <2> QED BY <1>1, <1>4, <2>1, <2>2, <2>4, <2>5 DEF ThreadsInv
  <1>7. ASSUME NEW u \in Threads, at'[u] \in {"top", "record", "next"}, ~zeroed[u]
        PROVE point[u] = (alice + scalar[u]) % Order
    <2>1. at[u] \in {"top", "record", "next"}
      BY <1>1, <1>3, <1>7
    <2> QED BY <2>1, <1>7 DEF TypeOK
  <1>8. ASSUME stop' \in BOOLEAN, found' \in Nat PROVE TypeOK'
    <2>1. /\ main' \in {"create", "join", "ok", "failed"} /\ started' \in 0 .. Stride'
          /\ scalar' \in [Threads' -> 0 .. Order - 1] /\ point' \in [Threads' -> 0 .. Order - 1]
      BY <1>1 DEF TypeOK
    <2>2. \A u \in Threads' : /\ at'[u] \in {"top", "record", "next"}
                              /\ ~zeroed'[u]
                              => point'[u] = (alice' + scalar'[u]) % Order
      BY <1>1, <1>7
    <2> QED BY <2>1, <2>2, <1>1, <1>3, <1>8 DEF TypeOK
  <1>9. CASE Room
    <2> DEFINE r == [address |-> Address(program, point[t]), secret |-> Shown(t),
                     internal |-> Even(point[t]), by |-> t]
    <2>1. printed' = printed \cup {r} /\ found' = found + 1 /\ stop' = (stop \/ Last)
      BY <1>9 DEF Record
    <2>2. found' \in Nat /\ found' <= stop_after
      BY <2>1, <1>2, <1>9, Sizes DEF Room
    <2>3. CountInv'
      BY <2>1, <2>2, <1>1, <1>4 DEF CountInv
    <2>4. TypeOK'
      <3>1. stop' \in BOOLEAN
        BY <2>1, <1>2 DEF Last
      <3> QED BY <3>1, <2>2, <1>8
    <2>5. r.by = t /\ r.address = Address(program, point[t]) /\ r.secret = Shown(t)
          /\ r.internal = Even(point[t])
      OBVIOUS
    <2>6. Address(program, point[t]) # NoAddress
      <3>1. Address(program, point[t]) \in Wanted
        BY <1>1 DEF ThreadsInv
      <3> QED BY <3>1, TaprootAssumption
    <2> HIDE DEF r
    <2>7. ASSUME ~zeroed[t], mode_split
          PROVE /\ Combined(program, alice, r.secret) = <<r.address, r.address>>
                /\ InternalScalar(program, alice, r.secret) = r.internal
      <3>1. program \in {"split", "optimized"} /\ alice \in Nat
        BY <2>7, TaprootAssumption, Sizes DEF ConfigInv, Scalars
      <3>2. scalar[t] \in Nat
        BY Sizes DEF TypeOK
      <3>3. point[t] = (alice + scalar[t]) % Order
        BY <1>1, <2>7 DEF TypeOK
      <3>4. Shown(t) = scalar[t]
        BY <2>7 DEF Shown
      <3> QED BY <3>1, <3>2, <3>3, <3>4, <2>5, <2>6, PartsGive
    <2>8. ASSUME ~zeroed[t], ~mode_split
          PROVE Derived(program, r.secret) = r.address /\ DerivedTaproot(r.secret) = r.address
      <3>1. program \in {"taproot", "split", "optimized"} /\ alice = 0
        BY <2>8, TaprootAssumption DEF ConfigInv
      <3>2. scalar[t] \in 0 .. Order - 1 /\ 0 + scalar[t] = scalar[t]
        BY Sizes DEF TypeOK
      <3>3. point[t] = (alice + scalar[t]) % Order
        BY <1>1, <2>8 DEF TypeOK
      <3>4. point[t] = scalar[t]
        BY <3>1, <3>2, <3>3, Sizes, RemainderSmall
      <3>5. Shown(t) = IF program = "optimized" /\ point[t] \in Odd
                       THEN Neg(point[t]) ELSE point[t]
        BY <3>4, <2>8 DEF Shown
      <3> QED BY <3>1, <3>2, <3>4, <3>5, <2>5, SecretDerives
    <2>9. PrintedInv'
      <3>1. ASSUME NEW q \in printed PROVE
              /\ q.by \in Threads
              /\ ~zeroed[q.by] =>
                   IF mode_split
                   THEN /\ Combined(program, alice, q.secret) = <<q.address, q.address>>
                        /\ InternalScalar(program, alice, q.secret) = q.internal
                   ELSE Derived(program, q.secret) = q.address
                        /\ DerivedTaproot(q.secret) = q.address
        BY DEF PrintedInv
      <3>2. /\ r.by \in Threads
            /\ ~zeroed[r.by] =>
                 IF mode_split
                 THEN /\ Combined(program, alice, r.secret) = <<r.address, r.address>>
                      /\ InternalScalar(program, alice, r.secret) = r.internal
                 ELSE Derived(program, r.secret) = r.address
                      /\ DerivedTaproot(r.secret) = r.address
        BY <2>5, <2>7, <2>8
      <3> QED BY <3>1, <3>2, <2>1, <1>1 DEF PrintedInv
    <2> QED BY <1>5, <1>6, <2>3, <2>4, <2>9
  <1>10. CASE ~Room
    <2>1. UNCHANGED <<printed, found, stop>>
      BY <1>10 DEF Record
    <2>2. PrintedInv'
      BY <2>1, <1>1 DEF PrintedInv
    <2>3. CountInv' /\ TypeOK'
      BY <2>1, <1>1, <1>2, <1>8 DEF CountInv
    <2> QED BY <1>5, <1>6, <2>2, <2>3
  <1> QED BY <1>9, <1>10

LEMMA NextMine == MineInv /\ [Next]_vars => MineInv'
  <1> SUFFICES ASSUME MineInv, [Next]_vars PROVE MineInv'
    OBVIOUS
  <1>1. CASE Main \/ CreateFails \/ Rests \/ UNCHANGED vars
    BY <1>1, MainMine DEF Main, Rests
  <1>2. ASSUME NEW t \in Threads, Work(t) \/ ThreadFails(t) PROVE MineInv'
    BY <1>2, SetupMine, FailsMine, RecordMine, NextKeyMine DEF Work
  <1> QED BY <1>1, <1>2 DEF Next

\* In every run the invariant holds: in particular TypeOK, where the point of a thread is
\* that of its scalar.
THEOREM Mines == Spec => []MineInv
  <1> QED BY InitMine, NextMine, PTL DEF Spec

\* maybe_record_match: no more is printed than was asked for, and success means that much was.
THEOREM NoMoreThanAsked == Spec => []AmountKept
  <1>1. MineInv => AmountKept
    BY Sizes DEF MineInv, CountInv, AmountKept
  <1> QED BY <1>1, Mines, PTL

-------------------------------------------------------------------------------
(* Threads share the keys out *)

LEMMA SameKeys == ASSUME UNCHANGED config
                  PROVE \A t, n : NthKey(t, n)' = NthKey(t, n)
  BY SameThreads DEF NthKey

LEMMA KeysOfNext ==
  ASSUME UNCHANGED config, NEW t \in Threads,
         IsFiniteSet(tested'[t]) /\ Cardinality(tested'[t]) <= MaxKeys,
         at'[t] \in {"none", "setup"} => tested'[t] = {},
         at'[t] = "top" => Cardinality(tested'[t]) < MaxKeys,
         ASSUME mode_split', ~zeroed'[t]
         PROVE /\ \A s \in tested'[t] :
                    \E j \in 0 .. Cardinality(tested'[t]) - 1 : s = NthKey(t, j)
               /\ at'[t] = "top" => scalar'[t] = NthKey(t, Cardinality(tested'[t]))
               /\ at'[t] \in {"record", "next"} =>
                    /\ Cardinality(tested'[t]) >= 1
                    /\ scalar'[t] = NthKey(t, Cardinality(tested'[t]) - 1)
  PROVE KeysOf(t)'
  BY SameKeys DEF KeysOf

\* Steps of others, and those of its own that test no key and make none.
LEMMA KeysStay ==
  ASSUME UNCHANGED config, NEW t \in Threads, KeysOf(t),
         tested'[t] = tested[t], scalar'[t] = scalar[t], zeroed[t] => zeroed'[t],
         \/ at'[t] = at[t] \/ at'[t] = "ended"
         \/ at[t] = "none" /\ at'[t] = "setup"
         \/ at[t] = "record" /\ at'[t] = "next"
  PROVE KeysOf(t)'
  <1>2. IsFiniteSet(tested'[t]) /\ Cardinality(tested'[t]) <= MaxKeys
    BY DEF KeysOf
  <1>3. /\ at'[t] \in {"none", "setup"} => tested'[t] = {}
        /\ at'[t] = "top" => Cardinality(tested'[t]) < MaxKeys
    BY DEF KeysOf
  <1>4. ASSUME mode_split', ~zeroed'[t]
        PROVE /\ \A s \in tested'[t] :
                   \E j \in 0 .. Cardinality(tested'[t]) - 1 : s = NthKey(t, j)
              /\ at'[t] = "top" => scalar'[t] = NthKey(t, Cardinality(tested'[t]))
              /\ at'[t] \in {"record", "next"} =>
                   /\ Cardinality(tested'[t]) >= 1
                   /\ scalar'[t] = NthKey(t, Cardinality(tested'[t]) - 1)
    <2>1. mode_split /\ ~zeroed[t]
      BY <1>4
    <2>2. /\ \A s \in tested[t] : \E j \in 0 .. Cardinality(tested[t]) - 1 : s = NthKey(t, j)
          /\ at[t] = "top" => scalar[t] = NthKey(t, Cardinality(tested[t]))
          /\ at[t] \in {"record", "next"} =>
               /\ Cardinality(tested[t]) >= 1
               /\ scalar[t] = NthKey(t, Cardinality(tested[t]) - 1)
      BY <2>1 DEF KeysOf
    <2> QED BY <2>2
  <1> QED BY <1>2, <1>3, <1>4, KeysOfNext

LEMMA InitKeys == Init => KeysInv
  BY Sizes, FS_EmptySet DEF Init, KeysInv, KeysOf

\* A new key is one more of the thread's own.
LEMMA TopKeys ==
  ASSUME NoWrap, MineInv, NEW t \in Threads, KeysOf(t), Top(t)
  PROVE KeysOf(t)'
  <1> DEFINE T == tested[t]
             n == Cardinality(T)
             s == scalar[t]
  <1>1. /\ UNCHANGED <<config, scalar, zeroed>> /\ at[t] = "top"
        /\ at \in [Threads -> {"none", "setup", "top", "record", "next", "ended"}]
        /\ tested \in [Threads -> SUBSET Nat]
    BY DEF Top, MineInv, TypeOK, ThreadsInv
  <1>2. IsFiniteSet(T) /\ n < MaxKeys /\ n \in Nat
    BY <1>1, FS_CardinalityType DEF KeysOf
  <1>3. CASE stop
    <2>1. at'[t] = "ended" /\ UNCHANGED tested
      BY <1>1, <1>3 DEF Top
    <2> QED BY <2>1, <1>1, KeysStay
  <1>4. CASE ~stop
    <2>1. at'[t] \in {"record", "next"} /\ tested'[t] = T \cup {s}
      BY <1>1, <1>4 DEF Top
    <2> DEFINE m == Cardinality(T \cup {s})
    <2>2. /\ IsFiniteSet(T \cup {s}) /\ m \in Nat /\ m <= n + 1
          /\ s \notin T => m = n + 1
      <3>1. m = IF s \in T THEN n ELSE n + 1
        BY <1>2, FS_AddElement
      <3> QED BY <3>1, <1>2, FS_AddElement
    <2>3. ASSUME mode_split, ~zeroed[t]
          PROVE /\ \A k \in T : \E j \in 0 .. n - 1 : k = NthKey(t, j)
                /\ s = NthKey(t, n) /\ m = n + 1
      <3>1. /\ \A k \in T : \E j \in 0 .. n - 1 : k = NthKey(t, j)
            /\ s = NthKey(t, n)
        BY <1>1, <2>3 DEF KeysOf
      <3>2. base \in Nat
        BY <2>3, Sizes DEF MineInv, ConfigInv, Scalars
      <3>3. s \notin T
        <4> SUFFICES ASSUME s \in T PROVE FALSE
          OBVIOUS
        <4>1. PICK j \in 0 .. n - 1 : s = NthKey(t, j)
          BY <3>1
        <4> HIDE DEF s, n
        <4>2. j \in 0 .. MaxKeys - 1 /\ n \in 0 .. MaxKeys - 1 /\ j # n
          BY <1>2, Sizes
        <4>3. NthKey(t, j) = NthKey(t, n)
          BY <4>1, <3>1
        <4> QED BY <4>2, <4>3, <3>2, KeysApart
      <3> QED BY <3>1, <3>3, <2>2
    <2> HIDE DEF T, n, s, m
    <2>4. m <= MaxKeys
      BY <2>2, <1>2, Sizes
    <2>5. ASSUME mode_split', ~zeroed'[t]
          PROVE /\ \A k \in tested'[t] :
                     \E j \in 0 .. Cardinality(tested'[t]) - 1 : k = NthKey(t, j)
                /\ Cardinality(tested'[t]) >= 1
                /\ scalar'[t] = NthKey(t, Cardinality(tested'[t]) - 1)
      <3>1. mode_split /\ ~zeroed[t]
        BY <2>5, <1>1
      <3>2. /\ \A k \in T : \E j \in 0 .. n - 1 : k = NthKey(t, j)
            /\ s = NthKey(t, n) /\ m = n + 1
        BY <3>1, <2>3
      <3>3. Cardinality(tested'[t]) = n + 1
        BY <2>1, <3>2 DEF m
      <3>4. scalar'[t] = s
        BY <1>1 DEF s
      <3>5. n + 1 - 1 = n /\ n + 1 >= 1 /\ 0 .. n - 1 \subseteq 0 .. n /\ n \in 0 .. n
        BY <1>2
      <3> QED BY <3>2, <3>3, <3>4, <3>5, <2>1
    <2>6. IsFiniteSet(tested'[t]) /\ Cardinality(tested'[t]) <= MaxKeys
      BY <2>1, <2>2, <2>4 DEF m
    <2> QED BY <2>1, <2>5, <2>6, <1>1, KeysOfNext
  <1> QED BY <1>3, <1>4

LEMMA SetupKeys ==
  ASSUME MineInv, NEW t \in Threads, KeysOf(t), Setup(t)
  PROVE KeysOf(t)'
  <1>1. /\ UNCHANGED <<config, tested>> /\ at[t] = "setup" /\ at'[t] = "top"
        /\ scalar \in [Threads -> 0 .. Order - 1] /\ zeroed \in [Threads -> BOOLEAN]
    BY DEF Setup, MineInv, TypeOK, ThreadsInv
  <1>2. tested'[t] = {} /\ IsFiniteSet({}) /\ Cardinality({}) = 0
    BY <1>1, FS_EmptySet DEF KeysOf
  <1>3. PICK r \in (IF mode_split THEN {base} ELSE Scalars) :
          /\ scalar' = [scalar EXCEPT ![t] = Incremented(r, t)]
          /\ zeroed' = [zeroed EXCEPT ![t] = mode_split /\ (r + t) % Order = 0]
    BY DEF Setup
  <1>4. ASSUME mode_split', ~zeroed'[t] PROVE scalar'[t] = NthKey(t, 0)
    <2>1. mode_split /\ r = base /\ base \in Nat /\ t \in Nat /\ Stride \in Nat
      BY <1>1, <1>3, <1>4, Sizes, StrideIs DEF MineInv, ConfigInv, Scalars
    <2>2. zeroed'[t] = (mode_split /\ (r + t) % Order = 0)
      BY <1>1, <1>3
    <2>3. (r + t) % Order # 0
      BY <1>4, <2>1, <2>2
    <2>4. Incremented(r, t) = (r + t) % Order
      BY <2>1, <2>3, Sizes, IncrementedIs
    <2>5. base + t + 0 * Stride = base + t
      BY <2>1
    <2>6. NthKey(t, 0) = (base + t) % Order
      BY <2>5 DEF NthKey
    <2>7. scalar'[t] = Incremented(r, t)
      BY <1>1, <1>3
    <2> QED BY <2>1, <2>4, <2>6, <2>7, Zenon
  <1>5. Cardinality(tested'[t]) = 0 /\ 0 < MaxKeys /\ 0 <= MaxKeys /\ IsFiniteSet(tested'[t])
    BY <1>2, Sizes
  <1> QED BY <1>1, <1>2, <1>4, <1>5, KeysOfNext

LEMMA NextKeys ==
  ASSUME MineInv, NEW t \in Threads, KeysOf(t), NextKey(t)
  PROVE KeysOf(t)'
  <1> DEFINE n == Cardinality(tested[t])
             s == scalar[t]
  <1>1. /\ UNCHANGED <<config, tested>> /\ at[t] = "next"
        /\ stop \/ n < MaxKeys
        /\ at'[t] = (IF stop THEN "ended" ELSE "top")
        /\ scalar \in [Threads -> 0 .. Order - 1] /\ zeroed \in [Threads -> BOOLEAN]
    BY DEF NextKey, MineInv, TypeOK, ThreadsInv
  <1>2. IsFiniteSet(tested'[t]) /\ tested'[t] = tested[t] /\ n <= MaxKeys /\ n \in Nat
    BY <1>1, FS_CardinalityType DEF KeysOf
  <1>3. CASE stop
    <2>1. at'[t] = "ended" /\ UNCHANGED <<scalar, zeroed>>
      BY <1>1, <1>3 DEF NextKey
    <2> QED BY <2>1, <1>1, KeysStay
  <1>4. CASE ~stop
    <2>1. at'[t] = "top" /\ n < MaxKeys
      BY <1>1, <1>4
    <2>2. ASSUME mode_split', ~zeroed'[t]
          PROVE /\ \A k \in tested'[t] :
                     \E j \in 0 .. Cardinality(tested'[t]) - 1 : k = NthKey(t, j)
                /\ scalar'[t] = NthKey(t, Cardinality(tested'[t]))
      <3>1. mode_split /\ program # "taproot" /\ base \in Nat /\ t \in Nat
            /\ Stride \in Nat
        BY <1>1, <2>2, Sizes, StrideIs DEF MineInv, ConfigInv, Scalars
      <3>2. /\ scalar' = [scalar EXCEPT ![t] = Incremented(s, Step)]
            /\ zeroed' = [zeroed EXCEPT ![t] = @ \/ (s + Step) % Order = 0]
        BY <1>4, <3>1 DEF NextKey, GoOn
      <3>3. zeroed'[t] = (zeroed[t] \/ (s + Step) % Order = 0)
        BY <1>1, <3>2
      <3>4. ~zeroed[t] /\ (s + Step) % Order # 0
        BY <2>2, <3>3
      <3>5. scalar'[t] = Incremented(s, Step) /\ s \in Nat /\ Step = Stride
        BY <1>1, <3>2, Sizes DEF Step
      <3>6. Incremented(s, Step) = (s + Step) % Order
        BY <3>1, <3>4, <3>5, Sizes, IncrementedIs
      <3>7. /\ \A k \in tested[t] : \E j \in 0 .. n - 1 : k = NthKey(t, j)
            /\ n >= 1 /\ s = NthKey(t, n - 1)
        BY <1>1, <3>1, <3>4 DEF KeysOf
      <3> HIDE DEF n, s
      <3> DEFINE a == base + t + (n - 1) * Stride
      <3>8. a \in Nat /\ a + Stride = base + t + n * Stride
        <4>1. n - 1 \in Nat
          BY <1>2, <3>7
        <4>2. (n - 1) * Stride \in Nat
          BY <4>1, <3>1, MulNat
        <4>3. (n - 1) * Stride + Stride = n * Stride
          BY <1>2, <3>1
        <4> QED BY <4>2, <4>3, <3>1, <1>2
      <3>9. s = a % Order
        BY <3>7 DEF NthKey
      <3>10. NthKey(t, n) = (a + Stride) % Order
        BY <3>8 DEF NthKey
      <3> HIDE DEF a
      <3>11. (s + Stride) % Order = (a + Stride) % Order
        BY <3>1, <3>8, <3>9, Sizes, ModAdd
      <3>12. scalar'[t] = NthKey(t, n)
        BY <3>5, <3>6, <3>10, <3>11
      <3> QED BY <3>7, <3>12, <1>2 DEF n
    <2> QED BY <1>1, <1>2, <2>1, <2>2, KeysOfNext
  <1> QED BY <1>3, <1>4

LEMMA NextKeepsKeys == NoWrap /\ MineInv /\ KeysInv /\ [Next]_vars => KeysInv'
  <1> SUFFICES ASSUME NoWrap, MineInv, KeysInv, [Next]_vars PROVE KeysInv'
    OBVIOUS
  <1>1. UNCHANGED config /\ Threads' = Threads
    <2>1. UNCHANGED config
      BY DEF Next, Main, Create, CreateFails, Join, Rests, Work, Setup, Top, Record, NextKey,
             ThreadFails, vars
    <2> QED BY <2>1, SameThreads
  <1>2. /\ at \in [Threads -> {"none", "setup", "top", "record", "next", "ended"}]
        /\ scalar \in [Threads -> 0 .. Order - 1]
        /\ tested \in [Threads -> SUBSET Nat] /\ zeroed \in [Threads -> BOOLEAN]
        /\ started \in 0 .. Stride
    BY DEF MineInv, TypeOK, ThreadsInv
  <1>3. CASE Main \/ CreateFails \/ Rests \/ UNCHANGED vars
    <2>1. UNCHANGED <<tested, scalar, zeroed>>
      BY <1>3 DEF Main, Create, CreateFails, Join, Rests, vars
    <2>2. ASSUME NEW u \in Threads
          PROVE at'[u] = at[u] \/ (at[u] = "none" /\ at'[u] = "setup")
      <3>1. CASE Create
        <4>1. started < Stride => started \in Threads /\ started >= started
          BY <1>2, StrideIs
        <4>2. started < Stride => at[started] = "none"
          BY <4>1 DEF MineInv, ThreadsInv
        <4> QED BY <3>1, <4>2, <1>2 DEF Create
      <3>2. CASE ~Create
        BY <3>2, <1>3 DEF Main, CreateFails, Join, Rests, vars
      <3> QED BY <3>1, <3>2
    <2>3. ASSUME NEW u \in Threads PROVE KeysOf(u)'
      <3>1. KeysOf(u)
        BY DEF KeysInv
      <3> QED BY <3>1, <1>1, <2>1, <2>2, KeysStay
    <2> QED BY <2>3, <1>1 DEF KeysInv
  <1>4. ASSUME NEW t \in Threads, Work(t) \/ ThreadFails(t) PROVE KeysInv'
    <2>1. ASSUME NEW u \in Threads, u # t PROVE KeysOf(u)'
      <3>1. /\ at'[u] = at[u] /\ scalar'[u] = scalar[u] /\ tested'[u] = tested[u]
            /\ zeroed[u] => zeroed'[u]
        <4>1. CASE Setup(t)
          BY <4>1, <2>1, <1>2 DEF Setup
        <4>2. CASE Top(t) \/ ThreadFails(t)
          BY <4>2, <2>1, <1>2 DEF Top, ThreadFails
        <4>3. CASE Record(t)
          BY <4>3, <2>1, <1>2 DEF Record
        <4>4. CASE NextKey(t)
          BY <4>4, <2>1, <1>2 DEF NextKey, NewKey, GoOn
        <4> QED BY <1>4, <4>1, <4>2, <4>3, <4>4 DEF Work
      <3>2. KeysOf(u)
        BY DEF KeysInv
      <3> QED BY <3>1, <3>2, <1>1, KeysStay
    <2>2. KeysOf(t)'
      <3>1. KeysOf(t)
        BY DEF KeysInv
      <3>2. CASE ThreadFails(t) \/ Record(t)
        <4>1. /\ UNCHANGED <<config, scalar, tested, zeroed>>
              /\ at'[t] = "ended" \/ (at[t] = "record" /\ at'[t] = "next")
          BY <3>2, <1>2 DEF ThreadFails, Record
        <4> QED BY <4>1, <3>1, KeysStay
      <3> QED BY <1>4, <3>1, <3>2, SetupKeys, TopKeys, NextKeys DEF Work
    <2> QED BY <2>1, <2>2, <1>1 DEF KeysInv
  <1> QED BY <1>3, <1>4 DEF Next

\* What is printed leads back to the address it is printed with, by --derive and by
\* --combine, and threads do not repeat each other's keys (print_match_result,
\* run_combine_and_verify, worker_loop), where their keys do not go round the group.
THEOREM PrintedLeadsBack ==
  ASSUME NoWrap PROVE Spec => []PrintedRight
  <1>1. Spec => [](MineInv /\ KeysInv)
    <2>1. Init => KeysInv
      BY InitKeys
    <2>2. MineInv /\ KeysInv /\ [Next]_vars => KeysInv'
      BY NextKeepsKeys
    <2> QED BY <2>1, <2>2, InitMine, NextMine, PTL DEF Spec
  <1>2. MineInv => PrivkeyDerives /\ PartsCombine
    BY DEF MineInv, PrintedInv, PrivkeyDerives, PartsCombine
  <1>3. ASSUME MineInv, KeysInv PROVE KeysShared
    <2> SUFFICES ASSUME mode_split, \A t \in Threads : ~zeroed[t],
                        NEW t \in Threads, NEW u \in Threads, t # u,
                        NEW k \in tested[t], k \in tested[u]
                 PROVE FALSE
      BY DEF KeysShared
    <2>1. PICK i \in 0 .. Cardinality(tested[t]) - 1 : k = NthKey(t, i)
      BY <1>3 DEF KeysInv, KeysOf
    <2>2. PICK j \in 0 .. Cardinality(tested[u]) - 1 : k = NthKey(u, j)
      BY <1>3 DEF KeysInv, KeysOf
    <2>3. \A v \in Threads : Cardinality(tested[v]) \in Nat /\ Cardinality(tested[v]) <= MaxKeys
      BY <1>3, FS_CardinalityType DEF KeysInv, KeysOf
    <2>4. i \in 0 .. MaxKeys - 1 /\ j \in 0 .. MaxKeys - 1
      BY <2>1, <2>2, <2>3, Sizes
    <2>5. base \in Nat
      BY <1>3, Sizes DEF MineInv, ConfigInv, Scalars
    <2> QED BY <2>1, <2>2, <2>4, <2>5, KeysApart
  <1>4. MineInv /\ KeysInv => PrintedRight
    BY <1>2, <1>3 DEF PrintedRight, MineInv
  <1> QED BY <1>1, <1>4, PTL

===============================================================================
