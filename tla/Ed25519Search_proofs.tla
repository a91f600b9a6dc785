------------------------ MODULE Ed25519Search_proofs ------------------------
(***************************************************************************)
(* Proofs about the Ed25519 search, for every number of work items, keys   *)
(* of an item and threads.  BatchInv says what the buffers hold at each    *)
(* place of the main loop; MatchInv where the matches of a batch come      *)
(* from; CountInv that the matches printed and those left to print are     *)
(* the ones that were found; ReseedInv that what was printed is of an      *)
(* earlier reading of the random source than the seeds to come.            *)
(***************************************************************************)
EXTENDS Ed25519Search, FiniteSetTheorems, TLAPS

\* The buffers: the host's public keys are those of its seeds, the device's those of the
\* other ones; and the items of a buffer have been counted on alike.
BuffersInv ==
  /\ pc \in {"init", "first"} => cur = 0 /\ device = None /\ printed = {}
  /\ pc \in {"top", "match", "print", "await"} => pubkeys = Generated(seeds[cur])
  /\ pc \in {"match", "print", "await"} => device = Generated(seeds[NextBuffer])
  /\ \A b \in 0 .. 1 : \A i, j \in Items : seeds[b][i] = seeds[b][j]

\* What has been created is what a failing call releases.
EngineInv == pc = "init" => stage \in 1 .. 9 /\ held \subseteq Engine[stage].releases

\* A thread stays in its share of the keys.
ShareInv == pc \in {"match", "print", "await"} =>
              \A t \in Workers : /\ StartK(t) <= work[t].k /\ work[t].k <= EndK(t)
                                 /\ work[t].at = "test" => work[t].k < EndK(t)
                                 /\ Len(work[t].matches) <= MaxMatchesPerThread

\* The safety half of EndsClean.
Released == pc = "done" => held = {}

BatchInv == TypeOK /\ BuffersInv /\ EngineInv /\ Released /\ ShareInv

-------------------------------------------------------------------------------

\* The places of the matches of a batch, and those of them not printed yet.
Places == {p \in Workers \X (1 .. MaxMatchesPerThread) : p[2] <= Len(work[p[1]].matches)}

Match_(p) == work[p[1]].matches[p[2]]

Waiting == {p \in Places : p[1] > shown.t \/ (p[1] = shown.t /\ p[2] > shown.m)}

\* A match of this batch is of a key its thread has passed, and no two are of the same.
MatchInv ==
  /\ SeedIsTheKeys
  /\ pc \in {"match", "print"} =>
       /\ \A p \in Places : /\ Match_(p).batch = batches
                            /\ \E k \in Keys : /\ StartK(p[1]) <= k /\ k < work[p[1]].k
                                               /\ Match_(p).pubkey = pubkeys[k]
       /\ \A p, q \in Places : Match_(p) = Match_(q) => p = q
  /\ pc \notin {"print", "done"} => \A m \in printed : m.batch < batches
  /\ pc = "print" => \A m \in printed : \/ m.batch < batches
                                        \/ \E p \in Places \ Waiting : m = Match_(p)

\* The matches are counted: those printed, those of the batch, and those left to print.
CountInv ==
  /\ found <= MaxFound
  /\ IsFiniteSet(printed) /\ Cardinality(printed) = found
  /\ pc = "match" => Cardinality(Places) = batch_found
  /\ pc = "match" /\ ~overrun => hits = found + batch_found
  /\ pc = "print" /\ ~overrun => hits = found + Cardinality(Waiting)
  /\ pc \in {"init", "first", "top", "await"} /\ ~overrun =>
       found = IF hits < MaxFound THEN hits ELSE MaxFound

\* A thread ends before the end of its share only when enough has been found.
TestedInv ==
  pc \in {"match", "print", "await"} /\ ~overrun =>
    \A t \in Workers : /\ work[t].at = "ended" => work[t].k = EndK(t) \/ hits >= MaxFound
                       /\ pc # "match" => work[t].at = "ended"

\* Keys printed from a batch before are of an earlier reading of the random source than
\* the seeds after the ones that were already made at the time.
ReseedInv ==
  /\ Reseeded
  /\ pc \in {"top", "match", "print"} =>
       \A q \in printed : q.batch + 1 < batches => q.pubkey.draw < seeds[cur][0].draw
  /\ pc \in {"match", "print"} =>
       \A q \in printed : q.batch < batches => q.pubkey.draw < seeds[NextBuffer][0].draw
  /\ pc = "await" =>
       \A q \in printed : q.batch + 1 < batches => q.pubkey.draw < seeds[NextBuffer][0].draw
  /\ pc \in {"top", "await"} => \A q \in printed : q.batch + 1 = batches => reseed_needed
  /\ pc = "print" => \A q \in printed : q.batch = batches => reseed_needed

FoundInv == MatchInv /\ CountInv /\ TestedInv

-------------------------------------------------------------------------------
(* What every proof below may use: the tuples of variables that stay the same *)

USE DEF enginevars, buffervars, matchvars, resultvars

-------------------------------------------------------------------------------
(* Numbers *)

LEMMA Sizes == /\ global_size \in Nat \ {0} /\ keys_per_item \in Nat \ {0}
               /\ nthreads \in Nat \ {0} /\ MaxFound \in Nat \ {0}
               /\ MaxMatchesPerThread \in Nat \ {0} /\ MaxBatches \in Nat \ {0}
  BY SearchAssumption

LEMMA MulNat == ASSUME NEW a \in Nat, NEW b \in Nat PROVE a * b \in Nat
  OBVIOUS

\* A factor that is less makes a product that is less by the other factor at least.
LEMMA MulLess == ASSUME NEW a \in Nat, NEW b \in Nat, NEW c \in Nat, a < b
                 PROVE (a + 1) * c <= b * c
  <1>1. PICK d \in Nat : b = a + 1 + d
    <2>1. b - a - 1 \in Nat /\ b = a + 1 + (b - a - 1)
      OBVIOUS
    <2> QED BY <2>1
  <1>2. b * c = (a + 1) * c + d * c
    BY <1>1
  <1> QED BY <1>2, MulNat

LEMMA Quotient == ASSUME NEW k \in Nat, NEW d \in Nat \ {0}
                  PROVE k \div d \in Nat
  <1>1. k \div d \in Int
    BY Z3
  <1>2. k \div d >= 0
    OBVIOUS
  <1> QED BY <1>1, <1>2

LEMMA Remainder == ASSUME NEW k \in Nat, NEW d \in Nat \ {0}
                   PROVE k % d \in 0 .. d - 1
  OBVIOUS

LEMMA Divided == ASSUME NEW k \in Nat, NEW d \in Nat \ {0}
                 PROVE k = (k \div d) * d + (k % d)
  OBVIOUS

\* The keys of a batch, and the work item of one of them.
LEMMA KeysCount == /\ IsFiniteSet(Keys)
                   /\ Cardinality(Keys) = global_size * keys_per_item
                   /\ Cardinality(Keys) \in Nat
                   /\ Keys = 0 .. Cardinality(Keys) - 1
  <1> DEFINE n == global_size * keys_per_item
  <1>1. n \in Nat /\ Keys = 0 .. n - 1
    BY Sizes, MulNat DEF Keys
  <1> HIDE DEF n
  <1>2. 0 \in Int /\ n - 1 \in Int
    BY <1>1
  <1>3. /\ IsFiniteSet(0 .. n - 1)
        /\ Cardinality(0 .. n - 1) = IF 0 > n - 1 THEN 0 ELSE (n - 1) - 0 + 1
    BY <1>2, FS_Interval
  <1>4. Cardinality(0 .. n - 1) = n
    BY <1>1, <1>3
  <1> QED BY <1>1, <1>3, <1>4 DEF n

LEMMA ItemOf == ASSUME NEW k \in Keys
                PROVE k \div keys_per_item \in Items /\ k % keys_per_item \in Nat
  <1> DEFINE q == k \div keys_per_item
             r == k % keys_per_item
  <1>1. k \in Nat /\ k < global_size * keys_per_item
    BY Sizes, MulNat DEF Keys
  <1>2. q \in Nat /\ r \in Nat /\ k = q * keys_per_item + r
    <2>1. q \in Nat
      BY <1>1, Sizes, Quotient
    <2>2. r \in 0 .. keys_per_item - 1
      BY <1>1, Sizes, Remainder
    <2>3. k = q * keys_per_item + r
      BY <1>1, Sizes, Divided
    <2> HIDE DEF q, r
    <2> QED BY <2>1, <2>2, <2>3, Sizes
  <1>3. q < global_size
    <2> SUFFICES ASSUME global_size <= q PROVE FALSE
      BY <1>2, Sizes
    <2>1. global_size * keys_per_item <= q * keys_per_item
      <3>1. CASE global_size = q
        BY <3>1, Sizes, MulNat
      <3>2. CASE global_size < q
        <4> HIDE DEF q
        <4>1. (global_size + 1) * keys_per_item <= q * keys_per_item
          BY <3>2, <1>2, Sizes, MulLess
        <4> QED BY <4>1, <1>2, Sizes
      <3> QED BY <3>1, <3>2, <1>2, Sizes
    <2>2. q * keys_per_item \in Nat /\ global_size * keys_per_item \in Nat
      BY <1>2, Sizes, MulNat
    <2> DEFINE a == q * keys_per_item
               b == global_size * keys_per_item
    <2>3. a \in Nat /\ b \in Nat /\ b <= a /\ r \in Nat /\ k = a + r /\ k < b
      BY <2>1, <2>2, <1>1, <1>2
    <2> HIDE DEF a, b, q, r
    <2> QED BY <2>3
  <1> HIDE DEF q
  <1>4. q \in Items
    BY <1>2, <1>3, Sizes DEF Items
  <1> QED BY <1>2, <1>4 DEF q

\* The shares of the threads.
LEMMA Shares == /\ KeysPerThread \in Nat
                /\ nthreads * KeysPerThread <= Cardinality(Keys)
  <1> DEFINE N == Cardinality(Keys)
  <1> HIDE DEF N
  <1>1. N \in Nat
    BY KeysCount DEF N
  <1>2. N \div nthreads \in Nat /\ N % nthreads \in Nat
    BY <1>1, Sizes, Quotient, Remainder
  <1>3. N = (N \div nthreads) * nthreads + (N % nthreads)
    BY <1>1, Sizes, Divided
  <1>4. nthreads * (N \div nthreads) <= N
    BY <1>1, <1>2, <1>3, Sizes
  <1> QED BY <1>2, <1>4 DEF N, KeysPerThread

LEMMA ShareBounds == ASSUME NEW t \in Workers
                     PROVE /\ StartK(t) \in Nat /\ EndK(t) \in Nat
                           /\ StartK(t) <= EndK(t) /\ EndK(t) <= Cardinality(Keys)
  <1> DEFINE N == Cardinality(Keys)
             c == KeysPerThread
  <1> HIDE DEF N, c
  <1>1. N \in Nat /\ c \in Nat /\ nthreads * c <= N
    BY Shares, KeysCount DEF N, c
  <1>2. t \in Nat /\ t < nthreads /\ t * c \in Nat /\ (t + 1) * c \in Nat
    BY <1>1, Sizes, MulNat DEF Workers
  <1>3. (t + 1) * c <= nthreads * c
    BY <1>1, <1>2, Sizes, MulLess
  <1>4. (t + 1) * c = t * c + c /\ nthreads * c \in Nat
    BY <1>1, <1>2, Sizes, MulNat
  <1>5. /\ t * c \in Nat /\ t * c <= N
        /\ (t + 1) * c \in Nat /\ t * c <= (t + 1) * c /\ (t + 1) * c <= N
    BY <1>1, <1>2, <1>3, <1>4
  <1>6. CASE t = nthreads - 1
    BY <1>6, <1>5, <1>1 DEF StartK, EndK, N, c
  <1>7. CASE t # nthreads - 1
    BY <1>7, <1>5, <1>1 DEF StartK, EndK, N, c
  <1> QED BY <1>6, <1>7

\* A share ends where the next begins.
LEMMA SharesApart == ASSUME NEW t \in Workers, NEW u \in Workers, t < u
                     PROVE EndK(t) <= StartK(u)
  <1>1. t \in Nat /\ u \in Nat /\ t # nthreads - 1
    BY Sizes DEF Workers
  <1>2. (t + 1) * KeysPerThread <= u * KeysPerThread
    BY <1>1, Shares, MulLess
  <1> QED BY <1>1, <1>2 DEF StartK, EndK

\* Each key is in the share of one thread.
LEMMA Partition == ASSUME NEW k \in Keys
                   PROVE \E t \in Workers : /\ StartK(t) <= k /\ k < EndK(t)
                                            /\ \A u \in Workers :
                                                 StartK(u) <= k /\ k < EndK(u) => u = t
  <1> DEFINE N == Cardinality(Keys)
             c == KeysPerThread
             last == nthreads - 1
  <1>0. N \in Nat /\ c \in Nat /\ k \in Nat /\ k < N
    BY Shares, KeysCount
  <1>1. last \in Workers /\ EndK(last) = N
    BY Sizes DEF Workers, EndK
  <1>2. \E t \in Workers : StartK(t) <= k /\ k < EndK(t)
    <2>1. CASE k >= last * c
      BY <2>1, <1>0, <1>1 DEF StartK
    <2>2. CASE k < last * c
      <3>1. c # 0
        BY <2>2, <1>0, Sizes
      <3> DEFINE q == k \div c
                 r == k % c
      <3>2. q \in Nat /\ r \in 0 .. c - 1 /\ k = q * c + r
        BY <3>1, <1>0, Quotient, Remainder, Divided
      <3> HIDE DEF q, r, c, N
      <3>3. q * c <= k /\ k < (q + 1) * c
        <4>1. q * c \in Nat /\ (q + 1) * c = q * c + c
          BY <3>2, <1>0, MulNat
        <4> QED BY <4>1, <3>2, <1>0
      <3>4. q < last
        <4> SUFFICES ASSUME last <= q PROVE FALSE
          BY <3>2, Sizes
        <4>1. last * c <= q * c
          <5>1. CASE last = q
            BY <5>1, <3>2, <1>0, MulNat
          <5>2. CASE last < q
            <6>1. last \in Nat
              BY Sizes
            <6> HIDE DEF last
            <6>2. (last + 1) * c <= q * c /\ (last + 1) * c = last * c + c /\ last * c \in Nat
              BY <6>1, <5>2, <3>2, <1>0, MulLess, MulNat
            <6> QED BY <6>2, <3>2, <1>0, MulNat
          <5> QED BY <5>1, <5>2, <3>2, Sizes
        <4>2. last * c \in Nat /\ q * c \in Nat
          BY <3>2, <1>0, Sizes, MulNat
        <4> QED BY <4>1, <4>2, <2>2, <3>3, <1>0
      <3>5. q \in Workers /\ q # last
        BY <3>2, <3>4, Sizes DEF Workers
      <3>6. StartK(q) <= k /\ k < EndK(q)
        BY <3>5, <3>3 DEF StartK, EndK, c
      <3> QED BY <3>5, <3>6
    <2>3. last * c \in Nat
      BY <1>0, Sizes, MulNat
    <2> QED BY <2>1, <2>2, <2>3, <1>0
  <1>3. PICK t \in Workers : StartK(t) <= k /\ k < EndK(t)
    BY <1>2
  <1>4. ASSUME NEW u \in Workers, StartK(u) <= k, k < EndK(u) PROVE u = t
    <2>1. /\ StartK(u) \in Nat /\ EndK(u) \in Nat /\ StartK(t) \in Nat /\ EndK(t) \in Nat
          /\ t \in Nat /\ u \in Nat
      BY ShareBounds, Sizes DEF Workers
    <2>2. ~(t < u)
      BY <2>1, <1>3, <1>4, <1>0, SharesApart
    <2>3. ~(u < t)
      BY <2>1, <1>3, <1>4, <1>0, SharesApart
    <2> QED BY <2>1, <2>2, <2>3
  <1> QED BY <1>3, <1>4

-------------------------------------------------------------------------------
(* The buffers *)

LEMMA SeqGrows == ASSUME NEW A, NEW B, A \subseteq B, NEW s \in Seq(A)
                  PROVE s \in Seq(B)
  OBVIOUS

\* The keys of a buffer of seeds.
LEMMA GeneratedType ==
  ASSUME NEW d \in Nat, NEW buffer \in [Items -> [draw : 0 .. d, n : Nat]]
  PROVE Generated(buffer) \in [Keys -> [draw : 0 .. d, item : Items, n : Nat]]
  <1> SUFFICES ASSUME NEW k \in Keys
               PROVE Key(buffer, k \div keys_per_item, k % keys_per_item)
                       \in [draw : 0 .. d, item : Items, n : Nat]
    BY DEF Generated
  <1> DEFINE q == k \div keys_per_item
             r == k % keys_per_item
  <1>1. q \in Items /\ r \in Nat
    BY ItemOf
  <1> HIDE DEF q, r
  <1>2. Key(buffer, q, r) \in [draw : 0 .. d, item : Items, n : Nat]
    BY <1>1 DEF Key
  <1> QED BY <1>2 DEF q, r

\* What is counted on stays so when the random source is read and batches are matched.
LEMMA Grow == ASSUME TypeOK, {draws', batches'} \subseteq Nat,
                     draws <= draws', batches <= batches'
              PROVE /\ Seeds \subseteq Seeds' /\ DerivedKeys \subseteq DerivedKeys'
                    /\ Matches \subseteq Matches'
  <1>1. 0 .. draws \subseteq 0 .. draws' /\ 0 .. batches \subseteq 0 .. batches'
    BY DEF TypeOK
  <1>2. Seeds \subseteq Seeds' /\ DerivedKeys \subseteq DerivedKeys'
    BY <1>1 DEF Seeds, DerivedKeys
  <1> QED BY <1>1, <1>2 DEF Matches

LEMMA WorkGrows == ASSUME TypeOK, Matches \subseteq Matches'
                   PROVE work \in [Workers -> [at : {"look", "test", "ended"},
                                               k : 0 .. Cardinality(Keys),
                                               matches : Seq(Matches')]]
  <1> SUFFICES ASSUME NEW t \in Workers
               PROVE work[t] \in [at : {"look", "test", "ended"},
                                  k : 0 .. Cardinality(Keys), matches : Seq(Matches')]
    BY DEF TypeOK
  <1>1. work[t] \in [at : {"look", "test", "ended"},
                     k : 0 .. Cardinality(Keys), matches : Seq(Matches)]
    BY DEF TypeOK
  <1>2. work[t].matches \in Seq(Matches')
    BY <1>1, SeqGrows
  <1> QED BY <1>1, <1>2

\* What a failing call releases is what the calls before it have made.
LEMMA EngineSteps == \A s \in 1 .. 8 : Engine[s].releases \cup Engine[s].makes
                                         \subseteq Engine[s + 1].releases
  <1> SUFFICES ASSUME NEW s \in 1 .. 8
               PROVE Engine[s].releases \cup Engine[s].makes \subseteq Engine[s + 1].releases
    OBVIOUS
  <1>1. CASE s = 1
    BY <1>1 DEF Engine
  <1>2. CASE s = 2
    BY <1>2 DEF Engine
  <1>3. CASE s = 3
    BY <1>3 DEF Engine
  <1>4. CASE s = 4
    BY <1>4 DEF Engine
  <1>5. CASE s = 5
    BY <1>5 DEF Engine
  <1>6. CASE s = 6
    BY <1>6 DEF Engine
  <1>7. CASE s = 7
    BY <1>7 DEF Engine
  <1>8. CASE s = 8
    BY <1>8 DEF Engine
  <1> QED BY <1>1, <1>2, <1>3, <1>4, <1>5, <1>6, <1>7, <1>8

LEMMA EngineLength == Len(Engine) = 9
  BY DEF Engine

-------------------------------------------------------------------------------
(* The batches: each step keeps BatchInv *)

LEMMA InitBatch == Init => BatchInv
  <1> SUFFICES ASSUME Init PROVE BatchInv
    OBVIOUS
  <1>1. /\ stage \in 1 .. Len(Engine) + 1
        /\ {found, batches, draws, batch_found, hits} \subseteq Nat /\ cur \in 0 .. 1
    BY EngineLength DEF Init
  <1>2. shown \in [t : 0 .. nthreads, m : Nat]
    <2>1. 0 \in 0 .. nthreads
      BY Sizes
    <2> QED BY <2>1 DEF Init
  <1>3. {g_stop, reseed_needed, overrun} \subseteq BOOLEAN
    BY DEF Init
  <1>4. seeds \in [0 .. 1 -> [Items -> Seeds]]
    BY DEF Init, Seeds
  <1>5. work \in [Workers -> [at : {"look", "test", "ended"}, k : 0 .. Cardinality(Keys),
                              matches : Seq(Matches)]]
    <2>1. [at |-> "ended", k |-> 0, matches |-> <<>>]
            \in [at : {"look", "test", "ended"}, k : 0 .. Cardinality(Keys),
                 matches : Seq(Matches)]
      BY KeysCount
    <2> QED BY <2>1 DEF Init
  <1>6. TypeOK
    BY <1>1, <1>2, <1>3, <1>4, <1>5 DEF TypeOK, Init
  <1>7. BuffersInv /\ ShareInv /\ Released
    BY DEF Init, BuffersInv, ShareInv, Released
  <1>8. EngineInv
    BY DEF Init, EngineInv, Engine
  <1> QED BY <1>6, <1>7, <1>8 DEF BatchInv

\* The types of what most steps leave alone.
LEMMA TypesStay ==
  ASSUME TypeOK, UNCHANGED <<buffervars, matchvars, resultvars>>,
         pc' \in {"init", "first", "top", "match", "print", "await", "done"},
         stage' \in 1 .. Len(Engine) + 1, g_stop' \in BOOLEAN
  PROVE TypeOK'
  <1>1. Seeds' = Seeds /\ DerivedKeys' = DerivedKeys /\ Matches' = Matches
    BY DEF Seeds, DerivedKeys, Matches
  <1>2. {g_stop, reseed_needed, overrun}' \subseteq BOOLEAN
    BY DEF TypeOK
  <1> QED BY <1>1, <1>2 DEF TypeOK, NextBuffer

LEMMA EngineCallBatch == ASSUME BatchInv, EngineCall PROVE BatchInv'
  <1> USE DEF BatchInv, EngineCall
  <1>1. TypeOK'
    <2>1. /\ stage' \in 1 .. Len(Engine) + 1
          /\ pc' \in {"init", "first", "top", "match", "print", "await", "done"}
      BY EngineLength DEF EngineInv
    <2>2. g_stop' \in BOOLEAN
      BY DEF TypeOK
    <2> QED BY <2>1, <2>2, TypesStay
  <1>2. BuffersInv' /\ ShareInv' /\ Released'
    BY DEF BuffersInv, ShareInv, Released, NextBuffer
  <1>3. EngineInv'
    <2> SUFFICES ASSUME stage # 9, pc' = "init"
                 PROVE /\ stage + 1 \in 1 .. 9
                       /\ held' \subseteq Engine[stage + 1].releases
      BY EngineLength DEF EngineInv
    <2>1. stage \in 1 .. 8 /\ held \subseteq Engine[stage].releases
      BY DEF EngineInv
    <2> QED BY <2>1, EngineSteps
  <1> QED BY <1>1, <1>2, <1>3

LEMMA EngineFailsBatch == ASSUME BatchInv, EngineFails PROVE BatchInv'
  <1> USE DEF BatchInv, EngineFails
  <1>1. TypeOK'
    BY TypesStay DEF TypeOK
  <1>2. BuffersInv' /\ ShareInv' /\ EngineInv'
    BY DEF BuffersInv, ShareInv, EngineInv, NextBuffer
  <1>3. Released'
    BY DEF EngineInv, Released
  <1> QED BY <1>1, <1>2, <1>3

\* The ways out of the main loop, and the step before it.
LEMMA CleanupBatch == ASSUME BatchInv, FirstFails \/ LaunchFails \/ AwaitFails \/ Finish
                      PROVE BatchInv'
  <1> USE DEF BatchInv
  <1>1. /\ pc' = "done" /\ Cleanup
        /\ UNCHANGED <<g_stop, buffervars, matchvars, resultvars>>
    BY DEF FirstFails, LaunchFails, AwaitFails, Finish
  <1>2. TypeOK'
    BY <1>1, TypesStay DEF TypeOK, Cleanup
  <1>3. BuffersInv' /\ ShareInv' /\ EngineInv' /\ Released'
    BY <1>1 DEF BuffersInv, ShareInv, EngineInv, Released, Cleanup, NextBuffer
  <1> QED BY <1>2, <1>3

LEMMA FirstBatchBatch == ASSUME BatchInv, FirstBatch PROVE BatchInv'
  <1> USE DEF BatchInv, FirstBatch
  <1>1. draws \in Nat /\ draws' = draws + 1 /\ draws' \in Nat /\ draws <= draws'
        /\ cur = 0 /\ device = None /\ batches' = batches /\ batches \in Nat
    BY DEF TypeOK, BuffersInv
  <1>2. Seeds \subseteq Seeds' /\ DerivedKeys \subseteq DerivedKeys' /\ Matches \subseteq Matches'
    BY <1>1, Grow
  <1>3. Drawn \in [Items -> Seeds']
    BY <1>1 DEF Drawn, Seeds
  <1>4. seeds \in [0 .. 1 -> [Items -> Seeds']]
    BY <1>2 DEF TypeOK
  <1>5. seeds' \in [0 .. 1 -> [Items -> Seeds']] /\ seeds'[0] = Drawn /\ seeds'[1] = seeds[1]
    BY <1>3, <1>4
  <1>6. pubkeys' = Generated(seeds'[0]) /\ pubkeys' \in [Keys -> DerivedKeys']
    BY <1>1, <1>3, <1>5, GeneratedType DEF Seeds, DerivedKeys
  <1>7. TypeOK'
    <2>1. work' \in [Workers -> [at : {"look", "test", "ended"}, k : 0 .. Cardinality(Keys),
                                 matches : Seq(Matches')]]
      BY <1>2, WorkGrows
    <2>2. printed' \subseteq Matches' /\ device' = None /\ cur' = 0
      BY <1>1, <1>2 DEF TypeOK
    <2>3. {g_stop, reseed_needed, overrun}' \subseteq BOOLEAN
      BY DEF TypeOK
    <2>4. /\ {found, batches, draws, batch_found, hits}' \subseteq Nat
          /\ pc' \in {"init", "first", "top", "match", "print", "await", "done"}
          /\ stage' \in 1 .. Len(Engine) + 1 /\ shown' \in [t : 0 .. nthreads, m : Nat]
      BY <1>1 DEF TypeOK
    <2> QED BY <2>1, <2>2, <2>3, <2>4, <1>5, <1>6 DEF TypeOK
  <1>8. BuffersInv'
    <2>1. ASSUME NEW i \in Items, NEW j \in Items
          PROVE seeds'[0][i] = seeds'[0][j] /\ seeds'[1][i] = seeds'[1][j]
      BY <1>5 DEF Drawn, BuffersInv
    <2> QED BY <2>1, <1>1, <1>6 DEF BuffersInv
  <1>9. ShareInv' /\ EngineInv' /\ Released'
    BY DEF ShareInv, EngineInv, Released
  <1> QED BY <1>7, <1>8, <1>9

\* The seeds the next batch is made of.
LEMMA NextSeeds ==
  ASSUME BatchInv, Launch
  PROVE /\ draws' \in Nat /\ draws <= draws' /\ NextBuffer \in 0 .. 1 /\ NextBuffer # cur
        /\ seeds'[NextBuffer] \in [Items -> Seeds'] /\ seeds'[cur] = seeds[cur]
        /\ \A i, j \in Items : seeds'[NextBuffer][i] = seeds'[NextBuffer][j]
        /\ reseed_needed => \A i \in Items : seeds'[NextBuffer][i].draw = draws + 1
        /\ ~reseed_needed => \A i \in Items :
             /\ seeds'[NextBuffer][i].draw = seeds[cur][i].draw
             /\ seeds'[NextBuffer][i].n = seeds[cur][i].n + keys_per_item
  <1> USE DEF BatchInv, Launch
  <1>1. draws \in Nat /\ cur \in 0 .. 1 /\ seeds \in [0 .. 1 -> [Items -> Seeds]]
        /\ {batches, batches'} \subseteq Nat /\ batches = batches'
    BY DEF TypeOK
  <1>2. draws' \in Nat /\ draws <= draws' /\ NextBuffer \in 0 .. 1 /\ NextBuffer # cur
    BY <1>1 DEF NextBuffer
  <1>3. Seeds \subseteq Seeds'
    BY <1>1, <1>2, Grow
  <1>4. seeds'[cur] = seeds[cur]
    BY <1>1, <1>2
  <1>5. CASE reseed_needed
    <2>1. seeds'[NextBuffer] = Drawn
      BY <1>5, <1>1, <1>2
    <2>2. Drawn \in [Items -> Seeds'] /\ draws' = draws + 1
      BY <1>5, <1>1 DEF Drawn, Seeds
    <2> QED BY <2>1, <2>2, <1>2, <1>4, <1>5 DEF Drawn
  <1>6. CASE ~reseed_needed
    <2>1. seeds'[NextBuffer] = Advanced(seeds[cur])
      BY <1>6, <1>1, <1>2
    <2>2. ASSUME NEW i \in Items
          PROVE /\ Advanced(seeds[cur])[i] \in Seeds'
                /\ Advanced(seeds[cur])[i] = [draw |-> seeds[cur][i].draw,
                                              n |-> seeds[cur][i].n + keys_per_item]
      <3>1. seeds[cur][i] \in [draw : 0 .. draws, n : Nat]
        BY <1>1 DEF Seeds
      <3>2. Advanced(seeds[cur])[i] = [draw |-> seeds[cur][i].draw,
                                       n |-> seeds[cur][i].n + keys_per_item]
        BY <3>1 DEF Advanced
      <3>3. seeds[cur][i].draw \in 0 .. draws' /\ seeds[cur][i].n + keys_per_item \in Nat
        BY <3>1, <1>1, <1>2, Sizes
      <3> QED BY <3>2, <3>3 DEF Seeds
    <2>3. Advanced(seeds[cur]) = [i \in Items |-> Advanced(seeds[cur])[i]]
      BY DEF Advanced
    <2>4. Advanced(seeds[cur]) \in [Items -> Seeds']
      BY <2>2, <2>3
    <2>5. \A i, j \in Items : seeds[cur][i] = seeds[cur][j]
      BY <1>1 DEF BuffersInv
    <2>6. ASSUME NEW i \in Items, NEW j \in Items
          PROVE seeds'[NextBuffer][i] = seeds'[NextBuffer][j]
      BY <2>1, <2>2, <2>5
    <2>7. ASSUME NEW i \in Items
          PROVE /\ seeds'[NextBuffer][i].draw = seeds[cur][i].draw
                /\ seeds'[NextBuffer][i].n = seeds[cur][i].n + keys_per_item
      <3>1. seeds'[NextBuffer][i] = [draw |-> seeds[cur][i].draw,
                                     n |-> seeds[cur][i].n + keys_per_item]
        BY <2>1, <2>2
      <3> HIDE DEF BatchInv, Launch
      <3> QED BY <3>1
    <2>8. seeds'[NextBuffer] \in [Items -> Seeds']
      BY <2>1, <2>4
    <2> QED BY <2>6, <2>7, <2>8, <1>2, <1>4, <1>6
  <1> QED BY <1>5, <1>6

LEMMA LaunchBatch == ASSUME BatchInv, Launch PROVE BatchInv'
  <1> USE DEF BatchInv, Launch
  <1>1. /\ draws' \in Nat /\ draws <= draws' /\ NextBuffer \in 0 .. 1 /\ NextBuffer # cur
        /\ seeds'[NextBuffer] \in [Items -> Seeds'] /\ seeds'[cur] = seeds[cur]
        /\ cur' = cur /\ NextBuffer' = NextBuffer /\ batches' = batches /\ batches \in Nat
        /\ cur \in 0 .. 1 /\ draws \in Nat
    BY NextSeeds DEF TypeOK, NextBuffer
  <1>2. Seeds \subseteq Seeds' /\ DerivedKeys \subseteq DerivedKeys' /\ Matches \subseteq Matches'
    BY <1>1, Grow
  <1>3. seeds' \in [0 .. 1 -> [Items -> Seeds']]
    <2>1. seeds \in [0 .. 1 -> [Items -> Seeds']]
      BY <1>2 DEF TypeOK
    <2>2. seeds' = [seeds EXCEPT ![NextBuffer] = seeds'[NextBuffer]]
      BY <1>1, <2>1
    <2> QED BY <2>1, <2>2, <1>1
  <1>4. device' = Generated(seeds'[NextBuffer]) /\ device' \in [Keys -> DerivedKeys']
    BY <1>1, GeneratedType DEF Seeds, DerivedKeys
  <1>5. pubkeys' = Generated(seeds'[cur]) /\ pubkeys' \in [Keys -> DerivedKeys']
    <2>1. seeds[cur] \in [Items -> Seeds] /\ pubkeys' = Generated(seeds[cur])
      BY <1>1 DEF TypeOK, BuffersInv
    <2>2. seeds[cur] \in [Items -> Seeds']
      BY <2>1, <1>2
    <2>3. Generated(seeds[cur]) \in [Keys -> DerivedKeys']
      BY <2>2, <1>1, GeneratedType DEF Seeds, DerivedKeys
    <2> QED BY <2>1, <2>3, <1>1
  <1>6. work' \in [Workers -> [at : {"look", "test", "ended"}, k : 0 .. Cardinality(Keys),
                               matches : Seq(Matches')]]
    <2>1. ASSUME NEW t \in Workers
          PROVE [at |-> "look", k |-> StartK(t), matches |-> <<>>]
                  \in [at : {"look", "test", "ended"}, k : 0 .. Cardinality(Keys),
                       matches : Seq(Matches')]
      <3>1. StartK(t) \in 0 .. Cardinality(Keys)
        BY ShareBounds, KeysCount
      <3> QED BY <3>1
    <2> QED BY <2>1
  <1>7. TypeOK'
    <2>1. printed' \subseteq Matches'
      BY <1>2 DEF TypeOK
    <2>2. {g_stop, reseed_needed, overrun}' \subseteq BOOLEAN
      BY DEF TypeOK
    <2>3. /\ {found, batches, draws, batch_found, hits}' \subseteq Nat
          /\ pc' \in {"init", "first", "top", "match", "print", "await", "done"}
          /\ stage' \in 1 .. Len(Engine) + 1 /\ shown' \in [t : 0 .. nthreads, m : Nat]
          /\ cur' \in 0 .. 1
      BY <1>1 DEF TypeOK
    <2> QED BY <2>1, <2>2, <2>3, <1>1, <1>3, <1>4, <1>5, <1>6 DEF TypeOK
  <1>8. BuffersInv'
    <2>1. \A i, j \in Items : seeds'[NextBuffer][i] = seeds'[NextBuffer][j]
      BY NextSeeds
    <2>2. \A i, j \in Items : seeds'[cur][i] = seeds'[cur][j]
      BY <1>1 DEF BuffersInv
    <2>3. \A b \in 0 .. 1 : b = cur \/ b = NextBuffer
      BY <1>1 DEF NextBuffer
    <2> QED BY <2>1, <2>2, <2>3, <1>1, <1>4, <1>5 DEF BuffersInv
  <1>9. ShareInv'
    <2>1. ASSUME NEW t \in Workers
          PROVE /\ work'[t] = [at |-> "look", k |-> StartK(t), matches |-> <<>>]
                /\ StartK(t) <= StartK(t) /\ StartK(t) <= EndK(t)
                /\ Len(<<>>) <= MaxMatchesPerThread
      BY ShareBounds, Sizes
    <2> QED BY <2>1 DEF ShareInv, StartK, EndK, KeysPerThread
  <1>10. EngineInv' /\ Released'
    BY DEF EngineInv, Released
  <1> QED BY <1>7, <1>8, <1>9, <1>10

\* The threads change nothing else.
LEMMA MatchStays ==
  ASSUME BatchInv, UNCHANGED <<pc, g_stop, enginevars, buffervars, resultvars>>,
         work' \in [Workers -> [at : {"look", "test", "ended"}, k : 0 .. Cardinality(Keys),
                                matches : Seq(Matches)]],
         batch_found' \in Nat, hits' \in Nat, overrun' \in BOOLEAN,
         ShareInv'
  PROVE BatchInv'
  <1> USE DEF BatchInv
  <1>1. Seeds' = Seeds /\ DerivedKeys' = DerivedKeys /\ Matches' = Matches
    BY DEF Seeds, DerivedKeys, Matches
  <1>2. {g_stop, reseed_needed, overrun}' \subseteq BOOLEAN
    BY DEF TypeOK
  <1>3. TypeOK'
    BY <1>1, <1>2 DEF TypeOK, NextBuffer
  <1>4. BuffersInv' /\ EngineInv' /\ Released'
    BY DEF BuffersInv, EngineInv, Released, NextBuffer
  <1> QED BY <1>3, <1>4

LEMMA LookBatch == ASSUME BatchInv, NEW t \in Workers, Look(t) PROVE BatchInv'
  <1> USE DEF Look
  <1>1. /\ work \in [Workers -> [at : {"look", "test", "ended"}, k : 0 .. Cardinality(Keys),
                                 matches : Seq(Matches)]]
        /\ batch_found' \in Nat /\ hits' \in Nat /\ overrun' \in BOOLEAN
    BY DEF BatchInv, TypeOK
  <1>2. /\ DOMAIN work' = Workers
        /\ \A u \in Workers : /\ work'[u].k = work[u].k /\ work'[u].matches = work[u].matches
                              /\ u # t => work'[u] = work[u]
        /\ work'[t].at = "test" => work[t].k < EndK(t)
        /\ work' \in [Workers -> [at : {"look", "test", "ended"}, k : 0 .. Cardinality(Keys),
                                  matches : Seq(Matches)]]
    BY <1>1
  <1>3. ShareInv'
    BY <1>2 DEF BatchInv, ShareInv, StartK, EndK, KeysPerThread
  <1> QED BY <1>1, <1>2, <1>3, MatchStays

LEMMA MissBatch == ASSUME BatchInv, NEW t \in Workers, Miss(t) PROVE BatchInv'
  <1> USE DEF Miss
  <1>1. /\ work \in [Workers -> [at : {"look", "test", "ended"}, k : 0 .. Cardinality(Keys),
                                 matches : Seq(Matches)]]
        /\ batch_found' \in Nat /\ hits' \in Nat /\ overrun' \in BOOLEAN
    BY DEF BatchInv, TypeOK
  <1>2. /\ StartK(t) \in Nat /\ EndK(t) \in Nat /\ EndK(t) <= Cardinality(Keys)
        /\ Cardinality(Keys) \in Nat
        /\ work[t].k \in Nat /\ StartK(t) <= work[t].k /\ work[t].k < EndK(t)
    BY <1>1, ShareBounds, KeysCount DEF BatchInv, ShareInv
  <1>3. /\ \A u \in Workers : /\ work'[u].matches = work[u].matches
                              /\ u # t => work'[u] = work[u]
        /\ work'[t].at = "look" /\ work'[t].k = work[t].k + 1
        /\ work' \in [Workers -> [at : {"look", "test", "ended"}, k : 0 .. Cardinality(Keys),
                                  matches : Seq(Matches)]]
    BY <1>1, <1>2
  <1>4. ShareInv'
    <2> SUFFICES ASSUME NEW u \in Workers
                 PROVE /\ StartK(u) <= work'[u].k /\ work'[u].k <= EndK(u)
                       /\ work'[u].at = "test" => work'[u].k < EndK(u)
                       /\ Len(work'[u].matches) <= MaxMatchesPerThread
      BY DEF ShareInv, StartK, EndK, KeysPerThread
    <2>1. CASE u = t
      BY <2>1, <1>2, <1>3 DEF BatchInv, ShareInv
    <2>2. CASE u # t
      BY <2>2, <1>3 DEF BatchInv, ShareInv
    <2> QED BY <2>1, <2>2
  <1> QED BY <1>1, <1>3, <1>4, MatchStays

\* What a match is made of.
NewMatch(k) == [seed |-> SeedOf(k), pubkey |-> pubkeys[k], batch |-> batches]

LEMMA NewMatchRight == ASSUME BatchInv, pc \in {"match", "print"}, NEW k \in Keys
                       PROVE /\ NewMatch(k) \in Matches /\ SeedOf(k) = pubkeys[k]
                             /\ pubkeys[k].draw = seeds[cur][0].draw
  <1> DEFINE q == k \div keys_per_item
             r == k % keys_per_item
  <1>1. q \in Items /\ r \in Nat /\ 0 \in Items
    BY ItemOf, Sizes DEF Items
  <1>2. cur \in 0 .. 1 /\ seeds[cur] \in [Items -> Seeds] /\ batches \in Nat
    BY DEF BatchInv, TypeOK
  <1>3. pubkeys = Generated(seeds[cur])
    BY DEF BatchInv, BuffersInv
  <1>4. pubkeys[k] = SeedOf(k)
    BY <1>3 DEF Generated, SeedOf
  <1> HIDE DEF q, r
  <1>5. SeedOf(k) = [draw |-> seeds[cur][q].draw, item |-> q, n |-> seeds[cur][q].n + r]
    BY DEF SeedOf, Key, q, r
  <1>6. SeedOf(k) \in DerivedKeys
    BY <1>1, <1>2, <1>5 DEF DerivedKeys, Seeds
  <1>7. NewMatch(k) \in Matches
    BY <1>2, <1>4, <1>6 DEF NewMatch, Matches
  <1>8. seeds[cur][q] = seeds[cur][0]
    BY <1>1, <1>2 DEF BatchInv, BuffersInv
  <1> QED BY <1>4, <1>5, <1>7, <1>8

\* A thread that finds a match: it ends when it has no room for it.
LEMMA HitCases ==
  ASSUME BatchInv, NEW t \in Workers, Hit(t)
  PROVE /\ pc = "match" /\ work[t].k \in Keys /\ work[t].k < EndK(t)
        /\ StartK(t) <= work[t].k /\ work[t].k + 1 <= EndK(t)
        /\ work' \in [Workers -> [at : {"look", "test", "ended"}, k : 0 .. Cardinality(Keys),
                                  matches : Seq(Matches)]]
        /\ \A u \in Workers : u # t => work'[u] = work[u]
        /\ \/ /\ work'[t].at = "ended" /\ work'[t].k = work[t].k /\ overrun'
              /\ work'[t].matches = work[t].matches /\ batch_found' = batch_found
           \/ /\ work'[t].at = "look" /\ work'[t].k = work[t].k + 1 /\ overrun' = overrun
              /\ Len(work[t].matches) < MaxMatchesPerThread
              /\ work'[t].matches = Append(work[t].matches, NewMatch(work[t].k))
              /\ batch_found' = batch_found + 1
  <1> USE DEF Hit
  <1>1. /\ work \in [Workers -> [at : {"look", "test", "ended"}, k : 0 .. Cardinality(Keys),
                                 matches : Seq(Matches)]]
    BY DEF BatchInv, TypeOK
  <1>2. /\ StartK(t) \in Nat /\ EndK(t) \in Nat /\ EndK(t) <= Cardinality(Keys)
        /\ Cardinality(Keys) \in Nat /\ Keys = 0 .. Cardinality(Keys) - 1
        /\ work[t].k \in Nat /\ StartK(t) <= work[t].k /\ work[t].k < EndK(t)
    BY <1>1, ShareBounds, KeysCount DEF BatchInv, ShareInv
  <1>3. work[t].k \in Keys /\ work[t].k + 1 <= EndK(t)
    BY <1>2
  <1>4. NewMatch(work[t].k) \in Matches
    BY <1>3, NewMatchRight
  <1>5. Append(work[t].matches, NewMatch(work[t].k)) \in Seq(Matches)
    BY <1>1, <1>4
  <1>6. CASE Len(work[t].matches) >= MaxMatchesPerThread
    BY <1>1, <1>2, <1>3, <1>6
  <1>7. CASE ~(Len(work[t].matches) >= MaxMatchesPerThread)
    <2>1. work' = [work EXCEPT ![t] = [at |-> "look", k |-> work[t].k + 1,
                                  matches |-> Append(work[t].matches, NewMatch(work[t].k))]]
      BY <1>1, <1>7 DEF NewMatch
    <2>2. work[t].k + 1 \in 0 .. Cardinality(Keys)
      BY <1>2, <1>3
    <2>3. Len(work[t].matches) < MaxMatchesPerThread
      BY <1>1, <1>7, Sizes
    <2>4. [at |-> "look", k |-> work[t].k + 1,
           matches |-> Append(work[t].matches, NewMatch(work[t].k))]
            \in [at : {"look", "test", "ended"}, k : 0 .. Cardinality(Keys),
                 matches : Seq(Matches)]
      BY <2>2, <1>5
    <2>5. /\ work' \in [Workers -> [at : {"look", "test", "ended"}, k : 0 .. Cardinality(Keys),
                                    matches : Seq(Matches)]]
          /\ \A u \in Workers : u # t => work'[u] = work[u]
          /\ work'[t] = [at |-> "look", k |-> work[t].k + 1,
                         matches |-> Append(work[t].matches, NewMatch(work[t].k))]
      BY <2>1, <2>4, <1>1
    <2> QED BY <2>3, <2>5, <1>2, <1>3, <1>7
  <1> QED BY <1>6, <1>7

LEMMA HitBatch == ASSUME BatchInv, NEW t \in Workers, Hit(t) PROVE BatchInv'
  <1>1. work \in [Workers -> [at : {"look", "test", "ended"}, k : 0 .. Cardinality(Keys),
                              matches : Seq(Matches)]]
    BY DEF BatchInv, TypeOK
  <1>2. batch_found \in Nat /\ hits \in Nat /\ overrun \in BOOLEAN
    BY DEF BatchInv, TypeOK
  <1>3. batch_found' \in Nat /\ hits' \in Nat
    BY <1>2 DEF Hit
  <1>4. overrun' \in BOOLEAN
    BY <1>2 DEF Hit
  <1>5. ShareInv'
    <2> SUFFICES ASSUME NEW u \in Workers
                 PROVE /\ StartK(u) <= work'[u].k /\ work'[u].k <= EndK(u)
                       /\ work'[u].at = "test" => work'[u].k < EndK(u)
                       /\ Len(work'[u].matches) <= MaxMatchesPerThread
      BY DEF ShareInv, StartK, EndK, KeysPerThread
    <2>1. /\ work[t].k \in Nat /\ StartK(t) \in Nat /\ EndK(t) \in Nat
          /\ work[t].matches \in Seq(Matches)
          /\ Len(work[t].matches) <= MaxMatchesPerThread
      BY <1>1, ShareBounds, HitCases DEF BatchInv, ShareInv
    <2>2. Len(Append(work[t].matches, NewMatch(work[t].k))) = Len(work[t].matches) + 1
      BY <2>1
    <2>3. CASE u = t
      BY <2>1, <2>2, <2>3, Sizes, HitCases
    <2>4. CASE u # t
      BY <2>4, HitCases DEF BatchInv, ShareInv
    <2> QED BY <2>3, <2>4
  <1>6. UNCHANGED <<pc, g_stop, enginevars, buffervars, resultvars>>
    BY DEF Hit
  <1> QED BY <1>3, <1>4, <1>5, <1>6, HitCases, MatchStays

\* The printing loops and what follows leave the threads' work alone.
LEMMA PrintingBatch ==
  ASSUME BatchInv, Joined \/ PrintOne \/ NextThread \/ Collected
  PROVE BatchInv'
  <1> USE DEF BatchInv
  <1>1. /\ UNCHANGED <<g_stop, enginevars, seeds, cur, pubkeys, device, draws, matchvars>>
        /\ pc \in {"match", "print"} /\ pc' \in {"print", "await"}
    BY DEF Joined, PrintOne, NextThread, Collected
  <1>2. /\ {found, batches, draws} \subseteq Nat /\ shown \in [t : 0 .. nthreads, m : Nat]
        /\ printed \subseteq Matches /\ Workers = 0 .. nthreads - 1
        /\ work \in [Workers -> [at : {"look", "test", "ended"}, k : 0 .. Cardinality(Keys),
                                 matches : Seq(Matches)]]
    BY DEF TypeOK, Workers
  <1>3. /\ {found', batches'} \subseteq Nat /\ batches <= batches'
        /\ reseed_needed' \in BOOLEAN /\ shown' \in [t : 0 .. nthreads, m : Nat]
        /\ printed' \subseteq Matches
    <2>1. CASE Joined
      <3>1. 0 \in 0 .. nthreads
        BY Sizes
      <3> QED BY <3>1, <2>1, <1>2 DEF Joined, TypeOK
    <2>2. CASE PrintOne
      <3>1. shown.t \in Workers /\ shown.m + 1 \in Nat
        BY <2>2, <1>2, Sizes DEF PrintOne, Left
      <3>2. /\ work[shown.t].matches \in Seq(Matches)
            /\ shown.m + 1 \in 1 .. Len(work[shown.t].matches)
        BY <3>1, <2>2, <1>2 DEF PrintOne
      <3>3. work[shown.t].matches[shown.m + 1] \in Matches
        BY <3>2
      <3> QED BY <3>1, <3>3, <2>2, <1>2 DEF PrintOne
    <2>3. CASE NextThread
      <3>1. shown.t + 1 \in 0 .. nthreads
        BY <2>3, <1>2, Sizes DEF NextThread, Left
      <3> QED BY <3>1, <2>3, <1>2 DEF NextThread, TypeOK
    <2>4. CASE Collected
      BY <2>4, <1>2 DEF Collected, TypeOK
    <2> QED BY <2>1, <2>2, <2>3, <2>4
  <1>4. Seeds' = Seeds /\ DerivedKeys' = DerivedKeys /\ Matches \subseteq Matches'
    <2>1. Matches \subseteq Matches'
      BY <1>1, <1>2, <1>3, Grow
    <2> QED BY <2>1, <1>1 DEF Seeds, DerivedKeys
  <1>5. TypeOK'
    <2>1. work' \in [Workers -> [at : {"look", "test", "ended"}, k : 0 .. Cardinality(Keys),
                                 matches : Seq(Matches')]]
      BY <1>1, <1>4, WorkGrows
    <2>2. {g_stop, reseed_needed, overrun}' \subseteq BOOLEAN
      BY <1>1, <1>3 DEF TypeOK
    <2>3. /\ {found, batches, draws, batch_found, hits}' \subseteq Nat
          /\ pc' \in {"init", "first", "top", "match", "print", "await", "done"}
          /\ stage' \in 1 .. Len(Engine) + 1
          /\ printed' \subseteq Matches'
      BY <1>1, <1>3, <1>4 DEF TypeOK
    <2>4. /\ seeds' \in [0 .. 1 -> [Items -> Seeds']] /\ cur' \in 0 .. 1
          /\ pubkeys' = None \/ pubkeys' \in [Keys -> DerivedKeys']
          /\ device' = None \/ device' \in [Keys -> DerivedKeys']
          /\ pubkeys' # None => pubkeys' = Generated(seeds'[cur'])
          /\ device' # None => device' = Generated(seeds'[NextBuffer'])
      BY <1>1, <1>4 DEF TypeOK, NextBuffer
    <2> QED BY <2>1, <2>2, <2>3, <2>4, <1>3 DEF TypeOK
  <1>6. BuffersInv'
    BY <1>1 DEF BuffersInv, NextBuffer
  <1>7. EngineInv' /\ Released' /\ ShareInv'
    BY <1>1 DEF EngineInv, Released, ShareInv, StartK, EndK, KeysPerThread
  <1> QED BY <1>5, <1>6, <1>7

LEMMA AwaitBatch == ASSUME BatchInv, Await PROVE BatchInv'
  <1> USE DEF BatchInv, Await
  <1>1. Seeds' = Seeds /\ DerivedKeys' = DerivedKeys /\ Matches' = Matches
    BY DEF Seeds, DerivedKeys, Matches
  <1>2. /\ cur' = NextBuffer /\ cur' \in 0 .. 1
        /\ pubkeys' = Generated(seeds'[cur']) /\ pubkeys' \in [Keys -> DerivedKeys]
    <2>1. cur \in 0 .. 1 /\ NextBuffer \in 0 .. 1 /\ device = Generated(seeds[NextBuffer])
          /\ seeds[NextBuffer] \in [Items -> Seeds] /\ draws \in Nat
      BY DEF TypeOK, BuffersInv, NextBuffer
    <2>2. Generated(seeds[NextBuffer]) \in [Keys -> DerivedKeys]
      BY <2>1, GeneratedType DEF Seeds, DerivedKeys
    <2> QED BY <2>1, <2>2
  <1>3. TypeOK'
    <2>1. {g_stop, reseed_needed, overrun}' \subseteq BOOLEAN
      BY DEF TypeOK
    <2> QED BY <2>1, <1>1, <1>2 DEF TypeOK
  <1>4. BuffersInv'
    BY <1>2 DEF BuffersInv
  <1>5. EngineInv' /\ Released' /\ ShareInv'
    BY DEF EngineInv, Released, ShareInv
  <1> QED BY <1>3, <1>4, <1>5

LEMMA OtherBatch == ASSUME BatchInv, Signalled \/ UNCHANGED vars PROVE BatchInv'
  <1> USE DEF BatchInv
  <1>1. UNCHANGED <<pc, enginevars, buffervars, matchvars, resultvars>>
    BY DEF Signalled, vars
  <1>2. TypeOK'
    <2>1. g_stop' \in BOOLEAN
      BY DEF Signalled, vars, TypeOK
    <2>2. /\ pc' \in {"init", "first", "top", "match", "print", "await", "done"}
          /\ stage' \in 1 .. Len(Engine) + 1
      BY <1>1 DEF TypeOK
    <2> QED BY <2>1, <2>2, <1>1, TypesStay
  <1>3. BuffersInv' /\ EngineInv' /\ Released' /\ ShareInv'
    BY <1>1 DEF BuffersInv, EngineInv, Released, ShareInv, NextBuffer, StartK, EndK,
                KeysPerThread
  <1> QED BY <1>2, <1>3

\* The steps, by what they do.
LEMMA Steps == ASSUME [Next]_vars
               PROVE \/ EngineCall \/ EngineFails \/ FirstBatch \/ Launch \/ Await
                     \/ FirstFails \/ LaunchFails \/ AwaitFails \/ Finish
                     \/ Joined \/ PrintOne \/ NextThread \/ Collected
                     \/ \E t \in Workers : Look(t)
                     \/ \E t \in Workers : Miss(t)
                     \/ \E t \in Workers : Hit(t)
                     \/ Signalled \/ UNCHANGED vars
  BY DEF Next, Main, Fails, Ended, Match

LEMMA NextBatch == ASSUME BatchInv, [Next]_vars PROVE BatchInv'
  BY Steps, EngineCallBatch, EngineFailsBatch, FirstBatchBatch, LaunchBatch, AwaitBatch,
     CleanupBatch, PrintingBatch, LookBatch, MissBatch, HitBatch, OtherBatch

\* What the buffers hold at each place of the main loop.
THEOREM Batches == Spec => []BatchInv
  <1>1. Init => BatchInv
    BY InitBatch
  <1>2. BatchInv /\ [Next]_vars => BatchInv'
    BY NextBatch
  <1> QED BY <1>1, <1>2, PTL DEF Spec

\* However the search ends, also after a call that failed, the OpenCL objects that were
\* created are released.
THEOREM AllReleased == Spec => []Released
  <1>1. BatchInv => Released
    BY DEF BatchInv
  <1> QED BY <1>1, Batches, PTL

-------------------------------------------------------------------------------
(* The keys of a batch *)

\* A key, from where it is in a batch.
LEMMA KeyAt ==
  ASSUME NEW buffer, NEW k \in Keys
  PROVE \E i \in Items, r \in 0 .. keys_per_item - 1 :
          /\ i = k \div keys_per_item /\ k = i * keys_per_item + r
          /\ Generated(buffer)[k] = [draw |-> buffer[i].draw, item |-> i,
                                     n |-> buffer[i].n + r]
  <1> DEFINE q == k \div keys_per_item
             s == k % keys_per_item
  <1>1. k \in Nat
    BY Sizes, MulNat DEF Keys
  <1>2. q \in Items
    BY ItemOf
  <1>3. s \in 0 .. keys_per_item - 1
    BY <1>1, Sizes, Remainder
  <1>4. k = q * keys_per_item + s
    BY <1>1, Sizes, Divided
  <1>5. Generated(buffer)[k] = Key(buffer, q, s)
    BY DEF Generated
  <1>6. q = k \div keys_per_item
    OBVIOUS
  <1> HIDE DEF q, s
  <1> QED BY <1>2, <1>3, <1>4, <1>5, <1>6 DEF Key

\* No key occurs in a batch twice.
LEMMA KeysDiffer ==
  ASSUME BatchInv, pc \in {"top", "match", "print", "await"},
         NEW k \in Keys, NEW j \in Keys, pubkeys[k] = pubkeys[j]
  PROVE k = j
  <1>1. /\ cur \in 0 .. 1 /\ seeds[cur] \in [Items -> Seeds]
        /\ pubkeys = Generated(seeds[cur])
    BY DEF BatchInv, TypeOK, BuffersInv
  <1>2. PICK i \in Items, r \in 0 .. keys_per_item - 1 :
          /\ k = i * keys_per_item + r
          /\ pubkeys[k] = [draw |-> seeds[cur][i].draw, item |-> i,
                           n |-> seeds[cur][i].n + r]
    BY <1>1, KeyAt
  <1>3. PICK i2 \in Items, r2 \in 0 .. keys_per_item - 1 :
          /\ j = i2 * keys_per_item + r2
          /\ pubkeys[j] = [draw |-> seeds[cur][i2].draw, item |-> i2,
                           n |-> seeds[cur][i2].n + r2]
    BY <1>1, KeyAt
  <1>4. pubkeys[k].item = i /\ pubkeys[k].n = seeds[cur][i].n + r
    BY <1>2
  <1>5. pubkeys[j].item = i2 /\ pubkeys[j].n = seeds[cur][i2].n + r2
    BY <1>3
  <1>6. i = i2 /\ seeds[cur][i].n + r = seeds[cur][i].n + r2
    BY <1>4, <1>5
  <1>7. seeds[cur][i].n \in Nat
    BY <1>1 DEF Seeds
  <1>8. r = r2
    BY <1>6, <1>7, Sizes
  <1> QED BY <1>2, <1>3, <1>6, <1>8

\* The keys of the next batch come after those of this one.
LEMMA KeysGoOn ==
  ASSUME BatchInv, Launch, NEW k \in Keys, NEW j \in Keys
  PROVE /\ device'[k] # pubkeys[j]
        /\ device'[k].draw = pubkeys[j].draw => device'[k].n > pubkeys[j].n
        /\ device'[k].draw >= pubkeys[j].draw
  <1>1. /\ cur \in 0 .. 1 /\ seeds[cur] \in [Items -> Seeds] /\ draws \in Nat
        /\ pubkeys = Generated(seeds[cur])
        /\ \A i1, i2 \in Items : seeds[cur][i1] = seeds[cur][i2]
    BY DEF BatchInv, TypeOK, BuffersInv, Launch
  <1>2. device' = Generated(seeds'[NextBuffer])
    BY DEF Launch, NextBuffer
  <1>3. PICK i \in Items, r \in 0 .. keys_per_item - 1 :
          device'[k] = [draw |-> seeds'[NextBuffer][i].draw, item |-> i,
                        n |-> seeds'[NextBuffer][i].n + r]
    BY <1>2, KeyAt
  <1>4. PICK i2 \in Items, r2 \in 0 .. keys_per_item - 1 :
          pubkeys[j] = [draw |-> seeds[cur][i2].draw, item |-> i2,
                        n |-> seeds[cur][i2].n + r2]
    BY <1>1, KeyAt
  <1>5. /\ device'[k].draw = seeds'[NextBuffer][i].draw
        /\ device'[k].n = seeds'[NextBuffer][i].n + r
    BY <1>3
  <1>6. /\ pubkeys[j].draw = seeds[cur][i].draw
        /\ pubkeys[j].n = seeds[cur][i].n + r2
    BY <1>1, <1>4
  <1>7. seeds[cur][i].draw \in 0 .. draws /\ seeds[cur][i].n \in Nat
    BY <1>1 DEF Seeds
  <1>8. CASE reseed_needed
    <2>1. seeds'[NextBuffer][i].draw = draws + 1
      BY <1>8, NextSeeds
    <2> QED BY <2>1, <1>1, <1>5, <1>6, <1>7
  <1>9. CASE ~reseed_needed
    <2>1. /\ seeds'[NextBuffer][i].draw = seeds[cur][i].draw
          /\ seeds'[NextBuffer][i].n = seeds[cur][i].n + keys_per_item
      BY <1>9, NextSeeds
    <2>2. device'[k].n > pubkeys[j].n
      BY <2>1, <1>5, <1>6, <1>7, Sizes
    <2>3. device'[k].draw = pubkeys[j].draw /\ pubkeys[j].n \in Nat /\ pubkeys[j].draw \in Nat
      BY <2>1, <1>1, <1>5, <1>6, <1>7, Sizes
    <2> QED BY <2>2, <2>3
  <1> QED BY <1>8, <1>9

\* A key is computed once: a batch does not repeat keys of the batch before it, and goes
\* on where that one ended or from a new reading of the random source.
THEOREM KeysComputedOnce == Spec => KeysFresh
  <1>1. ASSUME BatchInv, [Next]_vars
        PROVE [device' # None /\ device' # device =>
                 \A k, j \in Keys :
                   /\ device'[k] # pubkeys[j]
                   /\ device'[k].draw = pubkeys[j].draw => device'[k].n > pubkeys[j].n
                   /\ device'[k].draw >= pubkeys[j].draw]_vars
    <2> SUFFICES ASSUME device' # None, device' # device PROVE Launch
      BY <1>1, KeysGoOn
    <2>1. ~ \E t \in Workers : Look(t) \/ Miss(t) \/ Hit(t)
      BY DEF Look, Miss, Hit
    <2> QED BY <1>1, <2>1, Steps
            DEF EngineCall, EngineFails, FirstBatch, Await, FirstFails, LaunchFails,
                AwaitFails, Finish, Joined, PrintOne, NextThread, Collected, Signalled, vars
  <1> QED BY <1>1, Batches, PTL DEF Spec, KeysFresh

-------------------------------------------------------------------------------
(* The places of the matches *)

LEMMA PlacesFinite == IsFiniteSet(Places) /\ IsFiniteSet(Waiting)
  <1>1. IsFiniteSet(Workers) /\ IsFiniteSet(1 .. MaxMatchesPerThread)
    <2>1. 0 \in Int /\ nthreads - 1 \in Int /\ 1 \in Int /\ MaxMatchesPerThread \in Int
      BY Sizes
    <2> QED BY <2>1, FS_Interval DEF Workers
  <1>2. IsFiniteSet(Workers \X (1 .. MaxMatchesPerThread))
    BY <1>1, FS_Product
  <1>3. Places \in SUBSET (Workers \X (1 .. MaxMatchesPerThread)) /\ Waiting \in SUBSET Places
    BY DEF Places, Waiting
  <1>4. IsFiniteSet(Places)
    BY <1>2, <1>3, FS_Subset
  <1> QED BY <1>3, <1>4, FS_Subset

\* A place has a match.
LEMMA PlaceHasMatch == ASSUME BatchInv, NEW p \in Places
                       PROVE /\ p[1] \in Workers /\ p[2] \in 1 .. Len(work[p[1]].matches)
                             /\ Match_(p) \in Matches /\ p = <<p[1], p[2]>>
  <1>1. /\ p[1] \in Workers /\ p[2] \in 1 .. MaxMatchesPerThread /\ p = <<p[1], p[2]>>
        /\ p[2] <= Len(work[p[1]].matches)
    BY DEF Places
  <1>2. work[p[1]].matches \in Seq(Matches)
    BY <1>1 DEF BatchInv, TypeOK
  <1>3. p[2] \in 1 .. Len(work[p[1]].matches)
    BY <1>1, <1>2, Sizes
  <1> QED BY <1>1, <1>2, <1>3 DEF Match_

LEMMA PlaceOf == ASSUME BatchInv, pc \in {"match", "print", "await"},
                        NEW t \in Workers, NEW i \in 1 .. Len(work[t].matches)
                 PROVE <<t, i>> \in Places /\ Match_(<<t, i>>) = work[t].matches[i]
  <1>1. Len(work[t].matches) \in Nat /\ Len(work[t].matches) <= MaxMatchesPerThread
    BY DEF BatchInv, TypeOK, ShareInv
  <1>2. i \in 1 .. MaxMatchesPerThread /\ i <= Len(work[t].matches)
    BY <1>1, Sizes
  <1> QED BY <1>2 DEF Places, Match_

\* Steps that add no match.
LEMMA PlacesSame == ASSUME \A u \in Workers : work'[u].matches = work[u].matches
                    PROVE Places' = Places /\ \A p \in Places : Match_(p)' = Match_(p)
  <1>1. \A p \in Workers \X (1 .. MaxMatchesPerThread) :
          Len(work'[p[1]].matches) = Len(work[p[1]].matches) /\ p[1] \in Workers
    OBVIOUS
  <1>2. Places' = Places
    BY <1>1 DEF Places
  <1>3. \A p \in Places : p[1] \in Workers
    BY DEF Places
  <1> QED BY <1>2, <1>3 DEF Match_

\* One more match of a thread.
LEMMA PlacesHit ==
  ASSUME BatchInv, pc = "match", NEW t \in Workers, NEW m,
         Len(work[t].matches) < MaxMatchesPerThread,
         work'[t].matches = Append(work[t].matches, m),
         \A u \in Workers : u # t => work'[u] = work[u]
  PROVE /\ <<t, Len(work[t].matches) + 1>> \notin Places
        /\ Places' = Places \cup {<<t, Len(work[t].matches) + 1>>}
        /\ work'[t].matches[Len(work[t].matches) + 1] = m
        /\ \A p \in Places : Match_(p)' = Match_(p)
  <1> DEFINE s == work[t].matches
             n == Len(work[t].matches)
  <1>1. /\ s \in Seq(Matches) /\ n \in Nat /\ n < MaxMatchesPerThread
        /\ \A u \in Workers : Len(work[u].matches) \in Nat
    BY DEF BatchInv, TypeOK
  <1>2. /\ work'[t].matches = Append(s, m) /\ Len(work'[t].matches) = n + 1
        /\ Append(s, m)[n + 1] = m /\ \A i \in 1 .. n : Append(s, m)[i] = s[i]
    BY <1>1
  <1>3. n + 1 \in 1 .. MaxMatchesPerThread
    BY <1>1, Sizes
  <1>4. <<t, n + 1>> \notin Places
    BY <1>1 DEF Places
  <1>5. ASSUME NEW p \in Workers \X (1 .. MaxMatchesPerThread)
        PROVE p[2] <= Len(work'[p[1]].matches)
                <=> p[2] <= Len(work[p[1]].matches) \/ p = <<t, n + 1>>
    <2>1. p[1] \in Workers /\ p[2] \in Nat /\ p = <<p[1], p[2]>>
      BY Sizes
    <2>2. CASE p[1] = t
      <3>1. p = <<t, n + 1>> <=> p[2] = n + 1
        BY <2>1, <2>2
      <3>2. p[2] <= n + 1 <=> p[2] <= n \/ p[2] = n + 1
        BY <2>1, <1>1
      <3> QED BY <3>1, <3>2, <2>2, <1>2
    <2>3. CASE p[1] # t
      <3>1. p # <<t, n + 1>>
        BY <2>3
      <3> QED BY <2>1, <2>3, <3>1
    <2> QED BY <2>2, <2>3
  <1>6. Places' = Places \cup {<<t, n + 1>>}
    <2>1. <<t, n + 1>> \in Workers \X (1 .. MaxMatchesPerThread)
      BY <1>3
    <2> HIDE DEF n
    <2>2. \A p : p \in Places' <=> p \in Places \/ p = <<t, n + 1>>
      BY <2>1, <1>5 DEF Places
    <2> QED BY <2>2
  <1>7. ASSUME NEW p \in Places PROVE Match_(p)' = Match_(p)
    <2>1. p[1] \in Workers /\ p[2] \in 1 .. Len(work[p[1]].matches)
      BY PlaceHasMatch
    <2>2. CASE p[1] = t
      BY <2>1, <2>2, <1>2 DEF Match_
    <2>3. CASE p[1] # t
      BY <2>1, <2>3 DEF Match_
    <2> QED BY <2>2, <2>3
  <1>8. work'[t].matches[n + 1] = m
    BY <1>2
  <1> QED BY <1>4, <1>6, <1>7, <1>8

\* The matches that wait, at each step of the printing loops.
LEMMA WaitingAll == ASSUME BatchInv, Joined PROVE Waiting' = Places /\ Places' = Places
  <1>1. Places' = Places
    BY DEF Joined, Places
  <1>2. shown'.t = 0 /\ shown'.m = 0
    BY DEF Joined
  <1>3. ASSUME NEW p \in Places PROVE p[1] > 0 \/ (p[1] = 0 /\ p[2] > 0)
    <2>1. p[1] \in Workers /\ p[2] \in 1 .. MaxMatchesPerThread
      BY DEF Places
    <2> QED BY <2>1, Sizes DEF Workers
  <1> QED BY <1>1, <1>2, <1>3 DEF Waiting

LEMMA WaitingPrint ==
  ASSUME BatchInv, PrintOne
  PROVE /\ Places' = Places /\ \A p \in Places : Match_(p)' = Match_(p)
        /\ <<shown.t, shown.m + 1>> \in Waiting
        /\ Waiting' = Waiting \ {<<shown.t, shown.m + 1>>}
        /\ printed' = printed \cup {Match_(<<shown.t, shown.m + 1>>)}
  <1> DEFINE t == shown.t
             m == shown.m
  <1>1. /\ t \in Workers /\ m \in Nat /\ m + 1 \in 1 .. Len(work[t].matches)
    <2>1. shown \in [t : 0 .. nthreads, m : Nat]
      BY DEF BatchInv, TypeOK
    <2>2. t \in Workers /\ m \in Nat
      BY <2>1, Sizes DEF PrintOne, Left, Workers
    <2>3. Len(work[t].matches) \in Nat
      BY <2>2 DEF BatchInv, TypeOK
    <2> QED BY <2>2, <2>3 DEF PrintOne
  <1>2. Places' = Places /\ \A p \in Places : Match_(p)' = Match_(p)
    BY PlacesSame DEF PrintOne
  <1>3. <<t, m + 1>> \in Places /\ Match_(<<t, m + 1>>) = work[t].matches[m + 1]
    BY <1>1, PlaceOf DEF PrintOne
  <1>4. shown'.t = t /\ shown'.m = m + 1
    BY DEF PrintOne, BatchInv, TypeOK
  <1>5. ASSUME NEW p \in Places
        PROVE /\ p[1] \in Nat /\ p[2] \in Nat /\ p = <<p[1], p[2]>>
              /\ p = <<t, m + 1>> <=> p[1] = t /\ p[2] = m + 1
    <2>1. p[1] \in Workers /\ p[2] \in 1 .. MaxMatchesPerThread /\ p = <<p[1], p[2]>>
      BY DEF Places
    <2> QED BY <2>1, Sizes DEF Workers
  <1>6. t \in Nat
    BY <1>1, Sizes DEF Workers
  <1> HIDE DEF t, m
  <1>7. <<t, m + 1>> \in Waiting
    BY <1>1, <1>3, <1>6 DEF Waiting, t, m
  <1>8. Waiting' = Waiting \ {<<t, m + 1>>}
    <2>1. ASSUME NEW p \in Places
          PROVE p[1] > t \/ (p[1] = t /\ p[2] > m + 1)
                  <=> (p[1] > t \/ (p[1] = t /\ p[2] > m)) /\ p # <<t, m + 1>>
      <3>1. /\ p[1] \in Nat /\ p[2] \in Nat
            /\ p = <<t, m + 1>> <=> p[1] = t /\ p[2] = m + 1
        BY <1>5
      <3> QED BY <3>1, <1>1, <1>6
    <2>2. Waiting' = {p \in Places : p[1] > t \/ (p[1] = t /\ p[2] > m + 1)}
      BY <1>2, <1>4 DEF Waiting
    <2>3. Waiting = {p \in Places : p[1] > t \/ (p[1] = t /\ p[2] > m)}
      BY DEF Waiting, t, m
    <2> QED BY <2>1, <2>2, <2>3
  <1>9. printed' = printed \cup {Match_(<<t, m + 1>>)}
    BY <1>3 DEF PrintOne, t, m
  <1> QED BY <1>2, <1>7, <1>8, <1>9 DEF t, m

LEMMA WaitingNext == ASSUME BatchInv, NextThread PROVE Waiting' = Waiting /\ Places' = Places
  <1>1. Places' = Places
    BY DEF NextThread, Places
  <1>2. /\ shown.t \in Nat /\ shown.m = Len(work[shown.t].matches)
        /\ shown'.t = shown.t + 1 /\ shown'.m = 0
    BY Sizes DEF NextThread, BatchInv, TypeOK
  <1>3. ASSUME NEW p \in Places
        PROVE p[1] > shown.t + 1 \/ (p[1] = shown.t + 1 /\ p[2] > 0)
                <=> p[1] > shown.t \/ (p[1] = shown.t /\ p[2] > shown.m)
    <2>1. /\ p[1] \in Workers /\ p[2] \in 1 .. Len(work[p[1]].matches)
          /\ p[2] \in 1 .. MaxMatchesPerThread
      BY PlaceHasMatch DEF Places
    <2>2. p[1] \in Nat /\ p[2] \in Nat /\ p[2] > 0 /\ p[2] <= Len(work[p[1]].matches)
      BY <2>1, Sizes DEF Workers, Places
    <2>3. p[1] = shown.t => ~(p[2] > shown.m)
      <3>1. p[1] = shown.t => shown.m \in Nat /\ p[2] <= shown.m
        BY <1>2, <2>2 DEF BatchInv, TypeOK
      <3> QED BY <3>1, <2>2
    <2> QED BY <2>2, <2>3, <1>2
  <1> QED BY <1>1, <1>2, <1>3 DEF Waiting

\* After the last thread, none waits.
LEMMA WaitingNone == ASSUME BatchInv, shown.t >= nthreads PROVE Waiting = {}
  <1> SUFFICES ASSUME NEW p \in Waiting PROVE FALSE
    OBVIOUS
  <1>1. p[1] \in 0 .. nthreads - 1 /\ p[1] >= shown.t
    BY DEF Waiting, Places, Workers, BatchInv, TypeOK
  <1>2. shown.t \in Nat
    BY Sizes DEF BatchInv, TypeOK
  <1> QED BY <1>1, <1>2, Sizes

-------------------------------------------------------------------------------
(* Where the matches come from: each step keeps MatchInv *)

\* Steps that leave the matches alone, or end the batch.
LEMMA KeepsMatches ==
  ASSUME BatchInv, MatchInv,
         UNCHANGED <<work, printed, batches, shown>>,
         pc' \in {"match", "print"} => pc' = pc /\ pubkeys' = pubkeys,
         pc' \notin {"print", "done"} => pc \notin {"print", "done"}
  PROVE MatchInv'
  <1> USE DEF MatchInv
  <1>1. SeedIsTheKeys'
    BY DEF SeedIsTheKeys
  <1>2. Places' = Places /\ Waiting' = Waiting /\ \A p : Match_(p)' = Match_(p)
    BY DEF Places, Waiting, Match_
  <1>3. pc' \in {"match", "print"} =>
          /\ \A p \in Places : /\ Match_(p).batch = batches
                               /\ \E k \in Keys : /\ StartK(p[1]) <= k /\ k < work[p[1]].k
                                                  /\ Match_(p).pubkey = pubkeys[k]
          /\ \A p, q \in Places : Match_(p) = Match_(q) => p = q
    OBVIOUS
  <1>4. /\ pc' \notin {"print", "done"} => \A m \in printed : m.batch < batches
        /\ pc' = "print" => \A m \in printed : \/ m.batch < batches
                                               \/ \E p \in Places \ Waiting : m = Match_(p)
    OBVIOUS
  <1>5. \A t : StartK(t)' = StartK(t)
    BY DEF StartK, KeysPerThread
  <1> HIDE DEF MatchInv
  <1> QED BY <1>1, <1>2, <1>3, <1>4, <1>5 DEF MatchInv

LEMMA InitMatch == Init => MatchInv
  BY DEF Init, MatchInv, SeedIsTheKeys, Places

LEMMA LaunchMatch == ASSUME BatchInv, MatchInv, Launch PROVE MatchInv'
  <1> USE DEF Launch
  <1>1. \A t \in Workers : work'[t].matches = <<>>
    OBVIOUS
  <1>2. Places' = {}
    <2>1. \A p \in Workers \X (1 .. MaxMatchesPerThread) : ~(p[2] <= Len(work'[p[1]].matches))
      BY <1>1, Sizes
    <2> QED BY <2>1 DEF Places
  <1>3. SeedIsTheKeys'
    BY <1>1 DEF MatchInv, SeedIsTheKeys
  <1> QED BY <1>2, <1>3 DEF MatchInv

\* A thread that goes on without a match.
LEMMA GoesOn ==
  ASSUME BatchInv, MatchInv, pc = "match", NEW t \in Workers,
         \A u \in Workers : /\ work'[u].matches = work[u].matches
                            /\ u # t => work'[u].k = work[u].k,
         work'[t].k = work[t].k \/ work'[t].k = work[t].k + 1,
         UNCHANGED <<pc, pubkeys, printed, batches>>
  PROVE MatchInv'
  <1>1. Places' = Places /\ \A p \in Places : Match_(p)' = Match_(p)
    BY PlacesSame
  <1>2. SeedIsTheKeys'
    BY DEF MatchInv, SeedIsTheKeys
  <1>3. ASSUME NEW p \in Places
        PROVE /\ Match_(p).batch = batches
              /\ \E k \in Keys : /\ StartK(p[1]) <= k /\ k < work'[p[1]].k
                                 /\ Match_(p).pubkey = pubkeys[k]
    <2>1. PICK k \in Keys : /\ StartK(p[1]) <= k /\ k < work[p[1]].k
                            /\ Match_(p).pubkey = pubkeys[k]
      BY DEF MatchInv
    <2>2. p[1] \in Workers /\ work[p[1]].k \in Nat /\ k \in Nat
      BY PlaceHasMatch, KeysCount DEF BatchInv, TypeOK
    <2>3. work'[p[1]].k = work[p[1]].k \/ work'[p[1]].k = work[p[1]].k + 1
      BY <2>2
    <2>4. k < work'[p[1]].k
      BY <2>1, <2>2, <2>3
    <2> QED BY <2>1, <2>4 DEF MatchInv
  <1>4. \A p, q \in Places : Match_(p) = Match_(q) => p = q
    BY DEF MatchInv
  <1>5. \A u : StartK(u)' = StartK(u)
    BY DEF StartK, KeysPerThread
  <1>6. \A m \in printed : m.batch < batches
    BY DEF MatchInv
  <1> QED BY <1>1, <1>2, <1>3, <1>4, <1>5, <1>6 DEF MatchInv

LEMMA HitMatch == ASSUME BatchInv, MatchInv, NEW t \in Workers, Hit(t) PROVE MatchInv'
  <1>1. /\ pc = "match" /\ work[t].k \in Keys /\ StartK(t) <= work[t].k
        /\ work[t].k < EndK(t)
        /\ \A u \in Workers : u # t => work'[u] = work[u]
        /\ UNCHANGED <<pc, pubkeys, printed, batches>>
    BY HitCases DEF Hit
  <1>2. CASE work'[t].matches = work[t].matches /\ work'[t].k = work[t].k
    BY <1>1, <1>2, GoesOn
  <1>3. CASE /\ work'[t].k = work[t].k + 1
             /\ Len(work[t].matches) < MaxMatchesPerThread
             /\ work'[t].matches = Append(work[t].matches, NewMatch(work[t].k))
    <2> DEFINE k0 == work[t].k
               new == <<t, Len(work[t].matches) + 1>>
    <2>1. /\ new \notin Places /\ Places' = Places \cup {new}
          /\ work'[t].matches[Len(work[t].matches) + 1] = NewMatch(k0)
          /\ \A p \in Places : Match_(p)' = Match_(p)
      BY <1>1, <1>3, PlacesHit
    <2>2. /\ NewMatch(k0).batch = batches /\ NewMatch(k0).pubkey = pubkeys[k0]
          /\ NewMatch(k0).seed = NewMatch(k0).pubkey
      BY <1>1, NewMatchRight DEF NewMatch
    <2>3. \A p : p = new => Match_(p)' = NewMatch(k0)
      BY <2>1 DEF Match_
    <2>4. k0 \in Nat /\ StartK(t) \in Nat
      BY <1>1, KeysCount, ShareBounds
    <2> HIDE DEF k0, new
    <2>5. new[1] = t
      BY DEF new
    <2>6. ASSUME NEW p \in Places
          PROVE /\ Match_(p).batch = batches
                /\ \E k \in Keys : /\ StartK(p[1]) <= k /\ k < work[p[1]].k
                                   /\ k < work'[p[1]].k /\ k # k0
                                   /\ Match_(p).pubkey = pubkeys[k]
      <3>1. PICK k \in Keys : /\ StartK(p[1]) <= k /\ k < work[p[1]].k
                              /\ Match_(p).pubkey = pubkeys[k]
        BY <1>1 DEF MatchInv
      <3>2. p[1] \in Workers /\ work[p[1]].k \in Nat /\ k \in Nat
        BY PlaceHasMatch, KeysCount DEF BatchInv, TypeOK
      <3>3. k < work'[p[1]].k
        <4>1. CASE p[1] = t
          BY <4>1, <1>3, <3>1, <3>2
        <4>2. CASE p[1] # t
          BY <4>2, <1>1, <3>1, <3>2
        <4> QED BY <4>1, <4>2
      <3>4. k # k0
        <4>1. CASE p[1] = t
          BY <4>1, <3>1, <2>4 DEF k0
        <4>2. CASE p[1] # t
          <5>1. work[p[1]].k <= EndK(p[1]) /\ EndK(p[1]) \in Nat /\ k < EndK(p[1])
            BY <1>1, <3>1, <3>2, ShareBounds DEF BatchInv, ShareInv
          <5>2. SUFFICES ASSUME k = k0 PROVE FALSE
            OBVIOUS
          <5>3. StartK(p[1]) <= k0 /\ k0 < EndK(p[1]) /\ StartK(t) <= k0 /\ k0 < EndK(t)
            BY <5>1, <5>2, <3>1, <1>1 DEF k0
          <5>4. k0 \in Keys
            BY <1>1 DEF k0
          <5> QED BY <5>3, <5>4, <4>2, <3>2, Partition
        <4> QED BY <4>1, <4>2
      <3> QED BY <3>1, <3>3, <3>4, <1>1 DEF MatchInv
    <2>7. k0 \in Keys /\ StartK(t) <= k0 /\ k0 < work'[t].k
      BY <1>1, <1>3, <2>4 DEF k0
    <2>8. \A p \in Places' : /\ Match_(p)'.batch = batches
                             /\ \E k \in Keys : /\ StartK(p[1]) <= k /\ k < work'[p[1]].k
                                                /\ Match_(p)'.pubkey = pubkeys[k]
      BY <2>1, <2>2, <2>3, <2>5, <2>6, <2>7
    <2>9. ASSUME NEW p \in Places', NEW q \in Places', Match_(p)' = Match_(q)' PROVE p = q
      <3>1. \A r \in Places : Match_(r) # NewMatch(k0)
        BY <2>2, <2>6, <2>7, <1>1, KeysDiffer
      <3>2. \A r, s \in Places : Match_(r) = Match_(s) => r = s
        BY <1>1 DEF MatchInv
      <3> QED BY <2>1, <2>3, <2>9, <3>1, <3>2
    <2>10. SeedIsTheKeys'
      <3> SUFFICES ASSUME NEW u \in Workers, NEW i \in 1 .. Len(work'[u].matches)
                   PROVE work'[u].matches[i].seed = work'[u].matches[i].pubkey
        BY <1>1 DEF MatchInv, SeedIsTheKeys
      <3>1. CASE u # t
        BY <3>1, <1>1 DEF MatchInv, SeedIsTheKeys
      <3>2. CASE u = t /\ i # Len(work[t].matches) + 1
        <4>1. work[t].matches \in Seq(Matches)
          BY DEF BatchInv, TypeOK
        <4>2. i \in 1 .. Len(work[t].matches) /\ work'[t].matches[i] = work[t].matches[i]
          BY <4>1, <3>2, <1>3
        <4> QED BY <4>2, <3>2 DEF MatchInv, SeedIsTheKeys
      <3>3. CASE u = t /\ i = Len(work[t].matches) + 1
        BY <3>3, <2>1, <2>2
      <3> QED BY <3>1, <3>2, <3>3
    <2>11. \A m \in printed : m.batch < batches
      BY <1>1 DEF MatchInv
    <2>12. \A u : StartK(u)' = StartK(u)
      BY DEF StartK, KeysPerThread
    <2> QED BY <2>8, <2>9, <2>10, <2>11, <2>12, <1>1 DEF MatchInv
  <1> QED BY <1>2, <1>3, HitCases

\* A match that waits is not printed yet.
LEMMA WaitingIsNew == ASSUME BatchInv, MatchInv, pc = "print", NEW p \in Waiting
                      PROVE /\ Match_(p) \notin printed /\ Match_(p) \in Matches
                            /\ Match_(p).batch = batches
                            /\ Match_(p).seed = Match_(p).pubkey
                            /\ \E k \in Keys : Match_(p).pubkey = pubkeys[k]
  <1>1. p \in Places
    BY DEF Waiting
  <1>2. Match_(p).batch = batches /\ batches \in Nat
    BY <1>1 DEF MatchInv, BatchInv, TypeOK
  <1>3. \A q \in Places \ Waiting : Match_(q) # Match_(p)
    BY <1>1 DEF MatchInv
  <1>4. Match_(p) \notin printed
    BY <1>2, <1>3 DEF MatchInv
  <1>5. Match_(p) \in Matches /\ Match_(p).seed = Match_(p).pubkey
    BY <1>1, PlaceHasMatch DEF Match_, MatchInv, SeedIsTheKeys
  <1>6. \E k \in Keys : Match_(p).pubkey = pubkeys[k]
    BY <1>1 DEF MatchInv
  <1> QED BY <1>2, <1>4, <1>5, <1>6

LEMMA PrintingMatch ==
  ASSUME BatchInv, MatchInv, Joined \/ PrintOne \/ NextThread \/ Collected
  PROVE MatchInv'
  <1>1. UNCHANGED <<work, pubkeys>> /\ pc \in {"match", "print"}
    BY DEF Joined, PrintOne, NextThread, Collected
  <1>2. Places' = Places /\ \A p : Match_(p)' = Match_(p)
    BY <1>1 DEF Places, Match_
  <1>3. \A u : StartK(u)' = StartK(u)
    BY DEF StartK, KeysPerThread
  <1>4. CASE Joined
    <2>1. /\ pc = "match" /\ pc' = "print" /\ UNCHANGED <<printed, batches>>
      BY <1>4 DEF Joined
    <2> QED BY <1>1, <1>2, <1>3, <2>1 DEF MatchInv, SeedIsTheKeys
  <1>5. CASE PrintOne
    <2> DEFINE p0 == <<shown.t, shown.m + 1>>
    <2>1. /\ p0 \in Waiting /\ Waiting' = Waiting \ {p0}
          /\ printed' = printed \cup {Match_(p0)}
          /\ pc = "print" /\ pc' = "print" /\ batches' = batches
      BY <1>5, WaitingPrint DEF PrintOne
    <2> HIDE DEF p0
    <2>2. p0 \in Places \ Waiting' /\ Places \ Waiting \subseteq Places \ Waiting'
      BY <2>1 DEF Waiting
    <2>3. \A m \in printed' : \/ m.batch < batches
                              \/ \E p \in Places \ Waiting' : m = Match_(p)
      BY <2>1, <2>2 DEF MatchInv
    <2>4. SeedIsTheKeys'
      BY <1>1, <2>1, WaitingIsNew DEF MatchInv, SeedIsTheKeys
    <2> QED BY <1>1, <1>2, <1>3, <2>1, <2>3, <2>4 DEF MatchInv
  <1>6. CASE NextThread
    <2>1. /\ pc = "print" /\ pc' = "print" /\ UNCHANGED <<printed, batches>>
          /\ Waiting' = Waiting
      BY <1>6, WaitingNext DEF NextThread
    <2> QED BY <1>1, <1>2, <1>3, <2>1 DEF MatchInv, SeedIsTheKeys
  <1>7. CASE Collected
    <2>1. /\ pc = "print" /\ pc' = "await" /\ printed' = printed /\ batches' = batches + 1
          /\ batches \in Nat /\ printed \subseteq Matches
      BY <1>7 DEF Collected, BatchInv, TypeOK
    <2>2. ASSUME NEW m \in printed PROVE m.batch < batches + 1
      BY <2>1 DEF MatchInv, Matches
    <2> QED BY <1>1, <1>2, <1>3, <2>1, <2>2 DEF MatchInv, SeedIsTheKeys
  <1> QED BY <1>4, <1>5, <1>6, <1>7

LEMMA NextMatch == ASSUME BatchInv, MatchInv, [Next]_vars PROVE MatchInv'
  <1>1. CASE \E t \in Workers : Look(t) \/ Miss(t)
    <2>1. PICK t \in Workers : Look(t) \/ Miss(t)
      BY <1>1
    <2>2. /\ pc = "match" /\ UNCHANGED <<pc, pubkeys, printed, batches>>
          /\ \A u \in Workers : /\ work'[u].matches = work[u].matches
                                /\ u # t => work'[u].k = work[u].k
          /\ work'[t].k = work[t].k \/ work'[t].k = work[t].k + 1
      BY <2>1 DEF Look, Miss, BatchInv, TypeOK
    <2> QED BY <2>2, GoesOn
  <1>2. CASE \E t \in Workers : Hit(t)
    BY <1>2, HitMatch
  <1>3. CASE Launch
    BY <1>3, LaunchMatch
  <1>4. CASE Joined \/ PrintOne \/ NextThread \/ Collected
    BY <1>4, PrintingMatch
  <1>5. CASE \/ EngineCall \/ EngineFails \/ FirstBatch \/ Await
             \/ FirstFails \/ LaunchFails \/ AwaitFails \/ Finish
             \/ Signalled \/ UNCHANGED vars
    <2>1. UNCHANGED <<work, printed, batches, shown>>
      BY <1>5 DEF EngineCall, EngineFails, FirstBatch, Await, FirstFails, LaunchFails,
                  AwaitFails, Finish, Signalled, vars
    <2>2. pc' \in {"match", "print"} => pc' = pc /\ pubkeys' = pubkeys
      BY <1>5 DEF EngineCall, EngineFails, FirstBatch, Await, FirstFails, LaunchFails,
                  AwaitFails, Finish, Signalled, vars
    <2>3. pc' \notin {"print", "done"} => pc \notin {"print", "done"}
      BY <1>5 DEF EngineCall, EngineFails, FirstBatch, Await, FirstFails, LaunchFails,
                  AwaitFails, Finish, Signalled, vars
    <2> QED BY <2>1, <2>2, <2>3, KeepsMatches
  <1> QED BY <1>1, <1>2, <1>3, <1>4, <1>5, Steps

-------------------------------------------------------------------------------
(* The matches are counted: each step keeps CountInv and TestedInv *)

LEMMA InitCount == Init => CountInv /\ TestedInv
  <1> SUFFICES ASSUME Init PROVE CountInv /\ TestedInv
    OBVIOUS
  <1>1. /\ found = 0 /\ hits = 0 /\ printed = {} /\ pc = "init"
    BY DEF Init
  <1>2. IsFiniteSet(printed) /\ Cardinality(printed) = found /\ found <= MaxFound
    BY <1>1, FS_EmptySet, Sizes
  <1>3. found = IF hits < MaxFound THEN hits ELSE MaxFound
    BY <1>1, Sizes
  <1> QED BY <1>1, <1>2, <1>3 DEF CountInv, TestedInv

\* Steps that change no count.
LEMMA KeepsCount ==
  ASSUME BatchInv, CountInv, UNCHANGED <<found, printed, hits, overrun>>,
         pc \in {"init", "first", "top", "await"}
           /\ pc' \in {"init", "first", "top", "await", "done"}
  PROVE CountInv'
  BY DEF CountInv

LEMMA LaunchCount == ASSUME BatchInv, CountInv, Launch PROVE CountInv' /\ TestedInv'
  <1> USE DEF Launch
  <1>1. Places' = {}
    <2>1. \A p \in Workers \X (1 .. MaxMatchesPerThread) : ~(p[2] <= Len(work'[p[1]].matches))
      BY Sizes
    <2> QED BY <2>1 DEF Places
  <1>2. Cardinality(Places') = 0
    BY <1>1, FS_EmptySet
  <1>3. ~overrun => hits = found + 0
    BY Sizes DEF CountInv, Going, BatchInv, TypeOK
  <1>4. CountInv'
    BY <1>2, <1>3 DEF CountInv
  <1>5. TestedInv'
    BY DEF TestedInv
  <1> QED BY <1>4, <1>5

LEMMA LookCount == ASSUME BatchInv, CountInv, TestedInv, NEW t \in Workers, Look(t)
                   PROVE CountInv' /\ TestedInv'
  <1> USE DEF Look
  <1>1. /\ \A u \in Workers : work'[u].k = work[u].k /\ work'[u].matches = work[u].matches
        /\ \A u \in Workers : u # t => work'[u] = work[u]
        /\ work'[t].at = "ended" => ~(work[t].k < EndK(t) /\ batch_found < Quota)
        /\ UNCHANGED <<pc, found, printed, hits, overrun, batch_found>> /\ pc = "match"
    BY DEF BatchInv, TypeOK
  <1>2. Places' = Places
    BY <1>1, PlacesSame
  <1>3. CountInv'
    BY <1>1, <1>2 DEF CountInv
  <1>4. ASSUME ~overrun, work'[t].at = "ended"
        PROVE work[t].k = EndK(t) \/ hits >= MaxFound
    <2>1. work[t].k <= EndK(t) /\ EndK(t) \in Nat /\ work[t].k \in Nat
      BY <1>1, ShareBounds DEF BatchInv, ShareInv, TypeOK
    <2>2. hits = found + batch_found /\ found \in Nat /\ batch_found \in Nat
      BY <1>1, <1>4 DEF CountInv, BatchInv, TypeOK
    <2> QED BY <1>1, <1>4, <2>1, <2>2, Sizes DEF Quota
  <1>5. \A u : EndK(u)' = EndK(u)
    BY DEF EndK, KeysPerThread
  <1>6. TestedInv'
    BY <1>1, <1>4, <1>5 DEF TestedInv
  <1> QED BY <1>3, <1>6

LEMMA MissCount == ASSUME BatchInv, CountInv, TestedInv, NEW t \in Workers, Miss(t)
                   PROVE CountInv' /\ TestedInv'
  <1>1. /\ \A u \in Workers : work'[u].matches = work[u].matches
        /\ \A u \in Workers : u # t => work'[u] = work[u]
        /\ work'[t].at = "look"
        /\ UNCHANGED <<pc, found, printed, hits, overrun, batch_found>> /\ pc = "match"
    BY DEF Miss, BatchInv, TypeOK
  <1>2. Places' = Places
    BY <1>1, PlacesSame
  <1>3. CountInv'
    BY <1>1, <1>2 DEF CountInv
  <1>4. \A u : EndK(u)' = EndK(u)
    BY DEF EndK, KeysPerThread
  <1>5. TestedInv'
    <2> SUFFICES ASSUME NEW u \in Workers, ~overrun, work'[u].at = "ended"
                 PROVE work'[u].k = EndK(u) \/ hits >= MaxFound
      BY <1>1, <1>4 DEF TestedInv
    <2>1. u # t /\ work'[u] = work[u]
      BY <1>1
    <2> QED BY <2>1, <1>1 DEF TestedInv
  <1> QED BY <1>3, <1>5

LEMMA HitCount == ASSUME BatchInv, CountInv, TestedInv, NEW t \in Workers, Hit(t)
                  PROVE CountInv' /\ TestedInv'
  <1>1. /\ pc = "match" /\ UNCHANGED <<pc, found, printed>> /\ hits' = hits + 1
        /\ {hits, found, batch_found} \subseteq Nat
        /\ \A u \in Workers : u # t => work'[u] = work[u]
    BY HitCases DEF Hit, BatchInv, TypeOK
  <1>2. \A u : EndK(u)' = EndK(u)
    BY DEF EndK, KeysPerThread
  <1>3. CASE /\ overrun' /\ work'[t].matches = work[t].matches
             /\ batch_found' = batch_found
    <2>1. Places' = Places
      BY <1>1, <1>3, PlacesSame
    <2> QED BY <2>1, <1>1, <1>3 DEF CountInv, TestedInv
  <1>4. CASE /\ work'[t].at = "look" /\ overrun' = overrun
             /\ Len(work[t].matches) < MaxMatchesPerThread
             /\ work'[t].matches = Append(work[t].matches, NewMatch(work[t].k))
             /\ batch_found' = batch_found + 1
    <2> DEFINE new == <<t, Len(work[t].matches) + 1>>
    <2>1. new \notin Places /\ Places' = Places \cup {new}
      BY <1>1, <1>4, PlacesHit
    <2> HIDE DEF new
    <2>2. Cardinality(Places') = Cardinality(Places) + 1
      BY <2>1, PlacesFinite, FS_AddElement
    <2>3. CountInv'
      BY <2>2, <1>1, <1>4 DEF CountInv
    <2>4. TestedInv'
      <3> SUFFICES ASSUME NEW u \in Workers, ~overrun, work'[u].at = "ended"
                   PROVE work'[u].k = EndK(u) \/ hits' >= MaxFound
        BY <1>1, <1>2, <1>4 DEF TestedInv
      <3>1. u # t /\ work'[u] = work[u]
        BY <1>1, <1>4
      <3>2. work[u].k = EndK(u) \/ hits >= MaxFound
        BY <3>1, <1>1 DEF TestedInv
      <3> QED BY <3>1, <3>2, <1>1, Sizes
    <2> QED BY <2>3, <2>4
  <1> QED BY <1>3, <1>4, HitCases

LEMMA PrintingCount ==
  ASSUME BatchInv, MatchInv, CountInv, TestedInv,
         Joined \/ PrintOne \/ NextThread \/ Collected
  PROVE CountInv' /\ TestedInv'
  <1>1. /\ UNCHANGED <<work, hits, overrun, batch_found>> /\ pc \in {"match", "print"}
        /\ pc' \in {"print", "await"}
        /\ {hits, found, batch_found} \subseteq Nat
    BY DEF Joined, PrintOne, NextThread, Collected, BatchInv, TypeOK
  <1>2. \A u : EndK(u)' = EndK(u)
    BY DEF EndK, KeysPerThread
  <1>3. \A t \in Workers : work[t].at = "ended" \/ overrun
    BY DEF Joined, PrintOne, NextThread, Collected, TestedInv
  <1>4. TestedInv'
    BY <1>1, <1>2, <1>3 DEF TestedInv
  <1>5. CASE Joined
    <2>1. /\ pc = "match" /\ pc' = "print" /\ UNCHANGED <<found, printed>>
          /\ Waiting' = Places
      BY <1>5, WaitingAll DEF Joined
    <2> QED BY <2>1, <1>1, <1>4 DEF CountInv
  <1>6. CASE PrintOne
    <2> DEFINE p0 == <<shown.t, shown.m + 1>>
    <2>1. /\ pc = "print" /\ pc' = "print" /\ found' = found + 1 /\ found < MaxFound
          /\ p0 \in Waiting /\ Waiting' = Waiting \ {p0}
          /\ printed' = printed \cup {Match_(p0)}
      BY <1>6, WaitingPrint DEF PrintOne, Left
    <2> HIDE DEF p0
    <2>2. Match_(p0) \notin printed
      BY <2>1, WaitingIsNew
    <2>3. IsFiniteSet(printed') /\ Cardinality(printed') = found'
      BY <2>1, <2>2, FS_AddElement DEF CountInv
    <2>4. Cardinality(Waiting') = Cardinality(Waiting) - 1 /\ Cardinality(Waiting) \in Nat
      BY <2>1, PlacesFinite, FS_RemoveElement, FS_CardinalityType
    <2>5. ~overrun => hits = found' + Cardinality(Waiting')
      BY <2>1, <2>4, <1>1 DEF CountInv
    <2>6. found' <= MaxFound
      BY <2>1, <1>1, Sizes
    <2> QED BY <2>1, <2>3, <2>5, <2>6, <1>1, <1>4 DEF CountInv
  <1>7. CASE NextThread
    <2>1. /\ pc = "print" /\ pc' = "print" /\ UNCHANGED <<found, printed>>
          /\ Waiting' = Waiting
      BY <1>7, WaitingNext DEF NextThread
    <2> QED BY <2>1, <1>1, <1>4 DEF CountInv
  <1>8. CASE Collected
    <2>1. /\ pc = "print" /\ pc' = "await" /\ UNCHANGED <<found, printed>>
          /\ shown.t \in Nat
      BY <1>8, Sizes DEF Collected, BatchInv, TypeOK
    <2>2. shown.t >= nthreads \/ found >= MaxFound
      BY <1>8, <2>1, <1>1, Sizes DEF Collected, Left
    <2>3. Cardinality(Waiting) \in Nat
      BY PlacesFinite, FS_CardinalityType
    <2>4. shown.t >= nthreads => Cardinality(Waiting) = 0
      BY WaitingNone, FS_EmptySet
    <2>5. ~overrun => found = IF hits < MaxFound THEN hits ELSE MaxFound
      BY <2>1, <2>2, <2>3, <2>4, <1>1, Sizes DEF CountInv
    <2> QED BY <2>1, <2>5, <1>1, <1>4 DEF CountInv
  <1> QED BY <1>5, <1>6, <1>7, <1>8

LEMMA NextCount == ASSUME BatchInv, MatchInv, CountInv, TestedInv, [Next]_vars
                   PROVE CountInv' /\ TestedInv'
  <1>1. CASE Launch \/ (\E t \in Workers : Look(t)) \/ (\E t \in Workers : Miss(t))
             \/ (\E t \in Workers : Hit(t))
    BY <1>1, LaunchCount, LookCount, MissCount, HitCount
  <1>2. CASE Joined \/ PrintOne \/ NextThread \/ Collected
    BY <1>2, PrintingCount
  <1>3. CASE \/ EngineCall \/ EngineFails \/ FirstBatch \/ Await
             \/ FirstFails \/ LaunchFails \/ AwaitFails \/ Finish
    <2>1. /\ UNCHANGED <<found, printed, hits, overrun>>
          /\ pc \in {"init", "first", "top", "await"}
          /\ pc' \in {"init", "first", "top", "done"}
      BY <1>3 DEF EngineCall, EngineFails, FirstBatch, Await, FirstFails, LaunchFails,
                  AwaitFails, Finish
    <2> QED BY <2>1, KeepsCount DEF TestedInv
  <1>4. CASE Signalled \/ UNCHANGED vars
    <2>1. /\ UNCHANGED <<pc, work, found, printed, hits, overrun, batch_found, shown>>
      BY <1>4 DEF Signalled, vars
    <2>2. Places' = Places /\ Waiting' = Waiting /\ \A u : EndK(u)' = EndK(u)
      BY <2>1 DEF Places, Waiting, EndK, KeysPerThread
    <2> QED BY <2>1, <2>2 DEF CountInv, TestedInv
  <1> QED BY <1>1, <1>2, <1>3, <1>4, Steps

\* Every match is of a key of its batch and is counted, and who stops early may.
THEOREM Matched == Spec => []FoundInv
  <1>1. Init => FoundInv
    BY InitMatch, InitCount DEF FoundInv
  <1>2. BatchInv /\ FoundInv /\ [Next]_vars => FoundInv'
    BY NextMatch, NextCount DEF FoundInv
  <1> QED BY <1>1, <1>2, Batches, PTL DEF Spec

\* A batch that is whole: each key was tested by the thread whose share it is in.
LEMMA AllTested == ASSUME BatchInv, FoundInv PROVE WholeBatchTested
  <1> SUFFICES ASSUME pc = "await", batch_found < MaxFound - (found - batch_found), ~overrun,
                      NEW k \in Keys
               PROVE Cardinality({t \in Workers : StartK(t) <= k /\ k < work[t].k}) = 1
    BY DEF WholeBatchTested
  <1>1. {found, hits, batch_found} \subseteq Nat
    BY DEF BatchInv, TypeOK
  <1>2. found < MaxFound
    BY <1>1, Sizes
  <1>3. hits < MaxFound
    BY <1>1, <1>2, Sizes DEF FoundInv, CountInv
  <1>4. \A t \in Workers : work[t].k = EndK(t)
    BY <1>1, <1>3, Sizes DEF FoundInv, TestedInv
  <1>5. PICK t \in Workers : /\ StartK(t) <= k /\ k < EndK(t)
                             /\ \A u \in Workers : StartK(u) <= k /\ k < EndK(u) => u = t
    BY Partition
  <1>6. {u \in Workers : StartK(u) <= k /\ k < work[u].k} = {t}
    BY <1>4, <1>5
  <1> QED BY <1>6, FS_Singleton

\* Unless a thread had no room, neither a key of a batch nor a match is lost or counted
\* twice: each key is tested by one thread until enough was found, as many matches are
\* printed as are asked for or found, and no match twice.
THEOREM NothingLost == Spec => []NoneLost
  <1>1. BatchInv /\ FoundInv => NoneLost
    BY AllTested DEF NoneLost, AmountKept, FoundInv, CountInv
  <1> QED BY <1>1, Batches, Matched, PTL

-------------------------------------------------------------------------------
(* The readings of the random source: each step keeps ReseedInv *)

LEMMA InitReseed == Init => ReseedInv
  BY DEF Init, ReseedInv, Reseeded

LEMMA LaunchReseed == ASSUME BatchInv, MatchInv, ReseedInv, Launch PROVE ReseedInv'
  <1>1. /\ UNCHANGED <<printed, batches, cur>> /\ pc = "top" /\ pc' = "match"
        /\ NextBuffer' = NextBuffer
    BY DEF Launch, NextBuffer
  <1>2. /\ seeds'[cur] = seeds[cur] /\ 0 \in Items /\ cur \in 0 .. 1
        /\ {batches, draws} \subseteq Nat /\ printed \subseteq Matches
    BY NextSeeds, Sizes DEF Items, BatchInv, TypeOK
  <1>3. ASSUME NEW q \in printed
        PROVE q.pubkey.draw < seeds'[NextBuffer][0].draw
    <2>1. q.batch < batches /\ q.batch \in Nat /\ q.pubkey.draw \in 0 .. draws
      BY <1>1, <1>2 DEF MatchInv, Matches, DerivedKeys
    <2>2. CASE reseed_needed
      <3>1. seeds'[NextBuffer][0].draw = draws + 1
        BY <2>2, <1>2, NextSeeds
      <3> QED BY <3>1, <2>1, <1>2
    <2>3. CASE ~reseed_needed
      <3>1. seeds'[NextBuffer][0].draw = seeds[cur][0].draw
        BY <2>3, <1>2, NextSeeds
      <3>2. q.batch + 1 < batches
        BY <2>1, <2>3, <1>1, <1>2 DEF ReseedInv
      <3> QED BY <3>1, <3>2, <1>1 DEF ReseedInv
    <2> QED BY <2>2, <2>3
  <1> QED BY <1>1, <1>2, <1>3 DEF ReseedInv, Reseeded

LEMMA PrintReseed == ASSUME BatchInv, MatchInv, ReseedInv, PrintOne PROVE ReseedInv'
  <1> DEFINE p0 == <<shown.t, shown.m + 1>>
             m == Match_(p0)
  <1>1. /\ pc = "print" /\ pc' = "print" /\ UNCHANGED <<seeds, cur, batches>>
        /\ NextBuffer' = NextBuffer /\ reseed_needed'
    BY DEF PrintOne, NextBuffer
  <1>2. p0 \in Waiting /\ printed' = printed \cup {m}
    BY WaitingPrint
  <1> HIDE DEF p0
  <1>3. /\ m.batch = batches /\ m \in Matches /\ \E k \in Keys : m.pubkey = pubkeys[k]
    BY <1>1, <1>2, WaitingIsNew
  <1>4. m.pubkey.draw = seeds[cur][0].draw
    BY <1>1, <1>3, NewMatchRight
  <1> HIDE DEF m
  <1>5. batches \in Nat /\ printed \subseteq Matches
    BY DEF BatchInv, TypeOK
  <1>6. ASSUME NEW q \in printed
        PROVE /\ q.batch \in Nat /\ q.batch <= batches
              /\ q.batch + 1 < batches => q.pubkey.draw < seeds[cur][0].draw
              /\ q.pubkey.draw \in Nat
    BY <1>1, <1>5 DEF ReseedInv, Matches, DerivedKeys
  <1>7. Reseeded'
    <2> SUFFICES ASSUME NEW p \in printed', NEW q \in printed', p.pubkey.draw = q.pubkey.draw
                 PROVE p.batch <= q.batch + 1
      BY DEF Reseeded
    <2>1. CASE p \in printed /\ q \in printed
      BY <2>1 DEF ReseedInv, Reseeded
    <2>2. CASE p \in printed /\ q = m
      BY <2>2, <1>3, <1>5, <1>6
    <2>3. CASE p = m /\ q = m
      BY <2>3, <1>3, <1>5
    <2>4. CASE p = m /\ q \in printed
      <3>1. seeds[cur][0].draw \in Nat
        BY <1>4, <1>3 DEF Matches, DerivedKeys
      <3> QED BY <3>1, <2>4, <1>3, <1>4, <1>5, <1>6
    <2> QED BY <2>1, <2>2, <2>3, <2>4, <1>2
  <1>8. ASSUME NEW q \in printed'
        PROVE /\ q.batch + 1 < batches => q.pubkey.draw < seeds[cur][0].draw
              /\ q.batch < batches => q.pubkey.draw < seeds[NextBuffer][0].draw
    <2>1. CASE q = m
      BY <2>1, <1>3, <1>5
    <2>2. CASE q \in printed
      BY <2>2, <1>1 DEF ReseedInv
    <2> QED BY <2>1, <2>2, <1>2
  <1> QED BY <1>1, <1>7, <1>8 DEF ReseedInv

LEMMA NextReseed == ASSUME BatchInv, MatchInv, ReseedInv, [Next]_vars PROVE ReseedInv'
  <1>1. CASE Launch
    BY <1>1, LaunchReseed
  <1>2. CASE PrintOne
    BY <1>2, PrintReseed
  <1>3. CASE Joined
    <2>1. /\ pc = "match" /\ pc' = "print"
          /\ UNCHANGED <<seeds, cur, batches, printed, reseed_needed>>
      BY <1>3 DEF Joined
    <2>2. \A q \in printed : q.batch < batches /\ q.batch \in Nat
      BY <2>1 DEF MatchInv, BatchInv, TypeOK, Matches
    <2>3. batches \in Nat
      BY DEF BatchInv, TypeOK
    <2> QED BY <2>1, <2>2, <2>3 DEF ReseedInv, Reseeded, NextBuffer
  <1>4. CASE Collected
    <2>1. /\ pc = "print" /\ pc' = "await" /\ batches' = batches + 1 /\ batches \in Nat
          /\ UNCHANGED <<seeds, cur, printed, reseed_needed>>
      BY <1>4 DEF Collected, BatchInv, TypeOK
    <2>2. \A q \in printed : q.batch \in Nat
      BY <2>1 DEF BatchInv, TypeOK, Matches
    <2>3. \A q \in printed : q.batch + 1 < batches + 1 <=> q.batch < batches
      BY <2>1, <2>2
    <2>4. \A q \in printed : q.batch + 1 = batches + 1 <=> q.batch = batches
      BY <2>1, <2>2
    <2> QED BY <2>1, <2>3, <2>4 DEF ReseedInv, Reseeded, NextBuffer
  <1>5. CASE Await
    BY <1>5 DEF Await, ReseedInv, Reseeded
  <1>6. CASE \/ EngineCall \/ EngineFails \/ FirstBatch
             \/ FirstFails \/ LaunchFails \/ AwaitFails \/ Finish
    <2>1. /\ UNCHANGED <<printed, batches>>
          /\ pc' \in {"init", "first", "top", "done"}
          /\ pc' = "top" => printed = {}
      BY <1>6 DEF EngineCall, EngineFails, FirstBatch, FirstFails, LaunchFails, AwaitFails,
                  Finish, BatchInv, BuffersInv
    <2> QED BY <2>1 DEF ReseedInv, Reseeded
  <1>7. CASE \/ NextThread \/ Signalled \/ UNCHANGED vars
             \/ \E t \in Workers : Look(t) \/ Miss(t) \/ Hit(t)
    <2>1. UNCHANGED <<pc, printed, batches, seeds, cur, reseed_needed>>
      BY <1>7 DEF NextThread, Signalled, vars, Look, Miss, Hit
    <2> QED BY <2>1 DEF ReseedInv, Reseeded, NextBuffer
  <1> QED BY <1>1, <1>2, <1>3, <1>4, <1>5, <1>6, <1>7, Steps

\* After a match the seeds are read anew: what was printed is of an earlier reading of the
\* random source than the batch after the one in flight.
THEOREM SeedsRenewed == Spec => []ReseedInv
  <1>1. Init => ReseedInv
    BY InitReseed
  <1>2. BatchInv /\ FoundInv /\ ReseedInv /\ [Next]_vars => ReseedInv'
    BY NextReseed DEF FoundInv
  <1> QED BY <1>1, <1>2, Batches, Matched, PTL DEF Spec

\* A printed key is the one that matched, and keys of later matches are of another reading
\* of the random source.
THEOREM PrintedIsMatched == Spec => []MatchesRight
  <1>1. BatchInv /\ FoundInv /\ ReseedInv => MatchesRight
    BY DEF BatchInv, FoundInv, MatchInv, ReseedInv, MatchesRight
  <1> QED BY <1>1, Batches, Matched, SeedsRenewed, PTL

=============================================================================
