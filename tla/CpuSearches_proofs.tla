-------------------------- MODULE CpuSearches_proofs --------------------------
(***************************************************************************)
(* Proofs about the searches on the CPU. The walk through private keys, for *)
(* every order, batch size and rekey interval: WalkInv relates the point   *)
(* array to the key: entry j is the point of key + (delta - i) + j for all *)
(* j of the batch, and so many points remain before the order that no sum  *)
(* passes it. The searches without batches, for every number of threads    *)
(* and of matches asked for, and whatever malloc leaves in the halt flag   *)
(* and in the count: LoopInv says why the loop of ed25519.c, which never   *)
(* clears find_it, still tests each key by itself: a thread that has found *)
(* one meets the halt flag before the next key.                            *)
(***************************************************************************)
EXTENDS KeyWalk, SimpleSearch, FiniteSetTheorems, TLAPS

(* The walk *)

\* Keys as they are without -Z.
KeysInRange == Keys \subseteq 1..Order - 1

\* The thread has a key and goes on with it.
Walking == pc = "test" \/ (pc = "top" /\ ~RekeyDue)

Position == /\ nbatch \in 1..BatchSize
            /\ i <= delta /\ i <= nbatch
            /\ pc = "test" => i < nbatch
            /\ pc = "top" => i = nbatch
            /\ npoints <= rekey_at
            /\ delta + nbatch <= npoints + i
            /\ nbatch < BatchSize => npoints = rekey_at

KeyInUse == /\ key \in 1..Order - 1
            /\ origin = key /\ tested = delta
            /\ rekey_at <= Order - key

PointsInStep ==
  \A j \in Indices : j < nbatch => points[j] = Wrap(key + Base + (delta - i) + j)

WalkInv == Walking => Position /\ KeyInUse /\ PointsInStep

MatchInv == pc = "matched" => /\ i \in Indices
                              /\ key \in 1..Order - 1
                              /\ points[i] = Wrap(key + Base)

IInv == TypeOK /\ WalkInv /\ MatchInv

\* Adding points one after the other is adding them at once, as long as no more than
\* one multiple of the order is dropped.
LEMMA WrapAdd ==
  ASSUME NEW m \in Nat, NEW n \in Nat, m + n < 2 * Order, m < 2 * Order
  PROVE  /\ Wrap(Wrap(m) + n) = Wrap(m + n)
         /\ Wrap(m) \in 0..Order - 1
  BY WalkAssumption DEF Wrap

\* The point of a key below the order.
LEMMA PointOfKey ==
  ASSUME NEW k \in 1..Order - 1
  PROVE  PointOf(k) = Wrap(k + Base)
  BY WalkAssumption DEF Wrap, PointOf

\* How many points a key is good for.
LEMMA RekeyAtRange ==
  ASSUME NEW k \in 1..Order - 1
  PROVE  RekeyAt(k) \in 1..RekeyMax /\ RekeyAt(k) <= Order - k
  BY WalkAssumption DEF RekeyAt, Lesser

\* The first batch has a point, and is cut short only where the key ends.
LEMMA FirstBatchRange ==
  ASSUME NEW until \in Nat, until >= 1
  PROVE  /\ FirstBatch(until) \in 1..BatchSize
         /\ FirstBatch(until) <= until
         /\ FirstBatch(until) < BatchSize => FirstBatch(until) = until
  BY WalkAssumption DEF FirstBatch, Lesser

\* So have the batches after it.
LEMMA NextLengthRange ==
  ASSUME NEW first \in Nat, rekey_at \in Nat, first < rekey_at
  PROVE  /\ NextLength(first) \in 1..BatchSize
         /\ first + NextLength(first) <= rekey_at
         /\ NextLength(first) < BatchSize => first + NextLength(first) = rekey_at
  BY WalkAssumption DEF NextLength, Lesser

LEMMA InitInv == Init => IInv
  <1> SUFFICES ASSUME Init PROVE IInv
    OBVIOUS
  <1>1. TypeOK
    BY WalkAssumption DEF Init, TypeOK, Indices
  <1>2. RekeyDue
    BY DEF Init, RekeyDue
  <1> QED BY <1>1, <1>2 DEF Init, IInv, WalkInv, MatchInv, Walking

\* A new key.
LEMMA RekeyInv == ASSUME KeysInRange, IInv, Rekey PROVE IInv'
  <1> USE WalkAssumption
  <1>1. PICK k \in Keys :
          /\ key' = k
          /\ rekey_at' = RekeyAt(k)
          /\ Advance(FirstBatch(rekey_at'), 0)
          /\ points' = [j \in Indices |-> IF j < FirstBatch(rekey_at')
                                          THEN Wrap(PointOf(k) + j) ELSE points[j]]
          /\ origin' = k
    BY DEF Rekey
  <1>2. k \in 1..Order - 1
    BY DEF KeysInRange
  <1>3. rekey_at' \in 1..RekeyMax /\ rekey_at' <= Order - k
    BY <1>1, <1>2, RekeyAtRange
  <1>4. PICK n \in 1..BatchSize : /\ n = FirstBatch(rekey_at')
                                  /\ n <= rekey_at'
                                  /\ n < BatchSize => n = rekey_at'
    BY <1>3, FirstBatchRange
  <1>5. pc' = "test" /\ nbatch' = n /\ npoints' = n /\ i' = 0 /\ delta' = 0 /\ tested' = 0
    BY <1>1, <1>4 DEF Advance, Rekey
  <1>6. ASSUME NEW j \in Indices, j < n
        PROVE  points'[j] = Wrap(k + Base + j) /\ points'[j] \in 0..Order - 1
    <2>1. points'[j] = Wrap(Wrap(k + Base) + j)
      BY <1>1, <1>2, <1>4, <1>6, PointOfKey
    <2>2. k + Base + j < 2 * Order /\ k + Base < 2 * Order
      BY <1>2, <1>3, <1>4, <1>6 DEF Indices
    <2>3. Wrap(Wrap(k + Base) + j) = Wrap(k + Base + j)
      BY <1>2, <2>2, WrapAdd DEF Indices
    <2>4. Wrap(k + Base + j) \in 0..Order - 1
      BY <1>2, <2>2, WrapAdd DEF Indices
    <2> QED BY <2>1, <2>3, <2>4
  <1>7. points' \in [Indices -> 0..Order - 1]
    <2>1. ASSUME NEW j \in Indices PROVE points'[j] \in 0..Order - 1
      <3>1. CASE j < n
        BY <1>6, <3>1
      <3>2. CASE ~(j < n)
        BY <1>1, <1>4, <3>2 DEF IInv, TypeOK
      <3> QED BY <3>1, <3>2
    <2> QED BY <1>1, <2>1
  <1>8. TypeOK'
    BY <1>1, <1>2, <1>3, <1>5, <1>7 DEF TypeOK
  <1>9. Position' /\ KeyInUse'
    BY <1>1, <1>2, <1>3, <1>4, <1>5 DEF Position, KeyInUse
  <1>10. PointsInStep'
    BY <1>1, <1>2, <1>5, <1>6 DEF PointsInStep
  <1> QED BY <1>5, <1>8, <1>9, <1>10 DEF IInv, WalkInv, MatchInv

\* The batch moves on.
LEMMA NextBatchInv == ASSUME IInv, NextBatch PROVE IInv'
  <1> USE WalkAssumption
  <1>1. /\ TypeOK /\ Position /\ KeyInUse /\ PointsInStep
        /\ pc = "top" /\ npoints + 1 < rekey_at
    <2>1. pc = "top" /\ ~RekeyDue /\ TypeOK /\ WalkInv
      BY DEF NextBatch, IInv
    <2> QED BY <2>1 DEF WalkInv, Walking, RekeyDue, TypeOK
  <1>2. nbatch = BatchSize /\ i = BatchSize
    BY <1>1 DEF Position, TypeOK
  <1>3. PICK n \in 1..BatchSize : /\ n = NextLength(npoints + 1)
                                  /\ npoints + 1 + n <= rekey_at
                                  /\ n < BatchSize => npoints + 1 + n = rekey_at
    BY <1>1, NextLengthRange DEF TypeOK
  <1>4. /\ pc' = "test" /\ nbatch' = n /\ npoints' = npoints + 1 + n /\ i' = 0
        /\ points' = [j \in Indices |-> IF j < n THEN Wrap(points[j] + BatchSize)
                                                 ELSE points[j]]
        /\ UNCHANGED <<key, delta, rekey_at, origin, tested>>
    BY <1>3 DEF NextBatch, Advance
  <1>5. delta >= BatchSize /\ delta + n <= npoints' /\ key + delta + n <= Order
    BY <1>1, <1>2, <1>3, <1>4 DEF Position, KeyInUse, TypeOK
  <1>6. ASSUME NEW j \in Indices, j < n
        PROVE  points'[j] = Wrap(key + Base + delta + j) /\ points'[j] \in 0..Order - 1
    <2> DEFINE before == key + Base + (delta - BatchSize) + j
    <2>1. before \in Nat /\ before + BatchSize = key + Base + delta + j
      BY <1>1, <1>5 DEF TypeOK, Indices
    <2>2. before + BatchSize < 2 * Order /\ before < 2 * Order
      BY <1>1, <1>5, <1>6, <2>1 DEF TypeOK, Indices
    <2>3. points[j] = Wrap(before)
      BY <1>1, <1>2 DEF PointsInStep, Indices
    <2>4. points'[j] = Wrap(Wrap(before) + BatchSize)
      BY <1>4, <1>6, <2>3
    <2> HIDE DEF before
    <2>5. Wrap(Wrap(before) + BatchSize) = Wrap(before + BatchSize)
      BY <2>1, <2>2, WrapAdd
    <2>6. Wrap(before + BatchSize) \in 0..Order - 1
      BY <2>1, <2>2, WrapAdd
    <2> QED BY <2>1, <2>4, <2>5, <2>6
  <1>7. points' \in [Indices -> 0..Order - 1]
    <2>1. ASSUME NEW j \in Indices PROVE points'[j] \in 0..Order - 1
      <3>1. CASE j < n
        BY <1>6, <3>1
      <3>2. CASE ~(j < n)
        BY <1>1, <1>4, <3>2 DEF TypeOK
      <3> QED BY <3>1, <3>2
    <2> QED BY <1>4, <2>1
  <1>8. TypeOK'
    BY <1>1, <1>4, <1>7 DEF TypeOK
  <1>9. Position' /\ KeyInUse'
    BY <1>1, <1>3, <1>4, <1>5 DEF Position, KeyInUse, TypeOK
  <1>10. PointsInStep'
    BY <1>1, <1>4, <1>6 DEF PointsInStep, TypeOK
  <1> QED BY <1>4, <1>8, <1>9, <1>10 DEF IInv, WalkInv, MatchInv

\* What the invariant says of a point under test.
LEMMA UnderTest ==
  ASSUME IInv, pc = "test"
  PROVE  /\ TypeOK /\ Position /\ KeyInUse /\ PointsInStep
         /\ i \in Indices
         /\ key + delta < Order
         /\ points[i] = Wrap(key + Base + delta)
  <1>1. TypeOK /\ Position /\ KeyInUse /\ PointsInStep
    BY DEF IInv, WalkInv, Walking
  <1>2. i \in Indices /\ i < nbatch
    BY <1>1, WalkAssumption DEF Position, TypeOK, Indices
  <1>3. key + delta < Order
    BY <1>1, <1>2, WalkAssumption DEF Position, KeyInUse, TypeOK, Indices
  <1>4. points[i] = Wrap(key + Base + (delta - i) + i)
    BY <1>1, <1>2 DEF PointsInStep
  <1>5. key + Base + (delta - i) + i = key + Base + delta
    BY <1>1, WalkAssumption DEF TypeOK
  <1> QED BY <1>1, <1>2, <1>3, <1>4, <1>5

LEMMA MissInv == ASSUME IInv, Miss PROVE IInv'
  <1> USE WalkAssumption
  <1>1. pc = "test" /\ i' = i + 1 /\ tested' = tested + 1 /\ delta' = delta + 1
        /\ UNCHANGED <<key, npoints, rekey_at, nbatch, points, origin>>
        /\ pc' = IF i' = nbatch THEN "top" ELSE "test"
    BY DEF Miss
  <1>2. TypeOK /\ Position /\ KeyInUse /\ PointsInStep
    BY <1>1, UnderTest
  <1>3. TypeOK'
    BY <1>1, <1>2 DEF TypeOK, Position
  <1>4. Position' /\ KeyInUse'
    BY <1>1, <1>2 DEF Position, KeyInUse, TypeOK
  <1>5. PointsInStep'
    <2>1. delta' - i' = delta - i
      BY <1>1, <1>2 DEF TypeOK
    <2> QED BY <1>1, <1>2, <2>1 DEF PointsInStep
  <1> QED BY <1>1, <1>3, <1>4, <1>5 DEF IInv, WalkInv, MatchInv

LEMMA MatchStepInv == ASSUME IInv, Match PROVE IInv'
  <1> USE WalkAssumption
  <1>1. pc = "test" /\ pc' = "matched" /\ key' = key + delta /\ delta' = 0
        /\ UNCHANGED <<npoints, rekey_at, nbatch, i, points, origin, tested>>
    BY DEF Match
  <1>2. /\ TypeOK /\ KeyInUse /\ i \in Indices /\ key + delta < Order
        /\ points[i] = Wrap(key + Base + delta)
    BY <1>1, UnderTest
  <1>3. TypeOK'
    BY <1>1, <1>2 DEF TypeOK
  <1>4. key' \in 1..Order - 1 /\ key' + Base = key + Base + delta
    BY <1>1, <1>2 DEF TypeOK, KeyInUse
  <1>5. MatchInv'
    BY <1>1, <1>2, <1>4 DEF MatchInv
  <1> QED BY <1>1, <1>3, <1>5 DEF IInv, WalkInv, Walking

LEMMA StepInv == ASSUME KeysInRange, IInv, [Next]_vars PROVE IInv'
  <1>1. CASE Rekey
    BY <1>1, RekeyInv
  <1>2. CASE NextBatch
    BY <1>2, NextBatchInv
  <1>3. CASE Miss
    BY <1>3, MissInv
  <1>4. CASE Match
    BY <1>4, MatchStepInv
  <1>5. CASE MatchedGoOn
    <2>1. TypeOK'
      BY <1>5, WalkAssumption DEF MatchedGoOn, IInv, TypeOK
    <2>2. ~Walking' /\ pc' # "matched"
      BY <1>5 DEF MatchedGoOn, Walking, RekeyDue
    <2> QED BY <2>1, <2>2 DEF IInv, WalkInv, MatchInv
  <1>6. CASE Stop
    <2>1. TypeOK'
      BY <1>6 DEF Stop, IInv, TypeOK
    <2> QED BY <1>6, <2>1 DEF Stop, IInv, WalkInv, MatchInv, Walking
  <1>7. CASE UNCHANGED vars
    BY <1>7 DEF vars, IInv, TypeOK, WalkInv, MatchInv, Walking, RekeyDue, Position,
                KeyInUse, PointsInStep
  <1> QED BY <1>1, <1>2, <1>3, <1>4, <1>5, <1>6, <1>7 DEF Next

(* Without -Z the walk keeps its invariant: the point array, the counters and the  *)
(* key of vg_thread_loop stay in step.                                             *)
THEOREM Invariance == KeysInRange /\ Spec => []IInv
  <1>1. Init => IInv
    BY InitInv
  <1>2. KeysInRange /\ IInv /\ [Next]_vars => IInv'
    BY StepInv
  <1>3. KeysInRange => KeysInRange'
    BY DEF KeysInRange
  <1> QED BY <1>1, <1>2, <1>3, PTL DEF Spec

\* What the invariant implies.
LEMMA InvImplies ==
  ASSUME IInv
  PROVE  TypeOK /\ ReportedIsTested /\ Consecutive /\ WholeBatch /\ KeyChecks /\ NeverInfinity
  <1> USE WalkAssumption
  <1>1. TypeOK
    BY DEF IInv
  <1>2. KeyChecks
    BY DEF IInv, MatchInv, KeyChecks
  <1>3. ReportedIsTested
    <2> SUFFICES ASSUME pc = "matched" PROVE points[i] = PointOf(key)
      BY DEF ReportedIsTested
    <2> QED BY PointOfKey DEF IInv, MatchInv
  <1>4. Consecutive
    <2> SUFFICES ASSUME pc = "test" PROVE points[i] = Wrap(PointOf(origin) + tested)
      BY DEF Consecutive
    <2>1. /\ points[i] = Wrap(key + Base + delta) /\ KeyInUse /\ TypeOK
          /\ key + delta < Order
      BY UnderTest
    <2>2. PointOf(origin) = Wrap(key + Base) /\ tested = delta
      BY <2>1, PointOfKey DEF KeyInUse
    <2>3. Wrap(Wrap(key + Base) + delta) = Wrap(key + Base + delta)
      BY <2>1, WrapAdd DEF TypeOK
    <2> QED BY <2>1, <2>2, <2>3
  <1>5. WholeBatch
    BY DEF IInv, WalkInv, Walking, Position, RekeyDue, WholeBatch, TypeOK
  <1>6. NeverInfinity
    <2> SUFFICES ASSUME pc = "test", Base = 0 PROVE points[i] # 0
      BY DEF NeverInfinity
    <2>1. /\ points[i] = Wrap(key + Base + delta) /\ KeyInUse /\ TypeOK
          /\ key + delta < Order
      BY UnderTest
    <2> QED BY <2>1 DEF KeyInUse, TypeOK, Wrap
  <1> QED BY <1>1, <1>2, <1>3, <1>4, <1>5, <1>6

(* The variables of the walk keep their ranges.                                    *)
THEOREM TypeCorrect == KeysInRange /\ Spec => []TypeOK
  BY Invariance, InvImplies, PTL

(* vxc_key plus vxc_delta is the private key of the address that matched, however  *)
(* batches end and keys are replaced.                                              *)
THEOREM ReportIsRight == KeysInRange /\ Spec => []ReportedIsTested
  BY Invariance, InvImplies, PTL

(* The loop tests the points after a key one by one, none twice and none left out. *)
THEOREM NoneSkipped == KeysInRange /\ Spec => []Consecutive
  BY Invariance, InvImplies, PTL

(* The assertion on the length of the batch holds.                                 *)
THEOREM BatchIsWhole == KeysInRange /\ Spec => []WholeBatch
  BY Invariance, InvImplies, PTL

(* The assertion that the reported key is valid holds.                             *)
THEOREM ReportedKeyValid == KeysInRange /\ Spec => []KeyChecks
  BY Invariance, InvImplies, PTL

(* The walk ends before the order, so that every point tested has an address.      *)
THEOREM EveryPointHasAddress == KeysInRange /\ Spec => []NeverInfinity
  BY Invariance, InvImplies, PTL

-------------------------------------------------------------------------------
(* The searches without batches *)

\* What may be reported.
Reportable(k) == k = "match" \/ (search.P2TR /\ search.location = "end")

\* A slot of TID is its thread's, once it is filled; threads are made in order.
SlotsInv ==
  /\ main = "store" => started # 0
  /\ \A t \in Threads : t > started => at[t] = "none"
  /\ \A s \in Slots : TID[s] = NoThread \/ TID[s] = s

\* The flag of a thread is that of its last key: one it has found is reported, and then
\* the halt flag is set.
LoopInv ==
  \A t \in Threads :
    /\ at[t] = "key" => made[t] < MaxKeys
    /\ at[t] = "lock" => made[t] >= 1 /\ Reportable(kind[t])
    /\ search.loop = "xlm" /\ find_it[t] => at[t] \in {"lock", "ended"} \/ (at[t] = "top" /\ halt)

\* What has been reported was counted.
CountInv ==
  /\ IsFiniteSet(reported)
  /\ Cardinality(reported) <= found /\ Cardinality(reported) <= numpairs

KindOK == kind \in [Threads -> {"match", "miss", "odd"}]

SimpleInv == SimpleTypeOK /\ KindOK /\ SlotsInv /\ LoopInv /\ CountInv /\ ReportsMatch

-------------------------------------------------------------------------------

\* The tuple of main's variables is open in every proof below.
USE DEF mainvars

LEMMA Sizes == nthreads \in Nat \ {0} /\ numpairs \in Nat \ {0} /\ MaxKeys \in Nat \ {0}
  BY SimpleAssumption

LEMMA InitSimple == SimpleInit => SimpleInv
  <1> SUFFICES ASSUME SimpleInit PROVE SimpleInv
    OBVIOUS
  <1>1. SimpleTypeOK
    <2>1. halt \in BOOLEAN /\ found \in Nat
      BY SimpleAssumption DEF SimpleInit
    <2>2. 0 \in 0 .. nthreads /\ 0 \in 0 .. MaxKeys
      BY Sizes
    <2>3. index \in [Threads -> 0 .. nthreads] /\ made \in [Threads -> 0 .. MaxKeys]
          /\ started \in 0 .. nthreads /\ \A t \in Threads : index[t] = 0
      BY <2>2 DEF SimpleInit
    <2> QED BY <2>1, <2>3 DEF SimpleInit, SimpleTypeOK
  <1>2. KindOK /\ SlotsInv
    BY DEF SimpleInit, KindOK, SlotsInv
  <1>3. LoopInv
    BY DEF SimpleInit, LoopInv
  <1>4. CountInv /\ ReportsMatch
    <2>1. reported = {} /\ found \in Nat
      BY SimpleAssumption DEF SimpleInit
    <2> QED BY <2>1, Sizes, FS_EmptySet DEF CountInv, ReportsMatch
  <1> QED BY <1>1, <1>2, <1>3, <1>4 DEF SimpleInv

\* The steps of main.
LEMMA MainSimple ==
  ASSUME SimpleInv, Create \/ Store \/ CreateFails \/ Join \/ UNCHANGED simpleVars
  PROVE SimpleInv'
  <1> USE DEF SimpleInv
  <1>1. UNCHANGED <<search, halt, found, index, find_it, made, kind, reported>>
    BY DEF Create, Store, CreateFails, Join, simpleVars
  <1>2. KindOK' /\ CountInv' /\ ReportsMatch'
    BY <1>1 DEF KindOK, CountInv, ReportsMatch
  <1>3. CASE Create
    <2>1. /\ started \in 0 .. nthreads /\ TID' = TID
          /\ at \in [Threads -> {"none", "index", "top", "key", "lock", "ended"}]
      BY <1>3 DEF Create, SimpleTypeOK
    <2>2. /\ started' \in 0 .. nthreads /\ main' \in {"store", "join"}
          /\ main' = "store" => started' # 0
      BY <1>3, <2>1, Sizes DEF Create
    <2>3. /\ at' \in [Threads -> {"none", "index", "top", "key", "lock", "ended"}]
          /\ \A t \in Threads : at'[t] = at[t] \/ at'[t] = "index"
      BY <1>3, <2>1 DEF Create
    <2>4. SimpleTypeOK'
      BY <1>1, <2>1, <2>2, <2>3 DEF SimpleTypeOK
    <2>5. SlotsInv'
      <3>1. ASSUME NEW t \in Threads, t > started' PROVE at'[t] = "none"
        <4>1. t \in Nat /\ t > started /\ t # started + 1
          BY <3>1, <1>3, <2>1, Sizes DEF Create, Threads
        <4>2. at'[t] = at[t]
          BY <4>1, <1>3, <2>1 DEF Create
        <4> QED BY <4>1, <4>2 DEF SlotsInv
      <3> QED BY <3>1, <2>1, <2>2 DEF SlotsInv
    <2>6. LoopInv'
      <3> SUFFICES ASSUME NEW t \in Threads
                   PROVE /\ at'[t] = "key" => made[t] < MaxKeys
                         /\ at'[t] = "lock" => made[t] >= 1 /\ Reportable(kind[t])
                         /\ search.loop = "xlm" /\ find_it[t] =>
                              at'[t] \in {"lock", "ended"} \/ (at'[t] = "top" /\ halt)
        BY <1>1 DEF LoopInv, Reportable
      <3>1. CASE at'[t] = at[t]
        BY <3>1 DEF LoopInv
      <3>2. CASE at'[t] = "index" /\ at'[t] # at[t]
        <4>1. t = started + 1
          BY <3>2, <1>3, <2>1 DEF Create
        <4>2. at[t] = "none"
          BY <4>1, <2>1 DEF SlotsInv
        <4> QED BY <4>2, <3>2 DEF LoopInv
      <3> QED BY <3>1, <3>2, <2>3
    <2> QED BY <1>2, <2>4, <2>5, <2>6
  <1>4. CASE Store
    <2>1. /\ started \in Slots /\ TID \in [Slots -> Threads \cup {NoThread}]
          /\ TID' = [TID EXCEPT ![started] = started] /\ main' = "create"
          /\ UNCHANGED <<started, at>>
      BY <1>4 DEF Store, SimpleTypeOK, SlotsInv, Slots
    <2>2. TID' \in [Slots -> Threads \cup {NoThread}]
      BY <2>1 DEF Slots, Threads
    <2>3. \A s \in Slots : TID'[s] = NoThread \/ TID'[s] = s
      BY <2>1 DEF SlotsInv
    <2>4. ASSUME NEW t \in Threads, index[t] # 0 PROVE TID'[index[t]] = t
      <3>1. TID[index[t]] = t /\ index[t] \in Slots /\ t # NoThread
        BY <2>4, Sizes DEF SimpleTypeOK, Slots, Threads, NoThread
      <3>2. index[t] = t
        BY <3>1 DEF SlotsInv
      <3> QED BY <3>1, <3>2, <2>1
    <2>5. SimpleTypeOK'
      BY <1>1, <2>1, <2>2, <2>4 DEF SimpleTypeOK
    <2> QED BY <1>1, <1>2, <2>1, <2>3, <2>5 DEF SlotsInv, LoopInv, Reportable
  <1>5. CASE CreateFails \/ Join \/ UNCHANGED simpleVars
    <2>1. /\ UNCHANGED <<started, TID, at>> /\ main' \in {main, "failed", "done"}
      BY <1>5 DEF CreateFails, Join, simpleVars
    <2> QED BY <1>1, <1>2, <2>1 DEF SimpleTypeOK, SlotsInv, LoopInv, Reportable
  <1> QED BY <1>3, <1>4, <1>5

-------------------------------------------------------------------------------
(* The steps of a thread *)

\* What a thread leaves alone, and what has to be shown of it alone.
LEMMA ThreadStep ==
  ASSUME SimpleInv, NEW t \in Threads,
         UNCHANGED <<search, started, TID>>, main' \in {main, "crashed"}, at[t] # "none",
         halt' \in BOOLEAN, halt => halt',
         \A u \in Threads : u # t => /\ at'[u] = at[u] /\ find_it'[u] = find_it[u]
                                     /\ made'[u] = made[u] /\ kind'[u] = kind[u],
         at'[t] = "key" => made'[t] < MaxKeys,
         at'[t] = "lock" => made'[t] >= 1 /\ Reportable(kind'[t]),
         search.loop = "xlm" /\ find_it'[t] =>
           at'[t] \in {"lock", "ended"} \/ (at'[t] = "top" /\ halt')
  PROVE SlotsInv' /\ LoopInv'
  <1>1. SlotsInv'
    <2>1. ~(t > started)
      BY DEF SimpleInv, SlotsInv
    <2>2. \A u \in Threads : u > started => at'[u] = "none"
      BY <2>1 DEF SimpleInv, SlotsInv
    <2> QED BY <2>2 DEF SimpleInv, SlotsInv
  <1>2. ASSUME NEW u \in Threads
        PROVE /\ at'[u] = "key" => made'[u] < MaxKeys
              /\ at'[u] = "lock" => made'[u] >= 1 /\ Reportable(kind'[u])
              /\ search.loop = "xlm" /\ find_it'[u] =>
                   at'[u] \in {"lock", "ended"} \/ (at'[u] = "top" /\ halt')
    <2>1. CASE u = t
      BY <2>1
    <2>2. CASE u # t
      BY <2>2 DEF SimpleInv, LoopInv
    <2> QED BY <2>1, <2>2
  <1> QED BY <1>1, <1>2 DEF LoopInv, Reportable

LEMMA IndexSimple == ASSUME SimpleInv, NEW t \in Threads, FindIndex(t) PROVE SimpleInv'
  <1> USE DEF SimpleInv, FindIndex
  <1>1. PICK s \in Slots : TID[s] = t /\ index' = [index EXCEPT ![t] = s]
    BY DEF Own
  <1>2. SimpleTypeOK'
    <2>1. /\ index \in [Threads -> 0 .. nthreads] /\ s \in 0 .. nthreads
          /\ at \in [Threads -> {"none", "index", "top", "key", "lock", "ended"}]
      BY Sizes DEF SimpleTypeOK, Slots
    <2>2. /\ index' \in [Threads -> 0 .. nthreads] /\ TID' = TID
          /\ at' \in [Threads -> {"none", "index", "top", "key", "lock", "ended"}]
          /\ index'[t] = s /\ \A u \in Threads : u # t => index'[u] = index[u]
      BY <1>1, <2>1
    <2>3. \A u \in Threads : index'[u] # 0 => TID[index'[u]] = u
      BY <1>1, <2>2 DEF SimpleTypeOK
    <2> QED BY <2>2, <2>3 DEF SimpleTypeOK
  <1>3. SlotsInv' /\ LoopInv'
    <2>1. at'[t] = "top" /\ at[t] = "index" /\ \A u \in Threads : u # t => at'[u] = at[u]
      BY DEF SimpleTypeOK
    <2>2. halt \in BOOLEAN
      BY DEF SimpleTypeOK
    <2>3. ~(search.loop = "xlm" /\ find_it[t])
      BY <2>1 DEF LoopInv
    <2> QED BY <2>1, <2>2, <2>3, ThreadStep
  <1>4. KindOK' /\ CountInv' /\ ReportsMatch'
    BY DEF KindOK, CountInv, ReportsMatch
  <1> QED BY <1>2, <1>3, <1>4

LEMMA HaltSimple == ASSUME SimpleInv, NEW t \in Threads, ReadHalt(t) PROVE SimpleInv'
  <1> USE DEF SimpleInv, ReadHalt
  <1>1. /\ at'[t] = (IF halt THEN "ended" ELSE "key") /\ at[t] = "top"
        /\ \A u \in Threads : u # t => at'[u] = at[u]
        /\ at' \in [Threads -> {"none", "index", "top", "key", "lock", "ended"}]
        /\ halt \in BOOLEAN
    BY DEF SimpleTypeOK
  <1>2. SimpleTypeOK'
    BY <1>1 DEF SimpleTypeOK
  <1>3. SlotsInv' /\ LoopInv'
    <2>1. search.loop = "xlm" /\ find_it[t] => halt
      BY <1>1 DEF LoopInv
    <2>2. at'[t] = "key" => made[t] < MaxKeys
      BY <1>1
    <2>3. at'[t] # "lock" /\ (search.loop = "xlm" /\ find_it[t] => at'[t] = "ended")
      BY <1>1, <2>1
    <2> QED BY <1>1, <2>2, <2>3, ThreadStep
  <1>4. KindOK' /\ CountInv' /\ ReportsMatch'
    BY DEF KindOK, CountInv, ReportsMatch
  <1> QED BY <1>2, <1>3, <1>4

\* What is matched may be reported.
LEMMA MatchMeans ==
  ASSUME NEW k \in {"match", "miss"} \cup (IF search.P2TR THEN {"odd"} ELSE {}),
         TRUE \in MatchOf(k)
  PROVE Reportable(k)
  BY DEF MatchOf, Reportable

LEMMA TestSimple == ASSUME SimpleInv, NEW t \in Threads, TestKey(t) PROVE SimpleInv'
  <1> USE DEF SimpleInv
  <1>1. PICK k \in {"match", "miss"} \cup (IF search.P2TR THEN {"odd"} ELSE {}) :
        \E m \in MatchOf(k) :
          /\ kind' = [kind EXCEPT ![t] = k]
          /\ find_it' = [find_it EXCEPT ![t] = Before(t) \/ m]
          /\ at' = [at EXCEPT ![t] = IF Before(t) \/ m THEN "lock" ELSE "top"]
    BY DEF TestKey
  <1>2. PICK m \in MatchOf(k) :
          /\ kind' = [kind EXCEPT ![t] = k]
          /\ find_it' = [find_it EXCEPT ![t] = Before(t) \/ m]
          /\ at' = [at EXCEPT ![t] = IF Before(t) \/ m THEN "lock" ELSE "top"]
    BY <1>1
  <1>3. /\ at[t] = "key" /\ made' = [made EXCEPT ![t] = @ + 1]
        /\ UNCHANGED <<mainvars, halt, found, index, reported>>
    BY DEF TestKey
  <1>4. /\ made \in [Threads -> 0 .. MaxKeys] /\ made[t] < MaxKeys /\ halt \in BOOLEAN
        /\ at \in [Threads -> {"none", "index", "top", "key", "lock", "ended"}]
        /\ find_it \in [Threads -> BOOLEAN]
    BY <1>3 DEF SimpleTypeOK, LoopInv
  <1>5. ~Before(t) /\ m \in BOOLEAN /\ k \in {"match", "miss", "odd"}
    <2>1. ~Before(t)
      BY <1>3 DEF Before, LoopInv
    <2>2. MatchOf(k) \subseteq BOOLEAN
      BY DEF MatchOf
    <2> QED BY <2>1, <2>2
  <1>6. /\ find_it' \in [Threads -> BOOLEAN] /\ find_it'[t] = m
        /\ at'[t] = (IF m THEN "lock" ELSE "top")
        /\ at' \in [Threads -> {"none", "index", "top", "key", "lock", "ended"}]
    BY <1>2, <1>4, <1>5
  <1>7. /\ made' \in [Threads -> 0 .. MaxKeys] /\ made'[t] >= 1
    <2>1. made[t] + 1 \in 0 .. MaxKeys /\ made[t] + 1 >= 1
      BY <1>4, Sizes
    <2> QED BY <2>1, <1>3, <1>4
  <1>8. kind' \in [Threads -> {"match", "miss", "odd"}] /\ kind'[t] = k
    BY <1>2, <1>5 DEF KindOK
  <1>9. SimpleTypeOK'
    BY <1>3, <1>6, <1>7 DEF SimpleTypeOK
  <1>10. SlotsInv' /\ LoopInv'
    <2>1. \A u \in Threads : u # t => /\ at'[u] = at[u] /\ find_it'[u] = find_it[u]
                                      /\ made'[u] = made[u] /\ kind'[u] = kind[u]
      BY <1>2, <1>3, <1>4 DEF KindOK
    <2>2. m = TRUE => Reportable(k)
      BY MatchMeans
    <2>3. at'[t] # "key" /\ (at'[t] = "lock" => m = TRUE) /\ (find_it'[t] => at'[t] = "lock")
      BY <1>5, <1>6
    <2> QED BY <1>3, <1>4, <1>7, <1>8, <2>1, <2>2, <2>3, ThreadStep
  <1>11. KindOK' /\ CountInv' /\ ReportsMatch'
    BY <1>3, <1>8 DEF KindOK, CountInv, ReportsMatch
  <1> QED BY <1>9, <1>10, <1>11

LEMMA ReportSimple == ASSUME SimpleInv, NEW t \in Threads, Report(t) PROVE SimpleInv'
  <1> USE DEF SimpleInv
  <1>1. /\ at[t] = "lock" /\ halt' = TRUE
        /\ UNCHANGED <<mainvars, index, find_it, made, kind>>
    BY DEF Report, HaltEnough, HaltMatch
  <1>2. /\ \A u \in Threads : u # t => at'[u] = at[u]
        /\ at' \in [Threads -> {"none", "index", "top", "key", "lock", "ended"}]
        /\ at'[t] \in {"ended", "top"}
    BY DEF Report, SimpleTypeOK
  <1>3. SlotsInv' /\ LoopInv'
    BY <1>1, <1>2, ThreadStep
  <1>4. KindOK'
    BY <1>1 DEF KindOK
  <1>5. CASE Enough
    <2>1. UNCHANGED <<found, reported>>
      BY <1>5 DEF Report
    <2> QED BY <2>1, <1>1, <1>2, <1>3, <1>4 DEF SimpleTypeOK, CountInv, ReportsMatch
  <1>6. CASE ~Enough
    <2> DEFINE new == [thread |-> t, n |-> made[t], kind |-> kind[t]]
    <2>1. /\ found' = found + 1 /\ reported' = reported \cup {new}
          /\ found \in Nat /\ found < numpairs
      BY <1>6, Sizes DEF Report, Enough, SimpleTypeOK
    <2>2. new \in [thread : Threads, n : 1 .. MaxKeys, kind : {"match", "miss", "odd"}]
      <3>1. made[t] \in 1 .. MaxKeys /\ kind[t] \in {"match", "miss", "odd"}
        BY <1>1, Sizes DEF SimpleTypeOK, LoopInv, KindOK
      <3> QED BY <3>1
    <2>3. new.kind = "match" \/ (search.P2TR /\ search.location = "end")
      BY <1>1 DEF LoopInv, Reportable
    <2> HIDE DEF new
    <2>4. /\ IsFiniteSet(reported') /\ Cardinality(reported) \in Nat
          /\ \/ Cardinality(reported') = Cardinality(reported)
             \/ Cardinality(reported') = Cardinality(reported) + 1
      <3>1. IsFiniteSet(reported)
        BY DEF CountInv
      <3> QED BY <3>1, <2>1, FS_AddElement, FS_CardinalityType
    <2>5. CountInv'
      BY <2>1, <2>4, Sizes DEF CountInv
    <2>6. SimpleTypeOK'
      BY <1>1, <1>2, <2>1, <2>2 DEF SimpleTypeOK
    <2>7. ReportsMatch'
      BY <1>1, <2>1, <2>3 DEF ReportsMatch
    <2> QED BY <1>3, <1>4, <2>5, <2>6, <2>7
  <1> QED BY <1>5, <1>6

LEMMA FailsSimple ==
  ASSUME SimpleInv, NEW t \in Threads, KeygenInitFails(t) \/ KeygenFails(t)
  PROVE SimpleInv'
  <1> USE DEF SimpleInv
  <1>1. /\ UNCHANGED <<search, started, TID, halt, found, index, find_it, made, kind, reported>>
        /\ main' \in {main, "crashed"}
        /\ main' = "crashed" => main' = main \/ at' = at
        /\ at' = at \/ (at' = [at EXCEPT ![t] = "ended"] /\ main' = main)
        /\ at[t] # "none"
    BY DEF KeygenInitFails, KeygenFails
  <1>2. /\ at' \in [Threads -> {"none", "index", "top", "key", "lock", "ended"}]
        /\ \A u \in Threads : u # t => at'[u] = at[u]
        /\ at'[t] = at[t] \/ at'[t] = "ended"
    BY <1>1 DEF SimpleTypeOK
  <1>3. SimpleTypeOK'
    BY <1>1, <1>2 DEF SimpleTypeOK
  <1>4. SlotsInv' /\ LoopInv'
    <2>1. halt \in BOOLEAN
      BY DEF SimpleTypeOK
    <2>2. /\ at'[t] = "key" => made[t] < MaxKeys
          /\ at'[t] = "lock" => made[t] >= 1 /\ Reportable(kind[t])
          /\ search.loop = "xlm" /\ find_it[t] =>
               at'[t] \in {"lock", "ended"} \/ (at'[t] = "top" /\ halt)
      BY <1>2 DEF LoopInv
    <2> QED BY <1>1, <1>2, <2>1, <2>2, ThreadStep
  <1>5. KindOK' /\ CountInv' /\ ReportsMatch'
    BY <1>1 DEF KindOK, CountInv, ReportsMatch
  <1> QED BY <1>3, <1>4, <1>5

-------------------------------------------------------------------------------

\* The threads keep what SimpleInv says of their flags, slots and reports.
THEOREM SimpleInvariance == SimpleSpec => []SimpleInv
  <1>1. SimpleInit => SimpleInv
    BY InitSimple
  <1>2. ASSUME SimpleInv, [SimpleNext]_simpleVars PROVE SimpleInv'
    BY <1>2, MainSimple, IndexSimple, HaltSimple, TestSimple, ReportSimple, FailsSimple
    DEF SimpleNext, Main, Fails, Loop, Rests
  <1> QED BY <1>1, <1>2, PTL DEF SimpleSpec

\* Threads that find keys at the same time report matches only, no more than asked for
\* whatever the count was to begin with, and count their keys apart.
THEOREM Reports == SimpleSpec => []ReportsRight
  <1>1. SimpleInv => ReportsRight
    BY DEF SimpleInv, CountInv, AmountKept, OwnCounter, SimpleTypeOK, ReportsRight
  <1> QED BY <1>1, SimpleInvariance, PTL

================================================================================
