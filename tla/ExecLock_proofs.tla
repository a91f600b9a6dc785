--------------------------- MODULE ExecLock_proofs ---------------------------
(***************************************************************************)
(* Proofs about ExecLock, for any finite set of threads: the invariant     *)
(* IInv is inductive as long as the wait on vg_thread_wrcond does not      *)
(* return without a signal, and gives mutual exclusion, the assertions of  *)
(* pattern.c, the absence of lost wakeups, the precedence of upgraders,    *)
(* and the refinement of the safety part of SharedExclusive.               *)
(***************************************************************************)
EXTENDS ExecLock, FiniteSetTheorems, TLAPS

\* The wait that pattern.c does not put in a loop returns on a signal only.
QueuedWaitsForSignal == "queued" \notin Spurious

-------------------------------------------------------------------------------
(* The counter and the set it counts *)

LEMMA UpgradersFinite == IsFiniteSet(Upgraders)
<1>1. Upgraders \subseteq Threads
  BY DEF Upgraders
<1>2. QED
  BY <1>1, LockAssumption, FS_Subset DEF LockAssumption

\* Counting by cardinality: zero for none, one for a singleton.
LEMMA CountUpgraders ==
  ASSUME excl = Cardinality(Upgraders)
  PROVE  /\ excl \in Nat
         /\ excl = 0 <=> Upgraders = {}
         /\ \A t \in Upgraders : excl = 1 <=> Upgraders = {t}
<1>1. excl \in Nat
  BY UpgradersFinite, FS_CardinalityType
<1>2. excl = 0 <=> Upgraders = {}
  BY UpgradersFinite, FS_EmptySet
<1>3. ASSUME NEW t \in Upgraders
      PROVE  excl = 1 <=> Upgraders = {t}
  <2>1. /\ IsFiniteSet(Upgraders \ {t})
        /\ Cardinality(Upgraders \ {t}) = Cardinality(Upgraders) - 1
    BY UpgradersFinite, FS_RemoveElement
  <2>2. Cardinality(Upgraders \ {t}) = 0 <=> Upgraders \ {t} = {}
    BY <2>1, FS_EmptySet
  <2>3. QED
    BY <1>1, <2>1, <2>2
<1>4. QED
  BY <1>1, <1>2, <1>3

LEMMA CountAdded ==
  ASSUME excl = Cardinality(Upgraders), NEW t, t \notin Upgraders,
         Upgraders' = Upgraders \cup {t}, excl' = excl + 1
  PROVE  (excl = Cardinality(Upgraders))'
<1>1. Cardinality(Upgraders \cup {t}) = Cardinality(Upgraders) + 1
  BY UpgradersFinite, FS_AddElement
<1>2. QED
  BY <1>1

LEMMA CountRemoved ==
  ASSUME excl = Cardinality(Upgraders), NEW t \in Upgraders,
         Upgraders' = Upgraders \ {t}, excl' = excl - 1
  PROVE  (excl = Cardinality(Upgraders))'
<1>1. Cardinality(Upgraders \ {t}) = Cardinality(Upgraders) - 1
  BY UpgradersFinite, FS_RemoveElement
<1>2. QED
  BY <1>1

-------------------------------------------------------------------------------
(* Types *)

LEMMA TypeInit == Init => TypeOK
BY DEF Init, TypeOK, Waits

LEMMA SignalType ==
  ASSUME NEW c, NEW w \in SUBSET Threads
  PROVE  Signal(c, w) \subseteq SUBSET Threads
BY DEF Signal, Waiting

LEMMA TypeStep == TypeOK /\ [Next]_vars => TypeOK'
<1> SUFFICES ASSUME TypeOK, [Next]_vars
             PROVE  TypeOK'
  OBVIOUS
<1> USE DEF TypeOK, Waits
<1>p. ASSUME NEW t \in Threads, NEW next \in {"reading", "leaving"}, ParkOr(t, next)
      PROVE  TypeOK'
  <2>1. SignalIfStopped(t, woken \ {t}) \subseteq SUBSET Threads
    BY SignalType DEF SignalIfStopped
  <2>2. QED
    BY <1>p, <2>1 DEF ParkOr
<1>1. ASSUME NEW t \in Threads, Register(t)
      PROVE  TypeOK'
  BY <1>1 DEF Register
<1>2. ASSUME NEW t \in Threads, SeeStop(t)
      PROVE  TypeOK'
  BY <1>2 DEF SeeStop
<1>3. ASSUME NEW t \in Threads, Advance(t)
      PROVE  TypeOK'
  <2>1. CASE Yield(t)
    BY <2>1, <1>p DEF Yield
  <2>2. CASE Unpark(t)
    BY <2>2, <1>p DEF Unpark
  <2>3. CASE Drained(t)
    BY <2>3 DEF Drained, DrainOrHold
  <2>4. CASE Dequeued(t)
    BY <2>4 DEF Dequeued
  <2>5. QED
    BY <1>3, <2>1, <2>2, <2>3, <2>4 DEF Advance
<1>4. ASSUME NEW t \in Threads, UpgradeFirst(t)
      PROVE  TypeOK'
  BY <1>4 DEF UpgradeFirst, DrainOrHold, StopHolders
<1>5. ASSUME NEW t \in Threads, UpgradeLater(t)
      PROVE  TypeOK'
  BY <1>5, SignalType DEF UpgradeLater
<1>6. ASSUME NEW t \in Threads, Downgrade(t)
      PROVE  TypeOK'
  <2>1. PICK next \in {"reading", "leaving"} :
          DowngradeLast(t, next) \/ DowngradeToNext(t, next)
    BY <1>6 DEF Downgrade
  <2>2. CASE DowngradeLast(t, next)
    BY <2>2 DEF DowngradeLast, Broadcast, Waiting
  <2>3. CASE DowngradeToNext(t, next)
    BY <2>3, SignalType DEF DowngradeToNext
  <2>4. QED
    BY <2>1, <2>2, <2>3
<1>7. ASSUME NEW t \in Threads, Del(t)
      PROVE  TypeOK'
  <2>1. SignalIfStopped(t, woken) \subseteq SUBSET Threads
    BY SignalType DEF SignalIfStopped
  <2>2. QED
    BY <1>7, <2>1 DEF Del
<1>8. ASSUME NEW t \in Threads, SpuriousWakeup(t)
      PROVE  TypeOK'
  BY <1>8 DEF SpuriousWakeup
<1>9. CASE UNCHANGED vars
  BY <1>9 DEF vars
<1>10. QED
  BY <1>1, <1>2, <1>3, <1>4, <1>5, <1>6, <1>7, <1>8, <1>9 DEF Next

\* The fields of the contexts keep their types.
THEOREM TypeCorrect == Spec => []TypeOK
BY TypeInit, TypeStep, PTL DEF Spec
-------------------------------------------------------------------------------
(* The inductive invariant *)

LEMMA IInvInit == Init => IInv
<1> SUFFICES ASSUME Init
             PROVE  IInv
  OBVIOUS
<1>1. Upgraders = {}
  BY DEF Init, Upgraders
<1>2. ControlAgrees
  BY <1>1, FS_EmptySet DEF Init, ControlAgrees, Holding
<1>3. OneInTurn /\ StopsAgree /\ WaitersAwaited
  BY <1>1 DEF Init, OneInTurn, StopsAgree, WaitersAwaited, InTurn, Holding, Waiting
<1>4. QED
  BY <1>2, <1>3, TypeInit DEF IInv

\* A context registers: it reads at once or parks behind an upgrade.
LEMMA RegisterKeepsIInv ==
  ASSUME IInv, TypeOK', NEW t \in Threads, Register(t)
  PROVE  IInv'
<1> USE DEF IInv, TypeOK, Register, Waits
<1>1. excl = 0 <=> Upgraders = {}
  BY CountUpgraders DEF ControlAgrees
<1>2. Upgraders' = Upgraders
  BY DEF Upgraders
<1>3. ControlAgrees'
  BY <1>2 DEF ControlAgrees, Holding
<1>4. OneInTurn'
  BY <1>2 DEF OneInTurn, InTurn
<1>5. StopsAgree'
  BY <1>1, <1>2 DEF StopsAgree, ControlAgrees, Holding
<1>6. WaitersAwaited'
  BY <1>1, <1>2 DEF WaitersAwaited, Waiting, Holding
<1>7. QED
  BY <1>3, <1>4, <1>5, <1>6

LEMMA SeeStopKeepsIInv ==
  ASSUME IInv, TypeOK', NEW t \in Threads, SeeStop(t)
  PROVE  IInv'
<1> USE DEF IInv, TypeOK, SeeStop, Waits
<1>2. Upgraders' = Upgraders
  BY DEF Upgraders
<1>3. ControlAgrees'
  BY <1>2 DEF ControlAgrees, Holding
<1>4. OneInTurn'
  BY <1>2 DEF OneInTurn, InTurn
<1>5. StopsAgree'
  BY <1>2 DEF StopsAgree, Holding
<1>6. WaitersAwaited'
  BY <1>2 DEF WaitersAwaited, Waiting, Holding
<1>7. QED
  BY <1>3, <1>4, <1>5, <1>6

\* A signal to the draining upgrader leaves none that waits.
LEMMA SignalDraining ==
  ASSUME IInv, NEW w \in SUBSET Threads, w \subseteq woken,
         \A u \in Threads : pc[u] = "draining" /\ u \in woken => u \in w,
         NEW x \in Signal("draining", w)
  PROVE  /\ w \subseteq x
         /\ \A u \in x \ w : pc[u] = "draining"
         /\ \A u \in Threads : pc[u] = "draining" => u \in x
<1>1. CASE Waiting("draining") = {}
  BY <1>1 DEF Signal, Waiting
<1>2. CASE Waiting("draining") # {}
  <2>1. PICK u \in Waiting("draining") : x = w \cup {u}
    BY <1>2 DEF Signal
  <2>2. \A v \in Threads : pc[v] = "draining" => v = u
    BY <2>1 DEF IInv, OneInTurn, InTurn, Waiting
  <2>3. QED
    BY <2>1, <2>2 DEF Waiting
<1>3. QED
  BY <1>1, <1>2

\* Parking, or taking the shared hold, from a holder or from a released wait.
LEMMA ParkOrKeepsIInv ==
  ASSUME IInv, TypeOK', NEW t \in Threads, NEW next \in {"reading", "leaving"},
         \/ pc[t] = "yielding"
         \/ pc[t] = "parked" /\ t \in woken,
         ParkOr(t, next)
  PROVE  IInv'
<1> USE DEF IInv, TypeOK, Waits
<1>1. excl = 0 <=> Upgraders = {}
  BY CountUpgraders DEF ControlAgrees
<1>2. Upgraders' = Upgraders
  BY DEF Upgraders, ParkOr
<1>3. CASE excl = 0
  <2>0. /\ pc' = [pc EXCEPT ![t] = next]
        /\ lockmode' = [lockmode EXCEPT ![t] = 1]
        /\ woken' = woken \ {t}
        /\ UNCHANGED <<registered, excl, stop>>
    BY <1>3 DEF ParkOr
  <2>1. ControlAgrees'
    BY <1>2, <2>0 DEF ControlAgrees, Holding
  <2>2. OneInTurn'
    BY <1>1, <1>2, <1>3, <2>0 DEF OneInTurn, InTurn, Upgraders
  <2>3. StopsAgree'
    BY <1>1, <1>2, <1>3, <2>0 DEF StopsAgree, ControlAgrees, Holding, Upgraders
  <2>4. WaitersAwaited'
    BY <1>1, <1>2, <1>3, <2>0 DEF WaitersAwaited, Waiting, Holding, Upgraders
  <2>5. QED
    BY <2>1, <2>2, <2>3, <2>4
<1>4. CASE excl > 0
  <2>1. /\ pc' = [pc EXCEPT ![t] = "parked"]
        /\ lockmode' = [lockmode EXCEPT ![t] = 0]
        /\ stop' = [stop EXCEPT ![t] = FALSE]
        /\ UNCHANGED <<registered, excl>>
    BY <1>4 DEF ParkOr
  <2>2. /\ woken \ {t} \subseteq woken'
        /\ \A u \in woken' \ (woken \ {t}) : pc[u] = "draining"
        /\ stop[t] => \A u \in Threads : pc[u] = "draining" => u \in woken'
        /\ ~stop[t] => woken' = woken \ {t}
    BY <1>4, SignalDraining DEF ParkOr, SignalIfStopped
  <2>3. ControlAgrees'
    BY <1>2, <2>1, <2>2 DEF ControlAgrees, Holding
  <2>4. OneInTurn'
    BY <1>2, <2>1, <2>2 DEF OneInTurn, InTurn
  <2>5. StopsAgree'
    BY <1>2, <2>1 DEF StopsAgree, Holding
  <2>6. WaitersAwaited'
    BY <1>1, <1>2, <1>4, <2>1, <2>2 DEF WaitersAwaited, Waiting, Holding, StopsAgree
  <2>7. QED
    BY <2>3, <2>4, <2>5, <2>6
<1>5. QED
  BY <1>3, <1>4 DEF ParkOr
\* The first upgrader raises the counter and drains the holders, if any.
LEMMA UpgradeFirstKeepsIInv ==
  ASSUME IInv, TypeOK', NEW t \in Threads, UpgradeFirst(t)
  PROVE  IInv'
<1> USE DEF IInv, TypeOK, Waits
<1>1. Upgraders = {}
  BY CountUpgraders DEF ControlAgrees, UpgradeFirst
<1>2. \A u \in Threads : pc[u] \notin {"draining", "queued", "writing"}
  BY <1>1 DEF Upgraders
<1>3. /\ pc' = [pc EXCEPT ![t] = IF MustDrain(t) THEN "draining" ELSE "writing"]
      /\ lockmode' = [lockmode EXCEPT ![t] = IF MustDrain(t) THEN 0 ELSE 2]
      /\ woken' = woken \ {t}
      /\ excl' = excl + 1
      /\ pc[t] = "reading"
      /\ registered' = registered
  BY DEF UpgradeFirst, DrainOrHold
<1>4. Upgraders' = Upgraders \cup {t}
  BY <1>3 DEF Upgraders
<1>5. \A u \in Threads : Holding(u) <=> u \in registered /\ lockmode[u] # 0
  BY <1>2 DEF ControlAgrees, Holding
<1>6. MustDrain(t) <=> \E u \in Threads \ {t} : Holding(u)
  BY <1>5 DEF MustDrain
<1>7. \A u \in Threads : stop'[u] <=> stop[u] \/ (u # t /\ Holding(u))
  BY <1>5 DEF UpgradeFirst, StopHolders
<1>8. (excl = Cardinality(Upgraders))'
  BY <1>1, <1>3, <1>4, CountAdded DEF ControlAgrees
<1>9. ControlAgrees'
  BY <1>3, <1>8 DEF ControlAgrees, Holding
<1>10. OneInTurn'
  BY <1>2, <1>3 DEF OneInTurn, InTurn
<1>11. StopsAgree'
  BY <1>2, <1>3, <1>6, <1>7 DEF StopsAgree, Holding
<1>12. WaitersAwaited'
  BY <1>2, <1>3, <1>4, <1>6 DEF WaitersAwaited, Waiting, Holding
<1>13. QED
  BY <1>9, <1>10, <1>11, <1>12

\* A later upgrader gives up its hold, releases the draining one and queues.
LEMMA UpgradeLaterKeepsIInv ==
  ASSUME IInv, TypeOK', NEW t \in Threads, UpgradeLater(t)
  PROVE  IInv'
<1> USE DEF IInv, TypeOK, Waits
<1>1. Upgraders # {}
  BY CountUpgraders DEF ControlAgrees, UpgradeLater
<1>2. /\ pc' = [pc EXCEPT ![t] = "queued"]
      /\ lockmode' = [lockmode EXCEPT ![t] = 0]
      /\ stop' = [stop EXCEPT ![t] = FALSE]
      /\ excl' = excl + 1
      /\ pc[t] = "reading"
      /\ registered' = registered
  BY DEF UpgradeLater
<1>3. Upgraders' = Upgraders \cup {t} /\ t \notin Upgraders
  BY <1>2 DEF Upgraders
<1>4. /\ woken \subseteq woken'
      /\ \A u \in woken' \ woken : pc[u] = "draining"
      /\ \A u \in Threads : pc[u] = "draining" => u \in woken'
  BY SignalDraining DEF UpgradeLater
<1>5. (excl = Cardinality(Upgraders))'
  BY <1>2, <1>3, CountAdded DEF ControlAgrees
<1>6. t \notin woken'
  BY <1>2, <1>4 DEF ControlAgrees
<1>7. ControlAgrees'
  BY <1>2, <1>4, <1>5 DEF ControlAgrees, Holding
<1>8. OneInTurn'
  BY <1>1, <1>2, <1>4, <1>6 DEF OneInTurn, InTurn
<1>9. StopsAgree'
  BY <1>1, <1>2, <1>3 DEF StopsAgree, Holding
<1>10. WaitersAwaited'
  BY <1>1, <1>2, <1>3, <1>4 DEF WaitersAwaited, Waiting
<1>11. QED
  BY <1>7, <1>8, <1>9, <1>10

\* The draining upgrader looks again at the holders.
LEMMA DrainedKeepsIInv ==
  ASSUME IInv, TypeOK', NEW t \in Threads, Drained(t)
  PROVE  IInv'
<1> USE DEF IInv, TypeOK, Waits
<1>1. /\ pc' = [pc EXCEPT ![t] = IF MustDrain(t) THEN "draining" ELSE "writing"]
      /\ lockmode' = [lockmode EXCEPT ![t] = IF MustDrain(t) THEN 0 ELSE 2]
      /\ woken' = woken \ {t}
      /\ pc[t] = "draining"
      /\ UNCHANGED <<registered, stop, excl>>
  BY DEF Drained, DrainOrHold
<1>2. Upgraders' = Upgraders
  BY <1>1 DEF Upgraders
<1>3. \A u \in Threads : InTurn(u) => u = t
  BY <1>1 DEF OneInTurn, InTurn
<1>4. \A u \in Threads : Holding(u) <=> u \in registered /\ lockmode[u] # 0
  BY <1>1, <1>3 DEF ControlAgrees, Holding, InTurn
<1>5. MustDrain(t) <=> \E u \in Threads : Holding(u)
  BY <1>1, <1>4 DEF MustDrain, Holding
<1>6. ControlAgrees'
  BY <1>1, <1>2 DEF ControlAgrees, Holding
<1>7. OneInTurn'
  BY <1>1, <1>3 DEF OneInTurn, InTurn
<1>8. StopsAgree'
  BY <1>1, <1>2, <1>5 DEF StopsAgree, Holding
<1>9. WaitersAwaited'
  <2>1. Waiting("parked")' \subseteq Waiting("parked")
    BY <1>1 DEF Waiting
  <2>2. Waiting("draining")' # {} => MustDrain(t)
    BY <1>1, <1>3 DEF Waiting, InTurn
  <2>3. \A u \in Threads : Holding(u) => Holding(u)'
    BY <1>1 DEF Holding
  <2>4. QED
    BY <1>2, <1>5, <2>1, <2>2, <2>3 DEF WaitersAwaited
<1>10. QED
  BY <1>1, <1>6, <1>7, <1>8, <1>9

\* The released upgrader of the queue takes the lock.
LEMMA DequeuedKeepsIInv ==
  ASSUME IInv, TypeOK', NEW t \in Threads, Dequeued(t)
  PROVE  IInv'
<1> USE DEF IInv, TypeOK, Waits, Dequeued
<1>1. Upgraders' = Upgraders
  BY DEF Upgraders
<1>2. \A u \in Threads : InTurn(u) => u = t
  BY DEF OneInTurn, InTurn
<1>3. ControlAgrees'
  BY <1>1 DEF ControlAgrees, Holding
<1>4. OneInTurn'
  BY <1>2 DEF OneInTurn, InTurn
<1>5. StopsAgree'
  BY <1>1 DEF StopsAgree, Holding
<1>6. WaitersAwaited'
  BY <1>1, <1>2 DEF WaitersAwaited, Waiting, InTurn
<1>7. QED
  BY <1>3, <1>4, <1>5, <1>6

\* The last upgrader keeps a shared hold and releases the parked threads.
LEMMA DowngradeLastKeepsIInv ==
  ASSUME IInv, TypeOK', NEW t \in Threads, NEW next \in {"reading", "leaving"},
         DowngradeLast(t, next)
  PROVE  IInv'
<1> USE DEF IInv, TypeOK, Waits, DowngradeLast
<1>1. Upgraders = {t}
  <2>1. t \in Upgraders
    BY DEF Upgraders
  <2>2. QED
    BY <2>1, CountUpgraders DEF ControlAgrees
<1>2. Upgraders' = Upgraders \ {t}
  BY DEF Upgraders
<1>3. (excl = Cardinality(Upgraders))'
  BY <1>1, <1>2, CountRemoved DEF ControlAgrees
<1>4. woken' = woken \cup Waiting("parked")
  BY DEF Broadcast
<1>5. ControlAgrees'
  BY <1>3, <1>4 DEF ControlAgrees, Holding, Waiting
<1>6. OneInTurn'
  BY <1>1, <1>2 DEF OneInTurn, InTurn, Upgraders
<1>7. StopsAgree'
  BY <1>1, <1>2 DEF StopsAgree, Holding, Upgraders
<1>8. WaitersAwaited'
  BY <1>1, <1>4 DEF WaitersAwaited, Waiting, Upgraders
<1>9. QED
  BY <1>5, <1>6, <1>7, <1>8

\* Another upgrader is queued: it is released and this one parks.
LEMMA DowngradeToNextKeepsIInv ==
  ASSUME IInv, TypeOK', NEW t \in Threads, NEW next \in {"reading", "leaving"},
         DowngradeToNext(t, next)
  PROVE  IInv'
<1> USE DEF IInv, TypeOK, Waits
<1>1. /\ pc' = [pc EXCEPT ![t] = "parked"]
      /\ lockmode' = [lockmode EXCEPT ![t] = 0]
      /\ excl' = excl - 1
      /\ pc[t] = "writing"
      /\ excl > 1
      /\ UNCHANGED <<registered, stop>>
  BY DEF DowngradeToNext
<1>2. t \in Upgraders /\ Upgraders' = Upgraders \ {t}
  BY <1>1 DEF Upgraders
<1>3. \A u \in Threads : InTurn(u) => u = t
  BY <1>1 DEF OneInTurn, InTurn
<1>4. Waiting("queued") # {}
  <2>1. PICK u \in Upgraders : u # t
    BY <1>1, <1>2, CountUpgraders DEF ControlAgrees
  <2>2. QED
    BY <1>3, <2>1 DEF Upgraders, InTurn, Waiting
<1>5. PICK n \in Waiting("queued") : woken' = woken \cup {n}
  BY <1>4 DEF DowngradeToNext, Signal
<1>6. (excl = Cardinality(Upgraders))'
  BY <1>1, <1>2, CountRemoved DEF ControlAgrees
<1>7. n \in Threads /\ pc[n] = "queued" /\ n # t
  BY <1>1, <1>5 DEF Waiting
<1>8. ControlAgrees'
  BY <1>1, <1>5, <1>6, <1>7 DEF ControlAgrees, Holding
<1>9. OneInTurn'
  <2>1. \A u \in Threads : InTurn(u)' <=> u = n
    BY <1>1, <1>3, <1>5, <1>7 DEF InTurn
  <2>2. QED
    BY <1>7, <2>1 DEF OneInTurn
<1>10. StopsAgree'
  BY <1>1, <1>2 DEF StopsAgree, Holding
<1>11. WaitersAwaited'
  <2>1. n \in Upgraders'
    BY <1>1, <1>7 DEF Upgraders
  <2>2. Waiting("draining")' = {}
    BY <1>1, <1>3 DEF Waiting, InTurn
  <2>3. QED
    BY <2>1, <2>2 DEF WaitersAwaited
<1>12. QED
  BY <1>8, <1>9, <1>10, <1>11
\* A context leaves the list: its stop flag says whether an upgrader waits for it.
LEMMA DelKeepsIInv ==
  ASSUME IInv, TypeOK', NEW t \in Threads, Del(t)
  PROVE  IInv'
<1> USE DEF IInv, TypeOK, Waits
<1>1. /\ pc' = [pc EXCEPT ![t] = "out"]
      /\ lockmode' = [lockmode EXCEPT ![t] = 0]
      /\ registered' = registered \ {t}
      /\ pc[t] \in {"reading", "leaving"}
      /\ UNCHANGED <<stop, excl>>
  BY DEF Del
<1>2. Upgraders' = Upgraders
  BY <1>1 DEF Upgraders
<1>3. /\ woken \subseteq woken'
      /\ \A u \in woken' \ woken : pc[u] = "draining"
      /\ stop[t] => \A u \in Threads : pc[u] = "draining" => u \in woken'
  BY SignalDraining DEF Del, SignalIfStopped
<1>4. Upgraders # {} => stop[t]
  BY <1>1 DEF StopsAgree, Holding
<1>5. ControlAgrees'
  BY <1>1, <1>2, <1>3 DEF ControlAgrees, Holding
<1>6. OneInTurn'
  BY <1>1, <1>2, <1>3 DEF OneInTurn, InTurn
<1>7. StopsAgree'
  BY <1>1, <1>2 DEF StopsAgree, Holding
<1>8. WaitersAwaited'
  <2>1. Waiting("draining")' = {}
    BY <1>1, <1>3, <1>4 DEF Waiting, Upgraders
  <2>2. Waiting("parked")' \subseteq Waiting("parked")
    BY <1>1, <1>3 DEF Waiting
  <2>3. QED
    BY <1>2, <2>1, <2>2 DEF WaitersAwaited
<1>9. QED
  BY <1>5, <1>6, <1>7, <1>8

LEMMA SpuriousKeepsIInv ==
  ASSUME QueuedWaitsForSignal, IInv, TypeOK', NEW t \in Threads, SpuriousWakeup(t)
  PROVE  IInv'
<1> USE DEF IInv, TypeOK, Waits, SpuriousWakeup
<1>1. Upgraders' = Upgraders
  BY DEF Upgraders
<1>2. pc[t] \in {"draining", "parked"}
  BY LockAssumption DEF QueuedWaitsForSignal, LockAssumption
<1>3. ControlAgrees'
  BY <1>1, <1>2 DEF ControlAgrees, Holding
<1>4. \A u \in Threads : InTurn(u)' <=> InTurn(u)
  BY <1>2 DEF InTurn
<1>5. OneInTurn'
  BY <1>1, <1>4 DEF OneInTurn
<1>6. StopsAgree'
  BY <1>1 DEF StopsAgree, Holding
<1>7. WaitersAwaited'
  BY <1>1 DEF WaitersAwaited, Waiting, Holding
<1>8. QED
  BY <1>3, <1>5, <1>6, <1>7

LEMMA IInvStep ==
  ASSUME QueuedWaitsForSignal, IInv, [Next]_vars
  PROVE  IInv'
<1>0. TypeOK'
  BY TypeStep DEF IInv
<1>1. ASSUME NEW t \in Threads, Register(t)
      PROVE  IInv'
  BY <1>0, <1>1, RegisterKeepsIInv
<1>2. ASSUME NEW t \in Threads, SeeStop(t)
      PROVE  IInv'
  BY <1>0, <1>2, SeeStopKeepsIInv
<1>3. ASSUME NEW t \in Threads, Advance(t)
      PROVE  IInv'
  <2>1. CASE Yield(t)
    BY <1>0, <2>1, ParkOrKeepsIInv DEF Yield
  <2>2. CASE Unpark(t)
    <3>1. resume[t] \in {"reading", "leaving"}
      BY DEF IInv, TypeOK
    <3>2. QED
      BY <1>0, <2>2, <3>1, ParkOrKeepsIInv DEF Unpark
  <2>3. CASE Drained(t)
    BY <1>0, <2>3, DrainedKeepsIInv
  <2>4. CASE Dequeued(t)
    BY <1>0, <2>4, DequeuedKeepsIInv
  <2>5. QED
    BY <1>3, <2>1, <2>2, <2>3, <2>4 DEF Advance
<1>4. ASSUME NEW t \in Threads, UpgradeFirst(t)
      PROVE  IInv'
  BY <1>0, <1>4, UpgradeFirstKeepsIInv
<1>5. ASSUME NEW t \in Threads, UpgradeLater(t)
      PROVE  IInv'
  BY <1>0, <1>5, UpgradeLaterKeepsIInv
<1>6. ASSUME NEW t \in Threads, Downgrade(t)
      PROVE  IInv'
  BY <1>0, <1>6, DowngradeLastKeepsIInv, DowngradeToNextKeepsIInv DEF Downgrade
<1>7. ASSUME NEW t \in Threads, Del(t)
      PROVE  IInv'
  BY <1>0, <1>7, DelKeepsIInv
<1>8. ASSUME NEW t \in Threads, SpuriousWakeup(t)
      PROVE  IInv'
  BY <1>0, <1>8, SpuriousKeepsIInv
<1>9. CASE UNCHANGED vars
  <2> USE <1>9 DEF vars
  <2>1. Upgraders' = Upgraders
    BY DEF Upgraders
  <2>2. ControlAgrees' /\ OneInTurn'
    BY <2>1 DEF IInv, ControlAgrees, OneInTurn, InTurn, Holding
  <2>3. StopsAgree' /\ WaitersAwaited'
    BY <2>1 DEF IInv, StopsAgree, WaitersAwaited, Waiting, Holding
  <2>4. QED
    BY <1>0, <2>2, <2>3 DEF IInv
<1>10. QED
  BY <1>1, <1>2, <1>3, <1>4, <1>5, <1>6, <1>7, <1>8, <1>9 DEF Next

\* IInv holds throughout, as long as vg_thread_wrcond does not wake by itself.
THEOREM Invariance == QueuedWaitsForSignal /\ Spec => []IInv
<1>1. SUFFICES ASSUME QueuedWaitsForSignal
               PROVE  Spec => []IInv
  OBVIOUS
<1>2. IInv /\ [Next]_vars => IInv'
  BY <1>1, IInvStep
<1>3. QED
  BY <1>2, IInvInit, PTL DEF Spec

-------------------------------------------------------------------------------
(* What follows from it *)

LEMMA IInvExcludes == IInv => WriterExcludes
<1> SUFFICES ASSUME IInv, NEW t \in Threads, NEW u \in Threads, t # u,
                    lockmode[t] = 2
             PROVE  lockmode[u] = 0
  BY DEF WriterExcludes
<1>1. pc[t] = "writing" /\ t \in Upgraders
  BY DEF IInv, ControlAgrees, Holding, Upgraders
<1>2. \A v \in Threads : pc[v] \in {"draining", "writing"} => v = t
  BY <1>1 DEF IInv, OneInTurn, InTurn
<1>3. ~Holding(u)
  BY <1>1, <1>2 DEF IInv, StopsAgree, ControlAgrees, Holding
<1>4. QED
  BY <1>2, <1>3 DEF IInv, ControlAgrees

\* A thread with the exclusive hold is the only one with a hold, for any number
\* of threads that register, yield, upgrade and leave in any order.
THEOREM MutualExclusion == QueuedWaitsForSignal /\ Spec => []WriterExcludes
BY Invariance, IInvExcludes, PTL

LEMMA IInvAsserts == IInv => AssertionsHold
<1> SUFFICES ASSUME IInv
             PROVE  AssertionsHold
  OBVIOUS
<1> USE DEF IInv, TypeOK, Waits
<1>1. excl > 0 <=> Upgraders # {}
  BY CountUpgraders DEF ControlAgrees
<1>2. QueuedWakesAlone
  <2> SUFFICES ASSUME NEW t \in Threads, pc[t] = "queued", t \in woken,
                      NEW u \in registered
               PROVE  lockmode[u] = 0 /\ ~stop[u]
    BY DEF QueuedWakesAlone
  <2>1. t \in Upgraders
    BY DEF Upgraders
  <2>2. \A v \in Threads : pc[v] \notin {"draining", "writing"}
    BY DEF OneInTurn, InTurn
  <2>3. u \in Threads /\ ~stop[u]
    BY <2>2 DEF StopsAgree
  <2>4. QED
    BY <2>1, <2>2, <2>3 DEF StopsAgree, ControlAgrees
<1>3. ASSUME NEW t \in Threads
      PROVE  /\ pc[t] = "reading" /\ excl > 0 => stop[t]
             /\ pc[t] = "writing" => ~stop[t]
             /\ pc[t] \in {"parked", "yielding"} /\ excl = 0 => ~stop[t]
  BY <1>1 DEF StopsAgree, ControlAgrees, Holding, Upgraders
<1>4. ASSUME NEW t \in Threads, pc[t] = "draining", NEW u \in registered
      PROVE  lockmode[u] # 2
  BY <1>4 DEF ControlAgrees, OneInTurn, InTurn, Holding
<1>5. QED
  BY <1>2, <1>3, <1>4 DEF AssertionsHold

\* No assertion of the lock functions fails.
THEOREM Assertions == QueuedWaitsForSignal /\ Spec => []AssertionsHold
BY Invariance, IInvAsserts, PTL

LEMMA IInvAwaited == IInv => NoLostWakeup
<1> SUFFICES ASSUME IInv
             PROVE  NoLostWakeup
  OBVIOUS
<1> USE DEF IInv, TypeOK, Waits
<1>1. excl > 0 <=> Upgraders # {}
  BY CountUpgraders DEF ControlAgrees
<1>2. ASSUME NEW t \in Waiting("draining")
      PROVE  \E u \in registered : lockmode[u] # 0 /\ stop[u]
  <2>1. PICK u \in Threads : Holding(u)
    BY <1>2 DEF WaitersAwaited
  <2>2. t \in Upgraders
    BY <1>2 DEF Waiting, Upgraders
  <2>3. QED
    BY <2>1, <2>2 DEF StopsAgree, ControlAgrees, Holding
<1>3. ASSUME NEW t \in Waiting("queued")
      PROVE  \E u \in Threads \ {t} : InTurn(u)
  <2>1. t \in Upgraders /\ ~InTurn(t)
    BY <1>3 DEF Waiting, Upgraders, InTurn
  <2>2. QED
    BY <2>1 DEF OneInTurn
<1>4. ASSUME NEW t \in Waiting("parked")
      PROVE  excl > 0
  BY <1>1, <1>4 DEF WaitersAwaited
<1>5. QED
  BY <1>2, <1>3, <1>4 DEF NoLostWakeup

\* No wakeup is lost.
THEOREM WakeupsKept == QueuedWaitsForSignal /\ Spec => []NoLostWakeup
BY Invariance, IInvAwaited, PTL
\* No thread gains a shared hold while an upgrade is pending.
THEOREM UpgradersGoFirst == QueuedWaitsForSignal /\ Spec => UpgradersFirst
<1>1. ASSUME IInv, IInv', [Next]_vars, NEW t \in Threads,
             lockmode[t] # 1, lockmode'[t] = 1
      PROVE  Upgraders' = {}
  <2> USE DEF IInv, TypeOK, Waits
  <2>0. excl' = 0 <=> Upgraders' = {}
    <3>1. excl' = Cardinality(Upgraders')
      BY <1>1 DEF ControlAgrees
    <3>2. Upgraders' \subseteq Threads
      BY DEF Upgraders
    <3>3. IsFiniteSet(Upgraders')
      BY <3>2, LockAssumption, FS_Subset DEF LockAssumption
    <3>4. QED
      BY <3>1, <3>3, FS_EmptySet
  <2> SUFFICES excl' = 0
    BY <2>0
  <2>1. ASSUME NEW u \in Threads, NEW next \in {"reading", "leaving"}, ParkOr(u, next)
        PROVE  excl' = 0
    BY <1>1, <2>1 DEF ParkOr
  <2>2. ASSUME NEW u \in Threads, Register(u) \/ SeeStop(u) \/ SpuriousWakeup(u)
        PROVE  excl' = 0
    BY <1>1, <2>2 DEF Register, SeeStop, SpuriousWakeup
  <2>3. ASSUME NEW u \in Threads, Advance(u)
        PROVE  excl' = 0
    BY <1>1, <2>1, <2>3 DEF Advance, Yield, Unpark, Drained, Dequeued, DrainOrHold
  <2>4. ASSUME NEW u \in Threads, UpgradeFirst(u) \/ UpgradeLater(u) \/ Del(u)
        PROVE  excl' = 0
    BY <1>1, <2>4 DEF UpgradeFirst, UpgradeLater, Del, DrainOrHold
  <2>5. ASSUME NEW u \in Threads, Downgrade(u)
        PROVE  excl' = 0
    BY <1>1, <2>5 DEF Downgrade, DowngradeLast, DowngradeToNext
  <2>6. CASE UNCHANGED vars
    BY <1>1, <2>6 DEF vars
  <2>7. QED
    BY <1>1, <2>2, <2>3, <2>4, <2>5, <2>6 DEF Next
<1>2. IInv /\ IInv' /\ [Next]_vars
        => [\A t \in Threads : lockmode[t] # 1 /\ lockmode'[t] = 1 => Upgraders' = {}]_vars
  BY <1>1
<1>3. QED
  BY <1>2, Invariance, PTL DEF Spec, UpgradersFirst
-------------------------------------------------------------------------------
(* Refinement of the shared/exclusive lock, without its liveness *)

LEMMA AbstractInit == Init => Abstract!Init
BY DEF Init, Abstract!Init, Hold, Upgraders

\* The modes of two states, side by side, as the abstract holds.
LEMMA HoldOf ==
  ASSUME IInv, NEW t \in Threads
  PROVE  /\ lockmode[t] = 0 <=> Hold(lockmode[t]) = "none"
         /\ lockmode[t] = 1 <=> Hold(lockmode[t]) = "shared"
         /\ lockmode[t] = 2 <=> Hold(lockmode[t]) = "exclusive"
BY DEF IInv, TypeOK, Hold

LEMMA SetHold ==
  ASSUME IInv, NEW t \in Threads, NEW m, lockmode' = [lockmode EXCEPT ![t] = m]
  PROVE  [u \in Threads |-> Hold(lockmode[u])]' =
           [[u \in Threads |-> Hold(lockmode[u])] EXCEPT ![t] = Hold(m)]
BY DEF IInv, TypeOK
LEMMA AbstractStep ==
  ASSUME IInv, [Next]_vars
  PROVE  [Abstract!Next]_(Abstract!vars)
<1> DEFINE h == [u \in Threads |-> Hold(lockmode[u])]
<1> USE DEF IInv, TypeOK, Waits
<1>c. /\ excl = 0 <=> Upgraders = {}
      /\ \A t \in Upgraders : excl = 1 <=> Upgraders = {t}
  BY CountUpgraders DEF ControlAgrees
<1>h. Hold(0) = "none" /\ Hold(1) = "shared" /\ Hold(2) = "exclusive"
  BY DEF Hold
\* What a step that leaves modes and upgraders alone amounts to.
<1>s. ASSUME UNCHANGED lockmode, UNCHANGED Upgraders
      PROVE  UNCHANGED Abstract!vars
  BY <1>s DEF Abstract!vars
<1>p. ASSUME NEW t \in Threads, NEW next \in {"reading", "leaving"},
             pc[t] \in {"yielding", "parked"}, ParkOr(t, next)
      PROVE  [Abstract!Next]_(Abstract!vars)
  <2>1. Upgraders' = Upgraders
    BY <1>p DEF ParkOr, Upgraders
  <2>2. CASE excl = 0
    <3>1. lockmode' = [lockmode EXCEPT ![t] = 1]
      BY <1>p, <2>2 DEF ParkOr
    <3>2. h' = [h EXCEPT ![t] = "shared"]
      BY <1>h, <3>1, SetHold
    <3>3. CASE pc[t] = "parked"
      <4>1. h[t] = "none"
        BY <1>h, <3>3 DEF ControlAgrees, Holding
      <4>2. Abstract!GetShared(t)
        BY <1>c, <2>1, <2>2, <3>2, <4>1 DEF Abstract!GetShared
      <4>3. QED
        BY <4>2 DEF Abstract!Next
    <3>4. CASE pc[t] = "yielding"
      <4>1. lockmode[t] = 1
        BY <3>4 DEF ControlAgrees, Holding
      <4>2. QED
        BY <1>s, <2>1, <3>1, <4>1
    <3>5. QED
      BY <1>p, <3>3, <3>4
  <2>3. CASE excl > 0
    <3>1. lockmode' = [lockmode EXCEPT ![t] = 0]
      BY <1>p, <2>3 DEF ParkOr
    <3>2. h' = [h EXCEPT ![t] = "none"]
      BY <1>h, <3>1, SetHold
    <3>3. CASE pc[t] = "yielding"
      <4>1. h[t] = "shared"
        BY <1>h, <3>3 DEF ControlAgrees, Holding
      <4>2. Abstract!DropShared(t)
        BY <2>1, <3>2, <4>1 DEF Abstract!DropShared
      <4>3. QED
        BY <4>2 DEF Abstract!Next
    <3>4. CASE pc[t] = "parked"
      <4>1. lockmode[t] = 0
        BY <3>4 DEF ControlAgrees, Holding
      <4>2. QED
        BY <1>s, <2>1, <3>1, <4>1
    <3>5. QED
      BY <1>p, <3>3, <3>4
  <2>4. QED
    BY <1>p, <2>2, <2>3 DEF ParkOr
<1>1. ASSUME NEW t \in Threads, Register(t)
      PROVE  [Abstract!Next]_(Abstract!vars)
  <2>1. Upgraders' = Upgraders
    BY <1>1 DEF Register, Upgraders
  <2>2. lockmode[t] = 0
    BY <1>1 DEF Register, ControlAgrees, Holding
  <2>3. CASE excl = 0
    <3>1. h' = [h EXCEPT ![t] = "shared"]
      BY <1>1, <1>h, <2>3, SetHold DEF Register
    <3>2. Abstract!GetShared(t)
      BY <1>c, <1>h, <2>1, <2>2, <2>3, <3>1 DEF Abstract!GetShared
    <3>3. QED
      BY <3>2 DEF Abstract!Next
  <2>4. CASE excl # 0
    BY <1>1, <1>s, <2>1, <2>2, <2>4 DEF Register
  <2>5. QED
    BY <2>3, <2>4
<1>2. ASSUME NEW t \in Threads, SeeStop(t) \/ SpuriousWakeup(t)
      PROVE  [Abstract!Next]_(Abstract!vars)
  BY <1>2, <1>s DEF SeeStop, SpuriousWakeup, Upgraders
<1>3. ASSUME NEW t \in Threads, Drained(t)
      PROVE  [Abstract!Next]_(Abstract!vars)
  <2>1. t \in Upgraders /\ Upgraders' = Upgraders
    BY <1>3 DEF Drained, DrainOrHold, Upgraders
  <2>2. lockmode[t] = 0
    BY <1>3 DEF Drained, ControlAgrees, Holding
  <2>3. CASE MustDrain(t)
    BY <1>3, <1>s, <2>1, <2>2, <2>3 DEF Drained, DrainOrHold
  <2>4. CASE ~MustDrain(t)
    <3>1. h' = [h EXCEPT ![t] = "exclusive"]
      BY <1>3, <1>h, <2>4, SetHold DEF Drained, DrainOrHold
    <3>2. \A u \in Threads : lockmode[u] = 0
      BY <2>2, <2>4 DEF MustDrain, ControlAgrees, Holding
    <3>3. Abstract!Grant(t)
      BY <1>h, <2>1, <3>1, <3>2 DEF Abstract!Grant
    <3>4. QED
      BY <3>3 DEF Abstract!Next
  <2>5. QED
    BY <2>3, <2>4
<1>4. ASSUME NEW t \in Threads, Dequeued(t)
      PROVE  [Abstract!Next]_(Abstract!vars)
  <2>1. t \in Upgraders /\ Upgraders' = Upgraders
    BY <1>4 DEF Dequeued, Upgraders
  <2>2. h' = [h EXCEPT ![t] = "exclusive"]
    BY <1>4, <1>h, SetHold DEF Dequeued
  <2>3. \A u \in registered : lockmode[u] = 0
    BY <1>4, IInvAsserts DEF AssertionsHold, QueuedWakesAlone, Dequeued
  <2>4. \A u \in Threads : lockmode[u] = 0
    BY <2>3 DEF ControlAgrees, Holding
  <2>5. Abstract!Grant(t)
    BY <1>h, <2>1, <2>2, <2>4 DEF Abstract!Grant
  <2>6. QED
    BY <2>5 DEF Abstract!Next
<1>5. ASSUME NEW t \in Threads, UpgradeFirst(t)
      PROVE  [Abstract!Next]_(Abstract!vars)
  <2>1. Upgraders = {} /\ Upgraders' = {t}
    BY <1>5, <1>c DEF UpgradeFirst, DrainOrHold, Upgraders
  <2>2. lockmode[t] = 1
    BY <1>5 DEF UpgradeFirst, ControlAgrees, Holding
  <2>3. CASE MustDrain(t)
    <3>1. h' = [h EXCEPT ![t] = "none"]
      BY <1>5, <1>h, <2>3, SetHold DEF UpgradeFirst, DrainOrHold
    <3>2. Abstract!Request(t)
      BY <1>h, <2>1, <2>2, <3>1 DEF Abstract!Request
    <3>3. QED
      BY <3>2 DEF Abstract!Next
  <2>4. CASE ~MustDrain(t)
    <3>1. h' = [h EXCEPT ![t] = "exclusive"]
      BY <1>5, <1>h, <2>4, SetHold DEF UpgradeFirst, DrainOrHold
    <3>2. \A u \in Threads \ {t} : lockmode[u] = 0
      BY <2>4 DEF MustDrain, ControlAgrees, Holding
    <3>3. Abstract!RequestGranted(t)
      BY <1>h, <2>1, <2>2, <3>1, <3>2 DEF Abstract!RequestGranted
    <3>4. QED
      BY <3>3 DEF Abstract!Next
  <2>5. QED
    BY <2>3, <2>4
<1>6. ASSUME NEW t \in Threads, UpgradeLater(t)
      PROVE  [Abstract!Next]_(Abstract!vars)
  <2>1. Upgraders' = Upgraders \cup {t}
    BY <1>6 DEF UpgradeLater, Upgraders
  <2>2. lockmode[t] = 1
    BY <1>6 DEF UpgradeLater, ControlAgrees, Holding
  <2>3. h' = [h EXCEPT ![t] = "none"]
    BY <1>6, <1>h, SetHold DEF UpgradeLater
  <2>4. Abstract!Request(t)
    BY <1>h, <2>1, <2>2, <2>3 DEF Abstract!Request
  <2>5. QED
    BY <2>4 DEF Abstract!Next
<1>7. ASSUME NEW t \in Threads, NEW next \in {"reading", "leaving"},
             DowngradeLast(t, next) \/ DowngradeToNext(t, next)
      PROVE  [Abstract!Next]_(Abstract!vars)
  <2>1. t \in Upgraders /\ Upgraders' = Upgraders \ {t}
    BY <1>7 DEF DowngradeLast, DowngradeToNext, Upgraders
  <2>2. lockmode[t] = 2
    BY <1>7 DEF DowngradeLast, DowngradeToNext, ControlAgrees, Holding
  <2>3. excl = 1 <=> Upgraders = {t}
    BY <1>c, <2>1
  <2>4. h' = [h EXCEPT ![t] = IF Upgraders = {t} THEN "shared" ELSE "none"]
    BY <1>7, <1>h, <2>3, SetHold DEF DowngradeLast, DowngradeToNext
  <2>5. Abstract!Finish(t)
    BY <1>h, <2>1, <2>2, <2>4 DEF Abstract!Finish
  <2>6. QED
    BY <2>5 DEF Abstract!Next
<1>8. ASSUME NEW t \in Threads, Del(t)
      PROVE  [Abstract!Next]_(Abstract!vars)
  <2>1. Upgraders' = Upgraders
    BY <1>8 DEF Del, Upgraders
  <2>2. lockmode[t] = 1
    BY <1>8 DEF Del, ControlAgrees, Holding
  <2>3. h' = [h EXCEPT ![t] = "none"]
    BY <1>8, <1>h, SetHold DEF Del
  <2>4. Abstract!DropShared(t)
    BY <1>h, <2>1, <2>2, <2>3 DEF Abstract!DropShared
  <2>5. QED
    BY <2>4 DEF Abstract!Next
<1>9. CASE UNCHANGED vars
  BY <1>9, <1>s DEF vars, Upgraders
<1>10. ASSUME NEW t \in Threads, Advance(t)
       PROVE  [Abstract!Next]_(Abstract!vars)
  BY <1>10, <1>p, <1>3, <1>4 DEF Advance, Yield, Unpark
<1>11. QED
  BY <1>1, <1>2, <1>5, <1>6, <1>7, <1>8, <1>9, <1>10 DEF Next, Downgrade

\* Every behaviour of the lock is one of the shared/exclusive lock.
THEOREM Refinement == QueuedWaitsForSignal /\ Spec => Abstract!SafeSpec
BY Invariance, AbstractInit, AbstractStep, PTL DEF Spec, Abstract!SafeSpec
===============================================================================
