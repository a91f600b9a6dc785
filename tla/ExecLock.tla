------------------------------- MODULE ExecLock -------------------------------
(***************************************************************************)
(* The execution-context lock of pattern.c (vg_exec_context_init, _del,    *)
(* _upgrade_lock, _downgrade_lock, _yield): one global mutex, three global *)
(* condition variables and, in each registered context, a lock mode (0:    *)
(* none, 1: shared, 2: exclusive) and a flag asking the thread to stop.    *)
(*                                                                         *)
(* Every field but the thread's own flag is touched under the mutex only,  *)
(* so what a thread does between taking the mutex and releasing it (at the *)
(* end of a call or in pthread_cond_wait) is one action.  pc[t] says where *)
(* thread t is between such actions:                                       *)
(*   "out"       its context is not registered                             *)
(*   "reading"   runs with a shared hold, in no call                       *)
(*   "yielding"  saw its stop flag without the mutex, now wants the mutex  *)
(*   "draining"  first upgrader, in pthread_cond_wait(vg_thread_upcond)    *)
(*   "queued"    later upgrader, in pthread_cond_wait(vg_thread_wrcond)    *)
(*   "writing"   runs with the exclusive hold, in no call                  *)
(*   "parked"    in pthread_cond_wait(vg_thread_rdcond)                    *)
(*   "leaving"   in vg_exec_context_del, after its downgrade               *)
(***************************************************************************)
EXTENDS Naturals, FiniteSets

CONSTANTS Threads,   \* contexts that may register
          Spurious   \* waits that may return without a signal: a set of
                     \* values of pc ("draining", "queued", "parked")

Waits == {"draining", "queued", "parked"}

ASSUME LockAssumption == IsFiniteSet(Threads) /\ Spurious \subseteq Waits

VARIABLES registered,  \* vc_threads: the contexts on the list
          lockmode,    \* vxc_lockmode
          stop,        \* vxc_stop
          excl,        \* vc_thread_excl
          pc,
          resume,      \* where a parked thread goes on: "reading" or "leaving"
          woken        \* waiting threads that a signal has released

vars == <<registered, lockmode, stop, excl, pc, resume, woken>>

Init == /\ registered = {}
        /\ lockmode = [t \in Threads |-> 0]
        /\ stop = [t \in Threads |-> FALSE]
        /\ excl = 0
        /\ pc = [t \in Threads |-> "out"]
        /\ resume = [t \in Threads |-> "reading"]
        /\ woken = {}

-------------------------------------------------------------------------------
(* Condition variables *)

\* The threads pthread_cond_wait holds back on the condition of wait c.
Waiting(c) == {u \in Threads : pc[u] = c /\ u \notin woken}

\* pthread_cond_signal: what woken, now w, may become. One waiter of c is
\* released, if there is one.
Signal(c, w) == IF Waiting(c) = {} THEN {w} ELSE {w \cup {u} : u \in Waiting(c)}

\* The signal a thread gives the draining upgrader as it clears its stop flag.
SignalIfStopped(t, w) == IF stop[t] THEN Signal("draining", w) ELSE {w}

\* pthread_cond_broadcast(vg_thread_rdcond)
Broadcast(w) == {w \cup Waiting("parked")}

-------------------------------------------------------------------------------
(* __vg_exec_context_yield, mutex held, with the present value of excl:    *)
(* take the shared hold unless an upgrade is pending, else clear the stop  *)
(* flag and wait. It ends at next.                                         *)

ParkOr(t, next) ==
  /\ UNCHANGED <<registered, excl>>
  /\ resume' = [resume EXCEPT ![t] = next]
  /\ \/ /\ excl = 0
        /\ lockmode' = [lockmode EXCEPT ![t] = 1]
        /\ pc' = [pc EXCEPT ![t] = next]
        /\ woken' = woken \ {t}
        /\ UNCHANGED stop
     \/ /\ excl > 0
        /\ lockmode' = [lockmode EXCEPT ![t] = 0]
        /\ stop' = [stop EXCEPT ![t] = FALSE]
        /\ woken' \in SignalIfStopped(t, woken \ {t})
        /\ pc' = [pc EXCEPT ![t] = "parked"]

\* vg_exec_context_init: register the context, then wait for a shared hold.
Register_NoWait(t) ==                                              \* mutant
  /\ pc[t] = "out"
  /\ registered' = registered \cup {t}
  /\ lockmode' = [lockmode EXCEPT ![t] = 1]
  /\ stop' = [stop EXCEPT ![t] = FALSE]
  /\ pc' = [pc EXCEPT ![t] = "reading"]
  /\ UNCHANGED <<excl, resume, woken>>

Register(t) ==
  /\ pc[t] = "out"
  /\ registered' = registered \cup {t}
  /\ stop' = [stop EXCEPT ![t] = FALSE]
  /\ lockmode' = [lockmode EXCEPT ![t] = IF excl = 0 THEN 1 ELSE 0]
  /\ pc' = [pc EXCEPT ![t] = IF excl = 0 THEN "reading" ELSE "parked"]
  /\ resume' = [resume EXCEPT ![t] = "reading"]
  /\ UNCHANGED <<excl, woken>>

\* vg_exec_context_yield reads the stop flag without the mutex ...
SeeStop(t) ==
  /\ pc[t] = "reading"
  /\ stop[t]
  /\ pc' = [pc EXCEPT ![t] = "yielding"]
  /\ UNCHANGED <<registered, lockmode, stop, excl, resume, woken>>

\* ... and yields with it.
Yield(t) == pc[t] = "yielding" /\ ParkOr(t, "reading")

\* A thread parked on vg_thread_rdcond has the mutex again.
Unpark(t) == pc[t] = "parked" /\ t \in woken /\ ParkOr(t, resume[t])

-------------------------------------------------------------------------------
(* vg_exec_context_upgrade_lock *)

\* Other threads hold the lock: the first upgrader has to wait.
MustDrain_Never(t) == FALSE                                        \* mutant

MustDrain(t) == \E u \in registered \ {t} : lockmode[u] # 0

\* The first upgrader asks every holder to stop.
StopHolders_None(t) == stop                                        \* mutant

StopHolders(t) ==
  [u \in Threads |-> stop[u] \/ (u \in registered \ {t} /\ lockmode[u] # 0)]

\* The upgrader has the lock or waits on vg_thread_upcond.
DrainOrHold(t) ==
  /\ lockmode' = [lockmode EXCEPT ![t] = IF MustDrain(t) THEN 0 ELSE 2]
  /\ pc' = [pc EXCEPT ![t] = IF MustDrain(t) THEN "draining" ELSE "writing"]
  /\ woken' = woken \ {t}

UpgradeFirst(t) ==
  /\ pc[t] = "reading"
  /\ excl = 0
  /\ excl' = 1
  /\ stop' = StopHolders(t)
  /\ DrainOrHold(t)
  /\ UNCHANGED <<registered, resume>>

UpgradeLater_KeepStop(t) ==                                        \* mutant
  /\ pc[t] = "reading"
  /\ excl > 0
  /\ excl' = excl + 1
  /\ lockmode' = [lockmode EXCEPT ![t] = 0]
  /\ woken' \in Signal("draining", woken)
  /\ pc' = [pc EXCEPT ![t] = "queued"]
  /\ UNCHANGED <<registered, stop, resume>>

UpgradeLater(t) ==
  /\ pc[t] = "reading"
  /\ excl > 0
  /\ excl' = excl + 1
  /\ lockmode' = [lockmode EXCEPT ![t] = 0]
  /\ stop' = [stop EXCEPT ![t] = FALSE]
  /\ woken' \in Signal("draining", woken)
  /\ pc' = [pc EXCEPT ![t] = "queued"]
  /\ UNCHANGED <<registered, resume>>

\* The first upgrader has the mutex again and looks at the holders again.
Drained(t) ==
  /\ pc[t] = "draining"
  /\ t \in woken
  /\ DrainOrHold(t)
  /\ UNCHANGED <<registered, stop, excl, resume>>

\* A later upgrader has the mutex again: it takes the lock without looking.
Dequeued(t) ==
  /\ pc[t] = "queued"
  /\ t \in woken
  /\ lockmode' = [lockmode EXCEPT ![t] = 2]
  /\ pc' = [pc EXCEPT ![t] = "writing"]
  /\ woken' = woken \ {t}
  /\ UNCHANGED <<registered, stop, excl, resume>>

-------------------------------------------------------------------------------
(* vg_exec_context_downgrade_lock, called by itself and by _yield (next is *)
(* "reading"), and by _del (next is "leaving").                            *)

DowngradeLast(t, next) ==
  /\ pc[t] = "writing"
  /\ excl = 1
  /\ excl' = 0
  /\ lockmode' = [lockmode EXCEPT ![t] = 1]
  /\ woken' \in Broadcast(woken)
  /\ pc' = [pc EXCEPT ![t] = next]
  /\ UNCHANGED <<registered, stop, resume>>

\* Upgraders are queued: one is released, and this thread parks.
DowngradeToNext_Keep(t, next) ==                                   \* mutant
  /\ pc[t] = "writing"
  /\ excl > 1
  /\ excl' = excl - 1
  /\ lockmode' = [lockmode EXCEPT ![t] = 1]
  /\ woken' \in Signal("queued", woken)
  /\ pc' = [pc EXCEPT ![t] = next]
  /\ UNCHANGED <<registered, stop, resume>>

DowngradeToNext(t, next) ==
  /\ pc[t] = "writing"
  /\ excl > 1
  /\ excl' = excl - 1
  /\ lockmode' = [lockmode EXCEPT ![t] = 0]
  /\ woken' \in Signal("queued", woken)
  /\ pc' = [pc EXCEPT ![t] = "parked"]
  /\ resume' = [resume EXCEPT ![t] = next]
  /\ UNCHANGED <<registered, stop>>

Downgrade(t) == \E next \in {"reading", "leaving"} :
                  DowngradeLast(t, next) \/ DowngradeToNext(t, next)

\* vg_exec_context_del: the context leaves the list; a draining upgrader that
\* waits for this thread is signalled.
Del(t) ==
  /\ pc[t] \in {"reading", "leaving"}
  /\ lockmode' = [lockmode EXCEPT ![t] = 0]
  /\ registered' = registered \ {t}
  /\ woken' \in SignalIfStopped(t, woken)
  /\ pc' = [pc EXCEPT ![t] = "out"]
  /\ UNCHANGED <<stop, excl, resume>>

\* POSIX lets pthread_cond_wait return without a signal.
SpuriousWakeup(t) ==
  /\ pc[t] \in Spurious
  /\ t \notin woken
  /\ woken' = woken \cup {t}
  /\ UNCHANGED <<registered, lockmode, stop, excl, pc, resume>>

-------------------------------------------------------------------------------

\* The steps of a thread that is inside a call.
Advance(t) == Yield(t) \/ Unpark(t) \/ Drained(t) \/ Dequeued(t)

Next == \E t \in Threads : \/ Register(t)
                           \/ SeeStop(t)
                           \/ Advance(t)
                           \/ UpgradeFirst(t)
                           \/ UpgradeLater(t)
                           \/ Downgrade(t)
                           \/ Del(t)
                           \/ SpuriousWakeup(t)

Spec == Init /\ [][Next]_vars

(* Every worker loop yields after each batch of points, downgrades when it *)
(* is done with the exclusive hold, and a thread in a call goes on. Nobody *)
(* has to register, upgrade or leave.                                      *)
Fairness == \A t \in Threads : /\ WF_vars(SeeStop(t))
                               /\ WF_vars(Advance(t))
                               /\ WF_vars(Downgrade(t))
                               /\ WF_vars(pc[t] = "leaving" /\ Del(t))

FairSpec == Spec /\ Fairness
-------------------------------------------------------------------------------
(* Properties *)

\* The threads counted by vc_thread_excl.
Upgraders == {t \in Threads : pc[t] \in {"draining", "queued", "writing"}}

\* The upgrader whose turn it is: it drains the holders, has been released from
\* the queue, or has the lock.
InTurn(t) == \/ pc[t] \in {"draining", "writing"}
             \/ pc[t] = "queued" /\ t \in woken

TypeOK ==
  /\ registered \subseteq Threads
  /\ lockmode \in [Threads -> {0, 1, 2}]
  /\ stop \in [Threads -> BOOLEAN]
  /\ excl \in Nat
  /\ pc \in [Threads -> {"out", "reading", "yielding", "writing", "leaving"} \cup Waits]
  /\ resume \in [Threads -> {"reading", "leaving"}]
  /\ woken \subseteq Threads

\* A thread with the exclusive hold is the only one with a hold: nobody tests a
\* pattern or steps a key while another thread changes the patterns.
WriterExcludes ==
  \A t, u \in Threads : t # u /\ lockmode[t] = 2 => lockmode[u] = 0

\* The assertions of the five functions hold where they are evaluated, for the
\* context that calls and for the contexts the upgrader looks at.
QueuedWakesAlone ==
  \A t \in Threads : pc[t] = "queued" /\ t \in woken =>
    \A u \in registered : lockmode[u] = 0 /\ ~stop[u]

AssertionsHold ==
  /\ QueuedWakesAlone
  /\ \A t \in Threads :
       /\ pc[t] = "reading" /\ excl > 0 => stop[t]
       /\ pc[t] = "draining" => \A u \in registered : lockmode[u] # 2
       /\ pc[t] = "writing" => ~stop[t]
       /\ pc[t] \in {"parked", "yielding"} /\ excl = 0 => ~stop[t]

\* No wakeup is lost: a thread waits only while some other thread is bound to
\* signal it, the draining upgrader for a holder that was told to stop, a queued
\* upgrader for the upgrader in turn, a parked reader for any upgrader.
NoLostWakeup ==
  /\ \A t \in Waiting("draining") : \E u \in registered : lockmode[u] # 0 /\ stop[u]
  /\ \A t \in Waiting("queued") : \E u \in Threads \ {t} : InTurn(u)
  /\ \A t \in Waiting("parked") : excl > 0

\* Upgraders go first: no thread gains a shared hold while another thread's
\* upgrade is pending, whatever order the released threads get the mutex in.
UpgradersFirst ==
  [][\A t \in Threads : lockmode[t] # 1 /\ lockmode'[t] = 1 => Upgraders' = {}]_vars

\* Every upgrade is granted, though the queue of upgraders is not in order: an
\* upgrader that has had its turn parks until the queue is empty.
UpgraderServed ==
  \A t \in Threads : pc[t] \in {"draining", "queued"} ~> pc[t] = "writing"

\* The lock implements the shared/exclusive lock its callers rely on.
Hold(m) == CASE m = 0 -> "none" [] m = 1 -> "shared" [] m = 2 -> "exclusive"

Abstract == INSTANCE SharedExclusive WITH
              hold <- [t \in Threads |-> Hold(lockmode[t])],
              pending <- Upgraders

ImplementsSharedExclusive == Abstract!Spec
-------------------------------------------------------------------------------
(* The inductive invariant that the safety properties follow from *)

Holding(t) == pc[t] \in {"reading", "yielding", "leaving"}

\* The control point of a thread determines its lock mode and its place on the
\* list, and the counter counts the upgraders.
ControlAgrees ==
  /\ excl = Cardinality(Upgraders)
  /\ woken \subseteq {t \in Threads : pc[t] \in Waits}
  /\ \A t \in Threads :
       /\ t \in registered <=> pc[t] # "out"
       /\ lockmode[t] = IF Holding(t) THEN 1 ELSE IF pc[t] = "writing" THEN 2 ELSE 0

\* While upgrades are pending, exactly one of them is in turn.
OneInTurn ==
  /\ \A t, u \in Threads : InTurn(t) /\ InTurn(u) => t = u
  /\ Upgraders # {} => \E t \in Threads : InTurn(t)

\* The threads told to stop are the holders, and only while one drains.
StopsAgree ==
  \A t \in Threads :
    /\ Holding(t) /\ Upgraders # {} => stop[t]
    /\ t \in registered /\ stop[t] =>
         Holding(t) /\ \E u \in Threads : pc[u] = "draining"

\* Nobody waits for a signal that nobody is going to give.
WaitersAwaited ==
  /\ Waiting("parked") # {} => Upgraders # {}
  /\ Waiting("draining") # {} => \E u \in Threads : Holding(u)

IInv == TypeOK /\ ControlAgrees /\ OneInTurn /\ StopsAgree /\ WaitersAwaited
===============================================================================
