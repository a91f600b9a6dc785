------------------------------ MODULE WorkerLoop ------------------------------
(***************************************************************************)
(* The worker threads of vanitygen.c (vg_thread_loop, start_threads) as    *)
(* users of the execution-context lock: when a thread asks for a hold,     *)
(* gives it up, waits for it and ends.  The modules that extend this one   *)
(* add what a test of an address does between those steps.  The lock is    *)
(* its abstract specification.  pc[t] is                                   *)
(*   "new"       not in vg_exec_context_init yet                           *)
(*   "loop"      in the loop, between two tests of a batch                 *)
(*   "rekeying"  bound for, or waiting for, the exclusive hold to make a key *)
(*   "rekeyed"   made it, still with the exclusive hold                    *)
(*   "hit"       the address under test matches a pattern                  *)
(*   "waiting"   in vg_exec_context_upgrade_lock for that match            *)
(*   "matched"   has the exclusive hold and a match to report              *)
(*   "out"       the test said 2: in vg_exec_context_del                   *)
(*   "gone"      the thread has ended                                      *)
(***************************************************************************)
EXTENDS Naturals

CONSTANTS Threads,
          MainThread      \* the thread that runs main and start_threads

ASSUME LoopAssumption == MainThread \in Threads

VARIABLES hold, pending,  \* the lock
          exited,         \* the process has ended
          pc

lockvars == <<hold, pending>>
loopvars == <<hold, pending, exited, pc>>

Lock == INSTANCE SharedExclusive

LoopTypeOK ==
  /\ hold \in [Threads -> {"none", "shared", "exclusive"}]
  /\ pending \subseteq Threads
  /\ exited \in BOOLEAN
  /\ pc \in [Threads -> {"new", "loop", "rekeying", "rekeyed", "hit", "waiting",
                         "matched", "out", "gone"}]

\* start_threads, for the threads of -t.
LoopInit(started) == /\ Lock!Init
                     /\ exited = FALSE
                     /\ pc = [t \in Threads |-> IF t \in started THEN "new" ELSE "gone"]

Go(t, to) == pc' = [pc EXCEPT ![t] = to]

Join(t) == /\ pc[t] = "new"
           /\ Lock!GetShared(t)
           /\ Go(t, "rekeying")
           /\ UNCHANGED exited

\* The loop makes a new key at the start, after a match and every so many points:
\* it upgrades for it and downgrades at once.
StartRekey(t) == /\ pc[t] = "loop"
                 /\ hold[t] = "shared"
                 /\ Go(t, "rekeying")
                 /\ UNCHANGED <<lockvars, exited>>

RekeyRequest(t) == /\ pc[t] = "rekeying"
                   /\ Lock!Request(t)
                   /\ UNCHANGED <<exited, pc>>

Rekey(t) == /\ pc[t] = "rekeying"
            /\ Lock!Grant(t)
            /\ Go(t, "rekeyed")
            /\ UNCHANGED exited

\* A test found a match. vg_exec_context_upgrade_lock returns 0 at once to a
\* thread that has the exclusive hold from an earlier match of the batch.
Upgrade(t) ==
  /\ pc[t] = "hit"
  /\ \/ hold[t] = "shared" /\ Lock!Request(t) /\ Go(t, "waiting")
     \/ hold[t] = "exclusive" /\ Go(t, "matched") /\ UNCHANGED lockvars
  /\ UNCHANGED exited

\* vg_exec_context_downgrade_lock: after the new key, at the yield that follows a
\* match, or in vg_exec_context_del.
Downgrade(t) == /\ pc[t] \in {"loop", "out", "rekeying", "rekeyed"}
                /\ Lock!Finish(t)
                /\ Go(t, IF pc[t] = "rekeyed" THEN "loop" ELSE pc[t])
                /\ UNCHANGED exited

\* vg_exec_context_yield gives the shared hold up to a pending upgrade.
Yield_Deaf(t) == FALSE                                             \* mutant

Yield(t) == /\ pc[t] = "loop"
            /\ pending # {}
            /\ Lock!DropShared(t)
            /\ UNCHANGED <<exited, pc>>

\* Parked in a downgrade or a yield, the thread gets the shared hold again.
Resume(t) == /\ pc[t] \in {"loop", "out", "rekeying"}
             /\ Lock!GetShared(t)
             /\ UNCHANGED <<exited, pc>>

\* The context is deleted. The process ends with the thread of main, which runs
\* the loop itself after it has started the others.
Leave_Alone(t) == /\ pc[t] = "out"                                 \* mutant
                  /\ Lock!DropShared(t)
                  /\ Go(t, "gone")
                  /\ UNCHANGED exited

Leave(t) == /\ pc[t] = "out"
            /\ Lock!DropShared(t)
            /\ Go(t, "gone")
            /\ exited' = (t = MainThread)

\* The steps the loop takes by itself, and those that come back to the lock.
LoopStep(t) == \/ Upgrade(t) \/ RekeyRequest(t) \/ Rekey(t)
               \/ Downgrade(t) \/ Yield(t) \/ Leave(t)

Enter(t) == Join(t) \/ Resume(t)
===============================================================================
