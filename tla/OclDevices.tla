------------------------------ MODULE OclDevices ------------------------------
(***************************************************************************)
(* Several OpenCL devices that search together (oclvanitygen.c with more   *)
(* than one -D): the host threads of oclengine.c as users of the           *)
(* execution-context lock, of the patterns and of their generation count.  *)
(* Each holds the lock's shared hold from the time the device was opened,  *)
(* also while kernels run, and its thread ends without vg_exec_context_del. *)
(* OclPipeline has the inside of one device, a round here is one step.     *)
(***************************************************************************)
EXTENDS Naturals, FiniteSets

CONSTANTS Devices, Patterns,
          TableSearch,    \* prefixes: the device searches in a target table;
                          \* else the host tests all hashes (-r)
          OnlyOne,        \* -1
          Stops           \* the bounty miner stops its threads

DevicesAssumed == /\ {TableSearch, OnlyOne, Stops} \subseteq BOOLEAN
                  /\ Patterns # {} /\ IsFiniteSet(Patterns)

ASSUME DevicesAssumption == DevicesAssumed

VARIABLES hold, pending,               \* the lock
          live, generation,            \* the patterns, vc_pattern_generation from 0
          found,                       \* vc_found
          reports,                     \* history: patterns reported
          vc_halt,
          pc,
          seen,                        \* each device's pattern_generation
          table, rewrite,              \* target table, voc_pattern_rewrite
          rekey_due, halt,             \* rekey_at is 0, the loop is to end
          hit                          \* the pattern under test

lockvars == <<hold, pending>>
poolvars == <<live, generation, found, reports, vc_halt>>
devicevars == <<seen, table, rewrite, rekey_due, halt, hit>>
vars == <<lockvars, poolvars, pc, devicevars>>

Lock == INSTANCE SharedExclusive WITH Threads <- Devices

SomePattern == CHOOSE p \in Patterns : TRUE
SomeDevice == CHOOSE d \in Devices : TRUE

Init == /\ hold = [d \in Devices |-> "shared"]
        /\ pending = {}
        /\ live = Patterns /\ generation = 0
        /\ found = 0
        /\ reports = [p \in Patterns |-> 0]
        /\ vc_halt = FALSE
        /\ pc = [d \in Devices |-> "rekey"]
        /\ seen = [d \in Devices |-> 0]
        /\ table = [d \in Devices |-> {}]
        /\ rewrite = [d \in Devices |-> TRUE]
        /\ rekey_due = [d \in Devices |-> FALSE]
        /\ halt = [d \in Devices |-> FALSE]
        /\ hit = [d \in Devices |-> SomePattern]

Go(d, to) == pc' = [pc EXCEPT ![d] = to]
Set(f, d, v) == [f EXCEPT ![d] = v]

-------------------------------------------------------------------------------

\* l_rekey: with a target table, patterns that have changed are loaded first, and the
\* device ends when there are none.
Reload(d) ==
  /\ pc[d] = "rekey"
  /\ \/ /\ TableSearch /\ rewrite[d] /\ live # {}
        /\ table' = Set(table, d, live)
        /\ rewrite' = Set(rewrite, d, FALSE)
        /\ Go(d, "upgrade")
     \/ /\ TableSearch /\ rewrite[d] /\ live = {}
        /\ Go(d, "end")
        /\ UNCHANGED <<table, rewrite>>
     \/ /\ ~TableSearch \/ ~rewrite[d]
        /\ Go(d, "upgrade")
        /\ UNCHANGED <<table, rewrite>>
  /\ UNCHANGED <<lockvars, poolvars, seen, rekey_due, halt, hit>>

\* vg_exec_context_upgrade_lock, for a new key or for a match.
Request(d) == /\ pc[d] \in {"upgrade", "hit"}
              /\ hold[d] = "shared"
              /\ Lock!Request(d)
              /\ UNCHANGED <<poolvars, pc, devicevars>>

NewKey(d) == /\ pc[d] = "upgrade"
             /\ Lock!Grant(d)
             /\ seen' = Set(seen, d, generation)
             /\ rekey_due' = Set(rekey_due, d, FALSE)
             /\ Go(d, "keyed")
             /\ UNCHANGED <<poolvars, table, rewrite, halt, hit>>

KeyMade(d) == /\ pc[d] = "keyed"
              /\ Lock!Finish(d)
              /\ Go(d, "loop")
              /\ UNCHANGED <<poolvars, devicevars>>

\* A round has been computed, and has no match or one.
Candidates(d) == IF TableSearch THEN table[d] ELSE live

CheckNothing(d) == /\ pc[d] = "check"
                   /\ TableSearch \/ live # {}
                   /\ Go(d, "yield")
                   /\ UNCHANGED <<lockvars, poolvars, devicevars>>

CheckHit(d) == /\ pc[d] = "check"
               /\ \E p \in Candidates(d) \cap live : hit' = Set(hit, d, p)
               /\ Go(d, "hit")
               /\ UNCHANGED <<lockvars, poolvars, seen, table, rewrite, rekey_due, halt>>

\* The test finds no pattern: it says 2 when none is left, and 0 else, of which
\* vg_ocl_prefix_check makes a 1.
Refused(d) == /\ IF live = {} THEN /\ halt' = Set(halt, d, TRUE)
                                   /\ UNCHANGED rekey_due
                 ELSE /\ rekey_due' = Set(rekey_due, d, rekey_due[d] \/ TableSearch)
                      /\ UNCHANGED halt
              /\ Go(d, "yield")
              /\ UNCHANGED <<poolvars, seen, table, rewrite, hit>>

CheckStale(d) == /\ pc[d] = "check"
                 /\ IF TableSearch THEN table[d] \ live # {} ELSE live = {}
                 /\ Refused(d)
                 /\ UNCHANGED lockvars

\* The exclusive hold is there, and so may the pattern be: it is reported.
StillThere_Assumed(d) == TRUE                                      \* mutant

StillThere(d) == hit[d] \in live

Report(d) ==
  /\ found' = found + 1
  /\ reports' = [reports EXCEPT ![hit[d]] = @ + 1]
  /\ IF OnlyOne
     THEN /\ halt' = Set(halt, d, TRUE)
          /\ UNCHANGED <<live, generation, rekey_due>>
     ELSE /\ live' = live \ {hit[d]}
          /\ generation' = generation + 1
          /\ halt' = Set(halt, d, live' = {})
          /\ rekey_due' = Set(rekey_due, d, TRUE)
  /\ Go(d, "yield")
  /\ UNCHANGED <<vc_halt, seen, table, rewrite, hit>>

Settle(d) == /\ pc[d] = "hit"
             /\ Lock!Grant(d)
             /\ IF StillThere(d) THEN Report(d) ELSE Refused(d)

-------------------------------------------------------------------------------
(* vg_exec_context_yield, in the loop and once more at the end of the thread *)

Yielding(d) == pc[d] \in {"yield", "end"}

Downgrade(d) == /\ Yielding(d)
                /\ Lock!Finish(d)
                /\ UNCHANGED <<poolvars, pc, devicevars>>

DropShared_Never(d) == FALSE                                       \* mutant

DropShared(d) == /\ Yielding(d)
                 /\ pending # {}
                 /\ Lock!DropShared(d)
                 /\ UNCHANGED <<poolvars, pc, devicevars>>

\* A parked device gets its shared hold again.
Resume(d) == /\ pc[d] \in {"loop", "yield", "end"}
             /\ Lock!GetShared(d)
             /\ UNCHANGED <<poolvars, pc, devicevars>>

\* After the yield a change of the patterns is noticed.
Changed(d) == TableSearch /\ generation # seen[d]

Yielded(d) ==
  /\ pc[d] = "yield"
  /\ hold[d] = "shared" /\ pending = {}
  /\ rewrite' = Set(rewrite, d, rewrite[d] \/ Changed(d))
  /\ rekey_due' = Set(rekey_due, d, rekey_due[d] \/ Changed(d))
  /\ Go(d, "loop")
  /\ UNCHANGED <<lockvars, poolvars, seen, table, halt, hit>>

\* The loop ends, or goes on: to the next round, or to a new key because one is due or
\* the old one is used up.
Ending(d) == halt[d] \/ vc_halt

GoOn(d) == /\ pc[d] = "loop"
           /\ hold[d] = "shared"
           /\ \/ Ending(d) /\ Go(d, "end")
              \/ ~Ending(d) /\ Go(d, "rekey")
              \/ ~Ending(d) /\ ~rekey_due[d] /\ Go(d, "check")
           /\ UNCHANGED <<lockvars, poolvars, devicevars>>

\* The thread ends with the shared hold: nothing deletes its execution context.
Leave(d) == /\ pc[d] = "end"
            /\ hold[d] = "shared" /\ pending = {}
            /\ Go(d, "gone")
            /\ UNCHANGED <<lockvars, poolvars, devicevars>>

-------------------------------------------------------------------------------

Step(d) == \/ Reload(d) \/ Request(d) \/ NewKey(d) \/ KeyMade(d) \/ Settle(d)
           \/ CheckNothing(d) \/ CheckHit(d) \/ CheckStale(d)
           \/ Downgrade(d) \/ DropShared(d) \/ Resume(d) \/ Yielded(d)
           \/ GoOn(d) \/ Leave(d)

\* vg_context_stop_threads, which then waits for all devices.
StopThreads == /\ Stops /\ ~vc_halt
               /\ vc_halt' = TRUE
               /\ UNCHANGED <<lockvars, live, generation, found, reports, pc, devicevars>>

\* vg_context_wait_for_completion returns.
AllGone == \A d \in Devices : pc[d] = "gone"

Next == (\E d \in Devices : Step(d)) \/ StopThreads \/ (AllGone /\ UNCHANGED vars)

Spec == Init /\ [][Next]_vars

(* A host thread goes on as long as it can, and gets its turn at the lock. *)
FairSpec == Spec /\ \A d \in Devices : WF_vars(Step(d)) /\ SF_vars(Resume(d))

-------------------------------------------------------------------------------
(* Properties *)

TypeOK ==
  /\ hold \in [Devices -> {"none", "shared", "exclusive"}] /\ pending \subseteq Devices
  /\ live \subseteq Patterns /\ generation \in 0..Cardinality(Patterns)
  /\ found \in Nat /\ reports \in [Patterns -> Nat] /\ vc_halt \in BOOLEAN
  /\ pc \in [Devices -> {"rekey", "upgrade", "keyed", "loop", "check", "hit", "yield", "end", "gone"}]
  /\ seen \in [Devices -> Nat] /\ table \in [Devices -> SUBSET Patterns]
  /\ {rewrite, rekey_due, halt} \subseteq [Devices -> BOOLEAN]
  /\ hit \in [Devices -> Patterns]

\* Without -1 a pattern is reported once, whichever devices find it.
FoundOnce == ~OnlyOne => \A p \in Patterns : reports[p] <= 1

(* The promise of a search (PatternSearch): a device looks at most at what the others *)
(* have left, and ends when nothing is, with -1, or when it is told to, which stops it *)
(* whatever there is. The process outlives the search.                                *)
Sees == [d \in Devices |-> IF pc[d] = "hit" THEN {hit[d]} ELSE {}]

Stopped == {d \in Devices : halt[d] \/ pc[d] \in {"end", "gone"}}

Abstract == INSTANCE PatternSearch WITH
  Threads <- Devices, MainThread <- SomeDevice, Items <- Patterns,
  Unfit <- IF Stops THEN Patterns ELSE {},
  kept <- OnlyOne, amount <- 0, once <- OnlyOne, loading <- FALSE, open <- live,
  sees <- Sees, stopped <- Stopped, ended <- FALSE

\* A device that waits for the exclusive hold gets it, as long as no other device
\* has ended.
ServedOrLeft == \A d \in Devices :
  d \in pending ~> hold[d] = "exclusive" \/ \E e \in Devices : pc[e] = "gone"

\* No device drops a match of a pattern that is left, or reports one that is not; none
\* stops before its time, and those that wait are served.
KeepsPromise == Abstract!SafeSpec /\ ServedOrLeft

\* Devices that find a pattern together report it once, and agree on what is left.
ReportsCounted == TypeOK /\ FoundOnce
===============================================================================
