----------------------------- MODULE OclPipeline -----------------------------
(***************************************************************************)
(* The search of one OpenCL device (oclengine.c): the host thread          *)
(* (vg_opencl_loop) prepares rounds of points and checks results, the      *)
(* kernel thread (vg_opencl_thread) runs the kernels.  A mailbox with the  *)
(* number of the slot to run, a mutex and one condition variable join the  *)
(* two; there are two slots, so that the host prepares one round and       *)
(* checks another while the device works.  The device finds prefixes with  *)
(* the target table it was given; the patterns themselves are shared with  *)
(* other devices, which may remove some whenever this one has no hold of   *)
(* the execution-context lock.                                             *)
(*                                                                         *)
(* Points are numbered from the random key of the walk, which is 0: the    *)
(* host's key is point base, base + delta is where it believes the next    *)
(* result to start.  The device computes Round points in a row.            *)
(***************************************************************************)
EXTENDS Integers

CONSTANTS Patterns,
          Round,          \* rows times columns
          RekeyMax,       \* rekey_max
          CaseSensitive,  \* Ethereum without -i: the test may refuse what the
                          \* device takes for a match
          Others,         \* there are other devices
          Faults          \* calls of OpenCL may fail

ASSUME PipelineAssumption ==
  /\ Patterns # {}
  /\ Round \in Nat \ {0} /\ RekeyMax \in Nat /\ RekeyMax > Round + 1
  /\ {CaseSensitive, Others, Faults} \subseteq BOOLEAN

VARIABLES pc,                          \* the host thread
          slot, slot_busy, slot_done, npoints, rekey_at, halt,
          pattern_generation,          \* as the host last saw it
          rewrite,                     \* voc_pattern_rewrite
          base, delta, row,            \* the key, vxc_delta, the first of pprow
          voc_ocl_slot, voc_halt, parked,
          kpc, kslot, khalt,           \* the kernel thread
          live, vc_pattern_generation, vc_halt,
          table,                       \* the target table of the device
          start, found,                \* of each slot: strides and result
          unread                       \* history: results not checked yet

hostvars == <<slot, slot_busy, slot_done, npoints, rekey_at, halt>>
walkvars == <<base, delta, row>>
mailvars == <<voc_ocl_slot, voc_halt, parked>>
kernelvars == <<kpc, kslot, khalt>>
sharedvars == <<live, vc_pattern_generation, vc_halt>>
patternvars == <<pattern_generation, rewrite, table>>
slotvars == <<start, found, unread>>
vars == <<pc, hostvars, walkvars, mailvars, kernelvars, sharedvars, patternvars, slotvars>>

Slots == {0, 1}
Other(s) == 1 - s
\* A result: the cell of the round, the point it is, and the pattern of its range.
Results == [cell : 0..Round - 1, at : 0..RekeyMax + Round, pattern : Patterns]
NoMatch == [cell |-> -1]

Init == /\ pc = "rekey"
        /\ slot = 0 /\ slot_busy = FALSE /\ slot_done = FALSE /\ halt = FALSE
        /\ npoints = 0 /\ rekey_at = 0
        /\ pattern_generation = 0 /\ rewrite = TRUE /\ table = {}
        /\ base = 0 /\ delta = 0 /\ row = 0
        /\ voc_ocl_slot = -1 /\ voc_halt = FALSE /\ parked = {}
        /\ kpc = "top" /\ kslot = -1 /\ khalt = FALSE
        /\ live = Patterns /\ vc_pattern_generation = 0 /\ vc_halt = FALSE
        /\ start = [s \in Slots |-> 0]
        /\ found = [s \in Slots |-> NoMatch]
        /\ unread = [s \in Slots |-> FALSE]

\* pthread_cond_signal wakes one thread that waits.
Signal == \/ parked = {} /\ UNCHANGED parked
          \/ \E w \in parked : parked' = parked \ {w}

HostGo(to) == pc' = to

-------------------------------------------------------------------------------
(* vg_opencl_loop *)

\* vg_ocl_prefix_rekey: results are cleared, and the ranges loaded if they changed.
ClearFound == found' = [s \in Slots |-> NoMatch]

Upload == /\ pc = "rekey"
          /\ ClearFound
          /\ \/ /\ ~rewrite
                /\ HostGo("upgrade")
                /\ UNCHANGED <<table, rewrite>>
             \/ /\ rewrite /\ live # {}
                /\ table' = live /\ rewrite' = FALSE
                /\ HostGo("upgrade")
             \/ /\ rewrite /\ live = {}
                /\ HostGo("end")
                /\ UNCHANGED <<table, rewrite>>
          /\ UNCHANGED <<hostvars, walkvars, mailvars, kernelvars, sharedvars,
                         pattern_generation, start, unread>>

\* A new key, under the exclusive hold, and the points and strides made from it. Keys
\* so near to the order that not one round fits are left out.
NewKey == /\ pc = "upgrade"
          /\ HostGo("top")
          /\ pattern_generation' = vc_pattern_generation
          /\ \E at \in Round + 2..RekeyMax : rekey_at' = at
          /\ base' = 0 /\ delta' = 1 /\ row' = 1
          /\ npoints' = 1
          /\ slot' = 0 /\ slot_busy' = FALSE /\ slot_done' = FALSE
          /\ unread' = [s \in Slots |-> FALSE]
          /\ UNCHANGED <<halt, mailvars, kernelvars, sharedvars, rewrite, table, start, found>>

\* vg_ocl_prefix_check when the device reports nothing.
CheckNothing ==
  /\ found[slot] = NoMatch
  /\ delta' = delta + Round
  /\ UNCHANGED <<base, rekey_at, halt, live, vc_pattern_generation>>

\* The host computes the address of the cell anew, and the private key with it; a
\* hash that is not the device's is not tested.
HostPoint == base + delta + found[slot].cell

SamePoint == HostPoint = found[slot].at

Refused == \/ ~SamePoint
           \/ found[slot].pattern \notin live
           \/ CaseSensitive

\* The result is not tested, or vc_test says 0: in a case-sensitive search that is
\* silently passed over, in any other the key is reported as "N/A" and the search goes
\* on with a new one. When no pattern is left vc_test says 2.
CheckRefused ==
  /\ found[slot] # NoMatch
  /\ Refused
  /\ base' = HostPoint
  /\ delta' = 0
  /\ halt' = (SamePoint /\ live = {})
  /\ rekey_at' = IF halt' \/ CaseSensitive THEN rekey_at ELSE 0
  /\ UNCHANGED <<live, vc_pattern_generation>>

\* vc_test reports the match and removes the pattern, or keeps it (-k), or it was the
\* one match asked for (-1).
CheckMatch ==
  /\ found[slot] # NoMatch
  /\ SamePoint
  /\ found[slot].pattern \in live
  /\ base' = HostPoint
  /\ delta' = 0
  /\ \/ /\ live' = live \ {found[slot].pattern}
        /\ vc_pattern_generation' = vc_pattern_generation + 1
        /\ halt' = (live' = {})
     \/ halt' \in BOOLEAN /\ UNCHANGED <<live, vc_pattern_generation>>
  /\ rekey_at' = IF halt' THEN rekey_at ELSE 0

\* The result cannot be mapped: the search halts.
CheckFails == /\ Faults
              /\ halt' = TRUE
              /\ UNCHANGED <<base, delta, rekey_at, live, vc_pattern_generation>>

Check == /\ pc = "top"
         /\ slot_done
         /\ slot_done' = FALSE
         /\ CheckNothing \/ CheckRefused \/ CheckMatch \/ CheckFails
         /\ unread' = [unread EXCEPT ![slot] = FALSE]
         /\ HostGo("yield")
         /\ UNCHANGED <<slot, slot_busy, npoints, row, mailvars, kernelvars, vc_halt,
                        patternvars, start, found>>

\* After vg_exec_context_yield changed patterns are noticed.
Yielded == /\ pc = "yield"
           /\ HostGo("go")
           /\ IF pattern_generation # vc_pattern_generation
              THEN rewrite' = TRUE /\ rekey_at' = 0
              ELSE UNCHANGED <<rewrite, rekey_at>>
           /\ UNCHANGED <<slot, slot_busy, slot_done, npoints, halt, walkvars, mailvars,
                          kernelvars, sharedvars, pattern_generation, table, slotvars>>

NothingDone == /\ pc = "top"
               /\ ~slot_done
               /\ HostGo("go")
               /\ UNCHANGED <<hostvars, walkvars, mailvars, kernelvars, sharedvars,
                              patternvars, slotvars>>

RoundLeft == npoints + Round < rekey_at

Halting == /\ pc = "go"
           /\ halt \/ vc_halt
           /\ halt' = TRUE
           /\ HostGo("end")
           /\ UNCHANGED <<slot, slot_busy, slot_done, npoints, rekey_at, walkvars, mailvars,
                          kernelvars, sharedvars, patternvars, slotvars>>

\* The strides of the next round go to its slot.
Strides_Still == row' = row                                        \* mutant

Strides == row' = IF npoints > 1 THEN row + Round ELSE row

Prepare == /\ pc = "go"
           /\ ~halt /\ ~vc_halt /\ RoundLeft
           /\ Strides
           /\ start' = [start EXCEPT ![slot] = row']
           /\ npoints' = npoints + Round
           /\ HostGo("submit")
           /\ UNCHANGED <<slot, slot_busy, slot_done, rekey_at, halt, base, delta, mailvars,
                          kernelvars, sharedvars, patternvars, found, unread>>

\* A buffer for the table, the points or the strides cannot be mapped: the loop ends,
\* but not as it does when it halts. What was made for the round is not used again.
HostFails == /\ Faults
             /\ \/ pc \in {"rekey", "upgrade"}
                \/ pc = "go" /\ ~halt /\ ~vc_halt /\ RoundLeft
             /\ HostGo("end")
             /\ UNCHANGED <<hostvars, walkvars, mailvars, kernelvars, sharedvars,
                            patternvars, slotvars>>

\* pthread_cond_wait in a loop, until the mailbox is empty.
Park == /\ pc \in {"submit", "drain", "stopping"}
        /\ voc_ocl_slot # -1
        /\ parked' = parked \cup {"host"}
        /\ UNCHANGED <<pc, hostvars, walkvars, voc_ocl_slot, voc_halt, kernelvars, sharedvars,
                       patternvars, slotvars>>

NextSlot_Same == slot' = slot                                      \* mutant

NextSlot == slot' = Other(slot)

\* The kernel thread is told of the slot.
WakeForSlot == Signal

Submit == /\ pc = "submit"
          /\ "host" \notin parked /\ voc_ocl_slot = -1
          /\ \/ /\ voc_halt
                /\ halt' = TRUE
                /\ HostGo("end")
                /\ UNCHANGED <<slot, slot_busy, slot_done, mailvars>>
             \/ /\ ~voc_halt
                /\ voc_ocl_slot' = slot
                /\ WakeForSlot
                /\ slot_done' = slot_busy
                /\ slot_busy' = TRUE
                /\ NextSlot
                /\ HostGo("top")
                /\ UNCHANGED <<voc_halt, halt>>
          /\ UNCHANGED <<npoints, rekey_at, walkvars, kernelvars, sharedvars, patternvars,
                         slotvars>>

\* The key is used up, or a new one is wanted: first the slot that runs must end.
Exhausted == /\ pc = "go"
             /\ ~halt /\ ~vc_halt /\ ~RoundLeft
             /\ HostGo(IF slot_busy THEN "drain" ELSE "rekey")
             /\ UNCHANGED <<hostvars, walkvars, mailvars, kernelvars, sharedvars,
                            patternvars, slotvars>>

MailboxEmpty_Any == TRUE                                           \* mutant

MailboxEmpty == voc_ocl_slot = -1

Drained == /\ pc = "drain"
           /\ "host" \notin parked /\ MailboxEmpty
           /\ slot_busy' = FALSE
           /\ slot_done' = TRUE
           /\ HostGo(IF rekey_at = 0 THEN "rekey" ELSE "top")
           /\ UNCHANGED <<slot, npoints, rekey_at, halt, walkvars, mailvars, kernelvars,
                          sharedvars, patternvars, slotvars>>

\* The loop has ended. When it halts it stops the kernel thread and waits for it.
WakeKernel_Not == UNCHANGED parked                                 \* mutant

WakeKernel == Signal

StopKernel == /\ pc = "end"
              /\ halt
              /\ voc_halt' = TRUE
              /\ WakeKernel
              /\ HostGo("stopping")
              /\ UNCHANGED <<hostvars, walkvars, voc_ocl_slot, kernelvars, sharedvars,
                             patternvars, slotvars>>

Stopped == /\ pc = "stopping"
           /\ "host" \notin parked /\ voc_ocl_slot = -1
           /\ slot_busy' = FALSE
           /\ HostGo("join")
           /\ UNCHANGED <<slot, slot_done, npoints, rekey_at, halt, walkvars, mailvars,
                          kernelvars, sharedvars, patternvars, slotvars>>

\* The thread ends, after it has released its buffers and reset the mailbox.
Leave == /\ \/ pc = "join" /\ kpc = "out"
            \/ pc = "end" /\ ~halt
         /\ HostGo("gone")
         /\ voc_halt' = FALSE
         /\ voc_ocl_slot' = -1
         /\ UNCHANGED <<hostvars, walkvars, parked, kernelvars, sharedvars, patternvars,
                        slotvars>>

HostStep == \/ Upload \/ NewKey \/ Check \/ Yielded \/ NothingDone \/ Halting \/ Prepare
            \/ Park \/ Submit \/ Exhausted \/ Drained \/ StopKernel \/ Stopped \/ Leave

-------------------------------------------------------------------------------
(* vg_opencl_thread *)

\* With the mutex: the slot that ran is given back and a new one taken, or the thread
\* waits for one, or ends.
KernelTop ==
  /\ kpc = "top"
  /\ "kernel" \notin parked
  /\ voc_halt' = (voc_halt \/ khalt)
  /\ khalt' = FALSE
  /\ LET mail == IF kslot # -1 THEN -1 ELSE voc_ocl_slot
         woken == IF kslot # -1 THEN parked \ {"host"} ELSE parked
     IN  /\ voc_ocl_slot' = mail
         /\ kslot' = mail
         /\ kpc' = IF mail # -1 THEN "run" ELSE IF voc_halt' THEN "out" ELSE "top"
         /\ parked' = IF kpc' = "top" THEN woken \cup {"kernel"} ELSE woken
  /\ UNCHANGED <<pc, hostvars, walkvars, sharedvars, patternvars, slotvars>>

\* The kernels run: the device looks up the table for each point of the round, and
\* writes a result only if there is one.
Compute == /\ kpc = "run"
           /\ kpc' = "top"
           /\ \/ UNCHANGED found
              \/ \E c \in 0..Round - 1, p \in table :
                   found' = [found EXCEPT ![kslot] = [cell |-> c, at |-> start[kslot] + c,
                                                           pattern |-> p]]
           /\ unread' = [unread EXCEPT ![kslot] = TRUE]
           /\ UNCHANGED <<pc, hostvars, walkvars, mailvars, kslot, khalt, sharedvars,
                          patternvars, start>>

\* An OpenCL call of vg_ocl_kernel_start or vg_ocl_kernel_wait fails.
ComputeFails == /\ Faults
                /\ kpc = "run"
                /\ kpc' = "top"
                /\ khalt' = TRUE
                /\ UNCHANGED <<pc, hostvars, walkvars, mailvars, kslot, sharedvars,
                               patternvars, slotvars>>

KernelStep == KernelTop \/ Compute \/ ComputeFails

-------------------------------------------------------------------------------

\* The host gives its hold up in calls of the lock: for a new key, after a check, and
\* in vc_test before a match is reported.
GivesHoldUp == \/ pc \in {"upgrade", "yield"}
               \/ /\ pc = "top" /\ slot_done
                  /\ found[slot] # NoMatch /\ SamePoint
                  /\ found[slot].pattern \in live

\* Another device removes a pattern; it needs the exclusive hold to.
OthersRemove == /\ Others
                /\ GivesHoldUp
                /\ \E p \in live : live' = live \ {p}
                /\ vc_pattern_generation' = vc_pattern_generation + 1
                /\ UNCHANGED <<pc, hostvars, walkvars, mailvars, kernelvars, vc_halt,
                               patternvars, slotvars>>

\* vg_context_stop_threads, or the bounty miner's vc_output_match.
SetHalt == /\ ~vc_halt
           /\ vc_halt' = TRUE
           /\ UNCHANGED <<pc, hostvars, walkvars, mailvars, kernelvars, live,
                          vc_pattern_generation, patternvars, slotvars>>

Next == \/ HostStep \/ HostFails \/ KernelStep \/ OthersRemove \/ SetHalt
        \/ pc = "gone" /\ UNCHANGED vars

Spec == Init /\ [][Next]_vars

(* Both threads are scheduled, and the device finishes what it computes. *)
FairSpec == Spec /\ WF_vars(HostStep) /\ WF_vars(KernelStep)

-------------------------------------------------------------------------------
(* Properties *)

TypeOK ==
  /\ pc \in {"rekey", "upgrade", "top", "yield", "go", "submit", "drain", "end",
             "stopping", "join", "gone"}
  /\ slot \in Slots /\ {slot_busy, slot_done, halt, rewrite} \subseteq BOOLEAN
  /\ npoints \in 0..RekeyMax /\ rekey_at \in 0..RekeyMax
  /\ base \in Nat /\ delta \in Nat /\ row \in 0..RekeyMax
  /\ voc_ocl_slot \in Slots \cup {-1} /\ {voc_halt, khalt, vc_halt} \subseteq BOOLEAN
  /\ parked \subseteq {"host", "kernel"}
  /\ kpc \in {"top", "run", "out"} /\ kslot \in Slots \cup {-1}
  /\ live \subseteq Patterns /\ table \subseteq Patterns
  /\ {pattern_generation, vc_pattern_generation} \subseteq Nat
  /\ start \in [Slots -> 0..RekeyMax] /\ unread \in [Slots -> BOOLEAN]
  /\ found \in [Slots -> Results \cup {NoMatch}]

\* The assertions of the two loops about the mailbox, while the host thread is there.
AssertionsHold ==
  /\ pc \in {"submit", "stopping"} /\ voc_ocl_slot # -1 => slot_busy
  /\ pc = "drain" /\ voc_ocl_slot # -1 => voc_ocl_slot = Other(slot)
  /\ pc = "top" /\ slot_done => rekey_at > 0
  /\ pc # "gone" /\ kpc = "top" /\ kslot # -1 => voc_ocl_slot = kslot

\* What the kernels read is not written while they run: the table, the points and
\* results that a new key resets, and the strides of the slot. A host that halts
\* releases it after the kernel thread has ended.
BuffersQuiet == kpc = "run" => /\ pc \notin {"rekey", "upgrade"}
                               /\ pc = "go" => slot # kslot
                               /\ pc = "gone" => ~halt

\* The two threads do not wait for each other.
NotBothParked == parked # {"host", "kernel"}

\* The host knows at which point a result it has not checked yet starts.
HostInStep == pc = "top" /\ slot_done /\ unread[slot] => base + delta = start[slot]

\* What the host takes for the result of a round is one: not one that an earlier round
\* left in the slot.
ResultOfRound == pc = "top" /\ slot_done /\ unread[slot] /\ found[slot] # NoMatch
                   => found[slot].at = start[slot] + found[slot].cell

\* A host thread that is told to halt, or whose kernel thread has given up, ends.
HaltEnds == vc_halt \/ kpc = "out" ~> pc = "gone"

\* What the host reads of a round is that round's, taken for the right point.
ResultRight == TypeOK /\ HostInStep /\ ResultOfRound

\* The mailbox is used as the assertions of both loops say, and the two threads do not wait
\* for each other.
MailboxKept == AssertionsHold /\ NotBothParked
===============================================================================
