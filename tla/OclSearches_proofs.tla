-------------------------- MODULE OclSearches_proofs --------------------------
(***************************************************************************)
(* Proofs about the search of one OpenCL device, for every size of a round *)
(* and every interval between keys.  PipeInv says who may touch a slot:    *)
(* the mailbox names the slot that runs, which is never the one the host   *)
(* prepares or checks.  StepInv adds where the rounds start: as long as    *)
(* the key is good for another round, the strides of the rounds that wait  *)
(* follow the host's place one after the other.                            *)
(*                                                                         *)
(* Then about several devices, from their start, for any set of devices,   *)
(* patterns and processes.  DevicesInv: a pattern reported is searched for *)
(* no longer, and a device that is to end tests no more.  StartInv: what a *)
(* file lacks, the process that writes it still adds or takes away. Last,  *)
(* the places of numbers in the kernels' memory.                           *)
(***************************************************************************)
EXTENDS OclPipeline, Sequences, FiniteSets, FiniteSetTheorems, TLAPS

\* Between a new key and the next.
Rounds == {"top", "yield", "go", "submit", "drain"}

\* The mailbox has a slot while the host waits for it, and no slot runs that the mailbox
\* does not have.
MailboxInv ==
  /\ pc # "gone" /\ voc_ocl_slot # -1 => slot_busy /\ voc_ocl_slot = Other(slot)
  /\ pc # "gone" /\ kslot # -1 => voc_ocl_slot = kslot
  /\ kpc = "run" => kslot # -1
  /\ kpc = "out" => kslot = -1
  /\ pc \in {"rekey", "upgrade", "join"} => ~slot_busy
  /\ pc = "gone" /\ halt => kpc = "out"

\* Who waits has a reason to, and whoever ends the reason wakes him.
ParkedInv ==
  /\ "host" \in parked => pc \in {"submit", "drain", "stopping"} /\ voc_ocl_slot # -1
  /\ "kernel" \in parked => kpc = "top" /\ voc_ocl_slot = -1

\* The points of the rounds made so far, and the row the last of them started at.
CountInv ==
  /\ pc \in Rounds => npoints >= 1
  /\ npoints = 1 => row = 1
  /\ npoints > 1 => row + Round = npoints
  /\ pc = "submit" => rekey_at > 0 /\ npoints > 1
  /\ pc = "top" /\ slot_done => rekey_at > 0

PipeInv == TypeOK /\ MailboxInv /\ ParkedInv /\ CountInv

-------------------------------------------------------------------------------

\* What the device finds is not refused for its case.
DeviceDecides == ~CaseSensitive

\* The key is good for another round, and the host has not been told to halt.
KeyGood == ~halt /\ rekey_at > 0

\* No round of the key has been submitted yet.
Fresh == /\ npoints = 1
         /\ found = [s \in Slots |-> NoMatch]
         /\ unread = [s \in Slots |-> FALSE]
         /\ row = base + delta

HaltSeen == pc \in {"rekey", "upgrade", "top", "submit", "drain"} => ~halt

\* A result is one of the round its slot was prepared for.
FoundInv == \A s \in Slots : found[s] # NoMatch => found[s].at = start[s] + found[s].cell

\* Of a key that is good: where the host is, and where the rounds start that it has made.
PlaceInv ==
  /\ pc = "upgrade" => found = [s \in Slots |-> NoMatch]
  /\ pc = "drain" => ~RoundLeft
  /\ pc \in {"yield", "go", "submit", "drain"} => ~unread[slot]
  /\ pc = "top" /\ (slot_done => ~slot_busy) => ~unread[slot]
  /\ pc \in {"yield", "go"} /\ KeyGood =>
       IF slot_busy THEN /\ found[slot] = NoMatch /\ npoints > 1
                         /\ row = base + delta /\ start[Other(slot)] = row
                    ELSE RoundLeft => Fresh
  /\ pc = "submit" =>
       /\ found[slot] = NoMatch /\ start[slot] = row
       /\ IF slot_busy THEN start[Other(slot)] = base + delta /\ row = base + delta + Round
                       ELSE /\ row = base + delta
                            /\ found[Other(slot)] = NoMatch /\ ~unread[Other(slot)]
  /\ pc = "top" /\ ~slot_done =>
       IF slot_busy THEN /\ found[slot] = NoMatch /\ npoints > 1
                         /\ row = base + delta /\ start[Other(slot)] = row
                    ELSE Fresh
  /\ pc = "top" /\ slot_done /\ slot_busy =>
       /\ start[slot] = base + delta /\ npoints > 1
       /\ start[Other(slot)] = row /\ row = base + delta + Round
  /\ pc = "top" /\ slot_done /\ ~slot_busy => ~RoundLeft

StepInv == PipeInv /\ HaltSeen /\ FoundInv /\ PlaceInv

-------------------------------------------------------------------------------
(* What every proof below may use: the tuples of variables that stay the same *)

USE DEF HostGo, hostvars, walkvars, mailvars, kernelvars, sharedvars, patternvars, slotvars

-------------------------------------------------------------------------------
(* The mailbox: each step keeps PipeInv *)

LEMMA InitPipe == Init => PipeInv
  <1> SUFFICES ASSUME Init PROVE PipeInv
    OBVIOUS
  <1>1. start \in [Slots -> 0..RekeyMax] /\ unread \in [Slots -> BOOLEAN]
    BY PipelineAssumption DEF Init
  <1>2. found \in [Slots -> Results \cup {NoMatch}]
    BY DEF Init
  <1>3. /\ slot \in Slots /\ voc_ocl_slot \in Slots \cup {-1} /\ kslot \in Slots \cup {-1}
        /\ npoints \in 0..RekeyMax /\ rekey_at \in 0..RekeyMax /\ row \in 0..RekeyMax
    BY PipelineAssumption DEF Init, Slots
  <1>4. /\ {slot_busy, slot_done, halt, rewrite} \subseteq BOOLEAN
        /\ {voc_halt, khalt, vc_halt} \subseteq BOOLEAN
    BY DEF Init
  <1>5. /\ {pattern_generation, vc_pattern_generation} \subseteq Nat
        /\ base \in Nat /\ delta \in Nat
        /\ live \subseteq Patterns /\ table \subseteq Patterns
    BY DEF Init
  <1>6. TypeOK
    BY <1>1, <1>2, <1>3, <1>4, <1>5 DEF Init, TypeOK
  <1>7. MailboxInv /\ ParkedInv /\ CountInv
    BY DEF Init, MailboxInv, ParkedInv, CountInv, Rounds
  <1> QED BY <1>6, <1>7 DEF PipeInv

\* The table is loaded while no slot runs.
LEMMA UploadPipe == ASSUME PipeInv, Upload PROVE PipeInv'
  <1> USE PipelineAssumption DEF PipeInv, Upload, ClearFound
  <1>1. TypeOK'
    BY DEF TypeOK, Slots, Other, Results, NoMatch
  <1>2. MailboxInv'
    BY DEF TypeOK, MailboxInv, ParkedInv, Slots, Other
  <1>3. ParkedInv'
    BY DEF TypeOK, MailboxInv, ParkedInv, Slots
  <1>4. CountInv'
    BY DEF TypeOK, CountInv, Rounds
  <1> QED BY <1>1, <1>2, <1>3, <1>4

\* A new key: the first round is to start at its first point.
LEMMA NewKeyPipe == ASSUME PipeInv, NewKey PROVE PipeInv'
  <1> USE PipelineAssumption DEF PipeInv, NewKey
  <1>1. TypeOK'
    <2>1. rekey_at' \in 0..RekeyMax
      BY DEF TypeOK
    <2>2. npoints' \in 0..RekeyMax /\ row' \in 0..RekeyMax /\ unread' \in [Slots -> BOOLEAN]
      OBVIOUS
    <2> QED BY <2>1, <2>2 DEF TypeOK, Slots
  <1>2. MailboxInv'
    BY DEF TypeOK, MailboxInv, ParkedInv, Slots, Other
  <1>3. ParkedInv'
    BY DEF TypeOK, MailboxInv, ParkedInv, Slots
  <1>4. CountInv'
    BY DEF TypeOK, CountInv, Rounds
  <1> QED BY <1>1, <1>2, <1>3, <1>4

\* A result is looked at; the place moves on, or the key is given up.
LEMMA CheckPipe == ASSUME PipeInv, Check PROVE PipeInv'
  <1> USE PipelineAssumption DEF PipeInv, Check, CheckNothing, CheckRefused, CheckMatch,
                                 CheckFails, HostPoint, SamePoint, Refused
  <1>1. TypeOK'
    <2>1. base' \in Nat /\ delta' \in Nat
      <3>1. found[slot] # NoMatch => found[slot].cell \in Nat
        BY DEF TypeOK, Results
      <3> QED BY <3>1 DEF TypeOK
    <2>2. halt' \in BOOLEAN
      BY DEF TypeOK
    <2>3. rekey_at' = rekey_at \/ rekey_at' = 0
      OBVIOUS
    <2>4. rekey_at' \in 0..RekeyMax
      BY <2>3 DEF TypeOK
    <2>5. live' \subseteq Patterns /\ vc_pattern_generation' \in Nat
      BY DEF TypeOK
    <2>6. unread' \in [Slots -> BOOLEAN]
      BY DEF TypeOK
    <2> QED BY <2>1, <2>2, <2>4, <2>5, <2>6 DEF TypeOK
  <1>2. MailboxInv'
    BY DEF TypeOK, MailboxInv, ParkedInv, Slots, Other
  <1>3. ParkedInv'
    BY DEF TypeOK, MailboxInv, ParkedInv, Slots
  <1>4. CountInv'
    BY DEF TypeOK, CountInv, Rounds
  <1> QED BY <1>1, <1>2, <1>3, <1>4

\* Changed patterns end the key.
LEMMA YieldedPipe == ASSUME PipeInv, Yielded PROVE PipeInv'
  <1> USE PipelineAssumption DEF PipeInv, Yielded
  <1>1. TypeOK'
    <2>1. rewrite' \in BOOLEAN
      BY DEF TypeOK
    <2>2. rekey_at' = rekey_at \/ rekey_at' = 0
      OBVIOUS
    <2>3. rekey_at' \in 0..RekeyMax
      BY <2>2 DEF TypeOK
    <2> QED BY <2>1, <2>3 DEF TypeOK
  <1>2. MailboxInv'
    BY DEF TypeOK, MailboxInv, ParkedInv, Slots, Other
  <1>3. ParkedInv'
    BY DEF TypeOK, MailboxInv, ParkedInv, Slots
  <1>4. CountInv'
    BY DEF TypeOK, CountInv, Rounds
  <1> QED BY <1>1, <1>2, <1>3, <1>4

\* No round has ended yet.
LEMMA NothingDonePipe == ASSUME PipeInv, NothingDone PROVE PipeInv'
  <1> USE PipelineAssumption DEF PipeInv, NothingDone
  <1>1. TypeOK'
    BY DEF TypeOK, Slots, Other, Results, NoMatch
  <1>2. MailboxInv'
    BY DEF TypeOK, MailboxInv, ParkedInv, Slots, Other
  <1>3. ParkedInv'
    BY DEF TypeOK, MailboxInv, ParkedInv, Slots
  <1>4. CountInv'
    BY DEF TypeOK, CountInv, Rounds
  <1> QED BY <1>1, <1>2, <1>3, <1>4

\* The host sees that it is to halt.
LEMMA HaltingPipe == ASSUME PipeInv, Halting PROVE PipeInv'
  <1> USE PipelineAssumption DEF PipeInv, Halting
  <1>1. TypeOK'
    BY DEF TypeOK, Slots, Other, Results, NoMatch
  <1>2. MailboxInv'
    BY DEF TypeOK, MailboxInv, ParkedInv, Slots, Other
  <1>3. ParkedInv'
    BY DEF TypeOK, MailboxInv, ParkedInv, Slots
  <1>4. CountInv'
    BY DEF TypeOK, CountInv, Rounds
  <1> QED BY <1>1, <1>2, <1>3, <1>4

\* The next round follows the last.
LEMMA PreparePipe == ASSUME PipeInv, Prepare PROVE PipeInv'
  <1> USE PipelineAssumption DEF PipeInv, Prepare, Strides, RoundLeft
  <1>1. TypeOK'
    <2>1. npoints' \in 0..RekeyMax /\ row' \in 0..RekeyMax
      BY DEF TypeOK, CountInv, Rounds
    <2>2. start' \in [Slots -> 0..RekeyMax]
      BY <2>1 DEF TypeOK
    <2> QED BY <2>1, <2>2 DEF TypeOK
  <1>2. MailboxInv'
    BY DEF TypeOK, MailboxInv, ParkedInv, Slots, Other
  <1>3. ParkedInv'
    BY DEF TypeOK, MailboxInv, ParkedInv, Slots
  <1>4. CountInv'
    BY DEF TypeOK, CountInv, Rounds
  <1> QED BY <1>1, <1>2, <1>3, <1>4

\* A buffer cannot be mapped.
LEMMA HostFailsPipe == ASSUME PipeInv, HostFails PROVE PipeInv'
  <1> USE PipelineAssumption DEF PipeInv, HostFails, RoundLeft
  <1>1. TypeOK'
    BY DEF TypeOK, Slots, Other, Results, NoMatch
  <1>2. MailboxInv'
    BY DEF TypeOK, MailboxInv, ParkedInv, Slots, Other
  <1>3. ParkedInv'
    BY DEF TypeOK, MailboxInv, ParkedInv, Slots
  <1>4. CountInv'
    BY DEF TypeOK, CountInv, Rounds
  <1> QED BY <1>1, <1>2, <1>3, <1>4

\* The host waits for a slot that runs.
LEMMA ParkPipe == ASSUME PipeInv, Park PROVE PipeInv'
  <1> USE PipelineAssumption DEF PipeInv, Park
  <1>1. TypeOK'
    BY DEF TypeOK, Slots, Other, Results, NoMatch
  <1>2. MailboxInv'
    BY DEF TypeOK, MailboxInv, ParkedInv, Slots, Other
  <1>3. ParkedInv'
    BY DEF TypeOK, MailboxInv, ParkedInv, Slots
  <1>4. CountInv'
    BY DEF TypeOK, CountInv, Rounds
  <1> QED BY <1>1, <1>2, <1>3, <1>4

\* The slot is handed over and the other becomes the host's.
LEMMA SubmitPipe == ASSUME PipeInv, Submit PROVE PipeInv'
  <1> USE PipelineAssumption DEF PipeInv, Submit, WakeForSlot, Signal, NextSlot
  <1>1. TypeOK'
    <2>1. slot' \in Slots /\ voc_ocl_slot' \in Slots \cup {-1}
      BY DEF TypeOK, Slots, Other
    <2>2. parked' \subseteq {"host", "kernel"}
      BY DEF TypeOK
    <2>3. {slot_busy', slot_done', halt', voc_halt'} \subseteq BOOLEAN
      BY DEF TypeOK
    <2> QED BY <2>1, <2>2, <2>3 DEF TypeOK
  <1>2. MailboxInv'
    BY DEF TypeOK, MailboxInv, ParkedInv, Slots, Other
  <1>3. ParkedInv'
    BY DEF TypeOK, MailboxInv, ParkedInv, Slots
  <1>4. CountInv'
    BY DEF TypeOK, CountInv, Rounds
  <1> QED BY <1>1, <1>2, <1>3, <1>4

\* No round is left of the key.
LEMMA ExhaustedPipe == ASSUME PipeInv, Exhausted PROVE PipeInv'
  <1> USE PipelineAssumption DEF PipeInv, Exhausted, RoundLeft
  <1>1. TypeOK'
    BY DEF TypeOK, Slots, Other, Results, NoMatch
  <1>2. MailboxInv'
    BY DEF TypeOK, MailboxInv, ParkedInv, Slots, Other
  <1>3. ParkedInv'
    BY DEF TypeOK, MailboxInv, ParkedInv, Slots
  <1>4. CountInv'
    BY DEF TypeOK, CountInv, Rounds
  <1> QED BY <1>1, <1>2, <1>3, <1>4

\* The last slot has ended; its result is not looked at.
LEMMA DrainedPipe == ASSUME PipeInv, Drained PROVE PipeInv'
  <1> USE PipelineAssumption DEF PipeInv, Drained, MailboxEmpty
  <1>1. TypeOK'
    BY DEF TypeOK, Slots, Other, Results, NoMatch
  <1>2. MailboxInv'
    BY DEF TypeOK, MailboxInv, ParkedInv, Slots, Other
  <1>3. ParkedInv'
    BY DEF TypeOK, MailboxInv, ParkedInv, Slots
  <1>4. CountInv'
    BY DEF TypeOK, CountInv, Rounds
  <1> QED BY <1>1, <1>2, <1>3, <1>4

\* The kernel thread is told to stop.
LEMMA StopKernelPipe == ASSUME PipeInv, StopKernel PROVE PipeInv'
  <1> USE PipelineAssumption DEF PipeInv, StopKernel, WakeKernel, Signal
  <1>1. TypeOK'
    BY DEF TypeOK, Slots, Other, Results, NoMatch
  <1>2. MailboxInv'
    BY DEF TypeOK, MailboxInv, ParkedInv, Slots, Other
  <1>3. ParkedInv'
    BY DEF TypeOK, MailboxInv, ParkedInv, Slots
  <1>4. CountInv'
    BY DEF TypeOK, CountInv, Rounds
  <1> QED BY <1>1, <1>2, <1>3, <1>4

\* The last slot has ended.
LEMMA StoppedPipe == ASSUME PipeInv, Stopped PROVE PipeInv'
  <1> USE PipelineAssumption DEF PipeInv, Stopped
  <1>1. TypeOK'
    BY DEF TypeOK, Slots, Other, Results, NoMatch
  <1>2. MailboxInv'
    BY DEF TypeOK, MailboxInv, ParkedInv, Slots, Other
  <1>3. ParkedInv'
    BY DEF TypeOK, MailboxInv, ParkedInv, Slots
  <1>4. CountInv'
    BY DEF TypeOK, CountInv, Rounds
  <1> QED BY <1>1, <1>2, <1>3, <1>4

\* The host's thread ends.
LEMMA LeavePipe == ASSUME PipeInv, Leave PROVE PipeInv'
  <1> USE PipelineAssumption DEF PipeInv, Leave
  <1>1. TypeOK'
    BY DEF TypeOK, Slots, Other, Results, NoMatch
  <1>2. MailboxInv'
    BY DEF TypeOK, MailboxInv, ParkedInv, Slots, Other
  <1>3. ParkedInv'
    BY DEF TypeOK, MailboxInv, ParkedInv, Slots
  <1>4. CountInv'
    BY DEF TypeOK, CountInv, Rounds
  <1> QED BY <1>1, <1>2, <1>3, <1>4

\* The slot that ran is given back before another is taken.
LEMMA KernelTopPipe == ASSUME PipeInv, KernelTop PROVE PipeInv'
  <1> USE PipelineAssumption DEF PipeInv, KernelTop
  <1>1. TypeOK'
    BY DEF TypeOK, Slots, Other, Results, NoMatch
  <1>2. MailboxInv'
    BY DEF TypeOK, MailboxInv, ParkedInv, Slots, Other
  <1>3. ParkedInv'
    BY DEF TypeOK, MailboxInv, ParkedInv, Slots
  <1>4. CountInv'
    BY DEF TypeOK, CountInv, Rounds
  <1> QED BY <1>1, <1>2, <1>3, <1>4

\* The device writes to the slot the mailbox names.
LEMMA ComputePipe == ASSUME PipeInv, Compute PROVE PipeInv'
  <1> USE PipelineAssumption DEF PipeInv, Compute
  <1>1. TypeOK'
    <2>1. kslot \in Slots
      BY DEF TypeOK, MailboxInv
    <2>2. found' \in [Slots -> Results \cup {NoMatch}]
      <3>1. CASE UNCHANGED found
        BY <3>1 DEF TypeOK
      <3>2. ASSUME NEW c \in 0..Round - 1, NEW p \in table,
                   found' = [found EXCEPT ![kslot] = [cell |-> c, at |-> start[kslot] + c,
                                                          pattern |-> p]]
            PROVE  found' \in [Slots -> Results \cup {NoMatch}]
        <4>1. start[kslot] + c \in 0..RekeyMax + Round
          BY <2>1 DEF TypeOK
        <4>2. [cell |-> c, at |-> start[kslot] + c, pattern |-> p] \in Results
          BY <4>1 DEF TypeOK, Results
        <4> QED BY <3>2, <4>2 DEF TypeOK
      <3> QED BY <3>1, <3>2
    <2>3. unread' \in [Slots -> BOOLEAN]
      BY DEF TypeOK
    <2> QED BY <2>2, <2>3 DEF TypeOK
  <1>2. MailboxInv'
    BY DEF TypeOK, MailboxInv, ParkedInv, Slots, Other
  <1>3. ParkedInv'
    BY DEF TypeOK, MailboxInv, ParkedInv, Slots
  <1>4. CountInv'
    BY DEF TypeOK, CountInv, Rounds
  <1> QED BY <1>1, <1>2, <1>3, <1>4

\* A round without a result.
LEMMA ComputeFailsPipe == ASSUME PipeInv, ComputeFails PROVE PipeInv'
  <1> USE PipelineAssumption DEF PipeInv, ComputeFails
  <1>1. TypeOK'
    BY DEF TypeOK, Slots, Other, Results, NoMatch
  <1>2. MailboxInv'
    BY DEF TypeOK, MailboxInv, ParkedInv, Slots, Other
  <1>3. ParkedInv'
    BY DEF TypeOK, MailboxInv, ParkedInv, Slots
  <1>4. CountInv'
    BY DEF TypeOK, CountInv, Rounds
  <1> QED BY <1>1, <1>2, <1>3, <1>4

\* Another device removes a pattern.
LEMMA OthersRemovePipe == ASSUME PipeInv, OthersRemove PROVE PipeInv'
  <1> USE PipelineAssumption DEF PipeInv, OthersRemove, GivesHoldUp
  <1>1. TypeOK'
    BY DEF TypeOK, Slots, Other, Results, NoMatch
  <1>2. MailboxInv'
    BY DEF TypeOK, MailboxInv, ParkedInv, Slots, Other
  <1>3. ParkedInv'
    BY DEF TypeOK, MailboxInv, ParkedInv, Slots
  <1>4. CountInv'
    BY DEF TypeOK, CountInv, Rounds
  <1> QED BY <1>1, <1>2, <1>3, <1>4

\* All devices are told to halt.
LEMMA SetHaltPipe == ASSUME PipeInv, SetHalt PROVE PipeInv'
  <1> USE PipelineAssumption DEF PipeInv, SetHalt
  <1>1. TypeOK'
    BY DEF TypeOK, Slots, Other, Results, NoMatch
  <1>2. MailboxInv'
    BY DEF TypeOK, MailboxInv, ParkedInv, Slots, Other
  <1>3. ParkedInv'
    BY DEF TypeOK, MailboxInv, ParkedInv, Slots
  <1>4. CountInv'
    BY DEF TypeOK, CountInv, Rounds
  <1> QED BY <1>1, <1>2, <1>3, <1>4

-------------------------------------------------------------------------------
(* The rounds follow each other: each step keeps StepInv *)

LEMMA InitStep == Init => StepInv
  <1> SUFFICES ASSUME Init PROVE StepInv
    OBVIOUS
  <1>1. HaltSeen /\ FoundInv /\ PlaceInv
    BY DEF Init, HaltSeen, FoundInv, PlaceInv
  <1> QED BY <1>1, InitPipe DEF StepInv

\* The table is loaded while no slot runs.
LEMMA UploadStep == ASSUME DeviceDecides, StepInv, Upload PROVE StepInv'
  <1> USE PipelineAssumption, DeviceDecides
      DEF StepInv, PipeInv, TypeOK, DeviceDecides, RoundLeft, Slots, Other, Upload,
          ClearFound
  <1>1. HaltSeen'
    BY DEF HaltSeen
  <1>2. FoundInv'
    BY DEF FoundInv, HaltSeen, PlaceInv, KeyGood, MailboxInv, NoMatch
  <1>3. PlaceInv'
    BY DEF HaltSeen, FoundInv, PlaceInv, KeyGood, Fresh, MailboxInv, CountInv, Rounds,
           NoMatch, Results
  <1> QED BY <1>1, <1>2, <1>3, UploadPipe

\* A new key: the first round is to start at its first point.
LEMMA NewKeyStep == ASSUME DeviceDecides, StepInv, NewKey PROVE StepInv'
  <1> USE PipelineAssumption, DeviceDecides
      DEF StepInv, PipeInv, TypeOK, DeviceDecides, RoundLeft, Slots, Other, NewKey
  <1>1. HaltSeen'
    BY DEF HaltSeen
  <1>2. FoundInv'
    BY DEF FoundInv, HaltSeen, PlaceInv, KeyGood, MailboxInv, NoMatch
  <1>3. PlaceInv'
    BY DEF HaltSeen, FoundInv, PlaceInv, KeyGood, Fresh, MailboxInv, CountInv, Rounds,
           NoMatch, Results
  <1> QED BY <1>1, <1>2, <1>3, NewKeyPipe

\* A result is looked at; the place moves on, or the key is given up.
LEMMA CheckStep == ASSUME DeviceDecides, StepInv, Check PROVE StepInv'
  <1> USE PipelineAssumption, DeviceDecides
      DEF StepInv, PipeInv, TypeOK, DeviceDecides, RoundLeft, Slots, Other, Check,
          CheckNothing, CheckRefused, CheckMatch, CheckFails, HostPoint, SamePoint, Refused
  <1>1. HaltSeen'
    BY DEF HaltSeen
  <1>2. FoundInv'
    BY DEF FoundInv, HaltSeen, PlaceInv, KeyGood, MailboxInv, NoMatch
  <1>3. PlaceInv'
    BY DEF HaltSeen, FoundInv, PlaceInv, KeyGood, Fresh, MailboxInv, CountInv, Rounds,
           NoMatch, Results
  <1> QED BY <1>1, <1>2, <1>3, CheckPipe

\* Changed patterns end the key.
LEMMA YieldedStep == ASSUME DeviceDecides, StepInv, Yielded PROVE StepInv'
  <1> USE PipelineAssumption, DeviceDecides
      DEF StepInv, PipeInv, TypeOK, DeviceDecides, RoundLeft, Slots, Other, Yielded
  <1>1. HaltSeen'
    BY DEF HaltSeen
  <1>2. FoundInv'
    BY DEF FoundInv, HaltSeen, PlaceInv, KeyGood, MailboxInv, NoMatch
  <1>3. PlaceInv'
    BY DEF HaltSeen, FoundInv, PlaceInv, KeyGood, Fresh, MailboxInv, CountInv, Rounds,
           NoMatch, Results
  <1> QED BY <1>1, <1>2, <1>3, YieldedPipe

\* No round has ended yet.
LEMMA NothingDoneStep == ASSUME DeviceDecides, StepInv, NothingDone PROVE StepInv'
  <1> USE PipelineAssumption, DeviceDecides
      DEF StepInv, PipeInv, TypeOK, DeviceDecides, RoundLeft, Slots, Other, NothingDone
  <1>1. HaltSeen'
    BY DEF HaltSeen
  <1>2. FoundInv'
    BY DEF FoundInv, HaltSeen, PlaceInv, KeyGood, MailboxInv, NoMatch
  <1>3. PlaceInv'
    BY DEF HaltSeen, FoundInv, PlaceInv, KeyGood, Fresh, MailboxInv, CountInv, Rounds,
           NoMatch, Results
  <1> QED BY <1>1, <1>2, <1>3, NothingDonePipe

\* The host sees that it is to halt.
LEMMA HaltingStep == ASSUME DeviceDecides, StepInv, Halting PROVE StepInv'
  <1> USE PipelineAssumption, DeviceDecides
      DEF StepInv, PipeInv, TypeOK, DeviceDecides, RoundLeft, Slots, Other, Halting
  <1>1. HaltSeen'
    BY DEF HaltSeen
  <1>2. FoundInv'
    BY DEF FoundInv, HaltSeen, PlaceInv, KeyGood, MailboxInv, NoMatch
  <1>3. PlaceInv'
    BY DEF HaltSeen, FoundInv, PlaceInv, KeyGood, Fresh, MailboxInv, CountInv, Rounds,
           NoMatch, Results
  <1> QED BY <1>1, <1>2, <1>3, HaltingPipe

\* The next round follows the last.
LEMMA PrepareStep == ASSUME DeviceDecides, StepInv, Prepare PROVE StepInv'
  <1> USE PipelineAssumption, DeviceDecides
      DEF StepInv, PipeInv, TypeOK, DeviceDecides, RoundLeft, Slots, Other, Prepare, Strides
  <1>1. HaltSeen'
    BY DEF HaltSeen
  <1>2. FoundInv'
    <2>1. KeyGood /\ found[slot] = NoMatch
      BY DEF PlaceInv, KeyGood, Fresh
    <2> QED BY <2>1 DEF FoundInv
  <1>3. PlaceInv'
    BY DEF HaltSeen, FoundInv, PlaceInv, KeyGood, Fresh, MailboxInv, CountInv, Rounds,
           NoMatch, Results
  <1> QED BY <1>1, <1>2, <1>3, PreparePipe

\* A buffer cannot be mapped.
LEMMA HostFailsStep == ASSUME DeviceDecides, StepInv, HostFails PROVE StepInv'
  <1> USE PipelineAssumption, DeviceDecides
      DEF StepInv, PipeInv, TypeOK, DeviceDecides, RoundLeft, Slots, Other, HostFails
  <1>1. HaltSeen'
    BY DEF HaltSeen
  <1>2. FoundInv'
    BY DEF FoundInv, HaltSeen, PlaceInv, KeyGood, MailboxInv, NoMatch
  <1>3. PlaceInv'
    BY DEF HaltSeen, FoundInv, PlaceInv, KeyGood, Fresh, MailboxInv, CountInv, Rounds,
           NoMatch, Results
  <1> QED BY <1>1, <1>2, <1>3, HostFailsPipe

\* The host waits for a slot that runs.
LEMMA ParkStep == ASSUME DeviceDecides, StepInv, Park PROVE StepInv'
  <1> USE PipelineAssumption, DeviceDecides
      DEF StepInv, PipeInv, TypeOK, DeviceDecides, RoundLeft, Slots, Other, Park
  <1>1. HaltSeen'
    BY DEF HaltSeen
  <1>2. FoundInv'
    BY DEF FoundInv, HaltSeen, PlaceInv, KeyGood, MailboxInv, NoMatch
  <1>3. PlaceInv'
    BY DEF HaltSeen, FoundInv, PlaceInv, KeyGood, Fresh, MailboxInv, CountInv, Rounds,
           NoMatch, Results
  <1> QED BY <1>1, <1>2, <1>3, ParkPipe

\* The slot is handed over and the other becomes the host's.
LEMMA SubmitStep == ASSUME DeviceDecides, StepInv, Submit PROVE StepInv'
  <1> USE PipelineAssumption, DeviceDecides
      DEF StepInv, PipeInv, TypeOK, DeviceDecides, RoundLeft, Slots, Other, Submit,
          WakeForSlot, Signal, NextSlot
  <1>1. HaltSeen'
    BY DEF HaltSeen
  <1>2. FoundInv'
    BY DEF FoundInv, HaltSeen, PlaceInv, KeyGood, MailboxInv, NoMatch
  <1>3. PlaceInv'
    <2>1. CASE voc_halt
      BY <2>1 DEF PlaceInv
    <2>2. CASE ~voc_halt
      <3>1. slot' = Other(slot) /\ Other(slot') = slot /\ pc' = "top" /\ npoints >= 1
        BY <2>2 DEF CountInv, Rounds
      <3>2. npoints > 1
        BY DEF CountInv
      <3>3. CASE slot_busy
        BY <2>2, <3>1, <3>2, <3>3 DEF PlaceInv
      <3>4. CASE ~slot_busy
        BY <2>2, <3>1, <3>2, <3>4 DEF PlaceInv
      <3> QED BY <3>3, <3>4
    <2> QED BY <2>1, <2>2
  <1> QED BY <1>1, <1>2, <1>3, SubmitPipe

\* No round is left of the key.
LEMMA ExhaustedStep == ASSUME DeviceDecides, StepInv, Exhausted PROVE StepInv'
  <1> USE PipelineAssumption, DeviceDecides
      DEF StepInv, PipeInv, TypeOK, DeviceDecides, RoundLeft, Slots, Other, Exhausted
  <1>1. HaltSeen'
    BY DEF HaltSeen
  <1>2. FoundInv'
    BY DEF FoundInv, HaltSeen, PlaceInv, KeyGood, MailboxInv, NoMatch
  <1>3. PlaceInv'
    BY DEF HaltSeen, FoundInv, PlaceInv, KeyGood, Fresh, MailboxInv, CountInv, Rounds,
           NoMatch, Results
  <1> QED BY <1>1, <1>2, <1>3, ExhaustedPipe

\* The last slot has ended; its result is not looked at.
LEMMA DrainedStep == ASSUME DeviceDecides, StepInv, Drained PROVE StepInv'
  <1> USE PipelineAssumption, DeviceDecides
      DEF StepInv, PipeInv, TypeOK, DeviceDecides, RoundLeft, Slots, Other, Drained,
          MailboxEmpty
  <1>1. HaltSeen'
    BY DEF HaltSeen
  <1>2. FoundInv'
    BY DEF FoundInv, HaltSeen, PlaceInv, KeyGood, MailboxInv, NoMatch
  <1>3. PlaceInv'
    BY DEF HaltSeen, FoundInv, PlaceInv, KeyGood, Fresh, MailboxInv, CountInv, Rounds,
           NoMatch, Results
  <1> QED BY <1>1, <1>2, <1>3, DrainedPipe

\* The kernel thread is told to stop.
LEMMA StopKernelStep == ASSUME DeviceDecides, StepInv, StopKernel PROVE StepInv'
  <1> USE PipelineAssumption, DeviceDecides
      DEF StepInv, PipeInv, TypeOK, DeviceDecides, RoundLeft, Slots, Other, StopKernel,
          WakeKernel, Signal
  <1>1. HaltSeen'
    BY DEF HaltSeen
  <1>2. FoundInv'
    BY DEF FoundInv, HaltSeen, PlaceInv, KeyGood, MailboxInv, NoMatch
  <1>3. PlaceInv'
    BY DEF HaltSeen, FoundInv, PlaceInv, KeyGood, Fresh, MailboxInv, CountInv, Rounds,
           NoMatch, Results
  <1> QED BY <1>1, <1>2, <1>3, StopKernelPipe

\* The last slot has ended.
LEMMA StoppedStep == ASSUME DeviceDecides, StepInv, Stopped PROVE StepInv'
  <1> USE PipelineAssumption, DeviceDecides
      DEF StepInv, PipeInv, TypeOK, DeviceDecides, RoundLeft, Slots, Other, Stopped
  <1>1. HaltSeen'
    BY DEF HaltSeen
  <1>2. FoundInv'
    BY DEF FoundInv, HaltSeen, PlaceInv, KeyGood, MailboxInv, NoMatch
  <1>3. PlaceInv'
    BY DEF HaltSeen, FoundInv, PlaceInv, KeyGood, Fresh, MailboxInv, CountInv, Rounds,
           NoMatch, Results
  <1> QED BY <1>1, <1>2, <1>3, StoppedPipe

\* The host's thread ends.
LEMMA LeaveStep == ASSUME DeviceDecides, StepInv, Leave PROVE StepInv'
  <1> USE PipelineAssumption, DeviceDecides
      DEF StepInv, PipeInv, TypeOK, DeviceDecides, RoundLeft, Slots, Other, Leave
  <1>1. HaltSeen'
    BY DEF HaltSeen
  <1>2. FoundInv'
    BY DEF FoundInv, HaltSeen, PlaceInv, KeyGood, MailboxInv, NoMatch
  <1>3. PlaceInv'
    BY DEF HaltSeen, FoundInv, PlaceInv, KeyGood, Fresh, MailboxInv, CountInv, Rounds,
           NoMatch, Results
  <1> QED BY <1>1, <1>2, <1>3, LeavePipe

\* The slot that ran is given back before another is taken.
LEMMA KernelTopStep == ASSUME DeviceDecides, StepInv, KernelTop PROVE StepInv'
  <1> USE PipelineAssumption, DeviceDecides
      DEF StepInv, PipeInv, TypeOK, DeviceDecides, RoundLeft, Slots, Other, KernelTop
  <1>1. HaltSeen'
    BY DEF HaltSeen
  <1>2. FoundInv'
    BY DEF FoundInv, HaltSeen, PlaceInv, KeyGood, MailboxInv, NoMatch
  <1>3. PlaceInv'
    BY DEF HaltSeen, FoundInv, PlaceInv, KeyGood, Fresh, MailboxInv, CountInv, Rounds,
           NoMatch, Results
  <1> QED BY <1>1, <1>2, <1>3, KernelTopPipe

\* The device writes to the slot the mailbox names.
LEMMA ComputeStep == ASSUME DeviceDecides, StepInv, Compute PROVE StepInv'
  <1> USE PipelineAssumption, DeviceDecides
      DEF StepInv, PipeInv, TypeOK, DeviceDecides, RoundLeft, Slots, Other, Compute
  <1>1. HaltSeen'
    BY DEF HaltSeen
  <1>2. FoundInv'
    BY DEF FoundInv, HaltSeen, PlaceInv, KeyGood, MailboxInv, NoMatch
  <1>3. PlaceInv'
    BY DEF HaltSeen, FoundInv, PlaceInv, KeyGood, Fresh, MailboxInv, CountInv, Rounds,
           NoMatch, Results
  <1> QED BY <1>1, <1>2, <1>3, ComputePipe

\* A round without a result.
LEMMA ComputeFailsStep == ASSUME DeviceDecides, StepInv, ComputeFails PROVE StepInv'
  <1> USE PipelineAssumption, DeviceDecides
      DEF StepInv, PipeInv, TypeOK, DeviceDecides, RoundLeft, Slots, Other, ComputeFails
  <1>1. HaltSeen'
    BY DEF HaltSeen
  <1>2. FoundInv'
    BY DEF FoundInv, HaltSeen, PlaceInv, KeyGood, MailboxInv, NoMatch
  <1>3. PlaceInv'
    BY DEF HaltSeen, FoundInv, PlaceInv, KeyGood, Fresh, MailboxInv, CountInv, Rounds,
           NoMatch, Results
  <1> QED BY <1>1, <1>2, <1>3, ComputeFailsPipe

\* Another device removes a pattern.
LEMMA OthersRemoveStep == ASSUME DeviceDecides, StepInv, OthersRemove PROVE StepInv'
  <1> USE PipelineAssumption, DeviceDecides
      DEF StepInv, PipeInv, TypeOK, DeviceDecides, RoundLeft, Slots, Other, OthersRemove,
          GivesHoldUp
  <1>1. HaltSeen'
    BY DEF HaltSeen
  <1>2. FoundInv'
    BY DEF FoundInv, HaltSeen, PlaceInv, KeyGood, MailboxInv, NoMatch
  <1>3. PlaceInv'
    BY DEF HaltSeen, FoundInv, PlaceInv, KeyGood, Fresh, MailboxInv, CountInv, Rounds,
           NoMatch, Results
  <1> QED BY <1>1, <1>2, <1>3, OthersRemovePipe

\* All devices are told to halt.
LEMMA SetHaltStep == ASSUME DeviceDecides, StepInv, SetHalt PROVE StepInv'
  <1> USE PipelineAssumption, DeviceDecides
      DEF StepInv, PipeInv, TypeOK, DeviceDecides, RoundLeft, Slots, Other, SetHalt
  <1>1. HaltSeen'
    BY DEF HaltSeen
  <1>2. FoundInv'
    BY DEF FoundInv, HaltSeen, PlaceInv, KeyGood, MailboxInv, NoMatch
  <1>3. PlaceInv'
    BY DEF HaltSeen, FoundInv, PlaceInv, KeyGood, Fresh, MailboxInv, CountInv, Rounds,
           NoMatch, Results
  <1> QED BY <1>1, <1>2, <1>3, SetHaltPipe

-------------------------------------------------------------------------------
(* The theorems *)

LEMMA PipeInvariance == Spec => []PipeInv
  <1>1. PipeInv /\ [Next]_vars => PipeInv'
    <2> SUFFICES ASSUME PipeInv, [Next]_vars PROVE PipeInv'
      OBVIOUS
    <2>1. CASE HostStep
      BY <2>1, UploadPipe, NewKeyPipe, CheckPipe, YieldedPipe, NothingDonePipe, HaltingPipe,
         PreparePipe, ParkPipe, SubmitPipe, ExhaustedPipe, DrainedPipe, StopKernelPipe,
         StoppedPipe, LeavePipe DEF HostStep
    <2>2. CASE KernelStep
      BY <2>2, KernelTopPipe, ComputePipe, ComputeFailsPipe DEF KernelStep
    <2>3. CASE UNCHANGED vars
      BY <2>3 DEF PipeInv, TypeOK, MailboxInv, ParkedInv, CountInv, vars
    <2> QED BY <2>1, <2>2, <2>3, HostFailsPipe, OthersRemovePipe, SetHaltPipe DEF Next
  <1> QED BY <1>1, InitPipe, PTL DEF Spec

LEMMA StepInvariance == ASSUME DeviceDecides PROVE Spec => []StepInv
  <1>1. StepInv /\ [Next]_vars => StepInv'
    <2> SUFFICES ASSUME StepInv, [Next]_vars PROVE StepInv'
      OBVIOUS
    <2>1. CASE HostStep
      BY <2>1, DeviceDecides, UploadStep, NewKeyStep, CheckStep, YieldedStep, NothingDoneStep,
         HaltingStep, PrepareStep, ParkStep, SubmitStep, ExhaustedStep, DrainedStep,
         StopKernelStep, StoppedStep, LeaveStep DEF HostStep
    <2>2. CASE KernelStep
      BY <2>2, DeviceDecides, KernelTopStep, ComputeStep, ComputeFailsStep DEF KernelStep
    <2>3. CASE UNCHANGED vars
      BY <2>3 DEF StepInv, PipeInv, TypeOK, MailboxInv, ParkedInv, CountInv, HaltSeen,
                  FoundInv,
                  PlaceInv, KeyGood, Fresh, RoundLeft, vars
    <2> QED BY <2>1, <2>2, <2>3, DeviceDecides, HostFailsStep, OthersRemoveStep, SetHaltStep
           DEF Next
  <1> QED BY <1>1, InitStep, PTL DEF Spec

\* The types of the two threads, the walk and the slots: no number of a round passes the
\* interval between keys.
THEOREM TypeCorrect == Spec => []TypeOK
  <1>1. PipeInv => TypeOK
    BY DEF PipeInv
  <1> QED BY <1>1, PipeInvariance, PTL

\* The assertions of vg_opencl_loop and vg_opencl_thread about the mailbox hold, and the two
\* threads never wait for each other, whatever fails.
THEOREM MailboxUse == Spec => []MailboxKept
  <1>1. PipeInv => MailboxKept
    BY DEF PipeInv, MailboxKept, AssertionsHold, NotBothParked, MailboxInv, ParkedInv,
           CountInv
  <1> QED BY <1>1, PipeInvariance, PTL

\* While the kernels run the host writes neither to the slot they read nor to the table,
\* the points and the results.
THEOREM BuffersStayQuiet == Spec => []BuffersQuiet
  <1>1. PipeInv => BuffersQuiet
    BY DEF PipeInv, BuffersQuiet, TypeOK, MailboxInv, Slots, Other
  <1> QED BY <1>1, PipeInvariance, PTL

\* When a round is checked the host knows at which point it starts, and what it takes for
\* its result is not of an earlier round.
THEOREM RoundsInStep == ASSUME DeviceDecides PROVE Spec => []ResultRight
  <1>1. StepInv => ResultRight
    BY DEF StepInv, PipeInv, ResultRight, HostInStep, ResultOfRound, FoundInv, PlaceInv,
           TypeOK
  <1> QED BY <1>1, StepInvariance, PTL

-------------------------------------------------------------------------------
(* Several devices, from their start: OclSearch, with the patterns, their generation *)
(* and vc_halt as above.                                                             *)

CONSTANTS Devices, TableSearch, OnlyOne, Stops,
          Processes, Names, Hash, NoBinaries, Blocks, NoFile, Main

VARIABLES hold, pending, reports, vc_found, at_step, seen, tables, rewrites, rekey_due, halts, hit,
          file, binary, at, nth, fromsource, kfp, offset, vc_threads, opened, objects, lost, died

Sys == INSTANCE OclSearch WITH
  pc <- at_step, generation <- vc_pattern_generation, found <- vc_found,
  table <- tables, rewrite <- rewrites, halt <- halts

DeviceSteps == {"rekey", "upgrade", "keyed", "loop", "check", "hit", "yield", "end", "gone"}

\* A device that is to end tests no more; what has been reported is searched for no longer;
\* and the generation counts the patterns removed.
DevicesInv ==
  /\ Sys!TypeOK
  /\ \A d \in Devices : halts[d] => at_step[d] \in {"yield", "loop", "end", "gone"}
  /\ ~Stops => ~vc_halt
  /\ ~OnlyOne => \A p \in Patterns : reports[p] <= 1 /\ (reports[p] = 1 => p \notin live)
  /\ IF OnlyOne THEN live = Patterns /\ vc_pattern_generation = 0
     ELSE vc_pattern_generation + Cardinality(live) = Cardinality(Patterns)

LEMMA CardSame == ASSUME NEW S PROVE /\ Sys!Cardinality(S) = Cardinality(S)
                                     /\ Sys!IsFiniteSet(S) <=> IsFiniteSet(S)
  BY DEF Sys!Cardinality, Cardinality, Sys!IsFiniteSet, IsFiniteSet

LEMMA DevicesInit == ASSUME Sys!DevicesAssumed, Sys!Init PROVE DevicesInv
  <1> USE DEF DeviceSteps
  <1>1. Patterns # {} /\ IsFiniteSet(Patterns) /\ {TableSearch, OnlyOne, Stops} \subseteq BOOLEAN
    BY CardSame DEF Sys!DevicesAssumed
  <1>2. Cardinality(Patterns) \in Nat
    BY <1>1, FS_CardinalityType
  <1>3. Sys!SomePattern \in Patterns
    BY <1>1 DEF Sys!SomePattern
  <1>4. Sys!Cardinality(Patterns) = Cardinality(Patterns)
    BY CardSame
  <1>5. Sys!TypeOK
    <2>1. /\ hold \in [Devices -> {"none", "shared", "exclusive"}] /\ pending \subseteq Devices
          /\ vc_found \in Nat /\ reports \in [Patterns -> Nat] /\ vc_halt \in BOOLEAN
          /\ seen \in [Devices -> Nat] /\ tables \in [Devices -> SUBSET Patterns]
      BY DEF Sys!Init
    <2>2. at_step \in [Devices -> DeviceSteps]
      BY DEF Sys!Init
    <2>3. {rewrites, rekey_due, halts} \subseteq [Devices -> BOOLEAN]
      <3>1. rewrites \in [Devices -> BOOLEAN]
        BY DEF Sys!Init
      <3>2. rekey_due \in [Devices -> BOOLEAN]
        BY DEF Sys!Init
      <3>3. halts \in [Devices -> BOOLEAN]
        BY DEF Sys!Init
      <3> QED BY <3>1, <3>2, <3>3
    <2>4. hit \in [Devices -> Patterns]
      BY <1>3 DEF Sys!Init
    <2>5. live \subseteq Patterns /\ vc_pattern_generation \in 0..Sys!Cardinality(Patterns)
      BY <1>2, <1>4 DEF Sys!Init
    <2> QED BY <2>1, <2>2, <2>3, <2>4, <2>5 DEF Sys!TypeOK
  <1>6. IF OnlyOne THEN live = Patterns /\ vc_pattern_generation = 0
        ELSE vc_pattern_generation + Cardinality(live) = Cardinality(Patterns)
    BY <1>2 DEF Sys!Init
  <1> QED BY <1>5, <1>6 DEF DevicesInv, Sys!Init

\* What a device does with the pool: nothing, or the report of a pattern that is left.
Steady(d) == /\ UNCHANGED <<live, vc_pattern_generation, reports, vc_found, vc_halt>>
             /\ \E to \in DeviceSteps :
                  /\ at_step' = [at_step EXCEPT ![d] = to]
                  /\ halts' = [halts EXCEPT ![d] = halts'[d]]
                  /\ halts'[d] => to \in {"yield", "loop", "end", "gone"}
             /\ hold' \in [Devices -> {"none", "shared", "exclusive"}] /\ pending' \subseteq Devices
             /\ seen' \in [Devices -> Nat] /\ tables' \in [Devices -> SUBSET Patterns]
             /\ rewrites' \in [Devices -> BOOLEAN]
             /\ rekey_due' \in [Devices -> BOOLEAN] /\ halts' \in [Devices -> BOOLEAN]
             /\ hit' \in [Devices -> Patterns]

LEMMA SteadySteps ==
  ASSUME DevicesInv, NEW d \in Devices, Sys!Step(d),
         ~(at_step[d] = "hit" /\ Sys!Settle(d) /\ hit[d] \in live)
  PROVE Steady(d)
  <1> USE DEF DeviceSteps
  <1> USE DEF Sys!Go, Sys!Set, Sys!lockvars, Sys!poolvars, Sys!devicevars
  <1>1. /\ hold \in [Devices -> {"none", "shared", "exclusive"}] /\ pending \subseteq Devices
        /\ seen \in [Devices -> Nat] /\ tables \in [Devices -> SUBSET Patterns]
        /\ rewrites \in [Devices -> BOOLEAN]
        /\ rekey_due \in [Devices -> BOOLEAN] /\ halts \in [Devices -> BOOLEAN]
        /\ hit \in [Devices -> Patterns] /\ live \subseteq Patterns /\ vc_pattern_generation \in Nat
        /\ at_step \in [Devices -> DeviceSteps]
        /\ halts[d] => at_step[d] \in {"yield", "loop", "end", "gone"}
        /\ halts[d] \in BOOLEAN
    BY DEF DevicesInv, Sys!TypeOK
  <1>2. CASE Sys!Reload(d)
    BY <1>1, <1>2 DEF Sys!Reload, Steady
  <1>3. CASE Sys!Request(d)
    BY <1>1, <1>3 DEF Sys!Request, Sys!Lock!Request, Steady
  <1>4. CASE Sys!NewKey(d)
    BY <1>1, <1>4 DEF Sys!NewKey, Sys!Lock!Grant, Steady
  <1>5. CASE Sys!KeyMade(d)
    BY <1>1, <1>5 DEF Sys!KeyMade, Sys!Lock!Finish, Steady
  <1>6. CASE Sys!Settle(d)
    BY <1>1, <1>6 DEF Sys!Settle, Sys!Lock!Grant, Sys!StillThere, Sys!Refused, Steady
  <1>7. CASE Sys!CheckNothing(d)
    BY <1>1, <1>7 DEF Sys!CheckNothing, Steady
  <1>8. CASE Sys!CheckHit(d)
    BY <1>1, <1>8 DEF Sys!CheckHit, Steady
  <1>9. CASE Sys!CheckStale(d)
    BY <1>1, <1>9 DEF Sys!CheckStale, Sys!Refused, Steady
  <1>10. CASE Sys!Downgrade(d)
    BY <1>1, <1>10 DEF Sys!Downgrade, Sys!Lock!Finish, Sys!Yielding, Steady
  <1>11. CASE Sys!DropShared(d)
    BY <1>1, <1>11 DEF Sys!DropShared, Sys!Lock!DropShared, Sys!Yielding, Steady
  <1>12. CASE Sys!Resume(d)
    BY <1>1, <1>12 DEF Sys!Resume, Sys!Lock!GetShared, Steady
  <1>13. CASE Sys!Yielded(d)
    BY <1>1, <1>13 DEF Sys!Yielded, Sys!Changed, Steady
  <1>14. CASE Sys!GoOn(d)
    BY <1>1, <1>14 DEF Sys!GoOn, Sys!Ending, Steady
  <1>15. CASE Sys!Leave(d)
    BY <1>1, <1>15 DEF Sys!Leave, Steady
  <1> QED BY <1>2, <1>3, <1>4, <1>5, <1>6, <1>7, <1>8, <1>9, <1>10, <1>11, <1>12, <1>13,
             <1>14, <1>15 DEF Sys!Step

LEMMA SteadyKeeps ==
  ASSUME DevicesInv, NEW d \in Devices, Steady(d) PROVE DevicesInv'
  <1> USE DEF DeviceSteps
  <1>1. /\ at_step \in [Devices -> DeviceSteps]
        /\ halts \in [Devices -> BOOLEAN] /\ halts' \in [Devices -> BOOLEAN]
        /\ \A e \in Devices : halts[e] => at_step[e] \in {"yield", "loop", "end", "gone"}
    BY DEF DevicesInv, Sys!TypeOK, Steady
  <1>2. PICK to \in DeviceSteps :
          /\ at_step' = [at_step EXCEPT ![d] = to]
          /\ halts' = [halts EXCEPT ![d] = halts'[d]]
          /\ halts'[d] => to \in {"yield", "loop", "end", "gone"}
    BY DEF Steady
  <1>3. \A e \in Devices : halts'[e] => at_step'[e] \in {"yield", "loop", "end", "gone"}
    <2> SUFFICES ASSUME NEW e \in Devices, halts'[e]
                 PROVE at_step'[e] \in {"yield", "loop", "end", "gone"}
      OBVIOUS
    <2>1. CASE e = d
      BY <1>1, <1>2, <2>1
    <2>2. CASE e # d
      <3>1. halts'[e] = halts[e]
        BY <1>1, <1>2, <2>2
      <3> QED BY <1>1, <1>2, <2>2, <3>1
    <2> QED BY <2>1, <2>2
  <1>4. Sys!TypeOK'
    <2>1. at_step' \in [Devices -> DeviceSteps]
      BY <1>1, <1>2
    <2>2. {rewrites', rekey_due', halts'} \subseteq [Devices -> BOOLEAN]
      BY DEF Steady
    <2>3. /\ UNCHANGED <<live, vc_pattern_generation, reports, vc_found, vc_halt>>
          /\ hold' \in [Devices -> {"none", "shared", "exclusive"}] /\ pending' \subseteq Devices
          /\ seen' \in [Devices -> Nat] /\ tables' \in [Devices -> SUBSET Patterns]
          /\ hit' \in [Devices -> Patterns]
      BY DEF Steady
    <2>4. /\ live \subseteq Patterns /\ vc_pattern_generation \in 0..Sys!Cardinality(Patterns)
          /\ vc_found \in Nat /\ reports \in [Patterns -> Nat] /\ vc_halt \in BOOLEAN
      BY DEF DevicesInv, Sys!TypeOK
    <2> QED BY <2>1, <2>2, <2>3, <2>4 DEF Sys!TypeOK
  <1>5. UNCHANGED <<live, vc_pattern_generation, reports, vc_halt>>
    BY DEF Steady
  <1> QED BY <1>3, <1>4, <1>5 DEF DevicesInv

\* The report is of a pattern that is left, which is gone after it unless matches are kept.
LEMMA SettleKeeps ==
  ASSUME Sys!DevicesAssumed, DevicesInv, NEW d \in Devices, Sys!Settle(d), hit[d] \in live
  PROVE DevicesInv'
  <1> USE DEF DeviceSteps
  <1> USE DEF Sys!Go, Sys!Set
  <1>1. /\ hold \in [Devices -> {"none", "shared", "exclusive"}] /\ pending \subseteq Devices
        /\ seen \in [Devices -> Nat] /\ tables \in [Devices -> SUBSET Patterns]
        /\ rewrites \in [Devices -> BOOLEAN]
        /\ rekey_due \in [Devices -> BOOLEAN] /\ halts \in [Devices -> BOOLEAN]
        /\ hit \in [Devices -> Patterns] /\ live \subseteq Patterns
        /\ at_step \in [Devices -> DeviceSteps]
        /\ vc_found \in Nat /\ reports \in [Patterns -> Nat] /\ vc_halt \in BOOLEAN
        /\ \A e \in Devices : halts[e] => at_step[e] \in {"yield", "loop", "end", "gone"}
        /\ ~Stops => ~vc_halt
        /\ vc_pattern_generation \in 0..Sys!Cardinality(Patterns)
    BY DEF DevicesInv, Sys!TypeOK
  <1>2. /\ at_step' = [at_step EXCEPT ![d] = "yield"]
        /\ hold' = [hold EXCEPT ![d] = "exclusive"] /\ pending' = pending
        /\ vc_found' = vc_found + 1
        /\ reports' = [reports EXCEPT ![hit[d]] = @ + 1]
        /\ UNCHANGED <<vc_halt, seen, tables, rewrites, hit>>
    BY DEF Sys!Settle, Sys!StillThere, Sys!Report, Sys!Lock!Grant
  <1>3. IF OnlyOne
        THEN /\ halts' = [halts EXCEPT ![d] = TRUE]
             /\ UNCHANGED <<live, vc_pattern_generation, rekey_due>>
        ELSE /\ live' = live \ {hit[d]}
             /\ vc_pattern_generation' = vc_pattern_generation + 1
             /\ halts' = [halts EXCEPT ![d] = live' = {}]
             /\ rekey_due' = [rekey_due EXCEPT ![d] = TRUE]
    BY DEF Sys!Settle, Sys!StillThere, Sys!Report
  <1>4. rekey_due' \in [Devices -> BOOLEAN] /\ halts' \in [Devices -> BOOLEAN]
    BY <1>1, <1>3
  <1>5. IsFiniteSet(Patterns) /\ Sys!Cardinality(Patterns) = Cardinality(Patterns)
    BY CardSame DEF Sys!DevicesAssumed
  <1>6. IF OnlyOne THEN live' = Patterns /\ vc_pattern_generation' = 0
        ELSE /\ vc_pattern_generation' + Cardinality(live') = Cardinality(Patterns)
             /\ vc_pattern_generation' \in 0..Cardinality(Patterns)
    <2>1. CASE OnlyOne
      BY <1>3, <2>1 DEF DevicesInv
    <2>2. CASE ~OnlyOne
      <3>1. IsFiniteSet(live)
        BY <1>1, <1>5, FS_Subset
      <3>2. Cardinality(live \ {hit[d]}) = Cardinality(live) - 1
        BY <3>1, FS_RemoveElement
      <3>3. Cardinality(live) \in Nat /\ Cardinality(Patterns) \in Nat
        BY <1>5, <3>1, FS_CardinalityType
      <3>4. vc_pattern_generation + Cardinality(live) = Cardinality(Patterns)
        BY <2>2 DEF DevicesInv
      <3>5. IsFiniteSet(live \ {hit[d]})
        BY <3>1, FS_RemoveElement
      <3>6. Cardinality(live \ {hit[d]}) \in Nat
        BY <3>5, FS_CardinalityType
      <3>7. vc_pattern_generation \in Nat
        BY <1>1, <1>5, <3>3
      <3>8. live' = live \ {hit[d]} /\ vc_pattern_generation' = vc_pattern_generation + 1
        BY <1>3, <2>2
      <3>9. vc_pattern_generation + 1 + Cardinality(live \ {hit[d]}) = Cardinality(Patterns)
        BY <3>2, <3>3, <3>4, <3>7
      <3> QED BY <2>2, <3>3, <3>6, <3>7, <3>8, <3>9
    <2> QED BY <2>1, <2>2
  <1>7. ~OnlyOne => \A p \in Patterns : reports'[p] <= 1 /\ (reports'[p] = 1 => p \notin live')
    <2> SUFFICES ASSUME ~OnlyOne, NEW p \in Patterns
                 PROVE reports'[p] <= 1 /\ (reports'[p] = 1 => p \notin live')
      OBVIOUS
    <2>1. reports[p] \in Nat /\ reports[p] <= 1 /\ (reports[p] = 1 => p \notin live)
      BY <1>1 DEF DevicesInv
    <2>2. live' = live \ {hit[d]}
      BY <1>3
    <2>3. CASE p = hit[d]
      BY <1>1, <1>2, <2>1, <2>2, <2>3
    <2>4. CASE p # hit[d]
      BY <1>1, <1>2, <2>1, <2>2, <2>4
    <2> QED BY <2>3, <2>4
  <1>8. \A e \in Devices : halts'[e] => at_step'[e] \in {"yield", "loop", "end", "gone"}
    <2> SUFFICES ASSUME NEW e \in Devices, halts'[e]
                 PROVE at_step'[e] \in {"yield", "loop", "end", "gone"}
      OBVIOUS
    <2>1. CASE e = d
      BY <1>1, <1>2, <2>1
    <2>2. CASE e # d
      BY <1>1, <1>2, <1>3, <2>2
    <2> QED BY <2>1, <2>2
  <1>9. Sys!TypeOK'
    <2>1. at_step' \in [Devices -> DeviceSteps]
      BY <1>1, <1>2
    <2>2. /\ hold' \in [Devices -> {"none", "shared", "exclusive"}] /\ pending' \subseteq Devices
          /\ seen' \in [Devices -> Nat] /\ tables' \in [Devices -> SUBSET Patterns]
          /\ hit' \in [Devices -> Patterns] /\ vc_halt' \in BOOLEAN
      BY <1>1, <1>2
    <2>3. {rewrites', rekey_due', halts'} \subseteq [Devices -> BOOLEAN]
      BY <1>1, <1>2, <1>4
    <2>4. vc_found' \in Nat /\ reports' \in [Patterns -> Nat]
      BY <1>1, <1>2
    <2>5. live' \subseteq Patterns
      BY <1>1, <1>3
    <2>6. vc_pattern_generation' \in 0..Sys!Cardinality(Patterns)
      BY <1>1, <1>3, <1>5, <1>6
    <2> QED BY <2>1, <2>2, <2>3, <2>4, <2>5, <2>6 DEF Sys!TypeOK
  <1>10. ~Stops => ~vc_halt'
    BY <1>1, <1>2
  <1> QED BY <1>6, <1>7, <1>8, <1>9, <1>10 DEF DevicesInv

LEMMA DevicesKept ==
  ASSUME Sys!DevicesAssumed, DevicesInv, [Sys!Next]_(Sys!vars) PROVE DevicesInv'
  <1>1. ASSUME NEW d \in Devices, Sys!Step(d) PROVE DevicesInv'
    <2>1. CASE at_step[d] = "hit" /\ Sys!Settle(d) /\ hit[d] \in live
      BY <2>1, SettleKeeps
    <2>2. CASE ~(at_step[d] = "hit" /\ Sys!Settle(d) /\ hit[d] \in live)
      BY <1>1, <2>2, SteadySteps, SteadyKeeps
    <2> QED BY <2>1, <2>2
  <1>2. ASSUME UNCHANGED Sys!vars PROVE DevicesInv'
    BY <1>2 DEF DevicesInv, Sys!TypeOK, Sys!vars, Sys!lockvars, Sys!poolvars, Sys!devicevars
  <1>3. ASSUME Sys!StopThreads PROVE DevicesInv'
    BY <1>3 DEF Sys!StopThreads, DevicesInv, Sys!TypeOK, Sys!lockvars, Sys!devicevars
  <1> QED BY <1>1, <1>2, <1>3 DEF Sys!Next

LEMMA SystemInvariant == ASSUME Sys!DevicesAssumed PROVE Sys!SystemSpec => []DevicesInv
  <1>1. Sys!SystemInit => DevicesInv
    BY DevicesInit DEF Sys!SystemInit
  <1>2. DevicesInv /\ [Sys!SystemNext]_(Sys!systemvars) => DevicesInv'
    <2> SUFFICES ASSUME DevicesInv, [Sys!SystemNext]_(Sys!systemvars) PROVE DevicesInv'
      OBVIOUS
    <2>1. [Sys!Next]_(Sys!vars)
      BY DEF Sys!SystemNext, Sys!systemvars, Sys!Opening, Sys!Search
    <2> QED BY <2>1, DevicesKept
  <1> QED BY <1>1, <1>2, PTL DEF Sys!SystemSpec

\* Devices that find a pattern together report it once, and the generation of the patterns
\* never passes their number.
THEOREM DevicesReportOnce == ASSUME Sys!DevicesAssumed PROVE Sys!SystemSpec => []Sys!ReportsCounted
  <1>1. DevicesInv => Sys!ReportsCounted
    BY DEF DevicesInv, Sys!ReportsCounted, Sys!FoundOnce
  <1> QED BY <1>1, SystemInvariant, PTL

\* Nothing of the promise changes.
DevicesSame == UNCHANGED <<live, vc_found, reports, Sys!Sees, Sys!Stopped>>

LEMMA DevicesSameMaps == ASSUME DevicesSame PROVE UNCHANGED Sys!Abstract!vars
  BY DEF DevicesSame, Sys!Abstract!vars

\* One device has moved: what it sees, and whether it tests on.
LEMMA DeviceView ==
  ASSUME DevicesInv, NEW d \in Devices,
         at_step' = [at_step EXCEPT ![d] = at_step'[d]], halts' = [halts EXCEPT ![d] = halts'[d]],
         hit' = [hit EXCEPT ![d] = hit'[d]]
  PROVE /\ at_step'[d] = "hit" => Sys!Sees' = [Sys!Sees EXCEPT ![d] = {hit'[d]}]
        /\ at_step'[d] # "hit" => Sys!Sees' = [Sys!Sees EXCEPT ![d] = {}]
        /\ halts'[d] \/ at_step'[d] \in {"end", "gone"} => Sys!Stopped' = Sys!Stopped \cup {d}
        /\ ~(halts'[d] \/ at_step'[d] \in {"end", "gone"}) => Sys!Stopped' = Sys!Stopped \ {d}
  <1> USE DEF DeviceSteps
  <1>1. /\ at_step \in [Devices -> DeviceSteps]
        /\ halts \in [Devices -> BOOLEAN] /\ hit \in [Devices -> Patterns]
    BY DEF DevicesInv, Sys!TypeOK
  <1>2. \A e \in Devices : e # d => /\ at_step'[e] = at_step[e] /\ halts'[e] = halts[e]
                                    /\ hit'[e] = hit[e]
    BY <1>1
  <1>3. Sys!Sees' = [Sys!Sees EXCEPT ![d] = IF at_step'[d] = "hit" THEN {hit'[d]} ELSE {}]
    BY <1>2 DEF Sys!Sees
  <1>4. \A e : e \in Sys!Stopped' <=> e \in IF halts'[d] \/ at_step'[d] \in {"end", "gone"}
                                          THEN Sys!Stopped \cup {d} ELSE Sys!Stopped \ {d}
    BY <1>2 DEF Sys!Stopped
  <1> QED BY <1>3, <1>4

LEMMA DeviceTypes ==
  ASSUME DevicesInv, NEW d \in Devices
  PROVE /\ at_step \in [Devices -> DeviceSteps]
        /\ halts \in [Devices -> BOOLEAN] /\ hit \in [Devices -> Patterns]
        /\ live \subseteq Patterns
        /\ halts = [halts EXCEPT ![d] = halts[d]] /\ halts[d] \in BOOLEAN
        /\ hit = [hit EXCEPT ![d] = hit[d]]
        /\ halts[d] => at_step[d] \in {"yield", "loop", "end", "gone"}
        /\ Sys!Sees[d] = (IF at_step[d] = "hit" THEN {hit[d]} ELSE {})
        /\ Sys!Sees = [Sys!Sees EXCEPT ![d] = Sys!Sees[d]]
        /\ d \in Sys!Stopped <=> halts[d] \/ at_step[d] \in {"end", "gone"}
  BY DEF DeviceSteps, DevicesInv, Sys!TypeOK, Sys!Sees, Sys!Stopped

\* A device that moves on with nothing found, and stops no sooner and no later.
LEMMA QuietMaps ==
  ASSUME DevicesInv, NEW d \in Devices, NEW to,
         at_step' = [at_step EXCEPT ![d] = to], at_step[d] # "hit", to # "hit",
         UNCHANGED <<live, vc_found, reports, halts, hit>>,
         halts[d] \/ (to \in {"end", "gone"} <=> at_step[d] \in {"end", "gone"})
  PROVE DevicesSame
  <1>1. halts' = [halts EXCEPT ![d] = halts'[d]] /\ halts'[d] = halts[d]
        /\ hit' = [hit EXCEPT ![d] = hit'[d]]
        /\ at_step' = [at_step EXCEPT ![d] = at_step'[d]] /\ at_step'[d] = to
    BY DeviceTypes
  <1>2. Sys!Sees' = [Sys!Sees EXCEPT ![d] = {}]
    BY <1>1, DeviceView, DeviceTypes
  <1>3. Sys!Stopped' = Sys!Stopped
    <2>1. CASE halts[d] \/ to \in {"end", "gone"}
      <3>1. Sys!Stopped' = Sys!Stopped \cup {d} /\ d \in Sys!Stopped
        BY <1>1, <2>1, DeviceView, DeviceTypes
      <3> QED BY <3>1
    <2>2. CASE ~(halts[d] \/ to \in {"end", "gone"})
      <3>1. Sys!Stopped' = Sys!Stopped \ {d} /\ d \notin Sys!Stopped
        BY <1>1, <2>2, DeviceView, DeviceTypes
      <3> QED BY <3>1
    <2> QED BY <2>1, <2>2
  <1> QED BY <1>2, <1>3, DeviceTypes DEF DevicesSame

\* A device that stops while no pattern is left, or because it is told to.
LEMMA StopMaps ==
  ASSUME DevicesInv, NEW d \in Devices, NEW to,
         at_step' = [at_step EXCEPT ![d] = to], to # "hit",
         halts' = [halts EXCEPT ![d] = halts'[d]],
         UNCHANGED <<live, vc_found, reports, hit>>,
         halts'[d] \/ to \in {"end", "gone"}, d \notin Sys!Stopped,
         at_step[d] = "hit" => hit[d] \notin live, live = {} \/ Stops
  PROVE Sys!Abstract!Look(d)
  <1>1. /\ hit' = [hit EXCEPT ![d] = hit'[d]]
        /\ at_step' = [at_step EXCEPT ![d] = at_step'[d]] /\ at_step'[d] = to
    BY DeviceTypes
  <1>2. /\ Sys!Sees' = [Sys!Sees EXCEPT ![d] = {}]
        /\ Sys!Stopped' = Sys!Stopped \cup {d}
    BY <1>1, DeviceView
  <1>3. Sys!Sees[d] \cap live = {}
    BY DeviceTypes
  <1>4. live = {} \/ live \cap (IF Stops THEN Patterns ELSE {}) # {}
    BY DeviceTypes
  <1>5. Sys!Abstract!Looks(d, live)
    BY <1>2, <1>4 DEF Sys!Abstract!Looks
  <1> QED BY <1>3, <1>5 DEF Sys!Abstract!Look

LEMMA RefusedMaps ==
  ASSUME DevicesInv, NEW d \in Devices, Sys!Refused(d), at_step[d] \in {"check", "hit"},
         at_step[d] = "hit" => hit[d] \notin live
  PROVE DevicesSame \/ Sys!Abstract!Look(d)
  <1> USE DEF Sys!Go, Sys!Set
  <1>1. /\ at_step' = [at_step EXCEPT ![d] = "yield"]
        /\ UNCHANGED <<live, vc_found, reports, hit>>
    BY DEF Sys!Refused, Sys!poolvars
  <1>2. d \notin Sys!Stopped /\ ~halts[d]
    BY DeviceTypes
  <1>3. CASE live = {}
    <2>1. halts' = [halts EXCEPT ![d] = halts'[d]] /\ halts'[d]
      BY <1>3, DeviceTypes DEF Sys!Refused
    <2> QED BY <1>1, <1>2, <1>3, <2>1, StopMaps
  <1>4. CASE live # {}
    <2>1. /\ halts' = [halts EXCEPT ![d] = halts'[d]] /\ ~halts'[d]
          /\ hit' = [hit EXCEPT ![d] = hit'[d]]
          /\ at_step' = [at_step EXCEPT ![d] = at_step'[d]] /\ at_step'[d] = "yield"
      BY <1>1, <1>2, <1>4, DeviceTypes DEF Sys!Refused
    <2>2. Sys!Sees' = [Sys!Sees EXCEPT ![d] = {}] /\ Sys!Stopped' = Sys!Stopped \ {d}
      BY <1>1, <2>1, DeviceView
    <2>3. Sys!Sees[d] \cap live = {}
      BY DeviceTypes
    <2>4. Sys!Abstract!Looks(d, live)
      BY <1>2, <2>2 DEF Sys!Abstract!Looks
    <2> QED BY <1>1, <1>2, <2>3, <2>4 DEF Sys!Abstract!Look
  <1> QED BY <1>3, <1>4

LEMMA FoundMaps ==
  ASSUME DevicesInv, NEW d \in Devices, Sys!CheckHit(d) PROVE Sys!Abstract!Look(d)
  <1> USE DEF Sys!Go, Sys!Set
  <1>1. /\ at_step' = [at_step EXCEPT ![d] = "hit"] /\ at_step[d] = "check"
        /\ UNCHANGED <<live, vc_found, reports, halts>>
    BY DEF Sys!CheckHit, Sys!poolvars
  <1>2. PICK p \in live : hit' = [hit EXCEPT ![d] = p]
    BY DEF Sys!CheckHit
  <1>3. d \notin Sys!Stopped /\ ~halts[d]
    BY <1>1, DeviceTypes
  <1>4. /\ halts' = [halts EXCEPT ![d] = halts'[d]] /\ ~halts'[d]
        /\ hit' = [hit EXCEPT ![d] = hit'[d]] /\ hit'[d] = p
        /\ at_step' = [at_step EXCEPT ![d] = at_step'[d]] /\ at_step'[d] = "hit"
    BY <1>1, <1>2, <1>3, DeviceTypes
  <1>5. Sys!Sees' = [Sys!Sees EXCEPT ![d] = {p}] /\ Sys!Stopped' = Sys!Stopped \ {d}
    BY <1>1, <1>4, DeviceView
  <1>6. Sys!Sees[d] \cap live = {}
    BY <1>1, DeviceTypes
  <1>7. Sys!Abstract!Looks(d, live)
    BY <1>3, <1>5 DEF Sys!Abstract!Looks
  <1> QED BY <1>1, <1>3, <1>6, <1>7 DEF Sys!Abstract!Look

LEMMA SettleMaps ==
  ASSUME Sys!DevicesAssumed, DevicesInv, NEW d \in Devices, Sys!Settle(d), hit[d] \in live
  PROVE Sys!Abstract!Report(d)
  <1> USE DEF Sys!Go, Sys!Set
  <1>1. /\ at_step' = [at_step EXCEPT ![d] = "yield"] /\ at_step[d] = "hit"
        /\ vc_found' = vc_found + 1
        /\ reports' = [reports EXCEPT ![hit[d]] = @ + 1]
        /\ UNCHANGED hit
    BY DEF Sys!Settle, Sys!StillThere, Sys!Report
  <1>2. IF OnlyOne
        THEN /\ halts' = [halts EXCEPT ![d] = TRUE] /\ live' = live
        ELSE /\ live' = live \ {hit[d]}
             /\ halts' = [halts EXCEPT ![d] = live' = {}]
    BY DEF Sys!Settle, Sys!StillThere, Sys!Report
  <1>3. d \notin Sys!Stopped /\ Sys!Sees[d] = {hit[d]}
    BY <1>1, DeviceTypes
  <1>4. /\ hit' = [hit EXCEPT ![d] = hit'[d]]
        /\ at_step' = [at_step EXCEPT ![d] = at_step'[d]] /\ at_step'[d] = "yield"
    BY <1>1, DeviceTypes
  <1>5. live' = IF OnlyOne THEN live ELSE live \ {hit[d]}
    BY <1>2
  <1>6. /\ halts' = [halts EXCEPT ![d] = halts'[d]]
        /\ IF OnlyOne THEN halts'[d] ELSE halts'[d] <=> live' = {}
    BY <1>2, DeviceTypes
  <1>7. Sys!Sees' = [Sys!Sees EXCEPT ![d] = {}]
    BY <1>1, <1>2, <1>4, <1>6, DeviceView
  <1>8. IF OnlyOne THEN Sys!Stopped' = Sys!Stopped \cup {d} ELSE Sys!Abstract!Looks(d, live')
    <2>1. CASE OnlyOne
      BY <1>1, <1>4, <1>6, <2>1, DeviceView
    <2>2. CASE ~OnlyOne /\ live' = {}
      <3>1. Sys!Stopped' = Sys!Stopped \cup {d}
        BY <1>1, <1>4, <1>6, <2>2, DeviceView
      <3> QED BY <1>7, <2>2, <3>1 DEF Sys!Abstract!Looks
    <2>3. CASE ~OnlyOne /\ live' # {}
      <3>1. Sys!Stopped' = Sys!Stopped \ {d}
        BY <1>1, <1>4, <1>6, <2>3, DeviceView
      <3> QED BY <1>3, <1>7, <2>3, <3>1 DEF Sys!Abstract!Looks
    <2> QED BY <2>1, <2>2, <2>3
  <1>9. hit[d] \in Sys!Sees[d] \cap live
    BY <1>3
  <1>10. /\ ~FALSE /\ d \notin Sys!Stopped
         /\ vc_found' = vc_found + 1
         /\ reports' = [reports EXCEPT ![hit[d]] = @ + 1]
         /\ live' = IF OnlyOne THEN live ELSE live \ {hit[d]}
         /\ FALSE = (0 > 0 /\ vc_found' >= 0)
         /\ IF FALSE \/ OnlyOne
            THEN Sys!Sees' = [Sys!Sees EXCEPT ![d] = {}] /\ Sys!Stopped' = Sys!Stopped \cup {d}
            ELSE Sys!Abstract!Looks(d, live')
    BY <1>1, <1>3, <1>5, <1>7, <1>8
  <1> QED BY <1>9, <1>10 DEF Sys!Abstract!Report

\* Nothing else that a device does concerns the promise, but for a device that ends.
LEMMA StepMaps ==
  ASSUME Sys!DevicesAssumed, DevicesInv, NEW d \in Devices, Sys!Step(d)
  PROVE \/ DevicesSame
        \/ Sys!Abstract!Look(d)
        \/ Sys!Abstract!Report(d)
  <1> USE DEF Sys!Go, Sys!Set
  <1>1. CASE Sys!Settle(d)
    <2>1. CASE hit[d] \in live
      BY <1>1, <2>1, SettleMaps
    <2>2. CASE hit[d] \notin live
      BY <1>1, <2>2, RefusedMaps DEF Sys!Settle, Sys!StillThere
    <2> QED BY <2>1, <2>2
  <1>2. CASE Sys!CheckHit(d)
    BY <1>2, FoundMaps
  <1>3. CASE Sys!CheckStale(d)
    BY <1>3, RefusedMaps DEF Sys!CheckStale
  <1>4. CASE Sys!Reload(d)
    <2>1. /\ at_step[d] = "rekey" /\ UNCHANGED <<live, vc_found, reports, halts, hit>>
          /\ \/ at_step' = [at_step EXCEPT ![d] = "upgrade"]
             \/ live = {} /\ at_step' = [at_step EXCEPT ![d] = "end"]
      BY <1>4 DEF Sys!Reload, Sys!poolvars
    <2>2. d \notin Sys!Stopped /\ halts' = [halts EXCEPT ![d] = halts'[d]]
      BY <2>1, DeviceTypes
    <2>3. CASE at_step' = [at_step EXCEPT ![d] = "upgrade"]
      BY <2>1, <2>3, QuietMaps
    <2>4. CASE live = {} /\ at_step' = [at_step EXCEPT ![d] = "end"]
      BY <2>1, <2>2, <2>4, StopMaps
    <2> QED BY <2>1, <2>3, <2>4
  <1>5. CASE Sys!GoOn(d)
    <2>1. /\ at_step[d] = "loop" /\ UNCHANGED <<live, vc_found, reports, halts, hit>>
          /\ \/ at_step' = [at_step EXCEPT ![d] = "rekey"]
             \/ at_step' = [at_step EXCEPT ![d] = "check"]
             \/ (halts[d] \/ vc_halt) /\ at_step' = [at_step EXCEPT ![d] = "end"]
      BY <1>5 DEF Sys!GoOn, Sys!Ending, Sys!poolvars, Sys!devicevars
    <2>2. CASE \/ at_step' = [at_step EXCEPT ![d] = "rekey"]
               \/ at_step' = [at_step EXCEPT ![d] = "check"]
      BY <2>1, <2>2, QuietMaps
    <2>3. CASE halts[d] /\ at_step' = [at_step EXCEPT ![d] = "end"]
      BY <2>1, <2>3, QuietMaps
    <2>4. CASE ~halts[d] /\ vc_halt /\ at_step' = [at_step EXCEPT ![d] = "end"]
      <3>1. d \notin Sys!Stopped /\ halts' = [halts EXCEPT ![d] = halts'[d]]
        BY <2>1, <2>4, DeviceTypes
      <3>2. Stops
        BY <2>4 DEF DevicesInv
      <3> QED BY <2>1, <2>4, <3>1, <3>2, StopMaps
    <2> QED BY <2>1, <2>2, <2>3, <2>4
  <1>6. CASE Sys!NewKey(d) \/ Sys!KeyMade(d)
    <2>1. /\ at_step[d] \in {"upgrade", "keyed"} /\ UNCHANGED <<live, vc_found, reports, halts, hit>>
          /\ \/ at_step' = [at_step EXCEPT ![d] = "keyed"]
             \/ at_step' = [at_step EXCEPT ![d] = "loop"]
      BY <1>6 DEF Sys!NewKey, Sys!KeyMade, Sys!poolvars, Sys!devicevars
    <2> QED BY <2>1, QuietMaps
  <1>7. CASE Sys!CheckNothing(d) \/ Sys!Yielded(d)
    <2>1. /\ at_step[d] \in {"check", "yield"} /\ UNCHANGED <<live, vc_found, reports, halts, hit>>
          /\ \/ at_step' = [at_step EXCEPT ![d] = "yield"]
             \/ at_step' = [at_step EXCEPT ![d] = "loop"]
      BY <1>7 DEF Sys!CheckNothing, Sys!Yielded, Sys!poolvars, Sys!devicevars
    <2> QED BY <2>1, QuietMaps
  <1>8. CASE Sys!Leave(d)
    <2>1. /\ at_step[d] = "end" /\ UNCHANGED <<live, vc_found, reports, halts, hit>>
          /\ at_step' = [at_step EXCEPT ![d] = "gone"]
      BY <1>8 DEF Sys!Leave, Sys!poolvars, Sys!devicevars
    <2> QED BY <2>1, QuietMaps
  <1>9. CASE Sys!Request(d) \/ Sys!Downgrade(d) \/ Sys!DropShared(d) \/ Sys!Resume(d)
    BY <1>9 DEF Sys!Request, Sys!Downgrade, Sys!DropShared, Sys!Resume, Sys!poolvars,
                Sys!devicevars, DevicesSame, Sys!Sees, Sys!Stopped
  <1> QED BY <1>1, <1>2, <1>3, <1>4, <1>5, <1>6, <1>7, <1>8, <1>9 DEF Sys!Step

\* Devices, once they are open, keep the promise of a search (PatternSearch): none gives up a
\* match while its pattern is left, reports one that another has removed, or stops before
\* it is told to or nothing is left.
THEOREM DevicesRefinement ==
  ASSUME Sys!DevicesAssumed PROVE Sys!SystemSpec => Sys!Abstract!SafeSpec
  <1>1. Sys!SystemInit => Sys!Abstract!Init
    <2> SUFFICES ASSUME Sys!Init PROVE Sys!Abstract!Init
      BY DEF Sys!SystemInit
    <2>1. /\ OnlyOne \in BOOLEAN /\ live \subseteq Patterns /\ vc_found = 0
          /\ reports = [p \in Patterns |-> 0]
          /\ at_step = [d \in Devices |-> "rekey"] /\ halts = [d \in Devices |-> FALSE]
      BY DEF Sys!Init, Sys!DevicesAssumed
    <2>2. Sys!Sees = [d \in Devices |-> {}] /\ Sys!Stopped = {}
      BY <2>1 DEF Sys!Sees, Sys!Stopped
    <2> QED BY <2>1, <2>2 DEF Sys!Abstract!Init
  <1>2. DevicesInv /\ [Sys!SystemNext]_(Sys!systemvars) => [Sys!Abstract!Next]_(Sys!Abstract!vars)
    <2> SUFFICES ASSUME DevicesInv, [Sys!SystemNext]_(Sys!systemvars)
                 PROVE Sys!Abstract!Next \/ UNCHANGED Sys!Abstract!vars
      OBVIOUS
    <2>1. CASE UNCHANGED Sys!vars
      <3>1. DevicesSame
        BY <2>1 DEF Sys!vars, Sys!lockvars, Sys!poolvars, Sys!devicevars, DevicesSame,
                    Sys!Sees, Sys!Stopped
      <3> QED BY <3>1, DevicesSameMaps
    <2>2. ASSUME NEW d \in Devices, Sys!Step(d)
          PROVE Sys!Abstract!Next \/ UNCHANGED Sys!Abstract!vars
      BY <2>2, StepMaps, DevicesSameMaps DEF Sys!Abstract!Next
    <2>3. CASE Sys!StopThreads
      <3>1. DevicesSame
        BY <2>3 DEF Sys!StopThreads, Sys!devicevars, DevicesSame, Sys!Sees, Sys!Stopped
      <3> QED BY <3>1, DevicesSameMaps
    <2> QED BY <2>1, <2>2, <2>3 DEF Sys!SystemNext, Sys!systemvars, Sys!Opening, Sys!Search,
                                    Sys!Next
  <1> QED BY <1>1, <1>2, SystemInvariant, PTL DEF Sys!SystemSpec, Sys!Abstract!SafeSpec

-------------------------------------------------------------------------------
(* How the devices are opened (DeviceStart): which of a process's devices are among its *)
(* threads and have objects, and who still has to write a file of the directory.         *)

Opens == {"load", "build", "save", "write", "unlink", "kernels", "grid"}

StartTypes ==
  /\ Sys!Start!TypeOK
  /\ nth \in [Processes -> Nat]
  /\ vc_threads \in [Processes -> SUBSET Nat] /\ opened \in [Processes -> SUBSET Nat]
  /\ lost \in [Processes -> SUBSET Nat]
  /\ objects \in [Processes -> SUBSET (Nat \X Sys!Start!Kinds)]

\* The devices of a process: those not reached yet, the one that is opened, those tried.
Untried(p, d) == d > nth[p] \/ (d = nth[p] /\ at[p] = "open")

SlotsRight(p) ==
  /\ at[p] \in {"start", "exit", "search"} => nth[p] = Len(Hash[p]) + 1
  /\ at[p] \in Opens \cup {"open"} => nth[p] <= Len(Hash[p])
  /\ at[p] # "dead" => \A d \in 1..Len(Hash[p]) :
       /\ Untried(p, d) => /\ d \notin vc_threads[p] \cup opened[p]
                           /\ \A k \in Sys!Start!Kinds : <<d, k>> \notin objects[p]
       /\ d = nth[p] /\ at[p] \in Opens =>
            /\ d \in vc_threads[p] /\ d \notin opened[p]
            /\ <<d, "context">> \in objects[p] /\ <<d, "queue">> \in objects[p]
            /\ <<d, "program">> \in objects[p] <=> at[p] \notin {"load", "build"}
       /\ d < nth[p] /\ d \notin lost[p] =>
            /\ d \in vc_threads[p] <=> d \in opened[p]
            /\ \A k \in Sys!Start!Kinds \ {"kernels"} :
                 <<d, k>> \in objects[p] <=> d \in opened[p]

\* A file is called after a device of its name, and its writer is one of that name.
Owner(f) == Hash[f[1]][f[2]]

OwnersRight ==
  /\ \A n \in Names : file[n] # NoFile => file[n] \in Sys!Start!Files /\ Owner(file[n]) = n
  /\ \A p \in Processes : at[p] = "write" =>
       kfp[p] \in Sys!Start!Files /\ Owner(kfp[p]) = Sys!Start!Name(p)

\* What a file lacks is still to be written, or the file to be unlinked.
Mends(p, n, b) == \/ at[p] = "write" /\ kfp[p] = file[n] /\ offset[p] < b
                  \/ at[p] = "unlink" /\ Sys!Start!Name(p) = n

CacheInv == ~died =>
  \A n \in Names, b \in 1..Blocks :
    file[n] # NoFile /\ b \notin binary[file[n]] => \E p \in Processes : Mends(p, n, b)

StartInv == /\ StartTypes /\ OwnersRight /\ CacheInv
            /\ \A p \in Processes : SlotsRight(p)

LEMMA HashFacts ==
  ASSUME Sys!Start!StartAssumption, NEW p \in Processes
  PROVE /\ Len(Hash[p]) \in Nat /\ Len(Hash[p]) >= 1
        /\ Sys!Start!DevicesOf(p) = 1..Len(Hash[p])
        /\ \A d \in 1..Len(Hash[p]) : /\ Hash[p][d] \in Names
                                      /\ <<p, d>> \in Sys!Start!Files
  <1>1. Hash[p] \in Seq(Names) /\ Hash[p] # <<>>
    BY DEF Sys!Start!StartAssumption
  <1>2. Sys!Start!DevicesOf(p) = 1..Len(Hash[p])
    BY <1>1 DEF Sys!Start!DevicesOf
  <1>3. \A d \in 1..Len(Hash[p]) : <<p, d>> \in Sys!Start!Files
    BY <1>2 DEF Sys!Start!Files
  <1> QED BY <1>1, <1>2, <1>3

\* A step is of one process, whose own variables it changes.
Own(p) == /\ at' = [at EXCEPT ![p] = at'[p]] /\ nth' = [nth EXCEPT ![p] = nth'[p]]
          /\ kfp' = [kfp EXCEPT ![p] = kfp'[p]] /\ offset' = [offset EXCEPT ![p] = offset'[p]]
          /\ vc_threads' = [vc_threads EXCEPT ![p] = vc_threads'[p]]
          /\ opened' = [opened EXCEPT ![p] = opened'[p]]
          /\ objects' = [objects EXCEPT ![p] = objects'[p]]
          /\ lost' = [lost EXCEPT ![p] = lost'[p]]

LEMMA OwnOnly ==
  ASSUME Sys!Start!StartAssumption, StartInv, NEW p \in Processes, Sys!Start!Step(p)
  PROVE Own(p)
  <1> USE DEF Sys!Start!Go, Sys!Start!Put, Sys!Start!Tried, Sys!Start!Lose, Sys!Start!Listed,
              Sys!Start!Created, Sys!Start!Released, Sys!Start!dirvars, Sys!Start!devicevars
  <1>1. /\ nth \in [Processes -> Nat]
        /\ vc_threads \in [Processes -> SUBSET Nat] /\ opened \in [Processes -> SUBSET Nat]
        /\ lost \in [Processes -> SUBSET Nat]
        /\ objects \in [Processes -> SUBSET (Nat \X Sys!Start!Kinds)]
        /\ DOMAIN at = Processes /\ at = [q \in Processes |-> at[q]]
        /\ DOMAIN kfp = Processes /\ kfp = [q \in Processes |-> kfp[q]]
        /\ DOMAIN offset = Processes /\ offset = [q \in Processes |-> offset[q]]
    BY DEF StartInv, StartTypes, Sys!Start!TypeOK
  <1>2. CASE Sys!Start!NoDevice(p) \/ Sys!Start!Open(p) \/ Sys!Start!OpenFails(p)
    BY <1>1, <1>2 DEF Sys!Start!NoDevice, Sys!Start!Open, Sys!Start!OpenFails, Own
  <1>3. CASE Sys!Start!LoadSource(p) \/ Sys!Start!LoadBinary(p) \/ Sys!Start!LoadShort(p)
    BY <1>1, <1>3 DEF Sys!Start!LoadSource, Sys!Start!LoadBinary, Sys!Start!LoadShort, Own
  <1>4. CASE Sys!Start!Build(p) \/ Sys!Start!BuildFails(p) \/ Sys!Start!SkipSave(p)
    BY <1>1, <1>4 DEF Sys!Start!Build, Sys!Start!BuildFails, Sys!Start!SkipSave, Own
  <1>5. CASE Sys!Start!OpenFile(p) \/ Sys!Start!Write(p) \/ Sys!Start!Close(p)
    BY <1>1, <1>5 DEF Sys!Start!OpenFile, Sys!Start!Write, Sys!Start!Close, Own
  <1>6. CASE Sys!Start!Unlink(p) \/ Sys!Start!Start(p) \/ Sys!Start!Die(p)
    BY <1>1, <1>6 DEF Sys!Start!Unlink, Sys!Start!Start, Sys!Start!Die, Own
  <1>7. CASE Sys!Start!CreateKernels(p)
    BY <1>1, <1>7 DEF Sys!Start!CreateKernels, Own
  <1>8. CASE Sys!Start!CreateFails(p)
    BY <1>1, <1>8 DEF Sys!Start!CreateFails, Own
  <1>9. CASE Sys!Start!GridFits(p) \/ Sys!Start!GridFails(p)
    BY <1>1, <1>9 DEF Sys!Start!GridFits, Sys!Start!GridFails, Own
  <1> QED BY <1>2, <1>3, <1>4, <1>5, <1>6, <1>7, <1>8, <1>9 DEF Sys!Start!Step

LEMMA StartInit == ASSUME Sys!Start!StartAssumption, Sys!Start!Init PROVE StartInv
  <1>1. StartTypes
    <2>1. \A p \in Processes : nth[p] = 1 /\ 1 \in 1..Len(Hash[p]) + 1
      BY HashFacts DEF Sys!Start!Init
    <2>2. Blocks \in Nat
      BY DEF Sys!Start!StartAssumption
    <2>3. /\ file \in [Names -> Sys!Start!Files \cup {NoFile}]
          /\ binary \in [Sys!Start!Files -> SUBSET Sys!Start!Whole]
          /\ at \in [Processes -> {"open", "load", "build", "save", "write", "unlink", "kernels",
                           "grid", "start", "exit", "search", "dead"}]
          /\ fromsource \in [Processes -> BOOLEAN]
          /\ kfp \in [Processes -> Sys!Start!Files \cup {NoFile}] /\ died \in BOOLEAN
      BY DEF Sys!Start!Init
    <2>4. offset \in [Processes -> 0..Blocks]
      BY <2>2 DEF Sys!Start!Init
    <2>5. \A p \in Processes :
            /\ vc_threads[p] \cup opened[p] \cup lost[p] \subseteq Sys!Start!DevicesOf(p)
            /\ objects[p] \subseteq Sys!Start!DevicesOf(p) \X Sys!Start!Kinds
      BY DEF Sys!Start!Init
    <2>6. Sys!Start!TypeOK
      BY <2>1, <2>3, <2>4, <2>5 DEF Sys!Start!TypeOK
    <2>7. /\ nth \in [Processes -> Nat]
          /\ vc_threads \in [Processes -> SUBSET Nat] /\ opened \in [Processes -> SUBSET Nat]
          /\ lost \in [Processes -> SUBSET Nat]
          /\ objects \in [Processes -> SUBSET (Nat \X Sys!Start!Kinds)]
      BY DEF Sys!Start!Init
    <2> QED BY <2>6, <2>7 DEF StartTypes
  <1>2. OwnersRight
    BY DEF Sys!Start!Init, OwnersRight
  <1>3. CacheInv
    BY DEF Sys!Start!Init, CacheInv
  <1>4. ASSUME NEW p \in Processes PROVE SlotsRight(p)
    <2>1. nth[p] = 1 /\ at[p] = "open" /\ vc_threads[p] = {} /\ opened[p] = {} /\ objects[p] = {}
      BY DEF Sys!Start!Init
    <2> QED BY <2>1, HashFacts DEF SlotsRight, Untried, Opens
  <1> QED BY <1>1, <1>2, <1>3, <1>4 DEF StartInv

\* A step leaves the other devices of the process alone,
OthersAlone(p) == \A d \in Nat \ {nth[p]} :
  /\ d \in vc_threads'[p] <=> d \in vc_threads[p]
  /\ d \in opened'[p] <=> d \in opened[p]
  /\ d \in lost'[p] <=> d \in lost[p]
  /\ \A k \in Sys!Start!Kinds : <<d, k>> \in objects'[p] <=> <<d, k>> \in objects[p]

\* and a device that was tried is lost, or counted as its objects and its thread say.
TriedRight(p) == nth[p] \notin lost'[p] =>
  /\ nth[p] \in vc_threads'[p] <=> nth[p] \in opened'[p]
  /\ \A k \in Sys!Start!Kinds \ {"kernels"} :
       <<nth[p], k>> \in objects'[p] <=> nth[p] \in opened'[p]

LEMMA TriedKeeps ==
  ASSUME NEW p \in Processes, nth \in [Processes -> Nat], DOMAIN at = Processes,
         Len(Hash[p]) \in Nat, SlotsRight(p), at[p] \in Opens \cup {"open"},
         Sys!Start!Tried(p), OthersAlone(p), TriedRight(p)
  PROVE SlotsRight(p)'
  <1> DEFINE n == nth[p]
             to == IF n < Len(Hash[p]) THEN "open" ELSE "start"
  <1>1. nth'[p] = n + 1 /\ at'[p] = to /\ n \in Nat /\ n <= Len(Hash[p])
    BY DEF Sys!Start!Tried, Sys!Start!Put, Sys!Start!Go, SlotsRight
  <1>2. /\ at'[p] \in {"start", "exit", "search"} => nth'[p] = Len(Hash[p]) + 1
        /\ at'[p] \in Opens \cup {"open"} => nth'[p] <= Len(Hash[p])
        /\ at'[p] \notin Opens
    BY <1>1 DEF Opens
  <1>3. ASSUME NEW d \in 1..Len(Hash[p]), Untried(p, d)'
        PROVE /\ d \notin vc_threads'[p] \cup opened'[p]
              /\ \A k \in Sys!Start!Kinds : <<d, k>> \notin objects'[p]
    <2>1. d \in Nat \ {nth[p]} /\ d > nth[p]
      BY <1>1, <1>3 DEF Untried
    <2>2. /\ d \notin vc_threads[p] \cup opened[p]
          /\ \A k \in Sys!Start!Kinds : <<d, k>> \notin objects[p]
      BY <2>1 DEF SlotsRight, Untried, Opens
    <2> QED BY <2>1, <2>2 DEF OthersAlone
  <1>4. ASSUME NEW d \in 1..Len(Hash[p]), d < nth'[p], d \notin lost'[p]
        PROVE /\ d \in vc_threads'[p] <=> d \in opened'[p]
              /\ \A k \in Sys!Start!Kinds \ {"kernels"} :
                   <<d, k>> \in objects'[p] <=> d \in opened'[p]
    <2>1. CASE d = nth[p]
      BY <1>4, <2>1 DEF TriedRight
    <2>2. CASE d # nth[p]
      <3>1. d \in Nat \ {nth[p]} /\ d < nth[p] /\ d \notin lost[p]
        BY <1>1, <1>4, <2>2 DEF OthersAlone
      <3>2. /\ d \in vc_threads[p] <=> d \in opened[p]
            /\ \A k \in Sys!Start!Kinds \ {"kernels"} :
                 <<d, k>> \in objects[p] <=> d \in opened[p]
        BY <3>1 DEF SlotsRight, Opens
      <3> QED BY <3>1, <3>2 DEF OthersAlone
    <2> QED BY <2>1, <2>2
  <1> HIDE DEF n, to
  <1> QED BY <1>2, <1>3, <1>4 DEF SlotsRight

\* The devices: each action leaves a device where its place says.
LEMMA SlotsKept ==
  ASSUME Sys!Start!StartAssumption, StartInv, NEW p \in Processes, Sys!Start!Step(p)
  PROVE SlotsRight(p)'
  <1> USE DEF Sys!Start!Go, Sys!Start!Put, Sys!Start!Tried, Sys!Start!Lose, Sys!Start!Listed,
              Sys!Start!Created, Sys!Start!Released, Sys!Start!dirvars, Sys!Start!devicevars
  <1>1. /\ nth \in [Processes -> Nat]
        /\ vc_threads \in [Processes -> SUBSET Nat] /\ opened \in [Processes -> SUBSET Nat]
        /\ lost \in [Processes -> SUBSET Nat]
        /\ objects \in [Processes -> SUBSET (Nat \X Sys!Start!Kinds)]
        /\ DOMAIN at = Processes /\ nth[p] \in 1..Len(Hash[p]) + 1
    BY DEF StartInv, StartTypes, Sys!Start!TypeOK
  <1>2. SlotsRight(p) /\ Len(Hash[p]) \in Nat /\ Len(Hash[p]) >= 1
    BY HashFacts DEF StartInv
  <1> USE DEF Sys!Start!Kinds
  <1>3. CASE Sys!Start!NoDevice(p)
    <2>1. at[p] \in Opens \cup {"open"} /\ Sys!Start!Tried(p)
      BY <1>3 DEF Sys!Start!NoDevice, Opens
    <2>2. OthersAlone(p)
      BY <1>1, <1>3 DEF Sys!Start!NoDevice, OthersAlone
    <2>3. TriedRight(p)
      <3>1. at[p] = "open" /\ UNCHANGED <<vc_threads, opened, objects, lost>>
        BY <1>3 DEF Sys!Start!NoDevice
      <3>2. nth[p] \in 1..Len(Hash[p])
        BY <1>1, <1>2, <3>1 DEF SlotsRight
      <3>3. /\ nth[p] \notin vc_threads[p] \cup opened[p]
            /\ \A k \in Sys!Start!Kinds : <<nth[p], k>> \notin objects[p]
        BY <1>2, <3>1, <3>2 DEF SlotsRight, Untried
      <3> QED BY <3>1, <3>3 DEF TriedRight
    <2> QED BY <1>1, <1>2, <2>1, <2>2, <2>3, TriedKeeps
  <1>4. CASE Sys!Start!Open(p)
    <2>1. /\ at[p] = "open" /\ at'[p] = "load" /\ nth'[p] = nth[p] /\ nth[p] \in 1..Len(Hash[p])
          /\ vc_threads'[p] = vc_threads[p] \cup {nth[p]} /\ UNCHANGED <<opened, lost>>
          /\ objects'[p] = objects[p] \cup ({nth[p]} \X {"context", "queue"})
      BY <1>1, <1>2, <1>4 DEF Sys!Start!Open, SlotsRight
    <2>2. OthersAlone(p)
      BY <1>1, <1>4 DEF Sys!Start!Open, OthersAlone
    <2>3. /\ nth[p] \notin vc_threads[p] \cup opened[p]
          /\ \A k \in Sys!Start!Kinds : <<nth[p], k>> \notin objects[p]
      BY <1>2, <2>1 DEF SlotsRight, Untried
    <2>4. ASSUME NEW d \in 1..Len(Hash[p]), Untried(p, d)'
          PROVE /\ d \notin vc_threads'[p] \cup opened'[p]
                /\ \A k \in Sys!Start!Kinds : <<d, k>> \notin objects'[p]
      <3>1. d > nth[p] /\ d \in Nat \ {nth[p]}
        BY <2>1, <2>4 DEF Untried
      <3>2. /\ d \notin vc_threads[p] \cup opened[p]
            /\ \A k \in Sys!Start!Kinds : <<d, k>> \notin objects[p]
        BY <1>2, <2>1, <3>1 DEF SlotsRight, Untried
      <3> QED BY <2>2, <3>1, <3>2 DEF OthersAlone
    <2>5. ASSUME NEW d \in 1..Len(Hash[p]), d = nth[p]
          PROVE /\ d \in vc_threads'[p] /\ d \notin opened'[p]
                /\ <<d, "context">> \in objects'[p] /\ <<d, "queue">> \in objects'[p]
                /\ <<d, "program">> \notin objects'[p]
      BY <2>1, <2>3, <2>5
    <2>6. ASSUME NEW d \in 1..Len(Hash[p]), d < nth'[p], d \notin lost'[p]
          PROVE /\ d \in vc_threads'[p] <=> d \in opened'[p]
                /\ \A k \in Sys!Start!Kinds \ {"kernels"} :
                     <<d, k>> \in objects'[p] <=> d \in opened'[p]
      <3>1. d < nth[p] /\ d \in Nat \ {nth[p]} /\ d \notin lost[p]
        BY <2>1, <2>6
      <3>2. /\ d \in vc_threads[p] <=> d \in opened[p]
            /\ \A k \in Sys!Start!Kinds \ {"kernels"} :
                 <<d, k>> \in objects[p] <=> d \in opened[p]
        BY <1>2, <2>1, <3>1 DEF SlotsRight
      <3> QED BY <2>2, <3>1, <3>2 DEF OthersAlone
    <2> QED BY <2>1, <2>4, <2>5, <2>6 DEF SlotsRight, Opens
  <1>5. CASE Sys!Start!OpenFails(p)
    <2>1. at[p] \in Opens \cup {"open"} /\ Sys!Start!Tried(p)
      BY <1>5 DEF Sys!Start!OpenFails, Opens
    <2>2. OthersAlone(p)
      BY <1>1, <1>5 DEF Sys!Start!OpenFails, OthersAlone
    <2>3. TriedRight(p)
      BY <1>1, <1>2, <1>5 DEF Sys!Start!OpenFails, TriedRight, SlotsRight, Untried, Opens
    <2> QED BY <1>1, <1>2, <2>1, <2>2, <2>3, TriedKeeps
  <1>6. CASE Sys!Start!LoadSource(p) \/ Sys!Start!LoadBinary(p)
    BY <1>1, <1>2, <1>6 DEF Sys!Start!LoadSource, Sys!Start!LoadBinary, SlotsRight, Untried, Opens
  <1>7. CASE Sys!Start!LoadShort(p)
    <2>1. at[p] \in Opens \cup {"open"} /\ Sys!Start!Tried(p)
      BY <1>7 DEF Sys!Start!LoadShort, Sys!Start!ReadsShort, Opens
    <2>2. OthersAlone(p)
      BY <1>1, <1>7 DEF Sys!Start!LoadShort, OthersAlone
    <2>3. TriedRight(p)
      BY <1>1, <1>2, <1>7 DEF Sys!Start!LoadShort, TriedRight, SlotsRight, Untried, Opens
    <2> QED BY <1>1, <1>2, <2>1, <2>2, <2>3, TriedKeeps
  <1>8. CASE Sys!Start!Build(p)
    BY <1>1, <1>2, <1>8 DEF Sys!Start!Build, SlotsRight, Untried, Opens
  <1>9. CASE Sys!Start!BuildFails(p)
    <2>1. at[p] \in Opens \cup {"open"} /\ Sys!Start!Tried(p)
      BY <1>9 DEF Sys!Start!BuildFails, Opens
    <2>2. OthersAlone(p)
      BY <1>1, <1>9 DEF Sys!Start!BuildFails, OthersAlone
    <2>3. TriedRight(p)
      BY <1>1, <1>2, <1>9 DEF Sys!Start!BuildFails, TriedRight, SlotsRight, Untried, Opens
    <2> QED BY <1>1, <1>2, <2>1, <2>2, <2>3, TriedKeeps
  <1>10. CASE Sys!Start!SkipSave(p) \/ Sys!Start!OpenFile(p)
    BY <1>1, <1>2, <1>10 DEF Sys!Start!SkipSave, Sys!Start!OpenFile, SlotsRight, Untried, Opens
  <1>11. CASE Sys!Start!Write(p)
    BY <1>1, <1>2, <1>11 DEF Sys!Start!Write, SlotsRight, Untried, Opens
  <1>12. CASE Sys!Start!Close(p) \/ Sys!Start!Unlink(p)
    BY <1>1, <1>2, <1>12 DEF Sys!Start!Close, Sys!Start!Unlink, SlotsRight, Untried, Opens
  <1>13. CASE Sys!Start!CreateKernels(p)
    BY <1>1, <1>2, <1>13 DEF Sys!Start!CreateKernels, SlotsRight, Untried, Opens
  <1>14. CASE Sys!Start!CreateFails(p)
    <2>1. at[p] \in Opens \cup {"open"} /\ Sys!Start!Tried(p)
      BY <1>14 DEF Sys!Start!CreateFails, Opens
    <2>2. OthersAlone(p)
      BY <1>1, <1>14 DEF Sys!Start!CreateFails, OthersAlone
    <2>3. TriedRight(p)
      BY <1>1, <1>2, <1>14 DEF Sys!Start!CreateFails, TriedRight, SlotsRight, Untried, Opens
    <2> QED BY <1>1, <1>2, <2>1, <2>2, <2>3, TriedKeeps
  <1>15. CASE Sys!Start!GridFits(p)
    <2>1. at[p] \in Opens \cup {"open"} /\ Sys!Start!Tried(p)
      BY <1>15 DEF Sys!Start!GridFits, Opens
    <2>2. OthersAlone(p)
      BY <1>1, <1>15 DEF Sys!Start!GridFits, OthersAlone
    <2>3. TriedRight(p)
      <3>1. at[p] = "grid"
        BY <1>15 DEF Sys!Start!GridFits
      <3>2. nth[p] \in 1..Len(Hash[p])
        BY <1>1, <1>2, <3>1 DEF SlotsRight, Opens
      <3>3. /\ nth[p] \in vc_threads[p] /\ nth[p] \notin opened[p]
            /\ <<nth[p], "context">> \in objects[p] /\ <<nth[p], "queue">> \in objects[p]
            /\ <<nth[p], "program">> \in objects[p]
        BY <1>2, <3>1, <3>2 DEF SlotsRight, Opens
      <3> QED BY <1>1, <1>15, <3>3 DEF Sys!Start!GridFits, TriedRight
    <2> QED BY <1>1, <1>2, <2>1, <2>2, <2>3, TriedKeeps
  <1>16. CASE Sys!Start!GridFails(p)
    <2>1. at[p] \in Opens \cup {"open"} /\ Sys!Start!Tried(p)
      BY <1>16 DEF Sys!Start!GridFails, Opens
    <2>2. OthersAlone(p)
      BY <1>1, <1>16 DEF Sys!Start!GridFails, OthersAlone
    <2>3. TriedRight(p)
      <3>1. at[p] = "grid"
        BY <1>16 DEF Sys!Start!GridFails
      <3>2. nth[p] \in 1..Len(Hash[p])
        BY <1>1, <1>2, <3>1 DEF SlotsRight, Opens
      <3>3. /\ nth[p] \in vc_threads[p] /\ nth[p] \notin opened[p]
            /\ <<nth[p], "context">> \in objects[p] /\ <<nth[p], "queue">> \in objects[p]
            /\ <<nth[p], "program">> \in objects[p]
        BY <1>2, <3>1, <3>2 DEF SlotsRight, Opens
      <3> QED BY <1>1, <1>16, <3>3 DEF Sys!Start!GridFails, TriedRight
    <2> QED BY <1>1, <1>2, <2>1, <2>2, <2>3, TriedKeeps
  <1>17. CASE Sys!Start!Start(p)
    BY <1>1, <1>2, <1>17 DEF Sys!Start!Start, SlotsRight, Untried, Opens
  <1>18. CASE Sys!Start!Die(p)
    BY <1>1, <1>2, <1>18 DEF Sys!Start!Die, SlotsRight, Untried, Opens
  <1> QED BY <1>3, <1>4, <1>5, <1>6, <1>7, <1>8, <1>9, <1>10, <1>11, <1>12, <1>13, <1>14, <1>15,
             <1>16, <1>17, <1>18 DEF Sys!Start!Step

LEMMA TypesKept ==
  ASSUME Sys!Start!StartAssumption, StartInv, NEW p \in Processes, Sys!Start!Step(p)
  PROVE StartTypes'
  <1> USE DEF Sys!Start!Go, Sys!Start!Put, Sys!Start!Tried, Sys!Start!Lose, Sys!Start!Listed,
              Sys!Start!Created, Sys!Start!Released, Sys!Start!dirvars, Sys!Start!devicevars
  <1> DEFINE Places == {"open", "load", "build", "save", "write", "unlink", "kernels",
                        "grid", "start", "exit", "search", "dead"}
             Device == 1..Len(Hash[p])
  <1>1. /\ file \in [Names -> Sys!Start!Files \cup {NoFile}]
        /\ binary \in [Sys!Start!Files -> SUBSET Sys!Start!Whole]
        /\ at \in [Processes -> Places]
        /\ fromsource \in [Processes -> BOOLEAN]
        /\ kfp \in [Processes -> Sys!Start!Files \cup {NoFile}]
        /\ offset \in [Processes -> 0..Blocks]
        /\ died \in BOOLEAN
    BY DEF StartInv, StartTypes, Sys!Start!TypeOK
  <1>2. /\ nth \in [Processes -> Nat]
        /\ vc_threads \in [Processes -> SUBSET Nat] /\ opened \in [Processes -> SUBSET Nat]
        /\ lost \in [Processes -> SUBSET Nat]
        /\ objects \in [Processes -> SUBSET (Nat \X Sys!Start!Kinds)]
    BY DEF StartInv, StartTypes
  <1>3. \A q \in Processes :
          /\ nth[q] \in 1..Len(Hash[q]) + 1
          /\ vc_threads[q] \cup opened[q] \cup lost[q] \subseteq 1..Len(Hash[q])
          /\ objects[q] \subseteq (1..Len(Hash[q])) \X Sys!Start!Kinds
    BY HashFacts DEF StartInv, StartTypes, Sys!Start!TypeOK
  <1>4. Len(Hash[p]) \in Nat /\ SlotsRight(p) /\ Blocks \in Nat
    BY HashFacts DEF StartInv, Sys!Start!StartAssumption
  <1>5. at[p] \in Opens \cup {"open"} => nth[p] \in Device
    BY <1>3, <1>4 DEF SlotsRight
  <1>6. \A d \in Device : Hash[p][d] \in Names /\ <<p, d>> \in Sys!Start!Files
    BY HashFacts
  <1>7. /\ at'[p] \in Places /\ nth'[p] \in 1..Len(Hash[p]) + 1
        /\ kfp'[p] \in Sys!Start!Files \cup {NoFile} /\ offset'[p] \in 0..Blocks
        /\ fromsource' \in [Processes -> BOOLEAN] /\ died' \in BOOLEAN
        /\ vc_threads'[p] \cup opened'[p] \cup lost'[p] \subseteq Device
        /\ objects'[p] \subseteq Device \X Sys!Start!Kinds
        /\ file' \in [Names -> Sys!Start!Files \cup {NoFile}]
        /\ binary' \in [Sys!Start!Files -> SUBSET Sys!Start!Whole]
    <2> HIDE DEF Places
    <2>0. Places = {"open", "load", "build", "save", "write", "unlink", "kernels",
                        "grid", "start", "exit", "search", "dead"}
      BY DEF Places
    <2>1. ASSUME UNCHANGED Sys!Start!dirvars
          PROVE /\ kfp'[p] \in Sys!Start!Files \cup {NoFile} /\ offset'[p] \in 0..Blocks
                /\ died' \in BOOLEAN
                /\ file' \in [Names -> Sys!Start!Files \cup {NoFile}]
                /\ binary' \in [Sys!Start!Files -> SUBSET Sys!Start!Whole]
      BY <1>1, <2>1
    <2>2. ASSUME UNCHANGED Sys!Start!devicevars
          PROVE /\ vc_threads'[p] \cup opened'[p] \cup lost'[p] \subseteq Device
                /\ objects'[p] \subseteq Device \X Sys!Start!Kinds
      BY <1>3, <2>2
    <2>3. ASSUME at[p] \in Opens \cup {"open"}, Sys!Start!Tried(p)
          PROVE at'[p] \in Places /\ nth'[p] \in 1..Len(Hash[p]) + 1
      BY <1>1, <1>2, <1>4, <1>5, <2>0, <2>3
    <2>4. CASE Sys!Start!NoDevice(p)
      BY <1>1, <2>1, <2>2, <2>3, <2>4 DEF Sys!Start!NoDevice
    <2>5. CASE Sys!Start!Open(p)
      <3>1. nth[p] \in Device /\ at'[p] \in Places /\ nth'[p] = nth[p]
        BY <1>1, <1>5, <2>0, <2>5 DEF Sys!Start!Open
      <3>2. vc_threads'[p] = vc_threads[p] \cup {nth[p]}
        BY <1>2, <2>5 DEF Sys!Start!Open
      <3>3. objects'[p] = objects[p] \cup ({nth[p]} \X {"context", "queue"})
        BY <1>2, <2>5 DEF Sys!Start!Open
      <3> QED BY <1>1, <1>3, <2>1, <2>5, <3>1, <3>2, <3>3 DEF Sys!Start!Open, Sys!Start!Kinds
    <2>6. CASE Sys!Start!OpenFails(p)
      <3>1. nth[p] \in Device
        BY <1>5, <2>6 DEF Sys!Start!OpenFails
      <3>2. vc_threads'[p] = vc_threads[p] \cup {nth[p]} /\ lost'[p] = lost[p] \cup {nth[p]}
        BY <1>2, <2>6 DEF Sys!Start!OpenFails
      <3>3. objects'[p] \subseteq objects[p] \cup ({nth[p]} \X {"context"})
        BY <1>2, <2>6 DEF Sys!Start!OpenFails
      <3> QED BY <1>1, <1>3, <2>1, <2>3, <2>6, <3>1, <3>2, <3>3 DEF Sys!Start!OpenFails, Sys!Start!Kinds
    <2>7. CASE Sys!Start!LoadSource(p) \/ Sys!Start!LoadBinary(p) \/ Sys!Start!SkipSave(p)
      BY <1>1, <1>3, <2>0, <2>1, <2>2, <2>7 DEF Sys!Start!LoadSource, Sys!Start!LoadBinary, Sys!Start!SkipSave
    <2>8. CASE Sys!Start!LoadShort(p) \/ Sys!Start!BuildFails(p)
      <3>1. at[p] \in Opens /\ Sys!Start!Tried(p) /\ lost'[p] = lost[p] \cup {nth[p]}
            /\ UNCHANGED <<fromsource, vc_threads, opened, objects>> /\ UNCHANGED Sys!Start!dirvars
        BY <1>2, <2>8 DEF Sys!Start!LoadShort, Sys!Start!ReadsShort, Sys!Start!BuildFails, Opens
      <3> QED BY <1>1, <1>3, <1>5, <2>1, <2>3, <3>1
    <2>9. CASE Sys!Start!Build(p)
      <3>1. nth[p] \in Device /\ at'[p] \in Places /\ nth'[p] = nth[p]
        BY <1>1, <1>5, <2>0, <2>9 DEF Sys!Start!Build, Opens
      <3>2. objects'[p] = objects[p] \cup ({nth[p]} \X {"program"})
        BY <1>2, <2>9 DEF Sys!Start!Build
      <3> QED BY <1>1, <1>3, <2>1, <2>9, <3>1, <3>2 DEF Sys!Start!Build, Sys!Start!Kinds
    <2>10. CASE Sys!Start!OpenFile(p)
      <3>1. nth[p] \in Device
        BY <1>5, <2>10 DEF Sys!Start!OpenFile, Opens
      <3>2. Sys!Start!Name(p) \in Names
        BY <1>6, <3>1 DEF Sys!Start!Name
      <3>3. Sys!Start!Target(p) \in Sys!Start!Files
        BY <1>1, <1>6, <3>1, <3>2 DEF Sys!Start!Target
      <3>4. file' \in [Names -> Sys!Start!Files \cup {NoFile}]
        BY <1>1, <2>10, <3>2, <3>3 DEF Sys!Start!OpenFile
      <3>5. binary' \in [Sys!Start!Files -> SUBSET Sys!Start!Whole]
        BY <1>1, <2>10, <3>3 DEF Sys!Start!OpenFile
      <3>6. kfp'[p] = Sys!Start!Target(p) /\ offset'[p] = 0 /\ at'[p] = "write"
        BY <1>1, <2>10 DEF Sys!Start!OpenFile
      <3> QED BY <1>1, <1>3, <1>4, <2>0, <2>2, <2>10, <3>3, <3>4, <3>5, <3>6 DEF Sys!Start!OpenFile
    <2>11. CASE Sys!Start!Write(p)
      <3>1. offset[p] + 1 \in 1..Blocks
        BY <1>1, <1>4, <2>11 DEF Sys!Start!Write
      <3>2. binary' \in [Sys!Start!Files -> SUBSET Sys!Start!Whole]
        BY <1>1, <2>11, <3>1 DEF Sys!Start!Write, Sys!Start!Whole
      <3> QED BY <1>1, <1>3, <2>2, <2>11, <3>1, <3>2 DEF Sys!Start!Write
    <2>12. CASE Sys!Start!Close(p)
      BY <1>1, <1>3, <1>4, <2>0, <2>2, <2>12 DEF Sys!Start!Close
    <2>13. CASE Sys!Start!Unlink(p)
      BY <1>1, <1>3, <1>4, <2>0, <2>2, <2>13 DEF Sys!Start!Unlink
    <2>14. CASE Sys!Start!CreateKernels(p)
      <3>1. nth[p] \in Device /\ at'[p] \in Places /\ nth'[p] = nth[p]
        BY <1>1, <1>5, <2>0, <2>14 DEF Sys!Start!CreateKernels, Opens
      <3>2. objects'[p] = objects[p] \cup ({nth[p]} \X {"kernels"})
        BY <1>2, <2>14 DEF Sys!Start!CreateKernels
      <3> QED BY <1>1, <1>3, <2>1, <2>14, <3>1, <3>2 DEF Sys!Start!CreateKernels, Sys!Start!Kinds
    <2>15. CASE Sys!Start!CreateFails(p)
      <3>1. at[p] \in Opens /\ nth[p] \in Device /\ Sys!Start!Tried(p)
        BY <1>5, <2>15 DEF Sys!Start!CreateFails, Opens
      <3>2. objects'[p] \subseteq objects[p] \cup ({nth[p]} \X {"kernels"})
        BY <1>2, <2>15 DEF Sys!Start!CreateFails
      <3>3. lost'[p] = lost[p] \cup {nth[p]}
        BY <1>2, <2>15 DEF Sys!Start!CreateFails
      <3> QED BY <1>1, <1>3, <2>1, <2>3, <2>15, <3>1, <3>2, <3>3 DEF Sys!Start!CreateFails, Sys!Start!Kinds
    <2>16. CASE Sys!Start!GridFits(p) \/ Sys!Start!GridFails(p)
      <3>1. at[p] \in Opens /\ nth[p] \in Device /\ Sys!Start!Tried(p)
            /\ UNCHANGED <<fromsource, lost>> /\ UNCHANGED Sys!Start!dirvars
        BY <1>5, <2>16 DEF Sys!Start!GridFits, Sys!Start!GridFails, Opens
      <3>2. objects'[p] \subseteq objects[p] /\ vc_threads'[p] \subseteq vc_threads[p]
        BY <1>2, <2>16 DEF Sys!Start!GridFits, Sys!Start!GridFails
      <3>3. opened'[p] \subseteq opened[p] \cup {nth[p]}
        BY <1>2, <2>16 DEF Sys!Start!GridFits, Sys!Start!GridFails
      <3> QED BY <1>1, <1>3, <2>1, <2>3, <3>1, <3>2, <3>3
    <2>17. CASE Sys!Start!Start(p)
      BY <1>1, <1>3, <2>0, <2>1, <2>2, <2>17 DEF Sys!Start!Start
    <2>18. CASE Sys!Start!Die(p)
      BY <1>1, <1>3, <2>0, <2>2, <2>18 DEF Sys!Start!Die
    <2> QED BY <2>4, <2>5, <2>6, <2>7, <2>8, <2>9, <2>10, <2>11, <2>12, <2>13, <2>14, <2>15,
               <2>16, <2>17, <2>18 DEF Sys!Start!Step
  <1>8. Own(p)
    BY OwnOnly
  <1>9. /\ at' \in [Processes -> Places]
        /\ kfp' \in [Processes -> Sys!Start!Files \cup {NoFile}]
        /\ offset' \in [Processes -> 0..Blocks]
    BY <1>1, <1>7, <1>8 DEF Own
  <1>10. \A q \in Processes :
          /\ nth'[q] \in 1..Len(Hash[q]) + 1
          /\ vc_threads'[q] \cup opened'[q] \cup lost'[q] \subseteq 1..Len(Hash[q])
          /\ objects'[q] \subseteq (1..Len(Hash[q])) \X Sys!Start!Kinds
    <2> SUFFICES ASSUME NEW q \in Processes
                 PROVE /\ nth'[q] \in 1..Len(Hash[q]) + 1
                       /\ vc_threads'[q] \cup opened'[q] \cup lost'[q] \subseteq 1..Len(Hash[q])
                       /\ objects'[q] \subseteq (1..Len(Hash[q])) \X Sys!Start!Kinds
      OBVIOUS
    <2>1. CASE q = p
      BY <1>7, <2>1
    <2>2. CASE q # p
      <3>1. /\ nth'[q] = nth[q] /\ vc_threads'[q] = vc_threads[q] /\ opened'[q] = opened[q]
            /\ lost'[q] = lost[q] /\ objects'[q] = objects[q]
        BY <1>2, <1>8, <2>2 DEF Own
      <3> QED BY <1>3, <3>1
    <2> QED BY <2>1, <2>2
  <1>11. /\ nth' \in [Processes -> Nat]
         /\ vc_threads' \in [Processes -> SUBSET Nat] /\ opened' \in [Processes -> SUBSET Nat]
         /\ lost' \in [Processes -> SUBSET Nat]
         /\ objects' \in [Processes -> SUBSET (Nat \X Sys!Start!Kinds)]
    <2>1. /\ nth'[p] \in Nat /\ vc_threads'[p] \subseteq Nat /\ opened'[p] \subseteq Nat
          /\ lost'[p] \subseteq Nat /\ objects'[p] \subseteq Nat \X Sys!Start!Kinds
      BY <1>4, <1>7
    <2> QED BY <1>2, <1>8, <2>1 DEF Own
  <1> QED BY <1>7, <1>9, <1>10, <1>11, HashFacts DEF StartTypes, Sys!Start!TypeOK

\* Only the opening of a file, a write and the removal of a name change the directory.
LEMMA NamesKept ==
  ASSUME Sys!Start!StartAssumption, StartInv, NEW p \in Processes, Sys!Start!Step(p)
  PROVE OwnersRight'
  <1> USE DEF Sys!Start!Go, Sys!Start!Put
  <1>1. /\ file \in [Names -> Sys!Start!Files \cup {NoFile}]
        /\ kfp \in [Processes -> Sys!Start!Files \cup {NoFile}]
        /\ DOMAIN at = Processes /\ nth \in [Processes -> Nat]
    BY DEF StartInv, StartTypes, Sys!Start!TypeOK
  <1>2. OwnersRight /\ Own(p)
    BY OwnOnly DEF StartInv
  <1>3. at[p] \in Opens \cup {"open"} => nth[p] \in 1..Len(Hash[p])
    BY HashFacts DEF StartInv, StartTypes, Sys!Start!TypeOK, SlotsRight
  <1>4. ASSUME NEW q \in Processes, q # p
        PROVE at'[q] = at[q] /\ kfp'[q] = kfp[q] /\ nth'[q] = nth[q]
    BY <1>1, <1>2, <1>4 DEF Own
  <1>5. CASE Sys!Start!OpenFile(p)
    <2>1. /\ at[p] = "save" /\ at'[p] = "write" /\ nth' = nth /\ kfp'[p] = Sys!Start!Target(p)
          /\ file' = [file EXCEPT ![Sys!Start!Name(p)] = Sys!Start!Target(p)]
      BY <1>1, <1>5 DEF Sys!Start!OpenFile, Sys!Start!devicevars
    <2>2. /\ nth[p] \in 1..Len(Hash[p]) /\ Sys!Start!Name(p) = Hash[p][nth[p]]
          /\ Sys!Start!Name(p) \in Names
      BY <1>3, <2>1, HashFacts DEF Opens, Sys!Start!Name
    <2>3. Sys!Start!Target(p) \in Sys!Start!Files /\ Owner(Sys!Start!Target(p)) = Sys!Start!Name(p)
      <3>1. CASE file[Sys!Start!Name(p)] = NoFile
        BY <2>2, <3>1, HashFacts DEF Sys!Start!Target, Owner
      <3>2. CASE file[Sys!Start!Name(p)] # NoFile
        BY <1>2, <2>2, <3>2 DEF Sys!Start!Target, OwnersRight
      <3> QED BY <3>1, <3>2
    <2>4. \A n \in Names : file'[n] # NoFile => file'[n] \in Sys!Start!Files /\ Owner(file'[n]) = n
      BY <1>1, <1>2, <2>1, <2>2, <2>3 DEF OwnersRight
    <2>5. ASSUME NEW q \in Processes, at'[q] = "write"
          PROVE kfp'[q] \in Sys!Start!Files /\ Owner(kfp'[q]) = Hash[q][nth'[q]]
      <3>1. CASE q = p
        BY <2>1, <2>2, <2>3, <3>1
      <3>2. CASE q # p
        BY <1>2, <1>4, <2>5, <3>2 DEF OwnersRight, Sys!Start!Name
      <3> QED BY <3>1, <3>2
    <2> QED BY <2>4, <2>5 DEF OwnersRight, Sys!Start!Name
  <1>6. CASE ~Sys!Start!OpenFile(p)
    <2>1. \/ file' = file
          \/ file' = [file EXCEPT ![Sys!Start!Name(p)] = NoFile]
      BY <1>6 DEF Sys!Start!Step, Sys!Start!NoDevice, Sys!Start!Open, Sys!Start!OpenFails,
                  Sys!Start!LoadSource, Sys!Start!LoadBinary, Sys!Start!LoadShort,
                  Sys!Start!Build, Sys!Start!BuildFails, Sys!Start!SkipSave, Sys!Start!Write,
                  Sys!Start!Close, Sys!Start!Unlink, Sys!Start!CreateKernels,
                  Sys!Start!CreateFails, Sys!Start!GridFits, Sys!Start!GridFails,
                  Sys!Start!Start, Sys!Start!Die, Sys!Start!dirvars
    <2>2. at'[p] = "write" => at[p] = "write" /\ kfp'[p] = kfp[p] /\ nth'[p] = nth[p]
      BY <1>1, <1>6 DEF Sys!Start!Step, Sys!Start!NoDevice, Sys!Start!Open, Sys!Start!OpenFails,
                  Sys!Start!LoadSource, Sys!Start!LoadBinary, Sys!Start!LoadShort,
                  Sys!Start!Build, Sys!Start!BuildFails, Sys!Start!SkipSave, Sys!Start!Write,
                  Sys!Start!Close, Sys!Start!Unlink, Sys!Start!CreateKernels,
                  Sys!Start!CreateFails, Sys!Start!GridFits, Sys!Start!GridFails,
                  Sys!Start!Start, Sys!Start!Die, Sys!Start!devicevars, Sys!Start!Tried,
                  Sys!Start!Lose
    <2>3. \A n \in Names : file'[n] # NoFile => file'[n] = file[n]
      BY <1>1, <2>1
    <2>4. ASSUME NEW q \in Processes, at'[q] = "write"
          PROVE kfp'[q] \in Sys!Start!Files /\ Owner(kfp'[q]) = Hash[q][nth'[q]]
      <3>1. at[q] = "write" /\ kfp'[q] = kfp[q] /\ nth'[q] = nth[q]
        BY <1>4, <2>2, <2>4
      <3> QED BY <1>2, <3>1 DEF OwnersRight, Sys!Start!Name
    <2> QED BY <1>2, <2>3, <2>4 DEF OwnersRight, Sys!Start!Name
  <1> QED BY <1>5, <1>6

\* What a process that neither writes nor unlinks does to the directory: nothing.
LEMMA CacheKept ==
  ASSUME Sys!Start!StartAssumption, StartInv, NEW p \in Processes, Sys!Start!Step(p)
  PROVE CacheInv'
  <1> USE DEF Sys!Start!Go, Sys!Start!Put
  <1>1. /\ file \in [Names -> Sys!Start!Files \cup {NoFile}]
        /\ binary \in [Sys!Start!Files -> SUBSET Sys!Start!Whole]
        /\ kfp \in [Processes -> Sys!Start!Files \cup {NoFile}]
        /\ offset \in [Processes -> 0..Blocks]
        /\ DOMAIN at = Processes /\ nth \in [Processes -> Nat]
    BY DEF StartInv, StartTypes, Sys!Start!TypeOK
  <1>2. OwnersRight /\ CacheInv /\ Own(p) /\ Blocks \in Nat
    BY OwnOnly DEF StartInv, Sys!Start!StartAssumption
  <1>3. at[p] \in Opens \cup {"open"} => nth[p] \in 1..Len(Hash[p])
    BY HashFacts DEF StartInv, StartTypes, Sys!Start!TypeOK, SlotsRight
  <1>4. ASSUME NEW q \in Processes, q # p
        PROVE at'[q] = at[q] /\ kfp'[q] = kfp[q] /\ nth'[q] = nth[q] /\ offset'[q] = offset[q]
    BY <1>1, <1>2, <1>4 DEF Own
  <1> SUFFICES ASSUME ~died', NEW n \in Names, NEW b \in 1..Blocks,
                      file'[n] # NoFile, b \notin binary'[file'[n]]
               PROVE \E q \in Processes : Mends(q, n, b)'
    BY DEF CacheInv
  \* Another process that was to mend a file still is.
  <1>5. ASSUME file'[n] = file[n], NEW q \in Processes, q # p, Mends(q, n, b)
        PROVE Mends(q, n, b)'
    BY <1>4, <1>5 DEF Mends, Sys!Start!Name
  <1>6. CASE Sys!Start!OpenFile(p)
    <2>1. /\ at[p] = "save" /\ at'[p] = "write" /\ nth' = nth /\ kfp'[p] = Sys!Start!Target(p)
          /\ offset'[p] = 0 /\ died' = died
          /\ file' = [file EXCEPT ![Sys!Start!Name(p)] = Sys!Start!Target(p)]
          /\ binary' = [binary EXCEPT ![Sys!Start!Target(p)] = {}]
      BY <1>1, <1>6 DEF Sys!Start!OpenFile, Sys!Start!devicevars
    <2>2. nth[p] \in 1..Len(Hash[p]) /\ Sys!Start!Name(p) = Hash[p][nth[p]]
      BY <1>3, <2>1 DEF Opens, Sys!Start!Name
    <2>3. CASE n = Sys!Start!Name(p)
      <3>1. file'[n] = kfp'[p]
        BY <1>1, <2>1, <2>3
      <3> QED BY <2>1, <3>1 DEF Mends
    <2>4. CASE n # Sys!Start!Name(p)
      <3>1. file'[n] = file[n] /\ Owner(file[n]) = n /\ file[n] \in Sys!Start!Files
        BY <1>1, <1>2, <2>1, <2>4 DEF OwnersRight
      <3>2. Owner(Sys!Start!Target(p)) = Sys!Start!Name(p)
        <4>1. CASE file[Sys!Start!Name(p)] = NoFile
          BY <2>2, <4>1 DEF Sys!Start!Target, Owner
        <4>2. CASE file[Sys!Start!Name(p)] # NoFile
          BY <1>2, <2>2, <4>2, HashFacts DEF Sys!Start!Target, OwnersRight
        <4> QED BY <4>1, <4>2
      <3>3. file[n] # Sys!Start!Target(p)
        BY <2>4, <3>1, <3>2
      <3>4. b \notin binary[file[n]]
        BY <1>1, <2>1, <3>1, <3>3
      <3>5. PICK q \in Processes : Mends(q, n, b)
        BY <1>2, <2>1, <3>1, <3>4 DEF CacheInv
      <3>6. q # p
        BY <2>1, <3>5 DEF Mends
      <3> QED BY <1>5, <3>1, <3>5, <3>6
    <2> QED BY <2>3, <2>4
  <1>7. CASE Sys!Start!Write(p)
    <2>1. /\ at[p] = "write" /\ offset[p] < Blocks /\ file' = file /\ died' = died /\ nth' = nth
          /\ at' = at /\ kfp' = kfp /\ offset'[p] = offset[p] + 1
          /\ binary' = [binary EXCEPT ![kfp[p]] = @ \cup {offset[p] + 1}]
      BY <1>1, <1>7 DEF Sys!Start!Write, Sys!Start!devicevars
    <2>2. kfp[p] \in Sys!Start!Files /\ file[n] \in Sys!Start!Files
      BY <1>2, <2>1 DEF OwnersRight
    <2>3. b \notin binary[file[n]]
      BY <1>1, <2>1, <2>2
    <2>4. PICK q \in Processes : Mends(q, n, b)
      BY <1>2, <2>1, <2>3 DEF CacheInv
    <2>5. CASE q # p
      BY <1>5, <2>1, <2>4, <2>5
    <2>6. CASE q = p
      <3>1. kfp[p] = file[n] /\ offset[p] < b
        BY <2>1, <2>4, <2>6 DEF Mends
      <3>2. b # offset[p] + 1
        BY <1>1, <2>1, <2>2, <3>1
      <3>3. offset'[p] < b
        BY <1>1, <2>1, <3>1, <3>2
      <3> QED BY <2>1, <3>1, <3>3 DEF Mends
    <2> QED BY <2>5, <2>6
  <1>8. CASE Sys!Start!Close(p)
    <2>1. /\ at[p] = "write" /\ file' = file /\ died' = died /\ nth' = nth /\ binary' = binary
          /\ at'[p] = IF offset[p] < Blocks THEN "unlink" ELSE "kernels"
      BY <1>1, <1>8 DEF Sys!Start!Close, Sys!Start!devicevars
    <2>2. PICK q \in Processes : Mends(q, n, b)
      BY <1>2, <2>1 DEF CacheInv
    <2>3. CASE q # p
      BY <1>5, <2>1, <2>2, <2>3
    <2>4. CASE q = p
      <3>1. kfp[p] = file[n] /\ offset[p] < b
        BY <2>1, <2>2, <2>4 DEF Mends
      <3>2. Sys!Start!Name(p) = n
        BY <1>2, <2>1, <3>1 DEF OwnersRight
      <3>3. at'[p] = "unlink"
        BY <1>1, <1>2, <2>1, <3>1
      <3> QED BY <2>1, <3>2, <3>3 DEF Mends, Sys!Start!Name
    <2> QED BY <2>3, <2>4
  <1>9. CASE Sys!Start!Unlink(p)
    <2>1. /\ at[p] = "unlink" /\ died' = died /\ nth' = nth /\ binary' = binary
          /\ file' = [file EXCEPT ![Sys!Start!Name(p)] = NoFile]
      BY <1>9 DEF Sys!Start!Unlink, Sys!Start!devicevars
    <2>2. n # Sys!Start!Name(p) /\ file'[n] = file[n]
      BY <1>1, <2>1
    <2>3. PICK q \in Processes : Mends(q, n, b)
      BY <1>2, <2>1, <2>2 DEF CacheInv
    <2>4. q # p
      BY <2>1, <2>2, <2>3 DEF Mends
    <2> QED BY <1>5, <2>2, <2>3, <2>4
  <1>10. CASE Sys!Start!Die(p)
    <2>1. /\ file' = file /\ binary' = binary /\ ~died /\ at[p] \notin {"write", "unlink"}
      BY <1>10 DEF Sys!Start!Die
    <2>2. PICK q \in Processes : Mends(q, n, b)
      BY <1>2, <2>1 DEF CacheInv
    <2>3. q # p
      BY <2>1, <2>2 DEF Mends
    <2> QED BY <1>5, <2>1, <2>2, <2>3
  <1>11. CASE ~(\/ Sys!Start!OpenFile(p) \/ Sys!Start!Write(p) \/ Sys!Start!Close(p)
                \/ Sys!Start!Unlink(p) \/ Sys!Start!Die(p))
    <2>1. UNCHANGED Sys!Start!dirvars /\ at[p] \notin {"write", "unlink"}
      BY <1>11 DEF Sys!Start!Step, Sys!Start!NoDevice, Sys!Start!Open, Sys!Start!OpenFails,
                  Sys!Start!LoadSource, Sys!Start!LoadBinary, Sys!Start!LoadShort,
                  Sys!Start!ReadsShort, Sys!Start!Build, Sys!Start!BuildFails,
                  Sys!Start!SkipSave, Sys!Start!CreateKernels, Sys!Start!CreateFails,
                  Sys!Start!GridFits, Sys!Start!GridFails, Sys!Start!Start
    <2>2. file' = file /\ binary' = binary /\ died' = died
      BY <2>1 DEF Sys!Start!dirvars
    <2>3. PICK q \in Processes : Mends(q, n, b)
      BY <1>2, <2>2 DEF CacheInv
    <2>4. q # p
      BY <2>1, <2>3 DEF Mends
    <2> QED BY <1>5, <2>2, <2>3, <2>4
  <1> QED BY <1>6, <1>7, <1>8, <1>9, <1>10, <1>11

LEMMA StartKept ==
  ASSUME Sys!Start!StartAssumption, StartInv, NEW p \in Processes, Sys!Start!Step(p)
  PROVE StartInv'
  <1>1. ASSUME NEW q \in Processes PROVE SlotsRight(q)'
    <2>1. CASE q = p
      BY <2>1, SlotsKept
    <2>2. CASE q # p
      <3>1. /\ DOMAIN at = Processes /\ nth \in [Processes -> Nat]
            /\ vc_threads \in [Processes -> SUBSET Nat] /\ opened \in [Processes -> SUBSET Nat]
            /\ lost \in [Processes -> SUBSET Nat]
            /\ objects \in [Processes -> SUBSET (Nat \X Sys!Start!Kinds)]
        BY DEF StartInv, StartTypes, Sys!Start!TypeOK
      <3>2. /\ at'[q] = at[q] /\ nth'[q] = nth[q] /\ vc_threads'[q] = vc_threads[q]
            /\ opened'[q] = opened[q] /\ lost'[q] = lost[q] /\ objects'[q] = objects[q]
        BY <2>2, <3>1, OwnOnly DEF Own
      <3>3. SlotsRight(q)
        BY DEF StartInv
      <3> QED BY <3>2, <3>3 DEF SlotsRight, Untried
    <2> QED BY <2>1, <2>2
  <1> QED BY <1>1, TypesKept, NamesKept, CacheKept DEF StartInv

LEMMA StartInvariant == ASSUME Sys!Start!StartAssumption PROVE Sys!SystemSpec => []StartInv
  <1>1. Sys!SystemInit => StartInv
    BY StartInit DEF Sys!SystemInit
  <1>2. StartInv /\ [Sys!SystemNext]_(Sys!systemvars) => StartInv'
    <2> SUFFICES ASSUME StartInv, [Sys!SystemNext]_(Sys!systemvars) PROVE StartInv'
      OBVIOUS
    <2>1. CASE UNCHANGED Sys!startvars
      <3>1. UNCHANGED <<file, binary, at, nth, fromsource, kfp, offset, vc_threads, opened,
                        objects, lost, died>>
        BY <2>1 DEF Sys!startvars
      <3>2. StartTypes'
        BY <3>1 DEF StartInv, StartTypes, Sys!Start!TypeOK
      <3>3. OwnersRight'
        BY <3>1 DEF StartInv, OwnersRight, Sys!Start!Name
      <3>4. \A p \in Processes, n \in Names, b \in 1..Blocks : Mends(p, n, b)' <=> Mends(p, n, b)
        BY <3>1 DEF Mends, Sys!Start!Name
      <3>5. CacheInv'
        BY <3>1, <3>4 DEF StartInv, CacheInv
      <3>6. \A p \in Processes : SlotsRight(p)'
        BY <3>1 DEF StartInv, SlotsRight, Untried
      <3> QED BY <3>2, <3>3, <3>5, <3>6 DEF StartInv
    <2>2. CASE Sys!Start!Next
      BY <2>2, StartKept DEF Sys!Start!Next
    <2> QED BY <2>1, <2>2 DEF Sys!SystemNext, Sys!systemvars, Sys!Opening, Sys!Search
  <1> QED BY <1>1, <1>2, PTL DEF Sys!SystemSpec

\* Whatever processes compile the same kernels at a time, none leaves a part of one for a
\* later start unless it dies while it writes; and what main starts is what it has opened,
\* unless a device was lost on the way.
THEOREM DevicesStartRight ==
  ASSUME Sys!Start!StartAssumption PROVE Sys!SystemSpec => []Sys!StartsRight
  <1>1. StartInv => Sys!StartsRight
    <2> SUFFICES ASSUME StartInv PROVE Sys!StartsRight
      OBVIOUS
    <2>1. Sys!Start!TypeOK
      BY DEF StartInv, StartTypes
    <2>2. Sys!Start!CacheWhole
      <3> SUFFICES ASSUME ~died, \A p \in Processes : at[p] \notin {"write", "unlink"},
                          NEW n \in Names, file[n] # NoFile
                   PROVE binary[file[n]] = Sys!Start!Whole
        BY DEF Sys!Start!CacheWhole
      <3>1. binary[file[n]] \subseteq Sys!Start!Whole
        BY <2>1 DEF StartInv, OwnersRight, Sys!Start!TypeOK
      <3>2. \A b \in 1..Blocks : b \in binary[file[n]]
        BY DEF StartInv, CacheInv, Mends
      <3> QED BY <3>1, <3>2 DEF Sys!Start!Whole
    <2>3. Sys!Start!OnlyOpened
      <3> SUFFICES ASSUME NEW p \in Processes, at[p] = "search", lost[p] = {}
                   PROVE /\ vc_threads[p] = opened[p]
                         /\ \A d \in Sys!Start!DevicesOf(p), k \in Sys!Start!Kinds \ {"kernels"} :
                              <<d, k>> \in objects[p] <=> d \in opened[p]
        BY DEF Sys!Start!OnlyOpened
      <3>1. /\ nth[p] = Len(Hash[p]) + 1 /\ Len(Hash[p]) \in Nat
            /\ Sys!Start!DevicesOf(p) = 1..Len(Hash[p])
        BY HashFacts DEF StartInv, SlotsRight
      <3>2. \A d \in 1..Len(Hash[p]) :
              /\ d \in vc_threads[p] <=> d \in opened[p]
              /\ \A k \in Sys!Start!Kinds \ {"kernels"} :
                   <<d, k>> \in objects[p] <=> d \in opened[p]
        <4> TAKE d \in 1..Len(Hash[p])
        <4>1. d < nth[p] /\ d \notin lost[p] /\ at[p] # "dead" /\ SlotsRight(p)
          BY <3>1 DEF StartInv
        <4> QED BY <4>1 DEF SlotsRight
      <3>3. vc_threads[p] \cup opened[p] \subseteq 1..Len(Hash[p])
        BY <2>1, <3>1 DEF Sys!Start!TypeOK
      <3> QED BY <3>1, <3>2, <3>3
    <2> QED BY <2>1, <2>2, <2>3 DEF Sys!StartsRight, Sys!Start!StartsRight
  <1> QED BY <1>1, StartInvariant, PTL
===============================================================================
