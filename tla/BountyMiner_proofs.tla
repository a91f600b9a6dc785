-------------------------- MODULE BountyMiner_proofs --------------------------
(***************************************************************************)
(* Proofs about the bounty miner, for any number of devices, any values of *)
(* the patterns and any answers of the server.  The batch that is searched *)
(* for is the one solutions are looked up in, because the search is        *)
(* stopped in between (BatchInv); what comes late with several devices     *)
(* does not with one, which sees the flag after each match (OneInv).       *)
(***************************************************************************)
EXTENDS BountyMiner, FiniteSetTheorems, TLAPS

Chosen == items \cup {None}

BatchInv ==
  /\ items \cap freed = {} /\ \A b \in items \cup freed : b.fetch <= fetches
  /\ active_pkb # None => /\ active_pkb = base /\ thread_started
                          /\ active_pkb.fetch <= fetches
                          /\ patterns \subseteq work[active_pkb]
  /\ thread_started => base \in Batches /\ base \notin freed
  /\ pc = "stop" => thread_started /\ pkb \in Chosen
  /\ pc = "start" /\ active_pkb = None => pkb \in Chosen
  /\ pc \in {"start", "wait", "asleep", "check"} /\ thread_started => active_pkb # None
  /\ \A d \in Devices : dev[d] = "asks" => wants[d] \in patterns \cup {None}

\* A device that has seen its match told ends at its next look.
Ending(d) == vc_halt /\ dev[d] \in {"flag", "ended"}

OneInv == Cardinality(using) = 1 =>
  /\ thread_started /\ active_pkb = None => \A d \in using : Ending(d)
  /\ soln # None => /\ active_pkb # None /\ \A d \in using : Ending(d)
                    /\ soln.pattern \in patterns /\ soln.key = base.key
  /\ pc # "aborted"
  /\ \A s \in submitted : s.key = s.soln.key

MinerInv == TypeOK /\ BatchInv /\ OneInv

-------------------------------------------------------------------------------

LEMMA BatchIs == ASSUME NEW b \in Batches
                 PROVE b.key \in Keys /\ b.fetch \in Nat
  BY DEF Batches

LEMMA InitMiner == Init => MinerInv
  <1> SUFFICES ASSUME Init PROVE MinerInv
    OBVIOUS
  <1>1. TypeOK
    <2>1. /\ pc = "top" /\ using \subseteq Devices /\ fetches = 0 /\ items = {} /\ freed = {}
          /\ pkb = None /\ active_pkb = None /\ base = None /\ patterns = {} /\ soln = None
          /\ thread_started \in BOOLEAN /\ vc_halt \in BOOLEAN
      BY DEF Init
    <2>2. /\ work \in [Batches -> SUBSET Patterns]
          /\ dev \in [Devices -> {"idle", "rekey", "asks", "search", "flag", "ended"}]
          /\ wants \in [Devices -> Patterns \cup {None}]
      BY DEF Init
    <2>3. \A d \in Devices : ~Searching(d)
      BY DEF Init, Searching
    <2>4. fetches \in 0 .. MaxFetches
      BY <2>1, MinerAssumption
    <2> QED BY <2>1, <2>2, <2>3, <2>4 DEF TypeOK
  <1>2. BatchInv
    BY DEF Init, BatchInv
  <1>3. OneInv
    BY DEF Init, OneInv
  <1> QED BY <1>1, <1>2, <1>3 DEF MinerInv

\* The list of the server.
LEMMA Fetched ==
  ASSUME MinerInv, Fetch
  PROVE /\ items' \subseteq Batches /\ items' \cap freed = {}
        /\ fetches' \in 0 .. MaxFetches /\ fetches' >= fetches
        /\ \A b \in items' \cup freed : b.fetch <= fetches'
        /\ work' \in [Batches -> SUBSET Patterns]
        /\ active_pkb # None => work'[active_pkb] = work[active_pkb]
  <1> USE DEF MinerInv
  <1>1. CASE UNCHANGED <<fetches, items, work>>
    BY <1>1 DEF TypeOK, BatchInv
  <1>2. ASSUME fetches < MaxFetches, fetches' = fetches + 1, NEW offer \in Offers,
               items' = {b \in Batches : b.fetch = fetches' /\ offer[b.key] # {}},
               work' = [b \in Batches |-> IF b.fetch = fetches' THEN offer[b.key] ELSE work[b]]
        PROVE /\ items' \subseteq Batches /\ items' \cap freed = {}
              /\ fetches' \in 0 .. MaxFetches /\ fetches' >= fetches
              /\ \A b \in items' \cup freed : b.fetch <= fetches'
              /\ work' \in [Batches -> SUBSET Patterns]
              /\ active_pkb # None => work'[active_pkb] = work[active_pkb]
    <2>1. fetches \in 0 .. MaxFetches /\ freed \subseteq Batches
          /\ work \in [Batches -> SUBSET Patterns]
      BY DEF TypeOK
    <2>2. fetches \in Nat /\ fetches' \in Nat
      BY <2>1, <1>2
    <2>3. fetches' \in 0 .. MaxFetches /\ fetches' >= fetches
      BY <2>1, <1>2, MinerAssumption
    <2>4. \A b \in freed : b.fetch \in Nat /\ b.fetch <= fetches
      BY <2>1, BatchIs DEF BatchInv
    <2>5. \A b \in items' : b.fetch = fetches'
      BY <1>2
    <2>6. items' \cap freed = {} /\ \A b \in items' \cup freed : b.fetch <= fetches'
      BY <1>2, <2>2, <2>4, <2>5
    <2>7. offer \in [Keys -> SUBSET Patterns]
      BY MinerAssumption
    <2>8. work' \in [Batches -> SUBSET Patterns]
      BY <1>2, <2>1, <2>7, BatchIs
    <2>9. ASSUME active_pkb # None PROVE work'[active_pkb] = work[active_pkb]
      <3>1. active_pkb \in Batches /\ active_pkb.fetch <= fetches
        BY <2>9 DEF TypeOK, BatchInv
      <3>2. active_pkb.fetch # fetches'
        BY <3>1, <2>2, <1>2, BatchIs
      <3> QED BY <3>1, <3>2, <1>2
    <2> QED BY <1>2, <2>3, <2>6, <2>8, <2>9
  <1> QED BY <1>1, <1>2 DEF Fetch

\* The solution, if there is one, is looked up in the active batch.
LEMMA Checked ==
  ASSUME MinerInv, NEW then \in {"top", "start"}, CheckSolution(active_pkb, then)
  PROVE /\ pc' \in {then, "aborted"} /\ work' \in [Batches -> SUBSET Patterns]
        /\ soln' \in [pattern : Patterns, key : Keys] \cup {None}
        /\ soln = None => UNCHANGED <<work, soln, submitted>> /\ pc' = then
        /\ Cardinality(using) = 1 => /\ pc' = then /\ soln' = None
                                     /\ \A s \in submitted' : s.key = s.soln.key
  <1> USE DEF MinerInv
  <1>1. /\ work \in [Batches -> SUBSET Patterns] /\ active_pkb \in Batches \cup {None}
        /\ soln \in [pattern : Patterns, key : Keys] \cup {None}
    BY DEF TypeOK
  <1>2. CASE soln = None
    <2>1. UNCHANGED <<work, soln, submitted>> /\ pc' = then
      BY <1>2 DEF CheckSolution
    <2> QED BY <1>1, <1>2, <2>1 DEF OneInv
  <1>3. CASE soln # None /\ ~HasItem(active_pkb)
    <2>1. UNCHANGED <<work, soln, submitted>> /\ pc' = "aborted"
      BY <1>3 DEF CheckSolution
    <2>2. Cardinality(using) # 1
      BY <1>3 DEF OneInv, BatchInv, HasItem
    <2> QED BY <1>1, <1>3, <2>1, <2>2
  <1>4. CASE soln # None /\ HasItem(active_pkb)
    <2>1. /\ pc' = then /\ soln' = None
          /\ work' = [work EXCEPT ![active_pkb] = @ \ {soln.pattern}]
          /\ submitted' = submitted \cup {[soln |-> soln, key |-> active_pkb.key]}
      BY <1>4 DEF CheckSolution
    <2>2. work' \in [Batches -> SUBSET Patterns]
      BY <1>1, <2>1
    <2>3. ASSUME Cardinality(using) = 1 PROVE \A s \in submitted' : s.key = s.soln.key
      <3>1. soln.key = active_pkb.key
        BY <1>4, <2>3 DEF OneInv, BatchInv
      <3>2. \A s \in submitted : s.key = s.soln.key
        BY <2>3 DEF OneInv
      <3> QED BY <2>1, <3>1, <3>2
    <2> QED BY <1>4, <2>1, <2>2, <2>3
  <1> QED BY <1>2, <1>3, <1>4

LEMMA ChooseMiner == ASSUME MinerInv, Choose PROVE MinerInv'
  <1> USE DEF MinerInv
  <1>1. /\ Fetch /\ pc = "top"
        /\ vc_halt' = (vc_halt \/ StopDue)
        /\ pc' = IF StopDue THEN "stop" ELSE "start"
        /\ UNCHANGED <<using, freed, active_pkb, thread_started, base, patterns, soln, dev,
                       wants, finds, submitted>>
    BY DEF Choose, poolstate, devstate
  <1>2. PICK b \in items' \cup {None} :
          pkb' = IF Equal(active_pkb, b, work') THEN active_pkb ELSE b
    BY DEF Choose
  <1>3. /\ items' \subseteq Batches /\ items' \cap freed = {}
        /\ fetches' \in 0 .. MaxFetches /\ fetches' >= fetches
        /\ \A c \in items' \cup freed : c.fetch <= fetches'
        /\ work' \in [Batches -> SUBSET Patterns]
        /\ active_pkb # None => work'[active_pkb] = work[active_pkb]
    BY <1>1, Fetched
  <1>4. thread_started \in BOOLEAN /\ vc_halt \in BOOLEAN /\ active_pkb \in Batches \cup {None}
    BY DEF TypeOK
  <1>5. pkb' \in Batches \cup {None} /\ (pkb' # active_pkb \/ active_pkb = None
                                           => pkb' \in items' \cup {None})
    BY <1>2, <1>3, <1>4 DEF Equal
  <1>6. StopDue => thread_started /\ (pkb' # active_pkb \/ active_pkb = None)
    BY DEF StopDue
  <1>7. ~StopDue /\ thread_started => active_pkb # None
    BY DEF StopDue
  <1>8. TypeOK'
    <2>1. vc_halt' \in BOOLEAN
      BY <1>1, <1>4 DEF StopDue
    <2>2. pc' \in {"stop", "start"}
      BY <1>1
    <2> QED BY <1>1, <1>3, <1>5, <2>1, <2>2 DEF TypeOK, Searching
  <1>9. BatchInv'
    <2>1. active_pkb # None => active_pkb.fetch \in Nat /\ fetches \in Nat /\ fetches' \in Nat
      BY <1>3, BatchIs DEF TypeOK
    <2>2. active_pkb # None => active_pkb.fetch <= fetches'
      BY <2>1, <1>3 DEF BatchInv
    <2>3. pc' = "stop" => thread_started /\ pkb' \in items' \cup {None}
      BY <1>1, <1>5, <1>6
    <2>4. pc' = "start" /\ active_pkb = None => pkb' \in items' \cup {None}
      BY <1>1, <1>5
    <2>5. pc' \in {"start", "wait", "asleep", "check"} /\ thread_started => active_pkb # None
      BY <1>1, <1>7
    <2> QED BY <1>1, <1>3, <2>2, <2>3, <2>4, <2>5 DEF BatchInv, Chosen
  <1>10. OneInv'
    <2>1. vc_halt => vc_halt'
      BY <1>1
    <2>2. \A d \in using : Ending(d) => Ending(d)'
      BY <1>1, <2>1 DEF Ending
    <2>3. pc' # "aborted"
      BY <1>1
    <2> QED BY <1>1, <2>2, <2>3 DEF OneInv
  <1> QED BY <1>8, <1>9, <1>10

LEMMA StopMiner == ASSUME MinerInv, Stop PROVE MinerInv'
  <1> USE DEF MinerInv
  <1>1. /\ pc = "stop" /\ AllStopped /\ vc_halt' = FALSE /\ thread_started' = FALSE
        /\ active_pkb' = None /\ patterns' = {}
        /\ UNCHANGED <<using, fetches, items, freed, pkb, base, dev, wants, finds>>
    BY DEF Stop, serverstate, devstate
  <1>2. /\ pc' \in {"start", "aborted"} /\ work' \in [Batches -> SUBSET Patterns]
        /\ soln' \in [pattern : Patterns, key : Keys] \cup {None}
        /\ Cardinality(using) = 1 => /\ pc' = "start" /\ soln' = None
                                     /\ \A s \in submitted' : s.key = s.soln.key
    <2>1. CASE active_pkb # None
      <3>1. CheckSolution(active_pkb, "start")
        BY <1>1, <2>1 DEF Stop, CheckAtStop
      <3> QED BY <3>1, Checked
    <2>2. CASE active_pkb = None
      <3>1. pc' = "start" /\ UNCHANGED <<work, submitted, soln>>
        BY <1>1, <2>2 DEF Stop, CheckAtStop
      <3>2. Cardinality(using) = 1 => /\ soln = None
                                      /\ \A s \in submitted : s.key = s.soln.key
        BY <2>2 DEF OneInv
      <3> QED BY <3>1, <3>2 DEF TypeOK
    <2> QED BY <2>1, <2>2
  <1>3. \A d \in Devices : ~Searching(d)
    BY <1>1 DEF AllStopped, TypeOK, Searching
  <1>4. TypeOK'
    BY <1>1, <1>2, <1>3 DEF TypeOK, Searching
  <1>5. BatchInv'
    <2>1. \A d \in Devices : dev[d] # "asks"
      BY <1>3 DEF Searching
    <2>2. pc' # "stop" /\ pkb \in Chosen
      BY <1>1, <1>2 DEF BatchInv
    <2> QED BY <1>1, <2>1, <2>2 DEF BatchInv, Chosen
  <1>6. OneInv'
    BY <1>1, <1>2 DEF OneInv
  <1> QED BY <1>4, <1>5, <1>6

LEMMA StartMiner == ASSUME MinerInv, Start PROVE MinerInv'
  <1> USE DEF MinerInv
  <1>1. /\ pc = "start" /\ pc' = "wait"
        /\ UNCHANGED <<using, fetches, items, freed, work, pkb, vc_halt, soln, wants, finds,
                       submitted>>
    BY DEF Start, serverstate
  <1>2. CASE pkb # None /\ active_pkb = None
    <2>1. /\ base' = pkb /\ patterns' = work[pkb] /\ active_pkb' = pkb
          /\ thread_started' = TRUE
          /\ dev' = [d \in Devices |-> IF d \in using THEN "rekey" ELSE "idle"]
      BY <1>2 DEF Start
    <2>2. pkb \in items /\ pkb \in Batches /\ pkb \notin freed /\ pkb.fetch <= fetches
      BY <1>1, <1>2 DEF BatchInv, Chosen, TypeOK
    <2>3. patterns' \subseteq Patterns /\ patterns' = work'[pkb]
      BY <1>1, <2>1, <2>2 DEF TypeOK
    <2>4. TypeOK'
      <3>1. \A d \in Devices : Searching(d)' => d \in using
        BY <2>1 DEF Searching
      <3>2. dev' \in [Devices -> {"idle", "rekey", "asks", "search", "flag", "ended"}]
        BY <2>1
      <3> QED BY <1>1, <2>1, <2>2, <2>3, <3>1, <3>2 DEF TypeOK
    <2>5. BatchInv'
      <3>1. \A d \in Devices : dev'[d] # "asks"
        BY <2>1
      <3> QED BY <1>1, <1>2, <2>1, <2>2, <2>3, <3>1 DEF BatchInv
    <2>6. OneInv'
      <3>1. Cardinality(using) = 1 => soln = None
        BY <1>2 DEF OneInv
      <3>2. active_pkb' # None
        BY <1>2, <2>1
      <3>3. Cardinality(using) = 1 => \A s \in submitted : s.key = s.soln.key
        BY DEF OneInv
      <3> QED BY <1>1, <3>1, <3>2, <3>3 DEF OneInv
    <2> QED BY <2>4, <2>5, <2>6
  <1>3. CASE ~(pkb # None /\ active_pkb = None)
    <2>1. UNCHANGED <<base, patterns, active_pkb, thread_started, dev>>
      BY <1>3 DEF Start, poolstate
    <2>2. TypeOK'
      BY <1>1, <2>1 DEF TypeOK, Searching
    <2>3. BatchInv'
      BY <1>1, <2>1 DEF BatchInv, Chosen
    <2>4. OneInv'
      BY <1>1, <2>1 DEF OneInv, Ending
    <2> QED BY <2>2, <2>3, <2>4
  <1> QED BY <1>2, <1>3

LEMMA WaitMiner ==
  ASSUME MinerInv, StartFails \/ Wait \/ Woken \/ Rests \/ UNCHANGED vars PROVE MinerInv'
  <1> USE DEF MinerInv
  <1>1. /\ UNCHANGED <<using, fetches, items, freed, work, pkb, active_pkb, thread_started,
                       base, patterns, vc_halt, soln, dev, wants, finds, submitted>>
        /\ \/ pc \in {"start", "wait", "asleep"} /\ pc' \in {"over", "check"}
           \/ pc = "wait" /\ pc' = "asleep"
           \/ pc' = pc
    BY DEF StartFails, Wait, Woken, Rests, vars, serverstate, poolstate, devstate
  <1>2. TypeOK'
    BY <1>1 DEF TypeOK, Searching
  <1>3. BatchInv'
    BY <1>1 DEF BatchInv, Chosen
  <1>4. OneInv'
    BY <1>1 DEF OneInv, Ending
  <1> QED BY <1>2, <1>3, <1>4

LEMMA CheckMiner == ASSUME MinerInv, Check PROVE MinerInv'
  <1> USE DEF MinerInv
  <1>1. /\ pc = "check" /\ CheckSolution(active_pkb, "top")
        /\ active_pkb' = IF soln = None THEN active_pkb ELSE None
        /\ UNCHANGED <<using, fetches, items, freed, pkb, thread_started, base, patterns,
                       vc_halt, dev, wants, finds>>
    BY DEF Check, serverstate, poolstate, devstate
  <1>2. /\ pc' \in {"top", "aborted"} /\ work' \in [Batches -> SUBSET Patterns]
        /\ soln' \in [pattern : Patterns, key : Keys] \cup {None}
        /\ soln = None => UNCHANGED <<work, soln, submitted>> /\ pc' = "top"
        /\ Cardinality(using) = 1 => /\ pc' = "top" /\ soln' = None
                                     /\ \A s \in submitted' : s.key = s.soln.key
    BY <1>1, Checked
  <1>3. TypeOK'
    BY <1>1, <1>2 DEF TypeOK, Searching
  <1>4. BatchInv'
    BY <1>1, <1>2 DEF BatchInv, Chosen
  <1>5. OneInv'
    <2> SUFFICES ASSUME Cardinality(using) = 1 PROVE OneInv'
      BY <1>1 DEF OneInv
    <2>1. \A d \in using : Ending(d) => Ending(d)'
      BY <1>1 DEF Ending
    <2>2. thread_started /\ active_pkb' = None => \A d \in using : Ending(d)
      BY <1>1 DEF OneInv
    <2> QED BY <1>1, <1>2, <2>1, <2>2 DEF OneInv
  <1> QED BY <1>3, <1>4, <1>5

LEMMA TimedOutMiner == ASSUME MinerInv, TimedOut PROVE MinerInv'
  <1> USE DEF MinerInv
  <1>1. /\ pc = "asleep" /\ pc' = "top"
        /\ freed' = freed \cup (items \ {active_pkb}) /\ items' = {}
        /\ UNCHANGED <<using, fetches, work, pkb, active_pkb, thread_started, base, patterns,
                       vc_halt, soln, dev, wants, finds, submitted>>
    BY DEF TimedOut, Saved, poolstate, devstate
  <1>2. TypeOK'
    BY <1>1 DEF TypeOK, Searching
  <1>3. BatchInv'
    <2>1. thread_started => base \notin freed'
      BY <1>1 DEF BatchInv
    <2> QED BY <1>1, <2>1 DEF BatchInv, Chosen
  <1>4. OneInv'
    BY <1>1 DEF OneInv, Ending
  <1> QED BY <1>2, <1>3, <1>4

\* A step of a device: it goes on from a searching state, and asks for what it may have.
LEMMA DeviceStep ==
  ASSUME MinerInv, NEW d \in using, Searching(d),
         UNCHANGED <<pc, using, fetches, items, freed, work, pkb, active_pkb, thread_started,
                     base, patterns, submitted>>,
         NEW to \in {"rekey", "asks", "search", "flag", "ended"}, dev' = [dev EXCEPT ![d] = to],
         NEW w \in patterns \cup {None},
         wants' = wants \/ (wants' = [wants EXCEPT ![d] = w] /\ to = "asks"),
         to = "asks" => wants'[d] \in patterns \cup {None},
         vc_halt' = vc_halt \/ vc_halt' = TRUE,
         soln' \in [pattern : Patterns, key : Keys] \cup {None},
         Cardinality(using) = 1 =>
            /\ Ending(d) => to = "ended"
            /\ soln' = soln \/ ( /\ soln'.pattern \in patterns /\ soln'.key = base.key
                                 /\ to = "flag" /\ vc_halt' = TRUE )
  PROVE MinerInv'
  <1> USE DEF MinerInv
  <1>1. /\ dev \in [Devices -> {"idle", "rekey", "asks", "search", "flag", "ended"}]
        /\ wants \in [Devices -> Patterns \cup {None}] /\ d \in Devices /\ patterns \subseteq Patterns
        /\ vc_halt \in BOOLEAN
    BY DEF TypeOK
  <1>2. /\ dev' \in [Devices -> {"idle", "rekey", "asks", "search", "flag", "ended"}]
        /\ dev'[d] = to /\ \A e \in Devices \ {d} : dev'[e] = dev[e]
    BY <1>1
  <1>3. /\ wants' \in [Devices -> Patterns \cup {None}]
        /\ \A e \in Devices \ {d} : wants'[e] = wants[e]
    BY <1>1
  <1>4. thread_started
    BY <1>1 DEF TypeOK
  <1>5. TypeOK'
    <2>1. \A e \in Devices : Searching(e)' => e \in using /\ thread_started
      BY <1>2, <1>4 DEF TypeOK, Searching
    <2>2. vc_halt' \in BOOLEAN
      BY <1>1
    <2> QED BY <1>2, <1>3, <2>1, <2>2 DEF TypeOK
  <1>6. BatchInv'
    <2>1. ASSUME NEW e \in Devices, dev'[e] = "asks" PROVE wants'[e] \in patterns \cup {None}
      <3>1. CASE e = d
        BY <2>1, <3>1, <1>2
      <3>2. CASE e # d
        BY <2>1, <3>2, <1>2, <1>3 DEF BatchInv
      <3> QED BY <3>1, <3>2
    <2> QED BY <2>1 DEF BatchInv, Chosen
  <1>7. OneInv'
    <2> SUFFICES ASSUME Cardinality(using) = 1 PROVE OneInv'
      BY DEF OneInv
    <2>1. \A e \in using : e = d
      <3>1. IsFiniteSet(using)
        BY MinerAssumption, FS_Subset DEF TypeOK
      <3>2. PICK x : using = {x}
        BY <3>1, FS_Singleton
      <3> QED BY <3>2
    <2>2. Ending(d) => \A e \in using : Ending(e)'
      <3> SUFFICES ASSUME Ending(d) PROVE Ending(d)'
        BY <2>1
      <3>1. vc_halt' = TRUE /\ dev'[d] = "ended"
        BY <1>2 DEF Ending
      <3> QED BY <3>1 DEF Ending
    <2>3. thread_started /\ active_pkb = None => \A e \in using : Ending(e)'
      BY <2>2 DEF OneInv
    <2>4. CASE soln' = soln
      BY <2>2, <2>3, <2>4 DEF OneInv
    <2>5. CASE /\ soln'.pattern \in patterns /\ soln'.key = base.key
               /\ to = "flag" /\ vc_halt' = TRUE
      <3>1. ~Ending(d)
        BY <2>5
      <3>2. active_pkb # None
        BY <3>1, <1>4 DEF OneInv
      <3>3. Ending(d)'
        BY <2>5, <1>2 DEF Ending
      <3>4. \A e \in using : Ending(e)'
        BY <3>3, <2>1
      <3> QED BY <2>5, <3>2, <3>4 DEF OneInv
    <2> QED BY <2>4, <2>5
  <1> QED BY <1>5, <1>6, <1>7

LEMMA DeviceMiner == ASSUME MinerInv, NEW d \in using, Device(d) PROVE MinerInv'
  <1> USE DEF MinerInv
  <1>1. d \in Devices /\ None \in patterns \cup {None}
        /\ soln \in [pattern : Patterns, key : Keys] \cup {None}
    BY DEF TypeOK
  <1>2. /\ UNCHANGED <<pc, using, fetches, items, freed, work, pkb, active_pkb, thread_started,
                       base, patterns, submitted>>
        /\ Searching(d)
    BY DEF Device, Rekey, Match, Granted, ReadHalt, devunchanged, serverstate, poolstate,
           Searching
  <1>3. CASE Rekey(d)
    <2>1. UNCHANGED <<soln, vc_halt>> /\ dev[d] = "rekey" /\ ~Ending(d)
      BY <1>3 DEF Rekey, Ending
    <2>2. CASE patterns = {}
      <3>1. dev' = [dev EXCEPT ![d] = "ended"] /\ wants' = wants
        BY <1>3, <2>2 DEF Rekey, Is
      <3> QED BY <1>1, <1>2, <2>1, <3>1, DeviceStep
    <2>3. CASE patterns # {}
      <3>1. dev' = [dev EXCEPT ![d] = "asks"] /\ wants' = [wants EXCEPT ![d] = None]
        BY <1>3, <2>3 DEF Rekey, Is
      <3>2. wants'[d] = None
        BY <1>1, <3>1 DEF TypeOK
      <3> QED BY <1>1, <1>2, <2>1, <3>1, <3>2, DeviceStep
    <2> QED BY <2>2, <2>3
  <1>4. CASE Match(d)
    <2>1. /\ UNCHANGED <<soln, vc_halt>> /\ dev[d] = "search" /\ ~Ending(d)
          /\ dev' = [dev EXCEPT ![d] = "asks"]
      BY <1>4 DEF Match, Is, Ending
    <2>2. PICK p \in patterns : wants' = [wants EXCEPT ![d] = p]
      BY <1>4 DEF Match
    <2>3. wants'[d] = p /\ p \in patterns \cup {None}
      BY <1>1, <2>2 DEF TypeOK
    <2> QED BY <1>1, <1>2, <2>1, <2>2, <2>3, DeviceStep
  <1>5. CASE Granted(d)
    <2>1. /\ dev[d] = "asks" /\ ~Ending(d) /\ dev' = [dev EXCEPT ![d] = "flag"] /\ wants' = wants
      BY <1>5 DEF Granted, Is, Ending
    <2>2. wants[d] \in patterns \cup {None} /\ base \in Batches /\ patterns \subseteq Patterns
      BY <1>1, <1>2, <2>1 DEF BatchInv, TypeOK
    <2>3. CASE wants[d] = None
      <3>1. UNCHANGED <<soln, vc_halt>>
        BY <1>5, <2>3 DEF Granted
      <3> QED BY <1>1, <1>2, <2>1, <3>1, DeviceStep
    <2>4. CASE wants[d] # None
      <3>1. soln' = [pattern |-> wants[d], key |-> base.key] /\ vc_halt' = TRUE
        BY <1>5, <2>4 DEF Granted
      <3>2. wants[d] \in patterns /\ base.key \in Keys
        BY <2>2, <2>4, BatchIs
      <3>3. /\ soln' \in [pattern : Patterns, key : Keys] \cup {None}
            /\ soln'.pattern \in patterns /\ soln'.key = base.key
        BY <2>2, <3>1, <3>2
      <3> QED BY <1>1, <1>2, <2>1, <3>1, <3>3, DeviceStep
    <2> QED BY <2>3, <2>4
  <1>6. CASE ReadHalt(d)
    <2>1. /\ UNCHANGED <<soln, vc_halt, wants>>
          /\ \/ dev' = [dev EXCEPT ![d] = "ended"]
             \/ ~vc_halt /\ dev' = [dev EXCEPT ![d] = "rekey"]
             \/ ~vc_halt /\ dev' = [dev EXCEPT ![d] = "search"]
      BY <1>6 DEF ReadHalt, Is
    <2>2. CASE dev' = [dev EXCEPT ![d] = "ended"]
      BY <1>1, <1>2, <2>1, <2>2, DeviceStep
    <2>3. CASE ~vc_halt /\ dev' = [dev EXCEPT ![d] = "rekey"]
      <3>1. ~Ending(d)
        BY <2>3 DEF Ending
      <3> QED BY <1>1, <1>2, <2>1, <2>3, <3>1, DeviceStep
    <2>4. CASE ~vc_halt /\ dev' = [dev EXCEPT ![d] = "search"]
      <3>1. ~Ending(d)
        BY <2>4 DEF Ending
      <3> QED BY <1>1, <1>2, <2>1, <2>4, <3>1, DeviceStep
    <2> QED BY <2>1, <2>2, <2>3, <2>4
  <1> QED BY <1>3, <1>4, <1>5, <1>6 DEF Device

LEMMA NextMiner == MinerInv /\ [Next]_vars => MinerInv'
  <1> SUFFICES ASSUME MinerInv, [Next]_vars PROVE MinerInv'
    OBVIOUS
  <1> QED BY ChooseMiner, StopMiner, StartMiner, WaitMiner, CheckMiner, TimedOutMiner,
             DeviceMiner DEF Next, Main

\* In every run the invariant holds.
THEOREM Mines == Spec => []MinerInv
  <1> QED BY InitMiner, NextMiner, PTL DEF Spec

\* main, output_match_work_complete, check_solution: no device searches with the key of a
\* batch that free_pkb_tree has freed; with one device a solution always finds its item, is
\* submitted for the key it was found with, and no thread waits for ever.
THEOREM BatchesStayRight == Spec => []BatchesRight
  <1>1. ASSUME MinerInv PROVE BaseAlive
    BY <1>1 DEF MinerInv, BatchInv, TypeOK, BaseAlive
  <1>2. ASSUME MinerInv PROVE SubmittedRight
    BY <1>2 DEF MinerInv, OneInv, SubmittedRight
  <1>3. ASSUME MinerInv, Cardinality(using) = 1 PROVE pc # "aborted" /\ ~Hung
    <2>1. pc # "aborted"
      BY <1>3 DEF MinerInv, OneInv
    <2>2. \A d, e \in using : e = d
      <3>1. IsFiniteSet(using)
        BY <1>3, MinerAssumption, FS_Subset DEF MinerInv, TypeOK
      <3>2. PICK x : using = {x}
        BY <3>1, <1>3, FS_Singleton
      <3> QED BY <3>2
    <2>3. ~Hung
      BY <2>2 DEF Hung, Exclusive
    <2> QED BY <2>1, <2>3
  <1>4. MinerInv => BatchesRight
    BY <1>1, <1>2, <1>3 DEF BatchesRight, OneDeviceExact, MinerInv
  <1> QED BY <1>4, Mines, PTL

\* vg_context_stop_threads comes before vg_context_clear_all_patterns and the next
\* vc_pubkey_base: what devices search for changes only when none does.
THEOREM SettledSearch == Spec => SearchSettled
  <1>1. ASSUME MinerInv, [Next]_vars, patterns' # patterns \/ base' # base, NEW d \in Devices
        PROVE ~Searching(d)
    <2>1. CASE Stop
      BY <2>1, <1>1 DEF Stop, AllStopped, MinerInv, TypeOK, Searching
    <2>2. CASE Start
      <3>1. pc = "start" /\ active_pkb = None
        BY <2>2, <1>1 DEF Start, poolstate
      <3> QED BY <3>1, <1>1 DEF MinerInv, BatchInv, TypeOK
    <2>3. CASE ~Stop /\ ~Start
      <3>1. UNCHANGED poolstate
        BY <2>3, <1>1 DEF Next, Main, Choose, Wait, Check, TimedOut, Woken, StartFails, Rests,
           Device, Rekey, Match, Granted, ReadHalt, devunchanged, vars
      <3> QED BY <3>1, <1>1 DEF poolstate
    <2> QED BY <2>1, <2>2, <2>3
  <1>2. MinerInv /\ [Next]_vars =>
          [patterns' # patterns \/ base' # base => \A d \in Devices : ~Searching(d)]_vars
    BY <1>1
  <1> QED BY <1>2, Mines, PTL DEF Spec, SearchSettled

===============================================================================
