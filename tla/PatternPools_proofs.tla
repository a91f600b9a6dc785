-------------------------- MODULE PatternPools_proofs --------------------------
(***************************************************************************)
(* Proofs about the prefixes and the regular expressions of a search and   *)
(* the threads that test addresses against them, for any ranges, patterns, *)
(* files and number of threads.  The lock keeps the patterns as a thread   *)
(* has seen them from its match to its report (LockInv, HitInv, ScanInv):  *)
(* that is why the tree or the slots, the counts and the reports agree.    *)
(***************************************************************************)
EXTENDS PrefixPool, FiniteSetTheorems, TLAPS

PatternsOf(c) == UNION {ToSet(c.files[k].patterns) : k \in DOMAIN c.files}

\* The patterns in the tree
Treed == {e[2] : e \in tree}

\* Who has the exclusive hold is alone, and has it until it is done.
LockInv ==
  /\ LoopTypeOK
  /\ \A t \in Threads : hold[t] = "exclusive" =>
       t \in pending /\ \A u \in Threads \ {t} : hold[u] = "none"
  /\ \A t \in Threads : pc[t] \in {"matched", "rekeyed"} => hold[t] = "exclusive"
  /\ \A t \in Threads : pc[t] = "hit" => hold[t] # "none"

\* The tree holds whole patterns of the command line, in disjoint ranges.
TreeInv ==
  /\ IsFiniteSet(tree) /\ IsFiniteSet(Treed)
  /\ \A e \in tree : e[1] \in Needs[e[2]]
  /\ Treed \subseteq PatternsOf(cmd)
  /\ TreeWhole

\* No thread runs and nothing is found before the last file is read.
LoadInv ==
  /\ ~Loaded => /\ \A t \in Threads : pc[t] \in {"new", "gone"}
                /\ \A m \in DOMAIN reports : reports[m] = 0
                /\ found = 0
  /\ Loaded => added = 0

\* The suffix of the context is that of one of the patterns.
SuffixInv == has_suffix => \E p \in PatternsOf(cmd) : SuffixOf[p] # NoSuffix /\ suffix = SuffixOf[p]

\* A thread that has found a match and not given up the lock since finds it still.
HitInv == \A t \in Threads : pc[t] \in {"hit", "matched"} => match[t] \in Hits(address[t])

\* The counters cover what is in the tree; without suffixes they are that exactly.
CountInv ==
  /\ npatterns + added >= Cardinality(Treed)
  /\ SuffixOnly => npatterns + added >= 1
  /\ Plain => /\ ~has_suffix
              /\ npatterns + added = Cardinality(Treed)
              /\ difficulty = Width * Cardinality(tree)

PoolInv == TypeOK /\ LockInv /\ TreeInv /\ LoadInv /\ SuffixInv /\ HitInv /\ CountInv

\* What has been reported is searched for no longer.
OnceInv == cmd.remove_on_match /\ ~cmd.only_one =>
  \A m \in DOMAIN reports : /\ reports[m] <= 1
                            /\ reports[m] = 1 => m \notin Treed /\ (m \in SuffixValues => ~has_suffix)

\* The process has not ended: there is a match to find yet. With -1 each match has
\* cost a thread.
AmountInv ==
  /\ cmd.numpairs >= 1 => found <= cmd.numpairs /\ (~exited => found < cmd.numpairs)
  /\ \A t \in Threads \ cmd.threads : pc[t] = "gone"
  /\ cmd.only_one => found <= Cardinality({t \in cmd.threads : pc[t] \in {"out", "gone"}})

\* All suffixes given are one; patterns without one are Tron's; and unless there is
\* but one pattern nothing is removed. Threads then search for what was asked.
OneSuffix == \A c \in CommandLines : \A p, q \in PatternsOf(c) : p # q /\ SuffixOf[p] # NoSuffix =>
  /\ SuffixOf[q] = SuffixOf[p] \/ (SuffixOf[q] = NoSuffix /\ c.kind = "TRX")
  /\ c.only_one \/ ~c.remove_on_match

\* Ethereum: the last file read with -i was not the only one.
OneCase == \A c \in CommandLines : c.kind = "ETH" /\ c.files[Len(c.files)].insensitive =>
  \A k \in DOMAIN c.files : c.files[k].insensitive

\* While a pattern with a suffix is in the tree the context has that suffix.
MarkInv == \A e \in tree : SuffixOf[e[2]] # NoSuffix => has_suffix /\ suffix = SuffixOf[e[2]]

-------------------------------------------------------------------------------
(* The lock *)

Moves == {"new", "loop", "rekeying", "rekeyed", "hit", "waiting", "matched", "out", "gone"}

\* A step of thread t that takes it to place "to".
LEMMA LockStep ==
  ASSUME LockInv, NEW t \in Threads, NEW h \in {"none", "shared", "exclusive"},
         NEW to \in Moves,
         hold' = [hold EXCEPT ![t] = h], pc' = [pc EXCEPT ![t] = to], exited' \in BOOLEAN,
         pending' \subseteq Threads, \A u \in Threads \ {t} : u \in pending => u \in pending',
         h = "exclusive" => t \in pending' /\ \A u \in Threads \ {t} : hold[u] = "none",
         h = "shared" => hold[t] = "shared" \/ \A u \in Threads \ {t} : hold[u] # "exclusive",
         to \in {"matched", "rekeyed"} => h = "exclusive", to = "hit" => h # "none"
  PROVE LockInv'
  <1>1. /\ hold \in [Threads -> {"none", "shared", "exclusive"}] /\ pc \in [Threads -> Moves]
        /\ pending \subseteq Threads
    BY DEF LockInv, LoopTypeOK, Moves
  <1>2. /\ hold' \in [Threads -> {"none", "shared", "exclusive"}] /\ hold'[t] = h
        /\ \A u \in Threads \ {t} : hold'[u] = hold[u]
    BY <1>1
  <1>3. pc' \in [Threads -> Moves] /\ pc'[t] = to /\ \A u \in Threads \ {t} : pc'[u] = pc[u]
    BY <1>1
  <1>4. LoopTypeOK'
    BY <1>2, <1>3 DEF LoopTypeOK, Moves
  <1>5. ASSUME NEW u \in Threads, hold'[u] = "exclusive"
        PROVE u \in pending' /\ \A v \in Threads \ {u} : hold'[v] = "none"
    <2>1. CASE u = t
      BY <1>2, <1>5, <2>1
    <2>2. CASE u # t
      <3>1. hold[u] = "exclusive" /\ u \in pending /\ \A v \in Threads \ {u} : hold[v] = "none"
        BY <1>2, <1>5, <2>2 DEF LockInv
      <3>2. hold[t] = "none"
        BY <2>2, <3>1
      <3>3. h = "none"
        BY <2>2, <3>1, <3>2
      <3> QED BY <1>2, <2>2, <3>1, <3>3
    <2> QED BY <2>1, <2>2
  <1>6. ASSUME NEW u \in Threads PROVE /\ pc'[u] \in {"matched", "rekeyed"} => hold'[u] = "exclusive"
                                       /\ pc'[u] = "hit" => hold'[u] # "none"
    BY <1>2, <1>3 DEF LockInv
  <1> QED BY <1>4, <1>5, <1>6 DEF LockInv

LEMMA SameHold == ASSUME NEW t \in Threads, LockInv, UNCHANGED hold
                  PROVE hold' = [hold EXCEPT ![t] = hold[t]]
  BY DEF LockInv, LoopTypeOK

LEMMA SamePc == ASSUME NEW t \in Threads, LockInv, UNCHANGED pc
                PROVE pc' = [pc EXCEPT ![t] = pc[t]] /\ pc[t] \in Moves
  BY DEF LockInv, LoopTypeOK, Moves

\* The steps of the worker loop keep it.
LEMMA LoopKeepsLock ==
  ASSUME LockInv, NEW t \in Threads, LoopStep(t) \/ Enter(t) \/ StartRekey(t)
  PROVE LockInv'
  <1> USE DEF Go, Moves
  <1>1. /\ hold \in [Threads -> {"none", "shared", "exclusive"}] /\ pc \in [Threads -> Moves]
        /\ pending \subseteq Threads /\ exited \in BOOLEAN /\ hold[t] \in {"none", "shared", "exclusive"}
    BY DEF LockInv, LoopTypeOK
  <1>2. ASSUME pending = {} PROVE \A u \in Threads : hold[u] # "exclusive"
    BY <1>2 DEF LockInv
  <1>3. CASE Enter(t)
    <2>1. /\ pending = {} /\ hold' = [hold EXCEPT ![t] = "shared"] /\ UNCHANGED <<pending, exited>>
          /\ \/ pc' = [pc EXCEPT ![t] = "rekeying"]
             \/ pc[t] \in {"loop", "out", "rekeying"} /\ UNCHANGED pc
      BY <1>3 DEF Enter, Join, Resume, Lock!GetShared
    <2>2. CASE pc' = [pc EXCEPT ![t] = "rekeying"]
      BY <1>1, <1>2, <2>1, <2>2, LockStep
    <2>3. CASE pc[t] \in {"loop", "out", "rekeying"} /\ UNCHANGED pc
      BY <1>1, <1>2, <2>1, <2>3, SamePc, LockStep
    <2> QED BY <2>1, <2>2, <2>3
  <1>4. CASE StartRekey(t)
    <2>1. /\ pc' = [pc EXCEPT ![t] = "rekeying"] /\ UNCHANGED <<hold, pending, exited>>
          /\ hold[t] = "shared"
      BY <1>4 DEF StartRekey, lockvars
    <2> QED BY <1>1, <2>1, SameHold, LockStep
  <1>5. CASE Upgrade(t)
    <2>1. CASE hold[t] = "shared" /\ Lock!Request(t) /\ Go(t, "waiting")
      <3>1. /\ hold' = [hold EXCEPT ![t] = "none"] /\ pc' = [pc EXCEPT ![t] = "waiting"]
            /\ pending' = pending \cup {t} /\ UNCHANGED exited
        BY <1>5, <2>1 DEF Upgrade, Lock!Request
      <3> QED BY <1>1, <3>1, LockStep
    <2>2. CASE hold[t] = "exclusive" /\ Go(t, "matched") /\ UNCHANGED lockvars
      <3>1. /\ pc' = [pc EXCEPT ![t] = "matched"] /\ UNCHANGED <<hold, pending, exited>>
            /\ t \in pending /\ \A u \in Threads \ {t} : hold[u] = "none"
        BY <1>5, <2>2 DEF Upgrade, lockvars, LockInv
      <3> QED BY <1>1, <2>2, <3>1, SameHold, LockStep
    <2> QED BY <1>5, <2>1, <2>2 DEF Upgrade
  <1>6. CASE RekeyRequest(t)
    <2>1. /\ hold' = [hold EXCEPT ![t] = "none"] /\ pc[t] = "rekeying"
          /\ pending' = pending \cup {t} /\ UNCHANGED <<exited, pc>>
      BY <1>6 DEF RekeyRequest, Lock!Request
    <2>2. /\ pending' \subseteq Threads /\ \A u \in Threads \ {t} : u \in pending => u \in pending'
          /\ pc' = [pc EXCEPT ![t] = "rekeying"] /\ exited' \in BOOLEAN
      BY <1>1, <2>1, SamePc
    <2> QED BY <2>1, <2>2, LockStep
  <1>7. CASE Rekey(t)
    <2>1. /\ hold' = [hold EXCEPT ![t] = "exclusive"] /\ pc' = [pc EXCEPT ![t] = "rekeyed"]
          /\ UNCHANGED <<pending, exited>> /\ t \in pending /\ \A u \in Threads : hold[u] = "none"
      BY <1>7 DEF Rekey, Lock!Grant
    <2> QED BY <1>1, <2>1, LockStep
  <1>8. CASE Downgrade(t)
    <2>1. /\ pc[t] \in {"loop", "out", "rekeying", "rekeyed"} /\ hold[t] = "exclusive"
          /\ hold' = [hold EXCEPT ![t] = IF pending = {t} THEN "shared" ELSE "none"]
          /\ pc' = [pc EXCEPT ![t] = IF pc[t] = "rekeyed" THEN "loop" ELSE pc[t]]
          /\ pending' = pending \ {t} /\ UNCHANGED exited
          /\ \A u \in Threads \ {t} : hold[u] = "none"
      BY <1>8 DEF Downgrade, Lock!Finish, LockInv
    <2> DEFINE h == IF pending = {t} THEN "shared" ELSE "none"
               to == IF pc[t] = "rekeyed" THEN "loop" ELSE pc[t]
    <2>2. /\ h \in {"none", "shared", "exclusive"} /\ h # "exclusive"
          /\ to \in Moves /\ to \notin {"matched", "rekeyed", "hit"}
      BY <2>1
    <2>3. hold' = [hold EXCEPT ![t] = h] /\ pc' = [pc EXCEPT ![t] = to]
      BY <2>1
    <2> HIDE DEF h, to
    <2> QED BY <1>1, <2>1, <2>2, <2>3, LockStep
  <1>9. CASE Yield(t)
    <2>1. /\ hold' = [hold EXCEPT ![t] = "none"] /\ pc[t] = "loop"
          /\ UNCHANGED <<pending, exited, pc>>
      BY <1>9 DEF Yield, Lock!DropShared
    <2> QED BY <1>1, <2>1, SamePc, LockStep
  <1>10. CASE Leave(t)
    <2>1. /\ hold' = [hold EXCEPT ![t] = "none"] /\ pc' = [pc EXCEPT ![t] = "gone"]
          /\ UNCHANGED pending /\ exited' \in BOOLEAN
      BY <1>10 DEF Leave, Lock!DropShared
    <2> QED BY <1>1, <2>1, LockStep
  <1> QED BY <1>3, <1>4, <1>5, <1>6, <1>7, <1>8, <1>9, <1>10 DEF LoopStep

\* Where a step of the loop takes a thread: to a match from a hit only, and to the end
\* from there only.
LoopMove(t, to) ==
  /\ pc' = [pc EXCEPT ![t] = to]
  /\ to \in {"hit", "waiting", "matched"} => pc[t] = "hit"
  /\ pc[t] = "hit" => to \in {"hit", "waiting", "matched"}
  /\ to \in {"out", "gone"} <=> pc[t] \in {"out", "gone"}
  /\ pc[t] \notin {"waiting", "matched", "gone"}
  /\ ~exited => UNCHANGED exited \/ (t = MainThread /\ pc[t] = "out" /\ exited' = TRUE)

LEMMA LoopMoves ==
  ASSUME LoopTypeOK, NEW t \in Threads, LoopStep(t) \/ Enter(t) \/ StartRekey(t)
  PROVE \E to \in Moves : LoopMove(t, to)
  <1> USE DEF Go, Moves, LoopMove
  <1>1. pc \in [Threads -> Moves] /\ (UNCHANGED pc => pc' = [pc EXCEPT ![t] = pc[t]])
    BY DEF LoopTypeOK
  <1>2. CASE Enter(t)
    BY <1>1, <1>2 DEF Enter, Join, Resume
  <1>3. CASE StartRekey(t)
    BY <1>1, <1>3 DEF StartRekey
  <1>4. CASE Upgrade(t)
    BY <1>1, <1>4 DEF Upgrade
  <1>5. CASE RekeyRequest(t) \/ Yield(t)
    BY <1>1, <1>5 DEF RekeyRequest, Yield
  <1>6. CASE Rekey(t)
    BY <1>1, <1>6 DEF Rekey
  <1>7. CASE Downgrade(t)
    <2>1. CASE pc[t] = "rekeyed"
      <3>1. pc' = [pc EXCEPT ![t] = "loop"] /\ UNCHANGED exited
        BY <1>7, <2>1 DEF Downgrade
      <3> QED BY <2>1, <3>1
    <2>2. CASE pc[t] # "rekeyed"
      <3>1. pc' = [pc EXCEPT ![t] = pc[t]] /\ pc[t] \in {"loop", "out", "rekeying"} /\ UNCHANGED exited
        BY <1>7, <2>2 DEF Downgrade
      <3> QED BY <3>1
    <2> QED BY <2>1, <2>2
  <1>8. CASE Leave(t)
    <2>1. pc[t] = "out" /\ pc' = [pc EXCEPT ![t] = "gone"] /\ exited' = (t = MainThread)
      BY <1>8 DEF Leave
    <2>2. exited' = FALSE \/ (t = MainThread /\ exited' = TRUE)
      BY <2>1
    <2>3. ~exited => UNCHANGED exited \/ (t = MainThread /\ exited' = TRUE)
      BY <2>2 DEF LoopTypeOK
    <2> QED BY <2>1, <2>3
  <1> QED BY <1>2, <1>3, <1>4, <1>5, <1>6, <1>7, <1>8 DEF LoopStep

-------------------------------------------------------------------------------
(* The kinds of steps *)

\* A step of the worker loop
Walk(t) == /\ LoopStep(t) \/ (Enter(t) /\ Loaded) \/ StartRekey(t)
           /\ UNCHANGED <<poolvars, testvars>>

LEMMA Kinds ==
  ASSUME [Next]_vars
  PROVE \/ ~exited /\ AddPattern
        \/ ~exited /\ EndFile
        \/ \E t \in Threads : ~exited /\ (Walk(t) \/ Test(t) \/ Upgraded(t) \/ Report(t))
        \/ UNCHANGED vars
  <1>1. ASSUME NEW t \in Threads,
               Come(t) \/ Test(t) \/ Step(t) \/ (StartRekey(t) /\ UNCHANGED <<poolvars, testvars>>)
        PROVE Walk(t) \/ Test(t) \/ Upgraded(t) \/ Report(t)
    BY <1>1 DEF Come, Step, Walk
  <1> QED BY <1>1 DEF Next, Load

LEMMA WalkMoves ==
  ASSUME LockInv, NEW t \in Threads, Walk(t)
  PROVE \E to \in Moves : /\ LoopMove(t, to)
                          /\ pc[t] = "new" => Loaded
  <1>1. PICK to \in Moves : LoopMove(t, to)
    BY LoopMoves DEF Walk, LockInv
  <1>2. pc[t] = "new" => Loaded
    BY DEF Walk, LoopStep, StartRekey, Upgrade, RekeyRequest, Rekey, Downgrade, Yield, Leave
  <1> QED BY <1>1, <1>2

\* Every step keeps the lock right.
LEMMA LockKept ==
  ASSUME LockInv, [Next]_vars
  PROVE LockInv'
  <1> USE DEF Go, Moves
  <1>1. /\ hold \in [Threads -> {"none", "shared", "exclusive"}] /\ pc \in [Threads -> Moves]
        /\ pending \subseteq Threads /\ exited \in BOOLEAN
    BY DEF LockInv, LoopTypeOK
  <1>2. ASSUME UNCHANGED <<hold, pending, pc>>, exited' \in BOOLEAN PROVE LockInv'
    BY <1>2 DEF LockInv, LoopTypeOK
  <1>3. CASE AddPattern
    BY <1>1, <1>2, <1>3 DEF AddPattern, loopvars
  <1>4. CASE EndFile
    <2>1. exited' \in BOOLEAN
      BY <1>4 DEF EndFile
    <2> QED BY <1>2, <1>4, <2>1 DEF EndFile, lockvars
  <1>5. ASSUME NEW t \in Threads, Walk(t) PROVE LockInv'
    BY <1>5, LoopKeepsLock DEF Walk
  <1>6. ASSUME NEW t \in Threads, Test(t) PROVE LockInv'
    <2>1. /\ hold[t] # "none" /\ pc[t] = "loop" /\ UNCHANGED <<hold, pending, exited>>
          /\ \E to \in {"out", "loop", "hit"} : pc' = [pc EXCEPT ![t] = to]
      BY <1>6 DEF Test, Miss, lockvars
    <2>2. PICK to \in {"out", "loop", "hit"} : pc' = [pc EXCEPT ![t] = to]
      BY <2>1
    <2>3. hold[t] = "exclusive" => t \in pending /\ \A u \in Threads \ {t} : hold[u] = "none"
      BY DEF LockInv
    <2>4. hold[t] \in {"none", "shared", "exclusive"}
      BY <1>1
    <2> QED BY <1>1, <2>1, <2>2, <2>3, <2>4, SameHold, LockStep
  <1>7. ASSUME NEW t \in Threads, Upgraded(t) PROVE LockInv'
    <2>1. /\ hold' = [hold EXCEPT ![t] = "exclusive"] /\ t \in pending
          /\ \A u \in Threads : hold[u] = "none"
          /\ UNCHANGED <<pending, exited>>
          /\ \E to \in {"out", "loop", "matched"} : pc' = [pc EXCEPT ![t] = to]
      BY <1>7 DEF Upgraded, Miss, Lock!Grant
    <2>2. PICK to \in {"out", "loop", "matched"} : pc' = [pc EXCEPT ![t] = to]
      BY <2>1
    <2> QED BY <1>1, <2>1, <2>2, LockStep
  <1>8. ASSUME NEW t \in Threads, Report(t) PROVE LockInv'
    <2>1. /\ pc[t] = "matched" /\ UNCHANGED <<hold, pending>> /\ exited' \in BOOLEAN
          /\ \E to \in {"out", "rekeying"} : pc' = [pc EXCEPT ![t] = to]
      <3>1. exited' \in BOOLEAN
        BY <1>8 DEF Report, Enough
      <3> QED BY <1>8, <3>1 DEF Report, RemoveMatch, lockvars
    <2>2. PICK to \in {"out", "rekeying"} : pc' = [pc EXCEPT ![t] = to]
      BY <2>1
    <2>3. hold[t] = "exclusive" /\ t \in pending /\ \A u \in Threads \ {t} : hold[u] = "none"
      BY <2>1 DEF LockInv
    <2> QED BY <1>1, <2>1, <2>2, <2>3, SameHold, LockStep
  <1>9. CASE UNCHANGED vars
    BY <1>1, <1>2, <1>9 DEF vars, loopvars
  <1> QED BY <1>3, <1>4, <1>5, <1>6, <1>7, <1>8, <1>9, Kinds

-------------------------------------------------------------------------------
(* Reading a pattern *)

LEMMA Files ==
  ASSUME NEW c \in CommandLines, NEW k \in DOMAIN c.files
  PROVE /\ Len(c.files) \in Nat \ {0} /\ DOMAIN c.files = 1..Len(c.files)
        /\ c.files[k].patterns \in Seq(Patterns) /\ c.files[k].insensitive \in BOOLEAN
        /\ PatternsOf(c) \subseteq Patterns
        /\ \A i \in 1..Len(c.files[k].patterns) : c.files[k].patterns[i] \in PatternsOf(c)
  <1> DEFINE F == [patterns : Seq(Patterns), insensitive : BOOLEAN]
  <1>1. c.files \in Seq(F) /\ c.files # <<>>
    BY PoolAssumption
  <1> HIDE DEF F
  <1>2. /\ Len(c.files) \in Nat \ {0} /\ DOMAIN c.files = 1..Len(c.files)
        /\ \A i \in DOMAIN c.files : c.files[i] \in F
    BY <1>1
  <1>3. ASSUME NEW i \in DOMAIN c.files
        PROVE /\ c.files[i].patterns \in Seq(Patterns) /\ c.files[i].insensitive \in BOOLEAN
              /\ ToSet(c.files[i].patterns) \subseteq Patterns
              /\ \A j \in 1..Len(c.files[i].patterns) :
                   c.files[i].patterns[j] \in ToSet(c.files[i].patterns)
    <2>1. c.files[i] \in [patterns : Seq(Patterns), insensitive : BOOLEAN]
      BY <1>2 DEF F
    <2> QED BY <2>1 DEF ToSet
  <1> QED BY <1>2, <1>3 DEF PatternsOf

\* The pattern is refused, takes its place in the tree, or is a suffix alone.
Refused == UNCHANGED <<tree, added, npatterns, difficulty>>

Placed(p) == ~Overlaps(p) /\ Needs[p] # {} /\ Counted(p) /\ UNCHANGED npatterns

LEMMA Adds ==
  ASSUME TypeOK, AddPattern
  PROVE \E p \in PatternsOf(cmd) :
    /\ p \in Patterns /\ Needs[p] \subseteq Ranges
    /\ \/ Refused /\ Overlaps(p)
       \/ Placed(p)
       \/ Needs[p] = {} /\ AddSuffixOnly
    /\ IF SuffixOf[p] = NoSuffix THEN Needs[p] # {} /\ UNCHANGED <<has_suffix, suffix>>
       ELSE Marked(p) /\ SuffixOf[p] \in SuffixValues
    /\ nth' = nth + 1 /\ UNCHANGED <<loopvars, cmd, file, found, generation, reports, testvars>>
    /\ ~Loaded
  <1> DEFINE p == cmd.files[file].patterns[nth]
  <1>1. cmd \in CommandLines /\ file \in 1..Len(cmd.files) + 1 /\ nth \in Nat \ {0}
        /\ file <= Len(cmd.files) /\ nth <= Len(cmd.files[file].patterns)
    BY DEF TypeOK, AddPattern
  <1>2. Len(cmd.files) \in Nat /\ DOMAIN cmd.files = 1..Len(cmd.files)
    BY <1>1, PoolAssumption
  <1>3. file \in DOMAIN cmd.files
    BY <1>1, <1>2
  <1>4. p \in PatternsOf(cmd) /\ PatternsOf(cmd) \subseteq Patterns
    BY <1>1, <1>3, Files
  <1>5. /\ p \in Patterns /\ Needs[p] \subseteq Ranges /\ SuffixOf[p] \in SuffixValues \cup {NoSuffix}
        /\ Needs[p] = {} => SuffixOf[p] # NoSuffix
    BY <1>4, PoolAssumption
  <1>6. /\ IF SuffixOf[p] # NoSuffix THEN AddSuffixed(p) ELSE AddUnsuffixed(p)
        /\ nth' = nth + 1 /\ UNCHANGED <<loopvars, cmd, file, found, generation, reports, testvars>>
    BY DEF AddPattern
  <1>7. ~Loaded
    BY <1>1, <1>2 DEF Loaded
  <1> HIDE DEF p
  <1>8. ASSUME AddRanges(p), UNCHANGED npatterns, Needs[p] # {}
        PROVE (Refused /\ Overlaps(p)) \/ Placed(p)
    BY <1>8 DEF AddRanges, Refused, Placed
  <1>9. ASSUME AddVariants(p), UNCHANGED npatterns, Needs[p] # {}
        PROVE (Refused /\ Overlaps(p)) \/ Placed(p)
    <2>1. ASSUME NEW before \in SUBSET (Needs[p] \ RangesIn(tree)),
                 tree' = (tree \cup {<<r, p>> : r \in before}) \ {<<r, p>> : r \in before}
          PROVE UNCHANGED tree
      <3>1. \A e \in tree : e[1] \in RangesIn(tree)
        BY DEF RangesIn
      <3>2. \A r \in before : <<r, p>> \notin tree
        BY <3>1
      <3> QED BY <2>1, <3>2
    <2> QED BY <1>9, <2>1 DEF AddVariants, Refused, Placed
  <1>10. CASE SuffixOf[p] = NoSuffix
    <2>1. AddUnsuffixed(p) /\ Needs[p] # {}
      BY <1>5, <1>6, <1>10
    <2>2. (Refused /\ Overlaps(p)) \/ Placed(p)
      BY <1>8, <1>9, <2>1 DEF AddUnsuffixed
    <2>3. UNCHANGED <<has_suffix, suffix>>
      BY <2>1 DEF AddUnsuffixed
    <2> QED BY <1>4, <1>5, <1>6, <1>7, <1>10, <2>1, <2>2, <2>3
  <1>11. CASE SuffixOf[p] # NoSuffix
    <2>1. AddSuffixed(p) /\ SuffixOf[p] \in SuffixValues
      BY <1>5, <1>6, <1>11
    <2>2. \/ Refused /\ Overlaps(p)
          \/ Placed(p)
          \/ Needs[p] = {} /\ AddSuffixOnly
      BY <1>8, <2>1 DEF AddSuffixed
    <2>3. Marked(p)
      BY <2>1 DEF AddSuffixed
    <2> QED BY <1>4, <1>5, <1>6, <1>7, <1>11, <2>1, <2>2, <2>3
  <1> QED BY <1>10, <1>11

-------------------------------------------------------------------------------
(* Sizes *)

LEMMA EntriesCount ==
  ASSUME NEW p \in Patterns
  PROVE /\ IsFiniteSet(EntriesOf(p)) /\ Cardinality(EntriesOf(p)) = Cardinality(Needs[p])
        /\ Cardinality(Needs[p]) \in Nat
  <1> DEFINE f == [r \in Needs[p] |-> <<r, p>>]
  <1>1. IsFiniteSet(Needs[p])
    BY PoolAssumption, FS_Subset
  <1>2. f \in Bijection(Needs[p], EntriesOf(p))
    <2>1. f \in [Needs[p] -> EntriesOf(p)]
      BY DEF EntriesOf
    <2>2. \A r, u \in Needs[p] : f[r] = f[u] => r = u
      OBVIOUS
    <2>3. \A e \in EntriesOf(p) : \E r \in Needs[p] : f[r] = e
      BY DEF EntriesOf
    <2> HIDE DEF f
    <2> QED BY <2>1, <2>2, <2>3, Zenon DEF Bijection, Injection, Surjection, IsInjective
  <1>3. ExistsBijection(Needs[p], EntriesOf(p))
    BY <1>2 DEF ExistsBijection
  <1> QED BY <1>1, <1>3, FS_Bijection, FS_CardinalityType

\* A pattern finds its place.
LEMMA TreeGrows ==
  ASSUME TypeOK, TreeInv, NEW p \in Patterns, p \in PatternsOf(cmd), Needs[p] \subseteq Ranges,
         UNCHANGED cmd, Placed(p)
  PROVE /\ TreeInv' /\ tree' \subseteq Ranges \X Patterns /\ tree' # {}
        /\ Cardinality(tree') = Cardinality(tree) + Cardinality(Needs[p])
        /\ Treed' = Treed \cup {p}
        /\ Cardinality(Treed') = Cardinality(Treed) + 1
  <1>1. /\ tree' = tree \cup EntriesOf(p) /\ tree \subseteq Ranges \X Patterns
        /\ Needs[p] \cap RangesIn(tree) = {} /\ Needs[p] # {} /\ UNCHANGED cmd
    BY DEF Placed, Counted, Overlaps, TypeOK
  <1>2. \A r \in Needs[p] : \A e \in tree : e[1] # r
    BY <1>1 DEF RangesIn
  <1>3. tree \cap EntriesOf(p) = {}
    BY <1>2 DEF EntriesOf
  <1>4. IsFiniteSet(tree') /\ Cardinality(tree') = Cardinality(tree) + Cardinality(Needs[p])
    <2>1. IsFiniteSet(tree) /\ IsFiniteSet(EntriesOf(p))
      BY EntriesCount DEF TreeInv
    <2>2. /\ IsFiniteSet(tree \cup EntriesOf(p))
          /\ Cardinality(tree \cup EntriesOf(p))
             = Cardinality(tree) + Cardinality(EntriesOf(p)) - Cardinality(tree \cap EntriesOf(p))
      BY <2>1, FS_Union
    <2>3. Cardinality(tree \cap EntriesOf(p)) = 0 /\ Cardinality(tree) \in Nat
      BY <1>3, <2>1, FS_EmptySet, FS_CardinalityType
    <2> QED BY <1>1, <2>2, <2>3, EntriesCount
  <1>5. Treed' = Treed \cup {p}
    <2>1. \E r \in Needs[p] : <<r, p>> \in tree'
      BY <1>1 DEF EntriesOf
    <2>2. \A e \in tree' : e \in tree \/ e[2] = p
      BY <1>1 DEF EntriesOf
    <2>3. p \in Treed'
      BY <2>1 DEF Treed
    <2> QED BY <1>1, <2>2, <2>3 DEF Treed
  <1>6. p \notin Treed
    <2>1. \A e \in tree : e[2] = p => EntriesOf(p) \subseteq tree
      BY DEF TreeInv, TreeWhole
    <2> QED BY <1>1, <1>3, <2>1 DEF Treed, EntriesOf
  <1>7. IsFiniteSet(Treed') /\ Cardinality(Treed') = Cardinality(Treed) + 1
    BY <1>5, <1>6, FS_AddElement DEF TreeInv
  <1>8. \A e \in tree' : e[1] \in Needs[e[2]]
    BY <1>1 DEF TreeInv, EntriesOf
  <1>9. TreeWhole'
    <2>1. \A e, f \in tree' : e[1] = f[1] => e = f
      BY <1>1, <1>2 DEF TreeInv, TreeWhole, EntriesOf
    <2>2. \A e \in tree' : EntriesOf(e[2]) \subseteq tree'
      BY <1>1 DEF TreeInv, TreeWhole, EntriesOf
    <2> QED BY <2>1, <2>2 DEF TreeWhole, EntriesOf
  <1>10. Treed' \subseteq PatternsOf(cmd)'
    BY <1>1, <1>5 DEF TreeInv
  <1>11. tree' \subseteq Ranges \X Patterns /\ tree' # {}
    <2>1. EntriesOf(p) \subseteq Ranges \X Patterns
      BY DEF EntriesOf
    <2>2. PICK r \in Needs[p] : TRUE
      BY <1>1
    <2>3. <<r, p>> \in EntriesOf(p)
      BY DEF EntriesOf
    <2> QED BY <1>1, <2>1, <2>3
  <1> QED BY <1>4, <1>5, <1>7, <1>8, <1>9, <1>10, <1>11 DEF TreeInv

\* A pattern that was found leaves.
LEMMA TreeShrinks ==
  ASSUME TypeOK, TreeInv, NEW p \in Treed, tree' = {e \in tree : e[2] # p}, UNCHANGED cmd
  PROVE /\ TreeInv' /\ p \in Patterns
        /\ Cardinality(tree') = Cardinality(tree) - Cardinality(Needs[p])
        /\ Treed' = Treed \ {p}
        /\ Cardinality(Treed') = Cardinality(Treed) - 1 /\ Cardinality(Treed) \in Nat
  <1>1. tree \subseteq Ranges \X Patterns
    BY DEF TypeOK
  <1>2. p \in Patterns
    BY <1>1 DEF Treed
  <1>3. EntriesOf(p) \subseteq tree
    BY DEF TreeInv, TreeWhole, Treed
  <1>4. tree' = tree \ EntriesOf(p)
    <2>1. \A e \in tree : e[2] = p => e \in EntriesOf(p)
      BY <1>1 DEF TreeInv, EntriesOf
    <2>2. \A e \in EntriesOf(p) : e[2] = p
      BY DEF EntriesOf
    <2> QED BY <2>1, <2>2
  <1>5. IsFiniteSet(tree') /\ Cardinality(tree') = Cardinality(tree) - Cardinality(Needs[p])
    <2>1. IsFiniteSet(tree)
      BY DEF TreeInv
    <2>2. /\ IsFiniteSet(tree \ EntriesOf(p))
          /\ Cardinality(tree \ EntriesOf(p)) = Cardinality(tree) - Cardinality(tree \cap EntriesOf(p))
      BY <2>1, FS_Difference
    <2>3. tree \cap EntriesOf(p) = EntriesOf(p)
      BY <1>3
    <2> QED BY <1>2, <1>4, <2>2, <2>3, EntriesCount
  <1>6. Treed' = Treed \ {p}
    BY DEF Treed
  <1>7. /\ IsFiniteSet(Treed') /\ Cardinality(Treed') = Cardinality(Treed) - 1
        /\ Cardinality(Treed) \in Nat
    BY <1>6, FS_RemoveElement, FS_CardinalityType DEF TreeInv
  <1>8. \A e \in tree' : e[1] \in Needs[e[2]]
    BY DEF TreeInv
  <1>9. TreeWhole'
    <2>1. \A e, f \in tree' : e[1] = f[1] => e = f
      BY DEF TreeInv, TreeWhole
    <2>2. ASSUME NEW e \in tree' PROVE EntriesOf(e[2]) \subseteq tree'
      <3>1. EntriesOf(e[2]) \subseteq tree /\ e[2] # p
        BY <2>2 DEF TreeInv, TreeWhole
      <3> QED BY <3>1 DEF EntriesOf
    <2> QED BY <2>1, <2>2 DEF TreeWhole, EntriesOf
  <1>10. Treed' \subseteq PatternsOf(cmd)'
    BY <1>6 DEF TreeInv
  <1> QED BY <1>2, <1>5, <1>6, <1>7, <1>8, <1>9, <1>10 DEF TreeInv

-------------------------------------------------------------------------------
(* Reading the files keeps the invariant *)

\* Which patterns there are depends on the command line alone.
LEMMA SamePatterns == ASSUME UNCHANGED cmd PROVE (Plain' <=> Plain) /\ PatternsOf(cmd)' = PatternsOf(cmd)
  BY DEF Plain

LEMMA PlainPatterns == ASSUME TypeOK, Plain, NEW p \in PatternsOf(cmd) PROVE SuffixOf[p] = NoSuffix
  BY DEF Plain, PatternsOf

\* A hit stays one while nobody changes the tree and the suffix.
LEMMA HitsKept ==
  ASSUME UNCHANGED <<cmd, tree, has_suffix, suffix>>, NEW t \in Threads, address'[t] = address[t]
  PROVE Hits(address[t])' = Hits(address[t])
  BY DEF Hits, TreeHits, SuffixHits, SuffixFits, CaseFits, CaseMatters, Insensitive, SuffixOnly

LEMMA AddKept ==
  ASSUME PoolInv, AddPattern
  PROVE (TypeOK /\ TreeInv /\ LoadInv /\ SuffixInv /\ HitInv /\ CountInv)'
  <1>1. PICK p \in PatternsOf(cmd) :
          /\ p \in Patterns /\ Needs[p] \subseteq Ranges
          /\ \/ Refused /\ Overlaps(p)
             \/ Placed(p)
             \/ Needs[p] = {} /\ AddSuffixOnly
          /\ IF SuffixOf[p] = NoSuffix THEN Needs[p] # {} /\ UNCHANGED <<has_suffix, suffix>>
             ELSE Marked(p) /\ SuffixOf[p] \in SuffixValues
          /\ nth' = nth + 1 /\ UNCHANGED <<loopvars, cmd, file, found, generation, reports, testvars>>
          /\ ~Loaded
    BY Adds DEF PoolInv
  <1>2. UNCHANGED <<loopvars, cmd, file, found, generation, reports, address, match, pc>>
    BY <1>1 DEF testvars, loopvars
  <1>3. TypeOK /\ TreeInv /\ LoadInv /\ SuffixInv /\ CountInv
    BY DEF PoolInv
  <1>4. ~Loaded'
    BY <1>1, <1>2 DEF Loaded
  <1>5. LoadInv'
    BY <1>1, <1>2, <1>3, <1>4 DEF LoadInv
  <1>6. HitInv'
    <2>1. \A t \in Threads : pc'[t] \in {"new", "gone"}
      BY <1>4, <1>5 DEF LoadInv
    <2> QED BY <2>1 DEF HitInv
  <1>7. SuffixInv' /\ has_suffix' \in BOOLEAN /\ suffix' \in SuffixValues \cup {NoSuffix}
    <2>1. CASE SuffixOf[p] = NoSuffix
      BY <1>1, <1>2, <1>3, <2>1 DEF SuffixInv, TypeOK
    <2>2. CASE SuffixOf[p] # NoSuffix
      <3>1. has_suffix' = TRUE /\ suffix' = SuffixOf[p] /\ SuffixOf[p] \in SuffixValues
        BY <1>1, <2>2 DEF Marked
      <3> QED BY <1>1, <1>2, <2>2, <3>1 DEF SuffixInv
    <2> QED BY <2>1, <2>2
  <1>8. /\ npatterns \in Nat /\ added \in Nat /\ difficulty \in Int /\ tree \subseteq Ranges \X Patterns
        /\ nth' \in Nat \ {0} /\ Cardinality(Treed) \in Nat /\ Cardinality(tree) \in Nat
        /\ Cardinality(Needs[p]) \in Nat /\ Width \in Nat /\ SuffixSpan \in Nat
    <2>1. /\ npatterns \in Nat /\ added \in Nat /\ difficulty \in Int /\ tree \subseteq Ranges \X Patterns
          /\ nth' \in Nat \ {0}
      BY <1>1, <1>3 DEF TypeOK
    <2>2. Cardinality(Treed) \in Nat /\ Cardinality(tree) \in Nat /\ Cardinality(Needs[p]) \in Nat
      BY <1>1, <1>3, EntriesCount, FS_CardinalityType DEF TreeInv
    <2>3. Width \in Nat /\ SuffixSpan \in Nat
      BY PoolAssumption
    <2> QED BY <2>1, <2>2, <2>3
  <1>9. /\ npatterns' \in Nat /\ added' \in Nat /\ difficulty' \in Int /\ tree' \subseteq Ranges \X Patterns
        /\ TreeInv'
        /\ npatterns' + added' >= Cardinality(Treed') /\ (has_suffix' /\ tree' = {} => npatterns' + added' >= 1)
        /\ Plain => /\ npatterns' + added' = Cardinality(Treed')
                    /\ difficulty' = Width * Cardinality(tree')
    <2>1. CASE Refused /\ Overlaps(p)
      <3>1. UNCHANGED <<tree, Treed, TreeWhole, npatterns, added, difficulty>> /\ tree # {}
        BY <2>1 DEF Refused, Overlaps, RangesIn, Treed, TreeWhole, EntriesOf
      <3>2. TreeInv'
        BY <1>2, <1>3, <3>1 DEF TreeInv, EntriesOf
      <3> QED BY <1>3, <1>8, <3>1, <3>2 DEF CountInv
    <2>2. CASE Placed(p)
      <3>1. /\ TreeInv' /\ tree' \subseteq Ranges \X Patterns /\ tree' # {}
            /\ Cardinality(tree') = Cardinality(tree) + Cardinality(Needs[p])
            /\ Cardinality(Treed') = Cardinality(Treed) + 1
        BY <1>1, <1>2, <1>3, <2>2, TreeGrows
      <3>2. /\ npatterns' = npatterns /\ added' = added + 1
            /\ difficulty' = difficulty + Width * Cardinality(Needs[p])
        BY <2>2 DEF Placed, Counted
      <3>3. /\ Width * Cardinality(Needs[p]) \in Nat
            /\ Width * (Cardinality(tree) + Cardinality(Needs[p]))
               = Width * Cardinality(tree) + Width * Cardinality(Needs[p])
        BY <1>8
      <3>4. difficulty' \in Int /\ (Plain => difficulty' = Width * Cardinality(tree'))
        BY <1>3, <1>8, <3>1, <3>2, <3>3 DEF CountInv
      <3> QED BY <1>3, <1>8, <3>1, <3>2, <3>4 DEF CountInv
    <2>3. CASE Needs[p] = {} /\ AddSuffixOnly
      <3>1. ~Plain
        BY <1>1, <1>3, <2>3, PlainPatterns
      <3>2. /\ npatterns' = npatterns + 1 /\ added' = added + 1 /\ difficulty' = difficulty + SuffixSpan
            /\ UNCHANGED <<tree, Treed>>
        BY <2>3 DEF AddSuffixOnly, Treed
      <3>3. TreeInv'
        BY <1>2, <1>3, <3>2 DEF TreeInv, TreeWhole, EntriesOf
      <3> QED BY <1>3, <1>8, <3>1, <3>2, <3>3 DEF CountInv
    <2> QED BY <1>1, <2>1, <2>2, <2>3
  <1>10. TypeOK'
    <2>1. LoopTypeOK'
      BY <1>2, <1>3 DEF TypeOK, LoopTypeOK, loopvars
    <2> QED BY <1>2, <1>3, <1>7, <1>8, <1>9, <2>1 DEF TypeOK
  <1>11. CountInv'
    <2>1. Plain' <=> Plain
      BY <1>2, SamePatterns
    <2>2. Plain => ~has_suffix'
      BY <1>2, <1>3, <1>7, <1>10, <2>1, PlainPatterns DEF SuffixInv, Plain, PatternsOf
    <2> QED BY <1>9, <2>1, <2>2 DEF CountInv, SuffixOnly
  <1> QED BY <1>5, <1>6, <1>7, <1>9, <1>10, <1>11

LEMMA EndKept ==
  ASSUME PoolInv, EndFile
  PROVE (TypeOK /\ TreeInv /\ LoadInv /\ SuffixInv /\ HitInv /\ CountInv)'
  <1>1. /\ ~Loaded /\ npatterns' = npatterns + added /\ difficulty' = Scaled
        /\ file' = file + 1 /\ nth' = 1 /\ added' = 0 /\ generation' = generation + 1
        /\ exited' \in BOOLEAN
        /\ UNCHANGED <<hold, pending, pc, cmd, tree, has_suffix, suffix, found, reports, address, match>>
    <2>1. cmd \in CommandLines /\ file \in 1..Len(cmd.files) + 1 /\ file <= Len(cmd.files)
      BY DEF PoolInv, TypeOK, EndFile
    <2>2. Len(cmd.files) \in Nat
      BY <2>1, PoolAssumption
    <2>3. ~Loaded
      BY <2>1, <2>2 DEF Loaded
    <2>4. exited' \in BOOLEAN
      BY DEF EndFile
    <2> QED BY <2>3, <2>4 DEF EndFile, lockvars, testvars
  <1>2. TypeOK /\ TreeInv /\ LoadInv /\ SuffixInv /\ HitInv /\ CountInv
    BY DEF PoolInv
  <1>3. HitInv'
    <2>1. \A t \in Threads : pc'[t] \in {"new", "gone"}
      BY <1>1, <1>2 DEF LoadInv
    <2> QED BY <2>1 DEF HitInv
  <1>4. LoadInv'
    BY <1>1, <1>2 DEF LoadInv
  <1>5. SuffixInv' /\ TreeInv' /\ UNCHANGED Treed
    BY <1>1, <1>2 DEF SuffixInv, TreeInv, TreeWhole, Treed, EntriesOf
  <1>6. Scaled \in Int /\ (~has_suffix => Scaled = difficulty)
    <2>1. difficulty \in Int /\ SuffixBase \in Nat \ {0}
      BY <1>2, PoolAssumption DEF TypeOK
    <2>2. difficulty \div SuffixBase \in Int
      BY <2>1, Z3
    <2> QED BY <2>1, <2>2 DEF Scaled
  <1>7. TypeOK'
    <2>1. LoopTypeOK'
      BY <1>1, <1>2 DEF TypeOK, LoopTypeOK
    <2>2. file' \in 1..Len(cmd.files) + 1
      <3>1. file \in 1..Len(cmd.files) + 1 /\ cmd \in CommandLines /\ file <= Len(cmd.files)
        BY <1>2 DEF TypeOK, EndFile
      <3>2. Len(cmd.files) \in Nat
        BY <3>1, PoolAssumption
      <3> QED BY <1>1, <3>1, <3>2
    <2>3. nth' \in Nat \ {0} /\ added' \in Nat /\ npatterns' \in Nat /\ generation' \in Nat
      BY <1>1, <1>2 DEF TypeOK
    <2> QED BY <1>1, <1>2, <1>6, <2>1, <2>2, <2>3 DEF TypeOK
  <1>8. CountInv'
    <2>1. Plain' <=> Plain
      BY <1>1, SamePatterns
    <2>2. SuffixOnly' <=> SuffixOnly
      BY <1>1 DEF SuffixOnly
    <2>3. npatterns' + added' = npatterns + added
      BY <1>1, <1>2 DEF TypeOK
    <2> QED BY <1>1, <1>2, <1>5, <1>6, <2>1, <2>2, <2>3 DEF CountInv
  <1> QED BY <1>3, <1>4, <1>5, <1>7, <1>8

-------------------------------------------------------------------------------
(* The threads keep the invariant *)

\* What a step leaves of the invariant that changes neither tree nor counters.
LEMMA PoolSame ==
  ASSUME PoolInv, UNCHANGED poolvars
  PROVE /\ (TreeInv /\ SuffixInv /\ CountInv)'
        /\ UNCHANGED <<tree, has_suffix, suffix, cmd, file, found, reports, Loaded>>
        /\ LoopTypeOK' /\ address' \in [Threads -> Addresses]
             /\ match' \in [Threads -> Patterns \cup SuffixValues \cup {NoSuffix}] => TypeOK'
        /\ Loaded => LoadInv'
  <1>1. UNCHANGED <<cmd, file, nth, added, tree, has_suffix, suffix, npatterns, difficulty, found,
                    generation, reports>>
    BY DEF poolvars
  <1>2. TypeOK /\ TreeInv /\ LoadInv /\ SuffixInv /\ CountInv
    BY DEF PoolInv
  <1>3. SuffixInv' /\ TreeInv' /\ UNCHANGED Treed
    BY <1>1, <1>2 DEF SuffixInv, TreeInv, TreeWhole, Treed, EntriesOf
  <1>4. UNCHANGED Loaded
    BY <1>1 DEF Loaded
  <1>5. Loaded => LoadInv'
    BY <1>1, <1>2, <1>4 DEF LoadInv
  <1>6. ASSUME LoopTypeOK', address' \in [Threads -> Addresses],
               match' \in [Threads -> Patterns \cup SuffixValues \cup {NoSuffix}]
        PROVE TypeOK'
    BY <1>1, <1>2, <1>6 DEF TypeOK
  <1>7. CountInv'
    <2>1. Plain' <=> Plain
      BY <1>1, SamePatterns
    <2>2. SuffixOnly' <=> SuffixOnly
      BY <1>1 DEF SuffixOnly
    <2> QED BY <1>1, <1>2, <1>3, <2>1, <2>2 DEF CountInv
  <1> QED BY <1>1, <1>3, <1>4, <1>5, <1>6, <1>7

\* Threads that run have the files behind them.
LEMMA RunsLoaded ==
  ASSUME PoolInv, NEW t \in Threads, pc[t] \notin {"new", "gone"}
  PROVE Loaded
  BY DEF PoolInv, LoadInv

\* What a match may be
LEMMA HitTypes ==
  ASSUME TypeOK, NEW a
  PROVE Hits(a) \subseteq Patterns \cup SuffixValues \cup {NoSuffix} /\ TreeHits(a) \subseteq Hits(a)
  <1>1. SuffixHits(a) \subseteq SuffixValues \cup {NoSuffix}
    BY DEF SuffixHits, TypeOK
  <1>2. TreeHits(a) \subseteq Patterns /\ (tree = {} => TreeHits(a) = {})
    BY DEF TreeHits
  <1> QED BY <1>1, <1>2 DEF Hits, SuffixOnly

LEMMA WalkKept ==
  ASSUME PoolInv, LockInv', NEW t \in Threads, Walk(t)
  PROVE (TypeOK /\ TreeInv /\ LoadInv /\ SuffixInv /\ HitInv /\ CountInv)'
  <1>1. UNCHANGED poolvars /\ UNCHANGED <<address, match>>
    BY DEF Walk, testvars
  <1>2. PICK to \in Moves : /\ pc' = [pc EXCEPT ![t] = to]
                            /\ to \in {"hit", "matched"} => pc[t] = "hit"
                            /\ pc[t] # "gone" /\ (pc[t] = "new" => Loaded)
    BY WalkMoves DEF PoolInv, LoopMove
  <1>3. Loaded
    BY <1>2, RunsLoaded
  <1>4. TypeOK'
    BY <1>1, PoolSame DEF PoolInv, LockInv, TypeOK
  <1>5. HitInv'
    <2>1. pc \in [Threads -> Moves]
      BY DEF PoolInv, LockInv, LoopTypeOK, Moves
    <2>2. ASSUME NEW u \in Threads, pc'[u] \in {"hit", "matched"} PROVE (match[u] \in Hits(address[u]))'
      <3>1. pc[u] \in {"hit", "matched"}
        BY <1>2, <2>1, <2>2
      <3>2. match[u] \in Hits(address[u])
        BY <3>1 DEF PoolInv, HitInv
      <3>3. Hits(address[u])' = Hits(address[u])
        BY <1>1, PoolSame, HitsKept
      <3> QED BY <1>1, <3>2, <3>3
    <2> QED BY <2>2 DEF HitInv
  <1> QED BY <1>1, <1>3, <1>4, <1>5, PoolSame

\* A thread that looks at its address keeps it, if what it goes by matches.
LEMMA LookKept ==
  ASSUME PoolInv, LockInv', UNCHANGED poolvars, NEW t \in Threads, pc[t] \notin {"new", "gone"},
         NEW a \in Addresses, address' = [address EXCEPT ![t] = a],
         NEW to \in Moves, pc' = [pc EXCEPT ![t] = to],
         \/ UNCHANGED match /\ to \notin {"hit", "matched"}
         \/ \E m \in Hits(a) : match' = [match EXCEPT ![t] = m]
  PROVE (TypeOK /\ TreeInv /\ LoadInv /\ SuffixInv /\ HitInv /\ CountInv)'
  <1>1. TypeOK /\ LockInv /\ HitInv
    BY DEF PoolInv
  <1>2. /\ match \in [Threads -> Patterns \cup SuffixValues \cup {NoSuffix}]
        /\ address \in [Threads -> Addresses] /\ pc \in [Threads -> Moves]
    BY <1>1 DEF TypeOK, LockInv, LoopTypeOK, Moves
  <1>3. match' \in [Threads -> Patterns \cup SuffixValues \cup {NoSuffix}]
    BY <1>1, <1>2, HitTypes
  <1>4. TypeOK'
    BY <1>2, <1>3, PoolSame DEF LockInv
  <1>5. HitInv'
    <2>1. ASSUME NEW u \in Threads, pc'[u] \in {"hit", "matched"} PROVE (match[u] \in Hits(address[u]))'
      <3>1. CASE u = t
        <4>1. match'[t] \in Hits(a) /\ address'[t] = a
          BY <1>2, <2>1, <3>1
        <4>2. UNCHANGED <<cmd, tree, has_suffix, suffix>>
          BY PoolSame
        <4>3. (CaseMatters' <=> CaseMatters) /\ (SuffixOnly' <=> SuffixOnly)
          BY <4>2 DEF CaseMatters, Insensitive, SuffixOnly
        <4>4. SuffixHits(address[t])' = SuffixHits(a)
          BY <4>1, <4>2, <4>3 DEF SuffixHits, SuffixFits
        <4>5. TreeHits(address[t])' = TreeHits(a)
          BY <4>1, <4>2, <4>3 DEF TreeHits, SuffixFits, CaseFits
        <4>6. Hits(address[t])' = Hits(a)
          BY <4>3, <4>4, <4>5 DEF Hits
        <4> QED BY <3>1, <4>1, <4>6
      <3>2. CASE u # t
        <4>1. pc[u] \in {"hit", "matched"} /\ match'[u] = match[u] /\ address'[u] = address[u]
          BY <1>2, <2>1, <3>2
        <4>2. Hits(address[u])' = Hits(address[u])
          BY <4>1, PoolSame, HitsKept
        <4> QED BY <1>1, <4>1, <4>2 DEF HitInv
      <3> QED BY <3>1, <3>2
    <2> QED BY <2>1 DEF HitInv
  <1> QED BY <1>4, <1>5, PoolSame, RunsLoaded

LEMMA TestKept ==
  ASSUME PoolInv, LockInv', NEW t \in Threads, Test(t)
  PROVE (TypeOK /\ TreeInv /\ LoadInv /\ SuffixInv /\ HitInv /\ CountInv)'
  <1>1. PICK a \in Tested :
          /\ address' = [address EXCEPT ![t] = a]
          /\ \/ Hits(a) = {} /\ Miss(t)
             \/ \E m \in Hits(a) : match' = [match EXCEPT ![t] = m] /\ Go(t, "hit")
    BY DEF Test
  <1>2. pc[t] = "loop" /\ UNCHANGED poolvars /\ a \in Addresses
    BY DEF Test, Tested
  <1>3. CASE Miss(t)
    <2>1. PICK to \in {"out", "loop"} : pc' = [pc EXCEPT ![t] = to] /\ UNCHANGED match
      BY <1>3 DEF Miss, Go
    <2>2. to \in Moves /\ to \notin {"hit", "matched"}
      BY DEF Moves
    <2> QED BY <1>1, <1>2, <2>1, <2>2, LookKept
  <1>4. CASE \E m \in Hits(a) : match' = [match EXCEPT ![t] = m] /\ Go(t, "hit")
    <2>1. pc' = [pc EXCEPT ![t] = "hit"] /\ "hit" \in Moves
      BY <1>4 DEF Go, Moves
    <2> QED BY <1>1, <1>2, <1>4, <2>1, LookKept
  <1> QED BY <1>1, <1>3, <1>4

LEMMA UpgradedKept ==
  ASSUME PoolInv, LockInv', NEW t \in Threads, Upgraded(t)
  PROVE (TypeOK /\ TreeInv /\ LoadInv /\ SuffixInv /\ HitInv /\ CountInv)'
  <1>1. /\ pc[t] = "waiting" /\ UNCHANGED poolvars /\ UNCHANGED address
        /\ \/ Again(t) = {} /\ Miss(t)
           \/ \E m \in Again(t) : match' = [match EXCEPT ![t] = m] /\ Go(t, "matched")
    BY DEF Upgraded
  <1>2. address[t] \in Addresses /\ address' = [address EXCEPT ![t] = address[t]] /\ TypeOK
    BY <1>1 DEF PoolInv, TypeOK
  <1>3. Again(t) \subseteq Hits(address[t])
    BY <1>2, HitTypes DEF Again
  <1>4. CASE Miss(t)
    <2>1. PICK to \in {"out", "loop"} : pc' = [pc EXCEPT ![t] = to] /\ UNCHANGED match
      BY <1>4 DEF Miss, Go
    <2>2. to \in Moves /\ to \notin {"hit", "matched"}
      BY DEF Moves
    <2> QED BY <1>1, <1>2, <2>1, <2>2, LookKept
  <1>5. CASE \E m \in Again(t) : match' = [match EXCEPT ![t] = m] /\ Go(t, "matched")
    <2>1. pc' = [pc EXCEPT ![t] = "matched"] /\ "matched" \in Moves
      BY <1>5 DEF Go, Moves
    <2> QED BY <1>1, <1>2, <1>3, <1>5, <2>1, LookKept
  <1> QED BY <1>1, <1>4, <1>5

\* What a thread reports is a pattern in the tree, or the suffix with no tree.
LEMMA ReportedLives ==
  ASSUME PoolInv, NEW t \in Threads, pc[t] = "matched"
  PROVE /\ Loaded /\ added = 0
        /\ \/ match[t] \in Treed /\ match[t] \in Patterns
           \/ match[t] \in SuffixValues /\ match[t] = suffix /\ SuffixOnly
        /\ npatterns \in Nat /\ npatterns >= 1
        /\ \A u \in Threads \ {t} : pc[u] \notin {"hit", "matched"}
  <1>1. Loaded /\ added = 0
    BY RunsLoaded DEF PoolInv, LoadInv
  <1>2. match[t] \in Hits(address[t])
    BY DEF PoolInv, HitInv
  <1>3. \/ match[t] \in Treed /\ match[t] \in Patterns
        \/ match[t] \in SuffixValues /\ match[t] = suffix /\ SuffixOnly
    <2>1. CASE SuffixOnly
      <3>1. match[t] = suffix
        BY <1>2, <2>1 DEF Hits, SuffixHits
      <3>2. suffix \in SuffixValues
        BY <2>1 DEF PoolInv, TypeOK, SuffixInv, SuffixOnly
      <3> QED BY <2>1, <3>1, <3>2
    <2>2. CASE ~SuffixOnly
      <3>1. match[t] \in Patterns /\ <<address[t].range, match[t]>> \in tree
        BY <1>2, <2>2 DEF Hits, TreeHits
      <3> QED BY <3>1 DEF Treed
    <2> QED BY <2>1, <2>2
  <1>4. npatterns \in Nat /\ npatterns >= 1
    <2>1. npatterns \in Nat /\ npatterns + added >= Cardinality(Treed) /\ IsFiniteSet(Treed)
      BY DEF PoolInv, TypeOK, CountInv, TreeInv
    <2>2. Treed # {} => Cardinality(Treed) \in Nat \ {0}
      BY <2>1, FS_EmptySet, FS_CardinalityType
    <2>3. SuffixOnly => npatterns + added >= 1
      BY DEF PoolInv, CountInv
    <2> QED BY <1>1, <1>3, <2>1, <2>2, <2>3
  <1>5. \A u \in Threads \ {t} : pc[u] \notin {"hit", "matched"}
    BY DEF PoolInv, LockInv
  <1> QED BY <1>1, <1>3, <1>4, <1>5

LEMMA ReportKept ==
  ASSUME PoolInv, LockInv', NEW t \in Threads, Report(t)
  PROVE (TypeOK /\ TreeInv /\ LoadInv /\ SuffixInv /\ HitInv /\ CountInv)'
  <1>1. /\ pc[t] = "matched" /\ found' = found + 1 /\ exited' = Enough(found')
        /\ reports' = [reports EXCEPT ![match[t]] = @ + 1]
        /\ UNCHANGED <<hold, pending, cmd, file, nth, added, suffix, address, match>>
    BY DEF Report, lockvars, testvars
  <1>2. TypeOK /\ LockInv /\ TreeInv /\ LoadInv /\ SuffixInv /\ HitInv /\ CountInv
    BY DEF PoolInv
  <1>3. /\ Loaded /\ added = 0
        /\ \/ match[t] \in Treed /\ match[t] \in Patterns
           \/ match[t] \in SuffixValues /\ match[t] = suffix /\ SuffixOnly
        /\ npatterns \in Nat /\ npatterns >= 1
        /\ \A u \in Threads \ {t} : pc[u] \notin {"hit", "matched"}
    BY <1>1, ReportedLives
  <1>4. PICK to \in {"out", "rekeying"} : pc' = [pc EXCEPT ![t] = to]
    BY DEF Report, RemoveMatch, Go
  <1>5. HitInv'
    <2>1. \A u \in Threads : pc'[u] \notin {"hit", "matched"}
      BY <1>2, <1>3, <1>4 DEF LockInv, LoopTypeOK
    <2> QED BY <2>1 DEF HitInv
  <1>6. LoadInv'
    BY <1>1, <1>3 DEF LoadInv, Loaded
  <1>7. found' \in Nat /\ reports' \in [Patterns \cup SuffixValues -> Nat]
    BY <1>1, <1>2, <1>3 DEF TypeOK
  <1>8. ASSUME TreeInv', tree' \subseteq Ranges \X Patterns, has_suffix' \in BOOLEAN,
               npatterns' \in Nat, difficulty' \in Int, generation' \in Nat
        PROVE TypeOK'
    BY <1>1, <1>2, <1>7, <1>8 DEF TypeOK, LockInv
  <1>9. Plain' <=> Plain
    BY <1>1, SamePatterns
  <1>10. CASE UNCHANGED <<tree, has_suffix, npatterns, difficulty, generation>>
    <2>1. TreeInv' /\ SuffixInv' /\ UNCHANGED Treed
      BY <1>1, <1>2, <1>10 DEF TreeInv, TreeWhole, EntriesOf, Treed, SuffixInv
    <2>2. TypeOK'
      BY <1>2, <1>8, <1>10, <2>1 DEF TypeOK
    <2>3. SuffixOnly' <=> SuffixOnly
      BY <1>10 DEF SuffixOnly
    <2>4. CountInv'
      BY <1>1, <1>2, <1>9, <1>10, <2>1, <2>3 DEF CountInv
    <2> QED BY <1>5, <1>6, <2>1, <2>2, <2>4
  <1>11. CASE RemoveMatch(t, match[t])
    <2>1. /\ generation' = generation + 1 /\ npatterns' = npatterns - 1 /\ has_suffix' = FALSE
          /\ IF match[t] \in SuffixValues THEN UNCHANGED <<tree, difficulty>>
             ELSE /\ tree' = {e \in tree : e[2] # match[t]}
                  /\ difficulty' = difficulty - Width * Cardinality(Needs[match[t]])
      BY <1>11 DEF RemoveMatch, Without, Less
    <2>2. SuffixInv' /\ ~SuffixOnly'
      BY <2>1 DEF SuffixInv, SuffixOnly
    <2>3. /\ npatterns' \in Nat /\ added' = 0 /\ generation' \in Nat /\ has_suffix' \in BOOLEAN
          /\ npatterns' + added' = npatterns + added - 1 /\ npatterns' + added' >= 0
      <3>1. generation \in Nat
        BY <1>2 DEF TypeOK
      <3>2. npatterns \in Nat /\ npatterns >= 1 /\ added = 0 /\ added' = 0
        BY <1>1, <1>3
      <3>3. npatterns' = npatterns - 1 /\ generation' = generation + 1
        BY <2>1
      <3>4. has_suffix' \in BOOLEAN
        BY <2>1
      <3> QED BY <3>1, <3>2, <3>3, <3>4
    <2>4. Cardinality(Treed) \in Nat /\ Cardinality(tree) \in Nat /\ Width \in Nat
      BY <1>2, FS_CardinalityType, PoolAssumption DEF TreeInv
    <2>5. CASE match[t] \in SuffixValues
      <3>1. UNCHANGED <<tree, difficulty>>
        BY <2>1, <2>5
      <3>2. TreeInv' /\ UNCHANGED Treed
        BY <1>1, <1>2, <3>1 DEF TreeInv, TreeWhole, EntriesOf, Treed
      <3>3. TypeOK'
        BY <1>2, <1>8, <2>3, <3>1, <3>2 DEF TypeOK
      <3>4. SuffixOnly
        BY <1>3, <2>5, PoolAssumption
      <3>5. Cardinality(Treed') = 0
        BY <3>2, <3>4, FS_EmptySet DEF SuffixOnly, Treed
      <3>6. ~Plain
        BY <1>2, <3>4 DEF CountInv, SuffixOnly
      <3>7. CountInv'
        BY <1>9, <2>2, <2>3, <3>5, <3>6 DEF CountInv
      <3> QED BY <1>5, <1>6, <2>2, <3>2, <3>3, <3>7
    <2>6. CASE match[t] \notin SuffixValues
      <3>1. match[t] \in Treed /\ tree' = {e \in tree : e[2] # match[t]}
            /\ difficulty' = difficulty - Width * Cardinality(Needs[match[t]])
        BY <1>3, <2>1, <2>6
      <3>2. /\ TreeInv' /\ match[t] \in Patterns
            /\ Cardinality(tree') = Cardinality(tree) - Cardinality(Needs[match[t]])
            /\ Cardinality(Treed') = Cardinality(Treed) - 1
        BY <1>1, <1>2, <3>1, TreeShrinks
      <3>3. Cardinality(Needs[match[t]]) \in Nat /\ difficulty \in Int /\ tree \subseteq Ranges \X Patterns
        BY <1>2, <3>2, EntriesCount DEF TypeOK
      <3> DEFINE k == Cardinality(Needs[match[t]])
                 n == Cardinality(tree)
      <3>4. k \in Nat /\ n \in Nat
        BY <2>4, <3>3
      <3>5. difficulty' = difficulty - Width * k /\ Cardinality(tree') = n - k
        BY <3>1, <3>2
      <3> HIDE DEF k, n
      <3>6. Width * k \in Nat /\ Width * (n - k) = Width * n - Width * k
        BY <2>4, <3>4
      <3>7. TypeOK'
        BY <1>8, <2>3, <3>1, <3>2, <3>3, <3>5, <3>6
      <3>8. Plain => difficulty' = Width * Cardinality(tree')
        BY <1>2, <3>5, <3>6 DEF CountInv, n
      <3>9. CountInv'
        BY <1>2, <1>3, <1>9, <2>1, <2>2, <2>3, <2>4, <3>2, <3>8 DEF CountInv, TypeOK
      <3> QED BY <1>5, <1>6, <2>2, <3>2, <3>7, <3>9
    <2> QED BY <2>5, <2>6
  <1> QED BY <1>10, <1>11 DEF Report

-------------------------------------------------------------------------------
(* The tree and the counts *)

LEMMA InvInit == Init => PoolInv
  <1> SUFFICES ASSUME Init PROVE PoolInv
    OBVIOUS
  <1>1. /\ cmd \in CommandLines /\ file = 1 /\ nth = 1 /\ added = 0 /\ tree = {} /\ has_suffix = FALSE
        /\ suffix = NoSuffix /\ npatterns = 0 /\ difficulty = 0 /\ found = 0 /\ generation = 0
        /\ address = [t \in Threads |-> [range |-> NoRange, suffix |-> NoSuffix, exact |-> FALSE]]
        /\ match = [t \in Threads |-> NoSuffix]
        /\ reports = [m \in Patterns \cup SuffixValues |-> 0]
        /\ hold = [t \in Threads |-> "none"] /\ pending = {} /\ exited = FALSE
        /\ pc = [t \in Threads |-> IF t \in cmd.threads THEN "new" ELSE "gone"]
    BY DEF Init, LoopInit, Lock!Init
  <1>2. Len(cmd.files) \in Nat \ {0} /\ Width \in Nat
    BY <1>1, PoolAssumption
  <1>3. \A t \in Threads : pc[t] \in {"new", "gone"}
    BY <1>1
  <1>4. LoopTypeOK
    BY <1>1 DEF LoopTypeOK
  <1>5. LockInv
    BY <1>1, <1>3, <1>4 DEF LockInv
  <1>6. address \in [Threads -> Addresses]
    BY <1>1 DEF Addresses
  <1>7. TypeOK
    <2>1. file \in 1..Len(cmd.files) + 1 /\ nth \in Nat \ {0} /\ difficulty \in Int
      BY <1>1, <1>2
    <2>2. /\ match \in [Threads -> Patterns \cup SuffixValues \cup {NoSuffix}]
          /\ reports \in [Patterns \cup SuffixValues -> Nat]
      BY <1>1
    <2> QED BY <1>1, <1>4, <1>6, <2>1, <2>2 DEF TypeOK
  <1>8. Treed = {}
    BY <1>1 DEF Treed
  <1>9. TreeInv
    BY <1>1, <1>8, FS_EmptySet DEF TreeInv, TreeWhole
  <1>10. LoadInv /\ SuffixInv
    BY <1>1, <1>2, <1>3 DEF LoadInv, SuffixInv, Loaded
  <1>11. HitInv
    BY <1>3 DEF HitInv
  <1>12. CountInv
    BY <1>1, <1>2, <1>8, FS_EmptySet DEF CountInv, SuffixOnly
  <1> QED BY <1>5, <1>7, <1>9, <1>10, <1>11, <1>12 DEF PoolInv

LEMMA InvNext == PoolInv /\ [Next]_vars => PoolInv'
  <1> SUFFICES ASSUME PoolInv, [Next]_vars PROVE PoolInv'
    OBVIOUS
  <1>1. LockInv'
    BY LockKept DEF PoolInv
  <1>2. CASE UNCHANGED vars
    <2>1. UNCHANGED poolvars /\ UNCHANGED <<pc, address, match>>
      BY <1>2 DEF vars, loopvars, testvars
    <2>2. TypeOK'
      BY <1>1, <2>1, PoolSame DEF PoolInv, TypeOK, LockInv
    <2>3. HitInv'
      <3>1. ASSUME NEW u \in Threads, pc'[u] \in {"hit", "matched"} PROVE (match[u] \in Hits(address[u]))'
        <4>1. Hits(address[u])' = Hits(address[u])
          BY <2>1, PoolSame, HitsKept
        <4> QED BY <2>1, <3>1, <4>1 DEF PoolInv, HitInv
      <3> QED BY <3>1 DEF HitInv
    <2>4. LoadInv'
      BY <2>1 DEF PoolInv, LoadInv, Loaded, poolvars
    <2> QED BY <1>1, <2>1, <2>2, <2>3, <2>4, PoolSame DEF PoolInv
  <1>3. CASE AddPattern
    BY <1>1, <1>3, AddKept DEF PoolInv
  <1>4. CASE EndFile
    BY <1>1, <1>4, EndKept DEF PoolInv
  <1>5. ASSUME NEW t \in Threads, Walk(t) \/ Test(t) \/ Upgraded(t) \/ Report(t) PROVE PoolInv'
    BY <1>1, <1>5, WalkKept, TestKept, UpgradedKept, ReportKept DEF PoolInv
  <1> QED BY <1>2, <1>3, <1>4, <1>5, Kinds

\* In every state the invariant holds: the lock, the tree and the counters agree.
THEOREM Invariance == Spec => []PoolInv
  BY InvInit, InvNext, PTL DEF Spec

\* The ranges in the tree are disjoint and whole patterns; without suffixes
\* vc_npatterns and the difficulty are what is in it (PoolWhole).
THEOREM PoolStaysWhole == Spec => []PoolWhole
  <1>1. PoolInv => PoolWhole
    <2> SUFFICES ASSUME PoolInv PROVE PoolWhole
      OBVIOUS
    <2>1. TypeOK /\ TreeWhole
      BY DEF PoolInv, TreeInv
    <2>2. CountsPatterns
      <3>1. ASSUME Loaded, Plain PROVE npatterns = Cardinality(Live)
        <4>1. ~has_suffix /\ npatterns + added = Cardinality(Treed) /\ added = 0 /\ npatterns \in Nat
          BY <3>1 DEF PoolInv, CountInv, LoadInv, TypeOK
        <4>2. Live = Treed
          BY <4>1 DEF Live, Treed, SuffixOnly
        <4> QED BY <4>1, <4>2
      <3> QED BY <3>1 DEF CountsPatterns
    <2>3. DifficultyAgrees
      BY DEF PoolInv, CountInv, DifficultyAgrees
    <2> QED BY <2>1, <2>2, <2>3 DEF PoolWhole
  <1> QED BY <1>1, Invariance, PTL

-------------------------------------------------------------------------------
(* The reports *)

\* Where any step but a load takes a thread
LEMMA ThreadMoves ==
  ASSUME LockInv, NEW t \in Threads, Walk(t) \/ Test(t) \/ Upgraded(t) \/ Report(t)
  PROVE \E to \in Moves : /\ pc' = [pc EXCEPT ![t] = to]
                          /\ pc[t] \in {"out", "gone"} => to \in {"out", "gone"}
                          /\ pc[t] # "gone"
  <1> USE DEF Go, Moves
  <1>1. CASE Walk(t)
    BY <1>1, WalkMoves DEF LoopMove
  <1>2. CASE Test(t)
    BY <1>2 DEF Test, Miss
  <1>3. CASE Upgraded(t)
    BY <1>3 DEF Upgraded, Miss
  <1>4. CASE Report(t)
    BY <1>4 DEF Report, RemoveMatch
  <1> QED BY <1>1, <1>2, <1>3, <1>4

LEMMA OnceKept == PoolInv /\ OnceInv /\ [Next]_vars => OnceInv'
  <1> SUFFICES ASSUME PoolInv, OnceInv, [Next]_vars PROVE OnceInv'
    OBVIOUS
  <1>1. CASE UNCHANGED poolvars
    <2>1. UNCHANGED <<cmd, reports, tree, has_suffix>>
      BY <1>1 DEF poolvars
    <2> QED BY <2>1 DEF OnceInv, Treed
  <1>2. CASE AddPattern \/ EndFile
    <2>1. UNCHANGED reports /\ ~Loaded /\ DOMAIN reports = Patterns \cup SuffixValues
      <3>1. CASE AddPattern
        BY <3>1, Adds DEF PoolInv, TypeOK
      <3>2. CASE EndFile
        <4>1. cmd \in CommandLines /\ file \in 1..Len(cmd.files) + 1 /\ file <= Len(cmd.files)
          BY <3>2 DEF PoolInv, TypeOK, EndFile
        <4>2. Len(cmd.files) \in Nat
          BY <4>1, PoolAssumption
        <4> QED BY <3>2, <4>1, <4>2 DEF EndFile, Loaded, PoolInv, TypeOK
      <3> QED BY <1>2, <3>1, <3>2
    <2>2. \A m \in DOMAIN reports' : reports'[m] = 0
      BY <2>1 DEF PoolInv, LoadInv
    <2> QED BY <2>2 DEF OnceInv
  <1>3. ASSUME NEW t \in Threads, Report(t) PROVE OnceInv'
    <2> SUFFICES ASSUME cmd'.remove_on_match, ~cmd'.only_one, NEW m \in DOMAIN reports'
                 PROVE /\ reports'[m] <= 1
                       /\ reports'[m] = 1 => m \notin Treed' /\ (m \in SuffixValues => ~has_suffix')
      BY DEF OnceInv
    <2>1. /\ pc[t] = "matched" /\ UNCHANGED cmd
          /\ reports' = [reports EXCEPT ![match[t]] = @ + 1]
      BY <1>3 DEF Report
    <2>2. /\ reports \in [Patterns \cup SuffixValues -> Nat] /\ cmd \in CommandLines
          /\ m \in Patterns \cup SuffixValues
      BY <2>1 DEF PoolInv, TypeOK
    <2>3. cmd.numpairs = 0
      BY <2>1, <2>2, PoolAssumption
    <2>4. RemoveMatch(t, match[t])
      BY <1>3, <2>1, <2>3 DEF Report, Enough
    <2>5. /\ has_suffix' = FALSE
          /\ IF match[t] \in SuffixValues THEN UNCHANGED tree
             ELSE tree' = {e \in tree : e[2] # match[t]}
      BY <2>4 DEF RemoveMatch, Without
    <2>6. \/ match[t] \in Treed /\ match[t] \in Patterns
          \/ match[t] \in SuffixValues /\ match[t] = suffix /\ SuffixOnly
      BY <2>1, ReportedLives
    <2>7. /\ reports[m] <= 1
          /\ reports[m] = 1 => m \notin Treed /\ (m \in SuffixValues => ~has_suffix)
      BY <2>1, <2>2 DEF OnceInv
    <2>8. Treed' \subseteq Treed /\ (match[t] \notin SuffixValues => match[t] \notin Treed')
      BY <2>5 DEF Treed
    <2>9. CASE m = match[t]
      <3>1. reports[m] # 1
        BY <2>6, <2>7, <2>9 DEF SuffixOnly
      <3>2. reports[m] \in Nat /\ reports'[m] = reports[m] + 1
        BY <2>1, <2>2, <2>9
      <3>3. match[t] \in SuffixValues => Treed = {}
        BY <2>6, PoolAssumption DEF SuffixOnly, Treed
      <3>4. m \notin Treed'
        BY <2>8, <2>9, <3>3
      <3> QED BY <2>5, <2>7, <3>1, <3>2, <3>4
    <2>10. CASE m # match[t]
      <3>1. reports'[m] = reports[m]
        BY <2>1, <2>2, <2>10
      <3> QED BY <2>5, <2>7, <2>8, <3>1
    <2> QED BY <2>9, <2>10
  <1>4. ASSUME NEW t \in Threads, Walk(t) \/ Test(t) \/ Upgraded(t) PROVE UNCHANGED poolvars
    BY <1>4 DEF Walk, Test, Upgraded
  <1> QED BY <1>1, <1>2, <1>3, <1>4, Kinds DEF vars

\* A thread moves, with or without a report.
LEMMA AmountStep ==
  ASSUME AmountInv, NEW t \in Threads, NEW to \in Moves,
         cmd.numpairs \in Nat, cmd.threads \subseteq Threads, found \in Nat,
         pc \in [Threads -> Moves], UNCHANGED cmd,
         pc' = [pc EXCEPT ![t] = to], pc[t] # "gone",
         pc[t] \in {"out", "gone"} => to \in {"out", "gone"},
         \/ UNCHANGED found /\ (~exited \/ UNCHANGED exited)
         \/ /\ ~exited /\ pc[t] = "matched" /\ found' = found + 1
            /\ exited' = (cmd.numpairs >= 1 /\ found' >= cmd.numpairs)
            /\ cmd.only_one => to = "out"
  PROVE AmountInv'
  <1> DEFINE Out == {u \in cmd.threads : pc[u] \in {"out", "gone"}}
  <1>1. IsFiniteSet(Out) /\ Cardinality(Out) \in Nat
    BY PoolAssumption, FS_Subset, FS_CardinalityType
  <1>2. /\ \A u \in Threads : pc[u] \in {"out", "gone"} => pc'[u] \in {"out", "gone"}
        /\ \A u \in Threads \ cmd.threads : pc'[u] = "gone"
    BY DEF AmountInv
  <1>3. /\ IsFiniteSet(Out') /\ Cardinality(Out') \in Nat /\ Out \subseteq Out'
        /\ Cardinality(Out) <= Cardinality(Out')
    <2>1. Out \subseteq Out' /\ Out' \subseteq Threads
      BY <1>2
    <2>2. IsFiniteSet(Out')
      BY <2>1, PoolAssumption, FS_Subset
    <2> QED BY <2>1, <2>2, FS_Subset, FS_CardinalityType
  <1>4. /\ cmd.numpairs >= 1 => found <= cmd.numpairs /\ (~exited => found < cmd.numpairs)
        /\ cmd.only_one => found <= Cardinality(Out)
    BY DEF AmountInv
  <1>5. ASSUME cmd.numpairs >= 1 => found' <= cmd.numpairs /\ (~exited' => found' < cmd.numpairs),
               cmd.only_one => found' <= Cardinality(Out')
        PROVE AmountInv'
    BY <1>2, <1>5 DEF AmountInv
  <1>6. CASE UNCHANGED found /\ (~exited \/ UNCHANGED exited)
    <2>1. cmd.only_one => found' <= Cardinality(Out')
      <3> HIDE DEF Out
      <3> QED BY <1>1, <1>3, <1>4, <1>6
    <2> QED BY <1>4, <1>5, <1>6, <2>1
  <1>7. CASE /\ ~exited /\ pc[t] = "matched" /\ found' = found + 1
             /\ exited' = (cmd.numpairs >= 1 /\ found' >= cmd.numpairs)
             /\ cmd.only_one => to = "out"
    <2>1. ASSUME cmd.numpairs >= 1 PROVE found' <= cmd.numpairs /\ (~exited' => found' < cmd.numpairs)
      <3>1. found < cmd.numpairs
        BY <1>4, <1>7, <2>1
      <3>2. found' >= cmd.numpairs => exited'
        BY <1>7, <2>1
      <3>3. found' \in Nat /\ found' <= cmd.numpairs
        BY <1>7, <3>1
      <3> QED BY <3>2, <3>3
    <2>2. ASSUME cmd.only_one PROVE found' <= Cardinality(Out')
      <3>1. t \in cmd.threads /\ t \notin Out
        BY <1>7 DEF AmountInv
      <3>2. Out \cup {t} \subseteq Out'
        BY <1>3, <1>7, <2>2, <3>1
      <3> HIDE DEF Out
      <3>3. IsFiniteSet(Out \cup {t}) /\ Cardinality(Out \cup {t}) = Cardinality(Out) + 1
        BY <1>1, <3>1, FS_AddElement
      <3>4. Cardinality(Out \cup {t}) <= Cardinality(Out')
        BY <1>3, <3>2, FS_Subset
      <3> QED BY <1>1, <1>3, <1>4, <1>7, <2>2, <3>3, <3>4
    <2> QED BY <1>5, <2>1, <2>2
  <1> QED BY <1>6, <1>7

LEMMA AmountKept == PoolInv /\ AmountInv /\ [Next]_vars => AmountInv'
  <1> SUFFICES ASSUME PoolInv, AmountInv, [Next]_vars PROVE AmountInv'
    OBVIOUS
  <1>1. /\ cmd \in CommandLines /\ found \in Nat /\ cmd.numpairs \in Nat /\ cmd.threads \subseteq Threads
        /\ pc \in [Threads -> Moves] /\ LockInv
    BY PoolAssumption DEF PoolInv, TypeOK, LockInv, LoopTypeOK, Moves
  <1>2. UNCHANGED cmd
    BY Kinds DEF AddPattern, EndFile, Walk, Test, Upgraded, Report, poolvars, vars
  <1>3. CASE AddPattern \/ EndFile \/ UNCHANGED vars
    <2>1. UNCHANGED <<cmd, pc, found>>
      BY <1>2, <1>3 DEF AddPattern, EndFile, vars, loopvars, poolvars
    <2>2. ~exited \/ UNCHANGED exited
      BY <1>3, Kinds DEF AddPattern, Next, Load, vars, loopvars
    <2> QED BY <2>1, <2>2 DEF AmountInv
  <1>4. ASSUME NEW t \in Threads, ~exited, Walk(t) \/ Test(t) \/ Upgraded(t) \/ Report(t)
        PROVE AmountInv'
    <2>1. PICK to \in Moves : /\ pc' = [pc EXCEPT ![t] = to]
                              /\ pc[t] \in {"out", "gone"} => to \in {"out", "gone"}
                              /\ pc[t] # "gone"
      BY <1>1, <1>4, ThreadMoves
    <2>2. CASE Walk(t) \/ Test(t) \/ Upgraded(t)
      <3>1. UNCHANGED found
        BY <2>2 DEF Walk, Test, Upgraded, poolvars
      <3> QED BY <1>1, <1>2, <1>4, <2>1, <3>1, AmountStep
    <2>3. CASE Report(t)
      <3>1. /\ pc[t] = "matched" /\ found' = found + 1
            /\ exited' = (cmd.numpairs >= 1 /\ found' >= cmd.numpairs)
            /\ cmd.only_one => pc' = [pc EXCEPT ![t] = "out"]
        BY <2>3 DEF Report, Enough, Go
      <3>2. cmd.only_one => to = "out"
        BY <1>1, <2>1, <3>1
      <3> QED BY <1>1, <1>2, <1>4, <2>1, <3>1, <3>2, AmountStep
    <2> QED BY <1>4, <2>2, <2>3
  <1> QED BY <1>3, <1>4, Kinds

LEMMA CountedInit == Init => OnceInv /\ AmountInv
  <1> SUFFICES ASSUME Init PROVE OnceInv /\ AmountInv
    OBVIOUS
  <1>1. /\ cmd \in CommandLines /\ found = 0 /\ reports = [m \in Patterns \cup SuffixValues |-> 0]
        /\ pc = [t \in Threads |-> IF t \in cmd.threads THEN "new" ELSE "gone"]
        /\ cmd.numpairs \in Nat /\ cmd.threads \subseteq Threads
    BY PoolAssumption DEF Init, LoopInit
  <1>2. OnceInv
    BY <1>1 DEF OnceInv
  <1>3. {t \in cmd.threads : pc[t] \in {"out", "gone"}} = {}
    BY <1>1
  <1>4. Cardinality({t \in cmd.threads : pc[t] \in {"out", "gone"}}) = 0
    BY <1>3, FS_EmptySet
  <1>5. \A t \in Threads \ cmd.threads : pc[t] = "gone"
    BY <1>1
  <1>6. cmd.numpairs >= 1 => found <= cmd.numpairs /\ (~exited => found < cmd.numpairs)
    BY <1>1
  <1>7. found <= Cardinality({t \in cmd.threads : pc[t] \in {"out", "gone"}})
    <2> DEFINE n == Cardinality({t \in cmd.threads : pc[t] \in {"out", "gone"}})
    <2>1. n = 0
      BY <1>4
    <2> HIDE DEF n
    <2>2. found <= n
      BY <1>1, <2>1
    <2> QED BY <2>2 DEF n
  <1>8. AmountInv
    BY <1>5, <1>6, <1>7 DEF AmountInv
  <1> QED BY <1>2, <1>8

\* Without -k and -1 a pattern is reported once and then no longer searched for; -a and
\* -1 bound the matches (ReportsCounted), however many threads find one at a time.
THEOREM ReportsAreCounted == Spec => []ReportsCounted
  <1>2. PoolInv /\ OnceInv /\ AmountInv => ReportsCounted
    <2> SUFFICES ASSUME PoolInv, OnceInv, AmountInv PROVE ReportsCounted
      OBVIOUS
    <2>1. FoundOnce
      <3> SUFFICES ASSUME cmd.remove_on_match, ~cmd.only_one, NEW m \in DOMAIN reports
                   PROVE reports[m] <= 1 /\ (reports[m] = 1 => m \notin Live)
        BY DEF FoundOnce
      <3>1. reports[m] <= 1 /\ (reports[m] = 1 => m \notin Treed /\ (m \in SuffixValues => ~has_suffix))
        BY DEF OnceInv
      <3>2. SuffixOnly => suffix \in SuffixValues
        BY DEF PoolInv, SuffixInv, TypeOK, SuffixOnly
      <3> QED BY <3>1, <3>2 DEF Live, Treed, SuffixOnly
    <2>2. AmountNotExceeded
      <3>1. /\ cmd \in CommandLines /\ cmd.threads \subseteq Threads /\ IsFiniteSet(Threads) /\ found \in Nat
        BY PoolAssumption DEF PoolInv, TypeOK
      <3>2. /\ Cardinality({t \in cmd.threads : pc[t] \in {"out", "gone"}}) <= Cardinality(cmd.threads)
            /\ Cardinality({t \in cmd.threads : pc[t] \in {"out", "gone"}}) \in Nat
            /\ Cardinality(cmd.threads) \in Nat
        BY <3>1, FS_Subset, FS_CardinalityType
      <3> QED BY <3>1, <3>2 DEF AmountInv, AmountNotExceeded
    <2> QED BY <2>1, <2>2 DEF ReportsCounted
  <1> QED BY CountedInit, <1>2, Invariance, OnceKept, AmountKept, PTL DEF Spec

-------------------------------------------------------------------------------
(* What is reported is what was asked for *)

LEMMA MarkKept == OneSuffix /\ PoolInv /\ MarkInv /\ [Next]_vars => MarkInv'
  <1> SUFFICES ASSUME OneSuffix, PoolInv, MarkInv, [Next]_vars PROVE MarkInv'
    OBVIOUS
  <1>1. /\ cmd \in CommandLines /\ tree \subseteq Ranges \X Patterns /\ Treed \subseteq PatternsOf(cmd)
        /\ PatternsOf(cmd) \subseteq Patterns
    <2>1. cmd \in CommandLines /\ Len(cmd.files) \in Nat \ {0} /\ DOMAIN cmd.files = 1..Len(cmd.files)
      BY PoolAssumption DEF PoolInv, TypeOK
    <2>2. 1 \in DOMAIN cmd.files
      BY <2>1
    <2> QED BY <2>1, <2>2, Files DEF PoolInv, TypeOK, TreeInv
  <1>2. ASSUME tree' \subseteq tree, UNCHANGED <<has_suffix, suffix>> PROVE MarkInv'
    BY <1>2 DEF MarkInv
  <1>3. CASE AddPattern
    <2>1. PICK p \in PatternsOf(cmd) :
            /\ p \in Patterns
            /\ tree' \subseteq tree \cup EntriesOf(p)
            /\ IF SuffixOf[p] = NoSuffix THEN UNCHANGED <<has_suffix, suffix>> ELSE Marked(p)
      <3>1. PICK p \in PatternsOf(cmd) :
            /\ p \in Patterns
            /\ \/ Refused
               \/ Placed(p)
               \/ AddSuffixOnly
            /\ IF SuffixOf[p] = NoSuffix THEN UNCHANGED <<has_suffix, suffix>> ELSE Marked(p)
        BY <1>3, Adds DEF PoolInv
      <3>2. tree' \subseteq tree \cup EntriesOf(p)
        BY <3>1 DEF Refused, Placed, Counted, AddSuffixOnly
      <3> QED BY <3>1, <3>2
    <2>2. ASSUME NEW e \in tree', SuffixOf[e[2]] # NoSuffix
          PROVE has_suffix' /\ suffix' = SuffixOf[e[2]]
      <3>1. e \in tree \/ e[2] = p
        BY <2>1, <2>2 DEF EntriesOf
      <3>2. e[2] \in PatternsOf(cmd)
        BY <1>1, <3>1 DEF Treed
      <3>3. CASE SuffixOf[p] = NoSuffix
        BY <2>1, <2>2, <3>1, <3>3 DEF MarkInv
      <3>4. CASE SuffixOf[p] # NoSuffix
        <4>1. has_suffix' /\ suffix' = SuffixOf[p]
          BY <2>1, <3>4 DEF Marked
        <4>2. p # e[2] => SuffixOf[e[2]] = SuffixOf[p] \/ SuffixOf[e[2]] = NoSuffix
          BY <1>1, <3>2, <3>4 DEF OneSuffix
        <4> QED BY <2>2, <4>1, <4>2
      <3> QED BY <3>3, <3>4
    <2> QED BY <2>2 DEF MarkInv
  <1>4. CASE EndFile
    BY <1>2, <1>4 DEF EndFile
  <1>5. CASE UNCHANGED poolvars
    BY <1>2, <1>5 DEF poolvars
  <1>6. ASSUME NEW t \in Threads, Report(t) PROVE MarkInv'
    <2>1. pc[t] = "matched"
      BY <1>6 DEF Report
    <2>2. CASE UNCHANGED <<tree, has_suffix>>
      BY <1>2, <1>6, <2>2 DEF Report
    <2>3. CASE ~cmd.only_one /\ cmd.remove_on_match /\ RemoveMatch(t, match[t])
      <3>1. \/ match[t] \in Treed /\ match[t] \in Patterns
            \/ match[t] \in SuffixValues /\ SuffixOnly
        BY <2>1, ReportedLives
      <3>2. CASE match[t] \in SuffixValues
        <4>1. SuffixOnly /\ UNCHANGED tree
          BY <2>3, <3>1, <3>2, PoolAssumption DEF RemoveMatch
        <4> QED BY <4>1 DEF MarkInv, SuffixOnly
      <3>3. CASE match[t] \notin SuffixValues
        <4>1. match[t] \in PatternsOf(cmd) /\ tree' = {e \in tree : e[2] # match[t]}
          BY <1>1, <2>3, <3>1, <3>3 DEF RemoveMatch, Without
        <4>2. ASSUME NEW e \in tree' PROVE SuffixOf[e[2]] = NoSuffix
          <5>1. e \in tree /\ e[2] # match[t]
            BY <4>1, <4>2
          <5>2. e[2] \in PatternsOf(cmd)
            BY <1>1, <5>1 DEF Treed
          <5> QED BY <1>1, <2>3, <4>1, <5>1, <5>2 DEF OneSuffix
        <4> QED BY <4>2 DEF MarkInv
      <3> QED BY <3>2, <3>3
    <2> QED BY <1>6, <2>2, <2>3 DEF Report
  <1>7. ASSUME NEW t \in Threads, Walk(t) \/ Test(t) \/ Upgraded(t) PROVE UNCHANGED poolvars
    BY <1>7 DEF Walk, Test, Upgraded
  <1>8. UNCHANGED vars => UNCHANGED poolvars
    BY DEF vars
  <1> QED BY <1>3, <1>4, <1>5, <1>6, <1>7, <1>8, Kinds

\* A match about to be reported is one (ReportsMatch), whatever other threads have found
\* since the address was computed, when the search is for one suffix (OneSuffix) and -i
\* is not given for an Ethereum file after one without it (OneCase).
THEOREM ReportedMatch == ASSUME OneSuffix, OneCase PROVE Spec => []ReportsMatch
  <1>1. Init => MarkInv
    BY DEF Init, MarkInv
  <1>2. PoolInv /\ MarkInv => ReportsMatch
    <2> SUFFICES ASSUME PoolInv, MarkInv, NEW t \in Threads, pc[t] = "matched"
                 PROVE IF match[t] \in Patterns THEN Matches(match[t], address[t])
                       ELSE address[t].suffix = match[t]
      BY DEF ReportsMatch
    <2>1. match[t] \in Hits(address[t]) /\ cmd \in CommandLines
      BY DEF PoolInv, HitInv, TypeOK
    <2>2. \/ match[t] \in Treed /\ match[t] \in Patterns
          \/ match[t] \in SuffixValues /\ match[t] = suffix /\ SuffixOnly
      BY ReportedLives
    <2>3. CASE match[t] \notin Patterns
      <3>1. SuffixOnly
        BY <2>2, <2>3
      <3>2. match[t] = suffix /\ SuffixFits(address[t])
        BY <2>1, <3>1 DEF Hits, SuffixHits
      <3> QED BY <2>3, <3>2 DEF SuffixFits
    <2>4. CASE match[t] \in Patterns
      <3> DEFINE p == match[t]
                 a == address[t]
      <3>1. ~SuffixOnly /\ p \in Treed
        BY <2>2, <2>4, PoolAssumption DEF SuffixOnly, Treed
      <3>2. <<a.range, p>> \in tree /\ (has_suffix => SuffixFits(a)) /\ CaseFits(p, a)
        BY <2>1, <3>1 DEF Hits, TreeHits
      <3>3. a.range \in Needs[p] /\ p \in PatternsOf(cmd)
        BY <3>1, <3>2 DEF PoolInv, TreeInv
      <3>4. SuffixOf[p] # NoSuffix => has_suffix /\ suffix = SuffixOf[p]
        BY <3>2 DEF MarkInv
      <3>5. SuffixOf[p] # NoSuffix => a.suffix = SuffixOf[p]
        BY <3>2, <3>4 DEF SuffixFits
      <3>6. ASSUME cmd.kind = "ETH", Spelled(p) PROVE a.exact
        <4>1. ~Insensitive
          BY <2>1, <3>6 DEF OneCase, Spelled, Insensitive
        <4>2. CaseMatters
          BY <3>6, <4>1 DEF CaseMatters
        <4>3. CASE ~has_suffix
          BY <3>2, <4>2, <4>3 DEF CaseFits
        <4>4. CASE has_suffix
          <5>1. PICK q \in PatternsOf(cmd) : SuffixOf[q] # NoSuffix
            BY <4>4 DEF PoolInv, SuffixInv
          <5>2. SuffixOf[p] # NoSuffix
            BY <2>1, <3>3, <3>6, <5>1 DEF OneSuffix
          <5> QED BY <3>2, <4>2, <4>4, <5>2 DEF CaseFits
        <4> QED BY <4>3, <4>4
      <3> QED BY <2>4, <3>3, <3>5, <3>6 DEF Matches
    <2> QED BY <2>3, <2>4
  <1> QED BY <1>1, <1>2, Invariance, MarkKept, PTL DEF Spec

-------------------------------------------------------------------------------
(* The promise of a search *)

\* Ethereum: a pattern with a suffix is the only one, unless nothing is removed.
LoneSuffix == \A c \in CommandLines : c.kind = "ETH" /\ c.remove_on_match /\ ~c.only_one =>
  \A p, q \in PatternsOf(c) : SuffixOf[p] # NoSuffix => p = q

\* A match that waits is found again when its pattern is still searched for.
SeenInv == \A t \in Threads : pc[t] = "waiting" /\ match[t] \in Live => match[t] \in Again(t)

\* An address has one match at most, and it is of what is searched for.
LEMMA OneHit ==
  ASSUME PoolInv, NEW a, NEW m \in Hits(a)
  PROVE m \in Live /\ \A n \in Hits(a) : n = m
  <1>1. CASE SuffixOnly
    BY <1>1 DEF Hits, SuffixHits, Live
  <1>2. CASE ~SuffixOnly
    <2>1. ASSUME NEW n \in Hits(a) PROVE n \in Patterns /\ <<a.range, n>> \in tree
      BY <1>2, <2>1 DEF Hits, TreeHits
    <2>2. \A e, f \in tree : e[1] = f[1] => e = f
      BY DEF PoolInv, TreeInv, TreeWhole
    <2>3. ASSUME NEW n \in Hits(a) PROVE n = m
      <3>1. <<a.range, n>> = <<a.range, m>>
        BY <2>1, <2>2, <2>3
      <3> QED BY <3>1
    <2>4. m \in Live
      <3>1. <<a.range, m>>[2] = m
        OBVIOUS
      <3> QED BY <2>1, <3>1 DEF Live
    <2> QED BY <2>3, <2>4
  <1> QED BY <1>1, <1>2

\* A hit is found again by the look its kind of match takes.
LEMMA HitAgain ==
  ASSUME PoolInv, NEW t \in Threads, match[t] \in Hits(address[t])
  PROVE match[t] \in Again(t)
  <1>1. CASE SuffixOnly
    <2>1. match[t] \in SuffixValues
      BY <1>1 DEF Hits, SuffixHits, PoolInv, SuffixInv, TypeOK, SuffixOnly
    <2> QED BY <2>1 DEF Again
  <1>2. CASE ~SuffixOnly
    BY <1>2 DEF Hits, Again
  <1> QED BY <1>1, <1>2

\* What is searched for after a removal
LEMMA Removal ==
  ASSUME PoolInv, NEW t \in Threads, pc[t] = "matched", RemoveMatch(t, match[t])
  PROVE /\ Live' = Live \ {match[t]} /\ has_suffix' = FALSE
        /\ IF match[t] \in SuffixValues THEN Live' = {}
           ELSE Live' = Treed' /\ tree' = {e \in tree : e[2] # match[t]}
  <1>1. /\ has_suffix' = FALSE
        /\ IF match[t] \in SuffixValues THEN UNCHANGED tree
           ELSE tree' = {e \in tree : e[2] # match[t]}
    BY DEF RemoveMatch, Without
  <1>2. Live' = Treed'
    BY <1>1 DEF Live, Treed, SuffixOnly
  <1>3. \/ match[t] \in Treed /\ match[t] \in Patterns
        \/ match[t] \in SuffixValues /\ match[t] = suffix /\ SuffixOnly
    BY ReportedLives
  <1>4. CASE match[t] \in SuffixValues
    <2>1. SuffixOnly /\ match[t] = suffix
      BY <1>3, <1>4, PoolAssumption
    <2>2. Live = {suffix} /\ Live' = {}
      BY <1>1, <1>2, <1>4, <2>1 DEF Live, Treed, SuffixOnly
    <2> QED BY <1>1, <1>4, <2>1, <2>2
  <1>5. CASE match[t] \notin SuffixValues
    <2>1. Live = Treed
      BY <1>3, <1>5 DEF Live, Treed, SuffixOnly
    <2>2. Treed' = Treed \ {match[t]}
      BY <1>1, <1>5 DEF Treed
    <2> QED BY <1>1, <1>2, <1>5, <2>1, <2>2
  <1> QED BY <1>4, <1>5

LEMMA SeenKept == LoneSuffix /\ PoolInv /\ SeenInv /\ [Next]_vars => SeenInv'
  <1> SUFFICES ASSUME LoneSuffix, PoolInv, SeenInv, [Next]_vars,
                      NEW u \in Threads, pc'[u] = "waiting", match'[u] \in Live'
               PROVE (match[u] \in Again(u))'
    BY DEF SeenInv
  <1>1. /\ pc \in [Threads -> Moves] /\ match \in [Threads -> Patterns \cup SuffixValues \cup {NoSuffix}]
        /\ address \in [Threads -> Addresses]
    BY DEF PoolInv, TypeOK, LockInv, LoopTypeOK, Moves
  <1>2. ASSUME UNCHANGED <<cmd, tree, has_suffix, suffix>>, match'[u] = match[u],
               address'[u] = address[u], match[u] \in Live => match[u] \in Again(u)
        PROVE (match[u] \in Again(u))'
    <2>1. UNCHANGED <<Live, SuffixOnly, CaseMatters>>
      BY <1>2 DEF Live, SuffixOnly, CaseMatters, Insensitive
    <2>2. TreeHits(address[u])' = TreeHits(address[u]) /\ Hits(address[u])' = Hits(address[u])
      BY <1>2, <2>1 DEF Hits, TreeHits, SuffixHits, SuffixFits, CaseFits
    <2> QED BY <1>2, <2>1, <2>2 DEF Again
  <1>3. pc[u] = "waiting" /\ match[u] \in Live => match[u] \in Again(u)
    BY DEF SeenInv
  <1>4. CASE UNCHANGED vars
    BY <1>2, <1>3, <1>4 DEF vars, loopvars, poolvars, testvars, Live, SuffixOnly
  <1>5. CASE AddPattern \/ EndFile
    <2>1. ~Loaded /\ UNCHANGED pc
      <3>1. cmd \in CommandLines /\ file \in 1..Len(cmd.files) + 1 /\ file <= Len(cmd.files)
        BY <1>5 DEF PoolInv, TypeOK, AddPattern, EndFile
      <3>2. Len(cmd.files) \in Nat
        BY <3>1, PoolAssumption
      <3> QED BY <1>5, <3>1, <3>2 DEF Loaded, AddPattern, EndFile, loopvars
    <2> QED BY <2>1 DEF PoolInv, LoadInv
  <1>6. ASSUME NEW t \in Threads, Walk(t) PROVE (match[u] \in Again(u))'
    <2>1. UNCHANGED <<cmd, tree, has_suffix, suffix, address, match>>
      BY <1>6 DEF Walk, poolvars, testvars
    <2>2. pc[u] \in {"waiting", "hit"}
      <3>1. pc'[u] = pc[u] \/ (u = t /\ pc[t] = "hit")
        BY <1>1, <1>6 DEF Walk, LoopStep, Enter, Join, Resume, StartRekey, RekeyRequest, Rekey, Upgrade,
                          Downgrade, Yield, Leave, Go
      <3> QED BY <3>1
    <2>3. pc[u] = "hit" => match[u] \in Again(u)
      BY HitAgain DEF PoolInv, HitInv
    <2> QED BY <1>2, <1>3, <2>1, <2>2, <2>3
  <1>7. ASSUME NEW t \in Threads, Test(t) \/ Upgraded(t) PROVE (match[u] \in Again(u))'
    <2>1. /\ UNCHANGED poolvars
          /\ \E to \in Moves \ {"waiting"} : pc' = [pc EXCEPT ![t] = to]
          /\ \E a \in Addresses : address' = [address EXCEPT ![t] = a]
          /\ match' = match \/ \E m : match' = [match EXCEPT ![t] = m]
      <3>1. CASE Test(t)
        BY <3>1 DEF Test, Miss, Go, Moves, Tested
      <3>2. CASE Upgraded(t)
        <4>1. address' = [address EXCEPT ![t] = address[t]] /\ address[t] \in Addresses
          BY <1>1, <3>2 DEF Upgraded
        <4>2. \/ Miss(t)
              \/ \E m \in Again(t) : match' = [match EXCEPT ![t] = m] /\ Go(t, "matched")
          BY <3>2 DEF Upgraded
        <4> QED BY <3>2, <4>1, <4>2 DEF Upgraded, Miss, Go, Moves
      <3> QED BY <1>7, <3>1, <3>2
    <2>2. u # t /\ pc[u] = "waiting" /\ address'[u] = address[u] /\ match'[u] = match[u]
      BY <1>1, <2>1
    <2> QED BY <1>2, <1>3, <2>1, <2>2 DEF poolvars
  <1>8. ASSUME NEW t \in Threads, Report(t) PROVE (match[u] \in Again(u))'
    <2>1. /\ pc[t] = "matched" /\ UNCHANGED <<cmd, suffix, address, match>>
          /\ \E to \in {"out", "rekeying"} : pc' = [pc EXCEPT ![t] = to]
      BY <1>8 DEF Report, testvars, RemoveMatch, Go
    <2>2. u # t /\ pc[u] = "waiting"
      BY <1>1, <2>1
    <2>3. CASE UNCHANGED <<tree, has_suffix>>
      BY <1>2, <1>3, <2>1, <2>2, <2>3
    <2>4. CASE ~cmd.only_one /\ cmd.remove_on_match /\ RemoveMatch(t, match[t])
      <3> DEFINE p == match[u]
                 a == address[u]
      <3>1. /\ Live' = Live \ {match[t]} /\ has_suffix' = FALSE
            /\ IF match[t] \in SuffixValues THEN Live' = {}
               ELSE Live' = Treed' /\ tree' = {e \in tree : e[2] # match[t]}
        BY <2>1, <2>4, Removal
      <3>2. /\ p \in Live /\ p # match[t] /\ p \in Treed' /\ match[t] \notin SuffixValues
            /\ tree' = {e \in tree : e[2] # match[t]}
        BY <2>1, <3>1
      <3>3. p \in Treed /\ p \in Patterns /\ p \notin SuffixValues
        BY <3>2, PoolAssumption DEF Treed, PoolInv, TypeOK
      <3>4. /\ <<a.range, p>> \in tree /\ CaseFits(p, a)
        BY <1>3, <2>2, <3>2, <3>3 DEF Again, TreeHits
      <3>5. match[t] \in Treed
        BY <2>1, <3>2, ReportedLives
      <3>6. p \in PatternsOf(cmd) /\ match[t] \in PatternsOf(cmd) /\ cmd \in CommandLines
        BY <3>3, <3>5 DEF PoolInv, TreeInv, TypeOK
      <3>7. ASSUME CaseMatters PROVE SuffixOf[p] = NoSuffix /\ ~has_suffix
        <4>1. \A q \in PatternsOf(cmd) : SuffixOf[q] = NoSuffix
          BY <2>4, <3>2, <3>6, <3>7 DEF LoneSuffix, CaseMatters
        <4> QED BY <3>6, <4>1 DEF PoolInv, SuffixInv
      <3>8. CaseMatters' <=> CaseMatters
        BY <2>1 DEF CaseMatters, Insensitive
      <3>9. CaseFits(p, a)'
        <4>1. CaseFits(match[u], address[u])' <=>
                (CaseMatters' => IF has_suffix'
                                 THEN SuffixOf[p] # NoSuffix => a.exact /\ a.suffix = SuffixOf[p]
                                 ELSE SuffixOf[p] = NoSuffix /\ a.exact)
          BY <2>1 DEF CaseFits
        <4> QED BY <3>1, <3>4, <3>7, <3>8, <4>1 DEF CaseFits
      <3>10. <<a.range, p>> \in tree'
        BY <3>2, <3>4
      <3>11. (match[u] \in TreeHits(address[u]))'
        BY <2>1, <3>1, <3>3, <3>9, <3>10 DEF TreeHits
      <3> QED BY <2>1, <3>3, <3>11 DEF Again
    <2> QED BY <1>8, <2>3, <2>4 DEF Report
  <1> QED BY <1>4, <1>5, <1>6, <1>7, <1>8, Kinds

\* What a step of a thread does to the matches seen and the threads that stopped
LEMMA StepMaps ==
  ASSUME PoolInv, UNCHANGED cmd, NEW t \in Threads,
         NEW to \in Moves, pc' = [pc EXCEPT ![t] = to],
         \A u \in Threads \ {t} : match'[u] = match[u]
  PROVE /\ Sees' = [Sees EXCEPT ![t] = IF to \in {"hit", "waiting", "matched"} THEN {match'[t]} ELSE {}]
        /\ to \notin {"out", "gone"} /\ pc[t] \notin {"out", "gone"} => UNCHANGED Stopped
        /\ to \in {"out", "gone"} /\ t \in cmd.threads => Stopped' = Stopped \cup {t}
  <1>1. pc \in [Threads -> Moves] /\ cmd.threads \subseteq Threads
    BY PoolAssumption DEF PoolInv, TypeOK, LockInv, LoopTypeOK, Moves
  <1>2. Sees' = [Sees EXCEPT ![t] = IF to \in {"hit", "waiting", "matched"} THEN {match'[t]} ELSE {}]
    <2> DEFINE s(u) == IF pc[u] \in {"hit", "waiting", "matched"} THEN {match[u]} ELSE {}
               new == IF to \in {"hit", "waiting", "matched"} THEN {match'[t]} ELSE {}
    <2>1. s(t)' = new /\ \A u \in Threads \ {t} : s(u)' = s(u)
      BY <1>1
    <2>2. Sees = [u \in Threads |-> s(u)] /\ Sees' = [u \in Threads |-> s(u)']
      BY DEF Sees
    <2> HIDE DEF s, new
    <2>3. Sees' = [Sees EXCEPT ![t] = new]
      BY <2>1, <2>2
    <2> QED BY <2>3 DEF new
  <1>3. Stopped' = {u \in cmd.threads : (IF u = t THEN to ELSE pc[u]) \in {"out", "gone"}}
    BY <1>1 DEF Stopped
  <1> QED BY <1>1, <1>2, <1>3 DEF Stopped

\* A thread that sees nothing open may look, and the abstract thread with it.
LEMMA LookMaps ==
  ASSUME PoolInv, AmountInv, UNCHANGED poolvars, UNCHANGED exited, NEW t \in Threads,
         pc[t] \in {"loop", "waiting"}, Sees[t] \cap Live = {},
         \A u \in Threads \ {t} : match'[u] = match[u],
         \/ Miss(t)
         \/ \E a : match'[t] \in Hits(a) /\ (Go(t, "hit") \/ Go(t, "matched"))
  PROVE Abstract!Look(t)
  <1>1. UNCHANGED <<Loaded, Live, cmd, found, reports>>
    BY PoolSame DEF Live, SuffixOnly
  <1>2. Loaded /\ t \in cmd.threads /\ t \notin Stopped
    <2>1. t \in cmd.threads
      BY DEF AmountInv
    <2> QED BY <2>1, RunsLoaded DEF Stopped
  <1>3. Abstract!Looks(t, Live)
    <2>1. CASE Miss(t)
      <3>1. PICK to \in {"out", "loop"} : /\ pc' = [pc EXCEPT ![t] = to]
                                          /\ to = "out" => tree = {} /\ ~has_suffix
        BY <2>1 DEF Miss, Go
      <3>2. Sees' = [Sees EXCEPT ![t] = {}]
        BY <1>1, <3>1, StepMaps DEF Moves
      <3>3. CASE to = "out"
        <4>1. Live = {}
          BY <3>1, <3>3 DEF Live, SuffixOnly
        <4>2. Stopped' = Stopped \cup {t}
          BY <1>1, <1>2, <3>1, <3>3, StepMaps DEF Moves
        <4> QED BY <3>2, <4>1, <4>2 DEF Abstract!Looks
      <3>4. CASE to = "loop"
        <4>1. UNCHANGED Stopped
          BY <1>1, <3>1, <3>4, StepMaps DEF Moves
        <4> QED BY <3>2, <4>1 DEF Abstract!Looks
      <3> QED BY <3>3, <3>4
    <2>2. CASE \E a : match'[t] \in Hits(a) /\ (Go(t, "hit") \/ Go(t, "matched"))
      <3>1. match'[t] \in Live
        BY <2>2, OneHit
      <3>2. PICK to \in {"hit", "matched"} : pc' = [pc EXCEPT ![t] = to]
        BY <2>2 DEF Go
      <3>3. Sees' = [Sees EXCEPT ![t] = {match'[t]}] /\ UNCHANGED Stopped
        BY <1>1, <3>2, StepMaps DEF Moves
      <3> QED BY <3>1, <3>3 DEF Abstract!Looks
    <2> QED BY <2>1, <2>2
  <1> QED BY <1>1, <1>2, <1>3 DEF Abstract!Look

\* What the abstract search has of a state does not change.
Same == UNCHANGED <<cmd, Loaded, Live, Sees, Stopped, found, reports, exited>>

LEMMA SameMaps == ASSUME Same PROVE UNCHANGED Abstract!vars
  BY DEF Same, Abstract!vars

LEMMA LoadMaps ==
  ASSUME PoolInv, PoolInv', AddPattern \/ EndFile
  PROVE Abstract!Load
  <1>1. /\ cmd \in CommandLines /\ file \in 1..Len(cmd.files) + 1 /\ file <= Len(cmd.files)
        /\ UNCHANGED <<cmd, pc, match, found, reports>>
    BY DEF PoolInv, TypeOK, AddPattern, EndFile, loopvars, testvars
  <1>2. ~Loaded
    BY <1>1, PoolAssumption DEF Loaded
  <1>3. UNCHANGED <<Sees, Stopped>>
    BY <1>1 DEF Sees, Stopped
  <1>4. exited' \in BOOLEAN /\ tree' \subseteq Ranges \X Patterns
    BY DEF PoolInv, TypeOK, LoopTypeOK
  <1>5. Live' \subseteq Patterns \cup SuffixValues
    <2>1. SuffixOnly' => suffix' \in SuffixValues
      BY DEF PoolInv, SuffixInv, TypeOK, SuffixOnly
    <2> QED BY <1>4, <2>1 DEF Live
  <1> QED BY <1>1, <1>2, <1>3, <1>4, <1>5 DEF Abstract!Load

LEMMA WalkMaps ==
  ASSUME PoolInv, AmountInv, ~exited, NEW t \in Threads, Walk(t)
  PROVE Same \/ Abstract!End
  <1>1. UNCHANGED <<cmd, Loaded, Live, found, reports, match>>
    BY PoolSame DEF Walk, testvars, Live, SuffixOnly
  <1>2. pc \in [Threads -> Moves] /\ cmd \in CommandLines
    BY DEF PoolInv, TypeOK, LockInv, LoopTypeOK, Moves
  <1>3. PICK to \in Moves : LoopMove(t, to)
    BY WalkMoves DEF PoolInv
  <1>4. UNCHANGED Sees
    <2>1. \A u \in Threads : pc'[u] \in {"hit", "waiting", "matched"} <=> pc[u] \in {"hit", "waiting", "matched"}
      <3>1. to \in {"hit", "waiting", "matched"} <=> pc[t] \in {"hit", "waiting", "matched"}
        BY <1>3 DEF LoopMove
      <3> QED BY <1>2, <1>3, <3>1 DEF LoopMove
    <2> QED BY <1>1, <2>1 DEF Sees
  <1>5. UNCHANGED Stopped
    <2>1. \A u \in Threads : pc'[u] \in {"out", "gone"} <=> pc[u] \in {"out", "gone"}
      BY <1>2, <1>3 DEF LoopMove
    <2>2. cmd.threads \subseteq Threads
      BY <1>2, PoolAssumption
    <2> QED BY <1>1, <2>1, <2>2 DEF Stopped
  <1>6. CASE UNCHANGED exited
    BY <1>1, <1>4, <1>5, <1>6 DEF Same
  <1>7. CASE t = MainThread /\ pc[t] = "out" /\ exited' = TRUE
    <2>1. MainThread \in Stopped
      BY <1>2, <1>7, PoolAssumption DEF Stopped
    <2> QED BY <1>1, <1>4, <1>5, <1>7, <2>1 DEF Abstract!End
  <1> QED BY <1>3, <1>6, <1>7 DEF LoopMove

LEMMA UpgradedMaps ==
  ASSUME PoolInv, AmountInv, SeenInv, NEW t \in Threads, Upgraded(t)
  PROVE Same \/ Abstract!Look(t)
  <1>1. /\ pc[t] = "waiting" /\ UNCHANGED poolvars /\ UNCHANGED <<exited, address>>
        /\ \/ Again(t) = {} /\ Miss(t)
           \/ \E m \in Again(t) : match' = [match EXCEPT ![t] = m] /\ Go(t, "matched")
    BY DEF Upgraded
  <1>2. TypeOK /\ match \in [Threads -> Patterns \cup SuffixValues \cup {NoSuffix}]
    BY DEF PoolInv, TypeOK
  <1>3. Sees[t] = {match[t]}
    BY <1>1 DEF Sees
  <1>4. match[t] \in Live => match[t] \in Again(t)
    BY <1>1 DEF SeenInv
  <1>5. Again(t) \subseteq Hits(address[t])
    BY <1>2, HitTypes DEF Again
  <1>6. CASE Again(t) = {} /\ Miss(t)
    BY <1>1, <1>3, <1>4, <1>6, LookMaps DEF Miss
  <1>7. ASSUME NEW m \in Again(t), match' = [match EXCEPT ![t] = m], Go(t, "matched")
        PROVE Same \/ Abstract!Look(t)
    <2>1. match'[t] = m /\ \A u \in Threads \ {t} : match'[u] = match[u]
      BY <1>2, <1>7
    <2>2. CASE match[t] \in Live
      <3>1. m = match[t]
        BY <1>4, <1>5, <1>7, <2>2, OneHit
      <3>2. UNCHANGED <<Loaded, Live, cmd, found, reports>>
        BY <1>1, PoolSame DEF Live, SuffixOnly
      <3>3. pc' = [pc EXCEPT ![t] = "matched"] /\ "matched" \in Moves
        BY <1>7 DEF Go, Moves
      <3>4. UNCHANGED Sees /\ UNCHANGED Stopped
        <4>1. Sees' = [Sees EXCEPT ![t] = {match'[t]}] /\ UNCHANGED Stopped
          BY <1>1, <2>1, <3>2, <3>3, StepMaps
        <4>2. Sees = [Sees EXCEPT ![t] = Sees[t]]
          BY DEF Sees
        <4> QED BY <1>3, <2>1, <3>1, <4>1, <4>2
      <3> QED BY <1>1, <3>2, <3>4 DEF Same
    <2>3. CASE match[t] \notin Live
      <3>1. Sees[t] \cap Live = {}
        BY <1>3, <2>3
      <3> QED BY <1>1, <1>5, <1>7, <2>1, <3>1, LookMaps
    <2> QED BY <2>2, <2>3
  <1> QED BY <1>1, <1>6, <1>7

LEMMA ReportMaps ==
  ASSUME PoolInv, AmountInv, NEW t \in Threads, Report(t)
  PROVE Abstract!Report(t)
  <1> DEFINE m == match[t]
             kept == ~cmd.remove_on_match \/ cmd.only_one
  <1>1. /\ pc[t] = "matched" /\ found' = found + 1 /\ exited' = Enough(found')
        /\ reports' = [reports EXCEPT ![m] = @ + 1]
        /\ UNCHANGED <<cmd, file, suffix, match>>
    BY DEF Report, testvars
  <1>2. /\ Loaded /\ cmd \in CommandLines
        /\ \/ m \in Treed /\ m \in Patterns
           \/ m \in SuffixValues /\ m = suffix /\ SuffixOnly
    BY <1>1, ReportedLives DEF PoolInv, TypeOK
  <1>3. m \in Live /\ Sees[t] = {m} /\ t \in cmd.threads /\ t \notin Stopped
    BY <1>1, <1>2 DEF Live, Treed, Sees, AmountInv, Stopped
  <1>4. PICK to \in {"out", "rekeying"} : pc' = [pc EXCEPT ![t] = to]
    BY DEF Report, RemoveMatch, Go
  <1>5. pc \in [Threads -> Moves] /\ to \in Moves
    BY DEF PoolInv, LockInv, LoopTypeOK, Moves
  <1>6. /\ Sees' = [Sees EXCEPT ![t] = {}]
        /\ to = "rekeying" => UNCHANGED Stopped
        /\ to = "out" => Stopped' = Stopped \cup {t}
    BY <1>1, <1>3, <1>4, <1>5, StepMaps
  <1>7. pc'[t] = to
    BY <1>4, <1>5
  <1>8. cmd.numpairs \in Nat
    BY <1>2, PoolAssumption
  <1>9. exited' = (cmd.numpairs > 0 /\ found' >= cmd.numpairs)
    <2>1. cmd.numpairs >= 1 <=> cmd.numpairs > 0
      BY <1>8
    <2> QED BY <1>1, <2>1, Zenon DEF Enough
  <1>10. exited' => kept
    BY <1>2, <1>9, PoolAssumption
  <1>11. (exited' \/ cmd.only_one) => to = "out"
    BY <1>1, <1>7, <1>5 DEF Report, Go
  <1>12. Live' = IF kept THEN Live ELSE Live \ {m}
    <2>1. CASE kept
      <3>1. UNCHANGED <<tree, has_suffix>>
        BY <2>1 DEF Report
      <3> QED BY <1>1, <2>1, <3>1 DEF Live, SuffixOnly
    <2>2. CASE ~kept
      <3>1. RemoveMatch(t, m)
        BY <1>1, <1>10, <2>2 DEF Report
      <3> QED BY <1>1, <2>2, <3>1, Removal
    <2> QED BY <2>1, <2>2
  <1>13. ASSUME ~exited', ~cmd.only_one, to = "out" PROVE Live' = {}
    <2>1. RemoveMatch(t, m)
      BY <1>1, <1>5, <1>7, <1>13 DEF Report, Go
    <2>2. m \notin SuffixValues => tree' = {}
      BY <1>5, <1>7, <1>13, <2>1 DEF RemoveMatch, Go
    <2>3. /\ m \in SuffixValues => Live' = {}
          /\ m \notin SuffixValues => Live' = Treed'
      BY <1>1, <2>1, Removal
    <2> QED BY <2>2, <2>3 DEF Treed
  <1>14. IF exited' \/ cmd.only_one
         THEN Sees' = [Sees EXCEPT ![t] = {}] /\ Stopped' = Stopped \cup {t}
         ELSE Abstract!Looks(t, Live')
    <2>1. CASE exited' \/ cmd.only_one
      BY <1>6, <1>11, <2>1
    <2>2. CASE ~(exited' \/ cmd.only_one)
      <3>1. to = "rekeying" => Abstract!Looks(t, Live')
        BY <1>6 DEF Abstract!Looks
      <3>2. to = "out" => Abstract!Looks(t, Live')
        BY <1>6, <1>13, <2>2 DEF Abstract!Looks
      <3> QED BY <2>2, <3>1, <3>2
    <2> QED BY <2>1, <2>2
  <1>15. UNCHANGED Loaded
    BY <1>1 DEF Loaded
  <1> QED BY <1>1, <1>2, <1>3, <1>9, <1>12, <1>14, <1>15 DEF Abstract!Report

\* Any search for prefixes keeps the promise of a search (PatternSearch), for one suffix
\* of Ethereum at a time: a match is never dropped while its pattern is searched for,
\* and the process does not end before it should.
THEOREM Refinement == ASSUME LoneSuffix PROVE Spec => Abstract!SafeSpec
  <1>1. Init => Abstract!Init /\ SeenInv
    <2> SUFFICES ASSUME Init PROVE Abstract!Init /\ SeenInv
      OBVIOUS
    <2>1. /\ cmd \in CommandLines /\ tree = {} /\ has_suffix = FALSE /\ found = 0 /\ exited = FALSE
          /\ reports = [m \in Patterns \cup SuffixValues |-> 0]
          /\ pc = [t \in Threads |-> IF t \in cmd.threads THEN "new" ELSE "gone"]
      BY DEF Init, LoopInit
    <2>2. Live = {}
      BY <2>1 DEF Live, SuffixOnly
    <2>3. cmd.threads \subseteq Threads /\ cmd.numpairs \in Nat /\ {cmd.remove_on_match, cmd.only_one} \subseteq BOOLEAN
      BY <2>1, PoolAssumption
    <2>4. Sees = [t \in Threads |-> {}] /\ Stopped = {}
      BY <2>1, <2>3 DEF Sees, Stopped
    <2>5. SeenInv
      BY <2>1 DEF SeenInv
    <2> QED BY <2>1, <2>2, <2>3, <2>4, <2>5 DEF Abstract!Init
  <1>2. PoolInv /\ AmountInv /\ SeenInv /\ [Next]_vars /\ PoolInv' => [Abstract!Next]_(Abstract!vars)
    <2> SUFFICES ASSUME PoolInv, AmountInv, SeenInv, [Next]_vars, PoolInv'
                 PROVE Abstract!Next \/ UNCHANGED Abstract!vars
      OBVIOUS
    <2>1. CASE UNCHANGED vars
      <3>1. Same
        BY <2>1 DEF vars, loopvars, poolvars, testvars, Same, Loaded, Live, SuffixOnly, Sees, Stopped
      <3> QED BY <3>1, SameMaps
    <2>2. CASE ~exited /\ (AddPattern \/ EndFile)
      BY <2>2, LoadMaps DEF Abstract!Next
    <2>3. ASSUME NEW t \in Threads, ~exited, Walk(t)
          PROVE Abstract!Next \/ UNCHANGED Abstract!vars
      BY <2>3, WalkMaps, SameMaps DEF Abstract!Next
    <2>4. ASSUME NEW t \in Threads, ~exited, Test(t)
          PROVE Abstract!Next
      <3>1. PICK a \in Tested :
              \/ Hits(a) = {} /\ Miss(t)
              \/ \E m \in Hits(a) : match' = [match EXCEPT ![t] = m] /\ Go(t, "hit")
        BY <2>4 DEF Test
      <3>2. pc[t] = "loop" /\ UNCHANGED poolvars /\ UNCHANGED exited
        BY <2>4 DEF Test
      <3>3. match \in [Threads -> Patterns \cup SuffixValues \cup {NoSuffix}]
        BY DEF PoolInv, TypeOK
      <3>4. \A u \in Threads \ {t} : match'[u] = match[u]
        BY <3>1, <3>3 DEF Miss
      <3>5. Miss(t) \/ \E b : match'[t] \in Hits(b) /\ (Go(t, "hit") \/ Go(t, "matched"))
        BY <3>1, <3>3
      <3>6. Sees[t] \cap Live = {}
        BY <3>2 DEF Sees
      <3>7. Abstract!Look(t)
        BY <3>2, <3>4, <3>5, <3>6, LookMaps
      <3> QED BY <2>4, <3>7 DEF Abstract!Next
    <2>5. ASSUME NEW t \in Threads, ~exited, Upgraded(t)
          PROVE Abstract!Next \/ UNCHANGED Abstract!vars
      BY <2>5, UpgradedMaps, SameMaps DEF Abstract!Next
    <2>6. ASSUME NEW t \in Threads, ~exited, Report(t)
          PROVE Abstract!Next
      BY <2>6, ReportMaps DEF Abstract!Next
    <2> QED BY <2>1, <2>2, <2>3, <2>4, <2>5, <2>6, Kinds
  <1>3. Spec => []AmountInv
    BY CountedInit, Invariance, AmountKept, PTL DEF Spec
  <1> QED BY <1>1, <1>2, <1>3, Invariance, SeenKept, PTL DEF Spec, Abstract!SafeSpec

-------------------------------------------------------------------------------
(* Regular expressions: the same threads, an array of slots in place of the tree. *)
(* The loop's variables, the command line, the counters and the history are those *)
(* above, so that what is proved of the lock and of the counts serves both.       *)

CONSTANTS RegexLines, Wide
VARIABLES regex, freed, i, nres, re

Regex == INSTANCE RegexPool WITH CommandLines <- RegexLines

\* Only one thread removes patterns, or there is only one.
Alone == \A c \in RegexLines : c.remove_on_match /\ ~c.only_one =>
  c.threads = {MainThread} \/ Len(c.patterns) = 1

\* A thread that has a match knows the slots as they are, unless it waits and there is
\* none left.
Knows(t) == pc[t] \in {"hit", "waiting", "matched"} =>
  /\ i[t] \in 1..nres[t]
  /\ \/ nres[t] = npatterns /\ regex[i[t]] = re[t]
     \/ npatterns = 0 /\ pc[t] = "waiting"

ScanInv == \A t \in Threads : Knows(t)

\* What has been reported is searched for no longer.
GoneInv == cmd.remove_on_match /\ ~cmd.only_one =>
  \A p \in Regex!Patterns : reports[p] <= 1 /\ (reports[p] = 1 => p \notin Regex!Live)

RegexInv == Regex!SlotsWhole /\ LockInv /\ ScanInv /\ GoneInv /\ AmountInv

LEMMA Facts ==
  ASSUME Regex!PoolAssumed, NEW c \in RegexLines
  PROVE /\ c.patterns \in Seq(Regex!Patterns) /\ Len(c.patterns) \in Nat \ {0}
        /\ \A k, l \in 1..Len(c.patterns) : c.patterns[k] = c.patterns[l] => k = l
        /\ MainThread \in c.threads /\ c.threads \subseteq Threads /\ c.numpairs \in Nat
        /\ {c.remove_on_match, c.only_one} \subseteq BOOLEAN
        /\ c.numpairs > 0 => ~c.remove_on_match
        /\ IsFiniteSet(Threads) /\ Wide \subseteq Regex!Patterns
  <1>1. /\ c.patterns \in Seq(Regex!ToSet(c.patterns)) \ {<<>>} /\ Regex!IsInjective(c.patterns)
        /\ MainThread \in c.threads /\ c.threads \subseteq Threads /\ c.numpairs \in Nat
        /\ {c.remove_on_match, c.only_one} \subseteq BOOLEAN
        /\ c.numpairs > 0 => ~c.remove_on_match
        /\ IsFiniteSet(Threads) /\ Wide \subseteq Regex!Patterns
    BY DEF Regex!PoolAssumed, Regex!Callable, IsFiniteSet, Regex!IsFiniteSet
  <1>2. Regex!ToSet(c.patterns) \subseteq Regex!Patterns
    BY DEF Regex!Patterns
  <1>3. c.patterns \in Seq(Regex!Patterns)
    BY <1>1, <1>2
  <1>4. Len(c.patterns) \in Nat \ {0} /\ DOMAIN c.patterns = 1..Len(c.patterns)
    BY <1>1, <1>3
  <1> QED BY <1>1, <1>3, <1>4 DEF Regex!IsInjective

\* The loop of a thread is the same.
LEMMA SameLoop ==
  ASSUME NEW t \in Threads
  PROVE /\ Regex!LoopStep(t) <=> LoopStep(t)
        /\ Regex!Enter(t) <=> Enter(t)
        /\ Regex!StartRekey(t) <=> StartRekey(t)
        /\ Regex!LoopTypeOK <=> LoopTypeOK
  <1> USE DEF Go, Regex!Go, lockvars, Regex!lockvars
  <1>1. Regex!LoopTypeOK <=> LoopTypeOK
    BY DEF LoopTypeOK, Regex!LoopTypeOK
  <1>2. Regex!Enter(t) <=> Enter(t)
    BY DEF Enter, Join, Resume, Lock!GetShared,
           Regex!Enter, Regex!Join, Regex!Resume, Regex!Lock!GetShared
  <1>3. Regex!StartRekey(t) <=> StartRekey(t)
    BY DEF StartRekey, Regex!StartRekey
  <1>4. Regex!Upgrade(t) <=> Upgrade(t)
    BY DEF Upgrade, Lock!Request, Regex!Upgrade, Regex!Lock!Request
  <1>5. Regex!RekeyRequest(t) <=> RekeyRequest(t)
    BY DEF RekeyRequest, Lock!Request, Regex!RekeyRequest, Regex!Lock!Request
  <1>6. Regex!Rekey(t) <=> Rekey(t)
    BY DEF Rekey, Lock!Grant, Regex!Rekey, Regex!Lock!Grant
  <1>7. Regex!Downgrade(t) <=> Downgrade(t)
    BY DEF Downgrade, Lock!Finish, Regex!Downgrade, Regex!Lock!Finish
  <1>8. Regex!Yield(t) <=> Yield(t)
    BY DEF Yield, Lock!DropShared, Regex!Yield, Regex!Lock!DropShared
  <1>9. Regex!Leave(t) <=> Leave(t)
    BY DEF Leave, Lock!DropShared, Regex!Leave, Regex!Lock!DropShared
  <1> QED BY <1>1, <1>2, <1>3, <1>4, <1>5, <1>6, <1>7, <1>8, <1>9 DEF LoopStep, Regex!LoopStep

RegexWalk(t) == /\ LoopStep(t) \/ Enter(t) \/ StartRekey(t)
                /\ UNCHANGED <<Regex!poolvars, Regex!testvars>>

LEMMA RegexKinds ==
  ASSUME [Regex!Next]_(Regex!vars)
  PROVE \/ \E t \in Threads : ~exited /\ (RegexWalk(t) \/ Regex!Test(t) \/ Regex!Upgraded(t) \/ Regex!Report(t))
        \/ UNCHANGED Regex!vars
  BY SameLoop DEF Regex!Next, Regex!Come, Regex!Step, Regex!TestStep, RegexWalk

\* What the scan of n slots from the k-th on comes to: it goes to "hit" at slot j.
Scanned(t, k, n, a, pats, to) ==
  /\ pc' = [pc EXCEPT ![t] = to]
  /\ nres' = [nres EXCEPT ![t] = n]
  /\ to # "hit" => UNCHANGED <<i, re>>
  /\ to = "hit" => \E j \in k..n : /\ pats[j] \in a
                                   /\ i' = [i EXCEPT ![t] = j]
                                   /\ re' = [re EXCEPT ![t] = pats[j]]
  /\ to = "out" => \E j \in k..n : pats[j] \in Wide

LEMMA ScanEnds ==
  ASSUME NEW t, NEW k, NEW n, NEW a, NEW pats, NEW r, Regex!ScanOn(t, k, n, a, pats, r)
  PROVE \E to \in {"loop", "rekeying", "out", "hit"} : Scanned(t, k, n, a, pats, to)
  <1> DEFINE hits == {j \in k..n : pats[j] \in a}
  <1>1. CASE hits = {}
    <2>1. /\ nres' = [nres EXCEPT ![t] = n] /\ UNCHANGED <<i, re>>
          /\ \E to \in {"loop", "rekeying"} : pc' = [pc EXCEPT ![t] = to]
      BY <1>1 DEF Regex!ScanOn, Regex!Go
    <2> QED BY <2>1 DEF Scanned
  <1>2. ASSUME NEW j \in hits,
               IF pats[j] \in Wide
               THEN Regex!Go(t, "out") /\ UNCHANGED <<i, re>>
               ELSE /\ i' = [i EXCEPT ![t] = j]
                    /\ re' = [re EXCEPT ![t] = pats[j]]
                    /\ Regex!Go(t, "hit"),
               nres' = [nres EXCEPT ![t] = n]
        PROVE \E to \in {"loop", "rekeying", "out", "hit"} : Scanned(t, k, n, a, pats, to)
    <2>1. CASE pats[j] \in Wide
      BY <1>2, <2>1 DEF Scanned, Regex!Go
    <2>2. CASE pats[j] \notin Wide
      BY <1>2, <2>2 DEF Scanned, Regex!Go
    <2> QED BY <2>1, <2>2
  <1> QED BY <1>1, <1>2 DEF Regex!ScanOn


\* What the proofs use of a state that has the invariant
LEMMA RegexFacts ==
  ASSUME Regex!PoolAssumed, Regex!TypeOK
  PROVE /\ cmd \in RegexLines /\ regex \in Seq(Regex!Patterns)
        /\ npatterns \in Nat /\ Len(regex) \in Nat \ {0} /\ npatterns <= Len(regex)
        /\ Len(cmd.patterns) \in Nat \ {0} /\ Len(regex) <= Len(cmd.patterns)
        /\ DOMAIN regex = 1..Len(regex) /\ \A k \in 1..Len(regex) : regex[k] \in Regex!Patterns
        /\ i \in [Threads -> 0..Len(regex)] /\ nres \in [Threads -> 0..Len(regex)]
        /\ re \in [Threads -> Regex!Patterns] /\ reports \in [Regex!Patterns -> Nat]
        /\ freed \subseteq Regex!Patterns /\ found \in Nat /\ generation \in Nat
        /\ pc \in [Threads -> Moves] /\ LoopTypeOK
        /\ MainThread \in cmd.threads /\ cmd.threads \subseteq Threads /\ cmd.numpairs \in Nat
        /\ {cmd.remove_on_match, cmd.only_one} \subseteq BOOLEAN
        /\ cmd.numpairs > 0 => ~cmd.remove_on_match
        /\ IsFiniteSet(Threads)
        /\ address \in [Threads -> SUBSET Regex!Patterns]
  <1>1. /\ cmd \in RegexLines /\ regex \in Seq(Regex!Patterns)
        /\ Len(regex) \in 1..Len(cmd.patterns) /\ npatterns \in 0..Len(regex)
        /\ i \in [Threads -> 0..Len(regex)] /\ nres \in [Threads -> 0..Len(regex)]
        /\ re \in [Threads -> Regex!Patterns] /\ reports \in [Regex!Patterns -> Nat]
        /\ freed \subseteq Regex!Patterns /\ found \in Nat /\ generation \in Nat
        /\ address \in [Threads -> SUBSET Regex!Patterns]
    BY DEF Regex!TypeOK
  <1>2. /\ MainThread \in cmd.threads /\ cmd.threads \subseteq Threads /\ cmd.numpairs \in Nat
        /\ {cmd.remove_on_match, cmd.only_one} \subseteq BOOLEAN
        /\ cmd.numpairs > 0 => ~cmd.remove_on_match
        /\ IsFiniteSet(Threads) /\ Len(cmd.patterns) \in Nat \ {0}
    BY <1>1, Facts
  <1>3. LoopTypeOK /\ pc \in [Threads -> Moves]
    BY SameLoop, LoopAssumption DEF Regex!TypeOK, LoopTypeOK, Moves
  <1>4. Len(regex) \in Nat \ {0} /\ DOMAIN regex = 1..Len(regex)
        /\ \A k \in 1..Len(regex) : regex[k] \in Regex!Patterns
    BY <1>1, <1>2
  <1> QED BY <1>1, <1>2, <1>3, <1>4

LEMMA ScannedTypes ==
  ASSUME Regex!PoolAssumed, Regex!TypeOK, NEW t \in Threads,
         NEW k \in Nat \ {0}, NEW n \in 0..Len(regex), NEW a, NEW pats, NEW to \in Moves,
         \A j \in 1..Len(regex) : pats[j] \in Regex!Patterns,
         Scanned(t, k, n, a, pats, to)
  PROVE /\ i' \in [Threads -> 0..Len(regex)] /\ nres' \in [Threads -> 0..Len(regex)]
        /\ re' \in [Threads -> Regex!Patterns]
        /\ pc'[t] = to /\ nres'[t] = n
        /\ to = "hit" => i'[t] \in k..n /\ re'[t] = pats[i'[t]]
        /\ \A u \in Threads \ {t} : /\ pc'[u] = pc[u] /\ i'[u] = i[u]
                                    /\ nres'[u] = nres[u] /\ re'[u] = re[u]
  <1>1. /\ i \in [Threads -> 0..Len(regex)] /\ nres \in [Threads -> 0..Len(regex)]
        /\ re \in [Threads -> Regex!Patterns] /\ pc \in [Threads -> Moves]
        /\ Len(regex) \in Nat
    BY RegexFacts
  <1>2. /\ pc' = [pc EXCEPT ![t] = to] /\ nres' = [nres EXCEPT ![t] = n]
    BY DEF Scanned
  <1>3. CASE to # "hit"
    <2>1. UNCHANGED <<i, re>>
      BY <1>3 DEF Scanned
    <2> QED BY <1>1, <1>2, <1>3, <2>1
  <1>4. CASE to = "hit"
    <2>1. PICK j \in k..n : i' = [i EXCEPT ![t] = j] /\ re' = [re EXCEPT ![t] = pats[j]]
      BY <1>4 DEF Scanned
    <2>2. j \in 0..Len(regex) /\ pats[j] \in Regex!Patterns
      BY <1>1, <2>1
    <2> QED BY <1>1, <1>2, <2>1, <2>2
  <1> QED BY <1>3, <1>4

LEMMA RegexScans ==
  ASSUME NEW t, NEW a, Regex!Scan(t, a)
  PROVE \/ npatterns = 0 /\ pc' = [pc EXCEPT ![t] = "out"] /\ UNCHANGED <<i, nres, re>>
        \/ npatterns > 0 /\ \E to \in {"loop", "rekeying", "out", "hit"} :
                              Scanned(t, 1, npatterns, a, regex, to)
  BY ScanEnds DEF Regex!Scan, Regex!Go

\* How a report ends: without another look, without removal, with the last pattern, or
\* with one of several.
LEMMA RegexReports ==
  ASSUME Regex!PoolAssumed, Regex!TypeOK, NEW t \in Threads, Regex!Report(t)
  PROVE LET looks(k, n, pats) == \E to \in {"loop", "rekeying", "out", "hit"} :
                                   Scanned(t, k, n, address[t], pats, to)
            enough == exited' \/ cmd.only_one
            removes == ~enough /\ cmd.remove_on_match
        IN /\ exited' = (cmd.numpairs >= 1 /\ found' >= cmd.numpairs)
           /\ enough => pc' = [pc EXCEPT ![t] = "out"] /\ UNCHANGED <<i, nres, re>>
           /\ ~removes => UNCHANGED <<regex, npatterns, freed, generation>>
           /\ ~removes /\ ~enough => looks(i[t] + 1, nres[t], regex)
           /\ removes => freed' = freed \cup {regex[i[t]]} /\ npatterns' = nres[t] - 1
           /\ removes /\ nres[t] = 1 => /\ pc' = [pc EXCEPT ![t] = "out"]
                                        /\ UNCHANGED <<regex, generation, i, nres, re>>
           /\ removes /\ nres[t] # 1 =>
                /\ regex' = [regex EXCEPT ![i[t]] = regex[nres[t]]]
                /\ generation' = generation + 1
                /\ looks(i[t] + 1, nres[t] - 1, regex')
  <1>1. exited' = (cmd.numpairs >= 1 /\ found' >= cmd.numpairs)
    BY DEF Regex!Report, Regex!Enough
  <1>2. CASE exited' \/ cmd.only_one
    <2>1. Regex!Enough(found') <=> exited'
      BY <1>1 DEF Regex!Enough
    <2> QED BY <1>1, <1>2, <2>1 DEF Regex!Report, Regex!Go
  <1>3. CASE ~(exited' \/ cmd.only_one) /\ ~cmd.remove_on_match
    <2>1. ~Regex!Enough(found')
      BY <1>1, <1>3 DEF Regex!Enough
    <2>2. /\ Regex!ScanOn(t, i[t] + 1, nres[t], address[t], regex, 1)
          /\ UNCHANGED <<regex, npatterns, freed, generation>>
      BY <1>3, <2>1 DEF Regex!Report
    <2>3. \E to \in {"loop", "rekeying", "out", "hit"} :
            Scanned(t, i[t] + 1, nres[t], address[t], regex, to)
      BY <2>2, ScanEnds
    <2> QED BY <1>1, <1>3, <2>2, <2>3
  <1>4. CASE ~(exited' \/ cmd.only_one) /\ cmd.remove_on_match
    <2>1. ~Regex!Enough(found')
      BY <1>1, <1>4 DEF Regex!Enough
    <2>2. /\ freed' = freed \cup {regex[i[t]]} /\ npatterns' = nres[t] - 1
          /\ IF nres[t] = 1
             THEN /\ pc' = [pc EXCEPT ![t] = "out"]
                  /\ UNCHANGED <<regex, generation, i, nres, re>>
             ELSE /\ regex' = [regex EXCEPT ![i[t]] = regex[nres[t]]]
                  /\ generation' = generation + 1
                  /\ Regex!ScanOn(t, i[t] + 1, nres[t] - 1, address[t], Regex!Removed(t), 1)
      BY <1>4, <2>1 DEF Regex!Report, Regex!Go, Regex!Removed
    <2>3. nres[t] # 1 => \E to \in {"loop", "rekeying", "out", "hit"} :
            Scanned(t, i[t] + 1, nres[t] - 1, address[t], Regex!Removed(t), to)
      BY <2>2, ScanEnds
    <2>4. nres[t] # 1 => Regex!Removed(t) = regex'
      BY <2>2 DEF Regex!Removed
    <2> QED BY <1>1, <1>4, <2>2, <2>3, <2>4
  <1> QED BY <1>2, <1>3, <1>4

LEMMA RegexLock == ASSUME LockInv, Regex!PoolAssumed, Regex!TypeOK, [Regex!Next]_(Regex!vars)
                   PROVE LockInv'
  <1>1. /\ hold \in [Threads -> {"none", "shared", "exclusive"}] /\ pc \in [Threads -> Moves]
        /\ pending \subseteq Threads /\ exited \in BOOLEAN
    BY DEF LockInv, LoopTypeOK, Moves
  <1>2. ASSUME UNCHANGED Regex!vars PROVE LockInv'
    BY <1>2 DEF Regex!vars, Regex!loopvars, Regex!lockvars, LockInv, LoopTypeOK
  <1>3. ASSUME NEW t \in Threads, RegexWalk(t) PROVE LockInv'
    BY <1>3, LoopKeepsLock DEF RegexWalk
  <1>4. ASSUME NEW t \in Threads, Regex!Test(t) \/ Regex!Report(t) PROVE LockInv'
    <2>1. /\ hold[t] # "none" /\ UNCHANGED <<hold, pending>> /\ exited' \in BOOLEAN
          /\ \E to \in {"out", "loop", "rekeying", "hit"} : pc' = [pc EXCEPT ![t] = to]
      <3>1. CASE Regex!Test(t)
        <4>1. hold[t] # "none" /\ UNCHANGED <<hold, pending, exited>>
              /\ \E a : Regex!Scan(t, a)
          BY <3>1 DEF Regex!Test, Regex!lockvars
        <4> QED BY <1>1, <4>1, RegexScans DEF Scanned
      <3>2. CASE Regex!Report(t)
        <4>1. pc[t] = "matched" /\ UNCHANGED <<hold, pending>>
          BY <3>2 DEF Regex!Report, Regex!lockvars
        <4>2. hold[t] # "none"
          BY <4>1 DEF LockInv
        <4>3. exited' = (cmd.numpairs >= 1 /\ found' >= cmd.numpairs)
          BY <3>2, RegexReports
        <4>4. \E to \in {"out", "loop", "rekeying", "hit"} : pc' = [pc EXCEPT ![t] = to]
          BY <3>2, RegexReports DEF Scanned
        <4> QED BY <4>1, <4>2, <4>3, <4>4
      <3> QED BY <1>4, <3>1, <3>2
    <2>2. PICK to \in {"out", "loop", "rekeying", "hit"} : pc' = [pc EXCEPT ![t] = to]
      BY <2>1
    <2>3. hold[t] = "exclusive" => t \in pending /\ \A u \in Threads \ {t} : hold[u] = "none"
      BY DEF LockInv
    <2>4. hold[t] \in {"none", "shared", "exclusive"}
      BY <1>1
    <2> QED BY <1>1, <2>1, <2>2, <2>3, <2>4, SameHold, LockStep DEF Moves
  <1>5. ASSUME NEW t \in Threads, Regex!Upgraded(t) PROVE LockInv'
    <2>1. /\ hold' = [hold EXCEPT ![t] = "exclusive"] /\ t \in pending
          /\ \A u \in Threads : hold[u] = "none"
          /\ UNCHANGED <<pending, exited>>
          /\ (\E a : Regex!Scan(t, a)) \/ pc' = [pc EXCEPT ![t] = "matched"]
      BY <1>5 DEF Regex!Upgraded, Regex!Lock!Grant, Regex!Go
    <2>2. \E to \in {"out", "loop", "rekeying", "hit", "matched"} : pc' = [pc EXCEPT ![t] = to]
      BY <2>1, RegexScans DEF Scanned
    <2>3. PICK to \in {"out", "loop", "rekeying", "hit", "matched"} : pc' = [pc EXCEPT ![t] = to]
      BY <2>2
    <2> QED BY <1>1, <2>1, <2>3, LockStep DEF Moves
  <1> QED BY <1>2, <1>3, <1>4, <1>5, RegexKinds

LEMMA SlotsSame ==
  ASSUME UNCHANGED <<cmd, regex, npatterns, freed, reports>>
  PROVE /\ Regex!LiveSlotsIntact' <=> Regex!LiveSlotsIntact
        /\ Regex!NoneLost' <=> Regex!NoneLost
        /\ GoneInv' <=> GoneInv
        /\ UNCHANGED Regex!Live
  BY DEF Regex!LiveSlotsIntact, Regex!NoneLost, GoneInv, Regex!Live

\* Steps that leave the slots alone, and whose matches are matches still
LEMMA StillSlots ==
  ASSUME RegexInv, LockInv', UNCHANGED Regex!poolvars,
         i' \in [Threads -> 0..Len(regex)], nres' \in [Threads -> 0..Len(regex)],
         re' \in [Threads -> Regex!Patterns], address' \in [Threads -> SUBSET Regex!Patterns],
         NEW t \in Threads, Knows(t)',
         \A u \in Threads \ {t} : /\ pc'[u] = pc[u] /\ i'[u] = i[u]
                                  /\ nres'[u] = nres[u] /\ re'[u] = re[u]
  PROVE Regex!SlotsWhole' /\ ScanInv' /\ GoneInv'
  <1>1. UNCHANGED <<cmd, regex, npatterns, freed, found, generation, reports>>
    BY DEF Regex!poolvars
  <1>2. Regex!LoopTypeOK'
    BY DEF LockInv, LoopTypeOK, Regex!LoopTypeOK
  <1>3. Regex!TypeOK'
    BY <1>1, <1>2 DEF RegexInv, Regex!SlotsWhole, Regex!TypeOK
  <1>4. Regex!SlotsWhole' /\ GoneInv'
    BY <1>1, <1>3, SlotsSame DEF RegexInv, Regex!SlotsWhole
  <1>5. ASSUME NEW u \in Threads \ {t} PROVE Knows(u)'
    BY <1>1 DEF RegexInv, ScanInv, Knows
  <1> QED BY <1>4, <1>5 DEF ScanInv

LEMMA RegexWalkKeeps ==
  ASSUME Regex!PoolAssumed, RegexInv, LockInv', NEW t \in Threads, RegexWalk(t)
  PROVE Regex!SlotsWhole' /\ ScanInv' /\ GoneInv'
  <1>1. PICK to \in Moves : LoopMove(t, to)
    BY LoopMoves DEF RegexWalk, RegexInv, LockInv
  <1>2. UNCHANGED Regex!poolvars /\ UNCHANGED <<address, i, nres, re>>
    BY DEF RegexWalk, Regex!testvars
  <1>3. Regex!TypeOK /\ Knows(t)
    BY DEF RegexInv, Regex!SlotsWhole, ScanInv
  <1>4. pc'[t] = to /\ \A u \in Threads \ {t} : pc'[u] = pc[u]
    BY <1>1, <1>3, RegexFacts DEF LoopMove
  <1>5. Knows(t)'
    <2>1. UNCHANGED npatterns /\ UNCHANGED regex
      BY <1>2 DEF Regex!poolvars
    <2> QED BY <1>1, <1>2, <1>3, <1>4, <2>1 DEF Knows, LoopMove
  <1>6. /\ i \in [Threads -> 0..Len(regex)] /\ nres \in [Threads -> 0..Len(regex)]
        /\ re \in [Threads -> Regex!Patterns] /\ address \in [Threads -> SUBSET Regex!Patterns]
    BY <1>3, RegexFacts
  <1> QED BY <1>2, <1>4, <1>5, <1>6, StillSlots

LEMMA RegexTestKeeps ==
  ASSUME Regex!PoolAssumed, RegexInv, LockInv', NEW t \in Threads,
         Regex!Test(t) \/ Regex!Upgraded(t)
  PROVE Regex!SlotsWhole' /\ ScanInv' /\ GoneInv'
  <1>1. Regex!TypeOK /\ Knows(t)
    BY DEF RegexInv, Regex!SlotsWhole, ScanInv
  <1>2. UNCHANGED Regex!poolvars /\ UNCHANGED <<cmd, regex, npatterns>>
    BY DEF Regex!Test, Regex!Upgraded, Regex!poolvars
  <1>3. address' \in [Threads -> SUBSET Regex!Patterns]
    <2>1. address \in [Threads -> SUBSET Regex!Patterns] /\ cmd \in RegexLines
      BY <1>1, RegexFacts
    <2>2. Regex!ToSet(cmd.patterns) \subseteq Regex!Patterns
      BY <2>1 DEF Regex!Patterns
    <2>3. \/ UNCHANGED address
          \/ \E a \in SUBSET Regex!Patterns : address' = [address EXCEPT ![t] = a]
      BY <2>2 DEF Regex!Test, Regex!Upgraded
    <2> QED BY <2>1, <2>3
  <1>4. CASE \E a : Regex!Scan(t, a)
    <2>1. CASE npatterns = 0 /\ pc' = [pc EXCEPT ![t] = "out"] /\ UNCHANGED <<i, nres, re>>
      <3>1. pc'[t] = "out" /\ \A u \in Threads \ {t} : pc'[u] = pc[u]
        BY <1>1, <2>1, RegexFacts
      <3>2. Knows(t)'
        BY <3>1 DEF Knows
      <3>3. /\ i' \in [Threads -> 0..Len(regex)] /\ nres' \in [Threads -> 0..Len(regex)]
            /\ re' \in [Threads -> Regex!Patterns]
        BY <1>1, <2>1, RegexFacts
      <3> QED BY <1>2, <1>3, <2>1, <3>1, <3>2, <3>3, StillSlots
    <2>2. ASSUME NEW a, NEW to \in {"loop", "rekeying", "out", "hit"},
                 Scanned(t, 1, npatterns, a, regex, to)
          PROVE Regex!SlotsWhole' /\ ScanInv' /\ GoneInv'
      <3>1. npatterns \in 0..Len(regex) /\ \A j \in 1..Len(regex) : regex[j] \in Regex!Patterns
        BY <1>1, RegexFacts
      <3>2. /\ i' \in [Threads -> 0..Len(regex)] /\ nres' \in [Threads -> 0..Len(regex)]
            /\ re' \in [Threads -> Regex!Patterns]
            /\ pc'[t] = to /\ nres'[t] = npatterns
            /\ to = "hit" => i'[t] \in 1..npatterns /\ re'[t] = regex[i'[t]]
            /\ \A u \in Threads \ {t} : /\ pc'[u] = pc[u] /\ i'[u] = i[u]
                                        /\ nres'[u] = nres[u] /\ re'[u] = re[u]
        BY <1>1, <2>2, <3>1, ScannedTypes DEF Moves
      <3>3. Knows(t)'
        BY <1>2, <3>2 DEF Knows
      <3> QED BY <1>2, <1>3, <3>2, <3>3, StillSlots
    <2> QED BY <1>4, <2>1, <2>2, RegexScans
  <1>5. CASE ~\E a : Regex!Scan(t, a)
    <2>1. /\ pc[t] = "waiting" /\ ~Regex!Moved(t)
          /\ pc' = [pc EXCEPT ![t] = "matched"] /\ UNCHANGED <<i, nres, re>>
      BY <1>5 DEF Regex!Test, Regex!Upgraded, Regex!Go
    <2>2. pc'[t] = "matched" /\ \A u \in Threads \ {t} : pc'[u] = pc[u]
      BY <1>1, <2>1, RegexFacts
    <2>3. npatterns \in Nat /\ nres[t] \in Nat /\ i[t] \in Nat
      BY <1>1, RegexFacts
    <2>4. i[t] \in 1..nres[t] /\ nres[t] = npatterns /\ regex[i[t]] = re[t]
      BY <1>1, <2>1, <2>3 DEF Knows, Regex!Moved
    <2>5. Knows(t)'
      BY <1>2, <2>1, <2>2, <2>4 DEF Knows
    <2>6. /\ i' \in [Threads -> 0..Len(regex)] /\ nres' \in [Threads -> 0..Len(regex)]
          /\ re' \in [Threads -> Regex!Patterns]
      BY <1>1, <2>1, RegexFacts
    <2> QED BY <1>2, <1>3, <2>1, <2>2, <2>5, <2>6, StillSlots
  <1> QED BY <1>4, <1>5

\* A match about to be reported is of a live slot.
LEMMA RegexReported ==
  ASSUME Regex!PoolAssumed, RegexInv, NEW t \in Threads, Regex!Report(t)
  PROVE /\ pc[t] = "matched" /\ nres[t] = npatterns /\ npatterns \in 1..Len(regex)
        /\ i[t] \in 1..npatterns /\ regex[i[t]] = re[t] /\ re[t] \in Regex!Live
        /\ re[t] \in Regex!Patterns
        /\ found' = found + 1 /\ reports' = [reports EXCEPT ![re[t]] = @ + 1]
        /\ UNCHANGED <<cmd, address, hold, pending>>
        /\ \A u \in Threads \ {t} : hold[u] = "none"
  <1>1. Regex!TypeOK /\ Knows(t)
    BY DEF RegexInv, Regex!SlotsWhole, ScanInv
  <1>2. pc[t] = "matched" /\ found' = found + 1 /\ UNCHANGED <<cmd, address, hold, pending>>
        /\ reports' = [reports EXCEPT ![regex[i[t]]] = @ + 1]
    BY DEF Regex!Report, Regex!lockvars
  <1>3. i[t] \in 1..nres[t] /\ nres[t] = npatterns /\ regex[i[t]] = re[t]
    BY <1>1, <1>2 DEF Knows
  <1>4. npatterns \in 1..Len(regex) /\ i[t] \in 1..npatterns /\ re[t] \in Regex!Patterns
    BY <1>1, <1>3, RegexFacts
  <1>5. re[t] \in Regex!Live
    BY <1>3, <1>4 DEF Regex!Live
  <1>6. \A u \in Threads \ {t} : hold[u] = "none"
    BY <1>2 DEF RegexInv, LockInv
  <1> QED BY <1>2, <1>3, <1>4, <1>5, <1>6

\* The last slot takes the place of the one removed: one pattern is live no longer.
LEMMA RegexRemoval ==
  ASSUME Regex!PoolAssumed, RegexInv, NEW t \in Threads, Regex!Report(t),
         ~exited', ~cmd.only_one, cmd.remove_on_match
  PROVE /\ regex' \in Seq(Regex!Patterns) /\ Len(regex') = Len(regex)
        /\ npatterns' = npatterns - 1 /\ freed' = freed \cup {re[t]}
        /\ generation' \in Nat
        /\ Regex!Live' = Regex!Live \ {re[t]}
        /\ Regex!LiveSlotsIntact' /\ Regex!NoneLost'
  <1>1. Regex!TypeOK /\ Regex!LiveSlotsIntact /\ Regex!NoneLost
    BY DEF RegexInv, Regex!SlotsWhole
  <1>2. /\ nres[t] = npatterns /\ npatterns \in 1..Len(regex)
        /\ i[t] \in 1..npatterns /\ regex[i[t]] = re[t] /\ re[t] \in Regex!Patterns
        /\ reports' = [reports EXCEPT ![re[t]] = @ + 1] /\ UNCHANGED cmd
    BY RegexReported
  <1>3. /\ regex \in Seq(Regex!Patterns) /\ Len(regex) \in Nat \ {0} /\ DOMAIN regex = 1..Len(regex)
        /\ generation \in Nat /\ reports \in [Regex!Patterns -> Nat]
        /\ \A k \in 1..Len(regex) : regex[k] \in Regex!Patterns
    BY <1>1, RegexFacts
  <1> DEFINE n == npatterns
             x == i[t]
  <1>4. /\ freed' = freed \cup {re[t]} /\ npatterns' = n - 1 /\ generation' \in Nat
        /\ regex' = [regex EXCEPT ![x] = regex[n]]
    <2>1. CASE n = 1
      <3>1. /\ freed' = freed \cup {re[t]} /\ npatterns' = n - 1 /\ UNCHANGED <<regex, generation>>
        BY <1>1, <1>2, <2>1, RegexReports
      <3>2. x = n
        BY <1>2, <2>1
      <3>3. regex = [regex EXCEPT ![x] = regex[n]]
        BY <1>3, <3>2
      <3> QED BY <1>3, <3>1, <3>3
    <2>2. CASE n # 1
      <3>1. /\ freed' = freed \cup {re[t]} /\ npatterns' = n - 1 /\ generation' = generation + 1
            /\ regex' = [regex EXCEPT ![x] = regex[n]]
        BY <1>1, <1>2, <2>2, RegexReports
      <3> QED BY <1>3, <3>1
    <2> QED BY <2>1, <2>2
  <1>5. n \in 1..Len(regex) /\ x \in 1..n /\ n \in Nat /\ x \in Nat /\ regex[x] = re[t]
    BY <1>2, <1>3
  <1>6. /\ regex' \in Seq(Regex!Patterns) /\ Len(regex') = Len(regex)
        /\ DOMAIN regex' = 1..Len(regex)
        /\ \A k \in 1..Len(regex) : regex'[k] = IF k = x THEN regex[n] ELSE regex[k]
    <2>1. regex[n] \in Regex!Patterns
      BY <1>3, <1>5
    <2> QED BY <1>3, <1>4, <1>5, <2>1
  <1>7. \A k, l \in 1..n : regex[k] = regex[l] => k = l
    BY <1>1 DEF Regex!LiveSlotsIntact
  <1>8. \A k \in 1..n : regex[k] \notin freed
    BY <1>1 DEF Regex!LiveSlotsIntact
  <1> HIDE DEF n, x
  \* Where the live slots come from, and go
  <1>9. \A k \in 1..(n - 1) : \E j \in 1..n : /\ j # x /\ j = (IF k = x THEN n ELSE k)
                                              /\ regex'[k] = regex[j]
    BY <1>3, <1>5, <1>6
  <1>10. \A j \in 1..n : j # x => \E k \in 1..(n - 1) : regex'[k] = regex[j]
    <2> SUFFICES ASSUME NEW j \in 1..n, j # x PROVE \E k \in 1..(n - 1) : regex'[k] = regex[j]
      OBVIOUS
    <2>1. CASE j = n
      <3>1. x \in 1..(n - 1) /\ x \in 1..Len(regex)
        BY <1>3, <1>5, <2>1
      <3> QED BY <1>6, <2>1, <3>1
    <2>2. CASE j # n
      <3>1. j \in 1..(n - 1) /\ j \in 1..Len(regex)
        BY <1>3, <1>5, <2>2
      <3> QED BY <1>6, <3>1
    <2> QED BY <2>1, <2>2
  <1>11. Regex!Live = {regex[k] : k \in 1..n} /\ Regex!Live' = {regex'[k] : k \in 1..(n - 1)}
    BY <1>4 DEF Regex!Live, n
  <1>12. Regex!Live' = Regex!Live \ {re[t]}
    <2>1. ASSUME NEW k \in 1..(n - 1) PROVE regex'[k] \in Regex!Live \ {re[t]}
      <3>1. PICK j \in 1..n : j # x /\ regex'[k] = regex[j]
        BY <1>9
      <3> QED BY <1>5, <1>7, <1>11, <3>1
    <2>2. ASSUME NEW j \in 1..n, regex[j] # re[t] PROVE regex[j] \in Regex!Live'
      BY <1>5, <1>10, <1>11, <2>2
    <2> QED BY <1>11, <2>1, <2>2
  <1>13. Regex!LiveSlotsIntact'
    <2>1. ASSUME NEW k \in 1..(n - 1) PROVE regex'[k] \notin freed'
      <3>1. PICK j \in 1..n : j # x /\ regex'[k] = regex[j]
        BY <1>9
      <3> QED BY <1>4, <1>5, <1>7, <1>8, <3>1
    <2>2. ASSUME NEW k \in 1..(n - 1), NEW l \in 1..(n - 1), regex'[k] = regex'[l] PROVE k = l
      <3>1. /\ (IF k = x THEN n ELSE k) \in 1..n /\ regex'[k] = regex[IF k = x THEN n ELSE k]
            /\ (IF l = x THEN n ELSE l) \in 1..n /\ regex'[l] = regex[IF l = x THEN n ELSE l]
        BY <1>9
      <3>2. (IF k = x THEN n ELSE k) = (IF l = x THEN n ELSE l)
        BY <1>7, <2>2, <3>1
      <3> QED BY <1>5, <3>2
    <2>3. npatterns' = n - 1
      BY <1>4 DEF n
    <2> QED BY <2>1, <2>2, <2>3 DEF Regex!LiveSlotsIntact
  <1>14. Regex!NoneLost'
    <2>1. ASSUME NEW k \in 1..Len(regex) PROVE reports'[regex'[k]] > 0 \/ regex'[k] \in Regex!Live'
      <3>1. PICK j \in 1..Len(regex) : regex'[k] = regex[j]
        BY <1>3, <1>5, <1>6
      <3>2. reports[regex[j]] > 0 \/ regex[j] \in Regex!Live
        <4>1. reports[regex[j]] > 0 \/ \E l \in 1..npatterns : regex[l] = regex[j]
          BY <1>1, <1>3 DEF Regex!NoneLost
        <4> QED BY <4>1 DEF Regex!Live
      <3>3. regex[j] \in Regex!Patterns
        BY <1>3
      <3> QED BY <1>2, <1>3, <1>12, <3>1, <3>2, <3>3
    <2>2. npatterns' = n - 1
      BY <1>4 DEF n
    <2>3. ASSUME NEW k \in 1..Len(regex)
          PROVE reports'[regex'[k]] > 0 \/ \E l \in 1..npatterns' : regex'[l] = regex'[k]
      BY <1>11, <2>1, <2>2
    <2> QED BY <1>6, <2>3 DEF Regex!NoneLost
  <1> QED BY <1>4, <1>6, <1>12, <1>13, <1>14 DEF n

\* What Alone is for: the others have no match that the removal takes away.
LEMMA OthersKnow ==
  ASSUME Regex!PoolAssumed, Alone, RegexInv, NEW t \in Threads, Regex!Report(t),
         cmd.remove_on_match, ~cmd.only_one, npatterns' = npatterns - 1,
         NEW u \in Threads \ {t},
         pc'[u] = pc[u], i'[u] = i[u], nres'[u] = nres[u], re'[u] = re[u]
  PROVE Knows(u)'
  <1>1. Regex!TypeOK /\ LockInv /\ Knows(u)
    BY DEF RegexInv, Regex!SlotsWhole, ScanInv
  <1>2. hold[u] = "none" /\ npatterns \in 1..Len(regex) /\ pc[t] = "matched"
    BY RegexReported
  <1>3. /\ cmd \in RegexLines /\ Len(regex) \in Nat /\ Len(cmd.patterns) \in Nat
        /\ Len(regex) <= Len(cmd.patterns)
    BY <1>1, RegexFacts
  <1>4. pc[u] \notin {"hit", "matched"}
    BY <1>1, <1>2 DEF LockInv
  <1>5. CASE cmd.threads = {MainThread}
    <2>1. \A v \in Threads \ cmd.threads : pc[v] = "gone"
      BY DEF RegexInv, AmountInv
    <2>2. t = MainThread
      BY <1>2, <1>5, <2>1
    <2>3. pc[u] = "gone"
      BY <1>5, <2>1, <2>2
    <2> QED BY <2>3 DEF Knows
  <1>6. CASE Len(cmd.patterns) = 1
    <2>1. npatterns' = 0
      BY <1>2, <1>3, <1>6
    <2> QED BY <1>1, <1>4, <2>1 DEF Knows
  <1> QED BY <1>3, <1>5, <1>6 DEF Alone

LEMMA RegexReportKeeps ==
  ASSUME Regex!PoolAssumed, Alone, RegexInv, LockInv', NEW t \in Threads, ~exited, Regex!Report(t)
  PROVE Regex!SlotsWhole' /\ ScanInv' /\ GoneInv'
  <1>1. Regex!TypeOK /\ Regex!LiveSlotsIntact /\ Regex!NoneLost /\ GoneInv
    BY DEF RegexInv, Regex!SlotsWhole
  <1>2. /\ pc[t] = "matched" /\ nres[t] = npatterns /\ npatterns \in 1..Len(regex)
        /\ i[t] \in 1..npatterns /\ re[t] \in Regex!Live /\ re[t] \in Regex!Patterns
        /\ found' = found + 1 /\ reports' = [reports EXCEPT ![re[t]] = @ + 1]
        /\ UNCHANGED <<cmd, address>>
    BY RegexReported
  <1>3. /\ regex \in Seq(Regex!Patterns) /\ Len(regex) \in Nat \ {0}
        /\ \A k \in 1..Len(regex) : regex[k] \in Regex!Patterns
        /\ reports \in [Regex!Patterns -> Nat] /\ freed \subseteq Regex!Patterns
        /\ found \in Nat /\ generation \in Nat /\ npatterns \in Nat
        /\ pc \in [Threads -> Moves] /\ cmd.numpairs \in Nat
        /\ cmd.numpairs > 0 => ~cmd.remove_on_match
        /\ {cmd.remove_on_match, cmd.only_one} \subseteq BOOLEAN
        /\ i \in [Threads -> 0..Len(regex)] /\ nres \in [Threads -> 0..Len(regex)]
        /\ re \in [Threads -> Regex!Patterns]
    BY <1>1, RegexFacts
  <1>4. exited' = (cmd.numpairs >= 1 /\ found' >= cmd.numpairs)
    BY <1>1, RegexReports
  <1> DEFINE removes == ~exited' /\ ~cmd.only_one /\ cmd.remove_on_match
  <1>5. removes <=> cmd.remove_on_match /\ ~cmd.only_one
    <2>1. exited' => cmd.numpairs >= 1
      BY <1>4, Zenon
    <2>2. exited' => cmd.numpairs > 0
      BY <1>3, <2>1
    <2> QED BY <1>3, <2>2
  \* The slots after the report
  <1>6. /\ regex' \in Seq(Regex!Patterns) /\ Len(regex') = Len(regex)
        /\ npatterns' \in 0..Len(regex) /\ freed' \subseteq Regex!Patterns /\ generation' \in Nat
        /\ npatterns' = (IF removes THEN npatterns - 1 ELSE npatterns)
        /\ Regex!Live' = (IF removes THEN Regex!Live \ {re[t]} ELSE Regex!Live)
        /\ Regex!LiveSlotsIntact' /\ Regex!NoneLost'
    <2>1. CASE removes
      <3>1. npatterns - 1 \in 0..Len(regex)
        BY <1>2, <1>3
      <3> QED BY <1>2, <1>3, <2>1, <3>1, RegexRemoval
    <2>2. CASE ~removes
      <3>1. UNCHANGED <<regex, npatterns, freed, generation>>
        BY <1>1, <2>2, RegexReports
      <3>2. Regex!LiveSlotsIntact' /\ UNCHANGED Regex!Live
        BY <1>1, <3>1 DEF Regex!LiveSlotsIntact, Regex!Live
      <3>3. Regex!NoneLost'
        <4> SUFFICES ASSUME cmd.remove_on_match, NEW k \in DOMAIN regex
                     PROVE reports'[regex[k]] > 0 \/ \E l \in 1..npatterns : regex[l] = regex[k]
          BY <1>2, <3>1 DEF Regex!NoneLost
        <4>1. reports[regex[k]] > 0 \/ \E l \in 1..npatterns : regex[l] = regex[k]
          BY <1>1 DEF Regex!NoneLost
        <4>2. regex[k] \in Regex!Patterns /\ reports[regex[k]] \in Nat
          BY <1>3
        <4>3. reports[regex[k]] > 0 => reports'[regex[k]] > 0
          BY <1>2, <1>3, <4>2
        <4> QED BY <4>1, <4>3
      <3> QED BY <1>2, <1>3, <2>2, <3>1, <3>2, <3>3
    <2> QED BY <2>1, <2>2
  \* How the thread goes on
  <1>7. /\ i' \in [Threads -> 0..Len(regex)] /\ nres' \in [Threads -> 0..Len(regex)]
        /\ re' \in [Threads -> Regex!Patterns]
        /\ Knows(t)'
        /\ \A u \in Threads \ {t} : /\ pc'[u] = pc[u] /\ i'[u] = i[u]
                                    /\ nres'[u] = nres[u] /\ re'[u] = re[u]
    <2>1. CASE pc' = [pc EXCEPT ![t] = "out"] /\ UNCHANGED <<i, nres, re>>
      <3>1. pc'[t] = "out" /\ \A u \in Threads \ {t} : pc'[u] = pc[u]
        BY <1>3, <2>1
      <3> QED BY <1>3, <2>1, <3>1 DEF Knows
    <2>2. ASSUME NEW to \in {"loop", "rekeying", "out", "hit"},
                 Scanned(t, i[t] + 1, npatterns', address[t], regex', to)
          PROVE <1>7
      <3>1. /\ i[t] + 1 \in Nat \ {0} /\ npatterns' \in 0..Len(regex) /\ to \in Moves
            /\ \A j \in 1..Len(regex) : regex'[j] \in Regex!Patterns
        <4>1. \A j \in 1..Len(regex) : regex'[j] \in Regex!Patterns
          BY <1>3, <1>6
        <4>2. to \in Moves
          BY DEF Moves
        <4>3. i[t] + 1 \in Nat \ {0}
          BY <1>2, <1>3
        <4> QED BY <1>6, <4>1, <4>2, <4>3
      <3>2. /\ i' \in [Threads -> 0..Len(regex)] /\ nres' \in [Threads -> 0..Len(regex)]
            /\ re' \in [Threads -> Regex!Patterns]
            /\ pc'[t] = to /\ nres'[t] = npatterns'
            /\ to = "hit" => i'[t] \in (i[t] + 1)..npatterns' /\ re'[t] = regex'[i'[t]]
            /\ \A u \in Threads \ {t} : /\ pc'[u] = pc[u] /\ i'[u] = i[u]
                                        /\ nres'[u] = nres[u] /\ re'[u] = re[u]
        BY <1>1, <2>2, <3>1, ScannedTypes
      <3>3. to = "hit" => i'[t] \in 1..npatterns'
        BY <1>2, <1>3, <1>6, <3>2
      <3>4. Knows(t)'
        BY <3>2, <3>3 DEF Knows
      <3> QED BY <3>2, <3>4
    <2>3. \/ pc' = [pc EXCEPT ![t] = "out"] /\ UNCHANGED <<i, nres, re>>
          \/ \E to \in {"loop", "rekeying", "out", "hit"} :
               Scanned(t, i[t] + 1, npatterns', address[t], regex', to)
      <3>1. CASE removes
        BY <1>1, <1>2, <1>6, <3>1, RegexReports
      <3>2. CASE ~removes
        <4>1. UNCHANGED <<regex, npatterns>>
          BY <1>1, <3>2, RegexReports
        <4> QED BY <1>1, <1>2, <3>2, <4>1, RegexReports
      <3> QED BY <3>1, <3>2
    <2> QED BY <2>1, <2>2, <2>3
  <1>8. Regex!SlotsWhole'
    <2>1. Regex!LoopTypeOK'
      BY DEF LockInv, LoopTypeOK, Regex!LoopTypeOK
    <2>2. reports' \in [Regex!Patterns -> Nat] /\ found' \in Nat
      BY <1>2, <1>3
    <2>3. Regex!TypeOK'
      BY <1>1, <1>2, <1>6, <1>7, <2>1, <2>2 DEF Regex!TypeOK
    <2> QED BY <1>6, <2>3 DEF Regex!SlotsWhole
  <1>9. ScanInv'
    <2>1. ASSUME NEW u \in Threads \ {t} PROVE Knows(u)'
      <3>1. CASE removes
        <4>1. cmd.remove_on_match /\ ~cmd.only_one /\ npatterns' = npatterns - 1
          BY <1>6, <3>1
        <4> QED BY <1>7, <2>1, <4>1, OthersKnow
      <3>2. CASE ~removes
        <4>1. UNCHANGED <<regex, npatterns>>
          BY <1>1, <3>2, RegexReports
        <4> QED BY <1>7, <4>1 DEF RegexInv, ScanInv, Knows
      <3> QED BY <3>1, <3>2
    <2> QED BY <1>7, <2>1 DEF ScanInv
  <1>10. GoneInv'
    <2> SUFFICES ASSUME cmd'.remove_on_match, ~cmd'.only_one, NEW p \in Regex!Patterns
                 PROVE reports'[p] <= 1 /\ (reports'[p] = 1 => p \notin Regex!Live')
      BY DEF GoneInv
    <2>1. removes /\ reports[p] <= 1 /\ (reports[p] = 1 => p \notin Regex!Live)
      BY <1>1, <1>2, <1>5 DEF GoneInv
    <2>2. reports'[p] = (IF p = re[t] THEN reports[p] + 1 ELSE reports[p]) /\ reports[p] \in Nat
      BY <1>2, <1>3
    <2> QED BY <1>2, <1>6, <2>1, <2>2
  <1> QED BY <1>8, <1>9, <1>10

LEMMA RegexAmountKept ==
  ASSUME Regex!PoolAssumed, RegexInv, [Regex!Next]_(Regex!vars)
  PROVE AmountInv'
  <1>1. /\ cmd.threads \subseteq Threads /\ cmd.numpairs \in Nat
        /\ found \in Nat /\ pc \in [Threads -> Moves] /\ LockInv /\ AmountInv /\ Regex!TypeOK
    BY RegexFacts DEF RegexInv, Regex!SlotsWhole
  <1>2. CASE UNCHANGED Regex!vars
    <2>1. UNCHANGED <<cmd, pc, found, exited>>
      BY <1>2 DEF Regex!vars, Regex!loopvars, Regex!poolvars
    <2> QED BY <1>1, <2>1 DEF AmountInv
  <1>3. ASSUME NEW t \in Threads, ~exited, RegexWalk(t) PROVE AmountInv'
    <2>1. UNCHANGED <<cmd, found>>
      BY <1>3 DEF RegexWalk, Regex!poolvars
    <2>2. PICK to \in Moves : LoopMove(t, to)
      BY <1>1, <1>3, LoopMoves DEF RegexWalk, LockInv
    <2> QED BY <1>1, <1>3, <2>1, <2>2, AmountStep DEF LoopMove
  <1>4. ASSUME NEW t \in Threads, ~exited, Regex!Test(t) \/ Regex!Upgraded(t) PROVE AmountInv'
    <2>1. UNCHANGED <<cmd, found>> /\ pc[t] \notin {"out", "gone"}
      BY <1>4 DEF Regex!Test, Regex!Upgraded, Regex!poolvars
    <2>2. (\E a : Regex!Scan(t, a)) \/ pc' = [pc EXCEPT ![t] = "matched"]
      BY <1>4 DEF Regex!Test, Regex!Upgraded, Regex!Go
    <2>3. PICK to \in {"out", "loop", "rekeying", "hit", "matched"} : pc' = [pc EXCEPT ![t] = to]
      BY <2>2, RegexScans DEF Scanned
    <2> QED BY <1>1, <1>4, <2>1, <2>3, AmountStep DEF Moves
  <1>5. ASSUME NEW t \in Threads, ~exited, Regex!Report(t) PROVE AmountInv'
    <2>1. /\ pc[t] = "matched" /\ found' = found + 1 /\ UNCHANGED cmd
      BY <1>5 DEF Regex!Report
    <2>2. /\ exited' = (cmd.numpairs >= 1 /\ found' >= cmd.numpairs)
          /\ exited' \/ cmd.only_one => pc' = [pc EXCEPT ![t] = "out"]
          /\ \E to \in {"out", "loop", "rekeying", "hit"} : pc' = [pc EXCEPT ![t] = to]
      BY <1>1, <1>5, RegexReports DEF Scanned
    <2>3. PICK to \in {"out", "loop", "rekeying", "hit"} : pc' = [pc EXCEPT ![t] = to]
      BY <2>2
    <2>4. cmd.only_one => to = "out"
      BY <1>1, <2>2, <2>3
    <2> QED BY <1>1, <1>5, <2>1, <2>2, <2>3, <2>4, AmountStep DEF Moves
  <1> QED BY <1>2, <1>3, <1>4, <1>5, RegexKinds

LEMMA RegexInit == ASSUME Regex!PoolAssumed, Regex!Init PROVE RegexInv
  <1>1. /\ cmd \in RegexLines /\ freed = {} /\ found = 0 /\ generation = 1
        /\ reports = [p \in Regex!Patterns |-> 0]
        /\ address = [t \in Threads |-> {}]
        /\ i = [t \in Threads |-> 0] /\ nres = [t \in Threads |-> 0]
        /\ re = [t \in Threads |-> cmd.patterns[1]]
        /\ hold = [t \in Threads |-> "none"] /\ pending = {} /\ exited = FALSE
        /\ pc = [t \in Threads |-> IF t \in cmd.threads THEN "new" ELSE "gone"]
    BY DEF Regex!Init, Regex!LoopInit, Regex!Lock!Init
  <1>2. /\ cmd.patterns \in Seq(Regex!Patterns) /\ Len(cmd.patterns) \in Nat \ {0}
        /\ \A k, l \in 1..Len(cmd.patterns) : cmd.patterns[k] = cmd.patterns[l] => k = l
        /\ MainThread \in cmd.threads /\ cmd.threads \subseteq Threads /\ cmd.numpairs \in Nat
    BY <1>1, Facts
  <1>3. DOMAIN cmd.patterns = 1..Len(cmd.patterns)
        /\ \A k \in 1..Len(cmd.patterns) : cmd.patterns[k] \in Regex!Patterns
    BY <1>2
  <1>4. PICK n \in 1..Len(cmd.patterns) : \E place \in [1..n -> 1..Len(cmd.patterns)] :
          /\ \A k, l \in 1..n : k < l => place[k] < place[l]
          /\ regex = [k \in 1..n |-> cmd.patterns[place[k]]]
          /\ npatterns = n
    BY <1>3 DEF Regex!Init, Regex!AddPatterns
  <1>5. PICK place \in [1..n -> 1..Len(cmd.patterns)] :
          /\ \A k, l \in 1..n : k < l => place[k] < place[l]
          /\ regex = [k \in 1..n |-> cmd.patterns[place[k]]]
          /\ npatterns = n
    BY <1>4
  <1>6. n \in Nat /\ n > 0
    BY <1>2
  <1>7. regex \in Seq(Regex!Patterns) /\ Len(regex) = n /\ DOMAIN regex = 1..n
    <2>1. \A k \in 1..n : cmd.patterns[place[k]] \in Regex!Patterns
      BY <1>3, <1>5
    <2> QED BY <1>5, <1>6, <2>1
  <1>8. \A k, l \in 1..n : regex[k] = regex[l] => k = l
    <2> SUFFICES ASSUME NEW k \in 1..n, NEW l \in 1..n, regex[k] = regex[l] PROVE k = l
      OBVIOUS
    <2>1. place[k] = place[l] /\ place[k] \in Nat
      BY <1>2, <1>5
    <2>2. ~(k < l) /\ ~(l < k)
      BY <1>2, <1>5, <2>1
    <2> QED BY <1>6, <2>2
  <1>9. LockInv
    <2>1. LoopTypeOK
      BY <1>1 DEF LoopTypeOK
    <2> QED BY <1>1, <2>1 DEF LockInv
  <1>10. Regex!TypeOK
    <2>1. Regex!LoopTypeOK
      BY <1>1 DEF Regex!LoopTypeOK
    <2>2. cmd.patterns[1] \in Regex!Patterns
      BY <1>2, <1>3
    <2>3. Len(regex) \in 1..Len(cmd.patterns) /\ npatterns \in 0..Len(regex) /\ 0 \in 0..Len(regex)
      BY <1>5, <1>6, <1>7
    <2> QED BY <1>1, <1>7, <2>1, <2>2, <2>3 DEF Regex!TypeOK
  <1>11. Regex!SlotsWhole
    <2>1. Regex!LiveSlotsIntact
      BY <1>1, <1>5, <1>8 DEF Regex!LiveSlotsIntact
    <2>2. Regex!NoneLost
      BY <1>5, <1>7 DEF Regex!NoneLost
    <2> QED BY <1>10, <2>1, <2>2 DEF Regex!SlotsWhole
  <1>12. ScanInv /\ GoneInv
    BY <1>1 DEF ScanInv, Knows, GoneInv
  <1>13. AmountInv
    <2>1. {t \in cmd.threads : pc[t] \in {"out", "gone"}} = {}
      BY <1>1, <1>2
    <2>2. Cardinality({t \in cmd.threads : pc[t] \in {"out", "gone"}}) = 0
      BY <2>1, FS_EmptySet
    <2>3. cmd.only_one => found <= Cardinality({t \in cmd.threads : pc[t] \in {"out", "gone"}})
      <3> DEFINE outs == Cardinality({t \in cmd.threads : pc[t] \in {"out", "gone"}})
      <3>1. outs = 0
        BY <2>2
      <3> HIDE DEF outs
      <3>2. found <= outs
        BY <1>1, <3>1
      <3> QED BY <3>2 DEF outs
    <2>4. cmd.numpairs >= 1 => found <= cmd.numpairs /\ (~exited => found < cmd.numpairs)
      BY <1>1, <1>2
    <2>5. \A t \in Threads \ cmd.threads : pc[t] = "gone"
      BY <1>1
    <2> QED BY <2>3, <2>4, <2>5 DEF AmountInv
  <1> QED BY <1>9, <1>11, <1>12, <1>13 DEF RegexInv

LEMMA RegexKept ==
  ASSUME Regex!PoolAssumed, Alone, RegexInv, [Regex!Next]_(Regex!vars)
  PROVE RegexInv'
  <1>1. LockInv'
    BY RegexLock DEF RegexInv, Regex!SlotsWhole
  <1>2. CASE UNCHANGED Regex!vars
    <2>1. UNCHANGED <<cmd, regex, npatterns, freed, found, generation, reports, address, pc, i, nres, re>>
      BY <1>2 DEF Regex!vars, Regex!loopvars, Regex!poolvars, Regex!testvars
    <2>2. Regex!LoopTypeOK'
      BY <1>1 DEF LockInv, LoopTypeOK, Regex!LoopTypeOK
    <2>3. Regex!SlotsWhole' /\ GoneInv'
      BY <2>1, <2>2, SlotsSame DEF RegexInv, Regex!SlotsWhole, Regex!TypeOK
    <2>4. ScanInv'
      BY <2>1 DEF RegexInv, ScanInv, Knows
    <2> QED BY <1>1, <2>3, <2>4, RegexAmountKept DEF RegexInv
  <1>3. ASSUME NEW t \in Threads, ~exited,
               RegexWalk(t) \/ Regex!Test(t) \/ Regex!Upgraded(t) \/ Regex!Report(t)
        PROVE RegexInv'
    BY <1>1, <1>3, RegexWalkKeeps, RegexTestKeeps, RegexReportKeeps, RegexAmountKept DEF RegexInv
  <1> QED BY <1>2, <1>3, RegexKinds

LEMMA RegexInvariant == ASSUME Regex!PoolAssumed, Alone PROVE Regex!Spec => []RegexInv
  <1>1. Regex!Init => RegexInv
    BY RegexInit
  <1>2. RegexInv /\ [Regex!Next]_(Regex!vars) => RegexInv'
    BY RegexKept
  <1> QED BY <1>1, <1>2, PTL DEF Regex!Spec

\* The slots of the regular expressions are whole, whatever patterns and however many
\* threads: none freed is tested, none lost.
THEOREM SlotsAreWhole ==
  ASSUME Regex!PoolAssumed, Alone PROVE Regex!Spec => []Regex!SlotsWhole
  <1>1. RegexInv => Regex!SlotsWhole
    BY DEF RegexInv
  <1> QED BY <1>1, RegexInvariant, PTL

\* A regular expression is reported once, and no more matches than -a and -1 allow.
THEOREM RegexReportsAreCounted ==
  ASSUME Regex!PoolAssumed, Alone PROVE Regex!Spec => []Regex!ReportsCounted
  <1>1. RegexInv => Regex!ReportsCounted
    <2> SUFFICES ASSUME RegexInv PROVE Regex!ReportsCounted
      OBVIOUS
    <2>1. cmd.threads \subseteq Threads /\ IsFiniteSet(Threads) /\ found \in Nat
      BY RegexFacts DEF RegexInv, Regex!SlotsWhole
    <2>2. /\ Cardinality({t \in cmd.threads : pc[t] \in {"out", "gone"}}) <= Cardinality(cmd.threads)
          /\ Cardinality({t \in cmd.threads : pc[t] \in {"out", "gone"}}) \in Nat
          /\ Cardinality(cmd.threads) \in Nat
      BY <2>1, FS_Subset, FS_CardinalityType
    <2>3. Regex!Cardinality(cmd.threads) = Cardinality(cmd.threads)
      BY DEF Regex!Cardinality, Cardinality
    <2>4. Regex!AmountNotExceeded
      BY <2>1, <2>2, <2>3 DEF RegexInv, AmountInv, Regex!AmountNotExceeded
    <2>5. Regex!FoundOnce
      BY DEF RegexInv, GoneInv, Regex!FoundOnce
    <2> QED BY <2>4, <2>5 DEF Regex!ReportsCounted
  <1> QED BY <1>1, RegexInvariant, PTL

-------------------------------------------------------------------------------
(* Regular expressions keep the promise of a search *)

RegexSame == UNCHANGED <<cmd, Regex!Live, Regex!Sees, Regex!Stopped, found, reports, exited>>

LEMMA RegexSameMaps == ASSUME RegexSame PROVE UNCHANGED Regex!Abstract!vars
  BY DEF RegexSame, Regex!Abstract!vars

\* What a step of a thread does to the matches seen and the threads that stopped
LEMMA RegexStepMaps ==
  ASSUME Regex!PoolAssumed, RegexInv, UNCHANGED cmd, NEW t \in Threads,
         NEW to \in Moves, pc' = [pc EXCEPT ![t] = to],
         \A u \in Threads \ {t} : re'[u] = re[u]
  PROVE /\ Regex!Sees' = [Regex!Sees EXCEPT ![t] = IF to \in {"hit", "waiting", "matched"} THEN {re'[t]} ELSE {}]
        /\ to \notin {"out", "gone"} /\ pc[t] \notin {"out", "gone"} => UNCHANGED Regex!Stopped
        /\ to \in {"out", "gone"} /\ t \in cmd.threads => Regex!Stopped' = Regex!Stopped \cup {t}
  <1>1. pc \in [Threads -> Moves] /\ cmd.threads \subseteq Threads
    BY RegexFacts DEF RegexInv, Regex!SlotsWhole
  <1>2. Regex!Sees' = [Regex!Sees EXCEPT ![t] = IF to \in {"hit", "waiting", "matched"} THEN {re'[t]} ELSE {}]
    <2> DEFINE s(u) == IF pc[u] \in {"hit", "waiting", "matched"} THEN {re[u]} ELSE {}
               new == IF to \in {"hit", "waiting", "matched"} THEN {re'[t]} ELSE {}
    <2>1. s(t)' = new /\ \A u \in Threads \ {t} : s(u)' = s(u)
      BY <1>1
    <2>2. Regex!Sees = [u \in Threads |-> s(u)] /\ Regex!Sees' = [u \in Threads |-> s(u)']
      BY DEF Regex!Sees
    <2> HIDE DEF s, new
    <2>3. Regex!Sees' = [Regex!Sees EXCEPT ![t] = new]
      BY <2>1, <2>2
    <2> QED BY <2>3 DEF new
  <1>3. Regex!Stopped' = {u \in cmd.threads : (IF u = t THEN to ELSE pc[u]) \in {"out", "gone"}}
    BY <1>1 DEF Regex!Stopped
  <1> QED BY <1>1, <1>2, <1>3 DEF Regex!Stopped

\* A scan is a look at what is left: its hit is of a pattern of the slots.
LEMMA ScanLooks ==
  ASSUME Regex!PoolAssumed, RegexInv, UNCHANGED cmd, NEW t \in Threads, t \in cmd.threads,
         pc[t] \notin {"out", "gone"},
         NEW k \in Nat \ {0}, NEW n \in 0..Len(regex), NEW a, NEW pats,
         NEW to \in {"loop", "rekeying", "out", "hit"},
         \A j \in 1..Len(regex) : pats[j] \in Regex!Patterns,
         Scanned(t, k, n, a, pats, to), NEW left, \A j \in 1..n : pats[j] \in left
  PROVE Regex!Abstract!Looks(t, left)
  <1>1. Regex!TypeOK /\ Len(regex) \in Nat /\ to \in Moves
    BY RegexFacts DEF RegexInv, Regex!SlotsWhole, Moves
  <1>2. /\ \A u \in Threads \ {t} : re'[u] = re[u]
        /\ to = "hit" => i'[t] \in k..n /\ re'[t] = pats[i'[t]]
    BY <1>1, ScannedTypes
  <1>3. pc' = [pc EXCEPT ![t] = to]
    BY DEF Scanned
  <1>4. /\ Regex!Sees' = [Regex!Sees EXCEPT ![t] = IF to \in {"hit", "waiting", "matched"} THEN {re'[t]} ELSE {}]
        /\ to # "out" => UNCHANGED Regex!Stopped
        /\ to = "out" => Regex!Stopped' = Regex!Stopped \cup {t}
    BY <1>1, <1>2, <1>3, RegexStepMaps
  <1>5. CASE to = "hit"
    <2>1. i'[t] \in 1..n
      BY <1>1, <1>2, <1>5
    <2>2. re'[t] \in left
      BY <1>2, <1>5, <2>1
    <2> QED BY <1>4, <1>5, <2>2 DEF Regex!Abstract!Looks
  <1>6. CASE to \in {"loop", "rekeying"}
    BY <1>4, <1>6 DEF Regex!Abstract!Looks
  <1>7. CASE to = "out"
    <2>1. PICK j \in k..n : pats[j] \in Wide
      BY <1>7 DEF Scanned
    <2>2. j \in 1..n
      BY <1>1
    <2>3. left \cap Wide # {}
      BY <2>1, <2>2
    <2> QED BY <1>4, <1>7, <2>3 DEF Regex!Abstract!Looks
  <1> QED BY <1>5, <1>6, <1>7

LEMMA RegexWalkMaps ==
  ASSUME Regex!PoolAssumed, RegexInv, ~exited, NEW t \in Threads, RegexWalk(t)
  PROVE RegexSame \/ Regex!Abstract!End
  <1>1. UNCHANGED <<cmd, Regex!Live, found, reports, re>>
    BY DEF RegexWalk, Regex!poolvars, Regex!testvars, Regex!Live
  <1>2. pc \in [Threads -> Moves] /\ cmd.threads \subseteq Threads /\ MainThread \in cmd.threads
    BY RegexFacts DEF RegexInv, Regex!SlotsWhole
  <1>3. PICK to \in Moves : LoopMove(t, to)
    BY LoopMoves DEF RegexWalk, RegexInv, LockInv
  <1>4. UNCHANGED Regex!Sees
    <2>1. \A u \in Threads : pc'[u] \in {"hit", "waiting", "matched"} <=> pc[u] \in {"hit", "waiting", "matched"}
      <3>1. to \in {"hit", "waiting", "matched"} <=> pc[t] \in {"hit", "waiting", "matched"}
        BY <1>3 DEF LoopMove
      <3> QED BY <1>2, <1>3, <3>1 DEF LoopMove
    <2> QED BY <1>1, <2>1 DEF Regex!Sees
  <1>5. UNCHANGED Regex!Stopped
    <2>1. \A u \in Threads : pc'[u] \in {"out", "gone"} <=> pc[u] \in {"out", "gone"}
      BY <1>2, <1>3 DEF LoopMove
    <2> QED BY <1>1, <1>2, <2>1 DEF Regex!Stopped
  <1>6. CASE UNCHANGED exited
    BY <1>1, <1>4, <1>5, <1>6 DEF RegexSame
  <1>7. CASE t = MainThread /\ pc[t] = "out" /\ exited' = TRUE
    <2>1. MainThread \in Regex!Stopped
      BY <1>2, <1>7 DEF Regex!Stopped
    <2> QED BY <1>1, <1>4, <1>5, <1>7, <2>1 DEF Regex!Abstract!End
  <1> QED BY <1>3, <1>6, <1>7 DEF LoopMove

LEMMA RegexTestMaps ==
  ASSUME Regex!PoolAssumed, RegexInv, ~exited, NEW t \in Threads, Regex!Test(t) \/ Regex!Upgraded(t)
  PROVE RegexSame \/ Regex!Abstract!Look(t)
  <1>1. Regex!TypeOK /\ Knows(t)
    BY DEF RegexInv, Regex!SlotsWhole, ScanInv
  <1>2. /\ UNCHANGED <<cmd, Regex!Live, found, reports, exited>>
        /\ pc[t] = "loop" \/ (pc[t] = "waiting" /\ Regex!Upgraded(t))
    BY DEF Regex!Test, Regex!Upgraded, Regex!poolvars, Regex!Live
  <1>3. /\ npatterns \in 0..Len(regex) /\ cmd.threads \subseteq Threads /\ i[t] \in Nat /\ nres[t] \in Nat
        /\ npatterns \in Nat /\ \A j \in 1..Len(regex) : regex[j] \in Regex!Patterns
    BY <1>1, RegexFacts
  <1>4. t \in cmd.threads /\ t \notin Regex!Stopped
    BY <1>2 DEF RegexInv, AmountInv, Regex!Stopped
  <1>5. npatterns = 0 => Regex!Live = {}
    BY DEF Regex!Live
  <1>6. CASE pc[t] = "waiting" /\ ~\E a : Regex!Scan(t, a)
    <2>1. pc' = [pc EXCEPT ![t] = "matched"] /\ UNCHANGED re
      BY <1>6 DEF Regex!Test, Regex!Upgraded, Regex!Go
    <2>2. Regex!Sees' = [Regex!Sees EXCEPT ![t] = {re[t]}] /\ UNCHANGED Regex!Stopped
      BY <1>2, <1>6, <2>1, RegexStepMaps DEF Moves
    <2>3. Regex!Sees = [Regex!Sees EXCEPT ![t] = {re[t]}]
      BY <1>6 DEF Regex!Sees
    <2> QED BY <1>2, <2>2, <2>3 DEF RegexSame
  <1>7. CASE \E a : Regex!Scan(t, a)
    <2>1. Regex!Sees[t] \cap Regex!Live = {}
      <3>1. CASE pc[t] = "loop"
        BY <3>1 DEF Regex!Sees
      <3>2. CASE pc[t] = "waiting" /\ Regex!Upgraded(t)
        <4>1. npatterns = 0 \/ (i[t] \in 1..npatterns /\ regex[i[t]] = re[t])
          BY <1>1, <3>2 DEF Knows
        <4>2. Regex!Moved(t) \/ pc' = [pc EXCEPT ![t] = "matched"]
          BY <3>2 DEF Regex!Upgraded, Regex!Go
        <4>3. \E to \in {"loop", "rekeying", "out", "hit"} : pc' = [pc EXCEPT ![t] = to]
          BY <1>7, RegexScans DEF Scanned
        <4>4. pc \in [Threads -> Moves]
          BY <1>1, RegexFacts
        <4>5. Regex!Moved(t)
          BY <4>2, <4>3, <4>4
        <4>6. npatterns = 0
          BY <1>3, <4>1, <4>5 DEF Regex!Moved
        <4> QED BY <1>5, <4>6
      <3> QED BY <1>2, <3>1, <3>2
    <2>2. Regex!Abstract!Looks(t, Regex!Live)
      <3>1. CASE npatterns = 0 /\ pc' = [pc EXCEPT ![t] = "out"] /\ UNCHANGED <<i, nres, re>>
        <4>1. Regex!Sees' = [Regex!Sees EXCEPT ![t] = {}] /\ Regex!Stopped' = Regex!Stopped \cup {t}
          BY <1>2, <1>4, <3>1, RegexStepMaps DEF Moves
        <4> QED BY <1>5, <3>1, <4>1 DEF Regex!Abstract!Looks
      <3>2. ASSUME NEW a, NEW to \in {"loop", "rekeying", "out", "hit"},
                   Scanned(t, 1, npatterns, a, regex, to)
            PROVE Regex!Abstract!Looks(t, Regex!Live)
        <4>1. \A j \in 1..npatterns : regex[j] \in Regex!Live
          BY DEF Regex!Live
        <4>2. pc[t] \notin {"out", "gone"} /\ 1 \in Nat \ {0}
          BY <1>2
        <4> QED BY <1>2, <1>3, <1>4, <3>2, <4>1, <4>2, ScanLooks
      <3> QED BY <1>7, <3>1, <3>2, RegexScans
    <2> QED BY <1>2, <1>4, <2>1, <2>2 DEF Regex!Abstract!Look
  <1>8. (\E a : Regex!Scan(t, a)) \/ pc[t] = "waiting"
    BY DEF Regex!Test, Regex!Upgraded
  <1> QED BY <1>6, <1>7, <1>8

LEMMA RegexReportMaps ==
  ASSUME Regex!PoolAssumed, RegexInv, ~exited, NEW t \in Threads, Regex!Report(t)
  PROVE Regex!Abstract!Report(t)
  <1> DEFINE m == re[t]
             kept == ~cmd.remove_on_match \/ cmd.only_one
  <1>1. Regex!TypeOK
    BY DEF RegexInv, Regex!SlotsWhole
  <1>2. /\ pc[t] = "matched" /\ nres[t] = npatterns /\ npatterns \in 1..Len(regex)
        /\ i[t] \in 1..npatterns /\ m \in Regex!Live
        /\ found' = found + 1 /\ reports' = [reports EXCEPT ![m] = @ + 1]
        /\ UNCHANGED cmd
    BY RegexReported
  <1>3. /\ Len(regex) \in Nat /\ npatterns \in Nat /\ cmd.numpairs \in Nat /\ cmd.threads \subseteq Threads
        /\ cmd.numpairs > 0 => ~cmd.remove_on_match
        /\ \A j \in 1..Len(regex) : regex[j] \in Regex!Patterns
        /\ pc \in [Threads -> Moves]
    BY <1>1, RegexFacts
  <1>4. Regex!Sees[t] = {m} /\ t \in cmd.threads /\ t \notin Regex!Stopped
    BY <1>2 DEF Regex!Sees, RegexInv, AmountInv, Regex!Stopped
  <1>5. exited' = (cmd.numpairs > 0 /\ found' >= cmd.numpairs)
    <2>1. cmd.numpairs >= 1 <=> cmd.numpairs > 0
      BY <1>3
    <2>2. exited' = (cmd.numpairs >= 1 /\ found' >= cmd.numpairs)
      BY <1>1, RegexReports
    <2> QED BY <2>1, <2>2, Zenon
  <1>6. exited' => kept
    BY <1>3, <1>5
  <1>7. Regex!Live' = IF kept THEN Regex!Live ELSE Regex!Live \ {m}
    <2>1. CASE kept
      <3>1. UNCHANGED <<regex, npatterns>>
        BY <1>1, <2>1, RegexReports
      <3> QED BY <2>1, <3>1 DEF Regex!Live
    <2>2. CASE ~kept
      BY <1>6, <2>2, RegexRemoval
    <2> QED BY <2>1, <2>2
  <1>8. ASSUME pc' = [pc EXCEPT ![t] = "out"], UNCHANGED re
        PROVE Regex!Sees' = [Regex!Sees EXCEPT ![t] = {}] /\ Regex!Stopped' = Regex!Stopped \cup {t}
    BY <1>2, <1>4, <1>8, RegexStepMaps DEF Moves
  <1>9. CASE exited' \/ cmd.only_one
    <2>1. pc' = [pc EXCEPT ![t] = "out"] /\ UNCHANGED re
      BY <1>1, <1>9, RegexReports
    <2>2. Regex!Sees' = [Regex!Sees EXCEPT ![t] = {}] /\ Regex!Stopped' = Regex!Stopped \cup {t}
      BY <1>8, <2>1
    <2> QED BY <1>2, <1>4, <1>5, <1>7, <1>9, <2>2 DEF Regex!Abstract!Report
  <1>10. CASE ~(exited' \/ cmd.only_one)
    <2>1. Regex!Abstract!Looks(t, Regex!Live')
      <3>1. CASE ~kept /\ nres[t] = 1
        <4>1. pc' = [pc EXCEPT ![t] = "out"] /\ UNCHANGED re
          BY <1>1, <1>10, <3>1, RegexReports
        <4>2. npatterns' = 0
          BY <1>2, <1>3, <1>10, <3>1, RegexRemoval
        <4>3. Regex!Live' = {}
          BY <4>2 DEF Regex!Live
        <4> QED BY <1>8, <4>1, <4>3 DEF Regex!Abstract!Looks
      <3>2. CASE kept \/ nres[t] # 1
        <4>1. PICK to \in {"loop", "rekeying", "out", "hit"} :
                Scanned(t, i[t] + 1, npatterns', address[t], regex', to)
          <5>1. CASE kept
            <6>1. UNCHANGED <<regex, npatterns>>
              BY <1>1, <5>1, RegexReports
            <6> QED BY <1>1, <1>2, <1>10, <5>1, <6>1, RegexReports
          <5>2. CASE ~kept /\ nres[t] # 1
            BY <1>1, <1>2, <1>10, <5>2, RegexReports
          <5> QED BY <3>2, <5>1, <5>2
        <4>2. /\ i[t] + 1 \in Nat \ {0} /\ npatterns' \in 0..Len(regex)
              /\ \A j \in 1..Len(regex) : regex'[j] \in Regex!Patterns
          <5>1. i[t] + 1 \in Nat \ {0}
            BY <1>2, <1>3
          <5>2. CASE kept
            <6>1. UNCHANGED <<regex, npatterns>>
              BY <1>1, <5>2, RegexReports
            <6> QED BY <1>2, <1>3, <5>1, <6>1
          <5>3. CASE ~kept
            <6>1. /\ regex' \in Seq(Regex!Patterns) /\ Len(regex') = Len(regex)
                  /\ npatterns' = npatterns - 1
              BY <1>10, <5>3, RegexRemoval
            <6>2. \A j \in 1..Len(regex) : regex'[j] \in Regex!Patterns
              BY <1>3, <6>1
            <6> QED BY <1>2, <1>3, <5>1, <6>1, <6>2
          <5> QED BY <5>2, <5>3
        <4>3. \A j \in 1..npatterns' : regex'[j] \in Regex!Live'
          BY DEF Regex!Live
        <4>4. pc[t] \notin {"out", "gone"}
          BY <1>2
        <4> QED BY <1>2, <1>4, <4>1, <4>2, <4>3, <4>4, ScanLooks
      <3> QED BY <3>1, <3>2
    <2> QED BY <1>2, <1>4, <1>5, <1>7, <1>10, <2>1 DEF Regex!Abstract!Report
  <1> QED BY <1>9, <1>10

\* A search for regular expressions keeps the promise of a search (PatternSearch), as one
\* for prefixes does: a match is never dropped while its pattern is searched for, none
\* is reported of a pattern that was removed, and the process does not end too early.
THEOREM RegexRefinement ==
  ASSUME Regex!PoolAssumed, Alone PROVE Regex!Spec => Regex!Abstract!SafeSpec
  <1>1. Regex!Init => Regex!Abstract!Init
    <2> SUFFICES ASSUME Regex!Init PROVE Regex!Abstract!Init
      OBVIOUS
    <2>1. /\ found = 0 /\ exited = FALSE /\ reports = [p \in Regex!Patterns |-> 0]
          /\ pc = [t \in Threads |-> IF t \in cmd.threads THEN "new" ELSE "gone"]
      BY DEF Regex!Init, Regex!LoopInit
    <2>2. /\ cmd.threads \subseteq Threads /\ cmd.numpairs \in Nat
          /\ {cmd.remove_on_match, cmd.only_one} \subseteq BOOLEAN
          /\ npatterns \in Nat /\ npatterns <= Len(regex) /\ Len(regex) \in Nat
          /\ \A k \in 1..Len(regex) : regex[k] \in Regex!Patterns
      BY RegexInit, RegexFacts DEF RegexInv, Regex!SlotsWhole
    <2>3. Regex!Live \subseteq Regex!Patterns
      BY <2>2 DEF Regex!Live
    <2>4. Regex!Sees = [t \in Threads |-> {}] /\ Regex!Stopped = {}
      BY <2>1, <2>2 DEF Regex!Sees, Regex!Stopped
    <2> QED BY <2>1, <2>2, <2>3, <2>4 DEF Regex!Abstract!Init
  <1>2. RegexInv /\ [Regex!Next]_(Regex!vars) => [Regex!Abstract!Next]_(Regex!Abstract!vars)
    <2> SUFFICES ASSUME RegexInv, [Regex!Next]_(Regex!vars)
                 PROVE Regex!Abstract!Next \/ UNCHANGED Regex!Abstract!vars
      OBVIOUS
    <2>1. CASE UNCHANGED Regex!vars
      <3>1. RegexSame
        BY <2>1 DEF Regex!vars, Regex!loopvars, Regex!poolvars, Regex!testvars, RegexSame,
                    Regex!Live, Regex!Sees, Regex!Stopped
      <3> QED BY <3>1, RegexSameMaps
    <2>2. ASSUME NEW t \in Threads, ~exited, RegexWalk(t)
          PROVE Regex!Abstract!Next \/ UNCHANGED Regex!Abstract!vars
      BY <2>2, RegexWalkMaps, RegexSameMaps DEF Regex!Abstract!Next
    <2>3. ASSUME NEW t \in Threads, ~exited, Regex!Test(t) \/ Regex!Upgraded(t)
          PROVE Regex!Abstract!Next \/ UNCHANGED Regex!Abstract!vars
      BY <2>3, RegexTestMaps, RegexSameMaps DEF Regex!Abstract!Next
    <2>4. ASSUME NEW t \in Threads, ~exited, Regex!Report(t)
          PROVE Regex!Abstract!Next \/ UNCHANGED Regex!Abstract!vars
      BY <2>4, RegexReportMaps DEF Regex!Abstract!Next
    <2> QED BY <2>1, <2>2, <2>3, <2>4, RegexKinds
  <1> QED BY <1>1, <1>2, RegexInvariant, PTL DEF Regex!Spec, Regex!Abstract!SafeSpec

===============================================================================
