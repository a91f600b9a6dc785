------------------------------ MODULE RegexPool ------------------------------
(***************************************************************************)
(* The regular expressions of a search (vg_regex_context_t in pattern.c)   *)
(* and the worker threads of vanitygen.c that test addresses against them. *)
(* A test runs with the shared hold of the execution-context lock; on a    *)
(* match the thread upgrades, reports the match and, unless patterns are   *)
(* kept, removes the pattern.  The lock is its abstract specification.     *)
(*                                                                         *)
(* Slots of the pattern array are numbered from 1; an address is the set   *)
(* of patterns it matches.  A thread keeps the lock's hold from the start  *)
(* of a test to its next yield, so only the waits for the lock separate    *)
(* the steps of a test.                                                    *)
(***************************************************************************)
EXTENDS WorkerLoop, Sequences, FiniteSets, SequencesExt, Functions

CONSTANTS CommandLines,   \* what main may be called with: the patterns in order, the
                          \* threads of -t, vc_remove_on_match (not -k and not -a),
                          \* vc_only_one (-1), vc_numpairs (-a, or 0)
          Wide            \* patterns with more captures than re_vec has room for

Patterns == UNION {ToSet(c.patterns) : c \in CommandLines}

\* A call of the program; a pattern given twice is two patterns.
Callable(c) ==
  /\ c.patterns \in Seq(ToSet(c.patterns)) \ {<<>>} /\ IsInjective(c.patterns)
  /\ MainThread \in c.threads /\ c.threads \subseteq Threads
  /\ c.numpairs \in Nat
  /\ {c.remove_on_match, c.only_one} \subseteq BOOLEAN
  /\ c.numpairs > 0 => ~c.remove_on_match

PoolAssumed == /\ IsFiniteSet(Threads) /\ Wide \subseteq Patterns
               /\ \A c \in CommandLines : Callable(c)

ASSUME PoolAssumption == PoolAssumed

VARIABLES cmd,            \* the command line
          regex,          \* vcr_regex, vcr_regex_extra and vcr_regex_pat
          npatterns,      \* vc_npatterns
          freed,          \* patterns given to pcre_free
          found,          \* vc_found
          generation,     \* vc_pattern_generation
          address,        \* what the address under test matches
          i, nres, re,    \* locals of vg_regex_test
          reports         \* history: how often a pattern was reported

poolvars == <<cmd, regex, npatterns, freed, found, generation, reports>>
testvars == <<address, i, nres, re>>
vars == <<loopvars, poolvars, testvars>>

\* vg_regex_context_add_patterns: the patterns that compile, n of them, in order. When
\* none does, main gives up before any thread starts.
AddPatterns == \E n \in DOMAIN cmd.patterns : \E place \in [1..n -> DOMAIN cmd.patterns] :
                 /\ \A k, l \in 1..n : k < l => place[k] < place[l]
                 /\ regex = [k \in 1..n |-> cmd.patterns[place[k]]]
                 /\ npatterns = n

Init == /\ cmd \in CommandLines
        /\ LoopInit(cmd.threads)
        /\ AddPatterns
        /\ freed = {}
        /\ found = 0
        /\ generation = 1
        /\ reports = [p \in Patterns |-> 0]
        /\ address = [t \in Threads |-> {}]
        /\ i = [t \in Threads |-> 0]
        /\ nres = [t \in Threads |-> 0]
        /\ re = [t \in Threads |-> cmd.patterns[1]]

-------------------------------------------------------------------------------
(* vg_regex_test *)

\* The loop over the slots goes on at slot k of n, with r as result so far, and
\* pats as the array. pcre_exec returns 0 for a match with more captures than it
\* has room for, and the test takes that for an error: it says 2.
ScanOn(t, k, n, a, pats, r) ==
  LET hits == {j \in k..n : pats[j] \in a}
  IN  /\ nres' = [nres EXCEPT ![t] = n]
      /\ \/ /\ hits = {}
            /\ Go(t, IF r = 0 THEN "loop" ELSE "rekeying")
            /\ UNCHANGED <<i, re>>
         \/ \E j \in hits :
              /\ \A l \in hits : j <= l
              /\ IF pats[j] \in Wide
                 THEN Go(t, "out") /\ UNCHANGED <<i, re>>
                 ELSE /\ i' = [i EXCEPT ![t] = j]
                      /\ re' = [re EXCEPT ![t] = pats[j]]
                      /\ Go(t, "hit")

\* restart_loop: nothing is left to search for, or the scan starts.
Scan(t, a) ==
  \/ /\ npatterns = 0
     /\ Go(t, "out")
     /\ UNCHANGED <<i, nres, re>>
  \/ /\ npatterns > 0
     /\ ScanOn(t, 1, npatterns, a, regex, 0)

\* The next address of the batch, with the hold of the address before.
Test(t) ==
  /\ pc[t] = "loop"
  /\ hold[t] # "none"
  /\ \E a \in SUBSET ToSet(cmd.patterns) : /\ address' = [address EXCEPT ![t] = a]
                                /\ Scan(t, a)
  /\ UNCHANGED <<lockvars, exited, poolvars>>

\* The slot no longer holds the expression that matched.
Moved_Unchecked(t) == FALSE                                        \* mutant

Moved(t) == i[t] > npatterns \/ regex[i[t]] # re[t]

\* vg_exec_context_upgrade_lock returned 1: the slot is looked at again.
Upgraded(t) ==
  /\ pc[t] = "waiting"
  /\ Lock!Grant(t)
  /\ \/ Moved(t) /\ Scan(t, address[t])
     \/ ~Moved(t) /\ Go(t, "matched") /\ UNCHANGED <<i, nres, re>>
  /\ UNCHANGED <<exited, poolvars, address>>

\* The match is reported, under the exclusive hold.
Enough(n) == cmd.numpairs >= 1 /\ n >= cmd.numpairs

\* The last slot takes the place of the removed one, one slot fewer is live.
Removed_Keep(t) == regex                                           \* mutant

Removed(t) == [regex EXCEPT ![i[t]] = regex[nres[t]]]

Report(t) ==
  /\ pc[t] = "matched"
  /\ found' = found + 1
  /\ reports' = [reports EXCEPT ![regex[i[t]]] = @ + 1]
  /\ exited' = Enough(found')
  /\ \/ /\ Enough(found') \/ cmd.only_one
        /\ Go(t, "out")
        /\ UNCHANGED <<regex, npatterns, freed, generation, i, nres, re>>
     \/ /\ ~Enough(found') /\ ~cmd.only_one /\ ~cmd.remove_on_match
        /\ ScanOn(t, i[t] + 1, nres[t], address[t], regex, 1)
        /\ UNCHANGED <<regex, npatterns, freed, generation>>
     \/ /\ ~Enough(found') /\ ~cmd.only_one /\ cmd.remove_on_match
        /\ freed' = freed \cup {regex[i[t]]}
        /\ npatterns' = nres[t] - 1
        /\ IF nres[t] = 1
           THEN /\ Go(t, "out")
                /\ UNCHANGED <<regex, generation, i, nres, re>>
           ELSE /\ regex' = Removed(t)
                /\ generation' = generation + 1
                /\ ScanOn(t, i[t] + 1, nres[t] - 1, address[t], Removed(t), 1)
  /\ UNCHANGED <<lockvars, cmd, address>>

-------------------------------------------------------------------------------

TestStep(t) == Upgraded(t) \/ Report(t)

Step(t) == TestStep(t) \/ (LoopStep(t) /\ UNCHANGED <<poolvars, testvars>>)

Come(t) == Enter(t) /\ UNCHANGED <<poolvars, testvars>>

Next == \/ ~exited /\ \E t \in Threads :
             \/ Come(t)
             \/ Test(t)
             \/ Step(t)
             \/ StartRekey(t) /\ UNCHANGED <<poolvars, testvars>>
        \/ exited /\ UNCHANGED vars

Spec == Init /\ [][Next]_vars

(* A thread in a call goes on, and the loop yields after each batch and     *)
(* tests addresses between two calls of the lock, which is why Test is     *)
(* strongly fair: it cannot make keys for ever without using them.         *)
Fairness == \A t \in Threads : /\ WF_vars(~exited /\ Step(t))
                               /\ SF_vars(~exited /\ Test(t))
                               /\ WF_vars(~exited /\ Come(t))

FairSpec == Spec /\ Fairness

-------------------------------------------------------------------------------
(* Properties *)

TypeOK ==
  /\ LoopTypeOK /\ cmd \in CommandLines
  /\ regex \in Seq(Patterns) /\ Len(regex) \in 1..Len(cmd.patterns)
  /\ npatterns \in 0..Len(regex)
  /\ freed \subseteq Patterns
  /\ found \in Nat /\ generation \in Nat
  /\ reports \in [Patterns -> Nat]
  /\ address \in [Threads -> SUBSET Patterns]
  /\ i \in [Threads -> 0..Len(regex)] /\ nres \in [Threads -> 0..Len(regex)]
  /\ re \in [Threads -> Patterns]

\* No live slot holds an expression that has been freed, and none is live twice:
\* what a test runs is the patterns still searched for.
LiveSlotsIntact ==
  \A k \in 1..npatterns : /\ regex[k] \notin freed
                          /\ \A l \in 1..npatterns : regex[k] = regex[l] => k = l

\* Without -k and -1 a pattern is searched for until a match is found, and reported
\* once, whichever threads match it at the same time.
FoundOnce == cmd.remove_on_match /\ ~cmd.only_one => \A p \in Patterns : reports[p] <= 1

\* No pattern is lost: one that was loaded is still live or was reported.
NoneLost == cmd.remove_on_match =>
  \A k \in DOMAIN regex : \/ reports[regex[k]] > 0
                          \/ \E l \in 1..npatterns : regex[l] = regex[k]

\* With -a the process ends at the match asked for; with -1 no thread goes on after a
\* match of its own.
AmountNotExceeded == /\ cmd.numpairs >= 1 => found <= cmd.numpairs
                     /\ cmd.only_one => found <= Cardinality(cmd.threads)

\* The array of slots is whole: the live slots are the patterns still searched for, each
\* once, and none that was loaded is missing without a report.
SlotsWhole == TypeOK /\ LiveSlotsIntact /\ NoneLost

\* Matches that meet are counted right: a pattern once, and no more than -1 and -a allow.
ReportsCounted == FoundOnce /\ AmountNotExceeded

(* The promise of a search (PatternSearch), which this one keeps: patterns are open *)
(* while a live slot holds them.                                                    *)
Live == {regex[k] : k \in 1..npatterns}

Sees == [t \in Threads |-> IF pc[t] \in {"hit", "waiting", "matched"} THEN {re[t]} ELSE {}]

Stopped == {t \in cmd.threads : pc[t] \in {"out", "gone"}}

Abstract == INSTANCE PatternSearch WITH
  Items <- Patterns, Unfit <- Wide,
  kept <- ~cmd.remove_on_match \/ cmd.only_one, amount <- cmd.numpairs,
  once <- cmd.only_one, loading <- FALSE, open <- Live, sees <- Sees,
  stopped <- Stopped, ended <- exited

\* No match is dropped while its pattern is searched for, none is reported of a pattern
\* that is not, the process ends when and only when it should, and every match that waits
\* is looked at again.
ImplementsPatternSearch == Abstract!Spec
===============================================================================
