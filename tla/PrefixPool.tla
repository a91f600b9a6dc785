------------------------------ MODULE PrefixPool ------------------------------
(***************************************************************************)
(* The prefixes of a search (vg_prefix_context_t in pattern.c): the tree   *)
(* of address ranges, the one suffix a context has room for, and the       *)
(* worker threads of vanitygen.c that test addresses against them.         *)
(*                                                                         *)
(* A pattern is the set of ranges its prefix stands for (several when case *)
(* is ignored) and its suffix; a pattern without ranges is a suffix alone. *)
(* An address lies in a range or in none, has a suffix, and spells letters *)
(* as the pattern it falls under does or otherwise ("exact").  The tree is *)
(* a set of pairs of a range and its pattern, and every range is as wide   *)
(* as any other.                                                           *)
(***************************************************************************)
EXTENDS WorkerLoop, Integers, Sequences, FiniteSets, SequencesExt

CONSTANTS Ranges, SuffixValues, NoRange, NoSuffix,
          Needs,          \* the ranges of each pattern
          SuffixOf,       \* the suffix of each pattern, or NoSuffix
          CommandLines,   \* what main may be called with: kind ("BTC", "TRX", "ETH"),
                          \* files (the pattern files, or the one argument list:
                          \* records of a sequence and of its -i flag), threads,
                          \* remove_on_match, only_one, numpairs
          Width,          \* addresses in a range
          SuffixSpan,     \* addresses with a given suffix
          SuffixBase      \* one address in so many has a given suffix

Patterns == DOMAIN Needs

Addresses == [range : Ranges \cup {NoRange},
              suffix : SuffixValues \cup {NoSuffix},
              exact : BOOLEAN]

ASSUME PoolAssumption ==
  /\ NoRange \notin Ranges /\ NoSuffix \notin SuffixValues
  /\ IsFiniteSet(Ranges) /\ IsFiniteSet(Threads) /\ Patterns \cap SuffixValues = {}
  /\ Needs \in [Patterns -> SUBSET Ranges]
  /\ SuffixOf \in [Patterns -> SuffixValues \cup {NoSuffix}]
  /\ \A p \in Patterns : Needs[p] = {} => SuffixOf[p] # NoSuffix
  /\ {Width, SuffixSpan, SuffixBase} \subseteq Nat \ {0}
  /\ \A c \in CommandLines :
       /\ MainThread \in c.threads /\ c.threads \subseteq Threads
       /\ c.files \in Seq([patterns : Seq(Patterns), insensitive : BOOLEAN]) \ {<<>>}
       /\ \A k \in DOMAIN c.files : \A p \in ToSet(c.files[k].patterns) :
            SuffixOf[p] # NoSuffix => c.kind \in {"TRX", "ETH"}
       /\ c.numpairs \in Nat
       /\ {c.remove_on_match, c.only_one} \subseteq BOOLEAN
       /\ c.numpairs > 0 => ~c.remove_on_match

VARIABLES cmd,            \* the command line
          file,           \* the file main loads
          nth, added,     \* i and npfx of vg_prefix_context_add_patterns
          tree,           \* vcp_avlroot
          has_suffix,     \* vcp_has_suffix
          suffix,         \* vcp_suffix_pattern, _mask, _target, _divisor
          npatterns,      \* vc_npatterns
          difficulty,     \* vcp_difficulty: the addresses searched for
          found,          \* vc_found
          generation,     \* vc_pattern_generation
          address,        \* the address each thread tests
          match,          \* what its test found: a pattern, or a suffix
          reports         \* history: how often each was reported

poolvars == <<cmd, file, nth, added, tree, has_suffix, suffix, npatterns,
              difficulty, found, generation, reports>>
testvars == <<address, match>>
vars == <<loopvars, poolvars, testvars>>

Init == /\ cmd \in CommandLines
        /\ LoopInit(cmd.threads)
        /\ file = 1
        /\ nth = 1 /\ added = 0
        /\ tree = {}
        /\ has_suffix = FALSE
        /\ suffix = NoSuffix
        /\ npatterns = 0
        /\ difficulty = 0
        /\ found = 0
        /\ generation = 0
        /\ address = [t \in Threads |-> [range |-> NoRange, suffix |-> NoSuffix, exact |-> FALSE]]
        /\ match = [t \in Threads |-> NoSuffix]
        /\ reports = [m \in Patterns \cup SuffixValues |-> 0]

RangesIn(tr) == {e[1] : e \in tr}
EntriesOf(p) == {<<r, p>> : r \in Needs[p]}

-------------------------------------------------------------------------------
(* vg_prefix_context_add_patterns *)

\* A pattern that has found its place in the tree
Counted(p) == /\ tree' = tree \cup EntriesOf(p)
              /\ added' = added + 1
              /\ difficulty' = difficulty + Width * Cardinality(Needs[p])

Overlaps(p) == Needs[p] \cap RangesIn(tree) # {}

AddRanges_Partly(p) ==                                             \* mutant
  IF Needs[p] \subseteq RangesIn(tree) THEN UNCHANGED <<tree, added, difficulty>>
  ELSE /\ tree' = tree \cup {e \in EntriesOf(p) : e[1] \notin RangesIn(tree)}
       /\ added' = added + 1
       /\ difficulty' = difficulty + Width * Cardinality(Needs[p])

\* vg_prefix_add_ranges: all ranges of the prefix go into the tree, or none when one of
\* them overlaps a range that is there.
AddRanges(p) == IF Overlaps(p) THEN UNCHANGED <<tree, added, difficulty>> ELSE Counted(p)

\* The case variants go into the tree in turn; when one overlaps a range that is there,
\* those before it are taken out again.
AddVariants(p) ==
  \/ ~Overlaps(p) /\ Counted(p)
  \/ /\ Overlaps(p)
     /\ \E before \in SUBSET (Needs[p] \ RangesIn(tree)) :
          LET entries == {<<r, p>> : r \in before}
          IN tree' = (tree \cup entries) \ entries
     /\ UNCHANGED <<added, difficulty>>

\* A suffix alone counts as a pattern at once, and again with the file.
AddSuffixOnly == /\ npatterns' = npatterns + 1 /\ added' = added + 1
                 /\ difficulty' = difficulty + SuffixSpan
                 /\ UNCHANGED tree

\* The suffix of the context is the one of the last pattern with one.
Marked(p) == has_suffix' = TRUE /\ suffix' = SuffixOf[p]

\* A pattern with a '*', of Tron and of Ethereum.
AddSuffixed(p) == /\ Marked(p)
                  /\ IF Needs[p] = {} THEN AddSuffixOnly ELSE AddRanges(p) /\ UNCHANGED npatterns

\* Ethereum's others are of one case here.
AddUnsuffixed(p) ==
  /\ IF cmd.kind # "ETH" /\ cmd.files[file].insensitive THEN AddVariants(p) ELSE AddRanges(p)
  /\ UNCHANGED <<has_suffix, suffix, npatterns>>

\* One pattern of the file
AddPattern ==
  /\ file <= Len(cmd.files) /\ nth <= Len(cmd.files[file].patterns)
  /\ LET given == cmd.files[file].patterns[nth]
     IN IF SuffixOf[given] # NoSuffix THEN AddSuffixed(given) ELSE AddUnsuffixed(given)
  /\ nth' = nth + 1
  /\ UNCHANGED <<loopvars, cmd, file, found, generation, reports, testvars>>

\* The combined patterns' share of the address space shrinks by the suffix.
Scaled ==
  IF added > 0 /\ has_suffix /\ tree # {}
  THEN IF difficulty < SuffixBase THEN 1 ELSE difficulty \div SuffixBase
  ELSE difficulty

\* After the last pattern of a file. A file that adds nothing ends the program.
EndFile ==
  /\ file <= Len(cmd.files) /\ nth > Len(cmd.files[file].patterns)
  /\ npatterns' = npatterns + added
  /\ difficulty' = Scaled
  /\ exited' = (added = 0)
  /\ file' = file + 1 /\ nth' = 1 /\ added' = 0
  /\ generation' = generation + 1
  /\ UNCHANGED <<lockvars, pc, cmd, tree, has_suffix, suffix, found, reports, testvars>>

Load == AddPattern \/ EndFile

-------------------------------------------------------------------------------
(* vg_prefix_test *)

\* vcp_caseinsensitive, as it is set for the last file.
Insensitive == cmd.files[Len(cmd.files)].insensitive

CaseMatters == cmd.kind = "ETH" /\ ~Insensitive

\* vg_prefix_check_suffix, vg_prefix_check_suffix_trx
SuffixFits(a) == a.suffix = suffix

\* The spelling of a match of the tree, for Ethereum: by parts while the context
\* has a suffix, else over the whole text of the pattern, its '*' included.
CaseFits_Part(p, a) ==                                             \* mutant
  CaseMatters => IF has_suffix
                 THEN SuffixOf[p] # NoSuffix => a.suffix = SuffixOf[p]
                 ELSE SuffixOf[p] = NoSuffix /\ a.exact

CaseFits(p, a) ==
  CaseMatters => IF has_suffix
                 THEN SuffixOf[p] # NoSuffix => a.exact /\ a.suffix = SuffixOf[p]
                 ELSE SuffixOf[p] = NoSuffix /\ a.exact

SuffixOnly == has_suffix /\ tree = {}

\* The matches of address a: the suffix alone, or the patterns of its range (one at
\* most).
SuffixHits(a) == IF SuffixFits(a) /\ (CaseMatters => a.exact) THEN {suffix} ELSE {}

TreeHits(a) == {p \in Patterns : /\ <<a.range, p>> \in tree
                                 /\ has_suffix => SuffixFits(a)
                                 /\ CaseFits(p, a)}

Hits(a) == IF SuffixOnly THEN SuffixHits(a) ELSE TreeHits(a)

\* No match: 0, or 2 when nothing is left to search for.
Miss(t) == /\ Go(t, IF tree = {} /\ ~has_suffix THEN "out" ELSE "loop")
           /\ UNCHANGED match

\* A search without suffixes, of which a context has only one.
Plain == \A k \in DOMAIN cmd.files : \A p \in ToSet(cmd.files[k].patterns) :
           SuffixOf[p] = NoSuffix

\* The addresses, without the differences that no test of this search looks at.
Tested == {a \in Addresses : /\ Plain => a.suffix = NoSuffix
                             /\ cmd.kind # "ETH" => a.exact}

Test(t) ==
  /\ pc[t] = "loop"
  /\ hold[t] # "none"
  /\ \E a \in Tested :
       /\ address' = [address EXCEPT ![t] = a]
       /\ \/ Hits(a) = {} /\ Miss(t)
          \/ \E m \in Hits(a) : match' = [match EXCEPT ![t] = m] /\ Go(t, "hit")
  /\ UNCHANGED <<lockvars, exited, poolvars>>

\* With the exclusive hold the address is looked up again, by the whole test when
\* it matched the suffix alone, and in the tree when it matched a range.
Again_Not(t) == {match[t]}                                         \* mutant

Again(t) == IF match[t] \in SuffixValues THEN Hits(address[t]) ELSE TreeHits(address[t])

Upgraded(t) ==
  /\ pc[t] = "waiting"
  /\ Lock!Grant(t)
  /\ \/ Again(t) = {} /\ Miss(t)
     \/ \E m \in Again(t) : match' = [match EXCEPT ![t] = m] /\ Go(t, "matched")
  /\ UNCHANGED <<exited, poolvars, address>>

Enough(n) == cmd.numpairs >= 1 /\ n >= cmd.numpairs

\* vg_prefix_delete: a pattern leaves the tree with all its ranges.
Without(p, r) == {e \in tree : e[2] # p}

\* Subtracting the range sum of a removed pattern from the difficulty.
Less(p) == difficulty - Width * Cardinality(Needs[p])

RemoveMatch(t, p) ==
  /\ generation' = generation + 1
  /\ npatterns' = npatterns - 1
  /\ has_suffix' = FALSE
  /\ IF p \in SuffixValues
     THEN /\ Go(t, "out")
          /\ UNCHANGED <<tree, difficulty>>
     ELSE /\ tree' = Without(p, address[t].range)
          /\ difficulty' = Less(p)
          /\ Go(t, IF tree' = {} THEN "out" ELSE "rekeying")

Report(t) ==
  /\ pc[t] = "matched"
  /\ found' = found + 1
  /\ reports' = [reports EXCEPT ![match[t]] = @ + 1]
  /\ exited' = Enough(found')
  /\ IF Enough(found') \/ cmd.only_one \/ ~cmd.remove_on_match
     THEN /\ Go(t, IF Enough(found') \/ cmd.only_one THEN "out" ELSE "rekeying")
          /\ UNCHANGED <<tree, has_suffix, npatterns, difficulty, generation>>
     ELSE RemoveMatch(t, match[t])
  /\ UNCHANGED <<lockvars, cmd, file, nth, added, suffix, testvars>>

-------------------------------------------------------------------------------

Loaded == file > Len(cmd.files)

Step(t) == \/ Upgraded(t)
           \/ Report(t)
           \/ LoopStep(t) /\ UNCHANGED <<poolvars, testvars>>

Come(t) == Loaded /\ Enter(t) /\ UNCHANGED <<poolvars, testvars>>

Next == \/ ~exited /\ \/ Load
                      \/ \E t \in Threads :
                           \/ Come(t)
                           \/ Test(t)
                           \/ Step(t)
                           \/ StartRekey(t) /\ UNCHANGED <<poolvars, testvars>>
        \/ exited /\ UNCHANGED vars

Spec == Init /\ [][Next]_vars

(* As in RegexPool: a thread in a call goes on, and tests addresses between *)
(* two calls of the lock.                                                  *)
Fairness == /\ WF_vars(~exited /\ Load)
            /\ \A t \in Threads : /\ WF_vars(~exited /\ Step(t))
                                  /\ SF_vars(~exited /\ Test(t))
                                  /\ WF_vars(~exited /\ Come(t))

FairSpec == Spec /\ Fairness

-------------------------------------------------------------------------------
(* Properties *)

TypeOK ==
  /\ LoopTypeOK /\ cmd \in CommandLines
  /\ file \in 1..Len(cmd.files) + 1
  /\ nth \in Nat \ {0} /\ added \in Nat /\ has_suffix \in BOOLEAN
  /\ tree \subseteq Ranges \X Patterns
  /\ suffix \in SuffixValues \cup {NoSuffix}
  /\ npatterns \in Nat /\ found \in Nat /\ generation \in Nat
  /\ difficulty \in Int
  /\ address \in [Threads -> Addresses]
  /\ match \in [Threads -> Patterns \cup SuffixValues \cup {NoSuffix}]
  /\ reports \in [Patterns \cup SuffixValues -> Nat]

\* The patterns that are searched for.
Live == {e[2] : e \in tree} \cup (IF SuffixOnly THEN {suffix} ELSE {})

\* The ranges in the tree are disjoint, and each pattern of it has all its ranges:
\* no case variant of a pattern is missed, none outlives the pattern.
TreeWhole ==
  /\ \A e, f \in tree : e[1] = f[1] => e = f
  /\ \A e \in tree : EntriesOf(e[2]) \subseteq tree

\* vc_npatterns is the number of prefixes still searched for.
CountsPatterns == Loaded /\ Plain => npatterns = Cardinality(Live)

\* The difficulty is that of the ranges in the tree, after any removals.
DifficultyAgrees == Plain => difficulty = Width * Cardinality(tree)

\* Whether a pattern is one of a file without -i.
Spelled(p) == \E k \in DOMAIN cmd.files : /\ p \in ToSet(cmd.files[k].patterns)
                                      /\ ~cmd.files[k].insensitive

\* What a reader of the pattern expects an address it is reported for to be.
Matches(p, a) == /\ Needs[p] # {} => a.range \in Needs[p]
                 /\ SuffixOf[p] # NoSuffix => a.suffix = SuffixOf[p]
                 /\ cmd.kind = "ETH" /\ Spelled(p) => a.exact

\* A match about to be reported is one: the address has the pattern's prefix, its
\* suffix and, unless case is ignored, its spelling, whatever other threads have
\* removed since the address was computed.
ReportsMatch ==
  \A t \in Threads : pc[t] = "matched" =>
    IF match[t] \in Patterns THEN Matches(match[t], address[t])
    ELSE address[t].suffix = match[t]

\* Without -k and -1 every pattern is reported at most once, and searched for until
\* then.
FoundOnce == cmd.remove_on_match /\ ~cmd.only_one =>
  \A m \in DOMAIN reports : reports[m] <= 1 /\ (reports[m] = 1 => m \notin Live)

\* With -a the process ends at the match asked for; with -1 no thread goes on after a
\* match of its own.
AmountNotExceeded == /\ cmd.numpairs >= 1 => found <= cmd.numpairs
                     /\ cmd.only_one => found <= Cardinality(cmd.threads)

\* The tree, the number of patterns and the difficulty agree, after any refused variants and
\* any removals.
PoolWhole == TypeOK /\ TreeWhole /\ CountsPatterns /\ DifficultyAgrees

\* Matches that meet are counted right: a pattern once, and no more than -1 and -a allow.
ReportsCounted == FoundOnce /\ AmountNotExceeded

(* The promise of a search (PatternSearch), which this one keeps: patterns are open *)
(* while they are in the tree, or their suffix is all there is.                     *)
Sees == [t \in Threads |-> IF pc[t] \in {"hit", "waiting", "matched"} THEN {match[t]} ELSE {}]

Stopped == {t \in cmd.threads : pc[t] \in {"out", "gone"}}

Abstract == INSTANCE PatternSearch WITH
  Items <- Patterns \cup SuffixValues, Unfit <- {},
  kept <- ~cmd.remove_on_match \/ cmd.only_one, amount <- cmd.numpairs,
  once <- cmd.only_one, loading <- ~Loaded, open <- Live, sees <- Sees,
  stopped <- Stopped, ended <- exited

\* No match is dropped while its pattern is searched for, none is reported of a pattern
\* that is not, the process ends when and only when it should, and every match that waits
\* is looked at again.
ImplementsPatternSearch == Abstract!Spec
===============================================================================
