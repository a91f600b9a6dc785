----------------------------- MODULE BountyMiner -----------------------------
(***************************************************************************)
(* oclvanityminer.c: the main thread asks a server for bounties (patterns, *)
(* in batches that share a public key), has the devices search the batch   *)
(* of most value, submits what they find, and asks again each time its     *)
(* wait times out. A device tells main through one place for a solution    *)
(* and by halting all devices. It reports with the exclusive hold of the   *)
(* execution-context lock, which it takes for every new key too; a device  *)
(* that has ended keeps its shared hold (OclDevices), so that another that *)
(* then asks for the exclusive one waits for ever.                         *)
(***************************************************************************)
EXTENDS FiniteSetsExt

CONSTANTS Devices, Keys, Patterns,
          Value,           \* of each pattern
          min_value,       \* -m
          Offers,          \* what the server may answer: the patterns of each key
          None,
          MaxFetches, MaxFinds  \* bounds: answers of the server, matches of a device

ASSUME MinerAssumption == /\ Value \in [Patterns -> Nat] /\ min_value \in Nat
                          /\ Offers \subseteq [Keys -> SUBSET Patterns]
                          /\ None \notin Patterns /\ IsFiniteSet(Devices)
                          /\ {MaxFetches, MaxFinds} \subseteq Nat

\* A batch is a new object each time it is fetched.
Batches == [key : Keys, fetch : 1 .. MaxFetches]

VARIABLES pc,                       \* of main
          using,                    \* the devices that could be opened
          fetches,
          items, work, freed,       \* scp->items; what is in a batch; batches freed
          pkb, active_pkb, thread_started,
          base, patterns,           \* vc_pubkey_base and the patterns of the context
          vc_halt, soln,
          dev, wants,               \* each device; what it asks the exclusive hold for
          finds,
          submitted                 \* history

serverstate == <<fetches, items, freed>>
poolstate == <<base, patterns>>
devstate == <<dev, wants, finds>>
vars == <<pc, using, serverstate, work, pkb, active_pkb, thread_started, poolstate,
          vc_halt, soln, devstate, submitted>>

Init == /\ pc = "top" /\ using \in SUBSET Devices \ {{}}
        /\ fetches = 0 /\ items = {} /\ freed = {}
        /\ work = [b \in Batches |-> {}]
        /\ pkb = None /\ active_pkb = None /\ thread_started = FALSE
        /\ base = None /\ patterns = {}
        /\ vc_halt = FALSE /\ soln = None
        /\ dev = [d \in Devices |-> "idle"]
        /\ wants = [d \in Devices |-> None]
        /\ finds = 0
        /\ submitted = {}

-------------------------------------------------------------------------------
(* The server *)

\* server_context_getwork, when the list is empty: an answer replaces it, an error does not.
Fetch ==
  IF items # {} THEN UNCHANGED <<fetches, items, work>>
  ELSE \/ UNCHANGED <<fetches, items, work>>
       \/ /\ fetches < MaxFetches
          /\ fetches' = fetches + 1
          /\ \E offer \in Offers :
               /\ items' = {b \in Batches : b.fetch = fetches' /\ offer[b.key] # {}}
               /\ work' = [b \in Batches |-> IF b.fetch = fetches' THEN offer[b.key]
                                             ELSE work[b]]

TotalValue(b, w) == MapThenSumSet(LAMBDA p : Value[p], w[b])

\* most_valuable_pkb, if it is worth it.
MostValuable(b, bs, w) ==
  /\ b \in bs /\ \A c \in bs : TotalValue(b, w) >= TotalValue(c, w)
  /\ TotalValue(b, w) >= min_value

\* server_pubkeybatch_equal
Equal(a, b, w) == a # None /\ b # None /\ a.key = b.key /\ w[a] = w[b]

-------------------------------------------------------------------------------
(* The main loop *)

StopDue == thread_started /\ (active_pkb = None \/ pkb' # active_pkb)

\* The batch to search is the best of the list, or the active one if that is the same.
Choose ==
  /\ pc = "top"
  /\ Fetch
  /\ \E b \in items' \cup {None} :
       /\ IF b = None THEN \A c \in items' : ~MostValuable(c, items', work')
                      ELSE MostValuable(b, items', work')
       /\ pkb' = IF Equal(active_pkb, b, work') THEN active_pkb ELSE b
  /\ vc_halt' = (vc_halt \/ StopDue)
  /\ pc' = IF StopDue THEN "stop" ELSE "start"
  /\ UNCHANGED <<using, freed, active_pkb, thread_started, poolstate, soln, devstate, submitted>>

HasItem(b) == b # None /\ soln.pattern \in work[b]

\* check_solution, with its assertion that the batch has the pattern; then main goes on.
\* The answer to the submission is not looked at.
CheckSolution(b, then) ==
  IF soln # None /\ ~HasItem(b)
  THEN pc' = "aborted" /\ UNCHANGED <<work, submitted, soln>>
  ELSE /\ pc' = then
       /\ soln' = None
       /\ IF soln = None THEN UNCHANGED <<work, submitted>>
          ELSE /\ work' = [work EXCEPT ![b] = @ \ {soln.pattern}]
               /\ submitted' = submitted \cup {[soln |-> soln, key |-> b.key]}

AllStopped_Any == TRUE                                             \* mutant

\* vg_context_wait_for_completion
AllStopped == \A d \in using : dev[d] = "ended"

CheckAtStop == active_pkb # None

\* vg_context_stop_threads returns.
Stop ==
  /\ pc = "stop" /\ AllStopped
  /\ vc_halt' = FALSE
  /\ thread_started' = FALSE
  /\ IF CheckAtStop THEN CheckSolution(active_pkb, "start")
     ELSE pc' = "start" /\ UNCHANGED <<work, submitted, soln>>
  /\ active_pkb' = None
  /\ patterns' = {}
  /\ UNCHANGED <<using, serverstate, pkb, base, devstate>>

Start ==
  /\ pc = "start"
  /\ IF pkb # None /\ active_pkb = None
     THEN /\ base' = pkb /\ patterns' = work[pkb]
          /\ active_pkb' = pkb
          /\ thread_started' = TRUE
          /\ dev' = [d \in Devices |-> IF d \in using THEN "rekey" ELSE "idle"]
     ELSE UNCHANGED <<poolstate, active_pkb, thread_started, dev>>
  /\ pc' = "wait"
  /\ UNCHANGED <<using, serverstate, work, pkb, vc_halt, soln, wants, finds, submitted>>

\* vg_context_start_threads fails, and main returns.
StartFails ==
  /\ pc = "start" /\ pkb # None /\ active_pkb = None
  /\ pc' = "over"
  /\ UNCHANGED <<using, serverstate, work, pkb, active_pkb, thread_started, poolstate,
                 vc_halt, soln, devstate, submitted>>

LooksFirst == soln # None

\* A solution that is there already is not waited for.
Wait ==
  /\ pc = "wait"
  /\ pc' = IF LooksFirst THEN "check" ELSE "asleep"
  /\ UNCHANGED <<using, serverstate, work, pkb, active_pkb, thread_started, poolstate,
                 vc_halt, soln, devstate, submitted>>

\* By the broadcast of a device, or by chance.
Woken ==
  /\ pc = "asleep"
  /\ pc' = "check"
  /\ UNCHANGED <<using, serverstate, work, pkb, active_pkb, thread_started, poolstate,
                 vc_halt, soln, devstate, submitted>>

Check ==
  /\ pc = "check"
  /\ CheckSolution(active_pkb, "top")
  /\ active_pkb' = IF soln = None THEN active_pkb ELSE None
  /\ UNCHANGED <<using, serverstate, pkb, thread_started, poolstate, vc_halt, devstate>>

Saved_None == {}                                                   \* mutant

Saved == {active_pkb}

\* free_pkb_tree, so that the list is fetched anew.
TimedOut ==
  /\ pc = "asleep"
  /\ freed' = freed \cup (items \ Saved)
  /\ items' = {}
  /\ pc' = "top"
  /\ UNCHANGED <<using, fetches, work, pkb, active_pkb, thread_started, poolstate,
                 vc_halt, soln, devstate, submitted>>

-------------------------------------------------------------------------------
(* A device: it asks for the exclusive hold for a new key and for a match *)

Alive == pc \notin {"aborted", "over"}

Is(d, to) == dev' = [dev EXCEPT ![d] = to]

devunchanged == <<pc, using, serverstate, work, pkb, active_pkb, thread_started, poolstate>>

\* With no patterns the thread ends.
Rekey(d) ==
  /\ Alive /\ dev[d] = "rekey"
  /\ IF patterns = {} THEN Is(d, "ended") /\ UNCHANGED wants
     ELSE Is(d, "asks") /\ wants' = [wants EXCEPT ![d] = None]
  /\ UNCHANGED <<devunchanged, finds, vc_halt, soln, submitted>>

Match(d) ==
  /\ Alive /\ dev[d] = "search"
  /\ finds < MaxFinds
  /\ finds' = finds + 1
  /\ \E p \in patterns : wants' = [wants EXCEPT ![d] = p]
  /\ Is(d, "asks")
  /\ UNCHANGED <<devunchanged, vc_halt, soln, submitted>>

\* No other device has ended with its shared hold.
Exclusive(d) == \A e \in using \ {d} : dev[e] # "ended"

\* output_match_work_complete replaces a solution that main has not looked at yet. The
\* pattern stays among those searched for.
Granted(d) ==
  /\ Alive /\ dev[d] = "asks" /\ Exclusive(d)
  /\ IF wants[d] = None THEN UNCHANGED <<soln, vc_halt>>
     ELSE /\ soln' = [pattern |-> wants[d], key |-> base.key]
          /\ vc_halt' = TRUE
  /\ Is(d, "flag")
  /\ UNCHANGED <<devunchanged, wants, finds, submitted>>

\* The flag is read before the next round and after each match; a new key may be due.
ReadHalt(d) ==
  /\ Alive /\ dev[d] \in {"search", "flag"}
  /\ IF vc_halt THEN Is(d, "ended") ELSE Is(d, "rekey") \/ (dev[d] = "flag" /\ Is(d, "search"))
  /\ UNCHANGED <<devunchanged, wants, finds, vc_halt, soln, submitted>>

-------------------------------------------------------------------------------

Main == Choose \/ Stop \/ Start \/ Wait \/ Check \/ TimedOut

Device(d) == Rekey(d) \/ Match(d) \/ Granted(d) \/ ReadHalt(d)

\* main waits for a device that waits for the hold of one that has ended.
Hung == pc = "stop" /\ \E d \in using : dev[d] = "asks" /\ ~Exclusive(d)

Rests == (~Alive \/ Hung) /\ UNCHANGED vars

Next == Main \/ Woken \/ StartFails \/ Rests \/ \E d \in using : Device(d)

\* The wait times out and devices go on; matches are not owed.
Spec == /\ Init /\ [][Next]_vars
        /\ WF_vars(Choose) /\ WF_vars(Stop) /\ WF_vars(Start) /\ WF_vars(Wait)
        /\ WF_vars(Check) /\ WF_vars(Woken \/ TimedOut)
        /\ \A d \in Devices : WF_vars(d \in using /\ (Rekey(d) \/ Granted(d) \/ ReadHalt(d)))

-------------------------------------------------------------------------------

Searching(d) == dev[d] \in {"rekey", "asks", "search", "flag"}

TypeOK ==
  /\ pc \in {"top", "stop", "start", "wait", "asleep", "check", "aborted", "over"}
  /\ using \subseteq Devices /\ fetches \in 0 .. MaxFetches
  /\ items \subseteq Batches /\ freed \subseteq Batches
  /\ work \in [Batches -> SUBSET Patterns]
  /\ {pkb, active_pkb, base} \subseteq Batches \cup {None}
  /\ patterns \subseteq Patterns
  /\ {thread_started, vc_halt} \subseteq BOOLEAN
  /\ soln \in [pattern : Patterns, key : Keys] \cup {None}
  /\ dev \in [Devices -> {"idle", "rekey", "asks", "search", "flag", "ended"}]
  /\ wants \in [Devices -> Patterns \cup {None}]
  /\ \A d \in Devices : Searching(d) => d \in using /\ thread_started

\* A device never searches with the public key of a batch that a refresh has freed.
BaseAlive == \A d \in Devices : Searching(d) => base \notin freed

\* The patterns and the public key change only when no device searches.
SearchSettled ==
  [][patterns' # patterns \/ base' # base => \A d \in Devices : ~Searching(d)]_vars

\* With one device, a solution is submitted for the public key it was found with. (A second
\* one, whose solution comes after the check of the first, has it looked up in the next
\* batch: if that has the pattern too, it is submitted for the wrong key.)
SubmittedRight == Cardinality(using) = 1 => \A s \in submitted : s.key = s.soln.key

\* With one device, which looks at the flag between two matches, a solution always finds
\* its item, whether it came before, with or after the timeout or a change of the batch.
OneDeviceExact == Cardinality(using) = 1 => pc # "aborted" /\ ~Hung

\* "assert(wip != NULL)" (check_solution): whatever devices there are.
SolutionHasItem == pc # "aborted"

\* main gets to see a solution.
SolutionSeen == soln # None ~> soln = None \/ ~Alive \/ Hung

\* The batch that is searched for, the one on the server's list and the one a solution is
\* looked up in are kept apart through refreshes of the list, but stay those they should be.
BatchesRight == TypeOK /\ BaseAlive /\ SubmittedRight /\ OneDeviceExact

\* The search is stopped before it is given another batch, and a solution is looked at.
HandedOver == SearchSettled /\ SolutionSeen
===============================================================================
