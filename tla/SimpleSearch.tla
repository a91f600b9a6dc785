----------------------------- MODULE SimpleSearch -----------------------------
(***************************************************************************)
(* The search with random keys and no batches: simplevanitygen.c for P2WPKH,*)
(* P2TR and ATOM, and ed25519.c for XLM, which is the same loop with other *)
(* checks. Threads share a halt flag that none locks, and a count of       *)
(* matches under a mutex; each looks itself up in TID, which main fills as *)
(* it goes. main (vanitygen.c) takes the context from malloc and sets      *)
(* neither the flag nor the count, so that both start with any value.      *)
(***************************************************************************)
EXTENDS Naturals, FiniteSets

CONSTANTS nthreads, numpairs,
          HaltValues, FoundValues,       \* what malloc may leave in the context
          MaxKeys                        \* bound: keys of a thread

ASSUME SimpleAssumption ==
  /\ {nthreads, numpairs, MaxKeys} \subseteq Nat \ {0}
  /\ HaltValues \subseteq BOOLEAN /\ FoundValues \subseteq Nat

Threads == 1 .. nthreads
Slots == 1 .. nthreads
NoThread == 0

VARIABLES search,             \* which loop, for what, and where the pattern must be
          main, started,      \* main; how many threads pthread_create has made
          TID, halt, found,
          at, index,          \* of each thread: where it is, its slot
          find_it, made,      \* its flag; how many keys it has made
          kind,               \* what the address of its last key is
          reported            \* history: what has been printed

mainvars == <<search, main, started, TID>>
simpleVars == <<mainvars, halt, found, at, index, find_it, made, kind, reported>>

Searches == [loop : {"simple", "xlm"}, location : {"any", "begin", "end"}, P2TR : BOOLEAN]

SimpleInit == /\ search \in Searches /\ (search.loop = "xlm" => ~search.P2TR)
        /\ main = "create" /\ started = 0
        /\ TID = [s \in Slots |-> NoThread]
        /\ halt \in HaltValues /\ found \in FoundValues
        /\ at = [t \in Threads |-> "none"]
        /\ index = [t \in Threads |-> 0]
        /\ find_it = [t \in Threads |-> FALSE]
        /\ made = [t \in Threads |-> 0]
        /\ kind = [t \in Threads |-> "miss"]
        /\ reported = {}

Alive == main \in {"create", "store", "join"}

-------------------------------------------------------------------------------
(* start_threads: a thread may run before pthread_create has stored its       *)
(* identifier.                                                                *)

Create ==
  /\ main = "create"
  /\ IF started < nthreads
     THEN /\ main' = "store"
          /\ started' = started + 1
          /\ at' = [at EXCEPT ![started'] = "index"]
     ELSE main' = "join" /\ UNCHANGED <<started, at>>
  /\ UNCHANGED <<search, TID, halt, found, index, find_it, made, kind, reported>>

Store ==
  /\ main = "store"
  /\ TID' = [TID EXCEPT ![started] = started]
  /\ main' = "create"
  /\ UNCHANGED <<search, started, halt, found, at, index, find_it, made, kind, reported>>

\* The process ends with the threads it has.
CreateFails ==
  /\ main = "create" /\ started < nthreads
  /\ main' = "failed"
  /\ UNCHANGED <<search, started, TID, halt, found, at, index, find_it, made, kind, reported>>

Join ==
  /\ main = "join" /\ \A t \in Threads : at[t] = "ended"
  /\ main' = "done"
  /\ UNCHANGED <<search, started, TID, halt, found, at, index, find_it, made, kind, reported>>

-------------------------------------------------------------------------------
(* thread_loop *)

KeygenInitFails(t) ==
  /\ Alive /\ at[t] = "index"
  /\ at' = [at EXCEPT ![t] = "ended"]
  /\ UNCHANGED <<mainvars, halt, found, index, find_it, made, kind, reported>>

\* get_thread_index
Own_Any(s, t) == TID[s] # NoThread                                     \* mutant

Own(s, t) == TID[s] = t

FindIndex(t) ==
  /\ Alive /\ at[t] = "index"
  /\ \E s \in Slots : /\ Own(s, t) /\ \A r \in 1 .. s - 1 : ~Own(r, t)
                      /\ index' = [index EXCEPT ![t] = s]
  /\ at' = [at EXCEPT ![t] = "top"]
  /\ UNCHANGED <<mainvars, halt, found, find_it, made, kind, reported>>

ReadHalt(t) ==
  /\ Alive /\ at[t] = "top"
  /\ halt \/ made[t] < MaxKeys
  /\ at' = [at EXCEPT ![t] = IF halt THEN "ended" ELSE "key"]
  /\ UNCHANGED <<mainvars, halt, found, index, find_it, made, kind, reported>>

\* A P2TR key with an odd Y has an empty address: the pattern cannot be at its start or
\* in it, and is compared with what lies before it in memory when it should be at its end.
MatchOf(k) ==
  IF k = "odd" THEN IF search.location = "end" THEN BOOLEAN ELSE {FALSE} ELSE {k = "match"}

\* simplevanitygen.c clears find_it for each key, ed25519.c does not.
Before(t) == search.loop = "xlm" /\ find_it[t]

TestKey(t) ==
  /\ Alive /\ at[t] = "key"
  /\ made' = [made EXCEPT ![t] = @ + 1]
  /\ \E k \in {"match", "miss"} \cup (IF search.P2TR THEN {"odd"} ELSE {}) :
       /\ kind' = [kind EXCEPT ![t] = k]
       /\ \E m \in MatchOf(k) :
            /\ find_it' = [find_it EXCEPT ![t] = Before(t) \/ m]
            /\ at' = [at EXCEPT ![t] = IF Before(t) \/ m THEN "lock" ELSE "top"]
  /\ UNCHANGED <<mainvars, halt, found, index, reported>>

\* simplevanitygen.c gives the thread up; ed25519.c does not look, and goes on without a key.
KeygenFails(t) ==
  /\ Alive /\ at[t] = "key"
  /\ IF search.loop = "simple"
     THEN at' = [at EXCEPT ![t] = "ended"] /\ UNCHANGED main
     ELSE main' = "crashed" /\ UNCHANGED at
  /\ UNCHANGED <<search, started, TID, halt, found, index, find_it, made, kind, reported>>

Enough == found >= numpairs

HaltEnough_Not == halt                                                 \* mutant

\* The flag when there are enough matches already, and after one more.
HaltEnough == TRUE

HaltMatch == TRUE

\* From lock to unlock; nobody else sees found, and halt is set in any case.
Report(t) ==
  /\ Alive /\ at[t] = "lock"
  /\ IF Enough
     THEN /\ halt' = HaltEnough
          /\ at' = [at EXCEPT ![t] = "ended"]
          /\ UNCHANGED <<found, reported>>
     ELSE /\ found' = found + 1
          /\ reported' = reported \cup {[thread |-> t, n |-> made[t], kind |-> kind[t]]}
          /\ halt' = HaltMatch
          /\ at' = [at EXCEPT ![t] = "top"]
  /\ UNCHANGED <<mainvars, index, find_it, made, kind>>

-------------------------------------------------------------------------------

Main == Create \/ Store \/ Join

Loop(t) == FindIndex(t) \/ ReadHalt(t) \/ TestKey(t) \/ Report(t)

Fails == CreateFails \/ \E t \in Threads : KeygenInitFails(t) \/ KeygenFails(t)

\* A process that is over, or searches beyond the bound.
Rests == /\ ~Alive \/ (~halt /\ \E t \in Threads : at[t] = "top" /\ made[t] = MaxKeys)
         /\ UNCHANGED simpleVars

SimpleNext == Main \/ Fails \/ Rests \/ \E t \in Threads : Loop(t)

\* Threads are scheduled; failures and matches are not owed.
SimpleSpec == /\ SimpleInit /\ [][SimpleNext]_simpleVars
              /\ WF_simpleVars(Main) /\ \A t \in Threads : WF_simpleVars(Loop(t))

-------------------------------------------------------------------------------

\* Types; a thread that has its index is in that place of TID.
SimpleTypeOK ==
  /\ search \in Searches
  /\ main \in {"create", "store", "join", "done", "failed", "crashed"}
  /\ started \in 0 .. nthreads
  /\ TID \in [Slots -> Threads \cup {NoThread}]
  /\ halt \in BOOLEAN /\ found \in Nat
  /\ at \in [Threads -> {"none", "index", "top", "key", "lock", "ended"}]
  /\ index \in [Threads -> 0 .. nthreads]
  /\ \A t \in Threads : index[t] # 0 => TID[index[t]] = t
  /\ find_it \in [Threads -> BOOLEAN] /\ made \in [Threads -> 0 .. MaxKeys]
  /\ reported \subseteq [thread : Threads, n : 1 .. MaxKeys, kind : {"match", "miss", "odd"}]

\* A reported key has an address with the pattern where it was asked for, though the loop
\* of ed25519.c never clears find_it: that it is left at once saves it. (What
\* MatchOf compares with an empty address may be anything.)
ReportsMatch ==
  \A r \in reported : r.kind = "match" \/ (search.P2TR /\ search.location = "end")

\* Threads that match at the same time do not report more than was asked for, whatever
\* the count was to begin with.
AmountKept == Cardinality(reported) <= numpairs

\* No two threads count their keys in one place, whichever runs before its identifier is
\* stored.
OwnCounter == \A t, u \in Threads : index[t] # 0 /\ index[t] = index[u] => t = u

\* A match ends the process: every thread sees the flag, also when the match itself came
\* too late to be reported, when a thread's own key generation has failed, or when a
\* thread has not found its index yet.
MatchEnds == (\E t \in Threads : at[t] = "lock") ~> ~Alive

\* Threads that find keys at the same time report matches only, no more than asked for, and
\* count their keys apart.
ReportsRight == SimpleTypeOK /\ ReportsMatch /\ AmountKept /\ OwnCounter
===============================================================================
