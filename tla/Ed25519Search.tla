---------------------------- MODULE Ed25519Search ----------------------------
(***************************************************************************)
(* The search for Ed25519 addresses with OpenCL (oclvanitygen_ed25519.c,   *)
(* ocled25519engine.c). The device computes the public keys of one batch   *)
(* while threads of the host match those of the batch before. A batch has  *)
(* keys_per_item keys for each of global_size seeds; seeds are read from   *)
(* the random source at first and after a match, else counted on. A key is *)
(* named by what it was derived from: the reading of the random source,    *)
(* the work item, and how far its seed has been counted on.                *)
(***************************************************************************)
EXTENDS Naturals, FiniteSets, Sequences

CONSTANTS global_size, keys_per_item, nthreads,
          MaxFound,               \* -a
          MaxMatchesPerThread,    \* MAX_MATCHES_PER_THREAD
          MaxBatches              \* bound: batches of a behaviour

ASSUME SearchAssumption ==
  {global_size, keys_per_item, nthreads, MaxFound, MaxMatchesPerThread, MaxBatches}
    \subseteq Nat \ {0}

Items == 0 .. global_size - 1
Keys == 0 .. global_size * keys_per_item - 1        \* total_keys
Workers == 0 .. nthreads - 1
None == <<>>

VARIABLES pc,               \* of the main thread
          stage, held,      \* ocl_ed25519_init: the next call; what has been created
          seeds, cur,       \* the two seed buffers, the one of pubkeys
          pubkeys, device,  \* the host's public keys; those the device computes
          found, reseed_needed, g_stop,
          batch_found, work,                 \* the counter and the threads of a batch
          shown,            \* the printing loops: the thread, and how many of its matches
          draws, batches,   \* readings of the random source, batches matched
          printed, hits,    \* history: matches printed, addresses that match
          overrun           \* history: a thread had no room for a match

enginevars == <<stage, held>>
buffervars == <<seeds, cur, pubkeys, device, draws, reseed_needed>>
matchvars == <<batch_found, work, hits, overrun>>
resultvars == <<found, printed, batches, shown>>
vars == <<pc, g_stop, enginevars, buffervars, matchvars, resultvars>>

Key(buffer, i, n) == [draw |-> buffer[i].draw, item |-> i, n |-> buffer[i].n + n]

-------------------------------------------------------------------------------
(* ocl_ed25519_init: each call that can fail, what it creates, and what is    *)
(* released when it fails.                                                    *)

Engine_KeepsProgram ==                                             \* mutant
  << [makes |-> {}, releases |-> {}],
     [makes |-> {"ctx"}, releases |-> {}],
     [makes |-> {"queue"}, releases |-> {"ctx"}],
     [makes |-> {}, releases |-> {"queue", "ctx"}],
     [makes |-> {"program"}, releases |-> {"queue", "ctx"}],
     [makes |-> {}, releases |-> {"queue", "ctx"}],
     [makes |-> {"kernel"}, releases |-> {"program", "queue", "ctx"}],
     [makes |-> {"seeds_buf"}, releases |-> {"kernel", "program", "queue", "ctx"}],
     [makes |-> {"pubkeys_buf"},
      releases |-> {"seeds_buf", "kernel", "program", "queue", "ctx"}] >>

\* Platform and device; context; queue; kernel file; program; its build; kernel; buffers.
Engine ==
  << [makes |-> {}, releases |-> {}],
     [makes |-> {"ctx"}, releases |-> {}],
     [makes |-> {"queue"}, releases |-> {"ctx"}],
     [makes |-> {}, releases |-> {"queue", "ctx"}],
     [makes |-> {"program"}, releases |-> {"queue", "ctx"}],
     [makes |-> {}, releases |-> {"program", "queue", "ctx"}],
     [makes |-> {"kernel"}, releases |-> {"program", "queue", "ctx"}],
     [makes |-> {"seeds_buf"}, releases |-> {"kernel", "program", "queue", "ctx"}],
     [makes |-> {"pubkeys_buf"},
      releases |-> {"seeds_buf", "kernel", "program", "queue", "ctx"}] >>

EngineCall ==
  /\ pc = "init"
  /\ held' = held \cup Engine[stage].makes
  /\ stage' = stage + 1
  /\ pc' = IF stage = Len(Engine) THEN "first" ELSE "init"
  /\ UNCHANGED <<g_stop, buffervars, matchvars, resultvars>>

EngineFails ==
  /\ pc = "init"
  /\ held' = held \ Engine[stage].releases
  /\ pc' = "done"
  /\ UNCHANGED <<g_stop, stage, buffervars, matchvars, resultvars>>

\* ocl_ed25519_free releases whatever is there.
Cleanup == held' = {} /\ stage' = stage

-------------------------------------------------------------------------------
(* The device: ed25519_generate counts each item's seed on, one by one.       *)

Generated(buffer) ==
  [k \in Keys |-> Key(buffer, k \div keys_per_item, k % keys_per_item)]

Drawn == [i \in Items |-> [draw |-> draws + 1, n |-> 0]]

Advanced_One(buffer) == [i \in Items |-> [buffer[i] EXCEPT !.n = @ + 1]]   \* mutant

Advanced(buffer) == [i \in Items |-> [buffer[i] EXCEPT !.n = @ + keys_per_item]]

FirstBatch ==
  /\ pc = "first"
  /\ seeds' = [seeds EXCEPT ![0] = Drawn]
  /\ draws' = draws + 1
  /\ pubkeys' = Generated(seeds'[0])
  /\ pc' = "top"
  /\ UNCHANGED <<g_stop, enginevars, cur, device, reseed_needed, matchvars, resultvars>>

FirstFails ==
  /\ pc = "first"
  /\ pc' = "done" /\ Cleanup
  /\ UNCHANGED <<g_stop, buffervars, matchvars, resultvars>>

-------------------------------------------------------------------------------
(* One round of the main loop. *)

KeysPerThread == Cardinality(Keys) \div nthreads
StartK(t) == t * KeysPerThread

EndK_Even(t) == (t + 1) * KeysPerThread                            \* mutant

EndK(t) == IF t = nthreads - 1 THEN Cardinality(Keys) ELSE (t + 1) * KeysPerThread

\* The loop's condition.
Going == ~g_stop /\ found < MaxFound

Quota == MaxFound - found

NextBuffer == 1 - cur

\* The seeds of the next batch go into the other buffer and to the device, and the
\* threads start on this one.
Launch ==
  /\ pc = "top" /\ Going
  /\ batches < MaxBatches
  /\ seeds' = [seeds EXCEPT ![NextBuffer] =
                 IF reseed_needed THEN Drawn ELSE Advanced(seeds[cur])]
  /\ draws' = IF reseed_needed THEN draws + 1 ELSE draws
  /\ reseed_needed' = FALSE
  /\ device' = Generated(seeds'[NextBuffer])
  /\ batch_found' = 0
  /\ work' = [t \in Workers |-> [at |-> "look", k |-> StartK(t), matches |-> <<>>]]
  /\ pc' = "match"
  /\ UNCHANGED <<g_stop, enginevars, cur, pubkeys, hits, overrun, resultvars>>

LaunchFails ==
  /\ pc = "top" /\ Going
  /\ pc' = "done" /\ Cleanup
  /\ UNCHANGED <<g_stop, buffervars, matchvars, resultvars>>

\* After the loop everything is freed.
Finish ==
  /\ pc = "top" /\ ~Going
  /\ pc' = "done" /\ Cleanup
  /\ UNCHANGED <<g_stop, buffervars, matchvars, resultvars>>

\* match_thread_func: the look at the common counter, apart from the test it precedes.
Look(t) ==
  /\ pc = "match" /\ work[t].at = "look"
  /\ work' = [work EXCEPT ![t].at =
                IF work[t].k < EndK(t) /\ batch_found < Quota THEN "test" ELSE "ended"]
  /\ UNCHANGED <<pc, g_stop, enginevars, buffervars, batch_found, hits, overrun, resultvars>>

Miss(t) ==
  /\ pc = "match" /\ work[t].at = "test"
  /\ work' = [work EXCEPT ![t].at = "look", ![t].k = @ + 1]
  /\ UNCHANGED <<pc, g_stop, enginevars, buffervars, batch_found, hits, overrun, resultvars>>

SeedOf_Next(k) == Key(seeds[NextBuffer], k \div keys_per_item, k % keys_per_item) \* mutant

SeedOf(k) == Key(seeds[cur], k \div keys_per_item, k % keys_per_item)

Hit(t) ==
  /\ pc = "match" /\ work[t].at = "test"
  /\ hits' = hits + 1
  /\ IF Len(work[t].matches) >= MaxMatchesPerThread
     THEN /\ work' = [work EXCEPT ![t].at = "ended"]
          /\ overrun' = TRUE
          /\ UNCHANGED batch_found
     ELSE /\ work' = [work EXCEPT
                        ![t].matches = Append(@, [seed |-> SeedOf(work[t].k),
                                                  pubkey |-> pubkeys[work[t].k],
                                                  batch |-> batches]),
                        ![t].k = @ + 1, ![t].at = "look"]
          /\ batch_found' = batch_found + 1
          /\ UNCHANGED overrun
  /\ UNCHANGED <<pc, g_stop, enginevars, buffervars, resultvars>>

\* All threads have ended and been joined.
Joined ==
  /\ pc = "match" /\ \A t \in Workers : work[t].at = "ended"
  /\ shown' = [t |-> 0, m |-> 0]
  /\ pc' = "print"
  /\ UNCHANGED <<g_stop, enginevars, buffervars, matchvars, found, printed, batches>>

\* Their matches are printed, thread by thread, up to the number asked for; one that is
\* printed asks for new seeds.
Left == shown.t < nthreads /\ found < MaxFound

PrintOne ==
  /\ pc = "print" /\ Left
  /\ shown.m < Len(work[shown.t].matches)
  /\ found' = found + 1
  /\ reseed_needed' = TRUE
  /\ printed' = printed \cup {work[shown.t].matches[shown.m + 1]}
  /\ shown' = [shown EXCEPT !.m = @ + 1]
  /\ UNCHANGED <<pc, g_stop, enginevars, seeds, cur, pubkeys, device, draws, matchvars, batches>>

NextThread ==
  /\ pc = "print" /\ Left
  /\ shown.m = Len(work[shown.t].matches)
  /\ shown' = [t |-> shown.t + 1, m |-> 0]
  /\ UNCHANGED <<pc, g_stop, enginevars, buffervars, matchvars, found, printed, batches>>

Collected ==
  /\ pc = "print" /\ ~Left
  /\ batches' = batches + 1
  /\ pc' = "await"
  /\ UNCHANGED <<g_stop, enginevars, buffervars, matchvars, found, printed, shown>>

Await ==
  /\ pc = "await"
  /\ pubkeys' = device /\ device' = None
  /\ cur' = NextBuffer
  /\ pc' = "top"
  /\ UNCHANGED <<g_stop, enginevars, seeds, draws, reseed_needed, matchvars, resultvars>>

AwaitFails ==
  /\ pc = "await"
  /\ pc' = "done" /\ Cleanup
  /\ UNCHANGED <<g_stop, buffervars, matchvars, resultvars>>

\* sig_handler, set up before the first batch.
Signalled ==
  /\ pc \notin {"init", "done"} /\ ~g_stop
  /\ g_stop' = TRUE
  /\ UNCHANGED <<pc, enginevars, buffervars, matchvars, resultvars>>

Ended == pc = "done" /\ UNCHANGED vars

-------------------------------------------------------------------------------

Init == /\ pc = "init" /\ stage = 1 /\ held = {}
        /\ seeds = [b \in 0 .. 1 |-> [i \in Items |-> [draw |-> 0, n |-> 0]]]
        /\ cur = 0 /\ draws = 0 /\ reseed_needed = FALSE
        /\ pubkeys = None /\ device = None
        /\ found = 0 /\ printed = {} /\ batches = 0 /\ shown = [t |-> 0, m |-> 0]
        /\ g_stop = FALSE
        /\ batch_found = 0 /\ hits = 0 /\ overrun = FALSE
        /\ work = [t \in Workers |-> [at |-> "ended", k |-> 0, matches |-> <<>>]]

Match(t) == Look(t) \/ Miss(t) \/ Hit(t)

Fails == EngineFails \/ FirstFails \/ LaunchFails \/ AwaitFails

Main == \/ EngineCall \/ FirstBatch \/ Launch \/ Finish
        \/ Joined \/ PrintOne \/ NextThread \/ Collected \/ Await

Next == Main \/ Fails \/ Signalled \/ Ended \/ \E t \in Workers : Match(t)

\* The threads are scheduled and a kernel ends. Signals and failures are not owed.
Spec == Init /\ [][Next]_vars /\ WF_vars(Main) /\ \A t \in Workers : WF_vars(Match(t))

-------------------------------------------------------------------------------

\* A seed, a key, a match.
Seeds == [draw : 0 .. draws, n : Nat]
DerivedKeys == [draw : 0 .. draws, item : Items, n : Nat]
Matches == [seed : DerivedKeys, pubkey : DerivedKeys, batch : 0 .. batches]

\* Types; the host's public keys are those of the current seeds, the device's those of the
\* other buffer.
TypeOK ==
  /\ pc \in {"init", "first", "top", "match", "print", "await", "done"}
  /\ stage \in 1 .. Len(Engine) + 1
  /\ {g_stop, reseed_needed, overrun} \subseteq BOOLEAN
  /\ {found, batches, draws, batch_found, hits} \subseteq Nat
  /\ seeds \in [0 .. 1 -> [Items -> Seeds]] /\ cur \in 0 .. 1
  /\ pubkeys = None \/ pubkeys \in [Keys -> DerivedKeys]
  /\ device = None \/ device \in [Keys -> DerivedKeys]
  /\ pubkeys # None => pubkeys = Generated(seeds[cur])
  /\ device # None => device = Generated(seeds[NextBuffer])
  /\ work \in [Workers -> [at : {"look", "test", "ended"}, k : 0 .. Cardinality(Keys),
                          matches : Seq(Matches)]]
  /\ printed \subseteq Matches
  /\ shown \in [t : 0 .. nthreads, m : Nat]

\* The seed that is printed is the one whose public key matched, though the seeds of the
\* next batch are already made when it is looked up.
SeedIsTheKeys ==
  /\ \A m \in printed : m.seed = m.pubkey
  /\ \A t \in Workers : \A i \in 1 .. Len(work[t].matches) :
                        work[t].matches[i].seed = work[t].matches[i].pubkey

\* Unless enough was found or a thread had no room, each key of a batch is tested, by
\* one thread.
WholeBatchTested ==
  (pc = "await" /\ batch_found < MaxFound - (found - batch_found) /\ ~overrun) =>
    \A k \in Keys : Cardinality({t \in Workers : StartK(t) <= k /\ k < work[t].k}) = 1

\* No more than asked for is printed, each once; the search ends by itself only then; and
\* a match that was found is printed unless there are enough.
AmountKept ==
  /\ found <= MaxFound /\ Cardinality(printed) = found
  /\ pc = "top" /\ ~overrun => found = IF hits < MaxFound THEN hits ELSE MaxFound

\* A key is computed once: a batch does not repeat keys of the batches before it.
KeysFresh ==
  [][device' # None /\ device' # device =>
       \A k, j \in Keys : /\ device'[k] # pubkeys[j]
                          /\ device'[k].draw = pubkeys[j].draw => device'[k].n > pubkeys[j].n
                          /\ device'[k].draw >= pubkeys[j].draw]_vars

\* After a match the seeds are read anew: keys printed from one reading of the random
\* source come from the batch of the first match or the one then in flight.
Reseeded == \A p, q \in printed : p.pubkey.draw = q.pubkey.draw => p.batch <= q.batch + 1

\* A printed key is the one that matched, and keys of later matches are of another reading
\* of the random source.
MatchesRight == TypeOK /\ SeedIsTheKeys /\ Reseeded

\* Neither a key of a batch nor a match is lost or counted twice.
NoneLost == WholeBatchTested /\ AmountKept

\* A signal ends the search; and however it ends, also after a call that failed, the OpenCL
\* objects that were created are released.
EndsClean == /\ g_stop ~> pc = "done"
             /\ [](pc = "done" => held = {})
===============================================================================
