# Verification of vanitygen-plusplus

TLA+ models of vanitygen-plusplus, its search engine, its other searches and its
algorithms, model-checked with TLC and, for the state machines and the algorithms on
addresses, proved with TLAPS. Every definition is
translated from the C sources under `src/`; `PROJECT.json` ("map") gives the
lines of each.

## 1. The system

The programs search for key pairs whose address matches a pattern. A *search
context* (`vg_context_t`, `pattern.c`) holds the patterns, *worker threads*
(CPU) or *device threads* (OpenCL) test addresses against it, and one global
*execution-context lock* lets them change the patterns and make keys one at a
time.

| Component | Source | State | Operations | Hard part |
|---|---|---|---|---|
| execution-context lock | `pattern.c` 32-207 | list of contexts, `vxc_lockmode`, `vxc_stop`, `vc_thread_excl`, three condition variables | init, del, yield, upgrade, downgrade | interleavings, lost wakeups, spurious wakeups, upgraders that wait for each other |
| regular expressions | `pattern.c` 2220-2479 | slot array, `vc_npatterns`, generation | add, test with removal | slots and counts read before a wait and used after it |
| prefixes and suffixes | `pattern.c` 1440-2120 | AVL tree of ranges, one suffix, difficulty, counts | add with case variants, test with removal | all-or-nothing insertion, a pattern removed by another thread during the wait, one suffix for all patterns |
| prefix to ranges, case iterator | `pattern.c` 640-1440 | none | `get_prefix_ranges`, iterator | big-number boundaries |
| AVL tree | `avl.h` | tree | insert, remove, balance | rotations |
| CPU search | `vanitygen.c` | per thread: key, delta, point array, counters | `vg_thread_loop`, `start_threads`, `main` | points and key advance apart; end of the order |
| timing, console | `pattern.c` 220-560 | list of rates, progress | | none for the search |
| thread control | `pattern.c` (`vg_context_*_threads`) | `vc_halt`, `vc_thread_excl`, thread count | start, stop, wait | a stop while a device waits |
| OpenCL search, one device | `oclengine.c` | slots, mailbox, strides, results, target table | host loop, kernel thread, check, rekey | two threads and the device on two slots; failures; the walk is kept on both sides |
| OpenCL search, several devices | `oclvanitygen.c`, `oclengine.c` | one context per device on the shared patterns | | the lock is held for whole rounds and after the end |
| bounty miner | `oclvanityminer.c` | work list, active batch, one solution | fetch, choose, stop, start, wait, check | solutions racing refreshes; stopping devices; lines cut by the network |
| simple search, XLM search | `simplevanitygen.c`, `stellar.c`, `ed25519.c` | `TID`, found counter, halt flag | thread loops | unsynchronised flags, an uninitialised context |
| Ed25519 OpenCL search | `oclvanitygen_ed25519.c`, `ocled25519engine.c` | two seed buffers, batch in flight, matches of each thread | start, launch, match, collect, await | which buffer a match belongs to; failing calls |
| kernels | `calc_addrs.cl` | device memory | grid of sums, batch inversion, table search | carries, strides, cells without an inverse |
| encodings, key formats, files | `util.c`, `base32.c`, `bech32.c`, `segwit_addr.c`, `crc16.c`, `stellar.c` | none | encode, decode, read a file | leading zeros, boundaries of blocks |
| standalone taproot tools | `taproot/`, `splittaproot/`, `optimized/` | stop flag, count, scalar and point of each thread | mine, derive, combine | parity of keys; threads that match together |
| start of the OpenCL devices | `oclvanitygen.c`, `oclengine.c` 445-1012, 2672-2935 | the directory with compiled kernels; OpenCL objects | open, load, build, save, check the sizes | a crash while a file is written; two processes that write one; a device that cannot be opened |
| hashes, precomputed tables, portability, key converter | `groestl.c`, `sha3.c`, `precomp_data_ocl.h`, `winglue.c`, `keyconv.c`, ... | | | not modelled |

How they interact: a worker calls `vc_test` for each point. `vc_test` looks at
the shared patterns under the shared hold; on a match it calls
`vg_exec_context_upgrade_lock`, which *gives up* the hold, waits for the
exclusive one, and looks at the patterns again. Result 0 goes on, 1 asks for a
new key, 2 ends the thread. Between batches the worker calls
`vg_exec_context_yield`, where it gives its hold up to a pending upgrade. A
change of the patterns increments `vc_pattern_generation`, by which the OpenCL
host notices that the table of its device is old. `vc_halt` tells OpenCL
threads to end. The bounty miner is a main thread around the OpenCL search: it
gives the context a batch of patterns and a public key, is told of a solution
through one place and a condition variable, and stops and restarts the devices.
The simple search, the XLM search, the Ed25519 OpenCL search and the taproot
tools use neither the context nor the lock and have loops of their own.

## 2. What makes the components correct

* lock: a writer excludes every other hold; no assertion fails; a thread only
  waits if another one is bound to wake it; upgraders precede readers and all
  are served.
* patterns: what is tested is exactly what is still searched for; an address is
  reported for a pattern only if it matches it; a pattern is reported once; the
  number asked for is kept; when nothing is left, every thread ends.
* walk: the private key reported is the one of the point that matched, and valid;
  the points tested follow the key one by one.
* trees, ranges, arithmetic, encodings, files: each gives what its definition
  says, for all inputs.
* other searches: a printed key belongs to the address that matched; a match is
  printed once and no more than asked for; a match, a signal or a failure ends
  every thread.
* miner: a solution is submitted for the public key it was found with; no batch
  is used after it was freed; every solution is looked at.
* start: a binary that is read was written whole; a device that could not be opened
  leaves nothing behind.
* device: host and kernel thread never write and read a slot at the same time,
  never wait for each other, agree about where a result starts, and end when
  told to.

`PROJECT.json` ("hazards") lists what can go wrong, at its line, with the
properties that cover it.

## 3. Modules

State machines:

| Module | Models | State and actions against the code |
|---|---|---|
| `SharedExclusive` | what the lock promises: the abstract specification | `hold`, `pending`; GetShared, DropShared, Request, Grant, RequestGranted, Finish |
| `ExecLock` | the lock, for any set of threads | a critical section of the mutex is one action; `pc` tells which `pthread_cond_wait` a thread is in, `woken` which waiters a signal has released (they still have to get the mutex). Register = `_init`; SeeStop, Yield = the unlocked look at `vxc_stop` and the yield; UpgradeFirst, UpgradeLater, Drained, Dequeued = `_upgrade_lock` around its two waits; DowngradeLast, DowngradeToNext = `_downgrade_lock`; Del = `_del`; Unpark = the end of a wait on `vg_thread_rdcond`; SpuriousWakeup |
| `PatternSearch` | what a search promises: the abstract specification of both pools | `open` (what is searched for), `sees` (the match a thread has), `stopped`, `found`, `reports`, `ended`; Load, Look, Report, End |
| `WorkerLoop` | a thread of `vanitygen.c` as a user of the lock | `vg_thread_loop` between its calls of the lock, over `SharedExclusive`; `exited` is the end of the process with `main` |
| `RegexPool` | `vg_regex_context_add_patterns`, `vg_regex_test` | extends `WorkerLoop`. Test = a scan up to a match, Upgraded = the check after the wait with its `restart_loop`, Report = report, removal and the rest of the scan |
| `PrefixPool` | `vg_prefix_context_add_patterns`, `vg_prefix_test`, suffix checks | extends `WorkerLoop`. Load = one pattern of a file (AddPattern: AddUnsuffixed with AddVariants, AddSuffixed with AddSuffixOnly; `nth` and `added` are the loop's `i` and `npfx`), or the end of a file (EndFile); Test, Upgraded, Report as above |
| `KeyWalk` | the walk of one thread | Rekey, NextBatch, Miss, Match (`vg_exec_context_consolidate_key`), MatchedGoOn, Stop; a point is the multiple of the generator it is |
| `OclPipeline` | one OpenCL device in prefix mode | host: Upload, NewKey, Check, Yielded, Prepare, Submit, Drained, StopKernel, Stopped, Leave, CheckFails, HostFails...; kernel thread: KernelTop, Compute, ComputeFails; other devices: OthersRemove; SetHalt |
| `OclDevices` | several devices over lock and patterns | extends nothing, instantiates `SharedExclusive`; one round is one step |
| `DeviceStart` | the opening of devices by `main`, beside other processes with the same directory | Open, OpenFails = `vg_ocl_init`; LoadSource, LoadBinary, LoadShort, Build, SkipSave, OpenFile, Write, Close, Unlink, CreateKernels, CreateFails = `vg_ocl_load_program`, with a file that grows block by block; GridFits, GridFails = the rest of `vg_ocl_context_new`; Die = the process is killed |
| `OclSearch` | `oclvanitygen` with several devices, from its start | composes `DeviceStart` and `OclDevices` |
| `BountyMiner` | `oclvanityminer.c` | main: Fetch and Choose (`server_context_getwork`, `most_valuable_pkb`), Stop, Start, Wait, Woken, Check (`check_solution`), TimedOut (`free_pkb_tree`); a device: Rekey, Match, Granted (`output_match_work_complete`), ReadHalt. A batch is a new object with each fetch, `freed` the ones a refresh has freed |
| `SimpleSearch` | the loops of `simplevanitygen.c` and `ed25519.c` and their start by `vanitygen.c` | Create, Store = `pthread_create` and its store of the identifier; FindIndex = `get_thread_index`; ReadHalt, TestKey, Report = one turn of the loop, Report from lock to unlock |
| `Ed25519Search` | `oclvanitygen_ed25519.c`, the start of `ocled25519engine.c` | EngineCall, EngineFails = the calls of `ocl_ed25519_init`, each with what it makes and releases; FirstBatch, Launch, Look, Miss, Hit (`match_thread_func`), Joined, PrintOne and NextThread (the printing loops, one match at a time; `shown` is where they are), Collected, Await, Finish; Signalled = the handler |
| `TaprootMine` | the three standalone taproot programs | Create, Setup, Top, Record (`maybe_record_match`), NextKey, Join; Derived, Combined are the commands that take a key again. A point is its discrete logarithm; which points have an odd y, and the tweak, are constants |

Algorithms, each an operator beside the definition it is checked against:

| Module | Models | Checked against |
|---|---|---|
| `Numerals` | big numbers of OpenSSL as the code uses them: powers, digits of a number and the number of digits, leading zeros, filling up to a length | what it computes is proved; used by `PrefixRanges` and `Base58` |
| `AvlTree` | `avl.h`, with links and marks, and the walks and searches of `pattern.c` | a balanced, linked, ordered tree of the entries put in |
| `PrefixRanges` | `get_prefix_ranges`, the case iterator, `vg_prefix_get_difficulty` | the set of addresses whose spelling has the prefix; all variants of case; the share of such addresses |
| `KernelField` | the words of `calc_addrs.cl`: sums, differences, Montgomery products, inverses | arithmetic modulo P |
| `GridKernel` | `ec_add_grid`, `heap_invert`, the coordinates of `hash_ec_point`, the verification of `-V` | the chord of two points of the curve |
| `KernelMemory` | strided memory on both sides, the sizes of its buffers | every word has a place of its own, in the buffer |
| `KernelSearch` | the kernel's table search and suffix tests, the entries the host puts into the table | membership in a range; the host's own tests |
| `WildcardPattern` | the patterns of the Ed25519 search | matching as a glob; the share of addresses that match |
| `TextLines` | `vg_read_file`, `server_body_reader` | the lines of the whole text |
| `Base58`, `ByteCodes`, `Bech32` | Base58 with checksum, Base32, Base64url, CRC-16, TON cells, seeds counted on, ranges of hexadecimal prefixes, Bech32 and segwit addresses | what is written is read back, and only that |
| `AddressAlgorithms` | nothing of its own: composes `PrefixRanges`, `KernelSearch` and `Base58` over an input of any length | states the two properties about them that are checked for short inputs and proved for all |
| `PrivkeyCodes` | private keys, plain, compressed, hexadecimal, protected | the key read back, or refused where it should be |

The theorems about a module are in the module of the same name with `_proofs`; those
about `PrefixPool` and `RegexPool` are together in `PatternPools_proofs`, those about
`OclPipeline`, `OclDevices` and `DeviceStart` in `OclSearches_proofs`, those about
`KeyWalk` and `SimpleSearch` in `CpuSearches_proofs`, those about `AddressAlgorithms` and
`KernelMemory` in `Algorithms_proofs`. An `MC` module gives the constants of a run values
where that takes definitions; `ExecLock`, `Ed25519Search` and `OclPipeline` are run without.

Composition: `ExecLock` implements `SharedExclusive` (checked with liveness,
proved for safety); `WorkerLoop` and `OclDevices` use `SharedExclusive` in the
place of the lock; `RegexPool` and `PrefixPool` compose `WorkerLoop` with the
patterns, and implement `PatternSearch` (checked with liveness, proved for
safety). `KeyWalk` is the inside of the loop that `WorkerLoop` leaves out: its
state is the thread's own, so it needs no other thread. Likewise `OclPipeline`
is the inside of a round of `OclDevices`, and in `OclSearch` the devices of
`OclDevices` are those that `DeviceStart` has opened; several devices implement
`PatternSearch` too. `BountyMiner` has its own, smaller view
of the devices: when one asks for the exclusive hold, and that one that has ended
keeps its shared one. `PrefixRanges` and `AvlTree` are what `PrefixPool` takes
as given, `GridKernel` and `KernelSearch` what Compute of `OclPipeline` does.

Some atomicity choices. The fields of the lock except a thread's own stop flag
are only touched with the mutex, so a critical section is one action; the read
of the flag without the mutex is SeeStop, apart from Yield. A test of a pattern
runs with a hold of the lock from end to end, except in the wait of an upgrade;
nobody changes the patterns meanwhile, so that the part before the wait is one
action and the part after it another. A thread that got the exclusive hold from
a match keeps it for the rest of the batch, as in the code, until its next
yield. In `OclPipeline` a hold is not represented: OthersRemove is enabled
exactly where the host is in a call of the lock (GivesHoldUp). In the searches
without the lock each read of a shared flag and each section under a mutex is an
action of its own.

## 4. Runs

| Run | Instance | Question |
|---|---|---|
| `lock` | 4 threads, spurious wakeups on the looped waits | mutual exclusion, assertions, readers after upgraders, every upgrade served, implements `SharedExclusive` with its liveness |
| `regex` | three patterns (one of them too wide for `re_vec`) and one thread; one pattern and three threads; `-1`; `-a 2` | SlotsWhole: no slot is freed and live, or lost; found once, amounts kept; implements `PatternSearch` with its liveness: no match is dropped while its pattern is open, each is looked at again, the process ends when it should |
| `prefix` | two threads; overlapping prefixes with case variants from two files; a combined pattern, alone and beside one without suffix; a suffix alone; `-1`; `-a 2` | PoolWhole: tree, count and difficulty agree; reports are matches, once; amounts; implements `PatternSearch` with its liveness |
| `walk` | 23 points, batches of 3, at most 11 points per key, all keys | reported key, no point left out or tested twice, whole batches, valid keys, keys replaced |
| `ocl` | 2 patterns, 2 points per round, up to 10 per key, failing calls, other devices, halts | MailboxKept: assertions, no deadlock; buffers not written while read; ResultRight: host in step with the device, stale results not taken; host ends |
| `devices` | 2 devices, one of them without binaries, another process that opens a device of the same kind as the other one, binaries of 2 blocks, crashes; 2 patterns, stop | StartsRight: without a crash files are whole once nobody writes, and unless a device was lost the threads are those of the devices opened; found once; several devices keep the promise of `PatternSearch`; a waiting device is served unless another has ended |
| `ed25519` | 2 work items of 2 keys, 3 matching threads with room for one match, 3 matches asked for, 4 batches, all failures | MatchesRight: the seed printed is the one that matched; NoneLost; KeysFresh; EndsClean |
| `simple` | 3 threads, 2 keys each, 2 matches asked for, both loops, all locations, any initial flag and count | ReportsRight, MatchEnds |
| `miner` | 1 or 2 devices, 2 public keys, 3 patterns of which both keys may have the same, 2 answers of the server, 3 matches | BatchesRight: no freed batch is used; with one device no solution is late and each belongs to its key; HandedOver: the search is stopped before it gets another batch, and solutions are seen |
| `taproot` | a group of 13 points, 2 threads, 4 keys each, 2 matches, all base keys, with and without Alice | PrintedRight: keys lead back to addresses, parts combine, keys are shared out; StopsAtAmount |
| `algorithms` | see below | one property for each algorithm or family of encodings |
| `miner_late` | as `miner` | *violation*: the assertion of `check_solution` |

The bounds, and why they are enough:

* **Threads.** The lock distinguishes the upgrader in turn, queued upgraders,
  holders and parked readers. Four threads give one of each; two queued
  upgraders with a reader occur too. The proofs remove the bound. In the pools
  three threads give two that wait for the lock while one reports. With several
  patterns and several threads SlotsWhole of `RegexPool` does not hold (section 6),
  which is why `regex` takes them one at a time.
* **Patterns and addresses.** An address is the set of expressions it matches,
  or the range it lies in, its suffix and whether its letters are spelled alike:
  all that a test looks at. Three slots have a first, a middle and a last one, as
  removal needs. Ranges are of equal width, `Width` = 100 and `SuffixBase` = 10,
  so that the division is exact.
* **Walk.** With `Order` = 23 and `RekeyMax` = 11 keys near the order get shorter
  intervals than `RekeyMax`, including 1 and 2, shorter than a batch of 3; 11 is
  not a multiple of 3 so that last batches are cut short. `Base` = 0 in the run,
  arbitrary in the proofs.
* **Device.** Two slots are the code's own number. Ten points per key allow four
  rounds of two, so each slot is used twice with one key and again with the next.
  Two patterns: one can go and one stay.
* **Start.** Two blocks are the least for a file that is neither empty nor whole, also one
  whose first block another process has cut off. With two processes both may find no
  file, compile and write it together, one may die and the other come after it; the
  second device of `main` is without binaries. Three processes would add a second
  writer beside a reader, whose load is one step.
* **Ed25519.** Four keys for three threads do not divide evenly: the last thread
  has two, and with room for one match may overflow. Four batches use each seed buffer twice, and once after a
  reseeding.
* **Simple.** Three threads may find a match at once when two are asked for. The
  initial values of `found` include one below, at and above the number.
* **Miner.** Two answers let a batch be refreshed while it is active, by an equal
  one, a part of it or nothing; one key with two patterns has a second solution
  after the first, also when the next batch has that pattern too; values on both sides
  of `min_value`.
* **Taproot.** In a group of 13 points a walk of four keys passes the order, an
  x belongs to two points, neighbours have equal and different parity, and the
  tweak may cancel a key.
* **Algorithms.** All inputs up to a length: prefixes of four digits of base 7
  over three bytes of 16 values (the number of digits of an address varies with
  its leading zeros as with 58 and 256), letters with one, two or no digit case;
  residues modulo 61 in three words of two bits, so that every carry and both
  final subtractions happen; a grid of two by two in strides of two; tables of
  two ranges; patterns of five characters; files of nine characters in blocks of
  four; answers of seven characters cut anywhere; keys of two bytes of nine
  values below an order of 79; eleven entries for the tree, nine of them disjoint,
  enough for both kinds of rotation on the way up from an insertion or a removal. Bech32, Base32, CRC-16 and the cell have the
  code's own sizes and bytes chosen at the limits.
* `generation` and `found` grow by removals and reports only and are bounded by
  the patterns, or by the number asked for. `MaxKeys`, `MaxBatches`, `MaxFetches`
  and `MaxFinds` are bounds of the model; where one is reached the search rests,
  which the liveness properties allow for only before a match or an end is due.

No symmetry is used: liveness is checked in most runs and the main thread is
distinguished. Deadlock checking is on except where the code stops: `walk`, after
the loop ended, and `devices`, where a device hangs (see 6).

### Fairness

* Lock: weak fairness of SeeStop, of the steps of a thread inside a call, of
  Downgrade, and of Del once a thread is leaving: the loops yield after every
  batch, and downgrade after each exclusive section. No fairness of Register,
  upgrades or of leaving.
* Pools: weak fairness of the steps a thread takes inside a call and of its
  return to the lock. *Strong* fairness of Test: the loop tests a batch between
  two calls of the lock, so that a thread that has its hold again and again does
  test; with weak fairness it could make keys for ever and test none. Nothing
  says what addresses come: no property requires a match.
* Walk: weak fairness of the loop, none of Match and Stop.
* Device: the two threads are scheduled and a kernel ends. Failures and halts have no
  fairness. Devices: as in the pools, with strong fairness of getting the shared
  hold (`pthread_cond_broadcast` releases all waiters, and the mutex is assumed
  not to starve one).
* Miner: main's steps, the end of its timed wait, and the steps of a device other
  than finding a match. Ed25519, simple, taproot: the threads are scheduled and a
  kernel ends; failures, signals and matches are not owed.
* The algorithms are functions of their inputs; their run has no liveness.

## 5. Proofs

`tlapm` checks every theorem to the last leaf; they hold for all values of the
constants. None of the properties is inductive by itself: for each module the
invariant adds what the code relies on and nowhere says. TLC checked each invariant on
the instance of the run before it was proved.

| Module | Theorems | Hypotheses beside the constants' assumption |
|---|---|---|
| `ExecLock_proofs` | TypeCorrect, MutualExclusion, Assertions, WakeupsKept, UpgradersGoFirst, Refinement | QueuedWaitsForSignal, but for types |
| `CpuSearches_proofs` | TypeCorrect, ReportIsRight, NoneSkipped, BatchIsWhole, ReportedKeyValid, EveryPointHasAddress (the walk); Reports (the simple searches) | KeysInRange, for the walk |
| `PatternPools_proofs` | PoolStaysWhole, ReportsAreCounted, ReportedMatch, Refinement; SlotsAreWhole, RegexReportsAreCounted, RegexRefinement | OneSuffix and OneCase, for ReportedMatch; LoneSuffix, for Refinement; Alone, for those about regular expressions |
| `OclSearches_proofs` | TypeCorrect, MailboxUse, BuffersStayQuiet, RoundsInStep; DevicesReportOnce, DevicesRefinement, DevicesStartRight | DeviceDecides, for RoundsInStep |
| `Ed25519Search_proofs` | AllReleased, KeysComputedOnce, NothingLost, SeedsRenewed, PrintedIsMatched | |
| `BountyMiner_proofs` | BatchesStayRight, SettledSearch | |
| `Algorithms_proofs` | AddressesWritten from PrefixRangesRight and Base58RoundTrip; KernelAgrees from KernelSearchRight, KernelSuffixRight, KernelHexSuffixRight and KernelEntryRight; LayoutApart, LayoutFits | LayoutAssumed, for the last two |
| `TaprootMine_proofs` | NoMoreThanAsked, PrintedLeadsBack | NoWrap, for PrintedLeadsBack |

**ExecLock_proofs.** `LockAssumption` (finite set of threads). `TypeCorrect`
needs nothing else. The other theorems assume `QueuedWaitsForSignal`, that the
wait that the code does not put in a loop returns only on a signal: without it
they are false (section 6). The invariant `IInv` adds:

* *ControlAgrees*: a thread's lock mode follows from where it is, and
  `vc_thread_excl` is the number of upgraders (here the cardinality lemmas
  CountUpgraders, CountAdded, CountRemoved are used);
* *OneInTurn*: while upgrades are pending exactly one thread drains, writes or has
  been released from the queue, which is why a released upgrader need not look at
  the holders;
* *StopsAgree*: flags are set for holders only, while one drains, and for all of
  them while upgrades are pending;
* *WaitersAwaited*: parked readers have an upgrader, a draining upgrader a holder.

There is one lemma per action (`...KeepsIInv`); `Invariance` puts them together.
From it follow the other theorems, and `Refinement`: every step of the lock is a step of
`SharedExclusive` or a stutter (UpgradeFirst is Request or RequestGranted, Drained
and Dequeued are Grant or a stutter, Unpark and Yield are GetShared or DropShared
or a stutter).

**CpuSearches_proofs.** The walk: `WalkAssumption` (sizes, a batch shorter than the order) and
`KeysInRange`: keys below the order, which holds without `-Z`.
`IInv` relates the array to the key: entry *j* is the point of *key + base +
(delta - i) + j*, *delta* never passes the interval, and a batch shorter than the
array is the last one of its key. The simple searches: `SimpleInv`, a thread's slot is its
own once `pthread_create` has stored it, the mutex has one holder, and a report is made
only with it and while the count is below the number.

**PatternPools_proofs.** The prefixes first: any finite sets of ranges and threads, any patterns, files and
command lines. `PoolInv` consists of:

* *LockInv*: who has the exclusive hold is alone and has it until its downgrade; a thread
  that has found a match has a hold until it waits;
* *HitInv*: what such a thread has found it would find again now. Only a report changes
  the tree, and the lock keeps reports apart from hits: this is the reason for the second
  test after the wait, and why a mutant without it fails;
* *TreeInv*: whole patterns in disjoint ranges (PoolWhole's tree), from the command line;
* *CountInv*: `npatterns + added` covers the patterns of the tree, is at least 1 for a
  suffix alone, and without suffixes is their number, and the difficulty is the width of
  the tree: what the removals subtract is what the loads have added;
* *LoadInv*, *SuffixInv*: no thread runs before the last file; the suffix is one given.

`PoolStaysWhole` follows. `ReportsAreCounted` adds *OnceInv* (what was reported is in the
tree no longer, and cannot come back: the files are read before) and *AmountInv* (each
match with `-1` has cost a thread). `ReportedMatch` has two hypotheses, each the negation
of something section 6 lists: `OneSuffix`, that the suffixes given are one, and nothing
is removed from patterns of which one has it; `OneCase`, that an Ethereum file with `-i`
does not come last after one without.

`Refinement` maps a search for prefixes to `PatternSearch`: patterns are open while they
are in the tree, or the suffix while it is all there is. What is missing for that is
*SeenInv*, that a match that waits for the lock is found again as long as its pattern is
open: then a thread that finds nothing after the wait has lost nothing. A report of
another thread could spoil it, since it takes the suffix of the context away: with
`LoneSuffix` (an Ethereum pattern with a suffix is the only one, or nothing is removed;
weaker than `OneSuffix`) no pattern is left that goes by it, and without it the
refinement fails (section 6). There is one lemma per kind of step (LoadMaps, WalkMaps,
LookMaps, UpgradedMaps, ReportMaps).

The second half of the module is about `RegexPool`, whose lock and loop are the same:
it is an instance over the same variables, so that LockInv, AmountInv and the lemmas
about them (LockStep, LoopKeepsLock, LoopMoves, AmountStep) are proved once. `RegexInv`
adds *ScanInv*: a thread with a match knows the slots as they are (`nres` is the number of
live slots, slot `i` has the expression `re`), or it waits and there are none; and
*GoneInv*: what was reported is live no longer. ScanInv is where the hypothesis `Alone`
is needed: a search that removes what it has found has one thread or one pattern. It is
what the code takes for granted, as the slot count is not read again after a wait, and
with two of each the invariant and the theorems are false (section 6, `pattern.c:2435`).
Searches that remove nothing (`-k`, `-a`, and `-1`, which ends the thread first) have any
number of both. *RegexRemoval* is the algebra of the removal: the last slot in the place
of the matched one leaves the live patterns without it, each once. `RegexRefinement`
needs no more than RegexInv: a thread that finds its slot changed finds it empty.

**OclSearches_proofs.** For one device, `PipeInv` says who may touch a slot: *MailboxInv*, the mailbox
names the slot that runs and it is never the one the host prepares or checks;
*ParkedInv*, who waits has a reason that another will end; *CountInv*, the points made
so far and the row of the last round. `StepInv` adds where the rounds start (*PlaceInv*):
as long as the key is good the strides of the rounds that wait follow the host's place;
a result is of the round its slot was prepared for (*FoundInv*), and none is worked on
after a halt (*HaltSeen*).
`RoundsInStep` assumes `DeviceDecides`: a host that refuses a match for its case loses
the place (section 6).

The other half is about an instance of `OclSearch`. `DevicesInv` says that a pattern
reported is searched for no longer, that the generation and the patterns that are left
make up all of them (with the cardinality of a set less one element), that a device that
is to end tests no more, and that nobody is stopped where nobody stops threads.
`DevicesReportOnce` follows: every step but a report leaves the patterns as they are
(*Steady*). `DevicesRefinement` maps the devices to `PatternSearch`, which here never ends
its process: a device sees the pattern it is about to report, and has stopped when its
loop is to end or has ended. A match is found again after the wait or given up as its
pattern is gone (*SettleMaps*, *RefusedMaps*), and a device stops only where nothing is
left or after a report with `-1` (*StopMaps*); with `Stops` it may stop at any time, since
`vc_halt` is no part of the promise, so that the part about stopping says something of
searches that are not stopped. The lock matters to neither: what a device tests and
removes with the exclusive hold is one step, which the lock's own theorems justify.

`StartInv` is about the processes that open devices: *SlotsRight*, where the devices of a
process stand (not reached: nothing of it is there; the one that is opened: in the list,
with the objects made so far; tried: lost, or in the list and with objects if it was
counted); *OwnersRight*, a file has the name of the device it was made for, and so has the
one a process writes; *CacheInv*, a block a file lacks is one that a process with that file
open has still to write, or the file's name is about to be removed. CacheInv holds although
two processes may write the same file, since the one that opens it again has all blocks
to write; it fails only when a process dies.

**Ed25519Search_proofs.** `BatchInv`: which buffer has the seeds of which batch at every
place of the main loop, with the batch in flight one ahead; the engine's objects are
those made so far. `FoundInv`: each thread's matches are of its part of the batch and as
many as were counted (*MatchInv*, *CountInv*), and what it has gone past was tested
(*TestedInv*). `ReseedInv`: a printed key is of an older reading of the random source
than the batch after the one in flight. `KeysComputedOnce` is the action property
KeysFresh.

**BountyMiner_proofs.** `MinerInv`: *BatchInv*, devices search with the key of the active
batch while they run, and a batch that was freed is not active; *OneInv*, with one
device its solution waits for main and the device for the lock, so that the batch is
still the one it was found in. The attempt for several devices gave the counterexample
of section 6. `SettledSearch` is the action property in HandedOver.

**Algorithms_proofs.** Every input, base, size of byte and length of address, and tables of any
number of ranges. The algorithms are recursive functions, and what one computes for every
number takes induction. The library's induction theorems have a statement as a parameter,
which the provers cannot fill in; here a statement about numbers is *the set of those it
holds for* (`Least`, `Induction`), which they can. `Recursion` says that a recursive function
obeys its equation, `Counting`, `StepInduction` and `AppendInduction` are the cases that come
up: sums over positions, loops, a sequence longer by one. From there:

* *Numerals*: powers add and grow, a number has the digits `Digits` gives and no others, and
  these are as many as its place between two powers says (`NumberOfDigits`, `DigitsOfNumber`,
  `DigitsBetween`, `NumberConcat`).
* *Base58*: the zeros a text begins with are the zero bytes, the rest is the number
  (`Conversion`); the scan of `vg_b58_decode_check` skips spaces and nothing else
  (`UnspacedSteps`). So what is written is read back, and what is read is what would be written.
* *The kernel's search*: after each round the range of the hash, if there is one, is between
  the two ends (*Narrowed*), and the ends come closer. Words compared from the most significant
  are numbers compared (*Order*).
* *Suffixes*: the remainder after each byte is that of the bytes so far (`RemainderSteps`), and
  no product passes a `ulong`: nine digits of base 58 times a byte are less than 2^64, which
  is `SearchAssumption`. A mask of an odd number of digits looks at half of one byte
  (`MaskRule`).
* *Entries*: a hash has its bytes at the same places of the table whether the host's number has
  leading zero bytes or not.
* *Ranges of prefixes*: with the first digit of a prefix and that of the greatest address
  (*Bounding*), an address between two powers of the base that are two apart has one of two lengths
  (`TwoLengths`), and those of a length that begin with it are an interval (*Begins*).
  So `Ranges` are the addresses spelt with the prefix, and the assertion that the longer range
  is there if the shorter is below the floor (`check_upper`) holds. All this for
  every type of address; the run has the sixteen of its instance.

What is assumed of the constants, beside sizes above 1 and more byte values than digits:
`CeilingAssumption`, that no greatest address with some number of leading zeros has the
digit 58 in front, and that no least one is one below a multiple of the base;
TLC evaluates it for the instance, and it holds for 58, 256 and 25 bytes. `AddressesAssumption`: an address
has at least as many bytes as a `ulong` and does not begin with 0. The addresses in the ranges
are exactly those of the type that are spelt with the prefix *and have one of the two greatest
lengths* of addresses with as many leading zeros (TwoLongest): there may be three, in the run
as in the program, and `get_prefix_ranges` looks at two (section 6).

*The kernels' memory.* Two facts about an instance of `KernelMemory`. Word `i` of the number that begins
at `r` in bundle `q` lies at `(q NWORDS + i - 1) STRIDE + r` (*InBundle*), so that a place gives
`r`, `i` and `q` back as remainders and quotients, which are unique (*Unique*, *WordsApart*).
A coordinate's `r` is below half the stride for an x and not for a y, which is
`LayoutApart`; a cell before the last needs no bundle beyond the rounded size, which is
`LayoutFits`. Both assume `LayoutAssumed`, of which the code has the case `NWORDS = 8`,
`STRIDE = 128`. They are about integers without limit: `32 * 2 * round` is an `int` in the code
and too small for a grid (`grid=`) of 2^25 points or more. PointsRight checks the same for strides
of 2, 4 and 6.

**TaprootMine_proofs.** A group of any order greater than 1, any subset of points with an
odd y and any tweak. `MineInv`: a thread's point is that of its scalar, whatever sign the
base has been given. `KeysInv`: the keys of a thread are its offset and those a stride
apart. `PrintedLeadsBack` needs `NoWrap`, that all threads together make no more keys
than the group has: the walk goes wrong at its end (section 6).

**Model-checked only.** Liveness (UpgraderServed, KeyReplaced,
HaltEnds, ServedOrLeft (in KeepsPromise), the rest of HandedOver, MatchEnds, StopsAtAmount, the first part
of EndsClean) and the liveness half of the refinements: the prover has no means
for fairness. Of the algorithms: TreeRight, PointsRight, PatternsAsMeant and CodesReadBack.
The tree's rotations, the coordinates of points and the globs are inductions over
structures that nothing prepared yet; Base32, CRC-16, Bech32 and the kernels' words use
`Bitwise`, which the prover cannot take. SlotsWhole, the ReportsCounted of `RegexPool` and
`OclDevices`, and StartsRight are proved, by SlotsAreWhole, RegexReportsAreCounted,
DevicesReportOnce and DevicesStartRight, under the hypotheses of the table, of an instance of
the module.

## 6. Where code and documentation disagree

One has a run and an entry under "findings":

* `miner_late`: with two devices, a solution that comes after its item was taken
  out makes the assertion `src/oclvanityminer.c:743` fail. The proof of BatchesRight
  showed the other half: if it comes after the next batch was chosen and that has the
  same pattern, it is submitted for the public key of that batch. SubmittedRight is
  therefore about one device.

The following were found by TLC as counterexamples in the same way. The
definition named is in its module; the instance that violates it is given. The
properties the runs check are limited accordingly, at the place where they are
stated.

| Code | What happens | Definition and instance |
|---|---|---|
| `pattern.c:96` | the wait on `vg_thread_wrcond` is not in a loop; a spurious wakeup lets the assertion of line 99 fail | QueuedWakesAlone of `ExecLock`, `Spurious` with `"queued"`, 3 threads |
| `pattern.c:2435` | after the wait `vg_regex_test` uses the slot count of before, and a freed expression is live again | LiveSlotsIntact of `RegexPool`, 2 patterns and 2 threads |
| `pattern.c:2088` | removing one combined pattern takes the suffix of all away | ReportsMatch of `PrefixPool`, 2 combined patterns for TRX; ImplementsPatternSearch, a combined pattern and another for ETH: a match that waited is dropped, its pattern still in the tree |
| `oclengine.c:1731` | a result refused for its case moves the host's key, not the device's walk | HostInStep of `OclPipeline`, `CaseSensitive = TRUE` |
| `oclengine.c:2202` | the generation is read after the wait, the table was loaded before | TableCurrent of `OclPipeline`, `Others = TRUE` |
| `oclengine.c:2697` | a device that fails in `vg_ocl_init` is freed without `vg_ocl_del`: its context stays in `vc_threads` with its shared hold, `vg_context_start_threads` makes a thread of it, and if the next `malloc` returns the same place the list has no end; `oclvanitygen.c:545` says "Could not open device '%s', ignoring" | Ignored of `DeviceStart`, 2 devices |
| `oclengine.c:861` | after a crash while the binary is written each later start reads the short file and gives the device up, without compiling | OpensAgain of `DeviceStart`, 2 processes |
| `oclengine.c:2429` | a device's thread ends with the shared hold; with `-1` a second device waits for ever | EndsWhenTold of `OclDevices`, `OnlyOne = TRUE` |

Known besides, seen while modelling:

* *Amounts.* With `-1` each thread may report one match of its own. In the simple
  search every match halts all threads (`simplevanitygen.c:286`), so that `-a` is
  not kept (`vanitygen.c:335`), and its context is used uninitialised
  (`vanitygen.c:718`): the flag may be set or the count reached before the first
  key.
* *Patterns.* A regular expression with more captures than `re_vec` has room for
  ends the thread at its first match. The count is one too high with a suffix
  alone, and the difficulty of combined patterns goes wrong with a removal:
  CountsPatterns and DifficultyAgrees are about prefixes without suffixes. The
  flag that ignores case is the one of the last file. `goto fail` while adding
  leaves patterns already added in the tree, uncounted. `prefix_case_iter_init`
  compares with `>` (`pattern.c:1307`), one character too far.
  `vg_prefix_get_difficulty` counts the difference of both ends, one too few: a
  prefix as long as an address has difficulty 0. Addresses of type 1 (`-X 1`), and some of
  type 2, have 33 digits, and `get_prefix_ranges` has ranges of 34 and 35 only: prefixes
  of theirs are refused as not possible. Patterns of the Ed25519
  search longer than any address are searched for without end, and the difficulty of TON
  patterns with wildcards ignores the characters every address has.
* *Keys.* Keys made with `-Z` may be above the order or carry into the prefix.
  In `optimized/` a walk that passes the order skips scalar 0 and not its point.
* *Start.* A binary of 128 KiB, or that times a power of two, is never loaded: the buffer
  is full, the end of the file not yet seen, and the next read is "short"
  (`oclengine.c:743`). `vg_ocl_del` does not release the kernels. `main` frees the last
  device only, with a null pointer if that one could not be opened
  (`oclvanitygen.c:575`).
* *OpenCL.* The last round of a key is waited for but the other slot is checked,
  so its results are lost; a host thread that ends after a failed map leaves the
  kernel thread running (hence `pc # "gone"` in AssertionsHold); with two devices
  `vg_context_stop_threads` may hang, which is why ServedOrLeft (in KeepsPromise) and HandedOver
  have their second disjuncts. A cell whose column and row have equal x spoils
  the inverses of its batch, and `-V` reports it as a mismatch.
* *Ed25519.* A thread that has 64 matches in a batch leaves its part
  (`oclvanitygen_ed25519.c:650`). Two batches may be of one reading of the random
  source after a match, the second being in flight, though `:871` says the seeds
  are replaced "to prevent correlation". Lack of memory at `:836` ends the
  program without releasing anything.
* *Formats.* `vg_read_file` loses a last line without an end of line, adds an
  empty pattern when a block begins with an end of line, and stops at a line that
  fills a block. `vg_protect_crypt` checks its group with `>`, one too many
  (`util.c:716`). `vg_decode_privkey_any` calls `vg_protect_decode_privkey`
  without a password only to learn its format, which sets the key all the same
  (`util.c:1076`). The result of `hex_dec` is not looked at (`util.c:1066`). The
  protected format keeps neither compression nor types other than 128 and 239;
  compressed TRX keys are written in Base58 and read as hexadecimal.

## 7. Not modelled

* `pthread_create` and allocation failures, except in the simple search and the
  taproot tools; the parsing of options; output.
* The mode in which the host tests all hashes of a device (`OclDevices` has it as
  `TableSearch = FALSE`, no run uses it). The list of platforms and devices. The
  patching of AMD binaries, which `vg_ocl_get_quirks` never asks for. `DeviceStart`
  takes it that the OpenCL library refuses a binary that is not whole, and that the
  same name stands for the same binary.
* Data races between the work items of a kernel: a result of mixed halves has a
  hash that the host does not confirm and is dropped like none.
* Hashes (vendored), the curve arithmetic of the Ed25519 kernel (vendored
  tables and field code), precomputed tables (generated), PKCS#8 keys (one call
  of OpenSSL), `keyconv` (a command line around `util.c`), HTTP (libcurl),
  portability, the list of rates that is printed.
* In the pools, suffixes with invalid syntax and impossible prefixes are left out
  of what is loaded.

## 8. Plan

Done, in this order: the lock with its abstract specification and proofs; the
worker loop with the regular expressions and with the prefixes; the walk with its
proofs; one OpenCL device; several; the tree, prefix ranges, kernels, patterns
and encodings; the Ed25519 search, the simple searches, the bounty miner, the
taproot tools; the proofs about these six, and about the prefixes; the start of the
devices; the abstract specification of a search, with the proofs that prefixes, regular
expressions and several devices keep it; the proofs about the start of the devices and the
kernels' memory; induction, and with it the proofs about Base58, the kernel's search and
the ranges of prefixes.

Next, in the order of what matters most:

1. `OclPipeline`: that a device alone keeps the promise of a search, with the cells of
   a round in the place of patterns.
2. The rest of what `Numerals` is enough for: the variants of case and the difficulty of a
   prefix (`PrefixRanges`); with `Bitwise` kept apart, private keys (`PrivkeyCodes`) and the sums
   and Montgomery products of the kernels (`KernelField`).
3. `AvlTree`: that an insertion and a removal keep the tree ordered and balanced.
