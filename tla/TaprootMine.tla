----------------------------- MODULE TaprootMine -----------------------------
(***************************************************************************)
(* The standalone taproot programs: taproot/ tests random keys one by one, *)
(* splittaproot/ walks from a random key, optimized/ does so with threads  *)
(* that share a stop flag and a count. The last two also mine for a key    *)
(* that is shared: Bob walks from Alice's public key with his part of the  *)
(* private key, and the two parts are combined later. A point is the       *)
(* multiple of the generator it is; a point and its negative have the same *)
(* x, one of them an odd y; the tweak is a hash of x; an address is the x  *)
(* of the output point.                                                    *)
(***************************************************************************)
EXTENDS Integers, FiniteSets

CONSTANTS Order, Odd,          \* of the group; its points with an odd y
          Tweak,               \* the hash of an x
          Wanted,              \* addresses that match the pattern
          AliceKeys,           \* what Alice's private key may be
          Programs, nthreads, stop_after,
          MaxKeys              \* bound: keys of a thread

Scalars == 1 .. Order - 1
X(k) == IF k <= Order - k THEN k ELSE Order - k

NoAddress == 0

ASSUME TaprootAssumption ==
  /\ {Order, nthreads, stop_after, MaxKeys} \subseteq Nat \ {0} /\ Order > 1
  /\ Odd \subseteq Scalars /\ \A k \in Scalars : k \in Odd <=> Order - k \notin Odd
  /\ Tweak \in [{X(k) : k \in Scalars} -> Scalars]
  /\ AliceKeys \subseteq Scalars /\ NoAddress \notin Wanted
  /\ Programs \subseteq {"taproot", "split", "optimized"}

VARIABLES program, mode_split, alice, base,     \* what is run, Alice's key, Bob's first part
          main, started,                        \* the main thread; threads it has made
          stop, found,                          \* of search_ctx_t
          at, scalar, point,                    \* of each thread
          tested,                               \* history: scalars it has tested
          zeroed,                               \* history: its scalar has met the order
          printed                               \* history

config == <<program, mode_split, alice, base>>
vars == <<config, main, started, stop, found, at, scalar, point, tested, zeroed, printed>>

Threads == 0 .. (IF program = "optimized" THEN nthreads ELSE 1) - 1
Stride == Cardinality(Threads)

-------------------------------------------------------------------------------
(* Keys, points and addresses *)

Neg(k) == (Order - k) % Order

\* increment_scalar_mod_order
Incremented(s, delta) == LET k == (s + delta) % Order IN IF k = 0 THEN 1 ELSE k

Even(k) == IF k \in Odd THEN Neg(k) ELSE k

\* compute_taproot_output_from_internal_point, compute_taproot_address_from_pubkey: only
\* optimized/ takes points with an odd y, by their negative. Infinity has no encoding.
Refused(prog, k) == k = 0 \/ (prog # "optimized" /\ k \in Odd)

Output(k) == (Even(k) + Tweak[X(k)]) % Order

Address(prog, k) == IF Refused(prog, k) THEN NoAddress ELSE X(Output(k))

\* --derive of taproot/, derive-internal of splittaproot/, which go by the public key, and
\* of optimized/, which takes the private key that has an even y.
DerivedTaproot(priv) == IF priv \in Scalars THEN Address("taproot", priv) ELSE NoAddress
DerivedSplit(priv) == IF priv = 0 THEN NoAddress ELSE Address("split", priv)
DerivedOptimized(priv) ==
  LET adj == Even(priv)
  IN IF priv \notin Scalars \/ (adj + Tweak[X(adj)]) % Order = 0 THEN NoAddress
     ELSE Address("optimized", adj)

Derived(prog, priv) ==
  CASE prog = "taproot" -> DerivedTaproot(priv)
    [] prog = "split" -> DerivedSplit(priv)
    [] prog = "optimized" -> DerivedOptimized(priv)

\* compute_address_from_tweaked_private
TweakedAddress(tweaked) == X(tweaked)

InternalScalar_Sum(prog, a, b) == (a + b) % Order                 \* mutant

\* run_combine_and_verify: the combined private key, with an even y.
InternalScalar(prog, a, b) ==
  IF prog = "optimized" THEN Even((a + b) % Order) ELSE (a + b) % Order

\* The address of the internal key and the one of the tweaked private key, which it
\* compares.
Combined(prog, a, b) ==
  LET k == InternalScalar(prog, a, b)
      tweaked == (k + Tweak[X(k)]) % Order
  IN IF Address(prog, k) = NoAddress \/ tweaked = 0 THEN <<NoAddress, NoAddress>>
     ELSE <<Address(prog, k), TweakedAddress(tweaked)>>

-------------------------------------------------------------------------------
(* run_parallel_mine *)

Init == /\ program \in Programs
        /\ mode_split \in IF program = "taproot" THEN {FALSE} ELSE BOOLEAN
        /\ alice \in IF mode_split THEN AliceKeys ELSE {0}
        /\ base \in IF mode_split THEN Scalars ELSE {0}
        /\ main = "create" /\ started = 0
        /\ stop = FALSE /\ found = 0
        /\ at = [t \in Threads |-> "none"]
        /\ scalar = [t \in Threads |-> 0] /\ point = [t \in Threads |-> 0]
        /\ tested = [t \in Threads |-> {}] /\ zeroed = [t \in Threads |-> FALSE]
        /\ printed = {}

Create ==
  /\ main = "create"
  /\ IF started < Stride THEN /\ at' = [at EXCEPT ![started] = "setup"]
                              /\ started' = started + 1 /\ UNCHANGED main
                         ELSE main' = "join" /\ UNCHANGED <<at, started>>
  /\ UNCHANGED <<config, stop, found, scalar, point, tested, zeroed, printed>>

\* Those that were made are told to stop.
CreateFails ==
  /\ main = "create" /\ program = "optimized" /\ started < Stride
  /\ stop' = TRUE /\ main' = "join"
  /\ UNCHANGED <<config, started, found, at, scalar, point, tested, zeroed, printed>>

Join ==
  /\ main = "join" /\ \A t \in Threads : at[t] \in {"none", "ended"}
  /\ main' = IF found = stop_after THEN "ok" ELSE "failed"
  /\ UNCHANGED <<config, started, stop, found, at, scalar, point, tested, zeroed, printed>>

-------------------------------------------------------------------------------
(* worker_loop, and the loops of the sequential programs *)

\* Of a thread's first key from the base.
Offset(t) == t

Setup(t) ==
  /\ at[t] = "setup"
  /\ at' = [at EXCEPT ![t] = "top"]
  /\ \E r \in IF mode_split THEN {base} ELSE Scalars :
       /\ scalar' = [scalar EXCEPT ![t] = Incremented(r, t)]
       /\ point' = [point EXCEPT ![t] = IF mode_split THEN (alice + r + Offset(t)) % Order
                                        ELSE scalar'[t]]
       /\ zeroed' = [zeroed EXCEPT ![t] = mode_split /\ (r + t) % Order = 0]
  /\ UNCHANGED <<config, main, started, stop, found, tested, printed>>

\* Memory, randomness or OpenSSL fails.
ThreadFails(t) ==
  /\ at[t] \in {"setup", "next"} /\ at' = [at EXCEPT ![t] = "ended"]
  /\ UNCHANGED <<config, main, started, stop, found, scalar, point, tested, zeroed, printed>>

Top(t) ==
  /\ at[t] = "top"
  /\ IF stop THEN at' = [at EXCEPT ![t] = "ended"] /\ UNCHANGED tested
     ELSE /\ at' = [at EXCEPT ![t] =
                      IF Address(program, point[t]) \in Wanted THEN "record" ELSE "next"]
          /\ tested' = [tested EXCEPT ![t] = @ \cup {scalar[t]}]
  /\ UNCHANGED <<config, main, started, stop, found, scalar, point, zeroed, printed>>

Room == ~stop /\ found < stop_after

\* The scalar that is printed: Bob's part as it is, a private key with an even y.
Shown(t) == IF ~mode_split /\ program = "optimized" /\ point[t] \in Odd
            THEN Neg(scalar[t]) ELSE scalar[t]

Last_Later == found > stop_after                                  \* mutant

\* The count of a match that is the last one.
Last == found + 1 >= stop_after

\* maybe_record_match, under the lock.
Record(t) ==
  /\ at[t] = "record" /\ at' = [at EXCEPT ![t] = "next"]
  /\ IF Room
     THEN /\ printed' = printed \cup
               {[address |-> Address(program, point[t]), secret |-> Shown(t),
                 internal |-> Even(point[t]), by |-> t]}
          /\ found' = found + 1
          /\ stop' = (stop \/ Last)
     ELSE UNCHANGED <<printed, found, stop>>
  /\ UNCHANGED <<config, main, started, scalar, point, tested, zeroed>>

\* How far the scalar and the point go.
Step == Stride

\* taproot/ makes a new key, the others go on by the number of threads.
NewKey(t) ==
  /\ \E r \in Scalars : scalar' = [scalar EXCEPT ![t] = r] /\ point' = [point EXCEPT ![t] = r]
  /\ UNCHANGED zeroed
GoOn(t) ==
  /\ scalar' = [scalar EXCEPT ![t] = Incremented(@, Step)]
  /\ point' = [point EXCEPT ![t] = (@ + Step) % Order]
  /\ zeroed' = [zeroed EXCEPT ![t] = @ \/ (scalar[t] + Step) % Order = 0]

NextKey(t) ==
  /\ at[t] = "next"
  /\ stop \/ Cardinality(tested[t]) < MaxKeys
  /\ at' = [at EXCEPT ![t] = IF stop THEN "ended" ELSE "top"]
  /\ CASE stop -> UNCHANGED <<scalar, point, zeroed>>
       [] ~stop /\ program = "taproot" -> NewKey(t)
       [] OTHER -> GoOn(t)
  /\ UNCHANGED <<config, main, started, stop, found, tested, printed>>

\* A process that has ended, or searches beyond the bound.
Rests ==
  /\ \/ main \in {"ok", "failed"}
     \/ ~stop /\ \E t \in Threads : at[t] = "next" /\ Cardinality(tested[t]) = MaxKeys
  /\ UNCHANGED vars

Main == Create \/ Join
Work(t) == Setup(t) \/ Top(t) \/ Record(t) \/ NextKey(t)

Next == \/ Main \/ CreateFails \/ Rests
        \/ \E t \in Threads : Work(t) \/ ThreadFails(t)

\* Threads are scheduled; neither failures nor matches are owed.
Spec == Init /\ [][Next]_vars /\ WF_vars(Main)
             /\ \A t \in 0 .. nthreads - 1 : WF_vars(t \in Threads /\ Work(t))

-------------------------------------------------------------------------------

\* Types; the point of a thread is that of its scalar (with Alice's key, if shared) as
\* long as the scalar has not met the order, where it skips 0 and the point does not.
TypeOK ==
  /\ main \in {"create", "join", "ok", "failed"} /\ started \in 0 .. Stride
  /\ stop \in BOOLEAN /\ found \in Nat
  /\ at \in [Threads -> {"none", "setup", "top", "record", "next", "ended"}]
  /\ scalar \in [Threads -> 0 .. Order - 1] /\ point \in [Threads -> 0 .. Order - 1]
  /\ \A t \in Threads : at[t] \in {"top", "record", "next"} /\ ~zeroed[t]
                          => point[t] = (alice + scalar[t]) % Order

\* "BTC Privkey" gives the address it is printed with, by --derive of the program itself
\* and of taproot/, which takes even points only (as optimized/test_harness.sh compares).
PrivkeyDerives ==
  ~mode_split => \A r \in printed :
    ~zeroed[r.by] => /\ Derived(program, r.secret) = r.address
                     /\ DerivedTaproot(r.secret) = r.address

\* Alice's key and Bob's part combine to the address Bob has printed, to the internal key
\* he has printed, and the verification is OK.
PartsCombine ==
  mode_split => \A r \in printed :
    ~zeroed[r.by] => /\ Combined(program, alice, r.secret) = <<r.address, r.address>>
                     /\ InternalScalar(program, alice, r.secret) = r.internal

\* Threads that mine from one base share the keys out: none is tested by two.
KeysShared ==
  mode_split /\ (\A t \in Threads : ~zeroed[t]) =>
    \A t, u \in Threads : t # u => tested[t] \cap tested[u] = {}

\* Threads that match together do not print more than was asked for; and success means
\* that much was printed.
AmountKept == /\ found <= stop_after
              /\ main = "ok" => found = stop_after /\ (mode_split => printed # {})

\* What is printed leads back to the address printed, and threads do not repeat each other.
PrintedRight == TypeOK /\ PrivkeyDerives /\ PartsCombine /\ KeysShared

\* Enough matches, or a thread that cannot be made, end all threads and the program, with
\* no more printed than asked for.
StopsAtAmount == /\ (stop \/ found >= stop_after) ~> main \in {"ok", "failed"}
                 /\ []AmountKept
===============================================================================
