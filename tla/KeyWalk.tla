------------------------------- MODULE KeyWalk -------------------------------
(***************************************************************************)
(* How a worker thread walks through private keys (vg_thread_loop in       *)
(* vanitygen.c, with vg_exec_context_consolidate_key of pattern.c).  It    *)
(* makes a random key, and tests the points of that key and of those that  *)
(* follow it, a batch of points at a time; a point is the one before it    *)
(* plus the generator, so no private key is computed until one is to be    *)
(* reported, as key + vxc_delta.  All state is the thread's own.           *)
(*                                                                         *)
(* A point of the curve is the number below Order it is a multiple of the  *)
(* generator by: 0 is the point at infinity.  Arrays start at 0, as in C.  *)
(***************************************************************************)
EXTENDS Naturals

CONSTANTS Order,          \* the number of points
          Keys,           \* the private keys a new key is chosen from: all
                          \* below Order, or with -Z those with the prefix
          Base,           \* vc_pubkey_base (-P), 0 without it
          RekeyMax,       \* rekey_max
          BatchSize       \* ptarraysize

ASSUME WalkAssumption ==
  /\ Order \in Nat \ {0} /\ RekeyMax \in Nat \ {0} /\ BatchSize \in Nat \ {0}
  /\ BatchSize < Order
  /\ Base \in 0..Order - 1
  /\ Keys \subseteq 1..2 * Order - 1     \* 256 bits, Order > 2^255

VARIABLES pc,             \* "top" of the loop, "test", "matched" or "out"
          key, delta,     \* vxc_key, vxc_delta
          npoints, rekey_at, nbatch, i, points,
          origin, tested  \* history: the key last made, points since

vars == <<pc, key, delta, npoints, rekey_at, nbatch, i, points, origin, tested>>

Indices == 0..BatchSize - 1

Init == /\ pc = "top"
        /\ key = 0 /\ delta = 0
        /\ npoints = 0 /\ rekey_at = 0 /\ nbatch = 0 /\ i = 0
        /\ points = [j \in Indices |-> 0]
        /\ origin = 0 /\ tested = 0

\* EC_POINT_add, for two points: the sum modulo Order.
Wrap(n) == IF n >= Order THEN n - Order ELSE n

Lesser(m, n) == IF m <= n THEN m ELSE n

\* The point an address is made from, given its private key.
PointOf(k) == Wrap(Wrap(k) + Base)

-------------------------------------------------------------------------------

\* BN_get_word of the order minus the key, whose sign it drops, and at most RekeyMax.
RekeyAt_Late(k) == RekeyMax                                        \* mutant

RekeyAt(k) == Lesser(RekeyMax, IF k > Order THEN k - Order ELSE Order - k)

\* The length of the first batch of a key. The code makes one point, and then more.
FirstBatch(at) == IF at <= 1 THEN 1 ELSE Lesser(BatchSize, at)

\* A batch of n points, after first that count already.
Advance(n, first) == /\ nbatch' = n
                     /\ npoints' = first + n
                     /\ i' = 0
                     /\ pc' = "test"

RekeyDue_Late == npoints > rekey_at                                \* mutant

RekeyDue == npoints + 1 >= rekey_at

\* A new key, under the exclusive hold, and the points of the first batch.
Rekey ==
  /\ pc = "top"
  /\ RekeyDue
  /\ \E k \in Keys :
       /\ key' = k
       /\ rekey_at' = RekeyAt(k)
       /\ LET n == FirstBatch(rekey_at')
          IN  /\ Advance(n, 0)
              /\ points' = [j \in Indices |->
                              IF j < n THEN Wrap(PointOf(k) + j) ELSE points[j]]
       /\ origin' = k
  /\ delta' = 0
  /\ tested' = 0

\* The common case: every point of the array moves on by BatchSize.
NextLength(first) == Lesser(BatchSize, rekey_at - first)

NextBatch_Whole ==                                                 \* mutant
  /\ pc = "top"
  /\ ~RekeyDue /\ npoints + BatchSize < rekey_at
  /\ LET n == NextLength(npoints + 1)
     IN  /\ Advance(n, npoints + 1)
         /\ points' = [j \in Indices |->
                         IF j < n THEN Wrap(points[j] + BatchSize) ELSE points[j]]
  /\ UNCHANGED <<key, delta, rekey_at, origin, tested>>

NextBatch ==
  /\ pc = "top"
  /\ ~RekeyDue
  /\ LET n == NextLength(npoints + 1)
     IN  /\ Advance(n, npoints + 1)
         /\ points' = [j \in Indices |->
                         IF j < n THEN Wrap(points[j] + BatchSize) ELSE points[j]]
  /\ UNCHANGED <<key, delta, rekey_at, origin, tested>>

\* vc_test says 0.
Miss == /\ pc = "test"
        /\ i' = i + 1
        /\ tested' = tested + 1
        /\ delta' = delta + 1
        /\ pc' = IF i' = nbatch THEN "top" ELSE "test"
        /\ UNCHANGED <<key, npoints, rekey_at, nbatch, points, origin>>

\* vc_test has a match: vg_exec_context_consolidate_key makes the private key of the
\* point under test, to be reported. Another match of the point changes nothing.
Match_KeepDelta == /\ pc = "test"                                  \* mutant
                   /\ key' = key
                   /\ delta' = 0
                   /\ pc' = "matched"
                   /\ UNCHANGED <<npoints, rekey_at, nbatch, i, points, origin, tested>>

Match == /\ pc = "test"
         /\ key' = key + delta
         /\ delta' = 0
         /\ pc' = "matched"
         /\ UNCHANGED <<npoints, rekey_at, nbatch, i, points, origin, tested>>

\* It says 1: the rest of the batch is dropped and a new key is due.
MatchedGoOn_KeepKey == /\ pc = "matched"                           \* mutant
                       /\ npoints' = npoints /\ rekey_at' = rekey_at
                       /\ i' = nbatch + 1
                       /\ delta' = delta + 1
                       /\ tested' = tested + 1
                       /\ pc' = "top"
                       /\ UNCHANGED <<key, nbatch, points, origin>>

MatchedGoOn == /\ pc = "matched"
               /\ npoints' = 0 /\ rekey_at' = 0
               /\ i' = nbatch + 1
               /\ delta' = delta + 1
               /\ tested' = tested + 1
               /\ pc' = "top"
               /\ UNCHANGED <<key, nbatch, points, origin>>

\* It says 2, with a match or without, or vc_halt is seen.
Stop == /\ pc \in {"top", "test", "matched"}
        /\ pc' = "out"
        /\ UNCHANGED <<key, delta, npoints, rekey_at, nbatch, i, points, origin, tested>>

Next == Rekey \/ NextBatch \/ Miss \/ Match \/ MatchedGoOn \/ Stop

Spec == Init /\ [][Next]_vars

(* The loop runs on; nothing obliges a test to match or to stop. *)
FairSpec == Spec /\ WF_vars(Rekey \/ NextBatch \/ Miss \/ MatchedGoOn)

-------------------------------------------------------------------------------
(* Properties *)

TypeOK ==
  /\ pc \in {"top", "test", "matched", "out"}
  /\ key \in Nat /\ delta \in Nat /\ origin \in Nat /\ tested \in Nat
  /\ npoints \in Nat /\ rekey_at \in 0..RekeyMax
  /\ nbatch \in 0..BatchSize /\ i \in 0..BatchSize + 1
  /\ points \in [Indices -> 0..Order - 1]

\* The key about to be reported is the private key of the point that matched.
ReportedIsTested == pc = "matched" => points[i] = PointOf(key)

\* The points tested since a key was made are those of that key and of the keys
\* after it, each once and none left out.
Consecutive == pc = "test" => points[i] = Wrap(PointOf(origin) + tested)

\* assert(nbatch == ptarraysize): every point is of the batch that is moved on.
WholeBatch == pc = "top" /\ ~RekeyDue => nbatch = BatchSize

\* EC_KEY_check_key, asserted when the match is reported: the key is below the order.
KeyChecks == pc = "matched" => key \in 1..Order - 1

\* The point at infinity, which has no address, is never tested.
NeverInfinity == pc = "test" /\ Base = 0 => points[i] # 0

\* No key is used for ever.
KeyReplaced == pc = "test" ~> pc = "matched" \/ pc = "out" \/ (pc = "top" /\ RekeyDue)
===============================================================================
