--------------------------- MODULE SharedExclusive ---------------------------
(***************************************************************************)
(* What the execution-context lock of pattern.c promises its callers: a    *)
(* shared/exclusive lock whose shared holders may ask to be upgraded.      *)
(* An upgrade gives up the shared hold first, so that two upgraders cannot *)
(* wait for each other; while an upgrade is pending nobody is given a      *)
(* shared hold, so that every pending upgrade is served in turn.           *)
(***************************************************************************)
CONSTANT Threads

VARIABLES hold,     \* hold[t]: "none", "shared" or "exclusive"
          pending   \* threads between the request and the end of an upgrade

vars == <<hold, pending>>

Init == /\ hold = [t \in Threads |-> "none"]
        /\ pending = {}

GetShared(t) == /\ hold[t] = "none"
                /\ pending = {}
                /\ hold' = [hold EXCEPT ![t] = "shared"]
                /\ UNCHANGED pending

DropShared(t) == /\ hold[t] = "shared"
                 /\ hold' = [hold EXCEPT ![t] = "none"]
                 /\ UNCHANGED pending

Request(t) == /\ hold[t] = "shared"
              /\ pending' = pending \cup {t}
              /\ hold' = [hold EXCEPT ![t] = "none"]

Grant(t) == /\ t \in pending
            /\ \A u \in Threads : hold[u] = "none"
            /\ hold' = [hold EXCEPT ![t] = "exclusive"]
            /\ UNCHANGED pending

\* A request nobody else's hold stands in the way of is granted at once.
RequestGranted(t) == /\ hold[t] = "shared"
                     /\ pending = {}
                     /\ \A u \in Threads \ {t} : hold[u] = "none"
                     /\ pending' = {t}
                     /\ hold' = [hold EXCEPT ![t] = "exclusive"]

\* The last upgrader in turn keeps a shared hold, the others give way.
Finish(t) == /\ hold[t] = "exclusive"
             /\ pending' = pending \ {t}
             /\ hold' = [hold EXCEPT ![t] = IF pending = {t} THEN "shared"
                                                            ELSE "none"]

Next == \E t \in Threads : \/ GetShared(t)
                           \/ DropShared(t)
                           \/ Request(t)
                           \/ Grant(t)
                           \/ RequestGranted(t)
                           \/ Finish(t)

\* A pending upgrade may not wait for ever.
Served(t) == t \in pending ~> hold[t] = "exclusive"

SafeSpec == Init /\ [][Next]_vars

Spec == SafeSpec /\ \A t \in Threads : Served(t)
=============================================================================
