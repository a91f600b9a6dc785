---------------------------- MODULE PatternSearch ----------------------------
(***************************************************************************)
(* What a search promises whoever started it, whichever kind of pattern it *)
(* is for (vg_context_t of pattern.h, run by the threads of vanitygen.c).  *)
(* Patterns are loaded; then threads come upon matches of patterns that    *)
(* are open, and report them.  A pattern is open until its report, which   *)
(* is its only one, unless matches are kept.  A match is not given up      *)
(* while its pattern is open, however many threads match at a time.  The   *)
(* process ends with the last match asked for, or with the thread of main. *)
(***************************************************************************)
EXTENDS Naturals

CONSTANTS Threads, MainThread,
          Items,    \* patterns, and suffixes searched for by themselves
          Unfit     \* those whose match a test takes for a fault, and gives up at

VARIABLES kept,     \* patterns stay open when they are reported
          amount,   \* of matches after which the process ends, or 0
          once,     \* a thread ends with its first report
          loading,  \* patterns are being loaded
          open,     \* the items searched for
          sees,     \* sees[t]: the item a thread has a match of, or {}
          stopped,  \* threads that test no more
          found,    \* the reports so far,
          reports,  \* and those of each item
          ended     \* the process has ended

vars == <<kept, amount, once, loading, open, sees, stopped, found, reports, ended>>

Init == /\ kept \in BOOLEAN /\ amount \in Nat /\ once \in BOOLEAN
        /\ loading \in BOOLEAN
        /\ open \subseteq Items
        /\ sees = [t \in Threads |-> {}]
        /\ stopped = {}
        /\ found = 0
        /\ reports = [m \in Items |-> 0]
        /\ ended = FALSE

\* A pattern is added, or takes the place of another; the process ends when there is
\* nothing to search for.
Load == /\ loading
        /\ loading' \in BOOLEAN /\ open' \subseteq Items /\ ended' \in BOOLEAN
        /\ UNCHANGED <<kept, amount, once, sees, stopped, found, reports>>

\* A thread comes upon a match of what is left, or upon none; it stops only when nothing
\* is left, or at a fault.
Looks(t, left) ==
  \/ /\ \E s \in {{}} \cup {{m} : m \in left} : sees' = [sees EXCEPT ![t] = s]
     /\ UNCHANGED stopped
  \/ /\ left = {} \/ left \cap Unfit # {}
     /\ sees' = [sees EXCEPT ![t] = {}]
     /\ stopped' = stopped \cup {t}

Look(t) == /\ ~loading /\ t \notin stopped
           /\ sees[t] \cap open = {}
           /\ Looks(t, open)
           /\ UNCHANGED <<kept, amount, once, loading, open, found, reports, ended>>

Report(t) == \E m \in sees[t] \cap open :
  /\ ~loading /\ t \notin stopped
  /\ found' = found + 1
  /\ reports' = [reports EXCEPT ![m] = @ + 1]
  /\ open' = IF kept THEN open ELSE open \ {m}
  /\ ended' = (amount > 0 /\ found' >= amount)
  /\ IF ended' \/ once
     THEN sees' = [sees EXCEPT ![t] = {}] /\ stopped' = stopped \cup {t}
     ELSE Looks(t, open')
  /\ UNCHANGED <<kept, amount, once, loading>>

End == /\ MainThread \in stopped
       /\ ended' = TRUE
       /\ UNCHANGED <<kept, amount, once, loading, open, sees, stopped, found, reports>>

Next == ~ended /\ (Load \/ End \/ \E t \in Threads : Look(t) \/ Report(t))

\* A match does not wait for ever, and the process does not outlive its search.
Settled(t) == sees[t] # {} ~> sees[t] = {} \/ ended

Ends == ~loading /\ open = {} ~> ended

SafeSpec == Init /\ [][Next]_vars

Spec == SafeSpec /\ Ends /\ \A t \in Threads : Settled(t)
===============================================================================
