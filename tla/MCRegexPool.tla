----------------------------- MODULE MCRegexPool -----------------------------
(* Instances of RegexPool for TLC. *)
EXTENDS RegexPool

CONSTANTS main, w1, w2, a, b, c

Search(ps, ts) == [patterns |-> ps, threads |-> ts, remove_on_match |-> TRUE,
                   only_one |-> FALSE, numpairs |-> 0]

\* Several patterns and one thread, several threads and one pattern, -1, -a 2.
Sound == { Search(<<a, b, c>>, {main}),
           Search(<<a>>, {main, w1, w2}),
           [Search(<<a>>, {main, w1}) EXCEPT !.only_one = TRUE],
           [Search(<<a, b>>, {main, w1}) EXCEPT !.remove_on_match = FALSE, !.numpairs = 2] }

\* Several patterns and several threads.
Several == { Search(<<a, b>>, {main, w1}) }
===============================================================================
