----------------------------- MODULE MCPrefixPool -----------------------------
(* Instances of PrefixPool for TLC: r1, r2 and r3 are ranges, x and y are       *)
(* suffixes.  p has two case variants, one range of o is taken by p; c and d    *)
(* are combined prefixes and suffixes, s is a suffix alone.                     *)
EXTENDS PrefixPool, TLC

CONSTANTS r1, r2, r3, x, y, p, q, o, c, d, s, main, w1

RangesOf == p :> {r1, r2} @@ q :> {r3} @@ o :> {r2, r3} @@ c :> {r1} @@ d :> {r2} @@ s :> {}

SuffixesOf == [z \in {p, q, o} |-> NoSuffix] @@ c :> x @@ d :> y @@ s :> x

File(ps, i) == [patterns |-> ps, insensitive |-> i]

Search(k, fs) == [kind |-> k, files |-> fs, threads |-> {main, w1},
                  remove_on_match |-> TRUE, only_one |-> FALSE, numpairs |-> 0]

\* Prefixes from two files; one combined pattern; a suffix alone; -1, also with a
\* pattern with and one without a suffix; -a 2.
Sound == { Search("BTC", << File(<<p, o>>, FALSE), File(<<o, q>>, TRUE) >>),
           Search("ETH", << File(<<c>>, FALSE) >>),
           Search("ETH", << File(<<s>>, FALSE) >>),
           [Search("BTC", << File(<<q>>, FALSE) >>) EXCEPT !.only_one = TRUE],
           [Search("TRX", << File(<<c, q>>, FALSE) >>) EXCEPT !.only_one = TRUE],
           [Search("BTC", << File(<<p>>, TRUE) >>) EXCEPT !.remove_on_match = FALSE,
                                                          !.numpairs = 2] }

\* Two combined patterns.
Combined == { Search("TRX", << File(<<c, d>>, FALSE) >>) }
===============================================================================
