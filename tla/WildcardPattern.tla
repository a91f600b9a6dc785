---------------------------- MODULE WildcardPattern ----------------------------
(***************************************************************************)
(* The patterns of the Ed25519 search (oclvanitygen_ed25519.c): how one    *)
(* with wildcards is taken apart, which are refused, which addresses it    *)
(* matches and how many keys it is expected to take. Characters are those  *)
(* that may be typed; letters have another case, other characters are      *)
(* their own.                                                              *)
(***************************************************************************)
EXTENDS Integers, Sequences, FiniteSets

CONSTANTS OtherCase,            \* of each character
          Alphabet,             \* characters of addresses
          Star,
          MaxLen,               \* MAX_ADDR_LEN
          Fixed                 \* the first characters of all addresses (TON), or <<>>

Characters == DOMAIN OtherCase

ASSUME PatternAssumption ==
  /\ Alphabet \subseteq Characters /\ Star \notin Characters
  /\ \A c \in Characters : OtherCase[c] \in Characters /\ OtherCase[OtherCase[c]] = c
  /\ MaxLen \in Nat \ {0} /\ Len(Fixed) \in {0, 2}

-------------------------------------------------------------------------------
(* Taking a pattern apart *)

Parts(prefix, suffix, anywhere) == [prefix |-> prefix, suffix |-> suffix, anywhere |-> anywhere]

FirstStar(pattern) == CHOOSE i \in DOMAIN pattern : pattern[i] = Star /\ \A j \in 1 .. i - 1 : pattern[j] # Star
HasStar(pattern) == \E i \in DOMAIN pattern : pattern[i] = Star

Anywhere(pattern) == Len(pattern) > 1 /\ pattern[1] = Star /\ pattern[Len(pattern)] = Star
Inner(pattern) == SubSeq(pattern, 2, Len(pattern) - 1)

\* parse_pattern refuses an empty pattern, one of two stars, and parts that do not fit.
Unparsable(pattern) ==
  \/ pattern = <<>>
  \/ Anywhere(pattern) /\ Len(Inner(pattern)) \notin 1 .. MaxLen - 1
  \/ /\ HasStar(pattern) /\ pattern[1] # Star
     /\ FirstStar(pattern) > MaxLen \/ Len(pattern) - FirstStar(pattern) >= MaxLen

\* The cases of parse_pattern; only the first star parts a prefix from a suffix.
Parsed(pattern) ==
  CASE ~HasStar(pattern) -> Parts(pattern, <<>>, <<>>)
    [] Anywhere(pattern) -> Parts(<<>>, <<>>, Inner(pattern))
    [] HasStar(pattern) /\ ~Anywhere(pattern) ->
         Parts(SubSeq(pattern, 1, FirstStar(pattern) - 1),
               SubSeq(pattern, FirstStar(pattern) + 1, Len(pattern)), <<>>)

-------------------------------------------------------------------------------
(* Which characters may stand for which *)

\* char_match_count
CountOf(c, ci) ==
  Cardinality({d \in Alphabet : d = c \/ (ci /\ c \in Characters /\ d = OtherCase[c])})

\* validate_pattern; for a letter either case will do.
Valid(pattern, ci) ==
  LET p == Parsed(pattern)
  IN \A part \in {p.prefix, p.suffix, p.anywhere} :
       \A i \in DOMAIN part : CountOf(part[i], ci) > 0

Accepted(pattern, ci) == ~Unparsable(pattern) /\ Valid(pattern, ci)

Same(c, d, ci) == c = d \/ (ci /\ OtherCase[c] = d)
Agree(s, t, ci) == Len(s) = Len(t) /\ \A i \in DOMAIN s : Same(s[i], t[i], ci)

-------------------------------------------------------------------------------
(* match_address *)

Starts(address, part, ci) ==
  Len(part) <= Len(address) /\ Agree(SubSeq(address, 1, Len(part)), part, ci)

Ends_Start(address, part, ci) == Starts(address, part, ci)         \* mutant
Ends(address, part, ci) ==
  /\ Len(part) <= Len(address)
  /\ Agree(SubSeq(address, Len(address) - Len(part) + 1, Len(address)), part, ci)

Contains(address, part, ci) ==
  \E i \in 0 .. Len(address) - Len(part) : Agree(SubSeq(address, i + 1, i + Len(part)), part, ci)

Matches(address, pattern, ci) ==
  LET p == Parsed(pattern)
  IN IF p.anywhere # <<>> THEN Contains(address, p.anywhere, ci)
     ELSE Starts(address, p.prefix, ci) /\ Ends(address, p.suffix, ci)

-------------------------------------------------------------------------------
(* estimate_difficulty, for prefixes and suffixes: one key in                  *)
(* |Alphabet|^counted / ways                                                   *)

\* The characters that count: those all addresses begin with do not, if the prefix has them.
Counted(pattern) ==
  LET p == Parsed(pattern)
      skipped == IF Fixed # <<>> /\ Starts(p.prefix, Fixed, FALSE) THEN Len(Fixed) ELSE 0
  IN SubSeq(p.prefix, skipped + 1, Len(p.prefix)) \o p.suffix

Ways(pattern, ci) ==
  LET c == Counted(pattern)
      w[i \in 0 .. Len(c)] == IF i = 0 THEN 1 ELSE w[i - 1] * CountOf(c[i], ci)
  IN w[Len(c)]

-------------------------------------------------------------------------------
(* What they should be *)

\* A string matches a pattern whose stars stand for any strings.
RECURSIVE Glob(_, _, _)
Glob(s, pattern, ci) ==
  IF pattern = <<>> THEN s = <<>>
  ELSE IF pattern[1] = Star
       THEN \E i \in 0 .. Len(s) : Glob(SubSeq(s, i + 1, Len(s)), Tail(pattern), ci)
       ELSE s # <<>> /\ Same(s[1], pattern[1], ci) /\ Glob(Tail(s), Tail(pattern), ci)

Meant(pattern) == IF HasStar(pattern) THEN pattern ELSE Append(pattern, Star)

\* Prefix and suffix may share characters of an address only if it is shorter than both.
MatchIsGlob(pattern, ci, addresses) ==
  Accepted(pattern, ci) =>
    \A a \in addresses :
      /\ Glob(a, Meant(pattern), ci) => Matches(a, pattern, ci)
      /\ Matches(a, pattern, ci) /\ Len(a) >= Len(pattern) => Glob(a, Meant(pattern), ci)

\* Of all addresses of a length, as many match as estimated, unless the pattern stands for
\* the fixed characters in the other case, with one of them only, or with none.
DifficultyRight(pattern, ci, length) ==
  LET p == Parsed(pattern)
      free == length - Len(Fixed)
      all == {Fixed \o a : a \in [1 .. free -> Alphabet]}
  IN /\ Accepted(pattern, ci) /\ ~Anywhere(pattern)
     /\ Len(p.suffix) <= free /\ Len(p.prefix) + Len(p.suffix) <= length
     /\ p.prefix = <<>> \/ Starts(p.prefix, Fixed, FALSE)
     => Cardinality({a \in all : Matches(a, pattern, ci)}) * Cardinality(Alphabet) ^ Len(Counted(pattern))
          = Ways(pattern, ci) * Cardinality(all)
===============================================================================
