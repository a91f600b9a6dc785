----------------------------- MODULE PrefixRanges -----------------------------
(***************************************************************************)
(* get_prefix_ranges and the iterator of case variants (pattern.c): which  *)
(* binary addresses are written with a given prefix. An address is a       *)
(* number of AddrLen bytes, the first of which is its type; it is written  *)
(* with a zero digit for each leading zero byte and then in base Base. The *)
(* program has 25 bytes of 8 bits and base 58; here both are small, with   *)
(* the base below the size of a byte as there.                             *)
(***************************************************************************)
EXTENDS Numerals, FiniteSets

CONSTANTS Base, Byte, AddrLen

ASSUME RangesAssumption == {Base, Byte, AddrLen} \subseteq Nat \ {0, 1} /\ Base < Byte

\* zero_prefix
Zeros(pfx) == Leading(pfx)

\* The greatest and the least number with so many leading zero bytes.
Ceil(zeros) == Pow(Byte, AddrLen - zeros) - 1
Floor(zeros) == Pow(Byte, AddrLen - 1 - zeros)

\* b58pow, b58ceil: the number of digits of the ceiling but one, and its first digit. A
\* quotient that is the base itself is not divided again.
DigitsOf(n) ==
  LET d[m \in Nat] == IF m > Base THEN [pow |-> d[m \div Base].pow + 1,
                                           top |-> d[m \div Base].top]
                         ELSE [pow |-> 0, top |-> m]
  IN d[n]

\* So it is of 25 bytes in base 58: no ceiling begins with a digit 58, and no floor is one less
\* than a multiple of the base.
ASSUME CeilingAssumption == \A j \in 1 .. AddrLen : /\ DigitsOf(Pow(Byte, j) - 1).top # Base
                                                   /\ (Pow(Byte, j) + 1) % Base # 0

Lesser(a, b) == IF a < b THEN a ELSE b
Greater(a, b) == IF a > b THEN a ELSE b

\* Limits a range; none is left if it is all outside.
Meet(r, low, high) ==
  IF r[2] < low \/ high < r[1] THEN <<>> ELSE << <<Greater(r[1], low), Lesser(r[2], high)>> >>

HighRange_Unclipped(low, high, ceil) ==                            \* mutant
  IF ceil < Base * low THEN <<>> ELSE << <<Base * low, Base * high + Base - 1>> >>

\* Of the numbers one digit longer, those up to the ceiling: above it an address has one
\* leading zero less.
HighRange(low, high, ceil) ==
  IF ceil < Base * low THEN <<>>
  ELSE << <<Base * low, Lesser(Base * high + Base - 1, ceil)>> >>

\* Of the numbers with as many digits, those from the floor: below it one zero more.
AboveFloor(low, high, floor) ==
  IF floor >= high THEN <<>> ELSE << <<Greater(low, floor), high>> >>

PrefixRange(pfx) ==
  LET z == Zeros(pfx)
      ceil == Ceil(z)
      digits == SubSeq(pfx, z + 1, Len(pfx))
      d == DigitsOf(ceil)
      unit == Pow(Base, d.pow - Len(digits))
      low == unit * Number(digits, Base)
      high == low + unit - 1
      top == digits[1]
  IN IF digits = <<>> THEN << <<0, ceil>> >>
     ELSE IF top > d.top THEN << <<low, high>> >>
     ELSE AboveFloor(low, high, Floor(z)) \o HighRange(low, high, ceil)

\* The first and the last number of an address type; one more would be of the next.
TypeLow(type) == type * Pow(Byte, AddrLen - 1)
TypeHigh(type) == (type + 1) * Pow(Byte, AddrLen - 1) - 1

\* get_prefix_ranges; no range at all is its "not possible".
Ranges(type, pfx) ==
  LET rs == PrefixRange(pfx)
      Limited(k) == IF k > Len(rs) THEN <<>> ELSE Meet(rs[k], TypeLow(type), TypeHigh(type))
  IN Limited(1) \o Limited(2)

-------------------------------------------------------------------------------
(* The variants of a prefix whose letters may have either case; characters by     *)
(* their codes, 65 .. 90 upper case, 97 .. 122 lower case.                        *)

Letters == 65 .. 90 \cup 97 .. 122
WithCase(c, upper) == IF upper THEN (IF c >= 97 THEN c - 32 ELSE c) ELSE (IF c < 97 THEN c + 32 ELSE c)

\* b58_case_map: L, i and o stay what they are, their other case is no digit; I, O and l can
\* only be in the other case.
Kept == {76, 105, 111}
Swapped == {73, 79, 108}
Swappable(c) == c \in Letters \ (Kept \cup Swapped)

\* prefix_case_iter_init: all letters that may have both are in lower case.
FirstVariant(pfx) ==
  [k \in 1 .. Len(pfx) |->
     CASE Swappable(pfx[k]) -> WithCase(pfx[k], FALSE)
       [] pfx[k] \in Swapped -> WithCase(pfx[k], pfx[k] >= 97)
       [] OTHER -> pfx[k]]

VariantCount(pfx) == 2 ^ Cardinality({k \in 1 .. Len(pfx) : Swappable(pfx[k])})

\* prefix_case_iter_next: the bits of ci_value say which letters are in upper case.
Variant(pfx, value) ==
  [k \in 1 .. Len(pfx) |->
     LET bit == Cardinality({j \in 1 .. k - 1 : Swappable(pfx[j])})
     IN IF Swappable(pfx[k]) THEN WithCase(pfx[k], (value \div 2 ^ bit) % 2 = 1)
        ELSE FirstVariant(pfx)[k]]

Variants(pfx) == [v \in 0 .. VariantCount(pfx) - 1 |-> Variant(pfx, v)]

-------------------------------------------------------------------------------
\* vg_prefix_get_difficulty: a quotient by zero leaves zero, which stands for no difficulty.
ShareOf(ranges) ==
  LET Span(k) == IF k \in DOMAIN ranges THEN ranges[k][2] - ranges[k][1] ELSE 0
      span == Span(1) + Span(2)
  IN IF span = 0 THEN 0 ELSE Pow(Byte, AddrLen - 1) \div span

PrefixDifficulty(type, pfx) == ShareOf(Ranges(type, pfx))

-------------------------------------------------------------------------------
(* What they should be *)

\* How an address is written (vg_b58_encode_check of util.c).
Written(x) == Repeat(0, AddrLen - Len(Digits(x, Byte))) \o Digits(x, Base)

\* Prefixes the program has ranges for: shorter than any address, of not only zeros
InReach(pfx) ==
  LET z == Zeros(pfx) IN z < AddrLen - 1 /\ z < Len(pfx) /\ Len(pfx) - z < DigitsOf(Ceil(z)).pow

Spelt(x, pfx) == LET w == Written(x) IN Len(w) >= Len(pfx) /\ SubSeq(w, 1, Len(pfx)) = pfx

InRanges(x, ranges) == \E k \in 1 .. Len(ranges) : ranges[k][1] <= x /\ x <= ranges[k][2]

\* Of the addresses with so many leading zeros those that have one of the two greatest lengths.
\* In base 58 a few are shorter still: those of the types 1 and 2 below 58^33.
TwoLongest(x, zeros) == Len(Digits(x, Base)) >= DigitsOf(Ceil(zeros)).pow

\* The addresses in the ranges of a prefix are those of the type that are written with it, of
\* the two greatest lengths. When the shorter range is below the floor there is the longer one.
RangesRight(type, pfx) ==
  LET z == Zeros(pfx)
      ranges == Ranges(type, pfx)
      numbers == TypeLow(type) .. TypeHigh(type)
  IN InReach(pfx) =>
       /\ \A x \in numbers : InRanges(x, ranges) <=> Spelt(x, pfx) /\ TwoLongest(x, z)
       /\ \A k \in 1 .. Len(ranges) : {ranges[k][1], ranges[k][2]} \subseteq numbers
       /\ PrefixRange(pfx) # <<>>

\* The difficulty of a prefix is one address in how many is written with it, and no less;
\* each range counts for an address too few, and one of a single address for none.
DifficultyOfPrefix(type, pfx) ==
  InReach(pfx) =>
    \A ranges \in {Ranges(type, pfx)}, shown \in {PrefixDifficulty(type, pfx)} :
      LET total == Pow(Byte, AddrLen - 1)
          count == Cardinality({x \in TypeLow(type) .. TypeHigh(type) : InRanges(x, ranges)})
      IN IF count <= Len(ranges) THEN shown = 0
         ELSE total \div count <= shown /\ shown * (count - Len(ranges)) <= total

\* The digits of addresses, by their codes
Digit == 49 .. 57 \cup (Letters \ {73, 79, 108})

\* The variants are all prefixes of digits that differ only in case, each once.
VariantsRight(pfx) ==
  LET Alike(c, d) == c = d \/ ({c, d} \subseteq Letters /\ WithCase(c, TRUE) = WithCase(d, TRUE))
      vs == Variants(pfx)
      meant == {t \in [1 .. Len(pfx) -> Digit \cap UNION {{d \in Digit : Alike(pfx[k], d)} : k \in 1 .. Len(pfx)}] :
                  \A k \in 1 .. Len(pfx) : Alike(t[k], pfx[k])}
  IN /\ {vs[v] : v \in DOMAIN vs} = meant
     /\ Cardinality(DOMAIN vs) = Cardinality(meant)
===============================================================================
