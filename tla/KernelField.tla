----------------------------- MODULE KernelField -----------------------------
(***************************************************************************)
(* The arithmetic of calc_addrs.cl, word by word: numbers of NWORDS words  *)
(* of WBITS bits, residues of the modulus, and Montgomery products. The    *)
(* kernel has 8 words of 32 bits; carries, borrows and the last            *)
(* subtraction are as delicate with three words of two.                    *)
(***************************************************************************)
EXTENDS Integers, Sequences, Bitwise

CONSTANTS NWORDS, WBITS,
          P,                    \* the modulus
          CBITS                 \* width of the overflow words of bn_mod_inverse

W == 2 ^ WBITS
R == W ^ NWORDS
Words == 1 .. NWORDS            \* the least significant first

ASSUME FieldAssumption ==
  /\ {NWORDS, WBITS, CBITS} \subseteq Nat \ {0, 1}
  /\ P \in R \div 2 .. R - 1 /\ \A k \in 2 .. P - 1 : P % k # 0

Residues == 0 .. P - 1

\* The words f gives for 1, 2, .. and the carry of the word before: [d |-> words, c |-> carry].
Chain(f(_, _), c0) ==
  LET s[i \in 0 .. NWORDS] ==
        IF i = 0 THEN [d |-> <<>>, c |-> c0]
        ELSE LET before == s[i - 1]
                 word == f(i, before.c)
             IN [d |-> Append(before.d, word.d), c |-> word.c]
  IN s[NWORDS]

Bn(v) == Chain(LAMBDA i, rest : [d |-> rest % W, c |-> rest \div W], v).d
Value(a) == LET v[i \in 0 .. NWORDS] == IF i = 0 THEN 0 ELSE v[i - 1] + a[i] * W ^ (i - 1)
            IN v[NWORDS]

-------------------------------------------------------------------------------
(* Sums and differences: words in sequence, or all at once                    *)

\* bn_addc_word
AddWord(a, b, c) ==
  LET t == (a + b + c) % W
  IN [d |-> t, c |-> IF t < a \/ (c = 1 /\ t = a) THEN 1 ELSE 0]

\* bn_subb_word; b + c may be 0 again.
SubWord(a, b, c) ==
  [d |-> (a - ((b + c) % W)) % W,
   c |-> IF (c = 1 /\ (a = 0 \/ a = b)) \/ a < b THEN 1 ELSE 0]

\* bn_uadd_words_seq, bn_usub_words_seq
Add(a, b) == Chain(LAMBDA i, c : AddWord(a[i], b[i], c), 0)
Sub(a, b) == Chain(LAMBDA i, c : SubWord(a[i], b[i], c), 0)

\* bn_uadd_words_vliw, bn_usub_words_vliw: x before carries; one bit for each word that
\* carries itself, and one for each that hands a carry on.
Lookahead(carries, hands) ==
  LET Bits(set) == LET v[i \in 0 .. NWORDS] ==
                         IF i = 0 THEN 0 ELSE v[i - 1] + (IF i \in set THEN 2 ^ (i - 1) ELSE 0)
                   IN v[NWORDS]
  IN (Bits(hands) + 2 * Bits(carries)) ^^ Bits(hands)

Carried(c, i) == (c \div 2 ^ (i - 1)) % 2

AddVliw(a, b) ==
  LET x == [i \in Words |-> (a[i] + b[i]) % W]
      c == Lookahead({i \in Words : a[i] > x[i]}, {i \in Words : x[i] = W - 1})
  IN [d |-> [i \in Words |-> (x[i] + (IF i = 1 THEN 0 ELSE Carried(c, i))) % W],
      c |-> c \div 2 ^ NWORDS]

SubVliw(a, b) ==
  LET x == [i \in Words |-> (a[i] - b[i]) % W]
      c == Lookahead({i \in Words : a[i] < b[i]}, {i \in Words : x[i] = 0})
  IN [d |-> [i \in Words |-> (x[i] - (IF i = 1 THEN 0 ELSE Carried(c, i))) % W],
      c |-> c \div 2 ^ NWORDS]

\* bn_ucmp_ge: a bit for each word that is less, and for each that is greater.
Ge(a, b) ==
  LET Top(s) == IF s = {} THEN 0 ELSE CHOOSE i \in s : \A j \in s : j <= i
  IN Top({i \in Words : a[i] < b[i]}) <= Top({i \in Words : a[i] > b[i]})

Modulus == Bn(P)

ModAdd(a, b) ==
  LET s == Add(a, b) IN IF s.c = 1 \/ Ge(s.d, Modulus) THEN Sub(s.d, Modulus).d ELSE s.d

ModSub(a, b) == LET s == Sub(a, b) IN IF s.c = 1 THEN Add(s.d, Modulus).d ELSE s.d

\* bn_mod_lshift1: the bit that is shifted out counts as a carry.
ModDouble(a) ==
  LET s == Chain(LAMBDA i, c : [d |-> (2 * a[i] + c) % W, c |-> a[i] \div (W \div 2)], 0)
  IN IF s.c = 1 \/ Ge(s.d, Modulus) THEN Sub(s.d, Modulus).d ELSE s.d

\* bn_rshift1 with the carry put on top, as ec_add_grid and bn_mod_inverse do.
Halve(a, c) == Bn((Value(a) + c * R) \div 2)

\* bn_neg: the carry goes on while words are 0.
Negated(a) ==
  Chain(LAMBDA i, c : LET t == (W - 1 - a[i] + c) % W
                      IN [d |-> t, c |-> IF t # 0 THEN 0 ELSE c], 1).d

-------------------------------------------------------------------------------
(* Montgomery products *)

Inv(v, m) == CHOOSE k \in 0 .. m - 1 : (v * k) % m = 1
N0 == W - Inv(P % W, W)         \* mont_n0[0]
RR == (R * R) % P               \* mont_rr

\* bn_mul_add_word (and bn_mul_word, where r is 0)
MulAddWord(r, a, w, c) ==
  LET s == (r + c) % W
      t == (a * w + s) % W
  IN [d |-> t, c |-> ((a * w) \div W + (IF s < c THEN 1 ELSE 0) + (IF t < s THEN 1 ELSE 0)) % W]

MulRow(t, a, w) == Chain(LAMBDA j, c : MulAddWord(t[j], a[j], w, c), 0)

\* A multiple of the modulus added that makes the lowest word 0, and that word dropped; the
\* overflow is tea, and what is above it teb.
WordDropped(red, tea, teb) ==
  LET top == (tea + red.c) % W
  IN [d |-> Append(Tail(red.d), top), tea |-> teb + (IF top < red.c THEN 1 ELSE 0)]

RowReduced(row, tea) ==
  WordDropped(MulRow(row.d, Modulus, (row.d[1] * N0) % W), (tea + row.c) % W,
              IF (tea + row.c) % W < row.c THEN 1 ELSE 0)

\* One step of bn_mul_mont: to t and its overflow tea the product with a word of b is added.
MontStep(t, a, w) == RowReduced(MulRow(t.d, a, w), t.tea)

\* The steps for the words of b from the i-th on.
RECURSIVE MontSteps(_, _, _, _)
MontSteps(t, a, b, i) == IF i > NWORDS THEN t ELSE MontSteps(MontStep(t, a, b[i]), a, b, i + 1)

MontSum(a, b) == MontSteps([d |-> Bn(0), tea |-> 0], a, b, 1)

MulMont_ByTop(a, b) ==                                             \* mutant
  LET t == MontSum(a, b)
  IN IF t.tea # 0 \/ t.d[NWORDS] > Modulus[NWORDS] THEN Sub(t.d, Modulus).d ELSE t.d

\* The subtraction is tried if the top word allows it, and kept if it can be made.
Subtracted(t) ==
  LET s == Sub(t.d, Modulus)
  IN IF /\ t.tea # 0 \/ t.d[NWORDS] >= Modulus[NWORDS]
        /\ t.tea # 0 \/ s.c = 0
     THEN s.d ELSE t.d

\* bn_mul_mont
MulMont(a, b) == Subtracted(MontSum(a, b))

\* VERY_EXPENSIVE_BRANCHES
SubtractedPlain(t) ==
  LET s == Sub(t.d, Modulus) IN IF t.tea # 0 \/ s.c = 0 THEN s.d ELSE t.d

MulMontPlain(a, b) == SubtractedPlain(MontSum(a, b))

\* bn_from_mont, in a working area of twice the length and a word.
RowAdded(r, i, row) ==
  LET top == (r[NWORDS + i] + row.c) % W
      over == (r[NWORDS + i + 1] + (IF top < row.c THEN 1 ELSE 0)) % W
  IN SubSeq(r, 1, i - 1) \o row.d \o <<top, over>> \o SubSeq(r, NWORDS + i + 2, 2 * NWORDS + 1)

FromMont(b) ==
  LET area[i \in 0 .. NWORDS] ==
        IF i = 0 THEN b \o Bn(0) \o <<0>>
        ELSE LET r == area[i - 1]
             IN RowAdded(r, i, MulRow(SubSeq(r, i, i + NWORDS - 1), Modulus, (r[i] * N0) % W))
      High(r) == SubSeq(r, NWORDS + 1, 2 * NWORDS)
      Kept(high, s) == IF s.c = 1 THEN high ELSE s.d
  IN Kept(High(area[NWORDS]), Sub(High(area[NWORDS]), Modulus))

-------------------------------------------------------------------------------
(* bn_mod_inverse: a and b go down to the greatest common divisor, x and y    *)
(* with them; xc and yc take what does not fit.                               *)

C == 2 ^ CBITS

\* While b is even: b and x are halved, x made even by the modulus.
RECURSIVE Evened(_)
Evened(s) ==
  IF s.b[1] % 2 = 1 THEN s
  ELSE LET x == IF s.x[1] % 2 = 1 THEN Add(s.x, Modulus) ELSE [d |-> s.x, c |-> 0]
           xc == (s.xc + x.c) % C
       IN Evened([b |-> Halve(s.b, 0), x |-> Halve(x.d, xc % 2), xc |-> xc \div 2])

\* Of two odd numbers the lesser is taken from the greater.
Lessened(e, f) ==
  LET x == Add(e.x, f.x)
      c == (e.xc + f.xc + x.c) % C
  IN IF Ge(e.b, f.b)
     THEN [a |-> f.b, b |-> Sub(e.b, f.b).d, x |-> x.d, xc |-> c, y |-> f.x, yc |-> f.xc]
     ELSE [a |-> Sub(f.b, e.b).d, b |-> e.b, x |-> e.x, xc |-> e.xc, y |-> x.d, yc |-> c]

RECURSIVE Euclid(_)
Euclid(s) ==
  IF Value(s.b) = 0 THEN s
  ELSE Euclid(Lessened(Evened([b |-> s.b, x |-> s.x, xc |-> s.xc]),
                       Evened([b |-> s.a, x |-> s.y, xc |-> s.yc])))

\* The modulus is taken off until the overflow word is negative.
RECURSIVE Below(_, _)
Below(y, yc) ==
  IF yc >= C \div 2 THEN y
  ELSE LET s == Sub(y, Modulus) IN Below(s.d, (yc - s.c) % C)

FromDivisor(e) == IF e.a # Bn(1) THEN Bn(0) ELSE Negated(Below(e.y, e.yc))

ModInverse(n) ==
  FromDivisor(Euclid([a |-> Modulus, b |-> n, x |-> Bn(1), xc |-> 0, y |-> Bn(0), yc |-> 0]))

-------------------------------------------------------------------------------
(* What they should be *)

\* All sums and differences, in sequence or at once, are those of the numbers.
SumsRight(a, b) ==
  /\ \A s \in {Add(Bn(a), Bn(b)), AddVliw(Bn(a), Bn(b))} : Value(s.d) + s.c * R = a + b
  /\ \A s \in {Sub(Bn(a), Bn(b)), SubVliw(Bn(a), Bn(b))} : Value(s.d) - s.c * R = a - b
  /\ Ge(Bn(a), Bn(b)) <=> a >= b
  /\ Value(Negated(Bn(a))) = (-a) % R
  /\ a \in Residues => Value(ModDouble(Bn(a))) = (2 * a) % P
  /\ a \in Residues /\ b \in Residues =>
       /\ Value(ModAdd(Bn(a), Bn(b))) = (a + b) % P
       /\ Value(ModSub(Bn(a), Bn(b))) = (a - b) % P

\* A product is a residue, and R times it the product of the numbers.
ProductsRight(a, b) ==
  /\ \A m \in {Value(MulMont(Bn(a), Bn(b))), Value(MulMontPlain(Bn(a), Bn(b)))} :
       m < P /\ (m * R) % P = (a * b) % P
  /\ LET m == Value(FromMont(Bn(a))) IN m < P /\ (m * R) % P = a

InverseRight(a) ==
  LET k == Value(ModInverse(Bn(a)))
  IN k < P /\ IF a = 0 THEN k = 0 ELSE (a * k) % P = 1
===============================================================================
