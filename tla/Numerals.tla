------------------------------- MODULE Numerals -------------------------------
(***************************************************************************)
(* Numbers and their digits, most significant first, as OpenSSL's BIGNUMs  *)
(* are taken apart and put together by loops of one division or one        *)
(* multiplication a digit.                                                 *)
(***************************************************************************)
EXTENDS Integers, Sequences

Pow(b, n) == LET p[k \in Nat] == IF k = 0 THEN 1 ELSE b * p[k - 1] IN p[n]

\* A sequence of digits as a number, and back.
Number(digits, base) ==
  LET v[i \in 0 .. Len(digits)] == IF i = 0 THEN 0 ELSE v[i - 1] * base + digits[i]
  IN v[Len(digits)]

Digits(n, base) ==
  LET d[m \in Nat] == IF m = 0 THEN <<>> ELSE Append(d[m \div base], m % base) IN d[n]

Repeat(x, n) == [i \in 1 .. n |-> x]

\* So many digits, of which the first may be zeros.
Filled(digits, length) == Repeat(0, length - Len(digits)) \o digits

\* How many zeros a sequence begins with.
Leading(s) == CHOOSE n \in 0 .. Len(s) : (\A i \in 1 .. n : s[i] = 0) /\ (n = Len(s) \/ s[n + 1] # 0)
===============================================================================
