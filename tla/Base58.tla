-------------------------------- MODULE Base58 --------------------------------
(***************************************************************************)
(* Base58 with and without a checksum, as util.c writes and reads it.      *)
(* Bytes have BYTE values, digits DBASE (256 and 58 in the code); the      *)
(* checksum of CheckLen bytes (4) is a hash, here a small one.             *)
(***************************************************************************)
EXTENDS Numerals

CONSTANTS BYTE, DBASE, CheckLen,
          Space                 \* a character that is skipped; any other is no digit

ASSUME Base58Assumption ==
  /\ {BYTE, DBASE} \subseteq Nat \ {0, 1} /\ CheckLen \in Nat \ {0}
  /\ Space \notin 0 .. DBASE - 1

\* Stands for the first bytes of SHA256(SHA256(bytes)), or of Groestl's.
Checksum(bytes) == [i \in 1 .. CheckLen |-> (Number(bytes, 3) + (i * Len(bytes))) % BYTE]

\* vg_b58_encode_raw: the digits of the number, and a first digit for each leading zero.
Encoded(bytes) == Repeat(0, Leading(bytes)) \o Digits(Number(bytes, BYTE), DBASE)

\* vg_b58_encode_check
EncodedCheck(bytes) == Encoded(bytes \o Checksum(bytes))

Refused == <<-1>>

\* Characters that are read; spaces are skipped.
Unspaced(input) ==
  LET c[i \in 0 .. Len(input)] == IF i = 0 THEN <<>>
                                  ELSE IF input[i] = Space THEN c[i - 1] ELSE Append(c[i - 1], input[i])
  IN c[Len(input)]

\* vg_b58_decode_check: the bytes before the checksum.
Decoded(input) ==
  LET digits == Unspaced(input)
      number == Digits(Number(digits, DBASE), BYTE)
      bytes == Repeat(0, Leading(digits)) \o number
      length == Len(bytes) - CheckLen
  IN IF \E i \in DOMAIN digits : digits[i] \notin 0 .. DBASE - 1 THEN Refused
     ELSE IF length < 1 THEN Refused
     ELSE IF SubSeq(bytes, length + 1, Len(bytes)) # Checksum(SubSeq(bytes, 1, length)) THEN Refused
     ELSE SubSeq(bytes, 1, length)

-------------------------------------------------------------------------------
(* What they should be *)

\* What is read is what was written, if it is not empty, and what is accepted, but for
\* spaces, is what would be written.
Base58Right(input) ==
  /\ input # <<>> /\ (\A i \in DOMAIN input : input[i] \in 0 .. BYTE - 1) =>
       Decoded(EncodedCheck(input)) = input
  /\ Decoded(input) # Refused =>
       EncodedCheck(Decoded(input)) = Unspaced(input)
===============================================================================
