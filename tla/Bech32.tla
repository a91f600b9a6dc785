-------------------------------- MODULE Bech32 --------------------------------
(***************************************************************************)
(* bech32.c and segwit_addr.c: groups of bits regrouped, the checksum of   *)
(* Bech32 and Bech32m, and the addresses of witness programs. Characters   *)
(* are their codes; the 32 data characters are their values, and have a    *)
(* case only if they are letters.                                          *)
(***************************************************************************)
EXTENDS Integers, Sequences, Bitwise

CONSTANTS Program0Lengths,      \* lengths of a program of version 0 (20 and 32)
          MinProgram, MaxProgram        \* of any program (2 and 40)

ASSUME Bech32Assumption ==
  /\ {MinProgram, MaxProgram} \subseteq Nat
  /\ Program0Lengths \subseteq MinProgram .. MaxProgram

Failed == <<-1>>

-------------------------------------------------------------------------------
(* convert_bits: from groups of one width to groups of another. Of val only the   *)
(* bits not yet written are kept; the code keeps older ones and masks them.       *)

Groups(in, inbits, outbits) ==
  LET g[i \in 0 .. Len(in)] ==
        IF i = 0 THEN [out |-> <<>>, val |-> 0, bits |-> 0]
        ELSE LET before == g[i - 1]
                 val == before.val * 2 ^ inbits + in[i]
                 bits == before.bits + inbits
                 n == bits \div outbits
                 left == bits - n * outbits
             IN [out |-> before.out
                           \o [k \in 1 .. n |-> (val \div 2 ^ (bits - k * outbits)) % 2 ^ outbits],
                 val |-> val % 2 ^ left, bits |-> left]
  IN g[Len(in)]

\* What is left is padded with zeros, or must be less than a group, and zero.
ConvertBits(out, in, outbits, inbits, pad) ==
  LET g == Groups(in, inbits, outbits)
  IN IF pad THEN out \o g.out \o (IF g.bits > 0 THEN <<g.val * 2 ^ (outbits - g.bits)>> ELSE <<>>)
     ELSE IF g.val # 0 \/ g.bits >= inbits THEN Failed
     ELSE out \o g.out

-------------------------------------------------------------------------------
(* The checksum *)

Generator == <<996825010, 642813549, 513874426, 1027748829, 705979059>>

\* bech32_polymod_step
Step(chk) ==
  LET b == chk \div 2 ^ 25
      x[i \in 0 .. 5] ==
        IF i = 0 THEN (chk % 2 ^ 25) * 32
        ELSE IF (b \div 2 ^ (i - 1)) % 2 = 1 THEN x[i - 1] ^^ Generator[i] ELSE x[i - 1]
  IN x[5]

Checked(chk, values) ==
  LET c[i \in 0 .. Len(values)] == IF i = 0 THEN chk ELSE Step(c[i - 1]) ^^ values[i]
  IN c[Len(values)]

Encodings == {"bech32", "bech32m"}
Final(variant) == IF variant = "bech32" THEN 1 ELSE 734539939      \* bech32_final_constant

\* The high bits of the name, a zero, the low bits.
Expanded(hrp) == [i \in 1 .. Len(hrp) |-> hrp[i] \div 32] \o <<0>> \o [i \in 1 .. Len(hrp) |-> hrp[i] % 32]

CheckOf(hrp, data) == Checked(1, Expanded(hrp) \o data)

Upper(ch) == ch \in 65 .. 90
Lower(ch) == ch \in 97 .. 122

\* Of the data characters 9 8 2 0 3 5 4 6 7 have no case.
NoCase == {5, 7, 10, 15, 17, 20, 21, 26, 30}

NoString == [hrp |-> <<>>, data |-> <<>>, upper |-> FALSE]
NoData == [hrp |-> <<>>, data |-> <<>>, variant |-> "none"]

\* A string is the name, and the values and the case of the data characters.
\* bech32_encode
Encode(hrp, data, variant) ==
  LET sum == CheckOf(hrp, data \o <<0, 0, 0, 0, 0, 0>>) ^^ Final(variant)
  IN IF \/ \E i \in DOMAIN hrp : hrp[i] \notin 33 .. 126 \/ Upper(hrp[i])
        \/ Len(hrp) + 7 + Len(data) > 90
        \/ \E i \in DOMAIN data : data[i] >= 32
     THEN NoString
     ELSE [hrp |-> hrp, data |-> data \o [i \in 1 .. 6 |-> (sum \div 32 ^ (6 - i)) % 32], upper |-> FALSE]

\* bech32_decode; both cases in one string are refused.
Decode(input) ==
  LET hrp == [i \in 1 .. Len(input.hrp) |-> IF Upper(input.hrp[i]) THEN input.hrp[i] + 32 ELSE input.hrp[i]]
      length == Len(input.hrp) + 1 + Len(input.data)
      HasCase(Is(_), upper) ==
        \/ \E i \in DOMAIN input.hrp : Is(input.hrp[i])
        \/ input.upper = upper /\ \E i \in DOMAIN input.data : input.data[i] \notin NoCase
      \* the high bits are taken of the name in lower case, the low bits as they come
      chk == Checked(1, [i \in 1 .. Len(hrp) |-> hrp[i] \div 32] \o <<0>>
                        \o [i \in 1 .. Len(hrp) |-> input.hrp[i] % 32] \o input.data)
  IN IF \/ length \notin 8 .. 90 \/ input.hrp = <<>> \/ Len(input.data) < 6
        \/ \E i \in DOMAIN hrp : hrp[i] \notin 33 .. 126
        \/ HasCase(Lower, FALSE) /\ HasCase(Upper, TRUE)
        \/ \A v \in Encodings : chk # Final(v)
     THEN NoData
     ELSE [hrp |-> hrp, data |-> SubSeq(input.data, 1, Len(input.data) - 6),
           variant |-> CHOOSE v \in Encodings : chk = Final(v)]

-------------------------------------------------------------------------------
(* Witness programs *)

ProgramLength(version, length) ==
  length \in MinProgram .. MaxProgram /\ (version = 0 => length \in Program0Lengths)

VariantOf(version) == IF version > 0 THEN "bech32m" ELSE "bech32"

\* segwit_addr_encode
SegwitEncode(hrp, version, program) ==
  IF version > 16 \/ ~ProgramLength(version, Len(program)) THEN NoString
  ELSE Encode(hrp, ConvertBits(<<version>>, program, 5, 8, TRUE), VariantOf(version))

\* segwit_addr_decode
SegwitDecode(hrp, input) ==
  LET d == Decode(input)
      program == ConvertBits(<<>>, Tail(d.data), 8, 5, FALSE)
  IN IF d = NoData \/ Len(d.data) \notin 1 .. 65 THEN Failed
     ELSE IF d.hrp # hrp \/ d.data[1] > 16 \/ d.variant # VariantOf(d.data[1]) THEN Failed
     ELSE IF program = Failed \/ ~ProgramLength(d.data[1], Len(program)) THEN Failed
     ELSE <<d.data[1]>> \o program

-------------------------------------------------------------------------------
(* What they should be *)

\* Bytes regrouped in fives are read back, and of all fives only those that bytes give.
BitsRight(in) ==
  LET fives == ConvertBits(<<>>, in, 5, 8, TRUE)
      bytes == ConvertBits(<<>>, in, 8, 5, FALSE)
  IN /\ ConvertBits(<<>>, fives, 8, 5, FALSE) = in
     /\ (\A i \in DOMAIN in : in[i] < 32) /\ bytes # Failed =>
          ConvertBits(<<>>, bytes, 5, 8, TRUE) = in

\* A witness program's address is read back as version and program, in either case, under
\* its own name only, and not if one character of its data is another.
SegwitRight(hrp, other, program) ==
  \A version \in {0, 1, 16, 17} :
    LET address == SegwitEncode(hrp, version, program)
        Changed(i, v) == [address EXCEPT !.data[i] = v]
        capitals == [i \in 1 .. Len(hrp) |-> hrp[i] - 32]
    IN address # NoString =>
         /\ \A a \in {address, [address EXCEPT !.upper = TRUE, !.hrp = capitals]} :
              SegwitDecode(hrp, a) = <<version>> \o program
         /\ SegwitDecode(hrp, [address EXCEPT !.hrp = capitals]) = Failed
         /\ SegwitDecode(other, address) = Failed
         /\ SegwitDecode(other, [address EXCEPT !.hrp = other]) = Failed
         /\ \A i \in DOMAIN address.data :
              \A v \in {(address.data[i] + 1) % 32, (address.data[i] + 16) % 32} :
                SegwitDecode(hrp, Changed(i, v)) = Failed
===============================================================================
