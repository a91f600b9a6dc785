------------------------------- MODULE ByteCodes -------------------------------
(***************************************************************************)
(* Conversions of bytes that addresses, keys and ranges go through: Base32 *)
(* and its checksum (base32.c, crc16.c, stellar.c), Base64url, the cell a  *)
(* TON address hashes and the counter in a seed (oclvanitygen_ed25519.c),  *)
(* and the ranges of a hexadecimal prefix (pattern.c). Bytes have eight    *)
(* bits, as in the code; a reader takes a sequence of them as bits.        *)
(***************************************************************************)
EXTENDS Base58, Bitwise

CONSTANT AddressBytes           \* bytes of a hexadecimal address

ASSUME CodesAssumption == AddressBytes \in Nat \ {0}

\* The bits of numbers of a width, the first bit of the first number first, and the numbers
\* of whole groups of bits.
BitsOf(s, width) ==
  [i \in 1 .. Len(s) * width |-> (s[((i - 1) \div width) + 1] \div 2 ^ (width - 1 - ((i - 1) % width))) % 2]
Grouped(bits, width) ==
  [g \in 1 .. Len(bits) \div width |-> Number(SubSeq(bits, ((g - 1) * width) + 1, g * width), 2)]
Padded(bits, width) == bits \o Repeat(0, (-Len(bits)) % width)

Part(s, first, length) == SubSeq(s, first, IF first + length - 1 > Len(s) THEN Len(s) ELSE first + length - 1)

-------------------------------------------------------------------------------
(* Base32: sequences of five octets in eight blocks *)

Octet(block) == (5 * block) \div 8                              \* get_octet
Junk(block) == 3 - ((5 * block) % 8)                            \* get_offset
ShiftRight(byte, n) == IF n > 0 THEN byte \div 2 ^ n ELSE (byte * 2 ^ (-n)) % 256

Block_NoSecond(plain, block) == ShiftRight(plain[Octet(block) + 1], Junk(block)) % 32   \* mutant

\* A block: the end of one octet and, if it goes on, the beginning of the next.
Block(plain, block) ==
  LET o == Octet(block) + 1
      first == ShiftRight(plain[o], Junk(block))
      second == IF Junk(block) < 0 /\ o < Len(plain) THEN ShiftRight(plain[o + 1], 8 + Junk(block)) ELSE 0
  IN (first | second) % 32

Pad == -1

\* encode_sequence, base32_encode
EncodedSequence(plain) ==
  [b \in 1 .. 8 |-> IF Octet(b - 1) >= Len(plain) THEN Pad ELSE Block(plain, b - 1)]

RECURSIVE Base32(_)
Base32(plain) ==
  IF plain = <<>> THEN <<>>
  ELSE EncodedSequence(Part(plain, 1, 5)) \o Base32(SubSeq(plain, 6, Len(plain)))

\* decode_sequence: up to the first padding, whole octets.
DecodedSequence(coded) ==
  LET plain[b \in 0 .. 8] ==
        IF b = 0 THEN Repeat(0, 5)
        ELSE LET o == Octet(b - 1) + 1
                 j == Junk(b - 1)
                 set == [plain[b - 1] EXCEPT ![o] = @ | ShiftRight(coded[b], -j)]
             IN IF j < 0 THEN [set EXCEPT ![o + 1] = ShiftRight(coded[b], -(8 + j))] ELSE set
      end == CHOOSE b \in 0 .. 8 : (b = 8 \/ coded[b + 1] = Pad) /\ \A i \in 1 .. b : coded[i] # Pad
  IN SubSeq(plain[end], 1, IF end = 8 THEN 5 ELSE Octet(end))

RECURSIVE Base32Decoded(_)
Base32Decoded(coded) ==
  IF coded = <<>> THEN <<>>
  ELSE LET plain == DecodedSequence(Part(coded, 1, 8))
       IN IF Len(plain) < 5 THEN plain ELSE plain \o Base32Decoded(SubSeq(coded, 9, Len(coded)))

-------------------------------------------------------------------------------
(* The checksum of XLM and TON addresses *)

Shifted(crc) == IF crc >= 32768 THEN ((2 * crc) % 65536) ^^ 4129 ELSE 2 * crc

CrcTable[j \in 0 .. 255] == LET s[i \in 0 .. 8] == IF i = 0 THEN 256 * j ELSE Shifted(s[i - 1]) IN s[8]

\* crc16: a byte at a time; the top byte of the sum so far goes into the table.
Crc16(bytes) ==
  LET c[i \in 0 .. Len(bytes)] ==
        IF i = 0 THEN 0
        ELSE LET crc == c[i - 1] IN CrcTable[bytes[i] ^^ (crc \div 256)] ^^ ((crc % 256) * 256)
  IN c[Len(bytes)]

\* strkey_encode: the checksum's low byte first.
Strkey(version, bytes) ==
  LET buf == <<version>> \o bytes
      crc == Crc16(buf)
  IN Base32(buf \o <<crc % 256, crc \div 256>>)

\* base64url_encode, for groups of three bytes
RECURSIVE Base64url(_)
Base64url(bytes) ==
  IF Len(bytes) < 3 THEN <<>>
  ELSE LET v == 65536 * bytes[1] + 256 * bytes[2] + bytes[3]
       IN [i \in 1 .. 4 |-> (v \div 64 ^ (4 - i)) % 64] \o Base64url(SubSeq(bytes, 4, Len(bytes)))

\* ton_encode_address, of the tag, workchain 0 and a hash
TonAddress(tag, hash) ==
  LET buf == <<tag, 0>> \o hash
      crc == Crc16(buf)
  IN Base64url(buf \o <<crc \div 256, crc % 256>>)

\* ton_data_cell_hash: the key after a prefix, either at the next byte or at the next bit
\* but one; the carry holds the bit before.
TonCell(shifted, carry, key) ==
  IF shifted
  THEN <<carry | (key[1] \div 2)>>
       \o [i \in 1 .. Len(key) - 1 |-> ((key[i] * 128) % 256) | (key[i + 1] \div 2)]
       \o <<((key[Len(key)] * 128) % 256) | 32>>
  ELSE key \o <<64>>

-------------------------------------------------------------------------------
(* The counter in a seed, its least significant byte first *)

\* advance_seed: until nothing is carried.
Advanced(seed, n) ==
  LET carry[j \in 0 .. Len(seed)] == IF j = 0 THEN n ELSE (carry[j - 1] + seed[j]) \div 256
  IN [j \in DOMAIN seed |-> (carry[j - 1] + seed[j]) % 256]

\* increment_seed, in the kernel
Incremented(seed) ==
  LET full == CHOOSE n \in 0 .. Len(seed) :
                (\A j \in 1 .. n : seed[j] = 255) /\ (n = Len(seed) \/ seed[n + 1] # 255)
  IN [j \in DOMAIN seed |-> IF j <= full THEN 0 ELSE IF j = full + 1 THEN seed[j] + 1 ELSE seed[j]]

-------------------------------------------------------------------------------
(* The range of a hexadecimal prefix *)

CharX == 16                     \* after the sixteen digits

SkipX(hex) == IF Len(hex) >= 2 /\ hex[1] = 0 /\ hex[2] = CharX THEN SubSeq(hex, 3, Len(hex)) ELSE hex

\* hex_dec, of an even number of characters; empty if it is refused
HexDecoded(hex) ==
  LET digits == SkipX(hex)
  IN IF CharX \in {digits[i] : i \in DOMAIN digits} THEN <<>> ELSE Grouped(BitsOf(digits, 4), 8)

\* copy_nbits: whole bytes, and the high bits of one more.
CopyBits(dst, src, bits) ==
  LET whole == bits \div 8
      low == 2 ^ (8 - (bits % 8))
  IN [i \in DOMAIN dst |->
        IF i <= whole THEN src[i]
        ELSE IF i = whole + 1 /\ bits % 8 # 0 THEN ((src[i] \div low) * low) + (dst[i] % low)
        ELSE dst[i]]

\* The bounds of get_prefix_ranges for ADDR_TYPE_ETH; empty if hex_dec refuses the prefix
HexRange(prefix) ==
  LET digits == SkipX(prefix)
      bin == HexDecoded(digits \o Repeat(0, 2 * AddressBytes - Len(digits)))
      Copied(byte) ==
        LET filled == bin \o Repeat(0, AddressBytes - Len(bin))
        IN CopyBits(Repeat(byte, AddressBytes), filled, 4 * Len(digits))
  IN IF bin = <<>> THEN <<>> ELSE <<Copied(0), Copied(255)>>

-------------------------------------------------------------------------------
(* What they should be *)

\* Base32 takes the bits in fives, and is read back.
Base32Right(bytes) ==
  LET coded == Base32(bytes)
  IN /\ SelectSeq(coded, LAMBDA c : c # Pad) = Grouped(Padded(BitsOf(bytes, 8), 5), 5)
     /\ Base32Decoded(coded \o <<Pad>>) = bytes

\* The checksum is the one taken bit by bit, an address carries it where it is looked for,
\* and groups of three bytes are read as four of six bits.
ChecksumRight(bytes) ==
  LET bits == BitsOf(bytes, 8)
      c[i \in 0 .. Len(bits)] ==
        IF i = 0 THEN 0
        ELSE LET crc == c[i - 1] IN Shifted(crc ^^ (32768 * bits[i]))
      strkey == Base32Decoded(Append(Strkey(48, bytes), Pad))
      length == Len(strkey)
  IN /\ Crc16(bytes) = c[Len(bits)]
     /\ SubSeq(strkey, 1, length - 2) = <<48>> \o bytes
     /\ Crc16(SubSeq(strkey, 1, length - 2) \o <<strkey[length], strkey[length - 1]>>) = 0
     /\ (Len(bytes) + 1) % 3 = 0 =>
          LET sent == Grouped(BitsOf(TonAddress(81, bytes), 6), 8)
          IN Crc16(sent) = 0 /\ SubSeq(sent, 3, Len(sent) - 2) = bytes

\* The cell holds the bits of the key, one bit later or not, and ends in one set bit.
CellRight(bytes) ==
  \A carry \in {0, 128} :
    LET bits == BitsOf(bytes, 8)
    IN /\ BitsOf(TonCell(TRUE, carry, bytes), 8) = <<carry \div 128>> \o bits \o <<0, 1, 0, 0, 0, 0, 0>>
       /\ BitsOf(TonCell(FALSE, 0, bytes), 8) = bits \o <<0, 1, 0, 0, 0, 0, 0, 0>>

Reversed(s) == [i \in 1 .. Len(s) |-> s[Len(s) + 1 - i]]

\* Advancing a seed by n is n of the kernel's increments: the host's seed is the kernel's.
AdvanceRight(seed, steps) ==
  LET Of(s) == Number(Reversed(s), 256)
      all == 256 ^ Len(seed)
  IN /\ Of(Incremented(seed)) = (Of(seed) + 1) % all
     /\ \A n \in steps : Of(Advanced(seed, n)) = (Of(seed) + n) % all

\* The range of a prefix is the addresses that begin with it.
HexRangeRight(prefix) ==
  LET digits == SkipX(prefix)
      rest == 16 ^ (2 * AddressBytes - Len(digits))
      low == Number(digits, 16) * rest
      range == HexRange(prefix)
  IN CharX \notin {digits[i] : i \in DOMAIN digits} =>
       <<Number(range[1], 256), Number(range[2], 256)>> = <<low, low + rest - 1>>
===============================================================================
