------------------------------ MODULE KernelSearch ------------------------------
(***************************************************************************)
(* The last kernel of calc_addrs.cl: whether a hash is reported. A hash    *)
(* and a bound are HWORDS words of HBASE values, the most significant      *)
(* first; the table is a sequence of ranges, a low and a high bound each,  *)
(* searched by halving; a suffix is a mask and a target (ETH) or a         *)
(* remainder (TRX), the latter of a number of bytes taken one by one.      *)
(***************************************************************************)
EXTENDS Base58

CONSTANTS HWORDS, HBASE,        \* words of a hash, and their values
          LWIDTH,               \* bytes of a ulong
          MaxSuffix,            \* digits a suffix may have
          HEX, HBYTES,          \* values of a hexadecimal digit, bytes of an address
          Addresses             \* addresses of TRX, of more bytes than a ulong

\* Nine digits and a byte are just below 2^64.
ASSUME SearchAssumption ==
  /\ {HWORDS, LWIDTH, MaxSuffix, HBYTES} \subseteq Nat \ {0} /\ {HBASE, HEX} \subseteq Nat \ {0, 1}
  /\ Pow(DBASE, MaxSuffix) * BYTE <= Pow(BYTE, LWIDTH)

ASSUME AddressesAssumption ==
  \A a \in Addresses : a \in Seq(0 .. BYTE - 1) /\ Len(a) >= LWIDTH /\ a[1] # 0

Hashes == 0 .. Pow(HBASE, HWORDS) - 1
HashWords(v) == Filled(Digits(v, HBASE), HWORDS)

\* The first place in which two sequences of words differ, 0 if none.
Differ(a, b) ==
  LET d == {i \in 1 .. HWORDS : a[i] # b[i]}
  IN IF d = {} THEN 0 ELSE CHOOSE i \in d : \A j \in d : i <= j

Compare_LowOnly(a, range) ==                                       \* mutant
  LET l == Differ(a, range[1])
      h == Differ(a, range[2])
  IN CASE l # 0 /\ a[l] < range[1][l] -> -1
       [] h # 0 /\ a[h] >= range[2][h] -> 1
       [] OTHER -> IF h = 0 THEN 1 ELSE 0

\* hash160_ucmp_g
Compare(a, range) ==
  LET l == Differ(a, range[1])
      h == Differ(a, range[2])
  IN CASE l # 0 /\ a[l] < range[1][l] -> -1
       [] h # 0 /\ a[h] > range[2][h] -> 1
       [] OTHER -> 0

\* The loop of the search after some rounds: its bounds, and the entry that is found, 0 if
\* none. A hit ends it.
SearchRound(hash, table, l) ==
  LET i == l.low + ((l.high - l.low) \div 2)
      p == Compare(hash, table[i + 1])
  IN IF l.high < l.low THEN l
     ELSE [low |-> IF p > 0 THEN i + 1 ELSE l.low,
           high |-> IF p < 0 THEN i - 1 ELSE IF p = 0 THEN -1 ELSE l.high,
           found |-> IF p = 0 THEN i + 1 ELSE 0]

Halving(hash, table) ==
  LET l[k \in Nat] == IF k = 0 THEN [low |-> 0, high |-> Len(table) - 1, found |-> 0]
                      ELSE SearchRound(hash, table, l[k - 1])
  IN l

\* Each round has fewer entries left.
Search(hash, table) == Halving(hash, table)[Len(table)].found

-------------------------------------------------------------------------------
(* The table, filled by the host from the bounds of the prefixes, which are numbers      *)

\* vg_prefix_hash160_sort: without the lower four bytes and what is above the 24th byte
HashEntry(bound) ==
  LET bytes == Digits(bound, BYTE)
      nbytes == Len(bytes)
      all == HBYTES + CheckLen
      ncopy == IF nbytes >= all THEN HBYTES ELSE IF nbytes > CheckLen THEN nbytes - CheckLen ELSE 0
      nskip == IF nbytes >= all THEN nbytes - all ELSE 0
  IN Filled(SubSeq(bytes, nskip + 1, nskip + ncopy), HBYTES)

\* vg_prefix_ethaddr_sort
EthEntry(bound) ==
  LET bytes == Digits(bound, BYTE)
  IN Filled(SubSeq(bytes, 1, IF Len(bytes) >= HBYTES THEN HBYTES ELSE Len(bytes)), HBYTES)

-------------------------------------------------------------------------------
(* Suffixes of Base58 addresses: the address is a number of bytes, written in    *)
(* digits of DBASE values.                                                       *)

\* vg_prefix_context_add_patterns: suffix_len == 0 || suffix_len > 9
SuffixAccepted(suffix) == Len(suffix) \in 1 .. MaxSuffix

\* trx_check_suffix: the remainder by 58^suffix_len, a byte at a time in a ulong; divisor
\* and target are uint64_t at the host.
Ulong(v) == v % Pow(BYTE, LWIDTH)

SuffixFits(bytes, suffix) ==
  LET divisor == Ulong(Pow(DBASE, Len(suffix)))
      r[i \in 0 .. Len(bytes)] ==
        IF i = 0 THEN 0 ELSE Ulong(r[i - 1] * BYTE + bytes[i]) % divisor
  IN r[Len(bytes)] = Ulong(Number(suffix, DBASE))

\* vg_prefix_check_suffix_trx: the end of the address
AddressEnds(bytes, suffix) ==
  LET address == Encoded(bytes)
  IN /\ Len(address) >= Len(suffix)
     /\ SubSeq(address, Len(address) - Len(suffix) + 1, Len(address)) = suffix

-------------------------------------------------------------------------------
(* Suffixes of hexadecimal addresses: mask and target, bytes of two digits       *)

Bytes(digits) == [i \in 1 .. Len(digits) \div 2 |-> HEX * digits[2 * i - 1] + digits[2 * i]]

\* vg_prefix_context_add_patterns: suffix_len == 0 || suffix_len > 40
HexSuffixAccepted(suffix) == Len(suffix) \in 1 .. 2 * HBYTES

\* The suffix padded with 0 on the left
Target(suffix) == Bytes(Repeat(0, 2 * HBYTES - Len(suffix)) \o suffix)

\* Whole bytes from the right, and the low half of one more
Mask(suffix) ==
  LET full == Len(suffix) \div 2
      rest == Repeat(0, HBYTES - full) \o Repeat((HEX * HEX) - 1, full)
  IN IF Len(suffix) % 2 = 0 THEN rest ELSE [rest EXCEPT ![HBYTES - full] = HEX - 1]

\* vg_prefix_check_suffix; the kernel does the same a word at a time. The masks are low bits,
\* so what is left of a byte is a remainder.
Masked(bytes, suffix) ==
  \A i \in 1 .. HBYTES : bytes[i] % (Mask(suffix)[i] + 1) = Target(suffix)[i]

-------------------------------------------------------------------------------
\* hash_ec_point_search_prefix_suffix: the entry reported, 0 if the suffix alone is, -1 if
\* none; without a suffix, hash_ec_point_search_prefix.
Reported(hash, table, suffix, fits) ==
  LET entry == Search(hash, table)
  IN IF suffix /\ (~fits \/ Len(table) = 0) THEN (IF fits THEN 0 ELSE -1)
     ELSE IF entry = 0 THEN -1 ELSE entry

-------------------------------------------------------------------------------
(* What they should be *)

\* bounds: the low and the high bound of each range, in order
TableOf(bounds) ==
  [i \in 1 .. Len(bounds) \div 2 |-> <<HashWords(bounds[2 * i - 1]), HashWords(bounds[2 * i])>>]

\* The host sorts the prefixes, and no two of them share an address.
InOrder(bounds) ==
  \A i \in 1 .. Len(bounds) \div 2 :
    /\ bounds[2 * i - 1] <= bounds[2 * i]
    /\ \A j \in 1 .. i - 1 : bounds[2 * j] < bounds[2 * i - 1]

Containing(bounds, v) ==
  {i \in 1 .. Len(bounds) \div 2 : bounds[2 * i - 1] <= v /\ v <= bounds[2 * i]}

SearchRight(bounds) ==
  InOrder(bounds) =>
    \A v \in Hashes :
      LET entry == Search(HashWords(v), TableOf(bounds))
      IN IF Containing(bounds, v) = {} THEN entry = 0 ELSE entry \in Containing(bounds, v)

\* An entry has the bytes of the hash in the bound of an address: between what comes before
\* and the checksum, in their places even if the bound begins with zeros.
EntryRight(bound) ==
  /\ Len(HashEntry(bound)) = HBYTES /\ Len(EthEntry(bound)) = HBYTES
  /\ Number(HashEntry(bound), BYTE) = (bound \div Pow(BYTE, CheckLen)) % Pow(BYTE, HBYTES)
  /\ bound < Pow(BYTE, HBYTES) => Number(EthEntry(bound), BYTE) = bound

\* The kernel reports what the host accepts.
SuffixRight(suffix) ==
  SuffixAccepted(suffix) => \A a \in Addresses : SuffixFits(a, suffix) <=> AddressEnds(a, suffix)

HexSuffixRight(suffix) ==
  HexSuffixAccepted(suffix) => \A h \in [1 .. 2 * HBYTES -> 0 .. HEX - 1] :
    Masked(Bytes(h), suffix) <=> SubSeq(h, 2 * HBYTES - Len(suffix) + 1, 2 * HBYTES) = suffix
===============================================================================
