--------------------------- MODULE AddressAlgorithms ---------------------------
(***************************************************************************)
(* The algorithms that take addresses apart and put them together, each    *)
(* over inputs of its own: kind says which, and input is a sequence of any *)
(* length of the symbols of that kind. What is true of them is proved of   *)
(* every input and checked of the short ones, with the other algorithms.   *)
(***************************************************************************)
EXTENDS PrefixRanges, KernelSearch

VARIABLES kind, input

\* Digits of a prefix or a suffix, hashes that bound ranges, bytes and what is no digit
AddressSymbols ==
  [prefix |-> 0 .. Base - 1,
   bounds |-> Hashes,
   suffix |-> 0 .. DBASE - 1,
   hexsuffix |-> 0 .. HEX - 1,
   base58 |-> (0 .. BYTE - 1) \cup {Space, Space + 1}]

InputTypeOK == kind \in DOMAIN AddressSymbols => input \in Seq(AddressSymbols[kind])

\* The ranges of get_prefix_ranges have the addresses of a type that are written with the
\* prefix, of the two greatest lengths, and no others, with the leading ones and the limits of
\* the type; what vg_b58_encode_check writes, vg_b58_decode_check reads back, and only that.
AddressesAsWritten ==
  /\ kind = "prefix" => \A type \in 0 .. Byte - 1 : RangesRight(type, input)
  /\ kind = "base58" => Base58Right(input)

\* The kernel's halving search finds the range of a hash in a table of disjoint ranges, whose
\* entries have the bytes of the hash wherever the host's number has them; and its tests of a
\* suffix, by mask or by remainder, accept what the host's accept.
KernelFindsWhatHostAccepts ==
  /\ kind = "bounds" => SearchRight(input)
  /\ kind = "suffix" => SuffixRight(input)
  /\ kind = "hexsuffix" => HexSuffixRight(input)
  /\ kind = "base58" /\ (\A i \in DOMAIN input : input[i] \in 0 .. BYTE - 1) =>
       \A tail \in {<<>>, <<0, 0>>, <<1, BYTE - 1>>} : EntryRight(Number(input \o tail, BYTE))
================================================================================
