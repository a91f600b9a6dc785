----------------------------- MODULE MCAlgorithms -----------------------------
(***************************************************************************)
(* The pure algorithms, those of addresses and the others, each over inputs *)
(* of its own: kind says which, and input grows by one symbol at a time, or, *)
(* for the tree, by an insertion or a removal. Every property is about the *)
(* inputs of some kinds.                                                   *)
(***************************************************************************)
EXTENDS AddressAlgorithms, AvlTree, GridKernel, WildcardPattern, PrivkeyCodes, Bech32, TextLines, TLC

VARIABLE tree

vars == <<kind, input, tree>>

MCEntries == {<<i, i>> : i \in 1 .. 9} \cup {<<2, 3>>, <<5, 7>>}

\* Characters of addresses: one letter in both cases and one in upper case only. Others that
\* may be typed: the other case, and a digit that is not written.
MCOtherCase == "a" :> "A" @@ "A" :> "a" @@ "b" :> "B" @@ "B" :> "b" @@ "2" :> "2"
MCAlphabet == {"a", "A", "B"}
MCFixed == <<"A", "B">>

\* Lines of a server's answer: an item, the same with another reward, one of another public
\* key, one twice, and three that are refused. All others have not all separators.
MCField(pattern, pubkey, reward) ==
  [pattern |-> pattern, pubkey |-> pubkey, addrtype |-> 0, reward |-> reward]
MCFields ==
  <<1>> :> MCField(1, 1, 1) @@ <<2>> :> MCField(1, 1, 2) @@ <<1, 1>> :> MCField(2, 2, 1)
    @@ <<2, 2>> :> MCField(1, 1, 1) @@ <<1, 2>> :> MCField(3, 1, 1)
    @@ <<2, 1>> :> MCField(1, 2, -1) @@ <<1, 1, 1>> :> MCField(1, BadPubkey, 1)
MCDifficulty == <<2, 3, 0>>
Cut == -1

\* Addresses of four bytes
MCAddresses == {<<v, x, y, z>> : v \in 1 .. BYTE - 1, x, y, z \in 0 .. BYTE - 1}

\* The kernels' memory, of any stride
Strided(stride) == INSTANCE KernelMemory WITH STRIDE <- stride

-------------------------------------------------------------------------------
(* What the inputs are made of *)

\* Two points of the curve and their negatives, and one more
GridPoints ==
  LET Before(q) == Cardinality({o[1] : o \in {c \in Curve : c[1] < q[1]}})
  IN {q \in Curve : Before(q) < 2 \/ (Before(q) = 2 /\ 2 * q[2] < P)}

\* l L i I: letters of which one case is a digit of addresses; 1, A, a, b
CaseSymbols == {49, 65, 97, 98, 73, 105, 76, 108}

Symbols ==
  AddressSymbols @@
  [letters |-> CaseSymbols,     hexprefix |-> {0, 1, 10, 15, CharX},
   field |-> 0 .. R - 1,        grid |-> GridPoints,
   pattern |-> Characters \cup {Star},
   file |-> {1, 2, EOL},        body |-> {1, 2, EOL, Cut},
   privkey |-> 0 .. BYTE - 1,
   bytes |-> {0, 129, 255},     seed |-> {0, 1, 254, 255},
   regroup |-> {0, 1, 16, 31, 255},
   program |-> {0, 170, 255}]

Longest ==
  [prefix |-> 4, letters |-> 4, field |-> 2, grid |-> Columns + Rows, bounds |-> 4, suffix |-> 3,
   hexsuffix |-> 2 * HBYTES, hexprefix |-> 6, pattern |-> 5, file |-> 9,
   body |-> 7, base58 |-> 4, privkey |-> KeyBytes, bytes |-> 6,
   seed |-> 3, regroup |-> 5, program |-> MaxProgram]

\* Tables out of order are not searched: the next bound is after the last, or ends its range.
InOrderWith(v) ==
  LET last == IF input = <<>> THEN -1 ELSE input[Len(input)]
  IN last < v \/ (Len(input) % 2 = 1 /\ last = v)

Init == /\ kind \in DOMAIN Symbols \cup {"tree"}
        /\ input = IF kind = "tree" THEN {} ELSE <<>>
        /\ tree = EmptyTree

Grow ==
  /\ kind # "tree"
  /\ Len(input) < Longest[kind]
  /\ \E v \in Symbols[kind] : /\ IF kind = "bounds" THEN InOrderWith(v) ELSE TRUE
                              /\ input' = Append(input, v)
  /\ UNCHANGED <<kind, tree>>

Restart == /\ kind # "tree" /\ input # <<>>
           /\ input' = <<>>
           /\ UNCHANGED <<kind, tree>>

\* vg_prefix_add and vg_prefix_delete; an entry that overlaps one of the tree is refused.
Insert ==
  /\ kind = "tree"
  /\ \E i \in Entries \ input :
       /\ tree' = Inserted(tree, i)
       /\ input' = IF \E j \in input : Overlap(i, j) THEN input ELSE input \cup {i}
  /\ UNCHANGED kind

Remove ==
  /\ kind = "tree"
  /\ \E i \in input : tree' = Removed(tree, i) /\ input' = input \ {i}
  /\ UNCHANGED kind

Next == Grow \/ Restart \/ Insert \/ Remove

Spec == Init /\ [][Next]_vars

-------------------------------------------------------------------------------
(* What the algorithms should give *)

\* After any insertions and removals, double rotations on the way up included, the tree of
\* avl.h has the entries that were put in and not taken out, in order, is linked both ways,
\* its marks are the differences of heights, and every number is found in its range.
TreeRight ==
  kind = "tree" => /\ BalancedTree(tree, input)
                   /\ LinkedTree(tree, input)
                   /\ WalkedTree(tree, input)
                   /\ SearchedTree(tree, input, 0 .. 10)

\* The carries, borrows and last subtractions of the kernel's arithmetic leave no result
\* that is not the sum, difference, Montgomery product or inverse modulo P.
FieldRight ==
  kind = "field" /\ Len(input) = 2 =>
    LET a == input[1]
        b == input[2]
    IN /\ SumsRight(a, b)
       /\ a \in Residues /\ b \in Residues => ProductsRight(a, b)
       /\ a \in Residues => InverseRight(a)

\* The kernel's arithmetic is that of its field; the three kernels hand each other numbers in
\* strided memory, where no two words share a place and all fit; and what the last one hashes
\* for a cell is the sum of its column's and its row's point.
PointsRight ==
  /\ FieldRight
  /\ kind = "grid" /\ input = <<>> =>
       \A stride \in {2, 4, 6}, cells \in 0 .. 7 : Strided(stride)!MemoryRight(cells)
  /\ kind = "grid" /\ Len(input) = Columns + Rows =>
       GridRight(SubSeq(input, 1, Columns), SubSeq(input, Columns + 1, Columns + Rows))

\* Of the patterns that are accepted, an address matches as a glob would, and the difficulty
\* that is shown, of a glob or a prefix, is the share of addresses that match; the case variants
\* of a prefix are all prefixes of digits that differ in case, and a hexadecimal one, of odd
\* length or even, has the range of its addresses; the patterns of a file and the work items
\* of a server are those of their lines, wherever what arrives is cut.
PatternsAsMeant ==
  /\ kind = "pattern" =>
       \A ci \in BOOLEAN :
         /\ MatchIsGlob(input, ci, UNION {[1 .. n -> MCAlphabet] : n \in 2 .. 4})
         /\ DifficultyRight(input, ci, 5)
  /\ kind = "prefix" => \A type \in {0, 1, 3, Byte - 1} : DifficultyOfPrefix(type, input)
  /\ kind = "letters" => VariantsRight(input)
  /\ kind = "hexprefix" => HexRangeRight(input)
  /\ kind = "file" => FileRight(input)
  /\ kind = "body" => BodyRight(input, Cut)

\* What the other encoders write is read back by the decoders and only that; checksums, groups of
\* bits and the cell of a TON address are those of the formats; a private key is read back from
\* every format it is printed in; the host's seed keeps up with the kernel's.
CodesReadBack ==
  /\ kind = "privkey" /\ Len(input) = KeyBytes /\ Number(input, BYTE) \in 1 .. Order - 1 =>
       PrivkeyRight(Number(input, BYTE), {Main, Test, 6}, <<0, 1>>)
  /\ kind = "bytes" => Base32Right(input) /\ ChecksumRight(input) /\ (input # <<>> => CellRight(input))
  /\ kind = "seed" /\ input # <<>> => AdvanceRight(input, {1, 255, 256, 257, 65535, 65536, 16777215})
  /\ kind = "regroup" => BitsRight(input)
  /\ kind = "program" => SegwitRight(<<98, 99>>, <<116, 98>>, input)
===============================================================================
