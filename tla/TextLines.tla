------------------------------ MODULE TextLines ------------------------------
(***************************************************************************)
(* Lines that arrive in pieces: the patterns of a file, read in blocks     *)
(* (vg_read_file of util.c), and the work items of a server's answer, of   *)
(* which any part may come at a time (server_body_reader of                *)
(* oclvanityminer.c). A text is a sequence of characters.                  *)
(***************************************************************************)
EXTENDS Integers, Sequences, FiniteSets

CONSTANTS EOL,                  \* ends a line: \n, or in a file \r too
          BlkSize,              \* characters of a block (16384)
          FirstSize, MostSize,  \* of the buffer for the answer (4096, 1048576)
          Fields,               \* of the lines that have all separators, what they say
          Difficulty            \* of the patterns (vg_prefix_get_difficulty), 0 if refused

ASSUME LinesAssumption ==
  /\ {BlkSize, FirstSize, MostSize} \subseteq Nat \ {0} /\ FirstSize <= MostSize
  /\ \A l \in DOMAIN Fields : Fields[l].pattern \in DOMAIN Difficulty

\* The lines of a text and, last, what no character has ended yet.
RECURSIVE Pieces(_, _)
Pieces(text, end) ==
  LET ends == {i \in DOMAIN text : text[i] = end}
      first == CHOOSE i \in ends : \A j \in ends : i <= j
  IN IF ends = {} THEN <<text>>
     ELSE <<SubSeq(text, 1, first - 1)>> \o Pieces(SubSeq(text, first + 1, Len(text)), end)

Front(s) == SubSeq(s, 1, Len(s) - 1)
Last(s) == s[Len(s)]
NotEmpty(lines) == SelectSeq(lines, LAMBDA l : l # <<>>)

-------------------------------------------------------------------------------
(* A file of patterns *)

\* vg_read_file. What is left of a line goes to the front of the next block; pat is set at
\* the start of a block, so that the first line of a block is a pattern even if it is empty;
\* a block that is full of one line, and the end of the file, end the reading.
RECURSIVE ReadBlocks(_, _)
ReadBlocks(rest, file) ==
  LET room == BlkSize - Len(rest)
      count == IF room < Len(file) THEN room ELSE Len(file)
      pieces == Pieces(rest \o SubSeq(file, 1, count), EOL)
      lines == Front(pieces)
  IN CASE count = 0 -> <<>>
       [] lines = <<>> -> ReadBlocks(Last(pieces), SubSeq(file, count + 1, Len(file)))
       [] OTHER -> <<lines[1]>> \o NotEmpty(Tail(lines))
                     \o ReadBlocks(Last(pieces), SubSeq(file, count + 1, Len(file)))

ReadFile(file) == ReadBlocks(<<>>, file)

-------------------------------------------------------------------------------
(* The work items of a server *)

\* server_workitem_new: no item if the address type, the reward, the pattern or the public
\* key is refused.
NoItem == [pattern |-> 0, pubkey |-> 0, reward |-> 0, value |-> 0]
BadPubkey == 0
WorkitemNew(f) ==
  IF \/ f.addrtype \notin 0 .. 255 \/ f.reward < 0
     \/ Difficulty[f.pattern] = 0 \/ f.pubkey = BadPubkey
  THEN NoItem
  ELSE [pattern |-> f.pattern, pubkey |-> f.pubkey, reward |-> f.reward,
        value |-> (f.reward * 12) \div Difficulty[f.pattern]]

NoBatches == <<>>               \* a batch for each public key

\* workitem_cmp
SameWorkitem(a, b) == a.pattern = b.pattern /\ a.reward = b.reward

\* pubkeybatch_avl_search
BatchOf(batches, pubkey) ==
  IF pubkey \in DOMAIN batches THEN batches[pubkey] ELSE [items |-> {}, nitems |-> 0, total_value |-> 0]

\* server_workitem_add; workitem_avl_insert refuses an item that is there.
WorkitemAdd(batches, item) ==
  LET batch == BatchOf(batches, item.pubkey)
      added == IF \E i \in batch.items : SameWorkitem(i, item) THEN batch
               ELSE [items |-> batch.items \cup {item}, nitems |-> batch.nitems + 1,
                     total_value |-> batch.total_value + item.value]
  IN [k \in DOMAIN batches \cup {item.pubkey} |-> IF k = item.pubkey THEN added ELSE batches[k]]

\* The lines in turn; a bad line is left out.
Batches(lines, before) ==
  LET item(line) == IF line \in DOMAIN Fields THEN WorkitemNew(Fields[line]) ELSE NoItem
      b[n \in 0 .. Len(lines)] ==
        IF n = 0 THEN before
        ELSE IF item(lines[n]) = NoItem THEN b[n - 1] ELSE WorkitemAdd(b[n - 1], item(lines[n]))
  IN b[Len(lines)]

\* server_request_t: part is part_buf up to part_end.
NewRequest == [ok |-> TRUE, part |-> <<>>, off |-> 0, size |-> 0, batches |-> NoBatches]

\* part_size doubles until it suffices.
RECURSIVE Sized(_, _)
Sized(size, need) == IF size >= need THEN size ELSE Sized(2 * size, need)

\* server_body_reader: the lines that are read are dropped when their room is needed; a part
\* that asks for more room than MostSize ends the request.
BodyReader(req, buf) ==
  LET Need(end) == end + Len(buf) + 1
      move == req.size < Need(Len(req.part)) /\ req.off > 0
      part == IF move THEN SubSeq(req.part, req.off + 1, Len(req.part)) ELSE req.part
      off == IF move THEN 0 ELSE req.off
      size == IF req.size >= Need(Len(part)) THEN req.size
              ELSE Sized(IF req.size = 0 THEN FirstSize ELSE req.size, Need(Len(part)))
      all == part \o buf
      pieces == Pieces(SubSeq(all, off + 1, Len(all)), EOL)
      done == Last(pieces) = <<>>
  IN IF ~req.ok \/ buf = <<>> THEN req
     ELSE IF size > MostSize THEN [req EXCEPT !.ok = FALSE]
     ELSE [ok |-> TRUE, size |-> size, batches |-> Batches(Front(pieces), req.batches),
           part |-> IF done THEN <<>> ELSE all,
           off |-> IF done THEN 0 ELSE Len(all) - Len(Last(pieces))]

-------------------------------------------------------------------------------
(* What they should be *)

\* Wherever blocks end, the patterns are the ended lines that are not empty, up to the first
\* that fills a block; empty ones there are at the start of blocks only.
FileRight(file) ==
  LET pieces == Pieces(file, EOL)
      long == {i \in DOMAIN pieces : Len(pieces[i]) >= BlkSize}
      read == IF long = {} THEN Len(pieces) - 1 ELSE (CHOOSE i \in long : \A j \in long : i <= j) - 1
      patterns == ReadFile(file)
  IN /\ NotEmpty(patterns) = NotEmpty(SubSeq(pieces, 1, read))
     /\ BlkSize * (Len(patterns) - Len(NotEmpty(patterns))) <= Len(file) + BlkSize - 1

\* Wherever the answer is cut, its items are those of its ended lines, each once and with its
\* value in the sum of its batch; the request fails only if the line that has not ended and
\* the part after it do not fit.
BodyRight(answer, cut) ==
  LET parts == Pieces(answer, cut)
      Whole(n) == SelectSeq(SubSeq(answer, 1, n), LAMBDA c : c # cut)
      req[n \in 0 .. Len(parts)] == IF n = 0 THEN NewRequest ELSE BodyReader(req[n - 1], parts[n])
      At(n) == LET sums[i \in 0 .. n] == IF i = 0 THEN 0 ELSE sums[i - 1] + Len(parts[i]) IN sums[n]
      text == Whole(Len(answer))
      Unended(n) == Last(Pieces(SubSeq(text, 1, At(n)), EOL))
      fits == \A n \in DOMAIN parts :
                parts[n] = <<>> \/ Sized(FirstSize, Len(Unended(n - 1)) + Len(parts[n]) + 1) <= MostSize
      lines == {Pieces(text, EOL)[i] : i \in 1 .. Len(Pieces(text, EOL)) - 1}
      items == {WorkitemNew(Fields[l]) : l \in lines \cap DOMAIN Fields} \ {NoItem}
      Of(k) == {i \in items : i.pubkey = k}
      Sum(s) == LET v[t \in SUBSET s] ==
                      IF t = {} THEN 0 ELSE LET i == CHOOSE i \in t : TRUE IN i.value + v[t \ {i}]
                IN v[s]
      final == req[Len(parts)]
  IN /\ final.ok <=> fits
     /\ final.ok =>
          final.batches = [k \in {i.pubkey : i \in items} |->
                             [items |-> Of(k), nitems |-> Cardinality(Of(k)), total_value |-> Sum(Of(k))]]
===============================================================================
