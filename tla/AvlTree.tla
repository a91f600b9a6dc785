------------------------------- MODULE AvlTree -------------------------------
(***************************************************************************)
(* The balanced tree of avl.h, with its links and balance marks, as the    *)
(* tree of prefixes uses it (pattern.c): an item is a range of numbers, a  *)
(* range that overlaps one of the tree is refused, and a number is looked  *)
(* up by the range that has it. The miner's trees of work differ only in   *)
(* what they compare.                                                      *)
(***************************************************************************)
EXTENDS Integers, Sequences, FiniteSets

CONSTANT Entries                    \* ranges <<low, high>>
Nil == <<>>

LEFT == 0
CENT == 1
RIGHT == 2
Sides == {LEFT, RIGHT}
Other(s) == 2 - s

EmptyTree == [root |-> Nil,
              kid |-> [s \in Sides |-> [i \in Entries |-> Nil]],
              up |-> [i \in Entries |-> Nil],
              bal |-> [i \in Entries |-> CENT]]

-------------------------------------------------------------------------------
(* Rotations: towards the side opposite to s, whose subtree is too high *)

WithUp(t, n, p) == IF n = Nil THEN t ELSE [t EXCEPT !.up[n] = p]

WithKid(t, n, s, k) == WithUp([t EXCEPT !.kid[s][n] = k], k, n)

\* What hung from old's parent is now new.
Replaced(t, old, new) ==
  LET p == t.up[old]
  IN IF p = Nil THEN WithUp([t EXCEPT !.root = new], new, Nil)
     ELSE WithKid(t, p, IF t.kid[LEFT][p] = old THEN LEFT ELSE RIGHT, new)

\* _avl_rotate_ll, _avl_rotate_rr
Single(t, n, s) ==
  LET k == t.kid[s][n]
  IN WithKid(WithKid(Replaced(t, n, k), n, s, t.kid[Other(s)][k]), k, Other(s), n)

\* _avl_rotate_lr, _avl_rotate_rl
Double(t, n, s) ==
  LET k == t.kid[s][n]
      g == t.kid[Other(s)][k]
  IN WithKid(WithKid(WithKid(WithKid(Replaced(t, n, g),
       k, Other(s), t.kid[s][g]), n, s, t.kid[Other(s)][g]), g, s, k), g, Other(s), n)

Bal(t, n, b) == [t EXCEPT !.bal[n] = b]

DoubleMarks_Left(t, n, k, g, s) ==                                 \* mutant
  Bal(Bal(Bal(t, k, IF t.bal[g] = Other(s) THEN s ELSE CENT), n, CENT), g, CENT)

\* The marks after a double rotation of n, its child k and its grandchild g.
DoubleMarks(t, n, k, g, s) ==
  Bal(Bal(Bal(t, k, IF t.bal[g] = Other(s) THEN s ELSE CENT),
                 n, IF t.bal[g] = s THEN Other(s) ELSE CENT), g, CENT)

-------------------------------------------------------------------------------
(* avl_insert_fix, from the new item n upwards *)

RECURSIVE InsertFix(_, _)
InsertFix(t, n) ==
  LET p == t.up[n]
      s == IF t.kid[LEFT][p] = n THEN LEFT ELSE RIGHT
      g == t.kid[Other(s)][n]
  IN IF p = Nil THEN t
     ELSE IF t.bal[p] = Other(s) THEN Bal(t, p, CENT)
     ELSE IF t.bal[p] = CENT THEN InsertFix(Bal(t, p, s), p)
     ELSE IF t.bal[n] = s THEN Bal(Bal(Single(t, p, s), n, CENT), p, CENT)
     ELSE DoubleMarks(Double(t, p, s), p, n, g, s)

Overlap(i, j) == i[1] <= j[2] /\ j[1] <= i[2]

\* Where vg_prefix_avl_insert ends from item n: at an overlap, or below an item on a side.
RECURSIVE Place(_, _, _)
Place(t, n, i) ==
  IF Overlap(n, i) THEN <<n, CENT>>
  ELSE LET s == IF n[1] > i[2] THEN LEFT ELSE RIGHT
       IN IF t.kid[s][n] = Nil THEN <<n, s>> ELSE Place(t, t.kid[s][n], i)

\* vg_prefix_avl_insert; a refused item changes nothing.
Inserted(t, i) ==
  IF t.root = Nil THEN [t EXCEPT !.root = i]
  ELSE LET p == Place(t, t.root, i)
       IN IF p[2] = CENT THEN t
          ELSE InsertFix([t EXCEPT !.kid[p[2]][p[1]] = i, !.up[i] = p[1]], i)

-------------------------------------------------------------------------------
(* avl_delete_fix, from parent p whose subtree with root n has lost height *)

\* The marks after a single rotation that leaves the height as it was.
ShrunkMark(t, p, n, s) == Bal(Bal(t, n, Other(s)), p, s)

RECURSIVE DeleteFix(_, _, _)
DeleteFix(t, n, p) ==
  LET s == IF t.kid[RIGHT][p] = n THEN LEFT ELSE RIGHT    \* the higher side
      k == t.kid[s][p]
      g == t.kid[Other(s)][k]
      Up(u, m) == DeleteFix(u, m, u.up[m])
  IN IF p = Nil THEN t
     ELSE IF t.bal[p] = CENT THEN Bal(t, p, s)
     ELSE IF t.bal[p] = Other(s) THEN Up(Bal(t, p, CENT), p)
     ELSE IF t.bal[k] = CENT THEN ShrunkMark(Single(t, p, s), p, k, s)
     ELSE IF t.bal[k] = s THEN Up(Bal(Bal(Single(t, p, s), k, CENT), p, CENT), k)
     ELSE Up(DoubleMarks(Double(t, p, s), p, k, g, s), g)

\* A parent with no child left has lost height itself.
FixFrom(t, n, p) ==
  IF t.kid[LEFT][p] = Nil /\ t.kid[RIGHT][p] = Nil
  THEN DeleteFix(Bal(t, p, CENT), p, t.up[p])
  ELSE DeleteFix(t, n, p)

RECURSIVE Leftmost(_, _)
Leftmost(t, n) == IF t.kid[LEFT][n] = Nil THEN n ELSE Leftmost(t, t.kid[LEFT][n])

RECURSIVE Ascend(_, _)
Ascend(t, n) ==
  IF t.up[n] = Nil \/ t.kid[RIGHT][t.up[n]] # n THEN t.up[n] ELSE Ascend(t, t.up[n])

\* avl_first, avl_next
First(t) == IF t.root = Nil THEN Nil ELSE Leftmost(t, t.root)

Succ(t, n) == IF t.kid[RIGHT][n] # Nil THEN Leftmost(t, t.kid[RIGHT][n]) ELSE Ascend(t, n)

\* avl_remove: an item with two children is replaced by its successor.
Removed(t, i) ==
  LET Clear(u) == [u EXCEPT !.kid[LEFT][i] = Nil, !.kid[RIGHT][i] = Nil, !.up[i] = Nil,
                            !.bal[i] = CENT]
  IN IF t.kid[LEFT][i] = Nil \/ t.kid[RIGHT][i] = Nil
     THEN LET k == IF t.kid[LEFT][i] # Nil THEN t.kid[LEFT][i] ELSE t.kid[RIGHT][i]
              u == Replaced(t, i, k)
          IN Clear(IF t.up[i] = Nil THEN u ELSE FixFrom(u, k, t.up[i]))
     ELSE LET r == Succ(t, i)
              k == t.kid[RIGHT][r]
              near == t.up[r] = i
              u == IF near THEN Replaced(t, i, r)
                   ELSE WithKid(Replaced(WithKid(t, t.up[r], LEFT, k), i, r),
                                r, RIGHT, t.kid[RIGHT][i])
              v == WithKid(u, r, LEFT, t.kid[LEFT][i])
          IN Clear(FixFrom(Bal(v, r, t.bal[i]), k, IF near THEN r ELSE t.up[r]))

-------------------------------------------------------------------------------
(* Looking up, and the walk over the tree *)

RECURSIVE SearchFrom(_, _, _)
SearchFrom(t, n, x) ==
  IF n = Nil THEN Nil
  ELSE IF n[1] > x THEN SearchFrom(t, t.kid[LEFT][n], x)
  ELSE IF n[2] < x THEN SearchFrom(t, t.kid[RIGHT][n], x)
  ELSE n

\* vg_prefix_avl_search
Lookup(t, x) == SearchFrom(t, t.root, x)

RECURSIVE Walk(_, _)
Walk(t, n) == IF n = Nil THEN <<>> ELSE <<n>> \o Walk(t, Succ(t, n))

-------------------------------------------------------------------------------
(* What the tree should be, apart from how it is kept *)

RECURSIVE Height(_, _)
Height(t, n) ==
  IF n = Nil THEN 0
  ELSE LET l == Height(t, t.kid[LEFT][n])
           r == Height(t, t.kid[RIGHT][n])
       IN 1 + IF l > r THEN l ELSE r

\* Each mark says by how much the right side is higher, at most one.
BalancedTree(t, in) ==
  \A n \in in : Height(t, t.kid[RIGHT][n]) - Height(t, t.kid[LEFT][n]) = t.bal[n] - CENT

LinkedTree(t, in) ==
  /\ t.root = Nil <=> in = {}
  /\ t.root # Nil => t.up[t.root] = Nil
  /\ \A n \in in : \A s \in Sides :
       t.kid[s][n] # Nil => t.kid[s][n] \in in /\ t.up[t.kid[s][n]] = n

\* The walk from avl_first by avl_next meets every item, in order.
WalkedTree(t, in) ==
  LET w == Walk(t, First(t))
  IN /\ {w[k] : k \in 1 .. Len(w)} = in /\ Len(w) = Cardinality(in)
     /\ \A k \in 1 .. Len(w) - 1 : w[k][2] < w[k + 1][1]

SearchedTree(t, in, numbers) ==
  \A x \in numbers :
    Lookup(t, x) = IF \E i \in in : i[1] <= x /\ x <= i[2]
                   THEN CHOOSE i \in in : i[1] <= x /\ x <= i[2] ELSE Nil
===============================================================================
