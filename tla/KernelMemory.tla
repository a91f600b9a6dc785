----------------------------- MODULE KernelMemory -----------------------------
(***************************************************************************)
(* How the kernels of calc_addrs.cl lay out numbers in global memory:      *)
(* bundles of STRIDE numbers of NWORDS words, first the first words of     *)
(* all, then the second, so that neighbours in a group of work items write *)
(* neighbouring words. A coordinate of a point is a number, and a bundle   *)
(* has those of STRIDE / 2 points, the xs before the ys. oclengine.c makes *)
(* the buffers, and reads and writes the same places.                      *)
(***************************************************************************)
EXTENDS Integers

CONSTANTS STRIDE,               \* ACCESS_STRIDE: words between two words of a number
          NWORDS

LayoutAssumed == STRIDE \in Nat \ {0} /\ STRIDE % 2 = 0 /\ NWORDS \in Nat \ {0}

Bundle == STRIDE * NWORDS       \* ACCESS_BUNDLE

\* Where a number and the coordinates of a point begin, and where the words of it are.
ZStart(cell) == ((cell \div STRIDE) * Bundle) + (cell % STRIDE)
XStart(cell) == (((2 * cell) \div STRIDE) * Bundle) + (cell % (STRIDE \div 2))
YStart(cell) == XStart(cell) + (STRIDE \div 2)
WordPlace(start, i) == start + ((i - 1) * STRIDE)

round_up_pow2(x, a) == ((x + (a - 1)) \div a) * a

\* The words of the buffers for so many numbers or points: vg_opencl_loop counts bytes, 32
\* of a number and 4096 of a bundle.
NumberWords(cells) == round_up_pow2(NWORDS * cells, Bundle)
PointWords(cells) == round_up_pow2(NWORDS * 2 * cells, Bundle)

-------------------------------------------------------------------------------
(* What it should be *)

\* No two words of numbers share a place.
NumbersApart(cells) == \A c, d \in 0 .. cells - 1, i, j \in 1 .. NWORDS :
  WordPlace(ZStart(c), i) = WordPlace(ZStart(d), j) => c = d /\ i = j

\* No two words of coordinates do.
PointsApart(cells) == \A c, d \in 0 .. cells - 1, i, j \in 1 .. NWORDS :
  /\ WordPlace(XStart(c), i) = WordPlace(XStart(d), j) => c = d /\ i = j
  /\ WordPlace(YStart(c), i) = WordPlace(YStart(d), j) => c = d /\ i = j
  /\ WordPlace(XStart(c), i) # WordPlace(YStart(d), j)

\* The buffers have all places, although the last bundle need not be full.
BuffersLargeEnough(cells) == \A c \in 0 .. cells - 1, i \in 1 .. NWORDS :
  /\ WordPlace(ZStart(c), i) \in 0 .. NumberWords(cells) - 1
  /\ {WordPlace(XStart(c), i), WordPlace(YStart(c), i)} \subseteq 0 .. PointWords(cells) - 1

MemoryRight(cells) == NumbersApart(cells) /\ PointsApart(cells) /\ BuffersLargeEnough(cells)
===============================================================================
