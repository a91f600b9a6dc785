------------------------------ MODULE GridKernel ------------------------------
(***************************************************************************)
(* The first two kernels of calc_addrs.cl and the coordinates of the       *)
(* third: a grid of points, one for each column (get_global_id(0)) and row *)
(* (get_global_id(1)), the column's point and the row's added with a Z     *)
(* coordinate of its own; the Zs inverted, many with one inversion; and    *)
(* the coordinates multiplied by the inverses. Between the kernels the     *)
(* numbers lie in global memory as KernelMemory has it.                    *)
(***************************************************************************)
EXTENDS KernelField, FiniteSets

CONSTANTS STRIDE,               \* ACCESS_STRIDE: words between two words of a number
          Columns, Rows,        \* the grid
          Batch                 \* numbers inverted together (invsize)

ASSUME GridAssumption ==
  /\ {Columns, Rows} \subseteq Nat \ {0} /\ Batch \in Nat \ {0, 1}
  /\ (Columns * Rows) % Batch = 0
  /\ STRIDE \in Nat \ {0} /\ STRIDE % 2 = 0

Cells == 0 .. Columns * Rows - 1

INSTANCE KernelMemory

\* Memory is a set of places and their words: that of numbers and where each begins, and
\* the number that begins at a place.
Stored(numbers) ==
  UNION {{<<WordPlace(n[1], i), n[2][i]>> : i \in Words} : n \in numbers}

WordAt(memory, place) == (CHOOSE w \in memory : w[1] = place)[2]

Loaded(memory, start) ==
  Chain(LAMBDA i, c : [d |-> WordAt(memory, WordPlace(start, i)), c |-> c], 0).d

\* Points as they are stored, each a cell and its coordinates.
StoredPoints(points) ==
  Stored({<<XStart(p[1]), p[2]>> : p \in points} \cup {<<YStart(p[1]), p[3]>> : p \in points})

\* vg_ocl_put_point_tpa, for all columns
PutPoints(columns) == StoredPoints({<<c - 1, columns[c][1], columns[c][2]>> : c \in 1 .. Columns})

-------------------------------------------------------------------------------
(* ec_add_grid *)

\* Half of a residue, made even by the modulus.
Halved(a) ==
  IF a[1] % 2 = 1 THEN LET even == Add(a, Modulus) IN Halve(even.d, even.c) ELSE Halve(a, 0)

\* y doubled: (e - 2x) b - (y1 + ry) z^3
DoubleY(e, x, b, ysum, z) ==
  ModSub(MulMont(ModSub(e, ModDouble(x)), b), MulMont(ysum, MulMont(MulMont(z, z), z)))

SumOf(e, x, b, ysum, z) == [x |-> x, y |-> Halved(DoubleY(e, x, b, ysum, z)), z |-> z]

\* The sum of two points that differ in x, times powers of z.
Sum(x1, y1, rx, ry) ==
  LET z == ModSub(x1, rx)
      b == ModSub(y1, ry)
      e == MulMont(ModAdd(x1, rx), MulMont(z, z))
  IN SumOf(e, ModSub(MulMont(b, b), e), b, ModAdd(y1, ry), z)

SumsStored(sums) ==
  [points |-> StoredPoints({<<s[1], s[2].x, s[2].y>> : s \in sums}),
   heap |-> Stored({<<ZStart(s[1]), s[2].z>> : s \in sums})]

AddGrid(columns, rows) ==
  LET memory == PutPoints(columns)
      At(cell) == Sum(Loaded(memory, XStart(cell % Columns)), Loaded(memory, YStart(cell % Columns)),
                      rows[(cell \div Columns) + 1][1], rows[(cell \div Columns) + 1][2])
  IN SumsStored({<<cell, At(cell)>> : cell \in Cells})

-------------------------------------------------------------------------------
(* heap_invert *)

Items == (Columns * Rows) \div Batch    \* get_global_size(0)

\* The products of the first numbers of a sequence.
Products(z) ==
  LET p[i \in 1 .. Batch] ==
        IF i = 1 THEN <<z[1]>>
        ELSE LET before == p[i - 1] IN Append(before, MulMont(before[i - 1], z[i]))
  IN p[Batch]

Inverted_Once(product) == MulMont(ModInverse(product), Bn(RR))     \* mutant

\* The inverse of the product of all; bn_mod_inverse leaves the Montgomery form, two
\* products by mont_rr return to it.
Inverted(product) == MulMont(MulMont(ModInverse(product), Bn(RR)), Bn(RR))

\* The inverses of a sequence of numbers, from the last to the first: the inverse of what is
\* left, times the product of the numbers before.
Inverses(z, product) ==
  LET down[i \in 1 .. Batch] ==
        IF i = Batch THEN [left |-> Inverted(product[Batch]), out |-> <<>>]
        ELSE LET after == down[i + 1]
             IN [left |-> MulMont(after.left, z[i + 1]),
                 out |-> <<MulMont(after.left, product[i])>> \o after.out]
      First(last) == <<last.left>> \o last.out
  IN First(down[1])

HeapInvert(heap) ==
  LET Numbers(item) ==
        LET z[i \in 0 .. Batch] ==
              IF i = 0 THEN <<>>
              ELSE Append(z[i - 1], Loaded(heap, ZStart(item + ((i - 1) * Items))))
        IN z[Batch]
      InversesOf(z) == Inverses(z, Products(z))
      done == {<<item, InversesOf(Numbers(item))>> : item \in 0 .. Items - 1}
  IN Stored(UNION {{<<ZStart(d[1] + ((i - 1) * Items)), d[2][i]>> : i \in 1 .. Batch} : d \in done})

-------------------------------------------------------------------------------
(* hash_ec_point, hash_ec_point_eth, hash_ec_point_trx: the coordinates hashed *)

Point(x, y, z) ==
  LET zz == MulMont(z, z)
  IN <<FromMont(MulMont(x, zz)), FromMont(MulMont(y, MulMont(zz, z)))>>

\* From the points and the inverses that are left in memory.
Hashed(points, inverted) ==
  {<<cell, Point(Loaded(points, XStart(cell)), Loaded(points, YStart(cell)),
                 Loaded(inverted, ZStart(cell)))>> : cell \in Cells}

-------------------------------------------------------------------------------
(* -V: the host adds the points itself and compares what the kernels have left *)

\* vg_ocl_get_point_tpa, vg_ocl_get_bignum_tpa
GetPoint(memory, cell) == <<Loaded(memory, XStart(cell)), Loaded(memory, YStart(cell))>>
GetBignum(memory, cell) == Loaded(memory, ZStart(cell))

\* EC_POINT_add of OpenSSL, for two points of Z one that differ in x; the numbers stay in
\* Montgomery form, of which a product is divided by R.
HostSum(p, q) ==
  LET Times(a, b) == (a * b * Inv(R % P, P)) % P
      z == (p[1] - q[1]) % P
      b == (p[2] - q[2]) % P
      e == Times((p[1] + q[1]) % P, Times(z, z))
      x == (Times(b, b) - e) % P
      y == (Times((e - 2 * x) % P, b) - Times((p[2] + q[2]) % P, Times(Times(z, z), z))) % P
  IN [x |-> x, y |-> (y * Inv(2, P)) % P, z |-> z]

\* vg_ocl_verify_temporary: the cells that agree, of those whose points differ in x; after the
\* first kernel or the second.
Agreeing(points, heap, z_inverted, columns, rows) ==
  LET input == PutPoints(columns)
      Read(q) == <<Value(q[1]), Value(q[2])>>
      Host(cell) == HostSum(Read(GetPoint(input, cell % Columns)), Read(rows[(cell \div Columns) + 1]))
      bnez(z) == (Inv(z, P) * R * R) % P
  IN {cell \in Cells :
        LET host == Host(cell)
        IN /\ host.z # 0
           /\ Read(GetPoint(points, cell)) = <<host.x, host.y>>
           /\ Value(GetBignum(heap, cell)) = IF z_inverted THEN bnez(host.z) ELSE host.z}

-------------------------------------------------------------------------------
(* What they should be *)

Curve == {q \in Residues \X Residues : (q[2] * q[2]) % P = (q[1] * q[1] * q[1] + 7) % P}

\* The sum of two points of the curve with different x.
Chord(p, q) ==
  LET slope == ((q[2] - p[2]) * Inv((q[1] - p[1]) % P, P)) % P
      x == (slope * slope - p[1] - q[1]) % P
  IN <<x, (slope * (p[1] - x) - p[2]) % P>>

Mont(q) == <<Bn((q[1] * R) % P), Bn((q[2] * R) % P)>>

ColumnOf(columns, cell) == columns[(cell % Columns) + 1]
RowOf(rows, cell) == rows[(cell \div Columns) + 1]
DifferInX(columns, rows, cell) == ColumnOf(columns, cell)[1] # RowOf(rows, cell)[1]

\* No cell of the batch has two points of equal x.
Clear(columns, rows, cell) ==
  \A other \in Cells : other % Items = cell % Items => DifferInX(columns, rows, other)

\* Every point of a clear batch is the sum of its column's and its row's.
HashedRight(hashed, columns, rows) ==
  \A h \in hashed : Clear(columns, rows, h[1]) =>
    <<Value(h[2][1]), Value(h[2][2])>> = Chord(ColumnOf(columns, h[1]), RowOf(rows, h[1]))

\* The verification raises no alarm but for points of equal x.
AlarmsRight(agreeing0, agreeing1, columns, rows) ==
  \A cell \in Cells : /\ DifferInX(columns, rows, cell) => cell \in agreeing0
                      /\ Clear(columns, rows, cell) => cell \in agreeing1

LeftRight(points, heap, inverted, columns, rows, cols, rws) ==
  /\ HashedRight(Hashed(points, inverted), columns, rows)
  /\ AlarmsRight(Agreeing(points, heap, FALSE, cols, rws),
                 Agreeing(points, inverted, TRUE, cols, rws), columns, rows)

\* What the kernels leave in memory is right.
GridRight(columns, rows) ==
  LET cols == [c \in 1 .. Columns |-> Mont(columns[c])]
      rws == [r \in 1 .. Rows |-> Mont(rows[r])]
      grid == AddGrid(cols, rws)
  IN LeftRight(grid.points, grid.heap, HeapInvert(grid.heap), columns, rows, cols, rws)
===============================================================================
