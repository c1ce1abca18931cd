------------------------------ MODULE StripMine -------------------------------
(***************************************************************************)
(* The vector library matlib_rvv.h (samples/tiled_eigen_mt/data): every    *)
(* operation on an n x m matrix goes through its elements in strips, and   *)
(* the hardware chooses the length vl of each within what vsetvl allows,   *)
(* in a way of its own (halves).                                           *)
(*                                                                         *)
(* The sums keep VLMAX partial sums in a register and add them all up at   *)
(* the end.  The instructions used leave the lanes beyond vl to the        *)
(* hardware: it may keep them or overwrite them (tailKept).  Numbers are   *)
(* integers, all even, so that FLT_MIN, the smallest positive float, can   *)
(* be 1; the memory of a result holds JUNK at first.  The square root at   *)
(* the end of matnorm is left out.                                         *)
(***************************************************************************)
EXTENDS Integers, FiniteSetsExt

CONSTANTS VLMAX, Dims, Tiles

FLT_MIN == 1
FLT_MAX == 1000000
JUNK    == 777

Unary   == {"matneg", "cwiseabs", "matmulf", "matcopy", "matset", "matsetv"}
Binary  == {"cwisemin", "cwisemax", "cwisemul", "matsub", "matadd"}
Cwise   == Unary \union Binary
Reduce  == {"maxcoeff", "mincoeff", "matnorm"}
Ops     == Cwise \union Reduce \union {"matvec", "matvec_transpose", "transpose", "matmul"}

Area == Max(Dims) * Max(Dims)
Data == {[p \in 0 .. Area - 1 |-> 2 * (p + 1)], [p \in 0 .. Area - 1 |-> -2 * (p + 1)],
         [p \in 0 .. Area - 1 |-> 2 * ((7 * p) % 5) - 4]}
MulData == {[p \in 0 .. Area - 1 |-> 2 * (p + 1)], [p \in 0 .. Area - 1 |-> 2 * ((7 * p) % 5) - 4]}

VARIABLES
    vop, n, m, o, tile, A, B,    \* the call
    C, scalar,                   \* its result
    cell, K, l, vec,             \* the inner loop: where, elements left, position, partial sums
    vpc, tailKept, halves,       \* what the hardware does
    partial                      \* a sum was continued with fewer lanes than VLMAX

callVars  == <<vop, n, m, o, tile, A, B, tailKept, halves>>
stripVars == <<callVars, C, scalar, cell, K, l, vec, vpc, partial>>

Cell0 == [i |-> 0, j |-> 0, k |-> 0, I |-> 0, J |-> 0]
Zeros == [e \in 0 .. VLMAX - 1 |-> 0]

\* What is left of a dimension for the tile that starts at x.
TileLen(x, dim, t) == IF x + t <= dim THEN t ELSE dim % t
\* tile_size = -1 takes the whole matrices as one tile.
Tile == IF tile = -1 THEN n + m + o ELSE tile

\* The number of elements the inner loop goes through.
Length(c) ==
    CASE vop \in Cwise \union Reduce -> n * m
      [] vop \in {"matvec", "transpose"} -> n
      [] vop = "matvec_transpose" -> m
      [] vop = "matmul" -> TileLen(c.k, o, Tile)

Init ==
    /\ vop \in Ops /\ n \in Dims /\ m \in Dims
    /\ \/ vop = "matmul" /\ o \in Dims /\ tile \in Tiles \union {-1} /\ A \in MulData /\ B \in MulData
       \/ vop # "matmul" /\ o = n /\ tile = -1 /\ A \in Data /\ B \in MulData
    /\ tailKept \in BOOLEAN /\ halves \in BOOLEAN /\ partial = FALSE
    /\ C = [p \in 0 .. Area - 1 |-> JUNK]
    /\ scalar = CASE vop = "maxcoeff" -> FLT_MIN [] vop = "mincoeff" -> FLT_MAX [] OTHER -> 0
    /\ cell = Cell0 /\ K = Length(Cell0) /\ l = 0 /\ vec = Zeros /\ vpc = "strip"

-----------------------------------------------------------------------------
(* One strip *)

\* What vsetvl returns for k elements: up to twice VLMAX it may share them out evenly.
vsetvl(k) ==
    IF k <= VLMAX THEN k
    ELSE IF k < 2 * VLMAX /\ halves THEN (k + 1) \div 2 ELSE VLMAX

CwiseAt(p) ==
    CASE vop = "cwisemin" -> Min({A[p], B[p]})
      [] vop = "cwisemax" -> Max({A[p], B[p]})
      [] vop = "cwisemul" -> A[p] * B[p]

SumAt(p) ==
    CASE vop = "matmulf" -> 3 * A[p]
      [] vop = "matsub"  -> A[p] - B[p]
      [] vop = "matadd"  -> A[p] + B[p]

CopyAt(p) == IF vop = "matset" THEN 4 ELSE A[p]
AbsAt(p)  == IF A[p] < 0 THEN -A[p] ELSE A[p]

Elem(p) ==
    CASE vop = "matneg" -> -A[p]
      [] vop = "cwiseabs" -> AbsAt(p)
      [] vop \in {"cwisemin", "cwisemax", "cwisemul"} -> CwiseAt(p)
      [] vop \in {"matmulf", "matsub", "matadd"} -> SumAt(p)
      [] vop \in {"matcopy", "matset", "matsetv"} -> CopyAt(p)

\* The elements of the strip of vl elements from l on.
Lanes(vl) == l .. l + vl - 1

\* The strip is written: its element q to C[base + q].
Store(base, strip) ==
    C' = [p \in DOMAIN C |-> IF p - base \in DOMAIN strip THEN strip[p - base] ELSE C[p]]

MatvecAt(p) == MapThenSumSet(LAMBDA J : B[J] * A[p * m + J], 0 .. m - 1)
MatvecTransposeAt(p) == MapThenSumSet(LAMBDA J : B[J] * A[J * m + p], 0 .. n - 1)
TransposeBase == cell.j * n
TransposeAt(p) == A[p * m + cell.j]

\* vfredmax and vfredmin take the strip and the result so far.
MaxWith(vl) == Max({scalar} \union {A[p] : p \in Lanes(vl)})
MinWith(vl) == Min({scalar} \union {A[p] : p \in Lanes(vl)})

\* vfmacc: the lanes beyond vl are the hardware's.
Macc(strip) ==
    /\ vec' = [e \in DOMAIN vec |-> IF l + e \in DOMAIN strip THEN vec[e] + strip[l + e]
                                   ELSE IF tailKept THEN vec[e] ELSE JUNK]
    /\ partial' = (partial \/ Cardinality(DOMAIN strip) < VLMAX)

Square(p) == A[p] * A[p]
\* A is [n][o], and B is [m][o].
Product(p) == A[(cell.i + cell.I) * o + cell.k + p] * B[(cell.j + cell.J) * o + cell.k + p]

NextStrip(vl) == l' = l + vl /\ K' = K - vl

Strip ==
    /\ vpc = "strip" /\ K > 0
    /\ LET vl == vsetvl(K) IN
         /\ CASE vop \in Cwise               -> Store(0, [q \in Lanes(vl) |-> Elem(q)])
              [] vop = "matvec"              -> Store(0, [q \in Lanes(vl) |-> MatvecAt(q)])
              [] vop = "matvec_transpose"    -> Store(0, [q \in Lanes(vl) |-> MatvecTransposeAt(q)])
              [] vop = "transpose"           -> Store(TransposeBase, [q \in Lanes(vl) |-> TransposeAt(q)])
              [] OTHER                       -> UNCHANGED C
         /\ scalar' = CASE vop = "maxcoeff" -> MaxWith(vl)
                        [] vop = "mincoeff" -> MinWith(vl)
                        [] OTHER -> scalar
         /\ CASE vop = "matnorm" -> Macc([q \in Lanes(vl) |-> Square(q)])
              [] vop = "matmul"  -> Macc([q \in Lanes(vl) |-> Product(q)])
              [] OTHER           -> UNCHANGED <<vec, partial>>
         /\ NextStrip(vl)
    /\ UNCHANGED <<callVars, cell, vpc>>

-----------------------------------------------------------------------------
(* The loops around the strips *)

\* The cell after c, or c itself when it is the last one.
After(c) ==
    CASE vop = "transpose" -> IF c.j + 1 < m THEN [c EXCEPT !.j = @ + 1] ELSE c
      [] vop = "matmul" ->
           IF c.J + 1 < TileLen(c.j, m, Tile) THEN [c EXCEPT !.J = @ + 1]
           ELSE IF c.I + 1 < TileLen(c.i, n, Tile) THEN [c EXCEPT !.J = 0, !.I = @ + 1]
           ELSE IF c.k + Tile < o THEN [Cell0 EXCEPT !.i = c.i, !.j = c.j, !.k = c.k + Tile]
           ELSE IF c.j + Tile < m THEN [Cell0 EXCEPT !.i = c.i, !.j = c.j + Tile]
           ELSE IF c.i + Tile < n THEN [Cell0 EXCEPT !.i = c.i + Tile]
           ELSE c
      [] OTHER -> c

\* vfredusum over all VLMAX lanes
Total == MapThenSumSet(LAMBDA e : vec[e], DOMAIN vec)

\* Mutant of Accumulate: every tile is added to what is there.
AccumulateAlways(old, sum) == old + sum

\* The first tile of a cell sets it, the others add to it.
Accumulate(old, sum) == IF cell.k = 0 THEN sum ELSE old + sum

EndCell ==
    /\ vpc = "strip" /\ K = 0
    /\ C' = IF vop = "matmul"
              THEN [C EXCEPT ![(cell.i + cell.I) * m + cell.j + cell.J] = Accumulate(@, Total)]
              ELSE C
    /\ scalar' = IF vop = "matnorm" THEN Total ELSE scalar
    /\ vec' = Zeros /\ l' = 0
    /\ cell' = After(cell)
    /\ IF cell' = cell THEN vpc' = "done" /\ K' = 0 ELSE vpc' = "strip" /\ K' = Length(cell')
    /\ UNCHANGED <<callVars, partial>>

Next == Strip \/ EndCell
Spec == Init /\ [][Next]_stripVars

-----------------------------------------------------------------------------
(* Properties *)

Sound == tailKept \/ ~partial
Elements == {A[p] : p \in 0 .. n * m - 1}

\* Whatever strip lengths the hardware chooses, the element-wise operations, the
\* transpose and the products with a vector give every element of the result, the
\* reductions that of the whole matrix; the largest coefficient only if one is positive,
\* because the search starts from FLT_MIN.
ResultsMatch ==
    vpc = "done" =>
        CASE vop \in Cwise -> \A p \in 0 .. n * m - 1 : C[p] = Elem(p)
          [] vop = "maxcoeff" -> Max(Elements) > 0 => scalar = Max(Elements)
          [] vop = "mincoeff" -> scalar = Min(Elements)
          [] vop = "matnorm" -> Sound => scalar = MapThenSumSet(Square, 0 .. n * m - 1)
          [] vop = "matvec" -> \A i \in 0 .. n - 1 : C[i] = MatvecAt(i)
          [] vop = "matvec_transpose" -> \A j \in 0 .. m - 1 : C[j] = MatvecTransposeAt(j)
          [] vop = "transpose" -> \A i \in 0 .. n - 1, j \in 0 .. m - 1 : C[j * n + i] = A[i * m + j]
          [] OTHER -> TRUE

\* The product of the matrices is the same with and without tiles, whatever the tile size,
\* also when it does not divide the dimensions: provided that the hardware keeps the lanes
\* a short strip does not use, or that no strip is short.
ProductMatches ==
    vpc = "done" /\ vop = "matmul" /\ Sound =>
        \A i \in 0 .. n - 1, j \in 0 .. m - 1 :
            C[i * m + j] = MapThenSumSet(LAMBDA p : A[i * o + p] * B[j * o + p], 0 .. o - 1)
=============================================================================
