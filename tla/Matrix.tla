------------------------------- MODULE Matrix -------------------------------
(***************************************************************************)
(* Products of an m x n matrix W, row by row.  "dot": each row times x     *)
(* into one cell (matvec); "axpy": each row, scaled, onto the whole output *)
(* (the transposed product); "outer": onto its own row of the output;      *)
(* "copy": to the transposed place.                                        *)
(***************************************************************************)
EXTENDS Registers, Functions

MatrixShape(form, lanes, weights, seed, scale) ==
  [form |-> form, lanes |-> lanes, weights |-> weights,
   seed |-> seed, scale |-> scale]

arr_f64_matvec           == MatrixShape("dot", 4, "f64", "bias", "none")
arr_f32_matvec           == MatrixShape("dot", 8, "f32", "bias", "none")
arr_i8_matvec_f32        == MatrixShape("dot", 8, "i8", "zero", "one")
arr_i8_matvec_f32_perrow == MatrixShape("dot", 8, "i8", "zero", "row")
arr_i4_matvec_f32_perrow == MatrixShape("dot", 8, "i4", "zero", "row")
arr_f64_matvec_T         == MatrixShape("axpy", 4, "f64", "zero", "none")
arr_f32_matvec_T         == MatrixShape("axpy", 8, "f32", "zero", "none")
arr_f64_outer_accum      == MatrixShape("outer", 4, "f64", "old", "none")
arr_f32_outer_accum      == MatrixShape("outer", 8, "f32", "old", "none")
arr_f32_transpose        == MatrixShape("copy", 1, "f32", "old", "none")

MatrixKernels ==
  {arr_f64_matvec, arr_f32_matvec, arr_i8_matvec_f32,
   arr_i8_matvec_f32_perrow, arr_i4_matvec_f32_perrow, arr_f64_matvec_T,
   arr_f32_matvec_T, arr_f64_outer_accum, arr_f32_outer_accum,
   arr_f32_transpose}

-----------------------------------------------------------------------------
Quantised == kernel.weights \in {"i8", "i4"}

\* The elements or bytes of W that m rows of n columns take; int4 weights
\* are two to a byte.
RowBytes == IF kernel.weights = "i4" THEN n \div 2 ELSE n
RowsNeed     == m * RowBytes

Size ==
  CASE kernel.form = "dot"  -> m
    [] kernel.form = "axpy" -> n
    [] OTHER                -> m * n

MatrixInit ==
  /\ kernel \in MatrixKernels
  /\ m \in 0..MaxRows
  /\ n \in 0..MaxCols
  /\ held \in IF Quantised THEN {RowsNeed, RowsNeed + 1, RowsNeed - 1} \cap Nat ELSE {RowsNeed}
  /\ at = Counters
  /\ lane = [l \in 0..kernel.lanes - 1 |-> Zero]
  /\ acc = Zero
  /\ scratch = [i \in 0..MaxCols - 1 |-> Cell("stack", i)]
  /\ out = [a \in 0..Size + Guard - 1 |-> Old(a)]
  /\ pc = "matrix"

\* A weight in memory: one past the end is some other object's byte.
ElementOfW(k, byte) == Cell(IF byte < held THEN "W" ELSE "beyond", k)

\* Mutant: the row base counts rows of m elements.
Factor_rowsOfM(i) ==
  IF kernel.weights = "i4" THEN scratch[i]
  ELSE ElementOfW(at.row * m + i, at.row * m + i)

\* Element i of the current row.
Factor(i) ==
  IF kernel.weights = "i4" THEN scratch[i]
  ELSE ElementOfW(at.row * n + i, at.row * n + i)

\* The product taken at column i, and the cell a kernel without an
\* accumulator puts it in.
Product(i) ==
  CASE kernel.form = "dot"   -> {Factor(i), Cell("x", i)}
    [] kernel.form = "axpy"  -> {Factor(i), Cell("v", at.row)}
    [] kernel.form = "outer" -> {Cell("a", at.row), Cell("b", i)}
    [] kernel.form = "copy"  -> {Factor(i)}

Target(i) ==
  CASE kernel.form = "axpy"  -> i
    [] kernel.form = "outer" -> at.row * n + i
    [] kernel.form = "copy"  -> i * m + at.row

-----------------------------------------------------------------------------
\* The bounds check of the quantised kernels: m * n against W's own length.
RefuseMatrix ==
  /\ pc = "matrix" /\ Quantised /\ RowsNeed > held
  /\ pc' = "exit"
  /\ UNCHANGED <<kernel, m, n, held, at, lane, acc, scratch, out>>

BeginRows ==
  /\ pc = "matrix" /\ (Quantised => RowsNeed <= held)
  /\ pc' = IF kernel.form = "axpy" THEN "zero" ELSE "row"
  /\ UNCHANGED <<kernel, m, n, held, at, lane, acc, scratch, out>>

\* The transposed product adds onto its output, which it clears first: full
\* vectors, then single elements.
Clear ==
  /\ pc = "zero" /\ at.col < n
  /\ LET k == IF at.col < Full(n, kernel.lanes) THEN kernel.lanes ELSE 1 IN
     /\ out' = [a \in DOMAIN out |->
                  IF a \in at.col..at.col + k - 1 THEN Zero ELSE out[a]]
     /\ at' = [at EXCEPT !.col = @ + k]
  /\ UNCHANGED <<kernel, m, n, held, lane, acc, scratch, pc>>

ClearEnd ==
  /\ pc = "zero" /\ at.col >= n
  /\ pc' = "row"
  /\ UNCHANGED <<kernel, m, n, held, at, lane, acc, scratch, out>>

\* Mutant: the vector accumulator is cleared before the first row only.
Row_keepsLanes ==
  /\ pc = "row" /\ at.row < m
  /\ at' = [at EXCEPT !.col = 0]
  /\ acc' = IF kernel.seed = "bias" THEN Only({Cell("bias", at.row)}) ELSE Zero
  /\ pc' = IF kernel.weights = "i4" THEN "unpack" ELSE "vector"
  /\ UNCHANGED <<kernel, m, n, held, lane, scratch, out>>

\* The top of the loop over rows.
Row ==
  /\ pc = "row" /\ at.row < m
  /\ at' = [at EXCEPT !.col = 0]
  /\ lane' = [l \in DOMAIN lane |-> Zero]
  /\ acc' = IF kernel.seed = "bias" THEN Only({Cell("bias", at.row)}) ELSE Zero
  /\ pc' = IF kernel.weights = "i4" THEN "unpack" ELSE "vector"
  /\ UNCHANGED <<kernel, m, n, held, scratch, out>>

RowsEnd ==
  /\ pc = "row" /\ at.row >= m
  /\ pc' = "done"
  /\ UNCHANGED <<kernel, m, n, held, at, lane, acc, scratch, out>>

\* Two weights of a byte: the low nibble is the even column.
Unpack ==
  /\ pc = "unpack" /\ at.col < n \div 2
  /\ LET byte == at.row * (n \div 2) + at.col IN
     scratch' = [scratch EXCEPT ![2 * at.col]     = ElementOfW(2 * byte, byte),
                                ![2 * at.col + 1] = ElementOfW(2 * byte + 1, byte)]
  /\ at' = [at EXCEPT !.col = @ + 1]
  /\ UNCHANGED <<kernel, m, n, held, lane, acc, out, pc>>

UnpackEnd ==
  /\ pc = "unpack" /\ at.col >= n \div 2
  /\ at' = [at EXCEPT !.col = 0]
  /\ pc' = "vector"
  /\ UNCHANGED <<kernel, m, n, held, lane, acc, scratch, out>>

\* Mutant: the limit of the vector loop comes from m, the register next to n.
VectorRuns_m == at.col < Full(m, kernel.lanes)

VectorRuns == at.col < Full(n, kernel.lanes)

DotVector ==
  /\ pc = "vector" /\ VectorRuns /\ kernel.form = "dot"
  /\ lane' = [l \in DOMAIN lane |-> lane[l] (+) Only(Product(at.col + l))]
  /\ at' = [at EXCEPT !.col = @ + kernel.lanes]
  /\ UNCHANGED <<kernel, m, n, held, acc, scratch, out, pc>>

\* k products added to the cells they go to; a copy replaces the cell.
Scatter(k) ==
  /\ kernel.form # "dot"
  /\ LET new(i) == IF kernel.form = "copy" THEN Only(Product(i))
                   ELSE out[Target(i)] (+) Only(Product(i))
         columns == at.col..at.col + k - 1 IN
     out' = [a \in DOMAIN out |->
               IF \E i \in columns : Target(i) = a
               THEN new(CHOOSE i \in columns : Target(i) = a) ELSE out[a]]
  /\ at' = [at EXCEPT !.col = @ + k]
  /\ UNCHANGED <<kernel, m, n, held, lane, acc, scratch, pc>>

ScatterVector == pc = "vector" /\ VectorRuns /\ Scatter(kernel.lanes)

\* The horizontal sum of a dot product's lanes joins the scalar accumulator.
DotVectorEnd ==
  /\ pc = "vector" /\ ~VectorRuns
  /\ acc' = FoldFunction((+), acc, lane)
  /\ pc' = "tail"
  /\ UNCHANGED <<kernel, m, n, held, at, lane, scratch, out>>

DotTail ==
  /\ pc = "tail" /\ at.col < n /\ kernel.form = "dot"
  /\ acc' = acc (+) Only(Product(at.col))
  /\ at' = [at EXCEPT !.col = @ + 1]
  /\ UNCHANGED <<kernel, m, n, held, lane, scratch, out, pc>>

ScatterTail == pc = "tail" /\ at.col < n /\ Scatter(1)

\* A sum times the scale: of the whole matrix, or of the row.
Scaled(sum, j) ==
  LET scale == CASE kernel.scale = "one" -> {Cell("scale", 0)}
                 [] kernel.scale = "row" -> {Cell("scale", j)}
                 [] OTHER                -> {} IN
  [p \in {q \cup scale : q \in DOMAIN sum} |-> sum[p \ scale]]

\* The bottom of the loop over rows: a dot product is stored.
RowEnd ==
  /\ pc = "tail" /\ at.col >= n
  /\ out' = IF kernel.form = "dot"
            THEN [out EXCEPT ![at.row] = Scaled(acc, at.row)] ELSE out
  /\ at' = [at EXCEPT !.row = @ + 1]
  /\ pc' = "row"
  /\ UNCHANGED <<kernel, m, n, held, lane, acc, scratch>>

MatrixNext ==
  \/ RefuseMatrix \/ BeginRows \/ Clear \/ ClearEnd \/ Row \/ RowsEnd
  \/ Unpack \/ UnpackEnd \/ DotVector \/ ScatterVector \/ DotVectorEnd
  \/ DotTail \/ ScatterTail \/ RowEnd

-----------------------------------------------------------------------------
W(j, i) == Cell("W", j * n + i)

\* The definition of the product, cell by cell.
ExpectedProduct(a) ==
  CASE kernel.form = "dot" ->
         Scaled(Sum({{W(a, i), Cell("x", i)} : i \in 0..n - 1}
                    \cup (IF kernel.seed = "bias" THEN {{Cell("bias", a)}} ELSE {})), a)
    [] kernel.form = "axpy" -> Sum({{W(j, a), Cell("v", j)} : j \in 0..m - 1})
    [] kernel.form = "outer" ->
         Old(a) (+) Only({Cell("a", a \div n), Cell("b", a % n)})
    [] kernel.form = "copy" -> Only({W(a % m, a \div m)})

\* int4 weights are two to a byte, so that a row has an even number.
Packable == kernel.weights = "i4" => n % 2 = 0

\* A product leaves in every cell the sum of exactly the products of its row
\* and column, of quantised weights too, and changes no cell beyond; a
\* quantised matrix too short for its dimensions is refused before anything is
\* written.
RowsRight ==
  kernel \in MatrixKernels =>
    /\ pc = "done" /\ Packable =>
         \A a \in DOMAIN out : out[a] = IF a < Size THEN ExpectedProduct(a) ELSE Old(a)
    /\ held < RowsNeed => \A a \in DOMAIN out : out[a] = Old(a)
=============================================================================
