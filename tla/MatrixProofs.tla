---------------------------- MODULE MatrixProofs ----------------------------
(***************************************************************************)
(* The products of Matrix, for matrices of every size: each cell of the    *)
(* output has exactly the products of its row and column.                  *)
(***************************************************************************)
EXTENDS TensorProofs, FiniteSetTheorems, WellFoundedInduction

\* Every nonempty set of numbers has a least one.
LEMMA LeastOf ==
  ASSUME NEW T \in SUBSET Nat, T # {}
  PROVE  \E x \in T : \A y \in T : ~(y < x)
  <1>1. PICK x \in T : \A y \in T : ~(<<y, x>> \in OpToRel(<, Nat))
    BY NatLessThanWellFounded, WFMin
  <1>2. ASSUME NEW y \in T PROVE ~(y < x)
    BY <1>1 DEF OpToRel
  <1> QED BY <1>2

\* What the sets L[i], i in s, contain.
All(L, s) == UNION {L[i] : i \in s}

\* A fold over sums without a common summand is the sum of all summands.
LEMMA FoldSums ==
  ASSUME NEW A, NEW D, NEW L, IsFiniteSet(D),
         \A i \in D : A \cap L[i] = {},
         \A i \in D, j \in D : i # j => L[i] \cap L[j] = {}
  PROVE  FoldFunction((+), Sum(A), [i \in D |-> Sum(L[i])]) = Sum(A \cup All(L, D))
  <1> DEFINE f == [i \in D |-> Sum(L[i])]
             pick(s) == CHOOSE x \in s : TRUE
             Rec(g) == g = [s \in SUBSET D |->
                              IF s = {} THEN Sum(A) ELSE f[pick(s)] (+) g[s \ {pick(s)}]]
             G == [s \in SUBSET D |-> Sum(A \cup All(L, s))]
  <1>1. FoldFunction((+), Sum(A), f) = (CHOOSE g : Rec(g))[D]
    BY DEF FoldFunction, FoldFunctionOnSet, MapThenFoldSet
  <1>2. \A s \in SUBSET D : s # {} => pick(s) \in s
    OBVIOUS
  <1> HIDE DEF pick
  <1>3. \A s \in SUBSET D : G[s] = IF s = {} THEN Sum(A) ELSE f[pick(s)] (+) G[s \ {pick(s)}]
    <2> TAKE s \in SUBSET D
    <2>1. CASE s = {}
      <3>1. All(L, s) = {}
        BY <2>1 DEF All
      <3> QED BY <2>1, <3>1
    <2>2. CASE s # {}
      <3> DEFINE x == pick(s)
                 r == s \ {x}
      <3>1. x \in s /\ x \in D /\ r \in SUBSET D
        BY <1>2, <2>2
      <3> HIDE DEF x
      <3>2. L[x] \cap (A \cup All(L, r)) = {}
        BY <3>1 DEF All
      <3>3. L[x] \cup (A \cup All(L, r)) = A \cup All(L, s)
        BY <3>1 DEF All
      <3>4. Sum(L[x]) (+) Sum(A \cup All(L, r)) = Sum(A \cup All(L, s))
        <4> DEFINE U == A \cup All(L, r)
                   V == A \cup All(L, s)
                   X == L[x]
        <4>1. X \cap U = {} /\ X \cup U = V
          BY <3>2, <3>3
        <4> HIDE DEF U, V, X
        <4>2. Sum(X) (+) Sum(U) = Sum(V)
          BY <4>1, SumUnion
        <4> QED BY <4>2 DEF U, V, X
      <3> QED BY <2>2, <3>1, <3>4 DEF x
    <2> QED BY <2>1, <2>2
  <1>4. Rec(G)
    BY <1>3
  <1>5. ASSUME NEW g, Rec(g) PROVE g[D] = G[D]
    <2> DEFINE Bad == {s \in SUBSET D : g[s] # G[s]}
               T == {Cardinality(s) : s \in Bad}
    <2>1. SUFFICES ASSUME D \in Bad PROVE FALSE
      OBVIOUS
    <2>2. \A s \in SUBSET D : IsFiniteSet(s) /\ Cardinality(s) \in Nat
      BY FS_Subset, FS_CardinalityType
    <2>3. T \in SUBSET Nat /\ T # {}
      BY <2>1, <2>2
    <2>4. PICK c \in T : \A d \in T : ~(d < c)
      BY <2>3, LeastOf
    <2>5. PICK s \in Bad : c = Cardinality(s)
      BY <2>4
    <2>6. g[s] = IF s = {} THEN Sum(A) ELSE f[pick(s)] (+) g[s \ {pick(s)}]
      BY <1>5, <2>5
    <2>7. CASE s = {}
      BY <1>3, <2>5, <2>6, <2>7
    <2>8. CASE s # {}
      <3> DEFINE r == s \ {pick(s)}
      <3>1. pick(s) \in s /\ r \in SUBSET D
        BY <1>2, <2>5, <2>8
      <3>2. IsFiniteSet(s) /\ Cardinality(r) = Cardinality(s) - 1
        BY <2>2, <2>5, <3>1, FS_RemoveElement
      <3>3. Cardinality(r) < c
        BY <2>2, <2>5, <3>2
      <3>4. r \notin Bad
        BY <2>4, <3>3
      <3>5. g[r] = G[r]
        BY <3>1, <3>4
      <3> HIDE DEF r
      <3> QED BY <1>3, <2>5, <2>6, <2>8, <3>5 DEF r
    <2> QED BY <2>7, <2>8
  <1>6. Rec(CHOOSE g : Rec(g))
    BY <1>4, Zenon
  <1> HIDE DEF Rec
  <1>7. (CHOOSE g : Rec(g))[D] = G[D]
    BY <1>5, <1>6
  <1> QED BY <1>1, <1>7
-----------------------------------------------------------------------------
\* The product of row r and column i of a dot product, what a row starts
\* from, the sum of its first c columns, and the columns lane l adds up.
RowTerm(r, i, k) == {Cell("W", r * k + i), Cell("x", i)}
BiasOf(seed, r)  == IF seed = "bias" THEN {{Cell("bias", r)}} ELSE {}
RowTerms(r, I, k) == {RowTerm(r, i, k) : i \in I}
DotUpto(seed, r, c, k) == Sum(BiasOf(seed, r) \cup RowTerms(r, 0..c - 1, k))
LaneColumns(c, l, w) == {i \in 0..c - 1 : i % w = l}

\* The sum of the first c rows in column a of a transposed product.
ColTerm(j, a, k) == {Cell("W", j * k + a), Cell("v", j)}
ColUpto(a, c, k) == Sum({ColTerm(j, a, k) : j \in 0..c - 1})

MatrixPcs == {"matrix", "exit", "zero", "row", "unpack", "vector", "tail", "done"}
Unstarted == pc \in {"matrix", "exit"}
InRow     == pc \in {"vector", "tail"}

MatrixTypes ==
  /\ kernel \in MatrixKernels /\ pc \in MatrixPcs
  /\ m \in Nat /\ n \in 0..MaxCols /\ held \in Nat
  /\ at \in Counts
  /\ out = [a \in 0..Size + Guard - 1 |-> out[a]]
  /\ lane = [l \in 0..kernel.lanes - 1 |-> lane[l]]
  /\ scratch = [i \in 0..MaxCols - 1 |-> scratch[i]]

\* The loop over the rows and those over the columns.
WalkInv ==
  /\ Unstarted => at.row = 0 /\ at.col = 0 /\ \A a \in DOMAIN out : out[a] = Old(a)
  /\ pc = "matrix" /\ ~Quantised => RowsNeed <= held
  /\ ~Unstarted => RowsNeed <= held
  /\ at.row <= m /\ (pc = "done" => at.row = m)
  /\ pc \in {"unpack", "vector", "tail"} => at.row < m
  /\ pc = "zero" => /\ kernel.form = "axpy" /\ at.row = 0 /\ at.col <= n
                    /\ at.col < Full(n, kernel.lanes) => at.col % kernel.lanes = 0
  /\ pc = "unpack" => kernel.weights = "i4" /\ at.col <= n \div 2
  /\ pc = "vector" => at.col % kernel.lanes = 0 /\ at.col <= Full(n, kernel.lanes)
  /\ pc = "tail" => at.col <= n

\* The unpacked row.
ScratchInv ==
  kernel.weights = "i4" =>
    /\ InRow => \A i \in 0..n - 1 : scratch[i] = Cell("W", at.row * n + i)
    /\ pc = "unpack" => \A i \in 0..2 * at.col - 1 : scratch[i] = Cell("W", at.row * n + i)

DotInv ==
  /\ \A a \in DOMAIN out :
       out[a] = IF a < at.row THEN Scaled(DotUpto(kernel.seed, a, n, n), a) ELSE Old(a)
  /\ pc \in {"unpack", "vector"} => acc = DotUpto(kernel.seed, at.row, 0, n)
  /\ pc = "unpack" => \A l \in DOMAIN lane : lane[l] = Zero
  /\ pc = "vector" => \A l \in DOMAIN lane :
       lane[l] = Sum(RowTerms(at.row, LaneColumns(at.col, l, kernel.lanes), n))
  /\ pc = "tail" => acc = DotUpto(kernel.seed, at.row, at.col, n)

AxpyInv ==
  /\ \A a \in DOMAIN out : a >= n => out[a] = Old(a)
  /\ pc = "zero" => \A a \in 0..at.col - 1 : out[a] = Zero
  /\ pc \notin {"matrix", "exit", "zero"} =>
       \A a \in 0..n - 1 :
         out[a] = ColUpto(a, IF InRow /\ a < at.col THEN at.row + 1 ELSE at.row, n)

\* Whether the product of row r and column i is in the output.
Taken(inRow, row, col, r, i) == r < row \/ (inRow /\ r = row /\ i < col)

\* Where an outer product and a copy put it, and what.
Place(form, r, i, p, q) == IF form = "copy" THEN i * p + r ELSE r * q + i
Value(form, r, i, q) ==
  IF form = "copy" THEN Only({Cell("W", r * q + i)})
  ELSE Old(r * q + i) (+) Only({Cell("a", r), Cell("b", i)})

GridInv ==
  /\ \A a \in DOMAIN out : a >= m * n => out[a] = Old(a)
  /\ \A r \in 0..m - 1, i \in 0..n - 1 :
       out[Place(kernel.form, r, i, m, n)] =
         IF Taken(InRow, at.row, at.col, r, i) THEN Value(kernel.form, r, i, n)
         ELSE Old(Place(kernel.form, r, i, m, n))

MatrixInv ==
  /\ MatrixTypes /\ WalkInv
  /\ Packable => /\ ScratchInv
                 /\ kernel.form = "dot"   => DotInv
                 /\ kernel.form = "axpy"  => AxpyInv
                 /\ kernel.form \in {"outer", "copy"} => GridInv

MInv == kernel \in MatrixKernels => MatrixInv
-----------------------------------------------------------------------------
\* What the kernels of the family have in common.
LEMMA MatrixShapes ==
  ASSUME kernel \in MatrixKernels
  PROVE  /\ kernel.form \in {"dot", "axpy", "outer", "copy"} /\ kernel.lanes \in {1, 4, 8}
         /\ kernel.weights = "i4" => kernel.form = "dot"
         /\ kernel.form = "copy" => kernel.lanes = 1
  <1> DEFINE Good(f, l, w) == /\ f \in {"dot", "axpy", "outer", "copy"} /\ l \in {1, 4, 8}
                              /\ w = "i4" => f = "dot"
                              /\ f = "copy" => l = 1
  <1>1. ASSUME NEW f, NEW l, NEW w, NEW s, NEW c, kernel = MatrixShape(f, l, w, s, c), Good(f, l, w)
        PROVE  Good(kernel.form, kernel.lanes, kernel.weights)
    BY <1>1 DEF MatrixShape
  <1>2. /\ Good("dot", 4, "f64") /\ Good("dot", 8, "f32") /\ Good("dot", 8, "i8") /\ Good("dot", 8, "i4")
        /\ Good("axpy", 4, "f64") /\ Good("axpy", 8, "f32") /\ Good("outer", 4, "f64")
        /\ Good("outer", 8, "f32") /\ Good("copy", 1, "f32")
    OBVIOUS
  <1> HIDE DEF Good
  <1>3. \E f, l, w, s, c : kernel = MatrixShape(f, l, w, s, c) /\ Good(f, l, w)
    BY <1>2, Zenon DEF MatrixKernels, arr_f64_matvec, arr_f32_matvec, arr_i8_matvec_f32,
       arr_i8_matvec_f32_perrow, arr_i4_matvec_f32_perrow, arr_f64_matvec_T,
       arr_f32_matvec_T, arr_f64_outer_accum, arr_f32_outer_accum, arr_f32_transpose
  <1>4. Good(kernel.form, kernel.lanes, kernel.weights)
    BY <1>1, <1>3
  <1> QED BY <1>4 DEF Good

\* The parts of the invariant that every step needs.
LEMMA MatrixBasics ==
  ASSUME MatrixInv
  PROVE  /\ kernel \in MatrixKernels /\ m \in Nat /\ n \in Nat /\ n <= MaxCols /\ held \in Nat
         /\ at.row \in Nat /\ at.col \in Nat /\ at \in Counts /\ Guard \in Nat
         /\ kernel.form \in {"dot", "axpy", "outer", "copy"} /\ kernel.lanes \in {1, 4, 8}
         /\ (kernel.weights = "i4" => kernel.form = "dot")
         /\ DOMAIN out = 0..Size + Guard - 1 /\ DOMAIN lane = 0..kernel.lanes - 1
  BY MatrixShapes, RegistersAssumption DEF MatrixInv, MatrixTypes, Counts

\* What depends on the call alone.
LEMMA MatrixFrame ==
  ASSUME UNCHANGED <<kernel, m, n, held>>
  PROVE  /\ Size' = Size /\ RowsNeed' = RowsNeed /\ Quantised' = Quantised /\ Packable' = Packable
         /\ \A s, j : Scaled(s, j)' = Scaled(s, j)
  BY DEF Size, RowsNeed, RowBytes, Quantised, Packable, Scaled

\* The products of a row, or of a column, are all different.
LEMMA TermsDiffer ==
  ASSUME NEW r, NEW i, NEW j, NEW k, NEW b
  PROVE  /\ RowTerm(r, i, k) = RowTerm(r, j, k) => i = j
         /\ ColTerm(i, b, k) = ColTerm(j, b, k) => i = j
         /\ RowTerm(r, i, k) # {Cell("bias", b)}
  <1>1. /\ Cell("x", i) = Cell("x", j) => i = j
        /\ Cell("v", i) = Cell("v", j) => i = j
        /\ \A u, v : Cell("W", u) # Cell("x", v) /\ Cell("W", u) # Cell("v", v)
        /\ Cell("x", i) # Cell("bias", b)
    BY DEF Cell
  <1>2. RowTerm(r, i, k) = RowTerm(r, j, k) => i = j
    BY <1>1, Zenon DEF RowTerm
  <1>3. ColTerm(i, b, k) = ColTerm(j, b, k) => i = j
    BY <1>1, Zenon DEF ColTerm
  <1>4. RowTerm(r, i, k) # {Cell("bias", b)}
    BY <1>1, Zenon DEF RowTerm
  <1> QED BY <1>2, <1>3, <1>4

\* One more product of a row.
LEMMA TermsMore ==
  ASSUME NEW B, NEW r, NEW k, NEW I, NEW i, i \notin I,
         RowTerm(r, i, k) \notin B
  PROVE  Sum(B \cup RowTerms(r, I, k)) (+) Only(RowTerm(r, i, k))
           = Sum(B \cup RowTerms(r, I \cup {i}, k))
  <1> DEFINE X == B \cup RowTerms(r, I, k)
             Y == {RowTerm(r, i, k)}
             Z == B \cup RowTerms(r, I \cup {i}, k)
  <1>1. X \cap Y = {}
    BY TermsDiffer DEF RowTerms
  <1>2. X \cup Y = Z
    BY DEF RowTerms
  <1> HIDE DEF X, Y, Z
  <1>3. Sum(X) (+) Sum(Y) = Sum(Z)
    BY <1>1, <1>2, SumUnion
  <1> QED BY <1>3, OnlySum DEF X, Y, Z

\* One more product of the tail.
LEMMA DotMore ==
  ASSUME NEW s, NEW r, NEW c \in Nat, NEW k
  PROVE  DotUpto(s, r, c, k) (+) Only(RowTerm(r, c, k)) = DotUpto(s, r, c + 1, k)
  <1> DEFINE I == 0..c - 1
             J == 0..(c + 1) - 1
             B == BiasOf(s, r)
  <1>1. c \notin I /\ I \cup {c} = J
    OBVIOUS
  <1>2. RowTerm(r, c, k) \notin B
    BY TermsDiffer DEF BiasOf
  <1> HIDE DEF I, J, B
  <1>3. Sum(B \cup RowTerms(r, I, k)) (+) Only(RowTerm(r, c, k)) = Sum(B \cup RowTerms(r, J, k))
    BY <1>1, <1>2, TermsMore
  <1> QED BY <1>3 DEF DotUpto, I, J, B

\* The products of row r in lane l, of the columns before c.
LaneSum(r, c, l, w, k) == Sum(RowTerms(r, LaneColumns(c, l, w), k))

\* One more product of a lane.
LEMMA LaneMore ==
  ASSUME NEW r, NEW c \in Nat, NEW w \in Nat, NEW l \in Nat, NEW k, NEW d, NEW i,
         i = c + l, c % w = 0, d = c + w, w \in {1, 4, 8}, l < w
  PROVE  LaneSum(r, c, l, w, k) (+) Only(RowTerm(r, i, k)) = LaneSum(r, d, l, w, k)
  <1> DEFINE I == LaneColumns(c, l, w)
             J == LaneColumns(d, l, w)
  <1>1. i \notin I
    BY DEF LaneColumns
  <1>2. I \cup {i} = J
    <2>1. CASE w = 1
      BY <2>1 DEF LaneColumns
    <2>2. CASE w = 4
      BY <2>2 DEF LaneColumns
    <2>3. CASE w = 8
      BY <2>3 DEF LaneColumns
    <2> QED BY <2>1, <2>2, <2>3
  <1> DEFINE E == {}
  <1>3. RowTerm(r, i, k) \notin E /\ i \notin I /\ I \cup {i} = J
    BY <1>1, <1>2
  <1>4. E \cup RowTerms(r, I, k) = RowTerms(r, I, k) /\ E \cup RowTerms(r, J, k) = RowTerms(r, J, k)
    OBVIOUS
  <1> HIDE DEF I, J, E
  <1>5. Sum(E \cup RowTerms(r, I, k)) (+) Only(RowTerm(r, i, k)) = Sum(E \cup RowTerms(r, J, k))
    <2>1. RowTerm(r, i, k) \notin E /\ i \notin I
      BY <1>3
    <2>2. Sum(E \cup RowTerms(r, I, k)) (+) Only(RowTerm(r, i, k))
            = Sum(E \cup RowTerms(r, I \cup {i}, k))
      BY ONLY <2>1, TermsMore
    <2> QED BY <1>3, <2>2
  <1> QED BY <1>4, <1>5 DEF I, J, LaneSum

\* One more row of a transposed product.
LEMMA ColMore ==
  ASSUME NEW a, NEW c \in Nat, NEW k
  PROVE  ColUpto(a, c, k) (+) Only(ColTerm(c, a, k)) = ColUpto(a, c + 1, k)
  <1> DEFINE X == {ColTerm(j, a, k) : j \in 0..c - 1}
             Y == {ColTerm(c, a, k)}
             Z == {ColTerm(j, a, k) : j \in 0..(c + 1) - 1}
  <1>1. 0..(c + 1) - 1 = (0..c - 1) \cup {c} /\ c \notin 0..c - 1
    OBVIOUS
  <1>2. X \cap Y = {}
    BY <1>1, TermsDiffer
  <1>3. X \cup Y = Z
    BY <1>1
  <1> HIDE DEF X, Y, Z
  <1>4. Sum(X) (+) Sum(Y) = Sum(Z)
    BY <1>2, <1>3, SumUnion
  <1> QED BY <1>4, OnlySum DEF ColUpto, X, Y, Z

\* The lanes, side by side: the horizontal sum adds them up.
LaneSums(r, c, w, k) == [l \in 0..w - 1 |-> Sum(RowTerms(r, LaneColumns(c, l, w), k))]

\* The horizontal sum of the lanes, added to what the row starts from, is the
\* row so far.
LEMMA LanesFold ==
  ASSUME NEW s, NEW r, NEW c \in Nat, NEW w \in {1, 4, 8}, NEW k
  PROVE  FoldFunction((+), DotUpto(s, r, 0, k), LaneSums(r, c, w, k)) = DotUpto(s, r, c, k)
  <1> DEFINE f == LaneSums(r, c, w, k)
             D == 0..w - 1
             A == BiasOf(s, r)
             L == [l \in D |-> RowTerms(r, LaneColumns(c, l, w), k)]
  <1>1. IsFiniteSet(D)
    BY FS_Interval
  <1>2. \A l \in D : L[l] = RowTerms(r, LaneColumns(c, l, w), k)
    OBVIOUS
  <1>3. f = [l \in D |-> Sum(L[l])]
    BY DEF LaneSums
  <1>4. \A i \in 0..c - 1 : i % w \in D
    <2>1. CASE w = 1
      BY <2>1
    <2>2. CASE w = 4
      BY <2>2
    <2>3. CASE w = 8
      BY <2>3
    <2> QED BY <2>1, <2>2, <2>3
  <1> HIDE DEF D, L, f
  <1>5. \A l \in D : A \cap L[l] = {}
    BY <1>2, TermsDiffer DEF BiasOf, RowTerms
  <1>6. ASSUME NEW i \in D, NEW j \in D, i # j PROVE L[i] \cap L[j] = {}
    <2>1. LaneColumns(c, i, w) \cap LaneColumns(c, j, w) = {}
      BY <1>6 DEF LaneColumns
    <2>2. RowTerms(r, LaneColumns(c, i, w), k) \cap RowTerms(r, LaneColumns(c, j, w), k) = {}
      BY <2>1, TermsDiffer DEF RowTerms
    <2> QED BY <1>2, <2>2
  <1>7. All(L, D) = RowTerms(r, 0..c - 1, k)
    <2>1. ASSUME NEW e \in All(L, D) PROVE e \in RowTerms(r, 0..c - 1, k)
      <3>1. PICK l \in D : e \in RowTerms(r, LaneColumns(c, l, w), k)
        BY <1>2 DEF All
      <3>2. LaneColumns(c, l, w) \subseteq 0..c - 1
        BY DEF LaneColumns
      <3> QED BY <3>1, <3>2 DEF RowTerms
    <2>2. ASSUME NEW e \in RowTerms(r, 0..c - 1, k) PROVE e \in All(L, D)
      <3>1. PICK i \in 0..c - 1 : e = RowTerm(r, i, k)
        BY DEF RowTerms
      <3>2. i \in LaneColumns(c, i % w, w) /\ i % w \in D
        BY <1>4 DEF LaneColumns
      <3>3. e \in L[i % w]
        BY <1>2, <3>1, <3>2 DEF RowTerms
      <3> QED BY <3>2, <3>3 DEF All
    <2> QED BY <2>1, <2>2
  <1> HIDE DEF A
  <1>8. FoldFunction((+), Sum(A), f) = Sum(A \cup All(L, D))
    BY <1>1, <1>3, <1>5, <1>6, FoldSums
  <1>9. DotUpto(s, r, 0, k) = Sum(A)
    <2>1. RowTerms(r, 0..0 - 1, k) = {}
      <3>1. 0..0 - 1 = {}
        OBVIOUS
      <3> QED BY <3>1 DEF RowTerms
    <2> QED BY <2>1 DEF DotUpto, A
  <1> QED BY <1>7, <1>8, <1>9 DEF DotUpto, A, f
-----------------------------------------------------------------------------
\* A pixel of a grid lies in the array, and two have two places.
LEMMA PlaceFacts ==
  ASSUME NEW f, NEW p \in Nat, NEW q \in Nat, NEW r \in 0..p - 1, NEW i \in 0..q - 1
  PROVE  /\ Place(f, r, i, p, q) \in Nat /\ Place(f, r, i, p, q) < p * q
         /\ \A t \in 0..p - 1, j \in 0..q - 1 :
              Place(f, r, i, p, q) = Place(f, t, j, p, q) => r = t /\ i = j
  <1>1. r \in Nat /\ i \in Nat /\ r < p /\ i < q
    OBVIOUS
  <1>2. CASE f = "copy"
    <2>1. i * p + r \in Nat /\ i * p + r < q * p
      BY <1>1, PlaceBelow
    <2>2. q * p = p * q
      OBVIOUS
    <2>3. \A t \in 0..p - 1, j \in 0..q - 1 : i * p + r = j * p + t => i = j /\ r = t
      BY <1>1, SamePlace
    <2> QED BY <1>2, <2>1, <2>2, <2>3 DEF Place
  <1>3. CASE f # "copy"
    <2>1. r * q + i \in Nat /\ r * q + i < p * q
      BY <1>1, PlaceBelow
    <2>2. \A t \in 0..p - 1, j \in 0..q - 1 : r * q + i = t * q + j => r = t /\ i = j
      BY <1>1, SamePlace
    <2> QED BY <1>3, <2>1, <2>2 DEF Place
  <1> QED BY <1>2, <1>3

\* The output of an outer product and of a copy.
LEMMA GridSize ==
  ASSUME kernel.form \in {"outer", "copy"}
  PROVE  Size = m * n
  BY DEF Size

\* The invariant holds when the call begins.
LEMMA MatrixStart ==
  ASSUME MatrixInit
  PROVE  MatrixInv
  <1>1. /\ kernel \in MatrixKernels /\ m \in 0..MaxRows /\ n \in 0..MaxCols /\ at = Counters
        /\ pc = "matrix"
    BY DEF MatrixInit
  <1>2. m \in Nat /\ n \in Nat
    BY <1>1, RegistersAssumption
  <1>3. RowsNeed \in Nat
    <2>1. n \div 2 \in Nat
      BY <1>2
    <2>2. RowBytes \in Nat
      BY <1>2, <2>1 DEF RowBytes
    <2> QED BY <1>2, <2>2 DEF RowsNeed
  <1>4. held \in Nat /\ (~Quantised => held = RowsNeed)
    <2> DEFINE w == RowsNeed
    <2>1. held \in IF Quantised THEN {w, w + 1, w - 1} \cap Nat ELSE {w}
      BY DEF MatrixInit
    <2>2. w \in Nat
      BY <1>3
    <2> HIDE DEF w
    <2>3. held \in Nat /\ (~Quantised => held = w)
      BY <2>1, <2>2
    <2> QED BY <2>3 DEF w
  <1>5. at \in Counts /\ at.row = 0 /\ at.col = 0
    BY <1>1 DEF Counters, Counts
  <1>6. DOMAIN out = 0..Size + Guard - 1 /\ \A a \in DOMAIN out : out[a] = Old(a)
    BY DEF MatrixInit
  <1>7. /\ out = [a \in 0..Size + Guard - 1 |-> out[a]]
        /\ lane = [l \in 0..kernel.lanes - 1 |-> lane[l]]
        /\ scratch = [i \in 0..MaxCols - 1 |-> scratch[i]]
    <2>1. out = [a \in 0..Size + Guard - 1 |-> Old(a)]
      BY DEF MatrixInit
    <2>2. lane = [l \in 0..kernel.lanes - 1 |-> Zero]
      BY DEF MatrixInit
    <2>3. scratch = [i \in 0..MaxCols - 1 |-> Cell("stack", i)]
      BY DEF MatrixInit
    <2> QED BY <2>1, <2>2, <2>3
  <1>8. MatrixTypes
    BY <1>1, <1>2, <1>4, <1>5, <1>7 DEF MatrixTypes, MatrixPcs
  <1>9. WalkInv
    BY <1>1, <1>2, <1>3, <1>4, <1>5, <1>6 DEF WalkInv, Unstarted
  <1>10. ScratchInv
    BY <1>1 DEF ScratchInv, InRow
  <1>11. \A a \in DOMAIN out : ~(a < at.row)
    <2>1. Size \in Nat
      <3>1. m * n \in Nat
        BY <1>2
      <3> QED BY <1>1, <1>2, <3>1, MatrixShapes DEF Size
    <2> QED BY <1>5, <1>6, <2>1, RegistersAssumption
  <1>12. DotInv
    BY <1>1, <1>6, <1>11 DEF DotInv
  <1>13. AxpyInv
    BY <1>1, <1>6 DEF AxpyInv
  <1>14. kernel.form \in {"outer", "copy"} => GridInv
    <2> SUFFICES ASSUME kernel.form \in {"outer", "copy"} PROVE GridInv
      OBVIOUS
    <2>1. ASSUME NEW r \in 0..m - 1, NEW i \in 0..n - 1
          PROVE  /\ out[Place(kernel.form, r, i, m, n)] = Old(Place(kernel.form, r, i, m, n))
                 /\ ~Taken(InRow, at.row, at.col, r, i)
      <3> DEFINE a == Place(kernel.form, r, i, m, n)
      <3>1. a \in Nat /\ a < m * n
        BY <1>2, PlaceFacts
      <3>2. m * n \in Nat
        BY <1>2
      <3>3. ~Taken(InRow, at.row, at.col, r, i)
        BY <1>1, <1>5 DEF Taken, InRow
      <3> HIDE DEF a
      <3>4. a \in DOMAIN out
        BY <1>6, <3>1, <3>2, GridSize, RegistersAssumption
      <3>5. out[a] = Old(a)
        BY <1>6, <3>4
      <3> QED BY <3>3, <3>5 DEF a
    <2> QED BY <1>6, <2>1 DEF GridInv
  <1> QED BY <1>8, <1>9, <1>10, <1>12, <1>13, <1>14 DEF MatrixInv

\* The refusal of a too short matrix keeps the invariant.
LEMMA RefuseMatrixStep ==
  ASSUME MatrixInv, RefuseMatrix
  PROVE  MatrixInv'
  <1>1. /\ pc = "matrix" /\ pc' = "exit"
        /\ UNCHANGED <<kernel, m, n, held, at, lane, acc, scratch, out>>
    BY DEF RefuseMatrix
  <1>2. MatrixTypes /\ WalkInv
    BY DEF MatrixInv
  <1>3. /\ Size' = Size /\ RowsNeed' = RowsNeed /\ Quantised' = Quantised /\ Packable' = Packable
        /\ \A s, j : Scaled(s, j)' = Scaled(s, j)
    BY <1>1, MatrixFrame
  <1>4. MatrixTypes'
    BY <1>1, <1>2, <1>3 DEF MatrixTypes, MatrixPcs
  <1>5. WalkInv'
    BY <1>1, <1>2, <1>3 DEF WalkInv, Unstarted
  <1>6. ScratchInv'
    BY <1>1 DEF ScratchInv, InRow
  <1>7. DotInv => DotInv'
    BY <1>1, <1>3 DEF DotInv
  <1>8. AxpyInv => AxpyInv'
    BY <1>1, <1>3 DEF AxpyInv
  <1>9. InRow' = InRow
    BY <1>1 DEF InRow
  <1>10. GridInv => GridInv'
    BY <1>1, <1>9 DEF GridInv
  <1> QED BY <1>1, <1>3, <1>4, <1>5, <1>6, <1>7, <1>8, <1>10 DEF MatrixInv

\* So does the start of the loops.
LEMMA BeginRowsStep ==
  ASSUME MatrixInv, BeginRows
  PROVE  MatrixInv'
  <1>1. /\ pc = "matrix" /\ (Quantised => RowsNeed <= held)
        /\ pc' = IF kernel.form = "axpy" THEN "zero" ELSE "row"
        /\ UNCHANGED <<kernel, m, n, held, at, lane, acc, scratch, out>>
    BY DEF BeginRows
  <1>2. MatrixTypes /\ WalkInv /\ m \in Nat /\ n \in Nat /\ kernel.lanes \in {1, 4, 8}
        /\ at.row \in Nat /\ at.col \in Nat
    BY MatrixBasics DEF MatrixInv
  <1>3. /\ Size' = Size /\ RowsNeed' = RowsNeed /\ Quantised' = Quantised /\ Packable' = Packable
        /\ \A s, j : Scaled(s, j)' = Scaled(s, j)
    BY <1>1, MatrixFrame
  <1>4. pc' \in {"zero", "row"}
    BY <1>1
  <1>5. MatrixTypes'
    BY <1>1, <1>2, <1>3, <1>4 DEF MatrixTypes, MatrixPcs
  <1>6. WalkInv'
    <2>1. RowsNeed <= held /\ at.row = 0 /\ at.col = 0 /\ 0 % kernel.lanes = 0
      BY <1>1, <1>2 DEF WalkInv, Unstarted
    <2> QED BY <1>1, <1>2, <1>3, <1>4, <2>1 DEF WalkInv, Unstarted
  <1>7. ScratchInv'
    BY <1>4 DEF ScratchInv, InRow
  <1>8. DotInv => DotInv'
    BY <1>1, <1>3, <1>4 DEF DotInv
  <1>9. kernel.form = "axpy" /\ AxpyInv => AxpyInv'
    <2>1. at.col = 0
      BY <1>1, <1>2 DEF WalkInv, Unstarted
    <2>2. 0..at.col - 1 = {}
      BY <2>1
    <2> QED BY <1>1, <1>3, <2>2 DEF AxpyInv
  <1>10. InRow' = InRow
    BY <1>1, <1>4 DEF InRow
  <1>11. GridInv => GridInv'
    BY <1>1, <1>10 DEF GridInv
  <1> QED BY <1>1, <1>3, <1>5, <1>6, <1>7, <1>8, <1>9, <1>11 DEF MatrixInv

\* So does the end of the loop over the rows.
LEMMA RowsEndStep ==
  ASSUME MatrixInv, RowsEnd
  PROVE  MatrixInv'
  <1>1. /\ pc = "row" /\ pc' = "done" /\ at.row >= m
        /\ UNCHANGED <<kernel, m, n, held, at, lane, acc, scratch, out>>
    BY DEF RowsEnd
  <1>2. MatrixTypes /\ WalkInv /\ m \in Nat /\ at.row \in Nat
    BY MatrixBasics DEF MatrixInv
  <1>3. /\ Size' = Size /\ RowsNeed' = RowsNeed /\ Quantised' = Quantised /\ Packable' = Packable
        /\ \A s, j : Scaled(s, j)' = Scaled(s, j)
    BY <1>1, MatrixFrame
  <1>4. MatrixTypes'
    BY <1>1, <1>2, <1>3 DEF MatrixTypes, MatrixPcs
  <1>5. WalkInv'
    BY <1>1, <1>2, <1>3 DEF WalkInv, Unstarted
  <1>6. ScratchInv'
    BY <1>1 DEF ScratchInv, InRow
  <1>7. DotInv => DotInv'
    BY <1>1, <1>3 DEF DotInv
  <1>8. InRow' = InRow
    BY <1>1 DEF InRow
  <1>9. AxpyInv => AxpyInv'
    BY <1>1, <1>3, <1>8 DEF AxpyInv
  <1>10. GridInv => GridInv'
    BY <1>1, <1>8 DEF GridInv
  <1> QED BY <1>1, <1>3, <1>4, <1>5, <1>6, <1>7, <1>9, <1>10 DEF MatrixInv

\* So does the end of the clearing of a transposed product.
LEMMA ClearEndStep ==
  ASSUME MatrixInv, ClearEnd
  PROVE  MatrixInv'
  <1>1. /\ pc = "zero" /\ pc' = "row" /\ at.col >= n
        /\ UNCHANGED <<kernel, m, n, held, at, lane, acc, scratch, out>>
    BY DEF ClearEnd
  <1>2. /\ MatrixTypes /\ WalkInv /\ m \in Nat /\ n \in Nat /\ at.row \in Nat /\ at.col \in Nat
        /\ (kernel.weights = "i4" => kernel.form = "dot")
    BY MatrixBasics DEF MatrixInv
  <1>3. /\ Size' = Size /\ RowsNeed' = RowsNeed /\ Quantised' = Quantised /\ Packable' = Packable
        /\ \A s, j : Scaled(s, j)' = Scaled(s, j)
    BY <1>1, MatrixFrame
  <1>4. kernel.form = "axpy" /\ at.row = 0 /\ at.col = n
    BY <1>1, <1>2 DEF WalkInv
  <1>5. MatrixTypes'
    BY <1>1, <1>2, <1>3 DEF MatrixTypes, MatrixPcs
  <1>6. WalkInv'
    BY <1>1, <1>2, <1>3 DEF WalkInv, Unstarted
  <1>7. ScratchInv'
    BY <1>1 DEF ScratchInv, InRow
  <1>8. AxpyInv => AxpyInv'
    <2> SUFFICES ASSUME AxpyInv PROVE AxpyInv'
      OBVIOUS
    <2>1. \A a, k : ColUpto(a, 0, k) = Zero
      <3>1. 0..0 - 1 = {}
        OBVIOUS
      <3> QED BY <3>1, SumNone DEF ColUpto
    <2>2. \A a \in 0..n - 1 : out[a] = ColUpto(a, 0, n)
      BY <1>1, <1>4, <2>1 DEF AxpyInv
    <2>3. ~InRow'
      BY <1>1 DEF InRow
    <2>4. \A a \in DOMAIN out : a >= n => out[a] = Old(a)
      BY DEF AxpyInv
    <2> QED BY <1>1, <1>4, <2>2, <2>3, <2>4 DEF AxpyInv
  <1> QED BY <1>1, <1>3, <1>4, <1>5, <1>6, <1>7, <1>8 DEF MatrixInv

\* Full vectors are no more than there are elements.
LEMMA FullRange ==
  ASSUME NEW k \in Nat, NEW l \in {1, 4, 8}
  PROVE  Full(k, l) \in 0..k /\ 0 % l = 0
  <1>1. CASE l = 1
    BY <1>1 DEF Full
  <1>2. CASE l = 4
    BY <1>2 DEF Full
  <1>3. CASE l = 8
    BY <1>3 DEF Full
  <1> QED BY <1>1, <1>2, <1>3

\* Clearing some cells keeps the invariant.
LEMMA ClearStep ==
  ASSUME MatrixInv, Clear
  PROVE  MatrixInv'
  <1> DEFINE w == kernel.lanes
             F == Full(n, w)
             k == IF at.col < F THEN w ELSE 1
             c == at.col + k
             R == at.col..c - 1
  <1>1. /\ pc = "zero" /\ at.col < n
        /\ at' = [at EXCEPT !.col = at.col + k]
        /\ UNCHANGED <<kernel, m, n, held, lane, acc, scratch, pc>>
    BY DEF Clear
  <1>2. out' = [a \in DOMAIN out |-> IF a \in R THEN Zero ELSE out[a]]
    <2>1. out' = [a \in DOMAIN out |-> IF a \in at.col..at.col + k - 1 THEN Zero ELSE out[a]]
      BY DEF Clear
    <2>2. at.col \in Nat /\ k \in Nat
      BY MatrixBasics
    <2> HIDE DEF k
    <2>3. R = at.col..at.col + k - 1
      BY <2>2
    <2> HIDE DEF R
    <2> QED BY <2>1, <2>3, Zenon
  <1>3. /\ MatrixTypes /\ WalkInv /\ m \in Nat /\ n \in Nat /\ at.row \in Nat /\ at.col \in Nat
        /\ w \in {1, 4, 8} /\ at \in Counts /\ DOMAIN out = 0..Size + Guard - 1 /\ Guard \in Nat
        /\ (kernel.weights = "i4" => kernel.form = "dot")
    BY MatrixBasics DEF MatrixInv
  <1>4. kernel.form = "axpy" /\ at.row = 0 /\ Size = n /\ (at.col < F => at.col % w = 0)
    BY <1>1, <1>3 DEF WalkInv, Size
  <1>5. c \in Nat /\ at.col < c /\ c <= n /\ (c < F => c % w = 0)
    <2>1. F \in 0..n
      <3>1. 0 % w = 0
        BY <1>3
      <3> QED BY <1>3, <3>1, FullStep
    <2> HIDE DEF F
    <2>2. CASE at.col < F
      <3>1. at.col + w <= F /\ (at.col + w) % w = 0
        BY <1>3, <1>4, <2>2, FullStep DEF F
      <3> QED BY <1>3, <2>1, <2>2, <3>1
    <2>3. CASE ~(at.col < F)
      BY <1>1, <1>3, <2>1, <2>3
    <2> QED BY <2>2, <2>3
  <1> HIDE DEF k
  <1> HIDE DEF R
  <1>6. \A a \in DOMAIN out : out'[a] = IF a \in R THEN Zero ELSE out[a]
    BY <1>2
  <1>7. /\ Size' = Size /\ RowsNeed' = RowsNeed /\ Quantised' = Quantised /\ Packable' = Packable
        /\ \A s, j : Scaled(s, j)' = Scaled(s, j)
    BY <1>1, MatrixFrame
  <1>8. DOMAIN out' = DOMAIN out /\ out' = [a \in DOMAIN out |-> out'[a]]
    BY <1>2
  <1> HIDE DEF c
  <1>9. at'.row = at.row /\ at'.col = c /\ at' \in Counts
    BY <1>1, <1>3, <1>5 DEF Counts, c
  <1>10. MatrixTypes'
    BY <1>1, <1>3, <1>7, <1>8, <1>9 DEF MatrixTypes, MatrixPcs
  <1>11. WalkInv'
    BY <1>1, <1>3, <1>4, <1>5, <1>7, <1>9 DEF WalkInv, Unstarted
  <1>12. ScratchInv'
    BY <1>1, <1>3, <1>4 DEF ScratchInv
  <1>13. AxpyInv => AxpyInv'
    <2> SUFFICES ASSUME AxpyInv PROVE AxpyInv'
      OBVIOUS
    <2>1. \A a \in DOMAIN out : a >= n => out'[a] = Old(a)
      BY <1>3, <1>4, <1>5, <1>6 DEF AxpyInv, R
    <2>2. \A a \in 0..c - 1 : out'[a] = Zero
      <3> TAKE a \in 0..c - 1
      <3>1. a \in DOMAIN out /\ (~(a \in at.col..c - 1) => a \in 0..at.col - 1)
        BY <1>3, <1>4, <1>5
      <3>2. a \in 0..at.col - 1 => out[a] = Zero
        BY <1>1 DEF AxpyInv
      <3> QED BY <1>6, <3>1, <3>2 DEF R
    <2> QED BY <1>1, <1>8, <1>9, <2>1, <2>2 DEF AxpyInv
  <1> QED BY <1>1, <1>4, <1>7, <1>10, <1>11, <1>12, <1>13 DEF MatrixInv

\* Before the first column.
LEMMA NoColumns ==
  /\ \A s, r, k : DotUpto(s, r, 0, k) = IF s = "bias" THEN Only({Cell("bias", r)}) ELSE Zero
  /\ \A r, l, w, k : Sum(RowTerms(r, LaneColumns(0, l, w), k)) = Zero
  <1>1. 0..0 - 1 = {}
    OBVIOUS
  <1>2. \A r, k : RowTerms(r, 0..0 - 1, k) = {}
    BY <1>1 DEF RowTerms
  <1>3. \A l, w : LaneColumns(0, l, w) = {}
    BY <1>1 DEF LaneColumns
  <1>4. \A r, l, w, k : RowTerms(r, LaneColumns(0, l, w), k) = {}
    BY <1>3 DEF RowTerms
  <1>5. \A s, r, k : DotUpto(s, r, 0, k) = Sum(BiasOf(s, r))
    BY <1>2 DEF DotUpto
  <1>6. \A s, r : Sum(BiasOf(s, r)) = IF s = "bias" THEN Only({Cell("bias", r)}) ELSE Zero
    BY SumNone, OnlySum DEF BiasOf
  <1> QED BY <1>4, <1>5, <1>6, SumNone

\* The top of the loop over the rows keeps the invariant.
LEMMA RowStep ==
  ASSUME MatrixInv, Row
  PROVE  MatrixInv'
  <1>1. /\ pc = "row" /\ at.row < m
        /\ at' = [at EXCEPT !.col = 0]
        /\ acc' = IF kernel.seed = "bias" THEN Only({Cell("bias", at.row)}) ELSE Zero
        /\ pc' = IF kernel.weights = "i4" THEN "unpack" ELSE "vector"
        /\ UNCHANGED <<kernel, m, n, held, scratch, out>>
    BY DEF Row
  <1>2. lane' = [l \in DOMAIN lane |-> Zero]
    BY DEF Row
  <1>3. /\ MatrixTypes /\ WalkInv /\ m \in Nat /\ n \in Nat /\ at.row \in Nat /\ at.col \in Nat
        /\ kernel.lanes \in {1, 4, 8} /\ at \in Counts
    BY MatrixBasics DEF MatrixInv
  <1>4. /\ Size' = Size /\ RowsNeed' = RowsNeed /\ Quantised' = Quantised /\ Packable' = Packable
        /\ \A s, j : Scaled(s, j)' = Scaled(s, j)
    BY <1>1, MatrixFrame
  <1>5. /\ DOMAIN lane' = DOMAIN lane /\ lane' = [l \in DOMAIN lane |-> lane'[l]]
        /\ \A l \in DOMAIN lane : lane'[l] = Zero
    BY <1>2
  <1>6. at'.row = at.row /\ at'.col = 0 /\ at' \in Counts
    BY <1>1, <1>3 DEF Counts
  <1>7. MatrixTypes'
    BY <1>1, <1>3, <1>4, <1>5, <1>6 DEF MatrixTypes, MatrixPcs
  <1>8. WalkInv'
    <2>1. 0 % kernel.lanes = 0 /\ 0 <= n \div 2
      BY <1>3
    <2>2. 0 <= Full(n, kernel.lanes)
      BY <1>3, FullRange
    <2> QED BY <1>1, <1>3, <1>4, <1>6, <2>1, <2>2 DEF WalkInv, Unstarted
  <1>9. ScratchInv'
    <2>1. 0..2 * at'.col - 1 = {}
      BY <1>6
    <2> QED BY <1>1, <2>1 DEF ScratchInv, InRow
  <1>10. DotInv => DotInv'
    <2> SUFFICES ASSUME DotInv PROVE DotInv'
      OBVIOUS
    <2>1. acc' = DotUpto(kernel.seed, at.row, 0, n)
      BY <1>1, NoColumns
    <2>2. \A l \in DOMAIN lane : lane'[l] = Sum(RowTerms(at.row, LaneColumns(0, l, kernel.lanes), n))
      BY <1>5, NoColumns
    <2>3. \A a \in DOMAIN out :
            out[a] = IF a < at.row THEN Scaled(DotUpto(kernel.seed, a, n, n), a) ELSE Old(a)
      BY DEF DotInv
    <2>4. pc' # "tail"
      BY <1>1
    <2> QED BY <1>1, <1>4, <1>5, <1>6, <2>1, <2>2, <2>3, <2>4 DEF DotInv
  <1>11. AxpyInv => AxpyInv'
    <2> SUFFICES ASSUME AxpyInv PROVE AxpyInv'
      OBVIOUS
    <2>1. /\ \A a \in 0..n - 1 : out[a] = ColUpto(a, at.row, n)
          /\ \A a \in DOMAIN out : a >= n => out[a] = Old(a)
      BY <1>1 DEF AxpyInv, InRow
    <2>2. \A a \in 0..n - 1 : ~(a < 0)
      BY <1>3
    <2>3. pc' # "zero"
      BY <1>1
    <2> QED BY <1>1, <1>6, <2>1, <2>2, <2>3 DEF AxpyInv
  <1>12. GridInv => GridInv'
    <2> SUFFICES ASSUME GridInv PROVE GridInv'
      OBVIOUS
    <2>1. \A i \in 0..n - 1 : ~(i < 0)
      BY <1>3
    <2>2. \A r \in 0..m - 1, i \in 0..n - 1 :
            Taken(InRow', at.row, 0, r, i) <=> Taken(InRow, at.row, at.col, r, i)
      BY <1>1, <2>1 DEF Taken, InRow
    <2>3. /\ \A a \in DOMAIN out : a >= m * n => out[a] = Old(a)
          /\ \A r \in 0..m - 1, i \in 0..n - 1 :
               out[Place(kernel.form, r, i, m, n)] =
                 IF Taken(InRow', at.row, 0, r, i) THEN Value(kernel.form, r, i, n)
                 ELSE Old(Place(kernel.form, r, i, m, n))
      BY <2>2 DEF GridInv
    <2> QED BY <1>1, <1>6, <2>3 DEF GridInv
  <1> QED BY <1>1, <1>4, <1>7, <1>8, <1>9, <1>10, <1>11, <1>12 DEF MatrixInv

\* Under RowsNeed <= held every byte of the matrix is one of its own.
LEMMA Inside ==
  ASSUME MatrixInv, ~Unstarted, NEW i \in 0..RowBytes - 1, at.row < m,
         RowBytes \in Nat
  PROVE  at.row * RowBytes + i < held
  <1>1. RowsNeed <= held /\ at.row \in Nat /\ m \in Nat /\ held \in Nat
    BY MatrixBasics DEF MatrixInv, WalkInv
  <1>2. at.row * RowBytes + i \in Nat /\ at.row * RowBytes + i < m * RowBytes
    BY <1>1, PlaceBelow
  <1>3. m * RowBytes \in Nat
    BY <1>1
  <1> QED BY <1>1, <1>2, <1>3 DEF RowsNeed

\* A byte unpacked gives two weights of the row.
LEMMA UnpackStep ==
  ASSUME MatrixInv, Unpack
  PROVE  MatrixInv'
  <1> DEFINE h == n \div 2
             byte == at.row * h + at.col
             c == at.col
  <1>1. /\ pc = "unpack" /\ at.col < h
        /\ scratch' = [scratch EXCEPT ![2 * c]     = ElementOfW(2 * byte, byte),
                                      ![2 * c + 1] = ElementOfW(2 * byte + 1, byte)]
        /\ at' = [at EXCEPT !.col = at.col + 1]
        /\ UNCHANGED <<kernel, m, n, held, lane, acc, out, pc>>
    BY DEF Unpack
  <1>2. /\ MatrixTypes /\ WalkInv /\ m \in Nat /\ n \in Nat /\ at.row \in Nat /\ at.col \in Nat
        /\ at \in Counts /\ n <= MaxCols /\ MaxCols \in Nat
        /\ (kernel.weights = "i4" => kernel.form = "dot")
    BY MatrixBasics, RegistersAssumption DEF MatrixInv
  <1>3. /\ Size' = Size /\ RowsNeed' = RowsNeed /\ Quantised' = Quantised /\ Packable' = Packable
        /\ \A s, j : Scaled(s, j)' = Scaled(s, j)
    BY <1>1, MatrixFrame
  <1>4. at'.row = at.row /\ at'.col = c + 1 /\ at' \in Counts
    BY <1>1, <1>2 DEF Counts
  <1>5. kernel.weights = "i4" /\ kernel.form = "dot" /\ at.row < m
    BY <1>1, <1>2 DEF WalkInv
  <1>6. h \in Nat /\ RowBytes = h /\ c \in 0..h - 1
    BY <1>1, <1>2, <1>5 DEF RowBytes
  <1>7. DOMAIN scratch' = 0..MaxCols - 1 /\ DOMAIN scratch = 0..MaxCols - 1
        /\ scratch' = [i \in 0..MaxCols - 1 |-> scratch'[i]]
    BY <1>1, <1>2, Zenon DEF MatrixTypes
  <1>8. MatrixTypes'
    BY <1>1, <1>2, <1>3, <1>4, <1>7 DEF MatrixTypes, MatrixPcs
  <1>9. WalkInv'
    <2>1. c + 1 <= n \div 2
      BY <1>2, <1>6
    <2> QED BY <1>1, <1>2, <1>3, <1>4, <1>5, <2>1 DEF WalkInv, Unstarted
  <1>10. Packable /\ ScratchInv => ScratchInv'
    <2> SUFFICES ASSUME Packable, ScratchInv PROVE ScratchInv'
      OBVIOUS
    <2>1. n = 2 * h
      BY <1>2, <1>5 DEF Packable
    <2>2. byte < held
      BY <1>1, <1>5, <1>6, Inside DEF Unstarted
    <2>3. byte \in Nat /\ 2 * byte = at.row * n + 2 * c
      <3>1. at.row * (2 * h) = 2 * (at.row * h)
        BY <1>2, <1>6
      <3> QED BY <1>2, <1>6, <2>1, <3>1
    <2>4. /\ ElementOfW(2 * byte, byte) = Cell("W", at.row * n + 2 * c)
          /\ ElementOfW(2 * byte + 1, byte) = Cell("W", at.row * n + 2 * c + 1)
      BY <2>2, <2>3 DEF ElementOfW
    <2> DEFINE e0 == ElementOfW(2 * byte, byte)
               e1 == ElementOfW(2 * byte + 1, byte)
    <2>5. scratch' = [scratch EXCEPT ![2 * c] = e0, ![2 * c + 1] = e1]
      BY <1>1
    <2>6. e0 = Cell("W", at.row * n + 2 * c) /\ e1 = Cell("W", at.row * n + 2 * c + 1)
      BY <2>4
    <2> HIDE DEF e0, e1, byte
    <2>7. 2 * c \in 0..MaxCols - 1 /\ 2 * c + 1 \in 0..MaxCols - 1
      BY <1>2, <1>6, <2>1
    <2>8. /\ scratch'[2 * c] = e0 /\ scratch'[2 * c + 1] = e1
          /\ \A i \in 0..2 * c - 1 : scratch'[i] = scratch[i]
      <3>1. 2 * c # 2 * c + 1 /\ \A i \in 0..2 * c - 1 : i \in 0..MaxCols - 1 /\ i # 2 * c /\ i # 2 * c + 1
        BY <1>2, <2>7
      <3> QED BY <1>7, <2>5, <2>7, <3>1
    <2>9. \A i \in 0..2 * c - 1 : scratch[i] = Cell("W", at.row * n + i)
      BY <1>1, <1>5 DEF ScratchInv
    <2>10. \A i \in 0..2 * (c + 1) - 1 : i \in 0..2 * c - 1 \/ i = 2 * c \/ i = 2 * c + 1
      BY <1>2
    <2>11. at.row * n + (2 * c + 1) = at.row * n + 2 * c + 1
      BY <1>2
    <2>12. \A i \in 0..2 * (c + 1) - 1 : scratch'[i] = Cell("W", at.row * n + i)
      BY <2>6, <2>8, <2>9, <2>10, <2>11
    <2>13. ~InRow'
      BY <1>1 DEF InRow
    <2> QED BY <1>1, <1>4, <2>12, <2>13 DEF ScratchInv
  <1>11. DotInv => DotInv'
    BY <1>1, <1>3, <1>4 DEF DotInv
  <1> QED BY <1>1, <1>3, <1>5, <1>8, <1>9, <1>10, <1>11 DEF MatrixInv

\* The end of the unpacking keeps the invariant.
LEMMA UnpackEndStep ==
  ASSUME MatrixInv, UnpackEnd
  PROVE  MatrixInv'
  <1>1. /\ pc = "unpack" /\ at.col >= n \div 2
        /\ at' = [at EXCEPT !.col = 0]
        /\ pc' = "vector"
        /\ UNCHANGED <<kernel, m, n, held, lane, acc, scratch, out>>
    BY DEF UnpackEnd
  <1>2. /\ MatrixTypes /\ WalkInv /\ m \in Nat /\ n \in Nat /\ at.row \in Nat /\ at.col \in Nat
        /\ at \in Counts /\ kernel.lanes \in {1, 4, 8}
        /\ (kernel.weights = "i4" => kernel.form = "dot")
    BY MatrixBasics DEF MatrixInv
  <1>3. /\ Size' = Size /\ RowsNeed' = RowsNeed /\ Quantised' = Quantised /\ Packable' = Packable
        /\ \A s, j : Scaled(s, j)' = Scaled(s, j)
    BY <1>1, MatrixFrame
  <1>4. at'.row = at.row /\ at'.col = 0 /\ at' \in Counts
    BY <1>1, <1>2 DEF Counts
  <1>5. kernel.weights = "i4" /\ kernel.form = "dot" /\ at.row < m /\ at.col = n \div 2
    BY <1>1, <1>2 DEF WalkInv
  <1>6. MatrixTypes'
    BY <1>1, <1>2, <1>3, <1>4 DEF MatrixTypes, MatrixPcs
  <1>7. WalkInv'
    <2>1. 0 % kernel.lanes = 0
      BY <1>2
    <2>2. 0 <= Full(n, kernel.lanes)
      BY <1>2, FullRange
    <2> QED BY <1>1, <1>2, <1>3, <1>4, <1>5, <2>1, <2>2 DEF WalkInv, Unstarted
  <1>8. Packable /\ ScratchInv => ScratchInv'
    <2> SUFFICES ASSUME Packable, ScratchInv PROVE ScratchInv'
      OBVIOUS
    <2>1. n = 2 * at.col
      BY <1>2, <1>5 DEF Packable
    <2>2. \A i \in 0..n - 1 : scratch[i] = Cell("W", at.row * n + i)
      BY <1>1, <1>5, <2>1 DEF ScratchInv
    <2>3. pc' # "unpack"
      BY <1>1
    <2> QED BY <1>1, <1>4, <2>2, <2>3 DEF ScratchInv
  <1>9. DotInv => DotInv'
    <2> SUFFICES ASSUME DotInv PROVE DotInv'
      OBVIOUS
    <2>1. acc = DotUpto(kernel.seed, at.row, 0, n)
      BY <1>1 DEF DotInv
    <2>2. \A l \in DOMAIN lane : lane[l] = Sum(RowTerms(at.row, LaneColumns(0, l, kernel.lanes), n))
      BY <1>1, NoColumns DEF DotInv
    <2>3. \A a \in DOMAIN out :
            out[a] = IF a < at.row THEN Scaled(DotUpto(kernel.seed, a, n, n), a) ELSE Old(a)
      BY DEF DotInv
    <2> QED BY <1>1, <1>3, <1>4, <2>1, <2>2, <2>3 DEF DotInv
  <1> QED BY <1>1, <1>3, <1>5, <1>6, <1>7, <1>8, <1>9 DEF MatrixInv
-----------------------------------------------------------------------------
\* A factor that a row of the loops takes is an element of that row of W.
LEMMA FactorIs ==
  ASSUME MatrixInv, Packable, InRow, NEW i \in 0..n - 1
  PROVE  Factor(i) = Cell("W", at.row * n + i)
  <1>1. /\ WalkInv /\ ScratchInv /\ ~Unstarted /\ at.row < m /\ n \in Nat
    BY MatrixBasics DEF MatrixInv, WalkInv, InRow, Unstarted
  <1>2. CASE kernel.weights = "i4"
    BY <1>1, <1>2 DEF ScratchInv, Factor
  <1>3. CASE kernel.weights # "i4"
    <2>1. RowBytes = n
      BY <1>3 DEF RowBytes
    <2>2. at.row * n + i < held
      BY <1>1, <2>1, Inside
    <2> QED BY <1>3, <2>2 DEF Factor, ElementOfW
  <1> QED BY <1>2, <1>3

\* What a dot product adds at column i.
LEMMA DotProduct ==
  ASSUME MatrixInv, Packable, InRow, kernel.form = "dot", NEW i \in 0..n - 1
  PROVE  Product(i) = RowTerm(at.row, i, n)
  BY FactorIs, Zenon DEF Product, RowTerm

\* A full vector of a dot product gives every lane one more product.
LEMMA DotVectorStep ==
  ASSUME MatrixInv, DotVector
  PROVE  MatrixInv'
  <1> DEFINE w == kernel.lanes
             c == at.col
             F == Full(n, w)
  <1>1. /\ pc = "vector" /\ c < F /\ kernel.form = "dot"
        /\ at' = [at EXCEPT !.col = at.col + w]
        /\ UNCHANGED <<kernel, m, n, held, acc, scratch, out, pc>>
    BY DEF DotVector, VectorRuns
  <1>2. lane' = [l \in DOMAIN lane |-> lane[l] (+) Only(Product(at.col + l))]
    BY DEF DotVector
  <1>3. /\ MatrixTypes /\ WalkInv /\ m \in Nat /\ n \in Nat /\ at.row \in Nat /\ c \in Nat
        /\ at \in Counts /\ w \in {1, 4, 8} /\ DOMAIN lane = 0..w - 1
    BY MatrixBasics DEF MatrixInv
  <1>4. /\ Size' = Size /\ RowsNeed' = RowsNeed /\ Quantised' = Quantised /\ Packable' = Packable
        /\ \A s, j : Scaled(s, j)' = Scaled(s, j)
    BY <1>1, MatrixFrame
  <1>5. at'.row = at.row /\ at'.col = c + w /\ at' \in Counts
    BY <1>1, <1>3 DEF Counts
  <1>6. /\ DOMAIN lane' = DOMAIN lane /\ lane' = [l \in DOMAIN lane |-> lane'[l]]
        /\ \A l \in DOMAIN lane : lane'[l] = lane[l] (+) Only(Product(c + l))
    BY <1>2
  <1>7. MatrixTypes'
    BY <1>1, <1>3, <1>4, <1>5, <1>6 DEF MatrixTypes, MatrixPcs
  <1>8. c % w = 0 /\ at.row < m
    BY <1>1, <1>3 DEF WalkInv
  <1> HIDE DEF c, w
  <1>9. F \in 0..n /\ c + w <= F /\ (c + w) % w = 0
    BY <1>1, <1>3, <1>8, FullStep
  <1>10. WalkInv'
    BY <1>1, <1>3, <1>4, <1>5, <1>8, <1>9 DEF WalkInv, Unstarted, w
  <1>11. ScratchInv => ScratchInv'
    BY <1>1, <1>5 DEF ScratchInv, InRow
  <1>12. Packable /\ DotInv => DotInv'
    <2> SUFFICES ASSUME Packable, DotInv PROVE DotInv'
      OBVIOUS
    <2>1. ASSUME NEW l \in DOMAIN lane
          PROVE  lane'[l] = Sum(RowTerms(at.row, LaneColumns(c + w, l, w), n))
      <3>1. l \in 0..w - 1 /\ c + l \in 0..n - 1
        <4> HIDE DEF F
        <4> QED BY <1>3, <1>9
      <3>2. Product(c + l) = RowTerm(at.row, c + l, n)
        BY <1>1, <3>1, DotProduct DEF InRow
      <3>3. lane[l] = Sum(RowTerms(at.row, LaneColumns(c, l, w), n))
        BY <1>1 DEF DotInv, c, w
      <3> DEFINE d == c + w
                 i == c + l
      <3>4. /\ c \in Nat /\ w \in Nat /\ w \in {1, 4, 8} /\ c % w = 0 /\ d = c + w
            /\ l \in Nat /\ l < w /\ i = c + l
        BY <1>3, <1>8, <3>1
      <3> HIDE DEF d, i
      <3>5. LaneSum(at.row, c, l, w, n) (+) Only(RowTerm(at.row, i, n)) = LaneSum(at.row, d, l, w, n)
        BY ONLY <3>4, LaneMore
      <3> QED BY <1>6, <3>2, <3>3, <3>5 DEF d, i, LaneSum
    <2>2. acc = DotUpto(kernel.seed, at.row, 0, n)
      BY <1>1 DEF DotInv
    <2>3. \A a \in DOMAIN out :
            out[a] = IF a < at.row THEN Scaled(DotUpto(kernel.seed, a, n, n), a) ELSE Old(a)
      BY DEF DotInv
    <2> QED BY <1>1, <1>4, <1>5, <1>6, <2>1, <2>2, <2>3 DEF DotInv, w
  <1> QED BY <1>1, <1>4, <1>7, <1>10, <1>11, <1>12 DEF MatrixInv

\* The horizontal sum keeps the invariant.
LEMMA DotVectorEndStep ==
  ASSUME MatrixInv, DotVectorEnd
  PROVE  MatrixInv'
  <1> DEFINE w == kernel.lanes
             c == at.col
             F == Full(n, w)
  <1>1. /\ pc = "vector" /\ pc' = "tail"
        /\ acc' = FoldFunction((+), acc, lane)
        /\ UNCHANGED <<kernel, m, n, held, at, lane, scratch, out>>
    BY DEF DotVectorEnd
  <1>2. /\ MatrixTypes /\ WalkInv /\ m \in Nat /\ n \in Nat /\ at.row \in Nat /\ c \in Nat
        /\ w \in {1, 4, 8}
    BY MatrixBasics DEF MatrixInv
  <1>3. /\ Size' = Size /\ RowsNeed' = RowsNeed /\ Quantised' = Quantised /\ Packable' = Packable
        /\ \A s, j : Scaled(s, j)' = Scaled(s, j)
    BY <1>1, MatrixFrame
  <1>4. c <= n /\ at.row < m
    <2>1. F \in 0..n /\ c <= F /\ at.row < m
      BY <1>1, <1>2, FullRange DEF WalkInv
    <2> HIDE DEF F
    <2> QED BY <1>2, <2>1
  <1>5. MatrixTypes'
    BY <1>1, <1>2, <1>3 DEF MatrixTypes, MatrixPcs
  <1>6. WalkInv'
    BY <1>1, <1>2, <1>3, <1>4 DEF WalkInv, Unstarted
  <1>7. InRow' /\ InRow
    BY <1>1 DEF InRow
  <1>8. ScratchInv => ScratchInv'
    BY <1>1, <1>7 DEF ScratchInv
  <1>9. DotInv => DotInv'
    <2> SUFFICES ASSUME DotInv PROVE DotInv'
      OBVIOUS
    <2>1. /\ acc = DotUpto(kernel.seed, at.row, 0, n)
          /\ \A l \in DOMAIN lane : lane[l] = Sum(RowTerms(at.row, LaneColumns(c, l, w), n))
      BY <1>1 DEF DotInv
    <2>2. lane = [l \in 0..w - 1 |-> lane[l]]
      BY <1>2 DEF MatrixTypes
    <2>3. lane = [l \in 0..w - 1 |-> Sum(RowTerms(at.row, LaneColumns(c, l, w), n))]
      <3> HIDE DEF c, w
      <3> QED BY <2>1, <2>2
    <2>4. acc' = DotUpto(kernel.seed, at.row, c, n)
      <3> HIDE DEF c, w
      <3>1. lane = LaneSums(at.row, c, w, n)
        BY <2>3 DEF LaneSums
      <3>2. FoldFunction((+), DotUpto(kernel.seed, at.row, 0, n), LaneSums(at.row, c, w, n))
              = DotUpto(kernel.seed, at.row, c, n)
        BY <1>2, LanesFold
      <3> QED BY <1>1, <2>1, <3>1, <3>2
    <2>5. \A a \in DOMAIN out :
            out[a] = IF a < at.row THEN Scaled(DotUpto(kernel.seed, a, n, n), a) ELSE Old(a)
      BY DEF DotInv
    <2> QED BY <1>1, <1>3, <2>4, <2>5 DEF DotInv
  <1>10. AxpyInv => AxpyInv'
    BY <1>1, <1>7 DEF AxpyInv
  <1>11. GridInv => GridInv'
    BY <1>1, <1>7 DEF GridInv
  <1> QED BY <1>1, <1>3, <1>5, <1>6, <1>8, <1>9, <1>10, <1>11 DEF MatrixInv

\* A single product of the tail keeps the invariant.
LEMMA DotTailStep ==
  ASSUME MatrixInv, DotTail
  PROVE  MatrixInv'
  <1> DEFINE c == at.col
  <1>1. /\ pc = "tail" /\ c < n /\ kernel.form = "dot"
        /\ acc' = acc (+) Only(Product(c))
        /\ at' = [at EXCEPT !.col = at.col + 1]
        /\ UNCHANGED <<kernel, m, n, held, lane, scratch, out, pc>>
    BY DEF DotTail
  <1>2. /\ MatrixTypes /\ WalkInv /\ m \in Nat /\ n \in Nat /\ at.row \in Nat /\ c \in Nat
        /\ at \in Counts
    BY MatrixBasics DEF MatrixInv
  <1>3. /\ Size' = Size /\ RowsNeed' = RowsNeed /\ Quantised' = Quantised /\ Packable' = Packable
        /\ \A s, j : Scaled(s, j)' = Scaled(s, j)
    BY <1>1, MatrixFrame
  <1>4. at'.row = at.row /\ at'.col = c + 1 /\ at' \in Counts
    BY <1>1, <1>2 DEF Counts
  <1>5. MatrixTypes'
    BY <1>1, <1>2, <1>3, <1>4 DEF MatrixTypes, MatrixPcs
  <1>6. WalkInv'
    BY <1>1, <1>2, <1>3, <1>4 DEF WalkInv, Unstarted
  <1>7. ScratchInv => ScratchInv'
    BY <1>1, <1>4 DEF ScratchInv, InRow
  <1>8. Packable /\ DotInv => DotInv'
    <2> SUFFICES ASSUME Packable, DotInv PROVE DotInv'
      OBVIOUS
    <2>1. acc = DotUpto(kernel.seed, at.row, c, n)
      BY <1>1 DEF DotInv
    <2>2. Product(c) = RowTerm(at.row, c, n)
      BY <1>1, <1>2, DotProduct DEF InRow
    <2>3. acc' = DotUpto(kernel.seed, at.row, c + 1, n)
      BY <1>1, <1>2, <2>1, <2>2, DotMore
    <2>4. \A a \in DOMAIN out :
            out[a] = IF a < at.row THEN Scaled(DotUpto(kernel.seed, a, n, n), a) ELSE Old(a)
      BY DEF DotInv
    <2> QED BY <1>1, <1>3, <1>4, <2>3, <2>4 DEF DotInv
  <1> QED BY <1>1, <1>3, <1>5, <1>6, <1>7, <1>8 DEF MatrixInv
-----------------------------------------------------------------------------
\* Where the products of one row go: a cell of the output each.
LEMMA TargetFacts ==
  ASSUME MatrixInv, InRow, kernel.form # "dot", NEW i \in 0..n - 1
  PROVE  /\ Target(i) \in Nat /\ Target(i) < Size /\ Target(i) \in DOMAIN out
         /\ \A j \in 0..n - 1 : Target(i) = Target(j) => i = j
         /\ kernel.form \in {"outer", "copy"} => Target(i) = Place(kernel.form, at.row, i, m, n)
  <1>1. /\ kernel.form \in {"axpy", "outer", "copy"} /\ m \in Nat /\ n \in Nat /\ Guard \in Nat
        /\ at.row \in Nat /\ at.row < m /\ DOMAIN out = 0..Size + Guard - 1
    BY MatrixBasics DEF MatrixInv, WalkInv, InRow
  <1>2. m * n \in Nat
    BY <1>1
  <1>3. CASE kernel.form = "axpy"
    <2>1. Size = n /\ \A j : Target(j) = j
      BY <1>3 DEF Size, Target
    <2> QED BY <1>1, <1>3, <2>1
  <1>4. CASE kernel.form \in {"outer", "copy"}
    <2>1. Size = m * n /\ \A j : Target(j) = Place(kernel.form, at.row, j, m, n)
      BY <1>4, GridSize DEF Target, Place
    <2>2. at.row \in 0..m - 1
      BY <1>1
    <2>3. /\ Place(kernel.form, at.row, i, m, n) \in Nat
          /\ Place(kernel.form, at.row, i, m, n) < m * n
          /\ \A j \in 0..n - 1 :
               Place(kernel.form, at.row, i, m, n) = Place(kernel.form, at.row, j, m, n) => i = j
      BY <1>1, <2>2, PlaceFacts
    <2> DEFINE t == Target(i)
               p == m * n
    <2>4. t \in Nat /\ t < p /\ p \in Nat
      BY <1>2, <2>1, <2>3
    <2> HIDE DEF t, p
    <2>5. t \in 0..p + Guard - 1
      BY <1>1, <2>4
    <2>6. t \in DOMAIN out /\ t < Size
      BY <1>1, <2>1, <2>4, <2>5 DEF p
    <2> QED BY <2>1, <2>3, <2>4, <2>6 DEF t
  <1> QED BY <1>1, <1>3, <1>4

\* What k products change.
LEMMA ScatterCells ==
  ASSUME MatrixInv, InRow, NEW k \in Nat, at.col + k <= n, Scatter(k)
  PROVE  /\ DOMAIN out' = DOMAIN out /\ out' = [a \in DOMAIN out |-> out'[a]]
         /\ \A i \in at.col..at.col + k - 1 :
              out'[Target(i)] = IF kernel.form = "copy" THEN Only(Product(i))
                                ELSE out[Target(i)] (+) Only(Product(i))
         /\ \A a \in DOMAIN out :
              (\A i \in at.col..at.col + k - 1 : Target(i) # a) => out'[a] = out[a]
  <1> DEFINE new(i) == IF kernel.form = "copy" THEN Only(Product(i))
                       ELSE out[Target(i)] (+) Only(Product(i))
             columns == at.col..at.col + k - 1
             T(a) == Target(a)
             pick(a) == CHOOSE i \in columns : Target(i) = a
  <1>1. out' = [a \in DOMAIN out |-> IF \E i \in columns : Target(i) = a
                                     THEN new(pick(a)) ELSE out[a]]
    BY DEF Scatter
  <1>2. kernel.form # "dot" /\ columns \subseteq 0..n - 1
    <2>1. at.col \in Nat /\ n \in Nat
      BY MatrixBasics
    <2> QED BY <2>1 DEF Scatter
  <1>3. \A i \in columns : Target(i) \in DOMAIN out
                           /\ \A j \in columns : Target(i) = Target(j) => i = j
    BY <1>2, TargetFacts
  <1>4. \A i \in columns : pick(Target(i)) = i
    <2> TAKE i \in columns
    <2>1. pick(Target(i)) \in columns /\ Target(pick(Target(i))) = Target(i)
      OBVIOUS
    <2> HIDE DEF pick, columns
    <2> QED BY <1>3, <2>1
  <1> HIDE DEF pick, columns, new
  <1>5. \A i \in columns : out'[Target(i)] = new(i)
    BY <1>1, <1>3, <1>4, Zenon
  <1>6. \A a \in DOMAIN out : (\A i \in columns : Target(i) # a) => out'[a] = out[a]
    BY <1>1, Zenon
  <1>7. DOMAIN out' = DOMAIN out /\ out' = [a \in DOMAIN out |-> out'[a]]
    BY <1>1
  <1> QED BY <1>5, <1>6, <1>7 DEF columns, new

\* k products that go to cells of the output keep the invariant.
LEMMA ScatterStep ==
  ASSUME MatrixInv, InRow, NEW k \in Nat, at.col + k <= n, Scatter(k)
  PROVE  /\ MatrixTypes' /\ at'.row = at.row /\ at'.col = at.col + k
         /\ UNCHANGED <<kernel, m, n, held, pc>>
         /\ WalkInv' => MatrixInv'
  <1> DEFINE c == at.col
             d == c + k
             columns == c..c + k - 1
  <1>1. /\ kernel.form # "dot"
        /\ at' = [at EXCEPT !.col = at.col + k]
        /\ UNCHANGED <<kernel, m, n, held, lane, acc, scratch, pc>>
    BY DEF Scatter
  <1>2. /\ MatrixTypes /\ WalkInv /\ m \in Nat /\ n \in Nat /\ at.row \in Nat /\ c \in Nat
        /\ at \in Counts /\ at.row < m /\ Guard \in Nat /\ DOMAIN out = 0..Size + Guard - 1
        /\ kernel.form \in {"axpy", "outer", "copy"} /\ kernel.weights # "i4"
    BY <1>1, MatrixBasics DEF MatrixInv, WalkInv, InRow
  <1>3. /\ Size' = Size /\ RowsNeed' = RowsNeed /\ Quantised' = Quantised /\ Packable' = Packable
        /\ \A s, j : Scaled(s, j)' = Scaled(s, j)
    BY <1>1, MatrixFrame
  <1>4. at'.row = at.row /\ at'.col = d /\ at' \in Counts
    BY <1>1, <1>2 DEF Counts
  <1>5. /\ DOMAIN out' = DOMAIN out /\ out' = [a \in DOMAIN out |-> out'[a]]
        /\ \A i \in columns :
             out'[Target(i)] = IF kernel.form = "copy" THEN Only(Product(i))
                               ELSE out[Target(i)] (+) Only(Product(i))
        /\ \A a \in DOMAIN out : (\A i \in columns : Target(i) # a) => out'[a] = out[a]
    BY ScatterCells
  <1>6. MatrixTypes'
    BY <1>1, <1>2, <1>3, <1>4, <1>5 DEF MatrixTypes, MatrixPcs
  <1>7. Packable
    BY <1>2 DEF Packable
  <1>8. columns \subseteq 0..n - 1 /\ d <= n /\ d \in Nat
        /\ \A i \in 0..n - 1 : i \in columns <=> c <= i /\ i < d
    BY <1>2
  <1> HIDE DEF columns, d
  <1>9. \A i \in columns : Factor(i) = Cell("W", at.row * n + i)
    BY <1>7, <1>8, FactorIs
  <1>10. ScratchInv'
    BY <1>1, <1>2 DEF ScratchInv
  <1>11. \A i \in 0..n - 1 :
           /\ Target(i) \in DOMAIN out /\ Target(i) < Size
           /\ \A j \in 0..n - 1 : Target(i) = Target(j) => i = j
           /\ kernel.form \in {"outer", "copy"} => Target(i) = Place(kernel.form, at.row, i, m, n)
    BY <1>1, TargetFacts
  <1>12. InRow' /\ ~(pc \in {"matrix", "exit", "zero"})
    BY <1>1 DEF InRow
  <1>13. kernel.form = "axpy" => AxpyInv'
    <2> SUFFICES ASSUME kernel.form = "axpy" PROVE AxpyInv'
      OBVIOUS
    <2>1. AxpyInv /\ Size = n /\ \A i : Target(i) = i
      BY <1>7 DEF MatrixInv, Size, Target
    <2>2. \A a \in DOMAIN out : a >= n => out'[a] = Old(a)
      <3>1. \A a \in DOMAIN out : a >= n => a \notin columns
        BY <1>2, <1>8
      <3>2. \A a \in DOMAIN out : a >= n => out[a] = Old(a)
        BY <2>1 DEF AxpyInv
      <3> QED BY <1>5, <2>1, <3>1, <3>2
    <2>3. ASSUME NEW a \in 0..n - 1
          PROVE  out'[a] = ColUpto(a, IF InRow' /\ a < d THEN at.row + 1 ELSE at.row, n)
      <3>1. out[a] = ColUpto(a, IF InRow /\ a < c THEN at.row + 1 ELSE at.row, n)
        BY <1>1, <1>12, <2>1 DEF AxpyInv
      <3>2. a \in DOMAIN out
        BY <1>11, <2>1
      <3>3. CASE a \in columns
        <4>1. c <= a /\ a < d
          BY <1>8, <3>3
        <4>2. ~(a < c)
          BY <1>2, <4>1
        <4>3. Product(a) = ColTerm(at.row, a, n)
          <5>1. Factor(a) = Cell("W", at.row * n + a)
            BY <1>9, <3>3
          <5> QED BY <5>1, Zenon DEF Product, ColTerm
        <4>4. out'[a] = ColUpto(a, at.row, n) (+) Only(ColTerm(at.row, a, n))
          BY <1>5, <2>1, <3>1, <3>3, <4>2, <4>3
        <4> QED BY <1>2, <1>12, <4>1, <4>4, ColMore
      <3>4. CASE a \notin columns
        <4>1. out'[a] = out[a]
          BY <1>5, <2>1, <3>2, <3>4
        <4>2. a < c <=> a < d
          BY <1>2, <1>8, <3>4 DEF d
        <4> QED BY <1>12, <3>1, <4>1, <4>2
      <3> QED BY <3>3, <3>4
    <2> QED BY <1>1, <1>4, <1>5, <1>12, <2>2, <2>3 DEF AxpyInv
  <1>14. kernel.form \in {"outer", "copy"} => GridInv'
    <2> SUFFICES ASSUME kernel.form \in {"outer", "copy"} PROVE GridInv'
      OBVIOUS
    <2>1. GridInv /\ Size = m * n
      BY <1>7, GridSize DEF MatrixInv
    <2>2. \A a \in DOMAIN out : a >= m * n => out'[a] = Old(a)
      <3>1. \A a \in DOMAIN out : a >= Size => \A i \in columns : Target(i) # a
        <4> DEFINE z == Size
        <4>1. z \in Nat
          BY <1>2, <2>1
        <4>2. \A i \in columns : Target(i) < z /\ Target(i) \in 0..z + Guard - 1
          BY <1>2, <1>8, <1>11
        <4>3. DOMAIN out = 0..z + Guard - 1
          BY <1>2
        <4> HIDE DEF z
        <4>4. \A a \in 0..z + Guard - 1 : a >= z => \A i \in columns : Target(i) # a
          BY <1>2, <4>1, <4>2
        <4> QED BY <4>3, <4>4 DEF z
      <3>2. \A a \in DOMAIN out : a >= m * n => out[a] = Old(a)
        BY <2>1 DEF GridInv
      <3> QED BY <1>5, <2>1, <3>1, <3>2
    <2>3. ASSUME NEW r \in 0..m - 1, NEW i \in 0..n - 1
          PROVE  out'[Place(kernel.form, r, i, m, n)] =
                   IF Taken(InRow', at.row, d, r, i) THEN Value(kernel.form, r, i, n)
                   ELSE Old(Place(kernel.form, r, i, m, n))
      <3> DEFINE a == Place(kernel.form, r, i, m, n)
      <3>1. out[a] = IF Taken(InRow, at.row, c, r, i) THEN Value(kernel.form, r, i, n) ELSE Old(a)
        BY <2>1 DEF GridInv
      <3>2. CASE r = at.row /\ i \in columns
        <4>1. a = Target(i) /\ c <= i /\ i < d
          BY <1>8, <1>11, <3>2
        <4>2. ~Taken(InRow, at.row, c, r, i) /\ Taken(InRow', at.row, d, r, i)
          BY <1>2, <1>12, <3>2, <4>1 DEF Taken
        <4>3. out[a] = Old(a)
          BY <3>1, <4>2
        <4>4. out'[a] = IF kernel.form = "copy" THEN Only(Product(i)) ELSE Old(a) (+) Only(Product(i))
          BY <1>5, <3>2, <4>1, <4>3
        <4>5. CASE kernel.form = "copy"
          <5>1. Product(i) = {Cell("W", r * n + i)}
            BY <1>9, <3>2, <4>5 DEF Product
          <5> QED BY <4>2, <4>4, <4>5, <5>1 DEF Value
        <4>6. CASE kernel.form = "outer"
          <5>1. Product(i) = {Cell("a", r), Cell("b", i)} /\ a = r * n + i
            BY <3>2, <4>6 DEF Product, Place
          <5> HIDE DEF a
          <5>2. out'[a] = Value(kernel.form, r, i, n)
            BY <4>4, <4>6, <5>1 DEF Value
          <5> QED BY <4>2, <5>2 DEF a
        <4> QED BY <4>5, <4>6
      <3>3. CASE ~(r = at.row /\ i \in columns)
        <4>1. at.row \in 0..m - 1
          BY <1>2
        <4>2. a \in Nat /\ a < m * n
              /\ \A t \in 0..m - 1, j \in 0..n - 1 :
                   a = Place(kernel.form, t, j, m, n) => r = t /\ i = j
          BY <1>2, PlaceFacts
        <4>3. \A j \in columns : Target(j) # a
          BY <1>8, <1>11, <3>3, <4>1, <4>2
        <4>4. a \in DOMAIN out
          <5> DEFINE z == Size
          <5>1. z \in Nat /\ a < z /\ a \in Nat
            BY <1>2, <2>1, <4>2
          <5>2. DOMAIN out = 0..z + Guard - 1
            BY <1>2
          <5> HIDE DEF z, a
          <5>3. a \in 0..z + Guard - 1
            BY <1>2, <5>1
          <5> QED BY <5>2, <5>3
        <4>5. out'[a] = out[a]
          BY <1>5, <4>3, <4>4
        <4>6. Taken(InRow', at.row, d, r, i) <=> Taken(InRow, at.row, c, r, i)
          <5>1. r = at.row => (i < c <=> i < d)
            BY <1>2, <1>8, <3>3 DEF d
          <5> QED BY <1>12, <5>1 DEF Taken
        <4> QED BY <3>1, <4>5, <4>6
      <3> QED BY <3>2, <3>3
    <2> QED BY <1>1, <1>4, <1>5, <2>2, <2>3 DEF GridInv
  <1> QED BY <1>1, <1>2, <1>3, <1>4, <1>6, <1>7, <1>10, <1>13, <1>14 DEF MatrixInv, d

\* k is the number of lanes in the vector loop ...
LEMMA ScatterVectorStep ==
  ASSUME MatrixInv, ScatterVector
  PROVE  MatrixInv'
  <1> DEFINE w == kernel.lanes
             c == at.col
             F == Full(n, w)
  <1>1. pc = "vector" /\ c < F /\ Scatter(w) /\ InRow
    BY DEF ScatterVector, VectorRuns, InRow
  <1>2. /\ WalkInv /\ n \in Nat /\ m \in Nat /\ c \in Nat /\ w \in {1, 4, 8} /\ w \in Nat
        /\ c % w = 0 /\ at.row < m
    BY <1>1, MatrixBasics DEF MatrixInv, WalkInv
  <1>3. F \in 0..n /\ c + w <= F /\ (c + w) % w = 0
    <2> HIDE DEF c, w
    <2> QED BY <1>1, <1>2, FullStep
  <1>4. c + w <= n
    <2> HIDE DEF F, c, w
    <2> QED BY <1>2, <1>3
  <1>5. /\ at'.row = at.row /\ at'.col = c + w /\ UNCHANGED <<kernel, m, n, held, pc>>
        /\ (WalkInv' => MatrixInv')
    BY <1>1, <1>2, <1>4, ScatterStep
  <1>6. /\ Size' = Size /\ RowsNeed' = RowsNeed /\ Quantised' = Quantised /\ Packable' = Packable
        /\ \A s, j : Scaled(s, j)' = Scaled(s, j)
    BY <1>5, MatrixFrame
  <1>7. WalkInv'
    BY <1>1, <1>2, <1>3, <1>5, <1>6 DEF WalkInv, Unstarted
  <1> QED BY <1>5, <1>7

\* ... and one in the tail.
LEMMA ScatterTailStep ==
  ASSUME MatrixInv, ScatterTail
  PROVE  MatrixInv'
  <1>1. pc = "tail" /\ at.col < n /\ Scatter(1) /\ InRow
    BY DEF ScatterTail, InRow
  <1>2. WalkInv /\ n \in Nat /\ m \in Nat /\ at.col \in Nat /\ at.col + 1 <= n /\ at.row < m
    BY <1>1, MatrixBasics DEF MatrixInv, WalkInv
  <1>3. /\ at'.row = at.row /\ at'.col = at.col + 1 /\ UNCHANGED <<kernel, m, n, held, pc>>
        /\ (WalkInv' => MatrixInv')
    BY <1>1, <1>2, ScatterStep
  <1>4. /\ Size' = Size /\ RowsNeed' = RowsNeed /\ Quantised' = Quantised /\ Packable' = Packable
        /\ \A s, j : Scaled(s, j)' = Scaled(s, j)
    BY <1>3, MatrixFrame
  <1>5. WalkInv'
    BY <1>1, <1>2, <1>3, <1>4 DEF WalkInv, Unstarted
  <1> QED BY <1>3, <1>5

\* The bottom of the loop over the rows keeps the invariant.
LEMMA RowEndStep ==
  ASSUME MatrixInv, RowEnd
  PROVE  MatrixInv'
  <1> DEFINE r == at.row
  <1>1. /\ pc = "tail" /\ at.col >= n /\ pc' = "row"
        /\ at' = [at EXCEPT !.row = at.row + 1]
        /\ UNCHANGED <<kernel, m, n, held, lane, acc, scratch>>
    BY DEF RowEnd
  <1>2. out' = IF kernel.form = "dot" THEN [out EXCEPT ![r] = Scaled(acc, r)] ELSE out
    BY DEF RowEnd
  <1>3. /\ MatrixTypes /\ WalkInv /\ m \in Nat /\ n \in Nat /\ r \in Nat /\ at.col \in Nat
        /\ at \in Counts /\ Guard \in Nat /\ DOMAIN out = 0..Size + Guard - 1
    BY MatrixBasics DEF MatrixInv
  <1>4. /\ Size' = Size /\ RowsNeed' = RowsNeed /\ Quantised' = Quantised /\ Packable' = Packable
        /\ \A s, j : Scaled(s, j)' = Scaled(s, j)
    BY <1>1, MatrixFrame
  <1>5. at'.row = r + 1 /\ at'.col = at.col /\ at' \in Counts
    BY <1>1, <1>3 DEF Counts
  <1>6. r < m /\ at.col = n
    BY <1>1, <1>3 DEF WalkInv
  <1>7. DOMAIN out' = DOMAIN out /\ out' = [a \in DOMAIN out |-> out'[a]]
    <2>1. out = [a \in DOMAIN out |-> out[a]]
      BY <1>3 DEF MatrixTypes
    <2> QED BY <1>2, <2>1
  <1>8. MatrixTypes'
    BY <1>1, <1>3, <1>4, <1>5, <1>7 DEF MatrixTypes, MatrixPcs
  <1> HIDE DEF r
  <1>9. WalkInv'
    BY <1>1, <1>3, <1>4, <1>5, <1>6 DEF WalkInv, Unstarted, r
  <1>10. InRow /\ ~InRow' /\ ~(pc' \in {"matrix", "exit", "zero", "unpack", "vector", "tail"})
    BY <1>1 DEF InRow
  <1>11. ScratchInv'
    BY <1>1, <1>10 DEF ScratchInv
  <1>12. kernel.form = "dot" /\ DotInv => DotInv'
    <2> SUFFICES ASSUME kernel.form = "dot", DotInv PROVE DotInv'
      OBVIOUS
    <2>1. acc = DotUpto(kernel.seed, r, n, n)
      BY <1>1, <1>6 DEF DotInv, r
    <2>2. r \in DOMAIN out
      BY <1>3, <1>6 DEF Size
    <2>3. \A a \in DOMAIN out : out'[a] = IF a = r THEN Scaled(acc, r) ELSE out[a]
      BY <1>2, <2>2
    <2>4. \A a \in DOMAIN out :
            out[a] = IF a < r THEN Scaled(DotUpto(kernel.seed, a, n, n), a) ELSE Old(a)
      BY DEF DotInv, r
    <2>5. \A a \in DOMAIN out : a < r + 1 <=> (a < r \/ a = r)
      BY <1>3
    <2>6. ASSUME NEW a \in DOMAIN out
          PROVE  out'[a] = IF a < r + 1 THEN Scaled(DotUpto(kernel.seed, a, n, n), a) ELSE Old(a)
      <3>1. CASE a = r
        BY <2>1, <2>3, <2>5, <3>1
      <3>2. CASE a # r
        BY <2>3, <2>4, <2>5, <3>2
      <3> QED BY <3>1, <3>2
    <2> QED BY <1>1, <1>4, <1>5, <1>7, <1>10, <2>6 DEF DotInv
  <1>13. kernel.form = "axpy" /\ AxpyInv => AxpyInv'
    <2> SUFFICES ASSUME kernel.form = "axpy", AxpyInv PROVE AxpyInv'
      OBVIOUS
    <2>1. out' = out
      BY <1>2
    <2>2. \A a \in 0..n - 1 : a < at.col
      BY <1>3, <1>6
    <2>3. \A a \in 0..n - 1 : out[a] = ColUpto(a, r + 1, n)
      BY <1>1, <1>10, <2>2 DEF AxpyInv, r
    <2>4. \A a \in DOMAIN out : a >= n => out[a] = Old(a)
      BY DEF AxpyInv
    <2> QED BY <1>1, <1>5, <1>10, <2>1, <2>3, <2>4 DEF AxpyInv
  <1>14. kernel.form \in {"outer", "copy"} /\ GridInv => GridInv'
    <2> SUFFICES ASSUME kernel.form \in {"outer", "copy"}, GridInv PROVE GridInv'
      OBVIOUS
    <2>1. out' = out
      BY <1>2
    <2>2. \A s \in 0..m - 1, i \in 0..n - 1 :
            Taken(InRow', r + 1, at.col, s, i) <=> Taken(InRow, r, at.col, s, i)
      BY <1>3, <1>6, <1>10 DEF Taken
    <2>3. /\ \A a \in DOMAIN out : a >= m * n => out[a] = Old(a)
          /\ \A s \in 0..m - 1, i \in 0..n - 1 :
               out[Place(kernel.form, s, i, m, n)] =
                 IF Taken(InRow', r + 1, at.col, s, i) THEN Value(kernel.form, s, i, n)
                 ELSE Old(Place(kernel.form, s, i, m, n))
      BY <2>2 DEF GridInv, r
    <2> QED BY <1>1, <1>5, <2>1, <2>3 DEF GridInv
  <1> QED BY <1>1, <1>4, <1>8, <1>9, <1>11, <1>12, <1>13, <1>14 DEF MatrixInv
-----------------------------------------------------------------------------
\* Every step keeps the invariant.
LEMMA MatrixStepKeeps ==
  ASSUME MInv, [Next]_vars
  PROVE  MInv'
  <1>1. CASE UNCHANGED vars
    <2>1. UNCHANGED <<kernel, m, n, held, at, lane, acc, scratch, out, pc>>
      BY <1>1 DEF vars
    <2>2. /\ Size' = Size /\ RowsNeed' = RowsNeed /\ Quantised' = Quantised /\ Packable' = Packable
          /\ \A s, j : Scaled(s, j)' = Scaled(s, j)
      BY <2>1, MatrixFrame
    <2>3. InRow' = InRow /\ Unstarted' = Unstarted
      BY <2>1 DEF InRow, Unstarted
    <2>4. MatrixTypes' = MatrixTypes
      BY <2>1, <2>2 DEF MatrixTypes
    <2>5. WalkInv' = WalkInv
      BY <2>1, <2>2, <2>3 DEF WalkInv
    <2>6. ScratchInv' = ScratchInv
      BY <2>1, <2>3 DEF ScratchInv
    <2>7. DotInv => DotInv'
      BY <2>1, <2>2 DEF DotInv
    <2>8. AxpyInv => AxpyInv'
      BY <2>1, <2>3 DEF AxpyInv
    <2>9. GridInv => GridInv'
      BY <2>1, <2>3 DEF GridInv
    <2> QED BY <2>1, <2>2, <2>4, <2>5, <2>6, <2>7, <2>8, <2>9 DEF MInv, MatrixInv
  <1>2. CASE Next
    <2>1. kernel' = kernel
      BY <1>2, MatrixPlaces, ConvPlaces, NormPlaces DEF Next
    <2>2. SUFFICES ASSUME kernel \in MatrixKernels PROVE MatrixInv'
      BY <2>1 DEF MInv
    <2>3. MatrixInv /\ pc \in MatrixPcs
      BY <2>2 DEF MInv, MatrixInv, MatrixTypes
    <2>4. MatrixNext
      BY <1>2, <2>3, ConvPlaces, NormPlaces DEF Next, MatrixPcs
    <2> QED BY <2>3, <2>4, RefuseMatrixStep, BeginRowsStep, ClearStep, ClearEndStep, RowStep,
               RowsEndStep, UnpackStep, UnpackEndStep, DotVectorStep, ScatterVectorStep,
               DotVectorEndStep, DotTailStep, ScatterTailStep, RowEndStep DEF MatrixNext
  <1> QED BY <1>1, <1>2

\* The invariant at the end is the property.
LEMMA MatrixDone ==
  ASSUME MInv
  PROVE  RowsRight
  <1> SUFFICES ASSUME kernel \in MatrixKernels
               PROVE  /\ pc = "done" /\ Packable =>
                           \A a \in DOMAIN out :
                             out[a] = IF a < Size THEN ExpectedProduct(a) ELSE Old(a)
                      /\ held < RowsNeed => \A a \in DOMAIN out : out[a] = Old(a)
    BY DEF RowsRight
  <1>1. MatrixInv /\ WalkInv
    BY DEF MInv, MatrixInv
  <1>2. /\ m \in Nat /\ n \in Nat /\ held \in Nat /\ Guard \in Nat /\ DOMAIN out = 0..Size + Guard - 1
        /\ kernel.form \in {"dot", "axpy", "outer", "copy"}
    BY <1>1, MatrixBasics
  <1>3. Size \in Nat
    BY <1>2 DEF Size
  <1>4. ASSUME pc = "done", Packable, NEW a \in DOMAIN out
        PROVE  out[a] = IF a < Size THEN ExpectedProduct(a) ELSE Old(a)
    <2>1. at.row = m /\ ~InRow /\ a \in Nat
      BY <1>1, <1>2, <1>3, <1>4 DEF WalkInv, InRow
    <2>2. CASE kernel.form = "dot"
      <3>1. DotInv /\ Size = m
        BY <1>1, <1>4, <2>2 DEF MatrixInv, Size
      <3>2. DotUpto(kernel.seed, a, n, n)
              = Sum({{W(a, i), Cell("x", i)} : i \in 0..n - 1}
                    \cup (IF kernel.seed = "bias" THEN {{Cell("bias", a)}} ELSE {}))
        <4>1. RowTerms(a, 0..n - 1, n) = {{W(a, i), Cell("x", i)} : i \in 0..n - 1}
          BY DEF RowTerms, RowTerm, W
        <4>2. BiasOf(kernel.seed, a) = IF kernel.seed = "bias" THEN {{Cell("bias", a)}} ELSE {}
          BY DEF BiasOf
        <4> DEFINE X == {{W(a, i), Cell("x", i)} : i \in 0..n - 1}
                   Y == IF kernel.seed = "bias" THEN {{Cell("bias", a)}} ELSE {}
        <4> HIDE DEF X, Y
        <4>3. Y \cup X = X \cup Y
          OBVIOUS
        <4>4. DotUpto(kernel.seed, a, n, n) = Sum(X \cup Y)
          BY <4>1, <4>2, <4>3 DEF DotUpto, X, Y
        <4> QED BY <4>4 DEF X, Y
      <3>3. out[a] = IF a < m THEN Scaled(DotUpto(kernel.seed, a, n, n), a) ELSE Old(a)
        BY <2>1, <3>1 DEF DotInv
      <3>4. ExpectedProduct(a) = Scaled(DotUpto(kernel.seed, a, n, n), a)
        BY <2>2, <3>2 DEF ExpectedProduct
      <3> QED BY <3>1, <3>3, <3>4
    <2>3. CASE kernel.form = "axpy"
      <3>1. AxpyInv /\ Size = n
        BY <1>1, <1>4, <2>3 DEF MatrixInv, Size
      <3>2. a < n => out[a] = ColUpto(a, m, n)
        BY <1>2, <1>4, <2>1, <3>1 DEF AxpyInv
      <3>3. ~(a < n) => out[a] = Old(a)
        BY <1>2, <2>1, <3>1 DEF AxpyInv
      <3>4. ExpectedProduct(a) = ColUpto(a, m, n)
        BY <2>3, Zenon DEF ExpectedProduct, ColUpto, ColTerm, W
      <3> QED BY <3>1, <3>2, <3>3, <3>4
    <2>4. CASE kernel.form \in {"outer", "copy"}
      <3>1. GridInv /\ Size = m * n
        BY <1>1, <1>4, <2>4, GridSize DEF MatrixInv
      <3>2. ASSUME NEW r \in 0..m - 1, NEW i \in 0..n - 1
            PROVE  out[Place(kernel.form, r, i, m, n)] = Value(kernel.form, r, i, n)
        <4>1. Taken(InRow, at.row, at.col, r, i)
          BY <1>2, <2>1 DEF Taken
        <4> QED BY <3>1, <4>1 DEF GridInv
      <3>3. CASE ~(a < Size)
        <4> DEFINE z == m * n
        <4>1. z \in Nat /\ ~(a < z)
          BY <1>2, <3>1, <3>3
        <4> HIDE DEF z
        <4>2. a >= z
          BY <2>1, <4>1
        <4>3. out[a] = Old(a)
          BY <3>1, <4>2 DEF GridInv, z
        <4> QED BY <3>3, <4>3
      <3>4. CASE a < Size /\ kernel.form = "outer"
        <4> DEFINE r == a \div n
                   i == a % n
        <4>1. n \in Nat \ {0} /\ r \in Nat /\ r < m
          BY <1>2, <2>1, <3>1, <3>4, DivBelow
        <4>2. i \in 0..n - 1 /\ a = r * n + i /\ r \in 0..m - 1
          <5>1. i \in 0..n - 1 /\ a = r * n + i
            BY <2>1, <4>1, PlaceOf
          <5> HIDE DEF r, i
          <5>2. r \in 0..m - 1
            BY <1>2, <4>1
          <5> QED BY <5>1, <5>2
        <4> HIDE DEF r, i
        <4>3. Place(kernel.form, r, i, m, n) = a
          BY <3>4, <4>2 DEF Place
        <4>4. out[a] = Value(kernel.form, r, i, n)
          BY <3>2, <4>2, <4>3
        <4>5. out[a] = Old(a) (+) Only({Cell("a", r), Cell("b", i)})
          BY <3>4, <4>2, <4>4 DEF Value
        <4> QED BY <3>4, <4>5 DEF ExpectedProduct, r, i
      <3>5. CASE a < Size /\ kernel.form = "copy"
        <4> DEFINE r == a % m
                   i == a \div m
        <4>1. m \in Nat \ {0} /\ i \in Nat /\ i < n
          <5>1. a < n * m
            BY <1>2, <3>1, <3>5
          <5> QED BY <1>2, <2>1, <5>1, DivBelow
        <4>2. r \in 0..m - 1 /\ a = i * m + r /\ i \in 0..n - 1
          <5>1. r \in 0..m - 1 /\ a = i * m + r
            BY <2>1, <4>1, PlaceOf
          <5> HIDE DEF r, i
          <5>2. i \in 0..n - 1
            BY <1>2, <4>1
          <5> QED BY <5>1, <5>2
        <4> HIDE DEF r, i
        <4>3. Place(kernel.form, r, i, m, n) = a
          BY <3>5, <4>2 DEF Place
        <4>4. out[a] = Value(kernel.form, r, i, n)
          BY <3>2, <4>2, <4>3
        <4>5. out[a] = Only({W(r, i)})
          BY <3>5, <4>4 DEF Value, W
        <4> QED BY <3>5, <4>5 DEF ExpectedProduct, r, i
      <3> QED BY <2>4, <3>3, <3>4, <3>5
    <2> QED BY <1>2, <2>2, <2>3, <2>4
  <1>5. ASSUME held < RowsNeed
        PROVE  \A a \in DOMAIN out : out[a] = Old(a)
    <2>1. RowsNeed \in Nat
      <3>1. RowBytes \in Nat
        BY <1>2 DEF RowBytes
      <3> QED BY <1>2, <3>1 DEF RowsNeed
    <2>2. Unstarted
      BY <1>1, <1>2, <1>5, <2>1 DEF WalkInv
    <2> QED BY <1>1, <2>2 DEF WalkInv
  <1> QED BY <1>4, <1>5

\* RowsRight: for matrices of every size, each cell of a product is the sum of
\* exactly the products of its row and column, scaled and biased as the kernel
\* says, and a quantised matrix too short is refused before anything is
\* written (arr_f64_matvec to arr_f32_transpose).
THEOREM RowsAreRight == Spec => []RowsRight
  <1>1. Init => MInv
    BY MatrixStart, Families DEF Init, MInv, ConvInit, NormInit
  <1>2. MInv /\ [Next]_vars => MInv'
    BY MatrixStepKeeps
  <1> QED BY <1>1, <1>2, MatrixDone, PTL DEF Spec
=============================================================================
