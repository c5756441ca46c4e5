---------------------------- MODULE TensorProofs ----------------------------
(***************************************************************************)
(* The builtins with nested loops, for every size of matrix, image, array  *)
(* and group: facts that the proofs of the three families share, then the  *)
(* groups of Norms and the images of Conv.  MatrixProofs has the matrices. *)
(***************************************************************************)
EXTENDS Tensors, TLAPS, SequenceTheorems

\* Sums without a common summand add up to the sum of all summands.
LEMMA SumUnion ==
  ASSUME NEW A, NEW B, A \cap B = {}
  PROVE  Sum(A) (+) Sum(B) = Sum(A \cup B)
  <1> DEFINE f == Sum(A) (+) Sum(B)
  <1>1. DOMAIN f = A \cup B
    BY DEF Sum, SetToBag, (+)
  <1>2. \A e \in A \cup B : f[e] = 1
    BY DEF Sum, SetToBag, (+)
  <1>3. f = [e \in A \cup B |-> f[e]]
    BY <1>1 DEF (+)
  <1> QED BY <1>2, <1>3 DEF Sum, SetToBag

\* Zero is the empty sum.
LEMMA SumNone == Zero = Sum({})
  BY DEF Zero, Sum, EmptyBag

\* Only is the sum of one product.
LEMMA OnlySum == \A p : Only(p) = Sum({p})
  BY DEF Only, Sum

\* Rounding down to full vectors.
LEMMA FullStep ==
  ASSUME NEW c \in Nat, NEW k \in Nat, NEW l \in {1, 4, 8}, c % l = 0
  PROVE  /\ Full(k, l) \in 0..k /\ Full(k, l) % l = 0
         /\ c < Full(k, l) => c + l <= Full(k, l)
         /\ (c + l) % l = 0
  <1>1. CASE l = 1
    BY <1>1 DEF Full
  <1>2. CASE l = 4
    BY <1>2 DEF Full
  <1>3. CASE l = 8
    BY <1>3 DEF Full
  <1> QED BY <1>1, <1>2, <1>3

\* Two places in rows of n are the same when row and column are.
LEMMA SamePlace ==
  ASSUME NEW k \in Nat, NEW r \in Nat, NEW s \in Nat,
         NEW i \in 0..k - 1, NEW j \in 0..k - 1, r * k + i = s * k + j
  PROVE  r = s /\ i = j
  <1>1. ASSUME r < s PROVE FALSE
    <2>1. r + 1 <= s
      BY <1>1
    <2>2. (r + 1) * k <= s * k
      BY <2>1
    <2>3. (r + 1) * k = r * k + k
      OBVIOUS
    <2> QED BY <2>2, <2>3
  <1>2. ASSUME s < r PROVE FALSE
    <2>1. s + 1 <= r
      BY <1>2
    <2>2. (s + 1) * k <= r * k
      BY <2>1
    <2>3. (s + 1) * k = s * k + k
      OBVIOUS
    <2> QED BY <2>2, <2>3
  <1>3. r = s
    BY <1>1, <1>2
  <1> QED BY <1>3

\* A place in an earlier row is below the start of a later one.
LEMMA PlaceBelow ==
  ASSUME NEW k \in Nat, NEW r \in Nat, NEW s \in Nat, NEW i \in 0..k - 1, r < s
  PROVE  r * k + i \in Nat /\ r * k + i < s * k
  <1>1. (r + 1) * k <= s * k
    BY r + 1 <= s
  <1>2. (r + 1) * k = r * k + k
    OBVIOUS
  <1> QED BY <1>1, <1>2

\* Every place has a row and a column.
LEMMA PlaceOf ==
  ASSUME NEW k \in Nat \ {0}, NEW a \in Nat
  PROVE  /\ a \div k \in Nat /\ a % k \in 0..k - 1
         /\ a = (a \div k) * k + (a % k)
  <1>1. a \div k \in Nat /\ a % k \in 0..k - 1
    OBVIOUS
  <1>2. a = k * (a \div k) + (a % k)
    OBVIOUS
  <1> QED BY <1>1, <1>2

\* Multiplication keeps the order.
LEMMA Monotone ==
  ASSUME NEW a \in Nat, NEW b \in Nat, NEW c \in Nat, a <= b
  PROVE  a * c <= b * c
  OBVIOUS

\* The row of a place below s rows is below s.
LEMMA DivBelow ==
  ASSUME NEW k \in Nat, NEW a \in Nat, NEW s \in Nat, a < s * k
  PROVE  k # 0 /\ a \div k \in Nat /\ a \div k < s
  <1>1. k # 0
    BY a < s * k
  <1> DEFINE q == a \div k
  <1>2. q \in Nat /\ a >= q * k
    BY <1>1, PlaceOf
  <1> HIDE DEF q
  <1>3. s <= q => s * k <= q * k
    BY <1>2, Monotone
  <1>4. s * k \in Nat /\ q * k \in Nat
    BY <1>2
  <1>5. q < s
    BY <1>2, <1>3, <1>4
  <1> QED BY <1>1, <1>2, <1>5 DEF q

\* The three families have kernels of different forms.
LEMMA Families ==
  /\ kernel \in MatrixKernels => kernel.form \in {"dot", "axpy", "outer", "copy"}
  /\ kernel \in ConvKernels => kernel.form = "conv"
  /\ kernel \in NormKernels => kernel.form = "norm"
  <1>1. kernel \in MatrixKernels => kernel.form \in {"dot", "axpy", "outer", "copy"}
    BY DEF MatrixKernels, MatrixShape, arr_f64_matvec, arr_f32_matvec, arr_i8_matvec_f32,
       arr_i8_matvec_f32_perrow, arr_i4_matvec_f32_perrow, arr_f64_matvec_T,
       arr_f32_matvec_T, arr_f64_outer_accum, arr_f32_outer_accum, arr_f32_transpose
  <1>2. kernel \in ConvKernels => kernel.form = "conv"
    BY DEF ConvKernels, ConvShape, arr_f64_conv2d_3x3_p1, arr_f32_conv2d_3x3_p1,
       arr_i8_conv2d_3x3_p1, arr_f64_conv2d_3x3_p1_multi, arr_f32_conv2d_3x3_p1_multi,
       arr_i8_conv2d_3x3_p1_multi
  <1>3. kernel \in NormKernels => kernel.form = "norm"
    <2>1. \A w, p : NormShape(w, p).form = "norm"
      BY DEF NormShape
    <2>2. \A k \in NormKernels : \E w, p : k = NormShape(w, p)
      BY Zenon DEF NormKernels, arr_f64_softmax, arr_f32_softmax, arr_f32_layernorm,
         arr_f32_rmsnorm, arr_f32_rope_apply_pairs
    <2> QED BY <2>1, <2>2
  <1> QED BY <1>1, <1>2, <1>3
\* Where each family's actions are, none of which changes the kernel.
LEMMA MatrixPlaces ==
  MatrixNext => kernel' = kernel
    /\ pc \in {"matrix", "zero", "row", "unpack", "vector", "tail"}
  BY DEF MatrixNext, RefuseMatrix, BeginRows, Clear, ClearEnd, Row, RowsEnd, Unpack,
     UnpackEnd, DotVector, ScatterVector, DotVectorEnd, DotTail, ScatterTail, Scatter,
     RowEnd

\* The same of the convolutions ...
LEMMA ConvPlaces ==
  ConvNext => kernel' = kernel
    /\ pc \in {"conv", "channel", "fill", "weights", "y", "x"}
  BY DEF ConvNext, RefuseWeights, Derive, BeginChannels, Channel, ChannelsEnd, Fill,
     FillEnd, Weights, WeightsEnd, ImageRow, ImageEnd, VectorChunk, RowTail

\* ... and of the kernels that work in groups.
LEMMA NormPlaces ==
  NormNext => kernel' = kernel /\ pc \in {"norm", "group", "pass", "rest"}
  BY DEF NormNext, Divide, Group, GroupsEnd, VectorStep, VectorsEnd, TailStep, Step,
     PassEnd, Rotate, RotateEnd
-----------------------------------------------------------------------------
\* The counters.
Counts == [row : Nat, part : Nat, y : Nat, col : Nat, side : Nat]
-----------------------------------------------------------------------------
\* The elements from base on, c of them, each under sums s.
Under(base, c, s) ==
  Sum({[of |-> Cell("old", b), by |-> s] : b \in base..base + c - 1})

\* The two sums of group r of length k.
First(r, k)  == Under(r * k, k, <<>>)
Second(r, k) == Under(r * k, k, <<First(r, k)>>)

\* The sums that pass p sees the elements of group r under.
SeenBy(p, r, k) ==
  CASE p = 1 -> <<>> [] p = 2 -> <<First(r, k)>>
    [] p = 3 -> <<First(r, k), Second(r, k)>>

\* The sums they are stored under when pass p of the passes s begins.
StoredBy(s, p, r, k) ==
  IF p > 1 /\ s[p - 1].stores THEN SeenBy(p - 1, r, k) ELSE <<>>

NormPcs == {"norm", "group", "pass", "rest", "done", "fault"}
InGroup == pc \in {"pass", "rest"}

NormTypes ==
  /\ kernel \in NormKernels /\ pc \in NormPcs
  /\ n \in Nat /\ m \in Nat /\ held \in Nat
  /\ at \in Counts
  /\ out = [a \in 0..held + Guard - 1 |-> out[a]]

\* The loop over the groups.
GroupsInv ==
  /\ m * n <= held /\ at.row <= m /\ (pc = "done" => at.row = m)
  /\ \A r \in 0..at.row - 1, i \in 0..n - 1 :
       out[r * n + i] = [of |-> Cell("old", r * n + i),
                         by |-> StoredBy(kernel.passes, Len(kernel.passes) + 1, r, n)]
  /\ \A a \in 0..held + Guard - 1 :
       a >= (IF InGroup THEN at.row + 1 ELSE at.row) * n => out[a] = Element(a)

\* The pass over one group: the sums kept, the running sum, the elements.
PassInv ==
  /\ at.row < m /\ at.part \in 1..Len(kernel.passes)
  /\ pc = "pass" => at.col % pass.lanes = 0
  /\ n # 0 =>
       /\ at.col <= n
       /\ lane = SeenBy(at.part, at.row, n)
       /\ acc = IF pass.folds THEN Under(at.row * n, at.col, SeenBy(at.part, at.row, n)) ELSE Zero
       /\ \A i \in 0..n - 1 :
            out[at.row * n + i] =
              [of |-> Cell("old", at.row * n + i),
               by |-> IF pass.stores /\ i < at.col THEN SeenBy(at.part, at.row, n)
                      ELSE StoredBy(kernel.passes, at.part, at.row, n)]

\* The rotary embedding.
RotateInv ==
  /\ held = n
  /\ at.col <= n \div 2 /\ (pc = "done" => at.col = n \div 2)
  /\ \A a \in 0..held + Guard - 1 :
       out[a] = IF a < 2 * at.col THEN Rotated(a) ELSE Element(a)

NormInv ==
  /\ NormTypes
  /\ pc = "norm" /\ ~Rope =>
       /\ at.row = 0 /\ (kernel.whole => m * n <= held)
       /\ \A a \in 0..held + Guard - 1 : out[a] = Element(a)
  /\ ~Rope /\ pc \notin {"norm", "fault"} => GroupsInv
  /\ ~Rope /\ InGroup => PassInv
  /\ Rope => RotateInv /\ pc \in {"norm", "done"}

NInv == kernel \in NormKernels => NormInv
-----------------------------------------------------------------------------
\* What the shapes of the four normalisations have in common.
PassShape(p, P) ==
  /\ P.lanes \in {1, 4, 8} /\ P.from \in {0, 1} /\ (P.from = 1 => P.lanes = 1)
  /\ P.folds \in BOOLEAN /\ P.stores \in BOOLEAN
  /\ p = 1 => P.uses = <<>> /\ P.folds /\ ~P.stores
  /\ p = 2 => P.uses = <<1>>
  /\ p # 1 => P.from = 0

\* Of three passes the last uses both sums, or what the second stored and its
\* sum.
LastUses(stores) == IF stores THEN <<2>> ELSE <<1, 2>>

PassesShape(s) ==
  /\ Len(s) \in {2, 3} /\ \A p \in 1..Len(s) : PassShape(p, s[p])
  /\ s[Len(s)].stores
  /\ Len(s) = 3 => s[2].folds /\ s[3].uses = LastUses(s[2].stores)

\* A softmax and a layer norm: two reductions and a pass that stores.
LEMMA ThreePasses ==
  ASSUME NEW P, NEW Q, NEW R, PassShape(1, P), PassShape(2, Q), PassShape(3, R),
         Q.folds, R.stores, R.uses = LastUses(Q.stores)
  PROVE  PassesShape(<<P, Q, R>>)
  <1> DEFINE s == <<P, Q, R>>
  <1>1. Len(s) = 3 /\ s[1] = P /\ s[2] = Q /\ s[3] = R
    OBVIOUS
  <1> HIDE DEF s
  <1>2. \A p \in 1..Len(s) : PassShape(p, s[p])
    BY <1>1
  <1>3. PassesShape(s)
    BY <1>1, <1>2 DEF PassesShape
  <1> QED BY <1>3 DEF s

\* An RMS norm: one reduction and a pass that stores.
LEMMA TwoPasses ==
  ASSUME NEW P, NEW Q, PassShape(1, P), PassShape(2, Q), Q.stores
  PROVE  PassesShape(<<P, Q>>)
  <1> DEFINE s == <<P, Q>>
  <1>1. Len(s) = 2 /\ s[1] = P /\ s[2] = Q
    OBVIOUS
  <1> HIDE DEF s
  <1>2. \A p \in 1..Len(s) : PassShape(p, s[p])
    BY <1>1
  <1>3. PassesShape(s)
    BY <1>1, <1>2 DEF PassesShape
  <1> QED BY <1>3 DEF s

\* What the kernels of the family have in common.
LEMMA NormShapes ==
  ASSUME kernel \in NormKernels
  PROVE  /\ kernel.whole \in BOOLEAN
         /\ ~Rope => PassesShape(kernel.passes)
         /\ Rope => ~kernel.whole
  <1>1. \A w, p : NormShape(w, p).whole = w /\ NormShape(w, p).passes = p
    BY DEF NormShape
  <1>2. CASE kernel = arr_f64_softmax
    <2>1. kernel.whole = TRUE
      BY <1>1, <1>2 DEF arr_f64_softmax
    <2>2. PassesShape(kernel.passes)
      <3> DEFINE P == Pass(4, 0, <<>>, TRUE, FALSE)
                 Q == Pass(4, 0, <<1>>, TRUE, TRUE)
                 R == Pass(4, 0, <<2>>, FALSE, TRUE)
      <3>1. kernel.passes = <<P, Q, R>>
        BY <1>1, <1>2 DEF arr_f64_softmax
      <3>2. PassShape(1, P) /\ PassShape(2, Q) /\ PassShape(3, R)
        BY DEF Pass, PassShape
      <3>3. Q.folds /\ Q.stores /\ R.stores /\ R.uses = <<2>>
        BY DEF Pass
      <3> HIDE DEF P, Q, R
      <3> QED BY <3>1, <3>2, <3>3, ThreePasses DEF LastUses
    <2>3. ~Rope
      BY <1>1, <2>1 DEF Rope, arr_f32_rope_apply_pairs
    <2> QED BY <2>1, <2>2, <2>3
  <1>3. CASE kernel = arr_f32_softmax
    <2>1. kernel.whole = TRUE
      BY <1>1, <1>3 DEF arr_f32_softmax
    <2>2. PassesShape(kernel.passes)
      <3> DEFINE P == Pass(1, 1, <<>>, TRUE, FALSE)
                 Q == Pass(4, 0, <<1>>, TRUE, TRUE)
                 R == Pass(8, 0, <<2>>, FALSE, TRUE)
      <3>1. kernel.passes = <<P, Q, R>>
        BY <1>1, <1>3 DEF arr_f32_softmax
      <3>2. PassShape(1, P) /\ PassShape(2, Q) /\ PassShape(3, R)
        BY DEF Pass, PassShape
      <3>3. Q.folds /\ Q.stores /\ R.stores /\ R.uses = <<2>>
        BY DEF Pass
      <3> HIDE DEF P, Q, R
      <3> QED BY <3>1, <3>2, <3>3, ThreePasses DEF LastUses
    <2>3. ~Rope
      BY <1>1, <2>1 DEF Rope, arr_f32_rope_apply_pairs
    <2> QED BY <2>1, <2>2, <2>3
  <1>4. CASE kernel = arr_f32_layernorm
    <2>1. kernel.whole = FALSE
      BY <1>1, <1>4 DEF arr_f32_layernorm
    <2>2. PassesShape(kernel.passes)
      <3> DEFINE P == Pass(1, 0, <<>>, TRUE, FALSE)
                 Q == Pass(1, 0, <<1>>, TRUE, FALSE)
                 R == Pass(1, 0, <<1, 2>>, FALSE, TRUE)
      <3>1. kernel.passes = <<P, Q, R>>
        BY <1>1, <1>4 DEF arr_f32_layernorm
      <3>2. PassShape(1, P) /\ PassShape(2, Q) /\ PassShape(3, R)
        BY DEF Pass, PassShape
      <3>3. Q.folds /\ ~Q.stores /\ R.stores /\ R.uses = <<1, 2>>
        BY DEF Pass
      <3> HIDE DEF P, Q, R
      <3> QED BY <3>1, <3>2, <3>3, ThreePasses DEF LastUses
    <2>3. ~Rope
      <3>1. Len(kernel.passes) # 0 /\ Len(<<>>) = 0
        BY <2>2 DEF PassesShape, LastUses
      <3>2. arr_f32_rope_apply_pairs.passes = <<>>
        BY <1>1 DEF arr_f32_rope_apply_pairs
      <3> QED BY <3>1, <3>2 DEF Rope
    <2> QED BY <2>1, <2>2, <2>3
  <1>5. CASE kernel = arr_f32_rmsnorm
    <2>1. kernel.whole = FALSE
      BY <1>1, <1>5 DEF arr_f32_rmsnorm
    <2>2. PassesShape(kernel.passes)
      <3> DEFINE P == Pass(1, 0, <<>>, TRUE, FALSE)
                 Q == Pass(1, 0, <<1>>, FALSE, TRUE)
      <3>1. kernel.passes = <<P, Q>>
        BY <1>1, <1>5 DEF arr_f32_rmsnorm
      <3>2. PassShape(1, P) /\ PassShape(2, Q) /\ Q.stores
        BY DEF Pass, PassShape
      <3> HIDE DEF P, Q
      <3> QED BY <3>1, <3>2, TwoPasses
    <2>3. ~Rope
      <3>1. Len(kernel.passes) # 0 /\ Len(<<>>) = 0
        BY <2>2 DEF PassesShape, LastUses
      <3>2. arr_f32_rope_apply_pairs.passes = <<>>
        BY <1>1 DEF arr_f32_rope_apply_pairs
      <3> QED BY <3>1, <3>2 DEF Rope
    <2> QED BY <2>1, <2>2, <2>3
  <1>6. CASE kernel = arr_f32_rope_apply_pairs
    BY <1>1, <1>6 DEF Rope, arr_f32_rope_apply_pairs
  <1> QED BY <1>2, <1>3, <1>4, <1>5, <1>6 DEF NormKernels

\* Two neighbouring ranges of a group add up.
LEMMA Joined ==
  ASSUME NEW x, NEW y
  PROVE  <<x>> \o <<y>> = <<x, y>>
  <1> DEFINE S == {x, y}
             a == Append(<<x>>, y)
             b == <<x, y>>
  <1>1. <<x>> \in Seq(S) /\ y \in S /\ b \in Seq(S)
    OBVIOUS
  <1>2. Len(<<x>>) = 1 /\ <<x>>[1] = x
    OBVIOUS
  <1>3. Len(b) = 2 /\ b[1] = x /\ b[2] = y
    OBVIOUS
  <1>4. a = <<x>> \o <<y>>
    BY <1>1, AppendIsConcat
  <1>5. a \in Seq(S) /\ Len(a) = 2 /\ a[1] = x /\ a[2] = y
    BY <1>1, <1>2, AppendProperties
  <1> HIDE DEF a, b, S
  <1>6. a = b
    BY <1>1, <1>3, <1>5
  <1> QED BY <1>4, <1>6 DEF b

\* rmsnorm alone has two passes.
LEMMA PassCounts ==
  ASSUME kernel \in NormKernels, ~Rope
  PROVE  Len(kernel.passes) = IF kernel = arr_f32_rmsnorm THEN 2 ELSE 3
  <1>1. \A w, p : NormShape(w, p).passes = p
    BY DEF NormShape
  <1>2. ASSUME NEW k, NEW w, NEW x, NEW y, k = NormShape(w, <<x, y>>)
        PROVE  Len(k.passes) = 2
    BY <1>1, <1>2
  <1>3. ASSUME NEW k, NEW w, NEW x, NEW y, NEW z, k = NormShape(w, <<x, y, z>>)
        PROVE  Len(k.passes) = 3
    BY <1>1, <1>3
  <1>4. Len(arr_f32_rmsnorm.passes) = 2
    BY <1>2, Zenon DEF arr_f32_rmsnorm
  <1>5. Len(arr_f64_softmax.passes) = 3
    BY <1>3, Zenon DEF arr_f64_softmax
  <1>6. Len(arr_f32_softmax.passes) = 3
    BY <1>3, Zenon DEF arr_f32_softmax
  <1>7. Len(arr_f32_layernorm.passes) = 3
    BY <1>3, Zenon DEF arr_f32_layernorm
  <1> QED BY <1>4, <1>5, <1>6, <1>7 DEF NormKernels, Rope

\* What a pass sees is what was stored under the sums it applies.
LEMMA SeenIs ==
  ASSUME NEW s, PassesShape(s), NEW p \in 1..Len(s), NEW r, NEW k
  PROVE  StoredBy(s, p, r, k) \o [u \in DOMAIN s[p].uses |->
                              SeenBy(p, r, k)[s[p].uses[u]]]
           = SeenBy(p, r, k)
  <1> DEFINE P(q) == s[q]
  <1>1. CASE p = 1
    <2>1. StoredBy(s, p, r, k) = <<>> /\ SeenBy(p, r, k) = <<>> /\ P(p).uses = <<>>
      BY <1>1 DEF StoredBy, SeenBy, PassesShape, PassShape
    <2> QED BY <2>1
  <1>2. CASE p = 2
    <2>1. StoredBy(s, p, r, k) = <<>> /\ SeenBy(p, r, k) = <<First(r, k)>> /\ P(p).uses = <<1>>
      BY <1>2 DEF StoredBy, SeenBy, PassesShape, PassShape
    <2>2. [u \in DOMAIN P(p).uses |-> SeenBy(p, r, k)[P(p).uses[u]]] = <<First(r, k)>>
      BY <2>1
    <2> QED BY <2>1, <2>2
  <1>3. CASE p = 3
    <2>1. SeenBy(p, r, k) = <<First(r, k), Second(r, k)>> /\ SeenBy(2, r, k) = <<First(r, k)>>
      BY <1>3 DEF SeenBy
    <2>2. Len(s) = 3
      BY <1>3 DEF PassesShape
    <2>3. CASE P(2).stores
      <3>1. StoredBy(s, p, r, k) = <<First(r, k)>> /\ P(p).uses = <<2>>
        BY <1>3, <2>1, <2>2, <2>3 DEF StoredBy, PassesShape, LastUses
      <3>2. [u \in DOMAIN P(p).uses |-> SeenBy(p, r, k)[P(p).uses[u]]] = <<Second(r, k)>>
        BY <2>1, <3>1
      <3> QED BY <2>1, <3>1, <3>2, Joined
    <2>4. CASE ~P(2).stores
      <3>1. StoredBy(s, p, r, k) = <<>> /\ P(p).uses = <<1, 2>>
        BY <1>3, <2>1, <2>2, <2>4 DEF StoredBy, PassesShape, LastUses
      <3>2. [u \in DOMAIN P(p).uses |-> SeenBy(p, r, k)[P(p).uses[u]]]
              = <<First(r, k), Second(r, k)>>
        BY <2>1, <3>1
      <3> QED BY <2>1, <3>1, <3>2
    <2> QED BY <2>3, <2>4
  <1>4. p \in {1, 2, 3}
    BY DEF PassesShape
  <1> QED BY <1>1, <1>2, <1>3, <1>4

\* The sum of a pass over the whole group is the next one kept.
LEMMA SumKept ==
  ASSUME NEW s, PassesShape(s), NEW p \in 1..Len(s), NEW r, NEW k,
         p < Len(s)
  PROVE  /\ s[p].folds
         /\ Append(SeenBy(p, r, k), Under(r * k, k, SeenBy(p, r, k))) = SeenBy(p + 1, r, k)
         /\ ~s[p].stores => StoredBy(s, p, r, k) = StoredBy(s, p + 1, r, k)
         /\ s[p].stores => SeenBy(p, r, k) = StoredBy(s, p + 1, r, k)
  <1>1. CASE p = 1
    <2>1. SeenBy(p, r, k) = <<>> /\ SeenBy(p + 1, r, k) = <<First(r, k)>>
      BY <1>1 DEF SeenBy
    <2>2. StoredBy(s, p, r, k) = <<>> /\ StoredBy(s, p + 1, r, k) = <<>>
      BY <1>1 DEF StoredBy, PassesShape, LastUses, PassShape
    <2>3. s[p].folds /\ ~s[p].stores
      BY <1>1 DEF PassesShape, PassShape
    <2> QED BY <2>1, <2>2, <2>3 DEF First
  <1>2. CASE p = 2
    <2>1. SeenBy(p, r, k) = <<First(r, k)>> /\ SeenBy(p + 1, r, k) = <<First(r, k), Second(r, k)>>
      BY <1>2 DEF SeenBy
    <2>2. /\ StoredBy(s, p, r, k) = <<>>
          /\ StoredBy(s, p + 1, r, k) = IF s[p].stores THEN SeenBy(p, r, k) ELSE <<>>
      BY <1>2 DEF StoredBy, PassesShape, LastUses, PassShape
    <2>3. s[p].folds
      BY <1>2 DEF PassesShape, PassShape
    <2> QED BY <2>1, <2>2, <2>3 DEF Second
  <1>3. p \in {1, 2}
    BY DEF PassesShape
  <1> QED BY <1>1, <1>2, <1>3
-----------------------------------------------------------------------------
\* The invariant holds when the call begins.
LEMMA NormStart ==
  ASSUME NormInit
  PROVE  NormInv
  <1>1. /\ kernel \in NormKernels /\ n \in 0..MaxCols /\ at = Counters /\ pc = "norm"
        /\ out = [a \in 0..held + Guard - 1 |-> Element(a)]
    BY DEF NormInit
  <1>2. /\ n \in Nat /\ held \in Nat /\ (kernel.whole \/ Rope => held = n)
    BY <1>1, RegistersAssumption DEF NormInit
  <1>3. m \in Nat /\ (kernel.whole => m = 1)
    <2>1. kernel.whole \in BOOLEAN /\ (kernel.whole => ~Rope)
      BY <1>1, NormShapes
    <2>2. CASE kernel.whole
      BY <2>1, <2>2 DEF NormInit
    <2>3. CASE ~kernel.whole /\ Rope
      BY <2>3, RegistersAssumption DEF NormInit
    <2>4. CASE ~kernel.whole /\ ~Rope
      BY <2>4 DEF NormInit
    <2> QED BY <2>1, <2>2, <2>3, <2>4
  <1>4. NormTypes
    BY <1>1, <1>2, <1>3 DEF NormTypes, NormPcs, Counters, Counts
  <1>5. \A a \in 0..held + Guard - 1 : out[a] = Element(a)
    BY <1>1
  <1>6. at.row = 0 /\ at.col = 0
    BY <1>1 DEF Counters
  <1>7. Rope => RotateInv
    BY <1>1, <1>2, <1>5, <1>6 DEF RotateInv
  <1> QED BY <1>1, <1>2, <1>3, <1>4, <1>5, <1>6, <1>7 DEF NormInv, InGroup

\* The division of the array into groups keeps the invariant.
LEMMA DivideStep ==
  ASSUME NormInv, Divide
  PROVE  NormInv'
  <1>1. /\ NormTypes /\ pc = "norm" /\ ~Rope
        /\ UNCHANGED <<kernel, n, held, at, lane, acc, scratch, out>>
        /\ kernel \in NormKernels
    BY DEF NormInv, NormTypes, Divide
  <1>2. /\ at.row = 0 /\ (kernel.whole => m * n <= held)
        /\ \A a \in 0..held + Guard - 1 : out[a] = Element(a)
    BY <1>1 DEF NormInv
  <1>3. kernel.whole \in BOOLEAN
    BY <1>1, NormShapes
  <1>4. CASE ~kernel.whole /\ n = 0
    <2>1. pc' = "fault" /\ m' = m
      BY <1>4 DEF Divide
    <2> QED BY <1>1, <2>1 DEF NormInv, NormTypes, NormPcs, InGroup, Rope
  <1>5. CASE kernel.whole \/ n # 0
    <2>1. pc' = "group" /\ m' = IF kernel.whole THEN m ELSE held \div n
      BY <1>3, <1>5 DEF Divide
    <2>2. m' \in Nat /\ m' * n <= held
      <3>1. CASE kernel.whole
        BY <1>1, <1>2, <2>1, <3>1 DEF NormTypes
      <3>2. CASE ~kernel.whole
        <4>1. n \in Nat \ {0} /\ held \in Nat
          BY <1>1, <1>5, <3>2 DEF NormTypes
        <4>2. held \div n \in Nat /\ held % n \in 0..n - 1
              /\ held = (held \div n) * n + (held % n)
          BY <4>1, PlaceOf
        <4>3. (held \div n) * n <= held
          BY <4>1, <4>2
        <4> QED BY <2>1, <3>2, <4>2, <4>3
      <3> QED BY <1>3, <3>1, <3>2
    <2>3. NormTypes'
      BY <1>1, <2>1, <2>2 DEF NormTypes, NormPcs
    <2>4. GroupsInv'
      BY <1>1, <1>2, <2>1, <2>2 DEF GroupsInv, InGroup, NormTypes
    <2> QED BY <1>1, <2>1, <2>3, <2>4 DEF NormInv, InGroup, Rope
  <1> QED BY <1>3, <1>4, <1>5

\* So does the top of the loop over the groups.
LEMMA GroupStep ==
  ASSUME NormInv, Group
  PROVE  NormInv'
  <1> DEFINE r == at.row
             P == kernel.passes
  <1>1. /\ NormTypes /\ pc = "group" /\ pc' = "pass" /\ r < m
        /\ at' = [at EXCEPT !.part = 1, !.col = P[1].from]
        /\ lane' = <<>> /\ acc' = Seed(1, r * n)
        /\ UNCHANGED <<kernel, m, n, held, scratch, out>>
        /\ kernel \in NormKernels
    BY DEF NormInv, NormTypes, Group
  <1>2. ~Rope /\ GroupsInv /\ ~InGroup
    BY <1>1 DEF NormInv, InGroup
  <1>3. PassesShape(P)
    BY <1>1, <1>2, NormShapes
  <1>4. /\ Len(P) \in {2, 3} /\ P[1].from \in {0, 1} /\ P[1].lanes \in {1, 4, 8}
        /\ (P[1].from = 1 => P[1].lanes = 1) /\ P[1].folds /\ ~P[1].stores
    BY <1>3 DEF PassesShape, PassShape
  <1>5. /\ at'.row = r /\ at'.part = 1 /\ at'.col = P[1].from
        /\ at' \in Counts
    <2> DEFINE w == P[1].from
    <2>1. at \in Counts /\ 1 \in Nat /\ w \in Nat /\ at' = [at EXCEPT !.part = 1, !.col = w]
      BY <1>1, <1>4 DEF NormTypes
    <2> HIDE DEF w
    <2>2. /\ at'.row = r /\ at'.part = 1 /\ at'.col = w /\ at' \in Counts
      BY <2>1 DEF Counts
    <2> QED BY <2>2 DEF w
  <1>6. r \in Nat /\ m \in Nat /\ n \in Nat /\ held \in Nat
    BY <1>1 DEF NormTypes, Counts
  <1>7. NormTypes'
    BY <1>1, <1>5 DEF NormTypes, NormPcs
  <1>8. InGroup' /\ pass' = P[1]
    BY <1>1, <1>5 DEF InGroup, pass
  <1>9. (r + 1) * n = r * n + n /\ r * n \in Nat
    BY <1>6
  <1>10. GroupsInv'
    <2>1. \A a \in 0..held + Guard - 1 : a >= (r + 1) * n => out[a] = Element(a)
      BY <1>2, <1>6, <1>9, RegistersAssumption DEF GroupsInv
    <2> QED BY <1>1, <1>2, <1>5, <1>6, <1>8, <2>1 DEF GroupsInv
  <1>11. \A i \in 0..n - 1 : out[r * n + i] = Element(r * n + i)
    <2>1. m * n <= held
      BY <1>2 DEF GroupsInv
    <2>2. ASSUME NEW i \in 0..n - 1 PROVE r * n + i \in 0..held + Guard - 1 /\ r * n + i >= r * n
      <3>1. r * n + i \in Nat /\ r * n + i < m * n
        BY <1>1, <1>6, PlaceBelow
      <3> QED BY <1>6, <1>9, <2>1, <3>1, RegistersAssumption
    <2> QED BY <1>2, <2>2 DEF GroupsInv
  <1>12. PassInv'
    <2>1. P[1].from % P[1].lanes = 0
      BY <1>4
    <2>2. ASSUME n # 0 PROVE acc' = Under(r * n, P[1].from, <<>>)
      <3>1. CASE P[1].from = 0
        <4>1. 0..P[1].from - 1 = {} /\ r * n..r * n + P[1].from - 1 = {}
          BY <1>9, <3>1
        <4> QED BY <1>1, <4>1 DEF Seed, Under
      <3>2. CASE P[1].from = 1
        <4>1. 0..P[1].from - 1 = {0} /\ r * n..r * n + P[1].from - 1 = {r * n}
          BY <1>9, <3>2
        <4>2. out[r * n + 0] = Element(r * n)
          BY <1>6, <1>9, <1>11, <2>2
        <4>3. {out[r * n + i] : i \in 0..P[1].from - 1} = {Element(r * n)}
          BY <4>1, <4>2
        <4>4. acc' = Sum({Element(r * n)})
          BY <1>1, <4>3 DEF Seed
        <4> QED BY <4>1, <4>4 DEF Under, Element
      <3> QED BY <1>4, <3>1, <3>2
    <2>3. SeenBy(1, r, n) = <<>> /\ StoredBy(P, 1, r, n) = <<>>
      BY DEF SeenBy, StoredBy
    <2> QED BY <1>1, <1>4, <1>5, <1>6, <1>8, <1>11, <2>1, <2>2, <2>3 DEF PassInv, Element
  <1> QED BY <1>1, <1>2, <1>7, <1>8, <1>10, <1>12 DEF NormInv, Rope, InGroup
\* The running sum takes the next c elements.
LEMMA UnderMore ==
  ASSUME NEW b \in Nat, NEW c \in Nat, NEW k \in Nat, NEW s
  PROVE  Under(b, c, s) (+) Under(b + c, k, s) = Under(b, c + k, s)
  <1> DEFINE e(a) == [of |-> Cell("old", a), by |-> s]
             A == {e(a) : a \in b..b + c - 1}
             B == {e(a) : a \in b + c..b + c + k - 1}
             C == {e(a) : a \in b..b + (c + k) - 1}
  <1>1. \A x, y : e(x) = e(y) => x = y
    BY DEF Cell
  <1> HIDE DEF e
  <1>2. A \cap B = {}
    BY <1>1
  <1>3. A \cup B = C
    <2>1. b..b + (c + k) - 1 = (b..b + c - 1) \cup (b + c..b + c + k - 1)
      OBVIOUS
    <2> QED BY <2>1
  <1>4. Sum(A) (+) Sum(B) = Sum(C)
    BY <1>2, <1>3, SumUnion
  <1> QED BY <1>4 DEF Under, e

\* k elements of a pass: what they become, and what joins the running sum.
LEMMA ElementsStep ==
  ASSUME NormInv, ~Rope, InGroup, NEW k \in Nat \ {0}, at.col + k <= n,
         pc = "pass" => (at.col + k) % pass.lanes = 0, Step(k)
  PROVE  NormInv'
  <1> DEFINE r == at.row
             p == at.part
             P == kernel.passes
             c == at.col
             b == r * n
             S == SeenBy(p, r, n)
             T == StoredBy(P, p, r, n)
             e(a, s) == [of |-> Cell("old", a), by |-> s]
             dom == 0..held + Guard - 1
  <1>1. /\ NormTypes /\ GroupsInv /\ PassInv /\ kernel \in NormKernels
        /\ at' = [at EXCEPT !.col = c + k]
        /\ UNCHANGED <<kernel, m, n, held, lane, scratch, pc>>
    BY DEF NormInv, NormTypes, InGroup, Step
  <1>2. /\ r \in Nat /\ m \in Nat /\ n \in Nat /\ held \in Nat /\ c \in Nat /\ p \in Nat
        /\ DOMAIN out = dom /\ Guard \in Nat
    BY <1>1, RegistersAssumption DEF NormTypes, Counts
  <1>out. out = [a \in dom |-> out[a]]
    BY <1>1 DEF NormTypes
  <1>3. /\ at'.row = r /\ at'.part = p /\ at'.col = c + k /\ at' \in Counts
    <2> DEFINE w == c + k
    <2>1. w \in Nat /\ at \in Counts /\ at' = [at EXCEPT !.col = w]
      <3>1. w \in Nat
        BY <1>2
      <3>2. at \in Counts
        BY <1>1 DEF NormTypes
      <3>3. at' = [at EXCEPT !.col = w]
        BY <1>1, Zenon
      <3> QED BY <3>1, <3>2, <3>3, Zenon
    <2> HIDE DEF w
    <2>2. at'.row = r /\ at'.part = p /\ at'.col = w /\ at' \in Counts
      BY <2>1 DEF Counts
    <2> QED BY <2>2 DEF w
  <1>4. PassesShape(P) /\ pass = P[p] /\ pass' = pass
    BY <1>1, <1>3, NormShapes DEF pass
  <1>5. n # 0 /\ r < m /\ p \in 1..Len(P) /\ c < n /\ c + k <= n
    BY <1>1, <1>2 DEF PassInv
  <1>bool. pass.stores \in BOOLEAN /\ pass.folds \in BOOLEAN
    BY <1>4, <1>5 DEF PassesShape, PassShape
  <1>6. /\ lane = S /\ acc = IF pass.folds THEN Under(b, c, S) ELSE Zero
        /\ \A i \in 0..n - 1 :
             out[b + i] = e(b + i, IF pass.stores /\ i < c THEN S ELSE T)
    BY <1>1, <1>5 DEF PassInv
  <1>7. b \in Nat /\ (r + 1) * n = b + n /\ b + n <= held
    <2> HIDE DEF r
    <2>1. r + 1 \in Nat /\ r + 1 <= m
      BY <1>2, <1>5
    <2>2. (r + 1) * n <= m * n
      BY <1>2, <2>1, Monotone
    <2>3. m * n <= held
      BY <1>1 DEF GroupsInv
    <2>4. (r + 1) * n = b + n /\ b \in Nat
      BY <1>2
    <2>5. m * n \in Nat
      BY <1>2
    <2> HIDE DEF b
    <2> QED BY <1>2, <2>2, <2>3, <2>4, <2>5
  <1>8. Index = b + c /\ Index \in Nat
    <2>1. Index = b + c
      BY Zenon DEF Index
    <2>2. b \in Nat /\ c \in Nat
      BY <1>2, <1>7
    <2> HIDE DEF b, c
    <2> QED BY <2>1, <2>2
  <1> DEFINE D == b + c..b + c + k - 1
  <1> HIDE DEF r, p, P, c, b, dom, e, D
  <1>9. ASSUME NEW a \in D PROVE Seen(a) = e(a, S)
    <2> DEFINE i == a - b
               d == [u \in DOMAIN pass.uses |-> lane[pass.uses[u]]]
    <2>1. i \in 0..n - 1 /\ ~(i < c) /\ a = b + i
      BY <1>2, <1>5, <1>7 DEF D
    <2> HIDE DEF i
    <2>2. out[a] = e(a, T)
      BY <1>6, <2>1
    <2>3. T \o d = S
      <3>1. T \o [u \in DOMAIN P[p].uses |-> S[P[p].uses[u]]] = S
        BY <1>4, <1>5, SeenIs
      <3> HIDE DEF S, T
      <3> QED BY <1>4, <1>6, <3>1
    <2>4. Seen(a) = [out[a] EXCEPT !.by = @ \o d]
      BY DEF Seen
    <2> HIDE DEF d, S, T
    <2>5. [e(a, T) EXCEPT !.by = @ \o d] = e(a, T \o d)
      <3>1. e(a, T).by = T
        BY DEF e
      <3>2. \A v : [e(a, T) EXCEPT !.by = v] = e(a, v)
        BY DEF e
      <3> QED BY <3>1, <3>2, Zenon
    <2> QED BY <2>2, <2>3, <2>4, <2>5, Zenon
  <1> HIDE DEF S, T
  <1>10. Sum({Seen(a) : a \in Index..Index + k - 1}) = Under(b + c, k, S)
    <2>1. {Seen(a) : a \in D} = {e(a, S) : a \in D}
      BY <1>9
    <2> QED BY <1>8, <2>1 DEF Under, D, e
  <1>11. acc' = IF pass.folds THEN Under(b, c + k, S) ELSE Zero
    <2>1. acc' = IF pass.folds THEN acc (+) Under(b + c, k, S) ELSE acc
      BY <1>10 DEF Step
    <2> QED BY <1>2, <1>6, <1>7, <2>1, UnderMore
  <1>12. out' = [a \in dom |-> IF pass.stores /\ a \in D THEN e(a, S) ELSE out[a]]
    <2>1. DOMAIN out = dom
      BY <1>2
    <2>2. CASE pass.stores
      <3>1. out' = [a \in DOMAIN out |-> IF a \in D THEN Seen(a) ELSE out[a]]
        BY <1>8, <2>2 DEF Step, D
      <3> QED BY <1>9, <2>1, <2>2, <3>1
    <2>3. CASE ~pass.stores
      BY <1>out, <2>3 DEF Step
    <2> QED BY <2>2, <2>3
  <1>13. NormTypes'
    BY <1>1, <1>3, <1>12 DEF NormTypes, dom
  <1>14. \A a \in dom : a \notin D => out'[a] = out[a]
    BY <1>12
  <1>15. GroupsInv'
    <2>1. ASSUME NEW s \in 0..r - 1, NEW i \in 0..n - 1 PROVE out'[s * n + i] = out[s * n + i]
      <3> DEFINE a == s * n + i
      <3>1. s \in Nat /\ s < r
        BY <1>2
      <3>2. a \in Nat /\ a < b
        BY <1>2, <3>1, PlaceBelow DEF b
      <3> HIDE DEF a
      <3>3. out'[a] = out[a]
        BY <1>2, <1>7, <1>14, <3>2 DEF dom, D
      <3> QED BY <3>3 DEF a
    <2>2. ASSUME NEW a \in dom, a >= (r + 1) * n PROVE out'[a] = Element(a)
      <3>1. out'[a] = out[a]
        BY <1>2, <1>5, <1>7, <1>14, <2>2 DEF dom, D
      <3> QED BY <1>1, <2>2, <3>1 DEF GroupsInv, dom, r
    <2>3. InGroup' /\ (pc' = "done" => FALSE)
      BY <1>1 DEF InGroup
    <2> QED BY <1>1, <1>3, <2>1, <2>2, <2>3 DEF GroupsInv, dom, r
  <1>16. ASSUME NEW i \in 0..n - 1
         PROVE  out'[b + i] = e(b + i, IF pass.stores /\ i < c + k THEN S ELSE T)
    <2> DEFINE a == b + i
    <2>1. a \in dom /\ (a \in D <=> i >= c /\ i < c + k)
      BY <1>2, <1>7 DEF dom, D
    <2>2. out[a] = e(a, IF pass.stores /\ i < c THEN S ELSE T)
      BY <1>6
    <2> HIDE DEF a
    <2> SUFFICES out'[a] = e(a, IF pass.stores /\ i < c + k THEN S ELSE T)
      BY DEF a
    <2>3. CASE pass.stores /\ i >= c /\ i < c + k
      BY <1>2, <1>bool, <1>12, <2>1, <2>3
    <2>4. CASE ~(pass.stores /\ i >= c /\ i < c + k)
      BY <1>2, <1>bool, <1>12, <2>1, <2>2, <2>4
    <2> QED BY <1>bool, <2>3, <2>4
  <1>17. PassInv'
    BY <1>1, <1>3, <1>4, <1>5, <1>6, <1>11, <1>16 DEF PassInv, S, T, r, p, P, c, b, e
  <1> QED BY <1>1, <1>13, <1>15, <1>17 DEF NormInv, InGroup, Rope
\* What holds of the pass and the counters within a group.
LEMMA PassBasics ==
  ASSUME NormInv, pc \in {"pass", "rest"}
  PROVE  /\ ~Rope /\ InGroup /\ GroupsInv /\ PassInv /\ PassesShape(kernel.passes)
         /\ at.part \in 1..Len(kernel.passes) /\ Len(kernel.passes) \in {2, 3}
         /\ pass.lanes \in {1, 4, 8}
         /\ n \in Nat /\ m \in Nat /\ at.col \in Nat /\ at.row \in Nat /\ at.part \in Nat
  <1>1. NormTypes /\ InGroup /\ ~Rope
    BY DEF NormInv, InGroup
  <1>2. GroupsInv /\ PassInv
    BY <1>1 DEF NormInv
  <1>3. PassesShape(kernel.passes)
    BY <1>1, NormShapes DEF NormTypes
  <1>4. at.part \in 1..Len(kernel.passes)
    BY <1>2 DEF PassInv
  <1>5. pass.lanes \in {1, 4, 8} /\ Len(kernel.passes) \in {2, 3}
    BY <1>3, <1>4 DEF PassesShape, PassShape, pass
  <1>6. /\ n \in Nat /\ m \in Nat /\ at.col \in Nat /\ at.row \in Nat /\ at.part \in Nat
    BY <1>1 DEF NormTypes, Counts
  <1> QED BY <1>1, <1>2, <1>3, <1>4, <1>5, <1>6

\* A full vector of a pass keeps the invariant.
LEMMA VectorsStep ==
  ASSUME NormInv, VectorStep
  PROVE  NormInv'
  <1>1. pc = "pass" /\ at.col < Full(n, pass.lanes) /\ Step(pass.lanes)
    BY DEF VectorStep
  <1>2. /\ ~Rope /\ InGroup /\ pass.lanes \in {1, 4, 8} /\ n \in Nat /\ at.col \in Nat
        /\ at.col % pass.lanes = 0
    BY <1>1, PassBasics DEF PassInv
  <1> DEFINE l == pass.lanes
             c == at.col
  <1>3. l \in {1, 4, 8} /\ c \in Nat /\ c % l = 0 /\ c < Full(n, l)
    BY <1>1, <1>2
  <1> HIDE DEF l, c
  <1>4. /\ Full(n, l) \in 0..n /\ c + l <= Full(n, l) /\ (c + l) % l = 0
    BY <1>2, <1>3, FullStep
  <1>5. l \in Nat \ {0} /\ c + l <= n
    BY <1>2, <1>3, <1>4
  <1>6. Step(l)
    BY <1>1 DEF l
  <1> QED BY <1>2, <1>4, <1>5, <1>6, ElementsStep DEF l, c

\* So does a single element of its tail.
LEMMA TailStepKeeps ==
  ASSUME NormInv, TailStep
  PROVE  NormInv'
  <1>1. pc = "rest" /\ at.col < n /\ Step(1)
    BY DEF TailStep
  <1>2. ~Rope /\ InGroup /\ n \in Nat /\ at.col \in Nat
    BY <1>1, PassBasics
  <1>3. 1 \in Nat \ {0} /\ at.col + 1 <= n
    BY <1>1, <1>2
  <1> QED BY <1>1, <1>2, <1>3, ElementsStep

\* So does the end of the vector loop.
LEMMA VectorsEndStep ==
  ASSUME NormInv, VectorsEnd
  PROVE  NormInv'
  <1>1. /\ pc = "pass" /\ pc' = "rest"
        /\ UNCHANGED <<kernel, m, n, held, at, lane, acc, scratch, out>>
    BY DEF VectorsEnd
  <1>2. NormTypes /\ ~Rope /\ GroupsInv /\ PassInv /\ InGroup
    BY <1>1, PassBasics DEF NormInv
  <1>3. NormTypes'
    BY <1>1, <1>2 DEF NormTypes, NormPcs
  <1>4. InGroup' /\ pass' = pass
    BY <1>1 DEF InGroup, pass
  <1>5. GroupsInv'
    BY <1>1, <1>2, <1>4 DEF GroupsInv
  <1>6. PassInv'
    BY <1>1, <1>2, <1>4 DEF PassInv
  <1> QED BY <1>1, <1>2, <1>3, <1>4, <1>5, <1>6 DEF NormInv, Rope

\* The end of a pass that is not the last of its group.
LEMMA NextPass ==
  ASSUME NormInv, PassEnd, at.part < Len(kernel.passes)
  PROVE  NormInv'
  <1> DEFINE r == at.row
             p == at.part
             P == kernel.passes
  <1>1. /\ pc = "rest" /\ pc' = "pass" /\ at.col >= n
        /\ at' = [at EXCEPT !.part = p + 1, !.col = 0]
        /\ lane' = (IF pass.folds THEN Append(lane, acc) ELSE lane) /\ acc' = Zero
        /\ UNCHANGED <<kernel, m, n, held, scratch, out>>
    BY DEF PassEnd
  <1>2. /\ NormTypes /\ ~Rope /\ GroupsInv /\ PassInv /\ InGroup /\ PassesShape(P)
        /\ Len(P) \in {2, 3} /\ p \in 1..Len(P) /\ p \in Nat
    BY <1>1, PassBasics DEF NormInv
  <1>3. /\ n \in Nat /\ m \in Nat /\ at.col \in Nat /\ r \in Nat
    BY <1>1, PassBasics
  <1>4. at'.row = r /\ at'.part = p + 1 /\ at'.col = 0 /\ at' \in Counts
    <2> DEFINE w == p + 1
    <2>1. w \in Nat /\ at \in Counts /\ at' = [at EXCEPT !.part = w, !.col = 0]
      <3>1. w \in Nat
        BY <1>2
      <3>2. at \in Counts
        BY <1>2 DEF NormTypes
      <3>3. at' = [at EXCEPT !.part = w, !.col = 0]
        BY <1>1, Zenon
      <3> QED BY <3>1, <3>2, <3>3, Zenon
    <2> HIDE DEF w
    <2>2. at'.row = r /\ at'.part = w /\ at'.col = 0 /\ at' \in Counts
      BY <2>1 DEF Counts
    <2> QED BY <2>2 DEF w
  <1>5. NormTypes'
    BY <1>1, <1>2, <1>4 DEF NormTypes, NormPcs
  <1>6. InGroup' /\ pass' = P[p + 1] /\ p + 1 \in 1..Len(P)
    BY <1>1, <1>2, <1>4 DEF InGroup, pass
  <1>7. GroupsInv'
    BY <1>1, <1>2, <1>4, <1>6 DEF GroupsInv
  <1>8. PassInv'
    <2> DEFINE S == SeenBy(p, r, n)
               T == StoredBy(P, p, r, n)
               S2 == SeenBy(p + 1, r, n)
               T2 == StoredBy(P, p + 1, r, n)
    <2>1. /\ P[p].folds /\ Append(S, Under(r * n, n, S)) = S2
          /\ ~P[p].stores => T = T2
          /\ P[p].stores => S = T2
      BY <1>2, SumKept
    <2>2. P[p + 1].lanes \in {1, 4, 8}
      BY <1>2, <1>6 DEF PassesShape, PassShape
    <2>3. 0 % P[p + 1].lanes = 0
      BY <2>2
    <2>4. r < m
      BY <1>2 DEF PassInv
    <2>5. ASSUME n # 0
          PROVE  /\ lane' = S2
                 /\ \A i \in 0..n - 1 :
                      out[r * n + i] = [of |-> Cell("old", r * n + i), by |-> T2]
      <3>1. /\ at.col = n /\ lane = S /\ acc = Under(r * n, n, S)
            /\ \A i \in 0..n - 1 :
                 out[r * n + i] = [of |-> Cell("old", r * n + i),
                                   by |-> IF P[p].stores /\ i < at.col THEN S ELSE T]
        <4>1. at.col = n
          BY <1>1, <1>2, <1>3, <2>5 DEF PassInv
        <4> QED BY <1>2, <2>1, <2>5, <4>1 DEF PassInv, pass
      <3>2. lane' = Append(S, Under(r * n, n, S))
        BY <1>1, <2>1, <3>1 DEF pass
      <3>3. P[p].stores \in BOOLEAN
        BY <1>2 DEF PassesShape, PassShape
      <3> HIDE DEF S, T, S2, T2
      <3>4. CASE P[p].stores
        <4>1. \A i \in 0..n - 1 : i < at.col
          BY <1>3, <3>1
        <4> QED BY <2>1, <3>1, <3>2, <3>4, <4>1
      <3>5. CASE ~P[p].stores
        BY <2>1, <3>1, <3>2, <3>5
      <3> QED BY <3>3, <3>4, <3>5
    <2>6. /\ Under(r * n, 0, S2) = Zero
      <3>1. r * n..r * n + 0 - 1 = {}
        BY <1>3
      <3>2. {[of |-> Cell("old", b), by |-> S2] : b \in r * n..r * n + 0 - 1} = {}
        BY <3>1
      <3> QED BY <3>2, SumNone DEF Under
    <2>7. \A i \in 0..n - 1 : ~(i < 0)
      BY <1>3
    <2> QED BY <1>1, <1>2, <1>3, <1>4, <1>6, <2>3, <2>4, <2>5, <2>6, <2>7 DEF PassInv
  <1> QED BY <1>1, <1>2, <1>5, <1>6, <1>7, <1>8 DEF NormInv, Rope

\* The end of the last pass of a group.
LEMMA NextGroup ==
  ASSUME NormInv, PassEnd, ~(at.part < Len(kernel.passes))
  PROVE  NormInv'
  <1> DEFINE r == at.row
             p == at.part
             P == kernel.passes
  <1>1. /\ pc = "rest" /\ pc' = "group" /\ at.col >= n
        /\ at' = [at EXCEPT !.row = r + 1]
        /\ UNCHANGED <<kernel, m, n, held, scratch, out>>
    BY DEF PassEnd
  <1>2. /\ NormTypes /\ ~Rope /\ GroupsInv /\ PassInv /\ InGroup /\ PassesShape(P)
        /\ Len(P) \in {2, 3} /\ p \in 1..Len(P) /\ p \in Nat
    BY <1>1, PassBasics DEF NormInv
  <1>3. /\ n \in Nat /\ m \in Nat /\ at.col \in Nat /\ r \in Nat /\ p = Len(P)
    BY <1>1, <1>2, PassBasics
  <1>4. at'.row = r + 1 /\ at' \in Counts
    <2> DEFINE w == r + 1
    <2>1. w \in Nat /\ at \in Counts /\ at' = [at EXCEPT !.row = w]
      <3>1. w \in Nat
        BY <1>3
      <3>2. at \in Counts
        BY <1>2 DEF NormTypes
      <3>3. at' = [at EXCEPT !.row = w]
        BY <1>1, Zenon
      <3> QED BY <3>1, <3>2, <3>3, Zenon
    <2> HIDE DEF w
    <2>2. at'.row = w /\ at' \in Counts
      BY <2>1 DEF Counts
    <2> QED BY <2>2 DEF w
  <1>5. NormTypes'
    BY <1>1, <1>2, <1>4 DEF NormTypes, NormPcs
  <1>6. ~InGroup' /\ r < m /\ r + 1 <= m
    BY <1>1, <1>2, <1>3 DEF InGroup, PassInv
  <1>7. \A i \in 0..n - 1 :
          out[r * n + i] = [of |-> Cell("old", r * n + i),
                            by |-> StoredBy(P, Len(P) + 1, r, n)]
    <2>1. ASSUME NEW i \in 0..n - 1
          PROVE  out[r * n + i] = [of |-> Cell("old", r * n + i), by |-> SeenBy(p, r, n)]
      <3>1. n # 0 /\ at.col = n /\ i < at.col
        BY <1>1, <1>2, <1>3 DEF PassInv
      <3>2. pass.stores
        BY <1>2, <1>3 DEF PassesShape, pass
      <3> QED BY <1>2, <3>1, <3>2 DEF PassInv
    <2>2. StoredBy(P, Len(P) + 1, r, n) = SeenBy(p, r, n)
      <3>1. Len(P) + 1 > 1 /\ (Len(P) + 1) - 1 = p /\ P[p].stores
        BY <1>2, <1>3 DEF PassesShape
      <3> QED BY <3>1 DEF StoredBy
    <2> QED BY <2>1, <2>2
  <1>8. GroupsInv'
    <2>1. ASSUME NEW s \in 0..(r + 1) - 1, NEW i \in 0..n - 1
          PROVE  out[s * n + i] = [of |-> Cell("old", s * n + i),
                                   by |-> StoredBy(P, Len(P) + 1, s, n)]
      <3>1. CASE s = r
        BY <1>7, <3>1
      <3>2. CASE s # r
        <4>1. s \in 0..r - 1
          BY <1>3, <3>2
        <4> QED BY <1>2, <4>1 DEF GroupsInv
      <3> QED BY <3>1, <3>2
    <2> QED BY <1>1, <1>2, <1>4, <1>6, <2>1 DEF GroupsInv
  <1> QED BY <1>1, <1>2, <1>5, <1>6, <1>8 DEF NormInv, Rope, InGroup

\* The end of the loop over the groups keeps the invariant.
LEMMA GroupsEndStep ==
  ASSUME NormInv, GroupsEnd
  PROVE  NormInv'
  <1>1. /\ pc = "group" /\ pc' = "done" /\ at.row >= m
        /\ UNCHANGED <<kernel, m, n, held, at, lane, acc, scratch, out>>
    BY DEF GroupsEnd
  <1>2. NormTypes /\ ~Rope /\ GroupsInv /\ ~InGroup
    BY <1>1 DEF NormInv, InGroup
  <1>3. NormTypes' /\ ~InGroup'
    BY <1>1, <1>2 DEF NormTypes, NormPcs, InGroup
  <1>4. at.row = m
    BY <1>1, <1>2 DEF GroupsInv, NormTypes, Counts
  <1>5. GroupsInv'
    BY <1>1, <1>2, <1>3, <1>4 DEF GroupsInv
  <1> QED BY <1>1, <1>2, <1>3, <1>5 DEF NormInv, Rope
-----------------------------------------------------------------------------
\* A rotated pair keeps the invariant.
LEMMA RotateStep ==
  ASSUME NormInv, Rotate
  PROVE  NormInv'
  <1> DEFINE k == at.col
             a == 2 * k
             b == 2 * k + 1
             tn == Turn(out[2 * k].of, out[2 * k + 1].of, k)
  <1>1. /\ pc = "norm" /\ Rope /\ k < n \div 2
        /\ out' = [out EXCEPT ![2 * k].of = tn.first, ![2 * k + 1].of = tn.second]
        /\ at' = [at EXCEPT !.col = k + 1]
        /\ UNCHANGED <<kernel, m, n, held, lane, acc, scratch, pc>>
        /\ NormTypes /\ RotateInv
    BY DEF NormInv, Rotate
  <1>2. /\ n \in Nat /\ held = n /\ k \in Nat /\ Guard \in Nat
        /\ DOMAIN out = 0..held + Guard - 1
    BY <1>1, RegistersAssumption DEF NormTypes, Counts, RotateInv
  <1>3. /\ at'.row = at.row /\ at'.col = k + 1 /\ at' \in Counts
    <2> DEFINE w == k + 1
    <2>1. w \in Nat /\ at \in Counts /\ at' = [at EXCEPT !.col = w]
      <3>1. w \in Nat
        BY <1>2
      <3>2. at \in Counts
        BY <1>1 DEF NormTypes
      <3>3. at' = [at EXCEPT !.col = w]
        BY <1>1, Zenon
      <3> QED BY <3>1, <3>2, <3>3, Zenon
    <2> HIDE DEF w
    <2>2. at'.row = at.row /\ at'.col = w /\ at' \in Counts
      BY <2>1 DEF Counts
    <2> QED BY <2>2 DEF w
  <1>4. \A x \in DOMAIN out : out[x] = IF x < 2 * k THEN Rotated(x) ELSE Element(x)
    BY <1>1, <1>2 DEF RotateInv
  <1>5. /\ out' = [[out EXCEPT ![a] = [out[a] EXCEPT !.of = tn.first]]
                      EXCEPT ![b] = [out[b] EXCEPT !.of = tn.second]]
        /\ tn = Turn(out[a].of, out[b].of, k)
    <2>1. a # b
      BY <1>2
    <2>2. out' = [out EXCEPT ![a].of = tn.first, ![b].of = tn.second]
      BY <1>1
    <2> HIDE DEF a, b, tn
    <2>3. [out EXCEPT ![a] = [out[a] EXCEPT !.of = tn.first]][b] = out[b]
      BY <2>1
    <2>4. out' = [[out EXCEPT ![a] = [out[a] EXCEPT !.of = tn.first]]
                     EXCEPT ![b] = [[out EXCEPT ![a] = [out[a] EXCEPT !.of = tn.first]][b]
                                      EXCEPT !.of = tn.second]]
      BY <2>2
    <2> QED BY <2>3, <2>4, Zenon DEF tn, a, b
  <1> HIDE DEF k
  <1>6. /\ a \in DOMAIN out /\ b \in DOMAIN out /\ a # b
        /\ ~(a < 2 * k) /\ ~(b < 2 * k)
        /\ a \div 2 = k /\ b \div 2 = k /\ a % 2 = 0 /\ b % 2 = 1
    <2>1. 2 * k + 1 < n
      BY <1>1, <1>2
    <2>2. /\ a \in 0..held + Guard - 1 /\ b \in 0..held + Guard - 1 /\ a # b
          /\ ~(a < 2 * k) /\ ~(b < 2 * k)
      BY <1>2, <2>1
    <2>3. a \div 2 = k /\ b \div 2 = k /\ a % 2 = 0 /\ b % 2 = 1
      BY <1>2
    <2> QED BY <1>2, <2>2, <2>3
  <1>7. /\ \A x \in Nat : x < 2 * (k + 1) <=> x < 2 * k \/ x = a \/ x = b
        /\ 2 * (k + 1) \in Nat /\ (k + 1 <= n \div 2)
    BY <1>1, <1>2
  <1>8. out[a] = Element(a) /\ out[b] = Element(b)
    BY <1>4, <1>6
  <1> HIDE DEF a, b, tn
  <1>9. tn = Turn(Cell("old", a), Cell("old", b), k)
    <2>1. Element(a).of = Cell("old", a) /\ Element(b).of = Cell("old", b)
      BY DEF Element
    <2> QED BY <1>5, <1>8, <2>1
  <1>10. Rotated(a) = [of |-> tn.first, by |-> <<>>] /\ Rotated(b) = [of |-> tn.second, by |-> <<>>]
    BY <1>6, <1>9 DEF Rotated, a, b
  <1>11. /\ [Element(a) EXCEPT !.of = tn.first] = [of |-> tn.first, by |-> <<>>]
         /\ [Element(b) EXCEPT !.of = tn.second] = [of |-> tn.second, by |-> <<>>]
    BY DEF Element
  <1>12. /\ DOMAIN out' = DOMAIN out /\ out' = [x \in DOMAIN out |-> out'[x]]
         /\ out'[a] = Rotated(a) /\ out'[b] = Rotated(b)
         /\ \A x \in DOMAIN out : x # a /\ x # b => out'[x] = out[x]
    <2> DEFINE u == [out[a] EXCEPT !.of = tn.first]
               v == [out[b] EXCEPT !.of = tn.second]
    <2>1. u = Rotated(a) /\ v = Rotated(b)
      BY <1>8, <1>10, <1>11, Zenon
    <2>2. out' = [[out EXCEPT ![a] = u] EXCEPT ![b] = v]
      BY <1>5
    <2> HIDE DEF u, v
    <2> QED BY <1>6, <2>1, <2>2
  <1>13. ASSUME NEW x \in DOMAIN out
         PROVE  out'[x] = IF x < 2 * (k + 1) THEN Rotated(x) ELSE Element(x)
    <2>1. x \in Nat
      BY <1>2
    <2>2. CASE x = a \/ x = b
      BY <1>7, <1>12, <2>1, <2>2
    <2>3. CASE x # a /\ x # b
      BY <1>4, <1>7, <1>12, <2>1, <2>3
    <2> QED BY <2>2, <2>3
  <1>14. \A x : (Rotated(x))' = Rotated(x)
    BY <1>1 DEF Rotated, Turn
  <1>15. RotateInv'
    BY <1>1, <1>2, <1>3, <1>7, <1>13, <1>14 DEF RotateInv
  <1>16. NormTypes'
    BY <1>1, <1>2, <1>3, <1>12 DEF NormTypes
  <1> QED BY <1>1, <1>15, <1>16 DEF NormInv, Rope

\* So does the end of the rotation.
LEMMA RotateEndStep ==
  ASSUME NormInv, RotateEnd
  PROVE  NormInv'
  <1>1. /\ pc = "norm" /\ Rope /\ at.col >= n \div 2 /\ pc' = "done"
        /\ UNCHANGED <<kernel, m, n, held, at, lane, acc, scratch, out>>
        /\ NormTypes /\ RotateInv
    BY DEF NormInv, RotateEnd
  <1>2. at.col = n \div 2
    BY <1>1 DEF NormTypes, Counts, RotateInv
  <1>3. \A x : (Rotated(x))' = Rotated(x)
    BY <1>1 DEF Rotated, Turn
  <1>4. RotateInv' /\ NormTypes'
    BY <1>1, <1>2, <1>3 DEF RotateInv, NormTypes, NormPcs
  <1> QED BY <1>1, <1>4 DEF NormInv, Rope

\* Every step keeps the invariant.
LEMMA NStepKeeps ==
  ASSUME NInv, [Next]_vars
  PROVE  NInv'
  <1>1. CASE UNCHANGED vars
    <2>1. \A x : (Rotated(x))' = Rotated(x)
      BY <1>1 DEF Rotated, Turn, vars
    <2>2. UNCHANGED <<kernel, m, n, held, at, lane, acc, out, pc>>
      BY <1>1 DEF vars
    <2>3. InGroup' = InGroup /\ pass' = pass /\ Rope' = Rope
      BY <2>2 DEF InGroup, pass, Rope
    <2>4. NormTypes' = NormTypes
      BY <2>2 DEF NormTypes
    <2>5. GroupsInv' = GroupsInv
      BY <2>2, <2>3 DEF GroupsInv
    <2>6. PassInv' = PassInv
      BY <2>2, <2>3 DEF PassInv
    <2>7. RotateInv' = RotateInv
      BY <2>1, <2>2 DEF RotateInv
    <2> QED BY <2>2, <2>3, <2>4, <2>5, <2>6, <2>7 DEF NInv, NormInv
  <1>2. CASE Next
    <2>1. kernel' = kernel
      BY <1>2, MatrixPlaces, ConvPlaces, NormPlaces DEF Next
    <2>2. SUFFICES ASSUME kernel \in NormKernels PROVE NormInv'
      BY <2>1 DEF NInv
    <2>3. NormInv /\ pc \in NormPcs
      BY <2>2 DEF NInv, NormInv, NormTypes
    <2>4. NormNext
      BY <1>2, <2>3, MatrixPlaces, ConvPlaces DEF Next, NormPcs
    <2> QED BY <2>3, <2>4, DivideStep, GroupStep, GroupsEndStep, VectorsStep, VectorsEndStep,
               TailStepKeeps, NextPass, NextGroup, RotateStep, RotateEndStep DEF NormNext
  <1> QED BY <1>1, <1>2

\* The invariant at the end is the property.
LEMMA NormDone ==
  ASSUME NInv
  PROVE  GroupsRight
  <1> SUFFICES ASSUME kernel \in NormKernels, pc = "done", NEW a \in DOMAIN out
               PROVE  out[a] = CASE ~Rope /\ a < m * n         -> Normalised(a)
                                 [] Rope /\ a < 2 * (n \div 2) -> Rotated(a)
                                 [] OTHER                      -> Element(a)
    BY DEF GroupsRight
  <1>1. NormInv /\ NormTypes
    BY DEF NInv, NormInv
  <1>2. /\ DOMAIN out = 0..held + Guard - 1 /\ a \in Nat /\ n \in Nat /\ m \in Nat /\ held \in Nat
    BY <1>1, RegistersAssumption DEF NormTypes
  <1>3. CASE Rope
    BY <1>1, <1>2, <1>3 DEF NormInv, RotateInv
  <1>4. CASE ~Rope
    <2> DEFINE P == kernel.passes
    <2>1. GroupsInv /\ ~InGroup /\ at.row = m /\ PassesShape(P)
      BY <1>1, <1>4, NormShapes DEF NormInv, InGroup, GroupsInv
    <2>2. CASE a < m * n
      <3> DEFINE g == a \div n
                 i == a % n
      <3>1. n \in Nat \ {0} /\ g \in Nat /\ g < m
        BY <1>2, <2>2, DivBelow
      <3>2. i \in 0..n - 1 /\ a = g * n + i
        BY <1>2, <3>1, PlaceOf
      <3> HIDE DEF i
      <3>3. out[a] = [of |-> Cell("old", a), by |-> StoredBy(P, Len(P) + 1, g, n)]
        <4> HIDE DEF g
        <4>1. g \in 0..at.row - 1
          BY <1>2, <2>1, <3>1
        <4>2. out[g * n + i] = [of |-> Cell("old", g * n + i),
                                by |-> StoredBy(P, Len(P) + 1, g, n)]
          BY <2>1, <3>2, <4>1 DEF GroupsInv
        <4> QED BY <3>2, <4>2
      <3>4. First(g, n) = GroupUnder(a, <<>>)
        BY DEF First, Under, GroupUnder
      <3>5. Second(g, n) = GroupUnder(a, <<GroupUnder(a, <<>>)>>)
        BY <3>4 DEF Second, Under, GroupUnder
      <3>6. StoredBy(P, Len(P) + 1, g, n) = SeenBy(Len(P), g, n)
        <4>1. Len(P) + 1 > 1 /\ (Len(P) + 1) - 1 = Len(P) /\ P[Len(P)].stores
          BY <2>1 DEF PassesShape
        <4> QED BY <4>1 DEF StoredBy
      <3>7. Len(P) = IF kernel = arr_f32_rmsnorm THEN 2 ELSE 3
        BY <1>4, PassCounts
      <3>8. SeenBy(Len(P), g, n) = IF kernel = arr_f32_rmsnorm THEN <<First(g, n)>>
                                   ELSE <<First(g, n), Second(g, n)>>
        BY <3>7 DEF SeenBy
      <3> QED BY <1>4, <2>2, <3>3, <3>4, <3>5, <3>6, <3>8 DEF Normalised
    <2>3. CASE ~(a < m * n)
      <3>1. a >= m * n
        BY <1>2, <2>3
      <3>2. out[a] = Element(a)
        BY <1>2, <2>1, <3>1 DEF GroupsInv
      <3> QED BY <1>4, <2>3, <3>2
    <2> QED BY <2>2, <2>3
  <1> QED BY <1>3, <1>4

\* GroupsRight: for arrays and groups of every length, each normalised element
\* is under sums of exactly its own group, and leftovers are left alone
\* (arr_f64_softmax to arr_f32_rope_apply_pairs).
THEOREM GroupsAreRight == Spec => []GroupsRight
  <1>1. Init => NInv
    BY NormStart, Families DEF Init, NInv, MatrixInit, ConvInit
  <1>2. NInv /\ [Next]_vars => NInv'
    BY NStepKeeps
  <1> QED BY <1>1, <1>2, NormDone, PTL DEF Spec
-----------------------------------------------------------------------------
\* The place of pixel (y, x) of channel c in images of side s.
Spot(c, y, x, s) == c * (s * s) + y * s + x

\* The nine products of each input channel in I for pixel (y, x) of output
\* channel c, with k input channels and the factors f of every product.
Tap(c, i, dy, dx, y, x, k, s) ==
  {Cell("W", 9 * (c * k + i) + 3 * dy + dx),
   Cell("in", i * (s + 2) * (s + 2) + (y + dy) * (s + 2) + x + dx)}

Channels(c, y, x, I, k, s, f) ==
  {Tap(c, i, dy, dx, y, x, k, s) \cup f : i \in I, dy \in 0..2, dx \in 0..2}

\* The pixel when the first p input channels are in it.
Upto(c, y, x, p, k, s, f) ==
  Sum({{Cell("bias", c)}} \cup Channels(c, y, x, 0..p - 1, k, s, f))

ConvPcs   == {"conv", "exit", "fault", "channel", "fill", "weights", "y", "x", "done"}
Untouched == pc \in {"conv", "exit", "fault"}
InChannel == pc \in {"fill", "weights", "y", "x"}

ConvTypes ==
  /\ kernel \in ConvKernels /\ pc \in ConvPcs
  /\ n \in Nat /\ m \in Nat /\ held \in Nat
  /\ at \in Counts /\ at.side \in Sides
  /\ out = [a \in 0..m * Image + Guard - 1 |-> out[a]]

\* The loop over the output channels.
ChannelsInv ==
  /\ WeightsNeed <= held /\ at.row <= m
  /\ pc = "done" => at.row = m
  /\ \A c \in 0..at.row - 1, y \in 0..Side - 1, x \in 0..Side - 1 :
       out[Spot(c, y, x, Side)] = Upto(c, y, x, n, n, Side, Scale)
  /\ \A a \in 0..m * Image + Guard - 1 :
       a >= (IF InChannel THEN at.row + 1 ELSE at.row) * Image => out[a] = Old(a)

\* A multi kernel's bias.
FillInv ==
  /\ kernel.multi /\ at.part = 0
  /\ at.col % kernel.lanes = 0 /\ at.col <= Image
  /\ \A y \in 0..Side - 1, x \in 0..Side - 1 :
       y * Side + x < at.col =>
         out[Spot(at.row, y, x, Side)] = Upto(at.row, y, x, 0, n, Side, Scale)

\* Whether the current input channel is in pixel (y, x).
Past(p, i, j, y, x) == p \in {"y", "x"} /\ (y < i \/ (p = "x" /\ y = i /\ x < j))

\* One output channel: the weights in the registers, the pixels.
PlaneInv ==
  /\ at.part <= n
  /\ pc \in {"y", "x"} =>
       /\ at.part < n /\ at.y <= Side
       /\ lane = [j \in 0..8 |-> {Cell("W", 9 * (at.row * n + at.part) + j)} \cup Scale]
  /\ pc = "x" => at.y < Side /\ at.col % kernel.lanes = 0 /\ at.col <= RowLimit
  /\ \A y \in 0..Side - 1, x \in 0..Side - 1 :
       IF Past(pc, at.y, at.col, y, x)
       THEN out[Spot(at.row, y, x, Side)] = Upto(at.row, y, x, at.part + 1, n, Side, Scale)
       ELSE kernel.multi \/ at.part > 0 =>
              out[Spot(at.row, y, x, Side)] = Upto(at.row, y, x, at.part, n, Side, Scale)

ConvInv ==
  /\ ConvTypes
  /\ ~kernel.multi => n = 1
  /\ pc = "conv" /\ ~Checked => held \in {WeightsNeed, WeightsNeed + 1}
  /\ Untouched => at.row = 0 /\ \A a \in 0..m * Image + Guard - 1 : out[a] = Old(a)
  /\ ~Untouched => ChannelsInv
  /\ InChannel => at.row < m
  /\ pc = "fill" => FillInv
  /\ pc \in {"weights", "y", "x"} => PlaneInv

CInv == kernel \in ConvKernels => ConvInv
-----------------------------------------------------------------------------
\* What the kernels of the family have in common.
LEMMA ConvShapes ==
  ASSUME kernel \in ConvKernels
  PROVE  /\ kernel.lanes \in {4, 8} /\ kernel.multi \in BOOLEAN
         /\ Checked => ~kernel.multi /\ ~Derived
         /\ Derived => kernel.multi
  <1>1. kernel.lanes \in {4, 8} /\ kernel.multi \in BOOLEAN
    <2>1. ASSUME NEW l, NEW b, NEW w, kernel = ConvShape(l, b, w)
          PROVE  kernel.lanes = l /\ kernel.multi = b
      BY <2>1 DEF ConvShape
    <2>2. \E l \in {4, 8}, b \in BOOLEAN : \E w : kernel = ConvShape(l, b, w)
      BY Zenon DEF ConvKernels, arr_f64_conv2d_3x3_p1, arr_f32_conv2d_3x3_p1,
         arr_i8_conv2d_3x3_p1, arr_f64_conv2d_3x3_p1_multi, arr_f32_conv2d_3x3_p1_multi,
         arr_i8_conv2d_3x3_p1_multi
    <2> QED BY <2>1, <2>2
  <1>2. ~arr_i8_conv2d_3x3_p1.multi /\ arr_i8_conv2d_3x3_p1_multi.multi
    BY DEF ConvShape, arr_i8_conv2d_3x3_p1, arr_i8_conv2d_3x3_p1_multi
  <1> QED BY <1>1, <1>2, Zenon DEF Checked, Derived

\* Rows and planes are full vectors, but for the last four pixels of a row.
LEMMA SideFacts ==
  ASSUME NEW s \in Sides
  PROVE  /\ s \in Nat /\ s >= 4 /\ s * s \in Nat
         /\ Full(s, 4) = s /\ Full(s, 8) = s - 4
         /\ (s * s) % 4 = 0 /\ (s * s) % 8 = 0
  <1>1. s \in Nat /\ s % 8 = 4 /\ s >= 4
    BY RegistersAssumption
  <1>2. s % 4 = 0
    BY <1>1
  <1> DEFINE q == s \div 8
  <1>3. q \in Nat /\ s = 8 * q + 4
    BY <1>1
  <1> HIDE DEF q
  <1>4. s * s = 8 * (8 * (q * q) + 8 * q + 2) /\ q * q \in Nat
    BY <1>3
  <1> DEFINE z == 8 * (q * q) + 8 * q + 2
  <1>5. z \in Nat /\ s * s = 8 * z
    BY <1>3, <1>4
  <1> HIDE DEF z
  <1>6. (8 * z) % 4 = 0 /\ (8 * z) % 8 = 0 /\ 8 * z \in Nat
    BY <1>5
  <1> QED BY <1>1, <1>2, <1>5, <1>6 DEF Full

\* Where a pixel is in its image.
LEMMA SpotInRow ==
  ASSUME NEW s \in Nat, NEW y \in 0..s - 1, NEW x \in 0..s - 1
  PROVE  y * s + x \in 0..s * s - 1
  <1>1. y * s + x \in Nat /\ y * s + x < s * s
    BY PlaceBelow
  <1>2. s * s \in Nat
    OBVIOUS
  <1> QED BY <1>1, <1>2

\* Every pixel has a place of its own, within its channel.
LEMMA SpotFacts ==
  ASSUME NEW s \in Nat, NEW c \in Nat, NEW y \in 0..s - 1, NEW x \in 0..s - 1
  PROVE  /\ Spot(c, y, x, s) \in Nat
         /\ Spot(c, y, x, s) >= c * (s * s)
         /\ \A d \in Nat : c < d => Spot(c, y, x, s) < d * (s * s)
         /\ \A d \in Nat, z \in 0..s - 1, w \in 0..s - 1 :
              Spot(c, y, x, s) = Spot(d, z, w, s) => c = d /\ y = z /\ x = w
  <1> DEFINE k == s * s
             i == y * s + x
  <1>1. k \in Nat /\ i \in 0..k - 1
    BY SpotInRow
  <1>2. Spot(c, y, x, s) = c * k + i
    BY <1>1 DEF Spot
  <1>3. \A d \in Nat, z \in 0..s - 1, w \in 0..s - 1 :
          Spot(c, y, x, s) = Spot(d, z, w, s) => c = d /\ y = z /\ x = w
    <2> TAKE d \in Nat, z \in 0..s - 1, w \in 0..s - 1
    <2> HAVE Spot(c, y, x, s) = Spot(d, z, w, s)
    <2> DEFINE j == z * s + w
    <2>1. j \in 0..k - 1
      BY SpotInRow
    <2>2. Spot(d, z, w, s) = d * k + j
      BY <1>1, <2>1 DEF Spot
    <2> HIDE DEF i, j, k
    <2>3. c = d /\ i = j
      BY <1>1, <1>2, <2>1, <2>2, SamePlace
    <2>4. y * s + x = z * s + w
      BY <2>3 DEF i, j
    <2>5. y \in Nat /\ z \in Nat
      OBVIOUS
    <2>6. y = z /\ x = w
      BY <2>4, <2>5, SamePlace
    <2> QED BY <2>3, <2>6
  <1> HIDE DEF i, k
  <1>4. \A d \in Nat : c < d => c * k + i < d * k
    BY <1>1, PlaceBelow
  <1>5. c * k \in Nat
    BY <1>1
  <1>6. c * k + i \in Nat /\ c * k + i >= c * k
    BY <1>1, <1>5
  <1> QED BY <1>2, <1>3, <1>4, <1>6 DEF k

\* Every place below m planes is a pixel's.
LEMMA SpotOf ==
  ASSUME NEW s \in Nat, NEW d \in Nat, NEW a \in Nat, a < d * (s * s)
  PROVE  LET c == a \div (s * s)
             y == (a % (s * s)) \div s
             x == a % s IN
         /\ c \in 0..d - 1 /\ y \in 0..s - 1 /\ x \in 0..s - 1
         /\ a = Spot(c, y, x, s)
  <1> DEFINE k == s * s
             c == a \div k
             i == a % k
             y == i \div s
             x == i % s
  <1>1. k \in Nat \ {0} /\ c \in Nat /\ c < d
    <2>1. k \in Nat /\ a < d * k
      OBVIOUS
    <2> HIDE DEF k
    <2> QED BY <2>1, DivBelow
  <1>2. i \in 0..k - 1 /\ a = c * k + i
    <2> HIDE DEF k
    <2> QED BY <1>1, PlaceOf
  <1>3. s # 0
    BY <1>1
  <1>4. y \in Nat /\ y < s /\ x \in 0..s - 1 /\ i = y * s + x
    <2>1. i \in Nat /\ i < s * s
      BY <1>1, <1>2
    <2> HIDE DEF i
    <2> QED BY <1>3, <2>1, DivBelow, PlaceOf
  <1>5. a = Spot(c, y, x, s)
    <2>1. c * k \in Nat /\ y * s \in Nat
      BY <1>1, <1>4
    <2> HIDE DEF c, y, x, i
    <2> QED BY <1>2, <1>4, <2>1 DEF Spot
  <1>6. a % s = x
    <2> DEFINE q == a \div s
               t == a % s
               v == c * s + y
    <2>1. q \in Nat /\ t \in 0..s - 1 /\ a = q * s + t
      BY <1>3, PlaceOf
    <2>2. v \in Nat /\ v * s = (c * s) * s + y * s /\ (c * s) * s = c * (s * s)
      <3> HIDE DEF c, y
      <3> QED BY <1>1, <1>4
    <2>3. a = v * s + x
      <3> HIDE DEF c, y, x, i, v
      <3>1. a = c * (s * s) + y * s + x
        BY <1>5 DEF Spot
      <3>2. c * (s * s) \in Nat /\ y * s \in Nat
        BY <1>1, <1>4
      <3> QED BY <1>4, <2>2, <3>1, <3>2
    <2>6. v \in Nat
      BY <2>2
    <2> HIDE DEF q, t, v, x, y, c, i, k
    <2>4. q * s + t = v * s + x /\ x \in 0..s - 1
      BY <1>4, <2>1, <2>3
    <2>5. t = x
      <3>1. \A a1, a2 \in Nat, b1, b2 \in 0..s - 1 : a1 * s + b1 = a2 * s + b2 => b1 = b2
        BY SamePlace
      <3> QED BY <2>1, <2>4, <2>6, <3>1
    <2> QED BY <2>5 DEF t
  <1>7. c \in 0..d - 1 /\ y \in 0..s - 1
    BY <1>1, <1>4
  <1> HIDE DEF x
  <1> QED BY <1>4, <1>5, <1>6, <1>7
-----------------------------------------------------------------------------
Factors == {{}, {Cell("scale", 0)}}

\* The factors of every product of a call: a scale or none.
LEMMA ScaleIs == Scale \in Factors
  BY DEF Scale, Factors

\* Products of different input channels differ, and none is the bias.
LEMMA TapDiffers ==
  ASSUME NEW c \in Nat, NEW k \in Nat, NEW y, NEW x, NEW s, NEW f \in Factors,
         NEW i \in Nat, NEW j \in Nat,
         NEW dy \in 0..2, NEW dx \in 0..2, NEW ey \in 0..2, NEW ex \in 0..2
  PROVE  /\ Tap(c, i, dy, dx, y, x, k, s) \cup f = Tap(c, j, ey, ex, y, x, k, s) \cup f
              => i = j
         /\ Tap(c, i, dy, dx, y, x, k, s) \cup f # {Cell("bias", c)}
  <1> DEFINE u == 9 * (c * k + i) + 3 * dy + dx
             v == 9 * (c * k + j) + 3 * ey + ex
             h(t, dyy, dxx) == t * (s + 2) * (s + 2) + (y + dyy) * (s + 2) + x + dxx
             a == h(i, dy, dx)
             b == h(j, ey, ex)
  <1>1. /\ Tap(c, i, dy, dx, y, x, k, s) = {Cell("W", u), Cell("in", a)}
        /\ Tap(c, j, ey, ex, y, x, k, s) = {Cell("W", v), Cell("in", b)}
    BY Zenon DEF Tap
  <1>2. u = v => i = j
    <2> DEFINE w == c * k
    <2>1. w \in Nat /\ u = 9 * (w + i) + 3 * dy + dx /\ v = 9 * (w + j) + 3 * ey + ex
      OBVIOUS
    <2> HIDE DEF w, u, v
    <2> QED BY <2>1
  <1> HIDE DEF u, v, a, b
  <1>3. /\ Cell("W", u) = Cell("W", v) => u = v
        /\ Cell("W", u) # Cell("in", b) /\ Cell("W", u) # Cell("bias", c)
        /\ Cell("W", u) \notin f
    BY DEF Cell, Factors
  <1>4. ASSUME {Cell("W", u), Cell("in", a)} \cup f = {Cell("W", v), Cell("in", b)} \cup f
        PROVE  u = v
    <2>1. Cell("W", u) \in {Cell("W", v), Cell("in", b)} \cup f
      BY <1>4, Zenon
    <2> QED BY <1>3, <2>1, Zenon
  <1>5. {Cell("W", u), Cell("in", a)} \cup f # {Cell("bias", c)}
    <2>1. Cell("W", u) \in {Cell("W", u), Cell("in", a)} \cup f
      OBVIOUS
    <2> QED BY <1>3, <2>1, Zenon
  <1> QED BY <1>1, <1>2, <1>4, <1>5

\* What it is to be a product of the input channels I.
LEMMA InChannels ==
  ASSUME NEW c, NEW y, NEW x, NEW I, NEW k, NEW s, NEW f, NEW e
  PROVE  e \in Channels(c, y, x, I, k, s, f) <=>
           \E i \in I, dy \in 0..2, dx \in 0..2 : e = Tap(c, i, dy, dx, y, x, k, s) \cup f
  BY DEF Channels

\* One more input channel.
LEMMA UptoMore ==
  ASSUME NEW c \in Nat, NEW k \in Nat, NEW y, NEW x, NEW s, NEW f \in Factors, NEW p \in Nat
  PROVE  Upto(c, y, x, p, k, s, f) (+) Sum(Channels(c, y, x, {p}, k, s, f))
           = Upto(c, y, x, p + 1, k, s, f)
  <1> DEFINE A == {{Cell("bias", c)}} \cup Channels(c, y, x, 0..p - 1, k, s, f)
             B == Channels(c, y, x, {p}, k, s, f)
             C == {{Cell("bias", c)}} \cup Channels(c, y, x, 0..(p + 1) - 1, k, s, f)
  <1>1. A \cap B = {}
    <2> SUFFICES ASSUME NEW e \in A, e \in B PROVE FALSE
      OBVIOUS
    <2>1. PICK dy \in 0..2, dx \in 0..2 : e = Tap(c, p, dy, dx, y, x, k, s) \cup f
      BY InChannels
    <2>2. CASE e = {Cell("bias", c)}
      BY <2>1, <2>2, TapDiffers
    <2>3. CASE e \in Channels(c, y, x, 0..p - 1, k, s, f)
      <3>1. PICK i \in 0..p - 1, ey \in 0..2, ex \in 0..2 :
                 e = Tap(c, i, ey, ex, y, x, k, s) \cup f
        BY <2>3, InChannels
      <3>2. i \in Nat /\ i # p
        OBVIOUS
      <3>3. Tap(c, i, ey, ex, y, x, k, s) \cup f = Tap(c, p, dy, dx, y, x, k, s) \cup f
        BY <2>1, <3>1
      <3>4. i = p
        BY <3>2, <3>3, TapDiffers
      <3> QED BY <3>2, <3>4
    <2> QED BY <2>2, <2>3
  <1>2. A \cup B = C
    <2>1. 0..(p + 1) - 1 = (0..p - 1) \cup {p}
      OBVIOUS
    <2>2. ASSUME NEW I, NEW J
          PROVE  Channels(c, y, x, I \cup J, k, s, f)
                   = Channels(c, y, x, I, k, s, f) \cup Channels(c, y, x, J, k, s, f)
      <3>1. ASSUME NEW e
            PROVE  e \in Channels(c, y, x, I \cup J, k, s, f) <=>
                     e \in Channels(c, y, x, I, k, s, f) \/ e \in Channels(c, y, x, J, k, s, f)
        BY InChannels
      <3> QED BY <3>1
    <2>3. Channels(c, y, x, 0..(p + 1) - 1, k, s, f)
            = Channels(c, y, x, 0..p - 1, k, s, f) \cup Channels(c, y, x, {p}, k, s, f)
      BY <2>1, <2>2
    <2> QED BY <2>3
  <1> HIDE DEF A, B, C
  <1>3. Sum(A) (+) Sum(B) = Sum(C)
    BY <1>1, <1>2, SumUnion
  <1> QED BY <1>3 DEF A, B, C, Upto

\* With no input channel the pixel is the bias; with all, the definition.
LEMMA UptoNone ==
  \A c, y, x, k, s, f : Upto(c, y, x, 0, k, s, f) = Only({Cell("bias", c)})
  <1> TAKE c, y, x, k, s, f
  <1>1. 0..0 - 1 = {}
    OBVIOUS
  <1>2. Channels(c, y, x, 0..0 - 1, k, s, f) = {}
    BY <1>1 DEF Channels
  <1> QED BY <1>2, OnlySum DEF Upto

\* The pixel with all its input channels is the expected one.
LEMMA UptoAll ==
  ASSUME n \in Nat, NEW c \in Nat, NEW y, NEW x
  PROVE  ExpectedPixel(c, y, x) = Upto(c, y, x, n, n, Side, Scale)
  <1> DEFINE A == {{Cell("bias", c)}}
             B == Channels(c, y, x, 0..n - 1, n, Side, Scale)
  <1>1. A \cap B = {}
    <2>1. ASSUME {Cell("bias", c)} \in B PROVE FALSE
      <3> DEFINE e == {Cell("bias", c)}
      <3>3. e \in B
        BY <2>1
      <3> HIDE DEF e
      <3>1. PICK i \in 0..n - 1, dy \in 0..2, dx \in 0..2 :
                 e = Tap(c, i, dy, dx, y, x, n, Side) \cup Scale
        BY <3>3, InChannels
      <3>2. i \in Nat
        OBVIOUS
      <3> QED BY <3>1, <3>2, ScaleIs, TapDiffers DEF e
    <2> QED BY <2>1
  <1>2. ExpectedPixel(c, y, x) = Only({Cell("bias", c)}) (+) Sum(B)
    BY DEF ExpectedPixel, Channels, Tap
  <1> HIDE DEF B
  <1>3. Sum(A) (+) Sum(B) = Sum(A \cup B)
    BY <1>1, SumUnion
  <1> QED BY <1>2, <1>3, OnlySum DEF Upto, B
-----------------------------------------------------------------------------
\* The invariant holds when the call begins.
LEMMA ConvStart ==
  ASSUME ConvInit
  PROVE  ConvInv
  <1>1. PICK side \in Sides :
          /\ at = [Counters EXCEPT !.side = side]
          /\ out = [a \in 0..m * side * side + Guard - 1 |-> Old(a)]
    BY DEF ConvInit
  <1>2. /\ kernel \in ConvKernels /\ m \in 0..MaxRows /\ pc = "conv"
        /\ n \in IF kernel.multi THEN 0..MaxRows ELSE {1}
    BY DEF ConvInit
  <1>3. kernel.multi \in BOOLEAN /\ (Checked => ~Derived)
    BY <1>2, ConvShapes
  <1>4. m \in Nat /\ n \in Nat /\ (~kernel.multi => n = 1)
    BY <1>2, <1>3, RegistersAssumption
  <1>5. side \in Nat /\ m * side * side = m * (side * side)
    BY <1>4, SideFacts
  <1>6. at \in Counts /\ at.side = side /\ at.row = 0
    <2> HIDE DEF Cell
    <2>1. Counters \in Counts /\ Counters.row = 0
      BY DEF Counters, Counts
    <2> QED BY <1>1, <1>5, <2>1 DEF Counts
  <1>7. held \in Nat /\ (~Checked => held \in {WeightsNeed, WeightsNeed + 1})
    <2> DEFINE w == WeightsNeed
    <2>1. w \in Nat
      BY <1>4 DEF WeightsNeed
    <2>2. held \in CASE Checked -> {w, w + 1, w - 1} \cap Nat
                     [] Derived -> {w, w + 1}
                     [] OTHER   -> {w}
      BY DEF ConvInit
    <2> HIDE DEF w
    <2>3. CASE Checked
      BY <1>3, <2>1, <2>2, <2>3
    <2>4. CASE ~Checked /\ Derived
      BY <2>1, <2>2, <2>4 DEF w
    <2>5. CASE ~Checked /\ ~Derived
      BY <2>1, <2>2, <2>5 DEF w
    <2> QED BY <2>3, <2>4, <2>5
  <1>8. out = [a \in 0..m * Image + Guard - 1 |-> Old(a)]
    BY <1>1, <1>5, <1>6 DEF Image, Side
  <1>9. \A a \in 0..m * Image + Guard - 1 : out[a] = Old(a)
    BY <1>8
  <1>10. out = [a \in 0..m * Image + Guard - 1 |-> out[a]]
    BY <1>8
  <1>11. ConvTypes
    BY <1>2, <1>4, <1>6, <1>7, <1>10 DEF ConvTypes, ConvPcs
  <1> QED BY <1>2, <1>4, <1>6, <1>7, <1>9, <1>11 DEF ConvInv, Untouched, InChannel

\* The refusal of too short weights keeps the invariant.
LEMMA RefuseWeightsStep ==
  ASSUME ConvInv, RefuseWeights
  PROVE  ConvInv'
  <1>1. /\ pc = "conv" /\ pc' = "exit"
        /\ UNCHANGED <<kernel, m, n, held, at, lane, acc, scratch, out>>
    BY DEF RefuseWeights
  <1>2. Image' = Image /\ WeightsNeed' = WeightsNeed
    BY <1>1 DEF Image, Side, WeightsNeed
  <1>3. ConvTypes'
    BY <1>1, <1>2 DEF ConvInv, ConvTypes, ConvPcs
  <1> QED BY <1>1, <1>2, <1>3 DEF ConvInv, Untouched, InChannel

\* So does the start of a multi kernel.
LEMMA BeginChannelsStep ==
  ASSUME ConvInv, BeginChannels
  PROVE  ConvInv'
  <1>1. /\ pc = "conv" /\ pc' = "channel" /\ (Checked => WeightsNeed <= held)
        /\ UNCHANGED <<kernel, m, n, held, at, lane, acc, scratch, out>>
    BY DEF BeginChannels
  <1>2. Image' = Image /\ WeightsNeed' = WeightsNeed
    BY <1>1 DEF Image, Side, WeightsNeed
  <1>3. ConvTypes'
    BY <1>1, <1>2 DEF ConvInv, ConvTypes, ConvPcs
  <1>4. Untouched /\ ~Untouched' /\ ~InChannel'
    BY <1>1 DEF Untouched, InChannel
  <1>5. WeightsNeed \in Nat /\ WeightsNeed <= held
    <2>1. WeightsNeed \in Nat
      BY DEF WeightsNeed, ConvInv, ConvTypes
    <2> QED BY <1>1, <2>1 DEF ConvInv
  <1>6. at.row = 0 /\ m \in Nat /\ \A a \in 0..m * Image + Guard - 1 : out[a] = Old(a)
    BY <1>4 DEF ConvInv, ConvTypes
  <1>7. 0..at.row - 1 = {}
    BY <1>6
  <1>8. ChannelsInv'
    BY <1>1, <1>2, <1>4, <1>5, <1>6, <1>7 DEF ChannelsInv
  <1> QED BY <1>1, <1>2, <1>3, <1>4, <1>8 DEF ConvInv

\* The length of W gives back the number of input channels.
LEMMA DeriveStep ==
  ASSUME ConvInv, Derive
  PROVE  ConvInv'
  <1>1. /\ pc = "conv" /\ Derived
        /\ IF m = 0 THEN pc' = "fault" /\ n' = n
                    ELSE pc' = "channel" /\ n' = held \div (9 * m)
        /\ UNCHANGED <<kernel, m, held, at, lane, acc, scratch, out>>
    BY DEF Derive
  <1>2. ConvTypes /\ Untouched /\ ~Checked
    BY <1>1, ConvShapes DEF ConvInv, ConvTypes, Untouched
  <1>3. /\ m \in Nat /\ n \in Nat /\ held \in {WeightsNeed, WeightsNeed + 1} /\ at.row = 0
        /\ WeightsNeed = (9 * m) * n /\ WeightsNeed \in Nat
        /\ \A a \in 0..m * Image + Guard - 1 : out[a] = Old(a)
    BY <1>1, <1>2 DEF ConvInv, ConvTypes, WeightsNeed
  <1>4. n' = n
    <2> DEFINE k == 9 * m
               q == held \div k
               t == held % k
               e == held - n * k
    <2>1. CASE m = 0
      BY <1>1, <2>1
    <2>2. CASE m # 0
      <3>1. k \in Nat \ {0} /\ k >= 9 /\ n * k = WeightsNeed
        BY <1>3, <2>2
      <3>2. n * k \in Nat /\ e \in {0, 1} /\ held \in Nat /\ held = n * k + e
        BY <1>3, <3>1
      <3> HIDE DEF k
      <3>3. q \in Nat /\ t \in 0..k - 1 /\ held = q * k + t
        BY <3>1, <3>2, PlaceOf
      <3> HIDE DEF q, t, e
      <3>4. e \in 0..k - 1 /\ q * k + t = n * k + e
        BY <3>1, <3>2, <3>3
      <3>5. q = n
        BY <1>3, <3>1, <3>3, <3>4, SamePlace
      <3> QED BY <1>1, <2>2, <3>5 DEF q, k
    <2> QED BY <2>1, <2>2
  <1>5. Image' = Image /\ WeightsNeed' = WeightsNeed /\ ConvTypes'
    BY <1>1, <1>2, <1>4 DEF Image, Side, WeightsNeed, ConvTypes, ConvPcs
  <1>6. ~Untouched' => ChannelsInv' /\ ~InChannel'
    <2> SUFFICES ASSUME ~Untouched' PROVE ChannelsInv' /\ ~InChannel'
      OBVIOUS
    <2>1. pc' = "channel"
      BY <1>1 DEF Untouched
    <2>2. ~InChannel'
      BY <2>1 DEF InChannel
    <2>3. 0..at.row - 1 = {} /\ WeightsNeed <= held
      BY <1>3
    <2> QED BY <1>1, <1>3, <1>4, <1>5, <2>1, <2>2, <2>3 DEF ChannelsInv
  <1>7. pc' \in {"fault", "channel"}
    BY <1>1
  <1>8. ~InChannel'
    BY <1>7 DEF InChannel
  <1> QED BY <1>1, <1>2, <1>3, <1>4, <1>5, <1>6, <1>7, <1>8 DEF ConvInv, Untouched

\* So does the end of the loop over the output channels.
LEMMA ChannelsEndStep ==
  ASSUME ConvInv, ChannelsEnd
  PROVE  ConvInv'
  <1>1. /\ pc = "channel" /\ pc' = "done" /\ at.row >= m
        /\ UNCHANGED <<kernel, m, n, held, at, lane, acc, scratch, out>>
    BY DEF ChannelsEnd
  <1>2. Image' = Image /\ Side' = Side /\ WeightsNeed' = WeightsNeed /\ Scale' = Scale
    BY <1>1 DEF Image, Side, WeightsNeed, Scale
  <1>3. /\ ConvTypes /\ ChannelsInv /\ ~Untouched' /\ ~InChannel /\ ~InChannel'
    BY <1>1 DEF ConvInv, Untouched, InChannel
  <1>4. ConvTypes' /\ at.row = m
    BY <1>1, <1>2, <1>3 DEF ConvTypes, ConvPcs, ChannelsInv, Counts
  <1>5. ChannelsInv'
    BY <1>1, <1>2, <1>3, <1>4 DEF ChannelsInv
  <1> QED BY <1>1, <1>3, <1>4, <1>5 DEF ConvInv

\* So does its top.
LEMMA ChannelStep ==
  ASSUME ConvInv, Channel
  PROVE  ConvInv'
  <1>1. /\ pc = "channel" /\ at.row < m
        /\ at' = [at EXCEPT !.part = 0, !.col = 0]
        /\ pc' = IF kernel.multi THEN "fill" ELSE "weights"
        /\ UNCHANGED <<kernel, m, n, held, lane, acc, scratch, out>>
    BY DEF Channel
  <1>2. ConvTypes /\ ChannelsInv /\ ~InChannel /\ kernel.multi \in BOOLEAN
    BY <1>1, ConvShapes DEF ConvInv, ConvTypes, Untouched, InChannel
  <1>3. at'.row = at.row /\ at'.part = 0 /\ at'.col = 0 /\ at'.side = at.side /\ at' \in Counts
    BY <1>1, <1>2 DEF ConvTypes, Counts
  <1>4. Image' = Image /\ Side' = Side /\ WeightsNeed' = WeightsNeed /\ Scale' = Scale
    BY <1>1, <1>3 DEF Image, Side, WeightsNeed, Scale
  <1>5. pc' \in {"fill", "weights"} /\ InChannel' /\ ~Untouched'
    BY <1>1, <1>2 DEF InChannel, Untouched
  <1>6. ConvTypes'
    BY <1>1, <1>2, <1>3, <1>4, <1>5 DEF ConvTypes, ConvPcs
  <1>7. ChannelsInv'
    <2>1. at.row \in Nat /\ Image \in Nat /\ m * Image \in Nat /\ (at.row + 1) * Image >= at.row * Image
      <3>1. at.row \in Nat /\ Side \in Nat /\ m \in Nat
        BY <1>2, SideFacts DEF ConvTypes, Counts, Side
      <3>2. Image \in Nat
        BY <3>1 DEF Image
      <3>3. at.row * Image <= (at.row + 1) * Image
        BY <3>1, <3>2, Monotone
      <3> QED BY <3>1, <3>2, <3>3
    <2>2. \A a \in 0..m * Image + Guard - 1 : a >= (at.row + 1) * Image => out[a] = Old(a)
      <3>1. \A a \in 0..m * Image + Guard - 1 : a >= at.row * Image => out[a] = Old(a)
        BY <1>2 DEF ChannelsInv
      <3> DEFINE u == at.row * Image
                 v == (at.row + 1) * Image
      <3>2. u \in Nat /\ v \in Nat /\ u <= v
        BY <2>1
      <3> HIDE DEF u, v
      <3>3. ASSUME NEW a \in 0..m * Image + Guard - 1, a >= v
            PROVE  out[a] = Old(a)
        <4>1. a >= u
          BY <2>1, <3>2, <3>3, RegistersAssumption
        <4> QED BY <3>1, <4>1 DEF u
      <3> QED BY <3>3 DEF v
    <2> QED BY <1>1, <1>2, <1>3, <1>4, <1>5, <2>2 DEF ChannelsInv
  <1>8. CASE kernel.multi
    <2>1. pc' = "fill"
      BY <1>1, <1>8
    <2>2. Side \in Nat /\ Image \in Nat /\ kernel.lanes \in {4, 8}
      BY <1>2, SideFacts, ConvShapes DEF ConvTypes, Side, Image
    <2>3. \A y \in 0..Side - 1, x \in 0..Side - 1 : ~(y * Side + x < 0)
      BY <2>2, SpotInRow
    <2>4. FillInv'
      BY <1>1, <1>3, <1>4, <1>8, <2>2, <2>3 DEF FillInv
    <2> QED BY <1>1, <1>3, <1>5, <1>6, <1>7, <1>8, <2>1, <2>4 DEF ConvInv
  <1>9. CASE ~kernel.multi
    <2>1. pc' = "weights" /\ n \in Nat
      BY <1>1, <1>2, <1>9 DEF ConvTypes
    <2>2. PlaneInv'
      BY <1>1, <1>3, <1>4, <1>9, <2>1 DEF PlaneInv, Past
    <2> QED BY <1>1, <1>3, <1>5, <1>6, <1>7, <1>9, <2>1, <2>2 DEF ConvInv
  <1> QED BY <1>2, <1>8, <1>9
-----------------------------------------------------------------------------
\* What is known inside a channel.
LEMMA ChannelBasics ==
  ASSUME ConvInv, InChannel
  PROVE  /\ ConvTypes /\ ChannelsInv
         /\ n \in Nat /\ m \in Nat /\ at.row \in Nat /\ at.row < m
         /\ at.part \in Nat /\ at.y \in Nat /\ at.col \in Nat
         /\ Side \in Nat /\ Side >= 4 /\ Image \in Nat /\ Image = Side * Side
         /\ kernel.lanes \in {4, 8} /\ kernel.multi \in BOOLEAN
         /\ (~kernel.multi => n = 1)
         /\ DOMAIN out = 0..m * Image + Guard - 1
  <1>1. ConvTypes /\ ChannelsInv /\ at.row < m /\ (~kernel.multi => n = 1)
    BY DEF ConvInv, InChannel, Untouched
  <1>2. at \in Counts /\ kernel \in ConvKernels /\ n \in Nat /\ m \in Nat /\ at.side \in Sides
        /\ DOMAIN out = 0..m * Image + Guard - 1
    BY <1>1 DEF ConvTypes
  <1>3. Side \in Nat /\ Side >= 4 /\ Image \in Nat /\ Image = Side * Side
    BY <1>2, SideFacts DEF Side, Image
  <1> QED BY <1>1, <1>2, <1>3, ConvShapes DEF Counts

\* Pixels are in the array, below the next channel.
LEMMA SpotIn ==
  ASSUME ConvInv, InChannel, NEW c \in 0..m - 1, NEW y \in 0..Side - 1, NEW x \in 0..Side - 1
  PROVE  Spot(c, y, x, Side) \in DOMAIN out
  <1> DEFINE a == Spot(c, y, x, Side)
             t == m * Image
  <1>1. Side \in Nat /\ m \in Nat /\ c \in Nat /\ c < m /\ t \in Nat
        /\ DOMAIN out = 0..t + Guard - 1
    BY ChannelBasics
  <1>2. a \in Nat /\ a < m * (Side * Side)
    BY <1>1, SpotFacts
  <1>3. a < t
    BY <1>2 DEF Image
  <1> HIDE DEF a, t
  <1>4. a \in DOMAIN out
    BY <1>1, <1>2, <1>3, RegistersAssumption
  <1> QED BY <1>4 DEF a

\* A step within a channel that leaves the rest of the output alone.
LEMMA PlaneKept ==
  ASSUME ConvInv, InChannel, InChannel', UNCHANGED <<kernel, m, n, held>>,
         at' \in Counts, at'.row = at.row, at'.side = at.side,
         out' = [a \in DOMAIN out |-> out'[a]],
         \A a \in DOMAIN out :
           a < at.row * Image \/ a >= (at.row + 1) * Image => out'[a] = out[a]
  PROVE  /\ ConvTypes' /\ ChannelsInv' /\ ~Untouched' /\ (at.row < m)'
         /\ pc' # "conv" /\ (~kernel.multi => n = 1)' /\ (InChannel => at.row < m)'
         /\ Image' = Image /\ Side' = Side /\ Scale' = Scale
  <1>1. /\ ConvTypes /\ ChannelsInv /\ n \in Nat /\ m \in Nat /\ at.row \in Nat /\ at.row < m
        /\ Side \in Nat /\ Image \in Nat /\ DOMAIN out = 0..m * Image + Guard - 1
        /\ (~kernel.multi => n = 1)
    BY ChannelBasics
  <1>2. Image' = Image /\ Side' = Side /\ WeightsNeed' = WeightsNeed /\ Scale' = Scale
    BY DEF Image, Side, WeightsNeed, Scale
  <1>3. pc' \in {"fill", "weights", "y", "x"} /\ ~Untouched'
    BY DEF InChannel, Untouched
  <1>4. ConvTypes'
    <2>1. kernel \in ConvKernels /\ held \in Nat /\ at.side \in Sides
      BY <1>1 DEF ConvTypes
    <2>2. out' = [a \in 0..m * Image + Guard - 1 |-> out'[a]]
      BY <1>1
    <2> QED BY <1>1, <1>2, <1>3, <2>1, <2>2 DEF ConvTypes, ConvPcs
  <1>5. ChannelsInv'
    <2>1. ASSUME NEW c \in 0..at.row - 1, NEW y \in 0..Side - 1, NEW x \in 0..Side - 1
          PROVE  out'[Spot(c, y, x, Side)] = Upto(c, y, x, n, n, Side, Scale)
      <3> DEFINE a == Spot(c, y, x, Side)
      <3>1. c \in 0..m - 1 /\ c \in Nat /\ c < at.row
        BY <1>1
      <3>2. a \in DOMAIN out
        BY <3>1, SpotIn
      <3>3. a < at.row * (Side * Side)
        BY <1>1, <3>1, SpotFacts
      <3>4. a < at.row * Image
        BY <3>3 DEF Image
      <3>5. out[a] = Upto(c, y, x, n, n, Side, Scale)
        BY <1>1 DEF ChannelsInv
      <3> HIDE DEF a
      <3>6. out'[a] = out[a]
        BY <3>2, <3>4
      <3> QED BY <3>5, <3>6 DEF a
    <2>2. ASSUME NEW a \in 0..m * Image + Guard - 1, a >= (at.row + 1) * Image
          PROVE  out'[a] = Old(a)
      <3>1. out[a] = Old(a)
        BY <1>1, <2>2 DEF ChannelsInv
      <3>2. out'[a] = out[a]
        BY <1>1, <2>2
      <3> QED BY <3>1, <3>2
    <2>3. WeightsNeed <= held
      BY <1>1 DEF ChannelsInv
    <2> QED BY <1>1, <1>2, <1>3, <2>1, <2>2, <2>3 DEF ChannelsInv
  <1> QED BY <1>1, <1>2, <1>3, <1>4, <1>5

\* A full vector of a multi kernel's bias keeps the invariant.
LEMMA FillStep ==
  ASSUME ConvInv, Fill
  PROVE  ConvInv'
  <1> DEFINE k == kernel.lanes
             r == at.row
             j == at.col
             S == Side
             u == r * Image
  <1>1. /\ pc = "fill" /\ pc' = "fill" /\ j < Image
        /\ at' = [at EXCEPT !.col = j + k]
        /\ UNCHANGED <<kernel, m, n, held, lane, acc, scratch>>
        /\ FillInv /\ InChannel /\ InChannel'
    BY DEF Fill, ConvInv, InChannel
  <1>11. out' = [a \in DOMAIN out |->
                  IF a - u \in j..j + k - 1 THEN Only({Cell("bias", r)}) ELSE out[a]]
    BY DEF Fill
  <1>2. /\ ConvTypes /\ n \in Nat /\ m \in Nat /\ r \in Nat /\ r < m /\ j \in Nat
        /\ S \in Nat /\ S >= 4 /\ Image \in Nat /\ Image = S * S /\ k \in {4, 8}
        /\ DOMAIN out = 0..m * Image + Guard - 1
    BY <1>1, ChannelBasics
  <1>12. u \in Nat /\ (r + 1) * Image = u + Image
    BY <1>2
  <1>3. /\ at'.row = r /\ at'.part = at.part /\ at'.col = j + k /\ at'.side = at.side
        /\ at' \in Counts
    <2> DEFINE w == j + k
    <2>1. w \in Nat /\ at \in Counts /\ at' = [at EXCEPT !.col = w]
      <3>1. w \in Nat
        BY <1>2
      <3>2. at \in Counts
        BY <1>2 DEF ConvTypes
      <3>3. at' = [at EXCEPT !.col = w]
        BY <1>1, Zenon
      <3> QED BY <3>1, <3>2, <3>3, Zenon
    <2> HIDE DEF w
    <2>2. /\ at'.row = r /\ at'.part = at.part /\ at'.col = w /\ at'.side = at.side
          /\ at' \in Counts
      BY <2>1 DEF Counts
    <2> QED BY <2>2 DEF w
  <1>4. j + k <= Image /\ (j + k) % k = 0
    <2>1. Image % k = 0
      BY <1>2, SideFacts DEF ConvTypes, Side, Image
    <2>2. Full(Image, k) = Image
      BY <1>2, <2>1 DEF Full
    <2>3. j % k = 0
      BY <1>1 DEF FillInv
    <2>4. k \in {1, 4, 8}
      BY <1>2
    <2> HIDE DEF j, k
    <2> QED BY <1>1, <1>2, <2>2, <2>3, <2>4, FullStep
  <1> HIDE DEF u, j, r, k, S
  <1>5. \A a \in DOMAIN out :
          out'[a] = IF a - u \in j..j + k - 1 THEN Only({Cell("bias", r)}) ELSE out[a]
    BY <1>11
  <1>6. out' = [a \in DOMAIN out |-> out'[a]]
    BY <1>11
  <1>7. \A a \in DOMAIN out : a < u \/ a >= u + Image => out'[a] = out[a]
    <2>1. ASSUME NEW a \in DOMAIN out, a < u \/ a >= u + Image
          PROVE  ~(a - u \in j..j + k - 1)
      BY <1>2, <1>4, <1>12, <2>1, RegistersAssumption
    <2> QED BY <1>5, <2>1
  <1>8. /\ ConvTypes' /\ ChannelsInv' /\ ~Untouched' /\ (~kernel.multi => n = 1)'
        /\ (InChannel => at.row < m)' /\ Image' = Image /\ Side' = Side /\ Scale' = Scale
    BY <1>1, <1>2, <1>3, <1>6, <1>7, <1>12, PlaneKept DEF u, r
  <1>9. ASSUME NEW y \in 0..S - 1, NEW x \in 0..S - 1, y * S + x < j + k
        PROVE  out'[Spot(r, y, x, S)] = Upto(r, y, x, 0, n, S, Scale)
    <2> DEFINE a == Spot(r, y, x, S)
               i == y * S + x
    <2>1. a \in DOMAIN out
      <3>1. r \in 0..m - 1
        BY <1>2
      <3> QED BY <1>1, <3>1, SpotIn DEF S
    <2>2. a = u + i /\ i \in Nat
      BY <1>2, SpotInRow DEF Spot, u
    <2>3. i < j => out[a] = Upto(r, y, x, 0, n, S, Scale)
      BY <1>1 DEF FillInv, S, j, r
    <2>4. i < j + k
      BY <1>9
    <2> HIDE DEF a, i
    <2>5. CASE i < j
      <3>1. ~(a - u \in j..j + k - 1)
        BY <1>2, <1>12, <2>2, <2>5
      <3> QED BY <1>5, <2>1, <2>3, <2>5, <3>1 DEF a
    <2>6. CASE ~(i < j)
      <3>1. a - u \in j..j + k - 1
        BY <1>2, <1>12, <2>2, <2>4, <2>6
      <3> QED BY <1>5, <2>1, <3>1, UptoNone DEF a
    <2> QED BY <2>5, <2>6
  <1>10. FillInv'
    <2>1. kernel.multi /\ at.part = 0
      BY <1>1 DEF FillInv
    <2>2. /\ at'.row = r /\ at'.part = 0 /\ at'.col = j + k /\ kernel'.multi /\ kernel'.lanes = k
          /\ n' = n /\ Side' = S /\ Scale' = Scale /\ Image' = Image
      BY <1>1, <1>3, <1>8, <2>1 DEF k, S
    <2> QED BY <1>4, <1>9, <2>2 DEF FillInv
  <1> QED BY <1>1, <1>8, <1>10 DEF ConvInv

\* So does the end of the fill.
LEMMA FillEndStep ==
  ASSUME ConvInv, FillEnd
  PROVE  ConvInv'
  <1>1. /\ pc = "fill" /\ pc' = "weights" /\ at.col >= Image
        /\ UNCHANGED <<kernel, m, n, held, at, lane, acc, scratch, out>>
        /\ FillInv /\ InChannel /\ InChannel'
    BY DEF FillEnd, ConvInv, InChannel
  <1>2. /\ ConvTypes /\ n \in Nat /\ Side \in Nat /\ Image \in Nat /\ Image = Side * Side
        /\ at.col \in Nat
    BY <1>1, ChannelBasics
  <1>3. at \in Counts /\ out = [a \in DOMAIN out |-> out[a]]
    <2>1. out = [a \in 0..m * Image + Guard - 1 |-> out[a]]
      BY <1>2 DEF ConvTypes
    <2>2. DOMAIN out = 0..m * Image + Guard - 1
      BY <2>1
    <2> QED BY <1>2, <2>1, <2>2, Zenon DEF ConvTypes
  <1>4. /\ ConvTypes' /\ ChannelsInv' /\ ~Untouched' /\ (~kernel.multi => n = 1)'
        /\ (InChannel => at.row < m)' /\ Side' = Side /\ Scale' = Scale
    BY <1>1, <1>3, PlaneKept
  <1>5. ASSUME NEW y \in 0..Side - 1, NEW x \in 0..Side - 1
        PROVE  out[Spot(at.row, y, x, Side)] = Upto(at.row, y, x, 0, n, Side, Scale)
    <2>1. y * Side + x \in 0..Image - 1
      BY <1>2, SpotInRow
    <2>2. y * Side + x < at.col
      BY <1>1, <1>2, <2>1
    <2> QED BY <1>1, <2>2 DEF FillInv
  <1>6. PlaneInv'
    <2>1. at.part = 0
      BY <1>1 DEF FillInv
    <2>2. pc' \notin {"y", "x"} /\ 0 <= n
      BY <1>1, <1>2
    <2>3. \A y, x : ~Past(pc', at'.y, at'.col, y, x)
      BY <2>2 DEF Past
    <2>4. at' = at /\ out' = out /\ n' = n
      BY <1>1
    <2> QED BY <1>1, <1>4, <1>5, <2>1, <2>2, <2>3, <2>4 DEF PlaneInv
  <1> QED BY <1>1, <1>4, <1>6 DEF ConvInv

\* The nine weights of an input channel are in W.
LEMMA WeightsStep ==
  ASSUME ConvInv, Weights
  PROVE  ConvInv'
  <1> DEFINE r == at.row
             p == at.part
  <1>1. /\ pc = "weights" /\ pc' = "y" /\ p < n
        /\ at' = [at EXCEPT !.y = 0]
        /\ UNCHANGED <<kernel, m, n, held, acc, scratch, out>>
        /\ PlaneInv /\ InChannel /\ InChannel'
    BY DEF Weights, ConvInv, InChannel
  <1>2. lane' = [k \in 0..8 |-> {ByteOfW(WeightBase + k)} \cup Scale]
    BY DEF Weights
  <1>3. /\ ConvTypes /\ ChannelsInv /\ n \in Nat /\ m \in Nat /\ r \in Nat /\ r < m /\ p \in Nat
        /\ Side \in Nat /\ (~kernel.multi => n = 1) /\ kernel.multi \in BOOLEAN
    BY <1>1, ChannelBasics
  <1>4. at \in Counts /\ out' = [a \in DOMAIN out |-> out'[a]]
    <2>1. out = [a \in 0..m * Image + Guard - 1 |-> out[a]]
      BY <1>3 DEF ConvTypes
    <2>2. DOMAIN out = 0..m * Image + Guard - 1 /\ out' = out
      BY <1>1, <2>1
    <2> QED BY <1>3, <2>1, <2>2, Zenon DEF ConvTypes
  <1>5. /\ at'.row = r /\ at'.part = p /\ at'.y = 0 /\ at'.side = at.side /\ at' \in Counts
    BY <1>1, <1>4 DEF Counts
  <1>6. /\ ConvTypes' /\ ChannelsInv' /\ ~Untouched' /\ (~kernel.multi => n = 1)'
        /\ (InChannel => at.row < m)' /\ Side' = Side /\ Scale' = Scale
    BY <1>1, <1>4, <1>5, PlaneKept
  <1>7. WeightBase = 9 * (r * n + p)
    <2>1. CASE kernel.multi
      BY <2>1 DEF WeightBase
    <2>2. CASE ~kernel.multi
      <3>1. n = 1 /\ p = 0
        BY <1>1, <1>3, <2>2
      <3>2. r * 1 + 0 = r
        BY <1>3
      <3> QED BY <2>2, <3>1, <3>2 DEF WeightBase
    <2> QED BY <1>3, <2>1, <2>2
  <1>8. ASSUME NEW k \in 0..8
        PROVE  ByteOfW(WeightBase + k) = Cell("W", 9 * (r * n + p) + k)
    <2> DEFINE b == r * n + p
               t == m * n
    <2>1. b \in Nat /\ b < t
      BY <1>1, <1>3, PlaceBelow
    <2>2. t \in Nat /\ WeightsNeed = 9 * t
      BY <1>3 DEF WeightsNeed
    <2>3. WeightsNeed <= held /\ held \in Nat
      BY <1>3 DEF ChannelsInv, ConvTypes
    <2>4. WeightBase = 9 * b
      BY <1>7
    <2> HIDE DEF b, t
    <2>5. WeightBase + k < held /\ WeightBase + k = 9 * b + k
      BY <2>1, <2>2, <2>3, <2>4
    <2> QED BY <2>5 DEF ByteOfW, b
  <1>9. lane' = [j \in 0..8 |-> {Cell("W", 9 * (r * n + p) + j)} \cup Scale]
    BY <1>2, <1>8
  <1>10. PlaneInv'
    <2>1. \A y, x : ~Past(pc, at.y, at.col, y, x)
      BY <1>1 DEF Past
    <2>2. \A y \in 0..Side - 1 : \A x : ~Past(pc', at'.y, at'.col, y, x)
      BY <1>1, <1>3, <1>5 DEF Past
    <2>3. \A y \in 0..Side - 1, x \in 0..Side - 1 :
            kernel.multi \/ p > 0 =>
              out[Spot(r, y, x, Side)] = Upto(r, y, x, p, n, Side, Scale)
      BY <1>1, <2>1 DEF PlaneInv
    <2>4. \A y \in 0..Side - 1, x \in 0..Side - 1 :
            kernel'.multi \/ at'.part > 0 =>
              out'[Spot(at'.row, y, x, Side')] = Upto(at'.row, y, x, at'.part, n', Side', Scale')
      BY <1>1, <1>5, <1>6, <2>3
    <2>5. \A y \in 0..Side' - 1, x \in 0..Side' - 1 : ~Past(pc', at'.y, at'.col, y, x)
      BY <1>6, <2>2
    <2>6. at'.part <= n' /\ at'.part < n' /\ at'.y <= Side' /\ pc' # "x"
      BY <1>1, <1>3, <1>5, <1>6
    <2>7. lane' = [j \in 0..8 |-> {Cell("W", 9 * (at'.row * n' + at'.part) + j)} \cup Scale']
      BY <1>1, <1>5, <1>6, <1>9
    <2> QED BY <1>6, <2>4, <2>5, <2>6, <2>7 DEF PlaneInv
  <1> QED BY <1>1, <1>6, <1>10 DEF ConvInv

\* The top of the loop over the rows of an image keeps the invariant.
LEMMA ImageRowStep ==
  ASSUME ConvInv, ImageRow
  PROVE  ConvInv'
  <1>1. /\ pc = "y" /\ pc' = "x" /\ at.y < Side
        /\ at' = [at EXCEPT !.col = 0]
        /\ UNCHANGED <<kernel, m, n, held, lane, acc, scratch, out>>
        /\ PlaneInv /\ InChannel /\ InChannel'
    BY DEF ImageRow, ConvInv, InChannel
  <1>2. /\ ConvTypes /\ n \in Nat /\ at.row \in Nat /\ at.part \in Nat /\ at.y \in Nat
        /\ Side \in Nat /\ Side >= 4 /\ kernel.lanes \in {4, 8}
    BY <1>1, ChannelBasics
  <1>3. at \in Counts /\ out' = [a \in DOMAIN out |-> out'[a]]
    <2>1. out = [a \in 0..m * Image + Guard - 1 |-> out[a]]
      BY <1>2 DEF ConvTypes
    <2>2. DOMAIN out = 0..m * Image + Guard - 1 /\ out' = out
      BY <1>1, <2>1
    <2> QED BY <1>2, <2>1, <2>2, Zenon DEF ConvTypes
  <1>4. /\ at'.row = at.row /\ at'.part = at.part /\ at'.y = at.y /\ at'.col = 0
        /\ at'.side = at.side /\ at' \in Counts
    BY <1>1, <1>3 DEF Counts
  <1>5. /\ ConvTypes' /\ ChannelsInv' /\ ~Untouched' /\ (~kernel.multi => n = 1)'
        /\ (InChannel => at.row < m)' /\ Side' = Side /\ Scale' = Scale
    BY <1>1, <1>3, <1>4, PlaneKept
  <1>6. \A y \in 0..Side - 1, x \in 0..Side - 1 :
          Past(pc', at'.y, at'.col, y, x) = Past(pc, at.y, at.col, y, x)
    BY <1>1, <1>2, <1>4 DEF Past
  <1>7. RowLimit' \in Nat
    <2>1. at.side \in Sides /\ Side = at.side
      BY <1>2 DEF ConvTypes, Side
    <2>2. Full(Side, kernel.lanes) \in Nat
      BY <1>2, <2>1, SideFacts
    <2> QED BY <1>1, <1>5, <2>2 DEF RowLimit
  <1>8. PlaneInv'
    <2>1. /\ at'.part <= n' /\ at'.part < n' /\ at'.y <= Side' /\ at'.y < Side'
          /\ lane' = [j \in 0..8 |-> {Cell("W", 9 * (at'.row * n' + at'.part) + j)} \cup Scale']
      BY <1>1, <1>4, <1>5 DEF PlaneInv
    <2>2. 0 % kernel'.lanes = 0 /\ 0 <= RowLimit'
      BY <1>1, <1>2, <1>7
    <2>3. \A y \in 0..Side' - 1, x \in 0..Side' - 1 :
            IF Past(pc', at'.y, at'.col, y, x)
            THEN out'[Spot(at'.row, y, x, Side')]
                   = Upto(at'.row, y, x, at'.part + 1, n', Side', Scale')
            ELSE kernel'.multi \/ at'.part > 0 =>
                   out'[Spot(at'.row, y, x, Side')]
                     = Upto(at'.row, y, x, at'.part, n', Side', Scale')
      BY <1>1, <1>4, <1>5, <1>6 DEF PlaneInv
    <2> QED BY <1>4, <2>1, <2>2, <2>3 DEF PlaneInv
  <1> QED BY <1>1, <1>5, <1>8 DEF ConvInv

\* So does its end.
LEMMA ImageEndStep ==
  ASSUME ConvInv, ImageEnd
  PROVE  ConvInv'
  <1>1. /\ pc = "y" /\ pc' = "weights" /\ at.y >= Side
        /\ at' = [at EXCEPT !.part = at.part + 1]
        /\ UNCHANGED <<kernel, m, n, held, lane, acc, scratch, out>>
        /\ PlaneInv /\ InChannel /\ InChannel'
    BY DEF ImageEnd, ConvInv, InChannel
  <1>2. /\ ConvTypes /\ n \in Nat /\ at.row \in Nat /\ at.part \in Nat /\ at.y \in Nat
        /\ Side \in Nat /\ Side >= 4 /\ kernel.lanes \in {4, 8}
    BY <1>1, ChannelBasics
  <1>3. at \in Counts /\ out' = [a \in DOMAIN out |-> out'[a]]
    <2>1. out = [a \in 0..m * Image + Guard - 1 |-> out[a]]
      BY <1>2 DEF ConvTypes
    <2>2. DOMAIN out = 0..m * Image + Guard - 1 /\ out' = out
      BY <1>1, <2>1
    <2> QED BY <1>2, <2>1, <2>2, Zenon DEF ConvTypes
  <1>4. /\ at'.row = at.row /\ at'.part = at.part + 1
        /\ at'.side = at.side /\ at' \in Counts
    <2> DEFINE w == at.part + 1
    <2>1. w \in Nat /\ at' = [at EXCEPT !.part = w]
      BY <1>1, <1>2
    <2> HIDE DEF w
    <2>2. at'.row = at.row /\ at'.part = w /\ at'.side = at.side /\ at' \in Counts
      BY <1>3, <2>1 DEF Counts
    <2> QED BY <2>2 DEF w
  <1>5. /\ ConvTypes' /\ ChannelsInv' /\ ~Untouched' /\ (~kernel.multi => n = 1)'
        /\ (InChannel => at.row < m)' /\ Side' = Side /\ Scale' = Scale
    BY <1>1, <1>3, <1>4, PlaneKept
  <1>6. \A y \in 0..Side - 1, x \in 0..Side - 1 : Past(pc, at.y, at.col, y, x)
    BY <1>1, <1>2 DEF Past
  <1>7. \A y, x : ~Past(pc', at'.y, at'.col, y, x)
    BY <1>1 DEF Past
  <1>8. PlaneInv'
    <2>1. at'.part <= n' /\ pc' \notin {"y", "x"}
      BY <1>1, <1>2, <1>4 DEF PlaneInv
    <2>2. \A y \in 0..Side - 1, x \in 0..Side - 1 :
            out[Spot(at.row, y, x, Side)] = Upto(at.row, y, x, at.part + 1, n, Side, Scale)
      BY <1>1, <1>6 DEF PlaneInv
    <2>3. \A y \in 0..Side' - 1, x \in 0..Side' - 1 :
            out'[Spot(at'.row, y, x, Side')] = Upto(at'.row, y, x, at'.part, n', Side', Scale')
      BY <1>1, <1>4, <1>5, <2>2
    <2> QED BY <1>7, <2>1, <2>3 DEF PlaneInv
  <1> QED BY <1>1, <1>5, <1>8 DEF ConvInv

\* So does the end of the loop over the input channels.
LEMMA WeightsEndStep ==
  ASSUME ConvInv, WeightsEnd
  PROVE  ConvInv'
  <1> DEFINE r == at.row
  <1>1. /\ pc = "weights" /\ pc' = "channel" /\ at.part >= n
        /\ at' = [at EXCEPT !.row = r + 1]
        /\ UNCHANGED <<kernel, m, n, held, lane, acc, scratch, out>>
        /\ PlaneInv /\ InChannel /\ ~InChannel' /\ ~Untouched'
    BY DEF WeightsEnd, ConvInv, InChannel, Untouched
  <1>2. /\ ConvTypes /\ ChannelsInv /\ n \in Nat /\ m \in Nat /\ r \in Nat /\ r < m
        /\ at.part \in Nat /\ Side \in Nat /\ (~kernel.multi => n = 1) /\ kernel.multi \in BOOLEAN
    BY <1>1, ChannelBasics
  <1>3. at'.row = r + 1 /\ at'.side = at.side /\ at' \in Counts
    <2> DEFINE w == r + 1
    <2>1. w \in Nat /\ at' = [at EXCEPT !.row = w] /\ at \in Counts
      BY <1>1, <1>2 DEF ConvTypes
    <2> HIDE DEF w
    <2>2. at'.row = w /\ at'.side = at.side /\ at' \in Counts
      BY <2>1 DEF Counts
    <2> QED BY <2>2 DEF w
  <1>4. Image' = Image /\ Side' = Side /\ WeightsNeed' = WeightsNeed /\ Scale' = Scale
    BY <1>1, <1>3 DEF Image, Side, WeightsNeed, Scale
  <1>5. ConvTypes'
    BY <1>1, <1>2, <1>3, <1>4 DEF ConvTypes, ConvPcs
  <1>6. ASSUME NEW y \in 0..Side - 1, NEW x \in 0..Side - 1
        PROVE  out[Spot(r, y, x, Side)] = Upto(r, y, x, n, n, Side, Scale)
    <2>1. at.part = n /\ (kernel.multi \/ at.part > 0)
      BY <1>1, <1>2 DEF PlaneInv
    <2>2. ~Past(pc, at.y, at.col, y, x)
      BY <1>1 DEF Past
    <2> QED BY <1>1, <2>1, <2>2 DEF PlaneInv
  <1>7. ChannelsInv'
    <2>1. ASSUME NEW c \in 0..(r + 1) - 1, NEW y \in 0..Side - 1, NEW x \in 0..Side - 1
          PROVE  out[Spot(c, y, x, Side)] = Upto(c, y, x, n, n, Side, Scale)
      <3>1. CASE c = r
        BY <1>6, <3>1
      <3>2. CASE c # r
        <4>1. c \in 0..r - 1
          BY <1>2, <3>2
        <4> QED BY <1>2, <4>1 DEF ChannelsInv
      <3> QED BY <3>1, <3>2
    <2>2. \A a \in 0..m * Image + Guard - 1 : a >= (r + 1) * Image => out[a] = Old(a)
      BY <1>1, <1>2 DEF ChannelsInv
    <2>3. r + 1 <= m /\ WeightsNeed <= held /\ pc' # "done"
      BY <1>1, <1>2 DEF ChannelsInv
    <2> QED BY <1>1, <1>3, <1>4, <2>1, <2>2, <2>3 DEF ChannelsInv
  <1> QED BY <1>1, <1>2, <1>5, <1>7 DEF ConvInv
-----------------------------------------------------------------------------
\* The nine multiply-adds are the taps of the current input channel.
LEMMA TapsAre ==
  ASSUME ConvInv, pc = "x", NEW x \in 0..Side - 1
  PROVE  Taps(x) = Sum(Channels(at.row, at.y, x, {at.part}, n, Side, Scale))
  <1> DEFINE b == 9 * (at.row * n + at.part)
             t(dy, dx) == Tap(at.row, at.part, dy, dx, at.y, x, n, Side) \cup Scale
  <1>1. PlaneInv /\ InChannel
    BY DEF ConvInv, InChannel
  <1>2. /\ n \in Nat /\ at.row \in Nat /\ at.part \in Nat /\ at.y \in Nat /\ Side \in Nat
        /\ x \in Nat
    BY <1>1, ChannelBasics
  <1>7. b \in Nat
    BY <1>2
  <1>3. \A j \in 0..8 : lane[j] = {Cell("W", b + j)} \cup Scale
    BY <1>1 DEF PlaneInv
  <1>4. ASSUME NEW dy \in 0..2, NEW dx \in 0..2
        PROVE  lane[3 * dy + dx] \cup {Pixel(at.y + dy, x + dx)} = t(dy, dx)
    <2> DEFINE q == Side + 2
               u == at.part * q * q
               v == (at.y + dy) * q
    <2> HIDE DEF b
    <2>1. 3 * dy + dx \in 0..8 /\ b + (3 * dy + dx) = b + 3 * dy + dx
      BY <1>7
    <2>2. q \in Nat /\ at.part * q \in Nat /\ at.y + dy \in Nat
      BY <1>2
    <2>3. u \in Nat /\ v \in Nat
      BY <2>2
    <2> HIDE DEF u, v
    <2>4. u + v + (x + dx) = u + v + x + dx
      BY <1>2, <2>3
    <2>5. Pixel(at.y + dy, x + dx) = Cell("in", u + v + x + dx)
      BY <2>4 DEF Pixel, u, v
    <2>6. lane[3 * dy + dx] = {Cell("W", b + 3 * dy + dx)} \cup Scale
      BY <1>3, <2>1
    <2>7. Tap(at.row, at.part, dy, dx, at.y, x, n, Side)
            = {Cell("W", b + 3 * dy + dx), Cell("in", u + v + x + dx)}
      BY DEF Tap, b, u, v
    <2> QED BY <2>5, <2>6, <2>7
  <1> DEFINE w(dy, dx) == lane[3 * dy + dx] \cup {Pixel(at.y + dy, x + dx)}
             Z == {w(dy, dx) : dy \in 0..2, dx \in 0..2}
  <1>5. Taps(x) = Sum(Z)
    BY DEF Taps
  <1>6. ASSUME NEW e
        PROVE  e \in Z <=> \E dy \in 0..2, dx \in 0..2 : e = w(dy, dx)
    <2> HIDE DEF w
    <2> QED OBVIOUS
  <1>8. ASSUME NEW e
        PROVE  e \in Channels(at.row, at.y, x, {at.part}, n, Side, Scale)
                 <=> \E dy \in 0..2, dx \in 0..2 : e = t(dy, dx)
    BY InChannels
  <1>9. \A dy \in 0..2, dx \in 0..2 : w(dy, dx) = t(dy, dx)
    BY <1>4
  <1> HIDE DEF t, w, Z
  <1>10. Z = Channels(at.row, at.y, x, {at.part}, n, Side, Scale)
    BY <1>6, <1>8, <1>9
  <1> QED BY <1>5, <1>10

\* A chunk of pixels gets the current input channel, no other pixel changes.
LEMMA ChunkStep ==
  ASSUME ConvInv, pc = "x", NEW k \in Nat \ {0}, at.col + k <= Side, Chunk(k)
  PROVE  /\ out' = [a \in DOMAIN out |-> out'[a]]
         /\ \A a \in DOMAIN out :
              a < at.row * Image \/ a >= (at.row + 1) * Image => out'[a] = out[a]
         /\ \A y \in 0..Side - 1, x \in 0..Side - 1 :
              out'[Spot(at.row, y, x, Side)] =
                IF y = at.y /\ x \in at.col..at.col + k - 1
                THEN Upto(at.row, y, x, at.part + 1, n, Side, Scale)
                ELSE out[Spot(at.row, y, x, Side)]
  <1> DEFINE r == at.row
             j == at.col
             S == Side
             g == OutputRow
             start(a) == IF kernel.multi THEN out[a] ELSE Only({Cell("bias", r)})
             new(a) == start(a) (+) Taps(a - g)
             u == r * Image
  <1>1. PlaneInv /\ InChannel /\ at.y < S /\ at.part < n
    BY DEF ConvInv, InChannel, PlaneInv
  <1>2. /\ n \in Nat /\ m \in Nat /\ r \in Nat /\ r < m /\ at.part \in Nat /\ at.y \in Nat /\ j \in Nat
        /\ S \in Nat /\ S >= 4 /\ Image \in Nat /\ kernel.multi \in BOOLEAN
        /\ (~kernel.multi => n = 1)
    BY <1>1, ChannelBasics
  <1>22. Image = S * S /\ DOMAIN out = 0..m * Image + Guard - 1
    BY <1>1, ChannelBasics
  <1>3. out' = [a \in DOMAIN out |-> IF a \in g + j..g + j + k - 1 THEN new(a) ELSE out[a]]
    BY DEF Chunk
  <1>4. g \in Nat /\ \A x \in Nat : Spot(r, at.y, x, S) = g + x
    <2>1. r * (S * S) \in Nat /\ at.y * S \in Nat
      BY <1>2
    <2> QED BY <1>2, <2>1 DEF Spot, OutputRow, Image
  <1>5. u \in Nat /\ (r + 1) * Image = u + Image /\ u <= g /\ g + S <= u + Image
    <2> DEFINE v == at.y * S
    <2>1. g = u + v
      BY DEF OutputRow
    <2>2. u \in Nat /\ v \in Nat
      BY <1>2
    <2>3. (at.y + 1) * S <= S * S /\ (at.y + 1) * S = v + S
      <3> DEFINE h == at.y + 1
      <3>1. h \in Nat /\ h <= S /\ S \in Nat
        BY <1>1, <1>2
      <3>2. h * S = v + S
        BY <1>2
      <3> HIDE DEF h, S
      <3>3. h * S <= S * S
        BY <3>1, Monotone
      <3> QED BY <3>2, <3>3 DEF h
    <2>4. (r + 1) * Image = u + Image
      BY <1>2
    <2> HIDE DEF u, v, g
    <2> QED BY <1>2, <1>22, <2>1, <2>2, <2>3, <2>4
  <1> HIDE DEF new, start, g, u
  <1>20. g \in Nat /\ j \in Nat /\ k \in Nat /\ S \in Nat /\ j + k <= S /\ at.y \in 0..S - 1
    <2>1. j + k <= S
      OBVIOUS
    <2> HIDE DEF j, S
    <2> QED BY <1>1, <1>2, <1>4, <2>1
  <1>21. \A a \in DOMAIN out : a \in Int
    BY <1>22
  <1>6. \A a \in DOMAIN out : out'[a] = IF a \in g + j..g + j + k - 1 THEN new(a) ELSE out[a]
    BY <1>3
  <1>7. out' = [a \in DOMAIN out |-> out'[a]]
    BY <1>3
  <1>8. \A a \in DOMAIN out :
          a < at.row * Image \/ a >= (at.row + 1) * Image => out'[a] = out[a]
    <2>1. ASSUME NEW a \in DOMAIN out, a < u \/ a >= u + Image
          PROVE  ~(a \in g + j..g + j + k - 1)
      <3> HIDE DEF j, S
      <3>1. a \in Int /\ u \in Nat /\ u <= g /\ g + S <= u + Image /\ Image \in Nat
        BY <1>2, <1>5, <1>21
      <3> QED BY <1>20, <2>1, <3>1
    <2> QED BY <1>5, <1>6, <2>1 DEF u
  <1>9. ASSUME NEW x \in j..j + k - 1
        PROVE  out'[Spot(r, at.y, x, S)] = Upto(r, at.y, x, at.part + 1, n, S, Scale)
    <2> DEFINE a == Spot(r, at.y, x, S)
    <2>1. x \in 0..S - 1 /\ x \in Nat
      BY <1>20
    <2>2. a = g + x /\ a \in DOMAIN out
      <3>1. r \in 0..m - 1 /\ at.y \in 0..S - 1
        BY <1>1, <1>2
      <3>2. a \in DOMAIN out
        BY <1>1, <2>1, <3>1, SpotIn
      <3> QED BY <1>4, <2>1, <3>2
    <2>3. out'[a] = start(a) (+) Taps(x)
      <3> HIDE DEF a
      <3>1. a \in g + j..g + j + k - 1 /\ a - g = x
        BY <1>20, <2>1, <2>2
      <3> QED BY <1>6, <2>2, <3>1 DEF new
    <2>4. start(a) = Upto(r, at.y, x, at.part, n, S, Scale)
      <3>1. CASE kernel.multi
        <4>1. ~Past(pc, at.y, at.col, at.y, x)
          BY <1>2, <2>1 DEF Past
        <4>2. at.y \in 0..S - 1
          BY <1>1, <1>2
        <4> QED BY <1>1, <2>1, <3>1, <4>1, <4>2 DEF PlaneInv, start
      <3>2. CASE ~kernel.multi
        <4>1. at.part = 0
          BY <1>1, <1>2, <3>2
        <4> QED BY <3>2, <4>1, UptoNone DEF start
      <3> QED BY <1>2, <3>1, <3>2
    <2>5. Taps(x) = Sum(Channels(r, at.y, x, {at.part}, n, S, Scale))
      BY <2>1, TapsAre
    <2>6. Upto(r, at.y, x, at.part, n, S, Scale) (+) Sum(Channels(r, at.y, x, {at.part}, n, S, Scale))
            = Upto(r, at.y, x, at.part + 1, n, S, Scale)
      BY <1>2, ScaleIs, UptoMore
    <2> HIDE DEF a
    <2>7. out'[a] = Upto(r, at.y, x, at.part + 1, n, S, Scale)
      BY <2>3, <2>4, <2>5, <2>6
    <2> QED BY <2>7 DEF a
  <1>10. ASSUME NEW y \in 0..S - 1, NEW x \in 0..S - 1, ~(y = at.y /\ x \in j..j + k - 1)
         PROVE  out'[Spot(r, y, x, S)] = out[Spot(r, y, x, S)]
    <2> DEFINE a == Spot(r, y, x, S)
    <2>1. a \in DOMAIN out
      <3>1. r \in 0..m - 1
        BY <1>2
      <3> QED BY <1>1, <3>1, SpotIn
    <2>2. ASSUME a \in g + j..g + j + k - 1 PROVE FALSE
      <3> DEFINE z == a - g
      <3>1. z \in j..j + k - 1 /\ a = g + z
        <4>1. a \in Int
          BY <1>21, <2>1
        <4> HIDE DEF a
        <4> QED BY <1>20, <2>2, <4>1
      <3>2. z \in Nat /\ z \in 0..S - 1
        <4> HIDE DEF z
        <4> QED BY <1>20, <3>1
      <3>3. Spot(r, at.y, z, S) = a
        BY <1>4, <3>1, <3>2
      <3> HIDE DEF z
      <3>4. y = at.y /\ x = z
        <4>1. \A w \in 0..S - 1, v \in 0..S - 1 :
                Spot(r, y, x, S) = Spot(r, w, v, S) => y = w /\ x = v
          <5>1. r \in Nat /\ S \in Nat
            BY <1>2
          <5> HIDE DEF S, r
          <5> QED BY <5>1, SpotFacts
        <4> QED BY <1>20, <3>2, <3>3, <4>1
      <3> QED BY <1>10, <3>1, <3>4
    <2> HIDE DEF a
    <2>3. out'[a] = out[a]
      BY <1>6, <2>1, <2>2
    <2> QED BY <2>3 DEF a
  <1> HIDE DEF S, j, r
  <1>11. \A y \in 0..S - 1, x \in 0..S - 1 :
           out'[Spot(r, y, x, S)] =
             IF y = at.y /\ x \in j..j + k - 1
             THEN Upto(r, y, x, at.part + 1, n, S, Scale)
             ELSE out[Spot(r, y, x, S)]
    BY <1>9, <1>10
  <1> QED BY <1>7, <1>8, <1>11 DEF S, j, r

\* Where the vectors of a row end.
LEMMA RowLimitIs ==
  ASSUME ConvInv, pc = "x"
  PROVE  /\ at.col <= RowLimit /\ at.col \in Nat /\ RowLimit \in Nat
         /\ RowLimit = IF kernel.lanes = 8 THEN Side - 4 ELSE Side
         /\ at.col < RowLimit =>
              at.col + kernel.lanes <= RowLimit /\ (at.col + kernel.lanes) % kernel.lanes = 0
  <1>1. PlaneInv /\ InChannel
    BY DEF ConvInv, InChannel
  <1>2. at.col \in Nat /\ Side \in Nat /\ Side >= 4 /\ kernel.lanes \in {4, 8} /\ ConvTypes
    BY <1>1, ChannelBasics
  <1>3. at.col <= RowLimit /\ at.col % kernel.lanes = 0
    BY <1>1 DEF PlaneInv
  <1>4. at.side \in Sides /\ Side = at.side
    BY <1>2 DEF ConvTypes, Side
  <1>5. RowLimit = IF kernel.lanes = 8 THEN Side - 4 ELSE Side
    BY <1>2, <1>4, SideFacts DEF RowLimit
  <1>6. at.col < RowLimit =>
          at.col + kernel.lanes <= RowLimit /\ (at.col + kernel.lanes) % kernel.lanes = 0
    <2>1. kernel.lanes \in {1, 4, 8}
      BY <1>2
    <2> QED BY <1>2, <1>3, <2>1, FullStep DEF RowLimit
  <1> QED BY <1>2, <1>3, <1>5, <1>6

\* A full vector of pixels keeps the invariant.
LEMMA VectorChunkStep ==
  ASSUME ConvInv, VectorChunk
  PROVE  ConvInv'
  <1> DEFINE k == kernel.lanes
             j == at.col
  <1>1. /\ pc = "x" /\ pc' = "x" /\ j < RowLimit /\ Chunk(k)
        /\ at' = [at EXCEPT !.col = j + k]
        /\ UNCHANGED <<kernel, m, n, held, lane, acc, scratch>>
        /\ PlaneInv /\ InChannel /\ InChannel'
    BY DEF VectorChunk, ConvInv, InChannel
  <1>2. /\ ConvTypes /\ at.row \in Nat /\ at.part \in Nat /\ at.y \in Nat /\ j \in Nat
        /\ Side \in Nat /\ k \in {4, 8}
    BY <1>1, ChannelBasics
  <1>3. j + k <= RowLimit /\ j + k <= Side /\ (j + k) % k = 0
    <2>1. RowLimit = IF k = 8 THEN Side - 4 ELSE Side
      BY <1>1, RowLimitIs
    <2>2. j + k <= RowLimit /\ (j + k) % k = 0
      BY <1>1, RowLimitIs
    <2> HIDE DEF j, k
    <2> QED BY <1>2, <2>1, <2>2
  <1>4. /\ at'.row = at.row /\ at'.part = at.part /\ at'.y = at.y /\ at'.col = j + k
        /\ at'.side = at.side /\ at' \in Counts
    <2> DEFINE w == j + k
    <2>1. w \in Nat /\ at' = [at EXCEPT !.col = w] /\ at \in Counts
      BY <1>1, <1>2 DEF ConvTypes
    <2> HIDE DEF w
    <2>2. /\ at'.row = at.row /\ at'.part = at.part /\ at'.y = at.y /\ at'.col = w
          /\ at'.side = at.side /\ at' \in Counts
      BY <2>1 DEF Counts
    <2> QED BY <2>2 DEF w
  <1>5. /\ out' = [a \in DOMAIN out |-> out'[a]]
        /\ \A a \in DOMAIN out :
             a < at.row * Image \/ a >= (at.row + 1) * Image => out'[a] = out[a]
        /\ \A y \in 0..Side - 1, x \in 0..Side - 1 :
             out'[Spot(at.row, y, x, Side)] =
               IF y = at.y /\ x \in j..j + k - 1
               THEN Upto(at.row, y, x, at.part + 1, n, Side, Scale)
               ELSE out[Spot(at.row, y, x, Side)]
    <2>1. k \in Nat \ {0}
      BY <1>2
    <2> HIDE DEF k
    <2> QED BY <1>1, <1>3, <2>1, ChunkStep
  <1>6. /\ ConvTypes' /\ ChannelsInv' /\ ~Untouched' /\ (~kernel.multi => n = 1)'
        /\ (InChannel => at.row < m)' /\ Side' = Side /\ Scale' = Scale
    BY <1>1, <1>4, <1>5, PlaneKept
  <1>7. \A y \in 0..Side - 1, x \in 0..Side - 1 :
          Past(pc', at'.y, at'.col, y, x)
            <=> Past(pc, at.y, at.col, y, x) \/ (y = at.y /\ x \in j..j + k - 1)
    <2>1. ASSUME NEW y \in 0..Side - 1, NEW x \in 0..Side - 1
          PROVE  x < j + k <=> x < j \/ x \in j..j + k - 1
      <3> HIDE DEF j, k
      <3> QED BY <1>2
    <2> QED BY <1>1, <1>4, <2>1 DEF Past
  <1>8. ASSUME NEW y \in 0..Side - 1, NEW x \in 0..Side - 1
        PROVE  IF Past(pc', at'.y, at'.col, y, x)
               THEN out'[Spot(at.row, y, x, Side)]
                      = Upto(at.row, y, x, at.part + 1, n, Side, Scale)
               ELSE kernel.multi \/ at.part > 0 =>
                      out'[Spot(at.row, y, x, Side)]
                        = Upto(at.row, y, x, at.part, n, Side, Scale)
    <2> DEFINE here == y = at.y /\ x \in j..j + k - 1
               u == out'[Spot(at.row, y, x, Side)]
               v == out[Spot(at.row, y, x, Side)]
    <2>1. u = IF here THEN Upto(at.row, y, x, at.part + 1, n, Side, Scale) ELSE v
      BY <1>5
    <2>2. IF Past(pc, at.y, at.col, y, x)
          THEN v = Upto(at.row, y, x, at.part + 1, n, Side, Scale)
          ELSE kernel.multi \/ at.part > 0 => v = Upto(at.row, y, x, at.part, n, Side, Scale)
      BY <1>1 DEF PlaneInv
    <2>3. Past(pc', at'.y, at'.col, y, x) <=> Past(pc, at.y, at.col, y, x) \/ here
      BY <1>7
    <2> HIDE DEF here, u, v
    <2>4. IF Past(pc', at'.y, at'.col, y, x)
          THEN u = Upto(at.row, y, x, at.part + 1, n, Side, Scale)
          ELSE kernel.multi \/ at.part > 0 => u = Upto(at.row, y, x, at.part, n, Side, Scale)
      BY <2>1, <2>2, <2>3
    <2> QED BY <2>4 DEF u
  <1>9. PlaneInv'
    <2>1. /\ at'.part <= n' /\ at'.part < n' /\ at'.y <= Side' /\ at'.y < Side'
          /\ lane' = [i \in 0..8 |-> {Cell("W", 9 * (at'.row * n' + at'.part) + i)} \cup Scale']
      BY <1>1, <1>4, <1>6 DEF PlaneInv
    <2>2. at'.col % kernel'.lanes = 0 /\ at'.col <= RowLimit'
      <3>1. RowLimit' = RowLimit
        BY <1>1, <1>6 DEF RowLimit
      <3> QED BY <1>1, <1>3, <1>4, <3>1
    <2>3. \A y \in 0..Side' - 1, x \in 0..Side' - 1 :
            IF Past(pc', at'.y, at'.col, y, x)
            THEN out'[Spot(at'.row, y, x, Side')]
                   = Upto(at'.row, y, x, at'.part + 1, n', Side', Scale')
            ELSE kernel'.multi \/ at'.part > 0 =>
                   out'[Spot(at'.row, y, x, Side')]
                     = Upto(at'.row, y, x, at'.part, n', Side', Scale')
      BY <1>1, <1>4, <1>6, <1>8
    <2> QED BY <2>1, <2>2, <2>3 DEF PlaneInv
  <1> QED BY <1>1, <1>6, <1>9 DEF ConvInv

\* So does a row's last chunk.
LEMMA RowTailStep ==
  ASSUME ConvInv, RowTail
  PROVE  ConvInv'
  <1> DEFINE k == kernel.lanes
             j == at.col
  <1>1. /\ pc = "x" /\ pc' = "y" /\ j >= RowLimit
        /\ IF k = 8 THEN Chunk(4) ELSE UNCHANGED out
        /\ at' = [at EXCEPT !.y = at.y + 1]
        /\ UNCHANGED <<kernel, m, n, held, lane, acc, scratch>>
        /\ PlaneInv /\ InChannel /\ InChannel'
    BY DEF RowTail, ConvInv, InChannel
  <1>2. /\ ConvTypes /\ at.row \in Nat /\ at.part \in Nat /\ at.y \in Nat /\ j \in Nat
        /\ Side \in Nat /\ k \in {4, 8}
    BY <1>1, ChannelBasics
  <1>3. j = IF k = 8 THEN Side - 4 ELSE Side
    <2>1. RowLimit \in Nat /\ j <= RowLimit /\ RowLimit = IF k = 8 THEN Side - 4 ELSE Side
      BY <1>1, RowLimitIs
    <2> HIDE DEF j, k
    <2> QED BY <1>1, <1>2, <2>1
  <1>4. /\ at'.row = at.row /\ at'.part = at.part /\ at'.y = at.y + 1
        /\ at'.side = at.side /\ at' \in Counts
    <2> DEFINE w == at.y + 1
    <2>1. w \in Nat /\ at' = [at EXCEPT !.y = w] /\ at \in Counts
      BY <1>1, <1>2 DEF ConvTypes
    <2> HIDE DEF w
    <2>2. /\ at'.row = at.row /\ at'.part = at.part /\ at'.y = w
          /\ at'.side = at.side /\ at' \in Counts
      BY <2>1 DEF Counts
    <2> QED BY <2>2 DEF w
  <1>5. /\ out' = [a \in DOMAIN out |-> out'[a]]
        /\ \A a \in DOMAIN out :
             a < at.row * Image \/ a >= (at.row + 1) * Image => out'[a] = out[a]
        /\ \A y \in 0..Side - 1, x \in 0..Side - 1 :
             out'[Spot(at.row, y, x, Side)] =
               IF y = at.y /\ x >= j
               THEN Upto(at.row, y, x, at.part + 1, n, Side, Scale)
               ELSE out[Spot(at.row, y, x, Side)]
    <2>1. CASE k = 8
      <3>1. 4 \in Nat \ {0} /\ j + 4 <= Side
        <4> HIDE DEF j, k
        <4> QED BY <1>2, <1>3, <2>1
      <3>2. Chunk(4)
        BY <1>1, <2>1
      <3>3. /\ out' = [a \in DOMAIN out |-> out'[a]]
            /\ \A a \in DOMAIN out :
                 a < at.row * Image \/ a >= (at.row + 1) * Image => out'[a] = out[a]
        BY <1>1, <3>1, <3>2, ChunkStep
      <3>4. \A y \in 0..Side - 1, x \in 0..Side - 1 :
              out'[Spot(at.row, y, x, Side)] =
                IF y = at.y /\ x \in j..j + 4 - 1
                THEN Upto(at.row, y, x, at.part + 1, n, Side, Scale)
                ELSE out[Spot(at.row, y, x, Side)]
        BY <1>1, <3>1, <3>2, ChunkStep
      <3>5. \A x \in 0..Side - 1 : x \in j..j + 4 - 1 <=> x >= j
        <4> HIDE DEF j, k
        <4> QED BY <1>2, <1>3, <2>1
      <3>6. ASSUME NEW y \in 0..Side - 1, NEW x \in 0..Side - 1
            PROVE  out'[Spot(at.row, y, x, Side)] =
                     IF y = at.y /\ x >= j
                     THEN Upto(at.row, y, x, at.part + 1, n, Side, Scale)
                     ELSE out[Spot(at.row, y, x, Side)]
        <4>1. x \in j..j + 4 - 1 <=> x >= j
          BY <3>5
        <4> HIDE DEF j
        <4> QED BY <3>4, <4>1
      <3> QED BY <3>3, <3>6
    <2>2. CASE k = 4
      <3>1. out' = out /\ \A x \in 0..Side - 1 : ~(x >= j)
        <4>1. j = Side /\ out' = out
          BY <1>1, <1>3, <2>2
        <4> HIDE DEF j
        <4> QED BY <1>2, <4>1
      <3>2. out = [a \in 0..m * Image + Guard - 1 |-> out[a]]
        BY <1>2 DEF ConvTypes
      <3>3. DOMAIN out = 0..m * Image + Guard - 1
        BY <3>2
      <3>4. out = [a \in DOMAIN out |-> out[a]]
        BY <3>2, <3>3, Zenon
      <3>5. out' = [a \in DOMAIN out |-> out'[a]]
        BY <3>1, <3>4
      <3> HIDE DEF j
      <3>6. \A y \in 0..Side - 1, x \in 0..Side - 1 :
              out'[Spot(at.row, y, x, Side)] =
                IF y = at.y /\ x >= j
                THEN Upto(at.row, y, x, at.part + 1, n, Side, Scale)
                ELSE out[Spot(at.row, y, x, Side)]
        BY <3>1
      <3>7. \A a \in DOMAIN out : out'[a] = out[a]
        BY <3>1
      <3> QED BY <3>5, <3>6, <3>7
    <2> QED BY <1>2, <2>1, <2>2
  <1>6. /\ ConvTypes' /\ ChannelsInv' /\ ~Untouched' /\ (~kernel.multi => n = 1)'
        /\ (InChannel => at.row < m)' /\ Side' = Side /\ Scale' = Scale
    BY <1>1, <1>4, <1>5, PlaneKept
  <1>7. \A y \in 0..Side - 1, x \in 0..Side - 1 :
          Past(pc', at'.y, at'.col, y, x)
            <=> Past(pc, at.y, at.col, y, x) \/ (y = at.y /\ x >= j)
    <2>1. ASSUME NEW y \in 0..Side - 1, NEW x \in 0..Side - 1
          PROVE  /\ y < at.y + 1 <=> y < at.y \/ y = at.y
                 /\ x < j \/ x >= j
      <3> HIDE DEF j
      <3> QED BY <1>2
    <2>2. pc' = "y" /\ pc = "x" /\ at'.y = at.y + 1
      BY <1>1, <1>4
    <2> QED BY <2>1, <2>2 DEF Past
  <1>8. ASSUME NEW y \in 0..Side - 1, NEW x \in 0..Side - 1
        PROVE  IF Past(pc', at'.y, at'.col, y, x)
               THEN out'[Spot(at.row, y, x, Side)]
                      = Upto(at.row, y, x, at.part + 1, n, Side, Scale)
               ELSE kernel.multi \/ at.part > 0 =>
                      out'[Spot(at.row, y, x, Side)]
                        = Upto(at.row, y, x, at.part, n, Side, Scale)
    <2> DEFINE here == y = at.y /\ x >= j
               u == out'[Spot(at.row, y, x, Side)]
               v == out[Spot(at.row, y, x, Side)]
    <2>1. u = IF here THEN Upto(at.row, y, x, at.part + 1, n, Side, Scale) ELSE v
      BY <1>5
    <2>2. IF Past(pc, at.y, at.col, y, x)
          THEN v = Upto(at.row, y, x, at.part + 1, n, Side, Scale)
          ELSE kernel.multi \/ at.part > 0 => v = Upto(at.row, y, x, at.part, n, Side, Scale)
      BY <1>1 DEF PlaneInv
    <2>3. Past(pc', at'.y, at'.col, y, x) <=> Past(pc, at.y, at.col, y, x) \/ here
      BY <1>7
    <2> HIDE DEF here, u, v
    <2>4. IF Past(pc', at'.y, at'.col, y, x)
          THEN u = Upto(at.row, y, x, at.part + 1, n, Side, Scale)
          ELSE kernel.multi \/ at.part > 0 => u = Upto(at.row, y, x, at.part, n, Side, Scale)
      BY <2>1, <2>2, <2>3
    <2> QED BY <2>4 DEF u
  <1>9. PlaneInv'
    <2>1. /\ at'.part <= n' /\ at'.part < n' /\ pc' # "x"
          /\ lane' = [i \in 0..8 |-> {Cell("W", 9 * (at'.row * n' + at'.part) + i)} \cup Scale']
      BY <1>1, <1>4, <1>6 DEF PlaneInv
    <2>2. at'.y <= Side'
      <3>1. at.y < Side
        BY <1>1 DEF PlaneInv
      <3> QED BY <1>2, <1>4, <1>6, <3>1
    <2>3. \A y \in 0..Side' - 1, x \in 0..Side' - 1 :
            IF Past(pc', at'.y, at'.col, y, x)
            THEN out'[Spot(at'.row, y, x, Side')]
                   = Upto(at'.row, y, x, at'.part + 1, n', Side', Scale')
            ELSE kernel'.multi \/ at'.part > 0 =>
                   out'[Spot(at'.row, y, x, Side')]
                     = Upto(at'.row, y, x, at'.part, n', Side', Scale')
      BY <1>1, <1>4, <1>6, <1>8
    <2> QED BY <2>1, <2>2, <2>3 DEF PlaneInv
  <1> QED BY <1>1, <1>6, <1>9 DEF ConvInv
-----------------------------------------------------------------------------
\* Every step keeps the invariant.
LEMMA ConvStepKeeps ==
  ASSUME CInv, [Next]_vars
  PROVE  CInv'
  <1>1. CASE UNCHANGED vars
    <2>1. UNCHANGED <<kernel, m, n, held, at, lane, acc, out, pc>>
      BY <1>1 DEF vars
    <2>2. /\ Image' = Image /\ Side' = Side /\ Scale' = Scale /\ WeightsNeed' = WeightsNeed
          /\ RowLimit' = RowLimit /\ InChannel' = InChannel /\ Untouched' = Untouched
          /\ Checked' = Checked
      BY <2>1 DEF Image, Side, Scale, WeightsNeed, RowLimit, InChannel, Untouched, Checked
    <2>3. ConvTypes' = ConvTypes
      BY <2>1, <2>2 DEF ConvTypes
    <2>4. ChannelsInv' = ChannelsInv
      BY <2>1, <2>2 DEF ChannelsInv
    <2>5. FillInv' = FillInv
      BY <2>1, <2>2 DEF FillInv
    <2>6. PlaneInv' = PlaneInv
      BY <2>1, <2>2 DEF PlaneInv
    <2> QED BY <2>1, <2>2, <2>3, <2>4, <2>5, <2>6 DEF CInv, ConvInv
  <1>2. CASE Next
    <2>1. kernel' = kernel
      BY <1>2, MatrixPlaces, ConvPlaces, NormPlaces DEF Next
    <2>2. SUFFICES ASSUME kernel \in ConvKernels PROVE ConvInv'
      BY <2>1 DEF CInv
    <2>3. ConvInv /\ pc \in ConvPcs
      BY <2>2 DEF CInv, ConvInv, ConvTypes
    <2>4. ConvNext
      BY <1>2, <2>3, MatrixPlaces, NormPlaces DEF Next, ConvPcs
    <2> QED BY <2>3, <2>4, RefuseWeightsStep, DeriveStep, BeginChannelsStep, ChannelStep,
               ChannelsEndStep, FillStep, FillEndStep, WeightsStep, WeightsEndStep, ImageRowStep,
               ImageEndStep, VectorChunkStep, RowTailStep DEF ConvNext
  <1> QED BY <1>1, <1>2

\* The invariant at the end is the property.
LEMMA ConvDone ==
  ASSUME CInv
  PROVE  PlanesRight
  <1> SUFFICES ASSUME kernel \in ConvKernels
               PROVE  /\ pc = "done" =>
                           \A a \in DOMAIN out :
                             out[a] = IF a < m * Image
                                      THEN ExpectedPixel(a \div Image, (a % Image) \div Side, a % Side)
                                      ELSE Old(a)
                      /\ Checked /\ held < WeightsNeed => \A a \in DOMAIN out : out[a] = Old(a)
    BY DEF PlanesRight
  <1>1. ConvInv /\ ConvTypes
    BY DEF CInv, ConvInv
  <1>2. /\ DOMAIN out = 0..m * Image + Guard - 1 /\ n \in Nat /\ m \in Nat /\ held \in Nat
        /\ Side \in Nat /\ Image = Side * Side /\ Image \in Nat /\ WeightsNeed \in Nat
    <2>1. /\ DOMAIN out = 0..m * Image + Guard - 1 /\ n \in Nat /\ m \in Nat /\ held \in Nat
          /\ at.side \in Sides
      BY <1>1 DEF ConvTypes
    <2>2. Side \in Nat /\ Image = Side * Side /\ Image \in Nat
      BY <2>1, SideFacts DEF Side, Image
    <2>3. WeightsNeed \in Nat
      BY <2>1 DEF WeightsNeed
    <2> QED BY <2>1, <2>2, <2>3
  <1>3. ASSUME pc = "done", NEW a \in DOMAIN out
        PROVE  out[a] = IF a < m * Image
                        THEN ExpectedPixel(a \div Image, (a % Image) \div Side, a % Side)
                        ELSE Old(a)
    <2>1. ChannelsInv /\ at.row = m /\ ~InChannel
      BY <1>1, <1>3 DEF ConvInv, Untouched, InChannel, ChannelsInv
    <2>2. a \in Nat
      BY <1>2
    <2>3. CASE a < m * Image
      <3> DEFINE c == a \div Image
                 y == (a % Image) \div Side
                 x == a % Side
      <3>1. /\ c \in 0..m - 1 /\ y \in 0..Side - 1 /\ x \in 0..Side - 1
            /\ a = Spot(c, y, x, Side)
        BY <1>2, <2>2, <2>3, SpotOf
      <3> HIDE DEF c, y, x
      <3>2. out[a] = Upto(c, y, x, n, n, Side, Scale)
        BY <2>1, <3>1 DEF ChannelsInv
      <3>3. ExpectedPixel(c, y, x) = Upto(c, y, x, n, n, Side, Scale)
        BY <1>2, <3>1, UptoAll
      <3>4. out[a] = ExpectedPixel(c, y, x)
        BY <3>2, <3>3
      <3> QED BY <2>3, <3>4 DEF c, y, x
    <2>4. CASE ~(a < m * Image)
      <3>1. a >= m * Image
        <4> DEFINE t == m * Image
        <4>1. t \in Nat
          BY <1>2
        <4> HIDE DEF t
        <4>2. a >= t
          BY <2>2, <2>4, <4>1 DEF t
        <4> QED BY <4>2 DEF t
      <3>2. out[a] = Old(a)
        BY <1>2, <2>1, <3>1 DEF ChannelsInv
      <3> QED BY <2>4, <3>2
    <2> QED BY <2>3, <2>4
  <1>4. ASSUME held < WeightsNeed
        PROVE  \A a \in DOMAIN out : out[a] = Old(a)
    <2>1. Untouched
      BY <1>1, <1>2, <1>4 DEF ConvInv, ChannelsInv
    <2> QED BY <1>1, <1>2, <2>1 DEF ConvInv
  <1> QED BY <1>3, <1>4

\* PlanesRight: for images of every side in Sides and any number of channels,
\* each pixel is its bias and the nine products of each input channel
\* (arr_f64_conv2d_3x3_p1 to arr_i8_conv2d_3x3_p1_multi).
THEOREM PlanesAreRight == Spec => []PlanesRight
  <1>1. Init => CInv
    BY ConvStart, Families DEF Init, CInv, MatrixInit, NormInit
  <1>2. CInv /\ [Next]_vars => CInv'
    BY ConvStepKeeps
  <1> QED BY <1>1, <1>2, ConvDone, PTL DEF Spec
=============================================================================
