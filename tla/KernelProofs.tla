---------------------------- MODULE KernelProofs ----------------------------
(***************************************************************************)
(* Every array kernel stays in its windows, makes each element once of     *)
(* what its operands held before the call, and sums each index once, for   *)
(* every length, every placement of the windows and every element function.*)
(* The kernels' four lane counts are taken one by one: the arithmetic of   *)
(* "rounded down to full vectors" is linear only for a known divisor.      *)
(***************************************************************************)
EXTENDS Kernels, TLAPS

\* What the builtins have in common, as far as the argument needs it.
WellFormed(k) ==
  /\ k.form \in {"map", "reduce"}
  /\ k.lanes \in {1, 2, 4, 8}
  /\ k.reads \subseteq Operand
  /\ k.test \in {"mask", "ahead"} /\ k.sum \in {"before", "after"}
  /\ k.tail \in {"loop", "once", "none"}
  /\ k.tail = "once" => k.lanes = 2
  /\ k.sum = "after" => k.form = "reduce" /\ k.tail = "once"
  /\ k.form = "reduce" => (k.tail = "none" <=> k.lanes = 1)
  /\ k.form = "reduce" /\ k.tail = "once" => k.sum = "after"
  /\ k.tail = "none" => k.test = "mask"

\* The index register: a multiple of the lanes while vectors run, then past
\* the last full vector.  width follows the parts of the kernel.
IndexInv ==
  /\ pc = "vector" => idx % kernel.lanes = 0 /\ width = kernel.lanes
  /\ pc # "vector" => idx >= n - (n % kernel.lanes)
  /\ pc = "tail" => kernel.tail # "none"
  /\ pc = "tail" /\ kernel.tail = "once" => idx % 2 = 0
  /\ pc = "fold" => kernel.form = "reduce" /\ kernel.lanes > 1
  /\ pc = "fold" /\ kernel.sum = "after" => idx = n
  /\ pc = "done" => idx = Covered
  /\ kernel.form = "reduce" /\ pc \in {"tail", "done"} =>
       width = IF pc = "tail" /\ kernel.sum = "after" THEN 2 ELSE 1
  /\ width \in {1, 2, 4, 8}
  /\ width < kernel.lanes => 2 * width <= kernel.lanes

\* What the stores have done so far: the first idx elements.
Stored(a) == a - at["dst"] \in 0..idx - 1

Made(a) == F([o \in kernel.reads |-> Old(at[o] + (a - at["dst"]))])

MapInv ==
  kernel.form = "map" /\ Readable =>
    \A a \in Address : mem[a] = IF Stored(a) THEN Made(a) ELSE Old(a)

FrameInv ==
  \A a \in Address : mem[a] # Old(a) => kernel.form = "map" /\ Stored(a)

\* The lane that holds an index, after as many halvings as width tells.
LaneOf(i) ==
  IF width = kernel.lanes THEN i % kernel.lanes
  ELSE IF width = 1 THEN 0
  ELSE IF 2 * width = kernel.lanes THEN i % width
  ELSE (i % 4) \div 2

SumInv ==
  kernel.form = "reduce" =>
    \A l \in 0..width - 1, i \in Indices :
      acc[l][i] = IF i < idx /\ LaneOf(i) = l THEN 1 ELSE 0

KInv == TypeOK /\ IndexInv /\ MapInv /\ FrameInv /\ SumInv

-----------------------------------------------------------------------------
\* The fields of a record made by Shape.
LEMMA ShapeFields ==
  ASSUME NEW form, NEW lanes, NEW reads, NEW test, NEW tail, NEW sum
  PROVE  LET k == Shape(form, lanes, reads, test, tail, sum)
         IN  /\ k.form = form /\ k.lanes = lanes /\ k.reads = reads
             /\ k.test = test /\ k.tail = tail /\ k.sum = sum
  BY DEF Shape

\* Maps are well formed.
LEMMA MapShape ==
  ASSUME NEW lanes \in {4, 8}, NEW reads \in SUBSET Operand
  PROVE  WellFormed(Map(lanes, reads)) /\ WellFormed(Padded(reads))
  BY ShapeFields DEF WellFormed, Map, Padded

\* Sums are well formed.
LEMMA ReduceShape ==
  ASSUME NEW lanes \in {4, 8}, NEW reads \in SUBSET Operand
  PROVE  WellFormed(Reduce(lanes, reads))
  BY ShapeFields DEF WellFormed, Reduce

\* Builtins without a vector loop are well formed.
LEMMA ScalarShape ==
  ASSUME NEW form \in {"map", "reduce"}, NEW reads \in SUBSET Operand
  PROVE  WellFormed(Scalar(form, reads))
  BY ShapeFields DEF WellFormed, Scalar

\* So are the three whose vector loop looks ahead.
LEMMA AheadShape ==
  WellFormed(arr_sum_avx2) /\ WellFormed(arr_sum_sse2) /\ WellFormed(arr_fill)
  BY ShapeFields
     DEF WellFormed, arr_sum_avx2, arr_sum_sse2, arr_fill, Operand

\* All the builtins are well formed.
LEMMA ShapeWellFormed ==
  \A k \in Builtins : WellFormed(k)
  <1> DEFINE Reads == {{}, {"x"}, {"dst"}, {"x", "y"}, {"dst", "x"}, {"dst", "x", "y"}}
  <1>0. Reads \subseteq SUBSET Operand
    BY DEF Operand
  <1>m. \A l \in {4, 8}, r \in Reads : WellFormed(Map(l, r)) /\ WellFormed(Padded(r))
    BY <1>0, MapShape
  <1>r. \A l \in {4, 8}, r \in Reads : WellFormed(Reduce(l, r))
    BY <1>0, ReduceShape
  <1>s. \A f \in {"map", "reduce"}, r \in Reads : WellFormed(Scalar(f, r))
    BY <1>0, ScalarShape
  <1>1. \A k \in Integral : WellFormed(k)
    BY <1>s, AheadShape DEF Integral, arr_scale, arr_dot
  <1>2. \A k \in Sums : WellFormed(k)
    BY <1>r, <1>s DEF Sums, arr_f64_sum, arr_f64_sum_range, arr_f64_dot,
       arr_f64_dot_range, arr_f64_sum_kahan, arr_f32_sum, arr_f32_dot,
       arr_f32_dot_range
  <1>3. \A k \in Functions : WellFormed(k)
    BY <1>m DEF Functions, arr_f64_tanh, arr_f64_sigmoid, arr_f64_exp,
       arr_f32_exp, arr_f32_silu, arr_f64_log, arr_f64_log1p, arr_f64_expm1,
       arr_f64_relu, arr_f32_relu
  <1>4. \A k \in Updates : WellFormed(k)
    BY <1>m, <1>s DEF Updates, arr_f64_sub, arr_f64_mul, arr_f32_mul,
       arr_f64_adam_apply, arr_f32_adam_apply, arr_f64_scale, arr_f32_scale,
       arr_f64_add_scaled, arr_f32_add_scaled
  <1>5. \A k \in Copies : WellFormed(k)
    BY <1>m DEF Copies, arr_f64_fill, arr_f32_fill, arr_f64_copy_slice,
       arr_f32_copy_slice, arr_f64_copy_at, arr_f32_copy_at
  <1> QED BY <1>1, <1>2, <1>3, <1>4, <1>5 DEF Builtins

\* The invariant holds at the entry of every builtin.
LEMMA InvInit == Init => KInv
  <1> SUFFICES ASSUME Init PROVE KInv
    OBVIOUS
  <1>1. WellFormed(kernel)
    BY ShapeWellFormed DEF Init
  <1>2. TypeOK
    BY <1>1, SizesAssumption DEF Init, TypeOK, WellFormed, Lanes, Indices
  <1>3. IndexInv
    BY <1>1, SizesAssumption DEF Init, IndexInv, WellFormed
  <1>4. MapInv /\ FrameInv
    BY SizesAssumption DEF Init, MapInv, FrameInv, Stored, Address
  <1>5. SumInv
    <2>1. \A l \in Lanes : \A i \in Indices : acc[l][i] = 0
      BY DEF Init
    <2>2. \A i \in Indices : ~(i < idx)
      BY SizesAssumption DEF Init, Indices
    <2> QED BY <2>1, <2>2 DEF SumInv, Lanes, Init
  <1> QED BY <1>2, <1>3, <1>4, <1>5 DEF KInv

-----------------------------------------------------------------------------
\* What the steps need to know of the builtin, the lengths and the windows.
LEMMA Facts ==
  ASSUME KInv
  PROVE  /\ WellFormed(kernel) /\ kernel.lanes \in {1, 2, 4, 8}
         /\ n \in Nat /\ idx \in Nat /\ idx <= n /\ n <= MaxLength
         /\ MaxLength \in Nat /\ Top \in Nat
         /\ \A o \in Operands(kernel) :
              at[o] \in Nat /\ at[o] + MaxLength <= Top + 1
         /\ kernel.form = "map" => "dst" \in Operands(kernel)
  <1>1. TypeOK
    BY DEF KInv
  <1>2. WellFormed(kernel)
    BY <1>1, ShapeWellFormed DEF TypeOK
  <1>3. kernel.lanes \in {1, 2, 4, 8}
    BY <1>2 DEF WellFormed
  <1>4. n \in Nat /\ n <= MaxLength /\ MaxLength \in Nat /\ Top \in Nat
    BY <1>1, SizesAssumption DEF TypeOK
  <1>5. idx \in Nat /\ idx <= n
    BY <1>1, <1>4 DEF TypeOK
  <1>6. ASSUME NEW o \in Operands(kernel)
        PROVE  at[o] \in Nat /\ at[o] + MaxLength <= Top + 1
    <2>1. at[o] \in Bases
      BY <1>1 DEF TypeOK
    <2> QED BY <2>1, SizesAssumption
  <1>7. kernel.form = "map" => "dst" \in Operands(kernel)
    BY DEF Operands
  <1> QED BY <1>2, <1>3, <1>4, <1>5, <1>6, <1>7

\* A vector that runs lies within the array; one that does not leaves less
\* than a vector.
LEMMA VectorBounds ==
  ASSUME KInv, pc = "vector"
  PROVE  /\ VectorRuns => idx + kernel.lanes <= n
                          /\ (idx + kernel.lanes) % kernel.lanes = 0
         /\ ~VectorRuns => idx = n - (n % kernel.lanes)
  <1>1. idx % kernel.lanes = 0
    BY DEF KInv, IndexInv
  <1>2. /\ idx < n - (n % kernel.lanes) => idx + kernel.lanes <= n
        /\ idx >= n - (n % kernel.lanes) <=> ~(idx + kernel.lanes <= n)
        /\ (idx + kernel.lanes) % kernel.lanes = 0
        /\ n - (n % kernel.lanes) \in 0..n
        /\ idx <= n => idx <= n - (n % kernel.lanes)
    <2>0. kernel.lanes \in {1, 2, 4, 8} /\ idx \in Nat /\ n \in Nat
      BY Facts
    <2>1. CASE kernel.lanes = 1 BY <1>1, <2>0, <2>1
    <2>2. CASE kernel.lanes = 2 BY <1>1, <2>0, <2>2
    <2>3. CASE kernel.lanes = 4 BY <1>1, <2>0, <2>3
    <2>4. CASE kernel.lanes = 8 BY <1>1, <2>0, <2>4
    <2> QED BY <2>0, <2>1, <2>2, <2>3, <2>4
  <1>3. kernel.lanes \in Nat /\ n - (n % kernel.lanes) \in Int
    BY <1>2, Facts
  <1> QED BY <1>2, <1>3, Facts DEF VectorRuns

\* Nothing that a Readable kernel still reads has been stored over.
LEMMA ReadsOriginal ==
  ASSUME KInv, kernel.form = "map", Readable, NEW i \in idx..n - 1
  PROVE  Element(i) = F([o \in kernel.reads |-> Old(at[o] + i)])
  <1>1. ASSUME NEW o \in kernel.reads
        PROVE  mem[at[o] + i] = Old(at[o] + i)
    <2>1. /\ at[o] \in Nat /\ at["dst"] \in Nat /\ i \in Nat /\ i < n
          /\ at[o] + MaxLength <= Top + 1
      BY Facts DEF Operands
    <2>2. at[o] + i \in Address
      BY <2>1, Facts DEF Address
    <2>3. at[o] >= at["dst"] \/ at[o] + n <= at["dst"]
      BY DEF Readable
    <2>4. ~Stored(at[o] + i)
      BY <2>1, <2>3, Facts DEF Stored
    <2> QED BY <2>2, <2>4 DEF KInv, MapInv
  <1>2. [o \in kernel.reads |-> mem[at[o] + i]]
          = [o \in kernel.reads |-> Old(at[o] + i)]
    BY <1>1
  <1> QED BY <1>2 DEF Element

\* A turn of the vector loop of a map.
LEMMA VectorMapInv == ASSUME KInv, VectorMap PROVE KInv'
  <1>1. /\ idx + kernel.lanes <= n
        /\ (idx + kernel.lanes) % kernel.lanes = 0
    BY VectorBounds DEF VectorMap
  <1>2. idx' \in Nat /\ idx' = idx + kernel.lanes /\ idx' <= n /\ idx < idx'
    BY <1>1, Facts DEF VectorMap
  <1>3. TypeOK'
    BY <1>2, Facts DEF VectorMap, KInv, TypeOK, Lanes, Indices
  <1>4. IndexInv'
    BY <1>1, <1>2 DEF VectorMap, KInv, IndexInv
  <1>5. ASSUME NEW a \in Address
        PROVE  /\ a - at["dst"] \in Int
               /\ Stored(a)' <=> Stored(a) \/ a - at["dst"] \in idx..idx + kernel.lanes - 1
               /\ a - at["dst"] \in idx..idx + kernel.lanes - 1 =>
                    /\ ~Stored(a)
                    /\ a - at["dst"] \in idx..n - 1
                    /\ mem'[a] = Element(a - at["dst"])
               /\ a - at["dst"] \notin idx..idx + kernel.lanes - 1 =>
                    mem'[a] = mem[a]
    <2>1. a \in Int /\ at["dst"] \in Nat /\ a - at["dst"] \in Int
      BY Facts DEF Address, VectorMap
    <2>2. at' = at /\ idx' = idx + kernel.lanes
      BY DEF VectorMap
    <2>3. mem'[a] = IF a - at["dst"] \in idx..idx + kernel.lanes - 1
                    THEN Element(a - at["dst"]) ELSE mem[a]
      BY DEF VectorMap
    <2> QED BY <2>1, <2>2, <2>3, <1>1, Facts DEF Stored
  <1>6. MapInv'
    <2> SUFFICES ASSUME Readable, NEW a \in Address
                 PROVE  mem'[a] = IF Stored(a)' THEN Made(a) ELSE Old(a)
      BY DEF MapInv, Readable, Made, VectorMap
    <2>1. mem[a] = IF Stored(a) THEN Made(a) ELSE Old(a)
      BY DEF KInv, MapInv, VectorMap
    <2>2. a - at["dst"] \in idx..idx + kernel.lanes - 1 =>
            Element(a - at["dst"]) = Made(a)
      BY <1>5, ReadsOriginal DEF Made, VectorMap
    <2> QED BY <1>5, <2>1, <2>2
  <1>7. FrameInv'
    BY <1>5 DEF FrameInv, KInv, VectorMap
  <1>8. SumInv'
    BY DEF SumInv, VectorMap
  <1> QED BY <1>3, <1>4, <1>6, <1>7, <1>8 DEF KInv

\* A turn of the vector loop of a sum.
LEMMA VectorReduceInv == ASSUME KInv, VectorReduce PROVE KInv'
  <1>1. /\ idx + kernel.lanes <= n
        /\ (idx + kernel.lanes) % kernel.lanes = 0
    BY VectorBounds DEF VectorReduce
  <1>2. idx' \in Nat /\ idx' = idx + kernel.lanes /\ idx' <= n
    BY <1>1, Facts DEF VectorReduce
  <1>3. \A l \in Lanes : idx + l \in Indices
    BY <1>1, Facts DEF Lanes, Indices
  <1>4. \A l \in Lanes, j \in Indices :
          acc'[l][j] = IF j = idx + l THEN acc[l][j] + 1 ELSE acc[l][j]
    BY <1>3 DEF VectorReduce, KInv, TypeOK
  <1>5. acc' \in [Lanes -> [Indices -> Nat]]
    BY <1>3 DEF VectorReduce, KInv, TypeOK
  <1>6. TypeOK'
    BY <1>2, <1>5 DEF VectorReduce, KInv, TypeOK, Lanes, Indices
  <1>7. IndexInv'
    BY <1>1, <1>2 DEF VectorReduce, KInv, IndexInv
  <1>8. MapInv' /\ FrameInv'
    BY DEF VectorReduce, KInv, MapInv, FrameInv
  <1>9. SumInv'
    <2>1. idx % kernel.lanes = 0 /\ width = kernel.lanes /\ width' = width
      BY DEF VectorReduce, KInv, IndexInv
    <2>0. kernel' = kernel /\ n' = n
      BY DEF VectorReduce
    <2>l. /\ \A j : LaneOf(j)' = j % kernel.lanes
          /\ 0..width' - 1 = Lanes /\ Indices' = Indices
      BY <2>0, <2>1 DEF LaneOf, Lanes, Indices
    <2> SUFFICES ASSUME NEW l \in Lanes, NEW j \in Indices
                 PROVE  acc'[l][j] = IF j < idx' /\ j % kernel.lanes = l THEN 1 ELSE 0
      BY <2>l DEF SumInv
    <2>r. kernel.form = "reduce" /\ LaneOf(j) = j % kernel.lanes
      <3>1. kernel.form = "reduce" BY DEF VectorReduce
      <3>2. LaneOf(j) = j % kernel.lanes BY <2>1 DEF LaneOf
      <3> QED BY <3>1, <3>2
    <2>2. acc[l][j] = IF j < idx /\ j % kernel.lanes = l THEN 1 ELSE 0
      BY <2>1, <2>r DEF SumInv, Lanes, KInv
    <2>4. j \in Nat /\ kernel.lanes \in {1, 2, 4, 8} /\ idx \in Nat
          /\ l \in 0..kernel.lanes - 1
      BY Facts DEF Indices, Lanes
    <2>3. j = idx + l <=> j >= idx /\ j < idx + kernel.lanes /\ j % kernel.lanes = l
      <3>1. CASE kernel.lanes = 1 BY <2>1, <2>4, <3>1
      <3>2. CASE kernel.lanes = 2 BY <2>1, <2>4, <3>2
      <3>3. CASE kernel.lanes = 4 BY <2>1, <2>4, <3>3
      <3>4. CASE kernel.lanes = 8 BY <2>1, <2>4, <3>4
      <3> QED BY <2>4, <3>1, <3>2, <3>3, <3>4
    <2> QED BY <1>2, <1>4, <2>2, <2>3, <2>4, Facts
  <1> QED BY <1>6, <1>7, <1>8, <1>9 DEF KInv

-----------------------------------------------------------------------------
\* Leaving the vector loop.
LEMMA VectorEndInv == ASSUME KInv, VectorEnd PROVE KInv'
  <1>1. idx = n - (n % kernel.lanes)
    BY VectorBounds DEF VectorEnd
  <1>2. pc = "vector" /\ pc' = Then("vector") /\ idx % kernel.lanes = 0
        /\ UNCHANGED <<kernel, n, at, mem, idx, acc, width>>
        /\ width = kernel.lanes
    BY DEF VectorEnd, KInv, IndexInv
  <1>3. WellFormed(kernel) /\ kernel.lanes \in {1, 2, 4, 8}
        /\ n \in Nat /\ idx \in Nat
    BY Facts
  <1>4. pc' \in {"fold", "tail", "done"}
        /\ (pc' = "fold" => kernel.form = "reduce" /\ kernel.lanes > 1
                             /\ kernel.sum = "before")
        /\ (pc' = "tail" => kernel.tail # "none"
                             /\ (kernel.form = "reduce" => kernel.sum = "after"))
        /\ (pc' = "done" => kernel.tail = "none")
    BY <1>2, <1>3 DEF Then, FoldFollows, TailFollows, WellFormed
  <1>5. TypeOK'
    BY <1>2, <1>4 DEF KInv, TypeOK, Lanes, Indices
  <1>6. IndexInv'
    BY <1>1, <1>2, <1>3, <1>4 DEF IndexInv, KInv, WellFormed, Covered
  <1>7. MapInv' /\ FrameInv' /\ SumInv'
    BY <1>2 DEF KInv, MapInv, FrameInv, SumInv, Readable, Stored, Made,
                LaneOf, Indices
  <1> QED BY <1>5, <1>6, <1>7 DEF KInv

\* The end of the horizontal sum.
LEMMA FoldEndInv == ASSUME KInv, FoldEnd PROVE KInv'
  <1>1. pc = "fold" /\ pc' = Then("fold") /\ width = 1
        /\ UNCHANGED <<kernel, n, at, mem, idx, acc, width>>
        /\ kernel.form = "reduce" /\ kernel.lanes > 1
        /\ idx >= n - (n % kernel.lanes)
        /\ (kernel.sum = "after" => idx = n)
    BY DEF FoldEnd, KInv, IndexInv
  <1>2. WellFormed(kernel) /\ kernel.lanes \in {1, 2, 4, 8}
        /\ n \in Nat /\ idx \in Nat
    BY Facts
  <1>3. kernel.tail # "none" /\ (kernel.tail = "once" => kernel.sum = "after")
    BY <1>1, <1>2 DEF WellFormed
  <1>4. \/ pc' = "tail" /\ kernel.sum = "before"
        \/ pc' = "done" /\ kernel.sum = "after"
    BY <1>1, <1>2, <1>3 DEF Then, FoldFollows, TailFollows, WellFormed
  <1>5. TypeOK'
    BY <1>1, <1>4 DEF KInv, TypeOK, Lanes, Indices
  <1>6. IndexInv'
    BY <1>1, <1>2, <1>3, <1>4 DEF IndexInv, KInv, WellFormed, Covered
  <1>7. MapInv' /\ FrameInv' /\ SumInv'
    BY <1>1 DEF KInv, MapInv, FrameInv, SumInv, Readable, Stored, Made,
                LaneOf, Indices
  <1> QED BY <1>5, <1>6, <1>7 DEF KInv

\* Leaving the scalar tail.
LEMMA TailEndInv == ASSUME KInv, TailEnd PROVE KInv'
  <1>1. pc = "tail" /\ pc' = Then("tail") /\ idx >= n
        /\ UNCHANGED <<kernel, n, at, mem, idx, acc, width>>
        /\ kernel.tail # "none" /\ idx >= n - (n % kernel.lanes)
        /\ (kernel.form = "reduce" =>
              width = IF kernel.sum = "after" THEN 2 ELSE 1)
    BY DEF TailEnd, KInv, IndexInv
  <1>2. WellFormed(kernel) /\ kernel.lanes \in {1, 2, 4, 8}
        /\ n \in Nat /\ idx \in Nat /\ idx = n
    BY <1>1, Facts
  <1>3. \/ pc' = "fold" /\ kernel.sum = "after" /\ kernel.form = "reduce"
           /\ kernel.lanes > 1
        \/ pc' = "done" /\ (kernel.form = "reduce" => kernel.sum = "before")
    BY <1>1, <1>2 DEF Then, FoldFollows, TailFollows, WellFormed
  <1>4. TypeOK'
    BY <1>1, <1>3 DEF KInv, TypeOK, Lanes, Indices
  <1>5. IndexInv'
    BY <1>1, <1>2, <1>3 DEF IndexInv, KInv, WellFormed, Covered
  <1>6. MapInv' /\ FrameInv' /\ SumInv'
    BY <1>1 DEF KInv, MapInv, FrameInv, SumInv, Readable, Stored, Made,
                LaneOf, Indices
  <1> QED BY <1>4, <1>5, <1>6 DEF KInv

\* One step of the horizontal sum gathers, in each lane that stays alive, what
\* two different lanes held.
LEMMA FoldLanes ==
  ASSUME KInv, Fold, NEW i \in Nat, NEW l \in 0..(width \div 2) - 1
  PROVE  /\ Left(l) \in 0..width - 1 /\ Right(l) \in 0..width - 1
         /\ Left(l) # Right(l)
         /\ LaneOf(i)' = l <=> LaneOf(i) \in {Left(l), Right(l)}
  <1>1. kernel.lanes \in {1, 2, 4, 8}
    BY Facts
  <1>2. width > 1 /\ width' = width \div 2 /\ kernel' = kernel
        /\ width \in {1, 2, 4, 8} /\ width <= kernel.lanes
        /\ (width < kernel.lanes => 2 * width <= kernel.lanes)
    BY <1>1 DEF Fold, KInv, IndexInv, TypeOK
  <1>3. CASE width = 2 /\ kernel.lanes = 2
    BY <1>2, <1>3 DEF Left, Right, LaneOf
  <1>4. CASE width = 4 /\ kernel.lanes = 4
    BY <1>2, <1>4 DEF Left, Right, LaneOf
  <1>5. CASE width = 8 /\ kernel.lanes = 8
    BY <1>2, <1>5 DEF Left, Right, LaneOf
  <1>6. CASE width = 2 /\ kernel.lanes = 4
    BY <1>2, <1>6 DEF Left, Right, LaneOf
  <1>7. CASE width = 4 /\ kernel.lanes = 8
    BY <1>2, <1>7 DEF Left, Right, LaneOf
  <1>8. CASE width = 2 /\ kernel.lanes = 8
    BY <1>2, <1>8 DEF Left, Right, LaneOf
  <1> QED BY <1>1, <1>2, <1>3, <1>4, <1>5, <1>6, <1>7, <1>8

\* One instruction of the horizontal sum.
LEMMA FoldInv == ASSUME KInv, Fold PROVE KInv'
  <1>1. /\ pc = "fold" /\ kernel.form = "reduce" /\ kernel.lanes > 1
        /\ width > 1 /\ width' = width \div 2 /\ width \in {1, 2, 4, 8}
        /\ width <= kernel.lanes /\ kernel.lanes \in {1, 2, 4, 8}
        /\ UNCHANGED <<kernel, n, at, mem, idx, pc>>
    BY Facts DEF Fold, KInv, IndexInv, TypeOK
  <1>2. \A l \in 0..(width \div 2) - 1, i \in Indices :
          /\ Left(l) \in 0..width - 1 /\ Right(l) \in 0..width - 1
          /\ Left(l) # Right(l)
          /\ LaneOf(i)' = l <=> LaneOf(i) \in {Left(l), Right(l)}
    <2>1. Indices \subseteq Nat BY Facts DEF Indices
    <2> QED BY <2>1, FoldLanes
  <1>3. \A l \in 0..(width \div 2) - 1, i \in Indices :
          acc'[l][i] = acc[Left(l)][i] + acc[Right(l)][i]
    BY <1>1 DEF Fold, Lanes
  <1>4. acc' \in [Lanes -> [Indices -> Nat]]
    <2>1. acc \in [Lanes -> [Indices -> Nat]]
      BY DEF KInv, TypeOK
    <2>2. \A l \in Lanes : l < width \div 2 =>
            Left(l) \in Lanes /\ Right(l) \in Lanes
      BY <1>1 DEF Left, Right, Lanes
    <2>3. \A l \in Lanes : l < width \div 2 =>
            [i \in Indices |-> acc[Left(l)][i] + acc[Right(l)][i]]
              \in [Indices -> Nat]
      BY <2>1, <2>2
    <2> QED BY <2>1, <2>3 DEF Fold
  <1>5. TypeOK'
    BY <1>1, <1>4 DEF KInv, TypeOK, Lanes, Indices
  <1>6. IndexInv'
    BY <1>1 DEF IndexInv, KInv, Covered
  <1>7. MapInv' /\ FrameInv'
    BY <1>1 DEF KInv, MapInv, FrameInv
  <1>8. SumInv'
    <2> SUFFICES ASSUME NEW l \in 0..(width \div 2) - 1, NEW i \in Indices
                 PROVE  acc'[l][i] = IF i < idx /\ LaneOf(i)' = l THEN 1 ELSE 0
      BY <1>1 DEF SumInv, Indices
    <2>1. \A m \in 0..width - 1 :
            acc[m][i] = IF i < idx /\ LaneOf(i) = m THEN 1 ELSE 0
      BY <1>1 DEF KInv, SumInv
    <2>2. /\ acc[Left(l)][i] = IF i < idx /\ LaneOf(i) = Left(l) THEN 1 ELSE 0
          /\ acc[Right(l)][i] = IF i < idx /\ LaneOf(i) = Right(l) THEN 1 ELSE 0
      BY <1>2, <2>1
    <2> QED BY <1>2, <1>3, <2>2
  <1> QED BY <1>5, <1>6, <1>7, <1>8 DEF KInv

-----------------------------------------------------------------------------
\* What a step of the tail does to the index and where it goes from there.
LEMMA TailStepFacts ==
  ASSUME KInv, TailStep
  PROVE  /\ idx \in Nat /\ idx' = idx + 1 /\ idx' \in 0..n
         /\ pc' \in {"tail", "fold", "done"}
         /\ IndexInv'
  <1>1. /\ pc = "tail" /\ idx < n /\ idx' = idx + 1
        /\ UNCHANGED <<kernel, n, at, width>>
        /\ pc' = IF kernel.tail = "once" THEN Then("tail") ELSE "tail"
        /\ idx >= n - (n % kernel.lanes) /\ kernel.tail # "none"
        /\ (kernel.tail = "once" => idx % 2 = 0)
        /\ (kernel.form = "reduce" =>
              width = IF kernel.sum = "after" THEN 2 ELSE 1)
        /\ width \in {1, 2, 4, 8}
        /\ (width < kernel.lanes => 2 * width <= kernel.lanes)
    BY DEF TailStep, KInv, IndexInv
  <1>2. WellFormed(kernel) /\ kernel.lanes \in {1, 2, 4, 8}
        /\ n \in Nat /\ idx \in Nat
    BY Facts
  <1>3. kernel.tail = "once" => idx + 1 = n
    <2>1. kernel.tail = "once" => kernel.lanes = 2
      BY <1>2 DEF WellFormed
    <2> QED BY <1>1, <1>2, <2>1
  <1>4. kernel.tail = "once" =>
          \/ pc' = "fold" /\ kernel.sum = "after" /\ kernel.form = "reduce"
             /\ kernel.lanes > 1
          \/ pc' = "done" /\ kernel.form # "reduce"
    BY <1>1, <1>2 DEF Then, FoldFollows, TailFollows, WellFormed
  <1>5. kernel.tail # "once" => pc' = "tail"
    BY <1>1
  <1>6. idx' >= n - (n % kernel.lanes)
    BY <1>1, <1>2
  <1>7. IndexInv'
    BY <1>1, <1>2, <1>3, <1>4, <1>5, <1>6 DEF IndexInv, WellFormed, Covered
  <1> QED BY <1>1, <1>2, <1>4, <1>5, <1>7

\* A turn of the scalar tail of a map.
LEMMA TailMapInv == ASSUME KInv, TailMap PROVE KInv'
  <1>1. /\ kernel.form = "map" /\ idx < n
        /\ UNCHANGED <<kernel, n, at, width, acc>>
        /\ mem' = [mem EXCEPT ![at["dst"] + idx] = Element(idx)]
    BY DEF TailMap, TailStep
  <1>2. /\ idx \in Nat /\ idx' = idx + 1 /\ idx' \in 0..n
        /\ pc' \in {"tail", "fold", "done"} /\ IndexInv'
    BY TailStepFacts DEF TailMap
  <1>3. DOMAIN mem' = Address
    BY <1>1 DEF KInv, TypeOK
  <1>4. TypeOK'
    BY <1>1, <1>2, <1>3 DEF KInv, TypeOK, Lanes, Indices
  <1>5. ASSUME NEW a \in Address
        PROVE  /\ a - at["dst"] \in Int
               /\ Stored(a)' <=> Stored(a) \/ a - at["dst"] = idx
               /\ a - at["dst"] = idx =>
                    ~Stored(a) /\ mem'[a] = Element(a - at["dst"])
               /\ a - at["dst"] # idx => mem'[a] = mem[a]
    <2>1. a \in Int /\ at["dst"] \in Nat
      BY <1>1, Facts DEF Address
    <2>2. mem'[a] = IF a = at["dst"] + idx THEN Element(idx) ELSE mem[a]
      BY <1>1 DEF KInv, TypeOK
    <2>3. at' = at /\ idx' = idx + 1
      BY <1>1, <1>2
    <2> QED BY <2>1, <2>2, <2>3, <1>2 DEF Stored
  <1>6. MapInv'
    <2> SUFFICES ASSUME Readable, NEW a \in Address
                 PROVE  mem'[a] = IF Stored(a)' THEN Made(a) ELSE Old(a)
      BY <1>1 DEF MapInv, Readable, Made
    <2>1. mem[a] = IF Stored(a) THEN Made(a) ELSE Old(a)
      BY <1>1 DEF KInv, MapInv
    <2>2. a - at["dst"] = idx => Element(a - at["dst"]) = Made(a)
      <3>1. idx \in idx..n - 1
        BY <1>1, <1>2, Facts
      <3> QED BY <1>1, <3>1, ReadsOriginal DEF Made
    <2> QED BY <1>5, <2>1, <2>2
  <1>7. FrameInv'
    BY <1>1, <1>5 DEF FrameInv, KInv
  <1>8. SumInv'
    BY <1>1 DEF SumInv
  <1> QED BY <1>2, <1>4, <1>6, <1>7, <1>8 DEF KInv

\* A turn of the scalar tail of a sum.
LEMMA TailReduceInv == ASSUME KInv, TailReduce PROVE KInv'
  <1>1. /\ kernel.form = "reduce" /\ idx < n /\ pc = "tail"
        /\ UNCHANGED <<kernel, n, at, width, mem>>
        /\ acc' = [acc EXCEPT ![0][idx] = @ + 1]
    BY DEF TailReduce, TailStep
  <1>2. /\ idx \in Nat /\ idx' = idx + 1 /\ idx' \in 0..n
        /\ pc' \in {"tail", "fold", "done"} /\ IndexInv'
    BY TailStepFacts DEF TailReduce
  <1>3. WellFormed(kernel) /\ kernel.lanes \in {1, 2, 4, 8} /\ n \in Nat
    BY Facts
  <1>4. 0 \in Lanes /\ idx \in Indices
    BY <1>1, <1>2, <1>3 DEF Lanes, Indices
  <1>5. acc \in [Lanes -> [Indices -> Nat]]
    BY DEF KInv, TypeOK
  <1>6. acc' \in [Lanes -> [Indices -> Nat]]
        /\ \A l \in Lanes, i \in Indices :
             acc'[l][i] = IF l = 0 /\ i = idx THEN acc[l][i] + 1 ELSE acc[l][i]
    BY <1>1, <1>4, <1>5
  <1>7. TypeOK'
    BY <1>1, <1>2, <1>6 DEF KInv, TypeOK, Lanes, Indices
  <1>8. MapInv' /\ FrameInv'
    BY <1>1 DEF MapInv, FrameInv, KInv
  <1>9. LaneOf(idx) = 0
    <2>1. /\ width = IF kernel.sum = "after" THEN 2 ELSE 1
          /\ (kernel.tail = "once" => idx % 2 = 0)
      BY <1>1 DEF KInv, IndexInv
    <2>2. CASE kernel.sum = "after"
      <3>1. kernel.lanes = 2 /\ kernel.tail = "once"
        BY <1>3, <2>2 DEF WellFormed
      <3> QED BY <2>1, <2>2, <3>1 DEF LaneOf
    <2>3. CASE kernel.sum # "after"
      <3>1. width = 1 BY <2>1, <2>3
      <3>2. kernel.lanes = 1 => idx % kernel.lanes = 0
        BY <1>2
      <3> QED BY <3>1, <3>2 DEF LaneOf
    <2> QED BY <2>2, <2>3
  <1>10. SumInv'
    <2>1. width \in 1..kernel.lanes
      BY DEF KInv, TypeOK
    <2> SUFFICES ASSUME NEW l \in 0..width - 1, NEW i \in Indices
                 PROVE  acc'[l][i] = IF i < idx + 1 /\ LaneOf(i) = l THEN 1 ELSE 0
      BY <1>1, <1>2 DEF SumInv, LaneOf, Indices
    <2>2. acc[l][i] = IF i < idx /\ LaneOf(i) = l THEN 1 ELSE 0
      BY <1>1 DEF KInv, SumInv
    <2>3. l \in Lanes /\ i \in Nat
      BY <1>3, <2>1 DEF Lanes, Indices
    <2> QED BY <1>2, <1>6, <1>9, <2>2, <2>3
  <1> QED BY <1>2, <1>7, <1>8, <1>10 DEF KInv

-----------------------------------------------------------------------------
\* The invariant is inductive.
LEMMA InvNext == KInv /\ [Next]_vars => KInv'
  <1> SUFFICES ASSUME KInv, [Next]_vars PROVE KInv'
    OBVIOUS
  <1>1. CASE VectorMap BY <1>1, VectorMapInv
  <1>2. CASE VectorReduce BY <1>2, VectorReduceInv
  <1>3. CASE VectorEnd BY <1>3, VectorEndInv
  <1>4. CASE Fold BY <1>4, FoldInv
  <1>5. CASE FoldEnd BY <1>5, FoldEndInv
  <1>6. CASE TailMap BY <1>6, TailMapInv
  <1>7. CASE TailReduce BY <1>7, TailReduceInv
  <1>8. CASE TailEnd BY <1>8, TailEndInv
  <1>9. CASE UNCHANGED vars
    <2>1. UNCHANGED <<kernel, n, at, mem, idx, acc, width, pc>>
      BY <1>9 DEF vars
    <2>2. TypeOK' /\ IndexInv'
      BY <2>1 DEF KInv, TypeOK, IndexInv, Lanes, Indices, Covered
    <2>3. MapInv' /\ FrameInv'
      BY <2>1 DEF KInv, MapInv, FrameInv, Readable, Stored, Made
    <2>4. SumInv'
      BY <2>1 DEF KInv, SumInv, LaneOf, Indices
    <2> QED BY <2>2, <2>3, <2>4 DEF KInv
  <1> QED BY <1>1, <1>2, <1>3, <1>4, <1>5, <1>6, <1>7, <1>8, <1>9 DEF Next

\* The kernels' loops keep the inductive invariant.
THEOREM KernelInvariant == Spec => []KInv
  <1> QED BY InvInit, InvNext, PTL DEF Spec

\* The registers, windows and lane counts of every builtin have their types,
\* the index never leaves the array.
THEOREM TypeCorrect == Spec => []TypeOK
  <1>1. KInv => TypeOK BY DEF KInv
  <1> QED BY <1>1, KernelInvariant, PTL

\* No vector of any builtin reaches past the end of its windows.
THEOREM VectorsInBounds == Spec => []InBounds
  <1>1. KInv => InBounds BY VectorBounds DEF InBounds
  <1> QED BY <1>1, KernelInvariant, PTL

\* No builtin ever writes a cell outside its destination, however its windows
\* overlap.
THEOREM WritesDestinationOnly == Spec => []OnlyDestination
  <1>1. ASSUME KInv PROVE OnlyDestination
    <2> SUFFICES ASSUME NEW a \in Address, mem[a] # Old(a)
                 PROVE  kernel.form = "map" /\ a - at["dst"] \in Indices
      BY DEF OnlyDestination
    <2>1. kernel.form = "map" /\ Stored(a)
      BY <1>1 DEF KInv, FrameInv
    <2> QED BY <1>1, <2>1, Facts DEF Stored, Indices
  <1> QED BY <1>1, KernelInvariant, PTL

\* A finished map has made every element it covers of what its operands held
\* before the call, and changed nothing else.
THEOREM MapsAreRight == Spec => []MapResult
  <1>1. KInv => MapResult
    BY DEF KInv, IndexInv, MapInv, MapResult, Stored, Made
  <1> QED BY <1>1, KernelInvariant, PTL

\* A finished sum has counted each index once, whatever the vector's lanes,
\* the order of the horizontal sum and the length of the tail.
THEOREM SumsAreRight == Spec => []ReduceResult
  <1>1. ASSUME KInv PROVE ReduceResult
    <2> SUFFICES ASSUME pc = "done", kernel.form = "reduce", NEW i \in Indices
                 PROVE  acc[0][i] = 1
      BY DEF ReduceResult
    <2>1. WellFormed(kernel) /\ kernel.lanes \in {1, 2, 4, 8}
          /\ n \in Nat /\ i \in Nat /\ i < n
      BY <1>1, Facts DEF Indices
    <2>2. width = 1 /\ idx = Covered
      BY <1>1 DEF KInv, IndexInv
    <2>3. idx = n
      BY <2>1, <2>2 DEF Covered, WellFormed
    <2>4. LaneOf(i) = 0
      BY <2>1, <2>2 DEF LaneOf
    <2> QED BY <1>1, <2>1, <2>2, <2>3, <2>4 DEF KInv, SumInv
  <1> QED BY <1>1, KernelInvariant, PTL
=============================================================================
