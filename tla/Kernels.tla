------------------------------ MODULE Kernels ------------------------------
(***************************************************************************)
(* The array builtins of codegen_builtins.c, one call of one of them at a  *)
(* time: an index runs over the array in steps of the vector's lanes up to *)
(* the last full vector, and goes on one element at a time from there.     *)
(* A kernel either maps its operands into "dst" or sums over them; what    *)
(* it computes of an element is the constant operator F.  An operand is a  *)
(* window of n cells of one memory, so that windows may overlap: copies    *)
(* take offsets into the same array, and an element-wise kernel may be     *)
(* given one array twice.  Addresses count elements, not bytes.            *)
(***************************************************************************)
EXTENDS Integers

CONSTANTS
  MaxLength,  \* the longest array
  Top,        \* the last address of the memory
  Bases,      \* the addresses where a window may start
  Old(_),     \* what an address holds before the call
  F(_)        \* the element made of the elements read (a function of operands)

ASSUME SizesAssumption ==
  /\ MaxLength \in Nat /\ Top \in Nat
  /\ Bases \subseteq Nat /\ \A b \in Bases : b + MaxLength <= Top + 1

Operand == {"dst", "x", "y"}
Address == 0..Top

-----------------------------------------------------------------------------
(* The kernels.  test: the vector loop asks for idx < n & ~(lanes-1), or    *)
(* looks ahead, idx + lanes <= n.  tail: what follows the vector loop, a    *)
(* loop, a single element or nothing.  sum: the horizontal sum comes before *)
(* or after the tail.                                                      *)

Shape(form, lanes, reads, test, tail, sum) ==
  [form |-> form, lanes |-> lanes, reads |-> reads,
   test |-> test, tail |-> tail, sum |-> sum]

Map(lanes, reads)    == Shape("map", lanes, reads, "mask", "loop", "before")
Padded(reads)        == Shape("map", 4, reads, "mask", "none", "before")
Reduce(lanes, reads) == Shape("reduce", lanes, reads, "mask", "loop", "before")
Scalar(form, reads)  == Shape(form, 1, reads, "mask", "none", "before")

arr_sum_avx2       == Shape("reduce", 4, {"x"}, "ahead", "loop", "before")
arr_sum_sse2       == Shape("reduce", 2, {"x"}, "ahead", "once", "after")
arr_fill           == Shape("map", 2, {}, "ahead", "once", "before")
arr_scale          == Scalar("map", {"dst"})
arr_dot            == Scalar("reduce", {"x", "y"})
arr_f64_sum        == Reduce(4, {"x"})
arr_f64_sum_range  == Reduce(4, {"x"})
arr_f64_dot        == Reduce(4, {"x", "y"})
arr_f64_dot_range  == Reduce(4, {"x", "y"})
arr_f64_sum_kahan  == Scalar("reduce", {"x"})
arr_f32_sum        == Reduce(8, {"x"})
arr_f32_dot        == Reduce(8, {"x", "y"})
arr_f32_dot_range  == Reduce(8, {"x", "y"})
arr_f64_sub        == Map(4, {"x", "y"})
arr_f64_mul        == Padded({"x", "y"})
arr_f32_mul        == Map(8, {"x", "y"})
arr_f64_tanh       == Padded({"dst"})
arr_f64_sigmoid    == Padded({"dst"})
arr_f64_exp        == Padded({"dst"})
arr_f32_exp        == Padded({"dst"})
arr_f32_silu       == Padded({"dst"})
arr_f64_log        == Padded({"dst"})
arr_f64_log1p      == Padded({"dst"})
arr_f64_expm1      == Padded({"dst"})
arr_f64_adam_apply == Map(4, {"dst", "x", "y"})
arr_f32_adam_apply == Map(8, {"dst", "x", "y"})
arr_f64_relu       == Map(4, {"dst"})
arr_f32_relu       == Map(8, {"dst"})
arr_f64_scale      == Scalar("map", {"dst"})
arr_f32_scale      == Map(8, {"dst"})
arr_f64_fill       == Map(4, {})
arr_f32_fill       == Map(8, {})
arr_f64_add_scaled == Map(4, {"dst", "x"})
arr_f32_add_scaled == Map(8, {"dst", "x"})
arr_f64_copy_slice == Map(4, {"x"})
arr_f32_copy_slice == Map(8, {"x"})
arr_f64_copy_at    == Map(4, {"x"})
arr_f32_copy_at    == Map(8, {"x"})

Integral  == {arr_sum_avx2, arr_sum_sse2, arr_fill, arr_scale, arr_dot}
Sums      == {arr_f64_sum, arr_f64_sum_range, arr_f64_dot, arr_f64_dot_range,
              arr_f64_sum_kahan, arr_f32_sum, arr_f32_dot, arr_f32_dot_range}
Functions == {arr_f64_tanh, arr_f64_sigmoid, arr_f64_exp, arr_f32_exp,
              arr_f32_silu, arr_f64_log, arr_f64_log1p, arr_f64_expm1,
              arr_f64_relu, arr_f32_relu}
Updates   == {arr_f64_sub, arr_f64_mul, arr_f32_mul, arr_f64_adam_apply,
              arr_f32_adam_apply, arr_f64_scale, arr_f32_scale,
              arr_f64_add_scaled, arr_f32_add_scaled}
Copies    == {arr_f64_fill, arr_f32_fill, arr_f64_copy_slice,
              arr_f32_copy_slice, arr_f64_copy_at, arr_f32_copy_at}

Builtins == Integral \cup Sums \cup Functions \cup Updates \cup Copies

-----------------------------------------------------------------------------
VARIABLES
  kernel,  \* the builtin called
  n,       \* its length: the word before the array, or an argument
  at,      \* where each operand starts
  mem,     \* the memory
  idx,     \* the index register
  acc,     \* per lane of the sum: how often each index was added to it
  width,   \* the lanes of the sum still apart
  pc

vars == <<kernel, n, at, mem, idx, acc, width, pc>>

Lanes   == 0..kernel.lanes - 1
Indices == 0..n - 1

\* The operands a kernel is called with.
Operands(k) == k.reads \cup (IF k.form = "map" THEN {"dst"} ELSE {})

Init ==
  /\ kernel \in Builtins
  /\ n \in 0..MaxLength
  /\ at \in [Operands(kernel) -> Bases]
  /\ mem = [a \in Address |-> Old(a)]
  /\ idx = 0
  /\ acc = [l \in Lanes |-> [i \in Indices |-> 0]]
  /\ width = kernel.lanes
  /\ pc = "vector"

\* What follows a part of the kernel.
FoldFollows(part) ==
  /\ kernel.form = "reduce" /\ kernel.lanes > 1
  /\ part = IF kernel.sum = "before" THEN "vector" ELSE "tail"

\* Mutant: a map has no scalar tail.
TailFollows_mapsHaveNone(part) ==
  /\ kernel.tail # "none" /\ kernel.form = "reduce"
  /\ part = "vector" \/ (part = "fold" /\ kernel.sum = "before")

TailFollows(part) ==
  /\ kernel.tail # "none"
  /\ part = "vector" \/ (part = "fold" /\ kernel.sum = "before")

Then(part) ==
  IF FoldFollows(part) THEN "fold"
  ELSE IF TailFollows(part) THEN "tail" ELSE "done"

\* Mutant: the limit of the vector loop is n, not rounded down.
VectorRuns_notRounded ==
  IF kernel.test = "ahead" THEN idx + kernel.lanes <= n ELSE idx < n

\* The test at the top of the vector loop.
VectorRuns ==
  IF kernel.test = "ahead" THEN idx + kernel.lanes <= n
                           ELSE idx < n - (n % kernel.lanes)

Element(i) == F([o \in kernel.reads |-> mem[at[o] + i]])

\* Mutant: a vector is stored one lane too far.
VectorMap_laneLate ==
  /\ pc = "vector" /\ kernel.form = "map" /\ VectorRuns
  /\ mem' = [a \in Address |->
               IF a - at["dst"] \in idx + 1..idx + kernel.lanes
               THEN Element(a - at["dst"]) ELSE mem[a]]
  /\ idx' = idx + kernel.lanes
  /\ UNCHANGED <<kernel, n, at, acc, width, pc>>

\* One vector: every operand's lanes are loaded before any is stored.
VectorMap ==
  /\ pc = "vector" /\ kernel.form = "map" /\ VectorRuns
  /\ mem' = [a \in Address |->
               IF a - at["dst"] \in idx..idx + kernel.lanes - 1
               THEN Element(a - at["dst"]) ELSE mem[a]]
  /\ idx' = idx + kernel.lanes
  /\ UNCHANGED <<kernel, n, at, acc, width, pc>>

VectorReduce ==
  /\ pc = "vector" /\ kernel.form = "reduce" /\ VectorRuns
  /\ acc' = [l \in Lanes |-> [acc[l] EXCEPT ![idx + l] = @ + 1]]
  /\ idx' = idx + kernel.lanes
  /\ UNCHANGED <<kernel, n, at, mem, width, pc>>

VectorEnd ==
  /\ pc = "vector" /\ ~VectorRuns
  /\ pc' = Then("vector")
  /\ UNCHANGED <<kernel, n, at, mem, idx, acc, width>>

\* The horizontal sum.  The upper half of the register is added to the lower
\* one first; the lanes of what remains are added in neighbouring pairs.
\* Lanes from width on are dead.
Left(l)  == IF width = kernel.lanes THEN l ELSE 2 * l
\* Mutant: the halves of the register are not shifted onto each other.
Right_neighbour(l) == IF width = kernel.lanes THEN l + 1 ELSE 2 * l + 1
Right(l) == IF width = kernel.lanes THEN l + width \div 2 ELSE 2 * l + 1

Fold ==
  /\ pc = "fold" /\ width > 1
  /\ acc' = [l \in Lanes |->
               IF l < width \div 2
               THEN [i \in Indices |-> acc[Left(l)][i] + acc[Right(l)][i]]
               ELSE acc[l]]
  /\ width' = width \div 2
  /\ UNCHANGED <<kernel, n, at, mem, idx, pc>>

FoldEnd ==
  /\ pc = "fold" /\ width = 1
  /\ pc' = Then("fold")
  /\ UNCHANGED <<kernel, n, at, mem, idx, acc, width>>

\* Mutant: the tail leaves its loop one element late (ja for jae).
TailStep_oneMore ==
  /\ pc = "tail" /\ idx <= n
  /\ idx' = idx + 1
  /\ pc' = IF kernel.tail = "once" THEN Then("tail") ELSE "tail"
  /\ UNCHANGED <<kernel, n, at, width>>

\* One element after the vectors.  A tail of a single element has no jump
\* back (and leaves the index behind, which nothing reads any more).
TailStep ==
  /\ pc = "tail" /\ idx < n
  /\ idx' = idx + 1
  /\ pc' = IF kernel.tail = "once" THEN Then("tail") ELSE "tail"
  /\ UNCHANGED <<kernel, n, at, width>>

TailMap ==
  /\ kernel.form = "map" /\ TailStep
  /\ mem' = [mem EXCEPT ![at["dst"] + idx] = Element(idx)]
  /\ UNCHANGED acc

TailReduce ==
  /\ kernel.form = "reduce" /\ TailStep
  /\ acc' = [acc EXCEPT ![0][idx] = @ + 1]
  /\ UNCHANGED mem

TailEnd ==
  /\ pc = "tail" /\ idx >= n
  /\ pc' = Then("tail")
  /\ UNCHANGED <<kernel, n, at, mem, idx, acc, width>>

Next ==
  \/ VectorMap \/ VectorReduce \/ VectorEnd \/ Fold \/ FoldEnd
  \/ TailMap \/ TailReduce \/ TailEnd

Spec == Init /\ [][Next]_vars

-----------------------------------------------------------------------------
TypeOK ==
  /\ kernel \in Builtins
  /\ n \in 0..MaxLength
  /\ at \in [Operands(kernel) -> Bases]
  /\ DOMAIN mem = Address
  /\ idx \in 0..n
  /\ acc \in [Lanes -> [Indices -> Nat]]
  /\ width \in 1..kernel.lanes
  /\ pc \in {"vector", "fold", "tail", "done"}

\* No vector reaches past the end of a window: the loop's limit, rounded down
\* to full vectors, admits no partial one.
InBounds == pc = "vector" /\ VectorRuns => idx + kernel.lanes <= n

\* How far a kernel goes: without a tail, to the last full vector.
Covered == IF kernel.tail = "none" THEN n - (n % kernel.lanes) ELSE n

\* Each operand is where no earlier vector has stored: the destination itself,
\* a window above it, however close, or one that ends below it.
Readable ==
  \A o \in kernel.reads : at[o] >= at["dst"] \/ at[o] + n <= at["dst"]

\* A finished map has made every element of what its operands held before the
\* call, in place and with overlapping windows too as long as no source is
\* overtaken by the stores, and has changed nothing else.
MapResult ==
  pc = "done" /\ kernel.form = "map" /\ Readable =>
    \A a \in Address :
      mem[a] = IF a - at["dst"] \in 0..Covered - 1
               THEN F([o \in kernel.reads |-> Old(at[o] + (a - at["dst"]))])
               ELSE Old(a)

\* However the windows overlap, at no time has a cell outside the destination
\* been written.
OnlyDestination ==
  \A a \in Address :
    mem[a] # Old(a) => kernel.form = "map" /\ a - at["dst"] \in Indices

\* A finished sum has every index in it once: none is lost between the vectors
\* and the tail, and the horizontal sum adds every lane once.
ReduceResult ==
  pc = "done" /\ kernel.form = "reduce" => \A i \in Indices : acc[0][i] = 1
=============================================================================
