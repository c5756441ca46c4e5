------------------------------- MODULE Norms -------------------------------
(***************************************************************************)
(* The builtins that normalise an array in place, group by group, and the  *)
(* rotary embedding.  A group is gone through in passes; a pass folds the  *)
(* elements into a sum (or a maximum), or replaces each element by itself  *)
(* under the sums of the passes before, or both.  Which function of the    *)
(* sums that is does not matter here, only which elements are in them.     *)
(***************************************************************************)
EXTENDS Registers, Sequences

\* A pass: its lanes, the element it starts from (those before it seed the
\* sum), the earlier sums it applies to an element, whether it folds the
\* element into a sum, whether it stores it.
Pass(lanes, from, uses, folds, stores) ==
  [lanes |-> lanes, from |-> from, uses |-> uses,
   folds |-> folds, stores |-> stores]

NormShape(whole, passes) == [form |-> "norm", whole |-> whole, passes |-> passes]

\* Maximum; exponentials and their sum; division by it.
arr_f64_softmax ==
  NormShape(TRUE, <<Pass(4, 0, <<>>, TRUE, FALSE), Pass(4, 0, <<1>>, TRUE, TRUE),
                Pass(4, 0, <<2>>, FALSE, TRUE)>>)
arr_f32_softmax ==
  NormShape(TRUE, <<Pass(1, 1, <<>>, TRUE, FALSE), Pass(4, 0, <<1>>, TRUE, TRUE),
                Pass(8, 0, <<2>>, FALSE, TRUE)>>)
\* Mean; variance; both applied.
arr_f32_layernorm ==
  NormShape(FALSE, <<Pass(1, 0, <<>>, TRUE, FALSE), Pass(1, 0, <<1>>, TRUE, FALSE),
                 Pass(1, 0, <<1, 2>>, FALSE, TRUE)>>)
\* Sum of squares; its root applied.
arr_f32_rmsnorm ==
  NormShape(FALSE, <<Pass(1, 0, <<>>, TRUE, FALSE), Pass(1, 0, <<1>>, FALSE, TRUE)>>)
arr_f32_rope_apply_pairs == NormShape(FALSE, <<>>)

NormKernels == {arr_f64_softmax, arr_f32_softmax, arr_f32_layernorm,
            arr_f32_rmsnorm, arr_f32_rope_apply_pairs}

Rope == kernel = arr_f32_rope_apply_pairs

-----------------------------------------------------------------------------
\* held is the length of the array.  A softmax takes it as one group; the
\* others are told the length n of a group and find their number m.  For the
\* rotary embedding m is the position, the row of the table.
Element(a) == [of |-> Cell("old", a), by |-> <<>>]

NormInit ==
  /\ kernel \in NormKernels
  /\ n \in 0..MaxCols
  /\ held \in IF kernel.whole \/ Rope THEN {n} ELSE 0..MaxCols
  /\ m \in CASE kernel.whole -> {1} [] Rope -> 0..MaxRows [] OTHER -> {0}
  /\ at = Counters
  /\ lane = <<>>
  /\ acc = Zero
  /\ scratch = <<>>
  /\ out = [a \in 0..held + Guard - 1 |-> Element(a)]
  /\ pc = "norm"

pass   == kernel.passes[at.part]
Index  == at.row * n + at.col

\* What a pass sees of element a: itself under the sums the pass uses.
Seen(a) ==
  [out[a] EXCEPT !.by = @ \o [u \in DOMAIN pass.uses |-> lane[pass.uses[u]]]]

-----------------------------------------------------------------------------
\* The number of groups; what is left over is no group.  A group length of
\* zero faults.
Divide ==
  /\ pc = "norm" /\ ~Rope
  /\ IF kernel.whole THEN pc' = "group" /\ UNCHANGED m
     ELSE IF n = 0 THEN pc' = "fault" /\ UNCHANGED m
     ELSE pc' = "group" /\ m' = held \div n
  /\ UNCHANGED <<kernel, n, held, at, lane, acc, scratch, out>>

\* What a sum starts from: nothing, or the elements before the first.
Seed(p, base) ==
  Sum({out[base + i] : i \in 0..kernel.passes[p].from - 1})

\* The top of the loop over groups.
Group ==
  /\ pc = "group" /\ at.row < m
  /\ at' = [at EXCEPT !.part = 1, !.col = kernel.passes[1].from]
  /\ lane' = <<>>
  /\ acc' = Seed(1, at.row * n)
  /\ pc' = "pass"
  /\ UNCHANGED <<kernel, m, n, held, scratch, out>>

GroupsEnd ==
  /\ pc = "group" /\ at.row >= m
  /\ pc' = "done"
  /\ UNCHANGED <<kernel, m, n, held, at, lane, acc, scratch, out>>

\* k elements of a pass.
Step(k) ==
  /\ acc' = IF pass.folds
            THEN acc (+) Sum({Seen(a) : a \in Index..Index + k - 1}) ELSE acc
  /\ out' = IF pass.stores
            THEN [a \in DOMAIN out |->
                    IF a \in Index..Index + k - 1 THEN Seen(a) ELSE out[a]]
            ELSE out
  /\ at' = [at EXCEPT !.col = @ + k]
  /\ UNCHANGED <<kernel, m, n, held, lane, scratch, pc>>

VectorStep ==
  /\ pc = "pass" /\ at.col < Full(n, pass.lanes)
  /\ Step(pass.lanes)

VectorsEnd ==
  /\ pc = "pass" /\ at.col >= Full(n, pass.lanes)
  /\ pc' = "rest"
  /\ UNCHANGED <<kernel, m, n, held, at, lane, acc, scratch, out>>

TailStep == pc = "rest" /\ at.col < n /\ Step(1)

\* Mutant: the running sum is not cleared between two passes.
PassEnd_keepsSum ==
  /\ pc = "rest" /\ at.col >= n
  /\ lane' = IF pass.folds THEN Append(lane, acc) ELSE lane
  /\ IF at.part < Len(kernel.passes)
     THEN at' = [at EXCEPT !.part = @ + 1, !.col = 0] /\ pc' = "pass"
     ELSE at' = [at EXCEPT !.row = @ + 1] /\ pc' = "group"
  /\ UNCHANGED <<kernel, m, n, held, acc, scratch, out>>

\* A pass is over: its sum is kept, the next one (all but the first start
\* from element 0) has an empty sum.
PassEnd ==
  /\ pc = "rest" /\ at.col >= n
  /\ lane' = IF pass.folds THEN Append(lane, acc) ELSE lane
  /\ acc' = Zero
  /\ IF at.part < Len(kernel.passes)
     THEN at' = [at EXCEPT !.part = @ + 1, !.col = 0] /\ pc' = "pass"
     ELSE at' = [at EXCEPT !.row = @ + 1] /\ pc' = "group"
  /\ UNCHANGED <<kernel, m, n, held, scratch, out>>

\* The rotary embedding: cosines and sines alternate in row m of the table.
Turn(x, y, k) ==
  LET cos == Cell("table", m * n + 2 * k)
      sin == Cell("table", m * n + 2 * k + 1) IN
  [first  |-> Sum({{x, cos}, {y, sin, Cell("minus", 0)}}),
   second |-> Sum({{x, sin}, {y, cos}})]

Rotate ==
  /\ pc = "norm" /\ Rope /\ at.col < n \div 2
  /\ LET k == at.col
         turned == Turn(out[2 * k].of, out[2 * k + 1].of, k) IN
     out' = [out EXCEPT ![2 * k].of = turned.first,
                        ![2 * k + 1].of = turned.second]
  /\ at' = [at EXCEPT !.col = @ + 1]
  /\ UNCHANGED <<kernel, m, n, held, lane, acc, scratch, pc>>

RotateEnd ==
  /\ pc = "norm" /\ Rope /\ at.col >= n \div 2
  /\ pc' = "done"
  /\ UNCHANGED <<kernel, m, n, held, at, lane, acc, scratch, out>>

NormNext ==
  \/ Divide \/ Group \/ GroupsEnd \/ VectorStep \/ VectorsEnd \/ TailStep
  \/ PassEnd \/ Rotate \/ RotateEnd

-----------------------------------------------------------------------------
\* The elements of a's group, each under sums s.
GroupUnder(a, s) ==
  LET g == a \div n IN
  Sum({[of |-> Cell("old", b), by |-> s] : b \in g * n..g * n + n - 1})

\* The definition of a normalised element.
Normalised(a) ==
  LET first  == GroupUnder(a, <<>>)
      second == GroupUnder(a, <<first>>) IN
  [of |-> Cell("old", a),
   by |-> IF kernel = arr_f32_rmsnorm THEN <<first>> ELSE <<first, second>>]

Rotated(a) ==
  LET k == a \div 2
      turned == Turn(Cell("old", 2 * k), Cell("old", 2 * k + 1), k) IN
  [of |-> IF a % 2 = 0 THEN turned.first ELSE turned.second, by |-> <<>>]

\* A normalisation ends with every element of every full group under sums over
\* its own group, each sum with every element once; elements after the last
\* full group, and those beyond the array, keep what they held.
GroupsRight ==
  kernel \in NormKernels /\ pc = "done" =>
    \A a \in DOMAIN out :
      out[a] = CASE ~Rope /\ a < m * n         -> Normalised(a)
                 [] Rope /\ a < 2 * (n \div 2) -> Rotated(a)
                 [] OTHER                      -> Element(a)
=============================================================================
