----------------------------- MODULE Optimizer -----------------------------
(***************************************************************************)
(* The tree optimizer of optimizer.c on Parser's trees: strength           *)
(* reduction, then constant folding until nothing changes, then what       *)
(* follows a return in a block is dropped.  A literal is an integer here;  *)
(* the calls of the mathematical functions and the decimals it folds too   *)
(* are left out.                                                           *)
(***************************************************************************)
EXTENDS Parser

BoolLit(b) == [op |-> "bool", val |-> IF b THEN 1 ELSE 0]

IsInt(e) == e.op = "int"

Operators == UNION ToSet(Levels) \cup {"="}

\* The tree with g applied to every child; expressions and statements alike.
MapNode(g(_), n) ==
  LET all(ns) == [k \in DOMAIN ns |-> g(ns[k])]
  IN CASE n.op \in Operators -> [n EXCEPT !.l = g(@), !.r = g(@)]
       [] n.op \in {"neg", "!"} -> [n EXCEPT !.l = g(@)]
       [] n.op \in {"expr", "let", "const", "return", "some", "member", "field"} -> [n EXCEPT !.e = g(@)]
       [] n.op \in {"call", "raise"} -> [n EXCEPT !.args = all(@)]
       [] n.op = "array" -> [n EXCEPT !.es = all(@)]
       [] n.op = "struct" -> [n EXCEPT !.fields = [k \in DOMAIN @ |-> [@[k] EXCEPT !.e = g(@)]]]
       [] n.op = "if"    -> [n EXCEPT !.c = g(@), !.then = all(@), !.else = all(@)]
       [] n.op = "while" -> [n EXCEPT !.c = g(@), !.body = all(@)]
       [] n.op = "for"   -> [n EXCEPT !.init = g(@), !.c = g(@), !.step = g(@), !.body = all(@)]
       [] n.op = "match" -> [n EXCEPT !.e = g(@), !.arms = all(@)]
       [] n.op = "arm"   -> [n EXCEPT !.pat = g(@), !.body = all(@)]
       [] n.op = "try"   -> [n EXCEPT !.body = all(@), !.catch = all(@)]
       [] n.op \in {"block", "fn"} -> [n EXCEPT !.body = all(@)]
       [] OTHER -> n

-----------------------------------------------------------------------------
(* Strength reduction *)

\* The exponents of the powers of two of 32-bit literals.
Exponents == 0..30
IsPower(v) == \E k \in Exponents : v = 2 ^ k
ExponentOf(v) == CHOOSE k \in Exponents : v = 2 ^ k

\* Mutant: n % 2^k becomes n & 2^k.
ReduceOp_maskOff(n) ==
  IF ~(n.op \in Operators /\ IsInt(n.r) /\ IsPower(n.r.val)) THEN n
  ELSE CASE n.op = "/" /\ n.r.val > 1 -> Bin(">>", n.l, IntLit(ExponentOf(n.r.val)))
         [] n.op = "%"                -> Bin("&", n.l, n.r)
         [] n.op = "*" /\ n.r.val > 1 -> Bin("<<", n.l, IntLit(ExponentOf(n.r.val)))
         [] OTHER -> n

\* Division, remainder and product by a literal power of two on the right.
ReduceOp(n) ==
  IF ~(n.op \in Operators /\ IsInt(n.r) /\ IsPower(n.r.val)) THEN n
  ELSE CASE n.op = "/" /\ n.r.val > 1 -> Bin(">>", n.l, IntLit(ExponentOf(n.r.val)))
         [] n.op = "%"                -> Bin("&", n.l, IntLit(n.r.val - 1))
         [] n.op = "*" /\ n.r.val > 1 -> Bin("<<", n.l, IntLit(ExponentOf(n.r.val)))
         [] OTHER -> n

RECURSIVE StrengthReduce(_), FoldNode(_), FoldAll(_), DropDead(_), DropIn(_)

\* strength_reduce_node, from the leaves up.
StrengthReduce(n) == ReduceOp(MapNode(StrengthReduce, n))

-----------------------------------------------------------------------------
(* Constant folding *)

\* Division rounds towards zero, and the remainder has the dividend's sign.
Truncated(a, b) ==
  LET size(v) == IF v < 0 THEN -v ELSE v
  IN (IF (a < 0) = (b < 0) THEN 1 ELSE -1) * (size(a) \div size(b))

\* try_fold_binary_int: a division by zero is left to fail when it runs.
FoldBinary(n) ==
  LET a == n.l.val
      b == n.r.val
  IN IF ~(IsInt(n.l) /\ IsInt(n.r)) THEN n
     ELSE CASE n.op = "+" -> IntLit(a + b)
            [] n.op = "-" -> IntLit(a - b)
            [] n.op = "*" -> IntLit(a * b)
            [] n.op = "/" /\ b # 0 -> IntLit(Truncated(a, b))
            [] n.op = "%" /\ b # 0 -> IntLit(a - b * Truncated(a, b))
            [] n.op = "==" -> BoolLit(a = b)
            [] n.op = "!=" -> BoolLit(a # b)
            [] n.op = "<"  -> BoolLit(a < b)
            [] n.op = ">"  -> BoolLit(a > b)
            [] n.op = "<=" -> BoolLit(a <= b)
            [] n.op = ">=" -> BoolLit(a >= b)
            [] OTHER -> n

\* try_fold_unary
FoldUnary(n) ==
  CASE n.op = "neg" /\ IsInt(n.l) -> IntLit(-n.l.val)
    [] n.op = "!" /\ n.l.op = "bool" -> BoolLit(n.l.val = 0)
    [] OTHER -> n

FoldNode(n) ==
  LET m == MapNode(FoldNode, n)
  IN IF m.op \in Operators THEN FoldBinary(m)
     ELSE IF m.op \in {"neg", "!"} THEN FoldUnary(m) ELSE m

\* Until a pass folds nothing.
FoldAll(n) == LET m == FoldNode(n) IN IF m = n THEN n ELSE FoldAll(m)

-----------------------------------------------------------------------------
(* Dead code *)

\* The inner blocks this pass enters: not those of loops, match and try.
DropIn(s) ==
  CASE s.op \in {"block", "fn"} -> [s EXCEPT !.body = DropDead(@)]
    [] s.op = "if" /\ ~s.chain  -> [s EXCEPT !.then = DropDead(@), !.else = DropDead(@)]
    [] s.op = "if" /\ s.chain   -> [s EXCEPT !.then = DropDead(@)]
    [] OTHER -> s

\* dce_block: nothing after the first return.
DropDead(body) ==
  LET end == SelectInSeq(body, LAMBDA s : s.op = "return")
      kept == IF end = 0 THEN body ELSE SubSeq(body, 1, end)
  IN [k \in DOMAIN kept |-> DropIn(kept[k])]

\* optimizer_run on a program: dead code is looked for in functions only.
Optimize(program) ==
  [k \in DOMAIN program |->
     LET d == FoldAll(StrengthReduce(program[k]))
     IN IF d.op \in {"fn", "block"} THEN DropIn(d) ELSE d]
=============================================================================
