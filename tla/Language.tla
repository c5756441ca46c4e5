------------------------------ MODULE Language ------------------------------
(***************************************************************************)
(* What an integer function of aricode means, as an evaluator of its tree: *)
(* the reference the emitted code is compared with.  Every name is         *)
(* declared once, as the language demands (no shadowing), so an            *)
(* environment is one function from names to values.  A division by zero   *)
(* ends the program; && and || look at the right operand only when the     *)
(* left one does not decide.  Values stay far inside 64 bits.              *)
(***************************************************************************)
EXTENDS Integers, Sequences, TLC, SequencesExt, Bitwise

CONSTANTS Failed      \* what a program that divides by zero returns

Truth(b) == IF b THEN 1 ELSE 0
Size(n)  == IF n < 0 THEN -n ELSE n

\* Division rounds towards zero.
Quotient(a, b) == (IF (a < 0) = (b < 0) THEN 1 ELSE -1) * (Size(a) \div Size(b))

Compare(op, a, b) ==
  CASE op = "==" -> a = b [] op = "!=" -> a # b [] op = "<" -> a < b
    [] op = "<=" -> a <= b [] op = ">" -> a > b [] op = ">=" -> a >= b

\* The bit operators are defined here for values that are not negative.
Arith(op, a, b) ==
  CASE op = "+" -> a + b [] op = "-" -> a - b [] op = "*" -> a * b
    [] op = "/" -> Quotient(a, b) [] op = "%" -> a - b * Quotient(a, b)
    [] op = "&" -> a & b [] op = "|" -> a | b [] op = "^" -> a ^^ b
    [] op = "<<" -> a * 2 ^ b [] op = ">>" -> a \div 2 ^ b

RECURSIVE Value(_, _, _), Exec(_, _, _), Repeat(_, _, _, _), Meaning(_, _)

\* The value of expression e of function f in env.
Value(f, e, env) ==
  IF e.op \in {"int", "bool"} THEN e.val
  ELSE IF e.op = "var" THEN env[e.name]
  ELSE IF e.op = "call"
    THEN LET args == [i \in DOMAIN e.args |-> Value(f, e.args[i], env)]
         IN IF Failed \in ToSet(args) THEN Failed ELSE Meaning(f, args)
  ELSE
    LET a == Value(f, e.l, env)
        b == Value(f, e.r, env)
    IN CASE a = Failed    -> Failed
         [] a # Failed /\ e.op = "!"   -> Truth(a = 0)
         [] a # Failed /\ e.op = "neg" -> -a
         [] a # Failed /\ e.op = "&&" /\ a = 0 -> 0
         [] a # Failed /\ e.op = "||" /\ a # 0 -> 1
         [] OTHER -> CASE b = Failed -> Failed
                       [] b # Failed /\ e.op \in {"&&", "||"} -> Truth(b # 0)
                       [] b = 0 /\ e.op \in {"/", "%"} -> Failed
                       [] e.op \in {"==", "!=", "<", ">", "<=", ">="} ->
                            Truth(Compare(e.op, a, b))
                       [] OTHER -> Arith(e.op, a, b)

\* How a statement ends: control goes on ("next"), leaves the loop
\* ("break", "continue") or the function ("return", with its value).
Ends(how, env, val) == [how |-> how, env |-> env, val |-> val]
Stop(env)           == Ends("return", env, Failed)

\* A block runs statement after statement while control goes on.
Run(f, block, env) ==
  FoldLeft(LAMBDA r, s : IF r.how = "next" THEN Exec(f, s, r.env) ELSE r,
           Ends("next", env, 0), block)

\* while (c) { body }, and the loop of a for with its step.
Repeat(f, s, step, env) ==
  LET c == Value(f, s.c, env)
      r == Run(f, s.body, env)
  IN CASE c = Failed -> Stop(env)
       [] c = 0      -> Ends("next", env, 0)
       [] OTHER -> CASE r.how = "return" -> r
                     [] r.how = "break"  -> Ends("next", r.env, 0)
                     [] OTHER -> LET n == Run(f, step, r.env)
                                 IN IF n.how = "return" THEN n ELSE Repeat(f, s, step, n.env)

Exec(f, s, env) ==
  CASE s.op \in {"break", "continue"} -> Ends(s.op, env, 0)
    [] s.op = "while"  -> Repeat(f, s, <<>>, env)
    [] s.op = "for"    -> LET r == Exec(f, s.init, env)
                          IN IF r.how = "return" THEN r ELSE Repeat(f, s, <<s.step>>, r.env)
    [] s.op = "return" -> Ends("return", env, Value(f, s.e, env))
    [] s.op \in {"let", "const", "assign"} ->
         LET v == Value(f, s.e, env)
         IN IF v = Failed THEN Stop(env) ELSE Ends("next", (s.name :> v) @@ env, 0)
    [] s.op = "=" -> Exec(f, [op |-> "assign", name |-> s.l.name, e |-> s.r], env)
    [] s.op = "expr" ->
         IF s.e.op = "=" THEN Exec(f, s.e, env)
         ELSE IF Value(f, s.e, env) = Failed THEN Stop(env) ELSE Ends("next", env, 0)
    [] s.op = "block"  -> Run(f, s.body, env)
    [] s.op = "if" ->
         LET c == Value(f, s.c, env)
         IN IF c = Failed THEN Stop(env)
            ELSE Run(f, IF c # 0 THEN s.then ELSE s.else, env)
    [] s.op = "match" ->
         LET v   == Value(f, s.e, env)
             fit == SelectInSeq(s.arms, LAMBDA a : Value(f, a.pat, env) = v)
         IN CASE v = Failed -> Stop(env)
              [] v # Failed /\ fit = 0 -> Ends("next", env, 0)
              [] OTHER -> Run(f, s.arms[fit].body, env)

\* What f returns for args; 0 when control falls off its end.
Meaning(f, args) ==
  LET params == [i \in DOMAIN args |-> f.params[i]]
      env    == [n \in ToSet(params) |-> args[CHOOSE i \in DOMAIN args : params[i] = n]]
  IN Run(f, f.body, env).val
=============================================================================
