----------------------------- MODULE MCCompiler -----------------------------
(***************************************************************************)
(* Files for Compiler: programs of one file, spelled from their trees, and *)
(* with one token left out; and small sets of files that import each       *)
(* other, with and without aliases, in chains, diamonds and circles.       *)
(***************************************************************************)
EXTENDS Compiler

CONSTANT Failed
L == INSTANCE Language

-----------------------------------------------------------------------------
(* Trees *)

x == Name("x")
y == Name("y")
i == Name("i")
N(v) == IntLit(v)
V(n) == Var(n)
Plus(a, b) == Bin("+", a, b)
Less(a, b) == Bin("<", a, b)
Do(f, args) == CallOf(V(Name(f)), args)

I32  == [name |-> Name("i32"), args |-> <<>>]
F64  == [name |-> Name("f64"), args |-> <<>>]
Kind(w) == [name |-> Name(w), args |-> <<>>]

Let(n, e)    == LetNode("let", n, I32, e)
Set(n, e)    == ExprStmt(Bin("=", V(n), e))
Return(e)    == [op |-> "return", e |-> e]
If(c, t, e)  == IfNode(c, t, e, FALSE)
While(c, b)  == [op |-> "while", c |-> c, body |-> b]
For(n, k, b) == [op |-> "for", init |-> Let(n, N(0)), c |-> Less(V(n), N(k)),
                 step |-> Bin("=", V(n), Plus(V(n), N(1))), body |-> b]
Block(b)     == [op |-> "block", body |-> b]
Match(e, arms) == [op |-> "match", e |-> e, arms |-> arms]
Arm(p, b)    == [op |-> "arm", pat |-> p, body |-> b]
Try(b, c)    == [op |-> "try", body |-> b, name |-> Name("e"), type |-> Kind("Error"), catch |-> c]
Raise(e)     == [op |-> "raise", args |-> <<e>>]

Fn(name, params, body) ==
  [op |-> "fn", name |-> Name(name), params |-> [k \in DOMAIN params |-> [name |-> params[k], type |-> I32]],
   ret |-> I32, typed |-> TRUE, body |-> body]
Main(body) == Fn("main", <<>>, body)
Twice      == Fn("twice", <<x>>, <<Return(Plus(V(x), V(x)))>>)

-----------------------------------------------------------------------------
(* Programs of expressions: every two operators, either way round. *)

Ops == {"||", "&&", "|", "^", "&", "!=", "<", ">>", "+", "-", "*", "/", "%"}

Expressions ==
  {Bin(p, Bin(q, V(x), N(2)), V(y)) : p, q \in Ops}
    \cup {Bin(p, V(x), Bin(q, V(y), N(2))) : p, q \in Ops}
    \cup {Bin(p, V(x), N(v)) : p \in Ops, v \in {0, 1, 4}}
    \cup {Bin(p, Bin(q, N(7), N(2)), V(x)) : p, q \in {"*", "/", "%", "<"}}
    \cup {Bin(p, [op |-> u, l |-> V(x)], N(2)) : p \in Ops, u \in {"neg", "!"}}
    \cup {[op |-> u, l |-> Bin(p, V(x), V(y))] : p \in Ops, u \in {"neg", "!"}}

OfExpressions == {<<Fn("main", <<x, y>>, <<Return(e)>>)>> : e \in Expressions}

-----------------------------------------------------------------------------
(* Programs of statements: every two of these, with x declared before or not. *)

Statements ==
  {Let(x, N(1)), Let(y, V(x)), Let(x, V(x)), LetNode("const", y, I32, N(2)),
   Set(x, V(y)), Set(x, Do("twice", <<V(x)>>)), Block(<<Let(y, N(3)), Set(x, V(y))>>),
   Block(<<Let(x, N(3))>>),
   If(Less(V(x), N(2)), <<Let(y, N(1))>>, <<Set(x, V(y))>>),
   While(Less(V(x), N(3)), <<Let(y, Plus(V(x), N(1))), Set(x, V(y))>>),
   While(Less(V(x), N(3)), <<Let(x, N(5))>>),
   For(i, 2, <<Set(x, Plus(V(x), V(i)))>>), For(y, 2, <<Let(x, V(y))>>),
   Match(V(x), <<Arm(N(1), <<Set(x, N(4))>>), Arm(V(y), <<Set(x, V(x))>>)>>),
   Match(V(x), <<Arm(N(1), <<Let(y, N(4))>>)>>),
   Return(V(y)), ExprStmt(Do("none", <<V(x)>>))}

OfStatements ==
  {<<Twice, Main(before \o <<s, t, Return(V(x))>>)>> :
     before \in {<<>>, <<Let(x, N(0))>>}, s, t \in Statements}

-----------------------------------------------------------------------------
(* Single programs *)

Catching(c) == <<Main(<<Try(<<Raise(N(3))>>, c), Return(N(0))>>)>>

Point == [op |-> "structdecl", name |-> Name("Point"),
          fields |-> <<[name |-> x, type |-> I32], [name |-> y, type |-> I32]>>]
Hue   == [op |-> "enumdecl", name |-> Name("Hue"), variants |-> <<Name("red"), Name("blue")>>]
PointOf(a, b) == [op |-> "struct", name |-> Name("Point"),
                  fields |-> <<[name |-> x, e |-> a], [name |-> y, e |-> b]>>]
Field(n, f) == [op |-> "field", e |-> V(n), name |-> f]
pt == Name("p")

\* Counts down by calling itself last, and not last.
Down == Fn("down", <<x>>, <<If(Less(V(x), N(1)), <<Return(N(0))>>, <<>>),
                            Return(Do("down", <<Bin("-", V(x), N(1))>>))>>)
Sum  == Fn("sum", <<x>>, <<If(Less(V(x), N(1)), <<Return(N(0)), Set(x, N(9))>>, <<>>),
                           Return(Plus(V(x), Do("sum", <<Bin("-", V(x), N(1))>>)))>>)
Loop == Fn("loop", <<x>>, <<Let(y, N(0)),
                            For(i, 4, <<If(Bin("==", V(i), V(x)), <<[op |-> "break"]>>, <<>>),
                                        Set(y, Plus(Bin("*", V(y), N(4)), Bin("%", V(i), N(2))))>>),
                            Return(Bin("/", V(y), Bin("*", N(2), N(4)))), Set(y, N(1))>>)

Whole ==
  {<<Down, Main(<<Return(Do("down", <<N(3)>>))>>)>>,
   <<Sum, Main(<<Return(Do("sum", <<N(3)>>))>>)>>,
   <<Loop, Main(<<Return(Do("loop", <<N(3)>>))>>)>>,
   <<Main(<<Let(x, N(1)), While(Less(V(x), N(3)), <<Block(<<[op |-> "break"]>>)>>), Return(V(x))>>)>>,
   <<Main(<<Return(IfNode(Less(N(1), N(2)), <<ExprStmt(N(1))>>, <<ExprStmt(N(2))>>, FALSE))>>)>>,
   <<Main(<<LetNode("let", x, F64, N(1)), LetNode("let", y, I32, V(x)), Return(N(0))>>)>>}

Odd ==
  {Catching(<<>>), Catching(<<ExprStmt(Bin("/", N(5), N(0)))>>),
   Catching(<<ExprStmt(Do("none", <<>>))>>), Catching(<<Return(V(Name("e")))>>),
   <<Main(<<Let(Name("e"), N(1)), Try(<<Let(x, N(1))>>, <<Let(y, N(1))>>), Return(V(Name("e")))>>)>>,
   <<Twice, Twice, Main(<<Return(N(0))>>)>>,
   <<Main(<<Return(Do("twice", <<N(1)>>))>>), Twice>>,
   <<Twice, Main(<<Return(Do("twice", <<N(1), N(2)>>))>>)>>,
   <<Twice, Fn("other", <<>>, <<Return(N(1))>>), Fn("third", <<>>, <<Return(N(1))>>),
     Fn("fourth", <<>>, <<Return(N(1))>>), Main(<<Return(N(0))>>)>>,
   <<Twice>>, <<Let(x, N(1)), Main(<<Return(V(x))>>)>>,
   <<Main(<<Fn("inner", <<>>, <<Return(N(1))>>), Return(N(0))>>)>>,
   <<Fn("sum", <<x, x>>, <<Return(V(x))>>), Main(<<Return(Do("sum", <<N(1), N(2)>>))>>)>>,
   <<Main(<<Return(Do("arr_len", <<Do("arr_new", <<N(2)>>)>>))>>)>>,
   <<Main(<<Return(Do("arr_len", <<N(1), N(2)>>))>>)>>,
   <<Main(<<IfNode(Less(N(1), N(2)), <<Return(N(1))>>,
                   <<If(Less(N(2), N(1)), <<>>, <<Return(N(3))>>)>>, TRUE), Return(N(0))>>)>>,
   <<Twice, Main([k \in 1..MaxCalls |-> ExprStmt(Do("twice", <<N(k)>>))])>>,
   <<Twice, Main([k \in 1..MaxCalls - 1 |-> ExprStmt(Do("twice", <<N(k)>>))])>>,
   <<Main([k \in 1..MaxVars + 1 |-> Let(<<"v", ToString(k)>>, N(k))])>>,
   <<Point, Hue, Main(<<LetNode("let", pt, Kind("Point"), PointOf(N(1), N(2))),
                        ExprStmt(Bin("=", Field(pt, x), N(5))), Return(Field(pt, x))>>)>>,
   <<Point, Main(<<Let(pt, N(1)), Return(Field(pt, y))>>)>>,
   <<Point, Point, Main(<<Return(N(0))>>)>>,
   <<Point, Main(<<LetNode("let", pt, Kind("Point"), [PointOf(N(1), N(2)) EXCEPT !.fields = <<>>]),
                   Return(N(0))>>)>>,
   <<Main(<<Return(Bin("%", N(5), N(0)))>>)>>,
   <<Main(<<Raise(V(Name("Level.SYSTEM"))), Return(Plus(V(Name("Level.LOGIC")), N(1)))>>)>>,
   <<Main(<<LetNode("let", x, [name |-> Name("Option"), args |-> <<I32>>], [op |-> "some", e |-> N(1)]),
            Match(V(x), <<Arm([op |-> "none"], <<Return(N(0))>>)>>), Return(N(1))>>)>>}

-----------------------------------------------------------------------------
(* Files *)

Code(toks)      == [import |-> FALSE, toks |-> toks]
Uses(file, as)  == [import |-> TRUE, file |-> <<file>>, as |-> as]
Here == <<"main">>
Only(toks)      == [f \in {Here} |-> <<Code(toks)>>]

\* One token less.  A name before a parenthesis is left, and so is a sign: what
\* follows them would stay in parentheses it does not need.
Cut(toks, k) == SubSeq(toks, 1, k - 1) \o SubSeq(toks, k + 1, Len(toks))
Cuts(toks) ==
  {Cut(toks, k) : k \in {j \in DOMAIN toks :
                           toks[j].t # "id" /\ ~(toks[j].t \in {"-", "!"} /\ toks[j + 1].t = "(")}}

Trees == OfExpressions \cup OfStatements \cup Whole \cup Odd

Texts ==
  {SpellProgram(t) : t \in Trees}
    \cup UNION {Cuts(SpellProgram(t)) :
                  t \in Whole \cup {Catching(<<Set(x, N(1))>>),
                                    <<Main(<<Match(N(1), <<Arm(N(1), <<Return(N(2))>>)>>), Return(N(0))>>)>>}}
    \cup {SpellProgram(<<Twice>>) \o <<Tok("illegal"), Tok("illegal")>>,
          SpellProgram(<<Main(<<Return(N(0))>>)>>) \o <<Tok("}")>>}
    \cup {<<Tok("struct"), Id(pt), Tok("{")>> \o Spell(N(5), 0) \o <<Tok("}")>>,
          <<Tok("enum"), Id(pt), Tok("{"), Id(x), Tok(",")>> \o Spell(N(5), 0) \o <<Tok("}")>>}

\* Texts with abbreviations: x += 2, Hue::blue, a loop over a collection.
Abbreviated ==
  LET typed(n) == <<Tok("let"), Id(n), Tok(":")>> \o SpellType(I32) \o <<Tok("=")>>
      semi  == <<Tok(";")>>
      two   == Spell(N(2), 0)
      inMain(toks) == SpellProgram(<<Hue>>) \o <<Tok("fn"), Id(Name("main")), Tok("("), Tok(")"), Tok("->")>>
                        \o SpellType(I32) \o <<Tok("{")>> \o toks \o <<Tok("return")>> \o two
                        \o semi \o <<Tok("}")>>
      each  == <<Tok("for"), Tok("("), Tok("let"), Id(y), Tok("in"), Id(x), Tok(")"), Tok("{")>>
                 \o <<Id(i), Tok("=")>> \o Spell(V(y), 0) \o semi \o <<Tok("}")>>
  IN {inMain(typed(x) \o two \o semi \o <<Id(x), Tok(o)>> \o two \o semi) : o \in Compound}
     \cup {inMain(typed(x) \o <<Id(Name("Hue")), Tok("::"), Id(Name(v))>> \o semi) : v \in {"blue", "green"}}
     \cup {inMain(typed(x) \o Spell(Do("arr_new", <<N(2)>>), 0) \o semi \o typed(i) \o two \o semi \o each)}

\* Files of functions, each with the calls in it.
Member(as, f) == <<Id(Name(as)), Tok("."), Id(Name(f))>>
Function(f, calls) ==
  <<Tok("fn"), Id(Name(f)), Tok("("), Tok(")"), Tok("->")>> \o SpellType(I32) \o <<Tok("{")>>
    \o Flat([k \in DOMAIN calls |-> calls[k] \o <<Tok("("), Tok(")"), Tok(";")>>])
    \o <<Tok("return")>> \o Spell(N(0), 0) \o <<Tok(";"), Tok("}")>>
Plain1(f)     == <<Id(Name(f))>>

\* The main file imports a under some name or none and b; a imports b, or main,
\* or a file that is not there.
Linked ==
  {[f \in {Here, <<"a">>, <<"b">>} |->
      CASE f = Here  -> <<Uses("a", as), Code(Function("main", <<IF as = NoAlias THEN Plain1("f")
                                                                                 ELSE Member("m", "f")>>))>>
        [] f = <<"a">> -> <<Uses(next, as2),
                            Code(Function("f", <<IF as2 = NoAlias THEN Plain1("g") ELSE Member("n", "g")>>))>>
        [] f = <<"b">> -> more \o <<Code(Function("g", <<>>) \o Function("h", <<Plain1("g")>>))>>] :
     as \in {NoAlias, Name("m")}, as2 \in {NoAlias, Name("n")}, next \in {"b", "main", "gone"},
     more \in {<<>>, <<Uses("a", NoAlias)>>}}

\* Imports through the directory ".", of the file itself or of another.
Dotted ==
  {[f \in {Here, <<"a">>, <<"b">>} |->
      CASE f = Here    -> <<Uses("a", NoAlias), Code(Function("main", <<Plain1("f")>>))>>
        [] f = <<"a">> -> <<[Uses(next, NoAlias) EXCEPT !.file = <<".", next>>],
                            Code(Function("f", <<Plain1("g")>>))>>
        [] f = <<"b">> -> <<Code(Function("g", <<>>))>>] :
     next \in {"a", "b"}}

\* Both of two imports bring a third; a chain that is longer than the stack, and
\* one with a circle beyond it; more aliases than there is room for; a directory.
Shapes ==
  {(Here :> <<Uses("a", as), Uses("b", as2), Code(Function("main", <<>>))>>)
     @@ (<<"a">> :> <<Uses("c", NoAlias), Code(Function("f", <<Plain1("h")>>))>>)
     @@ (<<"b">> :> <<Uses("c", NoAlias), Code(Function("g", <<Plain1("h")>>))>>)
     @@ (<<"c">> :> <<Code(Function("h", <<>>))>>) :
     as \in {NoAlias, Name("m")}, as2 \in {NoAlias, Name("n")}}
  \cup {[f \in {Here, <<"a">>, <<"b">>, <<"c">>, <<"d">>} |->
          CASE f = Here    -> <<Uses("a", NoAlias), Code(Function("main", <<Plain1("f")>>))>>
            [] f = <<"a">> -> <<Uses("b", NoAlias), Code(Function("f", <<>>))>>
            [] f = <<"b">> -> <<Uses("c", NoAlias)>>
            [] f = <<"c">> -> <<Uses("d", NoAlias)>>
            [] f = <<"d">> -> more \o <<Code(Function("k", <<>>))>>] :
           more \in {<<>>, <<Uses("d", NoAlias)>>}}
  \cup {[f \in {Here, <<"a">>, <<"b">>, <<"c">>} |->
          IF f = Here THEN <<Uses("a", Name("m")), Uses("b", Name("n")), Uses("c", Name("o")),
                             Code(Function("main", <<Member("m", "f"), Member("o", "f")>>))>>
                      ELSE <<Code(Function("f", <<>>))>>]}
  \cup {[f \in {<<"src", "main">>, <<"src", "a">>} |->
          IF f = <<"src", "main">> THEN <<Uses("a", NoAlias), Code(Function("main", <<Plain1("f")>>))>>
                                   ELSE <<Uses("main", NoAlias), Code(Function("f", <<>>))>>]}

MCDisks == {Only(t) : t \in Texts \cup Abbreviated} \cup Linked \cup Dotted \cup Shapes
MCMain  == {Here, <<"src", "main">>}

-----------------------------------------------------------------------------
(* The optimizer *)

\* A function for the evaluator.
Evaluable(fn) == [params |-> [k \in DOMAIN fn.params |-> fn.params[k].name], body |-> fn.body]

\* What the evaluator has a meaning for: integers, calls of the function itself,
\* its own locals, and no division or bit operator where a value can be negative.
Evaluated(fn) ==
  LET nodes == Nodes(Block(fn.body))
      has(ops) == \E m \in nodes : m.op \in ops
  IN /\ ~has({"float", "str", "try", "raise", "none", "some", "array", "struct", "field",
               "member", "variant", "nothing", "fn"})
     /\ ~(has({"-", "neg"}) /\ has({"/", "%", "&", "|", "^", "<<", ">>"}))
     /\ \A m \in nodes : m.op = "call" => m.fn.op = "var" /\ m.fn.name = fn.name
     /\ \A u \in Lexical(fn) : u.means # <<>>
     /\ \A m \in nodes : m.op \in {"return", "let", "const", "expr"} => m.e.op # "if"

\* Functions return after the optimizer what they returned before it: dead code,
\* constants and shifts for products, quotients and remainders change nothing,
\* as long as no negative value is divided.  (Of the texts with a token less,
\* some loop for ever.)
OptimizerKeepsMeaning ==
  phase = "generate" /\ gen.funcs = <<>> /\ parsed.tree \in Trees =>
    LET before == SelectSeq(parsed.tree, LAMBDA d : d.op = "fn")
    IN \A k \in DOMAIN fns : Evaluated(before[k]) =>
         \A args \in [DOMAIN before[k].params -> 0..4] :
           L!Meaning(Evaluable(before[k]), args) = L!Meaning(Evaluable(fns[k]), args)
=============================================================================
