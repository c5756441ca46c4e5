------------------------------- MODULE Source -------------------------------
(***************************************************************************)
(* What a program's text and its names mean, whatever the compiler does:   *)
(* the reference the front end is compared with.  Spell writes a tree with *)
(* the parentheses the operators' precedence asks for and no others;       *)
(* Scoped gives each use of a local the declaration that block structure   *)
(* gives it.                                                               *)
(***************************************************************************)
EXTENDS Integers, Sequences, SequencesExt, FiniteSets

Tok(t)     == [t |-> t]
Id(name)   == [t |-> "id", v |-> name]
Flat(seqs) == FoldLeft(LAMBDA a, b : a \o b, <<>>, seqs)

\* Items with a separator between them.
Separated(seqs, sep) ==
  Flat([k \in DOMAIN seqs |-> IF k = 1 THEN seqs[k] ELSE <<Tok(sep)>> \o seqs[k]])

-----------------------------------------------------------------------------
(* Spelling *)

BinaryOps ==
  {"=", "||", "&&", "|", "^", "&", "==", "!=", "<", ">", "<=", ">=", "<<", ">>",
   "+", "-", "*", "/", "%"}

Comparisons == {"==", "!=", "<", ">", "<=", ">="}

\* How tightly a node holds its parts together: LANGUAGE_SPEC.md:1837-1857, the
\* operators of one level from left to right.
Binding(e) ==
  CASE e.op \in {"=", "if"} -> 0
    [] e.op = "||" -> 1 [] e.op = "&&" -> 2
    [] e.op \in Comparisons -> 3
    [] e.op = "|"  -> 4 [] e.op = "^"  -> 5 [] e.op = "&" -> 6
    [] e.op \in {"<<", ">>"} -> 7
    [] e.op \in {"+", "-"} -> 8
    [] e.op \in {"*", "/", "%"} -> 9
    [] e.op \in {"neg", "!"} -> 10
    [] OTHER -> 11

\* The pairs of operators that the parser orders otherwise (parser.c:570-662):
\* there a comparison holds tighter than &, ^ and |, and a relation tighter than
\* an equality.
Contested(p, q) ==
  \/ p \in Comparisons /\ q \in {"&", "^", "|"}
  \/ p \in {"==", "!="} /\ q \in {"<", ">", "<=", ">="}

LevelNames ==
  {<<"Level.SILENT">>, <<"Level.LOGIC">>, <<"Level.WARNING">>, <<"Level.SYSTEM">>,
   <<"Level.CATASTROPHIC">>}

Primitive == {"i8", "i16", "i32", "i64", "u8", "u16", "u32", "u64", "f32", "f64", "str", "bool", "void"}

RECURSIVE SpellType(_), Spell(_, _), SpellStmt(_)

SpellType(t) ==
  IF t.args # <<>>
  THEN <<Tok(t.name[1]), Tok("<")>>
         \o Separated([k \in DOMAIN t.args |-> SpellType(t.args[k])], ",") \o <<Tok(">")>>
  ELSE <<[t |-> IF t.name[1] \in Primitive THEN "type" ELSE "id", v |-> t.name]>>

\* e where the context asks for a binding of at least b.
Spell(e, b) ==
  LET list(es) == Separated([k \in DOMAIN es |-> Spell(es[k], 0)], ",")
      field(f) == <<Id(f.name), Tok(":")>> \o Spell(f.e, 0)
      text ==
        CASE e.op = "var"   -> <<[t |-> IF e.name \in LevelNames THEN "level" ELSE "id", v |-> e.name]>>
          [] e.op \in {"int", "float"} -> <<[t |-> e.op, num |-> e.val]>>
          [] e.op = "str"   -> <<[t |-> "str", v |-> e.val]>>
          [] e.op = "bool"  -> <<Tok(IF e.val = 1 THEN "true" ELSE "false")>>
          [] e.op = "none"  -> <<Tok("None")>>
          [] e.op = "some"  -> <<Tok("Some"), Tok("(")>> \o Spell(e.e, 0) \o <<Tok(")")>>
          [] e.op = "array" -> <<Tok("[")>> \o list(e.es) \o <<Tok("]")>>
          [] e.op = "call"  -> Spell(e.fn, 11) \o <<Tok("(")>> \o list(e.args) \o <<Tok(")")>>
          [] e.op \in {"field", "member"} -> Spell(e.e, 11) \o <<Tok("."), Id(e.name)>>
          [] e.op = "struct" -> <<Id(e.name), Tok("{")>>
               \o Separated([k \in DOMAIN e.fields |-> field(e.fields[k])], ",") \o <<Tok("}")>>
          [] e.op \in {"neg", "!"} -> <<Tok(IF e.op = "neg" THEN "-" ELSE "!")>> \o Spell(e.l, 10)
          [] e.op = "=" -> Spell(e.l, 1) \o <<Tok("=")>> \o Spell(e.r, 0)
          [] e.op = "if" -> Spell(e.c, 1) \o <<Tok("?")>> \o Spell(e.then[1].e, 0)
                              \o <<Tok(":")>> \o Spell(e.else[1].e, 0)
          [] OTHER -> Spell(e.l, Binding(e)) \o <<Tok(e.op)>> \o Spell(e.r, Binding(e) + 1)
  IN IF Binding(e) < b THEN <<Tok("(")>> \o text \o <<Tok(")")>> ELSE text

Braced(body) == <<Tok("{")>> \o Flat([k \in DOMAIN body |-> SpellStmt(body[k])]) \o <<Tok("}")>>
Parens(e)    == <<Tok("(")>> \o Spell(e, 0) \o <<Tok(")")>>
Typed(n)     == <<Id(n.name), Tok(":")>> \o SpellType(n.type)

SpellStmt(n) ==
  CASE n.op = "expr" -> Spell(n.e, 0) \o <<Tok(";")>>
    [] n.op \in {"let", "const"} -> <<Tok(n.op)>> \o Typed(n) \o <<Tok("=")>> \o Spell(n.e, 0) \o <<Tok(";")>>
    [] n.op = "return" -> <<Tok("return")>> \o (IF n.e.op = "nothing" THEN <<>> ELSE Spell(n.e, 0)) \o <<Tok(";")>>
    [] n.op \in {"break", "continue"} -> <<Tok(n.op), Tok(";")>>
    [] n.op = "block" -> Braced(n.body)
    [] n.op = "if" ->
         <<Tok("if")>> \o Parens(n.c) \o Braced(n.then)
           \o (IF n.else = <<>> THEN <<>>
               ELSE <<Tok("else")>> \o (IF n.chain THEN SpellStmt(n.else[1]) ELSE Braced(n.else)))
    [] n.op = "while" -> <<Tok("while")>> \o Parens(n.c) \o Braced(n.body)
    [] n.op = "for" -> <<Tok("for"), Tok("(")>> \o SpellStmt(n.init) \o Spell(n.c, 0)
                         \o <<Tok(";")>> \o Spell(n.step, 0) \o <<Tok(")")>> \o Braced(n.body)
    [] n.op = "match" ->
         <<Tok("match")>> \o Parens(n.e) \o <<Tok("{")>>
           \o Flat([k \in DOMAIN n.arms |-> Spell(n.arms[k].pat, 0) \o <<Tok("=>")>> \o Braced(n.arms[k].body)])
           \o <<Tok("}")>>
    [] n.op = "try" -> <<Tok("try")>> \o Braced(n.body) \o <<Tok("catch"), Tok("(")>>
                         \o Typed(n) \o <<Tok(")")>> \o Braced(n.catch)
    [] n.op = "raise" -> <<Tok("error"), Tok("."), Id(<<"raise">>), Tok("(")>>
                           \o Separated([k \in DOMAIN n.args |-> Spell(n.args[k], 0)], ",")
                           \o <<Tok(")"), Tok(";")>>
    [] n.op = "fn" -> <<Tok("fn"), Id(n.name), Tok("(")>>
                        \o Separated([k \in DOMAIN n.params |-> Typed(n.params[k])], ",") \o <<Tok(")")>>
                        \o (IF n.typed THEN <<Tok("->")>> \o SpellType(n.ret) ELSE <<>>) \o Braced(n.body)
    [] n.op = "structdecl" -> <<Tok("struct"), Id(n.name), Tok("{")>>
         \o Flat([k \in DOMAIN n.fields |-> Typed(n.fields[k]) \o <<Tok(",")>>]) \o <<Tok("}")>>
    [] n.op = "enumdecl" -> <<Tok("enum"), Id(n.name), Tok("{")>>
         \o Flat([k \in DOMAIN n.variants |-> <<Id(n.variants[k]), Tok(",")>>]) \o <<Tok("}")>>

SpellProgram(program) == Flat([k \in DOMAIN program |-> SpellStmt(program[k])])

\* A token without what only the models know of it.
Plainly(tok) == IF "v" \in DOMAIN tok THEN [t |-> tok.t, v |-> tok.v] ELSE tok

-----------------------------------------------------------------------------
(* Scopes *)

\* The expressions directly inside an expression, each with its place.
Parts(n) ==
  LET at(f) == <<<<<<f>>, n[f]>>>>
      all(f) == [k \in DOMAIN n[f] |-> <<<<f, k>>, n[f][k]>>]
  IN CASE n.op \in BinaryOps -> at("l") \o at("r")
       [] n.op \in {"neg", "!"} -> at("l")
       [] n.op \in {"some", "field", "member"} -> at("e")
       [] n.op = "call"   -> all("args")
       [] n.op = "array"  -> all("es")
       [] n.op = "struct" -> [k \in DOMAIN n.fields |-> <<<<"fields", k>>, n.fields[k].e>>]
       [] OTHER -> <<>>

\* A function's declarations and uses of locals as the reader meets them, each
\* at its place in the tree.  A variable can be named after its declaration,
\* to the end of the block it stands in.
Ev(ev, name, at) == [ev |-> ev, name |-> name, at |-> at]
Inside(events)   == <<Ev("open", <<>>, <<>>)>> \o events \o <<Ev("close", <<>>, <<>>)>>

RECURSIVE Walk(_, _)
Walk(n, at) ==
  LET part(f) == Walk(n[f], Append(at, f))
      all(f)  == Flat([k \in DOMAIN n[f] |-> Walk(n[f][k], at \o <<f, k>>)])
      parts   == Parts(n)
  IN CASE n.op = "var" -> <<Ev("use", n.name, at)>>
       [] n.op \in {"let", "const"} -> part("e") \o <<Ev("decl", n.name, at)>>
       [] n.op \in {"return", "expr"} -> part("e")
       [] n.op = "block" -> Inside(all("body"))
       [] n.op = "if"    -> part("c") \o Inside(all("then")) \o Inside(all("else"))
       [] n.op = "while" -> part("c") \o Inside(all("body"))
       [] n.op = "for"   -> Inside(part("init") \o part("c") \o part("step") \o all("body"))
       [] n.op = "match" -> part("e") \o all("arms")
       [] n.op = "arm"   -> part("pat") \o Inside(all("body"))
       [] n.op = "try"   -> Inside(all("body")) \o Inside(<<Ev("decl", n.name, at)>> \o all("catch"))
       [] n.op = "raise" -> all("args")
       [] n.op = "fn"    ->
            [k \in DOMAIN n.params |-> Ev("decl", n.params[k].name, <<"params", k>>)] \o all("body")
       [] OTHER -> Flat([k \in DOMAIN parts |-> Walk(parts[k][2], at \o parts[k][1])])

\* Each use's declaration by block structure, <<>> where there is none.
Scoped(events) ==
  LET latest(env, name) == SelectLastInSeq(env, LAMBDA d : d.ev = "decl" /\ d.name = name)
      opened(env) == SelectLastInSeq(env, LAMBDA d : d.ev = "open")
      found(env, name) == LET k == latest(env, name) IN IF k = 0 THEN <<>> ELSE env[k].at
      step(r, e) ==
        CASE e.ev \in {"open", "decl"} -> [r EXCEPT !.env = Append(@, e)]
          [] e.ev = "close" -> [r EXCEPT !.env = SubSeq(@, 1, opened(@) - 1)]
          [] e.ev = "use"   -> [r EXCEPT !.uses = @ \cup {[name |-> e.name, at |-> e.at,
                                                          means |-> found(r.env, e.name)]}]
  IN FoldLeft(step, [env |-> <<>>, uses |-> {}], events).uses

Lexical(fn) == Scoped(Walk(fn, <<>>))

-----------------------------------------------------------------------------
(* Rules *)

RECURSIVE Nodes(_)

\* Every node of a tree, by way of whatever fields hold nodes.
Nodes(n) ==
  LET many(ns) == UNION {Nodes(ns[k]) : k \in DOMAIN ns}
  IN {n} \cup UNION {Nodes(n[f]) : f \in DOMAIN n \cap {"l", "r", "c", "e", "init", "step", "pat"}}
         \cup UNION {many(n[f]) : f \in DOMAIN n \cap {"then", "else", "body", "args", "arms", "es", "catch"}}
         \cup IF n.op = "struct" THEN UNION {Nodes(n.fields[k].e) : k \in DOMAIN n.fields} ELSE {}

\* A tree without its catch blocks.
RECURSIVE NodesOutsideCatch(_)
NodesOutsideCatch(n) ==
  LET many(ns) == UNION {NodesOutsideCatch(ns[k]) : k \in DOMAIN ns}
  IN {n} \cup UNION {NodesOutsideCatch(n[f]) : f \in DOMAIN n \cap {"l", "r", "c", "e", "init", "step", "pat"}}
         \cup UNION {many(n[f]) : f \in DOMAIN n \cap {"then", "else", "body", "args", "arms", "es"}}

\* A contested operator directly inside its rival.
ContestedAt(n) ==
  n.op \in BinaryOps /\ \E m \in {n.l, n.r} : Contested(n.op, m.op) \/ Contested(m.op, n.op)

ConstantZeroDivisor(n) ==
  n.op \in {"/", "%"} /\ n.r.op \in {"int", "float"} /\ n.r.val = 0

\* Declarations the analyzer does not see: inside a match arm, and those of a
\* try with its catch.
HidesDeclarations(n) ==
  \E m \in Nodes(n) : \/ m.op = "try"
                      \/ m.op = "arm" /\ \E k \in UNION {Nodes(b) : b \in ToSet(m.body)} :
                                           k.op \in {"let", "const"}
=============================================================================
