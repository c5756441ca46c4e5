------------------------------- MODULE Parser -------------------------------
(***************************************************************************)
(* The recursive-descent parser of parser.c.  Its state is a record, and   *)
(* each parsing function an operator from a state to the node it builds    *)
(* and the state it leaves.  The first error of a statement sets "panic",  *)
(* which silences the rest until synchronize() finds a place to go on.     *)
(*                                                                         *)
(* A token is [t |-> type] with its word v or its number num, if it has    *)
(* one; a node is a record with "op" and its children in other fields.     *)
(* Types, expressions, blocks and declarations contain each other by way   *)
(* of Rule.                                                                *)
(***************************************************************************)
EXTENDS Integers, Sequences, SequencesExt, FiniteSets

CONSTANTS
  MaxErrors,   \* PARSER_MAX_ERRORS
  MaxTypes     \* the structs, and the enums, the registries hold

NoName  == <<>>
Nothing == [op |-> "nothing"]
NoType  == [name |-> NoName, args |-> <<>>]

Name(w)  == <<w>>
Var(n)   == [op |-> "var", name |-> n]
IntLit(v)   == [op |-> "int", val |-> v]
Bin(o, a, b) == [op |-> o, l |-> a, r |-> b]
CallOf(f, args) == [op |-> "call", fn |-> f, args |-> args]

\* A parser before its first token; the registries are global and empty.
ParserInit(toks) ==
  [toks |-> toks, pos |-> 1, errs |-> <<>>, panic |-> FALSE, stuck |-> FALSE,
   structs |-> <<>>, enums |-> <<>>]

\* A parsing function's result.
Gives(n, s) == [n |-> n, s |-> s]

Peek(s)     == s.toks[IF s.pos <= Len(s.toks) THEN s.pos ELSE Len(s.toks)]
Check(s, t) == Peek(s).t = t
CheckAny(s, ts) == Peek(s).t \in ts
Advance(s)  == IF Check(s, "eof") THEN s ELSE [s EXCEPT !.pos = @ + 1]
Skip(s, t)  == IF Check(s, t) THEN Advance(s) ELSE s

\* Mutant: every error is recorded, panic or not.
ErrorAt_always(s, pos) ==
  IF Len(s.errs) >= MaxErrors THEN s
  ELSE [s EXCEPT !.errs = Append(@, pos), !.panic = TRUE]

\* error_at_current, parser_error
ErrorAt(s, pos) ==
  IF s.panic \/ Len(s.errs) >= MaxErrors THEN s
  ELSE [s EXCEPT !.errs = Append(@, pos), !.panic = TRUE]

\* Mutant: a missing token is passed over in silence.
Expect_silently(s, t) == IF Check(s, t) THEN Advance(s) ELSE s

Expect(s, t) == IF Check(s, t) THEN Advance(s) ELSE ErrorAt(s, s.pos)

\* The name expect(IDENTIFIER) returns.
NameAt(s) == IF Check(s, "id") THEN Peek(s).v ELSE NoName

\* Where synchronize() stops.
StatementStarts ==
  {"fn", "let", "const", "if", "for", "while", "return", "match", "try", "error"}

Synchronize(s) ==
  LET stops(i) == \/ s.toks[i].t = "eof" \/ s.toks[i].t \in StatementStarts
                  \/ i > 1 /\ s.toks[i - 1].t = ";"
      at == CHOOSE i \in s.pos..Len(s.toks) :
              stops(i) /\ \A j \in s.pos..i - 1 : ~stops(j)
  IN [s EXCEPT !.panic = FALSE, !.pos = at]

\* A loop whose turn has taken no token goes round for ever.
Stuck(s) == [s EXCEPT !.stuck = TRUE, !.pos = Len(s.toks)]

-----------------------------------------------------------------------------
(* The registries of struct and enum names *)

Known(registry, name) == \E k \in DOMAIN registry : registry[k].name = name
Entry(registry, name) == registry[SelectInSeq(registry, LAMBDA e : e.name = name)]

\* struct_registry_add, enum_registry_add
CanAdd(registry, name) == ~Known(registry, name) /\ Len(registry) < MaxTypes
AddType(registry, name) ==
  IF CanAdd(registry, name) THEN Append(registry, [name |-> name, items |-> <<>>]) ELSE registry

\* struct_registry_add_field, enum_registry_add_variant
CanAddItem(registry, name, item) ==
  Known(registry, name) /\ item \notin ToSet(Entry(registry, name).items)
AddItem(registry, name, item) ==
  IF CanAddItem(registry, name, item)
  THEN [k \in DOMAIN registry |->
          IF registry[k].name = name THEN [registry[k] EXCEPT !.items = Append(@, item)]
                                     ELSE registry[k]]
  ELSE registry

\* enum_registry_variant_index: from 0; -1 for an unknown one.
VariantIndex(enums, name, variant) ==
  IF Known(enums, name) THEN SelectInSeq(Entry(enums, name).items, LAMBDA x : x = variant) - 1
                        ELSE -1

-----------------------------------------------------------------------------
(* Types and expressions *)

RECURSIVE Rule(_, _), ParseExprs(_, _), ParseFields(_, _), ParsePostfix(_),
          ParseLevel(_, _), ParseLevelRest(_, _), ParseDeclarations(_, _), ParseIf(_),
          ParseArms(_, _), ParseParams(_, _), ParseStructBody(_, _, _), ParseEnumBody(_, _, _)

ParseType(s)        == Rule("type", s)
ParseExpr(s)        == Rule("expression", s)
ParseOr(s)          == Rule("or", s)
ParseUnary(s)       == Rule("unary", s)
ParseBlock(s)       == Rule("block", s)
ParseDeclaration(s) == Rule("declaration", s)

\* name < type >
TypeOf1(s, name) ==
  LET inner == ParseType(Expect(Advance(s), "<"))
  IN Gives([name |-> Name(name), args |-> <<inner.n>>], Expect(inner.s, ">"))

TypeRule(s) ==
  CASE Check(s, "Option") -> TypeOf1(s, "Option")
    [] Check(s, "arr")    -> TypeOf1(s, "arr")
    [] Check(s, "map")    ->
         LET key == ParseType(Expect(Advance(s), "<"))
             val == ParseType(Expect(key.s, ","))
         IN Gives([name |-> Name("map"), args |-> <<key.n, val.n>>], Expect(val.s, ">"))
    [] CheckAny(s, {"type", "id"}) -> Gives([name |-> Peek(s).v, args |-> <<>>], Advance(s))
    [] OTHER -> Gives(NoType, ErrorAt(s, s.pos))

\* expr { "," expr }
ParseExprs(s, before) ==
  LET e == ParseExpr(s)
      all == Append(before, e.n)
  IN IF Check(e.s, ",") THEN ParseExprs(Advance(e.s), all) ELSE Gives(all, e.s)

\* The expressions up to a closing token, which may follow at once.
ParseList(s, close) ==
  LET es == IF Check(s, close) THEN Gives(<<>>, s) ELSE ParseExprs(s, <<>>)
  IN Gives(es.n, Expect(es.s, close))

ParsePrimary(s) ==
  CASE Check(s, "int")   -> Gives(IntLit(Peek(s).num), Advance(s))
    [] Check(s, "float") -> Gives([op |-> "float", val |-> Peek(s).num], Advance(s))
    [] Check(s, "str")   -> Gives([op |-> "str", val |-> Peek(s).v], Advance(s))
    [] Check(s, "true")  -> Gives([op |-> "bool", val |-> 1], Advance(s))
    [] Check(s, "false") -> Gives([op |-> "bool", val |-> 0], Advance(s))
    [] Check(s, "None")  -> Gives([op |-> "none"], Advance(s))
    [] Check(s, "Some")  ->
         LET e == ParseExpr(Expect(Advance(s), "("))
         IN Gives([op |-> "some", e |-> e.n], Expect(e.s, ")"))
    [] Check(s, "[") ->
         LET es == ParseList(Advance(s), "]") IN Gives([op |-> "array", es |-> es.n], es.s)
    [] Check(s, "(") ->
         LET e == ParseExpr(Advance(s)) IN Gives(e.n, Expect(e.s, ")"))
    [] CheckAny(s, {"id", "level"}) -> Gives(Var(Peek(s).v), Advance(s))
    [] OTHER -> Gives(Var(NoName), Advance(ErrorAt(s, s.pos)))

\* Name :: Variant becomes the variant's number.
ParseVariant(p) ==
  IF p.n.op = "var" /\ p.n.name # NoName /\ Check(p.s, "::") THEN
    LET s1    == Advance(p.s)
        s2    == Expect(s1, "id")
        found == VariantIndex(s1.enums, p.n.name, NameAt(s1))
    IN IF NameAt(s1) = NoName \/ found >= 0
       THEN Gives([op |-> "variant", val |-> found], s2)
       ELSE Gives([op |-> "variant", val |-> 0], ErrorAt(s2, s1.pos))
  ELSE p

\* name : expr { "," name : expr }, a comma allowed before the brace.
ParseFields(s, before) ==
  LET e   == ParseExpr(Expect(Expect(s, "id"), ":"))
      all == Append(before, [name |-> NameAt(s), e |-> e.n])
      s1  == Skip(e.s, ",")
  IN IF s1 # e.s /\ ~Check(s1, "}") THEN ParseFields(s1, all) ELSE Gives(all, s1)

\* A known struct's name and "{": try_parse_struct_init.
ParseStructInit(p) ==
  IF p.n.op = "var" /\ Known(p.s.structs, p.n.name) /\ Check(p.s, "{") THEN
    LET s1 == Advance(p.s)
        fs == IF Check(s1, "}") THEN Gives(<<>>, s1) ELSE ParseFields(s1, <<>>)
    IN Gives([op |-> "struct", name |-> p.n.name, fields |-> fs.n], Expect(fs.s, "}"))
  ELSE p

\* Calls and members, as many as follow.
ParsePostfix(p) ==
  CASE Check(p.s, "(") ->
         LET es == ParseList(Advance(p.s), ")") IN ParsePostfix(Gives(CallOf(p.n, es.n), es.s))
    [] Check(p.s, ".") ->
         LET s1 == Advance(p.s)
             s2 == Expect(s1, "id")
         IN ParsePostfix(Gives([op |-> IF Check(s2, "(") THEN "member" ELSE "field",
                                e |-> p.n, name |-> NameAt(s1)], s2))
    [] OTHER -> p

ParseCall(s) == ParsePostfix(ParseStructInit(ParseVariant(ParsePrimary(s))))

UnaryRule(s) ==
  IF CheckAny(s, {"-", "!"}) THEN
    LET e == ParseUnary(Advance(s))
    IN Gives([op |-> IF Check(s, "-") THEN "neg" ELSE "!", l |-> e.n], e.s)
  ELSE ParseCall(s)

\* Mutant: & binds tighter than the shifts.
Levels_andTighter ==
  <<{"||"}, {"&&"}, {"|"}, {"^"}, {"==", "!="}, {"<", ">", "<=", ">="},
    {"<<", ">>"}, {"&"}, {"+", "-"}, {"*", "/", "%"}>>

\* parse_or down to parse_multiplication, the loosest first.
Levels ==
  <<{"||"}, {"&&"}, {"|"}, {"^"}, {"&"}, {"==", "!="}, {"<", ">", "<=", ">="},
    {"<<", ">>"}, {"+", "-"}, {"*", "/", "%"}>>

ParseLevel(k, s) ==
  IF k > Len(Levels) THEN ParseUnary(s) ELSE ParseLevelRest(k, ParseLevel(k + 1, s))

\* The operators of one level, from left to right.
ParseLevelRest(k, p) ==
  IF CheckAny(p.s, Levels[k]) THEN
    LET e == ParseLevel(k + 1, Advance(p.s))
    IN ParseLevelRest(k, Gives(Bin(Peek(p.s).t, p.n, e.n), e.s))
  ELSE p

\* The read side of a compound assignment: a copy without the children.
ShallowCopy(e) == IF e.op \in {"var", "int"} THEN e ELSE [op |-> "shallow", of |-> e.op]

Compound == {"+=", "-=", "*=", "/="}
PlainOp(t) == CASE t = "+=" -> "+" [] t = "-=" -> "-" [] t = "*=" -> "*" [] t = "/=" -> "/"

ExprStmt(e) == [op |-> "expr", e |-> e]
IfNode(c, then, else, chain) ==
  [op |-> "if", c |-> c, then |-> then, else |-> else, chain |-> chain]

ParseAssignment(s) ==
  LET left == ParseOr(s)
      op   == Peek(left.s).t
  IN CASE op = "?" ->
            LET a == ParseExpr(Advance(left.s))
                b == ParseExpr(Expect(a.s, ":"))
            IN Gives(IfNode(left.n, <<ExprStmt(a.n)>>, <<ExprStmt(b.n)>>, FALSE), b.s)
       [] op = "=" ->
            LET right == ParseExpr(Advance(left.s))
            IN Gives(Bin("=", left.n, right.n), right.s)
       [] op \in Compound ->
            LET right == ParseExpr(Advance(left.s))
            IN Gives(Bin("=", left.n, Bin(PlainOp(op), ShallowCopy(left.n), right.n)), right.s)
       [] OTHER -> left

-----------------------------------------------------------------------------
(* Statements *)

ParseDeclarations(s, before) ==
  IF CheckAny(s, {"}", "eof"}) THEN Gives(before, s)
  ELSE LET d == ParseDeclaration(s) IN ParseDeclarations(d.s, Append(before, d.n))

BlockRule(s) ==
  LET ds == ParseDeclarations(Expect(s, "{"), <<>>) IN Gives(ds.n, Expect(ds.s, "}"))

\* "(" expr ")"
ParseCondition(s) ==
  LET e == ParseExpr(Expect(s, "(")) IN Gives(e.n, Expect(e.s, ")"))

ParseReturn(s) ==
  LET e == IF Check(s, ";") THEN Gives(Nothing, s) ELSE ParseExpr(s)
  IN Gives([op |-> "return", e |-> e.n], Expect(e.s, ";"))

\* What follows "else": another if is a child of its own, not in a block.
ParseIf(s) ==
  LET c == ParseCondition(s)
      t == ParseBlock(c.s)
  IN IF ~Check(t.s, "else") THEN Gives(IfNode(c.n, t.n, <<>>, FALSE), t.s)
     ELSE IF Check(Advance(t.s), "if")
       THEN LET e == ParseIf(Advance(Advance(t.s))) IN Gives(IfNode(c.n, t.n, <<e.n>>, TRUE), e.s)
       ELSE LET e == ParseBlock(Advance(t.s)) IN Gives(IfNode(c.n, t.n, e.n, FALSE), e.s)

LetNode(op, name, type, e) == [op |-> op, name |-> name, type |-> type, e |-> e]

\* for (let x in collection): a counted loop over a variable of a fixed name.
ForEachIndex == Name("__fi")
ParseForEach(s, name) ==
  LET e    == ParseExpr(s)
      body == ParseBlock(Expect(e.s, ")"))
      coll == Var(IF e.n.op = "var" THEN e.n.name ELSE Name("__arr"))
      i    == Var(ForEachIndex)
  IN Gives([op |-> "for",
            init |-> LetNode("let", ForEachIndex, [name |-> Name("i32"), args |-> <<>>], IntLit(0)),
            c    |-> Bin("<", i, CallOf(Var(Name("arr_len")), <<coll>>)),
            step |-> Bin("=", i, Bin("+", i, IntLit(1))),
            body |-> <<LetNode("let", name, NoType, CallOf(Var(Name("arr_get")), <<coll, i>>))>>
                       \o body.n], body.s)

\* let name [: type] [= expr] ;
ParseForLet(s, name) ==
  LET t == IF Check(s, ":") THEN ParseType(Advance(s)) ELSE Gives(NoType, s)
      e == IF Check(t.s, "=") THEN ParseExpr(Advance(t.s)) ELSE Gives(Nothing, t.s)
  IN Gives(LetNode("let", name, t.n, e.n), Expect(e.s, ";"))

ParseForInit(s) ==
  IF Check(s, ";") THEN Gives(ExprStmt(Nothing), Advance(s))
  ELSE LET e == ParseExpr(s) IN Gives(ExprStmt(e.n), Expect(e.s, ";"))

ParseForRest(init) ==
  LET c    == IF Check(init.s, ";") THEN Gives([op |-> "bool", val |-> 0], init.s)
                                    ELSE ParseExpr(init.s)
      s1   == Expect(c.s, ";")
      step == IF Check(s1, ")") THEN Gives(ExprStmt(Nothing), s1) ELSE ParseExpr(s1)
      body == ParseBlock(Expect(step.s, ")"))
  IN Gives([op |-> "for", init |-> init.n, c |-> c.n, step |-> step.n, body |-> body.n], body.s)

ParseFor(s) ==
  LET s1 == Expect(s, "(")
      s2 == Expect(Advance(s1), "id")
      name == NameAt(Advance(s1))
  IN IF ~Check(s1, "let") THEN ParseForRest(ParseForInit(s1))
     ELSE IF Check(s2, "in") THEN ParseForEach(Advance(s2), name)
     ELSE ParseForRest(ParseForLet(s2, name))

ParseWhile(s) ==
  LET c == ParseCondition(s)
      b == ParseBlock(c.s)
  IN Gives([op |-> "while", c |-> c.n, body |-> b.n], b.s)

\* pattern => block [,]   or   pattern => expr ,
ParseArms(s, before) ==
  IF CheckAny(s, {"}", "eof"}) THEN Gives(before, s)
  ELSE LET pat == ParseExpr(s)
           s1  == Expect(pat.s, "=>")
           block == ParseBlock(s1)
           e     == ParseExpr(s1)
           arm(body) == Append(before, [op |-> "arm", pat |-> pat.n, body |-> body])
       IN IF Check(s1, "{") THEN ParseArms(Skip(block.s, ","), arm(block.n))
          ELSE ParseArms(IF Check(e.s, "}") THEN e.s ELSE Expect(e.s, ","), arm(<<ExprStmt(e.n)>>))

ParseMatch(s) ==
  LET e    == ParseCondition(s)
      arms == ParseArms(Expect(e.s, "{"), <<>>)
  IN Gives([op |-> "match", e |-> e.n, arms |-> arms.n], Expect(arms.s, "}"))

ParseTry(s) ==
  LET b  == ParseBlock(s)
      s1 == Expect(Expect(b.s, "catch"), "(")
      t  == ParseType(Expect(Expect(s1, "id"), ":"))
      c  == ParseBlock(Expect(t.s, ")"))
  IN Gives([op |-> "try", body |-> b.n, name |-> NameAt(s1), type |-> t.n, catch |-> c.n], c.s)

\* error . raise ( expr [, expr] ) ;
ParseRaise(s) ==
  LET a == ParseExpr(Expect(Expect(Expect(s, "."), "id"), "("))
      b == IF Check(a.s, ",") THEN ParseExpr(Advance(a.s)) ELSE a
  IN Gives([op |-> "raise", args |-> IF Check(a.s, ",") THEN <<a.n, b.n>> ELSE <<a.n>>],
           Expect(Expect(b.s, ")"), ";"))

ParseStatement(s) ==
  LET s1 == Advance(s)
      b  == ParseBlock(s)
      e  == ParseExpr(s)
  IN CASE Check(s, "return") -> ParseReturn(s1)
       [] Check(s, "if")     -> ParseIf(s1)
       [] Check(s, "for")    -> ParseFor(s1)
       [] Check(s, "while")  -> ParseWhile(s1)
       [] Check(s, "match")  -> ParseMatch(s1)
       [] Check(s, "try")    -> ParseTry(s1)
       [] Check(s, "error")  -> ParseRaise(s1)
       [] CheckAny(s, {"break", "continue"}) -> Gives([op |-> Peek(s).t], Expect(s1, ";"))
       [] Check(s, "{")      -> Gives([op |-> "block", body |-> b.n], b.s)
       [] OTHER              -> Gives(ExprStmt(e.n), Expect(e.s, ";"))

-----------------------------------------------------------------------------
(* Declarations *)

ParseVar(s, op) ==
  LET t == ParseType(Expect(Expect(s, "id"), ":"))
      e == ParseExpr(Expect(t.s, "="))
  IN Gives(LetNode(op, NameAt(s), t.n, e.n), Expect(e.s, ";"))

ParseParams(s, before) ==
  LET t   == ParseType(Expect(Expect(s, "id"), ":"))
      all == Append(before, [name |-> NameAt(s), type |-> t.n])
  IN IF Check(t.s, ",") THEN ParseParams(Advance(t.s), all) ELSE Gives(all, t.s)

ParseFn(s) ==
  LET s1  == Expect(Expect(s, "id"), "(")
      ps  == IF Check(s1, ")") THEN Gives(<<>>, s1) ELSE ParseParams(s1, <<>>)
      s2  == Expect(ps.s, ")")
      ret == IF Check(s2, "->") THEN ParseType(Advance(s2)) ELSE Gives(NoType, s2)
      b   == ParseBlock(ret.s)
  IN Gives([op |-> "fn", name |-> NameAt(s), params |-> ps.n, ret |-> ret.n,
            typed |-> Check(s2, "->"), body |-> b.n], b.s)

\* A comma, or else a semicolon, between fields or variants; neither is required.
Separator(s) == IF CheckAny(s, {",", ";"}) THEN Advance(s) ELSE s

ParseStructBody(s, name, before) ==
  IF CheckAny(s, {"}", "eof"}) THEN Gives(before, s)
  ELSE LET field == NameAt(s)
           t     == ParseType(Expect(Expect(s, "id"), ":"))
           s1    == IF name # NoName /\ field # NoName
                    THEN [t.s EXCEPT !.structs = AddItem(@, name, field)] ELSE t.s
           s2    == Separator(s1)
       IN IF s2.pos = s.pos THEN Gives(before, Stuck(s2))
          ELSE ParseStructBody(s2, name, Append(before, [name |-> field, type |-> t.n]))

\* A name of a type: registered before its body, an error when it is there or
\* the registry is full.
Register(s, which, name) ==
  LET s1 == Expect(s, "id")
      reg == IF which = "struct" THEN s1.structs ELSE s1.enums
      s2 == IF name = NoName \/ CanAdd(reg, name) THEN s1 ELSE ErrorAt(s1, s.pos)
  IN IF name = NoName THEN s2
     ELSE IF which = "struct" THEN [s2 EXCEPT !.structs = AddType(@, name)]
                              ELSE [s2 EXCEPT !.enums = AddType(@, name)]

ParseStruct(s) ==
  LET fs == ParseStructBody(Expect(Register(s, "struct", NameAt(s)), "{"), NameAt(s), <<>>)
  IN Gives([op |-> "structdecl", name |-> NameAt(s), fields |-> fs.n], Expect(fs.s, "}"))

ParseEnumBody(s, name, before) ==
  IF CheckAny(s, {"}", "eof"}) THEN Gives(before, s)
  ELSE LET variant == NameAt(s)
           s1 == Expect(s, "id")
           s2 == CASE variant = NoName \/ name = NoName -> s1
                   [] OTHER -> [(IF CanAddItem(s1.enums, name, variant) THEN s1
                                 ELSE ErrorAt(s1, s.pos))
                                EXCEPT !.enums = AddItem(@, name, variant)]
           s3 == Separator(s2)
       IN IF s3.pos = s.pos THEN Gives(before, Stuck(s3))
          ELSE ParseEnumBody(s3, name, Append(before, variant))

ParseEnum(s) ==
  LET vs == ParseEnumBody(Expect(Register(s, "enum", NameAt(s)), "{"), NameAt(s), <<>>)
  IN Gives([op |-> "enumdecl", name |-> NameAt(s), variants |-> vs.n], Expect(vs.s, "}"))

\* parse_declaration: after an error it goes on at the next statement.
Recover(d) == Gives(d.n, IF d.s.panic THEN Synchronize(d.s) ELSE d.s)

DeclarationRule(s) ==
  LET s1 == Advance(s)
  IN Recover(CASE Check(s, "fn")     -> ParseFn(s1)
               [] Check(s, "let")    -> ParseVar(s1, "let")
               [] Check(s, "const")  -> ParseVar(s1, "const")
               [] Check(s, "struct") -> ParseStruct(s1)
               [] Check(s, "enum")   -> ParseEnum(s1)
               [] OTHER              -> ParseStatement(s))

Rule(what, s) ==
  CASE what = "type"        -> TypeRule(s)
    [] what = "expression"  -> ParseAssignment(s)
    [] what = "or"          -> ParseLevel(1, s)
    [] what = "unary"       -> UnaryRule(s)
    [] what = "block"       -> BlockRule(s)
    [] what = "declaration" -> DeclarationRule(s)

\* parse_program: declarations up to the end; a brace too many is an error of
\* the statement it starts.
RECURSIVE ParseProgram(_, _)
ParseProgram(s, before) ==
  IF Check(s, "eof") THEN Gives(before, s)
  ELSE LET d == ParseDeclaration(s) IN ParseProgram(d.s, Append(before, d.n))

\* Tokens to a tree, the errors, the registries.
Parse(toks) == ParseProgram(ParserInit(toks), <<>>)
=============================================================================
