------------------------------ MODULE Compiler ------------------------------
(***************************************************************************)
(* A compilation from its files to the executable: compiler.c drives the   *)
(* import resolution, the lexer's check for illegal tokens, the parser,    *)
(* the analyzer, the optimizer and the code generator, each of which may   *)
(* count errors that keep the next ones from running.  Of the generator,   *)
(* this module has the names: which local a use of a name means, which     *)
(* function a call, and the table of calls that are patched when every     *)
(* function's address is known.  The code itself is Emit's.                *)
(***************************************************************************)
EXTENDS Imports, Analyzer, Optimizer, Source

CONSTANTS
  MaxVars,     \* the locals of a function: CODEGEN_MAX_VARS
  MaxFuncs,    \* the functions of a program: CODEGEN_MAX_FUNCS
  MaxCalls,    \* the calls that can be recorded: the length of call_patches
  MaxArgs      \* the arguments of a call: SYS_V_ARG_COUNT

VARIABLES
  phase,       \* the next stage; "done" at the end
  parsed,      \* what the parser returned: tree, errs, structs, enums
  diagnosed,   \* the analyzer's diagnostics
  fns,         \* the optimized functions, in order
  gen,         \* the generator: functions emitted, calls recorded, call sites
  errors,      \* error_count
  written      \* whether the executable is there

cvars == <<phase, parsed, diagnosed, fns, gen, errors, written>>
vars  == <<ivars, cvars>>

-----------------------------------------------------------------------------
(* The generator's names *)

\* The builtins the driver tells the analyzer of, with their parameters.
DriverTable ==
  [print_str |-> 1, print_int |-> 1, print_float |-> 1, print_dec |-> 1, read_int |-> 0,
   read_float |-> 0, arr_new |-> 1, arr_get |-> 2, arr_set |-> 3, arr_len |-> 1, str_new |-> 1,
   str_len |-> 1, str_eq |-> 2, str_char_at |-> 2, str_println |-> 1, str_concat |-> 2,
   int_to_float |-> 1, float_to_int |-> 1, dec |-> 1, file_open |-> 2, file_read |-> 3,
   file_write |-> 3, file_close |-> 1]

Globals ==
  {Symbol(Name(w), FnOf([k \in 1..DriverTable[w] |-> Unknown], Unknown), TRUE) :
     w \in DOMAIN DriverTable}

GlobalScope == FoldSet(LAMBDA g, scope : Append(scope, g), <<>>, Globals)

\* emit_builtin: code in place of a call, for the right number of arguments; of
\* the builtins not in the driver's table the number is taken to be right.
Inline(e) ==
  /\ e.fn.op = "var" /\ e.fn.name \in Builtins
  /\ e.fn.name[1] \in DOMAIN DriverTable => Len(e.args) = DriverTable[e.fn.name[1]]

RECURSIVE Emitted(_, _, _), HasFlow(_), Below(_)

\* block_has_flow_control.  It takes the statements of an inner block for blocks
\* themselves, and so misses what stands in them directly.
HasFlow(body) ==
  \E s \in ToSet(body) :
    \/ s.op \in {"break", "continue", "return"}
    \/ s.op = "if" /\ (HasFlow(s.then) \/ HasFlow(s.else))
    \/ s.op = "block" /\ \E t \in ToSet(s.body) : Below(t)

Below(s) ==
  \/ s.op = "block" /\ HasFlow(s.body)
  \/ s.op = "if" /\ \E t \in ToSet(s.then \o s.else) : Below(t)
  \/ s.op \in {"while", "for"} /\ \E t \in ToSet(s.body) : Below(t)
  \/ s.op = "try" /\ \E t \in ToSet(s.body \o s.catch) : Below(t)

\* What the code of a function names, in the order it is emitted: a local
\* declared (with the name of its type) or used, a struct's field, a call, or
\* something there is no code for in its place.
DeclEv(name, at, type)  == [ev |-> "decl", name |-> name, at |-> at, type |-> type]
FieldEv(object, name)   == [ev |-> "field", of |-> object, name |-> name]
Bad == <<[ev |-> "bad"]>>

\* The names in the code of node n of function fn.
Emitted(fn, n, at) ==
  LET part(f) == Emitted(fn, n[f], Append(at, f))
      all(f)  == Flat([k \in DOMAIN n[f] |-> Emitted(fn, n[f][k], at \o <<f, k>>)])
      parts   == [k \in DOMAIN Parts(n) |-> Emitted(fn, Parts(n)[k][2], at \o Parts(n)[k][1])]
      shown   == [k \in DOMAIN n.args |-> IF n.args[k].op = "str" THEN <<>> ELSE parts[k]]
      assigned(e, place) ==
        CASE e.l.op = "var"   -> Emitted(fn, e.r, Append(place, "r"))
                                   \o <<Ev("use", e.l.name, Append(place, "l"))>>
          [] e.l.op = "field" -> <<FieldEv(e.l.e, e.l.name)>>
                                   \o Emitted(fn, e.l.e, place \o <<"l", "e">>)
                                   \o Emitted(fn, e.r, Append(place, "r"))
          [] OTHER -> Bad
      effect(f) == IF n[f].op = "=" THEN assigned(n[f], Append(at, f)) ELSE part(f)
      call(e)   == e.op = "call" /\ e.fn.op = "var"
  IN CASE n.op = "var" -> <<Ev("use", n.name, at)>>
       [] n.op \in {"int", "float", "bool", "variant", "break", "continue"} -> <<>>
       [] n.op \in (BinaryOps \ {"="}) \cup {"neg", "!"} -> Flat(parts)
       [] n.op = "call" /\ Inline(n) -> Flat(shown)
       [] n.op = "call" /\ ~Inline(n) ->
            IF ~call(n) \/ Len(n.args) > MaxArgs THEN Bad
            ELSE Flat(Reverse(parts)) \o <<Ev("call", n.fn.name, at)>>
       [] n.op = "field"  -> <<FieldEv(n.e, n.name)>> \o part("e")
       [] n.op = "struct" -> <<DeclEv(Name("__struct_tmp") \o at, at, n.name)>> \o Flat(parts)
       [] n.op \in {"let", "const"} ->
            <<DeclEv(n.name, at, n.type.name)>> \o (IF n.e = Nothing THEN <<>> ELSE part("e"))
       [] n.op = "expr"   -> IF n.e = Nothing THEN <<>> ELSE effect("e")
       [] n.op = "block"  -> all("body")
       [] n.op = "if" /\ ~n.chain -> part("c") \o all("then") \o all("else")
       [] n.op = "while"  ->
            LET once == part("c") \o all("body")
            IN IF HasFlow(n.body) THEN once ELSE once \o once
       [] n.op = "for"    -> part("init") \o part("c") \o all("body") \o effect("step")
       [] n.op = "match"  ->
            IF n.arms = <<>> THEN <<>>
            ELSE part("e") \o <<DeclEv(Name("__match_val"), at, NoName)>> \o all("arms")
       [] n.op = "arm"    -> part("pat") \o all("body")
       [] n.op = "try"    -> all("body") \o <<DeclEv(n.name, at, NoName)>> \o all("catch")
       [] n.op = "raise"  -> Emitted(fn, n.args[1], at \o <<"args", 1>>)
       [] n.op = "return" ->
            CASE n.e = Nothing -> <<>>
              [] n.e # Nothing /\ call(n.e) /\ n.e.fn.name = fn ->
                   Flat(Reverse([k \in DOMAIN n.e.args |->
                          Emitted(fn, n.e.args[k], at \o <<"e", "args", k>>)]))
              [] OTHER -> part("e")
       [] n.op = "fn" /\ at = <<>> ->
            [k \in 1..(IF Len(n.params) < MaxArgs THEN Len(n.params) ELSE MaxArgs) |->
               DeclEv(n.params[k].name, <<"params", k>>, n.params[k].type.name)] \o all("body")
       [] OTHER -> Bad

\* Mutant: the first local of a name, not the latest.
find_local_first(locals, name) == SelectInSeq(locals, LAMBDA v : v.name = name)

find_local(locals, name) == SelectLastInSeq(locals, LAMBDA v : v.name = name)

\* The locals, uses and calls of a function, up to the first error.
Resolve(events, structs) ==
  LET failed(r)  == [r EXCEPT !.ok = FALSE]
      local(r, name) == find_local(r.locals, name)
      struct(r, e) == CASE e.op = "var" -> IF local(r, e.name) = 0 THEN NoName
                                           ELSE r.locals[local(r, e.name)].type
                        [] e.op = "struct" -> e.name
                        [] OTHER -> NoName
      step(r, e) ==
        CASE ~r.ok -> r
          [] r.ok /\ e.ev = "decl" ->
               IF Len(r.locals) >= MaxVars THEN failed(r) ELSE [r EXCEPT !.locals = Append(@, e)]
          [] r.ok /\ e.ev = "use" ->
               IF local(r, e.name) = 0 THEN failed(r)
               ELSE [r EXCEPT !.uses = @ \cup {[name |-> e.name, at |-> e.at,
                                               means |-> r.locals[local(r, e.name)].at]}]
          [] r.ok /\ e.ev = "call" -> [r EXCEPT !.calls = Append(@, e.name)]
          [] r.ok /\ e.ev = "field" ->
               IF /\ Known(structs, struct(r, e.of))
                  /\ e.name \in ToSet(Entry(structs, struct(r, e.of)).items)
               THEN r ELSE failed(r)
          [] OTHER -> failed(r)
  IN FoldLeft(step, [locals |-> <<>>, uses |-> {}, calls |-> <<>>, ok |-> TRUE], events)

\* A call's place is recorded as long as the table has room.
Record(calls, name) == IF Len(calls) < MaxCalls THEN Append(calls, name) ELSE calls

-----------------------------------------------------------------------------
(* The stages *)

NoTree == [tree |-> <<>>, errs |-> <<>>, structs |-> <<>>, enums |-> <<>>]

Init ==
  /\ ImportsInit
  /\ phase = "import" /\ parsed = NoTree /\ diagnosed = <<>> /\ fns = <<>>
  /\ gen = [funcs |-> <<>>, calls |-> <<>>, sites |-> 0]
  /\ errors = 0 /\ written = FALSE

ResolveImports == phase = "import" /\ ImportsNext /\ UNCHANGED cvars

\* The recursion of resolve_imports has used up the compiler's stack: it crashes.
CrashInImports == phase = "import" /\ Exhausted /\ UNCHANGED vars

Illegal == {i \in DOMAIN text : text[i].t = "illegal"}

\* Any illegal token ends the compilation.
LexerFails ==
  /\ phase = "import" /\ Resolved /\ Illegal # {}
  /\ errors' = errors + Cardinality(Illegal)
  /\ phase' = "done"
  /\ UNCHANGED <<ivars, parsed, diagnosed, fns, gen, written>>

\* The parser goes round for ever in a struct's or enum's body it takes no token
\* of.
ParseForever ==
  /\ phase = "import" /\ Resolved /\ Illegal = {}
  /\ Parse(text \o <<Tok("eof")>>).s.stuck
  /\ UNCHANGED vars

ParseText ==
  /\ phase = "import" /\ Resolved /\ Illegal = {}
  /\ \E p \in {Parse(text \o <<Tok("eof")>>)} :
        /\ ~p.s.stuck
        /\ parsed' = [tree |-> p.n, errs |-> p.s.errs, structs |-> p.s.structs, enums |-> p.s.enums]
        /\ errors' = errors + Len(p.s.errs)
  /\ phase' = "analyze"
  /\ UNCHANGED <<ivars, diagnosed, fns, gen, written>>

SkipAnalysis ==
  /\ phase = "analyze" /\ errors > 0
  /\ phase' = "done"
  /\ UNCHANGED <<ivars, parsed, diagnosed, fns, gen, errors, written>>

Blocking(errs) == Cardinality({k \in DOMAIN errs : errs[k].level \in {0, 1}})

\* The errors of level 0 and 1 are counted, and end the compilation.
AnalyzeTree ==
  /\ phase = "analyze" /\ errors = 0
  /\ \E a \in {Analyze(parsed.tree, GlobalScope, parsed.structs, parsed.enums)} :
        /\ diagnosed' = a.errs
        /\ errors' = Blocking(a.errs)
        /\ phase' = IF Blocking(a.errs) = 0 THEN "optimize" ELSE "done"
  /\ UNCHANGED <<ivars, parsed, fns, gen, written>>

\* Of what stands at the top, code is made for the functions only.
OptimizeTree ==
  /\ phase = "optimize"
  /\ fns' = SelectSeq(Optimize(parsed.tree), LAMBDA d : d.op = "fn")
  /\ phase' = "generate"
  /\ UNCHANGED <<ivars, parsed, diagnosed, gen, errors, written>>

NextFn == fns[Len(gen.funcs) + 1]

GenerateFunction ==
  /\ phase = "generate" /\ Len(gen.funcs) < Len(fns)
  /\ \E r \in {Resolve(Emitted(NextFn.name, NextFn, <<>>), parsed.structs)} :
        IF Len(gen.funcs) < MaxFuncs /\ r.ok
        THEN /\ gen' = [funcs |-> Append(gen.funcs, [name |-> NextFn.name, uses |-> r.uses]),
                        calls |-> FoldLeft(Record, gen.calls, r.calls),
                        sites |-> gen.sites + Len(r.calls)]
             /\ UNCHANGED <<errors, phase>>
        ELSE /\ errors' = errors + 1 /\ phase' = "done"
             /\ gen' = gen
  /\ UNCHANGED <<ivars, parsed, diagnosed, fns, written>>

Emits(name) == \E k \in DOMAIN gen.funcs : gen.funcs[k].name = name

\* Mutant: a target that is not there is left alone.
Link_anyway ==
  /\ phase = "generate" /\ Len(gen.funcs) = Len(fns)
  /\ gen' = [gen EXCEPT !.calls = Record(@, Name("main")), !.sites = @ + 1]
  /\ phase' = "write"
  /\ UNCHANGED <<ivars, parsed, diagnosed, fns, errors, written>>

\* emit_start and patch_calls: the entry calls main, and every recorded call is
\* given the address of the first function of its name.
Link ==
  /\ phase = "generate" /\ Len(gen.funcs) = Len(fns)
  /\ LET calls == Record(gen.calls, Name("main"))
         ok    == \A k \in DOMAIN calls : Emits(calls[k])
     IN /\ gen' = [gen EXCEPT !.calls = calls, !.sites = @ + 1]
        /\ errors' = IF ok THEN errors ELSE errors + 1
        /\ phase' = IF ok THEN "write" ELSE "done"
  /\ UNCHANGED <<ivars, parsed, diagnosed, fns, written>>

\* The file is written, or cannot be.
Write ==
  /\ phase = "write"
  /\ \/ written' = TRUE /\ errors' = errors
     \/ written' = FALSE /\ errors' = errors + 1
  /\ phase' = "done"
  /\ UNCHANGED <<ivars, parsed, diagnosed, fns, gen>>

Done == phase = "done" /\ UNCHANGED vars

Next ==
  \/ ResolveImports \/ CrashInImports \/ LexerFails \/ ParseForever \/ ParseText \/ SkipAnalysis
  \/ AnalyzeTree \/ OptimizeTree \/ GenerateFunction \/ Link \/ Write \/ Done

\* Only the resolution of imports takes more than one step of its own accord.
Spec == Init /\ [][Next]_vars /\ WF_vars(ResolveImports)

-----------------------------------------------------------------------------
(* Properties *)

\* Text with nothing the tree forgets: no abbreviation the parser expands.
Canonical == \A i \in DOMAIN text : text[i].t \notin Compound \cup {"::", "in"}

\* A text the parser finds no error in, spelled out again from the tree it
\* built with the parentheses that LANGUAGE_SPEC.md's table of precedence asks
\* for, is that text: no token is passed over or taken twice, and the operators
\* group as documented, those aside whose order the parser and the table
\* disagree about.
ParsedAsWritten ==
  /\ phase # "import" /\ Illegal = {} /\ parsed.errs = <<>> /\ Canonical
  /\ \A k \in DOMAIN parsed.tree : \A n \in Nodes(parsed.tree[k]) : ~ContestedAt(n)
  =>
    SpellProgram(parsed.tree) = [i \in DOMAIN text |-> Plainly(text[i])]

\* Between two errors the parser reports, there is a place synchronize() stops
\* at: one mistake is reported once.
OneErrorAtATime ==
  LET toks == text \o <<Tok("eof")>>
      starts(i) == toks[i].t \in StatementStarts \cup {"eof"} \/ (i > 1 /\ toks[i - 1].t = ";")
  IN \A k \in 1..Len(parsed.errs) - 1 : \E i \in parsed.errs[k]..parsed.errs[k + 1] : starts(i)

\* The analyzer has looked at the tree and has kept all it found.
Judged == phase \notin {"import", "analyze"} /\ parsed.errs = <<>> /\ Illegal = {}
            /\ Len(diagnosed) < MaxDiagnostics
Found(code) == {d \in ToSet(diagnosed) : d.code = code}

\* The functions that can be named in the k-th declaration.
Callable(k) ==
  {g.name : g \in Globals} \cup
    {parsed.tree[j].name : j \in {i \in 1..k : parsed.tree[i].op = "fn"}}

\* The calls in a tree that are not code in place.
CallsIn(nodes) == {m \in nodes : m.op = "call" /\ m.fn.op = "var" /\ ~Inline(m)}

\* The names of the k-th declaration that mean nothing where they stand.
Meaningless(k) ==
  {u.name : u \in {v \in Lexical(parsed.tree[k]) : v.means = <<>>}}
    \cup {m.fn.name : m \in {c \in CallsIn(Nodes(parsed.tree[k])) : c.fn.name \notin Builtins}}
CallsLocals(k) ==
  \E m \in CallsIn(Nodes(parsed.tree[k])) :
    \E d \in ToSet(Walk(parsed.tree[k], <<>>)) : d.ev = "decl" /\ d.name = m.fn.name

\* A name is reported as undefined exactly when block structure gives it no
\* declaration and no function of that name stands above: in programs made of
\* functions without try, whose match arms declare nothing, whose locals all have
\* types, and which call no name they declare as a local.
NamesJudgedRight ==
  /\ Judged /\ Found("duplicate") = {}
  /\ \A k \in DOMAIN parsed.tree :
       /\ parsed.tree[k].op = "fn" /\ ~HidesDeclarations(parsed.tree[k])
       /\ ~CallsLocals(k)
       /\ \A m \in Nodes(parsed.tree[k]) : m.op = "let" => m.type # NoType
  => {d.about : d \in Found("undefined")} =
       UNION {Meaningless(k) \ Callable(k) : k \in DOMAIN parsed.tree}

\* What the language forbids is in no executable, catch blocks aside: a divisor
\* that is the literal zero, two functions of one name, and a call with another
\* number of arguments than the function of that name takes.
WrittenKeepsTheRules ==
  written /\ Judged =>
    LET nodes == UNION {NodesOutsideCatch(parsed.tree[k]) : k \in DOMAIN parsed.tree}
        fn(k) == parsed.tree[k].op = "fn"
    IN /\ \A m \in nodes : ~ConstantZeroDivisor(m)
       /\ \A i, j \in DOMAIN parsed.tree :
            fn(i) /\ fn(j) /\ parsed.tree[i].name = parsed.tree[j].name => i = j
       /\ \A m \in CallsIn(nodes), k \in DOMAIN parsed.tree :
            fn(k) /\ parsed.tree[k].name = m.fn.name /\ m.fn.name \notin Builtins
              => Len(m.args) = Len(parsed.tree[k].params)

\* In an executable whose compilation warned of no shadowing, each use of a
\* local is the slot of the declaration that block structure gives it, although
\* the generator looks for the latest of the name and forgets none; where the
\* analyzer sees all declarations, and no parameter comes twice.
OneResolution ==
  /\ written /\ Judged /\ Found("W003") = {}
  /\ \A f \in ToSet(fns) :
       /\ ~HidesDeclarations(f)
       /\ \A i, j \in DOMAIN f.params : f.params[i].name = f.params[j].name => i = j
  => \A k \in DOMAIN fns : gen.funcs[k].uses \subseteq Lexical(fns[k])

\* In an executable whose calls all fitted into the table, the entry and every
\* call of a function have been given the address of a function of that name.
CallsLinked ==
  written /\ gen.sites <= MaxCalls =>
    /\ Len(gen.calls) = gen.sites
    /\ Emits(Name("main"))
    /\ \A m \in CallsIn(UNION {Nodes(f) : f \in ToSet(fns)}) : Emits(m.fn.name)

\* "Empty catch blocks are forbidden" (spec/ERROR_LEVELS.md): no executable has
\* one.
EmptyCatchRejected ==
  written => \A k \in DOMAIN parsed.tree :
               \A m \in Nodes(parsed.tree[k]) : m.op = "try" => m.catch # <<>>
=============================================================================
