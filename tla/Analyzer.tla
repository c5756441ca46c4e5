------------------------------ MODULE Analyzer ------------------------------
(***************************************************************************)
(* The semantic analyzer of analyzer.c with its symbol table and types.    *)
(* Its state is a record; analysing an expression gives a type and a       *)
(* state, analysing a statement a state.  Scopes are sequences of symbols, *)
(* the innermost scope last.  A diagnostic keeps its level (0 and 1 block  *)
(* the compilation), its code and the name it is about; of the L006s, an   *)
(* undefined and a duplicate name are told apart.  The trees are Parser's. *)
(***************************************************************************)
EXTENDS Parser

CONSTANTS MaxDiagnostics   \* ANALYZER_MAX_ERRORS, warnings included

-----------------------------------------------------------------------------
(* Types *)

T(kind)        == [kind |-> kind, of |-> <<>>]
OptionOf(t)    == [kind |-> "Option", of |-> <<t>>]
ArrayOf(t)     == [kind |-> "arr", of |-> <<t>>]
FnOf(ps, ret)  == [kind |-> "fn", of |-> Append(ps, ret)]
Unknown        == T("unknown")
ParamsOf(t)    == Front(t.of)
ReturnOf(t)    == Last(t.of)

Signed   == {"i8", "i16", "i32", "i64"}
Unsigned == {"u8", "u16", "u32", "u64"}
Floats   == {"f32", "f64"}
Integral(t) == t.kind \in Signed \cup Unsigned
Numeric(t)  == Integral(t) \/ t.kind \in Floats

Width(t) ==
  CASE t.kind \in {"i8", "u8"} -> 8 [] t.kind \in {"i16", "u16"} -> 16
    [] t.kind \in {"i32", "u32", "f32"} -> 32 [] t.kind \in {"i64", "u64", "f64"} -> 64
    [] OTHER -> 0

types_loses_data(target, source) ==
  \/ source.kind \in Floats /\ Integral(target)
  \/ source.kind = "f64" /\ target.kind = "f32"
  \/ Integral(source) /\ target.kind \in Floats /\ Width(source) > Width(target)
  \/ /\ Integral(source) /\ Integral(target)
     /\ \/ Width(source) > Width(target)
        \/ Width(source) = Width(target) /\ (source.kind \in Signed) # (target.kind \in Signed)

types_can_assign(target, source) ==
  \/ "unknown" \in {target.kind, source.kind} \/ target = source
  \/ Numeric(target) /\ Numeric(source) /\ ~types_loses_data(target, source)
  \/ source.kind = "bool" /\ Integral(target)

types_compatible(a, b) ==
  \/ "unknown" \in {a.kind, b.kind} \/ a = b
  \/ Numeric(a) /\ Numeric(b)

-----------------------------------------------------------------------------
(* Diagnostics and symbols *)

\* scopes, errs; the return type of the function being analysed, whether there
\* is one, whether a return was passed; the parser's registries.
AnalyzerInit(globals, structs, enums) ==
  [scopes |-> <<globals>>, errs |-> <<>>, ret |-> Unknown, inFn |-> FALSE,
   after |-> FALSE, structs |-> structs, enums |-> enums]

\* emit_error
Report(a, level, code, name) ==
  IF Len(a.errs) >= MaxDiagnostics THEN a
  ELSE [a EXCEPT !.errs = Append(@, [level |-> level, code |-> code, about |-> name])]

ReportIf(cond, a, level, code, name) == IF cond THEN Report(a, level, code, name) ELSE a

Symbol(name, type, isFn) == [name |-> name, type |-> type, isFn |-> isFn, used |-> FALSE]

In(scope, name) == \E k \in DOMAIN scope : scope[k].name = name

\* scope_define: the first definition of a name stays.
Define(a, sym) ==
  IF In(Last(a.scopes), sym.name) THEN a
  ELSE [a EXCEPT !.scopes[Len(a.scopes)] = Append(@, sym)]

\* Mutant: only the current scope is searched for the name being declared.
Visible_currentOnly(a, name) == In(Last(a.scopes), name)

\* symtab_lookup: the scope a name is found in, from the innermost outwards.
ScopeOf(a, name)  == SelectLastInSeq(a.scopes, LAMBDA s : In(s, name))
Visible(a, name)  == ScopeOf(a, name) # 0
IndexOf(scope, name) == SelectInSeq(scope, LAMBDA s : s.name = name)
Lookup(a, name)   == LET s == a.scopes[ScopeOf(a, name)] IN s[IndexOf(s, name)]
MarkUsed(a, name) ==
  LET d == ScopeOf(a, name)
  IN [a EXCEPT !.scopes[d][IndexOf(a.scopes[d], name)].used = TRUE]

PushScope(a) == [a EXCEPT !.scopes = Append(@, <<>>)]

\* Names that begin with an underscore are never reported as unused.
Quiet == {ForEachIndex, Name("_")}

UnusedIn(a, scope, functionsToo) ==
  LET idle(s) == ~s.used /\ (functionsToo \/ ~s.isFn) /\ s.name \notin Quiet
      warn(x, s) == ReportIf(idle(s), x, 2, "W001", s.name)
  IN FoldLeft(warn, a, scope)

PopScope(a) == [a EXCEPT !.scopes = Front(@)]
PopReporting(a, functionsToo) == UnusedIn(PopScope(a), Last(a.scopes), functionsToo)

-----------------------------------------------------------------------------
(* The builtins' return types *)

BuiltinF64 ==
  {"math_sqrt", "math_exp", "math_log", "math_expm1", "math_log1p", "math_sin", "math_cos",
   "math_abs", "arr_f32_get", "arr_f32_dot", "arr_f32_dot_range", "arr_f32_sum", "arr_f64_get",
   "arr_f64_sum", "arr_f64_sum_kahan", "arr_f64_sum_range", "arr_f64_dot", "arr_f64_dot_range",
   "atomic_add_f64", "int_to_float", "read_float", "rdtsc"}

BuiltinVoid ==
  {"print_char", "buf_free", "thread_exit", "print_dec", "print_f64", "print_float", "print_int",
   "print_str", "str_println"}

BuiltinI32 ==
  {"arr_dot", "arr_fill", "arr_get", "arr_len", "arr_new", "arr_scale", "arr_set", "arr_sum",
   "buf_stack", "arr_f64_new", "arr_f64_set", "arr_f32_new", "arr_f32_set", "arr_f32_relu",
   "arr_f32_scale", "arr_f32_fill", "arr_f32_add_scaled", "arr_f32_matvec", "arr_f32_matvec_T",
   "arr_f32_outer_accum", "arr_f32_copy_at", "arr_f32_copy_slice", "arr_f32_adam_apply",
   "arr_f32_conv2d_3x3_p1", "arr_f32_conv2d_3x3_p1_multi", "arr_f32_mul", "arr_f32_exp",
   "arr_f32_silu", "arr_f32_softmax", "arr_i8_new", "arr_i8_get", "arr_i8_set",
   "arr_i8_matvec_f32", "arr_i8_matvec_f32_perrow", "arr_i4_matvec_f32_perrow",
   "arr_i8_conv2d_3x3_p1", "arr_i8_conv2d_3x3_p1_multi", "arr_f32_transpose",
   "arr_f32_layernorm", "arr_f32_rmsnorm", "arr_f32_rope_apply_pairs", "embed_file",
   "embed_file_bytes", "arr_f64_scale", "arr_f64_fill", "arr_f64_copy_at", "arr_f64_copy_slice",
   "arr_f64_matvec", "arr_f64_add_scaled", "arr_f64_relu", "arr_f64_adam_apply",
   "arr_f64_conv2d_3x3_p1", "arr_f64_conv2d_3x3_p1_multi", "arr_f64_log", "arr_f64_log1p",
   "arr_f64_exp", "arr_f64_expm1", "arr_f64_sigmoid", "arr_f64_tanh", "arr_f64_sub",
   "arr_f64_mul", "arr_f64_matvec_T", "arr_f64_outer_accum", "arr_f64_softmax", "thread_spawn",
   "thread_wait", "atomic_add_i64", "futex_wait", "futex_wake", "dec", "epoll_add",
   "epoll_create", "epoll_del", "epoll_wait", "file_close", "file_open", "file_read",
   "file_write", "float_to_int", "byte_at", "ip4", "mem_free", "read_int", "socket_accept",
   "socket_bind", "socket_close", "socket_connect", "socket_create", "socket_listen",
   "socket_opt", "socket_recv", "socket_send", "str_char_at", "str_concat", "str_eq", "str_len",
   "str_new"}

Builtins == {Name(w) : w \in BuiltinI32 \cup BuiltinF64 \cup BuiltinVoid}

builtin_return_type(name) ==
  CASE name[1] \in BuiltinI32 -> T("i32") [] name[1] \in BuiltinF64 -> T("f64")
    [] name[1] \in BuiltinVoid -> T("void")

-----------------------------------------------------------------------------
(* Expressions *)

\* The result of analysing an expression.
Has(t, a) == [t |-> t, a |-> a]

RECURSIVE TypeOf(_, _), Visit(_, _, _)

AnalyzeExpr(a, e) == Visit("expression", a, e)
AnalyzeStmt(a, n) == Visit("statement", a, n).a

\* resolve_type_annotation: a struct's or enum's name is an i32, what is inside
\* arr<...> and map<...> is dropped.
TypeOf(a, ann) ==
  CASE ann.name = Name("Option") /\ ann.args # <<>> ->
         LET inner == TypeOf(a, ann.args[1]) IN Has(OptionOf(inner.t), inner.a)
    [] Len(ann.name) = 1 /\ ann.name[1] \in
         Signed \cup Unsigned \cup Floats \cup {"str", "bool", "void", "arr", "map"} ->
         Has(T(ann.name[1]), a)
    [] Known(a.structs, ann.name) \/ Known(a.enums, ann.name) -> Has(T("i32"), a)
    [] OTHER -> Has(Unknown, Report(a, 1, "L006", ann.name))

AnalyzeExprs(a, es) == FoldLeft(LAMBDA x, e : AnalyzeExpr(x, e).a, a, es)

IsZero(e) == e.op \in {"int", "float"} /\ e.val = 0

\* A constant zero divisor blocks; a variable one is a warning.
CheckDivisor(a, e) ==
  CASE e.op \notin {"/", "%"} -> a
    [] e.op \in {"/", "%"} /\ IsZero(e.r) -> Report(a, 0, "S001", NoName)
    [] e.op \in {"/", "%"} /\ e.r.op = "var" -> Report(a, 2, "W004", e.r.name)
    [] OTHER -> a

\* Mutant: the divisor's check is made before the operands are looked at, and
\* only for "/".
AnalyzeBinary_divOnly(a, e) ==
  LET l == AnalyzeExpr(a, e.l)
      r == AnalyzeExpr(l.a, e.r)
      b == IF e.op = "/" THEN CheckDivisor(r.a, e) ELSE r.a
  IN CASE e.op \in {"==", "!=", "<", ">", "<=", ">="} ->
            Has(T("bool"), ReportIf(~types_compatible(l.t, r.t), b, 1, "L006", NoName))
       [] e.op \in {"&&", "||"} ->
            Has(T("bool"), ReportIf(r.t.kind # "bool",
                  ReportIf(l.t.kind # "bool", b, 1, "L006", NoName), 1, "L006", NoName))
       [] e.op = "+" /\ l.t.kind = "str" /\ r.t.kind = "str" -> Has(T("str"), b)
       [] e.op \in {"+", "-", "*", "/", "%"} ->
            IF ~Numeric(l.t) \/ ~Numeric(r.t) THEN Has(Unknown, Report(b, 1, "L006", NoName))
            ELSE Has(IF Width(l.t) >= Width(r.t) THEN l.t ELSE r.t, b)
       [] OTHER -> Has(Unknown, b)

\* analyze_binary_op: "=" and the bit operators are not checked.
AnalyzeBinary(a, e) ==
  LET l == AnalyzeExpr(a, e.l)
      r == AnalyzeExpr(l.a, e.r)
      b == CheckDivisor(r.a, e)
  IN CASE e.op \in {"==", "!=", "<", ">", "<=", ">="} ->
            Has(T("bool"), ReportIf(~types_compatible(l.t, r.t), b, 1, "L006", NoName))
       [] e.op \in {"&&", "||"} ->
            Has(T("bool"), ReportIf(r.t.kind # "bool",
                  ReportIf(l.t.kind # "bool", b, 1, "L006", NoName), 1, "L006", NoName))
       [] e.op = "+" /\ l.t.kind = "str" /\ r.t.kind = "str" -> Has(T("str"), b)
       [] e.op \in {"+", "-", "*", "/", "%"} ->
            IF ~Numeric(l.t) \/ ~Numeric(r.t) THEN Has(Unknown, Report(b, 1, "L006", NoName))
            ELSE Has(IF Width(l.t) >= Width(r.t) THEN l.t ELSE r.t, b)
       [] OTHER -> Has(Unknown, b)

AnalyzeUnary(a, e) ==
  LET x == AnalyzeExpr(a, e.l)
  IN IF e.op = "!" THEN Has(T("bool"), ReportIf(x.t.kind # "bool", x.a, 1, "L006", NoName))
     ELSE Has(x.t, ReportIf(~Numeric(x.t), x.a, 1, "L006", NoName))

\* What is assigned where a type is wanted: level 0 when data is lost.
CheckAssign(a, target, source, name) ==
  CASE types_can_assign(target, source) -> a
    [] ~types_can_assign(target, source) /\ types_loses_data(target, source) ->
         Report(a, 0, "S006", name)
    [] OTHER -> Report(a, 1, "L006", name)

\* The arguments of a call of a function, one after the other.
CheckArgs(a, params, args, name) ==
  LET next(x, i) ==
        LET g == AnalyzeExpr(x, args[i])
        IN IF i <= Len(params) THEN CheckAssign(g.a, params[i], g.t, name) ELSE g.a
  IN FoldLeft(next, a, [i \in DOMAIN args |-> i])

\* analyze_call: builtins first, whatever the symbol table says.
AnalyzeCall(a, e) ==
  LET name == e.fn.name
      b    == MarkUsed(a, name)
      type == Lookup(a, name).type
  IN CASE e.fn.op # "var" \/ e.fn.name = NoName ->
            Has(Unknown, AnalyzeExprs(a, e.args))
       [] name \in Builtins -> Has(builtin_return_type(name), AnalyzeExprs(a, e.args))
       [] ~Visible(a, name) ->
            Has(Unknown, AnalyzeExprs(Report(a, 1, "undefined", name), e.args))
       [] type.kind = "fn" ->
            Has(ReturnOf(type),
                CheckArgs(ReportIf(Len(e.args) # Len(ParamsOf(type)), b, 1, "L006", name),
                          ParamsOf(type), e.args, name))
       [] OTHER -> Has(Unknown, Report(b, 1, "L006", name))

\* A struct's literal: unknown and missing fields, the values.
AnalyzeStruct(a, e, declared) ==
  LET given  == {e.fields[k].name : k \in DOMAIN e.fields}
      field(x, f) == AnalyzeExpr(ReportIf(f.name \notin ToSet(declared), x, 1, "L006", f.name), f.e).a
      missing(x, n) == ReportIf(n \notin given, x, 1, "L006", n)
  IN FoldLeft(missing, FoldLeft(field, a, e.fields), declared)

\* What analyze_expr walks through when it has no case of its own.
Children(n) ==
  CASE n.op \in {"expr", "let", "const", "return", "some"} -> <<n.e>>
    [] n.op = "if"    -> <<n.c>> \o n.then \o n.else
    [] n.op = "while" -> <<n.c>> \o n.body
    [] n.op = "for"   -> <<n.init, n.c, n.step>> \o n.body
    [] n.op = "match" -> <<n.e>> \o n.arms
    [] n.op = "arm"   -> <<n.pat>> \o n.body
    [] n.op = "try"   -> n.body \o n.catch
    [] n.op = "raise" -> n.args
    [] n.op \in {"block", "fn"} -> n.body
    [] OTHER -> <<>>

ExprRule(a, e) ==
  CASE e.op = "int"   -> Has(T("i32"), a)
    [] e.op = "float" -> Has(T("f64"), a)
    [] e.op = "str"   -> Has(T("str"), a)
    [] e.op = "bool"  -> Has(T("bool"), a)
    [] e.op = "none"  -> Has(OptionOf(Unknown), a)
    [] e.op = "some"  -> LET x == AnalyzeExpr(a, e.e) IN Has(OptionOf(x.t), x.a)
    [] e.op = "array" -> Has(ArrayOf(IF e.es = <<>> THEN Unknown ELSE AnalyzeExpr(a, e.es[1]).t),
                             AnalyzeExprs(a, e.es))
    [] e.op = "var"   -> IF e.name = NoName THEN Has(Unknown, a)
                         ELSE IF ~Visible(a, e.name)
                           THEN Has(Unknown, Report(a, 1, "undefined", e.name))
                           ELSE Has(Lookup(a, e.name).type, MarkUsed(a, e.name))
    [] e.op \in {"neg", "!"} -> AnalyzeUnary(a, e)
    [] e.op = "call"  -> AnalyzeCall(a, e)
    [] e.op = "member"  -> Has(Unknown, AnalyzeExpr(a, e.e).a)
    [] e.op = "field"   -> Has(T("i32"), AnalyzeExpr(a, e.e).a)
    [] e.op = "struct"  -> Has(T("i32"), AnalyzeStruct(a, e, Entry(a.structs, e.name).items))
    [] e.op = "variant" -> Has(T("i32"), a)
    [] "l" \in DOMAIN e -> AnalyzeBinary(a, e)
    [] OTHER -> Has(Unknown, AnalyzeExprs(a, Children(e)))

-----------------------------------------------------------------------------
(* Statements *)

\* analyze_block
AnalyzeBlock(a, body, newScope) ==
  LET inside == [(IF newScope THEN PushScope(a) ELSE a) EXCEPT !.after = FALSE]
      done   == FoldLeft(AnalyzeStmt, inside, body)
      out    == IF newScope THEN PopReporting(done, FALSE) ELSE done
  IN [out EXCEPT !.after = @ \/ a.after]

\* Mutant: a name declared in an outer scope is no longer reported.
AnalyzeVarDecl_noShadow(a, n) ==
  LET t == TypeOf(a, n.type)
      e == AnalyzeExpr(t.a, n.e)
      checked == CASE types_loses_data(t.t, e.t) -> Report(e.a, 0, "S006", n.name)
                   [] ~types_loses_data(t.t, e.t) -> CheckAssign(e.a, t.t, e.t, n.name)
  IN IF In(Last(a.scopes), n.name) THEN Report(a, 1, "duplicate", n.name)
     ELSE IF n.type = NoType THEN Define(a, Symbol(n.name, Unknown, FALSE))
     ELSE IF n.e = Nothing THEN Define(t.a, Symbol(n.name, t.t, FALSE))
     ELSE Define(checked, Symbol(n.name, t.t, FALSE))

\* analyze_var_decl: a name twice in a scope is an error and the second is
\* dropped; a name of an outer scope is a warning.  Without a type, the
\* initializer is taken for one and not looked at.
AnalyzeVarDecl(a, n) ==
  LET b == ReportIf(Visible(a, n.name), a, 2, "W003", n.name)
      t == TypeOf(b, n.type)
      e == AnalyzeExpr(t.a, n.e)
      checked == CASE types_loses_data(t.t, e.t) -> Report(e.a, 0, "S006", n.name)
                   [] ~types_loses_data(t.t, e.t) -> CheckAssign(e.a, t.t, e.t, n.name)
  IN IF In(Last(a.scopes), n.name) THEN Report(a, 1, "duplicate", n.name)
     ELSE IF n.type = NoType THEN Define(b, Symbol(n.name, Unknown, FALSE))
     ELSE IF n.e = Nothing THEN Define(t.a, Symbol(n.name, t.t, FALSE))
     ELSE Define(checked, Symbol(n.name, t.t, FALSE))

\* The types of the parameters, one after the other.
ParamTypes(a, params) ==
  FoldLeft(LAMBDA x, p : LET t == TypeOf(x.a, p.type) IN Has(Append(x.t, t.t), t.a),
           Has(<<>>, a), params)

\* analyze_fn_decl: known to its own body and to what follows, not before.
AnalyzeFn(a, n) ==
  LET ret  == IF n.typed THEN TypeOf(a, n.ret) ELSE Has(T("void"), a)
      ps   == ParamTypes(ret.a, n.params)
      b    == Define(ps.a, Symbol(n.name, FnOf(ps.t, ret.t), TRUE))
      open == PushScope([b EXCEPT !.ret = ret.t, !.inFn = TRUE, !.after = FALSE])
      with == FoldLeft(LAMBDA x, i : Define(x, Symbol(n.params[i].name, ps.t[i], FALSE)),
                       open, [i \in DOMAIN n.params |-> i])
      done == PopReporting(AnalyzeBlock(with, n.body, FALSE), TRUE)
  IN IF In(Last(a.scopes), n.name) THEN Report(ps.a, 1, "duplicate", n.name)
     ELSE [done EXCEPT !.ret = a.ret, !.inFn = a.inFn, !.after = a.after]

AnalyzeReturn(a, n) ==
  LET e == IF n.e = Nothing THEN Has(T("void"), a) ELSE AnalyzeExpr(a, n.e)
  IN IF ~a.inFn THEN Report(a, 1, "L006", NoName)
     ELSE [CheckAssign(e.a, a.ret, e.t, NoName) EXCEPT !.after = TRUE]

\* if and while: the condition is to be a bool.
CheckCondition(a, c) ==
  LET e == AnalyzeExpr(a, c)
  IN ReportIf(e.t.kind \notin {"bool", "unknown"}, e.a, 1, "L006", NoName)

AnalyzeIf(a, n) ==
  LET c == ReportIf(n.c.op = "bool", CheckCondition(a, n.c), 2, "W004", NoName)
      t == AnalyzeBlock([c EXCEPT !.after = FALSE], n.then, TRUE)
      b == [t EXCEPT !.after = FALSE]
      e == IF n.chain THEN AnalyzeStmt(b, n.else[1])
           ELSE IF n.else = <<>> THEN b ELSE AnalyzeBlock(b, n.else, TRUE)
  IN [e EXCEPT !.after = a.after]

\* An Option is matched with Some and None; the arms are looked at as if they
\* were expressions, so what they declare is not declared.
AnalyzeMatch(a, n) ==
  LET e == AnalyzeExpr(a, n.e)
      has(op) == \E k \in DOMAIN n.arms : n.arms[k].pat.op = op
  IN AnalyzeExprs(
       ReportIf(e.t.kind = "Option" /\ ~(has("some") /\ has("none")), e.a, 0, "S002", NoName),
       n.arms)

\* Where the catch block is expected the tree has the error's type: only the
\* try block is looked at.
AnalyzeTry(a, n) == AnalyzeBlock(a, n.body, TRUE)

\* The body's declarations are in the loop's scope; none of it is reported as
\* unused.
AnalyzeFor(a, n) ==
  PopScope(AnalyzeBlock(FoldLeft(AnalyzeStmt, PushScope(a), <<n.init, n.c, n.step>>), n.body, FALSE))

AnalyzeExprStmt(a, n) ==
  LET e == AnalyzeExpr(a, n.e)
  IN IF n.e = Nothing THEN a
     ELSE ReportIf(n.e.op = "call" /\ e.t.kind = "Option", e.a, 0, "S005", NoName)

\* analyze_stmt: the first statement after a return is reported.
StmtRule(a0, n) ==
  LET a == [ReportIf(a0.after, a0, 2, "W002", NoName) EXCEPT !.after = FALSE]
  IN CASE n.op \in {"let", "const"} -> AnalyzeVarDecl(a, n)
       [] n.op = "fn"     -> AnalyzeFn(a, n)
       [] n.op = "return" -> AnalyzeReturn(a, n)
       [] n.op = "if"     -> AnalyzeIf(a, n)
       [] n.op = "match"  -> AnalyzeMatch(a, n)
       [] n.op = "try"    -> AnalyzeTry(a, n)
       [] n.op = "for"    -> AnalyzeFor(a, n)
       [] n.op = "while"  -> AnalyzeBlock(CheckCondition(a, n.c), n.body, TRUE)
       [] n.op = "block"  -> AnalyzeBlock(a, n.body, TRUE)
       [] n.op = "expr"   -> AnalyzeExprStmt(a, n)
       [] n.op = "raise"  -> AnalyzeExprs(a, n.args)
       [] n.op \in {"structdecl", "enumdecl", "break", "continue"} -> a
       [] OTHER           -> AnalyzeExpr(a, n).a

Visit(what, a, n) ==
  CASE what = "expression" -> ExprRule(a, n)
    [] what = "statement"  -> Has(Unknown, StmtRule(a, n))

\* analyzer_analyze
Analyze(program, globals, structs, enums) ==
  LET a == FoldLeft(AnalyzeStmt, AnalyzerInit(globals, structs, enums), program)
  IN UnusedIn(a, a.scopes[1], FALSE)
=============================================================================
