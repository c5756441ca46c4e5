-------------------------------- MODULE Emit --------------------------------
(***************************************************************************)
(* How the code generator turns an integer function into instructions: the *)
(* operand choices of expressions, the jumps of if, while, for and match   *)
(* and the tables their targets are patched from, the two-fold unrolling   *)
(* of while loops, the pinning of locals to r12..r15, and the peepholes    *)
(* that look at the last instruction emitted.                              *)
(*                                                                         *)
(* A tree node is a record with a field op; a block is a sequence of       *)
(* statements.  An instruction is <<name, operand, operand>>, a jump       *)
(* <<"jump", condition, target>>; code positions are indices in the        *)
(* sequence of instructions.  A zero-displacement placeholder is a jump to *)
(* the next instruction.  The tree is the optimizer's output.              *)
(***************************************************************************)
EXTENDS Integers, Sequences, FiniteSets, SequencesExt, Operands

CONSTANTS MaxLocals,     \* locals of a function: CODEGEN_MAX_VARS
          MaxPatches,    \* recorded breaks, and continues, of one loop: 16
          MaxLoops       \* nested loops that get a context: 32

Comparisons == {"==", "!=", "<", ">", "<=", ">="}
Commutative == {"+", "*", "==", "!="}
Inverse_(cc) == CASE cc = "==" -> "!=" [] cc = "!=" -> "==" [] cc = "<" -> ">="
                  [] cc = ">=" -> "<" [] cc = ">" -> "<=" [] cc = "<=" -> ">"

\* The generator's state: the code, the locals declared so far (the latest
\* last), the registers still free for pinning, the contexts of the open
\* loops, where a reload of a pinned local was left out, and whether there was
\* an error, after which nothing more is emitted.
NoLocals(pool) == [code |-> <<>>, locals |-> <<>>, pool |-> pool,
                   hot |-> pool # <<>>, loops |-> <<>>, skips |-> {},
                   error |-> FALSE]

Fail(cg)        == [cg EXCEPT !.error = TRUE]
Here(cg)        == Len(cg.code) + 1
Out(cg, instrs) == [cg EXCEPT !.code = @ \o instrs]
Jump(cg, cc)    == Out(cg, <<<<"jump", cc, Here(cg) + 1>>>>)
JumpTo(cg, pos) == Out(cg, <<<<"jump", "always", pos>>>>)
EndsIn(cg, i)   == cg.code # <<>> /\ Last(cg.code) = i

\* The jumps at the positions ps land at pos, or at the cursor.
PatchTo(cg, ps, pos) ==
  [cg EXCEPT !.code = [k \in DOMAIN @ |->
     IF k \in ps THEN <<"jump", @[k][2], pos>> ELSE @[k]]]
Patch(cg, ps) == PatchTo(cg, ps, Here(cg))

\* The latest declaration of the name.
FindLocal(cg, name) == SelectLastInSeq(cg.locals, LAMBDA v : v.name = name)
Local(cg, name)     == cg.locals[FindLocal(cg, name)]
Declared(cg, name)  == FindLocal(cg, name) # 0
AddLocal(cg, name)  ==
  IF Len(cg.locals) >= MaxLocals THEN Fail(cg)
  ELSE [cg EXCEPT !.locals = Append(@, [name |-> name, reg |-> "none"])]
Pinned(cg, e) ==
  e.op = "var" /\ Declared(cg, e.name) /\ Local(cg, e.name).reg # "none"
Place(cg, k)        == IF cg.locals[k].reg # "none" THEN Reg(cg.locals[k].reg) ELSE Slot(k)

\* Move src into local k, pinning it first while registers are free.
Pin(cg, k, src) ==
  LET c == IF cg.pool = <<>> THEN cg
           ELSE [cg EXCEPT !.locals[k].reg = Head(cg.pool), !.pool = Tail(@)]
  IN Out(c, <<<<"mov", Place(c, k), src>>>>)

RECURSIVE EmitExpr(_, _), EmitStmt(_, _), HasFlowControl(_), HasCall(_), EmitBlock(_, _)

EmitBlock(cg, block) ==
  IF block = <<>> THEN cg ELSE EmitStmt(EmitBlock(cg, Front(block)), Last(block))
-----------------------------------------------------------------------------
\* Mutant: the reload is skipped after any store into a pinned local.
EmitIdentifier_anyStore(cg, name) ==
  LET v == Local(cg, name)
  IN IF ~Declared(cg, name) THEN Fail(cg)
     ELSE IF v.reg # "none" /\ \E r \in ToSet(HotRegs) : EndsIn(cg, <<"mov", Reg(r), RAX>>)
       THEN [cg EXCEPT !.skips = @ \cup {[at |-> Here(cg), reg |-> v.reg]}]
       ELSE Out(cg, <<<<"mov", RAX, Place(cg, FindLocal(cg, name))>>>>)

\* A pinned local is not reloaded when rax was just stored into it.
EmitIdentifier(cg, name) ==
  LET v == Local(cg, name)
  IN IF ~Declared(cg, name) THEN Fail(cg)
     ELSE IF v.reg # "none" /\ EndsIn(cg, <<"mov", Reg(v.reg), RAX>>)
       THEN [cg EXCEPT !.skips = @ \cup {[at |-> Here(cg), reg |-> v.reg]}]
       ELSE Out(cg, <<<<"mov", RAX, Place(cg, FindLocal(cg, name))>>>>)

\* rax op rcx; a division tests rcx first.
EmitApply(cg, op) ==
  IF op \in Comparisons
    THEN Out(cg, <<<<"cmp", RAX, RCX>>, <<"set", op>>>>)
    ELSE Out(cg, <<<<op, RAX, RCX>>>>)

\* rax op n.  Only some operators have an immediate form, that of a shift with
\* one byte; the division goes through rcx, and the others (^, a product by
\* n <= 0) use rcx as it is.
EmitApplyImm(cg, op, n) ==
  CASE op \in {"+", "-", "&", "|"} \/ (op = "*" /\ n > 0) -> Out(cg, <<<<op, RAX, Imm(n)>>>>)
    [] op \in {"<<", ">>"} -> Out(cg, <<<<op, RAX, Imm(n % 256)>>>>)
    [] op \in Comparisons -> Out(cg, <<<<"cmp", RAX, Imm(n)>>, <<"set", op>>>>)
    [] op \in {"/", "%"}  -> EmitApply(Out(cg, <<<<"mov", RCX, Imm(n)>>>>), op)
    [] OTHER -> EmitApply(cg, op)

\* && and ||: both operands jump to the sink, which loads the deciding value.
EmitLogical(cg, e) ==
  LET cc     == IF e.op = "&&" THEN "==" ELSE "!="
      decide == IF e.op = "&&" THEN 0 ELSE 1
      Test(c, x) == Jump(Out(EmitExpr(c, x), <<<<"cmp", RAX, Imm(0)>>>>), cc)
      left   == Test(cg, e.l)
      right  == Test(left, e.r)
      over   == Jump(Out(right, <<<<"mov", RAX, Imm(1 - decide)>>>>), "always")
      sink   == Out(Patch(over, {Len(left.code), Len(right.code)}),
                    <<<<"mov", RAX, Imm(decide)>>>>)
  IN Patch(sink, {Len(over.code)})

EmitBinary(cg, e) ==
  LET left == EmitExpr(cg, e.l)
  IN CASE e.op \in {"&&", "||"} -> EmitLogical(cg, e)
       [] e.r.op = "int" -> EmitApplyImm(left, e.op, e.r.val)
       [] e.r.op # "int" /\ e.l.op = "int" /\ e.op \in Commutative ->
            EmitApplyImm(EmitExpr(cg, e.r), e.op, e.l.val)
       [] OTHER ->
            EmitApply(
              IF Pinned(left, e.r)
                THEN Out(left, <<<<"mov", RCX, Reg(Local(left, e.r.name).reg)>>>>)
                ELSE Out(EmitExpr(Out(left, <<<<"push", RAX>>>>), e.r),
                         <<<<"mov", RCX, RAX>>, <<"pop", RAX>>>>),
              e.op)

EmitUnary(cg, e) ==
  Out(EmitExpr(cg, e.l),
      IF e.op = "neg" THEN <<<<"neg", RAX>>>> ELSE <<<<"cmp", RAX, Imm(0)>>, <<"set", "==">>>>)

\* Arguments are evaluated and pushed last to first, popped into registers.
EmitArgs(cg, args) ==
  Out(FoldRight(LAMBDA a, c : Out(EmitExpr(c, a), <<<<"push", RAX>>>>), args, cg),
      [i \in DOMAIN args |-> <<"pop", Reg(ArgRegs[i])>>])

EmitExpr(cg, e) ==
  IF cg.error THEN cg ELSE
  CASE e.op = "int"  -> Out(cg, <<<<"mov", RAX, Imm(e.val)>>>>)
    [] e.op = "var"  -> EmitIdentifier(cg, e.name)
    [] e.op = "call" -> Out(EmitArgs(cg, e.args), <<<<"call">>>>)
    [] e.op \in {"!", "neg"} -> EmitUnary(cg, e)
    [] OTHER -> EmitBinary(cg, e)
-----------------------------------------------------------------------------
\* Jump over what follows when rax is 0: a setcc just emitted is dropped and
\* its comparison used.
CondJumpSkip(cg) ==
  IF cg.code # <<>> /\ Last(cg.code)[1] = "set"
    THEN Jump([cg EXCEPT !.code = Front(@)], Inverse_(Last(cg.code)[2]))
    ELSE Jump(Out(cg, <<<<"cmp", RAX, Imm(0)>>>>), "==")

\* Mutant: the quartet is popped in the order it was pushed.
EmitLeave_sameOrder(cg) ==
  Out(cg, <<<<"leave">>>> \o
      IF cg.hot THEN [i \in 1..4 |-> <<"pop", Reg(HotRegs[i])>>] ELSE <<>>)

\* The frame is torn down; a pinning function restores the pushed quartet.
EmitLeave(cg) ==
  Out(cg, <<<<"leave">>>> \o
      IF cg.hot THEN [i \in 1..4 |-> <<"pop", Reg(HotRegs[5 - i])>>] ELSE <<>>)

\* Mutant: a tail call enters the function on top of the frame.
EmitReturn_keepFrame(cg, e) ==
  IF e.op = "call" THEN JumpTo(EmitArgs(cg, e.args), 1)
  ELSE Out(EmitLeave(EmitExpr(cg, e)), <<<<"ret">>>>)

\* return e; a self call there becomes a jump to the entry.
EmitReturn(cg, e) ==
  IF e.op = "call" THEN JumpTo(EmitLeave(EmitArgs(cg, e.args)), 1)
  ELSE Out(EmitLeave(EmitExpr(cg, e)), <<<<"ret">>>>)

\* The local exists, unpinned, while its initializer is evaluated.
EmitVarDecl(cg, s) ==
  LET c == AddLocal(cg, s.name)
  IN IF c.error THEN c ELSE Pin(EmitExpr(c, s.e), Len(c.locals), RAX)

\* v = v + e and v = v - e for a literal or a local of v's kind work on v in
\* place; rax then mirrors a pinned v.
InPlace(cg, s) ==
  /\ s.e.op \in {"+", "-"} /\ s.e.l.op = "var" /\ s.e.l.name = s.name
  /\ \/ s.e.r.op = "int"
     \/ /\ s.e.r.op = "var" /\ Declared(cg, s.e.r.name)
        /\ (Pinned(cg, s.e.r) <=> Pinned(cg, s.e.l))

EmitAssignment(cg, s) ==
  LET v == Place(cg, FindLocal(cg, s.name))
      right == IF s.e.r.op = "int" THEN Imm(s.e.r.val) ELSE Place(cg, FindLocal(cg, s.e.r.name))
  IN IF ~Declared(cg, s.name) THEN Fail(cg) ELSE
     CASE ~InPlace(cg, s) -> Out(EmitExpr(cg, s.e), <<<<"mov", v, RAX>>>>)
       [] InPlace(cg, s) /\ v[1] = "reg" -> Out(cg, <<<<s.e.op, v, right>>, <<"mov", RAX, v>>>>)
       [] InPlace(cg, s) /\ right[1] = "imm" -> Out(cg, <<<<s.e.op, v, right>>>>)
       [] OTHER -> Out(cg, <<<<"mov", RCX, right>>, <<s.e.op, v, RCX>>>>)

EmitIf(cg, s) ==
  LET test == CondJumpSkip(EmitExpr(cg, s.c))
      then == EmitBlock(test, s.then)
      over == Jump(then, "always")
  IN IF s.else = <<>> THEN Patch(then, {Len(test.code)})
     ELSE Patch(EmitBlock(Patch(over, {Len(test.code)}), s.else), {Len(over.code)})
-----------------------------------------------------------------------------
\* break, continue or return in the block or in an if below it.
HasFlowControl(block) ==
  \E k \in DOMAIN block :
    \/ block[k].op \in {"break", "continue", "return"}
    \/ block[k].op = "if" /\ (HasFlowControl(block[k].then) \/ HasFlowControl(block[k].else))

OpenLoop(cg, isFor) ==
  IF Len(cg.loops) >= MaxLoops THEN cg
  ELSE [cg EXCEPT !.loops = Append(@, [start |-> Here(cg), isFor |-> isFor,
                                       ends |-> {}, conts |-> {}])]

\* The end of a loop opened from cg: exits and recorded breaks land here.
CloseLoop(cg, at_end, exits) ==
  IF Len(cg.loops) >= MaxLoops THEN Patch(at_end, exits)
  ELSE Patch([at_end EXCEPT !.loops = Front(@)], exits \cup Last(at_end.loops).ends)

\* Mutant: the exit in the middle of the unrolled body is not patched.
EmitWhile_oneExit(cg, s) ==
  LET test  == CondJumpSkip(EmitExpr(OpenLoop(cg, FALSE), s.c))
      body  == EmitBlock(test, s.body)
      again == CondJumpSkip(EmitExpr(body, s.c))
      twice == EmitBlock(again, s.body)
  IN IF HasFlowControl(s.body)
       THEN CloseLoop(cg, JumpTo(body, Here(cg)), {Len(test.code)})
       ELSE CloseLoop(cg, JumpTo(twice, Here(cg)), {Len(test.code)})

\* A body without flow control is emitted twice, with the condition between.
EmitWhile(cg, s) ==
  LET test  == CondJumpSkip(EmitExpr(OpenLoop(cg, FALSE), s.c))
      body  == EmitBlock(test, s.body)
      again == CondJumpSkip(EmitExpr(body, s.c))
      twice == EmitBlock(again, s.body)
  IN IF HasFlowControl(s.body)
       THEN CloseLoop(cg, JumpTo(body, Here(cg)), {Len(test.code)})
       ELSE CloseLoop(cg, JumpTo(twice, Here(cg)), {Len(test.code), Len(again.code)})

\* Mutant: continue goes to the condition of a for loop, past its update.
EmitFor_contToTest(cg, s) ==
  LET init == EmitStmt(OpenLoop(cg, TRUE), s.init)
      test == CondJumpSkip(EmitExpr(init, s.c))
      body == EmitBlock(test, s.body)
      cont == PatchTo(body, Last(body.loops).conts, Here(init))
      step == EmitAssignment(cont, s.step)
  IN CloseLoop(cg, JumpTo(step, Here(init)), {Len(test.code)})

\* Recorded continues of a for loop land at its update.
EmitFor(cg, s) ==
  LET init == EmitStmt(OpenLoop(cg, TRUE), s.init)
      test == CondJumpSkip(EmitExpr(init, s.c))
      body == EmitBlock(test, s.body)
      cont == IF Len(cg.loops) >= MaxLoops THEN body ELSE Patch(body, Last(body.loops).conts)
      step == EmitAssignment(cont, s.step)
  IN CloseLoop(cg, JumpTo(step, Here(init)), {Len(test.code)})

\* A jump out of the innermost loop with a context is recorded to be patched,
\* while its table has room.
Record(cg, table) ==
  LET n == Len(cg.loops)
      c == Jump(cg, "always")
  IN IF n > 0 /\ Cardinality(cg.loops[n][table]) < MaxPatches
       THEN [c EXCEPT !.loops[n][table] = @ \cup {Len(c.code)}]
       ELSE c

EmitBreak(cg) == IF cg.loops = <<>> THEN cg ELSE Record(cg, "ends")

EmitContinue(cg) ==
  CASE cg.loops = <<>> -> cg
    [] cg.loops # <<>> /\ Last(cg.loops).isFor -> Record(cg, "conts")
    [] OTHER -> JumpTo(cg, Last(cg.loops).start)

\* The value is kept in a stack slot; each arm compares it with its pattern.
EmitMatch(cg, s) ==
  LET kept == Out(EmitExpr(cg, s.e), <<<<"mov", Slot(Len(cg.locals) + 1), RAX>>>>)
      k    == Len(cg.locals) + 1
      Arm(c, arm) ==
        LET load == Out(c.cg, <<<<"mov", RAX, Slot(k)>>, <<"mov", RCX, RAX>>>>)
            test == Jump(Out(EmitExpr(load, arm.pat), <<<<"cmp", RCX, RAX>>>>), "!=")
            done == Jump(EmitBlock(test, arm.body), "always")
        IN [cg |-> Patch(done, {Len(test.code)}), ends |-> c.ends \cup {Len(done.code)}]
      arms == FoldLeft(Arm, [cg |-> AddLocal(kept, "__match_val"), ends |-> {}], s.arms)
  IN Patch(arms.cg, arms.ends)

EmitStmt(cg, s) ==
  IF cg.error THEN cg ELSE
  CASE s.op = "return"   -> EmitReturn(cg, s.e)
    [] s.op = "let"      -> EmitVarDecl(cg, s)
    [] s.op = "assign"   -> EmitAssignment(cg, s)
    [] s.op = "if"       -> EmitIf(cg, s)
    [] s.op = "while"    -> EmitWhile(cg, s)
    [] s.op = "for"      -> EmitFor(cg, s)
    [] s.op = "break"    -> EmitBreak(cg)
    [] s.op = "continue" -> EmitContinue(cg)
    [] s.op = "match"    -> EmitMatch(cg, s)
-----------------------------------------------------------------------------
\* A call below the node.  Calls in this fragment are calls of the function
\* itself, which keep it from pinning its locals.
HasCall(n) ==
  \/ n.op = "call"
  \/ \E f \in DOMAIN n \cap {"e", "l", "r", "c", "init", "step", "pat"} : HasCall(n[f])
  \/ \E f \in DOMAIN n \cap {"then", "else", "body", "args", "arms"} :
       \E k \in DOMAIN n[f] : HasCall(n[f][k])

\* Mutant: a body that ends in an if is taken to return.
Epilogue_notAfterIf(cg, body) ==
  IF body # <<>> /\ Last(body).op \in {"return", "if"} THEN cg
  ELSE Out(cg, <<<<"mov", RAX, Imm(0)>>, <<"leave">>, <<"ret">>>>)

\* A body that does not end in return gets an epilogue, which returns 0.
Epilogue(cg, body) ==
  IF body # <<>> /\ Last(body).op = "return" THEN cg
  ELSE Out(cg, <<<<"mov", RAX, Imm(0)>>, <<"leave">>, <<"ret">>>>)

\* Prologue, parameters, body; the frame size is patched in after the body.
Compile(f) ==
  LET hot    == ~HasCall([op |-> "fn", body |-> f.body])
      saves  == IF hot THEN [i \in 1..4 |-> <<"push", Reg(HotRegs[i])>>] ELSE <<>>
      enter  == Out(NoLocals(IF hot THEN HotRegs ELSE <<>>), saves \o <<<<"enter", 0>>>>)
      Param(c, i) == Pin(AddLocal(c, f.params[i]), i, Reg(ArgRegs[i]))
      params == FoldLeft(Param, enter, [i \in DOMAIN f.params |-> i])
      body   == EmitBlock(params, f.body)
      frame  == 2 * ((Len(body.locals) + 1) \div 2)
  IN Epilogue([body EXCEPT !.code[Len(enter.code)] = <<"enter", frame>>], f.body)
=============================================================================
