--------------------------------- MODULE Cpu ---------------------------------
(***************************************************************************)
(* The emitted code at run time: a caller calls a compiled function, and   *)
(* each step executes one instruction.  The stack is a sequence of words,  *)
(* rbp an index into it, local k of a frame the word rbp + k.  Registers   *)
(* and fresh stack words hold arbitrary values at the start (Junk).        *)
(*                                                                         *)
(* What the arithmetic computes is a parameter.  A program is a record: its*)
(* code, the number of its parameters, whether it pins locals (hot), and   *)
(* where a reload of a pinned local was left out (skips).                  *)
(***************************************************************************)
EXTENDS Integers, Sequences, SequencesExt, Operands

CONSTANTS Programs,       \* the compiled functions
          ArgValues,      \* the values arguments take
          Junk,           \* what uninitialised registers and words hold
          Alu(_, _, _),   \* what an operation makes of its operands
          Holds(_, _, _)  \* whether a comparison holds between its operands

ASSUME WordsAssumption == ArgValues \subseteq Int /\ Junk \subseteq Int

VARIABLES prog,           \* the function called
          args,           \* its arguments
          pc,             \* the next instruction; 0: back in the caller
          regs, flags, stack,
          status          \* running, done, failed (division by zero), wild

vars == <<prog, args, pc, regs, flags, stack, status>>

Ins      == prog.code[pc]
At(name) == status = "running" /\ Ins[1] = name

Saved    == {"r12", "r13", "r14", "r15", "rbp"}
RegNames == {"rax", "rcx", "rdi", "rsi", "rdx", "r8", "r9"} \cup Saved

\* What the caller keeps in the registers a callee must preserve.
CallersRegs == [r \in Saved |->
  CASE r = "r12" -> 912 [] r = "r13" -> 913 [] r = "r14" -> 914
    [] r = "r15" -> 915 [] r = "rbp" -> 0]

Read(o) == CASE o[1] = "reg"  -> regs[o[2]]
             [] o[1] = "imm"  -> o[2]
             [] o[1] = "slot" -> stack[regs["rbp"] + o[2]]

Write(o, v) ==
  IF o[1] = "reg" THEN regs' = [regs EXCEPT ![o[2]] = v] /\ UNCHANGED stack
  ELSE stack' = [stack EXCEPT ![regs["rbp"] + o[2]] = v] /\ UNCHANGED regs

Goto(pos) == pc' = pos /\ UNCHANGED <<prog, args, flags, status>>
Advance   == Goto(pc + 1)

Init ==
  /\ prog \in Programs
  /\ args \in [1..prog.arity -> ArgValues]
  /\ pc = 1 /\ status = "running" /\ flags = <<0, 0>>
  /\ \E j \in Junk :
       regs = [r \in RegNames |->
         IF r \in Saved THEN CallersRegs[r]
         ELSE LET i == SelectInSeq(ArgRegs, LAMBDA a : a = r)
              IN IF i \in DOMAIN args THEN args[i] ELSE j]
  /\ stack = <<0>>              \* the return address
-----------------------------------------------------------------------------
Arithmetic == {"+", "-", "*", "&", "|", "^", "<<", ">>"}
Division   == {"/", "%"}

Mov == At("mov") /\ Write(Ins[2], Read(Ins[3])) /\ Advance

Calculate ==
  /\ status = "running" /\ Ins[1] \in Arithmetic
  /\ Write(Ins[2], Alu(Ins[1], Read(Ins[2]), Read(Ins[3])))
  /\ Advance

Neg == At("neg") /\ Write(Ins[2], -Read(Ins[2])) /\ Advance

\* The zero test on the divisor, then idiv.
Divide ==
  /\ status = "running" /\ Ins[1] \in Division
  /\ LET a == Read(Ins[2])
         b == Read(Ins[3])
     IN IF b = 0
          THEN status' = "failed" /\ UNCHANGED <<prog, args, pc, regs, flags, stack>>
          ELSE /\ regs' = [regs EXCEPT !["rax"] = Alu(Ins[1], a, b),
                                       !["rdx"] = Alu("%", a, b)]
               /\ UNCHANGED stack /\ Advance

Cmp ==
  /\ At("cmp")
  /\ flags' = <<Read(Ins[2]), Read(Ins[3])>> /\ pc' = pc + 1
  /\ UNCHANGED <<prog, args, regs, stack, status>>

SetCC ==
  /\ At("set")
  /\ Write(RAX, IF Holds(Ins[2], flags[1], flags[2]) THEN 1 ELSE 0)
  /\ Advance

Branch ==
  /\ At("jump")
  /\ Goto(IF Ins[2] = "always" \/ Holds(Ins[2], flags[1], flags[2]) THEN Ins[3] ELSE pc + 1)
  /\ UNCHANGED <<regs, stack>>

Push == At("push") /\ stack' = Append(stack, Read(Ins[2])) /\ UNCHANGED regs /\ Advance

Pop ==
  /\ At("pop")
  /\ regs' = [regs EXCEPT ![Ins[2][2]] = Last(stack)] /\ stack' = Front(stack)
  /\ Advance

\* push rbp; mov rbp, rsp; sub rsp, frame.
Enter ==
  /\ At("enter")
  /\ regs' = [regs EXCEPT !["rbp"] = Len(stack) + 1]
  /\ \E j \in Junk : stack' = Append(stack, regs["rbp"]) \o [k \in 1..Ins[2] |-> j]
  /\ Advance

\* mov rsp, rbp; pop rbp.
Leave ==
  /\ At("leave")
  /\ regs' = [regs EXCEPT !["rbp"] = stack[regs["rbp"]]]
  /\ stack' = SubSeq(stack, 1, regs["rbp"] - 1)
  /\ Advance

Call == At("call") /\ stack' = Append(stack, pc + 1) /\ UNCHANGED regs /\ Goto(1)

Ret ==
  /\ At("ret")
  /\ stack' = Front(stack)
  /\ pc' = Last(stack)
  /\ status' = CASE Last(stack) = 0 -> "done"
                 [] Last(stack) \in DOMAIN prog.code -> "running"
                 [] OTHER -> "wild"
  /\ UNCHANGED <<prog, args, regs, flags>>

Next == Mov \/ Calculate \/ Neg \/ Divide \/ Cmp \/ SetCC \/ Branch \/ Push \/ Pop
          \/ Enter \/ Leave \/ Call \/ Ret

Spec == Init /\ [][Next]_vars /\ WF_vars(Next)
-----------------------------------------------------------------------------
(* What the generator's code has in common.  At each position control is    *)
(* either outside of the function's frame, above so many pushed registers,  *)
(* or inside of it, above so many temporaries.                              *)

Inside(d)  == [framed |-> TRUE, above |-> d]
Outside(h) == [framed |-> FALSE, above |-> h]

\* What a function pushes before its frame, and the words of the frame.
Pushed(p) == IF p.hot THEN HotRegs ELSE <<>>
FrameOf(p) == p.code[Len(Pushed(p)) + 1][2]

\* Where instruction i of p leads from place w.
After(p, i, w) ==
  CASE i[1] = "push"  -> [w EXCEPT !.above = @ + 1]
    [] i[1] = "pop"   -> [w EXCEPT !.above = @ - 1]
    [] i[1] = "enter" -> Inside(0)
    [] i[1] = "leave" -> Outside(Len(Pushed(p)))
    [] OTHER -> w

\* Each position's place, in the order of the text: what follows an exit is a
\* statement of its own.
Places(p) ==
  LET upto[k \in 1..Len(p.code)] ==
        IF k = 1 THEN <<Outside(0)>>
        ELSE LET ws == upto[k - 1]
                 w  == ws[k - 1]
                 i  == p.code[k - 1]
             IN Append(ws, IF i[1] = "ret" \/ (i[1] = "jump" /\ ~w.framed) THEN Inside(0)
                           ELSE After(p, i, w))
  IN upto[Len(p.code)]

\* The positions an instruction goes on at, calls passed over.
Follows(p, k) ==
  CASE p.code[k][1] = "ret"  -> {}
    [] p.code[k][1] = "jump" -> {p.code[k][3]} \cup (IF p.code[k][2] = "always" THEN {} ELSE {k + 1})
    [] OTHER -> {k + 1}

Readable(p, o) ==
  \/ o \in {Reg(r) : r \in RegNames} \cup {Slot(k) : k \in 1..FrameOf(p)}
  \/ o[1] = "imm" /\ o[2] \in Int
Writable(p, o) ==
  o \in {Reg(r) : r \in (RegNames \ Saved) \cup ToSet(Pushed(p))} \cup {Slot(k) : k \in 1..FrameOf(p)}

\* What instruction i may be at place w: the frame is entered above the pushed
\* registers and left for them, these are popped in reverse, temporaries are
\* popped as often as pushed, and operands lie in the frame or in a register the
\* function may use.  A function that calls pins nothing.
Allowed(p, i, w) ==
  \/ i[1] \in {"mov"} \cup Arithmetic /\ w.framed /\ Writable(p, i[2]) /\ Readable(p, i[3])
  \/ i[1] = "neg" /\ w.framed /\ Writable(p, i[2])
  \/ i[1] \in Division /\ w.framed /\ Readable(p, i[2]) /\ Readable(p, i[3])
  \/ i[1] = "cmp" /\ w.framed /\ Readable(p, i[2]) /\ Readable(p, i[3])
  \/ i[1] = "set" /\ w.framed
  \/ i[1] = "jump"
  \/ i[1] = "push" /\ w.framed /\ Readable(p, i[2])
  \/ i[1] = "push" /\ w.above < Len(Pushed(p)) /\ ~w.framed /\ i[2] = Reg(Pushed(p)[w.above + 1])
  \/ i[1] = "pop" /\ w.framed /\ w.above > 0 /\ i[2][1] = "reg" /\ Writable(p, i[2])
  \/ i[1] = "pop" /\ w.above > 0 /\ ~w.framed /\ i[2] = Reg(Pushed(p)[w.above])
  \/ i[1] = "enter" /\ w = Outside(Len(Pushed(p))) /\ i[2] = FrameOf(p)
  \/ i[1] = "leave" /\ w.framed
  \/ i[1] = "call" /\ w.framed /\ ~p.hot
  \/ i[1] = "ret" /\ w = Outside(0)

\* Instructions after which rax has the value of register r, and some that
\* change neither.
Equates(i, r) == i \in {<<"mov", Reg(r), RAX>>, <<"mov", RAX, Reg(r)>>}
Passes(i)     == i[1] \in {"cmp", "jump", "push"}

Ways(p, k) == {j \in 1..Len(p.code) : k \in Follows(p, j)}

\* Whichever way control gets to position k, rax has the value of r: each way
\* comes from an instruction that makes it so, directly or through a jump.
Mirrored(p, k, r) ==
  /\ k # 1
  /\ \A j \in Ways(p, k) : Equates(p.code[j], r)
MirroredNear(p, k, r) ==
  /\ k # 1
  /\ \A j \in Ways(p, k) : \/ Equates(p.code[j], r)
                           \/ Passes(p.code[j]) /\ Mirrored(p, j, r)

\* Each reload that was left out was of a register rax mirrors there.
ReloadsCovered(p) ==
  \A skip \in p.skips : skip.reg \in ToSet(HotRegs) /\ MirroredNear(p, skip.at, skip.reg)

\* A reload was left out where a jump leads back to, at the top of a loop.
ReloadAtLoopTop(p) ==
  \E k \in 1..Len(p.code), skip \in p.skips : skip.at \in Follows(p, k) /\ skip.at <= k

\* Every position is reached at one place only, and its instruction is allowed
\* there; and each reload was left out for a reason, but for those at the top of a
\* loop.
Disciplined(p) ==
  LET at == Places(p)
  IN /\ at[1] = Outside(0) /\ FrameOf(p) \in Nat
     /\ \A k \in 1..Len(p.code) :
          /\ Allowed(p, p.code[k], at[k])
          /\ \A t \in Follows(p, k) : t \in 1..Len(p.code) /\ at[t] = After(p, p.code[k], at[k])
     /\ ReloadAtLoopTop(p) \/ ReloadsCovered(p)
-----------------------------------------------------------------------------
\* Every variable has its type, control is at an instruction, and the program
\* that is called is one of the generator's.
TypeOK ==
  /\ pc = 1 => Disciplined(prog)
  /\ args \in [1..prog.arity -> ArgValues]
  /\ status \in {"running", "done", "failed", "wild"}
  /\ status = "running" => pc \in 1..Len(prog.code)
  /\ regs \in [RegNames -> Int] /\ stack \in Seq(Int)
  /\ flags \in Int \X Int

\* Whatever path the function takes to its end, the caller gets its registers
\* and its stack back, and control returns to it.
CallerUndisturbed ==
  /\ status = "done" => stack = <<>> /\ \A r \in Saved : regs[r] = CallersRegs[r]
  /\ status # "wild"

\* Wherever the generator left out the reload of a pinned local, rax holds the
\* local's value, by whatever jump control got there.
SkippedReloadsMatch ==
  \A skip \in prog.skips :
    status = "running" /\ pc = skip.at => regs["rax"] = regs[skip.reg]

\* A function that calls itself only in return statements runs in one frame,
\* however often it does.
TailCallsFlat ==
  (\A k \in DOMAIN prog.code : prog.code[k][1] # "call") =>
    regs["rbp"] \in {CallersRegs["rbp"], IF prog.hot THEN 6 ELSE 2}

\* Every run comes to an end: no jump target leads the code astray.
Terminates == <>(status # "running")
=============================================================================
