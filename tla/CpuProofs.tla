------------------------------ MODULE CpuProofs ------------------------------
(***************************************************************************)
(* The calling convention of the emitted code, for every program that      *)
(* keeps the generator's discipline, all arguments and whatever the        *)
(* registers and the stack hold at the start.                              *)
(***************************************************************************)
EXTENDS Cpu, SequenceTheorems, TLAPS

\* The processor computes words from words; a divisor is tested before.
Closed ==
  /\ \A op \in Arithmetic : \A a, b \in Int : Alu(op, a, b) \in Int
  /\ \A op \in Division : \A a \in Int : \A b \in Int \ {0} : Alu(op, a, b) \in Int

\* The programs are sequences of instructions that keep the discipline.
Generated == \A p \in Programs : Disciplined(p) /\ \E S : p.code \in Seq(S) \ {<<>>}

Quartet == {"r12", "r13", "r14", "r15"}

\* Where an activation whose return address is at r keeps the caller's rbp.
Base(p, r) == r + Len(Pushed(p)) + 1

\* What it keeps there: the rbp of activation i - 1, or the caller's.
Lower(p, R, i) == IF i = 1 THEN 0 ELSE Base(p, R[i - 1])

\* pos is behind a call made so many words above the base of its frame.
Returns(p, pos, size) ==
  /\ pos \in 2..Len(p.code) /\ p.code[pos - 1][1] = "call"
  /\ size - FrameOf(p) - 1 \in Nat
  /\ Places(p)[pos] = Inside(size - FrameOf(p) - 1)

\* The activations on stack st: R is where their return addresses are.
Chained(p, st, R) ==
  /\ R \in Seq(Nat \ {0}) /\ Len(R) > 0 /\ R[1] = 1 /\ st[1] = 0
  /\ Len(R) > 1 => ~p.hot
  /\ \A i, j \in 1..Len(R) : i < j => Base(p, R[i]) + FrameOf(p) < R[j]
  /\ \A i \in 2..Len(R) : Returns(p, st[R[i]], R[i] - Base(p, R[i - 1]))
  /\ \A i \in 1..Len(R) - 1 : st[Base(p, R[i])] = Lower(p, R, i)

\* The innermost activation inside of its frame, and outside.
InFrame(p, st, rg, w, r, b) ==
  /\ w.above \in Nat /\ w = Inside(w.above)
  /\ Len(st) = Base(p, r) + FrameOf(p) + w.above
  /\ rg["rbp"] = Base(p, r) /\ st[Base(p, r)] = b
  /\ \A j \in 1..Len(Pushed(p)) : st[r + j] = CallersRegs[Pushed(p)[j]]
  /\ \A x \in Quartet \ ToSet(Pushed(p)) : rg[x] = CallersRegs[x]

OutOfFrame(p, st, rg, w, r, b) ==
  /\ w.above \in 0..Len(Pushed(p)) /\ w = Outside(w.above)
  /\ Len(st) = r + w.above /\ rg["rbp"] = b
  /\ \A j \in 1..w.above : st[r + j] = CallersRegs[Pushed(p)[j]]
  /\ \A x \in Quartet \ {Pushed(p)[j] : j \in 1..w.above} : rg[x] = CallersRegs[x]

Topped(p, st, rg, w, R) ==
  \/ InFrame(p, st, rg, w, R[Len(R)], Lower(p, R, Len(R)))
  \/ OutOfFrame(p, st, rg, w, R[Len(R)], Lower(p, R, Len(R)))

Stacked(R) == Chained(prog, stack, R) /\ Topped(prog, stack, regs, Places(prog)[pc], R)

Types ==
  /\ prog \in Programs /\ args \in [1..prog.arity -> ArgValues]
  /\ status \in {"running", "done", "failed", "wild"}
  /\ status = "running" => pc \in 1..Len(prog.code)
  /\ regs \in [RegNames -> Int] /\ stack \in Seq(Int)
  /\ flags \in Int \X Int

\* The inductive invariant.
StackInv ==
  /\ Types /\ CallerUndisturbed
  /\ status \in {"running", "failed"} => \E R : Stacked(R)

\* The words up to the base of a frame are below its top.
LEMMA InFramePart ==
  ASSUME NEW a \in Nat, NEW f \in Nat, NEW b \in Nat
  PROVE  \A k \in 1..a : k \in 1..(a + f + b)
  OBVIOUS

\* They still are when the frame holds a word and loses one.
LEMMA BelowTop ==
  ASSUME NEW a \in Nat, NEW f \in Nat, NEW b \in Nat \ {0}
  PROVE  \A k \in 1..a : k \in 1..(a + f + b) - 1
  OBVIOUS

-----------------------------------------------------------------------------
\* What a program of the generator is known to be.
LEMMA Program ==
  ASSUME Generated, NEW p \in Programs
  PROVE  /\ Disciplined(p) /\ Len(p.code) \in Nat \ {0} /\ DOMAIN p.code = 1..Len(p.code)
         /\ FrameOf(p) \in Nat /\ Len(Pushed(p)) \in {0, 4} /\ Places(p)[1] = Outside(0)
  <1>1. Disciplined(p) /\ Len(p.code) \in Nat \ {0} /\ DOMAIN p.code = 1..Len(p.code)
    BY DEF Generated
  <1>2. Len(Pushed(p)) \in {0, 4}
    BY DEF Pushed, HotRegs
  <1> QED BY <1>1, <1>2 DEF Disciplined

\* The instruction control is at is allowed there, and leads where it says.
LEMMA AtAllowed ==
  ASSUME Generated, Types, status = "running"
  PROVE  /\ Allowed(prog, Ins, Places(prog)[pc])
         /\ \A t \in Follows(prog, pc) :
              t \in 1..Len(prog.code) /\ Places(prog)[t] = After(prog, Ins, Places(prog)[pc])
  <1>1. prog \in Programs /\ pc \in 1..Len(prog.code)
    BY DEF Types
  <1>2. Disciplined(prog)
    BY <1>1, Program
  <1> QED BY <1>1, <1>2 DEF Disciplined, Ins

\* The pushed registers are different ones of the quartet.
LEMMA PushedRegs ==
  ASSUME NEW p
  PROVE  /\ \A i \in 1..Len(Pushed(p)) :
              Pushed(p)[i] \in Quartet /\ Pushed(p)[i] \in ToSet(Pushed(p))
         /\ \A i, j \in 1..Len(Pushed(p)) : Pushed(p)[i] = Pushed(p)[j] => i = j
         /\ ToSet(Pushed(p)) = {Pushed(p)[j] : j \in 1..Len(Pushed(p))}
         /\ ToSet(Pushed(p)) \subseteq Quartet
         /\ ~p.hot => Len(Pushed(p)) = 0
  <1>1. CASE p.hot
    <2>1. Pushed(p) = HotRegs
      BY <1>1 DEF Pushed
    <2>2. /\ Len(HotRegs) = 4 /\ HotRegs[1] = "r12" /\ HotRegs[2] = "r13"
          /\ HotRegs[3] = "r14" /\ HotRegs[4] = "r15"
      BY DEF HotRegs
    <2>3. DOMAIN HotRegs = 1..4
      BY DEF HotRegs
    <2> QED BY <1>1, <2>1, <2>2, <2>3 DEF ToSet, Quartet
  <1>2. CASE ~p.hot
    <2>1. Pushed(p) = <<>>
      BY <1>2 DEF Pushed
    <2> QED BY <1>2, <2>1 DEF ToSet
  <1> QED BY <1>1, <1>2

\* The chain depends on the stack up to the base of the innermost frame, or to its
\* return address when the frame is not there.
LEMMA ChainKept ==
  ASSUME NEW p, FrameOf(p) \in Nat, Len(Pushed(p)) \in Nat,
         NEW st, NEW st2, NEW R, Chained(p, st, R),
         \A k \in 1..R[Len(R)] : st2[k] = st[k]
  PROVE  Chained(p, st2, R)
  <1>1. R \in Seq(Nat \ {0}) /\ Len(R) \in Nat \ {0} /\ R[1] = 1
    BY DEF Chained
  <1>2. \A i \in 1..Len(R) : R[i] \in Nat
    BY <1>1
  <1>3. \A i, j \in 1..Len(R) : i < j => Base(p, R[i]) + FrameOf(p) < R[j]
    BY DEF Chained
  <1>4. ASSUME NEW i \in 1..Len(R) PROVE R[i] \in 1..R[Len(R)] /\ st2[R[i]] = st[R[i]]
    <2>1. 1 <= R[i]
      BY <1>1
    <2>2. R[i] <= R[Len(R)]
      <3>1. CASE i = Len(R)
        BY <3>1, <1>2
      <3>2. CASE i # Len(R)
        <4>1. Len(R) \in 1..Len(R) /\ i < Len(R)
          BY <3>2, <1>1
        <4>2. Base(p, R[i]) + FrameOf(p) < R[Len(R)]
          BY <4>1, <1>3
        <4> QED BY <4>1, <4>2, <1>2 DEF Base
      <3> QED BY <3>1, <3>2
    <2>3. R[i] \in Nat /\ R[Len(R)] \in Nat
      BY <1>1, <1>2
    <2>4. R[i] \in 1..R[Len(R)]
      BY <2>1, <2>2, <2>3
    <2> QED BY <2>4
  <1>5. st2[1] = 0
    <2>1. 1 \in 1..Len(R)
      BY <1>1
    <2> QED BY <2>1, <1>1, <1>4 DEF Chained
  <1>6. ASSUME NEW i \in 2..Len(R) PROVE Returns(p, st2[R[i]], R[i] - Base(p, R[i - 1]))
    <2>1. i \in 1..Len(R)
      BY <1>1
    <2>2. Returns(p, st[R[i]], R[i] - Base(p, R[i - 1]))
      BY DEF Chained
    <2> QED BY <2>1, <2>2, <1>4
  <1>7. ASSUME NEW i \in 1..Len(R) - 1 PROVE st2[Base(p, R[i])] = Lower(p, R, i)
    <2>1. i \in 1..Len(R) /\ Len(R) \in 1..Len(R) /\ i < Len(R)
      BY <1>1
    <2>2. Base(p, R[i]) + FrameOf(p) < R[Len(R)]
      BY <2>1, <1>3
    <2>3. Base(p, R[i]) \in 1..R[Len(R)]
      <3>1. Base(p, R[i]) \in Nat /\ Base(p, R[i]) >= 1
        BY <2>1, <1>2 DEF Base
      <3> QED BY <3>1, <2>1, <2>2, <1>2
    <2>4. st[Base(p, R[i])] = Lower(p, R, i)
      BY DEF Chained
    <2> QED BY <2>3, <2>4
  <1> QED BY <1>1, <1>5, <1>6, <1>7 DEF Chained

-----------------------------------------------------------------------------
\* The innermost activation is on the stack.
LEMMA Innermost ==
  ASSUME NEW p, NEW st, NEW R, Chained(p, st, R)
  PROVE  R \in Seq(Nat \ {0}) /\ Len(R) \in Nat \ {0} /\ R[Len(R)] \in Nat \ {0}
  BY DEF Chained

\* What is inside of a frame is not outside of it.
LEMMA Framed ==
  ASSUME NEW p, NEW st, NEW rg, NEW w, NEW R, Topped(p, st, rg, w, R), w.framed
  PROVE  InFrame(p, st, rg, w, R[Len(R)], Lower(p, R, Len(R)))
  BY DEF Topped, OutOfFrame, Outside

\* What is outside of a frame is not inside of it.
LEMMA Unframed ==
  ASSUME NEW p, NEW st, NEW rg, NEW w, NEW R, Topped(p, st, rg, w, R), ~w.framed
  PROVE  OutOfFrame(p, st, rg, w, R[Len(R)], Lower(p, R, Len(R)))
  BY DEF Topped, InFrame, Inside

\* A word of the frame is on the stack.
LEMMA Within ==
  ASSUME NEW b \in Nat, NEW f \in Nat, NEW k \in 1..f, NEW a \in Nat
  PROVE  b + k \in 1..(b + f + a) /\ b + k > b
  OBVIOUS

\* A local of the frame control is in is on the stack, above the base.
LEMMA LocalPlace ==
  ASSUME Generated, Types, NEW R, Stacked(R), Places(prog)[pc].framed,
         NEW k \in 1..FrameOf(prog)
  PROVE  regs["rbp"] \in Nat /\ regs["rbp"] + k \in 1..Len(stack) /\ regs["rbp"] + k > regs["rbp"]
  <1>1. InFrame(prog, stack, regs, Places(prog)[pc], R[Len(R)], Lower(prog, R, Len(R)))
    BY Framed DEF Stacked
  <1>2. R[Len(R)] \in Nat \ {0}
    BY Innermost DEF Stacked
  <1>3. FrameOf(prog) \in Nat /\ Len(Pushed(prog)) \in {0, 4}
    BY Program DEF Types
  <1>4. Places(prog)[pc].above \in Nat /\ regs["rbp"] = Base(prog, R[Len(R)])
         /\ Len(stack) = Base(prog, R[Len(R)]) + FrameOf(prog) + Places(prog)[pc].above
    BY <1>1 DEF InFrame
  <1>5. regs["rbp"] \in Nat
    BY <1>2, <1>3, <1>4 DEF Base
  <1>6. Len(stack) = regs["rbp"] + FrameOf(prog) + Places(prog)[pc].above
    BY <1>4, Zenon
  <1> QED BY <1>3, <1>4, <1>5, <1>6, Within

\* An operand that is read is a word.
LEMMA ReadWord ==
  ASSUME Generated, Types, NEW R, Stacked(R), Places(prog)[pc].framed,
         NEW o, Readable(prog, o)
  PROVE  Read(o) \in Int
  <1>4. CASE o \in {Reg(r) : r \in RegNames}
    <2>1. o[1] = "reg" /\ o[2] \in RegNames
      BY <1>4 DEF Reg
    <2> QED BY <2>1 DEF Read, Types
  <1>5. CASE o \in {Slot(k) : k \in 1..FrameOf(prog)}
    <2>1. o[1] = "slot" /\ o[2] \in 1..FrameOf(prog)
      BY <1>5 DEF Slot
    <2>2. regs["rbp"] + o[2] \in 1..Len(stack)
      BY <2>1, LocalPlace
    <2>3. Read(o) = stack[regs["rbp"] + o[2]]
      BY <2>1 DEF Read
    <2> QED BY <2>2, <2>3 DEF Types
  <1>6. CASE o[1] = "imm" /\ o[2] \in Int
    BY <1>6 DEF Read
  <1> QED BY <1>4, <1>5, <1>6 DEF Readable

\* A store leaves what is below the frame, and the registers the function may not
\* use, alone.
LEMMA Written ==
  ASSUME Generated, Types, NEW R, Stacked(R), Places(prog)[pc].framed,
         NEW o, Writable(prog, o), NEW v \in Int, Write(o, v)
  PROVE  /\ regs' \in [RegNames -> Int] /\ stack' \in Seq(Int) /\ Len(stack') = Len(stack)
         /\ regs'["rbp"] = regs["rbp"]
         /\ \A x \in Quartet \ ToSet(Pushed(prog)) : regs'[x] = regs[x]
         /\ \A k \in 1..regs["rbp"] : stack'[k] = stack[k]
  <1>4. regs \in [RegNames -> Int] /\ stack \in Seq(Int)
    BY DEF Types
  <1>5. CASE o \in {Reg(r) : r \in (RegNames \ Saved) \cup ToSet(Pushed(prog))}
    <2>1. o[1] = "reg" /\ o[2] \in (RegNames \ Saved) \cup ToSet(Pushed(prog))
      BY <1>5 DEF Reg
    <2>2. regs' = [regs EXCEPT ![o[2]] = v] /\ stack' = stack
      BY <2>1 DEF Write
    <2>3. o[2] # "rbp" /\ \A x \in Quartet \ ToSet(Pushed(prog)) : x # o[2]
      <3>1. ToSet(Pushed(prog)) \subseteq Quartet
        BY PushedRegs
      <3> QED BY <2>1, <3>1 DEF Quartet, Saved
    <2>4. "rbp" \in RegNames /\ Quartet \subseteq RegNames
      BY DEF RegNames, Saved, Quartet
    <2> QED BY <2>2, <2>3, <2>4, <1>4
  <1>6. CASE o \in {Slot(k) : k \in 1..FrameOf(prog)}
    <2>1. o[1] = "slot" /\ o[2] \in 1..FrameOf(prog)
      BY <1>6 DEF Slot
    <2>2. regs' = regs /\ stack' = [stack EXCEPT ![regs["rbp"] + o[2]] = v]
      BY <2>1 DEF Write
    <2>3. /\ regs["rbp"] + o[2] \in 1..Len(stack) /\ regs["rbp"] \in Nat
          /\ regs["rbp"] + o[2] > regs["rbp"]
      BY <2>1, LocalPlace
    <2>4. stack' \in Seq(Int) /\ Len(stack') = Len(stack)
      BY <2>2, <2>3, <1>4
    <2>5. ASSUME NEW k \in 1..regs["rbp"] PROVE stack'[k] = stack[k]
      <3>1. k \in 1..Len(stack) /\ k # regs["rbp"] + o[2]
        BY <2>3, <1>4
      <3> QED BY <3>1, <2>2, <1>4
    <2> QED BY <2>2, <2>4, <2>5, <1>4
  <1> QED BY <1>5, <1>6 DEF Writable

\* A step inside of the frame that changes nothing below the frame's words.
LEMMA FrameStep ==
  ASSUME Generated, Types, status = "running", NEW R, Stacked(R), Places(prog)[pc].framed,
         prog' = prog, pc' \in Follows(prog, pc),
         NEW d \in Nat, After(prog, Ins, Places(prog)[pc]) = Inside(d),
         Len(stack') = Len(stack) + d - Places(prog)[pc].above,
         regs'["rbp"] = regs["rbp"],
         \A x \in Quartet \ ToSet(Pushed(prog)) : regs'[x] = regs[x],
         \A k \in 1..regs["rbp"] : stack'[k] = stack[k]
  PROVE  pc' \in 1..Len(prog.code) /\ Stacked(R)'
  <1> DEFINE w == Places(prog)[pc]  r == R[Len(R)]  b == Lower(prog, R, Len(R))
  <1>1. InFrame(prog, stack, regs, w, r, b)
    BY Framed DEF Stacked
  <1>2. r \in Nat \ {0} /\ Len(R) \in Nat \ {0}
    BY Innermost DEF Stacked
  <1>3. FrameOf(prog) \in Nat /\ Len(Pushed(prog)) \in {0, 4}
    BY Program DEF Types
  <1>4. pc' \in 1..Len(prog.code) /\ Places(prog)[pc'] = Inside(d)
    BY AtAllowed
  <1>5. \A k \in 1..Base(prog, r) : stack'[k] = stack[k]
    BY <1>1 DEF InFrame
  <1>6. Base(prog, r) \in Nat /\ Base(prog, r) = r + Len(Pushed(prog)) + 1
    BY <1>2, <1>3 DEF Base
  <1>7. Chained(prog, stack', R)
    <2>1. \A k \in 1..r : stack'[k] = stack[k]
      BY <1>2, <1>3, <1>5, <1>6
    <2> QED BY <2>1, <1>3, ChainKept DEF Stacked
  <1>8. InFrame(prog, stack', regs', Inside(d), r, b)
    <2>1. Inside(d).above = d
      BY DEF Inside
    <2>2. Len(stack') = Base(prog, r) + FrameOf(prog) + d
      <3>1. Len(stack) = Base(prog, r) + FrameOf(prog) + w.above /\ w.above \in Nat
        BY <1>1 DEF InFrame
      <3> HIDE DEF w, r, b
      <3> QED BY <3>1, <1>3, <1>6 DEF w
    <2>3. regs'["rbp"] = Base(prog, r) /\ stack'[Base(prog, r)] = b
      <3>1. regs["rbp"] = Base(prog, r) /\ stack[Base(prog, r)] = b
        BY <1>1 DEF InFrame
      <3>2. Base(prog, r) \in 1..Base(prog, r)
        BY <1>2, <1>3, <1>6
      <3>3. stack'[Base(prog, r)] = stack[Base(prog, r)]
        BY <3>2, <1>5
      <3> QED BY <3>1, <3>3
    <2>4. ASSUME NEW j \in 1..Len(Pushed(prog)) PROVE stack'[r + j] = CallersRegs[Pushed(prog)[j]]
      <3>1. r + j \in 1..Base(prog, r)
        BY <1>2, <1>3, <1>6
      <3> QED BY <3>1, <1>1, <1>5 DEF InFrame
    <2>5. \A x \in Quartet \ ToSet(Pushed(prog)) : regs'[x] = CallersRegs[x]
      BY <1>1 DEF InFrame
    <2> QED BY <2>1, <2>2, <2>3, <2>4, <2>5 DEF InFrame
  <1> QED BY <1>4, <1>7, <1>8 DEF Stacked, Topped

-----------------------------------------------------------------------------
\* What is left to show of a step that stays in the program.
LEMMA StillRunning ==
  ASSUME Types, status = "running", status' = status, prog' = prog, args' = args,
         flags' \in Int \X Int, regs' \in [RegNames -> Int], stack' \in Seq(Int),
         pc' \in 1..Len(prog.code), NEW R, Stacked(R)'
  PROVE  StackInv'
  <1>1. Types'
    BY DEF Types
  <1>2. CallerUndisturbed'
    BY DEF CallerUndisturbed
  <1> QED BY <1>1, <1>2 DEF StackInv

\* The names of the instructions that are no moves of control and push nothing.
Plain == {"mov", "neg", "cmp", "set"} \cup Arithmetic \cup Division

\* A plain instruction is in the frame and goes on behind itself.
LEMMA PlainStep ==
  ASSUME Generated, Types, status = "running", NEW R, Stacked(R), Ins[1] \in Plain
  PROVE  /\ Places(prog)[pc].framed
         /\ pc + 1 \in Follows(prog, pc)
         /\ Places(prog)[pc].above \in Nat
         /\ After(prog, Ins, Places(prog)[pc]) = Inside(Places(prog)[pc].above)
  <1> DEFINE w == Places(prog)[pc]
  <1>1. Allowed(prog, Ins, w)
    BY AtAllowed
  <1> HIDE DEF w
  <1>2. Ins[1] \notin {"push", "pop", "enter", "leave", "jump", "call", "ret"}
    BY DEF Plain, Arithmetic, Division
  <1>3. w.framed
    BY <1>1, <1>2 DEF Allowed
  <1>4. w.above \in Nat /\ w = Inside(w.above)
    BY <1>3, Framed DEF Stacked, InFrame, w
  <1>5. After(prog, Ins, w) = w
    BY <1>2 DEF After
  <1>6. Follows(prog, pc) = {pc + 1}
    BY <1>2 DEF Follows, Ins
  <1> QED BY <1>3, <1>4, <1>5, <1>6 DEF w

\* A plain instruction that stores a word.
LEMMA StoreStep ==
  ASSUME Generated, StackInv, status = "running", Ins[1] \in Plain,
         NEW o, Writable(prog, o), NEW v \in Int, Write(o, v), Advance
  PROVE  StackInv'
  <1>1. PICK R : Stacked(R)
    BY DEF StackInv
  <1>2. Types
    BY DEF StackInv
  <1>3. /\ Places(prog)[pc].framed /\ pc + 1 \in Follows(prog, pc)
        /\ Places(prog)[pc].above \in Nat
        /\ After(prog, Ins, Places(prog)[pc]) = Inside(Places(prog)[pc].above)
    BY <1>1, <1>2, PlainStep
  <1>4. /\ regs' \in [RegNames -> Int] /\ stack' \in Seq(Int) /\ Len(stack') = Len(stack)
        /\ regs'["rbp"] = regs["rbp"]
        /\ \A x \in Quartet \ ToSet(Pushed(prog)) : regs'[x] = regs[x]
        /\ \A k \in 1..regs["rbp"] : stack'[k] = stack[k]
    BY <1>1, <1>2, <1>3, Written
  <1>5. /\ pc' = pc + 1 /\ prog' = prog /\ args' = args /\ flags' = flags /\ status' = status
    BY DEF Advance, Goto
  <1>6. Len(stack') = Len(stack) + Places(prog)[pc].above - Places(prog)[pc].above
    BY <1>2, <1>3, <1>4 DEF Types
  <1>7. pc' \in 1..Len(prog.code) /\ Stacked(R)'
    BY <1>1, <1>2, <1>3, <1>4, <1>5, <1>6, FrameStep
  <1>8. flags' \in Int \X Int
    BY <1>2, <1>5 DEF Types
  <1> QED BY <1>2, <1>4, <1>5, <1>7, <1>8, StillRunning

\* A move stores a word that is read in the frame.
LEMMA MovStep ==
  ASSUME Generated, StackInv, Mov
  PROVE  StackInv'
  <1>1. Types /\ status = "running" /\ Ins[1] = "mov" /\ Ins[1] \in Plain
    BY DEF Mov, At, StackInv, Plain
  <1>2. PICK R : Stacked(R)
    BY <1>1 DEF StackInv
  <1>3. Places(prog)[pc].framed
    BY <1>1, <1>2, PlainStep
  <1>4. Allowed(prog, Ins, Places(prog)[pc])
    BY <1>1, AtAllowed
  <1>5. Writable(prog, Ins[2]) /\ Readable(prog, Ins[3])
    BY <1>1, <1>4 DEF Allowed, Arithmetic, Division
  <1>6. Read(Ins[3]) \in Int
    BY <1>1, <1>2, <1>3, <1>5, ReadWord
  <1> QED BY <1>1, <1>5, <1>6, StoreStep DEF Mov

\* An operation stores what it makes of two words.
LEMMA CalculateStep ==
  ASSUME Closed, Generated, StackInv, Calculate
  PROVE  StackInv'
  <1>1. Types /\ status = "running" /\ Ins[1] \in Arithmetic /\ Ins[1] \in Plain
    BY DEF Calculate, StackInv, Plain
  <1>2. PICK R : Stacked(R)
    BY <1>1 DEF StackInv
  <1>3. Places(prog)[pc].framed
    BY <1>1, <1>2, PlainStep
  <1>4. Allowed(prog, Ins, Places(prog)[pc])
    BY <1>1, AtAllowed
  <1>5. Writable(prog, Ins[2]) /\ Readable(prog, Ins[3])
    BY <1>1, <1>4 DEF Allowed, Arithmetic, Division
  <1>6. Readable(prog, Ins[2])
    BY <1>5, PushedRegs DEF Readable, Writable, RegNames, Saved, Quartet
  <1>7. Read(Ins[2]) \in Int /\ Read(Ins[3]) \in Int
    BY <1>1, <1>2, <1>3, <1>5, <1>6, ReadWord
  <1>8. Alu(Ins[1], Read(Ins[2]), Read(Ins[3])) \in Int
    BY <1>1, <1>7 DEF Closed
  <1> QED BY <1>1, <1>5, <1>8, StoreStep DEF Calculate

\* A negation stores a word.
LEMMA NegStep ==
  ASSUME Generated, StackInv, Neg
  PROVE  StackInv'
  <1>1. Types /\ status = "running" /\ Ins[1] = "neg" /\ Ins[1] \in Plain
    BY DEF Neg, At, StackInv, Plain
  <1>2. PICK R : Stacked(R)
    BY <1>1 DEF StackInv
  <1>3. Places(prog)[pc].framed
    BY <1>1, <1>2, PlainStep
  <1>4. Allowed(prog, Ins, Places(prog)[pc])
    BY <1>1, AtAllowed
  <1>5. Writable(prog, Ins[2])
    BY <1>1, <1>4 DEF Allowed, Arithmetic, Division
  <1>6. Readable(prog, Ins[2])
    BY <1>5, PushedRegs DEF Readable, Writable, RegNames, Saved, Quartet
  <1>7. Read(Ins[2]) \in Int
    BY <1>1, <1>2, <1>3, <1>6, ReadWord
  <1>8. -Read(Ins[2]) \in Int
    BY <1>7
  <1> QED BY <1>1, <1>5, <1>8, StoreStep DEF Neg

\* Setting rax from the flags stores a word.
LEMMA SetStep ==
  ASSUME Generated, StackInv, SetCC
  PROVE  StackInv'
  <1> DEFINE v == IF Holds(Ins[2], flags[1], flags[2]) THEN 1 ELSE 0
  <1>1. status = "running" /\ Ins[1] \in Plain /\ Write(RAX, v) /\ Advance
    BY DEF SetCC, At, Plain
  <1>2. Writable(prog, RAX)
    BY DEF Writable, RAX, RegNames, Saved
  <1>3. v \in Int
    OBVIOUS
  <1> HIDE DEF v
  <1> QED BY <1>1, <1>2, <1>3, StoreStep

\* A step whose instruction keeps the place, and that leaves registers and stack alone.
LEMMA StandStill ==
  ASSUME Generated, StackInv, status = "running",
         UNCHANGED <<prog, args, regs, stack, status>>, flags' \in Int \X Int,
         pc' \in Follows(prog, pc), After(prog, Ins, Places(prog)[pc]) = Places(prog)[pc]
  PROVE  StackInv'
  <1>1. PICK R : Stacked(R)
    BY DEF StackInv
  <1>2. Types
    BY DEF StackInv
  <1>3. pc' \in 1..Len(prog.code) /\ Places(prog)[pc'] = Places(prog)[pc]
    BY <1>2, AtAllowed
  <1>4. Stacked(R)'
    BY <1>1, <1>3 DEF Stacked
  <1>5. regs' \in [RegNames -> Int] /\ stack' \in Seq(Int)
    BY <1>2 DEF Types
  <1> QED BY <1>2, <1>3, <1>4, <1>5, StillRunning

\* A comparison moves nothing.
LEMMA CmpStep ==
  ASSUME Generated, StackInv, Cmp
  PROVE  StackInv'
  <1>1. Types /\ status = "running" /\ Ins[1] = "cmp" /\ Ins[1] \in Plain
    BY DEF Cmp, At, StackInv, Plain
  <1>2. PICK R : Stacked(R)
    BY <1>1 DEF StackInv
  <1>3. Places(prog)[pc].framed /\ pc + 1 \in Follows(prog, pc)
    BY <1>1, <1>2, PlainStep
  <1>4. Allowed(prog, Ins, Places(prog)[pc])
    BY <1>1, AtAllowed
  <1>5. Readable(prog, Ins[2]) /\ Readable(prog, Ins[3])
    BY <1>1, <1>4 DEF Allowed, Arithmetic, Division
  <1>6. Read(Ins[2]) \in Int /\ Read(Ins[3]) \in Int
    BY <1>1, <1>2, <1>3, <1>5, ReadWord
  <1>7. flags' \in Int \X Int /\ pc' = pc + 1 /\ UNCHANGED <<prog, args, regs, stack, status>>
    BY <1>6 DEF Cmp
  <1>8. After(prog, Ins, Places(prog)[pc]) = Places(prog)[pc]
    BY <1>1 DEF After
  <1> QED BY <1>1, <1>3, <1>7, <1>8, StandStill

\* A jump moves nothing.
LEMMA BranchStep ==
  ASSUME Generated, StackInv, Branch
  PROVE  StackInv'
  <1>1. Types /\ status = "running" /\ Ins[1] = "jump"
    BY DEF Branch, At, StackInv
  <1>2. pc' \in Follows(prog, pc)
    BY <1>1 DEF Branch, Goto, Follows, Ins
  <1>3. After(prog, Ins, Places(prog)[pc]) = Places(prog)[pc]
    BY <1>1 DEF After
  <1>4. UNCHANGED <<prog, args, regs, stack, status>> /\ flags' \in Int \X Int
    BY <1>1 DEF Branch, Goto, Types
  <1> QED BY <1>1, <1>2, <1>3, <1>4, StandStill

\* A division stops the program or leaves its results in rax and rdx.
LEMMA DivideStep ==
  ASSUME Closed, Generated, StackInv, Divide
  PROVE  StackInv'
  <1>1. Types /\ status = "running" /\ Ins[1] \in Division /\ Ins[1] \in Plain
    BY DEF Divide, StackInv, Plain
  <1>2. PICK R : Stacked(R)
    BY <1>1 DEF StackInv
  <1>3. /\ Places(prog)[pc].framed /\ pc + 1 \in Follows(prog, pc)
        /\ Places(prog)[pc].above \in Nat
        /\ After(prog, Ins, Places(prog)[pc]) = Inside(Places(prog)[pc].above)
    BY <1>1, <1>2, PlainStep
  <1>4. Allowed(prog, Ins, Places(prog)[pc])
    BY <1>1, AtAllowed
  <1>5. Readable(prog, Ins[2]) /\ Readable(prog, Ins[3])
    BY <1>1, <1>4 DEF Allowed, Arithmetic, Division
  <1> DEFINE a == Read(Ins[2])  b == Read(Ins[3])
  <1>6. a \in Int /\ b \in Int
    BY <1>1, <1>2, <1>3, <1>5, ReadWord
  <1>7. IF b = 0
          THEN status' = "failed" /\ UNCHANGED <<prog, args, pc, regs, flags, stack>>
          ELSE /\ regs' = [regs EXCEPT !["rax"] = Alu(Ins[1], a, b), !["rdx"] = Alu("%", a, b)]
               /\ UNCHANGED stack /\ Advance
    BY DEF Divide
  <1> HIDE DEF a, b
  <1>8. CASE b = 0
    <2>1. status' = "failed" /\ UNCHANGED <<prog, args, pc, regs, flags, stack>>
      BY <1>7, <1>8
    <2>2. Types'
      BY <2>1, <1>1 DEF Types
    <2>3. Stacked(R)'
      BY <2>1, <1>2 DEF Stacked
    <2>4. CallerUndisturbed'
      BY <2>1 DEF CallerUndisturbed
    <2> QED BY <2>2, <2>3, <2>4 DEF StackInv
  <1>9. CASE b # 0
    <2>1. /\ regs' = [regs EXCEPT !["rax"] = Alu(Ins[1], a, b), !["rdx"] = Alu("%", a, b)]
          /\ stack' = stack /\ Advance
      BY <1>7, <1>9
    <2>2. Alu(Ins[1], a, b) \in Int /\ Alu("%", a, b) \in Int
      BY <1>1, <1>6, <1>9 DEF Closed, Division
    <2>3. regs \in [RegNames -> Int] /\ stack \in Seq(Int)
      BY <1>1 DEF Types
    <2>4. regs' \in [RegNames -> Int]
      BY <2>1, <2>2, <2>3
    <2>5. regs'["rbp"] = regs["rbp"] /\ \A x \in Quartet : regs'[x] = regs[x]
      BY <2>1, <2>3 DEF RegNames, Saved, Quartet
    <2>6. pc' = pc + 1 /\ prog' = prog /\ args' = args /\ flags' = flags /\ status' = status
      BY <2>1 DEF Advance, Goto
    <2>7. Len(stack') = Len(stack) + Places(prog)[pc].above - Places(prog)[pc].above
      BY <2>1, <2>3, <1>3
    <2>8. pc' \in 1..Len(prog.code) /\ Stacked(R)'
      BY <1>1, <1>2, <1>3, <2>1, <2>5, <2>6, <2>7, FrameStep
    <2>9. flags' \in Int \X Int /\ stack' \in Seq(Int)
      BY <1>1, <2>1, <2>6 DEF Types
    <2> QED BY <1>1, <2>4, <2>6, <2>8, <2>9, StillRunning
  <1> QED BY <1>8, <1>9
-----------------------------------------------------------------------------
\* Places above and below a place.
LEMMA Shifted ==
  ASSUME NEW p, NEW i, NEW w, NEW d, NEW f, w = [framed |-> f, above |-> d]
  PROVE  /\ i[1] = "push" => After(p, i, w) = [framed |-> f, above |-> d + 1]
         /\ i[1] = "pop" => After(p, i, w) = [framed |-> f, above |-> d - 1]
  BY Zenon DEF After

\* The innermost activation is outside of its frame, its registers partly pushed.
LEMMA OutsideStep ==
  ASSUME Generated, Types, status = "running", NEW R, Chained(prog, stack, R),
         prog' = prog, pc' \in Follows(prog, pc),
         NEW h \in 0..Len(Pushed(prog)), After(prog, Ins, Places(prog)[pc]) = Outside(h),
         Len(stack') = R[Len(R)] + h, regs'["rbp"] = Lower(prog, R, Len(R)),
         \A k \in 1..R[Len(R)] : stack'[k] = stack[k],
         \A j \in 1..h : stack'[R[Len(R)] + j] = CallersRegs[Pushed(prog)[j]],
         \A x \in Quartet \ {Pushed(prog)[j] : j \in 1..h} : regs'[x] = CallersRegs[x]
  PROVE  pc' \in 1..Len(prog.code) /\ Stacked(R)'
  <1>1. FrameOf(prog) \in Nat /\ Len(Pushed(prog)) \in Nat
    BY Program DEF Types
  <1>2. pc' \in 1..Len(prog.code) /\ Places(prog)[pc'] = Outside(h)
    BY AtAllowed
  <1>3. Chained(prog, stack', R)
    BY <1>1, ChainKept
  <1>4. Outside(h).above = h
    BY DEF Outside
  <1>5. OutOfFrame(prog, stack', regs', Outside(h), R[Len(R)], Lower(prog, R, Len(R)))
    BY <1>4, Zenon DEF OutOfFrame
  <1> QED BY <1>2, <1>3, <1>5 DEF Stacked, Topped

\* A push adds a temporary to the frame, or saves the next pinned register.
LEMMA PushStep ==
  ASSUME Generated, StackInv, Push
  PROVE  StackInv'
  <1> DEFINE w == Places(prog)[pc]
  <1>1. Types /\ status = "running" /\ Ins[1] = "push"
    BY DEF Push, At, StackInv
  <1>2. PICK R : Stacked(R)
    BY <1>1 DEF StackInv
  <1>3. Allowed(prog, Ins, w)
    BY <1>1, AtAllowed
  <1>4. /\ stack' = Append(stack, Read(Ins[2])) /\ pc' = pc + 1 /\ prog' = prog /\ args' = args
        /\ flags' = flags /\ status' = status /\ regs' = regs
    BY DEF Push, Advance, Goto
  <1>5. pc' \in Follows(prog, pc)
    BY <1>1, <1>4 DEF Follows, Ins
  <1>6. regs \in [RegNames -> Int] /\ stack \in Seq(Int) /\ Len(stack) \in Nat /\ flags \in Int \X Int
    BY <1>1 DEF Types
  <1>7. ASSUME Read(Ins[2]) \in Int
        PROVE  /\ stack' \in Seq(Int) /\ Len(stack') = Len(stack) + 1
               /\ \A k \in 1..Len(stack) : stack'[k] = stack[k]
               /\ stack'[Len(stack) + 1] = Read(Ins[2])
    BY <1>4, <1>6, <1>7
  <1> HIDE DEF w
  <1>8. CASE w.framed
    <2>1. Readable(prog, Ins[2])
      BY <1>1, <1>3, <1>8 DEF Allowed, Arithmetic, Division
    <2>2. Read(Ins[2]) \in Int
      BY <1>1, <1>2, <1>8, <2>1, ReadWord DEF w
    <2>3. InFrame(prog, stack, regs, w, R[Len(R)], Lower(prog, R, Len(R)))
      BY <1>2, <1>8, Framed DEF Stacked, w
    <2>4. w.above \in Nat /\ w = Inside(w.above)
      BY <2>3 DEF InFrame
    <2>5. After(prog, Ins, w) = Inside(w.above + 1)
      BY <1>1, <2>4, Shifted DEF Inside
    <2>6. Len(stack') = Len(stack) + (w.above + 1) - w.above
      BY <1>6, <1>7, <2>2, <2>4
    <2>7. \A k \in 1..regs["rbp"] : stack'[k] = stack[k]
      <3>1. /\ Len(stack) = Base(prog, R[Len(R)]) + FrameOf(prog) + w.above
            /\ regs["rbp"] = Base(prog, R[Len(R)])
        BY <2>3 DEF InFrame
      <3>2. FrameOf(prog) \in Nat /\ R[Len(R)] \in Nat /\ Len(Pushed(prog)) \in Nat
        BY <1>1, <1>2, Program, Innermost DEF Types, Stacked
      <3>3. Base(prog, R[Len(R)]) \in Nat
        BY <3>2 DEF Base
      <3>4. regs["rbp"] \in Nat /\ Len(stack) = regs["rbp"] + FrameOf(prog) + w.above
        BY <3>1, <3>3, Zenon
      <3>5. \A k \in 1..regs["rbp"] : k \in 1..Len(stack)
        BY <2>4, <3>2, <3>4, InFramePart
      <3> QED BY <1>7, <2>2, <3>5
    <2>8. pc' \in 1..Len(prog.code) /\ Stacked(R)'
      <3>1. w.above + 1 \in Nat
        BY <2>4
      <3> QED BY <1>1, <1>2, <1>4, <1>5, <1>8, <2>4, <2>5, <2>6, <2>7, <3>1, FrameStep DEF w
    <2> QED BY <1>1, <1>4, <1>6, <1>7, <2>2, <2>8, StillRunning
  <1>9. CASE ~w.framed
    <2>1. OutOfFrame(prog, stack, regs, w, R[Len(R)], Lower(prog, R, Len(R)))
      BY <1>2, <1>9, Unframed DEF Stacked, w
    <2>2. w.above < Len(Pushed(prog)) /\ Ins[2] = Reg(Pushed(prog)[w.above + 1])
      BY <1>1, <1>3, <1>9 DEF Allowed, Arithmetic, Division
    <2> DEFINE h == w.above + 1  r == R[Len(R)]
    <2>3. Len(Pushed(prog)) \in Nat /\ w.above \in 0..Len(Pushed(prog))
      BY <1>1, <2>1, Program DEF Types, OutOfFrame
    <2>4. h \in 1..Len(Pushed(prog)) /\ w.above \in Nat
      BY <2>2, <2>3
    <2>5. Pushed(prog)[h] \in Quartet /\ Pushed(prog)[h] \notin {Pushed(prog)[j] : j \in 1..w.above}
      <3>1. ASSUME NEW j \in 1..w.above PROVE Pushed(prog)[h] # Pushed(prog)[j]
        <4>1. j \in 1..Len(Pushed(prog)) /\ j # h
          BY <2>3, <2>4
        <4> QED BY <4>1, <2>4, PushedRegs
      <3> QED BY <3>1, <2>4, PushedRegs
    <2>6. Read(Ins[2]) = CallersRegs[Pushed(prog)[h]]
      <3>1. Read(Ins[2]) = regs[Pushed(prog)[h]]
        BY <2>2 DEF Read, Reg
      <3> QED BY <3>1, <2>1, <2>5 DEF OutOfFrame
    <2>7. Read(Ins[2]) \in Int
      BY <2>5, <2>6 DEF CallersRegs, Quartet, Saved
    <2>8. After(prog, Ins, w) = Outside(h)
      BY <1>1, <2>1, Shifted DEF Outside, OutOfFrame
    <2>9. Len(stack) = r + w.above /\ r \in Nat /\ regs["rbp"] = Lower(prog, R, Len(R))
      BY <1>2, <2>1, Innermost DEF OutOfFrame, Stacked
    <2>10. Len(stack') = r + h /\ \A k \in 1..r : stack'[k] = stack[k]
      <3>1. Len(stack') = Len(stack) + 1 /\ \A k \in 1..Len(stack) : stack'[k] = stack[k]
        BY <1>7, <2>7
      <3>2. Len(stack) = r + w.above
        BY <2>9
      <3> HIDE DEF r
      <3> QED BY <3>1, <3>2, <2>4, <2>9
    <2>11. ASSUME NEW j \in 1..h PROVE stack'[r + j] = CallersRegs[Pushed(prog)[j]]
      <3>1. CASE j = h
        <4>1. r + j = Len(stack) + 1
          BY <3>1, <2>4, <2>9
        <4> QED BY <4>1, <3>1, <1>7, <2>6, <2>7
      <3>2. CASE j # h
        <4>1. j \in 1..w.above /\ r + j \in 1..Len(stack)
          BY <3>2, <2>4, <2>9
        <4> QED BY <4>1, <1>7, <2>1, <2>7 DEF OutOfFrame
      <3> QED BY <3>1, <3>2
    <2>12. \A x \in Quartet \ {Pushed(prog)[j] : j \in 1..h} : regs'[x] = CallersRegs[x]
      <3>1. 1..w.above \subseteq 1..h
        BY <2>4
      <3> QED BY <3>1, <1>4, <2>1 DEF OutOfFrame
    <2>13. pc' \in 1..Len(prog.code) /\ Stacked(R)'
      <3>1. h \in 0..Len(Pushed(prog)) /\ Chained(prog, stack, R)
        BY <1>2, <2>4 DEF Stacked
      <3>2. regs'["rbp"] = Lower(prog, R, Len(R))
        BY <1>4, <2>9
      <3> HIDE DEF h
      <3> QED BY <1>1, <1>4, <1>5, <2>8, <2>10, <2>11, <2>12, <3>1, <3>2, OutsideStep DEF w
    <2> QED BY <1>1, <1>4, <1>6, <1>7, <2>7, <2>13, StillRunning
  <1> QED BY <1>8, <1>9
\* The first words of a sequence.
LEMMA Prefix ==
  ASSUME NEW S, NEW s \in Seq(S), NEW n \in 0..Len(s)
  PROVE  /\ SubSeq(s, 1, n) \in Seq(S) /\ Len(SubSeq(s, 1, n)) = n
         /\ \A k \in 1..n : SubSeq(s, 1, n)[k] = s[k]
  <1>1. n \in Nat /\ \A i \in 1..n : s[i] \in S
    OBVIOUS
  <1>2. /\ SubSeq(s, 1, n) \in Seq(S) /\ Len(SubSeq(s, 1, n)) = IF 1 <= n THEN n - 1 + 1 ELSE 0
        /\ \A i \in 1 .. n - 1 + 1 : SubSeq(s, 1, n)[i] = s[1 + i - 1]
    <2>1. 1 \in Int /\ n \in Int
      BY <1>1
    <2> QED BY <1>1, <2>1, SubSeqProperties
  <1>3. (IF 1 <= n THEN n - 1 + 1 ELSE 0) = n /\ n - 1 + 1 = n
    BY <1>1
  <1>4. ASSUME NEW k \in 1..n PROVE SubSeq(s, 1, n)[k] = s[k]
    <2>1. 1 + k - 1 = k /\ k \in 1 .. n - 1 + 1
      BY <1>1
    <2>2. SubSeq(s, 1, n)[k] = s[1 + k - 1]
      BY <1>2, <2>1
    <2> QED BY <2>1, <2>2
  <1> QED BY <1>2, <1>3, <1>4

\* What the stack is after a word is taken from it.
LEMMA Popped ==
  ASSUME NEW s \in Seq(Int), Len(s) > 0
  PROVE  /\ Last(s) = s[Len(s)] /\ Last(s) \in Int
         /\ Front(s) \in Seq(Int) /\ Len(Front(s)) = Len(s) - 1
         /\ \A k \in 1..Len(s) - 1 : Front(s)[k] = s[k]
  <1>1. Len(s) \in Nat \ {0} /\ Len(s) - 1 \in 0..Len(s)
    OBVIOUS
  <1>2. /\ SubSeq(s, 1, Len(s) - 1) \in Seq(Int) /\ Len(SubSeq(s, 1, Len(s) - 1)) = Len(s) - 1
        /\ \A k \in 1..Len(s) - 1 : SubSeq(s, 1, Len(s) - 1)[k] = s[k]
    BY <1>1, Prefix
  <1>3. s[Len(s)] \in Int
    BY <1>1
  <1> QED BY <1>2, <1>3 DEF Last, Front

\* A pop takes a temporary from the frame, or restores the last pinned register saved.
LEMMA PopStep ==
  ASSUME Generated, StackInv, Pop
  PROVE  StackInv'
  <1> DEFINE w == Places(prog)[pc]
  <1>1. Types /\ status = "running" /\ Ins[1] = "pop"
    BY DEF Pop, At, StackInv
  <1>2. PICK R : Stacked(R)
    BY <1>1 DEF StackInv
  <1>3. Allowed(prog, Ins, w)
    BY <1>1, AtAllowed
  <1>4. /\ regs' = [regs EXCEPT ![Ins[2][2]] = Last(stack)] /\ stack' = Front(stack)
        /\ pc' = pc + 1 /\ prog' = prog /\ args' = args /\ flags' = flags /\ status' = status
    BY DEF Pop, Advance, Goto
  <1>5. pc' \in Follows(prog, pc)
    BY <1>1, <1>4 DEF Follows, Ins
  <1>6. regs \in [RegNames -> Int] /\ stack \in Seq(Int) /\ Len(stack) \in Nat /\ flags \in Int \X Int
    BY <1>1 DEF Types
  <1>7. ASSUME Len(stack) > 0
        PROVE  /\ Last(stack) = stack[Len(stack)] /\ Last(stack) \in Int
               /\ stack' \in Seq(Int) /\ Len(stack') = Len(stack) - 1
               /\ \A k \in 1..Len(stack) - 1 : stack'[k] = stack[k]
               /\ regs' \in [RegNames -> Int]
    <2>1. Last(stack) \in Int
      BY <1>6, <1>7, Popped
    <2>2. regs' \in [RegNames -> Int]
      BY <2>1, <1>4, <1>6
    <2> QED BY <2>2, <1>4, <1>6, <1>7, Popped
  <1>8. R[Len(R)] \in Nat \ {0} /\ FrameOf(prog) \in Nat /\ Len(Pushed(prog)) \in Nat
    BY <1>1, <1>2, Program, Innermost DEF Types, Stacked
  <1> HIDE DEF w
  <1>9. CASE w.framed
    <2>1. w.above > 0 /\ Ins[2][1] = "reg" /\ Writable(prog, Ins[2])
      BY <1>1, <1>3, <1>9 DEF Allowed, Arithmetic, Division
    <2>2. InFrame(prog, stack, regs, w, R[Len(R)], Lower(prog, R, Len(R)))
      BY <1>2, <1>9, Framed DEF Stacked, w
    <2>3. w.above \in Nat \ {0} /\ w = Inside(w.above)
      BY <2>1, <2>2 DEF InFrame
    <2>4. After(prog, Ins, w) = Inside(w.above - 1)
      BY <1>1, <2>3, Shifted DEF Inside
    <2>5. regs["rbp"] \in Nat /\ Len(stack) = regs["rbp"] + FrameOf(prog) + w.above
      <3>1. /\ Len(stack) = Base(prog, R[Len(R)]) + FrameOf(prog) + w.above
            /\ regs["rbp"] = Base(prog, R[Len(R)])
        BY <2>2 DEF InFrame
      <3>2. Base(prog, R[Len(R)]) \in Nat
        BY <1>8 DEF Base
      <3> QED BY <3>1, <3>2, Zenon
    <2>6. Len(stack) > 0
      BY <1>8, <2>3, <2>5
    <2>7. Ins[2][2] # "rbp" /\ \A x \in Quartet \ ToSet(Pushed(prog)) : x # Ins[2][2]
      <3>1. Ins[2] \in {Reg(r) : r \in (RegNames \ Saved) \cup ToSet(Pushed(prog))}
        BY <2>1 DEF Writable, Slot
      <3>2. Ins[2][2] \in (RegNames \ Saved) \cup ToSet(Pushed(prog))
        BY <3>1 DEF Reg
      <3>3. ToSet(Pushed(prog)) \subseteq Quartet
        BY PushedRegs
      <3> QED BY <3>2, <3>3 DEF Quartet, Saved
    <2>8. regs'["rbp"] = regs["rbp"] /\ \A x \in Quartet \ ToSet(Pushed(prog)) : regs'[x] = regs[x]
      <3>1. "rbp" \in RegNames /\ Quartet \subseteq RegNames
        BY DEF RegNames, Saved, Quartet
      <3> QED BY <3>1, <1>4, <1>6, <2>7
    <2>9. /\ Len(stack') = Len(stack) + (w.above - 1) - w.above
          /\ \A k \in 1..regs["rbp"] : stack'[k] = stack[k]
      <3>1. Len(stack') = Len(stack) - 1 /\ \A k \in 1..Len(stack) - 1 : stack'[k] = stack[k]
        BY <1>7, <2>6
      <3>2. \A k \in 1..regs["rbp"] : k \in 1..Len(stack) - 1
        BY <1>8, <2>3, <2>5, BelowTop
      <3>3. Len(stack') = Len(stack) + (w.above - 1) - w.above
        BY <1>7, <2>3, <2>6, <3>1
      <3> QED BY <3>1, <3>2, <3>3, Zenon
    <2>10. pc' \in 1..Len(prog.code) /\ Stacked(R)'
      <3>1. w.above - 1 \in Nat
        BY <2>3
      <3> QED BY <1>1, <1>2, <1>4, <1>5, <1>9, <2>4, <2>8, <2>9, <3>1, FrameStep DEF w
    <2> QED BY <1>1, <1>4, <1>6, <1>7, <2>6, <2>10, StillRunning
  <1>10. CASE ~w.framed
    <2> DEFINE h == w.above  r == R[Len(R)]
    <2>1. OutOfFrame(prog, stack, regs, w, r, Lower(prog, R, Len(R)))
      BY <1>2, <1>10, Unframed DEF Stacked, w
    <2>2. h > 0 /\ Ins[2] = Reg(Pushed(prog)[h])
      BY <1>1, <1>3, <1>10 DEF Allowed, Arithmetic, Division
    <2>3. h \in 1..Len(Pushed(prog)) /\ w = Outside(h)
      <3>1. h \in 0..Len(Pushed(prog)) /\ w = Outside(h)
        BY <2>1 DEF OutOfFrame
      <3> QED BY <3>1, <2>2, <1>8
    <2>4. After(prog, Ins, w) = Outside(h - 1)
      BY <1>1, <2>3, Shifted DEF Outside
    <2>5. Len(stack) = r + h /\ regs["rbp"] = Lower(prog, R, Len(R)) /\ r \in Nat \ {0}
      BY <1>8, <2>1 DEF OutOfFrame
    <2>6. Pushed(prog)[h] \in Quartet /\ Ins[2][2] = Pushed(prog)[h]
      BY <2>2, <2>3, PushedRegs DEF Reg
    <2> HIDE DEF h, r
    <2>7. /\ Last(stack) = stack[r + h] /\ stack' \in Seq(Int) /\ Len(stack') = r + (h - 1)
          /\ \A k \in 1..r + h - 1 : stack'[k] = stack[k]
          /\ regs' \in [RegNames -> Int]
      <3>1. Len(stack) > 0 /\ Len(stack) = r + h
        BY <1>8, <2>3, <2>5
      <3>2. Len(stack') = Len(stack) - 1
        BY <3>1, <1>7
      <3>3. \A k \in 1..Len(stack) - 1 : stack'[k] = stack[k]
        BY <3>1, <1>7
      <3>4. Len(stack') = r + (h - 1) /\ 1..Len(stack) - 1 = 1..r + h - 1
        BY <3>1, <3>2, <1>8, <2>3, <2>5
      <3> QED BY <3>1, <3>3, <3>4, <1>7
    <2>8. stack[r + h] = CallersRegs[Pushed(prog)[h]]
      <3>1. h \in 1..h
        BY <2>3, <1>8
      <3> QED BY <3>1, <2>1 DEF OutOfFrame, h
    <2>9. \A k \in 1..r : stack'[k] = stack[k]
      <3>1. 1..r \subseteq 1..r + h - 1
        BY <1>8, <2>3, <2>5
      <3> QED BY <3>1, <2>7
    <2>10. ASSUME NEW j \in 1..h - 1 PROVE stack'[r + j] = CallersRegs[Pushed(prog)[j]]
      <3>1. r + j \in 1..r + h - 1 /\ j \in 1..h
        BY <1>8, <2>3, <2>5
      <3> QED BY <3>1, <2>1, <2>7 DEF OutOfFrame, h
    <2>11. \A x \in Quartet \ {Pushed(prog)[j] : j \in 1..h - 1} : regs'[x] = CallersRegs[x]
      <3> SUFFICES ASSUME NEW x \in Quartet \ {Pushed(prog)[j] : j \in 1..h - 1}
                   PROVE  regs'[x] = CallersRegs[x]
        OBVIOUS
      <3>1. x \in RegNames
        BY DEF RegNames, Saved, Quartet
      <3>2. CASE x = Pushed(prog)[h]
        BY <3>1, <3>2, <1>4, <1>6, <2>6, <2>7, <2>8
      <3>3. CASE x # Pushed(prog)[h]
        <4>1. x \notin {Pushed(prog)[j] : j \in 1..h}
          <5>1. 1..h \subseteq (1..h - 1) \cup {h}
            BY <2>3, <1>8
          <5> QED BY <5>1, <3>3
        <4>2. regs[x] = CallersRegs[x]
          BY <4>1, <2>1 DEF OutOfFrame, h
        <4> QED BY <3>1, <3>3, <4>2, <1>4, <1>6, <2>6
      <3> QED BY <3>2, <3>3
    <2>12. regs'["rbp"] = Lower(prog, R, Len(R))
      <3>1. "rbp" \in RegNames /\ "rbp" \notin Quartet
        BY DEF RegNames, Saved, Quartet
      <3> QED BY <3>1, <1>4, <1>6, <2>5, <2>6
    <2>13. pc' \in 1..Len(prog.code) /\ Stacked(R)'
      <3>1. h - 1 \in 0..Len(Pushed(prog)) /\ Chained(prog, stack, R)
        BY <1>2, <1>8, <2>3 DEF Stacked
      <3> QED BY <1>1, <1>4, <1>5, <2>4, <2>7, <2>9, <2>10, <2>11, <2>12, <3>1, OutsideStep DEF w, r
    <2> QED BY <1>1, <1>4, <1>6, <2>7, <2>13, StillRunning
  <1> QED BY <1>9, <1>10
-----------------------------------------------------------------------------
\* A word and a frame put on the stack, and what the stack is then.
WithFrame(s, v, f, j) == Append(s, v) \o [k \in 1..f |-> j]

HasFrame(t, s, v, f) ==
  /\ t \in Seq(Int) /\ Len(t) = Len(s) + 1 + f
  /\ \A k \in 1..Len(s) : t[k] = s[k]
  /\ t[Len(s) + 1] = v

\* Putting a frame on the stack does so.
LEMMA Entered ==
  ASSUME NEW s \in Seq(Int), NEW v \in Int, NEW f \in Nat, NEW j \in Int,
         NEW t, t = WithFrame(s, v, f, j)
  PROVE  HasFrame(t, s, v, f)
  <1> DEFINE a == Append(s, v)  z == [k \in 1..f |-> j]
  <1>1. /\ a \in Seq(Int) /\ Len(a) = Len(s) + 1 /\ Len(s) \in Nat
        /\ \A k \in 1..Len(s) : a[k] = s[k]
        /\ a[Len(s) + 1] = v
    BY AppendProperties
  <1>2. z \in Seq(Int) /\ Len(z) = f
    OBVIOUS
  <1>3. t = a \o z
    BY DEF WithFrame
  <1> HIDE DEF a, z
  <1>4. t \in Seq(Int) /\ Len(t) = Len(a) + Len(z) /\ \A k \in 1..Len(a) : t[k] = a[k]
    <2>1. a \o z \in Seq(Int) /\ Len(a \o z) = Len(a) + Len(z)
      BY <1>1, <1>2, ConcatProperties
    <2>2. \A k \in 1..Len(a) + Len(z) : (a \o z)[k] = IF k <= Len(a) THEN a[k] ELSE z[k - Len(a)]
      BY <1>1, <1>2, ConcatProperties
    <2>3. \A k \in 1..Len(a) : k \in 1..Len(a) + Len(z) /\ k <= Len(a)
      BY <1>1, <1>2
    <2> QED BY <1>3, <2>1, <2>2, <2>3, Zenon
  <1>5. 1..Len(s) \subseteq 1..Len(a) /\ Len(s) + 1 \in 1..Len(a)
    BY <1>1
  <1> QED BY <1>1, <1>2, <1>4, <1>5 DEF HasFrame

\* The frame is put on the stack above the saved registers.
LEMMA EnterStep ==
  ASSUME Generated, StackInv, Enter
  PROVE  StackInv'
  <1> DEFINE w == Places(prog)[pc]
  <1>1. Types /\ status = "running" /\ Ins[1] = "enter"
    BY DEF Enter, At, StackInv
  <1>2. PICK R : Stacked(R)
    BY <1>1 DEF StackInv
  <1> DEFINE n == Len(Pushed(prog))  r == R[Len(R)]
  <1>3. Allowed(prog, Ins, w)
    BY <1>1, AtAllowed
  <1>4. w = Outside(n) /\ Ins[2] = FrameOf(prog)
    BY <1>1, <1>3 DEF Allowed, Arithmetic, Division
  <1>5. PICK j \in Junk : stack' = Append(stack, regs["rbp"]) \o [k \in 1..Ins[2] |-> j]
    BY DEF Enter
  <1>6. /\ regs' = [regs EXCEPT !["rbp"] = Len(stack) + 1]
        /\ pc' = pc + 1 /\ prog' = prog /\ args' = args /\ flags' = flags /\ status' = status
    BY DEF Enter, Advance, Goto
  <1>7. regs \in [RegNames -> Int] /\ stack \in Seq(Int) /\ flags \in Int \X Int /\ "rbp" \in RegNames
    BY <1>1 DEF Types, RegNames, Saved
  <1>8. FrameOf(prog) \in Nat /\ n \in Nat /\ r \in Nat \ {0}
    BY <1>1, <1>2, Program, Innermost DEF Types, Stacked
  <1>9. pc' \in 1..Len(prog.code) /\ Places(prog)[pc'] = Inside(0)
    <2>1. pc' \in Follows(prog, pc)
      BY <1>1, <1>6 DEF Follows, Ins
    <2>2. After(prog, Ins, w) = Inside(0)
      BY <1>1 DEF After
    <2> QED BY <1>1, <2>1, <2>2, AtAllowed
  <1> HIDE DEF w, n, r
  <1>10. OutOfFrame(prog, stack, regs, w, r, Lower(prog, R, Len(R)))
    <2>1. ~w.framed
      BY <1>4 DEF Outside
    <2> QED BY <1>2, <2>1, Unframed DEF Stacked, w, r
  <1>11. w.above = n
    BY <1>4 DEF Outside
  <1>12. /\ Len(stack) = r + n /\ regs["rbp"] = Lower(prog, R, Len(R))
         /\ \A i \in 1..n : stack[r + i] = CallersRegs[Pushed(prog)[i]]
         /\ \A x \in Quartet \ ToSet(Pushed(prog)) : regs[x] = CallersRegs[x]
    BY <1>10, <1>11, PushedRegs DEF OutOfFrame, n
  <1>13. /\ stack' \in Seq(Int) /\ Len(stack') = Len(stack) + 1 + FrameOf(prog)
         /\ \A k \in 1..Len(stack) : stack'[k] = stack[k]
         /\ stack'[Len(stack) + 1] = regs["rbp"]
    <2>1. regs["rbp"] \in Int /\ j \in Int
      BY <1>7, WordsAssumption
    <2>2. stack' = WithFrame(stack, regs["rbp"], FrameOf(prog), j)
      BY <1>4, <1>5 DEF WithFrame
    <2>3. stack \in Seq(Int) /\ FrameOf(prog) \in Nat
      BY <1>7, <1>8
    <2> HIDE DEF r
    <2>4. HasFrame(stack', stack, regs["rbp"], FrameOf(prog))
      BY <2>1, <2>2, <2>3, Entered
    <2> QED BY <2>4 DEF HasFrame
  <1>14. regs' \in [RegNames -> Int] /\ regs'["rbp"] = Len(stack) + 1
         /\ \A x \in Quartet : regs'[x] = regs[x]
    <2>1. Len(stack) + 1 \in Int
      BY <1>7
    <2>2. \A x \in Quartet : x # "rbp" /\ x \in RegNames
      BY DEF Quartet, RegNames, Saved
    <2> QED BY <1>6, <1>7, <2>1, <2>2
  <1>15. Base(prog, r) = Len(stack) + 1 /\ Base(prog, r) \in Nat
    BY <1>8, <1>12 DEF Base, n
  <1>16. \A i \in 1..n : r + i \in 1..Len(stack)
    BY <1>8, <1>12
  <1>17. \A k \in 1..r : k \in 1..Len(stack)
    BY <1>8, <1>12
  <1>18. Stacked(R)'
    <2>1. Chained(prog, stack', R)
      <3>1. \A k \in 1..r : stack'[k] = stack[k]
        BY <1>13, <1>17
      <3> QED BY <1>2, <1>8, <3>1, ChainKept DEF Stacked, n, r
    <2>2. Inside(0).above = 0
      BY DEF Inside
    <2>3. Len(stack') = Base(prog, r) + FrameOf(prog) + 0
      BY <1>8, <1>13, <1>15
    <2>4. InFrame(prog, stack', regs', Inside(0), r, Lower(prog, R, Len(R)))
      <3>1. regs'["rbp"] = Base(prog, r) /\ stack'[Base(prog, r)] = Lower(prog, R, Len(R))
        BY <1>12, <1>13, <1>14, <1>15
      <3>2. \A i \in 1..Len(Pushed(prog)) : stack'[r + i] = CallersRegs[Pushed(prog)[i]]
        BY <1>12, <1>13, <1>16 DEF n
      <3>3. \A x \in Quartet \ ToSet(Pushed(prog)) : regs'[x] = CallersRegs[x]
        BY <1>12, <1>14
      <3>4. 0 \in Nat
        OBVIOUS
      <3> QED BY <2>2, <2>3, <3>1, <3>2, <3>3, <3>4 DEF InFrame
    <2> QED BY <1>6, <1>9, <2>1, <2>4 DEF Stacked, Topped, r
  <1> QED BY <1>1, <1>6, <1>7, <1>9, <1>13, <1>14, <1>18, StillRunning

\* Leaving the frame takes it and what is above it from the stack.
LEMMA LeaveStep ==
  ASSUME Generated, StackInv, Leave
  PROVE  StackInv'
  <1> DEFINE w == Places(prog)[pc]
  <1>1. Types /\ status = "running" /\ Ins[1] = "leave"
    BY DEF Leave, At, StackInv
  <1>2. PICK R : Stacked(R)
    BY <1>1 DEF StackInv
  <1> DEFINE n == Len(Pushed(prog))  r == R[Len(R)]
  <1>3. w.framed
    <2>1. Allowed(prog, Ins, w)
      BY <1>1, AtAllowed
    <2> QED BY <1>1, <2>1 DEF Allowed, Arithmetic, Division
  <1>4. /\ regs' = [regs EXCEPT !["rbp"] = stack[regs["rbp"]]]
        /\ stack' = SubSeq(stack, 1, regs["rbp"] - 1)
        /\ pc' = pc + 1 /\ prog' = prog /\ args' = args /\ flags' = flags /\ status' = status
    BY DEF Leave, Advance, Goto
  <1>5. pc' \in Follows(prog, pc) /\ After(prog, Ins, w) = Outside(n)
    BY <1>1, <1>4 DEF Follows, Ins, After
  <1>6. regs \in [RegNames -> Int] /\ stack \in Seq(Int) /\ flags \in Int \X Int /\ "rbp" \in RegNames
    BY <1>1 DEF Types, RegNames, Saved
  <1>7. FrameOf(prog) \in Nat /\ n \in Nat /\ r \in Nat \ {0}
    BY <1>1, <1>2, Program, Innermost DEF Types, Stacked
  <1>8. InFrame(prog, stack, regs, w, r, Lower(prog, R, Len(R)))
    BY <1>2, <1>3, Framed DEF Stacked
  <1> HIDE DEF w, n, r
  <1>9. /\ w.above \in Nat /\ Len(stack) = Base(prog, r) + FrameOf(prog) + w.above
        /\ regs["rbp"] = Base(prog, r) /\ stack[Base(prog, r)] = Lower(prog, R, Len(R))
        /\ \A i \in 1..n : stack[r + i] = CallersRegs[Pushed(prog)[i]]
        /\ \A x \in Quartet \ ToSet(Pushed(prog)) : regs[x] = CallersRegs[x]
    BY <1>8 DEF InFrame, n
  <1>10. Base(prog, r) = r + n + 1 /\ Base(prog, r) \in Nat
    BY <1>7 DEF Base, n
  <1>11. r + n \in 0..Len(stack) /\ Base(prog, r) \in 1..Len(stack) /\ Base(prog, r) - 1 = r + n
    <2> HIDE DEF Base
    <2> QED BY <1>7, <1>9, <1>10
  <1>12. /\ stack' \in Seq(Int) /\ Len(stack') = r + n /\ \A k \in 1..r + n : stack'[k] = stack[k]
    <2>1. stack' = SubSeq(stack, 1, r + n)
      BY <1>4, <1>9, <1>11
    <2> QED BY <1>6, <1>11, <2>1, Prefix
  <1>13. /\ regs' \in [RegNames -> Int] /\ regs'["rbp"] = Lower(prog, R, Len(R))
         /\ \A x \in Quartet : regs'[x] = regs[x]
    <2>1. stack[regs["rbp"]] \in Int
      BY <1>6, <1>9, <1>11
    <2>2. \A x \in Quartet : x # "rbp" /\ x \in RegNames
      BY DEF Quartet, RegNames, Saved
    <2> QED BY <1>4, <1>6, <1>9, <2>1, <2>2
  <1>14. \A k \in 1..r : stack'[k] = stack[k]
    <2>1. \A k \in 1..r : k \in 1..r + n
      BY <1>7
    <2> QED BY <1>12, <2>1
  <1>15. \A i \in 1..n : stack'[r + i] = CallersRegs[Pushed(prog)[i]]
    <2>1. \A i \in 1..n : r + i \in 1..r + n
      BY <1>7
    <2> QED BY <1>9, <1>12, <2>1
  <1>16. \A x \in Quartet \ {Pushed(prog)[j] : j \in 1..n} : regs'[x] = CallersRegs[x]
    BY <1>9, <1>13, PushedRegs DEF n
  <1>17. pc' \in 1..Len(prog.code) /\ Stacked(R)'
    <2>1. n \in 0..Len(Pushed(prog)) /\ Chained(prog, stack, R)
      BY <1>2, <1>7 DEF n, Stacked
    <2> QED BY <1>1, <1>4, <1>5, <1>12, <1>13, <1>14, <1>15, <1>16, <2>1, OutsideStep DEF w, r
  <1> QED BY <1>1, <1>4, <1>6, <1>12, <1>13, <1>17, StillRunning
-----------------------------------------------------------------------------
\* The chain of a call: one more activation, whose return address was pushed, above
\* the temporaries of the frame it was called from.
CallPushes(p, st, st2, R, a, pos, top) ==
  /\ FrameOf(p) \in Nat /\ Len(Pushed(p)) \in Nat /\ ~p.hot
  /\ Chained(p, st, R) /\ st[Base(p, R[Len(R)])] = Lower(p, R, Len(R))
  /\ a \in Nat /\ top = Base(p, R[Len(R)]) + FrameOf(p) + a + 1
  /\ \A k \in 1..top - 1 : st2[k] = st[k]
  /\ st2[top] = pos
  /\ pos \in 2..Len(p.code) /\ p.code[pos - 1][1] = "call" /\ Places(p)[pos] = Inside(a)

\* A call makes the chain longer by one.
LEMMA ChainGrown ==
  ASSUME NEW p, NEW st, NEW st2, NEW R, NEW a, NEW pos, NEW top,
         CallPushes(p, st, st2, R, a, pos, top)
  PROVE  /\ Chained(p, st2, Append(R, top))
         /\ Len(Append(R, top)) = Len(R) + 1 /\ Append(R, top)[Len(R) + 1] = top
         /\ Lower(p, Append(R, top), Len(R) + 1) = Base(p, R[Len(R)])
  <1> DEFINE n == Len(R)  R2 == Append(R, top)  F == FrameOf(p)
  <1>1. /\ R \in Seq(Nat \ {0}) /\ n \in Nat \ {0} /\ R[1] = 1
        /\ st[1] = 0
    BY DEF Chained, CallPushes
  <1>2. \A i, j \in 1..n : i < j => Base(p, R[i]) + F < R[j]
    BY DEF Chained, CallPushes
  <1>3. /\ F \in Nat /\ a \in Nat /\ top = Base(p, R[n]) + F + a + 1
        /\ R2 = Append(R, top) /\ n = Len(R)
    BY DEF CallPushes
  <1>4. Len(Pushed(p)) \in Nat /\ ~p.hot
    BY DEF CallPushes
  <1>5. /\ \A k \in 1..top - 1 : st2[k] = st[k]
        /\ st2[top] = pos
    BY DEF CallPushes
  <1> HIDE DEF n, F, R2
  <1>6. \A i \in 1..n : R[i] \in Nat \ {0} /\ Base(p, R[i]) \in Nat /\ Base(p, R[i]) > R[i]
    <2> SUFFICES ASSUME NEW i \in 1..n
                 PROVE  R[i] \in Nat \ {0} /\ Base(p, R[i]) \in Nat /\ Base(p, R[i]) > R[i]
      OBVIOUS
    <2>1. R[i] \in Nat \ {0}
      BY <1>1, <1>3
    <2> QED BY <2>1, <1>4 DEF Base
  <1>7. n \in 1..n
    BY <1>1
  <1>8. top \in Nat \ {0} /\ top - 1 \in Nat
    BY <1>3, <1>6, <1>7
  <1>9. /\ R2 \in Seq(Nat \ {0}) /\ Len(R2) = n + 1
        /\ \A i \in 1..n : R2[i] = R[i]
        /\ R2[n + 1] = top
    BY <1>1, <1>3, <1>8, AppendProperties
  <1>10. \A i \in 1..n : Base(p, R[i]) + F < top /\ Base(p, R[i]) \in 1..top - 1 /\ R[i] \in 1..top - 1
    <2> SUFFICES ASSUME NEW i \in 1..n
                 PROVE  Base(p, R[i]) + F < top /\ Base(p, R[i]) \in 1..top - 1 /\ R[i] \in 1..top - 1
      OBVIOUS
    <2>1. /\ Base(p, R[i]) \in Nat /\ Base(p, R[i]) > R[i] /\ R[i] \in Nat \ {0}
          /\ Base(p, R[n]) \in Nat /\ Base(p, R[n]) > R[n] /\ R[n] \in Nat
      BY <1>6, <1>7
    <2>2. Base(p, R[i]) + F < top
      <3>1. CASE i = n
        BY <3>1, <2>1, <1>3
      <3>2. CASE i # n
        <4>1. n \in 1..n /\ i < n
          BY <3>2, <1>1
        <4>2. Base(p, R[i]) + F < R[n]
          BY <4>1, <1>2
        <4> QED BY <4>2, <2>1, <1>3
      <3> QED BY <3>1, <3>2
    <2>3. F \in Nat /\ top \in Nat
      BY <1>3, <1>8
    <2>4. \A b, r, f, t \in Nat : r # 0 /\ b > r /\ b + f < t => b \in 1..t - 1 /\ r \in 1..t - 1
      OBVIOUS
    <2>5. Base(p, R[i]) \in 1..top - 1 /\ R[i] \in 1..top - 1
      BY <2>1, <2>2, <2>3, <2>4
    <2> QED BY <2>2, <2>5
  <1>11. st2[1] = 0
    <2>1. 1 \in 1..n
      BY <1>1
    <2>2. 1 \in 1..top - 1
      BY <2>1, <1>1, <1>10
    <2> QED BY <2>2, <1>1, <1>5
  <1>12. \A i, j \in 1..Len(R2) : i < j => Base(p, R2[i]) + F < R2[j]
    <2> SUFFICES ASSUME NEW i \in 1..n + 1, NEW j \in 1..n + 1, i < j
                 PROVE  Base(p, R2[i]) + F < R2[j]
      BY <1>9
    <2>1. i \in 1..n
      BY <1>1
    <2>5. R2[i] = R[i]
      BY <2>1, <1>9
    <2>2. CASE j = n + 1
      BY <2>1, <2>2, <2>5, <1>9, <1>10
    <2>3. CASE j # n + 1
      <3>1. j \in 1..n
        BY <2>3, <1>1
      <3> QED BY <3>1, <2>1, <2>5, <1>2, <1>9
    <2> QED BY <2>2, <2>3
  <1>13. \A i \in 2..Len(R2) : Returns(p, st2[R2[i]], R2[i] - Base(p, R2[i - 1]))
    <2> SUFFICES ASSUME NEW i \in 2..n + 1
                 PROVE  Returns(p, st2[R2[i]], R2[i] - Base(p, R2[i - 1]))
      BY <1>9
    <2>1. i - 1 \in 1..n /\ R2[i - 1] = R[i - 1]
      BY <1>1, <1>9
    <2>2. CASE i = n + 1
      <3>1. R2[i] = top /\ st2[top] = pos /\ i - 1 = n
        BY <2>2, <1>1, <1>9, <1>5
      <3>2. Base(p, R[n]) \in Nat
        BY <1>6, <1>7
      <3>3. top - Base(p, R[n]) - F - 1 = a
        BY <3>2, <1>3
      <3>4. Returns(p, pos, top - Base(p, R[n]))
        <4>1. a \in Nat /\ pos \in 2..Len(p.code) /\ p.code[pos - 1][1] = "call" /\ Places(p)[pos] = Inside(a)
          BY DEF CallPushes
        <4> QED BY <4>1, <3>3, Zenon DEF Returns, F
      <3> QED BY <3>1, <3>4, <2>1
    <2>3. CASE i # n + 1
      <3>1. i \in 2..n /\ i \in 1..n
        BY <2>3, <1>1
      <3>2. R2[i] = R[i] /\ st2[R[i]] = st[R[i]]
        BY <3>1, <1>9, <1>10, <1>5
      <3>3. Returns(p, st[R[i]], R[i] - Base(p, R[i - 1]))
        BY <3>1 DEF Chained, CallPushes, n
      <3> QED BY <3>2, <3>3, <2>1
    <2> QED BY <2>2, <2>3
  <1>14. \A i \in 1..Len(R2) - 1 : st2[Base(p, R2[i])] = Lower(p, R2, i)
    <2> SUFFICES ASSUME NEW i \in 1..n PROVE st2[Base(p, R2[i])] = Lower(p, R2, i)
      <3>1. Len(R2) - 1 = n
        BY <1>1, <1>9
      <3> QED BY <3>1
    <2>1. R2[i] = R[i] /\ st2[Base(p, R[i])] = st[Base(p, R[i])]
      BY <1>9, <1>10, <1>5
    <2>2. Lower(p, R2, i) = Lower(p, R, i)
      <3>1. i = 1 \/ R2[i - 1] = R[i - 1]
        BY <1>1, <1>9
      <3> QED BY <3>1 DEF Lower
    <2>3. st[Base(p, R[i])] = Lower(p, R, i)
      <3>1. i = n \/ i \in 1..n - 1
        BY <1>1
      <3> QED BY <3>1 DEF Chained, CallPushes, n
    <2> QED BY <2>1, <2>2, <2>3
  <1>15. Chained(p, st2, R2)
    <2>1. R2[1] = 1 /\ Len(R2) > 0
      BY <1>1, <1>9
    <2> QED BY <1>4, <1>9, <1>11, <1>12, <1>13, <1>14, <2>1, Zenon DEF Chained, F
  <1>16. Lower(p, R2, n + 1) = Base(p, R[n])
    <2>1. n + 1 # 1 /\ (n + 1) - 1 = n /\ R2[n] = R[n]
      BY <1>1, <1>9
    <2> QED BY <2>1 DEF Lower
  <1> QED BY <1>9, <1>15, <1>16 DEF R2, n
\* The chain after a return to an activation below.
LEMMA ChainCut ==
  ASSUME NEW p, NEW st, NEW R, Chained(p, st, R), Len(R) > 1
  PROVE  /\ Chained(p, st, SubSeq(R, 1, Len(R) - 1))
         /\ Len(SubSeq(R, 1, Len(R) - 1)) = Len(R) - 1
         /\ SubSeq(R, 1, Len(R) - 1)[Len(R) - 1] = R[Len(R) - 1]
         /\ Lower(p, SubSeq(R, 1, Len(R) - 1), Len(R) - 1) = Lower(p, R, Len(R) - 1)
  <1> DEFINE m == Len(R) - 1  R2 == SubSeq(R, 1, m)
  <1>1. R \in Seq(Nat \ {0}) /\ R[1] = 1 /\ st[1] = 0 /\ ~p.hot
    BY DEF Chained
  <1>2. m \in Nat \ {0} /\ m \in 0..Len(R)
    <2>1. Len(R) \in Nat
      BY <1>1
    <2>2. \A n \in Nat : n > 1 => n - 1 \in Nat \ {0} /\ n - 1 \in 0..n
      OBVIOUS
    <2> QED BY <2>1, <2>2
  <1>3. /\ 1..m \subseteq 1..Len(R) /\ 2..m \subseteq 2..Len(R) /\ 1..m - 1 \subseteq 1..Len(R) - 1
        /\ 1 \in 1..m /\ m \in 1..m /\ m > 0
    BY <1>1, <1>2
  <1>4. R2 \in Seq(Nat \ {0}) /\ Len(R2) = m /\ \A k \in 1..m : R2[k] = R[k]
    BY <1>1, <1>2, Prefix
  <1> HIDE DEF R2, m
  <1>5. \A i, j \in 1..Len(R2) : i < j => Base(p, R2[i]) + FrameOf(p) < R2[j]
    <2>1. \A i, j \in 1..Len(R) : i < j => Base(p, R[i]) + FrameOf(p) < R[j]
      BY DEF Chained
    <2> QED BY <2>1, <1>3, <1>4
  <1>6. \A i \in 2..m : i - 1 \in 1..m /\ i \in 1..m
    BY <1>2
  <1>7. \A i \in 2..Len(R2) : Returns(p, st[R2[i]], R2[i] - Base(p, R2[i - 1]))
    <2> SUFFICES ASSUME NEW i \in 2..m PROVE Returns(p, st[R2[i]], R2[i] - Base(p, R2[i - 1]))
      BY <1>4
    <2>1. R2[i] = R[i] /\ R2[i - 1] = R[i - 1] /\ i \in 2..Len(R)
      BY <1>3, <1>4, <1>6
    <2>2. Returns(p, st[R[i]], R[i] - Base(p, R[i - 1]))
      BY <2>1 DEF Chained
    <2> QED BY <2>1, <2>2
  <1>8. \A i \in 1..m : Lower(p, R2, i) = Lower(p, R, i)
    <2> SUFFICES ASSUME NEW i \in 1..m PROVE Lower(p, R2, i) = Lower(p, R, i)
      OBVIOUS
    <2>1. i = 1 \/ R2[i - 1] = R[i - 1]
      <3>1. i = 1 \/ i \in 2..m
        BY <1>2
      <3> QED BY <3>1, <1>4, <1>6
    <2> QED BY <2>1 DEF Lower
  <1>9. \A i \in 1..Len(R2) - 1 : st[Base(p, R2[i])] = Lower(p, R2, i)
    <2> SUFFICES ASSUME NEW i \in 1..m - 1 PROVE st[Base(p, R2[i])] = Lower(p, R2, i)
      BY <1>4
    <2>1. i \in 1..m /\ i \in 1..Len(R) - 1
      BY <1>2, <1>3
    <2>2. st[Base(p, R[i])] = Lower(p, R, i)
      BY <2>1 DEF Chained
    <2> QED BY <2>1, <2>2, <1>4, <1>8
  <1>10. Chained(p, st, R2)
    <2>1. R2[1] = 1 /\ Len(R2) > 0
      BY <1>1, <1>3, <1>4
    <2> QED BY <1>1, <1>4, <1>5, <1>7, <1>9, <2>1, Zenon DEF Chained
  <1> QED BY <1>3, <1>4, <1>8, <1>10 DEF R2, m

\* A call adds an activation to the chain.
LEMMA CallStep ==
  ASSUME Generated, StackInv, Call
  PROVE  StackInv'
  <1> DEFINE w == Places(prog)[pc]
  <1>1. Types /\ status = "running" /\ Ins[1] = "call"
    BY DEF Call, At, StackInv
  <1>2. PICK R : Stacked(R)
    BY <1>1 DEF StackInv
  <1> DEFINE b == Base(prog, R[Len(R)])  top == Len(stack) + 1  R2 == Append(R, top)
  <1>3. w.framed /\ ~prog.hot
    <2>1. Allowed(prog, Ins, w)
      BY <1>1, AtAllowed
    <2> QED BY <1>1, <2>1 DEF Allowed, Arithmetic, Division
  <1>4. /\ stack' = Append(stack, pc + 1) /\ regs' = regs
        /\ pc' = 1 /\ prog' = prog /\ args' = args /\ flags' = flags /\ status' = status
    BY DEF Call, Goto
  <1>5. pc + 1 \in 2..Len(prog.code) /\ prog.code[(pc + 1) - 1][1] = "call" /\ Places(prog)[pc + 1] = w
    <2>1. pc + 1 \in Follows(prog, pc) /\ After(prog, Ins, w) = w
      BY <1>1 DEF Follows, After, Ins
    <2>2. pc + 1 \in 1..Len(prog.code) /\ Places(prog)[pc + 1] = w
      BY <1>1, <2>1, AtAllowed
    <2>3. pc \in Nat \ {0} /\ (pc + 1) - 1 = pc
      BY <1>1 DEF Types
    <2> QED BY <1>1, <2>2, <2>3 DEF Ins
  <1>6. regs \in [RegNames -> Int] /\ stack \in Seq(Int) /\ Len(stack) \in Nat /\ flags \in Int \X Int
    BY <1>1 DEF Types
  <1>7. /\ FrameOf(prog) \in Nat /\ Len(Pushed(prog)) \in Nat /\ 1 \in 1..Len(prog.code)
        /\ Places(prog)[1] = Outside(0) /\ R[Len(R)] \in Nat \ {0}
    BY <1>1, <1>2, Program, Innermost DEF Types, Stacked
  <1>8. InFrame(prog, stack, regs, w, R[Len(R)], Lower(prog, R, Len(R)))
    BY <1>2, <1>3, Framed DEF Stacked
  <1> HIDE DEF w
  <1>9. /\ w.above \in Nat /\ w = Inside(w.above) /\ Len(stack) = b + FrameOf(prog) + w.above
        /\ regs["rbp"] = b /\ stack[b] = Lower(prog, R, Len(R))
        /\ \A x \in Quartet \ ToSet(Pushed(prog)) : regs[x] = CallersRegs[x]
    BY <1>8 DEF InFrame
  <1>10. /\ stack' \in Seq(Int) /\ Len(stack') = top
         /\ \A k \in 1..top - 1 : stack'[k] = stack[k]
         /\ stack'[top] = pc + 1
    <2>1. pc + 1 \in Int /\ top - 1 = Len(stack)
      BY <1>5, <1>6
    <2> QED BY <1>4, <1>6, <2>1, AppendProperties
  <1>11. CallPushes(prog, stack, stack', R, w.above, pc + 1, top)
    <2>1. top = b + FrameOf(prog) + w.above + 1
      <3>1. b \in Nat
        BY <1>7 DEF Base
      <3> HIDE DEF b
      <3> QED BY <1>6, <1>7, <1>9, <3>1
    <2>2. Chained(prog, stack, R)
      BY <1>2 DEF Stacked
    <2> QED BY <1>3, <1>5, <1>7, <1>9, <1>10, <2>1, <2>2, Zenon DEF CallPushes
  <1> HIDE DEF b, top, R2
  <1>12. /\ Chained(prog, stack', R2) /\ Len(R2) = Len(R) + 1 /\ R2[Len(R) + 1] = top
         /\ Lower(prog, R2, Len(R) + 1) = b
    BY <1>11, ChainGrown DEF R2, b
  <1>13. OutOfFrame(prog, stack', regs', Outside(0), top, b)
    <2>1. Outside(0).above = 0 /\ 0 \in 0..Len(Pushed(prog)) /\ 1..0 = {}
      BY <1>7 DEF Outside
    <2>2. Len(stack') = top + 0
      BY <1>6, <1>10 DEF top
    <2>3. ToSet(Pushed(prog)) = {}
      <3>1. Pushed(prog) = <<>>
        BY <1>3 DEF Pushed
      <3> QED BY <3>1 DEF ToSet
    <2>4. \A x \in Quartet : regs'[x] = CallersRegs[x]
      BY <1>4, <1>9, <2>3
    <2> QED BY <1>4, <1>9, <2>1, <2>2, <2>4 DEF OutOfFrame
  <1>14. PICK Q : Q = R2
    OBVIOUS
  <1>15. Stacked(Q)'
    <2>1. Topped(prog, stack', regs', Outside(0), Q)
      BY <1>12, <1>13, <1>14, Zenon DEF Topped
    <2>2. Chained(prog, stack', Q)
      BY <1>12, <1>14, Zenon
    <2> QED BY <1>4, <1>7, <2>1, <2>2 DEF Stacked
  <1>16. pc' \in 1..Len(prog.code) /\ flags' \in Int \X Int /\ regs' \in [RegNames -> Int]
    BY <1>4, <1>6, <1>7
  <1> QED BY <1>1, <1>4, <1>10, <1>16, <1>15, StillRunning
\* A return goes back to the caller, or to the activation below.
LEMMA RetStep ==
  ASSUME Generated, StackInv, Ret
  PROVE  StackInv'
  <1> DEFINE w == Places(prog)[pc]
  <1>1. Types /\ status = "running" /\ Ins[1] = "ret"
    BY DEF Ret, At, StackInv
  <1>2. PICK R : Stacked(R)
    BY <1>1 DEF StackInv
  <1> DEFINE n == Len(R)
  <1>3. w = Outside(0)
    <2>1. Allowed(prog, Ins, w)
      BY <1>1, AtAllowed
    <2> QED BY <1>1, <2>1 DEF Allowed, Arithmetic, Division
  <1>4. /\ stack' = Front(stack) /\ pc' = Last(stack)
        /\ status' = CASE Last(stack) = 0 -> "done"
                       [] Last(stack) \in DOMAIN prog.code -> "running"
                       [] OTHER -> "wild"
        /\ regs' = regs /\ prog' = prog /\ args' = args /\ flags' = flags
    BY DEF Ret
  <1>5. prog \in Programs /\ regs \in [RegNames -> Int] /\ stack \in Seq(Int) /\ flags \in Int \X Int
    BY <1>1 DEF Types
  <1>6. FrameOf(prog) \in Nat /\ DOMAIN prog.code = 1..Len(prog.code) /\ Len(Pushed(prog)) \in Nat
    BY <1>5, Program
  <1>7. R[n] \in Nat \ {0} /\ n \in Nat \ {0} /\ R[1] = 1 /\ Chained(prog, stack, R)
    BY <1>2, Innermost DEF Stacked, Chained
  <1>8. OutOfFrame(prog, stack, regs, w, R[n], Lower(prog, R, n))
    <2>1. ~w.framed
      BY <1>3 DEF Outside
    <2> QED BY <1>2, <2>1, Unframed DEF Stacked
  <1> HIDE DEF w, n
  <1>9. /\ Len(stack) = R[n] /\ regs["rbp"] = Lower(prog, R, n)
        /\ \A x \in Quartet : regs[x] = CallersRegs[x]
    <2>1. w.above = 0
      BY <1>3 DEF Outside
    <2>2. Len(stack) = R[n] + 0 /\ \A x \in Quartet \ {Pushed(prog)[j] : j \in 1..0} : regs[x] = CallersRegs[x]
      BY <1>8, <2>1 DEF OutOfFrame
    <2>3. 1..0 = {}
      OBVIOUS
    <2> QED BY <1>7, <1>8, <2>2, <2>3 DEF OutOfFrame
  <1>10. /\ Last(stack) = stack[R[n]] /\ stack' \in Seq(Int) /\ Len(stack') = R[n] - 1
         /\ \A k \in 1..R[n] - 1 : stack'[k] = stack[k]
    <2>1. Len(stack) > 0
      BY <1>7, <1>9
    <2> QED BY <1>4, <1>5, <1>9, <2>1, Popped
  <1>11. CASE n = 1
    <2>1. Last(stack) = 0
      BY <1>7, <1>10, <1>11 DEF Chained
    <2>2. status' = "done"
      <3>1. 0 \notin DOMAIN prog.code
        BY <1>6
      <3> QED BY <1>4, <2>1, <3>1
    <2>3. Len(stack') = 0
      BY <1>7, <1>10, <1>11
    <2>4. stack' = <<>>
      BY <1>10, <2>3, EmptySeq
    <2>5. \A r \in Saved : regs'[r] = CallersRegs[r]
      BY <1>4, <1>9, <1>11 DEF Lower, Saved, Quartet, CallersRegs
    <2>6. CallerUndisturbed'
      BY <2>2, <2>4, <2>5 DEF CallerUndisturbed
    <2>7. Types'
      BY <1>1, <1>4, <1>10, <2>2 DEF Types
    <2> QED BY <2>2, <2>6, <2>7 DEF StackInv
  <1>12. CASE n # 1
    <2> DEFINE m == n - 1  Q == SubSeq(R, 1, m)  b == Base(prog, R[m])  pos == stack[R[n]]
               a == R[n] - b - FrameOf(prog) - 1
    <2>1. n > 1 /\ m \in 1..n - 1 /\ n \in 2..n /\ m \in Nat \ {0} /\ m \in 1..n /\ m < n /\ n \in 1..n
      BY <1>7, <1>12
    <2>2. Returns(prog, pos, R[n] - b) /\ ~prog.hot /\ stack[b] = Lower(prog, R, m) /\ R[m] \in Nat \ {0}
      <3>1. /\ Len(R) > 1 => ~prog.hot
            /\ \A i \in 2..Len(R) : Returns(prog, stack[R[i]], R[i] - Base(prog, R[i - 1]))
            /\ \A i \in 1..Len(R) - 1 : stack[Base(prog, R[i])] = Lower(prog, R, i)
            /\ R \in Seq(Nat \ {0})
        BY <1>7 DEF Chained
      <3>2. R[m] \in Nat \ {0}
        BY <3>1, <2>1 DEF n
      <3> QED BY <3>1, <3>2, <2>1 DEF n
    <2>3. b + FrameOf(prog) < R[n]
      BY <1>7, <2>1 DEF Chained, n
    <2>4. b \in Nat /\ R[m] < b
      BY <1>6, <2>2 DEF Base
    <2>5. /\ Chained(prog, stack, Q) /\ Len(Q) = m /\ Q[m] = R[m]
          /\ Lower(prog, Q, m) = Lower(prog, R, m)
      BY <1>7, <2>1, ChainCut DEF n
    <2>6. Lower(prog, R, n) = b
      BY <1>12 DEF Lower
    <2>7. a \in Nat /\ pos \in 2..Len(prog.code) /\ Places(prog)[pos] = Inside(a)
      BY <2>2 DEF Returns
    <2>8. status' = "running" /\ pc' = pos /\ pos \in 1..Len(prog.code)
      <3>1. pos # 0 /\ pos \in 1..Len(prog.code)
        BY <2>7
      <3>2. Last(stack) = pos
        BY <1>10
      <3> HIDE DEF pos
      <3> QED BY <1>4, <1>6, <3>1, <3>2
    <2> HIDE DEF m, Q, b, pos, a
    <2>9. Len(stack') = b + FrameOf(prog) + a
      <3>1. a = R[n] - b - FrameOf(prog) - 1
        BY DEF a
      <3> QED BY <1>6, <1>7, <1>10, <2>4, <3>1
    <2>10. /\ \A k \in 1..R[m] : stack'[k] = stack[k]
           /\ stack'[b] = stack[b]
      <3>1. b \in 1..R[n] - 1 /\ \A k \in 1..R[m] : k \in 1..R[n] - 1
        BY <1>6, <1>7, <2>2, <2>3, <2>4
      <3> QED BY <3>1, <1>10
    <2>11. Chained(prog, stack', Q)
      <3>1. \A k \in 1..Q[Len(Q)] : stack'[k] = stack[k]
        BY <2>5, <2>10
      <3> QED BY <1>6, <2>5, <3>1, ChainKept
    <2>12. InFrame(prog, stack', regs', Inside(a), R[m], Lower(prog, R, m))
      <3>1. Inside(a).above = a
        BY DEF Inside
      <3>2. Len(Pushed(prog)) = 0
        BY <2>2, PushedRegs
      <3>3. 1..0 = {}
        OBVIOUS
      <3>4. regs'["rbp"] = b /\ stack'[b] = Lower(prog, R, m)
        BY <1>4, <1>9, <2>2, <2>6, <2>10
      <3>5. \A x \in Quartet \ ToSet(Pushed(prog)) : regs'[x] = CallersRegs[x]
        BY <1>4, <1>9
      <3>6. \A j \in 1..Len(Pushed(prog)) : stack'[R[m] + j] = CallersRegs[Pushed(prog)[j]]
        BY <3>2, <3>3
      <3> QED BY <2>7, <2>9, <3>1, <3>4, <3>5, <3>6, Zenon DEF InFrame, b
    <2>13. PICK P : P = Q
      OBVIOUS
    <2>14. Stacked(P)'
      <3>1. Topped(prog, stack', regs', Inside(a), P)
        BY <2>5, <2>12, <2>13, Zenon DEF Topped
      <3>2. Chained(prog, stack', P)
        BY <2>11, <2>13
      <3>3. Places(prog)[pc'] = Inside(a)
        BY <2>7, <2>8
      <3> QED BY <1>4, <3>1, <3>2, <3>3 DEF Stacked
    <2>15. status' = status /\ flags' \in Int \X Int /\ regs' \in [RegNames -> Int]
      BY <1>1, <1>4, <1>5, <2>8
    <2> QED BY <1>1, <1>4, <1>10, <2>8, <2>14, <2>15, StillRunning
  <1> QED BY <1>11, <1>12
-----------------------------------------------------------------------------
\* Before the first instruction only the return address is on the stack.
LEMMA StackStart ==
  ASSUME Generated, Init
  PROVE  StackInv
  <1>1. /\ prog \in Programs /\ args \in [1..prog.arity -> ArgValues] /\ pc = 1
        /\ status = "running" /\ flags = <<0, 0>> /\ stack = <<0>>
    BY DEF Init
  <1>2. PICK j \in Junk :
          regs = [r \in RegNames |->
            IF r \in Saved THEN CallersRegs[r]
            ELSE LET i == SelectInSeq(ArgRegs, LAMBDA a : a = r)
                 IN IF i \in DOMAIN args THEN args[i] ELSE j]
    BY DEF Init
  <1>3. \A r \in RegNames : r \in Saved => regs[r] = CallersRegs[r]
    BY <1>2
  <1>4. /\ FrameOf(prog) \in Nat /\ Len(Pushed(prog)) \in Nat /\ Places(prog)[1] = Outside(0)
        /\ 1 \in 1..Len(prog.code)
    BY <1>1, Program
  <1>5. regs \in [RegNames -> Int]
    <2>1. \A r \in Saved : CallersRegs[r] \in Int
      BY DEF Saved, CallersRegs
    <2>2. \A i \in DOMAIN args : args[i] \in Int
      BY <1>1, WordsAssumption
    <2>3. j \in Int
      BY WordsAssumption
    <2> QED BY <1>2, <2>1, <2>2, <2>3
  <1>6. Types
    <2>1. stack \in Seq(Int) /\ flags \in Int \X Int
      BY <1>1
    <2> QED BY <1>1, <1>4, <1>5, <2>1 DEF Types
  <1>7. Chained(prog, stack, <<1>>)
    <2>1. Len(<<1>>) = 1 /\ <<1>> \in Seq(Nat \ {0}) /\ <<1>>[1] = 1 /\ stack[1] = 0
      BY <1>1
    <2>2. 2..1 = {} /\ 1..1 - 1 = {} /\ \A i, k \in 1..1 : ~(i < k)
      OBVIOUS
    <2> QED BY <2>1, <2>2 DEF Chained
  <1>8. OutOfFrame(prog, stack, regs, Outside(0), 1, 0)
    <2>1. Outside(0).above = 0 /\ 0 \in 0..Len(Pushed(prog)) /\ 1..0 = {} /\ Len(stack) = 1 + 0
      BY <1>1, <1>4 DEF Outside
    <2>2. regs["rbp"] = 0 /\ \A x \in Quartet : regs[x] = CallersRegs[x]
      BY <1>3 DEF Quartet, RegNames, Saved, CallersRegs
    <2> QED BY <2>1, <2>2 DEF OutOfFrame
  <1>9. Stacked(<<1>>)
    <2>1. Len(<<1>>) = 1 /\ <<1>>[1] = 1 /\ Lower(prog, <<1>>, 1) = 0
      BY DEF Lower
    <2>2. Topped(prog, stack, regs, Outside(0), <<1>>)
      BY <1>8, <2>1, Zenon DEF Topped
    <2> QED BY <1>1, <1>4, <1>7, <2>2 DEF Stacked
  <1>10. CallerUndisturbed
    BY <1>1 DEF CallerUndisturbed
  <1> QED BY <1>6, <1>9, <1>10 DEF StackInv

\* Every step keeps the inductive invariant.
LEMMA StackKept ==
  ASSUME Closed, Generated, StackInv, [Next]_vars
  PROVE  StackInv'
  <1>1. CASE Mov
    BY <1>1, MovStep
  <1>2. CASE Calculate
    BY <1>2, CalculateStep
  <1>3. CASE Neg
    BY <1>3, NegStep
  <1>4. CASE Divide
    BY <1>4, DivideStep
  <1>5. CASE Cmp
    BY <1>5, CmpStep
  <1>6. CASE SetCC
    BY <1>6, SetStep
  <1>7. CASE Branch
    BY <1>7, BranchStep
  <1>8. CASE Push
    BY <1>8, PushStep
  <1>9. CASE Pop
    BY <1>9, PopStep
  <1>10. CASE Enter
    BY <1>10, EnterStep
  <1>11. CASE Leave
    BY <1>11, LeaveStep
  <1>12. CASE Call
    BY <1>12, CallStep
  <1>13. CASE Ret
    BY <1>13, RetStep
  <1>14. CASE UNCHANGED vars
    BY <1>14 DEF vars, StackInv, Types, CallerUndisturbed, Stacked
  <1> QED BY <1>1, <1>2, <1>3, <1>4, <1>5, <1>6, <1>7, <1>8, <1>9, <1>10, <1>11, <1>12, <1>13,
             <1>14 DEF Next

\* The inductive invariant holds throughout.
LEMMA StackThroughout ==
  ASSUME Closed, Generated
  PROVE  Spec => []StackInv
  <1>1. Init => StackInv
    BY StackStart
  <1>2. StackInv /\ [Next]_vars => StackInv'
    BY StackKept
  <1> QED BY <1>1, <1>2, PTL DEF Spec

\* Every state has its type, control stays inside of the code while it runs, and
\* the code that runs is one of the generator's.
THEOREM TypeCorrect ==
  ASSUME Closed, Generated
  PROVE  Spec => []TypeOK
  <1>1. StackInv => TypeOK
    BY Program DEF StackInv, Types, TypeOK
  <1> QED BY <1>1, StackThroughout, PTL

\* Whatever path compiled code takes to its end, through its branches, loops,
\* calls, early returns and tail calls, the caller gets its registers and its stack
\* back and control returns to it and nowhere else.
THEOREM CallerSafe ==
  ASSUME Closed, Generated
  PROVE  Spec => []CallerUndisturbed
  <1>1. StackInv => CallerUndisturbed
    BY DEF StackInv
  <1> QED BY <1>1, StackThroughout, PTL

\* Code without a call instruction, as that of a function whose only calls of
\* itself are in return statements, keeps to one frame.
THEOREM TailCallsInOneFrame ==
  ASSUME Closed, Generated
  PROVE  Spec => []TailCallsFlat
  <1>1. ASSUME StackInv PROVE TailCallsFlat
    <2> SUFFICES ASSUME \A k \in DOMAIN prog.code : prog.code[k][1] # "call"
                 PROVE  regs["rbp"] \in {CallersRegs["rbp"], IF prog.hot THEN 6 ELSE 2}
      BY DEF TailCallsFlat
    <2>1. Types /\ CallerUndisturbed
      BY <1>1 DEF StackInv
    <2>2. CASE status \in {"done", "wild"}
      BY <2>1, <2>2 DEF CallerUndisturbed, Saved
    <2>3. CASE status \in {"running", "failed"}
      <3>1. PICK R : Stacked(R)
        BY <1>1, <2>3 DEF StackInv
      <3>2. Chained(prog, stack, R)
        BY <3>1 DEF Stacked
      <3>3. DOMAIN prog.code = 1..Len(prog.code) /\ Len(prog.code) \in Nat
        BY <2>1, Program DEF Types
      <3>4. Len(R) = 1
        <4>1. Len(R) \in Nat \ {0}
          BY <3>2, Innermost
        <4> SUFFICES ASSUME Len(R) # 1 PROVE FALSE
          OBVIOUS
        <4>2. 2 \in 2..Len(R)
          <5>1. \A n \in Nat \ {0} : n # 1 => 2 \in 2..n
            OBVIOUS
          <5> QED BY <4>1, <5>1
        <4>3. Returns(prog, stack[R[2]], R[2] - Base(prog, R[2 - 1]))
          BY <3>2, <4>2 DEF Chained
        <4> DEFINE q == stack[R[2]]
        <4>4. q \in 2..Len(prog.code) /\ prog.code[q - 1][1] = "call"
          BY <4>3 DEF Returns
        <4> HIDE DEF q
        <4>5. q - 1 \in DOMAIN prog.code
          BY <3>3, <4>4
        <4> QED BY <4>4, <4>5
      <3>5. R[Len(R)] = 1 /\ Lower(prog, R, Len(R)) = 0
        BY <3>2, <3>4 DEF Chained, Lower
      <3>6. regs["rbp"] = 0 \/ regs["rbp"] = Base(prog, 1)
        BY <3>1, <3>5 DEF Stacked, Topped, InFrame, OutOfFrame
      <3>7. Base(prog, 1) = IF prog.hot THEN 6 ELSE 2
        <4>1. CASE prog.hot
          <5>1. Pushed(prog) = HotRegs
            BY <4>1 DEF Pushed
          <5>2. Len(HotRegs) = 4
            BY DEF HotRegs
          <5>3. Len(Pushed(prog)) = 4
            BY <5>1, <5>2
          <5> QED BY <4>1, <5>3 DEF Base
        <4>2. CASE ~prog.hot
          <5>1. Len(Pushed(prog)) = 0
            BY <4>2, PushedRegs
          <5> QED BY <4>2, <5>1 DEF Base
        <4> QED BY <4>1, <4>2
      <3> QED BY <3>6, <3>7 DEF CallersRegs, Saved
    <2> QED BY <2>1, <2>2, <2>3 DEF Types
  <1> QED BY <1>1, StackThroughout, PTL
-----------------------------------------------------------------------------
\* A pinned local is mirrored in rax wherever every way control comes makes it so.
Mirrors ==
  status = "running" =>
    \A r \in ToSet(HotRegs) :
      Mirrored(prog, pc, r) \/ MirroredNear(prog, pc, r) => regs["rax"] = regs[r]

\* Control goes on at a position that follows, or it comes back from a call.
LEMMA GoesOn ==
  ASSUME StackInv, Next, status' = "running"
  PROVE  /\ prog' = prog /\ status = "running" /\ pc \in 1..Len(prog.code)
         /\ pc' \in Follows(prog, pc) \/ Call \/ Ret
  <1>1. status = "running" /\ pc \in 1..Len(prog.code)
    BY DEF Next, At, Mov, Calculate, Neg, Divide, Cmp, SetCC, Branch, Push, Pop, Enter,
                Leave, Call, Ret,
           StackInv, Types
  <1>2. ASSUME Ins[1] \notin {"jump", "ret"}, pc' = pc + 1
        PROVE  pc' \in Follows(prog, pc)
    BY <1>2 DEF Follows, Ins
  <1>3. CASE Mov
    BY <1>1, <1>2, <1>3 DEF Mov, At, Advance, Goto
  <1>4. CASE Calculate
    BY <1>1, <1>2, <1>4 DEF Calculate, Arithmetic, Advance, Goto
  <1>5. CASE Neg
    BY <1>1, <1>2, <1>5 DEF Neg, At, Advance, Goto
  <1>6. CASE Divide
    <2>1. Ins[1] \in Division /\ Advance
      BY <1>6 DEF Divide
    <2> QED BY <1>1, <1>2, <2>1 DEF Division, Advance, Goto
  <1>7. CASE Cmp
    BY <1>1, <1>2, <1>7 DEF Cmp, At
  <1>8. CASE SetCC
    BY <1>1, <1>2, <1>8 DEF SetCC, At, Advance, Goto
  <1>9. CASE Branch
    BY <1>1, <1>9 DEF Branch, At, Goto, Follows, Ins
  <1>10. CASE Push
    <2>1. Ins[1] = "push" /\ Advance
      BY <1>10 DEF Push, At
    <2> QED BY <1>1, <1>2, <2>1 DEF Advance, Goto
  <1>11. CASE Pop
    <2>1. Ins[1] = "pop" /\ Advance
      BY <1>11 DEF Pop, At
    <2> QED BY <1>1, <1>2, <2>1 DEF Advance, Goto
  <1>12. CASE Enter
    <2>1. Ins[1] = "enter" /\ Advance
      BY <1>12 DEF Enter, At
    <2> QED BY <1>1, <1>2, <2>1 DEF Advance, Goto
  <1>13. CASE Leave
    <2>1. Ins[1] = "leave" /\ Advance
      BY <1>13 DEF Leave, At
    <2> QED BY <1>1, <1>2, <2>1 DEF Advance, Goto
  <1>14. CASE Call
    BY <1>1, <1>14 DEF Call, Goto
  <1>15. CASE Ret
    BY <1>1, <1>15 DEF Ret
  <1> QED BY <1>3, <1>4, <1>5, <1>6, <1>7, <1>8, <1>9, <1>10, <1>11, <1>12, <1>13, <1>14,
             <1>15 DEF Next
\* A move between the two makes rax the value of the register.
LEMMA Equated ==
  ASSUME StackInv, Next, status = "running", NEW r \in Quartet, Equates(Ins, r)
  PROVE  regs'["rax"] = regs'[r]
  <1>1. /\ Ins[1] = "mov" /\ Ins \in {<<"mov", Reg(r), RAX>>, <<"mov", RAX, Reg(r)>>}
    BY DEF Equates
  <1>2. Write(Ins[2], Read(Ins[3]))
    BY <1>1 DEF Next, At, Mov, Calculate, Neg, Divide, Cmp, SetCC, Branch, Push, Pop, Enter,
                Leave, Call, Ret,
                Arithmetic, Division
  <1>3. regs \in [RegNames -> Int] /\ r \in RegNames /\ "rax" \in RegNames /\ r # "rax"
    BY DEF StackInv, Types, RegNames, Saved, Quartet
  <1>4. CASE Ins = <<"mov", Reg(r), RAX>>
    <2>1. Ins[2] = Reg(r) /\ Ins[3] = RAX
      BY <1>4
    <2>2. regs' = [regs EXCEPT ![r] = regs["rax"]]
      BY <1>2, <2>1 DEF Write, Read, Reg, RAX
    <2> QED BY <1>3, <2>2
  <1>5. CASE Ins = <<"mov", RAX, Reg(r)>>
    <2>1. Ins[2] = RAX /\ Ins[3] = Reg(r)
      BY <1>5
    <2>2. regs' = [regs EXCEPT !["rax"] = regs[r]]
      BY <1>2, <2>1 DEF Write, Read, Reg, RAX
    <2> QED BY <1>3, <2>2
  <1> QED BY <1>1, <1>4, <1>5

\* After a step that changes neither register, what they held stays.
LEMMA Passed ==
  ASSUME Next, Passes(Ins)
  PROVE  regs' = regs
  <1>1. Ins[1] \in {"cmp", "jump", "push"}
    BY DEF Passes
  <1>2. Cmp \/ Branch \/ Push
    BY <1>1 DEF Next, At, Mov, Calculate, Neg, Divide, Cmp, SetCC, Branch, Push, Pop, Enter,
                Leave, Call, Ret,
                Arithmetic, Division
  <1> QED BY <1>2 DEF Cmp, Branch, Push

\* Control comes back from a call behind one.
LEMMA ComesBack ==
  ASSUME Generated, StackInv, Ret, status' = "running"
  PROVE  pc' \in 2..Len(prog.code) /\ prog.code[pc' - 1][1] = "call"
  <1>1. Types /\ status = "running" /\ Ins[1] = "ret" /\ pc' = Last(stack)
    BY DEF Ret, At, StackInv
  <1>2. PICK R : Stacked(R)
    BY <1>1 DEF StackInv
  <1>3. Places(prog)[pc] = Outside(0)
    <2>1. Allowed(prog, Ins, Places(prog)[pc])
      BY <1>1, AtAllowed
    <2> QED BY <1>1, <2>1 DEF Allowed, Arithmetic, Division
  <1>4. ~Places(prog)[pc].framed /\ Places(prog)[pc].above = 0
    BY <1>3 DEF Outside
  <1>5. /\ R \in Seq(Nat \ {0}) /\ Len(R) \in Nat \ {0} /\ R[Len(R)] \in Nat \ {0}
        /\ Chained(prog, stack, R)
    BY <1>2, Innermost DEF Stacked
  <1>6. Len(stack) = R[Len(R)] + 0
    BY <1>2, <1>4, Unframed DEF Stacked, OutOfFrame
  <1>7. pc' = stack[R[Len(R)]]
    <2>1. pc' = stack[Len(stack)]
      BY <1>1 DEF Last
    <2> QED BY <1>5, <1>6, <2>1
  <1>8. Len(R) # 1
    <2> SUFFICES ASSUME Len(R) = 1 PROVE FALSE
      OBVIOUS
    <2>1. Last(stack) = 0
      BY <1>1, <1>5, <1>7 DEF Chained
    <2>2. 0 \notin DOMAIN prog.code
      <3>1. DOMAIN prog.code = 1..Len(prog.code) /\ Len(prog.code) \in Nat
        BY <1>1, Program DEF Types
      <3> QED BY <3>1
    <2> QED BY <2>1, <2>2 DEF Ret
  <1>9. Len(R) \in 2..Len(R)
    <2>1. \A n \in Nat \ {0} : n # 1 => n \in 2..n
      OBVIOUS
    <2> QED BY <1>5, <1>8, <2>1
  <1>10. Returns(prog, stack[R[Len(R)]], R[Len(R)] - Base(prog, R[Len(R) - 1]))
    BY <1>5, <1>9 DEF Chained
  <1> QED BY <1>7, <1>10 DEF Returns

\* Every step keeps the mirrors.
LEMMA MirrorsKept ==
  ASSUME Generated, StackInv, Mirrors, [Next]_vars
  PROVE  Mirrors'
  <1>1. CASE UNCHANGED vars
    BY <1>1 DEF vars, Mirrors
  <1>2. CASE Next
    <2> SUFFICES ASSUME status' = "running", NEW r \in ToSet(HotRegs),
                        (Mirrored(prog, pc, r) \/ MirroredNear(prog, pc, r))'
                 PROVE  regs'["rax"] = regs'[r]
      BY DEF Mirrors
    <2>1. /\ prog' = prog /\ status = "running" /\ pc \in 1..Len(prog.code)
          /\ pc' \in Follows(prog, pc) \/ Call \/ Ret
      BY <1>2, GoesOn
    <2>2. /\ pc' # 1
          /\ \A j \in Ways(prog, pc') : \/ Equates(prog.code[j], r)
                                        \/ Passes(prog.code[j]) /\ Mirrored(prog, j, r)
      BY <2>1 DEF Mirrored, MirroredNear
    <2>3. r \in Quartet
      BY DEF ToSet, HotRegs, Quartet
    <2>4. CASE pc' \in Follows(prog, pc)
      <3>1. pc \in Ways(prog, pc')
        BY <2>1, <2>4 DEF Ways
      <3>2. CASE Equates(Ins, r)
        BY <1>2, <2>1, <2>3, <3>2, Equated
      <3>3. CASE Passes(Ins) /\ Mirrored(prog, pc, r)
        <4>1. regs["rax"] = regs[r]
          BY <2>1, <3>3 DEF Mirrors
        <4> QED BY <1>2, <3>3, <4>1, Passed
      <3> QED BY <2>2, <3>1, <3>2, <3>3 DEF Ins
    <2>5. CASE Call
      BY <2>2, <2>5 DEF Call, Goto
    <2>6. CASE Ret
      <3>1. pc' \in 2..Len(prog.code) /\ prog.code[pc' - 1][1] = "call"
        BY <2>6, ComesBack
      <3>2. pc' - 1 \in 1..Len(prog.code) /\ (pc' - 1) + 1 = pc'
        <4>1. \A n \in Nat : \A k \in 2..n : k - 1 \in 1..n /\ (k - 1) + 1 = k
          OBVIOUS
        <4>2. Len(prog.code) \in Nat
          BY Program DEF StackInv, Types
        <4> QED BY <3>1, <4>1, <4>2
      <3>3. pc' - 1 \in Ways(prog, pc')
        BY <3>1, <3>2 DEF Ways, Follows
      <3>4. ~Passes(prog.code[pc' - 1]) /\ ~Equates(prog.code[pc' - 1], r)
        BY <3>1 DEF Passes, Equates
      <3> QED BY <2>2, <3>3, <3>4
    <2> QED BY <2>1, <2>4, <2>5, <2>6
  <1> QED BY <1>1, <1>2

\* Where the reload of a pinned local was left out, rax holds the local's value:
\* for all code in which none was left out at the top of a loop, and for code with
\* one there as far as the jumps back keep the registers equal.
THEOREM ReloadsMatch ==
  ASSUME Closed, Generated,
         \A p \in Programs : ReloadAtLoopTop(p) => ReloadsCovered(p)
  PROVE  Spec => []SkippedReloadsMatch
  <1>1. Init => Mirrors
    <2> SUFFICES ASSUME Init PROVE Mirrors
      OBVIOUS
    <2>1. pc = 1
      BY DEF Init
    <2> QED BY <2>1 DEF Mirrors, Mirrored, MirroredNear
  <1>2. StackInv /\ Mirrors /\ [Next]_vars => Mirrors'
    BY MirrorsKept
  <1>3. StackInv /\ Mirrors => SkippedReloadsMatch
    <2> SUFFICES ASSUME StackInv, Mirrors, NEW skip \in prog.skips, status = "running", pc = skip.at
                 PROVE  regs["rax"] = regs[skip.reg]
      BY DEF SkippedReloadsMatch
    <2>1. skip.reg \in ToSet(HotRegs) /\ MirroredNear(prog, skip.at, skip.reg)
      <3>1. prog \in Programs /\ Disciplined(prog)
        BY Program DEF StackInv, Types
      <3>2. ReloadsCovered(prog)
        BY <3>1 DEF Disciplined
      <3> QED BY <3>2 DEF ReloadsCovered
    <2> QED BY <2>1 DEF Mirrors
  <1> QED BY <1>1, <1>2, <1>3, StackThroughout, PTL DEF Spec
=============================================================================
