------------------------------- MODULE Unwind -------------------------------
(***************************************************************************)
(* The run-time error machinery of a compiled aricode program, at the      *)
(* level of the registers it uses.  A try block records the stack position *)
(* in r12 and r13, the address of its catch part in r14 and sets r15; an   *)
(* error tests r15 and either jumps through them or ends the thread.  The  *)
(* same four registers hold the integer locals of hot functions (bodies    *)
(* that call no user function and no unlisted builtin), which push the     *)
(* caller's values on entry and pop them on return.                        *)
(*                                                                         *)
(* The program is any sequence of the constructs below.  Forms names the   *)
(* constructs beyond the ones the single register quartet supports:        *)
(*   "nested"   a try block entered while another one of the thread is open *)
(*   "escape"   return, break or continue out of an open try block         *)
(*   "hotfault" a run-time error inside a hot function                     *)
(*   "falloff"  a hot function that ends without a return statement        *)
(*   "spawn"    thread_spawn inside an open try block: the started thread  *)
(*              keeps its parent's quartet                                 *)
(*   "bounds"   a failed index check of arr_get, arr_set or str_char_at    *)
(*              inside an open try block                                   *)
(***************************************************************************)
EXTENDS Naturals, Sequences

CONSTANTS Threads, Main, Codes, MaxFrames, MaxSerial,
          UserVals,    \* what integer locals hold
          PinCounts,   \* how many locals a hot function pins
          Forms        \* the constructs the program uses, see above

AllForms == {"nested", "escape", "hotfault", "falloff", "spawn", "bounds"}

ASSUME ConstantsAssumption ==
  /\ Main \in Threads
  /\ Codes \subseteq Nat
  /\ UserVals \subseteq Nat /\ PinCounts \subseteq 0..4
  /\ MaxFrames \in Nat /\ MaxSerial \in Nat
  /\ Forms \subseteq AllForms

VARIABLES status,      \* status[t]: unborn, running, exited, or wild once
                       \* it runs on a stack that is not its own
          exitCode,    \* exitCode[t]: low byte of the status an error or
                       \* thread_exit passed to exit, 0 without one
          stack,       \* stack[t]: activation records, outermost first
          regs,        \* regs[t]: r12..r15
          serial,      \* the next unused number (names activations, tries)
          catches      \* catches[n]: how often try block n was caught into

vars == <<status, exitCode, stack, regs, serial, catches>>

\* A machine word: a number, a stack position or a code position.  The
\* activation number in a stack position is not in the machine word; it says
\* whose frame the address meant when it was taken.
Int(n)             == [kind |-> "int", val |-> n]
StackPos(t, d, a)  == [kind |-> "stack", thread |-> t, depth |-> d, act |-> a]
CodePos(bs)        == [kind |-> "code", at |-> bs]

Parts  == {"try", "catch"}
Block  == [id : Nat, part : Parts]
Word   == [kind : {"int"}, val : Nat]
            \cup [kind : {"stack"}, thread : Threads, depth : Nat, act : Nat]
            \cup [kind : {"code"}, at : Seq(Block)]
Quartet  == 12..15
RegFile  == [Quartet -> Word]
ZeroRegs == [r \in Quartet |-> Int(0)]

\* An activation: its blocks, and for a hot function the pushed quartet and
\* the number of locals it keeps in r12, r13, ...
Frame == [act : Nat, hot : BOOLEAN, saved : RegFile, pins : 0..4,
          blocks : Seq(Block)]

\* Mutant: the prologue pushes only the registers it is going to pin.
HotFrame_pushPinned(n, q, k) ==
  [act |-> n, hot |-> TRUE, saved |-> [r \in 12..(11 + k) |-> q[r]],
   pins |-> k, blocks |-> <<>>]

ColdFrame(n)       == [act |-> n, hot |-> FALSE, saved |-> ZeroRegs,
                       pins |-> 0, blocks |-> <<>>]
HotFrame(n, q, k)  == [act |-> n, hot |-> TRUE, saved |-> q,
                       pins |-> k, blocks |-> <<>>]

\* The language's view of the stack.
Visible(f) == [act |-> f.act, blocks |-> f.blocks]
frames == [t \in Threads |->
             [d \in 1..Len(stack[t]) |-> Visible(stack[t][d])]]
Lang == INSTANCE Handlers WITH status <- status, exitCode <- exitCode,
                               frames <- frames, serial <- serial

Top(t)     == stack[t][Len(stack[t])]
Pop(s)     == SubSeq(s, 1, Len(s) - 1)
Running(t) == status[t] = "running"
Cold(t)    == Running(t) /\ ~Top(t).hot
Uses(form) == form \in Forms

\* No activation of the stack s is inside a try block.
NoTry(s) ==
  \A d \in 1..Len(s) : \A j \in 1..Len(s[d].blocks) :
    s[d].blocks[j].part # "try"

NoOpenTry(t) == NoTry(stack[t])

\* None of the blocks from position k on is an open try.
NoTryFrom(bs, k) == \A j \in k..Len(bs) : bs[j].part # "try"
-----------------------------------------------------------------------------
Init ==
  /\ status = [t \in Threads |-> IF t = Main THEN "running" ELSE "unborn"]
  /\ exitCode = [t \in Threads |-> 0]
  /\ stack = [t \in Threads |-> IF t = Main THEN <<ColdFrame(0)>> ELSE <<>>]
  /\ regs = [t \in Threads |-> ZeroRegs]
  /\ serial = 1
  /\ catches = [n \in 0..MaxSerial |-> 0]

Fresh == serial < MaxSerial /\ serial' = serial + 1

CallCold(t) ==
  /\ Cold(t)
  /\ Len(stack[t]) < MaxFrames /\ Fresh
  /\ stack' = [stack EXCEPT ![t] = Append(@, ColdFrame(serial))]
  /\ UNCHANGED <<status, exitCode, regs, catches>>

\* Prologue of a hot function: push r12..r15, push rbp; k locals are pinned.
CallHot(t, k) ==
  /\ Cold(t)
  /\ Len(stack[t]) < MaxFrames /\ Fresh
  /\ stack' = [stack EXCEPT ![t] = Append(@, HotFrame(serial, regs[t], k))]
  /\ UNCHANGED <<status, exitCode, regs, catches>>

\* A parameter, declaration or assignment of a pinned local.
StorePinned(t, r, v) ==
  /\ Running(t) /\ Top(t).hot
  /\ r \in 12..(11 + Top(t).pins)
  /\ regs' = [regs EXCEPT ![t][r] = Int(v)]
  /\ UNCHANGED <<status, exitCode, stack, serial, catches>>

\* Mutant: a hot function's return leaves its locals in the quartet.
Return_noRestore(t) ==
  /\ Running(t)
  /\ NoTryFrom(Top(t).blocks, 1) \/ Uses("escape")
  /\ stack' = [stack EXCEPT ![t] = Pop(@)]
  /\ status' = [status EXCEPT ![t] =
                  IF Len(stack[t]) = 1 THEN "exited" ELSE @]
  /\ UNCHANGED <<exitCode, regs, serial, catches>>

Return(t) ==
  /\ Running(t)
  /\ NoTryFrom(Top(t).blocks, 1) \/ Uses("escape")
  /\ stack' = [stack EXCEPT ![t] = Pop(@)]
  /\ regs' = [regs EXCEPT ![t] = IF Top(t).hot THEN Top(t).saved ELSE @]
  /\ status' = [status EXCEPT ![t] =
                  IF Len(stack[t]) = 1 THEN "exited" ELSE @]
  /\ UNCHANGED <<exitCode, serial, catches>>

\* The epilogue a hot function without a final return gets: rbp is popped,
\* the quartet is not, and ret takes the pushed r15 for the return address.
FallOffHot(t) ==
  /\ Running(t) /\ Top(t).hot /\ Uses("falloff")
  /\ status' = [status EXCEPT ![t] = "wild"]
  /\ UNCHANGED <<exitCode, stack, regs, serial, catches>>

\* return f(...) inside f: the frame is torn down and f entered by a jump.
TailCall(t) ==
  /\ Cold(t)
  /\ NoTryFrom(Top(t).blocks, 1) \/ Uses("escape")
  /\ Fresh
  /\ stack' = [stack EXCEPT ![t] = Append(Pop(@), ColdFrame(serial))]
  /\ UNCHANGED <<status, exitCode, regs, catches>>
-----------------------------------------------------------------------------
SetTopBlocks(t, bs) ==
  stack' = [stack EXCEPT ![t] = Append(Pop(@), [Top(t) EXCEPT !.blocks = bs])]

\* mov r12, rsp; mov r13, rbp; mov r14, catch part; mov r15, 1.
HandlerRegs(here, catch) ==
  [r \in Quartet |-> CASE r = 12 -> here
                       [] r = 13 -> here
                       [] r = 14 -> CodePos(catch)
                       [] r = 15 -> Int(1)]

\* Mutant: an inner try block keeps the quartet of the outer one.
EnterTry_keepOuter(t) ==
  /\ Cold(t)
  /\ NoOpenTry(t) \/ Uses("nested")
  /\ Fresh
  /\ LET here  == StackPos(t, Len(stack[t]), Top(t).act)
         catch == Append(Top(t).blocks, [id |-> serial, part |-> "catch"])
     IN regs' = IF regs[t][15] = Int(1) THEN regs
                  ELSE [regs EXCEPT ![t] = HandlerRegs(here, catch)]
  /\ SetTopBlocks(t, Append(Top(t).blocks, [id |-> serial, part |-> "try"]))
  /\ UNCHANGED <<status, exitCode, catches>>

EnterTry(t) ==
  /\ Cold(t)
  /\ NoOpenTry(t) \/ Uses("nested")
  /\ Fresh
  /\ LET here  == StackPos(t, Len(stack[t]), Top(t).act)
         catch == Append(Top(t).blocks, [id |-> serial, part |-> "catch"])
     IN regs' = [regs EXCEPT ![t] = HandlerRegs(here, catch)]
  /\ SetTopBlocks(t, Append(Top(t).blocks, [id |-> serial, part |-> "try"]))
  /\ UNCHANGED <<status, exitCode, catches>>

\* Mutant: the end of a try block leaves it armed.
LeaveBlock_keepArmed(t) ==
  /\ Cold(t) /\ Top(t).blocks # <<>>
  /\ SetTopBlocks(t, Pop(Top(t).blocks))
  /\ UNCHANGED <<status, exitCode, regs, serial, catches>>

\* The end of a try block clears r15, the end of a catch block nothing.
LeaveBlock(t) ==
  /\ Cold(t) /\ Top(t).blocks # <<>>
  /\ SetTopBlocks(t, Pop(Top(t).blocks))
  /\ regs' = IF Top(t).blocks[Len(Top(t).blocks)].part = "try"
               THEN [regs EXCEPT ![t][15] = Int(0)]
               ELSE regs
  /\ UNCHANGED <<status, exitCode, serial, catches>>

\* break and continue jump out of blocks without touching the quartet.
JumpOut(t, keep) ==
  /\ Cold(t) /\ keep < Len(Top(t).blocks)
  /\ NoTryFrom(Top(t).blocks, keep + 1) \/ Uses("escape")
  /\ SetTopBlocks(t, SubSeq(Top(t).blocks, 1, keep))
  /\ UNCHANGED <<status, exitCode, regs, serial, catches>>
-----------------------------------------------------------------------------
Exit(t, c) ==
  /\ status' = [status EXCEPT ![t] = "exited"]
  /\ exitCode' = [exitCode EXCEPT ![t] = c % 256]
  /\ UNCHANGED <<stack, regs, serial, catches>>

\* The quartet of t addresses an activation that t still runs.
Resumable(t) ==
  LET sp == regs[t][12]
      pc == regs[t][14]
  IN /\ sp = regs[t][13] /\ sp.kind = "stack" /\ pc.kind = "code"
     /\ sp.thread = t
     /\ sp.depth \in 1..Len(stack[t])
     /\ stack[t][sp.depth].act = sp.act

\* Mutant: the catch part starts without clearing r15.
Resume_keepArmed(t) ==
  LET d  == regs[t][12].depth
      bs == regs[t][14].at
      n  == bs[Len(bs)].id
  IN /\ stack' = [stack EXCEPT ![t] =
                    Append(SubSeq(@, 1, d - 1), [@[d] EXCEPT !.blocks = bs])]
     /\ catches' = [catches EXCEPT ![n] = @ + 1]
     /\ UNCHANGED <<status, exitCode, regs, serial>>

\* mov rsp, r12; mov rbp, r13; jmp r14; at the catch part: r15 := 0.
Resume(t) ==
  LET d  == regs[t][12].depth
      bs == regs[t][14].at
      n  == bs[Len(bs)].id
  IN /\ stack' = [stack EXCEPT ![t] =
                    Append(SubSeq(@, 1, d - 1), [@[d] EXCEPT !.blocks = bs])]
     /\ regs' = [regs EXCEPT ![t][15] = Int(0)]
     /\ catches' = [catches EXCEPT ![n] = @ + 1]
     /\ UNCHANGED <<status, exitCode, serial>>

\* A quartet that is not resumable: its r14 may still lead to a catch part,
\* which t enters on a dead frame or on the stack of the thread that started
\* it; or r14 holds a local's value.  What t does from there is not followed.
GoWild(t) ==
  LET pc == regs[t][14]
      n  == pc.at[Len(pc.at)].id
  IN /\ status' = [status EXCEPT ![t] = "wild"]
     /\ catches' = IF pc.kind = "code" THEN [catches EXCEPT ![n] = @ + 1]
                                       ELSE catches
     /\ UNCHANGED <<exitCode, stack, regs, serial>>

Unwind(t) == IF Resumable(t) THEN Resume(t) ELSE GoWild(t)

\* test r15, r15; jz exit.
Dispatch(t, c) == IF regs[t][15] = Int(0) THEN Exit(t, c) ELSE Unwind(t)

\* error.raise(c, ...); a function that raises is never hot.
Raise(t, c) == Cold(t) /\ Dispatch(t, c)

\* Division by zero, and the index checks that share emit_runtime_error.
RuntimeError(t) ==
  /\ Running(t)
  /\ ~Top(t).hot \/ Uses("hotfault")
  /\ Dispatch(t, 1)

\* The index checks of arr_get, arr_set and str_char_at end the thread.
BoundsError(t) ==
  /\ Running(t)
  /\ NoOpenTry(t) \/ Uses("bounds")
  /\ Exit(t, 1)

ThreadExit(t, c) == Cold(t) /\ Exit(t, c)

\* clone: the child calls its worker, hot or not, on a stack of its own and
\* with its parent's registers.
WorkerFrames(t) ==
  {ColdFrame(serial)} \cup {HotFrame(serial, regs[t], k) : k \in PinCounts}

ThreadSpawn(t, u) ==
  /\ Cold(t) /\ status[u] = "unborn"
  /\ NoOpenTry(t) \/ Uses("spawn")
  /\ Fresh
  /\ status' = [status EXCEPT ![u] = "running"]
  /\ \E f \in WorkerFrames(t) : stack' = [stack EXCEPT ![u] = <<f>>]
  /\ regs' = [regs EXCEPT ![u] = regs[t]]
  /\ UNCHANGED <<exitCode, catches>>

Next ==
  \E t \in Threads :
    \/ CallCold(t) \/ Return(t) \/ FallOffHot(t) \/ TailCall(t)
    \/ \E k \in PinCounts : CallHot(t, k)
    \/ \E r \in Quartet, v \in UserVals : StorePinned(t, r, v)
    \/ EnterTry(t) \/ LeaveBlock(t)
    \/ \E keep \in 0..MaxSerial : JumpOut(t, keep)
    \/ RuntimeError(t) \/ BoundsError(t)
    \/ \E c \in Codes : Raise(t, c) \/ ThreadExit(t, c)
    \/ \E u \in Threads : ThreadSpawn(t, u)

Spec == Init /\ [][Next]_vars
-----------------------------------------------------------------------------
\* Every variable has its type.
TypeOK ==
  /\ status \in [Threads -> {"unborn", "running", "exited", "wild"}]
  /\ exitCode \in [Threads -> 0..255]
  /\ stack \in [Threads -> Seq(Frame)]
  /\ regs \in [Threads -> RegFile]
  /\ serial \in Nat
  /\ catches \in [0..MaxSerial -> Nat]

\* The quartet as the innermost cold activation sees it.
LiveRegs(t) == IF Top(t).hot THEN Top(t).saved ELSE regs[t]

\* q is the quartet EnterTry wrote for try block j of activation d of s.
Armed(t, s, d, j, q) ==
  /\ q[12] = StackPos(t, d, s[d].act) /\ q[13] = q[12]
  /\ q[14] = CodePos(Append(SubSeq(s[d].blocks, 1, j - 1),
                            [id |-> s[d].blocks[j].id, part |-> "catch"]))
  /\ q[15] = Int(1)

\* Try block j of activation d is the only open one of the stack s.
OnlyTry(s, d, j) ==
  \A e \in 1..Len(s) : \A k \in 1..Len(s[e].blocks) :
    s[e].blocks[k].part = "try" <=> (e = d /\ k = j)

Fits(t, s, q) ==
  \/ NoTry(s) /\ q[15] = Int(0)
  \/ \E d \in 1..Len(s) : \E j \in 1..Len(s[d].blocks) :
       OnlyTry(s, d, j) /\ Armed(t, s, d, j, q)

\* In a program of the supported constructs the quartet (or the copy a hot
\* function saved) is at every moment the open try block's, whatever calls,
\* returns, hot functions, tail calls, caught errors and threads came before:
\* r15 is clear when no try block is open, else r12..r14 lead to its catch.
HandlerIsOpenTry ==
  \A t \in Threads : Running(t) => Fits(t, stack[t], LiveRegs(t))

\* No error jumps through a stale or foreign quartet, and no function returns
\* through a pushed register: the control never leaves the program's code.
NeverWild == \A t \in Threads : status[t] # "wild"

\* A program of the supported constructs follows the language's error rules.
LanguageRules == Lang!HandlersSpec

\* What an error is allowed to do under the language rules, at the step where
\* the code raises it: by error.raise, by emit_runtime_error, by an index
\* check.
ErrorsFollowRules ==
  [][\A t \in Threads :
       /\ RuntimeError(t) => Lang!Error(t, 1)
       /\ BoundsError(t) => Lang!Error(t, 1)
       /\ \A c \in Codes : Raise(t, c) => Lang!Error(t, c)]_vars

\* In a program that nests try blocks, has functions that fall off their end
\* and index checks that fail inside try blocks: an error that does not end
\* its thread is caught by the innermost open try block of that thread, as the
\* language has it.  It never enters an outer or a left try block's catch part,
\* another activation's, or another thread's (test r15 and jmp r14).
NoWrongCatch ==
  [][\A t \in Threads :
       /\ RuntimeError(t) /\ status'[t] # "exited" => Lang!Error(t, 1)
       /\ \A c \in Codes :
            Raise(t, c) /\ status'[t] # "exited" => Lang!Error(t, c)]_vars

\* In such a program one execution of a try block enters its catch part at
\* most once, even if the catch part raises again.  Not so with "hotfault",
\* nor with threads and "spawn" or "escape": a thread started with its
\* parent's armed quartet enters the parent's catch part a second time.
CatchOnce == \A n \in 0..MaxSerial : catches[n] <= 1
=============================================================================
