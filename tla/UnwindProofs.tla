---------------------------- MODULE UnwindProofs ----------------------------
(***************************************************************************)
(* Proofs about Unwind, for every set of threads, every bound and every    *)
(* set of error codes and local values.                                    *)
(***************************************************************************)
EXTENDS Unwind, TLAPS

\* A running thread has an activation.
HasFrame == \A t \in Threads : Running(t) => stack[t] # <<>>

TInv == TypeOK /\ HasFrame

\* A prefix of a sequence.
LEMMA PrefixSeq ==
  ASSUME NEW S, NEW s \in Seq(S), NEW k \in 0..Len(s)
  PROVE  /\ SubSeq(s, 1, k) \in Seq(S)
         /\ Len(SubSeq(s, 1, k)) = k
         /\ \A i \in 1..k : SubSeq(s, 1, k)[i] = s[i]
  OBVIOUS

\* A sequence without its last element.
LEMMA PopSeq ==
  ASSUME NEW S, NEW s \in Seq(S), s # <<>>
  PROVE  /\ Pop(s) \in Seq(S)
         /\ Len(Pop(s)) = Len(s) - 1
         /\ \A i \in 1..(Len(s) - 1) : Pop(s)[i] = s[i]
         /\ Len(s) \in 1..Len(s) /\ s[Len(s)] \in S
  <1>1. Len(s) \in Nat /\ Len(s) # 0
    OBVIOUS
  <1>2. Len(s) - 1 \in 0..Len(s) /\ Len(s) \in 1..Len(s)
    BY <1>1
  <1>3. s[Len(s)] \in S
    BY <1>2
  <1> QED BY <1>2, <1>3, PrefixSeq DEF Pop

\* A sequence with one element more.
LEMMA AppendSeq ==
  ASSUME NEW S, NEW s \in Seq(S), NEW e \in S
  PROVE  /\ Append(s, e) \in Seq(S)
         /\ Len(Append(s, e)) = Len(s) + 1
         /\ \A i \in 1..Len(s) : Append(s, e)[i] = s[i]
         /\ Append(s, e)[Len(s) + 1] = e
  OBVIOUS

\* New activations are activations.
LEMMA FrameTypes ==
  ASSUME NEW n \in Nat, NEW q \in RegFile, NEW k \in 0..4
  PROVE  ColdFrame(n) \in Frame /\ HotFrame(n, q, k) \in Frame
  <1>1. Int(0) \in Word
    BY DEF Int, Word
  <1>2. ZeroRegs \in RegFile
    BY <1>1 DEF ZeroRegs, RegFile
  <1>3. <<>> \in Seq(Block)
    OBVIOUS
  <1>4. 0 \in 0..4
    OBVIOUS
  <1> QED BY <1>2, <1>3, <1>4 DEF ColdFrame, HotFrame, Frame
-----------------------------------------------------------------------------
(***************************************************************************)
(* Type correctness                                                        *)
(***************************************************************************)
LEMMA SetTopType ==
  ASSUME TInv, NEW t \in Threads, Running(t), NEW bs \in Seq(Block),
         SetTopBlocks(t, bs)
  PROVE  /\ stack' \in [Threads -> Seq(Frame)]
         /\ stack'[t] = Append(Pop(stack[t]), [Top(t) EXCEPT !.blocks = bs])
         /\ stack'[t] # <<>>
         /\ \A u \in Threads \ {t} : stack'[u] = stack[u]
  <1> DEFINE f == [Top(t) EXCEPT !.blocks = bs]
  <1>1. stack \in [Threads -> Seq(Frame)] /\ stack[t] \in Seq(Frame)
        /\ stack[t] # <<>>
    BY DEF TInv, TypeOK, HasFrame
  <1>2. Pop(stack[t]) \in Seq(Frame) /\ Top(t) \in Frame
    BY <1>1, PopSeq DEF Top
  <1>3. f \in Frame
    BY <1>2 DEF Frame
  <1>4. /\ Append(Pop(stack[t]), f) \in Seq(Frame)
        /\ Append(Pop(stack[t]), f) # <<>>
    BY <1>2, <1>3
  <1>5. stack' = [stack EXCEPT ![t] = Append(Pop(stack[t]), f)]
    BY DEF SetTopBlocks
  <1> HIDE DEF f
  <1>6. /\ stack' \in [Threads -> Seq(Frame)]
        /\ stack'[t] = Append(Pop(stack[t]), f)
        /\ \A u \in Threads \ {t} : stack'[u] = stack[u]
    BY <1>1, <1>4, <1>5
  <1> QED BY <1>4, <1>6 DEF f

\* Ending a thread keeps the types.
LEMMA ExitType ==
  ASSUME TInv, NEW t \in Threads, NEW c \in Nat, Exit(t, c)
  PROVE  TInv'
  <1>1. c % 256 \in 0..255
    OBVIOUS
  <1> QED BY <1>1 DEF TInv, TypeOK, HasFrame, Running, Exit

\* Counting keeps the type of a counter.
LEMMA CountType ==
  ASSUME NEW S, NEW f \in [S -> Nat], NEW n
  PROVE  [f EXCEPT ![n] = @ + 1] \in [S -> Nat]
  <1>1. CASE n \in S
    <2>1. f[n] + 1 \in Nat
      BY <1>1
    <2> QED BY <2>1
  <1>2. CASE n \notin S
    BY <1>2
  <1> QED BY <1>1, <1>2

\* Jumping to the quartet keeps the types.
LEMMA UnwindType ==
  ASSUME TInv, NEW t \in Threads, Running(t), Unwind(t)
  PROVE  TInv'
  <1>1. CASE ~Resumable(t)
    <2> DEFINE n == regs[t][14].at[Len(regs[t][14].at)].id
    <2>1. /\ status' = [status EXCEPT ![t] = "wild"]
          /\ UNCHANGED <<exitCode, stack, regs, serial>>
          /\ catches' \in {catches, [catches EXCEPT ![n] = @ + 1]}
      BY <1>1 DEF Unwind, GoWild
    <2> HIDE DEF n
    <2>c. catches' \in [0..MaxSerial -> Nat]
      <3>1. catches \in [0..MaxSerial -> Nat]
        BY DEF TInv, TypeOK
      <3> QED BY <2>1, <3>1, CountType
    <2>2. TypeOK'
      BY <2>1, <2>c DEF TInv, TypeOK
    <2>3. ASSUME NEW u \in Threads, Running(u)' PROVE stack'[u] # <<>>
      <3>1. status[u] = "running"
        BY <2>1, <2>3 DEF Running, TInv, TypeOK
      <3> QED BY <2>1, <3>1 DEF Running, TInv, HasFrame
    <2> QED BY <2>2, <2>3 DEF TInv, HasFrame
  <1>2. CASE Resumable(t)
    <2> DEFINE d  == regs[t][12].depth
               bs == regs[t][14].at
               f  == [stack[t][d] EXCEPT !.blocks = bs]
               s  == Append(SubSeq(stack[t], 1, d - 1), f)
    <2>1. Resume(t)
      BY <1>2 DEF Unwind
    <2>2. regs[t] \in RegFile /\ stack[t] \in Seq(Frame)
      BY DEF TInv, TypeOK
    <2>3. d \in 1..Len(stack[t]) /\ bs \in Seq(Block)
      BY <1>2, <2>2 DEF Resumable, RegFile, Quartet, Word
    <2>4. stack[t][d] \in Frame /\ d - 1 \in 0..Len(stack[t])
      BY <2>2, <2>3
    <2>5. f \in Frame
      BY <2>3, <2>4 DEF Frame
    <2>6. SubSeq(stack[t], 1, d - 1) \in Seq(Frame)
      BY <2>2, <2>4, PrefixSeq
    <2>7. s \in Seq(Frame) /\ s # <<>>
      BY <2>5, <2>6
    <2>8. /\ stack' = [stack EXCEPT ![t] = s]
          /\ regs' = [regs EXCEPT ![t] = [regs[t] EXCEPT ![15] = Int(0)]]
          /\ UNCHANGED <<status, exitCode, serial>>
      BY <2>1 DEF Resume
    <2>9. catches' \in [0..MaxSerial -> Nat]
      <3>1. catches' = [catches EXCEPT ![bs[Len(bs)].id] = @ + 1]
        BY <2>1 DEF Resume
      <3>2. catches \in [0..MaxSerial -> Nat]
        BY DEF TInv, TypeOK
      <3> HIDE DEF bs
      <3> QED BY <3>1, <3>2, CountType
    <2>10. [regs[t] EXCEPT ![15] = Int(0)] \in RegFile
      BY <2>2 DEF RegFile, Int, Word
    <2> HIDE DEF s
    <2>11. TypeOK'
      BY <2>7, <2>8, <2>9, <2>10 DEF TInv, TypeOK
    <2>12. HasFrame'
      BY <2>7, <2>8 DEF TInv, TypeOK, HasFrame, Running
    <2> QED BY <2>11, <2>12 DEF TInv
  <1> QED BY <1>1, <1>2

\* So does an error, caught or not.
LEMMA DispatchType ==
  ASSUME TInv, NEW t \in Threads, Running(t), NEW c \in Nat, Dispatch(t, c)
  PROVE  TInv'
  BY ExitType, UnwindType DEF Dispatch

\* So does a call.
LEMMA PushType ==
  ASSUME TInv, NEW t \in Threads, Running(t), NEW f \in Frame, Fresh,
         stack' = [stack EXCEPT ![t] = Append(@, f)],
         UNCHANGED <<status, exitCode, regs, catches>>
  PROVE  TInv'
  <1>1. stack \in [Threads -> Seq(Frame)] /\ stack[t] \in Seq(Frame)
    BY DEF TInv, TypeOK
  <1>2. Append(stack[t], f) \in Seq(Frame) /\ Append(stack[t], f) # <<>>
    BY <1>1
  <1>3. TypeOK'
    BY <1>1, <1>2 DEF TInv, TypeOK, Fresh
  <1>4. HasFrame'
    BY <1>1, <1>2 DEF TInv, HasFrame, Running
  <1> QED BY <1>3, <1>4 DEF TInv

\* So does a return.
LEMMA ReturnType ==
  ASSUME TInv, NEW t \in Threads, Return(t)
  PROVE  TInv'
  <1>1. /\ stack \in [Threads -> Seq(Frame)] /\ stack[t] \in Seq(Frame)
        /\ stack[t] # <<>> /\ regs \in [Threads -> RegFile]
    BY DEF TInv, TypeOK, HasFrame, Return
  <1>2. /\ Pop(stack[t]) \in Seq(Frame) /\ Top(t) \in Frame
        /\ Len(Pop(stack[t])) = Len(stack[t]) - 1
    BY <1>1, PopSeq DEF Top
  <1>3. (IF Top(t).hot THEN Top(t).saved ELSE regs[t]) \in RegFile
    BY <1>1, <1>2 DEF Frame
  <1>4. /\ stack' = [stack EXCEPT ![t] = Pop(stack[t])]
        /\ regs' \in [Threads -> RegFile]
        /\ UNCHANGED <<exitCode, serial, catches>>
    BY <1>1, <1>3 DEF Return
  <1>5. TypeOK'
    <2>1. stack' \in [Threads -> Seq(Frame)]
      BY <1>1, <1>2, <1>4
    <2>2. status' \in [Threads -> {"unborn", "running", "exited", "wild"}]
      BY DEF TInv, TypeOK, Return
    <2> QED BY <1>4, <2>1, <2>2 DEF TInv, TypeOK
  <1>6. ASSUME NEW u \in Threads, Running(u)'
        PROVE  stack'[u] # <<>>
    <2>1. CASE u = t
      <3>1. Len(stack[t]) # 1
        BY <1>1, <1>6, <2>1 DEF Return, Running, TInv, TypeOK
      <3>2. Len(Pop(stack[t])) # 0
        BY <1>1, <1>2, <3>1
      <3> QED BY <1>1, <1>4, <2>1, <3>2
    <2>2. CASE u # t
      BY <1>1, <1>4, <1>6, <2>2 DEF Return, Running, TInv, TypeOK, HasFrame
    <2> QED BY <2>1, <2>2
  <1> QED BY <1>5, <1>6 DEF TInv, HasFrame

\* So does a self tail call.
LEMMA TailCallType ==
  ASSUME TInv, NEW t \in Threads, TailCall(t)
  PROVE  TInv'
  <1>1. /\ stack \in [Threads -> Seq(Frame)] /\ stack[t] \in Seq(Frame)
        /\ stack[t] # <<>> /\ serial \in Nat
    BY DEF TInv, TypeOK, HasFrame, TailCall, Cold
  <1>2. Pop(stack[t]) \in Seq(Frame) /\ ColdFrame(serial) \in Frame
    <2>1. ZeroRegs \in RegFile
      BY DEF ZeroRegs, RegFile, Int, Word
    <2> QED BY <1>1, <2>1, PopSeq, FrameTypes
  <1> DEFINE s == Append(Pop(stack[t]), ColdFrame(serial))
  <1>3. s \in Seq(Frame) /\ s # <<>>
    BY <1>2
  <1>4. stack' = [stack EXCEPT ![t] = s]
    BY DEF TailCall
  <1> HIDE DEF s
  <1>5. TypeOK'
    <2>1. stack' \in [Threads -> Seq(Frame)]
      BY <1>1, <1>3, <1>4
    <2>2. serial' = serial + 1 /\ UNCHANGED <<status, exitCode, regs, catches>>
      BY DEF TailCall, Fresh
    <2>3. serial' \in Nat
      BY <1>1, <2>2
    <2> QED BY <2>1, <2>2, <2>3 DEF TInv, TypeOK
  <1>6. HasFrame'
    BY <1>1, <1>3, <1>4 DEF TInv, HasFrame, TailCall, Running
  <1> QED BY <1>5, <1>6 DEF TInv

\* So does the start of a thread.
LEMMA SpawnType ==
  ASSUME TInv, NEW t \in Threads, NEW u \in Threads, ThreadSpawn(t, u)
  PROVE  TInv'
  <1>1. /\ stack \in [Threads -> Seq(Frame)] /\ regs \in [Threads -> RegFile]
        /\ serial \in Nat
    BY DEF TInv, TypeOK
  <1>2. PICK f \in WorkerFrames(t) : stack' = [stack EXCEPT ![u] = <<f>>]
    BY DEF ThreadSpawn
  <1>3. f \in Frame
    <2>1. ZeroRegs \in RegFile /\ 0 \in 0..4
      BY DEF ZeroRegs, RegFile, Int, Word
    <2>2. \A k \in PinCounts : k \in 0..4
      BY ConstantsAssumption
    <2> QED BY <1>1, <2>1, <2>2, FrameTypes DEF WorkerFrames
  <1>4. <<f>> \in Seq(Frame) /\ <<f>> # <<>>
    BY <1>3
  <1>5. TypeOK'
    <2>1. /\ stack' \in [Threads -> Seq(Frame)]
          /\ regs' = [regs EXCEPT ![u] = regs[t]]
          /\ status' = [status EXCEPT ![u] = "running"]
          /\ serial' = serial + 1
          /\ UNCHANGED <<exitCode, catches>>
      BY <1>1, <1>2, <1>4 DEF ThreadSpawn, Fresh
    <2>2. regs' \in [Threads -> RegFile]
      BY <1>1, <2>1
    <2> QED BY <1>1, <2>1, <2>2 DEF TInv, TypeOK
  <1>6. HasFrame'
    BY <1>1, <1>2, <1>4 DEF TInv, HasFrame, ThreadSpawn, Running, TypeOK
  <1> QED BY <1>5, <1>6 DEF TInv

\* The types are inductive.
LEMMA TypeStep == TInv /\ [Next]_vars => TInv'
  <1> SUFFICES ASSUME TInv, [Next]_vars PROVE TInv'
    OBVIOUS
  <1>0. CASE UNCHANGED vars
    BY <1>0 DEF vars, TInv, TypeOK, HasFrame, Running
  <1>1. SUFFICES ASSUME NEW t \in Threads,
            \/ CallCold(t) \/ Return(t) \/ FallOffHot(t) \/ TailCall(t)
            \/ \E k \in PinCounts : CallHot(t, k)
            \/ \E r \in Quartet, v \in UserVals : StorePinned(t, r, v)
            \/ EnterTry(t) \/ LeaveBlock(t)
            \/ \E keep \in 0..MaxSerial : JumpOut(t, keep)
            \/ RuntimeError(t) \/ BoundsError(t)
            \/ \E c \in Codes : Raise(t, c) \/ ThreadExit(t, c)
            \/ \E u \in Threads : ThreadSpawn(t, u)
        PROVE TInv'
    BY <1>0 DEF Next
  <1> DEFINE bs == Top(t).blocks
  <1>2. /\ stack \in [Threads -> Seq(Frame)] /\ stack[t] \in Seq(Frame)
        /\ regs \in [Threads -> RegFile] /\ regs[t] \in RegFile
        /\ serial \in Nat
    BY DEF TInv, TypeOK
  <1>3. ASSUME Running(t)
        PROVE  Top(t) \in Frame /\ bs \in Seq(Block)
    <2>1. stack[t] # <<>>
      BY <1>3 DEF TInv, HasFrame
    <2>2. Top(t) \in Frame
      BY <1>2, <2>1, PopSeq DEF Top
    <2> QED BY <2>2 DEF Frame
  <1>4. CASE CallCold(t)
    <2>1. ZeroRegs \in RegFile /\ 0 \in 0..4
      BY DEF ZeroRegs, RegFile, Int, Word
    <2> QED BY <1>2, <1>4, <2>1, FrameTypes, PushType DEF CallCold, Cold
  <1>5. CASE Return(t)
    BY <1>5, ReturnType
  <1>6. CASE FallOffHot(t)
    BY <1>6 DEF FallOffHot, TInv, TypeOK, HasFrame, Running
  <1>7. CASE TailCall(t)
    BY <1>7, TailCallType
  <1>8. ASSUME NEW k \in PinCounts, CallHot(t, k) PROVE TInv'
    <2>1. k \in 0..4
      BY ConstantsAssumption
    <2> QED BY <1>2, <1>8, <2>1, FrameTypes, PushType DEF CallHot, Cold
  <1>9. ASSUME NEW r \in Quartet, NEW v \in UserVals, StorePinned(t, r, v)
        PROVE  TInv'
    <2>1. Int(v) \in Word
      BY ConstantsAssumption DEF Int, Word
    <2>2. [regs[t] EXCEPT ![r] = Int(v)] \in RegFile
      BY <1>2, <2>1 DEF RegFile
    <2>3. regs' = [regs EXCEPT ![t] = [regs[t] EXCEPT ![r] = Int(v)]]
      BY <1>9 DEF StorePinned
    <2>4. regs' \in [Threads -> RegFile]
      BY <1>2, <2>2, <2>3
    <2> QED BY <1>9, <2>4
            DEF StorePinned, TInv, TypeOK, HasFrame, Running
  <1>10. CASE EnterTry(t)
    <2> DEFINE q == [r \in Quartet |->
                 CASE r = 12 -> StackPos(t, Len(stack[t]), Top(t).act)
                   [] r = 13 -> StackPos(t, Len(stack[t]), Top(t).act)
                   [] r = 14 -> CodePos(Append(bs, [id |-> serial,
                                                    part |-> "catch"]))
                   [] r = 15 -> Int(1)]
               top == Append(bs, [id |-> serial, part |-> "try"])
    <2>1. Running(t) /\ Fresh
      BY <1>10 DEF EnterTry, Cold
    <2>2. bs \in Seq(Block) /\ Top(t).act \in Nat /\ Len(stack[t]) \in Nat
      BY <1>2, <1>3, <2>1 DEF Frame
    <2>3. /\ top \in Seq(Block)
          /\ Append(bs, [id |-> serial, part |-> "catch"]) \in Seq(Block)
      BY <1>2, <2>2 DEF Block, Parts
    <2>4. q \in RegFile
      <3>1. StackPos(t, Len(stack[t]), Top(t).act) \in Word
        BY <2>2 DEF StackPos, Word
      <3>2. CodePos(Append(bs, [id |-> serial, part |-> "catch"])) \in Word
        BY <2>3 DEF CodePos, Word
      <3>3. Int(1) \in Word
        BY DEF Int, Word
      <3> QED BY <3>1, <3>2, <3>3 DEF RegFile, Quartet
    <2>5. SetTopBlocks(t, top) /\ UNCHANGED <<status, exitCode, catches>>
      BY <1>10 DEF EnterTry
    <2>6. regs' = [regs EXCEPT ![t] = q]
      BY <1>10 DEF EnterTry, HandlerRegs
    <2> HIDE DEF q, top
    <2>7. regs' \in [Threads -> RegFile]
      BY <1>2, <2>4, <2>6
    <2>8. /\ stack' \in [Threads -> Seq(Frame)]
          /\ stack'[t] # <<>>
          /\ \A u \in Threads \ {t} : stack'[u] = stack[u]
      BY <2>1, <2>3, <2>5, SetTopType
    <2>9. TypeOK'
      <3>1. serial' \in Nat
        BY <1>2, <2>1 DEF Fresh
      <3> QED BY <2>5, <2>7, <2>8, <3>1 DEF TInv, TypeOK
    <2>10. HasFrame'
      BY <2>5, <2>8 DEF TInv, HasFrame, Running
    <2> QED BY <2>9, <2>10 DEF TInv
  <1>11. CASE LeaveBlock(t)
    <2>1. /\ Running(t) /\ bs # <<>> /\ SetTopBlocks(t, Pop(bs))
          /\ UNCHANGED <<status, exitCode, serial, catches>>
      BY <1>11 DEF LeaveBlock, Cold
    <2>2. Pop(bs) \in Seq(Block)
      BY <1>3, <2>1, PopSeq
    <2>3. [regs[t] EXCEPT ![15] = Int(0)] \in RegFile
      BY <1>2 DEF RegFile, Int, Word
    <2>4. regs' \in [Threads -> RegFile]
      BY <1>2, <1>11, <2>3 DEF LeaveBlock
    <2> QED BY <2>1, <2>2, <2>4, SetTopType
            DEF TInv, TypeOK, HasFrame, Running
  <1>12. ASSUME NEW keep \in 0..MaxSerial, JumpOut(t, keep) PROVE TInv'
    <2>1. /\ Running(t) /\ SetTopBlocks(t, SubSeq(bs, 1, keep))
          /\ keep < Len(bs)
          /\ UNCHANGED <<status, exitCode, regs, serial, catches>>
      BY <1>12 DEF JumpOut, Cold
    <2>2. keep \in 0..Len(bs) /\ bs \in Seq(Block)
      <3>1. bs \in Seq(Block)
        BY <1>3, <2>1
      <3> QED BY <2>1, <3>1
    <2>3. SubSeq(bs, 1, keep) \in Seq(Block)
      BY <2>2, PrefixSeq
    <2> QED BY <2>1, <2>3, SetTopType
            DEF TInv, TypeOK, HasFrame, Running
  <1>13. CASE RuntimeError(t)
    BY <1>13, DispatchType DEF RuntimeError
  <1>14. CASE BoundsError(t)
    BY <1>14, ExitType DEF BoundsError
  <1>15. ASSUME NEW c \in Codes, Raise(t, c) \/ ThreadExit(t, c) PROVE TInv'
    <2>1. c \in Nat
      BY ConstantsAssumption
    <2> QED BY <1>15, <2>1, DispatchType, ExitType DEF Raise, ThreadExit, Cold
  <1>16. ASSUME NEW u \in Threads, ThreadSpawn(t, u) PROVE TInv'
    BY <1>16, SpawnType
  <1> QED BY <1>1, <1>4, <1>5, <1>6, <1>7, <1>8, <1>9, <1>10, <1>11, <1>12,
             <1>13, <1>14, <1>15, <1>16

\* The types hold initially.
LEMMA TypeInit == Init => TInv
  <1> SUFFICES ASSUME Init PROVE TInv
    OBVIOUS
  <1>1. ZeroRegs \in RegFile /\ 0 \in 0..4
    BY DEF ZeroRegs, RegFile, Int, Word
  <1>2. ColdFrame(0) \in Frame
    BY <1>1, FrameTypes
  <1>3. <<ColdFrame(0)>> \in Seq(Frame) /\ <<>> \in Seq(Frame)
        /\ <<ColdFrame(0)>> # <<>>
    BY <1>2
  <1>4. TypeOK
    BY <1>1, <1>3 DEF Init, TypeOK
  <1>5. HasFrame
    BY <1>3 DEF Init, HasFrame, Running
  <1> QED BY <1>4, <1>5 DEF TInv

\* Whatever constructs the program uses, every variable keeps its type: r12
\* to r15 hold words, exit statuses are bytes and a running thread has a
\* frame to return from (emit_function, emit_return, NODE_TRY_CATCH).
THEOREM TypeCorrect == Spec => []TypeOK
  BY TypeInit, TypeStep, PTL DEF Spec, TInv

-----------------------------------------------------------------------------
(***************************************************************************)
(* In a program of the supported constructs (Forms = {}) the quartet is at *)
(* every moment the open try block's and no error leaves the program's     *)
(* control.  The argument is about the stack of one thread: the lemmas     *)
(* below say, for each way a construct changes a stack, that a quartet     *)
(* fitting the old stack fits the new one.                                 *)
(***************************************************************************)

\* A sequence with another last element.
LEMMA TopSeq ==
  ASSUME NEW S, NEW s \in Seq(S), s # <<>>, NEW e \in S
  PROVE  /\ Append(Pop(s), e) \in Seq(S)
         /\ Len(Append(Pop(s), e)) = Len(s)
         /\ Append(Pop(s), e)[Len(s)] = e
         /\ \A i \in 1..(Len(s) - 1) : Append(Pop(s), e)[i] = s[i]
  <1>1. /\ Pop(s) \in Seq(S) /\ Len(Pop(s)) = Len(s) - 1 /\ Len(s) \in Nat
        /\ \A i \in 1..(Len(s) - 1) : Pop(s)[i] = s[i]
    BY PopSeq
  <1> QED BY <1>1, AppendSeq

\* Sequences of one length with the same elements are equal.
LEMMA SeqEqual ==
  ASSUME NEW S, NEW a \in Seq(S), NEW b \in Seq(S), Len(a) = Len(b),
         \A i \in 1..Len(a) : a[i] = b[i]
  PROVE  a = b
  OBVIOUS

\* A prefix of a prefix.
LEMMA SubSubSeq ==
  ASSUME NEW S, NEW s \in Seq(S), NEW k \in 0..Len(s), NEW j \in 1..k
  PROVE  SubSeq(SubSeq(s, 1, k), 1, j - 1) = SubSeq(s, 1, j - 1)
  <1> DEFINE p == SubSeq(s, 1, k)
             a == SubSeq(p, 1, j - 1)
             b == SubSeq(s, 1, j - 1)
  <1>1. p \in Seq(S) /\ Len(p) = k /\ \A i \in 1..k : p[i] = s[i]
    BY PrefixSeq
  <1>2. j - 1 \in 0..k /\ j - 1 \in 0..Len(s)
    OBVIOUS
  <1>3. /\ a \in Seq(S) /\ Len(a) = j - 1
        /\ \A i \in 1..(j - 1) : a[i] = p[i]
    BY <1>1, <1>2, PrefixSeq
  <1>4. /\ b \in Seq(S) /\ Len(b) = j - 1
        /\ \A i \in 1..(j - 1) : b[i] = s[i]
    BY <1>2, PrefixSeq
  <1> HIDE DEF a, b, p
  <1>5. \A i \in 1..(j - 1) : a[i] = b[i]
    BY <1>1, <1>3, <1>4
  <1>6. a = b
    BY <1>3, <1>4, <1>5, SeqEqual
  <1> QED BY <1>6 DEF a, b, p

\* A call: the new activation is in no block.
LEMMA FitsPush ==
  ASSUME NEW t, NEW s \in Seq(Frame), NEW q, Fits(t, s, q),
         NEW f \in Frame, f.blocks = <<>>
  PROVE  Fits(t, Append(s, f), q)
  <1> DEFINE r == Append(s, f)
  <1>1. /\ Len(s) \in Nat /\ Len(r) = Len(s) + 1
        /\ \A i \in 1..Len(s) : r[i] = s[i]
        /\ r[Len(s) + 1] = f /\ Len(f.blocks) = 0
    BY AppendSeq
  <1> HIDE DEF r
  <1>2. ASSUME NEW e \in 1..Len(r), NEW k \in 1..Len(r[e].blocks)
        PROVE  e \in 1..Len(s) /\ r[e] = s[e]
    <2>1. e # Len(s) + 1
      BY <1>1, <1>2
    <2> QED BY <1>1, <2>1
  <1>3. CASE NoTry(s) /\ q[15] = Int(0)
    <2>1. NoTry(r)
      BY <1>2, <1>3 DEF NoTry
    <2> QED BY <1>3, <2>1 DEF Fits, r
  <1>4. ASSUME NEW d \in 1..Len(s), NEW j \in 1..Len(s[d].blocks),
               OnlyTry(s, d, j), Armed(t, s, d, j, q)
        PROVE  Fits(t, r, q)
    <2>1. d \in 1..Len(r) /\ r[d] = s[d]
      BY <1>1
    <2>2. OnlyTry(r, d, j)
      BY <1>2, <1>4 DEF OnlyTry
    <2>3. Armed(t, r, d, j, q)
      BY <1>4, <2>1 DEF Armed
    <2> QED BY <2>1, <2>2, <2>3 DEF Fits
  <1> QED BY <1>3, <1>4 DEF Fits, r

\* A return: the activation left is in no open try block.
LEMMA FitsPop ==
  ASSUME NEW t, NEW s \in Seq(Frame), s # <<>>, NEW q, Fits(t, s, q),
         NoTryFrom(s[Len(s)].blocks, 1)
  PROVE  Fits(t, Pop(s), q)
  <1> DEFINE r == Pop(s)
  <1>1. /\ Len(s) \in Nat /\ Len(r) = Len(s) - 1 /\ Len(s) \in 1..Len(s)
        /\ \A i \in 1..Len(r) : i \in 1..Len(s) /\ r[i] = s[i]
    BY PopSeq
  <1> HIDE DEF r
  <1>2. CASE NoTry(s) /\ q[15] = Int(0)
    <2>1. NoTry(r)
      BY <1>1, <1>2 DEF NoTry
    <2> QED BY <1>2, <2>1 DEF Fits, r
  <1>3. ASSUME NEW d \in 1..Len(s), NEW j \in 1..Len(s[d].blocks),
               OnlyTry(s, d, j), Armed(t, s, d, j, q)
        PROVE  Fits(t, r, q)
    <2>1. s[d].blocks[j].part = "try"
      BY <1>3 DEF OnlyTry
    <2>2. d # Len(s)
      BY <1>3, <2>1 DEF NoTryFrom
    <2>3. d \in 1..Len(r) /\ r[d] = s[d]
      BY <1>1, <2>2
    <2>4. OnlyTry(r, d, j)
      BY <1>1, <1>3 DEF OnlyTry
    <2>5. Armed(t, r, d, j, q)
      BY <1>3, <2>3 DEF Armed
    <2> QED BY <2>3, <2>4, <2>5 DEF Fits
  <1> QED BY <1>2, <1>3 DEF Fits, r

\* The end of a catch block, break and continue: no open try block is left.
LEMMA FitsTruncate ==
  ASSUME NEW t, NEW s \in Seq(Frame), s # <<>>, NEW q, Fits(t, s, q),
         NEW keep \in 0..Len(s[Len(s)].blocks),
         NoTryFrom(s[Len(s)].blocks, keep + 1)
  PROVE  Fits(t, Append(Pop(s), [s[Len(s)] EXCEPT !.blocks =
                                   SubSeq(s[Len(s)].blocks, 1, keep)]), q)
  <1> DEFINE n  == Len(s)
             b  == s[n].blocks
             bs == SubSeq(b, 1, keep)
             f  == [s[n] EXCEPT !.blocks = bs]
             r  == Append(Pop(s), f)
  <1>1. n \in Nat /\ n \in 1..n /\ s[n] \in Frame
    BY PopSeq
  <1>2. b \in Seq(Block)
    BY <1>1 DEF Frame
  <1>3. /\ bs \in Seq(Block) /\ Len(bs) = keep
        /\ \A i \in 1..keep : bs[i] = b[i]
    BY <1>2, PrefixSeq
  <1>4. f \in Frame /\ f.blocks = bs /\ f.act = s[n].act
    BY <1>1, <1>3 DEF Frame
  <1>5. /\ Len(r) = n /\ r[n] = f
        /\ \A i \in 1..(n - 1) : r[i] = s[i]
    BY <1>4, TopSeq
  <1>6. Len(b) \in Nat /\ keep \in Nat /\ keep <= Len(b)
    BY <1>2
  <1> HIDE DEF r, f, bs
  <1>7. ASSUME NEW e \in 1..n, NEW k \in 1..Len(r[e].blocks)
        PROVE  k \in 1..Len(s[e].blocks) /\ r[e].blocks[k] = s[e].blocks[k]
    <2>1. CASE e = n
      BY <1>3, <1>4, <1>5, <1>6, <1>7, <2>1
    <2>2. CASE e # n
      BY <1>1, <1>5, <1>7, <2>2
    <2> QED BY <2>1, <2>2
  <1>8. CASE NoTry(s) /\ q[15] = Int(0)
    <2>1. NoTry(r)
      BY <1>5, <1>7, <1>8 DEF NoTry
    <2> QED BY <1>8, <2>1 DEF Fits, r, f, bs
  <1>9. ASSUME NEW d \in 1..n, NEW j \in 1..Len(s[d].blocks),
               OnlyTry(s, d, j), Armed(t, s, d, j, q)
        PROVE  Fits(t, r, q)
    <2>0. OnlyTry(r, d, j)
      <3> SUFFICES ASSUME NEW e \in 1..n, NEW k \in 1..Len(r[e].blocks)
                   PROVE  r[e].blocks[k].part = "try" <=> (e = d /\ k = j)
        BY <1>5 DEF OnlyTry
      <3>1. k \in 1..Len(s[e].blocks) /\ r[e].blocks[k] = s[e].blocks[k]
        BY <1>7
      <3> QED BY <1>9, <3>1 DEF OnlyTry
    <2>1. s[d].blocks[j].part = "try"
      BY <1>9 DEF OnlyTry
    <2>2. CASE d = n
      <3>1. j \in 1..keep
        BY <1>6, <1>9, <2>1, <2>2 DEF NoTryFrom
      <3>2. j \in 1..Len(r[d].blocks) /\ d \in 1..Len(r)
        BY <1>3, <1>4, <1>5, <2>2, <3>1
      <3>4. SubSeq(bs, 1, j - 1) = SubSeq(b, 1, j - 1)
        BY <1>2, <1>6, <3>1, SubSubSeq DEF bs
      <3>5. r[d].act = s[d].act /\ r[d].blocks = bs /\ bs[j] = b[j]
        BY <1>3, <1>4, <1>5, <2>2, <3>1
      <3>6. Armed(t, r, d, j, q)
        BY <1>9, <2>2, <3>4, <3>5 DEF Armed
      <3> QED BY <2>0, <3>2, <3>6 DEF Fits
    <2>3. CASE d # n
      <3>1. d \in 1..Len(r) /\ r[d] = s[d]
        BY <1>1, <1>5, <1>9, <2>3
      <3>3. Armed(t, r, d, j, q)
        BY <1>9, <3>1 DEF Armed
      <3> QED BY <1>9, <2>0, <3>1, <3>3 DEF Fits
    <2> QED BY <2>2, <2>3
  <1> QED BY <1>8, <1>9 DEF Fits, r, f, bs

\* Appending leaves the prefix.
LEMMA SubAppend ==
  ASSUME NEW S, NEW s \in Seq(S), NEW e \in S
  PROVE  SubSeq(Append(s, e), 1, Len(s)) = s
  <1>1. /\ Append(s, e) \in Seq(S) /\ Len(s) \in 0..Len(Append(s, e))
        /\ \A i \in 1..Len(s) : Append(s, e)[i] = s[i]
    BY AppendSeq
  <1>2. /\ SubSeq(Append(s, e), 1, Len(s)) \in Seq(S)
        /\ Len(SubSeq(Append(s, e), 1, Len(s))) = Len(s)
        /\ \A i \in 1..Len(s) : SubSeq(Append(s, e), 1, Len(s))[i] = s[i]
    BY <1>1, PrefixSeq
  <1> QED BY <1>2, SeqEqual

\* Entering a try block while none is open.
LEMMA FitsEnter ==
  ASSUME NEW t, NEW s \in Seq(Frame), s # <<>>, NoTry(s), NEW n \in Nat, NEW q,
         q[12] = StackPos(t, Len(s), s[Len(s)].act), q[13] = q[12],
         q[14] = CodePos(Append(s[Len(s)].blocks,
                                [id |-> n, part |-> "catch"])),
         q[15] = Int(1)
  PROVE  Fits(t, Append(Pop(s), [s[Len(s)] EXCEPT !.blocks =
            Append(s[Len(s)].blocks, [id |-> n, part |-> "try"])]), q)
  <1> DEFINE m  == Len(s)
             b  == s[m].blocks
             x  == [id |-> n, part |-> "try"]
             bs == Append(b, x)
             f  == [s[m] EXCEPT !.blocks = bs]
             r  == Append(Pop(s), f)
             j  == Len(b) + 1
  <1>1. m \in Nat /\ m \in 1..m /\ s[m] \in Frame
    BY PopSeq
  <1>2. b \in Seq(Block) /\ Len(b) \in Nat /\ x \in Block
    BY <1>1 DEF Frame, Block, Parts
  <1>3. /\ bs \in Seq(Block) /\ Len(bs) = j /\ bs[j] = x
        /\ \A i \in 1..Len(b) : bs[i] = b[i]
    BY <1>2, AppendSeq
  <1>4. SubSeq(bs, 1, j - 1) = b
    <2>1. j - 1 = Len(b)
      BY <1>2
    <2> QED BY <1>2, <2>1, SubAppend
  <1>5. f \in Frame /\ f.blocks = bs /\ f.act = s[m].act
    BY <1>1, <1>3 DEF Frame
  <1>6. /\ Len(r) = m /\ r[m] = f
        /\ \A i \in 1..(m - 1) : r[i] = s[i]
    BY <1>5, TopSeq
  <1> HIDE DEF r, f, bs
  <1>7. OnlyTry(r, m, j)
    <2> SUFFICES ASSUME NEW e \in 1..m, NEW k \in 1..Len(r[e].blocks)
                 PROVE  r[e].blocks[k].part = "try" <=> (e = m /\ k = j)
      BY <1>6 DEF OnlyTry
    <2>1. CASE e = m /\ k = j
      BY <1>3, <1>5, <1>6, <2>1
    <2>2. CASE e = m /\ k # j
      <3>1. r[e].blocks = bs /\ k \in 1..Len(b)
        BY <1>2, <1>3, <1>5, <1>6, <2>2
      <3>2. s[m].blocks[k].part # "try"
        BY <1>1, <3>1 DEF NoTry
      <3>3. r[e].blocks[k] = s[m].blocks[k]
        BY <1>3, <3>1
      <3> QED BY <2>2, <3>2, <3>3
    <2>3. CASE e # m
      <3>1. r[e] = s[e]
        BY <1>1, <1>6, <2>3
      <3> QED BY <2>3, <3>1 DEF NoTry
    <2> QED BY <2>1, <2>2, <2>3
  <1>8. Armed(t, r, m, j, q)
    <2>1. r[m].blocks[j].id = n /\ r[m].act = s[m].act
      BY <1>3, <1>5, <1>6
    <2>2. SubSeq(r[m].blocks, 1, j - 1) = b
      BY <1>4, <1>5, <1>6
    <2> QED BY <2>1, <2>2 DEF Armed
  <1>9. m \in 1..Len(r) /\ j \in 1..Len(r[m].blocks)
    BY <1>1, <1>2, <1>3, <1>5, <1>6
  <1> QED BY <1>7, <1>8, <1>9 DEF Fits, r, f, bs

\* The end of a try block.
LEMMA FitsLeaveTry ==
  ASSUME NEW t, NEW s \in Seq(Frame), s # <<>>, NEW q, Fits(t, s, q),
         s[Len(s)].blocks # <<>>,
         s[Len(s)].blocks[Len(s[Len(s)].blocks)].part = "try"
  PROVE  NoTry(Append(Pop(s), [s[Len(s)] EXCEPT !.blocks =
                                 Pop(s[Len(s)].blocks)]))
  <1> DEFINE m  == Len(s)
             b  == s[m].blocks
             f  == [s[m] EXCEPT !.blocks = Pop(b)]
             r  == Append(Pop(s), f)
  <1>1. m \in Nat /\ m \in 1..m /\ s[m] \in Frame
    BY PopSeq
  <1>2. b \in Seq(Block) /\ Len(b) \in Nat
    BY <1>1 DEF Frame
  <1>3. /\ Pop(b) \in Seq(Block) /\ Len(Pop(b)) = Len(b) - 1
        /\ Len(b) \in 1..Len(b)
        /\ \A i \in 1..(Len(b) - 1) : Pop(b)[i] = b[i]
    BY <1>2, PopSeq
  <1>4. f \in Frame /\ f.blocks = Pop(b)
    BY <1>1, <1>3 DEF Frame
  <1>5. /\ Len(r) = m /\ r[m] = f
        /\ \A i \in 1..(m - 1) : r[i] = s[i]
    BY <1>4, TopSeq
  <1>6. OnlyTry(s, m, Len(b))
    <2>1. ~NoTry(s)
      BY <1>1, <1>3 DEF NoTry
    <2>2. PICK d \in 1..m : \E j \in 1..Len(s[d].blocks) : OnlyTry(s, d, j)
      BY <2>1 DEF Fits
    <2>3. PICK j \in 1..Len(s[d].blocks) : OnlyTry(s, d, j)
      BY <2>2
    <2>4. m = d /\ Len(b) = j
      BY <1>1, <1>3, <2>3 DEF OnlyTry
    <2> QED BY <2>3, <2>4
  <1> HIDE DEF r, f
  <1> SUFFICES ASSUME NEW e \in 1..m, NEW k \in 1..Len(r[e].blocks)
               PROVE  r[e].blocks[k].part # "try"
    BY <1>5 DEF NoTry, r, f
  <1>7. CASE e = m
    <2>1. k \in 1..(Len(b) - 1) /\ r[e].blocks[k] = b[k]
      BY <1>3, <1>4, <1>5, <1>7
    <2>2. k \in 1..Len(b) /\ k # Len(b)
      BY <1>2, <2>1
    <2> QED BY <1>1, <1>6, <2>1, <2>2 DEF OnlyTry
  <1>8. CASE e # m
    <2>1. r[e] = s[e]
      BY <1>1, <1>5, <1>8
    <2> QED BY <1>6, <1>8, <2>1 DEF OnlyTry
  <1> QED BY <1>7, <1>8

\* A caught error.
LEMMA FitsResume ==
  ASSUME NEW t, NEW s \in Seq(Frame), NEW q, Fits(t, s, q), q[15] # Int(0)
  PROVE  /\ q[12] = q[13] /\ q[12].kind = "stack" /\ q[14].kind = "code"
         /\ q[12].thread = t
         /\ q[12].depth \in 1..Len(s) /\ s[q[12].depth].act = q[12].act
         /\ q[14].at \in Seq(Block)
         /\ NoTry(Append(SubSeq(s, 1, q[12].depth - 1),
                         [s[q[12].depth] EXCEPT !.blocks = q[14].at]))
  <1>1. PICK d \in 1..Len(s) : \E j \in 1..Len(s[d].blocks) :
                OnlyTry(s, d, j) /\ Armed(t, s, d, j, q)
    BY DEF Fits
  <1>2. PICK j \in 1..Len(s[d].blocks) :
                OnlyTry(s, d, j) /\ Armed(t, s, d, j, q)
    BY <1>1
  <1> DEFINE b  == s[d].blocks
             x  == [id |-> b[j].id, part |-> "catch"]
             p  == SubSeq(b, 1, j - 1)
             bs == Append(p, x)
             f  == [s[d] EXCEPT !.blocks = bs]
             r  == Append(SubSeq(s, 1, d - 1), f)
  <1>3. /\ q[12] = StackPos(t, d, s[d].act) /\ q[13] = q[12]
        /\ q[14] = CodePos(bs)
    BY <1>2 DEF Armed
  <1>4. s[d] \in Frame /\ b \in Seq(Block) /\ d - 1 \in 0..Len(s)
    <2>1. s[d] \in Frame
      OBVIOUS
    <2>2. Len(s) \in Nat
      OBVIOUS
    <2>3. d - 1 \in 0..Len(s)
      BY <2>2
    <2> QED BY <2>1, <2>3 DEF Frame
  <1>5. b[j] \in Block /\ j - 1 \in 0..Len(b) /\ x \in Block
    <2>1. Len(b) \in Nat /\ b[j] \in Block
      BY <1>4
    <2>2. j - 1 \in 0..Len(b)
      BY <2>1
    <2> QED BY <2>1, <2>2 DEF Block, Parts
  <1>6. /\ p \in Seq(Block) /\ Len(p) = j - 1
        /\ \A i \in 1..(j - 1) : p[i] = b[i]
    BY <1>4, <1>5, PrefixSeq
  <1>7. /\ bs \in Seq(Block) /\ Len(bs) = j /\ bs[j] = x
        /\ \A i \in 1..(j - 1) : bs[i] = b[i]
    BY <1>5, <1>6, AppendSeq
  <1>8. f \in Frame /\ f.blocks = bs
    BY <1>4, <1>7 DEF Frame
  <1>9. /\ Len(r) = d /\ r[d] = f /\ \A i \in 1..(d - 1) : r[i] = s[i]
    <2>1. /\ SubSeq(s, 1, d - 1) \in Seq(Frame)
          /\ Len(SubSeq(s, 1, d - 1)) = d - 1
          /\ \A i \in 1..(d - 1) : SubSeq(s, 1, d - 1)[i] = s[i]
      BY <1>4, PrefixSeq
    <2> QED BY <1>8, <2>1, AppendSeq
  <1> HIDE DEF r, f, bs, p
  <1>10. NoTry(r)
    <2> SUFFICES ASSUME NEW e \in 1..d, NEW k \in 1..Len(r[e].blocks)
                 PROVE  r[e].blocks[k].part # "try"
      BY <1>9 DEF NoTry
    <2>1. CASE e = d /\ k = j
      BY <1>7, <1>8, <1>9, <2>1
    <2>2. CASE e = d /\ k # j
      <3>1. k \in 1..Len(b) /\ r[e].blocks[k] = b[k]
        BY <1>4, <1>5, <1>7, <1>8, <1>9, <2>2
      <3> QED BY <1>2, <2>2, <3>1 DEF OnlyTry
    <2>3. CASE e # d
      <3>1. e \in 1..Len(s) /\ r[e] = s[e]
        BY <1>9, <2>3
      <3> QED BY <1>2, <2>3, <3>1 DEF OnlyTry
    <2> QED BY <2>1, <2>2, <2>3
  <1>11. /\ q[12].kind = "stack" /\ q[12].thread = t /\ q[12].depth = d
         /\ q[12].act = s[d].act /\ q[14].kind = "code" /\ q[14].at = bs
    BY <1>3 DEF StackPos, CodePos
  <1> QED BY <1>3, <1>7, <1>10, <1>11 DEF r, f
-----------------------------------------------------------------------------
\* A hot function calls nothing, so only the last activation can be hot.
Good(t) ==
  /\ Fits(t, stack[t], LiveRegs(t))
  /\ \A d \in 1..(Len(stack[t]) - 1) : ~stack[t][d].hot

HInv ==
  /\ TInv
  /\ \A t \in Threads : Running(t) => Good(t)
  /\ NeverWild

\* A step of t that leaves the other threads alone.
Alone(t) ==
  \A u \in Threads \ {t} :
    /\ status'[u] = status[u] /\ stack'[u] = stack[u] /\ regs'[u] = regs[u]

\* A step of one thread leaves the other threads as they were.
LEMMA OthersStay ==
  ASSUME HInv, TInv', NEW t \in Threads, Alone(t), status'[t] # "wild",
         Running(t)' => Good(t)'
  PROVE  HInv'
  <1>1. ASSUME NEW u \in Threads, Running(u)' PROVE Good(u)'
    <2>1. CASE u = t
      BY <1>1, <2>1
    <2>2. CASE u # t
      BY <1>1, <2>2 DEF HInv, Alone, Running, Good, LiveRegs, Top
    <2> QED BY <2>1, <2>2
  <1>2. NeverWild'
    BY DEF HInv, NeverWild, Alone
  <1> QED BY <1>1, <1>2 DEF HInv

\* What is known of a running thread.
LEMMA RunningFacts ==
  ASSUME HInv, NEW t \in Threads, Running(t)
  PROVE  /\ stack[t] \in Seq(Frame) /\ stack[t] # <<>>
         /\ Len(stack[t]) \in Nat /\ Len(stack[t]) \in 1..Len(stack[t])
         /\ Top(t) \in Frame /\ Top(t).blocks \in Seq(Block)
         /\ Len(Top(t).blocks) \in Nat
         /\ Good(t)
  <1>1. stack[t] \in Seq(Frame) /\ stack[t] # <<>>
    BY DEF HInv, TInv, TypeOK, HasFrame
  <1>2. /\ Len(stack[t]) \in Nat /\ Len(stack[t]) \in 1..Len(stack[t])
        /\ Top(t) \in Frame
    BY <1>1, PopSeq DEF Top
  <1>3. Top(t).blocks \in Seq(Block)
    BY <1>2 DEF Frame
  <1> QED BY <1>1, <1>2, <1>3 DEF HInv

\* A call, hot or cold, from a cold activation.
LEMMA PushGood ==
  ASSUME HInv, NEW t \in Threads, Cold(t), NEW f \in Frame, f.blocks = <<>>,
         stack' = [stack EXCEPT ![t] = Append(@, f)], regs' = regs,
         f.hot => f.saved = regs[t]
  PROVE  Good(t)'
  <1>1. /\ stack[t] \in Seq(Frame) /\ Len(stack[t]) \in Nat
        /\ Good(t) /\ ~Top(t).hot
        /\ Len(stack[t]) \in 1..Len(stack[t])
    BY RunningFacts DEF Cold
  <1>2. stack'[t] = Append(stack[t], f)
    BY DEF HInv, TInv, TypeOK
  <1>3. /\ Len(stack'[t]) = Len(stack[t]) + 1
        /\ stack'[t][Len(stack[t]) + 1] = f
        /\ \A i \in 1..Len(stack[t]) : stack'[t][i] = stack[t][i]
    BY <1>1, <1>2, AppendSeq
  <1>4. Fits(t, stack'[t], regs[t])
    <2>1. Fits(t, stack[t], regs[t])
      BY <1>1 DEF Good, LiveRegs
    <2> QED BY <1>1, <1>2, <2>1, FitsPush
  <1>5. (LiveRegs(t))' = regs[t]
    BY <1>3 DEF LiveRegs, Top
  <1>6. ASSUME NEW d \in 1..(Len(stack'[t]) - 1) PROVE ~stack'[t][d].hot
    <2>1. d \in 1..Len(stack[t]) /\ stack'[t][d] = stack[t][d]
      BY <1>1, <1>3
    <2>2. CASE d = Len(stack[t])
      BY <1>1, <2>1, <2>2 DEF Top
    <2>3. CASE d # Len(stack[t])
      BY <1>1, <2>1, <2>3 DEF Good
    <2> QED BY <2>2, <2>3
  <1> QED BY <1>4, <1>5, <1>6 DEF Good

\* Below the top of at least two there is another.
LEMMA BelowTwo ==
  ASSUME NEW n \in Nat, n # 0, n # 1
  PROVE  n - 1 \in 1..(n - 1)
  OBVIOUS

\* A return: the activation below is cold, so a hot callee's pushed quartet
\* and the live one agree again.
LEMMA ReturnGood ==
  ASSUME HInv, NEW t \in Threads, Return(t), ~Uses("escape"),
         status'[t] = "running"
  PROVE  Good(t)'
  <1>1. /\ stack[t] \in Seq(Frame) /\ stack[t] # <<>>
        /\ Len(stack[t]) \in Nat /\ Good(t)
    BY RunningFacts DEF Return
  <1>2. /\ stack'[t] = Pop(stack[t])
        /\ regs'[t] = LiveRegs(t)
    BY DEF Return, LiveRegs, HInv, TInv, TypeOK
  <1>3. /\ Len(stack'[t]) = Len(stack[t]) - 1
        /\ \A i \in 1..(Len(stack[t]) - 1) : stack'[t][i] = stack[t][i]
    BY <1>1, <1>2, PopSeq
  <1>4. Len(stack[t]) # 1 /\ Len(stack[t]) # 0
    <2>1. Len(stack[t]) # 1
      BY DEF Return, HInv, TInv, TypeOK
    <2> QED BY <1>1, <2>1
  <1>5. Fits(t, stack'[t], LiveRegs(t))
    <2>1. NoTryFrom(stack[t][Len(stack[t])].blocks, 1)
      BY DEF Return, Top
    <2> QED BY <1>1, <1>2, <2>1, FitsPop DEF Good
  <1>6. \A i \in 1..Len(stack'[t]) : ~stack'[t][i].hot
    BY <1>1, <1>3 DEF Good
  <1>7. (LiveRegs(t))' = LiveRegs(t)
    <2>1. Len(stack'[t]) \in 1..Len(stack'[t])
      <3>1. Len(stack[t]) - 1 \in 1..(Len(stack[t]) - 1)
        BY <1>1, <1>4, BelowTwo
      <3> QED BY <1>3, <3>1
    <2>2. ~stack'[t][Len(stack'[t])].hot
      BY <1>6, <2>1
    <2> QED BY <1>2, <2>2 DEF LiveRegs, Top
  <1>8. \A i \in 1..(Len(stack'[t]) - 1) : ~stack'[t][i].hot
    BY <1>1, <1>3, <1>6
  <1> QED BY <1>5, <1>7, <1>8 DEF Good

\* The top activation changed in place, or was replaced by a tail call.
LEMMA ReplaceGood ==
  ASSUME HInv, NEW t \in Threads, Running(t), NEW f \in Frame, ~f.hot,
         stack' = [stack EXCEPT ![t] = Append(Pop(@), f)],
         Fits(t, Append(Pop(stack[t]), f), regs'[t])
  PROVE  Good(t)'
  <1>1. /\ stack[t] \in Seq(Frame) /\ stack[t] # <<>>
        /\ Len(stack[t]) \in Nat /\ Good(t)
    BY RunningFacts
  <1>2. stack'[t] = Append(Pop(stack[t]), f)
    BY DEF HInv, TInv, TypeOK
  <1>3. /\ Len(stack'[t]) = Len(stack[t]) /\ stack'[t][Len(stack[t])] = f
        /\ \A i \in 1..(Len(stack[t]) - 1) : stack'[t][i] = stack[t][i]
    BY <1>1, <1>2, TopSeq
  <1>4. (LiveRegs(t))' = regs'[t]
    BY <1>3 DEF LiveRegs, Top
  <1>5. \A i \in 1..(Len(stack'[t]) - 1) : ~stack'[t][i].hot
    BY <1>1, <1>3 DEF Good
  <1> QED BY <1>2, <1>4, <1>5 DEF Good

\* A step that changes the top activation's blocks leaves the quartet right if it fits them.
LEMMA SetTopGood ==
  ASSUME HInv, NEW t \in Threads, Cold(t), NEW bs \in Seq(Block),
         SetTopBlocks(t, bs),
         Fits(t, Append(Pop(stack[t]), [Top(t) EXCEPT !.blocks = bs]), regs'[t])
  PROVE  Good(t)'
  <1> DEFINE f == [Top(t) EXCEPT !.blocks = bs]
  <1>1. Running(t) /\ ~Top(t).hot /\ Top(t) \in Frame
    BY RunningFacts DEF Cold
  <1>2. f \in Frame /\ ~f.hot
    BY <1>1 DEF Frame
  <1>3. stack' = [stack EXCEPT ![t] = Append(Pop(@), f)]
    BY DEF SetTopBlocks
  <1> HIDE DEF f
  <1>4. Fits(t, Append(Pop(stack[t]), f), regs'[t])
    BY DEF f
  <1> QED BY <1>1, <1>2, <1>3, <1>4, ReplaceGood

\* A self tail call outside of blocks leaves the quartet right.
LEMMA TailCallGood ==
  ASSUME HInv, NEW t \in Threads, TailCall(t), ~Uses("escape")
  PROVE  Good(t)'
  <1> DEFINE f == ColdFrame(serial)
  <1>1. /\ Cold(t) /\ Running(t) /\ ~Top(t).hot
        /\ NoTryFrom(stack[t][Len(stack[t])].blocks, 1)
        /\ stack' = [stack EXCEPT ![t] = Append(Pop(@), f)] /\ regs' = regs
    BY DEF TailCall, Cold, Top
  <1>2. f \in Frame /\ ~f.hot /\ f.blocks = <<>>
    <2>1. serial \in Nat /\ ZeroRegs \in RegFile /\ 0 \in 0..4
      BY DEF HInv, TInv, TypeOK, ZeroRegs, RegFile, Int, Word
    <2> QED BY <2>1, FrameTypes DEF ColdFrame
  <1>3. /\ stack[t] \in Seq(Frame) /\ stack[t] # <<>>
        /\ Fits(t, stack[t], regs[t])
    BY <1>1, RunningFacts DEF Good, LiveRegs
  <1> HIDE DEF f
  <1>4. Fits(t, Pop(stack[t]), regs[t]) /\ Pop(stack[t]) \in Seq(Frame)
    BY <1>1, <1>3, FitsPop, PopSeq
  <1>5. Fits(t, Append(Pop(stack[t]), f), regs'[t])
    BY <1>1, <1>2, <1>4, FitsPush
  <1> QED BY <1>1, <1>2, <1>5, ReplaceGood

\* Entering the only try block leaves the quartet right.
LEMMA EnterTryGood ==
  ASSUME HInv, NEW t \in Threads, EnterTry(t), ~Uses("nested")
  PROVE  Good(t)'
  <1> DEFINE b == Top(t).blocks
             x == [id |-> serial, part |-> "try"]
  <1>1. /\ Cold(t) /\ Running(t) /\ NoTry(stack[t]) /\ serial \in Nat
        /\ SetTopBlocks(t, Append(b, x))
    BY DEF EnterTry, Cold, NoOpenTry, HInv, TInv, TypeOK
  <1>2. /\ stack[t] \in Seq(Frame) /\ stack[t] # <<>> /\ b \in Seq(Block)
    BY <1>1, RunningFacts
  <1>3. Append(b, x) \in Seq(Block)
    <2>1. x \in Block
      BY <1>1 DEF Block, Parts
    <2> QED BY <1>2, <2>1
  <1>4. /\ regs'[t][12] = StackPos(t, Len(stack[t]), Top(t).act)
        /\ regs'[t][13] = StackPos(t, Len(stack[t]), Top(t).act)
        /\ regs'[t][14] = CodePos(Append(b, [id |-> serial,
                                             part |-> "catch"]))
        /\ regs'[t][15] = Int(1)
    <2> DEFINE q == [r \in Quartet |->
                 CASE r = 12 -> StackPos(t, Len(stack[t]), Top(t).act)
                   [] r = 13 -> StackPos(t, Len(stack[t]), Top(t).act)
                   [] r = 14 -> CodePos(Append(b, [id |-> serial,
                                                   part |-> "catch"]))
                   [] r = 15 -> Int(1)]
    <2>1. regs'[t] = q
      BY DEF EnterTry, HandlerRegs, HInv, TInv, TypeOK
    <2>2. 12 \in Quartet /\ 13 \in Quartet /\ 14 \in Quartet /\ 15 \in Quartet
      BY DEF Quartet
    <2> QED BY <2>1, <2>2
  <1>5. Fits(t, Append(Pop(stack[t]), [Top(t) EXCEPT !.blocks = Append(b, x)]),
             regs'[t])
    BY <1>1, <1>2, <1>4, FitsEnter DEF Top
  <1> QED BY <1>1, <1>3, <1>5, SetTopGood

\* Leaving a block at its end leaves the quartet right.
LEMMA LeaveBlockGood ==
  ASSUME HInv, NEW t \in Threads, LeaveBlock(t)
  PROVE  Good(t)'
  <1> DEFINE b == Top(t).blocks
             s == stack[t]
  <1>1. /\ Cold(t) /\ Running(t) /\ ~Top(t).hot /\ b # <<>>
        /\ SetTopBlocks(t, Pop(b))
    BY DEF LeaveBlock, Cold
  <1>2. /\ s \in Seq(Frame) /\ s # <<>> /\ b \in Seq(Block)
        /\ Fits(t, s, regs[t])
    BY <1>1, RunningFacts DEF Good, LiveRegs
  <1>3. Pop(b) \in Seq(Block) /\ Len(b) \in 1..Len(b)
    BY <1>1, <1>2, PopSeq
  <1>4. CASE b[Len(b)].part = "try"
    <2>1. regs'[t][15] = Int(0)
      BY <1>4 DEF LeaveBlock, HInv, TInv, TypeOK, RegFile, Quartet
    <2>2. NoTry(Append(Pop(s), [Top(t) EXCEPT !.blocks = Pop(b)]))
      BY <1>1, <1>2, <1>4, FitsLeaveTry DEF Top
    <2>3. Fits(t, Append(Pop(s), [Top(t) EXCEPT !.blocks = Pop(b)]), regs'[t])
      BY <2>1, <2>2 DEF Fits
    <2> QED BY <1>1, <1>3, <2>3, SetTopGood
  <1>5. CASE b[Len(b)].part # "try"
    <2>1. regs' = regs
      BY <1>5 DEF LeaveBlock
    <2>2. /\ Len(b) - 1 \in 0..Len(b)
          /\ NoTryFrom(b, (Len(b) - 1) + 1)
      BY <1>2, <1>3, <1>5 DEF NoTryFrom
    <2>3. Fits(t, Append(Pop(s), [Top(t) EXCEPT !.blocks =
                                    SubSeq(b, 1, Len(b) - 1)]), regs[t])
      BY <1>2, <2>2, FitsTruncate DEF Top
    <2>4. Fits(t, Append(Pop(s), [Top(t) EXCEPT !.blocks = Pop(b)]), regs'[t])
      BY <2>1, <2>3 DEF Pop
    <2> QED BY <1>1, <1>3, <2>4, SetTopGood
  <1> QED BY <1>4, <1>5

\* A break or continue that leaves no try block leaves the quartet right.
LEMMA JumpOutGood ==
  ASSUME HInv, NEW t \in Threads, NEW keep \in Nat, JumpOut(t, keep),
         ~Uses("escape")
  PROVE  Good(t)'
  <1> DEFINE b == Top(t).blocks
             s == stack[t]
  <1>1. /\ Cold(t) /\ Running(t) /\ ~Top(t).hot /\ keep < Len(b)
        /\ NoTryFrom(b, keep + 1) /\ SetTopBlocks(t, SubSeq(b, 1, keep))
        /\ regs' = regs
    BY DEF JumpOut, Cold
  <1>2. /\ s \in Seq(Frame) /\ s # <<>> /\ b \in Seq(Block)
        /\ Len(b) \in Nat /\ Fits(t, s, regs[t])
    BY <1>1, RunningFacts DEF Good, LiveRegs
  <1>3. keep \in 0..Len(b)
    BY <1>1, <1>2
  <1>4. SubSeq(b, 1, keep) \in Seq(Block)
    BY <1>2, <1>3, PrefixSeq
  <1>5. Fits(t, Append(Pop(s), [Top(t) EXCEPT !.blocks = SubSeq(b, 1, keep)]),
             regs'[t])
    BY <1>1, <1>2, <1>3, FitsTruncate DEF Top
  <1> QED BY <1>1, <1>4, <1>5, SetTopGood
-----------------------------------------------------------------------------
\* An error with an open try block finds a quartet it can resume through.
LEMMA UnwindGood ==
  ASSUME HInv, NEW t \in Threads, Cold(t), regs[t][15] # Int(0), Unwind(t)
  PROVE  Resume(t) /\ Good(t)'
  <1> DEFINE s  == stack[t]
             q  == regs[t]
             d  == q[12].depth
             bs == q[14].at
             f  == [s[d] EXCEPT !.blocks = bs]
             r  == Append(SubSeq(s, 1, d - 1), f)
  <1>1. /\ Running(t) /\ s \in Seq(Frame) /\ Len(s) \in Nat
        /\ Fits(t, s, q) /\ Good(t) /\ ~Top(t).hot
    BY RunningFacts DEF Cold, Good, LiveRegs
  <1>2. /\ q[12] = q[13] /\ q[12].kind = "stack" /\ q[14].kind = "code"
        /\ q[12].thread = t
        /\ d \in 1..Len(s) /\ s[d].act = q[12].act
        /\ bs \in Seq(Block) /\ NoTry(r)
    BY <1>1, FitsResume
  <1>3. Resumable(t) /\ Resume(t)
    BY <1>2 DEF Resumable, Unwind
  <1>r. stack \in [Threads -> Seq(Frame)] /\ regs \in [Threads -> RegFile]
    BY DEF HInv, TInv, TypeOK
  <1>4. stack'[t] = r
    <2>1. stack' = [stack EXCEPT ![t] =
                      Append(SubSeq(@, 1, d - 1), [@[d] EXCEPT !.blocks = bs])]
      BY <1>3 DEF Resume
    <2> QED BY <1>r, <2>1
  <1>5. regs'[t][15] = Int(0)
    <2>1. regs' = [regs EXCEPT ![t][15] = Int(0)]
      BY <1>3 DEF Resume
    <2>2. 15 \in DOMAIN regs[t]
      BY <1>r DEF RegFile, Quartet
    <2> QED BY <1>r, <2>1, <2>2
  <1>6. s[d] \in Frame /\ d - 1 \in 0..Len(s)
    <2>1. d \in 1..Len(s) /\ s \in Seq(Frame) /\ Len(s) \in Nat
      BY <1>1, <1>2
    <2> HIDE DEF s, d
    <2> QED BY <2>1
  <1>7. f \in Frame /\ f.hot = s[d].hot
    BY <1>2, <1>6 DEF Frame
  <1>8. ~f.hot
    <2>1. CASE d = Len(s)
      BY <1>1, <1>7, <2>1 DEF Top
    <2>2. CASE d # Len(s)
      <3>1. d \in 1..(Len(s) - 1)
        BY <1>1, <1>2, <2>2
      <3>2. \A i \in 1..(Len(s) - 1) : ~s[i].hot
        BY <1>1 DEF Good
      <3> QED BY <1>7, <3>1, <3>2
    <2> QED BY <2>1, <2>2
  <1> HIDE DEF f
  <1>9. /\ Len(r) = d /\ r[d] = f /\ \A i \in 1..(d - 1) : r[i] = s[i]
    <2>1. /\ SubSeq(s, 1, d - 1) \in Seq(Frame)
          /\ Len(SubSeq(s, 1, d - 1)) = d - 1
          /\ \A i \in 1..(d - 1) : SubSeq(s, 1, d - 1)[i] = s[i]
      BY <1>1, <1>6, PrefixSeq
    <2>2. d \in Nat /\ d - 1 + 1 = d
      BY <1>1, <1>2
    <2> DEFINE p == SubSeq(s, 1, d - 1)
    <2>p. p \in Seq(Frame)
      BY <2>1 DEF p
    <2> HIDE DEF p
    <2>3. /\ Append(p, f) \in Seq(Frame) /\ Len(Append(p, f)) = Len(p) + 1
          /\ Append(p, f)[Len(p) + 1] = f
          /\ \A i \in 1..Len(p) : Append(p, f)[i] = p[i]
      BY <1>7, <2>p, AppendSeq
    <2>4. r = Append(p, f) /\ Len(p) = d - 1
          /\ \A i \in 1..(d - 1) : p[i] = s[i]
      BY <2>1 DEF p
    <2> HIDE DEF r
    <2> QED BY <2>2, <2>3, <2>4
  <1> HIDE DEF r
  <1>10. (LiveRegs(t))' = regs'[t]
    BY <1>4, <1>8, <1>9 DEF LiveRegs, Top
  <1>11. ASSUME NEW i \in 1..(Len(stack'[t]) - 1) PROVE ~stack'[t][i].hot
    <2>1. i \in 1..(d - 1)
      BY <1>4, <1>9
    <2>2. i \in 1..(Len(s) - 1)
      BY <1>1, <1>2, <2>1
    <2>3. stack'[t][i] = s[i]
      BY <1>4, <1>9, <2>1
    <2> QED BY <1>1, <2>2, <2>3 DEF Good
  <1>12. Fits(t, stack'[t], regs'[t])
    BY <1>2, <1>4, <1>5 DEF Fits, r, f
  <1> QED BY <1>3, <1>10, <1>11, <1>12 DEF Good

\* An error, caught or not, keeps the invariant.
LEMMA DispatchStep ==
  ASSUME HInv, TInv', NEW t \in Threads, Cold(t), NEW c, Dispatch(t, c)
  PROVE  HInv'
  <1>1. CASE regs[t][15] = Int(0)
    <2>1. Exit(t, c)
      BY <1>1 DEF Dispatch
    <2>2. Alone(t) /\ status'[t] = "exited"
      BY <2>1 DEF Exit, Alone, HInv, TInv, TypeOK
    <2> QED BY <2>2, OthersStay DEF Running
  <1>2. CASE regs[t][15] # Int(0)
    <2>1. Unwind(t)
      BY <1>2 DEF Dispatch
    <2>2. Resume(t) /\ Good(t)'
      BY <1>2, <2>1, UnwindGood
    <2>3. Alone(t) /\ status'[t] = "running"
      BY <2>2 DEF Resume, Alone, HInv, TInv, TypeOK, Cold, Running
    <2> QED BY <2>2, <2>3, OthersStay
  <1> QED BY <1>1, <1>2

\* A thread is spawned outside try blocks, with r15 clear.
LEMMA SpawnStep ==
  ASSUME HInv, TInv', NEW t \in Threads, NEW u \in Threads, ThreadSpawn(t, u),
         ~Uses("spawn")
  PROVE  HInv'
  <1>1. /\ Running(t) /\ ~Top(t).hot /\ NoTry(stack[t]) /\ status[u] = "unborn"
    BY DEF ThreadSpawn, Cold, NoOpenTry
  <1>2. regs[t][15] = Int(0)
    <2>1. Fits(t, stack[t], regs[t])
      BY <1>1, RunningFacts DEF Good, LiveRegs
    <2>2. ~\E d \in 1..Len(stack[t]) : \E j \in 1..Len(stack[t][d].blocks) :
              OnlyTry(stack[t], d, j)
      BY <1>1 DEF NoTry, OnlyTry
    <2> QED BY <2>1, <2>2 DEF Fits
  <1>3. PICK f \in WorkerFrames(t) : stack' = [stack EXCEPT ![u] = <<f>>]
    BY DEF ThreadSpawn
  <1>4. f.blocks = <<>> /\ (f.hot => f.saved = regs[t])
    BY <1>3 DEF WorkerFrames, ColdFrame, HotFrame
  <1>5. /\ stack'[u] = <<f>> /\ regs'[u] = regs[t] /\ status'[u] = "running"
        /\ Alone(u)
    BY <1>3 DEF ThreadSpawn, Alone, HInv, TInv, TypeOK
  <1>6. Len(stack'[u]) = 1 /\ stack'[u][1] = f
    BY <1>5
  <1>7. (LiveRegs(u))' = regs[t]
    BY <1>4, <1>5, <1>6 DEF LiveRegs, Top
  <1>8. NoTry(stack'[u])
    <2>1. Len(f.blocks) = 0
      BY <1>4
    <2> QED BY <1>6, <2>1 DEF NoTry
  <1>9. Good(u)'
    BY <1>2, <1>6, <1>7, <1>8 DEF Good, Fits
  <1> QED BY <1>5, <1>9, OthersStay

\* The invariant is inductive in programs of the supported constructs.
LEMMA HandlerStep ==
  ASSUME Forms = {}, HInv, [Next]_vars
  PROVE  HInv'
  <1>0. TInv' /\ \A form : ~Uses(form)
    BY TypeStep DEF HInv, Uses
  <1>u. CASE UNCHANGED vars
    BY <1>0, <1>u DEF vars, HInv, Running, Good, LiveRegs, Top, NeverWild
  <1>1. SUFFICES ASSUME NEW t \in Threads,
            \/ CallCold(t) \/ Return(t) \/ FallOffHot(t) \/ TailCall(t)
            \/ \E k \in PinCounts : CallHot(t, k)
            \/ \E r \in Quartet, v \in UserVals : StorePinned(t, r, v)
            \/ EnterTry(t) \/ LeaveBlock(t)
            \/ \E keep \in 0..MaxSerial : JumpOut(t, keep)
            \/ RuntimeError(t) \/ BoundsError(t)
            \/ \E c \in Codes : Raise(t, c) \/ ThreadExit(t, c)
            \/ \E u \in Threads : ThreadSpawn(t, u)
        PROVE HInv'
    BY <1>u DEF Next
  <1>2. /\ stack \in [Threads -> Seq(Frame)] /\ regs \in [Threads -> RegFile]
        /\ status \in [Threads -> {"unborn", "running", "exited", "wild"}]
        /\ serial \in Nat
    BY DEF HInv, TInv, TypeOK
  <1>3. ASSUME stack' = [stack EXCEPT ![t] = stack'[t]],
               regs' = [regs EXCEPT ![t] = regs'[t]], UNCHANGED status
        PROVE  Alone(t) /\ status'[t] = status[t]
    BY <1>2, <1>3 DEF Alone
  <1>4. CASE CallCold(t)
    <2>1. ColdFrame(serial) \in Frame
      BY <1>2, FrameTypes DEF ZeroRegs, RegFile, Int, Word
    <2>2. Good(t)'
      BY <1>4, <2>1, PushGood DEF CallCold, ColdFrame
    <2>3. Alone(t) /\ status'[t] = "running"
      BY <1>2, <1>4 DEF CallCold, Alone, Cold, Running
    <2> QED BY <1>0, <2>2, <2>3, OthersStay
  <1>5. CASE Return(t)
    <2>1. Alone(t) /\ status'[t] \in {"running", "exited"}
      BY <1>2, <1>5 DEF Return, Alone, Running
    <2>2. status'[t] = "running" => Good(t)'
      BY <1>0, <1>5, ReturnGood
    <2> QED BY <1>0, <2>1, <2>2, OthersStay DEF Running
  <1>6. CASE FallOffHot(t)
    BY <1>0, <1>6 DEF FallOffHot
  <1>7. CASE TailCall(t)
    <2>1. Alone(t) /\ status'[t] = "running"
      BY <1>2, <1>7 DEF TailCall, Alone, Cold, Running
    <2> QED BY <1>0, <1>7, <2>1, TailCallGood, OthersStay
  <1>8. ASSUME NEW k \in PinCounts, CallHot(t, k) PROVE HInv'
    <2>1. HotFrame(serial, regs[t], k) \in Frame
      BY <1>2, ConstantsAssumption, FrameTypes
    <2>2. Good(t)'
      BY <1>8, <2>1, PushGood DEF CallHot, HotFrame
    <2>3. Alone(t) /\ status'[t] = "running"
      BY <1>2, <1>8 DEF CallHot, Alone, Cold, Running
    <2> QED BY <1>0, <2>2, <2>3, OthersStay
  <1>9. ASSUME NEW r \in Quartet, NEW v \in UserVals, StorePinned(t, r, v)
        PROVE  HInv'
    <2>1. Alone(t) /\ status'[t] = "running"
      BY <1>2, <1>9 DEF StorePinned, Alone, Running
    <2>2. Good(t) /\ Top(t).hot /\ stack' = stack
      BY <1>9 DEF StorePinned, HInv
    <2>3. Good(t)'
      BY <2>2 DEF Good, LiveRegs, Top
    <2> QED BY <1>0, <2>1, <2>3, OthersStay
  <1>10. CASE EnterTry(t)
    <2>1. Alone(t) /\ status'[t] = "running"
      BY <1>2, <1>10 DEF EnterTry, SetTopBlocks, Alone, Cold, Running
    <2> QED BY <1>0, <1>10, <2>1, EnterTryGood, OthersStay
  <1>11. CASE LeaveBlock(t)
    <2>1. Alone(t) /\ status'[t] = "running"
      BY <1>2, <1>11 DEF LeaveBlock, SetTopBlocks, Alone, Cold, Running
    <2> QED BY <1>0, <1>11, <2>1, LeaveBlockGood, OthersStay
  <1>12. ASSUME NEW keep \in 0..MaxSerial, JumpOut(t, keep) PROVE HInv'
    <2>1. Alone(t) /\ status'[t] = "running"
      BY <1>2, <1>12 DEF JumpOut, SetTopBlocks, Alone, Cold, Running
    <2>2. keep \in Nat
      BY ConstantsAssumption
    <2> QED BY <1>0, <1>12, <2>1, <2>2, JumpOutGood, OthersStay
  <1>13. CASE RuntimeError(t)
    BY <1>0, <1>13, DispatchStep DEF RuntimeError, Cold
  <1>14. ASSUME NEW c, Exit(t, c) PROVE HInv'
    <2>1. Alone(t) /\ status'[t] = "exited"
      BY <1>2, <1>14 DEF Exit, Alone
    <2> QED BY <1>0, <2>1, OthersStay DEF Running
  <1>15. CASE BoundsError(t)
    BY <1>14, <1>15 DEF BoundsError
  <1>16. ASSUME NEW c \in Codes, Raise(t, c) \/ ThreadExit(t, c) PROVE HInv'
    BY <1>0, <1>14, <1>16, DispatchStep DEF Raise, ThreadExit
  <1>17. ASSUME NEW u \in Threads, ThreadSpawn(t, u) PROVE HInv'
    BY <1>0, <1>17, SpawnStep
  <1> QED BY <1>1, <1>4, <1>5, <1>6, <1>7, <1>8, <1>9, <1>10, <1>11, <1>12,
             <1>13, <1>15, <1>16, <1>17

\* The invariant holds initially.
LEMMA HandlerInit == Init => HInv
  <1> SUFFICES ASSUME Init PROVE HInv
    OBVIOUS
  <1>1. TInv
    BY TypeInit
  <1>2. ASSUME NEW t \in Threads, Running(t) PROVE Good(t)
    <2>1. /\ stack[t] = <<ColdFrame(0)>> /\ regs[t] = ZeroRegs
      BY <1>2 DEF Init, Running
    <2>2. Len(stack[t]) = 1 /\ stack[t][1] = ColdFrame(0)
      BY <2>1
    <2>3. ColdFrame(0).blocks = <<>> /\ ~ColdFrame(0).hot
      BY DEF ColdFrame
    <2>4. NoTry(stack[t])
      BY <2>2, <2>3 DEF NoTry
    <2>5. LiveRegs(t) = ZeroRegs /\ ZeroRegs[15] = Int(0)
      BY <2>1, <2>2, <2>3 DEF LiveRegs, Top, ZeroRegs, Quartet
    <2> QED BY <2>2, <2>4, <2>5 DEF Good, Fits
  <1>3. NeverWild
    BY DEF Init, NeverWild
  <1> QED BY <1>1, <1>2, <1>3 DEF HInv

\* In a program of the supported constructs, on every path, the quartet is the
\* open try block's, and no error jumps through a stale one
\* (cg_emit_catch_unwind_check, NODE_TRY_CATCH, the hot prologue and
\* emit_return, the clone of thread_spawn).
THEOREM HandlerSafety ==
  ASSUME Forms = {}
  PROVE  Spec => [](HandlerIsOpenTry /\ NeverWild)
  <1>1. Init => HInv
    BY HandlerInit
  <1>2. HInv /\ [Next]_vars => HInv'
    BY HandlerStep
  <1>3. HInv => HandlerIsOpenTry /\ NeverWild
    BY DEF HInv, Good, HandlerIsOpenTry
  <1> QED BY <1>1, <1>2, <1>3, PTL DEF Spec
-----------------------------------------------------------------------------
(***************************************************************************)
(* Unwind implements Handlers: in a program of the supported constructs    *)
(* every step of the registers and stacks is a step of the language's      *)
(* error rules, or none.                                                   *)
(***************************************************************************)

\* What the language sees of one thread's stack.
View(s) == [d \in 1..Len(s) |-> Visible(s[d])]

Viewed == [act : Nat, blocks : Seq(Block)]

\* The view of a stack is a stack of the language.
LEMMA ViewSeq ==
  ASSUME NEW s \in Seq(Frame)
  PROVE  /\ View(s) \in Seq(Viewed) /\ Len(View(s)) = Len(s)
         /\ \A d \in 1..Len(s) : View(s)[d] = Visible(s[d])
  <1>1. \A f \in Frame : Visible(f) \in Viewed
    BY DEF Visible, Frame, Viewed
  <1>2. \A d \in 1..Len(s) : Visible(s[d]) \in Viewed
    BY <1>1
  <1>3. Len(s) \in Nat
    OBVIOUS
  <1>4. View(s) \in [1..Len(s) -> Viewed]
    BY <1>2 DEF View
  <1>5. View(s) \in Seq(Viewed)
    BY <1>3, <1>4
  <1>6. DOMAIN View(s) = 1..Len(s)
    BY <1>4
  <1>7. Len(View(s)) = Len(s)
    BY <1>3, <1>5, <1>6
  <1> QED BY <1>5, <1>7 DEF View

\* A view commutes with a push ...
LEMMA ViewAppend ==
  ASSUME NEW s \in Seq(Frame), NEW f \in Frame
  PROVE  View(Append(s, f)) = Append(View(s), Visible(f))
  <1>1. /\ Append(s, f) \in Seq(Frame) /\ Len(Append(s, f)) = Len(s) + 1
        /\ \A i \in 1..Len(s) : Append(s, f)[i] = s[i]
        /\ Append(s, f)[Len(s) + 1] = f /\ Len(s) \in Nat
    BY AppendSeq
  <1>2. Visible(f) \in Viewed
    BY DEF Visible, Frame, Viewed
  <1> DEFINE a == View(Append(s, f))
             b == Append(View(s), Visible(f))
  <1>3. /\ a \in Seq(Viewed) /\ Len(a) = Len(s) + 1
        /\ \A i \in 1..Len(s) + 1 : a[i] = Visible(Append(s, f)[i])
    BY <1>1, ViewSeq
  <1>4. /\ b \in Seq(Viewed) /\ Len(b) = Len(s) + 1
        /\ \A i \in 1..Len(s) : b[i] = Visible(s[i])
        /\ b[Len(s) + 1] = Visible(f)
    BY <1>2, ViewSeq, AppendSeq
  <1> HIDE DEF a, b
  <1>5. ASSUME NEW i \in 1..Len(a) PROVE a[i] = b[i]
    <2>1. CASE i = Len(s) + 1
      BY <1>1, <1>3, <1>4, <2>1
    <2>2. CASE i # Len(s) + 1
      <3>1. i \in 1..Len(s)
        BY <1>1, <1>3, <2>2
      <3> QED BY <1>1, <1>3, <1>4, <3>1
    <2> QED BY <2>1, <2>2
  <1>6. a = b
    BY <1>3, <1>4, <1>5, SeqEqual
  <1> QED BY <1>6 DEF a, b

\* ... with cutting the stack at any depth ...
LEMMA ViewPrefix ==
  ASSUME NEW s \in Seq(Frame), NEW k \in 0..Len(s)
  PROVE  View(SubSeq(s, 1, k)) = SubSeq(View(s), 1, k)
  <1> DEFINE a == View(SubSeq(s, 1, k))
             b == SubSeq(View(s), 1, k)
  <1>1. /\ SubSeq(s, 1, k) \in Seq(Frame) /\ Len(SubSeq(s, 1, k)) = k
        /\ \A i \in 1..k : SubSeq(s, 1, k)[i] = s[i]
    BY PrefixSeq
  <1>2. /\ a \in Seq(Viewed) /\ Len(a) = k
        /\ \A i \in 1..k : a[i] = Visible(s[i])
    BY <1>1, ViewSeq
  <1>3. /\ View(s) \in Seq(Viewed) /\ k \in 0..Len(View(s))
        /\ \A i \in 1..Len(s) : View(s)[i] = Visible(s[i])
    BY ViewSeq
  <1>4. /\ b \in Seq(Viewed) /\ Len(b) = k
        /\ \A i \in 1..k : b[i] = View(s)[i]
    BY <1>3, PrefixSeq
  <1>5. \A i \in 1..k : i \in 1..Len(s)
    OBVIOUS
  <1> HIDE DEF a, b
  <1>6. a = b
    BY <1>2, <1>3, <1>4, <1>5, SeqEqual
  <1> QED BY <1>6 DEF a, b

\* ... and with a pop.
LEMMA ViewPop ==
  ASSUME NEW s \in Seq(Frame), s # <<>>
  PROVE  View(Pop(s)) = Lang!Pop(View(s))
  <1>1. Len(s) - 1 \in 0..Len(s) /\ Len(View(s)) = Len(s)
    <2>1. Len(s) \in Nat /\ Len(s) # 0
      OBVIOUS
    <2> QED BY <2>1, ViewSeq
  <1> QED BY <1>1, ViewPrefix DEF Pop, Lang!Pop

\* Other blocks of an activation are other blocks of what is seen of it.
LEMMA VisibleWith ==
  ASSUME NEW f \in Frame, NEW bs \in Seq(Block)
  PROVE  /\ [f EXCEPT !.blocks = bs] \in Frame
         /\ Visible([f EXCEPT !.blocks = bs]) = [Visible(f) EXCEPT !.blocks = bs]
  <1> DEFINE g == [f EXCEPT !.blocks = bs]
  <1>1. g \in Frame
    BY DEF Frame
  <1>2. g.act = f.act /\ g.blocks = bs
    BY DEF Frame
  <1>3. Visible(g) = [act |-> f.act, blocks |-> bs]
    BY <1>2 DEF Visible
  <1>4. [Visible(f) EXCEPT !.blocks = bs] = [act |-> f.act, blocks |-> bs]
    BY DEF Visible
  <1> QED BY <1>1, <1>3, <1>4

\* The top frame with other blocks.
LEMMA ViewTop ==
  ASSUME NEW s \in Seq(Frame), s # <<>>, NEW bs \in Seq(Block)
  PROVE  View(Append(Pop(s), [s[Len(s)] EXCEPT !.blocks = bs]))
           = [View(s) EXCEPT ![Len(s)].blocks = bs]
  <1> DEFINE f == [s[Len(s)] EXCEPT !.blocks = bs]
             r == Append(Pop(s), f)
             v == View(s)
             e == [v[Len(s)] EXCEPT !.blocks = bs]
             w == [v EXCEPT ![Len(s)] = e]
  <1>1. Len(s) \in Nat /\ Len(s) \in 1..Len(s) /\ s[Len(s)] \in Frame
    BY PopSeq
  <1>2. f \in Frame /\ Visible(f) = [Visible(s[Len(s)]) EXCEPT !.blocks = bs]
    BY <1>1, VisibleWith
  <1>3. /\ r \in Seq(Frame) /\ Len(r) = Len(s) /\ r[Len(s)] = f
        /\ \A i \in 1..(Len(s) - 1) : r[i] = s[i]
    BY <1>2, TopSeq
  <1>4. /\ v \in Seq(Viewed) /\ Len(v) = Len(s)
        /\ \A i \in 1..Len(s) : v[i] = Visible(s[i])
    BY ViewSeq
  <1>5. e = Visible(f) /\ e \in Viewed
    <2>1. Visible(f) \in Viewed
      BY <1>2 DEF Visible, Frame, Viewed
    <2> QED BY <1>1, <1>2, <1>4, <2>1
  <1> HIDE DEF f, r, v, e
  <1>6. /\ w \in Seq(Viewed) /\ Len(w) = Len(s)
        /\ \A i \in 1..Len(s) : w[i] = IF i = Len(s) THEN e ELSE v[i]
    BY <1>1, <1>4, <1>5
  <1>7. /\ View(r) \in Seq(Viewed) /\ Len(View(r)) = Len(s)
        /\ \A i \in 1..Len(s) : View(r)[i] = Visible(r[i])
    BY <1>3, ViewSeq
  <1> HIDE DEF w
  <1>8. ASSUME NEW i \in 1..Len(s) PROVE View(r)[i] = w[i]
    <2>1. CASE i = Len(s)
      BY <1>3, <1>5, <1>6, <1>7, <2>1
    <2>2. CASE i # Len(s)
      <3>1. i \in 1..(Len(s) - 1)
        BY <1>1, <2>2
      <3> QED BY <1>3, <1>4, <1>6, <1>7, <2>2, <3>1
    <2> QED BY <2>1, <2>2
  <1>9. View(r) = w
    BY <1>6, <1>7, <1>8, SeqEqual
  <1> QED BY <1>9 DEF w, e, v, r, f

\* What the language sees, written with View.
LEMMA FramesAre == frames = [t \in Threads |-> View(stack[t])]
  BY DEF frames, View

\* A step that replaces one thread's stack replaces its view.
LEMMA FramesNext ==
  ASSUME TInv, NEW t \in Threads, NEW r, stack' = [stack EXCEPT ![t] = r]
  PROVE  frames' = [frames EXCEPT ![t] = View(r)]
  <1>1. \A u \in Threads : stack'[u] = IF u = t THEN r ELSE stack[u]
    BY DEF TInv, TypeOK
  <1>2. frames' = [u \in Threads |-> View(stack'[u])]
    BY DEF frames, View
  <1>3. frames' = [u \in Threads |-> IF u = t THEN View(r) ELSE View(stack[u])]
    BY <1>1, <1>2
  <1>4. [frames EXCEPT ![t] = View(r)]
          = [u \in Threads |-> IF u = t THEN View(r) ELSE View(stack[u])]
    BY FramesAre
  <1> QED BY <1>3, <1>4

\* The language's operators on its own stacks, read off the machine's.
LEMMA LangStack ==
  ASSUME TInv, NEW t \in Threads, Running(t)
  PROVE  /\ frames[t] = View(stack[t]) /\ Len(frames[t]) = Len(stack[t])
         /\ \A d \in 1..Len(stack[t]) :
              frames[t][d].act = stack[t][d].act /\ frames[t][d].blocks = stack[t][d].blocks
         /\ Lang!Running(t)
         /\ Lang!Top(t).blocks = Top(t).blocks
  <1>1. stack[t] \in Seq(Frame) /\ stack[t] # <<>>
    BY DEF TInv, TypeOK, HasFrame
  <1>2. frames[t] = View(stack[t])
    BY FramesAre
  <1>3. Len(frames[t]) = Len(stack[t])
    BY <1>1, <1>2, ViewSeq
  <1>4. ASSUME NEW d \in 1..Len(stack[t])
        PROVE  frames[t][d].act = stack[t][d].act /\ frames[t][d].blocks = stack[t][d].blocks
    <2>1. frames[t][d] = Visible(stack[t][d])
      BY <1>1, <1>2, ViewSeq
    <2> QED BY <2>1 DEF Visible
  <1>5. Len(stack[t]) \in 1..Len(stack[t])
    BY <1>1, PopSeq
  <1>6. Lang!Running(t)
    BY DEF Running, Lang!Running
  <1> QED BY <1>2, <1>3, <1>4, <1>5, <1>6 DEF Top, Lang!Top

\* A stack without an open try block: the language says so too.
LEMMA LangNoTry ==
  ASSUME TInv, NEW t \in Threads, Running(t), NoTry(stack[t])
  PROVE  Lang!NoOpenTry(t)
  BY LangStack DEF NoTry, Lang!NoOpenTry

\* Try block j of activation d is the innermost open one of the stack s.
InnermostIn(s, d, j) ==
  /\ s[d].blocks[j].part = "try"
  /\ \A e \in 1..Len(s) : \A k \in 1..Len(s[e].blocks) :
       s[e].blocks[k].part = "try" => e < d \/ (e = d /\ k <= j)

\* The innermost open try block is the language's.
LEMMA LangInnermost ==
  ASSUME TInv, NEW t \in Threads, Running(t),
         NEW d \in 1..Len(stack[t]), NEW j \in 1..Len(stack[t][d].blocks),
         InnermostIn(stack[t], d, j)
  PROVE  Lang!Innermost(t, d, j)
  BY LangStack DEF InnermostIn, Lang!Innermost, Lang!Open

\* A jump through the quartet of the innermost open try block is what the
\* language does with an error.
LEMMA ResumeIsCatch ==
  ASSUME TInv, NEW t \in Threads, Running(t), Resume(t),
         NEW d \in 1..Len(stack[t]), NEW j \in 1..Len(stack[t][d].blocks),
         InnermostIn(stack[t], d, j), Armed(t, stack[t], d, j, regs[t]), NEW c
  PROVE  Lang!Error(t, c)
  <1> DEFINE s  == stack[t]
             b  == s[d].blocks
             x  == [id |-> b[j].id, part |-> "catch"]
             bs == Append(SubSeq(b, 1, j - 1), x)
             f  == [s[d] EXCEPT !.blocks = bs]
             p  == SubSeq(s, 1, d - 1)
             r  == Append(p, f)
  <1>1. regs[t][12].depth = d /\ regs[t][14].at = bs
    BY DEF Armed, StackPos, CodePos
  <1>2. stack' = [stack EXCEPT ![t] = r]
    <2>1. stack' = [stack EXCEPT ![t] =
              Append(SubSeq(@, 1, regs[t][12].depth - 1),
                     [@[regs[t][12].depth] EXCEPT !.blocks = regs[t][14].at])]
      BY DEF Resume
    <2> QED BY <1>1, <2>1
  <1>3. /\ s \in Seq(Frame) /\ Len(s) \in Nat /\ s[d] \in Frame
        /\ b \in Seq(Block) /\ Len(b) \in Nat /\ b[j] \in Block
    <2>1. s \in Seq(Frame)
      BY DEF TInv, TypeOK
    <2>2. s[d] \in Frame /\ Len(s) \in Nat
      BY <2>1
    <2>3. b \in Seq(Block)
      BY <2>2 DEF Frame
    <2>4. Len(b) \in Nat /\ b[j] \in Block
      BY <2>3
    <2> QED BY <2>1, <2>2, <2>3, <2>4
  <1>4. d - 1 \in 0..Len(s) /\ j - 1 \in 0..Len(b)
    BY <1>3
  <1>5. bs \in Seq(Block)
    <2>1. SubSeq(b, 1, j - 1) \in Seq(Block)
      BY <1>3, <1>4, PrefixSeq
    <2>2. x \in Block
      BY <1>3 DEF Block, Parts
    <2> QED BY <2>1, <2>2
  <1> HIDE DEF bs
  <1>6. f \in Frame /\ Visible(f) = [Visible(s[d]) EXCEPT !.blocks = bs]
    BY <1>3, <1>5, VisibleWith
  <1>7. p \in Seq(Frame) /\ View(p) = SubSeq(View(s), 1, d - 1)
    BY <1>3, <1>4, PrefixSeq, ViewPrefix
  <1> HIDE DEF f, p
  <1>8. View(r) = Append(SubSeq(View(s), 1, d - 1), [Visible(s[d]) EXCEPT !.blocks = bs])
    BY <1>6, <1>7, ViewAppend
  <1>9. frames' = [frames EXCEPT ![t] = View(r)]
    BY <1>2, FramesNext
  <1>10. /\ frames[t] = View(s) /\ frames[t][d] = Visible(s[d])
         /\ frames[t][d].blocks = b
    BY <1>3, LangStack, ViewSeq
  <1>11. bs = Append(SubSeq(frames[t][d].blocks, 1, j - 1),
                     Lang!CatchBlock(frames[t][d].blocks[j].id))
    BY <1>10 DEF bs, Lang!CatchBlock
  <1>12. Lang!CatchAt(t, d, j)
    <2>1. frames' = [frames EXCEPT ![t] =
              Append(SubSeq(frames[t], 1, d - 1), [frames[t][d] EXCEPT !.blocks =
                Append(SubSeq(frames[t][d].blocks, 1, j - 1),
                       Lang!CatchBlock(frames[t][d].blocks[j].id))])]
      BY <1>8, <1>9, <1>10, <1>11
    <2> QED BY <2>1 DEF Lang!CatchAt
  <1>13. Lang!Innermost(t, d, j)
    BY LangInnermost
  <1>14. UNCHANGED <<status, exitCode, serial>>
    BY DEF Resume
  <1>15. d \in 1..Len(frames[t]) /\ j \in 1..Len(frames[t][d].blocks)
    BY <1>10, LangStack
  <1>16. Lang!Running(t)
    BY LangStack
  <1> QED BY <1>12, <1>13, <1>14, <1>15, <1>16 DEF Lang!Error
-----------------------------------------------------------------------------
(* One construct, one step of the language. *)

\* A call: hot functions push the quartet, which the language does not see.
LEMMA CallRefines ==
  ASSUME TInv, NEW t \in Threads, Running(t), NEW f \in Frame,
         f.act = serial, f.blocks = <<>>,
         Len(stack[t]) < MaxFrames, Fresh,
         stack' = [stack EXCEPT ![t] = Append(@, f)], UNCHANGED <<status, exitCode>>
  PROVE  Lang!Call(t)
  <1>1. stack[t] \in Seq(Frame)
    BY DEF TInv, TypeOK
  <1>2. View(Append(stack[t], f)) = Append(View(stack[t]), Visible(f))
    BY <1>1, ViewAppend
  <1>3. Visible(f) = Lang!NewFrame(serial)
    BY DEF Visible, Lang!NewFrame
  <1>4. frames' = [frames EXCEPT ![t] = View(Append(stack[t], f))]
    BY FramesNext
  <1>5. frames[t] = View(stack[t]) /\ Len(frames[t]) = Len(stack[t]) /\ Lang!Running(t)
    BY LangStack
  <1>6. frames' = [frames EXCEPT ![t] = Append(@, Lang!NewFrame(serial))]
    BY <1>2, <1>3, <1>4, <1>5
  <1> QED BY <1>5, <1>6 DEF Lang!Call, Fresh

\* A return, hot or cold, is the language's, or ends the thread.
LEMMA ReturnRefines ==
  ASSUME TInv, NEW t \in Threads, Return(t)
  PROVE  Lang!Return(t)
  <1>1. Running(t) /\ stack' = [stack EXCEPT ![t] = Pop(stack[t])]
    BY DEF Return
  <1>2. stack[t] \in Seq(Frame) /\ stack[t] # <<>>
    BY <1>1 DEF TInv, TypeOK, HasFrame
  <1>3. frames' = [frames EXCEPT ![t] = View(Pop(stack[t]))]
    BY <1>1, FramesNext
  <1>4. frames[t] = View(stack[t]) /\ Len(frames[t]) = Len(stack[t]) /\ Lang!Running(t)
    BY <1>1, LangStack
  <1>5. frames' = [frames EXCEPT ![t] = Lang!Pop(@)]
    BY <1>2, <1>3, <1>4, ViewPop
  <1> QED BY <1>4, <1>5 DEF Return, Lang!Return

\* A self tail call gives the activation a new number.
LEMMA TailCallRefines ==
  ASSUME TInv, NEW t \in Threads, TailCall(t)
  PROVE  Lang!TailCall(t)
  <1> DEFINE f == ColdFrame(serial)
  <1>1. Running(t) /\ stack' = [stack EXCEPT ![t] = Append(Pop(stack[t]), f)]
    BY DEF TailCall, Cold
  <1>2. stack[t] \in Seq(Frame) /\ stack[t] # <<>>
    BY <1>1 DEF TInv, TypeOK, HasFrame
  <1>3. f \in Frame /\ Visible(f) = Lang!NewFrame(serial)
    <2>1. serial \in Nat /\ ZeroRegs \in RegFile /\ 0 \in 0..4
      BY DEF TInv, TypeOK, ZeroRegs, RegFile, Int, Word
    <2>2. f \in Frame
      BY <2>1, FrameTypes
    <2> QED BY <2>2 DEF ColdFrame, Visible, Lang!NewFrame
  <1> HIDE DEF f
  <1>4. Pop(stack[t]) \in Seq(Frame)
    BY <1>2, PopSeq
  <1>5. View(Append(Pop(stack[t]), f))
          = Append(Lang!Pop(View(stack[t])), Lang!NewFrame(serial))
    BY <1>2, <1>3, <1>4, ViewAppend, ViewPop
  <1>6. frames' = [frames EXCEPT ![t] = View(Append(Pop(stack[t]), f))]
    BY <1>1, FramesNext
  <1>7. frames[t] = View(stack[t]) /\ Lang!Running(t)
    BY <1>1, LangStack
  <1>8. frames' = [frames EXCEPT ![t] = Append(Lang!Pop(@), Lang!NewFrame(serial))]
    BY <1>5, <1>6, <1>7
  <1> QED BY <1>7, <1>8 DEF TailCall, Fresh, Lang!TailCall

\* Other blocks of the innermost activation, everything else alone.
LEMMA SetTopRefines ==
  ASSUME TInv, NEW t \in Threads, Running(t), NEW bs \in Seq(Block),
         SetTopBlocks(t, bs)
  PROVE  Lang!SetTopBlocks(t, bs)
  <1>1. stack[t] \in Seq(Frame) /\ stack[t] # <<>>
    BY DEF TInv, TypeOK, HasFrame
  <1>2. stack' = [stack EXCEPT ![t] =
                    Append(Pop(stack[t]), [stack[t][Len(stack[t])] EXCEPT !.blocks = bs])]
    BY DEF SetTopBlocks, Top
  <1>3. frames' = [frames EXCEPT ![t] = [View(stack[t]) EXCEPT ![Len(stack[t])].blocks = bs]]
    BY <1>1, <1>2, FramesNext, ViewTop
  <1>4. frames[t] = View(stack[t]) /\ Len(frames[t]) = Len(stack[t])
    BY LangStack
  <1> QED BY <1>3, <1>4 DEF Lang!SetTopBlocks

\* Writing the quartet opens the language's try block.
LEMMA EnterTryRefines ==
  ASSUME TInv, NEW t \in Threads, EnterTry(t)
  PROVE  Lang!EnterTry(t)
  <1> DEFINE bs == Append(Top(t).blocks, [id |-> serial, part |-> "try"])
  <1>1. Running(t) /\ SetTopBlocks(t, bs)
    BY DEF EnterTry, Cold
  <1>2. Top(t).blocks \in Seq(Block)
    <2>1. stack[t] \in Seq(Frame) /\ stack[t] # <<>>
      BY <1>1 DEF TInv, TypeOK, HasFrame
    <2>2. Top(t) \in Frame
      BY <2>1, PopSeq DEF Top
    <2> QED BY <2>2 DEF Frame
  <1>3. bs \in Seq(Block)
    <2>1. [id |-> serial, part |-> "try"] \in Block
      BY DEF TInv, TypeOK, Block, Parts
    <2> QED BY <1>2, <2>1
  <1>4. bs = Append(Lang!Top(t).blocks, Lang!TryBlock(serial))
    BY <1>1, LangStack DEF Lang!TryBlock
  <1>5. Lang!SetTopBlocks(t, bs)
    BY <1>1, <1>3, SetTopRefines
  <1>6. Lang!Running(t)
    BY <1>1, LangStack
  <1> HIDE DEF bs
  <1> QED BY <1>4, <1>5, <1>6 DEF EnterTry, Fresh, Lang!EnterTry

\* The end of a block, or of several.
LEMMA LeaveRefines ==
  ASSUME TInv, NEW t \in Threads, Running(t), NEW keep \in Nat,
         keep < Len(Top(t).blocks), SetTopBlocks(t, SubSeq(Top(t).blocks, 1, keep)),
         UNCHANGED <<status, exitCode, serial>>
  PROVE  Lang!LeaveBlocks(t)
  <1>1. Top(t).blocks \in Seq(Block) /\ Len(Top(t).blocks) \in Nat
    <2>1. stack[t] \in Seq(Frame) /\ stack[t] # <<>>
      BY DEF TInv, TypeOK, HasFrame
    <2>2. Top(t) \in Frame
      BY <2>1, PopSeq DEF Top
    <2>3. Top(t).blocks \in Seq(Block)
      BY <2>2 DEF Frame
    <2> QED BY <2>3
  <1>2. keep \in 0..Len(Top(t).blocks) /\ keep \in 0..(Len(Top(t).blocks) - 1)
    BY <1>1
  <1>3. SubSeq(Top(t).blocks, 1, keep) \in Seq(Block)
    BY <1>1, <1>2, PrefixSeq
  <1>4. Lang!SetTopBlocks(t, SubSeq(Top(t).blocks, 1, keep))
    BY <1>3, SetTopRefines
  <1>5. Lang!Top(t).blocks = Top(t).blocks /\ Lang!Running(t)
    BY LangStack
  <1> QED BY <1>2, <1>4, <1>5 DEF Lang!LeaveBlocks

\* The exit system call ends the thread.
LEMMA ExitRefines ==
  ASSUME TInv, NEW t \in Threads, Running(t), NEW c, Exit(t, c)
  PROVE  Lang!Exit(t, c)
  <1>1. frames' = frames
    BY DEF Exit, frames
  <1>2. Lang!Running(t)
    BY LangStack
  <1> QED BY <1>1, <1>2 DEF Exit, Lang!Exit

\* An error without an open try block.
LEMMA UncaughtRefines ==
  ASSUME TInv, NEW t \in Threads, Running(t), NEW c, Exit(t, c), NoTry(stack[t])
  PROVE  Lang!Error(t, c)
  <1>1. Lang!Exit(t, c) /\ Lang!NoOpenTry(t) /\ Lang!Running(t)
    BY ExitRefines, LangNoTry, LangStack
  <1> QED BY <1>1 DEF Lang!Error

\* A clone starts the language's thread.
LEMMA SpawnRefines ==
  ASSUME TInv, NEW t \in Threads, NEW u \in Threads, ThreadSpawn(t, u)
  PROVE  Lang!Spawn(t, u)
  <1>1. PICK f \in WorkerFrames(t) : stack' = [stack EXCEPT ![u] = <<f>>]
    BY DEF ThreadSpawn
  <1>2. f.act = serial /\ f.blocks = <<>>
    BY <1>1 DEF WorkerFrames, ColdFrame, HotFrame
  <1>3. f \in Frame
    <2>1. /\ serial \in Nat /\ ZeroRegs \in RegFile /\ 0 \in 0..4
          /\ regs[t] \in RegFile /\ \A k \in PinCounts : k \in 0..4
      BY ConstantsAssumption DEF TInv, TypeOK, ZeroRegs, RegFile, Int, Word
    <2> QED BY <1>1, <2>1, FrameTypes DEF WorkerFrames
  <1>4. View(<<f>>) = <<Lang!NewFrame(serial)>>
    <2>1. Visible(f) = Lang!NewFrame(serial)
      BY <1>2 DEF Visible, Lang!NewFrame
    <2>2. <<f>> \in Seq(Frame) /\ Len(<<f>>) = 1 /\ <<f>>[1] = f
      BY <1>3
    <2>3. View(<<f>>) = [d \in 1..1 |-> Lang!NewFrame(serial)]
      BY <2>1, <2>2 DEF View
    <2> QED BY <2>3
  <1>5. frames' = [frames EXCEPT ![u] = View(<<f>>)]
    BY <1>1, FramesNext
  <1>6. frames' = [frames EXCEPT ![u] = <<Lang!NewFrame(serial)>>]
    BY <1>4, <1>5
  <1> QED BY <1>6 DEF ThreadSpawn, Fresh, Cold, Running, Lang!Spawn, Lang!Running
-----------------------------------------------------------------------------
\* An error in a program of the supported constructs: the quartet is the
\* innermost open try block's, or there is none.
LEMMA DispatchRefines ==
  ASSUME HInv, NEW t \in Threads, Cold(t), NEW c, Dispatch(t, c)
  PROVE  Lang!Error(t, c)
  <1>1. TInv /\ Running(t) /\ Fits(t, stack[t], regs[t])
    BY RunningFacts DEF HInv, Cold, Good, LiveRegs
  <1>2. CASE regs[t][15] = Int(0)
    <2>1. Exit(t, c)
      BY <1>2 DEF Dispatch
    <2>2. Int(0) # Int(1)
      BY DEF Int
    <2>3. NoTry(stack[t])
      BY <1>1, <1>2, <2>2 DEF Fits, Armed
    <2> QED BY <1>1, <2>1, <2>3, UncaughtRefines
  <1>3. CASE regs[t][15] # Int(0)
    <2>1. Unwind(t)
      BY <1>3 DEF Dispatch
    <2>2. Resume(t)
      BY <1>3, <2>1, UnwindGood
    <2>3. PICK d \in 1..Len(stack[t]) : \E j \in 1..Len(stack[t][d].blocks) :
             OnlyTry(stack[t], d, j) /\ Armed(t, stack[t], d, j, regs[t])
      BY <1>1, <1>3 DEF Fits
    <2>4. PICK j \in 1..Len(stack[t][d].blocks) :
             OnlyTry(stack[t], d, j) /\ Armed(t, stack[t], d, j, regs[t])
      BY <2>3
    <2>5. InnermostIn(stack[t], d, j)
      BY <2>4 DEF OnlyTry, InnermostIn
    <2> QED BY <1>1, <2>2, <2>4, <2>5, ResumeIsCatch
  <1> QED BY <1>2, <1>3

\* Every step of the registers and stacks is a step of the language.
LEMMA StepRefines ==
  ASSUME Forms = {}, HInv, [Next]_vars
  PROVE  [Lang!Next]_(Lang!hvars)
  <1>0. TInv /\ \A form : ~Uses(form)
    BY DEF HInv, Uses
  <1>u. CASE UNCHANGED vars
    BY <1>u DEF vars, frames, Lang!hvars
  <1>1. SUFFICES ASSUME NEW t \in Threads,
            \/ CallCold(t) \/ Return(t) \/ FallOffHot(t) \/ TailCall(t)
            \/ \E k \in PinCounts : CallHot(t, k)
            \/ \E r \in Quartet, v \in UserVals : StorePinned(t, r, v)
            \/ EnterTry(t) \/ LeaveBlock(t)
            \/ \E keep \in 0..MaxSerial : JumpOut(t, keep)
            \/ RuntimeError(t) \/ BoundsError(t)
            \/ \E c \in Codes : Raise(t, c) \/ ThreadExit(t, c)
            \/ \E u \in Threads : ThreadSpawn(t, u)
        PROVE Lang!Next \/ UNCHANGED Lang!hvars
    BY <1>u DEF Next
  <1>2. serial \in Nat /\ regs[t] \in RegFile /\ ZeroRegs \in RegFile /\ 0 \in 0..4
    BY <1>0 DEF TInv, TypeOK, ZeroRegs, RegFile, Int, Word
  <1>3. CASE CallCold(t)
    <2>1. ColdFrame(serial) \in Frame
      BY <1>2, FrameTypes
    <2>2. Lang!Call(t)
      BY <1>0, <1>3, <2>1, CallRefines DEF CallCold, Cold, ColdFrame
    <2> QED BY <2>2 DEF Lang!Next
  <1>4. CASE Return(t)
    BY <1>0, <1>4, ReturnRefines DEF Lang!Next
  <1>5. CASE FallOffHot(t)
    BY <1>0, <1>5 DEF FallOffHot
  <1>6. CASE TailCall(t)
    BY <1>0, <1>6, TailCallRefines DEF Lang!Next
  <1>7. ASSUME NEW k \in PinCounts, CallHot(t, k) PROVE Lang!Next
    <2>1. HotFrame(serial, regs[t], k) \in Frame
      BY <1>2, ConstantsAssumption, FrameTypes
    <2>2. Lang!Call(t)
      BY <1>0, <1>7, <2>1, CallRefines DEF CallHot, Cold, HotFrame
    <2> QED BY <2>2 DEF Lang!Next
  <1>8. ASSUME NEW r \in Quartet, NEW v \in UserVals, StorePinned(t, r, v)
        PROVE  UNCHANGED Lang!hvars
    BY <1>8 DEF StorePinned, frames, Lang!hvars
  <1>9. CASE EnterTry(t)
    BY <1>0, <1>9, EnterTryRefines DEF Lang!Next
  <1>10. CASE LeaveBlock(t)
    <2> DEFINE keep == Len(Top(t).blocks) - 1
    <2>1. /\ Running(t) /\ Top(t).blocks # <<>>
          /\ SetTopBlocks(t, SubSeq(Top(t).blocks, 1, keep))
          /\ UNCHANGED <<status, exitCode, serial>>
      BY <1>10 DEF LeaveBlock, Cold, Pop
    <2>2. keep \in Nat /\ keep < Len(Top(t).blocks)
      <3>1. Top(t).blocks \in Seq(Block)
        BY <2>1, RunningFacts
      <3>2. Len(Top(t).blocks) \in Nat /\ Len(Top(t).blocks) # 0
        BY <2>1, <3>1
      <3> QED BY <3>2
    <2> HIDE DEF keep
    <2> QED BY <1>0, <2>1, <2>2, LeaveRefines DEF Lang!Next
  <1>11. ASSUME NEW keep \in 0..MaxSerial, JumpOut(t, keep) PROVE Lang!Next
    <2>1. keep \in Nat
      BY ConstantsAssumption
    <2> QED BY <1>0, <1>11, <2>1, LeaveRefines DEF JumpOut, Cold, Lang!Next
  <1>12. CASE RuntimeError(t)
    <2>1. Cold(t) /\ Dispatch(t, 1)
      BY <1>0, <1>12 DEF RuntimeError, Cold
    <2>2. Lang!Error(t, 1)
      BY <2>1, DispatchRefines
    <2> QED BY <2>2 DEF Lang!Next
  <1>13. CASE BoundsError(t)
    <2>1. Lang!Error(t, 1)
      BY <1>0, <1>13, UncaughtRefines DEF BoundsError, NoOpenTry
    <2> QED BY <2>1 DEF Lang!Next
  <1>14. ASSUME NEW c \in Codes, Raise(t, c) PROVE Lang!Next
    <2>1. Lang!Error(t, c)
      BY <1>14, DispatchRefines DEF Raise
    <2> QED BY <2>1 DEF Lang!Next
  <1>15. ASSUME NEW c \in Codes, ThreadExit(t, c) PROVE Lang!Next
    <2>1. Lang!Exit(t, c)
      BY <1>0, <1>15, ExitRefines DEF ThreadExit, Cold
    <2> QED BY <2>1 DEF Lang!Next
  <1>16. ASSUME NEW u \in Threads, ThreadSpawn(t, u) PROVE Lang!Next
    BY <1>0, <1>16, SpawnRefines DEF Lang!Next
  <1> QED BY <1>1, <1>3, <1>4, <1>5, <1>6, <1>7, <1>8, <1>9, <1>10, <1>11,
             <1>12, <1>13, <1>14, <1>15, <1>16

\* One thread with one activation, to the language too.
LEMMA InitRefines == Init => Lang!Init
  <1> SUFFICES ASSUME Init PROVE Lang!Init
    OBVIOUS
  <1>1. ASSUME NEW t \in Threads
        PROVE  View(stack[t]) = IF t = Main THEN <<Lang!NewFrame(0)>> ELSE <<>>
    <2>1. CASE t = Main
      <3>1. Len(stack[t]) = 1 /\ stack[t][1] = ColdFrame(0)
        BY <2>1 DEF Init
      <3>2. View(stack[t]) = [d \in 1..1 |-> Lang!NewFrame(0)]
        BY <3>1 DEF View, Visible, ColdFrame, Lang!NewFrame
      <3> QED BY <2>1, <3>2
    <2>2. CASE t # Main
      <3>1. stack[t] = <<>> /\ Len(stack[t]) = 0
        BY <2>2 DEF Init
      <3>2. View(stack[t]) = [d \in {} |-> Visible(stack[t][d])]
        BY <3>1 DEF View
      <3> QED BY <2>2, <3>2
    <2> QED BY <2>1, <2>2
  <1>2. frames = [t \in Threads |-> IF t = Main THEN <<Lang!NewFrame(0)>> ELSE <<>>]
    BY <1>1, FramesAre
  <1> QED BY <1>2 DEF Init, Lang!Init

\* LanguageRules: a program of the supported constructs follows the language's
\* error rules on every path, for any threads, codes, bounds and locals
\* (NODE_TRY_CATCH, cg_emit_catch_unwind_check, the hot prologue, emit_return).
THEOREM FollowsTheLanguage ==
  ASSUME Forms = {}
  PROVE  Spec => LanguageRules
  <1>1. Init => HInv
    BY HandlerInit
  <1>2. HInv /\ [Next]_vars => HInv'
    BY HandlerStep
  <1>3. HInv /\ [Next]_vars => [Lang!Next]_(Lang!hvars)
    BY StepRefines
  <1> QED BY <1>1, <1>2, <1>3, InitRefines, PTL
          DEF Spec, LanguageRules, Lang!HandlersSpec
-----------------------------------------------------------------------------
(***************************************************************************)
(* Programs that use more than the supported constructs.  Whatever they    *)
(* do, unless a hot function fails, the quartet an activation lives with   *)
(* is one that EnterTry wrote, perhaps another thread's, or is disarmed.   *)
(***************************************************************************)

HotOnTop(t) == \A d \in 1..(Len(stack[t]) - 1) : ~stack[t][d].hot

\* The try block whose catch part the quartet q leads to.
Caught(q) == q[14].at[Len(q[14].at)].id

\* q is disarmed, or one that a started thread (st: the threads' status) wrote
\* for a try block numbered below n.
WellMade(q, st, n) ==
  q[15] # Int(0) =>
    /\ q[12].kind = "stack" /\ st[q[12].thread] # "unborn"
    /\ q[14].kind = "code" /\ q[14].at # <<>> /\ Caught(q) < n

QInv ==
  /\ TInv
  /\ \A t \in Threads : Running(t) =>
       HotOnTop(t) /\ WellMade(LiveRegs(t), status, serial)

\* What a step does to the quartet its thread lives with: the thread goes on
\* with it, disarms it, arms it anew, jumps through it, or ends; it jumps
\* through one that it cannot resume, or starts another thread with it.
GoesOn(t) ==
  /\ Alone(t) /\ Running(t) /\ status'[t] = "running" /\ HotOnTop(t)'

Keeps(t) ==
  /\ GoesOn(t) /\ (LiveRegs(t))' = LiveRegs(t)
  /\ serial' \in {serial, serial + 1} /\ catches' = catches

Disarms(t) ==
  /\ GoesOn(t) /\ (LiveRegs(t))'[15] = Int(0)
  /\ serial' = serial /\ catches' = catches

Arms(t) ==
  /\ GoesOn(t)
  /\ LET q == (LiveRegs(t))' IN
       /\ q[12].kind = "stack" /\ q[12].thread = t
       /\ q[14].kind = "code" /\ q[14].at # <<>> /\ Caught(q) = serial
  /\ serial' = serial + 1 /\ catches' = catches

Catches(t) ==
  /\ GoesOn(t) /\ (LiveRegs(t))'[15] = Int(0)
  /\ LiveRegs(t)[15] # Int(0) /\ LiveRegs(t)[12].thread = t
  /\ catches' = [catches EXCEPT ![Caught(LiveRegs(t))] = @ + 1]
  /\ serial' = serial

Ends(t) ==
  /\ Alone(t) /\ status'[t] \in {"exited", "wild"}
  /\ status'[t] = "wild" => Uses("falloff")
  /\ serial' = serial /\ catches' = catches

Strays(t) ==
  /\ Alone(t) /\ status'[t] = "wild" /\ serial' = serial
  /\ Cold(t) /\ regs[t][15] # Int(0) /\ ~Resumable(t)

Starts(t, u) ==
  /\ NoOpenTry(t) \/ Uses("spawn")
  /\ Alone(u) /\ Running(t) /\ status[u] = "unborn" /\ status'[u] = "running"
  /\ HotOnTop(u)' /\ (LiveRegs(u))' = LiveRegs(t)
  /\ serial' = serial + 1 /\ catches' = catches

\* What the type invariant says of a running thread.
LEMMA RunningTypes ==
  ASSUME TInv, NEW t \in Threads, Running(t)
  PROVE  /\ stack[t] \in Seq(Frame) /\ stack[t] # <<>>
         /\ Len(stack[t]) \in Nat /\ Len(stack[t]) \in 1..Len(stack[t])
         /\ Top(t) \in Frame /\ Top(t).blocks \in Seq(Block)
         /\ Len(Top(t).blocks) \in Nat /\ regs[t] \in RegFile
         /\ LiveRegs(t) \in RegFile
  <1>1. stack[t] \in Seq(Frame) /\ stack[t] # <<>> /\ regs[t] \in RegFile
    BY DEF TInv, TypeOK, HasFrame
  <1>2. /\ Len(stack[t]) \in Nat /\ Len(stack[t]) \in 1..Len(stack[t])
        /\ Top(t) \in Frame
    BY <1>1, PopSeq DEF Top
  <1>3. Top(t).blocks \in Seq(Block) /\ Top(t).saved \in RegFile
    BY <1>2 DEF Frame
  <1>4. Len(Top(t).blocks) \in Nat
    BY <1>3
  <1> QED BY <1>1, <1>2, <1>3, <1>4 DEF LiveRegs

\* The quartet that is lived with after a push, ...
LEMMA PushLive ==
  ASSUME TInv, NEW t \in Threads, Cold(t), HotOnTop(t), NEW f \in Frame,
         stack' = [stack EXCEPT ![t] = Append(@, f)], regs' = regs,
         f.hot => f.saved = regs[t]
  PROVE  HotOnTop(t)' /\ (LiveRegs(t))' = LiveRegs(t)
  <1>1. /\ stack[t] \in Seq(Frame) /\ Len(stack[t]) \in Nat /\ ~Top(t).hot
        /\ Len(stack[t]) \in 1..Len(stack[t])
    BY RunningTypes DEF Cold
  <1>2. stack'[t] = Append(stack[t], f)
    BY DEF TInv, TypeOK
  <1>3. /\ Len(stack'[t]) = Len(stack[t]) + 1
        /\ stack'[t][Len(stack[t]) + 1] = f
        /\ \A i \in 1..Len(stack[t]) : stack'[t][i] = stack[t][i]
    BY <1>1, <1>2, AppendSeq
  <1>4. (LiveRegs(t))' = LiveRegs(t)
    BY <1>1, <1>3 DEF LiveRegs, Top
  <1>5. ASSUME NEW d \in 1..(Len(stack'[t]) - 1) PROVE ~stack'[t][d].hot
    <2>1. d \in 1..Len(stack[t]) /\ stack'[t][d] = stack[t][d]
      BY <1>1, <1>3
    <2>2. CASE d = Len(stack[t])
      BY <1>1, <2>1, <2>2 DEF Top
    <2>3. CASE d # Len(stack[t])
      BY <1>1, <2>1, <2>3 DEF HotOnTop
    <2> QED BY <2>2, <2>3
  <1> QED BY <1>4, <1>5 DEF HotOnTop

\* ... a return (a hot one takes its copy along), ...
LEMMA ReturnLive ==
  ASSUME TInv, NEW t \in Threads, HotOnTop(t), Return(t), status'[t] = "running"
  PROVE  HotOnTop(t)' /\ (LiveRegs(t))' = LiveRegs(t)
  <1>1. /\ stack[t] \in Seq(Frame) /\ stack[t] # <<>> /\ Len(stack[t]) \in Nat
    BY RunningTypes DEF Return
  <1>2. /\ stack'[t] = Pop(stack[t]) /\ regs'[t] = LiveRegs(t)
    BY DEF Return, LiveRegs, TInv, TypeOK
  <1>3. /\ Len(stack'[t]) = Len(stack[t]) - 1
        /\ \A i \in 1..(Len(stack[t]) - 1) : stack'[t][i] = stack[t][i]
    BY <1>1, <1>2, PopSeq
  <1>4. Len(stack[t]) # 1 /\ Len(stack[t]) # 0
    <2>1. Len(stack[t]) # 1
      BY DEF Return, TInv, TypeOK
    <2> QED BY <1>1, <2>1
  <1>5. \A i \in 1..Len(stack'[t]) : ~stack'[t][i].hot
    BY <1>1, <1>3 DEF HotOnTop
  <1>6. (LiveRegs(t))' = LiveRegs(t)
    <2>1. Len(stack'[t]) \in 1..Len(stack'[t])
      <3>1. Len(stack[t]) - 1 \in 1..(Len(stack[t]) - 1)
        BY <1>1, <1>4, BelowTwo
      <3> QED BY <1>3, <3>1
    <2>2. ~stack'[t][Len(stack'[t])].hot
      BY <1>5, <2>1
    <2> QED BY <1>2, <2>2 DEF LiveRegs, Top
  <1>7. \A i \in 1..(Len(stack'[t]) - 1) : ~stack'[t][i].hot
    BY <1>1, <1>3, <1>5
  <1> QED BY <1>6, <1>7 DEF HotOnTop

\* ... a new top activation, ...
LEMMA ReplaceLive ==
  ASSUME TInv, NEW t \in Threads, Running(t), HotOnTop(t), NEW f \in Frame, ~f.hot,
         stack' = [stack EXCEPT ![t] = Append(Pop(@), f)]
  PROVE  HotOnTop(t)' /\ (LiveRegs(t))' = regs'[t]
  <1>1. stack[t] \in Seq(Frame) /\ stack[t] # <<>> /\ Len(stack[t]) \in Nat
    BY RunningTypes
  <1>2. stack'[t] = Append(Pop(stack[t]), f)
    BY DEF TInv, TypeOK
  <1>3. /\ Len(stack'[t]) = Len(stack[t]) /\ stack'[t][Len(stack[t])] = f
        /\ \A i \in 1..(Len(stack[t]) - 1) : stack'[t][i] = stack[t][i]
    BY <1>1, <1>2, TopSeq
  <1>4. (LiveRegs(t))' = regs'[t]
    BY <1>3 DEF LiveRegs, Top
  <1>5. \A i \in 1..(Len(stack'[t]) - 1) : ~stack'[t][i].hot
    BY <1>1, <1>3 DEF HotOnTop
  <1> QED BY <1>4, <1>5 DEF HotOnTop

\* ... other blocks of the top activation, ...
LEMMA SetTopLive ==
  ASSUME TInv, NEW t \in Threads, Cold(t), HotOnTop(t), NEW bs \in Seq(Block),
         SetTopBlocks(t, bs)
  PROVE  HotOnTop(t)' /\ (LiveRegs(t))' = regs'[t] /\ LiveRegs(t) = regs[t]
  <1> DEFINE f == [Top(t) EXCEPT !.blocks = bs]
  <1>1. Running(t) /\ ~Top(t).hot /\ Top(t) \in Frame
    BY RunningTypes DEF Cold
  <1>2. f \in Frame /\ ~f.hot
    BY <1>1 DEF Frame
  <1>3. stack' = [stack EXCEPT ![t] = Append(Pop(@), f)]
    BY DEF SetTopBlocks
  <1> HIDE DEF f
  <1>4. HotOnTop(t)' /\ (LiveRegs(t))' = regs'[t]
    BY <1>1, <1>2, <1>3, ReplaceLive
  <1> QED BY <1>1, <1>4 DEF LiveRegs

\* ... and a jump into a catch part, which disarms.
LEMMA ResumeLive ==
  ASSUME TInv, NEW t \in Threads, Cold(t), HotOnTop(t), Resumable(t), Resume(t)
  PROVE  HotOnTop(t)' /\ (LiveRegs(t))' = regs'[t] /\ regs'[t][15] = Int(0)
  <1> DEFINE s  == stack[t]
             d  == regs[t][12].depth
             bs == regs[t][14].at
             f  == [s[d] EXCEPT !.blocks = bs]
             p  == SubSeq(s, 1, d - 1)
             r  == Append(p, f)
  <1>1. /\ Running(t) /\ s \in Seq(Frame) /\ Len(s) \in Nat /\ ~Top(t).hot
        /\ regs[t] \in RegFile
    BY RunningTypes DEF Cold
  <1>2. d \in 1..Len(s) /\ bs \in Seq(Block)
    BY <1>1 DEF Resumable, RegFile, Quartet, Word
  <1>3. stack \in [Threads -> Seq(Frame)] /\ regs \in [Threads -> RegFile]
    BY DEF TInv, TypeOK
  <1>4. stack'[t] = r
    <2>1. stack' = [stack EXCEPT ![t] =
                      Append(SubSeq(@, 1, d - 1), [@[d] EXCEPT !.blocks = bs])]
      BY DEF Resume
    <2> QED BY <1>3, <2>1
  <1>5. regs'[t][15] = Int(0)
    <2>1. regs' = [regs EXCEPT ![t][15] = Int(0)]
      BY DEF Resume
    <2>2. 15 \in DOMAIN regs[t]
      BY <1>3 DEF RegFile, Quartet
    <2> QED BY <1>3, <2>1, <2>2
  <1> HIDE DEF s, d, bs
  <1>6. s[d] \in Frame /\ d - 1 \in 0..Len(s) /\ d \in Nat
    BY <1>1, <1>2
  <1>7. f \in Frame /\ f.hot = s[d].hot
    BY <1>2, <1>6 DEF Frame
  <1>8. ~f.hot
    <2>1. CASE d = Len(s)
      BY <1>1, <1>7, <2>1 DEF Top, s
    <2>2. CASE d # Len(s)
      <3>1. d \in 1..(Len(s) - 1)
        BY <1>1, <1>2, <2>2
      <3> QED BY <1>7, <3>1 DEF HotOnTop, s
    <2> QED BY <2>1, <2>2
  <1>9. /\ p \in Seq(Frame) /\ Len(p) = d - 1 /\ \A i \in 1..(d - 1) : p[i] = s[i]
    BY <1>1, <1>6, PrefixSeq
  <1> HIDE DEF f, p
  <1>10. /\ Len(r) = d /\ r[d] = f /\ \A i \in 1..(d - 1) : r[i] = s[i]
    <2>1. d - 1 + 1 = d
      BY <1>6
    <2>2. /\ Len(r) = Len(p) + 1 /\ r[Len(p) + 1] = f
          /\ \A i \in 1..Len(p) : r[i] = p[i]
      BY <1>7, <1>9, AppendSeq
    <2> QED BY <1>9, <2>1, <2>2
  <1> HIDE DEF r
  <1>11. (LiveRegs(t))' = regs'[t]
    BY <1>4, <1>8, <1>10 DEF LiveRegs, Top
  <1>12. ASSUME NEW i \in 1..(Len(stack'[t]) - 1) PROVE ~stack'[t][i].hot
    <2>1. i \in 1..(d - 1)
      BY <1>4, <1>10
    <2>2. i \in 1..(Len(s) - 1)
      BY <1>1, <1>2, <1>6, <2>1
    <2>3. stack'[t][i] = s[i]
      BY <1>4, <1>10, <2>1
    <2> QED BY <2>2, <2>3 DEF HotOnTop, s
  <1> QED BY <1>5, <1>11, <1>12 DEF HotOnTop
-----------------------------------------------------------------------------
\* A step of one thread alone that leaves it running with hot functions on top.
LEMMA AloneGoes ==
  ASSUME TInv, NEW t \in Threads, Running(t), NEW r, NEW q,
         stack' = [stack EXCEPT ![t] = r],
         regs' = regs \/ regs' = [regs EXCEPT ![t] = q], status' = status
  PROVE  Alone(t) /\ status'[t] = "running"
  BY DEF TInv, TypeOK, Alone, Running

\* A call keeps the quartet; so do ...
LEMMA PushKeeps ==
  ASSUME QInv, NEW t \in Threads, Cold(t), NEW f \in Frame, Fresh,
         f.hot => f.saved = regs[t], stack' = [stack EXCEPT ![t] = Append(@, f)],
         UNCHANGED <<status, regs, catches>>
  PROVE  Keeps(t)
  <1>1. TInv /\ Running(t) /\ HotOnTop(t)
    BY DEF QInv, Cold
  <1>2. Alone(t) /\ status'[t] = "running"
    BY <1>1, AloneGoes
  <1>3. HotOnTop(t)' /\ (LiveRegs(t))' = LiveRegs(t)
    BY <1>1, PushLive
  <1> QED BY <1>1, <1>2, <1>3 DEF Keeps, GoesOn, Fresh

\* ... a return, unless it was the last, ...
LEMMA ReturnKeeps ==
  ASSUME QInv, NEW t \in Threads, Return(t)
  PROVE  Keeps(t) \/ Ends(t)
  <1>1. TInv /\ Running(t) /\ HotOnTop(t)
    BY DEF QInv, Return
  <1>2. /\ Alone(t) /\ status'[t] \in {"running", "exited"}
        /\ serial' = serial /\ catches' = catches
    BY <1>1 DEF TInv, TypeOK, Alone, Running, Return
  <1>3. CASE status'[t] = "running"
    BY <1>1, <1>2, <1>3, ReturnLive DEF Keeps, GoesOn
  <1> QED BY <1>2, <1>3 DEF Ends

\* ... a store into a pinned local, which the saved copy does not feel, ...
LEMMA StoreKeeps ==
  ASSUME QInv, NEW t \in Threads, NEW r, NEW v, StorePinned(t, r, v)
  PROVE  Keeps(t)
  <1>1. /\ TInv /\ Running(t) /\ HotOnTop(t) /\ Top(t).hot /\ stack' = stack
        /\ UNCHANGED <<status, serial, catches>>
    BY DEF QInv, StorePinned
  <1>2. HotOnTop(t)' /\ (LiveRegs(t))' = LiveRegs(t)
    BY <1>1 DEF HotOnTop, LiveRegs, Top
  <1>3. Alone(t) /\ status'[t] = "running"
    BY <1>1 DEF TInv, TypeOK, Alone, Running, StorePinned
  <1> QED BY <1>1, <1>2, <1>3 DEF Keeps, GoesOn

\* ... and a self tail call.
LEMMA TailCallKeeps ==
  ASSUME QInv, NEW t \in Threads, TailCall(t)
  PROVE  Keeps(t)
  <1> DEFINE f == ColdFrame(serial)
  <1>1. /\ TInv /\ Running(t) /\ HotOnTop(t) /\ ~Top(t).hot /\ regs' = regs
        /\ stack' = [stack EXCEPT ![t] = Append(Pop(@), f)] /\ status' = status
        /\ serial' = serial + 1 /\ catches' = catches
    BY DEF QInv, TailCall, Cold, Fresh
  <1>2. f \in Frame /\ ~f.hot
    <2>1. serial \in Nat /\ ZeroRegs \in RegFile /\ 0 \in 0..4
      BY <1>1 DEF TInv, TypeOK, ZeroRegs, RegFile, Int, Word
    <2> QED BY <2>1, FrameTypes DEF ColdFrame
  <1> HIDE DEF f
  <1>3. HotOnTop(t)' /\ (LiveRegs(t))' = regs'[t]
    BY <1>1, <1>2, ReplaceLive
  <1>4. Alone(t) /\ status'[t] = "running"
    BY <1>1, AloneGoes
  <1> QED BY <1>1, <1>3, <1>4 DEF Keeps, GoesOn, LiveRegs

\* A block of a cold activation entered or left.
LEMMA SetTopGoes ==
  ASSUME QInv, NEW t \in Threads, Cold(t), NEW bs \in Seq(Block), SetTopBlocks(t, bs),
         NEW q, regs' = regs \/ regs' = [regs EXCEPT ![t] = q], status' = status
  PROVE  GoesOn(t) /\ (LiveRegs(t))' = regs'[t] /\ LiveRegs(t) = regs[t]
  <1>1. TInv /\ Running(t) /\ HotOnTop(t)
    BY DEF QInv, Cold
  <1>2. HotOnTop(t)' /\ (LiveRegs(t))' = regs'[t] /\ LiveRegs(t) = regs[t]
    BY <1>1, SetTopLive
  <1>3. Alone(t) /\ status'[t] = "running"
    BY <1>1, AloneGoes DEF SetTopBlocks
  <1> QED BY <1>1, <1>2, <1>3 DEF GoesOn

\* Entering a try block arms the quartet with its number.
LEMMA EnterTryArms ==
  ASSUME QInv, NEW t \in Threads, EnterTry(t)
  PROVE  Arms(t)
  <1> DEFINE b     == Top(t).blocks
             x     == [id |-> serial, part |-> "try"]
             y     == [id |-> serial, part |-> "catch"]
             here  == StackPos(t, Len(stack[t]), Top(t).act)
             q     == HandlerRegs(here, Append(b, y))
  <1>1. /\ TInv /\ Cold(t) /\ Running(t) /\ SetTopBlocks(t, Append(b, x))
        /\ regs' = [regs EXCEPT ![t] = q] /\ status' = status
        /\ serial' = serial + 1 /\ catches' = catches
    BY DEF QInv, EnterTry, Cold, Fresh
  <1>2. b \in Seq(Block) /\ x \in Block /\ y \in Block
    BY <1>1, RunningTypes DEF TInv, TypeOK, Block, Parts
  <1>3. Append(b, x) \in Seq(Block)
    BY <1>2
  <1> DEFINE bs == Append(b, y)
  <1>4. bs # <<>> /\ bs[Len(bs)] = y
    BY <1>2
  <1>5. regs'[t] = q
    BY <1>1 DEF TInv, TypeOK
  <1> HIDE DEF bs
  <1>6. q[12] = here /\ q[14] = CodePos(bs)
    BY DEF HandlerRegs, Quartet, bs
  <1> HIDE DEF q, x
  <1>7. GoesOn(t) /\ (LiveRegs(t))' = q
    BY <1>1, <1>3, <1>5, SetTopGoes
  <1>8. /\ q[12].kind = "stack" /\ q[12].thread = t
        /\ q[14].kind = "code" /\ q[14].at = bs
    BY <1>6 DEF StackPos, CodePos
  <1>9. Caught(q) = serial
    BY <1>4, <1>8 DEF Caught
  <1> QED BY <1>1, <1>4, <1>7, <1>8, <1>9 DEF Arms, Caught

\* The end of a try part disarms; the end of a catch part keeps.
LEMMA LeaveBlockLive ==
  ASSUME QInv, NEW t \in Threads, LeaveBlock(t)
  PROVE  Keeps(t) \/ Disarms(t)
  <1> DEFINE b == Top(t).blocks
  <1>1. /\ TInv /\ Cold(t) /\ Running(t) /\ SetTopBlocks(t, Pop(b)) /\ b # <<>>
        /\ UNCHANGED <<status, serial, catches>>
    BY DEF QInv, LeaveBlock, Cold
  <1>2. b \in Seq(Block) /\ regs[t] \in RegFile
    BY <1>1, RunningTypes
  <1>3. Pop(b) \in Seq(Block)
    BY <1>1, <1>2, PopSeq
  <1>4. CASE b[Len(b)].part = "try"
    <2> DEFINE q == [regs[t] EXCEPT ![15] = Int(0)]
    <2>1. regs' = [regs EXCEPT ![t] = q]
      BY <1>4 DEF LeaveBlock
    <2>2. regs'[t] = q /\ q[15] = Int(0)
      BY <1>1, <1>2, <2>1 DEF TInv, TypeOK, RegFile, Quartet
    <2> HIDE DEF q
    <2>3. GoesOn(t) /\ (LiveRegs(t))' = q
      BY <1>1, <1>3, <2>1, <2>2, SetTopGoes
    <2> QED BY <1>1, <2>2, <2>3 DEF Disarms
  <1>5. CASE b[Len(b)].part # "try"
    <2>1. regs' = regs
      BY <1>5 DEF LeaveBlock
    <2>2. GoesOn(t) /\ (LiveRegs(t))' = LiveRegs(t)
      BY <1>1, <1>3, <2>1, SetTopGoes
    <2> QED BY <1>1, <2>2 DEF Keeps
  <1> QED BY <1>4, <1>5

\* break and continue out of blocks keep the quartet, armed or not.
LEMMA JumpOutKeeps ==
  ASSUME QInv, NEW t \in Threads, NEW keep \in Nat, JumpOut(t, keep)
  PROVE  Keeps(t)
  <1> DEFINE bs == SubSeq(Top(t).blocks, 1, keep)
  <1>1. /\ TInv /\ Cold(t) /\ Running(t) /\ SetTopBlocks(t, bs)
        /\ keep < Len(Top(t).blocks) /\ UNCHANGED <<status, regs, serial, catches>>
    BY DEF QInv, JumpOut, Cold
  <1>2. Top(t).blocks \in Seq(Block) /\ Len(Top(t).blocks) \in Nat
    BY <1>1, RunningTypes
  <1>3. keep \in 0..Len(Top(t).blocks)
    BY <1>1, <1>2
  <1>4. bs \in Seq(Block)
    BY <1>2, <1>3, PrefixSeq
  <1> HIDE DEF bs
  <1>5. GoesOn(t) /\ (LiveRegs(t))' = LiveRegs(t)
    BY <1>1, <1>4, SetTopGoes
  <1> QED BY <1>1, <1>5 DEF Keeps

\* An exit ends the thread.
LEMMA ExitEnds ==
  ASSUME QInv, NEW t \in Threads, NEW c, Exit(t, c)
  PROVE  Ends(t)
  BY DEF QInv, TInv, TypeOK, Alone, Ends, Exit

\* An error jumps through the quartet lived with, or ends the thread.
LEMMA DispatchLive ==
  ASSUME QInv, NEW t \in Threads, Cold(t), NEW c, Dispatch(t, c)
  PROVE  Catches(t) \/ Ends(t) \/ Strays(t)
  <1>1. TInv /\ Running(t) /\ HotOnTop(t) /\ LiveRegs(t) = regs[t]
    BY DEF QInv, Cold, LiveRegs
  <1>2. CASE regs[t][15] = Int(0)
    BY <1>2, ExitEnds DEF Dispatch
  <1>3. CASE regs[t][15] # Int(0) /\ ~Resumable(t)
    <2>1. GoWild(t)
      BY <1>3 DEF Dispatch, Unwind
    <2> QED BY <1>1, <1>3, <2>1 DEF TInv, TypeOK, Alone, Strays, GoWild
  <1>4. CASE regs[t][15] # Int(0) /\ Resumable(t)
    <2>1. Resume(t)
      BY <1>4 DEF Dispatch, Unwind
    <2>2. HotOnTop(t)' /\ (LiveRegs(t))' = regs'[t] /\ regs'[t][15] = Int(0)
      BY <1>1, <1>4, <2>1, ResumeLive
    <2>3. Alone(t) /\ status'[t] = "running"
      BY <1>1, <2>1 DEF TInv, TypeOK, Alone, Running, Resume
    <2>4. regs[t][12].thread = t
      BY <1>4 DEF Resumable
    <2>5. /\ catches' = [catches EXCEPT ![Caught(regs[t])] = @ + 1]
          /\ serial' = serial
      BY <2>1 DEF Resume, Caught
    <2> QED BY <1>1, <1>4, <2>2, <2>3, <2>4, <2>5 DEF Catches, GoesOn
  <1> QED BY <1>2, <1>3, <1>4

\* A clone hands on the parent's quartet.
LEMMA SpawnStarts ==
  ASSUME QInv, NEW t \in Threads, NEW u \in Threads, ThreadSpawn(t, u)
  PROVE  Starts(t, u)
  <1>1. /\ TInv /\ Running(t) /\ LiveRegs(t) = regs[t] /\ status[u] = "unborn"
        /\ serial' = serial + 1 /\ catches' = catches
        /\ NoOpenTry(t) \/ Uses("spawn")
    BY DEF QInv, ThreadSpawn, Cold, LiveRegs, Fresh
  <1>2. PICK f \in WorkerFrames(t) : stack' = [stack EXCEPT ![u] = <<f>>]
    BY DEF ThreadSpawn
  <1>3. f.hot => f.saved = regs[t]
    BY <1>2 DEF WorkerFrames, ColdFrame, HotFrame
  <1>4. /\ stack'[u] = <<f>> /\ regs'[u] = regs[t] /\ status'[u] = "running"
        /\ Alone(u)
    BY <1>1, <1>2 DEF ThreadSpawn, Alone, TInv, TypeOK
  <1>5. Len(stack'[u]) = 1 /\ stack'[u][1] = f
    BY <1>4
  <1>6. (LiveRegs(u))' = regs[t]
    BY <1>3, <1>4, <1>5 DEF LiveRegs, Top
  <1>7. HotOnTop(u)'
    BY <1>5 DEF HotOnTop
  <1> QED BY <1>1, <1>4, <1>6, <1>7 DEF Starts

\* Every step is of one of these kinds, unless an error is in a hot function.
LEMMA Kinds ==
  ASSUME QInv, "hotfault" \notin Forms, Next
  PROVE  \E t \in Threads :
           \/ Keeps(t) \/ Disarms(t) \/ Arms(t) \/ Catches(t) \/ Ends(t)
           \/ Strays(t) \/ \E u \in Threads : Starts(t, u)
  <1>0. TInv /\ ~Uses("hotfault")
    BY DEF QInv, Uses
  <1> PICK t \in Threads :
            \/ CallCold(t) \/ Return(t) \/ FallOffHot(t) \/ TailCall(t)
            \/ \E k \in PinCounts : CallHot(t, k)
            \/ \E r \in Quartet, v \in UserVals : StorePinned(t, r, v)
            \/ EnterTry(t) \/ LeaveBlock(t)
            \/ \E keep \in 0..MaxSerial : JumpOut(t, keep)
            \/ RuntimeError(t) \/ BoundsError(t)
            \/ \E c \in Codes : Raise(t, c) \/ ThreadExit(t, c)
            \/ \E u \in Threads : ThreadSpawn(t, u)
    BY DEF Next
  <1>1. serial \in Nat /\ regs[t] \in RegFile /\ ZeroRegs \in RegFile /\ 0 \in 0..4
    BY <1>0 DEF TInv, TypeOK, ZeroRegs, RegFile, Int, Word
  <1>2. CASE CallCold(t)
    <2>1. ColdFrame(serial) \in Frame /\ ~ColdFrame(serial).hot
      BY <1>1, FrameTypes DEF ColdFrame
    <2>2. Keeps(t)
      BY <1>2, <2>1, PushKeeps DEF CallCold
    <2> QED BY <2>2
  <1>3. ASSUME NEW k \in PinCounts, CallHot(t, k) PROVE Keeps(t)
    <2>1. /\ HotFrame(serial, regs[t], k) \in Frame
          /\ HotFrame(serial, regs[t], k).saved = regs[t]
      BY <1>1, ConstantsAssumption, FrameTypes DEF HotFrame
    <2> QED BY <1>3, <2>1, PushKeeps DEF CallHot
  <1>4. CASE FallOffHot(t)
    <2>1. Ends(t)
      BY <1>0, <1>4 DEF FallOffHot, TInv, TypeOK, Alone, Ends
    <2> QED BY <2>1
  <1>5. ASSUME NEW keep \in 0..MaxSerial, JumpOut(t, keep) PROVE Keeps(t)
    <2>1. keep \in Nat
      BY ConstantsAssumption
    <2> QED BY <1>5, <2>1, JumpOutKeeps
  <1>6. CASE RuntimeError(t)
    BY <1>0, <1>6, DispatchLive DEF RuntimeError, Cold
  <1>7. CASE BoundsError(t)
    BY <1>7, ExitEnds DEF BoundsError
  <1>8. ASSUME NEW c \in Codes, Raise(t, c) \/ ThreadExit(t, c)
        PROVE  Catches(t) \/ Ends(t) \/ Strays(t)
    BY <1>8, DispatchLive, ExitEnds DEF Raise, ThreadExit
  <1> QED BY <1>2, <1>3, <1>4, <1>5, <1>6, <1>7, <1>8, ReturnKeeps, StoreKeeps,
             TailCallKeeps, EnterTryArms, LeaveBlockLive, SpawnStarts
-----------------------------------------------------------------------------
\* A step of one thread alone leaves the others' quartets.
LEMMA OthersLive ==
  ASSUME NEW t \in Threads, Alone(t), NEW u \in Threads, u # t
  PROVE  /\ Running(u)' = Running(u) /\ status'[u] = status[u]
         /\ (LiveRegs(u))' = LiveRegs(u) /\ HotOnTop(u)' = HotOnTop(u)
  BY DEF Alone, Running, LiveRegs, Top, HotOnTop

\* The number of the try block an armed quartet leads to.
LEMMA CaughtNat ==
  ASSUME NEW q \in RegFile, NEW st, NEW n, WellMade(q, st, n), q[15] # Int(0)
  PROVE  Caught(q) \in Nat /\ q[12].thread \in Threads
  <1>1. q[12] \in Word /\ q[14] \in Word
    BY DEF RegFile, Quartet
  <1>2. q[14].at \in Seq(Block) /\ q[14].at # <<>> /\ q[12].thread \in Threads
    BY <1>1 DEF WellMade, Word
  <1>3. q[14].at[Len(q[14].at)] \in Block
    <2> DEFINE at == q[14].at
    <2>1. Len(at) \in 1..Len(at)
      BY <1>2
    <2> QED BY <1>2, <2>1
  <1> QED BY <1>2, <1>3 DEF Caught, Block

\* More threads and higher numbers keep a quartet well made.
LEMMA WellMadeStays ==
  ASSUME NEW q \in RegFile, NEW st, NEW n \in Nat, WellMade(q, st, n),
         NEW st2, NEW m \in Nat, n <= m,
         \A u \in Threads : st[u] # "unborn" => st2[u] # "unborn"
  PROVE  WellMade(q, st2, m)
  <1> SUFFICES ASSUME q[15] # Int(0) PROVE WellMade(q, st2, m)
    BY DEF WellMade
  <1>1. Caught(q) \in Nat /\ q[12].thread \in Threads
    BY CaughtNat
  <1>2. Caught(q) < m
    <2>1. Caught(q) < n
      BY DEF WellMade
    <2> QED BY <1>1, <2>1
  <1> QED BY <1>1, <1>2 DEF WellMade

\* No step undoes a thread's start or reuses a number.
LEMMA NothingReused ==
  ASSUME QInv, TInv', NEW t \in Threads,
         \/ Keeps(t) \/ Disarms(t) \/ Arms(t) \/ Catches(t) \/ Ends(t)
         \/ Strays(t) \/ \E u \in Threads : Starts(t, u)
  PROVE  /\ serial \in Nat /\ serial' \in Nat /\ serial <= serial'
         /\ \A u \in Threads : status[u] # "unborn" => status'[u] # "unborn"
  <1>1. serial \in Nat
    BY DEF QInv, TInv, TypeOK
  <1>2. serial' \in {serial, serial + 1}
    BY DEF Keeps, Disarms, Arms, Catches, Ends, Strays, Starts
  <1>3. \E u \in Threads : Alone(u) /\ status'[u] \in {"running", "exited", "wild"}
    BY DEF GoesOn, Keeps, Disarms, Arms, Catches, Ends, Strays, Starts
  <1>4. ASSUME NEW u \in Threads, status[u] # "unborn" PROVE status'[u] # "unborn"
    BY <1>3, <1>4 DEF Alone
  <1> QED BY <1>1, <1>2, <1>4

\* What a kind of step has to show of the thread x it changes.
LEMMA QOthers ==
  ASSUME QInv, TInv', NEW x \in Threads, Alone(x),
         serial \in Nat, serial' \in Nat, serial <= serial',
         \A u \in Threads : status[u] # "unborn" => status'[u] # "unborn",
         Running(x)' => HotOnTop(x)' /\ WellMade((LiveRegs(x))', status', serial')
  PROVE  QInv'
  <1>1. ASSUME NEW u \in Threads, Running(u)', u # x
        PROVE  HotOnTop(u)' /\ WellMade((LiveRegs(u))', status', serial')
    <2>1. Running(u) /\ (LiveRegs(u))' = LiveRegs(u) /\ HotOnTop(u)' = HotOnTop(u)
      BY <1>1, OthersLive
    <2>2. TInv /\ HotOnTop(u) /\ WellMade(LiveRegs(u), status, serial)
      BY <2>1 DEF QInv
    <2>3. LiveRegs(u) \in RegFile
      BY <2>1, <2>2, RunningTypes
    <2>4. WellMade(LiveRegs(u), status', serial')
      BY <2>2, <2>3, WellMadeStays
    <2> QED BY <2>1, <2>2, <2>4
  <1>2. ASSUME NEW u \in Threads, Running(u)'
        PROVE  HotOnTop(u)' /\ WellMade((LiveRegs(u))', status', serial')
    BY <1>1, <1>2
  <1> QED BY <1>2 DEF QInv

\* Well-made quartets stay so under every kind of step.
LEMMA QStep ==
  ASSUME QInv, "hotfault" \notin Forms, [Next]_vars
  PROVE  QInv'
  <1>0. TInv /\ TInv'
    BY TypeStep DEF QInv
  <1>u. CASE UNCHANGED vars
    BY <1>0, <1>u DEF vars, QInv, Running, HotOnTop, LiveRegs, Top
  <1>1. SUFFICES ASSUME Next PROVE QInv'
    BY <1>u
  <1>2. PICK t \in Threads :
           \/ Keeps(t) \/ Disarms(t) \/ Arms(t) \/ Catches(t) \/ Ends(t)
           \/ Strays(t) \/ \E u \in Threads : Starts(t, u)
    BY <1>1, Kinds
  <1>3. /\ serial \in Nat /\ serial' \in Nat /\ serial <= serial'
        /\ \A u \in Threads : status[u] # "unborn" => status'[u] # "unborn"
    BY <1>0, <1>2, NothingReused
  <1>4. ASSUME Running(t)
        PROVE  LiveRegs(t) \in RegFile /\ WellMade(LiveRegs(t), status', serial')
    <2>1. LiveRegs(t) \in RegFile /\ WellMade(LiveRegs(t), status, serial)
      BY <1>0, <1>4, RunningTypes DEF QInv
    <2> QED BY <1>3, <2>1, WellMadeStays
  <1>5. CASE Keeps(t)
    <2>1. /\ Running(t) /\ Alone(t) /\ HotOnTop(t)' /\ (LiveRegs(t))' = LiveRegs(t)
      BY <1>5 DEF Keeps, GoesOn
    <2> QED BY <1>0, <1>3, <1>4, <2>1, QOthers
  <1>6. CASE Disarms(t) \/ Catches(t)
    <2>1. /\ Alone(t) /\ HotOnTop(t)' /\ (LiveRegs(t))'[15] = Int(0)
      BY <1>6 DEF Disarms, Catches, GoesOn
    <2>2. WellMade((LiveRegs(t))', status', serial')
      BY <2>1 DEF WellMade
    <2> QED BY <1>0, <1>3, <2>1, <2>2, QOthers
  <1>7. CASE Arms(t)
    <2>1. /\ Alone(t) /\ HotOnTop(t)' /\ status'[t] = "running" /\ serial' = serial + 1
      BY <1>7 DEF Arms, GoesOn
    <2> DEFINE q == (LiveRegs(t))'
    <2>2. /\ q[12].kind = "stack" /\ q[12].thread = t
          /\ q[14].kind = "code" /\ q[14].at # <<>> /\ Caught(q) = serial
      BY <1>7 DEF Arms
    <2>3. serial < serial'
      BY <1>3, <2>1
    <2> HIDE DEF q
    <2>4. WellMade(q, status', serial')
      BY <2>1, <2>2, <2>3 DEF WellMade
    <2> QED BY <1>0, <1>3, <2>1, <2>4, QOthers DEF q
  <1>8. CASE Ends(t) \/ Strays(t)
    <2>1. Alone(t) /\ ~Running(t)'
      BY <1>8 DEF Ends, Strays, Running
    <2> QED BY <1>0, <1>3, <2>1, QOthers
  <1>9. ASSUME NEW u \in Threads, Starts(t, u) PROVE QInv'
    <2>1. Running(t) /\ Alone(u) /\ HotOnTop(u)' /\ (LiveRegs(u))' = LiveRegs(t)
      BY <1>9 DEF Starts
    <2> QED BY <1>0, <1>3, <1>4, <2>1, QOthers
  <1> QED BY <1>2, <1>5, <1>6, <1>7, <1>8, <1>9

\* At first there is one thread, disarmed.
LEMMA QInit == Init => QInv
  <1> SUFFICES ASSUME Init PROVE QInv
    OBVIOUS
  <1>1. TInv
    BY TypeInit
  <1>2. ASSUME NEW t \in Threads, Running(t)
        PROVE  HotOnTop(t) /\ WellMade(LiveRegs(t), status, serial)
    <2>1. stack[t] = <<ColdFrame(0)>> /\ regs[t] = ZeroRegs
      BY <1>2 DEF Init, Running
    <2>2. Len(stack[t]) = 1 /\ stack[t][1] = ColdFrame(0) /\ ~ColdFrame(0).hot
      BY <2>1 DEF ColdFrame
    <2>3. LiveRegs(t) = ZeroRegs /\ ZeroRegs[15] = Int(0)
      BY <2>1, <2>2 DEF LiveRegs, Top, ZeroRegs, Quartet
    <2> QED BY <2>2, <2>3 DEF HotOnTop, WellMade
  <1> QED BY <1>1, <1>2 DEF QInv
-----------------------------------------------------------------------------
\* q is armed and t wrote it itself.
Own(t, q) == q[15] # Int(0) /\ q[12].thread = t

\* If q is t's own, it is the quartet of the innermost open try block of t's
\* stack s.
NFit(t, s, q) ==
  Own(t, q) =>
    \E d \in 1..Len(s) : \E j \in 1..Len(s[d].blocks) :
      InnermostIn(s, d, j) /\ Armed(t, s, d, j, q)

NInv ==
  /\ QInv
  /\ \A t \in Threads : Running(t) => NFit(t, stack[t], LiveRegs(t))

\* A call.
LEMMA NPush ==
  ASSUME NEW t, NEW s \in Seq(Frame), NEW q, NFit(t, s, q),
         NEW f \in Frame, f.blocks = <<>>
  PROVE  NFit(t, Append(s, f), q)
  <1> DEFINE r == Append(s, f)
  <1>1. /\ Len(s) \in Nat /\ Len(r) = Len(s) + 1
        /\ \A i \in 1..Len(s) : r[i] = s[i]
        /\ r[Len(s) + 1] = f /\ Len(f.blocks) = 0
    BY AppendSeq
  <1> HIDE DEF r
  <1>2. ASSUME NEW e \in 1..Len(r), NEW k \in 1..Len(r[e].blocks)
        PROVE  e \in 1..Len(s) /\ r[e] = s[e]
    <2>1. e # Len(s) + 1
      BY <1>1, <1>2
    <2> QED BY <1>1, <2>1
  <1>3. ASSUME NEW d \in 1..Len(s), NEW j \in 1..Len(s[d].blocks),
               InnermostIn(s, d, j), Armed(t, s, d, j, q)
        PROVE  NFit(t, r, q)
    <2>1. d \in 1..Len(r) /\ r[d] = s[d]
      BY <1>1
    <2>2. InnermostIn(r, d, j)
      BY <1>2, <1>3, <2>1 DEF InnermostIn
    <2>3. Armed(t, r, d, j, q)
      BY <1>3, <2>1 DEF Armed
    <2> QED BY <2>1, <2>2, <2>3 DEF NFit
  <1> QED BY <1>3 DEF NFit, r

\* A return from an activation with no open try block.
LEMMA NPop ==
  ASSUME NEW t, NEW s \in Seq(Frame), s # <<>>, NEW q, NFit(t, s, q),
         NoTryFrom(s[Len(s)].blocks, 1)
  PROVE  NFit(t, Pop(s), q)
  <1> DEFINE r == Pop(s)
  <1>1. /\ Len(s) \in Nat /\ Len(r) = Len(s) - 1 /\ Len(s) \in 1..Len(s)
        /\ \A i \in 1..Len(r) : i \in 1..Len(s) /\ r[i] = s[i]
    BY PopSeq
  <1> HIDE DEF r
  <1>2. ASSUME NEW d \in 1..Len(s), NEW j \in 1..Len(s[d].blocks),
               InnermostIn(s, d, j), Armed(t, s, d, j, q)
        PROVE  NFit(t, r, q)
    <2>1. s[d].blocks[j].part = "try"
      BY <1>2 DEF InnermostIn
    <2>2. d # Len(s)
      BY <1>2, <2>1 DEF NoTryFrom
    <2>3. d \in 1..Len(r) /\ r[d] = s[d]
      BY <1>1, <2>2
    <2>4. InnermostIn(r, d, j)
      BY <1>1, <1>2, <2>3 DEF InnermostIn
    <2>5. Armed(t, r, d, j, q)
      BY <1>2, <2>3 DEF Armed
    <2> QED BY <2>3, <2>4, <2>5 DEF NFit
  <1> QED BY <1>2 DEF NFit, r

\* Blocks left that hold no open try.
LEMMA NTruncate ==
  ASSUME NEW t, NEW s \in Seq(Frame), s # <<>>, NEW q, NFit(t, s, q),
         NEW keep \in 0..Len(s[Len(s)].blocks),
         NoTryFrom(s[Len(s)].blocks, keep + 1)
  PROVE  NFit(t, Append(Pop(s), [s[Len(s)] EXCEPT !.blocks =
                                   SubSeq(s[Len(s)].blocks, 1, keep)]), q)
  <1> DEFINE n  == Len(s)
             b  == s[n].blocks
             bs == SubSeq(b, 1, keep)
             f  == [s[n] EXCEPT !.blocks = bs]
             r  == Append(Pop(s), f)
  <1>1. n \in Nat /\ n \in 1..n /\ s[n] \in Frame
    BY PopSeq
  <1>2. b \in Seq(Block)
    BY <1>1 DEF Frame
  <1>3. /\ bs \in Seq(Block) /\ Len(bs) = keep
        /\ \A i \in 1..keep : bs[i] = b[i]
    BY <1>2, PrefixSeq
  <1>4. f \in Frame /\ f.blocks = bs /\ f.act = s[n].act
    BY <1>1, <1>3 DEF Frame
  <1>5. /\ Len(r) = n /\ r[n] = f
        /\ \A i \in 1..(n - 1) : r[i] = s[i]
    BY <1>4, TopSeq
  <1>6. Len(b) \in Nat /\ keep \in Nat /\ keep <= Len(b)
    BY <1>2
  <1> HIDE DEF r, f, bs
  <1>7. ASSUME NEW e \in 1..n, NEW k \in 1..Len(r[e].blocks)
        PROVE  k \in 1..Len(s[e].blocks) /\ r[e].blocks[k] = s[e].blocks[k]
    <2>1. CASE e = n
      BY <1>3, <1>4, <1>5, <1>6, <1>7, <2>1
    <2>2. CASE e # n
      BY <1>1, <1>5, <1>7, <2>2
    <2> QED BY <2>1, <2>2
  <1>8. ASSUME NEW d \in 1..n, NEW j \in 1..Len(s[d].blocks),
               InnermostIn(s, d, j), Armed(t, s, d, j, q)
        PROVE  NFit(t, r, q)
    <2>1. s[d].blocks[j].part = "try"
      BY <1>8 DEF InnermostIn
    <2>2. \A e \in 1..Len(r) : \A k \in 1..Len(r[e].blocks) :
            r[e].blocks[k].part = "try" => e < d \/ (e = d /\ k <= j)
      BY <1>5, <1>7, <1>8 DEF InnermostIn
    <2>3. CASE d = n
      <3>1. j \in 1..keep
        BY <1>6, <1>8, <2>1, <2>3 DEF NoTryFrom
      <3>2. j \in 1..Len(r[d].blocks) /\ d \in 1..Len(r)
        BY <1>3, <1>4, <1>5, <2>3, <3>1
      <3>3. SubSeq(bs, 1, j - 1) = SubSeq(b, 1, j - 1)
        BY <1>2, <1>6, <3>1, SubSubSeq DEF bs
      <3>4. r[d].act = s[d].act /\ r[d].blocks = bs /\ bs[j] = b[j]
        BY <1>3, <1>4, <1>5, <2>3, <3>1
      <3>5. Armed(t, r, d, j, q)
        BY <1>8, <2>3, <3>3, <3>4 DEF Armed
      <3>6. InnermostIn(r, d, j)
        BY <2>1, <2>2, <2>3, <3>4 DEF InnermostIn
      <3> QED BY <3>2, <3>5, <3>6 DEF NFit
    <2>4. CASE d # n
      <3>1. d \in 1..Len(r) /\ r[d] = s[d]
        BY <1>1, <1>5, <1>8, <2>4
      <3>2. Armed(t, r, d, j, q)
        BY <1>8, <3>1 DEF Armed
      <3>3. InnermostIn(r, d, j)
        BY <2>1, <2>2, <3>1 DEF InnermostIn
      <3> QED BY <1>8, <3>1, <3>2, <3>3 DEF NFit
    <2> QED BY <2>3, <2>4
  <1> QED BY <1>8 DEF NFit, r, f, bs

\* Entering a try block, whatever is open already.
LEMMA NEnter ==
  ASSUME NEW t, NEW s \in Seq(Frame), s # <<>>, NEW n \in Nat, NEW q,
         q[12] = StackPos(t, Len(s), s[Len(s)].act), q[13] = q[12],
         q[14] = CodePos(Append(s[Len(s)].blocks, [id |-> n, part |-> "catch"])),
         q[15] = Int(1)
  PROVE  NFit(t, Append(Pop(s), [s[Len(s)] EXCEPT !.blocks =
            Append(s[Len(s)].blocks, [id |-> n, part |-> "try"])]), q)
  <1> DEFINE m  == Len(s)
             b  == s[m].blocks
             x  == [id |-> n, part |-> "try"]
             bs == Append(b, x)
             f  == [s[m] EXCEPT !.blocks = bs]
             r  == Append(Pop(s), f)
             j  == Len(b) + 1
  <1>1. m \in Nat /\ m \in 1..m /\ s[m] \in Frame
    BY PopSeq
  <1>2. b \in Seq(Block) /\ Len(b) \in Nat /\ x \in Block
    BY <1>1 DEF Frame, Block, Parts
  <1>3. /\ bs \in Seq(Block) /\ Len(bs) = j /\ bs[j] = x
    BY <1>2, AppendSeq
  <1>4. SubSeq(bs, 1, j - 1) = b
    <2>1. j - 1 = Len(b)
      BY <1>2
    <2> QED BY <1>2, <2>1, SubAppend
  <1>5. f \in Frame /\ f.blocks = bs /\ f.act = s[m].act
    BY <1>1, <1>3 DEF Frame
  <1>6. Len(r) = m /\ r[m] = f
    BY <1>5, TopSeq
  <1> HIDE DEF r, f, bs
  <1>7. InnermostIn(r, m, j)
    <2>1. r[m].blocks[j].part = "try"
      BY <1>3, <1>5, <1>6
    <2>2. ASSUME NEW e \in 1..m, NEW k \in 1..Len(r[e].blocks)
          PROVE  e < m \/ (e = m /\ k <= j)
      BY <1>1, <1>2, <1>3, <1>5, <1>6, <2>2
    <2> QED BY <1>6, <2>1, <2>2 DEF InnermostIn
  <1>8. Armed(t, r, m, j, q)
    <2>1. r[m].blocks[j].id = n /\ r[m].act = s[m].act
      BY <1>3, <1>5, <1>6
    <2>2. SubSeq(r[m].blocks, 1, j - 1) = b
      BY <1>4, <1>5, <1>6
    <2> QED BY <2>1, <2>2 DEF Armed
  <1>9. m \in 1..Len(r) /\ j \in 1..Len(r[m].blocks)
    BY <1>1, <1>2, <1>3, <1>5, <1>6
  <1> QED BY <1>7, <1>8, <1>9 DEF NFit, r, f, bs
-----------------------------------------------------------------------------
\* A step of one thread alone leaves where the others' quartets lead.
LEMMA NOthers ==
  ASSUME NInv, QInv', NEW x \in Threads, Alone(x),
         Running(x)' => NFit(x, stack'[x], (LiveRegs(x))')
  PROVE  NInv'
  <1>1. ASSUME NEW u \in Threads, Running(u)'
        PROVE  NFit(u, stack'[u], (LiveRegs(u))')
    <2>1. CASE u = x
      BY <1>1, <2>1
    <2>2. CASE u # x
      <3>1. Running(u) /\ (LiveRegs(u))' = LiveRegs(u) /\ stack'[u] = stack[u]
        BY <1>1, <2>2, OthersLive DEF Alone
      <3> QED BY <3>1 DEF NInv
    <2> QED BY <2>1, <2>2
  <1> QED BY <1>1 DEF NInv

\* A thread that goes on with its quartet over fitting blocks.
LEMMA NKeeps ==
  ASSUME NInv, QInv', NEW t \in Threads, Keeps(t),
         NFit(t, stack[t], LiveRegs(t)) => NFit(t, stack'[t], LiveRegs(t))
  PROVE  NInv'
  <1>1. /\ Alone(t) /\ Running(t) /\ (LiveRegs(t))' = LiveRegs(t)
    BY DEF Keeps, GoesOn
  <1> QED BY <1>1, NOthers DEF NInv

\* Steps after which the quartet is nobody's own, or the thread has ended.
LEMMA NSpent ==
  ASSUME NInv, QInv', NEW t \in Threads,
         Disarms(t) \/ Catches(t) \/ Ends(t) \/ Strays(t)
  PROVE  NInv'
  <1>1. /\ Alone(t) /\ (Running(t)' => ~Own(t, (LiveRegs(t))'))
    BY DEF Disarms, Catches, Ends, Strays, GoesOn, Own, Running
  <1> QED BY <1>1, NOthers DEF NFit

\* A started thread has its parent's quartet, which is not its own.
LEMMA NStarts ==
  ASSUME NInv, QInv', NEW t \in Threads, NEW u \in Threads, Starts(t, u)
  PROVE  NInv'
  <1>1. /\ Alone(u) /\ Running(t) /\ (LiveRegs(u))' = LiveRegs(t)
        /\ status[u] = "unborn"
    BY DEF Starts
  <1>2. WellMade(LiveRegs(t), status, serial)
    BY <1>1 DEF NInv, QInv
  <1>3. ~Own(u, (LiveRegs(u))')
    BY <1>1, <1>2 DEF Own, WellMade
  <1> QED BY <1>1, <1>3, NOthers DEF NFit

\* An own quartet leads to the innermost open try block after a call, ...
LEMMA NPushes ==
  ASSUME NInv, QInv', NEW t \in Threads, Cold(t), NEW f \in Frame, Fresh,
         f.hot => f.saved = regs[t], f.blocks = <<>>,
         stack' = [stack EXCEPT ![t] = Append(@, f)],
         UNCHANGED <<status, regs, catches>>
  PROVE  NInv'
  <1>1. Keeps(t) /\ stack[t] \in Seq(Frame) /\ stack'[t] = Append(stack[t], f)
    BY PushKeeps DEF NInv, QInv, TInv, TypeOK
  <1> QED BY <1>1, NPush, NKeeps

\* ... after a return, which no open try block is lost by, ...
LEMMA NReturn ==
  ASSUME NInv, QInv', NEW t \in Threads, Return(t), ~Uses("escape")
  PROVE  NInv'
  <1>1. QInv /\ TInv
    BY DEF NInv, QInv
  <1>2. CASE Keeps(t)
    <2>1. /\ stack'[t] = Pop(stack[t]) /\ NoTryFrom(stack[t][Len(stack[t])].blocks, 1)
          /\ Running(t)
      BY <1>1 DEF Return, Top, TInv, TypeOK
    <2>2. stack[t] \in Seq(Frame) /\ stack[t] # <<>>
      BY <1>1, <2>1, RunningTypes
    <2> QED BY <1>2, <2>1, <2>2, NPop, NKeeps
  <1> QED BY <1>1, <1>2, ReturnKeeps, NSpent

\* ... after a self tail call, ...
LEMMA NTailCall ==
  ASSUME NInv, QInv', NEW t \in Threads, TailCall(t), ~Uses("escape")
  PROVE  NInv'
  <1> DEFINE f == ColdFrame(serial)
  <1>1. QInv /\ TInv /\ Keeps(t)
    BY TailCallKeeps DEF NInv, QInv
  <1>2. /\ stack'[t] = Append(Pop(stack[t]), f) /\ Running(t)
        /\ NoTryFrom(stack[t][Len(stack[t])].blocks, 1)
    BY <1>1 DEF TailCall, Cold, Top, TInv, TypeOK
  <1>3. f \in Frame /\ f.blocks = <<>>
    <2>1. serial \in Nat /\ ZeroRegs \in RegFile /\ 0 \in 0..4
      BY <1>1 DEF TInv, TypeOK, ZeroRegs, RegFile, Int, Word
    <2> QED BY <2>1, FrameTypes DEF ColdFrame
  <1> HIDE DEF f
  <1>4. stack[t] \in Seq(Frame) /\ stack[t] # <<>> /\ Pop(stack[t]) \in Seq(Frame)
    BY <1>1, <1>2, RunningTypes, PopSeq
  <1>5. ASSUME NFit(t, stack[t], LiveRegs(t)) PROVE NFit(t, stack'[t], LiveRegs(t))
    <2>1. NFit(t, Pop(stack[t]), LiveRegs(t))
      BY <1>2, <1>4, <1>5, NPop
    <2> QED BY <1>2, <1>3, <1>4, <2>1, NPush
  <1> QED BY <1>1, <1>5, NKeeps

\* ... (what other blocks of the top activation make of its stack) ...
LEMMA NSetTop ==
  ASSUME TInv, NEW t \in Threads, Running(t), NEW bs, SetTopBlocks(t, bs)
  PROVE  /\ stack'[t] = Append(Pop(stack[t]),
                               [stack[t][Len(stack[t])] EXCEPT !.blocks = bs])
         /\ stack[t] \in Seq(Frame) /\ stack[t] # <<>>
  BY RunningTypes DEF SetTopBlocks, Top, TInv, TypeOK

\* ... after leaving blocks of which none is an open try block, ...
LEMMA NTruncates ==
  ASSUME NInv, QInv', NEW t \in Threads, Cold(t), NEW keep \in Nat, Keeps(t),
         keep < Len(Top(t).blocks), NoTryFrom(Top(t).blocks, keep + 1),
         SetTopBlocks(t, SubSeq(Top(t).blocks, 1, keep))
  PROVE  NInv'
  <1>1. TInv /\ Running(t)
    BY DEF NInv, QInv, Cold
  <1>2. /\ stack[t] \in Seq(Frame) /\ stack[t] # <<>>
        /\ stack'[t] = Append(Pop(stack[t]), [stack[t][Len(stack[t])] EXCEPT !.blocks =
                               SubSeq(Top(t).blocks, 1, keep)])
    BY <1>1, NSetTop
  <1>3. keep \in 0..Len(Top(t).blocks)
    BY <1>1, RunningTypes
  <1> DEFINE s == stack[t]
             b == s[Len(s)].blocks
             r == Append(Pop(s), [s[Len(s)] EXCEPT !.blocks = SubSeq(b, 1, keep)])
             q == LiveRegs(t)
  <1>4. /\ s \in Seq(Frame) /\ s # <<>> /\ keep \in 0..Len(b)
        /\ NoTryFrom(b, keep + 1) /\ stack'[t] = r
    BY <1>2, <1>3 DEF Top
  <1> HIDE DEF s, q
  <1>5. NFit(t, s, q) => NFit(t, r, q)
    BY <1>4, NTruncate
  <1> QED BY <1>4, <1>5, NKeeps DEF s, q

\* ... and after entering a try block, which makes it the innermost.
LEMMA NEnterTry ==
  ASSUME NInv, QInv', NEW t \in Threads, EnterTry(t)
  PROVE  NInv'
  <1> DEFINE b     == stack[t][Len(stack[t])].blocks
             x     == [id |-> serial, part |-> "try"]
             y     == [id |-> serial, part |-> "catch"]
             here  == StackPos(t, Len(stack[t]), stack[t][Len(stack[t])].act)
             q     == HandlerRegs(here, Append(b, y))
  <1>1. /\ TInv /\ QInv /\ Cold(t) /\ Running(t) /\ SetTopBlocks(t, Append(b, x))
        /\ regs' = [regs EXCEPT ![t] = q] /\ status' = status /\ serial \in Nat
    BY DEF NInv, QInv, TInv, TypeOK, EnterTry, Cold, Top
  <1>2. b \in Seq(Block) /\ x \in Block
    BY <1>1, RunningTypes DEF Block, Parts, Top
  <1>3. Append(b, x) \in Seq(Block)
    BY <1>2
  <1>4. /\ stack[t] \in Seq(Frame) /\ stack[t] # <<>>
        /\ stack'[t] = Append(Pop(stack[t]),
                              [stack[t][Len(stack[t])] EXCEPT !.blocks = Append(b, x)])
    BY <1>1, NSetTop
  <1>5. regs'[t] = q
    BY <1>1 DEF TInv, TypeOK
  <1>6. /\ q[12] = here /\ q[13] = q[12] /\ q[14] = CodePos(Append(b, y))
        /\ q[15] = Int(1)
    BY DEF HandlerRegs, Quartet
  <1> HIDE DEF q
  <1>7. NFit(t, stack'[t], q)
    BY <1>1, <1>4, <1>6, NEnter
  <1>8. GoesOn(t) /\ (LiveRegs(t))' = q
    BY <1>1, <1>3, <1>5, SetTopGoes
  <1> QED BY <1>7, <1>8, NOthers DEF GoesOn

\* An own quartet leads to the innermost open try block after every step.
LEMMA NStep ==
  ASSUME NInv, "hotfault" \notin Forms, "escape" \notin Forms, [Next]_vars
  PROVE  NInv'
  <1>0. QInv /\ QInv' /\ TInv /\ ~Uses("hotfault") /\ ~Uses("escape")
    BY QStep DEF NInv, QInv, Uses
  <1>u. CASE UNCHANGED vars
    <2>1. \A u \in Threads : Running(u)' = Running(u) /\ (LiveRegs(u))' = LiveRegs(u)
      BY <1>u DEF vars, Running, LiveRegs, Top
    <2>2. stack' = stack
      BY <1>u DEF vars
    <2> QED BY <1>0, <2>1, <2>2 DEF NInv
  <1>1. SUFFICES ASSUME NEW t \in Threads,
            \/ CallCold(t) \/ Return(t) \/ FallOffHot(t) \/ TailCall(t)
            \/ \E k \in PinCounts : CallHot(t, k)
            \/ \E r \in Quartet, v \in UserVals : StorePinned(t, r, v)
            \/ EnterTry(t) \/ LeaveBlock(t)
            \/ \E keep \in 0..MaxSerial : JumpOut(t, keep)
            \/ RuntimeError(t) \/ BoundsError(t)
            \/ \E c \in Codes : Raise(t, c) \/ ThreadExit(t, c)
            \/ \E u \in Threads : ThreadSpawn(t, u)
        PROVE NInv'
    BY <1>u DEF Next
  <1>2. serial \in Nat /\ regs[t] \in RegFile /\ ZeroRegs \in RegFile /\ 0 \in 0..4
    BY <1>0 DEF TInv, TypeOK, ZeroRegs, RegFile, Int, Word
  <1>3. CASE CallCold(t)
    <2>1. /\ ColdFrame(serial) \in Frame /\ ~ColdFrame(serial).hot
          /\ ColdFrame(serial).blocks = <<>>
      BY <1>2, FrameTypes DEF ColdFrame
    <2> QED BY <1>0, <1>3, <2>1, NPushes DEF CallCold
  <1>4. ASSUME NEW k \in PinCounts, CallHot(t, k) PROVE NInv'
    <2>1. /\ HotFrame(serial, regs[t], k) \in Frame
          /\ HotFrame(serial, regs[t], k).saved = regs[t]
          /\ HotFrame(serial, regs[t], k).blocks = <<>>
      BY <1>2, ConstantsAssumption, FrameTypes DEF HotFrame
    <2> QED BY <1>0, <1>4, <2>1, NPushes DEF CallHot
  <1>5. ASSUME NEW r \in Quartet, NEW v \in UserVals, StorePinned(t, r, v)
        PROVE  NInv'
    <2>1. Keeps(t) /\ stack' = stack
      BY <1>0, <1>5, StoreKeeps DEF StorePinned
    <2> QED BY <1>0, <2>1, NKeeps
  <1>6. CASE FallOffHot(t)
    <2>1. Ends(t)
      BY <1>0, <1>6 DEF FallOffHot, TInv, TypeOK, Alone, Ends
    <2> QED BY <1>0, <2>1, NSpent
  <1>7. CASE LeaveBlock(t)
    <2> DEFINE b == Top(t).blocks
    <2>1. /\ Cold(t) /\ Running(t) /\ b # <<>> /\ SetTopBlocks(t, Pop(b))
      BY <1>7 DEF LeaveBlock, Cold
    <2>2. b \in Seq(Block) /\ Len(b) \in Nat /\ Len(b) # 0
      BY <1>0, <2>1, RunningTypes
    <2>3. CASE b[Len(b)].part = "try"
      <3>1. regs'[t][15] = Int(0)
        BY <1>0, <1>2, <1>7, <2>3 DEF LeaveBlock, TInv, TypeOK, RegFile, Quartet
      <3>2. (LiveRegs(t))' = regs'[t] /\ Alone(t)
        <4>1. Pop(b) \in Seq(Block)
          BY <2>1, <2>2, PopSeq
        <4>2. regs' = [regs EXCEPT ![t] = [regs[t] EXCEPT ![15] = Int(0)]] /\ status' = status
          BY <1>7, <2>3 DEF LeaveBlock
        <4> QED BY <1>0, <2>1, <4>1, <4>2, SetTopGoes DEF GoesOn
      <3> QED BY <1>0, <3>1, <3>2, NOthers DEF NFit, Own
    <2>4. CASE b[Len(b)].part # "try"
      <3> DEFINE keep == Len(b) - 1
      <3>1. Keeps(t)
        <4>1. Pop(b) \in Seq(Block)
          BY <2>1, <2>2, PopSeq
        <4>2. regs' = regs /\ UNCHANGED <<status, serial, catches>>
          BY <1>7, <2>4 DEF LeaveBlock
        <4>3. GoesOn(t) /\ (LiveRegs(t))' = LiveRegs(t)
          BY <1>0, <2>1, <4>1, <4>2, SetTopGoes
        <4> QED BY <1>0, <4>2, <4>3 DEF Keeps
      <3>2. keep \in Nat /\ keep < Len(b) /\ NoTryFrom(b, keep + 1)
        BY <2>2, <2>4 DEF NoTryFrom
      <3>3. SetTopBlocks(t, SubSeq(b, 1, keep))
        BY <2>1 DEF Pop
      <3> QED BY <1>0, <2>1, <3>1, <3>2, <3>3, NTruncates
    <2> QED BY <2>3, <2>4
  <1>8. ASSUME NEW keep \in 0..MaxSerial, JumpOut(t, keep) PROVE NInv'
    <2>1. keep \in Nat
      BY ConstantsAssumption
    <2>2. Keeps(t)
      BY <1>0, <1>8, <2>1, JumpOutKeeps
    <2> QED BY <1>0, <1>8, <2>1, <2>2, NTruncates DEF JumpOut
  <1>9. CASE RuntimeError(t)
    <2>1. Catches(t) \/ Ends(t) \/ Strays(t)
      BY <1>0, <1>9, DispatchLive DEF RuntimeError, Cold
    <2> QED BY <1>0, <2>1, NSpent
  <1>10. CASE BoundsError(t)
    <2>1. Ends(t)
      BY <1>0, <1>10, ExitEnds DEF BoundsError
    <2> QED BY <1>0, <2>1, NSpent
  <1>11. ASSUME NEW c \in Codes, Raise(t, c) \/ ThreadExit(t, c) PROVE NInv'
    <2>1. Catches(t) \/ Ends(t) \/ Strays(t)
      BY <1>0, <1>11, DispatchLive, ExitEnds DEF Raise, ThreadExit
    <2> QED BY <1>0, <2>1, NSpent
  <1>12. ASSUME NEW u \in Threads, ThreadSpawn(t, u) PROVE NInv'
    BY <1>0, <1>12, SpawnStarts, NStarts
  <1> QED BY <1>0, <1>1, <1>3, <1>4, <1>5, <1>6, <1>7, <1>8, <1>9, <1>10, <1>11,
             <1>12, NReturn, NTailCall, NEnterTry

\* At first no quartet is armed.
LEMMA NInit == Init => NInv
  <1> SUFFICES ASSUME Init PROVE NInv
    OBVIOUS
  <1>1. QInv
    BY QInit
  <1>2. ASSUME NEW t \in Threads, Running(t) PROVE NFit(t, stack[t], LiveRegs(t))
    <2>1. stack[t] = <<ColdFrame(0)>> /\ regs[t] = ZeroRegs
      BY <1>2 DEF Init, Running
    <2>2. Len(stack[t]) = 1 /\ stack[t][1] = ColdFrame(0) /\ ~ColdFrame(0).hot
      BY <2>1 DEF ColdFrame
    <2>3. LiveRegs(t) = ZeroRegs /\ ZeroRegs[15] = Int(0)
      BY <2>1, <2>2 DEF LiveRegs, Top, ZeroRegs, Quartet
    <2> QED BY <2>3 DEF NFit, Own
  <1> QED BY <1>1, <1>2 DEF NInv

-----------------------------------------------------------------------------
(* Nested blocks alone lose errors but never hand on another's quartet. *)

AllOwn ==
  \A t \in Threads :
    Running(t) /\ LiveRegs(t)[15] # Int(0) => LiveRegs(t)[12].thread = t

OInv == NInv /\ AllOwn

\* A step of one thread alone leaves the others' own quartets.
LEMMA OOthers ==
  ASSUME OInv, NInv', NEW x \in Threads, Alone(x),
         Running(x)' /\ (LiveRegs(x))'[15] # Int(0) => (LiveRegs(x))'[12].thread = x
  PROVE  OInv'
  <1>1. ASSUME NEW u \in Threads, Running(u)', (LiveRegs(u))'[15] # Int(0)
        PROVE  (LiveRegs(u))'[12].thread = u
    <2>1. CASE u = x
      BY <1>1, <2>1
    <2>2. CASE u # x
      <3>1. Running(u) /\ (LiveRegs(u))' = LiveRegs(u)
        BY <1>1, <2>2, OthersLive
      <3> QED BY <1>1, <3>1 DEF OInv, AllOwn
    <2> QED BY <2>1, <2>2
  <1> QED BY <1>1 DEF OInv, AllOwn

\* An armed quartet of one's own is resumable, ...
LEMMA OwnResumable ==
  ASSUME OInv, NEW t \in Threads, Cold(t), regs[t][15] # Int(0)
  PROVE  Resumable(t)
  <1>1. Running(t) /\ LiveRegs(t) = regs[t]
    BY DEF Cold, LiveRegs
  <1>2. Own(t, regs[t])
    BY <1>1 DEF OInv, AllOwn, Own
  <1>3. PICK d \in 1..Len(stack[t]) : \E j \in 1..Len(stack[t][d].blocks) :
           InnermostIn(stack[t], d, j) /\ Armed(t, stack[t], d, j, regs[t])
    BY <1>1, <1>2 DEF OInv, NInv, NFit
  <1>4. PICK j \in 1..Len(stack[t][d].blocks) : Armed(t, stack[t], d, j, regs[t])
    BY <1>3
  <1>5. /\ regs[t][12] = StackPos(t, d, stack[t][d].act) /\ regs[t][13] = regs[t][12]
        /\ regs[t][14].kind = "code"
    BY <1>4 DEF Armed, CodePos
  <1>6. /\ regs[t][12].kind = "stack" /\ regs[t][12].thread = t
        /\ regs[t][12].depth = d /\ regs[t][12].act = stack[t][d].act
    BY <1>5 DEF StackPos
  <1> QED BY <1>5, <1>6 DEF Resumable

\* ... so no error jumps through one that is not.
LEMMA NeverStrays ==
  ASSUME OInv, NEW t \in Threads
  PROVE  ~Strays(t)
  BY OwnResumable DEF Strays

\* Outside try blocks no quartet is armed, so a started thread has none.
LEMMA OStarts ==
  ASSUME OInv, NInv', NEW t \in Threads, NEW u \in Threads, Starts(t, u),
         ~Uses("spawn")
  PROVE  OInv'
  <1>1. Running(t) /\ NoTry(stack[t])
    BY DEF Starts, NoOpenTry
  <1>2. LiveRegs(t)[15] = Int(0)
    <2>1. SUFFICES ASSUME LiveRegs(t)[15] # Int(0) PROVE FALSE
      OBVIOUS
    <2>2. Own(t, LiveRegs(t))
      BY <1>1, <2>1 DEF OInv, AllOwn, Own
    <2>3. \E d \in 1..Len(stack[t]) : \E j \in 1..Len(stack[t][d].blocks) :
            InnermostIn(stack[t], d, j)
      BY <1>1, <2>2 DEF OInv, NInv, NFit
    <2> QED BY <1>1, <2>3 DEF InnermostIn, NoTry
  <1>3. Alone(u) /\ status'[u] = "running" /\ (LiveRegs(u))' = LiveRegs(t)
    BY DEF Starts
  <1> QED BY <1>2, <1>3, OOthers

\* Armed quartets stay their thread's own.
LEMMA OStep ==
  ASSUME OInv, Forms \subseteq {"nested", "falloff", "bounds"}, [Next]_vars
  PROVE  OInv'
  <1>0. /\ "hotfault" \notin Forms /\ "escape" \notin Forms /\ ~Uses("spawn")
    BY DEF Uses
  <1>1. NInv /\ NInv' /\ QInv
    BY <1>0, NStep DEF OInv, NInv
  <1>u. CASE UNCHANGED vars
    <2>1. \A u \in Threads : Running(u)' = Running(u) /\ (LiveRegs(u))' = LiveRegs(u)
      BY <1>u DEF vars, Running, LiveRegs, Top
    <2> QED BY <1>1, <2>1 DEF OInv, AllOwn
  <1>2. SUFFICES ASSUME Next PROVE OInv'
    BY <1>u
  <1>3. PICK t \in Threads :
           \/ Keeps(t) \/ Disarms(t) \/ Arms(t) \/ Catches(t) \/ Ends(t)
           \/ \E u \in Threads : Starts(t, u)
    BY <1>0, <1>1, <1>2, Kinds, NeverStrays
  <1>4. CASE Keeps(t)
    <2>1. Alone(t) /\ Running(t) /\ (LiveRegs(t))' = LiveRegs(t)
      BY <1>4 DEF Keeps, GoesOn
    <2> QED BY <1>1, <2>1, OOthers DEF OInv, AllOwn
  <1>5. CASE Disarms(t) \/ Catches(t)
    <2>1. Alone(t) /\ (LiveRegs(t))'[15] = Int(0)
      BY <1>5 DEF Disarms, Catches, GoesOn
    <2> QED BY <1>1, <2>1, OOthers
  <1>6. CASE Arms(t)
    <2>1. Alone(t) /\ (LiveRegs(t))'[12].thread = t
      BY <1>6 DEF Arms, GoesOn
    <2> QED BY <1>1, <2>1, OOthers
  <1>7. CASE Ends(t)
    <2>1. Alone(t) /\ ~Running(t)'
      BY <1>7 DEF Ends, Running
    <2> QED BY <1>1, <2>1, OOthers
  <1>8. ASSUME NEW u \in Threads, Starts(t, u) PROVE OInv'
    BY <1>0, <1>1, <1>8, OStarts
  <1> QED BY <1>3, <1>4, <1>5, <1>6, <1>7, <1>8

\* At first no quartet is armed.
LEMMA OInit == Init => OInv
  <1> SUFFICES ASSUME Init PROVE OInv
    OBVIOUS
  <1>1. ASSUME NEW t \in Threads, Running(t) PROVE LiveRegs(t)[15] = Int(0)
    <2>1. stack[t] = <<ColdFrame(0)>> /\ regs[t] = ZeroRegs
      BY <1>1 DEF Init, Running
    <2>2. Len(stack[t]) = 1 /\ stack[t][1] = ColdFrame(0) /\ ~ColdFrame(0).hot
      BY <2>1 DEF ColdFrame
    <2> QED BY <2>1, <2>2 DEF LiveRegs, Top, ZeroRegs, Quartet
  <1> QED BY <1>1, NInit DEF OInv, AllOwn

\* An error that does not end its thread: it is neither an exit nor a jump
\* through a quartet that cannot be resumed.
LEMMA CaughtRight ==
  ASSUME OInv, NEW t \in Threads, Cold(t), NEW c, Dispatch(t, c),
         status'[t] # "exited"
  PROVE  Lang!Error(t, c)
  <1>1. TInv /\ Running(t) /\ LiveRegs(t) = regs[t]
    BY DEF OInv, NInv, QInv, Cold, LiveRegs
  <1>2. regs[t][15] # Int(0)
    BY <1>1 DEF Dispatch, Exit, TInv, TypeOK
  <1>3. Resumable(t) /\ Resume(t)
    BY <1>2, OwnResumable DEF Dispatch, Unwind
  <1>4. Own(t, regs[t])
    BY <1>2, <1>3 DEF Own, Resumable
  <1>5. PICK d \in 1..Len(stack[t]) : \E j \in 1..Len(stack[t][d].blocks) :
           InnermostIn(stack[t], d, j) /\ Armed(t, stack[t], d, j, regs[t])
    BY <1>1, <1>4 DEF OInv, NInv, NFit
  <1>6. PICK j \in 1..Len(stack[t][d].blocks) :
           InnermostIn(stack[t], d, j) /\ Armed(t, stack[t], d, j, regs[t])
    BY <1>5
  <1> QED BY <1>1, <1>3, <1>6, ResumeIsCatch

\* NoWrongCatch: in a program that nests try blocks, has functions that fall
\* off their end and failing index checks, an error that does not end its
\* thread is caught by the innermost open try block of that thread, and no
\* error runs on with a stale or foreign quartet (cg_emit_catch_unwind_check,
\* the catch entry of NODE_TRY_CATCH, the clone of thread_spawn).
THEOREM NeverMisdirected ==
  ASSUME Forms \subseteq {"nested", "falloff", "bounds"}
  PROVE  Spec => NoWrongCatch
  <1>1. Init => OInv
    BY OInit
  <1>2. OInv /\ [Next]_vars => OInv'
    BY OStep
  <1>3. ASSUME OInv, NEW t \in Threads
        PROVE  /\ RuntimeError(t) /\ status'[t] # "exited" => Lang!Error(t, 1)
               /\ \A c \in Codes :
                    Raise(t, c) /\ status'[t] # "exited" => Lang!Error(t, c)
    <2>1. ~Uses("hotfault")
      BY DEF Uses
    <2> QED BY <1>3, <2>1, CaughtRight DEF RuntimeError, Raise, Cold
  <1>4. OInv /\ [Next]_vars =>
          [\A t \in Threads :
             /\ RuntimeError(t) /\ status'[t] # "exited" => Lang!Error(t, 1)
             /\ \A c \in Codes :
                  Raise(t, c) /\ status'[t] # "exited" => Lang!Error(t, c)]_vars
    BY <1>3
  <1> QED BY <1>1, <1>2, <1>4, PTL DEF Spec, NoWrongCatch
-----------------------------------------------------------------------------
(* One execution of a try block is caught into at most once. *)

\* By the count cs, try block n was never caught into (MaxSerial bounds the
\* numbers that are counted).
Uncaught(n, cs) == n \in 0..MaxSerial => cs[n] = 0

\* A thread that may still jump through a quartet of its own has not done so,
\* and no other thread can in its place.
CInv ==
  /\ QInv
  /\ CatchOnce
  /\ \A n \in Nat : n >= serial => Uncaught(n, catches)
  /\ \A t \in Threads :
       Running(t) /\ Own(t, LiveRegs(t)) => Uncaught(Caught(LiveRegs(t)), catches)
  /\ \A t \in Threads, u \in Threads :
       /\ Running(t) /\ Own(t, LiveRegs(t))
       /\ Running(u) /\ Own(u, LiveRegs(u))
       /\ Caught(LiveRegs(t)) = Caught(LiveRegs(u))
       => t = u

\* A step that counts no catch and leaves x without a new quartet of its own.
LEMMA COthers ==
  ASSUME CInv, QInv', NEW x \in Threads, Alone(x), serial <= serial',
         catches' = catches,
         Running(x)' /\ Own(x, (LiveRegs(x))') =>
           Running(x) /\ (LiveRegs(x))' = LiveRegs(x)
  PROVE  CInv'
  <1>1. serial \in Nat /\ serial' \in Nat
    BY DEF CInv, QInv, TInv, TypeOK
  <1>2. \A n \in Nat : n >= serial' => Uncaught(n, catches')
    <2> SUFFICES ASSUME NEW n \in Nat, n >= serial' PROVE Uncaught(n, catches')
      OBVIOUS
    <2>1. n >= serial
      BY <1>1
    <2> QED BY <2>1 DEF CInv, Uncaught
  <1>3. ASSUME NEW u \in Threads, Running(u)', Own(u, (LiveRegs(u))')
        PROVE  Running(u) /\ (LiveRegs(u))' = LiveRegs(u)
    <2>1. CASE u = x
      BY <1>3, <2>1
    <2>2. CASE u # x
      BY <1>3, <2>2, OthersLive
    <2> QED BY <2>1, <2>2
  <1>4. ASSUME NEW u \in Threads, Running(u)', Own(u, (LiveRegs(u))')
        PROVE  Uncaught(Caught((LiveRegs(u))'), catches')
    BY <1>3, <1>4 DEF CInv, Uncaught
  <1>5. ASSUME NEW u \in Threads, NEW w \in Threads,
               Running(u)', Own(u, (LiveRegs(u))'), Running(w)', Own(w, (LiveRegs(w))'),
               Caught((LiveRegs(u))') = Caught((LiveRegs(w))')
        PROVE  u = w
    <2>1. Running(u) /\ (LiveRegs(u))' = LiveRegs(u)
      BY <1>3, <1>5
    <2>2. Running(w) /\ (LiveRegs(w))' = LiveRegs(w)
      BY <1>3, <1>5
    <2> QED BY <1>5, <2>1, <2>2 DEF CInv
  <1>6. CatchOnce'
    BY DEF CInv, CatchOnce
  <1> QED BY <1>2, <1>4, <1>5, <1>6 DEF CInv, Own, Caught, Uncaught

\* Entering a try block: its number is new.
LEMMA CArms ==
  ASSUME CInv, QInv', NEW t \in Threads, Arms(t)
  PROVE  CInv'
  <1> DEFINE q == (LiveRegs(t))'
  <1>1. /\ serial \in Nat /\ serial' = serial + 1 /\ catches' = catches
        /\ Alone(t) /\ TInv
    BY DEF CInv, QInv, TInv, TypeOK, Arms, GoesOn
  <1>2. Caught(q) = serial
    BY DEF Arms
  <1>3. \A n \in Nat : n >= serial' => Uncaught(n, catches')
    <2> SUFFICES ASSUME NEW n \in Nat, n >= serial' PROVE Uncaught(n, catches')
      OBVIOUS
    <2>1. n >= serial
      BY <1>1
    <2> QED BY <1>1, <2>1 DEF CInv, Uncaught
  <1>4. ASSUME NEW u \in Threads, u # t, Running(u)', Own(u, (LiveRegs(u))')
        PROVE  /\ Running(u) /\ (LiveRegs(u))' = LiveRegs(u)
               /\ Own(u, LiveRegs(u)) /\ Caught(LiveRegs(u)) # serial
    <2>1. Running(u) /\ (LiveRegs(u))' = LiveRegs(u)
      BY <1>1, <1>4, OthersLive
    <2>2. LiveRegs(u) \in RegFile
      BY <1>1, <2>1, RunningTypes
    <2>3. WellMade(LiveRegs(u), status, serial) /\ LiveRegs(u)[15] # Int(0)
      BY <1>4, <2>1 DEF CInv, QInv, Own
    <2>4. Caught(LiveRegs(u)) \in Nat
      BY <2>2, <2>3, CaughtNat
    <2>5. Caught(LiveRegs(u)) < serial
      BY <2>3 DEF WellMade
    <2>6. Caught(LiveRegs(u)) # serial
      BY <1>1, <2>4, <2>5
    <2> QED BY <1>4, <2>1, <2>6
  <1>5. ASSUME NEW u \in Threads, Running(u)', Own(u, (LiveRegs(u))')
        PROVE  Uncaught(Caught((LiveRegs(u))'), catches')
    <2>1. CASE u = t
      <3>1. serial >= serial
        BY <1>1
      <3>2. Uncaught(serial, catches)
        BY <1>1, <3>1 DEF CInv
      <3> QED BY <1>1, <1>2, <2>1, <3>2 DEF Uncaught
    <2>2. CASE u # t
      BY <1>1, <1>4, <1>5, <2>2 DEF CInv, Uncaught
    <2> QED BY <2>1, <2>2
  <1>6. ASSUME NEW u \in Threads, NEW w \in Threads,
               Running(u)', Own(u, (LiveRegs(u))'), Running(w)', Own(w, (LiveRegs(w))'),
               Caught((LiveRegs(u))') = Caught((LiveRegs(w))')
        PROVE  u = w
    <2>1. CASE u = t /\ w # t
      BY <1>2, <1>4, <1>6, <2>1
    <2>2. CASE u # t /\ w = t
      BY <1>2, <1>4, <1>6, <2>2
    <2>3. CASE u # t /\ w # t
      <3>1. Running(u) /\ Own(u, LiveRegs(u)) /\ (LiveRegs(u))' = LiveRegs(u)
        BY <1>4, <1>6, <2>3
      <3>2. Running(w) /\ Own(w, LiveRegs(w)) /\ (LiveRegs(w))' = LiveRegs(w)
        BY <1>4, <1>6, <2>3
      <3> QED BY <1>6, <3>1, <3>2 DEF CInv
    <2> QED BY <2>1, <2>2, <2>3
  <1>7. CatchOnce'
    BY <1>1 DEF CInv, CatchOnce
  <1> QED BY <1>3, <1>5, <1>6, <1>7 DEF CInv, Own, Caught, Uncaught

\* A caught error: the try block's one catch, and its quartet is spent.
LEMMA CCatches ==
  ASSUME CInv, QInv', NEW t \in Threads, Catches(t)
  PROVE  CInv'
  <1> DEFINE n == Caught(LiveRegs(t))
  <1>1. /\ serial \in Nat /\ serial' = serial /\ Alone(t) /\ TInv /\ Running(t)
        /\ catches' = [catches EXCEPT ![n] = @ + 1]
        /\ Own(t, LiveRegs(t)) /\ ~Own(t, (LiveRegs(t))')
    BY DEF CInv, QInv, TInv, TypeOK, Catches, GoesOn, Own
  <1>2. /\ n \in Nat /\ n < serial /\ Uncaught(n, catches)
    <2>1. LiveRegs(t) \in RegFile /\ WellMade(LiveRegs(t), status, serial)
      BY <1>1, RunningTypes DEF CInv, QInv
    <2>2. n \in Nat /\ n < serial
      BY <1>1, <2>1, CaughtNat DEF Own, WellMade
    <2> QED BY <1>1, <2>2 DEF CInv
  <1>3. catches \in [0..MaxSerial -> Nat]
    BY <1>1 DEF TInv, TypeOK
  <1> HIDE DEF n
  <1>4. \A m \in 0..MaxSerial : catches'[m] = IF m = n THEN catches[m] + 1 ELSE catches[m]
    BY <1>1, <1>3
  <1>5. \A m : m # n /\ Uncaught(m, catches) => Uncaught(m, catches')
    BY <1>4 DEF Uncaught
  <1>6. \A m \in Nat : m >= serial' => Uncaught(m, catches')
    <2> SUFFICES ASSUME NEW m \in Nat, m >= serial' PROVE Uncaught(m, catches')
      OBVIOUS
    <2>1. m # n /\ m >= serial
      BY <1>1, <1>2
    <2>2. Uncaught(m, catches)
      BY <2>1 DEF CInv
    <2> QED BY <1>5, <2>1, <2>2
  <1>7. ASSUME NEW u \in Threads, Running(u)', Own(u, (LiveRegs(u))')
        PROVE  /\ u # t /\ Running(u) /\ (LiveRegs(u))' = LiveRegs(u)
               /\ Own(u, LiveRegs(u))
    <2>1. u # t
      BY <1>1, <1>7
    <2>2. Running(u) /\ (LiveRegs(u))' = LiveRegs(u)
      BY <1>1, <1>7, <2>1, OthersLive
    <2> QED BY <1>7, <2>1, <2>2
  <1>8. ASSUME NEW u \in Threads, Running(u)', Own(u, (LiveRegs(u))')
        PROVE  Uncaught(Caught((LiveRegs(u))'), catches')
    <2>1. /\ u # t /\ Running(u) /\ (LiveRegs(u))' = LiveRegs(u)
          /\ Own(u, LiveRegs(u))
      BY <1>7, <1>8
    <2>2. Caught(LiveRegs(u)) # n
      BY <1>1, <2>1 DEF CInv, n
    <2>3. Uncaught(Caught(LiveRegs(u)), catches)
      BY <2>1 DEF CInv
    <2> QED BY <1>5, <2>1, <2>2, <2>3
  <1>9. ASSUME NEW u \in Threads, NEW w \in Threads,
               Running(u)', Own(u, (LiveRegs(u))'), Running(w)', Own(w, (LiveRegs(w))'),
               Caught((LiveRegs(u))') = Caught((LiveRegs(w))')
        PROVE  u = w
    <2>1. Running(u) /\ (LiveRegs(u))' = LiveRegs(u) /\ Own(u, LiveRegs(u))
      BY <1>7, <1>9
    <2>2. Running(w) /\ (LiveRegs(w))' = LiveRegs(w) /\ Own(w, LiveRegs(w))
      BY <1>7, <1>9
    <2> QED BY <1>9, <2>1, <2>2 DEF CInv
  <1>10. CatchOnce'
    <2> SUFFICES ASSUME NEW m \in 0..MaxSerial PROVE catches'[m] <= 1
      BY DEF CatchOnce
    <2>1. CASE m = n
      <3>1. catches[m] = 0
        BY <1>2, <2>1 DEF Uncaught
      <3>2. catches'[m] = catches[m] + 1
        BY <1>4, <2>1
      <3> QED BY <3>1, <3>2
    <2>2. CASE m # n
      BY <1>4, <2>2 DEF CInv, CatchOnce
    <2> QED BY <2>1, <2>2
  <1> QED BY <1>6, <1>8, <1>9, <1>10 DEF CInv, Own, Caught, Uncaught

\* No kind of step lets a try number be caught twice.
LEMMA CStep ==
  ASSUME CInv, OInv, "hotfault" \notin Forms, [Next]_vars
  PROVE  CInv'
  <1>0. QInv /\ QInv' /\ TInv'
    BY QStep DEF CInv, QInv
  <1>u. CASE UNCHANGED vars
    <2>1. \A u \in Threads : Running(u)' = Running(u) /\ (LiveRegs(u))' = LiveRegs(u)
      BY <1>u DEF vars, Running, LiveRegs, Top
    <2>2. serial' = serial /\ catches' = catches
      BY <1>u DEF vars
    <2> QED BY <1>0, <2>1, <2>2 DEF CInv, CatchOnce
  <1>1. SUFFICES ASSUME Next PROVE CInv'
    BY <1>u
  <1>2. PICK t \in Threads :
           \/ Keeps(t) \/ Disarms(t) \/ Arms(t) \/ Catches(t) \/ Ends(t)
           \/ \E u \in Threads : Starts(t, u)
    BY <1>0, <1>1, Kinds, NeverStrays
  <1>3. serial <= serial'
    BY <1>0, <1>2, NothingReused
  <1>4. CASE Keeps(t)
    <2>1. /\ Alone(t) /\ Running(t) /\ (LiveRegs(t))' = LiveRegs(t)
          /\ catches' = catches
      BY <1>4 DEF Keeps, GoesOn
    <2> QED BY <1>0, <1>3, <2>1, COthers
  <1>5. CASE Disarms(t)
    <2>1. /\ Alone(t) /\ ~Own(t, (LiveRegs(t))') /\ catches' = catches
      BY <1>5 DEF Disarms, GoesOn, Own
    <2> QED BY <1>0, <1>3, <2>1, COthers
  <1>6. CASE Arms(t)
    BY <1>0, <1>6, CArms
  <1>7. CASE Catches(t)
    BY <1>0, <1>7, CCatches
  <1>8. CASE Ends(t)
    <2>1. /\ Alone(t) /\ ~Running(t)' /\ catches' = catches
      BY <1>8 DEF Ends, Running
    <2> QED BY <1>0, <1>3, <2>1, COthers
  <1>9. ASSUME NEW u \in Threads, Starts(t, u) PROVE CInv'
    <2>1. /\ Alone(u) /\ Running(t) /\ (LiveRegs(u))' = LiveRegs(t)
          /\ catches' = catches /\ status[u] = "unborn"
      BY <1>9 DEF Starts
    <2>2. WellMade(LiveRegs(t), status, serial)
      BY <1>0, <2>1 DEF QInv
    <2>3. ~Own(u, (LiveRegs(u))')
      BY <2>1, <2>2 DEF Own, WellMade
    <2> QED BY <1>0, <1>3, <2>1, <2>3, COthers
  <1> QED BY <1>2, <1>4, <1>5, <1>6, <1>7, <1>8, <1>9

\* At first nothing is caught.
LEMMA CInit == Init => CInv
  <1> SUFFICES ASSUME Init PROVE CInv
    OBVIOUS
  <1>1. QInv /\ serial = 1
    BY QInit DEF Init
  <1>2. \A n \in 0..MaxSerial : catches[n] = 0
    BY DEF Init
  <1>3. \A n : Uncaught(n, catches)
    BY <1>2 DEF Uncaught
  <1>4. \A t \in Threads : Running(t) => t = Main
    BY DEF Init, Running
  <1>5. CatchOnce
    BY <1>2 DEF CatchOnce
  <1> QED BY <1>1, <1>3, <1>4, <1>5 DEF CInv

\* CatchOnce: in a program that nests try blocks, has functions that fall off
\* their end and failing index checks, one execution of a try block enters its
\* catch part at most once, its own errors included (NODE_TRY_CATCH clears r15
\* at the catch entry, emit_function restores the pushed quartet).
THEOREM CaughtAtMostOnce ==
  ASSUME Forms \subseteq {"nested", "falloff", "bounds"}
  PROVE  Spec => []CatchOnce
  <1>1. Init => CInv /\ OInv
    BY CInit, OInit
  <1>2. CInv /\ OInv /\ [Next]_vars => (CInv /\ OInv)'
    BY CStep, OStep
  <1>3. CInv => CatchOnce
    BY DEF CInv
  <1> QED BY <1>1, <1>2, <1>3, PTL DEF Spec
-----------------------------------------------------------------------------
(* Without functions that fall off their end, nobody leaves the program. *)

WInv == OInv /\ NeverWild

\* No thread runs wild in any step.
LEMMA WStep ==
  ASSUME WInv, Forms \subseteq {"nested", "bounds"}, [Next]_vars
  PROVE  WInv'
  <1>0. /\ "hotfault" \notin Forms /\ ~Uses("falloff")
        /\ Forms \subseteq {"nested", "falloff", "bounds"}
    BY DEF Uses
  <1>1. QInv /\ OInv /\ OInv'
    BY <1>0, OStep DEF WInv, OInv, NInv
  <1>u. CASE UNCHANGED vars
    BY <1>1, <1>u DEF vars, WInv, NeverWild
  <1>2. SUFFICES ASSUME Next PROVE NeverWild'
    BY <1>1, <1>u DEF WInv
  <1>3. PICK t \in Threads :
           \/ Keeps(t) \/ Disarms(t) \/ Arms(t) \/ Catches(t) \/ Ends(t)
           \/ \E u \in Threads : Starts(t, u)
    BY <1>0, <1>1, <1>2, Kinds, NeverStrays
  <1>4. PICK u \in Threads : Alone(u) /\ status'[u] \in {"running", "exited"}
    BY <1>0, <1>3 DEF Keeps, Disarms, Arms, Catches, Ends, Starts, GoesOn
  <1> QED BY <1>4 DEF WInv, NeverWild, Alone

\* NeverWild: a program that nests try blocks as it likes, and whose index
\* checks fail where they like, never jumps through a stale or foreign quartet
\* (cg_emit_catch_unwind_check, emit_return, the clone of thread_spawn).
THEOREM StaysInProgram ==
  ASSUME Forms \subseteq {"nested", "bounds"}
  PROVE  Spec => []NeverWild
  <1>1. Init => WInv
    BY OInit DEF Init, WInv, NeverWild
  <1>2. WInv /\ [Next]_vars => WInv'
    BY WStep
  <1>3. WInv => NeverWild
    BY DEF WInv
  <1> QED BY <1>1, <1>2, <1>3, PTL DEF Spec
=============================================================================
