-------------------------- MODULE AtomicF64Proofs --------------------------
(***************************************************************************)
(* atomic_add_f64's retry loop implements one atomic addition, for every   *)
(* number of threads, sequence of deltas, value set and addition, and with *)
(* other code storing into the slot at any time.                           *)
(***************************************************************************)
EXTENDS AtomicF64, TLAPS

\* A thread that takes the loop has a delta that is not NaN.
GuardPassed == \A t \in Threads : pc[t] = "cmpxchg" => ~IsNaN(Delta(t))

AInv == TypeOK /\ GuardPassed

\* The invariant holds when no thread has called.
LEMMA InvInit == Init => AInv
  BY ConstantsAssumption DEF Init, AInv, TypeOK, GuardPassed

\* A thread inside a call has a delta, a number of F64.
LEMMA DeltaType ==
  ASSUME TypeOK, NEW t \in Threads, pc[t] # "out"
  PROVE  Delta(t) \in F64
  <1>1. Deltas[t] \in Seq(F64) /\ next[t] \in Nat \ {0} /\ next[t] <= Len(Deltas[t])
    BY ConstantsAssumption DEF TypeOK
  <1>2. Len(Deltas[t]) \in Nat
    BY <1>1
  <1>3. next[t] \in 1..Len(Deltas[t])
    BY <1>1, <1>2
  <1> QED BY <1>1, <1>3 DEF Delta

\* The end of a call keeps the invariant.
LEMMA FinishInv ==
  ASSUME AInv, NEW t \in Threads, NEW old \in F64, Finish(t, old),
         slot' \in F64, rax' = rax
  PROVE  AInv'
  <1>1. /\ result' \in [Threads -> F64] /\ rax' \in [Threads -> F64]
        /\ pc' \in [Threads -> {"out", "load", "cmpxchg"}]
    BY DEF Finish, AInv, TypeOK
  <1>2. next' \in [Threads -> Nat \ {0}]
    <2>1. next[t] + 1 \in Nat \ {0}
      BY DEF AInv, TypeOK
    <2> QED BY <2>1 DEF Finish, AInv, TypeOK
  <1>3. ASSUME NEW u \in Threads, pc'[u] # "out"
        PROVE  pc[u] = pc'[u] /\ next'[u] = next[u] /\ u # t
    BY <1>3 DEF Finish, AInv, TypeOK
  <1>4. TypeOK'
    BY <1>1, <1>2, <1>3 DEF AInv, TypeOK
  <1>5. GuardPassed'
    BY <1>3 DEF AInv, GuardPassed, Delta
  <1> QED BY <1>4, <1>5 DEF AInv

\* The invariant is inductive.
LEMMA InvStep == AInv /\ [Next]_vars => AInv'
  <1> SUFFICES ASSUME AInv, [Next]_vars PROVE AInv'
    OBVIOUS
  <1>1. CASE UNCHANGED vars
    BY <1>1 DEF vars, AInv, TypeOK, GuardPassed, Delta
  <1>2. ASSUME NEW t \in Threads, Start(t) PROVE AInv'
    BY <1>2 DEF Start, AInv, TypeOK, GuardPassed, Delta
  <1>3. ASSUME NEW t \in Threads, SkipNaN(t) PROVE AInv'
    <2>1. Finish(t, slot) /\ slot' = slot /\ rax' = rax /\ slot \in F64
      BY <1>3 DEF SkipNaN, AInv, TypeOK
    <2> QED BY <2>1, FinishInv
  <1>4. ASSUME NEW t \in Threads, Load(t) PROVE AInv'
    <2>1. TypeOK'
      BY <1>4 DEF Load, AInv, TypeOK
    <2>2. GuardPassed'
      BY <1>4 DEF Load, AInv, GuardPassed, Delta
    <2> QED BY <2>1, <2>2 DEF AInv
  <1>5. ASSUME NEW t \in Threads, Cmpxchg(t) PROVE AInv'
    <2>1. CASE slot = rax[t]
      <3>1. /\ slot' = NewValue(t) /\ Finish(t, rax[t]) /\ rax' = rax
            /\ rax[t] \in F64
        BY <1>5, <2>1 DEF Cmpxchg, AInv, TypeOK
      <3>2. Delta(t) \in F64
        BY <1>5, DeltaType DEF Cmpxchg, AInv
      <3>3. NewValue(t) \in F64
        BY <3>1, <3>2, ConstantsAssumption DEF NewValue
      <3> QED BY <3>1, <3>3, FinishInv
    <2>2. CASE slot # rax[t]
      BY <1>5, <2>2 DEF Cmpxchg, AInv, TypeOK, GuardPassed, Delta
    <2> QED BY <2>1, <2>2
  <1>6. ASSUME NEW v \in Stores, Store(v) PROVE AInv'
    BY <1>6, ConstantsAssumption
       DEF Store, AInv, TypeOK, GuardPassed, Delta
  <1> QED BY <1>1, <1>2, <1>3, <1>4, <1>5, <1>6 DEF Next, Step

\* Every variable keeps its type; in particular a thread leaves the loop only
\* by completing its call (the emitter of atomic_add_f64).
THEOREM TypeCorrect == Spec => []TypeOK
  BY InvInit, InvStep, PTL DEF Spec, AInv

\* Ending a call with the combined value in the slot is one abstract addition.
LEMMA FinishIsAdd ==
  ASSUME TypeOK, NEW t \in Threads, pc[t] # "out", Finish(t, slot),
         slot' = Atomic!Combined(slot, Delta(t))
  PROVE  Atomic!Add(t)
  <1>1. inside' = [inside EXCEPT ![t] = FALSE]
    BY DEF Finish, inside, TypeOK
  <1>2. inside[t]
    BY DEF inside
  <1> QED BY <1>1, <1>2 DEF Finish, Atomic!Add, Delta

\* Every step is an abstract addition, another's store, or a stutter.
LEMMA StepRefines == AInv /\ [Next]_vars => [Atomic!Next]_(Atomic!avars)
  <1> SUFFICES ASSUME AInv, [Next]_vars
               PROVE  Atomic!Next \/ UNCHANGED Atomic!avars
    OBVIOUS
  <1> USE DEF Atomic!avars
  <1>1. CASE UNCHANGED vars
    BY <1>1 DEF vars, inside
  <1>2. ASSUME NEW t \in Threads, Start(t) PROVE Atomic!Next
    <2>1. inside' = [inside EXCEPT ![t] = TRUE] /\ ~inside[t]
      BY <1>2 DEF Start, inside, AInv, TypeOK
    <2> QED BY <1>2, <2>1 DEF Start, Atomic!Start, Atomic!Next
  <1>3. ASSUME NEW t \in Threads, SkipNaN(t) PROVE Atomic!Next
    <2>1. /\ pc[t] # "out" /\ Finish(t, slot)
          /\ slot' = Atomic!Combined(slot, Delta(t))
      BY <1>3 DEF SkipNaN, Atomic!Combined, IsNaN
    <2> QED BY <2>1, FinishIsAdd DEF AInv, Atomic!Next
  <1>4. ASSUME NEW t \in Threads, Load(t) PROVE UNCHANGED Atomic!avars
    <2>1. inside' = inside
      BY <1>4 DEF Load, inside, AInv, TypeOK
    <2> QED BY <1>4, <2>1 DEF Load
  <1>5. ASSUME NEW t \in Threads, Cmpxchg(t), slot = rax[t] PROVE Atomic!Next
    <2>1. pc[t] # "out" /\ Finish(t, slot) /\ slot' = NewValue(t)
      BY <1>5 DEF Cmpxchg
    <2>2. ~IsNaN(Delta(t))
      BY <1>5 DEF Cmpxchg, AInv, GuardPassed
    <2>3. slot' = Atomic!Combined(slot, Delta(t))
      BY <1>5, <2>1, <2>2 DEF NewValue, Atomic!Combined, IsNaN
    <2> QED BY <2>1, <2>3, FinishIsAdd DEF AInv, Atomic!Next
  <1>6. ASSUME NEW t \in Threads, Cmpxchg(t), slot # rax[t]
        PROVE  UNCHANGED Atomic!avars
    BY <1>6 DEF Cmpxchg, inside
  <1>7. ASSUME NEW v \in Stores, Store(v) PROVE Atomic!Next
    <2>1. inside' = inside
      BY <1>7 DEF Store, inside
    <2> QED BY <1>7, <2>1 DEF Store, Atomic!Store, Atomic!Next
  <1> QED BY <1>1, <1>2, <1>3, <1>4, <1>5, <1>6, <1>7 DEF Next, Step

\* The load, the arithmetic and the lock cmpxchg of every call, interleaved
\* with any other thread's and with plain stores, are one atomic addition
\* that returns the value it added to (the emitter of atomic_add_f64).
THEOREM Linearizable == Spec => Linearizes
  <1>1. Init => Atomic!Init
    BY DEF Init, Atomic!Init, inside
  <1> QED BY <1>1, InvInit, InvStep, StepRefines, PTL
          DEF Spec, Linearizes, Atomic!AccumulatorSpec

\* Only a completed call moves a thread on, and it is the thread's own.
LEMMA CompletedRepairs ==
  ASSUME AInv, [Next]_vars, NEW t \in Threads, next'[t] # next[t], Harmless(Delta(t))
  PROVE  ~IsNaN(slot')
  <1>1. PICK u \in Threads : Step(u)
    BY DEF Next, Store, vars
  <1>2. ~Start(u) /\ ~Load(u)
    <2>1. ASSUME Start(u) \/ Load(u) PROVE next' = next
      BY <2>1 DEF Start, Load
    <2> QED BY <2>1
  <1>3. u = t
    <2>1. next' = [next EXCEPT ![u] = next[u] + 1] \/ next' = next
      BY <1>1, <1>2 DEF Step, SkipNaN, Cmpxchg, Finish
    <2> QED BY <2>1 DEF AInv, TypeOK
  <1>4. ~SkipNaN(u)
    BY <1>3 DEF SkipNaN, Harmless
  <1>5. Cmpxchg(t) /\ slot = rax[t] /\ slot' = NewValue(t)
    <2>1. Cmpxchg(t)
      BY <1>1, <1>2, <1>3, <1>4 DEF Step
    <2>2. slot = rax[t]
      BY <2>1 DEF Cmpxchg
    <2> QED BY <2>1, <2>2 DEF Cmpxchg
  <1>6. rax[t] \in F64
    BY DEF AInv, TypeOK
  <1>7. CASE IsNaN(rax[t])
    BY <1>5, <1>7 DEF NewValue, Harmless
  <1>8. CASE ~IsNaN(rax[t])
    BY <1>5, <1>6, <1>8 DEF NewValue, Harmless, IsNaN
  <1> QED BY <1>7, <1>8

\* A call with a finite delta never leaves a NaN behind, wherever the one it
\* found came from (the NaN tests of atomic_add_f64's emitter).
THEOREM NaNsAreRepaired == Spec => NaNRepaired
  <1>1. AInv /\ [Next]_vars =>
          [\A t \in Threads : next'[t] # next[t] /\ Harmless(Delta(t)) => ~IsNaN(slot')]_vars
    BY CompletedRepairs
  <1> QED BY <1>1, InvInit, InvStep, PTL DEF Spec, NaNRepaired
=============================================================================
