----------------------------- MODULE AtomicF64 -----------------------------
(***************************************************************************)
(* The instructions atomic_add_f64 compiles to, run by several threads on  *)
(* one slot: the NaN test on the delta, the load of the slot into rax, and *)
(* the lock cmpxchg loop, whose failure loads the displacing value.        *)
(* Register arithmetic between two memory accesses belongs to the second.  *)
(***************************************************************************)
EXTENDS Naturals, Sequences

CONSTANTS Threads, F64, NaNs, Plus(_, _), Deltas, InitVals, Stores

ASSUME ConstantsAssumption ==
  /\ NaNs \subseteq F64 /\ InitVals \subseteq F64 /\ Stores \subseteq F64
  /\ \A a, b \in F64 : Plus(a, b) \in F64
  /\ Deltas \in [Threads -> Seq(F64)]

VARIABLES slot, next, result,
          pc,      \* pc[t]: out of the call, before the load, before cmpxchg
          rax      \* rax[t]: the value t last saw in the slot

vars == <<slot, next, result, pc, rax>>

IsNaN(v) == v \in NaNs          \* ucomisd v, v sets the parity flag
Delta(t) == Deltas[t][next[t]]

Init ==
  /\ slot \in InitVals
  /\ next = [t \in Threads |-> 1]
  /\ result = [t \in Threads |-> slot]
  /\ pc = [t \in Threads |-> "out"]
  /\ rax = [t \in Threads |-> slot]

Start(t) ==
  /\ pc[t] = "out" /\ next[t] <= Len(Deltas[t])
  /\ pc' = [pc EXCEPT ![t] = "load"]
  /\ UNCHANGED <<slot, next, result, rax>>

Finish(t, old) ==
  /\ result' = [result EXCEPT ![t] = old]
  /\ pc' = [pc EXCEPT ![t] = "out"]
  /\ next' = [next EXCEPT ![t] = @ + 1]

\* The early-return arm: a NaN delta only reads the slot.
SkipNaN(t) ==
  /\ pc[t] = "load" /\ IsNaN(Delta(t))
  /\ Finish(t, slot)
  /\ UNCHANGED <<slot, rax>>

Load(t) ==
  /\ pc[t] = "load" /\ ~IsNaN(Delta(t))
  /\ rax' = [rax EXCEPT ![t] = slot]
  /\ pc' = [pc EXCEPT ![t] = "cmpxchg"]
  /\ UNCHANGED <<slot, next, result>>

\* Mutant: a NaN slot takes the addsd path.
NewValue_noRepair(t) == Plus(rax[t], Delta(t))

NewValue(t) == IF IsNaN(rax[t]) THEN Delta(t) ELSE Plus(rax[t], Delta(t))

\* Mutant: a plain store instead of the compare-exchange.
Cmpxchg_plain(t) ==
  /\ pc[t] = "cmpxchg"
  /\ slot' = NewValue(t)
  /\ Finish(t, rax[t])
  /\ UNCHANGED rax

\* Mutant: a failed cmpxchg retries with the value first loaded.
Cmpxchg_noReload(t) ==
  /\ pc[t] = "cmpxchg"
  /\ IF slot = rax[t]
       THEN slot' = NewValue(t) /\ Finish(t, rax[t]) /\ UNCHANGED rax
       ELSE UNCHANGED vars

\* Mutant: the retry jump is taken whatever cmpxchg found.
Cmpxchg_always(t) ==
  /\ pc[t] = "cmpxchg" /\ slot = rax[t]
  /\ slot' = NewValue(t)
  /\ next' = [next EXCEPT ![t] = @ + 1]
  /\ UNCHANGED <<result, pc, rax>>

Cmpxchg(t) ==
  /\ pc[t] = "cmpxchg"
  /\ IF slot = rax[t]
       THEN slot' = NewValue(t) /\ Finish(t, rax[t]) /\ UNCHANGED rax
       ELSE rax' = [rax EXCEPT ![t] = slot] /\ UNCHANGED <<slot, next, result, pc>>

\* arr_f64_set of the same slot by other code.
Store(v) == slot' = v /\ UNCHANGED <<next, result, pc, rax>>

Step(t) == Start(t) \/ SkipNaN(t) \/ Load(t) \/ Cmpxchg(t)
Next    == (\E t \in Threads : Step(t)) \/ (\E v \in Stores : Store(v))

Spec     == Init /\ [][Next]_vars
FairSpec == Spec /\ \A t \in Threads : WF_vars(Step(t))
-----------------------------------------------------------------------------
\* Every variable has its type, and a thread is inside a call only while it
\* has one to make.
TypeOK ==
  /\ slot \in F64
  /\ next \in [Threads -> Nat \ {0}]
  /\ result \in [Threads -> F64] /\ rax \in [Threads -> F64]
  /\ pc \in [Threads -> {"out", "load", "cmpxchg"}]
  /\ \A t \in Threads : pc[t] # "out" => next[t] <= Len(Deltas[t])

inside == [t \in Threads |-> pc[t] # "out"]
Atomic == INSTANCE Accumulator WITH slot <- slot, next <- next,
                                    inside <- inside, result <- result

\* The retry loop is one atomic addition: no call loses another's delta or a
\* store that comes between its load and its exchange, and each returns the
\* value its own delta was added to.
Linearizes == Atomic!AccumulatorSpec

\* A delta that makes a NaN of no number: every finite one, and no infinity.
Harmless(d) == ~IsNaN(d) /\ \A x \in F64 \ NaNs : ~IsNaN(Plus(x, d))

\* A completed call with a finite delta leaves no NaN in the slot, whatever
\* the slot held and whoever stored there meanwhile: a bad contribution does
\* not poison the total for good.
NaNRepaired ==
  [][\A t \in Threads :
       next'[t] # next[t] /\ Harmless(Delta(t)) => ~IsNaN(slot')]_vars

\* Once other code stops storing into the slot, every thread gets through its
\* calls: a failed exchange means that another call's succeeded.
AllReturn ==
  <>[][\A v \in Stores : ~Store(v)]_vars =>
    <>(\A t \in Threads : pc[t] = "out" /\ next[t] > Len(Deltas[t]))
=============================================================================
