---------------------------- MODULE Accumulator ----------------------------
(***************************************************************************)
(* What atomic_add_f64 promises about a shared f64 slot: every call takes  *)
(* effect at one instant between its start and its end, and returns the    *)
(* value the slot had at that instant.  A NaN delta has no effect, a NaN   *)
(* slot is replaced by the delta.                                          *)
(***************************************************************************)
EXTENDS Naturals, Sequences

CONSTANTS Threads,
          F64,          \* f64 bit patterns
          NaNs,         \* those that are NaN
          Plus(_, _),   \* addsd
          Deltas,       \* Deltas[t]: the deltas thread t adds, in order
          InitVals,     \* what the slot may hold at first
          Stores        \* what other code may store into the slot

VARIABLES slot,    \* the shared slot
          next,    \* next[t]: the index of t's current or next call
          inside,  \* inside[t]: t is inside the call
          result   \* result[t]: what t's last call returned

avars == <<slot, next, inside, result>>

Combined(old, delta) ==
  IF delta \in NaNs THEN old
  ELSE IF old \in NaNs THEN delta ELSE Plus(old, delta)

Init ==
  /\ slot \in InitVals
  /\ next = [t \in Threads |-> 1]
  /\ inside = [t \in Threads |-> FALSE]
  /\ result = [t \in Threads |-> slot]

Start(t) ==
  /\ ~inside[t] /\ next[t] <= Len(Deltas[t])
  /\ inside' = [inside EXCEPT ![t] = TRUE]
  /\ UNCHANGED <<slot, next, result>>

Add(t) ==
  /\ inside[t]
  /\ slot' = Combined(slot, Deltas[t][next[t]])
  /\ result' = [result EXCEPT ![t] = slot]
  /\ inside' = [inside EXCEPT ![t] = FALSE]
  /\ next' = [next EXCEPT ![t] = @ + 1]

Store(v) == slot' = v /\ UNCHANGED <<next, inside, result>>

Next == (\E t \in Threads : Start(t) \/ Add(t)) \/ (\E v \in Stores : Store(v))

AccumulatorSpec == Init /\ [][Next]_avars
=============================================================================
