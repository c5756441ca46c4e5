--------------------------- MODULE BarrierProofs ---------------------------
(***************************************************************************)
(* The barrier for any number of workers and waiters, any word size larger *)
(* than the number of workers, and workers or clones that fail.            *)
(***************************************************************************)
EXTENDS Barrier, FiniteSetTheorems, TLAPS

\* The store buffer drains before the worker counts itself.
Published ==
  \A w \in Workers :
    /\ wpc[w] = "add" => buffered[w] \/ w \in results
    /\ w \in Counted => w \in results

\* The workers' tickets: the last one handed out is counter - 1.
Tickets ==
  /\ \A w \in Counted : prev[w] < counter
  /\ counter > 0 => \E w \in Counted : prev[w] + 1 = counter

\* A waiter waits on a value below N, so not on the final one.
WaitsBelow ==
  \A p \in Waiters : ppc[p] \in {"wait", "sleep"} => cur[p] < N

\* After the last worker's futex_wake nobody sleeps.
WokenAll ==
  \A w \in Workers : wpc[w] = "done" /\ prev[w] + 1 = N => asleep = {}

BInv ==
  /\ TypeOK /\ Published /\ Tickets /\ WaitsBelow /\ WokenAll
  /\ PassedMeansDone
-----------------------------------------------------------------------------
\* What the assumption says of the numbers and of the set of waiters.
LEMMA Sizes ==
  /\ N \in Nat /\ HalfWord \in Nat /\ N < HalfWord /\ WakeCount \in Nat
  /\ IsFiniteSet(Waiters) /\ Cardinality(Waiters) \in Nat
  /\ Cardinality(Waiters) <= WakeCount
  <1>1. IsFiniteSet(Waiters)
    BY ConstantsAssumption, FS_AddElement DEF Waiters
  <1> QED BY <1>1, ConstantsAssumption, FS_CardinalityType DEF N

\* The workers that have added are finitely many, and at N they are all.
LEMMA CountedFacts ==
  /\ Counted \subseteq Workers /\ IsFiniteSet(Counted)
  /\ Cardinality(Counted) \in 0..N
  /\ Cardinality(Counted) = N => Counted = Workers
  <1>1. Counted \in SUBSET Workers /\ IsFiniteSet(Workers)
    BY ConstantsAssumption DEF Counted
  <1>2. /\ IsFiniteSet(Counted) /\ Cardinality(Counted) <= N
        /\ N = Cardinality(Counted) => Workers = Counted
    BY <1>1, FS_Subset DEF N
  <1>3. Cardinality(Counted) \in Nat
    BY <1>2, FS_CardinalityType
  <1> QED BY <1>1, <1>2, <1>3, Sizes

\* At N every worker has added, and every result is in memory.
LEMMA AtN ==
  ASSUME BInv, counter >= N
  PROVE  counter = N /\ Counted = Workers /\ results = Workers
  <1>1. counter = Cardinality(Counted) /\ counter \in 0..N
    BY DEF BInv, TypeOK
  <1>2. counter = N
    BY <1>1, Sizes
  <1>3. Counted = Workers
    BY <1>1, <1>2, CountedFacts
  <1> QED BY <1>2, <1>3 DEF BInv, Published, TypeOK

\* The invariant holds before any worker is started.
LEMMA BarrierInit == Init => BInv
  <1> SUFFICES ASSUME Init PROVE BInv
    OBVIOUS
  <1>1. Counted = {} /\ Cardinality({}) = 0
    BY FS_EmptySet DEF Init, Counted
  <1>2. 0 \in 0..N
    BY Sizes
  <1>3. TypeOK
    BY <1>1, <1>2 DEF Init, TypeOK
  <1>4. Published /\ Tickets /\ WaitsBelow /\ WokenAll
    BY <1>1 DEF Init, Published, Tickets, WaitsBelow, WokenAll
  <1>5. PassedMeansDone
    BY DEF Init, PassedMeansDone, Past
  <1> QED BY <1>3, <1>4, <1>5 DEF BInv

\* A waiter's step leaves the workers and the counter alone.
LEMMA WaiterMove ==
  ASSUME BInv, NEW p \in Waiters,
         NEW to \in {"join", "test", "read", "wait", "sleep", "passed", "exited",
                   "joined", "left"},
         WaiterGoes(p, to), UNCHANGED <<counter, wpc, prev, buffered, results>>,
         cur' \in [Waiters -> 0..N],
         \A q \in Waiters \ {p} : cur'[q] = cur[q],
         to \in {"wait", "sleep"} => cur'[p] < N,
         asleep' = IF to = "sleep" THEN asleep \cup {p} ELSE asleep \ {p},
         to = "sleep" => counter # N,
         to \in {"passed", "exited"} => Past(p) \/ counter >= N
  PROVE  BInv'
  <1> USE DEF BInv
  <1>1. ppc' = [ppc EXCEPT ![p] = to]
    BY DEF WaiterGoes
  <1>2. Counted' = Counted
    BY DEF Counted
  <1>3. TypeOK'
    BY <1>1, <1>2 DEF TypeOK
  <1>4. Published' /\ Tickets'
    BY <1>2 DEF Published, Tickets
  <1>5. WaitsBelow'
    BY <1>1 DEF WaitsBelow, TypeOK
  <1>6. WokenAll'
    <2> SUFFICES ASSUME NEW w \in Workers, wpc[w] = "done", prev[w] + 1 = N
                 PROVE  asleep' = {}
      BY DEF WokenAll
    <2>1. asleep = {}
      BY DEF WokenAll
    <2>2. counter = N
      <3>1. w \in Counted /\ counter \in 0..N /\ prev[w] \in 0..N
        BY DEF Counted, TypeOK
      <3>2. prev[w] < counter
        BY <3>1 DEF Tickets
      <3> QED BY <3>1, <3>2, Sizes
    <2> QED BY <2>1, <2>2
  <1>7. PassedMeansDone'
    <2> SUFFICES ASSUME NEW q \in Waiters, Past(q)'
                 PROVE  Counted = Workers /\ results = Workers
      BY <1>2 DEF PassedMeansDone
    <2>1. CASE q = p
      <3>1. Past(p) \/ counter >= N
        BY <1>1, <2>1 DEF Past, TypeOK
      <3> QED BY <3>1, AtN DEF PassedMeansDone
    <2>2. CASE q # p
      BY <1>1, <2>2 DEF Past, TypeOK, PassedMeansDone
    <2> QED BY <2>1, <2>2
  <1> QED BY <1>3, <1>4, <1>5, <1>6, <1>7

\* The steps of a waiter, signals included, keep the invariant.
LEMMA WaiterInv ==
  ASSUME BInv, NEW p \in Waiters, WaiterStep(p) \/ Interrupt(p)
  PROVE  BInv'
  <1> USE DEF BInv
  <1>1. /\ cur \in [Waiters -> 0..N] /\ counter \in 0..N
        /\ asleep = {q \in Waiters : ppc[q] = "sleep"}
    BY DEF TypeOK
  <1>2. CASE Test(p)
    <2>1. PICK to \in {"passed", "test", "read"} :
              WaiterGoes(p, to) /\ (to = "passed" => counter >= N)
      BY <1>2 DEF Test
    <2>2. /\ UNCHANGED <<counter, wpc, prev, buffered, results, cur>>
          /\ asleep' = asleep \ {p}
      BY <1>1, <1>2 DEF Test
    <2> QED BY <1>1, <2>1, <2>2, WaiterMove
  <1>3. CASE Read(p)
    <2>1. PICK to \in {"wait", "test"} :
              WaiterGoes(p, to) /\ (to = "wait" => counter < N)
      BY <1>3 DEF Read
    <2>2. /\ UNCHANGED <<counter, wpc, prev, buffered, results>>
          /\ cur' = [cur EXCEPT ![p] = counter]
          /\ asleep' = asleep \ {p}
      BY <1>1, <1>3 DEF Read
    <2> QED BY <1>1, <2>1, <2>2, WaiterMove
  <1>4. CASE Wait(p)
    <2>1. cur[p] < N /\ cur[p] \in 0..N
      BY <1>1, <1>4 DEF Wait, WaitsBelow
    <2>2. CASE counter % HalfWord = cur[p] % HalfWord
      <3>1. counter # N
        BY <1>1, <2>1, <2>2, Sizes
      <3>2. /\ WaiterGoes(p, "sleep") /\ asleep' = asleep \cup {p}
            /\ UNCHANGED <<counter, wpc, prev, buffered, results, cur>>
        BY <1>4, <2>2 DEF Wait
      <3> QED BY <1>1, <2>1, <3>1, <3>2, WaiterMove
    <2>3. CASE counter % HalfWord # cur[p] % HalfWord
      <3>1. /\ WaiterGoes(p, "test") /\ asleep' = asleep \ {p}
            /\ UNCHANGED <<counter, wpc, prev, buffered, results, cur>>
        BY <1>1, <1>4, <2>3 DEF Wait
      <3> QED BY <1>1, <3>1, WaiterMove
    <2> QED BY <2>2, <2>3
  <1>5. CASE Exit(p)
    <2>1. PICK to \in {"exited", "left"} :
            WaiterGoes(p, to) /\ (to = "exited" => Past(p))
      BY <1>5 DEF Exit, Past
    <2>2. /\ asleep' = asleep \ {p}
          /\ UNCHANGED <<counter, wpc, prev, buffered, results, cur>>
      BY <1>1, <1>5 DEF Exit
    <2> QED BY <1>1, <2>1, <2>2, WaiterMove
  <1>6. CASE Interrupt(p)
    <2>1. /\ WaiterGoes(p, "wait") /\ asleep' = asleep \ {p}
          /\ UNCHANGED <<counter, wpc, prev, buffered, results, cur>>
          /\ cur[p] < N
      BY <1>1, <1>6 DEF Interrupt, WaitsBelow
    <2> QED BY <1>1, <2>1, WaiterMove
  <1> QED BY <1>2, <1>3, <1>4, <1>5, <1>6 DEF WaiterStep

\* A worker's step, or its start, that does not count it.
LEMMA WorkerMove ==
  ASSUME BInv, NEW w \in Workers,
         NEW to \in {"work", "add", "wake", "done", "failed"},
         WorkerGoes(w, to), w \in Counted <=> to \in {"wake", "done"},
         UNCHANGED <<counter, prev, ppc, cur, asleep>>,
         buffered' \in [Workers -> BOOLEAN],
         results \subseteq results', results' \subseteq Workers,
         \A v \in Workers \ {w} : buffered'[v] = buffered[v],
         to = "add" => buffered'[w] \/ w \in results',
         to = "done" /\ prev[w] + 1 = N => asleep = {}
  PROVE  BInv'
  <1> USE DEF BInv
  <1>1. wpc' = [wpc EXCEPT ![w] = to] /\ wpc \in [Workers -> {"unborn", "work",
             "add", "last?", "wake", "done", "failed"}]
    BY DEF WorkerGoes, TypeOK
  <1>2. Counted' = Counted
    BY <1>1 DEF Counted
  <1>3. TypeOK'
    BY <1>1, <1>2 DEF TypeOK
  <1>4. Published'
    BY <1>1, <1>2 DEF Published
  <1>5. Tickets' /\ WaitsBelow'
    BY <1>2 DEF Tickets, WaitsBelow
  <1>6. WokenAll'
    BY <1>1 DEF WokenAll
  <1>7. PassedMeansDone'
    BY <1>2 DEF PassedMeansDone, Past, TypeOK
  <1> QED BY <1>3, <1>4, <1>5, <1>6, <1>7

\* A worker's addition to the counter keeps the invariant.
LEMMA AtomicAddInv ==
  ASSUME BInv, NEW w \in Workers, AtomicAdd(w)
  PROVE  BInv'
  <1> USE DEF BInv
  <1>1. /\ wpc[w] = "add" /\ ~buffered[w] /\ counter' = counter + 1
        /\ prev' = [prev EXCEPT ![w] = counter]
        /\ wpc' = [wpc EXCEPT ![w] = "last?"]
        /\ UNCHANGED <<buffered, results, ppc, cur, asleep>>
    BY DEF AtomicAdd, WorkerGoes
  <1>2. /\ counter \in 0..N /\ counter = Cardinality(Counted)
        /\ wpc \in [Workers -> {"unborn", "work", "add", "last?", "wake",
                                "done", "failed"}]
        /\ prev \in [Workers -> 0..N]
    BY DEF TypeOK
  <1>3. Counted' = Counted \cup {w} /\ w \notin Counted
    BY <1>1, <1>2 DEF Counted
  <1>4. Cardinality(Counted') = counter + 1 /\ counter < N
    <2>1. Cardinality(Counted \cup {w}) = Cardinality(Counted) + 1
      BY <1>3, CountedFacts, FS_AddElement
    <2>2. Counted # Workers
      BY <1>3
    <2> QED BY <1>2, <1>3, <2>1, <2>2, CountedFacts, Sizes
  <1>5. TypeOK'
    <2>1. counter' \in 0..N /\ counter' = Cardinality(Counted')
      BY <1>1, <1>2, <1>4, Sizes
    <2>2. wpc' \in [Workers -> {"unborn", "work", "add", "last?", "wake", "done",
                               "failed"}]
      BY <1>1, <1>2
    <2>3. prev' \in [Workers -> 0..N]
      BY <1>1, <1>2
    <2>4. (Counted)' = Counted'
      OBVIOUS
    <2> QED BY <1>1, <2>1, <2>2, <2>3 DEF TypeOK
  <1>6. Published'
    <2>1. w \in results
      BY <1>1 DEF Published
    <2> QED BY <1>1, <1>2, <1>3, <2>1 DEF Published
  <1>7. Tickets'
    <2>1. prev'[w] = counter /\ \A v \in Counted : prev'[v] = prev[v]
      BY <1>1, <1>2, <1>3, CountedFacts
    <2>2. \A v \in Counted' : prev'[v] < counter'
      <3>1. ASSUME NEW v \in Counted PROVE prev[v] < counter + 1
        <4>1. prev[v] \in 0..N /\ prev[v] < counter
          BY <1>2, CountedFacts DEF Tickets
        <4> QED BY <1>2, <4>1
      <3> QED BY <1>1, <1>2, <1>3, <2>1, <3>1
    <2>3. w \in Counted' /\ prev'[w] + 1 = counter'
      BY <1>1, <1>3, <2>1
    <2> QED BY <2>2, <2>3 DEF Tickets
  <1>8. WaitsBelow'
    BY <1>1 DEF WaitsBelow
  <1>9. WokenAll'
    BY <1>1, <1>2 DEF WokenAll
  <1>10. PassedMeansDone'
    <2>1. ASSUME NEW p \in Waiters, Past(p) PROVE FALSE
      <3>1. Counted = Workers
        BY <2>1 DEF PassedMeansDone
      <3> QED BY <1>3, <3>1
    <2> QED BY <1>1, <2>1 DEF PassedMeansDone, Past
  <1> QED BY <1>5, <1>6, <1>7, <1>8, <1>9, <1>10

\* The last worker's futex_wake keeps the invariant.
LEMMA WakeInv ==
  ASSUME BInv, NEW w \in Workers, Wake(w)
  PROVE  BInv'
  <1> USE DEF BInv
  <1>1. asleep = {p \in Waiters : ppc[p] = "sleep"}
        /\ ppc \in [Waiters -> {"spawn", "join", "test", "read", "wait", "sleep",
                                "passed", "exited", "joined", "left"}]
    BY DEF TypeOK
  <1>2. PICK woken \in SUBSET asleep :
          /\ \/ woken = asleep /\ Cardinality(woken) <= WakeCount
             \/ Cardinality(woken) = WakeCount
          /\ asleep' = asleep \ woken
          /\ ppc' = [p \in Waiters |-> IF p \in woken THEN "test" ELSE ppc[p]]
    BY DEF Wake
  <1>3. woken = asleep
    <2>1. CASE Cardinality(woken) = WakeCount
      <3>1. woken \in SUBSET Waiters
        BY <1>1, <1>2
      <3>2. /\ Cardinality(woken) <= Cardinality(Waiters)
            /\ Cardinality(Waiters) = Cardinality(woken) => Waiters = woken
        BY <3>1, Sizes, FS_Subset
      <3>3. woken = Waiters
        BY <2>1, <3>2, Sizes
      <3> QED BY <1>1, <1>2, <3>3
    <2> QED BY <1>2, <2>1
  <1>4. /\ wpc[w] = "wake" /\ wpc' = [wpc EXCEPT ![w] = "done"]
        /\ asleep' = {}
        /\ UNCHANGED <<counter, prev, buffered, results, cur>>
    BY <1>2, <1>3 DEF Wake, WorkerGoes
  <1>5. Counted' = Counted
    BY <1>4 DEF Counted, TypeOK
  <1>6. \A p \in Waiters : ppc'[p] = IF ppc[p] = "sleep" THEN "test" ELSE ppc[p]
    BY <1>1, <1>2, <1>3
  <1>7. TypeOK'
    <2>1. ppc' \in [Waiters -> {"spawn", "join", "test", "read", "wait", "sleep",
                               "passed", "exited", "joined", "left"}]
      BY <1>1, <1>2
    <2>2. asleep' = {p \in Waiters : ppc'[p] = "sleep"}
      BY <1>4, <1>6
    <2>3. wpc' \in [Workers -> {"unborn", "work", "add", "last?", "wake", "done",
                               "failed"}]
      BY <1>4 DEF TypeOK
    <2> QED BY <1>4, <1>5, <2>1, <2>2, <2>3 DEF TypeOK
  <1>8. Published'
    BY <1>4, <1>5 DEF Published, TypeOK
  <1>9. Tickets'
    BY <1>4, <1>5 DEF Tickets
  <1>10. WaitsBelow' /\ WokenAll'
    BY <1>4, <1>6 DEF WaitsBelow, WokenAll
  <1>11. PassedMeansDone'
    BY <1>4, <1>5, <1>6 DEF PassedMeansDone, Past
  <1> QED BY <1>7, <1>8, <1>9, <1>10, <1>11

\* The invariant is inductive.
LEMMA BarrierStep == BInv /\ [Next]_vars => BInv'
  <1> SUFFICES ASSUME BInv, [Next]_vars PROVE BInv'
    OBVIOUS
  <1>0. /\ buffered \in [Workers -> BOOLEAN] /\ results \subseteq Workers
        /\ cur \in [Waiters -> 0..N]
        /\ asleep = {q \in Waiters : ppc[q] = "sleep"}
    BY DEF BInv, TypeOK
  <1>1. CASE UNCHANGED vars
    <2>1. Counted' = Counted
      BY <1>1 DEF vars, Counted
    <2> QED BY <1>1, <2>1 DEF vars, BInv, TypeOK, Published, Tickets, WaitsBelow,
               WokenAll, PassedMeansDone, Past
  <1>2. ASSUME NEW w \in Workers, Spawn(w) PROVE BInv'
    <2>1. PICK to \in {"work", "failed"} : WorkerGoes(w, to)
      BY <1>2 DEF Spawn
    <2>2. w \notin Counted
      BY <1>2 DEF Spawn, Counted
    <2> QED BY <1>0, <1>2, <2>1, <2>2, WorkerMove DEF Spawn
  <1>3. CASE SpawnedAll
    <2>1. PICK to \in {"join", "test"} :
            WaiterGoes(Parent, to)
      BY <1>3 DEF SpawnedAll
    <2>2. Parent \in Waiters /\ asleep' = asleep \ {Parent}
          /\ UNCHANGED <<counter, wpc, prev, buffered, results, cur>>
      BY <1>0, <1>3 DEF SpawnedAll, Waiters
    <2> QED BY <1>0, <2>1, <2>2, WaiterMove
  <1>4. CASE ThreadWait
    <2>1. /\ Parent \in Waiters /\ asleep' = asleep \ {Parent}
          /\ WaiterGoes(Parent, "joined")
          /\ UNCHANGED <<counter, wpc, prev, buffered, results, cur>>
      BY <1>0, <1>4 DEF ThreadWait, Waiters
    <2> QED BY <1>0, <2>1, WaiterMove
  <1>5. ASSUME NEW w \in Workers, StoreResult(w) PROVE BInv'
    <2>1. w \notin Counted
      BY <1>5 DEF StoreResult, Counted
    <2> QED BY <1>0, <1>5, <2>1, WorkerMove DEF StoreResult
  <1>6. ASSUME NEW w \in Workers, AtomicAdd(w) PROVE BInv'
    BY <1>6, AtomicAddInv
  <1>7. ASSUME NEW w \in Workers, TestLast(w) PROVE BInv'
    <2>1. PICK to \in {"wake", "done"} :
            WorkerGoes(w, to) /\ (to = "done" => prev[w] + 1 # N)
      BY <1>7 DEF TestLast
    <2>2. w \in Counted
      BY <1>7 DEF TestLast, Counted
    <2> QED BY <1>0, <1>7, <2>1, <2>2, WorkerMove DEF TestLast
  <1>8. ASSUME NEW w \in Workers, Wake(w) PROVE BInv'
    BY <1>8, WakeInv
  <1>9. ASSUME NEW w \in Workers, Drain(w) PROVE BInv'
    <2>1. /\ results' = results \cup {w}
          /\ buffered' = [buffered EXCEPT ![w] = FALSE]
          /\ UNCHANGED <<counter, wpc, prev, ppc, cur, asleep>>
      BY <1>9 DEF Drain
    <2>2. Counted' = Counted
      BY <2>1 DEF Counted
    <2>3. TypeOK' /\ Published'
      BY <1>0, <2>1, <2>2 DEF BInv, TypeOK, Published
    <2> QED BY <1>0, <2>1, <2>2, <2>3
            DEF BInv, Tickets, WaitsBelow, WokenAll, PassedMeansDone, Past
  <1>10. ASSUME NEW w \in Workers, WorkerError(w) PROVE BInv'
    <2>1. w \notin Counted
      BY <1>10 DEF WorkerError, Counted
    <2> QED BY <1>0, <1>10, <2>1, WorkerMove DEF WorkerError
  <1>11. ASSUME NEW p \in Waiters, WaiterStep(p) \/ Interrupt(p) PROVE BInv'
    BY <1>11, WaiterInv
  <1> QED BY <1>1, <1>2, <1>3, <1>4, <1>5, <1>6, <1>7, <1>8, <1>9, <1>10, <1>11
          DEF Next, ParentStep, WorkerStep

\* Every variable keeps its type and the counter counts exactly the workers
\* that added, whoever fails (the lock xadd of atomic_add_i64).
THEOREM TypeCorrect == Spec => []TypeOK
  BY BarrierInit, BarrierStep, PTL DEF Spec, BInv

\* No waiter leaves the barrier before every worker has counted itself and
\* every result is in memory (atomic_add_i64, futex_wait and the loop around
\* it).
THEOREM BarrierSafe == Spec => []PassedMeansDone
  <1>1. BInv => PassedMeansDone
    BY DEF BInv
  <1> QED BY <1>1, BarrierInit, BarrierStep, PTL DEF Spec

\* A sleeping waiter is never forgotten: the kernel's comparison and the wake
\* of the last worker leave no window (futex_wait, futex_wake).
THEOREM WakeupSafe == Spec => []NoLostWakeup
  <1>1. BInv => NoLostWakeup
    <2> SUFFICES ASSUME BInv, asleep # {}, Counted = Workers
                 PROVE  \E w \in Workers : \/ wpc[w] = "wake"
                                           \/ wpc[w] = "last?" /\ prev[w] + 1 = N
      BY DEF NoLostWakeup
    <2>1. counter = N /\ counter \in Nat
      BY Sizes DEF BInv, TypeOK, N
    <2>2. PICK p \in Waiters : ppc[p] = "sleep"
      BY DEF BInv, TypeOK
    <2>3. cur[p] < N /\ cur[p] \in 0..N
      BY <2>2 DEF BInv, WaitsBelow, TypeOK
    <2>4. counter > 0
      BY <2>1, <2>3
    <2>5. PICK w \in Counted : prev[w] + 1 = N
      BY <2>1, <2>4 DEF BInv, Tickets
    <2>6. wpc[w] # "done"
      BY <2>5 DEF BInv, WokenAll, Counted
    <2> QED BY <2>5, <2>6 DEF Counted
  <1> QED BY <1>1, BarrierInit, BarrierStep, PTL DEF Spec
=============================================================================
