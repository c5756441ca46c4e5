------------------------------ MODULE Barrier ------------------------------
(***************************************************************************)
(* Worker threads and how a program waits for them.  The parent starts the *)
(* workers one by one with thread_spawn.  A worker stores its result with  *)
(* a plain store, adds 1 to a shared counter with atomic_add_i64 and, when *)
(* it made the counter N, calls futex_wake.  The parent and its peers read *)
(* the counter and sleep in futex_wait until it is N; a parent that joins  *)
(* with thread_wait instead goes on at once.                               *)
(* The futex is the kernel's: it compares the low half of the slot with    *)
(* the low half of the expected value and enqueues in one step.  A plain   *)
(* store stays in the storing thread's buffer until it drains or a locked  *)
(* instruction of that thread drains it.                                   *)
(***************************************************************************)
EXTENDS Naturals, FiniteSets

CONSTANTS Workers, Peers,
          Parent,
          HalfWord,    \* 2^32: what the futex compares of the counter
          WakeCount,   \* the third argument of futex_wake
          Failures     \* what may go wrong: "clone", "error"

Waiters == Peers \cup {Parent}
N == Cardinality(Workers)

ASSUME ConstantsAssumption ==
  /\ IsFiniteSet(Workers) /\ IsFiniteSet(Peers)
  /\ Parent \notin Peers /\ Workers \cap Waiters = {}
  /\ HalfWord \in Nat /\ N < HalfWord
  /\ WakeCount \in Nat /\ Cardinality(Waiters) <= WakeCount
  /\ Failures \subseteq {"clone", "error"}

VARIABLES counter,   \* the shared slot
          wpc,       \* wpc[w]: where worker w is
          prev,      \* prev[w]: what atomic_add_i64 returned to w
          buffered,  \* buffered[w]: w's result is in its store buffer
          results,   \* the workers whose result is in memory
          ppc,       \* ppc[p]: where waiter p is
          cur,       \* cur[p]: the counter as p last read it
          asleep     \* the waiters in the futex's queue

vars == <<counter, wpc, prev, buffered, results, ppc, cur, asleep>>

Init ==
  /\ counter = 0
  /\ wpc = [w \in Workers |-> "unborn"]
  /\ prev = [w \in Workers |-> 0]
  /\ buffered = [w \in Workers |-> FALSE]
  /\ results = {}
  /\ ppc = [p \in Waiters |-> IF p = Parent THEN "spawn" ELSE "test"]
  /\ cur = [p \in Waiters |-> 0]
  /\ asleep = {}

WorkerGoes(w, to) == wpc' = [wpc EXCEPT ![w] = to]
WaiterGoes(p, to) == ppc' = [ppc EXCEPT ![p] = to]
-----------------------------------------------------------------------------
\* thread_spawn in the parent's loop; a failed clone returns a negative tid,
\* which the parent does not look at.
Spawn(w) ==
  /\ ppc[Parent] = "spawn" /\ wpc[w] = "unborn"
  /\ \/ WorkerGoes(w, "work")
     \/ "clone" \in Failures /\ WorkerGoes(w, "failed")
  /\ UNCHANGED <<counter, prev, buffered, results, ppc, cur, asleep>>

SpawnedAll ==
  /\ ppc[Parent] = "spawn" /\ \A w \in Workers : wpc[w] # "unborn"
  /\ WaiterGoes(Parent, "test") \/ WaiterGoes(Parent, "join")
  /\ UNCHANGED <<counter, wpc, prev, buffered, results, cur, asleep>>

\* arr_set of the worker's result.
StoreResult(w) ==
  /\ wpc[w] = "work"
  /\ WorkerGoes(w, "add")
  /\ buffered' = [buffered EXCEPT ![w] = TRUE]
  /\ UNCHANGED <<counter, prev, results, ppc, cur, asleep>>

Drain(w) ==
  /\ buffered[w]
  /\ buffered' = [buffered EXCEPT ![w] = FALSE]
  /\ results' = results \cup {w}
  /\ UNCHANGED <<counter, wpc, prev, ppc, cur, asleep>>

\* An uncaught run-time error ends the worker's thread, and only that one.
WorkerError(w) ==
  /\ "error" \in Failures /\ wpc[w] = "work"
  /\ WorkerGoes(w, "failed")
  /\ UNCHANGED <<counter, prev, buffered, results, ppc, cur, asleep>>

\* Mutant: xadd without the lock prefix does not drain the store buffer.
AtomicAdd_unlocked(w) ==
  /\ wpc[w] = "add"
  /\ counter' = counter + 1
  /\ prev' = [prev EXCEPT ![w] = counter]
  /\ WorkerGoes(w, "last?")
  /\ UNCHANGED <<buffered, results, ppc, cur, asleep>>

\* Mutant: an addition that is not atomic may start from an old value.
AtomicAdd_stale(w) ==
  /\ wpc[w] = "add" /\ ~buffered[w]
  /\ \E old \in 0..counter :
       counter' = old + 1 /\ prev' = [prev EXCEPT ![w] = old]
  /\ WorkerGoes(w, "last?")
  /\ UNCHANGED <<buffered, results, ppc, cur, asleep>>

\* atomic_add_i64(ctr, 0, 1): lock xadd, after the store buffer has drained.
AtomicAdd(w) ==
  /\ wpc[w] = "add" /\ ~buffered[w]
  /\ counter' = counter + 1
  /\ prev' = [prev EXCEPT ![w] = counter]
  /\ WorkerGoes(w, "last?")
  /\ UNCHANGED <<buffered, results, ppc, cur, asleep>>

TestLast(w) ==
  /\ wpc[w] = "last?"
  /\ WorkerGoes(w, IF prev[w] + 1 = N THEN "wake" ELSE "done")
  /\ UNCHANGED <<counter, prev, buffered, results, ppc, cur, asleep>>

\* Mutant: futex_wake wakes one waiter whatever its argument.
Wake_one(w) ==
  /\ wpc[w] = "wake"
  /\ \E woken \in SUBSET asleep :
       /\ Cardinality(woken) = IF asleep = {} THEN 0 ELSE 1
       /\ asleep' = asleep \ woken
       /\ ppc' = [p \in Waiters |-> IF p \in woken THEN "test" ELSE ppc[p]]
  /\ WorkerGoes(w, "done")
  /\ UNCHANGED <<counter, prev, buffered, results, cur>>

\* futex_wake(ctr, 0, WakeCount).
Wake(w) ==
  /\ wpc[w] = "wake"
  /\ \E woken \in SUBSET asleep :
       /\ \/ woken = asleep /\ Cardinality(woken) <= WakeCount
          \/ Cardinality(woken) = WakeCount
       /\ asleep' = asleep \ woken
       /\ ppc' = [p \in Waiters |-> IF p \in woken THEN "test" ELSE ppc[p]]
  /\ WorkerGoes(w, "done")
  /\ UNCHANGED <<counter, prev, buffered, results, cur>>
-----------------------------------------------------------------------------
\* while (arr_get(ctr, 0) < N)
Test(p) ==
  /\ ppc[p] = "test"
  /\ WaiterGoes(p, IF counter >= N THEN "passed" ELSE "read")
  /\ UNCHANGED <<counter, wpc, prev, buffered, results, cur, asleep>>

\* cur = arr_get(ctr, 0); if (cur < N)
Read(p) ==
  /\ ppc[p] = "read"
  /\ cur' = [cur EXCEPT ![p] = counter]
  /\ WaiterGoes(p, IF counter < N THEN "wait" ELSE "test")
  /\ UNCHANGED <<counter, wpc, prev, buffered, results, asleep>>

\* Mutant: the kernel's comparison is dropped, the waiter always sleeps.
Wait_noCompare(p) ==
  /\ ppc[p] = "wait"
  /\ asleep' = asleep \cup {p} /\ WaiterGoes(p, "sleep")
  /\ UNCHANGED <<counter, wpc, prev, buffered, results, cur>>

\* The FUTEX_WAIT system call: compare and enqueue, or return -EAGAIN.
Wait(p) ==
  /\ ppc[p] = "wait"
  /\ IF counter % HalfWord = cur[p] % HalfWord
       THEN asleep' = asleep \cup {p} /\ WaiterGoes(p, "sleep")
       ELSE UNCHANGED asleep /\ WaiterGoes(p, "test")
  /\ UNCHANGED <<counter, wpc, prev, buffered, results, cur>>

\* A signal ends the call with -EINTR; the emitted loop makes it again.
Interrupt(p) ==
  /\ p \in asleep
  /\ asleep' = asleep \ {p} /\ WaiterGoes(p, "wait")
  /\ UNCHANGED <<counter, wpc, prev, buffered, results, cur>>

\* thread_wait: wait4 fails with -ECHILD for a thread of the same process.
ThreadWait ==
  /\ ppc[Parent] = "join"
  /\ WaiterGoes(Parent, "joined")
  /\ UNCHANGED <<counter, wpc, prev, buffered, results, cur, asleep>>

\* Mutant: the exit of main is an exit_group.
Exit_group(p) ==
  /\ ppc[p] \in {"passed", "joined"}
  /\ WaiterGoes(p, IF ppc[p] = "passed" THEN "exited" ELSE "left")
  /\ wpc' = [w \in Workers |-> "killed"]
  /\ UNCHANGED <<counter, prev, buffered, results, cur, asleep>>

\* The thread returns: the exit system call, which ends this thread only.
Exit(p) ==
  /\ ppc[p] \in {"passed", "joined"}
  /\ WaiterGoes(p, IF ppc[p] = "passed" THEN "exited" ELSE "left")
  /\ UNCHANGED <<counter, wpc, prev, buffered, results, cur, asleep>>

WorkerStep(w) == StoreResult(w) \/ AtomicAdd(w) \/ TestLast(w) \/ Wake(w)
WaiterStep(p) == Test(p) \/ Read(p) \/ Wait(p) \/ Exit(p)
ParentStep    == (\E w \in Workers : Spawn(w)) \/ SpawnedAll \/ ThreadWait

Next ==
  \/ ParentStep
  \/ \E w \in Workers : WorkerStep(w) \/ Drain(w) \/ WorkerError(w)
  \/ \E p \in Waiters : WaiterStep(p) \/ Interrupt(p)

Spec == Init /\ [][Next]_vars

\* Every thread that can run is run, and store buffers drain; signals need
\* not come.
FairSpec ==
  /\ Spec
  /\ WF_vars(ParentStep)
  /\ \A w \in Workers : WF_vars(WorkerStep(w)) /\ WF_vars(Drain(w))
  /\ \A p \in Waiters : WF_vars(WaiterStep(p))
-----------------------------------------------------------------------------
Counted == {w \in Workers : wpc[w] \in {"last?", "wake", "done"}}

\* Every variable has its type, and the counter counts the workers that added.
TypeOK ==
  /\ counter \in 0..N /\ counter = Cardinality(Counted)
  /\ wpc \in [Workers -> {"unborn", "work", "add", "last?", "wake", "done",
                          "failed"}]
  /\ prev \in [Workers -> 0..N]
  /\ buffered \in [Workers -> BOOLEAN]
  /\ results \subseteq Workers
  /\ ppc \in [Waiters -> {"spawn", "join", "test", "read", "wait", "sleep",
                          "passed", "exited", "joined", "left"}]
  /\ cur \in [Waiters -> 0..N]
  /\ asleep = {p \in Waiters : ppc[p] = "sleep"}

Past(p)   == ppc[p] \in {"passed", "exited"}
Joined(p) == ppc[p] \in {"joined", "left"}
AnyFailed == \E w \in Workers : wpc[w] = "failed"

\* The parent and its peers go on from the barrier only when every worker has
\* done its work and its result can be read.
PassedMeansDone ==
  \A p \in Waiters : Past(p) => Counted = Workers /\ results = Workers

\* While a waiter sleeps, somebody is still going to wake it: a worker has
\* not added yet, or the worker that reached N has its futex_wake to make.
NoLostWakeup ==
  asleep # {} =>
    \/ Counted # Workers
    \/ \E w \in Workers : wpc[w] = "wake" \/ (wpc[w] = "last?" /\ prev[w] + 1 = N)

\* Unless a clone fails or a worker ends early, every waiter gets through.
AllPass == <>(AnyFailed \/ \A p \in Waiters : Past(p) \/ Joined(p))

\* Every worker that started and does not fail gets its work done and its
\* result into memory, also when the parent leaves without waiting for it.
WorkersFinish ==
  \A w \in Workers : wpc[w] = "work" ~> wpc[w] = "failed" \/ (wpc[w] = "done" /\ w \in results)

\* When a worker has ended early the program still comes to an end: no thread
\* waits for ever.
ErrorEndsProgram == AnyFailed ~> \A p \in Waiters : Past(p) \/ Joined(p)
=============================================================================
