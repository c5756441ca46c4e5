------------------------------ MODULE Handlers ------------------------------
(***************************************************************************)
(* What aricode promises about errors: an error leaves the activations on  *)
(* top of the innermost try block that is still open in its own thread and *)
(* continues in that block's catch part; an error with no open try block   *)
(* ends the thread.  A thread is a stack of activations, an activation the *)
(* list of try and catch blocks the control is inside of, outermost first. *)
(***************************************************************************)
EXTENDS Naturals, Sequences

CONSTANTS Threads,     \* names of the threads a program may start
          Main,        \* the thread that runs main
          Codes,       \* error codes a program raises
          MaxFrames,   \* bound: activations of a thread
          MaxSerial    \* bound: activations and try blocks of a run

VARIABLES status,      \* status[t]: unborn, running or exited
          exitCode,    \* exitCode[t]: the status the thread ended with
          frames,      \* frames[t]: the activations of t, outermost first
          serial       \* the next unused number

hvars == <<status, exitCode, frames, serial>>

Parts == {"try", "catch"}
Block == [id : Nat, part : Parts]
Frame == [act : Nat, blocks : Seq(Block)]

TryBlock(n)   == [id |-> n, part |-> "try"]
CatchBlock(n) == [id |-> n, part |-> "catch"]
NewFrame(n)   == [act |-> n, blocks |-> <<>>]

\* The try block j of activation d of thread t is open.
Open(t, d, j) ==
  /\ d \in 1..Len(frames[t])
  /\ j \in 1..Len(frames[t][d].blocks)
  /\ frames[t][d].blocks[j].part = "try"

NoOpenTry(t) ==
  \A d \in 1..Len(frames[t]) : \A j \in 1..Len(frames[t][d].blocks) :
    frames[t][d].blocks[j].part # "try"

Innermost(t, d, j) ==
  /\ Open(t, d, j)
  /\ \A e \in 1..Len(frames[t]) : \A k \in 1..Len(frames[t][e].blocks) :
       frames[t][e].blocks[k].part = "try" => e < d \/ (e = d /\ k <= j)

Top(t) == frames[t][Len(frames[t])]
Pop(s) == SubSeq(s, 1, Len(s) - 1)

SetTopBlocks(t, bs) ==
  frames' = [frames EXCEPT ![t][Len(frames[t])].blocks = bs]
-----------------------------------------------------------------------------
Init ==
  /\ status = [t \in Threads |-> IF t = Main THEN "running" ELSE "unborn"]
  /\ exitCode = [t \in Threads |-> 0]
  /\ frames = [t \in Threads |-> IF t = Main THEN <<NewFrame(0)>> ELSE <<>>]
  /\ serial = 1

Running(t) == status[t] = "running"

Call(t) ==
  /\ Running(t)
  /\ Len(frames[t]) < MaxFrames /\ serial < MaxSerial
  /\ frames' = [frames EXCEPT ![t] = Append(@, NewFrame(serial))]
  /\ serial' = serial + 1
  /\ UNCHANGED <<status, exitCode>>

\* Returning closes the blocks of the activation, open try blocks included;
\* the first activation's return ends the thread.
Return(t) ==
  /\ Running(t)
  /\ frames' = [frames EXCEPT ![t] = Pop(@)]
  /\ status' = [status EXCEPT ![t] =
                  IF Len(frames[t]) = 1 THEN "exited" ELSE @]
  /\ UNCHANGED <<exitCode, serial>>

\* A self tail call replaces the activation.
TailCall(t) ==
  /\ Running(t)
  /\ serial < MaxSerial
  /\ frames' = [frames EXCEPT ![t] = Append(Pop(@), NewFrame(serial))]
  /\ serial' = serial + 1
  /\ UNCHANGED <<status, exitCode>>

EnterTry(t) ==
  /\ Running(t)
  /\ serial < MaxSerial
  /\ SetTopBlocks(t, Append(Top(t).blocks, TryBlock(serial)))
  /\ serial' = serial + 1
  /\ UNCHANGED <<status, exitCode>>

\* The end of a try or catch block, or a jump out of several of them.
LeaveBlocks(t) ==
  /\ Running(t)
  /\ \E keep \in 0..(Len(Top(t).blocks) - 1) :
       SetTopBlocks(t, SubSeq(Top(t).blocks, 1, keep))
  /\ UNCHANGED <<status, exitCode, serial>>

Exit(t, c) ==
  /\ Running(t)
  /\ status' = [status EXCEPT ![t] = "exited"]
  /\ exitCode' = [exitCode EXCEPT ![t] = c % 256]
  /\ UNCHANGED <<frames, serial>>

\* Control continues in the catch part of try block j of activation d.
CatchAt(t, d, j) ==
  LET f     == frames[t][d]
      catch == Append(SubSeq(f.blocks, 1, j - 1), CatchBlock(f.blocks[j].id))
  IN frames' = [frames EXCEPT ![t] =
                  Append(SubSeq(@, 1, d - 1), [f EXCEPT !.blocks = catch])]

Error(t, c) ==
  /\ Running(t)
  /\ \/ /\ NoOpenTry(t)
        /\ Exit(t, c)
     \/ /\ \E d \in 1..Len(frames[t]) : \E j \in 1..Len(frames[t][d].blocks) :
             Innermost(t, d, j) /\ CatchAt(t, d, j)
        /\ UNCHANGED <<status, exitCode, serial>>

Spawn(t, u) ==
  /\ Running(t) /\ status[u] = "unborn"
  /\ serial < MaxSerial
  /\ status' = [status EXCEPT ![u] = "running"]
  /\ frames' = [frames EXCEPT ![u] = <<NewFrame(serial)>>]
  /\ serial' = serial + 1
  /\ UNCHANGED exitCode

Next ==
  \E t \in Threads :
    \/ Call(t) \/ Return(t) \/ TailCall(t) \/ EnterTry(t) \/ LeaveBlocks(t)
    \/ \E c \in Codes \cup {1} : Error(t, c) \/ Exit(t, c)
    \/ \E u \in Threads : Spawn(t, u)

HandlersSpec == Init /\ [][Next]_hvars
=============================================================================
