----------------------------- MODULE Registers -----------------------------
(***************************************************************************)
(* What one call of a builtin with nested loops works with: its kernel and *)
(* dimensions, the counters, the vector registers and the accumulator, the *)
(* array it writes.  The three families of such builtins are the modules   *)
(* Matrix, Conv and Norms.                                                 *)
(*                                                                         *)
(* Numbers are symbolic.  A cell of an operand is a symbol, a product the  *)
(* set of its factors, a sum the bag of its summands: a summand lost or    *)
(* added twice, or a factor from a wrong address, changes the value.       *)
(***************************************************************************)
EXTENDS Integers, Bags

CONSTANTS
  MaxRows,  \* the most rows, output channels or positions
  MaxCols,  \* the most columns, or elements of an array in groups
  Sides,    \* the sides of an image (the code has 28 only)
  Guard     \* how many cells beyond the output are watched

ASSUME RegistersAssumption ==
  /\ MaxRows \in Nat /\ MaxCols \in Nat /\ Guard \in Nat
  /\ \A s \in Sides : s \in Nat /\ s % 8 = 4

VARIABLES
  kernel,   \* the builtin called
  m, n,     \* its dimensions
  held,     \* the length word before the array that has one to check
  at,       \* the counters: row, part (input channel or pass), y, col
  lane,     \* the vector registers
  acc,      \* the scalar accumulator
  scratch,  \* the stack the int4 kernel unpacks a row into
  out,      \* the array the kernel writes, and Guard cells beyond it
  pc

vars == <<kernel, m, n, held, at, lane, acc, scratch, out, pc>>

-----------------------------------------------------------------------------
Cell(array, a) == <<array, a>>      \* a number in memory
Zero           == EmptyBag
Only(factors)  == SetToBag({factors})
Sum(products)  == SetToBag(products)

\* What a cell of the output holds before the call.
Old(a) == Only({Cell("old", a)})

Counters == [row |-> 0, part |-> 0, y |-> 0, col |-> 0, side |-> 0]

\* A count rounded down to full vectors.
Full(count, lanes) == count - (count % lanes)
=============================================================================
