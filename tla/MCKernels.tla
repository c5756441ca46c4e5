----------------------------- MODULE MCKernels -----------------------------
(***************************************************************************)
(* Kernels with terms for the elements: an element is the address it was   *)
(* read from, or the function of the operands' elements it was made of.    *)
(***************************************************************************)
EXTENDS Kernels

Leaf(a)    == [old |-> a]
Term(args) == [args |-> args]
=============================================================================
