------------------------------ MODULE Tensors ------------------------------
(***************************************************************************)
(* One call of any builtin with nested loops: the three families of        *)
(* codegen_builtins.c together, over the same registers.                   *)
(***************************************************************************)
EXTENDS Matrix, Conv, Norms

Init == MatrixInit \/ ConvInit \/ NormInit
Next == MatrixNext \/ ConvNext \/ NormNext
Spec == Init /\ [][Next]_vars
=============================================================================
