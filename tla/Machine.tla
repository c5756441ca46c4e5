------------------------------ MODULE Machine ------------------------------
(***************************************************************************)
(* Compiled functions on the processor: what the code computes, compared   *)
(* with what the function's tree means.                                    *)
(***************************************************************************)
EXTENDS Cpu, Emit, Language

\* A compiled function, with its tree.
Compiled(f) == [tree |-> f, arity |-> Len(f.params)] @@ Compile(f)

\* The code computes what the tree means: it returns the value the function
\* has for the arguments, and stops with an error exactly when a division by
\* zero is reached.
RightAnswer ==
  /\ status = "done" => regs["rax"] = Meaning(prog.tree, args)
  /\ status = "failed" => Meaning(prog.tree, args) = Failed
=============================================================================
