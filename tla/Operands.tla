------------------------------ MODULE Operands ------------------------------
(***************************************************************************)
(* The operands of the emitted instructions, and the registers that have a *)
(* role: r12..r15 hold pinned locals, six others the arguments of a call.  *)
(***************************************************************************)
Reg(r)  == <<"reg", r>>
Imm(n)  == <<"imm", n>>
Slot(k) == <<"slot", k>>       \* [rbp - 8 * k]
RAX     == Reg("rax")
RCX     == Reg("rcx")
HotRegs == <<"r12", "r13", "r14", "r15">>
ArgRegs == <<"rdi", "rsi", "rdx", "rcx", "r8", "r9">>
=============================================================================
