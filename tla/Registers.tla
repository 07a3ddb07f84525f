------------------------------ MODULE Registers ------------------------------
(***************************************************************************)
(* The register file of one emulated ARMv8 core, and the effect of one     *)
(* guest instruction on it.  The instruction set is executed by the        *)
(* Unicorn library (cpu/unicorn_interface.rs, `step`), so an instruction   *)
(* is a nondeterministic choice of its effect.                             *)
(*                                                                         *)
(* A register file has two parts, because the scheduler treats them        *)
(* differently:                                                            *)
(*   user    the registers Kernel::step loads and saves: pc, sp, x0..x30   *)
(*   system  the rest of what the guest sees: PSTATE flags and TPIDR_EL0   *)
(* Of x0..x30 only x0 and x1 are kept apart: no SVC stub writes another    *)
(* one, and the load and save loops treat all 31 alike.                    *)
(***************************************************************************)
EXTENDS Integers

CONSTANTS
    Word,         \* the values of a 64-bit register
    ZERO,         \* the word 0
    GuestWords,   \* words a guest instruction may compute
    SystemWord,   \* values of the system part
    SYSTEM_ZERO   \* flags clear and a null TLS pointer

ASSUME WordAssumption ==
    /\ ZERO \in Word
    /\ GuestWords \subseteq Word
    /\ SYSTEM_ZERO \in SystemWord

XRegs == {0, 1}

UserRegs == [pc : Word, sp : Word, x : [XRegs -> Word]]

RegFile == [user : UserRegs, system : SystemWord]

\* What one instruction can do to the user registers: jump, write the stack
\* pointer or an x register, or nothing at all (it faulted).
UserStep(u) ==
    {u} \cup {[u EXCEPT !.pc = w] : w \in GuestWords}
        \cup {[u EXCEPT !.sp = w] : w \in GuestWords}
        \cup {[u EXCEPT !.x[r] = w] : r \in XRegs, w \in GuestWords}

\* One instruction on the whole register file; flags may change as well.
GuestStep(regs) ==
    {[user |-> u, system |-> s] : u \in UserStep(regs.user), s \in SystemWord}
==============================================================================
