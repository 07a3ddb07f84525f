---------------------------- MODULE ThreadMachine ----------------------------
(***************************************************************************)
(* What a scheduler over NCores cores promises, with no cores in sight: a  *)
(* set of threads, each with the user registers it was left with.  A       *)
(* timeslice advances as many threads as there are cores (all of them when *)
(* they fit), each by one instruction of its own from its own registers,   *)
(* and leaves every other thread alone.                                    *)
(* Kernel::step implements this machine; see Kernel.tla.                   *)
(***************************************************************************)
EXTENDS Registers, Functions

CONSTANTS
    NCores,     \* instructions a timeslice can execute
    Threads,    \* names a thread can have
    Entries,    \* entry points
    StackTops   \* stack tops

VARIABLE ctx   \* thread -> the user registers it runs with next

Live == DOMAIN ctx

\* The threads of a timeslice: distinct ones, as many as there are cores or all
\* of them.
Slices == {chosen \in UNION {Injection(1 .. n, Live) : n \in 0 .. NCores} :
             DOMAIN chosen = 1 .. NCores \/ Range(chosen) = Live}

Init == ctx = [k \in {} |-> ZERO]

\* A new thread, with its entry point and its stack.
Spawn(k, entry, stackTop) ==
    /\ k \notin Live
    /\ ctx' = [j \in Live \cup {k} |->
                 IF j = k
                 THEN [pc |-> entry, sp |-> stackTop, x |-> [r \in XRegs |-> ZERO]]
                 ELSE ctx[j]]

Slice(chosen) ==
    /\ DOMAIN ctx' = Live
    /\ \A k \in Live :
         IF k \in Range(chosen) THEN ctx'[k] \in UserStep(ctx[k])
                                ELSE ctx'[k] = ctx[k]

TimeSlice == \E chosen \in Slices : Slice(chosen)

Next ==
    \/ \E k \in Threads, entry \in Entries, stackTop \in StackTops : Spawn(k, entry, stackTop)
    \/ TimeSlice

Spec == Init /\ [][Next]_ctx
==============================================================================
