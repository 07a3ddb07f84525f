---------------------------- MODULE KernelHistory ----------------------------
(***************************************************************************)
(* The kernel with a history variable: what each thread last saw in its    *)
(* registers, through its own instructions and the supervisor calls it     *)
(* made.  It restricts nothing; it lets an invariant compare what a thread *)
(* is about to run with to what it left.                                   *)
(***************************************************************************)
EXTENDS Kernel

VARIABLE seen   \* thread -> register file it last saw

historyVars == <<vars, seen>>

\* A thread on a core sees that core; any other has seen nothing new.
Recorded ==
    seen' = [k \in DOMAIN threads' |->
               IF \E c \in Cores : runningOn'[c] = k
               THEN cores'[CHOOSE c \in Cores : runningOn'[c] = k]
               ELSE IF k \in DOMAIN seen THEN seen[k] ELSE threads'[k].context]

HistoryInit ==
    /\ Init
    /\ seen = [k \in {} |-> None]

HistoryNext ==
    /\ \/ CreateProcess
       \/ \E pid \in 1 .. MaxProcesses, entry \in Entries, stackTop \in StackTops :
            CreateMainThread(pid, entry, stackTop)
       \/ Step
       \/ \E c \in Cores, num \in SvcCalls :
            runningOn[c] # None /\ HandleSvc(c, num)
    /\ Recorded

HistorySpec == HistoryInit /\ [][HistoryNext]_historyVars
-------------------------------------------------------------------------------
\* Every thread the next slice gives a core starts with the user registers it
\* last saw: what an SVC put in them reaches the guest (svc.rs: "writes results
\* back through the CPU context").
ResumesWithRegisters ==
    \A ready \in ReadyLists, c \in Cores : c + 1 \in DOMAIN ready =>
        Loaded(ready, c).user = seen[ready[c + 1]].user

\* ... and with the flags and TLS pointer it last saw (CpuContext: "Saved CPU
\* context for a thread", with pstate and tpidr_el0 in it).
ResumesWithFlags ==
    \A ready \in ReadyLists, c \in Cores : c + 1 \in DOMAIN ready =>
        Loaded(ready, c).system = seen[ready[c + 1]].system
===============================================================================
