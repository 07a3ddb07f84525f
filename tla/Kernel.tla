-------------------------------- MODULE Kernel --------------------------------
(***************************************************************************)
(* The HLE kernel (sys/kernel.rs, sys/process.rs): processes and threads,  *)
(* the handle table, named ports, and the scheduler that multiplexes the   *)
(* threads onto NCores emulated cores.                                     *)
(*                                                                         *)
(* The maps of the code are std HashMaps: their iteration order is         *)
(* unspecified, is stable while the map is not modified, and may change    *)
(* when a key is inserted.  `order` is the order in which the two nested   *)
(* loops of Kernel::step meet the threads.                                 *)
(***************************************************************************)
EXTENDS Svc, Sequences, FiniteSets, Functions

CONSTANTS
    NCores,        \* emulated cores; 8 in the code
    HandleBase,    \* first thread handle; 0x1000 in the code
    PortBase,      \* first port handle; 0x2000 in the code
    PortNames,     \* names a service may be registered under
    PortSlots,     \* port handles are PortBase .. PortBase + PortSlots - 1
    Entries,       \* entry points threads are created with
    StackTops,     \* stack tops threads are created with
    Regions,       \* memory regions a process may map
    SvcCalls,      \* supervisor calls the guest makes
    CoreStack,     \* stack pointer a core is built with
    None           \* no thread

\* Bounds on the counters of the model.
CONSTANTS MaxProcesses, MaxThreads, MaxRegions

ASSUME KernelAssumption ==
    /\ NCores \in Nat \ {0}
    /\ HandleBase \in Nat
    /\ PortBase \in Nat
    /\ PortSlots \in Nat
    /\ Entries \cup StackTops \cup {CoreStack} \subseteq Word
    /\ SvcCalls \subseteq 0 .. 255
    /\ MaxProcesses \in Nat
    /\ MaxThreads \in Nat
    /\ MaxRegions \in Nat
    /\ None \notin Nat \X Nat

Cores == 0 .. NCores - 1

VARIABLES
    processes,     \* live pid -> [nextThreadId, memoryMap]
    nextPid,
    threads,       \* <<pid, tid>> -> [state, context]
    order,         \* iteration order over the threads
    handleTable,   \* handle -> <<pid, tid>>
    nextHandle,
    namedPorts,    \* registered name -> handle
    runningOn,     \* core -> <<pid, tid>> or None
    cores          \* core -> its register file

objects == <<processes, nextPid, threads, order, handleTable, nextHandle, namedPorts>>
vars == <<objects, runningOn, cores>>

Live == DOMAIN threads
-------------------------------------------------------------------------------
(* Iteration order *)

\* The sequences that list every element of S once.
Listings(S) == Injection(1 .. Cardinality(S), S)

Precedes(o, j, k) == \E m, n \in DOMAIN o : m < n /\ o[m] = j /\ o[n] = k

\* The threads of one process are met one after the other.
Grouped(o) ==
    \A l, m, n \in DOMAIN o : l < m /\ m < n /\ o[l][1] = o[n][1] => o[m][1] = o[l][1]

SameOrder(o, j, k) == Precedes(o, j, k) <=> Precedes(order, j, k)

\* A key was added to the process map: processes may be met in another order.
OrdersAfterNewProcess ==
    {o \in Listings(Live) :
        Grouped(o) /\ \A j, k \in Live : j[1] = k[1] => SameOrder(o, j, k)}

\* A key was added to the thread map of process k[1]: that map alone may be
\* met in another order.
OrdersAfterNewThread(new) ==
    {o \in Listings(Live \cup {new}) :
        /\ Grouped(o)
        /\ \A j, k \in Live :
             j[1] # new[1] \/ k[1] # new[1] => SameOrder(o, j, k)}
-------------------------------------------------------------------------------
(* Processes, threads and handles *)

NewProcess == [nextThreadId |-> 1, memoryMap |-> <<>>]

\* Mutant: the thread is left in the state Thread::new gives it.
NewThreadNotReady(entry, stackTop) ==
    [state   |-> "Created",
     context |-> [user   |-> [pc |-> entry, sp |-> stackTop, x |-> [r \in XRegs |-> ZERO]],
                  system |-> SYSTEM_ZERO]]

NewThread(entry, stackTop) ==
    [state   |-> "Ready",
     context |-> [user   |-> [pc |-> entry, sp |-> stackTop, x |-> [r \in XRegs |-> ZERO]],
                  system |-> SYSTEM_ZERO]]

\* f with key k bound to v, as HashMap::insert leaves it.
Insert(f, k, v) == [j \in DOMAIN f \cup {k} |-> IF j = k THEN v ELSE f[j]]

CreateProcess ==
    /\ nextPid <= MaxProcesses
    /\ processes' = Insert(processes, nextPid, NewProcess)
    /\ nextPid' = nextPid + 1
    /\ order' \in OrdersAfterNewProcess
    /\ UNCHANGED <<threads, handleTable, nextHandle, namedPorts, runningOn, cores>>

\* Mutant: next_thread_id is not incremented.
AddThreadSameId(pid, entry, stackTop) ==
    LET new == <<pid, processes[pid].nextThreadId>>
    IN /\ Cardinality(Live) < MaxThreads
       /\ threads' = Insert(threads, new, NewThread(entry, stackTop))
       /\ order' \in OrdersAfterNewThread(new)
       /\ UNCHANGED processes

\* Process::create_main_thread and Process::create_thread: the next thread id
\* of the process, and a Ready thread under it.
AddThread(pid, entry, stackTop) ==
    LET tid == processes[pid].nextThreadId
        new == <<pid, tid>>
    IN /\ Cardinality(Live) < MaxThreads
       /\ processes' = [processes EXCEPT ![pid].nextThreadId = tid + 1]
       /\ threads' = Insert(threads, new, NewThread(entry, stackTop))
       /\ order' \in OrdersAfterNewThread(new)

\* Kernel::alloc_handle
AllocHandle(k) ==
    /\ handleTable' = Insert(handleTable, nextHandle, k)
    /\ nextHandle' = nextHandle + 1

\* Kernel::create_main_thread; with an unknown pid it returns None and changes
\* nothing.
CreateMainThread(pid, entry, stackTop) ==
    /\ pid \in DOMAIN processes
    /\ AddThread(pid, entry, stackTop)
    /\ AllocHandle(<<pid, processes[pid].nextThreadId>>)
    /\ UNCHANGED <<nextPid, namedPorts, runningOn, cores>>

\* Process::create_thread, called on a process of the kernel: no handle.
CreateThread(pid, entry, stackTop) ==
    /\ pid \in DOMAIN processes
    /\ AddThread(pid, entry, stackTop)
    /\ UNCHANGED <<nextPid, handleTable, nextHandle, namedPorts, runningOn, cores>>

\* Kernel::map_process_memory: nothing for an unknown pid, no overlap check.
MapProcessMemory(pid, region) ==
    /\ pid \in DOMAIN processes
    /\ Len(processes[pid].memoryMap) < MaxRegions
    /\ processes' = [processes EXCEPT ![pid].memoryMap = Append(@, region)]
    /\ UNCHANGED <<nextPid, threads, order, handleTable, nextHandle, namedPorts, runningOn, cores>>

\* Mutant: the port handles start one below their base.
PortHandlesOffByOne == PortBase - 1 .. PortBase + PortSlots - 2

PortHandles == PortBase .. PortBase + PortSlots - 1

RegisterPort(name, handle) ==
    /\ namedPorts' = Insert(namedPorts, name, handle)
    /\ UNCHANGED <<processes, nextPid, threads, order, handleTable, nextHandle, runningOn, cores>>
-------------------------------------------------------------------------------
(* Scheduling *)

\* Mutant: only Ready threads are collected.
OnlyReady == {k \in Live : threads[k].state = "Ready"}

Runnable == {k \in Live : threads[k].state \in {"Ready", "Running"}}

\* The vector `ready` of Kernel::step: the runnable threads in iteration order.
ReadyLists ==
    {ready \in Listings(Runnable) :
        \A m, n \in DOMAIN ready : m < n => Precedes(order, ready[m], ready[n])}

\* Mutant: the first core of a slice depends on the number of processes, and
\* the slots of the other cores are not cleared.
AssignedFrom(ready, c) ==
    LET n == (c + nextPid) % NCores
    IN IF n + 1 \in DOMAIN ready THEN ready[n + 1] ELSE runningOn[c]

\* running_on after the assignment loop: a core beyond the end of `ready` keeps
\* what it had.
Assigned(ready, c) == IF c + 1 \in DOMAIN ready THEN ready[c + 1] ELSE runningOn[c]

\* Mutant: a thread that is already Running is not loaded again.
LoadedOnce(ready, c) ==
    IF c + 1 \in DOMAIN ready /\ threads[ready[c + 1]].state = "Ready"
    THEN [cores[c] EXCEPT !.user = threads[ready[c + 1]].context.user]
    ELSE cores[c]

\* The registers of a core before it executes: pc, sp and x0..x30 come from the
\* thread, the others stay as the core last left them.
Loaded(ready, c) ==
    IF c + 1 \in DOMAIN ready
    THEN [cores[c] EXCEPT !.user = threads[ready[c + 1]].context.user]
    ELSE cores[c]

\* A core with a thread executes one instruction, an idle core does nothing.
Executed(ready, c) ==
    IF Assigned(ready, c) = None THEN {cores[c]} ELSE GuestStep(Loaded(ready, c))

Outcomes(ready) ==
    {out \in [Cores -> UNION {Executed(ready, c) : c \in Cores}] :
        \A c \in Cores : out[c] \in Executed(ready, c)}

\* Cores are saved in ascending order, so the last one that ran k decides.
SavedFrom(k, on) == CHOOSE c \in Cores : on[c] = k /\ \A d \in Cores : on[d] = k => d <= c

\* Mutant: the context is saved, the state is not set.
SavedNotRunning(k, on, out) ==
    IF \E c \in Cores : on[c] = k
    THEN [threads[k] EXCEPT !.context.user = out[SavedFrom(k, on)].user]
    ELSE threads[k]

Saved(k, on, out) ==
    IF \E c \in Cores : on[c] = k
    THEN [threads[k] EXCEPT !.context.user = out[SavedFrom(k, on)].user, !.state = "Running"]
    ELSE threads[k]

\* Kernel::step: collect, assign and load, execute, save back.
Step ==
    \E ready \in ReadyLists :
      LET on == [c \in Cores |-> Assigned(ready, c)]
      IN \E out \in Outcomes(ready) :
           /\ runningOn' = on
           /\ cores' = out
           /\ threads' = [k \in Live |-> Saved(k, on, out)]
           /\ UNCHANGED <<processes, nextPid, order, handleTable, nextHandle, namedPorts>>

\* Kernel::handle_svc: the call works on a copy of x0..x30 of the core, and the
\* copy is written back to the core, with the result code in x0.
HandleSvc(c, num) ==
    /\ \E x \in Dispatch(num, cores[c].user.x) :
         cores' = [cores EXCEPT ![c].user.x = [x EXCEPT ![0] = Result(num)]]
    /\ UNCHANGED <<objects, runningOn>>
-------------------------------------------------------------------------------
Init ==
    /\ processes = [p \in {} |-> NewProcess]
    /\ nextPid = 1
    /\ threads = [k \in {} |-> NewThread(ZERO, ZERO)]
    /\ order = [n \in {} |-> None]
    /\ handleTable = [h \in {} |-> None]
    /\ nextHandle = HandleBase
    /\ namedPorts = [n \in {} |-> PortBase]
    /\ runningOn = [c \in Cores |-> None]
    /\ cores = [c \in Cores |-> [user   |-> [pc |-> ZERO, sp |-> CoreStack,
                                             x |-> [r \in XRegs |-> ZERO]],
                                 system |-> SYSTEM_ZERO]]

Next ==
    \/ CreateProcess
    \/ \E pid \in 1 .. MaxProcesses, entry \in Entries, stackTop \in StackTops :
         \/ CreateMainThread(pid, entry, stackTop)
         \/ CreateThread(pid, entry, stackTop)
    \/ \E pid \in 1 .. MaxProcesses, region \in Regions : MapProcessMemory(pid, region)
    \/ \E name \in PortNames, handle \in PortHandles : RegisterPort(name, handle)
    \/ Step
    \/ \E c \in Cores, num \in SvcCalls : HandleSvc(c, num)

Spec == Init /\ [][Next]_vars

\* The host keeps calling step.
FairSpec == Spec /\ WF_vars(Step)
-------------------------------------------------------------------------------
(* Properties *)

Thread == [state : {"Ready", "Running"}, context : RegFile]

\* Every variable has the shape the code gives it; pids and handles are dense,
\* and the iteration order meets every thread exactly once.
TypeOK ==
    /\ nextPid \in 1 .. MaxProcesses + 1
    /\ processes \in [1 .. nextPid - 1 -> [nextThreadId : Nat \ {0}, memoryMap : Seq(Regions)]]
    /\ threads \in [Live -> Thread]
    /\ order \in Listings(Live)
    /\ nextHandle \in Nat
    /\ handleTable \in [HandleBase .. nextHandle - 1 -> Live]
    /\ namedPorts \in [DOMAIN namedPorts -> PortHandles]
    /\ runningOn \in [Cores -> Live \cup {None}]
    /\ cores \in [Cores -> RegFile]

\* Thread ids are handed out by the process and handles by the kernel, yet no
\* two handles ever name the same thread, and the thread a handle names is live
\* (create_main_thread, alloc_handle).
HandlesNameThreads ==
    /\ \A h \in DOMAIN handleTable : handleTable[h] \in Live
    /\ IsInjective(handleTable)

NoPortIsThread ==
    \A name \in DOMAIN namedPorts : namedPorts[name] \notin DOMAIN handleTable

\* A port handle (0x2000 + i, chosen by boot) is not also a thread handle (0x1000
\* upwards, chosen by alloc_handle) while the threads are no more than the numbers
\* between the two bases.  Nothing keeps them to so many: neither register_port nor
\* alloc_handle looks at the other's numbers, and beyond the bound they do collide.
PortsApart ==
    Cardinality(Live) <= PortBase - HandleBase => NoPortIsThread

\* No thread is on two cores, although step never clears running_on: otherwise
\* it would execute twice in a slice and the later save would win.
CoresExclusive ==
    \A c, d \in Cores : runningOn[c] # None /\ runningOn[c] = runningOn[d] => c = d

\* A thread on a core is a live one that has been given the state Running.
OnCoreIsRunning ==
    \A c \in Cores : runningOn[c] # None =>
        runningOn[c] \in Live /\ threads[runningOn[c]].state = "Running"

\* The live threads are exactly those whose ids their process has handed out.
IdsHandedOut ==
    Live = UNION {{p} \X (1 .. processes[p].nextThreadId - 1) : p \in DOMAIN processes}

\* Thread handles are no more than threads, and threads no more than the bound.
HandlesCounted ==
    /\ IsFiniteSet(Live)
    /\ Cardinality(Live) <= MaxThreads
    /\ HandleBase <= nextHandle
    /\ nextHandle <= HandleBase + Cardinality(Live)

\* The occupied cores are among the first Cardinality(Live), so the next slice
\* reassigns all of them: this is why a slot never goes stale.
SlotsReassigned ==
    \A c \in Cores : runningOn[c] # None => c < Cardinality(Live)

\* The inductive invariant: the timeslice keeps CoresExclusive and OnCoreIsRunning
\* only because it reassigns every occupied slot, which rests on how many threads
\* there are, hence on the ids (Kernel::step, lines 134-136).
IInv ==
    /\ TypeOK
    /\ IdsHandedOut
    /\ HandlesCounted
    /\ HandlesNameThreads
    /\ SlotsReassigned
    /\ CoresExclusive
    /\ OnCoreIsRunning

\* The converse: ThreadState is the "current execution state of a thread", so a
\* Running thread is one that executes on some core.  Nothing takes the state
\* back, so it is true only as long as the threads fit on the cores.
RunningIsOnCore ==
    Cardinality(Live) <= NCores =>
        \A k \in Live : threads[k].state = "Running" => \E c \in Cores : runningOn[c] = k

\* Seen through the saved contexts, the kernel is the machine that advances
\* distinct threads, as many as fit, each from its own registers.
Machine == INSTANCE ThreadMachine WITH
    ctx <- [k \in Live |-> threads[k].context.user],
    Threads <- (1 .. MaxProcesses) \X (1 .. MaxThreads)

ImplementsMachine == Machine!Spec

\* Every thread that is created executes again and again.
EveryThreadRuns ==
    \A k \in (1 .. MaxProcesses) \X (1 .. MaxThreads) :
        k \in Live ~> \E c \in Cores : runningOn[c] = k
===============================================================================
