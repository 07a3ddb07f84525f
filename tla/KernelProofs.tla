----------------------------- MODULE KernelProofs -----------------------------
(***************************************************************************)
(* Proofs about Kernel.tla for every number of cores, threads, processes,  *)
(* words and handles: type correctness, the safety invariants the runs     *)
(* check, and that the kernel implements ThreadMachine.                    *)
(***************************************************************************)
EXTENDS Kernel, FiniteSetTheorems, Induction, TLAPS

-------------------------------------------------------------------------------
(* Registers and supervisor calls *)

\* An instruction maps user registers to user registers.
LEMMA UserStepType ==
    ASSUME NEW u \in UserRegs
    PROVE  UserStep(u) \subseteq UserRegs
<1> USE WordAssumption DEF UserRegs, XRegs
<1>1. \A w \in GuestWords : [u EXCEPT !.pc = w] \in UserRegs
  OBVIOUS
<1>2. \A w \in GuestWords : [u EXCEPT !.sp = w] \in UserRegs
  OBVIOUS
<1>3. \A r \in XRegs, w \in GuestWords : [u EXCEPT !.x[r] = w] \in UserRegs
  <2> SUFFICES ASSUME NEW r \in XRegs, NEW w \in GuestWords
               PROVE  [u EXCEPT !.x[r] = w] \in UserRegs
    OBVIOUS
  <2>1. [u.x EXCEPT ![r] = w] \in [XRegs -> Word]
    OBVIOUS
  <2> QED BY <2>1
<1> QED BY <1>1, <1>2, <1>3 DEF UserStep

\* ... and a register file to a register file.
LEMMA GuestStepType ==
    ASSUME NEW regs \in RegFile
    PROVE  GuestStep(regs) \subseteq RegFile
<1>1. regs.user \in UserRegs
  BY DEF RegFile
<1> QED BY <1>1, UserStepType DEF GuestStep, RegFile

\* A supervisor call leaves words in x0 and x1.
LEMMA DispatchType ==
    ASSUME NEW num, NEW x \in [XRegs -> Word], NEW y \in Dispatch(num, x)
    PROVE  [y EXCEPT ![0] = Result(num)] \in [XRegs -> Word]
<1>1. x[0] \in Word /\ x[1] \in Word
  BY DEF XRegs
<1>2. StubX1(num, x[1]) \in Word
  BY <1>1, WordAssumption, SvcAssumption DEF StubX1
<1>3. StubX0(num, x[0]) \subseteq Word
  BY <1>1, WordAssumption, SvcAssumption DEF StubX0
<1>4. PICK w \in StubX0(num, x[0]) : y = [x EXCEPT ![0] = w, ![1] = StubX1(num, x[1])]
  BY DEF Dispatch
<1>5. y \in [XRegs -> Word]
  BY <1>2, <1>3, <1>4
<1> QED BY <1>5, WordAssumption DEF Result, SUCCESS
-------------------------------------------------------------------------------
(* The inductive invariant *)

\* The ids handed out, thread by thread: how the proofs use IdsHandedOut.
LEMMA IdsByThread ==
    ASSUME NEW L, NEW procs, DOMAIN procs \subseteq Nat
    PROVE  L = UNION {{p} \X (1 .. procs[p].nextThreadId - 1) : p \in DOMAIN procs}
           <=> /\ L \subseteq Nat \X Nat
               /\ \A p, t \in Nat :
                    <<p, t>> \in L <=>
                      p \in DOMAIN procs /\ t \in 1 .. procs[p].nextThreadId - 1
<1> DEFINE All == UNION {{p} \X (1 .. procs[p].nextThreadId - 1) : p \in DOMAIN procs}
<1>1. \A k \in All : /\ k \in Nat \X Nat
                     /\ k[1] \in DOMAIN procs
                     /\ k[2] \in 1 .. procs[k[1]].nextThreadId - 1
  OBVIOUS
<1>2. \A p, t \in Nat :
        p \in DOMAIN procs /\ t \in 1 .. procs[p].nextThreadId - 1 => <<p, t>> \in All
  OBVIOUS
<1> HIDE DEF All
<1>3. ASSUME L = All
      PROVE  /\ L \subseteq Nat \X Nat
             /\ \A p, t \in Nat :
                  <<p, t>> \in L <=>
                    p \in DOMAIN procs /\ t \in 1 .. procs[p].nextThreadId - 1
  BY <1>1, <1>2, <1>3
<1>4. ASSUME L \subseteq Nat \X Nat,
             \A p, t \in Nat :
               <<p, t>> \in L <=>
                 p \in DOMAIN procs /\ t \in 1 .. procs[p].nextThreadId - 1
      PROVE  L = All
  <2>1. \A k \in L : k = <<k[1], k[2]>> /\ k[1] \in Nat /\ k[2] \in Nat
    BY <1>4
  <2>2. \A k \in All : k = <<k[1], k[2]>> /\ k[1] \in Nat /\ k[2] \in Nat
    BY <1>1
  <2>3. L \subseteq All
    BY <1>2, <1>4, <2>1
  <2>4. All \subseteq L
    BY <1>1, <1>4, <2>2
  <2> QED BY <2>3, <2>4
<1> QED BY <1>3, <1>4 DEF All

\* A new kernel has no objects and idle cores (Kernel::new).
LEMMA InitIInv == Init => IInv
<1> SUFFICES ASSUME Init PROVE IInv
  OBVIOUS
<1> USE KernelAssumption, WordAssumption DEF Init
<1>1. Live = {} /\ IsFiniteSet(Live) /\ Cardinality(Live) = 0
  BY FS_EmptySet DEF Live
<1>2. TypeOK
  <2>1. order \in Listings(Live)
    BY <1>1 DEF Listings, Injection, IsInjective
  <2>2. cores \in [Cores -> RegFile]
    BY DEF RegFile, UserRegs
  <2>3. runningOn \in [Cores -> Live \cup {None}]
    OBVIOUS
  <2>4. processes \in [1 .. nextPid - 1 -> [nextThreadId : Nat \ {0}, memoryMap : Seq(Regions)]]
    OBVIOUS
  <2>5. threads \in [Live -> Thread]
    BY <1>1 DEF Live
  <2>6. handleTable \in [HandleBase .. nextHandle - 1 -> Live]
    <3>1. HandleBase .. nextHandle - 1 = {}
      OBVIOUS
    <3> QED BY <3>1
  <2>7. nextPid \in 1 .. MaxProcesses + 1 /\ nextHandle \in Nat
    OBVIOUS
  <2>8. namedPorts \in [DOMAIN namedPorts -> PortHandles]
    OBVIOUS
  <2> QED BY <2>1, <2>2, <2>3, <2>4, <2>5, <2>6, <2>7, <2>8 DEF TypeOK
<1>3. IdsHandedOut
  BY <1>1 DEF IdsHandedOut
<1>4. HandlesCounted
  BY <1>1 DEF HandlesCounted
<1>5. HandlesNameThreads
  BY DEF HandlesNameThreads, IsInjective
<1>6. SlotsReassigned /\ CoresExclusive /\ OnCoreIsRunning
  BY DEF SlotsReassigned, CoresExclusive, OnCoreIsRunning
<1> QED BY <1>2, <1>3, <1>4, <1>5, <1>6 DEF IInv

\* A new process changes no thread, only the order they may be met in.
LEMMA CreateProcessIInv ==
    ASSUME IInv, CreateProcess
    PROVE  IInv'
<1> USE KernelAssumption DEF CreateProcess, IInv
<1>1. Live' = Live /\ threads' = threads
  BY DEF Live
<1>2. /\ DOMAIN processes = 1 .. nextPid - 1
      /\ nextPid \in Nat /\ nextPid \notin DOMAIN processes
      /\ DOMAIN processes' = 1 .. nextPid' - 1
  BY SMTT(30) DEF TypeOK, Insert
<1>3. TypeOK'
  <2>1. order' \in Listings(Live)'
    BY <1>1 DEF OrdersAfterNewProcess, Listings
  <2>2. nextPid' \in 1 .. MaxProcesses + 1
    BY SMTT(30) DEF TypeOK
  <2>3. processes' \in [1 .. nextPid' - 1 ->
                          [nextThreadId : Nat \ {0}, memoryMap : Seq(Regions)]]
    <3>1. NewProcess \in [nextThreadId : Nat \ {0}, memoryMap : Seq(Regions)]
      BY DEF NewProcess
    <3> QED BY <1>2, <3>1 DEF TypeOK, Insert
  <2> QED BY <1>1, <2>1, <2>2, <2>3 DEF TypeOK, Live
<1>4. IdsHandedOut'
  <2> SUFFICES ASSUME NEW p \in Nat, NEW t \in Nat
               PROVE  <<p, t>> \in Live <=>
                        p \in DOMAIN processes' /\ t \in 1 .. processes'[p].nextThreadId - 1
    BY <1>1, <1>2, IdsByThread DEF IdsHandedOut
  <2>1. CASE p = nextPid
    <3>1. <<p, t>> \notin Live
      BY <2>1, <1>2 DEF IdsHandedOut
    <3>2. processes'[p].nextThreadId - 1 = 0
      BY <2>1, <1>2 DEF Insert, NewProcess
    <3> QED BY <3>1, <3>2
  <2>2. CASE p # nextPid
    BY <2>2, <1>2 DEF IdsHandedOut, Insert
  <2> QED BY <2>1, <2>2
<1>5. HandlesCounted'
  BY <1>1 DEF HandlesCounted
<1>6. (HandlesNameThreads /\ SlotsReassigned /\ CoresExclusive /\ OnCoreIsRunning)'
  BY <1>1 DEF HandlesNameThreads, SlotsReassigned, CoresExclusive, OnCoreIsRunning, IsInjective
<1> QED BY <1>3, <1>4, <1>5, <1>6

\* What creating a thread does to the threads, their ids and their order; the
\* two creating actions share it.
LEMMA AddThreadFacts ==
    ASSUME IInv, NEW pid \in DOMAIN processes,
           NEW entry \in Word, NEW stackTop \in Word,
           AddThread(pid, entry, stackTop), UNCHANGED nextPid
    PROVE  LET new == <<pid, processes[pid].nextThreadId>>
           IN /\ new \notin Live
              /\ Live' = Live \cup {new}
              /\ IsFiniteSet(Live')
              /\ Cardinality(Live') = Cardinality(Live) + 1
              /\ Cardinality(Live') <= MaxThreads
              /\ threads' \in [Live' -> Thread]
              /\ threads'[new] = NewThread(entry, stackTop)
              /\ \A k \in Live : threads'[k] = threads[k]
              /\ processes' \in [1 .. nextPid - 1 ->
                                   [nextThreadId : Nat \ {0}, memoryMap : Seq(Regions)]]
              /\ order' \in Listings(Live')
              /\ IdsHandedOut'
<1> DEFINE tid == processes[pid].nextThreadId
           new == <<pid, tid>>
<1> USE KernelAssumption, WordAssumption DEF IInv
<1>1. /\ DOMAIN processes = 1 .. nextPid - 1
      /\ nextPid \in Nat /\ pid \in Nat
      /\ tid \in Nat \ {0}
      /\ processes \in [1 .. nextPid - 1 ->
                          [nextThreadId : Nat \ {0}, memoryMap : Seq(Regions)]]
  BY SMTT(30) DEF TypeOK
<1>2. new \notin Live
  BY <1>1 DEF IdsHandedOut
<1>3. Live' = Live \cup {new}
  BY DEF AddThread, Insert, Live
<1>4. /\ IsFiniteSet(Live') /\ Cardinality(Live') = Cardinality(Live) + 1
      /\ Cardinality(Live) \in Nat
  BY <1>2, <1>3, FS_AddElement, FS_CardinalityType DEF HandlesCounted
<1>5. Cardinality(Live') <= MaxThreads
  BY <1>4 DEF AddThread
<1>6. NewThread(entry, stackTop) \in Thread
  BY DEF NewThread, Thread, RegFile, UserRegs
<1>7. /\ threads' \in [Live' -> Thread]
      /\ threads'[new] = NewThread(entry, stackTop)
      /\ \A k \in Live : threads'[k] = threads[k]
  <2>1. threads' = [k \in Live \cup {new} |->
                      IF k = new THEN NewThread(entry, stackTop) ELSE threads[k]]
    BY DEF AddThread, Insert, Live
  <2>2. threads \in [Live -> Thread]
    BY DEF TypeOK
  <2> QED BY <1>2, <1>3, <1>6, <2>1, <2>2
<1>8. processes' = [processes EXCEPT ![pid].nextThreadId = tid + 1]
  BY DEF AddThread
<1>9. processes' \in [1 .. nextPid - 1 ->
                        [nextThreadId : Nat \ {0}, memoryMap : Seq(Regions)]]
  <2> DEFINE grown == [processes[pid] EXCEPT !.nextThreadId = tid + 1]
  <2>1. processes' = [processes EXCEPT ![pid] = grown]
    BY <1>8
  <2>2. grown \in [nextThreadId : Nat \ {0}, memoryMap : Seq(Regions)]
    <3>1. processes[pid] \in [nextThreadId : Nat \ {0}, memoryMap : Seq(Regions)]
      BY <1>1
    <3>2. tid + 1 \in Nat \ {0}
      BY <1>1
    <3> QED BY <3>1, <3>2
  <2> HIDE DEF grown
  <2> QED BY <1>1, <2>1, <2>2
<1>10. order' \in Listings(Live')
  BY <1>3 DEF AddThread, OrdersAfterNewThread
<1>11. IdsHandedOut'
  <2>1. Live' \subseteq Nat \X Nat
    BY <1>1, <1>3 DEF IdsHandedOut
  <2>2. ASSUME NEW p \in Nat, NEW t \in Nat
        PROVE  <<p, t>> \in Live' <=>
                 p \in DOMAIN processes' /\ t \in 1 .. processes'[p].nextThreadId - 1
    <3>1. <<p, t>> \in Live <=>
            p \in DOMAIN processes /\ t \in 1 .. processes[p].nextThreadId - 1
      BY DEF IdsHandedOut
    <3>2. CASE p = pid
      <4>1. processes'[p].nextThreadId = tid + 1
        BY <3>2, <1>1, <1>8
      <4>2. t \in 1 .. tid <=> t \in 1 .. tid - 1 \/ t = tid
        BY <1>1
      <4> QED BY <1>1, <1>3, <1>8, <3>1, <3>2, <4>1, <4>2, SMTT(30)
    <3>3. CASE p # pid
      <4>1. p \in DOMAIN processes => processes'[p] = processes[p]
        BY <3>3, <1>1, <1>8
      <4> QED BY <1>1, <1>3, <1>8, <3>1, <3>3, <4>1
    <3> QED BY <3>2, <3>3
  <2>3. DOMAIN processes' \subseteq Nat
    BY <1>1, <1>9
  <2> QED BY <2>1, <2>2, <2>3, IdsByThread DEF IdsHandedOut
<1> QED BY <1>2, <1>3, <1>4, <1>5, <1>7, <1>9, <1>10, <1>11

\* The parts of the invariant that speak of cores survive a new thread.
LEMMA CoresKeepThreads ==
    ASSUME IInv, UNCHANGED <<runningOn, cores>>,
           Live \subseteq Live', IsFiniteSet(Live'),
           \A k \in Live : threads'[k] = threads[k]
    PROVE  /\ runningOn' \in [Cores -> Live' \cup {None}]
           /\ cores' \in [Cores -> RegFile]
           /\ SlotsReassigned' /\ CoresExclusive' /\ OnCoreIsRunning'
<1> USE DEF IInv
<1>1. /\ runningOn' \in [Cores -> Live' \cup {None}]
      /\ cores' \in [Cores -> RegFile]
  BY DEF TypeOK
<1>2. Cardinality(Live) <= Cardinality(Live') /\ Cardinality(Live) \in Nat
      /\ Cardinality(Live') \in Nat
  BY FS_Subset, FS_CardinalityType
<1>3. SlotsReassigned'
  BY <1>2, KernelAssumption DEF SlotsReassigned, Cores
<1>4. CoresExclusive'
  BY DEF CoresExclusive
<1>5. OnCoreIsRunning'
  BY DEF OnCoreIsRunning, TypeOK
<1> QED BY <1>1, <1>3, <1>4, <1>5

\* A main thread takes a thread id and a handle that were never handed out
\* (create_main_thread, alloc_handle).
LEMMA CreateMainThreadIInv ==
    ASSUME IInv, NEW pid, NEW entry \in Word, NEW stackTop \in Word,
           CreateMainThread(pid, entry, stackTop)
    PROVE  IInv'
<1> DEFINE new == <<pid, processes[pid].nextThreadId>>
<1> USE DEF CreateMainThread
<1>1. /\ new \notin Live
      /\ Live' = Live \cup {new}
      /\ IsFiniteSet(Live')
      /\ Cardinality(Live') = Cardinality(Live) + 1
      /\ Cardinality(Live') <= MaxThreads
      /\ threads' \in [Live' -> Thread]
      /\ \A k \in Live : threads'[k] = threads[k]
      /\ processes' \in [1 .. nextPid - 1 ->
                           [nextThreadId : Nat \ {0}, memoryMap : Seq(Regions)]]
      /\ order' \in Listings(Live')
      /\ IdsHandedOut'
  BY AddThreadFacts, KernelAssumption
<1>2. /\ nextHandle \in Nat /\ HandleBase \in Nat /\ HandleBase <= nextHandle
      /\ nextHandle <= HandleBase + Cardinality(Live) /\ Cardinality(Live) \in Nat
      /\ handleTable \in [HandleBase .. nextHandle - 1 -> Live]
  BY KernelAssumption, FS_CardinalityType DEF IInv, TypeOK, HandlesCounted
<1>3. /\ nextHandle' = nextHandle + 1
      /\ handleTable' = [h \in DOMAIN handleTable \cup {nextHandle} |->
                           IF h = nextHandle THEN new ELSE handleTable[h]]
  BY DEF AllocHandle, Insert
<1>4. DOMAIN handleTable \cup {nextHandle} = HandleBase .. nextHandle' - 1
  BY <1>2, <1>3
<1>5. handleTable' \in [HandleBase .. nextHandle' - 1 -> Live']
  BY <1>1, <1>2, <1>3, <1>4
<1>6. HandlesNameThreads'
  <2>1. \A h \in DOMAIN handleTable' : handleTable'[h] \in Live'
    BY <1>5
  <2>2. \A g \in DOMAIN handleTable : handleTable[g] # new
    BY <1>1, <1>2
  <2>3. \A g, h \in DOMAIN handleTable' : handleTable'[g] = handleTable'[h] => g = h
    BY <1>2, <1>3, <2>2 DEF IInv, HandlesNameThreads, IsInjective
  <2> QED BY <2>1, <2>3 DEF HandlesNameThreads, IsInjective
<1>7. HandlesCounted'
  BY <1>1, <1>2, <1>3 DEF HandlesCounted
<1>8. /\ runningOn' \in [Cores -> Live' \cup {None}]
      /\ cores' \in [Cores -> RegFile]
      /\ SlotsReassigned' /\ CoresExclusive' /\ OnCoreIsRunning'
  BY <1>1, CoresKeepThreads
<1>9. TypeOK'
  BY <1>1, <1>2, <1>3, <1>5, <1>8, SMTT(30) DEF IInv, TypeOK
<1> QED BY <1>1, <1>6, <1>7, <1>8, <1>9 DEF IInv

\* An additional thread takes a fresh thread id and no handle.
LEMMA CreateThreadIInv ==
    ASSUME IInv, NEW pid, NEW entry \in Word, NEW stackTop \in Word,
           CreateThread(pid, entry, stackTop)
    PROVE  IInv'
<1> DEFINE new == <<pid, processes[pid].nextThreadId>>
<1> USE DEF CreateThread
<1>1. /\ Live' = Live \cup {new}
      /\ IsFiniteSet(Live')
      /\ Cardinality(Live') = Cardinality(Live) + 1
      /\ Cardinality(Live') <= MaxThreads
      /\ threads' \in [Live' -> Thread]
      /\ \A k \in Live : threads'[k] = threads[k]
      /\ processes' \in [1 .. nextPid - 1 ->
                           [nextThreadId : Nat \ {0}, memoryMap : Seq(Regions)]]
      /\ order' \in Listings(Live')
      /\ IdsHandedOut'
  BY AddThreadFacts, KernelAssumption
<1>2. HandlesNameThreads'
  BY <1>1 DEF IInv, HandlesNameThreads, IsInjective
<1>3. HandlesCounted'
  <2>1. Cardinality(Live) \in Nat /\ nextHandle \in Nat
    BY FS_CardinalityType DEF IInv, HandlesCounted, TypeOK
  <2> QED BY <1>1, <2>1, KernelAssumption DEF IInv, HandlesCounted
<1>4. /\ runningOn' \in [Cores -> Live' \cup {None}]
      /\ cores' \in [Cores -> RegFile]
      /\ SlotsReassigned' /\ CoresExclusive' /\ OnCoreIsRunning'
  BY <1>1, CoresKeepThreads
<1>5. handleTable' \in [HandleBase .. nextHandle' - 1 -> Live']
  BY <1>1 DEF IInv, TypeOK
<1>6. TypeOK'
  BY <1>1, <1>4, <1>5 DEF IInv, TypeOK
<1> QED BY <1>1, <1>2, <1>3, <1>4, <1>6 DEF IInv

\* Mapping memory touches the memory map of one process and nothing else.
LEMMA MapProcessMemoryIInv ==
    ASSUME IInv, NEW pid, NEW region \in Regions, MapProcessMemory(pid, region)
    PROVE  IInv'
<1> USE DEF MapProcessMemory
<1>1. Live' = Live /\ UNCHANGED <<threads, nextPid, handleTable, nextHandle, runningOn>>
  BY DEF Live
<1>2. processes \in [1 .. nextPid - 1 ->
                       [nextThreadId : Nat \ {0}, memoryMap : Seq(Regions)]]
  BY DEF IInv, TypeOK
<1>3. /\ processes' \in [1 .. nextPid - 1 ->
                           [nextThreadId : Nat \ {0}, memoryMap : Seq(Regions)]]
      /\ \A p \in DOMAIN processes : processes'[p].nextThreadId = processes[p].nextThreadId
  <2> DEFINE mapped == [processes[pid] EXCEPT !.memoryMap = Append(processes[pid].memoryMap, region)]
  <2>1. processes' = [processes EXCEPT ![pid] = mapped]
    OBVIOUS
  <2>2. processes[pid] \in [nextThreadId : Nat \ {0}, memoryMap : Seq(Regions)]
    BY <1>2
  <2>3. Append(processes[pid].memoryMap, region) \in Seq(Regions)
    BY <2>2
  <2>4. /\ mapped \in [nextThreadId : Nat \ {0}, memoryMap : Seq(Regions)]
        /\ mapped.nextThreadId = processes[pid].nextThreadId
    BY <2>2, <2>3
  <2> HIDE DEF mapped
  <2> QED BY <1>2, <2>1, <2>4
<1>4. DOMAIN processes' = DOMAIN processes
  BY <1>2, <1>3
<1>5. IdsHandedOut'
  BY <1>1, <1>3, <1>4 DEF IInv, IdsHandedOut
<1>6. TypeOK'
  BY <1>1, <1>3 DEF IInv, TypeOK, Live
<1> QED BY <1>1, <1>5, <1>6
     DEF IInv, HandlesCounted, HandlesNameThreads, SlotsReassigned, CoresExclusive,
         OnCoreIsRunning, IsInjective

\* Registering a port touches the port table only.
LEMMA RegisterPortIInv ==
    ASSUME IInv, NEW name, NEW handle \in PortHandles, RegisterPort(name, handle)
    PROVE  IInv'
<1> USE DEF RegisterPort
<1>1. Live' = Live /\ UNCHANGED <<processes, threads, nextPid, handleTable, nextHandle, runningOn>>
  BY DEF Live
<1>2. namedPorts' \in [DOMAIN namedPorts' -> PortHandles]
  BY DEF Insert, IInv, TypeOK
<1>3. TypeOK'
  BY <1>1, <1>2 DEF IInv, TypeOK, Live
<1> QED BY <1>1, <1>3
     DEF IInv, IdsHandedOut, HandlesCounted, HandlesNameThreads, SlotsReassigned,
         CoresExclusive, OnCoreIsRunning, IsInjective

\* A supervisor call changes x0 and x1 of one core (handle_svc, dispatch).
LEMMA HandleSvcIInv ==
    ASSUME IInv, NEW c \in Cores, NEW num, HandleSvc(c, num)
    PROVE  IInv'
<1> USE DEF HandleSvc, objects
<1>1. Live' = Live /\ UNCHANGED <<processes, threads, nextPid, handleTable, nextHandle, runningOn>>
  BY DEF Live
<1>2. cores' \in [Cores -> RegFile]
  <2>1. cores \in [Cores -> RegFile]
    BY DEF IInv, TypeOK
  <2>2. PICK x \in Dispatch(num, cores[c].user.x) :
          cores' = [cores EXCEPT ![c].user.x = [x EXCEPT ![0] = Result(num)]]
    OBVIOUS
  <2> DEFINE left == [x EXCEPT ![0] = Result(num)]
             user == [cores[c].user EXCEPT !.x = left]
  <2>3. cores[c].user \in UserRegs /\ cores[c].user.x \in [XRegs -> Word]
    BY <2>1 DEF RegFile, UserRegs
  <2>4. left \in [XRegs -> Word]
    BY <2>2, <2>3, DispatchType
  <2>5. user \in UserRegs
    <3> HIDE DEF left
    <3> QED BY <2>3, <2>4 DEF UserRegs
  <2>6. [cores[c] EXCEPT !.user = user] \in RegFile
    <3> HIDE DEF user
    <3> QED BY <2>1, <2>5 DEF RegFile
  <2>7. cores' = [cores EXCEPT ![c] = [cores[c] EXCEPT !.user = user]]
    BY <2>2
  <2> QED BY <2>1, <2>6, <2>7
<1>3. TypeOK'
  BY <1>1, <1>2 DEF IInv, TypeOK, Live
<1> QED BY <1>1, <1>3
     DEF IInv, IdsHandedOut, HandlesCounted, HandlesNameThreads, SlotsReassigned,
         CoresExclusive, OnCoreIsRunning, IsInjective

\* What a timeslice does, once the invariant has cleared away the cases that
\* cannot occur: every thread is runnable, no slot is stale, and so the threads
\* on the cores are the first of a list without repetition.
LEMMA StepFacts ==
    ASSUME IInv, Step
    PROVE  \E ready \in Listings(Live) :
             /\ \A m, n \in DOMAIN ready : m < n => Precedes(order, ready[m], ready[n])
             /\ runningOn' \in [Cores -> Live \cup {None}]
             /\ cores' \in [Cores -> RegFile]
             /\ threads' \in [Live -> Thread]
             /\ Live' = Live
             /\ UNCHANGED <<processes, nextPid, order, handleTable, nextHandle, namedPorts>>
             /\ \A c \in Cores : c + 1 \in DOMAIN ready =>
                  /\ runningOn'[c] = ready[c + 1]
                  /\ cores'[c].user \in UserStep(threads[ready[c + 1]].context.user)
                  /\ threads'[ready[c + 1]].state = "Running"
                  /\ threads'[ready[c + 1]].context.user = cores'[c].user
             /\ \A c \in Cores : c + 1 \notin DOMAIN ready => runningOn'[c] = None
             /\ \A k \in Live :
                  (\A c \in Cores : runningOn'[c] # k) => threads'[k] = threads[k]
<1> USE DEF IInv
<1>1. Runnable = Live
  BY DEF Runnable, TypeOK, Thread
<1>2. PICK ready \in ReadyLists :
        LET on == [c \in Cores |-> Assigned(ready, c)]
        IN \E out \in Outcomes(ready) :
             /\ runningOn' = on
             /\ cores' = out
             /\ threads' = [k \in Live |-> Saved(k, on, out)]
             /\ UNCHANGED <<processes, nextPid, order, handleTable, nextHandle, namedPorts>>
  BY DEF Step
<1> DEFINE on == [c \in Cores |-> Assigned(ready, c)]
<1>3. PICK out \in Outcomes(ready) :
        /\ runningOn' = on
        /\ cores' = out
        /\ threads' = [k \in Live |-> Saved(k, on, out)]
        /\ UNCHANGED <<processes, nextPid, order, handleTable, nextHandle, namedPorts>>
  BY <1>2
<1>4. /\ ready \in Listings(Live)
      /\ ready \in [1 .. Cardinality(Live) -> Live]
      /\ \A m, n \in DOMAIN ready : ready[m] = ready[n] => m = n
      /\ Cardinality(Live) \in Nat
  BY <1>1, FS_CardinalityType DEF ReadyLists, Listings, Injection, IsInjective, HandlesCounted
<1>0. \A m, n \in DOMAIN ready : m < n => Precedes(order, ready[m], ready[n])
  BY DEF ReadyLists
<1>5. Cores \subseteq Nat
  BY KernelAssumption DEF Cores
<1>6. \A k \in Live : k # None
  <2>1. Live \subseteq Nat \X Nat
    BY IdsByThread DEF IdsHandedOut, TypeOK
  <2> QED BY <2>1, KernelAssumption
<1>7. \A c \in Cores : c + 1 \in DOMAIN ready => on[c] = ready[c + 1]
  BY DEF Assigned
<1>8. \A c \in Cores : c + 1 \notin DOMAIN ready => on[c] = None
  <2> SUFFICES ASSUME NEW c \in Cores, c + 1 \notin DOMAIN ready
               PROVE  runningOn[c] = None
    BY DEF Assigned
  <2>1. ~ (c < Cardinality(Live))
    BY <1>4, <1>5
  <2> QED BY <2>1 DEF SlotsReassigned
<1>9. \A c \in Cores : on[c] \in Live \cup {None}
  BY <1>4, <1>7, <1>8
<1>10. threads \in [Live -> Thread] /\ cores \in [Cores -> RegFile]
  BY DEF TypeOK
<1>11. \A c \in Cores : out[c] \in Executed(ready, c)
  BY DEF Outcomes
<1>12. ASSUME NEW c \in Cores, c + 1 \in DOMAIN ready
       PROVE  /\ Loaded(ready, c) \in RegFile
              /\ Loaded(ready, c).user = threads[ready[c + 1]].context.user
              /\ out[c] \in GuestStep(Loaded(ready, c))
  <2>1. ready[c + 1] \in Live
    BY <1>4, <1>12
  <2>2. threads[ready[c + 1]].context.user \in UserRegs
    BY <1>10, <2>1 DEF Thread, RegFile
  <2>3. /\ Loaded(ready, c) = [cores[c] EXCEPT !.user = threads[ready[c + 1]].context.user]
        /\ cores[c] \in RegFile
    BY <1>10, <1>12 DEF Loaded
  <2>4. Executed(ready, c) = GuestStep(Loaded(ready, c))
    BY <1>6, <1>7, <1>12, <2>1 DEF Executed
  <2> QED BY <1>11, <2>2, <2>3, <2>4 DEF RegFile
<1>13. out \in [Cores -> RegFile]
  <2> SUFFICES ASSUME NEW c \in Cores PROVE out[c] \in RegFile
    BY DEF Outcomes
  <2>1. CASE c + 1 \in DOMAIN ready
    BY <1>12, <2>1, GuestStepType
  <2>2. CASE c + 1 \notin DOMAIN ready
    <3>1. Executed(ready, c) = {cores[c]}
      BY <1>8, <2>2 DEF Executed
    <3> QED BY <1>10, <1>11, <3>1
  <2> QED BY <2>1, <2>2
<1>14. ASSUME NEW c \in Cores, c + 1 \in DOMAIN ready
       PROVE  /\ out[c].user \in UserStep(threads[ready[c + 1]].context.user)
              /\ SavedFrom(ready[c + 1], on) = c
  <2>1. out[c].user \in UserStep(threads[ready[c + 1]].context.user)
    BY <1>12, <1>14 DEF GuestStep
  <2>2. on[c] = ready[c + 1] /\ ready[c + 1] # None
    BY <1>4, <1>6, <1>7, <1>14
  <2>3. \A d \in Cores : on[d] = ready[c + 1] => d = c
    <3> SUFFICES ASSUME NEW d \in Cores, on[d] = ready[c + 1] PROVE d = c
      OBVIOUS
    <3>1. d + 1 \in DOMAIN ready
      BY <1>8, <2>2
    <3>2. ready[d + 1] = ready[c + 1]
      BY <1>7, <3>1
    <3>3. d + 1 = c + 1
      BY <1>4, <1>14, <3>1, <3>2
    <3> QED BY <1>5, <3>3
  <2>4. \A d \in Cores : (on[d] = ready[c + 1] /\ \A e \in Cores : on[e] = ready[c + 1] => e <= d)
                           <=> d = c
    BY <1>5, <2>2, <2>3
  <2>5. SavedFrom(ready[c + 1], on) = c
    <3> HIDE DEF on
    <3> QED BY <2>4 DEF SavedFrom
  <2> QED BY <2>1, <2>5
<1>15. ASSUME NEW c \in Cores, c + 1 \in DOMAIN ready
       PROVE  /\ Saved(ready[c + 1], on, out) \in Thread
              /\ Saved(ready[c + 1], on, out).state = "Running"
              /\ Saved(ready[c + 1], on, out).context.user = out[c].user
  <2> DEFINE k == ready[c + 1]
             ctx == [threads[k].context EXCEPT !.user = out[c].user]
  <2>1. k \in Live /\ threads[k] \in Thread /\ out[c].user \in UserRegs
    BY <1>4, <1>10, <1>13, <1>15 DEF RegFile
  <2>2. ctx \in RegFile /\ ctx.user = out[c].user
    BY <2>1 DEF Thread, RegFile
  <2>3. Saved(k, on, out) = [threads[k] EXCEPT !.context = ctx, !.state = "Running"]
    BY <1>7, <1>14, <1>15 DEF Saved
  <2> HIDE DEF ctx
  <2> QED BY <2>1, <2>2, <2>3 DEF Thread
<1>16. \A k \in Live : (\A c \in Cores : on[c] # k) => Saved(k, on, out) = threads[k]
  BY DEF Saved
<1>17. \A k \in Live : Saved(k, on, out) \in Thread
  <2> SUFFICES ASSUME NEW k \in Live PROVE Saved(k, on, out) \in Thread
    OBVIOUS
  <2>1. CASE \E c \in Cores : on[c] = k
    <3>1. PICK c \in Cores : on[c] = k
      BY <2>1
    <3>2. c + 1 \in DOMAIN ready
      BY <1>6, <1>8, <3>1
    <3>3. k = ready[c + 1]
      BY <1>7, <3>1, <3>2
    <3> QED BY <1>15, <3>2, <3>3
  <2>2. CASE \A c \in Cores : on[c] # k
    BY <1>10, <1>16, <2>2
  <2> QED BY <2>1, <2>2
<1>18. threads' \in [Live -> Thread] /\ Live' = Live
  <2> HIDE DEF on
  <2> QED BY <1>3, <1>17 DEF Live
<1>19. runningOn' \in [Cores -> Live \cup {None}]
  BY <1>3, <1>9
<1>20. \A c \in Cores : c + 1 \in DOMAIN ready =>
         /\ runningOn'[c] = ready[c + 1]
         /\ cores'[c].user \in UserStep(threads[ready[c + 1]].context.user)
         /\ threads'[ready[c + 1]].state = "Running"
         /\ threads'[ready[c + 1]].context.user = cores'[c].user
  <2> SUFFICES ASSUME NEW c \in Cores, c + 1 \in DOMAIN ready
               PROVE  /\ runningOn'[c] = ready[c + 1]
                      /\ cores'[c].user \in UserStep(threads[ready[c + 1]].context.user)
                      /\ threads'[ready[c + 1]].state = "Running"
                      /\ threads'[ready[c + 1]].context.user = cores'[c].user
    OBVIOUS
  <2>1. ready[c + 1] \in Live
    BY <1>4
  <2>2. threads'[ready[c + 1]] = Saved(ready[c + 1], on, out)
    <3> HIDE DEF on
    <3> QED BY <1>3, <2>1
  <2> QED BY <1>3, <1>7, <1>14, <1>15, <2>2
<1>21. \A k \in Live : (\A c \in Cores : runningOn'[c] # k) => threads'[k] = threads[k]
  <2> HIDE DEF on
  <2> QED BY <1>3, <1>16
<1>22. \A c \in Cores : c + 1 \notin DOMAIN ready => runningOn'[c] = None
  BY <1>3, <1>8
<1> HIDE DEF on
<1> QED BY <1>0, <1>3, <1>4, <1>13, <1>18, <1>19, <1>20, <1>21, <1>22

\* A timeslice: the slots it fills hold distinct threads, and the slots it leaves
\* are beyond the number of runnable threads, hence were never filled.
LEMMA StepIInv ==
    ASSUME IInv, Step
    PROVE  IInv'
<1>1. PICK ready \in Listings(Live) :
        /\ runningOn' \in [Cores -> Live \cup {None}]
        /\ cores' \in [Cores -> RegFile]
        /\ threads' \in [Live -> Thread]
        /\ Live' = Live
        /\ UNCHANGED <<processes, nextPid, order, handleTable, nextHandle, namedPorts>>
        /\ \A c \in Cores : c + 1 \in DOMAIN ready =>
             /\ runningOn'[c] = ready[c + 1]
             /\ threads'[ready[c + 1]].state = "Running"
        /\ \A c \in Cores : c + 1 \notin DOMAIN ready => runningOn'[c] = None
  BY StepFacts
<1>2. /\ ready \in [1 .. Cardinality(Live) -> Live]
      /\ \A m, n \in DOMAIN ready : ready[m] = ready[n] => m = n
      /\ Cardinality(Live) \in Nat
  BY FS_CardinalityType DEF IInv, HandlesCounted, Listings, Injection, IsInjective
<1>3. Cores \subseteq Nat
  BY KernelAssumption DEF Cores
<1>4. TypeOK'
  BY <1>1 DEF IInv, TypeOK
<1>5. (IdsHandedOut /\ HandlesCounted /\ HandlesNameThreads)'
  BY <1>1 DEF IInv, IdsHandedOut, HandlesCounted, HandlesNameThreads, IsInjective
<1>6. SlotsReassigned'
  BY <1>1, <1>2, <1>3 DEF SlotsReassigned
<1>7. CoresExclusive'
  <2> SUFFICES ASSUME NEW c \in Cores, NEW d \in Cores,
                      runningOn'[c] # None, runningOn'[c] = runningOn'[d]
               PROVE  c = d
    BY DEF CoresExclusive
  <2>1. c + 1 \in DOMAIN ready /\ d + 1 \in DOMAIN ready
    BY <1>1
  <2>2. c + 1 = d + 1
    BY <1>1, <1>2, <2>1
  <2> QED BY <1>3, <2>2
<1>8. OnCoreIsRunning'
  BY <1>1, <1>2 DEF OnCoreIsRunning
<1> QED BY <1>4, <1>5, <1>6, <1>7, <1>8 DEF IInv

\* Every step of the kernel keeps the invariant.
LEMMA NextIInv == IInv /\ [Next]_vars => IInv'
<1> SUFFICES ASSUME IInv, [Next]_vars PROVE IInv'
  OBVIOUS
<1>1. CASE CreateProcess
  BY <1>1, CreateProcessIInv
<1>2. ASSUME NEW pid \in 1 .. MaxProcesses, NEW entry \in Entries, NEW stackTop \in StackTops,
             CreateMainThread(pid, entry, stackTop)
      PROVE  IInv'
  BY <1>2, CreateMainThreadIInv, KernelAssumption
<1>3. ASSUME NEW pid \in 1 .. MaxProcesses, NEW entry \in Entries, NEW stackTop \in StackTops,
             CreateThread(pid, entry, stackTop)
      PROVE  IInv'
  BY <1>3, CreateThreadIInv, KernelAssumption
<1>4. ASSUME NEW pid \in 1 .. MaxProcesses, NEW region \in Regions, MapProcessMemory(pid, region)
      PROVE  IInv'
  BY <1>4, MapProcessMemoryIInv
<1>5. ASSUME NEW name \in PortNames, NEW handle \in PortHandles, RegisterPort(name, handle)
      PROVE  IInv'
  BY <1>5, RegisterPortIInv
<1>6. CASE Step
  BY <1>6, StepIInv
<1>7. ASSUME NEW c \in Cores, NEW num \in SvcCalls, HandleSvc(c, num)
      PROVE  IInv'
  BY <1>7, HandleSvcIInv
<1>8. CASE UNCHANGED vars
  BY <1>8 DEF vars, objects, IInv, TypeOK, IdsHandedOut, HandlesCounted, HandlesNameThreads,
              SlotsReassigned, CoresExclusive, OnCoreIsRunning, Live, IsInjective
<1> QED BY <1>1, <1>2, <1>3, <1>4, <1>5, <1>6, <1>7, <1>8 DEF Next

\* The inductive invariant holds in every reachable state of the kernel.
THEOREM Invariance == Spec => []IInv
<1>1. Init => IInv
  BY InitIInv
<1>2. IInv /\ [Next]_vars => IInv'
  BY NextIInv
<1> QED BY <1>1, <1>2, PTL DEF Spec
-------------------------------------------------------------------------------
(* What the invariant gives *)

\* Every variable of the kernel keeps the shape the code gives it.
THEOREM TypeCorrect == Spec => []TypeOK
<1>1. IInv => TypeOK
  BY DEF IInv
<1> QED BY <1>1, Invariance, PTL

\* However processes and threads are created and threads scheduled, a thread
\* handle names a live thread and no two handles name the same one.
THEOREM HandlesAreSound == Spec => []HandlesNameThreads
<1>1. IInv => HandlesNameThreads
  BY DEF IInv
<1> QED BY <1>1, Invariance, PTL

\* Thread handles are no more than threads, so they stay below the first port handle
\* as long as the threads do.
LEMMA PortsApartHolds == IInv => PortsApart
<1> SUFFICES ASSUME IInv, Cardinality(Live) <= PortBase - HandleBase,
                    NEW name \in DOMAIN namedPorts
             PROVE  namedPorts[name] \notin DOMAIN handleTable
  BY DEF PortsApart, NoPortIsThread
<1>1. namedPorts[name] \in PortBase .. PortBase + PortSlots - 1
  BY DEF IInv, TypeOK, PortHandles
<1>2. DOMAIN handleTable = HandleBase .. nextHandle - 1 /\ nextHandle \in Nat
  BY DEF IInv, TypeOK
<1>3. nextHandle <= PortBase
  <2>1. Cardinality(Live) \in Nat
    BY FS_CardinalityType DEF IInv, HandlesCounted
  <2> QED BY <1>2, <2>1, KernelAssumption DEF IInv, HandlesCounted
<1> QED BY <1>1, <1>2, <1>3, KernelAssumption

\* Up to PortBase - HandleBase threads no port is registered under the number of a
\* thread handle and no thread gets the number of a port, in whatever order both are
\* handed out; nothing is assumed about how many threads there are.
THEOREM PortsStayApart == Spec => []PortsApart
BY PortsApartHolds, Invariance, PTL

\* No timeslice executes a thread on two cores, for any number of cores and any
\* order in which the hash maps are walked.
THEOREM NoThreadTwice == Spec => []CoresExclusive
<1>1. IInv => CoresExclusive
  BY DEF IInv
<1> QED BY <1>1, Invariance, PTL

\* What a core holds is always a live thread in the state Running.
THEOREM CoresHoldRunning == Spec => []OnCoreIsRunning
<1>1. IInv => OnCoreIsRunning
  BY DEF IInv
<1> QED BY <1>1, Invariance, PTL

\* A new thread takes no thread off its core and adds none that is Running.
LEMMA AddThreadOnCore ==
    ASSUME IInv, RunningIsOnCore, NEW pid \in DOMAIN processes,
           NEW entry \in Entries, NEW stackTop \in StackTops,
           AddThread(pid, entry, stackTop), UNCHANGED <<nextPid, runningOn>>
    PROVE  RunningIsOnCore'
<1> DEFINE new == <<pid, processes[pid].nextThreadId>>
<1>1. /\ Live' = Live \cup {new}
      /\ Cardinality(Live') = Cardinality(Live) + 1
      /\ threads'[new] = NewThread(entry, stackTop)
      /\ \A k \in Live : threads'[k] = threads[k]
  BY AddThreadFacts, KernelAssumption
<1>2. Cardinality(Live) \in Nat
  BY FS_CardinalityType DEF IInv, HandlesCounted
<1>3. Cardinality(Live') <= NCores => Cardinality(Live) <= NCores
  BY <1>1, <1>2, KernelAssumption
<1>4. threads'[new].state # "Running"
  BY <1>1 DEF NewThread
<1> QED BY <1>1, <1>3, <1>4 DEF RunningIsOnCore

\* A timeslice that has room for every thread puts every thread on a core:
\* the list it assigns from is onto.
LEMMA StepOnCore ==
    ASSUME IInv, Step
    PROVE  RunningIsOnCore'
<1>1. PICK ready \in Listings(Live) :
        /\ Live' = Live
        /\ \A c \in Cores : c + 1 \in DOMAIN ready => runningOn'[c] = ready[c + 1]
  BY StepFacts
<1>2. IsFiniteSet(Live) /\ Cardinality(Live) \in Nat
  BY FS_CardinalityType DEF IInv, HandlesCounted
<1>3. DOMAIN ready = 1 .. Cardinality(Live)
  BY DEF Listings, Injection
<1>4. ASSUME NEW k \in Live
      PROVE  \E n \in 1 .. Cardinality(Live) : ready[n] = k
  <2>1. Cardinality(1 .. Cardinality(Live)) = Cardinality(Live)
    BY <1>2, FS_Interval
  <2>2. ready \in Surjection(1 .. Cardinality(Live), Live)
    BY <1>2, <2>1, FS_Injection DEF Listings
  <2> QED BY <2>2 DEF Surjection
<1>5. SUFFICES ASSUME Cardinality(Live) <= NCores, NEW k \in Live
               PROVE  \E c \in Cores : runningOn'[c] = k
  BY <1>1 DEF RunningIsOnCore
<1>6. PICK n \in 1 .. Cardinality(Live) : ready[n] = k
  BY <1>4
<1>7. n - 1 \in Cores /\ (n - 1) + 1 \in DOMAIN ready
  BY <1>2, <1>3, <1>5, KernelAssumption DEF Cores
<1> QED BY <1>1, <1>2, <1>6, <1>7

\* Every step keeps the Running threads on cores while the threads fit.
LEMMA NextOnCore == IInv /\ RunningIsOnCore /\ [Next]_vars => RunningIsOnCore'
<1> SUFFICES ASSUME IInv, RunningIsOnCore, [Next]_vars PROVE RunningIsOnCore'
  OBVIOUS
<1>1. ASSUME NEW pid, NEW entry \in Entries, NEW stackTop \in StackTops,
             CreateMainThread(pid, entry, stackTop) \/ CreateThread(pid, entry, stackTop)
      PROVE  RunningIsOnCore'
  <2>1. /\ pid \in DOMAIN processes
        /\ AddThread(pid, entry, stackTop)
        /\ UNCHANGED <<nextPid, runningOn>>
    BY <1>1 DEF CreateMainThread, CreateThread
  <2> QED BY <2>1, AddThreadOnCore
<1>2. CASE Step
  BY <1>2, StepOnCore
<1>3. ASSUME UNCHANGED <<threads, runningOn>>
      PROVE  RunningIsOnCore'
  BY <1>3 DEF RunningIsOnCore, Live
<1> QED BY <1>1, <1>2, <1>3
        DEF Next, CreateProcess, MapProcessMemory, RegisterPort, HandleSvc, vars, objects

\* A thread that is Running executes on a core for as long as there are no more
\* threads than cores: nothing ever takes the state back (Kernel::step, line
\* 169), so the claim rests on the slice finding room for every thread.
THEOREM RunningHasCore == Spec => []RunningIsOnCore
<1>1. Init => RunningIsOnCore
  BY DEF Init, RunningIsOnCore, Live
<1>2. IInv /\ RunningIsOnCore /\ [Next]_vars => RunningIsOnCore'
  BY NextOnCore
<1> QED BY <1>1, <1>2, Invariance, PTL DEF Spec
-------------------------------------------------------------------------------
(* Which threads a timeslice runs *)

\* Two listings of the same elements in the same order are the same listing: the
\* first place where they differed would hold, in one of them, an element that the
\* other has later on.
LEMMA SameListing ==
    ASSUME NEW S, IsFiniteSet(S), NEW o \in Listings(S), NEW r \in Listings(S),
           \A m, n \in DOMAIN r : m < n => Precedes(o, r[m], r[n])
    PROVE  r = o
<1> DEFINE N == Cardinality(S)
           Agreed == {n \in 0 .. N : \A m \in 1 .. n : r[m] = o[m]}
<1>1. /\ N \in Nat /\ o \in [1 .. N -> S] /\ r \in [1 .. N -> S]
      /\ \A m, n \in 1 .. N : o[m] = o[n] => m = n
      /\ \A m, n \in 1 .. N : r[m] = r[n] => m = n
  BY FS_CardinalityType DEF Listings, Injection, IsInjective
<1>2. \A x \in S : (\E n \in 1 .. N : o[n] = x) /\ (\E n \in 1 .. N : r[n] = x)
  <2>1. Cardinality(1 .. N) = Cardinality(S)
    BY <1>1, FS_Interval
  <2>2. o \in Surjection(1 .. N, S) /\ r \in Surjection(1 .. N, S)
    BY <1>1, <2>1, FS_Injection DEF Listings
  <2> QED BY <2>2 DEF Surjection
<1> HIDE DEF N
<1>3. 0 \in Agreed
  BY <1>1
<1>4. ASSUME NEW n \in 0 .. N - 1, n \in Agreed PROVE n + 1 \in Agreed
  <2>1. n + 1 \in 1 .. N /\ \A m \in 1 .. n : r[m] = o[m]
    BY <1>1, <1>4
  <2>2. PICK p \in 1 .. N : r[p] = o[n + 1]
    BY <1>1, <1>2, <2>1
  <2>3. PICK q \in 1 .. N : o[q] = r[n + 1]
    BY <1>1, <1>2, <2>1
  <2>4. p > n
    BY <1>1, <2>1, <2>2
  <2>5. q > n
    BY <1>1, <2>1, <2>3
  <2>6. p = n + 1
    <3> SUFFICES ASSUME n + 1 < p PROVE FALSE
      BY <1>1, <2>1, <2>4
    <3>1. Precedes(o, r[n + 1], r[p])
      BY <1>1, <2>1
    <3>2. PICK i, j \in 1 .. N : i < j /\ o[i] = r[n + 1] /\ o[j] = r[p]
      BY <1>1, <3>1 DEF Precedes
    <3>3. i = q /\ j = n + 1
      BY <1>1, <2>1, <2>2, <2>3, <3>2
    <3> QED BY <1>1, <2>5, <3>2, <3>3
  <2>7. \A m \in 1 .. n + 1 : r[m] = o[m]
    BY <1>1, <2>1, <2>2, <2>6
  <2> QED BY <1>1, <2>1, <2>7
<1>5. 0 .. N \subseteq Agreed
  <2> HIDE DEF Agreed
  <2> QED BY <1>1, <1>3, <1>4, SetInductionUpTo
<1>6. \A m \in 1 .. N : r[m] = o[m]
  BY <1>1, <1>5
<1> QED BY <1>1, <1>6

\* The thread at the head of the iteration order that falls to core c.
HeadOfOrder(c) == IF c + 1 \in DOMAIN order THEN order[c + 1] ELSE None

\* Every thread is runnable, so the list a timeslice collects is the iteration order.
LEMMA StepRunsHead ==
    ASSUME IInv, Step
    PROVE  \A c \in Cores : runningOn'[c] = HeadOfOrder(c)
<1>1. PICK ready \in Listings(Live) :
        /\ \A m, n \in DOMAIN ready : m < n => Precedes(order, ready[m], ready[n])
        /\ \A c \in Cores : c + 1 \in DOMAIN ready => runningOn'[c] = ready[c + 1]
        /\ \A c \in Cores : c + 1 \notin DOMAIN ready => runningOn'[c] = None
  BY StepFacts
<1>2. order \in Listings(Live) /\ IsFiniteSet(Live)
  BY DEF IInv, TypeOK, HandlesCounted
<1>3. ready = order
  BY <1>1, <1>2, SameListing
<1> QED BY <1>1, <1>3 DEF HeadOfOrder

\* Which threads a timeslice runs depends on the order of the maps and on nothing
\* else: core c gets the thread at place c of it, the cores that are left over get
\* none.  "Round-robin" (kernel.rs:119) would need to remember whose turn it is.
THEOREM SliceRunsHead ==
    Spec => [][Step => \A c \in Cores : runningOn'[c] = HeadOfOrder(c)]_vars
<1>1. IInv /\ [Next]_vars => [Step => \A c \in Cores : runningOn'[c] = HeadOfOrder(c)]_vars
  BY StepRunsHead
<1> QED BY <1>1, Invariance, PTL DEF Spec

\* A thread is run by a timeslice if and only if fewer threads than cores come before
\* it in the order of the maps.  So every thread is run by every slice while they all
\* fit, and of the others none is run before a new process or thread changes the order
\* (Kernel::step).
THEOREM RunsIffNearHead ==
    Spec => [][Step => \A n \in DOMAIN order :
                   (\E c \in Cores : runningOn'[c] = order[n]) <=> n <= NCores]_vars
<1>1. ASSUME IInv, Step, NEW n \in DOMAIN order
      PROVE  (\E c \in Cores : runningOn'[c] = order[n]) <=> n <= NCores
  <2>1. \A c \in Cores : runningOn'[c] = HeadOfOrder(c)
    BY <1>1, StepRunsHead
  <2>2. /\ DOMAIN order \subseteq Nat \ {0}
        /\ \A m \in DOMAIN order : order[m] \in Nat \X Nat
        /\ \A l, m \in DOMAIN order : order[l] = order[m] => l = m
    <3>1. order \in Listings(Live) /\ Live \subseteq Nat \X Nat
      <4>1. DOMAIN processes \subseteq Nat
        BY <1>1 DEF IInv, TypeOK
      <4> QED BY <1>1, <4>1, IdsByThread DEF IInv, TypeOK, IdsHandedOut
    <3>2. Cardinality(Live) \in Nat
      BY <1>1, FS_CardinalityType DEF IInv, HandlesCounted
    <3> QED BY <3>1, <3>2 DEF Listings, Injection, IsInjective
  <2>3. order[n] # None /\ n - 1 \in Nat /\ (n - 1) + 1 = n
    BY <2>2, KernelAssumption
  <2>4. ASSUME NEW c \in Cores, runningOn'[c] = order[n] PROVE n <= NCores
    <3>1. c + 1 \in DOMAIN order /\ order[c + 1] = order[n]
      BY <2>1, <2>3, <2>4 DEF HeadOfOrder
    <3>2. c + 1 = n
      BY <2>2, <3>1
    <3> QED BY <2>3, <3>2, KernelAssumption DEF Cores
  <2>5. ASSUME n <= NCores PROVE \E c \in Cores : runningOn'[c] = order[n]
    <3>1. n - 1 \in Cores
      BY <2>3, <2>5, KernelAssumption DEF Cores
    <3>2. runningOn'[n - 1] = order[n]
      BY <2>1, <2>3, <3>1 DEF HeadOfOrder
    <3> QED BY <3>1, <3>2
  <2> QED BY <2>4, <2>5
<1>2. IInv /\ [Next]_vars =>
        [Step => \A n \in DOMAIN order :
            (\E c \in Cores : runningOn'[c] = order[n]) <=> n <= NCores]_vars
  BY <1>1
<1> QED BY <1>2, Invariance, PTL DEF Spec
-------------------------------------------------------------------------------
(* Refinement *)

\* The ids of the live threads are within the bounds of the abstract machine.
LEMMA IdsBounded ==
    ASSUME IInv, NEW pid \in DOMAIN processes
    PROVE  LET tid == processes[pid].nextThreadId
           IN tid \in Nat \ {0} /\ tid - 1 <= Cardinality(Live)
<1> DEFINE tid == processes[pid].nextThreadId
           mine == [t \in 1 .. tid - 1 |-> <<pid, t>>]
           ids == {<<pid, t>> : t \in 1 .. tid - 1}
<1>1. tid \in Nat \ {0} /\ pid \in Nat
  BY DEF IInv, TypeOK
<1>2. ids \subseteq Live
  BY <1>1 DEF IInv, IdsHandedOut
<1>3. Cardinality(ids) = tid - 1
  <2>1. mine \in Bijection(1 .. tid - 1, ids)
    BY DEF Bijection, Injection, Surjection, IsInjective
  <2>2. ExistsBijection(1 .. tid - 1, ids)
    BY <2>1 DEF ExistsBijection
  <2> HIDE DEF ids, mine
  <2> QED BY <1>1, <2>2, FS_CountingElements
<1>4. Cardinality(ids) <= Cardinality(Live)
  BY <1>2, FS_Subset DEF IInv, HandlesCounted
<1> HIDE DEF ids
<1> QED BY <1>1, <1>3, <1>4

\* Creating a thread is a Spawn of the abstract machine.
LEMMA AddThreadSpawns ==
    ASSUME IInv, NEW pid \in DOMAIN processes,
           NEW entry \in Entries, NEW stackTop \in StackTops,
           AddThread(pid, entry, stackTop), UNCHANGED nextPid
    PROVE  Machine!Next
<1> DEFINE new == <<pid, processes[pid].nextThreadId>>
           mapped == [k \in Live |-> threads[k].context.user]
<1>1. /\ new \notin Live
      /\ Live' = Live \cup {new}
      /\ Cardinality(Live') = Cardinality(Live) + 1
      /\ Cardinality(Live') <= MaxThreads
      /\ threads'[new] = NewThread(entry, stackTop)
      /\ \A k \in Live : threads'[k] = threads[k]
  BY AddThreadFacts, KernelAssumption
<1>2. new \in (1 .. MaxProcesses) \X (1 .. MaxThreads)
  <2>1. pid \in 1 .. MaxProcesses
    BY KernelAssumption, SMTT(30) DEF IInv, TypeOK
  <2>2. /\ processes[pid].nextThreadId \in Nat \ {0}
        /\ processes[pid].nextThreadId - 1 <= Cardinality(Live)
    BY IdsBounded
  <2>3. Cardinality(Live) \in Nat
    BY FS_CardinalityType DEF IInv, HandlesCounted
  <2> QED BY <1>1, <2>1, <2>2, <2>3, KernelAssumption
<1>3. mapped' = [j \in Live \cup {new} |->
                   IF j = new
                   THEN [pc |-> entry, sp |-> stackTop, x |-> [r \in XRegs |-> ZERO]]
                   ELSE mapped[j]]
  BY <1>1 DEF NewThread
<1>4. DOMAIN mapped = Live
  OBVIOUS
<1>5. Machine!Spawn(new, entry, stackTop)
  <2> HIDE DEF new
  <2> QED BY <1>1, <1>3, <1>4 DEF Machine!Spawn, Machine!Live, XRegs, Machine!XRegs
<1> QED BY <1>2, <1>5 DEF Machine!Next

\* A timeslice of the kernel is a timeslice of the abstract machine: the threads
\* it advances are the first of the ready list, one for each core.
LEMMA StepSlices ==
    ASSUME IInv, Step
    PROVE  Machine!Next
<1> DEFINE mapped == [k \in Live |-> threads[k].context.user]
<1>1. PICK ready \in Listings(Live) :
        /\ runningOn' \in [Cores -> Live \cup {None}]
        /\ Live' = Live
        /\ \A c \in Cores : c + 1 \in DOMAIN ready =>
             /\ runningOn'[c] = ready[c + 1]
             /\ cores'[c].user \in UserStep(threads[ready[c + 1]].context.user)
             /\ threads'[ready[c + 1]].context.user = cores'[c].user
        /\ \A c \in Cores : c + 1 \notin DOMAIN ready => runningOn'[c] = None
        /\ \A k \in Live : (\A c \in Cores : runningOn'[c] # k) => threads'[k] = threads[k]
  BY StepFacts
<1>2. /\ ready \in [1 .. Cardinality(Live) -> Live]
      /\ \A m, n \in DOMAIN ready : ready[m] = ready[n] => m = n
      /\ Cardinality(Live) \in Nat
  BY FS_CardinalityType DEF IInv, HandlesCounted, Listings, Injection, IsInjective
<1> DEFINE size == IF NCores <= Cardinality(Live) THEN NCores ELSE Cardinality(Live)
           chosen == [n \in 1 .. size |-> ready[n]]
<1>3. size \in Nat /\ size <= NCores /\ size <= Cardinality(Live)
      /\ (size = NCores \/ size = Cardinality(Live))
  BY <1>2, KernelAssumption
<1>4. chosen \in Injection(1 .. size, Live)
  <2> HIDE DEF size
  <2>1. \A n \in 1 .. size : n \in DOMAIN ready
    BY <1>2, <1>3
  <2> QED BY <1>2, <2>1 DEF Injection, IsInjective
<1>5. DOMAIN mapped = Live /\ DOMAIN mapped' = Live
  BY <1>1
<1>6. chosen \in Machine!Slices
  <2>1. chosen \in Machine!Injection(1 .. size, Live)
    BY <1>4 DEF Injection, IsInjective, Machine!Injection, Machine!IsInjective
  <2>2. DOMAIN chosen = 1 .. NCores \/ Machine!Range(chosen) = Live
    <3>1. CASE size = NCores
      BY <3>1
    <3>2. CASE size = Cardinality(Live)
      <4>1. chosen \in Bijection(1 .. size, Range(chosen)) /\ Range(chosen) \subseteq Live
        <5> HIDE DEF size, chosen
        <5> QED BY <1>4 DEF Bijection, Injection, Surjection, IsInjective, Range
      <4>2. Cardinality(Range(chosen)) = size
        <5> HIDE DEF size, chosen
        <5>1. ExistsBijection(1 .. size, Range(chosen))
          BY <4>1 DEF ExistsBijection
        <5> QED BY <1>3, <5>1, FS_CountingElements
      <4>3. Range(chosen) = Live
        <5> HIDE DEF size, chosen
        <5> QED BY <3>2, <4>1, <4>2, FS_Subset DEF IInv, HandlesCounted
      <4> QED BY <4>3 DEF Range, Machine!Range
    <3> QED BY <1>3, <3>1, <3>2
  <2>3. size \in 0 .. NCores
    BY <1>3, KernelAssumption
  <2> HIDE DEF size, chosen
  <2> QED BY <1>5, <2>1, <2>2, <2>3 DEF Machine!Slices, Machine!Live
<1>7. ASSUME NEW k \in Live, k \in Range(chosen)
      PROVE  mapped'[k] \in UserStep(mapped[k])
  <2>1. PICK n \in 1 .. size : k = ready[n]
    BY <1>7 DEF Range
  <2>2. n - 1 \in Cores /\ (n - 1) + 1 \in DOMAIN ready /\ (n - 1) + 1 = n
    <3> HIDE DEF size
    <3> QED BY <1>2, <1>3, KernelAssumption DEF Cores
  <2>3. threads'[k].context.user \in UserStep(threads[k].context.user)
    BY <1>1, <2>1, <2>2
  <2> QED BY <1>1, <2>3
<1>8. ASSUME NEW k \in Live, k \notin Range(chosen)
      PROVE  mapped'[k] = mapped[k]
  <2>1. ASSUME NEW c \in Cores, runningOn'[c] = k PROVE FALSE
    <3>1. k # None
      <4>1. Live \subseteq Nat \X Nat
        BY IdsByThread, SMTT(30) DEF IInv, IdsHandedOut, TypeOK
      <4> QED BY <4>1, KernelAssumption
    <3>2. c + 1 \in DOMAIN ready /\ k = ready[c + 1]
      BY <1>1, <2>1, <3>1
    <3>3. c + 1 \in 1 .. size
      <4> HIDE DEF size
      <4> QED BY <1>2, <1>3, <3>2, KernelAssumption, SMTT(30) DEF Cores
    <3>4. k \in Range(chosen)
      <4> HIDE DEF size
      <4> QED BY <3>2, <3>3 DEF Range
    <3> QED BY <1>8, <3>4
  <2>2. threads'[k] = threads[k]
    BY <1>1, <2>1
  <2> QED BY <1>1, <2>2
<1>9. PICK choice \in Machine!Slices : choice = chosen
  <2> HIDE DEF chosen
  <2> QED BY <1>6
<1>10. Machine!Slice(choice)
  <2>1. Machine!Range(choice) = Range(chosen)
    BY <1>9 DEF Range, Machine!Range
  <2>2. \A u : Machine!UserStep(u) = UserStep(u)
    BY DEF UserStep, Machine!UserStep, XRegs, Machine!XRegs
  <2> HIDE DEF chosen
  <2>3. DOMAIN mapped' = Machine!Live /\ Machine!Live = Live
    BY <1>5 DEF Machine!Live
  <2>4. ASSUME NEW k \in Live
        PROVE  IF k \in Machine!Range(choice) THEN mapped'[k] \in Machine!UserStep(mapped[k])
                                               ELSE mapped'[k] = mapped[k]
    <3> HIDE DEF mapped
    <3> QED BY <1>7, <1>8, <2>1, <2>2
  <2> QED BY <2>3, <2>4 DEF Machine!Slice
<1>11. Machine!TimeSlice
  BY <1>10 DEF Machine!TimeSlice
<1> QED BY <1>11 DEF Machine!Next

\* The kernel implements the abstract machine: through the saved contexts one
\* sees distinct threads advance, as many as there are cores or all of them,
\* each by one instruction from its own registers, whatever supervisor calls
\* are made and however the order of the hash maps changes.
THEOREM Refinement == Spec => ImplementsMachine
<1> DEFINE mapped == [k \in Live |-> threads[k].context.user]
<1>1. Init => Machine!Init
  <2> SUFFICES ASSUME Init PROVE mapped = [k \in {} |-> ZERO]
    BY DEF Machine!Init
  <2>1. Live = {}
    BY DEF Init, Live
  <2> QED BY <2>1
<1>2. IInv /\ [Next]_vars => [Machine!Next]_mapped
  <2> SUFFICES ASSUME IInv, [Next]_vars PROVE Machine!Next \/ mapped' = mapped
    OBVIOUS
  <2>1. ASSUME NEW pid \in 1 .. MaxProcesses, NEW entry \in Entries, NEW stackTop \in StackTops,
               CreateMainThread(pid, entry, stackTop) \/ CreateThread(pid, entry, stackTop)
        PROVE  Machine!Next
    BY <2>1, AddThreadSpawns DEF CreateMainThread, CreateThread
  <2>2. CASE Step
    BY <2>2, StepSlices
  <2>3. ASSUME UNCHANGED threads PROVE mapped' = mapped
    BY <2>3 DEF Live
  <2>4. CASE CreateProcess
    BY <2>3, <2>4 DEF CreateProcess
  <2>5. ASSUME NEW pid \in 1 .. MaxProcesses, NEW region \in Regions, MapProcessMemory(pid, region)
        PROVE  mapped' = mapped
    BY <2>3, <2>5 DEF MapProcessMemory
  <2>6. ASSUME NEW name \in PortNames, NEW handle \in PortHandles, RegisterPort(name, handle)
        PROVE  mapped' = mapped
    BY <2>3, <2>6 DEF RegisterPort
  <2>7. ASSUME NEW c \in Cores, NEW num \in SvcCalls, HandleSvc(c, num)
        PROVE  mapped' = mapped
    BY <2>3, <2>7 DEF HandleSvc, objects
  <2>8. CASE UNCHANGED vars
    BY <2>3, <2>8 DEF vars, objects
  <2> HIDE DEF mapped
  <2> QED BY <2>1, <2>2, <2>4, <2>5, <2>6, <2>7, <2>8 DEF Next
<1> QED BY <1>1, <1>2, Invariance, PTL DEF Spec, ImplementsMachine, Machine!Spec

===============================================================================
