--------------------------------- MODULE Svc ---------------------------------
(***************************************************************************)
(* svc::dispatch: the supervisor calls, as stubs on a register file.  The  *)
(* call is a function of its number and of x0, x1 only; every stub returns *)
(* SUCCESS and none of them reaches the kernel's own state.                *)
(***************************************************************************)
EXTENDS Registers

CONSTANTS
    HEAP_BASE,     \* 0x0800_0000, the base SetHeapSize reports
    FAKE_THREAD,   \* 0xDEAD_0001, the handle CreateThread reports
    FAKE_SESSION,  \* 0xC0DE_0001, the handle ConnectToNamedPort reports
    PRIORITY,      \* 44, the priority GetThreadPriority reports
    ONE,           \* the pid and the tid every caller is told
    Ticks          \* readings of the host clock GetSystemTick may see

ASSUME SvcAssumption ==
    {HEAP_BASE, FAKE_THREAD, FAKE_SESSION, PRIORITY, ONE} \cup Ticks \subseteq Word

SvcSetHeapSize               == 1
SvcCreateThread              == 8
SvcGetThreadPriority         == 12
SvcGetCurrentProcessorNumber == 16
SvcWaitSynchronization       == 24
SvcGetSystemTick             == 30
SvcConnectToNamedPort        == 31
SvcGetProcessId              == 36
SvcGetThreadId               == 37
SvcGetInfo                   == 41
SvcCallSecureMonitor         == 127

\* The numbers SvcId::from_u8 maps to a call.
Listed == (1 .. 31) \cup (33 .. 41)
            \cup {44, 45, 50, 51, 64, 65, 67, 69, 70, 75, 76, SvcCallSecureMonitor}

\* result::SUCCESS, widened to the register x0
SUCCESS == ZERO

\* What a stub leaves in x1.
StubX1(num, x1) ==
    CASE num = SvcSetHeapSize                  -> HEAP_BASE
      [] num = SvcCreateThread                 -> FAKE_THREAD
      [] num = SvcGetThreadPriority            -> PRIORITY
      [] num = SvcWaitSynchronization          -> ZERO
      [] num = SvcConnectToNamedPort           -> FAKE_SESSION
      [] num \in {SvcGetProcessId, SvcGetThreadId} -> ONE
      [] num = SvcGetInfo                      -> ZERO
      [] OTHER                              -> x1

\* What a stub can leave in x0, before the caller of dispatch stores the result.
StubX0(num, x0) ==
    CASE num = SvcGetCurrentProcessorNumber -> {ZERO}
      [] num = SvcGetSystemTick             -> Ticks
      [] OTHER                           -> {x0}

\* The result code of every call: implemented, listed but stubbed, or unknown.
Result(num) == SUCCESS

\* The register files dispatch can produce from x.
Dispatch(num, x) ==
    {[x EXCEPT ![0] = w, ![1] = StubX1(num, x[1])] : w \in StubX0(num, x[0])}
==============================================================================
