---------------------------------- MODULE Boot ----------------------------------
(***************************************************************************)
(* boot and load_kernel_image (sys/boot.rs), a step for each call they     *)
(* make into the storage (Nand), the kernel and its memory (Kernel,        *)
(* CodeLoader) and the services (HostServices).                            *)
(*                                                                         *)
(* Addresses and registers are numbers here.  The instructions of the one  *)
(* timeslice leave the memory alone in the model: nothing reads it before  *)
(* the kernel is dropped.                                                  *)
(***************************************************************************)
EXTENDS Kernel, CodeLoader, HostServices

\* The address map: 0x8_0000, 4 MiB, 1 MiB, 0x100_0000 and 8 MiB in the code.
CONSTANTS KERNEL_BASE, KERNEL_CODE_SIZE, STACK_SIZE, QLAUNCH_BASE, QLAUNCH_CODE_SIZE

CONSTANTS
    CorePorts,   \* names of the 30 ports, in the order they are registered
    NoFile,      \* no package2 file is named
    MAGIC,       \* the header begins with PK21
    HeaderSize,  \* 0x200
    MaxPackage   \* 64 MiB

\* Constants of Nand.
CONSTANTS BlockSize, TotalBlocks, WordMod, OverflowChecks, Byte, ImageSizes, Words, Buffers,
          GptReserved, BackupGpt, ProdInfoBlocks, ProdInfoFBlocks, SafeBlocks, SystemBlocks

CONSTANT Disks   \* images found on the host

\* The device has all five partitions, and a header and the largest package fit into
\* SYSTEM (4 GiB in the code).
ASSUME BootAssumption ==
    /\ {KERNEL_BASE, QLAUNCH_BASE} \subseteq Nat
    /\ KERNEL_BASE % 4 = 0 /\ QLAUNCH_BASE % 4 = 0
    /\ {0, 32, 212} \subseteq Byte /\ Byte \subseteq Nat
    /\ {BlockSize, TotalBlocks, WordMod} \subseteq Nat \ {0}
    /\ BlockSize * TotalBlocks <= WordMod \div 2
    /\ {GptReserved, ProdInfoBlocks, ProdInfoFBlocks, SafeBlocks, SystemBlocks} \subseteq Nat
    /\ GptReserved + ProdInfoBlocks + ProdInfoFBlocks + SafeBlocks + SystemBlocks <= TotalBlocks
    /\ HeaderSize \in Nat /\ HeaderSize >= 2 /\ MaxPackage \in Nat
    /\ HeaderSize + MaxPackage <= SystemBlocks * BlockSize
    /\ Disks \subseteq Seq(Byte)

VARIABLES
    exists, image, mode, wp, request, reply,   \* of Nand
    bootPc,      \* the next call of boot
    package2,    \* the file of the configuration, or NoFile
    code,        \* kernel_code, once it is there
    services,    \* services that were started
    bootResult,  \* phase of the BootResult
    failed       \* history: a call into the host failed in this boot

main == "main"     \* the Nand of boot, which its result holds
probe == "probe"   \* the one load_kernel_image opens on the same file
Handles == {main, probe}

Host == INSTANCE Nand WITH Parts <- {"System"}

disk == <<exists, image, mode, wp, request, reply>>
progress == <<bootPc, package2, code, services, bootResult, failed>>
memory == <<mem, loaded>>
boot == <<vars, memory, disk, progress>>

stub_kernel == <<32, 0, 32, 212>>   \* BRK #1

KERNEL_STACK_TOP == KERNEL_BASE + KERNEL_CODE_SIZE + STACK_SIZE
QLAUNCH_STACK_TOP == QLAUNCH_BASE + QLAUNCH_CODE_SIZE + STACK_SIZE

Region(base, size, perm) == [base |-> base, size |-> size, perm |-> perm]

TextOf(base, size) == Region(base, size, "RX")

\* Mutant: the region ends where the stack should begin.
StackBelow(top) == Region(top - 2 * STACK_SIZE, STACK_SIZE, "RW")

StackUnder(top) == Region(top - STACK_SIZE, STACK_SIZE, "RW")

\* The kernel and its stack lie below the home menu, every address is one, the ports
\* have names of their own, with a handle for each, and the two threads of boot have
\* handles below those of the ports (0x1000 and 0x1001, 0x2000 onwards).
ASSUME AddressAssumption ==
    /\ {KERNEL_CODE_SIZE, QLAUNCH_CODE_SIZE} \subseteq Nat \ {0} /\ STACK_SIZE \in Nat
    /\ KERNEL_STACK_TOP <= QLAUNCH_BASE
    /\ {KERNEL_BASE, KERNEL_STACK_TOP, QLAUNCH_BASE, QLAUNCH_STACK_TOP} \subseteq Word
    /\ {TextOf(KERNEL_BASE, KERNEL_CODE_SIZE), StackUnder(KERNEL_STACK_TOP),
        TextOf(QLAUNCH_BASE, QLAUNCH_CODE_SIZE), StackUnder(QLAUNCH_STACK_TOP)} \subseteq Regions
    /\ CorePorts \in Seq(PortNames) /\ IsInjective(CorePorts) /\ Len(CorePorts) <= PortSlots
    /\ HandleBase + 2 <= PortBase

\* boot is at the call pc, and next will be the one after it.
At(pc, next) == bootPc = pc /\ bootPc' = next
---------------------------------------------------------------------------------
(* Phases 1 and 2: the NAND and the kernel image *)

\* Nand::open on handle h, with what follows when it succeeds and when it does not;
\* it may fail before the host was asked for anything.
Opening(h, success, failure) ==
    \/ /\ Host!Open(h)
       /\ IF mode'[h] = "rw" THEN success ELSE failure
    \/ /\ mode[h] = "closed" /\ UNCHANGED disk
       /\ failure

OpenNand ==
    /\ bootPc = "nand"
    /\ Opening(main,
               bootPc' = "image" /\ UNCHANGED <<bootResult, failed>>,
               bootPc' = "done" /\ bootResult' = "Failed" /\ failed' = TRUE)
    /\ UNCHANGED <<vars, memory, package2, code, services>>

\* load_kernel_image gave an error: the stub stands in.
UseStub == code' = stub_kernel

ReadPackageFile ==
    /\ At("image", "new")
    /\ package2 # NoFile
    /\ \/ code' = package2 /\ UNCHANGED failed
       \/ UseStub /\ failed' = TRUE
    /\ UNCHANGED <<vars, memory, disk, package2, services, bootResult>>

\* The image is there: main is open on it.
OpenProbe ==
    /\ bootPc = "image"
    /\ package2 = NoFile
    /\ Opening(probe,
               bootPc' = "header" /\ UNCHANGED <<code, failed>>,
               bootPc' = "new" /\ UseStub /\ failed' = TRUE)
    /\ UNCHANGED <<vars, memory, package2, services, bootResult>>

\* The magic is the first byte here and the size the second one.
HasPackage(header) == header[1] = MAGIC /\ header[2] > 0 /\ header[2] < MaxPackage

ReadHeader ==
    /\ bootPc = "header"
    /\ Host!ReadPartition(probe, "System", 0, HeaderSize)
    /\ \/ /\ reply'.status = "ok" /\ HasPackage(reply'.data)
          /\ bootPc' = "package" /\ UNCHANGED <<code, failed>>
       \/ /\ reply'.status = "ok" /\ ~HasPackage(reply'.data)
          /\ bootPc' = "drop" /\ UseStub /\ UNCHANGED failed
       \/ /\ reply'.status # "ok"
          /\ bootPc' = "drop" /\ UseStub /\ failed' = TRUE
    /\ UNCHANGED <<vars, memory, package2, services, bootResult>>

\* Mutant: the package is read with its header.
PackageOffsetZero == 0

PackageOffset == HeaderSize

ReadPackage ==
    /\ At("package", "drop")
    /\ Host!ReadPartition(probe, "System", PackageOffset, reply.data[2])
    /\ \/ reply'.status = "ok" /\ code' = reply'.data /\ UNCHANGED failed
       \/ reply'.status # "ok" /\ UseStub /\ failed' = TRUE
    /\ UNCHANGED <<vars, memory, package2, services, bootResult>>

\* The second Nand goes out of scope.
DropProbe ==
    /\ At("drop", "new")
    /\ Host!Close(probe)
    /\ UNCHANGED <<vars, memory, package2, code, services, bootResult, failed>>
---------------------------------------------------------------------------------
(* Phases 3 and 4: the kernel, the services, the home menu *)

NewCore == [user   |-> [pc |-> ZERO, sp |-> CoreStack, x |-> [r \in XRegs |-> ZERO]],
            system |-> SYSTEM_ZERO]

\* Between two boots the kernel has the values of a new one.
NoKernel ==
    /\ processes' = [p \in {} |-> NewProcess] /\ nextPid' = 1
    /\ threads' = [k \in {} |-> NewThread(ZERO, ZERO)]
    /\ order' = [n \in {} |-> None]
    /\ handleTable' = [h \in {} |-> None] /\ nextHandle' = HandleBase
    /\ namedPorts' = [n \in {} |-> PortBase]
    /\ runningOn' = [c \in Cores |-> None]
    /\ cores' = [c \in Cores |-> NewCore]
    /\ mem' = Blank /\ loaded' = 0

\* Kernel::new makes the cores and the memory.
NewKernel ==
    /\ At("new", "load")
    /\ UNCHANGED <<vars, memory, disk, package2, code, services, bootResult, failed>>

\* A core that cannot be made is a panic.  It unwinds boot, which closes its Nand.
PanicInNew ==
    /\ At("new", "off")
    /\ Host!Close(main)
    /\ package2' = NoFile /\ code' = <<>> /\ failed' = FALSE
    /\ UNCHANGED <<vars, memory, services, bootResult>>

\* load_code at base, one chunk or the return.
Loading(pc, next, base, bytes) ==
    \/ At(pc, pc) /\ LoadChunk(base, bytes)
    \/ At(pc, next) /\ loaded = Len(bytes) /\ loaded' = 0 /\ UNCHANGED mem

LoadKernel ==
    /\ Loading("load", "create", KERNEL_BASE, code)
    /\ UNCHANGED <<vars, disk, package2, code, services, bootResult, failed>>

LoadQlaunch ==
    /\ Loading("qload", "qthread", QLAUNCH_BASE, stub_kernel)
    /\ UNCHANGED <<vars, disk, package2, code, services, bootResult, failed>>

\* The pid of the process created last: kpid, then qpid.
Pid == nextPid - 1

\* The calls into the kernel, in order.
KernelCall ==
    \/ At("create", "text") /\ CreateProcess
    \/ At("text", "stack") /\ MapProcessMemory(Pid, TextOf(KERNEL_BASE, KERNEL_CODE_SIZE))
    \/ At("stack", "thread") /\ MapProcessMemory(Pid, StackUnder(KERNEL_STACK_TOP))
    \/ At("thread", "services") /\ CreateMainThread(Pid, KERNEL_BASE, KERNEL_STACK_TOP)
    \/ At("qcreate", "qtext") /\ CreateProcess
    \/ At("qtext", "qstack") /\ MapProcessMemory(Pid, TextOf(QLAUNCH_BASE, QLAUNCH_CODE_SIZE))
    \/ At("qstack", "qload") /\ MapProcessMemory(Pid, StackUnder(QLAUNCH_STACK_TOP))
    \/ At("qthread", "step") /\ CreateMainThread(Pid, QLAUNCH_BASE, QLAUNCH_STACK_TOP)
    \/ At("step", "return") /\ Step

CallKernel ==
    /\ KernelCall
    /\ UNCHANGED <<memory, disk, package2, code, services, bootResult, failed>>

\* The value State::new makes holds an uninitialised VkState, which is dropped here:
\* boot goes on, or the program is killed (by Quit, as at any other moment).
StartServices ==
    /\ At("services", "ports")
    /\ services' = start_host_services
    /\ UNCHANGED <<vars, memory, disk, package2, code, bootResult, failed>>

PortHandle(i) == PortBase + i - 1

RegisterNextPort ==
    LET i == Cardinality(DOMAIN namedPorts) + 1
    IN /\ i \in DOMAIN CorePorts
       /\ At("ports", IF i = Len(CorePorts) THEN "qcreate" ELSE "ports")
       /\ RegisterPort(CorePorts[i], PortHandle(i))
       /\ UNCHANGED <<memory, disk, package2, code, services, bootResult, failed>>

\* Mutant: the phase is not set at the end.
PhaseStale == "ServiceInit"

PhaseAtEnd == "Running"

\* Mutant: the Nand does not go into the result.
ReturnWithoutNand ==
    /\ At("return", "done")
    /\ NoKernel
    /\ Host!Close(main)
    /\ bootResult' = PhaseAtEnd
    /\ UNCHANGED <<package2, code, services, failed>>

\* The kernel goes out of scope; the result keeps the Nand.
Return ==
    /\ At("return", "done")
    /\ NoKernel
    /\ bootResult' = PhaseAtEnd
    /\ UNCHANGED <<disk, package2, code, services, failed>>
---------------------------------------------------------------------------------
(* Its caller *)

\* The thread of boot has ended; its result waits in the handle.
ThreadReturns ==
    /\ At("done", "off")
    /\ package2' = NoFile /\ code' = <<>> /\ services' = {} /\ failed' = FALSE
    /\ UNCHANGED <<vars, memory, disk, bootResult>>

\* Mutant: the Nand of the result is kept.
TakeResultKeepsNand ==
    /\ bootResult' = "none"
    /\ UNCHANGED <<vars, memory, disk, code, services>>

\* The caller takes the result, and its Nand is dropped.
TakeResult ==
    /\ bootResult' = "none"
    /\ \/ Host!Close(main)
       \/ mode[main] = "closed" /\ UNCHANGED disk
    /\ UNCHANGED <<vars, memory, code, services>>

\* It calls boot with the configuration that names file.
Call(file) ==
    /\ At("off", "nand")
    /\ package2' = file
    /\ failed' = FALSE

\* The program ends; the host closes its files.
Ended ==
    /\ NoKernel
    /\ mode' = [h \in Handles |-> "closed"] /\ wp' = [h \in Handles |-> FALSE]
    /\ request' = Host!Idle /\ reply' = [status |-> "ok", data |-> <<>>]
    /\ bootPc' = "off" /\ package2' = NoFile /\ code' = <<>> /\ services' = {}
    /\ bootResult' = "none" /\ failed' = FALSE
    /\ UNCHANGED <<exists, image>>

BootStep ==
    \/ OpenNand \/ ReadPackageFile \/ OpenProbe \/ ReadHeader \/ ReadPackage \/ DropProbe
    \/ NewKernel \/ LoadKernel \/ CallKernel \/ StartServices \/ RegisterNextPort
    \/ LoadQlaunch \/ Return

BootInit ==
    /\ Init
    /\ mem = Blank /\ loaded = 0
    /\ \/ exists = FALSE /\ image = <<>>
       \/ exists = TRUE /\ image \in Disks
    /\ mode = [h \in Handles |-> "closed"] /\ wp = [h \in Handles |-> FALSE]
    /\ request = Host!Idle /\ reply = [status |-> "ok", data |-> <<>>]
    /\ bootPc = "off" /\ package2 = NoFile /\ code = <<>> /\ services = {}
    /\ bootResult = "none" /\ failed = FALSE
---------------------------------------------------------------------------------
(* Properties *)

BeforeKernel == {"off", "nand", "image", "header", "package", "drop"}

\* The image to run is the file that was named, or the package in the SYSTEM
\* partition; the stub stands in for it only when there is no package, or when a call
\* into the host failed (boot.rs:117 swallows the error).  By then the second handle
\* on the NAND is closed.
SystemBytes == (GptReserved + ProdInfoBlocks + ProdInfoFBlocks + SafeBlocks) * BlockSize

ImageToRun ==
    IF package2 # NoFile THEN package2
    ELSE IF HasPackage(SubSeq(image, SystemBytes + 1, SystemBytes + HeaderSize))
         THEN SubSeq(image, SystemBytes + HeaderSize + 1,
                     SystemBytes + HeaderSize + image[SystemBytes + 2])
         ELSE stub_kernel

LoadsWhatIsThere ==
    bootPc \notin BeforeKernel \cup {"done"} =>
        /\ code = IF failed THEN stub_kernel ELSE ImageToRun
        /\ mode[probe] = "closed"

\* Memory before the timeslice: the kernel image as far as there is memory, the stub
\* of the home menu over it, and 0 everywhere else.  load_code goes by words and
\* merges the bytes of the last one into what it reads back; a word outside the
\* memory is neither read nor written and nobody is told (kernel.rs:204).
MemoryIsLaidOut ==
    bootPc = "step" =>
        mem = WithCode(WithCode(Blank, KERNEL_BASE, code), QLAUNCH_BASE, stub_kernel)

\* The system before the timeslice: one thread for each process, Ready, with an entry
\* in a region of its process that may be executed and a stack that fills one that may
\* be written; regions apart, of one process and of both (map_memory does not look);
\* every port registered, with a handle of its own; every service started and counted.
Encloses(region, a) == region.base <= a /\ a < region.base + region.size
Apart(r, s) == r.base + r.size <= s.base \/ s.base + s.size <= r.base

SystemIsUp ==
    bootPc = "step" =>
        /\ \A p \in DOMAIN processes :
             \E k \in Live : k[1] = p /\ threads[k].state = "Ready"
        /\ \A k \in Live :
             LET user == threads[k].context.user
                 regions == Range(processes[k[1]].memoryMap)
             IN /\ \E r \in regions : r.perm = "RX" /\ Encloses(r, user.pc)
                /\ \E r \in regions : r.perm = "RW" /\ r.base + r.size = user.sp
        /\ \A p, q \in DOMAIN processes :
             \A i \in DOMAIN processes[p].memoryMap, j \in DOMAIN processes[q].memoryMap :
                <<p, i>> # <<q, j>> =>
                    Apart(processes[p].memoryMap[i], processes[q].memoryMap[j])
        /\ DOMAIN namedPorts = Range(CorePorts) /\ IsInjective(namedPorts) /\ NoPortIsThread
        /\ services = Services /\ count_services(services) = Cardinality(Services)

\* Boot never changes a byte of the NAND image, whatever fails: it may create it and
\* extend it, and no more.
ImageKept == [][\A i \in DOMAIN image : i \in DOMAIN image' /\ image'[i] = image[i]]_image
=================================================================================
