# TLA+ models of oboromi

oboromi is an emulator of an ARMv8 game console: an interpreter core (Unicorn,
one instance per emulated CPU), a high-level-emulation (HLE) kernel, stubs of the
system services, an emulated storage device, a boot sequence, a desktop GUI, and
the beginnings of a shader translator.  This directory models the parts of it that
carry state, checks them with TLC on small instances, and proves the central
properties with TLAPS for every value of the constants.

Source paths below are relative to `src/core/src/` unless they start with `gui/`
or `scripts/`.

There are five models, each with its runs and its theorems.  `Induction` belongs to none of
them: it holds the general lemmas the proofs share.

| Model | Modules | Code | Section |
|---|---|---|---|
| Kernel | `Registers`, `Svc`, `ThreadMachine`, `Kernel`, `KernelHistory`, `KernelProofs` | `sys/kernel.rs`, `sys/process.rs`, `sys/svc.rs` | 2 |
| Storage | `PartitionStore`, `Storage`, `MCStorage`, `PartitionLayout`, `Nand`, `MCNand`, `StorageProofs`, `NandProofs` | `fs/storage.rs`, `fs/partition.rs`, `fs/mod.rs` | 3 |
| Shader | `Spirv`, `Sm86Table`, `Sm86`, `SpirvReader`, `Shader`, `MCSm86`, `SpirvProofs`, `Sm86Proofs` | `gpu/spirv.rs`, `gpu/sm86.rs`, `gpu/sm86_decoder_generated.rs` | 4 |
| Desktop | `Gui`, `CodeLoader`, `HostServices`, `Boot`, `TestRunner`, `Desktop`, `MCDesktop`, `DesktopProofs` | `gui/src/gui/gui.rs`, `sys/boot.rs`, `sys/mod.rs`, `nn/mod.rs`, `tests/run.rs`, and the kernel and the storage it is composed with | 5 |
| Keys | `KeySet`, `Nca`, `MCNca`, `NcaProofs` | `fs/keys.rs`, `fs/nca.rs` | 6 |

## 1. Inventory

| Component | Source | State it keeps | Operations |
|---|---|---|---|
| HLE kernel | `sys/kernel.rs`, `sys/process.rs` | process map (pid to process: thread map, memory map, next thread id), handle table, port table, `running_on` per core | `create_process`, `create_main_thread`, `create_thread`, `map_process_memory`, `register_port`, `connect_to_port`, `step`, `handle_svc`, `load_code` |
| Supervisor calls | `sys/svc.rs` | none | `dispatch` on a copy of x0..x30 |
| Boot | `sys/boot.rs`, `sys/mod.rs` | log, phase, the `Nand` it hands out; the kernel it builds is dropped | `boot`, `load_kernel_image` |
| Emulated storage | `fs/storage.rs` | host file, write-protect flag per handle | `open`, `open_read_only`, block and byte reads and writes, `set_write_protected`, `flush` |
| Partition table, Nand | `fs/partition.rs`, `fs/mod.rs` | five fixed partitions | `read_partition`, `write_partition`, lookups |
| CPU core, CPU manager | `cpu/*.rs` | one Unicorn engine behind a mutex per core, 12 GiB shared by all | `run`, `step`, `halt`, register and memory access, `run_all` |
| Test runner | `tests/run.rs` | timeouts, log | `run_test`, `run_tests`, `warmup_jit` |
| GUI | `gui/src/gui/gui.rs` | two background threads, boot phase, log | one `update` per frame |
| HLE services | `nn/mod.rs` | about 160 empty structs | `start_host_services`, `count_services`; what a service would serve is `todo!()` |
| SPIR-V emitter | `gpu/spirv.rs` | one list of words, the id counter, the place of the bound | `emit_header`, `alloc_id`, about 200 emit methods, `finalize`, `validate` |
| SM86 decoder | `gpu/sm86*.rs` | ids of types and of register variables | `init`, `translate` (a table of 1271 rows), `al2p`, `kill`, `nop`, `load_reg`, `store_reg`; 199 handlers end in `todo!()` |
| Vulkan state | `gpu/mod.rs` | Vulkan handles | calls into the loader |
| Keys, NCA | `fs/keys.rs`, `fs/nca.rs` | header key, four tables of keys; none between two calls on an NCA | parse, open, decrypt, read; not compiled yet (`fs/mod.rs` does not declare them) |

How they interact.  The GUI starts `boot` and the CPU tests on threads of their own
and polls them once a frame.  `boot` opens a `Nand`, looks for a kernel image
(through a second `Nand` on the same file), builds a `Kernel`, creates two processes
with a main thread each, registers 30 named ports, and calls `Kernel::step` once.
`step` moves registers between the threads and the cores and executes an
instruction on each; `handle_svc` runs a supervisor call on the registers of a core.
All cores see one memory.

What is hard here.  The scheduler goes by the iteration order of two nested hash
maps, which is unspecified and may change when a key is inserted; its slots
(`running_on`) are overwritten and never cleared; registers live in two places, the
thread and the core.  Storage fails half way, is open more than once, and computes
with 64-bit sums that panic or wrap according to the build.  Boot has early returns
and swallowed errors, and opens the NAND twice.  The GUI races its threads.  The decoder
remembers plain numbers that the emitter draws from one counter.  Per component, correctness means:

* Kernel: ids and handles stay unambiguous; a thread is on one core at most; a slice
  advances distinct threads, each from its own registers; every thread runs.
* Supervisor calls: results reach the caller; unknown calls fail.
* Storage and Nand: a write changes the bytes it names and no others, all of them or
  (on a host failure) a prefix; partitions do not overlap; protection holds.
* Boot: the phase reported matches what happened, the right image is loaded where it
  belongs, files are closed on every path, the NAND image keeps its bytes.
* Test runner: encoders, programs and checks agree.
* GUI: no thread without a handle; the status line shows the state of the job; a job that
  was started is collected.
* Emitter and decoder: ids are unique, defined before use and below the bound in the
  header; what is emitted reads back as what was asked for and computes what the guest
  instructions compute.
* Keys and NCA: a table entry is the one the file gives; what a maker encrypts comes out.

## 2. The kernel

### Modules

* `Registers` is a register file and what one instruction may do to it.  The
  instruction set is Unicorn's, so an instruction is a nondeterministic choice:
  nothing, or a write to pc, sp, x0 or x1, and any change of the flags.  The file has
  two parts because `step` treats them differently: `user` (pc, sp, x0..x30, loaded and
  saved) and `system` (PSTATE, TPIDR_EL0, neither).  x2..x30 are left out: no
  supervisor call writes them and every loop treats the 31 registers alike.
* `Svc` is `svc::dispatch`: for each number what it leaves in x0 and x1, and the
  result code.
* `Kernel` is `Kernel` and `Process`: one action for each operation that changes state.
* `ThreadMachine` is the abstract specification: threads with a register state each, and
  timeslices that advance distinct threads, as many as there are cores or all of them.
  It has no cores, slots, states or handles.
* `KernelHistory` adds a history variable to `Kernel`: the registers each thread last saw,
  through its own instructions and its supervisor calls.  It restricts nothing.
* `KernelProofs` holds the theorems.

### State and actions

| `Kernel.tla` | Code |
|---|---|
| `processes`, `nextPid` | `Kernel::processes`, `next_pid`; a process keeps `next_thread_id` and `memory_map` |
| `threads` | the thread maps of all processes in one function on (pid, tid) |
| `order` | the order in which the nested loops of `step` meet the threads |
| `handleTable`, `nextHandle`, `namedPorts`, `runningOn` | the fields of the same name |
| `cores` | the registers of `CpuManager::cores` |
| `CreateProcess` ... `RegisterPort` | the methods of the same name |
| `Step` | `Kernel::step` as a whole: collect (`ReadyLists`), assign and load (`Assigned`, `Loaded`), execute (`Outcomes`), save (`Saved`) |
| `HandleSvc` | `Kernel::handle_svc` with `svc::dispatch` in it |

`Kernel` is used through `&mut self` by one thread at a time, so each method is one
atomic action.  The iteration order of a `HashMap` is unspecified; it is stable while
the map is unchanged, and an insertion may permute the map it happens in: a new process
may permute the processes, a new thread the threads of its own process
(`OrdersAfterNewProcess`, `OrdersAfterNewThread`).  Names, code ranges, priorities and
thread names are left out: nothing reads them.  Guest memory is left out of this module:
scheduling does not depend on it.

### Runs

| Run | Configuration | Shows |
|---|---|---|
| `kernel_objects` | `KernelObjects.cfg` | `TypeOK`, `HandlesNameThreads`, `PortsApart`, `CoresExclusive`, `RunningIsOnCore` under every interleaving of all operations |
| `kernel_slices` | `KernelSlices.cfg` | `ImplementsMachine`, with instructions that write registers; the inductive invariant `IInv` |
| `kernel_fair` | `KernelFair.cfg` | `EveryThreadRuns` while threads fit on the cores |
| `kernel_starves` | `KernelStarves.cfg` | violation: one thread more than cores starves |
| `svc_result_lost` | `SvcResultLost.cfg` | violation: the next slice overwrites what a call wrote |
| `flags_leak` | `FlagsLeak.cfg` | violation: flags stay on the core |

Bounds.  Two cores stand for eight and three threads for nine or more: with three
threads on two cores there are waiting threads, displaced threads and changes of order,
and with two threads there are idle cores; more of either adds no new relation between a
slot and the list it is filled from.  Two processes give the two levels of iteration.
`MaxProcesses`, `MaxThreads` and `MaxRegions` bound the counters.  The port base is two above the
handle base (4096 in the code), so that three threads reach it and the run passes the number of
threads up to which `PortsApart` keeps the handles apart.
Words are model values.  `CHECK_DEADLOCK FALSE` everywhere: once the bounds are reached
and no timeslice changes anything, the system may idle.

Fairness.  `FairSpec` assumes weak fairness of `Step` and nothing else: the host is
expected to keep calling `step`, which is always possible.  Thread creation is not fair.

### What the code does that its comments do not say

1. *No rotation* (`kernel_starves`).  `step` always takes the first eight threads of
   the iteration order.  "Round-robin" (`kernel.rs:119`) it is not.
2. *Running on no core*.  `process.rs:9` calls `ThreadState` the "current execution
   state"; nothing takes a thread out of Running, so with more threads than cores a thread
   that loses its place after a change of the map's order stays Running.  `RunningIsOnCore`
   therefore says what holds while the threads fit (`kernel_objects`).
3. *Supervisor results are lost* (`svc_result_lost`).  `handle_svc` writes to the core,
   the next `step` loads `thread.context`, which was saved before the call.
4. *Flags and TLS pointer travel with the core* (`flags_leak`).
5. *GetSystemTick returns no tick* (read off `Dispatch`).  x0 receives the tick, then the
   result code.
6. *Unknown calls succeed* (`Result` in `Svc.tla`), where `svc.rs:34` promises an error.
7. *The handles of the 4097th thread and of the first port are the same number*.  `alloc_handle`
   counts up from 0x1000, `boot.rs:174` numbers the ports from 0x2000, and neither looks at what
   the other has given away.  `PortsApart` therefore has the number of threads as its
   precondition: nothing in the code bounds it.

### Proofs

`KernelProofs` proves, for any number of cores, processes, threads, words and
supervisor calls, under the named assumptions on the constants (`WordAssumption`,
`SvcAssumption`, `KernelAssumption`):

* `TypeCorrect`, `HandlesAreSound`, `PortsStayApart`, `NoThreadTwice`,
  `CoresHoldRunning`: the invariants of `kernel_objects`, and that a core holds a live thread in the state Running (`OnCoreIsRunning`);
* `RunningHasCore`: `RunningIsOnCore`, the converse while the threads fit on the cores;
* `Refinement`: `Spec => Machine!Spec`.

The argument.  `CoresExclusive` is not inductive: a slice fills only as many slots as
there are runnable threads, and a slot beyond keeps what it had, which might be a thread
that now sits on another core.  It is saved by `SlotsReassigned`: an occupied slot is
always among the first *n*, where *n* is the number of threads, because a thread that has
been created is runnable for ever and threads are never removed, so the next slice
reassigns every occupied slot.  (The day a thread can end, this breaks, and with it
`CoresExclusive`.)  Handles rest on `IdsHandedOut` (a process never gives an id twice) and
on `HandlesCounted` (no more handles than threads, hence `PortsStayApart`: as long as the threads
are no more than the numbers between the two bases, so are the handles).  `IInv` conjoins these; `NextIInv` has one step per action.  The refinement
maps a timeslice to the slice of the threads that were loaded, in the order of the cores;
creating a thread to `Spawn`; everything else to a stutter.

`RunningIsOnCore` is inductive as it stands, given the rest: threads that fit now have always
fitted, for their number never falls, and then a slice assigns every thread, because the list it
assigns from goes over all of them.

Which threads a slice runs is known exactly.  The list it collects keeps the order of the maps,
and as every thread is runnable it is that order (`SameListing`, by induction over the places;
`StepRunsHead`).  `SliceRunsHead`: core *c* gets the thread at place *c*, whatever happened
before.  `RunsIffNearHead`: a thread is run by a slice if and only if fewer threads than cores
come before it.  That is `kernel_starves` for every number of cores and threads, and the safety
half of `EveryThreadRuns`: while the threads fit, each slice runs all of them.

Only model-checked: `EveryThreadRuns` itself, which adds that slices keep coming; that is weak
fairness of `Step`, and `ENABLED` and liveness are beyond the prover.

## 3. Storage, partitions, Nand

### Modules

* `PartitionStore` is the abstract specification: areas that are arrays of bytes of their
  own, read and written by requests that name a range of one area.  A write puts all its
  bytes, a prefix (and reports an error) or none; a read returns what the range holds; a
  request is called invalid exactly when its range or its buffer is.
* `Storage` is `EmulatedStorage` with any number of handles open on one host file.
* `PartitionLayout` is `default_partition_table`.
* `Nand` extends `Storage` by `PartitionTable::read_partition` and `write_partition`, with
  the default table, as `fs::Nand` composes them.
* `MCStorage` and `MCNand` give the buffers and the view for TLC.
* `StorageProofs` and `NandProofs` hold the theorems, `NandProofs` those of the layout too.

### State and actions

| `Storage.tla`, `Nand.tla` | Code |
|---|---|
| `exists`, `image` | the image on the host and its bytes |
| `mode[h]`, `wp[h]` | how handle `h` was opened, and `write_protected`; `closed` once dropped |
| `request`, `reply` | the last call and its `io::Result`; a panic is a reply of its own |
| `Open`, `OpenReadOnly`, `SetWriteProtected`, `ReadBlock` ... `WriteBytes` | the methods of the same name |
| `BytesVerdict`, `BlocksVerdict` | the chain of checks of the byte and of the block calls, in the order of the code |
| `HostRead`, `HostWrite` | `seek` with `read_exact` or `write_all` |
| `default_partition_table`, `block_count` | the functions of the same name, an entry being its first and last block |
| `ReadPartition`, `WritePartition` | `Nand::read`, `Nand::write` |

A handle is used through `&mut self`, and seek and transfer of one call use a file
position no other handle shares, so a call is one action.  The host is external: any call
may fail; a failing `write_all` may have written any prefix; a write past the end extends
the file; an offset beyond the signed range of the word is refused (`SeekLimit`); a file
opened without write permission takes no bytes.  `open` that fails after creating the file
leaves it short.  `capacity` and `block_size` of a handle never change and are constants;
`path` is left out.

Arithmetic keeps its width: words are below `WordMod`, and every sum and product either
panics or wraps, by `OverflowChecks`.  The repository's manifests set no profile, so a debug
build panics and a release build wraps, and both are modelled.  A panic happens before any
I/O and leaves the file as it was.

### Runs

| Run | Configuration | Shows |
|---|---|---|
| `storage_checked` | `StorageChecked.cfg`, with overflow checks | `TypeOK`, `ImplementsStore` |
| `storage_wrapping` | `StorageWrapping.cfg`, wrapping, two handles | `OpenIsFull`, `Contained`, `ProtectionHolds` |
| `nand_checked` | `NandChecked.cfg`, with overflow checks, two handles | `ImplementsPartitions` |

Bounds.  Blocks of two bytes tell a byte offset from a block index; three or eight blocks
make room for ranges inside, across and past the end; a word of 16 to 64 values with
the capacity below half of it has the same relations as 2^64 to 32 GiB.  `Words` holds the
boundaries: 0, the capacity, the limit on seeks, and the last words before the wrap.
Buffers are empty, shorter than a block, a block, and longer.  One and two handles are
enough, as calls do not overlap.

`request` and `reply` describe the last step only and no action reads them, so TLC is given
the view of the file and the handles alone.  TLC evaluates action properties on every step it
generates, also on those to a view it knows, so `ImplementsStore`, `Contained` and the
others are checked for all of them; of `TypeOK` the two conjuncts on `reply` are checked on
the steps that reach a new view only, and are proved.

### What the code does that its comments do not say

1. *USER starts at block 1069090* (`UserStart` with the values of the code), not at 1069058
   as the table in `partition.rs:81` says: the table lost 32 blocks between SYSTEM and USER.
2. *A wrapped sum leaves the partition*.  For an offset near 2^64
   `offset + len` wraps and passes the check of `partition.rs:208`; the sum with the start of
   the partition wraps as well and lands in a partition before it.  In a build with
   overflow checks the first sum panics.  On the device itself this cannot happen
   (`Contained`): there the unwrapped offset reaches the host, which refuses it.

### Proofs

For every block size, capacity, word, set of handles and set of buffers, under
`StorageAssumption` (the capacity and the buffers are within reach of a seek),
`LayoutAssumption` and `NandAssumption` (the device leaves USER a block):

* `StorageTypeCorrect`, `OpenHandlesAreFull`, `DeviceContains`, `ProtectionIsKept`: in both
  kinds of build;
* `StorageImplementsStore`, `NandImplementsPartitions`: with overflow checks (without them
  the second is false, see above);
* `LayoutTiles`: the partitions are inside the usable blocks, apart from each other, and
  leave none out.

The argument.  `TypeOK` and `OpenIsFull` together are inductive (`SInv`): an open handle
has a full file behind it, so a range inside the capacity is inside the file, and a write
there keeps its length (`OverlayInside`).  Every read or write is `Harmless`, which gives
`Contained` and `ProtectionHolds` at once.  The hard case is a block call that wraps
(`BlocksInside`): the count in bytes, the start in bytes and the last block may each have
wrapped, but the range in bytes that is left and the multiple of the block size it was
checked by differ by a multiple of `WordMod`; both are below `WordMod`, by the limits on
seeks and on buffers, so the multiple is 0.  With overflow checks nothing wraps
(`CheckedVerdicts`), a call is valid exactly when it passes (`ReadsImplement`,
`WritesImplement`), and opening a short file only adds zeros that were counted as such
(`HousekeepingStutters`).  For a Nand the tiling, scaled to bytes (`PartitionRanges`), makes a
range inside one partition a range of the device that meets no other (`AreasWritten`).

## 4. The shader translator

### Modules

* `Spirv` is `Emitter`: a record of words, next id and place of the bound, and operators
  that take an emitter and return the next.  The methods that emit an instruction differ in
  opcode, form (no result, a result, a result with a type), number of operands and tail (a
  text, a list), and are described by these: `Methods` has one entry for each.  `Asserted` has
  the `debug_assert!`s of four of them.
* `Sm86Table` is the generated chain of `else if`s as runs of rows with one handler, and the
  names of the handlers that end in `todo!()`.
* `Sm86` is `Decoder` on an emitter: `InitDecoder`, `Translate` with `Al2p`, `Kill`, `Nop`,
  `Unwritten` and `NoRow`, and the calls their owner may make on the emitter itself.
* `SpirvReader` is the other side: a reader that knows the grammar of SPIR-V and nothing of
  the emitter, and runs the few instructions the decoder writes.
* `Shader` has the properties that compare the two sides.
* `MCSm86` is the instance.
* `SpirvProofs` holds the lemmas about the emitter, the reader and runs of a program,
  `Sm86Proofs` the invariant and the theorems.

### State and actions

| `Sm86.tla` | Code |
|---|---|
| `em` | the `Emitter` |
| `ready`, `u32`, `ptr`, `regs` | `Decoder` after `init`: `type_u32[1]`, `type_ptr_u32`, the register variables |
| `panicked` | an assertion, `todo!()` or an index out of bounds ended the translation |
| `finalizedAt` | history: how many words there were at the last `finalize` |
| `reserved`, `asked`, `returned`, `guest` | history: ids taken, methods called, instructions translated, and what these mean to the guest |
| `early`, `renewed` | history: `translate` was called before `init`, `init` was called again |
| `headers`, `translated`, `calls` | counters, for the bounds |
| `Start`, `Take`, `Build`, `Seal` | `emit_header`, `alloc_id`, any emit method, `finalize` |
| `InitDecoder`, `Translate` | `init`, `translate` |

The words `init` emits are written as functions of the next id, one per loop.  An instruction
is the mnemonic it was assembled from, its key (the thirteen bits all rows compare) and the
fields of AL2P.  `guest` gives it the meaning of its mnemonic, whichever handler the table
picks: so a row that shadows another would show.  Nothing in the repository makes a
`Decoder`; its fields are taken to start as 0.

The order of calls is left open, as it is in the code: `translate` before `init` works with ids
that are 0, a second `init` declares everything again and moves the registers to new variables,
`finalize` may come at any time and more than once, and `emit_header` anywhere.  Properties that
need an order say so (`UsedAsDocumented`, `~early`, `~renewed`).  `DebugAssertions` says which
build it is: with them a call whose assertion fails ends the program before it takes an id, as in
the run; without them any operands are written.  The proofs cover both.

### Run

`shader` (`MCSm86`, `Shader.cfg`) offers an instruction of every row to the first
translation, and nine afterwards; every emit method with texts of three, four and five bytes
and with lists on both sides of the limit of a word count (16 here, 2^16 in the code), and, for the
four that assert something of them, operands at and beyond the edge; two
registers, with the numbers of R254 and RZ.  Four calls in a row, of which an emit method of the environment's own, `alloc_id` and a
`translate` before `init` count twice and `finalize` does not count, make every pair of layers
interleave: the counter of ids and
the list of words are all they share.  These are 72 thousand states.

`RegistersApart` and `WordsStay` are about the emitter's own bookkeeping, the others about what
the reader sees; `ComputesGuest` runs the emitted program.  `FinalizedBelowBound` compares the
bound in the header with the ids a reader finds, at any moment after a `finalize`: those of the
instructions that were there lie below it, those emitted since do not, and a second `finalize` takes
them in.  `HeaderDecidesValidate` says how much `validate` tells: the header came first, or it did
not; nothing about what follows it.  `CHECK_DEADLOCK FALSE`: a translation that panicked is over.

### What the code does that its comments do not say

1. *Predicates are ignored*.  `al2p` and `kill` read the predicate and drop it, so
   `ComputesGuest` leaves out runs with a predicate that is false.
2. *Vector types have the component type 0*.  The loop at `sm86.rs:225` goes over copies of
   the arrays, before they are filled, and keeps none of the ids (`DefinedBeforeUse` names
   the exception).
3. *R254 passes the assertion of `al2p`* and then panics in `load_reg`; a bad destination is
   noticed after three instructions were emitted.
4. *`finalize` does not end anything*: what is emitted afterwards lies above the bound
   (`FinalizedBelowBound` says exactly what does).  "Call after all emission is done" is a duty of
   the caller.
5. *A text with a zero byte is cut off for its reader*, and what follows the text is found in
   the wrong place: `encode_string` ends a text with zeros and checks for none inside
   (`ReadsBack` leaves such texts out; the instruction that holds one is still whole).
6. *The magic number is also the number of an id.*  Without a header `finalize` writes the
   next id over the first word; after 119734786 ids that would be the magic number, and
   `validate` would take the module for one with a header (`HeaderDecidesValidate` names the limit).
7. *Without a header `finalize` overwrites the header word of the first instruction*, since
   `bound_idx` is 0 until `emit_header` sets it.  `WordsStay` allows this one word.
8. *The order of sections is not validated*.  `spirv.rs:4-15` calls it mandatory; neither the emit
   methods nor `validate` look for it, and `validate` accepts any order of sections behind the
   header, a module that ends half way through a translation, and one with no `OpMemoryModel`.
   `init` itself is free to come before a capability.

### Proofs

`Sm86Proofs` proves for every number of registers, word-count limit and input:
`EmitterTyped` (`TypeOK`), `RegistersNeverShared` (`RegistersApart`)
and `WordsNeverRewritten` (`WordsStay`).  All rest on one relation, `Grows`:
emitting appends words, never lowers the next id and leaves the place of the bound alone.
Each emit method grows the module (`CallGrows`, from `MethodsDescribed`), so does `init`
(`InitGrows`), so every step is quiet, an emission, a header or a finalize (`StepShape`).
`IInv` is `TypeOK` and `RegistersApart`: the registers' ids are below the next id for ever
because it never falls.

What a reader makes of the words is proved as well, for all inputs that satisfy the
assumptions: `ValidateSeesHeader` (`HeaderDecidesValidate`), `BoundCoversFinalized`
(`FinalizedBelowBound`), `EverythingReadsBack` (`ReadsBack`),
`IdsOnce` (`IdsDefinedOnce`), `DefinedFirst` (`DefinedBeforeUse`) and `GuestComputed`
(`ComputesGuest`).  `validate`, the reader and a run of a program are defined by recursion;
`Induction` and `Backwards` show that these recursions have a solution, so that they can be
unfolded (`ValidateWalks`, `ReaderReads`, `RunRuns`), and then one lemma carries the rest.
`OneMore`: the reader of a module with a whole instruction appended finds what it found
before and that instruction, and `validate` accepts what it accepted.  Nothing else needs to
go through the words.

The six properties are not inductive: none says where in the module the next instruction
begins, or which id the decoder may use.  The invariant is `SInv`, which is `IInv` with

* `Shape`: what the history says of the module whether or not the header came first.  The
  types of `asked`, `reserved` and `guest`; where the bound is; that a module without a header
  does not begin with the magic number; and that the decoder's ids, `u32` and the registers',
  are results of instructions (`RegistersTaken`), which is what lets `al2p` use them;
* `WellRead`: if the emitter is used as documented, the words are `Fine` (`validate` accepts
  them, and the ids below the next are the results of one instruction each, but for those
  taken), and each call so far is `Found`;
* `WellDecoded`: if only the decoder emits, set up before it translates, the ids are defined
  before they are used, and, unless it was set up again, a run of the program agrees with the
  guest in every register (`Agrees`);
* `Bounded`: the ids below the bound are those of the instructions before `finalizedAt`.  It
  is kept by every call that only appends (`BoundStays`), because the instructions lie end to
  end behind the header (`Laid`, a part of `Fine`), so that a new one lies after every place there
  was (`LaterPlaces`), and its id is none of the old ones.

Each call keeps each part (`StartShaped`, `TakeReads`, `BuildReads`, ... in `Sm86Proofs`).
For an emit method: its opcode has its result and its text where the grammar has them
(`MethodsRegular`, method by method), and a text read from its bytes is the text that was
written (`TextReads`).  For `init`: all its words are declarations that define consecutive
ids and do nothing when run (`InitAdds`).  For `al2p`: its four or five instructions put the
sum of ra and the offset into the variable of rd (`Al2pGives`) and, if the bounds of rd stop
it, have stored nothing (`SumIsReady`); the variable of rd is that of no other register.

The table itself is gone through by the prover.  `RowsTidy` says of each of its seventeen
parts that every row is tidy (`TidyRow`): one of `al2p`, `kill` and `nop` with the one key that
instruction has, or one of a handler that is `todo!()` with none of these three keys.  Two tidy
rows that share a key are then of the same written handler or both unwritten (`RowsAgree`), so
it does not matter which of them comes first, and `EachToItsOwn` follows: the 26 mnemonics
whose rows are shadowed by those of another one all end in a panic, and no row stands in the
way of the three handlers that exist.  `GuestComputed` rests on it (`RightHandler`), and so
does `NothingSkipped` (`NoneSkipped`): the translations that return are those of the three
instructions, and of words no row matches, which `translate` ignores.

Assumed, besides the sizes: texts are bytes (`InputAssumption`), and an instruction offered is
one the table knows, or no instruction and then no row matches it (`OfferedAssumption`).

## 5. The desktop program

### Modules

* `Gui` is `update` with the two join handles.  What the threads do is left open: they start,
  end and panic.  It serves as the specification of the whole program.
* `Boot` is `boot` and `load_kernel_image`, a step for each call they make.  It extends
  `Kernel` (its calls into the kernel are that module's actions, the timeslice included) and
  has an instance of `Nand` (`Host`) with the handles `main` and `probe`.
* `CodeLoader` is `load_code`, one chunk of four bytes, or one of the last three bytes, a step.
* `HostServices` holds the three lists that have to agree: fields, entries, counted fields.
* `TestRunner` is `run_tests`: encoders, programs, set-ups, checks and verdicts, on an
  interpreter of the seven instructions used, which is external (Unicorn).
* `Desktop` composes them: the boot thread goes through `Boot`, the test thread through
  `TestRunner`, a frame collects.
* `MCDesktop` is the instance.

### State and actions

| `Desktop.tla` and what it extends | Code |
|---|---|
| `splash`, `testThread`, `bootThread`, `bootPhase`, `logs` | the fields of `GUI`; a thread's state with its handle |
| `repaint` | a frame was requested from egui |
| `bootPc`, `package2`, `code`, `services`, `bootResult` | where `boot` is, and its locals and result |
| `mem`, `loaded` | the memory all cores share; how far `load_code` is |
| the variables of `Kernel` and `Nand` | as in sections 2 and 3 |
| `DrawFrame`, `DrawSplash` | `update`, the whole frame; clicks are a subset of the two buttons |
| `RunBoot` | one call of `boot`: `OpenNand`, `ReadPackageFile`, `OpenProbe`, `ReadHeader`, `ReadPackage`, `DropProbe`, `NewKernel`, `LoadKernel`, `CallKernel`, `StartServices`, `RegisterNextPort`, `LoadQlaunch`, `Return` |
| `ReturnFromBoot`, `ExitBoot`, `PanicInBoot` | the closure of the boot thread after `boot`, its end, a core that cannot be made |
| `BeginTests`, `EndTests` | the closure of the test thread |
| `GoDown`, `Start`, `Pass` | the program ends (in any state, or by a panic in a frame), is started again, the splash screen times out |

A frame is one action: it runs on the main thread and takes a handle, looks at the other,
computes `busy` and handles the clicks without a step of the threads that it could notice
in between (a thread that ends during a frame looks to it as if it ended after it).  The
program may be ended at any moment, in the middle of a boot as well: the next start finds the
NAND image as it was left.

What is drawn, the text of the log, fonts and textures are left out.  `State::init_nand` and
`boot_with_nand` have no caller.

### Run

`desktop` (`MCDesktop`, `Desktop.cfg`).  A memory of 24 bytes with a code region, a stack
and the home menu of four bytes each stands for the address map; the offsets have the order
of those in the code.  Images of 7, 14 and 23 bytes end inside a word, run over the stack into
the home menu, and leave the memory; an image of 0 bytes is none.  Disks of 32 bytes with
SYSTEM in bytes 16 to 23: none, an empty file, one that ends inside the package, no magic, no
size, a size with and without a rest after it, one that is too large.  Two ports stand for 30: one
would not show an order.  At most one test of a run is late or gets no core (`MaxUnlucky`).
The GUI itself boots with the default configuration, which names no file; the others are
those `boot` accepts from other callers.  `CHECK_DEADLOCK FALSE`: an idle window with nobody
clicking may stay as it is.

| Property | What would break it |
|---|---|
| `NoneDetached` | a handle taken and not put back, or stored over: `busy` computed at the wrong moment |
| `PhaseTellsBoot`, `ResultHoldsNand` | a phase set too early, or a result that says Running without a NAND |
| `NandIsClosed` | a path out of boot, or out of the program, that leaves a file open |
| `LoadsWhatIsThere` | a wrong offset or a swallowed error that makes the stub run where a package was read |
| `MemoryIsLaidOut` | the merge of trailing bytes, an unmapped word |
| `SystemIsUp` | regions of the map that overlap, a port or service forgotten, a thread without a stack |
| `TestsAreRight` | an encoder, a program and a check that do not belong together |
| `ImageKept` | a boot that writes to the NAND |
| `JobsEnd` | a job that is never collected because no frame comes after its end |

Fairness (`DesktopFairness`).  A frame that was requested is drawn: that is egui's contract for
`request_repaint` and animations, and nothing is assumed of frames nobody requested.  Time
passes (`Pass`).  The threads run, which the host's scheduler provides; each call into the
host returns.  Nobody has to click, to quit or to start the program.  `JobsEnd` is not obvious
under these: the boot thread asks for a frame before it has finished, and that frame may be
drawn too early to collect it; what saves it is the spinner, which asks for another.

### What the code does that its comments do not say

1. *An image that is larger than its region is loaded over the stack and the home menu*, and
   `load_code` reports the bytes it could not write as written (`MemoryIsLaidOut` states it).
2. *The RET test passes or fails by what Unicorn calls an error*: its program runs on into
   memory that was never written, and a failure counts as success when its name has EXCEPTION
   in it.
3. *A test is never timed out while it runs*: the time is looked at after `run` returned.
   `EndTests` has `AllStop` as its guard, and the programs do stop.
4. *`State::new` makes a `VkState` of uninitialised memory and drops it* during boot: the
   outcomes are that boot goes on or that the process ends, which `Quit` allows anywhere.

### Proofs

`DesktopProofs`, for every address map, memory size, device, disk, header and package size,
list of ports and number of cores, under the named assumptions of the modules:

* `DesktopRefinesGui`: `DesktopSpec => GuiSpec`, so the threads' insides never disturb what
  the GUI shows; with it `DesktopKeepsHandles` and `DesktopShowsBoot`;
* `NandGetsClosed`, `RunningHoldsNand`, `KernelIsTheRightOne`, `MemoryGetsLaidOut`;
* `SystemComesUp`: at the end of a boot the kernel has the processes, threads, regions, ports
  and services of `SystemIsUp`;
* `TestsReportRight`: a test passes exactly if its program did what it is there for (`TestsAreRight`);
* `DesktopTypeCorrect`, and `ImageIsKept`.

The argument.  The invariant is `DInv`, call after call: `Wired` ties `bootPc`, the state of the
boot thread and its result together; `Opened` says which of the two handles is open at each
call and that an open one has the whole device behind it (without the length, reading the
header could come back short); `Chosen` says what boot knows of the image between two calls
(after the header was read, the reply is the header of the image on the disk, which is why the
size it goes on with is the right one); `Laid` says what memory holds, with `Partly` during a
load: the first `loaded` bytes are there, and bytes are handled one by one only when less than a
word is left.  `ChunkKeeps` is the step of that loop, with the alignment argument.
`GuiInv` joins in for the states of the threads.  Only the file's length may change, by
opening: that is `ImageKept`, from the storage actions boot uses.
`Up` says what the kernel consists of at each call of `boot`; it uses the kernel's own `IInv`
for the ids that come next.  It needs the regions apart and ordered as the constants of
`sys/boot.rs` are, and two numbers for threads below those of the ports, which is
`AddressAssumption` in `Boot`.  The nine programs of the tests are executed
word by word, each step from the definition of the instruction; that execution stops, and where,
(`StoppedIs`) is an induction on the number of steps, with `Recursion` of `Induction` for the
function that iterates it.

`JobsEnd` is liveness, and with `ENABLED` beyond the prover: TLC checks it.  What it rests on
besides fairness is proved:

* `FramesCome` (and `DesktopCollects` for the whole program): while there is a boot or a run of
  the tests to wait for, the program is up, past the splash screen, and a frame is requested.
  The invariant `FrameIsComing` is inductive as it stands: a frame that finds a thread asks for
  the next one, and every other step that leaves a thread behind leaves the request, too;
* `EveryProgramStops`: the warm-up and the nine programs stop, the RET at the first word it
  reads where nothing was written, so the guard `AllStop` of `EndTests` is true;
* `BootComesToItsEnd`: while the thread of a boot runs, each step of `boot` is `Forward`, to a
  later call or to the next of the chunks or ports of the one it is at, and no other step
  touches what boot has done.  There are 21 calls and finitely many bytes and ports.

Only model-checked, then: that each of these steps can be taken when its turn comes, and that
turns come, which is `DesktopFairness`.

## 6. Keys and NCA archives

### Modules

* `KeySet` is `fs/keys.rs`: one action for each kind of line the loop of `parse` meets.
* `Nca` extends it by `fs/nca.rs`: `open` (AES-XTS, the fields of the header),
  `decrypt_key_area` and `read_section`.
* `MCNca` is the instance, with a maker of files.

Neither file is declared in `fs/mod.rs`: no build contains them yet.

### State and actions

| `KeySet.tla`, `Nca.tla` | Code |
|---|---|
| `keyFile`, `at` | the text, and the lines done |
| `header_key`, `tables`, `raw` | the fields of `KeySet`; `tables` has the four vectors |
| `checks` | whether the build panics on overflow |
| `status` | parsing, parsed, or how the program ended |
| `SkipLine`, `HeaderKeyLine`, `TableLine`, `OtherLine` | the branches of the loop |
| `LineSplits`, `TableIsFull`, `TableIndexWraps` | a slice that ends inside a character panics; an index as large as the memory aborts; the largest usize plus one panics or wraps |
| `nca`, `Replaced` | the file at the path, which another program may replace between two calls |
| `header`, `source`, `key_area`, `fetched` | what the calls returned; `source` is history, the file the header came from |
| `OpenReads`, `OpenFails`, `DecryptKeyArea`, `ReadSection`, `ReadFails` | the calls |
| `SizeUnderflows`, `NoMemory` | `byte_size` of a section that ends before it starts: a panic, or a request for more memory than there is |

A line is what it says: whether it assigns, which name, which suffix, which value; texts are
sequences of characters as `from_str_radix` and slices tell them apart (digits, a sign, a
blank, others, the bytes of a long character).  AES is an operator given by the instance.

### Run

`nca` (`MCNca`, `Nca.cfg`).  Bytes have four bits and keys three bytes, so a block is a number
below 4096 and the field is that of 2^12 elements; sectors have ten blocks, enough
for a tweak to wrap round the polynomial; two sections.  The maker encrypts with tweaks
computed on numbers, by doubling modulo x^12 + x^3 + 1, while the code shifts bytes and
carries bits, so the two sides share only the cipher and the exclusive or.  Six files: the three
kinds of key area, the generation in the old field, the new one and with 0xF for none, a
section of length 0, one that ends before it starts, one beyond the end of the file, a
wrong magic, a file shorter than a header.  Key files of up to three lines with keys of the
wrong length, repeated and missing generations, numbers spelled in several ways, values cut
inside a character, and the largest index.  Tables have room for three keys, a usize has sixteen
values.  `CHECK_DEADLOCK FALSE`: a parse that panicked is over.

* `KeysComeFromFile`: an entry is the key of the last good line for its generation, a gap is 0,
  and nothing is missing.
* `OpenReadsHeader`: what the maker put in comes out, field by field.
* `KeyAreaIsRight`: with the right key file the keys the maker wrapped come out.  The order
  of the variants of `KeyAreaType` is not the order of its numbers.
* `SectionsComeOut`: a section read from the file that was opened is the one placed there.  When
  the file was replaced in between, the bytes are those of another file, and nothing in the code
  notices; the property says what holds without that.

### What the code does that its comments do not say

1. *The key area is still encrypted* in the header `open` returns; `nca.rs:34` calls it
   decrypted.
2. *A gap is a key of zeros*: `keys.rs:112` says `None`.
3. *A key of the wrong length makes room for the right one*, and is dropped.

### Proofs

`NcaProofs` proves, for every key file, length of a key, base, set of archives and cipher:

* `KeysAreTheFiles`: `NcaSpec => []KeysComeFromFile`.  The invariant adds `KShape`: where the parse
  is, and that a table is a sequence of keys as long as a line's bytes.  What the bytes of a line are
  does not matter to it.  `StoredFacts` says what `ensure_len` and the store do to each index,
  `TableLineKeeps` is the step;
* `OpenIsRight`, `KeyAreaComesOut`, `SectionsAreTheMakers`: what the maker put into the file it
  gave out comes out again (`OpenReadsHeader`, `KeyAreaIsRight`, `SectionsComeOut`);
* `NcaTypeCorrect`.

The last four rest on two named assumptions, both evaluated by TLC in the run `nca`.
`CipherAssumption`: deciphering a block undoes enciphering it, and exclusive or undoes itself.
`MakerAssumption`: the maker encrypted a header that the parser reads as the fields it means, wrapped
the key area under the key the header names, and placed the sections where the header says.  So the proof covers how the code puts the
blocks, tweaks and sectors together: that XTS decryption undoes encryption block by block and
sector by sector, that the key of the right generation and index is taken from the tables, that the
offsets and lengths of a section name its bytes, and that a file of a wrong shape ends in an error.

Only model-checked, then: the layout of the fields of the header (the maker writes what
`from_decrypted` must find), the values of hexadecimal numbers, and the doubling of the tweak, which the
maker of the run computes on numbers while the code shifts bytes.

## 7. Not modelled

* The instruction set (Unicorn), the host file system, egui, AES and the hash map are external:
  they appear as nondeterministic choices over what they may do, or as operators of an instance.
* CPU core: `halt` and `run_all` of the manager and the 64-bit memory accessors have no caller
  outside unit tests.  The rest of it is modelled as its callers use it.
* What the HLE services would serve, and the shader handlers that are not written: `todo!()`.
* Emitter: the `Literal` conversions of typed constants, the constants of the extended
  instruction set and of enumerations, and `to_bytes`, which change no state.
* `scripts/decoder_generator.rs`: text in, text out, at build time.  What it printed is
  `Sm86Table`.
* `gpu/mod.rs`: calls into the Vulkan loader, pure I/O.
* Drawing, fonts and logging; `audio/mod.rs` is empty.
* What `flush` leaves to the host: a crash of the host may lose writes, since flushing a
  `std::fs::File` does nothing although `fs/mod.rs` speaks of flushing to disk.  A model would
  need the host's cache; a crash of the program alone loses nothing and is modelled.

What could follow: the abstract machine with threads that end, as soon as the kernel has them
(section 2 says what breaks then); and the handlers of the decoder, one by one, each a disjunct
of `Translate` with its clause in `GuestRuns`.
