---------------------------------- MODULE Sm86 ----------------------------------
(***************************************************************************)
(* Decoder (gpu/sm86.rs): guest shader instructions become SPIR-V, one     *)
(* register variable per guest register, one call of translate per         *)
(* instruction.  The owner of the emitter and of the decoder is the        *)
(* environment: it calls the public methods of both in any order, also     *)
(* translate before init, and init a second time.  Nothing in the          *)
(* repository makes a Decoder; its fields are taken to start as 0.         *)
(***************************************************************************)
EXTENDS Spirv, Sm86Table

CONSTANTS
    NRegs,         \* MAX_REG_COUNT, 254 in the code
    RegMod,        \* values of a register, 2^32
    First, Later,  \* instructions offered to translate: to begin with, otherwise
    Strings, WordLists,   \* texts and lists given to the emit methods
    TypeOperands,  \* operands given to the methods that look at theirs
    DebugAssertions,   \* built with debug_assert!, as cargo build and cargo test do
    MaxHeaders, MaxBuilt, MaxCalls   \* bounds on the calls of the environment

ASSUME DecoderAssumption == NRegs \in Nat \ {0} /\ RegMod \in Nat \ {0}

RZ == NRegs + 1
Registers == 0..RZ

\* An instruction: the mnemonic it was assembled from, its key, and the fields
\* of AL2P; pg is the value of the predicate that guards it.
Instruction ==
    [mn : STRING, key : Nat, ra : Registers, rd : Registers, off : Nat,
     bop : 0..3, pg : BOOLEAN]

ASSUME InputAssumption ==
    /\ First \subseteq Instruction /\ Later \subseteq Instruction
    /\ Strings \subseteq Seq(Octet) /\ WordLists \subseteq Seq(Nat)
    /\ TypeOperands \subseteq Seq(Nat) /\ DebugAssertions \in BOOLEAN

\* An instruction offered is one the table knows (a mnemonic and a key of one of its
\* rows), or no instruction at all, and then none of its rows matches.
ASSUME OfferedAssumption ==
    \A i \in First \cup Later :
        \/ <<i.mn, i.key>> \in Encodings
        \/ i.mn = "unknown" /\ i.key \notin Keys

VARIABLES
    em,        \* the Emitter
    ready,     \* init was called
    u32, ptr,  \* type_u32[1], type_ptr_u32
    regs,      \* the variable of each register
    panicked,
    \* history
    finalizedAt,   \* words there were at the last finalize
    reserved,  \* ids the environment took with alloc_id
    asked,     \* the emit methods the environment called, and where
    returned,  \* mnemonics of the instructions translate came back from
    guest,     \* the registers a guest that ran these instructions would have
    early,     \* translate was called before init
    renewed,   \* init was called again
    headers, translated, calls

vars == <<em, ready, u32, ptr, regs, panicked, finalizedAt, reserved, asked,
          returned, guest, early, renewed, headers, translated, calls>>

decoder == <<ready, u32, ptr, regs>>
history == <<reserved, asked, returned, guest, early, headers, translated>>

---------------------------------------------------------------------------
\* init

\* The words of the instructions init emits when the next id is n; n + k is the
\* id of the k-th.

\* void, then u8 to u64, s8 to s64, f16 to f64 and bool, entry 1 of each array.
ScalarTypes(n) ==
    <<InstWord(19, 1), n>>
    \o <<InstWord(21, 3), n + 1, 8, 0>> \o <<InstWord(21, 3), n + 2, 16, 0>>
    \o <<InstWord(21, 3), n + 3, 32, 0>> \o <<InstWord(21, 3), n + 4, 64, 0>>
    \o <<InstWord(21, 3), n + 5, 8, 1>> \o <<InstWord(21, 3), n + 6, 16, 1>>
    \o <<InstWord(21, 3), n + 7, 32, 1>> \o <<InstWord(21, 3), n + 8, 64, 1>>
    \o <<InstWord(22, 2), n + 9, 16>> \o <<InstWord(22, 2), n + 10, 32>>
    \o <<InstWord(22, 2), n + 11, 64>> \o <<InstWord(20, 1), n + 12>>

\* The loop takes copies of the twelve arrays, whose entry i is still 0, and
\* keeps none of the ids; k counts the words of the instructions, four each.
VectorTypes(n) ==
    LET Vector(i) == <<InstWord(23, 3), n + i, 0, 2 + i \div 12>>
    IN [k \in 1..(4 * 36) |-> Vector((k - 1) \div 4)[((k - 1) % 4) + 1]]

RegisterVariables(n, p) ==
    LET Variable(i) == <<InstWord(59, 3), p, n + i, 7>>
    IN [k \in 1..(4 * NRegs) |-> Variable((k - 1) \div 4)[((k - 1) % 4) + 1]]

\* Mutant: the first register gets the id of the pointer type.
RegisterIdsOff(n) == [r \in 0..(NRegs - 1) |-> n + 49 + r]

\* Mutant: the id is taken after the variable was emitted with the one before.
RegisterIdsAhead(n) == [r \in 0..(NRegs - 1) |-> n + 51 + r]

\* Mutant: the loop that declares the registers begins with the second.
RegisterIdsSkip(n) == [r \in 1..(NRegs - 1) |-> n + 50 + r]

RegisterIds(n) == [r \in 0..(NRegs - 1) |-> n + 50 + r]

InitDecoder ==
    LET n == em.nextId
        pointer == n + 49
    IN /\ ~panicked
       /\ em' = [em EXCEPT
                   !.words = @ \o (ScalarTypes(n) \o VectorTypes(n + 13)
                                   \o <<InstWord(32, 3), pointer, 7, n + 3>>
                                   \o RegisterVariables(n + 50, pointer)),
                   !.nextId = n + 50 + NRegs]
       /\ u32' = n + 3
       /\ ptr' = pointer
       /\ regs' = RegisterIds(n)
       /\ ready' = TRUE
       /\ renewed' = (renewed \/ ready)
       /\ calls < MaxCalls /\ calls' = calls + 1
       /\ UNCHANGED <<panicked, finalizedAt, history>>

---------------------------------------------------------------------------
\* load_reg and store_reg; the result of a load is the next id of e

OutOfBounds(reg) == reg # RZ /\ reg >= NRegs

\* Mutant: register zero is read like any other, from the first variable.
LoadRegNoZero(e, reg) ==
    EmitTyped(e, 61, u32, <<regs[IF reg = RZ THEN 0 ELSE reg]>>)

LoadReg(e, reg) ==
    IF reg = RZ THEN EmitTyped(e, 43, u32, <<0>>) ELSE EmitTyped(e, 61, u32, <<regs[reg]>>)

StoreReg(e, reg, val) ==
    IF reg = RZ THEN e ELSE EmitPlain(e, 62, <<regs[reg], val>>)

---------------------------------------------------------------------------
\* translate

Read(file, reg) == IF reg = RZ THEN 0 ELSE file[reg]

\* What the instruction means to the guest (the comment above al2p: rd is ra
\* plus the offset), whichever handler the decoder picks for it.
GuestRuns(i) ==
    IF guest.dead \/ ~i.pg THEN guest
    ELSE CASE i.mn = "al2p" /\ i.rd # RZ ->
                [guest EXCEPT !.file[i.rd] = (Read(guest.file, i.ra) + i.off) % RegMod]
           [] i.mn = "kill" -> [guest EXCEPT !.dead = TRUE]
           [] OTHER -> guest

Panic == panicked' = TRUE /\ UNCHANGED <<returned, guest>>

Return(i) ==
    /\ guest' = [GuestRuns(i) EXCEPT !.predicated = @ \/ ~i.pg]
    /\ returned' = returned \cup {i.mn}
    /\ UNCHANGED panicked

\* The bounds of ra are looked at twice: the assertion of al2p admits one
\* register more than load_reg does.  Those of rd are looked at after three
\* instructions were emitted.
Al2p(i) ==
    LET base == LoadReg(em, i.ra)
        offset == EmitTyped(base, 43, u32, <<i.off>>)
        sum == EmitTyped(offset, 128, u32, <<em.nextId, base.nextId>>)
    IN \/ /\ ~(i.ra <= NRegs \/ i.ra = RZ) \/ i.bop # 0 \/ OutOfBounds(i.ra)
          /\ Panic /\ UNCHANGED em
       \/ /\ i.bop = 0 /\ ~OutOfBounds(i.ra) /\ OutOfBounds(i.rd)
          /\ em' = sum
          /\ Panic
       \/ /\ i.bop = 0 /\ ~OutOfBounds(i.ra) /\ ~OutOfBounds(i.rd)
          /\ em' = StoreReg(sum, i.rd, offset.nextId)
          /\ Return(i)

\* OpKill, whatever the predicate of the instruction.
Kill(i) == em' = EmitPlain(em, 252, <<>>) /\ Return(i)

Nop(i) == em' = EmitPlain(em, 0, <<>>) /\ Return(i)

\* Mutant: a handler that is not written does nothing.
UnwrittenSilent(i) == Return(i) /\ UNCHANGED em

\* todo!(), after the fields of the instruction were taken out.
Unwritten(i) == Panic /\ UNCHANGED em

\* The chain of translate ends without an else.
NoRow(i) == UNCHANGED em /\ Return(i)

\* Every row is offered to the first translation after init (a bound): which row
\* matches does not depend on the state.  (A bound: a translation before init counts
\* twice.)
Translate(i) ==
    /\ ~panicked
    /\ calls' = calls + (IF ready THEN 1 ELSE 2) /\ calls' <= MaxCalls
    /\ i \in IF ready /\ translated = 0 /\ asked = <<>> THEN First ELSE Later
    /\ translated' = translated + 1
    /\ \/ i.key \notin DOMAIN Handler /\ NoRow(i)
       \/ /\ i.key \in DOMAIN Handler
          /\ \/ Handler[i.key] = "al2p" /\ Al2p(i)
             \/ Handler[i.key] = "kill" /\ Kill(i)
             \/ Handler[i.key] = "nop" /\ Nop(i)
             \/ Handler[i.key] \in Unimplemented /\ Unwritten(i)
    /\ early' = (early \/ ~ready)
    /\ UNCHANGED <<decoder, finalizedAt, reserved, asked, renewed, headers>>

---------------------------------------------------------------------------
\* The other calls of the environment

Start ==
    /\ ~panicked /\ headers < MaxHeaders
    /\ calls < MaxCalls /\ calls' = calls + 1
    /\ em' = EmitHeader(em)
    /\ headers' = headers + 1
    /\ UNCHANGED <<decoder, panicked, finalizedAt, reserved, asked, returned, guest,
                   early, renewed, translated>>

Take ==
    /\ ~panicked /\ reserved = {} /\ Len(asked) < MaxBuilt
    /\ calls + 1 < MaxCalls /\ calls' = calls + 2
    /\ em' = AllocId(em)
    /\ reserved' = {em.nextId}
    /\ UNCHANGED <<decoder, panicked, finalizedAt, asked, returned, guest, early, renewed,
                   headers, translated>>

\* The operands given to m: words that are all the same, or, for the methods that look
\* at theirs, those of TypeOperands.
Arguments(m) ==
    {[k \in 1..m.fixed |-> em.nextId]}
    \cup {args \in TypeOperands : m.op \in 21..24 /\ Len(args) = m.fixed}

\* Any emit method.  An assertion that fails does so before the id is taken.  (A bound:
\* a call of the environment's own counts twice.)
Build(m, args, text, list) ==
    /\ ~panicked
    /\ reserved = {} /\ Len(asked) < MaxBuilt
    /\ calls + 1 < MaxCalls /\ calls' = calls + 2
    /\ \/ /\ DebugAssertions /\ ~Asserted(m, args)
          /\ panicked' = TRUE
          /\ UNCHANGED <<em, asked>>
       \/ /\ DebugAssertions => Asserted(m, args)
          /\ em' = Emit(em, m, em.nextId, Operands(m, args, text, list))
          /\ asked' = Append(asked, [at |-> Len(em.words) + 1, method |-> m,
                                     args |-> args, text |-> text, list |-> list])
          /\ UNCHANGED panicked
    /\ UNCHANGED <<decoder, finalizedAt, reserved, returned, guest, early, renewed, headers,
                   translated>>

Seal ==
    /\ ~panicked
    /\ em' = Finalize(em)
    /\ finalizedAt' = Len(em.words)
    /\ UNCHANGED <<decoder, panicked, renewed, history, calls>>

Init ==
    /\ em = New
    /\ ready = FALSE /\ u32 = 0 /\ ptr = 0
    /\ regs = [r \in 0..(NRegs - 1) |-> 0]
    /\ panicked = FALSE /\ early = FALSE /\ renewed = FALSE /\ finalizedAt = 0
    /\ reserved = {} /\ asked = <<>> /\ returned = {}
    /\ guest = [file |-> [r \in 0..NRegs |-> (r + 1) % RegMod],
                dead |-> FALSE, predicated |-> FALSE]
    /\ headers = 0 /\ translated = 0 /\ calls = 0

Next ==
    \/ Start
    \/ Take
    \/ \E m \in Methods : \E args \in Arguments(m), text \in Texts(m, Strings),
                             list \in Lists(m, WordLists) :
            Build(m, args, text, list)
    \/ InitDecoder
    \/ \E i \in First \cup Later : Translate(i)
    \/ Seal

Spec == Init /\ [][Next]_vars

---------------------------------------------------------------------------
\* Properties

TypeOK ==
    /\ em \in Emitter
    /\ ready \in BOOLEAN /\ panicked \in BOOLEAN
    /\ early \in BOOLEAN /\ renewed \in BOOLEAN /\ finalizedAt \in Nat
    /\ u32 \in Nat /\ ptr \in Nat
    /\ regs \in [0..(NRegs - 1) -> Nat]
    /\ headers \in Nat /\ translated \in Nat /\ calls \in Nat

\* No two guest registers share a variable, and no id handed out later can be
\* one of theirs: init and load_reg work with ids and nothing tells a variable
\* from the type it was made with.
RegistersApart ==
    ready => /\ \A r \in 0..(NRegs - 1) : regs[r] < em.nextId /\ ptr < regs[r] /\ u32 < ptr
             /\ \A r, q \in 0..(NRegs - 1) : r # q => regs[r] # regs[q]

\* What was emitted stays: no call rewrites a word, finalize excepted, which
\* writes the one at bound_idx (the ids that methods returned, and a module half
\* of which was emitted when translate panicked, keep their meaning).
WordsStay ==
    [][/\ Len(em.words) <= Len(em'.words)
       /\ \A k \in 1..Len(em.words) : em'.words[k] = em.words[k] \/ k = em.boundIdx + 1]_vars
===================================================================================
