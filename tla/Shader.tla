--------------------------------- MODULE Shader ---------------------------------
(***************************************************************************)
(* What a reader of SPIR-V makes of the words the decoder and the other    *)
(* callers of the emitter put together.                                    *)
(***************************************************************************)
EXTENDS Sm86, SpirvReader

\* The words of an instruction before the operands the caller gives.
Skip(m) == CASE m.form = "plain" -> 1 [] m.form = "result" -> 2 [] m.form = "typed" -> 3

\* emit_header once and before all else (so that the bound is the fourth word,
\* counted from 0), and no instruction too long.
UsedAsDocumented ==
    /\ headers = 1 /\ em.boundIdx = 3
    /\ \A k \in DOMAIN asked :
        LET a == asked[k]
        IN Skip(a.method) + Len(Operands(a.method, a.args, a.text, a.list)) < WcMod

\* What validate tells a caller is where the header is, and no more.  A module whose
\* header came first and once is accepted, whatever was emitted behind it and in
\* whatever order: the sections that spirv.rs:4-15 puts in an order are not looked for,
\* and neither is the end of a module half of which was emitted when translate or an
\* assertion panicked.  A module without a header, or with one header that is not at
\* the front, is refused.  (The magic number is also the number of an id, which
\* finalize writes over word 1 when there is no header.)  Nothing is said of two
\* headers or of instructions of 2^16 words and more.
HeaderDecidesValidate ==
    /\ UsedAsDocumented => Validate(em.words)
    /\ Validate(em.words) /\ em.nextId < Magic =>
            headers > 0 /\ (headers = 1 => em.boundIdx = 3)

\* At any moment the ids below the bound in the header are those of the instructions
\* emitted before the last finalize, and no others: finalize writes the counter of the
\* moment to a place remembered from emit_header, the emitter goes on handing out ids
\* afterwards, and a later finalize has to take in what came in between.  (The ids
\* emitted since then lie above the bound: "call after all emission is done" is a duty
\* of the caller that nothing checks.)
FinalizedBelowBound ==
    UsedAsDocumented =>
        LET prog == Instructions(em.words)
        IN \A k \in Results(prog) :
            ResultOf(prog[k]) < em.words[em.boundIdx + 1] <=> prog[k].at <= finalizedAt

\* in is the instruction that a asked for, found where it was put: the operands,
\* the text (up to its first zero byte, if it has one) and what follows it.
IsAsked(in, a) ==
    LET m == a.method
        at == IF TextAt(OpOf(in)) = 0 THEN Len(in.words) + 1 ELSE TextAt(OpOf(in))
        read == ReadText(in.words, at)
    IN /\ in.at = a.at /\ OpOf(in) = m.op
       /\ IF m.tail \in {"text", "text_list"}
          THEN /\ SubSeq(in.words, Skip(m) + 1, at - 1) = a.args
               /\ (\A n \in DOMAIN a.text : a.text[n] # 0) =>
                      read.text = a.text /\ read.rest = a.list
          ELSE SubSeq(in.words, Skip(m) + 1, Len(in.words)) = a.args \o a.list

\* A reader finds at its place every instruction an emit method was asked for,
\* with its operands, the text it was given and what follows the text.
ReadsBack ==
    UsedAsDocumented =>
        LET prog == Instructions(em.words)
        IN \A k \in DOMAIN asked : \E j \in DOMAIN prog : IsAsked(prog[j], asked[k])

\* Every id below the next one is the result of exactly one instruction, except
\* the ids taken with alloc_id: methods, decoder and environment draw from one
\* counter, and every method writes its id where the grammar has it.
IdsDefinedOnce ==
    UsedAsDocumented =>
        LET prog == Instructions(em.words)
            ids == {ResultOf(prog[k]) : k \in Results(prog)}
        IN /\ ids = (1..(em.nextId - 1)) \ reserved
           /\ Cardinality(ids) = Cardinality(Results(prog))

\* A decoder that was set up before its first translation uses an id only after the
\* instruction that defines it, also when it is set up again.  The one exception is the
\* component type of the vector types, which is 0.
DefinedBeforeUse ==
    UsedAsDocumented /\ asked = <<>> /\ ~early =>
        LET prog == Instructions(em.words)
            Before(k) == {ResultOf(prog[j]) : j \in Results(prog) \cap 1..(k - 1)}
        IN \A k \in DOMAIN prog :
            IdOperands(prog[k]) \ Before(k) = IF OpOf(prog[k]) = 23 THEN {0} ELSE {}

\* Running the emitted instructions leaves in every register's variable what the
\* guest instructions would leave in the register, also after a translation that
\* panicked half way, if init was called once and before them.  Instructions under a
\* predicate that is false are the exception: al2p and kill read the predicate and
\* ignore it.
ComputesGuest ==
    UsedAsDocumented /\ asked = <<>> /\ ready /\ ~early /\ ~renewed /\ ~guest.predicated =>
        LET start == [id \in {regs[r] : r \in 0..(NRegs - 1)} |->
                        ((CHOOSE r \in 0..(NRegs - 1) : regs[r] = id) + 1) % RegMod]
            ran == Run(Instructions(em.words), start, RegMod)
        IN /\ ran.dead = guest.dead
           /\ \A r \in 0..(NRegs - 1) : ran.mem[regs[r]] = guest.file[r]

\* An instruction translate comes back from was translated: the first row that
\* matches never hands it to the handler of another mnemonic that exists, and
\* an unwritten handler always panics.  (A key without a row is ignored.)
NoneSkipped ==
    \A mn \in returned : mn \in {"al2p", "kill", "nop", "unknown"}
===================================================================================
