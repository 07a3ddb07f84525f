--------------------------------- MODULE Spirv ---------------------------------
(***************************************************************************)
(* Emitter (gpu/spirv.rs): the words of a SPIR-V module, built one         *)
(* instruction at a time.  An emitter is a record; an operation takes one  *)
(* and returns the next, and the id a method returns is the next_id it was *)
(* called with.  Word indexes count from 1, boundIdx counts from 0 as      *)
(* bound_idx does.                                                         *)
(***************************************************************************)
EXTENDS Integers, Sequences

CONSTANT WcMod   \* word counts a header word holds, 2^16 in the code

ASSUME WcAssumption == WcMod \in Nat /\ WcMod > 9

OpMod == 65536
Magic == 119734787
Version == 66816

Emitter == [words : Seq(Nat), nextId : Nat \ {0}, boundIdx : Nat]

New == [words |-> <<>>, nextId |-> 1, boundIdx |-> 0]

---------------------------------------------------------------------------
\* emit_header and finalize

EmitHeader(e) ==
    [e EXCEPT !.words = @ \o <<Magic, Version, 0, 0, 0>>,
              !.boundIdx = Len(e.words) + 3]

\* Mutant: the bound is the number of ids, not one more than the largest.
FinalizeShort(e) ==
    IF e.boundIdx < Len(e.words)
    THEN [e EXCEPT !.words[e.boundIdx + 1] = e.nextId - 1] ELSE e

\* Mutant: bound_idx is taken for an index that counts from 1.
FinalizeShifted(e) ==
    IF e.boundIdx + 1 < Len(e.words)
    THEN [e EXCEPT !.words[e.boundIdx + 2] = e.nextId] ELSE e

Finalize(e) ==
    IF e.boundIdx < Len(e.words)
    THEN [e EXCEPT !.words[e.boundIdx + 1] = e.nextId] ELSE e

---------------------------------------------------------------------------
\* One instruction

AllocId(e) == [e EXCEPT !.nextId = @ + 1]

\* Mutant: the word count leaves out the header word.
InstWordShort(op, n) == (n % WcMod) * OpMod + (op % OpMod)

\* The shift by 16 drops what a 16-bit word count cannot hold.
InstWord(op, n) == ((n + 1) % WcMod) * OpMod + (op % OpMod)

Inst(e, op, operands) ==
    [e EXCEPT !.words = @ \o (<<InstWord(op, Len(operands))>> \o operands)]

\* The three forms a method has: no result, a result, a result with a type
\* before it (typed_un, typed_bin and typed_tri are the last with 1, 2 and 3
\* operands).
EmitPlain(e, op, operands) == Inst(e, op, operands)
EmitResult(e, op, operands) == Inst(AllocId(e), op, <<e.nextId>> \o operands)

\* Mutant: the id is written into the instruction and not taken.
EmitTypedUnallocated(e, op, ty, operands) == Inst(e, op, <<ty, e.nextId>> \o operands)

EmitTyped(e, op, ty, operands) == Inst(AllocId(e), op, <<ty, e.nextId>> \o operands)

---------------------------------------------------------------------------
\* Operands that are not one word

Octet == 0..255

\* Mutant: the terminator gets a word only when the last word has no room.
EncodeStringUnterminated(s) ==
    [j \in 1..((Len(s) + 3) \div 4) |->
        LET byte(i) == IF 4 * (j - 1) + i <= Len(s) THEN s[4 * (j - 1) + i] ELSE 0
        IN byte(1) + 256 * byte(2) + 65536 * byte(3) + 16777216 * byte(4)]

\* encode_string: four bytes a word, the lowest first; the last word has at
\* least one zero byte, so a string of 4n bytes takes n + 1 words.
EncodeString(s) ==
    [j \in 1..(Len(s) \div 4 + 1) |->
        LET byte(i) == IF 4 * (j - 1) + i <= Len(s) THEN s[4 * (j - 1) + i] ELSE 0
        IN byte(1) + 256 * byte(2) + 65536 * byte(3) + 16777216 * byte(4)]

---------------------------------------------------------------------------
\* The emit methods, one set for each section of the file.  A method is its
\* opcode, its form, how many one-word operands it takes after those of the
\* form, and what follows them: nothing, a text, a list of words or of pairs of
\* words, or a text and then a list.

ModeMethods ==
    [op : {17}, form : {"plain"}, fixed : {1}, tail : {"none"}]
    \cup [op : {10}, form : {"plain"}, fixed : {0}, tail : {"text"}]
    \cup [op : {11}, form : {"result"}, fixed : {0}, tail : {"text"}]
    \cup [op : {14}, form : {"plain"}, fixed : {2}, tail : {"none"}]
    \cup [op : {15}, form : {"plain"}, fixed : {2}, tail : {"text_list"}]
    \cup [op : {16}, form : {"plain"}, fixed : {2}, tail : {"list"}]

DebugMethods ==
    [op : {5}, form : {"plain"}, fixed : {1}, tail : {"text"}]
    \cup [op : {6}, form : {"plain"}, fixed : {2}, tail : {"text"}]

AnnotationMethods ==
    [op : {71}, form : {"plain"}, fixed : {2}, tail : {"list"}]
    \cup [op : {72}, form : {"plain"}, fixed : {3}, tail : {"list"}]
    \cup [op : {73}, form : {"result"}, fixed : {0}, tail : {"none"}]
    \cup [op : {74}, form : {"plain"}, fixed : {1}, tail : {"list"}]

TypeMethods ==
    [op : {19, 20, 26}, form : {"result"}, fixed : {0}, tail : {"none"}]
    \cup [op : {22, 27, 29}, form : {"result"}, fixed : {1}, tail : {"none"}]
    \cup [op : {21, 23, 24, 28, 32}, form : {"result"}, fixed : {2}, tail : {"none"}]
    \cup [op : {25}, form : {"result"}, fixed : {7}, tail : {"none"}]
    \cup [op : {30}, form : {"result"}, fixed : {0}, tail : {"list"}]
    \cup [op : {33}, form : {"result"}, fixed : {1}, tail : {"list"}]

\* 43 and 44 have a second method each, for literals of one or two words.
ConstantMethods ==
    [op : {41, 42}, form : {"typed"}, fixed : {0}, tail : {"none"}]
    \cup [op : {43, 44, 48}, form : {"typed"}, fixed : {0}, tail : {"list"}]

MemoryMethods ==
    [op : {59}, form : {"typed"}, fixed : {1, 2}, tail : {"none"}]
    \cup [op : {61}, form : {"typed"}, fixed : {1}, tail : {"none"}]
    \cup [op : {62, 63}, form : {"plain"}, fixed : {2}, tail : {"none"}]
    \cup [op : {65, 66}, form : {"typed"}, fixed : {1}, tail : {"list"}]

FunctionMethods ==
    [op : {54}, form : {"typed"}, fixed : {2}, tail : {"none"}]
    \cup [op : {55}, form : {"typed"}, fixed : {0}, tail : {"none"}]
    \cup [op : {56}, form : {"plain"}, fixed : {0}, tail : {"none"}]
    \cup [op : {57}, form : {"typed"}, fixed : {1}, tail : {"list"}]

CompositeMethods ==
    [op : {79, 82}, form : {"typed"}, fixed : {2}, tail : {"list"}]
    \cup [op : {80}, form : {"typed"}, fixed : {0}, tail : {"list"}]
    \cup [op : {81}, form : {"typed"}, fixed : {1}, tail : {"list"}]
    \cup [op : {83}, form : {"typed"}, fixed : {1}, tail : {"none"}]

ConversionMethods ==
    [op : 109..115 \cup {124}, form : {"typed"}, fixed : {1}, tail : {"none"}]

ArithmeticMethods ==
    [op : {126, 127}, form : {"typed"}, fixed : {1}, tail : {"none"}]
    \cup [op : 128..141, form : {"typed"}, fixed : {2}, tail : {"none"}]

LogicalMethods ==
    [op : 164..167, form : {"typed"}, fixed : {2}, tail : {"none"}]
    \cup [op : {168}, form : {"typed"}, fixed : {1}, tail : {"none"}]
    \cup [op : {169}, form : {"typed"}, fixed : {3}, tail : {"none"}]

IntegerComparisonMethods ==
    [op : 170..179, form : {"typed"}, fixed : {2}, tail : {"none"}]

FloatComparisonMethods ==
    [op : 180..191, form : {"typed"}, fixed : {2}, tail : {"none"}]
    \cup [op : {156, 157}, form : {"typed"}, fixed : {1}, tail : {"none"}]

BitwiseMethods ==
    [op : 194..199, form : {"typed"}, fixed : {2}, tail : {"none"}]
    \cup [op : {200, 204, 205}, form : {"typed"}, fixed : {1}, tail : {"none"}]
    \cup [op : {201}, form : {"typed"}, fixed : {4}, tail : {"none"}]
    \cup [op : {202, 203}, form : {"typed"}, fixed : {3}, tail : {"none"}]

ControlFlowMethods ==
    [op : {245}, form : {"typed"}, fixed : {0}, tail : {"pairs"}]
    \cup [op : {246, 250}, form : {"plain"}, fixed : {3}, tail : {"none"}]
    \cup [op : {247}, form : {"plain"}, fixed : {2}, tail : {"none"}]
    \cup [op : {248}, form : {"result"}, fixed : {0}, tail : {"none"}]
    \cup [op : {249, 254}, form : {"plain"}, fixed : {1}, tail : {"none"}]
    \cup [op : {251}, form : {"plain"}, fixed : {2}, tail : {"pairs"}]
    \cup [op : {253, 255}, form : {"plain"}, fixed : {0}, tail : {"none"}]

BarrierMethods ==
    [op : {224}, form : {"plain"}, fixed : {3}, tail : {"none"}]
    \cup [op : {225}, form : {"plain"}, fixed : {2}, tail : {"none"}]

ExtInstMethods == [op : {12}, form : {"typed"}, fixed : {2}, tail : {"list"}]

ImageMethods ==
    [op : {86, 103}, form : {"typed"}, fixed : {2}, tail : {"none"}]
    \cup [op : {100, 104}, form : {"typed"}, fixed : {1}, tail : {"none"}]
    \cup [op : {87, 95, 98}, form : {"typed"}, fixed : {2}, tail : {"list"}]
    \cup [op : {88}, form : {"typed"}, fixed : {3}, tail : {"list"}]
    \cup [op : {99}, form : {"plain"}, fixed : {3}, tail : {"list"}]

AtomicMethods ==
    [op : {227}, form : {"typed"}, fixed : {3}, tail : {"none"}]
    \cup [op : {228}, form : {"plain"}, fixed : {4}, tail : {"none"}]
    \cup [op : {229} \cup 234..242, form : {"typed"}, fixed : {4}, tail : {"none"}]
    \cup [op : {230}, form : {"typed"}, fixed : {6}, tail : {"none"}]

DerivativeMethods == [op : 207..215, form : {"typed"}, fixed : {1}, tail : {"none"}]

GroupMethods ==
    [op : {333}, form : {"typed"}, fixed : {1}, tail : {"none"}]
    \cup [op : {338, 339}, form : {"typed"}, fixed : {2}, tail : {"none"}]
    \cup [op : {337, 345, 346, 349, 350} \cup 353..361,
          form : {"typed"}, fixed : {3}, tail : {"none"}]

MiscMethods ==
    [op : {0, 252}, form : {"plain"}, fixed : {0}, tail : {"none"}]
    \cup [op : {1}, form : {"typed"}, fixed : {0}, tail : {"none"}]

Methods ==
    ModeMethods \cup DebugMethods \cup AnnotationMethods \cup TypeMethods
    \cup ConstantMethods \cup MemoryMethods \cup FunctionMethods
    \cup CompositeMethods \cup ConversionMethods \cup ArithmeticMethods
    \cup LogicalMethods \cup IntegerComparisonMethods \cup FloatComparisonMethods
    \cup BitwiseMethods \cup ControlFlowMethods \cup BarrierMethods
    \cup ExtInstMethods \cup ImageMethods \cup AtomicMethods
    \cup DerivativeMethods \cup GroupMethods \cup MiscMethods

\* What may follow the fixed operands of a method.
Texts(m, strings) == IF m.tail \in {"text", "text_list"} THEN strings ELSE {<<>>}
Lists(m, lists) ==
    CASE m.tail \in {"list", "text_list"} -> lists
      [] m.tail = "pairs" -> {l \in lists : Len(l) % 2 = 0}
      [] OTHER -> {<<>>}

\* The operands after those of the form, as the method puts them together.
Operands(m, args, text, list) ==
    args \o (IF m.tail \in {"text", "text_list"} THEN EncodeString(text) ELSE <<>>)
         \o list

\* The debug_assert!s: widths and signedness of int and float, sizes of vector and matrix.
Asserted(m, args) ==
    /\ m.op = 21 => args[1] \in {8, 16, 32, 64} /\ args[2] <= 1
    /\ m.op = 22 => args[1] \in {16, 32, 64}
    /\ m.op = 23 => args[2] \in 2..16
    /\ m.op = 24 => args[2] >= 2

\* A call of method m: ty is used by the typed form only.
Emit(e, m, ty, operands) ==
    CASE m.form = "plain" -> EmitPlain(e, m.op, operands)
      [] m.form = "result" -> EmitResult(e, m.op, operands)
      [] m.form = "typed" -> EmitTyped(e, m.op, ty, operands)

---------------------------------------------------------------------------
\* validate

WordCount(w) == w \div OpMod
Opcode(w) == w % OpMod

Validate(ws) ==
    LET walk[p \in 1..(Len(ws) + 1)] ==
            \/ p > Len(ws)
            \/ /\ WordCount(ws[p]) # 0
               /\ p + WordCount(ws[p]) <= Len(ws) + 1
               /\ Opcode(ws[p]) = 0 => WordCount(ws[p]) = 1
               /\ walk[p + WordCount(ws[p])]
    IN Len(ws) >= 5 /\ ws[1] = Magic /\ walk[6]
=================================================================================
