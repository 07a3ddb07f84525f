------------------------------ MODULE SpirvProofs ------------------------------
(***************************************************************************)
(* Lemmas about the emitter and its reader, for all words: emitting only   *)
(* grows the module; the reader and validate find in a longer module what  *)
(* they found before and then the new instruction; a text is read as it    *)
(* was written; and what an instruction does when the program is run.      *)
(***************************************************************************)
EXTENDS Shader, Induction, FiniteSetTheorems, TLAPS

\* f is e after some emit methods: more words at the end, more ids, the same
\* place for the bound.
Grows(e, f) ==
    /\ f \in Emitter
    /\ e.nextId <= f.nextId /\ f.boundIdx = e.boundIdx
    /\ Len(e.words) <= Len(f.words)
    /\ \A k \in 1..Len(e.words) : f.words[k] = e.words[k]

\* Growing twice is growing.
LEMMA GrowsTransitive ==
    ASSUME NEW e \in Emitter, NEW f, NEW g, Grows(e, f), Grows(f, g)
    PROVE  Grows(e, g)
BY DEF Grows, Emitter

\* A header word is a number whatever the opcode and the length.
LEMMA InstWordType ==
    ASSUME NEW op \in Nat, NEW n \in Nat
    PROVE  InstWord(op, n) \in Nat
<1>1. (n + 1) % WcMod \in Nat
  BY WcAssumption
<1>2. op % OpMod \in Nat
  BY DEF OpMod
<1> QED
  BY <1>1, <1>2 DEF InstWord, OpMod

\* Appending words grows the module.
LEMMA AppendGrows ==
    ASSUME NEW e \in Emitter, NEW ws \in Seq(Nat), NEW f \in Emitter,
           f.words = e.words \o ws, e.nextId <= f.nextId, f.boundIdx = e.boundIdx
    PROVE  Grows(e, f)
<1>1. Len(e.words \o ws) = Len(e.words) + Len(ws)
  BY DEF Emitter
<1>2. \A k \in 1..Len(e.words) : (e.words \o ws)[k] = e.words[k]
  BY DEF Emitter
<1> QED
  BY <1>1, <1>2 DEF Grows, Emitter

\* inst adds the words of one instruction and nothing else.
LEMMA InstGrows ==
    ASSUME NEW e \in Emitter, NEW op \in Nat, NEW operands \in Seq(Nat)
    PROVE  Grows(e, Inst(e, op, operands))
<1> DEFINE ws == <<InstWord(op, Len(operands))>> \o operands
           w == e.words \o ws
           f == [e EXCEPT !.words = w]
<1>1. Len(operands) \in Nat
  OBVIOUS
<1>2. InstWord(op, Len(operands)) \in Nat
  BY <1>1, InstWordType
<1>3. ws \in Seq(Nat)
  BY <1>2
<1>4. Inst(e, op, operands) = f
  BY DEF Inst
<1> HIDE DEF ws
<1>5. w \in Seq(Nat)
  BY <1>3 DEF Emitter
<1> HIDE DEF w
<1>6. f \in Emitter /\ f.words = w /\ f.nextId = e.nextId /\ f.boundIdx = e.boundIdx
  BY <1>5 DEF Emitter
<1> HIDE DEF f
<1>7. e.nextId <= f.nextId
  BY <1>6 DEF Emitter
<1>8. f.words = e.words \o ws
  BY <1>6 DEF w
<1>9. Grows(e, f)
  BY <1>3, <1>6, <1>7, <1>8, AppendGrows
<1> QED
  BY <1>4, <1>9

\* alloc_id takes the next id and leaves the words.
LEMMA AllocGrows ==
    ASSUME NEW e \in Emitter
    PROVE  Grows(e, AllocId(e)) /\ AllocId(e).nextId = e.nextId + 1
BY DEF Grows, AllocId, Emitter

\* inst_result grows the module.
LEMMA ResultGrows ==
    ASSUME NEW e \in Emitter, NEW op \in Nat, NEW operands \in Seq(Nat)
    PROVE  Grows(e, EmitResult(e, op, operands))
<1>1. Grows(e, AllocId(e)) /\ AllocId(e) \in Emitter
  BY AllocGrows DEF Grows
<1>2. <<e.nextId>> \o operands \in Seq(Nat)
  BY DEF Emitter
<1>3. Grows(AllocId(e), Inst(AllocId(e), op, <<e.nextId>> \o operands))
  BY <1>1, <1>2, InstGrows
<1> QED
  BY <1>1, <1>3, GrowsTransitive DEF EmitResult

\* inst_typed grows the module.
LEMMA TypedGrows ==
    ASSUME NEW e \in Emitter, NEW op \in Nat, NEW ty \in Nat, NEW operands \in Seq(Nat)
    PROVE  Grows(e, EmitTyped(e, op, ty, operands))
<1>1. Grows(e, AllocId(e)) /\ AllocId(e) \in Emitter
  BY AllocGrows DEF Grows
<1>2. <<ty, e.nextId>> \o operands \in Seq(Nat)
  BY DEF Emitter
<1>3. Grows(AllocId(e), Inst(AllocId(e), op, <<ty, e.nextId>> \o operands))
  BY <1>1, <1>2, InstGrows
<1> QED
  BY <1>1, <1>3, GrowsTransitive DEF EmitTyped

\* A method without a result grows the module.
LEMMA PlainGrows ==
    ASSUME NEW e \in Emitter, NEW op \in Nat, NEW operands \in Seq(Nat)
    PROVE  Grows(e, EmitPlain(e, op, operands))
BY InstGrows DEF EmitPlain


\* A byte is a number, and 0 is a byte.
LEMMA OctetType == 0 \in Octet /\ \A b \in Octet : b \in 0..255 /\ b \in Nat
BY DEF Octet

\* A text is a list of numbers.
LEMMA OctetsAreNumbers ==
    ASSUME NEW s \in Seq(Octet) PROVE s \in Seq(Nat)
BY OctetType

---------------------------------------------------------------------------
\* The emit methods

Described(m) == m.op \in Nat /\ m.fixed \in Nat /\ m.form \in {"plain", "result", "typed"}

\* Every method has an opcode, a number of operands and a form.
LEMMA MethodsDescribed == \A m \in Methods : Described(m)
<1>1. \A m \in ModeMethods : Described(m)
  BY DEF ModeMethods, Described
<1>2. \A m \in DebugMethods : Described(m)
  BY DEF DebugMethods, Described
<1>3. \A m \in AnnotationMethods : Described(m)
  BY DEF AnnotationMethods, Described
<1>4. \A m \in TypeMethods : Described(m)
  BY DEF TypeMethods, Described
<1>5. \A m \in ConstantMethods : Described(m)
  BY DEF ConstantMethods, Described
<1>6. \A m \in MemoryMethods : Described(m)
  BY DEF MemoryMethods, Described
<1>7. \A m \in FunctionMethods : Described(m)
  BY DEF FunctionMethods, Described
<1>8. \A m \in CompositeMethods : Described(m)
  BY DEF CompositeMethods, Described
<1>9. \A m \in ConversionMethods : Described(m)
  BY DEF ConversionMethods, Described
<1>10. \A m \in ArithmeticMethods : Described(m)
  BY DEF ArithmeticMethods, Described
<1>11. \A m \in LogicalMethods : Described(m)
  BY DEF LogicalMethods, Described
<1>12. \A m \in IntegerComparisonMethods : Described(m)
  BY DEF IntegerComparisonMethods, Described
<1>13. \A m \in FloatComparisonMethods : Described(m)
  BY DEF FloatComparisonMethods, Described
<1>14. \A m \in BitwiseMethods : Described(m)
  BY DEF BitwiseMethods, Described
<1>15. \A m \in ControlFlowMethods : Described(m)
  BY DEF ControlFlowMethods, Described
<1>16. \A m \in BarrierMethods : Described(m)
  BY DEF BarrierMethods, Described
<1>17. \A m \in ExtInstMethods : Described(m)
  BY DEF ExtInstMethods, Described
<1>18. \A m \in ImageMethods : Described(m)
  BY DEF ImageMethods, Described
<1>19. \A m \in AtomicMethods : Described(m)
  BY DEF AtomicMethods, Described
<1>20. \A m \in DerivativeMethods : Described(m)
  BY DEF DerivativeMethods, Described
<1>21. \A m \in GroupMethods : Described(m)
  BY DEF GroupMethods, Described
<1>22. \A m \in MiscMethods : Described(m)
  BY DEF MiscMethods, Described
<1> QED
  BY <1>1, <1>2, <1>3, <1>4, <1>5, <1>6, <1>7, <1>8, <1>9, <1>10, <1>11,
     <1>12, <1>13, <1>14, <1>15, <1>16, <1>17, <1>18, <1>19, <1>20, <1>21, <1>22 DEF Methods

\* encode_string returns words.
LEMMA StringType ==
    ASSUME NEW s \in Seq(Nat) PROVE EncodeString(s) \in Seq(Nat)
<1> DEFINE byte(j, i) == IF 4 * (j - 1) + i <= Len(s) THEN s[4 * (j - 1) + i] ELSE 0
           n == Len(s) \div 4 + 1
           word(j) == byte(j, 1) + 256 * byte(j, 2) + 65536 * byte(j, 3) + 16777216 * byte(j, 4)
<1>1. n \in Nat
  OBVIOUS
<1>2. \A j \in 1..n, i \in 1..4 : byte(j, i) \in Nat
  OBVIOUS
<1>3. \A j \in 1..n : word(j) \in Nat
  <2> TAKE j \in 1..n
  <2>1. byte(j, 1) \in Nat /\ byte(j, 2) \in Nat /\ byte(j, 3) \in Nat /\ byte(j, 4) \in Nat
    BY <1>2
  <2> DEFINE a == byte(j, 1)
             b == byte(j, 2)
             c == byte(j, 3)
             d == byte(j, 4)
  <2>2. word(j) = a + 256 * b + 65536 * c + 16777216 * d
    OBVIOUS
  <2> HIDE DEF a, b, c, d, word
  <2>3. a \in Nat /\ b \in Nat /\ c \in Nat /\ d \in Nat
    BY <2>1 DEF a, b, c, d
  <2> QED
    BY <2>2, <2>3
<1>4. EncodeString(s) = [j \in 1..n |-> word(j)]
  BY DEF EncodeString
<1> HIDE DEF n, word
<1> QED
  BY <1>1, <1>3, <1>4

\* Whatever emit method is called, the module grows.
LEMMA CallGrows ==
    ASSUME NEW e \in Emitter, NEW m \in Methods, NEW text \in Texts(m, Strings),
           NEW list \in Lists(m, WordLists), NEW ty \in Nat, NEW args \in Seq(Nat)
    PROVE  Grows(e, Emit(e, m, ty, Operands(m, args, text, list)))
<1>1. Described(m)
  BY MethodsDescribed
<1>2. m.op \in Nat /\ m.form \in {"plain", "result", "typed"}
  BY <1>1 DEF Described
<1>3. text \in Seq(Nat)
  <2>1. CASE m.tail \in {"text", "text_list"}
    BY <2>1, InputAssumption, OctetsAreNumbers DEF Texts
  <2>2. CASE ~(m.tail \in {"text", "text_list"})
    <3>1. Texts(m, Strings) = {<<>>}
      BY <2>2, Zenon DEF Texts
    <3> QED
      BY <3>1
  <2> QED
    BY <2>1, <2>2
<1>4. list \in Seq(Nat)
  <2>1. list \in WordLists \/ list = <<>>
    BY DEF Lists
  <2>2. CASE list \in WordLists
    BY <2>2, InputAssumption
  <2>3. CASE list = <<>>
    BY <2>3
  <2> QED
    BY <2>1, <2>2, <2>3
<1>5. Operands(m, args, text, list) \in Seq(Nat)
  <2>1. EncodeString(text) \in Seq(Nat)
    BY <1>3, StringType
  <2>2. CASE m.tail \in {"text", "text_list"}
    <3>1. args \o EncodeString(text) \o list \in Seq(Nat)
      BY <2>1, <1>4
    <3>2. Operands(m, args, text, list) = args \o EncodeString(text) \o list
      BY <2>2, Zenon DEF Operands
    <3> QED
      BY <3>1, <3>2
  <2>3. CASE ~(m.tail \in {"text", "text_list"})
    <3>1. args \o <<>> \o list \in Seq(Nat)
      BY <1>4
    <3>2. Operands(m, args, text, list) = args \o <<>> \o list
      BY <2>3, Zenon DEF Operands
    <3> QED
      BY <3>1, <3>2
  <2> QED
    BY <2>2, <2>3
<1>6. CASE m.form = "plain"
  BY <1>2, <1>5, <1>6, PlainGrows DEF Emit
<1>7. CASE m.form = "result"
  BY <1>2, <1>5, <1>7, ResultGrows DEF Emit
<1>8. CASE m.form = "typed"
  BY <1>2, <1>5, <1>8, TypedGrows DEF Emit
<1> QED
  BY <1>2, <1>6, <1>7, <1>8

---------------------------------------------------------------------------
\* The decoder

\* The word of instruction (k - 1) \div 4, where k counts words.
LEMMA WordIndex ==
    ASSUME NEW count \in Nat, NEW k \in 1..(4 * count)
    PROVE  (k - 1) \div 4 \in Nat /\ ((k - 1) % 4) + 1 \in 1..4
OBVIOUS

\* What init adds: the types, the pointer type and one variable for each register.
LEMMA InitGrows ==
    ASSUME NEW e \in Emitter, NEW n \in Nat, n = e.nextId, NEW p \in Nat
    PROVE  Grows(e, [e EXCEPT !.words = @ \o (ScalarTypes(n) \o VectorTypes(n + 13)
                                            \o <<InstWord(32, 3), p, 7, n + 3>>
                                            \o RegisterVariables(n + 50, p)),
                              !.nextId = n + 50 + NRegs])
<1> DEFINE A == ScalarTypes(n)
           B == VectorTypes(n + 13)
           C == <<InstWord(32, 3), p, 7, n + 3>>
           D == RegisterVariables(n + 50, p)
<1>0. /\ InstWord(19, 1) \in Nat /\ InstWord(20, 1) \in Nat /\ InstWord(21, 3) \in Nat
      /\ InstWord(22, 2) \in Nat /\ InstWord(23, 3) \in Nat /\ InstWord(32, 3) \in Nat
      /\ InstWord(59, 3) \in Nat
  BY InstWordType
<1>1. A \in Seq(Nat)
  BY <1>0 DEF ScalarTypes
<1>2. B \in Seq(Nat)
  <2> DEFINE Vector(i) == <<InstWord(23, 3), n + 13 + i, 0, 2 + i \div 12>>
  <2>1. \A i \in Nat : \A j \in 1..4 : Vector(i)[j] \in Nat
    BY <1>0
  <2>2. B = [k \in 1..(4 * 36) |-> Vector((k - 1) \div 4)[((k - 1) % 4) + 1]]
    BY DEF VectorTypes
  <2> HIDE DEF Vector, B
  <2>3. \A k \in 1..(4 * 36) : Vector((k - 1) \div 4)[((k - 1) % 4) + 1] \in Nat
    BY <2>1, WordIndex
  <2> QED
    BY <2>2, <2>3
<1>3. C \in Seq(Nat)
  BY <1>0
<1>4. D \in Seq(Nat)
  <2> DEFINE Variable(i) == <<InstWord(59, 3), p, n + 50 + i, 7>>
  <2>1. \A i \in Nat : \A j \in 1..4 : Variable(i)[j] \in Nat
    BY <1>0
  <2>2. D = [k \in 1..(4 * NRegs) |-> Variable((k - 1) \div 4)[((k - 1) % 4) + 1]]
    BY DEF RegisterVariables
  <2> HIDE DEF Variable, D
  <2>3. \A k \in 1..(4 * NRegs) : Variable((k - 1) \div 4)[((k - 1) % 4) + 1] \in Nat
    BY <2>1, WordIndex, DecoderAssumption
  <2> QED
    BY <2>2, <2>3, DecoderAssumption
<1> HIDE DEF A, B, C, D
<1>5. A \o B \o C \o D \in Seq(Nat)
  BY <1>1, <1>2, <1>3, <1>4
<1> DEFINE ws == A \o B \o C \o D
           w == e.words \o ws
           next == n + 50 + NRegs
           f == [e EXCEPT !.words = w, !.nextId = next]
<1> HIDE DEF ws
<1>6. w \in Seq(Nat) /\ ws \in Seq(Nat)
  BY <1>5 DEF Emitter, ws
<1> HIDE DEF w
<1>7. next \in Nat \ {0} /\ e.nextId <= next
  BY DecoderAssumption
<1> HIDE DEF next
<1>8. /\ f \in Emitter /\ f.words = w /\ f.nextId = next
      /\ f.boundIdx = e.boundIdx
  BY <1>6, <1>7 DEF Emitter
<1> HIDE DEF f
<1>9. f.words = e.words \o ws
  BY <1>8 DEF w
<1>10. Grows(e, f)
  BY <1>6, <1>7, <1>8, <1>9, AppendGrows
<1> QED
  BY <1>10 DEF f, w, ws, next, A, B, C, D

---------------------------------------------------------------------------
\* Header and bound

\* emit_header adds five words and moves the place of the bound.
LEMMA HeaderShape ==
    ASSUME NEW e \in Emitter
    PROVE  /\ EmitHeader(e) \in Emitter
           /\ EmitHeader(e).nextId = e.nextId
           /\ Len(e.words) <= Len(EmitHeader(e).words)
           /\ \A k \in 1..Len(e.words) : EmitHeader(e).words[k] = e.words[k]
<1> DEFINE w == e.words \o <<Magic, Version, 0, 0, 0>>
           b == Len(e.words) + 3
           f == [e EXCEPT !.words = w, !.boundIdx = b]
<1>1. EmitHeader(e) = f
  BY DEF EmitHeader
<1>2. w \in Seq(Nat) /\ Len(e.words) <= Len(w) /\ \A k \in 1..Len(e.words) : w[k] = e.words[k]
  BY DEF Emitter, Magic, Version
<1>3. b \in Nat
  BY DEF Emitter
<1> HIDE DEF w, b
<1>4. f \in Emitter /\ f.words = w /\ f.nextId = e.nextId
  BY <1>2, <1>3 DEF Emitter
<1> QED
  BY <1>1, <1>2, <1>4

\* finalize writes the next id at the place of the bound, if there is such a word,
\* and nothing else.
LEMMA FinalizeShape ==
    ASSUME NEW e \in Emitter
    PROVE  /\ Finalize(e) \in Emitter
           /\ Finalize(e).nextId = e.nextId /\ Finalize(e).boundIdx = e.boundIdx
           /\ Len(Finalize(e).words) = Len(e.words)
           /\ \A k \in 1..Len(e.words) :
                Finalize(e).words[k] = e.words[k] \/ k = e.boundIdx + 1
           /\ e.boundIdx < Len(e.words) => Finalize(e).words[e.boundIdx + 1] = e.nextId
<1>1. CASE e.boundIdx < Len(e.words)
  <2> DEFINE w == [e.words EXCEPT ![e.boundIdx + 1] = e.nextId]
             f == [e EXCEPT !.words = w]
  <2>1. Finalize(e) = f
    BY <1>1 DEF Finalize
  <2>2. e.words \in Seq(Nat) /\ e.nextId \in Nat /\ e.boundIdx + 1 \in 1..Len(e.words)
    BY <1>1 DEF Emitter
  <2>3. w \in Seq(Nat) /\ Len(w) = Len(e.words)
    BY <2>2
  <2>4. w[e.boundIdx + 1] = e.nextId
    BY <2>2
  <2>5. \A k \in 1..Len(e.words) : w[k] = e.words[k] \/ k = e.boundIdx + 1
    BY <2>2
  <2> HIDE DEF w
  <2>6. f \in Emitter /\ f.words = w /\ f.nextId = e.nextId /\ f.boundIdx = e.boundIdx
    BY <2>3 DEF Emitter
  <2> QED
    BY <2>1, <2>3, <2>4, <2>5, <2>6
<1>2. CASE ~(e.boundIdx < Len(e.words))
  <2>1. Finalize(e) = e
    BY <1>2 DEF Finalize
  <2> QED
    BY <1>2, <2>1
<1> QED
  BY <1>1, <1>2

---------------------------------------------------------------------------
\* Walking over the words

\* The value at a position is given for the last ones, and told by the value at a
\* later position for the others.
Tells(N, S, last, base, next, step) ==
    /\ N \in Nat /\ last \in SUBSET (1 .. N)
    /\ base \in [1 .. N -> S] /\ next \in [1 .. N -> Nat] /\ step \in [(1 .. N) \X S -> S]
    /\ \A p \in (1 .. N) \ last : next[p] \in p + 1 .. N

Told(f, N, last, base, next, step) ==
    \A p \in 1 .. N : f[p] = IF p \in last THEN base[p] ELSE step[<<p, f[next[p]]>>]

\* There is a function with such values.
LEMMA Backwards ==
    ASSUME NEW N, NEW S, NEW last, NEW base, NEW next, NEW step,
           Tells(N, S, last, base, next, step)
    PROVE  \E f \in [1 .. N -> S] : Told(f, N, last, base, next, step)
<1> USE DEF Tells
<1> DEFINE ToldAt(f, p) == f[p] = IF p \in last THEN base[p] ELSE step[<<p, f[next[p]]>>]
           T == {n \in 0 .. N : \E f \in [1 .. N -> S] : \A p \in N - n + 1 .. N : ToldAt(f, p)}
<1>1. 0 \in T
  BY SMT
<1>2. ASSUME NEW n \in 0 .. N - 1, n \in T PROVE n + 1 \in T
  <2>1. PICK f \in [1 .. N -> S] : \A p \in N - n + 1 .. N : ToldAt(f, p)
    BY <1>2
  <2> DEFINE q == N - n
             v == IF q \in last THEN base[q] ELSE step[<<q, f[next[q]]>>]
             g == [f EXCEPT ![q] = v]
  <2>2. q \in 1 .. N /\ (q \notin last => next[q] \in q + 1 .. N)
    OBVIOUS
  <2>3. v \in S
    BY <2>2
  <2>4. g \in [1 .. N -> S] /\ g[q] = v /\ \A p \in 1 .. N : p # q => g[p] = f[p]
    BY <2>2, <2>3
  <2>5. ASSUME NEW p \in N - n .. N PROVE ToldAt(g, p)
    <3>1. p \in 1 .. N /\ (p \notin last => next[p] \in p + 1 .. N /\ next[p] # q)
      OBVIOUS
    <3>2. p \notin last => g[next[p]] = f[next[p]]
      BY <2>4, <3>1
    <3>3. CASE p = q
      <4>1. g[p] = v
        BY <2>4, <3>3
      <4> HIDE DEF g
      <4> QED BY <3>2, <3>3, <4>1
    <3>4. CASE p # q
      <4>1. p \in N - n + 1 .. N
        BY <3>4
      <4>2. g[p] = f[p] /\ ToldAt(f, p)
        BY <2>1, <2>4, <3>1, <3>4, <4>1
      <4> HIDE DEF g
      <4> QED BY <3>2, <4>2
    <3> QED BY <3>3, <3>4
  <2>6. N - (n + 1) + 1 = N - n
    OBVIOUS
  <2> HIDE DEF g, ToldAt
  <2> QED BY <2>4, <2>5, <2>6, SMTT(30)
<1>3. 0 .. N \subseteq T
  <2> HIDE DEF T
  <2> QED BY <1>1, <1>2, SetInductionUpTo
<1>4. N \in 0 .. N /\ N - N + 1 = 1
  OBVIOUS
<1>5. N \in T
  <2> HIDE DEF T
  <2> QED BY <1>3, <1>4
<1>6. PICK f \in [1 .. N -> S] : \A p \in N - N + 1 .. N : ToldAt(f, p)
  BY <1>5
<1> QED BY <1>4, <1>6 DEF Told

---------------------------------------------------------------------------
\* What validate and the reader see from a position on

\* The walk of validate over the words ws.
Walks(ws, w) ==
    /\ w \in [1..(Len(ws) + 1) -> BOOLEAN]
    /\ \A p \in 1..(Len(ws) + 1) :
        w[p] <=> \/ p > Len(ws)
                 \/ /\ WordCount(ws[p]) # 0
                    /\ p + WordCount(ws[p]) <= Len(ws) + 1
                    /\ Opcode(ws[p]) = 0 => WordCount(ws[p]) = 1
                    /\ w[p + WordCount(ws[p])]

\* validate, inst and the reader split a first word at the same place.
LEMMA OpModType == OpMod \in Nat /\ OpMod > 512 /\ Half = OpMod
BY DEF OpMod, Half

\* The two halves of a word are numbers, and the reader's length is that of validate.
LEMMA WordParts ==
    ASSUME NEW w \in Nat
    PROVE  /\ WordCount(w) \in Nat /\ LengthIn(w) = WordCount(w)
           /\ Opcode(w) \in 0 .. OpMod - 1 /\ w % Half = Opcode(w)
BY OpModType DEF WordCount, Opcode, LengthIn

\* A first word that inst made is taken apart into the length and the opcode it was
\* made of, if they fit.
LEMMA MadeWord ==
    ASSUME NEW op \in 0 .. OpMod - 1, NEW n \in Nat, n + 1 < WcMod
    PROVE  WordCount(InstWord(op, n)) = n + 1 /\ Opcode(InstWord(op, n)) = op
<1>1. (n + 1) % WcMod = n + 1
  BY WcAssumption
<1>2. op % OpMod = op
  BY OpModType
<1> QED BY <1>1, <1>2, OpModType, WcAssumption DEF InstWord, WordCount, Opcode

\* validate is its walk: the recursion has a solution, which the walk from word 6 on
\* is taken from.
LEMMA ValidateWalks ==
    ASSUME NEW ws \in Seq(Nat)
    PROVE  \E w : /\ Walks(ws, w)
                  /\ Validate(ws) <=> Len(ws) >= 5 /\ ws[1] = Magic /\ w[6]
<1> DEFINE N == Len(ws) + 1
           Body(w, p) == \/ p > Len(ws)
                         \/ /\ WordCount(ws[p]) # 0
                            /\ p + WordCount(ws[p]) <= Len(ws) + 1
                            /\ Opcode(ws[p]) = 0 => WordCount(ws[p]) = 1
                            /\ w[p + WordCount(ws[p])]
           walk == CHOOSE w : w = [p \in 1 .. N |-> Body(w, p)]
           Whole(p) == /\ WordCount(ws[p]) # 0
                       /\ p + WordCount(ws[p]) <= Len(ws) + 1
                       /\ Opcode(ws[p]) = 0 => WordCount(ws[p]) = 1
           last == {p \in 1 .. N : p > Len(ws) \/ ~Whole(p)}
           base == [p \in 1 .. N |-> p > Len(ws)]
           next == [p \in 1 .. N |-> IF p > Len(ws) THEN 0 ELSE p + WordCount(ws[p])]
           step == [x \in (1 .. N) \X BOOLEAN |-> x[2]]
<1>1. \A p \in 1 .. Len(ws) : WordCount(ws[p]) \in Nat
  <2>1. \A p \in 1 .. Len(ws) : ws[p] \in Nat
    OBVIOUS
  <2> QED BY <2>1, WordParts
<1>2. N \in Nat /\ N = Len(ws) + 1
  OBVIOUS
<1>3. /\ last \in SUBSET (1 .. N) /\ base \in [1 .. N -> BOOLEAN]
      /\ next \in [1 .. N -> Nat] /\ step \in [(1 .. N) \X BOOLEAN -> BOOLEAN]
  BY <1>1, SMTT(30)
<1>4. \A p \in (1 .. N) \ last : next[p] \in p + 1 .. N
  BY <1>1
<1>t. Tells(N, BOOLEAN, last, base, next, step)
  <2> HIDE DEF last, base, next, step, N
  <2> QED BY <1>2, <1>3, <1>4 DEF Tells
<1>5. PICK f \in [1 .. N -> BOOLEAN] : \A p \in 1 .. N :
            f[p] = IF p \in last THEN base[p] ELSE step[<<p, f[next[p]]>>]
  <2> HIDE DEF last, base, next, step, N
  <2>1. PICK f \in [1 .. N -> BOOLEAN] : Told(f, N, last, base, next, step)
    BY <1>t, Backwards
  <2> QED BY <2>1 DEF Told
<1>6. ASSUME NEW p \in 1 .. N PROVE f[p] = Body(f, p)
  <2>1. CASE p > Len(ws)
    BY <1>5, <2>1
  <2>2. CASE ~(p > Len(ws)) /\ ~Whole(p)
    <3>1. f[p] = FALSE
      BY <1>5, <2>2
    <3> QED BY <2>2, <3>1
  <2>3. CASE ~(p > Len(ws)) /\ Whole(p)
    <3>1. p \in 1 .. Len(ws) /\ p \notin last /\ next[p] = p + WordCount(ws[p])
      BY <2>3
    <3>2. next[p] \in 1 .. N
      BY <1>4, <3>1
    <3>3. f[p] = f[p + WordCount(ws[p])]
      BY <1>5, <3>1, <3>2
    <3> QED BY <2>3, <3>3
  <2> QED BY <2>1, <2>2, <2>3
<1>7. f = [p \in 1 .. N |-> Body(f, p)]
  BY <1>6
<1>8. walk = [p \in 1 .. N |-> Body(walk, p)]
  <2> HIDE DEF Body
  <2> QED BY <1>7
<1>9. \A p \in 1 .. N : walk[p] = Body(walk, p)
  BY <1>8
<1>10. Validate(ws) <=> Len(ws) >= 5 /\ ws[1] = Magic /\ walk[6]
  BY DEF Validate
<1>11. \A p \in 1 .. N : Body(walk, p) \in BOOLEAN
  OBVIOUS
<1>12. walk \in [1 .. N -> BOOLEAN]
  <2> HIDE DEF walk, Body
  <2> QED BY <1>8, <1>11
<1> HIDE DEF walk
<1> QED BY <1>9, <1>10, <1>12 DEF Walks

Instr == [at : Nat, words : Seq(Nat)]

\* The instruction at p, if the words lead to a whole one.
Breaks(ws, p) ==
    LET length == IF p > Len(ws) THEN 0 ELSE LengthIn(ws[p])
    IN length = 0 \/ p + length > Len(ws) + 1
InstrAt(ws, p) == [at |-> p, words |-> SubSeq(ws, p, p + LengthIn(ws[p]) - 1)]

\* The instructions the reader finds from each position on.
Reads(ws, f) ==
    /\ f \in [1..(Len(ws) + 1) -> Seq(Instr)]
    /\ \A p \in 1..(Len(ws) + 1) :
        f[p] = IF Breaks(ws, p) THEN <<>> ELSE <<InstrAt(ws, p)>> \o f[p + LengthIn(ws[p])]

\* The reader's recursion has a solution, and the instructions are its value at word
\* 6.
LEMMA ReaderReads ==
    ASSUME NEW ws \in Seq(Nat)
    PROVE  \E f : Reads(ws, f) /\ Instructions(ws) = f[6]
<1> DEFINE N == Len(ws) + 1
           Body(f, p) == IF Breaks(ws, p) THEN <<>>
                         ELSE <<InstrAt(ws, p)>> \o f[p + LengthIn(ws[p])]
           from == CHOOSE f : f = [p \in 1 .. N |-> Body(f, p)]
           last == {p \in 1 .. N : Breaks(ws, p)}
           base == [p \in 1 .. N |-> <<>>]
           next == [p \in 1 .. N |-> IF Breaks(ws, p) THEN 0 ELSE p + LengthIn(ws[p])]
           step == [x \in (1 .. N) \X Seq(Instr) |->
                      IF Breaks(ws, x[1]) THEN <<>> ELSE <<InstrAt(ws, x[1])>> \o x[2]]
<1>1. \A p \in 1 .. Len(ws) : LengthIn(ws[p]) \in Nat
  <2>1. \A p \in 1 .. Len(ws) : ws[p] \in Nat
    OBVIOUS
  <2> QED BY <2>1, WordParts
<1>2. N \in Nat /\ N = Len(ws) + 1
  OBVIOUS
<1>3. ASSUME NEW p \in 1 .. N, ~Breaks(ws, p)
      PROVE  /\ p \in 1 .. Len(ws) /\ LengthIn(ws[p]) # 0
             /\ p + LengthIn(ws[p]) \in p + 1 .. N
             /\ InstrAt(ws, p) \in Instr
  <2>1. p \in 1 .. Len(ws)
    BY <1>3 DEF Breaks
  <2>2. LengthIn(ws[p]) # 0 /\ p + LengthIn(ws[p]) <= N
    BY <1>3, <2>1, <1>1 DEF Breaks
  <2>3. SubSeq(ws, p, p + LengthIn(ws[p]) - 1) \in Seq(Nat)
    BY <1>1, <2>1, <2>2, SMTT(30)
  <2> QED BY <1>1, <2>1, <2>2, <2>3, SMTT(30) DEF InstrAt, Instr
<1>4. /\ last \in SUBSET (1 .. N) /\ base \in [1 .. N -> Seq(Instr)]
      /\ next \in [1 .. N -> Nat]
      /\ \A p \in (1 .. N) \ last : next[p] \in p + 1 .. N
  BY <1>3
<1>5. step \in [(1 .. N) \X Seq(Instr) -> Seq(Instr)]
  <2>1. ASSUME NEW p \in 1 .. N, NEW s \in Seq(Instr), ~Breaks(ws, p)
        PROVE  <<InstrAt(ws, p)>> \o s \in Seq(Instr)
    BY <1>3, <2>1
  <2> QED BY <2>1
<1>6. Tells(N, Seq(Instr), last, base, next, step)
  <2> HIDE DEF last, base, next, step, N
  <2> QED BY <1>2, <1>4, <1>5 DEF Tells
<1>7. PICK f \in [1 .. N -> Seq(Instr)] : Told(f, N, last, base, next, step)
  <2> HIDE DEF last, base, next, step, N
  <2> QED BY <1>6, Backwards
<1>8. ASSUME NEW p \in 1 .. N PROVE f[p] = Body(f, p)
  <2>1. CASE Breaks(ws, p)
    BY <1>7, <2>1 DEF Told
  <2>2. CASE ~Breaks(ws, p)
    <3>1. /\ p \notin last /\ next[p] = p + LengthIn(ws[p]) /\ next[p] \in 1 .. N
          /\ f[next[p]] \in Seq(Instr)
      BY <1>3, <2>2
    <3>2. f[p] = step[<<p, f[next[p]]>>]
      <4> HIDE DEF step, next, last, base, N
      <4> QED BY <1>7, <3>1 DEF Told
    <3>3. f[p] = <<InstrAt(ws, p)>> \o f[next[p]]
      BY <2>2, <3>1, <3>2
    <3> QED BY <2>2, <3>1, <3>3
  <2> QED BY <2>1, <2>2
<1>9. f = [p \in 1 .. N |-> Body(f, p)]
  BY <1>8
<1>10. from = [p \in 1 .. N |-> Body(from, p)]
  <2> HIDE DEF Body
  <2> QED BY <1>9
<1>11. \A p \in 1 .. N : from[p] = Body(from, p)
  BY <1>10
<1>12. Instructions(ws) = from[6]
  BY Zenon DEF Instructions, Breaks, InstrAt
<1>13. DOMAIN from = 1 .. N
  <2> HIDE DEF from, Body
  <2> QED BY <1>10
<1> HIDE DEF from
<1> DEFINE T == {n \in 0 .. N : \A p \in 1 .. N : N - n < p => from[p] \in Seq(Instr)}
<1>14. 0 \in T
  OBVIOUS
<1>15. ASSUME NEW n \in 0 .. N - 1, n \in T PROVE n + 1 \in T
  <2>1. ASSUME NEW p \in 1 .. N, N - (n + 1) < p PROVE from[p] \in Seq(Instr)
    <3>1. CASE Breaks(ws, p)
      <4>1. from[p] = <<>>
        BY <1>11, <3>1, Zenon
      <4> QED BY <4>1
    <3>2. CASE ~Breaks(ws, p)
      <4>1. /\ p + LengthIn(ws[p]) \in 1 .. N /\ N - n < p + LengthIn(ws[p])
            /\ InstrAt(ws, p) \in Instr
        BY <1>3, <2>1, <3>2
      <4>2. from[p + LengthIn(ws[p])] \in Seq(Instr)
        BY <1>15, <4>1
      <4>3. from[p] = <<InstrAt(ws, p)>> \o from[p + LengthIn(ws[p])]
        BY <1>11, <3>2
      <4> QED BY <4>1, <4>2, <4>3
    <3> QED BY <3>1, <3>2
  <2> QED BY <2>1
<1>16. 0 .. N \subseteq T
  <2> HIDE DEF T, N
  <2> QED BY <1>2, <1>14, <1>15, SetInductionUpTo
<1>17. N \in T
  <2> HIDE DEF T, N
  <2> QED BY <1>2, <1>16
<1>18. \A p \in 1 .. N : from[p] \in Seq(Instr)
  BY <1>17
<1>19. from \in [1 .. N -> Seq(Instr)]
  BY <1>10, <1>13, <1>18
<1> QED BY <1>11, <1>12, <1>19 DEF Reads

\* An instruction that is whole: its first word holds its length, and a Nop has one.
Whole(inst) ==
    /\ inst \in Seq(Nat) /\ Len(inst) # 0
    /\ WordCount(inst[1]) = Len(inst)
    /\ Opcode(inst[1]) = 0 => Len(inst) = 1

\* An element at the front and one at the back can be put there in either order.
LEMMA ConsAppend ==
    ASSUME NEW S, NEW x \in S, NEW s \in Seq(S), NEW y \in S
    PROVE  <<x>> \o Append(s, y) = Append(<<x>> \o s, y)
OBVIOUS

\* The reader after a whole instruction was appended finds what it found before and
\* then that instruction, and validate accepts what it accepted.
LEMMA OneMore ==
    ASSUME NEW ws \in Seq(Nat), Validate(ws), NEW inst, Whole(inst)
    PROVE  /\ ws \o inst \in Seq(Nat)
           /\ Validate(ws \o inst)
           /\ Instructions(ws) \in Seq(Instr)
           /\ [at |-> Len(ws) + 1, words |-> inst] \in Instr
           /\ Instructions(ws \o inst)
                = Append(Instructions(ws), [at |-> Len(ws) + 1, words |-> inst])
<1> DEFINE L == Len(ws)
           both == ws \o inst
           in == [at |-> L + 1, words |-> inst]
<1>1. /\ inst \in Seq(Nat) /\ Len(inst) \in Nat \ {0} /\ L \in Nat
      /\ WordCount(inst[1]) = Len(inst) /\ (Opcode(inst[1]) = 0 => Len(inst) = 1)
  BY DEF Whole
<1>2. both \in Seq(Nat) /\ Len(both) = L + Len(inst)
  BY <1>1
<1>3. both[L + 1] = inst[1]
  BY <1>1
<1>4. \A p \in 1 .. L : both[p] = ws[p]
  BY <1>1
<1>5. in \in Instr
  BY <1>1 DEF Instr
<1>6. PICK w : Walks(ws, w) /\ (Validate(ws) <=> L >= 5 /\ ws[1] = Magic /\ w[6])
  BY ValidateWalks
<1>7. PICK v : Walks(both, v) /\ (Validate(both) <=> Len(both) >= 5 /\ both[1] = Magic /\ v[6])
  BY <1>2, ValidateWalks
<1>8. PICK f : Reads(ws, f) /\ Instructions(ws) = f[6]
  BY ReaderReads
<1>9. PICK g : Reads(both, g) /\ Instructions(both) = g[6]
  BY <1>2, ReaderReads
<1>10. /\ \A p \in 1 .. L : WordCount(ws[p]) \in Nat /\ LengthIn(ws[p]) = WordCount(ws[p])
       /\ LengthIn(inst[1]) = WordCount(inst[1])
  <2>1. inst[1] \in Nat /\ \A p \in 1 .. L : ws[p] \in Nat
    BY <1>1
  <2> QED BY <2>1, WordParts
<1> HIDE DEF both, in
<1> DEFINE Kept(p) == w[p] => v[p] /\ g[p] = Append(f[p], in)
           T == {n \in 0 .. L + 1 : \A p \in 1 .. L + 1 : L + 1 - n <= p => Kept(p)}
<1>11. Kept(L + 1)
  <2>1. L + 1 \in 1 .. Len(both) + 1 /\ L + 1 <= Len(both)
        /\ Len(both) + 1 \in 1 .. Len(both) + 1
        /\ (L + 1) + Len(inst) = Len(both) + 1
    BY <1>1, <1>2
  <2>2. v[Len(both) + 1] /\ v[L + 1]
    <3>1. v[Len(both) + 1]
      <4>1. Len(both) + 1 > Len(both)
        BY <1>1, <1>2
      <4> QED BY <1>7, <2>1, <4>1 DEF Walks
    <3>2. WordCount(both[L + 1]) = Len(inst) /\ (Opcode(both[L + 1]) = 0 => Len(inst) = 1)
      BY <1>1, <1>3
    <3>3. Len(inst) # 0 /\ (L + 1) + WordCount(both[L + 1]) = Len(both) + 1
      BY <1>1, <2>1, <3>2
    <3>4. Len(both) + 1 <= Len(both) + 1
      BY <1>1, <1>2
    <3> QED BY <1>7, <2>1, <3>1, <3>2, <3>3, <3>4 DEF Walks
  <2>3. f[L + 1] = <<>>
    <3>1. Breaks(ws, L + 1)
      BY <1>1 DEF Breaks
    <3>2. L + 1 \in 1 .. Len(ws) + 1
      BY <1>1
    <3> QED BY <1>8, <3>1, <3>2 DEF Reads
  <2>4. g[Len(both) + 1] = <<>>
    <3>1. Breaks(both, Len(both) + 1)
      BY <1>1, <1>2 DEF Breaks
    <3> QED BY <1>9, <2>1, <3>1 DEF Reads
  <2>5. ~Breaks(both, L + 1)
    <3>1. LengthIn(both[L + 1]) = Len(inst)
      BY <1>1, <1>3, <1>10
    <3>2. ~(L + 1 > Len(both)) /\ ~((L + 1) + Len(inst) > Len(both) + 1)
      BY <1>1, <1>2
    <3> QED BY <1>1, <3>1, <3>2 DEF Breaks
  <2>6. InstrAt(both, L + 1) = in
    <3>1. SubSeq(both, L + 1, L + 1 + Len(inst) - 1) = inst
      BY <1>1 DEF both
    <3> QED BY <1>1, <1>3, <1>10, <3>1 DEF InstrAt, in
  <2>7. g[L + 1] = <<in>> \o g[(L + 1) + Len(inst)]
    BY <1>1, <1>3, <1>9, <1>10, <2>1, <2>5, <2>6 DEF Reads
  <2>8. g[L + 1] = <<in>>
    <3>1. g[L + 1] = <<in>> \o <<>>
      BY <2>1, <2>4, <2>7
    <3>2. <<in>> \in Seq(Instr)
      BY <1>5
    <3> QED BY <3>1, <3>2
  <2> QED BY <2>2, <2>3, <2>8
<1>12. 0 \in T
  <2>1. 0 \in 0 .. L + 1 /\ \A p \in 1 .. L + 1 : L + 1 - 0 <= p => p = L + 1
    BY <1>1
  <2> HIDE DEF Kept
  <2> QED BY <1>11, <2>1
<1>13. ASSUME NEW n \in 0 .. (L + 1) - 1, n \in T PROVE n + 1 \in T
  <2>1. ASSUME NEW p \in 1 .. L + 1, L + 1 - (n + 1) <= p, p # L + 1, w[p]
        PROVE  v[p] /\ g[p] = Append(f[p], in)
    <3> DEFINE q == p + WordCount(ws[p])
    <3>1. p \in 1 .. L /\ p \in 1 .. Len(both) + 1 /\ p <= Len(both)
      BY <1>1, <1>2, <2>1, SMTT(30)
    <3>2. /\ WordCount(ws[p]) # 0 /\ q <= L + 1 /\ w[q]
          /\ Opcode(ws[p]) = 0 => WordCount(ws[p]) = 1
      BY <1>6, <2>1, <3>1, SMTT(30) DEF Walks
    <3>3. q \in 1 .. L + 1 /\ L + 1 - n <= q /\ q <= Len(both) + 1
      <4>1. WordCount(ws[p]) \in Nat
        BY <1>10, <3>1
      <4>2. q \in Nat /\ p < q
        BY <3>1, <3>2, <4>1, SMTT(30)
      <4> HIDE DEF q
      <4>3. L + 1 <= Len(both) + 1 /\ Len(both) \in Nat
        BY <1>1, <1>2
      <4>4. L \in Nat /\ n \in 0 .. L /\ p \in 1 .. L /\ L - n <= p /\ q <= L + 1
        BY <1>1, <2>1, <3>1, <3>2
      <4> HIDE DEF L
      <4> QED BY <4>2, <4>3, <4>4
    <3>4. v[q] /\ g[q] = Append(f[q], in)
      BY <1>13, <3>2, <3>3
    <3>5. v[p]
      BY <1>4, <1>7, <3>1, <3>2, <3>3, <3>4 DEF Walks
    <3>6. ~Breaks(ws, p) /\ ~Breaks(both, p)
      BY <1>4, <1>10, <3>1, <3>2, <3>3, SMTT(30) DEF Breaks
    <3>7. InstrAt(both, p) = InstrAt(ws, p)
      <4>1. q - 1 \in p .. L
        BY <1>10, <3>1, <3>2, SMTT(30)
      <4>2. SubSeq(both, p, q - 1) = SubSeq(ws, p, q - 1)
        <5>1. p \in 1 .. Len(ws) /\ q - 1 \in 1 .. Len(ws)
          BY <1>1, <3>1, <4>1
        <5> HIDE DEF q
        <5> QED BY <1>1, <5>1, SubSeqOfConcat1 DEF both
      <4>3. LengthIn(both[p]) = WordCount(ws[p]) /\ LengthIn(ws[p]) = WordCount(ws[p])
        BY <1>4, <1>10, <3>1
      <4>4. /\ InstrAt(both, p) = [at |-> p, words |-> SubSeq(both, p, q - 1)]
            /\ InstrAt(ws, p) = [at |-> p, words |-> SubSeq(ws, p, q - 1)]
        <5>1. p + LengthIn(both[p]) - 1 = q - 1 /\ p + LengthIn(ws[p]) - 1 = q - 1
          BY <1>10, <3>1, <4>3
        <5> QED BY <5>1, Zenon DEF InstrAt
      <4> QED BY <4>2, <4>4
    <3>8. g[p] = <<InstrAt(ws, p)>> \o g[q] /\ f[p] = <<InstrAt(ws, p)>> \o f[q]
      <4>1. LengthIn(both[p]) = WordCount(ws[p]) /\ LengthIn(ws[p]) = WordCount(ws[p])
        BY <1>4, <1>10, <3>1
      <4>2. g[p] = <<InstrAt(both, p)>> \o g[p + LengthIn(both[p])]
        BY <1>9, <3>1, <3>6 DEF Reads
      <4>3. f[p] = <<InstrAt(ws, p)>> \o f[p + LengthIn(ws[p])]
        BY <1>8, <2>1, <3>6 DEF Reads
      <4> QED BY <3>7, <4>1, <4>2, <4>3
    <3>9. f[q] \in Seq(Instr) /\ f[p] \in Seq(Instr)
      BY <1>8, <2>1, <3>3 DEF Reads
    <3>10. g[p] = Append(f[p], in)
      <4> DEFINE x == InstrAt(ws, p)
                 s == f[q]
      <4>1. <<x>> \o Append(s, in) = Append(<<x>> \o s, in)
        <5>1. x \in Instr /\ s \in Seq(Instr)
          <6>1. Len(f[p]) \in Nat /\ f[p] = <<x>> \o s /\ f[p] \in Seq(Instr) /\ s \in Seq(Instr)
            BY <3>8, <3>9
          <6> HIDE DEF x, s
          <6>2. f[p][1] = x /\ 1 \in 1 .. Len(f[p])
            BY <6>1
          <6> QED BY <6>1, <6>2
        <5> HIDE DEF x, s
        <5> QED BY <1>5, <5>1, ConsAppend
      <4> QED BY <3>4, <3>8, <4>1
    <3> QED BY <3>5, <3>10
  <2>2. ASSUME NEW p \in 1 .. L + 1, L + 1 - (n + 1) <= p PROVE Kept(p)
    BY <1>11, <2>1, <2>2
  <2> HIDE DEF Kept
  <2> QED BY <2>2, <1>1
<1>14. L + 1 \in T
  <2>1. L + 1 \in Nat /\ L + 1 \in 0 .. L + 1
    BY <1>1
  <2>2. 0 .. L + 1 \subseteq T
    <3> HIDE DEF T
    <3> QED BY <1>12, <1>13, <2>1, SetInductionUpTo
  <2> QED BY <2>1, <2>2
<1>15. L >= 5 /\ ws[1] = Magic /\ w[6]
  BY <1>6
<1>16. Kept(6)
  <2>1. 6 \in 1 .. L + 1 /\ L + 1 - (L + 1) <= 6
    BY <1>1, <1>15, SMTT(30)
  <2> HIDE DEF Kept
  <2> QED BY <1>14, <2>1
<1>17. Instructions(ws) \in Seq(Instr)
  BY <1>1, <1>8, <1>15, SMTT(30) DEF Reads
<1>18. both[1] = Magic /\ Len(both) >= 5
  <2>1. 1 \in 1 .. L
    BY <1>1, <1>15
  <2> QED BY <1>1, <1>2, <1>4, <1>15, <2>1, SMTT(30)
<1> QED BY <1>2, <1>5, <1>7, <1>8, <1>9, <1>15, <1>16, <1>17, <1>18 DEF both, in

\* Lists that agree between two places have the same part there.
LEMMA SubSeqSame ==
    ASSUME NEW S, NEW s \in Seq(S), NEW t \in Seq(S), Len(t) = Len(s),
           NEW a \in 1 .. Len(s), NEW b \in 1 .. Len(s), \A k \in a .. b : t[k] = s[k]
    PROVE  SubSeq(t, a, b) = SubSeq(s, a, b)
BY SMTT(30)

\* The reader and validate look at the words of the header only for its first word.
LEMMA BoundUnread ==
    ASSUME NEW ws \in Seq(Nat), NEW vs \in Seq(Nat), Len(vs) = Len(ws),
           \A k \in 1 .. Len(ws) : k # 4 => vs[k] = ws[k]
    PROVE  /\ Validate(vs) <=> Validate(ws)
           /\ Len(ws) >= 5 => Instructions(vs) = Instructions(ws)
<1> DEFINE L == Len(ws)
<1>1. L \in Nat /\ Len(vs) = L
  OBVIOUS
<1>2. PICK w : Walks(ws, w) /\ (Validate(ws) <=> L >= 5 /\ ws[1] = Magic /\ w[6])
  BY ValidateWalks
<1>3. PICK v : Walks(vs, v) /\ (Validate(vs) <=> L >= 5 /\ vs[1] = Magic /\ v[6])
  BY ValidateWalks
<1>4. PICK f : Reads(ws, f) /\ Instructions(ws) = f[6]
  BY ReaderReads
<1>5. PICK g : Reads(vs, g) /\ Instructions(vs) = g[6]
  BY ReaderReads
<1>6. \A p \in 1 .. L : WordCount(ws[p]) \in Nat /\ LengthIn(ws[p]) = WordCount(ws[p])
  <2>1. \A p \in 1 .. L : ws[p] \in Nat
    OBVIOUS
  <2> QED BY <2>1, WordParts
<1> DEFINE Same(p) == (v[p] <=> w[p]) /\ g[p] = f[p]
           T == {n \in 0 .. L + 1 : \A p \in 1 .. L + 1 : p > 5 /\ L + 1 - n < p => Same(p)}
<1>7. 0 \in T
  OBVIOUS
<1>8. ASSUME NEW n \in 0 .. (L + 1) - 1, n \in T PROVE n + 1 \in T
  <2>1. ASSUME NEW p \in 1 .. L + 1, p > 5, L + 1 - (n + 1) < p PROVE Same(p)
    <3>1. CASE p > L
      <4>1. v[p] /\ w[p]
        BY <1>1, <1>2, <1>3, <3>1 DEF Walks
      <4>2. Breaks(ws, p) /\ Breaks(vs, p)
        BY <1>1, <3>1 DEF Breaks
      <4> QED BY <1>1, <1>4, <1>5, <4>1, <4>2 DEF Reads
    <3>2. CASE ~(p > L)
      <4> DEFINE c == WordCount(ws[p])
                 q == p + c
      <4>0. q = p + c
        OBVIOUS
      <4>1. p \in 1 .. L /\ vs[p] = ws[p] /\ c \in Nat
        BY <1>6, <2>1, <3>2, SMTT(30)
      <4>2. CASE c # 0 /\ q <= L + 1
        <5>1. q \in 1 .. L + 1 /\ q > 5 /\ L + 1 - n < q
          <6> HIDE DEF c, q
          <6> QED BY <1>1, <2>1, <4>0, <4>1, <4>2
        <5>2. Same(q)
          BY <1>8, <5>1
        <5>3. v[p] <=> w[p]
          BY <1>1, <1>2, <1>3, <3>2, <4>1, <4>2, <5>2, SMTT(30) DEF Walks
        <5>4. LengthIn(ws[p]) = c /\ LengthIn(vs[p]) = c
          BY <1>6, <4>1
        <5>5. ~Breaks(ws, p) /\ ~Breaks(vs, p)
          <6> HIDE DEF c
          <6> QED BY <1>1, <3>2, <4>1, <4>2, <5>4 DEF Breaks
        <5>6. SubSeq(vs, p, q - 1) = SubSeq(ws, p, q - 1)
          <6>1. p \in 1 .. Len(ws) /\ q - 1 \in 1 .. Len(ws)
            <7>1. q \in 1 .. L + 1 /\ p < q
              BY <4>0, <4>1, <4>2, <5>1
            <7> HIDE DEF c, q
            <7> QED BY <1>1, <4>1, <7>1
          <6> HIDE DEF c, q
          <6>2. \A k \in p .. q - 1 : vs[k] = ws[k]
            <7>1. \A k \in p .. q - 1 : k \in 1 .. Len(ws) /\ k # 4
              BY <1>1, <2>1, <6>1
            <7> QED BY <7>1
          <6> QED BY <6>1, <6>2, SubSeqSame
        <5>7. InstrAt(vs, p) = InstrAt(ws, p)
          <6>1. p + LengthIn(vs[p]) - 1 = q - 1 /\ p + LengthIn(ws[p]) - 1 = q - 1
            BY <4>1, <5>4
          <6> QED BY <5>6, <6>1, Zenon DEF InstrAt
        <5>8. g[p] = <<InstrAt(vs, p)>> \o g[q] /\ f[p] = <<InstrAt(ws, p)>> \o f[q]
          <6>1. g[p] = <<InstrAt(vs, p)>> \o g[p + LengthIn(vs[p])]
            BY <1>1, <1>5, <4>1, <5>5 DEF Reads
          <6>2. f[p] = <<InstrAt(ws, p)>> \o f[p + LengthIn(ws[p])]
            BY <1>4, <2>1, <5>5 DEF Reads
          <6> QED BY <5>4, <6>1, <6>2
        <5> QED BY <5>2, <5>3, <5>7, <5>8
      <4>3. CASE ~(c # 0 /\ q <= L + 1)
        <5>1. ~v[p] /\ ~w[p]
          BY <1>1, <1>2, <1>3, <3>2, <4>1, <4>3 DEF Walks
        <5>2. LengthIn(ws[p]) = c /\ LengthIn(vs[p]) = c
          BY <1>6, <4>1
        <5>3. c = 0 \/ p + c > L + 1
          BY <4>1, <4>3
        <5>4. Breaks(ws, p) /\ Breaks(vs, p)
          <6> HIDE DEF c
          <6> QED BY <1>1, <5>2, <5>3 DEF Breaks
        <5> QED BY <1>1, <1>4, <1>5, <5>1, <5>4 DEF Reads
      <4> QED BY <4>2, <4>3
    <3> QED BY <3>1, <3>2
  <2> HIDE DEF Same
  <2> QED BY <2>1
<1>9. L + 1 \in T
  <2>1. L + 1 \in Nat /\ L + 1 \in 0 .. L + 1
    BY <1>1
  <2>2. 0 .. L + 1 \subseteq T
    <3> HIDE DEF T
    <3> QED BY <1>7, <1>8, <2>1, SetInductionUpTo
  <2> QED BY <2>1, <2>2
<1>10. L >= 5 => Same(6)
  <2> HIDE DEF Same
  <2> QED BY <1>1, <1>9
<1>11. L >= 5 => vs[1] = ws[1]
  BY <1>1
<1> QED BY <1>2, <1>3, <1>4, <1>5, <1>10, <1>11

---------------------------------------------------------------------------
\* Programs, one instruction after the other

\* The ids a program defines; no two of its instructions define the same one.
Defs(P) == {ResultOf(P[k]) : k \in Results(P)}
Once(P) == \A j, k \in Results(P) : ResultOf(P[j]) = ResultOf(P[k]) => j = k

\* What an instruction uses is among D, but for the component type of a vector type.
Uses(in, D) == IdOperands(in) \ D = IF OpOf(in) = 23 THEN {0} ELSE {}
Before(P, k) == {ResultOf(P[j]) : j \in Results(P) \cap 1..(k - 1)}
Sound(P) == \A k \in DOMAIN P : Uses(P[k], Before(P, k))

\* What one instruction more does to the ids a program defines and uses.
LEMMA AppendProgram ==
    ASSUME NEW P \in Seq(Instr), NEW in \in Instr
    PROVE  LET Q == Append(P, in)
               own == IF ResultAt(OpOf(in)) = 0 THEN {} ELSE {ResultOf(in)}
           IN /\ Q \in Seq(Instr) /\ Len(Q) = Len(P) + 1 /\ Q[Len(Q)] = in
              /\ \A k \in 1..Len(P) : Q[k] = P[k]
              /\ Defs(Q) = Defs(P) \cup own
              /\ Once(P) /\ own \cap Defs(P) = {} => Once(Q)
              /\ Sound(P) /\ Uses(in, Defs(P)) => Sound(Q)
<1> DEFINE Q == Append(P, in)
           L == Len(P)
           own == IF ResultAt(OpOf(in)) = 0 THEN {} ELSE {ResultOf(in)}
<1>1. /\ Q \in Seq(Instr) /\ Len(Q) = L + 1 /\ Q[L + 1] = in /\ L \in Nat
      /\ \A k \in 1..L : Q[k] = P[k]
  OBVIOUS
<1>2. DOMAIN Q = 1 .. L + 1 /\ DOMAIN P = 1 .. L
  OBVIOUS
<1> HIDE DEF Q, L
<1>3. Results(P) \subseteq 1 .. L /\ Results(Q) \cap 1 .. L = Results(P)
  BY <1>1, <1>2 DEF Results
<1>4. ASSUME ResultAt(OpOf(in)) = 0
      PROVE  Defs(Q) = Defs(P) \cup own /\ (Once(P) /\ own \cap Defs(P) = {} => Once(Q))
  <2>1. Results(Q) = Results(P)
    <3>1. L + 1 \notin Results(Q)
      BY <1>1, <1>4 DEF Results
    <3>2. Results(Q) \subseteq 1 .. L + 1
      BY <1>2 DEF Results
    <3>3. \A k \in 1 .. L + 1 : k \in 1 .. L \/ k = L + 1
      BY <1>1
    <3> QED BY <1>3, <3>1, <3>2, <3>3
  <2>2. \A k \in Results(P) : Q[k] = P[k]
    BY <1>1, <1>3
  <2>3. Defs(Q) = Defs(P)
    BY <2>1, <2>2, Zenon DEF Defs
  <2>4. Once(P) => Once(Q)
    BY <2>1, <2>2, Zenon DEF Once
  <2>5. own = {}
    BY <1>4
  <2> HIDE DEF own
  <2> QED BY <2>3, <2>4, <2>5
<1>5. ASSUME ResultAt(OpOf(in)) # 0
      PROVE  Defs(Q) = Defs(P) \cup own /\ (Once(P) /\ own \cap Defs(P) = {} => Once(Q))
  <2>1. Results(Q) = Results(P) \cup {L + 1}
    <3>1. L + 1 \in Results(Q)
      BY <1>1, <1>2, <1>5 DEF Results
    <3>2. Results(Q) \subseteq 1 .. L + 1
      BY <1>2 DEF Results
    <3>3. \A k \in 1 .. L + 1 : k \in 1 .. L \/ k = L + 1
      BY <1>1
    <3> QED BY <1>3, <3>1, <3>2, <3>3
  <2>2. \A k \in Results(P) : Q[k] = P[k]
    BY <1>1, <1>3
  <2>3. Defs(Q) = Defs(P) \cup {ResultOf(in)}
    <3>1. Defs(Q) = {ResultOf(Q[k]) : k \in Results(P)} \cup {ResultOf(Q[L + 1])}
      BY <2>1, Zenon DEF Defs
    <3>2. {ResultOf(Q[k]) : k \in Results(P)} = Defs(P)
      BY <2>2, Zenon DEF Defs
    <3> QED BY <1>1, <3>1, <3>2
  <2>4. ASSUME Once(P), ResultOf(in) \notin Defs(P) PROVE Once(Q)
    <3>1. \A k \in Results(P) : ResultOf(Q[k]) # ResultOf(Q[L + 1])
      BY <1>1, <2>2, <2>4, Zenon DEF Defs
    <3>2. \A j, k \in Results(P) : ResultOf(Q[j]) = ResultOf(Q[k]) => j = k
      BY <2>2, <2>4, Zenon DEF Once
    <3> QED BY <2>1, <3>1, <3>2, Zenon DEF Once
  <2>5. own = {ResultOf(in)}
    BY <1>5
  <2> HIDE DEF own
  <2> QED BY <2>3, <2>4, <2>5
<1>6. ASSUME Sound(P), Uses(in, Defs(P)) PROVE Sound(Q)
  <2>1. ASSUME NEW k \in 1 .. L PROVE Uses(Q[k], Before(Q, k))
    <3>1. Results(Q) \cap 1..(k - 1) = Results(P) \cap 1..(k - 1)
      BY <1>1, <1>3
    <3>2. \A j \in Results(P) : Q[j] = P[j]
      BY <1>1, <1>3
    <3>3. Before(Q, k) = Before(P, k)
      BY <3>1, <3>2, Zenon DEF Before
    <3>4. Uses(P[k], Before(P, k))
      BY <1>2, <1>6 DEF Sound
    <3> QED BY <1>1, <3>3, <3>4
  <2>2. Uses(Q[L + 1], Before(Q, L + 1))
    <3>1. Results(Q) \cap 1..((L + 1) - 1) = Results(P)
      BY <1>1, <1>3
    <3>2. \A j \in Results(P) : Q[j] = P[j]
      BY <1>1, <1>3
    <3>3. Before(Q, L + 1) = Defs(P)
      BY <3>1, <3>2, Zenon DEF Before, Defs
    <3> QED BY <1>1, <1>6, <3>3
  <2>3. \A k \in 1 .. L + 1 : k \in 1 .. L \/ k = L + 1
    BY <1>1
  <2> QED BY <1>2, <2>1, <2>2, <2>3 DEF Sound
<1>7. Defs(Q) = Defs(P) \cup own /\ (Once(P) /\ own \cap Defs(P) = {} => Once(Q))
  <2> HIDE DEF own
  <2> QED BY <1>4, <1>5
<1> QED BY <1>1, <1>6, <1>7 DEF L, Q

---------------------------------------------------------------------------
\* Modules whose ids are all defined

\* Q is P with more instructions behind it.
Longer(P, Q) == Len(P) <= Len(Q) /\ \A k \in 1..Len(P) : Q[k] = P[k]

\* Instructions one behind the other, the first behind the header and the last up to
\* the end of ws.
Laid(P, ws) ==
    /\ \A k \in DOMAIN P : 6 <= P[k].at /\ P[k].at <= Len(ws)
    /\ \A j, k \in DOMAIN P : j < k => P[j].at + Len(P[j].words) <= P[k].at
    /\ P = <<>> => Len(ws) = 5
    /\ P # <<>> => P[Len(P)].at + Len(P[Len(P)].words) = Len(ws) + 1

\* The words of a module and the next id, as they are when the header came first:
\* each id below the next is the result of one instruction, but for those in R.
Fine(ws, n, R) ==
    /\ ws \in Seq(Nat) /\ n \in Nat \ {0} /\ R \subseteq 1..(n - 1)
    /\ Validate(ws) /\ Instructions(ws) \in Seq(Instr)
    /\ Laid(Instructions(ws), ws)
    /\ Defs(Instructions(ws)) = (1..(n - 1)) \ R
    /\ Once(Instructions(ws))

At(ws, inst) == [at |-> Len(ws) + 1, words |-> inst]

\* One instruction more is laid behind the others.
LEMMA LaidMore ==
    ASSUME NEW ws \in Seq(Nat), Len(ws) >= 5, NEW P \in Seq(Instr), Laid(P, ws),
           NEW inst, Whole(inst), At(ws, inst) \in Instr
    PROVE  Laid(Append(P, At(ws, inst)), ws \o inst)
<1> DEFINE in == At(ws, inst)
           Q == Append(P, in)
           vs == ws \o inst
           L == Len(P)
<1>1. /\ in.at = Len(ws) + 1 /\ in.words = inst
      /\ Len(ws) \in Nat /\ inst \in Seq(Nat) /\ Len(inst) \in Nat \ {0}
  BY DEF At, Whole
<1>2. Len(vs) = Len(ws) + Len(inst)
  BY <1>1
<1>3. /\ L \in Nat /\ DOMAIN P = 1..L /\ DOMAIN Q = 1..(L + 1) /\ Len(Q) = L + 1
      /\ Q[L + 1] = in /\ \A k \in 1..L : Q[k] = P[k]
      /\ Q # <<>> /\ (L = 0 <=> P = <<>>)
  <2> HIDE DEF in
  <2> QED BY SMTT(30)
<1>4. \A k \in 1..L : P[k].at \in Nat /\ P[k].words \in Seq(Nat) /\ Len(P[k].words) \in Nat
  <2>1. \A k \in 1..L : P[k] \in Instr
    BY <1>3
  <2> QED BY <2>1, SMTT(30) DEF Instr
<1>6. \A k \in 1..L : 6 <= P[k].at /\ P[k].at <= Len(ws)
  BY <1>3, Zenon DEF Laid
<1>7. \A j, k \in 1..L : j < k => P[j].at + Len(P[j].words) <= P[k].at
  BY <1>3, Zenon DEF Laid
<1>12. P # <<>> => P[L].at + Len(P[L].words) = Len(ws) + 1
  BY Zenon DEF Laid
<1> HIDE DEF in, Q, vs, L
<1>5. \A k \in 1..L : P[k].at + Len(P[k].words) <= Len(ws) + 1
  <2>1. ASSUME NEW k \in 1..L, k # L
        PROVE  P[k].at + Len(P[k].words) <= P[L].at /\ P[L].at <= Len(ws)
    <3>1. L \in 1..L /\ k < L
      BY <1>3, <2>1
    <3> QED BY <1>6, <1>7, <3>1, Zenon
  <2>2. L # 0 => P[L].at + Len(P[L].words) = Len(ws) + 1
    BY <1>3, <1>12, Zenon
  <2>3. ASSUME NEW k \in 1..L PROVE P[k].at + Len(P[k].words) <= Len(ws) + 1
    <3>1. CASE k = L
      <4>1. L # 0
        BY <1>3
      <4>2. P[k].at + Len(P[k].words) = Len(ws) + 1
        BY <2>2, <3>1, <4>1, Zenon
      <4> QED BY <1>1, <4>2
    <3>2. CASE k # L
      <4>1. P[k].at + Len(P[k].words) <= P[L].at /\ P[L].at <= Len(ws)
        BY <2>1, <3>2, Zenon
      <4>2. L \in 1..L
        BY <1>3
      <4>3. P[k].at \in Nat /\ Len(P[k].words) \in Nat /\ P[L].at \in Nat
        BY <1>4, <4>2, Zenon
      <4> DEFINE a == P[k].at
                 n == Len(P[k].words)
                 b == P[L].at
                 m == Len(ws)
      <4>4. a \in Nat /\ n \in Nat /\ b \in Nat /\ m \in Nat /\ a + n <= b /\ b <= m
        BY <1>1, <4>1, <4>3, Zenon
      <4> HIDE DEF a, n, b, m
      <4>5. a + n <= m + 1
        BY <4>4
      <4> QED BY <4>5, Zenon DEF a, n, m
    <3> QED BY <3>1, <3>2
  <2> QED BY <2>3
<1>8. \A k \in 1..(L + 1) : k \in 1..L \/ k = L + 1
  BY <1>3
<1>9. \A k \in DOMAIN Q : 6 <= Q[k].at /\ Q[k].at <= Len(vs)
  <2>1. \A k \in 1..L : 6 <= Q[k].at /\ Q[k].at <= Len(vs)
    BY <1>1, <1>2, <1>3, <1>4, <1>6, SMTT(30)
  <2>2. 6 <= Q[L + 1].at /\ Q[L + 1].at <= Len(vs)
    BY <1>1, <1>2, <1>3, SMTT(30)
  <2> QED BY <1>3, <1>8, <2>1, <2>2
<1>10. \A j, k \in DOMAIN Q : j < k => Q[j].at + Len(Q[j].words) <= Q[k].at
  <2>1. \A j, k \in 1..L : j < k => Q[j].at + Len(Q[j].words) <= Q[k].at
    BY <1>3, <1>7
  <2>2. \A j \in 1..L : Q[j].at + Len(Q[j].words) <= Q[L + 1].at
    BY <1>1, <1>3, <1>5
  <2>3. \A j, k \in 1..(L + 1) : j < k => j \in 1..L
    BY <1>3
  <2> QED BY <1>3, <1>8, <2>1, <2>2, <2>3
<1>11. Q[Len(Q)].at + Len(Q[Len(Q)].words) = Len(vs) + 1
  BY <1>1, <1>2, <1>3
<1> QED BY <1>3, <1>9, <1>10, <1>11 DEF Laid, Q, vs, in

\* What comes after the instructions of ws lies behind all of ws.
LEMMA LaterPlaces ==
    ASSUME NEW ws \in Seq(Nat), NEW vs \in Seq(Nat), NEW P \in Seq(Instr), NEW Q \in Seq(Instr),
           Laid(P, ws), Laid(Q, vs), Longer(P, Q), NEW k \in 1..Len(Q), k > Len(P)
    PROVE  Q[k].at > Len(ws)
<1>1. Len(P) \in Nat /\ Len(Q) \in Nat /\ DOMAIN P = 1..Len(P) /\ DOMAIN Q = 1..Len(Q) /\ Len(ws) \in Nat
  OBVIOUS
<1>2. CASE P = <<>>
  <2>1. k \in DOMAIN Q
    BY <1>1
  <2>2. 6 <= Q[k].at /\ Len(ws) = 5
    BY <1>2, <2>1, Zenon DEF Laid
  <2>3. Q[k] \in Instr
    BY <2>1
  <2>4. Q[k].at \in Nat
    BY <2>3 DEF Instr
  <2> QED BY <2>2, <2>4
<1>3. CASE P # <<>>
  <2> DEFINE l == Len(P)
  <2>1. l \in 1..Len(P) /\ l \in 1..Len(Q) /\ l < k /\ k \in DOMAIN Q /\ l \in DOMAIN Q
    BY <1>1, <1>3 DEF Longer
  <2>2. Q[l] = P[l]
    BY <2>1 DEF Longer
  <2>3. Q[l].at + Len(Q[l].words) <= Q[k].at
    BY <2>1, Zenon DEF Laid
  <2>4. P[l].at + Len(P[l].words) = Len(ws) + 1
    BY <1>3, Zenon DEF Laid
  <2>6. Q[k] \in Instr
    BY <2>1
  <2>5. Q[k].at \in Nat
    BY <2>6 DEF Instr
  <2> HIDE DEF l
  <2> QED BY <1>1, <2>2, <2>3, <2>4, <2>5
<1> QED BY <1>2, <1>3

\* One instruction without a result.
LEMMA OneWithout ==
    ASSUME NEW ws, NEW n, NEW R, Fine(ws, n, R), NEW inst, Whole(inst),
           ResultAt(OpOf(At(ws, inst))) = 0
    PROVE  /\ Fine(ws \o inst, n, R)
           /\ Instructions(ws \o inst) = Append(Instructions(ws), At(ws, inst))
           /\ At(ws, inst) \in Instr
<1>1. /\ ws \in Seq(Nat) /\ Validate(ws)
  BY DEF Fine
<1>2. /\ ws \o inst \in Seq(Nat)
      /\ Validate(ws \o inst)
      /\ Instructions(ws) \in Seq(Instr)
      /\ At(ws, inst) \in Instr
      /\ Instructions(ws \o inst) = Append(Instructions(ws), At(ws, inst))
  BY <1>1, OneMore DEF At
<1> DEFINE P == Instructions(ws)
           Q == Instructions(ws \o inst)
           in == At(ws, inst)
<1>3. Q \in Seq(Instr) /\ Defs(Q) = Defs(P) \cup {} /\ (Once(P) => Once(Q))
  <2> HIDE DEF P, Q, in
  <2>1. Q = Append(P, in) /\ P \in Seq(Instr) /\ in \in Instr /\ ResultAt(OpOf(in)) = 0
    BY <1>2 DEF P, Q, in
  <2> QED BY <2>1, AppendProgram
<1>4. Laid(Q, ws \o inst)
  <2>1. Len(ws) >= 5 /\ Laid(P, ws)
    BY DEF Fine, Validate
  <2> QED BY <1>1, <1>2, <2>1, LaidMore
<1> QED BY <1>2, <1>3, <1>4 DEF Fine

\* One with a result, which is the next id.
LEMMA OneWith ==
    ASSUME NEW ws, NEW n, NEW R, Fine(ws, n, R), NEW inst, Whole(inst),
           ResultAt(OpOf(At(ws, inst))) # 0, ResultOf(At(ws, inst)) = n
    PROVE  /\ Fine(ws \o inst, n + 1, R)
           /\ Instructions(ws \o inst) = Append(Instructions(ws), At(ws, inst))
           /\ At(ws, inst) \in Instr
<1>1. /\ ws \in Seq(Nat) /\ Validate(ws) /\ n \in Nat \ {0}
  BY DEF Fine
<1>2. /\ ws \o inst \in Seq(Nat)
      /\ Validate(ws \o inst)
      /\ Instructions(ws) \in Seq(Instr)
      /\ At(ws, inst) \in Instr
      /\ Instructions(ws \o inst) = Append(Instructions(ws), At(ws, inst))
  BY <1>1, OneMore DEF At
<1> DEFINE P == Instructions(ws)
           Q == Instructions(ws \o inst)
           in == At(ws, inst)
<1>3. n \notin Defs(P)
  BY <1>1 DEF Fine
<1>4. /\ Q \in Seq(Instr) /\ Defs(Q) = Defs(P) \cup {n}
      /\ Once(P) => Once(Q)
  <2> HIDE DEF P, Q, in
  <2>1. Q = Append(P, in) /\ P \in Seq(Instr) /\ in \in Instr /\ ResultAt(OpOf(in)) # 0 /\ ResultOf(in) = n
    BY <1>2 DEF P, Q, in
  <2> QED BY <1>3, <2>1, AppendProgram
<1>5. Once(Q) /\ Defs(Q) = (1 .. (n + 1) - 1) \ R
  <2>1. Defs(P) = (1 .. n - 1) \ R /\ R \subseteq 1 .. n - 1 /\ Once(P)
    BY DEF Fine
  <2> HIDE DEF P, Q
  <2> QED BY <1>1, <1>4, <2>1
<1>6. R \subseteq 1 .. (n + 1) - 1 /\ n + 1 \in Nat \ {0}
  BY DEF Fine
<1>7. Laid(Q, ws \o inst)
  <2>1. Len(ws) >= 5 /\ Laid(P, ws)
    BY DEF Fine, Validate
  <2> QED BY <1>1, <1>2, <2>1, LaidMore
<1> QED BY <1>2, <1>4, <1>5, <1>6, <1>7 DEF Fine

---------------------------------------------------------------------------
\* What an emit method adds

Words(op, tail) == <<InstWord(op, Len(tail))>> \o tail
Made(e, op, tail) == At(e.words, Words(op, tail))

\* Opcodes and operands a first word can tell.
Fits(op, tail) ==
    /\ op \in 0..(OpMod - 1) /\ tail \in Seq(Nat) /\ Len(tail) + 1 < WcMod
    /\ op = 0 => tail = <<>>

\* The instruction inst makes is whole: its opcode and operands can be read from it.
LEMMA MadeIs ==
    ASSUME NEW e \in Emitter, NEW op, NEW tail, Fits(op, tail)
    PROVE  /\ Whole(Words(op, tail)) /\ Words(op, tail) \in Seq(Nat)
           /\ Made(e, op, tail).words = Words(op, tail)
           /\ Made(e, op, tail).at = Len(e.words) + 1
           /\ Len(Words(op, tail)) = Len(tail) + 1
           /\ \A k \in 1..Len(tail) : Words(op, tail)[k + 1] = tail[k]
           /\ OpOf(Made(e, op, tail)) = op
<1> USE DEF Fits
<1>1. Len(tail) \in Nat
  OBVIOUS
<1>2. WordCount(InstWord(op, Len(tail))) = Len(tail) + 1 /\ Opcode(InstWord(op, Len(tail))) = op
  BY <1>1, MadeWord
<1>3. InstWord(op, Len(tail)) \in Nat
  <2>1. op \in Nat
    BY OpModType
  <2> QED BY <1>1, <2>1, InstWordType
<1> DEFINE w == InstWord(op, Len(tail))
           ws == Words(op, tail)
<1>4. /\ ws \in Seq(Nat) /\ Len(ws) = Len(tail) + 1 /\ ws[1] = w
      /\ \A k \in 1..Len(tail) : ws[k + 1] = tail[k]
  <2>1. ws = <<w>> \o tail
    BY DEF Words
  <2>2. w \in Nat
    BY <1>3
  <2> HIDE DEF w, ws
  <2> QED BY <2>1, <2>2
<1>5. Opcode(ws[1]) = 0 => Len(ws) = 1
  <2>1. Opcode(ws[1]) = op
    BY <1>2, <1>4
  <2>2. op = 0 => Len(tail) = 0
    OBVIOUS
  <2> HIDE DEF ws
  <2> QED BY <1>4, <2>1, <2>2
<1>6. Whole(ws)
  BY <1>1, <1>2, <1>4, <1>5 DEF Whole
<1>7. Made(e, op, tail).words = ws /\ Made(e, op, tail).at = Len(e.words) + 1
  BY DEF Made, At
<1>8. OpOf(Made(e, op, tail)) = op
  BY <1>2, <1>3, <1>4, <1>7, WordParts DEF OpOf
<1> QED BY <1>4, <1>6, <1>7, <1>8

\* f is e with one instruction more.
Adds(e, f, in, R) ==
    /\ f \in Emitter /\ f.boundIdx = e.boundIdx /\ Fine(f.words, f.nextId, R)
    /\ Instructions(e.words) \in Seq(Instr) /\ in \in Instr
    /\ Instructions(f.words) = Append(Instructions(e.words), in)
    /\ f.words # <<>> /\ f.words[1] = e.words[1]

\* inst adds one instruction for the reader.
LEMMA InstAdds ==
    ASSUME NEW e \in Emitter, NEW R, Fine(e.words, e.nextId, R),
           NEW op, NEW tail, Fits(op, tail), NEW n \in {e.nextId, e.nextId + 1},
           n = e.nextId => ResultAt(op) = 0,
           n = e.nextId + 1 => /\ ResultAt(op) # 0 /\ ResultAt(op) - 1 \in 1..Len(tail)
                               /\ tail[ResultAt(op) - 1] = e.nextId,
           NEW f, f = [words |-> e.words \o Words(op, tail), nextId |-> n,
                       boundIdx |-> e.boundIdx]
    PROVE  Adds(e, f, Made(e, op, tail), R)
<1> DEFINE ws == Words(op, tail)
           in == Made(e, op, tail)
<1>1. /\ e.words \in Seq(Nat) /\ e.nextId \in Nat \ {0} /\ e.boundIdx \in Nat
      /\ Instructions(e.words) \in Seq(Instr)
  BY DEF Emitter, Fine
<1>2. /\ Whole(ws) /\ OpOf(in) = op /\ in.words = ws /\ Len(ws) = Len(tail) + 1
      /\ ws \in Seq(Nat) /\ \A k \in 1..Len(tail) : ws[k + 1] = tail[k]
  BY MadeIs
<1>3. in = At(e.words, ws)
  BY DEF Made
<1>4. ASSUME n = e.nextId
      PROVE  /\ Fine(e.words \o ws, n, R) /\ in \in Instr
             /\ Instructions(e.words \o ws) = Append(Instructions(e.words), in)
  <2>1. ResultAt(OpOf(At(e.words, ws))) = 0
    BY <1>2, <1>3, <1>4
  <2> HIDE DEF ws, in
  <2> QED BY <1>2, <1>3, <1>4, <2>1, OneWithout
<1>5. ASSUME n = e.nextId + 1
      PROVE  /\ Fine(e.words \o ws, n, R) /\ in \in Instr
             /\ Instructions(e.words \o ws) = Append(Instructions(e.words), in)
  <2> DEFINE k == ResultAt(op) - 1
  <2>1. k \in 1..Len(tail) /\ tail[k] = e.nextId /\ ResultAt(op) = k + 1 /\ ResultAt(op) # 0
    <3>1. ResultAt(op) = k + 1
      <4>1. ResultAt(op) \in {0, 2, 3}
        BY DEF ResultAt
      <4> QED BY <4>1
    <3> QED BY <1>5, <3>1
  <2> HIDE DEF k, ws, in
  <2>2. ResultOf(in) = e.nextId
    <3>1. ResultOf(in) = ws[k + 1]
      BY <1>2, <2>1 DEF ResultOf
    <3> QED BY <1>2, <2>1, <3>1
  <2> QED BY <1>2, <1>3, <1>5, <2>1, <2>2, OneWith, SMTT(30)
<1>6. f.words # <<>> /\ f.words[1] = e.words[1]
  <2>1. Len(e.words) >= 5
    BY DEF Fine, Validate
  <2>2. f.words = e.words \o ws
    OBVIOUS
  <2> HIDE DEF ws
  <2> QED BY <1>1, <1>2, <2>1, <2>2
<1>7. f \in Emitter
  <2> HIDE DEF ws
  <2>1. e.words \o ws \in Seq(Nat) /\ n \in Nat \ {0}
    BY <1>1, <1>2, SMTT(30)
  <2> QED BY <1>1, <2>1 DEF Emitter, ws
<1> HIDE DEF ws, in
<1>8. f.words = e.words \o ws /\ f.nextId = n /\ f.boundIdx = e.boundIdx
  BY DEF ws
<1>9. /\ Fine(e.words \o ws, n, R) /\ in \in Instr
      /\ Instructions(e.words \o ws) = Append(Instructions(e.words), in)
  BY <1>4, <1>5
<1>10. Adds(e, f, in, R)
  BY <1>1, <1>6, <1>7, <1>8, <1>9 DEF Adds
<1> QED BY <1>10 DEF in

\* An emitter with other words, and with an id taken, as a record.
LEMMA WithWords ==
    ASSUME NEW e \in Emitter, NEW ws
    PROVE  /\ [e EXCEPT !.words = ws]
                = [words |-> ws, nextId |-> e.nextId, boundIdx |-> e.boundIdx]
           /\ [AllocId(e) EXCEPT !.words = ws]
                = [words |-> ws, nextId |-> e.nextId + 1, boundIdx |-> e.boundIdx]
           /\ AllocId(e).words = e.words
<1>1. [e EXCEPT !.words = ws] = [words |-> ws, nextId |-> e.nextId, boundIdx |-> e.boundIdx]
  BY DEF Emitter
<1>2. AllocId(e) = [words |-> e.words, nextId |-> e.nextId + 1, boundIdx |-> e.boundIdx]
  BY DEF Emitter, AllocId
<1>3. [AllocId(e) EXCEPT !.words = ws]
        = [words |-> ws, nextId |-> e.nextId + 1, boundIdx |-> e.boundIdx]
  BY <1>2
<1> QED BY <1>1, <1>2, <1>3

\* A method without a result adds one instruction, and no id.
LEMMA PlainAdds ==
    ASSUME NEW e \in Emitter, NEW R, Fine(e.words, e.nextId, R),
           NEW op, NEW tail, Fits(op, tail), ResultAt(op) = 0
    PROVE  /\ Adds(e, EmitPlain(e, op, tail), Made(e, op, tail), R)
           /\ EmitPlain(e, op, tail).nextId = e.nextId
<1> DEFINE f == [words |-> e.words \o Words(op, tail), nextId |-> e.nextId,
                 boundIdx |-> e.boundIdx]
<1>1. EmitPlain(e, op, tail) = f
  BY WithWords DEF EmitPlain, Inst, Words
<1>2. e.nextId \in Nat
  BY DEF Emitter
<1>3. e.nextId # e.nextId + 1
  BY <1>2
<1> HIDE DEF f
<1>4. Adds(e, f, Made(e, op, tail), R)
  BY <1>3, InstAdds DEF f
<1>5. f.nextId = e.nextId
  BY DEF f
<1> QED BY <1>1, <1>4, <1>5

\* A method with a result adds one instruction, whose result is the next id.
LEMMA ResultAdds ==
    ASSUME NEW e \in Emitter, NEW R, Fine(e.words, e.nextId, R),
           NEW op, NEW operands \in Seq(Nat), Fits(op, <<e.nextId>> \o operands), ResultAt(op) = 2
    PROVE  /\ Adds(e, EmitResult(e, op, operands), Made(e, op, <<e.nextId>> \o operands), R)
           /\ EmitResult(e, op, operands).nextId = e.nextId + 1
<1> DEFINE tail == <<e.nextId>> \o operands
           f == [words |-> e.words \o Words(op, tail), nextId |-> e.nextId + 1,
                 boundIdx |-> e.boundIdx]
<1>1. EmitResult(e, op, operands) = f
  <2> DEFINE ws == e.words \o Words(op, tail)
  <2>1. EmitResult(e, op, operands) = [AllocId(e) EXCEPT !.words = ws]
    BY WithWords, Zenon DEF EmitResult, Inst, Words
  <2> HIDE DEF ws
  <2>2. [AllocId(e) EXCEPT !.words = ws]
          = [words |-> ws, nextId |-> e.nextId + 1, boundIdx |-> e.boundIdx]
    BY WithWords
  <2> QED BY <2>1, <2>2 DEF ws
<1>2. e.nextId \in Nat
  BY DEF Emitter
<1>3. ResultAt(op) # 0 /\ ResultAt(op) - 1 \in 1..Len(tail) /\ tail[ResultAt(op) - 1] = e.nextId
  <2>1. Len(tail) = Len(operands) + 1 /\ tail[1] = e.nextId
    BY <1>2
  <2> HIDE DEF tail
  <2> QED BY <2>1
<1>4. e.nextId + 1 # e.nextId
  BY <1>2
<1>5. Adds(e, f, Made(e, op, tail), R)
  <2>1. Fits(op, tail)
    OBVIOUS
  <2> HIDE DEF tail
  <2> HIDE DEF f
  <2> QED BY <1>3, <1>4, <2>1, InstAdds DEF f
<1>6. f.nextId = e.nextId + 1
  OBVIOUS
<1> HIDE DEF f
<1> QED BY <1>1, <1>5, <1>6

\* The same for a method with a type.
LEMMA TypedAdds ==
    ASSUME NEW e \in Emitter, NEW R, Fine(e.words, e.nextId, R),
           NEW op, NEW ty \in Nat, NEW operands \in Seq(Nat),
           Fits(op, <<ty, e.nextId>> \o operands), ResultAt(op) = 3
    PROVE  /\ Adds(e, EmitTyped(e, op, ty, operands), Made(e, op, <<ty, e.nextId>> \o operands), R)
           /\ EmitTyped(e, op, ty, operands).nextId = e.nextId + 1
<1> DEFINE tail == <<ty, e.nextId>> \o operands
           f == [words |-> e.words \o Words(op, tail), nextId |-> e.nextId + 1,
                 boundIdx |-> e.boundIdx]
<1>1. EmitTyped(e, op, ty, operands) = f
  <2> DEFINE ws == e.words \o Words(op, tail)
  <2>1. EmitTyped(e, op, ty, operands) = [AllocId(e) EXCEPT !.words = ws]
    BY WithWords, Zenon DEF EmitTyped, Inst, Words
  <2> HIDE DEF ws
  <2>2. [AllocId(e) EXCEPT !.words = ws]
          = [words |-> ws, nextId |-> e.nextId + 1, boundIdx |-> e.boundIdx]
    BY WithWords
  <2> QED BY <2>1, <2>2 DEF ws
<1>2. e.nextId \in Nat
  BY DEF Emitter
<1>3. ResultAt(op) # 0 /\ ResultAt(op) - 1 \in 1..Len(tail) /\ tail[ResultAt(op) - 1] = e.nextId
  <2>1. Len(tail) = Len(operands) + 2 /\ tail[2] = e.nextId
    BY <1>2
  <2> HIDE DEF tail
  <2> QED BY <2>1
<1>4. e.nextId + 1 # e.nextId
  BY <1>2
<1>5. Adds(e, f, Made(e, op, tail), R)
  <2>1. Fits(op, tail)
    OBVIOUS
  <2> HIDE DEF tail
  <2> HIDE DEF f
  <2> QED BY <1>3, <1>4, <2>1, InstAdds DEF f
<1>6. f.nextId = e.nextId + 1
  OBVIOUS
<1> HIDE DEF f
<1> QED BY <1>1, <1>5, <1>6

---------------------------------------------------------------------------
\* The emit methods and the grammar

\* The grammar has the result and the text of a method's instruction where the
\* method puts them.
Regular(m) ==
    /\ m.op \in 0..400
    /\ m.op = 0 => m.form = "plain" /\ m.fixed = 0 /\ m.tail = "none"
    /\ m.form = "plain" => ResultAt(m.op) = 0
    /\ m.form = "result" => ResultAt(m.op) = 2
    /\ m.form = "typed" => ResultAt(m.op) = 3
    /\ m.tail \in {"none", "text", "list", "pairs", "text_list"}
    /\ m.tail \in {"text", "text_list"} => TextAt(m.op) = Skip(m) + m.fixed + 1

\* Every method puts its result and its text where the grammar has them, and its
\* opcode and form fit.
LEMMA MethodsRegular == \A m \in Methods : Regular(m)
<1>1. \A m \in ModeMethods : Regular(m)
  BY DEF ModeMethods, Regular, ResultAt, TextAt, Skip
<1>2. \A m \in DebugMethods : Regular(m)
  BY DEF DebugMethods, Regular, ResultAt, TextAt, Skip
<1>3. \A m \in AnnotationMethods : Regular(m)
  BY DEF AnnotationMethods, Regular, ResultAt, TextAt, Skip
<1>4. \A m \in TypeMethods : Regular(m)
  BY DEF TypeMethods, Regular, ResultAt, TextAt, Skip
<1>5. \A m \in ConstantMethods : Regular(m)
  BY DEF ConstantMethods, Regular, ResultAt, TextAt, Skip
<1>6. \A m \in MemoryMethods : Regular(m)
  BY DEF MemoryMethods, Regular, ResultAt, TextAt, Skip
<1>7. \A m \in FunctionMethods : Regular(m)
  BY DEF FunctionMethods, Regular, ResultAt, TextAt, Skip
<1>8. \A m \in CompositeMethods : Regular(m)
  BY DEF CompositeMethods, Regular, ResultAt, TextAt, Skip
<1>9. \A m \in ConversionMethods : Regular(m)
  BY DEF ConversionMethods, Regular, ResultAt, TextAt, Skip
<1>10. \A m \in ArithmeticMethods : Regular(m)
  BY DEF ArithmeticMethods, Regular, ResultAt, TextAt, Skip
<1>11. \A m \in LogicalMethods : Regular(m)
  BY DEF LogicalMethods, Regular, ResultAt, TextAt, Skip
<1>12. \A m \in IntegerComparisonMethods : Regular(m)
  BY DEF IntegerComparisonMethods, Regular, ResultAt, TextAt, Skip
<1>13. \A m \in FloatComparisonMethods : Regular(m)
  BY DEF FloatComparisonMethods, Regular, ResultAt, TextAt, Skip
<1>14. \A m \in BitwiseMethods : Regular(m)
  BY DEF BitwiseMethods, Regular, ResultAt, TextAt, Skip
<1>15. \A m \in ControlFlowMethods : Regular(m)
  BY DEF ControlFlowMethods, Regular, ResultAt, TextAt, Skip
<1>16. \A m \in BarrierMethods : Regular(m)
  BY DEF BarrierMethods, Regular, ResultAt, TextAt, Skip
<1>17. \A m \in ExtInstMethods : Regular(m)
  BY DEF ExtInstMethods, Regular, ResultAt, TextAt, Skip
<1>18. \A m \in ImageMethods : Regular(m)
  BY DEF ImageMethods, Regular, ResultAt, TextAt, Skip
<1>19. \A m \in AtomicMethods : Regular(m)
  BY DEF AtomicMethods, Regular, ResultAt, TextAt, Skip
<1>20. \A m \in DerivativeMethods : Regular(m)
  BY DEF DerivativeMethods, Regular, ResultAt, TextAt, Skip
<1>21. \A m \in GroupMethods : Regular(m)
  BY DEF GroupMethods, Regular, ResultAt, TextAt, Skip
<1>22. \A m \in MiscMethods : Regular(m)
  BY DEF MiscMethods, Regular, ResultAt, TextAt, Skip
<1> QED
  BY <1>1, <1>2, <1>3, <1>4, <1>5, <1>6, <1>7, <1>8, <1>9, <1>10, <1>11,
     <1>12, <1>13, <1>14, <1>15, <1>16, <1>17, <1>18, <1>19, <1>20, <1>21, <1>22 DEF Methods

---------------------------------------------------------------------------
\* Texts

\* A number made of a quotient and a rest is divided into them.
LEMMA Divides ==
    ASSUME NEW q \in Nat, NEW d \in Nat \ {0}, NEW r \in 0..(d - 1)
    PROVE  (q * d + r) \div d = q /\ (q * d + r) % d = r
OBVIOUS

\* The upper half of a word.
LEMMA DividesHalf ==
    ASSUME NEW q \in Nat, NEW r \in Nat, r <= 65535
    PROVE  (q * 65536 + r) \div 65536 = q
BY SMTT(30)

Bytes(w, a, b, c, d) ==
    /\ {a, b, c, d} \subseteq 0..255
    /\ w = a + 256 * b + 65536 * c + 16777216 * d

\* A word made of four bytes is taken apart into them.
LEMMA FourBytes ==
    ASSUME NEW w, NEW a, NEW b, NEW c, NEW d, Bytes(w, a, b, c, d)
    PROVE  /\ (w \div 1) % 256 = a /\ (w \div 256) % 256 = b
           /\ (w \div 65536) % 256 = c /\ (w \div 16777216) % 256 = d
<1>0. /\ a \in 0..255 /\ b \in 0..255 /\ c \in 0..255 /\ d \in 0..255
      /\ w = a + 256 * b + 65536 * c + 16777216 * d
  BY DEF Bytes
<1>1. (w \div 1) % 256 = a /\ (w \div 256) % 256 = b
  BY <1>0
<1>2. (w \div 65536) % 256 = c
  <2> DEFINE high == d * 256 + c
             low == a + 256 * b
  <2>1. low \in Nat /\ low <= 65535 /\ high \in Nat /\ w = high * 65536 + low
    BY <1>0
  <2>2. w \div 65536 = high
    <3> HIDE DEF high, low
    <3> QED BY <2>1, DividesHalf, SMTT(30)
  <2>3. (d * 256 + c) % 256 = c
    BY <1>0
  <2> QED BY <2>2, <2>3
<1>3. (w \div 16777216) % 256 = d
  BY <1>0
<1> QED BY <1>1, <1>2, <1>3

\* The n-th byte of an encoded text is the n-th of the text, or zero behind its end.
LEMMA EncodedByte ==
    ASSUME NEW s \in Seq(Octet), NEW n \in 0..Len(s)
    PROVE  /\ n \div 4 + 1 \in 1..Len(EncodeString(s))
           /\ ByteOf(EncodeString(s), 1, n) = IF n < Len(s) THEN s[n + 1] ELSE 0
<1> DEFINE byte(j, i) == IF 4 * (j - 1) + i <= Len(s) THEN s[4 * (j - 1) + i] ELSE 0
           word(j) == byte(j, 1) + 256 * byte(j, 2) + 65536 * byte(j, 3) + 16777216 * byte(j, 4)
           size == Len(s) \div 4 + 1
           j == n \div 4 + 1
           i == (n % 4) + 1
<1>1. EncodeString(s) = [q \in 1..size |-> word(q)]
  BY DEF EncodeString
<1>2. size \in Nat /\ j \in 1..size /\ i \in 1..4 /\ 4 * (j - 1) + i = n + 1 /\ 1 + n \div 4 = j
  OBVIOUS
<1>3. Len(EncodeString(s)) = size
  <2> HIDE DEF size, word
  <2> QED BY <1>1, <1>2
<1>4. \A m \in 1..4 : byte(j, m) \in Octet
  <2> TAKE m \in 1..4
  <2> DEFINE x == 4 * (j - 1) + m
  <2>1. x \in Nat \ {0}
    BY <1>2
  <2>2. byte(j, m) = IF x <= Len(s) THEN s[x] ELSE 0
    OBVIOUS
  <2> HIDE DEF x, j, byte
  <2>3. x <= Len(s) => s[x] \in Octet
    BY <2>1
  <2> QED BY <2>2, <2>3, OctetType
<1>5. EncodeString(s)[j] = word(j)
  <2> HIDE DEF size, word, j
  <2> QED BY <1>1, <1>2
<1>6. (word(j) \div Weights[i]) % 256 = byte(j, i)
  <2> DEFINE a == byte(j, 1)
             b == byte(j, 2)
             c == byte(j, 3)
             d == byte(j, 4)
  <2>1. a \in 0..255 /\ b \in 0..255 /\ c \in 0..255 /\ d \in 0..255
    <3> HIDE DEF byte, j
    <3>1. a \in Octet /\ b \in Octet /\ c \in Octet /\ d \in Octet
      BY <1>4
    <3> QED BY <3>1, OctetType
  <2>2. word(j) = a + 256 * b + 65536 * c + 16777216 * d
    OBVIOUS
  <2> DEFINE w == word(j)
  <2> HIDE DEF a, b, c, d, word
  <2>3. /\ (w \div 1) % 256 = a /\ (w \div 256) % 256 = b
        /\ (w \div 65536) % 256 = c /\ (w \div 16777216) % 256 = d
    <3>1. Bytes(w, a, b, c, d)
      BY <2>1, <2>2 DEF Bytes
    <3> HIDE DEF w
    <3> QED BY <3>1, FourBytes
  <2> HIDE DEF w
  <2>4. CASE i = 1
    BY <2>3, <2>4 DEF a, w, Weights
  <2>5. CASE i = 2
    BY <2>3, <2>5 DEF b, w, Weights
  <2>6. CASE i = 3
    BY <2>3, <2>6 DEF c, w, Weights
  <2>7. CASE i = 4
    BY <2>3, <2>7 DEF d, w, Weights
  <2> QED BY <1>2, <2>4, <2>5, <2>6, <2>7
<1>7. byte(j, i) = IF n < Len(s) THEN s[n + 1] ELSE 0
  BY <1>2
<1>8. ByteOf(EncodeString(s), 1, n) = (word(j) \div Weights[i]) % 256
  <2> HIDE DEF word
  <2>1. EncodeString(s)[1 + n \div 4] = word(j)
    BY <1>2, <1>5
  <2> QED BY <2>1 DEF ByteOf
<1> HIDE DEF word, byte
<1> QED BY <1>2, <1>3, <1>6, <1>7, <1>8

\* Reading a text that was encoded, with anything before and behind it.
LEMMA TextReads ==
    ASSUME NEW pre \in Seq(Nat), NEW s \in Seq(Octet), NEW rest \in Seq(Nat),
           \A n \in DOMAIN s : s[n] # 0
    PROVE  ReadText((pre \o EncodeString(s)) \o rest, Len(pre) + 1) = [text |-> s, rest |-> rest]
<1>0. SUFFICES ASSUME NEW k, k = Len(pre) + 1, NEW ws, ws = (pre \o EncodeString(s)) \o rest
               PROVE  ReadText(ws, k) = [text |-> s, rest |-> rest]
  OBVIOUS
<1> DEFINE enc == EncodeString(s)
           size == 4 * (Len(ws) - k + 1)
           zeros == {n \in 0..(size - 1) : ByteOf(ws, k, n) = 0}
           end == CHOOSE n \in zeros \cup {size} : \A z \in zeros : n <= z
           L == Len(s)
<1>1. enc \in Seq(Nat) /\ Len(enc) = L \div 4 + 1 /\ L \in Nat
  <2>1. s \in Seq(Nat)
    BY OctetsAreNumbers
  <2>2. enc \in Seq(Nat)
    BY <2>1, StringType
  <2>3. Len(enc) = L \div 4 + 1
    BY DEF EncodeString
  <2> QED BY <2>2, <2>3
<1> HIDE DEF enc
<1>2. /\ ws \in Seq(Nat) /\ Len(ws) = Len(pre) + Len(enc) + Len(rest)
      /\ \A q \in 1..Len(enc) : ws[Len(pre) + q] = enc[q]
      /\ SubSeq(ws, Len(pre) + Len(enc) + 1, Len(ws)) = rest
  <2>1. ws = (pre \o enc) \o rest
    BY <1>0 DEF enc
  <2>0. pre \in Seq(Nat) /\ enc \in Seq(Nat) /\ rest \in Seq(Nat)
    BY <1>1
  <2>2. ws \in Seq(Nat) /\ Len(ws) = Len(pre) + Len(enc) + Len(rest)
    BY <2>0, <2>1
  <2>3. \A q \in 1..Len(enc) : ws[Len(pre) + q] = enc[q]
    BY <1>1, <2>1
  <2>4. SubSeq(ws, Len(pre) + Len(enc) + 1, Len(ws)) = rest
    <3>1. Len(pre \o enc) = Len(pre) + Len(enc) /\ pre \o enc \in Seq(Nat)
      BY <2>0
    <3>2. SubSeq((pre \o enc) \o rest, Len(pre \o enc) + 1, Len(pre \o enc) + Len(rest)) = rest
      <4> HIDE DEF enc
      <4> QED BY <3>1
    <3> QED BY <2>1, <2>2, <3>1, <3>2
  <2> QED BY <2>2, <2>3, <2>4
<1>3. \A n \in 0..L : ByteOf(ws, k, n) = IF n < L THEN s[n + 1] ELSE 0
  <2> TAKE n \in 0..L
  <2>1. /\ n \div 4 + 1 \in 1..Len(enc)
        /\ ByteOf(enc, 1, n) = IF n < L THEN s[n + 1] ELSE 0
    BY EncodedByte DEF enc
  <2>2. k + n \div 4 = Len(pre) + (n \div 4 + 1) /\ 1 + n \div 4 = n \div 4 + 1
    BY <1>0
  <2>3. ws[k + n \div 4] = enc[1 + n \div 4]
    BY <1>2, <2>1, <2>2
  <2>4. ByteOf(ws, k, n) = ByteOf(enc, 1, n)
    BY <2>3, Zenon DEF ByteOf
  <2> QED BY <2>1, <2>4
<1>4. size = 4 * (Len(enc) + Len(rest)) /\ L \in 0..(size - 1)
  BY <1>0, <1>1, <1>2
<1>5. L \in zeros /\ \A z \in zeros : L <= z
  <2>1. \A n \in 0..(L - 1) : s[n + 1] # 0
    OBVIOUS
  <2> HIDE DEF size
  <2>2. L \in zeros
    BY <1>3, <1>4, SMTT(30)
  <2>3. ASSUME NEW z \in zeros, z < L PROVE FALSE
    <3>1. z \in 0..L /\ z \in 0..(L - 1) /\ ByteOf(ws, k, z) = 0
      BY <1>1, <1>4, <2>3, SMTT(30)
    <3>2. ByteOf(ws, k, z) = s[z + 1]
      BY <1>3, <2>3, <3>1
    <3> QED BY <2>1, <3>1, <3>2
  <2> QED BY <1>1, <1>4, <2>2, <2>3
<1>6. end = L
  <2>1. zeros \subseteq Int /\ size \in Int
    BY <1>1, <1>4
  <2> HIDE DEF zeros, size
  <2>2. L \in zeros \cup {size} /\ \A z \in zeros : L <= z
    BY <1>5
  <2>3. end \in zeros \cup {size} /\ \A z \in zeros : end <= z
    BY <2>2
  <2>4. end <= L
    BY <1>5, <2>3
  <2> HIDE DEF end
  <2>5. CASE end \in zeros
    <3>1. L <= end /\ end \in Int /\ L \in Int
      BY <1>1, <1>5, <2>1, <2>5
    <3> QED BY <2>4, <3>1
  <2>6. CASE end = size
    <3>1. size \in Int /\ L < size
      BY <1>1, <1>4
    <3> QED BY <1>1, <2>4, <2>6, <3>1
  <2> QED BY <2>3, <2>5, <2>6
<1>7. ReadText(ws, k) = [text |-> [n \in 1..end |-> ByteOf(ws, k, n - 1)],
                         rest |-> SubSeq(ws, k + end \div 4 + 1, Len(ws))]
  BY DEF ReadText
<1> HIDE DEF end, zeros, size
<1>8. [n \in 1..L |-> ByteOf(ws, k, n - 1)] = s
  <2>1. ASSUME NEW n \in 1..L PROVE ByteOf(ws, k, n - 1) = s[n]
    <3>1. n - 1 \in 0..L /\ n - 1 < L /\ (n - 1) + 1 = n
      BY <1>1
    <3> QED BY <1>3, <3>1
  <2>2. s = [n \in 1..L |-> s[n]]
    OBVIOUS
  <2> QED BY <2>1, <2>2
<1>9. k + L \div 4 + 1 = Len(pre) + Len(enc) + 1
  BY <1>0, <1>1
<1> QED BY <1>2, <1>6, <1>7, <1>8, <1>9

---------------------------------------------------------------------------
\* The instruction of an emit method, found again

\* The words a method puts before the operands it was given.
Front(m, ty, id) ==
    CASE m.form = "plain" -> <<>> [] m.form = "result" -> <<id>> [] m.form = "typed" -> <<ty, id>>

\* The operands of a call are words.
LEMMA OperandsType ==
    ASSUME NEW m \in Methods, NEW text \in Texts(m, Strings), NEW list \in Lists(m, WordLists),
           NEW args \in Seq(Nat)
    PROVE  /\ list \in Seq(Nat) /\ text \in Seq(Octet)
           /\ EncodeString(text) \in Seq(Nat)
           /\ Operands(m, args, text, list) \in Seq(Nat)
           /\ m.tail \in {"text", "text_list"} =>
                Operands(m, args, text, list) = args \o EncodeString(text) \o list
           /\ m.tail \notin {"text", "text_list"} => Operands(m, args, text, list) = args \o list
           /\ m.tail \notin {"list", "text_list", "pairs"} => list = <<>>
<1>1. text \in Seq(Octet)
  <2>1. CASE m.tail \in {"text", "text_list"}
    BY <2>1, InputAssumption DEF Texts
  <2>2. CASE ~(m.tail \in {"text", "text_list"})
    <3>1. Texts(m, Strings) = {<<>>}
      BY <2>2, Zenon DEF Texts
    <3> QED BY <3>1
  <2> QED BY <2>1, <2>2
<1>2. list \in Seq(Nat) /\ (m.tail \notin {"list", "text_list", "pairs"} => list = <<>>)
  <2>1. list \in WordLists \/ list = <<>>
    BY DEF Lists
  <2>2. list \in Seq(Nat)
    <3>1. CASE list \in WordLists
      BY <3>1, InputAssumption
    <3>2. CASE list = <<>>
      BY <3>2
    <3> QED BY <2>1, <3>1, <3>2
  <2>3. m.tail \notin {"list", "text_list", "pairs"} => list = <<>>
    BY DEF Lists
  <2> QED BY <2>2, <2>3
<1>3. EncodeString(text) \in Seq(Nat)
  BY <1>1, OctetsAreNumbers, StringType
<1>4. CASE m.tail \in {"text", "text_list"}
  <2>1. Operands(m, args, text, list) = args \o EncodeString(text) \o list
    BY <1>4, Zenon DEF Operands
  <2>2. args \o EncodeString(text) \o list \in Seq(Nat)
    BY <1>2, <1>3
  <2> QED BY <1>1, <1>2, <1>3, <1>4, <2>1, <2>2
<1>5. CASE m.tail \notin {"text", "text_list"}
  <2>1. Operands(m, args, text, list) = args \o <<>> \o list
    BY <1>5, Zenon DEF Operands
  <2>2. args \o <<>> \o list = args \o list /\ args \o list \in Seq(Nat)
    BY <1>2
  <2> QED BY <1>1, <1>2, <1>3, <1>5, <2>1, <2>2
<1> QED BY <1>4, <1>5

\* Three lists can be joined in either order, and two are as long as both.
LEMMA Joined ==
    ASSUME NEW a \in Seq(Nat), NEW b \in Seq(Nat), NEW c \in Seq(Nat)
    PROVE  /\ (a \o b) \o c = a \o (b \o c)
           /\ a \o b \in Seq(Nat) /\ Len(a \o b) = Len(a) + Len(b)
BY ConcatAssociative, SMTT(30)

\* A name for \o, which the provers then take as any operation with these laws.
Cat(a, b) == a \o b

LEMMA CatJoins ==
    ASSUME NEW a \in Seq(Nat), NEW b \in Seq(Nat), NEW c \in Seq(Nat)
    PROVE  Cat(a, b) \in Seq(Nat) /\ Cat(Cat(a, b), c) = Cat(a, Cat(b, c))
BY Joined, SMTT(30) DEF Cat

\* Four lists, put together from the middle, from the left or from the right.
LEMMA JoinedFour ==
    ASSUME NEW a \in Seq(Nat), NEW b \in Seq(Nat), NEW c \in Seq(Nat), NEW d \in Seq(Nat)
    PROVE  /\ Cat(a, Cat(Cat(b, c), d)) = Cat(Cat(Cat(a, b), c), d)
           /\ Cat(a, Cat(Cat(b, c), d)) = Cat(a, Cat(b, Cat(c, d)))
<1>1. Cat(a, b) \in Seq(Nat) /\ Cat(b, c) \in Seq(Nat) /\ Cat(c, d) \in Seq(Nat)
  BY CatJoins
<1>2. Cat(Cat(b, c), d) = Cat(b, Cat(c, d))
  BY CatJoins
<1>3. Cat(a, Cat(b, Cat(c, d))) = Cat(Cat(a, b), Cat(c, d))
  BY <1>1, CatJoins
<1>4. Cat(Cat(a, b), Cat(c, d)) = Cat(Cat(Cat(a, b), c), d)
  BY <1>1, CatJoins
<1> QED BY <1>2, <1>3, <1>4

\* The part of a list that another was put before is found behind it.
LEMMA Slice ==
    ASSUME NEW s \in Seq(Nat), NEW b \in Seq(Nat), NEW p \in Nat, p + Len(b) <= Len(s),
           \A k \in 1..Len(b) : s[p + k] = b[k]
    PROVE  SubSeq(s, p + 1, p + Len(b)) = b
<1> DEFINE t == SubSeq(s, p + 1, p + Len(b))
<1>1. \A i \in p + 1 .. p + Len(b) : s[i] \in Nat
  OBVIOUS
<1>2. /\ t \in Seq(Nat)
      /\ Len(t) = IF p + 1 <= p + Len(b) THEN (p + Len(b)) - (p + 1) + 1 ELSE 0
      /\ \A i \in 1 .. (p + Len(b)) - (p + 1) + 1 : t[i] = s[(p + 1) + i - 1]
  <2>1. p + 1 \in Int /\ p + Len(b) \in Int
    OBVIOUS
  <2> HIDE DEF t
  <2> QED BY <1>1, <2>1, SubSeqProperties DEF t
<1> HIDE DEF t
<1>3. Len(t) = Len(b) /\ \A i \in 1 .. Len(b) : t[i] = b[i]
  <2>1. Len(b) \in Nat /\ (p + Len(b)) - (p + 1) + 1 = Len(b)
    OBVIOUS
  <2>2. Len(t) = Len(b)
    BY <1>2, <2>1
  <2>3. \A i \in 1 .. Len(b) : (p + 1) + i - 1 = p + i
    OBVIOUS
  <2> QED BY <1>2, <2>1, <2>2, <2>3
<1>4. t = b
  BY <1>2, <1>3, SeqEqual
<1> QED BY <1>4 DEF t

\* The middle of three lists is found again.
LEMMA SubSeqMiddle ==
    ASSUME NEW a \in Seq(Nat), NEW b \in Seq(Nat), NEW c \in Seq(Nat)
    PROVE  SubSeq(a \o (b \o c), Len(a) + 1, Len(a) + Len(b)) = b
<1> DEFINE s == a \o (b \o c)
<1>1. s \in Seq(Nat) /\ Len(s) = Len(a) + Len(b) + Len(c)
  OBVIOUS
<1>2. \A k \in 1..Len(b) : s[Len(a) + k] = b[k]
  BY SMTT(30)
<1>3. Len(a) \in Nat /\ Len(a) + Len(b) <= Len(s)
  BY <1>1
<1> HIDE DEF s
<1> QED BY <1>1, <1>2, <1>3, Slice DEF s

\* The opcode of a method fits into a first word.
LEMMA RegularOp ==
    ASSUME NEW m, Regular(m)
    PROVE  m.op \in 0..(OpMod - 1) /\ m.op \in Nat /\ m.op <= 400
<1>1. m.op \in 0..400
  BY Zenon DEF Regular
<1>2. OpMod \in Nat /\ OpMod > 512
  BY OpModType
<1> QED BY <1>1, <1>2, SMTT(30)

\* A call of an emit method adds one instruction, and the reader finds in it what was
\* asked for.
LEMMA BuildAdds ==
    ASSUME NEW e \in Emitter, NEW R, Fine(e.words, e.nextId, R),
           NEW m \in Methods, NEW text \in Texts(m, Strings), NEW list \in Lists(m, WordLists),
           NEW args \in Seq(Nat), Len(args) = m.fixed, NEW ty \in Nat,
           Skip(m) + Len(Operands(m, args, text, list)) < WcMod,
           NEW a, a = [at |-> Len(e.words) + 1, method |-> m, args |-> args,
                       text |-> text, list |-> list]
    PROVE  \E in : Adds(e, Emit(e, m, ty, Operands(m, args, text, list)), in, R) /\ IsAsked(in, a)
<1> DEFINE ops == Operands(m, args, text, list)
           front == Front(m, ty, e.nextId)
           tail == front \o ops
           f == Emit(e, m, ty, ops)
           in == Made(e, m.op, tail)
           pre == <<InstWord(m.op, Len(tail))>> \o front
<1>1. /\ Regular(m) /\ m.fixed \in Nat /\ m.form \in {"plain", "result", "typed"}
  BY MethodsRegular, MethodsDescribed DEF Described
<1>2. /\ list \in Seq(Nat) /\ text \in Seq(Octet)
      /\ EncodeString(text) \in Seq(Nat)
      /\ ops \in Seq(Nat)
      /\ m.tail \in {"text", "text_list"} => ops = args \o EncodeString(text) \o list
      /\ m.tail \notin {"text", "text_list"} => ops = args \o list
      /\ m.tail \notin {"list", "text_list", "pairs"} => list = <<>>
  BY OperandsType
<1>3. e.nextId \in Nat
  BY DEF Emitter
<1> HIDE DEF ops
<1>4. front \in Seq(Nat) /\ Len(front) + 1 = Skip(m) /\ Skip(m) \in Nat
  <2>1. CASE m.form = "plain"
    BY <2>1 DEF Front, Skip
  <2>2. CASE m.form = "result"
    BY <1>3, <2>2 DEF Front, Skip
  <2>3. CASE m.form = "typed"
    BY <1>3, <2>3 DEF Front, Skip
  <2> QED BY <1>1, <2>1, <2>2, <2>3
<1>5. Fits(m.op, tail)
  <2>1. tail \in Seq(Nat) /\ Len(tail) = Len(front) + Len(ops)
    BY <1>2, <1>4
  <2>2. m.op \in 0..(OpMod - 1)
    BY <1>1, RegularOp
  <2>3. ASSUME m.op = 0 PROVE tail = <<>>
    <3>1. m.form = "plain" /\ m.fixed = 0 /\ m.tail = "none"
      BY <1>1, <2>3 DEF Regular
    <3>2. front = <<>> /\ args = <<>> /\ ops = args \o list /\ list = <<>>
      BY <1>2, <3>1 DEF Front
    <3> HIDE DEF front
    <3> QED BY <3>2
  <2>4. Len(tail) + 1 < WcMod
    <3>1. Len(ops) \in Nat /\ Len(front) \in Nat /\ Skip(m) + Len(ops) < WcMod
      BY <1>2, <1>4, SMTT(30) DEF ops
    <3> HIDE DEF front, tail
    <3> QED BY <1>4, <2>1, <3>1
  <2> QED BY <2>1, <2>2, <2>3, <2>4 DEF Fits
<1>6. Adds(e, f, in, R)
  <2>1. CASE m.form = "plain"
    <3>1. f = EmitPlain(e, m.op, tail)
      <4>1. tail = ops
        BY <1>2, <2>1 DEF Front
      <4> QED BY <2>1, <4>1 DEF Emit
    <3> HIDE DEF tail
    <3> QED BY <1>1, <1>5, <2>1, <3>1, PlainAdds DEF Regular
  <2>2. CASE m.form = "result"
    <3>1. f = EmitResult(e, m.op, ops) /\ tail = <<e.nextId>> \o ops
      BY <2>2 DEF Emit, Front
    <3>2. ResultAt(m.op) = 2
      BY <1>1, <2>2 DEF Regular
    <3> HIDE DEF tail, f
    <3> QED BY <1>2, <1>5, <3>1, <3>2, ResultAdds
  <2>3. CASE m.form = "typed"
    <3>1. f = EmitTyped(e, m.op, ty, ops) /\ tail = <<ty, e.nextId>> \o ops
      BY <2>3 DEF Emit, Front
    <3>2. ResultAt(m.op) = 3
      BY <1>1, <2>3 DEF Regular
    <3> HIDE DEF tail, f
    <3> QED BY <1>2, <1>5, <3>1, <3>2, TypedAdds
  <2> QED BY <1>1, <2>1, <2>2, <2>3
<1>7. /\ OpOf(in) = m.op /\ in.at = Len(e.words) + 1 /\ in.words = Words(m.op, tail)
      /\ in.words \in Seq(Nat)
  <2> HIDE DEF tail
  <2> QED BY <1>5, MadeIs
<1>8. /\ pre \in Seq(Nat) /\ Len(pre) = Skip(m)
  <2>1. InstWord(m.op, Len(tail)) \in Nat
    <3>1. Len(tail) \in Nat /\ m.op \in Nat
      BY <1>1, <1>5 DEF Fits, Regular
    <3> QED BY <3>1, InstWordType
  <2> DEFINE w == InstWord(m.op, Len(tail))
  <2>2. w \in Nat
    BY <2>1
  <2> HIDE DEF w, front
  <2>3. <<w>> \o front \in Seq(Nat) /\ Len(<<w>> \o front) = Len(front) + 1
    BY <1>4, <2>2
  <2> QED BY <1>4, <2>3 DEF w
<1>9. in.words = pre \o ops
  <2> DEFINE w == InstWord(m.op, Len(tail))
  <2>1. in.words = <<w>> \o (front \o ops)
    BY <1>7 DEF Words
  <2>2. <<w>> \o front \in Seq(Nat) /\ w \in Nat
    <3>1. Len(tail) \in Nat /\ m.op \in Nat
      BY <1>1, <1>5 DEF Fits, Regular
    <3> QED BY <1>8, <3>1, InstWordType
  <2> HIDE DEF w, front, in
  <2>3. <<w>> \o (front \o ops) = (<<w>> \o front) \o ops
    <3>1. <<w>> \in Seq(Nat)
      BY <2>2
    <3> QED BY <1>2, <1>4, <3>1, Joined
  <2> QED BY <2>1, <2>3 DEF w
<1>10. IsAsked(in, a)
  <2> HIDE DEF in, pre, tail, front
  <2>j. Len(in.words) = Len(pre) + Len(ops)
    <3>1. pre \in Seq(Nat) /\ ops \in Seq(Nat)
      BY <1>2, <1>8
    <3> QED BY <1>9, <3>1, Joined
  <2>0. /\ a.at = Len(e.words) + 1 /\ a.method = m /\ a.args = args /\ a.text = text /\ a.list = list
    OBVIOUS
  <2>1. CASE m.tail \notin {"text", "text_list"}
    <3>1. ops = args \o list
      BY <1>2, <2>1
    <3>2. SubSeq(in.words, Skip(m) + 1, Len(in.words)) = args \o list
      <4>1. SubSeq(pre \o (ops \o <<>>), Len(pre) + 1, Len(pre) + Len(ops)) = ops
        <5>1. <<>> \in Seq(Nat)
          OBVIOUS
        <5> QED BY <1>2, <1>8, <5>1, SubSeqMiddle
      <4>2. ops \o <<>> = ops
        BY <1>2
      <4> QED BY <1>8, <1>9, <2>j, <3>1, <4>1, <4>2
    <3> QED BY <1>7, <2>0, <2>1, <3>2, Zenon DEF IsAsked
  <2>2. CASE m.tail \in {"text", "text_list"}
    <3> DEFINE at == Skip(m) + m.fixed + 1
               head == pre \o args
               enc == EncodeString(text)
    <3>1. TextAt(OpOf(in)) = at /\ at # 0
      BY <1>1, <1>4, <1>7, <2>2 DEF Regular
    <3>2. ops = (args \o enc) \o list /\ enc \in Seq(Nat)
      BY <1>2, <2>2
    <3> HIDE DEF enc
    <3>3. /\ in.words = ((pre \o args) \o enc) \o list
          /\ in.words = pre \o (args \o (enc \o list))
      <4>1. /\ enc \in Seq(Nat) /\ list \in Seq(Nat) /\ args \in Seq(Nat) /\ pre \in Seq(Nat)
            /\ in.words = pre \o ((args \o enc) \o list)
        BY <1>2, <1>8, <1>9, <3>2
      <4>2. /\ Cat(pre, Cat(Cat(args, enc), list)) = Cat(Cat(Cat(pre, args), enc), list)
            /\ Cat(pre, Cat(Cat(args, enc), list)) = Cat(pre, Cat(args, Cat(enc, list)))
        BY <4>1, JoinedFour
      <4> QED BY <4>1, <4>2 DEF Cat
    <3>4. head \in Seq(Nat) /\ Len(head) + 1 = at /\ Len(pre) + Len(args) = at - 1
      <4>1. head \in Seq(Nat) /\ Len(head) = Len(pre) + Len(args)
        BY <1>8, Joined
      <4> QED BY <1>1, <1>4, <1>8, <4>1
    <3>5. SubSeq(in.words, Skip(m) + 1, at - 1) = args
      <4>1. SubSeq(pre \o (args \o (enc \o list)), Len(pre) + 1, Len(pre) + Len(args)) = args
        <5>1. enc \in Seq(Nat)
          BY <3>2
        <5>2. enc \o list \in Seq(Nat) /\ pre \in Seq(Nat)
          BY <1>2, <1>8, <5>1, Joined
        <5> QED BY <5>2, SubSeqMiddle
      <4> QED BY <1>8, <3>3, <3>4, <4>1
    <3>6. (\A n \in DOMAIN text : text[n] # 0) =>
              ReadText(in.words, at) = [text |-> text, rest |-> list]
      <4> HIDE DEF head, at
      <4>1. in.words = (head \o EncodeString(text)) \o list
        BY <3>3 DEF head, enc
      <4>2. text \in Seq(Octet) /\ list \in Seq(Nat) /\ head \in Seq(Nat) /\ at = Len(head) + 1
        BY <1>2, <3>4
      <4>3. (\A n \in DOMAIN text : text[n] # 0) =>
                ReadText((head \o EncodeString(text)) \o list, Len(head) + 1)
                    = [text |-> text, rest |-> list]
        BY <4>2, TextReads
      <4> QED BY <4>1, <4>2, <4>3
    <3> HIDE DEF at
    <3>7. (\A n \in DOMAIN text : text[n] # 0) =>
              ReadText(in.words, at).text = text /\ ReadText(in.words, at).rest = list
      BY <3>6
    <3> QED BY <1>7, <2>0, <2>2, <3>1, <3>5, <3>7, Zenon DEF IsAsked
  <2> QED BY <2>1, <2>2
<1> QED BY <1>6, <1>10 DEF ops

---------------------------------------------------------------------------
\* What init adds

\* The opcodes that do something when the program runs.
Effective == {43, 61, 62, 128, 252}

\* The instruction inst defines n and nothing else, uses ids that are defined, and
\* does nothing when it is run.
Declares(inst, n, R) ==
    /\ Whole(inst)
    /\ \A ws \in Seq(Nat) :
        /\ ResultAt(OpOf(At(ws, inst))) # 0 /\ ResultOf(At(ws, inst)) = n
        /\ OpOf(At(ws, inst)) \notin Effective
        /\ Uses(At(ws, inst), (1..(n - 1)) \ R)

\* ws is e with such instructions at the end, up to the next id n.
Grown(P, ws, n, R) ==
    /\ Fine(ws, n, R)
    /\ LET Q == Instructions(ws)
       IN /\ Len(P) <= Len(Q) /\ \A k \in 1..Len(P) : Q[k] = P[k]
          /\ Sound(P) => Sound(Q)
          /\ \A k \in (Len(P) + 1)..Len(Q) : OpOf(Q[k]) \notin Effective

\* A module as it was has grown by nothing.
LEMMA GrownFrom ==
    ASSUME NEW ws, NEW n, NEW R, Fine(ws, n, R)
    PROVE  Grown(Instructions(ws), ws, n, R)
<1>1. Instructions(ws) \in Seq(Instr)
  BY DEF Fine
<1> QED BY <1>1 DEF Grown

\* One declaration more.
LEMMA GrownMore ==
    ASSUME NEW P \in Seq(Instr), NEW ws, NEW n, NEW R, Grown(P, ws, n, R),
           NEW inst, Declares(inst, n, R)
    PROVE  Grown(P, ws \o inst, n + 1, R) /\ inst \in Seq(Nat)
<1> DEFINE Q == Instructions(ws)
           in == At(ws, inst)
           S == Instructions(ws \o inst)
<1>1. /\ Fine(ws, n, R) /\ ws \in Seq(Nat) /\ Q \in Seq(Instr) /\ Defs(Q) = (1..(n - 1)) \ R
      /\ Len(P) <= Len(Q) /\ \A k \in 1..Len(P) : Q[k] = P[k]
      /\ Sound(P) => Sound(Q)
      /\ \A k \in (Len(P) + 1)..Len(Q) : OpOf(Q[k]) \notin Effective
  BY DEF Grown, Fine
<1>2. /\ Whole(inst) /\ ResultAt(OpOf(in)) # 0 /\ ResultOf(in) = n
      /\ OpOf(in) \notin Effective /\ Uses(in, Defs(Q))
  BY <1>1 DEF Declares
<1>3. Fine(ws \o inst, n + 1, R) /\ S = Append(Q, in) /\ in \in Instr
  BY <1>1, <1>2, OneWith
<1> HIDE DEF Q, in, S
<1>4. /\ S \in Seq(Instr) /\ Len(S) = Len(Q) + 1 /\ S[Len(S)] = in
      /\ \A k \in 1..Len(Q) : S[k] = Q[k]
      /\ Sound(Q) /\ Uses(in, Defs(Q)) => Sound(S)
  BY <1>1, <1>3, AppendProgram, ZenonT(40)
<1>5. /\ Len(P) <= Len(S) /\ \A k \in 1..Len(P) : S[k] = P[k]
      /\ \A k \in (Len(P) + 1)..Len(S) : OpOf(S[k]) \notin Effective
  <2>1. Len(P) \in Nat /\ Len(Q) \in Nat
    BY <1>1
  <2>2. \A k \in (Len(P) + 1)..Len(S) : (k \in (Len(P) + 1)..Len(Q) /\ k \in 1..Len(Q)) \/ k = Len(S)
    BY <1>4, <2>1
  <2>3. \A k \in 1..Len(P) : k \in 1..Len(Q)
    BY <1>1, <2>1
  <2>4. Len(P) <= Len(S) /\ \A k \in 1..Len(P) : S[k] = P[k]
    BY <1>1, <1>4, <2>1, <2>3
  <2>5. ASSUME NEW k \in (Len(P) + 1)..Len(S) PROVE OpOf(S[k]) \notin Effective
    <3>1. CASE k = Len(S)
      BY <1>2, <1>4, <3>1
    <3>2. CASE k # Len(S)
      <4>1. k \in (Len(P) + 1)..Len(Q) /\ k \in 1..Len(Q)
        BY <2>2, <3>2
      <4>2. S[k] = Q[k] /\ OpOf(Q[k]) \notin Effective
        BY <1>1, <1>4, <4>1
      <4> QED BY <4>2
    <3> QED BY <3>1, <3>2
  <2> QED BY <2>4, <2>5
<1>6. inst \in Seq(Nat)
  BY <1>2 DEF Whole
<1> QED BY <1>1, <1>2, <1>3, <1>4, <1>5, <1>6 DEF Grown, S

\* Instructions of four words, one after the other.
Block(rows, count) == [k \in 1..(4 * count) |-> rows[(k - 1) \div 4][((k - 1) % 4) + 1]]

\* A block of rows is the block of all rows but the last, and the last row.
LEMMA BlockMore ==
    ASSUME NEW rows, NEW c \in Nat, \A i \in 0..c : rows[i] \in Seq(Nat) /\ Len(rows[i]) = 4
    PROVE  /\ Block(rows, c) \in Seq(Nat)
           /\ Block(rows, c + 1) = Block(rows, c) \o rows[c]
<1>1. \A k \in 1..(4 * (c + 1)) : (k - 1) \div 4 \in 0..c /\ ((k - 1) % 4) + 1 \in 1..4
  OBVIOUS
<1> DEFINE word(k) == rows[(k - 1) \div 4][((k - 1) % 4) + 1]
<1>2. \A k \in 1..(4 * (c + 1)) : word(k) \in Nat
  BY <1>1
<1>3. Block(rows, c) = [k \in 1..(4 * c) |-> word(k)] /\ Block(rows, c + 1) = [k \in 1..(4 * (c + 1)) |-> word(k)]
  BY DEF Block
<1> DEFINE n == 4 * c
           b == Block(rows, c)
           d == Block(rows, c + 1)
           r == rows[c]
<1>4. \A k \in 1..4 : word(n + k) = r[k]
  <2> TAKE k \in 1..4
  <2>1. ((n + k) - 1) \div 4 = c /\ (((n + k) - 1) % 4) + 1 = k
    OBVIOUS
  <2> QED BY <2>1, Zenon
<1>5. n \in Nat /\ 4 * (c + 1) = n + 4 /\ r \in Seq(Nat) /\ Len(r) = 4
  OBVIOUS
<1> HIDE DEF n, b, d, word, r
<1>6. /\ b \in Seq(Nat) /\ Len(b) = n /\ \A k \in 1..n : b[k] = word(k)
      /\ d \in Seq(Nat) /\ Len(d) = n + 4 /\ \A k \in 1..(n + 4) : d[k] = word(k)
  <2>1. b = [k \in 1..n |-> word(k)] /\ d = [k \in 1..(n + 4) |-> word(k)]
    BY <1>3, <1>5 DEF n, b, d
  <2>2. \A k \in 1..(n + 4) : word(k) \in Nat
    BY <1>2, <1>5
  <2>3. n \in Nat /\ n + 4 \in Nat /\ \A k \in 1..n : word(k) \in Nat
    BY <1>5, <2>2
  <2> QED BY <2>1, <2>2, <2>3
<1>7. d = b \o r
  <2>1. b \o r \in Seq(Nat) /\ Len(b \o r) = n + 4
    <3>1. b \in Seq(Nat) /\ r \in Seq(Nat) /\ Len(b) = n /\ Len(r) = 4
      BY <1>5, <1>6
    <3>2. b \o r \in Seq(Nat) /\ Len(b \o r) = Len(b) + Len(r)
      BY <3>1, Joined
    <3> QED BY <3>1, <3>2
  <2>0. \A k \in 1..(n + 4) : (b \o r)[k] = IF k <= n THEN b[k] ELSE r[k - n]
    <3>1. \A k \in 1..(Len(b) + Len(r)) : (b \o r)[k] = IF k <= Len(b) THEN b[k] ELSE r[k - Len(b)]
      BY <1>5, <1>6, ConcatProperties
    <3> QED BY <1>5, <1>6, <3>1
  <2>2. ASSUME NEW k \in 1..(n + 4) PROVE d[k] = (b \o r)[k]
    <3>1. CASE k <= n
      BY <1>5, <1>6, <2>0, <3>1
    <3>2. CASE ~(k <= n)
      <4>1. k - n \in 1..4 /\ n + (k - n) = k
        BY <1>5, <3>2
      <4>2. (b \o r)[k] = r[k - n]
        BY <2>0, <3>2
      <4>3. word(k) = r[k - n]
        BY <1>4, <4>1
      <4> QED BY <1>6, <4>2, <4>3
    <3> QED BY <3>1, <3>2
  <2> QED BY <1>6, <2>1, <2>2, SeqEqual
<1> QED BY <1>6, <1>7 DEF b, d, r

\* Rows that are declarations with consecutive ids grow the module as a block.
LEMMA GrownBlock ==
    ASSUME NEW P \in Seq(Instr), NEW ws, NEW n, NEW R, Grown(P, ws, n, R), NEW rows, NEW count \in Nat,
           \A i \in 0..count : Declares(rows[i], n + i, R) /\ Len(rows[i]) = 4
    PROVE  Grown(P, ws \o Block(rows, count), n + count, R) /\ Block(rows, count) \in Seq(Nat)
<1>1. ws \in Seq(Nat) /\ n \in Nat
  BY DEF Grown, Fine
<1>2. \A i \in 0..count : rows[i] \in Seq(Nat)
  BY DEF Declares, Whole
<1> DEFINE T == {c \in 0..count : Grown(P, ws \o Block(rows, c), n + c, R)}
<1>3. 0 \in T
  <2>1. Block(rows, 0) = <<>>
    BY DEF Block
  <2>2. ws \o <<>> = ws /\ n + 0 = n
    BY <1>1
  <2>3. Grown(P, ws \o Block(rows, 0), n + 0, R)
    BY <2>1, <2>2
  <2> QED BY <2>3
<1>4. ASSUME NEW c \in 0..(count - 1), c \in T PROVE c + 1 \in T
  <2>1. /\ Block(rows, c) \in Seq(Nat)
        /\ Block(rows, c + 1) = Block(rows, c) \o rows[c]
    <3>1. c \in Nat /\ \A i \in 0..c : i \in 0..count
      OBVIOUS
    <3>2. \A i \in 0..c : rows[i] \in Seq(Nat) /\ Len(rows[i]) = 4
      BY <1>2, <3>1
    <3> QED BY <3>1, <3>2, BlockMore
  <2>2. Declares(rows[c], n + c, R) /\ rows[c] \in Seq(Nat)
    BY <1>2
  <2>3. Grown(P, ws \o Block(rows, c), n + c, R)
    BY <1>4
  <2>4. Grown(P, (ws \o Block(rows, c)) \o rows[c], (n + c) + 1, R)
    BY <2>2, <2>3, GrownMore
  <2>5. (ws \o Block(rows, c)) \o rows[c] = ws \o Block(rows, c + 1)
    <3> DEFINE b == Block(rows, c)
               r == rows[c]
    <3>1. b \in Seq(Nat) /\ r \in Seq(Nat)
      BY <2>1, <2>2
    <3> HIDE DEF b, r
    <3>2. (ws \o b) \o r = ws \o (b \o r)
      BY <1>1, <3>1, Joined
    <3> QED BY <2>1, <3>2 DEF b, r
  <2>6. (n + c) + 1 = n + (c + 1) /\ c + 1 \in 0..count
    BY <1>1
  <2> QED BY <2>4, <2>5, <2>6
<1>5. 0..count \subseteq T
  <2> HIDE DEF T
  <2> QED BY <1>3, <1>4, SetInductionUpTo
<1>6. count \in T
  <2> HIDE DEF T
  <2> QED BY <1>5
<1>7. Block(rows, count) \in Seq(Nat)
  BY <1>2, BlockMore
<1> QED BY <1>6, <1>7

USE DecoderAssumption, WcAssumption

\* An instruction with the result n and the ids used.
Declaration(op, tail, n, R, used) ==
    /\ n \in Nat \ {0} /\ R \in SUBSET (1..(n - 1)) /\ op \in 1..400
    /\ tail \in Seq(Nat) /\ Len(tail) + 1 < WcMod
    /\ op \notin Effective /\ ResultAt(op) # 0 /\ ResultAt(op) - 1 \in 1..Len(tail)
    /\ tail[ResultAt(op) - 1] = n
    /\ \A in \in Instr : OpOf(in) = op /\ in.words = Words(op, tail) => IdOperands(in) = used
    /\ used \ ((1..(n - 1)) \ R) = IF op = 23 THEN {0} ELSE {}

\* What inst makes of an instruction with a result is a declaration.
LEMMA MadeDeclares ==
    ASSUME NEW op, NEW tail, NEW n, NEW R, NEW used, Declaration(op, tail, n, R, used)
    PROVE  Declares(Words(op, tail), n, R) /\ Len(Words(op, tail)) = Len(tail) + 1
<1> USE DEF Declaration
<1> DEFINE inst == Words(op, tail)
<1>1. Fits(op, tail)
  <2>1. op \in 0..(OpMod - 1) /\ op # 0
    BY OpModType
  <2> QED BY <2>1 DEF Fits
<1>2. \A e \in Emitter : /\ Whole(inst) /\ OpOf(Made(e, op, tail)) = op
                         /\ inst \in Seq(Nat) /\ Len(inst) = Len(tail) + 1
                         /\ \A k \in 1..Len(tail) : inst[k + 1] = tail[k]
  BY <1>1, MadeIs
<1>3. ASSUME NEW ws \in Seq(Nat)
      PROVE  /\ Whole(inst) /\ Len(inst) = Len(tail) + 1
             /\ ResultAt(OpOf(At(ws, inst))) # 0 /\ ResultOf(At(ws, inst)) = n
             /\ OpOf(At(ws, inst)) \notin Effective
             /\ Uses(At(ws, inst), (1..(n - 1)) \ R)
  <2> DEFINE e == [words |-> ws, nextId |-> 1, boundIdx |-> 0]
             in == At(ws, inst)
  <2>1. e \in Emitter /\ Made(e, op, tail) = in
    BY DEF Emitter, Made
  <2>2. /\ Whole(inst) /\ OpOf(in) = op /\ inst \in Seq(Nat) /\ Len(inst) = Len(tail) + 1
        /\ \A k \in 1..Len(tail) : inst[k + 1] = tail[k]
    BY <1>2, <2>1
  <2> HIDE DEF inst
  <2>3. in \in Instr /\ in.words = inst
    BY <2>2 DEF At, Instr
  <2> HIDE DEF in, e
  <2>4. ResultOf(in) = n
    <3> DEFINE k == ResultAt(op) - 1
    <3>1. k \in 1..Len(tail) /\ tail[k] = n /\ ResultAt(op) = k + 1
      <4>1. ResultAt(op) \in {0, 2, 3}
        BY DEF ResultAt
      <4> QED BY <4>1
    <3> HIDE DEF k
    <3>2. ResultOf(in) = inst[k + 1]
      BY <2>2, <2>3, <3>1 DEF ResultOf
    <3> QED BY <2>2, <3>1, <3>2
  <2>5. Uses(in, (1..(n - 1)) \ R)
    <3>1. IdOperands(in) = used
      BY <2>2, <2>3 DEF inst
    <3> QED BY <2>2, <3>1 DEF Uses
  <2> QED BY <2>2, <2>4, <2>5 DEF in
<1>4. <<>> \in Seq(Nat)
  OBVIOUS
<1> QED BY <1>3, <1>4 DEF Declares

\* A first word and three operands, as one list.
LEMMA FourWords ==
    ASSUME NEW w \in Nat, NEW a \in Nat, NEW b \in Nat, NEW c \in Nat
    PROVE  <<w>> \o <<a, b, c>> = <<w, a, b, c>>
<1> DEFINE s == <<w>> \o <<a, b, c>>
           t == <<w, a, b, c>>
<1>1. s \in Seq(Nat) /\ Len(s) = 4 /\ s[1] = w /\ s[2] = a /\ s[3] = b /\ s[4] = c
  OBVIOUS
<1>2. t \in Seq(Nat) /\ Len(t) = 4 /\ t[1] = w /\ t[2] = a /\ t[3] = b /\ t[4] = c
  OBVIOUS
<1>3. \A k \in 1..4 : k = 1 \/ k = 2 \/ k = 3 \/ k = 4
  OBVIOUS
<1> HIDE DEF s, t
<1>4. \A k \in 1..Len(s) : s[k] = t[k]
  BY <1>1, <1>2, <1>3
<1>5. s = t
  BY <1>1, <1>2, <1>4, SeqEqual
<1> QED BY <1>5 DEF s, t

\* The same for one and two operands.
LEMMA ThreeWords ==
    ASSUME NEW w \in Nat, NEW a \in Nat, NEW b \in Nat
    PROVE  <<w>> \o <<a>> = <<w, a>> /\ <<w>> \o <<a, b>> = <<w, a, b>>
<1> DEFINE s == <<w>> \o <<a, b>>
           t == <<w, a, b>>
<1>1. s \in Seq(Nat) /\ Len(s) = 3 /\ s[1] = w /\ s[2] = a /\ s[3] = b
  OBVIOUS
<1>2. t \in Seq(Nat) /\ Len(t) = 3 /\ t[1] = w /\ t[2] = a /\ t[3] = b
  OBVIOUS
<1>3. \A k \in 1..3 : k = 1 \/ k = 2 \/ k = 3
  OBVIOUS
<1>4. s = t
  <2> HIDE DEF s, t
  <2>1. \A k \in 1..Len(s) : s[k] = t[k]
    BY <1>1, <1>2, <1>3
  <2> QED BY <1>1, <1>2, <2>1, SeqEqual
<1>5. <<w>> \o <<a>> = <<w, a>>
  <2> DEFINE x == <<w>> \o <<a>>
             y == <<w, a>>
  <2>1. x \in Seq(Nat) /\ Len(x) = 2 /\ x[1] = w /\ x[2] = a
    OBVIOUS
  <2>2. y \in Seq(Nat) /\ Len(y) = 2 /\ y[1] = w /\ y[2] = a
    OBVIOUS
  <2>3. \A k \in 1..2 : k = 1 \/ k = 2
    OBVIOUS
  <2>4. x = y
    <3> HIDE DEF x, y
    <3>1. \A k \in 1..Len(x) : x[k] = y[k]
      BY <2>1, <2>2, <2>3
    <3> QED BY <2>1, <2>2, <3>1, SeqEqual
  <2> QED BY <2>4
<1> QED BY <1>4, <1>5

\* The words of an instruction with one operand.
LEMMA Words1 ==
    ASSUME NEW op \in Nat, NEW a \in Nat
    PROVE  Words(op, <<a>>) = <<InstWord(op, 1), a>>
<1>1. InstWord(op, 1) \in Nat
  BY InstWordType
<1>2. Len(<<a>>) = 1 /\ 0 \in Nat
  OBVIOUS
<1> QED BY <1>1, <1>2, ThreeWords DEF Words

\* The words of an instruction with two operands.
LEMMA Words2 ==
    ASSUME NEW op \in Nat, NEW a \in Nat, NEW b \in Nat
    PROVE  Words(op, <<a, b>>) = <<InstWord(op, 2), a, b>>
<1>1. InstWord(op, 2) \in Nat
  BY InstWordType
<1>2. Len(<<a, b>>) = 2
  OBVIOUS
<1>3. <<InstWord(op, 2)>> \o <<a, b>> = <<InstWord(op, 2), a, b>>
  BY <1>1, ThreeWords
<1> QED BY <1>2, <1>3 DEF Words

\* The words of an instruction with three operands.
LEMMA Words3 ==
    ASSUME NEW op \in Nat, NEW a \in Nat, NEW b \in Nat, NEW c \in Nat
    PROVE  Words(op, <<a, b, c>>) = <<InstWord(op, 3), a, b, c>>
<1>1. InstWord(op, 3) \in Nat
  BY InstWordType
<1>2. Len(<<a, b, c>>) = 3
  OBVIOUS
<1>3. <<InstWord(op, 3)>> \o <<a, b, c>> = <<InstWord(op, 3), a, b, c>>
  BY <1>1, FourWords
<1> QED BY <1>2, <1>3 DEF Words

\* What inst makes of the types, the pointer type and a variable, word for word.
LEMMA TypeWords ==
    ASSUME NEW n \in Nat, NEW a \in Nat, NEW b \in Nat
    PROVE  /\ Words(21, <<n, a, b>>) = <<InstWord(21, 3), n, a, b>>
           /\ Words(23, <<n, 0, b>>) = <<InstWord(23, 3), n, 0, b>>
           /\ Words(32, <<n, a, b>>) = <<InstWord(32, 3), n, a, b>>
           /\ Words(59, <<b, n, a>>) = <<InstWord(59, 3), b, n, a>>
<1>1. 21 \in Nat /\ 23 \in Nat /\ 32 \in Nat /\ 59 \in Nat /\ 0 \in Nat
  OBVIOUS
<1>2. Words(21, <<n, a, b>>) = <<InstWord(21, 3), n, a, b>>
  BY <1>1, Words3, SMT
<1>3. Words(23, <<n, 0, b>>) = <<InstWord(23, 3), n, 0, b>>
  BY <1>1, Words3, SMT
<1>4. Words(32, <<n, a, b>>) = <<InstWord(32, 3), n, a, b>>
  BY <1>1, Words3, SMT
<1>5. Words(59, <<b, n, a>>) = <<InstWord(59, 3), b, n, a>>
  BY <1>1, Words3, SMT
<1> QED BY <1>2, <1>3, <1>4, <1>5

\* A type whose words name only ids that are defined is a declaration.
LEMMA TypeDeclares ==
    ASSUME NEW n \in Nat \ {0}, NEW R \in SUBSET (1..(n - 1)), NEW a \in Nat, NEW b \in Nat
    PROVE  /\ \A op \in {19, 20} : /\ Declares(<<InstWord(op, 1), n>>, n, R)
                                   /\ <<InstWord(op, 1), n>> \in Seq(Nat)
           /\ Declares(<<InstWord(21, 3), n, a, b>>, n, R) /\ <<InstWord(21, 3), n, a, b>> \in Seq(Nat)
           /\ Declares(<<InstWord(22, 2), n, a>>, n, R) /\ <<InstWord(22, 2), n, a>> \in Seq(Nat)
           /\ Declares(<<InstWord(23, 3), n, 0, b>>, n, R) /\ Len(<<InstWord(23, 3), n, 0, b>>) = 4
           /\ b \in (1..(n - 1)) \ R =>
                /\ Declares(<<InstWord(32, 3), n, a, b>>, n, R)
                /\ <<InstWord(32, 3), n, a, b>> \in Seq(Nat)
           /\ b \in (1..(n - 1)) \ R =>
                /\ Declares(<<InstWord(59, 3), b, n, a>>, n, R)
                /\ Len(<<InstWord(59, 3), b, n, a>>) = 4
<1> DEFINE D == (1..(n - 1)) \ R
<1>0. 0 \notin D /\ n \in Nat /\ 0 \in Nat
  OBVIOUS
<1>u. n \in Nat /\ 22 \in Nat
  OBVIOUS
<1>w. /\ Words(21, <<n, a, b>>) = <<InstWord(21, 3), n, a, b>>
      /\ Words(23, <<n, 0, b>>) = <<InstWord(23, 3), n, 0, b>>
      /\ Words(32, <<n, a, b>>) = <<InstWord(32, 3), n, a, b>>
      /\ Words(59, <<b, n, a>>) = <<InstWord(59, 3), b, n, a>>
  <2> HIDE DEF D
  <2> QED BY <1>u, TypeWords
<1>1. ASSUME NEW op \in {19, 20}
      PROVE  Declares(<<InstWord(op, 1), n>>, n, R)
  <2> DEFINE tail == <<n>>
  <2>1. tail \in Seq(Nat) /\ Len(tail) = 1 /\ tail[1] = n
    OBVIOUS
  <2>2. ResultAt(op) = 2 /\ op \in 1..400 /\ op \notin Effective /\ op # 23
    BY <1>1 DEF ResultAt, Effective
  <2>3. \A in \in Instr : OpOf(in) = op /\ in.words = Words(op, tail) => IdOperands(in) = {}
    BY <1>1 DEF IdOperands
  <2>4. Words(op, tail) = <<InstWord(op, 1), n>>
    <3>1. op \in Nat
      BY <1>1
    <3> QED BY <1>0, <3>1, Words1, Zenon
  <2>5. {} \ D = {}
    OBVIOUS
  <2>6. Declaration(op, tail, n, R, {})
    <3>1. ResultAt(op) # 0 /\ ResultAt(op) - 1 \in 1..Len(tail) /\ tail[ResultAt(op) - 1] = n
      <4> HIDE DEF tail
      <4> QED BY <2>1, <2>2
    <3>2. Len(tail) + 1 < WcMod
      <4> HIDE DEF tail
      <4> QED BY <2>1
    <3> HIDE DEF tail
    <3> QED BY <2>1, <2>2, <2>3, <2>5, <3>1, <3>2 DEF Declaration
  <2> QED BY <2>4, <2>6, MadeDeclares
<1>2. Declares(<<InstWord(21, 3), n, a, b>>, n, R)
  <2> DEFINE tail == <<n, a, b>>
  <2>1. tail \in Seq(Nat) /\ Len(tail) = 3 /\ tail[1] = n
    OBVIOUS
  <2>2. ResultAt(21) = 2 /\ 21 \in 1..400 /\ 21 \notin Effective
    BY DEF ResultAt, Effective
  <2>3. \A in \in Instr : OpOf(in) = 21 /\ in.words = Words(21, tail) => IdOperands(in) = {}
    BY DEF IdOperands
  <2>4. Words(21, tail) = <<InstWord(21, 3), n, a, b>>
    BY <1>w, Zenon
  <2>5. {} \ D = {}
    OBVIOUS
  <2>6. Declaration(21, tail, n, R, {})
    <3>1. ResultAt(21) # 0 /\ ResultAt(21) - 1 \in 1..Len(tail) /\ tail[ResultAt(21) - 1] = n
      <4> HIDE DEF tail
      <4> QED BY <2>1, <2>2
    <3>2. Len(tail) + 1 < WcMod
      <4> HIDE DEF tail
      <4> QED BY <2>1
    <3> HIDE DEF tail
    <3> QED BY <2>1, <2>2, <2>3, <2>5, <3>1, <3>2 DEF Declaration
  <2> QED BY <2>4, <2>6, MadeDeclares
<1>3. Declares(<<InstWord(22, 2), n, a>>, n, R)
  <2> DEFINE tail == <<n, a>>
  <2>1. tail \in Seq(Nat) /\ Len(tail) = 2 /\ tail[1] = n
    OBVIOUS
  <2>2. ResultAt(22) = 2 /\ 22 \in 1..400 /\ 22 \notin Effective
    BY DEF ResultAt, Effective
  <2>3. \A in \in Instr : OpOf(in) = 22 /\ in.words = Words(22, tail) => IdOperands(in) = {}
    BY DEF IdOperands
  <2>4. Words(22, tail) = <<InstWord(22, 2), n, a>>
    BY <1>u, Words2, Zenon
  <2>5. {} \ D = {}
    OBVIOUS
  <2>6. Declaration(22, tail, n, R, {})
    <3>1. ResultAt(22) # 0 /\ ResultAt(22) - 1 \in 1..Len(tail) /\ tail[ResultAt(22) - 1] = n
      <4> HIDE DEF tail
      <4> QED BY <2>1, <2>2
    <3>2. Len(tail) + 1 < WcMod
      <4> HIDE DEF tail
      <4> QED BY <2>1
    <3> HIDE DEF tail
    <3> QED BY <2>1, <2>2, <2>3, <2>5, <3>1, <3>2 DEF Declaration
  <2> QED BY <2>4, <2>6, MadeDeclares
<1>4. Declares(<<InstWord(23, 3), n, 0, b>>, n, R)
  <2> DEFINE tail == <<n, 0, b>>
  <2>1. tail \in Seq(Nat) /\ Len(tail) = 3 /\ tail[1] = n
    OBVIOUS
  <2>2. ResultAt(23) = 2 /\ 23 \in 1..400 /\ 23 \notin Effective
    BY DEF ResultAt, Effective
  <2>4. Words(23, tail) = <<InstWord(23, 3), n, 0, b>>
    BY <1>w, Zenon
  <2>3. \A in \in Instr : OpOf(in) = 23 /\ in.words = Words(23, tail) => IdOperands(in) = {0}
    BY <2>4 DEF IdOperands
  <2>5. {0} \ D = {0}
    BY <1>0
  <2>6. Declaration(23, tail, n, R, {0})
    <3>1. ResultAt(23) # 0 /\ ResultAt(23) - 1 \in 1..Len(tail) /\ tail[ResultAt(23) - 1] = n
      <4> HIDE DEF tail
      <4> QED BY <2>1, <2>2
    <3>2. Len(tail) + 1 < WcMod
      <4> HIDE DEF tail
      <4> QED BY <2>1
    <3> HIDE DEF tail
    <3> QED BY <2>1, <2>2, <2>3, <2>5, <3>1, <3>2 DEF Declaration
  <2> QED BY <2>4, <2>6, MadeDeclares
<1>5. ASSUME b \in D
      PROVE  Declares(<<InstWord(32, 3), n, a, b>>, n, R)
  <2> DEFINE tail == <<n, a, b>>
  <2>1. tail \in Seq(Nat) /\ Len(tail) = 3 /\ tail[1] = n
    OBVIOUS
  <2>2. ResultAt(32) = 2 /\ 32 \in 1..400 /\ 32 \notin Effective
    BY DEF ResultAt, Effective
  <2>4. Words(32, tail) = <<InstWord(32, 3), n, a, b>>
    BY <1>w, Zenon
  <2>3. \A in \in Instr : OpOf(in) = 32 /\ in.words = Words(32, tail) => IdOperands(in) = {b}
    BY <2>4 DEF IdOperands
  <2>5. {b} \ D = {}
    BY <1>5
  <2>6. Declaration(32, tail, n, R, {b})
    <3>1. ResultAt(32) # 0 /\ ResultAt(32) - 1 \in 1..Len(tail) /\ tail[ResultAt(32) - 1] = n
      <4> HIDE DEF tail
      <4> QED BY <2>1, <2>2
    <3>2. Len(tail) + 1 < WcMod
      <4> HIDE DEF tail
      <4> QED BY <2>1
    <3> HIDE DEF tail
    <3> QED BY <2>1, <2>2, <2>3, <2>5, <3>1, <3>2 DEF Declaration
  <2> QED BY <2>4, <2>6, MadeDeclares
<1>6. ASSUME b \in D
      PROVE  Declares(<<InstWord(59, 3), b, n, a>>, n, R)
  <2> DEFINE tail == <<b, n, a>>
  <2>1. tail \in Seq(Nat) /\ Len(tail) = 3 /\ tail[2] = n
    OBVIOUS
  <2>2. ResultAt(59) = 3 /\ 59 \in 1..400 /\ 59 \notin Effective
    BY DEF ResultAt, Effective
  <2>4. Words(59, tail) = <<InstWord(59, 3), b, n, a>>
    BY <1>w, Zenon
  <2>3. \A in \in Instr : OpOf(in) = 59 /\ in.words = Words(59, tail) => IdOperands(in) = {b}
    BY <2>4 DEF IdOperands
  <2>5. {b} \ D = {}
    BY <1>6
  <2>6. Declaration(59, tail, n, R, {b})
    <3>1. ResultAt(59) # 0 /\ ResultAt(59) - 1 \in 1..Len(tail) /\ tail[ResultAt(59) - 1] = n
      <4> HIDE DEF tail
      <4> QED BY <2>1, <2>2
    <3>2. Len(tail) + 1 < WcMod
      <4> HIDE DEF tail
      <4> QED BY <2>1
    <3> HIDE DEF tail
    <3> QED BY <2>1, <2>2, <2>3, <2>5, <3>1, <3>2 DEF Declaration
  <2> QED BY <2>4, <2>6, MadeDeclares
<1>7. \A inst : Declares(inst, n, R) => inst \in Seq(Nat)
  BY DEF Declares, Whole
<1> QED BY <1>1, <1>2, <1>3, <1>4, <1>5, <1>6, <1>7

\* ws with A at the end: all that init has added so far.
GrownBy(P, ws, A, n, R) ==
    /\ P \in Seq(Instr) /\ ws \in Seq(Nat) /\ A \in Seq(Nat)
    /\ Grown(P, ws \o A, n, R)

\* One instruction more of init.
LEMMA GrownStep ==
    ASSUME NEW P, NEW ws, NEW A, NEW n, NEW R, GrownBy(P, ws, A, n, R),
           NEW inst, Declares(inst, n, R)
    PROVE  GrownBy(P, ws, A \o inst, n + 1, R)
<1>1. P \in Seq(Instr) /\ ws \in Seq(Nat) /\ A \in Seq(Nat) /\ Grown(P, ws \o A, n, R)
  BY DEF GrownBy
<1>2. Grown(P, (ws \o A) \o inst, n + 1, R) /\ inst \in Seq(Nat)
  BY <1>1, GrownMore
<1>3. (ws \o A) \o inst = ws \o (A \o inst) /\ A \o inst \in Seq(Nat)
  BY <1>1, <1>2, Joined, SMTT(30)
<1> QED BY <1>1, <1>2, <1>3 DEF GrownBy

\* A block more of init.
LEMMA GrownRows ==
    ASSUME NEW P, NEW ws, NEW A, NEW n, NEW R, GrownBy(P, ws, A, n, R), NEW rows, NEW count \in Nat,
           \A i \in 0..count : Declares(rows[i], n + i, R) /\ Len(rows[i]) = 4
    PROVE  GrownBy(P, ws, A \o Block(rows, count), n + count, R)
<1>1. P \in Seq(Instr) /\ ws \in Seq(Nat) /\ A \in Seq(Nat) /\ Grown(P, ws \o A, n, R)
  BY DEF GrownBy
<1>2. Grown(P, (ws \o A) \o Block(rows, count), n + count, R) /\ Block(rows, count) \in Seq(Nat)
  BY <1>1, GrownBlock
<1> DEFINE b == Block(rows, count)
<1>3. (ws \o A) \o b = ws \o (A \o b) /\ A \o b \in Seq(Nat)
  <2>1. b \in Seq(Nat)
    BY <1>2
  <2> HIDE DEF b
  <2> QED BY <1>1, <2>1, Joined, SMTT(30)
<1> QED BY <1>1, <1>2, <1>3 DEF GrownBy

\* The 13 scalar types of init are declarations, one id after the other.
LEMMA ScalarsDeclare ==
    ASSUME NEW n \in Nat \ {0}, NEW R \in SUBSET (1..(n - 1))
    PROVE  /\ Declares(<<InstWord(19, 1), n>>, n, R)
           /\ Declares(<<InstWord(21, 3), n + 1, 8, 0>>, n + 1, R)
           /\ Declares(<<InstWord(21, 3), n + 2, 16, 0>>, n + 2, R)
           /\ Declares(<<InstWord(21, 3), n + 3, 32, 0>>, n + 3, R)
           /\ Declares(<<InstWord(21, 3), n + 4, 64, 0>>, n + 4, R)
           /\ Declares(<<InstWord(21, 3), n + 5, 8, 1>>, n + 5, R)
           /\ Declares(<<InstWord(21, 3), n + 6, 16, 1>>, n + 6, R)
           /\ Declares(<<InstWord(21, 3), n + 7, 32, 1>>, n + 7, R)
           /\ Declares(<<InstWord(21, 3), n + 8, 64, 1>>, n + 8, R)
           /\ Declares(<<InstWord(22, 2), n + 9, 16>>, n + 9, R)
           /\ Declares(<<InstWord(22, 2), n + 10, 32>>, n + 10, R)
           /\ Declares(<<InstWord(22, 2), n + 11, 64>>, n + 11, R)
           /\ Declares(<<InstWord(20, 1), n + 12>>, n + 12, R)
<1>1. ASSUME NEW k \in Nat PROVE n + k \in Nat \ {0} /\ R \in SUBSET (1..(n + k - 1))
  OBVIOUS
<1>2. /\ \A k \in {0, 1, 2, 3, 4, 5, 6, 7, 8, 9, 10, 11, 12} : k \in Nat
      /\ \A a \in {8, 16, 32, 64} : a \in Nat
      /\ n + 0 = n
  OBVIOUS
<1>3. Declares(<<InstWord(19, 1), n>>, n, R)
  <2> DEFINE m == n
  <2>1. m \in Nat \ {0} /\ R \in SUBSET (1..(m - 1)) /\ 0 \in Nat /\ 1 \in Nat
    OBVIOUS
  <2>2. TRUE
    OBVIOUS
  <2> HIDE DEF m
  <2>3. Declares(<<InstWord(19, 1), m>>, m, R)
    BY <2>1, <2>2, TypeDeclares
  <2> QED BY <2>3 DEF m
<1>4. Declares(<<InstWord(21, 3), n + 1, 8, 0>>, n + 1, R)
  <2> DEFINE m == n + 1
  <2>1. m \in Nat \ {0} /\ R \in SUBSET (1..(m - 1)) /\ 0 \in Nat /\ 1 \in Nat
    OBVIOUS
  <2>2. 8 \in Nat
    OBVIOUS
  <2> HIDE DEF m
  <2>3. Declares(<<InstWord(21, 3), m, 8, 0>>, m, R)
    BY <2>1, <2>2, TypeDeclares
  <2> QED BY <2>3 DEF m
<1>5. Declares(<<InstWord(21, 3), n + 2, 16, 0>>, n + 2, R)
  <2> DEFINE m == n + 2
  <2>1. m \in Nat \ {0} /\ R \in SUBSET (1..(m - 1)) /\ 0 \in Nat /\ 1 \in Nat
    OBVIOUS
  <2>2. 16 \in Nat
    OBVIOUS
  <2> HIDE DEF m
  <2>3. Declares(<<InstWord(21, 3), m, 16, 0>>, m, R)
    BY <2>1, <2>2, TypeDeclares
  <2> QED BY <2>3 DEF m
<1>6. Declares(<<InstWord(21, 3), n + 3, 32, 0>>, n + 3, R)
  <2> DEFINE m == n + 3
  <2>1. m \in Nat \ {0} /\ R \in SUBSET (1..(m - 1)) /\ 0 \in Nat /\ 1 \in Nat
    OBVIOUS
  <2>2. 32 \in Nat
    OBVIOUS
  <2> HIDE DEF m
  <2>3. Declares(<<InstWord(21, 3), m, 32, 0>>, m, R)
    BY <2>1, <2>2, TypeDeclares
  <2> QED BY <2>3 DEF m
<1>7. Declares(<<InstWord(21, 3), n + 4, 64, 0>>, n + 4, R)
  <2> DEFINE m == n + 4
  <2>1. m \in Nat \ {0} /\ R \in SUBSET (1..(m - 1)) /\ 0 \in Nat /\ 1 \in Nat
    OBVIOUS
  <2>2. 64 \in Nat
    OBVIOUS
  <2> HIDE DEF m
  <2>3. Declares(<<InstWord(21, 3), m, 64, 0>>, m, R)
    BY <2>1, <2>2, TypeDeclares
  <2> QED BY <2>3 DEF m
<1>8. Declares(<<InstWord(21, 3), n + 5, 8, 1>>, n + 5, R)
  <2> DEFINE m == n + 5
  <2>1. m \in Nat \ {0} /\ R \in SUBSET (1..(m - 1)) /\ 0 \in Nat /\ 1 \in Nat
    OBVIOUS
  <2>2. 8 \in Nat
    OBVIOUS
  <2> HIDE DEF m
  <2>3. Declares(<<InstWord(21, 3), m, 8, 1>>, m, R)
    BY <2>1, <2>2, TypeDeclares
  <2> QED BY <2>3 DEF m
<1>9. Declares(<<InstWord(21, 3), n + 6, 16, 1>>, n + 6, R)
  <2> DEFINE m == n + 6
  <2>1. m \in Nat \ {0} /\ R \in SUBSET (1..(m - 1)) /\ 0 \in Nat /\ 1 \in Nat
    OBVIOUS
  <2>2. 16 \in Nat
    OBVIOUS
  <2> HIDE DEF m
  <2>3. Declares(<<InstWord(21, 3), m, 16, 1>>, m, R)
    BY <2>1, <2>2, TypeDeclares
  <2> QED BY <2>3 DEF m
<1>10. Declares(<<InstWord(21, 3), n + 7, 32, 1>>, n + 7, R)
  <2> DEFINE m == n + 7
  <2>1. m \in Nat \ {0} /\ R \in SUBSET (1..(m - 1)) /\ 0 \in Nat /\ 1 \in Nat
    OBVIOUS
  <2>2. 32 \in Nat
    OBVIOUS
  <2> HIDE DEF m
  <2>3. Declares(<<InstWord(21, 3), m, 32, 1>>, m, R)
    BY <2>1, <2>2, TypeDeclares
  <2> QED BY <2>3 DEF m
<1>11. Declares(<<InstWord(21, 3), n + 8, 64, 1>>, n + 8, R)
  <2> DEFINE m == n + 8
  <2>1. m \in Nat \ {0} /\ R \in SUBSET (1..(m - 1)) /\ 0 \in Nat /\ 1 \in Nat
    OBVIOUS
  <2>2. 64 \in Nat
    OBVIOUS
  <2> HIDE DEF m
  <2>3. Declares(<<InstWord(21, 3), m, 64, 1>>, m, R)
    BY <2>1, <2>2, TypeDeclares
  <2> QED BY <2>3 DEF m
<1>12. Declares(<<InstWord(22, 2), n + 9, 16>>, n + 9, R)
  <2> DEFINE m == n + 9
  <2>1. m \in Nat \ {0} /\ R \in SUBSET (1..(m - 1)) /\ 0 \in Nat /\ 1 \in Nat
    OBVIOUS
  <2>2. 16 \in Nat
    OBVIOUS
  <2> HIDE DEF m
  <2>3. Declares(<<InstWord(22, 2), m, 16>>, m, R)
    BY <2>1, <2>2, TypeDeclares
  <2> QED BY <2>3 DEF m
<1>13. Declares(<<InstWord(22, 2), n + 10, 32>>, n + 10, R)
  <2> DEFINE m == n + 10
  <2>1. m \in Nat \ {0} /\ R \in SUBSET (1..(m - 1)) /\ 0 \in Nat /\ 1 \in Nat
    OBVIOUS
  <2>2. 32 \in Nat
    OBVIOUS
  <2> HIDE DEF m
  <2>3. Declares(<<InstWord(22, 2), m, 32>>, m, R)
    BY <2>1, <2>2, TypeDeclares
  <2> QED BY <2>3 DEF m
<1>14. Declares(<<InstWord(22, 2), n + 11, 64>>, n + 11, R)
  <2> DEFINE m == n + 11
  <2>1. m \in Nat \ {0} /\ R \in SUBSET (1..(m - 1)) /\ 0 \in Nat /\ 1 \in Nat
    OBVIOUS
  <2>2. 64 \in Nat
    OBVIOUS
  <2> HIDE DEF m
  <2>3. Declares(<<InstWord(22, 2), m, 64>>, m, R)
    BY <2>1, <2>2, TypeDeclares
  <2> QED BY <2>3 DEF m
<1>15. Declares(<<InstWord(20, 1), n + 12>>, n + 12, R)
  <2> DEFINE m == n + 12
  <2>1. m \in Nat \ {0} /\ R \in SUBSET (1..(m - 1)) /\ 0 \in Nat /\ 1 \in Nat
    OBVIOUS
  <2>2. TRUE
    OBVIOUS
  <2> HIDE DEF m
  <2>3. Declares(<<InstWord(20, 1), m>>, m, R)
    BY <2>1, <2>2, TypeDeclares
  <2> QED BY <2>3 DEF m
<1> QED BY <1>3, <1>4, <1>5, <1>6, <1>7, <1>8, <1>9, <1>10, <1>11, <1>12, <1>13, <1>14, <1>15

\* So the module has grown by them.
LEMMA ScalarsGrow ==
    ASSUME NEW P \in Seq(Instr), NEW ws, NEW n, NEW R, Grown(P, ws, n, R)
    PROVE  GrownBy(P, ws, ScalarTypes(n), n + 13, R)
<1>1. /\ ws \in Seq(Nat) /\ n \in Nat \ {0} /\ R \in SUBSET (1..(n - 1))
  BY DEF Grown, Fine
<1> DEFINE t0 == <<InstWord(19, 1), n>>
           t1 == <<InstWord(21, 3), n + 1, 8, 0>>
           t2 == <<InstWord(21, 3), n + 2, 16, 0>>
           t3 == <<InstWord(21, 3), n + 3, 32, 0>>
           t4 == <<InstWord(21, 3), n + 4, 64, 0>>
           t5 == <<InstWord(21, 3), n + 5, 8, 1>>
           t6 == <<InstWord(21, 3), n + 6, 16, 1>>
           t7 == <<InstWord(21, 3), n + 7, 32, 1>>
           t8 == <<InstWord(21, 3), n + 8, 64, 1>>
           t9 == <<InstWord(22, 2), n + 9, 16>>
           t10 == <<InstWord(22, 2), n + 10, 32>>
           t11 == <<InstWord(22, 2), n + 11, 64>>
           t12 == <<InstWord(20, 1), n + 12>>
           A0 == t0
           A1 == A0 \o t1
           A2 == A1 \o t2
           A3 == A2 \o t3
           A4 == A3 \o t4
           A5 == A4 \o t5
           A6 == A5 \o t6
           A7 == A6 \o t7
           A8 == A7 \o t8
           A9 == A8 \o t9
           A10 == A9 \o t10
           A11 == A10 \o t11
           A12 == A11 \o t12
<1>2. /\ Declares(t0, n, R)
      /\ Declares(t1, n + 1, R)
      /\ Declares(t2, n + 2, R)
      /\ Declares(t3, n + 3, R)
      /\ Declares(t4, n + 4, R)
      /\ Declares(t5, n + 5, R)
      /\ Declares(t6, n + 6, R)
      /\ Declares(t7, n + 7, R)
      /\ Declares(t8, n + 8, R)
      /\ Declares(t9, n + 9, R)
      /\ Declares(t10, n + 10, R)
      /\ Declares(t11, n + 11, R)
      /\ Declares(t12, n + 12, R)
  BY <1>1, ScalarsDeclare
<1>3. ScalarTypes(n) = A12
  BY DEF ScalarTypes
<1> HIDE DEF t0, t1, t2, t3, t4, t5, t6, t7, t8, t9, t10, t11, t12
<1>4. GrownBy(P, ws, A0, n + 1, R)
  <2>1. Grown(P, ws \o A0, n + 1, R) /\ A0 \in Seq(Nat)
    BY <1>2, GrownMore
  <2> QED BY <1>1, <2>1 DEF GrownBy
<1> HIDE DEF A0, A1, A2, A3, A4, A5, A6, A7, A8, A9, A10, A11, A12
<1>5. GrownBy(P, ws, A1, n + 2, R)
  <2>1. GrownBy(P, ws, A0 \o t1, (n + 1) + 1, R)
    BY <1>2, <1>4, GrownStep
  <2>2. (n + 1) + 1 = n + 2
    BY <1>1
  <2> QED BY <2>1, <2>2 DEF A1
<1>6. GrownBy(P, ws, A2, n + 3, R)
  <2>1. GrownBy(P, ws, A1 \o t2, (n + 2) + 1, R)
    BY <1>2, <1>5, GrownStep
  <2>2. (n + 2) + 1 = n + 3
    BY <1>1
  <2> QED BY <2>1, <2>2 DEF A2
<1>7. GrownBy(P, ws, A3, n + 4, R)
  <2>1. GrownBy(P, ws, A2 \o t3, (n + 3) + 1, R)
    BY <1>2, <1>6, GrownStep
  <2>2. (n + 3) + 1 = n + 4
    BY <1>1
  <2> QED BY <2>1, <2>2 DEF A3
<1>8. GrownBy(P, ws, A4, n + 5, R)
  <2>1. GrownBy(P, ws, A3 \o t4, (n + 4) + 1, R)
    BY <1>2, <1>7, GrownStep
  <2>2. (n + 4) + 1 = n + 5
    BY <1>1
  <2> QED BY <2>1, <2>2 DEF A4
<1>9. GrownBy(P, ws, A5, n + 6, R)
  <2>1. GrownBy(P, ws, A4 \o t5, (n + 5) + 1, R)
    BY <1>2, <1>8, GrownStep
  <2>2. (n + 5) + 1 = n + 6
    BY <1>1
  <2> QED BY <2>1, <2>2 DEF A5
<1>10. GrownBy(P, ws, A6, n + 7, R)
  <2>1. GrownBy(P, ws, A5 \o t6, (n + 6) + 1, R)
    BY <1>2, <1>9, GrownStep
  <2>2. (n + 6) + 1 = n + 7
    BY <1>1
  <2> QED BY <2>1, <2>2 DEF A6
<1>11. GrownBy(P, ws, A7, n + 8, R)
  <2>1. GrownBy(P, ws, A6 \o t7, (n + 7) + 1, R)
    BY <1>2, <1>10, GrownStep
  <2>2. (n + 7) + 1 = n + 8
    BY <1>1
  <2> QED BY <2>1, <2>2 DEF A7
<1>12. GrownBy(P, ws, A8, n + 9, R)
  <2>1. GrownBy(P, ws, A7 \o t8, (n + 8) + 1, R)
    BY <1>2, <1>11, GrownStep
  <2>2. (n + 8) + 1 = n + 9
    BY <1>1
  <2> QED BY <2>1, <2>2 DEF A8
<1>13. GrownBy(P, ws, A9, n + 10, R)
  <2>1. GrownBy(P, ws, A8 \o t9, (n + 9) + 1, R)
    BY <1>2, <1>12, GrownStep
  <2>2. (n + 9) + 1 = n + 10
    BY <1>1
  <2> QED BY <2>1, <2>2 DEF A9
<1>14. GrownBy(P, ws, A10, n + 11, R)
  <2>1. GrownBy(P, ws, A9 \o t10, (n + 10) + 1, R)
    BY <1>2, <1>13, GrownStep
  <2>2. (n + 10) + 1 = n + 11
    BY <1>1
  <2> QED BY <2>1, <2>2 DEF A10
<1>15. GrownBy(P, ws, A11, n + 12, R)
  <2>1. GrownBy(P, ws, A10 \o t11, (n + 11) + 1, R)
    BY <1>2, <1>14, GrownStep
  <2>2. (n + 11) + 1 = n + 12
    BY <1>1
  <2> QED BY <2>1, <2>2 DEF A11
<1>16. GrownBy(P, ws, A12, n + 13, R)
  <2>1. GrownBy(P, ws, A11 \o t12, (n + 12) + 1, R)
    BY <1>2, <1>15, GrownStep
  <2>2. (n + 12) + 1 = n + 13
    BY <1>1
  <2> QED BY <2>1, <2>2 DEF A12
<1> QED BY <1>3, <1>16

\* The vector types and the variables are rows of four words.
VectorRows(n) == [i \in Nat |-> <<InstWord(23, 3), n + i, 0, 2 + i \div 12>>]
VariableRows(n, p) == [i \in Nat |-> <<InstWord(59, 3), p, n + i, 7>>]

\* The vector types and the variables are blocks.
LEMMA RowsAreBlocks ==
    ASSUME NEW n \in Nat, NEW p \in Nat
    PROVE  /\ VectorTypes(n) = Block(VectorRows(n), 36)
           /\ RegisterVariables(n, p) = Block(VariableRows(n, p), NRegs)
<1>1. \A c \in Nat : \A k \in 1..(4 * c) : (k - 1) \div 4 \in Nat
  OBVIOUS
<1>2. 36 \in Nat /\ NRegs \in Nat
  OBVIOUS
<1>3. VectorTypes(n) = Block(VectorRows(n), 36)
  <2> DEFINE row(i) == <<InstWord(23, 3), n + i, 0, 2 + i \div 12>>
  <2>1. VectorTypes(n) = [k \in 1..(4 * 36) |-> row((k - 1) \div 4)[((k - 1) % 4) + 1]]
    BY Zenon DEF VectorTypes
  <2>2. \A i \in Nat : VectorRows(n)[i] = row(i)
    BY Zenon DEF VectorRows
  <2>3. \A k \in 1..(4 * 36) : VectorRows(n)[(k - 1) \div 4] = row((k - 1) \div 4)
    <3> HIDE DEF row
    <3> QED BY <1>1, <1>2, <2>2, Zenon
  <2> HIDE DEF row
  <2> QED BY <2>1, <2>3, Zenon DEF Block
<1>4. RegisterVariables(n, p) = Block(VariableRows(n, p), NRegs)
  <2> DEFINE row(i) == <<InstWord(59, 3), p, n + i, 7>>
  <2>1. RegisterVariables(n, p) = [k \in 1..(4 * NRegs) |-> row((k - 1) \div 4)[((k - 1) % 4) + 1]]
    BY Zenon DEF RegisterVariables
  <2>2. \A i \in Nat : VariableRows(n, p)[i] = row(i)
    BY Zenon DEF VariableRows
  <2>3. \A k \in 1..(4 * NRegs) : VariableRows(n, p)[(k - 1) \div 4] = row((k - 1) \div 4)
    <3> HIDE DEF row
    <3> QED BY <1>1, <1>2, <2>2, Zenon
  <2> HIDE DEF row
  <2> QED BY <2>1, <2>3, Zenon DEF Block
<1> QED BY <1>3, <1>4

\* Each vector type and each variable is a declaration.
LEMMA RowsDeclare ==
    ASSUME NEW n \in Nat \ {0}, NEW R \in SUBSET (1..(n - 1)), NEW i \in Nat
    PROVE  /\ Declares(VectorRows(n)[i], n + i, R) /\ Len(VectorRows(n)[i]) = 4
           /\ \A p \in (1..(n - 1)) \ R :
                /\ Declares(VariableRows(n, p)[i], n + i, R)
                /\ Len(VariableRows(n, p)[i]) = 4
<1> DEFINE m == n + i
<1>1. /\ m \in Nat \ {0} /\ R \in SUBSET (1..(m - 1)) /\ 2 + i \div 12 \in Nat /\ 7 \in Nat
      /\ \A p \in (1..(n - 1)) \ R : p \in (1..(m - 1)) \ R /\ p \in Nat
  OBVIOUS
<1>2. /\ VectorRows(n)[i] = <<InstWord(23, 3), m, 0, 2 + i \div 12>>
      /\ \A p : VariableRows(n, p)[i] = <<InstWord(59, 3), p, m, 7>>
  BY Zenon DEF VectorRows, VariableRows
<1> HIDE DEF m
<1>3. ASSUME NEW b \in Nat
      PROVE Declares(<<InstWord(23, 3), m, 0, b>>, m, R) /\ Len(<<InstWord(23, 3), m, 0, b>>) = 4
  BY <1>1, TypeDeclares
<1>4. ASSUME NEW p \in (1..(n - 1)) \ R
      PROVE  Declares(<<InstWord(59, 3), p, m, 7>>, m, R) /\ Len(<<InstWord(59, 3), p, m, 7>>) = 4
  BY <1>1, TypeDeclares
<1>5. Declares(VectorRows(n)[i], m, R) /\ Len(VectorRows(n)[i]) = 4
  BY <1>1, <1>2, <1>3
<1>6. \A p \in (1..(n - 1)) \ R : Declares(VariableRows(n, p)[i], m, R) /\ Len(VariableRows(n, p)[i]) = 4
  BY <1>2, <1>4
<1> QED BY <1>5, <1>6 DEF m

\* A module that has grown by declarations is one of words and numbers.
LEMMA GrownTypes ==
    ASSUME NEW P, NEW ws, NEW A, NEW n, NEW R, GrownBy(P, ws, A, n, R)
    PROVE  /\ n \in Nat \ {0} /\ R \in SUBSET (1..(n - 1))
           /\ ws \in Seq(Nat) /\ A \in Seq(Nat)
BY DEF GrownBy, Grown, Fine

\* The vector types of init are declarations, one id after the other.
LEMMA VectorsGrow ==
    ASSUME NEW P, NEW ws, NEW A, NEW n, NEW R, GrownBy(P, ws, A, n, R)
    PROVE  GrownBy(P, ws, A \o VectorTypes(n), n + 36, R)
<1>1. n \in Nat \ {0} /\ R \in SUBSET (1..(n - 1))
  BY GrownTypes
<1>2. n \in Nat /\ 36 \in Nat /\ \A i \in 0..36 : i \in Nat
  BY <1>1
<1>3. \A i \in 0..36 : Declares(VectorRows(n)[i], n + i, R) /\ Len(VectorRows(n)[i]) = 4
  BY <1>1, <1>2, RowsDeclare
<1>4. VectorTypes(n) = Block(VectorRows(n), 36)
  BY <1>2, RowsAreBlocks
<1> QED BY <1>2, <1>3, <1>4, GrownRows

\* The variables of the registers are declarations, one id after the other.
LEMMA VariablesGrow ==
    ASSUME NEW P, NEW ws, NEW A, NEW n, NEW R, GrownBy(P, ws, A, n, R),
           NEW p \in (1..(n - 1)) \ R
    PROVE  GrownBy(P, ws, A \o RegisterVariables(n, p), n + NRegs, R)
<1>1. n \in Nat \ {0} /\ R \in SUBSET (1..(n - 1))
  BY GrownTypes
<1>2. n \in Nat /\ p \in Nat /\ NRegs \in Nat /\ \A i \in 0..NRegs : i \in Nat
  BY <1>1
<1>3. \A i \in 0..NRegs : Declares(VariableRows(n, p)[i], n + i, R) /\ Len(VariableRows(n, p)[i]) = 4
  BY <1>1, <1>2, RowsDeclare
<1>4. RegisterVariables(n, p) = Block(VariableRows(n, p), NRegs)
  BY <1>2, RowsAreBlocks
<1> QED BY <1>2, <1>3, <1>4, GrownRows

\* The pointer type of init is a declaration.
LEMMA PointerGrows ==
    ASSUME NEW P, NEW ws, NEW A, NEW n, NEW R, GrownBy(P, ws, A, n, R),
           NEW t \in (1..(n - 1)) \ R
    PROVE  GrownBy(P, ws, A \o <<InstWord(32, 3), n, 7, t>>, n + 1, R)
<1>1. n \in Nat \ {0} /\ R \in SUBSET (1..(n - 1))
  BY GrownTypes
<1>2. t \in Nat /\ 7 \in Nat
  BY <1>1
<1>3. Declares(<<InstWord(32, 3), n, 7, t>>, n, R)
  BY <1>1, <1>2, TypeDeclares
<1> QED BY <1>3, GrownStep

\* All of init.
InitWords(n) ==
    ScalarTypes(n) \o VectorTypes(n + 13) \o <<InstWord(32, 3), n + 49, 7, n + 3>>
    \o RegisterVariables(n + 50, n + 49)

\* All that init adds are declarations: each defines the next id, and running it does
\* nothing.
LEMMA InitAdds ==
    ASSUME NEW ws, NEW n, NEW R, Fine(ws, n, R)
    PROVE  GrownBy(Instructions(ws), ws, InitWords(n), n + 50 + NRegs, R)
<1> DEFINE P == Instructions(ws)
           A == ScalarTypes(n) \o VectorTypes(n + 13)
           B == A \o <<InstWord(32, 3), n + 49, 7, n + 3>>
<1>1. n \in Nat \ {0} /\ R \in SUBSET (1..(n - 1)) /\ P \in Seq(Instr)
  BY DEF Fine
<1>2. Grown(P, ws, n, R)
  BY GrownFrom
<1>3. GrownBy(P, ws, ScalarTypes(n), n + 13, R)
  <2> HIDE DEF P
  <2> QED BY <1>1, <1>2, ScalarsGrow
<1>4. /\ n + 13 + 36 = n + 49 /\ n + 49 + 1 = n + 50
      /\ n + 3 \in (1..(n + 49 - 1)) \ R /\ n + 49 \in (1..(n + 50 - 1)) \ R
  BY <1>1
<1> HIDE DEF P
<1>5. GrownBy(P, ws, A, n + 49, R)
  <2>1. GrownBy(P, ws, A, n + 13 + 36, R)
    BY <1>3, VectorsGrow, Zenon
  <2> QED BY <1>4, <2>1, Zenon
<1> HIDE DEF A
<1>p. PICK t, m, q : t = n + 3 /\ m = n + 49 /\ q = n + 50
  OBVIOUS
<1>6. GrownBy(P, ws, B, q, R)
  <2>0. t \in (1..(m - 1)) \ R
    <3>1. t = n + 3 /\ m = n + 49 /\ n \in Nat \ {0}
      BY <1>1, <1>p
    <3>2. t \in 1..(m - 1) /\ t \notin 1..(n - 1)
      BY <3>1
    <3> QED BY <1>1, <3>2
  <2>1. GrownBy(P, ws, A, m, R)
    BY <1>5, <1>p, Zenon
  <2>2. GrownBy(P, ws, A \o <<InstWord(32, 3), m, 7, t>>, m + 1, R)
    BY <2>0, <2>1, PointerGrows
  <2>3. m + 1 = q
    BY <1>4, <1>p
  <2> QED BY <1>p, <2>2, <2>3, Zenon DEF B
<1> HIDE DEF B
<1>7. GrownBy(P, ws, B \o RegisterVariables(n + 50, n + 49), n + 50 + NRegs, R)
  <2>1. m \in (1..(q - 1)) \ R
    BY <1>4, <1>p
  <2>2. GrownBy(P, ws, B \o RegisterVariables(q, m), q + NRegs, R)
    BY <1>6, <2>1, VariablesGrow
  <2> QED BY <1>p, <2>2, Zenon
<1>8. InitWords(n) = B \o RegisterVariables(n + 50, n + 49)
  BY DEF InitWords, A, B
<1> QED BY <1>7, <1>8 DEF P

---------------------------------------------------------------------------
\* Running programs

Fresh(start) == [mem |-> start, val |-> [id \in {} |-> 0], dead |-> FALSE]

\* The states of a run, one after each instruction.
Ran(prog, start, mod, g) ==
    /\ g[0] = Fresh(start)
    /\ \A k \in 1..Len(prog) : g[k] = Executed(g[k - 1], prog[k], mod)

\* The recursion of Run has a solution, and the run ends in its last value.
LEMMA RunRuns ==
    ASSUME NEW S, NEW prog \in Seq(S), NEW start, NEW mod
    PROVE  \E g : Ran(prog, start, mod, g) /\ Run(prog, start, mod) = g[Len(prog)]
<1> DEFINE N == Len(prog)
           Body(g, k) == IF k = 0 THEN Fresh(start) ELSE Executed(g[k - 1], prog[k], mod)
           ran == CHOOSE g : g = [k \in 0..N |-> Body(g, k)]
           Good(n) == \E g : g = [k \in 0..n |-> Body(g, k)]
           T == {n \in 0..N : Good(n)}
<1>0. N \in Nat
  OBVIOUS
<1> HIDE DEF N
<1>1. 0 \in T
  <2> DEFINE g == [k \in 0..0 |-> Fresh(start)]
  <2>1. \A k \in 0..0 : k = 0
    OBVIOUS
  <2>2. g = [k \in 0..0 |-> Body(g, k)]
    BY <2>1
  <2>3. Good(0)
    BY <2>2
  <2> QED BY <1>0, <2>3
<1>2. ASSUME NEW n \in 0..(N - 1), n \in T PROVE n + 1 \in T
  <2>1. PICK g : g = [k \in 0..n |-> Body(g, k)]
    BY <1>2
  <2> DEFINE last == Executed(g[n], prog[n + 1], mod)
             h == [k \in 0..(n + 1) |-> IF k = n + 1 THEN last ELSE g[k]]
  <2>2. \A k \in 0..n : g[k] = Body(g, k)
    <3> HIDE DEF Body
    <3> QED BY <2>1
  <2>3. \A k \in 0..(n + 1) : h[k] = IF k = n + 1 THEN last ELSE g[k]
    OBVIOUS
  <2>4. ASSUME NEW k \in 0..(n + 1) PROVE h[k] = Body(h, k)
    <3>1. CASE k = n + 1
      <4>1. k # 0 /\ k - 1 = n /\ n \in 0..(n + 1) /\ n # n + 1
        BY <1>0, <3>1
      <4>2. h[k - 1] = g[n] /\ h[k] = last
        BY <2>3, <3>1, <4>1
      <4> HIDE DEF h
      <4> QED BY <3>1, <4>1, <4>2
    <3>2. CASE k # n + 1
      <4>1. k \in 0..n /\ (k # 0 => k - 1 \in 0..(n + 1) /\ k - 1 # n + 1)
        BY <1>0, <3>2
      <4>2. h[k] = g[k] /\ (k # 0 => h[k - 1] = g[k - 1])
        BY <2>3, <3>2, <4>1
      <4>3. g[k] = Body(g, k)
        BY <2>2, <4>1
      <4> HIDE DEF h
      <4> QED BY <4>2, <4>3
    <3> QED BY <3>1, <3>2
  <2>5. h = [k \in 0..(n + 1) |-> Body(h, k)]
    <3>1. [k \in 0..(n + 1) |-> IF k = n + 1 THEN last ELSE g[k]] = [k \in 0..(n + 1) |-> Body(h, k)]
      <4>1. \A k \in 0..(n + 1) : (IF k = n + 1 THEN last ELSE g[k]) = Body(h, k)
        <5> HIDE DEF Body, last
        <5> QED BY <2>3, <2>4
      <4> HIDE DEF Body, last, h
      <4> QED BY <4>1
    <3> HIDE DEF Body
    <3> QED BY <3>1
  <2>6. n + 1 \in 0..N
    BY <1>0
  <2>7. Good(n + 1)
    <3> HIDE DEF Body, h
    <3> QED BY <2>5
  <2> QED BY <2>6, <2>7
<1>3. N \in T
  <2>1. 0..N \subseteq T
    <3> HIDE DEF T
    <3> QED BY <1>0, <1>1, <1>2, SetInductionUpTo
  <2> HIDE DEF T
  <2> QED BY <1>0, <2>1
<1>4. ran = [k \in 0..N |-> Body(ran, k)]
  <2>1. Good(N)
    BY <1>3
  <2> HIDE DEF Body
  <2> QED BY <2>1
<1>5. \A k \in 0..N : ran[k] = Body(ran, k)
  <2> HIDE DEF Body, ran
  <2> QED BY <1>4
<1>6. Run(prog, start, mod) = ran[N]
  BY Zenon DEF Run, Fresh, N
<1> HIDE DEF ran
<1>7. ran[0] = Fresh(start)
  BY <1>0, <1>5
<1>8. ASSUME NEW k \in 1..N PROVE ran[k] = Executed(ran[k - 1], prog[k], mod)
  <2>1. k \in 0..N /\ k # 0
    BY <1>0
  <2> QED BY <1>5, <2>1
<1> QED BY <1>6, <1>7, <1>8 DEF Ran, N

\* Two runs are the same as long as the programs are.
LEMMA RunsAgree ==
    ASSUME NEW S, NEW P \in Seq(S), NEW Q \in Seq(S), NEW start, NEW mod, NEW f, NEW g,
           Ran(P, start, mod, f), Ran(Q, start, mod, g),
           Len(P) <= Len(Q), \A k \in 1..Len(P) : Q[k] = P[k]
    PROVE  g[Len(P)] = f[Len(P)]
<1> DEFINE N == Len(P)
           T == {n \in 0..N : g[n] = f[n]}
<1>0. N \in Nat /\ Len(Q) \in Nat
  OBVIOUS
<1>1. 0 \in T
  BY <1>0 DEF Ran
<1>2. ASSUME NEW n \in 0..(N - 1), n \in T PROVE n + 1 \in T
  <2>1. n + 1 \in 1..N /\ n + 1 \in 1..Len(Q) /\ (n + 1) - 1 = n /\ n + 1 \in 0..N
    BY <1>0
  <2>2. f[n + 1] = Executed(f[(n + 1) - 1], P[n + 1], mod)
    BY <2>1 DEF Ran
  <2>3. g[n + 1] = Executed(g[(n + 1) - 1], Q[n + 1], mod)
    BY <2>1 DEF Ran
  <2>4. g[n] = f[n] /\ Q[n + 1] = P[n + 1]
    BY <1>2, <2>1
  <2>5. f[n + 1] = Executed(f[n], P[n + 1], mod) /\ g[n + 1] = Executed(f[n], P[n + 1], mod)
    BY <2>1, <2>2, <2>3, <2>4
  <2>6. g[n + 1] = f[n + 1]
    BY <2>5
  <2> QED BY <2>1, <2>6
<1>3. N \in T
  <2>1. 0..N \subseteq T
    <3> HIDE DEF T, N
    <3> QED BY <1>0, <1>1, <1>2, SetInductionUpTo
  <2> HIDE DEF T
  <2> QED BY <1>0, <2>1
<1> QED BY <1>3

\* An empty program leaves what it started with.
LEMMA RunEmpty ==
    ASSUME NEW start, NEW mod PROVE Run(<<>>, start, mod) = Fresh(start)
<1>1. <<>> \in Seq(Nat) /\ Len(<<>>) = 0
  OBVIOUS
<1>2. PICK g : Ran(<<>>, start, mod, g) /\ Run(<<>>, start, mod) = g[Len(<<>>)]
  BY <1>1, RunRuns
<1> QED BY <1>1, <1>2 DEF Ran

\* The last instruction of a program is executed on what the others left.
LEMMA RunAppend ==
    ASSUME NEW P \in Seq(Instr), NEW in \in Instr, NEW start, NEW mod
    PROVE  Run(Append(P, in), start, mod) = Executed(Run(P, start, mod), in, mod)
<1> DEFINE Q == Append(P, in)
           L == Len(P)
<1>1. /\ Q \in Seq(Instr) /\ Len(Q) = L + 1 /\ Q[L + 1] = in /\ L \in Nat
      /\ \A k \in 1..L : Q[k] = P[k]
  OBVIOUS
<1> HIDE DEF Q
<1>2. PICK f : Ran(P, start, mod, f) /\ Run(P, start, mod) = f[L]
  BY RunRuns
<1>3. PICK g : Ran(Q, start, mod, g) /\ Run(Q, start, mod) = g[Len(Q)]
  BY <1>1, RunRuns
<1>4. g[L] = f[L]
  BY <1>1, <1>2, <1>3, RunsAgree
<1>5. g[L + 1] = Executed(g[(L + 1) - 1], Q[L + 1], mod)
  <2>1. L + 1 \in 1..Len(Q)
    BY <1>1
  <2> QED BY <1>3, <2>1 DEF Ran
<1>6. (L + 1) - 1 = L
  BY <1>1
<1>7. g[L + 1] = Executed(f[L], in, mod)
  BY <1>1, <1>4, <1>5, <1>6
<1> QED BY <1>1, <1>2, <1>3, <1>7 DEF Q

\* An instruction whose opcode is none of those that do something does nothing.
LEMMA IdleInstruction ==
    ASSUME NEW s, NEW in, NEW mod, OpOf(in) \notin Effective
    PROVE  Executed(s, in, mod) = s
<1>1. /\ OpOf(in) # 43 /\ OpOf(in) # 61 /\ OpOf(in) # 128 /\ OpOf(in) # 62 /\ OpOf(in) # 252
  BY DEF Effective
<1> QED BY <1>1 DEF Executed

\* Q is P with instructions that do nothing when they are run.
Idles(P, Q) ==
    /\ P \in Seq(Instr) /\ Q \in Seq(Instr)
    /\ Len(P) <= Len(Q) /\ \A k \in 1..Len(P) : Q[k] = P[k]
    /\ \A k \in (Len(P) + 1)..Len(Q) : OpOf(Q[k]) \notin Effective

\* Instructions that do nothing at the end of a program do not change what it leaves.
LEMMA RunIdle ==
    ASSUME NEW P, NEW Q, Idles(P, Q), NEW start, NEW mod
    PROVE  Run(Q, start, mod) = Run(P, start, mod)
<1>i. /\ P \in Seq(Instr) /\ Q \in Seq(Instr)
      /\ Len(P) <= Len(Q) /\ \A k \in 1..Len(P) : Q[k] = P[k]
      /\ \A k \in (Len(P) + 1)..Len(Q) : OpOf(Q[k]) \notin Effective
  BY DEF Idles
<1> DEFINE L == Len(P)
           N == Len(Q)
<1>0. L \in Nat /\ N \in Nat /\ L <= N /\ N - L \in Nat
  BY <1>i
<1>1. PICK f : Ran(P, start, mod, f) /\ Run(P, start, mod) = f[L]
  BY <1>i, RunRuns
<1>2. PICK g : Ran(Q, start, mod, g) /\ Run(Q, start, mod) = g[N]
  BY <1>i, RunRuns
<1>3. g[L] = f[L]
  BY <1>i, <1>1, <1>2, RunsAgree
<1>4. \A k \in (L + 1)..N : g[k] = Executed(g[k - 1], Q[k], mod) /\ OpOf(Q[k]) \notin Effective
  <2>1. \A k \in (L + 1)..N : k \in 1..N
    BY <1>0
  <2> QED BY <1>i, <1>2, <2>1 DEF Ran
<1>5. ASSUME NEW k \in (L + 1)..N PROVE g[k] = g[k - 1]
  <2>1. g[k] = Executed(g[k - 1], Q[k], mod) /\ OpOf(Q[k]) \notin Effective
    BY <1>4
  <2>2. Executed(g[k - 1], Q[k], mod) = g[k - 1]
    BY <2>1, IdleInstruction
  <2> QED BY <2>1, <2>2
<1> DEFINE M == N - L
           T == {n \in 0..M : g[L + n] = g[L]}
<1>6. 0 \in T
  BY <1>0
<1>7. ASSUME NEW n \in 0..(M - 1), n \in T PROVE n + 1 \in T
  <2>1. L + (n + 1) \in (L + 1)..N /\ (L + (n + 1)) - 1 = L + n /\ n + 1 \in 0..M
    BY <1>0
  <2>2. g[L + (n + 1)] = g[L + n] /\ g[L + n] = g[L]
    <3> HIDE DEF L, N
    <3> QED BY <1>5, <1>7, <2>1
  <2> QED BY <2>1, <2>2
<1>8. M \in T
  <2>1. 0..M \subseteq T
    <3>1. M \in Nat
      BY <1>0
    <3> HIDE DEF T, M
    <3> QED BY <3>1, <1>6, <1>7, SetInductionUpTo
  <2>2. M \in 0..M
    BY <1>0
  <2> HIDE DEF T, M
  <2> QED BY <2>1, <2>2
<1>9. L + M = N
  BY <1>0
<1>10. g[N] = g[L]
  BY <1>8, <1>9
<1> QED BY <1>1, <1>2, <1>3, <1>10

---------------------------------------------------------------------------
\* What the instructions of translate do

\* f is e with more instructions.
Onward(e, f, R) ==
    /\ f \in Emitter /\ f.boundIdx = e.boundIdx /\ e.nextId <= f.nextId
    /\ Fine(f.words, f.nextId, R)
    /\ f.words # <<>> /\ f.words[1] = e.words[1]
    /\ Longer(Instructions(e.words), Instructions(f.words))

\* More instructions, and then more again.
LEMMA OnwardTransitive ==
    ASSUME NEW e \in Emitter, NEW f, NEW g, NEW R, Fine(e.words, e.nextId, R),
           Onward(e, f, R), Onward(f, g, R)
    PROVE  Onward(e, g, R)
<1> DEFINE P == Instructions(e.words)
           Q == Instructions(f.words)
           S == Instructions(g.words)
<1>1. P \in Seq(Instr) /\ Q \in Seq(Instr) /\ S \in Seq(Instr)
  BY DEF Onward, Fine
<1>2. Longer(P, Q) /\ Longer(Q, S)
  BY DEF Onward
<1> HIDE DEF P, Q, S
<1>3. Longer(P, S)
  <2>1. Len(P) \in Nat /\ Len(Q) \in Nat /\ Len(S) \in Nat
    BY <1>1
  <2> QED BY <1>2, <2>1 DEF Longer
<1>4. e.nextId <= g.nextId
  <2>1. e.nextId \in Nat /\ f.nextId \in Nat /\ g.nextId \in Nat
    BY DEF Onward, Emitter
  <2> QED BY <2>1 DEF Onward
<1>5. g.boundIdx = e.boundIdx /\ g.words[1] = e.words[1]
  BY DEF Onward
<1> QED BY <1>3, <1>4, <1>5 DEF Onward, P, S

\* One instruction is more instructions.
LEMMA AddsOnward ==
    ASSUME NEW e \in Emitter, NEW f, NEW in, NEW R, Adds(e, f, in, R), e.nextId <= f.nextId
    PROVE  Onward(e, f, R)
<1>1. Longer(Instructions(e.words), Instructions(f.words))
  <2> DEFINE P == Instructions(e.words)
             Q == Instructions(f.words)
  <2>1. P \in Seq(Instr) /\ in \in Instr /\ Q = Append(P, in)
    BY DEF Adds
  <2> HIDE DEF P, Q
  <2>2. Longer(P, Q)
    BY <2>1 DEF Longer
  <2> QED BY <2>2 DEF P, Q
<1> QED BY <1>1 DEF Adds, Onward

\* f is e with one instruction more, sound if e is, and what it does to a run.
Does(e, f, R, op, tail) ==
    /\ Onward(e, f, R)
    /\ Sound(Instructions(e.words)) => Sound(Instructions(f.words))
    /\ \E in \in Instr :
        /\ OpOf(in) = op /\ \A k \in 1..Len(tail) : in.words[k + 1] = tail[k]
        /\ \A start : Run(Instructions(f.words), start, RegMod)
                        = Executed(Run(Instructions(e.words), start, RegMod), in, RegMod)

\* Whatever stands at the place of an instruction with these words uses ids of D.
AllUse(op, tail, D) ==
    \A in \in Instr : OpOf(in) = op /\ in.words = Words(op, tail) => Uses(in, D)

\* One instruction more, in every module that is fine: it stays so, stays sound, and
\* the run goes on by it.
LEMMA DoesIt ==
    ASSUME NEW e \in Emitter, NEW R, Fine(e.words, e.nextId, R),
           NEW op, NEW tail, Fits(op, tail), NEW f, Adds(e, f, Made(e, op, tail), R),
           e.nextId <= f.nextId,
           AllUse(op, tail, (1..(e.nextId - 1)) \ R)
    PROVE  Does(e, f, R, op, tail)
<1> DEFINE P == Instructions(e.words)
           Q == Instructions(f.words)
           in == Made(e, op, tail)
<1>1. /\ P \in Seq(Instr) /\ in \in Instr /\ Q = Append(P, in)
      /\ Defs(P) = (1..(e.nextId - 1)) \ R
  BY DEF Adds, Fine
<1>2. /\ OpOf(in) = op /\ in.words = Words(op, tail)
      /\ \A k \in 1..Len(tail) : in.words[k + 1] = tail[k]
  BY MadeIs, SMTT(30)
<1>3. Uses(in, Defs(P))
  <2> HIDE DEF in, P
  <2> QED BY <1>1, <1>2 DEF AllUse
<1>4. Onward(e, f, R)
  BY AddsOnward
<1> HIDE DEF P, Q, in
<1>5. Sound(P) => Sound(Q)
  BY <1>1, <1>3, AppendProgram
<1>6. \A start : Run(Q, start, RegMod) = Executed(Run(P, start, RegMod), in, RegMod)
  BY <1>1, RunAppend, ZenonT(90)
<1> QED BY <1>1, <1>2, <1>4, <1>5, <1>6 DEF Does, P, Q

\* No id is used.
LEMMA UsesNone ==
    ASSUME NEW in, NEW D, OpOf(in) \in {0, 252} PROVE Uses(in, D)
BY DEF Uses, IdOperands

\* A constant uses the id of its type.
LEMMA UsesOne ==
    ASSUME NEW in, NEW D, OpOf(in) = 43, in.words[2] \in D
    PROVE  Uses(in, D)
BY DEF Uses, IdOperands

\* A load uses its type and what it loads from.
LEMMA UsesLoad ==
    ASSUME NEW in, NEW D, OpOf(in) = 61, in.words[2] \in D, in.words[4] \in D
    PROVE  Uses(in, D)
<1>1. IdOperands(in) = {in.words[2], in.words[4]}
  BY DEF IdOperands
<1> QED BY <1>1 DEF Uses

\* A store uses both its operands.
LEMMA UsesStore ==
    ASSUME NEW in, NEW D, OpOf(in) = 62, in.words[2] \in D, in.words[3] \in D
    PROVE  Uses(in, D)
<1>1. IdOperands(in) = {in.words[2], in.words[3]}
  BY DEF IdOperands
<1> QED BY <1>1 DEF Uses

\* A sum uses its type and both summands.
LEMMA UsesSum ==
    ASSUME NEW in, NEW D, OpOf(in) = 128, in.words[2] \in D, in.words[4] \in D, in.words[5] \in D
    PROVE  Uses(in, D)
<1>1. IdOperands(in) = {in.words[2], in.words[4], in.words[5]}
  BY DEF IdOperands
<1> QED BY <1>1 DEF Uses

\* Operands after a pair of ids, written as one list.
LEMMA PairJoin ==
    ASSUME NEW a \in Nat, NEW b \in Nat, NEW c \in Nat, NEW d \in Nat
    PROVE  <<a, b>> \o <<c>> = <<a, b, c>> /\ <<a, b>> \o <<c, d>> = <<a, b, c, d>>
<1>1. <<a, b>> \o <<c>> = <<a, b, c>>
  <2> DEFINE s == <<a, b>> \o <<c>>
             t == <<a, b, c>>
  <2>1. s \in Seq(Nat) /\ Len(s) = 3 /\ s[1] = a /\ s[2] = b /\ s[3] = c
    OBVIOUS
  <2>2. t \in Seq(Nat) /\ Len(t) = 3 /\ t[1] = a /\ t[2] = b /\ t[3] = c
    OBVIOUS
  <2>3. \A k \in 1..3 : k = 1 \/ k = 2 \/ k = 3
    OBVIOUS
  <2>4. s = t
    <3> HIDE DEF s, t
    <3>1. \A k \in 1..Len(s) : s[k] = t[k]
      BY <2>1, <2>2, <2>3
    <3> QED BY <2>1, <2>2, <3>1, SeqEqual
  <2> QED BY <2>4
<1>2. <<a, b>> \o <<c, d>> = <<a, b, c, d>>
  <2> DEFINE s == <<a, b>> \o <<c, d>>
             t == <<a, b, c, d>>
  <2>1. s \in Seq(Nat) /\ Len(s) = 4 /\ s[1] = a /\ s[2] = b /\ s[3] = c /\ s[4] = d
    OBVIOUS
  <2>2. t \in Seq(Nat) /\ Len(t) = 4 /\ t[1] = a /\ t[2] = b /\ t[3] = c /\ t[4] = d
    OBVIOUS
  <2>3. \A k \in 1..4 : k = 1 \/ k = 2 \/ k = 3 \/ k = 4
    OBVIOUS
  <2>4. s = t
    <3> HIDE DEF s, t
    <3>1. \A k \in 1..Len(s) : s[k] = t[k]
      BY <2>1, <2>2, <2>3
    <3> QED BY <2>1, <2>2, <3>1, SeqEqual
  <2> QED BY <2>4
<1> QED BY <1>1, <1>2

\* The words of an instruction with three or four operands.
Spelled(in, op, tail) ==
    /\ op \in 0..(OpMod - 1) /\ op # 0 /\ tail \in Seq(Nat) /\ Len(tail) + 1 < WcMod
    /\ in.words = Words(op, tail)

\* The operands of an instruction, by their places.
LEMMA WordsAt ==
    ASSUME NEW op, NEW tail, NEW in, Spelled(in, op, tail)
    PROVE  \A k \in 1..Len(tail) : in.words[k + 1] = tail[k]
<1> USE DEF Spelled
<1>1. Fits(op, tail)
  BY DEF Fits
<1> DEFINE e == [words |-> <<>>, nextId |-> 1, boundIdx |-> 0]
<1>2. e \in Emitter
  BY DEF Emitter
<1> HIDE DEF e
<1>3. \A k \in 1..Len(tail) : Words(op, tail)[k + 1] = tail[k]
  BY <1>1, <1>2, MadeIs
<1> QED BY <1>1, <1>3

\* A constant, a load or a sum.
Typed(e, R, op, ty, operands, tail) ==
    /\ e \in Emitter /\ Fine(e.words, e.nextId, R)
    /\ op \in {43, 61, 128} /\ ty \in Nat /\ operands \in Seq(Nat)
    /\ Len(operands) <= 2 /\ tail = <<ty, e.nextId>> \o operands
    /\ AllUse(op, tail, (1..(e.nextId - 1)) \ R)

\* An instruction with a type and a result, in a module that is fine.
LEMMA TypedDoes ==
    ASSUME NEW e, NEW R, NEW op, NEW ty, NEW operands, NEW tail,
           Typed(e, R, op, ty, operands, tail)
    PROVE  /\ Does(e, EmitTyped(e, op, ty, operands), R, op, tail)
           /\ EmitTyped(e, op, ty, operands).nextId = e.nextId + 1
<1> USE DEF Typed
<1>1. e.nextId \in Nat
  BY DEF Emitter
<1>2. op \in 0..(OpMod - 1) /\ op # 0
  BY OpModType
<1>3. tail \in Seq(Nat) /\ Len(tail) = Len(operands) + 2
  BY <1>1
<1>4. Fits(op, tail)
  BY <1>2, <1>3 DEF Fits
<1>5. ResultAt(op) = 3
  <2>1. ResultAt(43) = 3 /\ ResultAt(61) = 3 /\ ResultAt(128) = 3
    BY DEF ResultAt
  <2> QED BY <2>1
<1>6. /\ Adds(e, EmitTyped(e, op, ty, operands), Made(e, op, tail), R)
      /\ EmitTyped(e, op, ty, operands).nextId = e.nextId + 1
  <2>1. Fits(op, <<ty, e.nextId>> \o operands)
    BY <1>4, Zenon
  <2>2. /\ Adds(e, EmitTyped(e, op, ty, operands), Made(e, op, <<ty, e.nextId>> \o operands), R)
        /\ EmitTyped(e, op, ty, operands).nextId = e.nextId + 1
    BY <1>5, <2>1, TypedAdds
  <2> QED BY <2>2, Zenon
<1>7. e.nextId <= e.nextId + 1
  BY <1>1
<1> QED BY <1>4, <1>6, <1>7, DoesIt

\* emit_constant_typed adds a constant of a type that is defined.
LEMMA ConstantDoes ==
    ASSUME NEW e \in Emitter, NEW R, Fine(e.words, e.nextId, R),
           NEW ty \in (1..(e.nextId - 1)) \ R, NEW v \in Nat
    PROVE  /\ Does(e, EmitTyped(e, 43, ty, <<v>>), R, 43, <<ty, e.nextId, v>>)
           /\ EmitTyped(e, 43, ty, <<v>>).nextId = e.nextId + 1
<1> DEFINE D == (1..(e.nextId - 1)) \ R
           operands == <<v>>
<1>0. SUFFICES ASSUME NEW tail, tail = <<ty, e.nextId, v>>
               PROVE  /\ Does(e, EmitTyped(e, 43, ty, operands), R, 43, tail)
                      /\ EmitTyped(e, 43, ty, operands).nextId = e.nextId + 1
  OBVIOUS
<1>1. e.nextId \in Nat /\ ty \in Nat
  BY DEF Emitter
<1>2. operands \in Seq(Nat) /\ Len(operands) <= 2
  BY <1>1
<1>3. tail = <<ty, e.nextId>> \o operands
  BY <1>0, <1>1, PairJoin
<1>4. /\ tail \in Seq(Nat) /\ Len(tail) + 1 < WcMod
      /\ Len(tail) >= 3
      /\ tail[1] = ty
  BY <1>0, <1>1
<1>d. D = (1..(e.nextId - 1)) \ R
  OBVIOUS
<1> HIDE DEF D
<1>5. ASSUME NEW in \in Instr, OpOf(in) = 43, in.words = Words(43, tail) PROVE Uses(in, D)
  <2>1. 43 \in 0..(OpMod - 1) /\ 43 # 0
    BY OpModType
  <2>2. \A k \in 1..Len(tail) : in.words[k + 1] = tail[k]
    <3>1. Spelled(in, 43, tail)
      BY <1>4, <1>5, <2>1, Zenon DEF Spelled
    <3> QED BY <3>1, WordsAt
  <2>3. in.words[1 + 1] = ty
    <3>1. 1 \in 1..Len(tail) /\ 3 \in 1..Len(tail)
      BY <1>4
    <3> QED BY <1>4, <2>2, <3>1
  <2>4. 1 + 1 = 2 /\ 3 + 1 = 4 /\ 4 + 1 = 5
    OBVIOUS
  <2>5. in.words[2] \in D
    BY <1>d, <2>3, <2>4
  <2> QED BY <1>5, <2>5, UsesOne
<1>6. AllUse(43, tail, (1..(e.nextId - 1)) \ R)
  BY <1>d, <1>5, Zenon DEF AllUse
<1>7. 43 \in {43, 61, 128}
  OBVIOUS
<1> HIDE DEF operands
<1>8. Typed(e, R, 43, ty, operands, tail)
  BY <1>1, <1>2, <1>3, <1>6, <1>7, Zenon DEF Typed
<1> QED BY <1>8, TypedDoes

\* emit_load adds a load from an id that is defined.
LEMMA LoadDoes ==
    ASSUME NEW e \in Emitter, NEW R, Fine(e.words, e.nextId, R),
           NEW ty \in (1..(e.nextId - 1)) \ R, NEW a \in (1..(e.nextId - 1)) \ R
    PROVE  /\ Does(e, EmitTyped(e, 61, ty, <<a>>), R, 61, <<ty, e.nextId, a>>)
           /\ EmitTyped(e, 61, ty, <<a>>).nextId = e.nextId + 1
<1> DEFINE D == (1..(e.nextId - 1)) \ R
           operands == <<a>>
<1>0. SUFFICES ASSUME NEW tail, tail = <<ty, e.nextId, a>>
               PROVE  /\ Does(e, EmitTyped(e, 61, ty, operands), R, 61, tail)
                      /\ EmitTyped(e, 61, ty, operands).nextId = e.nextId + 1
  OBVIOUS
<1>1. e.nextId \in Nat /\ ty \in Nat /\ a \in Nat
  BY DEF Emitter
<1>2. operands \in Seq(Nat) /\ Len(operands) <= 2
  BY <1>1
<1>3. tail = <<ty, e.nextId>> \o operands
  BY <1>0, <1>1, PairJoin
<1>4. /\ tail \in Seq(Nat) /\ Len(tail) + 1 < WcMod
      /\ Len(tail) >= 3
      /\ tail[1] = ty /\ tail[3] = a
  BY <1>0, <1>1
<1>d. D = (1..(e.nextId - 1)) \ R
  OBVIOUS
<1> HIDE DEF D
<1>5. ASSUME NEW in \in Instr, OpOf(in) = 61, in.words = Words(61, tail) PROVE Uses(in, D)
  <2>1. 61 \in 0..(OpMod - 1) /\ 61 # 0
    BY OpModType
  <2>2. \A k \in 1..Len(tail) : in.words[k + 1] = tail[k]
    <3>1. Spelled(in, 61, tail)
      BY <1>4, <1>5, <2>1, Zenon DEF Spelled
    <3> QED BY <3>1, WordsAt
  <2>3. in.words[1 + 1] = ty /\ in.words[3 + 1] = a
    <3>1. 1 \in 1..Len(tail) /\ 3 \in 1..Len(tail)
      BY <1>4
    <3> QED BY <1>4, <2>2, <3>1
  <2>4. 1 + 1 = 2 /\ 3 + 1 = 4 /\ 4 + 1 = 5
    OBVIOUS
  <2>5. in.words[2] \in D /\ in.words[4] \in D
    BY <1>d, <2>3, <2>4
  <2> QED BY <1>5, <2>5, UsesLoad
<1>6. AllUse(61, tail, (1..(e.nextId - 1)) \ R)
  BY <1>d, <1>5, Zenon DEF AllUse
<1>7. 61 \in {43, 61, 128}
  OBVIOUS
<1> HIDE DEF operands
<1>8. Typed(e, R, 61, ty, operands, tail)
  BY <1>1, <1>2, <1>3, <1>6, <1>7, Zenon DEF Typed
<1> QED BY <1>8, TypedDoes

\* emit_iadd adds a sum of ids that are defined.
LEMMA SumDoes ==
    ASSUME NEW e \in Emitter, NEW R, Fine(e.words, e.nextId, R),
           NEW ty \in (1..(e.nextId - 1)) \ R, NEW a \in (1..(e.nextId - 1)) \ R,
           NEW b \in (1..(e.nextId - 1)) \ R
    PROVE  /\ Does(e, EmitTyped(e, 128, ty, <<a, b>>), R, 128, <<ty, e.nextId, a, b>>)
           /\ EmitTyped(e, 128, ty, <<a, b>>).nextId = e.nextId + 1
<1> DEFINE D == (1..(e.nextId - 1)) \ R
           operands == <<a, b>>
<1>0. SUFFICES ASSUME NEW tail, tail = <<ty, e.nextId, a, b>>
               PROVE  /\ Does(e, EmitTyped(e, 128, ty, operands), R, 128, tail)
                      /\ EmitTyped(e, 128, ty, operands).nextId = e.nextId + 1
  OBVIOUS
<1>1. e.nextId \in Nat /\ ty \in Nat /\ a \in Nat /\ b \in Nat
  BY DEF Emitter
<1>2. operands \in Seq(Nat) /\ Len(operands) <= 2
  BY <1>1
<1>3. tail = <<ty, e.nextId>> \o operands
  BY <1>0, <1>1, PairJoin
<1>4. /\ tail \in Seq(Nat) /\ Len(tail) + 1 < WcMod
      /\ Len(tail) >= 3 /\ Len(tail) >= 4
      /\ tail[1] = ty /\ tail[3] = a /\ tail[4] = b
  BY <1>0, <1>1
<1>d. D = (1..(e.nextId - 1)) \ R
  OBVIOUS
<1> HIDE DEF D
<1>5. ASSUME NEW in \in Instr, OpOf(in) = 128, in.words = Words(128, tail) PROVE Uses(in, D)
  <2>1. 128 \in 0..(OpMod - 1) /\ 128 # 0
    BY OpModType
  <2>2. \A k \in 1..Len(tail) : in.words[k + 1] = tail[k]
    <3>1. Spelled(in, 128, tail)
      BY <1>4, <1>5, <2>1, Zenon DEF Spelled
    <3> QED BY <3>1, WordsAt
  <2>3. in.words[1 + 1] = ty /\ in.words[3 + 1] = a /\ in.words[4 + 1] = b
    <3>1. 1 \in 1..Len(tail) /\ 3 \in 1..Len(tail) /\ 4 \in 1..Len(tail)
      BY <1>4
    <3> QED BY <1>4, <2>2, <3>1
  <2>4. 1 + 1 = 2 /\ 3 + 1 = 4 /\ 4 + 1 = 5
    OBVIOUS
  <2>5. in.words[2] \in D /\ in.words[4] \in D /\ in.words[5] \in D
    BY <1>d, <2>3, <2>4
  <2> QED BY <1>5, <2>5, UsesSum
<1>6. AllUse(128, tail, (1..(e.nextId - 1)) \ R)
  BY <1>d, <1>5, Zenon DEF AllUse
<1>7. 128 \in {43, 61, 128}
  OBVIOUS
<1> HIDE DEF operands
<1>8. Typed(e, R, 128, ty, operands, tail)
  BY <1>1, <1>2, <1>3, <1>6, <1>7, Zenon DEF Typed
<1> QED BY <1>8, TypedDoes

\* emit_store adds a store to an id that is defined.
LEMMA StoreDoes ==
    ASSUME NEW e \in Emitter, NEW R, Fine(e.words, e.nextId, R),
           NEW a \in (1..(e.nextId - 1)) \ R, NEW b \in (1..(e.nextId - 1)) \ R
    PROVE  Does(e, EmitPlain(e, 62, <<a, b>>), R, 62, <<a, b>>)
<1> DEFINE D == (1..(e.nextId - 1)) \ R
<1>0. SUFFICES ASSUME NEW tail, tail = <<a, b>> PROVE Does(e, EmitPlain(e, 62, tail), R, 62, tail)
  OBVIOUS
<1>1. e.nextId \in Nat /\ a \in Nat /\ b \in Nat
  BY DEF Emitter
<1>2. tail \in Seq(Nat) /\ Len(tail) = 2 /\ tail[1] = a /\ tail[2] = b
  BY <1>0, <1>1
<1>3. 62 \in 0..(OpMod - 1) /\ 62 # 0
  BY OpModType
<1>4. Fits(62, tail)
  BY <1>2, <1>3 DEF Fits
<1>d. D = (1..(e.nextId - 1)) \ R
  OBVIOUS
<1> HIDE DEF D
<1>5. ASSUME NEW in \in Instr, OpOf(in) = 62, in.words = Words(62, tail) PROVE Uses(in, D)
  <2>1. \A k \in 1..Len(tail) : in.words[k + 1] = tail[k]
    <3>1. Len(tail) + 1 < WcMod
      BY <1>2
    <3>2. Spelled(in, 62, tail)
      BY <1>2, <1>3, <1>5, <3>1, Zenon DEF Spelled
    <3> QED BY <3>2, WordsAt
  <2>2. in.words[1 + 1] = a /\ in.words[2 + 1] = b
    <3>1. 1 \in 1..Len(tail) /\ 2 \in 1..Len(tail)
      BY <1>2
    <3> QED BY <1>2, <2>1, <3>1
  <2>3. 1 + 1 = 2 /\ 2 + 1 = 3
    OBVIOUS
  <2>4. in.words[2] \in D /\ in.words[3] \in D
    BY <1>d, <2>2, <2>3
  <2> QED BY <1>5, <2>4, UsesStore
<1>6. ResultAt(62) = 0
  BY DEF ResultAt
<1>7. Adds(e, EmitPlain(e, 62, tail), Made(e, 62, tail), R) /\ EmitPlain(e, 62, tail).nextId = e.nextId
  BY <1>4, <1>6, PlainAdds
<1>8. e.nextId <= e.nextId
  BY <1>1
<1>9. AllUse(62, tail, (1..(e.nextId - 1)) \ R)
  BY <1>d, <1>5, Zenon DEF AllUse
<1> QED BY <1>4, <1>7, <1>8, <1>9, DoesIt

\* OpKill and OpNop.
LEMMA BareDoes ==
    ASSUME NEW e \in Emitter, NEW R, Fine(e.words, e.nextId, R), NEW op \in {0, 252}
    PROVE  Does(e, EmitPlain(e, op, <<>>), R, op, <<>>)
<1>1. e.nextId \in Nat
  BY DEF Emitter
<1>2. Fits(op, <<>>)
  <2>1. op \in 0..(OpMod - 1)
    BY OpModType
  <2> QED BY <2>1 DEF Fits
<1>3. ResultAt(op) = 0
  BY DEF ResultAt
<1>4. Adds(e, EmitPlain(e, op, <<>>), Made(e, op, <<>>), R) /\ EmitPlain(e, op, <<>>).nextId = e.nextId
  BY <1>2, <1>3, PlainAdds
<1>5. e.nextId <= e.nextId
  BY <1>1
<1>6. AllUse(op, <<>>, (1..(e.nextId - 1)) \ R)
  BY UsesNone DEF AllUse
<1> QED BY <1>2, <1>4, <1>5, <1>6, DoesIt

---------------------------------------------------------------------------
\* What the instructions of translate do to a run

RunState(s) == s = [mem |-> s.mem, val |-> s.val, dead |-> s.dead] /\ s.dead \in BOOLEAN

\* t is s with the value v for id, unless the program was killed.
Sets(s, t, id, v) ==
    /\ RunState(t) /\ t.mem = s.mem /\ t.dead = s.dead
    /\ ~s.dead => /\ id \in DOMAIN t.val /\ t.val[id] = v
                  /\ \A j \in DOMAIN s.val : j # id => j \in DOMAIN t.val /\ t.val[j] = s.val[j]

Assigned(s, id, v) ==
    [s EXCEPT !.val = [j \in DOMAIN @ \cup {id} |-> IF j = id THEN v ELSE @[j]]]

\* Assigning to an id changes the value of that id only.
LEMMA SetSets ==
    ASSUME NEW s, RunState(s), NEW id, NEW v
    PROVE  Sets(s, Assigned(s, id, v), id, v)
<1> DEFINE t == Assigned(s, id, v)
           w == [j \in DOMAIN s.val \cup {id} |-> IF j = id THEN v ELSE s.val[j]]
<1>1. w[id] = v /\ id \in DOMAIN w
  OBVIOUS
<1>2. \A j \in DOMAIN s.val : j # id => j \in DOMAIN w /\ w[j] = s.val[j]
  OBVIOUS
<1>3. t = [s EXCEPT !.val = w]
  BY DEF Assigned
<1> HIDE DEF w, t
<1>4. t = [mem |-> s.mem, val |-> w, dead |-> s.dead]
  BY <1>3 DEF RunState
<1>5. t.mem = s.mem /\ t.val = w /\ t.dead = s.dead
  BY <1>4
<1>6. RunState(t)
  BY <1>4, <1>5 DEF RunState
<1>7. Sets(s, t, id, v)
  BY <1>1, <1>2, <1>5, <1>6 DEF Sets
<1> QED BY <1>7 DEF t

\* After a kill nothing is executed.
LEMMA ExecDead ==
    ASSUME NEW s, RunState(s), s.dead, NEW in, NEW m PROVE Executed(s, in, m) = s
BY DEF Executed

\* So an instruction with a result that is not executed sets nothing.
LEMMA SetsDead ==
    ASSUME NEW s, RunState(s), s.dead, NEW id, NEW v PROVE Sets(s, s, id, v)
BY DEF Sets

\* What a constant does to a run.
LEMMA ExecConstant ==
    ASSUME NEW s, RunState(s), NEW in, NEW m, OpOf(in) = 43, NEW id, id = in.words[3],
           NEW v, v = in.words[4] % m
    PROVE  Sets(s, Executed(s, in, m), id, v)
<1>1. CASE s.dead
  <2>1. Executed(s, in, m) = s
    BY <1>1, ExecDead
  <2>2. Sets(s, s, id, v)
    BY <1>1, SetsDead
  <2> QED BY <2>1, <2>2
<1>2. CASE ~s.dead
  <2>1. Executed(s, in, m) = Assigned(s, id, v)
    BY <1>2 DEF Executed, Assigned
  <2>2. Sets(s, Assigned(s, id, v), id, v)
    BY SetSets
  <2> QED BY <2>1, <2>2
<1> QED BY <1>1, <1>2

\* What a load does to a run.
LEMMA ExecLoad ==
    ASSUME NEW s, RunState(s), NEW in, NEW m, OpOf(in) = 61, NEW id, id = in.words[3],
           NEW v, v = s.mem[in.words[4]]
    PROVE  Sets(s, Executed(s, in, m), id, v)
<1>1. CASE s.dead
  <2>1. Executed(s, in, m) = s
    BY <1>1, ExecDead
  <2>2. Sets(s, s, id, v)
    BY <1>1, SetsDead
  <2> QED BY <2>1, <2>2
<1>2. CASE ~s.dead
  <2>1. Executed(s, in, m) = Assigned(s, id, v)
    BY <1>2 DEF Executed, Assigned
  <2>2. Sets(s, Assigned(s, id, v), id, v)
    BY SetSets
  <2> QED BY <2>1, <2>2
<1> QED BY <1>1, <1>2

\* What a sum does to a run.
LEMMA ExecSum ==
    ASSUME NEW s, RunState(s), NEW in, NEW m, OpOf(in) = 128, NEW id, id = in.words[3],
           NEW v, v = (s.val[in.words[4]] + s.val[in.words[5]]) % m
    PROVE  Sets(s, Executed(s, in, m), id, v)
<1>1. CASE s.dead
  <2>1. Executed(s, in, m) = s
    BY <1>1, ExecDead
  <2>2. Sets(s, s, id, v)
    BY <1>1, SetsDead, SMTT(30)
  <2> QED BY <2>1, <2>2
<1>2. CASE ~s.dead
  <2>1. Executed(s, in, m) = Assigned(s, id, v)
    BY <1>2 DEF Executed, Assigned
  <2>2. Sets(s, Assigned(s, id, v), id, v)
    BY SetSets
  <2> QED BY <2>1, <2>2
<1> QED BY <1>1, <1>2

\* t is s with v at place, unless the program was killed.
Puts(s, t, place, v) ==
    /\ RunState(t) /\ t.dead = s.dead
    /\ s.dead => t = s
    /\ ~s.dead => t.mem = [s.mem EXCEPT ![place] = v]

\* What a store does to a run.
LEMMA ExecStore ==
    ASSUME NEW s, RunState(s), NEW in, NEW m, OpOf(in) = 62
    PROVE  Puts(s, Executed(s, in, m), in.words[2], s.val[in.words[3]])
<1>1. CASE s.dead
  BY <1>1, ExecDead DEF Puts
<1>2. CASE ~s.dead
  <2> DEFINE x == in.words[2]
             v == s.val[in.words[3]]
             w == [s.mem EXCEPT ![x] = v]
             t == Executed(s, in, m)
  <2>1. t = [s EXCEPT !.mem[x] = v]
    BY <1>2 DEF Executed
  <2>2. [s EXCEPT !.mem[x] = v] = [s EXCEPT !.mem = w]
    OBVIOUS
  <2> HIDE DEF w, t
  <2>3. t = [mem |-> w, val |-> s.val, dead |-> s.dead]
    BY <2>1, <2>2 DEF RunState
  <2>4. t.mem = w /\ t.val = s.val /\ t.dead = s.dead
    BY <2>3
  <2>5. RunState(t)
    BY <2>3, <2>4 DEF RunState
  <2> QED BY <1>2, <2>4, <2>5 DEF Puts, w, t
<1> QED BY <1>1, <1>2

\* What OpKill does to a run.
LEMMA ExecKill ==
    ASSUME NEW s, RunState(s), NEW in, NEW m, OpOf(in) = 252
    PROVE  /\ RunState(Executed(s, in, m)) /\ Executed(s, in, m).dead
           /\ Executed(s, in, m).mem = s.mem
<1>1. CASE s.dead
  BY <1>1, ExecDead
<1>2. CASE ~s.dead
  <2> DEFINE t == Executed(s, in, m)
  <2>1. t = [s EXCEPT !.dead = TRUE]
    BY <1>2 DEF Executed
  <2> HIDE DEF t
  <2>2. t = [mem |-> s.mem, val |-> s.val, dead |-> TRUE]
    BY <2>1 DEF RunState
  <2>3. t.mem = s.mem /\ t.val = s.val /\ t.dead = TRUE
    BY <2>2
  <2>4. RunState(t)
    BY <2>2, <2>3 DEF RunState
  <2> QED BY <2>3, <2>4 DEF t
<1> QED BY <1>1, <1>2

\* OpNop does nothing.
LEMMA ExecNop ==
    ASSUME NEW s, NEW in, NEW m, OpOf(in) = 0 PROVE Executed(s, in, m) = s
<1>1. OpOf(in) \notin Effective
  BY DEF Effective
<1> QED BY <1>1, IdleInstruction

\* A run starts in a state.
LEMMA FreshState == ASSUME NEW start PROVE RunState(Fresh(start))
BY DEF RunState, Fresh
=================================================================================
