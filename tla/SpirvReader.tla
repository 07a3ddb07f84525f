------------------------------- MODULE SpirvReader -------------------------------
(***************************************************************************)
(* The other side of the emitter: a consumer that knows the SPIR-V grammar *)
(* of the instructions the emitter can write, and nothing of how they were *)
(* written.  It follows the word counts from word 6 on.                    *)
(***************************************************************************)
EXTENDS Integers, Sequences, FiniteSets

\* The word that is the result id of an instruction, 0 if it has none.
ResultAt(op) ==
    CASE op \in {0, 5, 6, 10} \cup 14..17 \cup {56, 62, 63, 71, 72, 74, 99, 224, 225, 228}
            \cup {246, 247} \cup 249..255 -> 0
      [] op \in {11} \cup 19..33 \cup {73, 248} -> 2
      [] OTHER -> 3

\* The word a text begins at, 0 if the instruction has none.
TextAt(op) ==
    CASE op = 10 -> 2 [] op \in {5, 11} -> 3 [] op \in {6, 15} -> 4 [] OTHER -> 0

\* The first word of an instruction holds its length and its opcode.
Half == 65536
LengthIn(w) == w \div Half
OpOf(in) == in.words[1] % Half

\* The operands that are ids, for the instructions a Decoder writes.
IdOperands(in) ==
    LET op == OpOf(in)
        at == CASE op \in {43, 59} -> {2}
                [] op = 23 -> {3}
                [] op = 32 -> {4}
                [] op = 61 -> {2, 4}
                [] op = 62 -> {2, 3}
                [] op = 128 -> {2, 4, 5}
                [] OTHER -> {}
    IN {in.words[k] : k \in at}

\* The instructions of a module, each with the position of its first word, as far
\* as the lengths lead to whole instructions.
Instructions(ws) ==
    LET from[p \in 1..(Len(ws) + 1)] ==
            LET length == IF p > Len(ws) THEN 0 ELSE LengthIn(ws[p])
            IN IF length = 0 \/ p + length > Len(ws) + 1 THEN <<>>
               ELSE <<[at |-> p, words |-> SubSeq(ws, p, p + length - 1)]>> \o from[p + length]
    IN from[6]

ResultOf(in) == in.words[ResultAt(OpOf(in))]
Results(prog) == {k \in DOMAIN prog : ResultAt(OpOf(prog[k])) # 0}

\* The n-th byte, from 0, of the words from k on; the lowest byte of a word is first.
Weights == <<1, 256, 65536, 16777216>>
ByteOf(ws, k, n) == (ws[k + n \div 4] \div Weights[(n % 4) + 1]) % 256

\* A text from word k of ws on: its bytes up to the first zero byte, and the
\* words after the one that holds it.
ReadText(ws, k) ==
    LET size == 4 * (Len(ws) - k + 1)
        zeros == {n \in 0..(size - 1) : ByteOf(ws, k, n) = 0}
        end == CHOOSE n \in zeros \cup {size} : \A z \in zeros : n <= z
    IN [text |-> [n \in 1..end |-> ByteOf(ws, k, n - 1)],
        rest |-> SubSeq(ws, k + end \div 4 + 1, Len(ws))]

\* One instruction: the memory, the values of the ids so far, and whether the
\* program was killed.  Addition is modulo mod.
Executed(s, in, mod) ==
    LET w == in.words
        Set(v) == [s EXCEPT !.val = [id \in DOMAIN @ \cup {w[3]} |->
                                        IF id = w[3] THEN v ELSE @[id]]]
    IN IF s.dead THEN s
       ELSE CASE OpOf(in) = 43 -> Set(w[4] % mod)
              [] OpOf(in) = 61 -> Set(s.mem[w[4]])
              [] OpOf(in) = 128 -> Set((s.val[w[4]] + s.val[w[5]]) % mod)
              [] OpOf(in) = 62 -> [s EXCEPT !.mem[w[2]] = s.val[w[3]]]
              [] OpOf(in) = 252 -> [s EXCEPT !.dead = TRUE]
              [] OTHER -> s

\* What a program leaves when the variables begin with the values of start.
Run(prog, start, mod) ==
    LET ran[k \in 0..Len(prog)] ==
            IF k = 0 THEN [mem |-> start, val |-> [id \in {} |-> 0], dead |-> FALSE]
            ELSE Executed(ran[k - 1], prog[k], mod)
    IN ran[Len(prog)]
===================================================================================
