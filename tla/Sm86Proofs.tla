------------------------------- MODULE Sm86Proofs -------------------------------
(***************************************************************************)
(* What holds of the emitter and the decoder for every number of registers *)
(* and every list of calls.  The table comes first, row by row.  The rest  *)
(* is from one relation: emitting only grows the module.  What a reader    *)
(* makes of the words is kept by each call: they are whole instructions,   *)
(* each id is defined by one of them, and running them does what the guest *)
(* does.                                                                   *)
(***************************************************************************)
EXTENDS SpirvProofs

---------------------------------------------------------------------------
\* The table

\* Keys of none of the three handlers that are written.
PlainKeys == Nat \ {\h920, \h95B, \h918}

\* What every row is: one of a written handler with the one key it has, or one of a
\* handler that is todo!() with none of these keys.
WrittenRow == {<<"al2p", {\h920}>>, <<"kill", {\h95B}>>, <<"nop", {\h918}>>}
PlainRow == Unimplemented \X SUBSET PlainKeys
TidyRow == WrittenRow \cup PlainRow

\* The names of the handlers that are todo!(), list by list.
LEMMA TodoNamed ==
    /\ Todo1 \subseteq Unimplemented /\ Todo2 \subseteq Unimplemented
    /\ Todo3 \subseteq Unimplemented /\ Todo4 \subseteq Unimplemented
    /\ Todo5 \subseteq Unimplemented /\ Todo6 \subseteq Unimplemented
    /\ Todo7 \subseteq Unimplemented /\ Todo8 \subseteq Unimplemented
    /\ Todo9 \subseteq Unimplemented /\ Todo10 \subseteq Unimplemented
    /\ Todo11 \subseteq Unimplemented /\ Todo12 \subseteq Unimplemented
    /\ Todo13 \subseteq Unimplemented /\ Todo14 \subseteq Unimplemented
    /\ Todo15 \subseteq Unimplemented /\ Todo16 \subseteq Unimplemented
    /\ Todo17 \subseteq Unimplemented /\ Todo18 \subseteq Unimplemented
    /\ Todo19 \subseteq Unimplemented /\ Todo20 \subseteq Unimplemented
    /\ Todo21 \subseteq Unimplemented /\ Todo22 \subseteq Unimplemented
    /\ Todo23 \subseteq Unimplemented /\ Todo24 \subseteq Unimplemented
    /\ Todo25 \subseteq Unimplemented /\ Todo26 \subseteq Unimplemented
<1>1. Todo1 \subseteq Unimplemented
  BY DEF Unimplemented
<1>2. Todo2 \subseteq Unimplemented
  BY DEF Unimplemented
<1>3. Todo3 \subseteq Unimplemented
  BY DEF Unimplemented
<1>4. Todo4 \subseteq Unimplemented
  BY DEF Unimplemented
<1>5. Todo5 \subseteq Unimplemented
  BY DEF Unimplemented
<1>6. Todo6 \subseteq Unimplemented
  BY DEF Unimplemented
<1>7. Todo7 \subseteq Unimplemented
  BY DEF Unimplemented
<1>8. Todo8 \subseteq Unimplemented
  BY DEF Unimplemented
<1>9. Todo9 \subseteq Unimplemented
  BY DEF Unimplemented
<1>10. Todo10 \subseteq Unimplemented
  BY DEF Unimplemented
<1>11. Todo11 \subseteq Unimplemented
  BY DEF Unimplemented
<1>12. Todo12 \subseteq Unimplemented
  BY DEF Unimplemented
<1>13. Todo13 \subseteq Unimplemented
  BY DEF Unimplemented
<1>14. Todo14 \subseteq Unimplemented
  BY DEF Unimplemented
<1>15. Todo15 \subseteq Unimplemented
  BY DEF Unimplemented
<1>16. Todo16 \subseteq Unimplemented
  BY DEF Unimplemented
<1>17. Todo17 \subseteq Unimplemented
  BY DEF Unimplemented
<1>18. Todo18 \subseteq Unimplemented
  BY DEF Unimplemented
<1>19. Todo19 \subseteq Unimplemented
  BY DEF Unimplemented
<1>20. Todo20 \subseteq Unimplemented
  BY DEF Unimplemented
<1>21. Todo21 \subseteq Unimplemented
  BY DEF Unimplemented
<1>22. Todo22 \subseteq Unimplemented
  BY DEF Unimplemented
<1>23. Todo23 \subseteq Unimplemented
  BY DEF Unimplemented
<1>24. Todo24 \subseteq Unimplemented
  BY DEF Unimplemented
<1>25. Todo25 \subseteq Unimplemented
  BY DEF Unimplemented
<1>26. Todo26 \subseteq Unimplemented
  BY DEF Unimplemented
<1> QED BY <1>1, <1>2, <1>3, <1>4, <1>5, <1>6, <1>7, <1>8, <1>9, <1>10, <1>11, <1>12, <1>13,
  <1>14, <1>15, <1>16, <1>17, <1>18, <1>19, <1>20, <1>21, <1>22, <1>23, <1>24, <1>25, <1>26

\* Every row is tidy: the rows of the generated chain, one part of the table at a time.
LEMMA RowsTidy ==
    /\ Rows1 \in Seq(TidyRow) /\ Rows2 \in Seq(TidyRow) /\ Rows3 \in Seq(TidyRow)
    /\ Rows4 \in Seq(TidyRow) /\ Rows5 \in Seq(TidyRow) /\ Rows6 \in Seq(TidyRow)
    /\ Rows7 \in Seq(TidyRow) /\ Rows8 \in Seq(TidyRow) /\ Rows9 \in Seq(TidyRow)
    /\ Rows10 \in Seq(TidyRow) /\ Rows11 \in Seq(TidyRow) /\ Rows12 \in Seq(TidyRow)
    /\ Rows13 \in Seq(TidyRow) /\ Rows14 \in Seq(TidyRow) /\ Rows15 \in Seq(TidyRow)
    /\ Rows16 \in Seq(TidyRow) /\ Rows17 \in Seq(TidyRow)
<1>1. Rows1 \in Seq(TidyRow)
  BY TodoNamed DEF Rows1, TidyRow, WrittenRow, PlainRow, PlainKeys, Todo1
<1>2. Rows2 \in Seq(TidyRow)
  BY TodoNamed DEF Rows2, TidyRow, PlainRow, PlainKeys, Todo1, Todo2, Todo3
<1>3. Rows3 \in Seq(TidyRow)
  BY TodoNamed DEF Rows3, TidyRow, PlainRow, PlainKeys, Todo3, Todo4, Todo5
<1>4. Rows4 \in Seq(TidyRow)
  BY TodoNamed DEF Rows4, TidyRow, PlainRow, PlainKeys, Todo5, Todo6
<1>5. Rows5 \in Seq(TidyRow)
  BY TodoNamed DEF Rows5, TidyRow, PlainRow, PlainKeys, Todo6, Todo7, Todo8
<1>6. Rows6 \in Seq(TidyRow)
  BY TodoNamed DEF Rows6, TidyRow, PlainRow, PlainKeys, Todo8, Todo9
<1>7. Rows7 \in Seq(TidyRow)
  BY TodoNamed DEF Rows7, TidyRow, PlainRow, PlainKeys, Todo9, Todo10
<1>8. Rows8 \in Seq(TidyRow)
  BY TodoNamed DEF Rows8, TidyRow, PlainRow, PlainKeys, Todo10, Todo11
<1>9. Rows9 \in Seq(TidyRow)
  BY TodoNamed DEF Rows9, TidyRow, PlainRow, PlainKeys, Todo11
<1>10. Rows10 \in Seq(TidyRow)
  BY TodoNamed DEF Rows10, TidyRow, WrittenRow, PlainRow, PlainKeys, Todo11, Todo12, Todo13,
      Todo14
<1>11. Rows11 \in Seq(TidyRow)
  BY TodoNamed DEF Rows11, TidyRow, PlainRow, PlainKeys, Todo14, Todo15
<1>12. Rows12 \in Seq(TidyRow)
  BY TodoNamed DEF Rows12, TidyRow, WrittenRow, PlainRow, PlainKeys, Todo15, Todo16, Todo17
<1>13. Rows13 \in Seq(TidyRow)
  BY TodoNamed DEF Rows13, TidyRow, PlainRow, PlainKeys, Todo17, Todo18
<1>14. Rows14 \in Seq(TidyRow)
  BY TodoNamed DEF Rows14, TidyRow, PlainRow, PlainKeys, Todo18, Todo19, Todo20
<1>15. Rows15 \in Seq(TidyRow)
  BY TodoNamed DEF Rows15, TidyRow, PlainRow, PlainKeys, Todo20, Todo21, Todo22
<1>16. Rows16 \in Seq(TidyRow)
  BY TodoNamed DEF Rows16, TidyRow, PlainRow, PlainKeys, Todo22, Todo23, Todo24
<1>17. Rows17 \in Seq(TidyRow)
  BY TodoNamed DEF Rows17, TidyRow, PlainRow, PlainKeys, Todo24, Todo25, Todo26
<1> QED BY <1>1, <1>2, <1>3, <1>4, <1>5, <1>6, <1>7, <1>8, <1>9, <1>10, <1>11, <1>12, <1>13,
  <1>14, <1>15, <1>16, <1>17

\* So is the table they make up.
LEMMA TableTidy == Table \in Seq(TidyRow)
<1>1. \A s, t \in Seq(TidyRow) : s \o t \in Seq(TidyRow)
  OBVIOUS
<1>2. Rows1 \o Rows2 \o Rows3 \o Rows4 \o Rows5 \o Rows6 \o Rows7 \o Rows8 \in Seq(TidyRow)
  BY <1>1, RowsTidy, Zenon
<1> QED BY <1>1, <1>2, RowsTidy, Zenon DEF Table

\* A set of numbers that is not empty has a least one.
LEMMA LeastIsOne ==
    ASSUME NEW S \in SUBSET Nat, S # {} PROVE Min(S) \in S
<1> DEFINE Less == OpToRel(<, Nat)
<1>1. IsWellFoundedOn(Less, Nat)
  BY NatLessThanWellFounded
<1>2. PICK m \in S : \A n \in S : ~(<<n, m>> \in Less)
  <2> HIDE DEF Less
  <2> QED BY <1>1, WFMin
<1>3. ASSUME NEW n \in S PROVE m =< n
  <2>1. n \in Nat /\ m \in Nat /\ ~(<<n, m>> \in Less)
    BY <1>2
  <2> QED BY <2>1 DEF OpToRel
<1> QED BY <1>3 DEF Min

\* The three handlers that are written are not among those that are todo!().
LEMMA Written ==
    ASSUME NEW mn \in {"al2p", "kill", "nop"} PROVE mn \notin Unimplemented
<1>1. mn \notin Todo1
  BY DEF Todo1
<1>2. mn \notin Todo2
  BY DEF Todo2
<1>3. mn \notin Todo3
  BY DEF Todo3
<1>4. mn \notin Todo4
  BY DEF Todo4
<1>5. mn \notin Todo5
  BY DEF Todo5
<1>6. mn \notin Todo6
  BY DEF Todo6
<1>7. mn \notin Todo7
  BY DEF Todo7
<1>8. mn \notin Todo8
  BY DEF Todo8
<1>9. mn \notin Todo9
  BY DEF Todo9
<1>10. mn \notin Todo10
  BY DEF Todo10
<1>11. mn \notin Todo11
  BY DEF Todo11
<1>12. mn \notin Todo12
  BY DEF Todo12
<1>13. mn \notin Todo13
  BY DEF Todo13
<1>14. mn \notin Todo14
  BY DEF Todo14
<1>15. mn \notin Todo15
  BY DEF Todo15
<1>16. mn \notin Todo16
  BY DEF Todo16
<1>17. mn \notin Todo17
  BY DEF Todo17
<1>18. mn \notin Todo18
  BY DEF Todo18
<1>19. mn \notin Todo19
  BY DEF Todo19
<1>20. mn \notin Todo20
  BY DEF Todo20
<1>21. mn \notin Todo21
  BY DEF Todo21
<1>22. mn \notin Todo22
  BY DEF Todo22
<1>23. mn \notin Todo23
  BY DEF Todo23
<1>24. mn \notin Todo24
  BY DEF Todo24
<1>25. mn \notin Todo25
  BY DEF Todo25
<1>26. mn \notin Todo26
  BY DEF Todo26
<1> QED BY <1>1, <1>2, <1>3, <1>4, <1>5, <1>6, <1>7, <1>8, <1>9, <1>10, <1>11, <1>12, <1>13,
  <1>14, <1>15, <1>16, <1>17, <1>18, <1>19, <1>20, <1>21, <1>22, <1>23, <1>24, <1>25, <1>26 DEF Unimplemented

\* Of two rows with a key in common both are of the same written handler or both are
\* todo!().
LEMMA RowsAgree ==
    ASSUME NEW row \in TidyRow, NEW other \in TidyRow, NEW k, k \in row[2], k \in other[2]
    PROVE  IF row[1] \in {"al2p", "kill", "nop"} THEN other[1] = row[1]
           ELSE other[1] \in Unimplemented
<1>1. CASE row \in WrittenRow
  <2>1. other \in WrittenRow
    BY <1>1 DEF TidyRow, WrittenRow, PlainRow, PlainKeys
  <2>2. row[1] \in {"al2p", "kill", "nop"} /\ other[1] = row[1]
    BY <1>1, <2>1 DEF WrittenRow
  <2> QED BY <2>2
<1>2. CASE row \in PlainRow
  <2>1. row[1] \in Unimplemented
    BY <1>2 DEF PlainRow
  <2>2. row[1] \notin {"al2p", "kill", "nop"}
    BY <2>1, Written
  <2>3. other \in PlainRow
    BY <1>2 DEF TidyRow, WrittenRow, PlainRow, PlainKeys
  <2>4. other[1] \in Unimplemented
    BY <2>3 DEF PlainRow
  <2> QED BY <2>2, <2>4
<1> QED BY <1>1, <1>2 DEF TidyRow

\* Of every instruction the table knows: the first row that matches is of its own
\* handler if that is written, and of one that is todo!() otherwise.  No row of another
\* instruction stands in the way of al2p, kill and nop, and no instruction is given to a
\* handler that was written for another one (translate's chain of else-ifs).
THEOREM EachToItsOwn ==
    \A e \in Encodings :
        /\ e[2] \in DOMAIN Handler
        /\ IF e[1] \in {"al2p", "kill", "nop"} THEN Handler[e[2]] = e[1]
           ELSE Handler[e[2]] \in Unimplemented
<1> SUFFICES ASSUME NEW e \in Encodings
             PROVE  /\ e[2] \in DOMAIN Handler
                    /\ IF e[1] \in {"al2p", "kill", "nop"} THEN Handler[e[2]] = e[1]
                       ELSE Handler[e[2]] \in Unimplemented
  OBVIOUS
<1>1. PICK j \in DOMAIN Table : \E k \in Table[j][2] : e = <<Table[j][1], k>>
  BY DEF Encodings
<1>2. PICK k \in Table[j][2] : e = <<Table[j][1], k>>
  BY <1>1
<1> DEFINE Matching == {i \in DOMAIN Table : k \in Table[i][2]}
           first == Min(Matching)
<1>3. first \in Matching
  <2>1. Matching \in SUBSET Nat /\ Matching # {}
    BY <1>2, TableTidy
  <2> HIDE DEF Matching
  <2> QED BY <2>1, LeastIsOne
<1>4. k \in DOMAIN Handler /\ Handler[k] = Table[first][1]
  BY <1>2 DEF Handler, Keys
<1>5. Table[first] \in TidyRow /\ Table[j] \in TidyRow
  BY <1>3, TableTidy
<1>6. k \in Table[first][2]
  BY <1>3
<1> HIDE DEF first, Matching
<1>7. IF Table[j][1] \in {"al2p", "kill", "nop"} THEN Table[first][1] = Table[j][1]
      ELSE Table[first][1] \in Unimplemented
  BY <1>5, <1>6, RowsAgree
<1> QED BY <1>2, <1>4, <1>7

USE DecoderAssumption, WcAssumption

---------------------------------------------------------------------------
\* What a step does to the emitter

\* The four ways a step can treat the module.
Quiet == em' = em
Emission == Grows(em, em')
Heading == em' = EmitHeader(em)
Sealing == em' = Finalize(em)

\* load_reg grows the module.
LEMMA LoadGrows ==
    ASSUME TypeOK, NEW reg \in Registers, ~OutOfBounds(reg)
    PROVE  Grows(em, LoadReg(em, reg))
<1>1. em \in Emitter /\ u32 \in Nat
  BY DEF TypeOK
<1>2. CASE reg = RZ
  <2>1. <<0>> \in Seq(Nat)
    OBVIOUS
  <2> QED
    BY <1>1, <1>2, <2>1, TypedGrows DEF LoadReg
<1>3. CASE reg # RZ
  <2>1. reg \in 0..(NRegs - 1)
    BY <1>3 DEF OutOfBounds, Registers, RZ
  <2>2. regs[reg] \in Nat
    BY <2>1 DEF TypeOK
  <2>3. <<regs[reg]>> \in Seq(Nat)
    BY <2>2
  <2> QED
    BY <1>1, <1>3, <2>3, TypedGrows DEF LoadReg
<1> QED
  BY <1>2, <1>3

\* store_reg grows the module or leaves it.
LEMMA StoreGrows ==
    ASSUME TypeOK, NEW reg \in Registers, ~OutOfBounds(reg), NEW e \in Emitter,
           NEW val \in Nat
    PROVE  Grows(e, StoreReg(e, reg, val))
<1>1. CASE reg = RZ
  <2>1. StoreReg(e, reg, val) = e
    BY <1>1 DEF StoreReg
  <2> QED
    BY <2>1 DEF Grows, Emitter
<1>2. CASE reg # RZ
  <2>1. reg \in 0..(NRegs - 1)
    BY <1>2 DEF OutOfBounds, Registers, RZ
  <2>2. regs[reg] \in Nat
    BY <2>1 DEF TypeOK
  <2>3. <<regs[reg], val>> \in Seq(Nat)
    BY <2>2
  <2> QED
    BY <1>2, <2>3, PlainGrows DEF StoreReg
<1> QED
  BY <1>1, <1>2

\* The first three instructions of al2p grow the module.
LEMMA SumGrows ==
    ASSUME TypeOK, NEW ra \in Registers, ~OutOfBounds(ra), NEW off \in Nat,
           NEW base, base = LoadReg(em, ra),
           NEW offset, offset = EmitTyped(base, 43, u32, <<off>>),
           NEW sum, sum = EmitTyped(offset, 128, u32, <<em.nextId, base.nextId>>)
    PROVE  /\ Grows(em, base) /\ Grows(base, sum) /\ Grows(em, sum)
           /\ offset.nextId \in Nat
<1>1. em \in Emitter /\ u32 \in Nat
  BY DEF TypeOK
<1>2. Grows(em, base)
  BY LoadGrows
<1>3. base \in Emitter /\ <<off>> \in Seq(Nat)
  BY <1>2 DEF Grows
<1>4. Grows(base, offset)
  BY <1>1, <1>3, TypedGrows
<1>5. offset \in Emitter
  BY <1>4 DEF Grows
<1>6. <<em.nextId, base.nextId>> \in Seq(Nat)
  BY <1>1, <1>3 DEF Emitter
<1>7. Grows(offset, sum)
  BY <1>1, <1>5, <1>6, TypedGrows, ZenonT(40)
<1>8. Grows(base, sum)
  BY <1>3, <1>4, <1>7, GrowsTransitive
<1>9. Grows(em, sum)
  BY <1>1, <1>2, <1>8, GrowsTransitive
<1> QED
  BY <1>2, <1>5, <1>8, <1>9 DEF Emitter

\* al2p grows the module or leaves it, wherever it stops.
LEMMA Al2pShape ==
    ASSUME TypeOK, NEW i \in Instruction, Al2p(i)
    PROVE  Quiet \/ Emission
<1> DEFINE base == LoadReg(em, i.ra)
           offset == EmitTyped(base, 43, u32, <<i.off>>)
           sum == EmitTyped(offset, 128, u32, <<em.nextId, base.nextId>>)
<1>1. /\ i.ra \in Registers /\ i.rd \in Registers /\ i.off \in Nat
      /\ em \in Emitter /\ u32 \in Nat
  BY DEF Instruction, TypeOK
<1>2. ASSUME ~OutOfBounds(i.ra) PROVE Grows(em, sum) /\ offset.nextId \in Nat
  BY <1>1, <1>2, SumGrows
<1>3. \/ UNCHANGED em
      \/ ~OutOfBounds(i.ra) /\ em' = sum
      \/ /\ ~OutOfBounds(i.ra) /\ ~OutOfBounds(i.rd)
         /\ em' = StoreReg(sum, i.rd, offset.nextId)
  BY DEF Al2p
<1> HIDE DEF sum, offset, base
<1>4. CASE UNCHANGED em
  BY <1>4 DEF Quiet
<1>5. CASE ~OutOfBounds(i.ra) /\ em' = sum
  BY <1>2, <1>5 DEF Emission
<1>6. CASE /\ ~OutOfBounds(i.ra) /\ ~OutOfBounds(i.rd)
           /\ em' = StoreReg(sum, i.rd, offset.nextId)
  <2>1. Grows(em, sum) /\ sum \in Emitter /\ offset.nextId \in Nat
    BY <1>2, <1>6 DEF Grows
  <2>2. Grows(sum, StoreReg(sum, i.rd, offset.nextId))
    BY <1>1, <1>6, <2>1, StoreGrows
  <2>3. Grows(em, StoreReg(sum, i.rd, offset.nextId))
    BY <1>1, <2>1, <2>2, GrowsTransitive
  <2> QED
    BY <1>6, <2>3 DEF Emission
<1> QED
  BY <1>3, <1>4, <1>5, <1>6

\* translate emits or does nothing, and leaves the ids the decoder was set up with.
LEMMA TranslateShape ==
    ASSUME TypeOK, NEW i \in First \cup Later, Translate(i)
    PROVE  /\ Quiet \/ Emission
           /\ UNCHANGED <<decoder, headers, finalizedAt, renewed>> /\ translated' = translated + 1
           /\ calls' \in Nat /\ panicked' \in BOOLEAN /\ early' \in BOOLEAN
<1>1. i \in Instruction /\ em \in Emitter /\ panicked \in BOOLEAN /\ calls \in Nat
  BY InputAssumption DEF TypeOK
<1>2. /\ UNCHANGED <<decoder, headers, finalizedAt, renewed>> /\ translated' = translated + 1
      /\ calls' \in Nat /\ early' \in BOOLEAN
  BY <1>1 DEF Translate, TypeOK
<1>3. NoRow(i) \/ Al2p(i) \/ Kill(i) \/ Nop(i) \/ Unwritten(i)
  BY DEF Translate
<1>4. CASE NoRow(i)
  BY <1>1, <1>2, <1>4, Zenon DEF NoRow, Return, Quiet
<1>5. CASE Al2p(i)
  <2>1. Quiet \/ Emission
    BY <1>1, <1>5, Al2pShape
  <2>2. panicked' \in BOOLEAN
    BY <1>1, <1>5, Zenon DEF Al2p, Panic, Return
  <2> QED
    BY <1>2, <2>1, <2>2
<1>6. CASE Kill(i)
  <2> <<>> \in Seq(Nat) /\ 252 \in Nat
    OBVIOUS
  <2>1. Grows(em, EmitPlain(em, 252, <<>>))
    BY <1>1, PlainGrows
  <2>2. panicked' \in BOOLEAN
    BY <1>1, <1>6, Zenon DEF Kill, Return
  <2> QED
    BY <1>2, <1>6, <2>1, <2>2, Zenon DEF Kill, Emission
<1>7. CASE Nop(i)
  <2> <<>> \in Seq(Nat) /\ 0 \in Nat
    OBVIOUS
  <2>1. Grows(em, EmitPlain(em, 0, <<>>))
    BY <1>1, PlainGrows
  <2>2. panicked' \in BOOLEAN
    BY <1>1, <1>7, Zenon DEF Nop, Return
  <2> QED
    BY <1>2, <1>7, <2>1, <2>2, Zenon DEF Nop, Emission
<1>8. CASE Unwritten(i)
  BY <1>1, <1>2, <1>8, Zenon DEF Unwritten, Panic, Quiet
<1> QED
  BY <1>3, <1>4, <1>5, <1>6, <1>7, <1>8, Zenon

\* Operands are words, and as many as the method takes.
LEMMA ArgumentsTyped ==
    ASSUME em \in Emitter, NEW m \in Methods, NEW args \in Arguments(m)
    PROVE  args \in Seq(Nat) /\ Len(args) = m.fixed
<1>1. em.nextId \in Nat /\ m.fixed \in Nat
  BY MethodsDescribed DEF Described, Emitter
<1>2. CASE args = [k \in 1..m.fixed |-> em.nextId]
  BY <1>1, <1>2
<1>3. CASE args \in TypeOperands /\ Len(args) = m.fixed
  BY <1>3, InputAssumption
<1> QED BY <1>2, <1>3 DEF Arguments

\* A call of an emit method grows the module, or an assertion stops it first.
LEMMA BuildShape ==
    ASSUME TypeOK, NEW m \in Methods, NEW args \in Arguments(m), NEW text \in Texts(m, Strings),
           NEW list \in Lists(m, WordLists), Build(m, args, text, list)
    PROVE  /\ Quiet \/ Emission
           /\ UNCHANGED <<decoder, headers, translated, finalizedAt, early, renewed>>
           /\ panicked' \in BOOLEAN /\ calls' = calls + 2
<1>1. em \in Emitter /\ em.nextId \in Nat /\ panicked \in BOOLEAN
  BY DEF TypeOK, Emitter
<1>2. args \in Seq(Nat)
  BY <1>1, ArgumentsTyped
<1>3. UNCHANGED <<decoder, headers, translated, finalizedAt, early, renewed>> /\ calls' = calls + 2
  BY DEF Build
<1>4. \/ em' = em /\ panicked' = TRUE
      \/ em' = Emit(em, m, em.nextId, Operands(m, args, text, list)) /\ panicked' = panicked
  BY DEF Build
<1>5. Grows(em, Emit(em, m, em.nextId, Operands(m, args, text, list)))
  BY <1>1, <1>2, CallGrows
<1> QED
  BY <1>1, <1>3, <1>4, <1>5 DEF Quiet, Emission

\* init sets the decoder up with ids it has just taken.
LEMMA InitShape ==
    ASSUME TypeOK, InitDecoder
    PROVE  /\ Emission /\ ready' = TRUE
           /\ u32' = em.nextId + 3 /\ ptr' = em.nextId + 49
           /\ regs' = [r \in 0..(NRegs - 1) |-> em.nextId + 50 + r]
           /\ em'.nextId = em.nextId + 50 + NRegs
           /\ renewed' = (renewed \/ ready)
           /\ UNCHANGED <<headers, translated, panicked, finalizedAt, early>> /\ calls' = calls + 1
<1> DEFINE n == em.nextId
           f == [em EXCEPT !.words = @ \o (ScalarTypes(n) \o VectorTypes(n + 13)
                                            \o <<InstWord(32, 3), n + 49, 7, n + 3>>
                                            \o RegisterVariables(n + 50, n + 49)),
                           !.nextId = n + 50 + NRegs]
<1>1. em \in Emitter /\ n \in Nat /\ n + 49 \in Nat
  BY DEF TypeOK, Emitter
<1>2. em' = f /\ ready' = TRUE /\ u32' = n + 3 /\ ptr' = n + 49
  BY DEF InitDecoder
<1>3. /\ regs' = RegisterIds(n) /\ renewed' = (renewed \/ ready)
      /\ UNCHANGED <<headers, translated, panicked, finalizedAt, early>> /\ calls' = calls + 1
  BY DEF InitDecoder, history
<1>4. f.nextId = n + 50 + NRegs
  BY <1>1 DEF Emitter
<1>5. Grows(em, f)
  BY <1>1, InitGrows
<1> HIDE DEF f
<1> QED
  BY <1>2, <1>3, <1>4, <1>5 DEF Emission, RegisterIds

\* Every step treats the module in one of the four ways, and only init touches
\* the fields of the decoder.
LEMMA StepShape ==
    ASSUME TypeOK, [Next]_vars
    PROVE  /\ Quiet \/ Emission \/ Heading \/ Sealing
           /\ InitDecoder \/ UNCHANGED decoder
           /\ headers' \in Nat /\ translated' \in Nat /\ calls' \in Nat
           /\ panicked' \in BOOLEAN /\ early' \in BOOLEAN /\ renewed' \in BOOLEAN
           /\ finalizedAt' \in Nat
<1>1. /\ em \in Emitter /\ headers \in Nat /\ translated \in Nat /\ calls \in Nat
      /\ panicked \in BOOLEAN /\ early \in BOOLEAN /\ renewed \in BOOLEAN /\ ready \in BOOLEAN
      /\ finalizedAt \in Nat
  BY DEF TypeOK
<1>2. CASE Start
  BY <1>1, <1>2 DEF Start, Heading
<1>3. CASE Take
  <2>1. Grows(em, AllocId(em))
    BY <1>1, AllocGrows
  <2> QED
    BY <1>1, <1>3, <2>1 DEF Take, Emission
<1>4. ASSUME NEW m \in Methods, NEW args \in Arguments(m), NEW text \in Texts(m, Strings),
             NEW list \in Lists(m, WordLists), Build(m, args, text, list)
      PROVE  /\ Quiet \/ Emission
             /\ UNCHANGED decoder /\ headers' = headers /\ translated' = translated
             /\ finalizedAt' = finalizedAt /\ early' = early /\ renewed' = renewed
             /\ panicked' \in BOOLEAN /\ calls' = calls + 2
  BY <1>4, BuildShape
<1>5. CASE InitDecoder
  BY <1>1, <1>5, InitShape
<1>6. ASSUME NEW i \in First \cup Later, Translate(i)
      PROVE  /\ Quiet \/ Emission
             /\ UNCHANGED decoder /\ headers' = headers /\ translated' = translated + 1
             /\ finalizedAt' = finalizedAt /\ early' \in BOOLEAN /\ renewed' = renewed
             /\ calls' \in Nat /\ panicked' \in BOOLEAN
  BY <1>6, TranslateShape
<1>7. CASE Seal
  <2>1. Len(em.words) \in Nat
    BY <1>1 DEF Emitter
  <2> QED BY <1>1, <1>7, <2>1 DEF Seal, Sealing, history
<1>8. CASE UNCHANGED vars
  BY <1>1, <1>8 DEF vars, decoder, Quiet
<1> QED
  <2>1. CASE \E m \in Methods : \E args \in Arguments(m), text \in Texts(m, Strings),
                                     list \in Lists(m, WordLists) :
                Build(m, args, text, list)
    BY <1>1, <1>4, <2>1
  <2>2. CASE \E i \in First \cup Later : Translate(i)
    BY <1>1, <1>6, <2>2
  <2> QED
    BY <1>2, <1>3, <1>5, <1>7, <1>8, <2>1, <2>2 DEF Next

---------------------------------------------------------------------------
\* The theorems

IInv == TypeOK /\ RegistersApart

\* The invariant holds at first.
LEMMA InitHolds == Init => IInv
<1> SUFFICES ASSUME Init PROVE IInv
  OBVIOUS
<1>1. em = [words |-> <<>>, nextId |-> 1, boundIdx |-> 0]
  BY DEF Init, New
<1>2. em \in Emitter
  BY <1>1 DEF Emitter
<1>3. TypeOK
  BY <1>2 DEF Init, TypeOK
<1>4. ~ready
  BY DEF Init
<1> QED
  BY <1>3, <1>4, Zenon DEF IInv, RegistersApart

\* A step keeps the types, the place of every word but one, and never gives an
\* id back.
LEMMA EmitterStep ==
    ASSUME TypeOK, [Next]_vars
    PROVE  /\ em' \in Emitter /\ em.nextId <= em'.nextId
           /\ Len(em.words) <= Len(em'.words)
           /\ \A k \in 1..Len(em.words) : em'.words[k] = em.words[k] \/ k = em.boundIdx + 1
<1>1. em \in Emitter /\ em.nextId \in Nat
  BY DEF TypeOK, Emitter
<1>2. Quiet \/ Emission \/ Heading \/ Sealing
  BY StepShape
<1>3. CASE Quiet
  BY <1>1, <1>3 DEF Quiet, Emitter
<1>4. CASE Emission
  BY <1>1, <1>4 DEF Emission, Grows
<1>5. CASE Heading
  <2>1. em' = EmitHeader(em)
    BY <1>5 DEF Heading
  <2>2. /\ em' \in Emitter /\ em'.nextId = em.nextId
        /\ Len(em.words) <= Len(em'.words)
        /\ \A k \in 1..Len(em.words) : em'.words[k] = em.words[k]
    BY <1>1, <2>1, HeaderShape, Zenon
  <2>3. em.nextId <= em'.nextId
    BY <1>1, <2>2
  <2> QED
    BY <2>1, <2>2, <2>3
<1>6. CASE Sealing
  <2>1. em' = Finalize(em)
    BY <1>6 DEF Sealing
  <2>2. /\ em' \in Emitter /\ em'.nextId = em.nextId
        /\ Len(em'.words) = Len(em.words)
        /\ \A k \in 1..Len(em.words) : em'.words[k] = em.words[k] \/ k = em.boundIdx + 1
    BY <1>1, <2>1, FinalizeShape, Zenon
  <2>3. Len(em.words) \in Nat
    BY <1>1 DEF Emitter
  <2> QED
    BY <1>1, <2>1, <2>2, <2>3
<1> QED
  BY <1>2, <1>3, <1>4, <1>5, <1>6

\* Every call keeps it.
LEMMA StepHolds == IInv /\ [Next]_vars => IInv'
<1> SUFFICES ASSUME IInv, [Next]_vars PROVE IInv'
  OBVIOUS
<1>1. TypeOK /\ RegistersApart
  BY DEF IInv
<1>2. em \in Emitter /\ em' \in Emitter /\ em.nextId <= em'.nextId
  BY <1>1, EmitterStep DEF TypeOK
<1>3. em.nextId \in Nat /\ em'.nextId \in Nat
  BY <1>2 DEF Emitter
<1>4. /\ Quiet \/ Emission \/ Heading \/ Sealing
      /\ InitDecoder \/ UNCHANGED decoder
      /\ headers' \in Nat /\ translated' \in Nat /\ calls' \in Nat
      /\ panicked' \in BOOLEAN /\ early' \in BOOLEAN /\ renewed' \in BOOLEAN
      /\ finalizedAt' \in Nat
  BY <1>1, StepShape
<1>5. ready' \in BOOLEAN /\ u32' \in Nat /\ ptr' \in Nat /\ regs' \in [0..(NRegs - 1) -> Nat]
  <2>1. CASE InitDecoder
    <3>1. /\ ready' = TRUE /\ u32' = em.nextId + 3 /\ ptr' = em.nextId + 49
          /\ regs' = [r \in 0..(NRegs - 1) |-> em.nextId + 50 + r]
      BY <1>1, <2>1, InitShape
    <3> QED
      BY <1>3, <3>1, SMTT(30)
  <2>2. CASE UNCHANGED decoder
    BY <1>1, <2>2 DEF TypeOK, decoder
  <2> QED
    BY <1>4, <2>1, <2>2
<1>6. TypeOK'
  BY <1>2, <1>4, <1>5, Zenon DEF TypeOK
<1>7. RegistersApart'
  <2>1. CASE InitDecoder
    <3>1. /\ ready' = TRUE /\ u32' = em.nextId + 3 /\ ptr' = em.nextId + 49
          /\ regs' = [r \in 0..(NRegs - 1) |-> em.nextId + 50 + r]
          /\ em'.nextId = em.nextId + 50 + NRegs
      BY <1>1, <2>1, InitShape
    <3>2. \A r \in 0..(NRegs - 1) : regs'[r] = em.nextId + 50 + r
      BY <3>1
    <3> DEFINE n == em.nextId
    <3>3. n \in Nat /\ NRegs \in Nat
      BY <1>3, DecoderAssumption
    <3>4. /\ u32' = n + 3 /\ ptr' = n + 49 /\ em'.nextId = n + 50 + NRegs
          /\ \A r \in 0..(NRegs - 1) : regs'[r] = n + 50 + r
      BY <3>1, <3>2
    <3> HIDE DEF n
    <3>5. \A r \in 0..(NRegs - 1) :
              regs'[r] < em'.nextId /\ ptr' < regs'[r] /\ u32' < ptr'
      BY <3>3, <3>4
    <3>6. \A r, q \in 0..(NRegs - 1) : r # q => regs'[r] # regs'[q]
      BY <3>3, <3>4
    <3> QED
      BY <3>5, <3>6 DEF RegistersApart
  <2>2. CASE UNCHANGED decoder
    <3>1. ready' = ready /\ u32' = u32 /\ ptr' = ptr /\ regs' = regs
      BY <2>2 DEF decoder
    <3>2. CASE ready
      <4>1. \A r \in 0..(NRegs - 1) : regs[r] \in Nat
        BY <1>1 DEF TypeOK
      <4>2. /\ \A r \in 0..(NRegs - 1) : regs[r] < em.nextId /\ ptr < regs[r] /\ u32 < ptr
            /\ \A r, q \in 0..(NRegs - 1) : r # q => regs[r] # regs[q]
        BY <1>1, <3>2 DEF RegistersApart
      <4>3. \A r \in 0..(NRegs - 1) : regs[r] < em'.nextId
        BY <1>2, <1>3, <4>1, <4>2
      <4> QED
        BY <3>1, <4>2, <4>3 DEF RegistersApart
    <3>3. CASE ~ready
      BY <3>1, <3>3 DEF RegistersApart
    <3> QED
      BY <3>2, <3>3
  <2> QED
    BY <1>4, <2>1, <2>2
<1> QED
  BY <1>6, <1>7 DEF IInv

\* So it holds always.
LEMMA Inductive == Spec => []IInv
<1>1. Init => IInv
  BY InitHolds
<1>2. IInv /\ [Next]_vars => IInv'
  BY StepHolds
<1> QED
  BY <1>1, <1>2, PTL DEF Spec

\* The words stay words and the ids numbers, whatever is called in whatever order.
THEOREM EmitterTyped == Spec => []TypeOK
<1>1. IInv => TypeOK
  BY DEF IInv
<1> QED
  BY <1>1, Inductive, PTL

\* For every number of registers: no two guest registers ever share a variable,
\* and no id handed out after init is one of theirs (init, alloc_id).
THEOREM RegistersNeverShared == Spec => []RegistersApart
<1>1. IInv => RegistersApart
  BY DEF IInv
<1> QED
  BY <1>1, Inductive, PTL

\* No call takes back or rewrites a word, but for the bound (inst, finalize).
THEOREM WordsNeverRewritten == Spec => WordsStay
<1>1. IInv /\ [Next]_vars =>
        [/\ Len(em.words) <= Len(em'.words)
         /\ \A k \in 1..Len(em.words) : em'.words[k] = em.words[k] \/ k = em.boundIdx + 1]_vars
  BY EmitterStep DEF IInv
<1> QED
  BY <1>1, Inductive, PTL DEF Spec, WordsStay

---------------------------------------------------------------------------
\* What the methods translate calls do to a module and to a run of it

After(e, start) == Run(Instructions(e.words), start, RegMod)
Moves(e, f, R) ==
    Onward(e, f, R) /\ (Sound(Instructions(e.words)) => Sound(Instructions(f.words)))

Ids(e, R) == (1..(e.nextId - 1)) \ R

\* One instruction more moves the module on, and a run by that instruction.
LEMMA DoesMoves ==
    ASSUME NEW e, NEW f, NEW R, NEW op, NEW tail, Does(e, f, R, op, tail)
    PROVE  /\ Moves(e, f, R) /\ f \in Emitter /\ Fine(f.words, f.nextId, R)
           /\ \E in \in Instr :
                /\ OpOf(in) = op /\ \A k \in 1..Len(tail) : in.words[k + 1] = tail[k]
                /\ \A start : After(f, start) = Executed(After(e, start), in, RegMod)
BY DEF Does, Moves, After, Onward

\* Moving on twice is moving on.
LEMMA MovesTransitive ==
    ASSUME NEW e \in Emitter, NEW f, NEW g, NEW R, Fine(e.words, e.nextId, R),
           Moves(e, f, R), Moves(f, g, R)
    PROVE  Moves(e, g, R)
BY OnwardTransitive DEF Moves

\* A constant gives its id its value.
LEMMA ConstantGives ==
    ASSUME NEW e \in Emitter, NEW R, Fine(e.words, e.nextId, R),
           NEW ty \in Ids(e, R), NEW v \in Nat,
           NEW f, f = EmitTyped(e, 43, ty, <<v>>)
    PROVE  /\ Moves(e, f, R) /\ f \in Emitter /\ Fine(f.words, f.nextId, R)
           /\ f.nextId = e.nextId + 1
           /\ \A start : RunState(After(e, start)) =>
                Sets(After(e, start), After(f, start), e.nextId, v % RegMod)
<1>1. Does(e, f, R, 43, <<ty, e.nextId, v>>) /\ f.nextId = e.nextId + 1
  BY ConstantDoes DEF Ids
<1>2. PICK in \in Instr :
        /\ OpOf(in) = 43 /\ \A k \in 1..Len(<<ty, e.nextId, v>>) : in.words[k + 1] = <<ty, e.nextId, v>>[k]
        /\ \A start : After(f, start) = Executed(After(e, start), in, RegMod)
  BY <1>1, DoesMoves, SMTT(60)
<1>3. in.words[3] = e.nextId /\ in.words[4] = v
  <2>1. \A k \in 1..3 : in.words[k + 1] = <<ty, e.nextId, v>>[k]
    BY <1>2
  <2>2. in.words[2 + 1] = <<ty, e.nextId, v>>[2] /\ in.words[3 + 1] = <<ty, e.nextId, v>>[3]
    BY <2>1
  <2> QED BY <2>2
<1>4. ASSUME NEW start, RunState(After(e, start))
      PROVE  Sets(After(e, start), After(f, start), e.nextId, v % RegMod)
  <2>1. After(f, start) = Executed(After(e, start), in, RegMod)
    BY <1>2
  <2>2. \A s, id, x : RunState(s) /\ id = in.words[3] /\ x = in.words[4] % RegMod =>
                        Sets(s, Executed(s, in, RegMod), id, x)
    BY <1>2, ExecConstant
  <2> QED BY <1>3, <1>4, <2>1, <2>2
<1> QED BY <1>1, <1>4, DoesMoves

\* A load gives its id what is in the variable.
LEMMA LoadGives ==
    ASSUME NEW e \in Emitter, NEW R, Fine(e.words, e.nextId, R),
           NEW ty \in Ids(e, R), NEW a \in Ids(e, R),
           NEW f, f = EmitTyped(e, 61, ty, <<a>>)
    PROVE  /\ Moves(e, f, R) /\ f \in Emitter /\ Fine(f.words, f.nextId, R)
           /\ f.nextId = e.nextId + 1
           /\ \A start : RunState(After(e, start)) =>
                Sets(After(e, start), After(f, start), e.nextId, After(e, start).mem[a])
<1>1. Does(e, f, R, 61, <<ty, e.nextId, a>>) /\ f.nextId = e.nextId + 1
  BY LoadDoes DEF Ids
<1>2. PICK in \in Instr :
        /\ OpOf(in) = 61 /\ \A k \in 1..Len(<<ty, e.nextId, a>>) : in.words[k + 1] = <<ty, e.nextId, a>>[k]
        /\ \A start : After(f, start) = Executed(After(e, start), in, RegMod)
  BY <1>1, DoesMoves, SMTT(30)
<1>3. in.words[3] = e.nextId /\ in.words[4] = a
  <2>1. \A k \in 1..3 : in.words[k + 1] = <<ty, e.nextId, a>>[k]
    BY <1>2
  <2>2. in.words[2 + 1] = <<ty, e.nextId, a>>[2] /\ in.words[3 + 1] = <<ty, e.nextId, a>>[3]
    BY <2>1
  <2> QED BY <2>2
<1>4. ASSUME NEW start, RunState(After(e, start))
      PROVE  Sets(After(e, start), After(f, start), e.nextId, After(e, start).mem[a])
  <2>1. After(f, start) = Executed(After(e, start), in, RegMod)
    BY <1>2
  <2>2. \A s, id, x : RunState(s) /\ id = in.words[3] /\ x = s.mem[in.words[4]] =>
                        Sets(s, Executed(s, in, RegMod), id, x)
    BY <1>2, ExecLoad
  <2> QED BY <1>3, <1>4, <2>1, <2>2
<1> QED BY <1>1, <1>4, DoesMoves

\* A sum gives its id the sum of the values of two ids.
LEMMA SumGives ==
    ASSUME NEW e \in Emitter, NEW R, Fine(e.words, e.nextId, R),
           NEW ty \in Ids(e, R), NEW a \in Ids(e, R), NEW b \in Ids(e, R),
           NEW f, f = EmitTyped(e, 128, ty, <<a, b>>)
    PROVE  /\ Moves(e, f, R) /\ f \in Emitter /\ Fine(f.words, f.nextId, R)
           /\ f.nextId = e.nextId + 1
           /\ \A start : RunState(After(e, start)) =>
                Sets(After(e, start), After(f, start), e.nextId,
                     (After(e, start).val[a] + After(e, start).val[b]) % RegMod)
<1> DEFINE tail == <<ty, e.nextId, a, b>>
<1>1. Does(e, f, R, 128, tail) /\ f.nextId = e.nextId + 1
  BY SumDoes DEF Ids
<1>5. Moves(e, f, R) /\ f \in Emitter /\ Fine(f.words, f.nextId, R)
  <2> HIDE DEF tail
  <2> QED BY <1>1, DoesMoves
<1>2. PICK in \in Instr :
        /\ OpOf(in) = 128 /\ \A k \in 1..Len(tail) : in.words[k + 1] = tail[k]
        /\ \A start : After(f, start) = Executed(After(e, start), in, RegMod)
  <2> HIDE DEF tail
  <2> QED BY <1>1, DoesMoves
<1>3. in.words[3] = e.nextId /\ in.words[4] = a /\ in.words[5] = b
  <2>1. \A k \in 1..4 : in.words[k + 1] = tail[k]
    BY <1>2
  <2>2. /\ in.words[2 + 1] = tail[2] /\ in.words[3 + 1] = tail[3]
        /\ in.words[4 + 1] = tail[4]
    <3> HIDE DEF tail
    <3> QED BY <2>1
  <2> QED BY <2>2
<1>4. ASSUME NEW start, RunState(After(e, start))
      PROVE  Sets(After(e, start), After(f, start), e.nextId,
                  (After(e, start).val[a] + After(e, start).val[b]) % RegMod)
  <2>1. After(f, start) = Executed(After(e, start), in, RegMod)
    BY <1>2
  <2>2. \A s, id, x : RunState(s) /\ id = in.words[3]
                      /\ x = (s.val[in.words[4]] + s.val[in.words[5]]) % RegMod =>
                        Sets(s, Executed(s, in, RegMod), id, x)
    BY <1>2, ExecSum
  <2> QED BY <1>3, <1>4, <2>1, <2>2
<1> QED BY <1>1, <1>4, <1>5

\* A store puts the value of an id into the variable.
LEMMA StoreGives ==
    ASSUME NEW e \in Emitter, NEW R, Fine(e.words, e.nextId, R),
           NEW a \in Ids(e, R), NEW b \in Ids(e, R),
           NEW f, f = EmitPlain(e, 62, <<a, b>>)
    PROVE  /\ Moves(e, f, R) /\ f \in Emitter /\ Fine(f.words, f.nextId, R)
           /\ \A start : RunState(After(e, start)) =>
                Puts(After(e, start), After(f, start), a, After(e, start).val[b])
<1> DEFINE tail == <<a, b>>
<1>1. Does(e, f, R, 62, tail)
  BY StoreDoes DEF Ids
<1>5. Moves(e, f, R) /\ f \in Emitter /\ Fine(f.words, f.nextId, R)
  <2> HIDE DEF tail
  <2> QED BY <1>1, DoesMoves
<1>2. PICK in \in Instr :
        /\ OpOf(in) = 62 /\ \A k \in 1..Len(tail) : in.words[k + 1] = tail[k]
        /\ \A start : After(f, start) = Executed(After(e, start), in, RegMod)
  <2> HIDE DEF tail
  <2> QED BY <1>1, DoesMoves
<1>3. in.words[2] = a /\ in.words[3] = b
  <2>1. \A k \in 1..2 : in.words[k + 1] = tail[k]
    BY <1>2
  <2>2. in.words[1 + 1] = tail[1] /\ in.words[2 + 1] = tail[2]
    <3> HIDE DEF tail
    <3> QED BY <2>1
  <2> QED BY <2>2
<1>4. ASSUME NEW start, RunState(After(e, start))
      PROVE  Puts(After(e, start), After(f, start), a, After(e, start).val[b])
  <2>1. After(f, start) = Executed(After(e, start), in, RegMod)
    BY <1>2
  <2>2. \A s : RunState(s) => Puts(s, Executed(s, in, RegMod), in.words[2], s.val[in.words[3]])
    BY <1>2, ExecStore
  <2> QED BY <1>3, <1>4, <2>1, <2>2
<1> QED BY <1>4, <1>5

\* OpKill ends the run and leaves the variables.
LEMMA KillGives ==
    ASSUME NEW e \in Emitter, NEW R, Fine(e.words, e.nextId, R),
           NEW f, f = EmitPlain(e, 252, <<>>)
    PROVE  /\ Moves(e, f, R)
           /\ \A start : RunState(After(e, start)) =>
                /\ RunState(After(f, start)) /\ After(f, start).dead
                /\ After(f, start).mem = After(e, start).mem
<1>1. Does(e, f, R, 252, <<>>)
  BY BareDoes
<1>2. PICK in \in Instr :
        /\ OpOf(in) = 252
        /\ \A start : After(f, start) = Executed(After(e, start), in, RegMod)
  BY <1>1, DoesMoves
<1>3. \A s : RunState(s) => /\ RunState(Executed(s, in, RegMod)) /\ Executed(s, in, RegMod).dead
                            /\ Executed(s, in, RegMod).mem = s.mem
  BY <1>2, ExecKill
<1> QED BY <1>1, <1>2, <1>3, DoesMoves

\* OpNop changes nothing.
LEMMA NopGives ==
    ASSUME NEW e \in Emitter, NEW R, Fine(e.words, e.nextId, R),
           NEW f, f = EmitPlain(e, 0, <<>>)
    PROVE  Moves(e, f, R) /\ \A start : After(f, start) = After(e, start)
<1>1. Does(e, f, R, 0, <<>>)
  BY BareDoes
<1>2. PICK in \in Instr :
        /\ OpOf(in) = 0
        /\ \A start : After(f, start) = Executed(After(e, start), in, RegMod)
  BY <1>1, DoesMoves
<1>3. \A s : Executed(s, in, RegMod) = s
  BY <1>2, ExecNop
<1> QED BY <1>1, <1>2, <1>3, DoesMoves

---------------------------------------------------------------------------
\* What al2p does to a module and to a run of it

Placed(e, R) == u32 \in Ids(e, R) /\ \A r \in 0..(NRegs - 1) : regs[r] \in Ids(e, R)

\* The ids that instructions define stay so, and the next id becomes one of them.
LEMMA IdsGrow ==
    ASSUME NEW e \in Emitter, NEW f \in Emitter, NEW R, Fine(e.words, e.nextId, R),
           f.nextId = e.nextId + 1
    PROVE  Ids(e, R) \subseteq Ids(f, R) /\ e.nextId \in Ids(f, R) /\ e.nextId \notin Ids(e, R)
<1>1. e.nextId \in Nat \ {0} /\ R \subseteq 1..(e.nextId - 1)
  BY DEF Emitter, Fine
<1> DEFINE n == e.nextId
<1>2. n \in Nat \ {0} /\ R \subseteq 1..(n - 1)
  BY <1>1
<1>3. Ids(e, R) = (1..(n - 1)) \ R /\ Ids(f, R) = (1..((n + 1) - 1)) \ R
  BY DEF Ids
<1> HIDE DEF n
<1>4. /\ (1..(n - 1)) \ R \subseteq (1..((n + 1) - 1)) \ R
      /\ n \in (1..((n + 1) - 1)) \ R /\ n \notin (1..(n - 1)) \ R
  BY <1>2
<1> QED BY <1>3, <1>4 DEF n

\* The value of a register in a run.
Held(s, reg) == IF reg = RZ THEN 0 ELSE s.mem[regs[reg]]

\* load_reg gives its id what the register holds, 0 for register zero.
LEMMA LoadRegGives ==
    ASSUME NEW e \in Emitter, NEW R, Fine(e.words, e.nextId, R), Placed(e, R),
           NEW reg \in Registers, ~OutOfBounds(reg),
           NEW f, f = LoadReg(e, reg)
    PROVE  /\ Moves(e, f, R) /\ f \in Emitter /\ Fine(f.words, f.nextId, R)
           /\ f.nextId = e.nextId + 1
           /\ \A start : RunState(After(e, start)) =>
                Sets(After(e, start), After(f, start), e.nextId, Held(After(e, start), reg))
<1>1. CASE reg = RZ
  <2>1. f = EmitTyped(e, 43, u32, <<0>>) /\ u32 \in Ids(e, R) /\ 0 \in Nat
    BY <1>1 DEF LoadReg, Placed
  <2>2. 0 % RegMod = 0
    OBVIOUS
  <2>3. \A s : Held(s, reg) = 0
    BY <1>1 DEF Held
  <2>4. /\ Moves(e, f, R) /\ f \in Emitter /\ Fine(f.words, f.nextId, R)
        /\ f.nextId = e.nextId + 1
        /\ \A start : RunState(After(e, start)) =>
             Sets(After(e, start), After(f, start), e.nextId, 0 % RegMod)
    BY <2>1, ConstantGives
  <2> QED BY <2>2, <2>3, <2>4
<1>2. CASE reg # RZ
  <2>1. reg \in 0..(NRegs - 1)
    BY <1>2 DEF OutOfBounds, Registers, RZ
  <2>2. f = EmitTyped(e, 61, u32, <<regs[reg]>>) /\ u32 \in Ids(e, R) /\ regs[reg] \in Ids(e, R)
    BY <1>2, <2>1 DEF LoadReg, Placed
  <2>3. \A s : Held(s, reg) = s.mem[regs[reg]]
    BY <1>2 DEF Held
  <2>4. /\ Moves(e, f, R) /\ f \in Emitter /\ Fine(f.words, f.nextId, R)
        /\ f.nextId = e.nextId + 1
        /\ \A start : RunState(After(e, start)) =>
             Sets(After(e, start), After(f, start), e.nextId, After(e, start).mem[regs[reg]])
    BY <2>2, LoadGives
  <2> QED BY <2>3, <2>4
<1> QED BY <1>1, <1>2

\* t differs from s in the values of ids only, and has v for id.
Holds(s, t, id, v) ==
    RunState(t) /\ t.mem = s.mem /\ t.dead = s.dead /\ (~s.dead => t.val[id] = v)

\* The first three instructions of al2p: the register, the offset and their sum.
LEMMA SumIsReady ==
    ASSUME NEW e \in Emitter, NEW R, Fine(e.words, e.nextId, R), Placed(e, R),
           NEW ra \in Registers, ~OutOfBounds(ra), NEW off \in Nat,
           NEW base, base = LoadReg(e, ra),
           NEW offset, offset = EmitTyped(base, 43, u32, <<off>>),
           NEW sum, sum = EmitTyped(offset, 128, u32, <<e.nextId, base.nextId>>)
    PROVE  /\ Moves(e, sum, R) /\ sum \in Emitter /\ Fine(sum.words, sum.nextId, R)
           /\ Placed(sum, R) /\ offset.nextId \in Ids(sum, R)
           /\ \A start : RunState(After(e, start)) =>
                Holds(After(e, start), After(sum, start), offset.nextId,
                      (Held(After(e, start), ra) + (off % RegMod)) % RegMod)
<1>1. /\ Moves(e, base, R) /\ base \in Emitter /\ Fine(base.words, base.nextId, R)
      /\ base.nextId = e.nextId + 1
      /\ \A start : RunState(After(e, start)) =>
           Sets(After(e, start), After(base, start), e.nextId, Held(After(e, start), ra))
  BY LoadRegGives
<1>2. Ids(e, R) \subseteq Ids(base, R) /\ e.nextId \in Ids(base, R)
  BY <1>1, IdsGrow
<1>3. Placed(base, R)
  BY <1>2 DEF Placed
<1>4. /\ Moves(base, offset, R) /\ offset \in Emitter /\ Fine(offset.words, offset.nextId, R)
      /\ offset.nextId = base.nextId + 1
      /\ \A start : RunState(After(base, start)) =>
           Sets(After(base, start), After(offset, start), base.nextId, off % RegMod)
  <2>1. u32 \in Ids(base, R)
    BY <1>3 DEF Placed
  <2> QED BY <1>1, <2>1, ConstantGives
<1>5. Ids(base, R) \subseteq Ids(offset, R) /\ base.nextId \in Ids(offset, R)
  BY <1>1, <1>4, IdsGrow
<1>6. /\ Moves(offset, sum, R) /\ sum \in Emitter /\ Fine(sum.words, sum.nextId, R)
      /\ sum.nextId = offset.nextId + 1
      /\ \A start : RunState(After(offset, start)) =>
           Sets(After(offset, start), After(sum, start), offset.nextId,
                (After(offset, start).val[e.nextId] + After(offset, start).val[base.nextId]) % RegMod)
  <2>1. u32 \in Ids(offset, R) /\ e.nextId \in Ids(offset, R) /\ base.nextId \in Ids(offset, R)
    BY <1>2, <1>3, <1>5 DEF Placed
  <2> QED BY <1>4, <2>1, SumGives
<1>7. Ids(offset, R) \subseteq Ids(sum, R) /\ offset.nextId \in Ids(sum, R)
  BY <1>4, <1>6, IdsGrow
<1>8. Placed(sum, R)
  BY <1>2, <1>3, <1>5, <1>7 DEF Placed
<1>9. Moves(e, sum, R)
  <2>1. Moves(e, offset, R)
    BY <1>1, <1>4, MovesTransitive
  <2> QED BY <1>6, <2>1, MovesTransitive
<1>10. ASSUME NEW start, RunState(After(e, start))
       PROVE  Holds(After(e, start), After(sum, start), offset.nextId,
                    (Held(After(e, start), ra) + (off % RegMod)) % RegMod)
  <2> DEFINE s0 == After(e, start)
             s1 == After(base, start)
             s2 == After(offset, start)
             s3 == After(sum, start)
             x == Held(s0, ra)
             y == off % RegMod
  <2>1. Sets(s0, s1, e.nextId, x)
    BY <1>1, <1>10
  <2>2. Sets(s1, s2, base.nextId, y)
    BY <1>4, <2>1, SMTT(30) DEF Sets
  <2>3. Sets(s2, s3, offset.nextId, (s2.val[e.nextId] + s2.val[base.nextId]) % RegMod)
    BY <1>6, <2>2 DEF Sets
  <2>4. e.nextId # base.nextId
    BY <1>1 DEF Emitter
  <2> HIDE DEF s0, s1, s2, s3, x, y
  <2>6. ~s0.dead => s2.val[e.nextId] = x /\ s2.val[base.nextId] = y
    BY <2>1, <2>2, <2>4 DEF Sets
  <2>7. ~s0.dead => Sets(s2, s3, offset.nextId, (x + y) % RegMod)
    BY <2>3, <2>6
  <2>8. RunState(s3) /\ s3.mem = s0.mem /\ s3.dead = s0.dead
    BY <2>1, <2>2, <2>3 DEF Sets
  <2>9. Holds(s0, s3, offset.nextId, (x + y) % RegMod)
    <3> DEFINE v == (x + y) % RegMod
    <3>1. ~s0.dead => Sets(s2, s3, offset.nextId, v) /\ ~s2.dead
      BY <2>1, <2>2, <2>7 DEF Sets
    <3> HIDE DEF v
    <3>2. ~s0.dead => s3.val[offset.nextId] = v
      BY <3>1 DEF Sets
    <3>3. Holds(s0, s3, offset.nextId, v)
      BY <2>8, <3>2 DEF Holds
    <3> QED BY <3>3 DEF v
  <2> QED BY <2>9 DEF s0, s3, x, y
<1> QED BY <1>6, <1>7, <1>8, <1>9, <1>10

\* t is s with v in register rd, unless the program was killed.
Writes(s, t, rd, v) ==
    /\ RunState(t) /\ t.dead = s.dead
    /\ rd = RZ \/ s.dead => t.mem = s.mem
    /\ rd # RZ /\ ~s.dead => t.mem = [s.mem EXCEPT ![regs[rd]] = v]

\* al2p writes to rd the sum of ra and the offset.
LEMMA Al2pGives ==
    ASSUME NEW e \in Emitter, NEW R, Fine(e.words, e.nextId, R), Placed(e, R),
           NEW ra \in Registers, ~OutOfBounds(ra), NEW rd \in Registers, ~OutOfBounds(rd),
           NEW off \in Nat,
           NEW base, base = LoadReg(e, ra),
           NEW offset, offset = EmitTyped(base, 43, u32, <<off>>),
           NEW sum, sum = EmitTyped(offset, 128, u32, <<e.nextId, base.nextId>>),
           NEW f, f = StoreReg(sum, rd, offset.nextId)
    PROVE  /\ Moves(e, f, R)
           /\ \A start : RunState(After(e, start)) =>
                Writes(After(e, start), After(f, start), rd,
                       (Held(After(e, start), ra) + (off % RegMod)) % RegMod)
<1>1. /\ Moves(e, sum, R) /\ sum \in Emitter /\ Fine(sum.words, sum.nextId, R)
      /\ Placed(sum, R) /\ offset.nextId \in Ids(sum, R)
      /\ \A start : RunState(After(e, start)) =>
           Holds(After(e, start), After(sum, start), offset.nextId,
                 (Held(After(e, start), ra) + (off % RegMod)) % RegMod)
  BY SumIsReady
<1> DEFINE V(start) == (Held(After(e, start), ra) + (off % RegMod)) % RegMod
<1>2. \A start : RunState(After(e, start)) =>
           Holds(After(e, start), After(sum, start), offset.nextId, V(start))
  BY <1>1
<1>3. SUFFICES /\ Moves(e, f, R)
               /\ \A start : RunState(After(e, start)) =>
                    Writes(After(e, start), After(f, start), rd, V(start))
  OBVIOUS
<1> HIDE DEF V
<1>4. CASE rd = RZ
  <2>1. f = sum
    BY <1>4 DEF StoreReg
  <2>2. \A start : RunState(After(e, start)) =>
           Writes(After(e, start), After(f, start), rd, V(start))
    BY <1>2, <1>4, <2>1 DEF Holds, Writes
  <2> QED BY <1>1, <2>1, <2>2
<1>5. CASE rd # RZ
  <2>1. rd \in 0..(NRegs - 1)
    BY <1>5 DEF OutOfBounds, Registers, RZ
  <2>2. f = EmitPlain(sum, 62, <<regs[rd], offset.nextId>>) /\ regs[rd] \in Ids(sum, R)
    BY <1>1, <1>5, <2>1 DEF StoreReg, Placed
  <2>3. /\ Moves(sum, f, R)
        /\ \A start : RunState(After(sum, start)) =>
             Puts(After(sum, start), After(f, start), regs[rd], After(sum, start).val[offset.nextId])
    BY <1>1, <2>2, StoreGives
  <2>4. Moves(e, f, R)
    BY <1>1, <2>3, MovesTransitive
  <2>5. ASSUME NEW start, RunState(After(e, start))
        PROVE  Writes(After(e, start), After(f, start), rd, V(start))
    <3> DEFINE s == After(e, start)
               t == After(sum, start)
               u == After(f, start)
               v == V(start)
    <3>1. Holds(s, t, offset.nextId, v)
      BY <1>2, <2>5
    <3>2. Puts(t, u, regs[rd], t.val[offset.nextId])
      BY <2>3, <3>1 DEF Holds
    <3> HIDE DEF s, t, u, v
    <3>3. RunState(u) /\ u.dead = s.dead
      BY <3>1, <3>2 DEF Holds, Puts
    <3>4. s.dead => u.mem = s.mem
      BY <3>1, <3>2 DEF Holds, Puts
    <3>5. ~s.dead => t.val[offset.nextId] = v /\ t.mem = s.mem /\ ~t.dead
      BY <3>1 DEF Holds
    <3>6. ~s.dead => u.mem = [s.mem EXCEPT ![regs[rd]] = v]
      BY <3>2, <3>5, Zenon DEF Puts
    <3>7. Writes(s, u, rd, v)
      BY <1>5, <3>3, <3>4, <3>6 DEF Writes
    <3> QED BY <3>7 DEF s, u, v
  <2> QED BY <2>4, <2>5
<1> QED BY <1>4, <1>5

\* Reducing a summand does not change a sum that is reduced.
LEMMA ModAdd ==
    ASSUME NEW x \in Nat, NEW y \in Nat, NEW m \in Nat \ {0}
    PROVE  (x + (y % m)) % m = (x + y) % m
<1>1. PICK q \in Nat, r \in 0..(m - 1) : y = q * m + r /\ y % m = r
  <2>1. y = (y \div m) * m + (y % m) /\ y \div m \in Nat /\ y % m \in 0..(m - 1)
    BY Z3
  <2> QED BY <2>1
<1>2. PICK p \in Nat, z \in 0..(m - 1) : x + r = p * m + z /\ (x + r) % m = z
  <2> DEFINE w == x + r
  <2>0. w \in Nat
    OBVIOUS
  <2> HIDE DEF w
  <2>1. w = (w \div m) * m + (w % m) /\ w \div m \in Nat /\ w % m \in 0..(m - 1)
    BY <2>0, Z3
  <2> QED BY <2>1 DEF w
<1>3. x + y = (q + p) * m + z /\ q + p \in Nat
  <2>1. (q + p) * m = q * m + p * m
    BY Z3
  <2>2. q * m \in Int /\ p * m \in Int
    OBVIOUS
  <2> DEFINE a == q * m
             b == p * m
  <2>3. y = a + r /\ x + r = b + z /\ (q + p) * m = a + b /\ a \in Int /\ b \in Int
    BY <1>1, <1>2, <2>1, <2>2
  <2> HIDE DEF a, b
  <2> QED BY <2>3
<1>4. ((q + p) * m + z) % m = z
  <2> DEFINE k == q + p
  <2>1. k \in Nat
    OBVIOUS
  <2> HIDE DEF k
  <2>2. (k * m + z) % m = z
    BY <2>1, Divides
  <2> QED BY <2>2 DEF k
<1> QED BY <1>1, <1>2, <1>3, <1>4

---------------------------------------------------------------------------
\* The first word of an instruction is no magic number

\* No first word with an opcode of the emitter is the magic number, whose lower half
\* is 515.
LEMMA NoMagic ==
    ASSUME NEW op \in 0..400, NEW n \in Nat
    PROVE  InstWord(op, n) # Magic /\ InstWord(op, n) \in Nat
<1> DEFINE k == (n + 1) % WcMod
<1>1. k \in Nat
  OBVIOUS
<1>2. op % OpMod = op
  BY DEF OpMod
<1>3. InstWord(op, n) = k * OpMod + op
  BY <1>2 DEF InstWord
<1> HIDE DEF k
<1>4. k * OpMod + op # Magic /\ k * OpMod + op \in Nat
  BY <1>1 DEF OpMod, Magic
<1> QED BY <1>3, <1>4

\* s begins with w.
Headed(s, w) == s \in Seq(Nat) /\ s # <<>> /\ s[1] = w

\* A list stays headed by its first word when more is appended.
LEMMA HeadedMore ==
    ASSUME NEW s, NEW w, Headed(s, w), NEW t \in Seq(Nat)
    PROVE  Headed(s \o t, w)
<1>1. /\ s \o t \in Seq(Nat) /\ Len(s) # 0 /\ Len(s) \in Nat /\ Len(t) \in Nat
      /\ Len(s \o t) = Len(s) + Len(t)
  BY DEF Headed
<1>2. (s \o t)[1] = s[1]
  BY <1>1 DEF Headed
<1>3. s \o t # <<>>
  BY <1>1
<1> QED BY <1>1, <1>2, <1>3 DEF Headed

\* A list is headed by the first word of the list it begins with.
LEMMA HeadedBy ==
    ASSUME NEW w \in Nat, NEW t \in Seq(Nat)
    PROVE  Headed(<<w>> \o t, w) /\ Headed(<<>> \o (<<w>> \o t), w)
<1>1. Headed(<<w>>, w)
  BY DEF Headed
<1>2. Headed(<<w>> \o t, w)
  BY <1>1, HeadedMore
<1>3. <<>> \o (<<w>> \o t) = <<w>> \o t
  OBVIOUS
<1> QED BY <1>2, <1>3

\* The scalar types begin with the void type.
LEMMA ScalarsHead == 
    ASSUME NEW n \in Nat PROVE Headed(ScalarTypes(n), InstWord(19, 1))
<1> DEFINE w == InstWord(19, 1)
           a == InstWord(21, 3)
           b == InstWord(22, 2)
           c == InstWord(20, 1)
<1>1. w \in Nat /\ a \in Nat /\ b \in Nat /\ c \in Nat
  BY NoMagic
<1> DEFINE x0 == <<w, n>>
           x1 == <<a, n + 1, 8, 0>>
           x2 == <<a, n + 2, 16, 0>>
           x3 == <<a, n + 3, 32, 0>>
           x4 == <<a, n + 4, 64, 0>>
           x5 == <<a, n + 5, 8, 1>>
           x6 == <<a, n + 6, 16, 1>>
           x7 == <<a, n + 7, 32, 1>>
           x8 == <<a, n + 8, 64, 1>>
           x9 == <<b, n + 9, 16>>
           x10 == <<b, n + 10, 32>>
           x11 == <<b, n + 11, 64>>
           x12 == <<c, n + 12>>
<1>2. ScalarTypes(n) = x0 \o x1 \o x2 \o x3 \o x4 \o x5 \o x6 \o x7 \o x8 \o x9 \o x10 \o x11 \o x12
  BY DEF ScalarTypes
<1> HIDE DEF w, a, b, c
<1>3. Headed(x0, w)
  BY <1>1 DEF Headed
<1>4. /\ x1 \in Seq(Nat) /\ x2 \in Seq(Nat) /\ x3 \in Seq(Nat) /\ x4 \in Seq(Nat)
      /\ x5 \in Seq(Nat) /\ x6 \in Seq(Nat) /\ x7 \in Seq(Nat) /\ x8 \in Seq(Nat)
      /\ x9 \in Seq(Nat) /\ x10 \in Seq(Nat) /\ x11 \in Seq(Nat) /\ x12 \in Seq(Nat)
  BY <1>1
<1> HIDE DEF x0, x1, x2, x3, x4, x5, x6, x7, x8, x9, x10, x11, x12
<1> DEFINE s1 == x0 \o x1
           s2 == s1 \o x2
           s3 == s2 \o x3
           s4 == s3 \o x4
           s5 == s4 \o x5
           s6 == s5 \o x6
           s7 == s6 \o x7
           s8 == s7 \o x8
           s9 == s8 \o x9
           s10 == s9 \o x10
           s11 == s10 \o x11
           s12 == s11 \o x12
<1>5. Headed(s1, w)
  BY <1>4, <1>3, HeadedMore
<1> HIDE DEF s1
<1>6. Headed(s2, w)
  BY <1>4, <1>5, HeadedMore
<1> HIDE DEF s2
<1>7. Headed(s3, w)
  BY <1>4, <1>6, HeadedMore
<1> HIDE DEF s3
<1>8. Headed(s4, w)
  BY <1>4, <1>7, HeadedMore
<1> HIDE DEF s4
<1>9. Headed(s5, w)
  BY <1>4, <1>8, HeadedMore
<1> HIDE DEF s5
<1>10. Headed(s6, w)
  BY <1>4, <1>9, HeadedMore
<1> HIDE DEF s6
<1>11. Headed(s7, w)
  BY <1>4, <1>10, HeadedMore
<1> HIDE DEF s7
<1>12. Headed(s8, w)
  BY <1>4, <1>11, HeadedMore
<1> HIDE DEF s8
<1>13. Headed(s9, w)
  BY <1>4, <1>12, HeadedMore
<1> HIDE DEF s9
<1>14. Headed(s10, w)
  BY <1>4, <1>13, HeadedMore
<1> HIDE DEF s10
<1>15. Headed(s11, w)
  BY <1>4, <1>14, HeadedMore
<1> HIDE DEF s11
<1>16. Headed(s12, w)
  BY <1>4, <1>15, HeadedMore
<1> HIDE DEF s12
<1>17. Headed(ScalarTypes(n), w)
  BY <1>2, <1>16, Zenon DEF s1, s2, s3, s4, s5, s6, s7, s8, s9, s10, s11, s12
<1> QED BY <1>17 DEF w

\* The words init adds, of any kind, to a module that has none.
LEMMA InitHead ==
    ASSUME NEW n \in Nat \ {0}
    PROVE  InitWords(n) \in Seq(Nat) /\ Headed(<<>> \o InitWords(n), InstWord(19, 1))
<1> DEFINE A == ScalarTypes(n)
           B == VectorTypes(n + 13)
           C == <<InstWord(32, 3), n + 49, 7, n + 3>>
           D == RegisterVariables(n + 50, n + 49)
           w == InstWord(19, 1)
<1>1. Headed(A, w)
  BY ScalarsHead
<1>2. B \in Seq(Nat) /\ D \in Seq(Nat)
  <2>1. n + 13 \in Nat \ {0} /\ n + 50 \in Nat \ {0} /\ n + 49 \in 1..((n + 50) - 1) /\ n + 49 \in Nat
    OBVIOUS
  <2> DEFINE m == n + 13
             k == n + 50
             p == n + 49
  <2>2. m \in Nat \ {0} /\ k \in Nat \ {0} /\ p \in (1..(k - 1)) \ {} /\ p \in Nat
    BY <2>1
  <2> HIDE DEF m, k, p
  <2>3. {} \in SUBSET (1..(m - 1)) /\ {} \in SUBSET (1..(k - 1))
    OBVIOUS
  <2>4. \A i \in Nat : VectorRows(m)[i] \in Seq(Nat) /\ Len(VectorRows(m)[i]) = 4
    BY <2>2, <2>3, RowsDeclare, ZenonT(30) DEF Declares, Whole
  <2>5. \A i \in Nat : VariableRows(k, p)[i] \in Seq(Nat) /\ Len(VariableRows(k, p)[i]) = 4
    <3> TAKE i \in Nat
    <3>1. \A q \in (1..(k - 1)) \ {} : Declares(VariableRows(k, q)[i], k + i, {})
                                      /\ Len(VariableRows(k, q)[i]) = 4
      BY <2>2, <2>3, RowsDeclare
    <3>2. Declares(VariableRows(k, p)[i], k + i, {}) /\ Len(VariableRows(k, p)[i]) = 4
      BY <2>2, <3>1
    <3> QED BY <3>2 DEF Declares, Whole
  <2>6. VectorTypes(m) = Block(VectorRows(m), 36) /\ RegisterVariables(k, p) = Block(VariableRows(k, p), NRegs)
    BY <2>2, RowsAreBlocks
  <2>7. Block(VectorRows(m), 36) \in Seq(Nat)
    <3>1. \A i \in 0..36 : VectorRows(m)[i] \in Seq(Nat) /\ Len(VectorRows(m)[i]) = 4
      BY <2>4
    <3> QED BY <3>1, BlockMore
  <2>8. Block(VariableRows(k, p), NRegs) \in Seq(Nat)
    <3>1. \A i \in 0..NRegs : VariableRows(k, p)[i] \in Seq(Nat) /\ Len(VariableRows(k, p)[i]) = 4
      BY <2>5
    <3> QED BY <3>1, BlockMore
  <2> QED BY <2>6, <2>7, <2>8 DEF m, k, p
<1>3. C \in Seq(Nat)
  <2>1. InstWord(32, 3) \in Nat
    BY NoMagic
  <2> QED BY <2>1
<1>4. InitWords(n) = ((A \o B) \o C) \o D
  BY DEF InitWords
<1> HIDE DEF A, B, C, D, w
<1>5. Headed(A \o B, w)
  BY <1>1, <1>2, HeadedMore
<1>6. Headed((A \o B) \o C, w)
  BY <1>3, <1>5, HeadedMore
<1>7. Headed(((A \o B) \o C) \o D, w)
  BY <1>2, <1>6, HeadedMore
<1>8. \A s \in Seq(Nat) : <<>> \o s = s
  OBVIOUS
<1> QED BY <1>4, <1>7, <1>8 DEF Headed, w

\* An emit method on a module that has no words.
LEMMA BuildHead ==
    ASSUME NEW e \in Emitter, e.words = <<>>, NEW m \in Methods, NEW ty \in Nat,
           NEW ops \in Seq(Nat)
    PROVE  Emit(e, m, ty, ops).words # <<>> /\ Emit(e, m, ty, ops).words[1] # Magic
<1>1. Regular(m) /\ m.form \in {"plain", "result", "typed"} /\ m.op \in 0..400
  BY MethodsRegular, MethodsDescribed DEF Regular, Described
<1>2. e.nextId \in Nat
  BY DEF Emitter
<1>3. ASSUME NEW f, f.words = <<>>, NEW tail \in Seq(Nat)
      PROVE  f.words \o (<<InstWord(m.op, Len(tail))>> \o tail) # <<>>
             /\ (f.words \o (<<InstWord(m.op, Len(tail))>> \o tail))[1] # Magic
  <2>1. InstWord(m.op, Len(tail)) # Magic /\ InstWord(m.op, Len(tail)) \in Nat
    <3>1. Len(tail) \in Nat
      OBVIOUS
    <3> QED BY <1>1, <3>1, NoMagic
  <2>2. Headed(<<>> \o (<<InstWord(m.op, Len(tail))>> \o tail), InstWord(m.op, Len(tail)))
    BY <2>1, HeadedBy
  <2> QED BY <1>3, <2>1, <2>2 DEF Headed
<1>4. AllocId(e).words = <<>>
  BY WithWords
<1>5. \A ws : [e EXCEPT !.words = ws].words = ws /\ [AllocId(e) EXCEPT !.words = ws].words = ws
  BY WithWords
<1>6. CASE m.form = "plain"
  <2>1. Emit(e, m, ty, ops).words = e.words \o (<<InstWord(m.op, Len(ops))>> \o ops)
    BY <1>5, <1>6 DEF Emit, EmitPlain, Inst
  <2> QED BY <1>3, <2>1
<1>7. CASE m.form = "result"
  <2> DEFINE tail == <<e.nextId>> \o ops
  <2>1. Emit(e, m, ty, ops).words = AllocId(e).words \o (<<InstWord(m.op, Len(tail))>> \o tail)
    BY <1>5, <1>7 DEF Emit, EmitResult, Inst
  <2>2. tail \in Seq(Nat)
    BY <1>2
  <2> HIDE DEF tail
  <2> QED BY <1>3, <1>4, <2>1, <2>2
<1>8. CASE m.form = "typed"
  <2> DEFINE tail == <<ty, e.nextId>> \o ops
  <2>1. Emit(e, m, ty, ops).words = AllocId(e).words \o (<<InstWord(m.op, Len(tail))>> \o tail)
    BY <1>5, <1>8 DEF Emit, EmitTyped, Inst
  <2>2. tail \in Seq(Nat)
    BY <1>2
  <2> HIDE DEF tail
  <2> QED BY <1>3, <1>4, <2>1, <2>2
<1> QED BY <1>1, <1>6, <1>7, <1>8

\* There is a first word, and it is not the magic number.
Begun(ws) == ws # <<>> /\ ws[1] # Magic
Codes == 0..400

\* The first word of the first instruction.
LEMMA FirstWord ==
    ASSUME NEW op \in Codes, NEW tail \in Seq(Nat)
    PROVE  Begun(<<>> \o (<<InstWord(op, Len(tail))>> \o tail))
<1>1. Len(tail) \in Nat
  OBVIOUS
<1>2. InstWord(op, Len(tail)) # Magic /\ InstWord(op, Len(tail)) \in Nat
  BY <1>1, NoMagic DEF Codes
<1>3. Headed(<<>> \o (<<InstWord(op, Len(tail))>> \o tail), InstWord(op, Len(tail)))
  BY <1>2, HeadedBy
<1> QED BY <1>2, <1>3, Zenon DEF Headed, Begun

\* An instruction with a type and one without a result, in a module that has no words.
LEMMA EmitHead ==
    ASSUME NEW e \in Emitter, e.words = <<>>, NEW op \in Codes, NEW ty \in Nat,
           NEW operands \in Seq(Nat)
    PROVE  /\ Begun(EmitTyped(e, op, ty, operands).words)
           /\ Begun(EmitPlain(e, op, operands).words)
<1>1. e.nextId \in Nat
  BY DEF Emitter
<1>2. \A ws : [e EXCEPT !.words = ws].words = ws /\ [AllocId(e) EXCEPT !.words = ws].words = ws
  BY WithWords
<1>3. AllocId(e).words = <<>>
  BY WithWords
<1>4. EmitPlain(e, op, operands).words = e.words \o (<<InstWord(op, Len(operands))>> \o operands)
  BY <1>2 DEF EmitPlain, Inst
<1> DEFINE tail == <<ty, e.nextId>> \o operands
<1>5. EmitTyped(e, op, ty, operands).words = AllocId(e).words \o (<<InstWord(op, Len(tail))>> \o tail)
  BY <1>2 DEF EmitTyped, Inst
<1>6. tail \in Seq(Nat)
  BY <1>1
<1> HIDE DEF tail
<1>7. Begun(<<>> \o (<<InstWord(op, Len(operands))>> \o operands))
  BY FirstWord, Zenon
<1>8. Begun(<<>> \o (<<InstWord(op, Len(tail))>> \o tail))
  BY <1>6, FirstWord, Zenon
<1> QED BY <1>3, <1>4, <1>5, <1>7, <1>8, Zenon

\* The same of kill and nop.
LEMMA BareHead ==
    ASSUME NEW e \in Emitter, e.words = <<>>, NEW op \in Codes
    PROVE  Begun(EmitPlain(e, op, <<>>).words)
<1>1. <<>> \in Seq(Nat) /\ 0 \in Nat
  OBVIOUS
<1> QED BY <1>1, EmitHead, Zenon

\* The same of a load.
LEMMA LoadHead ==
    ASSUME TypeOK, NEW reg \in Registers, ~OutOfBounds(reg), em.words = <<>>
    PROVE  Begun(LoadReg(em, reg).words)
<1>1. em \in Emitter /\ u32 \in Nat
  BY DEF TypeOK
<1>2. \A v \in Nat : <<v>> \in Seq(Nat)
  OBVIOUS
<1>3. 43 \in Codes /\ 61 \in Codes /\ 0 \in Nat
  BY DEF Codes
<1>4. \A v \in Nat : /\ Begun(EmitTyped(em, 43, u32, <<v>>).words)
                     /\ Begun(EmitTyped(em, 61, u32, <<v>>).words)
  BY <1>1, <1>2, <1>3, EmitHead
<1>5. CASE reg = RZ
  BY <1>3, <1>4, <1>5, Zenon DEF LoadReg
<1>6. CASE reg # RZ
  <2>1. reg \in 0..(NRegs - 1)
    BY <1>6 DEF OutOfBounds, Registers, RZ
  <2>2. regs[reg] \in Nat
    BY <2>1 DEF TypeOK
  <2> QED BY <1>4, <1>6, <2>2, Zenon DEF LoadReg
<1> QED BY <1>5, <1>6

---------------------------------------------------------------------------
\* What the history says of the module

Call == [at : Nat, method : Methods, args : Seq(Nat), text : Seq(Octet), list : Seq(Nat)]
Guests == [file : [0..NRegs -> Nat], dead : BOOLEAN, predicated : BOOLEAN]
NewGuest == [file |-> [r \in 0..NRegs |-> (r + 1) % RegMod], dead |-> FALSE, predicated |-> FALSE]

ReservedTyped == reserved \subseteq 1..(em.nextId - 1)
AskedTyped == asked \in Seq(Call)
GuestTyped == guest \in Guests /\ (~ready /\ ~early => guest = NewGuest)

\* There are as many words as there were at the last finalize, or more.
FinalizedThere == finalizedAt <= Len(em.words)

\* The bound is in the header, if there is one.
HeaderPlaced == (headers = 0 => em.boundIdx = 0) /\ (headers = 1 => em.boundIdx >= 3)

\* As long as there is no word, nothing was called but alloc_id, finalize, and translate
\* with nothing to emit.
NothingYet ==
    em.words = <<>> => headers = 0 /\ asked = <<>> /\ ~ready /\ reserved = 1..(em.nextId - 1)

\* The module begins with the magic number only if it begins with a header.
NotMagic ==
    (headers = 0 \/ (headers = 1 /\ em.boundIdx # 3)) /\ em.words # <<>> /\ em.nextId < Magic =>
        em.words[1] # Magic

\* The ids the decoder uses are those of instructions.
RegistersTaken == ready => Placed(em, reserved)

Shape ==
    /\ ReservedTyped /\ AskedTyped /\ GuestTyped
    /\ HeaderPlaced /\ NothingYet /\ NotMagic /\ RegistersTaken /\ FinalizedThere

\* The guest at first has its type.
LEMMA InitGuest == NewGuest \in Guests
<1>1. \A r \in 0..NRegs : (r + 1) % RegMod \in Nat
  OBVIOUS
<1> QED BY <1>1 DEF NewGuest, Guests

\* The history is empty at first and says nothing false.
LEMMA InitShaped == Init => Shape
<1> SUFFICES ASSUME Init PROVE Shape
  OBVIOUS
<1>1. em.words = <<>> /\ em.nextId = 1 /\ em.boundIdx = 0
  BY DEF Init, New
<1>2. reserved = {} /\ asked = <<>> /\ ~ready /\ headers = 0 /\ guest = NewGuest /\ finalizedAt = 0
  BY DEF Init, NewGuest
<1>3. ReservedTyped /\ NothingYet
  BY <1>1, <1>2 DEF ReservedTyped, NothingYet
<1>4. AskedTyped
  BY <1>2 DEF AskedTyped
<1>5. GuestTyped
  BY <1>2, InitGuest DEF GuestTyped
<1>6. HeaderPlaced /\ NotMagic /\ RegistersTaken /\ FinalizedThere
  BY <1>1, <1>2 DEF HeaderPlaced, NotMagic, RegistersTaken, FinalizedThere
<1> QED BY <1>3, <1>4, <1>5, <1>6 DEF Shape

\* A module has grown from itself, by nothing.
LEMMA GrowsSelf == ASSUME NEW e \in Emitter PROVE Grows(e, e)
BY DEF Grows, Emitter

\* A call that adds words, or none, at the end.
LEMMA HeadStays ==
    ASSUME TypeOK, HeaderPlaced, NotMagic, Grows(em, em'), headers' = headers,
           em.words = <<>> /\ em'.words # <<>> => em'.words[1] # Magic
    PROVE  HeaderPlaced' /\ NotMagic'
<1>1. em \in Emitter /\ em' \in Emitter /\ em'.boundIdx = em.boundIdx /\ em.nextId <= em'.nextId
  BY DEF TypeOK, Grows
<1>2. HeaderPlaced'
  BY <1>1 DEF HeaderPlaced
<1>3. em.words # <<>> => em'.words[1] = em.words[1]
  <2>1. em.words # <<>> => 1 \in 1..Len(em.words)
    BY <1>1 DEF Emitter
  <2> QED BY <2>1 DEF Grows
<1>4. em'.nextId < Magic => em.nextId < Magic
  <2>1. em.nextId \in Nat /\ em'.nextId \in Nat
    BY <1>1 DEF Emitter
  <2> QED BY <1>1, <2>1 DEF Magic
<1>5. NotMagic'
  BY <1>1, <1>3, <1>4 DEF NotMagic
<1> QED BY <1>2, <1>5

\* A module that has words keeps having some.
LEMMA WordsStayThere ==
    ASSUME NEW e \in Emitter, NEW f, Grows(e, f), e.words # <<>> PROVE f.words # <<>>
<1>1. e.words \in Seq(Nat) /\ f.words \in Seq(Nat) /\ Len(e.words) <= Len(f.words)
  BY DEF Grows, Emitter
<1>2. Len(e.words) > 0
  BY <1>1
<1> QED BY <1>1, <1>2

\* Ids stay taken.
LEMMA PlacesStay ==
    ASSUME TypeOK, ReservedTyped, NEW f \in Emitter, em.nextId <= f.nextId, Placed(em, reserved)
    PROVE  /\ Placed(f, reserved)
           /\ reserved = {} /\ em.nextId < f.nextId => Placed(f, {em.nextId})
<1>1. em.nextId \in Nat \ {0} /\ f.nextId \in Nat \ {0}
  BY DEF TypeOK, Emitter
<1> DEFINE n == em.nextId
           m == f.nextId
<1>2. n \in Nat \ {0} /\ m \in Nat \ {0} /\ n <= m
  BY <1>1
<1>3. Ids(em, reserved) = (1..(n - 1)) \ reserved /\ \A R : Ids(f, R) = (1..(m - 1)) \ R
  BY DEF Ids
<1> HIDE DEF n, m
<1>4. Ids(em, reserved) \subseteq Ids(f, reserved)
  BY <1>2, <1>3
<1>5. Ids(em, reserved) \subseteq Ids(f, {n})
  BY <1>2, <1>3
<1> QED BY <1>4, <1>5 DEF Placed, n

\* The words there were at the last finalize stay there.
LEMMA MarkStays ==
    ASSUME TypeOK, FinalizedThere, em' \in Emitter, Len(em.words) <= Len(em'.words),
           finalizedAt' = finalizedAt
    PROVE  FinalizedThere'
BY DEF TypeOK, Emitter, FinalizedThere

---------------------------------------------------------------------------
\* Each call keeps the shape

\* If nothing it speaks of changes, the shape stays.
LEMMA SameShaped ==
    ASSUME Shape, em' = em, headers' = headers, reserved' = reserved, asked' = asked,
           guest' = guest, early' = early, finalizedAt' = finalizedAt,
           ready' = ready, u32' = u32, regs' = regs
    PROVE  Shape'
BY DEF Shape, ReservedTyped, AskedTyped, GuestTyped, HeaderPlaced, NothingYet, NotMagic,
       RegistersTaken, Placed, Ids, FinalizedThere

\* emit_header keeps the shape.
LEMMA StartShaped == IInv /\ Shape /\ Start => Shape'
<1> SUFFICES ASSUME IInv, Shape, Start PROVE Shape'
  OBVIOUS
<1>1. TypeOK /\ em \in Emitter /\ headers \in Nat
  BY DEF IInv, TypeOK
<1>2. /\ em' = EmitHeader(em) /\ headers' = headers + 1
      /\ ready' = ready /\ u32' = u32 /\ regs' = regs /\ early' = early
      /\ reserved' = reserved /\ asked' = asked /\ guest' = guest /\ finalizedAt' = finalizedAt
  BY DEF Start, decoder
<1> DEFINE w == em.words \o <<Magic, Version, 0, 0, 0>>
           b == Len(em.words) + 3
<1>3. em' = [em EXCEPT !.words = w, !.boundIdx = b]
  BY <1>2 DEF EmitHeader
<1>4. /\ w \in Seq(Nat) /\ Len(w) = Len(em.words) + 5 /\ b \in Nat /\ b >= 3 /\ Len(em.words) \in Nat
      /\ em.words # <<>> => w[1] = em.words[1] /\ b # 3
  BY <1>1, SMTT(30) DEF Emitter, Magic, Version
<1> HIDE DEF w, b
<1>5. em' \in Emitter /\ em'.words = w /\ em'.boundIdx = b /\ em'.nextId = em.nextId
  BY <1>1, <1>3, <1>4 DEF Emitter
<1>6. w # <<>>
  BY <1>4
<1>7. ReservedTyped' /\ AskedTyped' /\ GuestTyped'
  BY <1>2, <1>5 DEF Shape, ReservedTyped, AskedTyped, GuestTyped
<1>8. HeaderPlaced' /\ NothingYet'
  BY <1>1, <1>2, <1>4, <1>5, <1>6 DEF HeaderPlaced, NothingYet
<1>9. NotMagic'
  <2> SUFFICES ASSUME headers' = 0 \/ (headers' = 1 /\ em'.boundIdx # 3),
                      em'.nextId < Magic
               PROVE  em'.words[1] # Magic
    BY DEF NotMagic
  <2>1. headers = 0 /\ b # 3
    BY <1>1, <1>2, <1>5
  <2>2. em.words # <<>>
    <3>1. em.words = <<>> => b = 3
      BY DEF b
    <3> QED BY <2>1, <3>1
  <2>5. em.nextId < Magic
    BY <1>5
  <2>3. em.words[1] # Magic
    BY <2>1, <2>2, <2>5 DEF Shape, NotMagic
  <2>4. w[1] = em.words[1]
    BY <1>4, <2>2
  <2> QED BY <1>5, <2>3, <2>4
<1>10. RegistersTaken'
  <2>1. ready => Placed(em', reserved)
    BY <1>1, <1>5, PlacesStay DEF Shape, RegistersTaken, Emitter
  <2> QED BY <1>2, <2>1 DEF RegistersTaken, Placed
<1>11. FinalizedThere'
  BY <1>1, <1>2, <1>4, <1>5, MarkStays DEF Shape
<1> QED BY <1>7, <1>8, <1>9, <1>10, <1>11 DEF Shape

\* alloc_id keeps the shape.
LEMMA TakeShaped == IInv /\ Shape /\ Take => Shape'
<1> SUFFICES ASSUME IInv, Shape, Take PROVE Shape'
  OBVIOUS
<1>1. TypeOK /\ em \in Emitter /\ em.nextId \in Nat \ {0}
  BY DEF IInv, TypeOK, Emitter
<1>2. /\ em' = AllocId(em) /\ headers' = headers /\ reserved = {} /\ reserved' = {em.nextId}
      /\ ready' = ready /\ u32' = u32 /\ regs' = regs /\ early' = early
      /\ asked' = asked /\ guest' = guest /\ finalizedAt' = finalizedAt
  BY DEF Take, decoder
<1>3. Grows(em, em') /\ em' \in Emitter /\ em'.nextId = em.nextId + 1 /\ em'.words = em.words
  BY <1>1, <1>2, AllocGrows, WithWords DEF Grows
<1>4. ReservedTyped' /\ AskedTyped' /\ GuestTyped'
  BY <1>1, <1>2, <1>3 DEF Shape, ReservedTyped, AskedTyped, GuestTyped
<1>5. HeaderPlaced' /\ NotMagic'
  BY <1>1, <1>2, <1>3, HeadStays DEF Shape
<1>6. NothingYet'
  <2> SUFFICES ASSUME em.words = <<>>
               PROVE  headers = 0 /\ asked = <<>> /\ ~ready /\ {em.nextId} = 1..(em'.nextId - 1)
    BY <1>2, <1>3 DEF NothingYet
  <2>1. headers = 0 /\ asked = <<>> /\ ~ready /\ {} = 1..(em.nextId - 1)
    BY <1>2 DEF Shape, NothingYet
  <2>2. em.nextId = 1
    <3> DEFINE n == em.nextId
    <3>1. n \in Nat \ {0} /\ {} = 1..(n - 1)
      BY <1>1, <2>1
    <3> HIDE DEF n
    <3>2. n # 1 => 1 \in 1..(n - 1)
      BY <3>1
    <3> QED BY <3>1, <3>2 DEF n
  <2> QED BY <1>3, <2>1, <2>2
<1>7. RegistersTaken'
  <2>1. em.nextId <= em'.nextId /\ em.nextId < em'.nextId
    BY <1>1, <1>3
  <2>2. ready => Placed(em', {em.nextId})
    BY <1>1, <1>2, <1>3, <2>1, PlacesStay DEF Shape, RegistersTaken
  <2> QED BY <1>2, <2>2 DEF RegistersTaken, Placed
<1>8. FinalizedThere'
  BY <1>1, <1>2, <1>3, MarkStays DEF Shape, Grows
<1> QED BY <1>4, <1>5, <1>6, <1>7, <1>8 DEF Shape

\* An emit method keeps the shape.
LEMMA BuildShaped ==
    ASSUME IInv, Shape, NEW m \in Methods, NEW args \in Arguments(m), NEW text \in Texts(m, Strings),
           NEW list \in Lists(m, WordLists), Build(m, args, text, list)
    PROVE  Shape'
<1>1. TypeOK /\ em \in Emitter /\ em.nextId \in Nat \ {0}
  BY DEF IInv, TypeOK, Emitter
<1> DEFINE ops == Operands(m, args, text, list)
           call == [at |-> Len(em.words) + 1, method |-> m, args |-> args, text |-> text, list |-> list]
<1>u. /\ headers' = headers /\ reserved' = reserved /\ early' = early /\ finalizedAt' = finalizedAt
      /\ ready' = ready /\ u32' = u32 /\ regs' = regs /\ guest' = guest
  BY DEF Build, decoder
<1>v. \/ em' = em /\ asked' = asked
      \/ em' = Emit(em, m, em.nextId, ops) /\ asked' = Append(asked, call)
  BY DEF Build
<1>w. CASE em' = em /\ asked' = asked
  BY <1>u, <1>w, SameShaped
<1>2. SUFFICES ASSUME em' = Emit(em, m, em.nextId, ops), asked' = Append(asked, call)
               PROVE  Shape'
  BY <1>v, <1>w
<1>3. args \in Seq(Nat)
  BY <1>1, ArgumentsTyped
<1>4. ops \in Seq(Nat) /\ text \in Seq(Octet) /\ list \in Seq(Nat)
  BY <1>3, OperandsType
<1>5. Grows(em, em') /\ em' \in Emitter
  BY <1>1, BuildShape, GrowsSelf DEF Quiet, Emission, Grows
<1>6. em.words = <<>> => em'.words # <<>> /\ em'.words[1] # Magic
  <2> HIDE DEF ops
  <2> QED BY <1>1, <1>2, <1>4, BuildHead
<1>7. em'.words # <<>>
  BY <1>1, <1>5, <1>6, WordsStayThere
<1>8. AskedTyped'
  <2>1. call \in Call
    <3>1. Len(em.words) + 1 \in Nat
      BY <1>1 DEF Emitter
    <3> QED BY <1>3, <1>4, <3>1 DEF Call
  <2> HIDE DEF call
  <2>2. Append(asked, call) \in Seq(Call)
    BY <2>1 DEF Shape, AskedTyped
  <2> QED BY <1>2, <2>2 DEF AskedTyped
<1>9. ReservedTyped' /\ GuestTyped'
  <2>1. em.nextId <= em'.nextId /\ em'.nextId \in Nat
    BY <1>5 DEF Grows, Emitter
  <2> QED BY <1>1, <1>u, <2>1 DEF Shape, ReservedTyped, GuestTyped
<1>10. HeaderPlaced' /\ NotMagic' /\ NothingYet'
  BY <1>1, <1>u, <1>5, <1>6, <1>7, HeadStays DEF Shape, NothingYet
<1>11. RegistersTaken'
  <2>1. ready => Placed(em', reserved)
    BY <1>1, <1>5, PlacesStay DEF Shape, RegistersTaken, Grows
  <2> QED BY <1>u, <2>1 DEF RegistersTaken, Placed
<1>12. FinalizedThere'
  BY <1>1, <1>u, <1>5, MarkStays DEF Shape, Grows
<1> QED BY <1>8, <1>9, <1>10, <1>11, <1>12 DEF Shape

\* finalize keeps the shape: it writes over the first word only an id below the magic
\* number.
LEMMA SealShaped == IInv /\ Shape /\ Seal => Shape'
<1> SUFFICES ASSUME IInv, Shape, Seal PROVE Shape'
  OBVIOUS
<1>1. TypeOK /\ em \in Emitter /\ em.nextId \in Nat /\ em.boundIdx \in Nat
  BY DEF IInv, TypeOK, Emitter
<1>2. /\ em' = Finalize(em) /\ headers' = headers /\ reserved' = reserved
      /\ ready' = ready /\ u32' = u32 /\ regs' = regs
      /\ asked' = asked /\ guest' = guest /\ early' = early /\ finalizedAt' = Len(em.words)
  BY DEF Seal, decoder, history
<1>3. /\ em' \in Emitter /\ em'.nextId = em.nextId /\ em'.boundIdx = em.boundIdx
      /\ Len(em'.words) = Len(em.words)
      /\ \A k \in 1..Len(em.words) : em'.words[k] = em.words[k] \/ k = em.boundIdx + 1
      /\ em.boundIdx < Len(em.words) => em'.words[em.boundIdx + 1] = em.nextId
  BY <1>1, <1>2, FinalizeShape
<1>4. em'.words = <<>> <=> em.words = <<>>
  BY <1>1, <1>3 DEF Emitter
<1>5. ReservedTyped' /\ AskedTyped' /\ GuestTyped' /\ HeaderPlaced' /\ NothingYet'
  BY <1>2, <1>3, <1>4
     DEF Shape, ReservedTyped, AskedTyped, GuestTyped, HeaderPlaced, NothingYet
<1>6. NotMagic'
  <2> SUFFICES ASSUME headers = 0 \/ (headers = 1 /\ em.boundIdx # 3),
                      em.words # <<>>, em.nextId < Magic
               PROVE  em'.words[1] # Magic
    BY <1>2, <1>3, <1>4 DEF NotMagic
  <2>1. 1 \in 1..Len(em.words)
    BY <1>1 DEF Emitter
  <2>2. em.words[1] # Magic
    BY DEF Shape, NotMagic
  <2>3. CASE em.boundIdx = 0
    <3>1. em.boundIdx < Len(em.words) /\ em.boundIdx + 1 = 1
      BY <2>1, <2>3
    <3>2. em'.words[1] = em.nextId
      BY <1>3, <3>1
    <3> QED BY <1>1, <3>2 DEF Magic
  <2>4. CASE em.boundIdx # 0
    <3>1. em.boundIdx + 1 # 1
      BY <1>1, <2>4
    <3> QED BY <1>3, <2>1, <2>2, <3>1
  <2> QED BY <2>3, <2>4
<1>7. RegistersTaken'
  <2>1. ready => Placed(em', reserved)
    BY <1>1, <1>3, PlacesStay DEF Shape, RegistersTaken
  <2> QED BY <1>2, <2>1 DEF RegistersTaken, Placed
<1>8. FinalizedThere'
  <2>1. Len(em.words) \in Nat
    BY <1>1 DEF Emitter
  <2> QED BY <1>2, <1>3, <2>1 DEF FinalizedThere
<1> QED BY <1>5, <1>6, <1>7, <1>8 DEF Shape

\* What init does, with the emitter as a record.
LEMMA InitStep ==
    ASSUME TypeOK, InitDecoder
    PROVE  /\ em' = [words |-> em.words \o InitWords(em.nextId), nextId |-> em.nextId + 50 + NRegs,
                     boundIdx |-> em.boundIdx]
           /\ em'.words = em.words \o InitWords(em.nextId)
           /\ em'.nextId = em.nextId + 50 + NRegs /\ em'.boundIdx = em.boundIdx
           /\ ready' = TRUE /\ renewed' = (renewed \/ ready) /\ u32' = em.nextId + 3
           /\ regs' = [r \in 0..(NRegs - 1) |-> em.nextId + 50 + r]
           /\ headers' = headers /\ reserved' = reserved /\ asked' = asked /\ guest' = guest
           /\ early' = early /\ finalizedAt' = finalizedAt
<1>1. em \in Emitter
  BY DEF TypeOK
<1> DEFINE n == em.nextId
           ws == em.words \o InitWords(n)
<1>2. em' = [em EXCEPT !.words = ws, !.nextId = n + 50 + NRegs]
  BY DEF InitDecoder, InitWords
<1> HIDE DEF ws
<1>3. /\ em' = [words |-> ws, nextId |-> n + 50 + NRegs, boundIdx |-> em.boundIdx]
  BY <1>1, <1>2 DEF Emitter
<1>4. em'.words = ws /\ em'.nextId = n + 50 + NRegs /\ em'.boundIdx = em.boundIdx
  BY <1>3
<1>5. /\ reserved' = reserved /\ asked' = asked /\ guest' = guest /\ headers' = headers
      /\ early' = early /\ finalizedAt' = finalizedAt /\ renewed' = (renewed \/ ready)
  BY DEF InitDecoder, history
<1>6. ready' = TRUE /\ u32' = n + 3 /\ regs' = [r \in 0..(NRegs - 1) |-> n + 50 + r]
  BY InitShape
<1> QED BY <1>3, <1>4, <1>5, <1>6 DEF ws

\* init keeps the shape.
LEMMA DecoderShaped == IInv /\ Shape /\ InitDecoder => Shape'
<1> SUFFICES ASSUME IInv, Shape, InitDecoder PROVE Shape'
  OBVIOUS
<1>1. TypeOK /\ em \in Emitter /\ em.nextId \in Nat \ {0}
  BY DEF IInv, TypeOK, Emitter
<1> DEFINE n == em.nextId
           ws == InitWords(n)
<1>2. /\ em'.words = em.words \o ws /\ em'.nextId = n + 50 + NRegs
      /\ ready' = TRUE /\ u32' = n + 3
      /\ regs' = [r \in 0..(NRegs - 1) |-> n + 50 + r]
      /\ headers' = headers /\ reserved' = reserved /\ asked' = asked /\ guest' = guest
      /\ early' = early /\ finalizedAt' = finalizedAt
  BY <1>1, InitStep
<1>3. Grows(em, em') /\ em' \in Emitter
  BY <1>1, InitShape DEF Emission, Grows
<1>4. ws \in Seq(Nat) /\ Headed(<<>> \o ws, InstWord(19, 1)) /\ InstWord(19, 1) # Magic
  <2>1. n \in Nat \ {0} /\ 19 \in 0..400 /\ 1 \in Nat
    BY <1>1
  <2>2. InstWord(19, 1) # Magic
    BY <2>1, NoMagic
  <2> HIDE DEF n
  <2> QED BY <2>1, <2>2, InitHead
<1>n. n \in Nat \ {0}
  BY <1>1
<1> HIDE DEF ws
<1>5. em.words = <<>> => em'.words # <<>> /\ em'.words[1] # Magic
  BY <1>2, <1>4 DEF Headed
<1>6. em'.words # <<>>
  BY <1>1, <1>3, <1>5, WordsStayThere
<1>7. ReservedTyped' /\ AskedTyped' /\ GuestTyped'
  <2>1. n <= em'.nextId /\ em'.nextId \in Nat
    BY <1>3 DEF Grows, Emitter
  <2>2. reserved \subseteq 1..(n - 1)
    BY DEF Shape, ReservedTyped
  <2> HIDE DEF n
  <2>3. reserved \subseteq 1..(em'.nextId - 1)
    BY <1>n, <2>1, <2>2
  <2> QED BY <1>2, <2>3 DEF Shape, ReservedTyped, AskedTyped, GuestTyped
<1>8. HeaderPlaced' /\ NotMagic' /\ NothingYet'
  BY <1>1, <1>2, <1>3, <1>5, <1>6, HeadStays DEF Shape, NothingYet
<1>9. RegistersTaken'
  <2>1. reserved \subseteq 1..(n - 1)
    BY DEF Shape, ReservedTyped
  <2>2. Ids(em', reserved) = (1..((n + 50 + NRegs) - 1)) \ reserved
    BY <1>2 DEF Ids
  <2>3. \A r \in 0..(NRegs - 1) : regs'[r] = n + 50 + r
    BY <1>2
  <2> HIDE DEF n
  <2>4. n + 3 \in Ids(em', reserved)
    BY <1>n, <2>1, <2>2
  <2>5. \A r \in 0..(NRegs - 1) : n + 50 + r \in Ids(em', reserved)
    BY <1>n, <2>1, <2>2
  <2> QED BY <1>2, <2>3, <2>4, <2>5 DEF RegistersTaken, Placed
<1>10. FinalizedThere'
  BY <1>1, <1>2, <1>3, MarkStays DEF Shape, Grows
<1> QED BY <1>7, <1>8, <1>9, <1>10 DEF Shape

---------------------------------------------------------------------------
\* translate

\* The guest keeps its type.
LEMMA GuestType ==
    ASSUME guest \in Guests, NEW i \in Instruction PROVE GuestRuns(i) \in Guests
<1>1. CASE guest.dead \/ ~i.pg
  BY <1>1 DEF GuestRuns
<1>2. CASE ~(guest.dead \/ ~i.pg)
  <2>1. CASE i.mn = "al2p" /\ i.rd # RZ
    <3> DEFINE v == (Read(guest.file, i.ra) + i.off) % RegMod
    <3>1. i.ra \in Registers /\ i.rd \in 0..NRegs /\ i.off \in Nat
      BY <2>1 DEF Instruction, Registers, RZ
    <3>2. Read(guest.file, i.ra) \in Nat
      BY <3>1 DEF Read, Registers, RZ, Guests
    <3>3. v \in Nat
      BY <3>1, <3>2
    <3>4. GuestRuns(i) = [guest EXCEPT !.file[i.rd] = v]
      BY <1>2, <2>1 DEF GuestRuns
    <3> HIDE DEF v
    <3>5. [guest.file EXCEPT ![i.rd] = v] \in [0..NRegs -> Nat]
      BY <3>1, <3>3 DEF Guests
    <3> DEFINE file == [guest.file EXCEPT ![i.rd] = v]
    <3>6. GuestRuns(i) = [guest EXCEPT !.file = file]
      BY <3>4
    <3> HIDE DEF file
    <3>7. file \in [0..NRegs -> Nat]
      BY <3>5 DEF file
    <3> QED BY <3>6, <3>7 DEF Guests
  <2>2. CASE ~(i.mn = "al2p" /\ i.rd # RZ) /\ i.mn = "kill"
    <3>1. GuestRuns(i) = [guest EXCEPT !.dead = TRUE]
      BY <1>2, <2>2 DEF GuestRuns
    <3> QED BY <3>1 DEF Guests
  <2>3. CASE ~(i.mn = "al2p" /\ i.rd # RZ) /\ i.mn # "kill"
    <3>1. GuestRuns(i) = guest
      BY <1>2, <2>3 DEF GuestRuns
    <3> QED BY <3>1
  <2> QED BY <2>1, <2>2, <2>3
<1> QED BY <1>1, <1>2

\* After a translation that came back the guest has run the instruction.
LEMMA ReturnGuest ==
    ASSUME guest \in Guests, NEW i \in Instruction, Return(i)
    PROVE  /\ guest' \in Guests /\ guest'.file = GuestRuns(i).file /\ guest'.dead = GuestRuns(i).dead
           /\ guest'.predicated = (GuestRuns(i).predicated \/ ~i.pg)
<1>1. guest' = [GuestRuns(i) EXCEPT !.predicated = @ \/ ~i.pg]
  BY DEF Return
<1>2. GuestRuns(i) \in Guests /\ i.pg \in BOOLEAN
  BY GuestType DEF Instruction
<1> DEFINE g == GuestRuns(i)
<1> HIDE DEF g
<1>3. guest' = [g EXCEPT !.predicated = @ \/ ~i.pg] /\ g \in Guests
  BY <1>1, <1>2 DEF g
<1>4. /\ guest' \in Guests /\ guest'.file = g.file /\ guest'.dead = g.dead
      /\ guest'.predicated = (g.predicated \/ ~i.pg)
  BY <1>2, <1>3 DEF Guests
<1> QED BY <1>4 DEF g

\* The guest keeps its type whatever is translated.
LEMMA TranslateGuest ==
    ASSUME guest \in Guests, NEW i \in First \cup Later, Translate(i)
    PROVE  guest' \in Guests
<1>1. i \in Instruction
  BY InputAssumption
<1>2. NoRow(i) \/ Al2p(i) \/ Kill(i) \/ Nop(i) \/ Unwritten(i)
  BY DEF Translate
<1>3. guest' = guest \/ Return(i)
  BY <1>2 DEF NoRow, Al2p, Kill, Nop, Unwritten, Panic
<1> QED BY <1>1, <1>3, ReturnGuest

\* The handlers translate has.
Handled(i) == NoRow(i) \/ Al2p(i) \/ Kill(i) \/ Nop(i) \/ Unwritten(i)

\* The first word translate emits, if there is none, is no magic number.
LEMMA TranslateHead ==
    ASSUME TypeOK, NEW i \in Instruction, em.words = <<>>, Handled(i)
    PROVE  em' = em \/ Begun(em'.words)
<1>1. i.ra \in Registers /\ i.rd \in Registers /\ i.off \in Nat /\ em \in Emitter /\ u32 \in Nat
  BY DEF Instruction, TypeOK
<1>2. CASE NoRow(i) \/ Unwritten(i)
  BY <1>2 DEF NoRow, Unwritten
<1>3. CASE Kill(i) \/ Nop(i)
  <2>1. em' = EmitPlain(em, 252, <<>>) \/ em' = EmitPlain(em, 0, <<>>)
    BY <1>3 DEF Kill, Nop
  <2>2. PICK op \in Codes : em' = EmitPlain(em, op, <<>>)
    BY <2>1 DEF Codes
  <2> QED BY <1>1, <2>2, BareHead
<1>4. CASE Al2p(i)
  <2> DEFINE base == LoadReg(em, i.ra)
             offset == EmitTyped(base, 43, u32, <<i.off>>)
             sum == EmitTyped(offset, 128, u32, <<em.nextId, base.nextId>>)
  <2>1. \/ em' = em
        \/ ~OutOfBounds(i.ra) /\ em' = sum
        \/ ~OutOfBounds(i.ra) /\ ~OutOfBounds(i.rd) /\ em' = StoreReg(sum, i.rd, offset.nextId)
    BY <1>4, Zenon DEF Al2p
  <2>2. ~OutOfBounds(i.ra) => Begun(base.words)
    BY <1>1, LoadHead, Zenon
  <2>3. ASSUME ~OutOfBounds(i.ra) PROVE Grows(base, sum) /\ base \in Emitter /\ sum \in Emitter /\ offset.nextId \in Nat
    BY <1>1, <2>3, SumGrows DEF Grows
  <2> HIDE DEF base, offset, sum
  <2>4. ASSUME ~OutOfBounds(i.ra), em' = sum \/ (~OutOfBounds(i.rd) /\ em' = StoreReg(sum, i.rd, offset.nextId))
        PROVE  Begun(em'.words)
    <3>1. Grows(base, em')
      <4>1. CASE em' = sum
        BY <2>3, <2>4, <4>1
      <4>2. CASE ~OutOfBounds(i.rd) /\ em' = StoreReg(sum, i.rd, offset.nextId)
        <5>1. Grows(sum, em')
          BY <1>1, <2>3, <2>4, <4>2, StoreGrows
        <5> QED BY <2>3, <2>4, <5>1, GrowsTransitive
      <4> QED BY <2>4, <4>1, <4>2
    <3>2. base.words # <<>> /\ base.words[1] # Magic /\ base \in Emitter
      BY <2>2, <2>3, <2>4, Zenon DEF Begun
    <3>3. 1 \in 1..Len(base.words) /\ em'.words # <<>>
      BY <3>1, <3>2 DEF Grows, Emitter
    <3>4. em'.words[1] = base.words[1]
      BY <3>1, <3>3, Zenon DEF Grows
    <3> QED BY <3>2, <3>3, <3>4, Zenon DEF Begun
  <2> QED BY <2>1, <2>4
<1> QED BY <1>2, <1>3, <1>4 DEF Handled

\* translate keeps the shape.
LEMMA TranslateShaped ==
    ASSUME IInv, Shape, NEW i \in First \cup Later, Translate(i) PROVE Shape'
<1>1. TypeOK /\ em \in Emitter /\ em.nextId \in Nat \ {0} /\ i \in Instruction
  BY InputAssumption DEF IInv, TypeOK, Emitter
<1>2. /\ ready' = ready /\ u32' = u32 /\ regs' = regs /\ early' = (early \/ ~ready)
      /\ reserved' = reserved /\ asked' = asked /\ headers' = headers /\ finalizedAt' = finalizedAt
  BY DEF Translate, decoder
<1>3. Grows(em, em') /\ em' \in Emitter
  <2>1. Quiet \/ Emission
    BY <1>1, TranslateShape
  <2> QED BY <1>1, <2>1, GrowsSelf DEF Quiet, Emission, Grows
<1>4. em.words = <<>> => em' = em \/ (em'.words # <<>> /\ em'.words[1] # Magic)
  <2>1. Handled(i)
    BY DEF Translate, Handled
  <2> QED BY <1>1, <2>1, TranslateHead, Zenon DEF Begun
<1>5. guest' \in Guests
  BY TranslateGuest DEF Shape, GuestTyped
<1>6. ReservedTyped' /\ AskedTyped' /\ GuestTyped'
  <2>1. em.nextId <= em'.nextId /\ em'.nextId \in Nat
    BY <1>3 DEF Grows, Emitter
  <2>2. ReservedTyped'
    BY <1>1, <1>2, <2>1 DEF Shape, ReservedTyped
  <2>3. ready' \/ early'
    BY <1>2, Zenon
  <2>4. AskedTyped' /\ GuestTyped'
    BY <1>2, <1>5, <2>3, Zenon DEF Shape, AskedTyped, GuestTyped
  <2> QED BY <2>2, <2>4
<1>7. HeaderPlaced' /\ NotMagic'
  BY <1>1, <1>2, <1>3, <1>4, HeadStays DEF Shape
<1>n. NothingYet'
  <2>1. CASE em' = em
    BY <1>2, <2>1 DEF Shape, NothingYet
  <2>2. CASE em' # em
    <3>1. em'.words # <<>>
      BY <1>1, <1>3, <1>4, <2>2, WordsStayThere
    <3> QED BY <3>1 DEF NothingYet
  <2> QED BY <2>1, <2>2
<1>8. RegistersTaken'
  <2>1. ready => Placed(em', reserved)
    BY <1>1, <1>2, <1>3, PlacesStay DEF Shape, RegistersTaken, Grows
  <2> QED BY <1>2, <2>1 DEF RegistersTaken, Placed
<1>9. FinalizedThere'
  BY <1>1, <1>2, <1>3, MarkStays DEF Shape, Grows
<1> QED BY <1>6, <1>7, <1>n, <1>8, <1>9 DEF Shape

\* No call, no change.
LEMMA IdleShaped == Shape /\ UNCHANGED vars => Shape'
BY SameShaped DEF vars

---------------------------------------------------------------------------
\* What the reader finds

Found(P, as) == \A k \in DOMAIN as : \E j \in DOMAIN P : IsAsked(P[j], as[k])

\* The values the variables begin with, and a run that agrees with the guest.
Begin(rg) == [id \in {rg[r] : r \in 0..(NRegs - 1)} |->
                ((CHOOSE r \in 0..(NRegs - 1) : rg[r] = id) + 1) % RegMod]
Agrees(ran, g, rg) ==
    /\ RunState(ran) /\ ran.dead = g.dead
    /\ \A r \in 0..(NRegs - 1) : rg[r] \in DOMAIN ran.mem /\ ran.mem[rg[r]] = g.file[r]

Readable(e, R, as) == Fine(e.words, e.nextId, R) /\ Found(Instructions(e.words), as)
Decoded(e, set, again, g, rg) ==
    /\ Sound(Instructions(e.words))
    /\ ~set => Instructions(e.words) = <<>>
    /\ set /\ ~again /\ ~g.predicated => Agrees(After(e, Begin(rg)), g, rg)

WellRead == UsedAsDocumented => Readable(em, reserved, asked)
WellDecoded ==
    UsedAsDocumented /\ asked = <<>> /\ ~early => Decoded(em, ready, renewed, guest, regs)

\* The ids below the bound are those of the instructions before a place.
BoundedBy(e, mark) ==
    /\ e.words[4] <= e.nextId
    /\ LET prog == Instructions(e.words)
       IN \A k \in Results(prog) : ResultOf(prog[k]) < e.words[4] <=> prog[k].at <= mark
Bounded == UsedAsDocumented => BoundedBy(em, finalizedAt)

\* A step that leaves the instructions there are.
Lengthens ==
    UsedAsDocumented' => /\ UsedAsDocumented /\ reserved' = reserved
                         /\ Longer(Instructions(em.words), Instructions(em'.words))

\* What was found in a program is found in a longer one.
LEMMA FoundLonger ==
    ASSUME NEW P \in Seq(Instr), NEW Q \in Seq(Instr), Longer(P, Q), NEW as, Found(P, as)
    PROVE  Found(Q, as)
<1>1. \A j \in DOMAIN P : j \in DOMAIN Q /\ Q[j] = P[j]
  BY DEF Longer
<1> QED BY <1>1 DEF Found

\* A module that is readable stays so when it moves on.
LEMMA OnwardReadable ==
    ASSUME NEW e, NEW f, NEW R, NEW as, Readable(e, R, as), Onward(e, f, R)
    PROVE  Readable(f, R, as)
<1>1. Fine(f.words, f.nextId, R) /\ Longer(Instructions(e.words), Instructions(f.words))
  BY DEF Onward
<1>2. Instructions(e.words) \in Seq(Instr) /\ Instructions(f.words) \in Seq(Instr)
  BY <1>1 DEF Fine, Readable
<1> QED BY <1>1, <1>2, FoundLonger DEF Readable

\* A header alone.
LEMMA HeaderFine ==
    ASSUME NEW ws, ws = <<Magic, Version, 0, 0, 0>>, NEW n \in Nat \ {0}
    PROVE  Fine(ws, n, 1..(n - 1)) /\ Instructions(ws) = <<>>
<1>1. ws \in Seq(Nat) /\ Len(ws) = 5 /\ ws[1] = Magic
  BY DEF Magic, Version
<1>2. Validate(ws)
  <2>1. PICK w : Walks(ws, w) /\ (Validate(ws) <=> Len(ws) >= 5 /\ ws[1] = Magic /\ w[6])
    BY <1>1, ValidateWalks
  <2>2. 6 \in 1..(Len(ws) + 1) /\ 6 > Len(ws)
    BY <1>1
  <2>3. w[6]
    BY <2>1, <2>2 DEF Walks
  <2> QED BY <1>1, <2>1, <2>3
<1>3. Instructions(ws) = <<>>
  <2>1. PICK f : Reads(ws, f) /\ Instructions(ws) = f[6]
    BY <1>1, ReaderReads
  <2>2. 6 \in 1..(Len(ws) + 1) /\ 6 > Len(ws)
    BY <1>1
  <2>3. Breaks(ws, 6)
    BY <2>2 DEF Breaks
  <2> QED BY <2>1, <2>2, <2>3 DEF Reads
<1>4. Results(<<>>) = {}
  BY DEF Results
<1>5. Defs(<<>>) = {} /\ Once(<<>>)
  BY <1>4 DEF Defs, Once
<1>6. (1..(n - 1)) \ (1..(n - 1)) = {} /\ <<>> \in Seq(Instr)
  OBVIOUS
<1>7. Laid(<<>>, ws)
  BY <1>1 DEF Laid
<1> QED BY <1>1, <1>2, <1>3, <1>5, <1>6, <1>7 DEF Fine

\* emit_header makes a module readable, if it comes first.
LEMMA StartReads == IInv /\ Shape /\ Start => WellRead' /\ WellDecoded' /\ Bounded'
<1> SUFFICES ASSUME IInv, Shape, Start, headers' = 1, em'.boundIdx = 3
             PROVE  /\ Readable(em', reserved', asked')
                    /\ Decoded(em', ready', renewed', guest', regs')
                    /\ BoundedBy(em', finalizedAt')
  BY DEF WellRead, WellDecoded, Bounded, UsedAsDocumented
<1>1. em \in Emitter /\ headers \in Nat /\ em.nextId \in Nat \ {0}
  BY DEF IInv, TypeOK, Emitter
<1>2. /\ em' = EmitHeader(em) /\ headers' = headers + 1
      /\ ready' = ready /\ reserved' = reserved /\ asked' = asked
  BY DEF Start, decoder
<1> DEFINE w == em.words \o <<Magic, Version, 0, 0, 0>>
           b == Len(em.words) + 3
<1>3. em' = [em EXCEPT !.words = w, !.boundIdx = b]
  BY <1>2 DEF EmitHeader
<1> HIDE DEF w, b
<1>4. em'.words = w /\ em'.boundIdx = b /\ em'.nextId = em.nextId
  BY <1>1, <1>3 DEF Emitter
<1>5. em.words = <<>>
  <2>1. Len(em.words) + 3 = 3 /\ em.words \in Seq(Nat)
    BY <1>1, <1>4 DEF b, Emitter
  <2> QED BY <2>1
<1>6. w = <<Magic, Version, 0, 0, 0>>
  <2>1. \A s \in Seq(Nat) : <<>> \o s = s
    OBVIOUS
  <2>2. <<Magic, Version, 0, 0, 0>> \in Seq(Nat)
    BY DEF Magic, Version
  <2> QED BY <1>5, <2>1, <2>2 DEF w
<1>7. asked = <<>> /\ ~ready /\ reserved = 1..(em.nextId - 1)
  BY <1>5 DEF Shape, NothingYet
<1>8. Fine(w, em.nextId, reserved) /\ Instructions(w) = <<>>
  BY <1>1, <1>6, <1>7, HeaderFine
<1>9. Found(<<>>, <<>>) /\ Sound(<<>>)
  BY DEF Found, Sound
<1>10. BoundedBy(em', finalizedAt')
  <2>1. em'.words[4] = 0 /\ Results(<<>>) = {}
    BY <1>4, <1>6 DEF Results
  <2> QED BY <1>1, <1>4, <1>8, <2>1 DEF BoundedBy
<1> QED BY <1>2, <1>4, <1>7, <1>8, <1>9, <1>10 DEF Readable, Decoded

\* alloc_id leaves the words and reserves the id.
LEMMA TakeReads ==
    IInv /\ Shape /\ WellRead /\ WellDecoded /\ Bounded /\ Take =>
        WellRead' /\ WellDecoded' /\ Bounded'
<1> SUFFICES ASSUME IInv, Shape, WellRead, WellDecoded, Bounded, Take
             PROVE  WellRead' /\ WellDecoded' /\ Bounded'
  OBVIOUS
<1>1. em \in Emitter /\ em.nextId \in Nat \ {0}
  BY DEF IInv, TypeOK, Emitter
<1>2. /\ em' = AllocId(em) /\ headers' = headers /\ reserved = {} /\ reserved' = {em.nextId}
      /\ ready' = ready /\ regs' = regs /\ asked' = asked /\ guest' = guest
      /\ early' = early /\ renewed' = renewed /\ finalizedAt' = finalizedAt
  BY DEF Take, decoder
<1>3. em'.nextId = em.nextId + 1 /\ em'.words = em.words /\ em'.boundIdx = em.boundIdx
  BY <1>1, <1>2, AllocGrows, WithWords DEF Grows
<1>4. UsedAsDocumented' <=> UsedAsDocumented
  BY <1>2, <1>3 DEF UsedAsDocumented
<1>5. Readable(em, {}, asked) => Readable(em', {em.nextId}, asked)
  <2> SUFFICES ASSUME Readable(em, {}, asked) PROVE Readable(em', {em.nextId}, asked)
    OBVIOUS
  <2> DEFINE n == em.nextId
             ws == em.words
  <2>1. Fine(ws, n, {}) /\ n \in Nat \ {0}
    BY <1>1 DEF Readable
  <2> HIDE DEF n, ws
  <2>2. n + 1 \in Nat \ {0} /\ {n} \subseteq 1..((n + 1) - 1) /\ (1..(n - 1)) \ {} = (1..((n + 1) - 1)) \ {n}
    BY <2>1
  <2>3. Fine(ws, n + 1, {n})
    BY <2>1, <2>2 DEF Fine
  <2> QED BY <1>3, <2>3 DEF Readable, n, ws
<1>6. WellRead'
  BY <1>2, <1>4, <1>5 DEF WellRead
<1>7. Decoded(em, ready, renewed, guest, regs) => Decoded(em', ready, renewed, guest, regs)
  BY <1>3 DEF Decoded, After
<1>8. WellDecoded'
  BY <1>2, <1>4, <1>7 DEF WellDecoded
<1>9. Bounded'
  <2>1. BoundedBy(em, finalizedAt) /\ em.words[4] \in Nat => BoundedBy(em', finalizedAt)
    BY <1>1, <1>3 DEF BoundedBy
  <2>2. UsedAsDocumented => em.words[4] \in Nat
    <3>1. UsedAsDocumented => em.words \in Seq(Nat) /\ Len(em.words) >= 5
      BY DEF WellRead, Readable, Fine, Validate
    <3> QED BY <3>1
  <2> QED BY <1>2, <1>4, <2>1, <2>2 DEF Bounded
<1> QED BY <1>6, <1>8, <1>9

\* finalize changes only the bound, which no reader of instructions looks at.
LEMMA SealReads ==
    IInv /\ Shape /\ WellRead /\ WellDecoded /\ Seal => WellRead' /\ WellDecoded' /\ Bounded'
<1> SUFFICES ASSUME IInv, Shape, WellRead, WellDecoded, Seal
             PROVE  WellRead' /\ WellDecoded' /\ Bounded'
  OBVIOUS
<1>1. TypeOK /\ em \in Emitter /\ em.words \in Seq(Nat)
  BY DEF IInv, TypeOK, Emitter
<1>2. /\ em' = Finalize(em) /\ headers' = headers /\ reserved' = reserved
      /\ ready' = ready /\ u32' = u32 /\ regs' = regs
      /\ asked' = asked /\ guest' = guest
      /\ early' = early /\ renewed' = renewed /\ finalizedAt' = Len(em.words)
  BY DEF Seal, decoder, history
<1>3. /\ em' \in Emitter /\ em'.nextId = em.nextId /\ em'.boundIdx = em.boundIdx
      /\ Len(em'.words) = Len(em.words)
      /\ \A k \in 1..Len(em.words) : em'.words[k] = em.words[k] \/ k = em.boundIdx + 1
      /\ em.boundIdx < Len(em.words) => em'.words[em.boundIdx + 1] = em.nextId
  BY <1>1, <1>2, FinalizeShape
<1>4. UsedAsDocumented' <=> UsedAsDocumented
  BY <1>2, <1>3 DEF UsedAsDocumented
<1>5. ASSUME UsedAsDocumented
      PROVE  /\ Validate(em'.words) /\ em'.words \in Seq(Nat)
             /\ Instructions(em'.words) = Instructions(em.words)
  <2>1. em.boundIdx = 3 /\ Validate(em.words)
    BY <1>5 DEF UsedAsDocumented, WellRead, Readable, Fine
  <2>2. Len(em.words) >= 5
    BY <2>1 DEF Validate
  <2>3. \A k \in 1..Len(em.words) : k # 4 => em'.words[k] = em.words[k]
    BY <1>3, <2>1
  <2>4. em'.words \in Seq(Nat)
    BY <1>3 DEF Emitter
  <2> QED BY <1>1, <1>3, <2>1, <2>2, <2>3, <2>4, BoundUnread
<1>6. WellRead'
  <2> SUFFICES ASSUME UsedAsDocumented PROVE Readable(em', reserved, asked)
    BY <1>2, <1>4 DEF WellRead
  <2>1. Laid(Instructions(em'.words), em'.words)
    BY <1>3, <1>5 DEF WellRead, Readable, Fine, Laid
  <2> QED BY <1>3, <1>5, <2>1 DEF WellRead, Readable, Fine
<1>7. WellDecoded'
  <2> SUFFICES ASSUME UsedAsDocumented, asked = <<>>, ~early
               PROVE  Decoded(em', ready, renewed, guest, regs)
    BY <1>2, <1>4 DEF WellDecoded
  <2> QED BY <1>5 DEF WellDecoded, Decoded, After
<1>8. Bounded'
  <2> SUFFICES ASSUME UsedAsDocumented PROVE BoundedBy(em', Len(em.words))
    BY <1>2, <1>4 DEF Bounded
  <2> DEFINE P == Instructions(em.words)
  <2>1. Fine(em.words, em.nextId, reserved) /\ P \in Seq(Instr) /\ Len(em.words) >= 5
    BY DEF WellRead, Readable, Fine, Validate
  <2>2. em'.words[4] = em.nextId /\ em'.nextId = em.nextId /\ em.nextId \in Nat
    BY <1>1, <1>3, <2>1 DEF UsedAsDocumented, Emitter
  <2>3. ASSUME NEW k \in Results(P)
        PROVE  ResultOf(P[k]) < em.nextId /\ P[k].at <= Len(em.words)
    <3>1. ResultOf(P[k]) \in 1..(em.nextId - 1)
      BY <2>1, <2>3 DEF Fine, Defs
    <3>2. k \in DOMAIN P
      BY <2>3 DEF Results
    <3> QED BY <2>1, <2>2, <3>1, <3>2 DEF Fine, Laid
  <2> QED BY <1>5, <2>2, <2>3 DEF BoundedBy
<1> QED BY <1>6, <1>7, <1>8

\* What has more instructions behind what there was, of which each id is one of its own,
\* has their ids above the bound and their places behind the mark.
LEMMA BoundStays ==
    ASSUME NEW e \in Emitter, NEW f \in Emitter, NEW R, NEW mark \in Nat,
           Fine(e.words, e.nextId, R), Fine(f.words, f.nextId, R), Grows(e, f),
           Longer(Instructions(e.words), Instructions(f.words)),
           mark <= Len(e.words), BoundedBy(e, mark)
    PROVE  BoundedBy(f, mark)
<1> DEFINE P == Instructions(e.words)
           Q == Instructions(f.words)
           b == e.words[4]
<1>1. /\ e.words \in Seq(Nat) /\ Len(e.words) >= 5 /\ e.nextId \in Nat /\ f.nextId \in Nat
      /\ f.words \in Seq(Nat) /\ e.nextId <= f.nextId /\ Len(e.words) \in Nat
  BY DEF Fine, Validate, Grows, Emitter
<1>2. b \in Nat /\ f.words[4] = b /\ b <= e.nextId
  <2>1. 4 \in 1..Len(e.words)
    BY <1>1
  <2>2. b \in Nat
    BY <1>1, <2>1, SMTT(30)
  <2>3. f.words[4] = b
    BY <2>1, Zenon DEF Grows
  <2>4. b <= e.nextId
    BY Zenon DEF BoundedBy
  <2> QED BY <2>2, <2>3, <2>4
<1>3. /\ P \in Seq(Instr) /\ Q \in Seq(Instr) /\ Longer(P, Q) /\ Once(Q)
      /\ Laid(P, e.words) /\ Laid(Q, f.words)
      /\ Defs(P) = (1..(e.nextId - 1)) \ R /\ Defs(Q) = (1..(f.nextId - 1)) \ R
      /\ R \subseteq 1..(e.nextId - 1)
  BY DEF Fine
<1>4. \A k \in Results(P) : ResultOf(P[k]) < b <=> P[k].at <= mark
  BY DEF BoundedBy
<1> HIDE DEF P, Q, b
<1>5. ASSUME NEW k \in Results(Q) PROVE ResultOf(Q[k]) < b <=> Q[k].at <= mark
  <2>1. k \in 1..Len(Q) /\ Len(P) \in Nat /\ Len(Q) \in Nat /\ DOMAIN P = 1..Len(P)
    BY <1>3 DEF Results
  <2>2. CASE k <= Len(P)
    <3>1. k \in DOMAIN P /\ Q[k] = P[k]
      BY <1>3, <2>1, <2>2 DEF Longer
    <3>2. k \in Results(P)
      BY <1>5, <3>1 DEF Results
    <3> QED BY <1>4, <3>1, <3>2
  <2>3. CASE k > Len(P)
    <3>1. Q[k].at > Len(e.words) /\ Q[k].at \in Nat
      <4>1. Q[k].at > Len(e.words)
        BY <1>1, <1>3, <2>1, <2>3, LaterPlaces
      <4>2. Q[k] \in Instr
        BY <1>3, <2>1
      <4> QED BY <4>1, <4>2 DEF Instr
    <3>2. ResultOf(Q[k]) \in (1..(f.nextId - 1)) \ R
      BY <1>3, <1>5 DEF Defs
    <3>3. ResultOf(Q[k]) \notin Defs(P)
      <4> SUFFICES ASSUME NEW j \in Results(P), ResultOf(P[j]) = ResultOf(Q[k]) PROVE FALSE
        BY DEF Defs
      <4>1. j \in 1..Len(P) /\ Q[j] = P[j] /\ j \in DOMAIN Q
        BY <1>3, <2>1 DEF Results, Longer
      <4>2. j \in Results(Q)
        BY <4>1 DEF Results
      <4>3. j = k
        BY <1>3, <1>5, <4>1, <4>2 DEF Once
      <4> QED BY <2>1, <2>3, <4>1, <4>3
    <3>4. ~(ResultOf(Q[k]) < b)
      BY <1>1, <1>2, <1>3, <3>2, <3>3
    <3> QED BY <1>1, <3>1, <3>4
  <2> QED BY <2>1, <2>2, <2>3
<1>6. b <= f.nextId
  BY <1>1, <1>2, SMTT(30)
<1> QED BY <1>2, <1>5, <1>6 DEF BoundedBy, Q

\* A call that emits, or does nothing, leaves the bound where it is: above the ids there
\* were at the last finalize and below those that come now.
LEMMA GrowingBounded ==
    ASSUME IInv, Shape, WellRead, WellRead', Bounded, Grows(em, em'),
           finalizedAt' = finalizedAt, Lengthens
    PROVE  Bounded'
<1> SUFFICES ASSUME UsedAsDocumented' PROVE BoundedBy(em', finalizedAt)
  BY DEF Bounded
<1>1. /\ UsedAsDocumented /\ reserved' = reserved
      /\ Longer(Instructions(em.words), Instructions(em'.words))
  BY DEF Lengthens
<1>2. Fine(em.words, em.nextId, reserved) /\ Fine(em'.words, em'.nextId, reserved)
  BY <1>1 DEF WellRead, Readable
<1>3. /\ em \in Emitter /\ em' \in Emitter /\ finalizedAt \in Nat
      /\ finalizedAt <= Len(em.words) /\ BoundedBy(em, finalizedAt)
  BY <1>1 DEF IInv, TypeOK, Grows, Shape, FinalizedThere, Bounded
<1> QED BY <1>1, <1>2, <1>3, BoundStays

\* If nothing it speaks of changes, the module is as readable as before.
LEMMA SameReads ==
    ASSUME WellRead, WellDecoded, em' = em, headers' = headers, reserved' = reserved,
           asked' = asked, guest' = guest, early' = early, renewed' = renewed,
           ready' = ready, regs' = regs
    PROVE  WellRead' /\ WellDecoded' /\ Lengthens
<1>1. UsedAsDocumented' <=> UsedAsDocumented
  BY DEF UsedAsDocumented
<1>2. Lengthens
  <2>1. UsedAsDocumented => Instructions(em.words) \in Seq(Instr)
    BY DEF WellRead, Readable, Fine
  <2>2. \A P \in Seq(Instr) : Longer(P, P)
    BY DEF Longer
  <2> QED BY <1>1, <2>1, <2>2 DEF Lengthens
<1> QED BY <1>1, <1>2 DEF WellRead, WellDecoded

\* An emit method keeps the module readable, and what was asked for is found in it.
LEMMA BuildReads ==
    ASSUME IInv, Shape, WellRead, WellDecoded, NEW m \in Methods, NEW args \in Arguments(m),
           NEW text \in Texts(m, Strings), NEW list \in Lists(m, WordLists),
           Build(m, args, text, list)
    PROVE  WellRead' /\ WellDecoded' /\ Lengthens
<1>1. TypeOK /\ em \in Emitter /\ em.nextId \in Nat \ {0} /\ asked \in Seq(Call)
  BY DEF IInv, TypeOK, Emitter, Shape, AskedTyped
<1> DEFINE ops == Operands(m, args, text, list)
           call == [at |-> Len(em.words) + 1, method |-> m, args |-> args, text |-> text, list |-> list]
<1>u. /\ headers' = headers /\ reserved' = reserved /\ ready' = ready /\ regs' = regs
      /\ guest' = guest /\ early' = early /\ renewed' = renewed
  BY DEF Build, decoder
<1>v. \/ em' = em /\ asked' = asked
      \/ em' = Emit(em, m, em.nextId, ops) /\ asked' = Append(asked, call)
  BY DEF Build
<1>w. CASE em' = em /\ asked' = asked
  BY <1>u, <1>w, SameReads
<1>x. SUFFICES ASSUME em' = Emit(em, m, em.nextId, ops), asked' = Append(asked, call)
               PROVE  WellRead' /\ WellDecoded' /\ Lengthens
  BY <1>v, <1>w
<1>2. /\ em' = Emit(em, m, em.nextId, ops) /\ asked' = Append(asked, call)
      /\ headers' = headers /\ reserved' = reserved
  BY <1>u, <1>x
<1>3. args \in Seq(Nat) /\ Len(args) = m.fixed
  BY <1>1, ArgumentsTyped
<1>4. em'.boundIdx = em.boundIdx
  BY <1>1, BuildShape DEF Quiet, Emission, Grows
<1>c. call.method = m /\ call.args = args /\ call.text = text /\ call.list = list
  BY Zenon
<1> HIDE DEF call
<1>5. /\ DOMAIN asked' = 1..(Len(asked) + 1) /\ DOMAIN asked = 1..Len(asked) /\ Len(asked) \in Nat
      /\ asked'[Len(asked) + 1] = call /\ \A k \in DOMAIN asked : asked'[k] = asked[k]
      /\ asked' # <<>>
  BY <1>1, <1>2
<1>6. WellDecoded'
  BY <1>5 DEF WellDecoded
<1>7. ASSUME UsedAsDocumented'
      PROVE  /\ Readable(em', reserved', asked') /\ UsedAsDocumented
             /\ Longer(Instructions(em.words), Instructions(em'.words))
  <2>0. /\ headers' = 1 /\ em'.boundIdx = 3
        /\ \A k \in DOMAIN asked' :
             LET a == asked'[k]
             IN Skip(a.method) + Len(Operands(a.method, a.args, a.text, a.list)) < WcMod
    BY <1>7 DEF UsedAsDocumented
  <2>1. UsedAsDocumented
    <3>1. \A k \in DOMAIN asked : k \in DOMAIN asked' /\ asked'[k] = asked[k]
      BY <1>5
    <3> QED BY <1>2, <1>4, <2>0, <3>1 DEF UsedAsDocumented
  <2>2. Skip(m) + Len(ops) < WcMod
    <3>1. Len(asked) + 1 \in DOMAIN asked'
      BY <1>5
    <3> QED BY <1>5, <1>c, <2>0, <3>1
  <2>3. Readable(em, reserved, asked)
    BY <2>1 DEF WellRead
  <2>4. PICK in : Adds(em, em', in, reserved) /\ IsAsked(in, call)
    <3>1. call = [at |-> Len(em.words) + 1, method |-> m, args |-> args, text |-> text, list |-> list]
      BY DEF call
    <3>2. Fine(em.words, em.nextId, reserved) /\ em.nextId \in Nat
      BY <1>1, <2>3 DEF Readable
    <3> QED BY <1>1, <1>2, <1>3, <2>2, <3>1, <3>2, BuildAdds
  <2> DEFINE P == Instructions(em.words)
             Q == Instructions(em'.words)
  <2>5. P \in Seq(Instr) /\ in \in Instr /\ Q = Append(P, in) /\ Fine(em'.words, em'.nextId, reserved)
    BY <2>4 DEF Adds
  <2>6. Found(P, asked)
    BY <2>3 DEF Readable
  <2> HIDE DEF P, Q
  <2>7. Longer(P, Q) /\ Q \in Seq(Instr) /\ Len(P) + 1 \in DOMAIN Q /\ Q[Len(P) + 1] = in
    BY <2>5 DEF Longer
  <2>8. Found(Q, asked)
    BY <2>5, <2>6, <2>7, FoundLonger
  <2>9. Found(Q, asked')
    <3>1. \A k \in DOMAIN asked' : k \in DOMAIN asked \/ k = Len(asked) + 1
      BY <1>5
    <3> QED BY <1>5, <2>4, <2>7, <2>8, <3>1 DEF Found
  <2> QED BY <1>2, <2>1, <2>5, <2>7, <2>9 DEF Readable, P, Q
<1> QED BY <1>2, <1>6, <1>7 DEF WellRead, Lengthens

\* The variables begin with what the registers of a new guest hold.
LEMMA BeginsRight ==
    ASSUME NEW rg, \A r, q \in 0..(NRegs - 1) : r # q => rg[r] # rg[q]
    PROVE  Agrees(Fresh(Begin(rg)), NewGuest, rg)
<1> DEFINE start == Begin(rg)
<1>1. ASSUME NEW r \in 0..(NRegs - 1)
      PROVE  rg[r] \in DOMAIN start /\ start[rg[r]] = NewGuest.file[r]
  <2>1. (CHOOSE q \in 0..(NRegs - 1) : rg[q] = rg[r]) = r
    <3>1. \A q \in 0..(NRegs - 1) : rg[q] = rg[r] => q = r
      OBVIOUS
    <3> DEFINE c == CHOOSE q \in 0..(NRegs - 1) : rg[q] = rg[r]
    <3>2. c \in 0..(NRegs - 1) /\ rg[c] = rg[r]
      <4>1. \E q \in 0..(NRegs - 1) : rg[q] = rg[r]
        OBVIOUS
      <4> QED BY <4>1, Zenon
    <3> QED BY <3>1, <3>2, Zenon
  <2>2. rg[r] \in DOMAIN start /\ start[rg[r]] = ((CHOOSE q \in 0..(NRegs - 1) : rg[q] = rg[r]) + 1) % RegMod
    BY Zenon DEF Begin
  <2>3. NewGuest.file[r] = (r + 1) % RegMod
    <3>1. NewGuest.file = [q \in 0..NRegs |-> (q + 1) % RegMod]
      BY DEF NewGuest
    <3>2. r \in 0..NRegs
      OBVIOUS
    <3> QED BY <3>1, <3>2
  <2> QED BY <2>1, <2>2, <2>3
<1>2. Fresh(start).mem = start /\ Fresh(start).dead = FALSE /\ NewGuest.dead = FALSE
  BY DEF Fresh, NewGuest
<1> HIDE DEF start
<1>3. Agrees(Fresh(start), NewGuest, rg)
  BY <1>1, <1>2, FreshState DEF Agrees
<1> QED BY <1>3 DEF start

\* init keeps the module readable and leaves the variables as the registers begin.
LEMMA DecoderReads ==
    IInv /\ IInv' /\ Shape /\ WellRead /\ WellDecoded /\ InitDecoder =>
        WellRead' /\ WellDecoded' /\ Lengthens
<1> SUFFICES ASSUME IInv, IInv', Shape, WellRead, WellDecoded, InitDecoder
             PROVE  WellRead' /\ WellDecoded' /\ Lengthens
  OBVIOUS
<1>1. TypeOK /\ em \in Emitter
  BY DEF IInv, TypeOK
<1> DEFINE n == em.nextId
           P == Instructions(em.words)
           Q == Instructions(em'.words)
<1>2. /\ em'.words = em.words \o InitWords(n) /\ em'.nextId = n + 50 + NRegs
      /\ em'.boundIdx = em.boundIdx /\ ready' = TRUE /\ renewed' = (renewed \/ ready)
      /\ early' = early /\ headers' = headers /\ reserved' = reserved /\ asked' = asked /\ guest' = guest
  BY <1>1, InitStep
<1>3. UsedAsDocumented' <=> UsedAsDocumented
  BY <1>2 DEF UsedAsDocumented
<1>4. ASSUME UsedAsDocumented
      PROVE  /\ P \in Seq(Instr) /\ Found(P, asked)
             /\ Grown(P, em'.words, em'.nextId, reserved)
  <2>1. Fine(em.words, n, reserved) /\ Found(P, asked)
    BY <1>4 DEF WellRead, Readable
  <2>2. GrownBy(P, em.words, InitWords(n), n + 50 + NRegs, reserved)
    BY <2>1, InitAdds
  <2> QED BY <1>2, <2>1, <2>2 DEF GrownBy
<1> HIDE DEF n, P
<1>5. ASSUME UsedAsDocumented
      PROVE  /\ Fine(em'.words, em'.nextId, reserved) /\ Q \in Seq(Instr)
             /\ Len(P) <= Len(Q) /\ \A k \in 1..Len(P) : Q[k] = P[k]
             /\ Sound(P) => Sound(Q)
             /\ \A k \in (Len(P) + 1)..Len(Q) : OpOf(Q[k]) \notin Effective
  BY <1>4, <1>5 DEF Grown, Fine
<1> HIDE DEF Q
<1>6. WellRead'
  <2> SUFFICES ASSUME UsedAsDocumented PROVE Readable(em', reserved, asked)
    BY <1>2, <1>3 DEF WellRead
  <2>1. Longer(P, Q)
    BY <1>5 DEF Longer
  <2> QED BY <1>4, <1>5, <2>1, FoundLonger DEF Readable, Q
<1>7. WellDecoded'
  <2> SUFFICES ASSUME UsedAsDocumented, asked = <<>>, ~early
               PROVE  Decoded(em', TRUE, renewed', guest, regs')
    BY <1>2, <1>3 DEF WellDecoded
  <2>0. Sound(P) /\ Sound(Q)
    BY <1>5 DEF WellDecoded, Decoded, P
  <2>i. CASE ready
    BY <1>2, <2>0, <2>i DEF Decoded, Q
  <2> SUFFICES ASSUME ~ready PROVE Decoded(em', TRUE, renewed', guest, regs')
    BY <2>i
  <2>1. P = <<>>
    BY DEF WellDecoded, Decoded, P
  <2>2. guest = NewGuest
    BY DEF Shape, GuestTyped
  <2> DEFINE start == Begin(regs')
  <2>3. After(em', start) = Fresh(start)
    <3>0. Idles(P, Q)
      BY <1>4, <1>5 DEF Idles
    <3>1. \A s : Run(Q, s, RegMod) = Run(P, s, RegMod)
      <4>1. Idles(P, Q) => \A s, m : Run(Q, s, m) = Run(P, s, m)
        BY RunIdle, ZenonT(40)
      <4> QED BY <3>0, <4>1
    <3> QED BY <2>1, <3>1, RunEmpty DEF After, Q
  <2>4. \A r, q \in 0..(NRegs - 1) : r # q => regs'[r] # regs'[q]
    BY <1>2 DEF IInv, RegistersApart
  <2>5. Agrees(Fresh(start), NewGuest, regs')
    BY <2>4, BeginsRight
  <2> HIDE DEF start
  <2>6. Agrees(After(em', start), guest, regs')
    BY <2>2, <2>3, <2>5
  <2> QED BY <2>0, <2>6 DEF Decoded, Q, start
<1>8. Lengthens
  <2>1. UsedAsDocumented => Longer(P, Q)
    BY <1>5 DEF Longer
  <2> QED BY <1>2, <1>3, <2>1 DEF Lengthens, P, Q
<1> QED BY <1>6, <1>7, <1>8

---------------------------------------------------------------------------
\* translate

\* The handler is that of the instruction.
LEMMA RightHandler ==
    ASSUME NEW i \in First \cup Later, Translate(i)
    PROVE  \/ NoRow(i) /\ i.mn = "unknown"
           \/ Al2p(i) /\ i.mn = "al2p"
           \/ Kill(i) /\ i.mn = "kill"
           \/ Nop(i) /\ i.mn = "nop"
           \/ Unwritten(i)
<1>1. CASE <<i.mn, i.key>> \in Encodings
  <2>1. /\ i.key \in DOMAIN Handler
        /\ IF i.mn \in {"al2p", "kill", "nop"} THEN Handler[i.key] = i.mn
           ELSE Handler[i.key] \in Unimplemented
    BY <1>1, EachToItsOwn
  <2>2. \/ Handler[i.key] = "al2p" /\ Al2p(i)
        \/ Handler[i.key] = "kill" /\ Kill(i)
        \/ Handler[i.key] = "nop" /\ Nop(i)
        \/ Unwritten(i)
    BY <2>1 DEF Translate
  <2>3. Handler[i.key] \in {"al2p", "kill", "nop"} => i.mn = Handler[i.key]
    BY <2>1, Written
  <2> QED BY <2>2, <2>3
<1>2. CASE i.mn = "unknown" /\ i.key \notin Keys
  <2>1. i.key \notin DOMAIN Handler
    BY <1>2 DEF Handler
  <2> QED BY <1>2, <2>1 DEF Translate
<1> QED BY <1>1, <1>2, OfferedAssumption

\* What translate came back from was translated: al2p, kill and nop, and words that are
\* no instruction.  Every other instruction the table knows ends in a panic, for every
\* choice of instructions and of the calls in between (translate, todo!()).
THEOREM NothingSkipped == Spec => []NoneSkipped
<1>1. Init => NoneSkipped
  BY DEF Init, NoneSkipped
<1>2. NoneSkipped /\ [Next]_vars => NoneSkipped'
  <2> SUFFICES ASSUME NoneSkipped, [Next]_vars PROVE NoneSkipped'
    OBVIOUS
  <2>1. ASSUME NEW i \in First \cup Later, Translate(i) PROVE NoneSkipped'
    <3>1. \/ returned' = returned
          \/ returned' = returned \cup {i.mn} /\ i.mn \in {"al2p", "kill", "nop", "unknown"}
      <4>0. Return(i) => returned' = returned \cup {i.mn}
        BY DEF Return
      <4>1. CASE Return(i) /\ i.mn \in {"al2p", "kill", "nop", "unknown"}
        BY <4>0, <4>1
      <4>2. CASE UNCHANGED returned
        BY <4>2
      <4>3. Al2p(i) => Return(i) \/ UNCHANGED returned
        BY DEF Al2p, Panic
      <4>4. /\ NoRow(i) => Return(i)
            /\ Kill(i) => Return(i)
            /\ Nop(i) => Return(i)
            /\ Unwritten(i) => UNCHANGED returned
        BY DEF NoRow, Kill, Nop, Unwritten, Panic
      <4> QED BY <2>1, <4>1, <4>2, <4>3, <4>4, RightHandler
    <3> QED BY <3>1 DEF NoneSkipped
  <2>2. CASE Start \/ Take \/ InitDecoder \/ Seal \/ UNCHANGED vars
    <3>1. returned' = returned
      BY <2>2 DEF Start, Take, InitDecoder, Seal, vars, history
    <3> QED BY <3>1 DEF NoneSkipped
  <2>3. ASSUME NEW m \in Methods, NEW args \in Arguments(m), NEW text \in Texts(m, Strings),
               NEW list \in Lists(m, WordLists), Build(m, args, text, list)
        PROVE  NoneSkipped'
    <3>1. returned' = returned
      BY <2>3 DEF Build
    <3> QED BY <3>1 DEF NoneSkipped
  <2> QED BY <2>1, <2>2, <2>3 DEF Next
<1> QED BY <1>1, <1>2, PTL DEF Spec

\* What one translation has to show, for the run from where the registers begin.
Onwards == em' = em \/ Moves(em, em', reserved)
Keeps ==
    /\ ready /\ UNCHANGED <<ready, regs, reserved, asked, headers, early, renewed>>
    /\ em'.boundIdx = em.boundIdx
Follows(g) ==
    \A ran, ran2 : ran = After(em, Begin(regs)) /\ ran2 = After(em', Begin(regs))
                        /\ Agrees(ran, guest, regs) => Agrees(ran2, g, regs)

\* What is to be shown of a translation is enough, if the decoder was set up.
LEMMA TranslationDecoded ==
    ASSUME WellDecoded, Keeps, UsedAsDocumented => Onwards,
           UsedAsDocumented /\ ~guest'.predicated => ~guest.predicated /\ Follows(guest')
    PROVE  WellDecoded'
<1>1. /\ ready /\ ready' = ready /\ regs' = regs /\ reserved' = reserved /\ asked' = asked
      /\ headers' = headers /\ em'.boundIdx = em.boundIdx /\ early' = early /\ renewed' = renewed
  BY DEF Keeps
<1>2. UsedAsDocumented' <=> UsedAsDocumented
  BY <1>1 DEF UsedAsDocumented
<1> SUFFICES ASSUME UsedAsDocumented, asked = <<>>, ~early
             PROVE  Decoded(em', TRUE, renewed, guest', regs)
  BY <1>1, <1>2 DEF WellDecoded
<1>3. Decoded(em, TRUE, renewed, guest, regs)
  BY <1>1 DEF WellDecoded
<1>4. Sound(Instructions(em'.words))
  BY <1>3 DEF Decoded, Onwards, Moves
<1>5. ASSUME ~renewed, ~guest'.predicated PROVE Agrees(After(em', Begin(regs)), guest', regs)
  <2>1. ~guest.predicated /\ Follows(guest')
    BY <1>5
  <2>2. Agrees(After(em, Begin(regs)), guest, regs)
    BY <1>3, <1>5, <2>1 DEF Decoded
  <2> QED BY <2>1, <2>2 DEF Follows
<1> QED BY <1>4, <1>5 DEF Decoded

\* A run whose variables and end are those of another agrees with the same guest.
LEMMA SameAgrees ==
    ASSUME NEW s, NEW t, NEW g, NEW h, NEW rg, Agrees(s, g, rg),
           RunState(t), t.mem = s.mem, t.dead = h.dead, h.file = g.file
    PROVE  Agrees(t, h, rg)
BY DEF Agrees

\* What a register's variable holds is what the guest reads from the register.
LEMMA HeldIsRead ==
    ASSUME NEW s, NEW g, Agrees(s, g, regs), NEW ra \in Registers, ~OutOfBounds(ra)
    PROVE  Held(s, ra) = Read(g.file, ra)
BY DEF Agrees, Registers, OutOfBounds, RZ, Held, Read

\* rd of the guest and the variable of rd get the same value.
Stored(s, t, g, h, rd, v) ==
    /\ g \in Guests /\ Agrees(s, g, regs) /\ ~s.dead
    /\ rd \in Registers /\ ~OutOfBounds(rd) /\ rd # RZ /\ Writes(s, t, rd, v)
    /\ \A r, q \in 0..(NRegs - 1) : r # q => regs[r] # regs[q]
    /\ h.dead = g.dead /\ h.file = [g.file EXCEPT ![rd] = v]

\* If the variable and the register agreed, they still do: no other register has that
\* variable.
LEMMA WritesAgrees ==
    ASSUME NEW s, NEW t, NEW g, NEW h, NEW rd, NEW v, Stored(s, t, g, h, rd, v)
    PROVE  Agrees(t, h, regs)
<1>0. /\ g \in Guests /\ Agrees(s, g, regs) /\ ~s.dead
      /\ rd \in Registers /\ ~OutOfBounds(rd) /\ rd # RZ /\ Writes(s, t, rd, v)
      /\ \A r, q \in 0..(NRegs - 1) : r # q => regs[r] # regs[q]
      /\ h.dead = g.dead /\ h.file = [g.file EXCEPT ![rd] = v]
  BY DEF Stored
<1>1. RunState(t) /\ t.dead = s.dead /\ t.mem = [s.mem EXCEPT ![regs[rd]] = v]
  BY <1>0 DEF Writes
<1>2. rd \in 0..(NRegs - 1)
  BY <1>0 DEF Registers, OutOfBounds, RZ
<1>3. ASSUME NEW r \in 0..(NRegs - 1) PROVE regs[r] \in DOMAIN t.mem /\ t.mem[regs[r]] = h.file[r]
  <2>1. regs[r] \in DOMAIN s.mem /\ s.mem[regs[r]] = g.file[r]
    BY <1>0 DEF Agrees
  <2>2. r \in DOMAIN g.file
    BY <1>0 DEF Guests
  <2>3. CASE r = rd
    BY <1>0, <1>1, <2>1, <2>2, <2>3
  <2>4. CASE r # rd
    <3>1. regs[r] # regs[rd]
      BY <1>0, <1>2, <2>4
    <3> QED BY <1>0, <1>1, <2>1, <2>2, <2>4, <3>1
  <2> QED BY <2>3, <2>4
<1> QED BY <1>0, <1>1, <1>3 DEF Agrees

Sum(i) == (Read(guest.file, i.ra) + i.off) % RegMod

\* Running an instruction does not say that one was predicated off.
LEMMA GuestPredicated ==
    ASSUME guest \in Guests, NEW i \in Instruction
    PROVE  GuestRuns(i).predicated = guest.predicated
<1>1. \A g, f : g \in Guests => [g EXCEPT !.file = f].predicated = g.predicated
  BY DEF Guests
<1>2. \A g : g \in Guests => [g EXCEPT !.dead = TRUE].predicated = g.predicated
  BY DEF Guests
<1>3. CASE guest.dead \/ ~i.pg
  BY <1>3 DEF GuestRuns
<1>4. CASE ~(guest.dead \/ ~i.pg)
  <2>1. CASE i.mn = "al2p" /\ i.rd # RZ
    <3> DEFINE f == [guest.file EXCEPT ![i.rd] = Sum(i)]
    <3>1. GuestRuns(i) = [guest EXCEPT !.file = f]
      BY <1>4, <2>1 DEF GuestRuns, Sum
    <3> HIDE DEF f
    <3> QED BY <1>1, <3>1
  <2>2. CASE ~(i.mn = "al2p" /\ i.rd # RZ) /\ i.mn = "kill"
    <3>1. GuestRuns(i) = [guest EXCEPT !.dead = TRUE]
      BY <1>4, <2>2 DEF GuestRuns
    <3> QED BY <1>2, <3>1
  <2>3. CASE ~(i.mn = "al2p" /\ i.rd # RZ) /\ i.mn # "kill"
    BY <1>4, <2>3 DEF GuestRuns
  <2> QED BY <2>1, <2>2, <2>3
<1> QED BY <1>3, <1>4

\* What al2p does to the guest.
LEMMA Al2pGuest ==
    ASSUME guest \in Guests, NEW i \in Instruction, i.mn = "al2p", i.pg
    PROVE  /\ GuestRuns(i).dead = guest.dead
           /\ guest.dead \/ i.rd = RZ => GuestRuns(i).file = guest.file
           /\ ~guest.dead /\ i.rd # RZ => GuestRuns(i).file = [guest.file EXCEPT ![i.rd] = Sum(i)]
<1>1. CASE guest.dead \/ i.rd = RZ
  <2>1. GuestRuns(i) = guest
    BY <1>1 DEF GuestRuns
  <2> QED BY <1>1, <2>1
<1>2. CASE ~guest.dead /\ i.rd # RZ
  <2> DEFINE f == [guest.file EXCEPT ![i.rd] = Sum(i)]
  <2>1. GuestRuns(i) = [guest EXCEPT !.file = f]
    BY <1>2 DEF GuestRuns, Sum
  <2> HIDE DEF f
  <2>2. GuestRuns(i).file = f /\ GuestRuns(i).dead = guest.dead
    BY <2>1 DEF Guests
  <2> QED BY <1>2, <2>2 DEF f
<1> QED BY <1>1, <1>2

\* What kill does to the guest.
LEMMA KillGuest ==
    ASSUME guest \in Guests, NEW i \in Instruction, i.mn = "kill", i.pg
    PROVE  GuestRuns(i).dead /\ GuestRuns(i).file = guest.file
BY DEF GuestRuns, Guests

\* Any other instruction does nothing to the guest of this model.
LEMMA OtherGuest ==
    ASSUME guest \in Guests, NEW i \in Instruction, i.mn \notin {"al2p", "kill"}
    PROVE  GuestRuns(i) = guest
BY DEF GuestRuns

\* A translation that returned, of an instruction that is not predicated off.
LEMMA Returned ==
    ASSUME guest \in Guests, NEW i \in Instruction, Return(i), ~guest'.predicated
    PROVE  i.pg /\ ~guest.predicated /\ guest'.file = GuestRuns(i).file /\ guest'.dead = GuestRuns(i).dead
<1>1. guest'.predicated = (GuestRuns(i).predicated \/ ~i.pg)
  BY ReturnGuest
<1>2. GuestRuns(i).predicated = guest.predicated /\ i.pg \in BOOLEAN
  BY GuestPredicated DEF Instruction
<1>3. ~(GuestRuns(i).predicated \/ ~i.pg)
  BY <1>1
<1> QED BY <1>2, <1>3, ReturnGuest

---------------------------------------------------------------------------
\* The handlers

Inside(i) ==
    /\ IInv /\ Shape /\ guest \in Guests /\ em \in Emitter
    /\ Placed(em, reserved) /\ Fine(em.words, em.nextId, reserved) /\ i \in Instruction

\* If nothing was emitted and the guest did nothing, they still agree.
LEMMA NothingReads ==
    ASSUME em' = em, guest'.file = guest.file, guest'.dead = guest.dead PROVE Onwards /\ Follows(guest')
BY DEF Onwards, Follows, Agrees

\* kill does to a run what it does to the guest.
LEMMA KillReads ==
    ASSUME NEW i, Inside(i), Kill(i), i.mn = "kill"
    PROVE  Onwards /\ (~guest'.predicated => ~guest.predicated /\ Follows(guest'))
<1>1. em' = EmitPlain(em, 252, <<>>) /\ Return(i)
  BY DEF Kill
<1>2. /\ Moves(em, em', reserved)
      /\ \A start : RunState(After(em, start)) =>
           /\ RunState(After(em', start)) /\ After(em', start).dead
           /\ After(em', start).mem = After(em, start).mem
  BY <1>1, KillGives DEF Inside
<1>3. ASSUME ~guest'.predicated PROVE ~guest.predicated /\ Follows(guest')
  <2>1. i.pg /\ ~guest.predicated /\ guest'.file = GuestRuns(i).file /\ guest'.dead = GuestRuns(i).dead
    BY <1>1, <1>3, Returned DEF Inside
  <2>2. guest'.dead /\ guest'.file = guest.file /\ guest' \in Guests
    BY <1>1, <2>1, KillGuest, ReturnGuest DEF Inside
  <2>3. ASSUME NEW s, NEW t, s = After(em, Begin(regs)), t = After(em', Begin(regs)), Agrees(s, guest, regs)
        PROVE  Agrees(t, guest', regs)
    <3>1. RunState(t) /\ t.dead /\ t.mem = s.mem
      BY <1>2, <2>3 DEF Agrees
    <3>2. t.dead \in BOOLEAN /\ guest'.dead \in BOOLEAN
      BY <2>2, <3>1 DEF RunState, Guests
    <3> QED BY <2>2, <2>3, <3>1, <3>2, SameAgrees
  <2> QED BY <2>1, <2>3 DEF Follows
<1> QED BY <1>2, <1>3 DEF Onwards

\* nop does nothing to either.
LEMMA NopReads ==
    ASSUME NEW i, Inside(i), Nop(i), i.mn = "nop"
    PROVE  Onwards /\ (~guest'.predicated => ~guest.predicated /\ Follows(guest'))
<1>1. em' = EmitPlain(em, 0, <<>>) /\ Return(i)
  BY DEF Nop
<1>2. Moves(em, em', reserved) /\ \A start : After(em', start) = After(em, start)
  BY <1>1, NopGives DEF Inside
<1>3. ASSUME ~guest'.predicated PROVE ~guest.predicated /\ Follows(guest')
  <2>1. ~guest.predicated /\ guest'.file = guest.file /\ guest'.dead = guest.dead
    BY <1>1, <1>3, Returned, OtherGuest DEF Inside
  <2> QED BY <1>2, <2>1 DEF Follows, Agrees
<1> QED BY <1>2, <1>3 DEF Onwards

\* An instruction no row matches is not translated, and does nothing to the guest.
LEMMA NoRowReads ==
    ASSUME NEW i, Inside(i), NoRow(i), i.mn \notin {"al2p", "kill"}
    PROVE  Onwards /\ (~guest'.predicated => ~guest.predicated /\ Follows(guest'))
<1>1. em' = em /\ Return(i)
  BY DEF NoRow
<1>2. ASSUME ~guest'.predicated PROVE ~guest.predicated /\ Follows(guest')
  <2>1. ~guest.predicated /\ guest'.file = guest.file /\ guest'.dead = guest.dead
    BY <1>1, <1>2, Returned, OtherGuest DEF Inside
  <2> QED BY <1>1, <2>1, NothingReads
<1> QED BY <1>1, <1>2 DEF Onwards

\* A translation that stopped half way changed no variable.
LEMMA PanicReads ==
    ASSUME guest' = guest, Onwards,
           \A start : RunState(After(em, start)) =>
                /\ RunState(After(em', start)) /\ After(em', start).mem = After(em, start).mem
                /\ After(em', start).dead = After(em, start).dead
    PROVE  Follows(guest')
BY DEF Follows, Agrees

\* al2p, when it returns.
LEMMA Al2pStores ==
    ASSUME NEW i, Inside(i), i.mn = "al2p", ~OutOfBounds(i.ra), ~OutOfBounds(i.rd),
           NEW base, base = LoadReg(em, i.ra),
           NEW offset, offset = EmitTyped(base, 43, u32, <<i.off>>),
           NEW sum, sum = EmitTyped(offset, 128, u32, <<em.nextId, base.nextId>>),
           ready, em' = StoreReg(sum, i.rd, offset.nextId), Return(i)
    PROVE  Onwards /\ (~guest'.predicated => ~guest.predicated /\ Follows(guest'))
<1>1. /\ i.ra \in Registers /\ i.rd \in Registers /\ i.off \in Nat /\ i \in Instruction
      /\ guest \in Guests /\ IInv
  BY DEF Inside, Instruction
<1>2. /\ Moves(em, em', reserved)
      /\ \A start : RunState(After(em, start)) =>
           Writes(After(em, start), After(em', start), i.rd,
                  (Held(After(em, start), i.ra) + (i.off % RegMod)) % RegMod)
  BY <1>1, Al2pGives DEF Inside
<1>3. ASSUME ~guest'.predicated PROVE ~guest.predicated /\ Follows(guest')
  <2>1. i.pg /\ ~guest.predicated /\ guest'.file = GuestRuns(i).file /\ guest'.dead = GuestRuns(i).dead
    BY <1>1, <1>3, Returned
  <2>2. /\ guest'.dead = guest.dead
        /\ guest.dead \/ i.rd = RZ => guest'.file = guest.file
        /\ ~guest.dead /\ i.rd # RZ => guest'.file = [guest.file EXCEPT ![i.rd] = Sum(i)]
    BY <1>1, <2>1, Al2pGuest
  <2>3. ASSUME NEW s, NEW t, s = After(em, Begin(regs)), t = After(em', Begin(regs)), Agrees(s, guest, regs)
        PROVE  Agrees(t, guest', regs)
    <3>1. Held(s, i.ra) = Read(guest.file, i.ra) /\ RunState(s) /\ s.dead = guest.dead
      BY <1>1, <2>3, HeldIsRead DEF Inside, Agrees
    <3>2. Read(guest.file, i.ra) \in Nat
      BY <1>1 DEF Read, Registers, RZ, Guests, Inside, OutOfBounds
    <3>3. Writes(s, t, i.rd, Sum(i))
      <4>1. Writes(s, t, i.rd, (Held(s, i.ra) + (i.off % RegMod)) % RegMod)
        BY <1>2, <2>3, <3>1
      <4>2. (Read(guest.file, i.ra) + (i.off % RegMod)) % RegMod = Sum(i)
        BY <1>1, <3>2, ModAdd DEF Sum
      <4> QED BY <3>1, <4>1, <4>2
    <3>4. CASE guest.dead \/ i.rd = RZ
      <4>1. RunState(t) /\ t.dead = guest'.dead /\ t.mem = s.mem
        BY <2>2, <3>1, <3>3, <3>4 DEF Writes
      <4> QED BY <2>2, <2>3, <3>4, <4>1, SameAgrees
    <3>5. CASE ~guest.dead /\ i.rd # RZ
      <4>1. \A r, q \in 0..(NRegs - 1) : r # q => regs[r] # regs[q]
        BY <1>1 DEF IInv, RegistersApart
      <4>2. guest'.file = [guest.file EXCEPT ![i.rd] = Sum(i)] /\ guest'.dead = guest.dead /\ ~s.dead
        BY <2>2, <3>1, <3>5
      <4>3. Stored(s, t, guest, guest', i.rd, Sum(i))
        BY <1>1, <2>3, <3>3, <3>5, <4>1, <4>2 DEF Stored
      <4> QED BY <4>3, WritesAgrees
    <3> QED BY <3>4, <3>5
  <2> QED BY <2>1, <2>3 DEF Follows
<1> QED BY <1>2, <1>3 DEF Onwards

\* al2p, when the bounds of rd stop it half way.
LEMMA Al2pStops ==
    ASSUME NEW i, Inside(i), ~OutOfBounds(i.ra),
           NEW base, base = LoadReg(em, i.ra),
           NEW offset, offset = EmitTyped(base, 43, u32, <<i.off>>),
           NEW sum, sum = EmitTyped(offset, 128, u32, <<em.nextId, base.nextId>>),
           em' = sum, Panic
    PROVE  Onwards /\ (~guest'.predicated => ~guest.predicated /\ Follows(guest'))
<1>1. i.ra \in Registers /\ i.off \in Nat
  BY DEF Inside, Instruction
<1>2. /\ Moves(em, em', reserved)
      /\ \A start : RunState(After(em, start)) =>
           Holds(After(em, start), After(em', start), offset.nextId,
                 (Held(After(em, start), i.ra) + (i.off % RegMod)) % RegMod)
  BY <1>1, SumIsReady DEF Inside
<1>3. \A start : RunState(After(em, start)) =>
        /\ RunState(After(em', start)) /\ After(em', start).mem = After(em, start).mem
        /\ After(em', start).dead = After(em, start).dead
  BY <1>2 DEF Holds
<1>4. guest' = guest /\ Onwards
  BY <1>2 DEF Panic, Onwards
<1> QED BY <1>3, <1>4, PanicReads

\* al2p does to a run what it does to the guest, or stops before it has stored
\* anything.
LEMMA Al2pReads ==
    ASSUME NEW i, Inside(i), Al2p(i), i.mn = "al2p", ready
    PROVE  Onwards /\ (~guest'.predicated => ~guest.predicated /\ Follows(guest'))
<1> DEFINE base == LoadReg(em, i.ra)
           offset == EmitTyped(base, 43, u32, <<i.off>>)
           sum == EmitTyped(offset, 128, u32, <<em.nextId, base.nextId>>)
<1>1. \/ Panic /\ em' = em
      \/ ~OutOfBounds(i.ra) /\ em' = sum /\ Panic
      \/ ~OutOfBounds(i.ra) /\ ~OutOfBounds(i.rd) /\ em' = StoreReg(sum, i.rd, offset.nextId) /\ Return(i)
  BY Zenon DEF Al2p
<1>2. CASE Panic /\ em' = em
  <2>1. guest' = guest
    BY <1>2 DEF Panic
  <2> QED BY <1>2, <2>1, NothingReads
<1>3. CASE ~OutOfBounds(i.ra) /\ em' = sum /\ Panic
  BY <1>3, Al2pStops
<1>4. CASE ~OutOfBounds(i.ra) /\ ~OutOfBounds(i.rd) /\ em' = StoreReg(sum, i.rd, offset.nextId) /\ Return(i)
  BY <1>4, Al2pStores
<1> QED BY <1>1, <1>2, <1>3, <1>4

\* Operands of one instruction of translate.
TwoAtMost(operands) == operands \in Seq(Nat) /\ Len(operands) <= 2

LEMMA OperandsOf == \A v, w \in Nat : TwoAtMost(<<v>>) /\ TwoAtMost(<<v, w>>)
BY DEF TwoAtMost

\* One instruction of translate, whatever ids it uses.
LEMMA TypedOnward ==
    ASSUME NEW e \in Emitter, NEW R, Fine(e.words, e.nextId, R), NEW ty \in Nat,
           NEW operands, TwoAtMost(operands), NEW op \in {43, 61, 128}
    PROVE  Onward(e, EmitTyped(e, op, ty, operands), R)
<1>1. e.nextId \in Nat /\ operands \in Seq(Nat) /\ Len(operands) <= 2
  BY DEF Emitter, TwoAtMost
<1>2. ResultAt(op) = 3
  <2>1. CASE op = 43
    BY <2>1 DEF ResultAt
  <2>2. CASE op = 61
    BY <2>2 DEF ResultAt
  <2>3. CASE op = 128
    BY <2>3 DEF ResultAt
  <2> QED BY <2>1, <2>2, <2>3
<1> DEFINE tail == <<ty, e.nextId>> \o operands
<1>3. tail \in Seq(Nat) /\ Len(tail) <= 4 /\ Len(tail) \in Nat
  BY <1>1
<1> HIDE DEF tail
<1>4. Fits(op, tail)
  <2>1. op \in 0..(OpMod - 1) /\ op # 0
    BY SMTT(30) DEF OpMod
  <2>2. Len(tail) + 1 < WcMod
    BY <1>3, WcAssumption
  <2> QED BY <1>3, <2>1, <2>2, SMTT(30) DEF Fits
<1>5. /\ Adds(e, EmitTyped(e, op, ty, operands), Made(e, op, tail), R)
      /\ EmitTyped(e, op, ty, operands).nextId = e.nextId + 1
  BY <1>1, <1>2, <1>4, TypedAdds DEF tail
<1>6. e.nextId <= EmitTyped(e, op, ty, operands).nextId
  BY <1>1, <1>5
<1> QED BY <1>5, <1>6, AddsOnward, Zenon

LEMMA StoreOnward ==
    ASSUME NEW e \in Emitter, NEW R, Fine(e.words, e.nextId, R), NEW operands, TwoAtMost(operands)
    PROVE  Onward(e, EmitPlain(e, 62, operands), R)
<1>1. e.nextId \in Nat /\ operands \in Seq(Nat) /\ Len(operands) <= 2 /\ Len(operands) \in Nat
  BY DEF Emitter, TwoAtMost
<1>2. ResultAt(62) = 0
  BY DEF ResultAt
<1>3. Fits(62, operands)
  BY <1>1, WcAssumption DEF Fits, OpMod
<1>4. /\ Adds(e, EmitPlain(e, 62, operands), Made(e, 62, operands), R)
      /\ EmitPlain(e, 62, operands).nextId = e.nextId
  BY <1>2, <1>3, PlainAdds
<1>5. e.nextId <= EmitPlain(e, 62, operands).nextId
  BY <1>1, <1>4
<1> QED BY <1>4, <1>5, AddsOnward, Zenon

\* kill and nop add one instruction.
LEMMA BareOnward ==
    ASSUME NEW e \in Emitter, NEW R, Fine(e.words, e.nextId, R), NEW op \in {0, 252}
    PROVE  Onward(e, EmitPlain(e, op, <<>>), R)
<1>1. ResultAt(op) = 0
  BY SMTT(30) DEF ResultAt
<1>2. Fits(op, <<>>)
  BY SMTT(30) DEF Fits, OpMod
<1>3. /\ Adds(e, EmitPlain(e, op, <<>>), Made(e, op, <<>>), R)
      /\ EmitPlain(e, op, <<>>).nextId = e.nextId
  BY <1>1, <1>2, PlainAdds
<1>4. e.nextId <= EmitPlain(e, op, <<>>).nextId
  <2>1. e.nextId \in Nat
    BY DEF Emitter
  <2> QED BY <1>3, <2>1
<1> QED BY <1>3, <1>4, AddsOnward

\* The instructions of al2p, whatever ids it uses.
LEMMA Al2pOnward ==
    ASSUME TypeOK, Fine(em.words, em.nextId, reserved), NEW i \in Instruction, ~OutOfBounds(i.ra),
           NEW base, base = LoadReg(em, i.ra),
           NEW offset, offset = EmitTyped(base, 43, u32, <<i.off>>),
           NEW sum, sum = EmitTyped(offset, 128, u32, <<em.nextId, base.nextId>>)
    PROVE  /\ Onward(em, sum, reserved)
           /\ ~OutOfBounds(i.rd) => Onward(em, StoreReg(sum, i.rd, offset.nextId), reserved)
<1>1. /\ i.ra \in Registers /\ i.rd \in Registers /\ i.off \in Nat
      /\ em \in Emitter /\ u32 \in Nat /\ em.nextId \in Nat
      /\ \A r \in 0..(NRegs - 1) : regs[r] \in Nat
  BY DEF Instruction, TypeOK, Emitter
<1>2. Onward(em, base, reserved)
  <2>1. CASE i.ra = RZ
    <3>1. base = EmitTyped(em, 43, u32, <<0>>)
      BY <2>1 DEF LoadReg
    <3>2. TwoAtMost(<<0>>) /\ 43 \in {43, 61, 128}
      BY OperandsOf
    <3> QED BY <1>1, <3>1, <3>2, TypedOnward
  <2>2. CASE i.ra # RZ
    <3>1. i.ra \in 0..(NRegs - 1)
      BY <1>1, <2>2 DEF OutOfBounds, Registers, RZ
    <3>2. base = EmitTyped(em, 61, u32, <<regs[i.ra]>>)
      BY <2>2, Zenon DEF LoadReg
    <3>3. TwoAtMost(<<regs[i.ra]>>) /\ 61 \in {43, 61, 128}
      BY <1>1, <3>1, OperandsOf
    <3> QED BY <1>1, <3>2, <3>3, TypedOnward
  <2> QED BY <2>1, <2>2
<1>3. base \in Emitter /\ Fine(base.words, base.nextId, reserved) /\ base.nextId \in Nat
  BY <1>2 DEF Onward, Emitter
<1>4. Onward(base, offset, reserved)
  <2>1. TwoAtMost(<<i.off>>) /\ 43 \in {43, 61, 128}
    BY <1>1, OperandsOf
  <2> QED BY <1>1, <1>3, <2>1, TypedOnward
<1>5. offset \in Emitter /\ Fine(offset.words, offset.nextId, reserved) /\ offset.nextId \in Nat
  BY <1>4 DEF Onward, Emitter
<1>6. Onward(offset, sum, reserved)
  <2>1. TwoAtMost(<<em.nextId, base.nextId>>) /\ 128 \in {43, 61, 128}
    BY <1>1, <1>3, OperandsOf
  <2> QED BY <1>1, <1>5, <2>1, TypedOnward
<1>7. sum \in Emitter /\ Fine(sum.words, sum.nextId, reserved)
  BY <1>6 DEF Onward
<1>8. Onward(em, offset, reserved)
  BY <1>1, <1>2, <1>4, OnwardTransitive
<1>9. Onward(em, sum, reserved)
  BY <1>1, <1>6, <1>8, OnwardTransitive
<1>10. ASSUME ~OutOfBounds(i.rd) PROVE Onward(em, StoreReg(sum, i.rd, offset.nextId), reserved)
  <2>1. CASE i.rd = RZ
    BY <1>9, <2>1 DEF StoreReg
  <2>2. CASE i.rd # RZ
    <3>1. i.rd \in 0..(NRegs - 1)
      BY <1>1, <1>10, <2>2 DEF OutOfBounds, Registers, RZ
    <3>2. TwoAtMost(<<regs[i.rd], offset.nextId>>)
      BY <1>1, <1>5, <3>1, OperandsOf
    <3>3. StoreReg(sum, i.rd, offset.nextId) = EmitPlain(sum, 62, <<regs[i.rd], offset.nextId>>)
      BY <2>2, Zenon DEF StoreReg
    <3>4. Onward(sum, EmitPlain(sum, 62, <<regs[i.rd], offset.nextId>>), reserved)
      BY <1>7, <3>2, StoreOnward
    <3> QED BY <1>1, <1>9, <3>3, <3>4, OnwardTransitive
  <2> QED BY <2>1, <2>2
<1> QED BY <1>9, <1>10

\* Whatever translate emits are whole instructions with ids of their own, also when init
\* was not called and the ids they use are none.
LEMMA HandledOnward ==
    ASSUME TypeOK, Fine(em.words, em.nextId, reserved), NEW i \in Instruction, Handled(i)
    PROVE  em' = em \/ Onward(em, em', reserved)
<1>1. em \in Emitter
  BY DEF TypeOK
<1>2. CASE NoRow(i) \/ Unwritten(i)
  BY <1>2 DEF NoRow, Unwritten
<1>3. CASE Kill(i)
  BY <1>1, <1>3, BareOnward DEF Kill
<1>4. CASE Nop(i)
  BY <1>1, <1>4, BareOnward DEF Nop
<1>5. CASE Al2p(i)
  <2> DEFINE base == LoadReg(em, i.ra)
             offset == EmitTyped(base, 43, u32, <<i.off>>)
             sum == EmitTyped(offset, 128, u32, <<em.nextId, base.nextId>>)
  <2>1. \/ em' = em
        \/ ~OutOfBounds(i.ra) /\ em' = sum
        \/ ~OutOfBounds(i.ra) /\ ~OutOfBounds(i.rd) /\ em' = StoreReg(sum, i.rd, offset.nextId)
    BY <1>5, Zenon DEF Al2p
  <2>2. ~OutOfBounds(i.ra) =>
            /\ Onward(em, sum, reserved)
            /\ ~OutOfBounds(i.rd) => Onward(em, StoreReg(sum, i.rd, offset.nextId), reserved)
    BY Al2pOnward
  <2> HIDE DEF base, offset, sum
  <2> QED BY <2>1, <2>2
<1> QED BY <1>2, <1>3, <1>4, <1>5 DEF Handled

\* translate keeps the module readable, and in agreement with the guest if init came
\* before it.
LEMMA TranslateReads ==
    ASSUME IInv, Shape, WellRead, WellDecoded, NEW i \in First \cup Later, Translate(i)
    PROVE  WellRead' /\ WellDecoded' /\ Lengthens
<1>1. /\ TypeOK /\ em \in Emitter /\ i \in Instruction /\ guest \in Guests
      /\ early \in BOOLEAN
  BY InputAssumption DEF IInv, TypeOK, Shape, GuestTyped
<1>2. /\ UNCHANGED <<ready, u32, regs, reserved, asked, headers, renewed>>
      /\ early' = (early \/ ~ready)
  BY DEF Translate, decoder
<1>3. em'.boundIdx = em.boundIdx
  <2>1. Quiet \/ Emission
    BY <1>1, TranslateShape
  <2> QED BY <2>1 DEF Quiet, Emission, Grows
<1>4. UsedAsDocumented' <=> UsedAsDocumented
  BY <1>2, <1>3 DEF UsedAsDocumented
<1>5. ASSUME UsedAsDocumented
      PROVE  /\ Readable(em', reserved, asked)
             /\ Longer(Instructions(em.words), Instructions(em'.words))
  <2>1. Readable(em, reserved, asked) /\ Fine(em.words, em.nextId, reserved)
    BY <1>5 DEF WellRead, Readable
  <2>2. Handled(i)
    BY DEF Translate, Handled
  <2>3. em' = em \/ Onward(em, em', reserved)
    BY <1>1, <2>1, <2>2, HandledOnward
  <2>4. CASE em' = em
    <3>1. \A P \in Seq(Instr) : Longer(P, P)
      BY DEF Longer
    <3>2. Instructions(em.words) \in Seq(Instr)
      BY <2>1 DEF Fine
    <3> QED BY <2>1, <2>4, <3>1, <3>2
  <2>5. CASE Onward(em, em', reserved)
    BY <2>1, <2>5, OnwardReadable DEF Onward
  <2> QED BY <2>3, <2>4, <2>5
<1>6. WellRead' /\ Lengthens
  BY <1>2, <1>4, <1>5 DEF WellRead, Lengthens
<1>7. CASE ~ready
  BY <1>2, <1>6, <1>7 DEF WellDecoded
<1>8. CASE ready
  <2>1. Keeps
    BY <1>1, <1>2, <1>3, <1>8 DEF Keeps
  <2>2. ASSUME UsedAsDocumented
        PROVE  Onwards /\ (~guest'.predicated => ~guest.predicated /\ Follows(guest'))
    <3>1. Inside(i)
      BY <1>1, <1>8, <2>2 DEF Inside, Shape, RegistersTaken, WellRead, Readable
    <3>2. \/ NoRow(i) /\ i.mn \notin {"al2p", "kill"}
          \/ Al2p(i) /\ i.mn = "al2p"
          \/ Kill(i) /\ i.mn = "kill"
          \/ Nop(i) /\ i.mn = "nop"
          \/ Unwritten(i)
      BY RightHandler
    <3>3. CASE Unwritten(i)
      <4>1. em' = em /\ guest' = guest
        BY <3>3 DEF Unwritten, Panic
      <4> QED BY <4>1, NothingReads
    <3> QED BY <1>8, <3>1, <3>2, <3>3, NoRowReads, Al2pReads, KillReads, NopReads
  <2> QED BY <1>6, <2>1, <2>2, TranslationDecoded
<1> QED BY <1>7, <1>8

---------------------------------------------------------------------------
\* What a reader finds, in every reachable state

SInv == IInv /\ Shape /\ WellRead /\ WellDecoded /\ Bounded

\* The strengthened invariant holds at first.
LEMMA InitReads == Init => SInv
<1> SUFFICES ASSUME Init PROVE SInv
  OBVIOUS
<1>1. ~UsedAsDocumented
  BY DEF Init, UsedAsDocumented
<1> QED BY <1>1, InitHolds, InitShaped DEF SInv, WellRead, WellDecoded, Bounded

\* No call, no change.
LEMMA IdleReads ==
    WellRead /\ WellDecoded /\ UNCHANGED vars => WellRead' /\ WellDecoded' /\ Lengthens
BY SameReads DEF vars

\* Every call keeps it.
LEMMA StepReads == SInv /\ [Next]_vars => SInv'
<1> SUFFICES ASSUME SInv, [Next]_vars PROVE SInv'
  OBVIOUS
<1>1. IInv /\ Shape /\ WellRead /\ WellDecoded /\ Bounded /\ TypeOK /\ em \in Emitter
  BY DEF SInv, IInv, TypeOK
<1>2. IInv'
  BY <1>1, StepHolds
<1>3. SUFFICES Shape' /\ WellRead' /\ WellDecoded' /\ Bounded'
  BY <1>2 DEF SInv
<1>g. ASSUME Quiet \/ Emission, finalizedAt' = finalizedAt, WellRead', Lengthens PROVE Bounded'
  <2>1. Grows(em, em')
    BY <1>1, <1>g, GrowsSelf DEF Quiet, Emission
  <2> QED BY <1>1, <1>g, <2>1, GrowingBounded
<1>4. CASE Start
  BY <1>1, <1>4, StartShaped, StartReads
<1>5. CASE Take
  BY <1>1, <1>5, TakeShaped, TakeReads
<1>6. ASSUME NEW m \in Methods, NEW args \in Arguments(m), NEW text \in Texts(m, Strings),
             NEW list \in Lists(m, WordLists), Build(m, args, text, list)
      PROVE  Shape' /\ WellRead' /\ WellDecoded' /\ Bounded'
  <2>1. (Quiet \/ Emission) /\ finalizedAt' = finalizedAt
    BY <1>1, <1>6, BuildShape
  <2>2. Shape' /\ WellRead' /\ WellDecoded' /\ Lengthens
    BY <1>1, <1>6, BuildShaped, BuildReads
  <2> QED BY <1>g, <2>1, <2>2
<1>7. CASE InitDecoder
  <2>1. Emission /\ finalizedAt' = finalizedAt
    BY <1>1, <1>7, InitShape
  <2>2. Shape' /\ WellRead' /\ WellDecoded' /\ Lengthens
    BY <1>1, <1>2, <1>7, DecoderShaped, DecoderReads
  <2> QED BY <1>g, <2>1, <2>2
<1>8. ASSUME NEW i \in First \cup Later, Translate(i)
      PROVE  Shape' /\ WellRead' /\ WellDecoded' /\ Bounded'
  <2>1. (Quiet \/ Emission) /\ finalizedAt' = finalizedAt
    BY <1>1, <1>8, TranslateShape
  <2>2. Shape' /\ WellRead' /\ WellDecoded' /\ Lengthens
    BY <1>1, <1>8, TranslateShaped, TranslateReads
  <2> QED BY <1>g, <2>1, <2>2
<1>9. CASE Seal
  BY <1>1, <1>9, SealShaped, SealReads
<1>10. CASE UNCHANGED vars
  <2>1. Quiet /\ finalizedAt' = finalizedAt
    BY <1>10 DEF vars, Quiet
  <2>2. Shape' /\ WellRead' /\ WellDecoded' /\ Lengthens
    BY <1>1, <1>10, IdleShaped, IdleReads
  <2> QED BY <1>g, <2>1, <2>2
<1> QED BY <1>4, <1>5, <1>6, <1>7, <1>8, <1>9, <1>10 DEF Next

\* So it holds always.
LEMMA AlwaysReads == Spec => []SInv
<1>1. Init => SInv
  BY InitReads
<1>2. SInv /\ [Next]_vars => SInv'
  BY StepReads
<1> QED BY <1>1, <1>2, PTL DEF Spec

\* validate accepts every module whose header came first and once, whatever was emitted
\* behind it, in whatever order, and wherever translate panicked, and none that has no
\* header or one that came later (validate, emit_header).  It looks at no more than the
\* first word and the word counts.
THEOREM ValidateSeesHeader == Spec => []HeaderDecidesValidate
<1>1. ASSUME SInv PROVE HeaderDecidesValidate
  <2>1. UsedAsDocumented => Validate(em.words)
    BY <1>1 DEF SInv, WellRead, Readable, Fine
  <2>2. ASSUME Validate(em.words), em.nextId < Magic
        PROVE  headers > 0 /\ (headers = 1 => em.boundIdx = 3)
    <3>1. headers \in Nat /\ em.words \in Seq(Nat) /\ NotMagic
      BY <1>1 DEF SInv, IInv, TypeOK, Emitter, Shape
    <3>2. em.words[1] = Magic /\ em.words # <<>>
      <4>1. Len(em.words) >= 5 /\ em.words[1] = Magic
        BY <2>2, <3>1, ValidateWalks
      <4> QED BY <3>1, <4>1
    <3> QED BY <2>2, <3>1, <3>2 DEF NotMagic
  <2> QED BY <2>1, <2>2 DEF HeaderDecidesValidate
<1>2. SInv => HeaderDecidesValidate
  BY <1>1
<1> QED BY <1>2, AlwaysReads, PTL

\* For every list of calls: the ids below the bound in the header are those of the
\* instructions emitted before the last finalize, and no others (finalize, alloc_id,
\* inst).
THEOREM BoundCoversFinalized == Spec => []FinalizedBelowBound
<1>1. SInv => FinalizedBelowBound
  <2> SUFFICES ASSUME SInv, UsedAsDocumented
               PROVE  LET prog == Instructions(em.words)
                      IN \A k \in Results(prog) :
                            ResultOf(prog[k]) < em.words[em.boundIdx + 1] <=> prog[k].at <= finalizedAt
    BY DEF FinalizedBelowBound
  <2>1. em.boundIdx + 1 = 4 /\ BoundedBy(em, finalizedAt)
    BY DEF SInv, Bounded, UsedAsDocumented
  <2> QED BY <2>1 DEF BoundedBy
<1> QED BY <1>1, AlwaysReads, PTL

\* Every instruction an emit method was asked for is found at its place, with its
\* operands, its text and what follows the text (inst, encode_string).
THEOREM EverythingReadsBack == Spec => []ReadsBack
<1>1. SInv => ReadsBack
  BY DEF SInv, WellRead, Readable, Found, ReadsBack
<1> QED BY <1>1, AlwaysReads, PTL

\* As many ids as instructions that have one.
LEMMA OneEach ==
    ASSUME NEW P \in Seq(Instr), Once(P)
    PROVE  Cardinality(Defs(P)) = Cardinality(Results(P))
<1> DEFINE S == Results(P)
           f == [k \in S |-> ResultOf(P[k])]
<1>1. IsFiniteSet(S)
  <2>1. S \subseteq 1..Len(P) /\ Len(P) \in Int
    BY DEF Results
  <2>2. IsFiniteSet(1..Len(P))
    BY <2>1, FS_Interval
  <2> QED BY <2>1, <2>2, FS_Subset
<1>2. Defs(P) = {f[k] : k \in S}
  BY DEF Defs
<1>3. \A j, k \in S : f[j] = f[k] => j = k
  BY DEF Once
<1> HIDE DEF S
<1>4. f \in Bijection(S, Defs(P))
  <2>1. f \in [S -> Defs(P)]
    BY <1>2
  <2> QED BY <1>2, <1>3, <2>1 DEF Bijection, Injection, Surjection, IsInjective
<1>5. ExistsBijection(S, Defs(P))
  BY <1>4 DEF ExistsBijection
<1> QED BY <1>1, <1>5, FS_Bijection DEF S

\* Each id below the next one is the result of exactly one instruction, but for those
\* taken with alloc_id (inst_result, inst_typed, init).
THEOREM IdsOnce == Spec => []IdsDefinedOnce
<1>1. ASSUME SInv, UsedAsDocumented
      PROVE  /\ Defs(Instructions(em.words)) = (1..(em.nextId - 1)) \ reserved
             /\ Cardinality(Defs(Instructions(em.words))) = Cardinality(Results(Instructions(em.words)))
  <2>1. Fine(em.words, em.nextId, reserved)
    BY <1>1 DEF SInv, WellRead, Readable
  <2> QED BY <2>1, OneEach DEF Fine
<1>2. SInv => IdsDefinedOnce
  BY <1>1, Zenon DEF IdsDefinedOnce, Defs
<1> QED BY <1>2, AlwaysReads, PTL

\* A decoder that was set up first uses no id before the instruction that defines it, but
\* for the component type of the vector types, which is 0 (init, al2p, load_reg,
\* store_reg).
THEOREM DefinedFirst == Spec => []DefinedBeforeUse
<1>1. ASSUME SInv, UsedAsDocumented, asked = <<>>, ~early PROVE Sound(Instructions(em.words))
  BY <1>1 DEF SInv, WellDecoded, Decoded
<1>2. SInv => DefinedBeforeUse
  BY <1>1, Zenon DEF DefinedBeforeUse, Sound, Uses, Before
<1> QED BY <1>2, AlwaysReads, PTL

\* For every list of guest instructions, every number of registers and every width of
\* them: running what was emitted leaves in the variables what the guest's
\* instructions leave in the registers, if init was called once and before them and unless
\* one of them was predicated off (al2p, kill, nop, load_reg, store_reg).
THEOREM GuestComputed == Spec => []ComputesGuest
<1>1. ASSUME SInv, UsedAsDocumented, asked = <<>>, ready, ~early, ~renewed, ~guest.predicated
      PROVE  Agrees(Run(Instructions(em.words), Begin(regs), RegMod), guest, regs)
  BY <1>1 DEF SInv, WellDecoded, Decoded, After
<1>2. ASSUME SInv, UsedAsDocumented, asked = <<>>, ready, ~early, ~renewed, ~guest.predicated
      PROVE  LET ran == Run(Instructions(em.words), Begin(regs), RegMod)
             IN ran.dead = guest.dead /\ \A r \in 0..(NRegs - 1) : ran.mem[regs[r]] = guest.file[r]
  BY <1>1, <1>2 DEF Agrees
<1>3. SInv => ComputesGuest
  BY <1>2, Zenon DEF ComputesGuest, Begin
<1> QED BY <1>3, AlwaysReads, PTL
=================================================================================
