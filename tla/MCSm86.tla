--------------------------------- MODULE MCSm86 ---------------------------------
(***************************************************************************)
(* The decoder with its table, two registers (0 and 1; 2 stands for R254,  *)
(* which load_reg has no variable for, 3 for RZ).                          *)
(***************************************************************************)
EXTENDS Shader

Al2pOf(ra, rd, off, bop, pg) ==
    [mn |-> "al2p", key |-> \h920, ra |-> ra, rd |-> rd, off |-> off, bop |-> bop, pg |-> pg]
Plain(mn, key, pg) ==
    [Al2pOf(0, 0, 0, 0, pg) EXCEPT !.mn = mn, !.key = key]

SampleInstructions ==
    {Al2pOf(ra, rd, 1, 0, TRUE) : ra \in 0..3, rd \in 0..3}
    \cup {Al2pOf(1, 0, 0, 0, TRUE), Al2pOf(0, 1, 1, 2, TRUE), Al2pOf(0, 1, 1, 0, FALSE)}
    \cup {Plain("kill", \h95B, TRUE), Plain("kill", \h95B, FALSE), Plain("nop", \h918, TRUE)}
    \cup {Plain("shl", \h219, TRUE), Plain("unknown", \hFFF, TRUE)}

\* Those offered later: a register to another, RZ and R254 as source and as
\* destination, and one of each other kind.
LaterInstructions ==
    {Al2pOf(0, 1, 1, 0, TRUE), Al2pOf(1, 0, 1, 0, TRUE), Al2pOf(3, 0, 1, 0, TRUE),
     Al2pOf(2, 1, 1, 0, TRUE), Al2pOf(1, 2, 1, 0, TRUE), Al2pOf(1, 3, 1, 0, TRUE),
     Plain("kill", \h95B, TRUE), Plain("nop", \h918, TRUE), Plain("shl", \h219, TRUE)}

\* An instruction of every row of the table.
AllInstructions ==
    SampleInstructions \cup {Plain(row[1], row[2], TRUE) : row \in Encodings}

\* Texts of three, four and five bytes.
SomeStrings == {<<65, 66, 67>>, <<65, 66, 67, 68>>, <<97, 97, 97, 97, 98>>}

\* Operands that the four methods assert, at the edge of it and beyond.
SomeOperands ==
    {<<8>>, <<16>>, <<64>>, <<8, 0>>, <<64, 1>>, <<32, 2>>, <<7, 1>>, <<7, 2>>, <<7, 16>>, <<7, 17>>}

\* With WcMod = 16, lists that fit, that make the word count 16 or more, and one
\* whose words look like instructions.
SomeLists == {<<>>, <<1, 2>>, [k \in 1..14 |-> k], [k \in 1..18 |-> 65536]}
===================================================================================
