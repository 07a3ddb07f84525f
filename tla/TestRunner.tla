------------------------------- MODULE TestRunner -------------------------------
(***************************************************************************)
(* run_tests (tests/run.rs): a warm-up and nine short programs, each on a  *)
(* core of its own, with a check of the registers they leave.  An encoder  *)
(* gives an instruction word, as its top byte and the 24 bits below; the   *)
(* interpreter (Unicorn) is external and takes the word apart again.       *)
(***************************************************************************)
EXTENDS Integers, Sequences, FiniteSets

CONSTANTS
    XMod,       \* values of a register, 2^64
    MaxUnlucky  \* bound: tests of a run that are late or get no core

ASSUME TestAssumption == XMod \in Nat /\ XMod > 65536 /\ MaxUnlucky \in Nat

TEST_BASE_ADDR == 4096

---------------------------------------------------------------------------
\* The encoders of mod arm64.

Word32(top, rest) == [top |-> top, rest |-> rest]

add_imm(rd, rn, imm12) == Word32(145, imm12 * 1024 + rn * 32 + rd)
sub_imm(rd, rn, imm12) == Word32(209, imm12 * 1024 + rn * 32 + rd)

\* Mutant: rm is shifted by 15.
add_reg_shifted(rd, rn, rm) == Word32(139, rm * 32768 + rn * 32 + rd)

add_reg(rd, rn, rm) == Word32(139, rm * 65536 + rn * 32 + rd)
mov_reg(rd, rm) == Word32(170, rm * 65536 + 992 + rd)
ret == Word32(214, 6226880)
nop == Word32(213, 204831)
brk(imm16) == Word32(212, 2097152 + imm16 * 32)

---------------------------------------------------------------------------
\* One instruction, as the A64 instruction set has it.  XZR reads as 0 (it is the
\* register 31 of mov_reg); the programs name no other register above 30.

\* The field of so many values whose lowest bit stands for `unit`.
Bits(w, unit, values) == (w.rest \div unit) % values

X(s, r) == IF r = 31 THEN 0 ELSE s.x[r]

Goto(s, a) == [s EXCEPT !.pc = a]
Retire(s, rd, v) == [Goto(s, s.pc + 4) EXCEPT !.x[rd] = v % XMod]
Halt(s, how) == [s EXCEPT !.halt = how]

\* halt is how the core stopped: not yet, with an exception (BRK), or at a word
\* that is no instruction (memory is 0 where nothing was written).
Execute(s) ==
    LET w == IF s.pc \in DOMAIN s.mem THEN s.mem[s.pc] ELSE Word32(0, 0)
        rd == Bits(w, 1, 32)
        rn == Bits(w, 32, 32)
        imm == Bits(w, 1024, 4096)
        rm == Bits(w, 65536, 32)
        plain == Bits(w, 4194304, 4) = 0   \* the immediate or the register is not shifted
    IN IF s.halt # "no" THEN s
       ELSE IF w.top = 145 /\ plain THEN Retire(s, rd, X(s, rn) + imm)
       ELSE IF w.top = 209 /\ plain THEN Retire(s, rd, X(s, rn) - imm)
       ELSE IF w.top = 139 /\ plain /\ Bits(w, 1024, 64) = 0
            THEN Retire(s, rd, X(s, rn) + X(s, rm))
       ELSE IF w.top = 170 /\ plain /\ rn = 31 THEN Retire(s, rd, X(s, rm))
       ELSE IF w = nop THEN Goto(s, s.pc + 4)
       ELSE IF w = ret THEN Goto(s, X(s, 30))
       ELSE IF w.top = 212 /\ Bits(w, 2097152, 8) = 1 /\ rd = 0 THEN Halt(s, "exception")
       ELSE Halt(s, "invalid")

---------------------------------------------------------------------------
\* The programs, the registers set before they run, and what verify wants.

Test(program, setup, wanted) == [program |-> program, setup |-> setup, wanted |-> wanted]

PC == 32

\* Registers are pairs; 0xDEADBEEF is cut to its low half.
Tests == <<
    Test(<<nop>>, {}, {}),
    Test(<<add_imm(1, 1, 2)>>, {<<1, 5>>}, {<<1, 7>>}),
    Test(<<sub_imm(2, 2, 1)>>, {<<2, 10>>}, {<<2, 9>>}),
    Test(<<add_reg(0, 0, 1)>>, {<<0, 7>>, <<1, 3>>}, {<<0, 10>>}),
    Test(<<mov_reg(3, 4)>>, {<<3, 0>>, <<4, 48879>>}, {<<3, 48879>>}),
    Test(<<ret>>, {<<30, 8192>>}, {<<PC, 8192>>}),
    Test(<<add_imm(0, 0, 50)>>, {<<0, 100>>}, {<<0, 150>>}),
    Test(<<add_imm(1, 1, 1), add_imm(1, 1, 1), add_imm(1, 1, 1)>>, {<<1, 0>>}, {<<1, 3>>}),
    Test(<<add_imm(0, 0, 5), sub_imm(1, 1, 3), add_reg(0, 0, 1)>>,
         {<<0, 10>>, <<1, 20>>}, {<<0, 32>>, <<1, 17>>})
>>

\* warmup_jit, whose outcome nobody looks at.
Warmup == Test(<<nop, add_imm(0, 0, 1), add_reg(1, 1, 2), mov_reg(3, 4)>>,
               {<<0, 10>>, <<1, 20>>, <<2, 30>>, <<4, 51966>>}, {})

\* The core before run: the program from TEST_BASE_ADDR on, a BRK after it, the
\* registers of the test and 0 in the others.
Prepared(t) ==
    LET n == Len(t.program)
        written == [k \in 1 .. n + 1 |-> IF k <= n THEN t.program[k] ELSE brk(0)]
        given(r) == {s[2] : s \in {s \in t.setup : s[1] = r}}
    IN [pc   |-> TEST_BASE_ADDR,
        mem  |-> [a \in {TEST_BASE_ADDR + 4 * (k - 1) : k \in DOMAIN written} |->
                     written[(a - TEST_BASE_ADDR) \div 4 + 1]],
        x    |-> [r \in 0 .. 30 |-> IF given(r) = {} THEN 0 ELSE CHOOSE v \in given(r) : TRUE],
        halt |-> "no"]

\* The core after so many instructions that a program without a loop has stopped.
\* run itself has no limit.
Stopped(t) ==
    LET enough == Len(t.program) + 2
        ran[n \in 0 .. enough] == IF n = 0 THEN Prepared(t) ELSE Execute(ran[n - 1])
    IN ran[enough]

\* Does run return, for the warm-up and for each of the tests?
AllStop == \A t \in {Warmup} \cup {Tests[k] : k \in DOMAIN Tests} : Stopped(t).halt # "no"

Verified(t, s) ==
    /\ t.wanted = {} => s.pc >= TEST_BASE_ADDR + 4
    /\ \A want \in t.wanted : want[2] = IF want[1] = PC THEN s.pc ELSE s.x[want[1]]

\* The value of run, as success or not: any error with EXCEPTION in its name counts
\* as success.  What Unicorn calls the error at a word that is no instruction is
\* external.
RunSucceeds(s) == IF s.halt = "exception" THEN {TRUE} ELSE BOOLEAN

\* What run_test may say of a test that got its core and was in time.
run_test(t) ==
    LET s == Stopped(t)
    IN {IF ~success THEN "not_executed" ELSE IF Verified(t, s) THEN "pass" ELSE "not_verified"
            : success \in RunSucceeds(s)}

\* A run of the tests: what each of them says, and which of them got no core or were
\* late.  The time is looked at when run has returned, before its result.
LuckyReports ==
    LET says == [k \in DOMAIN Tests |-> run_test(Tests[k])]
    IN {v \in [DOMAIN Tests -> UNION {says[k] : k \in DOMAIN Tests}] :
            \A k \in DOMAIN Tests : v[k] \in says[k]}

run_tests ==
    {[k \in DOMAIN Tests |-> IF k \in unlucky THEN why ELSE v[k]] :
        unlucky \in {u \in SUBSET DOMAIN Tests : Cardinality(u) <= MaxUnlucky},
        why \in {"no_core", "timeout"}, v \in LuckyReports}

\* The last line of the log; how many of the tests that failed got no core or were
\* late is not in it.
Total(results) ==
    [passed  |-> Cardinality({k \in DOMAIN results : results[k] = "pass"}),
     unlucky |-> Cardinality({k \in DOMAIN results : results[k] \in {"no_core", "timeout"}})]

NoReport == [passed |-> 0, unlucky |-> 0]
=================================================================================
