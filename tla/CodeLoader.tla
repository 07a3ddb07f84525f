------------------------------- MODULE CodeLoader -------------------------------
(***************************************************************************)
(* Kernel::load_code, one chunk a step, over the memory all cores share.   *)
(* A word is its four bytes, the lowest first, which is how to_le_bytes    *)
(* and from_le_bytes take it apart and put it together.                    *)
(***************************************************************************)
EXTENDS Integers, Sequences

CONSTANT MemSize   \* MEMORY_SIZE, 12 GiB in the code

ASSUME MemAssumption == MemSize \in Nat /\ MemSize % 4 = 0

VARIABLES
    mem,      \* the memory, mapped from address 0
    loaded    \* bytes of the code that were dealt with

Addresses == 0..(MemSize - 1)

Blank == [a \in Addresses |-> 0]

\* mem_write is refused as a whole when a byte of the range is not mapped, and
\* write_u32 does not tell.
WriteU32(addr, word) ==
    IF addr + 4 <= MemSize
    THEN [a \in Addresses |-> IF addr <= a /\ a < addr + 4 THEN word[a - addr + 1] ELSE mem[a]]
    ELSE mem

\* 0 when the range is not mapped.
ReadU32(addr) ==
    [k \in 1..4 |-> IF addr + 4 <= MemSize THEN mem[addr + k - 1] ELSE 0]

\* Mutant: the byte always goes to the lowest place of the word.
WithByteLowest(word, offset, byte) == [word EXCEPT ![1] = byte]

\* The byte at offset of a word that lies around it replaced.
WithByte(word, offset, byte) == [word EXCEPT ![(offset % 4) + 1] = byte]

\* The next step for code at vaddr: four bytes as a word, or one of the last three
\* through the word around it.
LoadChunk(vaddr, code) ==
    LET offset == vaddr + loaded
        aligned == offset - (offset % 4)
    IN /\ loaded < Len(code)
       /\ IF loaded + 4 <= Len(code)
          THEN /\ mem' = WriteU32(offset, SubSeq(code, loaded + 1, loaded + 4))
               /\ loaded' = loaded + 4
          ELSE /\ mem' = WriteU32(aligned, WithByte(ReadU32(aligned), offset, code[loaded + 1]))
               /\ loaded' = loaded + 1

\* before with the code at vaddr in it, as far as there is memory.
WithCode(before, vaddr, code) ==
    [a \in Addresses |-> IF vaddr <= a /\ a < vaddr + Len(code) THEN code[a - vaddr + 1]
                         ELSE before[a]]
=================================================================================
