--------------------------------- MODULE Nand ---------------------------------
(***************************************************************************)
(* Nand and PartitionTable (fs/mod.rs, fs/partition.rs): the partitions of *)
(* the device, read and written at offsets of their own through            *)
(* EmulatedStorage.  A Nand is a storage handle and the default table.     *)
(***************************************************************************)
EXTENDS Storage, PartitionLayout

CONSTANT Parts   \* the partitions the callers use

ASSUME NandAssumption ==
    /\ Parts \subseteq PartitionId
    /\ MinBlocks <= TotalBlocks

table == default_partition_table(TotalBlocks)

\* size_bytes of the partition, and where it begins on the device
PartSize(p) == block_count(table[p]) * BlockSize
PartStart(p) == table[p].start * BlockSize

\* Mutant: the size of the partition is not looked at.
PartitionVerdictUnbounded(p, off, n) ==
    IF Panics(off + n) \/ Panics(PartStart(p) + off) THEN "panic" ELSE "ok"

\* The checks of read_partition and write_partition, and the sum that turns the
\* offset into one on the device.
PartitionVerdict(p, off, n) ==
    LET verdict == BytesVerdict(off, n, PartSize(p))
    IN IF verdict = "ok" /\ Panics(PartStart(p) + off) THEN "panic" ELSE verdict

AbsOffset(p, off) == Wrapped(PartStart(p) + off)

ReadPartition(h, p, off, n) ==
    LET verdict == PartitionVerdict(p, off, n)
    IN /\ Ask(h, "read", p, off, n, TRUE, <<>>)
       /\ IF verdict = "ok" THEN BytesRead(AbsOffset(p, off), n) ELSE Refuse(verdict)

\* The bounds are checked before the storage looks at its write protection.
WritePartition(h, p, off, buf) ==
    LET verdict == PartitionVerdict(p, off, Len(buf))
    IN /\ Ask(h, "write", p, off, Len(buf), TRUE, buf)
       /\ IF verdict = "ok" THEN BytesWritten(h, AbsOffset(p, off), buf) ELSE Refuse(verdict)

NandNext ==
    \/ \E h \in Handles :
         \/ Open(h)
         \/ Close(h)
         \/ \E flag \in BOOLEAN : SetWriteProtected(h, flag)
    \/ \E h \in Handles, p \in Parts, off \in Words :
         \/ \E n \in Lengths : ReadPartition(h, p, off, n)
         \/ \E buf \in Buffers : WritePartition(h, p, off, buf)

NandSpec == Init /\ [][NandNext]_vars
-------------------------------------------------------------------------------
(* Properties *)

\* Each partition is an array of its own: reads and writes of one never see or
\* touch another, whichever handles they go through.
Held(i) == IF i \in DOMAIN image THEN image[i] ELSE 0

Partitions == INSTANCE PartitionStore WITH
    Areas <- PartitionId,
    AreaSize <- [p \in PartitionId |-> PartSize(p)],
    store <- [p \in PartitionId |-> [i \in 1 .. PartSize(p) |-> Held(PartStart(p) + i)]]

ImplementsPartitions == Partitions!Spec
===============================================================================
