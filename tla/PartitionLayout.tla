--------------------------- MODULE PartitionLayout ---------------------------
(***************************************************************************)
(* default_partition_table (fs/partition.rs): five partitions one after    *)
(* the other between the GPT header and the backup GPT; the last one takes *)
(* what is left of the device.                                             *)
(***************************************************************************)
EXTENDS Integers

\* Sizes in blocks, with their values in the code.
CONSTANTS
    GptReserved,      \* 34
    BackupGpt,        \* 33
    ProdInfoBlocks,   \* 8 MiB, 2048
    ProdInfoFBlocks,  \* 8 MiB, 2048
    SafeBlocks,       \* 64 MiB, 16384
    SystemBlocks      \* 4 GiB, 1048576

ASSUME LayoutAssumption ==
    /\ GptReserved \in Nat
    /\ BackupGpt \in Nat
    /\ {ProdInfoBlocks, ProdInfoFBlocks, SafeBlocks, SystemBlocks} \subseteq Nat \ {0}

PartitionId == {"ProdInfo", "ProdInfoF", "Safe", "System", "User"}

ProdInfoStart == GptReserved
ProdInfoFStart == ProdInfoStart + ProdInfoBlocks
SafeStart == ProdInfoFStart + ProdInfoFBlocks
SystemStart == SafeStart + SafeBlocks

UserStart == SystemStart + SystemBlocks

Fixed(start, blocks) == [start |-> start, end |-> start + blocks - 1]

\* A GptEntry is its first and its last block.
default_partition_table(total_blocks) ==
    [id \in PartitionId |->
        CASE id = "ProdInfo"  -> Fixed(ProdInfoStart, ProdInfoBlocks)
          [] id = "ProdInfoF" -> Fixed(ProdInfoFStart, ProdInfoFBlocks)
          [] id = "Safe"      -> Fixed(SafeStart, SafeBlocks)
          [] id = "System"    -> Fixed(SystemStart, SystemBlocks)
          [] id = "User"      -> [start |-> UserStart, end |-> total_blocks - BackupGpt - 1]]

block_count(entry) == entry.end - entry.start + 1

\* A device this small leaves USER one block.
MinBlocks == UserStart + BackupGpt + 1
-------------------------------------------------------------------------------
\* The partitions of a table are in the usable part of the device, no two of them
\* share a block, and together they use all of it ("USER gets everything
\* remaining").
Tiles(table, total_blocks) ==
    /\ \A p \in PartitionId :
         /\ GptReserved <= table[p].start
         /\ table[p].start <= table[p].end
         /\ table[p].end < total_blocks - BackupGpt
    /\ \A p, q \in PartitionId :
         p # q => table[p].end < table[q].start \/ table[q].end < table[p].start
    /\ block_count(table["ProdInfo"]) + block_count(table["ProdInfoF"])
         + block_count(table["Safe"]) + block_count(table["System"])
         + block_count(table["User"]) = total_blocks - GptReserved - BackupGpt
===============================================================================
