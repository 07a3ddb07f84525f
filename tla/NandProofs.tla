------------------------------ MODULE NandProofs ------------------------------
(***************************************************************************)
(* In a build with overflow checks the partitions of a Nand are arrays of  *)
(* their own, for every layout, capacity, word size and set of handles.    *)
(* Two facts carry the proof: the layout puts every partition inside the   *)
(* device and apart from the others (LayoutTiles), and a range that passes *)
(* the checks of the partition passes those of the device unchanged.       *)
(***************************************************************************)
EXTENDS Nand, StorageProofs, TLAPS

---------------------------------------------------------------------------
(* What default_partition_table returns, for every size of the partitions and *)
(* of the device.                                                             *)

\* The entries of the table, one by one.
LEMMA Entries ==
    ASSUME NEW total \in Nat
    PROVE  LET parts == default_partition_table(total)
           IN /\ parts["ProdInfo"] = Fixed(ProdInfoStart, ProdInfoBlocks)
              /\ parts["ProdInfoF"] = Fixed(ProdInfoFStart, ProdInfoFBlocks)
              /\ parts["Safe"] = Fixed(SafeStart, SafeBlocks)
              /\ parts["System"] = Fixed(SystemStart, SystemBlocks)
              /\ parts["User"] = [start |-> UserStart, end |-> total - BackupGpt - 1]
BY DEF default_partition_table, PartitionId

\* Each partition begins where the one before it ends.
LEMMA Starts ==
    /\ ProdInfoStart = GptReserved
    /\ ProdInfoFStart = ProdInfoStart + ProdInfoBlocks
    /\ SafeStart = ProdInfoFStart + ProdInfoFBlocks
    /\ SystemStart = SafeStart + SafeBlocks
    /\ UserStart = SystemStart + SystemBlocks
    /\ MinBlocks = UserStart + BackupGpt + 1
    /\ {ProdInfoStart, ProdInfoFStart, SafeStart, SystemStart, UserStart, MinBlocks} \subseteq Nat
BY LayoutAssumption
   DEF ProdInfoStart, ProdInfoFStart, SafeStart, SystemStart, UserStart, MinBlocks

\* On every device that leaves USER a block, the five partitions lie between the GPT
\* and its backup, share no block and leave none out (default_partition_table).
THEOREM LayoutTiles ==
    \A total \in Nat : MinBlocks <= total => Tiles(default_partition_table(total), total)
<1> SUFFICES ASSUME NEW total \in Nat, MinBlocks <= total
             PROVE  Tiles(default_partition_table(total), total)
  OBVIOUS
<1> DEFINE parts == default_partition_table(total)
<1>1. /\ parts["ProdInfo"] = Fixed(ProdInfoStart, ProdInfoBlocks)
      /\ parts["ProdInfoF"] = Fixed(ProdInfoFStart, ProdInfoFBlocks)
      /\ parts["Safe"] = Fixed(SafeStart, SafeBlocks)
      /\ parts["System"] = Fixed(SystemStart, SystemBlocks)
      /\ parts["User"] = [start |-> UserStart, end |-> total - BackupGpt - 1]
  BY Entries
<1> HIDE DEF parts
<1>2. /\ parts["ProdInfo"].start = ProdInfoStart
      /\ parts["ProdInfo"].end = ProdInfoStart + ProdInfoBlocks - 1
      /\ parts["ProdInfoF"].start = ProdInfoFStart
      /\ parts["ProdInfoF"].end = ProdInfoFStart + ProdInfoFBlocks - 1
      /\ parts["Safe"].start = SafeStart
      /\ parts["Safe"].end = SafeStart + SafeBlocks - 1
      /\ parts["System"].start = SystemStart
      /\ parts["System"].end = SystemStart + SystemBlocks - 1
      /\ parts["User"].start = UserStart
      /\ parts["User"].end = total - BackupGpt - 1
  BY <1>1 DEF Fixed
<1>3. \A p \in PartitionId :
        /\ GptReserved <= parts[p].start
        /\ parts[p].start <= parts[p].end
        /\ parts[p].end < total - BackupGpt
  BY <1>2, Starts, LayoutAssumption DEF PartitionId
<1>4. \A p, q \in PartitionId :
        p # q => parts[p].end < parts[q].start \/ parts[q].end < parts[p].start
  BY <1>2, Starts, LayoutAssumption DEF PartitionId
<1>5. block_count(parts["ProdInfo"]) + block_count(parts["ProdInfoF"])
        + block_count(parts["Safe"]) + block_count(parts["System"])
        + block_count(parts["User"]) = total - GptReserved - BackupGpt
  <2>1. /\ ProdInfoStart \in Int /\ ProdInfoFStart \in Int /\ SafeStart \in Int
        /\ SystemStart \in Int /\ UserStart \in Int
        /\ ProdInfoBlocks \in Int /\ ProdInfoFBlocks \in Int
        /\ SafeBlocks \in Int /\ SystemBlocks \in Int
    BY Starts, LayoutAssumption
  <2>2. /\ block_count(parts["ProdInfo"]) = ProdInfoBlocks
        /\ block_count(parts["ProdInfoF"]) = ProdInfoFBlocks
        /\ block_count(parts["Safe"]) = SafeBlocks
        /\ block_count(parts["System"]) = SystemBlocks
    BY <1>2, <2>1 DEF block_count
  <2>3. block_count(parts["User"]) = total - BackupGpt - UserStart
    BY <1>2, Starts, LayoutAssumption DEF block_count
  <2>4. UserStart = GptReserved + ProdInfoBlocks + ProdInfoFBlocks + SafeBlocks + SystemBlocks
    BY LayoutAssumption
       DEF ProdInfoStart, ProdInfoFStart, SafeStart, SystemStart, UserStart
  <2> QED BY <2>2, <2>3, <2>4, LayoutAssumption
<1> QED BY <1>3, <1>4, <1>5 DEF Tiles, parts

---------------------------------------------------------------------------
(* The partitions of a Nand *)

\* In bytes: a partition is inside the device, and of two partitions one ends before
\* the other begins.
LEMMA PartitionRanges ==
    /\ \A p \in PartitionId :
         /\ PartStart(p) \in Nat /\ PartSize(p) \in Nat
         /\ PartStart(p) + PartSize(p) <= Capacity
    /\ \A p, q \in PartitionId : p # q =>
         \/ PartStart(p) + PartSize(p) <= PartStart(q)
         \/ PartStart(q) + PartSize(q) <= PartStart(p)
<1>1. /\ BlockSize \in Nat /\ BlockSize > 0 /\ TotalBlocks \in Nat
      /\ Capacity = TotalBlocks * BlockSize
  BY Sizes, SMT DEF Capacity
<1>2. Tiles(table, TotalBlocks)
  BY <1>1, LayoutTiles, NandAssumption DEF table
<1>3. GptReserved \in Nat /\ BackupGpt \in Nat
  BY LayoutAssumption
<1>4. ASSUME NEW p \in PartitionId
      PROVE  table[p].start \in Nat /\ table[p].end \in Int
  <2>1. /\ table["ProdInfo"] = Fixed(ProdInfoStart, ProdInfoBlocks)
        /\ table["ProdInfoF"] = Fixed(ProdInfoFStart, ProdInfoFBlocks)
        /\ table["Safe"] = Fixed(SafeStart, SafeBlocks)
        /\ table["System"] = Fixed(SystemStart, SystemBlocks)
        /\ table["User"] = [start |-> UserStart, end |-> TotalBlocks - BackupGpt - 1]
    BY <1>1, Entries DEF table
  <2>2. \A start, blocks \in Nat :
          Fixed(start, blocks).start \in Nat /\ Fixed(start, blocks).end \in Int
    BY DEF Fixed
  <2>3. UserStart \in Nat /\ TotalBlocks - BackupGpt - 1 \in Int
    BY <1>1, <1>3, Starts
  <2>4. /\ ProdInfoStart \in Nat /\ ProdInfoFStart \in Nat /\ SafeStart \in Nat
        /\ SystemStart \in Nat /\ ProdInfoBlocks \in Nat /\ ProdInfoFBlocks \in Nat
        /\ SafeBlocks \in Nat /\ SystemBlocks \in Nat
    BY Starts, LayoutAssumption
  <2> QED BY <2>1, <2>2, <2>3, <2>4, SMTT(30) DEF PartitionId
<1>5. ASSUME NEW p \in PartitionId
      PROVE  /\ PartStart(p) \in Nat /\ PartSize(p) \in Nat
             /\ PartStart(p) + PartSize(p) = (table[p].end + 1) * BlockSize
             /\ PartStart(p) + PartSize(p) <= Capacity
  <2> DEFINE s == table[p].start
             e == table[p].end
  <2>1. s \in Nat /\ e \in Int /\ s <= e /\ e + 1 <= TotalBlocks
    BY <1>1, <1>2, <1>3, <1>4 DEF Tiles
  <2> HIDE DEF s, e
  <2>2. /\ s * BlockSize \in Nat /\ (e - s + 1) * BlockSize \in Nat
        /\ s * BlockSize + (e - s + 1) * BlockSize = (e + 1) * BlockSize
    BY <1>1, <2>1, SMT
  <2>3. (e + 1) * BlockSize <= TotalBlocks * BlockSize
    BY <1>1, <2>1, SMT
  <2>4. PartStart(p) = s * BlockSize /\ PartSize(p) = (e - s + 1) * BlockSize
    BY DEF PartStart, PartSize, block_count, s, e
  <2> QED BY <1>1, <2>2, <2>3, <2>4 DEF s, e
<1>6. ASSUME NEW p \in PartitionId, NEW q \in PartitionId, table[p].end < table[q].start
      PROVE  PartStart(p) + PartSize(p) <= PartStart(q)
  <2> DEFINE s == table[q].start
             e == table[p].end
  <2>1. s \in Nat /\ e \in Int /\ e + 1 <= s
    BY <1>4, <1>6
  <2> HIDE DEF s, e
  <2>2. (e + 1) * BlockSize <= s * BlockSize
    BY <1>1, <2>1, SMT
  <2>3. PartStart(q) = s * BlockSize /\ PartStart(p) + PartSize(p) = (e + 1) * BlockSize
    BY <1>5 DEF PartStart, s, e
  <2> QED BY <2>2, <2>3
<1> QED BY <1>2, <1>5, <1>6 DEF Tiles

\* With overflow checks a call passes the checks of its partition exactly when its
\* range is in it, and then the sum is the true one and the device takes it too.
LEMMA PartitionVerdicts ==
    ASSUME OverflowChecks, NEW p \in PartitionId, NEW off \in Nat, NEW n \in Nat
    PROVE  /\ AbsOffset(p, off) \in Nat
           /\ PartitionVerdict(p, off, n) = "ok" =>
                /\ off + n <= PartSize(p)
                /\ AbsOffset(p, off) = PartStart(p) + off
                /\ BytesVerdict(AbsOffset(p, off), n, Capacity) = "ok"
           /\ PartitionVerdict(p, off, n) # "ok" =>
                /\ PartitionVerdict(p, off, n) \in {"invalid", "panic"}
                /\ ~(off + n <= PartSize(p))
<1> DEFINE start == PartStart(p)
           size == PartSize(p)
<1>1. /\ start \in Nat /\ size \in Nat /\ start + size <= Capacity
      /\ Capacity \in Nat /\ WordMod \in Nat /\ Capacity < WordMod
  BY PartitionRanges, Sizes
<1>2. AbsOffset(p, off) = Wrapped(start + off) /\ Wrapped(start + off) \in Nat
      /\ (start + off < WordMod => Wrapped(start + off) = start + off)
  <2>1. start + off \in Nat
    BY <1>1
  <2>2. Wrapped(start + off) \in Nat /\ (start + off < WordMod => Wrapped(start + off) = start + off)
    BY <2>1, WrappedFacts
  <2> QED BY <2>2 DEF AbsOffset
<1>3. /\ BytesVerdict(off, n, size) = "ok" <=> (off + n < WordMod /\ off + n <= size)
      /\ BytesVerdict(off, n, size) \in {"ok", "invalid", "panic"}
  BY <1>1, CheckedVerdicts
<1>4. PartitionVerdict(p, off, n) =
        IF BytesVerdict(off, n, size) = "ok" /\ start + off >= WordMod THEN "panic"
        ELSE BytesVerdict(off, n, size)
  BY DEF PartitionVerdict, Panics
<1> HIDE DEF start, size
<1>5. ASSUME BytesVerdict(off, n, size) = "ok"
      PROVE  /\ off + n <= size /\ start + off < WordMod
             /\ AbsOffset(p, off) = start + off
             /\ BytesVerdict(AbsOffset(p, off), n, Capacity) = "ok"
  <2>1. off + n <= size /\ start + off + n <= Capacity /\ start + off + n < WordMod
        /\ start + off < WordMod /\ start + off \in Nat
    BY <1>1, <1>3, <1>5
  <2>2. AbsOffset(p, off) = start + off
    BY <1>2, <2>1
  <2>3. BytesVerdict(start + off, n, Capacity) = "ok" <=>
          (start + off + n < WordMod /\ start + off + n <= Capacity)
    BY <1>1, <2>1, CheckedVerdicts
  <2> QED BY <2>1, <2>2, <2>3
<1>6. CASE BytesVerdict(off, n, size) = "ok"
  BY <1>1, <1>2, <1>4, <1>5, <1>6 DEF start, size
<1>7. CASE BytesVerdict(off, n, size) # "ok"
  <2>1. PartitionVerdict(p, off, n) = BytesVerdict(off, n, size)
        /\ BytesVerdict(off, n, size) \in {"invalid", "panic"}
    BY <1>3, <1>4, <1>7
  <2>2. ~(off + n <= size)
    BY <1>1, <1>3, <1>7
  <2> QED BY <1>2, <1>7, <2>1, <2>2 DEF size
<1> QED BY <1>6, <1>7
-------------------------------------------------------------------------------
(* The invariant of the storage, under the steps of a Nand *)

\* Every step of a Nand is housekeeping of a handle, or a harmless read or write.
LEMMA NandStepIsHarmless ==
    ASSUME SInv, NandNext
    PROVE  Housekeeping \/ Harmless
<1>1. CASE \E h \in Handles :
             \/ Open(h)
             \/ Close(h)
             \/ \E flag \in BOOLEAN : SetWriteProtected(h, flag)
  BY <1>1 DEF Housekeeping
<1>2. ASSUME NEW h \in Handles, NEW p \in Parts, NEW off \in Words
      PROVE  /\ \A n \in Lengths : ReadPartition(h, p, off, n) => Harmless
             /\ \A buf \in Buffers : WritePartition(h, p, off, buf) => Harmless
  <2>1. p \in PartitionId /\ off \in Nat /\ PartStart(p) \in Nat
    BY NandAssumption, ArgumentFacts, PartitionRanges
  <2>2. AbsOffset(p, off) \in Nat
    BY <2>1, WrappedFacts DEF AbsOffset
  <2>3. \A n : PartitionVerdict(p, off, n) \in Statuses
    BY VerdictTypes DEF PartitionVerdict, Statuses
  <2>4. TypeOK /\ OpenIsFull
    BY DEF SInv
  <2>5. ASSUME NEW n \in Lengths, ReadPartition(h, p, off, n)
        PROVE  Harmless
    <3>1. mode[h] # "closed" /\ UNCHANGED <<exists, mode, wp>>
      BY <2>5, AskFacts DEF ReadPartition
    <3>2. BytesRead(AbsOffset(p, off), n) \/ Refuse(PartitionVerdict(p, off, n))
      BY <2>5 DEF ReadPartition
    <3> QED BY <2>2, <2>3, <2>4, <3>1, <3>2, BytesHarmless, RefuseHarmless
  <2>6. ASSUME NEW buf \in Buffers, WritePartition(h, p, off, buf)
        PROVE  Harmless
    <3>1. mode[h] # "closed" /\ UNCHANGED <<exists, mode, wp>>
      BY <2>6, AskFacts DEF WritePartition
    <3>2. BytesWritten(h, AbsOffset(p, off), buf) \/ Refuse(PartitionVerdict(p, off, Len(buf)))
      BY <2>6 DEF WritePartition
    <3> QED BY <2>2, <2>3, <2>4, <3>1, <3>2, BytesHarmless, RefuseHarmless
  <2> QED BY <2>5, <2>6
<1> QED BY <1>1, <1>2 DEF NandNext

\* The invariant of the storage is one of the Nand, with and without overflow checks.
LEMMA NandInvariance == NandSpec => []SInv
<1>1. Init => SInv
  BY InitSInv
<1>2. SInv /\ [NandNext]_vars => SInv'
  <2>1. ASSUME SInv, NandNext PROVE SInv'
    BY <2>1, NandStepIsHarmless, HousekeepingFacts, HarmlessSInv
  <2>2. ASSUME SInv, UNCHANGED vars PROVE SInv'
    BY <2>2 DEF vars, handles, SInv, TypeOK, OpenIsFull
  <2> QED BY <2>1, <2>2
<1> QED BY <1>1, <1>2, PTL DEF NandSpec
-------------------------------------------------------------------------------
(* Partitions as arrays of their own *)

Area(p) == [i \in 1 .. PartSize(p) |-> Held(PartStart(p) + i)]

\* The bytes of a partition are bytes of the device.
LEMMA AreaOfView ==
    ASSUME NEW p \in PartitionId
    PROVE  /\ Area(p) = [i \in 1 .. PartSize(p) |-> View[PartStart(p) + i]]
           /\ \A i \in 1 .. PartSize(p) : PartStart(p) + i \in 1 .. Capacity
<1>1. /\ PartStart(p) \in Nat /\ PartSize(p) \in Nat
      /\ PartStart(p) + PartSize(p) <= Capacity /\ Capacity \in Nat
  BY PartitionRanges, Sizes
<1>2. \A i \in 1 .. PartSize(p) : PartStart(p) + i \in 1 .. Capacity
  BY <1>1
<1>3. \A i \in 1 .. PartSize(p) : Held(PartStart(p) + i) = View[PartStart(p) + i]
  BY <1>2 DEF Held, View
<1> QED BY <1>2, <1>3 DEF Area

\* A write inside one partition patches its array and leaves the others.
LEMMA AreasWritten ==
    ASSUME NEW p \in PartitionId, NEW off \in Nat, NEW len \in Nat, NEW n \in 0 .. len,
           off + len <= PartSize(p), NEW buf,
           View' = [i \in 1 .. Capacity |->
                      IF PartStart(p) + off < i /\ i <= PartStart(p) + off + n
                      THEN buf[i - (PartStart(p) + off)] ELSE View[i]]
    PROVE  /\ Area(p)' = Partitions!Patched(Area(p), off, buf, n)
           /\ \A q \in PartitionId : q # p => Area(q)' = Area(q)
<1> DEFINE start == PartStart(p)
           size == PartSize(p)
<1>1. start \in Nat /\ size \in Nat /\ start + size <= Capacity /\ Capacity \in Nat
  BY PartitionRanges, Sizes
<1>2. \A q \in PartitionId :
        Area(q)' = [i \in 1 .. PartSize(q) |-> View'[PartStart(q) + i]]
  <2>1. ASSUME NEW q \in PartitionId
        PROVE  Area(q)' = [i \in 1 .. PartSize(q) |-> View'[PartStart(q) + i]]
    <3>1. \A i \in 1 .. PartSize(q) : PartStart(q) + i \in 1 .. Capacity
      BY AreaOfView
    <3>2. \A i \in 1 .. PartSize(q) : Held(PartStart(q) + i)' = View'[PartStart(q) + i]
      BY <3>1 DEF Held, View
    <3> QED BY <3>2 DEF Area
  <2> QED BY <2>1
<1>3. \A k \in 1 .. Capacity :
        View'[k] = IF start + off < k /\ k <= start + off + n
                   THEN buf[k - (start + off)] ELSE View[k]
  OBVIOUS
<1>4. ASSUME NEW i \in 1 .. size
      PROVE  View'[start + i] = IF off < i /\ i <= off + n THEN buf[i - off] ELSE View[start + i]
  <2>1. start + i \in 1 .. Capacity
    BY <1>1, <1>4
  <2>2. /\ start + off < start + i <=> off < i
        /\ start + i <= start + off + n <=> i <= off + n
        /\ (start + i) - (start + off) = i - off
    BY <1>1, <1>4, SMTT(30)
  <2>3. View'[start + i] = IF start + off < start + i /\ start + i <= start + off + n
                           THEN buf[(start + i) - (start + off)] ELSE View[start + i]
    BY <1>3, <2>1, Zenon
  <2> QED BY <2>2, <2>3
<1>5. Area(p)' = Partitions!Patched(Area(p), off, buf, n)
  <2>1. Area(p)' = [i \in 1 .. size |-> View'[start + i]]
    BY <1>2
  <2>2. Area(p) = [i \in 1 .. size |-> View[start + i]]
    BY AreaOfView
  <2> QED BY <1>4, <2>1, <2>2, SMTT(30) DEF Partitions!Patched
<1>6. ASSUME NEW q \in PartitionId, q # p
      PROVE  Area(q)' = Area(q)
  <2>1. /\ PartStart(q) \in Nat /\ PartSize(q) \in Nat
        /\ start + size <= PartStart(q) \/ PartStart(q) + PartSize(q) <= start
    BY <1>6, PartitionRanges
  <2>2. ASSUME NEW i \in 1 .. PartSize(q)
        PROVE  /\ PartStart(q) + i \in 1 .. Capacity
               /\ ~(start + off < PartStart(q) + i /\ PartStart(q) + i <= start + off + n)
    BY <1>1, <2>1, <2>2, AreaOfView, SMTT(30)
  <2>3. \A i \in 1 .. PartSize(q) : View'[PartStart(q) + i] = View[PartStart(q) + i]
    BY <2>2
  <2> QED BY <1>2, <2>3, AreaOfView
<1> QED BY <1>5, <1>6

\* A call that changes nothing of the device changes no partition.
LEMMA AreasKept ==
    ASSUME View' = View
    PROVE  [p \in PartitionId |-> Area(p)]' = [p \in PartitionId |-> Area(p)]
<1>1. ASSUME NEW p \in PartitionId
      PROVE  Area(p)' = Area(p)
  <2>1. \A i \in 1 .. PartSize(p) : PartStart(p) + i \in 1 .. Capacity
    BY AreaOfView
  <2>2. \A i \in 1 .. PartSize(p) : Held(PartStart(p) + i)' = View'[PartStart(p) + i]
    BY <2>1 DEF Held, View
  <2>3. \A i \in 1 .. PartSize(p) : Held(PartStart(p) + i) = View[PartStart(p) + i]
    BY <2>1 DEF Held, View
  <2> QED BY <2>2, <2>3 DEF Area
<1> QED BY <1>1

\* read_partition implements Partitions!Read.
LEMMA ReadPartitionImplements ==
    ASSUME OverflowChecks, SInv, NEW h \in Handles, NEW p \in Parts, NEW off \in Words,
           NEW n \in Lengths, ReadPartition(h, p, off, n)
    PROVE  Partitions!Read
<1> DEFINE verdict == PartitionVerdict(p, off, n)
           abs == AbsOffset(p, off)
<1>1. p \in PartitionId /\ off \in Nat /\ n \in Nat
  BY NandAssumption, ArgumentFacts
<1>2. /\ abs \in Nat
      /\ verdict = "ok" => /\ off + n <= PartSize(p) /\ abs = PartStart(p) + off
                           /\ BytesVerdict(abs, n, Capacity) = "ok"
      /\ verdict # "ok" => verdict \in {"invalid", "panic"} /\ ~(off + n <= PartSize(p))
  BY <1>1, PartitionVerdicts
<1>3. /\ mode[h] # "closed"
      /\ request' = [op |-> "read", area |-> p, off |-> off, len |-> n, fits |-> TRUE, buf |-> <<>>]
  BY DEF ReadPartition, Ask
<1>4. Partitions!Valid(request') <=> off + n <= PartSize(p)
  BY <1>1, <1>3 DEF Partitions!Valid
<1>5. CASE verdict # "ok"
  <2>1. Refuse("invalid") \/ Refuse("panic")
    BY <1>2, <1>5 DEF ReadPartition
  <2> QED BY <1>2, <1>3, <1>4, <1>5, <2>1
       DEF Refuse, Held, Partitions!Read, Partitions!Rejected
<1>6. CASE verdict = "ok" /\ Refuse("io")
  BY <1>3, <1>6 DEF Refuse, Held, Partitions!Read, Partitions!Refused
<1>7. CASE verdict = "ok" /\ ~Refuse("io")
  <2>1. HostRead(abs, n)
    BY <1>2, <1>7 DEF ReadPartition, BytesRead
  <2>2. /\ PartStart(p) \in Nat /\ PartSize(p) \in Nat /\ Capacity \in Nat
        /\ PartStart(p) + PartSize(p) <= Capacity
    BY <1>1, PartitionRanges, Sizes
  <2>3. TypeOK /\ Len(image) \in Nat /\ Capacity <= Len(image) /\ DOMAIN image = 1 .. Len(image)
    BY <1>3, LenProperties DEF SInv, TypeOK, OpenIsFull
  <2>4. abs = PartStart(p) + off /\ off + n <= PartSize(p) /\ abs + n <= Len(image)
    BY <1>1, <1>2, <1>7, <2>2, <2>3
  <2> HIDE DEF abs
  <2>5. /\ reply' = [status |-> "ok", data |-> [i \in 1 .. n |-> image[abs + i]]]
        /\ UNCHANGED image
    BY <1>1, <1>2, <1>7, <2>1, <2>3, <2>4, HostReadEffect
  <2>6. ASSUME NEW i \in 1 .. n
        PROVE  /\ off + i \in 1 .. PartSize(p)
               /\ abs + i = PartStart(p) + (off + i)
               /\ abs + i \in DOMAIN image
    BY <1>1, <2>2, <2>3, <2>4, SMTT(30)
  <2>7. \A i \in 1 .. n : Area(p)[off + i] = image[abs + i]
    BY <2>6 DEF Area, Held
  <2>8. reply' = [status |-> "ok", data |-> [i \in 1 .. n |-> Area(p)[off + i]]]
    BY <2>5, <2>7
  <2>9. [q \in PartitionId |-> Area(q)][p] = Area(p)
    BY <1>1
  <2>10. /\ request'.op = "read" /\ request'.area = p
         /\ request'.off = off /\ request'.len = n
    BY <1>3
  <2>11. Partitions!Valid(request')
    BY <1>4, <2>4
  <2> QED BY <2>5, <2>8, <2>9, <2>10, <2>11, ZenonT(90) DEF Partitions!Read, Area, Held
<1> QED BY <1>5, <1>6, <1>7

\* write_partition implements Partitions!Write.
LEMMA WritePartitionImplements ==
    ASSUME OverflowChecks, SInv, NEW h \in Handles, NEW p \in Parts, NEW off \in Words,
           NEW buf \in Buffers, WritePartition(h, p, off, buf)
    PROVE  Partitions!Write
<1> DEFINE len == Len(buf)
           verdict == PartitionVerdict(p, off, len)
           abs == AbsOffset(p, off)
<1>1. p \in PartitionId /\ off \in Nat /\ len \in Nat /\ buf \in Seq(Byte)
      /\ SubSeq(buf, 1, len) = buf
  BY NandAssumption, ArgumentFacts, WholeBuffer
<1>2. /\ abs \in Nat
      /\ verdict = "ok" => /\ off + len <= PartSize(p) /\ abs = PartStart(p) + off
                           /\ BytesVerdict(abs, len, Capacity) = "ok"
      /\ verdict # "ok" => verdict \in {"invalid", "panic"} /\ ~(off + len <= PartSize(p))
  BY <1>1, PartitionVerdicts
<1>3. /\ mode[h] # "closed"
      /\ request' = [op |-> "write", area |-> p, off |-> off, len |-> len, fits |-> TRUE, buf |-> buf]
  BY DEF WritePartition, Ask
<1>4. Partitions!Valid(request') <=> off + len <= PartSize(p)
  BY <1>1, <1>3 DEF Partitions!Valid
<1>5. CASE verdict # "ok"
  <2>1. Refuse("invalid") \/ Refuse("panic")
    BY <1>2, <1>5 DEF WritePartition
  <2> QED BY <1>2, <1>3, <1>4, <1>5, <2>1
       DEF Refuse, Held, Partitions!Write, Partitions!Rejected
<1>6. CASE verdict = "ok" /\ (Refuse("io") \/ Refuse("protected"))
  BY <1>3, <1>6 DEF Refuse, Held, Partitions!Write, Partitions!Refused
<1>7. CASE verdict = "ok" /\ ~Refuse("io") /\ ~Refuse("protected")
  <2>1. HostWrite(h, abs, buf)
    BY <1>2, <1>7 DEF WritePartition, BytesWritten
  <2>2. /\ PartStart(p) \in Nat /\ PartSize(p) \in Nat /\ Capacity \in Nat
        /\ PartStart(p) + PartSize(p) <= Capacity
    BY <1>1, PartitionRanges, Sizes
  <2>3. TypeOK /\ Len(image) \in Nat /\ Capacity <= Len(image) /\ DOMAIN image = 1 .. Len(image)
    BY <1>3, LenProperties DEF SInv, TypeOK, OpenIsFull
  <2>4. abs = PartStart(p) + off /\ off + len <= PartSize(p) /\ abs + len <= Len(image)
    BY <1>1, <1>2, <1>7, <2>2, <2>3, SMTT(30)
  <2> HIDE DEF abs
  <2>5. TypeOK /\ HostWrite(h, abs, SubSeq(buf, 1, len)) /\ ~Refuse("io")
        /\ abs \in Nat /\ buf \in Seq(Byte) /\ len \in 0 .. Len(buf) /\ abs + len <= Len(image)
    <3>1. HostWrite(h, abs, SubSeq(buf, 1, len))
      BY <1>1, <2>1, Zenon
    <3>2. len \in 0 .. Len(buf)
      BY <1>1
    <3> QED BY <1>1, <1>2, <1>7, <2>3, <2>4, <3>1, <3>2, Zenon
  <2> HIDE DEF len
  <2>6. /\ image' \in Seq(Byte) /\ Len(image') = Len(image)
        /\ \E n \in 0 .. len :
             /\ \A i \in 1 .. Len(image) :
                  image'[i] = IF abs < i /\ i <= abs + n THEN buf[i - abs] ELSE image[i]
             /\ reply' = [status |-> IF n = len THEN "ok" ELSE "io", data |-> <<>>]
    BY <2>5, HostWriteEffect, Zenon
  <2>7. PICK n \in 0 .. len :
          /\ \A i \in 1 .. Len(image) :
               image'[i] = IF abs < i /\ i <= abs + n THEN buf[i - abs] ELSE image[i]
          /\ reply' = [status |-> IF n = len THEN "ok" ELSE "io", data |-> <<>>]
    BY <2>6
  <2>8. DOMAIN image' = 1 .. Len(image)
    BY <2>6, LenProperties
  <2>9. View' = [i \in 1 .. Capacity |->
                   IF abs < i /\ i <= abs + n THEN buf[i - abs] ELSE View[i]]
    BY <2>2, <2>3, <2>7, <2>8 DEF View
  <2>10. View' = [i \in 1 .. Capacity |->
                    IF PartStart(p) + off < i /\ i <= PartStart(p) + off + n
                    THEN buf[i - (PartStart(p) + off)] ELSE View[i]]
    BY <2>4, <2>9
  <2>11. /\ Area(p)' = Partitions!Patched(Area(p), off, buf, n)
         /\ \A q \in PartitionId : q # p => Area(q)' = Area(q)
    BY <1>1, <2>4, <2>10, AreasWritten
  <2>12. [q \in PartitionId |-> Area(q)'] =
           [[q \in PartitionId |-> Area(q)] EXCEPT ![p] = Partitions!Patched(@, off, buf, n)]
    BY <1>1, <2>11
  <2>13. /\ request'.op = "write" /\ request'.area = p /\ request'.off = off
         /\ request'.len = len /\ request'.buf = buf
    BY <1>3
  <2>14. Partitions!Valid(request')
    BY <1>4, <2>4
  <2> QED BY <2>7, <2>12, <2>13, <2>14 DEF Partitions!Write, Area, Held
<1> QED BY <1>5, <1>6, <1>7

\* With overflow checks each partition is an array of its own: whatever calls are made
\* on whichever handles, a read of a partition returns what the last writes to that
\* partition left there, and a write to one never reaches another (Nand).
THEOREM NandImplementsPartitions == ASSUME OverflowChecks PROVE NandSpec => ImplementsPartitions
<1>1. Init => Partitions!Init
  <2> SUFFICES ASSUME Init PROVE Partitions!Init
    OBVIOUS
  <2>1. SInv
    BY InitSInv
  <2>2. \A i \in DOMAIN image : image[i] \in Byte
    BY <2>1, ElementOfSeq, LenProperties DEF SInv, TypeOK
  <2> QED BY <2>2, StorageAssumption DEF Partitions!Init, Held
<1>2. SInv /\ [NandNext]_vars => [Partitions!Next]_(Partitions!vars)
  <2>1. ASSUME SInv, NandNext PROVE Housekeeping \/ Partitions!Next
    BY <2>1, ReadPartitionImplements, WritePartitionImplements
       DEF NandNext, Housekeeping, Partitions!Next
  <2>2. ASSUME SInv, Housekeeping PROVE UNCHANGED Partitions!vars
    BY <2>2, HousekeepingStutters, AreasKept DEF Partitions!vars, Area
  <2>3. ASSUME UNCHANGED vars PROVE UNCHANGED Partitions!vars
    BY <2>3 DEF vars, Partitions!vars, Held
  <2> QED BY <2>1, <2>2, <2>3
<1> QED BY <1>1, <1>2, NandInvariance, PTL DEF NandSpec, ImplementsPartitions, Partitions!Spec
===============================================================================
