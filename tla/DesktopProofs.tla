------------------------------- MODULE DesktopProofs -------------------------------
(***************************************************************************)
(* Theorems about the desktop program, for every address map, device,      *)
(* image and package file.                                                 *)
(*                                                                         *)
(*   ChunkKeeps         load_code, chunk by chunk, is a plain copy         *)
(*   GuiIsSound         the frames and the threads keep GuiInv             *)
(*   DesktopInvariance  DInv: what is open, what boot knows of the image,  *)
(*                      and what memory holds, call after call             *)
(*   DesktopRefinesGui  the whole program runs as Gui says                 *)
(*   RunsAreRight       the programs of the tests, instruction by          *)
(*                      instruction                                        *)
(*   DesktopKeepsUp     Up: the processes, threads, regions, ports and     *)
(*                      services there are at each call of boot            *)
(*                                                                         *)
(* JobsEnd is left to TLC.  What it rests on is proved: FramesCome,        *)
(* EveryProgramStops and BootComesToItsEnd.                                *)
(***************************************************************************)
EXTENDS Desktop, KernelProofs, Induction, FiniteSetTheorems, SequenceTheorems, TLAPS
---------------------------------------------------------------------------------
(* load_code *)

\* The first `loaded` bytes of the code are in the memory that was `before`, and words
\* are dealt with before the bytes that fill none.
Partly(before, vaddr, bytes) ==
    /\ loaded \in 0 .. Len(bytes)
    /\ loaded % 4 = 0 \/ loaded + 4 > Len(bytes)
    /\ mem = [a \in Addresses |-> IF vaddr <= a /\ a < vaddr + loaded
                                  THEN bytes[a - vaddr + 1] ELSE before[a]]

LEMMA ChunkKeeps ==
    ASSUME NEW vaddr \in Nat, vaddr % 4 = 0,
           NEW bytes, bytes \in Seq(Byte),
           NEW before,
           Partly(before, vaddr, bytes), LoadChunk(vaddr, bytes)
    PROVE  /\ loaded' \in 0 .. Len(bytes)
           /\ loaded' % 4 = 0 \/ loaded' + 4 > Len(bytes)
           /\ mem' = [a \in Addresses |-> IF vaddr <= a /\ a < vaddr + loaded'
                                          THEN bytes[a - vaddr + 1] ELSE before[a]]
<1> DEFINE offset == vaddr + loaded
           aligned == offset - (offset % 4)
           Now(a) == IF vaddr <= a /\ a < vaddr + loaded THEN bytes[a - vaddr + 1] ELSE before[a]
           Then(a, n) == IF vaddr <= a /\ a < vaddr + n THEN bytes[a - vaddr + 1] ELSE before[a]
<1>1. /\ Len(bytes) \in Int /\ loaded \in Int /\ 0 <= loaded /\ loaded < Len(bytes)
      /\ vaddr \in Int /\ 0 <= vaddr /\ offset \in Int /\ offset = vaddr + loaded
  BY LenProperties DEF Partly, LoadChunk
<1>2. \A a \in Addresses : a \in Int /\ 0 <= a /\ a < MemSize
  BY MemAssumption DEF Addresses
<1>5. \A a \in Addresses : mem[a] = Now(a)
  BY DEF Partly
<1>6. MemSize \in Int /\ MemSize % 4 = 0
  BY MemAssumption
<1>7. /\ aligned \in Int /\ aligned % 4 = 0 /\ aligned <= offset /\ offset < aligned + 4
      /\ offset % 4 = offset - aligned
  BY <1>1
<1>8. loaded + 4 <= Len(bytes) =>
        loaded' = loaded + 4 /\ mem' = WriteU32(offset, SubSeq(bytes, loaded + 1, loaded + 4))
  BY DEF LoadChunk
<1>9. ~(loaded + 4 <= Len(bytes)) =>
        /\ loaded' = loaded + 1
        /\ mem' = WriteU32(aligned, WithByte(ReadU32(aligned), offset, bytes[loaded + 1]))
  BY DEF LoadChunk
<1>10. loaded + 4 <= Len(bytes) => loaded % 4 = 0 /\ offset % 4 = 0
  BY <1>1, SMTT(30) DEF Partly
<1> HIDE DEF offset, aligned
<1> HIDE DEF Now, Then
<1>11. ASSUME NEW a \in Addresses, vaddr <= a, a < offset
       PROVE  Now(a) = bytes[a - vaddr + 1]
  BY <1>1, <1>2, <1>11 DEF Now, offset
<1>12. ASSUME NEW a \in Addresses, ~(vaddr <= a /\ a < offset)
       PROVE  Now(a) = before[a]
  BY <1>1, <1>2, <1>12 DEF Now, offset
<1>13. ASSUME NEW n \in Int, NEW a \in Addresses, vaddr <= a, a < vaddr + n
       PROVE  Then(a, n) = bytes[a - vaddr + 1]
  BY <1>13 DEF Then
<1>14. ASSUME NEW n \in Int, NEW a \in Addresses, ~(vaddr <= a /\ a < vaddr + n)
       PROVE  Then(a, n) = before[a]
  BY <1>14 DEF Then
<1>15. ASSUME NEW n \in Int, 0 < n, NEW a \in Addresses, a < offset \/ offset + n <= a
       PROVE  Now(a) = Then(a, loaded + n)
  <2>1. CASE vaddr <= a /\ a < offset
    <3>1. a < vaddr + (loaded + n) /\ loaded + n \in Int
      BY <1>1, <1>2, <1>15, <2>1
    <3> QED
      BY <1>11, <1>13, <2>1, <3>1
  <2>2. CASE ~(vaddr <= a /\ a < offset)
    <3>1. ~(vaddr <= a /\ a < vaddr + (loaded + n)) /\ loaded + n \in Int
      BY <1>1, <1>2, <1>15, <2>2
    <3> QED
      BY <1>12, <1>14, <2>2, <3>1
  <2> QED
    BY <2>1, <2>2
<1>3. CASE loaded + 4 <= Len(bytes)
  <2>1. loaded' = loaded + 4 /\ mem' = WriteU32(offset, SubSeq(bytes, loaded + 1, loaded + 4))
    BY <1>3, <1>8
  <2>2. loaded % 4 = 0 /\ offset % 4 = 0
    BY <1>3, <1>10
  <2>3. \A k \in 1 .. 4 : SubSeq(bytes, loaded + 1, loaded + 4)[k] = bytes[loaded + k]
    <3>1. SubSeq(bytes, loaded + 1, loaded + 4)
            = [k \in 1 .. 4 |-> bytes[loaded + 1 + k - 1]]
      BY <1>1, <1>3
    <3> QED
      BY <1>1, <3>1
  <2>4. mem' = [a \in Addresses |-> Then(a, loaded + 4)]
    <3>1. CASE offset + 4 <= MemSize
      <4>1. mem' = [a \in Addresses |->
                      IF offset <= a /\ a < offset + 4
                      THEN SubSeq(bytes, loaded + 1, loaded + 4)[a - offset + 1] ELSE mem[a]]
        BY <2>1, <3>1 DEF WriteU32
      <4>2. ASSUME NEW a \in Addresses
            PROVE  (IF offset <= a /\ a < offset + 4
                    THEN SubSeq(bytes, loaded + 1, loaded + 4)[a - offset + 1] ELSE mem[a])
                   = Then(a, loaded + 4)
        <5>1. CASE offset <= a /\ a < offset + 4
          <6>1. a - offset + 1 \in 1 .. 4 /\ loaded + (a - offset + 1) = a - vaddr + 1
            BY <1>1, <1>2, <5>1, SMTT(30)
          <6>2. SubSeq(bytes, loaded + 1, loaded + 4)[a - offset + 1] = bytes[a - vaddr + 1]
            <7> DEFINE k == a - offset + 1
            <7>1. k \in 1 .. 4 /\ loaded + k = a - vaddr + 1
              BY <6>1
            <7> HIDE DEF k
            <7>2. SubSeq(bytes, loaded + 1, loaded + 4)[k] = bytes[loaded + k]
              BY <2>3, <7>1
            <7>3. SubSeq(bytes, loaded + 1, loaded + 4)[k] = bytes[a - vaddr + 1]
              BY <7>1, <7>2
            <7> QED
              BY <7>3 DEF k
          <6>3. vaddr <= a /\ a < vaddr + (loaded + 4) /\ loaded + 4 \in Int
            BY <1>1, <1>2, <5>1
          <6>4. Then(a, loaded + 4) = bytes[a - vaddr + 1]
            BY <1>13, <6>3
          <6> QED
            BY <5>1, <6>2, <6>4
        <5>2. CASE ~(offset <= a /\ a < offset + 4)
          <6>1. a < offset \/ offset + 4 <= a
            BY <1>1, <1>2, <5>2
          <6>2. 0 < 4 /\ 4 \in Int
            OBVIOUS
          <6>3. Now(a) = Then(a, loaded + 4)
            BY <1>15, <6>1, <6>2
          <6> QED
            BY <1>5, <5>2, <6>3
        <5> QED
          BY <5>1, <5>2
      <4> QED
        BY <4>1, <4>2
    <3>2. CASE ~(offset + 4 <= MemSize)
      <4>1. MemSize <= offset
        BY <1>1, <1>6, <2>2, <3>2
      <4>2. mem' = mem
        BY <2>1, <3>2 DEF WriteU32
      <4>3. ASSUME NEW a \in Addresses
            PROVE  mem[a] = Then(a, loaded + 4)
        <5>1. a < offset /\ 0 < 4 /\ 4 \in Int
          BY <1>1, <1>2, <1>6, <4>1
        <5>2. Now(a) = Then(a, loaded + 4)
          BY <1>15, <5>1
        <5> QED
          BY <1>5, <5>2
      <4>4. mem = [a \in Addresses |-> mem[a]]
        BY DEF Partly
      <4> QED
        BY <4>2, <4>3, <4>4
    <3> QED
      BY <3>1, <3>2
  <2>5. loaded + 4 \in 0 .. Len(bytes) /\ (loaded + 4) % 4 = 0
    BY <1>1, <1>3, <2>2
  <2> QED
    BY <2>1, <2>4, <2>5 DEF Then
<1>4. CASE ~(loaded + 4 <= Len(bytes))
  <2> DEFINE word == WithByte(ReadU32(aligned), offset, bytes[loaded + 1])
  <2>1. loaded' = loaded + 1 /\ mem' = WriteU32(aligned, word)
    BY <1>4, <1>9
  <2>2. mem' = [a \in Addresses |-> Then(a, loaded + 1)]
    <3>1. CASE aligned + 4 <= MemSize
      <4>1. ReadU32(aligned) = [k \in 1 .. 4 |-> mem[aligned + k - 1]]
        BY <3>1 DEF ReadU32
      <4>2. word = [k \in 1 .. 4 |-> IF k = (offset % 4) + 1 THEN bytes[loaded + 1]
                                     ELSE mem[aligned + k - 1]]
        BY <1>7, <4>1 DEF WithByte
      <4> HIDE DEF word
      <4>3. mem' = [a \in Addresses |-> IF aligned <= a /\ a < aligned + 4
                                        THEN word[a - aligned + 1] ELSE mem[a]]
        BY <2>1, <3>1 DEF WriteU32
      <4>4. ASSUME NEW a \in Addresses
            PROVE  (IF aligned <= a /\ a < aligned + 4 THEN word[a - aligned + 1] ELSE mem[a])
                   = Then(a, loaded + 1)
        <5>1. CASE a = offset
          <6>1. a - aligned + 1 \in 1 .. 4 /\ a - aligned + 1 = (offset % 4) + 1
            BY <1>1, <1>7, <5>1
          <6>2. word[a - aligned + 1] = bytes[loaded + 1]
            BY <4>2, <6>1
          <6>3. a - vaddr + 1 = loaded + 1 /\ vaddr <= a /\ a < vaddr + (loaded + 1)
                /\ loaded + 1 \in Int /\ aligned <= a /\ a < aligned + 4
            BY <1>1, <1>7, <5>1
          <6>4. Then(a, loaded + 1) = bytes[loaded + 1]
            BY <1>13, <6>3
          <6> QED
            BY <6>2, <6>3, <6>4
        <5>2. CASE a # offset
          <6>1. a < offset \/ offset + 1 <= a
            BY <1>1, <1>2, <5>2
          <6>2. 0 < 1 /\ 1 \in Int
            OBVIOUS
          <6>3. mem[a] = Then(a, loaded + 1)
            BY <1>5, <1>15, <6>1, <6>2
          <6>4. CASE aligned <= a /\ a < aligned + 4
            <7>1. a \in Int /\ (offset % 4) + 1 = offset - aligned + 1
              BY <1>1, <1>2, <1>7
            <7>4. a - aligned + 1 \in 1 .. 4
              BY <1>1, <1>7, <6>4, <7>1
            <7>5. a - aligned + 1 # offset - aligned + 1
              BY <1>1, <1>7, <5>2, <7>1
            <7>2. aligned + (a - aligned + 1) - 1 = a
              BY <1>1, <1>2, <1>7
            <7>3. word[a - aligned + 1] = mem[a]
              BY <4>2, <7>1, <7>2, <7>4, <7>5
            <7> QED
              BY <6>3, <6>4, <7>3
          <6>5. CASE ~(aligned <= a /\ a < aligned + 4)
            BY <6>3, <6>5
          <6> QED
            BY <6>4, <6>5
        <5> QED
          BY <5>1, <5>2
      <4> QED
        BY <4>3, <4>4
    <3>2. CASE ~(aligned + 4 <= MemSize)
      <4>1. MemSize <= offset
        BY <1>1, <1>6, <1>7, <3>2
      <4>2. mem' = mem
        BY <2>1, <3>2 DEF WriteU32
      <4>3. ASSUME NEW a \in Addresses
            PROVE  mem[a] = Then(a, loaded + 1)
        <5>1. a < offset /\ 0 < 1 /\ 1 \in Int
          BY <1>1, <1>2, <1>6, <4>1
        <5>2. Now(a) = Then(a, loaded + 1)
          BY <1>15, <5>1
        <5> QED
          BY <1>5, <5>2
      <4>4. mem = [a \in Addresses |-> mem[a]]
        BY DEF Partly
      <4> QED
        BY <4>2, <4>3, <4>4
    <3> QED
      BY <3>1, <3>2
  <2>3. loaded + 1 \in 0 .. Len(bytes) /\ ((loaded + 1) % 4 = 0 \/ loaded + 1 + 4 > Len(bytes))
    BY <1>1, <1>4
  <2> QED
    BY <2>1, <2>2, <2>3 DEF Then
<1> QED
  BY <1>3, <1>4
---------------------------------------------------------------------------------
(* The device *)

LEMMA DeviceFacts ==
    /\ BlockSize \in Nat /\ WordMod \in Nat \ {0} /\ Host!Capacity \in Nat
    /\ Host!Capacity <= Host!SeekLimit /\ Host!SeekLimit < WordMod
    /\ SystemBytes \in Nat /\ SystemBlocks * BlockSize \in Nat
    /\ SystemBytes + SystemBlocks * BlockSize <= Host!Capacity
<1> DEFINE start == GptReserved + ProdInfoBlocks + ProdInfoFBlocks + SafeBlocks
<1>1. /\ BlockSize \in Nat /\ TotalBlocks \in Nat /\ WordMod \in Nat /\ WordMod > 0
      /\ start \in Nat /\ SystemBlocks \in Nat /\ start + SystemBlocks <= TotalBlocks
  <2>1. /\ BlockSize \in Nat /\ TotalBlocks \in Nat /\ WordMod \in Nat \ {0}
        /\ GptReserved \in Nat /\ ProdInfoBlocks \in Nat /\ ProdInfoFBlocks \in Nat
        /\ SafeBlocks \in Nat /\ SystemBlocks \in Nat
    BY BootAssumption
  <2>2. start + SystemBlocks <= TotalBlocks
    BY BootAssumption
  <2> QED
    BY <2>1, <2>2
<1>2. SystemBytes = start * BlockSize
  BY DEF SystemBytes
<1> HIDE DEF start
<1>3. /\ start * BlockSize \in Nat /\ SystemBlocks * BlockSize \in Nat
      /\ BlockSize * TotalBlocks \in Nat
      /\ start * BlockSize + SystemBlocks * BlockSize <= BlockSize * TotalBlocks
  <2>1. start * BlockSize + SystemBlocks * BlockSize = (start + SystemBlocks) * BlockSize
    BY <1>1
  <2>2. (start + SystemBlocks) * BlockSize <= TotalBlocks * BlockSize
    BY <1>1
  <2> QED
    BY <1>1, <2>1, <2>2
<1>4. Host!Capacity = BlockSize * TotalBlocks /\ Host!SeekLimit = WordMod \div 2
  BY DEF Host!Capacity, Host!SeekLimit
<1>5. WordMod \div 2 < WordMod
  BY <1>1
<1>6. BlockSize * TotalBlocks <= WordMod \div 2
  BY BootAssumption
<1> QED
  BY <1>1, <1>2, <1>3, <1>4, <1>5, <1>6

\* A read inside SYSTEM, as load_kernel_image makes it, gives the bytes from there on.
LEMMA SystemRead ==
    ASSUME NEW h \in Handles, NEW off \in Nat, NEW n \in Nat,
           off + n <= SystemBlocks * BlockSize,
           Host!ReadPartition(h, "System", off, n)
    PROVE  /\ mode' = mode /\ image' = image
           /\ reply'.status = "ok" =>
                /\ reply'.data = SubSeq(image, SystemBytes + off + 1, SystemBytes + off + n)
                /\ n = 0 \/ SystemBytes + off + n <= Len(image)
<1>1. /\ SystemBytes \in Nat /\ Host!Capacity \in Nat /\ WordMod \in Nat \ {0}
      /\ SystemBytes + off + n <= Host!Capacity /\ Host!Capacity < WordMod
  <2> DEFINE size == SystemBlocks * BlockSize
  <2>1. /\ SystemBytes \in Nat /\ Host!Capacity \in Nat /\ WordMod \in Nat \ {0}
        /\ size \in Nat /\ SystemBytes + size <= Host!Capacity
        /\ Host!Capacity <= Host!SeekLimit /\ Host!SeekLimit < WordMod
        /\ off + n <= size
    BY DeviceFacts
  <2>2. Host!SeekLimit \in Nat
    BY <2>1 DEF Host!SeekLimit
  <2> HIDE DEF size
  <2> QED
    BY <2>1, <2>2
<1>2. Host!PartStart("System") = SystemBytes
  BY DEF Host!PartStart, Host!table, Host!default_partition_table, Host!PartitionId,
         Host!Fixed, Host!SystemStart, Host!SafeStart, Host!ProdInfoFStart,
         Host!ProdInfoStart, SystemBytes
<1>3. Host!AbsOffset("System", off) = SystemBytes + off
  <2>1. SystemBytes + off \in 0 .. WordMod - 1
    BY <1>1
  <2>2. (SystemBytes + off) % WordMod = SystemBytes + off
    BY <1>1, <2>1
  <2> QED
    BY <1>2, <2>2 DEF Host!AbsOffset, Host!Wrapped
<1>4. mode' = mode
  BY DEF Host!ReadPartition, Host!Ask, Host!handles
<1>5. \/ Host!Refuse("io") \/ \E verdict : verdict # "ok" /\ Host!Refuse(verdict)
      \/ /\ n = 0 \/ SystemBytes + off + n <= Len(image)
         /\ reply' = [status |-> "ok",
                      data |-> SubSeq(image, SystemBytes + off + 1, SystemBytes + off + n)]
         /\ UNCHANGED image
  BY <1>3 DEF Host!ReadPartition, Host!BytesRead, Host!HostRead
<1>6. ASSUME NEW status, status # "ok", Host!Refuse(status)
      PROVE  image' = image /\ reply'.status # "ok"
  BY <1>6 DEF Host!Refuse
<1> QED
  BY <1>4, <1>5, <1>6

\* Opening the image again changes no byte, and nothing at all when it has full size.
LEMMA OpenKeeps ==
    ASSUME NEW h \in Handles, mode \in [Handles -> {"closed", "rw"}], image \in Seq(Byte),
           Host!Open(h)
    PROVE  /\ mode[h] = "closed"
           /\ image' \in Seq(Byte)
           /\ \A i \in DOMAIN image : i \in DOMAIN image' /\ image'[i] = image[i]
           /\ Len(image) >= Host!Capacity => image' = image
           /\ \/ mode' = mode /\ image' = image
              \/ mode' = [mode EXCEPT ![h] = "rw"] /\ Len(image') >= Host!Capacity
<1>1. CASE image' = image /\ mode' = mode
  BY <1>1 DEF Host!Open
<1>2. CASE image' = Host!Extended(image) /\ mode' = [mode EXCEPT ![h] = "rw"]
  <2>1. Host!Capacity \in Nat /\ Len(image) \in Nat /\ DOMAIN image = 1 .. Len(image)
    BY DeviceFacts, LenProperties
  <2>2. CASE Len(image) < Host!Capacity
    <3>1. image' = [i \in 1 .. Host!Capacity |-> IF i \in DOMAIN image THEN image[i] ELSE 0]
      BY <1>2, <2>2 DEF Host!Extended
    <3>2. \A i \in 1 .. Host!Capacity : image'[i] \in Byte
      <4>1. 0 \in Byte /\ \A i \in DOMAIN image : image[i] \in Byte
        BY <2>1, BootAssumption, ElementOfSeq
      <4> QED
        BY <3>1, <4>1
    <3>3. image' \in Seq(Byte) /\ Len(image') = Host!Capacity
      <4>1. image' \in [1 .. Host!Capacity -> Byte]
        BY <3>1, <3>2
      <4>2. image' \in Seq(Byte)
        BY <2>1, <4>1, SeqDef
      <4>3. DOMAIN image' = 1 .. Len(image') /\ Len(image') \in Nat
        BY <4>2, LenProperties
      <4>4. DOMAIN image' = 1 .. Host!Capacity
        BY <3>1
      <4>5. 1 .. Len(image') = 1 .. Host!Capacity
        BY <4>3, <4>4
      <4>6. Len(image') = Host!Capacity
        <5> DEFINE n == Len(image')
                   c == Host!Capacity
        <5>1. n \in Nat /\ c \in Nat /\ 1 .. n = 1 .. c
          BY <2>1, <4>3, <4>5
        <5> HIDE DEF n, c
        <5>2. n <= c
          <6>1. n = 0 \/ n \in 1 .. n
            BY <5>1
          <6> QED
            BY <5>1, <6>1
        <5>3. c <= n
          <6>1. c = 0 \/ c \in 1 .. c
            BY <5>1
          <6> QED
            BY <5>1, <6>1
        <5>4. n = c
          BY <5>1, <5>2, <5>3
        <5> QED
          BY <5>4, SMTT(30) DEF n, c
      <4> QED
        BY <4>2, <4>6
    <3>4. \A i \in DOMAIN image : i \in DOMAIN image' /\ image'[i] = image[i]
      BY <2>1, <2>2, <3>1
    <3> QED
      BY <1>2, <2>1, <2>2, <3>3, <3>4 DEF Host!Open
  <2>3. CASE ~(Len(image) < Host!Capacity)
    <3>1. image' = image
      BY <1>2, <2>3 DEF Host!Extended
    <3> QED
      BY <1>2, <2>1, <2>3, <3>1 DEF Host!Open
  <2> QED
    BY <2>2, <2>3
<1> QED
  BY <1>1, <1>2 DEF Host!Open, Host!handles
---------------------------------------------------------------------------------
(* The frames and the threads, whatever boot does *)

GuiInv == GuiTypeOK /\ NoneDetached /\ PhaseTellsBoot

LEMMA FrameKeeps ==
    ASSUME GuiInv, NEW clicks \in SUBSET Jobs, NEW result \in {"Running", "Failed"},
           Frame(clicks, result)
    PROVE  GuiInv'
<1>1. /\ bootThread # "panicked" /\ (clicks # {} => ~Busy)
      /\ testThread' = IF "tests" \in clicks THEN "spawned" ELSE TestLeft
      /\ bootThread' = IF "boot" \in clicks THEN "running" ELSE BootLeft
      /\ bootPhase' = IF "boot" \in clicks THEN "HardwareInit" ELSE PhaseLeft(result)
      /\ detached' = detached + Dropped(clicks)
      /\ up' = up /\ splash' = splash /\ repaint' = RepaintAfter(clicks)
  BY DEF Frame
<1>2. GuiTypeOK'
  <2>1. testThread' \in {"none", "spawned", "running", "finished"}
    BY <1>1 DEF GuiInv, GuiTypeOK, TestLeft
  <2>2. bootThread' \in {"none", "running", "returned", "finished", "panicked"}
    BY <1>1 DEF GuiInv, GuiTypeOK, BootLeft
  <2>3. bootPhase' \in {"Off", "HardwareInit", "Running", "Failed"}
    BY <1>1 DEF GuiInv, GuiTypeOK, PhaseLeft
  <2>4. logs' \in {"welcome", "testing", "test_results", "booting", "boot_log"}
    BY DEF GuiInv, GuiTypeOK, Frame, LogsLeft
  <2>5. detached' \in Nat
    BY <1>1 DEF GuiInv, GuiTypeOK, Dropped
  <2>6. repaint' \in BOOLEAN
    BY <1>1 DEF RepaintAfter
  <2>7. up' \in BOOLEAN /\ splash' \in BOOLEAN
    BY <1>1 DEF GuiInv, GuiTypeOK
  <2> QED
    BY <2>1, <2>2, <2>3, <2>4, <2>5, <2>6, <2>7 DEF GuiTypeOK
<1>3. NoneDetached'
  <2>1. testThread \in {"spawned", "running"} => TestLeft = testThread /\ Busy
    BY DEF TestLeft, Busy
  <2>2. bootThread \in {"running", "returned"} => BootLeft = bootThread /\ Busy
    BY DEF BootLeft, Busy
  <2>3. Dropped(clicks) = 0
    BY <1>1, <2>1, <2>2 DEF Dropped
  <2> QED
    BY <1>1, <2>3 DEF GuiInv, NoneDetached
<1>4. PhaseTellsBoot'
  BY <1>1 DEF GuiInv, GuiTypeOK, PhaseTellsBoot, PhaseLeft, BootLeft
<1> QED
  BY <1>2, <1>3, <1>4 DEF GuiInv

LEMMA GuiStepKeeps ==
    ASSUME GuiInv, [GuiNext]_gui
    PROVE  GuiInv'
<1> USE DEF GuiInv, GuiTypeOK, NoneDetached, PhaseTellsBoot
<1>1. CASE SplashFrame
  BY <1>1 DEF SplashFrame
<1>2. ASSUME NEW clicks \in SUBSET Jobs, NEW result \in {"Running", "Failed"},
             Frame(clicks, result)
      PROVE  GuiInv'
  <2> HIDE DEF GuiInv
  <2> QED
    BY <1>2, FrameKeeps
<1>3. CASE PanickingFrame
  BY <1>3 DEF PanickingFrame, Down
<1>4. CASE SplashOver
  BY <1>4 DEF SplashOver
<1>5. CASE TestsBegin
  BY <1>5 DEF TestsBegin
<1>6. CASE TestsEnd
  BY <1>6 DEF TestsEnd
<1>7. CASE BootReturns
  BY <1>7 DEF BootReturns
<1>8. CASE BootExits
  BY <1>8 DEF BootExits
<1>9. CASE BootPanics
  BY <1>9 DEF BootPanics
<1>10. CASE Quit
  BY <1>10 DEF Quit, Down
<1>11. CASE Launch
  BY <1>11 DEF Launch
<1>12. CASE UNCHANGED gui
  BY <1>12 DEF gui
<1> QED
  BY <1>1, <1>2, <1>3, <1>4, <1>5, <1>6, <1>7, <1>8, <1>9, <1>10, <1>11, <1>12 DEF GuiNext

\* No boot and no run of the tests is ever left without its handle, and the status bar
\* tells of a boot exactly while there is one (gui.rs, update).
THEOREM GuiIsSound == GuiSpec => []GuiInv
<1>1. GuiInit => GuiInv
  BY DEF GuiInit, GuiInv, GuiTypeOK, NoneDetached, PhaseTellsBoot
<1>2. GuiInv /\ [GuiNext]_gui => GuiInv'
  BY GuiStepKeeps
<1> QED
  BY <1>1, <1>2, PTL DEF GuiSpec

\* A frame is coming while there is a thread to wait for.
FrameIsComing == testThread # "none" \/ bootThread # "none" => up /\ ~splash /\ repaint

LEMMA FrameAsksForNext ==
    ASSUME FrameIsComing, NEW clicks \in SUBSET Jobs, NEW result, Frame(clicks, result)
    PROVE  FrameIsComing'
<1>1. /\ testThread' = IF "tests" \in clicks THEN "spawned" ELSE TestLeft
      /\ bootThread' = IF "boot" \in clicks THEN "running" ELSE BootLeft
      /\ repaint' = (clicks # {} \/ TestLeft # "none" \/ BootLeft # "none")
      /\ up' /\ ~splash'
  BY DEF Frame, RepaintAfter, Busy
<1>2. CASE clicks # {}
  BY <1>1, <1>2 DEF FrameIsComing
<1>3. CASE clicks = {}
  BY <1>1, <1>3 DEF FrameIsComing
<1> QED
  BY <1>2, <1>3

\* While a boot or a run of the tests has not been collected, a frame is requested: none
\* waits for the user to move the pointer.  The last frame a thread asks for may be drawn
\* before the thread has ended; the spinner of that frame asks for one more (gui.rs:179,
\* the request_repaint of the threads, and the spinners).
THEOREM FramesCome == GuiSpec => []FrameIsComing
<1>1. GuiInit => FrameIsComing
  BY DEF GuiInit, FrameIsComing
<1>2. ASSUME FrameIsComing, [GuiNext]_gui
      PROVE  FrameIsComing'
  <2> USE <1>2 DEF FrameIsComing
  <2>1. CASE SplashFrame \/ SplashOver \/ Launch
    BY <2>1 DEF SplashFrame, SplashOver, Launch
  <2>2. ASSUME NEW clicks \in SUBSET Jobs, NEW result \in {"Running", "Failed"},
               Frame(clicks, result)
        PROVE  FrameIsComing'
    <3> HIDE DEF FrameIsComing
    <3> QED
      BY <2>2, FrameAsksForNext
  <2>3. CASE PanickingFrame \/ Quit
    BY <2>3 DEF PanickingFrame, Quit, Down
  <2>4. CASE TestsBegin \/ TestsEnd
    BY <2>4 DEF TestsBegin, TestsEnd
  <2>5. CASE BootReturns \/ BootExits \/ BootPanics
    BY <2>5 DEF BootReturns, BootExits, BootPanics
  <2>6. CASE UNCHANGED gui
    BY <2>6 DEF gui
  <2> QED
    BY <1>2, <2>1, <2>2, <2>3, <2>4, <2>5, <2>6 DEF GuiNext
<1> QED
  BY <1>1, <1>2, PTL DEF GuiSpec
---------------------------------------------------------------------------------
(* The invariant of boot *)

Early == {"off", "nand", "image", "header", "package", "drop", "new", "done"}
KernelIn == {"create", "text", "stack", "thread", "services", "ports", "qcreate", "qtext",
             "qstack"}
BothIn == {"qthread", "step", "return"}

\* Where boot is, what its thread says, and its result.
Wired ==
    /\ bootPc \in Early \cup KernelIn \cup BothIn \cup {"load", "qload"}
    /\ bootPc = "off" <=> bootThread # "running"
    /\ bootResult \in {"none", "Running", "Failed"}
    /\ bootResult # "none" <=> bootPc = "done" \/ bootThread \in {"returned", "finished"}

\* Which of the two handles are open, and on what.
Opened ==
    /\ mode \in [Handles -> {"closed", "rw"}]
    /\ mode[main] = "rw" <=> bootPc \notin {"off", "nand", "done"} \/ bootResult = "Running"
    /\ mode[probe] = "rw" <=> bootPc \in {"header", "package", "drop"}
    /\ image \in Seq(Byte)
    /\ mode[main] = "rw" => Len(image) >= Host!Capacity

Header == SubSeq(image, SystemBytes + 1, SystemBytes + HeaderSize)

\* What boot knows of the image to run.
Chosen ==
    /\ package2 # NoFile => package2 \in Seq(Byte)
    /\ code \in Seq(Byte)
    /\ bootPc \in {"nand", "image", "header", "package"} => ~failed
    /\ bootPc \in {"header", "package", "drop"} => package2 = NoFile
    /\ bootPc = "package" => reply.data = Header /\ HasPackage(Header)
    /\ bootPc \notin (Early \ {"drop", "new"}) => code = IF failed THEN stub_kernel ELSE ImageToRun

KernelImage == WithCode(Blank, KERNEL_BASE, code)

Laid ==
    /\ bootPc \in Early => mem = Blank /\ loaded = 0
    /\ bootPc = "load" => Partly(Blank, KERNEL_BASE, code)
    /\ bootPc \in KernelIn => mem = KernelImage /\ loaded = 0
    /\ bootPc = "qload" => Partly(KernelImage, QLAUNCH_BASE, stub_kernel)
    /\ bootPc \in BothIn => mem = WithCode(KernelImage, QLAUNCH_BASE, stub_kernel) /\ loaded = 0

DInv == GuiInv /\ Wired /\ Opened /\ Chosen /\ Laid
---------------------------------------------------------------------------------
(* Phases 1 and 2 keep it *)

LEMMA EarlyMemory ==
    ASSUME Laid, bootPc \in Early, bootPc' \in Early, UNCHANGED memory
    PROVE  Laid'
BY DEF Laid, Early, KernelIn, BothIn, memory

LEMMA StubIsCode == stub_kernel \in Seq(Byte) /\ Len(stub_kernel) = 4
<1>1. {0, 32, 212} \subseteq Byte
  BY BootAssumption
<1> QED
  BY <1>1 DEF stub_kernel

LEMMA OpenNandKeeps ==
    ASSUME DInv, bootThread = "running", UNCHANGED gui, OpenNand
    PROVE  Wired' /\ Opened' /\ Chosen' /\ Laid'
<1>1. /\ bootPc = "nand" /\ package2' = package2 /\ code' = code /\ UNCHANGED memory
      /\ Opening(main,
                 bootPc' = "image" /\ UNCHANGED <<bootResult, failed>>,
                 bootPc' = "done" /\ bootResult' = "Failed" /\ failed' = TRUE)
  BY DEF OpenNand
<1>2. /\ mode \in [Handles -> {"closed", "rw"}] /\ image \in Seq(Byte)
      /\ mode[main] = "closed" /\ mode[probe] = "closed" /\ bootResult = "none" /\ ~failed
      /\ main \in Handles /\ probe \in Handles /\ main # probe
  BY <1>1 DEF DInv, Wired, Opened, Chosen, Handles, main, probe
<1>3. \/ /\ Host!Open(main) /\ mode'[main] = "rw"
         /\ bootPc' = "image" /\ bootResult' = bootResult /\ failed' = failed
      \/ /\ Host!Open(main) /\ mode'[main] # "rw"
         /\ bootPc' = "done" /\ bootResult' = "Failed" /\ failed' = TRUE
      \/ /\ mode' = mode /\ image' = image
         /\ bootPc' = "done" /\ bootResult' = "Failed" /\ failed' = TRUE
  BY <1>1 DEF Opening, disk
<1>4. \/ /\ mode' = [mode EXCEPT ![main] = "rw"] /\ Len(image') >= Host!Capacity
         /\ image' \in Seq(Byte)
         /\ bootPc' = "image" /\ bootResult' = bootResult /\ failed' = failed
      \/ /\ mode' = mode /\ image' = image
         /\ bootPc' = "done" /\ bootResult' = "Failed" /\ failed' = TRUE
  BY <1>2, <1>3, OpenKeeps
<1>5. bootThread' = bootThread
  BY DEF gui
<1>6. Laid'
  BY <1>1, <1>4, EarlyMemory DEF DInv, Early
<1>7. Wired'
  BY <1>1, <1>2, <1>4, <1>5 DEF DInv, Wired, Early
<1>8. Opened'
  BY <1>2, <1>4 DEF Opened
<1>9. Chosen'
  BY <1>1, <1>2, <1>4 DEF DInv, Chosen, Early
<1> QED
  BY <1>6, <1>7, <1>8, <1>9

LEMMA ReadPackageFileKeeps ==
    ASSUME DInv, bootThread = "running", UNCHANGED gui, ReadPackageFile
    PROVE  Wired' /\ Opened' /\ Chosen' /\ Laid'
<1>1. /\ bootPc = "image" /\ bootPc' = "new" /\ package2 # NoFile /\ package2' = package2
      /\ UNCHANGED memory /\ mode' = mode /\ image' = image /\ bootResult' = bootResult
      /\ \/ code' = package2 /\ failed' = failed
         \/ code' = stub_kernel /\ failed' = TRUE
  BY DEF ReadPackageFile, At, UseStub, disk
<1>2. bootThread' = bootThread
  BY DEF gui
<1>3. Laid'
  BY <1>1, EarlyMemory DEF DInv, Early
<1>4. Wired'
  BY <1>1, <1>2 DEF DInv, Wired, Early
<1>5. Opened'
  BY <1>1 DEF DInv, Opened
<1>6. Chosen'
  BY <1>1, StubIsCode DEF DInv, Chosen, Early, ImageToRun
<1> QED
  BY <1>3, <1>4, <1>5, <1>6

LEMMA OpenProbeKeeps ==
    ASSUME DInv, bootThread = "running", UNCHANGED gui, OpenProbe
    PROVE  Wired' /\ Opened' /\ Chosen' /\ Laid'
<1>1. /\ bootPc = "image" /\ package2 = NoFile /\ package2' = package2
      /\ UNCHANGED memory /\ bootResult' = bootResult
      /\ Opening(probe,
                 bootPc' = "header" /\ UNCHANGED <<code, failed>>,
                 bootPc' = "new" /\ UseStub /\ failed' = TRUE)
  BY DEF OpenProbe
<1>2. /\ mode \in [Handles -> {"closed", "rw"}] /\ image \in Seq(Byte)
      /\ mode[main] = "rw" /\ mode[probe] = "closed" /\ ~failed
      /\ Len(image) >= Host!Capacity
      /\ main \in Handles /\ probe \in Handles /\ main # probe
  BY <1>1 DEF DInv, Wired, Opened, Chosen, Handles, main, probe
<1>3. \/ /\ Host!Open(probe) /\ mode'[probe] = "rw"
         /\ bootPc' = "header" /\ code' = code /\ failed' = failed
      \/ /\ Host!Open(probe) /\ mode'[probe] # "rw"
         /\ bootPc' = "new" /\ code' = stub_kernel /\ failed' = TRUE
      \/ /\ mode' = mode /\ image' = image
         /\ bootPc' = "new" /\ code' = stub_kernel /\ failed' = TRUE
  BY <1>1 DEF Opening, disk, UseStub
<1>4. /\ image' = image
      /\ \/ /\ mode' = [mode EXCEPT ![probe] = "rw"]
            /\ bootPc' = "header" /\ code' = code /\ failed' = failed
         \/ /\ mode' = mode
            /\ bootPc' = "new" /\ code' = stub_kernel /\ failed' = TRUE
  BY <1>2, <1>3, OpenKeeps
<1>5. bootThread' = bootThread
  BY DEF gui
<1>6. Laid'
  BY <1>1, <1>4, EarlyMemory DEF DInv, Early
<1>7. Wired'
  BY <1>1, <1>4, <1>5 DEF DInv, Wired, Early
<1>8. Opened'
  BY <1>1, <1>2, <1>4 DEF DInv, Opened
<1>9. Chosen'
  BY <1>1, <1>2, <1>4, StubIsCode DEF DInv, Chosen, Early, ImageToRun
<1> QED
  BY <1>6, <1>7, <1>8, <1>9

LEMMA DropProbeKeeps ==
    ASSUME DInv, bootThread = "running", UNCHANGED gui, DropProbe
    PROVE  Wired' /\ Opened' /\ Chosen' /\ Laid'
<1>1. /\ bootPc = "drop" /\ bootPc' = "new" /\ package2' = package2 /\ code' = code
      /\ failed' = failed /\ bootResult' = bootResult /\ UNCHANGED memory
      /\ mode' = [mode EXCEPT ![probe] = "closed"] /\ image' = image
  BY DEF DropProbe, At, Host!Close
<1>2. bootThread' = bootThread /\ main \in Handles /\ probe \in Handles /\ main # probe
  BY DEF gui, Handles, main, probe
<1>3. Laid'
  BY <1>1, EarlyMemory DEF DInv, Early
<1>4. Wired'
  BY <1>1, <1>2 DEF DInv, Wired, Early
<1>5. Opened'
  BY <1>1, <1>2 DEF DInv, Opened
<1>6. Chosen'
  BY <1>1 DEF DInv, Chosen, Early, ImageToRun
<1> QED
  BY <1>3, <1>4, <1>5, <1>6

LEMMA ReadHeaderKeeps ==
    ASSUME DInv, bootThread = "running", UNCHANGED gui, ReadHeader
    PROVE  Wired' /\ Opened' /\ Chosen' /\ Laid'
<1>1. /\ bootPc = "header" /\ package2' = package2 /\ UNCHANGED memory
      /\ bootResult' = bootResult
      /\ Host!ReadPartition(probe, "System", 0, HeaderSize)
      /\ \/ /\ reply'.status = "ok" /\ HasPackage(reply'.data)
            /\ bootPc' = "package" /\ code' = code /\ failed' = failed
         \/ /\ reply'.status = "ok" /\ ~HasPackage(reply'.data)
            /\ bootPc' = "drop" /\ code' = stub_kernel /\ failed' = failed
         \/ bootPc' = "drop" /\ code' = stub_kernel /\ failed' = TRUE
  BY DEF ReadHeader, UseStub
<1>2. /\ HeaderSize \in Nat /\ 0 \in Nat /\ 0 + HeaderSize <= SystemBlocks * BlockSize
      /\ SystemBytes \in Nat
  <2> DEFINE size == SystemBlocks * BlockSize
  <2>1. HeaderSize \in Nat /\ MaxPackage \in Nat /\ size \in Nat /\ HeaderSize + MaxPackage <= size
        /\ SystemBytes \in Nat
    BY BootAssumption, DeviceFacts
  <2> HIDE DEF size
  <2>2. 0 + HeaderSize <= size
    BY <2>1
  <2> QED
    BY <2>1, <2>2 DEF size
<1>3. probe \in Handles
  BY DEF Handles
<1>4. /\ mode' = mode /\ image' = image
      /\ reply'.status = "ok" =>
           reply'.data = SubSeq(image, SystemBytes + 0 + 1, SystemBytes + 0 + HeaderSize)
  BY <1>1, <1>2, <1>3, SystemRead
<1>5. reply'.status = "ok" => reply'.data = Header
  <2>1. SystemBytes + 0 + 1 = SystemBytes + 1 /\ SystemBytes + 0 + HeaderSize = SystemBytes + HeaderSize
    BY <1>2
  <2> QED
    BY <1>4, <2>1 DEF Header
<1>6. Header' = Header
  BY <1>4 DEF Header
<1>7. bootThread' = bootThread
  BY DEF gui
<1>8. Laid'
  BY <1>1, EarlyMemory DEF DInv, Early
<1>9. Wired'
  BY <1>1, <1>7 DEF DInv, Wired, Early
<1>10. Opened'
  BY <1>1, <1>4 DEF DInv, Opened
<1>11. Chosen'
  <2>1. package2 = NoFile /\ ~failed /\ code \in Seq(Byte)
    BY <1>1 DEF DInv, Chosen
  <2>2. CASE bootPc' = "package" /\ code' = code /\ failed' = failed
             /\ reply'.data = Header /\ HasPackage(Header)
    BY <1>1, <1>6, <2>1, <2>2 DEF Chosen, Early, HasPackage
  <2>3. CASE bootPc' = "drop" /\ code' = stub_kernel /\ failed' = TRUE
    BY <1>1, <2>1, <2>3, StubIsCode DEF Chosen, Early
  <2>4. CASE bootPc' = "drop" /\ code' = stub_kernel /\ ~HasPackage(Header)
    <3>1. ~HasPackage(Header')
      BY <1>6, <2>4
    <3>2. ImageToRun' = stub_kernel
      BY <1>1, <1>4, <1>6, <2>1, <2>4 DEF ImageToRun, Header, HasPackage
    <3> QED
      BY <1>1, <2>1, <2>4, <3>2, StubIsCode DEF Chosen, Early
  <2> QED
    BY <1>1, <1>5, <2>2, <2>3, <2>4
<1> QED
  BY <1>8, <1>9, <1>10, <1>11

LEMMA ReadPackageKeeps ==
    ASSUME DInv, bootThread = "running", UNCHANGED gui, ReadPackage
    PROVE  Wired' /\ Opened' /\ Chosen' /\ Laid'
<1> DEFINE size == reply.data[2]
<1>1. /\ bootPc = "package" /\ bootPc' = "drop" /\ package2' = package2 /\ UNCHANGED memory
      /\ bootResult' = bootResult
      /\ Host!ReadPartition(probe, "System", HeaderSize, size)
      /\ \/ reply'.status = "ok" /\ code' = reply'.data /\ failed' = failed
         \/ code' = stub_kernel /\ failed' = TRUE
  BY DEF ReadPackage, PackageOffset, At, UseStub
<1>2. /\ package2 = NoFile /\ ~failed /\ image \in Seq(Byte)
      /\ mode \in [Handles -> {"closed", "rw"}] /\ mode[main] = "rw"
      /\ Len(image) >= Host!Capacity
      /\ reply.data = Header /\ HasPackage(Header)
  BY <1>1 DEF DInv, Opened, Chosen
<1>3. /\ HeaderSize \in Nat /\ HeaderSize >= 2 /\ MaxPackage \in Nat /\ SystemBytes \in Nat
      /\ \A n \in Nat : n < MaxPackage =>
            /\ HeaderSize + n <= SystemBlocks * BlockSize
            /\ SystemBytes + HeaderSize + n <= Host!Capacity
      /\ SystemBytes + HeaderSize <= Host!Capacity /\ Host!Capacity \in Nat
  <2> DEFINE room == SystemBlocks * BlockSize
  <2>1. /\ HeaderSize \in Nat /\ HeaderSize >= 2 /\ MaxPackage \in Nat /\ room \in Nat
        /\ HeaderSize + MaxPackage <= room /\ SystemBytes \in Nat
        /\ Host!Capacity \in Nat /\ SystemBytes + room <= Host!Capacity
    BY BootAssumption, DeviceFacts
  <2> HIDE DEF room
  <2>2. \A n \in Nat : n < MaxPackage =>
          HeaderSize + n <= room /\ SystemBytes + HeaderSize + n <= Host!Capacity
    BY <2>1
  <2>3. SystemBytes + HeaderSize <= Host!Capacity
    BY <2>1
  <2> QED
    BY <2>1, <2>2, <2>3 DEF room
<1>4. \A i \in Int : 1 <= i /\ i <= Host!Capacity => image[i] \in Byte
  BY <1>2, <1>3, LenProperties, ElementOfSeq
<1>5. size = image[SystemBytes + 2] /\ size \in Nat /\ 0 < size /\ size < MaxPackage
  <2>1. \A i \in SystemBytes + 1 .. SystemBytes + HeaderSize : image[i] \in Byte
    BY <1>3, <1>4
  <2>2. \A i \in 1 .. (SystemBytes + HeaderSize) - (SystemBytes + 1) + 1 :
          Header[i] = image[SystemBytes + 1 + i - 1]
    BY <1>3, <2>1, SubSeqProperties DEF Header
  <2>3. Header[2] = image[SystemBytes + 1 + 2 - 1]
    <3>1. 2 \in 1 .. (SystemBytes + HeaderSize) - (SystemBytes + 1) + 1
      BY <1>3
    <3> QED
      BY <2>2, <3>1
  <2>4. SystemBytes + 1 + 2 - 1 = SystemBytes + 2
    BY <1>3
  <2>5. image[SystemBytes + 2] \in Byte
    <3>1. SystemBytes + 2 \in SystemBytes + 1 .. SystemBytes + HeaderSize
      BY <1>3
    <3> QED
      BY <2>1, <3>1
  <2>6. Byte \subseteq Nat
    BY BootAssumption
  <2> QED
    BY <1>2, <2>3, <2>4, <2>5, <2>6 DEF HasPackage
<1> HIDE DEF size
<1>6. HeaderSize + size <= SystemBlocks * BlockSize /\ SystemBytes + HeaderSize + size <= Host!Capacity
  BY <1>3, <1>5
<1>7. probe \in Handles
  BY DEF Handles
<1>8. /\ mode' = mode /\ image' = image
      /\ reply'.status = "ok" =>
           reply'.data = SubSeq(image, SystemBytes + HeaderSize + 1, SystemBytes + HeaderSize + size)
  BY <1>1, <1>3, <1>5, <1>6, <1>7, SystemRead
<1>9. bootThread' = bootThread
  BY DEF gui
<1>10. Laid'
  BY <1>1, EarlyMemory DEF DInv, Early
<1>11. Wired'
  BY <1>1, <1>9 DEF DInv, Wired, Early
<1>12. Opened'
  BY <1>1, <1>8 DEF DInv, Opened
<1>13. ImageToRun' = SubSeq(image, SystemBytes + HeaderSize + 1, SystemBytes + HeaderSize + size)
  BY <1>1, <1>2, <1>5, <1>8 DEF ImageToRun, Header, HasPackage
<1>14. SubSeq(image, SystemBytes + HeaderSize + 1, SystemBytes + HeaderSize + size) \in Seq(Byte)
  <2>1. \A i \in SystemBytes + HeaderSize + 1 .. SystemBytes + HeaderSize + size : image[i] \in Byte
    BY <1>3, <1>4, <1>5, <1>6
  <2> QED
    BY <1>3, <1>5, <2>1, SubSeqProperties
<1>15. Chosen'
  <2>1. CASE code' = stub_kernel /\ failed' = TRUE
    BY <1>1, <1>2, <2>1, StubIsCode DEF Chosen, Early
  <2>2. CASE code' = reply'.data /\ reply'.status = "ok" /\ failed' = failed
    <3>1. code' \in Seq(Byte) /\ code' = ImageToRun'
      BY <1>8, <1>13, <1>14, <2>2
    <3> QED
      BY <1>1, <1>2, <2>2, <3>1 DEF Chosen, Early
  <2> QED
    BY <1>1, <2>1, <2>2
<1> QED
  BY <1>10, <1>11, <1>12, <1>15
---------------------------------------------------------------------------------
(* Phases 3 and 4 keep it *)

Later == {"new", "load", "qload"} \cup KernelIn \cup BothIn

LEMMA KernelSide ==
    ASSUME DInv, bootThread = "running",
           UNCHANGED <<bootThread, image, mode, package2, code, failed, bootResult>>,
           bootPc \in Later, bootPc' \in Later
    PROVE  Wired' /\ Opened' /\ Chosen'
<1>1. Wired'
  BY DEF DInv, Wired, Later, Early, KernelIn, BothIn
<1>2. Opened'
  BY DEF DInv, Opened, Wired, Later, Early, KernelIn, BothIn
<1>3. ImageToRun' = ImageToRun
  BY DEF ImageToRun
<1>4. bootPc \notin (Early \ {"drop", "new"})
  BY DEF Later, Early, KernelIn, BothIn
<1>5. bootPc' \notin {"nand", "image", "header", "package", "drop"}
  BY DEF Later, Early, KernelIn, BothIn
<1>6. Chosen'
  BY <1>3, <1>4, <1>5 DEF DInv, Chosen
<1> QED
  BY <1>1, <1>2, <1>6

LEMMA BlankIsMemory == \A a \in Addresses : Blank[a] = 0
BY DEF Blank

\* Nothing loaded, and everything loaded.
LEMMA PartlyNothing ==
    ASSUME NEW vaddr \in Nat, NEW bytes \in Seq(Byte), NEW before,
           before = [a \in Addresses |-> before[a]],
           mem = before, loaded = 0
    PROVE  Partly(before, vaddr, bytes)
<1>1. Len(bytes) \in Nat
  BY LenProperties
<1>2. loaded \in 0 .. Len(bytes) /\ loaded % 4 = 0
  BY <1>1
<1>3. ASSUME NEW a \in Addresses
      PROVE  ~(vaddr <= a /\ a < vaddr + loaded)
  <2>1. a \in Int
    BY MemAssumption DEF Addresses
  <2> QED
    BY <2>1
<1>4. mem = [a \in Addresses |-> IF vaddr <= a /\ a < vaddr + loaded
                                 THEN bytes[a - vaddr + 1] ELSE before[a]]
  BY <1>3
<1> QED
  BY <1>2, <1>4 DEF Partly

LEMMA PartlyAll ==
    ASSUME NEW vaddr \in Nat, NEW bytes, NEW before,
           Partly(before, vaddr, bytes), loaded = Len(bytes)
    PROVE  mem = WithCode(before, vaddr, bytes)
BY DEF Partly, WithCode

LEMMA NewKernelKeeps ==
    ASSUME DInv, bootThread = "running", UNCHANGED gui, NewKernel
    PROVE  Wired' /\ Opened' /\ Chosen' /\ Laid'
<1>1. /\ bootPc = "new" /\ bootPc' = "load" /\ mem' = mem /\ loaded' = loaded
      /\ UNCHANGED <<bootThread, image, mode, package2, code, failed, bootResult>>
  BY DEF NewKernel, At, memory, disk, gui
<1>2. bootPc \in Later /\ bootPc' \in Later
  BY <1>1 DEF Later
<1>3. mem = Blank /\ loaded = 0 /\ code \in Seq(Byte)
  BY <1>1 DEF DInv, Laid, Early, Chosen
<1>4. Partly(Blank, KERNEL_BASE, code)
  <2>1. Blank = [a \in Addresses |-> Blank[a]] /\ KERNEL_BASE \in Nat
    BY BootAssumption DEF Blank
  <2> QED
    BY <1>3, <2>1, PartlyNothing
<1>5. Partly(Blank, KERNEL_BASE, code)'
  BY <1>1, <1>4 DEF Partly, Blank
<1>6. Laid'
  BY <1>1, <1>5 DEF Laid, Early, KernelIn, BothIn
<1> QED
  BY <1>1, <1>2, <1>6, KernelSide

LEMMA LoadKernelKeeps ==
    ASSUME DInv, bootThread = "running", UNCHANGED gui, LoadKernel
    PROVE  Wired' /\ Opened' /\ Chosen' /\ Laid'
<1>1. /\ bootPc = "load"
      /\ UNCHANGED <<bootThread, image, mode, package2, code, failed, bootResult>>
      /\ \/ bootPc' = "load" /\ LoadChunk(KERNEL_BASE, code)
         \/ bootPc' = "create" /\ loaded = Len(code) /\ loaded' = 0 /\ mem' = mem
  BY DEF LoadKernel, Loading, At, disk, gui
<1>2. bootPc \in Later /\ bootPc' \in Later
  BY <1>1 DEF Later, KernelIn
<1>3. Partly(Blank, KERNEL_BASE, code) /\ code \in Seq(Byte)
  BY <1>1 DEF DInv, Laid, Chosen
<1>4. KERNEL_BASE \in Nat /\ KERNEL_BASE % 4 = 0
  BY BootAssumption
<1>5. Blank' = Blank /\ KernelImage' = KernelImage
  BY <1>1 DEF Blank, KernelImage, WithCode
<1>6. CASE bootPc' = "load" /\ LoadChunk(KERNEL_BASE, code)
  <2>1. Partly(Blank, KERNEL_BASE, code)'
    <3>1. /\ loaded' \in 0 .. Len(code)
          /\ loaded' % 4 = 0 \/ loaded' + 4 > Len(code)
          /\ mem' = [a \in Addresses |-> IF KERNEL_BASE <= a /\ a < KERNEL_BASE + loaded'
                                         THEN code[a - KERNEL_BASE + 1] ELSE Blank[a]]
      BY <1>3, <1>4, <1>6, ChunkKeeps
    <3> QED
      BY <1>1, <1>5, <3>1 DEF Partly
  <2>2. Laid'
    BY <1>6, <2>1 DEF Laid, Early, KernelIn, BothIn
  <2> QED
    BY <1>1, <1>2, <2>2, KernelSide
<1>7. CASE bootPc' = "create" /\ loaded = Len(code) /\ loaded' = 0 /\ mem' = mem
  <2>1. mem = KernelImage
    BY <1>3, <1>4, <1>7, PartlyAll DEF KernelImage
  <2>2. Laid'
    BY <1>5, <1>7, <2>1 DEF Laid, Early, KernelIn, BothIn
  <2> QED
    BY <1>1, <1>2, <2>2, KernelSide
<1> QED
  BY <1>1, <1>6, <1>7

LEMMA LoadQlaunchKeeps ==
    ASSUME DInv, bootThread = "running", UNCHANGED gui, LoadQlaunch
    PROVE  Wired' /\ Opened' /\ Chosen' /\ Laid'
<1>1. /\ bootPc = "qload"
      /\ UNCHANGED <<bootThread, image, mode, package2, code, failed, bootResult>>
      /\ \/ bootPc' = "qload" /\ LoadChunk(QLAUNCH_BASE, stub_kernel)
         \/ bootPc' = "qthread" /\ loaded = Len(stub_kernel) /\ loaded' = 0 /\ mem' = mem
  BY DEF LoadQlaunch, Loading, At, disk, gui
<1>2. bootPc \in Later /\ bootPc' \in Later
  BY <1>1 DEF Later, BothIn
<1>3. Partly(KernelImage, QLAUNCH_BASE, stub_kernel) /\ stub_kernel \in Seq(Byte)
  BY <1>1, StubIsCode DEF DInv, Laid
<1>4. QLAUNCH_BASE \in Nat /\ QLAUNCH_BASE % 4 = 0
  BY BootAssumption
<1>5. KernelImage' = KernelImage /\ stub_kernel' = stub_kernel
  BY <1>1 DEF KernelImage, WithCode, Blank, stub_kernel
<1>6. CASE bootPc' = "qload" /\ LoadChunk(QLAUNCH_BASE, stub_kernel)
  <2>1. Partly(KernelImage, QLAUNCH_BASE, stub_kernel)'
    <3>1. /\ loaded' \in 0 .. Len(stub_kernel)
          /\ loaded' % 4 = 0 \/ loaded' + 4 > Len(stub_kernel)
          /\ mem' = [a \in Addresses |-> IF QLAUNCH_BASE <= a /\ a < QLAUNCH_BASE + loaded'
                                         THEN stub_kernel[a - QLAUNCH_BASE + 1]
                                         ELSE KernelImage[a]]
      BY <1>3, <1>4, <1>6, ChunkKeeps
    <3> QED
      BY <1>5, <3>1 DEF Partly
  <2>2. Laid'
    BY <1>6, <2>1 DEF Laid, Early, KernelIn, BothIn
  <2> QED
    BY <1>1, <1>2, <2>2, KernelSide
<1>7. CASE bootPc' = "qthread" /\ loaded = Len(stub_kernel) /\ loaded' = 0 /\ mem' = mem
  <2>1. mem = WithCode(KernelImage, QLAUNCH_BASE, stub_kernel)
    BY <1>3, <1>4, <1>7, PartlyAll
  <2>2. WithCode(KernelImage, QLAUNCH_BASE, stub_kernel)'
          = WithCode(KernelImage, QLAUNCH_BASE, stub_kernel)
    BY <1>5 DEF WithCode
  <2>3. Laid'
    BY <1>7, <2>1, <2>2 DEF Laid, Early, KernelIn, BothIn
  <2> QED
    BY <1>1, <1>2, <2>3, KernelSide
<1> QED
  BY <1>1, <1>6, <1>7

\* The other calls leave memory alone.
LEMMA CallsKeep ==
    ASSUME DInv, bootThread = "running", UNCHANGED gui,
           CallKernel \/ StartServices \/ RegisterNextPort
    PROVE  Wired' /\ Opened' /\ Chosen' /\ Laid'
<1>1. /\ \/ bootPc \in KernelIn /\ bootPc' \in KernelIn
         \/ bootPc \in KernelIn /\ bootPc' = "qload"
         \/ bootPc \in BothIn /\ bootPc' \in BothIn
      /\ UNCHANGED memory /\ UNCHANGED disk
      /\ UNCHANGED <<package2, code, failed, bootResult>>
  <2>1. CASE CallKernel
    BY <2>1 DEF CallKernel, KernelCall, At, KernelIn, BothIn
  <2>2. CASE StartServices
    BY <2>2 DEF StartServices, At, KernelIn
  <2>3. CASE RegisterNextPort
    <3>1. bootPc = "ports" /\ bootPc' \in {"ports", "qcreate"}
      BY <2>3 DEF RegisterNextPort, At
    <3> QED
      BY <2>3, <3>1 DEF RegisterNextPort, KernelIn
  <2> QED
    BY <2>1, <2>2, <2>3
<1>2. /\ mem' = mem /\ loaded' = loaded
      /\ UNCHANGED <<bootThread, image, mode, package2, code, failed, bootResult>>
  BY <1>1 DEF memory, disk, gui
<1>3. bootPc \in Later /\ bootPc' \in Later
  BY <1>1 DEF Later
<1>4. KernelImage' = KernelImage
  BY <1>2 DEF KernelImage, WithCode, Blank
<1>5. Laid'
  <2>1. CASE bootPc \in KernelIn /\ bootPc' \in KernelIn
    BY <1>2, <1>4, <2>1 DEF DInv, Laid, Early, KernelIn, BothIn
  <2>2. CASE bootPc \in KernelIn /\ bootPc' = "qload"
    <3>1. mem = KernelImage /\ loaded = 0
      BY <2>2 DEF DInv, Laid
    <3>2. KernelImage = [a \in Addresses |-> KernelImage[a]] /\ QLAUNCH_BASE \in Nat
      BY BootAssumption DEF KernelImage, WithCode
    <3>3. Partly(KernelImage, QLAUNCH_BASE, stub_kernel)
      BY <3>1, <3>2, StubIsCode, PartlyNothing
    <3>4. Partly(KernelImage, QLAUNCH_BASE, stub_kernel)'
      BY <1>2, <1>4, <3>3 DEF Partly, stub_kernel
    <3> QED
      BY <2>2, <3>4 DEF Laid, Early, KernelIn, BothIn
  <2>3. CASE bootPc \in BothIn /\ bootPc' \in BothIn
    <3>1. WithCode(KernelImage, QLAUNCH_BASE, stub_kernel)'
            = WithCode(KernelImage, QLAUNCH_BASE, stub_kernel)
      BY <1>4 DEF WithCode, stub_kernel
    <3> QED
      BY <1>2, <2>3, <3>1 DEF DInv, Laid, Early, KernelIn, BothIn
  <2> QED
    BY <1>1, <2>1, <2>2, <2>3
<1> QED
  BY <1>2, <1>3, <1>5, KernelSide

LEMMA ReturnKeeps ==
    ASSUME DInv, bootThread = "running", UNCHANGED gui, Return
    PROVE  Wired' /\ Opened' /\ Chosen' /\ Laid'
<1>1. /\ bootPc = "return" /\ bootPc' = "done" /\ mem' = Blank /\ loaded' = 0
      /\ bootResult' = "Running"
      /\ UNCHANGED <<bootThread, image, mode, package2, code, failed>>
  BY DEF Return, At, NoKernel, PhaseAtEnd, disk, gui
<1>2. Laid'
  BY <1>1 DEF Laid, Early, KernelIn, BothIn, Blank
<1>3. Wired'
  BY <1>1 DEF DInv, Wired, Early
<1>4. Opened'
  BY <1>1 DEF DInv, Opened
<1>5. Chosen'
  BY <1>1 DEF DInv, Chosen, Early
<1> QED
  BY <1>2, <1>3, <1>4, <1>5

LEMMA RunBootKeeps ==
    ASSUME DInv, RunBoot
    PROVE  Wired' /\ Opened' /\ Chosen' /\ Laid'
<1>1. bootThread = "running" /\ UNCHANGED gui /\ BootStep
  BY DEF RunBoot
<1> QED
  BY <1>1, OpenNandKeeps, ReadPackageFileKeeps, OpenProbeKeeps, ReadHeaderKeeps,
     ReadPackageKeeps, DropProbeKeeps, NewKernelKeeps, LoadKernelKeeps, CallsKeep,
     LoadQlaunchKeeps, ReturnKeeps DEF BootStep
---------------------------------------------------------------------------------
(* The caller keeps it *)

LEMMA UntouchedKeeps ==
    ASSUME DInv,
           UNCHANGED <<bootThread, bootPc, bootResult, mode, image, package2, code, failed,
                       reply, mem, loaded>>
    PROVE  Wired' /\ Opened' /\ Chosen' /\ Laid'
<1>1. Wired'
  BY DEF DInv, Wired
<1>2. Opened'
  BY DEF DInv, Opened
<1>3. Chosen'
  <2>1. ImageToRun' = ImageToRun /\ Header' = Header
    BY DEF ImageToRun, Header
  <2>2. HasPackage(Header)' = HasPackage(Header)
    BY <2>1 DEF HasPackage
  <2> QED
    BY <2>1, <2>2 DEF DInv, Chosen
<1>4. Laid'
  <2>1. KernelImage' = KernelImage
    BY DEF KernelImage, WithCode, Blank
  <2>2. Partly(Blank, KERNEL_BASE, code)' = Partly(Blank, KERNEL_BASE, code)
    BY DEF Partly, Blank
  <2>3. Partly(KernelImage, QLAUNCH_BASE, stub_kernel)'
          = Partly(KernelImage, QLAUNCH_BASE, stub_kernel)
    BY <2>1 DEF Partly, stub_kernel
  <2>4. WithCode(KernelImage, QLAUNCH_BASE, stub_kernel)'
          = WithCode(KernelImage, QLAUNCH_BASE, stub_kernel)
    BY <2>1 DEF WithCode, stub_kernel
  <2> QED
    BY <2>1, <2>2, <2>3, <2>4 DEF DInv, Laid, Blank
<1> QED
  BY <1>1, <1>2, <1>3, <1>4

LEMMA FramesKeep ==
    ASSUME DInv, NEW clicks \in SUBSET Jobs, DrawFrame(clicks)
    PROVE  Wired' /\ Opened' /\ Chosen' /\ Laid'
<1> USE DEF DInv
<1>1. /\ Frame(clicks, bootResult) /\ bootThread # "panicked" /\ (clicks # {} => ~Busy)
      /\ bootThread' = IF "boot" \in clicks THEN "running" ELSE BootLeft
      /\ IF bootThread = "finished" \/ "boot" \in clicks THEN TakeResult ELSE UNCHANGED boot
      /\ IF "boot" \in clicks THEN \E file \in Configs : Call(file)
         ELSE UNCHANGED <<bootPc, package2, failed>>
  BY DEF DrawFrame, Frame
<1>2. CASE bootThread = "finished" \/ "boot" \in clicks
  <2>1. TakeResult
    BY <1>1, <1>2
  <2>2. bootThread \in {"none", "finished"}
    BY <1>1, <1>2 DEF Busy, BootLeft, GuiInv, GuiTypeOK
  <2>3. /\ bootPc = "off" /\ mode[probe] # "rw" /\ mode \in [Handles -> {"closed", "rw"}]
        /\ main \in Handles /\ probe \in Handles /\ main # probe
    BY <2>2 DEF Wired, Opened, Handles, main, probe
  <2>4. /\ bootResult' = "none" /\ image' = image /\ code' = code
        /\ mem' = mem /\ loaded' = loaded
        /\ \/ mode' = [mode EXCEPT ![main] = "closed"]
           \/ mode[main] = "closed" /\ mode' = mode
    BY <2>1 DEF TakeResult, Host!Close, disk, memory
  <2>5. mode' \in [Handles -> {"closed", "rw"}] /\ mode'[main] = "closed" /\ mode'[probe] = "closed"
    BY <2>3, <2>4
  <2>6. CASE "boot" \in clicks
    <3>1. PICK file \in Configs : Call(file)
      BY <1>1, <2>6
    <3>2. bootPc' = "nand" /\ package2' = file /\ failed' = FALSE /\ bootThread' = "running"
      BY <1>1, <2>6, <3>1 DEF Call, At
    <3>3. file # NoFile => file \in Seq(Byte)
      BY DesktopAssumption
    <3>4. Wired'
      BY <2>4, <3>2 DEF Wired, Early
    <3>5. Opened'
      BY <2>4, <2>5, <3>2 DEF Opened
    <3>6. Chosen'
      BY <2>4, <3>2, <3>3 DEF Chosen, Early
    <3>7. Laid'
      BY <2>3, <2>4, <3>2 DEF Laid, Early, KernelIn, BothIn, Blank
    <3> QED
      BY <3>4, <3>5, <3>6, <3>7
  <2>7. CASE "boot" \notin clicks
    <3>1. bootPc' = "off" /\ package2' = package2 /\ failed' = failed /\ bootThread' = "none"
      BY <1>1, <1>2, <2>3, <2>7 DEF BootLeft
    <3>4. Wired'
      BY <2>4, <3>1 DEF Wired, Early
    <3>5. Opened'
      BY <2>4, <2>5, <3>1 DEF Opened
    <3>6. Chosen'
      BY <2>4, <3>1 DEF Chosen, Early
    <3>7. Laid'
      BY <2>3, <2>4, <3>1 DEF Laid, Early, KernelIn, BothIn, Blank
    <3> QED
      BY <3>4, <3>5, <3>6, <3>7
  <2> QED
    BY <2>6, <2>7
<1>3. CASE ~(bootThread = "finished" \/ "boot" \in clicks)
  <2>1. bootThread' = bootThread /\ UNCHANGED boot
    BY <1>1, <1>3 DEF BootLeft
  <2>2. UNCHANGED <<bootThread, bootPc, bootResult, mode, image, package2, code, failed, reply,
                    mem, loaded>>
    BY <2>1 DEF boot, memory, disk, progress
  <2> HIDE DEF DInv
  <2> QED
    BY <2>2, UntouchedKeeps
<1> QED
  BY <1>2, <1>3

\* A result is taken with its phase, and without one the phase is not looked at.
LEMMA FrameOfGui ==
    ASSUME DInv, NEW clicks \in SUBSET Jobs, DrawFrame(clicks)
    PROVE  \E result \in {"Running", "Failed"} : Frame(clicks, result)
<1>1. Frame(clicks, bootResult)
  BY DEF DrawFrame
<1>2. CASE bootResult # "none"
  BY <1>1, <1>2 DEF DInv, Wired
<1>3. CASE bootResult = "none"
  <2>1. bootThread # "finished"
    BY <1>3 DEF DInv, Wired
  <2>2. PhaseLeft("Running") = PhaseLeft(bootResult)
    BY <2>1 DEF PhaseLeft
  <2>3. Frame(clicks, "Running")
    BY <1>1, <2>2 DEF Frame
  <2> QED
    BY <2>3
<1> QED
  BY <1>2, <1>3

LEMMA StepOfGui ==
    ASSUME DInv, DesktopNext
    PROVE  GuiNext \/ UNCHANGED gui
<1>1. CASE \E clicks \in SUBSET Jobs : DrawFrame(clicks)
  BY <1>1, FrameOfGui DEF GuiNext
<1>2. CASE RunBoot
  BY <1>2 DEF RunBoot
<1>3. CASE DrawSplash \/ BeginTests \/ EndTests
  BY <1>3 DEF DrawSplash, BeginTests, EndTests, GuiNext
<1>4. CASE ReturnFromBoot \/ ExitBoot \/ PanicInBoot
  BY <1>4 DEF ReturnFromBoot, ExitBoot, PanicInBoot, GuiNext
<1>5. CASE GoDown \/ Pass \/ Start
  BY <1>5 DEF GoDown, Pass, Start, GuiNext
<1> QED
  BY <1>1, <1>2, <1>3, <1>4, <1>5 DEF DesktopNext

LEMMA DesktopStepKeeps ==
    ASSUME DInv, [DesktopNext]_desktop
    PROVE  DInv'
<1>1. GuiInv'
  <2>1. CASE DesktopNext
    BY <2>1, StepOfGui, GuiStepKeeps DEF DInv
  <2>2. CASE UNCHANGED desktop
    BY <2>2, GuiStepKeeps DEF DInv, desktop
  <2> QED
    BY <2>1, <2>2
<1>2. CASE \E clicks \in SUBSET Jobs : DrawFrame(clicks)
  BY <1>1, <1>2, FramesKeep DEF DInv
<1>3. CASE RunBoot
  BY <1>1, <1>3, RunBootKeeps DEF DInv
<1>4. ASSUME UNCHANGED boot, bootThread' = bootThread
      PROVE  DInv'
  <2>1. UNCHANGED <<bootThread, bootPc, bootResult, mode, image, package2, code, failed, reply,
                    mem, loaded>>
    BY <1>4 DEF boot, memory, disk, progress
  <2> QED
    BY <1>1, <2>1, UntouchedKeeps DEF DInv
<1>5. CASE DrawSplash \/ BeginTests \/ EndTests \/ Pass \/ Start \/ UNCHANGED desktop
  <2>1. UNCHANGED boot /\ bootThread' = bootThread
    BY <1>5 DEF DrawSplash, BeginTests, EndTests, Pass, Start, desktop, gui, SplashFrame,
                TestsBegin, TestsEnd, SplashOver, Launch
  <2> QED
    BY <1>4, <2>1
<1>6. CASE ReturnFromBoot
  <2>1. /\ bootPc = "done" /\ bootPc' = "off" /\ package2' = NoFile /\ code' = <<>>
        /\ bootThread' = "returned" /\ mem' = mem /\ loaded' = loaded
        /\ UNCHANGED <<image, mode, bootResult>>
    BY <1>6 DEF ReturnFromBoot, BootReturns, ThreadReturns, At, memory, disk
  <2>2. code' \in Seq(Byte)
    BY <2>1, EmptySeq
  <2>3. Wired' /\ Opened'
    BY <2>1 DEF DInv, Wired, Opened, Early
  <2>4. Chosen'
    BY <2>1, <2>2 DEF Chosen, Early
  <2>5. Laid'
    BY <2>1 DEF DInv, Laid, Early, KernelIn, BothIn, Blank
  <2> QED
    BY <1>1, <2>3, <2>4, <2>5 DEF DInv
<1>7. CASE ExitBoot
  <2>1. /\ bootThread = "returned" /\ bootThread' = "finished"
        /\ UNCHANGED <<bootPc, bootResult, mode, image, package2, code, failed, reply,
                       mem, loaded>>
    BY <1>7 DEF ExitBoot, BootExits, boot, memory, disk, progress
  <2>2. bootPc = "off"
    BY <2>1 DEF DInv, Wired
  <2>3. Wired' /\ Opened'
    BY <2>1 DEF DInv, Wired, Opened
  <2>4. Chosen'
    BY <2>1, <2>2 DEF DInv, Chosen, Early
  <2>5. Laid'
    BY <2>1, <2>2 DEF DInv, Laid, Early, KernelIn, BothIn, Blank
  <2> QED
    BY <1>1, <2>3, <2>4, <2>5 DEF DInv
<1>8. CASE PanicInBoot
  <2>1. /\ bootPc = "new" /\ bootPc' = "off" /\ package2' = NoFile /\ code' = <<>>
        /\ bootThread = "running" /\ bootThread' = "panicked" /\ mem' = mem /\ loaded' = loaded
        /\ mode' = [mode EXCEPT ![main] = "closed"]
        /\ UNCHANGED <<image, bootResult>>
    BY <1>8 DEF PanicInBoot, BootPanics, PanicInNew, At, memory, Host!Close
  <2>2. code' \in Seq(Byte) /\ main \in Handles /\ probe \in Handles /\ main # probe
    BY <2>1, EmptySeq DEF Handles, main, probe
  <2>3. Wired'
    BY <2>1 DEF DInv, Wired, Early
  <2>4. Opened'
    BY <2>1, <2>2 DEF DInv, Wired, Opened
  <2>5. Chosen'
    BY <2>1, <2>2 DEF Chosen, Early
  <2>6. Laid'
    BY <2>1 DEF DInv, Laid, Early, KernelIn, BothIn, Blank
  <2> QED
    BY <1>1, <2>3, <2>4, <2>5, <2>6 DEF DInv
<1>9. CASE GoDown
  <2>1. /\ bootPc' = "off" /\ package2' = NoFile /\ code' = <<>> /\ failed' = FALSE
        /\ bootThread' = "none" /\ mem' = Blank /\ loaded' = 0 /\ bootResult' = "none"
        /\ mode' = [h \in Handles |-> "closed"] /\ image' = image
    BY <1>9 DEF GoDown, PanickingFrame, Quit, Down, Ended, NoKernel
  <2>2. code' \in Seq(Byte) /\ main \in Handles /\ probe \in Handles
    BY <2>1, EmptySeq DEF Handles, main, probe
  <2>3. Wired'
    BY <2>1 DEF Wired, Early
  <2>4. Opened'
    BY <2>1, <2>2 DEF DInv, Opened
  <2>5. Chosen'
    BY <2>1, <2>2 DEF Chosen, Early
  <2>6. Laid'
    BY <2>1 DEF Laid, Early, KernelIn, BothIn, Blank
  <2> QED
    BY <1>1, <2>3, <2>4, <2>5, <2>6 DEF DInv
<1> QED
  BY <1>2, <1>3, <1>5, <1>6, <1>7, <1>8, <1>9 DEF DesktopNext

LEMMA DesktopInitHolds == DesktopInit => DInv
<1> SUFFICES ASSUME DesktopInit
             PROVE  DInv
  OBVIOUS
<1>1. /\ GuiInit /\ mem = Blank /\ loaded = 0
      /\ image = <<>> \/ image \in Disks
      /\ mode = [h \in Handles |-> "closed"]
      /\ bootPc = "off" /\ package2 = NoFile /\ code = <<>>
      /\ bootResult = "none" /\ failed = FALSE
  BY DEF DesktopInit, BootInit
<1>2. /\ <<>> \in Seq(Byte) /\ Disks \subseteq Seq(Byte)
      /\ main \in Handles /\ probe \in Handles
  BY EmptySeq, BootAssumption DEF Handles
<1>3. GuiInv
  BY <1>1 DEF GuiInit, GuiInv, GuiTypeOK, NoneDetached, PhaseTellsBoot
<1>4. Wired
  BY <1>1 DEF GuiInit, Wired, Early
<1>5. Opened
  BY <1>1, <1>2 DEF Opened
<1>6. Chosen
  BY <1>1, <1>2 DEF Chosen, Early
<1>7. Laid
  BY <1>1 DEF Laid, Early, KernelIn, BothIn
<1> QED
  BY <1>3, <1>4, <1>5, <1>6, <1>7 DEF DInv

LEMMA DesktopInvariance == DesktopSpec => []DInv
BY DesktopInitHolds, DesktopStepKeeps, PTL DEF DesktopSpec
---------------------------------------------------------------------------------
(* The tests: what each program leaves, instruction by instruction *)

\* Immediates, numbers of registers, and where the k-th word of a program is.
Imm12 == 0 .. 4095
XNumbers == 0 .. 30
Place(k) == TEST_BASE_ADDR + 4 * (k - 1)

LEMMA Imm12Bounds == \A imm \in Imm12 : imm \in Int /\ 0 <= imm /\ imm < 4096
BY DEF Imm12

LEMMA NextPlaces == Place(1) + 4 = Place(2) /\ Place(2) + 4 = Place(3) /\ Place(3) + 4 = Place(4)
BY DEF Place, TEST_BASE_ADDR

\* What the core does at each kind of word the programs have.
LEMMA AddImmRuns ==
    ASSUME NEW s, s.halt = "no", s.pc \in DOMAIN s.mem,
           NEW rd \in 0 .. 30, NEW rn \in 0 .. 30, NEW imm \in Imm12,
           s.mem[s.pc] = add_imm(rd, rn, imm)
    PROVE  Execute(s) = Retire(s, rd, s.x[rn] + imm)
<1> DEFINE w == add_imm(rd, rn, imm)
<1>1. /\ w.top = 145 /\ Bits(w, 1, 32) = rd /\ Bits(w, 32, 32) = rn
      /\ Bits(w, 1024, 4096) = imm /\ Bits(w, 4194304, 4) = 0
  <2>1. w.top = 145 /\ w.rest = imm * 1024 + rn * 32 + rd
    BY SMT DEF add_imm, Word32
  <2> HIDE DEF w
  <2>2. imm \in Int /\ rn \in Int /\ rd \in Int /\ 0 <= imm /\ imm < 4096 /\ 0 <= rn /\ rn < 31
        /\ 0 <= rd /\ rd < 31
    BY Imm12Bounds, SMT
  <2>3. Bits(w, 1, 32) = rd
    BY <2>1, <2>2, SMT DEF Bits
  <2>4. Bits(w, 32, 32) = rn
    <3>1. (w.rest \div 32) = imm * 32 + rn
      BY <2>1, <2>2, SMT
    <3> QED BY <3>1, <2>2, SMT DEF Bits
  <2>5. Bits(w, 1024, 4096) = imm
    <3>1. (w.rest \div 1024) = imm
      BY <2>1, <2>2, SMT
    <3> QED BY <3>1, <2>2, SMT DEF Bits
  <2>7. Bits(w, 4194304, 4) = 0
    <3>1. (w.rest \div 4194304) = 0
      BY <2>1, <2>2, SMT
    <3> QED BY <3>1, SMT DEF Bits
  <2> QED BY <2>1, <2>3, <2>4, <2>5, <2>7, SMT
<1>2. X(s, rn) = s.x[rn]
  BY SMT DEF X
<1> HIDE DEF w
<1>3. s.mem[s.pc] = w
  BY SMT DEF w
<1>4. w # nop /\ w # ret
  BY <1>1, SMT DEF nop, ret, Word32
<1> QED BY <1>1, <1>2, <1>3, <1>4, SMT DEF Execute

LEMMA SubImmRuns ==
    ASSUME NEW s, s.halt = "no", s.pc \in DOMAIN s.mem,
           NEW rd \in 0 .. 30, NEW rn \in 0 .. 30, NEW imm \in Imm12,
           s.mem[s.pc] = sub_imm(rd, rn, imm)
    PROVE  Execute(s) = Retire(s, rd, s.x[rn] - imm)
<1> DEFINE w == sub_imm(rd, rn, imm)
<1>1. /\ w.top = 209 /\ Bits(w, 1, 32) = rd /\ Bits(w, 32, 32) = rn
      /\ Bits(w, 1024, 4096) = imm /\ Bits(w, 4194304, 4) = 0
  <2>1. w.top = 209 /\ w.rest = imm * 1024 + rn * 32 + rd
    BY SMT DEF sub_imm, Word32
  <2> HIDE DEF w
  <2>2. imm \in Int /\ rn \in Int /\ rd \in Int /\ 0 <= imm /\ imm < 4096 /\ 0 <= rn /\ rn < 31
        /\ 0 <= rd /\ rd < 31
    BY Imm12Bounds, SMT
  <2>3. Bits(w, 1, 32) = rd
    BY <2>1, <2>2, SMT DEF Bits
  <2>4. Bits(w, 32, 32) = rn
    <3>1. (w.rest \div 32) = imm * 32 + rn
      BY <2>1, <2>2, SMT
    <3> QED BY <3>1, <2>2, SMT DEF Bits
  <2>5. Bits(w, 1024, 4096) = imm
    <3>1. (w.rest \div 1024) = imm
      BY <2>1, <2>2, SMT
    <3> QED BY <3>1, <2>2, SMT DEF Bits
  <2>7. Bits(w, 4194304, 4) = 0
    <3>1. (w.rest \div 4194304) = 0
      BY <2>1, <2>2, SMT
    <3> QED BY <3>1, SMT DEF Bits
  <2> QED BY <2>1, <2>3, <2>4, <2>5, <2>7, SMT
<1>2. X(s, rn) = s.x[rn]
  BY SMT DEF X
<1> HIDE DEF w
<1>3. s.mem[s.pc] = w
  BY SMT DEF w
<1>4. w # nop /\ w # ret
  BY <1>1, SMT DEF nop, ret, Word32
<1> QED BY <1>1, <1>2, <1>3, <1>4, SMT DEF Execute

LEMMA AddRegRuns ==
    ASSUME NEW s, s.halt = "no", s.pc \in DOMAIN s.mem,
           NEW rd \in 0 .. 30, NEW rn \in 0 .. 30, NEW rm \in 0 .. 30,
           s.mem[s.pc] = add_reg(rd, rn, rm)
    PROVE  Execute(s) = Retire(s, rd, s.x[rn] + s.x[rm])
<1> DEFINE w == add_reg(rd, rn, rm)
<1>1. /\ w.top = 139 /\ Bits(w, 1, 32) = rd /\ Bits(w, 32, 32) = rn
      /\ Bits(w, 65536, 32) = rm /\ Bits(w, 4194304, 4) = 0 /\ Bits(w, 1024, 64) = 0
  <2>1. w.top = 139 /\ w.rest = rm * 65536 + rn * 32 + rd
    BY SMT DEF add_reg, Word32
  <2>2. rm \in Int /\ rn \in Int /\ rd \in Int /\ 0 <= rm /\ rm < 31 /\ 0 <= rn /\ rn < 31
        /\ 0 <= rd /\ rd < 31
    BY SMT
  <2> HIDE DEF w
  <2>3. Bits(w, 1, 32) = rd
    BY <2>1, <2>2, SMT DEF Bits
  <2>4. Bits(w, 32, 32) = rn
    <3>1. (w.rest \div 32) = rm * 2048 + rn
      BY <2>1, <2>2, SMT
    <3> QED BY <3>1, <2>2, SMT DEF Bits
  <2>5. Bits(w, 1024, 64) = 0
    <3>1. (w.rest \div 1024) = rm * 64
      BY <2>1, <2>2, SMT
    <3> QED BY <3>1, <2>2, SMTT(30) DEF Bits
  <2>6. Bits(w, 65536, 32) = rm
    <3>1. (w.rest \div 65536) = rm
      BY <2>1, <2>2, SMT
    <3> QED BY <3>1, <2>2, SMT DEF Bits
  <2>7. Bits(w, 4194304, 4) = 0
    <3>1. (w.rest \div 4194304) = 0
      BY <2>1, <2>2, SMT
    <3> QED BY <3>1, SMT DEF Bits
  <2> QED BY <2>1, <2>3, <2>4, <2>5, <2>6, <2>7, SMT
<1>2. X(s, rn) = s.x[rn] /\ X(s, rm) = s.x[rm]
  BY SMT DEF X
<1> HIDE DEF w
<1>3. s.mem[s.pc] = w
  BY SMT DEF w
<1>4. w # nop /\ w # ret
  BY <1>1, SMT DEF nop, ret, Word32
<1> QED BY <1>1, <1>2, <1>3, <1>4, SMT DEF Execute

LEMMA MovRegRuns ==
    ASSUME NEW s, s.halt = "no", s.pc \in DOMAIN s.mem,
           NEW rd \in 0 .. 30, NEW rm \in 0 .. 30,
           s.mem[s.pc] = mov_reg(rd, rm)
    PROVE  Execute(s) = Retire(s, rd, s.x[rm])
<1> DEFINE w == mov_reg(rd, rm)
<1>1. /\ w.top = 170 /\ Bits(w, 1, 32) = rd /\ Bits(w, 32, 32) = 31
      /\ Bits(w, 65536, 32) = rm /\ Bits(w, 4194304, 4) = 0
  <2>1. w.top = 170 /\ w.rest = rm * 65536 + 992 + rd
    BY SMT DEF mov_reg, Word32
  <2>2. rm \in Int /\ rd \in Int /\ 0 <= rm /\ rm < 31 /\ 0 <= rd /\ rd < 31
    BY SMT
  <2> HIDE DEF w
  <2>3. Bits(w, 1, 32) = rd
    BY <2>1, <2>2, SMT DEF Bits
  <2>4. Bits(w, 32, 32) = 31
    <3>1. (w.rest \div 32) = rm * 2048 + 31
      BY <2>1, <2>2, SMT
    <3> QED BY <3>1, <2>2, SMT DEF Bits
  <2>6. Bits(w, 65536, 32) = rm
    <3>1. (w.rest \div 65536) = rm
      BY <2>1, <2>2, SMT
    <3> QED BY <3>1, <2>2, SMT DEF Bits
  <2>7. Bits(w, 4194304, 4) = 0
    <3>1. (w.rest \div 4194304) = 0
      BY <2>1, <2>2, SMT
    <3> QED BY <3>1, SMT DEF Bits
  <2> QED BY <2>1, <2>3, <2>4, <2>6, <2>7, SMT
<1>2. X(s, rm) = s.x[rm]
  BY SMT DEF X
<1> HIDE DEF w
<1>3. s.mem[s.pc] = w
  BY SMT DEF w
<1>4. w # nop /\ w # ret
  BY <1>1, SMT DEF nop, ret, Word32
<1> QED BY <1>1, <1>2, <1>3, <1>4, SMT DEF Execute

LEMMA NopRuns ==
    ASSUME NEW s, s.halt = "no", s.pc \in DOMAIN s.mem, s.mem[s.pc] = nop
    PROVE  Execute(s) = Goto(s, s.pc + 4)
<1>1. nop.top = 213 /\ nop # ret
  BY SMT DEF nop, ret, Word32
<1> QED BY <1>1, SMT DEF Execute

LEMMA BrkRuns ==
    ASSUME NEW s, s.halt = "no", s.pc \in DOMAIN s.mem, s.mem[s.pc] = brk(0)
    PROVE  Execute(s) = Halt(s, "exception")
<1> DEFINE w == brk(0)
<1>1. w.top = 212 /\ Bits(w, 2097152, 8) = 1 /\ Bits(w, 1, 32) = 0
  BY SMT DEF brk, Word32, Bits
<1> HIDE DEF w
<1>2. s.mem[s.pc] = w
  BY SMT DEF w
<1>3. w # nop /\ w # ret
  BY <1>1, SMT DEF nop, ret, Word32
<1> QED BY <1>1, <1>2, <1>3, SMT DEF Execute

LEMMA HaltedStays ==
    ASSUME NEW s, s.halt # "no" PROVE Execute(s) = s
BY SMT DEF Execute

LEMMA RetRuns ==
    ASSUME NEW s, s.halt = "no", s.pc \in DOMAIN s.mem, s.mem[s.pc] = ret
    PROVE  Execute(s) = Goto(s, s.x[30])
<1>1. ret.top = 214 /\ ret # nop
  BY SMT DEF nop, ret, Word32
<1>2. X(s, 30) = s.x[30]
  BY SMT DEF X
<1> QED BY <1>1, <1>2, SMT DEF Execute

\* Memory is 0 where no word of the program is, and 0 is no instruction.
LEMMA NothingRuns ==
    ASSUME NEW s, s.halt = "no", s.pc \notin DOMAIN s.mem
    PROVE  Execute(s) = Halt(s, "invalid")
<1> DEFINE w == Word32(0, 0)
<1>1. w.top = 0 /\ w # nop /\ w # ret
  BY SMT DEF nop, ret, Word32
<1> HIDE DEF w
<1>2. (IF s.pc \in DOMAIN s.mem THEN s.mem[s.pc] ELSE Word32(0, 0)) = w
  BY SMT DEF w
<1> QED BY <1>1, <1>2, SMT DEF Execute

\* The state of a core by its parts.
Core(p, m, f, how) == [pc |-> p, mem |-> m, x |-> f, halt |-> how]

LEMMA CoreFields ==
    ASSUME NEW p, NEW m, NEW f, NEW how
    PROVE  /\ Core(p, m, f, how).pc = p /\ Core(p, m, f, how).mem = m
           /\ Core(p, m, f, how).x = f /\ Core(p, m, f, how).halt = how
BY DEF Core

LEMMA GotoIs ==
    ASSUME NEW p, NEW m, NEW f, NEW how, NEW a
    PROVE  Goto(Core(p, m, f, how), a) = Core(a, m, f, how)
BY DEF Core, Goto

LEMMA RegistersChange ==
    ASSUME NEW p, NEW m, NEW f, NEW how, NEW g
    PROVE  [Core(p, m, f, how) EXCEPT !.x = g] = Core(p, m, g, how)
BY DEF Core

LEMMA RetireIs ==
    ASSUME NEW p, NEW m, NEW f, NEW how, NEW rd, NEW v
    PROVE  Retire(Core(p, m, f, how), rd, v) = Core(p + 4, m, [f EXCEPT ![rd] = v % XMod], how)
<1> DEFINE s == Core(p, m, f, how)
           u == Core(p + 4, m, f, how)
<1>1. Goto(s, s.pc + 4) = u
  BY GotoIs, CoreFields
<1>2. [u EXCEPT !.x = [f EXCEPT ![rd] = v % XMod]]
        = Core(p + 4, m, [f EXCEPT ![rd] = v % XMod], how)
  BY RegistersChange
<1>4. u.x = f
  BY CoreFields
<1> HIDE DEF s, u
<1>3. Retire(s, rd, v) = [u EXCEPT !.x = [u.x EXCEPT ![rd] = v % XMod]]
  BY <1>1, Zenon DEF Retire
<1> QED BY <1>2, <1>3, <1>4, Zenon DEF s

LEMMA HaltIs ==
    ASSUME NEW p, NEW m, NEW f, NEW how, NEW h
    PROVE  Halt(Core(p, m, f, how), h) = Core(p, m, f, h)
BY DEF Core, Halt

\* The core is prepared with the program, a BRK after it and the registers of the test.
MemoryOf(t) == Prepared(t).mem
RegistersOf(t) == Prepared(t).x

LEMMA PreparedIs ==
    ASSUME NEW t
    PROVE  Prepared(t) = Core(Place(1), MemoryOf(t), RegistersOf(t), "no")
<1>1. Place(1) = TEST_BASE_ADDR
  BY DEF Place, TEST_BASE_ADDR
<1> QED BY <1>1 DEF Prepared, Core, MemoryOf, RegistersOf

LEMMA ProgramIsThere ==
    ASSUME NEW t, NEW n \in Nat, Len(t.program) = n
    PROVE  /\ \A k \in 1 .. n : /\ Place(k) \in DOMAIN MemoryOf(t)
                                /\ MemoryOf(t)[Place(k)] = t.program[k]
           /\ Place(n + 1) \in DOMAIN MemoryOf(t)
           /\ MemoryOf(t)[Place(n + 1)] = brk(0)
<1> DEFINE written == [k \in 1 .. n + 1 |-> IF k <= n THEN t.program[k] ELSE brk(0)]
           places == {TEST_BASE_ADDR + 4 * (k - 1) : k \in DOMAIN written}
           Number(a) == (a - TEST_BASE_ADDR) \div 4 + 1
<1>1. MemoryOf(t) = [a \in places |-> written[Number(a)]]
  BY DEF MemoryOf, Prepared
<1>2. \A k \in 1 .. n + 1 : Place(k) \in places /\ Number(Place(k)) = k
  <2> SUFFICES ASSUME NEW k \in 1 .. n + 1 PROVE Place(k) \in places /\ Number(Place(k)) = k
    OBVIOUS
  <2>1. Number(Place(k)) = k
    BY DEF Place, TEST_BASE_ADDR
  <2>2. k \in DOMAIN written
    OBVIOUS
  <2> HIDE DEF written
  <2>3. Place(k) \in places
    BY <2>2 DEF Place
  <2> QED BY <2>1, <2>3
<1> HIDE DEF places, Number
<1>3. \A k \in 1 .. n + 1 : Place(k) \in DOMAIN MemoryOf(t) /\ MemoryOf(t)[Place(k)] = written[k]
  <2> HIDE DEF written
  <2> QED BY <1>1, <1>2
<1>4. \A k \in 1 .. n : k \in 1 .. n + 1 /\ written[k] = t.program[k]
  BY SMT
<1>5. n + 1 \in 1 .. n + 1 /\ written[n + 1] = brk(0)
  BY SMT
<1> HIDE DEF written
<1> QED BY <1>3, <1>4, <1>5

\* The setup gives register r the value v and no other.
Gives(t, r, v) == <<r, v>> \in t.setup /\ \A s \in t.setup : s[1] = r => s[2] = v

LEMMA RegisterIsSet ==
    ASSUME NEW t, NEW r \in 0 .. 30, NEW v, Gives(t, r, v)
    PROVE  RegistersOf(t)[r] = v
<1> DEFINE given(q) == {s[2] : s \in {s \in t.setup : s[1] = q}}
<1>1. RegistersOf(t) = [q \in 0 .. 30 |-> IF given(q) = {} THEN 0
                                          ELSE CHOOSE u \in given(q) : TRUE]
  BY DEF RegistersOf, Prepared
<1>2. <<r, v>>[1] = r /\ <<r, v>>[2] = v
  OBVIOUS
<1>3. given(r) = {v}
  BY <1>2, Zenon DEF Gives
<1>4. (CHOOSE u \in {v} : TRUE) = v
  OBVIOUS
<1> HIDE DEF given
<1> QED BY <1>1, <1>3, <1>4

LEMMA RegistersAreThere ==
    ASSUME NEW t PROVE DOMAIN RegistersOf(t) = 0 .. 30
BY DEF RegistersOf, Prepared

\* A program of n instructions is stepped n + 2 times.
Runs(t, N, run) == run[0] = Prepared(t) /\ \A k \in 1 .. N : run[k] = Execute(run[k - 1])

LEMMA StoppedIs ==
    ASSUME NEW t, NEW N \in Nat, Len(t.program) + 2 = N,
           NEW run, Runs(t, N, run)
    PROVE  Stopped(t) = run[N]
<1> DEFINE Unfolds(g) == g = [k \in 0 .. N |-> IF k = 0 THEN Prepared(t) ELSE Execute(g[k - 1])]
           ran == CHOOSE g : Unfolds(g)
           all == [k \in 0 .. N |-> run[k]]
<1>1. Stopped(t) = ran[N]
  BY DEF Stopped
<1>2. N \in Nat /\ 0 \in 0 .. N /\ N \in 0 .. N
  OBVIOUS
<1>3. run[0] = Prepared(t) /\ \A k \in 1 .. N : run[k] = Execute(run[k - 1])
  BY DEF Runs
<1>4. \A k \in 1 .. N : k - 1 \in 0 .. N /\ k \in 0 .. N /\ k # 0
  BY <1>2
<1>5. \A k \in 0 .. N : k = 0 \/ k \in 1 .. N
  BY <1>2
<1>6. \E g : Unfolds(g)
  <2>1. \A k \in 0 .. N : run[k] = IF k = 0 THEN Prepared(t) ELSE Execute(all[k - 1])
    BY <1>3, <1>4, <1>5
  <2>2. Unfolds(all)
    BY <2>1
  <2> QED BY <2>2
<1>7. ran = [k \in 0 .. N |-> IF k = 0 THEN Prepared(t) ELSE Execute(ran[k - 1])]
  <2> HIDE DEF Unfolds
  <2>1. Unfolds(ran)
    BY <1>6
  <2> QED BY <2>1 DEF Unfolds
<1> HIDE DEF ran
<1> DEFINE T == {k \in 0 .. N : ran[k] = run[k]}
<1>8. 0 \in T
  BY <1>2, <1>3, <1>7
<1>9. \A k \in 0 .. N - 1 : k \in T => k + 1 \in T
  <2> SUFFICES ASSUME NEW k \in 0 .. N - 1, k \in T PROVE k + 1 \in T
    OBVIOUS
  <2>1. k + 1 \in 1 .. N /\ (k + 1) - 1 = k /\ ran[k] = run[k]
    BY <1>2
  <2>2. ran[k + 1] = Execute(ran[k])
    BY <1>4, <1>7, <2>1
  <2>3. run[k + 1] = Execute(run[k])
    BY <1>3, <2>1
  <2> QED BY <1>4, <2>1, <2>2, <2>3
<1>10. 0 .. N \subseteq T
  <2> HIDE DEF T
  <2> QED BY <1>2, <1>8, <1>9, SetInductionUpTo
<1> QED BY <1>1, <1>2, <1>10

LEMMA OneIsThere ==
    ASSUME NEW t, NEW w, t.program = <<w>>
    PROVE  /\ Place(1) \in DOMAIN MemoryOf(t) /\ MemoryOf(t)[Place(1)] = w
           /\ Place(2) \in DOMAIN MemoryOf(t) /\ MemoryOf(t)[Place(2)] = brk(0)
<1>1. Len(t.program) = 1 /\ t.program[1] = w /\ 1 \in 1 .. 1 /\ 1 + 1 = 2 /\ 1 \in Nat
  OBVIOUS
<1> QED BY <1>1, ProgramIsThere, ZenonT(30)

LEMMA ThreeAreThere ==
    ASSUME NEW t, NEW w1, NEW w2, NEW w3, t.program = <<w1, w2, w3>>
    PROVE  /\ Place(1) \in DOMAIN MemoryOf(t) /\ MemoryOf(t)[Place(1)] = w1
           /\ Place(2) \in DOMAIN MemoryOf(t) /\ MemoryOf(t)[Place(2)] = w2
           /\ Place(3) \in DOMAIN MemoryOf(t) /\ MemoryOf(t)[Place(3)] = w3
           /\ Place(4) \in DOMAIN MemoryOf(t) /\ MemoryOf(t)[Place(4)] = brk(0)
<1>1. /\ Len(t.program) = 3 /\ t.program[1] = w1 /\ t.program[2] = w2 /\ t.program[3] = w3
      /\ 1 \in 1 .. 3 /\ 2 \in 1 .. 3 /\ 3 \in 1 .. 3 /\ 3 + 1 = 4 /\ 3 \in Nat
  OBVIOUS
<1> QED BY <1>1, ProgramIsThere, ZenonT(90)

\* The core reaches the BRK after the program and stops there.
LEMMA BrkStops ==
    ASSUME NEW m, NEW f, NEW a, a \in DOMAIN m, m[a] = brk(0)
    PROVE  /\ Execute(Core(a, m, f, "no")) = Core(a, m, f, "exception")
           /\ Execute(Core(a, m, f, "exception")) = Core(a, m, f, "exception")
<1> DEFINE s == Core(a, m, f, "no")
           u == Core(a, m, f, "exception")
<1>1. s.halt = "no" /\ s.pc = a /\ s.mem = m /\ u.halt = "exception"
  BY CoreFields
<1>2. Halt(s, "exception") = u
  BY HaltIs
<1> HIDE DEF s, u
<1>3. Execute(s) = Halt(s, "exception")
  BY <1>1, BrkRuns
<1>4. Execute(u) = u
  BY <1>1, HaltedStays
<1> QED BY <1>2, <1>3, <1>4 DEF s, u

\* Where a program of one word is after three instructions.
LEMMA OneRuns ==
    ASSUME NEW t, NEW w, t.program = <<w>>, NEW s1, NEW s2,
           Execute(Prepared(t)) = s1, Execute(s1) = s2, Execute(s2) = s2
    PROVE  Stopped(t) = s2
<1> DEFINE s0 == Prepared(t)
           run == [k \in 0 .. 3 |-> IF k = 0 THEN s0 ELSE IF k = 1 THEN s1 ELSE s2]
<1>1. Len(t.program) + 2 = 3
  OBVIOUS
<1>2. Execute(s0) = s1
  OBVIOUS
<1> HIDE DEF s0
<1>3. \A k \in 1 .. 3 : run[k] = Execute(run[k - 1])
  BY <1>2
<1>4. run[0] = s0 /\ run[3] = s2
  OBVIOUS
<1> HIDE DEF run
<1>5. Runs(t, 3, run)
  BY <1>3, <1>4 DEF Runs, s0
<1>6. Stopped(t) = run[3]
  <2>1. 3 \in Nat
    OBVIOUS
  <2> QED BY <1>1, <1>5, <2>1, StoppedIs
<1> QED BY <1>4, <1>6

LEMMA OneStops ==
    ASSUME NEW t, NEW w, t.program = <<w>>, NEW f,
           Execute(Prepared(t)) = Core(Place(2), MemoryOf(t), f, "no")
    PROVE  Stopped(t) = Core(Place(2), MemoryOf(t), f, "exception")
<1>1. MemoryOf(t)[Place(2)] = brk(0) /\ Place(2) \in DOMAIN MemoryOf(t)
  BY OneIsThere
<1> DEFINE s1 == Core(Place(2), MemoryOf(t), f, "no")
           s2 == Core(Place(2), MemoryOf(t), f, "exception")
<1>2. Execute(Prepared(t)) = s1 /\ Execute(s1) = s2 /\ Execute(s2) = s2
  BY <1>1, BrkStops
<1> HIDE DEF s1, s2
<1>3. Stopped(t) = s2
  BY <1>2, OneRuns
<1> QED BY <1>3 DEF s2

LEMMA ThreeStop ==
    ASSUME NEW t, NEW w1, NEW w2, NEW w3, t.program = <<w1, w2, w3>>, NEW f1, NEW f2, NEW f3,
           Execute(Prepared(t)) = Core(Place(2), MemoryOf(t), f1, "no"),
           Execute(Core(Place(2), MemoryOf(t), f1, "no")) = Core(Place(3), MemoryOf(t), f2, "no"),
           Execute(Core(Place(3), MemoryOf(t), f2, "no")) = Core(Place(4), MemoryOf(t), f3, "no")
    PROVE  Stopped(t) = Core(Place(4), MemoryOf(t), f3, "exception")
<1> DEFINE s0 == Prepared(t)
           s1 == Core(Place(2), MemoryOf(t), f1, "no")
           s2 == Core(Place(3), MemoryOf(t), f2, "no")
           s3 == Core(Place(4), MemoryOf(t), f3, "no")
           s4 == Core(Place(4), MemoryOf(t), f3, "exception")
           run == [k \in 0 .. 5 |-> IF k = 0 THEN s0 ELSE IF k = 1 THEN s1
                                    ELSE IF k = 2 THEN s2 ELSE IF k = 3 THEN s3 ELSE s4]
<1>1. MemoryOf(t)[Place(4)] = brk(0) /\ Place(4) \in DOMAIN MemoryOf(t) /\ Len(t.program) + 2 = 5
  <2>1. Len(t.program) = 3
    OBVIOUS
  <2> QED BY <2>1, ThreeAreThere
<1>2. /\ Execute(s0) = s1 /\ Execute(s1) = s2 /\ Execute(s2) = s3
      /\ Execute(s3) = s4 /\ Execute(s4) = s4
  BY <1>1, BrkStops
<1> HIDE DEF s0, s1, s2, s3, s4
<1>3. \A k \in 1 .. 5 : run[k] = Execute(run[k - 1])
  BY <1>2
<1>4. run[0] = s0 /\ run[5] = s4
  OBVIOUS
<1> HIDE DEF run
<1>6. Runs(t, 5, run)
  BY <1>3, <1>4 DEF Runs, s0
<1>5. Stopped(t) = run[5]
  <2>1. 5 \in Nat
    OBVIOUS
  <2> QED BY <1>1, <1>6, <2>1, StoppedIs
<1> QED BY <1>4, <1>5 DEF s4

\* A test passes when its program came to the BRK with the registers it wants.
LEMMA Passes ==
    ASSUME NEW t, NEW k \in Nat, k > 1, NEW m, NEW f,
           Stopped(t) = Core(Place(k), m, f, "exception"),
           \A want \in t.wanted : want[1] # PC /\ want[2] = f[want[1]]
    PROVE  run_test(t) = {"pass"}
<1> DEFINE s == Stopped(t)
<1>1. s.halt = "exception" /\ s.pc = Place(k) /\ s.x = f
  BY CoreFields
<1>6. Place(k) >= TEST_BASE_ADDR + 4
  BY DEF Place, TEST_BASE_ADDR
<1> HIDE DEF s
<1>2. Verified(t, s)
  BY <1>1, <1>6 DEF Verified
<1>3. RunSucceeds(s) = {TRUE}
  BY <1>1, Zenon DEF RunSucceeds
<1>4. run_test(t) = {IF ~success THEN "not_executed" ELSE IF Verified(t, s) THEN "pass"
                     ELSE "not_verified" : success \in RunSucceeds(s)}
  BY Zenon DEF run_test, s
<1>5. run_test(t) = {IF ~success THEN "not_executed" ELSE "pass" : success \in {TRUE}}
  BY <1>2, <1>3, <1>4, Zenon
<1> QED BY <1>5, Zenon

\* Numbers below 65536 fit into a register.
LEMMA Small ==
    ASSUME NEW v \in Nat, v < 65536 PROVE v % XMod = v
BY TestAssumption

\* Register r gets v.
Put(f, r, v) == [f EXCEPT ![r] = v % XMod]

\* One instruction of a program that has come as far as a.
LEMMA AddImmStep ==
    ASSUME NEW m, NEW f, NEW a, a \in DOMAIN m,
           NEW rd \in 0 .. 30, NEW rn \in 0 .. 30, NEW imm \in Imm12,
           m[a] = add_imm(rd, rn, imm)
    PROVE  Execute(Core(a, m, f, "no"))
             = Core(a + 4, m, Put(f, rd, f[rn] + imm), "no")
<1> DEFINE s == Core(a, m, f, "no")
<1>1. s.halt = "no" /\ s.pc = a /\ s.mem = m /\ s.x = f
  BY CoreFields
<1>2. Retire(s, rd, f[rn] + imm) = Core(a + 4, m, Put(f, rd, f[rn] + imm), "no")
  BY RetireIs, SMTT(30) DEF Put
<1> HIDE DEF s
<1>3. Execute(s) = Retire(s, rd, s.x[rn] + imm)
  BY <1>1, AddImmRuns
<1> QED BY <1>1, <1>2, <1>3 DEF s

LEMMA SubImmStep ==
    ASSUME NEW m, NEW f, NEW a, a \in DOMAIN m,
           NEW rd \in 0 .. 30, NEW rn \in 0 .. 30, NEW imm \in Imm12,
           m[a] = sub_imm(rd, rn, imm)
    PROVE  Execute(Core(a, m, f, "no"))
             = Core(a + 4, m, Put(f, rd, f[rn] - imm), "no")
<1> DEFINE s == Core(a, m, f, "no")
<1>1. s.halt = "no" /\ s.pc = a /\ s.mem = m /\ s.x = f
  BY CoreFields
<1>2. Retire(s, rd, f[rn] - imm) = Core(a + 4, m, Put(f, rd, f[rn] - imm), "no")
  BY RetireIs, SMTT(30) DEF Put
<1> HIDE DEF s
<1>3. Execute(s) = Retire(s, rd, s.x[rn] - imm)
  BY <1>1, SubImmRuns
<1> QED BY <1>1, <1>2, <1>3 DEF s

LEMMA AddRegStep ==
    ASSUME NEW m, NEW f, NEW a, a \in DOMAIN m,
           NEW rd \in XNumbers, NEW rn \in XNumbers, NEW rm \in XNumbers,
           m[a] = add_reg(rd, rn, rm)
    PROVE  Execute(Core(a, m, f, "no"))
             = Core(a + 4, m, Put(f, rd, f[rn] + f[rm]), "no")
<1> DEFINE s == Core(a, m, f, "no")
<1>1. s.halt = "no" /\ s.pc = a /\ s.mem = m /\ s.x = f
  BY CoreFields
<1>2. Retire(s, rd, f[rn] + f[rm]) = Core(a + 4, m, Put(f, rd, f[rn] + f[rm]), "no")
  BY RetireIs, SMTT(30) DEF Put
<1> HIDE DEF s
<1>3. Execute(s) = Retire(s, rd, s.x[rn] + s.x[rm])
  BY <1>1, AddRegRuns DEF XNumbers
<1> QED BY <1>1, <1>2, <1>3 DEF s

LEMMA MovRegStep ==
    ASSUME NEW m, NEW f, NEW a, a \in DOMAIN m,
           NEW rd \in 0 .. 30, NEW rm \in 0 .. 30, m[a] = mov_reg(rd, rm)
    PROVE  Execute(Core(a, m, f, "no")) = Core(a + 4, m, Put(f, rd, f[rm]), "no")
<1> DEFINE s == Core(a, m, f, "no")
<1>1. s.halt = "no" /\ s.pc = a /\ s.mem = m /\ s.x = f
  BY CoreFields
<1>2. Retire(s, rd, f[rm]) = Core(a + 4, m, Put(f, rd, f[rm]), "no")
  BY RetireIs, SMTT(30) DEF Put
<1> HIDE DEF s
<1>3. Execute(s) = Retire(s, rd, s.x[rm])
  BY <1>1, MovRegRuns
<1> QED BY <1>1, <1>2, <1>3 DEF s

LEMMA NopStep ==
    ASSUME NEW m, NEW f, NEW a, a \in DOMAIN m, m[a] = nop
    PROVE  Execute(Core(a, m, f, "no")) = Core(a + 4, m, f, "no")
<1> DEFINE s == Core(a, m, f, "no")
<1>1. s.halt = "no" /\ s.pc = a /\ s.mem = m
  BY CoreFields
<1>2. Goto(s, a + 4) = Core(a + 4, m, f, "no")
  BY GotoIs
<1> HIDE DEF s
<1>3. Execute(s) = Goto(s, s.pc + 4)
  BY <1>1, NopRuns
<1> QED BY <1>1, <1>2, <1>3 DEF s

\* The tests, one after the other.
LEMMA Operands == /\ \A imm \in {1, 2, 3, 5, 50} : imm \in Imm12
                  /\ \A r \in 0 .. 4 : r \in 0 .. 30
                  /\ 0 \in XNumbers /\ 1 \in XNumbers
BY DEF Imm12, XNumbers

LEMMA NopPasses == run_test(Tests[1]) = {"pass"}
<1> DEFINE t == Tests[1]
           f == RegistersOf(t)
<1>1. t.program = <<nop>> /\ t.wanted = {}
  BY DEF Tests, Test
<1> HIDE DEF t
<1>2. Place(1) \in DOMAIN MemoryOf(t) /\ MemoryOf(t)[Place(1)] = nop
  BY <1>1, OneIsThere
<1>3. Execute(Prepared(t)) = Core(Place(2), MemoryOf(t), f, "no")
  BY <1>2, NopStep, PreparedIs, NextPlaces
<1>4. Stopped(t) = Core(Place(2), MemoryOf(t), f, "exception")
  BY <1>1, <1>3, OneStops
<1>5. run_test(t) = {"pass"}
  BY <1>1, <1>4, Passes
<1> QED BY <1>5 DEF t

LEMMA AddImmPasses == run_test(Tests[2]) = {"pass"}
<1> DEFINE t == Tests[2]
           f == RegistersOf(t)
           g == Put(f, 1, f[1] + 2)
<1>1. t.program = <<add_imm(1, 1, 2)>> /\ t.setup = {<<1, 5>>} /\ t.wanted = {<<1, 7>>}
  BY DEF Tests, Test
<1> HIDE DEF t
<1>2. Place(1) \in DOMAIN MemoryOf(t) /\ MemoryOf(t)[Place(1)] = add_imm(1, 1, 2)
  BY <1>1, OneIsThere
<1>3. Execute(Prepared(t)) = Core(Place(2), MemoryOf(t), g, "no")
  <2>1. Execute(Core(Place(1), MemoryOf(t), f, "no")) = Core(Place(1) + 4, MemoryOf(t), g, "no")
    <3> HIDE DEF f
    <3> QED BY <1>2, AddImmStep, Operands
  <2> QED BY <2>1, PreparedIs, NextPlaces, SMTT(30)
<1>4. f[1] = 5 /\ DOMAIN f = 0 .. 30
  <2>1. Gives(t, 1, 5)
    BY <1>1 DEF Gives
  <2> HIDE DEF f
  <2> QED BY <2>1, Operands, RegisterIsSet, RegistersAreThere DEF f
<1>5. g[1] = 7
  BY <1>4, Small DEF Put
<1> HIDE DEF g
<1>6. Stopped(t) = Core(Place(2), MemoryOf(t), g, "exception")
  BY <1>1, <1>3, OneStops
<1>7. run_test(t) = {"pass"}
  BY <1>1, <1>5, <1>6, Passes DEF PC
<1> QED BY <1>7 DEF t

LEMMA SubImmPasses == run_test(Tests[3]) = {"pass"}
<1> DEFINE t == Tests[3]
           f == RegistersOf(t)
           g == Put(f, 2, f[2] - 1)
<1>1. t.program = <<sub_imm(2, 2, 1)>> /\ t.setup = {<<2, 10>>} /\ t.wanted = {<<2, 9>>}
  BY DEF Tests, Test
<1> HIDE DEF t
<1>2. Place(1) \in DOMAIN MemoryOf(t) /\ MemoryOf(t)[Place(1)] = sub_imm(2, 2, 1)
  BY <1>1, OneIsThere
<1>3. Execute(Prepared(t)) = Core(Place(2), MemoryOf(t), g, "no")
  <2>1. Execute(Core(Place(1), MemoryOf(t), f, "no")) = Core(Place(1) + 4, MemoryOf(t), g, "no")
    <3> HIDE DEF f
    <3> QED BY <1>2, SubImmStep, Operands
  <2> QED BY <2>1, PreparedIs, NextPlaces, SMTT(30)
<1>4. f[2] = 10 /\ DOMAIN f = 0 .. 30
  <2>1. Gives(t, 2, 10)
    BY <1>1 DEF Gives
  <2> HIDE DEF f
  <2> QED BY <2>1, Operands, RegisterIsSet, RegistersAreThere DEF f
<1>5. g[2] = 9
  BY <1>4, Small DEF Put
<1> HIDE DEF g
<1>6. Stopped(t) = Core(Place(2), MemoryOf(t), g, "exception")
  BY <1>1, <1>3, OneStops
<1>7. run_test(t) = {"pass"}
  BY <1>1, <1>5, <1>6, Passes DEF PC
<1> QED BY <1>7 DEF t

LEMMA AddRegPasses == run_test(Tests[4]) = {"pass"}
<1> DEFINE t == Tests[4]
           f == RegistersOf(t)
           g == Put(f, 0, f[0] + f[1])
<1>1. t.program = <<add_reg(0, 0, 1)>> /\ t.setup = {<<0, 7>>, <<1, 3>>} /\ t.wanted = {<<0, 10>>}
  BY DEF Tests, Test
<1> HIDE DEF t
<1>2. Place(1) \in DOMAIN MemoryOf(t) /\ MemoryOf(t)[Place(1)] = add_reg(0, 0, 1)
  BY <1>1, OneIsThere
<1>3. Execute(Prepared(t)) = Core(Place(2), MemoryOf(t), g, "no")
  <2>1. Execute(Core(Place(1), MemoryOf(t), f, "no")) = Core(Place(1) + 4, MemoryOf(t), g, "no")
    <3> HIDE DEF f
    <3> QED BY <1>2, AddRegStep, Operands
  <2> QED BY <2>1, PreparedIs, NextPlaces
<1>4. f[0] = 7 /\ f[1] = 3 /\ DOMAIN f = 0 .. 30
  <2>1. Gives(t, 0, 7) /\ Gives(t, 1, 3)
    BY <1>1 DEF Gives
  <2> HIDE DEF f
  <2> QED BY <2>1, Operands, RegisterIsSet, RegistersAreThere DEF f
<1>5. g[0] = 10
  BY <1>4, Small DEF Put
<1> HIDE DEF g
<1>6. Stopped(t) = Core(Place(2), MemoryOf(t), g, "exception")
  BY <1>1, <1>3, OneStops
<1>7. run_test(t) = {"pass"}
  BY <1>1, <1>5, <1>6, Passes DEF PC
<1> QED BY <1>7 DEF t

LEMMA MovRegPasses == run_test(Tests[5]) = {"pass"}
<1> DEFINE t == Tests[5]
           f == RegistersOf(t)
           g == Put(f, 3, f[4])
<1>1. t.program = <<mov_reg(3, 4)>> /\ t.setup = {<<3, 0>>, <<4, 48879>>} /\ t.wanted = {<<3, 48879>>}
  BY DEF Tests, Test
<1> HIDE DEF t
<1>2. Place(1) \in DOMAIN MemoryOf(t) /\ MemoryOf(t)[Place(1)] = mov_reg(3, 4)
  BY <1>1, OneIsThere
<1>3. Execute(Prepared(t)) = Core(Place(2), MemoryOf(t), g, "no")
  <2>1. Execute(Core(Place(1), MemoryOf(t), f, "no")) = Core(Place(1) + 4, MemoryOf(t), g, "no")
    <3> HIDE DEF f
    <3> QED BY <1>2, MovRegStep, Operands
  <2> QED BY <2>1, PreparedIs, NextPlaces, SMTT(30)
<1>4. f[4] = 48879 /\ DOMAIN f = 0 .. 30
  <2>1. Gives(t, 4, 48879)
    BY <1>1 DEF Gives
  <2> HIDE DEF f
  <2> QED BY <2>1, Operands, RegisterIsSet, RegistersAreThere DEF f
<1>5. g[3] = 48879
  BY <1>4, Small DEF Put
<1> HIDE DEF g
<1>6. Stopped(t) = Core(Place(2), MemoryOf(t), g, "exception")
  BY <1>1, <1>3, OneStops
<1>7. run_test(t) = {"pass"}
  BY <1>1, <1>5, <1>6, Passes DEF PC
<1> QED BY <1>7 DEF t

LEMMA AddAgainPasses == run_test(Tests[7]) = {"pass"}
<1> DEFINE t == Tests[7]
           f == RegistersOf(t)
           g == Put(f, 0, f[0] + 50)
<1>1. t.program = <<add_imm(0, 0, 50)>> /\ t.setup = {<<0, 100>>} /\ t.wanted = {<<0, 150>>}
  BY DEF Tests, Test
<1> HIDE DEF t
<1>2. Place(1) \in DOMAIN MemoryOf(t) /\ MemoryOf(t)[Place(1)] = add_imm(0, 0, 50)
  BY <1>1, OneIsThere
<1>3. Execute(Prepared(t)) = Core(Place(2), MemoryOf(t), g, "no")
  <2>1. Execute(Core(Place(1), MemoryOf(t), f, "no")) = Core(Place(1) + 4, MemoryOf(t), g, "no")
    <3> HIDE DEF f
    <3> QED BY <1>2, AddImmStep, Operands
  <2> QED BY <2>1, PreparedIs, NextPlaces, SMTT(30)
<1>4. f[0] = 100 /\ DOMAIN f = 0 .. 30
  <2>1. Gives(t, 0, 100)
    BY <1>1 DEF Gives
  <2> HIDE DEF f
  <2> QED BY <2>1, Operands, RegisterIsSet, RegistersAreThere DEF f
<1>5. g[0] = 150
  BY <1>4, Small DEF Put
<1> HIDE DEF g
<1>6. Stopped(t) = Core(Place(2), MemoryOf(t), g, "exception")
  BY <1>1, <1>3, OneStops
<1>7. run_test(t) = {"pass"}
  BY <1>1, <1>5, <1>6, Passes DEF PC
<1> QED BY <1>7 DEF t

LEMMA LoopPasses == run_test(Tests[8]) = {"pass"}
<1> DEFINE t == Tests[8]
           f == RegistersOf(t)
           g1 == Put(f, 1, f[1] + 1)
           g2 == Put(g1, 1, g1[1] + 1)
           g3 == Put(g2, 1, g2[1] + 1)
<1>1. /\ t.program = <<add_imm(1, 1, 1), add_imm(1, 1, 1), add_imm(1, 1, 1)>>
      /\ t.setup = {<<1, 0>>} /\ t.wanted = {<<1, 3>>}
  BY DEF Tests, Test
<1> HIDE DEF t
<1>2. /\ Place(1) \in DOMAIN MemoryOf(t) /\ MemoryOf(t)[Place(1)] = add_imm(1, 1, 1)
      /\ Place(2) \in DOMAIN MemoryOf(t) /\ MemoryOf(t)[Place(2)] = add_imm(1, 1, 1)
      /\ Place(3) \in DOMAIN MemoryOf(t) /\ MemoryOf(t)[Place(3)] = add_imm(1, 1, 1)
  BY <1>1, ThreeAreThere
<1>3. Execute(Prepared(t)) = Core(Place(2), MemoryOf(t), g1, "no")
  <2>1. Execute(Core(Place(1), MemoryOf(t), f, "no")) = Core(Place(1) + 4, MemoryOf(t), g1, "no")
    <3> HIDE DEF f
    <3> QED BY <1>2, AddImmStep, Operands
  <2> QED BY <2>1, PreparedIs, NextPlaces, SMTT(30)
<1>4. f[1] = 0 /\ DOMAIN f = 0 .. 30
  <2>1. Gives(t, 1, 0)
    BY <1>1 DEF Gives
  <2> HIDE DEF f
  <2> QED BY <2>1, Operands, RegisterIsSet, RegistersAreThere DEF f
<1>5. g1[1] = 1 /\ DOMAIN g1 = 0 .. 30
  BY <1>4, Small DEF Put
<1> HIDE DEF g1
<1>6. Execute(Core(Place(2), MemoryOf(t), g1, "no")) = Core(Place(3), MemoryOf(t), g2, "no")
  <2>1. Execute(Core(Place(2), MemoryOf(t), g1, "no")) = Core(Place(2) + 4, MemoryOf(t), g2, "no")
    <3> HIDE DEF f
    <3> QED BY <1>2, AddImmStep, Operands
  <2> QED BY <2>1, NextPlaces, SMTT(30)
<1>7. g2[1] = 2 /\ DOMAIN g2 = 0 .. 30
  BY <1>5, Small DEF Put
<1> HIDE DEF g2
<1>8. Execute(Core(Place(3), MemoryOf(t), g2, "no")) = Core(Place(4), MemoryOf(t), g3, "no")
  <2>1. Execute(Core(Place(3), MemoryOf(t), g2, "no")) = Core(Place(3) + 4, MemoryOf(t), g3, "no")
    <3> HIDE DEF f
    <3> QED BY <1>2, AddImmStep, Operands
  <2> QED BY <2>1, NextPlaces, SMTT(30)
<1>9. g3[1] = 3
  BY <1>7, Small DEF Put
<1> HIDE DEF g3
<1>10. Stopped(t) = Core(Place(4), MemoryOf(t), g3, "exception")
  BY <1>1, <1>3, <1>6, <1>8, ThreeStop
<1>11. run_test(t) = {"pass"}
  BY <1>1, <1>9, <1>10, Passes DEF PC
<1> QED BY <1>11 DEF t

LEMMA MixedPasses == run_test(Tests[9]) = {"pass"}
<1> DEFINE t == Tests[9]
           f == RegistersOf(t)
           g1 == Put(f, 0, f[0] + 5)
           g2 == Put(g1, 1, g1[1] - 3)
           g3 == Put(g2, 0, g2[0] + g2[1])
<1>1. /\ t.program = <<add_imm(0, 0, 5), sub_imm(1, 1, 3), add_reg(0, 0, 1)>>
      /\ t.setup = {<<0, 10>>, <<1, 20>>} /\ t.wanted = {<<0, 32>>, <<1, 17>>}
  BY DEF Tests, Test
<1> HIDE DEF t
<1>2. /\ Place(1) \in DOMAIN MemoryOf(t) /\ MemoryOf(t)[Place(1)] = add_imm(0, 0, 5)
      /\ Place(2) \in DOMAIN MemoryOf(t) /\ MemoryOf(t)[Place(2)] = sub_imm(1, 1, 3)
      /\ Place(3) \in DOMAIN MemoryOf(t) /\ MemoryOf(t)[Place(3)] = add_reg(0, 0, 1)
  BY <1>1, ThreeAreThere
<1>3. Execute(Prepared(t)) = Core(Place(2), MemoryOf(t), g1, "no")
  <2>1. Execute(Core(Place(1), MemoryOf(t), f, "no")) = Core(Place(1) + 4, MemoryOf(t), g1, "no")
    <3> HIDE DEF f
    <3> QED BY <1>2, AddImmStep, Operands, SMTT(30)
  <2> QED BY <2>1, PreparedIs, NextPlaces, SMTT(30)
<1>4. f[0] = 10 /\ f[1] = 20 /\ DOMAIN f = 0 .. 30
  <2>1. Gives(t, 0, 10) /\ Gives(t, 1, 20)
    BY <1>1 DEF Gives
  <2> HIDE DEF f
  <2> QED BY <2>1, Operands, RegisterIsSet, RegistersAreThere DEF f
<1>5. g1[0] = 15 /\ g1[1] = 20 /\ DOMAIN g1 = 0 .. 30
  BY <1>4, Small DEF Put
<1> HIDE DEF g1
<1>6. Execute(Core(Place(2), MemoryOf(t), g1, "no")) = Core(Place(3), MemoryOf(t), g2, "no")
  <2>1. Execute(Core(Place(2), MemoryOf(t), g1, "no")) = Core(Place(2) + 4, MemoryOf(t), g2, "no")
    <3> HIDE DEF f
    <3> QED BY <1>2, SubImmStep, Operands
  <2> QED BY <2>1, NextPlaces, SMTT(30)
<1>7. g2[0] = 15 /\ g2[1] = 17 /\ DOMAIN g2 = 0 .. 30
  BY <1>5, Small DEF Put
<1> HIDE DEF g2
<1>8. Execute(Core(Place(3), MemoryOf(t), g2, "no")) = Core(Place(4), MemoryOf(t), g3, "no")
  <2>1. Execute(Core(Place(3), MemoryOf(t), g2, "no")) = Core(Place(3) + 4, MemoryOf(t), g3, "no")
    <3> HIDE DEF f
    <3> QED BY <1>2, AddRegStep, Operands
  <2> QED BY <2>1, NextPlaces
<1>9. g3[0] = 32 /\ g3[1] = 17
  BY <1>7, Small DEF Put
<1> HIDE DEF g3
<1>10. Stopped(t) = Core(Place(4), MemoryOf(t), g3, "exception")
  BY <1>1, <1>3, <1>6, <1>8, ThreeStop
<1>11. run_test(t) = {"pass"}
  BY <1>1, <1>9, <1>10, Passes DEF PC
<1> QED BY <1>11 DEF t

\* Every test but the RET passes when it gets its core and is in time.
LEMMA EachPasses ==
    ASSUME NEW k \in (1 .. 9) \ {6}
    PROVE  run_test(Tests[k]) = {"pass"}
<1>1. k \in {1, 2, 3, 4, 5, 7, 8, 9}
  OBVIOUS
<1> QED BY <1>1, NopPasses, AddImmPasses, SubImmPasses, AddRegPasses, MovRegPasses, AddAgainPasses,
           LoopPasses, MixedPasses

LEMMA NineTests == Len(Tests) = 9 /\ DOMAIN Tests = 1 .. 9
BY DEF Tests

\* A test that can only pass has stopped: without an exception either verdict is possible.
LEMMA PassesStopped ==
    ASSUME NEW t, run_test(t) = {"pass"}
    PROVE  Stopped(t).halt # "no"
<1> DEFINE s == Stopped(t)
           Says(success) == IF ~success THEN "not_executed" ELSE IF Verified(t, s) THEN "pass"
                            ELSE "not_verified"
<1> HIDE DEF s
<1>1. run_test(t) = {Says(success) : success \in RunSucceeds(s)}
  BY Zenon DEF run_test, s
<1>2. Says(FALSE) = "not_executed"
  OBVIOUS
<1> HIDE DEF Says
<1>3. FALSE \notin RunSucceeds(s)
  <2> SUFFICES ASSUME FALSE \in RunSucceeds(s) PROVE FALSE
    OBVIOUS
  <2>1. Says(FALSE) \in run_test(t)
    BY <1>1
  <2> QED BY <1>2, <2>1
<1>4. s.halt = "exception"
  BY <1>3, Zenon DEF RunSucceeds
<1> QED BY <1>4 DEF s

\* The RET goes to an address where the program is not, and the core stops there.
LEMMA RetStops ==
    ASSUME NEW t, t.program = <<ret>>, t.setup = {<<30, 8192>>}
    PROVE  Stopped(t).halt = "invalid"
<1> DEFINE m == MemoryOf(t)
           f == RegistersOf(t)
           s0 == Core(Place(1), m, f, "no")
           s1 == Core(8192, m, f, "no")
           s2 == Core(8192, m, f, "invalid")
<1>1. Place(1) \in DOMAIN m /\ m[Place(1)] = ret /\ Prepared(t) = s0
  <2>1. Place(1) \in DOMAIN MemoryOf(t) /\ MemoryOf(t)[Place(1)] = ret
    BY OneIsThere
  <2>2. Prepared(t) = Core(Place(1), MemoryOf(t), RegistersOf(t), "no")
    BY PreparedIs
  <2> QED BY <2>1, <2>2
<1>2. f[30] = 8192
  <2>1. Gives(t, 30, 8192) /\ 30 \in 0 .. 30
    BY DEF Gives
  <2> QED BY <2>1, RegisterIsSet
<1>3. 8192 \notin DOMAIN m
  <2> DEFINE written == [k \in 1 .. 2 |-> IF k <= 1 THEN t.program[k] ELSE brk(0)]
             places == {TEST_BASE_ADDR + 4 * (k - 1) : k \in DOMAIN written}
  <2>1. Len(t.program) = 1 /\ 1 + 1 = 2
    OBVIOUS
  <2>2. m = [a \in places |-> written[(a - TEST_BASE_ADDR) \div 4 + 1]]
    BY <2>1 DEF MemoryOf, Prepared
  <2>3. 8192 \notin places
    BY DEF TEST_BASE_ADDR
  <2> HIDE DEF places, written
  <2> QED BY <2>2, <2>3
<1> HIDE DEF m, f
<1>4. Execute(s0) = s1
  <2>1. s0.halt = "no" /\ s0.pc = Place(1) /\ s0.mem = m /\ s0.x = f /\ Goto(s0, 8192) = s1
    BY CoreFields, GotoIs
  <2> HIDE DEF s0, s1
  <2> QED BY <1>1, <1>2, <2>1, RetRuns
<1>5. Execute(s1) = s2
  <2>1. s1.halt = "no" /\ s1.pc = 8192 /\ s1.mem = m /\ Halt(s1, "invalid") = s2
    BY CoreFields, HaltIs
  <2> HIDE DEF s1, s2
  <2> QED BY <1>3, <2>1, NothingRuns
<1>6. s2.halt = "invalid" /\ Execute(s2) = s2
  <2>1. s2.halt = "invalid"
    BY CoreFields
  <2> HIDE DEF s2
  <2> QED BY <2>1, HaltedStays
<1>7. Execute(Prepared(t)) = s1
  BY <1>1, <1>4
<1> HIDE DEF s0, s1, s2
<1>8. Stopped(t) = s2
  BY <1>5, <1>6, <1>7, OneRuns
<1> QED BY <1>6, <1>8

LEMMA FourAreThere ==
    ASSUME NEW t, NEW w1, NEW w2, NEW w3, NEW w4, t.program = <<w1, w2, w3, w4>>
    PROVE  /\ Place(1) \in DOMAIN MemoryOf(t) /\ MemoryOf(t)[Place(1)] = w1
           /\ Place(2) \in DOMAIN MemoryOf(t) /\ MemoryOf(t)[Place(2)] = w2
           /\ Place(3) \in DOMAIN MemoryOf(t) /\ MemoryOf(t)[Place(3)] = w3
           /\ Place(4) \in DOMAIN MemoryOf(t) /\ MemoryOf(t)[Place(4)] = w4
           /\ Place(5) \in DOMAIN MemoryOf(t) /\ MemoryOf(t)[Place(5)] = brk(0)
<1>1. Len(t.program) = 4 /\ 4 \in Nat /\ 4 + 1 = 5
  OBVIOUS
<1>2. /\ t.program[1] = w1 /\ t.program[2] = w2 /\ t.program[3] = w3 /\ t.program[4] = w4
      /\ 1 \in 1 .. 4 /\ 2 \in 1 .. 4 /\ 3 \in 1 .. 4 /\ 4 \in 1 .. 4
  OBVIOUS
<1>3. /\ \A k \in 1 .. 4 : /\ Place(k) \in DOMAIN MemoryOf(t)
                            /\ MemoryOf(t)[Place(k)] = t.program[k]
      /\ Place(4 + 1) \in DOMAIN MemoryOf(t)
      /\ MemoryOf(t)[Place(4 + 1)] = brk(0)
  BY <1>1, ProgramIsThere
<1> QED BY <1>1, <1>2, <1>3, ZenonT(30)

\* The warm-up comes to the BRK after its four words, whatever is in its registers.
LEMMA WarmupStops == Stopped(Warmup).halt = "exception"
<1> DEFINE t == Warmup
           m == MemoryOf(t)
           f == RegistersOf(t)
           f2 == Put(f, 0, f[0] + 1)
           f3 == Put(f2, 1, f2[1] + f2[2])
           f4 == Put(f3, 3, f3[4])
           s0 == Core(Place(1), m, f, "no")
           s1 == Core(Place(2), m, f, "no")
           s2 == Core(Place(3), m, f2, "no")
           s3 == Core(Place(4), m, f3, "no")
           s4 == Core(Place(5), m, f4, "no")
           s5 == Core(Place(5), m, f4, "exception")
           run == [k \in 0 .. 6 |-> IF k = 0 THEN s0 ELSE IF k = 1 THEN s1 ELSE IF k = 2 THEN s2
                                    ELSE IF k = 3 THEN s3 ELSE IF k = 4 THEN s4 ELSE s5]
<1>1. t.program = <<nop, add_imm(0, 0, 1), add_reg(1, 1, 2), mov_reg(3, 4)>>
  BY DEF Warmup, Test
<1> HIDE DEF t
<1>2. Prepared(t) = s0
  BY PreparedIs
<1>3. /\ Place(1) \in DOMAIN m /\ m[Place(1)] = nop
      /\ Place(2) \in DOMAIN m /\ m[Place(2)] = add_imm(0, 0, 1)
      /\ Place(3) \in DOMAIN m /\ m[Place(3)] = add_reg(1, 1, 2)
      /\ Place(4) \in DOMAIN m /\ m[Place(4)] = mov_reg(3, 4)
      /\ Place(5) \in DOMAIN m /\ m[Place(5)] = brk(0)
  BY <1>1, FourAreThere
<1>4. /\ Place(1) + 4 = Place(2) /\ Place(2) + 4 = Place(3)
      /\ Place(3) + 4 = Place(4) /\ Place(4) + 4 = Place(5)
  BY DEF Place, TEST_BASE_ADDR
<1>5. {0, 1, 2} \subseteq XNumbers /\ {0, 3, 4} \subseteq 0 .. 30 /\ 1 \in Imm12
  BY DEF Imm12, XNumbers
<1> HIDE DEF m, f
<1>6. Execute(s0) = s1
  BY <1>3, <1>4, NopStep
<1>7. Execute(s1) = s2
  BY <1>3, <1>4, <1>5, AddImmStep
<1> HIDE DEF f2
<1>8. Execute(s2) = s3
  BY <1>3, <1>4, <1>5, AddRegStep
<1> HIDE DEF f3
<1>9. Execute(s3) = s4
  BY <1>3, <1>4, <1>5, MovRegStep
<1> HIDE DEF f4
<1>10. Execute(s4) = s5 /\ Execute(s5) = s5 /\ s5.halt = "exception"
  BY <1>3, BrkStops, CoreFields
<1> HIDE DEF s0, s1, s2, s3, s4, s5
<1>11. \A k \in 1 .. 6 : run[k] = Execute(run[k - 1])
  BY <1>6, <1>7, <1>8, <1>9, <1>10
<1>12. run[0] = s0 /\ run[6] = s5
  OBVIOUS
<1> HIDE DEF run
<1>13. Runs(t, 6, run) /\ 6 \in Nat /\ Len(t.program) + 2 = 6
  BY <1>1, <1>2, <1>11, <1>12 DEF Runs
<1>14. Stopped(t) = run[6]
  BY <1>13, StoppedIs
<1> QED BY <1>10, <1>12, <1>14 DEF t

\* run, which has no limit, returns for the warm-up and for each of the nine tests, for
\* every width of a register above 16 bits: the guard of EndTests never keeps the tests from
\* ending (run.rs, run_tests and warmup_jit).
THEOREM EveryProgramStops == AllStop
<1>1. Stopped(Warmup).halt # "no"
  BY WarmupStops
<1>2. ASSUME NEW k \in DOMAIN Tests
      PROVE  Stopped(Tests[k]).halt # "no"
  <2>1. CASE k = 6
    <3>1. Tests[6].program = <<ret>> /\ Tests[6].setup = {<<30, 8192>>}
      BY DEF Tests, Test
    <3>2. Stopped(Tests[6]).halt = "invalid"
      BY <3>1, RetStops
    <3> QED BY <2>1, <3>2
  <2>2. CASE k # 6
    BY <1>2, <2>2, NineTests, EachPasses, PassesStopped
  <2> QED BY <2>1, <2>2
<1> QED BY <1>1, <1>2 DEF AllStop

\* Whatever else goes wrong, so many tests passed, got no core or were late.
LEMMA RunsAreRight ==
    ASSUME NEW results \in run_tests
    PROVE  Total(results).passed + Total(results).unlucky >= 8
<1> DEFINE Passed == {k \in DOMAIN results : results[k] = "pass"}
           Missed == {k \in DOMAIN results : results[k] \in {"no_core", "timeout"}}
<1> DEFINE N == Len(Tests)
<1>0. N \in Nat /\ N = 9 /\ DOMAIN Tests = 1 .. N
  BY NineTests
<1>1. PICK unlucky \in SUBSET DOMAIN Tests, why \in {"no_core", "timeout"}, v \in LuckyReports :
        results = [k \in DOMAIN Tests |-> IF k \in unlucky THEN why ELSE v[k]]
  BY DEF run_tests
<1>2. \A k \in (1 .. 9) \ {6} : v[k] = "pass"
  <2>1. \A k \in DOMAIN Tests : v[k] \in run_test(Tests[k])
    BY DEF LuckyReports
  <2> QED BY <2>1, NineTests, EachPasses
<1>3. DOMAIN results = DOMAIN Tests
  BY <1>1
<1>4. (1 .. N) \ {6} \subseteq Passed \cup Missed
  BY <1>0, <1>1, <1>2, <1>3
<1>5. Passed \cap Missed = {}
  OBVIOUS
<1> HIDE DEF N
<1>6. IsFiniteSet(1 .. N) /\ Cardinality(1 .. N) = 9
  <2>1. 1 \in Int /\ N \in Int
    BY <1>0
  <2>2. IsFiniteSet(1 .. N) /\ Cardinality(1 .. N) = IF 1 > N THEN 0 ELSE N - 1 + 1
    BY <2>1, FS_Interval, Zenon
  <2>3. (IF 1 > N THEN 0 ELSE N - 1 + 1) = 9
    BY <1>0
  <2> QED BY <2>2, <2>3
<1>7. IsFiniteSet(Passed) /\ IsFiniteSet(Missed)
  <2>1. Passed \subseteq 1 .. N /\ Missed \subseteq 1 .. N
    BY <1>0, <1>3
  <2> QED BY <1>6, <2>1, FS_Subset
<1>8. IsFiniteSet((1 .. N) \ {6}) /\ Cardinality((1 .. N) \ {6}) = 8
  <2>1. Cardinality((1 .. N) \ {6}) = Cardinality(1 .. N) - 1 /\ IsFiniteSet((1 .. N) \ {6})
    <3>1. 6 \in 1 .. N
      BY <1>0
    <3> DEFINE S == 1 .. N
    <3>2. IsFiniteSet(S) /\ 6 \in S
      BY <1>6, <3>1
    <3> HIDE DEF S
    <3> DEFINE ret_test == 6
    <3>4. ret_test \in S
      BY <3>2
    <3> HIDE DEF ret_test
    <3>3. IsFiniteSet(S \ {ret_test}) /\ Cardinality(S \ {ret_test}) = Cardinality(S) - 1
      BY <3>2, <3>4, FS_RemoveElement
    <3> QED BY <3>3 DEF S, ret_test
  <2> QED BY <1>6, <2>1
<1> HIDE DEF Passed, Missed
<1>9. IsFiniteSet(Passed \cup Missed)
      /\ Cardinality(Passed \cup Missed) = Cardinality(Passed) + Cardinality(Missed)
      /\ Cardinality(Passed) \in Nat /\ Cardinality(Missed) \in Nat
  <2>1. Cardinality(Passed \cap Missed) = 0
    BY <1>5, FS_EmptySet
  <2>2. /\ IsFiniteSet(Passed \cup Missed)
        /\ Cardinality(Passed \cup Missed)
             = Cardinality(Passed) + Cardinality(Missed) - Cardinality(Passed \cap Missed)
        /\ Cardinality(Passed) \in Nat /\ Cardinality(Missed) \in Nat
    BY <1>7, FS_Union, FS_CardinalityType
  <2> QED BY <2>1, <2>2
<1>10. Cardinality((1 .. N) \ {6}) <= Cardinality(Passed \cup Missed)
  BY <1>4, <1>9, FS_Subset
<1> QED BY <1>8, <1>9, <1>10 DEF Total, Passed, Missed
---------------------------------------------------------------------------------
(* The theorems *)

\* Whatever boot and the tests do, the desktop program runs as Gui says (gui.rs).
THEOREM DesktopRefinesGui == DesktopSpec => GuiSpec
<1>1. DesktopInit => GuiInit
  BY DEF DesktopInit
<1>2. DInv /\ [DesktopNext]_desktop => [GuiNext]_gui
  <2> SUFFICES ASSUME DInv, [DesktopNext]_desktop
               PROVE  [GuiNext]_gui
    OBVIOUS
  <2> QED
    BY StepOfGui DEF desktop
<1> QED
  BY <1>1, <1>2, DesktopInvariance, PTL DEF DesktopSpec, GuiSpec

\* ... so a thread is never left for a frame that nobody asked for.
THEOREM DesktopCollects == DesktopSpec => []FrameIsComing
BY DesktopRefinesGui, FramesCome, PTL

\* No boot and no run of the tests is ever left without its handle (gui.rs:179).
THEOREM DesktopKeepsHandles == DesktopSpec => []NoneDetached
BY DesktopInvariance, PTL DEF DInv, GuiInv

\* The status bar says Hardware Init exactly while there is a boot (gui.rs:171, 200).
THEOREM DesktopShowsBoot == DesktopSpec => []PhaseTellsBoot
BY DesktopInvariance, PTL DEF DInv, GuiInv

\* The NAND is open only while there is a boot or its result, the second handle only
\* inside the first (boot.rs:87, 229, and the drops).
THEOREM NandGetsClosed == DesktopSpec => []NandIsClosed
<1>1. DInv => NandIsClosed
  BY DEF DInv, Wired, Opened, NandIsClosed, Handles
<1> QED
  BY <1>1, DesktopInvariance, PTL

\* A boot that says Running went all the way and holds the NAND (boot.rs:207).
THEOREM RunningHoldsNand == DesktopSpec => []ResultHoldsNand
<1>1. DInv => ResultHoldsNand
  BY DEF DInv, Wired, Opened, ResultHoldsNand
<1> QED
  BY <1>1, DesktopInvariance, PTL

\* The stub runs only when there is no package or a call into the host failed, for every
\* image, package and size of the header (load_kernel_image, boot.rs:117).
THEOREM KernelIsTheRightOne == DesktopSpec => []LoadsWhatIsThere
<1>1. DInv => LoadsWhatIsThere
  <2> SUFFICES ASSUME DInv, bootPc \notin BeforeKernel \cup {"done"}
               PROVE  /\ code = IF failed THEN stub_kernel ELSE ImageToRun
                      /\ mode[probe] = "closed"
    BY DEF LoadsWhatIsThere
  <2>1. bootPc \notin (Early \ {"drop", "new"}) /\ bootPc \notin {"header", "package", "drop"}
    BY DEF BeforeKernel, Early
  <2>2. probe \in Handles
    BY DEF Handles
  <2> QED
    BY <2>1, <2>2 DEF DInv, Chosen, Opened
<1> QED
  BY <1>1, DesktopInvariance, PTL

\* load_code puts the image and the stub of the home menu where they belong and leaves
\* 0 everywhere else, for every length of the image and every address map.
THEOREM MemoryGetsLaidOut == DesktopSpec => []MemoryIsLaidOut
<1>1. DInv => MemoryIsLaidOut
  BY DEF DInv, Laid, KernelImage, MemoryIsLaidOut, BothIn
<1> QED
  BY <1>1, DesktopInvariance, PTL

\* No boot changes a byte of the NAND image (boot.rs:87, 229).
THEOREM ImageIsKept == DesktopSpec => ImageKept
<1> DEFINE Kept == \A i \in DOMAIN image : i \in DOMAIN image' /\ image'[i] = image[i]
<1>1. DInv /\ [DesktopNext]_desktop => [Kept]_image
  <2> SUFFICES ASSUME DInv, [DesktopNext]_desktop
               PROVE  Kept \/ image' = image
    OBVIOUS
  <2>1. mode \in [Handles -> {"closed", "rw"}] /\ image \in Seq(Byte)
        /\ main \in Handles /\ probe \in Handles
    BY DEF DInv, Opened, Handles
  <2>2. CASE RunBoot
    <3>1. CASE OpenNand \/ OpenProbe
      <4>1. Host!Open(main) \/ Host!Open(probe) \/ image' = image
        BY <3>1 DEF OpenNand, OpenProbe, Opening, disk
      <4> QED
        BY <2>1, <4>1, OpenKeeps
    <3>2. CASE ReadHeader \/ ReadPackage
      <4>1. image' = image
        BY <3>2 DEF ReadHeader, ReadPackage, Host!ReadPartition, Host!BytesRead, Host!HostRead,
                    Host!Refuse
      <4> QED
        BY <4>1
    <3>3. CASE ~(OpenNand \/ OpenProbe \/ ReadHeader \/ ReadPackage)
      <4>1. image' = image
        BY <2>2, <3>3 DEF RunBoot, BootStep, ReadPackageFile, DropProbe, NewKernel, LoadKernel,
                   CallKernel, StartServices, RegisterNextPort, LoadQlaunch, Return, disk,
                   Host!Close
      <4> QED
        BY <4>1
    <3> QED
      BY <3>1, <3>2, <3>3
  <2>3. CASE \E clicks \in SUBSET Jobs : DrawFrame(clicks)
    BY <2>3 DEF DrawFrame, TakeResult, Host!Close, boot, disk
  <2>4. CASE DrawSplash \/ BeginTests \/ EndTests \/ Pass \/ Start \/ ExitBoot
             \/ UNCHANGED desktop
    BY <2>4 DEF DrawSplash, BeginTests, EndTests, Pass, Start, ExitBoot, desktop, boot, disk
  <2>5. CASE ReturnFromBoot \/ PanicInBoot \/ GoDown
    BY <2>5 DEF ReturnFromBoot, PanicInBoot, GoDown, ThreadReturns, PanicInNew, Ended, disk,
                Host!Close
  <2> QED
    BY <2>2, <2>3, <2>4, <2>5 DEF DesktopNext
<1> QED
  BY <1>1, DesktopInvariance, PTL DEF DesktopSpec, ImageKept

\* What stands in the report, while there is one and while there is none.
ReportIsRight ==
    /\ testThread = "finished" => report.passed + report.unlucky >= 8
    /\ testThread # "finished" => report = NoReport

LEMMA ReportKeeps ==
    ASSUME GuiInv, ReportIsRight, [DesktopNext]_desktop
    PROVE  ReportIsRight'
<1>1. CASE EndTests
  <2>1. PICK results \in run_tests : report' = Total(results)
    BY <1>1 DEF EndTests
  <2>2. testThread' = "finished"
    BY <1>1 DEF EndTests, TestsEnd
  <2> QED
    BY <2>1, <2>2, RunsAreRight DEF ReportIsRight
<1>2. CASE GoDown
  BY <1>2 DEF GoDown, PanickingFrame, Quit, Down, ReportIsRight
<1>3. ASSUME NEW clicks \in SUBSET Jobs, DrawFrame(clicks)
      PROVE  ReportIsRight'
  BY <1>3 DEF DrawFrame, Frame, TestLeft, ReportIsRight
<1>4. CASE DrawSplash \/ BeginTests \/ RunBoot \/ ReturnFromBoot \/ ExitBoot \/ PanicInBoot
             \/ Pass \/ Start \/ UNCHANGED desktop
  <2>1. report' = report /\ (testThread' = "finished" <=> testThread = "finished")
    BY <1>4 DEF DrawSplash, BeginTests, RunBoot, ReturnFromBoot, ExitBoot, PanicInBoot, Pass, Start,
                desktop, gui, SplashFrame, TestsBegin, BootReturns, BootExits, BootPanics,
                SplashOver, Launch
  <2> QED
    BY <2>1 DEF ReportIsRight
<1> QED
  BY <1>1, <1>2, <1>3, <1>4 DEF DesktopNext

\* The last line of the log counts a test as failed only when it got no core or was late,
\* or when it is the RET: the other eight programs leave in the registers, for every width
\* of a register above 16 bits, what their checks want (run.rs, run_tests).
THEOREM TestsReportRight == DesktopSpec => []TestsAreRight
<1>1. DesktopInit => ReportIsRight
  BY DEF DesktopInit, GuiInit, ReportIsRight
<1>2. DInv => GuiInv
  BY DEF DInv
<1>3. ReportIsRight => TestsAreRight
  BY NineTests DEF ReportIsRight, TestsAreRight
<1> QED
  BY <1>1, <1>2, <1>3, ReportKeeps, DesktopInvariance, PTL DEF DesktopSpec
---------------------------------------------------------------------------------
(* The system that boot brings up, call after call *)

KText == TextOf(KERNEL_BASE, KERNEL_CODE_SIZE)
KStack == StackUnder(KERNEL_STACK_TOP)
QText == TextOf(QLAUNCH_BASE, QLAUNCH_CODE_SIZE)
QStack == StackUnder(QLAUNCH_STACK_TOP)

Process(tid, maps) == [nextThreadId |-> tid, memoryMap |-> maps]

\* A process as boot has made it so far, before and after its thread.
NoThread(pid, maps) == processes[pid] = Process(1, maps)
OneThread(pid, maps, entry, stackTop) ==
    /\ processes[pid] = Process(2, maps)
    /\ threads[<<pid, 1>>] = NewThread(entry, stackTop)

KernelUp == OneThread(1, <<KText, KStack>>, KERNEL_BASE, KERNEL_STACK_TOP)
MenuUp == OneThread(2, <<QText, QStack>>, QLAUNCH_BASE, QLAUNCH_STACK_TOP)

\* The first m ports are registered.
PortsUpTo(m) ==
    /\ DOMAIN namedPorts = {CorePorts[i] : i \in 1 .. m}
    /\ \A i \in 1 .. m : namedPorts[CorePorts[i]] = PortHandle(i)

NoObjects == nextPid = 1 /\ Live = {} /\ PortsUpTo(0)
KernelAt(maps) == nextPid = 2 /\ Live = {} /\ PortsUpTo(0) /\ NoThread(1, maps)
KernelRuns == nextPid = 2 /\ Live = {<<1, 1>>} /\ KernelUp
AllServed == services = Services /\ PortsUpTo(Len(CorePorts))
MenuAt(maps) == nextPid = 3 /\ Live = {<<1, 1>>} /\ KernelUp /\ AllServed /\ NoThread(2, maps)
MenuRuns == nextPid = 3 /\ Live = {<<1, 1>>, <<2, 1>>} /\ KernelUp /\ AllServed /\ MenuUp

\* What the kernel holds at each call of boot.
Up ==
    /\ bootPc \in Early \cup {"load", "create"} => NoObjects
    /\ bootPc = "text" => KernelAt(<<>>)
    /\ bootPc = "stack" => KernelAt(<<KText>>)
    /\ bootPc = "thread" => KernelAt(<<KText, KStack>>)
    /\ bootPc = "services" => KernelRuns /\ PortsUpTo(0)
    /\ bootPc = "ports" =>
         KernelRuns /\ services = Services /\ \E m \in 0 .. Len(CorePorts) : PortsUpTo(m)
    /\ bootPc = "qcreate" => KernelRuns /\ AllServed
    /\ bootPc = "qtext" => MenuAt(<<>>)
    /\ bootPc = "qstack" => MenuAt(<<QText>>)
    /\ bootPc \in {"qload", "qthread"} => MenuAt(<<QText, QStack>>)
    /\ bootPc = "step" => MenuRuns

LEMMA NewKernelIInv == NoKernel => IInv'
<1>1. NoKernel => Init'
  BY DEF NoKernel, Init, NewCore, Cores
<1> QED
  BY <1>1, InitIInv, PTL

LEMMA ProcessCreated ==
    ASSUME IInv, CreateProcess
    PROVE  /\ processes'[nextPid] = Process(1, <<>>)
           /\ nextPid' = nextPid + 1 /\ nextPid \in Nat
           /\ \A p \in DOMAIN processes : p # nextPid /\ processes'[p] = processes[p]
           /\ UNCHANGED <<threads, namedPorts>>
<1>1. /\ processes' = [p \in DOMAIN processes \cup {nextPid} |->
                         IF p = nextPid THEN NewProcess ELSE processes[p]]
      /\ nextPid' = nextPid + 1 /\ UNCHANGED <<threads, namedPorts>>
  BY DEF CreateProcess, Insert
<1>2. nextPid \in Nat /\ DOMAIN processes = 1 .. nextPid - 1
  BY KernelAssumption DEF IInv, TypeOK
<1> QED
  BY <1>1, <1>2 DEF NewProcess, Process

LEMMA MemoryMapped ==
    ASSUME IInv, NEW pid \in DOMAIN processes, NEW maps, NEW region, NEW tid,
           processes[pid] = Process(tid, maps), MapProcessMemory(pid, region)
    PROVE  /\ processes'[pid] = Process(tid, Append(maps, region))
           /\ \A p \in DOMAIN processes : p # pid => processes'[p] = processes[p]
           /\ UNCHANGED <<threads, namedPorts, nextPid>>
<1> DEFINE mapped == [processes[pid] EXCEPT !.memoryMap = Append(processes[pid].memoryMap, region)]
<1>1. /\ processes' = [processes EXCEPT ![pid] = mapped]
      /\ UNCHANGED <<threads, namedPorts, nextPid>>
  BY DEF MapProcessMemory
<1>2. mapped = Process(tid, Append(maps, region))
  BY SMTT(90) DEF Process
<1> HIDE DEF mapped
<1> QED
  BY <1>1, <1>2

LEMMA ThreadCreated ==
    ASSUME IInv, NEW pid \in DOMAIN processes, NEW maps, NEW entry \in Word, NEW stackTop \in Word,
           processes[pid] = Process(1, maps), CreateMainThread(pid, entry, stackTop)
    PROVE  /\ OneThread(pid, maps, entry, stackTop)'
           /\ Live' = Live \cup {<<pid, 1>>}
           /\ \A p \in DOMAIN processes : p # pid => processes'[p] = processes[p]
           /\ \A k \in Live : threads'[k] = threads[k]
           /\ UNCHANGED <<namedPorts, nextPid>>
<1> DEFINE grown == [processes[pid] EXCEPT !.nextThreadId = 2]
<1>1. processes[pid].nextThreadId = 1
  BY DEF Process
<1>2. /\ AddThread(pid, entry, stackTop) /\ UNCHANGED <<namedPorts, nextPid>>
  BY DEF CreateMainThread
<1>3. /\ Live' = Live \cup {<<pid, 1>>}
      /\ threads'[<<pid, 1>>] = NewThread(entry, stackTop)
      /\ \A k \in Live : threads'[k] = threads[k]
  BY <1>1, <1>2, AddThreadFacts
<1>4. processes' = [processes EXCEPT ![pid].nextThreadId = 2]
  BY <1>1, <1>2 DEF AddThread
<1>5. processes' = [processes EXCEPT ![pid] = grown]
  BY <1>4
<1>6. grown = Process(2, maps)
  BY DEF Process
<1> HIDE DEF grown
<1> QED
  BY <1>2, <1>3, <1>5, <1>6 DEF OneThread

LEMMA PortRegistered ==
    ASSUME NEW m \in 0 .. Len(CorePorts), PortsUpTo(m), RegisterNextPort
    PROVE  /\ m < Len(CorePorts) /\ PortsUpTo(m + 1)'
           /\ PortHandle(m + 1) \in PortHandles
           /\ RegisterPort(CorePorts[m + 1], PortHandle(m + 1))
           /\ bootPc = "ports" /\ bootPc' = IF m + 1 = Len(CorePorts) THEN "qcreate" ELSE "ports"
           /\ UNCHANGED services
<1> DEFINE names == {CorePorts[i] : i \in 1 .. m}
           listed == [i \in 1 .. m |-> CorePorts[i]]
<1>1. m \in Nat /\ Len(CorePorts) \in Nat /\ DOMAIN CorePorts = 1 .. Len(CorePorts)
  BY AddressAssumption
<1>2. Cardinality(names) = m
  <2>1. listed \in Bijection(1 .. m, names)
    BY <1>1, AddressAssumption DEF Bijection, Injection, Surjection, IsInjective
  <2>2. ExistsBijection(1 .. m, names)
    BY <2>1 DEF ExistsBijection
  <2> HIDE DEF names, listed
  <2> QED
    BY <1>1, <2>2, FS_CountingElements
<1>3. Cardinality(DOMAIN namedPorts) = m
  BY <1>2 DEF PortsUpTo
<1>4. /\ m + 1 \in DOMAIN CorePorts
      /\ At("ports", IF m + 1 = Len(CorePorts) THEN "qcreate" ELSE "ports")
      /\ RegisterPort(CorePorts[m + 1], PortHandle(m + 1))
      /\ UNCHANGED services
  BY <1>3 DEF RegisterNextPort
<1>5. m < Len(CorePorts) /\ m + 1 \in 1 .. Len(CorePorts)
  <2> DEFINE n == Len(CorePorts)
  <2>1. m \in Nat /\ n \in Nat /\ m + 1 \in 1 .. n
    BY <1>1, <1>4
  <2> HIDE DEF n
  <2>2. m < n
    BY <2>1
  <2> QED
    BY <2>1, <2>2 DEF n
<1>6. PortHandle(m + 1) \in PortHandles
  BY <1>1, <1>5, AddressAssumption, KernelAssumption DEF PortHandle, PortHandles
<1>7. PortsUpTo(m + 1)'
  <2>1. namedPorts' = [j \in DOMAIN namedPorts \cup {CorePorts[m + 1]} |->
                         IF j = CorePorts[m + 1] THEN PortHandle(m + 1) ELSE namedPorts[j]]
    BY <1>4 DEF RegisterPort, Insert
  <2>2. 1 .. m + 1 = (1 .. m) \cup {m + 1}
    BY <1>1
  <2>3. DOMAIN namedPorts' = {CorePorts[i] : i \in 1 .. m + 1}
    BY <2>1, <2>2 DEF PortsUpTo
  <2>8. \A i, j \in DOMAIN CorePorts : CorePorts[i] = CorePorts[j] => i = j
    BY AddressAssumption DEF IsInjective
  <2>9. \A i \in 1 .. m : i \in DOMAIN CorePorts /\ i # m + 1
    BY <1>1, <1>5
  <2>4. \A i \in 1 .. m : CorePorts[i] # CorePorts[m + 1] /\ CorePorts[i] \in DOMAIN namedPorts
    BY <1>4, <2>8, <2>9 DEF PortsUpTo
  <2>5. \A i \in 1 .. m : namedPorts'[CorePorts[i]] = PortHandle(i)
    BY <2>1, <2>4 DEF PortsUpTo
  <2>6. namedPorts'[CorePorts[m + 1]] = PortHandle(m + 1)
    BY <2>1
  <2>7. \A i \in 1 .. m + 1 : namedPorts'[CorePorts[i]] = PortHandle(i)
    BY <2>2, <2>5, <2>6
  <2> QED
    BY <2>3, <2>7 DEF PortsUpTo, PortHandle
<1> QED
  BY <1>4, <1>5, <1>6, <1>7 DEF At

LEMMA EveryServiceStarts ==
    /\ start_host_services = Services
    /\ count_services(Services) = Cardinality(Services)
<1>1. HostEntries = Counted
  BY DEF HostEntries, Counted
<1>2. DOMAIN HostEntries = 1 .. 160
  BY DEF HostEntries
<1>3. \A k \in 1 .. 160 : HostEntries[k] \in Services
  BY SMTT(60) DEF HostEntries, Services
<1>4. \A s \in Services : \E k \in 1 .. 160 : HostEntries[k] = s
  BY SMTT(60) DEF HostEntries, Services
<1>5. \A j, k \in 1 .. 160 : HostEntries[k] = HostEntries[j] => j = k
  BY SMTT(60) DEF HostEntries, Services
<1> DEFINE N == 160
<1>6. N \in Nat /\ DOMAIN HostEntries = 1 .. N
  BY <1>2
<1>7. start_host_services = Services
  BY <1>2, <1>3, <1>4 DEF start_host_services, Range
<1>8. {k \in DOMAIN Counted : Counted[k] \in Services} = 1 .. N
  BY <1>1, <1>2, <1>3
<1>9. Cardinality(Services) = N
  <2>1. HostEntries = [k \in 1 .. 160 |-> HostEntries[k]]
    BY <1>2 DEF HostEntries
  <2>2. HostEntries \in Bijection(1 .. N, Services)
    BY <1>3, <1>4, <1>5, <2>1, ZenonT(30) DEF Bijection, Injection, Surjection, IsInjective
  <2>3. ExistsBijection(1 .. N, Services)
    BY <2>2 DEF ExistsBijection
  <2> HIDE DEF N
  <2> QED
    BY <1>6, <2>3, FS_CountingElements
<1>10. Cardinality(1 .. N) = N
  <2> HIDE DEF N
  <2>1. ExistsBijection(1 .. N, 1 .. N)
    <3>1. [k \in 1 .. N |-> k] \in Bijection(1 .. N, 1 .. N)
      BY DEF Bijection, Injection, Surjection, IsInjective
    <3> QED
      BY <3>1 DEF ExistsBijection
  <2> QED
    BY <1>6, <2>1, FS_CountingElements
<1> HIDE DEF N
<1> QED
  BY <1>7, <1>8, <1>9, <1>10 DEF count_services

\* What a call leaves alone is where it was.
LEMMA ObjectsKept ==
    ASSUME UNCHANGED vars, UNCHANGED services
    PROVE  /\ NoObjects' <=> NoObjects
           /\ \A maps : KernelAt(maps)' <=> KernelAt(maps)
           /\ KernelRuns' <=> KernelRuns
           /\ \A m : PortsUpTo(m)' <=> PortsUpTo(m)
           /\ \A maps : MenuAt(maps)' <=> MenuAt(maps)
           /\ MenuRuns' <=> MenuRuns
<1>1. UNCHANGED <<processes, nextPid, threads, namedPorts, services>> /\ Live' = Live
  BY DEF vars, objects, Live
<1> QED
  BY <1>1 DEF NoObjects, KernelAt, KernelRuns, PortsUpTo, MenuAt, MenuRuns, NoThread, KernelUp,
              MenuUp, OneThread, AllServed

LEMMA SameKernel ==
    ASSUME IInv, UNCHANGED vars PROVE IInv'
BY NextIInv

Before == Early \cup {"load", "create"}

LEMMA PhasesOneAndTwo ==
    ASSUME IInv, Up, bootPc \in Before, bootPc' \in Before, UNCHANGED vars
    PROVE  IInv' /\ Up'
<1>1. NoObjects'
  <2>1. UNCHANGED <<nextPid, threads, namedPorts>> /\ Live' = Live
    BY DEF vars, objects, Live
  <2> QED
    BY <2>1 DEF NoObjects, Up, Before, PortsUpTo
<1>2. Up'
  BY <1>1 DEF Up, Before, Early
<1> QED
  BY <1>2, SameKernel

LEMMA SameCall ==
    ASSUME IInv, Up, UNCHANGED <<vars, services, bootPc>>
    PROVE  IInv' /\ Up'
<1>1. (\E m \in 0 .. Len(CorePorts) : PortsUpTo(m)) => (\E m \in 0 .. Len(CorePorts) : PortsUpTo(m))'
  BY ObjectsKept
<1>2. AllServed' <=> AllServed
  BY ObjectsKept DEF AllServed
<1>3. Up'
  BY <1>1, <1>2, ObjectsKept DEF Up
<1> QED
  BY <1>3, SameKernel

\* What boot relies on of the addresses.
LEMMA AddressFacts ==
    /\ {KERNEL_BASE, KERNEL_STACK_TOP, QLAUNCH_BASE, QLAUNCH_STACK_TOP} \subseteq Word
    /\ {KText, KStack, QText, QStack} \subseteq Regions
BY AddressAssumption DEF KText, KStack, QText, QStack

LEMMA SecondAppended ==
    ASSUME NEW S, NEW s \in Seq(S), NEW u \in Seq(S), NEW b \in S,
           Len(s) = 1, Len(u) = 2, u[1] = s[1], u[2] = b
    PROVE  Append(s, b) = u
<1> DEFINE t == Append(s, b)
<1>1. t \in Seq(S) /\ Len(t) = Len(s) + 1
  BY AppendProperties, SMTT(30)
<1>2. \A i \in 1 .. Len(s) : t[i] = s[i]
  BY AppendProperties, SMTT(30)
<1>3. t[Len(s) + 1] = b
  BY AppendProperties
<1> HIDE DEF t
<1>4. Len(t) = 2 /\ t[1] = s[1] /\ t[2] = b
  BY <1>1, <1>2, <1>3
<1>5. t = u
  BY <1>1, <1>4, SeqEqual
<1> QED
  BY <1>5 DEF t

LEMMA MapsGrow ==
    ASSUME NEW S, NEW a \in S, NEW b \in S
    PROVE  Append(<<>>, a) = <<a>> /\ Append(<<a>>, b) = <<a, b>>
<1>1. Append(<<>>, a) = <<a>>
  OBVIOUS
<1>2. <<a>> \in Seq(S) /\ <<a, b>> \in Seq(S) /\ Len(<<a>>) = 1 /\ Len(<<a, b>>) = 2
      /\ <<a>>[1] = a /\ <<a, b>>[1] = a /\ <<a, b>>[2] = b
  OBVIOUS
<1> QED
  BY <1>1, <1>2, SecondAppended

\* The calls that make the kernel process, in their order.
LEMMA KernelProcess ==
    ASSUME IInv, Up, UNCHANGED services,
           \/ At("create", "text") /\ CreateProcess
           \/ At("text", "stack") /\ MapProcessMemory(Pid, KText)
           \/ At("stack", "thread") /\ MapProcessMemory(Pid, KStack)
           \/ At("thread", "services") /\ CreateMainThread(Pid, KERNEL_BASE, KERNEL_STACK_TOP)
    PROVE  IInv' /\ Up'
<1>1. CASE At("create", "text") /\ CreateProcess
  <2>1. IInv'
    BY <1>1, CreateProcessIInv
  <2>2. bootPc = "create" /\ bootPc' = "text" /\ NoObjects
    BY <1>1 DEF At, Up
  <2>3. KernelAt(<<>>)'
    BY <1>1, <2>2, ProcessCreated DEF NoObjects, KernelAt, NoThread, PortsUpTo, Live
  <2>4. Up'
    BY <2>2, <2>3 DEF Up, Early
  <2> QED
    BY <2>1, <2>4
<1>2. ASSUME NEW region \in Regions, NEW maps, KernelAt(maps), MapProcessMemory(Pid, region)
      PROVE  IInv' /\ KernelAt(Append(maps, region))'
  <2>1. IInv'
    BY <1>2, MapProcessMemoryIInv
  <2>2. Pid = 1 /\ 1 \in DOMAIN processes /\ processes[1] = Process(1, maps)
    BY <1>2 DEF KernelAt, NoThread, Pid, IInv, TypeOK
  <2>3. KernelAt(Append(maps, region))'
    BY <1>2, <2>2, MemoryMapped DEF KernelAt, NoThread, PortsUpTo, Live
  <2> QED
    BY <2>1, <2>3
<1>3. CASE At("text", "stack") /\ MapProcessMemory(Pid, KText)
  <2>1. bootPc = "text" /\ bootPc' = "stack" /\ KernelAt(<<>>)
    BY <1>3 DEF At, Up
  <2>2. Append(<<>>, KText) = <<KText>> /\ KText \in Regions
    BY MapsGrow, AddressFacts
  <2>3. IInv' /\ KernelAt(Append(<<>>, KText))'
    BY <1>2, <1>3, <2>1, <2>2
  <2>4. Up'
    BY <2>1, <2>2, <2>3 DEF Up, Early
  <2> QED
    BY <2>3, <2>4
<1>4. CASE At("stack", "thread") /\ MapProcessMemory(Pid, KStack)
  <2>1. bootPc = "stack" /\ bootPc' = "thread" /\ KernelAt(<<KText>>)
    BY <1>4 DEF At, Up
  <2>2. Append(<<KText>>, KStack) = <<KText, KStack>> /\ KStack \in Regions
    BY MapsGrow, AddressFacts
  <2>3. IInv' /\ KernelAt(Append(<<KText>>, KStack))'
    BY <1>2, <1>4, <2>1, <2>2
  <2>4. Up'
    BY <2>1, <2>2, <2>3 DEF Up, Early
  <2> QED
    BY <2>3, <2>4
<1>5. CASE At("thread", "services") /\ CreateMainThread(Pid, KERNEL_BASE, KERNEL_STACK_TOP)
  <2>1. bootPc = "thread" /\ bootPc' = "services" /\ KernelAt(<<KText, KStack>>)
    BY <1>5 DEF At, Up
  <2>2. Pid = 1 /\ 1 \in DOMAIN processes /\ processes[1] = Process(1, <<KText, KStack>>)
    BY <2>1 DEF KernelAt, NoThread, Pid, IInv, TypeOK
  <2>3. IInv'
    BY <1>5, CreateMainThreadIInv, AddressFacts
  <2>4. KernelRuns' /\ PortsUpTo(0)'
    BY <1>5, <2>1, <2>2, ThreadCreated, AddressFacts DEF KernelAt, KernelRuns, KernelUp, PortsUpTo
  <2>5. Up'
    BY <2>1, <2>4 DEF Up, Early
  <2> QED
    BY <2>3, <2>5
<1> QED
  BY <1>1, <1>3, <1>4, <1>5

\* ... and those that make the home menu.
LEMMA MenuProcess ==
    ASSUME IInv, Up, UNCHANGED services,
           \/ At("qcreate", "qtext") /\ CreateProcess
           \/ At("qtext", "qstack") /\ MapProcessMemory(Pid, QText)
           \/ At("qstack", "qload") /\ MapProcessMemory(Pid, QStack)
           \/ At("qthread", "step") /\ CreateMainThread(Pid, QLAUNCH_BASE, QLAUNCH_STACK_TOP)
    PROVE  IInv' /\ Up'
<1>1. CASE At("qcreate", "qtext") /\ CreateProcess
  <2>1. IInv'
    BY <1>1, CreateProcessIInv
  <2>2. bootPc = "qcreate" /\ bootPc' = "qtext" /\ KernelRuns /\ AllServed
    BY <1>1 DEF At, Up
  <2>3. 1 \in DOMAIN processes
    BY <2>2 DEF KernelRuns, IInv, TypeOK
  <2>4. MenuAt(<<>>)'
    BY <1>1, <2>2, <2>3, ProcessCreated
       DEF KernelRuns, MenuAt, NoThread, AllServed, PortsUpTo, Live, KernelUp, OneThread
  <2>5. Up'
    BY <2>2, <2>4 DEF Up, Early
  <2> QED
    BY <2>1, <2>5
<1>2. ASSUME NEW region \in Regions, NEW maps, MenuAt(maps), MapProcessMemory(Pid, region)
      PROVE  IInv' /\ MenuAt(Append(maps, region))'
  <2>1. IInv'
    BY <1>2, MapProcessMemoryIInv
  <2>2. Pid = 2 /\ {1, 2} \subseteq DOMAIN processes /\ processes[2] = Process(1, maps)
    BY <1>2 DEF MenuAt, NoThread, Pid, IInv, TypeOK
  <2>3. /\ processes'[2] = Process(1, Append(maps, region))
        /\ processes'[1] = processes[1]
        /\ UNCHANGED <<threads, namedPorts, nextPid>>
    <3>1. 2 \in DOMAIN processes /\ MapProcessMemory(2, region)
      BY <1>2, <2>2
    <3>2. /\ processes'[2] = Process(1, Append(maps, region))
          /\ \A p \in DOMAIN processes : p # 2 => processes'[p] = processes[p]
          /\ UNCHANGED <<threads, namedPorts, nextPid>>
      BY <2>2, <3>1, MemoryMapped
    <3> QED
      BY <2>2, <3>2
  <2>4. MenuAt(Append(maps, region))'
    BY <1>2, <2>3 DEF MenuAt, NoThread, AllServed, PortsUpTo, Live, KernelUp, OneThread
  <2> QED
    BY <2>1, <2>4
<1>3. CASE At("qtext", "qstack") /\ MapProcessMemory(Pid, QText)
  <2>1. bootPc = "qtext" /\ bootPc' = "qstack" /\ MenuAt(<<>>)
    BY <1>3 DEF At, Up
  <2>2. Append(<<>>, QText) = <<QText>> /\ QText \in Regions
    BY MapsGrow, AddressFacts
  <2>3. IInv' /\ MenuAt(Append(<<>>, QText))'
    BY <1>2, <1>3, <2>1, <2>2
  <2>4. Up'
    BY <2>1, <2>2, <2>3 DEF Up, Early
  <2> QED
    BY <2>3, <2>4
<1>4. CASE At("qstack", "qload") /\ MapProcessMemory(Pid, QStack)
  <2>1. bootPc = "qstack" /\ bootPc' = "qload" /\ MenuAt(<<QText>>)
    BY <1>4 DEF At, Up
  <2>2. Append(<<QText>>, QStack) = <<QText, QStack>> /\ QStack \in Regions
    BY MapsGrow, AddressFacts
  <2>3. IInv' /\ MenuAt(Append(<<QText>>, QStack))'
    BY <1>2, <1>4, <2>1, <2>2
  <2>4. Up'
    BY <2>1, <2>2, <2>3 DEF Up, Early
  <2> QED
    BY <2>3, <2>4
<1>5. CASE At("qthread", "step") /\ CreateMainThread(Pid, QLAUNCH_BASE, QLAUNCH_STACK_TOP)
  <2>1. bootPc = "qthread" /\ bootPc' = "step" /\ MenuAt(<<QText, QStack>>)
    BY <1>5 DEF At, Up
  <2>2. Pid = 2 /\ {1, 2} \subseteq DOMAIN processes /\ processes[2] = Process(1, <<QText, QStack>>)
    BY <2>1 DEF MenuAt, NoThread, Pid, IInv, TypeOK
  <2>3. IInv'
    BY <1>5, CreateMainThreadIInv, AddressFacts
  <2>4. MenuRuns'
    BY <1>5, <2>1, <2>2, ThreadCreated, AddressFacts
       DEF MenuAt, MenuRuns, AllServed, PortsUpTo, KernelUp, MenuUp, OneThread
  <2>5. Up'
    BY <2>1, <2>4 DEF Up, Early
  <2> QED
    BY <2>3, <2>5
<1> QED
  BY <1>1, <1>3, <1>4, <1>5

LEMMA BootKeepsUp ==
    ASSUME IInv, Up, BootStep
    PROVE  IInv' /\ Up'
<1>1. CASE OpenNand \/ ReadPackageFile \/ OpenProbe \/ ReadHeader \/ ReadPackage \/ DropProbe
           \/ NewKernel \/ LoadKernel
  <2>1. bootPc \in Before /\ bootPc' \in Before /\ UNCHANGED vars
    BY <1>1 DEF OpenNand, ReadPackageFile, OpenProbe, Opening, ReadHeader, ReadPackage, DropProbe,
                NewKernel, LoadKernel, Loading, At, Before, Early
  <2> QED
    BY <2>1, PhasesOneAndTwo
<1>2. CASE CallKernel
  <2>1. KernelCall /\ UNCHANGED services
    BY <1>2 DEF CallKernel
  <2>2. CASE At("step", "return") /\ Step
    <3>1. bootPc' = "return"
      BY <2>2 DEF At
    <3> QED
      BY <2>2, <3>1, StepIInv DEF Up, Early
  <2> QED
    BY <2>1, <2>2, KernelProcess, MenuProcess DEF KernelCall, KText, KStack, QText, QStack
<1>3. CASE StartServices
  <2>1. /\ bootPc = "services" /\ bootPc' = "ports" /\ services' = Services
        /\ UNCHANGED vars /\ KernelRuns /\ PortsUpTo(0)
    BY <1>3, EveryServiceStarts DEF StartServices, At, Up
  <2>2. KernelRuns' /\ PortsUpTo(0)'
    BY <2>1 DEF KernelRuns, KernelUp, OneThread, PortsUpTo, vars, objects, Live
  <2>3. 0 \in 0 .. Len(CorePorts)
    BY AddressAssumption
  <2>4. Up'
    BY <2>1, <2>2, <2>3 DEF Up, Early
  <2> QED
    BY <2>1, <2>4, SameKernel
<1>4. CASE RegisterNextPort
  <2>1. bootPc = "ports"
    BY <1>4 DEF RegisterNextPort, At
  <2>2. PICK m \in 0 .. Len(CorePorts) : PortsUpTo(m)
    BY <2>1 DEF Up
  <2>3. /\ m < Len(CorePorts) /\ PortsUpTo(m + 1)'
        /\ PortHandle(m + 1) \in PortHandles
        /\ RegisterPort(CorePorts[m + 1], PortHandle(m + 1))
        /\ bootPc' = IF m + 1 = Len(CorePorts) THEN "qcreate" ELSE "ports"
        /\ UNCHANGED services
    BY <1>4, <2>2, PortRegistered
  <2>4. IInv'
    BY <2>3, RegisterPortIInv
  <2>5. KernelRuns /\ services = Services
    BY <2>1 DEF Up
  <2>6. KernelRuns'
    BY <2>3, <2>5 DEF KernelRuns, KernelUp, OneThread, RegisterPort, Live
  <2>7. m + 1 \in 0 .. Len(CorePorts)
    BY <2>3, AddressAssumption
  <2>8. bootPc' = "ports" => \E n \in 0 .. Len(CorePorts) : PortsUpTo(n)'
    BY <2>3, <2>7
  <2>9. bootPc' = "qcreate" => AllServed'
    BY <2>3, <2>5 DEF AllServed
  <2>10. bootPc' \in {"ports", "qcreate"}
    BY <2>3
  <2>11. Up'
    BY <2>3, <2>5, <2>6, <2>8, <2>9, <2>10 DEF Up, Early
  <2> QED
    BY <2>4, <2>11
<1>5. CASE LoadQlaunch
  <2>1. /\ bootPc = "qload" /\ bootPc' \in {"qload", "qthread"}
        /\ UNCHANGED vars /\ UNCHANGED services
    BY <1>5 DEF LoadQlaunch, Loading, At
  <2>2. MenuAt(<<QText, QStack>>)'
    BY <2>1, ObjectsKept DEF Up
  <2>3. Up'
    BY <2>1, <2>2 DEF Up, Early
  <2> QED
    BY <2>1, <2>3, SameKernel
<1>6. CASE Return
  <2>1. bootPc' = "done" /\ NoKernel
    BY <1>6 DEF Return, At
  <2>2. NoObjects'
    BY <2>1 DEF NoKernel, NoObjects, PortsUpTo, Live
  <2>3. Up'
    BY <2>1, <2>2 DEF Up, Early
  <2> QED
    BY <2>1, <2>3, NewKernelIInv
<1> QED
  BY <1>1, <1>2, <1>3, <1>4, <1>5, <1>6 DEF BootStep

\* Its callers leave the kernel alone; when the program ends it goes, too.
LEMMA DesktopKeepsUp ==
    ASSUME DInv, IInv, Up, [DesktopNext]_desktop
    PROVE  IInv' /\ Up'
<1>1. CASE RunBoot
  BY <1>1, BootKeepsUp DEF RunBoot
<1>2. ASSUME bootPc \in Before, bootPc' \in Before, UNCHANGED vars
      PROVE  IInv' /\ Up'
  BY <1>2, PhasesOneAndTwo
<1>3. ASSUME UNCHANGED boot
      PROVE  IInv' /\ Up'
  BY <1>3, SameCall DEF boot, progress
<1>4. ASSUME NEW clicks \in SUBSET Jobs, DrawFrame(clicks)
      PROVE  IInv' /\ Up'
  <2>1. CASE "boot" \in clicks
    <3>1. bootPc = "off" /\ bootPc' = "nand" /\ UNCHANGED vars
      BY <1>4, <2>1 DEF DrawFrame, Call, At, TakeResult
    <3> QED
      BY <1>2, <3>1 DEF Before, Early
  <2>2. CASE "boot" \notin clicks
    <3>1. UNCHANGED <<vars, services, bootPc>>
      BY <1>4, <2>2 DEF DrawFrame, TakeResult, boot, progress
    <3> QED
      BY <3>1, SameCall
  <2> QED
    BY <2>1, <2>2
<1>5. CASE DrawSplash \/ BeginTests \/ EndTests \/ Pass \/ Start \/ ExitBoot \/ UNCHANGED desktop
  BY <1>3, <1>5 DEF DrawSplash, BeginTests, EndTests, Pass, Start, ExitBoot, desktop
<1>6. CASE ReturnFromBoot \/ PanicInBoot
  <2>1. bootPc \in Before /\ bootPc' \in Before /\ UNCHANGED vars
    BY <1>6 DEF ReturnFromBoot, ThreadReturns, PanicInBoot, PanicInNew, At, Before, Early
  <2> QED
    BY <1>2, <2>1
<1>7. CASE GoDown
  <2>1. bootPc' = "off" /\ NoKernel
    BY <1>7 DEF GoDown, Ended
  <2>2. NoObjects'
    BY <2>1 DEF NoKernel, NoObjects, PortsUpTo, Live
  <2>3. Up'
    BY <2>1, <2>2 DEF Up, Early
  <2> QED
    BY <2>1, <2>3, NewKernelIInv
<1> QED
  BY <1>1, <1>4, <1>5, <1>6, <1>7 DEF DesktopNext

LEMMA StartsDown == DesktopInit => IInv /\ Up
<1> SUFFICES ASSUME DesktopInit PROVE IInv /\ Up
  OBVIOUS
<1>1. Init /\ bootPc = "off"
  BY DEF DesktopInit, BootInit
<1>2. NoObjects
  BY <1>1 DEF Init, NoObjects, PortsUpTo, Live
<1> QED
  BY <1>1, <1>2, InitIInv DEF Up, Early

\* Four regions of memory, one after the other.
LEMMA RegionsApart ==
    /\ Encloses(KText, KERNEL_BASE) /\ KText.perm = "RX"
    /\ Encloses(QText, QLAUNCH_BASE) /\ QText.perm = "RX"
    /\ KStack.perm = "RW" /\ KStack.base + KStack.size = KERNEL_STACK_TOP
    /\ QStack.perm = "RW" /\ QStack.base + QStack.size = QLAUNCH_STACK_TOP
    /\ \A r, s \in {KText, KStack, QText, QStack} : r # s => Apart(r, s)
<1>1. /\ KERNEL_BASE \in Nat /\ QLAUNCH_BASE \in Nat
      /\ KERNEL_CODE_SIZE \in Nat \ {0} /\ QLAUNCH_CODE_SIZE \in Nat \ {0} /\ STACK_SIZE \in Nat
      /\ KERNEL_STACK_TOP <= QLAUNCH_BASE
  BY BootAssumption, AddressAssumption
<1>2. /\ KText.base = KERNEL_BASE /\ KText.size = KERNEL_CODE_SIZE /\ KText.perm = "RX"
      /\ QText.base = QLAUNCH_BASE /\ QText.size = QLAUNCH_CODE_SIZE /\ QText.perm = "RX"
      /\ KStack.base = KERNEL_BASE + KERNEL_CODE_SIZE /\ KStack.size = STACK_SIZE
      /\ QStack.base = QLAUNCH_BASE + QLAUNCH_CODE_SIZE /\ QStack.size = STACK_SIZE
      /\ KStack.perm = "RW" /\ QStack.perm = "RW"
  BY <1>1 DEF KText, KStack, QText, QStack, TextOf, StackUnder, Region, KERNEL_STACK_TOP,
              QLAUNCH_STACK_TOP
<1>3. Encloses(KText, KERNEL_BASE) /\ Encloses(QText, QLAUNCH_BASE)
  BY <1>1, <1>2 DEF Encloses
<1>4. /\ KStack.base + KStack.size = KERNEL_STACK_TOP
      /\ QStack.base + QStack.size = QLAUNCH_STACK_TOP
  BY <1>1, <1>2 DEF KERNEL_STACK_TOP, QLAUNCH_STACK_TOP
<1>5. /\ Apart(KText, KStack) /\ Apart(KText, QText) /\ Apart(KText, QStack)
      /\ Apart(KStack, QText) /\ Apart(KStack, QStack) /\ Apart(QText, QStack)
  BY <1>1, <1>2 DEF Apart, KERNEL_STACK_TOP
<1>6. \A r, s : Apart(r, s) => Apart(s, r)
  BY DEF Apart
<1> QED
  BY <1>2, <1>3, <1>4, <1>5, <1>6

LEMMA MenuRunsIsUp ==
    ASSUME IInv, MenuRuns, bootPc = "step"
    PROVE  SystemIsUp
<1>1. DOMAIN processes = {1, 2}
  BY DEF MenuRuns, IInv, TypeOK
<1>2. /\ processes[1].memoryMap = <<KText, KStack>>
      /\ processes[2].memoryMap = <<QText, QStack>>
  BY DEF MenuRuns, KernelUp, MenuUp, OneThread, Process
<1>3. Live = {<<1, 1>>, <<2, 1>>} /\ <<1, 1>>[1] = 1 /\ <<2, 1>>[1] = 2
  BY DEF MenuRuns
<1>4. /\ threads[<<1, 1>>].state = "Ready" /\ threads[<<2, 1>>].state = "Ready"
      /\ threads[<<1, 1>>].context.user.pc = KERNEL_BASE
      /\ threads[<<1, 1>>].context.user.sp = KERNEL_STACK_TOP
      /\ threads[<<2, 1>>].context.user.pc = QLAUNCH_BASE
      /\ threads[<<2, 1>>].context.user.sp = QLAUNCH_STACK_TOP
  BY DEF MenuRuns, KernelUp, MenuUp, OneThread, NewThread
<1>5. \A p \in DOMAIN processes : \E k \in Live : k[1] = p /\ threads[k].state = "Ready"
  BY <1>1, <1>3, <1>4
<1>6. ASSUME NEW k \in Live
      PROVE  LET user == threads[k].context.user
                 regions == Range(processes[k[1]].memoryMap)
             IN /\ \E r \in regions : r.perm = "RX" /\ Encloses(r, user.pc)
                /\ \E r \in regions : r.perm = "RW" /\ r.base + r.size = user.sp
  <2>1. \A a, b : a \in Range(<<a, b>>) /\ b \in Range(<<a, b>>)
    <3> SUFFICES ASSUME NEW a, NEW b PROVE a \in Range(<<a, b>>) /\ b \in Range(<<a, b>>)
      OBVIOUS
    <3>1. DOMAIN <<a, b>> = {1, 2} /\ <<a, b>>[1] = a /\ <<a, b>>[2] = b
      OBVIOUS
    <3> QED
      BY <3>1 DEF Range
  <2>2. CASE k = <<1, 1>>
    BY <1>2, <1>3, <1>4, <2>1, <2>2, RegionsApart
  <2>3. CASE k = <<2, 1>>
    BY <1>2, <1>3, <1>4, <2>1, <2>3, RegionsApart
  <2> QED
    BY <1>3, <2>2, <2>3
<1>7. ASSUME NEW p \in DOMAIN processes, NEW q \in DOMAIN processes,
             NEW i \in DOMAIN processes[p].memoryMap, NEW j \in DOMAIN processes[q].memoryMap,
             <<p, i>> # <<q, j>>
      PROVE  Apart(processes[p].memoryMap[i], processes[q].memoryMap[j])
  <2>1. \A r \in {1, 2} : DOMAIN processes[r].memoryMap = {1, 2}
    BY <1>2
  <2>2. /\ processes[1].memoryMap[1] = KText /\ processes[1].memoryMap[2] = KStack
        /\ processes[2].memoryMap[1] = QText /\ processes[2].memoryMap[2] = QStack
    BY <1>2
  <2>3. /\ p \in {1, 2} /\ q \in {1, 2} /\ i \in {1, 2} /\ j \in {1, 2} /\ (p # q \/ i # j)
    BY <1>1, <1>7, <2>1
  <2>4. \A r, s \in {KText, KStack, QText, QStack} : r # s => Apart(r, s)
    BY RegionsApart
  <2>5. KText # KStack /\ QText # QStack /\ KText # QText /\ KText # QStack
        /\ KStack # QText /\ KStack # QStack
    <3>1. /\ KERNEL_BASE \in Nat /\ QLAUNCH_BASE \in Nat
          /\ KERNEL_CODE_SIZE \in Nat \ {0} /\ QLAUNCH_CODE_SIZE \in Nat \ {0}
          /\ STACK_SIZE \in Nat /\ KERNEL_STACK_TOP <= QLAUNCH_BASE
      BY BootAssumption, AddressAssumption
    <3> QED
      BY <3>1 DEF KText, KStack, QText, QStack, TextOf, StackUnder, Region,
                  KERNEL_STACK_TOP, QLAUNCH_STACK_TOP
  <2> QED
    BY <2>2, <2>3, <2>4, <2>5
<1>8. DOMAIN namedPorts = Range(CorePorts) /\ IsInjective(namedPorts)
  <2>1. /\ DOMAIN namedPorts = {CorePorts[i] : i \in 1 .. Len(CorePorts)}
        /\ \A i \in 1 .. Len(CorePorts) : namedPorts[CorePorts[i]] = PortBase + i - 1
        /\ DOMAIN CorePorts = 1 .. Len(CorePorts)
    <3>1. PortsUpTo(Len(CorePorts))
      BY DEF MenuRuns, AllServed
    <3>2. DOMAIN CorePorts = 1 .. Len(CorePorts)
      BY AddressAssumption
    <3> QED BY <3>1, <3>2 DEF PortsUpTo, PortHandle
  <2>2. DOMAIN namedPorts = Range(CorePorts)
    BY <2>1 DEF Range
  <2>3. ASSUME NEW a \in DOMAIN namedPorts, NEW b \in DOMAIN namedPorts,
               namedPorts[a] = namedPorts[b]
        PROVE  a = b
    <3>1. PICK i \in 1 .. Len(CorePorts) : a = CorePorts[i]
      BY <2>1
    <3>2. PICK j \in 1 .. Len(CorePorts) : b = CorePorts[j]
      BY <2>1
    <3>3. PortBase + i - 1 = PortBase + j - 1 /\ PortBase \in Nat
      BY <2>1, <2>3, <3>1, <3>2, KernelAssumption
    <3> QED
      BY <3>1, <3>2, <3>3
  <2> QED
    BY <2>2, <2>3 DEF IsInjective
<1>9. services = Services /\ count_services(services) = Cardinality(Services)
  BY EveryServiceStarts DEF MenuRuns, AllServed
<1>10. NoPortIsThread
  <2>1. Cardinality(Live) <= 2
    <3>1. Cardinality({<<1, 1>>}) = 1 /\ IsFiniteSet({<<1, 1>>})
      BY FS_Singleton
    <3>2. Live = {<<1, 1>>} \cup {<<2, 1>>}
      BY <1>3
    <3> QED
      BY <3>1, <3>2, FS_AddElement
  <2>2. 2 <= PortBase - HandleBase
    BY AddressAssumption, KernelAssumption
  <2>3. Cardinality(Live) \in Nat
    BY FS_CardinalityType DEF IInv, HandlesCounted
  <2>4. Cardinality(Live) <= PortBase - HandleBase
    BY <2>1, <2>2, <2>3, KernelAssumption
  <2> QED
    BY <2>4, PortsApartHolds DEF PortsApart
<1> QED
  BY <1>5, <1>6, <1>7, <1>8, <1>9, <1>10 DEF SystemIsUp

\* Whatever image there is and whatever failed on the way, the system that is stepped once
\* is complete: two processes with a Ready thread each, in memory of their own, every port
\* under a handle that no thread has, every service started (boot.rs:121-203).
THEOREM SystemComesUp == DesktopSpec => []SystemIsUp
<1>1. IInv /\ Up => SystemIsUp
  <2>1. CASE bootPc = "step"
    BY <2>1, MenuRunsIsUp DEF Up
  <2>2. CASE bootPc # "step"
    BY <2>2 DEF SystemIsUp
  <2> QED
    BY <2>1, <2>2
<1>2. DInv /\ (IInv /\ Up) /\ [DesktopNext]_desktop => (IInv /\ Up)'
  BY DesktopKeepsUp
<1> QED
  BY <1>1, <1>2, StartsDown, DesktopInvariance, PTL DEF DesktopSpec

\* The calls of boot in the order it makes them.
CallNumber ==
    [nand |-> 1, image |-> 2, header |-> 3, package |-> 4, drop |-> 5, new |-> 6, load |-> 7,
     create |-> 8, text |-> 9, stack |-> 10, thread |-> 11, services |-> 12, ports |-> 13,
     qcreate |-> 14, qtext |-> 15, qstack |-> 16, qload |-> 17, qthread |-> 18, step |-> 19,
     return |-> 20, done |-> 21]

\* A step that brings boot closer to its end: to a later call, or to the next of the finitely
\* many chunks or ports of the one it is at.
Forward ==
    \/ CallNumber[bootPc'] > CallNumber[bootPc]
    \/ /\ bootPc' = bootPc
       /\ \/ bootPc = "load" /\ loaded < loaded' /\ loaded' <= Len(code)
          \/ bootPc = "qload" /\ loaded < loaded' /\ loaded' <= Len(stub_kernel)
          \/ /\ bootPc = "ports"
             /\ \E m \in 0 .. Len(CorePorts) : /\ m < Len(CorePorts)
                                              /\ PortsUpTo(m) /\ PortsUpTo(m + 1)'

BootGoesOn ==
    [][bootThread = "running" /\ bootThread' = "running" => UNCHANGED boot \/ Forward]_desktop

LEMMA ChunkGrows ==
    ASSUME NEW vaddr \in Nat, NEW bytes \in Seq(Byte), loaded \in 0 .. Len(bytes),
           LoadChunk(vaddr, bytes)
    PROVE  loaded < loaded' /\ loaded' <= Len(bytes)
<1>1. Len(bytes) \in Nat /\ loaded \in Nat /\ loaded < Len(bytes)
  BY LenProperties DEF LoadChunk
<1>2. loaded' = IF loaded + 4 <= Len(bytes) THEN loaded + 4 ELSE loaded + 1
  BY DEF LoadChunk
<1> HIDE DEF LoadChunk
<1> QED
  BY <1>1, <1>2

LEMMA BootStepsForward ==
    ASSUME DInv, Up, RunBoot
    PROVE  Forward
<1>1. CASE OpenNand
  <2>1. bootPc = "nand" /\ bootPc' \in {"image", "done"}
    BY <1>1 DEF OpenNand, Opening
  <2> QED
    BY <2>1 DEF Forward, CallNumber
<1>2. CASE ReadPackageFile \/ OpenProbe
  <2>1. bootPc = "image" /\ bootPc' \in {"header", "new"}
    BY <1>2 DEF ReadPackageFile, OpenProbe, Opening, At
  <2> QED
    BY <2>1 DEF Forward, CallNumber
<1>3. CASE ReadHeader
  <2>1. bootPc = "header" /\ bootPc' \in {"package", "drop"}
    BY <1>3 DEF ReadHeader
  <2> QED
    BY <2>1 DEF Forward, CallNumber
<1>4. CASE ReadPackage \/ DropProbe \/ NewKernel
  <2>1. \/ bootPc = "package" /\ bootPc' = "drop"
        \/ bootPc = "drop" /\ bootPc' = "new"
        \/ bootPc = "new" /\ bootPc' = "load"
    BY <1>4 DEF ReadPackage, DropProbe, NewKernel, At
  <2> QED
    BY <2>1 DEF Forward, CallNumber
<1>5. CASE LoadKernel
  <2>1. CASE At("load", "load") /\ LoadChunk(KERNEL_BASE, code)
    <3>1. bootPc = "load" /\ bootPc' = bootPc /\ code \in Seq(Byte) /\ KERNEL_BASE \in Nat
      BY <2>1, BootAssumption DEF At, DInv, Chosen
    <3>2. loaded \in 0 .. Len(code)
      BY <3>1 DEF DInv, Laid, Partly
    <3> QED
      BY <2>1, <3>1, <3>2, ChunkGrows DEF Forward
  <2>2. CASE At("load", "create")
    BY <2>2 DEF At, Forward, CallNumber
  <2> QED
    BY <1>5, <2>1, <2>2 DEF LoadKernel, Loading
<1>6. CASE CallKernel
  <2>1. \/ bootPc = "create" /\ bootPc' = "text"
        \/ bootPc = "text" /\ bootPc' = "stack"
        \/ bootPc = "stack" /\ bootPc' = "thread"
        \/ bootPc = "thread" /\ bootPc' = "services"
        \/ bootPc = "qcreate" /\ bootPc' = "qtext"
        \/ bootPc = "qtext" /\ bootPc' = "qstack"
        \/ bootPc = "qstack" /\ bootPc' = "qload"
        \/ bootPc = "qthread" /\ bootPc' = "step"
        \/ bootPc = "step" /\ bootPc' = "return"
    BY <1>6 DEF CallKernel, KernelCall, At
  <2> QED
    BY <2>1 DEF Forward, CallNumber
<1>7. CASE StartServices
  <2>1. bootPc = "services" /\ bootPc' = "ports"
    BY <1>7 DEF StartServices, At
  <2> QED
    BY <2>1 DEF Forward, CallNumber
<1>8. CASE RegisterNextPort
  <2>1. bootPc = "ports"
    BY <1>8 DEF RegisterNextPort, At
  <2>2. PICK m \in 0 .. Len(CorePorts) : PortsUpTo(m)
    BY <2>1 DEF Up
  <2>3. /\ m < Len(CorePorts) /\ PortsUpTo(m + 1)'
        /\ bootPc' \in {"qcreate", "ports"}
    BY <1>8, <2>2, PortRegistered
  <2>4. CASE bootPc' = "qcreate"
    BY <2>1, <2>4 DEF Forward, CallNumber
  <2>5. CASE bootPc' = "ports"
    BY <2>1, <2>2, <2>3, <2>5 DEF Forward
  <2> QED
    BY <2>3, <2>4, <2>5
<1>9. CASE LoadQlaunch
  <2>1. CASE At("qload", "qload") /\ LoadChunk(QLAUNCH_BASE, stub_kernel)
    <3>1. bootPc = "qload" /\ bootPc' = bootPc /\ QLAUNCH_BASE \in Nat
      BY <2>1, BootAssumption DEF At
    <3>2. loaded \in 0 .. Len(stub_kernel)
      BY <3>1 DEF DInv, Laid, Partly
    <3> QED
      BY <2>1, <3>1, <3>2, StubIsCode, ChunkGrows DEF Forward
  <2>2. CASE At("qload", "qthread")
    BY <2>2 DEF At, Forward, CallNumber
  <2> QED
    BY <1>9, <2>1, <2>2 DEF LoadQlaunch, Loading
<1>10. CASE Return
  <2>1. bootPc = "return" /\ bootPc' = "done"
    BY <1>10 DEF Return, At
  <2> QED
    BY <2>1 DEF Forward, CallNumber
<1> QED
  BY <1>1, <1>2, <1>3, <1>4, <1>5, <1>6, <1>7, <1>8, <1>9, <1>10 DEF RunBoot, BootStep

LEMMA OthersLeaveBoot ==
    ASSUME [DesktopNext]_desktop, ~RunBoot, bootThread = "running", bootThread' = "running"
    PROVE  UNCHANGED boot
<1>1. ASSUME NEW clicks \in SUBSET Jobs, DrawFrame(clicks)
      PROVE  UNCHANGED boot
  <2>1. BootLeft = "running" /\ bootThread # "finished"
    BY DEF BootLeft
  <2>2. "boot" \notin clicks
    BY <1>1, <2>1 DEF DrawFrame, Frame, Busy
  <2> QED
    BY <1>1, <2>1, <2>2 DEF DrawFrame
<1>2. CASE DrawSplash \/ BeginTests \/ EndTests \/ Pass \/ Start \/ ExitBoot \/ UNCHANGED desktop
  BY <1>2 DEF DrawSplash, BeginTests, EndTests, Pass, Start, ExitBoot, desktop
<1>3. CASE ReturnFromBoot \/ PanicInBoot \/ GoDown
  BY <1>3 DEF ReturnFromBoot, BootReturns, PanicInBoot, BootPanics, GoDown, PanickingFrame, Quit, Down
<1> QED
  BY <1>1, <1>2, <1>3 DEF DesktopNext

\* While the thread of a boot runs, boot never goes back or stands still of itself, and no
\* frame, click or test touches what it has done: each of its steps is a later call, or the
\* next chunk of the code or the next port, of which there are finitely many (boot, boot.rs:81,
\* and the loops of load_code, kernel.rs:203).
THEOREM BootComesToItsEnd == DesktopSpec => BootGoesOn
<1>1. ASSUME DInv, Up, [DesktopNext]_desktop
      PROVE  [bootThread = "running" /\ bootThread' = "running" => UNCHANGED boot \/ Forward]_desktop
  BY <1>1, BootStepsForward, OthersLeaveBoot
<1>2. DInv /\ (IInv /\ Up) /\ [DesktopNext]_desktop => (IInv /\ Up)'
  BY DesktopKeepsUp
<1>3. [](DInv /\ Up) /\ [][DesktopNext]_desktop => BootGoesOn
  BY <1>1, PTL DEF BootGoesOn
<1> QED
  BY <1>2, <1>3, StartsDown, DesktopInvariance, PTL DEF DesktopSpec

\* What was there with the first n bytes of the code in it.
Merged(before, vaddr, bytes, n) ==
    [a \in Addresses |-> IF vaddr <= a /\ a < vaddr + n THEN bytes[a - vaddr + 1] ELSE before[a]]

LEMMA MergedIsTyped ==
    ASSUME NEW before \in [Addresses -> Nat], NEW vaddr \in Nat, NEW bytes \in Seq(Byte),
           NEW n \in Nat, n <= Len(bytes)
    PROVE  Merged(before, vaddr, bytes, n) \in [Addresses -> Nat]
<1> SUFFICES ASSUME NEW a \in Addresses, vaddr <= a, a < vaddr + n
             PROVE  bytes[a - vaddr + 1] \in Nat
  BY DEF Merged
<1>1. a \in Nat /\ Len(bytes) \in Nat
  BY MemAssumption, LenProperties DEF Addresses
<1>2. a - vaddr + 1 \in 1 .. Len(bytes)
  BY <1>1
<1>3. bytes[a - vaddr + 1] \in Byte
  BY <1>2, ElementOfSeq
<1> QED
  BY <1>3, BootAssumption

\* Memory holds numbers, at every call of boot.
LEMMA MemoryIsTyped ==
    ASSUME DInv
    PROVE  mem \in [Addresses -> Nat] /\ loaded \in 0 .. Len(code) + Len(stub_kernel)
<1>1. /\ code \in Seq(Byte) /\ stub_kernel \in Seq(Byte) /\ Byte \subseteq Nat
      /\ Len(code) \in Nat /\ Len(stub_kernel) = 4
  BY StubIsCode, BootAssumption, LenProperties DEF DInv, Chosen
<1>3. /\ KERNEL_BASE \in Nat /\ QLAUNCH_BASE \in Nat
  BY BootAssumption
<1>4. Blank \in [Addresses -> Nat]
  BY DEF Blank
<1>5. KernelImage \in [Addresses -> Nat]
  <2>1. KernelImage = Merged(Blank, KERNEL_BASE, code, Len(code))
    BY DEF KernelImage, WithCode, Merged
  <2> QED
    BY <1>1, <1>3, <1>4, <2>1, MergedIsTyped
<1>6. WithCode(KernelImage, QLAUNCH_BASE, stub_kernel) \in [Addresses -> Nat]
  <2>1. WithCode(KernelImage, QLAUNCH_BASE, stub_kernel)
          = Merged(KernelImage, QLAUNCH_BASE, stub_kernel, Len(stub_kernel))
    BY DEF WithCode, Merged
  <2> DEFINE n == Len(stub_kernel)
  <2>2. n \in Nat /\ n <= Len(stub_kernel)
    BY <1>1
  <2> HIDE DEF n
  <2>3. Merged(KernelImage, QLAUNCH_BASE, stub_kernel, n) \in [Addresses -> Nat]
    BY <1>1, <1>3, <1>5, <2>2, MergedIsTyped
  <2> QED
    BY <2>1, <2>3 DEF n
<1>7. CASE bootPc \in Early
  BY <1>1, <1>4, <1>7 DEF DInv, Laid
<1>8. CASE bootPc \in KernelIn
  BY <1>1, <1>5, <1>8 DEF DInv, Laid
<1>9. CASE bootPc \in BothIn
  BY <1>1, <1>6, <1>9 DEF DInv, Laid
<1>10. CASE bootPc = "load"
  <2>1. Partly(Blank, KERNEL_BASE, code)
    BY <1>10 DEF DInv, Laid
  <2>2. loaded \in Nat /\ loaded <= Len(code)
    BY <1>1, <2>1 DEF Partly
  <2>3. mem \in [Addresses -> Nat]
    <3>1. mem = Merged(Blank, KERNEL_BASE, code, loaded)
      BY <2>1 DEF Partly, Merged
    <3> QED
      BY <1>1, <1>3, <1>4, <2>2, <3>1, MergedIsTyped
  <2> QED
    BY <1>1, <2>2, <2>3
<1>11. CASE bootPc = "qload"
  <2>1. Partly(KernelImage, QLAUNCH_BASE, stub_kernel)
    BY <1>11 DEF DInv, Laid
  <2>2. loaded \in Nat /\ loaded <= Len(stub_kernel)
    BY <1>1, <2>1 DEF Partly
  <2>3. mem \in [Addresses -> Nat]
    <3>1. mem = Merged(KernelImage, QLAUNCH_BASE, stub_kernel, loaded)
      BY <2>1 DEF Partly, Merged
    <3> QED
      BY <1>1, <1>3, <1>5, <2>2, <3>1, MergedIsTyped
  <2> QED
    BY <1>1, <2>2, <2>3
<1> QED
  BY <1>7, <1>8, <1>9, <1>10, <1>11 DEF DInv, Wired

\* Every variable of the desktop program keeps its shape, and the threads of the jobs and
\* what they leave behind never disagree (gui.rs, boot.rs, run.rs).
THEOREM DesktopTypeCorrect == DesktopSpec => []DesktopTypeOK
<1>1. DInv /\ (IInv /\ Up) /\ ReportIsRight => DesktopTypeOK
  <2> SUFFICES ASSUME DInv, IInv, ReportIsRight
               PROVE  DesktopTypeOK
    OBVIOUS
  <2>1. NoReport.passed + NoReport.unlucky = 0
    BY DEF NoReport
  <2>2. report # NoReport <=> testThread = "finished"
    BY <2>1 DEF ReportIsRight
  <2>3. GuiTypeOK /\ TypeOK
    BY DEF DInv, GuiInv, IInv
  <2> QED
    BY <2>2, <2>3, MemoryIsTyped DEF DInv, Wired, DesktopTypeOK
<1>2. DInv /\ (IInv /\ Up) /\ [DesktopNext]_desktop => (IInv /\ Up)'
  BY DesktopKeepsUp
<1>3. DInv /\ ReportIsRight /\ [DesktopNext]_desktop => ReportIsRight'
  BY ReportKeeps DEF DInv
<1>4. DesktopInit => ReportIsRight
  BY DEF DesktopInit, GuiInit, ReportIsRight
<1> QED
  BY <1>1, <1>2, <1>3, <1>4, StartsDown, DesktopInvariance, PTL DEF DesktopSpec
=================================================================================
