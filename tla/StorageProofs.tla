----------------------------- MODULE StorageProofs -----------------------------
(***************************************************************************)
(* Theorems about EmulatedStorage, for every block size, capacity, word    *)
(* size and set of handles.  The first half holds in builds that panic on  *)
(* overflow and in builds that wrap; the refinement of PartitionStore      *)
(* needs the checks.                                                       *)
(***************************************************************************)
EXTENDS Storage, SequenceTheorems, TLAPS

(* Words and ranges *)

\* The constants are natural numbers, and the capacity lies within the reach of a seek.
LEMMA Sizes ==
    /\ BlockSize \in Nat /\ TotalBlocks \in Nat /\ WordMod \in Nat
    /\ BlockSize > 0 /\ TotalBlocks > 0 /\ WordMod > 0
    /\ Capacity \in Nat /\ SeekLimit \in Nat
    /\ Capacity <= SeekLimit
    /\ 2 * SeekLimit <= WordMod
    /\ Capacity < WordMod
<1>1. Capacity \in Nat
  BY StorageAssumption, SMT DEF Capacity
<1>2. SeekLimit \in Nat /\ 2 * SeekLimit <= WordMod /\ SeekLimit < WordMod
  BY StorageAssumption, SMT DEF SeekLimit
<1> QED BY <1>1, <1>2, StorageAssumption

\* A word is below WordMod whatever it was computed from, and is what was computed
\* unless that left the word.
LEMMA WrappedFacts ==
    ASSUME NEW n \in Nat
    PROVE  /\ Wrapped(n) \in Nat
           /\ Wrapped(n) < WordMod
           /\ n < WordMod => Wrapped(n) = n
           /\ \E q \in Nat : n = q * WordMod + Wrapped(n)
<1>1. WordMod \in Nat /\ WordMod > 0
  BY Sizes
<1>2. /\ n % WordMod \in Nat
      /\ n % WordMod < WordMod
      /\ n \div WordMod \in Nat
      /\ n = (n \div WordMod) * WordMod + (n % WordMod)
      /\ n < WordMod => n % WordMod = n
  BY <1>1, SMT
<1> QED BY <1>2 DEF Wrapped

\* What passes the bounds check of the byte calls and the host's limit on seeks is
\* inside the device or partition, wrapped or not (read_bytes, write_bytes).
LEMMA BytesInside ==
    ASSUME NEW off \in Nat, NEW n \in Nat, NEW limit \in Nat,
           off < SeekLimit, n < SeekLimit, BytesVerdict(off, n, limit) = "ok"
    PROVE  off + n <= limit
<1>1. off + n < WordMod
  BY Sizes
<1>2. Wrapped(off + n) = off + n
  BY <1>1, WrappedFacts
<1> QED BY <1>2, Sizes DEF BytesVerdict

\* The same of the block calls: the product and the sum may both have wrapped, but
\* the words they leave differ from the true range by a multiple of WordMod, and the
\* limits on seeks and buffers leave only the multiple 0 (read_blocks, write_blocks).
LEMMA BlocksInside ==
    ASSUME NEW start \in Nat, NEW count \in Nat, NEW room \in Nat,
           Wrapped(start * BlockSize) < SeekLimit, room < SeekLimit,
           BlocksVerdict(start, count, room) = "ok"
    PROVE  /\ Wrapped(count * BlockSize) <= room
           /\ Wrapped(start * BlockSize) + Wrapped(count * BlockSize) <= Capacity
<1> DEFINE off == Wrapped(start * BlockSize)
           size == Wrapped(count * BlockSize)
           last == Wrapped(start + count)
<1>1. /\ start * BlockSize \in Nat /\ count * BlockSize \in Nat /\ start + count \in Nat
      /\ BlockSize \in Nat /\ WordMod \in Nat /\ WordMod > 0 /\ TotalBlocks \in Nat
  BY Sizes, SMT
<1>2. off \in Nat /\ size \in Nat /\ last \in Nat /\ size < WordMod
  BY <1>1, WrappedFacts
<1>3. size <= room /\ last <= TotalBlocks
  BY <1>1, <1>2 DEF BlocksVerdict
<1>4. off + size < WordMod
  BY <1>2, <1>3, Sizes
<1>5. last * BlockSize <= Capacity /\ last * BlockSize \in Nat
  BY <1>1, <1>2, <1>3, SMT DEF Capacity
<1>6. PICK a \in Nat : start * BlockSize = a * WordMod + off
  BY <1>1, WrappedFacts
<1>7. PICK b \in Nat : count * BlockSize = b * WordMod + size
  BY <1>1, WrappedFacts
<1>8. PICK c \in Nat : start + count = c * WordMod + last
  BY <1>1, WrappedFacts
<1> HIDE DEF off, size, last
<1>9. PICK k \in Int : off + size - last * BlockSize = k * WordMod
  <2>1. (start + count) * BlockSize = start * BlockSize + count * BlockSize
    BY <1>1, SMT
  <2>2. (start + count) * BlockSize = (c * BlockSize) * WordMod + last * BlockSize
    BY <1>1, <1>2, <1>8, SMT
  <2>3. (a + b) * WordMod + off + size = (c * BlockSize) * WordMod + last * BlockSize
    BY <2>1, <2>2, <1>1, <1>2, <1>6, <1>7, SMT
  <2>4. c * BlockSize \in Nat
    BY <1>1, SMT
  <2>5. c * BlockSize - a - b \in Int
    BY <2>4
  <2>6. off + size - last * BlockSize = (c * BlockSize - a - b) * WordMod
    BY <2>3, <2>4, <1>1, <1>2, <1>5, SMT
  <2> QED BY <2>5, <2>6
<1>10. k * WordMod < WordMod /\ -WordMod < k * WordMod
  BY <1>2, <1>4, <1>5, <1>9, Sizes
<1>11. k = 0
  BY <1>1, <1>10, SMT
<1>12. off + size = last * BlockSize
  BY <1>2, <1>5, <1>9, <1>11, <1>1
<1> QED BY <1>3, <1>5, <1>12 DEF off, size
-------------------------------------------------------------------------------
(* The host file *)

\* A buffer laid over a range inside the file keeps its length and every byte
\* outside the range.
LEMMA OverlayInside ==
    ASSUME NEW f \in Seq(Byte), NEW buf \in Seq(Byte), NEW off \in Nat,
           off + Len(buf) <= Len(f)
    PROVE  /\ Overlay(f, off, buf) \in Seq(Byte)
           /\ Len(Overlay(f, off, buf)) = Len(f)
           /\ \A i \in 1 .. Len(f) :
                Overlay(f, off, buf)[i] =
                  IF off < i /\ i <= off + Len(buf) THEN buf[i - off] ELSE f[i]
<1>1. CASE buf = <<>>
  BY <1>1 DEF Overlay
<1>2. CASE buf # <<>>
  <2> DEFINE g == [i \in 1 .. Len(f) |->
                     IF off < i /\ i <= off + Len(buf) THEN buf[i - off] ELSE f[i]]
  <2>1. Len(f) \in Nat /\ Len(buf) \in Nat /\ DOMAIN f = 1 .. Len(f)
    BY LenProperties
  <2>2. (DOMAIN f) \cup (1 .. off + Len(buf)) = 1 .. Len(f)
    BY <2>1
  <2>3. Overlay(f, off, buf) = g
    BY <1>2, <2>1, <2>2 DEF Overlay
  <2>4. \A i \in 1 .. Len(f) : off < i /\ i <= off + Len(buf) => i - off \in 1 .. Len(buf)
    BY <2>1
  <2>5. \A i \in 1 .. Len(f) : g[i] \in Byte
    BY <2>1, <2>4, ElementOfSeq
  <2>6. g \in Seq(Byte) /\ Len(g) = Len(f)
    BY <2>1, <2>5
  <2> QED BY <2>3, <2>6
<1> QED BY <1>1, <1>2

\* The first n bytes of a buffer.
LEMMA PrefixFacts ==
    ASSUME NEW buf \in Seq(Byte), NEW n \in 0 .. Len(buf)
    PROVE  /\ SubSeq(buf, 1, n) \in Seq(Byte)
           /\ Len(SubSeq(buf, 1, n)) = n
           /\ \A i \in 1 .. n : SubSeq(buf, 1, n)[i] = buf[i]
<1>1. Len(buf) \in Nat /\ \A i \in 1 .. n : buf[i] \in Byte
  BY LenProperties, ElementOfSeq
<1>2. /\ SubSeq(buf, 1, n) \in Seq(Byte)
      /\ Len(SubSeq(buf, 1, n)) = (IF 1 <= n THEN n - 1 + 1 ELSE 0)
      /\ \A i \in 1 .. n - 1 + 1 : SubSeq(buf, 1, n)[i] = buf[1 + i - 1]
  BY <1>1, SubSeqProperties
<1> QED BY <1>1, <1>2

\* Extending a file keeps its bytes and gives it at least the capacity (open).
LEMMA ExtendedFacts ==
    ASSUME NEW f \in Seq(Byte)
    PROVE  /\ Extended(f) \in Seq(Byte)
           /\ Len(Extended(f)) >= Capacity
           /\ \/ Len(Extended(f)) = Len(f)
              \/ Len(f) < Capacity /\ Len(Extended(f)) = Capacity
           /\ \A i \in 1 .. Len(f) : Extended(f)[i] = f[i]
           /\ \A i \in 1 .. Len(Extended(f)) : i > Len(f) => Extended(f)[i] = 0
<1>1. Len(f) \in Nat /\ DOMAIN f = 1 .. Len(f) /\ Capacity \in Nat
  BY LenProperties, Sizes
<1>2. CASE Len(f) < Capacity
  <2> DEFINE g == [i \in 1 .. Capacity |-> IF i \in DOMAIN f THEN f[i] ELSE 0]
  <2>1. Extended(f) = g
    BY <1>2 DEF Extended
  <2>2. \A i \in 1 .. Capacity : g[i] \in Byte
    BY <1>1, ElementOfSeq, StorageAssumption
  <2>3. g \in Seq(Byte) /\ Len(g) = Capacity
    BY <1>1, <2>2
  <2>4. \A i \in 1 .. Capacity : g[i] = IF i \in 1 .. Len(f) THEN f[i] ELSE 0
    BY <1>1
  <2> HIDE DEF g
  <2>5. \A i \in 1 .. Len(f) : i \in 1 .. Capacity
    BY <1>1, <1>2
  <2>6. Len(g) >= Capacity
    BY <1>1, <2>3
  <2>7. \A i \in 1 .. Len(f) : g[i] = f[i]
    BY <2>4, <2>5
  <2>8. \A i \in 1 .. Len(g) : i > Len(f) => g[i] = 0
    BY <1>1, <2>3, <2>4
  <2> QED BY <1>2, <2>1, <2>3, <2>6, <2>7, <2>8
<1>3. CASE ~(Len(f) < Capacity)
  BY <1>1, <1>3 DEF Extended
<1> QED BY <1>2, <1>3

Statuses == {"ok", "io", "protected", "invalid", "panic"}

\* What every read and write leaves alone.
Harmless ==
    /\ UNCHANGED <<exists, mode, wp>>
    /\ image' \in Seq(Byte)
    /\ Len(image') = Len(image)
    /\ \A i \in Capacity + 1 .. Len(image) : image'[i] = image[i]
    /\ (\A h \in Handles : mode[h] # "rw" \/ wp[h]) => image' = image
    /\ reply'.status \in Statuses /\ reply'.data \in Seq(Byte)

\* A refused call answers with an error and changes nothing.
LEMMA RefuseHarmless ==
    ASSUME NEW status \in Statuses, Refuse(status), TypeOK, UNCHANGED <<exists, mode, wp>>
    PROVE  Harmless
BY DEF Refuse, TypeOK, Harmless, Statuses

\* A read of the host changes nothing.
LEMMA HostReadHarmless ==
    ASSUME TypeOK, UNCHANGED <<exists, mode, wp>>,
           NEW off \in Nat, NEW n \in Nat, HostRead(off, n)
    PROVE  Harmless
<1>1. CASE Refuse("io")
  BY <1>1, RefuseHarmless DEF Statuses
<1>2. CASE ~Refuse("io")
  <2>1. image' = image
    BY <1>2 DEF HostRead
  <2>2. reply' = [status |-> "ok", data |-> SubSeq(image, off + 1, off + n)]
    BY <1>2 DEF HostRead
  <2>3. n = 0 \/ off + n <= Len(image)
    BY <1>2 DEF HostRead
  <2>4. image \in Seq(Byte) /\ Len(image) \in Nat
    BY LenProperties DEF TypeOK
  <2>5. \A i \in off + 1 .. off + n : i \in 1 .. Len(image)
    BY <2>3, <2>4
  <2>6. \A i \in off + 1 .. off + n : image[i] \in Byte
    BY <2>4, <2>5, ElementOfSeq
  <2>7. off + 1 \in Int /\ off + n \in Int
    OBVIOUS
  <2>8. SubSeq(image, off + 1, off + n) \in Seq(Byte)
    BY <2>6, <2>7, SubSeqProperties
  <2> QED BY <2>1, <2>2, <2>4, <2>8 DEF Harmless, Statuses
<1> QED BY <1>1, <1>2

\* A write to the host inside the device keeps the length of the file, and changes
\* no byte unless the handle was opened for writing.
LEMMA HostWriteHarmless ==
    ASSUME TypeOK, OpenIsFull, UNCHANGED <<exists, mode, wp>>,
           NEW h \in Handles, mode[h] # "closed", ~wp[h],
           NEW off \in Nat, NEW buf \in Seq(Byte),
           off < SeekLimit => off + Len(buf) <= Capacity,
           HostWrite(h, off, buf)
    PROVE  Harmless
<1>1. CASE Refuse("io")
  BY <1>1, RefuseHarmless DEF Statuses
<1>2. CASE ~Refuse("io")
  <2>1. off < SeekLimit
    BY <1>2 DEF HostWrite
  <2>2. PICK n \in 0 .. Len(buf) :
          /\ n > 0 => mode[h] = "rw"
          /\ image' = Overlay(image, off, SubSeq(buf, 1, n))
          /\ reply' = [status |-> IF n = Len(buf) THEN "ok" ELSE "io", data |-> <<>>]
    BY <1>2 DEF HostWrite
  <2>3. image \in Seq(Byte) /\ Len(image) \in Nat /\ Len(buf) \in Nat
    BY LenProperties DEF TypeOK
  <2>4. Capacity \in Nat /\ Capacity <= Len(image)
    BY Sizes DEF OpenIsFull
  <2>5. SubSeq(buf, 1, n) \in Seq(Byte) /\ Len(SubSeq(buf, 1, n)) = n
    BY PrefixFacts
  <2>6. off + n <= Capacity /\ off + n <= Len(image)
    BY <2>1, <2>3, <2>4
  <2>7. /\ image' \in Seq(Byte) /\ Len(image') = Len(image)
        /\ \A i \in 1 .. Len(image) :
             image'[i] = IF off < i /\ i <= off + n THEN SubSeq(buf, 1, n)[i - off]
                                                    ELSE image[i]
    <3> DEFINE prefix == SubSeq(buf, 1, n)
    <3>1. prefix \in Seq(Byte) /\ Len(prefix) = n /\ image' = Overlay(image, off, prefix)
      BY <2>2, <2>5
    <3> HIDE DEF prefix
    <3>2. image \in Seq(Byte) /\ off + Len(prefix) <= Len(image)
      BY <2>3, <2>6, <3>1
    <3>3. /\ Overlay(image, off, prefix) \in Seq(Byte)
          /\ Len(Overlay(image, off, prefix)) = Len(image)
          /\ \A i \in 1 .. Len(image) :
               Overlay(image, off, prefix)[i] =
                 IF off < i /\ i <= off + Len(prefix) THEN prefix[i - off] ELSE image[i]
      BY <3>1, <3>2, OverlayInside, Zenon
    <3>4. /\ image' \in Seq(Byte) /\ Len(image') = Len(image)
          /\ \A i \in 1 .. Len(image) :
               image'[i] = IF off < i /\ i <= off + n THEN prefix[i - off] ELSE image[i]
      BY <3>1, <3>3, Zenon
    <3> QED BY <3>4 DEF prefix
  <2>8. \A i \in Capacity + 1 .. Len(image) : image'[i] = image[i]
    BY <2>3, <2>4, <2>6, <2>7
  <2>9. (\A j \in Handles : mode[j] # "rw" \/ wp[j]) => image' = image
    <3> SUFFICES ASSUME \A j \in Handles : mode[j] # "rw" \/ wp[j]
                 PROVE  image' = image
      OBVIOUS
    <3>1. n = 0
      BY <2>2, <2>3
    <3>2. \A i \in 1 .. Len(image) : image'[i] = image[i]
      BY <2>3, <2>7, <3>1
    <3> QED BY <2>3, <2>7, <3>2, SeqEqual
  <2>10. reply'.status \in Statuses /\ reply'.data \in Seq(Byte)
    BY <2>2 DEF Statuses
  <2> QED BY <2>7, <2>8, <2>9, <2>10 DEF Harmless
<1> QED BY <1>1, <1>2
-------------------------------------------------------------------------------
(* The calls *)

\* A call leaves everything but the image, the request and the reply alone.
LEMMA AskFacts ==
    ASSUME NEW h, NEW op, NEW area, NEW off, NEW len, NEW fits, NEW buf,
           Ask(h, op, area, off, len, fits, buf)
    PROVE  mode[h] # "closed" /\ UNCHANGED <<exists, mode, wp>>
BY DEF Ask, handles

\* Words and buffers are natural numbers and sequences of bytes, the buffers shorter
\* than the reach of a seek.
LEMMA ArgumentFacts ==
    /\ \A w \in Words : w \in Nat
    /\ \A buf \in Buffers : buf \in Seq(Byte) /\ Len(buf) \in Nat /\ Len(buf) < SeekLimit
    /\ \A n \in Lengths : n \in Nat /\ n < SeekLimit
<1>1. \A w \in Words : w \in Nat
  BY StorageAssumption, Sizes
<1>2. \A buf \in Buffers : buf \in Seq(Byte) /\ Len(buf) \in Nat /\ Len(buf) < SeekLimit
  BY StorageAssumption, LenProperties
<1> QED BY <1>1, <1>2 DEF Lengths

\* The verdicts are statuses of a reply.
LEMMA VerdictTypes ==
    /\ \A off, n, limit : BytesVerdict(off, n, limit) \in Statuses
    /\ \A start, count, room : BlocksVerdict(start, count, room) \in Statuses
BY DEF BytesVerdict, BlocksVerdict, Statuses

\* read_bytes and write_bytes at any word, as the callers and as Nand use them.
LEMMA BytesHarmless ==
    ASSUME TypeOK, OpenIsFull, UNCHANGED <<exists, mode, wp>>,
           NEW h \in Handles, mode[h] # "closed", NEW off \in Nat
    PROVE  /\ \A n \in Lengths : BytesRead(off, n) => Harmless
           /\ \A buf \in Buffers : BytesWritten(h, off, buf) => Harmless
<1>1. ASSUME NEW n \in Lengths, BytesRead(off, n)
      PROVE  Harmless
  BY <1>1, ArgumentFacts, VerdictTypes, HostReadHarmless, RefuseHarmless DEF BytesRead
<1>2. ASSUME NEW buf \in Buffers, BytesWritten(h, off, buf)
      PROVE  Harmless
  <2>1. buf \in Seq(Byte) /\ Len(buf) \in Nat /\ Len(buf) < SeekLimit /\ Capacity \in Nat
    BY ArgumentFacts, Sizes
  <2>2. CASE wp[h]
    BY <1>2, <2>2, RefuseHarmless DEF BytesWritten, Statuses
  <2>3. CASE ~wp[h] /\ BytesVerdict(off, Len(buf), Capacity) # "ok"
    BY <1>2, <2>3, VerdictTypes, RefuseHarmless DEF BytesWritten
  <2>4. CASE ~wp[h] /\ BytesVerdict(off, Len(buf), Capacity) = "ok"
    <3>1. HostWrite(h, off, buf)
      BY <1>2, <2>4 DEF BytesWritten
    <3>2. off < SeekLimit => off + Len(buf) <= Capacity
      BY <2>1, <2>4, BytesInside
    <3> QED BY <2>1, <2>4, <3>1, <3>2, HostWriteHarmless
  <2> QED BY <2>2, <2>3, <2>4
<1> QED BY <1>1, <1>2

\* The calls that read.
LEMMA ReadHarmless ==
    ASSUME TypeOK, OpenIsFull, NEW h \in Handles, NEW w \in Words, NEW n \in Lengths
    PROVE  /\ ReadBlock(h, w, n) => Harmless
           /\ \A count \in Words : ReadBlocks(h, w, count, n) => Harmless
           /\ ReadBytes(h, w, n) => Harmless
<1>1. w \in Nat /\ n \in Nat /\ BlockSize \in Nat
  BY ArgumentFacts, Sizes
<1>2. ASSUME ReadBlock(h, w, n)
      PROVE  Harmless
  <2>1. w * BlockSize \in Nat
    BY <1>1, SMT
  <2> QED BY <1>1, <1>2, <2>1, AskFacts, HostReadHarmless, RefuseHarmless DEF ReadBlock, Statuses
<1>3. ASSUME NEW count \in Words, ReadBlocks(h, w, count, n)
      PROVE  Harmless
  <2>1. w * BlockSize \in Nat /\ count * BlockSize \in Nat
    BY <1>1, ArgumentFacts, SMT
  <2>2. Wrapped(w * BlockSize) \in Nat /\ Wrapped(count * BlockSize) \in Nat
    BY <2>1, WrappedFacts
  <2>3. UNCHANGED <<exists, mode, wp>>
    BY <1>3, AskFacts DEF ReadBlocks
  <2> QED BY <1>3, <2>2, <2>3, VerdictTypes, HostReadHarmless, RefuseHarmless DEF ReadBlocks
<1>4. ASSUME ReadBytes(h, w, n)
      PROVE  Harmless
  BY <1>1, <1>4, AskFacts, BytesHarmless DEF ReadBytes
<1> QED BY <1>2, <1>3, <1>4

\* The calls that write.
LEMMA WriteHarmless ==
    ASSUME TypeOK, OpenIsFull, NEW h \in Handles, NEW w \in Words, NEW buf \in Buffers
    PROVE  /\ WriteBlock(h, w, buf) => Harmless
           /\ \A count \in Words : WriteBlocks(h, w, count, buf) => Harmless
           /\ WriteBytes(h, w, buf) => Harmless
<1>1. /\ w \in Nat /\ BlockSize \in Nat /\ TotalBlocks \in Nat /\ Capacity \in Nat
      /\ buf \in Seq(Byte) /\ Len(buf) \in Nat /\ Len(buf) < SeekLimit
  BY ArgumentFacts, Sizes
<1>2. ASSUME WriteBlock(h, w, buf)
      PROVE  Harmless
  <2>1. w * BlockSize \in Nat
    BY <1>1, SMT
  <2>2. mode[h] # "closed" /\ UNCHANGED <<exists, mode, wp>>
    BY <1>2, AskFacts DEF WriteBlock
  <2>3. CASE ~wp[h] /\ Len(buf) = BlockSize /\ w < TotalBlocks
    <3>1. w * BlockSize + Len(buf) <= Capacity
      <4>1. (w + 1) * BlockSize <= TotalBlocks * BlockSize
        BY <1>1, <2>3, SMT
      <4>2. (w + 1) * BlockSize = w * BlockSize + BlockSize
        BY <1>1, SMT
      <4>3. Capacity = TotalBlocks * BlockSize
        BY <1>1, SMT DEF Capacity
      <4> QED BY <4>1, <4>2, <4>3, <2>1, <2>3, <1>1
    <3>2. HostWrite(h, w * BlockSize, buf)
      BY <1>2, <2>3 DEF WriteBlock
    <3> QED BY <1>1, <2>1, <2>2, <2>3, <3>1, <3>2, HostWriteHarmless
  <2>4. CASE ~(~wp[h] /\ Len(buf) = BlockSize /\ w < TotalBlocks)
    BY <1>2, <2>2, <2>4, RefuseHarmless DEF WriteBlock, Statuses
  <2> QED BY <2>3, <2>4
<1>3. ASSUME NEW count \in Words, WriteBlocks(h, w, count, buf)
      PROVE  Harmless
  <2> DEFINE off == Wrapped(w * BlockSize)
             size == Wrapped(count * BlockSize)
             verdict == BlocksVerdict(w, count, Len(buf))
  <2>1. w * BlockSize \in Nat /\ count * BlockSize \in Nat /\ count \in Nat
    BY <1>1, ArgumentFacts, SMT
  <2>2. off \in Nat /\ size \in Nat
    BY <2>1, WrappedFacts
  <2>3. mode[h] # "closed" /\ UNCHANGED <<exists, mode, wp>>
    BY <1>3, AskFacts DEF WriteBlocks
  <2>4. CASE ~wp[h] /\ verdict = "ok"
    <3>1. size <= Len(buf)
      BY <1>1, <2>2, <2>4 DEF BlocksVerdict
    <3>2. size \in 0 .. Len(buf)
      BY <3>1, <2>2, <1>1
    <3>3. SubSeq(buf, 1, size) \in Seq(Byte) /\ Len(SubSeq(buf, 1, size)) = size
      BY <1>1, <3>2, PrefixFacts
    <3>4. off < SeekLimit => off + size <= Capacity
      BY <1>1, <2>1, <2>4, BlocksInside
    <3>5. HostWrite(h, off, SubSeq(buf, 1, size))
      BY <1>3, <2>4 DEF WriteBlocks
    <3> HIDE DEF off, size
    <3> QED BY <2>2, <2>3, <2>4, <3>3, <3>4, <3>5, HostWriteHarmless
  <2>5. CASE ~(~wp[h] /\ verdict = "ok")
    BY <1>3, <2>3, <2>5, VerdictTypes, RefuseHarmless DEF WriteBlocks, Statuses
  <2> QED BY <2>4, <2>5
<1>4. ASSUME WriteBytes(h, w, buf)
      PROVE  Harmless
  BY <1>1, <1>4, AskFacts, BytesHarmless DEF WriteBytes
<1> QED BY <1>2, <1>3, <1>4
-------------------------------------------------------------------------------
(* The invariants and the action properties, with and without overflow checks *)

SInv == TypeOK /\ OpenIsFull

\* A device before its first open.
LEMMA InitSInv == Init => SInv
<1> SUFFICES ASSUME Init PROVE SInv
  OBVIOUS
<1>1. image \in Seq(Byte) /\ Len(image) \in ImageSizes \cup {0, Capacity}
      /\ (~exists => image = <<>>) /\ exists \in BOOLEAN
  <2>1. CASE exists = FALSE /\ image = <<>>
    BY <2>1, EmptySeq
  <2>2. CASE exists = TRUE /\ \E n \in ImageSizes : image \in [1 .. n -> Byte]
    <3>1. PICK n \in ImageSizes : image \in [1 .. n -> Byte]
      BY <2>2
    <3>2. n \in Nat
      BY StorageAssumption
    <3>3. image \in Seq(Byte) /\ Len(image) = n
      BY <3>1, <3>2
    <3> QED BY <2>2, <3>3
  <2> QED BY <2>1, <2>2 DEF Init
<1>2. TypeOK
  BY <1>1 DEF Init, TypeOK
<1>3. OpenIsFull
  BY DEF Init, OpenIsFull
<1> QED BY <1>2, <1>3 DEF SInv

\* Opening, closing and protecting keep the invariant, the bytes of the file, and its
\* end unless it is short of the capacity.
LEMMA HousekeepingFacts ==
    ASSUME SInv, Housekeeping
    PROVE  /\ SInv'
           /\ \/ Len(image') = Len(image)
              \/ Len(image) < Capacity /\ Len(image') = Capacity
           /\ \A i \in DOMAIN image : image'[i] = image[i]
           /\ UNCHANGED <<request, reply>>
           /\ image' = image \/ image' = Extended(image)
<1>1. image \in Seq(Byte) /\ Len(image) \in Nat /\ Capacity \in Nat
      /\ DOMAIN image = 1 .. Len(image)
  BY LenProperties, Sizes DEF SInv, TypeOK
<1>2. PICK h \in Handles :
        Open(h) \/ OpenReadOnly(h) \/ Close(h) \/ \E flag \in BOOLEAN : SetWriteProtected(h, flag)
  BY DEF Housekeeping
<1>3. CASE Open(h)
  <2>1. CASE UNCHANGED <<image, handles>>
    BY <1>1, <1>3, <2>1 DEF Open, handles, SInv, TypeOK, OpenIsFull
  <2>2. CASE ~UNCHANGED <<image, handles>>
    <3>1. /\ exists' = TRUE /\ image' = Extended(image)
          /\ mode' = [mode EXCEPT ![h] = "rw"] /\ wp' = [wp EXCEPT ![h] = FALSE]
          /\ UNCHANGED <<request, reply>>
      BY <1>3, <2>2 DEF Open
    <3> DEFINE longer == Extended(image)
    <3>2. /\ longer \in Seq(Byte) /\ Len(longer) >= Capacity
          /\ \/ Len(longer) = Len(image)
             \/ Len(image) < Capacity /\ Len(longer) = Capacity
          /\ \A i \in DOMAIN image : longer[i] = image[i]
      BY <1>1, ExtendedFacts, SMTT(30)
    <3> HIDE DEF longer
    <3>3. TypeOK'
      BY <3>1, <3>2 DEF SInv, TypeOK, longer
    <3>4. OpenIsFull'
      BY <3>1, <3>2 DEF OpenIsFull, longer
    <3> QED BY <3>1, <3>2, <3>3, <3>4 DEF SInv, longer
  <2> QED BY <2>1, <2>2, SMTT(30)
<1>4. CASE OpenReadOnly(h)
  BY <1>1, <1>4, ZenonT(40) DEF OpenReadOnly, SInv, TypeOK, OpenIsFull
<1>5. CASE Close(h)
  BY <1>1, <1>5, ZenonT(40) DEF Close, SInv, TypeOK, OpenIsFull
<1>6. CASE \E flag \in BOOLEAN : SetWriteProtected(h, flag)
  <2>1. PICK flag \in BOOLEAN : SetWriteProtected(h, flag)
    BY <1>6
  <2>2. wp' \in [Handles -> BOOLEAN]
    BY <2>1, Zenon DEF SetWriteProtected, SInv, TypeOK
  <2>3. UNCHANGED <<exists, image, mode, request, reply>>
    BY <2>1 DEF SetWriteProtected
  <2> QED BY <1>1, <2>2, <2>3 DEF SInv, TypeOK, OpenIsFull
<1> QED BY <1>2, <1>3, <1>4, <1>5, <1>6

\* A read or write keeps the invariant.
LEMMA HarmlessSInv ==
    ASSUME SInv, Harmless
    PROVE  SInv'
<1>1. image' = <<>> \/ exists'
  <2>1. CASE exists
    BY <2>1 DEF Harmless
  <2>2. CASE ~exists
    <3>1. image = <<>> /\ Len(image) = 0
      BY <2>2 DEF SInv, TypeOK
    <3>2. Len(image') = 0 /\ image' \in Seq(Byte)
      BY <3>1 DEF Harmless
    <3> QED BY <3>2, EmptySeq
  <2> QED BY <2>1, <2>2
<1> QED BY <1>1 DEF SInv, TypeOK, OpenIsFull, Harmless, Statuses

\* Every step is housekeeping, or a read or write.
LEMMA StepIsHarmless ==
    ASSUME SInv, Next
    PROVE  Housekeeping \/ Harmless
BY ReadHarmless, WriteHarmless DEF Next, SInv

\* The invariant of the storage.
LEMMA StorageInvariance == Spec => []SInv
<1>1. Init => SInv
  BY InitSInv
<1>2. SInv /\ [Next]_vars => SInv'
  <2>1. ASSUME SInv, Next PROVE SInv'
    BY <2>1, StepIsHarmless, HousekeepingFacts, HarmlessSInv
  <2>2. ASSUME SInv, UNCHANGED vars PROVE SInv'
    BY <2>2 DEF vars, handles, SInv, TypeOK, OpenIsFull
  <2> QED BY <2>1, <2>2
<1> QED BY <1>1, <1>2, PTL DEF Spec

\* Every variable of the storage keeps its shape, and the file has one of the lengths
\* it was found with, or the capacity, or none.
THEOREM StorageTypeCorrect == Spec => []TypeOK
<1>1. SInv => TypeOK
  BY DEF SInv
<1> QED BY <1>1, StorageInvariance, PTL

\* Whatever fails while a handle is being opened, one that is open has the whole
\* device behind it.
THEOREM OpenHandlesAreFull == Spec => []OpenIsFull
<1>1. SInv => OpenIsFull
  BY DEF SInv
<1> QED BY <1>1, StorageInvariance, PTL

\* Nothing is ever written beyond the capacity and the file never grows by a write,
\* even in a build where the sums of the bounds checks wrap.
THEOREM DeviceContains == Spec => Contained
<1> DEFINE Kept == /\ \/ Len(image') = Len(image)
                      \/ Len(image) < Capacity /\ Len(image') = Capacity
                   /\ \A i \in Capacity + 1 .. Len(image) : image'[i] = image[i]
<1>1. SInv /\ [Next]_vars => [Kept]_vars
  <2>1. ASSUME SInv, Housekeeping PROVE Kept
    <3>1. \A i \in Capacity + 1 .. Len(image) : i \in DOMAIN image
      <4>1. image \in Seq(Byte)
        BY <2>1 DEF SInv, TypeOK
      <4> QED BY <4>1, LenProperties, Sizes
    <3> QED BY <2>1, <3>1, HousekeepingFacts
  <2>2. ASSUME SInv, Harmless PROVE Kept
    BY <2>2 DEF Harmless
  <2> QED BY <2>1, <2>2, StepIsHarmless
<1> QED BY <1>1, StorageInvariance, PTL DEF Spec, Contained

\* Without a handle that is open for writing and unprotected no byte ever changes.
THEOREM ProtectionIsKept == Spec => ProtectionHolds
<1> DEFINE Kept == (\A h \in Handles : mode[h] # "rw" \/ wp[h]) =>
                      \A i \in DOMAIN image : image'[i] = image[i]
<1>1. SInv /\ [Next]_vars => [Kept]_vars
  <2>1. ASSUME SInv, Housekeeping PROVE Kept
    BY <2>1, HousekeepingFacts
  <2>2. ASSUME SInv, Harmless PROVE Kept
    BY <2>2 DEF Harmless
  <2> QED BY <2>1, <2>2, StepIsHarmless
<1> QED BY <1>1, StorageInvariance, PTL DEF Spec, ProtectionHolds
-------------------------------------------------------------------------------
(* What a successful call does to the file *)

\* A write of buf at off inside the file leaves the first n bytes of buf there, all of
\* them if it succeeds (seek, write_all).
LEMMA HostWriteEffect ==
    ASSUME TypeOK, NEW h, NEW off \in Nat, NEW buf \in Seq(Byte), NEW len \in 0 .. Len(buf),
           off + len <= Len(image),
           HostWrite(h, off, SubSeq(buf, 1, len)), ~Refuse("io")
    PROVE  /\ image' \in Seq(Byte) /\ Len(image') = Len(image)
           /\ \E n \in 0 .. len :
                /\ \A i \in 1 .. Len(image) :
                     image'[i] = IF off < i /\ i <= off + n THEN buf[i - off] ELSE image[i]
                /\ reply' = [status |-> IF n = len THEN "ok" ELSE "io", data |-> <<>>]
<1> DEFINE part == SubSeq(buf, 1, len)
<1>1. part \in Seq(Byte) /\ Len(part) = len /\ \A i \in 1 .. len : part[i] = buf[i]
  BY PrefixFacts
<1>2. PICK n \in 0 .. Len(part) :
        /\ image' = Overlay(image, off, SubSeq(part, 1, n))
        /\ reply' = [status |-> IF n = Len(part) THEN "ok" ELSE "io", data |-> <<>>]
  BY DEF HostWrite
<1>3. image \in Seq(Byte) /\ Len(image) \in Nat /\ Len(buf) \in Nat
  BY LenProperties DEF TypeOK
<1> HIDE DEF part
<1> DEFINE prefix == SubSeq(part, 1, n)
<1>4. /\ prefix \in Seq(Byte) /\ Len(prefix) = n
      /\ \A i \in 1 .. n : prefix[i] = part[i]
  BY <1>1, PrefixFacts
<1>5. n \in 0 .. len /\ off + n <= Len(image)
  BY <1>1, <1>3
<1>6. image' = Overlay(image, off, prefix)
  BY <1>2
<1> HIDE DEF prefix
<1>7. /\ image' \in Seq(Byte) /\ Len(image') = Len(image)
      /\ \A i \in 1 .. Len(image) :
           image'[i] = IF off < i /\ i <= off + n THEN prefix[i - off] ELSE image[i]
  BY <1>3, <1>4, <1>5, <1>6, OverlayInside, SMTT(30)
<1>8. \A i \in 1 .. Len(image) :
        image'[i] = IF off < i /\ i <= off + n THEN buf[i - off] ELSE image[i]
  <2> SUFFICES ASSUME NEW i \in 1 .. Len(image), off < i, i <= off + n
               PROVE  prefix[i - off] = buf[i - off]
    BY <1>7
  <2>1. i - off \in 1 .. n /\ i - off \in 1 .. len
    BY <1>3, <1>5
  <2> QED BY <2>1, <1>1, <1>4
<1> QED BY <1>1, <1>2, <1>5, <1>7, <1>8

\* A read of n bytes at off inside the file returns what is there (seek, read_exact).
LEMMA HostReadEffect ==
    ASSUME TypeOK, NEW off \in Nat, NEW n \in Nat, off + n <= Len(image),
           HostRead(off, n), ~Refuse("io")
    PROVE  /\ reply' = [status |-> "ok", data |-> [i \in 1 .. n |-> image[off + i]]]
           /\ UNCHANGED image
<1>1. reply' = [status |-> "ok", data |-> SubSeq(image, off + 1, off + n)] /\ UNCHANGED image
  BY DEF HostRead
<1>2. image \in Seq(Byte) /\ Len(image) \in Nat
  BY LenProperties DEF TypeOK
<1>3. \A i \in off + 1 .. off + n : i \in 1 .. Len(image)
  BY <1>2
<1>4. \A i \in off + 1 .. off + n : image[i] \in Byte
  BY <1>2, <1>3, ElementOfSeq
<1> DEFINE part == SubSeq(image, off + 1, off + n)
           copy == [i \in 1 .. n |-> image[off + i]]
<1>5. off + 1 \in Int /\ off + n \in Int
  OBVIOUS
<1>6. /\ part \in Seq(Byte)
      /\ Len(part) = (IF off + 1 <= off + n THEN off + n - (off + 1) + 1 ELSE 0)
      /\ \A i \in 1 .. off + n - (off + 1) + 1 : part[i] = image[off + 1 + i - 1]
  BY <1>4, <1>5, SubSeqProperties
<1> HIDE DEF part
<1>7. Len(part) = n /\ \A i \in 1 .. n : part[i] = image[off + i]
  BY <1>6
<1>8. \A i \in 1 .. n : image[off + i] \in Byte
  BY <1>4
<1>9. copy \in Seq(Byte) /\ Len(copy) = n /\ \A i \in 1 .. n : copy[i] = image[off + i]
  BY <1>8
<1> HIDE DEF copy
<1>10. part = copy
  BY <1>6, <1>7, <1>9, SeqEqual
<1> QED BY <1>1, <1>10 DEF part, copy

\* In a build with overflow checks a call that passes the bounds checks has computed
\* with the true numbers.
LEMMA CheckedVerdicts ==
    ASSUME OverflowChecks
    PROVE  /\ \A off, n, limit \in Nat :
                BytesVerdict(off, n, limit) = "ok" <=> off + n < WordMod /\ off + n <= limit
           /\ \A off, n, limit \in Nat :
                BytesVerdict(off, n, limit) \in {"ok", "invalid", "panic"}
           /\ \A start, count, room \in Nat :
                BlocksVerdict(start, count, room) = "ok" =>
                  /\ Wrapped(count * BlockSize) = count * BlockSize
                  /\ Wrapped(start * BlockSize) = start * BlockSize
                  /\ count * BlockSize <= room
                  /\ start * BlockSize + count * BlockSize <= Capacity
           /\ \A start, count, room \in Nat :
                BlocksVerdict(start, count, room) # "ok" =>
                  /\ BlocksVerdict(start, count, room) \in {"invalid", "panic"}
                  /\ \/ room < count * BlockSize
                     \/ start * BlockSize + count * BlockSize > Capacity
<1>1. ASSUME NEW off \in Nat, NEW n \in Nat, NEW limit \in Nat
      PROVE  /\ BytesVerdict(off, n, limit) = "ok" <=> off + n < WordMod /\ off + n <= limit
             /\ BytesVerdict(off, n, limit) \in {"ok", "invalid", "panic"}
  <2>1. off + n \in Nat /\ WordMod \in Nat
    BY Sizes
  <2>2. off + n < WordMod => Wrapped(off + n) = off + n
    BY <2>1, WrappedFacts
  <2> QED BY <2>1, <2>2 DEF BytesVerdict, Panics
<1>2. ASSUME NEW start \in Nat, NEW count \in Nat, NEW room \in Nat
      PROVE  /\ BlocksVerdict(start, count, room) = "ok" =>
                  /\ Wrapped(count * BlockSize) = count * BlockSize
                  /\ Wrapped(start * BlockSize) = start * BlockSize
                  /\ count * BlockSize <= room
                  /\ start * BlockSize + count * BlockSize <= Capacity
             /\ BlocksVerdict(start, count, room) # "ok" =>
                  /\ BlocksVerdict(start, count, room) \in {"invalid", "panic"}
                  /\ \/ room < count * BlockSize
                     \/ start * BlockSize + count * BlockSize > Capacity
  <2> DEFINE off == start * BlockSize
             size == count * BlockSize
  <2>1. /\ BlockSize \in Nat /\ BlockSize > 0 /\ TotalBlocks \in Nat /\ WordMod \in Nat
        /\ Capacity \in Nat /\ Capacity < WordMod
    BY Sizes
  <2>2. off \in Nat /\ size \in Nat /\ off + size = (start + count) * BlockSize
    BY <2>1, SMT
  <2>3. /\ start + count <= TotalBlocks => off + size <= Capacity
        /\ start + count > TotalBlocks => off + size > Capacity
    <3>1. ASSUME start + count <= TotalBlocks
          PROVE  (start + count) * BlockSize <= TotalBlocks * BlockSize
      BY <3>1, <2>1, SMT
    <3>2. ASSUME start + count > TotalBlocks
          PROVE  (start + count) * BlockSize > TotalBlocks * BlockSize
      BY <3>2, <2>1, SMT
    <3>3. Capacity = TotalBlocks * BlockSize
      BY <2>1, SMT DEF Capacity
    <3> QED BY <2>1, <2>2, <3>1, <3>2, <3>3
  <2>4. start + count >= WordMod => off + size > Capacity
    <3>1. start + count <= (start + count) * BlockSize
      BY <2>1, SMT
    <3> QED BY <2>1, <2>2, <3>1
  <2>5. /\ off < WordMod => Wrapped(off) = off
        /\ size < WordMod => Wrapped(size) = size
        /\ start + count < WordMod => Wrapped(start + count) = start + count
    BY <2>2, WrappedFacts
  <2> HIDE DEF off, size
  <2>6. BlocksVerdict(start, count, room) =
          IF size >= WordMod THEN "panic"
          ELSE IF room < Wrapped(size) THEN "invalid"
          ELSE IF start + count >= WordMod THEN "panic"
          ELSE IF Wrapped(start + count) > TotalBlocks THEN "invalid"
          ELSE IF off >= WordMod THEN "panic" ELSE "ok"
    BY DEF BlocksVerdict, Panics, off, size
  <2>7. /\ BlocksVerdict(start, count, room) = "ok" =>
             /\ Wrapped(size) = size /\ Wrapped(off) = off
             /\ size <= room /\ off + size <= Capacity
        /\ BlocksVerdict(start, count, room) # "ok" =>
             /\ BlocksVerdict(start, count, room) \in {"invalid", "panic"}
             /\ room < size \/ off + size > Capacity
    BY <2>1, <2>2, <2>3, <2>4, <2>5, <2>6
  <2> QED BY <2>7 DEF off, size
<1> QED BY <1>1, <1>2
-------------------------------------------------------------------------------
(* The device implements PartitionStore in a build with overflow checks *)

\* The bytes of the device; those the file does not have yet count as 0.
View == [i \in 1 .. Capacity |-> IF i \in DOMAIN image THEN image[i] ELSE 0]

\* Opening a short image only adds bytes that already counted as 0.
LEMMA HousekeepingStutters ==
    ASSUME SInv, Housekeeping
    PROVE  View' = View /\ UNCHANGED <<request, reply>>
<1>1. image \in Seq(Byte) /\ Len(image) \in Nat /\ DOMAIN image = 1 .. Len(image)
      /\ Capacity \in Nat
  BY LenProperties, Sizes DEF SInv, TypeOK
<1>2. CASE image' = image
  BY <1>2, HousekeepingFacts DEF View
<1>3. CASE image' = Extended(image)
  <2> DEFINE longer == Extended(image)
  <2>1. /\ longer \in Seq(Byte) /\ Len(longer) >= Capacity
        /\ \A i \in 1 .. Len(image) : longer[i] = image[i]
        /\ \A i \in 1 .. Len(longer) : i > Len(image) => longer[i] = 0
    BY <1>1, ExtendedFacts
  <2>2. image' = longer
    BY <1>3
  <2> HIDE DEF longer
  <2>3. DOMAIN image' = 1 .. Len(longer) /\ Len(longer) \in Nat
    BY <2>1, <2>2, LenProperties
  <2>4. \A i \in 1 .. Capacity :
          (IF i \in DOMAIN image' THEN image'[i] ELSE 0) = (IF i \in DOMAIN image THEN image[i] ELSE 0)
    BY <1>1, <2>1, <2>2, <2>3
  <2> QED BY <2>4, HousekeepingFacts DEF View
<1> QED BY <1>2, <1>3, HousekeepingFacts

\* A write that fails, is refused, is rejected because its range or its buffer is not
\* valid, or reaches the host inside the device.
LEMMA WriteImplements ==
    ASSUME SInv, NEW h \in Handles, mode[h] # "closed",
           NEW off \in Nat, NEW len \in Nat, NEW fits \in BOOLEAN, NEW buf \in Buffers,
           request' = [op |-> "write", area |-> Device, off |-> off, len |-> len,
                       fits |-> fits, buf |-> buf],
           \/ Refuse("io") \/ Refuse("protected")
           \/ /\ Refuse("invalid") \/ Refuse("panic")
              /\ ~(fits /\ off + len <= Capacity)
           \/ /\ fits /\ len <= Len(buf) /\ off + len <= Capacity
              /\ HostWrite(h, off, SubSeq(buf, 1, len))
    PROVE  Store!Write
<1>1. CASE Refuse("io") \/ Refuse("protected")
  BY <1>1 DEF Refuse, Store!Write, Store!Refused
<1>2. CASE (Refuse("invalid") \/ Refuse("panic")) /\ ~(fits /\ off + len <= Capacity)
  BY <1>2 DEF Refuse, Store!Write, Store!Rejected, Store!Valid
<1>3. CASE /\ fits /\ len <= Len(buf) /\ off + len <= Capacity
           /\ HostWrite(h, off, SubSeq(buf, 1, len)) /\ ~Refuse("io")
  <2>1. buf \in Seq(Byte) /\ Len(buf) \in Nat /\ Capacity \in Nat
    BY ArgumentFacts, Sizes
  <2>2. image \in Seq(Byte) /\ Len(image) \in Nat /\ Capacity <= Len(image) /\ TypeOK
        /\ DOMAIN image = 1 .. Len(image)
    BY LenProperties DEF SInv, TypeOK, OpenIsFull
  <2>3. len \in 0 .. Len(buf) /\ off + len <= Len(image)
    BY <1>3, <2>1, <2>2
  <2>4. TypeOK /\ HostWrite(h, off, SubSeq(buf, 1, len)) /\ ~Refuse("io")
        /\ buf \in Seq(Byte) /\ len \in 0 .. Len(buf) /\ off + len <= Len(image)
    BY <1>3, <2>1, <2>2, <2>3
  <2>5. /\ image' \in Seq(Byte) /\ Len(image') = Len(image)
        /\ \E n \in 0 .. len :
             /\ \A i \in 1 .. Len(image) :
                  image'[i] = IF off < i /\ i <= off + n THEN buf[i - off] ELSE image[i]
             /\ reply' = [status |-> IF n = len THEN "ok" ELSE "io", data |-> <<>>]
    BY <2>4, HostWriteEffect, ZenonT(40)
  <2>6. PICK n \in 0 .. len :
          /\ \A i \in 1 .. Len(image) :
               image'[i] = IF off < i /\ i <= off + n THEN buf[i - off] ELSE image[i]
          /\ reply' = [status |-> IF n = len THEN "ok" ELSE "io", data |-> <<>>]
    BY <2>5
  <2>7. DOMAIN image' = 1 .. Len(image)
    BY <2>5, LenProperties
  <2>8. View' = Store!Patched(View, off, buf, n)
    BY <2>1, <2>2, <2>6, <2>7 DEF View, Store!Patched
  <2>9. [a \in {Device} |-> View'] =
          [[a \in {Device} |-> View] EXCEPT ![Device] = Store!Patched(@, off, buf, n)]
    BY <2>8
  <2>10. Store!Valid(request')
    BY <1>3 DEF Store!Valid
  <2> QED BY <2>6, <2>9, <2>10 DEF Store!Write, View
<1> QED BY <1>1, <1>2, <1>3

\* The same of a read.
LEMMA ReadImplements ==
    ASSUME SInv, NEW h \in Handles, mode[h] # "closed",
           NEW off \in Nat, NEW len \in Nat, NEW fits \in BOOLEAN,
           request' = [op |-> "read", area |-> Device, off |-> off, len |-> len,
                       fits |-> fits, buf |-> <<>>],
           \/ Refuse("io")
           \/ /\ Refuse("invalid") \/ Refuse("panic")
              /\ ~(fits /\ off + len <= Capacity)
           \/ fits /\ off + len <= Capacity /\ HostRead(off, len)
    PROVE  Store!Read
<1>1. CASE Refuse("io")
  BY <1>1 DEF Refuse, Store!Read, Store!Refused
<1>2. CASE (Refuse("invalid") \/ Refuse("panic")) /\ ~(fits /\ off + len <= Capacity)
  BY <1>2 DEF Refuse, Store!Read, Store!Rejected, Store!Valid
<1>3. CASE fits /\ off + len <= Capacity /\ HostRead(off, len) /\ ~Refuse("io")
  <2>1. Len(image) \in Nat /\ Capacity \in Nat /\ Capacity <= Len(image) /\ TypeOK
        /\ DOMAIN image = 1 .. Len(image)
    BY LenProperties, Sizes DEF SInv, TypeOK, OpenIsFull
  <2>2. /\ reply' = [status |-> "ok", data |-> [i \in 1 .. len |-> image[off + i]]]
        /\ UNCHANGED image
    BY <1>3, <2>1, HostReadEffect
  <2>3. \A i \in 1 .. len : off + i \in 1 .. Capacity /\ off + i \in DOMAIN image
    BY <1>3, <2>1
  <2>4. \A i \in 1 .. len : View[off + i] = image[off + i]
    BY <2>3 DEF View
  <2>5. Store!Valid(request')
    BY <1>3 DEF Store!Valid
  <2>6. reply' = [status |-> "ok", data |-> [i \in 1 .. len |-> View[off + i]]]
    BY <2>2, <2>4
  <2>7. /\ request'.op = "read" /\ request'.area = Device
        /\ request'.off = off /\ request'.len = len
    OBVIOUS
  <2>8. [a \in {Device} |-> View][Device] = View
    OBVIOUS
  <2>9. View' = View
    BY <2>2 DEF View
  <2> QED BY <2>5, <2>6, <2>7, <2>8, <2>9 DEF Store!Read, View
<1> QED BY <1>1, <1>2, <1>3

\* A buffer is the prefix of itself that has its length.
LEMMA WholeBuffer ==
    ASSUME NEW buf \in Seq(Byte)
    PROVE  SubSeq(buf, 1, Len(buf)) = buf
<1>1. Len(buf) \in Nat
  BY LenProperties
<1> DEFINE part == SubSeq(buf, 1, Len(buf))
<1>2. part \in Seq(Byte) /\ Len(part) = Len(buf) /\ \A i \in 1 .. Len(buf) : part[i] = buf[i]
  BY <1>1, PrefixFacts
<1> HIDE DEF part
<1> QED BY <1>2, SeqEqual DEF part

\* One block is inside the device exactly when its index is below the number of blocks.
LEMMA OneBlock ==
    ASSUME NEW b \in Nat
    PROVE  /\ b * BlockSize \in Nat
           /\ b < TotalBlocks <=> b * BlockSize + BlockSize <= Capacity
<1>1. BlockSize \in Nat /\ BlockSize > 0 /\ TotalBlocks \in Nat
  BY Sizes
<1>2. b * BlockSize \in Nat /\ b * BlockSize + BlockSize = (b + 1) * BlockSize
  BY <1>1, SMT
<1>3. ASSUME b < TotalBlocks
      PROVE  (b + 1) * BlockSize <= TotalBlocks * BlockSize
  BY <1>1, <1>3, SMT
<1>4. ASSUME ~(b < TotalBlocks)
      PROVE  (b + 1) * BlockSize > TotalBlocks * BlockSize
  BY <1>1, <1>4, SMT
<1>5. Capacity = TotalBlocks * BlockSize
  BY <1>1, SMT DEF Capacity
<1>6. CASE b < TotalBlocks
  BY <1>2, <1>3, <1>5, <1>6
<1>7. CASE ~(b < TotalBlocks)
  <2>1. (b + 1) * BlockSize > Capacity
    BY <1>4, <1>5, <1>7
  <2>2. Capacity \in Nat
    BY Sizes
  <2> DEFINE off == b * BlockSize
             next == (b + 1) * BlockSize
  <2>3. off \in Nat /\ off + BlockSize = next /\ next > Capacity
    BY <1>2, <2>1
  <2> HIDE DEF off, next
  <2>4. ~(off + BlockSize <= Capacity)
    BY <2>2, <2>3, <1>1
  <2> QED BY <1>7, <2>3, <2>4 DEF off
<1> QED BY <1>6, <1>7

\* Each call that reads implements Store!Read.
LEMMA ReadsImplement ==
    ASSUME OverflowChecks, SInv, NEW h \in Handles, NEW w \in Words, NEW n \in Lengths
    PROVE  /\ ReadBlock(h, w, n) => Store!Read
           /\ \A count \in Words : ReadBlocks(h, w, count, n) => Store!Read
           /\ ReadBytes(h, w, n) => Store!Read
<1>1. w \in Nat /\ n \in Nat /\ BlockSize \in Nat /\ Capacity \in Nat /\ Capacity < WordMod
  BY ArgumentFacts, Sizes
<1>2. ASSUME ReadBlock(h, w, n)
      PROVE  Store!Read
  <2> DEFINE off == w * BlockSize
  <2>1. off \in Nat /\ (w < TotalBlocks <=> off + BlockSize <= Capacity)
    BY <1>1, OneBlock
  <2>2. /\ mode[h] # "closed"
        /\ request' = [op |-> "read", area |-> Device, off |-> off, len |-> BlockSize,
                       fits |-> n = BlockSize, buf |-> <<>>]
    BY <1>2 DEF ReadBlock, Ask
  <2>3. IF n = BlockSize /\ w < TotalBlocks THEN HostRead(off, BlockSize) ELSE Refuse("invalid")
    BY <1>2 DEF ReadBlock
  <2>4. (n = BlockSize) \in BOOLEAN
    OBVIOUS
  <2> HIDE DEF off
  <2> QED BY <1>1, <2>1, <2>2, <2>3, <2>4, ReadImplements
<1>3. ASSUME NEW count \in Words, ReadBlocks(h, w, count, n)
      PROVE  Store!Read
  <2> DEFINE off == w * BlockSize
             size == count * BlockSize
             verdict == BlocksVerdict(w, count, n)
  <2>1. off \in Nat /\ size \in Nat /\ count \in Nat
    BY <1>1, ArgumentFacts, SMT
  <2>2. /\ mode[h] # "closed"
        /\ request' = [op |-> "read", area |-> Device, off |-> off, len |-> size,
                       fits |-> n >= size, buf |-> <<>>]
    BY <1>3 DEF ReadBlocks, Ask
  <2>3. IF verdict = "ok" THEN HostRead(Wrapped(off), Wrapped(size)) ELSE Refuse(verdict)
    BY <1>3 DEF ReadBlocks
  <2>4. /\ verdict = "ok" =>
             Wrapped(off) = off /\ Wrapped(size) = size /\ size <= n /\ off + size <= Capacity
        /\ verdict # "ok" => verdict \in {"invalid", "panic"} /\ (n < size \/ off + size > Capacity)
    BY <1>1, <2>1, CheckedVerdicts
  <2>5. (n >= size) \in BOOLEAN
    OBVIOUS
  <2> HIDE DEF off, size, verdict
  <2>6. CASE verdict = "ok"
    <3>1. HostRead(off, size) /\ n >= size /\ off + size <= Capacity
      BY <2>1, <2>3, <2>4, <2>6, <1>1
    <3> QED BY <2>1, <2>2, <2>5, <3>1, ReadImplements
  <2>7. CASE verdict # "ok"
    <3>1. (Refuse("invalid") \/ Refuse("panic")) /\ ~(n >= size /\ off + size <= Capacity)
      BY <1>1, <2>1, <2>3, <2>4, <2>7
    <3> QED BY <2>1, <2>2, <2>5, <3>1, ReadImplements
  <2> QED BY <2>6, <2>7
<1>4. ASSUME ReadBytes(h, w, n)
      PROVE  Store!Read
  <2> DEFINE verdict == BytesVerdict(w, n, Capacity)
  <2>1. /\ mode[h] # "closed"
        /\ request' = [op |-> "read", area |-> Device, off |-> w, len |-> n,
                       fits |-> TRUE, buf |-> <<>>]
    BY <1>4 DEF ReadBytes, Ask
  <2>2. IF verdict = "ok" THEN HostRead(w, n) ELSE Refuse(verdict)
    BY <1>4 DEF ReadBytes, BytesRead
  <2>3. /\ verdict = "ok" <=> (w + n < WordMod /\ w + n <= Capacity)
        /\ verdict \in {"ok", "invalid", "panic"}
    BY <1>1, CheckedVerdicts
  <2> HIDE DEF verdict
  <2>4. CASE verdict = "ok"
    <3>1. HostRead(w, n) /\ w + n <= Capacity
      BY <2>2, <2>3, <2>4
    <3> QED BY <1>1, <2>1, <3>1, ReadImplements
  <2>5. CASE verdict # "ok"
    <3>1. Refuse("invalid") \/ Refuse("panic")
      BY <2>2, <2>3, <2>5
    <3>2. ~(w + n <= Capacity)
      BY <1>1, <2>3, <2>5, Sizes
    <3> QED BY <1>1, <2>1, <3>1, <3>2, ReadImplements
  <2> QED BY <2>4, <2>5
<1> QED BY <1>2, <1>3, <1>4

\* Each call that writes implements Store!Write.
LEMMA WritesImplement ==
    ASSUME OverflowChecks, SInv, NEW h \in Handles, NEW w \in Words, NEW buf \in Buffers
    PROVE  /\ WriteBlock(h, w, buf) => Store!Write
           /\ \A count \in Words : WriteBlocks(h, w, count, buf) => Store!Write
           /\ WriteBytes(h, w, buf) => Store!Write
<1> DEFINE n == Len(buf)
<1>1. /\ w \in Nat /\ n \in Nat /\ BlockSize \in Nat /\ Capacity \in Nat /\ Capacity < WordMod
      /\ SubSeq(buf, 1, n) = buf
  BY ArgumentFacts, Sizes, WholeBuffer
<1> HIDE DEF n
<1>2. ASSUME WriteBlock(h, w, buf)
      PROVE  Store!Write
  <2> DEFINE off == w * BlockSize
  <2>1. off \in Nat /\ (w < TotalBlocks <=> off + BlockSize <= Capacity)
    BY <1>1, OneBlock
  <2>2. /\ mode[h] # "closed"
        /\ request' = [op |-> "write", area |-> Device, off |-> off, len |-> BlockSize,
                       fits |-> n = BlockSize, buf |-> buf]
    BY <1>2 DEF WriteBlock, Ask, n
  <2>3. \/ Refuse("protected")
        \/ n = BlockSize /\ w < TotalBlocks /\ HostWrite(h, off, buf)
        \/ ~(n = BlockSize /\ w < TotalBlocks) /\ Refuse("invalid")
    BY <1>2 DEF WriteBlock, n
  <2>4. (n = BlockSize) \in BOOLEAN
    OBVIOUS
  <2>5. n = BlockSize => SubSeq(buf, 1, BlockSize) = buf /\ BlockSize <= Len(buf)
    BY <1>1 DEF n
  <2> HIDE DEF off
  <2> QED BY <1>1, <2>1, <2>2, <2>3, <2>4, <2>5, WriteImplements
<1>3. ASSUME NEW count \in Words, WriteBlocks(h, w, count, buf)
      PROVE  Store!Write
  <2> DEFINE off == w * BlockSize
             size == count * BlockSize
             verdict == BlocksVerdict(w, count, n)
  <2>1. off \in Nat /\ size \in Nat /\ count \in Nat
    BY <1>1, ArgumentFacts, SMT
  <2>2. /\ mode[h] # "closed"
        /\ request' = [op |-> "write", area |-> Device, off |-> off, len |-> size,
                       fits |-> n >= size, buf |-> buf]
    BY <1>3 DEF WriteBlocks, Ask, n
  <2>3. \/ Refuse("protected")
        \/ verdict = "ok" /\ HostWrite(h, Wrapped(off), SubSeq(buf, 1, Wrapped(size)))
        \/ verdict # "ok" /\ Refuse(verdict)
    BY <1>3 DEF WriteBlocks, n
  <2>4. /\ verdict = "ok" =>
             Wrapped(off) = off /\ Wrapped(size) = size /\ size <= n /\ off + size <= Capacity
        /\ verdict # "ok" => verdict \in {"invalid", "panic"} /\ (n < size \/ off + size > Capacity)
    BY <1>1, <2>1, CheckedVerdicts
  <2>5. (n >= size) \in BOOLEAN /\ (size <= n => size <= Len(buf))
    BY DEF n
  <2> HIDE DEF off, size, verdict
  <2>6. CASE verdict = "ok"
    <3>1. n >= size /\ size <= Len(buf) /\ off + size <= Capacity
      BY <1>1, <2>1, <2>4, <2>5, <2>6
    <3>2. Refuse("protected") \/ HostWrite(h, off, SubSeq(buf, 1, size))
      BY <2>3, <2>4, <2>6
    <3> QED BY <2>1, <2>2, <2>5, <3>1, <3>2, WriteImplements
  <2>7. CASE verdict # "ok"
    <3>1. Refuse("protected") \/ Refuse("invalid") \/ Refuse("panic")
      BY <2>3, <2>4, <2>7
    <3>2. ~(n >= size /\ off + size <= Capacity)
      BY <1>1, <2>1, <2>4, <2>7
    <3> QED BY <2>1, <2>2, <2>5, <3>1, <3>2, WriteImplements
  <2> QED BY <2>6, <2>7
<1>4. ASSUME WriteBytes(h, w, buf)
      PROVE  Store!Write
  <2> DEFINE verdict == BytesVerdict(w, n, Capacity)
  <2>1. /\ mode[h] # "closed"
        /\ request' = [op |-> "write", area |-> Device, off |-> w, len |-> n,
                       fits |-> TRUE, buf |-> buf]
    BY <1>4 DEF WriteBytes, Ask, n
  <2>2. \/ Refuse("protected")
        \/ verdict = "ok" /\ HostWrite(h, w, buf)
        \/ verdict # "ok" /\ Refuse(verdict)
    BY <1>4 DEF WriteBytes, BytesWritten, n
  <2>3. /\ verdict = "ok" <=> (w + n < WordMod /\ w + n <= Capacity)
        /\ verdict \in {"ok", "invalid", "panic"}
    BY <1>1, CheckedVerdicts
  <2>4. n <= Len(buf)
    BY <1>1 DEF n
  <2> HIDE DEF verdict
  <2>5. CASE verdict = "ok"
    <3>1. w + n <= Capacity
      BY <2>3, <2>5
    <3>2. Refuse("protected") \/ HostWrite(h, w, SubSeq(buf, 1, n))
      BY <1>1, <2>2, <2>5
    <3> QED BY <1>1, <2>1, <2>4, <3>1, <3>2, WriteImplements
  <2>6. CASE verdict # "ok"
    <3>1. Refuse("protected") \/ Refuse("invalid") \/ Refuse("panic")
      BY <2>2, <2>3, <2>6
    <3>2. ~(w + n <= Capacity)
      BY <1>1, <2>3, <2>6, Sizes
    <3> QED BY <1>1, <2>1, <2>4, <3>1, <3>2, WriteImplements
  <2> QED BY <2>5, <2>6
<1> QED BY <1>2, <1>3, <1>4

\* With overflow checks every run of the device is a run of the abstract store: each
\* read returns what the last writes left there, and each write changes its range and
\* nothing else, whichever handle it comes through and whatever the host refuses.
THEOREM StorageImplementsStore == ASSUME OverflowChecks PROVE Spec => ImplementsStore
<1>1. Init => Store!Init
  <2> SUFFICES ASSUME Init PROVE Store!Init
    OBVIOUS
  <2>1. SInv
    BY InitSInv
  <2>2. \A i \in DOMAIN image : image[i] \in Byte
    BY <2>1, ElementOfSeq, LenProperties DEF SInv, TypeOK
  <2> QED BY <2>2, StorageAssumption DEF Store!Init
<1>2. SInv /\ [Next]_vars => [Store!Next]_(Store!vars)
  <2>1. ASSUME SInv, Next PROVE Housekeeping \/ Store!Next
    BY <2>1, ReadsImplement, WritesImplement DEF Next, Store!Next
  <2>2. ASSUME SInv, Housekeeping PROVE UNCHANGED Store!vars
    BY <2>2, HousekeepingStutters DEF Store!vars, View
  <2>3. ASSUME UNCHANGED vars PROVE UNCHANGED Store!vars
    BY <2>3 DEF vars, Store!vars
  <2> QED BY <2>1, <2>2, <2>3
<1> QED BY <1>1, <1>2, StorageInvariance, PTL DEF Spec, ImplementsStore, Store!Spec
===============================================================================
