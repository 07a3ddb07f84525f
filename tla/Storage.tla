------------------------------- MODULE Storage -------------------------------
(***************************************************************************)
(* EmulatedStorage (fs/storage.rs): a fixed-capacity device kept in a host *)
(* file.  Several handles may be open on one image at a time (boot opens   *)
(* the image a second time while it looks for a kernel).  The host file is *)
(* external: any I/O call may fail, a failing write_all may have written a *)
(* prefix, a write past the end extends the file, and a seek beyond the    *)
(* largest file offset is refused.                                         *)
(*                                                                         *)
(* Offsets, indices and lengths are u64, here words below WordMod.  A sum  *)
(* or product that leaves the word panics in a build with overflow checks  *)
(* and wraps in one without.                                               *)
(***************************************************************************)
EXTENDS Integers, Sequences

CONSTANTS
    BlockSize,       \* bytes of a block; 4096 in the code
    TotalBlocks,     \* blocks of the device; 32 GiB / 4096 in the code
    WordMod,         \* 2^64 in the code
    OverflowChecks,  \* is the build one that panics on overflow?
    Byte,            \* values of a byte
    Handles,         \* EmulatedStorage values that may exist
    ImageSizes,      \* sizes of an image file found on the host
    Words,           \* words the callers pass as offset, index or count
    Buffers          \* buffers the callers pass

Capacity == BlockSize * TotalBlocks

\* The host takes file offsets below half the range of the word.
SeekLimit == WordMod \div 2

ASSUME StorageAssumption ==
    /\ BlockSize \in Nat \ {0}
    /\ TotalBlocks \in Nat \ {0}
    /\ WordMod \in Nat \ {0}
    /\ Capacity <= SeekLimit
    /\ OverflowChecks \in BOOLEAN
    /\ 0 \in Byte
    /\ ImageSizes \subseteq Nat
    /\ Words \subseteq 0 .. WordMod - 1
    /\ Buffers \subseteq Seq(Byte)
    /\ \A buf \in Buffers : Len(buf) < SeekLimit

VARIABLES
    exists,   \* is there a host file?
    image,    \* its bytes; offset 0 is image[1]
    mode,     \* handle -> how it was opened
    wp,       \* handle -> its write_protected flag
    request,  \* the last read or write
    reply     \* the answer to it

handles == <<mode, wp>>
vars == <<exists, image, handles, request, reply>>

Lengths == {Len(buf) : buf \in Buffers}
-------------------------------------------------------------------------------
(* Arithmetic on words *)

Panics(n) == OverflowChecks /\ n >= WordMod

Wrapped(n) == n % WordMod

\* Mutant: the check looks at the offset and forgets the length.
BytesVerdictOffsetOnly(off, n, limit) ==
    IF Panics(off + n) THEN "panic" ELSE IF off > limit THEN "invalid" ELSE "ok"

\* The bounds check of the byte calls on a device or partition of `limit` bytes.
BytesVerdict(off, n, limit) ==
    IF Panics(off + n) THEN "panic"
    ELSE IF Wrapped(off + n) > limit THEN "invalid"
    ELSE "ok"

\* The checks of read_blocks and write_blocks for a buffer of `room` bytes.
BlocksVerdict(start, count, room) ==
    IF Panics(count * BlockSize) THEN "panic"
    ELSE IF room < Wrapped(count * BlockSize) THEN "invalid"
    ELSE IF Panics(start + count) THEN "panic"
    ELSE IF Wrapped(start + count) > TotalBlocks THEN "invalid"
    ELSE IF Panics(start * BlockSize) THEN "panic"
    ELSE "ok"
-------------------------------------------------------------------------------
(* The host file *)

\* f with buf written at offset off; the file grows when the range passes its end.
Overlay(f, off, buf) ==
    IF buf = <<>> THEN f
    ELSE [i \in DOMAIN f \cup 1 .. off + Len(buf) |->
            IF off < i /\ i <= off + Len(buf) THEN buf[i - off]
            ELSE IF i \in DOMAIN f THEN f[i] ELSE 0]

\* Mutant: the file is extended by the capacity, not to it.
ExtendedBy(f) == f \o [i \in 1 .. Capacity |-> 0]

\* Mutant: the file is truncated when it is opened.
ExtendedFresh(f) == [i \in 1 .. Capacity |-> 0]

\* set_len to the capacity, when the file is shorter.
Extended(f) ==
    IF Len(f) < Capacity
    THEN [i \in 1 .. Capacity |-> IF i \in DOMAIN f THEN f[i] ELSE 0]
    ELSE f

Refuse(status) ==
    /\ reply' = [status |-> status, data |-> <<>>]
    /\ UNCHANGED image

\* seek and read_exact
HostRead(off, n) ==
    \/ Refuse("io")
    \/ /\ off < SeekLimit
       /\ n = 0 \/ off + n <= Len(image)
       /\ reply' = [status |-> "ok", data |-> SubSeq(image, off + 1, off + n)]
       /\ UNCHANGED image

\* seek and write_all; a file opened for reading takes no bytes.
HostWrite(h, off, buf) ==
    \/ Refuse("io")
    \/ /\ off < SeekLimit
       /\ \E n \in 0 .. Len(buf) :
            /\ n > 0 => mode[h] = "rw"
            /\ image' = Overlay(image, off, SubSeq(buf, 1, n))
            /\ reply' = [status |-> IF n = Len(buf) THEN "ok" ELSE "io", data |-> <<>>]
-------------------------------------------------------------------------------
(* Opening and closing *)

\* EmulatedStorage::open.  A failure before the file is created changes nothing;
\* one after that leaves the file with the length it has.
Open(h) ==
    /\ mode[h] = "closed"
    /\ exists' = TRUE
    /\ \/ UNCHANGED <<image, handles>>
       \/ /\ image' = Extended(image)
          /\ mode' = [mode EXCEPT ![h] = "rw"]
          /\ wp' = [wp EXCEPT ![h] = FALSE]
    /\ UNCHANGED <<request, reply>>

\* Mutant: the length of the image is not looked at.
OpenReadOnlyShort(h) ==
    /\ mode[h] = "closed"
    /\ exists
    /\ mode' = [mode EXCEPT ![h] = "ro"]
    /\ wp' = [wp EXCEPT ![h] = TRUE]
    /\ UNCHANGED <<exists, image, request, reply>>

\* EmulatedStorage::open_read_only: a missing or short image is an error.
OpenReadOnly(h) ==
    /\ mode[h] = "closed"
    /\ exists
    /\ Len(image) >= Capacity
    /\ mode' = [mode EXCEPT ![h] = "ro"]
    /\ wp' = [wp EXCEPT ![h] = TRUE]
    /\ UNCHANGED <<exists, image, request, reply>>

\* The value is dropped and its file closed.
Close(h) ==
    /\ mode[h] # "closed"
    /\ mode' = [mode EXCEPT ![h] = "closed"]
    /\ wp' = [wp EXCEPT ![h] = FALSE]
    /\ UNCHANGED <<exists, image, request, reply>>

SetWriteProtected(h, flag) ==
    /\ mode[h] # "closed"
    /\ wp' = [wp EXCEPT ![h] = flag]
    /\ UNCHANGED <<exists, image, mode, request, reply>>
-------------------------------------------------------------------------------
(* Reading and writing *)

\* A call on handle h for len bytes at offset off of an area; fits tells
\* whether the length of the buffer is one the call takes.
Ask(h, op, area, off, len, fits, buf) ==
    /\ mode[h] # "closed"
    /\ request' = [op |-> op, area |-> area, off |-> off, len |-> len, fits |-> fits, buf |-> buf]
    /\ UNCHANGED <<exists, handles>>

Device == "device"

ReadBlock(h, b, n) ==
    /\ Ask(h, "read", Device, b * BlockSize, BlockSize, n = BlockSize, <<>>)
    /\ IF n = BlockSize /\ b < TotalBlocks
       THEN HostRead(b * BlockSize, n)
       ELSE Refuse("invalid")

WriteBlock(h, b, buf) ==
    /\ Ask(h, "write", Device, b * BlockSize, BlockSize, Len(buf) = BlockSize, buf)
    /\ \/ wp[h] /\ Refuse("protected")
       \/ /\ ~wp[h]
          /\ IF Len(buf) = BlockSize /\ b < TotalBlocks
             THEN HostWrite(h, b * BlockSize, buf)
             ELSE Refuse("invalid")

ReadBlocks(h, start, count, n) ==
    LET verdict == BlocksVerdict(start, count, n)
    IN /\ Ask(h, "read", Device, start * BlockSize, count * BlockSize,
              n >= count * BlockSize, <<>>)
       /\ IF verdict = "ok"
          THEN HostRead(Wrapped(start * BlockSize), Wrapped(count * BlockSize))
          ELSE Refuse(verdict)

\* Mutant: the block index is used as the byte offset.
WriteBlocksUnscaled(h, start, count, buf) ==
    /\ Ask(h, "write", Device, start * BlockSize, count * BlockSize,
           Len(buf) >= count * BlockSize, buf)
    /\ BlocksVerdict(start, count, Len(buf)) = "ok"
    /\ HostWrite(h, start, SubSeq(buf, 1, count * BlockSize))

WriteBlocks(h, start, count, buf) ==
    LET verdict == BlocksVerdict(start, count, Len(buf))
    IN /\ Ask(h, "write", Device, start * BlockSize, count * BlockSize,
              Len(buf) >= count * BlockSize, buf)
       /\ \/ wp[h] /\ Refuse("protected")
          \/ /\ ~wp[h]
             /\ IF verdict = "ok"
                THEN HostWrite(h, Wrapped(start * BlockSize),
                               SubSeq(buf, 1, Wrapped(count * BlockSize)))
                ELSE Refuse(verdict)

\* read_bytes and write_bytes, as Nand calls them too.
BytesRead(off, n) ==
    LET verdict == BytesVerdict(off, n, Capacity)
    IN IF verdict = "ok" THEN HostRead(off, n) ELSE Refuse(verdict)

\* Mutant: write protection is not looked at.
BytesWrittenAnyway(h, off, buf) ==
    LET verdict == BytesVerdict(off, Len(buf), Capacity)
    IN IF verdict = "ok" THEN HostWrite(h, off, buf) ELSE Refuse(verdict)

BytesWritten(h, off, buf) ==
    LET verdict == BytesVerdict(off, Len(buf), Capacity)
    IN \/ wp[h] /\ Refuse("protected")
       \/ /\ ~wp[h]
          /\ IF verdict = "ok" THEN HostWrite(h, off, buf) ELSE Refuse(verdict)

ReadBytes(h, off, n) ==
    /\ Ask(h, "read", Device, off, n, TRUE, <<>>)
    /\ BytesRead(off, n)

WriteBytes(h, off, buf) ==
    /\ Ask(h, "write", Device, off, Len(buf), TRUE, buf)
    /\ BytesWritten(h, off, buf)
-------------------------------------------------------------------------------
Idle == [op |-> "none", area |-> Device, off |-> 0, len |-> 0, fits |-> TRUE, buf |-> <<>>]

Init ==
    /\ \/ exists = FALSE /\ image = <<>>
       \/ exists = TRUE /\ \E n \in ImageSizes : image \in [1 .. n -> Byte]
    /\ mode = [h \in Handles |-> "closed"]
    /\ wp = [h \in Handles |-> FALSE]
    /\ request = Idle
    /\ reply = [status |-> "ok", data |-> <<>>]

Housekeeping ==
    \E h \in Handles :
      \/ Open(h)
      \/ OpenReadOnly(h)
      \/ Close(h)
      \/ \E flag \in BOOLEAN : SetWriteProtected(h, flag)

Next ==
    \/ Housekeeping
    \/ \E h \in Handles, w \in Words, n \in Lengths :
         \/ ReadBlock(h, w, n)
         \/ \E count \in Words : ReadBlocks(h, w, count, n)
         \/ ReadBytes(h, w, n)
    \/ \E h \in Handles, w \in Words, buf \in Buffers :
         \/ WriteBlock(h, w, buf)
         \/ \E count \in Words : WriteBlocks(h, w, count, buf)
         \/ WriteBytes(h, w, buf)

Spec == Init /\ [][Next]_vars
-------------------------------------------------------------------------------
(* Properties *)

\* Every variable has the shape the code gives it, and the file has a length it was
\* found with, or was created or extended to.
TypeOK ==
    /\ exists \in BOOLEAN
    /\ image \in Seq(Byte)
    /\ Len(image) \in ImageSizes \cup {0, Capacity}
    /\ ~exists => image = <<>>
    /\ mode \in [Handles -> {"closed", "rw", "ro"}]
    /\ wp \in [Handles -> BOOLEAN]
    /\ reply.status \in {"ok", "io", "protected", "invalid", "panic"}
    /\ reply.data \in Seq(Byte)

\* A handle is open only on an image of full size, however many times an open
\* failed between creating the file and extending it (open, open_read_only).
OpenIsFull ==
    \A h \in Handles : mode[h] # "closed" => exists /\ Len(image) >= Capacity

\* No call writes past the capacity or moves the end of the file, in a build that
\* panics on overflow and in one that wraps: the bounds checks, the limit on
\* buffers and the limit on seeks are needed together.  Only open extends the file.
Contained ==
    [][/\ \/ Len(image') = Len(image)
          \/ Len(image) < Capacity /\ Len(image') = Capacity
       /\ \A i \in Capacity + 1 .. Len(image) : image'[i] = image[i]]_vars

\* Bytes change only while some handle is open for writing and not protected: a
\* handle from open_read_only cannot write even after its protection is cleared.
ProtectionHolds ==
    [][(\A h \in Handles : mode[h] # "rw" \/ wp[h]) =>
          \A i \in DOMAIN image : image'[i] = image[i]]_vars

\* The device is a store of one area, its capacity; a byte the file does not have
\* yet counts as 0.
Store == INSTANCE PartitionStore WITH
    Areas <- {Device},
    AreaSize <- [a \in {Device} |-> Capacity],
    store <- [a \in {Device} |->
                [i \in 1 .. Capacity |-> IF i \in DOMAIN image THEN image[i] ELSE 0]]

ImplementsStore == Store!Spec
===============================================================================
