------------------------------- MODULE MCDesktop -------------------------------
(* Instance of Desktop for TLC. *)
EXTENDS Desktop

\* SYSTEM begins at byte 16 of 32; the other bytes tell their place.
Disk(header, size) ==
    [i \in 1 .. 32 |-> CASE i = 17 -> header [] i = 18 -> size [] OTHER -> 100 + i]

\* An empty file, one that ends inside the package, and full ones: no magic, no size,
\* a size with and without a rest, one that is too large.
TestDisks ==
    {<<>>, SubSeq(Disk(MAGIC, 5), 1, 20)}
      \cup {Disk(1, 4), Disk(MAGIC, 0), Disk(MAGIC, 4), Disk(MAGIC, 5), Disk(MAGIC, 6)}

\* A file that is empty, one that ends inside a word, one that goes over the stack into
\* the home menu, and one that leaves the memory.
FileOf(n) == [i \in 1 .. n |-> 200 + i]
Files == {FileOf(0), FileOf(7), FileOf(14), FileOf(23)}

Given == Files \cup {NoFile}

Addressable == 0 .. MemSize

BootRegions ==
    {Region(base, size, perm) : base \in Addressable, size \in {4}, perm \in {"RX", "RW"}}

NoBuffers == {<<>>}

NoWords == {}

Bytes == 0 .. 255

Ports == <<"sm", "fsp-srv">>

PortSet == Range(Ports)
================================================================================
