---------------------------- MODULE PartitionStore ----------------------------
(***************************************************************************)
(* What a partitioned storage device promises its user: every area is an   *)
(* array of bytes of its own.  A request names a range of one area.  A     *)
(* write changes the bytes of its range and no others: all of them when it *)
(* succeeds, a prefix when the host fails half way, none when it is        *)
(* refused.  A read that succeeds returns what the range holds.  A request *)
(* is called invalid exactly when its range or its buffer is.              *)
(* Storage.tla implements it with one area, the device; Nand.tla with one  *)
(* area for each partition.                                                *)
(***************************************************************************)
EXTENDS Integers, Sequences

CONSTANTS
    Areas,      \* the partitions
    AreaSize,   \* area -> its bytes
    Byte,       \* values of a byte
    Buffers     \* what callers write, sequences of bytes

VARIABLES
    store,      \* area -> position -> byte; offset 0 is position 1
    request,    \* the last request
    reply       \* the answer to it

Valid(r) == r.fits /\ r.off + r.len <= AreaSize[r.area]

Refused == reply'.status \in {"io", "protected"} /\ reply'.data = <<>> /\ UNCHANGED store

Rejected == reply'.status \in {"invalid", "panic"} /\ reply'.data = <<>> /\ UNCHANGED store

\* The first n bytes of buf in place of those of f from offset off.
Patched(f, off, buf, n) ==
    [i \in DOMAIN f |-> IF off < i /\ i <= off + n THEN buf[i - off] ELSE f[i]]

Init ==
    /\ DOMAIN store = Areas
    /\ \A a \in Areas : store[a] \in [1 .. AreaSize[a] -> Byte]

Read ==
    /\ request'.op = "read"
    /\ \/ Refused
       \/ ~Valid(request') /\ Rejected
       \/ /\ Valid(request')
          /\ LET held == store[request'.area]
             IN reply' = [status |-> "ok",
                          data   |-> [i \in 1 .. request'.len |-> held[request'.off + i]]]
          /\ UNCHANGED store

Write ==
    /\ request'.op = "write"
    /\ \/ Refused
       \/ ~Valid(request') /\ Rejected
       \/ /\ Valid(request')
          /\ \E n \in 0 .. request'.len :
               /\ store' = [store EXCEPT ![request'.area] =
                              Patched(@, request'.off, request'.buf, n)]
               /\ reply' = [status |-> IF n = request'.len THEN "ok" ELSE "io", data |-> <<>>]

Next == Read \/ Write

vars == <<store, request, reply>>

Spec == Init /\ [][Next]_vars
===============================================================================
