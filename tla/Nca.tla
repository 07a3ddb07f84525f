--------------------------------- MODULE Nca ---------------------------------
(***************************************************************************)
(* fs/nca.rs: the header of an NCA is decrypted with the header key of a   *)
(* KeySet (AES-XTS, six sectors in the code) and parsed, its key area is   *)
(* unwrapped with the key of its kind and generation, and its sections are *)
(* read.  The file may be replaced between two calls: read_section opens   *)
(* it again with what the caller kept of the header.                       *)
(***************************************************************************)
EXTENDS KeySet, SequencesExt

CONSTANTS
    Enc(_, _),       \* AES-128 on a block, and its inverse
    Dec(_, _),
    Xor(_, _),       \* of two bytes
    Poly,            \* what the carry of gf_mul_alpha adds; 0x87 in the code
    SectorBlocks,    \* blocks of an XTS sector; 32 in the code
    NSections,       \* 4 in the code
    MediaUnit,       \* 0x200 in the code
    U32Mod,          \* 2^32 in the code
    Off,             \* where the fields are in their sectors
    Magics,          \* NCA0 .. NCA3
    Ncas,            \* the files there may be, a sequence: bytes, and what made them
    MaxRead          \* bytes a section may have for the memory to hold them

BlockLen    == KeyLen
SectorLen   == SectorBlocks * BlockLen
NSectors    == 2 + NSections
HeaderLen   == NSectors * SectorLen
SectionNo   == 0 .. NSections - 1

ASSUME NcaAssumption ==
    /\ SectorBlocks \in Nat \ {0} /\ NSections \in Nat \ {0}
    /\ MediaUnit \in Nat \ {0} /\ U32Mod \in Nat \ {0} /\ MaxRead \in Nat
    /\ Base % 2 = 0 /\ Poly \in Byte      \* a byte is whole bits
    /\ NSectors <= Base * Base             \* sector numbers take one
    /\ Ncas \in Seq(Range(Ncas))

VARIABLES
    nca,        \* the file on the disk, as its number in Ncas, or NoNca
    header,     \* what open returned, or NoHeader
    source,     \* the file it was opened from
    key_area,   \* what decrypt_key_area returned, if asked: Some is a sequence of one
    fetched     \* what read_section returned

nvars == <<nca, header, source, key_area, fetched>>

NoNca == 0
NoHeader == [magic |-> <<>>]
Nothing == [ok |-> FALSE]

NotAsked == [asked |-> FALSE, keys |-> <<>>]

(* AES-XTS *)

XorBlock(a, b) == [k \in 1 .. BlockLen |-> Xor(a[k], b[k])]

Top(b) == b \div ((Base * Base) \div 2)
Shl(b) == (2 * b) % (Base * Base)

gf_mul_alpha(t) ==
    <<Xor(Shl(t[1]), Top(t[BlockLen]) * Poly)>>
      \o [k \in 1 .. BlockLen - 1 |-> Shl(t[k + 1]) + Top(t[k])]

\* sector.to_le_bytes(), in a block.
SectorBlock(sector) == [k \in 1 .. BlockLen |-> IF k = 1 THEN sector ELSE 0]

Tweaks(key2, sector) ==
    LET t[j \in 0 .. SectorBlocks - 1] ==
            IF j = 0 THEN Enc(key2, SectorBlock(sector)) ELSE gf_mul_alpha(t[j - 1])
    IN t

\* chunks_mut: the pieces of len bytes, from number 0.
Chunk(data, len, c) == SubSeq(data, c * len + 1, (c + 1) * len)

Crypt(way, key, block) == IF way = "encrypt" THEN Enc(key, block) ELSE Dec(key, block)

\* XTS is the same both ways but for the direction of the cipher.
xts_sector(way, key1, key2, sector, data) ==
    LET t == Tweaks(key2, sector)
        block(j) == XorBlock(Crypt(way, key1, XorBlock(Chunk(data, BlockLen, j), t[j])), t[j])
    IN FlattenSeq([j \in 1 .. SectorBlocks |-> block(j - 1)])

xts_header(way, key, data) ==
    FlattenSeq([s \in 1 .. NSectors |->
                  xts_sector(way, Chunk(key, KeyLen, 0), Chunk(key, KeyLen, 1), s - 1,
                             Chunk(data, SectorLen, s - 1))])

\* Mutant: the loop ends with the second sector, the section headers stay encrypted.
xts_decrypt_header_two(key, data) ==
    SubSeq(xts_header("decrypt", key, data), 1, 2 * SectorLen)
      \o SubSeq(data, 2 * SectorLen + 1, HeaderLen)

xts_decrypt_header(key, data) == xts_header("decrypt", key, data)

(* from_decrypted *)

\* The bytes of a field, at its place in its sector.
Field(data, sector, at0, len) ==
    SubSeq(data, sector * SectorLen + at0 + 1, sector * SectorLen + at0 + len)

FromLe(bytes) ==
    LET upto[k \in 0 .. Len(bytes)] ==
            IF k = 0 THEN 0 ELSE upto[k - 1] + bytes[k] * (Base * Base) ^ (k - 1)
    IN upto[Len(bytes)]

\* 0xFF in the new field stands for none.
key_gen(old, new) ==
    IF new = Base * Base - 1 \/ new < old THEN old ELSE new

Section(data, i) ==
    LET start == FromLe(Field(data, 1, Off.sections + 4 * i, 2))
        end   == FromLe(Field(data, 1, Off.sections + 4 * i + 2, 2))
    IN [start |-> start, end |-> end, enabled |-> start # 0 \/ end # 0]

ContentTypes == <<"Program", "Meta", "Control", "Manual", "Data", "PublicData">>
FsTypes      == <<"RomFs", "Pfs0">>
HashTypes    == <<"Auto", "None", "HierarchicalSha256", "HierarchicalIntegrity">>

from_u8(names, v) == IF v < Len(names) THEN <<names[v + 1]>> ELSE <<"Unknown", v>>

SectionHeader(data, i) ==
    LET byte(k) == Field(data, 2 + i, k, 1)[1]
        hash    == from_u8(HashTypes, byte(Off.hash_type))
        pfs0(k) == IF hash = <<"HierarchicalSha256">>
                   THEN FromLe(Field(data, 2 + i, k, 2)) ELSE 0
    IN [enabled     |-> Section(data, i).enabled,
        fs_type     |-> from_u8(FsTypes, byte(Off.fs_type)),
        hash_type   |-> hash,
        pfs0_offset |-> pfs0(Off.pfs0_offset),
        pfs0_size   |-> pfs0(Off.pfs0_size)]

from_decrypted(data) ==
    LET byte(k) == Field(data, 1, k, 1)[1]
    IN [magic              |-> Field(data, 1, Off.magic, 2),
        distribution_type  |-> byte(Off.distribution_type),
        content_type       |-> from_u8(ContentTypes, byte(Off.content_type)),
        key_generation     |-> key_gen(byte(Off.key_gen_old), byte(Off.key_gen_new)),
        key_area_key_index |-> byte(Off.key_area_key_index),
        content_size       |-> FromLe(Field(data, 1, Off.content_size, 2)),
        program_id         |-> FromLe(Field(data, 1, Off.program_id, 2)),
        rights_id          |-> Field(data, 1, Off.rights_id, KeyLen),
        sections           |-> [i \in SectionNo |-> Section(data, i)],
        key_area           |-> [i \in SectionNo |->
                                  Field(data, 1, Off.key_area + i * KeyLen, KeyLen)],
        section_headers    |-> [i \in SectionNo |-> SectionHeader(data, i)]]

is_title_key_encrypted(h) == \E k \in DOMAIN h.rights_id : h.rights_id[k] # 0

(* KeyAreaType *)

from_index(idx) ==
    CASE idx = 1 -> "ocean" [] idx = 2 -> "system" [] OTHER -> "application"

\* Mutant: whatever kind the header names, the key is the application's.
decrypt_key_area_of_application(h) ==
    LET kak == key_area_key("application", h.key_generation)
    IN IF kak = <<>> THEN <<>>
       ELSE <<[i \in SectionNo |-> Dec(kak[1], h.key_area[i])]>>

decrypt_key_area(h) ==
    LET kak == key_area_key(from_index(h.key_area_key_index), h.key_generation)
    IN IF kak = <<>> THEN <<>>
       ELSE <<[i \in SectionNo |-> Dec(kak[1], h.key_area[i])]>>

(* Sections *)

byte_offset(entry) == entry.start * MediaUnit

\* Mutant: the end is taken for the last unit of the section.
byte_size_inclusive(entry) == ((entry.end - entry.start + 1) % U32Mod) * MediaUnit

\* The difference is computed in a u32.
byte_size(entry) == ((entry.end - entry.start) % U32Mod) * MediaUnit

(* Calls *)

NcaInit ==
    /\ KeyInit
    /\ nca = NoNca
    /\ header = NoHeader /\ source = NoNca
    /\ key_area = NotAsked /\ fetched = Nothing

Parse == KeyNext /\ UNCHANGED nvars

\* Another program puts another file in its place; before the keys are read nobody looks
\* at it.
Replaced ==
    /\ status = "parsed"
    /\ nca' \in {NoNca} \cup DOMAIN Ncas
    /\ UNCHANGED <<kvars, header, source, key_area, fetched>>

Opened(h, from) ==
    /\ header' = h /\ source' = from
    /\ key_area' = NotAsked /\ fetched' = Nothing
    /\ UNCHANGED <<kvars, nca>>

File == Ncas[nca].bytes

\* NotFound, an error of the host, or InvalidData.
OpenFails ==
    /\ status = "parsed"
    /\ Opened(NoHeader, NoNca)

OpenReads ==
    /\ status = "parsed" /\ header_key # NoKey
    /\ nca # NoNca /\ Len(File) >= HeaderLen
    /\ \E data \in {xts_decrypt_header(header_key, SubSeq(File, 1, HeaderLen))} :
          /\ Field(data, 1, Off.magic, 2) \in Magics
          /\ Opened(from_decrypted(data), nca)

DecryptKeyArea ==
    /\ status = "parsed" /\ header # NoHeader
    /\ key_area' = [asked |-> TRUE, keys |-> decrypt_key_area(header)]
    /\ UNCHANGED <<kvars, nca, header, source, fetched>>

Dies(how) ==
    /\ status' = how
    /\ UNCHANGED <<checks, keyFile, at, header_key, tables, raw, nvars>>

Fetched(what) ==
    /\ fetched' = what
    /\ UNCHANGED <<kvars, nca, header, source, key_area>>

\* The file cannot be opened, or ends before the section does.
ReadFails == status = "parsed" /\ header # NoHeader /\ Fetched(Nothing)

SizeUnderflows(i) ==
    /\ status = "parsed" /\ header # NoHeader /\ nca # NoNca
    /\ checks /\ header.sections[i].end < header.sections[i].start
    /\ Dies("panicked")

NoMemory(i) ==
    /\ status = "parsed" /\ header # NoHeader /\ nca # NoNca
    /\ ~(checks /\ header.sections[i].end < header.sections[i].start)
    /\ byte_size(header.sections[i]) > MaxRead
    /\ Dies("aborted")

ReadSection(i) ==
    /\ status = "parsed" /\ header # NoHeader /\ nca # NoNca
    /\ LET entry == header.sections[i]
           from  == byte_offset(entry)
           size  == byte_size(entry)
       IN /\ ~(checks /\ entry.end < entry.start)
          /\ size <= MaxRead
          /\ size = 0 \/ from + size <= Len(File)
          /\ Fetched([ok |-> TRUE, section |-> i, from |-> nca,
                      data |-> SubSeq(File, from + 1, from + size)])

NcaNext ==
    \/ Parse \/ Replaced \/ OpenFails \/ OpenReads \/ DecryptKeyArea \/ ReadFails
    \/ \E i \in SectionNo : SizeUnderflows(i) \/ NoMemory(i) \/ ReadSection(i)

(* The files.  An element of Ncas tells what its maker put in: says is the header,    *)
(* plain its bytes before they were encrypted with key, keys what the key area wraps  *)
(* with kak, the key of its kind and generation.                                      *)

Block == [1 .. BlockLen -> Byte]

CipherKeys ==
    UNION {{Chunk(made.key, KeyLen, 0), Chunk(made.key, KeyLen, 1), made.kak} :
              made \in Range(Ncas)}

\* AES is a permutation of the blocks, an exclusive or undoes itself.
ASSUME CipherAssumption ==
    /\ \A a, b \in Byte : Xor(a, b) \in Byte /\ Xor(Xor(a, b), b) = a
    /\ \A k \in CipherKeys, b \in Block : Enc(k, b) \in Block /\ Dec(k, Enc(k, b)) = b

\* The maker encrypted a header that the parser reads as says, wrapped the key area with
\* the key it names, and counted units in a u32: the file is no longer than that allows.
ASSUME MakerAssumption ==
    \A made \in Range(Ncas) :
        /\ made.bytes \in Seq(Byte) /\ Len(made.bytes) < U32Mod * MediaUnit
        /\ made.plain \in [1 .. HeaderLen -> Byte]
        /\ made.says = from_decrypted(made.plain)
        /\ made.titled = is_title_key_encrypted(made.says)
        /\ Len(made.bytes) >= HeaderLen =>
              /\ SubSeq(made.bytes, 1, HeaderLen) = xts_header("encrypt", made.key, made.plain)
              /\ made.good = (made.says.magic \in Magics)
        /\ from_index(made.says.key_area_key_index) = made.kind
        /\ made.says.key_generation = made.gen
        /\ made.keys \in [SectionNo -> Block]
        /\ made.says.key_area = [i \in SectionNo |-> Enc(made.kak, made.keys[i])]
        /\ \A i \in SectionNo :
              {made.says.sections[i].start, made.says.sections[i].end} \subseteq 0 .. U32Mod - 1

(* Properties *)

NcaTypeOK ==
    /\ KeyTypeOK
    /\ {nca, source} \subseteq {NoNca} \cup DOMAIN Ncas
    /\ header = NoHeader <=> source = NoNca
    /\ header = NoHeader => key_area = NotAsked /\ fetched = Nothing
    /\ fetched # Nothing => fetched.section \in SectionNo /\ fetched.from # NoNca

\* The header was opened with the key it was made with.
RightKey == header # NoHeader /\ header_key = Ncas[source].key

\* What its maker encrypted comes out of open, field by field, with the key generation
\* whichever of the two fields holds it; a file whose maker wrote another magic does
\* not open.
OpenReadsHeader ==
    RightKey =>
        /\ Ncas[source].good
        /\ header = Ncas[source].says
        /\ is_title_key_encrypted(header) = Ncas[source].titled

\* With the key file that names the key its maker wrapped the key area with, under that
\* kind and generation, decrypt_key_area gives the keys the maker wrapped.
KeyAreaIsRight ==
    LET made == Ncas[source]
    IN RightKey /\ key_area.asked
           /\ key_area_key(made.kind, made.gen) = <<made.kak>>
         => key_area.keys = <<made.keys>>

\* A section read from the file that was opened, with the right key, is the one the
\* maker placed there; a section that ends before it starts is never read, although
\* its size wraps to a large one in a build without overflow checks.
SectionsComeOut ==
    RightKey /\ fetched # Nothing /\ fetched.from = source =>
        LET placed == Ncas[source].says.sections[fetched.section]
        IN /\ placed.start <= placed.end
           /\ fetched.data = SubSeq(Ncas[source].bytes, placed.start * MediaUnit + 1,
                                    placed.end * MediaUnit)

allVars == <<kvars, nvars>>

NcaSpec == NcaInit /\ [][NcaNext]_allVars
=============================================================================
