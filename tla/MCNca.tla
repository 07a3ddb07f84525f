-------------------------------- MODULE MCNca --------------------------------
(* Instance of Nca for TLC: bytes of four bits, keys of three bytes, a cipher of *)
(* twelve bits, sectors of ten blocks, two sections.  The maker of the files     *)
(* encrypts with tweaks computed in the field of 2^12 elements itself.           *)
EXTENDS Nca, FiniteSetsExt, SequencesExt

(* The cipher and the exclusive or *)

Values == 4096

NumberOf(block) == block[1] + 16 * block[2] + 256 * block[3]

BlockFrom(n) == <<n % 16, (n \div 16) % 16, n \div 256>>

\* 5 * 3277 = 1 modulo 4096.
ToyEnc(key, block) == BlockFrom((5 * NumberOf(block) + 3 * NumberOf(key) + 7) % Values)

ToyDec(key, block) ==
    BlockFrom((3277 * ((NumberOf(block) - 3 * NumberOf(key) - 7) % Values)) % Values)

Bit(n, k) == (n \div 2^k) % 2

ToyXor(a, b) == SumSet({2^k : k \in {j \in 0 .. 3 : Bit(a, j) # Bit(b, j)}})

(* The maker *)

\* With x^3 + 1.
XorLow(n) == 16 * (n \div 16) + ToyXor(n % 16, 9)

\* alpha times n, modulo x^12 + x^3 + 1.
Doubled(n) == IF 2 * n < Values THEN 2 * n ELSE XorLow(2 * n - Values)

TweakOf(key2, sector, j) ==
    LET t[i \in 0 .. j] ==
            IF i = 0 THEN NumberOf(ToyEnc(key2, BlockFrom(sector))) ELSE Doubled(t[i - 1])
    IN t[j]

EncryptedBlock(key, data, b) ==
    LET tweak == BlockFrom(TweakOf(SubSeq(key, 4, 6), b \div SectorBlocks, b % SectorBlocks))
    IN XorBlock(ToyEnc(SubSeq(key, 1, 3), XorBlock(SubSeq(data, 3 * b + 1, 3 * b + 3), tweak)),
                tweak)

Encrypted(key, data) ==
    FlattenSeq([b \in 1 .. Len(data) \div 3 |-> EncryptedBlock(key, data, b - 1)])

Le(n) == <<n % 16, n \div 16>>

Zeros(n) == [k \in 1 .. n |-> 0]

Offsets ==
    [magic |-> 0, distribution_type |-> 2, content_type |-> 3, key_gen_old |-> 4,
     key_area_key_index |-> 5, content_size |-> 6, program_id |-> 8, key_gen_new |-> 10,
     rights_id |-> 11, sections |-> 14, key_area |-> 22,
     fs_type |-> 2, hash_type |-> 3, pfs0_offset |-> 4, pfs0_size |-> 6]

KindKey == [application |-> <<7, 8, 9>>, ocean |-> <<4, 5, 6>>, system |-> <<9, 1, 2>>]

KindNumber == [application |-> 0, ocean |-> 1, system |-> 2]

\* What the maker is told.  Media units of 10 bytes: the header takes the first twelve.
Sheet(kind, gen, old, new, spans, hash) ==
    [magic |-> <<14, 3>>, kind |-> kind, index |-> KindNumber[kind], gen |-> gen,
     old |-> old, new |-> new, spans |-> spans, hash |-> hash, content |-> <<"Control">>,
     rights |-> <<0, 0, 0>>, key |-> <<1, 2, 3, 4, 5, 6>>, units |-> 3,
     kak |-> KindKey[kind]]

Plain(s) ==
    Zeros(30)
      \o s.magic \o <<1, 2, s.old, s.index>> \o Le(37) \o Le(201) \o <<s.new>> \o s.rights
      \o Le(s.spans[1][1]) \o Le(s.spans[1][2]) \o Le(s.spans[2][1]) \o Le(s.spans[2][2])
      \o ToyEnc(s.kak, <<10, 11, 12>>) \o ToyEnc(s.kak, <<13, 14, 15>>) \o Zeros(2)
      \o <<0, 0, 1, s.hash>> \o Le(18) \o Le(5) \o Zeros(22)
      \o <<0, 0, 7, 0>> \o Le(18) \o Le(5) \o Zeros(22)

Span(s, i) ==
    [start |-> s.spans[i + 1][1], end |-> s.spans[i + 1][2],
     enabled |-> s.spans[i + 1] # <<0, 0>>]

HashName == <<<<"Auto">>, <<"None">>, <<"HierarchicalSha256">>, <<"HierarchicalIntegrity">>,
              <<"Unknown", 4>>>>

Says(s) ==
    [magic |-> s.magic, distribution_type |-> 1, content_type |-> s.content,
     key_generation |-> s.gen, key_area_key_index |-> s.index, content_size |-> 37,
     program_id |-> 201, rights_id |-> s.rights,
     sections |-> [i \in 0 .. 1 |-> Span(s, i)],
     key_area |-> [i \in 0 .. 1 |-> ToyEnc(s.kak, <<10 + 3 * i, 11 + 3 * i, 12 + 3 * i>>)],
     section_headers |->
        [i \in 0 .. 1 |->
            [enabled |-> Span(s, i).enabled,
             fs_type |-> IF i = 0 THEN <<"Pfs0">> ELSE <<"Unknown", 7>>,
             hash_type |-> IF i = 0 THEN HashName[s.hash + 1] ELSE <<"Auto">>,
             pfs0_offset |-> IF i = 0 /\ s.hash = 2 THEN 18 ELSE 0,
             pfs0_size |-> IF i = 0 /\ s.hash = 2 THEN 5 ELSE 0]]]

Made(s) ==
    [bytes |-> Encrypted(s.key, Plain(s)) \o [k \in 1 .. 10 * s.units |-> (7 * k) % 16],
     plain |-> Plain(s), key |-> s.key, good |-> s.magic \in Magics, says |-> Says(s),
     titled |-> s.rights # <<0, 0, 0>>, kind |-> s.kind, gen |-> s.gen, kak |-> s.kak,
     keys |-> [i \in 0 .. 1 |-> <<10 + 3 * i, 11 + 3 * i, 12 + 3 * i>>]]

Sheets ==
    <<Sheet("application", 1, 1, 0, <<<<12, 13>>, <<13, 15>>>>, 2),
      Sheet("ocean", 1, 0, 1, <<<<12, 14>>, <<0, 0>>>>, 3),
      Sheet("system", 1, 1, 15, <<<<14, 12>>, <<13, 17>>>>, 4),
      [Sheet("application", 2, 1, 2, <<<<12, 12>>, <<255, 12>>>>, 1)
          EXCEPT !.rights = <<0, 5, 0>>, !.kak = <<0, 3, 0>>],
      [Sheet("application", 1, 1, 0, <<<<12, 13>>, <<13, 15>>>>, 2) EXCEPT !.magic = <<14, 9>>]>>

MadeNcas ==
    [n \in 1 .. 5 |-> Made(Sheets[n])] \o <<[Made(Sheets[1]) EXCEPT !.bytes = SubSeq(@, 1, 100),
                                                                  !.good = FALSE]>>

\* By its name TLC evaluates the definition above once.
TestNcas == MadeNcas

TestMagics == {<<14, k>> : k \in 0 .. 3}

(* Key files *)

KeyLine(of, suffix, value) ==
    [assigns |-> TRUE, of |-> of, suffix |-> suffix, value |-> value]

Text(bytes) == FlattenSeq([k \in DOMAIN bytes |-> <<bytes[k] \div 4, bytes[k] % 4>>])

TheHeaderKey == KeyLine("header_key", <<>>, Text(<<1, 2, 3, 4, 5, 6>>))

\* Generations written with one digit, two, and a sign; values with a blank, too short,
\* not hexadecimal, cut inside a character, or with a sign; indices out of the memory.
TableLines ==
    {KeyLine(t, <<0, 1>>, Text(KindKey[t])) : t \in DOMAIN KindKey}
      \cup {KeyLine("application", <<1>>, <<1, 3, Space, 2, 0, 2, 1>>),
            KeyLine("application", <<Plus, 2>>, <<0, 0, Plus, 3, 0, 0>>),
            KeyLine("application", <<0>>, <<1, 2>>),
            KeyLine("application", <<Other>>, Text(<<7, 8, 9>>)),
            KeyLine("title_kek", <<3, 2>>, <<>>),
            KeyLine("title_kek", <<3, 3>>, <<>>),
            KeyLine("title_kek", <<3, 3>>, Text(<<7, 8, 9>>)),
            KeyLine("title_kek", <<1, 0, 0>>, Text(<<7, 8, 9>>)),
            KeyLine("other", <<0>>, <<1, Lead, Inner, 1>>),
            KeyLine("other", <<0>>, <<1, 1, Other, 1, 1, Lead, Inner, 1>>),
            KeyLine("other", <<0>>, <<1, 1, 1>>),
            KeyLine("header_key", <<>>, Text(<<7, 8, 9>>)),
            [KeyLine("other", <<>>, <<>>) EXCEPT !.assigns = FALSE]}

ApplicationLines == {l \in TableLines : l.of = "application"}

TestKeyFiles ==
    {<<TheHeaderKey>> \o f : f \in {<<>>} \cup {<<a>> : a \in TableLines}
                                       \cup {<<a, b>> : a, b \in ApplicationLines}}
      \cup {<<a>> : a \in TableLines}
=============================================================================
