------------------------------ MODULE NcaProofs ------------------------------
(***************************************************************************)
(* For every key file, base, key length, word size and memory, in both     *)
(* kinds of build: the key tables hold what the file says.  For every      *)
(* cipher and every files that were made as MakerAssumption says: what     *)
(* comes out of open, decrypt_key_area and read_section is what the maker  *)
(* put in.                                                                 *)
(***************************************************************************)
EXTENDS Nca, Induction

\* The keys a table may hold.
FileKeys == {ZeroKey} \cup {Bytes(keyFile[k]) : k \in 1 .. Len(keyFile)}

KShape ==
    /\ checks \in BOOLEAN
    /\ Len(keyFile) \in Nat
    /\ at \in 0 .. Len(keyFile)
    /\ tables \in [Tables -> Seq(FileKeys)]

KInv == KShape /\ KeysComeFromFile

\* A suffix that parses is a usize.
LEMMA IndexIsUsize ==
    ASSUME NEW line
    PROVE  Index(line) = NoIndex \/ Index(line) \in 0 .. UsizeMod - 1
BY KeySetAssumption DEF Index, parse_hex_suffix

\* ensure_len pads: the entries there were stay, the new ones are 0.
LEMMA EnsureLen ==
    ASSUME NEW S, ZeroKey \in S, NEW v \in Seq(S), NEW n \in Nat
    PROVE  /\ ensure_len(v, n) \in Seq(S)
           /\ Len(ensure_len(v, n)) = IF Len(v) < n THEN n ELSE Len(v)
           /\ \A i \in 1 .. Len(ensure_len(v, n)) :
                 ensure_len(v, n)[i] = IF i <= Len(v) THEN v[i] ELSE ZeroKey
<1> DEFINE m == IF Len(v) < n THEN n ELSE Len(v)
           e(i) == IF i \in DOMAIN v THEN v[i] ELSE ZeroKey
<1>1. Len(v) \in Nat /\ DOMAIN v = 1 .. Len(v) /\ m \in Nat
  OBVIOUS
<1>2. \A i \in 1 .. m : e(i) \in S /\ e(i) = IF i <= Len(v) THEN v[i] ELSE ZeroKey
  BY <1>1
<1>3. ensure_len(v, n) = [i \in 1 .. m |-> e(i)]
  BY DEF ensure_len
<1> HIDE DEF m, e
<1>4. [i \in 1 .. m |-> e(i)] \in Seq(S) /\ Len([i \in 1 .. m |-> e(i)]) = m
  BY <1>1, <1>2
<1>5. \A i \in 1 .. m : [j \in 1 .. m |-> e(j)][i] = e(i)
  OBVIOUS
<1> QED BY <1>2, <1>3, <1>4, <1>5 DEF m

\* What a line does to its table: the entry it names becomes its key if the length is
\* right, and is there in any case.
KeyStored(w, v, idx, bytes) ==
    /\ w \in Seq(FileKeys)
    /\ Len(w) = IF Len(v) < idx + 1 THEN idx + 1 ELSE Len(v)
    /\ Len(bytes) = KeyLen => w[idx + 1] = bytes
    /\ \A i \in 1 .. Len(w) :
          i # idx + 1 \/ Len(bytes) # KeyLen =>
             /\ i <= Len(v) => w[i] = v[i]
             /\ i > Len(v)  => w[i] = ZeroKey

LEMMA StoredFacts ==
    ASSUME NEW v \in Seq(FileKeys), NEW idx \in Nat, NEW bytes \in FileKeys
    PROVE  KeyStored(Stored(v, idx, bytes), v, idx, bytes)
<1> DEFINE w == Stored(v, idx, bytes)
<1> DEFINE long == ensure_len(v, idx + 1)
<1>1. /\ long \in Seq(FileKeys)
      /\ Len(long) = IF Len(v) < idx + 1 THEN idx + 1 ELSE Len(v)
      /\ \A i \in 1 .. Len(long) : long[i] = IF i <= Len(v) THEN v[i] ELSE ZeroKey
  <2>1. ZeroKey \in FileKeys
    BY DEF FileKeys
  <2> QED BY <2>1, EnsureLen
<1>2. Len(v) \in Nat
  OBVIOUS
<1>3. w = IF Len(bytes) = KeyLen THEN [long EXCEPT ![idx + 1] = bytes] ELSE long
  BY DEF Stored
<1> HIDE DEF long, w
<1>4. idx + 1 \in 1 .. Len(long)
  BY <1>1, <1>2
<1>5. /\ [long EXCEPT ![idx + 1] = bytes] \in Seq(FileKeys)
      /\ Len([long EXCEPT ![idx + 1] = bytes]) = Len(long)
      /\ \A i \in 1 .. Len(long) :
            [long EXCEPT ![idx + 1] = bytes][i] = IF i = idx + 1 THEN bytes ELSE long[i]
  BY <1>1, <1>4
<1>6. KeyStored(w, v, idx, bytes)
  BY <1>1, <1>2, <1>3, <1>4, <1>5 DEF KeyStored
<1> QED BY <1>6 DEF w

\* The keys start as the file's: nothing is read.
LEMMA InitKeys == NcaInit => KInv
<1> SUFFICES ASSUME NcaInit PROVE KInv
  OBVIOUS
<1>1. Len(keyFile) \in Nat
  BY KeySetAssumption DEF NcaInit, KeyInit
<1>2. checks \in BOOLEAN
  BY KeySetAssumption DEF NcaInit, KeyInit
<1>3. at = 0 /\ \A t \in Tables : tables[t] = <<>>
  BY DEF NcaInit, KeyInit
<1>4. tables \in [Tables -> Seq(FileKeys)]
  BY DEF NcaInit, KeyInit
<1>5. KeysComeFromFile
  BY <1>3 DEF KeysComeFromFile
<1> QED BY <1>1, <1>2, <1>3, <1>4, <1>5 DEF KInv, KShape

\* What a line gives to a table depends on the file alone.
LEMMA SameLines ==
    ASSUME keyFile' = keyFile
    PROVE  /\ \A k, t, i : GivesTo(k, t, i)' <=> GivesTo(k, t, i)
           /\ FileKeys' = FileKeys
BY DEF GivesTo, FileKeys

\* A step that reads no line.
LEMMA NoLineKeeps ==
    ASSUME KInv, UNCHANGED <<checks, keyFile, at, tables>>
    PROVE  KInv'
BY DEF KInv, KShape, FileKeys, KeysComeFromFile, GivenKey, GivesTo

\* The line that is read names no entry of a table.
Silent ==
    \A t \in Tables, i \in Nat :
        /\ ~GivesTo(at + 1, t, i)
        /\ ~(Gives(Line) /\ Line.of = t /\ Index(Line) = i /\ i < Room)

LEMMA SilentKeeps ==
    ASSUME KInv, Silent, at < Len(keyFile), at' = at + 1,
           UNCHANGED <<checks, keyFile, tables>>
    PROVE  KInv'
<1>1. KShape'
  BY DEF KInv, KShape, FileKeys
<1>2. ASSUME NEW t \in Tables, NEW i \in 1 .. Len(tables[t])
      PROVE  GivenKey(at + 1, t, i - 1, tables[t][i])
  <2>1. at \in Nat /\ i - 1 \in Nat /\ GivenKey(at, t, i - 1, tables[t][i])
    <3>1. at \in Nat /\ GivenKey(at, t, i - 1, tables[t][i])
      BY DEF KInv, KShape, KeysComeFromFile
    <3>2. tables[t] \in Seq(FileKeys)
      BY DEF KInv, KShape
    <3> QED BY <3>1, <3>2
  <2>2. ~GivesTo(at + 1, t, i - 1)
    BY <2>1 DEF Silent
  <2>4. CASE \E k \in 1 .. at :
               /\ GivesTo(k, t, i - 1) /\ tables[t][i] = Bytes(keyFile[k])
               /\ \A j \in k + 1 .. at : ~GivesTo(j, t, i - 1)
    <3>1. PICK k \in 1 .. at :
               /\ GivesTo(k, t, i - 1) /\ tables[t][i] = Bytes(keyFile[k])
               /\ \A j \in k + 1 .. at : ~GivesTo(j, t, i - 1)
      BY <2>4
    <3>2. k \in 1 .. at + 1 /\ \A j \in k + 1 .. at + 1 : ~GivesTo(j, t, i - 1)
      BY <2>1, <2>2, <3>1
    <3> QED BY <3>1, <3>2 DEF GivenKey
  <2>5. CASE (\A k \in 1 .. at : ~GivesTo(k, t, i - 1)) /\ tables[t][i] = ZeroKey
    <3>1. \A k \in 1 .. at + 1 : ~GivesTo(k, t, i - 1)
      BY <2>1, <2>2, <2>5
    <3> QED BY <2>5, <3>1 DEF GivenKey
  <2> QED BY <2>1, <2>4, <2>5 DEF GivenKey
<1>3. ASSUME NEW t \in Tables, NEW k \in 1 .. at + 1,
             Gives(keyFile[k]), keyFile[k].of = t, Index(keyFile[k]) \in 0 .. Room - 1
      PROVE  Index(keyFile[k]) < Len(tables[t])
  <2>1. at \in Nat
    BY DEF KInv, KShape
  <2>2. k # at + 1
    BY <1>3, KeySetAssumption DEF Silent, Line
  <2>3. k \in 1 .. at
    BY <2>1, <2>2
  <2> QED BY <1>3, <2>3 DEF KInv, KeysComeFromFile
<1>4. KeysComeFromFile'
  BY <1>2, <1>3 DEF KeysComeFromFile, GivenKey, GivesTo
<1> QED BY <1>1, <1>4 DEF KInv

\* The line that is read names an entry of a table: the last giver of that entry is now
\* the line itself if its key has the right length, and is what it was otherwise.
LEMMA TableLineKeeps ==
    ASSUME KInv, TableLine
    PROVE  KInv'
<1> DEFINE t0 == Line.of
           idx == Index(Line)
           bytes == Bytes(Line)
<1>1. /\ at \in Nat /\ at + 1 \in 1 .. Len(keyFile) /\ Len(keyFile) \in Nat
      /\ Line = keyFile[at + 1]
      /\ t0 \in Tables /\ idx \in Nat /\ idx < Room /\ bytes \in FileKeys /\ ZeroKey \in FileKeys
      /\ Gives(Line)
  <2>1. at \in Nat /\ at + 1 \in 1 .. Len(keyFile) /\ Len(keyFile) \in Nat
    BY DEF KInv, KShape, TableLine, Reading
  <2>2. idx \in Nat
    <3>1. idx # NoIndex
      BY DEF TableLine
    <3> HIDE DEF idx
    <3>2. idx = NoIndex \/ idx \in 0 .. UsizeMod - 1
      BY IndexIsUsize DEF idx
    <3> QED BY <3>1, <3>2
  <2>3. bytes \in FileKeys /\ ZeroKey \in FileKeys
    BY <2>1 DEF FileKeys, Line
  <2> QED BY <2>1, <2>2, <2>3 DEF TableLine, Line
<1>2. /\ at' = at + 1 /\ keyFile' = keyFile /\ checks' = checks
      /\ tables' = [tables EXCEPT ![t0] = Stored(@, idx, bytes)]
  BY DEF TableLine, NextLine
<1>3. tables \in [Tables -> Seq(FileKeys)]
  BY DEF KInv, KShape
<1>6. \A t \in Tables, i \in Nat :
         GivesTo(at + 1, t, i) <=> t = t0 /\ i = idx /\ Len(bytes) = KeyLen
  BY <1>1 DEF GivesTo
<1> HIDE DEF t0, idx, bytes
<1> DEFINE new == Stored(tables[t0], idx, bytes)
<1>4. /\ new \in Seq(FileKeys)
      /\ Len(new) = IF Len(tables[t0]) < idx + 1 THEN idx + 1 ELSE Len(tables[t0])
      /\ Len(bytes) = KeyLen => new[idx + 1] = bytes
      /\ \A i \in 1 .. Len(new) :
            i # idx + 1 \/ Len(bytes) # KeyLen =>
               /\ i <= Len(tables[t0]) => new[i] = tables[t0][i]
               /\ i > Len(tables[t0])  => new[i] = ZeroKey
  <2>1. tables[t0] \in Seq(FileKeys) /\ idx \in Nat /\ bytes \in FileKeys
    BY <1>1, <1>3
  <2>2. KeyStored(new, tables[t0], idx, bytes)
    BY <2>1, StoredFacts, Zenon
  <2> QED BY <2>2, SMT DEF KeyStored
<1>5. tables'[t0] = new /\ \A t \in Tables \ {t0} : tables'[t] = tables[t]
  BY <1>1, <1>2, <1>3
<1> HIDE DEF new
<1>8. KShape'
  <2>1. tables' \in [Tables -> Seq(FileKeys)]
    BY <1>1, <1>2, <1>3, <1>4 DEF new
  <2>2. FileKeys' = FileKeys
    BY <1>2, SameLines
  <2> QED BY <1>1, <1>2, <2>1, <2>2 DEF KInv, KShape
\* Entries the line does not name keep their giver.
<1>9. ASSUME NEW t \in Tables, NEW i \in Nat, NEW key,
             ~GivesTo(at + 1, t, i), GivenKey(at, t, i, key)
      PROVE  GivenKey(at + 1, t, i, key)
  <2>1. CASE \E k \in 1 .. at : /\ GivesTo(k, t, i) /\ key = Bytes(keyFile[k])
                                /\ \A j \in k + 1 .. at : ~GivesTo(j, t, i)
    <3>1. PICK k \in 1 .. at : /\ GivesTo(k, t, i) /\ key = Bytes(keyFile[k])
                               /\ \A j \in k + 1 .. at : ~GivesTo(j, t, i)
      BY <2>1
    <3>2. k \in 1 .. at + 1 /\ \A j \in k + 1 .. at + 1 : ~GivesTo(j, t, i)
      BY <1>1, <1>2, <1>9, <3>1
    <3> QED BY <1>2, <3>1, <3>2 DEF GivenKey
  <2>2. CASE (\A k \in 1 .. at : ~GivesTo(k, t, i)) /\ key = ZeroKey
    <3>1. \A k \in 1 .. at + 1 : ~GivesTo(k, t, i)
      BY <1>1, <1>2, <1>9, <2>2
    <3> QED BY <2>2, <3>1 DEF GivenKey
  <2> QED BY <1>9, <2>1, <2>2 DEF GivenKey
\* The entry it names with a key of the right length has the line for its last giver.
<1>10. ASSUME Len(bytes) = KeyLen
       PROVE  GivenKey(at + 1, t0, idx, bytes)
  <2>1. GivesTo(at + 1, t0, idx)
    BY <1>1, <1>6, <1>10
  <2>2. at + 1 \in 1 .. at + 1 /\ \A j \in (at + 1) + 1 .. at + 1 : ~GivesTo(j, t0, idx)
    BY <1>1, <1>2
  <2>3. bytes = Bytes(keyFile[at + 1])
    BY <1>1 DEF bytes
  <2> QED BY <1>2, <2>1, <2>2, <2>3 DEF GivenKey
\* An entry that is not there yet has no giver.
<1>11. ASSUME NEW t \in Tables, NEW i \in Nat, i >= Len(tables[t]), i < Room,
              ~GivesTo(at + 1, t, i)
       PROVE  GivenKey(at + 1, t, i, ZeroKey)
  <2>1. \A k \in 1 .. at : ~GivesTo(k, t, i)
    <3> SUFFICES ASSUME NEW k \in 1 .. at, GivesTo(k, t, i) PROVE FALSE
      OBVIOUS
    <3>1. Index(keyFile[k]) < Len(tables[t])
      BY <1>11, KeySetAssumption DEF KInv, KeysComeFromFile, GivesTo
    <3>2. Len(tables[t]) \in Nat
      BY <1>3
    <3> QED BY <1>11, <3>1, <3>2 DEF GivesTo
  <2>2. \A k \in 1 .. at + 1 : ~GivesTo(k, t, i)
    BY <1>1, <1>2, <1>11, <2>1
  <2> QED BY <2>2 DEF GivenKey
<1>12. ASSUME NEW t \in Tables, NEW i \in 1 .. Len(tables'[t])
       PROVE  GivenKey(at + 1, t, i - 1, tables'[t][i])
  <2>1. i - 1 \in Nat /\ i \in Nat /\ Len(tables[t]) \in Nat /\ Len(new) \in Nat
    <3>1. Len(tables[t]) \in Nat /\ Len(new) \in Nat
      BY <1>3, <1>4
    <3> QED BY <1>5, <1>12, <3>1
  <2>2. CASE i <= Len(tables[t]) /\ ~GivesTo(at + 1, t, i - 1)
    <3>1. GivenKey(at, t, i - 1, tables[t][i])
      BY <2>1, <2>2, <1>12 DEF KInv, KeysComeFromFile
    <3>2. tables'[t][i] = tables[t][i]
      <4>1. CASE t = t0
        <5>1. ~(i = idx + 1 /\ Len(bytes) = KeyLen)
          BY <1>1, <1>6, <2>1, <2>2, <4>1
        <5> QED BY <1>4, <1>5, <1>12, <2>2, <4>1, <5>1
      <4> QED BY <1>5, <4>1
    <3> QED BY <1>9, <2>1, <2>2, <3>1, <3>2
  <2>3. CASE GivesTo(at + 1, t, i - 1)
    <3>1. t = t0 /\ i - 1 = idx /\ Len(bytes) = KeyLen
      BY <1>6, <2>1, <2>3
    <3>2. tables'[t][i] = bytes
      BY <1>1, <1>4, <1>5, <1>12, <2>1, <3>1
    <3> QED BY <1>10, <3>1, <3>2
  <2>4. CASE i > Len(tables[t]) /\ ~GivesTo(at + 1, t, i - 1)
    <3>1. t = t0
      BY <1>5, <1>12, <2>1, <2>4
    <3>2. tables'[t][i] = ZeroKey
      <4>1. ~(i = idx + 1 /\ Len(bytes) = KeyLen)
        BY <1>1, <1>6, <2>1, <2>4, <3>1
      <4> QED BY <1>4, <1>5, <1>12, <2>1, <2>4, <3>1, <4>1
    <3>3. i - 1 < Room
      <4>1. Len(new) = idx + 1
        BY <1>1, <1>4, <1>5, <1>12, <2>1, <2>4, <3>1
      <4> QED BY <1>1, <1>5, <1>12, <2>1, <3>1, <4>1, KeySetAssumption
    <3> QED BY <1>11, <2>1, <2>4, <3>2, <3>3
  <2> QED BY <2>1, <2>2, <2>3, <2>4
<1>13. ASSUME NEW t \in Tables, NEW k \in 1 .. at + 1,
              Gives(keyFile[k]), keyFile[k].of = t, Index(keyFile[k]) \in 0 .. Room - 1
       PROVE  Index(keyFile[k]) < Len(tables'[t])
  <2>1. CASE k = at + 1
    <3>1. t = t0 /\ Index(keyFile[k]) = idx
      BY <1>1, <1>13, <2>1 DEF t0, idx
    <3> QED BY <1>1, <1>3, <1>4, <1>5, <3>1
  <2>2. CASE k \in 1 .. at
    <3>1. Index(keyFile[k]) < Len(tables[t])
      BY <1>13, <2>2 DEF KInv, KeysComeFromFile
    <3>2. Len(tables[t]) <= Len(tables'[t])
      <4>1. Len(tables[t]) \in Nat
        BY <1>3
      <4>2. CASE t = t0
        BY <1>1, <1>4, <1>5, <4>1, <4>2
      <4>3. CASE t # t0
        BY <1>5, <4>1, <4>3
      <4> QED BY <4>2, <4>3
    <3>3. Len(tables[t]) \in Nat /\ Len(tables'[t]) \in Nat
      BY <1>3, <1>4, <1>5
    <3> QED BY <1>13, <3>1, <3>2, <3>3
  <2> QED BY <1>1, <1>2, <2>1, <2>2
<1>14. KeysComeFromFile'
  BY <1>1, <1>2, <1>12, <1>13 DEF KeysComeFromFile, GivenKey, GivesTo
<1> QED BY <1>8, <1>14 DEF KInv

\* Every action of the reader, and every call on an NCA, keeps the invariant.
LEMMA StepKeys == KInv /\ [NcaNext]_allVars => KInv'
<1> SUFFICES ASSUME KInv, [NcaNext]_allVars PROVE KInv'
  OBVIOUS
<1> USE DEF NoIndex
<1>1. at \in Nat /\ Len(keyFile) \in Nat
  BY DEF KInv, KShape
<1>2. CASE LoadFails \/ LineSplits \/ TableIsFull \/ ParseEnds
  BY <1>2, NoLineKeeps DEF LoadFails, LineSplits, TableIsFull, ParseEnds, Ends
<1>3. CASE SkipLine
  <2>1. Silent
    BY <1>3 DEF Silent, SkipLine, GivesTo, Line
  <2> QED BY <1>3, <2>1, SilentKeeps DEF SkipLine, Reading, NextLine
<1>4. CASE HeaderKeyLine
  <2>1. Silent
    BY <1>4 DEF Silent, HeaderKeyLine, GivesTo, Line, Tables
  <2> QED BY <1>4, <2>1, SilentKeeps DEF HeaderKeyLine, Reading, NextLine
<1>5. CASE OtherLine
  <2>1. Silent
    BY <1>5 DEF Silent, OtherLine, GivesTo, Line, Tables
  <2> QED BY <1>5, <2>1, SilentKeeps DEF OtherLine, Reading, NextLine
<1>6. CASE TableLine
  BY <1>6, TableLineKeeps
<1>7. CASE TableIndexWraps
  <2>1. CASE Ends("panicked")
    BY <2>1, NoLineKeeps DEF Ends
  <2>2. CASE Len(Bytes(Line)) # KeyLen /\ NextLine /\ UNCHANGED tables
    <3>1. Silent
      BY <1>7, <2>2, KeySetAssumption DEF Silent, TableIndexWraps, GivesTo, Line
    <3> QED BY <1>7, <2>2, <3>1, SilentKeeps DEF TableIndexWraps, Reading, NextLine
  <2> QED BY <1>7, <2>1, <2>2 DEF TableIndexWraps
<1>8. CASE UNCHANGED kvars
  BY <1>8, NoLineKeeps DEF kvars
<1>9. CASE \E i \in SectionNo : SizeUnderflows(i) \/ NoMemory(i)
  BY <1>9, NoLineKeeps DEF SizeUnderflows, NoMemory, Dies
<1>10. CASE \E i \in SectionNo : ReadSection(i)
  BY <1>8, <1>10 DEF ReadSection, Fetched
<1>11. CASE Replaced \/ OpenFails \/ OpenReads \/ DecryptKeyArea \/ ReadFails
  BY <1>8, <1>11 DEF Replaced, OpenFails, OpenReads, Opened, DecryptKeyArea, ReadFails, Fetched
<1>12. CASE UNCHANGED allVars
  BY <1>8, <1>12 DEF allVars
<1> QED
  BY <1>2, <1>3, <1>4, <1>5, <1>6, <1>7, <1>8, <1>9, <1>10, <1>11, <1>12
  DEF NcaNext, Parse, KeyNext

\* Whatever the lines of the key file say, and however often they say it, each entry of
\* the four tables is the key of the last good line for it, and 0 in a gap.
THEOREM KeysAreTheFiles == NcaSpec => []KeysComeFromFile
<1>1. KInv => KeysComeFromFile
  BY DEF KInv
<1> QED BY InitKeys, StepKeys, <1>1, PTL DEF NcaSpec
-------------------------------------------------------------------------------
(* Bytes *)

\* Half of the values of a byte have their top bit set.
LEMMA ByteHalves ==
    \E half \in Nat \ {0} : /\ Base * Base = 2 * half /\ (Base * Base) \div 2 = half
                            /\ Byte = 0 .. 2 * half - 1
<1>1. PICK b \in Nat \ {0} : Base = 2 * b
  <2>1. Base \in Nat /\ Base >= 2 /\ Base % 2 = 0
    BY KeySetAssumption, NcaAssumption
  <2>2. Base = 2 * (Base \div 2) /\ Base \div 2 \in Nat \ {0}
    BY <2>1
  <2> QED BY <2>2
<1> DEFINE half == 2 * (b * b)
<1>2. b * b \in Nat \ {0} /\ Base * Base = 2 * half
  BY <1>1
<1>3. half \in Nat \ {0} /\ (2 * half) \div 2 = half
  BY <1>2
<1> HIDE DEF half
<1> QED BY <1>2, <1>3 DEF Byte

\* Multiplying a tweak by alpha gives a tweak.
LEMMA AlphaType ==
    ASSUME NEW t \in Block
    PROVE  gf_mul_alpha(t) \in Block
<1>1. PICK half \in Nat \ {0} : /\ Base * Base = 2 * half /\ (Base * Base) \div 2 = half
                                /\ Byte = 0 .. 2 * half - 1
  BY ByteHalves
<1>2. ASSUME NEW b \in Byte
      PROVE  /\ Top(b) \in {0, 1} /\ Shl(b) \in Byte /\ Shl(b) + 1 \in Byte
  <2>1. b \div half \in {0, 1}
    BY <1>1
  <2>2. (2 * b) % (2 * half) = IF b < half THEN 2 * b ELSE 2 * b - 2 * half
    <3>1. CASE b < half
      BY <1>1, <3>1
    <3>2. CASE b >= half
      <4>1. 2 * b = 1 * (2 * half) + (2 * b - 2 * half) /\ 2 * b - 2 * half \in 0 .. 2 * half - 1
        BY <1>1, <3>2
      <4> QED BY <1>1, <3>2, <4>1
    <3> QED BY <1>1, <3>1, <3>2
  <2>3. Top(b) = b \div half /\ Shl(b) = (2 * b) % (2 * half)
    BY <1>1 DEF Top, Shl
  <2> QED BY <1>1, <2>1, <2>2, <2>3
<1>3. \A k \in 1 .. BlockLen : t[k] \in Byte
  BY DEF Block
<1>4. BlockLen \in Nat \ {0}
  BY KeySetAssumption DEF BlockLen
<1>5. Xor(Shl(t[1]), Top(t[BlockLen]) * Poly) \in Byte
  <2>1. Top(t[BlockLen]) * Poly \in Byte
    <3>1. Top(t[BlockLen]) \in {0, 1} /\ Poly \in Byte
      BY <1>2, <1>3, <1>4, NcaAssumption
    <3>2. 0 * Poly = 0 /\ 1 * Poly = Poly /\ 0 \in Byte
      BY <1>1, <3>1
    <3> QED BY <3>1, <3>2
  <2> QED BY <1>2, <1>3, <1>4, <2>1, CipherAssumption
<1> DEFINE rest == [k \in 1 .. BlockLen - 1 |-> Shl(t[k + 1]) + Top(t[k])]
           first == Xor(Shl(t[1]), Top(t[BlockLen]) * Poly)
<1>6. rest \in Seq(Byte) /\ Len(rest) = BlockLen - 1
  <2>1. ASSUME NEW k \in 1 .. BlockLen - 1 PROVE Shl(t[k + 1]) + Top(t[k]) \in Byte
    <3>1. Top(t[k]) \in {0, 1} /\ Shl(t[k + 1]) \in Byte /\ Shl(t[k + 1]) + 1 \in Byte
      BY <1>2, <1>3, <1>4
    <3> QED BY <1>1, <3>1
  <2> QED BY <1>4, <2>1
<1>7. <<first>> \in Seq(Byte) /\ Len(<<first>>) = 1
  BY <1>5
<1> HIDE DEF rest, first
<1>8. <<first>> \o rest \in Seq(Byte) /\ Len(<<first>> \o rest) = BlockLen
  BY <1>4, <1>6, <1>7
<1>9. gf_mul_alpha(t) = <<first>> \o rest
  BY DEF gf_mul_alpha, rest, first
<1>10. \A x \in Seq(Byte) : Len(x) = BlockLen => x \in Block
  BY DEF Block
<1> QED BY <1>8, <1>9, <1>10

\* A key of the files as a cipher: what it encrypts it decrypts.
GoodKey(k) == \A b \in Block : Enc(k, b) \in Block /\ Dec(k, Enc(k, b)) = b

\* There is a tweak for every block of a sector.
LEMMA TweaksType ==
    ASSUME NEW key2, GoodKey(key2), NEW sector \in 0 .. NSectors - 1
    PROVE  Tweaks(key2, sector) \in [0 .. SectorBlocks - 1 -> Block]
<1> DEFINE N == SectorBlocks - 1
           base == Enc(key2, SectorBlock(sector))
           step == [p \in Block \X (1 .. N) |-> gf_mul_alpha(p[1])]
<1>1. N \in Nat
  BY NcaAssumption
<1>2. base \in Block
  <2>1. sector \in Byte /\ 0 \in Byte
    BY NcaAssumption, KeySetAssumption DEF Byte, NSectors
  <2>2. SectorBlock(sector) \in Block
    BY <2>1 DEF SectorBlock, Block
  <2> QED BY <2>2 DEF GoodKey
<1>3. step \in Steps(Block, N)
  BY AlphaType DEF Steps
<1>4. PICK g : Recurses(g, Block, base, N, step)
  <2> HIDE DEF N, base, step
  <2> QED BY <1>1, <1>2, <1>3, Recursion
<1> USE DEF Recurses
<1>5. g = [j \in 0 .. N |-> IF j = 0 THEN base ELSE gf_mul_alpha(g[j - 1])]
  <2>1. \A j \in 1 .. N : step[<<g[j - 1], j>>] = gf_mul_alpha(g[j - 1])
    <3> SUFFICES ASSUME NEW j \in 1 .. N
                 PROVE  step[<<g[j - 1], j>>] = gf_mul_alpha(g[j - 1])
      OBVIOUS
    <3>1. <<g[j - 1], j>> \in Block \X (1 .. N)
      BY <1>1, <1>4
    <3> QED BY <3>1
  <2> HIDE DEF step, N, base
  <2>2. ASSUME NEW j \in 0 .. N
        PROVE  g[j] = IF j = 0 THEN base ELSE gf_mul_alpha(g[j - 1])
    <3>1. CASE j = 0
      BY <1>4, <3>1
    <3>2. CASE j # 0
      <4>1. j \in 1 .. N
        BY <1>1, <3>2
      <4> QED BY <1>4, <2>1, <3>2, <4>1
    <3> QED BY <3>1, <3>2
  <2> QED BY <1>4, <2>2
<1> DEFINE t == Tweaks(key2, sector)
<1>6. t = [j \in 0 .. N |-> IF j = 0 THEN base ELSE gf_mul_alpha(t[j - 1])]
  <2> HIDE DEF base
  <2> QED BY <1>5 DEF Tweaks, base
<1>7. \A j \in 0 .. N : t[j] \in Block
  <2> DEFINE T == {j \in 0 .. N : t[j] \in Block}
  <2>1. 0 \in T
    BY <1>1, <1>2, <1>6
  <2>2. ASSUME NEW j \in 0 .. N - 1, j \in T PROVE j + 1 \in T
    <3>1. j + 1 \in 0 .. N /\ j + 1 # 0 /\ (j + 1) - 1 = j
      BY <1>1
    <3>2. t[j + 1] = gf_mul_alpha(t[j])
      <4> HIDE DEF t, N, base
      <4> QED BY <1>6, <3>1
    <3> QED BY <2>2, <3>1, <3>2, AlphaType
  <2>3. 0 .. N \subseteq T
    <3> HIDE DEF T, N
    <3> QED BY <1>1, <2>1, <2>2, SetInductionUpTo
  <2> QED BY <2>3
<1>8. t = [j \in 0 .. N |-> t[j]]
  <2> HIDE DEF t, N, base
  <2> QED BY <1>6
<1> QED
  <2> HIDE DEF t
  <2> QED BY <1>7, <1>8 DEF t

-------------------------------------------------------------------------------
(* Pieces *)

\* n pieces of len elements in a row.
Row(S, len, n) == [1 .. n * len -> S]

Piece(S, len) == [1 .. len -> S]

InRow(data, len, n, pieces) ==
    \A c \in 0 .. n - 1, k \in 1 .. len : data[c * len + k] = pieces[c + 1][k]

IsChunk(piece, data, len, c) == \A k \in 1 .. len : piece[k] = data[c * len + k]

\* Where a piece lies among n of them.
LEMMA Within ==
    ASSUME NEW len \in Nat \ {0}, NEW n \in Nat, NEW c \in 0 .. n - 1
    PROVE  /\ c * len \in Nat /\ n * len \in Nat
           /\ (c + 1) * len = c * len + len
           /\ c * len + len <= n * len
<1>1. n = c + 1 + (n - c - 1) /\ n - c - 1 \in Nat /\ c \in Nat
  OBVIOUS
<1>2. /\ c * len \in Nat /\ (c + 1) * len = c * len + len
      /\ n * len = (c + 1) * len + (n - c - 1) * len /\ (n - c - 1) * len \in Nat
  BY <1>1
<1> QED BY <1>2

\* A piece of data that n pieces make up.
LEMMA ChunkFacts ==
    ASSUME NEW S, NEW len \in Nat \ {0}, NEW n \in Nat, NEW data \in Row(S, len, n),
           NEW c \in 0 .. n - 1
    PROVE  /\ Chunk(data, len, c) \in Piece(S, len)
           /\ IsChunk(Chunk(data, len, c), data, len, c)
<1> DEFINE m == c * len + 1
           e == (c + 1) * len
           piece == SubSeq(data, m, e)
<1>1. c * len \in Nat /\ n * len \in Nat /\ e = c * len + len /\ c * len + len <= n * len
  BY Within
<1>2. \A i \in m .. e : data[i] \in S
  BY <1>1 DEF Row
<1>3. m \in Int /\ e \in Int /\ e - m + 1 = len /\ m <= e
  BY <1>1
<1>4. /\ piece \in Seq(S) /\ Len(piece) = len
      /\ \A i \in 1 .. len : piece[i] = data[m + i - 1]
  <2> HIDE DEF m, e
  <2> QED BY <1>2, <1>3, SubSeqProperties
<1>5. \A i \in 1 .. len : m + i - 1 = c * len + i
  BY <1>1
<1>6. piece = Chunk(data, len, c)
  BY DEF Chunk
<1> HIDE DEF piece, m, e
<1>7. piece \in Piece(S, len)
  BY <1>4 DEF Piece
<1>8. \A k \in 1 .. len : piece[k] = data[c * len + k]
  BY <1>4, <1>5
<1> QED BY <1>6, <1>7, <1>8 DEF IsChunk

\* The pieces in a row are as long as all of them, and are its pieces.
LEMMA Flattened ==
    ASSUME NEW S, NEW len \in Nat \ {0}, NEW n \in Nat \ {0},
           NEW pieces \in [1 .. n -> Piece(S, len)]
    PROVE  /\ FlattenSeq(pieces) \in Row(S, len, n)
           /\ InRow(FlattenSeq(pieces), len, n, pieces)
<1> DEFINE base == pieces[1]
           step == [p \in Seq(S) \X (1 .. n - 1) |-> p[1] \o pieces[p[2] + 1]]
<1>1. \A i \in 1 .. n : pieces[i] \in Seq(S) /\ Len(pieces[i]) = len
  BY DEF Piece
<1>2. base \in Seq(S) /\ n - 1 \in Nat
  BY <1>1
<1>3. step \in Steps(Seq(S), n - 1)
  <2> SUFFICES ASSUME NEW a \in Seq(S), NEW i \in 1 .. n - 1
               PROVE  a \o pieces[i + 1] \in Seq(S)
    BY DEF Steps
  <2> QED BY <1>1
<1>4. PICK g : Recurses(g, Seq(S), base, n - 1, step)
  <2> HIDE DEF base, step
  <2> QED BY <1>2, <1>3, Recursion
<1>5. \A i \in 1 .. n - 1 : g[i] = g[i - 1] \o pieces[i + 1]
  <2> SUFFICES ASSUME NEW i \in 1 .. n - 1 PROVE g[i] = g[i - 1] \o pieces[i + 1]
    OBVIOUS
  <2>1. <<g[i - 1], i>> \in Seq(S) \X (1 .. n - 1)
    BY <1>4 DEF Recurses
  <2> QED BY <1>4, <2>1 DEF Recurses
<1> DEFINE f == [i \in 1 .. n |-> g[i - 1]]
<1>6. f = [i \in 1 .. n |-> IF i = 1 THEN pieces[i] ELSE f[i - 1] \o pieces[i]]
  <2> SUFFICES ASSUME NEW i \in 1 .. n
               PROVE  f[i] = IF i = 1 THEN pieces[i] ELSE f[i - 1] \o pieces[i]
    OBVIOUS
  <2>1. CASE i = 1
    BY <1>4, <2>1 DEF Recurses
  <2>2. CASE i # 1
    <3>1. i - 1 \in 1 .. n - 1 /\ f[i - 1] = g[(i - 1) - 1] /\ f[i] = g[i - 1] /\ (i - 1) + 1 = i
      BY <2>2
    <3> QED BY <1>5, <2>2, <3>1
  <2> QED BY <2>1, <2>2
<1> DEFINE flatten == CHOOSE h : h = [i \in 1 .. n |-> IF i = 1 THEN pieces[i] ELSE h[i - 1] \o pieces[i]]
<1>7. flatten = [i \in 1 .. n |-> IF i = 1 THEN pieces[i] ELSE flatten[i - 1] \o pieces[i]]
  <2> HIDE DEF f
  <2> QED BY <1>6
<1>8. FlattenSeq(pieces) = flatten[n]
  <2>1. Len(pieces) = n
    OBVIOUS
  <2> QED BY <2>1 DEF FlattenSeq
<1> HIDE DEF flatten, f
<1> DEFINE Good(i) == /\ flatten[i] \in Seq(S)
                      /\ Len(flatten[i]) = i * len
                      /\ InRow(flatten[i], len, i, pieces)
           T == {i \in 0 .. n - 1 : Good(i + 1)}
<1>9. 0 \in T
  <2>1. flatten[1] = pieces[1]
    BY <1>7
  <2>2. \A c \in 0 .. 0, k \in 1 .. len : c * len + k = k /\ c + 1 = 1
    OBVIOUS
  <2>3. Good(1)
    BY <1>1, <2>1, <2>2 DEF InRow
  <2> HIDE DEF Good
  <2> QED BY <1>2, <2>3
<1>10. ASSUME NEW i \in 0 .. (n - 1) - 1, i \in T PROVE i + 1 \in T
  <2>1. /\ flatten[i + 1] \in Seq(S) /\ Len(flatten[i + 1]) = (i + 1) * len
        /\ \A c \in 0 .. i, k \in 1 .. len : flatten[i + 1][c * len + k] = pieces[c + 1][k]
    BY <1>10 DEF InRow
  <2>2. i + 2 \in 1 .. n /\ i + 2 # 1 /\ (i + 2) - 1 = i + 1
    OBVIOUS
  <2>3. flatten[i + 2] = flatten[i + 1] \o pieces[i + 2]
    BY <1>7, <2>2
  <2>4. pieces[i + 2] \in Seq(S) /\ Len(pieces[i + 2]) = len
    BY <1>1, <2>2
  <2> DEFINE a == flatten[i + 1]
             b == pieces[i + 2]
             L == (i + 1) * len
  <2>5. /\ a \o b \in Seq(S)
        /\ Len(a \o b) = L + len
        /\ \A j \in 1 .. L + len : (a \o b)[j] = IF j <= L THEN a[j] ELSE b[j - L]
    <3>1. a \in Seq(S) /\ b \in Seq(S) /\ Len(a) = L /\ Len(b) = len
      BY <2>1, <2>4
    <3> HIDE DEF a, b, L
    <3> QED BY <3>1, ConcatProperties, ZenonT(40)
  <2>6. (i + 2) * len = L + len /\ L \in Nat
    OBVIOUS
  <2>7. ASSUME NEW c \in 0 .. i + 1, NEW k \in 1 .. len
        PROVE  (a \o b)[c * len + k] = pieces[c + 1][k]
    <3>1. CASE c = i + 1
      <4>1. c * len = L /\ c + 1 = i + 2
        BY <3>1
      <4>2. L + k \in 1 .. L + len /\ ~(L + k <= L) /\ (L + k) - L = k
        <5> HIDE DEF L
        <5> QED BY <2>6
      <4>3. (a \o b)[L + k] = b[k]
        <5> HIDE DEF L, a, b
        <5> QED BY <2>5, <4>2
      <4> QED BY <4>1, <4>3
    <3>2. CASE c \in 0 .. i
      <4> DEFINE at0 == c * len
      <4>1. at0 \in Nat /\ at0 + len <= L /\ L \in Nat
        BY <2>6, <3>2, Within
      <4>2. a[at0 + k] = pieces[c + 1][k]
        BY <2>1, <3>2
      <4>3. (a \o b)[at0 + k] = a[at0 + k]
        <5> HIDE DEF at0, L, a, b
        <5> QED BY <2>5, <4>1
      <4>4. (a \o b)[at0 + k] = pieces[c + 1][k]
        <5> HIDE DEF at0, L, a, b
        <5> QED BY <4>2, <4>3
      <4> QED BY <4>4
    <3>3. c = i + 1 \/ c \in 0 .. i
      OBVIOUS
    <3> QED BY <3>1, <3>2, <3>3, Zenon
  <2>8. Good(i + 2)
    <3>1. (i + 2) - 1 = i + 1
      OBVIOUS
    <3>2. a \o b \in Seq(S) /\ Len(a \o b) = (i + 2) * len
      BY <2>5, <2>6
    <3>3. InRow(a \o b, len, i + 2, pieces)
      BY <2>7, <3>1 DEF InRow
    <3> QED BY <2>3, <3>2, <3>3
  <2>9. (i + 1) + 1 = i + 2 /\ i + 1 \in 0 .. n - 1
    OBVIOUS
  <2> HIDE DEF Good
  <2> QED BY <2>8, <2>9
<1>11. Good(n)
  <2>1. 0 .. n - 1 \subseteq T
    <3> HIDE DEF T
    <3> QED BY <1>2, <1>9, <1>10, SetInductionUpTo
  <2>2. n - 1 \in 0 .. n - 1 /\ (n - 1) + 1 = n
    OBVIOUS
  <2> HIDE DEF Good
  <2> QED BY <2>1, <2>2
<1> QED BY <1>8, <1>11 DEF Row

\* Cutting data into pieces and putting them in a row gives the data.
LEMMA FlattenChunks ==
    ASSUME NEW S, NEW len \in Nat \ {0}, NEW n \in Nat \ {0}, NEW data \in Row(S, len, n)
    PROVE  FlattenSeq([c \in 1 .. n |-> Chunk(data, len, c - 1)]) = data
<1> DEFINE pieces == [c \in 1 .. n |-> Chunk(data, len, c - 1)]
           flat == FlattenSeq(pieces)
<1>0. ASSUME NEW c \in 0 .. n - 1, NEW k \in 1 .. len
      PROVE  Chunk(data, len, c)[k] = data[c * len + k]
  <2>1. IsChunk(Chunk(data, len, c), data, len, c)
    BY ChunkFacts
  <2> QED BY <2>1 DEF IsChunk
<1>1. pieces \in [1 .. n -> Piece(S, len)]
  <2> SUFFICES ASSUME NEW c \in 1 .. n PROVE Chunk(data, len, c - 1) \in Piece(S, len)
    OBVIOUS
  <2>1. c - 1 \in 0 .. n - 1
    OBVIOUS
  <2> QED BY <2>1, ChunkFacts
<1>2. flat \in Row(S, len, n) /\ InRow(flat, len, n, pieces)
  <2> HIDE DEF pieces
  <2> QED BY <1>1, Flattened
<1>3. ASSUME NEW i \in 1 .. n * len PROVE flat[i] = data[i]
  <2> DEFINE c == (i - 1) \div len
             k == ((i - 1) % len) + 1
  <2>1. /\ c \in 0 .. n - 1 /\ k \in 1 .. len /\ i = c * len + k
    OBVIOUS
  <2> HIDE DEF c, k
  <2>2. flat[c * len + k] = pieces[c + 1][k]
    <3> HIDE DEF flat, pieces
    <3> QED BY <1>2, <2>1 DEF InRow
  <2>3. pieces[c + 1] = Chunk(data, len, c)
    BY <2>1
  <2>4. Chunk(data, len, c)[k] = data[c * len + k]
    BY <1>0, <2>1
  <2> HIDE DEF flat, pieces
  <2> QED BY <2>1, <2>2, <2>3, <2>4
<1> HIDE DEF flat
<1>4. flat = data
  BY <1>2, <1>3 DEF Row
<1> QED BY <1>4 DEF flat

\* The pieces that were put in a row come out of it.
LEMMA ChunkOfFlat ==
    ASSUME NEW S, NEW len \in Nat \ {0}, NEW n \in Nat \ {0},
           NEW pieces \in [1 .. n -> Piece(S, len)], NEW c \in 0 .. n - 1
    PROVE  Chunk(FlattenSeq(pieces), len, c) = pieces[c + 1]
<1> DEFINE flat == FlattenSeq(pieces)
           chunk == Chunk(flat, len, c)
<1>1. flat \in Row(S, len, n) /\ InRow(flat, len, n, pieces)
  BY Flattened
<1>2. chunk \in Piece(S, len) /\ IsChunk(chunk, flat, len, c)
  <2> HIDE DEF flat
  <2> QED BY <1>1, ChunkFacts
<1>3. c + 1 \in 1 .. n
  OBVIOUS
<1>4. pieces[c + 1] \in Piece(S, len)
  BY <1>3
<1>5. ASSUME NEW k \in 1 .. len PROVE chunk[k] = pieces[c + 1][k]
  <2> HIDE DEF flat, chunk
  <2>1. chunk[k] = flat[c * len + k]
    BY <1>2 DEF IsChunk
  <2>2. flat[c * len + k] = pieces[c + 1][k]
    BY <1>1 DEF InRow
  <2> QED BY <2>1, <2>2
<1> HIDE DEF chunk, flat
<1>6. chunk = pieces[c + 1]
  BY <1>2, <1>4, <1>5 DEF Piece
<1> QED BY <1>6 DEF chunk, flat
-------------------------------------------------------------------------------
(* XTS *)

\* An exclusive or with a tweak, and the same again.
LEMMA XorTwice ==
    ASSUME NEW a \in Block, NEW b \in Block
    PROVE  XorBlock(a, b) \in Block /\ XorBlock(XorBlock(a, b), b) = a
<1>1. \A k \in 1 .. BlockLen : a[k] \in Byte /\ b[k] \in Byte
  BY DEF Block
<1>2. \A k \in 1 .. BlockLen : Xor(a[k], b[k]) \in Byte /\ Xor(Xor(a[k], b[k]), b[k]) = a[k]
  BY <1>1, CipherAssumption
<1>3. XorBlock(a, b) \in Block
  BY <1>2 DEF XorBlock, Block
<1>4. \A k \in 1 .. BlockLen : XorBlock(a, b)[k] = Xor(a[k], b[k])
  BY DEF XorBlock
<1>5. XorBlock(XorBlock(a, b), b) = [k \in 1 .. BlockLen |-> a[k]]
  BY <1>2, <1>4 DEF XorBlock
<1> QED BY <1>3, <1>5 DEF Block

\* A sector that was encrypted decrypts to what it was, whatever the block cipher.
LEMMA SectorInverse ==
    ASSUME NEW key1, GoodKey(key1), NEW key2, GoodKey(key2), NEW sector \in 0 .. NSectors - 1,
           NEW data \in Piece(Byte, SectorLen)
    PROVE  /\ xts_sector("encrypt", key1, key2, sector, data) \in Piece(Byte, SectorLen)
           /\ xts_sector("decrypt", key1, key2, sector, xts_sector("encrypt", key1, key2, sector, data)) = data
<1> DEFINE t == Tweaks(key2, sector)
           n == SectorBlocks
           plain(j) == Chunk(data, BlockLen, j)
           coded(j) == XorBlock(Enc(key1, XorBlock(plain(j), t[j])), t[j])
           pieces == [j \in 1 .. n |-> coded(j - 1)]
           flat == FlattenSeq(pieces)
<1>1. BlockLen \in Nat \ {0} /\ n \in Nat \ {0}
  BY KeySetAssumption, NcaAssumption DEF BlockLen
<1>2. t \in [0 .. n - 1 -> Block]
  BY TweaksType
<1>3. Piece(Byte, SectorLen) = Row(Byte, BlockLen, n) /\ Piece(Byte, BlockLen) = Block
  BY DEF Piece, Row, SectorLen, Block
<1>4. ASSUME NEW j \in 0 .. n - 1
      PROVE  /\ plain(j) \in Block /\ coded(j) \in Block
             /\ XorBlock(Dec(key1, XorBlock(coded(j), t[j])), t[j]) = plain(j)
  <2>1. plain(j) \in Block
    BY <1>1, <1>3, ChunkFacts
  <2>2. t[j] \in Block
    BY <1>2
  <2> HIDE DEF t, plain
  <2> DEFINE x == XorBlock(plain(j), t[j])
  <2>3. x \in Block /\ XorBlock(x, t[j]) = plain(j)
    BY <2>1, <2>2, XorTwice
  <2> HIDE DEF x
  <2>4. Enc(key1, x) \in Block /\ Dec(key1, Enc(key1, x)) = x
    BY <2>3 DEF GoodKey
  <2>5. coded(j) \in Block /\ XorBlock(coded(j), t[j]) = Enc(key1, x)
    BY <2>2, <2>4, XorTwice DEF x
  <2> QED BY <2>1, <2>3, <2>4, <2>5
<1>5. pieces \in [1 .. n -> Piece(Byte, BlockLen)]
  <2> HIDE DEF coded
  <2> QED BY <1>1, <1>3, <1>4
<1>6. flat = xts_sector("encrypt", key1, key2, sector, data)
  BY DEF xts_sector, Crypt
<1>7. flat \in Row(Byte, BlockLen, n)
  <2> HIDE DEF pieces
  <2> QED BY <1>1, <1>5, Flattened
<1>8. ASSUME NEW j \in 0 .. n - 1 PROVE Chunk(flat, BlockLen, j) = coded(j)
  <2>1. Chunk(flat, BlockLen, j) = pieces[j + 1]
    <3> HIDE DEF pieces
    <3> QED BY <1>1, <1>5, ChunkOfFlat
  <2> HIDE DEF coded
  <2> QED BY <1>1, <2>1
<1> DEFINE back(j) == XorBlock(Dec(key1, XorBlock(Chunk(flat, BlockLen, j), t[j])), t[j])
<1>9. xts_sector("decrypt", key1, key2, sector, flat) = FlattenSeq([j \in 1 .. n |-> back(j - 1)])
  <2> HIDE DEF flat
  <2> QED BY DEF xts_sector, Crypt
<1>10. \A j \in 0 .. n - 1 : back(j) = plain(j)
  <2> HIDE DEF flat, coded, plain, t
  <2> QED BY <1>4, <1>8
<1>11. [j \in 1 .. n |-> back(j - 1)] = [j \in 1 .. n |-> plain(j - 1)]
  <2>1. \A j \in 1 .. n : j - 1 \in 0 .. n - 1
    BY <1>1
  <2> HIDE DEF back, plain
  <2> QED BY <1>10, <2>1
<1>12. FlattenSeq([j \in 1 .. n |-> plain(j - 1)]) = data
  BY <1>1, <1>3, FlattenChunks
<1> HIDE DEF flat, back, plain
<1> QED BY <1>3, <1>6, <1>7, <1>9, <1>11, <1>12

\* ... and so does a whole header.
LEMMA HeaderInverse ==
    ASSUME NEW key, GoodKey(Chunk(key, KeyLen, 0)), GoodKey(Chunk(key, KeyLen, 1)),
           NEW data \in Piece(Byte, HeaderLen)
    PROVE  xts_decrypt_header(key, xts_header("encrypt", key, data)) = data
<1> DEFINE key1 == Chunk(key, KeyLen, 0)
           key2 == Chunk(key, KeyLen, 1)
           n == NSectors
           plain(s) == Chunk(data, SectorLen, s)
           coded(s) == xts_sector("encrypt", key1, key2, s, plain(s))
           pieces == [s \in 1 .. n |-> coded(s - 1)]
           flat == FlattenSeq(pieces)
           back(s) == xts_sector("decrypt", key1, key2, s, Chunk(flat, SectorLen, s))
<1>1. SectorLen \in Nat \ {0} /\ n \in Nat \ {0}
  BY KeySetAssumption, NcaAssumption DEF BlockLen, SectorLen, NSectors
<1>2. Piece(Byte, HeaderLen) = Row(Byte, SectorLen, n)
  BY DEF Piece, Row, HeaderLen
<1>3. ASSUME NEW s \in 0 .. n - 1
      PROVE  /\ coded(s) \in Piece(Byte, SectorLen)
             /\ xts_sector("decrypt", key1, key2, s, coded(s)) = plain(s)
  <2>1. plain(s) \in Piece(Byte, SectorLen)
    BY <1>1, <1>2, ChunkFacts
  <2> HIDE DEF key1, key2, plain
  <2> QED BY <2>1, SectorInverse DEF key1, key2
<1>4. pieces \in [1 .. n -> Piece(Byte, SectorLen)]
  <2> HIDE DEF coded
  <2> QED BY <1>1, <1>3
<1>5. flat = xts_header("encrypt", key, data)
  BY DEF xts_header
<1>6. xts_decrypt_header(key, flat) = FlattenSeq([s \in 1 .. n |-> back(s - 1)])
  <2> HIDE DEF flat
  <2> QED BY DEF xts_header, xts_decrypt_header
<1>7. ASSUME NEW s \in 0 .. n - 1 PROVE back(s) = plain(s)
  <2>1. Chunk(flat, SectorLen, s) = pieces[s + 1]
    <3> HIDE DEF pieces
    <3> QED BY <1>1, <1>4, ChunkOfFlat
  <2>2. Chunk(flat, SectorLen, s) = coded(s)
    <3> HIDE DEF coded, flat
    <3> QED BY <1>1, <2>1
  <2> HIDE DEF coded, plain, flat
  <2> QED BY <1>3, <2>2
<1>8. [s \in 1 .. n |-> back(s - 1)] = [s \in 1 .. n |-> plain(s - 1)]
  <2>1. \A s \in 1 .. n : s - 1 \in 0 .. n - 1
    BY <1>1
  <2> HIDE DEF back, plain
  <2> QED BY <1>7, <2>1
<1>9. FlattenSeq([s \in 1 .. n |-> plain(s - 1)]) = data
  BY <1>1, <1>2, FlattenChunks
<1> HIDE DEF flat, back, plain
<1> QED BY <1>5, <1>6, <1>8, <1>9
-------------------------------------------------------------------------------
(* Types *)

\* What replace leaves of a text is a text.
LEMMA HexText ==
    ASSUME NEW line, line.value \in Seq(Nat)
    PROVE  Hex(line) \in Seq(Nat)
<1> DEFINE v == line.value
           N == Len(v)
           next(kept, n) == IF v[n] = Space THEN kept ELSE Append(kept, v[n])
           step == [p \in Seq(Nat) \X (1 .. N) |-> next(p[1], p[2])]
<1>1. N \in Nat /\ <<>> \in Seq(Nat)
  OBVIOUS
<1>2. \A kept \in Seq(Nat), n \in 1 .. N : next(kept, n) \in Seq(Nat)
  <2>1. \A n \in 1 .. N : v[n] \in Nat
    OBVIOUS
  <2> HIDE DEF v, N
  <2> QED BY <2>1
<1>3. step \in Steps(Seq(Nat), N)
  <2> HIDE DEF next, N
  <2> QED BY <1>2 DEF Steps
<1>4. PICK g : Recurses(g, Seq(Nat), <<>>, N, step)
  <2> HIDE DEF N, step
  <2> QED BY <1>1, <1>3, Recursion
<1>5. \A n \in 1 .. N : g[n] = next(g[n - 1], n)
  <2> SUFFICES ASSUME NEW n \in 1 .. N PROVE g[n] = next(g[n - 1], n)
    OBVIOUS
  <2>1. <<g[n - 1], n>> \in Seq(Nat) \X (1 .. N)
    <3> HIDE DEF next, N, step
    <3> QED BY <1>1, <1>4, SMTT(30) DEF Recurses
  <2>2. step[<<g[n - 1], n>>] = next(g[n - 1], n)
    <3> HIDE DEF next, N
    <3> QED BY <2>1
  <2> HIDE DEF next, N, step
  <2> QED BY <1>4, <2>2 DEF Recurses
<1>6. g = [n \in 0 .. N |-> IF n = 0 THEN <<>> ELSE next(g[n - 1], n)]
  <2>1. ASSUME NEW n \in 0 .. N
        PROVE  g[n] = IF n = 0 THEN <<>> ELSE next(g[n - 1], n)
    <3> HIDE DEF next, N, step
    <3>1. CASE n = 0
      BY <1>4, <3>1 DEF Recurses
    <3>2. CASE n # 0
      <4>1. n \in 1 .. N
        BY <1>1, <3>2
      <4> QED BY <1>5, <3>2, <4>1
    <3> QED BY <3>1, <3>2
  <2> HIDE DEF next, N, step
  <2> QED BY <1>4, <2>1 DEF Recurses
<1> DEFINE kept == CHOOSE k : k = [n \in 0 .. N |-> IF n = 0 THEN <<>> ELSE next(k[n - 1], n)]
<1>7. kept = [n \in 0 .. N |-> IF n = 0 THEN <<>> ELSE next(kept[n - 1], n)]
  <2> HIDE DEF next, N
  <2> QED BY <1>6
<1>8. Hex(line) = kept[N]
  BY DEF Hex
<1> HIDE DEF kept
<1> DEFINE T == {n \in 0 .. N : kept[n] \in Seq(Nat)}
<1>9. 0 \in T
  <2> HIDE DEF next, N
  <2> QED BY <1>1, <1>7
<1>10. ASSUME NEW n \in 0 .. N - 1, n \in T PROVE n + 1 \in T
  <2>1. n + 1 \in 1 .. N /\ n + 1 # 0 /\ (n + 1) - 1 = n
    <3> HIDE DEF N
    <3> QED BY <1>1
  <2>2. kept[n + 1] = next(kept[n], n + 1)
    <3> HIDE DEF next, N
    <3> QED BY <1>1, <1>7, <2>1
  <2> HIDE DEF next, N
  <2> QED BY <1>1, <1>2, <1>10, <2>1, <2>2
<1>11. 0 .. N \subseteq T
  <2> HIDE DEF T, N
  <2> QED BY <1>1, <1>9, <1>10, SetInductionUpTo
<1> HIDE DEF N
<1> QED BY <1>1, <1>8, <1>11

\* Two characters that are a pair give a byte.
LEMMA PairIsByte ==
    ASSUME NEW text, NEW k, IsPair(text, k)
    PROVE  PairValue(text, k) \in Byte
<1> DEFINE a == text[2 * k - 1]
           b == text[2 * k]
<1>1. Base \in Nat /\ Base >= 2
  BY KeySetAssumption
<1>2. Base \in Nat /\ Base * Base \in Nat /\ Base <= Base * Base
  BY <1>1
<1>3. a \in Digit \cup {Plus} /\ b \in Digit
  BY DEF IsPair
<1>4. PairValue(text, k) = IF a = Plus THEN b ELSE Base * a + b
  BY DEF PairValue
<1> HIDE DEF a, b
<1>5. CASE a = Plus
  BY <1>2, <1>3, <1>4, <1>5 DEF Digit, Byte
<1>6. CASE a \in Digit /\ a # Plus
  <2>1. a \in 0 .. Base - 1 /\ Base - 1 - a \in Nat
    BY <1>1, <1>6 DEF Digit
  <2>2. /\ Base * a \in Nat /\ Base * (Base - 1 - a) \in Nat
        /\ Base * Base = Base * a + Base + Base * (Base - 1 - a)
    BY <1>1, <2>1
  <2> QED BY <1>1, <1>2, <1>3, <1>4, <1>6, <2>2 DEF Digit, Byte
<1> QED BY <1>3, <1>5, <1>6

\* A key of the right length that a line gives is a key of bytes.
LEMMA DecodedKey ==
    ASSUME NEW line, line.value \in Seq(Nat), Gives(line)
    PROVE  Bytes(line) \in Seq(Byte)
<1> DEFINE text == Hex(line)
           n == Len(text) \div 2
<1>1. n \in Nat
  <2>1. Len(text) \in Nat
    BY HexText
  <2> QED BY <2>1
<1>2. \A k \in 1 .. n : PairValue(text, k) \in Byte
  BY PairIsByte DEF Gives, Decodes, Pairs
<1>3. Bytes(line) = [k \in 1 .. n |-> PairValue(text, k)]
  BY DEF Bytes, decode_hex, Pairs
<1> HIDE DEF n, text
<1> QED BY <1>1, <1>2, <1>3

\* The type invariant and the file that is parsed, which is one of the key files.
NInv ==
    /\ keyFile \in KeyFiles
    /\ tables \in [Tables -> Seq(Piece(Byte, KeyLen))]
    /\ nca \in {NoNca} \cup DOMAIN Ncas
    /\ NcaTypeOK

\* A line of a key file is made of text.
LEMMA KeyFileLines ==
    ASSUME keyFile \in KeyFiles, NEW n \in 1 .. Len(keyFile)
    PROVE  Len(keyFile) \in Nat /\ keyFile[n].value \in Seq(Nat)
<1> DEFINE Lines == [assigns : BOOLEAN, of : Tables \cup {"header_key", "other"},
                     suffix : Seq(Nat), value : Seq(Nat)]
<1>1. keyFile \in Seq(Lines)
  BY KeySetAssumption
<1>2. \A line \in Lines : line.value \in Seq(Nat)
  OBVIOUS
<1> HIDE DEF Lines
<1> QED BY <1>1, <1>2

\* A table with what a good line stores in it.
LEMMA StoredType ==
    ASSUME NEW v \in Seq(Piece(Byte, KeyLen)), Len(v) <= Room, NEW idx \in Nat, idx < Room,
           NEW bytes \in Seq(Byte)
    PROVE  /\ Stored(v, idx, bytes) \in Seq(Piece(Byte, KeyLen))
           /\ Len(Stored(v, idx, bytes)) <= Room
<1> DEFINE long == ensure_len(v, idx + 1)
           S == Piece(Byte, KeyLen)
<1>1. ZeroKey \in S
  <2>1. 0 \in Byte
    <3>1. Base * Base \in Nat \ {0}
      BY KeySetAssumption
    <3> QED BY <3>1 DEF Byte
  <2> QED BY <2>1 DEF ZeroKey, Piece
<1>2. long \in Seq(S) /\ Len(long) = IF Len(v) < idx + 1 THEN idx + 1 ELSE Len(v)
  <2> HIDE DEF S
  <2>1. v \in Seq(S)
    BY DEF S
  <2> QED BY <1>1, <2>1, EnsureLen
<1>3. Len(long) <= Room /\ idx + 1 \in 1 .. Len(long)
  <2> HIDE DEF long
  <2>1. Len(v) \in Nat /\ Room \in Nat
    BY KeySetAssumption
  <2> QED BY <1>2, <2>1
<1>4. Len(bytes) = KeyLen => bytes \in S
  BY DEF Piece
<1>5. Stored(v, idx, bytes) = IF Len(bytes) = KeyLen THEN [long EXCEPT ![idx + 1] = bytes] ELSE long
  BY DEF Stored
<1>6. ASSUME bytes \in S
      PROVE  /\ [long EXCEPT ![idx + 1] = bytes] \in Seq(S)
             /\ Len([long EXCEPT ![idx + 1] = bytes]) = Len(long)
  <2> HIDE DEF long, S
  <2> QED BY <1>2, <1>3, <1>6
<1> HIDE DEF long
<1> QED BY <1>2, <1>3, <1>4, <1>5, <1>6

\* Nothing is read, no file is opened.
LEMMA InitTypes == NcaInit => NInv
<1> SUFFICES ASSUME NcaInit PROVE NInv
  OBVIOUS
<1>1. keyFile \in KeyFiles /\ Len(keyFile) \in Nat
  BY KeySetAssumption DEF NcaInit, KeyInit
<1>2. KeyTypeOK
  BY <1>1, KeySetAssumption DEF KeyTypeOK, NcaInit, KeyInit, NoKey
<1>3. tables \in [Tables -> Seq(Piece(Byte, KeyLen))]
  BY DEF NcaInit, KeyInit
<1> QED BY <1>1, <1>2, <1>3 DEF NInv, NcaTypeOK, NcaInit

\* What the parser of keys does to the types.
LEMMA KeyTypes ==
    ASSUME NInv, [KeyNext]_kvars
    PROVE  /\ KeyTypeOK' /\ keyFile' = keyFile
           /\ tables' \in [Tables -> Seq(Piece(Byte, KeyLen))]
<1>1. /\ keyFile \in KeyFiles /\ at \in 0 .. Len(keyFile) /\ Len(keyFile) \in Nat
      /\ header_key = NoKey \/ Len(header_key) = 2 * KeyLen
      /\ tables \in [Tables -> Seq(Piece(Byte, KeyLen))]
      /\ \A t \in Tables : tables[t] \in Seq([1 .. KeyLen -> Byte]) /\ Len(tables[t]) <= Room
      /\ status \in {"parsing", "parsed", "failed", "panicked", "aborted"}
  BY KeySetAssumption DEF NInv, NcaTypeOK, KeyTypeOK
<1>2. ASSUME /\ status' \in {"parsing", "parsed", "failed", "panicked", "aborted"}
             /\ keyFile' = keyFile /\ at' \in 0 .. Len(keyFile)
             /\ header_key' = NoKey \/ Len(header_key)' = 2 * KeyLen
             /\ UNCHANGED tables
      PROVE  /\ KeyTypeOK' /\ keyFile' = keyFile
             /\ tables' \in [Tables -> Seq(Piece(Byte, KeyLen))]
  BY <1>1, <1>2 DEF KeyTypeOK
<1>3. CASE LoadFails \/ LineSplits \/ TableIsFull \/ ParseEnds
  BY <1>1, <1>2, <1>3 DEF LoadFails, LineSplits, TableIsFull, ParseEnds, Ends
<1>4. CASE SkipLine \/ OtherLine
  BY <1>1, <1>2, <1>4 DEF SkipLine, OtherLine, NextLine, Reading
<1>5. CASE HeaderKeyLine
  <2>1. header_key' = NoKey \/ Len(header_key)' = 2 * KeyLen
    BY <1>1, <1>5 DEF HeaderKeyLine
  <2> QED BY <1>1, <1>2, <1>5, <2>1 DEF HeaderKeyLine, NextLine, Reading
<1>6. CASE TableIndexWraps
  BY <1>1, <1>2, <1>6 DEF TableIndexWraps, Ends, NextLine, Reading
<1>7. CASE TableLine
  <2> DEFINE t0 == Line.of
             new == Stored(tables[t0], Index(Line), Bytes(Line))
  <2>1. at + 1 \in 1 .. Len(keyFile) /\ Gives(Line) /\ t0 \in Tables /\ Line = keyFile[at + 1]
    BY <1>1, <1>7 DEF TableLine, Reading, Line
  <2>2. Bytes(Line) \in Seq(Byte)
    <3>1. Line.value \in Seq(Nat)
      BY <1>1, <2>1, KeyFileLines
    <3> QED BY <2>1, <3>1, DecodedKey
  <2>3. Index(Line) \in Nat /\ Index(Line) < Room
    <3>1. Index(Line) # NoIndex /\ Index(Line) < Room
      BY <1>7 DEF TableLine
    <3>2. Index(Line) = NoIndex \/ Index(Line) \in 0 .. UsizeMod - 1
      BY IndexIsUsize
    <3> QED BY <3>1, <3>2
  <2>4. tables[t0] \in Seq(Piece(Byte, KeyLen)) /\ Len(tables[t0]) <= Room
    BY <1>1, <2>1
  <2>5. new \in Seq(Piece(Byte, KeyLen)) /\ Len(new) <= Room
    <3> HIDE DEF t0
    <3> QED BY <2>2, <2>3, <2>4, StoredType
  <2>6. tables' = [tables EXCEPT ![t0] = new]
    BY <1>7 DEF TableLine
  <2> HIDE DEF t0, new
  <2>7. tables' \in [Tables -> Seq(Piece(Byte, KeyLen))]
    BY <1>1, <2>1, <2>5, <2>6
  <2>8. \A t \in Tables : Len(tables'[t]) <= Room
    BY <1>1, <2>1, <2>5, <2>6
  <2>9. keyFile' = keyFile /\ at' = at + 1 /\ status' = status /\ header_key' = header_key
    BY <1>7 DEF TableLine, NextLine
  <2>10. \A t \in Tables : tables'[t] \in Seq([1 .. KeyLen -> Byte])
    BY <2>7 DEF Piece
  <2> QED BY <1>1, <2>1, <2>7, <2>8, <2>9, <2>10 DEF KeyTypeOK
<1>8. CASE UNCHANGED kvars
  BY <1>1, <1>2, <1>8 DEF kvars
<1> QED BY <1>3, <1>4, <1>5, <1>6, <1>7, <1>8 DEF KeyNext

\* A header is told from none.
LEMMA SomeHeader == \A data : from_decrypted(data) # NoHeader
<1> SUFFICES ASSUME NEW data, from_decrypted(data) = NoHeader PROVE FALSE
  OBVIOUS
<1>1. "rights_id" \in DOMAIN from_decrypted(data)
  BY DEF from_decrypted
<1>2. "rights_id" \notin DOMAIN NoHeader
  BY DEF NoHeader
<1> QED BY <1>1, <1>2

\* Every action keeps the types.
LEMMA StepTypes == NInv /\ [NcaNext]_allVars => NInv'
<1> SUFFICES ASSUME NInv, [NcaNext]_allVars PROVE NInv'
  OBVIOUS
<1>1. NoNca \notin DOMAIN Ncas
  <2>1. DOMAIN Ncas = 1 .. Len(Ncas)
    BY NcaAssumption
  <2> QED BY <2>1 DEF NoNca
<1>2. ASSUME KeyTypeOK', keyFile' = keyFile, tables' \in [Tables -> Seq(Piece(Byte, KeyLen))],
             UNCHANGED nvars
      PROVE  NInv'
  BY <1>2 DEF NInv, NcaTypeOK, nvars
<1>3. CASE Parse \/ UNCHANGED allVars
  <2>1. [KeyNext]_kvars /\ UNCHANGED nvars
    BY <1>3 DEF Parse, allVars
  <2> QED BY <1>2, <2>1, KeyTypes
<1>4. ASSUME UNCHANGED kvars
      PROVE  KeyTypeOK' /\ keyFile' = keyFile /\ tables' \in [Tables -> Seq(Piece(Byte, KeyLen))]
  <2>1. [KeyNext]_kvars
    BY <1>4
  <2> QED BY <2>1, KeyTypes
<1> USE DEF NInv, NcaTypeOK
<1>5. CASE Replaced
  BY <1>4, <1>5 DEF Replaced
<1>6. CASE OpenFails
  BY <1>4, <1>6, <1>1 DEF OpenFails, Opened
<1>7. CASE OpenReads
  <2>1. PICK data : Opened(from_decrypted(data), nca)
    BY <1>7 DEF OpenReads
  <2>2. header' # NoHeader /\ source' = nca /\ nca' = nca /\ key_area' = NotAsked /\ fetched' = Nothing
    BY <2>1, SomeHeader DEF Opened
  <2>3. nca # NoNca /\ UNCHANGED kvars
    BY <1>7, <2>1 DEF OpenReads, Opened
  <2> QED BY <1>4, <2>2, <2>3
<1>8. CASE DecryptKeyArea
  BY <1>4, <1>8 DEF DecryptKeyArea
<1>9. CASE ReadFails
  BY <1>4, <1>9 DEF ReadFails, Fetched
<1>10. CASE \E i \in SectionNo : SizeUnderflows(i) \/ NoMemory(i)
  <2>1. /\ status' \in {"panicked", "aborted"}
        /\ UNCHANGED <<checks, keyFile, at, header_key, tables, raw, nvars>>
    BY <1>10 DEF SizeUnderflows, NoMemory, Dies
  <2> QED BY <1>2, <2>1 DEF KeyTypeOK
<1>11. CASE \E i \in SectionNo : ReadSection(i)
  <2>1. PICK i \in SectionNo : ReadSection(i)
    BY <1>11
  <2>2. /\ fetched'.section = i /\ fetched'.from = nca
        /\ UNCHANGED <<kvars, nca, header, source, key_area>>
        /\ nca # NoNca /\ header # NoHeader
    BY <2>1 DEF ReadSection, Fetched
  <2> QED BY <1>4, <2>2
<1> QED BY <1>3, <1>5, <1>6, <1>7, <1>8, <1>9, <1>10, <1>11 DEF NcaNext

\* The state is of its type: in particular every entry of a table is a key of bytes, the
\* bytes decode_hex makes of a text are bytes, and no table is longer than the memory.
THEOREM NcaTypeCorrect == NcaSpec => []NcaTypeOK
<1>1. NInv => NcaTypeOK
  BY DEF NInv
<1> QED BY InitTypes, StepTypes, <1>1, PTL DEF NcaSpec
-------------------------------------------------------------------------------
(* Calls *)

\* The header is the one of the file it was opened from, with the header key there is.
HeaderKept ==
    header # NoHeader =>
        /\ status # "parsing" /\ source \in DOMAIN Ncas
        /\ Len(Ncas[source].bytes) >= HeaderLen
        /\ header = from_decrypted(xts_decrypt_header(header_key,
                                                      SubSeq(Ncas[source].bytes, 1, HeaderLen)))
        /\ header.magic \in Magics

\* The key area is the header's, with the tables there are.
KeyAreaKept ==
    key_area.asked => header # NoHeader /\ key_area.keys = decrypt_key_area(header)

\* What was read are the bytes the header tells, of the file that was on the disk.
FetchedKept ==
    fetched # Nothing =>
        LET entry == header.sections[fetched.section]
            from  == byte_offset(entry)
            size  == byte_size(entry)
            bytes == Ncas[fetched.from].bytes
        IN /\ header # NoHeader
           /\ fetched.section \in SectionNo /\ fetched.from \in DOMAIN Ncas
           /\ size = 0 \/ from + size <= Len(bytes)
           /\ fetched.data = SubSeq(bytes, from + 1, from + size)

CallInv ==
    /\ nca \in {NoNca} \cup DOMAIN Ncas
    /\ HeaderKept /\ KeyAreaKept /\ FetchedKept

LEMMA InitCalls == NcaInit => CallInv
BY DEF NcaInit, CallInv, HeaderKept, KeyAreaKept, FetchedKept, NotAsked

\* The keys do not change once they are parsed.
LEMMA KeysStay ==
    ASSUME KeyNext, status # "parsing" PROVE FALSE
BY DEF KeyNext, LoadFails, SkipLine, LineSplits, HeaderKeyLine, OtherLine, TableLine,
       TableIsFull, TableIndexWraps, ParseEnds, Reading

\* Steps that leave the calls as they are.
LEMMA SameCalls ==
    ASSUME CallInv, UNCHANGED <<nvars, header_key, tables>>, header # NoHeader => status' # "parsing"
    PROVE  CallInv'
BY DEF CallInv, HeaderKept, KeyAreaKept, FetchedKept, nvars, decrypt_key_area, key_area_key

LEMMA StepCalls == CallInv /\ [NcaNext]_allVars => CallInv'
<1> SUFFICES ASSUME CallInv, [NcaNext]_allVars PROVE CallInv'
  OBVIOUS
<1>1. CASE Parse
  <2>1. UNCHANGED nvars /\ status = "parsing" /\ header = NoHeader
    <3>1. UNCHANGED nvars /\ KeyNext
      BY <1>1 DEF Parse
    <3>2. status = "parsing"
      BY <3>1, KeysStay
    <3> QED BY <3>1, <3>2 DEF CallInv, HeaderKept
  <2>2. ~key_area.asked /\ fetched = Nothing
    BY <2>1 DEF CallInv, KeyAreaKept, FetchedKept
  <2> QED BY <2>1, <2>2 DEF CallInv, HeaderKept, KeyAreaKept, FetchedKept, nvars
<1>2. CASE UNCHANGED allVars
  BY <1>2, SameCalls DEF allVars, kvars, CallInv, HeaderKept
<1>3. CASE Replaced
  <2>1. /\ nca' \in {NoNca} \cup DOMAIN Ncas
        /\ UNCHANGED <<header, source, key_area, fetched, header_key, tables, status>>
    BY <1>3 DEF Replaced, kvars
  <2> QED BY <2>1 DEF CallInv, HeaderKept, KeyAreaKept, FetchedKept, decrypt_key_area, key_area_key
<1>4. CASE OpenFails
  <2>1. header' = NoHeader /\ key_area' = NotAsked /\ fetched' = Nothing /\ nca' = nca
    BY <1>4 DEF OpenFails, Opened
  <2> QED BY <2>1 DEF CallInv, HeaderKept, KeyAreaKept, FetchedKept, NotAsked
<1>5. CASE OpenReads
  <2> DEFINE data == xts_decrypt_header(header_key, SubSeq(File, 1, HeaderLen))
  <2>1. /\ status = "parsed" /\ nca # NoNca /\ Len(File) >= HeaderLen
        /\ Field(data, 1, Off.magic, 2) \in Magics /\ Opened(from_decrypted(data), nca)
    BY <1>5 DEF OpenReads
  <2>2. /\ header' = from_decrypted(data) /\ source' = nca /\ nca' = nca
        /\ key_area' = NotAsked /\ fetched' = Nothing
        /\ status' = "parsed" /\ header_key' = header_key
    BY <2>1 DEF Opened, kvars
  <2>3. header'.magic = Field(data, 1, Off.magic, 2)
    BY <2>2 DEF from_decrypted
  <2>4. nca \in DOMAIN Ncas
    BY <2>1 DEF CallInv
  <2>5. data = xts_decrypt_header(header_key, SubSeq(Ncas[nca].bytes, 1, HeaderLen))
    BY DEF File
  <2>6. HeaderKept'
    <3> HIDE DEF data
    <3> QED BY <2>1, <2>2, <2>3, <2>4, <2>5 DEF HeaderKept, File
  <2>7. KeyAreaKept' /\ FetchedKept'
    BY <2>2 DEF KeyAreaKept, FetchedKept, NotAsked
  <2> QED BY <2>2, <2>4, <2>6, <2>7 DEF CallInv
<1>6. CASE DecryptKeyArea
  <2>1. /\ key_area' = [asked |-> TRUE, keys |-> decrypt_key_area(header)] /\ header # NoHeader
        /\ UNCHANGED <<header, source, fetched, nca, status, header_key, tables>>
    BY <1>6 DEF DecryptKeyArea, kvars
  <2>2. KeyAreaKept'
    BY <2>1, SMTT(30) DEF KeyAreaKept, decrypt_key_area, key_area_key
  <2>3. HeaderKept' /\ FetchedKept'
    BY <2>1 DEF CallInv, HeaderKept, FetchedKept
  <2> QED BY <2>1, <2>2, <2>3 DEF CallInv
<1>7. CASE ReadFails
  <2>1. fetched' = Nothing /\ UNCHANGED <<header, source, key_area, nca, status, header_key, tables>>
    BY <1>7 DEF ReadFails, Fetched, kvars
  <2> QED BY <2>1 DEF CallInv, HeaderKept, KeyAreaKept, FetchedKept, decrypt_key_area, key_area_key
<1>8. CASE \E i \in SectionNo : SizeUnderflows(i) \/ NoMemory(i)
  <2>1. status' \in {"panicked", "aborted"} /\ UNCHANGED <<nvars, header_key, tables>>
    BY <1>8 DEF SizeUnderflows, NoMemory, Dies
  <2> QED BY <2>1, SameCalls
<1>9. CASE \E i \in SectionNo : ReadSection(i)
  <2>1. PICK i \in SectionNo : ReadSection(i)
    BY <1>9
  <2> DEFINE entry == header.sections[i]
             from  == byte_offset(entry)
             size  == byte_size(entry)
  <2>2. /\ header # NoHeader /\ nca # NoNca
        /\ size = 0 \/ from + size <= Len(File)
        /\ fetched' = [ok |-> TRUE, section |-> i, from |-> nca,
                       data |-> SubSeq(File, from + 1, from + size)]
        /\ UNCHANGED <<header, source, key_area, nca, status, header_key, tables>>
    BY <2>1 DEF ReadSection, Fetched, kvars
  <2>3. nca \in DOMAIN Ncas /\ File = Ncas[nca].bytes
    BY <2>2, SMTT(30) DEF CallInv, File
  <2>4. FetchedKept'
    <3>1. /\ fetched'.section = i /\ fetched'.from = nca
          /\ fetched'.data = SubSeq(File, from + 1, from + size)
      BY <2>2
    <3>2. header'.sections[fetched'.section] = entry
      BY <2>2, <3>1, SMTT(30)
    <3> HIDE DEF entry
    <3> QED BY <2>2, <2>3, <3>1, <3>2 DEF FetchedKept, byte_offset, byte_size
  <2>5. HeaderKept' /\ KeyAreaKept'
    BY <2>2 DEF CallInv, HeaderKept, KeyAreaKept, decrypt_key_area, key_area_key
  <2> QED BY <2>2, <2>4, <2>5 DEF CallInv
<1> QED BY <1>1, <1>2, <1>3, <1>4, <1>5, <1>6, <1>7, <1>8, <1>9 DEF NcaNext

-------------------------------------------------------------------------------
(* What the maker put in *)

\* With the right key the header is the maker's.
LEMMA HeaderComesOut ==
    ASSUME CallInv, RightKey
    PROVE  /\ Ncas[source] \in Range(Ncas) /\ Ncas[source].good
           /\ header = Ncas[source].says
<1> DEFINE made == Ncas[source]
<1>1. /\ source \in DOMAIN Ncas /\ Len(made.bytes) >= HeaderLen
      /\ header = from_decrypted(xts_decrypt_header(made.key, SubSeq(made.bytes, 1, HeaderLen)))
      /\ header.magic \in Magics
  BY DEF CallInv, HeaderKept, RightKey
<1>2. made \in Range(Ncas)
  BY <1>1 DEF Range
<1> HIDE DEF made
<1>3. /\ made.plain \in Piece(Byte, HeaderLen) /\ made.says = from_decrypted(made.plain)
      /\ SubSeq(made.bytes, 1, HeaderLen) = xts_header("encrypt", made.key, made.plain)
      /\ made.good = (made.says.magic \in Magics)
  BY <1>1, <1>2, MakerAssumption DEF Piece
<1>4. GoodKey(Chunk(made.key, KeyLen, 0)) /\ GoodKey(Chunk(made.key, KeyLen, 1))
  BY <1>2, CipherAssumption DEF CipherKeys, GoodKey
<1>5. xts_decrypt_header(made.key, SubSeq(made.bytes, 1, HeaderLen)) = made.plain
  BY <1>3, <1>4, HeaderInverse
<1> QED BY <1>1, <1>2, <1>3, <1>5 DEF made

\* Open gives the header its maker encrypted, for every header key and every block
\* cipher: AES-XTS, sector by sector and block by block, undoes itself.
THEOREM OpenIsRight == NcaSpec => []OpenReadsHeader
<1>1. CallInv => OpenReadsHeader
  <2> SUFFICES ASSUME CallInv, RightKey
               PROVE  /\ Ncas[source].good /\ header = Ncas[source].says
                      /\ is_title_key_encrypted(header) = Ncas[source].titled
    BY DEF OpenReadsHeader
  <2>1. /\ Ncas[source] \in Range(Ncas) /\ Ncas[source].good
        /\ header = Ncas[source].says
    BY HeaderComesOut
  <2> QED BY <2>1, MakerAssumption
<1> QED BY InitCalls, StepCalls, <1>1, PTL DEF NcaSpec

\* decrypt_key_area gives the keys the maker wrapped, with whatever kind and generation
\* the header names, when the key file has the key of these.
THEOREM KeyAreaComesOut == NcaSpec => []KeyAreaIsRight
<1>1. CallInv => KeyAreaIsRight
  <2> DEFINE made == Ncas[source]
  <2> SUFFICES ASSUME CallInv, RightKey, key_area.asked,
                      key_area_key(made.kind, made.gen) = <<made.kak>>
               PROVE  key_area.keys = <<made.keys>>
    BY DEF KeyAreaIsRight
  <2>1. made \in Range(Ncas) /\ header = made.says
    BY HeaderComesOut
  <2>2. key_area.keys = decrypt_key_area(header)
    BY DEF CallInv, KeyAreaKept
  <2> HIDE DEF made
  <2>3. /\ from_index(made.says.key_area_key_index) = made.kind
        /\ made.says.key_generation = made.gen
        /\ made.keys \in [SectionNo -> Block]
        /\ made.says.key_area = [i \in SectionNo |-> Enc(made.kak, made.keys[i])]
    BY <2>1, MakerAssumption
  <2>4. decrypt_key_area(header) = <<[i \in SectionNo |-> Dec(made.kak, header.key_area[i])]>>
    <3> DEFINE kak == key_area_key(from_index(header.key_area_key_index), header.key_generation)
    <3>1. kak = <<made.kak>>
      BY <2>1, <2>3
    <3> HIDE DEF kak
    <3>2. kak # <<>> /\ kak[1] = made.kak
      BY <3>1
    <3>3. decrypt_key_area(header) = IF kak = <<>> THEN <<>>
                                     ELSE <<[i \in SectionNo |-> Dec(kak[1], header.key_area[i])]>>
      BY DEF decrypt_key_area, kak
    <3> QED BY <3>2, <3>3
  <2>5. ASSUME NEW i \in SectionNo PROVE Dec(made.kak, header.key_area[i]) = made.keys[i]
    <3>1. made.kak \in CipherKeys
      BY <2>1 DEF CipherKeys
    <3>2. made.keys[i] \in Block /\ header.key_area[i] = Enc(made.kak, made.keys[i])
      BY <2>1, <2>3
    <3> QED BY <3>1, <3>2, CipherAssumption
  <2>6. [i \in SectionNo |-> Dec(made.kak, header.key_area[i])] = made.keys
    BY <2>3, <2>5
  <2> QED BY <2>2, <2>4, <2>6
<1> QED BY InitCalls, StepCalls, <1>1, PTL DEF NcaSpec

\* The difference of the ends of a section, computed in a u32.
LEMMA SizeFacts ==
    ASSUME NEW start \in 0 .. U32Mod - 1, NEW end \in 0 .. U32Mod - 1
    PROVE  /\ start * MediaUnit \in Nat
           /\ start <= end =>
                start * MediaUnit + ((end - start) % U32Mod) * MediaUnit = end * MediaUnit
           /\ end < start =>
                /\ ((end - start) % U32Mod) * MediaUnit \in Nat \ {0}
                /\ start * MediaUnit + ((end - start) % U32Mod) * MediaUnit >= U32Mod * MediaUnit
<1>1. U32Mod \in Nat \ {0} /\ MediaUnit \in Nat \ {0}
  BY NcaAssumption
<1>2. start * MediaUnit \in Nat /\ end * MediaUnit \in Nat
  BY <1>1
<1>3. CASE start <= end
  <2>1. (end - start) % U32Mod = end - start
    BY <1>1, <1>3
  <2>2. start * MediaUnit + (end - start) * MediaUnit = end * MediaUnit
    BY <1>1
  <2> QED BY <1>2, <1>3, <2>1, <2>2
<1>4. CASE end < start
  <2> DEFINE d == end - start + U32Mod
  <2>1. (end - start) % U32Mod = d
    <3>1. end - start = (-1) * U32Mod + d /\ d \in 0 .. U32Mod - 1
      BY <1>1, <1>4
    <3> QED BY <1>1, <3>1
  <2>2. /\ d \in Nat \ {0} /\ d * MediaUnit \in Nat \ {0}
        /\ start * MediaUnit + d * MediaUnit = (end + U32Mod) * MediaUnit
        /\ (end + U32Mod) * MediaUnit = end * MediaUnit + U32Mod * MediaUnit
    BY <1>1, <1>4
  <2>3. U32Mod * MediaUnit \in Nat
    BY <1>1
  <2> HIDE DEF d
  <2>4. start * MediaUnit + d * MediaUnit >= U32Mod * MediaUnit
    BY <1>2, <2>2, <2>3
  <2> QED BY <1>2, <1>4, <2>1, <2>2, <2>4
<1> QED BY <1>3, <1>4

\* Every section that is read is the one the maker placed, in both kinds of build: the
\* size of one that ends before it starts wraps to more than any file has.
THEOREM SectionsAreTheMakers == NcaSpec => []SectionsComeOut
<1>1. CallInv => SectionsComeOut
  <2> DEFINE made == Ncas[source]
             placed == made.says.sections[fetched.section]
  <2> SUFFICES ASSUME CallInv, RightKey, fetched # Nothing, fetched.from = source
               PROVE  /\ placed.start <= placed.end
                      /\ fetched.data = SubSeq(made.bytes, placed.start * MediaUnit + 1,
                                               placed.end * MediaUnit)
    BY DEF SectionsComeOut
  <2>1. made \in Range(Ncas) /\ header = made.says
    BY HeaderComesOut, SMTT(30)
  <2>2. /\ fetched.section \in SectionNo
        /\ byte_size(placed) = 0 \/ byte_offset(placed) + byte_size(placed) <= Len(made.bytes)
        /\ fetched.data = SubSeq(made.bytes, byte_offset(placed) + 1,
                                 byte_offset(placed) + byte_size(placed))
    BY <2>1, SMTT(30) DEF CallInv, FetchedKept
  <2>3. placed.start \in 0 .. U32Mod - 1 /\ placed.end \in 0 .. U32Mod - 1
    BY <2>1, <2>2, MakerAssumption
  <2>4. Len(made.bytes) < U32Mod * MediaUnit
    BY <2>1, MakerAssumption
  <2>5. Len(made.bytes) \in Nat /\ U32Mod * MediaUnit \in Nat
    <3>1. made.bytes \in Seq(Byte)
      BY <2>1, MakerAssumption
    <3>2. Len(made.bytes) \in Nat
      BY <3>1
    <3> QED BY <3>2, NcaAssumption
  <2> DEFINE start == placed.start
             end == placed.end
             from == start * MediaUnit
             size == ((end - start) % U32Mod) * MediaUnit
             to == end * MediaUnit
             all == U32Mod * MediaUnit
  <2>6. byte_offset(placed) = from /\ byte_size(placed) = size
    BY DEF byte_offset, byte_size
  <2> HIDE DEF made, placed
  <2>7. /\ from \in Nat /\ (start <= end => from + size = to)
        /\ end < start => size \in Nat \ {0} /\ from + size >= all
    <3> HIDE DEF start, end
    <3>1. start \in 0 .. U32Mod - 1 /\ end \in 0 .. U32Mod - 1
      BY <2>3 DEF start, end
    <3> QED BY <3>1, SizeFacts
  <2>8. start <= end \/ end < start
    <3> HIDE DEF start, end
    <3>1. start \in 0 .. U32Mod - 1 /\ end \in 0 .. U32Mod - 1
      BY <2>3 DEF start, end
    <3> QED BY <3>1, NcaAssumption
  <2>9. ~(end < start)
    <3> HIDE DEF start, end, from, size, all
    <3> QED BY <2>2, <2>4, <2>5, <2>6, <2>7 DEF all
  <2> HIDE DEF from, size, to
  <2>10. start <= end /\ fetched.data = SubSeq(made.bytes, from + 1, to)
    BY <2>2, <2>6, <2>7, <2>8, <2>9
  <2> QED BY <2>10, SMTT(30) DEF from, to
<1> QED BY InitCalls, StepCalls, <1>1, PTL DEF NcaSpec
=============================================================================
