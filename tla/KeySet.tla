------------------------------- MODULE KeySet -------------------------------
(***************************************************************************)
(* KeySet of fs/keys.rs: the text of a prod.keys file, read line by line   *)
(* into the header key, four tables of keys by generation and the map of   *)
(* everything read.  One action is one line of the file; a line is what    *)
(* its name and its value say, a text the bytes it takes in UTF-8.         *)
(***************************************************************************)
EXTENDS Integers, Sequences

CONSTANTS
    Base,            \* values of a hex digit; 16 in the code
    KeyLen,          \* bytes of a key; 16 in the code
    UsizeMod,        \* values of a usize; 2^64 in the code
    Room,            \* keys of one table the memory holds
    Builds,          \* whether a build panics on overflow: TRUE, FALSE or both
    KeyFiles         \* the files, each a sequence of lines

\* Characters of a text, one for each byte: a digit is its value.
Digit == 0 .. Base - 1
Plus  == Base
Space == Base + 1
Other == Base + 2     \* any other character of one byte
Lead  == Base + 3     \* the first byte of a longer one
Inner == Base + 4     \* and its other bytes

Byte == 0 .. Base * Base - 1

Tables == {"application", "system", "ocean", "title_kek"}

ASSUME KeySetAssumption ==
    /\ Base \in Nat /\ Base >= 2
    /\ KeyLen \in Nat /\ KeyLen > 0
    /\ Room \in Nat /\ UsizeMod \in Nat /\ Room < UsizeMod
    /\ Builds \subseteq BOOLEAN
    /\ KeyFiles \subseteq
         Seq([assigns : BOOLEAN,     \* neither blank nor a comment, and has a '='
              of      : Tables \cup {"header_key", "other"},
              suffix  : Seq(Nat),    \* the rest of the name
              value   : Seq(Nat)])

VARIABLES
    checks,       \* whether this build panics on overflow
    keyFile,      \* the text that is parsed
    at,           \* lines done
    status,       \* "parsing", "parsed", or how the program ended
    header_key,   \* NoKey, or 2 * KeyLen bytes
    tables,       \* the four vectors
    raw           \* name -> bytes

kvars == <<checks, keyFile, at, status, header_key, tables, raw>>

NoKey == <<>>

ZeroKey == [b \in 1 .. KeyLen |-> 0]

(* decode_hex *)

Pairs(text) == 1 .. Len(text) \div 2

\* from_str_radix takes two digits, or a sign and a digit.
IsPair(text, k) == text[2 * k - 1] \in Digit \cup {Plus} /\ text[2 * k] \in Digit

PairValue(text, k) ==
    IF text[2 * k - 1] = Plus THEN text[2 * k] ELSE Base * text[2 * k - 1] + text[2 * k]

Decodes(text) == Len(text) % 2 = 0 /\ \A k \in Pairs(text) : IsPair(text, k)

\* A slice that ends inside a character panics, unless a pair before it has failed.
Splits(text) ==
    /\ Len(text) % 2 = 0
    /\ \E k \in Pairs(text) :
          /\ 2 * k < Len(text) /\ text[2 * k + 1] = Inner
          /\ \A j \in 1 .. k - 1 : IsPair(text, j)

decode_hex(text) == [k \in Pairs(text) |-> PairValue(text, k)]

(* parse_hex_suffix *)

NoIndex == -1

Number(text) ==
    LET upto[n \in 0 .. Len(text)] == IF n = 0 THEN 0 ELSE Base * upto[n - 1] + text[n]
    IN upto[Len(text)]

Unsigned(text) == IF text # <<>> /\ Head(text) = Plus THEN Tail(text) ELSE text

parse_hex_suffix(text) ==
    LET digits == Unsigned(text)
    IN IF digits # <<>> /\ (\A k \in DOMAIN digits : digits[k] \in Digit)
            /\ Number(digits) \in 0 .. UsizeMod - 1
       THEN Number(digits)
       ELSE NoIndex

(* One line *)

Line == keyFile[at + 1]

\* replace(' ', "")
Hex(line) ==
    LET kept[n \in 0 .. Len(line.value)] ==
            IF n = 0 THEN <<>>
            ELSE IF line.value[n] = Space THEN kept[n - 1]
            ELSE Append(kept[n - 1], line.value[n])
    IN kept[Len(line.value)]

\* The name and the bytes a line gives, when it gives any.
Gives(line) == line.assigns /\ Decodes(Hex(line))

Bytes(line) == decode_hex(Hex(line))

Name(line) == <<line.of, line.suffix>>

Index(line) == parse_hex_suffix(line.suffix)

Inserted(map, name, bytes) ==
    [n \in DOMAIN map \cup {name} |-> IF n = name THEN bytes ELSE map[n]]

\* Mutant: the vector is brought to the length asked for, be it longer.
resize(v, len) == [i \in 1 .. len |-> IF i \in DOMAIN v THEN v[i] ELSE ZeroKey]

ensure_len(v, len) ==
    [i \in 1 .. (IF Len(v) < len THEN len ELSE Len(v)) |->
        IF i \in DOMAIN v THEN v[i] ELSE ZeroKey]

\* Mutant: the length is not looked at.
StoredAnyLength(v, idx, bytes) ==
    [ensure_len(v, idx + 1) EXCEPT ![idx + 1] = bytes]

\* A key of the wrong length makes room for the right one and is dropped.
Stored(v, idx, bytes) ==
    LET long == ensure_len(v, idx + 1)
    IN IF Len(bytes) = KeyLen THEN [long EXCEPT ![idx + 1] = bytes] ELSE long

(* The loop of parse *)

KeyInit ==
    /\ checks \in Builds
    /\ keyFile \in KeyFiles
    /\ at = 0
    /\ status = "parsing"
    /\ header_key = NoKey
    /\ tables = [t \in Tables |-> <<>>]
    /\ raw = [n \in {} |-> NoKey]

Reading == status = "parsing" /\ at < Len(keyFile)

Ends(how) ==
    /\ status' = how
    /\ UNCHANGED <<checks, keyFile, at, header_key, tables, raw>>

\* load: the file is missing or is not UTF-8.
LoadFails ==
    /\ status = "parsing" /\ at = 0
    /\ Ends("failed")

NextLine == at' = at + 1 /\ UNCHANGED <<checks, keyFile, status>>

SkipLine ==
    /\ Reading /\ ~Gives(Line) /\ ~(Line.assigns /\ Splits(Hex(Line)))
    /\ NextLine
    /\ UNCHANGED <<header_key, tables, raw>>

LineSplits ==
    /\ Reading /\ Line.assigns /\ Splits(Hex(Line))
    /\ Ends("panicked")

Kept == raw' = Inserted(raw, Name(Line), Bytes(Line))

HeaderKeyLine ==
    /\ Reading /\ Gives(Line) /\ Line.of = "header_key"
    /\ Kept
    /\ header_key' = IF Len(Bytes(Line)) = 2 * KeyLen
                     THEN Bytes(Line) ELSE header_key
    /\ NextLine /\ UNCHANGED tables

OtherLine ==
    /\ Reading /\ Gives(Line)
    /\ Line.of = "other" \/ (Line.of \in Tables /\ Index(Line) = NoIndex)
    /\ Kept
    /\ NextLine /\ UNCHANGED <<header_key, tables>>

\* idx + 1 is computed in a usize.
TableLine ==
    /\ Reading /\ Gives(Line) /\ Line.of \in Tables
    /\ Index(Line) # NoIndex /\ Index(Line) < Room
    /\ Kept
    /\ tables' = [tables EXCEPT ![Line.of] = Stored(@, Index(Line), Bytes(Line))]
    /\ NextLine /\ UNCHANGED header_key

TableIsFull ==
    /\ Reading /\ Gives(Line) /\ Line.of \in Tables
    /\ Index(Line) >= Room /\ Index(Line) + 1 < UsizeMod
    /\ Ends("aborted")

\* Without overflow checks ensure_len(0) adds nothing and the index is out of bounds.
TableIndexWraps ==
    /\ Reading /\ Gives(Line) /\ Line.of \in Tables
    /\ Index(Line) # NoIndex /\ Index(Line) + 1 = UsizeMod
    /\ \/ /\ checks \/ Len(Bytes(Line)) = KeyLen
          /\ Ends("panicked")
       \/ /\ ~checks /\ Len(Bytes(Line)) # KeyLen
          /\ Kept
          /\ NextLine /\ UNCHANGED <<header_key, tables>>

ParseEnds ==
    /\ status = "parsing" /\ at = Len(keyFile)
    /\ Ends("parsed")

KeyNext ==
    \/ LoadFails \/ SkipLine \/ LineSplits \/ HeaderKeyLine \/ OtherLine
    \/ TableLine \/ TableIsFull \/ TableIndexWraps \/ ParseEnds

(* key_area_key: Some is a sequence of one *)

key_area_key(kind, generation) ==
    IF generation < Len(tables[kind]) THEN <<tables[kind][generation + 1]>> ELSE <<>>

(* Properties *)

KeyTypeOK ==
    /\ at \in 0 .. Len(keyFile)
    /\ status \in {"parsing", "parsed", "failed", "panicked", "aborted"}
    /\ header_key = NoKey \/ Len(header_key) = 2 * KeyLen
    /\ \A t \in Tables : tables[t] \in Seq([1 .. KeyLen -> Byte]) /\ Len(tables[t]) <= Room

GivesTo(k, t, i) ==
    /\ Gives(keyFile[k]) /\ keyFile[k].of = t
    /\ Index(keyFile[k]) = i /\ Len(Bytes(keyFile[k])) = KeyLen

\* What the first n lines give as number i of table t is the key of the last of them,
\* and 0 when none does.
GivenKey(n, t, i, key) ==
    \/ \E k \in 1 .. n :
          /\ GivesTo(k, t, i) /\ key = Bytes(keyFile[k])
          /\ \A j \in k + 1 .. n : ~GivesTo(j, t, i)
    \/ (\A k \in 1 .. n : ~GivesTo(k, t, i)) /\ key = ZeroKey

\* However its lines are ordered, repeated, spelled or broken, the tables hold what the
\* file says: an entry is the key of the last good line for its generation, a gap is 0,
\* and a generation a good line gives is there.
KeysComeFromFile ==
    \A t \in Tables :
        /\ \A i \in 1 .. Len(tables[t]) : GivenKey(at, t, i - 1, tables[t][i])
        /\ \A k \in 1 .. at :
              Gives(keyFile[k]) /\ keyFile[k].of = t /\ Index(keyFile[k]) \in 0 .. Room - 1
                => Index(keyFile[k]) < Len(tables[t])

KeySpec == KeyInit /\ [][KeyNext]_kvars
=============================================================================
