------------------------------ MODULE FatNames -----------------------------
(***************************************************************************)
(* File names (src/fs/fat.rs, prepare_name_entries and find_parsed_entry   *)
(* of src/fs/fat_fs.rs): a name that fits 8.3 is stored as it is, in upper *)
(* case, any other one in long-name entries before an alias.  Here are the *)
(* conversions, and one directory whose entries come and go; how entries   *)
(* share slots and fail half way is FatDirectory.                          *)
(*                                                                         *)
(* A name is a sequence of characters: "a" is a letter and "A" the same in *)
(* upper case, "+" may stand in long names only, "?" in none.  A raw name  *)
(* is what stands before its padding of blanks.                            *)
(***************************************************************************)
EXTENDS Integers, Sequences, FiniteSets, FiniteSetsExt, SequencesExt

CONSTANTS Names,                \* the names asked for
          BaseLength,           \* 8 of 8.3
          ExtLength,            \* 3 of 8.3
          UnitsPerEntry,        \* LFN_UNITS_PER_ENTRY
          MaxUnits,             \* LFN_MAX_UNITS
          Radix, MaxTail,       \* numeric tails: 10 and 999_999
          MaxListed             \* bound: entries in the directory

FatNamesAssumption ==
    /\ {BaseLength, ExtLength, UnitsPerEntry, MaxUnits, MaxTail} \subseteq Nat \ {0}
    /\ Radix \in 2 .. 10
    /\ MaxTail < Radix ^ (BaseLength - 1)

VARIABLE listed                 \* the live entries, in the order of creation

None == <<>>
Refused == [base |-> None, ext |-> None]
Null == "null"                  \* the unit 0x0000
Pad == "pad"                    \* the unit 0xFFFF

Upper(name) == [i \in DOMAIN name |-> IF name[i] = "a" THEN "A" ELSE name[i]]
Lower(name) == [i \in DOMAIN name |-> IF name[i] = "A" THEN "a" ELSE name[i]]

IsInvalidShortNameByte(c) == c \in {"+", "?", " "}
IsInvalidLongNameChar(c) == c = "?"
----------------------------------------------------------------------------
(* get_fat_filename: splitn(2, '.') *)
GetFatFilename(name) ==
    LET dots == {i \in DOMAIN name : name[i] = "."}
        cut  == Min(dots \union {Len(name) + 1})
        base == SubSeq(name, 1, cut - 1)
        ext  == SubSeq(name, cut + 1, Len(name))
    IN  IF \/ base = None
           \/ Len(base) > BaseLength
           \/ Len(ext) > ExtLength
           \/ Cardinality(dots) > 1
           \/ \E c \in Range(base \o ext) : IsInvalidShortNameByte(c)
          THEN Refused
          ELSE [base |-> Upper(base), ext |-> Upper(ext)]

GetFilenameFromFat(raw) ==
    Lower(raw.base) \o (IF raw.ext = None THEN None ELSE <<".">> \o Lower(raw.ext))

CanEncode(name) ==
    /\ name # None
    /\ Last(name) \notin {" ", "."}
    /\ \A c \in Range(name) : ~ IsInvalidLongNameChar(c)
    /\ Len(name) <= MaxUnits

(* LongDirectoryEntry::new for chunk number k of a name *)
Chunk(name, k) ==
    [i \in 1 .. UnitsPerEntry |->
       LET at == (k - 1) * UnitsPerEntry + i
       IN  IF at <= Len(name) THEN name[at]
           ELSE IF at = Len(name) + 1 THEN Null ELSE Pad]

(* A slip: a last chunk that is not full is forgotten. *)
ChunksDroppingLast(name) ==
    LET count == Len(name) \div UnitsPerEntry
    IN  [k \in 1 .. count |-> Chunk(name, count + 1 - k)]

(* The long-name entries in the order of their slots: the last chunk first *)
Chunks(name) ==
    LET count == (Len(name) + UnitsPerEntry - 1) \div UnitsPerEntry
    IN  [k \in 1 .. count |-> Chunk(name, count + 1 - k)]

(* parse_directory_entries puts the chunks in the order of the name again, *)
(* and decode_long_filename ends at the terminator or at the last unit.    *)
DecodeLongFilename(chunks) ==
    LET units == FlattenSeq(Reverse(chunks))
        ends  == {i \in DOMAIN units : units[i] = Null}
    IN  SubSeq(units, 1, Min(ends \union {Len(units) + 1}) - 1)
----------------------------------------------------------------------------
SanitizeShortComponent(component, max) ==
    LET kept == SelectSeq(component, LAMBDA c : c \notin {" ", "."})
        sane == [i \in DOMAIN kept |->
                   IF IsInvalidShortNameByte(kept[i]) THEN "_" ELSE kept[i]]
    IN  Upper(SubSeq(sane, 1, Min({max, Len(sane)})))

Digits(tail) ==
    LET count == CHOOSE n \in 1 .. tail :
                   Radix ^ (n - 1) <= tail /\ tail < Radix ^ n
    IN  <<>> \o [i \in 1 .. count |->
           <<"0", "1", "2", "3", "4", "5", "6", "7", "8", "9">>
             [((tail \div Radix ^ (count - i)) % Radix) + 1]]

ComposeShortAlias(base, ext, tail) ==
    LET digits == Digits(tail)
        length == Min({Len(base), BaseLength - 1 - Len(digits)})
    IN  [base |-> SubSeq(base, 1, length) \o <<"~">> \o digits, ext |-> ext]

(* The parts of a name at its last dot, unless the name begins with it *)
Parts(name) ==
    LET cut == Max({i \in DOMAIN name : name[i] = "."} \union {0})
    IN  IF cut <= 1 THEN <<name, None>>
        ELSE <<SubSeq(name, 1, cut - 1), SubSeq(name, cut + 1, Len(name))>>

Candidates(name) ==
    LET base == SanitizeShortComponent(Parts(name)[1], BaseLength)
        ext  == SanitizeShortComponent(Parts(name)[2], ExtLength)
    IN  [tail \in 1 .. MaxTail |-> ComposeShortAlias(base, ext, tail)]

(* A slip: the tail is the number of aliases there are. *)
AliasByCount(name, taken) ==
    LET aliases == {raw \in taken : "~" \in Range(raw.base)}
    IN  Candidates(name)[Min({MaxTail, Cardinality(aliases) + 1})]

GenerateShortAlias(name, taken) ==
    LET free == {tail \in 1 .. MaxTail : Candidates(name)[tail] \notin taken}
    IN  IF free = {} THEN Refused ELSE Candidates(name)[Min(free)]
----------------------------------------------------------------------------
(* parse_directory_entries: the name of an entry *)
Shown(e) ==
    IF e.chunks = None THEN GetFilenameFromFat(e.raw)
                       ELSE DecodeLongFilename(e.chunks)

(* find_parsed_entry: the long name or the 8.3 name, in any case *)
Answers(e, name) ==
    \/ Lower(Shown(e)) = Lower(name)
    \/ Lower(GetFilenameFromFat(e.raw)) = Lower(name)

Taken == {listed[i].raw : i \in DOMAIN listed}

(* create_file with prepare_name_entries *)
Create(name) ==
    LET short == GetFatFilename(name)
        alias == GenerateShortAlias(name, Taken)
    IN  /\ Len(listed) < MaxListed
        /\ \A i \in DOMAIN listed : ~ Answers(listed[i], name)
        /\ \/ /\ short # Refused
              /\ listed' = Append(listed,
                   [asked |-> name, raw |-> short, chunks |-> None])
           \/ /\ short = Refused
              /\ CanEncode(name)
              /\ alias # Refused
              /\ listed' = Append(listed,
                   [asked |-> name, raw |-> alias, chunks |-> Chunks(name)])

(* unlink_file of a file that is empty: the first entry that answers, in   *)
(* the order of slots, not that of creation, since slots are reused.       *)
Delete(name) ==
    \E i \in DOMAIN listed :
        /\ Answers(listed[i], name)
        /\ listed' = RemoveAt(listed, i)

Init == listed = <<>>

Next ==
    \E name \in Names : Create(name) \/ Delete(name)

Spec == Init /\ [][Next]_listed
----------------------------------------------------------------------------
(* get_fat_filename takes a name that ends in its only dot, and stores it  *)
(* without; encode_long_filename, which refuses it, is not asked.          *)
LosesDot(e) == e.chunks = None /\ Last(e.asked) = "."

(* A file is listed under the name it was created with, its case kept if   *)
(* the name is long, but for a dot at the end of a short name.             *)
NamesComeBack ==
    \A i \in DOMAIN listed :
        LET e == listed[i]
        IN  IF e.chunks # None THEN Shown(e) = e.asked
            ELSE Shown(e) = Lower(IF LosesDot(e) THEN Front(e.asked) ELSE e.asked)

(* No two entries answer to one name, long names and aliases taken         *)
(* together, but for a name that lost its dot: find_parsed_entry compares  *)
(* the name as given, and finds the file that it becomes neither then nor  *)
(* when the same name is given again.                                      *)
OneAnswers ==
    \A i, j \in DOMAIN listed :
        LET e == listed[i]
        IN  i # j /\ (\/ Answers(listed[j], Shown(e))
                      \/ Answers(listed[j], GetFilenameFromFat(e.raw)))
              => LosesDot(e) \/ LosesDot(listed[j])

(* An alias is a name in its own right: what it is listed as is stored as  *)
(* the same eleven bytes.                                                  *)
AliasesFit ==
    \A i \in DOMAIN listed :
        GetFatFilename(GetFilenameFromFat(listed[i].raw)) = listed[i].raw
=============================================================================
