---------------------------- MODULE FatDirectory ---------------------------
(***************************************************************************)
(* FAT directories with VFAT long names (src/fs/fat_fs.rs, src/fs/fat.rs). *)
(* A directory is a sequence of slots, whole clusters of them; an entry is *)
(* a run of long-name slots and then a short-name slot.  Creating and      *)
(* deleting an entry takes one disk write per slot, and the operation may  *)
(* end, by a failed write or because the machine stops, after any of them. *)
(*                                                                         *)
(* A short name is a pair <<base, tail>>: <<"A", 0>> is A, <<"A", 2>> is   *)
(* A~2.  Its checksum is itself (no two of the few names collide).  A name *)
(* has a text, the short name that fits it (get_fat_filename; NoShort if   *)
(* none does), the base of an alias for it, and how many long-name slots   *)
(* it needs.  The text of a short name, get_filename_from_fat, is itself.  *)
(***************************************************************************)
EXTENDS Integers, Sequences, FiniteSets, FiniteSetsExt, SequencesExt

CONSTANTS Names,                \* names that callers use
          PerCluster,           \* slots in a cluster
          MaxClusters,          \* bound: clusters of a directory
          MaxCreated,           \* bound: entries ever created
          MaxFaults             \* bound: operations cut short

FatDirectoryAssumption ==
    /\ PerCluster \in Nat /\ PerCluster >= 2
    /\ {MaxClusters, MaxCreated, MaxFaults} \subseteq Nat

VARIABLES dirs,                 \* directory -> slots; 0 is the root
          created,              \* entries created so far
          faults                \* operations cut short so far

vars == <<dirs, created, faults>>

Root == 0
NoShort == <<"", 0>>
Ids == 1 .. MaxCreated          \* entries, by order of creation

End     == [kind |-> "end"]
Deleted == [kind |-> "deleted"]
Short(short, dir, id) ==
    [kind |-> "short", short |-> short, dir |-> dir, id |-> id]
Long(seq, last, sum, text, id) ==
    [kind |-> "long", seq |-> seq, last |-> last, sum |-> sum,
     text |-> text, id |-> id]

(* A cluster that clear_cluster has written *)
Cleared == [i \in 1 .. PerCluster |-> End]

(* initialize_directory_cluster: "." and "..", then free slots *)
NewDirectory(id, parent) ==
    [i \in 1 .. PerCluster |-> CASE i = 1 -> Short(<<".", 0>>, TRUE, id)
                                 [] i = 2 -> Short(<<"..", 0>>, TRUE, parent)
                                 [] OTHER -> End]

IsDotName(short) == short \in {<<".", 0>>, <<"..", 0>>}

Init ==
    /\ dirs = [d \in {Root} |-> Cleared]
    /\ created = 0
    /\ faults = 0
----------------------------------------------------------------------------
(***************************************************************************)
(* parse_directory_entries: the short slots before the end marker, each    *)
(* with the long-name slots right before it, if they start with the one    *)
(* marked last, count down to 1 and all carry the short name's checksum.   *)
(***************************************************************************)
(* A slip: the checksum is not compared. *)
IsRunUnchecked(slots, i, k) ==
    \A m \in 1 .. k : LET e == slots[i - m]
                       IN  e.kind = "long" /\ e.seq = m /\ e.last = (m = k)

IsRun(slots, i, k) ==
    \A m \in 1 .. k : LET e == slots[i - m]
                       IN  /\ e.kind = "long"
                           /\ e.seq = m
                           /\ e.sum = slots[i].short
                           /\ e.last = (m = k)

LongRun(slots, i) ==
    LET ks == {k \in 1 .. i - 1 : IsRun(slots, i, k)}
    IN  IF ks = {} THEN 0 ELSE CHOOSE k \in ks : TRUE

ParsedAt(slots, i) ==
    LET e == slots[i]
        k == LongRun(slots, i)
    IN  [at |-> i, short |-> e.short, dir |-> e.dir, id |-> e.id,
         name |-> IF k = 0 THEN e.short ELSE slots[i - 1].text,
         longs |-> [m \in 1 .. k |-> i - k - 1 + m]]

ParseDirectoryEntries(slots) ==
    {ParsedAt(slots, i) : i \in {j \in DOMAIN slots :
        slots[j].kind = "short" /\ \A k \in 1 .. j : slots[k] # End}}

(* find_parsed_entry: the long name matches, or the short one *)
Matches(entry, text) == entry.name = text \/ entry.short = text

Found(parsed, text) == {e \in parsed : Matches(e, text)}

FindParsedEntry(parsed, text) ==
    CHOOSE e \in Found(parsed, text) :
        \A f \in Found(parsed, text) : e.at <= f.at

(***************************************************************************)
(* allocate_directory_slots: the first run of free slots that is long      *)
(* enough, or the free slots at the end and new, cleared clusters.         *)
(***************************************************************************)
(* Slips: long-name slots count as free, a free slot is left before the    *)
(* entry, every alias ends in ~1, long-name slots are in reading order, a  *)
(* directory is removed with what is in it.                                *)
FreeSlotLong(slots, i) ==
    slots[i].kind \in {"deleted", "long"} \/ \E j \in 1 .. i : slots[j] = End

FreeSlot(slots, i) ==
    slots[i] = Deleted \/ \E j \in 1 .. i : slots[j] = End

SecondFree(slots, needed) ==
    1 + Min({i \in 1 .. Len(slots) + 1 :
           \A j \in i .. i + needed - 1 : j <= Len(slots) => FreeSlot(slots, j)})

FirstFree(slots, needed) ==
    Min({i \in 1 .. Len(slots) + 1 :
           \A j \in i .. i + needed - 1 : j <= Len(slots) => FreeSlot(slots, j)})

Lengthened(slots, to) ==
    slots \o [i \in 1 .. PerCluster * ((to - Len(slots) + PerCluster - 1)
                                          \div PerCluster) |-> End]

WithRoom(slots, needed) ==
    LET to == FirstFree(slots, needed) + needed - 1
    IN  IF to <= Len(slots) THEN slots ELSE Lengthened(slots, to)

AliasOne(parsed, base) == <<base, 1>>

(* generate_short_alias: the first tail that is not taken *)
Alias(parsed, base) ==
    <<base, Min({k \in 1 .. MaxCreated + 1 :
                   \A e \in parsed : e.short # <<base, k>>})>>

NameEntriesForward(parsed, n, dir, id) ==
    LET short == IF n.short # NoShort THEN n.short ELSE Alias(parsed, n.base)
        longs == IF n.short # NoShort THEN 0 ELSE n.chunks
    IN  [i \in 1 .. longs + 1 |->
           IF i = longs + 1 THEN Short(short, dir, id)
           ELSE Long(i, i = 1, short, n.text, id)]

(* prepare_name_entries: the slots of a new entry, in disk order *)
NameEntries(parsed, n, dir, id) ==
    LET short == IF n.short # NoShort THEN n.short ELSE Alias(parsed, n.base)
        longs == IF n.short # NoShort THEN 0 ELSE n.chunks
    IN  [i \in 1 .. longs + 1 |->
           IF i = longs + 1 THEN Short(short, dir, id)
           ELSE Long(longs + 1 - i, i = 1, short, n.text, id)]

(* persist_new_entry: the first `writes` of the slots are written. *)
PersistNewEntry(slots, entries, writes) ==
    LET room == WithRoom(slots, Len(entries))
        at   == FirstFree(slots, Len(entries))
    IN  [i \in DOMAIN room |-> IF i \in at .. at + writes - 1
                                 THEN entries[i - at + 1] ELSE room[i]]
----------------------------------------------------------------------------
Count(writes, all) ==
    /\ writes < all => faults < MaxFaults
    /\ faults' = IF writes < all THEN faults + 1 ELSE faults

(***************************************************************************)
(* create_file and create_directory.  A directory's cluster is written     *)
(* before its entry, and given back when the entry cannot be written.      *)
(***************************************************************************)
Create(d, n, dir, writes) ==
    LET parsed  == ParseDirectoryEntries(dirs[d])
        entries == NameEntries(parsed, n, dir, created + 1)
        slots   == PersistNewEntry(dirs[d], entries, writes)
    IN  /\ created < MaxCreated
        /\ Found(parsed, n.text) = {}
        /\ writes <= Len(entries)
        /\ Count(writes, Len(entries))
        /\ Len(slots) <= PerCluster * MaxClusters
        /\ created' = created + 1
        /\ dirs' = IF dir /\ writes = Len(entries)
                     THEN [x \in DOMAIN dirs \union {created + 1} |->
                             IF x = d THEN slots
                             ELSE IF x = created + 1
                                    THEN NewDirectory(created + 1, d)
                                    ELSE dirs[x]]
                     ELSE [dirs EXCEPT ![d] = slots]

CreateFile(d, n, writes) == Create(d, n, FALSE, writes)
CreateDirectory(d, n, writes) == Create(d, n, TRUE, writes)

(***************************************************************************)
(* delete_directory_entry: the long-name slots first, the short one last;  *)
(* a directory's clusters are then free.                                   *)
(***************************************************************************)
DeleteDirectoryEntry(d, entry, writes) ==
    LET at == Append(entry.longs, entry.at)
        slots == [i \in DOMAIN dirs[d] |->
                    IF \E w \in 1 .. writes : at[w] = i THEN Deleted
                                                       ELSE dirs[d][i]]
    IN  /\ writes <= Len(at)
        /\ Count(writes, Len(at))
        /\ dirs' = [x \in IF entry.dir /\ writes = Len(at)
                            THEN DOMAIN dirs \ {entry.id} ELSE DOMAIN dirs |->
                      IF x = d THEN slots ELSE dirs[x]]
        /\ UNCHANGED created

UnlinkFile(d, n, writes) ==
    LET parsed == ParseDirectoryEntries(dirs[d])
        file   == FindParsedEntry(parsed, n.text)
    IN  /\ Found(parsed, n.text) # {}
        /\ ~ file.dir
        /\ DeleteDirectoryEntry(d, file, writes)

DirectoryIsAnything(d) == TRUE

DirectoryIsEmpty(d) ==
    \A e \in ParseDirectoryEntries(dirs[d]) : IsDotName(e.short)

RemoveDirectory(d, n, writes) ==
    LET parsed    == ParseDirectoryEntries(dirs[d])
        directory == FindParsedEntry(parsed, n.text)
    IN  /\ Found(parsed, n.text) # {}
        /\ directory.dir
        /\ ~ IsDotName(directory.short)
        /\ DirectoryIsEmpty(directory.id)
        /\ DeleteDirectoryEntry(d, directory, writes)

Next ==
    \E d \in DOMAIN dirs, n \in Names, writes \in 0 .. PerCluster :
        \/ CreateFile(d, n, writes)
        \/ CreateDirectory(d, n, writes)
        \/ UnlinkFile(d, n, writes)
        \/ RemoveDirectory(d, n, writes)

Spec == Init /\ [][Next]_vars
----------------------------------------------------------------------------
ShortNames == {n.short : n \in Names} \union {<<".", 0>>, <<"..", 0>>}
Aliases    == {n.base : n \in Names} \X (1 .. MaxCreated + 1)

IsSlot(slot) ==
    CASE slot.kind = "short" -> /\ slot.short \in ShortNames \union Aliases
                                /\ slot.dir \in BOOLEAN
                                /\ slot.id \in {Root} \union Ids
      [] slot.kind = "long"  -> /\ slot.seq \in 1 .. PerCluster
                                /\ slot.last \in BOOLEAN
                                /\ slot.sum \in Aliases
                                /\ slot.text \in {n.text : n \in Names}
                                /\ slot.id \in Ids
      [] OTHER -> slot \in {End, Deleted}

(* A directory is whole clusters of slots; the root is always there. *)
TypeOK ==
    /\ Root \in DOMAIN dirs
    /\ DOMAIN dirs \subseteq {Root} \union Ids
    /\ \A d \in DOMAIN dirs :
         /\ Len(dirs[d]) % PerCluster = 0
         /\ \A i \in DOMAIN dirs[d] : IsSlot(dirs[d][i])
    /\ created \in 0 .. MaxCreated
    /\ faults \in 0 .. MaxFaults

Entries(d) == ParseDirectoryEntries(dirs[d])

(* Nothing is left beyond the end marker: a slot that                      *)
(* allocate_directory_slots takes there makes the next one the marker, and *)
(* no old slot comes back to life behind it.                               *)
EndIsTheEnd ==
    \A d \in DOMAIN dirs : \A i, j \in DOMAIN dirs[d] :
        i < j /\ dirs[d][i] = End => dirs[d][j] = End

(* No two entries of a directory answer to one name, whatever was created, *)
(* deleted or cut short before: create_file refuses a name that exists     *)
(* and generate_short_alias avoids the aliases in use.                     *)
NamesUnique ==
    \A d \in DOMAIN dirs : \A e, f \in Entries(d) :
        e # f => /\ e.short # f.short
                 /\ e.name # f.name
                 /\ ~ Matches(e, f.name)

(* A long name shown for an entry is the one it was created with:          *)
(* parse_directory_entries discards long-name slots left behind by a       *)
(* creation or a deletion that was cut short.                              *)
LongNameIsOwn ==
    \A d \in DOMAIN dirs : \A e \in Entries(d) : \A k \in DOMAIN e.longs :
        dirs[d][e.longs[k]].id = e.id

(* A directory is removed only when nothing is in it, and its entry goes   *)
(* last: each directory has one entry that leads to it and each directory  *)
(* entry leads to a directory whose ".." is where the entry is.            *)
TreeSound ==
    /\ \A d \in DOMAIN dirs \ {Root} :
         Cardinality({x \in DOMAIN dirs : \E e \in Entries(x) :
                        e.dir /\ e.id = d /\ ~ IsDotName(e.short)}) = 1
    /\ \A d \in DOMAIN dirs : \A e \in Entries(d) :
         e.dir /\ ~ IsDotName(e.short) =>
             /\ e.id \in DOMAIN dirs
             /\ dirs[e.id][2] = Short(<<"..", 0>>, TRUE, d)

(* A step touches one entry: every other entry stays and keeps its name;   *)
(* the one it touches may fall back from its long name to its alias when   *)
(* its deletion is cut short (delete_directory_entry).                     *)
OthersStay ==
    [][dirs' # dirs => \A d \in DOMAIN dirs \intersect DOMAIN dirs' :
         LET before  == Entries(d)
             after   == Entries(d)'
             kept    == {e \in before : \E f \in after :
                           f.id = e.id /\ f.at = e.at /\ f.name = e.name}
             renamed == {e \in before \ kept : \E f \in after :
                           f.id = e.id /\ f.at = e.at /\ f.name = e.short}
         IN  /\ Cardinality(before \ kept) <= 1
             /\ renamed # {} => faults' > faults
             /\ Cardinality(before \ kept) = 1 => created' = created]_vars

(* Once create_file or create_directory has made an entry, looking its     *)
(* name up finds that entry.                                               *)
CreatedIsFound ==
    [][created' # created => \A d \in DOMAIN dirs, n \in Names, dir \in BOOLEAN :
         Create(d, n, dir, IF n.short # NoShort THEN 1 ELSE n.chunks + 1) =>
            LET parsed == ParseDirectoryEntries(dirs'[d])
            IN  /\ Found(parsed, n.text) # {}
                /\ FindParsedEntry(parsed, n.text).id = created']_vars
=============================================================================
