------------------------------ MODULE FatTree ------------------------------
(***************************************************************************)
(* Directories as chains of clusters (src/fs/fat_fs.rs): making, filling   *)
(* and removing them changes the allocation table in memory, the table on  *)
(* disk and clusters on disk, in an order and one write at a time.  A      *)
(* write may fail, and the machine may stop between any two.               *)
(*                                                                         *)
(* Names are 8.3 names, so an entry is one slot (FatDirectory has the long *)
(* ones), and files are empty (FatFiles has their contents).  Reads        *)
(* succeed.  The copies of the table are one: only the first is ever read. *)
(***************************************************************************)
EXTENDS Integers, Sequences, FiniteSets, FiniteSetsExt, Functions, SequencesExt

CONSTANTS LastCluster,          \* clusters are numbered from 2
          PerCluster,           \* slots in a cluster
          Names,                \* names of files and directories
          MaxFaults             \* bound: writes that fail, and stops

FatTreeAssumption ==
    /\ LastCluster \in Nat /\ LastCluster >= 3
    /\ PerCluster \in Nat /\ PerCluster >= 3
    /\ Names \cap {".", "..", "", "~"} = {}
    /\ Names # {}
    /\ MaxFaults \in Nat

VARIABLES fat,                  \* FatBuffer: the table in memory
          disk_fat,             \* the table on disk
          data,                 \* the clusters on disk
          tree_faults           \* failed writes and stops so far

tree_vars == <<fat, disk_fat, data, tree_faults>>

Clusters == 2 .. LastCluster
Root == 2                       \* root_cluster of the boot sector
Free == 0
Eof  == LastCluster + 1

End     == [kind |-> "end"]
Deleted == [kind |-> "deleted"]
Entry(name, cluster, dir) ==
    [kind |-> "entry", name |-> name, cluster |-> cluster, dir |-> dir]

(* A cluster's slots.  `made` is history: the first cluster of the directory *)
(* for which the cluster was last initialised or cleared.                  *)
Block(made, slots) == [made |-> made, slots |-> slots]

ClearedSlots == <<>> \o [i \in 1 .. PerCluster |-> End]

(* clear_cluster *)
ClearCluster(made) == Block(made, ClearedSlots)

(* initialize_directory_cluster: ".", ".." and free slots *)
InitializeDirectoryCluster(cluster, parent) ==
    Block(cluster, [ClearedSlots EXCEPT ![1] = Entry(".", cluster, TRUE),
                                        ![2] = Entry("..", parent, TRUE)])
----------------------------------------------------------------------------
(* next_cluster, followed to the end of the chain; a chain that does not   *)
(* end is cut off when it has repeated itself.                             *)
RECURSIVE Follow(_, _)
Follow(table, chain) ==
    IF table[Last(chain)] \in Clusters /\ Len(chain) < LastCluster
      THEN Follow(table, Append(chain, table[Last(chain)]))
      ELSE chain

Chain(table, first) == Follow(table, <<first>>)

RECURSIVE SlotsOf(_, _)
SlotsOf(blocks, chain) ==
    IF chain = <<>> THEN <<>>
    ELSE blocks[Head(chain)].slots \o SlotsOf(blocks, Tail(chain))

(* load_directory_slots *)
LoadDirectorySlots(table, blocks, first) == SlotsOf(blocks, Chain(table, first))

(* parse_directory_entries: where the live entries are *)
LiveSlots(slots) ==
    {i \in DOMAIN slots : slots[i].kind = "entry"
                          /\ \A j \in 1 .. i : slots[j] # End}

(* find_parsed_entry: the first entry of the name; 0 if there is none *)
FindParsedEntry(slots, name) ==
    LET at == {i \in LiveSlots(slots) : slots[i].name = name}
    IN  IF at = {} THEN 0 ELSE Min(at)

(* directory_cluster: ".." of a directory in the root may be 0 *)
DirectoryCluster(entry) == IF entry.cluster = 0 THEN Root ELSE entry.cluster

IsDotName(name) == name \in {".", ".."}

(* directory_is_empty *)
DirectoryIsEmpty(table, blocks, first) ==
    LET slots == LoadDirectorySlots(table, blocks, first)
    IN  \A i \in LiveSlots(slots) : IsDotName(slots[i].name)

(* find_free_cluster *)
FreeClusters(table) == {c \in Clusters : table[c] = Free}

(* free_chain *)
FreeChain(table, first) ==
    [c \in Clusters |-> IF c \in Range(Chain(table, first)) THEN Free ELSE table[c]]
----------------------------------------------------------------------------
(***************************************************************************)
(* An operation as its writes, in order, and the table it leaves in        *)
(* memory.  A write stores the table, or one cluster.  undone[k] is what   *)
(* the operation does when its k-th write fails: the table in memory, and  *)
(* further writes.                                                         *)
(***************************************************************************)
TableWrite(table) == [to |-> 0, table |-> table]
ClusterWrite(c, block) == [to |-> c, block |-> block]

(* The disk after some writes: the last one to a place counts. *)
Apply(disk, writes) ==
    LET to(c) == {k \in DOMAIN writes : writes[k].to = c}
    IN  [fat  |-> IF to(0) = {} THEN disk.fat ELSE writes[Max(to(0))].table,
         data |-> [c \in Clusters |-> IF to(c) = {} THEN disk.data[c]
                                                    ELSE writes[Max(to(c))].block]]

Disk == [fat |-> disk_fat, data |-> data]

WithSlot(block, i, slot) == [block EXCEPT !.slots[i] = slot]

(* allocate_directory_slots for one slot: the first that is deleted or at  *)
(* or behind the end marker; 0 if the chain is full.                       *)
FreeSlot(slots) ==
    LET at == {i \in DOMAIN slots : slots[i] = Deleted
                                    \/ \E j \in 1 .. i : slots[j] = End}
    IN  IF at = {} THEN 0 ELSE Min(at)

Undo(table, persist) == [fat |-> table, persist |-> persist]

Linked(table, first, c) ==
    [table EXCEPT ![c] = Eof, ![Last(Chain(table, first))] = c]

(* rollback_allocated_chain after each failure of persist_new_entry *)
RolledBack(undone, c) ==
    [k \in DOMAIN undone |-> Undo(FreeChain(undone[k].fat, c), TRUE)]

(***************************************************************************)
(* persist_new_entry on a given table and given clusters.  A full          *)
(* directory first gets a cluster from append_directory_cluster: linked,   *)
(* the table written, the cluster cleared.                                 *)
(***************************************************************************)
PersistNewEntry(table, blocks, first, entry) ==
    LET slots == LoadDirectorySlots(table, blocks, first)
        at    == FreeSlot(slots)
        old   == Chain(table, first)[(at - 1) \div PerCluster + 1]
        new   == Min(FreeClusters(table))
        link  == Linked(table, first, new)
        clear == ClearCluster(first)
    IN  IF at # 0
          THEN [ok |-> TRUE, fat |-> table,
                writes |-> <<ClusterWrite(old, WithSlot(blocks[old],
                                 ((at - 1) % PerCluster) + 1, entry))>>,
                undone |-> <<Undo(table, FALSE)>>]
        ELSE IF FreeClusters(table) = {}
          THEN [ok |-> FALSE, fat |-> table, writes |-> <<>>, undone |-> <<>>]
          ELSE [ok |-> TRUE, fat |-> link,
                writes |-> <<TableWrite(link), ClusterWrite(new, clear),
                             ClusterWrite(new, WithSlot(clear, 1, entry))>>,
                undone |-> <<Undo(table, TRUE), Undo(table, TRUE),
                             Undo(link, FALSE)>>]

Refused == [ok |-> FALSE, fat |-> fat, writes |-> <<>>, undone |-> <<>>]

CreateFile(first, name) ==
    IF FindParsedEntry(LoadDirectorySlots(fat, data, first), name) # 0
      THEN Refused
      ELSE PersistNewEntry(fat, data, first, Entry(name, 0, FALSE))

(* A slip: the table is written after the entry that needs it. *)
CreateEntryFirst(first, name) ==
    LET c     == Min(FreeClusters(fat))
        taken == [fat EXCEPT ![c] = Eof]
        init  == InitializeDirectoryCluster(c, first)
        rest  == PersistNewEntry(taken, [data EXCEPT ![c] = init], first,
                                 Entry(name, c, TRUE))
    IN  IF \/ FindParsedEntry(LoadDirectorySlots(fat, data, first), name) # 0
           \/ FreeClusters(fat) = {}
           \/ ~ rest.ok
          THEN Refused
          ELSE [ok |-> TRUE, fat |-> rest.fat,
                writes |-> <<ClusterWrite(c, init)>> \o rest.writes
                             \o <<TableWrite(rest.fat)>>,
                undone |-> <<Undo(fat, FALSE)>> \o RolledBack(rest.undone, c)
                             \o <<Undo(fat, TRUE)>>]

CreateDirectory(first, name) ==
    LET c     == Min(FreeClusters(fat))
        taken == [fat EXCEPT ![c] = Eof]
        init  == InitializeDirectoryCluster(c, first)
        rest  == PersistNewEntry(taken, [data EXCEPT ![c] = init], first,
                                 Entry(name, c, TRUE))
    IN  IF \/ FindParsedEntry(LoadDirectorySlots(fat, data, first), name) # 0
           \/ FreeClusters(fat) = {}
          THEN Refused
          ELSE [ok |-> rest.ok, fat |-> IF rest.ok THEN rest.fat ELSE fat,
                writes |-> <<ClusterWrite(c, init), TableWrite(taken)>>
                             \o (IF rest.ok THEN rest.writes ELSE <<TableWrite(fat)>>),
                undone |-> <<Undo(fat, FALSE), Undo(fat, TRUE)>>
                             \o (IF rest.ok THEN RolledBack(rest.undone, c)
                                            ELSE <<Undo(fat, FALSE)>>)]

(* delete_directory_entry: the entry first, then the table.  That a write  *)
(* of the table fails is not reported.                                     *)
DeleteDirectoryEntry(first, at, table) ==
    LET c     == Chain(fat, first)[(at - 1) \div PerCluster + 1]
        entry == ClusterWrite(c, WithSlot(data[c], ((at - 1) % PerCluster) + 1, Deleted))
    IN  IF table = fat
          THEN [ok |-> TRUE, fat |-> fat, writes |-> <<entry>>,
                undone |-> <<Undo(fat, FALSE)>>]
          ELSE [ok |-> TRUE, fat |-> table,
                writes |-> <<entry, TableWrite(table)>>,
                undone |-> <<Undo(fat, FALSE), Undo(table, FALSE)>>]

UnlinkFile(first, name) ==
    LET slots == LoadDirectorySlots(fat, data, first)
        at    == FindParsedEntry(slots, name)
    IN  IF at = 0 \/ slots[at].dir THEN Refused
                                   ELSE DeleteDirectoryEntry(first, at, fat)

RemoveDirectory(first, name) ==
    LET slots == LoadDirectorySlots(fat, data, first)
        at    == FindParsedEntry(slots, name)
    IN  IF \/ at = 0
           \/ ~ slots[at].dir
           \/ slots[at].cluster = 0
           \/ IsDotName(name)
           \/ ~ DirectoryIsEmpty(fat, data, slots[at].cluster)
          THEN Refused
          ELSE DeleteDirectoryEntry(first, at, FreeChain(fat, slots[at].cluster))
----------------------------------------------------------------------------
(* What becomes of an operation. *)
SetDisk(disk) == disk_fat' = disk.fat /\ data' = disk.data

Completes(op) ==
    /\ fat' = op.fat
    /\ SetDisk(Apply(Disk, op.writes))
    /\ UNCHANGED tree_faults

Fault == tree_faults < MaxFaults /\ tree_faults' = tree_faults + 1

(* The k-th write fails; of a table the first copy may be written already. *)
(* The writes that undo the operation succeed, or fail as well.            *)
WriteFails(op) ==
    /\ Fault
    /\ \E k \in DOMAIN op.writes, partly, mended \in BOOLEAN :
         LET done == Apply(Disk, SubSeq(op.writes, 1,
                             IF partly /\ op.writes[k].to = 0 THEN k ELSE k - 1))
             undo == op.undone[k]
         IN  /\ fat' = undo.fat
             /\ SetDisk(IF undo.persist /\ mended
                          THEN [done EXCEPT !.fat = undo.fat] ELSE done)

(* The machine stops after some of the writes and reads the table again.   *)
Stops(op) ==
    /\ Fault
    /\ \E k \in 0 .. Len(op.writes) :
         LET disk == Apply(Disk, SubSeq(op.writes, 1, k))
         IN  SetDisk(disk) /\ fat' = disk.fat

(* The disk image: a root with one directory, whose ".." is stored as 0,   *)
(* and a file in it.                                                       *)
TreeInit ==
    LET home == CHOOSE n \in Names : TRUE
    IN  /\ fat = [c \in Clusters |-> IF c \in {Root, 3} THEN Eof ELSE Free]
        /\ disk_fat = fat
        /\ data = [c \in Clusters |->
             CASE c = Root -> Block(Root, [ClearedSlots EXCEPT ![1] = Entry(home, 3, TRUE)])
               [] c = 3    -> WithSlot(InitializeDirectoryCluster(3, 0), 3,
                                       Entry(home, 0, FALSE))
               [] OTHER    -> ClearCluster(c)]
        /\ tree_faults = 0
----------------------------------------------------------------------------
(* The live entries of directories, each with its place *)
Places(table, blocks, dirs) ==
    UNION {LET slots == LoadDirectorySlots(table, blocks, d)
           IN  {[in |-> d, at |-> i, entry |-> slots[i]] : i \in LiveSlots(slots)}
             : d \in dirs}

Children(places) ==
    {x \in places : x.entry.dir /\ ~ IsDotName(x.entry.name)}

(* The directories that can be reached from the root *)
RECURSIVE ReachedFrom(_, _, _)
ReachedFrom(table, blocks, dirs) ==
    LET more == dirs \union {x.entry.cluster : x \in Children(Places(table, blocks, dirs))}
    IN  IF more = dirs THEN dirs ELSE ReachedFrom(table, blocks, more)

Reached(table, blocks) == ReachedFrom(table, blocks, {Root})

Directories == Reached(fat, data)

IsSlot(slot) ==
    \/ slot = End \/ slot = Deleted
    \/ /\ slot.kind = "entry"
       /\ slot.name \in Names \union {".", ".."}
       /\ slot.cluster \in {0} \union Clusters
       /\ slot.dir \in BOOLEAN

(* Tables map clusters to the next one, the end or nothing; clusters hold  *)
(* slots.                                                                  *)
TreeTypeOK ==
    /\ {fat, disk_fat} \subseteq [Clusters -> {Free, Eof} \union Clusters]
    /\ DOMAIN data = Clusters
    /\ \A c \in Clusters : /\ data[c].made \in Clusters
                           /\ DOMAIN data[c].slots = 1 .. PerCluster
                           /\ \A i \in 1 .. PerCluster : IsSlot(data[c].slots[i])
    /\ tree_faults \in 0 .. MaxFaults

(* Every cluster in a directory's chain was initialised or cleared for it: *)
(* append_directory_cluster "links a new zeroed cluster".                  *)
Zeroed(table, blocks) ==
    \A d \in Reached(table, blocks) : \A c \in Range(Chain(table, d)) :
        blocks[c].made = d

(* A table and the clusters form a tree: chains are allocated, end, and    *)
(* share nothing; a directory is named once, and its ".." is where; no     *)
(* name is used twice in a directory.                                      *)
IsTree(table, blocks) ==
    LET dirs   == Reached(table, blocks)
        places == Places(table, blocks, dirs)
        owned  == UNION {{<<d, c>> : c \in Range(Chain(table, d))} : d \in dirs}
    IN  /\ \A x \in owned : table[x[2]] # Free
        /\ \A x, y \in owned : x[2] = y[2] => x = y
        /\ \A d \in dirs : IsInjective(Chain(table, d))
        /\ \A x, y \in places :
              x.in = y.in /\ x.entry.name = y.entry.name => x = y
        /\ \A x, y \in Children(places) : x.entry.cluster = y.entry.cluster => x = y
        /\ \A x \in Children(places) :
              LET d == x.entry.cluster
              IN  /\ d # Root
                  /\ \E y \in places : /\ y.in = d /\ y.at = 1 /\ y.entry.name = "."
                                       /\ y.entry.cluster = d
                  /\ \E y \in places : /\ y.in = d /\ y.at = 2 /\ y.entry.name = ".."
                                       /\ DirectoryCluster(y.entry) = x.in

(* Without faults every allocated cluster belongs to a directory.          *)
NothingLost ==
    tree_faults = 0 =>
        {c \in Clusters : fat[c] # Free}
            = UNION {Range(Chain(fat, d)) : d \in Directories}

(* The tree is sound in memory and on disk, where every moment may be the  *)
(* last.                                                                   *)
Sound == IsTree(fat, data) /\ IsTree(disk_fat, data) /\ NothingLost
=============================================================================
