------------------------------ MODULE FatFiles -----------------------------
(***************************************************************************)
(* The contents of FAT files (src/fs/fat_fs.rs): the table of cluster      *)
(* chains, kept in memory (FatBuffer) and written back whole, the          *)
(* directory entries and the data clusters, which live on disk only.       *)
(* Every operation runs under the file system's mutex, but it makes        *)
(* several disk writes: one of them may fail, and the machine may stop     *)
(* between two of them and come up again with the table it finds on disk.  *)
(*                                                                         *)
(* A file is named by the slot of its directory entry, as FATFile does by  *)
(* the entry's location: an open file goes on reaching the slot after the  *)
(* file is unlinked.  Data is cells; a cell holds 0 or the file that wrote *)
(* it, a file being one creation.                                          *)
(***************************************************************************)
EXTENDS Integers, Sequences, FiniteSets, FiniteSetsExt, SequencesExt

CONSTANTS LastCluster,          \* clusters 2 .. LastCluster
          ClusterSize,          \* cells in a cluster
          MaxSize,              \* bound: cells in a file
          Slots,                \* directory entry slots
          WriteFrom, WriteTo,   \* bound: where writes start and end
          MaxFiles,             \* bound: files ever created
          MaxFaults             \* bound: failed writes and restarts

FatFilesAssumption ==
    /\ LastCluster \in Nat /\ LastCluster >= 2
    /\ ClusterSize \in Nat \ {0}
    /\ MaxSize \in Nat /\ MaxFiles \in Nat /\ MaxFaults \in Nat

VARIABLES fat,                  \* FatBuffer, the table in memory
          disk_fat,             \* the first copy of the table on disk
          entries,              \* slot -> directory entry
          data,                 \* cluster -> cells
          files,                \* files created so far
          faults,               \* failed writes and restarts so far
          hurt                  \* the files a cut-short shrink or a dead entry hurt

vars == <<fat, disk_fat, entries, data, files, faults, hurt>>

Clusters == 2 .. LastCluster
Cells == 0 .. ClusterSize - 1
FAT_CLUSTER_FREE == 0
FAT_CLUSTER_EOF == 1            \* no cluster has this number
None == 0

FatTable == [Clusters -> {FAT_CLUSTER_FREE, FAT_CLUSTER_EOF} \union Clusters]

(***************************************************************************)
(* "deleted": unlinked, but an open file may still reach the slot;         *)
(* "unused": free and out of reach.  file is the creation the entry is of. *)
(***************************************************************************)
Entry == [state : {"unused", "live", "deleted"}, file : 0 .. MaxFiles,
          cluster : {None} \union Clusters, size : 0 .. MaxSize]

Init ==
    /\ fat = [c \in Clusters |-> FAT_CLUSTER_FREE]
    /\ disk_fat = fat
    /\ entries = [s \in Slots |-> [state |-> "unused", file |-> 0,
                                   cluster |-> None, size |-> 0]]
    /\ data = [c \in Clusters |-> [i \in Cells |-> 0]]
    /\ files = 0
    /\ faults = 0
    /\ hurt = {}
----------------------------------------------------------------------------
(***************************************************************************)
(* FatBuffer                                                               *)
(***************************************************************************)
NextCluster(f, c) == IF f[c] \in Clusters THEN f[c] ELSE None

(* cluster_at: the cluster index links from the first, or None. *)
ClusterAt(f, first, index) ==
    LET at[k \in 0 .. LastCluster] ==
          IF k = 0 THEN first
          ELSE LET before == at[k - 1]
               IN  IF before = None THEN None ELSE NextCluster(f, before)
    IN  at[index]

Chain(f, first) ==
    {ClusterAt(f, first, k) : k \in 0 .. LastCluster - 2} \ {None}


FreeChain(f, first) ==
    LET chain == Chain(f, first)
    IN  [c \in Clusters |-> IF c \in chain THEN FAT_CLUSTER_FREE ELSE f[c]]

FreeClusters(f) == {c \in Clusters : f[c] = FAT_CLUSTER_FREE}

(* The clusters allocate_chain takes: find_free_cluster starts at 2 anew. *)
Picks(f, count) ==
    LET free == FreeClusters(f)
    IN  [i \in 1 .. count |->
           CHOOSE c \in free : Cardinality({d \in free : d < c}) = i - 1]

AllocateChain(f, count) ==
    LET picked == Picks(f, count)
    IN  [c \in Clusters |->
           IF c \notin Range(picked) THEN f[c]
           ELSE IF c = picked[count] THEN FAT_CLUSTER_EOF
           ELSE picked[CHOOSE i \in 2 .. count : picked[i - 1] = c]]

ClustersForSize(size) == (size + ClusterSize - 1) \div ClusterSize

(* The cluster and cell of a position in a file *)
Place(f, first, position) ==
    <<ClusterAt(f, first, position \div ClusterSize), position % ClusterSize>>

Places(f, first, from, to) == {Place(f, first, p) : p \in from .. to - 1}

(* A slip: nothing is zeroed. *)
FilledNotZeroed(f, first, from, to, value) ==
    LET places == Places(f, first, from, to)
    IN  [c \in Clusters |-> [i \in Cells |->
            IF <<c, i>> \in places /\ value # 0 THEN value ELSE data[c][i]]]

(* data with the cells of a range of a file set to a value *)
Filled(f, first, from, to, value) ==
    LET places == Places(f, first, from, to)
    IN  [c \in Clusters |-> [i \in Cells |->
            IF <<c, i>> \in places THEN value ELSE data[c][i]]]
----------------------------------------------------------------------------
(***************************************************************************)
(* What an operation leaves behind when write number `fails` of it fails   *)
(* (0: none does).  A table write is one write per copy; if the second     *)
(* fails the first copy, which is the one read at start, has changed.      *)
(***************************************************************************)
FaultAllowed(fails) == fails = 0 \/ faults < MaxFaults
Count(fails) == faults' = IF fails = 0 THEN faults ELSE faults + 1


PersistRounded(s, first, size) ==
    [entries EXCEPT ![s].size = ClustersForSize(size) * ClusterSize,
                    ![s].cluster = first]

PersistFat(f, fails, write) ==
    disk_fat' = IF fails \in 1 .. write THEN disk_fat ELSE f

Reached(fails, write) == fails = 0 \/ fails > write

PersistDirectoryEntry(s, first, size) ==
    [entries EXCEPT ![s].size = size, ![s].cluster = first]

IsFile(s) == entries[s].state # "unused"
Dead(s) == entries[s].state = "deleted"

(* A dead entry may name clusters that any file has been given since. *)
HurtBy(s) == IF Dead(s) THEN Slots ELSE {}

(* create_file: the entry is written into a slot that is free. *)
CreateFile(s) ==
    /\ files < MaxFiles
    /\ entries[s].state # "live"
    /\ files' = files + 1
    /\ entries' = [entries EXCEPT ![s] =
                     [state |-> "live", file |-> files + 1,
                      cluster |-> None, size |-> 0]]
    /\ UNCHANGED <<fat, disk_fat, data, faults, hurt>>

(***************************************************************************)
(* unlink_file: the entry is marked deleted (write 1) before its chain is  *)
(* freed; whether the table is then written (2, 3) does not matter to the  *)
(* result.                                                                 *)
(***************************************************************************)
UnlinkFile(s, fails) ==
    LET first == entries[s].cluster
        freed == FreeChain(fat, first)
    IN  /\ entries[s].state = "live"
        /\ FaultAllowed(fails)
        /\ Count(fails)
        /\ entries' = IF Reached(fails, 1)
                        THEN [entries EXCEPT ![s].state = "deleted"]
                        ELSE entries
        /\ IF Reached(fails, 1) /\ first # None
             THEN fat' = freed /\ PersistFat(freed, fails, 2)
             ELSE UNCHANGED <<fat, disk_fat>>
        /\ UNCHANGED <<data, files, hurt>>

(* Where a run of cluster writes over a range of a file may stop *)
Stops(from, to) ==
    {from} \union {p \in from .. to - 1 : p % ClusterSize = 0}

(***************************************************************************)
(* write_existing_file within the size, cluster by cluster (fails = 1: one *)
(* of these writes fails, the earlier ones stay; a chain that ends too     *)
(* soon ends the writing); then the entry is written as it was read.       *)
(***************************************************************************)
Write(s, from, to, fails) ==
    LET e == entries[s]
    IN  /\ IsFile(s)
        /\ e.size >= to
        /\ e.cluster # None
        /\ FaultAllowed(fails)
        /\ Count(fails)
        /\ \E stop \in IF fails = 0 THEN {to} ELSE Stops(from, to) :
             data' = Filled(fat, e.cluster, from, stop, e.file)
        /\ hurt' = HurtBy(s)
        /\ UNCHANGED <<fat, disk_fat, entries, files>>

(***************************************************************************)
(* shrink_existing_file: the chain is cut in memory, the table written (1, *)
(* 2), then the entry (3).                                                 *)
(***************************************************************************)
Cut(s, size) ==
    LET first == entries[s].cluster
        last  == ClusterAt(fat, first, ClustersForSize(size) - 1)
        rest  == NextCluster(fat, last)
        kept  == [fat EXCEPT ![last] = FAT_CLUSTER_EOF]
    IN  IF size = 0 THEN FreeChain(fat, first)
        ELSE IF rest = None THEN kept ELSE FreeChain(kept, rest)

CanCut(s, size) ==
    size > 0 =>
        /\ entries[s].cluster # None
        /\ ClusterAt(fat, entries[s].cluster, ClustersForSize(size) - 1) # None

Shrink(s, size, fails) ==
    /\ IsFile(s)
    /\ size < entries[s].size
    /\ FaultAllowed(fails)
    /\ CanCut(s, size)
    /\ Count(fails)
    /\ fat' = Cut(s, size)
    /\ PersistFat(Cut(s, size), fails, 1)
    /\ entries' = IF fails # 0 THEN entries
                  ELSE PersistDirectoryEntry(
                         s, IF size = 0 THEN None ELSE entries[s].cluster, size)
    /\ hurt' = HurtBy(s) \union (IF fails = 0 THEN {} ELSE {s})
    /\ UNCHANGED <<data, files>>

(***************************************************************************)
(* grow_existing_file: the chain is extended in memory, the new cells are  *)
(* zeroed (write 1; when it fails some cells may be zero already), the     *)
(* table is written (2, 3) and then the entry (4).  Up to the table a      *)
(* failure rolls the memory back.                                          *)
(***************************************************************************)
Extra(s, size) == ClustersForSize(size) - ClustersForSize(entries[s].size)

(* The file's last cluster, None if its chain is too short *)
LastOld(s, f) ==
    ClusterAt(f, entries[s].cluster, ClustersForSize(entries[s].size) - 1)

Extended(s, size) ==
    LET more == AllocateChain(fat, Extra(s, size))
        last == LastOld(s, more)
    IN  IF Extra(s, size) = 0 THEN fat
        ELSE IF entries[s].size = 0 THEN more
        ELSE [more EXCEPT ![last] = Picks(fat, Extra(s, size))[1]]

First(s, size) ==
    IF entries[s].size = 0 /\ Extra(s, size) > 0
      THEN Picks(fat, Extra(s, size))[1]
      ELSE entries[s].cluster

HasRoom(s, size) == Extra(s, size) <= Cardinality(FreeClusters(fat))

CanExtend(s, size) ==
    /\ HasRoom(s, size)
    /\ entries[s].size > 0 =>
         LastOld(s, IF Extra(s, size) = 0 THEN fat
                    ELSE AllocateChain(fat, Extra(s, size))) # None

(* A slip: the old last cluster still names the clusters given back. *)
RolledBackDangling(s, size) ==
    IF Extra(s, size) = 0 THEN fat
    ELSE FreeChain(Extended(s, size), Picks(fat, Extra(s, size))[1])

RolledBack(s, size) ==
    LET ended == IF entries[s].size = 0 THEN Extended(s, size)
                 ELSE [Extended(s, size) EXCEPT
                         ![LastOld(s, Extended(s, size))] = FAT_CLUSTER_EOF]
    IN  IF Extra(s, size) = 0 THEN ended
        ELSE FreeChain(ended, Picks(fat, Extra(s, size))[1])

Grow(s, size, fails) ==
    LET longer == Extended(s, size)
        old    == entries[s].size
    IN  /\ IsFile(s)
        /\ size > entries[s].size
        /\ FaultAllowed(fails)
        /\ CanExtend(s, size)
        /\ Count(fails)
        /\ \E stop \in IF fails = 1 THEN Stops(old, size) ELSE {size} :
             data' = Filled(longer, First(s, size), old, stop, 0)
        /\ fat' = IF fails \in 1 .. 3 THEN RolledBack(s, size) ELSE longer
        /\ PersistFat(longer, fails, 2)
        /\ entries' = IF fails # 0 THEN entries
                      ELSE PersistDirectoryEntry(s, First(s, size), size)
        /\ hurt' = HurtBy(s)
        /\ UNCHANGED files

(***************************************************************************)
(* grow_existing_file on a chain that ends too soon: the function returns  *)
(* with the clusters it allocated linked to nothing.                       *)
(***************************************************************************)
GrowUnlinked(s, size) ==
    /\ IsFile(s)
    /\ size > entries[s].size
    /\ Extra(s, size) > 0
    /\ HasRoom(s, size)
    /\ ~ CanExtend(s, size)
    /\ fat' = AllocateChain(fat, Extra(s, size))
    /\ hurt' = HurtBy(s)
    /\ UNCHANGED <<disk_fat, entries, data, files, faults>>

(***************************************************************************)
(* The machine stops after some of an operation's writes and starts again: *)
(* read_fat takes the table from disk, and no file is open.                *)
(***************************************************************************)
Closed(es) ==
    [s \in Slots |-> IF es[s].state = "deleted"
                       THEN [es[s] EXCEPT !.state = "unused"] ELSE es[s]]

Restart ==
    /\ faults < MaxFaults
    /\ faults' = faults + 1
    /\ fat' = disk_fat
    /\ entries' = Closed(entries)
    /\ UNCHANGED <<disk_fat, data, files, hurt>>

(* Stopped between the table and the entry of a shrink *)
StopInShrink(s, size) ==
    /\ faults < MaxFaults
    /\ faults' = faults + 1
    /\ IsFile(s)
    /\ size < entries[s].size
    /\ CanCut(s, size)
    /\ fat' = Cut(s, size)
    /\ disk_fat' = fat'
    /\ entries' = Closed(entries)
    /\ hurt' = HurtBy(s) \union {s}
    /\ UNCHANGED <<data, files>>

(* Stopped between the table and the entry of a growth *)
StopInGrow(s, size) ==
    /\ faults < MaxFaults
    /\ faults' = faults + 1
    /\ IsFile(s)
    /\ size > entries[s].size
    /\ CanExtend(s, size)
    /\ fat' = Extended(s, size)
    /\ disk_fat' = fat'
    /\ data' = Filled(fat', First(s, size), entries[s].size, size, 0)
    /\ entries' = Closed(entries)
    /\ hurt' = HurtBy(s)
    /\ UNCHANGED files

(* Stopped between the entry and the table of an unlink *)
StopInUnlink(s) ==
    /\ faults < MaxFaults
    /\ faults' = faults + 1
    /\ entries[s].state = "live"
    /\ entries' = Closed([entries EXCEPT ![s].state = "deleted"])
    /\ fat' = disk_fat
    /\ UNCHANGED <<disk_fat, data, files, hurt>>

(***************************************************************************)
(* After a cut-short shrink or the use of a dead entry nothing is promised *)
(* of the table: the behaviours stop there.                                *)
(***************************************************************************)
Next ==
    /\ hurt = {}
    /\ \/ \E s \in Slots :
            \/ CreateFile(s)
            \/ \E fails \in 0 .. 3 : UnlinkFile(s, fails)
            \/ \E from \in WriteFrom, to \in WriteTo, fails \in 0 .. 1 :
                  from < to /\ Write(s, from, to, fails)
            \/ \E size \in 0 .. MaxSize :
                  \/ \E fails \in 0 .. 3 : Shrink(s, size, fails)
                  \/ \E fails \in 0 .. 4 : Grow(s, size, fails)
                  \/ GrowUnlinked(s, size)
                  \/ StopInShrink(s, size)
                  \/ StopInGrow(s, size)
            \/ StopInUnlink(s)
       \/ Restart

Spec == Init /\ [][Next]_vars
----------------------------------------------------------------------------
Live == {s \in Slots : entries[s].state = "live"}

(* The state of the table, the entries and the data. *)
TypeOK ==
    /\ fat \in FatTable
    /\ disk_fat \in FatTable
    /\ entries \in [Slots -> Entry]
    /\ data \in [Clusters -> [Cells -> 0 .. MaxFiles]]
    /\ files \in 0 .. MaxFiles
    /\ faults \in 0 .. MaxFaults
    /\ hurt \subseteq Slots

(* In a table, a file's chain covers its size, ends, and none of its      *)
(* clusters is free to be allocated again.                                *)
Covered(f, s) ==
    LET e == entries[s]
    IN  /\ e.size > 0 =>
             /\ e.cluster # None
             /\ ClusterAt(f, e.cluster, ClustersForSize(e.size) - 1) # None
        /\ \A c \in Chain(f, e.cluster) : f[c] # FAT_CLUSTER_FREE
        /\ e.cluster # None => ClusterAt(f, e.cluster, LastCluster - 1) = None

Sound(f) ==
    /\ \A s \in Live \ hurt : Covered(f, s)
    /\ \A s, t \in Live \ hurt : s # t =>
         Chain(f, entries[s].cluster) \intersect Chain(f, entries[t].cluster)
           = {}



(* What a file shows is its own: each cell within its size is zero or was  *)
(* written through this file, never left by a file that held the cluster   *)
(* before (zero_file_range, before the new size is visible).               *)
ShowsOwnData ==
    \A s \in Live \ hurt : \A p \in 0 .. entries[s].size - 1 :
        LET place == Place(fat, entries[s].cluster, p)
        IN  data[place[1]][place[2]] \in {0, entries[s].file}

(* Without faults no cluster is lost: the used clusters are those the      *)
(* sizes of the live files call for, so freeing never forgets one.         *)
NothingLost ==
    hurt = {} /\ faults = 0 =>
        Cardinality(Clusters \ FreeClusters(fat)) =
            MapThenSumSet(
                LAMBDA s : ClustersForSize(entries[s].size), Live)
=============================================================================
