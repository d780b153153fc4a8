-------------------------- MODULE FileDescriptors --------------------------
(***************************************************************************)
(* File descriptors (src/scheduling/process.rs and the system calls open,  *)
(* close, read, write and truncate).  A descriptor has an offset of its    *)
(* own; a child starts with a copy of its parent's table, so the two reach *)
(* the same files through separate offsets.  A system call runs to its     *)
(* end, and processes take turns between calls.                            *)
(*                                                                         *)
(* A file is a sequence of cells.  Its first descriptor writes a stream:   *)
(* the n-th cell sent through it is n, and what a call did not write is    *)
(* sent again by the next; the count is kept while the descriptor is the   *)
(* only one, has only written, and nobody has truncated the file.  The     *)
(* file system below may refuse to grow a file, and may write some of the  *)
(* cells only.                                                             *)
(***************************************************************************)
EXTENDS Integers, Sequences, FiniteSets, FiniteSetsExt, SequencesExt

CONSTANTS Pids, Files,
          MaxSize,              \* bound: cells in a file
          MaxOpen,              \* bound: descriptors in a table
          MaxOpened,            \* bound: descriptors opened for a file
          MaxCall               \* bound: cells in one read or write

VARIABLES fd_table,             \* process -> table; empty when it is not there
          contents,             \* file -> cells
          opened,               \* file -> descriptors ever made for it
          sent,                 \* file -> cells its only descriptor sent
          cut,                  \* files that have been truncated
          most_open             \* process -> most descriptors open at once

vars == <<fd_table, contents, opened, sent, cut, most_open>>

None   == [kind |-> "none"]
Stdin  == [kind |-> "stdin"]
Stdout == [kind |-> "stdout"]
Stderr == [kind |-> "stderr"]
File(f, offset) == [kind |-> "file", file |-> f, offset |-> offset]

NotCounted == -1                \* sent, once more has happened than writing

StandardFdTable == <<Stdin, Stdout, Stderr>>

(* Descriptor fd is position fd + 1 of the table. *)
GetFd(p, fd) ==
    IF fd + 1 \in DOMAIN fd_table[p] THEN fd_table[p][fd + 1] ELSE None

IsFile(p, fd) == GetFd(p, fd).kind = "file"
Fds == 0 .. MaxOpen - 1
Alive(p) == fd_table[p] # <<>>
OpenFds(table) == {i \in DOMAIN table : table[i] # None}

(* One process is deployed at boot, with no file open. *)
Init ==
    /\ \E first \in Pids :
         /\ fd_table = [p \in Pids |-> IF p = first THEN StandardFdTable ELSE <<>>]
         /\ most_open = [p \in Pids |-> IF p = first THEN 3 ELSE 0]
    /\ contents = [f \in Files |-> <<>>]
    /\ opened = [f \in Files |-> 0]
    /\ sent = [f \in Files |-> 0]
    /\ cut = {}
----------------------------------------------------------------------------
(* Slips below: numbers are never used again, a file grows by a cell more  *)
(* than asked, an offset moves by what was asked and not by what was       *)
(* written, or stays beyond the new end.                                   *)
FreeFdAtEnd(table) == Len(table) + 1

(* open_file: the first free number from 3 on, else one more. *)
FreeFd(table) ==
    Min({i \in 4 .. Len(table) : table[i] = None} \union {Len(table) + 1})

OpenFile(p, f) ==
    LET at == FreeFd(fd_table[p])
        table == IF at <= Len(fd_table[p])
                   THEN [fd_table[p] EXCEPT ![at] = File(f, 0)]
                   ELSE Append(fd_table[p], File(f, 0))
    IN  /\ Alive(p)
        /\ at <= MaxOpen
        /\ opened[f] < MaxOpened
        /\ fd_table' = [fd_table EXCEPT ![p] = table]
        /\ opened' = [opened EXCEPT ![f] = @ + 1]
        /\ sent' = [sent EXCEPT ![f] = IF opened[f] = 0 THEN 0 ELSE NotCounted]
        /\ most_open' = [most_open EXCEPT
                           ![p] = Max({@, Cardinality(OpenFds(table))})]
        /\ UNCHANGED <<contents, cut>>

(* close_fd: 0, 1 and 2 stay; closing a free number changes nothing. *)
CloseFd(p, fd) ==
    /\ fd >= 3
    /\ fd < Len(fd_table[p])
    /\ fd_table' = [fd_table EXCEPT ![p][fd + 1] = None]
    /\ UNCHANGED <<contents, opened, sent, cut, most_open>>

(* read_fd: up to size cells; at or beyond the end, none. *)
ReadFd(p, fd, size) ==
    LET d == GetFd(p, fd)
        length == Len(contents[d.file])
    IN  /\ IsFile(p, fd)
        /\ d.offset < length
        /\ fd_table' = [fd_table EXCEPT ![p][fd + 1] =
                          File(d.file, Min({d.offset + size, length}))]
        /\ sent' = [sent EXCEPT ![d.file] = NotCounted]
        /\ UNCHANGED <<contents, opened, cut, most_open>>

ResizedOneMore(cells, size) ==
    [i \in 1 .. size + 1 |-> IF i <= Len(cells) THEN cells[i] ELSE 0]

Resized(cells, size) ==
    [i \in 1 .. size |-> IF i <= Len(cells) THEN cells[i] ELSE 0]

AdvancedBySize(d, size, told) == File(d.file, d.offset + size)

(* The descriptor after a write of `size` cells that reported `told` *)
Advanced(d, size, told) == File(d.file, d.offset + told)

Counted(f) == sent[f] # NotCounted

(***************************************************************************)
(* write_fd: the file grows first, and stays grown if the write then       *)
(* fails; the offset moves by what was written.  told is what the call     *)
(* reports: 0 also when the cells were written but the entry was not.      *)
(***************************************************************************)
WriteFd(p, fd, size, written, told) ==
    LET d   == GetFd(p, fd)
        end == d.offset + size
        grown == IF end > Len(contents[d.file])
                   THEN Resized(contents[d.file], end) ELSE contents[d.file]
    IN  /\ IsFile(p, fd)
        /\ end <= MaxSize
        /\ contents' = [contents EXCEPT ![d.file] =
             [i \in DOMAIN grown |->
                IF i \in d.offset + 1 .. d.offset + written
                  THEN IF Counted(d.file) THEN sent[d.file] + (i - d.offset)
                                          ELSE 1
                  ELSE grown[i]]]
        /\ fd_table' = [fd_table EXCEPT ![p][fd + 1] = Advanced(d, size, told)]
        /\ sent' = [sent EXCEPT ![d.file] = IF Counted(d.file) THEN @ + told ELSE @]
        /\ UNCHANGED <<opened, cut, most_open>>

TruncateKeepsOffset(p, fd, size) ==
    LET d == GetFd(p, fd)
    IN  /\ IsFile(p, fd)
        /\ contents' = [contents EXCEPT ![d.file] = Resized(@, size)]
        /\ cut' = cut \union {d.file}
        /\ sent' = [sent EXCEPT ![d.file] = NotCounted]
        /\ UNCHANGED <<fd_table, opened, most_open>>

(* truncate_fd: only this descriptor's offset follows the end back. *)
TruncateFd(p, fd, size) ==
    LET d == GetFd(p, fd)
    IN  /\ IsFile(p, fd)
        /\ contents' = [contents EXCEPT ![d.file] = Resized(@, size)]
        /\ fd_table' = [fd_table EXCEPT ![p][fd + 1].offset = Min({@, size})]
        /\ cut' = cut \union {d.file}
        /\ sent' = [sent EXCEPT ![d.file] = NotCounted]
        /\ UNCHANGED <<opened, most_open>>

(* deploy with fork_current: the child has a copy of the table. *)
Execute(p, child) ==
    /\ Alive(p)
    /\ most_open[child] = 0
    /\ fd_table' = [fd_table EXCEPT ![child] = fd_table[p]]
    /\ opened' = [f \in Files |-> opened[f] +
                    Cardinality({i \in DOMAIN fd_table[p] :
                      fd_table[p][i].kind = "file" /\ fd_table[p][i].file = f})]
    /\ sent' = [f \in Files |->
                  IF opened'[f] = opened[f] THEN sent[f] ELSE NotCounted]
    /\ most_open' = [most_open EXCEPT ![child] = most_open[p]]
    /\ UNCHANGED <<contents, cut>>

(* exit_current drops the process and its table. *)
Exit(p) ==
    /\ Alive(p)
    /\ fd_table' = [fd_table EXCEPT ![p] = <<>>]
    /\ UNCHANGED <<contents, opened, sent, cut, most_open>>

Next ==
    \E p \in Pids :
        \/ \E f \in Files : OpenFile(p, f)
        \/ \E fd \in Fds :
             \/ CloseFd(p, fd)
             \/ \E size \in 1 .. MaxCall :
                  \/ ReadFd(p, fd, size)
                  \/ \E written \in 0 .. size : \E told \in {0, written} :
                       WriteFd(p, fd, size, written, told)
             \/ \E size \in 0 .. MaxSize : TruncateFd(p, fd, size)
        \/ \E child \in Pids : Execute(p, child)
        \/ Exit(p)

Spec == Init /\ [][Next]_vars
----------------------------------------------------------------------------
(* The tables and the files. *)
TypeOK ==
    /\ \A p \in Pids : /\ Len(fd_table[p]) <= MaxOpen
                       /\ \A i \in DOMAIN fd_table[p] :
                            fd_table[p][i].kind = "file" =>
                              /\ fd_table[p][i].file \in Files
                              /\ fd_table[p][i].offset \in 0 .. MaxSize
    /\ \A f \in Files : Len(contents[f]) <= MaxSize
    /\ sent \in [Files -> {NotCounted} \union 0 .. MaxSize]
    /\ most_open \in [Pids -> 0 .. MaxOpen]

(* What one descriptor sent to a file that nobody else has opened stands   *)
(* in it in order, without a gap or a repeat, whatever calls wrote less    *)
(* than asked or failed after growing the file (write_fd).                 *)
StreamIntact ==
    \A f \in Files : Counted(f) =>
        /\ \A n \in 1 .. sent[f] : contents[f][n] = n
        /\ \A p \in Pids : \A i \in DOMAIN fd_table[p] :
             fd_table[p][i].kind = "file" /\ fd_table[p][i].file = f =>
                 fd_table[p][i].offset = sent[f]

(* An offset lies beyond the end only when the file was cut through        *)
(* another descriptor: write_fd moves it no further than it grew the file, *)
(* truncate_fd brings its own back, and read_fd stops at the end.          *)
OffsetWithinFile ==
    \A p \in Pids : \A i \in DOMAIN fd_table[p] :
        LET d == fd_table[p][i]
        IN  d.kind = "file" /\ d.offset > Len(contents[d.file]) =>
                d.file \in cut /\ opened[d.file] > 1

(* Numbers are used again: a table is never longer than the most           *)
(* descriptors the process, or the one it was copied from, had open at     *)
(* once, and 0, 1 and 2 are always what they were (open_file, close_fd).   *)
NumbersReused ==
    \A p \in Pids : Alive(p) =>
        /\ Len(fd_table[p]) <= most_open[p]
        /\ SubSeq(fd_table[p], 1, 3) = StandardFdTable
=============================================================================
