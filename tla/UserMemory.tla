----------------------------- MODULE UserMemory ----------------------------
(***************************************************************************)
(* How system calls reach the memory of their caller: the check of a       *)
(* range against the caller's page table (walk_range_entries in            *)
(* src/mem/paging/page_table.rs), the copies behind it                     *)
(* (src/scheduling/process.rs), and the calls that read a file or a        *)
(* directory into the caller's buffer or take bytes out of it              *)
(* (src/syscall).  A call runs to its end without being interrupted.       *)
(*                                                                         *)
(* Addresses are the ones that page tables tell apart; a page is absent,   *)
(* the kernel's, readable or writable by user code.                        *)
(***************************************************************************)
EXTENDS Integers, FiniteSets

CONSTANTS PageSize,             \* PAGE_SIZE
          LastPage,             \* the last page of the address space
          MaxWord,              \* usize::MAX
          DirEntrySize,         \* size_of::<SyscallDirEntry>()
          FileSize,             \* bytes in the file read from
          DirEntries            \* entries of the working directory

UserMemoryAssumption ==
    /\ {PageSize, DirEntrySize} \subseteq Nat \ {0}
    /\ {LastPage, FileSize, DirEntries} \subseteq Nat
    /\ MaxWord \in Nat /\ MaxWord >= (LastPage + 1) * PageSize

VARIABLES flags,                \* page -> what its PML1 entry allows
          offset,               \* of the descriptor read from
          delivered,            \* bytes of the file that calls have reported
          copied,               \* the bytes the last call touched, and how
          asked,                \* the buffer the last call was given
          outcome               \* of the last call; none while user code runs

vars == <<flags, offset, delivered, copied, asked, outcome>>

Pages == 0 .. LastPage
AddressEnd == (LastPage + 1) * PageSize
Addresses == 0 .. AddressEnd - 1
Kinds == {"absent", "kernel", "read", "write"}

Nothing == [bytes |-> {}, writes |-> FALSE]

Init ==
    /\ flags \in [Pages -> Kinds]
    /\ offset = 0
    /\ delivered = 0
    /\ copied = Nothing
    /\ asked = Nothing
    /\ outcome = "none"
----------------------------------------------------------------------------
(* Page::for_address *)
ForAddress(addr) == addr \div PageSize

(* The test of validate_user_pointer on one entry. *)
Allows(kind, writable) == kind = "write" \/ (kind = "read" /\ ~writable)

(* A slip: the page of the last byte is left out. *)
ValidateUpToEnd(addr, size, writable) ==
    \/ size = 0
    \/ /\ addr + size - 1 <= MaxWord
       /\ \A page \in ForAddress(addr) .. ForAddress(addr + size - 1) - 1 :
             page \in Pages /\ Allows(flags[page], writable)

(***************************************************************************)
(* validate_user_pointer with walk_range_entries: an empty range passes,   *)
(* one whose end overflows does not, and else every page from the first    *)
(* byte's to the last byte's is looked at.                                 *)
(***************************************************************************)
ValidateUserPointer(addr, size, writable) ==
    \/ size = 0
    \/ /\ addr + size - 1 <= MaxWord
       /\ \A page \in ForAddress(addr) .. ForAddress(addr + size - 1) :
             page \in Pages /\ Allows(flags[page], writable)

Bytes(addr, size) == addr .. addr + size - 1
Buffer(addr, size, writes) == [bytes |-> Bytes(addr, size), writes |-> writes]

Asks(addr, size, writes) ==
    /\ outcome = "none"
    /\ asked' = Buffer(addr, size, writes)

Returns(touched) ==
    /\ copied' = touched
    /\ outcome' = "accepted"
    /\ UNCHANGED flags

Refuses ==
    /\ copied' = Nothing
    /\ outcome' = "refused"
    /\ UNCHANGED flags

(* How many bytes read_fd returns. *)
ReadLength(size) ==
    IF offset >= FileSize THEN 0
    ELSE IF offset + size > FileSize THEN FileSize - offset ELSE size

(* read_fd, then copy_to_user, which checks the part of the buffer it uses *)
ReadAndCopy(addr, length) ==
    /\ offset' = offset + length
    /\ IF ValidateUserPointer(addr, length, TRUE)
         THEN Returns(Buffer(addr, length, TRUE)) /\ delivered' = delivered + length
         ELSE Refuses /\ UNCHANGED delivered


(***************************************************************************)
(* read on a file: the whole buffer is checked before read_fd moves the    *)
(* offset over what it returns.                                            *)
(***************************************************************************)
Read(addr, size) ==
    /\ Asks(addr, size, TRUE)
    /\ IF ValidateUserPointer(addr, size, TRUE)
         THEN ReadAndCopy(addr, ReadLength(size))
         ELSE Refuses /\ UNCHANGED <<offset, delivered>>

(***************************************************************************)
(* read_dir: room for all the entries asked for is checked, and as many    *)
(* as there are are copied; a count whose bytes overflow is refused.       *)
(***************************************************************************)
ReadDir(addr, max_items) ==
    LET room  == max_items * DirEntrySize
        items == IF max_items < DirEntries THEN max_items ELSE DirEntries
        size  == items * DirEntrySize
    IN  /\ Asks(addr, room, TRUE)
        /\ IF /\ room <= MaxWord
              /\ ValidateUserPointer(addr, room, TRUE)
              /\ ValidateUserPointer(addr, size, TRUE)
             THEN Returns(Buffer(addr, size, TRUE))
             ELSE Refuses
        /\ UNCHANGED <<offset, delivered>>

(* copy_from_user in write, open, create, cd, mkdir, unlink, rmdir, execute *)
(* and nanosleep: the bytes are read once the range is known to be mapped.  *)
CopyFromUser(addr, size) ==
    /\ Asks(addr, size, FALSE)
    /\ IF ValidateUserPointer(addr, size, FALSE)
         THEN Returns(Buffer(addr, size, FALSE))
         ELSE Refuses
    /\ UNCHANGED <<offset, delivered>>

(* copy_slice_to_user of one value, in clock_gettime *)
CopyValueToUser(addr, size) ==
    /\ Asks(addr, size, TRUE)
    /\ IF ValidateUserPointer(addr, size, TRUE)
         THEN Returns(Buffer(addr, size, TRUE))
         ELSE Refuses
    /\ UNCHANGED <<offset, delivered>>

(* Back in user code *)
GoesOn ==
    /\ outcome # "none"
    /\ outcome' = "none"
    /\ copied' = Nothing
    /\ asked' = Nothing
    /\ UNCHANGED <<flags, offset, delivered>>

Next ==
    \/ GoesOn
    \/ \E addr \in Addresses :
          \/ \E size \in 0 .. MaxWord :
               \/ Read(addr, size)
               \/ CopyFromUser(addr, size)
               \/ CopyValueToUser(addr, size)
          \/ \E max_items \in 0 .. MaxWord : ReadDir(addr, max_items)

Spec == Init /\ [][Next]_vars
----------------------------------------------------------------------------
(* A page's kind, and counts. *)
TypeOK ==
    /\ flags \in [Pages -> Kinds]
    /\ {offset, delivered} \subseteq Nat
    /\ outcome \in {"none", "accepted", "refused"}
    /\ copied.bytes \subseteq Addresses

Accessible(buffer) ==
    \A byte \in buffer.bytes :
        byte \in Addresses /\ Allows(flags[byte \div PageSize], buffer.writes)

(* A call touches only bytes that its caller could touch itself in that    *)
(* way, wherever in their pages the range begins and ends.                 *)
TouchesOnlyAccessible == Accessible(copied)

(* A call is refused exactly when some byte of the buffer it was given is  *)
(* not the caller's: a range that ends with its page, that is empty or     *)
(* that overflows is neither refused nor let through wrongly.              *)
RefusedExactly == outcome = "refused" <=> ~Accessible(asked)

(* read moves the offset by what the caller gets: a buffer that cannot     *)
(* take the bytes is noticed before the descriptor has moved over them.    *)
NothingSkipped == offset = delivered
=============================================================================
