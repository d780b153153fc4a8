-------------------------------- MODULE Prdt -------------------------------
(***************************************************************************)
(* The region table of an AHCI command (fill_prdt_entries in               *)
(* src/ahci/port.rs): a buffer, contiguous in virtual memory, is described *)
(* to the controller as pieces that are contiguous in physical memory,     *)
(* none larger than HBA_PRDT_MAX_BYTE_COUNT.  The loop goes page by page;  *)
(* a step is one chunk.                                                    *)
(***************************************************************************)
EXTENDS Integers, Sequences, SequencesExt

CONSTANTS PAGE_SIZE, HBA_PRDT_MAX_BYTE_COUNT, HBA_PRDT_ENTRY_COUNT,
          Pages, Frames         \* virtual pages and page frames, numbered

PrdtAssumption ==
    /\ {PAGE_SIZE, HBA_PRDT_MAX_BYTE_COUNT, HBA_PRDT_ENTRY_COUNT}
         \subseteq Nat \ {0}
    /\ Pages \subseteq Nat /\ Frames \subseteq Nat

VARIABLES translation,          \* page -> frame; Unmapped if there is none
          start, count,         \* the buffer
          virt_addr, bytes_remaining,
          entries,              \* the table: pairs of address and size
          buffer_phys, entry_size,      \* the entry that is being made
          stage

vars == <<translation, start, count, virt_addr, bytes_remaining, entries,
          buffer_phys, entry_size, stage>>

Unmapped == -1
PageOf(addr) == addr \div PAGE_SIZE
LastPage == CHOOSE p \in Pages : \A q \in Pages : q <= p

(* translate_to_physical, and the offset in the page *)
Physical(addr) == translation[PageOf(addr)] * PAGE_SIZE + (addr % PAGE_SIZE)
IsMapped(addr) == PageOf(addr) \in Pages /\ translation[PageOf(addr)] # Unmapped

(* Different pages have different frames. *)
Init ==
    /\ translation \in [Pages -> Frames \union {Unmapped}]
    /\ \A p, q \in Pages : p # q /\ translation[p] # Unmapped =>
                              translation[p] # translation[q]
    /\ start \in 0 .. PAGE_SIZE - 1
    /\ count \in 0 .. (LastPage + 1) * PAGE_SIZE - start
    /\ virt_addr = start
    /\ bytes_remaining = count
    /\ entries = <<>>
    /\ buffer_phys = 0
    /\ entry_size = 0
    /\ stage = "next"
----------------------------------------------------------------------------
NothingToDo ==
    /\ stage = "next"
    /\ count = 0
    /\ stage' = "refused"
    /\ UNCHANGED <<translation, start, count, virt_addr, bytes_remaining,
                   entries, buffer_phys, entry_size>>

(* The outer loop: another entry, or the end *)
StartEntry ==
    /\ stage = "next"
    /\ bytes_remaining > 0
    /\ IF Len(entries) >= HBA_PRDT_ENTRY_COUNT \/ ~ IsMapped(virt_addr)
         THEN stage' = "refused" /\ UNCHANGED <<buffer_phys, entry_size>>
         ELSE /\ stage' = "chunk"
              /\ buffer_phys' = Physical(virt_addr)
              /\ entry_size' = 0
    /\ UNCHANGED <<translation, start, count, virt_addr, bytes_remaining,
                   entries>>

Smallest(a, b) == IF a < b THEN a ELSE b

(* Slips below: the limit of an entry is not looked at when a chunk is     *)
(* measured, or when it has been added; frames are taken to follow each    *)
(* other; an entry ends with its first chunk.                              *)
ChunkOverLimit ==
    Smallest(bytes_remaining, PAGE_SIZE - (virt_addr % PAGE_SIZE))

ChunkSize ==
    Smallest(bytes_remaining,
             Smallest(PAGE_SIZE - (virt_addr % PAGE_SIZE),
                      HBA_PRDT_MAX_BYTE_COUNT - entry_size))

AlwaysContiguous == TRUE

Contiguous ==
    entry_size > 0 => Physical(virt_addr) = buffer_phys + entry_size

FullAtEndOnly(size, remaining) == remaining = 0
FullAfterChunk(size, remaining) == TRUE

EntryFull(size, remaining) == remaining = 0 \/ size = HBA_PRDT_MAX_BYTE_COUNT

(* The inner loop: the next page belongs to the entry, or ends it. *)
AddChunk ==
    /\ stage = "chunk"
    /\ IsMapped(virt_addr)
    /\ Contiguous
    /\ entry_size' = entry_size + ChunkSize
    /\ virt_addr' = virt_addr + ChunkSize
    /\ bytes_remaining' = bytes_remaining - ChunkSize
    /\ stage' = IF EntryFull(entry_size', bytes_remaining')
                  THEN "store" ELSE "chunk"
    /\ UNCHANGED <<translation, start, count, entries, buffer_phys>>

EndEntry ==
    /\ stage = "chunk"
    /\ IsMapped(virt_addr)
    /\ ~ Contiguous
    /\ stage' = "store"
    /\ UNCHANGED <<translation, start, count, virt_addr, bytes_remaining,
                   entries, buffer_phys, entry_size>>

NotMapped ==
    /\ stage = "chunk"
    /\ ~ IsMapped(virt_addr)
    /\ stage' = "refused"
    /\ UNCHANGED <<translation, start, count, virt_addr, bytes_remaining,
                   entries, buffer_phys, entry_size>>

StoreEntry ==
    /\ stage = "store"
    /\ entries' = Append(entries, <<buffer_phys, entry_size>>)
    /\ stage' = IF bytes_remaining = 0 THEN "filled" ELSE "next"
    /\ UNCHANGED <<translation, start, count, virt_addr, bytes_remaining,
                   buffer_phys, entry_size>>

Next == NothingToDo \/ StartEntry \/ AddChunk \/ EndEntry \/ NotMapped
        \/ StoreEntry

Spec == Init /\ [][Next]_vars /\ WF_vars(Next)
----------------------------------------------------------------------------
(* The cursor stays in the buffer and an entry within its limit. *)
TypeOK ==
    /\ virt_addr + bytes_remaining = start + count
    /\ entry_size \in 0 .. HBA_PRDT_MAX_BYTE_COUNT
    /\ Len(entries) <= HBA_PRDT_ENTRY_COUNT
    /\ stage \in {"next", "chunk", "store", "filled", "refused"}

(* The physical addresses an entry names, in order *)
Named(entry) == [n \in 1 .. entry[2] |-> entry[1] + n - 1]

(* The table names every byte of the buffer once and in order: the         *)
(* controller moves the data to and from where the processor sees it.      *)
TableIsBuffer ==
    stage = "filled" =>
        FlattenSeq([e \in DOMAIN entries |-> Named(entries[e])])
          = [n \in 1 .. count |-> Physical(start + n - 1)]

(* An entry is not cut short: it ends where physical memory stops being    *)
(* contiguous or at its limit, so a buffer is refused for want of entries  *)
(* only when it has more pieces than the table has room for.               *)
EntriesAreLongest ==
    stage = "filled" => \A e \in 1 .. Len(entries) - 1 :
        \/ entries[e][2] = HBA_PRDT_MAX_BYTE_COUNT
        \/ entries[e][1] + entries[e][2] # entries[e + 1][1]

(* The loop ends (send_command spins on nothing before this).              *)
Ends == <>(stage \in {"filled", "refused"})
=============================================================================
