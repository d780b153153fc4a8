------------------------------- MODULE Heap --------------------------------
(***************************************************************************)
(* The kernel heap (src/mem/heap.rs): a linked list of blocks, each a      *)
(* header followed by its memory, allocated first fit, split on            *)
(* allocation and merged with the next block on deallocation.              *)
(*                                                                         *)
(* The list is the sequence blocks, from head.next on.  held is what the   *)
(* callers have: the memory they were given and its layout size.  A used   *)
(* block's size counts its header.                                         *)
(***************************************************************************)
EXTENDS Integers, Sequences

CONSTANTS HeapSize,             \* HEAP_SIZE
          Header,               \* size_of::<Block>()
          Align,                \* align_of::<Block>()
          Layouts               \* layout sizes the kernel asks for

HeapAssumption ==
    /\ HeapSize \in Nat
    /\ Header \in Nat \ {0}
    /\ Align \in Nat \ {0}
    /\ HeapSize >= Header
    /\ Layouts \subseteq Nat \ {0}

VARIABLES blocks, held

vars == <<blocks, held>>

Block(address, size, used) ==
    [address |-> address, size |-> size, used |-> used]

Init ==
    /\ blocks = <<Block(0, HeapSize, FALSE)>>
    /\ held = {}
----------------------------------------------------------------------------
(***************************************************************************)
(* Slips in the definitions below: a layout rounded down, a used block     *)
(* taken, a merge that forgets the header it gains, a freed block still    *)
(* marked used.                                                            *)
(***************************************************************************)
BlockSizeRoundedDown(layout) == (layout \div Align) * Align + Header

(* block_align_size: the layout padded to the header's alignment, and the  *)
(* header itself.                                                          *)
AlignUp(n) == ((n + Align - 1) \div Align) * Align
BlockSize(layout) == AlignUp(layout) + Header

(* create_block refuses what cannot hold a header. *)
CanCreate(address, size) == AlignUp(address) = address /\ size >= Header

TakesUsed(block, size) ==
    \/ block.size = size
    \/ block.size > size /\ CanCreate(block.address + size, block.size - size)

(* Whether the loop of allocate_internal stops at this block. *)
Takes(block, size) ==
    /\ ~block.used
    /\ \/ block.size = size
       \/ /\ block.size > size
          /\ CanCreate(block.address + size, block.size - size)

Taken(i, size) == Block(blocks[i].address, size, TRUE)

(* What is left of the block: a free block behind it, if anything is. *)
Rest(i, size) ==
    IF blocks[i].size = size
      THEN <<>>
      ELSE <<Block(blocks[i].address + size, blocks[i].size - size, FALSE)>>

(* The list before and after an entry *)
Before(i) == SubSeq(blocks, 1, i - 1)
After(i) == SubSeq(blocks, i + 1, Len(blocks))

Split(i, size) == Before(i) \o (<<Taken(i, size)>> \o Rest(i, size)) \o After(i)

(* The entry the loop stops at: the first that can be taken. *)
FirstFit(size, i) ==
    /\ Takes(blocks[i], size)
    /\ \A j \in 1 .. i - 1 : ~Takes(blocks[j], size)

Allocate(layout) ==
    LET size == BlockSize(layout)
    IN  \E i \in DOMAIN blocks :
           /\ FirstFit(size, i)
           /\ blocks' = Split(i, size)
           /\ held' = held \union
                  {[address |-> blocks[i].address + Header, size |-> layout]}

(* alloc returns a null pointer: the loop found nothing. *)
OutOfMemory(layout) ==
    /\ \A i \in DOMAIN blocks : ~Takes(blocks[i], BlockSize(layout))
    /\ UNCHANGED vars

(* merge_right: at most the one next block, if it is free. *)
MergesRight(i) == i < Len(blocks) /\ ~blocks[i + 1].used

MergedWithoutHeader(i) ==
    IF MergesRight(i)
      THEN Before(i)
             \o <<Block(blocks[i].address,
                        blocks[i].size + blocks[i + 1].size - Header, FALSE)>>
             \o After(i + 1)
      ELSE Before(i)
             \o <<Block(blocks[i].address, blocks[i].size, FALSE)>>
             \o After(i)

MergedStillUsed(i) == blocks

Merged(i) ==
    IF MergesRight(i)
      THEN Before(i)
             \o <<Block(blocks[i].address,
                        blocks[i].size + blocks[i + 1].size, FALSE)>>
             \o After(i + 1)
      ELSE Before(i)
             \o <<Block(blocks[i].address, blocks[i].size, FALSE)>>
             \o After(i)

(* dealloc finds the header in front of the memory it is given. *)
Deallocate(memory) ==
    \E i \in DOMAIN blocks :
        /\ blocks[i].address = memory.address - Header
        /\ blocks' = Merged(i)
        /\ held' = held \ {memory}

Next ==
    \/ \E layout \in Layouts : Allocate(layout) \/ OutOfMemory(layout)
    \/ \E memory \in held : Deallocate(memory)

Spec == Init /\ [][Next]_vars
----------------------------------------------------------------------------
BlockType == [address : Nat, size : Nat, used : BOOLEAN]

(* Blocks and the memory handed out have natural addresses and sizes. *)
TypeOK ==
    /\ blocks \in Seq(BlockType)
    /\ held \subseteq [address : Nat, size : Nat]

(***************************************************************************)
(* The blocks tile the heap: the first starts it, each starts where the    *)
(* one before ends, the last ends it, and each can hold its header.        *)
(* Splitting and merging lose no memory and never overlap.                 *)
(***************************************************************************)
Tiles ==
    /\ blocks # <<>>
    /\ blocks[1].address = 0
    /\ \A i \in 1 .. Len(blocks) - 1 :
          blocks[i + 1].address = blocks[i].address + blocks[i].size
    /\ blocks[Len(blocks)].address + blocks[Len(blocks)].size = HeapSize
    /\ \A i \in DOMAIN blocks : blocks[i].size >= Header

(***************************************************************************)
(* What a caller holds is the memory of one used block, after its header   *)
(* and with room for the layout asked for; so what callers write never     *)
(* reaches a header or each other's memory.                                *)
(***************************************************************************)
HeldIsUsed ==
    \A memory \in held :
        \E i \in DOMAIN blocks :
            /\ blocks[i].used
            /\ blocks[i].address + Header = memory.address
            /\ Header + memory.size <= blocks[i].size

(* A used block is held by somebody: deallocation leaves none behind. *)
UsedIsHeld ==
    \A i \in DOMAIN blocks :
        blocks[i].used =>
            \E memory \in held : memory.address = blocks[i].address + Header

(***************************************************************************)
(* The heap is sound: the three above, of blocks and memory of their type. *)
(***************************************************************************)
HeapSound == TypeOK /\ Tiles /\ HeldIsUsed /\ UsedIsHeld
=============================================================================
