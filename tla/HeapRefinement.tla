--------------------------- MODULE HeapRefinement --------------------------
(***************************************************************************)
(* The heap keeps the promise of module RangeAllocator.                    *)
(***************************************************************************)
EXTENDS Heap

HeldRanges ==
    {[lo |-> memory.address, hi |-> memory.address + memory.size] :
        memory \in held}

Abstract == INSTANCE RangeAllocator
    WITH Lo <- 0, Hi <- HeapSize, held <- HeldRanges

(***************************************************************************)
(* alloc and dealloc implement RangeAllocator: the memory of an allocation *)
(* lies in the heap and overlaps no other allocation still in use.         *)
(***************************************************************************)
MemoryKeptApart == Abstract!Promise
=============================================================================
