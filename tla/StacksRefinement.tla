-------------------------- MODULE StacksRefinement -------------------------
(***************************************************************************)
(* The stack allocator keeps the promise of module RangeAllocator, with    *)
(* each stack's guard page counted as part of its range.                   *)
(***************************************************************************)
EXTENDS Stacks

(* The guard page and the stack's pages. *)
Held == {[lo |-> s.start - 1, hi |-> s.end + 1] : s \in stacks}

Abstract == INSTANCE RangeAllocator
    WITH Lo <- 0, Hi <- RangeEnd + 1, held <- Held

(***************************************************************************)
(* StackAllocator::alloc and free implement RangeAllocator: no stack, its  *)
(* guard page included, is handed out over a stack still in use, whether   *)
(* it is new or a freed range used again.                                  *)
(***************************************************************************)
StacksKeepApart == Abstract!Promise
=============================================================================
