-------------------------- MODULE RangeAllocator ---------------------------
(***************************************************************************)
(* What an allocator of address ranges promises its callers, whatever      *)
(* it keeps inside: a range it hands out lies in its area and overlaps no  *)
(* range it has handed out before and not got back.  A request may fail.   *)
(* The heap and the stack allocator implement it (HeapRefinement and       *)
(* StacksRefinement).                                                      *)
(***************************************************************************)
EXTENDS Integers

CONSTANTS Lo, Hi                \* the area: Lo .. Hi - 1

VARIABLE held                   \* the ranges handed out, as [lo, hi)

IsRange(r) == Lo <= r.lo /\ r.lo < r.hi /\ r.hi <= Hi

Apart(r, s) == r.hi <= s.lo \/ s.hi <= r.lo

Start == held = {}

HandOut ==
    \E r \in held' \ held :
        /\ IsRange(r)
        /\ \A s \in held : Apart(r, s)
        /\ held' = held \union {r}

GiveBack == \E r \in held : held' = held \ {r}

Promise == Start /\ [][HandOut \/ GiveBack]_held
=============================================================================
