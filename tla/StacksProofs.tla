---------------------------- MODULE StacksProofs ---------------------------
(***************************************************************************)
(* The stack allocator, for every page range, every amount of memory and   *)
(* all stack sizes: stacks in use, with their guard pages, stay apart.     *)
(***************************************************************************)
EXTENDS StacksRefinement, SequenceFacts

(***************************************************************************)
(* The inductive invariant.  The stacks in use and the freed ranges, each  *)
(* with the page below it, lie in the part of the page range already       *)
(* handed out and keep clear of each other: that freed ranges do is what   *)
(* makes their reuse safe.                                                 *)
(***************************************************************************)
Lies(r, start) == 1 <= r.start /\ r.start <= r.end /\ r.end < start

Clear(r, s) == r.end + 1 <= s.start - 1 \/ s.end + 1 <= r.start - 1

FreeRange == [start : Nat, end : Nat, user_pages : Nat]

IInv ==
    /\ range_start \in 0 .. RangeEnd + 1
    /\ free_ranges \in Seq(FreeRange)
    /\ stacks \subseteq [start : Nat, end : Nat]
    /\ \A s \in stacks : Lies(s, range_start)
    /\ \A i \in 1 .. Len(free_ranges) : Lies(free_ranges[i], range_start)
    /\ \A s, t \in stacks : s # t => Clear(s, t)
    /\ \A s \in stacks, i \in 1 .. Len(free_ranges) : Clear(s, free_ranges[i])
    /\ \A i, j \in 1 .. Len(free_ranges) :
          i # j => Clear(free_ranges[i], free_ranges[j])

LEMMA InitIInv ==
    ASSUME StacksAssumption, Init
    PROVE  IInv
  BY DEF StacksAssumption, Init, IInv

\* The freed ranges are numbers, and so are the stacks.
LEMMA Numbers ==
    ASSUME StacksAssumption, IInv
    PROVE  /\ Len(free_ranges) \in Nat /\ range_start \in Nat /\ RangeEnd \in Nat
           /\ DOMAIN free_ranges = 1 .. Len(free_ranges)
           /\ \A i \in 1 .. Len(free_ranges) :
                 /\ free_ranges[i].start \in Nat /\ free_ranges[i].end \in Nat
                 /\ free_ranges[i] \in FreeRange
           /\ \A s \in stacks : s.start \in Nat /\ s.end \in Nat
  <1>1. /\ Len(free_ranges) \in Nat /\ DOMAIN free_ranges = 1 .. Len(free_ranges)
        /\ \A i \in 1 .. Len(free_ranges) : free_ranges[i] \in FreeRange
    BY ElementOfSeq, LenProperties DEF IInv
  <1>2. QED
    BY <1>1 DEF IInv, FreeRange, StacksAssumption

(***************************************************************************)
(* Handing out a range that keeps clear of the other stacks and the ranges *)
(* still free keeps the invariant, whether its pages could be mapped or    *)
(* the machine panicked.                                                   *)
(***************************************************************************)
LEMMA HandOutKeeps ==
    ASSUME StacksAssumption, IInv,
           NEW start \in Nat, NEW end \in Nat,
           HandOut(start, end),
           1 <= start, start <= end, end < range_start',
           range_start' \in 0 .. RangeEnd + 1, range_start <= range_start',
           free_ranges' \in Seq(FreeRange),
           \A i \in 1 .. Len(free_ranges') : Lies(free_ranges'[i], range_start'),
           \A i, j \in 1 .. Len(free_ranges') :
              i # j => Clear(free_ranges'[i], free_ranges'[j]),
           \A s \in stacks, i \in 1 .. Len(free_ranges') : Clear(s, free_ranges'[i]),
           \A i \in 1 .. Len(free_ranges') :
              Clear([start |-> start, end |-> end], free_ranges'[i]),
           \A s \in stacks : Clear([start |-> start, end |-> end], s)
    PROVE  IInv'
  <1> DEFINE new == [start |-> start, end |-> end]
  <1>0. new.start = start /\ new.end = end /\ new \in [start : Nat, end : Nat]
    OBVIOUS
  <1>1. stacks' = stacks \/ stacks' = stacks \union {new}
    BY DEF HandOut
  <1>a. \A s \in stacks : Clear(new, s)
    OBVIOUS
  <1>b. \A i \in 1 .. Len(free_ranges') : Clear(new, free_ranges'[i])
    OBVIOUS
  <1> HIDE DEF new
  <1>2. Lies(new, range_start')
    BY <1>0 DEF Lies
  <1>3. \A s \in stacks : Lies(s, range_start')
    BY Numbers DEF IInv, Lies
  <1>4. \A s \in stacks' : Lies(s, range_start')
    BY <1>1, <1>2, <1>3
  <1>5. stacks' \subseteq [start : Nat, end : Nat]
    BY <1>0, <1>1 DEF IInv
  <1>6. \A s, t \in stacks' : s # t => Clear(s, t)
    <2>1. \A s \in stacks : Clear(s, new)
      BY <1>a DEF Clear
    <2>2. \A s, t \in stacks : s # t => Clear(s, t)
      BY DEF IInv
    <2>3. QED
      BY ONLY <1>1, <1>a, <2>1, <2>2, SMTT(30)
  <1>7. \A s \in stacks', i \in 1 .. Len(free_ranges') : Clear(s, free_ranges'[i])
    BY <1>1, <1>b
  <1>8. QED
    BY <1>4, <1>5, <1>6, <1>7, Zenon DEF IInv

LEMMA ReuseKeeps ==
    ASSUME StacksAssumption, IInv, NEW pages \in StackSizes, Reuse(pages)
    PROVE  /\ IInv'
           /\ \E i \in 1 .. Len(free_ranges) :
                 HandOut(free_ranges[i].start, free_ranges[i].end)
  <1>0. /\ Len(free_ranges) \in Nat /\ range_start \in Nat
        /\ DOMAIN free_ranges = 1 .. Len(free_ranges)
        /\ free_ranges \in Seq(FreeRange)
    BY Numbers DEF IInv
  <1>1. PICK i \in 1 .. Len(free_ranges) :
           /\ free_ranges' = RemoveAt(free_ranges, i)
           /\ HandOut(free_ranges[i].start, free_ranges[i].end)
           /\ UNCHANGED range_start
    BY <1>0 DEF Reuse, Fits
  <1> DEFINE start == free_ranges[i].start
             end == free_ranges[i].end
             new == [start |-> start, end |-> end]
  <1>2. start \in Nat /\ end \in Nat
    BY Numbers
  <1>3. 1 <= start /\ start <= end /\ end < range_start
    BY DEF IInv, Lies
  <1>4. IsRemoved(FreeRange, free_ranges, i, free_ranges')
    <2>1. free_ranges' = SubSeq(free_ranges, 1, i - 1)
                           \o SubSeq(free_ranges, i + 1, Len(free_ranges))
      BY <1>1, Zenon DEF RemoveAt
    <2>2. QED
      BY ONLY <1>0, <2>1, RemoveFacts, Zenon
  <1>5. /\ free_ranges' \in Seq(FreeRange)
        /\ Len(free_ranges') = Len(free_ranges) - 1
        /\ \A j \in 1 .. Len(free_ranges') :
              free_ranges'[j] = IF j < i THEN free_ranges[j] ELSE free_ranges[j + 1]
    BY ONLY <1>4 DEF IsRemoved
  <1> DEFINE Was(j) == IF j < i THEN j ELSE j + 1
  <1>6. \A j \in 1 .. Len(free_ranges') :
           /\ Was(j) \in 1 .. Len(free_ranges) /\ Was(j) # i
           /\ free_ranges'[j] = free_ranges[Was(j)]
    BY ONLY <1>0, <1>5
  <1>7. \A j, k \in 1 .. Len(free_ranges') : j # k => Was(j) # Was(k)
    BY ONLY <1>0, <1>5
  <1> HIDE DEF Was
  <1>8. \A j \in 1 .. Len(free_ranges') : Lies(free_ranges'[j], range_start)
    BY <1>6 DEF IInv
  <1>9. \A j, k \in 1 .. Len(free_ranges') :
           j # k => Clear(free_ranges'[j], free_ranges'[k])
    <2>1. \A j, k \in 1 .. Len(free_ranges) :
             j # k => Clear(free_ranges[j], free_ranges[k])
      BY DEF IInv
    <2>2. QED
      BY ONLY <1>6, <1>7, <2>1
  <1>10. \A s \in stacks, j \in 1 .. Len(free_ranges') : Clear(s, free_ranges'[j])
    <2>1. \A s \in stacks, j \in 1 .. Len(free_ranges) : Clear(s, free_ranges[j])
      BY DEF IInv
    <2>2. QED
      BY ONLY <1>6, <2>1
  <1>a. new.start = free_ranges[i].start /\ new.end = free_ranges[i].end
    OBVIOUS
  <1> HIDE DEF new
  <1>11. \A j \in 1 .. Len(free_ranges') : Clear(new, free_ranges'[j])
    <2>1. \A j \in 1 .. Len(free_ranges) : j # i => Clear(free_ranges[i], free_ranges[j])
      BY DEF IInv
    <2>2. \A j \in 1 .. Len(free_ranges) : j # i => Clear(new, free_ranges[j])
      BY ONLY <2>1, <1>a DEF Clear
    <2>3. QED
      BY ONLY <1>6, <2>2
  <1>12. \A s \in stacks : Clear(new, s)
    <2>1. \A s \in stacks : Clear(s, free_ranges[i])
      BY DEF IInv
    <2>2. QED
      BY ONLY <2>1, <1>a DEF Clear
  <1>13. range_start' = range_start /\ range_start \in 0 .. RangeEnd + 1
    BY <1>1 DEF IInv
  <1>14. HandOut(start, end)
    BY <1>1
  <1> HIDE DEF start, end
  <1>15. IInv'
    BY <1>0, <1>2, <1>3, <1>5, <1>8, <1>9, <1>10, <1>11, <1>12, <1>13, <1>14,
       HandOutKeeps, SMTT(30) DEF new
  <1>16. QED
    BY <1>1, <1>15

LEMMA CarveKeeps ==
    ASSUME StacksAssumption, IInv, NEW pages \in StackSizes, Carve(pages)
    PROVE  IInv'
  <1> DEFINE start == range_start + 1
             end == start + pages - 1
             new == [start |-> start, end |-> end]
  <1>0. range_start \in Nat /\ RangeEnd \in Nat /\ pages \in Nat \ {0}
    BY Numbers DEF StacksAssumption
  <1>1. /\ end <= RangeEnd /\ range_start' = end + 1
        /\ HandOut(start, end) /\ free_ranges' = free_ranges
    BY DEF Carve
  <1>2. /\ start \in Nat /\ end \in Nat /\ 1 <= start /\ start <= end
        /\ end < range_start' /\ range_start' \in 0 .. RangeEnd + 1
        /\ range_start <= range_start' /\ start = range_start + 1
    BY <1>0, <1>1
  <1> HIDE DEF start, end
  <1>3. new.start = start /\ new.end = end
    OBVIOUS
  <1> HIDE DEF new
  <1>4. ASSUME NEW r, r.start \in Nat, r.end \in Nat, Lies(r, range_start)
        PROVE  Lies(r, range_start') /\ Clear(new, r)
    <2>1. r.end + 1 <= new.start - 1
      BY ONLY <1>0, <1>2, <1>3, <1>4, SMTT(30) DEF Lies
    <2>2. QED
      BY ONLY <1>0, <1>2, <1>4, <2>1 DEF Lies, Clear
  <1>5. \A i \in 1 .. Len(free_ranges') :
           Lies(free_ranges'[i], range_start') /\ Clear(new, free_ranges'[i])
    BY <1>1, <1>4, Numbers DEF IInv
  <1>6. \A s \in stacks : Clear(new, s)
    BY <1>4, Numbers DEF IInv
  <1>7. /\ free_ranges' \in Seq(FreeRange)
        /\ \A s \in stacks, i \in 1 .. Len(free_ranges') : Clear(s, free_ranges'[i])
        /\ \A i, j \in 1 .. Len(free_ranges') :
              i # j => Clear(free_ranges'[i], free_ranges'[j])
    BY <1>1 DEF IInv
  <1>8. QED
    BY <1>1, <1>2, <1>5, <1>6, <1>7, HandOutKeeps, SMTT(30) DEF new

LEMMA FreeStackKeeps ==
    ASSUME StacksAssumption, IInv, NEW gone \in stacks, FreeStack(gone)
    PROVE  IInv'
  <1> DEFINE freed == [start |-> gone.start, end |-> gone.end,
                       user_pages |-> gone.end - gone.start + 1]
             n == Len(free_ranges)
  <1>0. /\ free_ranges \in Seq(FreeRange) /\ n \in Nat
        /\ gone.start \in Nat /\ gone.end \in Nat /\ gone.start <= gone.end
        /\ 1 <= gone.start /\ gone.end < range_start
    BY Numbers DEF IInv, Lies
  <1>1. /\ free_ranges' = Append(free_ranges, freed)
        /\ stacks' = stacks \ {gone} /\ range_start' = range_start
    BY DEF FreeStack
  <1>2. freed \in FreeRange /\ freed.start = gone.start /\ freed.end = gone.end
    <2>1. gone.end - gone.start + 1 \in Nat
      BY ONLY <1>0
    <2>2. QED
      BY ONLY <2>1, <1>0 DEF FreeRange
  <1> HIDE DEF freed
  <1>3. /\ free_ranges' \in Seq(FreeRange) /\ Len(free_ranges') = n + 1
        /\ \A i \in 1 .. n : free_ranges'[i] = free_ranges[i]
        /\ free_ranges'[n + 1] = freed
    BY ONLY <1>0, <1>1, <1>2, AppendProperties
  <1> HIDE DEF n
  <1>4. \A i \in 1 .. Len(free_ranges') : i \in 1 .. n \/ i = n + 1
    BY ONLY <1>0, <1>3
  <1>5. Lies(freed, range_start)
    BY ONLY <1>0, <1>2 DEF Lies
  <1>6. \A i \in 1 .. Len(free_ranges') : Lies(free_ranges'[i], range_start')
    BY <1>1, <1>3, <1>4, <1>5, SMTT(30) DEF IInv, n
  <1>7. \A i \in 1 .. n : Clear(freed, free_ranges[i]) /\ Clear(free_ranges[i], freed)
    <2>1. \A i \in 1 .. n : Clear(gone, free_ranges[i])
      BY DEF IInv, n
    <2>2. QED
      BY ONLY <2>1, <1>2 DEF Clear
  <1>8. \A i, j \in 1 .. Len(free_ranges') :
           i # j => Clear(free_ranges'[i], free_ranges'[j])
    <2>1. \A i, j \in 1 .. n : i # j => Clear(free_ranges[i], free_ranges[j])
      BY DEF IInv, n
    <2>2. QED
      BY ONLY <1>3, <1>4, <1>7, <2>1, SMTT(30)
  <1>9. \A s \in stacks' : Clear(s, freed)
    <2>1. \A s \in stacks : s # gone => Clear(s, gone)
      BY DEF IInv
    <2>2. QED
      BY ONLY <1>1, <1>2, <2>1 DEF Clear
  <1>10. \A s \in stacks', i \in 1 .. Len(free_ranges') : Clear(s, free_ranges'[i])
    <2>1. \A s \in stacks, i \in 1 .. n : Clear(s, free_ranges[i])
      BY DEF IInv, n
    <2>2. QED
      BY ONLY <1>1, <1>3, <1>4, <1>9, <2>1, SMTT(30)
  <1>11. QED
    BY <1>1, <1>3, <1>6, <1>8, <1>10, SMTT(30) DEF IInv

LEMMA NextIInv ==
    ASSUME StacksAssumption, IInv, [Next]_vars
    PROVE  IInv'
  <1>1. ASSUME UNCHANGED <<range_start, free_ranges, stacks>> PROVE IInv'
    BY <1>1 DEF IInv
  <1>2. ASSUME NEW pages \in StackSizes, AllocStack(pages) PROVE IInv'
    BY <1>2, ReuseKeeps, CarveKeeps DEF AllocStack
  <1>3. ASSUME NEW s \in stacks, FreeStack(s) PROVE IInv'
    BY <1>3, FreeStackKeeps
  <1>4. QED
    BY <1>1, <1>2, <1>3 DEF Next, vars, MapImage, UnmapImage, Halted

LEMMA Invariant == ASSUME StacksAssumption PROVE Spec => []IInv
  <1>1. Init => IInv
    BY InitIInv
  <1>2. IInv /\ [Next]_vars => IInv'
    BY NextIInv
  <1>3. QED
    BY <1>1, <1>2, PTL DEF Spec

----------------------------------------------------------------------------
(* The stack allocator as an allocator of ranges.                          *)

\* Handing out a range that keeps clear of the stacks in use.
LEMMA HandOutIsAbstract ==
    ASSUME StacksAssumption, IInv, NEW start \in Nat, NEW end \in Nat,
           HandOut(start, end), 1 <= start, start <= end, end <= RangeEnd,
           \A s \in stacks : Clear([start |-> start, end |-> end], s)
    PROVE  Abstract!HandOut \/ UNCHANGED Held
  <1> DEFINE new == [start |-> start, end |-> end]
             RangeOf(s) == [lo |-> s.start - 1, hi |-> s.end + 1]
             r == RangeOf(new)
  <1>1. stacks' = stacks \/ stacks' = stacks \union {new}
    BY DEF HandOut
  <1>2. CASE stacks' = stacks
    BY <1>2 DEF Held
  <1>3. CASE stacks' = stacks \union {new}
    <2>0. r.lo = start - 1 /\ r.hi = end + 1 /\ new.start = start /\ new.end = end
      OBVIOUS
    <2>a. \A s \in stacks : Clear(new, s)
      OBVIOUS
    <2>1. Held' = Held \union {r}
      <3>1. r = RangeOf(new)
        OBVIOUS
      <3> HIDE DEF new, r
      <3>2. QED
        BY <1>3, <3>1 DEF Held
    <2> HIDE DEF new, r
    <2>2. RangeEnd \in Nat
      BY DEF StacksAssumption
    <2>3. 0 <= r.lo /\ r.lo < r.hi /\ r.hi <= RangeEnd + 1
      BY <2>0, <2>2
    <2>4. ASSUME NEW h \in Held PROVE r.hi <= h.lo \/ h.hi <= r.lo
      <3>1. PICK s \in stacks : h = RangeOf(s)
        BY DEF Held
      <3>2. h.lo = s.start - 1 /\ h.hi = s.end + 1
        BY <3>1
      <3>3. Clear(new, s)
        BY <2>a
      <3>4. QED
        BY ONLY <3>2, <3>3, <2>0, SMTT(30) DEF Clear
    <2>5. r \notin Held
      <3>1. ASSUME r \in Held PROVE FALSE
        <4>1. r.hi <= r.lo
          BY <2>4, <3>1, Zenon
        <4>2. QED
          BY <4>1, <2>0
      <3>2. QED
        BY <3>1
    <2>6. QED
      BY <2>1, <2>3, <2>4, <2>5, SMTT(30) DEF Abstract!HandOut, Abstract!IsRange, Abstract!Apart
  <1>4. QED
    BY <1>1, <1>2, <1>3, SMTT(30)

LEMMA StepKeepsPromise ==
    ASSUME StacksAssumption, IInv, [Next]_vars
    PROVE  [Abstract!HandOut \/ Abstract!GiveBack]_Held
  <1>1. ASSUME UNCHANGED stacks PROVE UNCHANGED Held
    BY <1>1 DEF Held
  <1>2. ASSUME NEW pages \in StackSizes, Reuse(pages)
        PROVE  Abstract!HandOut \/ UNCHANGED Held
    <2>1. PICK i \in 1 .. Len(free_ranges) :
             HandOut(free_ranges[i].start, free_ranges[i].end)
      BY <1>2, ReuseKeeps, SMTT(30)
    <2> DEFINE start == free_ranges[i].start
               end == free_ranges[i].end
               new == [start |-> start, end |-> end]
    <2>2. start \in Nat /\ end \in Nat /\ 1 <= start /\ start <= end /\ end <= RangeEnd
      BY Numbers DEF IInv, Lies
    <2>3. \A s \in stacks : Clear(new, s)
      <3>1. \A s \in stacks : Clear(s, free_ranges[i])
        BY DEF IInv
      <3>2. new.start = free_ranges[i].start /\ new.end = free_ranges[i].end
        OBVIOUS
      <3> HIDE DEF new
      <3>3. QED
        BY ONLY <3>1, <3>2 DEF Clear
    <2>4. HandOut(start, end)
      BY <2>1
    <2> HIDE DEF start, end
    <2>5. QED
      BY <2>2, <2>3, <2>4, HandOutIsAbstract, SMTT(30)
  <1>3. ASSUME NEW pages \in StackSizes, Carve(pages)
        PROVE  Abstract!HandOut \/ UNCHANGED Held
    <2> DEFINE start == range_start + 1
               end == start + pages - 1
               new == [start |-> start, end |-> end]
    <2>0. range_start \in Nat /\ pages \in Nat \ {0}
      BY Numbers DEF StacksAssumption
    <2>1. end <= RangeEnd /\ HandOut(start, end)
      BY <1>3 DEF Carve
    <2>2. start \in Nat /\ end \in Nat /\ 1 <= start /\ start <= end
      BY <2>0
    <2>3. ASSUME NEW s \in stacks PROVE Clear(new, s)
      <3>1. s.end \in Nat /\ s.end < range_start
        BY Numbers DEF IInv, Lies
      <3>2. new.start = range_start + 1
        OBVIOUS
      <3>3. s.end + 1 <= new.start - 1
        BY ONLY <3>1, <3>2, <2>0, SMTT(30)
      <3>4. QED
        BY ONLY <3>3 DEF Clear
    <2> HIDE DEF start, end
    <2>4. QED
      BY <2>1, <2>2, <2>3, HandOutIsAbstract, SMTT(30)
  <1>4. ASSUME NEW gone \in stacks, FreeStack(gone) PROVE Abstract!GiveBack
    <2> DEFINE RangeOf(s) == [lo |-> s.start - 1, hi |-> s.end + 1]
    <2>1. stacks' = stacks \ {gone}
      BY <1>4 DEF FreeStack
    <2>2. ASSUME NEW s \in stacks, RangeOf(s) = RangeOf(gone) PROVE s = gone
      <3>1. s.start - 1 = gone.start - 1
        BY <2>2
      <3>2. /\ s.start \in Nat /\ gone.start \in Nat /\ s.end \in Nat /\ gone.end \in Nat
            /\ s.start <= s.end /\ gone.start <= gone.end
        BY Numbers DEF IInv, Lies
      <3>3. ~Clear(s, gone)
        BY ONLY <3>1, <3>2 DEF Clear
      <3>4. QED
        BY <3>3 DEF IInv
    <2>3. Held' = Held \ {RangeOf(gone)}
      BY <2>1, <2>2 DEF Held
    <2>4. RangeOf(gone) \in Held
      BY DEF Held
    <2>5. QED
      BY <2>3, <2>4 DEF Abstract!GiveBack
  <1>5. QED
    BY <1>1, <1>2, <1>3, <1>4, SMTT(30)
       DEF Next, vars, AllocStack, MapImage, UnmapImage, Halted

(***************************************************************************)
(* alloc_stack and free_stack implement an allocator of ranges: a stack    *)
(* and the guard page below it never overlap those of another stack in     *)
(* use, however stacks of different sizes are freed and reused.            *)
(***************************************************************************)
THEOREM StacksStayApart == ASSUME StacksAssumption PROVE Spec => StacksKeepApart
  <1>1. Init => Abstract!Start
    BY DEF Init, Abstract!Start, Held
  <1>2. IInv /\ [Next]_vars => [Abstract!HandOut \/ Abstract!GiveBack]_Held
    BY StepKeepsPromise
  <1>3. QED
    BY <1>1, <1>2, Invariant, PTL DEF Spec, StacksKeepApart, Abstract!Promise
=============================================================================
