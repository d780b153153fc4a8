------------------------------ MODULE Stacks -------------------------------
(***************************************************************************)
(* The stack allocator, the frames behind its pages and the leaf mappings  *)
(* that tie them together (src/mem/stack_allocator.rs,                     *)
(* src/mem/simple_page_frame_allocator.rs, alloc_stack, free_stack, map    *)
(* and unmap of src/mem/mod.rs).                                           *)
(*                                                                         *)
(* Pages and frames are numbered.  A stack takes its pages from the        *)
(* allocator's page range, one guard page below each, or reuses a freed    *)
(* range of exactly its size; each page is mapped to a frame of its own.   *)
(* Program images and page tables take frames from the same allocator;     *)
(* they appear as a holder of frames (image).                              *)
(***************************************************************************)
EXTENDS Integers, Sequences, FiniteSets, SequencesExt

CONSTANTS RangeEnd,             \* pages 0 .. RangeEnd: the stack range
          MemEnd,               \* mem_end, as a frame number
          StackSizes,           \* pages_to_alloc of the callers
          MaxStacks             \* bound: stacks live at a time

StacksAssumption ==
    /\ RangeEnd \in Nat
    /\ MemEnd \in Nat \ {0}
    /\ StackSizes \subseteq Nat \ {0}
    /\ MaxStacks \in Nat

VARIABLES range_start,          \* the page iterator's next page
          free_ranges,
          stacks,               \* stacks handed out: [start, end]
          mapping,              \* page -> frame
          frame_head, free_frames,
          image,                \* frames the other callers hold
          panicked              \* falloc().expect("Out of memory")

frame_vars == <<frame_head, free_frames>>
vars == <<range_start, free_ranges, stacks, mapping, frame_head, free_frames,
          image, panicked>>

Pages == 0 .. RangeEnd
NoFrame == 0                    \* frame_head starts here: never handed out
PagesOf(s) == s.start .. s.end

Init ==
    /\ range_start = 0
    /\ free_ranges = <<>>
    /\ stacks = {}
    /\ mapping = [page \in Pages |-> NoFrame]
    /\ frame_head = NoFrame
    /\ free_frames = <<>>
    /\ image = {}
    /\ panicked = FALSE
----------------------------------------------------------------------------
(***************************************************************************)
(* Slips in the definitions below: the end frame handed out, an entry left *)
(* mapped, a range mapped without its last page, a stack without a guard   *)
(* page, a range taken without its last page.                              *)
(***************************************************************************)
NoneLeftTooLate(m) == m.free = <<>> /\ MemEnd - (m.head + 1) < 0

(***************************************************************************)
(* falloc, on m = [head, free]: a freed frame, the last one first, else    *)
(* the frame after the head unless it is the end frame.                    *)
(***************************************************************************)
NoneLeft(m) == m.free = <<>> /\ MemEnd - (m.head + 1) < 1
FrameOf(m) == IF m.free # <<>> THEN Last(m.free) ELSE m.head + 1
Falloc(m) == IF m.free # <<>> THEN [m EXCEPT !.free = Front(@)]
                              ELSE [m EXCEPT !.head = @ + 1]

Frames == [head |-> frame_head, free |-> free_frames, map |-> mapping,
           panicked |-> FALSE]

(* map: one frame for one page; no frame is left after a panic. *)
Map(m, page) ==
    CASE m.panicked  -> m
      [] NoneLeft(m) -> [m EXCEPT !.panicked = TRUE]
      [] OTHER       -> [Falloc(m) EXCEPT !.map[page] = FrameOf(m)]

MapRangeShort(m, start, end) ==
    FoldLeft(Map, m, [n \in 1 .. end - start |-> start + n - 1])

MapRange(m, start, end) ==
    FoldLeft(Map, m, [n \in 1 .. end - start + 1 |-> start + n - 1])

UnmapKeepsEntry(m, page) ==
    IF m.map[page] = NoFrame THEN m
    ELSE [m EXCEPT !.free = Append(@, m.map[page])]

(* unmap: the frame goes back to the allocator. *)
Unmap(m, page) ==
    IF m.map[page] = NoFrame
      THEN m
      ELSE [m EXCEPT !.free = Append(@, m.map[page]), !.map[page] = NoFrame]

UnmapRange(m, start, end) ==
    FoldLeft(Unmap, m, [n \in 1 .. end - start + 1 |-> start + n - 1])

SetFrames(m) ==
    /\ frame_head' = m.head
    /\ free_frames' = m.free
    /\ mapping' = m.map

(* The stack's pages are mapped; it is handed out unless that panicked. *)
HandOut(start, end) ==
    LET m == MapRange(Frames, start, end)
    IN  /\ SetFrames(m)
        /\ panicked' = m.panicked
        /\ stacks' = IF m.panicked THEN stacks
                     ELSE stacks \union {[start |-> start, end |-> end]}
        /\ UNCHANGED image

Fits(pages) == {i \in DOMAIN free_ranges : free_ranges[i].user_pages = pages}

(* alloc from the first freed range of this size *)
Reuse(pages) ==
    \E i \in Fits(pages) :
        /\ \A j \in Fits(pages) : i <= j
        /\ free_ranges' = RemoveAt(free_ranges, i)
        /\ HandOut(free_ranges[i].start, free_ranges[i].end)
        /\ UNCHANGED range_start

CarveWithoutGuard(pages) ==
    /\ Fits(pages) = {}
    /\ range_start + pages - 1 <= RangeEnd
    /\ range_start' = range_start + pages
    /\ HandOut(range_start, range_start + pages - 1)
    /\ UNCHANGED free_ranges

CarveOverLast(pages) ==
    /\ Fits(pages) = {}
    /\ range_start + pages <= RangeEnd
    /\ range_start' = range_start + pages
    /\ HandOut(range_start + 1, range_start + pages)
    /\ UNCHANGED free_ranges

(* alloc from the range: the guard page, then the stack's own. *)
Carve(pages) ==
    LET guard == range_start
        start == guard + 1
        end   == start + pages - 1
    IN  /\ Fits(pages) = {}
        /\ end <= RangeEnd
        /\ range_start' = end + 1
        /\ HandOut(start, end)
        /\ UNCHANGED free_ranges

AllocStack(pages) ==
    /\ ~panicked
    /\ Cardinality(stacks) < MaxStacks
    /\ Reuse(pages) \/ Carve(pages)

(* free_stack: unmap, then hand the range back. *)
FreeStack(s) ==
    /\ ~panicked
    /\ SetFrames(UnmapRange(Frames, s.start, s.end))
    /\ free_ranges' = Append(free_ranges,
                             [start |-> s.start, end |-> s.end,
                              user_pages |-> s.end - s.start + 1])
    /\ stacks' = stacks \ {s}
    /\ UNCHANGED <<range_start, image, panicked>>

(* A page of a program image is mapped, or unmapped again. *)
MapImage ==
    /\ ~panicked
    /\ IF NoneLeft(Frames)
         THEN panicked' = TRUE /\ UNCHANGED <<frame_vars, image>>
         ELSE /\ frame_head' = Falloc(Frames).head
              /\ free_frames' = Falloc(Frames).free
              /\ image' = image \union {FrameOf(Frames)}
              /\ UNCHANGED panicked
    /\ UNCHANGED <<range_start, free_ranges, stacks, mapping>>

UnmapImage(frame) ==
    /\ ~panicked
    /\ image' = image \ {frame}
    /\ free_frames' = Append(free_frames, frame)
    /\ UNCHANGED <<range_start, free_ranges, stacks, mapping, frame_head,
                   panicked>>

(* panic halts the machine *)
Halted == panicked /\ UNCHANGED vars

Next ==
    \/ \E pages \in StackSizes : AllocStack(pages)
    \/ \E s \in stacks : FreeStack(s)
    \/ MapImage
    \/ \E frame \in image : UnmapImage(frame)
    \/ Halted

Spec == Init /\ [][Next]_vars
----------------------------------------------------------------------------
Stack == [start : Pages, end : Pages]

(* Pages and frames are within their ranges. *)
TypeOK ==
    /\ range_start \in 0 .. RangeEnd + 1
    /\ free_ranges \in Seq([start : Pages, end : Pages, user_pages : Nat])
    /\ stacks \subseteq Stack
    /\ mapping \in [Pages -> 0 .. MemEnd - 1]
    /\ frame_head \in 0 .. MemEnd - 1
    /\ free_frames \in Seq(1 .. MemEnd - 1)
    /\ image \subseteq 1 .. MemEnd - 1
    /\ panicked \in BOOLEAN

MappedFrames == {mapping[page] : page \in Pages} \ {NoFrame}

(***************************************************************************)
(* A frame has one user: a stack page, an image or the free list.  Frames  *)
(* reused last in first out and frames taken from the head never meet, and *)
(* freeing a stack gives each of its frames back once.                     *)
(***************************************************************************)
FramesApart ==
    /\ \A p, q \in Pages :
          mapping[p] = mapping[q] => p = q \/ mapping[p] = NoFrame
    /\ MappedFrames \intersect image = {}
    /\ (MappedFrames \union image) \intersect Range(free_frames) = {}
    /\ IsInjective(free_frames)
    /\ Cardinality(MappedFrames \union image) + Len(free_frames) = frame_head

(***************************************************************************)
(* Below every stack lies a page mapped to nothing, so that running off a  *)
(* stack faults instead of reaching the stack below: reuse of exact sizes  *)
(* only keeps each range's guard page in place.                            *)
(***************************************************************************)
GuardBelow ==
    \A s \in stacks : s.start > 0 /\ mapping[s.start - 1] = NoFrame

(***************************************************************************)
(* As long as no allocation has run out of frames, exactly the pages of    *)
(* the stacks handed out are mapped.                                       *)
(***************************************************************************)
MappedExactlyStacks ==
    ~panicked =>
      {page \in Pages : mapping[page] # NoFrame}
        = UNION {PagesOf(s) : s \in stacks}
=============================================================================
