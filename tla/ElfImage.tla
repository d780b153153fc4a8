------------------------------ MODULE ElfImage -----------------------------
(***************************************************************************)
(* Loading a program and taking it down again (src/elf/loader.rs and       *)
(* src/elf/mod.rs): the program headers become a linked list of regions,   *)
(* every region is mapped page by page to new frames, filled from the file *)
(* and with zeros, the arguments are put on top of the stack, and at exit  *)
(* every region is zeroed and unmapped.                                    *)
(*                                                                         *)
(* Addresses are cells, PageSize of them in a page.  A cell of a frame     *)
(* holds what was last put there: Old before anything is, <<h, n>> for     *)
(* cell n of header h's part of the file, or Zero.                         *)
(***************************************************************************)
EXTENDS Integers, Sequences, FiniteSets, FiniteSetsExt, SequencesExt

CONSTANTS PageSize, Pages,      \* pages 0 .. Pages - 1 of the program
          MaxHeaders,           \* bound: program headers in a file
          MaxLoads,             \* bound: LOAD headers among them
          MemorySizes,          \* memory sizes of segments
          StackSize,            \* bytes of stack for the arguments
          ArgLengths            \* bound: lengths of arguments, one or two of them

ElfImageAssumption ==
    /\ PageSize \in Nat \ {0} /\ Pages \in Nat /\ StackSize \in Nat
    /\ StackSize % 16 = 0

VARIABLES headers,              \* the file's program headers
          stage,
          step,                 \* how far the loop of the stage is
          next_region,          \* region -> next of the list, 0 at its end
          start_region, last_region,
          mapping,              \* page -> frame, 0 if there is none
          free_frames,
          memory,               \* frame -> cells
          argv, rsp             \* argument lengths; the stack pointer, or -1

vars == <<headers, stage, step, next_region, start_region, last_region,
          mapping, free_frames, memory, argv, rsp>>

Cells == 0 .. PageSize * Pages - 1
Frames == 1 .. 2 * Pages + 1
Old == <<0, -1>>
Zero == <<0, 0>>
PageOf(addr) == addr \div PageSize

(* A header: LOAD or not, sizes that make sense or not, and its segment *)
Segments == {[load |-> TRUE, ok |-> TRUE, addr |-> a, size |-> n, file |-> f] :
               a \in Cells, n \in MemorySizes, f \in 0 .. Max(MemorySizes)}
Fits(h) == h.addr + h.size <= PageSize * Pages /\ h.file <= h.size
NotLoad == [load |-> FALSE, ok |-> TRUE, addr |-> 0, size |-> 1, file |-> 0]
Invalid == [load |-> TRUE, ok |-> FALSE, addr |-> 0, size |-> 1, file |-> 0]

Loads(hs) == {i \in DOMAIN hs : hs[i].load}
RegionPages(h) == PageOf(h.addr) .. PageOf(h.addr + h.size - 1)

(* In a file that a linker makes, the segments do not overlap. *)
ElfFiles ==
    {hs \in UNION {[1 .. n -> {h \in Segments : Fits(h)} \union {NotLoad, Invalid}]
                     : n \in 1 .. MaxHeaders} :
       /\ Cardinality(Loads(hs)) <= MaxLoads
       /\ \A i, j \in Loads(hs) : i < j /\ hs[i].ok /\ hs[j].ok =>
            hs[i].addr + hs[i].size <= hs[j].addr}

Init ==
    /\ headers \in ElfFiles
    /\ argv \in UNION {[1 .. argc -> ArgLengths] : argc \in {1, 2}}
    /\ stage = "headers"
    /\ step = 1
    /\ next_region = [i \in 1 .. MaxHeaders |-> 0]
    /\ start_region = 0
    /\ last_region = 0
    /\ mapping = [p \in 0 .. Pages - 1 |-> 0]
    /\ free_frames = Frames
    /\ memory = [f \in Frames |-> [c \in 0 .. PageSize - 1 |-> Old]]
    /\ rsp = -1
----------------------------------------------------------------------------
(* The regions that ElfRegionIterator visits, in order *)
Regions ==
    LET at[n \in 1 .. MaxHeaders] ==
          IF n = 1 THEN start_region
          ELSE IF at[n - 1] = 0 THEN 0 ELSE next_region[at[n - 1]]
    IN  SelectSeq([n \in 1 .. MaxHeaders |-> at[n]], LAMBDA r : r # 0)

(***************************************************************************)
(* load_ph_headers: the second region is hung behind the first, and so is  *)
(* every one after it: last_region stays where it is.                      *)
(***************************************************************************)
Linked(i) ==
    IF last_region = 0
      THEN /\ start_region' = i
           /\ last_region' = i
           /\ UNCHANGED next_region
      ELSE /\ next_region' = [next_region EXCEPT ![last_region] = i]
           /\ UNCHANGED <<start_region, last_region>>

ReadHeader ==
    /\ stage = "headers"
    /\ step <= Len(headers)
    /\ IF headers[step].load /\ headers[step].ok
         THEN Linked(step)
         ELSE UNCHANGED <<next_region, start_region, last_region>>
    /\ IF headers[step].load /\ ~ headers[step].ok
         THEN stage' = "refused" /\ UNCHANGED step
         ELSE step' = step + 1 /\ UNCHANGED stage
    /\ UNCHANGED <<headers, mapping, free_frames, memory, argv, rsp>>

HeadersRead ==
    /\ stage = "headers"
    /\ step > Len(headers)
    /\ stage' = IF start_region = 0 THEN "refused" ELSE "map"
    /\ step' = 1
    /\ UNCHANGED <<headers, next_region, start_region, last_region, mapping,
                   free_frames, memory, argv, rsp>>

NthFree(n) ==
    CHOOSE f \in free_frames : Cardinality({g \in free_frames : g < f}) = n

(* Slips below: one page mapped of a region, the BSS not cleared, the      *)
(* frame aligned upwards, one page unmapped.                               *)
MapFirstPage ==
    /\ stage = "map"
    /\ step <= Len(Regions)
    /\ LET page == Min(RegionPages(headers[Regions[step]]))
       IN  /\ mapping' = [mapping EXCEPT ![page] = NthFree(0)]
           /\ free_frames' = free_frames \ {NthFree(0)}
    /\ step' = step + 1
    /\ UNCHANGED <<headers, stage, next_region, start_region, last_region,
                   memory, argv, rsp>>

(* map_range: a page that has a frame already gets another. *)
MapRegion ==
    /\ stage = "map"
    /\ step <= Len(Regions)
    /\ LET pages == RegionPages(headers[Regions[step]])
           taken == [p \in pages |-> NthFree(p - Min(pages))]
       IN  /\ mapping' = [p \in DOMAIN mapping |->
                            IF p \in pages THEN taken[p] ELSE mapping[p]]
           /\ free_frames' = free_frames \ Range(taken)
    /\ step' = step + 1
    /\ UNCHANGED <<headers, stage, next_region, start_region, last_region,
                   memory, argv, rsp>>

Mapped ==
    /\ stage = "map"
    /\ step > Len(Regions)
    /\ stage' = "copy"
    /\ step' = 1
    /\ UNCHANGED <<headers, next_region, start_region, last_region, mapping,
                   free_frames, memory, argv, rsp>>

(* Memory with the cells of a region set through the page table *)
Stored(r, values) ==
    LET h == headers[r]
        At(f, c) == {n \in 0 .. h.size - 1 :
                       /\ mapping[PageOf(h.addr + n)] = f
                       /\ (h.addr + n) % PageSize = c}
    IN  [f \in Frames |-> [c \in 0 .. PageSize - 1 |->
           IF At(f, c) = {} THEN memory[f][c]
           ELSE values[CHOOSE n \in At(f, c) : TRUE]]]

Faults(r) == \E p \in RegionPages(headers[r]) : mapping[p] = 0

NoBss(r) ==
    [n \in 0 .. headers[r].size - 1 |->
        IF n < headers[r].file THEN <<r, n>> ELSE Old]

(* The bytes of the file, then the BSS *)
Contents(r) ==
    [n \in 0 .. headers[r].size - 1 |->
        IF n < headers[r].file THEN <<r, n>> ELSE Zero]

Zeros(r) == [n \in 0 .. headers[r].size - 1 |-> Zero]

CopyRegion ==
    /\ stage = "copy"
    /\ step <= Len(Regions)
    /\ LET r == Regions[step]
       IN  IF Faults(r)
             THEN stage' = "fault" /\ UNCHANGED <<memory, step>>
             ELSE /\ memory' = Stored(r, Contents(r))
                  /\ step' = step + 1
                  /\ UNCHANGED stage
    /\ UNCHANGED <<headers, next_region, start_region, last_region, mapping,
                   free_frames, argv, rsp>>

(***************************************************************************)
(* write_args_frame: the strings at the top, then the words, aligned down. *)
(* If they do not fit, the regions are unmapped again.                     *)
(***************************************************************************)
StringBytes(lengths) == FoldLeft(LAMBDA sum, n : sum + n + 1, 0, lengths)
FrameBaseUp(lengths) ==
    LET below == StackSize - StringBytes(lengths) - 8 * (Len(lengths) + 3) + 15
    IN  below - (below % 16)

FrameBase(lengths) ==
    LET below == StackSize - StringBytes(lengths) - 8 * (Len(lengths) + 3)
    IN  below - (below % 16)

WriteArgsFrame ==
    /\ stage = "copy"
    /\ step > Len(Regions)
    /\ IF StringBytes(argv) + 8 * (Len(argv) + 3) > StackSize
         THEN stage' = "unmap" /\ UNCHANGED rsp
         ELSE stage' = "running" /\ rsp' = FrameBase(argv)
    /\ step' = 1
    /\ UNCHANGED <<headers, next_region, start_region, last_region, mapping,
                   free_frames, memory, argv>>

(* exit_current calls elf::unmap. *)
Exit ==
    /\ stage = "running"
    /\ stage' = "unmap"
    /\ step' = 1
    /\ UNCHANGED <<headers, next_region, start_region, last_region, mapping,
                   free_frames, memory, argv, rsp>>

UnmapFirstPage ==
    /\ stage = "unmap"
    /\ step <= Len(Regions)
    /\ LET page == Min(RegionPages(headers[Regions[step]]))
       IN  /\ mapping' = [mapping EXCEPT ![page] = 0]
           /\ free_frames' = free_frames \union {mapping[page]}
    /\ memory' = Stored(Regions[step], Zeros(Regions[step]))
    /\ step' = step + 1
    /\ UNCHANGED <<headers, stage, next_region, start_region, last_region,
                   argv, rsp>>

(* unmap_regions_from_active_table: a region is zeroed, then unmapped. *)
UnmapRegion ==
    /\ stage = "unmap"
    /\ step <= Len(Regions)
    /\ LET r == Regions[step]
           pages == RegionPages(headers[r])
       IN  IF Faults(r)
             THEN /\ stage' = "fault"
                  /\ UNCHANGED <<memory, mapping, free_frames, step>>
             ELSE /\ memory' = Stored(r, Zeros(r))
                  /\ mapping' = [p \in DOMAIN mapping |->
                                   IF p \in pages THEN 0 ELSE mapping[p]]
                  /\ free_frames' = free_frames
                                      \union {mapping[p] : p \in pages}
                  /\ step' = step + 1
                  /\ UNCHANGED stage
    /\ UNCHANGED <<headers, next_region, start_region, last_region, argv, rsp>>

Unmapped ==
    /\ stage = "unmap"
    /\ step > Len(Regions)
    /\ stage' = "gone"
    /\ UNCHANGED <<headers, step, next_region, start_region, last_region,
                   mapping, free_frames, memory, argv, rsp>>

Next ==
    \/ ReadHeader \/ HeadersRead
    \/ MapRegion \/ Mapped
    \/ CopyRegion \/ WriteArgsFrame
    \/ Exit
    \/ UnmapRegion \/ Unmapped

Spec == Init /\ [][Next]_vars
----------------------------------------------------------------------------
(* The list, the page table and the frames. *)
TypeOK ==
    /\ stage \in {"headers", "refused", "map", "copy", "running", "unmap",
                  "gone", "fault"}
    /\ step \in 1 .. MaxHeaders + 1
    /\ next_region \in [1 .. MaxHeaders -> 0 .. MaxHeaders]
    /\ {start_region, last_region} \subseteq 0 .. MaxHeaders
    /\ mapping \in [0 .. Pages - 1 -> {0} \union Frames]
    /\ free_frames \subseteq Frames
    /\ rsp \in -1 .. StackSize

SharesPage ==
    \E i, j \in Loads(headers) :
        i # j /\ RegionPages(headers[i]) \intersect RegionPages(headers[j]) # {}

CellAt(addr) == memory[mapping[PageOf(addr)]][addr % PageSize]

(* A program starts with its segments in memory: the bytes of the file and *)
(* zeros behind them, also where two segments lie in one page (elf::load   *)
(* maps every region before it copies any).                                *)
ImageComplete ==
    stage = "running" => \A i \in Loads(headers) :
        LET h == headers[i]
        IN  \A n \in 0 .. h.size - 1 :
              /\ mapping[PageOf(h.addr + n)] # 0
              /\ CellAt(h.addr + n) = IF n < h.file THEN <<i, n>> ELSE Zero

(* Every LOAD header is a region of the list.                              *)
EveryLoadListed ==
    stage \in {"map", "copy", "running"} => Loads(headers) = Range(Regions)

(* The kernel touches only pages it has mapped, while it loads a program   *)
(* and while it takes it down, when no two segments share a page.          *)
NoFault == stage = "fault" => SharesPage

(* Taking a program down gives back every frame it had, with nothing of    *)
(* the program left in them (elf::unmap), when no segments share a page.   *)
FramesReturned ==
    stage = "gone" /\ ~ SharesPage =>
        /\ free_frames = Frames
        /\ \A f \in Frames, c \in 0 .. PageSize - 1 : memory[f][c] \in {Old, Zero}

(* The argument frame is aligned, holds argc, the pointers and the two     *)
(* NULLs without reaching the strings, and lies in the stack.              *)
ArgsFrameSound ==
    rsp # -1 =>
        /\ rsp % 16 = 0
        /\ rsp >= 0
        /\ rsp + 8 * (Len(argv) + 3) <= StackSize - StringBytes(argv)
=============================================================================
