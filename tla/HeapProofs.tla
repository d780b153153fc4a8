----------------------------- MODULE HeapProofs ----------------------------
(***************************************************************************)
(* The kernel heap, for every heap size, header size, alignment and set of *)
(* layouts: the blocks tile the heap, callers hold used blocks, and the    *)
(* heap keeps the promise of an allocator of disjoint ranges.              *)
(***************************************************************************)
EXTENDS HeapRefinement, SequenceFacts, WellFoundedInduction, TLAPS

----------------------------------------------------------------------------
(* Lists of blocks.                                                        *)

(* Tiles as a fact about any list. *)
Tiled(s) ==
    /\ s \in Seq(BlockType)
    /\ Len(s) >= 1
    /\ s[1].address = 0
    /\ \A i \in 1 .. Len(s) - 1 : s[i + 1].address = s[i].address + s[i].size
    /\ s[Len(s)].address + s[Len(s)].size = HeapSize
    /\ \A i \in 1 .. Len(s) : s[i].size >= Header

\* The entries of a list of blocks.
LEMMA BlockFacts ==
    ASSUME NEW s \in Seq(BlockType)
    PROVE  /\ Len(s) \in Nat
           /\ \A j \in 1 .. Len(s) : s[j].address \in Nat /\ s[j].size \in Nat
  <1>1. Len(s) \in Nat /\ \A j \in 1 .. Len(s) : s[j] \in BlockType
    BY ElementOfSeq, LenProperties
  <1>2. QED
    BY <1>1 DEF BlockType

(***************************************************************************)
(* Blocks that are not neighbours: an earlier block ends before a later    *)
(* one starts.  A later block for which this fails, nearest to the         *)
(* earlier, has a neighbour in front for which it holds.                   *)
(***************************************************************************)
LEMMA TiledIsSorted ==
    ASSUME NEW s, Tiled(s), NEW i \in 1 .. Len(s), NEW j \in 1 .. Len(s), i < j
    PROVE  s[i].address + s[i].size <= s[j].address
  <1> DEFINE R == {pair \in Nat \X Nat : pair[1] < pair[2]}
             Bad == {k \in 1 .. Len(s) :
                       i < k /\ ~(s[i].address + s[i].size <= s[k].address)}
  <1>0. /\ Len(s) \in Nat
        /\ \A k \in 1 .. Len(s) : s[k].address \in Nat /\ s[k].size \in Nat
    BY BlockFacts DEF Tiled
  <1>1. IsWellFoundedOn(R, Nat)
    BY NatLessThanWellFounded DEF OpToRel
  <1>2. SUFFICES ASSUME Bad # {} PROVE FALSE
    OBVIOUS
  <1>3. Bad \subseteq Nat
    BY <1>0
  <1>4. PICK k \in Bad : \A m \in Bad : ~(<<m, k>> \in R)
    <2> HIDE DEF R, Bad
    <2> QED
      BY <1>1, <1>2, <1>3, WFMin, Zenon
  <1>5. k \in 1 .. Len(s) /\ i < k /\ ~(s[i].address + s[i].size <= s[k].address)
    BY <1>4
  <1>6. k - 1 \in 1 .. Len(s) - 1 /\ k - 1 \in 1 .. Len(s) /\ (k - 1) + 1 = k
    BY <1>0, <1>5
  <1>7. s[k].address = s[k - 1].address + s[k - 1].size
    BY <1>6 DEF Tiled
  <1>8. k - 1 # i
    BY <1>5, <1>7, <1>0
  <1>9. s[i].address + s[i].size <= s[k - 1].address
    <2>1. <<k - 1, k>> \in R
      BY ONLY <1>0, <1>5, <1>6
    <2>2. k - 1 \notin Bad
      BY ONLY <2>1, <1>4
    <2>3. QED
      BY <2>2, <1>5, <1>6, <1>8
  <1>10. /\ s[i].address \in Nat /\ s[i].size \in Nat
         /\ s[k - 1].address \in Nat /\ s[k - 1].size \in Nat
    BY <1>0, <1>6
  <1>11. QED
    BY ONLY <1>10, <1>5, <1>7, <1>9, SMTT(30)

(* Entry i marked used or free where it is; split into an entry of size a  *)
(* and a free one; merged with the entry behind it.                        *)
Marks(s, t, i, used) ==
    /\ Len(t) = Len(s)
    /\ \A j \in 1 .. Len(s) : j # i => t[j] = s[j]
    /\ t[i] = Block(s[i].address, s[i].size, used)

Splits(s, t, i, a) ==
    /\ Len(t) = Len(s) + 1
    /\ \A j \in 1 .. i - 1 : t[j] = s[j]
    /\ t[i] = Block(s[i].address, a, TRUE)
    /\ t[i + 1] = Block(s[i].address + a, s[i].size - a, FALSE)
    /\ \A j \in i + 2 .. Len(t) : t[j] = s[j - 1]

Merges(s, t, i) ==
    /\ Len(t) = Len(s) - 1
    /\ \A j \in 1 .. i - 1 : t[j] = s[j]
    /\ t[i] = Block(s[i].address, s[i].size + s[i + 1].size, FALSE)
    /\ \A j \in i + 1 .. Len(t) : t[j] = s[j + 1]

LEMMA MarksKeepsTiled ==
    ASSUME NEW s, Tiled(s), NEW i \in 1 .. Len(s), NEW t \in Seq(BlockType),
           NEW used, Marks(s, t, i, used)
    PROVE  Tiled(t)
  <1>1. Len(s) \in Nat /\ Len(t) = Len(s)
    BY BlockFacts DEF Tiled, Marks
  <1>2. \A j \in 1 .. Len(s) : t[j].address = s[j].address /\ t[j].size = s[j].size
    BY DEF Marks, Block
  <1>3. /\ Len(s) >= 1 /\ s[1].address = 0
        /\ s[Len(s)].address + s[Len(s)].size = HeapSize
    BY DEF Tiled
  <1>4. Len(t) >= 1 /\ t[1].address = 0
    BY ONLY <1>1, <1>2, <1>3
  <1>5. ASSUME NEW j \in 1 .. Len(t) - 1
        PROVE  t[j + 1].address = t[j].address + t[j].size
    <2>1. j \in 1 .. Len(s) - 1 /\ j \in 1 .. Len(s) /\ j + 1 \in 1 .. Len(s)
      BY ONLY <1>1
    <2>2. s[j + 1].address = s[j].address + s[j].size
      BY <2>1 DEF Tiled
    <2>3. QED
      BY ONLY <2>1, <2>2, <1>2
  <1>6. t[Len(t)].address + t[Len(t)].size = HeapSize
    BY ONLY <1>1, <1>2, <1>3
  <1>7. \A j \in 1 .. Len(t) : t[j].size >= Header
    BY <1>1, <1>2 DEF Tiled
  <1>8. QED
    BY <1>4, <1>5, <1>6, <1>7, Zenon DEF Tiled

LEMMA SplitsKeepsTiled ==
    ASSUME NEW s, Tiled(s), NEW i \in 1 .. Len(s), NEW t \in Seq(BlockType),
           Header \in Nat, NEW a \in Nat, a >= Header, s[i].size - a >= Header,
           Splits(s, t, i, a)
    PROVE  Tiled(t)
  <1>0. /\ Len(s) \in Nat /\ Len(t) = Len(s) + 1
        /\ \A j \in 1 .. Len(s) : s[j].address \in Nat /\ s[j].size \in Nat
    BY BlockFacts DEF Tiled, Splits
  <1>1. /\ t[i].address = s[i].address /\ t[i].size = a
        /\ t[i + 1].address = s[i].address + a /\ t[i + 1].size = s[i].size - a
    BY DEF Splits, Block
  <1>2. s[i].address \in Nat /\ s[i].size \in Nat
    BY <1>0
  <1>3. \A j \in 1 .. i - 1 : t[j] = s[j]
    BY DEF Splits
  <1>4. \A j \in i + 2 .. Len(t) : t[j] = s[j - 1]
    BY DEF Splits
  <1>5. t[1].address = 0
    BY ONLY <1>0, <1>1, <1>3, Tiled(s) DEF Tiled
  <1>6. ASSUME NEW j \in 1 .. Len(t) - 1
        PROVE  t[j + 1].address = t[j].address + t[j].size
    <2>1. CASE j < i - 1
      <3>1. t[j + 1] = s[j + 1] /\ t[j] = s[j] /\ j \in 1 .. Len(s) - 1
        BY ONLY <2>1, <1>0, <1>3, SMTT(30)
      <3>2. QED
        BY ONLY <3>1, Tiled(s), SMTT(30) DEF Tiled
    <2>2. CASE j = i - 1
      <3>1. t[j] = s[j] /\ j \in 1 .. Len(s) - 1 /\ j + 1 = i
        BY ONLY <2>2, <1>0, <1>3
      <3>2. QED
        BY ONLY <3>1, <1>1, Tiled(s) DEF Tiled
    <2>3. CASE j = i
      BY ONLY <2>3, <1>1
    <2>4. CASE j = i + 1
      <3>1. t[j + 1] = s[i + 1] /\ i \in 1 .. Len(s) - 1
        <4>1. j + 1 \in i + 2 .. Len(t) /\ (j + 1) - 1 = i + 1 /\ i \in 1 .. Len(s) - 1
          BY ONLY <2>4, <1>0
        <4>2. QED
          BY ONLY <4>1, <1>4
      <3>2. s[i + 1].address = s[i].address + s[i].size
        BY ONLY <3>1, Tiled(s) DEF Tiled
      <3>3. QED
        BY ONLY <3>1, <3>2, <2>4, <1>1, <1>2, a \in Nat, SMTT(30)
    <2>5. CASE j > i + 1
      <3>1. /\ j + 1 \in i + 2 .. Len(t) /\ j \in i + 2 .. Len(t)
            /\ j - 1 \in 1 .. Len(s) - 1 /\ (j + 1) - 1 = (j - 1) + 1
        BY ONLY <2>5, <1>0
      <3>2. t[j + 1] = s[(j - 1) + 1] /\ t[j] = s[j - 1]
        BY ONLY <3>1, <1>4
      <3>3. s[(j - 1) + 1].address = s[j - 1].address + s[j - 1].size
        BY ONLY <3>1, Tiled(s) DEF Tiled
      <3>4. QED
        BY ONLY <3>2, <3>3
    <2>6. QED
      BY ONLY <2>1, <2>2, <2>3, <2>4, <2>5, <1>0
  <1>7. t[Len(t)].address + t[Len(t)].size = HeapSize
    <2>0. s[Len(s)].address + s[Len(s)].size = HeapSize
      BY ONLY Tiled(s) DEF Tiled
    <2>1. CASE i = Len(s)
      <3>1. Len(t) = i + 1
        BY ONLY <2>1, <1>0
      <3>2. QED
        BY ONLY <3>1, <2>0, <2>1, <1>1, <1>2, a \in Nat
    <2>2. CASE i < Len(s)
      <3>1. Len(t) \in i + 2 .. Len(t) /\ Len(t) - 1 = Len(s)
        BY ONLY <2>2, <1>0
      <3>2. QED
        BY ONLY <3>1, <2>0, <1>4
    <2>3. QED
      BY ONLY <2>1, <2>2, <1>0
  <1>8. ASSUME NEW j \in 1 .. Len(t)
        PROVE  t[j].size >= Header
    <2>0. \A k \in 1 .. Len(s) : s[k].size >= Header
      BY ONLY Tiled(s) DEF Tiled
    <2>1. CASE j \in 1 .. i - 1
      BY ONLY <2>0, <2>1, <1>0, <1>3
    <2>2. CASE j = i \/ j = i + 1
      BY <2>2, <1>1
    <2>3. CASE j \in i + 2 .. Len(t)
      <3>1. t[j] = s[j - 1] /\ j - 1 \in 1 .. Len(s)
        BY ONLY <2>3, <1>0, <1>4
      <3>2. QED
        BY ONLY <3>1, <2>0
    <2>4. QED
      BY ONLY <2>1, <2>2, <2>3, <1>0
  <1>9. QED
    BY <1>0, <1>5, <1>6, <1>7, <1>8 DEF Tiled

LEMMA MergesKeepsTiled ==
    ASSUME NEW s, Tiled(s), NEW i \in 1 .. Len(s), i < Len(s),
           NEW t \in Seq(BlockType), Header \in Nat, Merges(s, t, i)
    PROVE  Tiled(t)
  <1>0. /\ Len(s) \in Nat /\ Len(t) = Len(s) - 1
        /\ \A j \in 1 .. Len(s) : s[j].address \in Nat /\ s[j].size \in Nat
    BY BlockFacts DEF Tiled, Merges
  <1>1. t[i].address = s[i].address /\ t[i].size = s[i].size + s[i + 1].size
    BY DEF Merges, Block
  <1>2. /\ s[i].address \in Nat /\ s[i].size \in Nat
        /\ s[i + 1].address \in Nat /\ s[i + 1].size \in Nat
        /\ i \in 1 .. Len(s) - 1
    BY ONLY <1>0, i < Len(s)
  <1>3. \A j \in 1 .. i - 1 : t[j] = s[j]
    BY DEF Merges
  <1>4. \A j \in i + 1 .. Len(t) : t[j] = s[j + 1]
    BY DEF Merges
  <1>5. t[1].address = 0
    BY ONLY <1>0, <1>1, <1>3, Tiled(s) DEF Tiled
  <1>6. s[i + 1].address = s[i].address + s[i].size
    BY ONLY <1>2, Tiled(s), SMTT(30) DEF Tiled
  <1>7. ASSUME NEW j \in 1 .. Len(t) - 1
        PROVE  t[j + 1].address = t[j].address + t[j].size
    <2>1. CASE j < i - 1
      <3>1. t[j + 1] = s[j + 1] /\ t[j] = s[j] /\ j \in 1 .. Len(s) - 1
        <4>1. j + 1 \in 1 .. i - 1 /\ j \in 1 .. i - 1 /\ j \in 1 .. Len(s) - 1
          BY ONLY <2>1, <1>0
        <4>2. QED
          BY ONLY <4>1, <1>3
      <3>2. QED
        BY ONLY <3>1, Tiled(s) DEF Tiled
    <2>2. CASE j = i - 1
      <3>1. t[j] = s[j] /\ j \in 1 .. Len(s) - 1 /\ j + 1 = i
        BY ONLY <2>2, <1>0, <1>3
      <3>2. QED
        BY ONLY <3>1, <1>1, Tiled(s) DEF Tiled
    <2>3. CASE j = i
      <3>1. i + 1 \in i + 1 .. Len(t) /\ i + 1 \in 1 .. Len(s) - 1
        BY ONLY <2>3, <1>0
      <3>2. t[i + 1] = s[(i + 1) + 1]
        BY ONLY <3>1, <1>4
      <3>3. s[(i + 1) + 1].address = s[i + 1].address + s[i + 1].size
        BY ONLY <3>1, Tiled(s) DEF Tiled
      <3>a. t[i + 1].address = s[i + 1].address + s[i + 1].size
        BY ONLY <3>2, <3>3
      <3>b. s[i].address + (s[i].size + s[i + 1].size)
              = (s[i].address + s[i].size) + s[i + 1].size
        BY ONLY <1>2, SMTT(30)
      <3>4. t[i + 1].address = t[i].address + t[i].size
        BY ONLY <3>a, <3>b, <1>1, <1>6, Zenon
      <3>5. QED
        BY ONLY <3>4, <2>3
    <2>4. CASE j > i
      <3>1. /\ j + 1 \in i + 1 .. Len(t) /\ j \in i + 1 .. Len(t)
            /\ j + 1 \in 1 .. Len(s) - 1
        BY ONLY <2>4, <1>0
      <3>2. t[j + 1] = s[(j + 1) + 1] /\ t[j] = s[j + 1]
        BY ONLY <3>1, <1>4
      <3>3. s[(j + 1) + 1].address = s[j + 1].address + s[j + 1].size
        BY ONLY <3>1, Tiled(s) DEF Tiled
      <3>4. QED
        BY ONLY <3>2, <3>3
    <2>5. QED
      BY ONLY <2>1, <2>2, <2>3, <2>4, <1>0
  <1>8. t[Len(t)].address + t[Len(t)].size = HeapSize
    <2>0. s[Len(s)].address + s[Len(s)].size = HeapSize
      BY ONLY Tiled(s) DEF Tiled
    <2>1. CASE i = Len(s) - 1
      <3>1. Len(t) = i /\ Len(s) = i + 1
        BY ONLY <2>1, <1>0
      <3>2. QED
        BY ONLY <3>1, <2>0, <1>1, <1>2, <1>6
    <2>2. CASE i < Len(s) - 1
      <3>1. Len(t) \in i + 1 .. Len(t) /\ Len(t) + 1 = Len(s)
        BY ONLY <2>2, <1>0
      <3>2. QED
        BY ONLY <3>1, <2>0, <1>4, Zenon
    <2>3. QED
      BY ONLY <2>1, <2>2, <1>0, <1>2
  <1>9. ASSUME NEW j \in 1 .. Len(t)
        PROVE  t[j].size >= Header
    <2>0. \A k \in 1 .. Len(s) : s[k].size >= Header
      BY ONLY Tiled(s) DEF Tiled
    <2>1. CASE j \in 1 .. i - 1
      BY ONLY <2>0, <2>1, <1>0, <1>3
    <2>2. CASE j = i
      BY ONLY <2>0, <2>2, <1>1, <1>2, Header \in Nat, SMTT(30)
    <2>3. CASE j \in i + 1 .. Len(t)
      <3>1. t[j] = s[j + 1] /\ j + 1 \in 1 .. Len(s)
        BY ONLY <2>3, <1>0, <1>4
      <3>2. QED
        BY ONLY <3>1, <2>0
    <2>4. QED
      BY ONLY <2>1, <2>2, <2>3, <1>0
  <1>10. Len(t) >= 1
    BY ONLY <1>0, <1>2
  <1>11. QED
    BY <1>5, <1>7, <1>8, <1>9, <1>10 DEF Tiled

(***************************************************************************)
(* What allocation does to the list: the entry is taken, every other entry *)
(* is still there, and no other entry becomes used.                        *)
(***************************************************************************)
Keeps(s, t, k) == \E m \in 1 .. Len(t) : t[m] = s[k]

TakesEntry(t, i, size) ==
    /\ Tiled(t)
    /\ \A k \in 1 .. Len(blocks) : k # i => Keeps(blocks, t, k)
    /\ \E m \in 1 .. Len(t) : t[m] = Taken(i, size)
    /\ \A m \in 1 .. Len(t) :
          t[m].used => \/ t[m] = Taken(i, size)
                       \/ \E k \in 1 .. Len(blocks) : k # i /\ t[m] = blocks[k]

LEMMA SplitStep ==
    ASSUME Tiled(blocks), Header \in Nat, NEW i \in 1 .. Len(blocks),
           NEW size \in Nat, size >= Header,
           \/ blocks[i].size = size
           \/ blocks[i].size > size /\ blocks[i].size - size >= Header,
           NEW t, t = Split(i, size)
    PROVE  TakesEntry(t, i, size)
  <1> DEFINE mid == <<Taken(i, size)>> \o Rest(i, size)
  <1>0. /\ blocks \in Seq(BlockType) /\ Len(blocks) \in Nat
        /\ blocks[i].address \in Nat /\ blocks[i].size \in Nat
    BY BlockFacts DEF Tiled
  <1> DEFINE from == i + 1
  <1>a. /\ t = Splice(blocks, i, mid, from)
        /\ from \in i + 1 .. Len(blocks) + 1
        /\ from - i = 1
    <2>1. t = Splice(blocks, i, mid, from)
      BY Zenon DEF Split, Before, After, Splice
    <2>2. QED
      BY ONLY <2>1, <1>0
  <1> HIDE DEF from
  <1>1. CASE blocks[i].size = size
    <2>1. mid = <<Taken(i, size)>> /\ mid \in Seq(BlockType)
          /\ Len(mid) = 1 /\ mid[1] = Taken(i, size)
      BY <1>1, <1>0 DEF Rest, Taken, Block, BlockType
    <2> HIDE DEF mid
    <2>3. /\ t \in Seq(BlockType)
          /\ Len(t) = Len(blocks) - (from - i) + Len(mid)
          /\ \A j \in 1 .. i - 1 : t[j] = blocks[j]
          /\ \A j \in 1 .. Len(mid) : t[i - 1 + j] = mid[j]
          /\ \A j \in i + Len(mid) .. Len(t) : t[j] = blocks[j - Len(mid) + (from - i)]
      <3>1. /\ blocks \in Seq(BlockType) /\ mid \in Seq(BlockType)
            /\ from \in i + 1 .. Len(blocks) + 1 /\ t = Splice(blocks, i, mid, from)
        BY ONLY <2>1, <1>a, <1>0
      <3>2. IsSplice(BlockType, blocks, i, mid, from, t)
        BY ONLY <3>1, SpliceFacts
      <3>3. QED
        BY ONLY <3>2, Zenon DEF IsSplice
    <2>4. Len(t) = Len(blocks) /\ t[i] = Taken(i, size)
      <3>1. 1 \in 1 .. Len(mid) /\ i - 1 + 1 = i
        BY ONLY <2>1, <1>0
      <3>2. t[i - 1 + 1] = mid[1]
        BY ONLY <3>1, <2>3
      <3>3. Len(t) = Len(blocks)
        BY ONLY <2>1, <2>3, <1>0, <1>a
      <3>4. QED
        BY ONLY <3>1, <3>2, <3>3, <2>1
    <2>5. ASSUME NEW j \in 1 .. Len(blocks), j # i PROVE t[j] = blocks[j]
      <3>1. CASE j < i
        BY ONLY <3>1, <2>3, <1>0
      <3>2. CASE j > i
        <4>1. j \in i + Len(mid) .. Len(t) /\ j - Len(mid) + (from - i) = j
          BY ONLY <3>2, <2>1, <2>4, <1>0, <1>a
        <4>2. QED
          BY ONLY <4>1, <2>3
      <3>3. QED
        BY <3>1, <3>2, <2>5, <1>0
    <2>6. Marks(blocks, t, i, TRUE)
      BY ONLY <2>4, <2>5, <1>1 DEF Marks, Taken
    <2>7. Tiled(t)
      BY <2>3, <2>6, MarksKeepsTiled, Zenon
    <2>8. QED
      BY ONLY <2>4, <2>5, <2>7 DEF Keeps, TakesEntry
  <1>2. CASE blocks[i].size > size /\ blocks[i].size - size >= Header
    <2> DEFINE rest == Block(blocks[i].address + size, blocks[i].size - size, FALSE)
    <2>0. Taken(i, size) \in BlockType /\ rest \in BlockType
      <3>1. blocks[i].address + size \in Nat /\ blocks[i].size - size \in Nat
        BY ONLY <1>2, <1>0, size \in Nat
      <3>2. QED
        BY ONLY <3>1, <1>0, size \in Nat DEF Taken, Block, BlockType, rest
    <2>1. mid = <<Taken(i, size)>> \o <<rest>>
      <3>1. blocks[i].size # size
        BY ONLY <1>2, <1>0, size \in Nat
      <3>2. QED
        BY ONLY <3>1, Zenon DEF Rest
    <2> HIDE DEF mid, rest
    <2>3. mid \in Seq(BlockType) /\ Len(mid) = 2 /\ mid[1] = Taken(i, size) /\ mid[2] = rest
      BY ONLY <2>0, <2>1, PairFacts
    <2>4. /\ t \in Seq(BlockType)
          /\ Len(t) = Len(blocks) - (from - i) + Len(mid)
          /\ \A j \in 1 .. i - 1 : t[j] = blocks[j]
          /\ \A j \in 1 .. Len(mid) : t[i - 1 + j] = mid[j]
          /\ \A j \in i + Len(mid) .. Len(t) : t[j] = blocks[j - Len(mid) + (from - i)]
      <3>1. /\ blocks \in Seq(BlockType) /\ mid \in Seq(BlockType)
            /\ from \in i + 1 .. Len(blocks) + 1 /\ t = Splice(blocks, i, mid, from)
        BY ONLY <2>3, <1>a, <1>0
      <3>2. IsSplice(BlockType, blocks, i, mid, from, t)
        BY ONLY <3>1, SpliceFacts
      <3>3. QED
        BY ONLY <3>2, Zenon DEF IsSplice
    <2>5. Len(t) = Len(blocks) + 1
      BY ONLY <2>3, <2>4, <1>0, <1>a
    <2>6. t[i] = Taken(i, size) /\ t[i + 1] = rest
      <3>1. 1 \in 1 .. Len(mid) /\ 2 \in 1 .. Len(mid) /\ i - 1 + 1 = i /\ i - 1 + 2 = i + 1
        BY ONLY <2>3, <1>0
      <3>2. t[i - 1 + 1] = mid[1] /\ t[i - 1 + 2] = mid[2]
        BY ONLY <3>1, <2>4, SMTT(30)
      <3>3. QED
        BY ONLY <3>1, <3>2, <2>3
    <2>7. ASSUME NEW j \in i + 2 .. Len(t) PROVE t[j] = blocks[j - 1]
      <3>1. j \in i + Len(mid) .. Len(t) /\ j - Len(mid) + (from - i) = j - 1
        BY ONLY <2>3, <1>0, <1>a
      <3>2. QED
        BY ONLY <3>1, <2>4
    <2>8. Splits(blocks, t, i, size)
      BY ONLY <2>4, <2>5, <2>6, <2>7, Zenon DEF Splits, Taken, rest
    <2>9. Tiled(t)
      BY <2>4, <2>8, <1>2, SplitsKeepsTiled
    <2>10. ASSUME NEW k \in 1 .. Len(blocks), k # i PROVE Keeps(blocks, t, k)
      <3>1. CASE k < i
        BY ONLY <3>1, <2>4, <2>5, <1>0 DEF Keeps
      <3>2. CASE k > i
        <4>1. k + 1 \in i + 2 .. Len(t) /\ (k + 1) - 1 = k /\ k + 1 \in 1 .. Len(t)
          BY ONLY <3>2, <2>5, <1>0
        <4>2. QED
          BY ONLY <4>1, <2>7 DEF Keeps
      <3>3. QED
        BY <3>1, <3>2, <2>10, <1>0
    <2>11. \E m \in 1 .. Len(t) : t[m] = Taken(i, size)
      BY ONLY <2>5, <2>6, <1>0
    <2>12. ASSUME NEW m \in 1 .. Len(t), t[m].used
           PROVE  \/ t[m] = Taken(i, size)
                  \/ \E k \in 1 .. Len(blocks) : k # i /\ t[m] = blocks[k]
      <3>1. CASE m < i
        BY ONLY <3>1, <2>4, <1>0
      <3>2. CASE m = i
        BY ONLY <3>2, <2>6
      <3>3. CASE m = i + 1
        BY ONLY <3>3, <2>6, <2>12 DEF rest, Block
      <3>4. CASE m \in i + 2 .. Len(t)
        <4>1. m - 1 \in 1 .. Len(blocks) /\ m - 1 # i
          BY ONLY <3>4, <2>5, <1>0
        <4>2. QED
          BY ONLY <3>4, <4>1, <2>7
      <3>5. QED
        BY ONLY <3>1, <3>2, <3>3, <3>4, <2>5, <1>0
    <2>13. QED
      BY ONLY <2>9, <2>10, <2>11, <2>12 DEF TakesEntry
  <1>3. QED
    BY <1>1, <1>2

(***************************************************************************)
(* What deallocation does to the list: every other used entry is still     *)
(* there, and the entry itself is used no more.                            *)
(***************************************************************************)
FreesEntry(t, i) ==
    /\ Tiled(t)
    /\ \A k \in 1 .. Len(blocks) :
          k # i /\ blocks[k].used => Keeps(blocks, t, k)
    /\ \A m \in 1 .. Len(t) :
          t[m].used => \E k \in 1 .. Len(blocks) : k # i /\ t[m] = blocks[k]

LEMMA MergeStep ==
    ASSUME Tiled(blocks), Header \in Nat, NEW i \in 1 .. Len(blocks),
           NEW t, t = Merged(i)
    PROVE  FreesEntry(t, i)
  <1>0. /\ blocks \in Seq(BlockType) /\ Len(blocks) \in Nat
        /\ blocks[i].address \in Nat /\ blocks[i].size \in Nat
        /\ \A j \in 1 .. Len(blocks) : blocks[j].address \in Nat /\ blocks[j].size \in Nat
    BY BlockFacts DEF Tiled
  <1>1. CASE ~MergesRight(i)
    <2> DEFINE freed == Block(blocks[i].address, blocks[i].size, FALSE)
               mid == <<freed>>
               from == i + 1
    <2>0. freed \in BlockType
      BY <1>0 DEF Block, BlockType
    <2>1. /\ mid \in Seq(BlockType) /\ Len(mid) = 1 /\ mid[1] = freed
      <3> HIDE DEF freed
      <3> QED
        BY ONLY <2>0, OneFacts
    <2>2. t = Splice(blocks, i, mid, from)
      BY <1>1, Zenon DEF Merged, Before, After, Splice
    <2>3. from \in i + 1 .. Len(blocks) + 1 /\ from - i = 1
      <3>1. Len(blocks) \in Nat
        BY ONLY <1>0
      <3>2. QED
        BY ONLY <3>1
    <2> HIDE DEF from, mid, freed
    <2>4. IsSplice(BlockType, blocks, i, mid, from, t)
      <3>1. /\ blocks \in Seq(BlockType) /\ mid \in Seq(BlockType)
            /\ from \in i + 1 .. Len(blocks) + 1 /\ t = Splice(blocks, i, mid, from)
        BY ONLY <1>0, <2>1, <2>2, <2>3
      <3>2. QED
        BY ONLY <3>1, SpliceFacts
    <2>5. /\ t \in Seq(BlockType)
          /\ Len(t) = Len(blocks) - (from - i) + Len(mid)
          /\ \A j \in 1 .. i - 1 : t[j] = blocks[j]
          /\ \A j \in 1 .. Len(mid) : t[i - 1 + j] = mid[j]
          /\ \A j \in i + Len(mid) .. Len(t) : t[j] = blocks[j - Len(mid) + (from - i)]
      BY ONLY <2>4 DEF IsSplice
    <2>6. Len(t) = Len(blocks) /\ t[i] = freed
      <3>1. 1 \in 1 .. Len(mid) /\ i - 1 + 1 = i
        BY ONLY <2>1, <1>0
      <3>2. t[i - 1 + 1] = mid[1]
        BY ONLY <3>1, <2>5
      <3>3. Len(t) = Len(blocks)
        BY ONLY <2>1, <2>3, <2>5, <1>0
      <3>4. QED
        BY ONLY <3>1, <3>2, <3>3, <2>1
    <2>7. ASSUME NEW j \in 1 .. Len(blocks), j # i PROVE t[j] = blocks[j]
      <3>1. CASE j < i
        <4>1. j \in 1 .. i - 1
          BY ONLY <3>1, <1>0
        <4>2. QED
          BY ONLY <4>1, <2>5
      <3>2. CASE j > i
        <4>1. j \in i + Len(mid) .. Len(t) /\ j - Len(mid) + (from - i) = j
          BY ONLY <3>2, <2>1, <2>3, <2>6, <1>0
        <4>2. QED
          BY ONLY <4>1, <2>5
      <3>3. QED
        BY <3>1, <3>2, <2>7, <1>0
    <2>8. Marks(blocks, t, i, FALSE)
      BY ONLY <2>6, <2>7 DEF Marks, freed
    <2>9. Tiled(t)
      BY <2>5, <2>8, MarksKeepsTiled, Zenon
    <2>10. ~t[i].used
      BY ONLY <2>6 DEF freed, Block
    <2>11. QED
      BY ONLY <2>6, <2>7, <2>9, <2>10 DEF Keeps, FreesEntry
  <1>2. CASE MergesRight(i)
    <2> DEFINE freed == Block(blocks[i].address,
                              blocks[i].size + blocks[i + 1].size, FALSE)
               mid == <<freed>>
               from == i + 2
    <2>a. i < Len(blocks) /\ ~blocks[i + 1].used
      BY <1>2 DEF MergesRight
    <2>0. freed \in BlockType
      <3>1. i + 1 \in 1 .. Len(blocks)
        BY ONLY <2>a, <1>0
      <3>2. blocks[i].size + blocks[i + 1].size \in Nat
        BY ONLY <3>1, <1>0
      <3>3. QED
        BY ONLY <3>2, <1>0 DEF Block, BlockType, freed
    <2>1. /\ mid \in Seq(BlockType) /\ Len(mid) = 1 /\ mid[1] = freed
      <3> HIDE DEF freed
      <3> QED
        BY ONLY <2>0, OneFacts
    <2>2. t = Splice(blocks, i, mid, from)
      <3>1. (i + 1) + 1 = from
        BY ONLY <1>0
      <3>2. QED
        BY <1>2, <3>1, Zenon DEF Merged, Before, After, Splice
    <2>3. from \in i + 1 .. Len(blocks) + 1 /\ from - i = 2
      BY ONLY <1>0, <2>a
    <2> HIDE DEF from, mid, freed
    <2>4. IsSplice(BlockType, blocks, i, mid, from, t)
      <3>1. /\ blocks \in Seq(BlockType) /\ mid \in Seq(BlockType)
            /\ from \in i + 1 .. Len(blocks) + 1 /\ t = Splice(blocks, i, mid, from)
        BY ONLY <1>0, <2>1, <2>2, <2>3
      <3>2. QED
        BY ONLY <3>1, SpliceFacts
    <2>5. /\ t \in Seq(BlockType)
          /\ Len(t) = Len(blocks) - (from - i) + Len(mid)
          /\ \A j \in 1 .. i - 1 : t[j] = blocks[j]
          /\ \A j \in 1 .. Len(mid) : t[i - 1 + j] = mid[j]
          /\ \A j \in i + Len(mid) .. Len(t) : t[j] = blocks[j - Len(mid) + (from - i)]
      BY ONLY <2>4 DEF IsSplice
    <2>6. Len(t) = Len(blocks) - 1 /\ t[i] = freed
      <3>1. 1 \in 1 .. Len(mid) /\ i - 1 + 1 = i
        BY ONLY <2>1, <1>0
      <3>2. t[i - 1 + 1] = mid[1]
        BY ONLY <3>1, <2>5
      <3>3. Len(t) = Len(blocks) - 1
        BY ONLY <2>1, <2>3, <2>5, <1>0
      <3>4. QED
        BY ONLY <3>1, <3>2, <3>3, <2>1
    <2>7. ASSUME NEW j \in i + 1 .. Len(t) PROVE t[j] = blocks[j + 1]
      <3>1. j \in i + Len(mid) .. Len(t) /\ j - Len(mid) + (from - i) = j + 1
        BY ONLY <2>1, <2>3, <1>0
      <3>2. QED
        BY ONLY <3>1, <2>5
    <2>8. Merges(blocks, t, i)
      BY ONLY <2>5, <2>6, <2>7, Zenon DEF Merges, freed
    <2>9. Tiled(t)
      BY <2>5, <2>8, <2>a, MergesKeepsTiled
    <2>10. ASSUME NEW k \in 1 .. Len(blocks), k # i, blocks[k].used
           PROVE  Keeps(blocks, t, k)
      <3>1. CASE k < i
        <4>1. k \in 1 .. i - 1 /\ k \in 1 .. Len(t)
          BY ONLY <3>1, <2>6, <2>a, <1>0
        <4>2. QED
          BY ONLY <4>1, <2>5 DEF Keeps
      <3>2. CASE k > i
        <4>0. k # i + 1
          BY ONLY <2>10, <2>a
        <4>1. k - 1 \in i + 1 .. Len(t) /\ (k - 1) + 1 = k /\ k - 1 \in 1 .. Len(t)
          BY ONLY <3>2, <4>0, <2>6, <1>0
        <4>2. t[k - 1] = blocks[(k - 1) + 1]
          BY ONLY <4>1, <2>7
        <4>3. QED
          BY ONLY <4>1, <4>2 DEF Keeps
      <3>3. QED
        BY <3>1, <3>2, <2>10, <1>0
    <2>11. ASSUME NEW m \in 1 .. Len(t), t[m].used
           PROVE  \E k \in 1 .. Len(blocks) : k # i /\ t[m] = blocks[k]
      <3>1. CASE m < i
        BY ONLY <3>1, <2>5, <1>0
      <3>2. CASE m = i
        BY ONLY <3>2, <2>6, <2>11 DEF freed, Block
      <3>3. CASE m \in i + 1 .. Len(t)
        <4>1. m + 1 \in 1 .. Len(blocks) /\ m + 1 # i
          BY ONLY <3>3, <2>6, <1>0
        <4>2. QED
          BY ONLY <3>3, <4>1, <2>7
      <3>4. QED
        BY ONLY <3>1, <3>2, <3>3, <2>6, <1>0
    <2>12. QED
      BY ONLY <2>9, <2>10, <2>11 DEF FreesEntry
  <1>3. QED
    BY <1>1, <1>2

----------------------------------------------------------------------------
(* The heap.                                                               *)

\* block_align_size never asks for less than the layout and the header.
LEMMA BlockSizeFacts ==
    ASSUME HeapAssumption, NEW layout \in Layouts
    PROVE  BlockSize(layout) \in Nat /\ BlockSize(layout) >= layout + Header
  <1> DEFINE x == layout + Align - 1
             q == x \div Align
  <1>1. layout \in Nat /\ Align \in Nat \ {0} /\ Header \in Nat
    BY DEF HeapAssumption
  <1>2. q \in Nat /\ x = q * Align + (x % Align) /\ x % Align < Align /\ x % Align \in Nat
    BY <1>1
  <1>3. q * Align \in Nat
    BY <1>1, <1>2
  <1>4. q * Align >= layout
    BY <1>1, <1>2, <1>3
  <1>5. QED
    BY <1>1, <1>3, <1>4 DEF BlockSize, AlignUp

(***************************************************************************)
(* The inductive invariant: the blocks tile the heap, callers hold exactly *)
(* the memory of the used blocks, and no two hold the same block.  Without *)
(* the last, freeing one caller's memory could free another's.             *)
(***************************************************************************)
HeldOnce == \A memory, other \in held :
                memory.address = other.address => memory = other

IInv ==
    /\ Tiled(blocks)
    /\ held \subseteq [address : Nat, size : Layouts]
    /\ HeldIsUsed
    /\ UsedIsHeld
    /\ HeldOnce

LEMMA AddressesDiffer ==
    ASSUME HeapAssumption, Tiled(blocks),
           NEW i \in DOMAIN blocks, NEW j \in DOMAIN blocks,
           blocks[i].address = blocks[j].address
    PROVE  i = j
  <1>1. /\ Len(blocks) \in Nat /\ i \in 1 .. Len(blocks) /\ j \in 1 .. Len(blocks)
        /\ blocks[i].address \in Nat /\ blocks[i].size \in Nat
        /\ blocks[j].address \in Nat /\ blocks[j].size \in Nat
    BY BlockFacts, LenProperties DEF Tiled
  <1>2. blocks[i].size >= Header /\ blocks[j].size >= Header /\ Header \in Nat \ {0}
    BY <1>1 DEF Tiled, HeapAssumption
  <1>3. CASE i < j
    <2>1. blocks[i].address + blocks[i].size <= blocks[j].address
      BY <1>1, <1>3, TiledIsSorted
    <2>2. QED
      BY <2>1, <1>1, <1>2
  <1>4. CASE j < i
    <2>1. blocks[j].address + blocks[j].size <= blocks[i].address
      BY <1>1, <1>4, TiledIsSorted
    <2>2. QED
      BY <2>1, <1>1, <1>2
  <1>5. QED
    BY <1>1, <1>3, <1>4

LEMMA InitIInv ==
    ASSUME HeapAssumption, Init
    PROVE  IInv
  <1> DEFINE b == Block(0, HeapSize, FALSE)
  <1>1. b \in BlockType /\ b.address = 0 /\ b.size = HeapSize /\ b.used = FALSE
    BY DEF Block, BlockType, HeapAssumption
  <1> HIDE DEF b
  <1>2. blocks = <<b>>
    BY DEF Init, b
  <1>3. blocks \in Seq(BlockType) /\ Len(blocks) = 1 /\ blocks[1] = b
    BY ONLY <1>1, <1>2, OneFacts
  <1>4. Tiled(blocks)
    BY <1>1, <1>3 DEF Tiled, HeapAssumption
  <1>5. DOMAIN blocks = {1}
    BY ONLY <1>2
  <1>6. UsedIsHeld
    BY ONLY <1>1, <1>3, <1>5 DEF UsedIsHeld
  <1>7. QED
    BY <1>4, <1>6 DEF Init, IInv, HeldIsUsed, HeldOnce

(***************************************************************************)
(* What an allocation finds and does, from the code's conditions: a free   *)
(* block with room for header and layout, taken as SplitStep says.         *)
(***************************************************************************)
LEMMA AllocateStep ==
    ASSUME HeapAssumption, IInv, NEW layout \in Layouts, Allocate(layout)
    PROVE  \E i \in 1 .. Len(blocks) :
              /\ ~blocks[i].used
              /\ blocks[i].size >= Header + layout
              /\ BlockSize(layout) >= Header + layout
              /\ TakesEntry(blocks', i, BlockSize(layout))
              /\ held' = held \union
                    {[address |-> blocks[i].address + Header, size |-> layout]}
  <1> DEFINE size == BlockSize(layout)
  <1>0. layout \in Nat /\ Header \in Nat /\ size \in Nat /\ size >= layout + Header
    BY BlockSizeFacts DEF HeapAssumption
  <1> HIDE DEF size
  <1>1. PICK i \in DOMAIN blocks :
           /\ Takes(blocks[i], size)
           /\ blocks' = Split(i, size)
           /\ held' = held \union
                  {[address |-> blocks[i].address + Header, size |-> layout]}
    BY DEF Allocate, FirstFit, size
  <1>2. /\ Tiled(blocks) /\ Len(blocks) \in Nat /\ i \in 1 .. Len(blocks)
        /\ blocks[i].size \in Nat
    BY BlockFacts, LenProperties DEF IInv, Tiled
  <1>3. /\ ~blocks[i].used
        /\ \/ blocks[i].size = size
           \/ blocks[i].size > size /\ blocks[i].size - size >= Header
    BY ONLY <1>1 DEF Takes, CanCreate
  <1>4. blocks[i].size >= Header + layout /\ size >= Header /\ size >= Header + layout
    BY ONLY <1>0, <1>2, <1>3
  <1>5. TakesEntry(blocks', i, size)
    <2>1. blocks' = Split(i, size)
      BY <1>1
    <2>2. QED
      BY ONLY <1>0, <1>2, <1>3, <1>4, <2>1, SplitStep
  <1>6. QED
    BY ONLY <1>1, <1>2, <1>3, <1>4, <1>5 DEF size

\* Likewise a deallocation: the block in front of the memory, held by nobody else.
LEMMA DeallocateStep ==
    ASSUME HeapAssumption, IInv, NEW memory \in held, Deallocate(memory)
    PROVE  \E i \in 1 .. Len(blocks) :
              /\ blocks[i].address + Header = memory.address
              /\ FreesEntry(blocks', i)
              /\ held' = held \ {memory}
  <1>1. PICK i \in DOMAIN blocks :
           /\ blocks[i].address = memory.address - Header
           /\ blocks' = Merged(i)
           /\ held' = held \ {memory}
    BY DEF Deallocate
  <1>2. /\ Tiled(blocks) /\ Len(blocks) \in Nat /\ i \in 1 .. Len(blocks)
        /\ Header \in Nat /\ memory.address \in Nat
    BY LenProperties DEF IInv, Tiled, HeapAssumption
  <1>3. blocks[i].address + Header = memory.address
    BY ONLY <1>1, <1>2
  <1>4. FreesEntry(blocks', i)
    <2>1. blocks' = Merged(i)
      BY <1>1
    <2>2. QED
      BY ONLY <1>2, <2>1, MergeStep
  <1>5. QED
    BY ONLY <1>1, <1>2, <1>3, <1>4

LEMMA NextIInv ==
    ASSUME HeapAssumption, IInv, [Next]_vars
    PROVE  IInv'
  <1>0. /\ blocks \in Seq(BlockType) /\ Len(blocks) \in Nat /\ Tiled(blocks)
        /\ DOMAIN blocks = 1 .. Len(blocks)
        /\ \A k \in 1 .. Len(blocks) : blocks[k].address \in Nat /\ blocks[k].size \in Nat
        /\ Header \in Nat
    BY BlockFacts, LenProperties DEF IInv, Tiled, HeapAssumption
  <1>1. CASE UNCHANGED vars
    BY <1>1 DEF vars, IInv, Tiled, HeldIsUsed, UsedIsHeld, HeldOnce
  <1>2. ASSUME NEW layout \in Layouts, OutOfMemory(layout) PROVE IInv'
    BY <1>2 DEF OutOfMemory, vars, IInv, Tiled, HeldIsUsed, UsedIsHeld, HeldOnce
  <1>3. ASSUME NEW layout \in Layouts, Allocate(layout) PROVE IInv'
    <2> DEFINE size == BlockSize(layout)
    <2>1. PICK i \in 1 .. Len(blocks) :
              /\ ~blocks[i].used
              /\ blocks[i].size >= Header + layout
              /\ size >= Header + layout
              /\ TakesEntry(blocks', i, size)
              /\ held' = held \union
                    {[address |-> blocks[i].address + Header, size |-> layout]}
      BY <1>3, AllocateStep
    <2> DEFINE new == [address |-> blocks[i].address + Header, size |-> layout]
               t == Taken(i, size)
    <2>a. t.used /\ t.address = blocks[i].address /\ t.size = size
      BY DEF Taken, Block
    <2>b. new.address = blocks[i].address + Header /\ new.size = layout
          /\ new \in [address : Nat, size : Layouts]
      BY <1>0
    <2> HIDE DEF size, new, t
    <2>c. held' = held \union {new}
      BY <2>1 DEF new
    <2>2. /\ Tiled(blocks')
          /\ \A k \in 1 .. Len(blocks) : k # i => \E m \in 1 .. Len(blocks') : blocks'[m] = blocks[k]
          /\ \E m \in 1 .. Len(blocks') : blocks'[m] = t
          /\ \A m \in 1 .. Len(blocks') :
                blocks'[m].used => \/ blocks'[m] = t
                                   \/ \E k \in 1 .. Len(blocks) : k # i /\ blocks'[m] = blocks[k]
      BY <2>1 DEF TakesEntry, Keeps, t
    <2>3. DOMAIN blocks' = 1 .. Len(blocks')
      BY <2>2, LenProperties DEF Tiled
    <2>4. held' \subseteq [address : Nat, size : Layouts]
      BY <2>b, <2>c DEF IInv
    <2>5. ASSUME NEW memory \in held'
          PROVE  \E m \in DOMAIN blocks' :
                    /\ blocks'[m].used
                    /\ blocks'[m].address + Header = memory.address
                    /\ Header + memory.size <= blocks'[m].size
      <3>1. CASE memory = new
        <4>1. PICK m \in 1 .. Len(blocks') : blocks'[m] = t
          BY <2>2
        <4>2. Header + layout <= size
          BY <2>1, BlockSizeFacts DEF HeapAssumption, size
        <4>3. QED
          BY <3>1, <4>1, <4>2, <2>3, <2>a, <2>b
      <3>2. CASE memory \in held
        <4>1. PICK k \in DOMAIN blocks :
                 /\ blocks[k].used
                 /\ blocks[k].address + Header = memory.address
                 /\ Header + memory.size <= blocks[k].size
          BY <3>2 DEF IInv, HeldIsUsed
        <4>2. k # i /\ k \in 1 .. Len(blocks)
          BY <4>1, <2>1, <1>0
        <4>3. PICK m \in 1 .. Len(blocks') : blocks'[m] = blocks[k]
          BY <4>2, <2>2
        <4>4. QED
          BY <4>1, <4>3, <2>3
      <3>3. QED
        BY <3>1, <3>2, <2>c
    <2>6. ASSUME NEW m \in DOMAIN blocks', blocks'[m].used
          PROVE  \E memory \in held' : memory.address = blocks'[m].address + Header
      <3>1. CASE blocks'[m] = t
        BY <3>1, <2>a, <2>b, <2>c
      <3>2. CASE \E k \in 1 .. Len(blocks) : k # i /\ blocks'[m] = blocks[k]
        BY <3>2, <2>6, <2>c, <1>0 DEF IInv, UsedIsHeld
      <3>3. QED
        BY <3>1, <3>2, <2>2, <2>3, <2>6
    <2>7. ASSUME NEW memory \in held PROVE memory.address # new.address
      <3>1. PICK k \in DOMAIN blocks :
               blocks[k].used /\ blocks[k].address + Header = memory.address
        BY DEF IInv, HeldIsUsed
      <3>2. k # i /\ i \in DOMAIN blocks
        BY <3>1, <2>1, <1>0
      <3>3. blocks[k].address # blocks[i].address
        BY <3>2, <1>0, AddressesDiffer
      <3>4. blocks[k].address \in Nat /\ blocks[i].address \in Nat /\ Header \in Nat
        BY <1>0
      <3>5. QED
        BY <3>1, <3>3, <3>4, <2>b
    <2>8. HeldOnce'
      BY <2>7, <2>c DEF IInv, HeldOnce
    <2>9. QED
      BY <2>2, <2>4, <2>5, <2>6, <2>8 DEF IInv, HeldIsUsed, UsedIsHeld, Tiled
  <1>4. ASSUME NEW gone \in held, Deallocate(gone) PROVE IInv'
    <2>1. PICK i \in 1 .. Len(blocks) :
              /\ blocks[i].address + Header = gone.address
              /\ FreesEntry(blocks', i)
              /\ held' = held \ {gone}
      BY <1>4, DeallocateStep
    <2>2. /\ Tiled(blocks')
          /\ \A k \in 1 .. Len(blocks) :
                k # i /\ blocks[k].used => \E m \in 1 .. Len(blocks') : blocks'[m] = blocks[k]
          /\ \A m \in 1 .. Len(blocks') :
                blocks'[m].used => \E k \in 1 .. Len(blocks) : k # i /\ blocks'[m] = blocks[k]
      BY <2>1 DEF FreesEntry, Keeps
    <2>3. DOMAIN blocks' = 1 .. Len(blocks')
      BY <2>2, LenProperties DEF Tiled
    <2>4. ASSUME NEW memory \in held'
          PROVE  \E m \in DOMAIN blocks' :
                    /\ blocks'[m].used
                    /\ blocks'[m].address + Header = memory.address
                    /\ Header + memory.size <= blocks'[m].size
      <3>1. memory \in held /\ memory # gone
        BY <2>1
      <3>2. PICK k \in DOMAIN blocks :
               /\ blocks[k].used
               /\ blocks[k].address + Header = memory.address
               /\ Header + memory.size <= blocks[k].size
        BY <3>1 DEF IInv, HeldIsUsed
      <3>3. memory.address # gone.address
        BY <3>1 DEF IInv, HeldOnce
      <3>4. k # i /\ k \in 1 .. Len(blocks)
        BY <3>2, <3>3, <2>1, <1>0
      <3>5. PICK m \in 1 .. Len(blocks') : blocks'[m] = blocks[k]
        BY <3>2, <3>4, <2>2
      <3>6. QED
        BY <3>2, <3>5, <2>3
    <2>5. ASSUME NEW m \in DOMAIN blocks', blocks'[m].used
          PROVE  \E memory \in held' : memory.address = blocks'[m].address + Header
      <3>1. PICK k \in 1 .. Len(blocks) : k # i /\ blocks'[m] = blocks[k]
        BY <2>2, <2>3, <2>5
      <3>2. PICK memory \in held : memory.address = blocks[k].address + Header
        BY <3>1, <2>5, <1>0, Zenon DEF IInv, UsedIsHeld
      <3>3. blocks[k].address # blocks[i].address
        BY <3>1, <1>0, AddressesDiffer, SMTT(30)
      <3>4. blocks[k].address \in Nat /\ blocks[i].address \in Nat /\ Header \in Nat
        BY <1>0
      <3>5. memory.address # gone.address
        BY ONLY <3>2, <3>3, <3>4, <2>1
      <3>6. QED
        BY <3>1, <3>2, <3>5, <2>1
    <2>6. QED
      BY <2>1, <2>2, <2>4, <2>5 DEF IInv, HeldIsUsed, UsedIsHeld, HeldOnce, Tiled
  <1>5. QED
    BY <1>1, <1>2, <1>3, <1>4 DEF Next

LEMMA Invariant == ASSUME HeapAssumption PROVE Spec => []IInv
  <1>1. Init => IInv
    BY InitIInv
  <1>2. IInv /\ [Next]_vars => IInv'
    BY NextIInv
  <1>3. QED
    BY <1>1, <1>2, PTL DEF Spec

(***************************************************************************)
(* alloc and dealloc keep the list of blocks and the callers' memory       *)
(* sound, whatever is asked for and given back, in any order.              *)
(***************************************************************************)
THEOREM HeapIsSound == ASSUME HeapAssumption PROVE Spec => []HeapSound
  <1>1. IInv => HeapSound
    <2> SUFFICES ASSUME IInv PROVE HeapSound
      OBVIOUS
    <2>1. blocks \in Seq(BlockType) /\ Len(blocks) >= 1 /\ DOMAIN blocks = 1 .. Len(blocks)
      BY LenProperties DEF IInv, Tiled
    <2>2. blocks # <<>>
      BY <2>1
    <2>3. Tiles
      BY <2>1, <2>2 DEF IInv, Tiled, Tiles
    <2>4. held \subseteq [address : Nat, size : Nat]
      BY Zenon DEF IInv, HeapAssumption
    <2>5. QED
      BY <2>1, <2>3, <2>4 DEF IInv, HeapSound, TypeOK
  <1>2. QED
    BY <1>1, Invariant, PTL

----------------------------------------------------------------------------
(* The heap as an allocator of ranges.                                     *)

LEMMA Gap ==
    ASSUME NEW a \in Nat, NEW n \in Nat, NEW h \in Nat, NEW l \in Nat, NEW b \in Nat,
           a + n <= b, h + l <= n
    PROVE  (a + h) + l <= b /\ (a + h) + l <= b + h
  OBVIOUS

LEMMA StepKeepsPromise ==
    ASSUME HeapAssumption, IInv, [Next]_vars
    PROVE  [Abstract!HandOut \/ Abstract!GiveBack]_HeldRanges
  <1> DEFINE RangeOf(memory) ==
                [lo |-> memory.address, hi |-> memory.address + memory.size]
  <1>0. /\ blocks \in Seq(BlockType) /\ Len(blocks) \in Nat /\ Tiled(blocks)
        /\ DOMAIN blocks = 1 .. Len(blocks)
        /\ \A k \in 1 .. Len(blocks) : blocks[k].address \in Nat /\ blocks[k].size \in Nat
        /\ Header \in Nat /\ HeapSize \in Nat
    BY BlockFacts, LenProperties DEF IInv, Tiled, HeapAssumption
  <1>h. \A memory \in held : memory.address \in Nat /\ memory.size \in Nat \ {0}
    BY Zenon DEF IInv, HeapAssumption
  <1>1. CASE UNCHANGED vars
    BY <1>1 DEF vars, HeldRanges
  <1>2. ASSUME NEW layout \in Layouts, OutOfMemory(layout) PROVE UNCHANGED HeldRanges
    BY <1>2 DEF OutOfMemory, vars, HeldRanges
  <1>3. ASSUME NEW layout \in Layouts, Allocate(layout) PROVE Abstract!HandOut
    <2>1. PICK i \in 1 .. Len(blocks) :
              /\ ~blocks[i].used
              /\ blocks[i].size >= Header + layout
              /\ held' = held \union
                    {[address |-> blocks[i].address + Header, size |-> layout]}
      BY <1>3, AllocateStep
    <2>2. layout \in Nat \ {0} /\ blocks[i].address \in Nat /\ blocks[i].size \in Nat
      BY <1>0 DEF HeapAssumption
    <2> DEFINE lo == blocks[i].address + Header
               r == [lo |-> lo, hi |-> lo + layout]
               new == [address |-> lo, size |-> layout]
    <2>3. lo \in Nat /\ r.lo = lo /\ r.hi = lo + layout /\ lo = blocks[i].address + Header
      BY <2>2, <1>0
    <2>4. HeldRanges' = HeldRanges \union {r}
      <3>1. held' = held \union {new}
        BY <2>1
      <3>2. RangeOf(new) = r
        BY SMTT(30)
      <3> HIDE DEF new, r
      <3>3. QED
        BY <3>1, <3>2 DEF HeldRanges
    <2> HIDE DEF r, lo, new
    <2>5. blocks[i].address + blocks[i].size <= HeapSize
      <3>0. /\ Len(blocks) \in 1 .. Len(blocks) /\ Len(blocks) >= 1
            /\ blocks[Len(blocks)].address + blocks[Len(blocks)].size = HeapSize
        BY <1>0 DEF Tiled
      <3>1. CASE i = Len(blocks)
        BY <3>0, <3>1, <2>2, <1>0
      <3>2. CASE i < Len(blocks)
        <4>1. blocks[i].address + blocks[i].size <= blocks[Len(blocks)].address
          BY <3>0, <3>2, <1>0, TiledIsSorted
        <4>2. blocks[Len(blocks)].address \in Nat /\ blocks[Len(blocks)].size \in Nat
          BY <3>0, <1>0
        <4>3. blocks[i].address + blocks[i].size \in Nat
          BY ONLY <2>2
        <4>4. \A e, b, t \in Nat : e <= b => e <= b + t
          OBVIOUS
        <4>5. blocks[i].address + blocks[i].size
                 <= blocks[Len(blocks)].address + blocks[Len(blocks)].size
          BY ONLY <4>1, <4>2, <4>3, <4>4, Zenon
        <4>6. QED
          BY ONLY <3>0, <4>5, Zenon
      <3>3. i = Len(blocks) \/ i < Len(blocks)
        <4>1. \A n \in Nat : \A k \in 1 .. n : k = n \/ k < n
          OBVIOUS
        <4>2. Len(blocks) \in Nat
          BY <1>0, Zenon
        <4>3. QED
          BY <4>1, <4>2, Zenon
      <3>4. QED
        BY ONLY <3>1, <3>2, <3>3, Zenon
    <2>a. Header \in Nat /\ HeapSize \in Nat
      BY <1>0
    <2>b. Header + layout <= blocks[i].size
      BY <2>1, <2>2, <2>a
    <2>6. 0 <= r.lo /\ r.lo < r.hi /\ r.hi <= HeapSize
      <3>1. (blocks[i].address + Header) + layout <= HeapSize
        BY ONLY <2>2, <2>5, <2>a, <2>b, Gap
      <3>2. lo + layout <= HeapSize
        BY ONLY <3>1, <2>3
      <3>3. QED
        BY ONLY <3>2, <2>2, <2>3
    <2>7. ASSUME NEW s \in HeldRanges
          PROVE  (r.hi <= s.lo \/ s.hi <= r.lo) /\ s.lo < s.hi
      <3>1. PICK memory \in held : s = RangeOf(memory)
        BY DEF HeldRanges
      <3>2. s.lo = memory.address /\ s.hi = memory.address + memory.size
        BY <3>1
      <3>3. PICK k \in 1 .. Len(blocks) :
               /\ blocks[k].used
               /\ blocks[k].address + Header = memory.address
               /\ Header + memory.size <= blocks[k].size
        BY <1>0 DEF IInv, HeldIsUsed
      <3>4. k # i
        BY <3>3, <2>1
      <3>5. blocks[k].address \in Nat /\ blocks[k].size \in Nat
            /\ memory.address \in Nat /\ memory.size \in Nat \ {0}
        BY <1>0, <1>h
      <3>6. CASE k < i
        <4>1. blocks[k].address + blocks[k].size <= blocks[i].address
          BY <3>6, <1>0, TiledIsSorted
        <4>2. (blocks[k].address + Header) + memory.size <= blocks[i].address + Header
          <5>1. Header + memory.size <= blocks[k].size
            BY <3>3
          <5>2. memory.size \in Nat
            BY <3>5
          <5>3. QED
            BY ONLY <4>1, <5>1, <5>2, <3>5, <2>2, <2>a, Gap, Zenon
        <4>a. s.hi <= r.lo
          BY ONLY <4>2, <3>2, <3>3, <2>3
        <4>3. QED
          BY ONLY <4>a, <3>2, <3>5
      <3>7. CASE i < k
        <4>1. blocks[i].address + blocks[i].size <= blocks[k].address
          BY <3>7, <1>0, TiledIsSorted, SMTT(30)
        <4>2. (blocks[i].address + Header) + layout <= blocks[k].address + Header
          BY ONLY <4>1, <3>5, <2>2, <2>a, <2>b, Gap, Zenon
        <4>3. r.hi <= s.lo
          BY ONLY <4>2, <3>2, <3>3, <2>3
        <4>4. QED
          BY ONLY <4>3, <3>2, <3>5
      <3>8. QED
        BY <3>4, <3>6, <3>7, <1>0
    <2>8. r \notin HeldRanges
      <3>1. ASSUME r \in HeldRanges PROVE FALSE
        <4>1. r.hi <= r.lo
          BY <2>7, <3>1, Zenon
        <4>2. QED
          BY <4>1, <2>2, <2>3
      <3>2. QED
        BY <3>1
    <2>9. QED
      BY <2>4, <2>6, <2>7, <2>8 DEF Abstract!HandOut, Abstract!IsRange, Abstract!Apart
  <1>4. ASSUME NEW gone \in held, Deallocate(gone) PROVE Abstract!GiveBack
    <2>1. held' = held \ {gone}
      BY <1>4 DEF Deallocate
    <2>2. ASSUME NEW memory \in held, RangeOf(memory) = RangeOf(gone)
          PROVE  memory = gone
      <3>1. memory.address = gone.address
        BY <2>2
      <3>2. QED
        BY <3>1 DEF IInv, HeldOnce
    <2>3. HeldRanges' = HeldRanges \ {RangeOf(gone)}
      BY <2>1, <2>2 DEF HeldRanges
    <2>4. RangeOf(gone) \in HeldRanges
      BY DEF HeldRanges
    <2>5. QED
      BY <2>3, <2>4 DEF Abstract!GiveBack
  <1>5. QED
    BY <1>1, <1>2, <1>3, <1>4 DEF Next

(***************************************************************************)
(* alloc and dealloc implement an allocator of ranges: memory handed out   *)
(* lies in the heap and overlaps nothing handed out and not given back.    *)
(***************************************************************************)
THEOREM HeapKeepsApart == ASSUME HeapAssumption PROVE Spec => MemoryKeptApart
  <1>1. Init => Abstract!Start
    BY DEF Init, Abstract!Start, HeldRanges
  <1>2. IInv /\ [Next]_vars => [Abstract!HandOut \/ Abstract!GiveBack]_HeldRanges
    BY StepKeepsPromise
  <1>3. QED
    BY <1>1, <1>2, Invariant, PTL DEF Spec, MemoryKeptApart, Abstract!Promise
=============================================================================
