--------------------------- MODULE SequenceFacts ---------------------------
(***************************************************************************)
(* What the proofs need to know of lists that are cut and joined: the      *)
(* heap's list of blocks, the stack allocator's freed ranges, the list of  *)
(* free page-table slots.                                                  *)
(***************************************************************************)
EXTENDS Integers, Sequences, SequenceTheorems, TLAPS

\* The entries of a concatenation.
LEMMA ConcatFacts ==
    ASSUME NEW S, NEW a \in Seq(S), NEW b \in Seq(S), NEW t, t = a \o b
    PROVE  /\ t \in Seq(S) /\ Len(t) = Len(a) + Len(b)
           /\ Len(a) \in Nat /\ Len(b) \in Nat
           /\ \A j \in 1 .. Len(a) : t[j] = a[j]
           /\ \A j \in 1 .. Len(b) : t[Len(a) + j] = b[j]
  <1>1. Len(a) \in Nat /\ Len(b) \in Nat
    BY LenProperties
  <1>2. /\ t \in Seq(S) /\ Len(t) = Len(a) + Len(b)
        /\ \A j \in 1 .. Len(a) + Len(b) :
             t[j] = IF j <= Len(a) THEN a[j] ELSE b[j - Len(a)]
    BY ConcatProperties
  <1>3. ASSUME NEW j \in 1 .. Len(b) PROVE t[Len(a) + j] = b[j]
    <2>1. Len(a) + j \in 1 .. Len(a) + Len(b) /\ ~(Len(a) + j <= Len(a))
      BY <1>1
    <2>2. (Len(a) + j) - Len(a) = j
      BY <1>1
    <2>3. t[Len(a) + j] = b[(Len(a) + j) - Len(a)]
      BY <2>1, <1>2
    <2>4. QED
      BY <2>2, <2>3
  <1>4. \A j \in 1 .. Len(a) : t[j] = a[j]
    BY <1>1, <1>2
  <1>5. QED
    BY <1>1, <1>2, <1>3, <1>4

(* The entries of s from i up to from - 1 replaced by the list mid. *)
Splice(s, i, mid, from) ==
    SubSeq(s, 1, i - 1) \o mid \o SubSeq(s, from, Len(s))

IsSplice(S, s, i, mid, from, t) ==
    /\ t \in Seq(S)
    /\ Len(t) = Len(s) - (from - i) + Len(mid)
    /\ \A j \in 1 .. i - 1 : t[j] = s[j]
    /\ \A j \in 1 .. Len(mid) : t[i - 1 + j] = mid[j]
    /\ \A j \in i + Len(mid) .. Len(t) : t[j] = s[j - Len(mid) + (from - i)]

LEMMA SpliceFacts ==
    ASSUME NEW S, NEW s \in Seq(S), NEW i \in 1 .. Len(s),
           NEW mid \in Seq(S), NEW from \in i + 1 .. Len(s) + 1,
           NEW t, t = Splice(s, i, mid, from)
    PROVE  IsSplice(S, s, i, mid, from, t)
  <1> DEFINE a == SubSeq(s, 1, i - 1)
             b == SubSeq(s, from, Len(s))
  <1>0. Len(s) \in Nat /\ Len(mid) \in Nat /\ \A j \in 1 .. Len(s) : s[j] \in S
    BY ElementOfSeq, LenProperties
  <1>1. a \in Seq(S) /\ Len(a) = i - 1 /\ \A j \in 1 .. i - 1 : a[j] = s[j]
    <2>1. \A j \in 1 .. i - 1 : s[j] \in S
      BY <1>0
    <2>2. /\ a \in Seq(S)
          /\ Len(a) = IF 1 <= i - 1 THEN (i - 1) - 1 + 1 ELSE 0
          /\ \A j \in 1 .. (i - 1) - 1 + 1 : a[j] = s[1 + j - 1]
      BY <2>1, <1>0, SubSeqProperties
    <2>3. QED
      BY <2>2, <1>0
  <1>2. /\ b \in Seq(S) /\ Len(b) = Len(s) - from + 1
        /\ \A j \in 1 .. Len(b) : b[j] = s[from + j - 1]
    <2>1. \A j \in from .. Len(s) : s[j] \in S
      BY <1>0
    <2>2. /\ b \in Seq(S)
          /\ Len(b) = IF from <= Len(s) THEN Len(s) - from + 1 ELSE 0
          /\ \A j \in 1 .. Len(s) - from + 1 : b[j] = s[from + j - 1]
      BY <2>1, <1>0, SubSeqProperties
    <2>3. QED
      BY <2>2, <1>0
  <1> HIDE DEF a, b
  <1> DEFINE c == a \o mid
  <1>c. c = a \o mid
    OBVIOUS
  <1> HIDE DEF c
  <1>3. /\ c \in Seq(S) /\ Len(c) = Len(a) + Len(mid)
        /\ \A j \in 1 .. Len(a) : c[j] = a[j]
        /\ \A j \in 1 .. Len(mid) : c[Len(a) + j] = mid[j]
    <2>1. a \in Seq(S) /\ mid \in Seq(S)
      BY <1>1
    <2>2. QED
      BY ONLY <2>1, <1>c, ConcatFacts
  <1>t. t = c \o b
    BY DEF a, b, c, Splice
  <1>4. /\ t \in Seq(S) /\ Len(t) = Len(c) + Len(b)
        /\ \A j \in 1 .. Len(c) : t[j] = c[j]
        /\ \A j \in 1 .. Len(b) : t[Len(c) + j] = b[j]
    <2>1. c \in Seq(S) /\ b \in Seq(S)
      BY <1>2, <1>3
    <2>2. QED
      BY ONLY <2>1, <1>t, ConcatFacts
  <1>5. /\ Len(a) = i - 1 /\ Len(c) = i - 1 + Len(mid)
        /\ Len(b) = Len(s) - from + 1 /\ Len(t) = Len(s) - (from - i) + Len(mid)
        /\ Len(s) \in Nat /\ Len(mid) \in Nat
    <2>1. Len(c) = Len(a) + Len(mid) /\ Len(t) = Len(c) + Len(b)
      BY <1>3, <1>4
    <2>2. Len(a) = i - 1 /\ Len(b) = Len(s) - from + 1
      BY <1>1, <1>2
    <2>3. QED
      BY ONLY <2>1, <2>2, <1>0
  <1>6. ASSUME NEW j \in 1 .. i - 1 PROVE t[j] = s[j]
    <2>1. j \in 1 .. Len(a) /\ j \in 1 .. Len(c)
      BY ONLY <1>5
    <2>2. QED
      BY <2>1, <1>1, <1>3, <1>4
  <1>7. ASSUME NEW j \in 1 .. Len(mid) PROVE t[i - 1 + j] = mid[j]
    <2>1. Len(a) + j \in 1 .. Len(c)
      BY ONLY <1>5
    <2>2. t[Len(a) + j] = mid[j]
      BY <2>1, <1>3, <1>4
    <2>3. QED
      BY <2>2, <1>1
  <1>8. ASSUME NEW j \in i + Len(mid) .. Len(t)
        PROVE  t[j] = s[j - Len(mid) + (from - i)]
    <2> DEFINE k == j - Len(c)
    <2>1. k \in 1 .. Len(b) /\ Len(c) + k = j
          /\ from + k - 1 = j - Len(mid) + (from - i)
      BY ONLY <1>5
    <2> HIDE DEF k
    <2>2. t[Len(c) + k] = b[k] /\ b[k] = s[from + k - 1]
      BY <2>1, <1>2, <1>4, Zenon
    <2>3. QED
      BY <2>1, <2>2, Zenon
  <1>9. QED
    BY <1>4, <1>5, <1>6, <1>7, <1>8 DEF IsSplice

LEMMA OneFacts ==
    ASSUME NEW S, NEW x \in S, NEW t, t = <<x>>
    PROVE  t \in Seq(S) /\ Len(t) = 1 /\ t[1] = x
  OBVIOUS

LEMMA PairFacts ==
    ASSUME NEW S, NEW x \in S, NEW y \in S, NEW t, t = <<x>> \o <<y>>
    PROVE  t \in Seq(S) /\ Len(t) = 2 /\ t[1] = x /\ t[2] = y
  <1> DEFINE a == <<x>>
             b == <<y>>
  <1>1. /\ a \in Seq(S) /\ Len(a) = 1 /\ a[1] = x
        /\ b \in Seq(S) /\ Len(b) = 1 /\ b[1] = y
    OBVIOUS
  <1>2. t = a \o b
    OBVIOUS
  <1> HIDE DEF a, b
  <1>3. /\ t \in Seq(S) /\ Len(t) = Len(a) + Len(b)
        /\ \A j \in 1 .. Len(a) : t[j] = a[j]
        /\ \A j \in 1 .. Len(b) : t[Len(a) + j] = b[j]
    <2>1. a \in Seq(S) /\ b \in Seq(S)
      BY ONLY <1>1
    <2>2. QED
      BY ONLY <2>1, <1>2, ConcatFacts
  <1>4. 1 \in 1 .. Len(a) /\ 1 \in 1 .. Len(b) /\ Len(a) + 1 = 2
    BY ONLY <1>1
  <1>5. QED
    BY ONLY <1>1, <1>3, <1>4

\* A list without its entry i, as Vec::remove leaves it.
IsRemoved(S, s, i, t) ==
    /\ t \in Seq(S)
    /\ Len(t) = Len(s) - 1
    /\ \A j \in 1 .. Len(t) : t[j] = IF j < i THEN s[j] ELSE s[j + 1]

LEMMA RemoveFacts ==
    ASSUME NEW S, NEW s \in Seq(S), NEW i \in 1 .. Len(s),
           NEW t, t = SubSeq(s, 1, i - 1) \o SubSeq(s, i + 1, Len(s))
    PROVE  IsRemoved(S, s, i, t)
  <1> DEFINE a == SubSeq(s, 1, i - 1)
             b == SubSeq(s, i + 1, Len(s))
  <1>0. Len(s) \in Nat /\ \A j \in 1 .. Len(s) : s[j] \in S
    BY ElementOfSeq, LenProperties
  <1>1. a \in Seq(S) /\ Len(a) = i - 1 /\ \A j \in 1 .. i - 1 : a[j] = s[j]
    <2>1. \A j \in 1 .. i - 1 : s[j] \in S
      BY <1>0
    <2>2. /\ a \in Seq(S)
          /\ Len(a) = IF 1 <= i - 1 THEN (i - 1) - 1 + 1 ELSE 0
          /\ \A j \in 1 .. (i - 1) - 1 + 1 : a[j] = s[1 + j - 1]
      BY <2>1, <1>0, SubSeqProperties
    <2>3. QED
      BY <2>2, <1>0
  <1>2. /\ b \in Seq(S) /\ Len(b) = Len(s) - i
        /\ \A j \in 1 .. Len(b) : b[j] = s[i + j]
    <2>1. \A j \in i + 1 .. Len(s) : s[j] \in S
      BY <1>0
    <2>2. /\ b \in Seq(S)
          /\ Len(b) = IF i + 1 <= Len(s) THEN Len(s) - (i + 1) + 1 ELSE 0
          /\ \A j \in 1 .. Len(s) - (i + 1) + 1 : b[j] = s[(i + 1) + j - 1]
      BY <2>1, <1>0, SubSeqProperties
    <2>3. QED
      BY <2>2, <1>0
  <1>t. t = a \o b
    OBVIOUS
  <1> HIDE DEF a, b
  <1>3. /\ t \in Seq(S) /\ Len(t) = Len(a) + Len(b)
        /\ \A j \in 1 .. Len(a) : t[j] = a[j]
        /\ \A j \in 1 .. Len(b) : t[Len(a) + j] = b[j]
    <2>1. a \in Seq(S) /\ b \in Seq(S)
      BY <1>1, <1>2
    <2>2. QED
      BY ONLY <2>1, <1>t, ConcatFacts
  <1>4. Len(t) = Len(s) - 1
    <2>1. Len(a) = i - 1 /\ Len(b) = Len(s) - i /\ Len(t) = Len(a) + Len(b)
      BY <1>1, <1>2, <1>3, Zenon
    <2>2. QED
      BY ONLY <2>1, <1>0
  <1>5. ASSUME NEW j \in 1 .. Len(t), j < i PROVE t[j] = s[j]
    <2>1. j \in 1 .. i - 1 /\ j \in 1 .. Len(a)
      <3>1. Len(a) = i - 1
        BY <1>1
      <3>2. QED
        BY ONLY <3>1, <1>0, <1>4, <1>5
    <2>2. QED
      BY ONLY <2>1, <1>1, <1>3
  <1>6. ASSUME NEW j \in 1 .. Len(t), ~(j < i) PROVE t[j] = s[j + 1]
    <2> DEFINE k == j - (i - 1)
    <2>1. Len(a) = i - 1 /\ Len(b) = Len(s) - i
      BY <1>1, <1>2
    <2>2. k \in 1 .. Len(b) /\ Len(a) + k = j /\ i + k = j + 1
      BY ONLY <2>1, <1>0, <1>4, <1>6
    <2> HIDE DEF k
    <2>3. t[Len(a) + k] = b[k] /\ b[k] = s[i + k]
      BY ONLY <2>2, <1>2, <1>3
    <2>4. QED
      BY ONLY <2>2, <2>3, SMTT(30)
  <1>7. QED
    BY <1>3, <1>4, <1>5, <1>6, Zenon DEF IsRemoved
=============================================================================
