--------------------------- MODULE ChunkerProofs ---------------------------
(***************************************************************************)
(* Proofs about Chunker, for all settings that __init__ accepts and texts  *)
(* of any length.                                                          *)
(***************************************************************************)
EXTENDS Chunker, TLAPS, SequenceTheorems, WellFoundedInduction

Cuts == [start : 0 .. words, end : 0 .. words]

Typed ==
    /\ settings \in Settings /\ words \in Lengths
    /\ boundaries \in SUBSET (1 .. words - 1)
    /\ pages \in SUBSET (0 .. words - 1) /\ quoted \in SUBSET (0 .. words - 1)
    /\ start \in 0 .. words
    /\ pc \in {"cutting", "merging", "done"}
    /\ ranges \in Seq(Cuts)

\* s is where the chunk after the i-th starts.
Follows(i, s) ==
    \/ s = ranges[i].end - Overlap /\ ranges[i].start < s
    \/ s = ranges[i].start + 1 /\ Size(i) <= Overlap

\* Every chunk but the last is within its bounds and ends before the text does.
Bounded ==
    \A i \in 1 .. Len(ranges) :
        /\ ranges[i].start < ranges[i].end
        /\ i = 1 => ranges[i].start = 0
        /\ i < Len(ranges) \/ pc = "cutting" =>
            /\ Size(i) >= MinimumSize /\ Size(i) <= ChunkSize
            /\ ranges[i].end < words

Linked == \A i \in 1 .. Len(ranges) - 1 : Follows(i, ranges[i + 1].start)

\* Each chunk starts at least one word after the one before.
Spread ==
    \A i, j \in 1 .. Len(ranges) :
        i < j => ranges[j].start - ranges[i].start >= j - i

InSome(rs, w) == \E i \in 1 .. Len(rs) : rs[i].start <= w /\ w < rs[i].end

\* While it cuts, everything before start is in a chunk, and start continues the
\* chain of the chunks.
Cutting ==
    pc = "cutting" =>
        /\ start < words \/ words = 0
        /\ ranges = <<>> => start = 0
        /\ ranges # <<>> => Follows(Len(ranges), start)
        /\ \A i \in 1 .. Len(ranges) : start - ranges[i].start >= Len(ranges) + 1 - i
        /\ \A w \in Nat : w < start => InSome(ranges, w)

\* Afterwards everything is, and the last chunk ends with the text.
Cut ==
    pc # "cutting" =>
        /\ words > 0 => Len(ranges) > 0
        /\ Len(ranges) > 0 =>
            /\ ranges[Len(ranges)].end = words
            /\ pc = "merging" => Size(Len(ranges)) <= ChunkSize
            /\ pc = "done" =>
                /\ Size(Len(ranges)) <= ChunkSize + MinimumSize - 1
                /\ Len(ranges) = 1 \/ Size(Len(ranges)) >= MinimumSize
        /\ \A w \in Nat : w < words => InSome(ranges, w)

\* The inductive invariant.
ChunkInv == Typed /\ Bounded /\ Linked /\ Spread /\ Cutting /\ Cut

-----------------------------------------------------------------------------
\* What the assumptions say of the settings of this chunker.
LEMMA SettingsAreSound ==
    ASSUME Typed
    PROVE  /\ ChunkSize \in Nat /\ Overlap \in Nat /\ MinimumSize \in Nat
           /\ ChunkSize >= 1 /\ MinimumSize >= 1
           /\ Overlap < ChunkSize /\ MinimumSize <= ChunkSize
           /\ words \in Nat
BY SettingsAssumption, LengthsAssumption
   DEF Typed, ChunkSize, Overlap, MinimumSize

\* The parts of the ranges are numbers.
LEMMA RangesAreNumbers ==
    ASSUME Typed, NEW i \in 1 .. Len(ranges)
    PROVE  /\ ranges[i].start \in 0 .. words /\ ranges[i].end \in 0 .. words
           /\ Len(ranges) \in Nat
<1>1. ranges[i] \in Cuts /\ Len(ranges) \in Nat
    BY DEF Typed
<1> QED
    BY <1>1 DEF Cuts

\* A chunker that has cut nothing satisfies the invariant.
LEMMA InitInv == Init => ChunkInv
<1> SUFFICES ASSUME Init PROVE ChunkInv
    OBVIOUS
<1>1. words \in Nat
    BY LengthsAssumption DEF Init
<1>2. Typed
    <2>1. boundaries \in SUBSET (1 .. words - 1)
        BY <1>1 DEF Init
    <2>2. pages \in SUBSET (0 .. words - 1) /\ quoted \in SUBSET (0 .. words - 1)
        BY <1>1 DEF Init
    <2>3. ranges \in Seq(Cuts) /\ start \in 0 .. words
        BY <1>1 DEF Init
    <2> QED
        BY <2>1, <2>2, <2>3 DEF Init, Typed
<1>3. Len(ranges) = 0 /\ pc = "cutting" /\ start = 0
    BY DEF Init
<1>4. Bounded /\ Linked /\ Spread /\ Cut
    BY <1>3 DEF Bounded, Linked, Spread, Cut
<1>5. Cutting
    BY <1>1, <1>3 DEF Cutting, Init
<1> QED
    BY <1>2, <1>4, <1>5 DEF ChunkInv

\* An appended range leaves the others as they are.
LEMMA Appended ==
    ASSUME Typed, NEW r \in Cuts, ranges' = Append(ranges, r)
    PROVE  /\ ranges' \in Seq(Cuts)
           /\ Len(ranges) \in Nat
           /\ Len(ranges') = Len(ranges) + 1
           /\ \A i \in 1 .. Len(ranges) : ranges'[i] = ranges[i]
           /\ ranges'[Len(ranges) + 1] = r
BY AppendProperties DEF Typed

\* What was in a chunk stays in it.
LEMMA StaysInSome ==
    ASSUME Typed, NEW r \in Cuts, ranges' = Append(ranges, r),
           NEW w \in Nat, InSome(ranges, w) \/ (r.start <= w /\ w < r.end)
    PROVE  InSome(ranges', w)
<1>1. CASE InSome(ranges, w)
    BY <1>1, Appended DEF InSome
<1>2. CASE r.start <= w /\ w < r.end
    BY <1>2, Appended DEF InSome
<1> QED
    BY <1>1, <1>2

\* A range that begins at start continues the chain of the ranges.
LEMMA AppendedChain ==
    ASSUME Typed, Linked, Spread, Cutting, pc = "cutting",
           NEW r \in Cuts, r.start = start, ranges' = Append(ranges, r),
           UNCHANGED Overlap
    PROVE  Linked' /\ Spread'
<1> DEFINE n == Len(ranges)
<1>1. /\ ranges \in Seq(Cuts) /\ n \in Nat /\ Len(ranges') = n + 1
      /\ \A i \in 1 .. n : ranges'[i] = ranges[i]
      /\ ranges'[n + 1].start = start
    BY Appended DEF Typed
<1>2. Linked'
    <2> SUFFICES ASSUME NEW i \in 1 .. n PROVE Follows(i, ranges[i + 1].start)'
        BY <1>1 DEF Linked
    <2>1. CASE i < n
        <3>1. Follows(i, ranges[i + 1].start)
            BY <1>1, <2>1 DEF Linked
        <3>2. ranges'[i] = ranges[i] /\ ranges'[i + 1] = ranges[i + 1]
            BY <1>1, <2>1
        <3> QED
            BY <3>1, <3>2 DEF Follows, Size
    <2>2. CASE i = n
        <3>1. Follows(n, start)
            BY <1>1, <2>2 DEF Cutting
        <3>2. ranges'[i] = ranges[n] /\ ranges'[i + 1].start = start
            BY <1>1, <2>2
        <3> QED
            BY <2>2, <3>1, <3>2 DEF Follows, Size
    <2> QED
        BY <1>1, <2>1, <2>2
<1>3. Spread'
    <2> SUFFICES ASSUME NEW i \in 1 .. n + 1, NEW j \in 1 .. n + 1, i < j
                 PROVE  ranges'[j].start - ranges'[i].start >= j - i
        BY <1>1 DEF Spread
    <2>1. i \in 1 .. n /\ ranges'[i] = ranges[i]
        BY <1>1
    <2>2. CASE j \in 1 .. n
        BY <1>1, <2>1, <2>2 DEF Spread
    <2>3. CASE j = n + 1
        <3>1. start - ranges[i].start >= n + 1 - i
            BY <2>1 DEF Cutting
        <3> QED
            BY <1>1, <2>1, <2>3, <3>1
    <2> QED
        BY <1>1, <2>2, <2>3
<1> QED
    BY <1>2, <1>3

\* Cutting one more chunk keeps the invariant.
LEMMA CutNextInv ==
    ASSUME ChunkInv, CutNext
    PROVE  ChunkInv'
<1> DEFINE n == Len(ranges)
<1>1. PICK end \in start + 1 .. start + ChunkSize :
        /\ IsPreferredEnd(end)
        /\ ranges' = Append(ranges, [start |-> start, end |-> end])
        /\ start' = NextStart(end)
    BY DEF CutNext
<1> DEFINE r == [start |-> start, end |-> end]
<1>2. /\ pc = "cutting" /\ pc' = "cutting" /\ words - start > ChunkSize
      /\ UNCHANGED <<words, ChunkSize, Overlap, MinimumSize>>
      /\ UNCHANGED <<settings, boundaries, pages, quoted>>
    BY DEF CutNext, text, ChunkSize, Overlap, MinimumSize
<1>3. Typed /\ start \in Nat /\ ranges \in Seq(Cuts)
    BY SettingsAreSound DEF ChunkInv, Typed
<1>4. /\ ChunkSize \in Nat /\ Overlap \in Nat /\ MinimumSize \in Nat /\ words \in Nat
      /\ ChunkSize >= 1 /\ MinimumSize >= 1
      /\ Overlap < ChunkSize /\ MinimumSize <= ChunkSize
    BY <1>3, SettingsAreSound
<1>5. /\ end >= start + MinimumSize /\ end <= start + ChunkSize /\ end < words
      /\ end \in Nat
    BY <1>1, <1>2, <1>3, <1>4 DEF IsPreferredEnd
<1>6. r \in Cuts
    BY <1>3, <1>4, <1>5 DEF Cuts
<1>7. /\ ranges' \in Seq(Cuts) /\ n \in Nat /\ Len(ranges') = n + 1
      /\ \A i \in 1 .. n : ranges'[i] = ranges[i]
      /\ ranges'[n + 1].start = start /\ ranges'[n + 1].end = end
    BY <1>1, <1>3, <1>6, Appended
<1>8. /\ start' > start /\ start' <= end /\ start' \in Nat
      /\ \/ start' = end - Overlap
         \/ start' = start + 1 /\ end - start <= Overlap
    BY <1>1, <1>3, <1>4, <1>5 DEF NextStart, Larger
<1>9. \A i \in 1 .. n : ranges[i].start \in Nat /\ ranges[i].end \in Nat
    BY <1>3, <1>4, RangesAreNumbers
<1>10. Typed'
    <2>1. Cuts' = Cuts
        BY <1>2 DEF Cuts
    <2> QED
        BY <1>2, <1>3, <1>4, <1>5, <1>7, <1>8, <2>1 DEF Typed
<1>11. Bounded'
    <2> SUFFICES ASSUME NEW i \in 1 .. n + 1
                 PROVE  /\ ranges'[i].start < ranges'[i].end
                        /\ i = 1 => ranges'[i].start = 0
                        /\ ranges'[i].end - ranges'[i].start >= MinimumSize
                        /\ ranges'[i].end - ranges'[i].start <= ChunkSize
                        /\ ranges'[i].end < words
        BY <1>2, <1>7 DEF Bounded, Size
    <2>1. CASE i \in 1 .. n
        BY <1>2, <1>7, <2>1 DEF ChunkInv, Bounded, Size
    <2>2. CASE i = n + 1
        <3>1. i = 1 => start = 0
            BY <1>2, <1>3, <1>7, <2>2, EmptySeq DEF ChunkInv, Cutting
        <3> QED
            BY <1>3, <1>4, <1>5, <1>7, <2>2, <3>1
    <2> QED
        BY <1>7, <2>1, <2>2
<1>12. Linked' /\ Spread'
    BY <1>1, <1>2, <1>6, AppendedChain DEF ChunkInv
<1>14. Cutting'
    <2>1. start' < words
        BY <1>4, <1>5, <1>8
    <2>2. ranges' # <<>>
        BY <1>7
    <2>3. Follows(Len(ranges), start)'
        <3>1. /\ ranges'[Len(ranges')].start = start
              /\ ranges'[Len(ranges')].end = end
            BY <1>7
        <3>2. CASE start' = end - Overlap
            BY <1>2, <1>8, <3>1, <3>2 DEF Follows
        <3>3. CASE start' = start + 1 /\ end - start <= Overlap
            BY <1>2, <3>1, <3>3 DEF Follows, Size
        <3> QED
            BY <1>8, <3>2, <3>3
    <2>4. \A i \in 1 .. Len(ranges') : start' - ranges'[i].start >= Len(ranges') + 1 - i
        <3> SUFFICES ASSUME NEW i \in 1 .. n + 1
                     PROVE  start' - ranges'[i].start >= n + 2 - i
            BY <1>7
        <3>1. CASE i \in 1 .. n
            <4>1. start - ranges[i].start >= n + 1 - i /\ ranges'[i] = ranges[i]
                BY <1>2, <1>7, <3>1 DEF ChunkInv, Cutting
            <4> QED
                BY <1>3, <1>7, <1>8, <1>9, <3>1, <4>1
        <3>2. CASE i = n + 1
            BY <1>3, <1>7, <1>8, <3>2
        <3> QED
            BY <1>7, <3>1, <3>2
    <2>5. ASSUME NEW w \in Nat, w < start' PROVE InSome(ranges', w)
        <3>1. InSome(ranges, w) \/ (r.start <= w /\ w < r.end)
            <4>1. CASE w < start
                BY <1>2, <1>3, <2>5, <4>1 DEF ChunkInv, Cutting
            <4>2. CASE w >= start
                BY <1>5, <1>8, <2>5, <4>2
            <4> QED
                BY <1>3, <2>5, <4>1, <4>2
        <3> QED
            BY <1>1, <1>3, <1>6, <2>5, <3>1, StaysInSome
    <2> QED
        BY <1>2, <2>1, <2>2, <2>3, <2>4, <2>5 DEF Cutting
<1>15. Cut'
    BY <1>2 DEF Cut
<1> QED
    BY <1>10, <1>11, <1>12, <1>14, <1>15 DEF ChunkInv

\* Cutting the rest of the text keeps the invariant.
LEMMA CutRestInv ==
    ASSUME ChunkInv, CutRest
    PROVE  ChunkInv'
<1> DEFINE n == Len(ranges)
           r == [start |-> start, end |-> words]
<1>2. /\ pc = "cutting" /\ pc' = "merging" /\ words - start <= ChunkSize /\ start < words
      /\ ranges' = Append(ranges, r) /\ start' = start
      /\ UNCHANGED <<words, ChunkSize, Overlap, MinimumSize>>
      /\ UNCHANGED <<settings, boundaries, pages, quoted>>
    BY DEF CutRest, text, ChunkSize, Overlap, MinimumSize
<1>3. Typed /\ start \in Nat /\ ranges \in Seq(Cuts) /\ words \in Nat
    BY SettingsAreSound DEF ChunkInv, Typed
<1>6. r \in Cuts
    BY <1>2, <1>3 DEF Cuts
<1>7. /\ ranges' \in Seq(Cuts) /\ n \in Nat /\ Len(ranges') = n + 1
      /\ \A i \in 1 .. n : ranges'[i] = ranges[i]
      /\ ranges'[n + 1].start = start /\ ranges'[n + 1].end = words
    BY <1>2, <1>3, <1>6, Appended
<1>9. \A i \in 1 .. n : ranges[i].start \in Nat /\ ranges[i].end \in Nat
    BY <1>3, RangesAreNumbers
<1>10. Typed'
    <2>1. Cuts' = Cuts
        BY <1>2 DEF Cuts
    <2> QED
        BY <1>2, <1>3, <1>7, <2>1 DEF Typed
<1>11. Bounded'
    <2> SUFFICES ASSUME NEW i \in 1 .. n + 1
                 PROVE  /\ ranges'[i].start < ranges'[i].end
                        /\ i = 1 => ranges'[i].start = 0
                        /\ i < n + 1 =>
                            /\ ranges'[i].end - ranges'[i].start >= MinimumSize
                            /\ ranges'[i].end - ranges'[i].start <= ChunkSize
                            /\ ranges'[i].end < words
        BY <1>2, <1>7 DEF Bounded, Size
    <2>1. CASE i \in 1 .. n
        BY <1>2, <1>7, <2>1 DEF ChunkInv, Bounded, Size
    <2>2. CASE i = n + 1
        <3>1. i = 1 => start = 0
            BY <1>2, <1>3, <1>7, <2>2, EmptySeq DEF ChunkInv, Cutting
        <3> QED
            BY <1>2, <1>3, <1>7, <2>2, <3>1
    <2> QED
        BY <1>7, <2>1, <2>2
<1>12. Linked' /\ Spread'
    BY <1>2, <1>6, AppendedChain DEF ChunkInv
<1>14. Cutting'
    BY <1>2 DEF Cutting
<1>15. Cut'
    <2>1. Size(Len(ranges))' <= ChunkSize
        BY <1>2, <1>7 DEF Size
    <2>2. ASSUME NEW w \in Nat, w < words PROVE InSome(ranges', w)
        <3>1. InSome(ranges, w) \/ (r.start <= w /\ w < r.end)
            <4>1. CASE w < start
                BY <1>2, <2>2, <4>1 DEF ChunkInv, Cutting
            <4>2. CASE w >= start
                BY <2>2, <4>2
            <4> QED
                BY <1>3, <4>1, <4>2
        <3> QED
            BY <1>2, <1>3, <1>6, <2>2, <3>1, StaysInSome
    <2> QED
        BY <1>2, <1>7, <2>1, <2>2 DEF Cut
<1> QED
    BY <1>10, <1>11, <1>12, <1>14, <1>15 DEF ChunkInv

\* An empty text is answered at once.
LEMMA ReturnNoneInv ==
    ASSUME ChunkInv, ReturnNone
    PROVE  ChunkInv'
<1>1. /\ pc = "cutting" /\ words = 0 /\ pc' = "done"
      /\ UNCHANGED <<settings, words, boundaries, pages, quoted, start, ranges>>
      /\ UNCHANGED <<ChunkSize, Overlap, MinimumSize>>
    BY DEF ReturnNone, text, ChunkSize, Overlap, MinimumSize
<1>2. Typed /\ Len(ranges) \in Nat
    BY DEF ChunkInv, Typed
<1>3. Len(ranges) = 0
    <2> SUFFICES ASSUME Len(ranges) > 0 PROVE FALSE
        BY <1>2
    <2>1. ranges[1].end < 0 /\ ranges[1].end \in 0 .. words
        BY <1>1, <1>2, RangesAreNumbers DEF ChunkInv, Bounded
    <2> QED
        BY <1>1, <2>1
<1>4. Typed'
    BY <1>1, <1>2 DEF Typed, Cuts
<1>5. Bounded' /\ Linked' /\ Spread' /\ Cutting'
    BY <1>1, <1>3 DEF Bounded, Linked, Spread, Cutting
<1>6. Cut'
    BY <1>1, <1>3 DEF Cut
<1> QED
    BY <1>4, <1>5, <1>6 DEF ChunkInv

\* What the merge of a short last range leaves.
LEMMA MergeResult ==
    ASSUME ChunkInv, pc = "merging", Len(ranges) > 1,
           Size(Len(ranges)) < MinimumSize
    PROVE  /\ Merged \in Seq(Cuts)
           /\ Len(Merged) = Len(ranges) - 1
           /\ \A i \in 1 .. Len(ranges) - 2 : Merged[i] = ranges[i]
           /\ Merged[Len(ranges) - 1].start = ranges[Len(ranges) - 1].start
           /\ Merged[Len(ranges) - 1].end = words
<1> DEFINE n == Len(ranges)
           front == SubSeq(ranges, 1, n - 2)
           last == [start |-> ranges[n - 1].start, end |-> ranges[n].end]
<1>1. n \in Nat /\ ranges \in Seq(Cuts) /\ n > 1
    BY DEF ChunkInv, Typed
<1>2. Merged = Append(front, last)
    BY DEF Merged, Size
<1>3. \A i \in 1 .. n : ranges[i] \in Cuts
    BY <1>1
<1>4. /\ front \in Seq(Cuts) /\ Len(front) = n - 2
      /\ \A i \in 1 .. n - 2 : front[i] = ranges[i]
    <2>1. /\ front \in Seq(Cuts)
          /\ Len(front) = IF 1 <= n - 2 THEN (n - 2) - 1 + 1 ELSE 0
          /\ \A i \in 1 .. (n - 2) - 1 + 1 : front[i] = ranges[1 + i - 1]
        <3>1. \A i \in 1 .. n - 2 : ranges[i] \in Cuts
            BY <1>1, <1>3
        <3> HIDE DEF n
        <3> QED
            BY <1>1, <3>1, SubSeqProperties
    <2> HIDE DEF n, front
    <2>2. \A i \in 1 .. n - 2 : i \in 1 .. (n - 2) - 1 + 1 /\ 1 + i - 1 = i
        BY <1>1
    <2>3. Len(front) = n - 2
        BY <1>1, <2>1
    <2> QED
        BY <2>1, <2>2, <2>3
<1>5. last \in Cuts
    BY <1>1, <1>3 DEF Cuts
<1>6. ranges[n].end = words
    BY <1>1 DEF ChunkInv, Cut
<1> HIDE DEF front, last
<1>7. /\ Merged \in Seq(Cuts) /\ Len(Merged) = n - 1
      /\ \A i \in 1 .. n - 2 : Merged[i] = front[i]
      /\ Merged[n - 1] = last
    BY <1>1, <1>2, <1>4, <1>5, AppendProperties
<1> QED
    BY <1>4, <1>6, <1>7 DEF last

\* Returning the chunks keeps the invariant.
LEMMA ReturnInv ==
    ASSUME ChunkInv, Return
    PROVE  ChunkInv'
<1> DEFINE n == Len(ranges)
<1>1. /\ pc = "merging" /\ pc' = "done" /\ ranges' = Merged
      /\ UNCHANGED <<settings, words, boundaries, pages, quoted, start>>
      /\ UNCHANGED <<ChunkSize, Overlap, MinimumSize, Cuts>>
    BY DEF Return, text, ChunkSize, Overlap, MinimumSize, Cuts
<1>2. Typed /\ n \in Nat /\ ranges \in Seq(Cuts)
    BY DEF ChunkInv, Typed
<1>3. /\ ChunkSize \in Nat /\ Overlap \in Nat /\ MinimumSize \in Nat /\ words \in Nat
      /\ ChunkSize >= 1 /\ MinimumSize >= 1
    BY <1>2, SettingsAreSound
<1>4. \A i \in 1 .. n : ranges[i].start \in Nat /\ ranges[i].end \in Nat
    BY <1>2, <1>3, RangesAreNumbers
<1>5. Cutting'
    BY <1>1 DEF Cutting
<1>6. CASE n > 1 /\ Size(n) < MinimumSize
    <2>1. /\ ranges' \in Seq(Cuts) /\ Len(ranges') = n - 1
          /\ \A i \in 1 .. n - 2 : ranges'[i] = ranges[i]
          /\ ranges'[n - 1].start = ranges[n - 1].start
          /\ ranges'[n - 1].end = words
        BY <1>1, <1>6, MergeResult
    <2>2. /\ Size(n - 1) >= MinimumSize /\ Size(n - 1) <= ChunkSize
          /\ ranges[n - 1].end < words /\ ranges[n].end = words
          /\ ranges[n].start <= ranges[n - 1].end
        <3>1. /\ Size(n - 1) >= MinimumSize /\ Size(n - 1) <= ChunkSize
              /\ ranges[n - 1].end < words /\ ranges[n - 1].start < ranges[n - 1].end
            BY <1>2, <1>6 DEF ChunkInv, Bounded
        <3>2. ranges[n].end = words
            BY <1>1, <1>6 DEF ChunkInv, Cut
        <3>3. Follows(n - 1, ranges[n].start)
            BY <1>2, <1>6 DEF ChunkInv, Linked
        <3> QED
            BY <1>2, <1>3, <1>4, <1>6, <3>1, <3>2, <3>3 DEF Follows
    <2>3. Typed'
        BY <1>1, <1>2, <2>1 DEF Typed
    <2>4. Bounded'
        <3> SUFFICES ASSUME NEW i \in 1 .. n - 1
                     PROVE  /\ ranges'[i].start < ranges'[i].end
                            /\ i = 1 => ranges'[i].start = 0
                            /\ i < n - 1 =>
                                /\ ranges'[i].end - ranges'[i].start >= MinimumSize
                                /\ ranges'[i].end - ranges'[i].start <= ChunkSize
                                /\ ranges'[i].end < words
            BY <1>1, <2>1 DEF Bounded, Size
        <3>1. CASE i < n - 1
            BY <1>2, <2>1, <3>1 DEF ChunkInv, Bounded, Size
        <3>2. CASE i = n - 1
            BY <1>2, <1>3, <1>4, <1>6, <2>1, <2>2, <3>2 DEF ChunkInv, Bounded, Size
        <3> QED
            BY <1>2, <3>1, <3>2
    <2>5. Linked'
        <3> SUFFICES ASSUME NEW i \in 1 .. n - 2
                     PROVE  Follows(i, ranges[i + 1].start)'
            BY <1>2, <2>1 DEF Linked
        <3>1. Follows(i, ranges[i + 1].start)
            BY <1>2 DEF ChunkInv, Linked
        <3>2. ranges'[i] = ranges[i] /\ ranges'[i + 1].start = ranges[i + 1].start
            BY <1>2, <2>1
        <3> QED
            BY <1>1, <3>1, <3>2 DEF Follows, Size
    <2>6. Spread'
        <3> SUFFICES ASSUME NEW i \in 1 .. n - 1, NEW j \in 1 .. n - 1, i < j
                     PROVE  ranges'[j].start - ranges'[i].start >= j - i
            BY <2>1 DEF Spread
        <3>1. \A k \in 1 .. n - 1 : ranges'[k].start = ranges[k].start
            <4> SUFFICES ASSUME NEW k \in 1 .. n - 1
                         PROVE  ranges'[k].start = ranges[k].start
                OBVIOUS
            <4>1. CASE k \in 1 .. n - 2
                BY <2>1, <4>1
            <4>2. CASE k = n - 1
                BY <2>1, <4>2
            <4> QED
                BY <1>2, <4>1, <4>2
        <3>2. ranges[j].start - ranges[i].start >= j - i
            BY <1>2 DEF ChunkInv, Spread
        <3> QED
            BY <3>1, <3>2
    <2>7. Cut'
        <3>1. /\ Size(Len(ranges))' <= ChunkSize + MinimumSize - 1
              /\ Size(Len(ranges))' >= MinimumSize
            <4>1. Size(Len(ranges))' = words - ranges[n - 1].start
                BY <1>2, <1>6, <2>1 DEF Size
            <4>2. /\ n - 1 \in 1 .. n /\ n \in 1 .. n
                  /\ Size(n) = words - ranges[n].start
                  /\ Size(n - 1) = ranges[n - 1].end - ranges[n - 1].start
                BY <1>2, <1>6, <2>2 DEF Size
            <4>3. /\ ranges[n].start \in Nat
                  /\ ranges[n - 1].start \in Nat /\ ranges[n - 1].end \in Nat
                BY <1>4, <4>2
            <4>4. /\ words - ranges[n].start < MinimumSize
                  /\ ranges[n - 1].end - ranges[n - 1].start >= MinimumSize
                  /\ ranges[n - 1].end - ranges[n - 1].start <= ChunkSize
                BY <1>6, <2>2, <4>2
            <4>5. /\ words - ranges[n - 1].start <= ChunkSize + MinimumSize - 1
                  /\ words - ranges[n - 1].start >= MinimumSize
                BY <1>3, <2>2, <4>3, <4>4
            <4> QED
                BY <4>1, <4>5
        <3>2. ASSUME NEW w \in Nat, w < words PROVE InSome(ranges', w)
            <4>1. PICK i \in 1 .. n : ranges[i].start <= w /\ w < ranges[i].end
                BY <1>1, <3>2 DEF ChunkInv, Cut, InSome
            <4>2. CASE i < n - 1
                BY <1>2, <2>1, <4>1, <4>2 DEF InSome
            <4>3. CASE i >= n - 1
                <5>1. ranges[n - 1].start <= w
                    <6>1. ranges[n - 1].start <= ranges[n].start
                        BY <1>2, <1>4, <1>6 DEF ChunkInv, Spread
                    <6> QED
                        BY <1>2, <1>4, <1>6, <4>1, <4>3, <6>1
                <5> QED
                    BY <1>2, <1>6, <2>1, <3>2, <5>1 DEF InSome
            <4> QED
                BY <1>2, <4>2, <4>3
        <3> QED
            BY <1>1, <1>2, <1>6, <2>1, <3>1, <3>2 DEF Cut
    <2> QED
        BY <1>5, <2>3, <2>4, <2>5, <2>6, <2>7 DEF ChunkInv
<1>7. CASE ~(n > 1 /\ Size(n) < MinimumSize)
    <2>1. ranges' = ranges
        BY <1>1, <1>7 DEF Merged, Size
    <2>2. Typed' /\ Linked' /\ Spread'
        BY <1>1, <1>2, <2>1 DEF ChunkInv, Typed, Linked, Spread, Follows, Size
    <2>3. Bounded'
        BY <1>1, <2>1 DEF ChunkInv, Bounded, Size
    <2>4. Cut'
        <3>1. words > 0 => n > 0
            BY <1>1 DEF ChunkInv, Cut
        <3>2. ASSUME n > 0
              PROVE  /\ ranges[n].end = words
                     /\ Size(n) <= ChunkSize + MinimumSize - 1
                     /\ n = 1 \/ Size(n) >= MinimumSize
            <4>1. ranges[n].end = words /\ Size(n) <= ChunkSize
                BY <1>1, <3>2 DEF ChunkInv, Cut
            <4>2. Size(n) \in Int
                BY <1>2, <1>4, <3>2 DEF Size
            <4>3. n = 1 \/ Size(n) >= MinimumSize
                <5>1. CASE n > 1
                    <6>1. ~(Size(n) < MinimumSize)
                        BY <1>7, <5>1
                    <6> QED
                        BY <1>3, <4>2, <6>1
                <5>2. n = 1 \/ n > 1
                    BY <1>2, <3>2
                <5> QED
                    BY <5>1, <5>2
            <4>4. Size(n) <= ChunkSize + MinimumSize - 1
                BY <1>3, <4>1, <4>2
            <4> QED
                BY <4>1, <4>3, <4>4
        <3>3. \A w \in Nat : w < words => InSome(ranges, w)
            BY <1>1 DEF ChunkInv, Cut
        <3> QED
            BY <1>1, <2>1, <3>1, <3>2, <3>3 DEF Cut, Size
    <2> QED
        BY <1>5, <2>2, <2>3, <2>4 DEF ChunkInv
<1> QED
    BY <1>6, <1>7

\* Every step of the chunker keeps the invariant.
LEMMA StepInv == ChunkInv /\ [Next]_vars => ChunkInv'
<1> SUFFICES ASSUME ChunkInv, [Next]_vars PROVE ChunkInv'
    OBVIOUS
<1>1. CASE ReturnNone
    BY <1>1, ReturnNoneInv
<1>2. CASE CutRest
    BY <1>2, CutRestInv
<1>3. CASE CutNext
    BY <1>3, CutNextInv
<1>4. CASE Return
    BY <1>4, ReturnInv
<1>5. CASE UNCHANGED vars
    <2>1. UNCHANGED <<settings, words, boundaries, pages, quoted, start, ranges, pc>>
        BY <1>5 DEF vars, text
    <2> QED
        BY <2>1 DEF ChunkInv, Typed, Cuts, Bounded, Linked, Spread, Follows, Cutting,
           Cut, Size, ChunkSize, Overlap, MinimumSize
<1> QED
    BY <1>1, <1>2, <1>3, <1>4, <1>5 DEF Next

\* The invariant holds of every chunker at every step.
LEMMA ChunkInvHolds == Spec => []ChunkInv
BY InitInv, StepInv, PTL DEF Spec

-----------------------------------------------------------------------------
\* The settings bound every chunk from both sides, for all settings and texts.
THEOREM ChunksAreBounded == Spec => []TypeOK
<1>1. ChunkInv => TypeOK
    <2> SUFFICES ASSUME ChunkInv PROVE TypeOK
        OBVIOUS
    <2>1. /\ Typed /\ Len(ranges) \in Nat
          /\ ChunkSize \in Nat /\ MinimumSize \in Nat /\ words \in Nat
        BY SettingsAreSound DEF ChunkInv, Typed
    <2>2. ASSUME pc = "done", NEW i \in 1 .. Len(ranges)
          PROVE  /\ Size(i) <= ChunkSize +
                       (IF i = Len(ranges) THEN MinimumSize - 1 ELSE 0)
                 /\ Size(i) >= MinimumSize \/ Size(i) = words
        <3>1. CASE i < Len(ranges)
            BY <2>1, <3>1 DEF ChunkInv, Bounded
        <3>2. CASE i = Len(ranges)
            <4>1. /\ Size(i) <= ChunkSize + MinimumSize - 1
                  /\ i = 1 \/ Size(i) >= MinimumSize
                  /\ ranges[i].end = words
                BY <2>1, <2>2, <3>2 DEF ChunkInv, Cut
            <4>2. i = 1 => Size(i) = words
                BY <2>1, <4>1 DEF ChunkInv, Bounded, Size
            <4> QED
                BY <3>2, <4>1, <4>2
        <3> QED
            BY <2>1, <3>1, <3>2
    <2> QED
        BY <2>1, <2>2 DEF TypeOK, Typed, Cuts
<1> QED
    BY <1>1, ChunkInvHolds, PTL

\* For all settings and texts, no word is lost, the chunks are in order and overlap
\* as the settings say.
THEOREM NoWordIsLost == Spec => []NothingLost
<1>1. ChunkInv => NothingLost
    <2> SUFFICES ASSUME ChunkInv, pc = "done" PROVE NothingLost
        BY DEF NothingLost
    <2>1. words \in Nat /\ Len(ranges) \in Nat
        BY SettingsAreSound DEF ChunkInv, Typed
    <2>2. \A w \in 0 .. words - 1 : InSome(ranges, w)
        BY <2>1 DEF ChunkInv, Cut
    <2>3. ASSUME NEW i \in 1 .. Len(ranges) - 1
          PROVE  /\ ranges[i].start < ranges[i + 1].start
                 /\ \/ ranges[i + 1].start = ranges[i].end - Overlap
                    \/ ranges[i + 1].start = ranges[i].start + 1 /\ Size(i) <= Overlap
        <3>1. Follows(i, ranges[i + 1].start)
            BY DEF ChunkInv, Linked
        <3>2. ranges[i].start \in Nat
            BY <2>1, RangesAreNumbers DEF ChunkInv
        <3> QED
            BY <3>1, <3>2 DEF Follows
    <2> QED
        BY <2>2, <2>3 DEF NothingLost, InSome
<1> QED
    BY <1>1, ChunkInvHolds, PTL

\* For all settings and texts, at most Overlap - MinimumSize + 1 chunks in a row add
\* no word to the one before: none at all when the overlap is below the minimum.
THEOREM RepeatsAreFew == Spec => []FewRepeats
<1>1. ChunkInv => FewRepeats
    <2> SUFFICES ASSUME ChunkInv,
                        NEW i \in 1 .. Len(ranges), NEW j \in 1 .. Len(ranges),
                        i < j, ranges[i].end = ranges[j].end
                 PROVE  j - i <= Overlap - MinimumSize + 1
        BY DEF FewRepeats
    <2>1. /\ Typed /\ Len(ranges) \in Nat /\ words \in Nat
          /\ Overlap \in Nat /\ MinimumSize \in Nat
        BY SettingsAreSound DEF ChunkInv, Typed
    <2>2. i + 1 \in 1 .. Len(ranges)
        BY <2>1
    <2>3. /\ ranges[i].start \in Nat /\ ranges[i].end \in Nat
          /\ ranges[i + 1].start \in Nat
          /\ ranges[j].start \in Nat /\ ranges[j].end \in Nat
        BY <2>1, <2>2, RangesAreNumbers
    <2>4. ranges[i].end < words
        BY <2>1 DEF ChunkInv, Bounded
    <2>5. j < Len(ranges) \/ pc = "cutting"
        BY <2>1, <2>4 DEF ChunkInv, Cut
    <2>6. ranges[j].end - ranges[j].start >= MinimumSize
        BY <2>5 DEF ChunkInv, Bounded, Size
    <2>7. ranges[i + 1].start >= ranges[i].end - Overlap
        <3>1. Follows(i, ranges[i + 1].start)
            BY <2>1 DEF ChunkInv, Linked
        <3> QED
            BY <2>1, <2>3, <3>1 DEF Follows, Size
    <2>8. ranges[j].start - ranges[i + 1].start >= j - (i + 1)
        <3>1. CASE i + 1 = j
            BY <2>3, <3>1
        <3>2. CASE i + 1 < j
            BY <2>2, <3>2 DEF ChunkInv, Spread
        <3> QED
            BY <3>1, <3>2
    <2> QED
        BY <2>1, <2>3, <2>6, <2>7, <2>8
<1> QED
    BY <1>1, ChunkInvHolds, PTL

-----------------------------------------------------------------------------
(* The labels *)

\* A nonempty set of numbers has a least member.
LEMMA LeastExists ==
    ASSUME NEW S \in SUBSET Nat, S # {}
    PROVE  \E p \in S : IsFirst(p, S)
<1>1. PICK p \in S : \A q \in S : ~(<<q, p>> \in OpToRel(<, Nat))
    BY NatLessThanWellFounded, WFMin
<1>2. ASSUME NEW q \in S, q < p PROVE FALSE
    <2>1. <<q, p>> \in Nat \X Nat
        OBVIOUS
    <2>2. <<q, p>> \in OpToRel(<, Nat)
        BY <1>2, <2>1, Zenon DEF OpToRel
    <2> QED
        BY <1>1, <2>2
<1> QED
    BY <1>2 DEF IsFirst

\* A nonempty set of numbers below a bound has a greatest member.
LEMMA GreatestExists ==
    ASSUME NEW n \in Nat, NEW S \in SUBSET (0 .. n), S # {}
    PROVE  \E p \in S : IsLast(p, S)
<1> DEFINE Bounds == {b \in Nat : \A q \in S : q <= b}
<1>1. PICK b \in Bounds : IsFirst(b, Bounds)
    <2>1. n \in Bounds
        OBVIOUS
    <2> QED
        BY <2>1, LeastExists
<1>2. b \in S
    <2> SUFFICES ASSUME b \notin S PROVE FALSE
        OBVIOUS
    <2>1. \A q \in S : q <= b - 1
        OBVIOUS
    <2>2. b # 0
        <3>1. PICK q \in S : TRUE
            OBVIOUS
        <3> QED
            BY <3>1
    <2>3. b - 1 \in Bounds
        BY <2>1, <2>2
    <2> QED
        BY <1>1, <2>3 DEF IsFirst
<1> QED
    BY <1>2 DEF IsLast

\* The page named by the last line of a nonempty set of page lines closed downwards
\* is the number of its lines.
LEMMA NamedLast ==
    ASSUME Typed, quoted = {}, NEW S \in SUBSET pages, S # {},
           \A p \in S, q \in pages : q <= p => q \in S
    PROVE  Named(CHOOSE p \in S : IsLast(p, S)) = Cardinality(S)
<1> DEFINE p == CHOOSE p \in S : IsLast(p, S)
<1>1. words \in Nat
    BY LengthsAssumption DEF Typed
<1>2. \E q \in S : IsLast(q, S)
    <2>1. S \in SUBSET (0 .. words)
        BY <1>1 DEF Typed
    <2> QED
        BY <1>1, <2>1, GreatestExists
<1>3. p \in S /\ IsLast(p, S)
    BY <1>2
<1>4. S = {q \in pages : q <= p}
    BY <1>3 DEF IsLast
<1>5. Named(p) = Cardinality({q \in pages : q <= p})
    BY DEF Named
<1> HIDE DEF p
<1> QED
    BY <1>4, <1>5 DEF p

\* The label of a chunk: the pages of its first and of its last word.
TrueRange(r) ==
    IF pages = {} THEN [first |-> NoPage, last |-> NoPage]
    ELSE [first |-> Cardinality({p \in pages : p <= r.start}),
          last |-> Cardinality({p \in pages : p < r.end})]

\* The pages of a text with pages begin with it.
PagesBegin == pages = {} \/ 0 \in pages

LEMMA PageRangeIsTrue ==
    ASSUME Typed, PagesBegin, quoted = {}, NEW r \in Cuts, r.start < r.end
    PROVE  PageRange(r) = TrueRange(r)
<1> DEFINE seen == {p \in pages : p < r.end}
           begun == {p \in pages : p <= r.start}
<1>1. /\ words \in Nat /\ pages \subseteq Nat
      /\ r.start \in Nat /\ r.end \in Nat
    BY LengthsAssumption DEF Typed, Cuts
<1>2. /\ seen = {p \in Markers : p < r.end}
      /\ begun = {p \in Markers : p <= r.start}
    BY DEF Markers
<1>3. CASE pages = {}
    BY <1>2, <1>3 DEF PageRange, TrueRange
<1>4. CASE pages # {}
    <2>1. 0 \in seen /\ 0 \in begun
        <3>1. 0 \in pages
            BY <1>4 DEF PagesBegin
        <3> QED
            BY <1>1, <3>1
    <2>2. Named(CHOOSE p \in seen : IsLast(p, seen)) = Cardinality(seen)
        <3>1. \A p \in seen, q \in pages : q <= p => q \in seen
            BY <1>1
        <3> HIDE DEF seen
        <3>2. seen \subseteq pages /\ seen # {}
            BY <2>1 DEF seen
        <3> QED
            BY <3>1, <3>2, NamedLast
    <2>3. Named(CHOOSE p \in begun : IsLast(p, begun)) = Cardinality(begun)
        <3>1. \A p \in begun, q \in pages : q <= p => q \in begun
            BY <1>1
        <3> HIDE DEF begun
        <3>2. begun \subseteq pages /\ begun # {}
            BY <2>1 DEF begun
        <3> QED
            BY <3>1, <3>2, NamedLast
    <2>4. PageRange(r) = [first |-> Named(CHOOSE p \in begun : IsLast(p, begun)),
                          last |-> Named(CHOOSE p \in seen : IsLast(p, seen))]
        BY <1>2, <2>1 DEF PageRange
    <2> QED
        BY <1>4, <2>2, <2>3, <2>4 DEF TrueRange
<1> QED
    BY <1>3, <1>4

\* The result is labelled when the chunker is done, and not before.
LabelInv ==
    /\ PagesBegin
    /\ labels # <<>> => pc = "done"
    /\ quoted = {} => \A i \in DOMAIN labels :
          i \in 1 .. Len(ranges) /\ labels[i] = TrueRange(ranges[i])

LEMMA LabelInvInit == Init => LabelInv
BY DEF Init, LabelInv, PagesBegin

LEMMA LabelInvStep ==
    ChunkInv /\ ChunkInv' /\ LabelInv /\ [Next]_vars => LabelInv'
<1> SUFFICES ASSUME ChunkInv, ChunkInv', LabelInv, [Next]_vars PROVE LabelInv'
    OBVIOUS
<1>1. ASSUME UNCHANGED <<pages, quoted, labels>>, labels = <<>>
      PROVE  LabelInv'
    BY <1>1 DEF LabelInv, PagesBegin
<1>2. CASE ReturnNone \/ CutRest \/ CutNext
    BY <1>1, <1>2 DEF ReturnNone, CutRest, CutNext, text, LabelInv
<1>3. CASE UNCHANGED vars
    BY <1>3 DEF vars, text, LabelInv, PagesBegin, TrueRange
<1>4. CASE Return
    <2>1. /\ ranges' = Merged /\ pc' = "done"
          /\ labels' = [i \in DOMAIN Merged |-> PageRange(Merged[i])]
          /\ UNCHANGED <<pages, quoted, words>>
        BY <1>4 DEF Return, text
    <2>2. ASSUME quoted' = {}, NEW i \in DOMAIN labels'
          PROVE  i \in 1 .. Len(ranges') /\ labels'[i] = TrueRange(ranges[i])'
        <3>1. Merged \in Seq(Cuts)
            BY <2>1 DEF ChunkInv, Typed, Cuts
        <3>2. i \in 1 .. Len(ranges') /\ Merged[i] \in Cuts /\ ranges'[i] = Merged[i]
            BY <2>1, <3>1
        <3>3. Merged[i].start < Merged[i].end
            BY <2>1, <3>2 DEF ChunkInv, Bounded
        <3>4. PageRange(Merged[i]) = TrueRange(Merged[i])
            BY <2>1, <2>2, <3>2, <3>3, PageRangeIsTrue DEF ChunkInv, LabelInv
        <3> QED
            BY <2>1, <3>2, <3>4 DEF TrueRange
    <2> QED
        BY <2>1, <2>2 DEF LabelInv, PagesBegin
<1> QED
    BY <1>2, <1>3, <1>4 DEF Next

\* For all settings and texts, every chunk is labelled with the pages that its first
\* and its last word are on, unless a line of the document reads like a page line.
THEOREM LabelsAreTrue == Spec => []PagesAreTrue
<1>1. LabelInv => PagesAreTrue
    BY DEF LabelInv, PagesAreTrue, TrueRange
<1>2. Spec => []LabelInv
    BY LabelInvInit, LabelInvStep, ChunkInvHolds, PTL DEF Spec
<1> QED
    BY <1>1, <1>2, PTL

-----------------------------------------------------------------------------
(* The loop *)

\* What makes the loop end: each cut moves start on, and start stays in the text, so
\* that there are never more chunks than words, whatever the settings.
THEOREM LoopMovesOn ==
    Spec => /\ [][CutNext => start < start' /\ start' < words]_vars
            /\ [](Len(ranges) <= words)
<1>1. ChunkInv /\ ChunkInv' /\ CutNext => start < start' /\ start' < words
    <2> SUFFICES ASSUME ChunkInv, ChunkInv', CutNext
                 PROVE  start < start' /\ start' < words
        OBVIOUS
    <2>1. /\ Typed /\ Overlap \in Nat /\ ChunkSize \in Nat /\ words \in Nat /\ start \in Nat
          /\ Typed' /\ start' \in Nat
        BY SettingsAreSound DEF ChunkInv, Typed
    <2>2. PICK end \in start + 1 .. start + ChunkSize : start' = NextStart(end)
        BY DEF CutNext
    <2>3. start' >= start + 1
        BY <2>1, <2>2 DEF NextStart, Larger
    <2>4. /\ pc' = "cutting" /\ words' = words
          /\ words > 0
        BY <2>1 DEF CutNext, text
    <2>5. start' < words
        BY <2>4 DEF ChunkInv, Cutting
    <2> QED
        BY <2>1, <2>3, <2>5
<1>2. ChunkInv => Len(ranges) <= words
    <2> SUFFICES ASSUME ChunkInv PROVE Len(ranges) <= words
        OBVIOUS
    <2>1. Typed /\ words \in Nat /\ Len(ranges) \in Nat
        BY SettingsAreSound DEF ChunkInv, Typed
    <2>2. CASE Len(ranges) < 2
        <3>1. ASSUME Len(ranges) = 1 PROVE words >= 1
            <4>1. ranges[1].start \in 0 .. words /\ ranges[1].end \in 0 .. words
                BY <2>1, <3>1, RangesAreNumbers
            <4>2. ranges[1].start < ranges[1].end
                BY <3>1 DEF ChunkInv, Bounded
            <4> QED
                BY <2>1, <4>1, <4>2
        <3>2. Len(ranges) = 0 => Len(ranges) <= words
            BY <2>1
        <3>3. \A n \in Nat : n < 2 => n = 0 \/ n = 1
            OBVIOUS
        <3>4. Len(ranges) = 0 \/ Len(ranges) = 1
            BY <2>1, <2>2, <3>3, Zenon
        <3> QED
            BY <2>1, <3>1, <3>2, <3>4
    <2>3. CASE Len(ranges) >= 2
        <3> DEFINE n == Len(ranges)
        <3>1. /\ 1 \in 1 .. n /\ n \in 1 .. n
              /\ ranges[1].start \in Nat /\ ranges[n].start \in Nat
              /\ ranges[n].end \in 0 .. words
            BY <2>1, <2>3, RangesAreNumbers
        <3>2. ranges[n].start - ranges[1].start >= n - 1
            BY <2>3, <3>1 DEF ChunkInv, Spread
        <3>3. ranges[n].start < ranges[n].end
            BY <3>1 DEF ChunkInv, Bounded
        <3> QED
            BY <2>1, <3>1, <3>2, <3>3
    <2> QED
        BY <2>1, <2>2, <2>3
<1> QED
    BY <1>1, <1>2, ChunkInvHolds, PTL DEF Spec
=============================================================================
