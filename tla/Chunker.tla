------------------------------ MODULE Chunker ------------------------------
(***************************************************************************)
(* DeterministicLegalChunker.chunk                                         *)
(* (backend/app/documents/chunking/deterministic.py): a document's text is *)
(* cut into overlapping runs of words, each labelled with its pages.       *)
(*                                                                         *)
(* A text is its number of words, numbered from 0, with the places where   *)
(* it may be cut: a boundary at c lies between the words c - 1 and c. A    *)
(* line [Page k] is two words, with a boundary before it.                  *)
(***************************************************************************)
EXTENDS Integers, Sequences, FiniteSets

CONSTANTS
    Settings,  \* the settings [size, overlap, minimum] that __init__ is given
    Lengths,   \* word counts of the texts
    NoPage     \* None

\* What __init__ accepts.
ASSUME SettingsAssumption ==
    /\ Settings \subseteq [size : Nat \ {0}, overlap : Nat, minimum : Nat \ {0}]
    /\ \A s \in Settings : s.overlap < s.size /\ s.minimum <= s.size

ASSUME LengthsAssumption == Lengths \subseteq Nat

VARIABLES
    settings,    \* those of this chunker
    words,       \* number of words of the text
    boundaries,  \* paragraph and sentence ends, starts of page lines
    pages,       \* first words of the pages; none in a DOCX
    quoted,      \* first words of lines of a page that read [Page 1] themselves
    start,       \* start_token
    ranges,      \* the ranges cut so far: words start to end - 1
    labels,      \* page range of each chunk of the result
    pc

text == <<settings, words, boundaries, pages, quoted>>
vars == <<text, start, ranges, labels, pc>>

ChunkSize == settings.size
Overlap == settings.overlap
MinimumSize == settings.minimum

Larger(a, b) == IF a >= b THEN a ELSE b

\* A text as render_extracted_text makes it: its pages begin with it, if it has
\* any, and each page with a line of two words between blank lines.
Init ==
    /\ settings \in Settings
    /\ words \in Lengths
    /\ pages \in {P \in SUBSET (0 .. words - 1) : P = {} \/ 0 \in P}
    /\ quoted \in {{}} \cup {{q} : q \in (0 .. words - 1) \ pages}
    /\ \A p \in pages \cup quoted : p + 1 < words /\ p + 1 \notin pages \cup quoted
    /\ \E ends \in SUBSET (1 .. words - 1) :
        boundaries = ends \cup ((1 .. words - 1) \cap
                                (pages \cup quoted \cup {p + 2 : p \in pages}))
    /\ start = 0
    /\ ranges = <<>>
    /\ labels = <<>>
    /\ pc = "cutting"

-----------------------------------------------------------------------------
(* The cuts *)

\* An empty or blank text has no chunks.
ReturnNone ==
    /\ pc = "cutting" /\ words = 0
    /\ pc' = "done"
    /\ UNCHANGED <<text, start, ranges, labels>>

\* What is left fits into one chunk: the loop ends.
CutRest ==
    /\ pc = "cutting"
    /\ start < words /\ words - start <= ChunkSize
    /\ ranges' = Append(ranges, [start |-> start, end |-> words])
    /\ pc' = "merging"
    /\ UNCHANGED <<text, start, labels>>

\* Mutant: the search for a boundary begins with the chunk.
IsPreferredEnd_AnySize(end) ==
    LET candidates == start + 1 .. start + ChunkSize
        preferred == boundaries \cap candidates
    IN IF preferred = {} THEN end = start + ChunkSize
       ELSE end \in preferred /\ \A c \in preferred : c <= end

\* The last boundary that leaves a chunk of at least MinimumSize and at most
\* ChunkSize words; without one, ChunkSize words. (It is always beyond start.)
IsPreferredEnd(end) ==
    LET candidates == start + MinimumSize .. start + ChunkSize
        preferred == boundaries \cap candidates
    IN IF preferred = {} THEN end = start + ChunkSize
       ELSE end \in preferred /\ \A c \in preferred : c <= end

\* Mutant: the next chunk may start where this one does.
NextStart_Stays(end) == Larger(end - Overlap, start)

\* The next chunk repeats the last Overlap words, and always moves on.
NextStart(end) == Larger(end - Overlap, start + 1)

\* One more chunk is cut off.
CutNext ==
    /\ pc = "cutting"
    /\ words - start > ChunkSize
    /\ \E end \in start + 1 .. start + ChunkSize :
        /\ IsPreferredEnd(end)
        /\ ranges' = Append(ranges, [start |-> start, end |-> end])
        /\ start' = NextStart(end)
    /\ UNCHANGED <<text, labels, pc>>

-----------------------------------------------------------------------------
(* The result *)

\* Mutant: the last range is dropped, its words are not added to the one before it.
Merged_KeepsEnd ==
    LET n == Len(ranges)
    IN IF n > 1 /\ ranges[n].end - ranges[n].start < MinimumSize
       THEN SubSeq(ranges, 1, n - 1) ELSE ranges

\* A last range that is too short is joined to the one before it.
Merged ==
    LET n == Len(ranges)
    IN IF n > 1 /\ ranges[n].end - ranges[n].start < MinimumSize
       THEN Append(SubSeq(ranges, 1, n - 2),
                   [start |-> ranges[n - 1].start, end |-> ranges[n].end])
       ELSE ranges

\* The page named by the line at word p: the pages count up, a quoted line says 1.
Named(p) == IF p \in quoted THEN 1 ELSE Cardinality({q \in pages : q <= p})

\* The page lines of the text, its own and the quoted ones alike.
Markers == pages \cup quoted

IsLast(p, S) == p \in S /\ \A q \in S : q <= p
IsFirst(p, S) == p \in S /\ \A q \in S : p <= q

\* Mutant: a page line counts for the chunk that it begins right behind of.
PageRange_EndIncluded(r) ==
    LET seen == {p \in Markers : p <= r.end}
        begun == {p \in Markers : p <= r.start}
    IN IF seen = {} THEN [first |-> NoPage, last |-> NoPage]
       ELSE [first |-> IF begun = {} THEN Named(CHOOSE p \in seen : IsFirst(p, seen))
                       ELSE Named(CHOOSE p \in begun : IsLast(p, begun)),
             last |-> Named(CHOOSE p \in seen : IsLast(p, seen))]

\* _page_range: the last page line at or before the start of the chunk, or else
\* the first one in it, and the last one before its end.
PageRange(r) ==
    LET seen == {p \in Markers : p < r.end}
        begun == {p \in Markers : p <= r.start}
    IN IF seen = {} THEN [first |-> NoPage, last |-> NoPage]
       ELSE [first |-> IF begun = {} THEN Named(CHOOSE p \in seen : IsFirst(p, seen))
                       ELSE Named(CHOOSE p \in begun : IsLast(p, begun)),
             last |-> Named(CHOOSE p \in seen : IsLast(p, seen))]

Return ==
    /\ pc = "merging"
    /\ ranges' = Merged
    /\ labels' = [i \in DOMAIN Merged |-> PageRange(Merged[i])]
    /\ pc' = "done"
    /\ UNCHANGED <<text, start>>

Next == ReturnNone \/ CutRest \/ CutNext \/ Return

Spec == Init /\ [][Next]_vars

-----------------------------------------------------------------------------
(* Properties *)

Size(i) == ranges[i].end - ranges[i].start

\* Types; "target size is a soft upper bound" (and test_chunking.py:32): only
\* the last chunk may exceed ChunkSize, by less than MinimumSize, and only a text
\* shorter than MinimumSize makes a chunk that is.
TypeOK ==
    /\ settings \in Settings /\ words \in Lengths
    /\ boundaries \in SUBSET (1 .. words - 1)
    /\ pages \in SUBSET (0 .. words - 1) /\ quoted \in SUBSET (0 .. words - 1)
    /\ start \in 0 .. words
    /\ pc \in {"cutting", "merging", "done"}
    /\ ranges \in Seq([start : 0 .. words, end : 0 .. words])
    /\ pc = "done" =>
        \A i \in 1 .. Len(ranges) :
            /\ Size(i) <= ChunkSize + (IF i = Len(ranges) THEN MinimumSize - 1 ELSE 0)
            /\ Size(i) >= MinimumSize \/ Size(i) = words

\* "Legal content is never discarded": every word of the text is in a chunk. The
\* chunks are in the order of the text, and each begins with the last Overlap words
\* of the one before it, or one word behind the start of one that is shorter.
NothingLost ==
    pc = "done" =>
        /\ \A w \in 0 .. words - 1 :
            \E i \in 1 .. Len(ranges) : ranges[i].start <= w /\ w < ranges[i].end
        /\ \A i \in 1 .. Len(ranges) - 1 :
            /\ ranges[i].start < ranges[i + 1].start
            /\ \/ ranges[i + 1].start = ranges[i].end - Overlap
               \/ ranges[i + 1].start = ranges[i].start + 1 /\ Size(i) <= Overlap

\* A chunk can be no more than the tail of the chunk before it: when the overlap
\* reaches back behind a boundary that the next chunk then ends at again. It
\* takes Overlap >= MinimumSize, as in the default settings, and at most
\* Overlap - MinimumSize + 1 such chunks follow each other.
FewRepeats ==
    \A i, j \in 1 .. Len(ranges) :
        i < j /\ ranges[i].end = ranges[j].end =>
            j - i <= Overlap - MinimumSize + 1

\* A chunk is labelled with the pages of its first and its last word, as long as no
\* line of the document itself reads like a page line.
PagesAreTrue ==
    quoted = {} =>
        \A i \in DOMAIN labels :
            labels[i] =
                IF pages = {} THEN [first |-> NoPage, last |-> NoPage]
                ELSE [first |-> Cardinality({p \in pages : p <= ranges[i].start}),
                      last |-> Cardinality({p \in pages : p < ranges[i].end})]
=============================================================================
