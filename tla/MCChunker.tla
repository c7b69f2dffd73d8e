----------------------------- MODULE MCChunker -----------------------------
EXTENDS Chunker

\* An overlap above the minimum, as in the default settings; one far below it;
\* none at all.
MCSettings ==
    {[size |-> 5, overlap |-> 3, minimum |-> 2],
     [size |-> 4, overlap |-> 1, minimum |-> 3],
     [size |-> 3, overlap |-> 0, minimum |-> 2]}

UpToTen == 0 .. 10
=============================================================================
