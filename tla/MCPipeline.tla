----------------------------- MODULE MCPipeline -----------------------------
EXTENDS Pipeline, TLC

CONSTANTS blank, long

\* A blank extraction has no chunk; the long text takes two batches of upserts.
MCChunkCount == (blank :> 0) @@ (long :> 2)
=============================================================================
