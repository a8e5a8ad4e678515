--------------------------- MODULE MCChunkManager ---------------------------
(***************************************************************************)
(* Small instances of ChunkManager for TLC.                                *)
(***************************************************************************)
EXTENDS ChunkProperties, TLC

CONSTANTS c1, c2

R(first, last) == [start |-> first, end |-> last]

OneCaller  == {c1}
TwoCallers == {c1, c2}

\* A file of three bytes as one chunk, shrunk to a prefix or to its middle.
ResizeRanges == {R(0, 2), R(0, 1), R(1, 1)}
ResizeStarts == {R(0, 2)}
ResizePairs  == {<<R(0, 2), R(0, 1)>>, <<R(0, 2), R(1, 1)>>, <<R(0, 1), R(1, 1)>>}

NoneRecovered == <<>>
ResizeOps == {"cancel", "delete", "waitFirst"}

\* Two callers on a chunk of unknown size, two ways to shrink it, and a chunk
\* that was recovered from an earlier process.
SharedRanges    == {R(0, 0), R(1, None), R(1, 1), R(3, None)}
SharedStarts    == {R(1, None), R(0, 0)}
SharedPairs     == {<<R(1, None), R(1, 1)>>, <<R(1, None), R(3, None)>>}
SharedRecovered == <<R(0, 0)>>
SharedOps       == {"cancel", "delete", "waitTimed"}
ShutdownOps     == {"cancel", "delete", "waitAll", "cancelAll", "close", "cleanup"}

\* Two callers who may shut the manager down.
ShutdownRanges == {R(0, 0), R(1, 2), R(1, 1)}
ShutdownStarts == {R(1, 2), R(0, 0)}
ShutdownPairs  == {<<R(1, 2), R(1, 1)>>}

\* What the findings need: one rule of AllManners not kept, or nothing but a
\* crop that fails, or a chunk that runs to the end of a file of known size.
OrphanOps  == {"cancel", "waitFirst", "close"}
RudeOnBusy == AllManners \ {"busy"}
PlainOps   == {"cancel"}
CropRanges == {R(0, 2), R(1, 1)}
CropPairs  == {<<R(0, 2), R(1, 1)>>}
TailRanges == {R(0, None), R(1, None)}
TailStarts == {R(0, None)}
TailPairs  == {<<R(0, None), R(1, None)>>}
\* The smallest file with a chunk to shrink, for the liveness properties.
PairRanges  == {R(0, 1), R(1, 1)}
PairStarts  == {R(0, 1)}
PairResizes == {<<R(0, 1), R(1, 1)>>}
LivenessOps == {"cancel", "waitAll", "close"}

CallerSymmetry == Permutations(TwoCallers)
=============================================================================
