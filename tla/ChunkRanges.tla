---------------------------- MODULE ChunkRanges ----------------------------
(***************************************************************************)
(* The byte ranges every other component is keyed by: ChunkRange and the   *)
(* two helpers that read a range against the size of the file.  A range is *)
(* inclusive on both ends and an end of None stands for "until EOF".       *)
(***************************************************************************)
EXTENDS Integers

\* Python's None, for an open end and for an unknown size.
None == -1

ChunkRange == [start : Nat, end : Nat \union {None}]

InRange(b, r) == r.start <= b /\ (r.end = None \/ b <= r.end)

\* Which ranges ChunkRange.__contains__ lets a resize shrink a chunk to.
Contains(outer, inner) ==
    /\ inner.start >= outer.start
    /\ outer.end # None => inner.end # None /\ inner.end <= outer.end
    /\ inner.end # None => inner.end >= inner.start

\* How many bytes a chunk must have in the end; None when nobody knows.
TotalBytes(range, fileSize) ==
    IF range.end # None THEN range.end - range.start + 1
    ELSE IF fileSize # None THEN fileSize - range.start
    ELSE None

\* How many bytes of the chunk's own file a successor needs before the chunk
\* may be stopped; None when the successor runs to EOF as well.
UsefulBytes(current, new) ==
    IF new.end # None THEN new.end - current.start + 1 ELSE None
=============================================================================
