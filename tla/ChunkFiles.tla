----------------------------- MODULE ChunkFiles -----------------------------
(***************************************************************************)
(* What LocalStorage does to the file of one chunk.  The bytes are         *)
(* abstracted to where they come from: a file holds len bytes of the       *)
(* source, from position from on.  A file is torn when it is no longer one *)
(* run of the source: it mixes two alignments, or has a hole, or padding.  *)
(***************************************************************************)
EXTENDS Integers

ChunkFile == [present : BOOLEAN, from : Nat, len : Nat, torn : BOOLEAN]

NoFile == [present |-> FALSE, from |-> 0, len |-> 0, torn |-> FALSE]

\* A file with exactly the bytes of the source a chunk asked for.
Whole(start, size) == [present |-> TRUE, from |-> start, len |-> size, torn |-> FALSE]

\* open(path, "wb"): an empty file, whatever was there.
Opened(start) == Whole(start, 0)

\* A write of n bytes by a handle that has written offset bytes before.
Written(file, offset, n) ==
    [file EXCEPT !.len  = IF offset + n > file.len THEN offset + n ELSE file.len,
                 !.torn = file.torn \/ offset # file.len]

\* A plausible slip, for mutation testing: crop_file forgets start > end.
CanCropBackwards(file, first, last) ==
    first >= 0 /\ file.present /\ last < file.len

\* The preconditions crop_file checks before it opens the file.
CanCrop(file, first, last) ==
    first >= 0 /\ first <= last /\ file.present /\ last < file.len

\* crop_file run to its end.  Cropping a prefix goes through shrink_file_to,
\* which leaves a shorter file alone; any other crop copies the bytes down and
\* truncates to the target size, which pads a file that became too short.
Cropped(file, first, last) ==
    LET size == last - first + 1 IN
    IF first = 0
    THEN [file EXCEPT !.len = IF size < file.len THEN size ELSE file.len]
    ELSE [file EXCEPT !.from = file.from + first,
                      !.len  = size,
                      !.torn = file.torn \/ file.len <= last]

\* crop_file stopped by an error or a cancellation: it did nothing yet, or
\* all of it, or the finally block truncated a file whose bytes were not
\* copied, or only partly, or bytes were copied and the truncation failed.
CropStopped(file, first, last) ==
    LET size == last - first + 1
        uncopied == [file EXCEPT !.len = size, !.torn = file.torn \/ file.len < size]
        uncut    == [file EXCEPT !.torn = TRUE]
    IN  {file, Cropped(file, first, last)}
        \union (IF first > 0 THEN {uncopied, uncut} ELSE {})
        \union (IF first > 0 /\ size > 1 THEN {[uncopied EXCEPT !.torn = TRUE]} ELSE {})

\* Exactly the bytes of a chunk that starts at start and has size bytes.
Holds(file, start, size) ==
    file.present /\ ~file.torn /\ file.from = start /\ file.len = size
=============================================================================
