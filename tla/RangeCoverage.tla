--------------------------- MODULE RangeCoverage ---------------------------
(***************************************************************************)
(* calculate_optimal_coverage: which chunk files the merge reads, and how  *)
(* many bytes of each, so that the file comes out whole with the fewest    *)
(* files.  A breadth-first search over the positions at which one chunk    *)
(* may hand over to the next: the starts of the chunks and the end of the  *)
(* file.  One action per turn of one of its two loops.                     *)
(***************************************************************************)
EXTENDS ChunkRanges, Sequences, FiniteSets

VARIABLES
    chunks,   \* the ranges to choose from
    size,     \* file_size, or None
    queue,    \* the positions to go on from, each with the fragments up to it
    visited,  \* visited
    at,       \* current_pos
    path,     \* the fragments up to at; in the end the result
    cuts,     \* the positions still to try from at: reachable_cuts not visited
    outcome   \* idle before the first call, searching, then path or gap

searchVars == <<chunks, size, queue, visited, at, path, cuts, outcome>>

\* A chunk and how many bytes to read of it: None for the whole file.
Fragment == [range : ChunkRange, limit : Nat \union {None}]

\* A slip: a chunk is taken to end where its last byte is.
ReachesShort(r, p) == r.end = None \/ p <= r.end
\* get_reach: the chunk has every byte up to p, p excluded.
Reaches(r, p) == r.end = None \/ p <= r.end + 1

Farther(r, s) == r.end = None \/ (s.end # None /\ r.end >= s.end)

\* A slip: of the chunks with one start any is kept, however short it is.
AnyAt(r, p) == r.start = p
\* best_chunk_at[p] is r: of the chunks that start at p it reaches furthest.
BestAt(r, p) == r.start = p /\ \A s \in chunks : s.start = p => Farther(r, s)

CutPoints == {r.start : r \in chunks} \union (IF size = None THEN {} ELSE {size})

\* The cuts are tried from the furthest on.
Furthest(p) == \A q \in cuts : q <= p

\* A slip: the end of the chunk decides alone whether it is read to its end.
LimitOffByOne(r, next) == IF r.end = None \/ next >= r.end THEN None ELSE next - r.start
\* read_limit of a chunk that the next one takes over from at position next.
ReadLimit(r, next) == IF r.end = None \/ next >= r.end + 1 THEN None ELSE next - r.start

SearchInit ==
    /\ chunks = {} /\ size = None
    /\ visited = {0} /\ at = 0 /\ path = <<>> /\ cuts = {} /\ queue = <<>>
    /\ outcome = "idle"

\* The call returned, or its process is gone.
ForgetSearch ==
    /\ chunks' = {} /\ size' = None
    /\ visited' = {0} /\ at' = 0 /\ path' = <<>> /\ cuts' = {} /\ queue' = <<>>
    /\ outcome' = "idle"

\* The call: the best chunks, the cut points and the queue.  Without a chunk
\* at byte 0 it raises at once.
BeginSearch(given, fileSize) ==
    /\ chunks' = given
    /\ size' = fileSize
    /\ visited' = {0}
    /\ at' = 0
    /\ path' = <<>>
    /\ cuts' = {}
    /\ queue' = <<[at |-> 0, path |-> <<>>]>>
    /\ outcome' = IF \E r \in given : r.start = 0 THEN "searching" ELSE "gap"

\* The goal was on the queue: only position 0 of an empty file.
TakeGoal ==
    /\ outcome = "searching" /\ cuts = {} /\ queue # <<>>
    /\ Head(queue).at = size
    /\ path' = Head(queue).path
    /\ outcome' = "path"
    /\ UNCHANGED <<chunks, size, queue, visited, at, cuts>>

\* A file of unknown size ends with a chunk that was read to EOF.
TakeOpenEnd ==
    /\ outcome = "searching" /\ cuts = {} /\ queue # <<>>
    /\ size = None
    /\ \E r \in chunks :
          /\ BestAt(r, Head(queue).at) /\ r.end = None
          /\ path' = Append(Head(queue).path, [range |-> r, limit |-> None])
    /\ outcome' = "path"
    /\ UNCHANGED <<chunks, size, queue, visited, at, cuts>>

\* Go on from the next position of the queue.  A chunk starts at each of them:
\* the queue never holds the end of the file, where the search stops at once.
TakePosition ==
    /\ outcome = "searching" /\ cuts = {} /\ queue # <<>>
    /\ at' = Head(queue).at
    /\ path' = Head(queue).path
    /\ queue' = Tail(queue)
    /\ at' # size
    /\ \E r \in chunks :
          /\ BestAt(r, at') /\ ~(size = None /\ r.end = None)
          /\ cuts' = {q \in CutPoints \ visited : at' < q /\ Reaches(r, q)}
    /\ UNCHANGED <<chunks, size, visited, outcome>>

\* The furthest cut that is left becomes the end of one more fragment.
TryCut ==
    /\ outcome = "searching"
    /\ \E next \in cuts, r \in chunks :
          LET longer == Append(path, [range |-> r, limit |-> ReadLimit(r, next)]) IN
          /\ Furthest(next) /\ BestAt(r, at)
          /\ visited' = visited \union {next}
          /\ cuts' = cuts \ {next}
          /\ IF next = size
             THEN path' = longer /\ outcome' = "path" /\ UNCHANGED queue
             ELSE /\ queue' = Append(queue, [at |-> next, path |-> longer])
                  /\ UNCHANGED <<path, outcome>>
    /\ UNCHANGED <<chunks, size, at>>

\* No position is left: the chunks do not reach the end.
GiveUp ==
    /\ outcome = "searching" /\ cuts = {} /\ queue = <<>>
    /\ outcome' = "gap"
    /\ UNCHANGED <<chunks, size, queue, visited, at, path, cuts>>

SearchStep == TakeGoal \/ TakeOpenEnd \/ TakePosition \/ TryCut \/ GiveUp

-----------------------------------------------------------------------------
\* Where the bytes that are read of a fragment end, that one excluded.
Stop(f) ==
    IF f.limit # None THEN f.range.start + f.limit
    ELSE IF f.range.end # None THEN f.range.end + 1 ELSE size

\* The fragments start at byte 0, each one where the one before it stops, and
\* the last one stops at position goal.
Meets(p, goal) ==
    IF p = <<>> THEN goal = 0
    ELSE /\ p[1].range.start = 0
         /\ \A i \in 1..Len(p) - 1 : Stop(p[i]) = p[i + 1].range.start
         /\ Stop(p[Len(p)]) = goal

\* The bytes taken of the chunks meet at every cut and end with the file, with
\* no gap and no byte twice, however the chunks overlap.
FragmentsMeet == outcome = "path" => Meets(path, size)

\* Whether the chunks of S hold the whole file; for an unknown size, all that
\* comes before a chunk that was read to EOF.
HoldFile(S) ==
    IF size # None THEN \A b \in 0..size - 1 : \E r \in S : InRange(b, r)
    ELSE \E last \in S :
            last.end = None /\ \A b \in 0..last.start - 1 : \E r \in S : InRange(b, r)

\* "Finds the minimum number of chunks needed to cover a file range".
FewestFiles ==
    outcome = "path" => \A S \in SUBSET chunks : HoldFile(S) => Len(path) <= Cardinality(S)

\* The merge is refused only when bytes of the file are really missing.
GapIsReal == outcome = "gap" => ~HoldFile(chunks)
=============================================================================
