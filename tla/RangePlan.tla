----------------------------- MODULE RangePlan -----------------------------
(***************************************************************************)
(* calculate_ranges: the ranges a file is cut into, around the ranges that *)
(* are there already.  One action per turn of one of its loops.  The inner *)
(* variable temp_start of the code is pos here: current_pos is not read    *)
(* while temp_start walks through a gap, and is assigned after it.         *)
(***************************************************************************)
EXTENDS ChunkRanges, Sequences

CONSTANTS
    FileSizes,  \* the sizes asked for
    Parts,      \* the values of num_parts
    Caches      \* the caches, as sorted(cache, key=start) leaves them

SortedByStart(s) == \A i, k \in 1..Len(s) : i < k => s[i].start <= s[k].start

ASSUME PlanAssumption ==
    /\ FileSizes \subseteq Nat
    /\ Parts \subseteq Int
    /\ \A s \in Caches :
          /\ s \in Seq(ChunkRange)
          /\ SortedByStart(s)
          /\ \A i \in 1..Len(s) : s[i].end # None => s[i].start <= s[i].end

VARIABLES
    fileSize,  \* file_size
    target,    \* target_chunk_size
    cache,     \* sorted_cache
    next,      \* the index of cache_range
    pos,       \* current_pos, and temp_start in a gap
    ranges     \* final_ranges

planVars == <<fileSize, target, cache, next, pos, ranges>>

\* max(1, file_size // num_parts)
TargetSize(size, parts) ==
    LET whole == IF parts <= 0 THEN size ELSE size \div parts
    IN  IF whole < 1 THEN 1 ELSE whole

Interval(first, size) == [start |-> first, end |-> first + size - 1]

\* A slip: the last piece of a gap is as long as the others.
PieceUncut(gapEnd) == target
\* The length of the next piece of a gap that ends at gapEnd.
Piece(gapEnd) == IF gapEnd - pos + 1 <= target THEN gapEnd - pos + 1 ELSE target

\* One piece of the gap before the next cached range.
FillGap ==
    /\ next <= Len(cache)
    /\ pos < cache[next].start
    /\ LET size == Piece(cache[next].start - 1) IN
          /\ ranges' = Append(ranges, Interval(pos, size))
          /\ pos' = pos + size
    /\ UNCHANGED <<fileSize, target, cache, next>>

\* A slip: the gap before a cached range is not filled.
TakeCachedAnyway ==
    /\ next <= Len(cache)
    /\ ranges' = Append(ranges, cache[next])
    /\ pos' = IF cache[next].end = None THEN fileSize ELSE cache[next].end + 1
    /\ next' = next + 1
    /\ UNCHANGED <<fileSize, target, cache>>

TakeCached ==
    /\ next <= Len(cache)
    /\ pos >= cache[next].start
    /\ ranges' = Append(ranges, cache[next])
    /\ pos' = IF cache[next].end = None THEN fileSize ELSE cache[next].end + 1
    /\ next' = next + 1
    /\ UNCHANGED <<fileSize, target, cache>>

\* One piece of what is left after the cache; the last one is open-ended.
FillTail ==
    /\ next > Len(cache)
    /\ pos < fileSize
    /\ IF fileSize - pos <= target
       THEN /\ ranges' = Append(ranges, [start |-> pos, end |-> None])
            /\ pos' = fileSize
       ELSE /\ ranges' = Append(ranges, Interval(pos, target))
            /\ pos' = pos + target
    /\ UNCHANGED <<fileSize, target, cache, next>>

Planned == next > Len(cache) /\ pos >= fileSize

\* The call, before its first loop.
BeginPlan(size, parts, sorted) ==
    /\ fileSize = size
    /\ target = TargetSize(size, parts)
    /\ cache = sorted
    /\ next = 1
    /\ pos = 0
    /\ ranges = <<>>

PlanStep == FillGap \/ TakeCached \/ FillTail

PlanInit ==
    \E size \in FileSizes, parts \in Parts, sorted \in Caches : BeginPlan(size, parts, sorted)

PlanSpec == PlanInit /\ [][PlanStep]_planVars

-----------------------------------------------------------------------------
\* The ranges of the plan reach every byte of the file, whatever is cached:
\* calculate_ranges returns a "list of ranges covering the whole file".
PlanCovers ==
    Planned => \A b \in 0..fileSize - 1 : \E i \in 1..Len(ranges) : InRange(b, ranges[i])

Disjoint(s) ==
    \A i, k \in 1..Len(s) : i < k => s[i].end # None /\ s[i].end < s[k].start

\* No byte is planned twice, unless the cache holds it twice.
PlanDisjoint == Disjoint(cache) => Disjoint(ranges)
=============================================================================
