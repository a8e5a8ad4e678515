---------------------------- MODULE MCStrategies ----------------------------
(***************************************************************************)
(* Small instances of DownloadStrategies for TLC.                          *)
(***************************************************************************)
EXTENDS DownloadStrategies, TLC

R(first, last) == [start |-> first, end |-> last]

Sizes     == 0..7
SomeParts == {1}

\* All sorted caches of at most two of the ranges in a file of six bytes.
CachedRanges == {R(f, l) : f \in {0, 1, 3, 4}, l \in {1, 3, 4}}
                \union {R(3, None), R(5, None)}
Usable       == {r \in CachedRanges : r.end = None \/ r.start <= r.end}
SomeCaches   == {s \in {<<>>} \union [1..1 -> Usable] \union [1..2 -> Usable] :
                    SortedByStart(s)}

BothKinds == {"sequential", "multi"}
MultiOnly == {"multi"}
NoCache   == {<<>>}
=============================================================================
