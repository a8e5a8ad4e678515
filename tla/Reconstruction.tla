--------------------------- MODULE Reconstruction ---------------------------
(***************************************************************************)
(* merge_chunks, reconstruct_file and LocalStorage.merge_ranges: the files *)
(* of the completed chunks become the file.  A chunk file always holds the *)
(* source from the start of its name on (CompletedIsIntact of              *)
(* ChunkProperties), so its length says what is in it.                     *)
(***************************************************************************)
EXTENDS RangeCoverage

CONSTANTS Names   \* the ranges temporary files are named after

VARIABLES
    source,    \* how many bytes the file has
    fileSize,  \* params.file_size: source, or None
    disk,      \* the length of each temporary file, None when there is none
    stats,     \* _chunks_stats, one record for each range
    merging,   \* idle, covering, copying, merged, failed
    left,      \* the merge_configs still to copy
    merged     \* the bytes of the final file, by their positions in the source

fileVars  == <<source, fileSize, disk, stats>>
mergeVars == <<merging, left, merged>>

Stats == [range : ChunkRange, name : Names, bytes : Nat,
          status : {"DOWNLOADING", "COMPLETED", "CANCELLED"}]

Completed == {s \in stats : s.status = "COMPLETED"}

\* The positions first .. first + n - 1 of the source.
Run(first, n) == [i \in 1..n |-> first + i - 1]

\* reconstruct_file up to the call of calculate_optimal_coverage, which runs
\* without suspension.
BeginMerge ==
    /\ merging = "idle"
    /\ IF Completed = {}
       THEN merging' = "failed" /\ UNCHANGED searchVars
       ELSE /\ BeginSearch({s.range : s \in Completed}, fileSize)
            /\ merging' = "covering"
    /\ UNCHANGED <<fileVars, left, merged>>

Refuse ==
    /\ merging = "covering" /\ outcome = "gap"
    /\ merging' = "failed"
    /\ UNCHANGED <<fileVars, searchVars, left, merged>>

\* A slip: the fragments are looked up by their range, not by the file's name.
ConfigByRange(f) == [name |-> f.range, limit |-> f.limit]
\* The file a fragment is read from, by way of range_map.
Config(f) == [name |-> (CHOOSE s \in Completed : s.range = f.range).name, limit |-> f.limit]

\* The final file is opened for writing.
OpenMerged ==
    /\ merging = "covering" /\ outcome = "path"
    /\ left' = [i \in 1..Len(path) |-> Config(path[i])]
    /\ merged' = <<>>
    /\ merging' = "copying"
    /\ UNCHANGED <<fileVars, searchVars>>

\* One file is copied, to its end or up to end_byte.
CopyNext ==
    /\ merging = "copying" /\ left # <<>>
    /\ LET next == Head(left)
           n    == disk[next.name]
       IN  /\ n # None
           /\ merged' = merged \o Run(next.name.start,
                                      IF next.limit # None /\ next.limit < n THEN next.limit ELSE n)
    /\ left' = Tail(left)
    /\ UNCHANGED <<fileVars, searchVars, merging>>

\* A file is gone: what has been copied stays in the final file.
SourceMissing ==
    /\ merging = "copying" /\ left # <<>>
    /\ disk[Head(left).name] = None
    /\ merging' = "failed"
    /\ UNCHANGED <<fileVars, searchVars, left, merged>>

EndMerge ==
    /\ merging = "copying" /\ left = <<>>
    /\ merging' = "merged"
    /\ UNCHANGED <<fileVars, searchVars, left, merged>>

MergeStep ==
    \/ BeginMerge \/ Refuse \/ OpenMerged \/ CopyNext \/ SourceMissing \/ EndMerge
    \/ merging = "covering" /\ SearchStep /\ UNCHANGED <<fileVars, mergeVars>>
=============================================================================
