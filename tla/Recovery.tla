------------------------------ MODULE Recovery ------------------------------
(***************************************************************************)
(* RecoveryDownload: save_info, load_info, delete_info and purge_all, with *)
(* the download they save, a process that may be killed at any step, and   *)
(* the merge of what was recovered.  A coroutine is cut at its awaits.     *)
(***************************************************************************)
EXTENDS Reconstruction

CONSTANTS
    Plans,         \* downloads: the size of the source, the ranges to download
    Finished,      \* downloads whose chunks are all there, overlapping ones too
    MinChunkSize,  \* min_chunk_size
    MaxCrashes     \* bound: how often the process is killed

\* The chunk is one of a file of n bytes; an empty file has one from byte 0 on.
Within(r, n) ==
    /\ r.start = 0 \/ r.start < n
    /\ r.end # None => r.start <= r.end /\ r.end < n

\* A download is of chunks of its file, and every other range of the file may
\* have to be downloaded after a recovery.
ASSUME RecoveryAssumption ==
    /\ MinChunkSize \in Nat \ {0} /\ MaxCrashes \in Nat
    /\ Names \subseteq ChunkRange
    /\ \A p \in Plans \union Finished :
          /\ p.size \in Nat /\ p.ranges \subseteq Names
          /\ \A r \in p.ranges : Within(r, p.size)
          /\ \A a \in 0..p.size - 1 :
                /\ [start |-> a, end |-> None] \in Names
                /\ \A b \in a..p.size - 1 : [start |-> a, end |-> b] \in Names

VARIABLES
    process,  \* up, down, or gone when the client has given the download up
    crashes,  \* how often it was killed
    plan,     \* the ranges this process means to download
    infoFile, \* the recovery file: none, torn or whole
    info,     \* the chunks in it
    save,     \* save_info: where it stands, and its local variables
    sealed,   \* save_info was called in this process
    stale     \* files the recovery file speaks of were changed after the save

recVars  == <<process, crashes, plan, infoFile, info, sealed, stale>>
vars     == <<fileVars, searchVars, mergeVars, save, recVars>>

DTO == [name : Names, range : ChunkRange, bytes : Nat \ {0}]

Readable == infoFile = "whole"

Busy == \E s \in stats : s.status = "DOWNLOADING"

\* Nothing else runs while calculate_optimal_coverage does.
Running == process = "up" /\ merging # "covering"

\* stats_list, by range and with the objects a restart has replaced since,
\* info_map, dto_chunks and chunks_to_delete.
NoSave == [at |-> "no", list |-> {}, old |-> {}, sizes |-> [n \in {} |-> 0],
           dto |-> {}, doomed |-> {}]

\* What get_data_info says of the size of a file.
SizeOf(n) == IF disk[n] = None THEN 0 ELSE disk[n]

-----------------------------------------------------------------------------
(* The download, as far as the recovery sees it. *)

\* Writing to a file that a save has looked at makes the saved state stale.
Touch(name) ==
    stale' = (stale \/ sealed \/ (Readable /\ \E c \in info : c.name = name))

\* The bytes s has counted reach its file, unless somebody has unlinked it.
Flushed(s) == IF disk[s.name] = None THEN disk ELSE [disk EXCEPT ![s.name] = s.bytes]

Update(s, t) == stats' = (stats \ {s}) \union {t}

\* save_info asks for the sizes one by one: when the size of a file changes
\* meanwhile, it gets the new one or has got the old one.
Asked(asking, n) ==
    {asking} \union IF n \in DOMAIN asking.sizes
                    THEN {[asking EXCEPT !.sizes[n] = SizeOf(n)']} ELSE {}

\* Its list keeps the stats object of a chunk that is started once more.
Replaced(r) ==
    [save EXCEPT !.list = @ \ {r},
                 !.old  = @ \union {s \in stats : s.range = r /\ r \in save.list}]

downloadRest == <<source, fileSize, searchVars, mergeVars,
                  process, crashes, plan, infoFile, info, sealed>>

\* start_chunk and the opening of the file; also once more after it was stopped.
Start(r) ==
    /\ Running /\ merging = "idle"
    /\ r \in plan
    /\ \A s \in stats : s.range = r => s.status = "CANCELLED"
    /\ stats' = {s \in stats : s.range # r}
                \union {[range |-> r, name |-> r, bytes |-> 0, status |-> "DOWNLOADING"]}
    /\ disk' = [disk EXCEPT ![r] = 0]
    /\ Touch(r)
    /\ save' \in Asked(Replaced(r), r)
    /\ UNCHANGED downloadRest

\* A block is counted and handed to the buffer of the open file.
Receive(s) ==
    /\ Running
    /\ s.status = "DOWNLOADING" /\ s.bytes < TotalBytes(s.range, source)
    /\ Update(s, [s EXCEPT !.bytes = @ + 1])
    /\ UNCHANGED <<disk, stale, save, downloadRest>>

FlushBuffer(s) ==
    /\ Running
    /\ s.status = "DOWNLOADING" /\ disk[s.name] # None /\ disk[s.name] < s.bytes
    /\ disk' = Flushed(s)
    /\ Touch(s.name)
    /\ save' \in Asked(save, s.name)
    /\ UNCHANGED <<stats, downloadRest>>

\* The task ends, complete or stopped; the file is flushed either way.
EndDownload(s) ==
    /\ Running
    /\ s.status = "DOWNLOADING"
    /\ \E status \in IF s.bytes = TotalBytes(s.range, source) THEN {"COMPLETED"} ELSE {"CANCELLED"} :
          Update(s, [s EXCEPT !.status = status])
    /\ disk' = Flushed(s)
    /\ Touch(s.name)
    /\ save' \in Asked(save, s.name)
    /\ UNCHANGED downloadRest

-----------------------------------------------------------------------------
(* save_info *)

saveRest == <<source, fileSize, stats, searchVars, mergeVars, process, crashes, plan, stale>>

\* It asks for the sizes of all the files.
SaveBegins ==
    /\ Running /\ save.at = "no" /\ merging = "idle"
    /\ fileSize # None
    /\ save' = [NoSave EXCEPT !.at    = "statting",
                              !.list  = {s.range : s \in stats},
                              !.sizes = [n \in {s.name : s \in stats} |-> SizeOf(n)]]
    /\ sealed' = TRUE
    /\ UNCHANGED <<disk, infoFile, info, saveRest>>

\* A slip: the size on disk is not compared with the bytes that were counted.
Trusted(s) == s.bytes > 0 /\ (s.status = "COMPLETED" \/ s.bytes >= MinChunkSize)
\* The chunks that are written to the recovery file.
Kept(s) ==
    /\ save.sizes[s.name] = s.bytes
    /\ s.bytes > 0
    /\ s.status = "COMPLETED" \/ s.bytes >= MinChunkSize

\* The chunks whose files are no use for a later process.
Useless(s) == ~Kept(s) /\ ~(s.bytes = 0 /\ save.sizes[s.name] = 0)

\* A slip: the end of the saved range is excluded.
EntryOffByOne(s) == [name  |-> s.name, bytes |-> s.bytes,
                     range |-> [start |-> s.range.start, end |-> s.range.start + s.bytes]]
Entry(s) == [name  |-> s.name, bytes |-> s.bytes,
             range |-> [start |-> s.range.start, end |-> s.range.start + s.bytes - 1]]

\* It compares them with the stats as they are by then, and opens the recovery file
\* for writing, which empties it.
SaveOpens ==
    /\ Running /\ save.at = "statting"
    /\ LET list == {s \in stats : s.range \in save.list} \union save.old IN
          save' = [NoSave EXCEPT !.at     = "writing",
                                 !.dto    = {Entry(s) : s \in {t \in list : Kept(t)}},
                                 !.doomed = {s.name : s \in {t \in list : Useless(t)}}]
    /\ infoFile' = "torn" /\ info' = {}
    /\ UNCHANGED <<disk, sealed, saveRest>>

SaveWrites ==
    /\ Running /\ save.at = "writing"
    /\ infoFile' = "whole" /\ info' = save.dto
    /\ save' = [save EXCEPT !.at = "deleting"]
    /\ UNCHANGED <<disk, sealed, saveRest>>

\* The useless files are deleted; that some deletions fail is only logged.
SaveEnds ==
    /\ Running /\ save.at = "deleting"
    /\ \E gone \in SUBSET save.doomed :
          disk' = [n \in Names |-> IF n \in gone THEN None ELSE disk[n]]
    /\ save' = NoSave
    /\ UNCHANGED <<infoFile, info, sealed, saveRest>>

-----------------------------------------------------------------------------
(* A killed process, and load_info in the next one. *)

\* What was counted but not flushed is lost, and so is all that is in memory.
Kill ==
    /\ process \in {"up", "purging"} /\ crashes < MaxCrashes
    /\ process' = "down"
    /\ crashes' = crashes + 1
    /\ stats' = {} /\ plan' = {} /\ sealed' = FALSE
    /\ save' = NoSave
    /\ merging' = "idle" /\ left' = <<>> /\ merged' = <<>>
    /\ ForgetSearch
    /\ UNCHANGED <<source, fileSize, disk, infoFile, info, stale>>

\* load_info accepts a chunk whose file has at least the bytes that were saved.
Accepted(c) == disk[c.name] # None /\ disk[c.name] >= c.bytes

Recovered == IF Readable THEN {c \in info : Accepted(c)} ELSE {}

RecoveredStats(c) ==
    [range |-> c.range, name |-> c.name, bytes |-> c.bytes, status |-> "COMPLETED"]

\* The runs of bytes no recovered range holds; the last one is open-ended.
Missing(rs) ==
    LET free(b) == \A r \in rs : ~InRange(b, r)
        first(a) == free(a) /\ (a = 0 \/ ~free(a - 1))
        last(b)  == b = source - 1 \/ ~free(b + 1)
        runs == {w \in (0..source - 1) \X (0..source - 1) :
                    first(w[1]) /\ w[1] <= w[2] /\ last(w[2]) /\ \A x \in w[1]..w[2] : free(x)}
    IN  {[start |-> w[1], end |-> IF w[2] = source - 1 THEN None ELSE w[2]] : w \in runs}

loadRest == <<source, fileSize, disk, searchVars, mergeVars, save, crashes, infoFile, info,
              sealed, stale>>

\* A slip: the recovered stats are kept as a list.
LoadAll ==
    /\ process = "down"
    /\ stats' = {RecoveredStats(c) : c \in Recovered}
    /\ plan' = Missing({c.range : c \in Recovered})
    /\ process' = "up"
    /\ UNCHANGED loadRest
\* ChunkManager.__init__ keys the recovered stats by their ranges; of two with
\* the same range it keeps one.  The client downloads what is missing.
Load ==
    /\ process = "down"
    /\ \E one \in SUBSET Recovered :
          /\ \A c \in Recovered : \E d \in one : d.range = c.range
          /\ \A c, d \in one : c.range = d.range => c = d
          /\ stats' = {RecoveredStats(c) : c \in one}
          /\ plan' = Missing({c.range : c \in one})
    /\ process' = "up"
    /\ UNCHANGED loadRest

-----------------------------------------------------------------------------
(* The end of a download. *)

endRest == <<source, fileSize, stats, searchVars, mergeVars, save, crashes, plan, sealed>>

\* merge_chunks(cleanup=True): the temporary files go.
CleanUp ==
    /\ process = "up" /\ merging = "merged" /\ save.at = "no"
    /\ disk' = [n \in Names |-> IF \E s \in stats : s.name = n THEN None ELSE disk[n]]
    /\ stale' = (stale \/ Readable)
    /\ UNCHANGED <<process, infoFile, info, endRest>>

\* delete_info; a deletion that fails is only logged, and changes nothing.
DeleteInfo ==
    /\ process = "up" /\ merging = "merged" /\ save.at = "no"
    /\ infoFile' = "none" /\ info' = {}
    /\ UNCHANGED <<process, disk, stale, endRest>>

\* purge_all, for a download that is given up: the files that load_info accepts
\* are deleted one by one, and that a deletion fails is only logged.
PurgeFiles ==
    /\ process = "up" /\ save.at = "no" /\ merging = "idle" /\ ~Busy
    /\ \E gone \in SUBSET {c.name : c \in Recovered} :
          disk' = [n \in Names |-> IF n \in gone THEN None ELSE disk[n]]
    /\ process' = "purging"
    /\ stale' = (stale \/ Readable)
    /\ UNCHANGED <<infoFile, info, endRest>>

\* Then the recovery file is, whose deletion may fail as quietly.
PurgeInfo ==
    /\ process = "purging"
    /\ \/ infoFile' = "none" /\ info' = {}
       \/ UNCHANGED <<infoFile, info>>
    /\ process' = "gone"
    /\ UNCHANGED <<disk, stale, endRest>>

-----------------------------------------------------------------------------
InitFiles(total, known, done, toDo) ==
    /\ source = total
    /\ fileSize = known
    /\ stats = {[range |-> r, name |-> r, bytes |-> TotalBytes(r, total), status |-> "COMPLETED"]
                  : r \in done}
    /\ disk = [n \in Names |-> IF n \in done THEN TotalBytes(n, total) ELSE None]
    /\ plan = toDo

Init ==
    /\ \/ \E p \in Plans : InitFiles(p.size, p.size, {}, p.ranges)
       \/ \E p \in Finished : \E known \in {None, p.size} : InitFiles(p.size, known, p.ranges, {})
    /\ SearchInit
    /\ merging = "idle" /\ left = <<>> /\ merged = <<>>
    /\ save = NoSave
    /\ process = "up" /\ crashes = 0
    /\ infoFile = "none" /\ info = {}
    /\ sealed = FALSE /\ stale = FALSE

Next ==
    \/ \E r \in plan : Start(r)
    \/ \E s \in stats : Receive(s) \/ FlushBuffer(s) \/ EndDownload(s)
    \/ SaveBegins \/ SaveOpens \/ SaveWrites \/ SaveEnds
    \/ Kill \/ Load
    \/ CleanUp \/ DeleteInfo \/ PurgeFiles \/ PurgeInfo
    \/ process = "up" /\ MergeStep /\ UNCHANGED <<save, recVars>>

Spec == Init /\ [][Next]_vars

-----------------------------------------------------------------------------
RecoveryTypeOK ==
    /\ disk \in [Names -> Nat \union {None}]
    /\ stats \subseteq Stats
    /\ \A s, t \in stats : s.range = t.range => s = t
    /\ merging \in {"idle", "covering", "copying", "merged", "failed"}
    /\ merged \in Seq(0..source - 1)
    /\ process \in {"up", "down", "purging", "gone"}
    /\ infoFile \in {"none", "torn", "whole"}
    /\ info \union save.dto \subseteq DTO
    /\ save.doomed \subseteq Names
    /\ save.at \in {"no", "statting", "writing", "deleting"}
    /\ outcome \in {"idle", "searching", "path", "gap"}

\* "100% byte-accurate assembly without gaps, overlaps, or duplicate writes":
\* what merge_chunks leaves is the file, whatever was killed and recovered.
MergeIsExact == merging = "merged" => merged = Run(0, source)

\* The same where the client changes no file behind a recovery file it saved.
CarefulMergeIsExact == ~stale => MergeIsExact

\* The merge is refused, or stops at a file that is gone, only when the chunks
\* that were complete do not hold the file.
RefusedForGaps == merging = "failed" /\ ~stale => ~HoldFile(chunks)

\* Every chunk the recovery file names is on disk as it says, so that a process
\* that is killed now loses nothing of what was saved: neither a second save
\* nor the deletion of useless chunks takes a saved file away.
InfoIsTrue ==
    Readable /\ ~stale => \A c \in info : disk[c.name] = c.bytes
=============================================================================
