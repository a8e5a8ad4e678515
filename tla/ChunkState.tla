----------------------------- MODULE ChunkState -----------------------------
(***************************************************************************)
(* The state of one ChunkManager and of the asyncio tasks it has spawned.  *)
(*                                                                         *)
(* A job is one ChunkDownloadStats object together with the task that      *)
(* updates it.  The dictionaries _chunks_stats and _chunks_tasks map a     *)
(* range to a job, or to NoJob when they have no entry: a later job of the *)
(* same range replaces an earlier one in them, but the earlier task may    *)
(* still be running.  Jobs are numbered in the order they are created,     *)
(* which is also the order in which the event loop first runs their tasks. *)
(***************************************************************************)
EXTENDS ChunkRanges, ChunkFiles, Sequences, FiniteSets

CONSTANTS
    Ranges,        \* the chunk ranges this file is cut into
    FileSize,      \* file_size of ChunkManagerParams, or None
    SourceSize,    \* how many bytes the server really has
    RangedServer,  \* whether the server honours the Range header
    Recovered,     \* recovered_stats: ranges already complete on disk
    MaxJobs,       \* bound: how many stats objects are ever created
    Callers        \* the coroutines that call the manager

ASSUME RangesAssumption ==
    /\ Ranges \subseteq ChunkRange
    /\ \A r \in Ranges : r.start < SourceSize /\ (r.end # None => r.start <= r.end)
ASSUME SizeAssumption ==
    /\ SourceSize \in Nat
    /\ FileSize \in {None, SourceSize}
    /\ \A r \in Ranges : r.end < SourceSize
ASSUME ServerAssumption == RangedServer \in BOOLEAN
ASSUME BoundAssumption ==
    /\ MaxJobs \in Nat
    /\ Recovered \in Seq(Ranges)
    /\ Len(Recovered) <= MaxJobs
    /\ \A i, k \in 1..Len(Recovered) : Recovered[i] = Recovered[k] => i = k

VARIABLES
    job,         \* what each job is for; never changes once created
    pc,          \* where its task stands
    cancelling,  \* task.cancel() was called and is not delivered yet
    exc,         \* how its task ended, or what is being raised; a succession is refused
                 \* when it fails before it has opened its predecessor's file
    status,      \* stats.status
    bytes,       \* stats.bytes_downloaded
    limit,       \* stats.limit_qt_bytes
    observer,    \* the successor whose stop callback is armed, or NoJob
    path,        \* the name under which the file the task has open lives
    disk,        \* the temporary file of each range
    stats,       \* _chunks_stats
    tasks,       \* _chunks_tasks
    monitor,     \* the monitor task: none, running or done
    call,        \* the manager coroutine each caller is suspended in
    cleaned      \* _cleaned_up

taskVars   == <<job, pc, cancelling, exc, path>>
statVars   == <<status, bytes, limit, observer>>
bookVars   == <<stats, tasks, monitor>>
clientVars == <<call, cleaned>>
vars == <<job, pc, cancelling, exc, status, bytes, limit, observer, path, disk,
          stats, tasks, monitor, call, cleaned>>

Jobs  == 1..MaxJobs
NoJob == 0

\* Not the range of any chunk: for jobs that do not exist and closed handles.
NoRange == [start |-> 0, end |-> -2]

JobRecord == [kind   : {"none", "download", "succession", "recovered"},
              range  : Ranges \union {NoRange},
              pred   : Jobs \union {NoJob},   \* stats_predecessor
              awaits : Jobs \union {NoJob}]   \* predecessor_task

NoRecord == [kind |-> "none", range |-> NoRange, pred |-> NoJob, awaits |-> NoJob]

Status == {"PENDING", "DOWNLOADING", "AWAITING_SUCCESSION", "DEPRECATED",
           "COMPLETED", "CANCELLED", "ERROR"}

\* A download goes from created to opening, streaming, flushing and done; a
\* succession from created to awaiting, cropping, shifting, moving and done,
\* or through stopping when it is cancelled.  A task cancelled before its
\* first step is dropped: its coroutine never runs.
Place == {"free", "created", "opening", "streaming", "flushing",
          "awaiting", "cropping", "shifting", "moving", "stopping",
          "done", "dropped"}

Done(j)      == pc[j] \in {"done", "dropped"}
Live(j)      == pc[j] \notin {"free", "done", "dropped"}

\* Slips, for mutation testing: the signal is set when the task is created; a
\* succession forgets to set it.
InitiatedAtOnce(j)  == pc[j] # "free"
InitiatedWorkers(j) == job[j].kind # "succession" /\ pc[j] \notin {"free", "created", "dropped"}

\* init_signal.is_set()
Initiated(j) == pc[j] \notin {"free", "created", "dropped"}

Total(j) == TotalBytes(job[j].range, FileSize)

\* get_effective_range_info and _register_chunk_stats give the new stats
\* object the next number; the job keeps the range its file is named after.
NextJob(j) == pc[j] = "free" /\ \A k \in Jobs : pc[k] = "free" => j <= k

\* The event loop runs first steps in the order of creation.
FirstToRun(j) == pc[j] = "created" /\ \A k \in Jobs : pc[k] = "created" => j <= k

\* Whom task.cancel() hits: a task that awaits another one directly hands the
\* cancellation on to it.
CancelTarget(j) ==
    IF pc[j] = "stopping" /\ ~Done(job[j].awaits) THEN job[j].awaits ELSE j

\* cancelling after task.cancel() on each job of S; a done task ignores it.
CancelledBy(S) ==
    [k \in Jobs |-> cancelling[k] \/ (Live(k) /\ k \in {CancelTarget(j) : j \in S})]

\* The end of the task of job j, its status and its outcome.
Finish(j, newStatus, outcome) ==
    /\ pc' = [pc EXCEPT ![j] = "done"]
    /\ exc' = [exc EXCEPT ![j] = outcome]
    /\ cancelling' = [cancelling EXCEPT ![j] = FALSE]
    /\ path' = [path EXCEPT ![j] = NoRange]
    /\ status' = [status EXCEPT ![j] = newStatus]

\* A task cancelled before its first step: nothing of its body ever runs.
Drop(j) ==
    /\ FirstToRun(j)
    /\ cancelling[j]
    /\ pc' = [pc EXCEPT ![j] = "dropped"]
    /\ exc' = [exc EXCEPT ![j] = "cancelled"]
    /\ cancelling' = [cancelling EXCEPT ![j] = FALSE]
    /\ UNCHANGED <<job, path, statVars, disk, bookVars, clientVars>>
=============================================================================
