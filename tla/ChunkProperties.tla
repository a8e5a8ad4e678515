-------------------------- MODULE ChunkProperties --------------------------
(***************************************************************************)
(* What makes ChunkManager correct: properties of the interleaving of its  *)
(* callers, its workers and its successions.                               *)
(***************************************************************************)
EXTENDS ChunkManager

\* Every variable has the type its comment in ChunkState gives it.
TypeOK ==
    /\ job \in [Jobs -> JobRecord]
    /\ pc \in [Jobs -> Place]
    /\ cancelling \in [Jobs -> BOOLEAN]
    /\ exc \in [Jobs -> {"none", "refused", "error", "cancelled"}]
    /\ status \in [Jobs -> Status]
    /\ bytes \in [Jobs -> Nat]
    /\ limit \in [Jobs -> Nat]
    /\ observer \in [Jobs -> Jobs \union {NoJob}]
    /\ path \in [Jobs -> Ranges \union {NoRange}]
    /\ disk \in [Ranges -> ChunkFile]
    /\ stats \in [Ranges -> Jobs \union {NoJob}]
    /\ tasks \in [Ranges -> Jobs \union {NoJob}]
    /\ monitor \in {"none", "running", "done"}
    /\ call \in [Callers -> CallRecord]
    /\ cleaned \in BOOLEAN

-----------------------------------------------------------------------------
(* The two dictionaries and the tasks                                      *)

\* A range that is in both dictionaries has the stats and the task of the
\* same job, which is a job of that range: cancel_chunk decides on one and
\* cancels the other (start_chunk, resize_chunk, delete_chunk_data, the waits).
BooksAgree ==
    \A r \in Ranges :
        /\ stats[r] # NoJob => pc[stats[r]] # "free" /\ job[stats[r]].range = r
        /\ tasks[r] # NoJob => pc[tasks[r]] # "free" /\ job[tasks[r]].range = r
        /\ stats[r] # NoJob /\ tasks[r] # NoJob => stats[r] = tasks[r]

\* No task outlives its entry in _chunks_tasks: whatever runs can still be
\* cancelled, awaited and cleaned up.
LiveIsTracked == \A j \in Jobs : Live(j) => tasks[job[j].range] = j

\* A chunk the stats call active has a task that will change that, so nothing
\* waits for a status nobody will ever set.
ActiveIsLive ==
    \A j \in StatsJobs :
        status[j] \in {"PENDING", "DOWNLOADING", "AWAITING_SUCCESSION"} => Live(j)

\* While a chunk is pending or downloading somebody reports its progress: the
\* monitor that start_chunk reuses, _check_stop_monitor cancels and the last
\* chunk ends is not missing when a chunk needs it.
DownloadsAreMonitored ==
    (\E j \in StatsJobs : status[j] \in {"PENDING", "DOWNLOADING"}) => monitor = "running"

\* Once cleanup has returned, nothing of the manager runs any more, also when it
\* has raised: no task, no monitor, and _chunks_tasks is empty.
CleanedIsQuiet ==
    cleaned /\ (\A c \in Callers : Outside(c)) =>
        /\ \A j \in Jobs : ~Live(j)
        /\ tasks = NoTasks
        /\ monitor # "running"

\* No call ends in a KeyError on a range that was in the dictionary when the
\* call looked (cancel_chunk, delete_chunk_data and the waits).
NoCallRaises == \A c \in Callers : call[c].at # "raised"

-----------------------------------------------------------------------------
(* The files                                                               *)

\* The files a task is reading or writing just now.
Uses(j) ==
    IF pc[j] \in {"streaming", "flushing"} THEN {path[j]}
    ELSE IF pc[j] \in {"opening"} THEN {job[j].range}
    ELSE IF pc[j] \in {"cropping", "shifting", "moving"}
    THEN {job[job[j].pred].range, job[j].range}
    ELSE {}

\* Two tasks never work on the same file: a succession crops and renames a
\* file only when no worker writes it and no other succession crops it.
ExclusiveFiles ==
    \A j, k \in Jobs : j # k => Uses(j) \intersect Uses(k) = {}

\* A succession of the job is changing its file, or is done and may have: it
\* has finished, was cancelled, or failed after it had opened the file.
Consumed(j) ==
    \E k \in Jobs : /\ job[k].kind = "succession" /\ job[k].pred = j
                    /\ \/ pc[k] \in {"shifting", "moving"}
                       \/ pc[k] = "done" /\ exc[k] # "refused"

Intact(j) ==
    /\ Holds(disk[job[j].range], job[j].range.start, bytes[j])
    /\ Total(j) # None => bytes[j] = Total(j)

\* A COMPLETED chunk in the stats has, in its own file, all the bytes of its
\* range and no others, until a succession takes the file over or cleanup
\* deletes it: what the merge and the recovery rely on.
CompletedIsIntact ==
    ~cleaned => \A j \in StatsJobs : status[j] = "COMPLETED" /\ ~Consumed(j) => Intact(j)

\* README.md:56: resizing "dynamically crops active chunks and splits remaining
\* ranges without losing downloaded bytes": a chunk that the stats still call
\* COMPLETED when its succession has ended one way or the other has its bytes.
ResizeLosesNothing ==
    \A j \in StatsJobs :
        status[j] = "COMPLETED" /\ ~Inherited(j) /\ ~cleaned => Intact(j)

\* get_downloaded_bytes: the sum of the bytes of the chunks that are complete
\* or downloading, that is, the number of pairs of such a chunk and a byte of it.
Counted == {r \in Ranges : stats[r] # NoJob /\ status[stats[r]] \in {"COMPLETED", "DOWNLOADING"}}
DownloadedBytes == Cardinality(UNION {{r} \X (1..bytes[stats[r]]) : r \in Counted})

\* The progress never counts a byte twice, in a chunk and in its successor,
\* when the ranges that were started do not overlap.
NothingCountedTwice == DownloadedBytes <= SourceSize

-----------------------------------------------------------------------------
(* Steps                                                                   *)

\* A chunk that has ended keeps its status, but for a predecessor that hands
\* its file over: a cancellation that comes too late changes nothing.
OnlyTo(j, from, to) == status[j] = from => status'[j] \in {from} \union to
StatusIsFinal ==
    [][\A j \in Jobs :
          pc[j] # "free" => /\ OnlyTo(j, "ERROR", {})
                            /\ OnlyTo(j, "DEPRECATED", {})
                            /\ OnlyTo(j, "COMPLETED", {"DEPRECATED"})
                            /\ OnlyTo(j, "CANCELLED", {"DEPRECATED"})]_vars

\* The manager as its callers see it implements ChunkLifecycle: whatever tasks,
\* cancellations and successions do to each other, a status moves only as
\* promised, and a chunk stops being active no later than the work on it.
Lifecycle == INSTANCE ChunkLifecycle WITH
    Chunks <- Jobs,
    made   <- {j \in Jobs : pc[j] # "free"},
    live   <- {j \in Jobs : Live(j)},
    known  <- StatsJobs
KeepsPromise == Lifecycle!Promise

-----------------------------------------------------------------------------
(* Progress                                                                *)

\* The event loop can run job j: it is not waiting for another task.
CanStep(j) ==
    /\ Live(j)
    /\ pc[j] = "created"  => FirstToRun(j)
    /\ pc[j] = "awaiting" => cancelling[j] \/ Done(job[j].awaits)
    /\ pc[j] = "stopping" => Done(job[j].awaits)

\* It can resume the coroutine that caller c is suspended in: the signal is set,
\* the task or the tasks are done, or what is awaited ends of itself.
CanContinue(c) ==
    /\ ~Outside(c)
    /\ call[c].at = "init" => \A j \in call[c].jobs : Initiated(j)
    /\ call[c].at \in {"join", "gather"} => \A j \in call[c].jobs : Done(j)
    /\ call[c].at = "wait" /\ call[c].op = "waitFirst" => \E j \in call[c].jobs : Done(j)
    /\ call[c].at = "wait" /\ call[c].op = "waitAll" => \A j \in call[c].jobs : Done(j)
    /\ call[c].at \in {"wait", "gather"} => AwaitersFirst(call[c].jobs)

\* Tasks never wait for each other in a circle, whatever is cancelled, resized
\* and dropped: while any of them is not done, one of them can run.
TasksGoOn == (\E j \in Jobs : Live(j)) => \E j \in Jobs : CanStep(j)

\* And no caller waits for what cannot come any more, such as the init signal
\* of a task that was cancelled before its first step: one that is suspended
\* can be resumed, or some task can still run.
NobodyStuck ==
    /\ TasksGoOn
    /\ (\E c \in Callers : ~Outside(c)) =>
          (\E j \in Jobs : CanStep(j)) \/ (\E c \in Callers : CanContinue(c))

\* How many steps a task has before it at most, and how many a call.  A worker
\* that receives has one for each byte that may still come.
StepsLeft(j) ==
    CASE pc[j] = "created"   -> SourceSize + 5
      [] pc[j] = "opening"   -> SourceSize + 3
      [] pc[j] = "streaming" -> SourceSize + 2 - bytes[j]
      [] pc[j] = "awaiting"  -> 4
      [] pc[j] = "cropping"  -> 3
      [] pc[j] = "shifting"  -> 2
      [] pc[j] \in {"flushing", "moving", "stopping"} -> 1
      [] OTHER -> 0
CallStepsLeft(c) ==
    CASE call[c].at = "init" -> 3
      [] call[c].at \in {"join", "wait", "gather"} -> 2
      [] call[c].at \in {"woken", "unlink", "purge"} -> 1
      [] OTHER -> 0

\* Nothing is tried over and over: each step of a task or of a call that goes
\* on leaves it fewer, and no cancellation, resize or end of another task gives
\* it more.  With NobodyStuck this is why the manager comes to rest when its
\* clients do.
StepsRunOut ==
    [][/\ \A j \in Jobs : JobStep(j) => StepsLeft(j)' \in 0..(StepsLeft(j) - 1)
       /\ \A j \in Jobs : pc[j] # "free" => StepsLeft(j)' <= StepsLeft(j)
       /\ \A c \in Callers : Continue(c) => CallStepsLeft(c)' \in 0..(CallStepsLeft(c) - 1)
       /\ \A c \in Callers : ~Outside(c) => CallStepsLeft(c)' <= CallStepsLeft(c)]_vars

\* Every task ends: no worker waits forever, and a succession is never left
\* waiting for a predecessor.
TasksEnd == \A j \in Jobs : Live(j) ~> ~Live(j)

\* Every call returns, or raises.
CallsReturn == \A c \in Callers : ~Outside(c) ~> Outside(c)

\* The monitor stops when there is nothing left to report.
MonitorStops == monitor = "running" ~> monitor # "running"
=============================================================================
