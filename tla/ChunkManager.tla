---------------------------- MODULE ChunkManager ----------------------------
(***************************************************************************)
(* The public operations of ChunkManager, the progress monitor, and the    *)
(* whole system: callers, monitor, workers and successions interleaved at  *)
(* every await.  A synchronous method is one action; a coroutine is cut    *)
(* where it suspends, and call[c] remembers what it needs afterwards.      *)
(***************************************************************************)
EXTENDS ChunkWorker, ChunkSuccession

CONSTANTS
    Starts,      \* the ranges callers pass to start_chunk
    Resizes,     \* the <<current, new>> pairs they pass to resize_chunk
    Operations,  \* the other operations they use
    Manners      \* the rules of AllManners they keep to

AllOperations == {"cancel", "delete", "waitFirst", "waitAll", "waitTimed",
                  "cancelAll", "close", "cleanup"}

\* What a careful client does, because the documentation promises nothing to
\* one that does not: it calls nothing but a wait while the manager shuts down;
\* it leaves a range alone while another caller cancels or deletes it; it
\* leaves a chunk alone while a successor takes its file, and gives it one
\* successor, of a range the manager does not know; it collects an ended chunk
\* before deleting it; and it starts no range that overlaps a chunk that has
\* not failed.
AllManners == {"shutdown", "busy", "successor", "collect", "disjoint"}

ASSUME ClientAssumption ==
    /\ Starts \subseteq Ranges
    /\ Resizes \subseteq Ranges \X Ranges
    /\ Operations \subseteq AllOperations
    /\ Manners \subseteq AllManners

\* Where a caller is: outside the manager, after an exception out of it, or
\* at one of the awaits of its coroutines, named after what is awaited.
CallRecord == [op    : AllOperations \union {"none"},
               at    : {"idle", "raised", "init", "join", "wait", "woken", "gather",
                        "unlink", "purge"},
               range : Ranges \union {NoRange},
               jobs  : SUBSET Jobs,
               files : SUBSET Ranges]

Idle   == [op |-> "none", at |-> "idle", range |-> NoRange, jobs |-> {}, files |-> {}]
Raised == [Idle EXCEPT !.at = "raised"]

Outside(c) == call[c].at \in {"idle", "raised"}
Return(c)  == call' = [call EXCEPT ![c] = Idle]
Raise(c)   == call' = [call EXCEPT ![c] = Raised]
Suspend(c, op, at, range, jobs, files) ==
    call' = [call EXCEPT ![c] =
        [op |-> op, at |-> at, range |-> range, jobs |-> jobs, files |-> files]]

Tracked   == {tasks[r] : r \in Ranges} \ {NoJob}
StatsJobs == {stats[r] : r \in Ranges} \ {NoJob}

NoTasks == [r \in Ranges |-> NoJob]

\* A slip: the monitor is stopped with the chunk that ends.
StopMonitorAlways(newTasks) ==
    monitor' = IF newTasks = NoTasks \/ newTasks # tasks THEN "none" ELSE monitor

\* _check_stop_monitor, after the tasks have become newTasks.
CheckStopMonitor(newTasks) ==
    monitor' = IF newTasks = NoTasks THEN "none" ELSE monitor

-----------------------------------------------------------------------------
(* The rules of careful clients                                            *)

\* Some unfinished succession takes its file from job j.
Inherited(j) == \E k \in Jobs : job[k].kind = "succession" /\ job[k].pred = j /\ Live(k)

ShuttingDown == cleaned \/ \E c \in Callers : call[c].at \in {"gather", "purge"}
Busy(r) == \E c \in Callers : call[c].range = r

Overlap(r, s) == /\ s.end # None => r.start <= s.end
                 /\ r.end # None => s.start <= r.end

MayCall     == "shutdown" \in Manners => ~ShuttingDown
MayTouch(r) ==
    /\ MayCall
    /\ "busy" \in Manners => ~Busy(r)
    /\ "successor" \in Manners /\ stats[r] # NoJob => ~Inherited(stats[r])

MayStart(r) ==
    /\ MayTouch(r)
    /\ "disjoint" \in Manners => \A s \in Ranges \ {r} :
          Overlap(r, s) /\ stats[s] # NoJob => status[stats[s]] \in {"ERROR", "CANCELLED"}
MayResize(current, new) ==
    /\ MayTouch(current)
    /\ "busy" \in Manners => ~Busy(new)
    /\ "successor" \in Manners =>
          /\ stats[new] = NoJob /\ tasks[new] = NoJob
          /\ \A k \in Jobs : job[k].kind = "succession" => job[k].pred # stats[current]
MayDelete(r) ==
    /\ MayTouch(r)
    /\ "collect" \in Manners /\ tasks[r] # NoJob => Live(tasks[r])
MayShutDown == "shutdown" \in Manners => ~ShuttingDown /\ \A c \in Callers : Outside(c)

-----------------------------------------------------------------------------
(* start_chunk and resize_chunk                                            *)

\* A slip: stats of an earlier job of the range are kept.
RegisterTaskOnly(j, kind, r, pred, awaits, newStatus) ==
    /\ NextJob(j)
    /\ job' = [job EXCEPT ![j] =
                 [kind |-> kind, range |-> r, pred |-> pred, awaits |-> awaits]]
    /\ pc' = [pc EXCEPT ![j] = "created"]
    /\ status' = [status EXCEPT ![j] = newStatus]
    /\ stats' = [stats EXCEPT ![r] = IF @ = NoJob THEN j ELSE @]
    /\ tasks' = [tasks EXCEPT ![r] = j]

\* _register_chunk_stats and create_task: a new job for the range.
Register(j, kind, r, pred, awaits, newStatus) ==
    /\ NextJob(j)
    /\ job' = [job EXCEPT ![j] =
                 [kind |-> kind, range |-> r, pred |-> pred, awaits |-> awaits]]
    /\ pc' = [pc EXCEPT ![j] = "created"]
    /\ status' = [status EXCEPT ![j] = newStatus]
    /\ stats' = [stats EXCEPT ![r] = j]
    /\ tasks' = [tasks EXCEPT ![r] = j]

\* A range that is COMPLETED or has a task is left alone.
StartChunk(r) ==
    /\ r \in Starts
    /\ MayStart(r)
    /\ stats[r] # NoJob => status[stats[r]] # "COMPLETED"
    /\ tasks[r] = NoJob
    /\ \E j \in Jobs : Register(j, "download", r, NoJob, NoJob, "PENDING")
    /\ monitor' = "running"
    /\ UNCHANGED <<cancelling, exc, path, bytes, limit, observer, disk, clientVars>>

\* add_limit_observer: a limit that is already reached calls the callback at
\* once and is not recorded.
Observe(current, waited, successor, useful) ==
    IF bytes[current] >= useful
    THEN /\ cancelling' = IF waited # NoJob /\ ~Done(waited)
                             /\ bytes[current] # Total(current)
                          THEN CancelledBy({waited}) ELSE cancelling
         /\ UNCHANGED <<limit, observer>>
    ELSE /\ limit' = [limit EXCEPT ![current] = useful]
         /\ observer' = [observer EXCEPT ![current] = successor]
         /\ UNCHANGED cancelling

ResizeChunk(current, new) ==
    LET a == stats[current] IN
    /\ <<current, new>> \in Resizes
    /\ MayResize(current, new)
    /\ Contains(current, new) /\ new # current
    /\ a # NoJob
    /\ status[a] \in {"PENDING", "DOWNLOADING", "COMPLETED"}
    /\ \E b \in Jobs :
          /\ Register(b, "succession", new, a, tasks[current], "AWAITING_SUCCESSION")
          /\ IF new.end # None /\ status[a] # "COMPLETED"
             THEN Observe(a, tasks[current], b, UsefulBytes(current, new))
             ELSE UNCHANGED <<cancelling, limit, observer>>
    /\ UNCHANGED <<exc, path, bytes, disk, monitor, clientVars>>

-----------------------------------------------------------------------------
(* cancel_chunk and delete_chunk_data                                      *)

Cancellable == {"DOWNLOADING", "PENDING", "AWAITING_SUCCESSION"}

\* The stats entry is popped, and its file is deleted some awaits later.
PopStats(c, r) ==
    /\ stats' = [stats EXCEPT ![r] = NoJob]
    /\ IF stats[r] = NoJob THEN Return(c)
       ELSE Suspend(c, "delete", "unlink", r, {}, {})

\* The call, up to its first suspension: a chunk that is not active is not
\* cancelled, and delete_chunk_data goes on.
CancelOrDelete(c, op, r) ==
    /\ op \in {"cancel", "delete"} \intersect Operations
    /\ Outside(c)
    /\ IF op = "delete" THEN MayDelete(r) ELSE MayCall
    /\ \/ /\ tasks[r] # NoJob /\ stats[r] = NoJob
          /\ Raise(c)
          /\ UNCHANGED <<stats, cancelling>>
       \/ /\ tasks[r] # NoJob /\ stats[r] # NoJob
          /\ status[stats[r]] \in Cancellable
          /\ IF Initiated(tasks[r])
             THEN /\ cancelling' = CancelledBy({tasks[r]})
                  /\ Suspend(c, op, "join", r, {tasks[r]}, {})
             ELSE /\ Suspend(c, op, "init", r, {tasks[r]}, {})
                  /\ UNCHANGED cancelling
          /\ UNCHANGED stats
       \/ /\ op = "delete"
          /\ IF tasks[r] = NoJob THEN stats[r] # NoJob
             ELSE stats[r] # NoJob /\ status[stats[r]] \notin Cancellable
          /\ PopStats(c, r)
          /\ UNCHANGED cancelling
    /\ UNCHANGED <<job, pc, exc, path, statVars, disk, tasks, monitor, cleaned>>

\* The init signal of the task arrived: now it may be cancelled.
CancelInitiated(c) ==
    /\ call[c].at = "init"
    /\ \A j \in call[c].jobs : Initiated(j)
    /\ cancelling' = CancelledBy(call[c].jobs)
    /\ call' = [call EXCEPT ![c].at = "join"]
    /\ UNCHANGED <<job, pc, exc, path, statVars, disk, bookVars, cleaned>>

\* A slip: the entry is left for a wait to collect, whatever follows.
CancelLeavesEntry(c) ==
    /\ call[c].at = "join"
    /\ \A j \in call[c].jobs : Done(j)
    /\ IF call[c].op = "delete" THEN PopStats(c, call[c].range)
       ELSE Return(c) /\ UNCHANGED stats
    /\ UNCHANGED <<taskVars, statVars, disk, tasks, monitor, cleaned>>

\* The task is done: the entry of its range is deleted, whatever it is now.
CancelJoined(c) ==
    LET r == call[c].range IN
    /\ call[c].at = "join"
    /\ \A j \in call[c].jobs : Done(j)
    /\ \/ /\ tasks[r] = NoJob
          /\ Raise(c)
          /\ UNCHANGED bookVars
       \/ /\ tasks[r] # NoJob
          /\ tasks' = [tasks EXCEPT ![r] = NoJob]
          /\ CheckStopMonitor(tasks')
          /\ IF call[c].op = "delete" THEN PopStats(c, r)
             ELSE Return(c) /\ UNCHANGED stats
    /\ UNCHANGED <<taskVars, statVars, disk, cleaned>>

\* A failure to delete the file is logged and forgotten.
Unlinked(file) ==
    /\ disk' = [disk EXCEPT ![file] = NoFile]
    /\ path' = [k \in Jobs |-> IF path[k] = file THEN NoRange ELSE path[k]]

Unlink(c) ==
    /\ call[c].at = "unlink"
    /\ \/ Unlinked(call[c].range)
       \/ UNCHANGED <<disk, path>>
    /\ Return(c)
    /\ UNCHANGED <<job, pc, cancelling, exc, statVars, bookVars, cleaned>>

-----------------------------------------------------------------------------
(* wait_for_first_completed_chunk and wait_for_completed_chunks            *)

WaitOperations == {"waitFirst", "waitAll", "waitTimed"}

\* The event loop resumes a coroutine that awaits a task directly before one
\* that awaits it through asyncio.wait or asyncio.gather.
AwaitersFirst(jobs) ==
    \A c \in Callers :
        call[c].at = "join" => \A j \in call[c].jobs \intersect jobs : ~Done(j)

\* Only one caller holds _wait_lock; another one has not begun before it has it.
\* With no tasks the call returns at once.
WaitBegin(c, op) ==
    /\ op \in WaitOperations \intersect Operations
    /\ Outside(c)
    /\ \A d \in Callers : call[d].at \notin {"wait", "woken"}
    /\ tasks # NoTasks
    /\ Suspend(c, op, "wait", NoRange, Tracked, {})
    /\ UNCHANGED <<taskVars, statVars, disk, bookVars, cleaned>>

\* The timeout, or the callback of a task that is done, wakes the waiter up.
WakeUp(c) ==
    /\ call[c].at = "wait"
    /\ CASE call[c].op = "waitFirst" -> \E j \in call[c].jobs : Done(j)
         [] call[c].op = "waitAll"   -> \A j \in call[c].jobs : Done(j)
         [] call[c].op = "waitTimed" -> TRUE
    /\ AwaitersFirst(call[c].jobs)
    /\ call' = [call EXCEPT ![c].at = "woken"]
    /\ UNCHANGED <<taskVars, statVars, disk, bookVars, cleaned>>

\* What a wait collects; a slip collects what is still running when it times out.
CollectedTimedOut(c) == {r \in Ranges : tasks[r] \in call[c].jobs}
Collected(c) == {r \in Ranges : tasks[r] \in call[c].jobs /\ Done(tasks[r])}

\* The entries whose task is done by now are returned and forgotten, all or none.
WaitEnd(c) ==
    LET completed == Collected(c) IN
    /\ call[c].at = "woken"
    /\ \/ /\ \E r \in completed : stats[r] = NoJob
          /\ Raise(c)
          /\ UNCHANGED bookVars
       \/ /\ \A r \in completed : stats[r] # NoJob
          /\ tasks' = [r \in Ranges |-> IF r \in completed THEN NoJob ELSE tasks[r]]
          /\ CheckStopMonitor(tasks')
          /\ Return(c)
          /\ UNCHANGED stats
    /\ UNCHANGED <<taskVars, statVars, disk, cleaned>>

-----------------------------------------------------------------------------
(* cancel_all_chunks and cleanup                                           *)

\* The tail of cancel_all_chunks and of the coroutine that called it.
ForgetAll(c, op) ==
    /\ tasks' = NoTasks
    /\ CheckStopMonitor(NoTasks)
    /\ IF op = "close" THEN stats' = NoTasks ELSE UNCHANGED stats
    /\ IF op = "cleanup"
       THEN Suspend(c, op, "purge", NoRange, {}, {r \in Ranges : stats[r] # NoJob})
       ELSE Return(c)

\* Slips: no chunk is marked; every chunk with a task is.
MarkedNever(j)  == FALSE
MarkedAlways(j) == \E r \in Ranges : tasks[r] # NoJob /\ stats[r] = j
\* The chunks cancel_all_chunks marks CANCELLED itself, their task having not begun.
MarkedCancelled(j) ==
    /\ \E r \in Ranges : tasks[r] # NoJob /\ stats[r] = j
    /\ status[j] \in {"PENDING", "AWAITING_SUCCESSION"}

\* Cancel every task; a chunk that has not begun is marked at once.
CancelAll(c, op) ==
    /\ op \in {"cancelAll", "close", "cleanup"} \intersect Operations
    /\ Outside(c)
    /\ MayShutDown
    /\ IF op = "cancelAll" THEN UNCHANGED cleaned ELSE ~cleaned /\ cleaned' = TRUE
    /\ cancelling' = CancelledBy(Tracked)
    /\ status' = [j \in Jobs |->
                    IF MarkedCancelled(j) THEN "CANCELLED" ELSE status[j]]
    /\ IF tasks = NoTasks
       THEN ForgetAll(c, op)
       ELSE Suspend(c, op, "gather", NoRange, Tracked, {}) /\ UNCHANGED bookVars
    /\ UNCHANGED <<job, pc, exc, path, bytes, limit, observer, disk>>

\* A slip: the tasks are cancelled but not awaited.
GatherAtOnce(c) ==
    /\ call[c].at = "gather"
    /\ ForgetAll(c, call[c].op)
    /\ UNCHANGED <<taskVars, statVars, disk, cleaned>>

GatherEnd(c) ==
    /\ call[c].at = "gather"
    /\ \A j \in call[c].jobs : Done(j)
    /\ AwaitersFirst(call[c].jobs)
    /\ ForgetAll(c, call[c].op)
    /\ UNCHANGED <<taskVars, statVars, disk, cleaned>>

\* cleanup_temp_files deletes all the files; or it fails on some of them, or on
\* the listing before it deletes any, and leaves _chunks_stats as it is.
Purge(c) ==
    /\ call[c].at = "purge"
    /\ \E gone \in SUBSET call[c].files :
          /\ disk' = [r \in Ranges |-> IF r \in gone THEN NoFile ELSE disk[r]]
          /\ path' = [k \in Jobs |-> IF path[k] \in gone THEN NoRange ELSE path[k]]
          /\ \/ gone = call[c].files /\ stats' = NoTasks /\ Return(c)
             \/ (gone # call[c].files \/ gone = {})
                /\ UNCHANGED stats /\ Raise(c)
    /\ UNCHANGED <<job, pc, cancelling, exc, statVars, tasks, monitor, cleaned>>

-----------------------------------------------------------------------------
\* A slip: a chunk that failed keeps the monitor running.
MonitorEndsOnSuccess ==
    /\ monitor = "running"
    /\ \A j \in StatsJobs : status[j] = "COMPLETED"
    /\ monitor' = "done"
    /\ UNCHANGED <<taskVars, statVars, disk, stats, tasks, clientVars>>

\* One pass of the monitor's loop that finds nothing pending or downloading.
MonitorEnds ==
    /\ monitor = "running"
    /\ \A j \in StatsJobs : status[j] \notin {"PENDING", "DOWNLOADING"}
    /\ monitor' = "done"
    /\ UNCHANGED <<taskVars, statVars, disk, stats, tasks, clientVars>>

-----------------------------------------------------------------------------
(* The system                                                              *)

Found(i) == Recovered[i]
InitialJob(j) == j <= Len(Recovered)

\* A manager right after __init__: the recovered chunks are complete on disk.
Init ==
    /\ job = [j \in Jobs |-> IF InitialJob(j)
                             THEN [NoRecord EXCEPT !.kind = "recovered", !.range = Found(j)]
                             ELSE NoRecord]
    /\ pc = [j \in Jobs |-> IF InitialJob(j) THEN "done" ELSE "free"]
    /\ cancelling = [j \in Jobs |-> FALSE]
    /\ exc = [j \in Jobs |-> "none"]
    /\ status = [j \in Jobs |-> IF InitialJob(j) THEN "COMPLETED" ELSE "PENDING"]
    /\ bytes = [j \in Jobs |-> IF InitialJob(j) THEN TotalBytes(Found(j), SourceSize) ELSE 0]
    /\ limit = [j \in Jobs |-> 0]
    /\ observer = [j \in Jobs |-> NoJob]
    /\ path = [j \in Jobs |-> NoRange]
    /\ disk = [r \in Ranges |-> IF \E i \in 1..Len(Recovered) : Found(i) = r
                                THEN Whole(r.start, TotalBytes(r, SourceSize)) ELSE NoFile]
    /\ stats = [r \in Ranges |-> IF \E i \in 1..Len(Recovered) : Found(i) = r
                                 THEN CHOOSE i \in 1..Len(Recovered) : Found(i) = r
                                 ELSE NoJob]
    /\ tasks = NoTasks
    /\ monitor = "none"
    /\ call = [c \in Callers |-> Idle]
    /\ cleaned = FALSE

JobStep(j) == Drop(j) \/ WorkerStep(j) \/ SuccessionStep(j)

\* A caller that is suspended in a coroutine of the manager goes on.
Continue(c) ==
    \/ CancelInitiated(c)
    \/ CancelJoined(c)
    \/ Unlink(c)
    \/ WakeUp(c)
    \/ WaitEnd(c)
    \/ GatherEnd(c)
    \/ Purge(c)

Request ==
    \/ \E r \in Starts : StartChunk(r)
    \/ \E p \in Resizes : ResizeChunk(p[1], p[2])
    \/ \E c \in Callers, op \in Operations :
          \/ \E r \in Ranges : CancelOrDelete(c, op, r)
          \/ WaitBegin(c, op)
          \/ CancelAll(c, op)

Next ==
    \/ Request
    \/ \E c \in Callers : Continue(c)
    \/ \E j \in Jobs : JobStep(j)
    \/ MonitorEnds

Spec == Init /\ [][Next]_vars

\* Every await of a task ends: the network operations have a timeout, the
\* bytes of a response are finite, and the storage answers or fails.  A caller
\* is resumed when what it awaits is done, and the monitor wakes up twice a
\* second.  No caller is obliged to call anything.
Fairness ==
    /\ \A j \in Jobs : WF_vars(JobStep(j))
    /\ \A c \in Callers : WF_vars(Continue(c))
    /\ WF_vars(MonitorEnds)

FairSpec == Spec /\ Fairness
=============================================================================
