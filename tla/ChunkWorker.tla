---------------------------- MODULE ChunkWorker ----------------------------
(***************************************************************************)
(* download_chunk_supervised: one task that streams one range into one     *)
(* file, through the throttler, which counts the bytes in the stats, and   *)
(* through save_binary_data, which writes them.  Every await at which the  *)
(* task can be cancelled or can fail ends an action.                       *)
(***************************************************************************)
EXTENDS ChunkState

\* What the server sends for the range of job j: where it starts, how much.
SourceFrom(j) == IF RangedServer THEN job[j].range.start ELSE 0
Available(j) ==
    LET last == IF RangedServer /\ job[j].range.end # None
                THEN job[j].range.end ELSE SourceSize - 1
    IN  last - SourceFrom(j) + 1

\* The first step, up to the opening of the file.
StartDownload(j) ==
    /\ job[j].kind = "download"
    /\ FirstToRun(j)
    /\ ~cancelling[j]
    /\ pc' = [pc EXCEPT ![j] = "opening"]
    /\ status' = [status EXCEPT ![j] = "DOWNLOADING"]
    /\ UNCHANGED <<job, cancelling, exc, path, bytes, limit, observer, disk,
                   bookVars, clientVars>>

\* A slip: the file is opened for appending.
OpenAppends(j) ==
    /\ pc[j] = "opening"
    /\ ~cancelling[j]
    /\ pc' = [pc EXCEPT ![j] = "streaming"]
    /\ path' = [path EXCEPT ![j] = job[j].range]
    /\ disk' = [disk EXCEPT ![job[j].range] = IF @.present THEN @ ELSE Opened(SourceFrom(j))]
    /\ UNCHANGED <<job, cancelling, exc, statVars, bookVars, clientVars>>

Open(j) ==
    /\ pc[j] = "opening"
    /\ ~cancelling[j]
    /\ pc' = [pc EXCEPT ![j] = "streaming"]
    /\ path' = [path EXCEPT ![j] = job[j].range]
    /\ disk' = [disk EXCEPT ![job[j].range] = Opened(SourceFrom(j))]
    /\ UNCHANGED <<job, cancelling, exc, statVars, bookVars, clientVars>>

OpenFails(j) ==
    /\ pc[j] = "opening"
    /\ ~cancelling[j]
    /\ Finish(j, "ERROR", "error")
    /\ UNCHANGED <<job, bytes, limit, observer, disk, bookVars, clientVars>>

\* stats.add_qt_bytes_downloaded: count the bytes and, when an armed limit is
\* reached, disarm it and call create_succession_stop_callback's callback,
\* which cancels this very task unless the chunk is complete by now.
LimitReached(j, n) == observer[j] # NoJob /\ bytes[j] + n >= limit[j]
StopsAt(j, n) ==
    LET successor == observer[j] IN
    /\ LimitReached(j, n)
    /\ job[successor].awaits # NoJob
    /\ ~Done(job[successor].awaits)
    /\ bytes[j] + n # Total(j)
Count(j, n) ==
    /\ bytes' = [bytes EXCEPT ![j] = @ + n]
    /\ observer' = IF LimitReached(j, n) THEN [observer EXCEPT ![j] = NoJob] ELSE observer
    /\ cancelling' = IF StopsAt(j, n)
                     THEN CancelledBy({job[observer[j]].awaits}) ELSE cancelling

\* A block of n bytes arrives, is counted and then written.
Receive(j, n) ==
    /\ pc[j] = "streaming"
    /\ ~cancelling[j]
    /\ n <= Available(j) - bytes[j]
    /\ Count(j, n)
    /\ disk' = IF path[j] = NoRange THEN disk
               ELSE [disk EXCEPT ![path[j]] = Written(@, bytes[j], n)]
    /\ UNCHANGED <<job, pc, exc, path, status, limit, bookVars, clientVars>>

\* The same, but the write fails.  The shield hides the error from a task
\* that has just been cancelled: it goes on as cancelled.
LoseWrite(j, n) ==
    /\ pc[j] = "streaming"
    /\ ~cancelling[j]
    /\ n <= Available(j) - bytes[j]
    /\ Count(j, n)
    /\ IF cancelling'[j]
       THEN UNCHANGED <<pc, exc>>
       ELSE /\ pc' = [pc EXCEPT ![j] = "flushing"]
            /\ exc' = [exc EXCEPT ![j] = "error"]
    /\ UNCHANGED <<job, path, status, limit, disk, bookVars, clientVars>>

\* The response ends, early or not, or the connection breaks: save_binary_data
\* enters its finally block.
EndStream(j, outcome) ==
    /\ pc[j] = "streaming"
    /\ ~cancelling[j]
    /\ outcome \in {"none", "error"}
    /\ pc' = [pc EXCEPT ![j] = "flushing"]
    /\ exc' = [exc EXCEPT ![j] = outcome]
    /\ UNCHANGED <<job, cancelling, path, statVars, disk, bookVars, clientVars>>

\* The CancelledError handler.
StatusWhenCancelled(j) ==
    IF limit[j] # 0 /\ bytes[j] >= limit[j] THEN "DEPRECATED" ELSE "CANCELLED"

\* A pending cancellation is delivered.  While the file is being opened, the
\* thread that opens it may already have truncated it.
InterruptOpening(j) ==
    /\ pc[j] = "opening"
    /\ cancelling[j]
    /\ Finish(j, StatusWhenCancelled(j), "cancelled")
    /\ disk' \in {disk, [disk EXCEPT ![job[j].range] = Opened(SourceFrom(j))]}
    /\ UNCHANGED <<job, bytes, limit, observer, bookVars, clientVars>>

InterruptStreaming(j) ==
    /\ pc[j] = "streaming"
    /\ cancelling[j]
    /\ pc' = [pc EXCEPT ![j] = "flushing"]
    /\ exc' = [exc EXCEPT ![j] = "cancelled"]
    /\ cancelling' = [cancelling EXCEPT ![j] = FALSE]
    /\ UNCHANGED <<job, path, statVars, disk, bookVars, clientVars>>

InterruptFlushing(j) ==
    /\ pc[j] = "flushing"
    /\ cancelling[j]
    /\ Finish(j, StatusWhenCancelled(j), "cancelled")
    /\ UNCHANGED <<job, bytes, limit, observer, disk, bookVars, clientVars>>

\* A slip: only a chunk with too many bytes is refused.
SizeOver(j) == Total(j) # None /\ bytes[j] > Total(j)

\* The file is on disk: the size check, or the exception that was pending.
SizeWrong(j) == Total(j) # None /\ bytes[j] # Total(j)

Flush(j) ==
    /\ pc[j] = "flushing"
    /\ ~cancelling[j]
    /\ \/ exc[j] = "none" /\ ~SizeWrong(j) /\ Finish(j, "COMPLETED", "none")
       \/ exc[j] = "none" /\ SizeWrong(j) /\ Finish(j, "ERROR", "error")
       \/ exc[j] = "error" /\ Finish(j, "ERROR", "error")
       \/ exc[j] = "cancelled" /\ Finish(j, StatusWhenCancelled(j), "cancelled")
    /\ UNCHANGED <<job, bytes, limit, observer, disk, bookVars, clientVars>>

\* A slip: the download is tried again.
FlushRetries(j) ==
    /\ pc[j] = "flushing"
    /\ ~cancelling[j]
    /\ pc' = [pc EXCEPT ![j] = "opening"]
    /\ UNCHANGED <<job, cancelling, exc, path, statVars, disk, bookVars, clientVars>>

FlushFails(j) ==
    /\ pc[j] = "flushing"
    /\ ~cancelling[j]
    /\ Finish(j, "ERROR", "error")
    /\ UNCHANGED <<job, bytes, limit, observer, disk, bookVars, clientVars>>

WorkerStep(j) ==
    \/ StartDownload(j)
    \/ Open(j)
    \/ OpenFails(j)
    \/ \E n \in 1..SourceSize : Receive(j, n) \/ LoseWrite(j, n)
    \/ \E outcome \in {"none", "error"} : EndStream(j, outcome)
    \/ InterruptOpening(j)
    \/ InterruptStreaming(j)
    \/ InterruptFlushing(j)
    \/ Flush(j)
    \/ FlushFails(j)
=============================================================================
