-------------------------- MODULE ChunkSuccession --------------------------
(***************************************************************************)
(* run_chunk_succession: the task that turns the file of a predecessor     *)
(* into the file of a smaller successor.  It waits for the predecessor's   *)
(* task, judges what it left, crops the file in place and renames it.      *)
(***************************************************************************)
EXTENDS ChunkState

\* The bytes of the predecessor's file that become the successor's.
StartCrop(j) == job[j].range.start - job[job[j].pred].range.start
EndCrop(j) ==
    IF job[j].range.end # None
    THEN job[j].range.end - job[job[j].pred].range.start
    ELSE bytes[job[j].pred] - 1

PredFailed(j) == job[j].awaits # NoJob /\ exc[job[j].awaits] \in {"refused", "error"}

\* The three reasons to refuse the predecessor's data.
Refused(j) ==
    LET p == job[j].pred IN
    \/ PredFailed(j)
    \/ limit[p] # 0 /\ bytes[p] < limit[p]
    \/ bytes[p] <= 0

\* What happens after the predecessor's task is done, up to the next await.
Decide(j) ==
    \/ /\ Refused(j)
       /\ Finish(j, "ERROR", "refused")
    \/ /\ ~Refused(j)
       /\ pc' = [pc EXCEPT ![j] = "cropping"]
       /\ UNCHANGED <<cancelling, exc, path, status>>

\* The first step; it refuses a successor somebody changed the status of.
StartSuccession(j) ==
    /\ job[j].kind = "succession"
    /\ FirstToRun(j)
    /\ ~cancelling[j]
    /\ IF status[j] # "AWAITING_SUCCESSION"
       THEN Finish(j, "ERROR", "refused")
       ELSE IF job[j].awaits # NoJob
       THEN /\ pc' = [pc EXCEPT ![j] = "awaiting"]
            /\ UNCHANGED <<cancelling, exc, path, status>>
       ELSE Decide(j)
    /\ UNCHANGED <<job, bytes, limit, observer, disk, bookVars, clientVars>>

\* Slips: the predecessor is not awaited; only its completion is expected.
ResumeAtOnce(j) ==
    /\ pc[j] = "awaiting"
    /\ ~cancelling[j]
    /\ Decide(j)
    /\ UNCHANGED <<job, bytes, limit, observer, disk, bookVars, clientVars>>
ResumeOnCompletion(j) ==
    /\ ResumeAtOnce(j)
    /\ status[job[j].pred] = "COMPLETED"
    /\ Done(job[j].awaits)

Resume(j) ==
    /\ pc[j] = "awaiting"
    /\ ~cancelling[j]
    /\ Done(job[j].awaits)
    /\ Decide(j)
    /\ UNCHANGED <<job, bytes, limit, observer, disk, bookVars, clientVars>>

\* crop_file: it checks the file first and changes it some awaits later.
CheckCrop(j) ==
    /\ pc[j] = "cropping"
    /\ ~cancelling[j]
    /\ IF CanCrop(disk[job[job[j].pred].range], StartCrop(j), EndCrop(j))
       THEN /\ pc' = [pc EXCEPT ![j] = "shifting"]
            /\ UNCHANGED <<cancelling, exc, path, status>>
       ELSE Finish(j, "ERROR", "refused")
    /\ UNCHANGED <<job, bytes, limit, observer, disk, bookVars, clientVars>>

Crop(j) ==
    LET file == job[job[j].pred].range IN
    /\ pc[j] = "shifting"
    /\ ~cancelling[j]
    /\ disk[file].present
    /\ disk' = [disk EXCEPT ![file] = Cropped(@, StartCrop(j), EndCrop(j))]
    /\ pc' = [pc EXCEPT ![j] = "moving"]
    /\ UNCHANGED <<job, cancelling, exc, path, statVars, bookVars, clientVars>>

CropFails(j) ==
    LET file == job[job[j].pred].range IN
    /\ pc[j] = "shifting"
    /\ ~cancelling[j]
    /\ Finish(j, "ERROR", "error")
    /\ \E left \in CropStopped(disk[file], StartCrop(j), EndCrop(j)) :
          disk' = [disk EXCEPT ![file] = IF @.present THEN left ELSE @]
    /\ UNCHANGED <<job, bytes, limit, observer, bookVars, clientVars>>

\* os.replace: the file changes its name, and the file it replaces loses its
\* last one; handles follow the file.
Renamed(from, to) == [disk EXCEPT ![to] = disk[from], ![from] = NoFile]
HandlesRenamed(from, to) ==
    [k \in Jobs |-> IF path[k] = from THEN to
                    ELSE IF path[k] = to THEN NoRange ELSE path[k]]

\* A slip: the predecessor keeps its status.
MoveQuietly(j) ==
    LET p == job[j].pred IN
    /\ pc[j] = "moving"
    /\ ~cancelling[j]
    /\ disk[job[p].range].present
    /\ disk' = Renamed(job[p].range, job[j].range)
    /\ path' = HandlesRenamed(job[p].range, job[j].range)
    /\ bytes' = [bytes EXCEPT ![j] = EndCrop(j) - StartCrop(j) + 1]
    /\ status' = [status EXCEPT ![j] = "COMPLETED"]
    /\ pc' = [pc EXCEPT ![j] = "done"]
    /\ exc' = [exc EXCEPT ![j] = "none"]
    /\ UNCHANGED <<job, cancelling, limit, observer, bookVars, clientVars>>

\* move_data, and the books of both chunks in the same step.
Move(j) ==
    LET p == job[j].pred IN
    /\ pc[j] = "moving"
    /\ ~cancelling[j]
    /\ disk[job[p].range].present
    /\ disk' = Renamed(job[p].range, job[j].range)
    /\ path' = HandlesRenamed(job[p].range, job[j].range)
    /\ bytes' = [bytes EXCEPT ![j] = EndCrop(j) - StartCrop(j) + 1]
    /\ status' = [status EXCEPT ![j] = "COMPLETED", ![p] = "DEPRECATED"]
    /\ pc' = [pc EXCEPT ![j] = "done"]
    /\ exc' = [exc EXCEPT ![j] = "none"]
    /\ UNCHANGED <<job, cancelling, limit, observer, bookVars, clientVars>>

MoveFails(j) ==
    /\ pc[j] = "moving"
    /\ ~cancelling[j]
    /\ Finish(j, "ERROR", "error")
    /\ UNCHANGED <<job, bytes, limit, observer, disk, bookVars, clientVars>>

\* remove_limit_observer on the predecessor, and the end of a cancelled task.
GiveUp(j) ==
    /\ Finish(j, "CANCELLED", "cancelled")
    /\ limit' = [limit EXCEPT ![job[j].pred] = 0]
    /\ observer' = [observer EXCEPT ![job[j].pred] = NoJob]

\* A cancellation while the predecessor runs cancels the predecessor too and
\* waits for it.
InterruptAwaiting(j) ==
    /\ pc[j] = "awaiting"
    /\ cancelling[j]
    /\ IF Done(job[j].awaits)
       THEN GiveUp(j)
       ELSE /\ pc' = [pc EXCEPT ![j] = "stopping"]
            /\ status' = [status EXCEPT ![j] = "CANCELLED"]
            /\ cancelling' = [CancelledBy({job[j].awaits}) EXCEPT ![j] = FALSE]
            /\ UNCHANGED <<exc, path, limit, observer>>
    /\ UNCHANGED <<job, bytes, disk, bookVars, clientVars>>

\* A cancellation while the file is changed: the thread that changes it may
\* have done nothing, part or all of its work.
InterruptCropping(j) ==
    LET file == job[job[j].pred].range IN
    /\ pc[j] \in {"cropping", "shifting"}
    /\ cancelling[j]
    /\ GiveUp(j)
    /\ IF pc[j] = "shifting" /\ disk[file].present
       THEN \E left \in CropStopped(disk[file], StartCrop(j), EndCrop(j)) :
               disk' = [disk EXCEPT ![file] = left]
       ELSE UNCHANGED disk
    /\ UNCHANGED <<job, bytes, bookVars, clientVars>>

InterruptMoving(j) ==
    LET from == job[job[j].pred].range
        to   == job[j].range
    IN
    /\ pc[j] = "moving"
    /\ cancelling[j]
    /\ status' = [status EXCEPT ![j] = "CANCELLED"]
    /\ pc' = [pc EXCEPT ![j] = "done"]
    /\ exc' = [exc EXCEPT ![j] = "cancelled"]
    /\ cancelling' = [cancelling EXCEPT ![j] = FALSE]
    /\ limit' = [limit EXCEPT ![job[j].pred] = 0]
    /\ observer' = [observer EXCEPT ![job[j].pred] = NoJob]
    /\ \/ UNCHANGED <<disk, path>>
       \/ /\ disk[from].present
          /\ disk' = Renamed(from, to)
          /\ path' = HandlesRenamed(from, to)
    /\ UNCHANGED <<job, bytes, bookVars, clientVars>>

\* The predecessor a cancelled succession waited for is done.  An error of
\* the predecessor escapes the handler before the observer is removed.
Stopped(j) ==
    /\ pc[j] = "stopping"
    /\ Done(job[j].awaits)
    /\ IF PredFailed(j) /\ ~cancelling[j]
       THEN Finish(j, "CANCELLED", "error") /\ UNCHANGED <<limit, observer>>
       ELSE GiveUp(j)
    /\ UNCHANGED <<job, bytes, disk, bookVars, clientVars>>

SuccessionStep(j) ==
    \/ StartSuccession(j)
    \/ Resume(j)
    \/ CheckCrop(j)
    \/ Crop(j)
    \/ CropFails(j)
    \/ Move(j)
    \/ MoveFails(j)
    \/ InterruptAwaiting(j)
    \/ InterruptCropping(j)
    \/ InterruptMoving(j)
    \/ Stopped(j)
=============================================================================
