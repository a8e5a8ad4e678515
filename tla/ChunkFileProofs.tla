-------------------------- MODULE ChunkFileProofs --------------------------
(***************************************************************************)
(* The third layer of the argument about ChunkManager: with a server that  *)
(* honours ranges and careful callers, the files hold what the stats say,  *)
(* and no byte is counted in two chunks.                                   *)
(***************************************************************************)
EXTENDS ChunkClientProofs, FiniteSetTheorems

(***************************************************************************)
(* The invariant: the files                                                *)
(***************************************************************************)

\* A server that honours ranges, and no chunk whose size is known but not
\* written down in its range becomes a successor.
PlainSource ==
    /\ RangedServer
    /\ FileSize = None \/ \A p \in Resizes : p[2].end # None

\* The bytes at the start of the file come from the start of the chunk.
Sound(file, start) == ~file.torn /\ file.from = start

\* While a worker is neither called off nor in trouble, its file holds exactly
\* the bytes that were counted.
StreamAgrees(j) ==
    LET file == disk[job[j].range] IN
    /\ pc[j] \in {"streaming", "flushing"} => Sound(file, job[j].range.start)
    /\ pc[j] = "streaming" /\ ~cancelling[j] => Holds(file, job[j].range.start, bytes[j])
    /\ pc[j] = "flushing" /\ exc[j] = "none" => Holds(file, job[j].range.start, bytes[j])

\* What a task that is done has left, until a succession changes it: however
\* it ended, a successor may take bytes from the start of the file.
Rests(j) == Done(j) /\ stats[job[j].range] = j /\ ~Consumed(j)
RestAgrees(j) ==
    Rests(j) =>
        /\ bytes[j] > 0 /\ disk[job[j].range].present
              => Sound(disk[job[j].range], job[j].range.start)
        /\ status[j] = "COMPLETED" /\ ~cleaned => Intact(j)

\* What a succession knows of its predecessor's file, which nobody else changes.
CropAgrees(j) ==
    job[j].kind = "succession" =>
        LET p    == job[j].pred
            file == disk[job[p].range]
        IN
        /\ <<job[p].range, job[j].range>> \in Resizes /\ job[p].range # job[j].range
        /\ Live(j) => bytes[j] = 0
        /\ pc[j] \in {"cropping", "shifting", "moving"} => bytes[p] > 0
        /\ pc[j] = "shifting" => /\ CanCrop(file, StartCrop(j), EndCrop(j))
                                 /\ Sound(file, job[p].range.start)
        /\ pc[j] = "moving" => Holds(file, job[j].range.start, EndCrop(j) - StartCrop(j) + 1)

FileInvariant == \A j \in Jobs : StreamAgrees(j) /\ RestAgrees(j) /\ CropAgrees(j)

(***************************************************************************)
(* Whose file is whose                                                     *)
(***************************************************************************)

\* The files a step of a task may change: its own, and its predecessor's once
\* a succession crops it.
DiskFrame(j) ==
    \A r \in Ranges :
        \/ disk'[r] = disk[r]
        \/ r = job[j].range
        \/ pc[j] \in {"shifting", "moving"} /\ r = job[job[j].pred].range

LEMMA WorkerDisk ==
    ASSUME ClientInvariant, NEW j \in Jobs, WorkerStep(j)
    PROVE  DiskFrame(j)
<1>1. CASE disk' = disk
  BY <1>1 DEF DiskFrame
<1>2. CASE \E file : disk' = [disk EXCEPT ![job[j].range] = file]
  BY <1>2, BookTypes DEF ClientInvariant, DiskFrame
<1>3. ASSUME NEW n, Receive(j, n) PROVE DiskFrame(j)
  <2>1. path[j] = job[j].range
    BY <1>3 DEF ClientInvariant, CarefulInvariant, HandlesAgree, Receive
  <2>2. QED
    BY <1>1, <1>2, <1>3, <2>1 DEF Receive
<1>4. ASSUME NEW n, LoseWrite(j, n) PROVE DiskFrame(j)
  BY <1>1, <1>4 DEF LoseWrite
<1>5. ASSUME NEW outcome, EndStream(j, outcome) PROVE DiskFrame(j)
  BY <1>1, <1>5 DEF EndStream
<1>6. CASE Open(j) \/ InterruptOpening(j)
  BY <1>1, <1>2, <1>6 DEF Open, InterruptOpening
<1>7. CASE \/ StartDownload(j) \/ OpenFails(j) \/ InterruptStreaming(j)
           \/ InterruptFlushing(j) \/ Flush(j) \/ FlushFails(j)
  BY <1>1, <1>7 DEF StartDownload, OpenFails, InterruptStreaming, InterruptFlushing, Flush,
                    FlushFails
<1>8. QED
  BY <1>3, <1>4, <1>5, <1>6, <1>7 DEF WorkerStep

LEMMA SuccessionDisk ==
    ASSUME ClientInvariant, NEW j \in Jobs, SuccessionStep(j)
    PROVE  DiskFrame(j)
<1> DEFINE from == job[job[j].pred].range
           to   == job[j].range
<1>1. CASE disk' = disk
  BY <1>1 DEF DiskFrame
<1>2. CASE pc[j] \in {"shifting", "moving"} /\ \E file : disk' = [disk EXCEPT ![from] = file]
  BY <1>2, BookTypes DEF ClientInvariant, DiskFrame
<1>3. CASE pc[j] = "moving" /\ disk' = Renamed(from, to)
  BY <1>3, BookTypes DEF ClientInvariant, DiskFrame, Renamed
<1>4. CASE \/ StartSuccession(j) \/ Resume(j) \/ CheckCrop(j) \/ MoveFails(j)
           \/ InterruptAwaiting(j) \/ Stopped(j)
  BY <1>1, <1>4 DEF StartSuccession, Resume, CheckCrop, MoveFails, InterruptAwaiting, Stopped
<1>5. CASE Crop(j) \/ CropFails(j) \/ InterruptCropping(j)
  BY <1>1, <1>2, <1>5 DEF Crop, CropFails, InterruptCropping
<1>6. CASE Move(j) \/ InterruptMoving(j)
  BY <1>1, <1>3, <1>6 DEF Move, InterruptMoving
<1>7. QED
  BY <1>4, <1>5, <1>6 DEF SuccessionStep

LEMMA JobDisk ==
    ASSUME ClientInvariant, NEW j \in Jobs, JobStep(j)
    PROVE  DiskFrame(j)
<1>1. CASE Drop(j)
  BY <1>1 DEF Drop, DiskFrame
<1>2. QED
  BY <1>1, WorkerDisk, SuccessionDisk DEF JobStep

\* A succession that has opened its predecessor's file is not refused any more.
LEMMA OpenedIsNotRefused ==
    ASSUME BookInvariant, NEW j \in Jobs, JobStep(j), pc[j] \in {"shifting", "moving"},
           pc'[j] = "done"
    PROVE  exc'[j] # "refused"
<1>1. Crop(j) \/ CropFails(j) \/ Move(j) \/ MoveFails(j) \/ InterruptCropping(j) \/ InterruptMoving(j)
  BY PlaceKinds DEF JobStep, Drop, FirstToRun, WorkerStep, SuccessionStep, StartDownload, Open,
     OpenFails, InterruptOpening, Receive, LoseWrite, EndStream, InterruptStreaming, Flush,
     FlushFails, InterruptFlushing, StartSuccession, Resume, CheckCrop, InterruptAwaiting, Stopped
<1>2. exc \in [Jobs -> {"none", "refused", "error", "cancelled"}] /\ pc \in [Jobs -> Place]
  BY BookTypes
<1>3. CASE Crop(j)
  BY <1>2, <1>3 DEF Crop
<1>4. CASE \/ CropFails(j) \/ Move(j) \/ MoveFails(j) \/ InterruptCropping(j) \/ InterruptMoving(j)
  BY <1>2, <1>4 DEF CropFails, Move, MoveFails, InterruptCropping, InterruptMoving, GiveUp, Finish
<1>5. QED
  BY <1>1, <1>3, <1>4

\* A file is consumed for good.
LEMMA StillConsumed ==
    ASSUME ClientInvariant, NEW j \in Jobs, JobStep(j), NEW k, Consumed(k)
    PROVE  Consumed(k)'
<1>1. PICK i \in Jobs : /\ job[i].kind = "succession" /\ job[i].pred = k
                        /\ \/ pc[i] \in {"shifting", "moving"}
                           \/ pc[i] = "done" /\ exc[i] # "refused"
  BY DEF Consumed
<1>2. /\ Shape(j) /\ job' = job /\ Live(j)
      /\ \A m \in Jobs \ {j} : pc'[m] = pc[m] /\ exc'[m] = exc[m]
  BY JobStepShape, ShapeFrame DEF ClientInvariant
<1>3. \/ pc'[i] \in {"shifting", "moving"}
      \/ pc'[i] = "done" /\ exc'[i] # "refused"
  <2>1. CASE i # j
    BY <1>1, <1>2, <2>1
  <2>2. CASE i = j
    <3>1. pc[j] \in {"shifting", "moving"}
      BY <1>1, <1>2, <2>2 DEF Live
    <3>2. pc'[j] \in {"shifting", "moving", "done"}
      BY <1>2, <3>1 DEF Shape, Drops, Begins, GoesOn, Stops, Ends, HandsOver
    <3>3. QED
      BY <2>2, <3>1, <3>2, OpenedIsNotRefused DEF ClientInvariant
  <2>3. QED
    BY <2>1, <2>2
<1>4. QED
  BY <1>1, <1>2, <1>3 DEF Consumed

\* A step of a task changes no file that matters to another job: not the file
\* another worker writes, not one that rests, not one another succession crops.
LEMMA OtherFiles ==
    ASSUME ClientInvariant, NEW j \in Jobs, JobStep(j), NEW k \in Jobs, k # j
    PROVE  /\ pc[k] \in {"streaming", "flushing"} \/ Rests(k)
                 => disk'[job[k].range] = disk[job[k].range]
           /\ pc[k] \in {"cropping", "shifting", "moving"}
                 => /\ job[k].pred # j
                    /\ disk'[job[job[k].pred].range] = disk[job[job[k].pred].range]
<1>1. DiskFrame(j) /\ Live(j)
  BY JobDisk, JobStepShape, ShapeFrame DEF ClientInvariant
<1>2. stats[job[j].range] = j
  BY <1>1, LiveFacts
<1>3. pc[j] \in {"shifting", "moving"} =>
         /\ job[j].kind = "succession"
         /\ stats[job[job[j].pred].range] = job[j].pred
         /\ Consumed(job[j].pred) /\ Done(job[j].pred) /\ job[j].pred \in Jobs
  <2>1. pc[j] \in {"shifting", "moving"} => job[j].kind = "succession"
    BY PlaceKinds DEF ClientInvariant
  <2>2. QED
    BY <1>1, <2>1, PredFacts DEF Consumed
<1>4. ASSUME pc[k] \in {"streaming", "flushing"} \/ Rests(k)
      PROVE  disk'[job[k].range] = disk[job[k].range]
  <2>1. /\ job[k].range \in Ranges /\ stats[job[k].range] = k
        /\ Live(k) \/ Rests(k)
    <3>1. CASE Rests(k)
      BY <3>1, PlaceKinds DEF ClientInvariant, Rests, Done
    <3>2. CASE pc[k] \in {"streaming", "flushing"}
      BY <3>2, LiveFacts DEF Live
    <3>3. QED
      BY <1>4, <3>1, <3>2
  <2>2. job[k].range # job[j].range
    BY <1>2, <2>1
  <2>3. ~(pc[j] \in {"shifting", "moving"} /\ job[k].range = job[job[j].pred].range)
    BY <1>3, <2>1 DEF Rests, Live, Done
  <2>4. QED
    BY <1>1, <2>1, <2>2, <2>3 DEF DiskFrame
<1>5. ASSUME pc[k] \in {"cropping", "shifting", "moving"}
      PROVE  /\ job[k].pred # j
             /\ disk'[job[job[k].pred].range] = disk[job[job[k].pred].range]
  <2>1. Live(k) /\ job[k].kind = "succession"
    BY <1>5, PlaceKinds DEF ClientInvariant, Live
  <2>2. /\ job[job[k].pred].range \in Ranges /\ Done(job[k].pred) /\ job[k].pred \in Jobs
        /\ stats[job[job[k].pred].range] = job[k].pred
        /\ \A i \in Jobs : job[i].kind = "succession" /\ job[i].pred = job[k].pred => i = k
    BY <1>5, <2>1, PredFacts
  <2>3. job[k].pred # j
    BY <1>1, <2>2 DEF Live, Done
  <2>4. job[job[k].pred].range # job[j].range
    BY <1>2, <2>2, <2>3
  <2>5. ~(pc[j] \in {"shifting", "moving"} /\ job[job[k].pred].range = job[job[j].pred].range)
    BY <1>3, <2>2
  <2>6. QED
    BY <1>1, <2>2, <2>3, <2>4, <2>5 DEF DiskFrame
<1>6. QED
  BY <1>4, <1>5

LEMMA OtherAgree ==
    ASSUME ClientInvariant, FileInvariant, NEW j \in Jobs, JobStep(j), NEW k \in Jobs, k # j
    PROVE  StreamAgrees(k)' /\ RestAgrees(k)' /\ CropAgrees(k)'
<1>1. /\ job' = job /\ stats' = stats /\ cleaned' = cleaned /\ Shape(j)
      /\ \A i \in Jobs \ {j} : pc'[i] = pc[i] /\ exc'[i] = exc[i] /\ bytes'[i] = bytes[i]
      /\ cancelling[k] => cancelling'[k]
  <2>1. Shape(j)
    BY JobStepShape DEF ClientInvariant
  <2>2. QED
    BY <2>1, ShapeFrame DEF ClientInvariant, Shape, TaskFrame
<1>2. StreamAgrees(k) /\ RestAgrees(k) /\ CropAgrees(k)
  BY DEF FileInvariant
<1>3. StreamAgrees(k)'
  BY <1>1, <1>2, OtherFiles DEF StreamAgrees
<1>4. RestAgrees(k)'
  <2>1. Rests(k)' => Rests(k)
    BY <1>1, StillConsumed DEF Rests, Done
  <2>2. status'[k] = "COMPLETED" => status[k] = "COMPLETED"
    BY <1>1, ShapeStatuses
  <2>3. Rests(k)' => disk'[job[k].range] = disk[job[k].range]
    BY <2>1, OtherFiles
  <2>4. QED
    BY <1>1, <1>2, <2>1, <2>2, <2>3 DEF RestAgrees, Intact, Total
<1>5. CropAgrees(k)'
  <2> SUFFICES ASSUME job[k].kind = "succession" PROVE CropAgrees(k)'
    BY <1>1 DEF CropAgrees
  <2>1. job[k].pred \in Jobs
    BY PredFacts
  <2>2. Live(k)' => Live(k)
    BY <1>1 DEF Live
  <2>3. pc[k] \in {"cropping", "shifting", "moving"} =>
           /\ bytes'[job[k].pred] = bytes[job[k].pred]
           /\ disk'[job[job[k].pred].range] = disk[job[job[k].pred].range]
    BY <1>1, <2>1, OtherFiles
  <2>4. pc[k] \in {"cropping", "shifting", "moving"} =>
           StartCrop(k)' = StartCrop(k) /\ EndCrop(k)' = EndCrop(k)
    BY <1>1, <2>3 DEF StartCrop, EndCrop
  <2>5. QED
    BY <1>1, <1>2, <2>2, <2>3, <2>4 DEF CropAgrees
<1>6. QED
  BY <1>3, <1>4, <1>5

(***************************************************************************)
(* The steps of a worker                                                   *)
(***************************************************************************)

\* A task that ends: what it leaves is sound, and whole when it completed.
LEMMA EndAgrees ==
    ASSUME ClientInvariant, FileInvariant, NEW j \in Jobs, job[j].kind = "download", job' = job,
           Done(j)',
           bytes'[j] > 0 => Sound(disk'[job[j].range], job[j].range.start),
           status'[j] = "COMPLETED" => Intact(j)'
    PROVE  StreamAgrees(j)' /\ RestAgrees(j)' /\ CropAgrees(j)'
BY DEF StreamAgrees, RestAgrees, CropAgrees, Done

LEMMA WorkerAgrees ==
    ASSUME PlainSource, ClientInvariant, FileInvariant, NEW j \in Jobs, WorkerStep(j)
    PROVE  StreamAgrees(j)' /\ RestAgrees(j)' /\ CropAgrees(j)'
<1> DEFINE r == job[j].range
<1>1. /\ pc[j] \in {"created", "opening", "streaming", "flushing"}
      /\ job[j].kind = "download" /\ job' = job
      /\ r \in Ranges /\ r # NoRange /\ r.start \in Nat
      /\ bytes[j] \in Nat /\ SourceFrom(j) = r.start
  <2>1. /\ pc[j] \in {"created", "opening", "streaming", "flushing"}
        /\ job[j].kind = "download" \/ pc[j] # "created"
        /\ job' = job
    BY DEF WorkerStep, StartDownload, FirstToRun, Open, OpenFails, Receive, LoseWrite, EndStream,
           InterruptOpening, InterruptStreaming, InterruptFlushing, Flush, FlushFails
  <2>2. job[j].kind = "download" /\ r \in Ranges
    BY <2>1, PlaceKinds DEF ClientInvariant
  <2>3. bytes[j] \in Nat /\ SourceFrom(j) = r.start
    BY BookTypes DEF ClientInvariant, SourceFrom, PlainSource
  <2>4. QED
    BY <2>1, <2>2, <2>3, RangeFacts
<1>2. /\ pc[j] \in {"created", "opening"} => bytes[j] = 0
      /\ pc[j] \in {"streaming", "flushing"} => Sound(disk[r], r.start)
      /\ pc[j] = "streaming" /\ ~cancelling[j] => Holds(disk[r], r.start, bytes[j])
      /\ pc[j] = "flushing" /\ exc[j] = "none" => Holds(disk[r], r.start, bytes[j])
  BY DEF ClientInvariant, OrderInvariant, Beginnings, FileInvariant, StreamAgrees
<1>3. /\ pc \in [Jobs -> Place] /\ bytes \in [Jobs -> Nat] /\ disk \in [Ranges -> ChunkFile]
      /\ status \in [Jobs -> Status] /\ cancelling \in [Jobs -> BOOLEAN]
      /\ exc \in [Jobs -> {"none", "refused", "error", "cancelled"}]
  BY BookTypes DEF ClientInvariant
<1>4. ASSUME pc'[j] = "done", bytes' = bytes, status'[j] # "COMPLETED",
             bytes[j] > 0 => disk' = disk /\ pc[j] = "flushing"
      PROVE  StreamAgrees(j)' /\ RestAgrees(j)' /\ CropAgrees(j)'
  BY <1>1, <1>2, <1>4, EndAgrees DEF Done
<1>5. CASE StartDownload(j)
  <2>1. pc'[j] = "opening"
    BY <1>3, <1>5 DEF StartDownload
  <2>2. QED
    BY <1>1, <2>1 DEF StreamAgrees, RestAgrees, CropAgrees, Rests, Done
<1>6. CASE Open(j)
  <2>1. /\ pc'[j] = "streaming" /\ bytes' = bytes /\ pc[j] = "opening"
        /\ disk'[r] = Opened(r.start)
    BY <1>1, <1>3, <1>6 DEF Open, statVars
  <2>2. Sound(disk'[r], r.start) /\ Holds(disk'[r], r.start, bytes'[j])
    BY <1>2, <2>1 DEF Sound, Holds, Opened, Whole
  <2>3. QED
    BY <1>1, <2>1, <2>2 DEF StreamAgrees, RestAgrees, CropAgrees, Rests, Done
<1>7. CASE OpenFails(j) \/ InterruptOpening(j)
  <2>1. \E s \in {"ERROR", "CANCELLED", "DEPRECATED"} : \E outcome : Finish(j, s, outcome)
    BY <1>7 DEF OpenFails, InterruptOpening, StatusWhenCancelled
  <2>2. pc'[j] = "done" /\ status'[j] # "COMPLETED"
    BY <1>3, <2>1 DEF Finish
  <2>3. bytes' = bytes /\ bytes[j] = 0
    BY <1>2, <1>7 DEF OpenFails, InterruptOpening
  <2>4. QED
    BY <1>4, <2>2, <2>3
<1>8. ASSUME NEW n \in 1..SourceSize, Receive(j, n)
      PROVE  StreamAgrees(j)' /\ RestAgrees(j)' /\ CropAgrees(j)'
  <2>1. /\ pc[j] = "streaming" /\ pc' = pc /\ bytes'[j] = bytes[j] + n
        /\ path[j] = r /\ ~cancelling[j]
    BY <1>3, <1>8 DEF Receive, Count, ClientInvariant, CarefulInvariant, HandlesAgree
  <2>2. disk'[r] = Written(disk[r], bytes[j], n)
    BY <1>1, <1>3, <1>8, <2>1 DEF Receive
  <2>3. Holds(disk[r], r.start, bytes[j]) /\ disk[r] \in ChunkFile
    BY <1>1, <1>2, <1>3, <2>1
  <2>4. n \in Nat /\ n > 0
    BY SizeAssumption
  <2>5. Holds(disk'[r], r.start, bytes'[j]) /\ Sound(disk'[r], r.start)
    BY <1>1, <2>1, <2>2, <2>3, <2>4 DEF Holds, Sound, Written, ChunkFile
  <2>6. QED
    BY <1>1, <2>1, <2>5 DEF StreamAgrees, RestAgrees, CropAgrees, Rests, Done
<1>9. ASSUME NEW n \in 1..SourceSize, LoseWrite(j, n)
      PROVE  StreamAgrees(j)' /\ RestAgrees(j)' /\ CropAgrees(j)'
  <2>1. /\ pc[j] = "streaming" /\ disk' = disk
        /\ \/ pc' = pc /\ cancelling'[j]
           \/ pc'[j] = "flushing" /\ exc'[j] = "error"
    BY <1>3, <1>9 DEF LoseWrite
  <2>2. QED
    BY <1>1, <1>2, <2>1 DEF StreamAgrees, RestAgrees, CropAgrees, Rests, Done
<1>10. CASE InterruptStreaming(j) \/ \E outcome \in {"none", "error"} : EndStream(j, outcome)
  <2>1. /\ pc[j] = "streaming" /\ disk' = disk /\ bytes' = bytes /\ pc'[j] = "flushing"
        /\ exc'[j] = "none" => ~cancelling[j]
    BY <1>3, <1>10 DEF InterruptStreaming, EndStream, statVars
  <2>2. QED
    BY <1>1, <1>2, <2>1 DEF StreamAgrees, RestAgrees, CropAgrees, Rests, Done
<1>11. CASE InterruptFlushing(j) \/ Flush(j) \/ FlushFails(j)
  <2>1. pc[j] = "flushing" /\ disk' = disk /\ bytes' = bytes
    BY <1>11 DEF InterruptFlushing, Flush, FlushFails
  <2>2. \/ \E s \in {"ERROR", "CANCELLED", "DEPRECATED"} : \E outcome : Finish(j, s, outcome)
        \/ exc[j] = "none" /\ ~SizeWrong(j) /\ Finish(j, "COMPLETED", "none")
    BY <1>11 DEF InterruptFlushing, Flush, FlushFails, StatusWhenCancelled
  <2>3. CASE \E s \in {"ERROR", "CANCELLED", "DEPRECATED"} : \E outcome : Finish(j, s, outcome)
    <3>1. pc'[j] = "done" /\ status'[j] # "COMPLETED"
      BY <1>3, <2>3 DEF Finish
    <3>2. QED
      BY <1>4, <2>1, <3>1
  <2>4. CASE exc[j] = "none" /\ ~SizeWrong(j) /\ Finish(j, "COMPLETED", "none")
    <3>1. pc'[j] = "done"
      BY <1>3, <2>4 DEF Finish
    <3>2. Intact(j)'
      BY <1>1, <1>2, <2>1, <2>4 DEF Intact, SizeWrong, Total
    <3>3. QED
      BY <1>1, <1>2, <2>1, <3>1, <3>2, EndAgrees DEF Done
  <2>5. QED
    BY <2>2, <2>3, <2>4
<1>12. QED
  BY <1>5, <1>6, <1>7, <1>8, <1>9, <1>10, <1>11 DEF WorkerStep

(***************************************************************************)
(* The steps of a succession                                               *)
(***************************************************************************)

\* A succession that goes on elsewhere than at its file, or ends without it.
LEMMA QuietAgrees ==
    ASSUME FileInvariant, NEW j \in Jobs, job[j].kind = "succession", job' = job, Live(j),
           bytes'[j] = bytes[j], pc'[j] \notin {"streaming", "flushing"},
           pc'[j] \notin {"cropping", "shifting", "moving"},
           status'[j] # "COMPLETED" \/ ~Done(j)'
    PROVE  StreamAgrees(j)' /\ RestAgrees(j)' /\ CropAgrees(j)'
<1>1. /\ <<job[job[j].pred].range, job[j].range>> \in Resizes
      /\ job[job[j].pred].range # job[j].range
      /\ bytes[j] = 0
  BY DEF FileInvariant, CropAgrees
<1>2. QED
  BY <1>1 DEF StreamAgrees, RestAgrees, CropAgrees, Rests

\* A task that is dropped has no bytes, and is not complete.
LEMMA DropAgrees ==
    ASSUME ClientInvariant, FileInvariant, NEW j \in Jobs, Drop(j)
    PROVE  StreamAgrees(j)' /\ RestAgrees(j)' /\ CropAgrees(j)'
<1>1. /\ job' = job /\ bytes' = bytes /\ status' = status /\ pc'[j] = "dropped"
      /\ pc[j] = "created" /\ Live(j)
  BY BookTypes DEF ClientInvariant, Drop, FirstToRun, Live, statVars
<1>2. status[j] # "COMPLETED" /\ bytes[j] = 0
  BY <1>1, PlaceStatus DEF ClientInvariant, OrderInvariant, Beginnings, Marked, Done
<1>3. CASE job[j].kind = "succession"
  BY <1>1, <1>2, <1>3, QuietAgrees
<1>4. CASE job[j].kind # "succession"
  BY <1>1, <1>2, <1>4 DEF StreamAgrees, RestAgrees, CropAgrees
<1>5. QED
  BY <1>3, <1>4

\* The sizes a succession computes are those of its two ranges.
LEMMA CropSizes ==
    ASSUME ClientInvariant, FileInvariant, NEW j \in Jobs, job[j].kind = "succession", Live(j)
    PROVE  LET p == job[j].pred
               r == job[j].range
               q == job[p].range
           IN  /\ p \in Jobs /\ p # j /\ r \in Ranges /\ q \in Ranges /\ r # q
               /\ <<q, r>> \in Resizes
               /\ r.start \in Nat /\ q.start \in Nat /\ q.start <= r.start
               /\ r.end \in Nat \union {None}
               /\ StartCrop(j) = r.start - q.start /\ StartCrop(j) \in Nat
               /\ EndCrop(j) \in Int /\ bytes[p] \in Nat
               /\ r.end # None => EndCrop(j) = r.end - q.start
               /\ pc[j] \in {"shifting", "moving"} => StartCrop(j) <= EndCrop(j)
<1> DEFINE p == job[j].pred
           r == job[j].range
           q == job[p].range
<1>1. p \in Jobs /\ p # j /\ r \in Ranges /\ q \in Ranges /\ bytes[p] \in Nat
  BY PredFacts, LiveFacts, BookTypes DEF ClientInvariant
<1>2. r # q /\ <<q, r>> \in Resizes
  BY DEF FileInvariant, CropAgrees
<1>3. r.start \in Nat /\ q.start \in Nat /\ r.end \in Nat \union {None}
  BY <1>1, RangeFacts
<1>4. Contains(q, r) /\ (pc[j] \in {"shifting", "moving"} => StartCrop(j) <= EndCrop(j))
  BY DEF ClientInvariant, BookInvariant, SuccessionsAgree
<1>5. q.start <= r.start
  BY <1>3, <1>4 DEF Contains
<1>6. StartCrop(j) = r.start - q.start /\ StartCrop(j) \in Nat
  BY <1>3, <1>5 DEF StartCrop
<1>7. EndCrop(j) \in Int /\ (r.end # None => EndCrop(j) = r.end - q.start)
  <2>1. CASE r.end # None
    <3>1. r.end \in Nat /\ EndCrop(j) = r.end - q.start
      BY <1>3, <2>1 DEF EndCrop
    <3>2. QED
      BY <1>3, <3>1
  <2>2. CASE r.end = None
    <3>1. EndCrop(j) = bytes[p] - 1
      BY <2>2 DEF EndCrop
    <3>2. QED
      BY <1>1, <2>2, <3>1
  <2>3. QED
    BY <2>1, <2>2
<1>8. QED
  BY <1>1, <1>2, <1>3, <1>4, <1>5, <1>6, <1>7

\* crop_file leaves exactly the bytes of the successor.
LEMMA CroppedHolds ==
    ASSUME NEW file \in ChunkFile, NEW s \in Nat, NEW first \in Nat, NEW last \in Int,
           CanCrop(file, first, last), Sound(file, s)
    PROVE  Holds(Cropped(file, first, last), s + first, last - first + 1)
<1>1. /\ file.present /\ ~file.torn /\ file.from = s /\ file.len \in Nat
      /\ first <= last /\ last < file.len
  BY DEF CanCrop, Sound, ChunkFile
<1>2. CASE first = 0
  <2>1. Cropped(file, first, last) = [file EXCEPT !.len = last - first + 1]
    BY <1>1, <1>2 DEF Cropped
  <2>2. QED
    BY <1>1, <1>2, <2>1 DEF Holds, ChunkFile
<1>3. CASE first # 0
  <2>1. Cropped(file, first, last)
          = [file EXCEPT !.from = file.from + first, !.len = last - first + 1,
                         !.torn = file.torn \/ file.len <= last]
    BY <1>3 DEF Cropped
  <2>2. ~(file.len <= last)
    BY <1>1
  <2>3. QED
    BY <1>1, <2>1, <2>2 DEF Holds, ChunkFile
<1>4. QED
  BY <1>2, <1>3

LEMMA SuccessionAgrees ==
    ASSUME PlainSource, ClientInvariant, FileInvariant, NEW j \in Jobs, SuccessionStep(j)
    PROVE  StreamAgrees(j)' /\ RestAgrees(j)' /\ CropAgrees(j)'
<1> DEFINE p == job[j].pred
           r == job[j].range
           q == job[p].range
<1>1. /\ job[j].kind = "succession" /\ job' = job /\ Live(j)
      /\ pc[j] \in {"created", "awaiting", "cropping", "shifting", "moving", "stopping"}
  <2>1. pc[j] \in {"created", "awaiting", "cropping", "shifting", "moving", "stopping"}
        /\ job' = job /\ (pc[j] = "created" => job[j].kind = "succession")
    BY DEF SuccessionStep, StartSuccession, FirstToRun, Resume, CheckCrop, Crop, CropFails, Move,
           MoveFails, InterruptAwaiting, InterruptCropping, InterruptMoving, Stopped
  <2>2. job[j].kind = "succession" /\ Live(j)
    BY <2>1, PlaceKinds DEF ClientInvariant, Live
  <2>3. QED
    BY <2>1, <2>2
<1>2. /\ p \in Jobs /\ p # j /\ r \in Ranges /\ q \in Ranges /\ r # q
      /\ <<q, r>> \in Resizes
      /\ r.start \in Nat /\ q.start \in Nat /\ q.start <= r.start
      /\ r.end \in Nat \union {None}
      /\ StartCrop(j) = r.start - q.start /\ StartCrop(j) \in Nat
      /\ EndCrop(j) \in Int /\ bytes[p] \in Nat
      /\ r.end # None => EndCrop(j) = r.end - q.start
      /\ pc[j] \in {"shifting", "moving"} => StartCrop(j) <= EndCrop(j)
  BY <1>1, CropSizes
<1>3. /\ pc \in [Jobs -> Place] /\ bytes \in [Jobs -> Nat] /\ disk \in [Ranges -> ChunkFile]
      /\ status \in [Jobs -> Status] /\ cancelling \in [Jobs -> BOOLEAN]
  BY BookTypes DEF ClientInvariant
<1>4. /\ bytes[j] = 0
      /\ pc[j] \in {"cropping", "shifting", "moving"} => bytes[p] > 0
      /\ pc[j] = "shifting" => CanCrop(disk[q], StartCrop(j), EndCrop(j)) /\ Sound(disk[q], q.start)
      /\ pc[j] = "moving" => Holds(disk[q], r.start, EndCrop(j) - StartCrop(j) + 1)
  BY <1>1 DEF FileInvariant, CropAgrees
<1>5. ASSUME NEW s \in {"ERROR", "CANCELLED"}, NEW outcome, Finish(j, s, outcome), bytes' = bytes
      PROVE  StreamAgrees(j)' /\ RestAgrees(j)' /\ CropAgrees(j)'
  <2>1. pc'[j] = "done" /\ status'[j] # "COMPLETED"
    BY <1>3, <1>5 DEF Finish
  <2>2. QED
    BY <1>1, <1>5, <2>1, QuietAgrees
<1>6. ASSUME pc' = [pc EXCEPT ![j] = "awaiting"] \/ pc' = [pc EXCEPT ![j] = "stopping"],
             bytes' = bytes
      PROVE  StreamAgrees(j)' /\ RestAgrees(j)' /\ CropAgrees(j)'
  <2>1. pc'[j] \in {"awaiting", "stopping"} /\ ~Done(j)'
    BY <1>3, <1>6 DEF Done
  <2>2. QED
    BY <1>1, <1>6, <2>1, QuietAgrees
\* The succession goes on to change files.
<1>7. ASSUME NEW place \in {"cropping", "shifting", "moving"}, pc' = [pc EXCEPT ![j] = place],
             bytes' = bytes, bytes[p] > 0,
             place = "shifting" => /\ CanCrop(disk'[q], StartCrop(j), EndCrop(j))
                                   /\ Sound(disk'[q], q.start),
             place = "moving" => Holds(disk'[q], r.start, EndCrop(j) - StartCrop(j) + 1)
      PROVE  StreamAgrees(j)' /\ RestAgrees(j)' /\ CropAgrees(j)'
  <2>1. pc'[j] = place /\ ~Done(j)'
    BY <1>3, <1>7 DEF Done
  <2>2. StartCrop(j)' = StartCrop(j) /\ EndCrop(j)' = EndCrop(j)
    BY <1>1, <1>7 DEF StartCrop, EndCrop
  <2>3. StreamAgrees(j)' /\ RestAgrees(j)'
    BY <2>1 DEF StreamAgrees, RestAgrees, Rests
  <2>4. CropAgrees(j)'
    BY <1>1, <1>2, <1>4, <1>7, <2>1, <2>2 DEF CropAgrees
  <2>5. QED
    BY <2>3, <2>4
<1>8. ASSUME Decide(j), bytes' = bytes
      PROVE  StreamAgrees(j)' /\ RestAgrees(j)' /\ CropAgrees(j)'
  <2>1. CASE Finish(j, "ERROR", "refused")
    BY <1>5, <1>8, <2>1
  <2>2. CASE ~Refused(j) /\ pc' = [pc EXCEPT ![j] = "cropping"]
    <3>1. bytes[p] > 0
      BY <1>2, <2>2 DEF Refused
    <3>2. QED
      BY <1>7, <1>8, <2>2, <3>1
  <2>3. QED
    BY <1>8, <2>1, <2>2 DEF Decide
<1>9. CASE StartSuccession(j) \/ Resume(j)
  <2>1. bytes' = bytes
    BY <1>9 DEF StartSuccession, Resume
  <2>2. \/ Finish(j, "ERROR", "refused")
        \/ pc' = [pc EXCEPT ![j] = "awaiting"]
        \/ Decide(j)
    BY <1>9 DEF StartSuccession, Resume
  <2>3. QED
    BY <1>5, <1>6, <1>8, <2>1, <2>2
<1>10. CASE CheckCrop(j)
  <2>1. bytes' = bytes /\ disk' = disk /\ pc[j] = "cropping"
    BY <1>10 DEF CheckCrop
  <2>2. CASE Finish(j, "ERROR", "refused")
    BY <1>5, <2>1, <2>2
  <2>3. CASE CanCrop(disk[q], StartCrop(j), EndCrop(j)) /\ pc' = [pc EXCEPT ![j] = "shifting"]
    <3>1. Rests(p)
      <4>1. Done(p) /\ stats[q] = p
        BY <1>1, <2>1, PredFacts
      <4>2. ~Consumed(p)
        BY <1>1, <2>1, PredFacts DEF Consumed
      <4>3. QED
        BY <4>1, <4>2 DEF Rests
    <3>2. disk[q].present /\ bytes[p] > 0
      BY <1>4, <2>1, <2>3 DEF CanCrop
    <3>3. Sound(disk[q], q.start)
      BY <1>2, <3>1, <3>2 DEF FileInvariant, RestAgrees
    <3>4. QED
      BY <1>7, <2>1, <2>3, <3>2, <3>3
  <2>4. QED
    BY <1>10, <2>2, <2>3 DEF CheckCrop
<1>11. CASE Crop(j)
  <2>1. /\ bytes' = bytes /\ pc[j] = "shifting" /\ pc' = [pc EXCEPT ![j] = "moving"]
        /\ disk'[q] = Cropped(disk[q], StartCrop(j), EndCrop(j))
    BY <1>2, <1>3, <1>11 DEF Crop, statVars
  <2>2. Holds(disk'[q], q.start + StartCrop(j), EndCrop(j) - StartCrop(j) + 1)
    BY <1>2, <1>3, <1>4, <2>1, CroppedHolds
  <2>3. q.start + StartCrop(j) = r.start
    BY <1>2
  <2>4. QED
    BY <1>4, <1>7, <2>1, <2>2, <2>3
<1>12. CASE CropFails(j) \/ MoveFails(j)
  BY <1>5, <1>12 DEF CropFails, MoveFails
<1>13. CASE Move(j)
  <2>1. /\ pc[j] = "moving" /\ pc'[j] = "done" /\ cleaned' = cleaned
        /\ disk'[r] = disk[q] /\ bytes'[j] = EndCrop(j) - StartCrop(j) + 1
    BY <1>2, <1>3, <1>13 DEF Move, Renamed, clientVars
  <2>2. Holds(disk'[r], r.start, bytes'[j])
    BY <1>4, <2>1
  <2>3. Total(j) # None => bytes'[j] = Total(j)
    <3>1. CASE r.end # None
      <4>1. Total(j) = r.end - r.start + 1
        BY <3>1 DEF Total, TotalBytes
      <4>2. r.end \in Nat
        BY <1>2, <3>1
      <4>3. QED
        BY <1>2, <2>1, <3>1, <4>1, <4>2
    <3>2. CASE r.end = None
      <4>1. FileSize = None
        BY <1>2, <3>2 DEF PlainSource
      <4>2. QED
        BY <3>2, <4>1 DEF Total, TotalBytes
    <3>3. QED
      BY <3>1, <3>2
  <2>4. Intact(j)' /\ Sound(disk'[r], r.start)
    BY <1>1, <2>2, <2>3 DEF Intact, Holds, Sound, Total
  <2>5. QED
    BY <1>1, <1>2, <2>1, <2>4 DEF StreamAgrees, RestAgrees, CropAgrees, Live
<1>14. CASE InterruptAwaiting(j) \/ InterruptCropping(j) \/ Stopped(j)
  <2>1. bytes' = bytes
    BY <1>14 DEF InterruptAwaiting, InterruptCropping, Stopped
  <2>2. \/ \E s \in {"ERROR", "CANCELLED"} : \E outcome : Finish(j, s, outcome)
        \/ pc' = [pc EXCEPT ![j] = "stopping"]
    BY <1>14 DEF InterruptAwaiting, InterruptCropping, Stopped, GiveUp
  <2>3. QED
    BY <1>5, <1>6, <2>1, <2>2
<1>15. CASE InterruptMoving(j)
  <2>1. bytes' = bytes /\ pc'[j] = "done" /\ status'[j] = "CANCELLED"
    BY <1>3, <1>15 DEF InterruptMoving
  <2>2. QED
    BY <1>1, <2>1, QuietAgrees
<1>16. QED
  BY <1>9, <1>10, <1>11, <1>12, <1>13, <1>14, <1>15 DEF SuccessionStep

(***************************************************************************)
(* The steps of callers                                                    *)
(***************************************************************************)

\* A file that goes away matters to nobody: the stats have no entry for its
\* range, or the manager is cleaned up, and no task works on it.
GoneFiles ==
    \A r \in Ranges :
        \/ disk'[r] = disk[r]
        \/ /\ disk'[r] = NoFile
           /\ stats'[r] = NoJob \/ cleaned'
           /\ \A k \in Jobs : Live(k) => job[k].range # r /\ ~Heir(k, r)

LEMMA FrameKeepsFiles ==
    ASSUME ClientInvariant, FileInvariant, NEW c \in Callers, ClientFrame(c),
           bytes' = bytes, GoneFiles
    PROVE  FileInvariant'
<1>1. /\ job' = job /\ pc' = pc /\ exc' = exc
      /\ \A k \in Jobs : cancelling[k] => cancelling'[k]
      /\ cleaned => cleaned'
      /\ \A r \in Ranges : stats'[r] \in {stats[r], NoJob}
      /\ \A k \in Jobs : status'[k] = "COMPLETED" => status[k] = "COMPLETED"
  BY DEF ClientFrame
<1>2. ASSUME NEW k \in Jobs PROVE StreamAgrees(k)' /\ RestAgrees(k)' /\ CropAgrees(k)'
  <2> DEFINE r == job[k].range
             q == job[job[k].pred].range
  <2>1. StreamAgrees(k) /\ RestAgrees(k) /\ CropAgrees(k) /\ (pc[k] # "free" => r \in Ranges)
    BY PlaceKinds DEF FileInvariant, ClientInvariant
  <2>2. ASSUME Live(k) PROVE disk'[r] = disk[r]
    BY <2>1, <2>2 DEF GoneFiles, Live
  <2>3. StreamAgrees(k)'
    BY <1>1, <2>1, <2>2 DEF StreamAgrees, Live
  <2>4. RestAgrees(k)'
    <3> SUFFICES ASSUME Rests(k)' PROVE RestAgrees(k)'
      BY DEF RestAgrees
    <3>1. pc[k] # "free" /\ r \in Ranges /\ stats'[r] = k /\ Done(k)
      BY <1>1, <2>1 DEF Rests, Done
    <3>2. stats[r] = k /\ stats'[r] # NoJob
      BY <1>1, <3>1, JobNumbers
    <3>3. Rests(k)
      BY <1>1, <3>1, <3>2 DEF Rests, Consumed
    <3>4. CASE disk'[r] = disk[r]
      BY <1>1, <2>1, <3>3, <3>4 DEF RestAgrees, Intact, Total
    <3>5. CASE disk'[r] = NoFile /\ cleaned'
      <4>1. ~disk'[r].present
        BY <3>5 DEF NoFile
      <4>2. QED
        BY <1>1, <3>5, <4>1 DEF RestAgrees
    <3>6. QED
      BY <3>1, <3>2, <3>4, <3>5 DEF GoneFiles
  <2>5. CropAgrees(k)'
    <3> SUFFICES ASSUME job[k].kind = "succession" PROVE CropAgrees(k)'
      BY <1>1 DEF CropAgrees
    <3>1. ASSUME Live(k) PROVE disk'[q] = disk[q]
      <4>1. q \in Ranges /\ Heir(k, q)
        BY <3>1, PredFacts DEF Heir
      <4>2. QED
        BY <3>1, <4>1 DEF GoneFiles
    <3>2. StartCrop(k)' = StartCrop(k) /\ EndCrop(k)' = EndCrop(k)
      BY <1>1 DEF StartCrop, EndCrop
    <3>3. QED
      BY <1>1, <2>1, <3>1, <3>2 DEF CropAgrees, Live
  <2>6. QED
    BY <2>3, <2>4, <2>5
<1>3. QED
  BY <1>2 DEF FileInvariant

LEMMA CreateKeepsFiles ==
    ASSUME ClientInvariant, FileInvariant, NEW j, NEW kind, NEW r, NEW pred, NEW awaits,
           Creates(j, kind, r, pred, awaits), bytes' = bytes, disk' = disk,
           kind = "succession" => <<job[pred].range, r>> \in Resizes
    PROVE  FileInvariant'
<1>1. /\ j \in Jobs /\ r \in Ranges
      /\ pc[j] = "free" /\ pc'[j] = "created" /\ exc' = exc /\ cleaned' = cleaned
      /\ job'[j].kind = kind /\ job'[j].range = r /\ job'[j].pred = pred
      /\ \A k \in Jobs \ {j} : job'[k] = job[k] /\ pc'[k] = pc[k] /\ status'[k] = status[k]
      /\ stats'[r] = j /\ \A q \in Ranges \ {r} : stats'[q] = stats[q]
      /\ \A k \in Jobs : cancelling[k] => cancelling'[k]
  BY DEF Creates
<1>2. ASSUME NEW k \in Jobs, k # j, job[k].kind = "succession"
      PROVE  job[k].pred \in Jobs \ {j} /\ job'[job[k].pred] = job[job[k].pred]
  BY <1>1, <1>2, PredFacts
<1>3. StreamAgrees(j)' /\ RestAgrees(j)'
  BY <1>1 DEF StreamAgrees, RestAgrees, Rests, Done
<1>4. CropAgrees(j)'
  <2>1. bytes[j] = 0
    BY <1>1 DEF ClientInvariant, OrderInvariant, Beginnings
  <2>2. kind = "succession" =>
          /\ pred \in Jobs \ {j} /\ job'[pred] = job[pred]
          /\ job[pred].range # r /\ <<job[pred].range, r>> \in Resizes
    BY <1>1 DEF Creates
  <2>3. QED
    BY <1>1, <2>1, <2>2 DEF CropAgrees
<1>5. ASSUME NEW k \in Jobs, k # j PROVE StreamAgrees(k)' /\ RestAgrees(k)' /\ CropAgrees(k)'
  <2>1. /\ StreamAgrees(k) /\ RestAgrees(k) /\ CropAgrees(k)
        /\ pc[k] # "free" => job[k].range \in Ranges
        /\ job'[k] = job[k] /\ pc'[k] = pc[k] /\ status'[k] = status[k]
    BY <1>1, <1>5, PlaceKinds DEF FileInvariant, ClientInvariant
  <2>2. StreamAgrees(k)'
    BY <1>1, <2>1 DEF StreamAgrees
  <2>3. RestAgrees(k)'
    <3> SUFFICES ASSUME Rests(k)' PROVE RestAgrees(k)'
      BY DEF RestAgrees
    <3>1. Done(k) /\ job[k].range \in Ranges /\ stats'[job[k].range] = k
      BY <2>1 DEF Rests, Done
    <3>2. stats[job[k].range] = k
      BY <1>1, <1>5, <3>1
    <3>3. Consumed(k) => Consumed(k)'
      <4> SUFFICES ASSUME NEW i \in Jobs, job[i].kind = "succession", job[i].pred = k,
                          \/ pc[i] \in {"shifting", "moving"}
                          \/ pc[i] = "done" /\ exc[i] # "refused"
                   PROVE  Consumed(k)'
        BY DEF Consumed
      <4>1. job'[i] = job[i] /\ pc'[i] = pc[i] /\ exc'[i] = exc[i]
        BY <1>1
      <4>2. QED
        BY <4>1 DEF Consumed
    <3>4. Rests(k)
      BY <3>1, <3>2, <3>3 DEF Rests
    <3>5. QED
      BY <1>1, <2>1, <3>4 DEF RestAgrees, Intact, Total
  <2>4. CropAgrees(k)'
    <3> SUFFICES ASSUME job[k].kind = "succession" PROVE CropAgrees(k)'
      BY <2>1 DEF CropAgrees
    <3>1. job'[job[k].pred] = job[job[k].pred]
      BY <1>2, <1>5
    <3>2. StartCrop(k)' = StartCrop(k) /\ EndCrop(k)' = EndCrop(k)
      BY <2>1, <3>1 DEF StartCrop, EndCrop
    <3>3. Live(k)' => Live(k)
      BY <2>1 DEF Live
    <3>4. QED
      BY <2>1, <3>1, <3>2, <3>3 DEF CropAgrees
  <2>5. QED
    BY <2>2, <2>3, <2>4
<1>6. QED
  BY <1>3, <1>4, <1>5 DEF FileInvariant

\* delete_chunk_data and cleanup delete files nothing depends on any more.
LEMMA DeletedFiles ==
    ASSUME ClientInvariant, NEW c \in Callers, Unlink(c) \/ Purge(c)
    PROVE  GoneFiles
<1>1. CASE Unlink(c)
  <2> DEFINE r == call[c].range
  <2>1. /\ r \in Ranges /\ stats[r] = NoJob /\ stats' = stats
        /\ tasks[r] # NoJob => Done(tasks[r])
    BY <1>1 DEF Unlink, bookVars, ClientInvariant, CarefulInvariant, CallsAgree, CallAgrees
  <2>2. ASSUME NEW k \in Jobs, Live(k) PROVE job[k].range # r /\ ~Heir(k, r)
    <3>1. job[k].range # r
      BY <2>1, <2>2, LiveFacts, JobNumbers
    <3>2. job[k].kind = "succession" => /\ stats[job[job[k].pred].range] = job[k].pred
                                        /\ job[k].pred \in Jobs
      BY <2>2, PredFacts
    <3>3. QED
      BY <2>1, <3>1, <3>2, JobNumbers DEF Heir
  <2>3. disk' = disk \/ disk' = [disk EXCEPT ![r] = NoFile]
    BY <1>1 DEF Unlink, Unlinked
  <2>4. QED
    BY <2>1, <2>2, <2>3, BookTypes DEF ClientInvariant, GoneFiles
<1>2. CASE Purge(c)
  <2>1. tasks = NoTasks /\ cleaned /\ cleaned' = cleaned
    BY <1>2 DEF Purge, ClientInvariant, CarefulInvariant, CallsAgree, CallAgrees
  <2>2. \A k \in Jobs : ~Live(k)
    BY <2>1, NoTasksNoLive
  <2>3. PICK gone \in SUBSET call[c].files :
           disk' = [r \in Ranges |-> IF r \in gone THEN NoFile ELSE disk[r]]
    BY <1>2 DEF Purge
  <2>4. QED
    BY <2>1, <2>2, <2>3 DEF GoneFiles
<1>3. QED
  BY <1>1, <1>2

LEMMA CallerKeepsFiles ==
    ASSUME CarefulClients, ClientInvariant, BookInvariant', FileInvariant,
           Request \/ \E c \in Callers : Continue(c)
    PROVE  FileInvariant'
<1>1. ASSUME NEW r \in Starts, StartChunk(r) PROVE FileInvariant'
  <2>1. PICK j : Creates(j, "download", r, NoJob, NoJob)
    BY <1>1, StartCreates
  <2>2. bytes' = bytes /\ disk' = disk
    BY <1>1 DEF StartChunk
  <2>3. QED
    BY <2>1, <2>2, CreateKeepsFiles
<1>2. ASSUME NEW p \in Resizes, ResizeChunk(p[1], p[2]) PROVE FileInvariant'
  <2>1. PICK j : Creates(j, "succession", p[2], stats[p[1]], tasks[p[1]])
    BY <1>2, ResizeCreates
  <2>2. bytes' = bytes /\ disk' = disk /\ <<p[1], p[2]>> \in Resizes
    BY <1>2 DEF ResizeChunk
  <2>3. job[stats[p[1]]].range = p[1]
    BY <1>2, ResizeFacts DEF ClientInvariant
  <2>4. QED
    BY <2>1, <2>2, <2>3, CreateKeepsFiles
<1>3. ASSUME NEW c \in Callers, ClientFrame(c), bytes' = bytes, disk' = disk PROVE FileInvariant'
  BY <1>3, FrameKeepsFiles DEF GoneFiles
<1>4. ASSUME NEW c \in Callers, NEW op \in Operations,
             \/ \E r \in Ranges : CancelOrDelete(c, op, r)
             \/ WaitBegin(c, op)
             \/ CancelAll(c, op)
      PROVE  FileInvariant'
  <2>1. ClientFrame(c)
    BY <1>4, CancelOrDeleteFrame, WaitFrame, CancelAllFrame
  <2>2. bytes' = bytes /\ disk' = disk
    BY <1>4 DEF CancelOrDelete, WaitBegin, CancelAll, statVars
  <2>3. QED
    BY <1>3, <2>1, <2>2
<1>5. ASSUME NEW c \in Callers, Continue(c) PROVE FileInvariant'
  <2>1. ClientFrame(c)
    BY <1>5, CancelInitiatedFrame, CancelJoinedFrame, UnlinkFrame, WaitFrame, WaitEndFrame,
       GatherEndFrame, PurgeFrame DEF Continue
  <2>2. CASE Unlink(c) \/ Purge(c)
    <3>1. bytes' = bytes
      BY <2>2 DEF Unlink, Purge, statVars
    <3>2. QED
      BY <2>1, <2>2, <3>1, DeletedFiles, FrameKeepsFiles
  <2>3. CASE \/ CancelInitiated(c) \/ CancelJoined(c) \/ WakeUp(c) \/ WaitEnd(c) \/ GatherEnd(c)
    <3>1. bytes' = bytes /\ disk' = disk
      BY <2>3 DEF CancelInitiated, CancelJoined, WakeUp, WaitEnd, GatherEnd, statVars
    <3>2. QED
      BY <1>3, <2>1, <3>1
  <2>4. QED
    BY <1>5, <2>2, <2>3 DEF Continue
<1>6. QED
  BY <1>1, <1>2, <1>4, <1>5 DEF Request

(***************************************************************************)
(* The invariant of the files                                              *)
(***************************************************************************)

LEMMA InitFiles == Init => FileInvariant
<1> SUFFICES ASSUME Init, NEW j \in Jobs
             PROVE  StreamAgrees(j) /\ RestAgrees(j) /\ CropAgrees(j)
  BY DEF FileInvariant
<1>1. /\ pc[j] = IF InitialJob(j) THEN "done" ELSE "free"
      /\ job[j] = IF InitialJob(j) THEN [NoRecord EXCEPT !.kind = "recovered", !.range = Found(j)]
                  ELSE NoRecord
      /\ bytes[j] = IF InitialJob(j) THEN TotalBytes(Found(j), SourceSize) ELSE 0
  BY DEF Init
<1>2. CASE ~InitialJob(j)
  <2>1. pc[j] = "free" /\ job[j].kind # "succession"
    BY <1>1, <1>2 DEF NoRecord
  <2>2. QED
    BY <2>1 DEF StreamAgrees, RestAgrees, CropAgrees, Rests, Done
<1>3. CASE InitialJob(j)
  <2>1. /\ pc[j] = "done" /\ job[j].kind = "recovered" /\ job[j].range = Found(j)
        /\ bytes[j] = TotalBytes(Found(j), SourceSize)
    BY <1>1, <1>3 DEF NoRecord
  <2>2. j \in 1..Len(Recovered) /\ Found(j) \in Ranges
    BY <1>3, BoundAssumption DEF InitialJob, Jobs, Found
  <2>3. disk[Found(j)] = Whole(Found(j).start, TotalBytes(Found(j), SourceSize))
    BY <2>2 DEF Init
  <2>4. Total(j) # None => bytes[j] = Total(j)
    BY <2>1, SizeAssumption DEF Total, TotalBytes
  <2>5. /\ Sound(disk[job[j].range], job[j].range.start)
        /\ Holds(disk[job[j].range], job[j].range.start, bytes[j])
    BY <2>1, <2>3 DEF Sound, Holds, Whole
  <2>6. QED
    BY <2>1, <2>4, <2>5 DEF StreamAgrees, RestAgrees, CropAgrees, Intact
<1>4. QED
  BY <1>2, <1>3

LEMMA NextKeepsFiles ==
    ASSUME CarefulClients, PlainSource, ClientInvariant, BookInvariant', FileInvariant, [Next]_vars
    PROVE  FileInvariant'
<1>1. ASSUME NEW j \in Jobs, JobStep(j) PROVE FileInvariant'
  <2>1. StreamAgrees(j)' /\ RestAgrees(j)' /\ CropAgrees(j)'
    BY <1>1, DropAgrees, WorkerAgrees, SuccessionAgrees DEF JobStep
  <2>2. \A k \in Jobs : k # j => StreamAgrees(k)' /\ RestAgrees(k)' /\ CropAgrees(k)'
    BY <1>1, OtherAgree
  <2>3. QED
    BY <2>1, <2>2 DEF FileInvariant
<1>2. CASE Request \/ \E c \in Callers : Continue(c)
  BY <1>2, CallerKeepsFiles
<1>3. CASE MonitorEnds \/ UNCHANGED vars
  <2>1. UNCHANGED <<job, pc, cancelling, exc, status, bytes, disk, stats, cleaned>>
    BY <1>3 DEF MonitorEnds, taskVars, statVars, clientVars, vars
  <2>2. QED
    BY <2>1 DEF FileInvariant, StreamAgrees, RestAgrees, CropAgrees, Rests, Done, Live, Consumed,
                Intact, Total, StartCrop, EndCrop
<1>4. QED
  BY <1>1, <1>2, <1>3 DEF Next

\* A COMPLETED chunk in the stats has, in its own file, all the bytes of its
\* range and no others, until a succession takes the file over or cleanup
\* deletes it: what the merge and the recovery rely on.  It takes a server that
\* honours ranges, and no successor that runs to the end of a file whose size
\* is known: with one, TailTruncated.cfg shows the tail of the file missing.
THEOREM CompletedChunksAreIntact ==
    ASSUME CarefulClients, PlainSource
    PROVE  Spec => []CompletedIsIntact
<1>1. Init => FileInvariant
  BY InitFiles
<1>2. ASSUME ClientInvariant, ClientInvariant', FileInvariant, [Next]_vars PROVE FileInvariant'
  BY <1>2, NextKeepsFiles DEF ClientInvariant
<1>3. ClientInvariant /\ FileInvariant => CompletedIsIntact
  <2> SUFFICES ASSUME ClientInvariant, FileInvariant, ~cleaned, NEW j \in StatsJobs,
                      status[j] = "COMPLETED", ~Consumed(j)
               PROVE  Intact(j)
    BY DEF CompletedIsIntact
  <2>1. j \in Jobs /\ pc[j] # "free" /\ stats[job[j].range] = j
    BY BookTypes DEF ClientInvariant, BookInvariant, BooksAgree, StatsJobs
  <2>2. Done(j)
    <3>1. ~Live(j)
      BY <2>1, PlaceStatus, PlaceKinds, BookTypes
         DEF ClientInvariant, Live, Place, Marked, Done
    <3>2. QED
      BY <2>1, <3>1 DEF Live, Done
  <2>3. QED
    BY <2>1, <2>2 DEF FileInvariant, RestAgrees, Rests
<1>4. QED
  BY <1>1, <1>2, <1>3, ClientsInOrder, PTL DEF Spec

(***************************************************************************)
(* The invariant: the bytes that are counted                               *)
(***************************************************************************)

\* A chunk claims its range while the stats call it active or complete.
Claiming  == Active \union {"COMPLETED"}
Claims(r) == stats[r] # NoJob /\ status[stats[r]] \in Claiming

\* Two chunks claim a byte only while one waits for the file of the other.
Succeeds(j, p) ==
    job[j].kind = "succession" /\ job[j].pred = p /\ status[j] = "AWAITING_SUCCESSION"
ClaimsDisjoint ==
    \A r, s \in Ranges :
        r # s /\ Claims(r) /\ Claims(s) /\ Overlap(r, s)
        => Succeeds(stats[s], stats[r]) \/ Succeeds(stats[r], stats[s])

\* No chunk counts more bytes than its range has in this file.
LastByte(r) == IF r.end # None THEN r.end ELSE SourceSize - 1
Room(r)     == LastByte(r) - r.start + 1
BytesFit    == \A j \in Jobs : pc[j] # "free" => bytes[j] <= Room(job[j].range)

CountInvariant == ClaimsDisjoint /\ BytesFit

\* Callers start only what is free, the server sends only what it is asked
\* for, and what was recovered does not overlap.
DisjointStarts ==
    /\ CarefulClients /\ "disjoint" \in Manners
    /\ RangedServer
    /\ \A i, k \in 1..Len(Recovered) : i # k => ~Overlap(Recovered[i], Recovered[k])

(***************************************************************************)
(* Chunks that claim a range                                               *)
(***************************************************************************)

\* What a range is made of.
LEMMA RoomFacts ==
    ASSUME NEW r \in Ranges
    PROVE  /\ r.start \in Nat /\ LastByte(r) \in Nat
           /\ r.start <= LastByte(r) /\ LastByte(r) < SourceSize
           /\ Room(r) \in Nat
BY RangesAssumption, SizeAssumption DEF ChunkRange, LastByte, Room, None

\* Chunks that end, are called off or are forgotten give up their claims.
LEMMA FewerClaims ==
    ASSUME ClaimsDisjoint, job' = job,
           \A r \in Ranges : stats'[r] \in {stats[r], NoJob},
           \A j \in Jobs : status'[j] \in Claiming =>
              /\ status[j] \in Claiming
              /\ status[j] = "AWAITING_SUCCESSION" => status'[j] = "AWAITING_SUCCESSION",
           stats \in [Ranges -> Jobs \union {NoJob}]
    PROVE  ClaimsDisjoint'
<1> SUFFICES ASSUME NEW r \in Ranges, NEW s \in Ranges, r # s,
                    Claims(r)', Claims(s)', Overlap(r, s)
             PROVE  Succeeds(stats[s], stats[r])' \/ Succeeds(stats[r], stats[s])'
  BY DEF ClaimsDisjoint, Overlap
<1>1. ASSUME NEW q \in Ranges, Claims(q)'
      PROVE  /\ stats'[q] = stats[q] /\ stats[q] \in Jobs /\ Claims(q)
             /\ status[stats[q]] = "AWAITING_SUCCESSION" => status'[stats[q]] = "AWAITING_SUCCESSION"
  <2>1. stats'[q] = stats[q] /\ stats[q] \in Jobs /\ status'[stats[q]] \in Claiming
    BY <1>1 DEF Claims
  <2>2. QED
    BY <2>1, JobNumbers DEF Claims
<1>2. Succeeds(stats[s], stats[r]) \/ Succeeds(stats[r], stats[s])
  BY <1>1 DEF ClaimsDisjoint
<1>3. QED
  BY <1>1, <1>2 DEF Succeeds

\* A succession that completes takes the claim of its predecessor over.
LEMMA HandOverKeepsClaims ==
    ASSUME ClientInvariant, ClaimsDisjoint, NEW j \in Jobs, job[j].kind = "succession",
           status[j] = "AWAITING_SUCCESSION", UNCHANGED <<job, stats>>,
           status' = [status EXCEPT ![j] = "COMPLETED", ![job[j].pred] = "DEPRECATED"]
    PROVE  ClaimsDisjoint'
<1> DEFINE p == job[j].pred
<1> SUFFICES ASSUME NEW r \in Ranges, NEW s \in Ranges, r # s,
                    Claims(r)', Claims(s)', Overlap(r, s)
             PROVE  Succeeds(stats[s], stats[r])' \/ Succeeds(stats[r], stats[s])'
  BY DEF ClaimsDisjoint, Overlap
<1>1. p \in Jobs /\ p # j
  BY PredFacts
<1>2. status'[p] = "DEPRECATED" /\ status'[j] = "COMPLETED"
      /\ \A k \in Jobs \ {j, p} : status'[k] = status[k]
  BY <1>1, BookTypes DEF ClientInvariant
<1>3. ASSUME NEW q \in Ranges, Claims(q)'
      PROVE  stats[q] \in Jobs /\ stats[q] # p /\ Claims(q)
  <2>1. stats[q] \in Jobs /\ status'[stats[q]] \in Claiming /\ stats[q] # NoJob
    BY <1>3, BookTypes DEF ClientInvariant, Claims
  <2>2. stats[q] # p
    BY <1>2, <2>1 DEF Claiming, Active
  <2>3. status[stats[q]] \in Claiming
    BY <1>2, <2>1, <2>2 DEF Claiming, Active
  <2>4. QED
    BY <2>1, <2>2, <2>3 DEF Claims
<1>4. Succeeds(stats[s], stats[r]) \/ Succeeds(stats[r], stats[s])
  BY <1>3 DEF ClaimsDisjoint
<1>5. ASSUME NEW i \in Jobs, NEW k \in Jobs, i # p, k # p, Succeeds(i, k)
      PROVE  Succeeds(i, k)'
  <2>1. i # j
    BY <1>5 DEF Succeeds
  <2>2. QED
    BY <1>2, <1>5, <2>1 DEF Succeeds
<1>6. QED
  BY <1>3, <1>4, <1>5

\* Every step of a task keeps claims apart.
LEMMA TaskKeepsClaims ==
    ASSUME ClientInvariant, ClaimsDisjoint, NEW j \in Jobs, Shape(j)
    PROVE  ClaimsDisjoint'
<1>1. /\ UNCHANGED <<job, stats>> /\ status \in [Jobs -> Status]
      /\ stats \in [Ranges -> Jobs \union {NoJob}]
  BY ShapeFrame, BookTypes DEF ClientInvariant
<1>2. CASE HandsOver(j)
  <2>1. status[j] = "AWAITING_SUCCESSION" /\ job[j].kind = "succession"
    <3>1. pc[j] = "moving" /\ ~cancelling[j]
      BY <1>2 DEF HandsOver
    <3>2. QED
      BY <3>1, PlaceStatus, PlaceKinds DEF ClientInvariant, Marked
  <2>2. QED
    BY <1>1, <1>2, <2>1, HandOverKeepsClaims DEF HandsOver
<1>3. CASE ~HandsOver(j)
  <2>1. \A k \in Jobs : status'[k] \in Claiming =>
           /\ status[k] \in Claiming
           /\ status[k] = "AWAITING_SUCCESSION" => status'[k] = "AWAITING_SUCCESSION"
    <3> SUFFICES ASSUME NEW k \in Jobs, status'[k] \in Claiming
                 PROVE  /\ status[k] \in Claiming
                        /\ status[k] = "AWAITING_SUCCESSION" => status'[k] = "AWAITING_SUCCESSION"
      OBVIOUS
    <3>1. CASE k # j
      BY <1>3, <3>1, ShapeStatuses
    <3>2. CASE k = j
      BY <1>1, <1>3, <3>2, OwnStatus DEF Claiming, Active, Ended
    <3>3. QED
      BY <3>1, <3>2
  <2>2. QED
    BY <1>1, <2>1, FewerClaims
<1>4. QED
  BY <1>2, <1>3

\* So does every step of a caller that creates no job.
LEMMA FrameKeepsClaims ==
    ASSUME ClientInvariant, BookInvariant', ClaimsDisjoint, NEW c \in Callers, ClientFrame(c)
    PROVE  ClaimsDisjoint'
<1>1. /\ job' = job
      /\ \A r \in Ranges : stats'[r] \in {stats[r], NoJob}
      /\ stats \in [Ranges -> Jobs \union {NoJob}]
  BY FrameFacts, BookTypes DEF ClientFrame, ClientInvariant
<1>2. \A k \in Jobs : status'[k] = status[k] \/ status'[k] = "CANCELLED"
  BY DEF ClientFrame
<1>3. QED
  BY <1>1, <1>2, FewerClaims DEF Claiming, Active

\* A new chunk claims what only its predecessor claims.
LEMMA CreateKeepsClaims ==
    ASSUME ClientInvariant, ClaimsDisjoint, NEW j, NEW kind, NEW r, NEW pred, NEW awaits,
           Creates(j, kind, r, pred, awaits),
           \A s \in Ranges \ {r} : Claims(s) /\ Overlap(r, s)
              => kind = "succession" /\ stats[s] = pred
    PROVE  ClaimsDisjoint'
<1>1. /\ j \in Jobs /\ r \in Ranges /\ pc[j] = "free" /\ stats'[r] = j
      /\ job'[j].kind = kind /\ job'[j].pred = pred
      /\ kind = "succession" => status'[j] = "AWAITING_SUCCESSION"
      /\ \A k \in Jobs \ {j} : job'[k] = job[k] /\ status'[k] = status[k]
      /\ \A q \in Ranges \ {r} : stats'[q] = stats[q]
  BY DEF Creates
<1>2. ASSUME NEW s \in Ranges \ {r}, Claims(s)'
      PROVE  stats'[s] = stats[s] /\ stats[s] \in Jobs \ {j} /\ Claims(s)
  <2>1. stats'[s] = stats[s] /\ stats[s] \in Jobs
    BY <1>1, <1>2, BookTypes DEF ClientInvariant, Claims
  <2>2. stats[s] # j
    BY <1>1, <2>1, JobNumbers DEF ClientInvariant, BookInvariant, BooksAgree
  <2>3. QED
    BY <1>1, <1>2, <2>1, <2>2 DEF Claims
<1>3. ASSUME NEW s \in Ranges \ {r}, Claims(s)', Overlap(r, s)
      PROVE  Succeeds(j, stats[s])'
  BY <1>1, <1>2, <1>3 DEF Succeeds
<1>4. ASSUME NEW q \in Ranges \ {r}, NEW s \in Ranges \ {r}, q # s,
             Claims(q)', Claims(s)', Overlap(q, s)
      PROVE  Succeeds(stats[s], stats[q])' \/ Succeeds(stats[q], stats[s])'
  <2>1. Succeeds(stats[s], stats[q]) \/ Succeeds(stats[q], stats[s])
    BY <1>2, <1>4 DEF ClaimsDisjoint
  <2>2. QED
    BY <1>1, <1>2, <1>4, <2>1 DEF Succeeds
<1>5. \A q, s \in Ranges : Overlap(q, s) <=> Overlap(s, q)
  BY DEF Overlap
<1> SUFFICES ASSUME NEW q \in Ranges, NEW s \in Ranges, q # s,
                    Claims(q)', Claims(s)', Overlap(q, s)
             PROVE  Succeeds(stats[s], stats[q])' \/ Succeeds(stats[q], stats[s])'
  BY DEF ClaimsDisjoint, Overlap
<1>6. CASE q = r
  <2>1. Succeeds(j, stats[s])' /\ stats'[q] = j
    BY <1>1, <1>3, <1>6
  <2>2. QED
    BY <2>1 DEF Succeeds
<1>7. CASE s = r
  <2>1. Succeeds(j, stats[q])' /\ stats'[s] = j
    BY <1>1, <1>3, <1>5, <1>7
  <2>2. QED
    BY <2>1 DEF Succeeds
<1>8. QED
  BY <1>4, <1>6, <1>7

\* start_chunk starts nothing that overlaps a chunk that has not failed; the
\* successor of resize_chunk lies within its predecessor, which alone has the
\* claim, and has no other successor.
LEMMA RequestKeepsClaims ==
    ASSUME DisjointStarts, ClientInvariant, BookInvariant', ClaimsDisjoint,
           Request \/ \E c \in Callers : Continue(c)
    PROVE  ClaimsDisjoint'
<1>1. ASSUME NEW r \in Starts, StartChunk(r) PROVE ClaimsDisjoint'
  <2>1. PICK j : Creates(j, "download", r, NoJob, NoJob)
    BY <1>1, StartCreates DEF DisjointStarts
  <2>2. \A s \in Ranges \ {r} : Claims(s) => ~Overlap(r, s)
    BY <1>1 DEF StartChunk, MayStart, DisjointStarts, Claims, Claiming, Active
  <2>3. QED
    BY <2>1, <2>2, CreateKeepsClaims
<1>2. ASSUME NEW p \in Resizes, ResizeChunk(p[1], p[2]) PROVE ClaimsDisjoint'
  <2> DEFINE current == p[1]
             new     == p[2]
             a       == stats[current]
  <2>1. PICK j : Creates(j, "succession", new, a, tasks[current])
    BY <1>2, ResizeCreates DEF DisjointStarts
  <2>2. /\ current \in Ranges /\ new \in Ranges /\ Contains(current, new) /\ a \in Jobs
        /\ status[a] \in {"PENDING", "DOWNLOADING", "COMPLETED"}
        /\ Claims(current)
    <3>1. /\ current \in Ranges /\ new \in Ranges /\ Contains(current, new) /\ a \in Jobs
          /\ status[a] \in {"PENDING", "DOWNLOADING", "COMPLETED"}
      BY <1>2, ResizeFacts DEF ClientInvariant, ResizeChunk
    <3>2. QED
      BY <3>1, JobNumbers DEF Claims, Claiming, Active
  <2>3. \A k \in Jobs : job[k].kind = "succession" => job[k].pred # a
    BY <1>2 DEF ResizeChunk, MayResize, DisjointStarts, CarefulClients
  <2>4. ASSUME NEW s \in Ranges \ {new}, Claims(s), Overlap(new, s) PROVE stats[s] = a
    <3>1. Overlap(current, s)
      BY <2>2, <2>4, RoomFacts, RangesAssumption DEF Overlap, Contains, ChunkRange, None
    <3>2. stats[s] \in Jobs
      BY <2>4, BookTypes DEF Claims, ClientInvariant
    <3>3. SUFFICES ASSUME s # current PROVE FALSE
      OBVIOUS
    <3>4. Succeeds(stats[s], a) \/ Succeeds(a, stats[s])
      BY <2>2, <2>4, <3>1, <3>3 DEF ClaimsDisjoint
    <3>5. QED
      BY <2>2, <2>3, <3>2, <3>4 DEF Succeeds
  <2>5. QED
    BY <2>1, <2>4, CreateKeepsClaims
<1>3. CASE \E c \in Callers : ClientFrame(c)
  BY <1>3, FrameKeepsClaims
<1>4. ASSUME NEW c \in Callers, NEW op \in Operations,
             \/ \E r \in Ranges : CancelOrDelete(c, op, r)
             \/ WaitBegin(c, op)
             \/ CancelAll(c, op)
      PROVE  ClaimsDisjoint'
  BY <1>3, <1>4, CancelOrDeleteFrame, WaitFrame, CancelAllFrame DEF DisjointStarts
<1>5. ASSUME NEW c \in Callers, Continue(c) PROVE ClaimsDisjoint'
  BY <1>3, <1>5, CancelInitiatedFrame, CancelJoinedFrame, UnlinkFrame, WaitFrame, WaitEndFrame,
     GatherEndFrame, PurgeFrame DEF Continue, DisjointStarts
<1>6. QED
  BY <1>1, <1>2, <1>4, <1>5 DEF Request

(***************************************************************************)
(* How much a chunk counts                                                 *)
(***************************************************************************)

\* A block is no longer than what the server still has for the range, and the
\* successor counts what its crop has left.
LEMMA TaskKeepsBytes ==
    ASSUME DisjointStarts, ClientInvariant, BytesFit, NEW j \in Jobs, JobStep(j)
    PROVE  BytesFit'
<1>1. /\ Shape(j) /\ job' = job /\ pc[j] # "free"
      /\ \A k \in Jobs \ {j} : pc'[k] = pc[k] /\ bytes'[k] = bytes[k]
      /\ job[j].range \in Ranges /\ bytes \in [Jobs -> Nat]
  BY JobStepShape, ShapeFrame, PlaceKinds, BookTypes DEF ClientInvariant
<1>2. bytes[j] <= Room(job[j].range)
  BY <1>1 DEF BytesFit
<1>3. bytes'[j] <= Room(job[j].range)
  <2>1. CASE bytes'[j] = bytes[j]
    BY <1>2, <2>1
  <2>2. ASSUME NEW n \in 1..SourceSize, Receive(j, n) \/ LoseWrite(j, n)
        PROVE  bytes'[j] <= Room(job[j].range)
    <3>1. bytes'[j] = bytes[j] + n /\ n <= Available(j) - bytes[j]
      BY <1>1, <2>2 DEF Receive, LoseWrite, Count
    <3>2. Available(j) = Room(job[j].range)
      BY DEF DisjointStarts, Available, SourceFrom, Room, LastByte
    <3>3. n \in Int /\ bytes[j] \in Int /\ Room(job[j].range) \in Int
      BY <1>1, RoomFacts, SizeAssumption
    <3>4. QED
      BY <3>1, <3>2, <3>3
  <2>3. CASE Move(j)
    <3> DEFINE p == job[j].pred
    <3>1. /\ job[j].kind = "succession"
          /\ bytes'[j] = EndCrop(j) - StartCrop(j) + 1
      BY <1>1, <2>3, PlaceKinds DEF ClientInvariant, Move
    <3>2. /\ p \in Jobs /\ job[p].range \in Ranges /\ Contains(job[p].range, job[j].range)
          /\ bytes[p] \in Nat /\ bytes[p] <= Room(job[p].range)
      BY <1>1, <3>1, PredFacts DEF ClientInvariant, BookInvariant, SuccessionsAgree, BytesFit
    <3>3. CASE job[j].range.end # None
      BY <1>1, <3>1, <3>2, <3>3, RoomFacts, RangesAssumption
         DEF StartCrop, EndCrop, Room, LastByte, ChunkRange, None
    <3>4. CASE job[j].range.end = None
      <4>1. job[p].range.end = None
        BY <3>2, <3>4 DEF Contains
      <4>2. QED
        BY <1>1, <3>1, <3>2, <3>4, <4>1, RoomFacts, SizeAssumption
           DEF StartCrop, EndCrop, Room, LastByte
    <3>5. QED
      BY <3>3, <3>4
  <2>4. CASE pc[j] \notin {"streaming", "moving"}
    BY <1>1, <2>1, <2>4 DEF Shape, TaskFrame
  <2>5. CASE pc[j] \in {"streaming", "moving"} /\ bytes' # bytes
    <3>1. (\E n \in 1..SourceSize : Receive(j, n) \/ LoseWrite(j, n)) \/ Move(j)
      BY <2>5 DEF JobStep, Drop, FirstToRun, WorkerStep, StartDownload, Open, OpenFails, EndStream,
         InterruptOpening, InterruptStreaming, InterruptFlushing, Flush, FlushFails,
         SuccessionStep, StartSuccession, Resume, CheckCrop, Crop, CropFails, MoveFails,
         InterruptAwaiting, InterruptCropping, InterruptMoving, Stopped, statVars
    <3>2. QED
      BY <2>2, <2>3, <3>1
  <2>6. QED
    BY <2>1, <2>4, <2>5
<1>4. QED
  BY <1>1, <1>3 DEF BytesFit

\* A caller or the monitor changes no count, and a new chunk counts nothing.
LEMMA RequestKeepsBytes ==
    ASSUME CarefulClients, ClientInvariant, BookInvariant', BytesFit,
           Request \/ \E c \in Callers : Continue(c)
    PROVE  BytesFit'
<1>1. bytes' = bytes
  BY DEF Request, Continue, StartChunk, ResizeChunk, CancelOrDelete, WaitBegin, CancelAll,
         CancelInitiated, CancelJoined, Unlink, WakeUp, WaitEnd, GatherEnd, Purge, statVars
<1>2. ASSUME NEW c \in Callers, ClientFrame(c) PROVE BytesFit'
  BY <1>1, <1>2 DEF ClientFrame, BytesFit
<1>3. ASSUME NEW j, NEW kind, NEW r, NEW pred, NEW awaits, Creates(j, kind, r, pred, awaits)
      PROVE  BytesFit'
  <2>1. /\ j \in Jobs /\ r \in Ranges /\ pc[j] = "free" /\ job'[j].range = r
        /\ \A k \in Jobs \ {j} : job'[k] = job[k] /\ pc'[k] = pc[k]
    BY <1>3 DEF Creates
  <2>2. bytes[j] = 0 /\ 0 <= Room(r)
    BY <2>1, RoomFacts DEF ClientInvariant, OrderInvariant, Beginnings
  <2>3. QED
    BY <1>1, <2>1, <2>2 DEF BytesFit
<1>4. QED
  BY <1>2, <1>3, CallerSteps

(***************************************************************************)
(* The invariant of the counts                                             *)
(***************************************************************************)

LEMMA InitCounts ==
    ASSUME DisjointStarts, Init
    PROVE  CountInvariant
<1>1. ASSUME NEW j \in Jobs
      PROVE  /\ pc[j] = IF InitialJob(j) THEN "done" ELSE "free"
             /\ InitialJob(j) => /\ j \in 1..Len(Recovered) /\ Found(j) \in Ranges
                                 /\ job[j].range = Found(j)
                                 /\ bytes[j] = TotalBytes(Found(j), SourceSize)
  <2>1. InitialJob(j) => j \in 1..Len(Recovered) /\ Found(j) \in Ranges
    BY BoundAssumption DEF InitialJob, Jobs, Found
  <2>2. InitialJob(j) => job[j] = [NoRecord EXCEPT !.kind = "recovered", !.range = Found(j)]
    BY DEF Init
  <2>3. InitialJob(j) => job[j].range = Found(j)
    BY <2>2 DEF NoRecord
  <2>4. QED
    BY <2>1, <2>3 DEF Init
<1>2. BytesFit
  <2> SUFFICES ASSUME NEW j \in Jobs, InitialJob(j)
               PROVE  bytes[j] <= Room(job[j].range)
    BY <1>1 DEF BytesFit
  <2>1. TotalBytes(Found(j), SourceSize) = Room(Found(j)) /\ Room(Found(j)) \in Nat
    BY <1>1, RoomFacts, SizeAssumption DEF TotalBytes, Room, LastByte, None
  <2>2. QED
    BY <1>1, <2>1
<1>3. ClaimsDisjoint
  <2> SUFFICES ASSUME NEW r \in Ranges, NEW s \in Ranges, r # s, Claims(r), Claims(s)
               PROVE  ~Overlap(r, s)
    BY DEF ClaimsDisjoint
  <2>1. ASSUME NEW q \in Ranges, Claims(q)
        PROVE  \E i \in 1..Len(Recovered) : Found(i) = q
    <3>1. stats[q] # NoJob
      BY <2>1 DEF Claims
    <3>2. stats[q] = IF \E i \in 1..Len(Recovered) : Found(i) = q
                     THEN CHOOSE i \in 1..Len(Recovered) : Found(i) = q ELSE NoJob
      BY DEF Init
    <3>3. QED
      BY <3>1, <3>2
  <2>2. PICK i \in 1..Len(Recovered), k \in 1..Len(Recovered) : Found(i) = r /\ Found(k) = s
    BY <2>1
  <2>3. QED
    BY <2>2 DEF DisjointStarts, Found
<1>4. QED
  BY <1>2, <1>3 DEF CountInvariant

LEMMA NextKeepsCounts ==
    ASSUME DisjointStarts, ClientInvariant, BookInvariant', CountInvariant, [Next]_vars
    PROVE  CountInvariant'
<1>1. ASSUME NEW j \in Jobs, JobStep(j) PROVE CountInvariant'
  <2>1. Shape(j)
    BY <1>1, JobStepShape DEF ClientInvariant
  <2>2. QED
    BY <1>1, <2>1, TaskKeepsClaims, TaskKeepsBytes DEF CountInvariant
<1>2. CASE Request \/ \E c \in Callers : Continue(c)
  BY <1>2, RequestKeepsClaims, RequestKeepsBytes DEF CountInvariant, DisjointStarts
<1>3. CASE MonitorEnds \/ UNCHANGED vars
  <2>1. UNCHANGED <<job, pc, status, bytes, stats>>
    BY <1>3 DEF MonitorEnds, taskVars, statVars, vars
  <2>2. QED
    BY <2>1 DEF CountInvariant, ClaimsDisjoint, BytesFit, Claims, Succeeds
<1>4. QED
  BY <1>1, <1>2, <1>3 DEF Next

\* The bytes of chunks with disjoint ranges are different bytes of the file.
BytesOf(C, count) == UNION {{r} \X (1..count[r]) : r \in C}
LEMMA DisjointBytes ==
    ASSUME NEW size \in Nat, NEW C, NEW first, NEW count,
           \A r \in C : first[r] \in Nat /\ count[r] \in Nat /\ first[r] + count[r] <= size,
           \A r, s \in C : r # s => first[r] + count[r] <= first[s] \/ first[s] + count[s] <= first[r]
    PROVE  Cardinality(BytesOf(C, count)) <= size
<1> DEFINE pairs == BytesOf(C, count)
           byte  == [p \in pairs |-> first[p[1]] + p[2] - 1]
<1>1. ASSUME NEW p \in pairs
      PROVE  p = <<p[1], p[2]>> /\ p[1] \in C /\ p[2] \in 1..count[p[1]]
  <2>1. PICK r \in C : p \in {r} \X (1..count[r])
    BY DEF BytesOf
  <2>2. QED
    BY <2>1
<1>2. byte \in [pairs -> 0..(size - 1)]
  <2> SUFFICES ASSUME NEW p \in pairs PROVE first[p[1]] + p[2] - 1 \in 0..(size - 1)
    OBVIOUS
  <2>1. p[1] \in C /\ p[2] \in 1..count[p[1]]
    BY <1>1
  <2> HIDE DEF pairs
  <2>2. QED
    BY <2>1
<1>3. ASSUME NEW p \in pairs, NEW q \in pairs, byte[p] = byte[q] PROVE p = q
  <2>1. /\ p = <<p[1], p[2]>> /\ p[1] \in C /\ p[2] \in 1..count[p[1]]
        /\ q = <<q[1], q[2]>> /\ q[1] \in C /\ q[2] \in 1..count[q[1]]
    BY <1>1
  <2>2. first[p[1]] + p[2] - 1 = first[q[1]] + q[2] - 1
    BY <1>3
  <2> HIDE DEF pairs, byte
  <2>3. p[1] = q[1]
    BY <2>1, <2>2
  <2>4. p[2] = q[2]
    <3>1. first[p[1]] \in Nat /\ p[2] \in Int /\ q[2] \in Int
      BY <2>1
    <3>2. QED
      BY <2>2, <2>3, <3>1
  <2>5. QED
    BY <2>1, <2>3, <2>4
<1> HIDE DEF byte, pairs
<1>4. byte \in Injection(pairs, 0..(size - 1))
  BY <1>2, <1>3 DEF Injection, IsInjective
<1>5. IsFiniteSet(0..(size - 1)) /\ Cardinality(0..(size - 1)) = size
  <2>1. 0 \in Int /\ size - 1 \in Int
    OBVIOUS
  <2>2. /\ IsFiniteSet(0..(size - 1))
        /\ Cardinality(0..(size - 1)) = IF 0 > size - 1 THEN 0 ELSE (size - 1) - 0 + 1
    BY <2>1, FS_Interval
  <2>3. QED
    BY <2>2
<1>6. Cardinality(pairs) <= Cardinality(0..(size - 1))
  BY <1>4, <1>5, FS_Injection
<1>7. QED
  BY <1>5, <1>6 DEF pairs

\* get_downloaded_bytes never counts a byte twice, in a chunk and in the
\* successor that takes its file, however downloads, resizes, cancellations
\* and restarts of ranges follow each other: when callers start no range that
\* overlaps a chunk that has not failed, the server honours ranges and the
\* recovered chunks do not overlap, what is counted is at most the file.
THEOREM NoByteIsCountedTwice ==
    ASSUME DisjointStarts
    PROVE  Spec => []NothingCountedTwice
<1>1. Init => CountInvariant
  BY InitCounts
<1>2. ASSUME ClientInvariant, ClientInvariant', CountInvariant, [Next]_vars PROVE CountInvariant'
  BY <1>2, NextKeepsCounts DEF ClientInvariant
<1>3. ASSUME ClientInvariant, CountInvariant PROVE NothingCountedTwice
  <2> DEFINE first == [r \in Ranges |-> r.start]
             count == [r \in Ranges |-> bytes[stats[r]]]
  <2>1. ASSUME NEW r \in Counted
        PROVE  /\ r \in Ranges /\ Claims(r) /\ status[stats[r]] # "AWAITING_SUCCESSION"
               /\ first[r] = r.start /\ count[r] = bytes[stats[r]] /\ count[r] \in Nat
               /\ r.start \in Nat /\ LastByte(r) \in Nat /\ LastByte(r) < SourceSize
               /\ r.start + count[r] <= LastByte(r) + 1
    <3>1. /\ r \in Ranges /\ stats[r] # NoJob /\ stats[r] \in Jobs
          /\ status[stats[r]] \in {"COMPLETED", "DOWNLOADING"}
      BY <1>3, <2>1, BookTypes DEF Counted, ClientInvariant
    <3>2. pc[stats[r]] # "free" /\ job[stats[r]].range = r /\ bytes[stats[r]] \in Nat
      BY <1>3, <3>1, BookTypes DEF ClientInvariant, BookInvariant, BooksAgree
    <3>3. bytes[stats[r]] <= Room(r)
      BY <1>3, <3>1, <3>2 DEF CountInvariant, BytesFit
    <3>4. r.start + count[r] <= LastByte(r) + 1
      BY <3>1, <3>2, <3>3, RoomFacts DEF Room
    <3>5. QED
      BY <3>1, <3>2, <3>4, RoomFacts DEF Claims, Claiming, Active
  <2>2. \A r, s \in Counted : r # s =>
           first[r] + count[r] <= first[s] \/ first[s] + count[s] <= first[r]
    <3> SUFFICES ASSUME NEW r \in Counted, NEW s \in Counted, r # s
                 PROVE  r.start + count[r] <= s.start \/ s.start + count[s] <= r.start
      BY <2>1
    <3>1. ~Overlap(r, s)
      BY <1>3, <2>1 DEF CountInvariant, ClaimsDisjoint, Succeeds
    <3>2. LastByte(s) < r.start \/ LastByte(r) < s.start
      <4>1. /\ r.start \in Nat /\ s.start \in Nat /\ r.start < SourceSize /\ s.start < SourceSize
            /\ r.end \in Nat \union {None} /\ s.end \in Nat \union {None}
        BY <2>1, RangesAssumption DEF ChunkRange
      <4>2. QED
        BY <3>1, <4>1, SizeAssumption DEF Overlap, LastByte, None
    <3> HIDE DEF first, count
    <3>3. QED
      BY <2>1, <3>2
  <2>3. \A r \in Counted : first[r] \in Nat /\ count[r] \in Nat /\ first[r] + count[r] <= SourceSize
    <3> SUFFICES ASSUME NEW r \in Counted
                 PROVE  first[r] \in Nat /\ count[r] \in Nat /\ first[r] + count[r] <= SourceSize
      OBVIOUS
    <3>1. first[r] \in Nat /\ count[r] \in Nat /\ first[r] + count[r] <= LastByte(r) + 1
          /\ LastByte(r) \in Nat /\ LastByte(r) < SourceSize
      BY <2>1
    <3> HIDE DEF first, count
    <3>2. QED
      BY <3>1, SizeAssumption
  <2>4. \A r \in Counted : count[r] = bytes[stats[r]]
    BY <2>1
  <2> HIDE DEF first, count
  <2>5. Cardinality(BytesOf(Counted, count)) <= SourceSize
    BY <2>2, <2>3, DisjointBytes, SizeAssumption
  <2>6. {{r} \X (1..count[r]) : r \in Counted} = {{r} \X (1..bytes[stats[r]]) : r \in Counted}
    BY <2>4
  <2>7. QED
    BY <2>5, <2>6 DEF BytesOf, NothingCountedTwice, DownloadedBytes
<1>4. CarefulClients
  BY DEF DisjointStarts
<1>5. Spec => []ClientInvariant
  BY <1>4, ClientsInOrder
<1>6. QED
  BY <1>1, <1>2, <1>3, <1>5, PTL DEF Spec
=============================================================================
