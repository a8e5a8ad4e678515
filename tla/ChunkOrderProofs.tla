-------------------------- MODULE ChunkOrderProofs --------------------------
(***************************************************************************)
(* What the steps of the tasks have in common, and the first layer of      *)
(* invariants: what holds of the order of jobs and of their beginnings     *)
(* whatever the callers do.  That a chunk the stats call active has a      *)
(* running task follows from it, and that tasks never wait for each other  *)
(* in a circle; with what a suspended call waits for (WaitsAgree), that    *)
(* nobody is stuck; and no task or call goes on for ever.                  *)
(***************************************************************************)
EXTENDS ChunkManagerProofs, WellFoundedInduction

Active == {"PENDING", "DOWNLOADING", "AWAITING_SUCCESSION"}
Ended  == {"COMPLETED", "DEPRECATED", "CANCELLED", "ERROR"}

(***************************************************************************)
(* The invariant: whatever the callers do                                  *)
(***************************************************************************)

\* The event loop runs first steps in the order of creation, so no job has
\* begun while an earlier one waits for its first step.
InOrder ==
    \A j, k \in Jobs : k < j =>
        /\ pc[j] # "free" => pc[k] # "free"
        /\ pc[j] \notin {"free", "created"} => pc[k] # "created"

\* A succession awaits the task of the chunk it inherits from, or none; and
\* the limit armed on a chunk is armed by a succession of that very chunk.
Lineage ==
    \A j \in Jobs :
        /\ job[j].kind = "succession" =>
              job[j].pred < j /\ job[j].awaits \in {NoJob, job[j].pred}
        /\ observer[j] # NoJob =>
              job[observer[j]].kind = "succession" /\ job[observer[j]].pred = j

\* A task that may be dropped before its first step belongs to a chunk that is
\* called off already, or that the stats have forgotten.
CalledOff(j) == status[j] \in Ended \/ j \notin StatsJobs
Beginnings ==
    \A j \in Jobs :
        /\ pc[j] \in {"free", "created", "opening"} => bytes[j] = 0
        /\ pc[j] = "free" => ~cancelling[j]
        /\ pc[j] = "created" => status[j] # "DOWNLOADING"
        /\ pc[j] = "created" /\ cancelling[j] => CalledOff(j)
        /\ pc[j] = "dropped" => CalledOff(j)
        /\ pc[j] = "done" => status[j] \in Ended

OrderInvariant == InOrder /\ Lineage /\ Beginnings

(***************************************************************************)
(* Who is cancelled                                                        *)
(***************************************************************************)

\* What BookInvariant says of the types of the variables of tasks.
LEMMA BookTypes ==
    ASSUME BookInvariant
    PROVE  /\ job \in [Jobs -> JobRecord]
           /\ pc \in [Jobs -> Place]
           /\ cancelling \in [Jobs -> BOOLEAN]
           /\ exc \in [Jobs -> {"none", "refused", "error", "cancelled"}]
           /\ status \in [Jobs -> Status]
           /\ bytes \in [Jobs -> Nat]
           /\ observer \in [Jobs -> Jobs \union {NoJob}]
           /\ path \in [Jobs -> Ranges \union {NoRange}]
           /\ disk \in [Ranges -> ChunkFile]
           /\ stats \in [Ranges -> Jobs \union {NoJob}]
           /\ tasks \in [Ranges -> Jobs \union {NoJob}]
           /\ call \in [Callers -> CallRecord]
BY DEF BookInvariant, TypeOK

\* Jobs are numbers, and NoJob is none of them.
LEMMA JobNumbers == Jobs \subseteq Nat /\ NoJob \notin Jobs
BY BoundAssumption DEF Jobs, NoJob

\* What a succession knows of the job it inherits from.
LEMMA SuccessionFacts ==
    ASSUME BookInvariant, OrderInvariant, NEW j \in Jobs, job[j].kind = "succession"
    PROVE  /\ job[j].pred \in Jobs /\ job[j].pred < j
           /\ job[j].awaits \in {NoJob, job[j].pred}
           /\ job[job[j].pred].kind = "download" \/ Done(job[j].pred)
           /\ pc[job[j].pred] # "free"
<1>1. job[j].pred \in Jobs /\ job[job[j].pred].kind # "none"
      /\ (job[job[j].pred].kind = "download" \/ Done(job[j].pred))
  BY DEF BookInvariant, SuccessionsAgree
<1>2. pc[job[j].pred] # "free"
  BY <1>1 DEF BookInvariant, KindsAgree
<1>3. QED
  BY <1>1, <1>2 DEF OrderInvariant, Lineage

\* Places of downloads and of successions.
LEMMA PlaceKinds ==
    ASSUME BookInvariant, NEW j \in Jobs
    PROVE  /\ pc[j] \in {"opening", "streaming", "flushing"} => job[j].kind = "download"
           /\ pc[j] \in {"awaiting", "cropping", "shifting", "moving", "stopping"}
                 => job[j].kind = "succession"
           /\ pc[j] \in {"awaiting", "stopping"} => job[j].awaits \in Jobs
           /\ pc[j] = "free" <=> job[j].kind = "none"
           /\ pc[j] # "free" => job[j].range \in Ranges
           /\ job[j].kind = "recovered" => Done(j)
BY DEF BookInvariant, KindsAgree

\* task.cancel() marks the tasks it is called on, or the download that one of
\* them is stopping and waits for.
LEMMA NewlyCancelled ==
    ASSUME BookInvariant, OrderInvariant, NEW S \in SUBSET Jobs, NEW k \in Jobs,
           CancelledBy(S)[k], ~cancelling[k]
    PROVE  /\ Live(k)
           /\ k \in S \/ (pc[k] # "created" /\ job[k].kind = "download")
<1>1. Live(k) /\ \E i \in S : k = CancelTarget(i)
  BY DEF CancelledBy
<1>2. PICK i \in S : k = CancelTarget(i)
  BY <1>1
<1>3. CASE k = i
  BY <1>1, <1>3
<1>4. CASE k # i
  <2>1. pc[i] = "stopping" /\ ~Done(job[i].awaits) /\ k = job[i].awaits
    BY <1>2, <1>4 DEF CancelTarget
  <2>2. i \in Jobs /\ job[i].kind = "succession" /\ k \in Jobs /\ k = job[i].pred /\ k < i
    BY <2>1, PlaceKinds, SuccessionFacts, JobNumbers
  <2>3. job[k].kind = "download"
    BY <2>1, <2>2, SuccessionFacts
  <2>4. pc[k] # "created"
    BY <2>1, <2>2 DEF OrderInvariant, InOrder
  <2>5. QED
    BY <1>1, <2>3, <2>4
<1>5. QED
  BY <1>3, <1>4

\* And it forgets nobody it has marked before.
LEMMA StillCancelled ==
    ASSUME BookInvariant, NEW S, NEW k \in Jobs
    PROVE  /\ CancelledBy(S) \in [Jobs -> BOOLEAN]
           /\ cancelling[k] => CancelledBy(S)[k]
BY BookTypes DEF CancelledBy

(***************************************************************************)
(* The shape of a step of a task                                           *)
(***************************************************************************)

\* It leaves the dictionaries, the callers and the other tasks alone, but for
\* a download it may cancel.
TaskFrame(j) ==
    /\ UNCHANGED <<job, stats, tasks, monitor, call, cleaned>>
    /\ Live(j)
    /\ \A k \in Jobs \ {j} :
          pc'[k] = pc[k] /\ exc'[k] = exc[k] /\ bytes'[k] = bytes[k]
    /\ pc[j] = "created" => FirstToRun(j)
    /\ pc[j] \notin {"streaming", "moving"} => bytes'[j] = bytes[j]
    /\ \A k \in Jobs : observer'[k] \in {observer[k], NoJob}
    /\ \A k \in Jobs \ {j} : cancelling[k] => cancelling'[k]
    /\ \A k \in Jobs : cancelling'[k] =>
          cancelling[k] \/ (Live(k) /\ pc[k] # "created" /\ job[k].kind = "download")

\* The six ways to go on.
Drops(j) ==
    /\ pc[j] = "created" /\ cancelling[j] /\ pc'[j] = "dropped"
    /\ status' = status
    /\ exc'[j] = "cancelled"
Begins(j) ==
    /\ pc[j] = "created" /\ ~cancelling[j] /\ cancelling' = cancelling
    /\ \/ /\ job[j].kind = "download" /\ pc'[j] = "opening"
          /\ status' = [status EXCEPT ![j] = "DOWNLOADING"]
       \/ /\ job[j].kind = "succession" /\ status[j] = "AWAITING_SUCCESSION"
          /\ status' = status
          /\ \/ job[j].awaits # NoJob /\ pc'[j] = "awaiting"
             \/ job[j].awaits = NoJob /\ ~Refused(j) /\ pc'[j] = "cropping"
GoesOn(j) ==
    /\ status' = status
    /\ \/ pc[j] \in {"opening", "streaming", "flushing"} /\ pc'[j] \in {"streaming", "flushing"}
       \/ /\ ~cancelling[j] /\ cancelling' = cancelling
          /\ \/ pc[j] = "awaiting" /\ pc'[j] = "cropping" /\ Done(job[j].awaits) /\ ~Refused(j)
             \/ pc[j] = "cropping" /\ pc'[j] = "shifting"
             \/ pc[j] = "shifting" /\ pc'[j] = "moving"
Stops(j) ==
    /\ pc[j] = "awaiting" /\ cancelling[j] /\ pc'[j] = "stopping" /\ ~cancelling'[j]
    /\ ~Done(job[j].awaits)
    /\ status' = [status EXCEPT ![j] = "CANCELLED"]
Ends(j) ==
    /\ pc'[j] = "done"
    /\ \E s \in Ended :
          /\ status' = [status EXCEPT ![j] = s]
          /\ s = "ERROR" => exc'[j] \in {"refused", "error"}
          /\ \/ pc[j] \in {"opening", "streaming", "flushing"}
             \/ job[j].kind = "succession" /\ pc[j] # "stopping" /\ ~cancelling[j] /\ s = "ERROR"
             \/ /\ pc[j] = "stopping" \/ (pc[j] # "created" /\ cancelling[j])
                /\ s = "CANCELLED"
HandsOver(j) ==
    /\ pc[j] = "moving" /\ ~cancelling[j] /\ pc'[j] = "done"
    /\ status' = [status EXCEPT ![j] = "COMPLETED", ![job[j].pred] = "DEPRECATED"]

Shape(j) ==
    TaskFrame(j) /\ (Drops(j) \/ Begins(j) \/ GoesOn(j) \/ Stops(j) \/ Ends(j) \/ HandsOver(j))

\* A task that ends touches nothing but its own books and, a succession, the
\* limit of its predecessor.
LEMMA FinishFrame ==
    ASSUME BookInvariant, NEW j \in Jobs, Live(j), pc[j] # "created" \/ FirstToRun(j),
           NEW s \in Ended, NEW outcome, Finish(j, s, outcome),
           UNCHANGED <<job, bytes, bookVars, clientVars>>,
           observer' = observer \/ \E p : observer' = [observer EXCEPT ![p] = NoJob]
    PROVE  /\ TaskFrame(j)
           /\ pc'[j] = "done" /\ exc'[j] = outcome
           /\ status' = [status EXCEPT ![j] = s]
<1>1. \A k \in Jobs : observer'[k] \in {observer[k], NoJob}
  BY BookTypes
<1>2. \A k \in Jobs \ {j} : pc'[k] = pc[k] /\ exc'[k] = exc[k] /\ bytes'[k] = bytes[k]
      /\ cancelling'[k] = cancelling[k]
  BY BookTypes DEF Finish
<1>3. pc'[j] = "done" /\ exc'[j] = outcome /\ cancelling'[j] = FALSE /\ bytes'[j] = bytes[j]
  BY BookTypes DEF Finish
<1>4. QED
  BY <1>1, <1>2, <1>3 DEF TaskFrame, Finish, bookVars, clientVars

\* A task that goes on to its next place and changes no cancellation but,
\* maybe, its own.
LEMMA AdvanceFrame ==
    ASSUME BookInvariant, NEW j \in Jobs, Live(j), pc[j] # "created" \/ FirstToRun(j),
           NEW place, pc' = [pc EXCEPT ![j] = place],
           cancelling' = cancelling \/ cancelling' = [cancelling EXCEPT ![j] = FALSE],
           exc' = exc \/ \E outcome : exc' = [exc EXCEPT ![j] = outcome],
           UNCHANGED <<job, bytes, observer, bookVars, clientVars>>
    PROVE  TaskFrame(j) /\ pc'[j] = place
<1>1. \A k \in Jobs \ {j} : pc'[k] = pc[k] /\ exc'[k] = exc[k] /\ bytes'[k] = bytes[k]
      /\ cancelling'[k] = cancelling[k]
  BY BookTypes
<1>2. pc'[j] = place /\ (cancelling'[j] => cancelling[j]) /\ bytes'[j] = bytes[j]
  BY BookTypes
<1>3. QED
  BY <1>1, <1>2 DEF TaskFrame, bookVars, clientVars

\* A worker is never called off by the limit armed on it before it has begun:
\* what a limit stops is the very task that has just counted.
LEMMA CountFrame ==
    ASSUME BookInvariant, OrderInvariant, NEW j \in Jobs, pc[j] = "streaming",
           NEW n, Count(j, n)
    PROVE  /\ \A k \in Jobs : observer'[k] \in {observer[k], NoJob}
           /\ \A k \in Jobs \ {j} : bytes'[k] = bytes[k]
           /\ \A k \in Jobs : cancelling[k] => cancelling'[k]
           /\ \A k \in Jobs : cancelling'[k] => cancelling[k] \/ k = j
<1>1. /\ \A k \in Jobs : observer'[k] \in {observer[k], NoJob}
      /\ \A k \in Jobs \ {j} : bytes'[k] = bytes[k]
  BY BookTypes DEF Count
<1>2. CASE ~StopsAt(j, n)
  BY <1>1, <1>2 DEF Count
<1>3. CASE StopsAt(j, n)
  <2>1. cancelling' = CancelledBy({job[observer[j]].awaits})
    BY <1>3 DEF Count
  <2>2. job[observer[j]].awaits = j
    <3>1. observer[j] # NoJob /\ job[observer[j]].awaits # NoJob
      BY <1>3 DEF StopsAt, LimitReached
    <3>2. observer[j] \in Jobs
      BY <3>1, BookTypes
    <3>3. job[observer[j]].kind = "succession" /\ job[observer[j]].pred = j
      BY <3>1 DEF OrderInvariant, Lineage
    <3>4. QED
      BY <3>1, <3>2, <3>3, SuccessionFacts
  <2>3. CancelTarget(j) = j
    BY DEF CancelTarget
  <2>4. \A k \in Jobs : cancelling'[k] => cancelling[k] \/ k = j
    BY <2>1, <2>2, <2>3 DEF CancelledBy
  <2>5. \A k \in Jobs : cancelling[k] => cancelling'[k]
    BY <2>1, StillCancelled
  <2>6. QED
    BY <1>1, <2>4, <2>5
<1>4. QED
  BY <1>2, <1>3

LEMMA BlockShape ==
    ASSUME BookInvariant, OrderInvariant, NEW j \in Jobs, NEW n,
           Receive(j, n) \/ LoseWrite(j, n)
    PROVE  TaskFrame(j) /\ GoesOn(j)
<1>1. pc[j] = "streaming" /\ Count(j, n) /\ Live(j) /\ job[j].kind = "download"
  BY PlaceKinds DEF Receive, LoseWrite, Live
<1>2. /\ status' = status /\ pc'[j] \in {"streaming", "flushing"}
      /\ \A k \in Jobs \ {j} : pc'[k] = pc[k] /\ exc'[k] = exc[k]
      /\ UNCHANGED <<job, bookVars, clientVars>>
  BY BookTypes DEF Receive, LoseWrite
<1>3. TaskFrame(j)
  BY <1>1, <1>2, CountFrame DEF TaskFrame, bookVars, clientVars
<1>4. QED
  BY <1>1, <1>2, <1>3 DEF GoesOn

LEMMA WorkerShape ==
    ASSUME BookInvariant, OrderInvariant, NEW j \in Jobs, WorkerStep(j)
    PROVE  Shape(j)
<1>1. CASE StartDownload(j)
  <2>1. pc[j] = "created" /\ Live(j) /\ ~cancelling[j] /\ cancelling' = cancelling
    BY <1>1 DEF StartDownload, FirstToRun, Live
  <2>2. TaskFrame(j) /\ pc'[j] = "opening"
    BY <1>1, <2>1, AdvanceFrame DEF StartDownload
  <2>3. QED
    BY <1>1, <2>1, <2>2 DEF StartDownload, Begins, Shape
<1>2. CASE Open(j)
  <2>1. Live(j) /\ pc[j] = "opening" /\ status' = status
    BY <1>2 DEF Open, Live, statVars
  <2>2. TaskFrame(j) /\ pc'[j] = "streaming"
    BY <1>2, <2>1, AdvanceFrame DEF Open, statVars
  <2>3. QED
    BY <2>1, <2>2 DEF GoesOn, Shape
<1>3. CASE EndStream(j, "none") \/ EndStream(j, "error") \/ InterruptStreaming(j)
  <2>1. Live(j) /\ pc[j] = "streaming" /\ status' = status
    BY <1>3 DEF EndStream, InterruptStreaming, Live, statVars
  <2>2. TaskFrame(j) /\ pc'[j] = "flushing"
    BY <1>3, <2>1, AdvanceFrame DEF EndStream, InterruptStreaming, statVars
  <2>3. QED
    BY <2>1, <2>2 DEF GoesOn, Shape
<1>4. CASE OpenFails(j) \/ InterruptOpening(j) \/ InterruptFlushing(j) \/ Flush(j) \/ FlushFails(j)
  <2>1. /\ Live(j) /\ pc[j] \in {"opening", "flushing"}
        /\ observer' = observer /\ UNCHANGED <<job, bytes, bookVars, clientVars>>
    BY <1>4 DEF OpenFails, InterruptOpening, InterruptFlushing, Flush, FlushFails, Live
  <2>2. StatusWhenCancelled(j) \in Ended \ {"ERROR"}
    BY DEF StatusWhenCancelled, Ended
  <2>3. PICK s \in Ended, outcome \in {"none", "refused", "error", "cancelled"} :
            Finish(j, s, outcome) /\ (s = "ERROR" => outcome \in {"refused", "error"})
    BY <1>4, <2>2 DEF OpenFails, InterruptOpening, InterruptFlushing, Flush, FlushFails, Ended
  <2>4. /\ TaskFrame(j) /\ pc'[j] = "done" /\ exc'[j] = outcome
        /\ status' = [status EXCEPT ![j] = s]
    BY <2>1, <2>3, FinishFrame
  <2>5. Ends(j)
    BY <2>1, <2>3, <2>4 DEF Ends
  <2>6. QED
    BY <2>4, <2>5 DEF Shape
<1>5. CASE \E n \in 1..SourceSize : Receive(j, n) \/ LoseWrite(j, n)
  BY <1>5, BlockShape DEF Shape
<1>6. QED
  BY <1>1, <1>2, <1>3, <1>4, <1>5 DEF WorkerStep

LEMMA DropShape ==
    ASSUME BookInvariant, NEW j \in Jobs, Drop(j)
    PROVE  Shape(j)
<1>1. /\ pc[j] = "created" /\ FirstToRun(j) /\ cancelling[j] /\ Live(j)
      /\ observer' = observer /\ bytes' = bytes /\ status' = status
  BY DEF Drop, FirstToRun, Live, statVars
<1>2. TaskFrame(j) /\ pc'[j] = "dropped"
  BY <1>1, AdvanceFrame DEF Drop, statVars
<1>3. exc'[j] = "cancelled"
  BY BookTypes DEF Drop
<1>4. QED
  BY <1>1, <1>2, <1>3 DEF Drops, Shape

\* A succession that ends with an error, uncancelled.
LEMMA FailShape ==
    ASSUME BookInvariant, NEW j \in Jobs, Live(j), pc[j] # "created" \/ FirstToRun(j),
           job[j].kind = "succession", pc[j] # "stopping", ~cancelling[j],
           NEW outcome \in {"refused", "error"}, Finish(j, "ERROR", outcome),
           UNCHANGED <<job, bytes, observer, bookVars, clientVars>>
    PROVE  Shape(j)
<1>1. "ERROR" \in Ended
  BY DEF Ended
<1>2. /\ TaskFrame(j) /\ pc'[j] = "done" /\ exc'[j] = outcome
      /\ status' = [status EXCEPT ![j] = "ERROR"]
  BY <1>1, FinishFrame
<1>3. QED
  BY <1>1, <1>2 DEF Ends, Shape

\* A succession that was cancelled and gives up.
LEMMA GiveUpShape ==
    ASSUME BookInvariant, NEW j \in Jobs, Live(j), pc[j] # "created",
           pc[j] = "stopping" \/ cancelling[j],
           NEW outcome, Finish(j, "CANCELLED", outcome),
           observer' = observer \/ \E p : observer' = [observer EXCEPT ![p] = NoJob],
           UNCHANGED <<job, bytes, bookVars, clientVars>>
    PROVE  Shape(j)
<1>1. "CANCELLED" \in Ended
  BY DEF Ended
<1>2. TaskFrame(j) /\ pc'[j] = "done" /\ status' = [status EXCEPT ![j] = "CANCELLED"]
  BY <1>1, FinishFrame
<1>3. QED
  BY <1>1, <1>2 DEF Ends, Shape

\* A decision about the predecessor, from the place of the succession.
LEMMA DecideShape ==
    ASSUME BookInvariant, NEW j \in Jobs, Live(j), job[j].kind = "succession", ~cancelling[j],
           Decide(j), UNCHANGED <<job, bytes, limit, observer, disk, bookVars, clientVars>>,
           \/ pc[j] = "awaiting" /\ Done(job[j].awaits)
           \/ /\ pc[j] = "created" /\ FirstToRun(j) /\ job[j].awaits = NoJob
              /\ status[j] = "AWAITING_SUCCESSION"
    PROVE  Shape(j)
<1>1. CASE Finish(j, "ERROR", "refused")
  BY <1>1, FailShape
<1>2. CASE /\ ~Refused(j) /\ pc' = [pc EXCEPT ![j] = "cropping"]
           /\ UNCHANGED <<cancelling, exc, path, status>>
  <2>1. TaskFrame(j) /\ pc'[j] = "cropping"
    BY <1>2, AdvanceFrame
  <2>2. Begins(j) \/ GoesOn(j)
    BY <1>2, <2>1 DEF Begins, GoesOn
  <2>3. QED
    BY <2>1, <2>2 DEF Shape
<1>3. QED
  BY <1>1, <1>2 DEF Decide

LEMMA SuccessionShape ==
    ASSUME BookInvariant, OrderInvariant, NEW j \in Jobs, SuccessionStep(j)
    PROVE  Shape(j)
<1>1. CASE StartSuccession(j)
  <2>1. /\ Live(j) /\ pc[j] = "created" /\ FirstToRun(j) /\ ~cancelling[j]
        /\ job[j].kind = "succession"
        /\ UNCHANGED <<job, bytes, limit, observer, disk, bookVars, clientVars>>
    BY <1>1 DEF StartSuccession, FirstToRun, Live
  <2>2. CASE status[j] # "AWAITING_SUCCESSION"
    BY <1>1, <2>1, <2>2, FailShape DEF StartSuccession
  <2>3. CASE status[j] = "AWAITING_SUCCESSION" /\ job[j].awaits # NoJob
    <3>1. pc' = [pc EXCEPT ![j] = "awaiting"] /\ UNCHANGED <<cancelling, exc, path, status>>
      BY <1>1, <2>3 DEF StartSuccession
    <3>2. TaskFrame(j) /\ pc'[j] = "awaiting"
      BY <2>1, <3>1, AdvanceFrame
    <3>3. QED
      BY <2>1, <2>3, <3>1, <3>2 DEF Begins, Shape
  <2>4. CASE status[j] = "AWAITING_SUCCESSION" /\ job[j].awaits = NoJob
    BY <1>1, <2>1, <2>4, DecideShape DEF StartSuccession
  <2>5. QED
    BY <2>2, <2>3, <2>4
<1>2. CASE Resume(j)
  BY <1>2, PlaceKinds, DecideShape DEF Resume, Live
<1>3. CASE CheckCrop(j)
  <2>1. /\ Live(j) /\ pc[j] = "cropping" /\ ~cancelling[j] /\ job[j].kind = "succession"
        /\ UNCHANGED <<job, bytes, limit, observer, disk, bookVars, clientVars>>
    BY <1>3, PlaceKinds DEF CheckCrop, Live
  <2>2. CASE Finish(j, "ERROR", "refused")
    BY <2>1, <2>2, FailShape
  <2>3. CASE pc' = [pc EXCEPT ![j] = "shifting"] /\ UNCHANGED <<cancelling, exc, path, status>>
    <3>1. TaskFrame(j) /\ pc'[j] = "shifting"
      BY <2>1, <2>3, AdvanceFrame
    <3>2. QED
      BY <2>1, <2>3, <3>1 DEF GoesOn, Shape
  <2>4. QED
    BY <1>3, <2>2, <2>3 DEF CheckCrop
<1>4. CASE Crop(j)
  <2>1. /\ Live(j) /\ pc[j] = "shifting" /\ ~cancelling[j] /\ status' = status
        /\ cancelling' = cancelling
    BY <1>4 DEF Crop, Live, statVars
  <2>2. TaskFrame(j) /\ pc'[j] = "moving"
    BY <1>4, <2>1, AdvanceFrame DEF Crop, statVars
  <2>3. QED
    BY <2>1, <2>2 DEF GoesOn, Shape
<1>5. CASE CropFails(j) \/ MoveFails(j)
  BY <1>5, PlaceKinds, FailShape DEF CropFails, MoveFails, Live
<1>6. CASE Move(j)
  <2>1. /\ Live(j) /\ pc[j] = "moving" /\ ~cancelling[j]
    BY <1>6 DEF Move, Live
  <2>2. /\ pc'[j] = "done"
        /\ \A k \in Jobs \ {j} : pc'[k] = pc[k] /\ exc'[k] = exc[k] /\ bytes'[k] = bytes[k]
    BY <1>6, BookTypes DEF Move
  <2>3. TaskFrame(j)
    BY <1>6, <2>1, <2>2 DEF TaskFrame, Move, bookVars, clientVars
  <2>4. HandsOver(j)
    BY <1>6, <2>1, <2>2 DEF HandsOver, Move
  <2>5. QED
    BY <2>3, <2>4 DEF Shape
<1>7. CASE InterruptAwaiting(j)
  <2> DEFINE p == job[j].awaits
  <2>1. /\ Live(j) /\ pc[j] = "awaiting" /\ cancelling[j]
        /\ UNCHANGED <<job, bytes, disk, bookVars, clientVars>>
    BY <1>7 DEF InterruptAwaiting, Live
  <2>2. CASE Done(p)
    BY <1>7, <2>1, <2>2, GiveUpShape DEF InterruptAwaiting, GiveUp
  <2>3. CASE ~Done(p)
    <3>1. /\ pc' = [pc EXCEPT ![j] = "stopping"]
          /\ status' = [status EXCEPT ![j] = "CANCELLED"]
          /\ cancelling' = [CancelledBy({p}) EXCEPT ![j] = FALSE]
          /\ UNCHANGED <<exc, path, limit, observer>>
      BY <1>7, <2>3 DEF InterruptAwaiting
    <3>2. p \in Jobs /\ p = job[j].pred /\ p < j /\ p # j /\ job[p].kind = "download"
      BY <2>1, <2>3, PlaceKinds, SuccessionFacts, JobNumbers
    <3>3. pc[p] # "created"
      BY <2>1, <3>2 DEF OrderInvariant, InOrder
    <3>4. CancelTarget(p) = p
      BY <3>2, PlaceKinds DEF CancelTarget
    <3>5. /\ \A k \in Jobs \ {j} : cancelling[k] => cancelling'[k]
          /\ \A k \in Jobs : cancelling'[k] => cancelling[k] \/ (Live(k) /\ k = p)
          /\ ~cancelling'[j]
      BY <3>1, <3>4, StillCancelled DEF CancelledBy
    <3>6. /\ pc'[j] = "stopping"
          /\ \A k \in Jobs \ {j} : pc'[k] = pc[k] /\ exc'[k] = exc[k] /\ bytes'[k] = bytes[k]
      BY <2>1, <3>1, BookTypes
    <3>7. TaskFrame(j)
      BY <2>1, <3>1, <3>2, <3>3, <3>5, <3>6 DEF TaskFrame, bookVars, clientVars
    <3>8. QED
      BY <2>1, <2>3, <3>1, <3>5, <3>6, <3>7 DEF Stops, Shape
  <2>4. QED
    BY <2>2, <2>3
<1>8. CASE InterruptCropping(j)
  BY <1>8, GiveUpShape DEF InterruptCropping, GiveUp, Live
<1>9. CASE InterruptMoving(j)
  <2>1. /\ Live(j) /\ pc[j] = "moving" /\ cancelling[j] /\ "CANCELLED" \in Ended
        /\ status' = [status EXCEPT ![j] = "CANCELLED"]
    BY <1>9 DEF InterruptMoving, Live, Ended
  <2>2. /\ pc'[j] = "done" /\ ~cancelling'[j]
        /\ \A k \in Jobs \ {j} : /\ pc'[k] = pc[k] /\ exc'[k] = exc[k] /\ bytes'[k] = bytes[k]
                                 /\ cancelling'[k] = cancelling[k]
        /\ \A k \in Jobs : observer'[k] \in {observer[k], NoJob}
    BY <1>9, BookTypes DEF InterruptMoving
  <2>3. TaskFrame(j)
    BY <1>9, <2>1, <2>2 DEF TaskFrame, InterruptMoving, bookVars, clientVars
  <2>4. Ends(j)
    BY <2>1, <2>2 DEF Ends
  <2>5. QED
    BY <2>3, <2>4 DEF Shape
<1>10. CASE Stopped(j)
  <2>1. /\ Live(j) /\ pc[j] = "stopping" /\ UNCHANGED <<job, bytes, disk, bookVars, clientVars>>
    BY <1>10 DEF Stopped, Live
  <2>2. CASE GiveUp(j)
    BY <2>1, <2>2, GiveUpShape DEF GiveUp
  <2>3. CASE Finish(j, "CANCELLED", "error") /\ UNCHANGED <<limit, observer>>
    BY <2>1, <2>3, GiveUpShape
  <2>4. QED
    BY <1>10, <2>2, <2>3 DEF Stopped
<1>11. QED
  BY <1>1, <1>2, <1>3, <1>4, <1>5, <1>6, <1>7, <1>8, <1>9, <1>10 DEF SuccessionStep

\* Every step of a task has this shape.
LEMMA JobStepShape ==
    ASSUME BookInvariant, OrderInvariant, NEW j \in Jobs, JobStep(j)
    PROVE  Shape(j)
BY DropShape, WorkerShape, SuccessionShape DEF JobStep

(***************************************************************************)
(* The order of jobs                                                       *)
(***************************************************************************)

\* What a step of a task may do to statuses.
LEMMA ShapeStatus ==
    ASSUME BookInvariant, NEW j \in Jobs, Shape(j)
    PROVE  /\ \A k \in Jobs \ {j} : status'[k] \in {status[k], "DEPRECATED"}
           /\ pc'[j] \notin {"free", "created"}
           /\ pc'[j] = "opening" => pc[j] = "created"
           /\ pc'[j] = "done" => status'[j] \in Ended
           /\ pc'[j] = "dropped" => status'[j] = status[j] /\ pc[j] = "created" /\ cancelling[j]
<1>1. "DEPRECATED" \in Ended /\ "COMPLETED" \in Ended
  BY DEF Ended
<1>2. status \in [Jobs -> Status] /\ Live(j)
  BY BookTypes DEF Shape, TaskFrame
<1>3. CASE Drops(j)
  BY <1>2, <1>3 DEF Drops
<1>4. CASE Begins(j)
  BY <1>2, <1>4 DEF Begins
<1>5. CASE GoesOn(j)
  BY <1>2, <1>5 DEF GoesOn
<1>6. CASE Stops(j)
  BY <1>2, <1>6 DEF Stops
<1>7. CASE Ends(j)
  BY <1>2, <1>7 DEF Ends
<1>8. CASE HandsOver(j)
  BY <1>1, <1>2, <1>8 DEF HandsOver
<1>9. QED
  BY <1>3, <1>4, <1>5, <1>6, <1>7, <1>8 DEF Shape

\* A chunk that is called off stays so.
LEMMA StillCalledOff ==
    ASSUME NEW k, CalledOff(k), status'[k] = status[k] \/ status'[k] \in Ended,
           k \in StatsJobs' => k \in StatsJobs
    PROVE  CalledOff(k)'
BY DEF CalledOff

LEMMA TaskKeepsOrder ==
    ASSUME BookInvariant, OrderInvariant, NEW j \in Jobs, Shape(j)
    PROVE  OrderInvariant'
<1>1. /\ job' = job /\ StatsJobs' = StatsJobs
      /\ \A k \in Jobs \ {j} : pc'[k] = pc[k] /\ bytes'[k] = bytes[k]
      /\ Live(j) /\ pc[j] # "free" /\ pc'[j] \notin {"free", "created"}
  BY ShapeStatus DEF Shape, TaskFrame, StatsJobs, Live
<1>2. InOrder'
  <2> SUFFICES ASSUME NEW i \in Jobs, NEW k \in Jobs, k < i
               PROVE  /\ pc'[i] # "free" => pc'[k] # "free"
                      /\ pc'[i] \notin {"free", "created"} => pc'[k] # "created"
    BY DEF InOrder
  <2>1. /\ pc[i] # "free" => pc[k] # "free"
        /\ pc[i] \notin {"free", "created"} => pc[k] # "created"
    BY DEF OrderInvariant, InOrder
  <2>2. CASE i = j
    <3>1. pc[j] = "created" => pc[k] # "created"
      <4>1. pc[j] = "created" => FirstToRun(j)
        BY DEF Shape, TaskFrame
      <4>2. i \in Nat /\ k \in Nat
        BY JobNumbers
      <4>3. QED
        BY <2>2, <4>1, <4>2 DEF FirstToRun
    <3>2. k # j
      BY <2>2, JobNumbers
    <3>3. QED
      BY <1>1, <2>1, <2>2, <3>1, <3>2
  <2>3. CASE i # j
    BY <1>1, <2>1, <2>3
  <2>4. QED
    BY <2>2, <2>3
<1>3. Lineage'
  BY <1>1 DEF OrderInvariant, Lineage, Shape, TaskFrame
<1>4. Beginnings'
  <2> SUFFICES ASSUME NEW k \in Jobs
               PROVE  /\ pc'[k] \in {"free", "created", "opening"} => bytes'[k] = 0
                      /\ pc'[k] = "free" => ~cancelling'[k]
                      /\ pc'[k] = "created" => status'[k] # "DOWNLOADING"
                      /\ pc'[k] = "created" /\ cancelling'[k] => CalledOff(k)'
                      /\ pc'[k] = "dropped" => CalledOff(k)'
                      /\ pc'[k] = "done" => status'[k] \in Ended
    BY DEF Beginnings
  <2>1. /\ pc[k] \in {"free", "created", "opening"} => bytes[k] = 0
        /\ pc[k] = "free" => ~cancelling[k]
        /\ pc[k] = "created" => status[k] # "DOWNLOADING"
        /\ pc[k] = "created" /\ cancelling[k] => CalledOff(k)
        /\ pc[k] = "dropped" => CalledOff(k)
        /\ pc[k] = "done" => status[k] \in Ended
    BY DEF OrderInvariant, Beginnings
  <2>2. CASE k = j
    <3>1. pc'[k] = "opening" => bytes'[k] = bytes[k] /\ pc[k] = "created"
      BY <2>2, ShapeStatus DEF Shape, TaskFrame
    <3>2. pc'[k] = "dropped" => CalledOff(k)'
      BY <1>1, <2>1, <2>2, ShapeStatus, StillCalledOff
    <3>3. QED
      BY <1>1, <2>1, <2>2, <3>1, <3>2, ShapeStatus
  <2>3. CASE k # j
    <3>1. pc'[k] = pc[k] /\ bytes'[k] = bytes[k] /\ status'[k] \in {status[k], "DEPRECATED"}
      BY <1>1, <2>3, ShapeStatus
    <3>2. cancelling'[k] => cancelling[k] \/ (pc[k] # "free" /\ pc[k] # "created")
      BY DEF Shape, TaskFrame, Live
    <3>3. "DEPRECATED" \in Ended
      BY DEF Ended
    <3>4. CalledOff(k) => CalledOff(k)'
      BY <1>1, <3>1, <3>3, StillCalledOff
    <3>5. QED
      BY <2>1, <3>1, <3>2, <3>3, <3>4
  <2>4. QED
    BY <2>2, <2>3
<1>5. QED
  BY <1>2, <1>3, <1>4 DEF OrderInvariant

\* A step of a caller or of the monitor that creates no job.
LEMMA ClientKeepsOrder ==
    ASSUME BookInvariant, OrderInvariant, UNCHANGED <<job, pc, bytes, observer>>,
           \A r \in Ranges : stats'[r] \in {stats[r], NoJob},
           \A k \in Jobs : status'[k] \in {status[k], "CANCELLED"},
           \A k \in Jobs : cancelling'[k] =>
              cancelling[k] \/ (Live(k) /\ (pc[k] # "created" \/ CalledOff(k)'))
    PROVE  OrderInvariant'
<1>1. InOrder' /\ Lineage'
  BY DEF OrderInvariant, InOrder, Lineage
<1>2. \A k \in Jobs : k \in StatsJobs' => k \in StatsJobs
  BY DEF StatsJobs
<1>3. "CANCELLED" \in Ended
  BY DEF Ended
<1>4. Beginnings'
  <2> SUFFICES ASSUME NEW k \in Jobs
               PROVE  /\ pc'[k] \in {"free", "created", "opening"} => bytes'[k] = 0
                      /\ pc'[k] = "free" => ~cancelling'[k]
                      /\ pc'[k] = "created" => status'[k] # "DOWNLOADING"
                      /\ pc'[k] = "created" /\ cancelling'[k] => CalledOff(k)'
                      /\ pc'[k] = "dropped" => CalledOff(k)'
                      /\ pc'[k] = "done" => status'[k] \in Ended
    BY DEF Beginnings
  <2>1. /\ pc[k] \in {"free", "created", "opening"} => bytes[k] = 0
        /\ pc[k] = "free" => ~cancelling[k]
        /\ pc[k] = "created" => status[k] # "DOWNLOADING"
        /\ pc[k] = "created" /\ cancelling[k] => CalledOff(k)
        /\ pc[k] = "dropped" => CalledOff(k)
        /\ pc[k] = "done" => status[k] \in Ended
    BY DEF OrderInvariant, Beginnings
  <2>2. CalledOff(k) => CalledOff(k)'
    BY <1>2, <1>3, StillCalledOff
  <2>3. cancelling'[k] => cancelling[k] \/ (pc[k] # "free" /\ (pc[k] # "created" \/ CalledOff(k)'))
    BY DEF Live
  <2>4. status'[k] \in {status[k], "CANCELLED"} /\ pc'[k] = pc[k] /\ bytes'[k] = bytes[k]
    OBVIOUS
  <2>5. QED
    BY <1>3, <2>1, <2>2, <2>3, <2>4
<1>5. QED
  BY <1>1, <1>4 DEF OrderInvariant

\* The steps of callers that cancel nobody.
LEMMA PatientKeepsOrder ==
    ASSUME BookInvariant, OrderInvariant, NEW c \in Callers,
           \/ CancelJoined(c) \/ Unlink(c) \/ WakeUp(c) \/ WaitEnd(c) \/ GatherEnd(c) \/ Purge(c)
           \/ \E op \in Operations : WaitBegin(c, op)
           \/ MonitorEnds
    PROVE  OrderInvariant'
<1>1. UNCHANGED <<job, pc, bytes, observer, status, cancelling>>
  BY DEF CancelJoined, Unlink, WakeUp, WaitEnd, GatherEnd, Purge, WaitBegin, MonitorEnds,
         taskVars, statVars
<1>2. \A r \in Ranges : stats'[r] \in {stats[r], NoJob}
  BY BookTypes DEF CancelJoined, Unlink, WakeUp, WaitEnd, GatherEnd, Purge, WaitBegin, MonitorEnds,
         bookVars, PopStats, ForgetAll, NoTasks
<1>3. QED
  BY <1>1, <1>2, ClientKeepsOrder

\* cancel_chunk cancels a task that has begun.
LEMMA CancelKeepsOrder ==
    ASSUME BookInvariant, OrderInvariant, NEW c \in Callers,
           CancelInitiated(c) \/ \E op \in Operations, r \in Ranges : CancelOrDelete(c, op, r)
    PROVE  OrderInvariant'
<1>1. UNCHANGED <<job, pc, bytes, observer, status>>
  BY DEF CancelInitiated, CancelOrDelete, statVars
<1>2. \A r \in Ranges : stats'[r] \in {stats[r], NoJob}
  BY BookTypes DEF CancelInitiated, CancelOrDelete, bookVars, PopStats
<1>3. \/ cancelling' = cancelling
      \/ \E S \in SUBSET Jobs : cancelling' = CancelledBy(S) /\ \A k \in S : Initiated(k)
  <2>1. CASE CancelInitiated(c)
    <3>1. call[c].jobs \in SUBSET Jobs
      BY BookTypes DEF CallRecord
    <3>2. QED
      BY <2>1, <3>1 DEF CancelInitiated
  <2>2. ASSUME NEW op \in Operations, NEW r \in Ranges, CancelOrDelete(c, op, r)
        PROVE  \/ cancelling' = cancelling
               \/ \E S \in SUBSET Jobs : cancelling' = CancelledBy(S) /\ \A k \in S : Initiated(k)
    <3>1. CASE cancelling' = cancelling
      BY <3>1
    <3>2. CASE tasks[r] # NoJob /\ Initiated(tasks[r]) /\ cancelling' = CancelledBy({tasks[r]})
      <4>1. {tasks[r]} \in SUBSET Jobs
        BY <3>2, BookTypes
      <4>2. QED
        BY <3>2, <4>1
    <3>3. QED
      BY <2>2, <3>1, <3>2 DEF CancelOrDelete
  <2>3. QED
    BY <2>1, <2>2
<1>4. \A k \in Jobs : cancelling'[k] =>
          cancelling[k] \/ (Live(k) /\ (pc[k] # "created" \/ CalledOff(k)'))
  BY <1>3, NewlyCancelled DEF Initiated
<1>5. QED
  BY <1>1, <1>2, <1>4, ClientKeepsOrder

\* cancel_all_chunks may cancel a task before its first step, but then it calls
\* its chunk off in the same step.
LEMMA CancelAllKeepsOrder ==
    ASSUME BookInvariant, OrderInvariant, NEW c \in Callers, NEW op, CancelAll(c, op)
    PROVE  OrderInvariant'
<1>1. /\ UNCHANGED <<job, pc, bytes, observer>>
      /\ cancelling' = CancelledBy(Tracked)
      /\ status' = [j \in Jobs |-> IF MarkedCancelled(j) THEN "CANCELLED" ELSE status[j]]
  BY DEF CancelAll
<1>2. \A r \in Ranges : stats'[r] \in {stats[r], NoJob}
  BY BookTypes DEF CancelAll, ForgetAll, bookVars, NoTasks
<1>3. \A k \in Jobs : k \in StatsJobs' => k \in StatsJobs
  BY <1>2 DEF StatsJobs
<1>4. Tracked \in SUBSET Jobs
  BY BookTypes DEF Tracked
<1>5. ASSUME NEW k \in Jobs, cancelling'[k], ~cancelling[k], pc[k] = "created"
      PROVE  CalledOff(k)'
  <2>1. k \in Tracked
    BY <1>1, <1>4, <1>5, NewlyCancelled
  <2>2. CASE k \in StatsJobs
    <3>1. PICK q \in Ranges : stats[q] = k
      BY <2>2 DEF StatsJobs
    <3>2. PICK r \in Ranges : tasks[r] = k
      BY <2>1 DEF Tracked
    <3>3. q = r
      BY <3>1, <3>2, JobNumbers DEF BookInvariant, BooksAgree
    <3>4. \/ status[k] \in {"PENDING", "AWAITING_SUCCESSION"} \/ status[k] \in Ended
      <4>1. status[k] # "DOWNLOADING" /\ status[k] \in Status
        BY <1>5, BookTypes DEF OrderInvariant, Beginnings
      <4>2. QED
        BY <4>1 DEF Status, Ended
    <3>5. status[k] \in {"PENDING", "AWAITING_SUCCESSION"} => MarkedCancelled(k)
      BY <3>1, <3>2, <3>3, JobNumbers DEF MarkedCancelled
    <3>6. status'[k] \in Ended
      BY <1>1, <3>4, <3>5 DEF Ended
    <3>7. QED
      BY <3>6 DEF CalledOff
  <2>3. CASE k \notin StatsJobs
    BY <1>3, <2>3 DEF CalledOff
  <2>4. QED
    BY <2>2, <2>3
<1>6. \A k \in Jobs : cancelling'[k] =>
          cancelling[k] \/ (Live(k) /\ (pc[k] # "created" \/ CalledOff(k)'))
  BY <1>1, <1>4, <1>5, NewlyCancelled
<1>7. QED
  BY <1>1, <1>2, <1>6, ClientKeepsOrder

\* A new job is the latest, and has not begun.
LEMMA RegisterKeepsOrder ==
    ASSUME BookInvariant, OrderInvariant, NEW j \in Jobs, NEW kind, NEW r \in Ranges,
           NEW pred, NEW awaits, NEW s \in {"PENDING", "AWAITING_SUCCESSION"},
           Register(j, kind, r, pred, awaits, s), bytes' = bytes,
           kind = "succession" =>
              pred \in Jobs /\ pc[pred] # "free" /\ awaits \in {NoJob, pred},
           observer' = observer \/ (kind = "succession" /\ observer' = [observer EXCEPT ![pred] = j]),
           \A k \in Jobs : cancelling'[k] => cancelling[k] \/ (Live(k) /\ pc[k] # "created")
    PROVE  OrderInvariant'
<1>1. /\ pc[j] = "free" /\ pc'[j] = "created" /\ status'[j] = s /\ job[j].kind = "none"
      /\ job'[j].kind = kind /\ job'[j].pred = pred /\ job'[j].awaits = awaits
      /\ \A k \in Jobs \ {j} : job'[k] = job[k] /\ pc'[k] = pc[k] /\ status'[k] = status[k]
      /\ \A k \in Jobs : k \in StatsJobs' => k \in StatsJobs \/ k = j
  <2> DEFINE new == [kind |-> kind, range |-> r, pred |-> pred, awaits |-> awaits]
  <2>1. /\ pc[j] = "free" /\ pc'[j] = "created" /\ job'[j] = new /\ status'[j] = s
        /\ \A k \in Jobs \ {j} : job'[k] = job[k] /\ pc'[k] = pc[k] /\ status'[k] = status[k]
        /\ \A k \in Jobs : k \in StatsJobs' => k \in StatsJobs \/ k = j
    BY BookTypes DEF Register, NextJob, StatsJobs
  <2>2. new.kind = kind /\ new.pred = pred /\ new.awaits = awaits
    OBVIOUS
  <2>3. job[j].kind = "none"
    BY <2>1, PlaceKinds
  <2> HIDE DEF new
  <2>4. QED
    BY <2>1, <2>2, <2>3
<1>2. \A k \in Jobs : pc[k] = "free" => j <= k
  BY DEF Register, NextJob
<1>3. \A k \in Jobs : k < j => pc[k] # "free"
  BY <1>2, JobNumbers
<1>4. \A k \in Jobs : j < k => pc[k] = "free"
  BY <1>1 DEF OrderInvariant, InOrder
<1>5. InOrder'
  <2> SUFFICES ASSUME NEW i \in Jobs, NEW k \in Jobs, k < i
               PROVE  /\ pc'[i] # "free" => pc'[k] # "free"
                      /\ pc'[i] \notin {"free", "created"} => pc'[k] # "created"
    BY DEF InOrder
  <2>1. /\ pc[i] # "free" => pc[k] # "free"
        /\ pc[i] \notin {"free", "created"} => pc[k] # "created"
    BY DEF OrderInvariant, InOrder
  <2>2. CASE i = j
    BY <1>1, <1>3, <2>2
  <2>3. CASE k = j
    BY <1>1, <1>4, <2>3
  <2>4. CASE i # j /\ k # j
    BY <1>1, <2>1, <2>4
  <2>5. QED
    BY <2>2, <2>3, <2>4
<1>6. Lineage'
  <2> SUFFICES ASSUME NEW k \in Jobs
               PROVE  /\ job'[k].kind = "succession" =>
                            job'[k].pred < k /\ job'[k].awaits \in {NoJob, job'[k].pred}
                      /\ observer'[k] # NoJob =>
                            /\ job'[observer'[k]].kind = "succession"
                            /\ job'[observer'[k]].pred = k
    BY DEF Lineage
  <2>1. /\ job[k].kind = "succession" => job[k].pred < k /\ job[k].awaits \in {NoJob, job[k].pred}
        /\ observer[k] # NoJob => job[observer[k]].kind = "succession" /\ job[observer[k]].pred = k
    BY DEF OrderInvariant, Lineage
  <2>2. job'[k].kind = "succession" =>
            job'[k].pred < k /\ job'[k].awaits \in {NoJob, job'[k].pred}
    <3>1. CASE k = j
      <4>1. kind = "succession" => pred < j
        BY <1>1, <1>4, JobNumbers
      <4>2. QED
        BY <1>1, <3>1, <4>1
    <3>2. CASE k # j
      BY <1>1, <2>1, <3>2
    <3>3. QED
      BY <3>1, <3>2
  <2>3. ASSUME observer'[k] # NoJob
        PROVE  job'[observer'[k]].kind = "succession" /\ job'[observer'[k]].pred = k
    <3>1. CASE observer'[k] = observer[k]
      <4>1. observer[k] \in Jobs /\ observer[k] # j
        BY <1>1, <2>1, <2>3, <3>1, BookTypes
      <4>2. QED
        BY <1>1, <2>1, <2>3, <3>1, <4>1
    <3>2. CASE observer'[k] # observer[k]
      <4>1. kind = "succession" /\ k = pred /\ observer'[k] = j
        BY <3>2, BookTypes
      <4>2. QED
        BY <1>1, <4>1
    <3>3. QED
      BY <3>1, <3>2
  <2>4. QED
    BY <2>2, <2>3
<1>7. Beginnings'
  <2> SUFFICES ASSUME NEW k \in Jobs
               PROVE  /\ pc'[k] \in {"free", "created", "opening"} => bytes'[k] = 0
                      /\ pc'[k] = "free" => ~cancelling'[k]
                      /\ pc'[k] = "created" => status'[k] # "DOWNLOADING"
                      /\ pc'[k] = "created" /\ cancelling'[k] => CalledOff(k)'
                      /\ pc'[k] = "dropped" => CalledOff(k)'
                      /\ pc'[k] = "done" => status'[k] \in Ended
    BY DEF Beginnings
  <2>1. /\ pc[k] \in {"free", "created", "opening"} => bytes[k] = 0
        /\ pc[k] = "free" => ~cancelling[k]
        /\ pc[k] = "created" => status[k] # "DOWNLOADING"
        /\ pc[k] = "created" /\ cancelling[k] => CalledOff(k)
        /\ pc[k] = "dropped" => CalledOff(k)
        /\ pc[k] = "done" => status[k] \in Ended
    BY DEF OrderInvariant, Beginnings
  <2>2. cancelling'[k] => cancelling[k] \/ (pc[k] # "free" /\ pc[k] # "created")
    BY DEF Live
  <2>3. CASE k = j
    BY <1>1, <2>1, <2>2, <2>3
  <2>4. CASE k # j
    <3>1. CalledOff(k) => CalledOff(k)'
      BY <1>1, <2>4, StillCalledOff
    <3>2. QED
      BY <1>1, <2>1, <2>2, <2>4, <3>1
  <2>5. QED
    BY <2>3, <2>4
<1>8. QED
  BY <1>5, <1>6, <1>7 DEF OrderInvariant

\* What resize_chunk relies on: the chunk is in the stats and has not ended
\* otherwise than complete, and a task that its range has is its own.
LEMMA ResizeFacts ==
    ASSUME BookInvariant, NEW current, NEW new, ResizeChunk(current, new)
    PROVE  /\ current \in Ranges /\ new \in Ranges /\ Contains(current, new) /\ new # current
           /\ stats[current] \in Jobs
           /\ job[stats[current]].range = current
           /\ pc[stats[current]] # "free"
           /\ tasks[current] \in {NoJob, stats[current]}
           /\ new.end # None => UsefulBytes(current, new) \in Nat \ {0}
<1>1. current \in Ranges /\ new \in Ranges /\ Contains(current, new) /\ new # current
  BY ClientAssumption DEF ResizeChunk
<1>2. stats[current] \in Jobs
  BY <1>1, BookTypes DEF ResizeChunk
<1>3. /\ job[stats[current]].range = current /\ pc[stats[current]] # "free"
      /\ tasks[current] \in {NoJob, stats[current]}
  BY <1>1, <1>2, JobNumbers DEF BookInvariant, BooksAgree
<1>4. new.end # None => UsefulBytes(current, new) \in Nat \ {0}
  BY <1>1, RangeFacts DEF UsefulBytes, Contains, None
<1>5. QED
  BY <1>1, <1>2, <1>3, <1>4

\* A limit that is reached already stops a task that has begun.
LEMMA ObserveCancels ==
    ASSUME BookInvariant, OrderInvariant, NEW current, NEW new, ResizeChunk(current, new)
    PROVE  \A k \in Jobs : cancelling'[k] =>
              cancelling[k] \/ (Live(k) /\ pc[k] # "created" /\ k = stats[current])
<1> DEFINE a == stats[current]
           useful == UsefulBytes(current, new)
<1>1. /\ a \in Jobs /\ tasks[current] \in {NoJob, a}
      /\ new.end # None => useful \in Nat \ {0}
  BY ResizeFacts
<1>2. PICK b \in Jobs : IF new.end # None /\ status[a] # "COMPLETED"
                        THEN Observe(a, tasks[current], b, useful)
                        ELSE UNCHANGED <<cancelling, limit, observer>>
  BY DEF ResizeChunk
<1>3. CASE cancelling' = cancelling
  BY <1>3
<1>4. CASE new.end # None /\ cancelling' # cancelling
  <2>1. /\ bytes[a] >= useful /\ tasks[current] # NoJob
        /\ cancelling' = CancelledBy({tasks[current]})
    BY <1>2, <1>4 DEF Observe
  <2>2. tasks[current] = a /\ bytes[a] # 0
    BY <1>1, <1>4, <2>1, BookTypes
  <2>3. pc[a] # "created"
    BY <1>1, <2>2 DEF OrderInvariant, Beginnings
  <2>4. a \in Jobs /\ job[a].kind = "succession" => pc[a] # "stopping"
    <3>1. status[a] \in {"PENDING", "DOWNLOADING", "COMPLETED"}
      BY DEF ResizeChunk
    <3>2. QED
      BY <1>1, <3>1 DEF BookInvariant, SuccessionsAgree, Live
  <2>5. CancelTarget(a) = a
    BY <1>1, <2>4, PlaceKinds DEF CancelTarget
  <2>6. QED
    BY <2>1, <2>2, <2>3, <2>5 DEF CancelledBy
<1>5. QED
  BY <1>2, <1>3, <1>4

LEMMA RequestKeepsOrder ==
    ASSUME BookInvariant, OrderInvariant, Request
    PROVE  OrderInvariant'
<1>1. ASSUME NEW r \in Starts, StartChunk(r) PROVE OrderInvariant'
  <2>1. r \in Ranges
    BY ClientAssumption
  <2>2. PICK j \in Jobs : Register(j, "download", r, NoJob, NoJob, "PENDING")
    BY <1>1 DEF StartChunk
  <2>3. UNCHANGED <<bytes, observer, cancelling>>
    BY <1>1 DEF StartChunk
  <2>4. QED
    BY <2>1, <2>2, <2>3, RegisterKeepsOrder
<1>2. ASSUME NEW p \in Resizes, ResizeChunk(p[1], p[2]) PROVE OrderInvariant'
  <2> DEFINE current == p[1]
             new == p[2]
             a == stats[current]
  <2>1. /\ new \in Ranges /\ a \in Jobs /\ pc[a] # "free" /\ tasks[current] \in {NoJob, a}
    BY <1>2, ResizeFacts
  <2>2. PICK b \in Jobs :
            /\ Register(b, "succession", new, a, tasks[current], "AWAITING_SUCCESSION")
            /\ IF new.end # None /\ status[a] # "COMPLETED"
               THEN Observe(a, tasks[current], b, UsefulBytes(current, new))
               ELSE UNCHANGED <<cancelling, limit, observer>>
    BY <1>2 DEF ResizeChunk
  <2>3. observer' = observer \/ observer' = [observer EXCEPT ![a] = b]
    BY <2>2 DEF Observe
  <2>4. \A k \in Jobs : cancelling'[k] => cancelling[k] \/ (Live(k) /\ pc[k] # "created")
    BY <1>2, ObserveCancels
  <2>5. bytes' = bytes
    BY <1>2 DEF ResizeChunk
  <2>6. QED
    BY <2>1, <2>2, <2>3, <2>4, <2>5, RegisterKeepsOrder
<1>3. ASSUME NEW c \in Callers, NEW op \in Operations,
             \/ \E r \in Ranges : CancelOrDelete(c, op, r)
             \/ WaitBegin(c, op)
             \/ CancelAll(c, op)
      PROVE  OrderInvariant'
  BY <1>3, CancelKeepsOrder, PatientKeepsOrder, CancelAllKeepsOrder
<1>4. QED
  BY <1>1, <1>2, <1>3 DEF Request
LEMMA InitOrder == Init => OrderInvariant
<1> SUFFICES ASSUME Init PROVE OrderInvariant
  OBVIOUS
<1>1. \A j \in Jobs : /\ pc[j] = IF InitialJob(j) THEN "done" ELSE "free"
                      /\ status[j] = IF InitialJob(j) THEN "COMPLETED" ELSE "PENDING"
                      /\ ~InitialJob(j) => bytes[j] = 0
                      /\ ~cancelling[j] /\ observer[j] = NoJob /\ job[j].kind # "succession"
  <2> SUFFICES ASSUME NEW j \in Jobs
               PROVE  /\ pc[j] = IF InitialJob(j) THEN "done" ELSE "free"
                      /\ status[j] = IF InitialJob(j) THEN "COMPLETED" ELSE "PENDING"
                      /\ ~InitialJob(j) => bytes[j] = 0
                      /\ ~cancelling[j] /\ observer[j] = NoJob /\ job[j].kind # "succession"
    OBVIOUS
  <2>1. job[j].kind # "succession"
    <3>1. job[j] = IF InitialJob(j) THEN [NoRecord EXCEPT !.kind = "recovered", !.range = Found(j)]
                   ELSE NoRecord
      BY DEF Init
    <3>2. [NoRecord EXCEPT !.kind = "recovered", !.range = Found(j)].kind = "recovered"
          /\ NoRecord.kind = "none"
      BY Zenon DEF NoRecord
    <3>3. QED
      BY <3>1, <3>2
  <2>2. /\ pc[j] = IF InitialJob(j) THEN "done" ELSE "free"
        /\ status[j] = IF InitialJob(j) THEN "COMPLETED" ELSE "PENDING"
        /\ ~InitialJob(j) => bytes[j] = 0
        /\ ~cancelling[j] /\ observer[j] = NoJob
    BY DEF Init
  <2>3. QED
    BY <2>1, <2>2
<1>2. InOrder
  <2>1. \A j, k \in Jobs : k < j /\ InitialJob(j) => InitialJob(k)
    BY JobNumbers, BoundAssumption DEF InitialJob
  <2>2. QED
    BY <1>1, <2>1 DEF InOrder
<1>3. Lineage
  BY <1>1 DEF Lineage
<1>4. Beginnings
  BY <1>1 DEF Beginnings, Ended
<1>5. QED
  BY <1>2, <1>3, <1>4 DEF OrderInvariant

LEMMA NextKeepsOrder ==
    ASSUME BookInvariant, OrderInvariant, [Next]_vars
    PROVE  OrderInvariant'
<1>1. CASE Request
  BY <1>1, RequestKeepsOrder
<1>2. ASSUME NEW c \in Callers, Continue(c) PROVE OrderInvariant'
  BY <1>2, PatientKeepsOrder, CancelKeepsOrder DEF Continue
<1>3. ASSUME NEW j \in Jobs, JobStep(j) PROVE OrderInvariant'
  BY <1>3, JobStepShape, TaskKeepsOrder
<1>4. CASE MonitorEnds
  <2>1. /\ UNCHANGED <<job, pc, bytes, observer, status, cancelling, stats>>
    BY <1>4 DEF MonitorEnds, taskVars, statVars
  <2>2. QED
    BY <2>1, ClientKeepsOrder
<1>5. CASE UNCHANGED vars
  <2>1. UNCHANGED <<job, pc, bytes, observer, status, cancelling, stats>>
    BY <1>5 DEF vars
  <2>2. QED
    BY <2>1, ClientKeepsOrder
<1>6. QED
  BY <1>1, <1>2, <1>3, <1>4, <1>5 DEF Next

\* Whatever its callers do, a manager keeps the order in which its tasks begin:
\* the event loop runs first steps in the order of create_task, a limit is
\* armed by a successor of that very chunk, and a task that never runs is one
\* of a chunk that is called off.
THEOREM TasksInOrder == Spec => [](BookInvariant /\ OrderInvariant)
<1>1. Init => BookInvariant /\ OrderInvariant
  BY InitBooks, InitOrder
<1>2. (BookInvariant /\ OrderInvariant) /\ [Next]_vars => (BookInvariant /\ OrderInvariant)'
  BY NextKeepsBooks, NextKeepsOrder
<1>3. QED
  BY <1>1, <1>2, PTL DEF Spec

\* Whatever its callers do, a chunk that the stats call PENDING, DOWNLOADING or
\* AWAITING_SUCCESSION has a task that runs and will change that.
THEOREM ActiveHasTask == Spec => []ActiveIsLive
<1>1. ASSUME BookInvariant, OrderInvariant PROVE ActiveIsLive
  <2> SUFFICES ASSUME NEW j \in StatsJobs,
                      status[j] \in {"PENDING", "DOWNLOADING", "AWAITING_SUCCESSION"}
               PROVE  Live(j)
    BY DEF ActiveIsLive
  <2>1. j \in Jobs /\ pc[j] # "free"
    BY <1>1, BookTypes DEF StatsJobs, BookInvariant, BooksAgree
  <2>2. status[j] \notin Ended /\ ~CalledOff(j)
    BY DEF Ended, CalledOff
  <2>3. pc[j] \notin {"done", "dropped"}
    BY <1>1, <2>1, <2>2 DEF OrderInvariant, Beginnings
  <2>4. QED
    BY <2>1, <2>3 DEF Live
<1>2. QED
  BY <1>1, TasksInOrder, PTL

(***************************************************************************)
(* Nobody is stuck                                                         *)
(***************************************************************************)

LEMMA LeastJob ==
    ASSUME NEW S \in SUBSET Jobs, S # {}
    PROVE  \E j \in S : \A k \in S : j <= k
<1> DEFINE R == {ss \in Nat \X Nat : ss[1] < ss[2]}
<1>1. S \subseteq Nat
  BY JobNumbers
<1>2. IsWellFoundedOn(R, Nat)
  BY NatLessThanWellFounded DEF OpToRel
<1>3. PICK j \in S : \A k \in S : <<k, j>> \notin R
  <2> HIDE DEF R
  <2>1. QED
    BY <1>1, <1>2, WFMin
<1>4. \A k \in S : k < j => <<k, j>> \in R
  BY <1>1
<1>5. \A k \in S : ~ (k < j)
  <2> HIDE DEF R
  <2>1. QED
    BY <1>3, <1>4, Zenon
<1>6. QED
  BY <1>1, <1>5

\* A task that has begun and waits for another one waits for a download that
\* has begun, and a download waits for nobody.
LEMMA BegunGoesOn ==
    ASSUME BookInvariant, OrderInvariant, NEW j \in Jobs, Live(j), pc[j] # "created"
    PROVE  \E k \in Jobs : CanStep(k)
<1>1. CASE CanStep(j)
  BY <1>1
<1>2. CASE ~CanStep(j)
  <2> DEFINE p == job[j].awaits
  <2>1. pc[j] \in {"awaiting", "stopping"} /\ ~Done(p)
    BY <1>2 DEF CanStep
  <2>2. p \in Jobs /\ p = job[j].pred /\ p < j /\ job[p].kind = "download" /\ pc[p] # "free"
    BY <2>1, PlaceKinds, SuccessionFacts, JobNumbers
  <2>3. pc[p] # "created"
    BY <2>1, <2>2 DEF OrderInvariant, InOrder
  <2>4. Live(p) /\ pc[p] \notin {"awaiting", "stopping"}
    BY <2>1, <2>2, PlaceKinds DEF Live, Done
  <2>5. QED
    BY <2>2, <2>3, <2>4 DEF CanStep
<1>3. QED
  BY <1>1, <1>2

\* Of tasks that have not begun the oldest is the next to run.
LEMMA SomeTaskGoesOn ==
    ASSUME BookInvariant, OrderInvariant
    PROVE  TasksGoOn
<1> SUFFICES ASSUME NEW i \in Jobs, Live(i) PROVE \E k \in Jobs : CanStep(k)
  BY DEF TasksGoOn
<1>1. CASE pc[i] # "created"
  BY <1>1, BegunGoesOn
<1>2. CASE pc[i] = "created"
  <2> DEFINE Fresh == {k \in Jobs : pc[k] = "created"}
  <2>1. PICK j \in Fresh : \A k \in Fresh : j <= k
    BY <1>2, LeastJob
  <2>2. FirstToRun(j) /\ Live(j)
    BY <2>1 DEF FirstToRun, Live
  <2>3. QED
    BY <2>1, <2>2 DEF CanStep
<1>3. QED
  BY <1>1, <1>2

\* What a caller waits for can come: its jobs exist, a wait has some, and the
\* task whose init signal is awaited is not one that never begins.
Hopeless(j) == pc[j] = "dropped" \/ (pc[j] = "created" /\ cancelling[j])
WaitAgrees(c) ==
    /\ \A j \in call[c].jobs : pc[j] # "free"
    /\ call[c].at = "wait" => call[c].jobs # {}
    /\ call[c].at = "init" => \A j \in call[c].jobs : ~Hopeless(j)
WaitsAgree == \A c \in Callers : WaitAgrees(c)

\* With it, when every task is done some caller can be resumed: one that joins
\* a task if there is any, and whoever is suspended otherwise.
LEMMA SomeCallerGoesOn ==
    ASSUME BookInvariant, OrderInvariant, WaitsAgree
    PROVE  NobodyStuck
<1>1. TasksGoOn
  BY SomeTaskGoesOn
<1>2. ASSUME NEW c \in Callers, ~Outside(c), \A j \in Jobs : ~CanStep(j)
      PROVE  \E d \in Callers : CanContinue(d)
  <2>1. \A j \in Jobs : pc[j] # "free" => Done(j)
    BY <1>1, <1>2 DEF TasksGoOn, Live, Done
  <2>2. \A d \in Callers : call[d].jobs \subseteq Jobs
    BY BookTypes DEF CallRecord
  <2>3. \A d \in Callers : \A j \in call[d].jobs : Done(j)
    BY <2>1, <2>2 DEF WaitsAgree, WaitAgrees
  <2>4. ASSUME NEW d \in Callers, call[d].at = "join" PROVE CanContinue(d)
    BY <2>3, <2>4 DEF CanContinue, Outside
  <2>5. CASE \A d \in Callers : call[d].at # "join"
    <3>1. AwaitersFirst(call[c].jobs)
      BY <2>5 DEF AwaitersFirst
    <3>2. call[c].at = "init" => \A j \in call[c].jobs : Initiated(j)
      BY <2>3 DEF WaitsAgree, WaitAgrees, Hopeless, Initiated, Done
    <3>3. call[c].at = "wait" => \E j \in call[c].jobs : Done(j)
      BY <2>3 DEF WaitsAgree, WaitAgrees
    <3>4. QED
      BY <1>2, <2>3, <3>1, <3>2, <3>3 DEF CanContinue
  <2>6. QED
    BY <2>4, <2>5
<1>3. QED
  BY <1>1, <1>2 DEF NobodyStuck

\* No step of a task makes a caller wait in vain: the one that is dropped was
\* hopeless before, and a task cancels only tasks that have begun.
LEMMA TaskKeepsWaits ==
    ASSUME BookInvariant, OrderInvariant, WaitsAgree, NEW j \in Jobs, Shape(j)
    PROVE  WaitsAgree'
<1> SUFFICES ASSUME NEW c \in Callers PROVE WaitAgrees(c)'
  BY DEF WaitsAgree
<1>1. call' = call /\ call[c].jobs \subseteq Jobs
  BY BookTypes DEF Shape, TaskFrame, CallRecord
<1>2. ASSUME NEW k \in Jobs
      PROVE  /\ pc[k] # "free" => pc'[k] # "free"
             /\ Hopeless(k)' => Hopeless(k)
  <2>1. /\ \A i \in Jobs \ {j} : pc'[i] = pc[i]
        /\ cancelling'[k] => cancelling[k] \/ pc[k] # "created"
    BY DEF Shape, TaskFrame
  <2>2. /\ pc'[j] \notin {"free", "created"}
        /\ pc'[j] = "dropped" => pc[j] = "created" /\ cancelling[j]
    BY ShapeStatus
  <2>3. QED
    BY <2>1, <2>2 DEF Hopeless
<1>3. WaitAgrees(c)
  BY DEF WaitsAgree
<1>4. QED
  BY <1>1, <1>2, <1>3 DEF WaitAgrees

\* Nor does a step of a caller, if it cancels no task that has not begun, or
\* does so when no other caller waits for an init signal.
LEMMA CallerKeepsWaits ==
    ASSUME BookInvariant, WaitsAgree, NEW c \in Callers, pc' = pc,
           \A d \in Callers \ {c} : call'[d] = call[d],
           \/ \A k \in Jobs : cancelling'[k] => cancelling[k] \/ pc[k] # "created"
           \/ \A d \in Callers \ {c} : call[d].at # "init",
           WaitAgrees(c)'
    PROVE  WaitsAgree'
<1> SUFFICES ASSUME NEW d \in Callers \ {c} PROVE WaitAgrees(d)'
  BY DEF WaitsAgree
<1>1. WaitAgrees(d) /\ call'[d] = call[d] /\ call[d].jobs \subseteq Jobs
  BY BookTypes DEF WaitsAgree, CallRecord
<1>2. QED
  BY <1>1 DEF WaitAgrees, Hopeless

\* A new job is nobody's yet.
LEMMA CreateKeepsWaits ==
    ASSUME BookInvariant, WaitsAgree, NEW j \in Jobs, pc[j] = "free",
           pc' = [pc EXCEPT ![j] = "created"], call' = call,
           \A k \in Jobs : cancelling'[k] => cancelling[k] \/ pc[k] # "created"
    PROVE  WaitsAgree'
<1> SUFFICES ASSUME NEW c \in Callers PROVE WaitAgrees(c)'
  BY DEF WaitsAgree
<1>1. WaitAgrees(c) /\ call[c].jobs \subseteq Jobs /\ j \notin call[c].jobs
  BY BookTypes DEF WaitsAgree, WaitAgrees, CallRecord
<1>2. \A k \in call[c].jobs : pc'[k] = pc[k]
  BY <1>1, BookTypes
<1>3. QED
  BY <1>1, <1>2 DEF WaitAgrees, Hopeless

LEMMA ReturnKeepsWaits ==
    ASSUME BookInvariant, OrderInvariant, WaitsAgree, NEW c \in Callers,
           Return(c) \/ Raise(c), pc' = pc,
           cancelling' = cancelling \/ \A d \in Callers \ {c} : call[d].at # "init"
    PROVE  WaitsAgree'
<1>1. /\ call'[c].jobs = {} /\ call'[c].at \in {"idle", "raised"}
      /\ \A d \in Callers \ {c} : call'[d] = call[d]
  BY BookTypes DEF Return, Raise, Idle, Raised
<1>2. WaitAgrees(c)'
  BY <1>1 DEF WaitAgrees
<1>3. QED
  BY <1>1, <1>2, CallerKeepsWaits

LEMMA SuspendKeepsWaits ==
    ASSUME BookInvariant, OrderInvariant, WaitsAgree, NEW c \in Callers,
           NEW op, NEW at, NEW range, NEW jobs, NEW files,
           Suspend(c, op, at, range, jobs, files), pc' = pc,
           \/ \A k \in Jobs : cancelling'[k] => cancelling[k] \/ pc[k] # "created"
           \/ \A d \in Callers \ {c} : call[d].at # "init",
           \A k \in jobs : pc[k] # "free",
           at = "wait" => jobs # {},
           at = "init" => \A k \in jobs : ~Hopeless(k)'
    PROVE  WaitsAgree'
<1>1. /\ call'[c].at = at /\ call'[c].jobs = jobs
      /\ \A d \in Callers \ {c} : call'[d] = call[d]
  BY BookTypes DEF Suspend
<1>2. WaitAgrees(c)'
  BY <1>1 DEF WaitAgrees
<1>3. QED
  BY <1>1, <1>2, CallerKeepsWaits

\* delete_chunk_data goes on to wait for the storage alone.
LEMMA PopKeepsWaits ==
    ASSUME BookInvariant, OrderInvariant, WaitsAgree, NEW c \in Callers, NEW r,
           PopStats(c, r), pc' = pc, cancelling' = cancelling
    PROVE  WaitsAgree'
<1>1. CASE Return(c)
  BY <1>1, ReturnKeepsWaits
<1>2. CASE Suspend(c, "delete", "unlink", r, {}, {})
  BY <1>2, SuspendKeepsWaits
<1>3. QED
  BY <1>1, <1>2 DEF PopStats

\* cancel_chunk waits for the init signal of a task whose chunk is active: that
\* chunk is not called off, so that the task will begin.
LEMMA CancelOneKeepsWaits ==
    ASSUME BookInvariant, OrderInvariant, WaitsAgree, NEW c \in Callers, NEW op, NEW r \in Ranges,
           CancelOrDelete(c, op, r)
    PROVE  WaitsAgree'
<1> DEFINE t == tasks[r]
<1>1. pc' = pc
  BY DEF CancelOrDelete
<1>2. CASE cancelling' = cancelling /\ (Raise(c) \/ PopStats(c, r))
  BY <1>1, <1>2, ReturnKeepsWaits, PopKeepsWaits
<1>3. CASE t # NoJob /\ stats[r] # NoJob /\ status[stats[r]] \in Cancellable
  <2>1. t \in Jobs /\ t = stats[r] /\ pc[t] # "free"
    BY <1>3, BookTypes DEF BookInvariant, BooksAgree
  <2>2. CASE /\ Initiated(t) /\ cancelling' = CancelledBy({t})
             /\ Suspend(c, op, "join", r, {t}, {})
    <3>1. \A k \in Jobs : cancelling'[k] => cancelling[k] \/ pc[k] # "created"
      BY <2>1, <2>2, NewlyCancelled DEF Initiated
    <3>2. QED
      BY <1>1, <2>1, <2>2, <3>1, SuspendKeepsWaits
  <2>3. CASE Suspend(c, op, "init", r, {t}, {}) /\ cancelling' = cancelling
    <3>1. status[t] \notin Ended /\ t \in StatsJobs
      BY <1>3, <2>1, JobNumbers DEF Cancellable, Ended, StatsJobs
    <3>2. ~Hopeless(t)
      BY <2>1, <3>1 DEF OrderInvariant, Beginnings, CalledOff, Hopeless
    <3>3. \A k \in {t} : ~Hopeless(k)'
      BY <1>1, <2>3, <3>2 DEF Hopeless
    <3>4. QED
      BY <1>1, <2>1, <2>3, <3>3, SuspendKeepsWaits
  <2>4. QED
    BY <1>2, <1>3, <2>2, <2>3 DEF CancelOrDelete
<1>4. QED
  BY <1>2, <1>3 DEF CancelOrDelete

\* cancel_all_chunks may cancel a task before its first step; that nobody waits
\* for its init signal then is a rule of the clients.
LEMMA CancelAllKeepsWaits ==
    ASSUME "shutdown" \in Manners, BookInvariant, OrderInvariant, WaitsAgree,
           NEW c \in Callers, NEW op, CancelAll(c, op)
    PROVE  WaitsAgree'
<1>1. pc' = pc /\ \A d \in Callers \ {c} : call[d].at # "init"
  BY DEF CancelAll, MayShutDown, Outside
<1>2. CASE Return(c)
  BY <1>1, <1>2, ReturnKeepsWaits
<1>3. CASE \E files : Suspend(c, op, "purge", NoRange, {}, files)
  BY <1>1, <1>3, SuspendKeepsWaits
<1>4. CASE Suspend(c, op, "gather", NoRange, Tracked, {})
  <2>1. \A k \in Tracked : pc[k] # "free"
    BY DEF Tracked, BookInvariant, BooksAgree
  <2>2. QED
    BY <1>1, <1>4, <2>1, SuspendKeepsWaits
<1>5. QED
  BY <1>2, <1>3, <1>4 DEF CancelAll, ForgetAll

LEMMA WaitKeepsWaits ==
    ASSUME BookInvariant, OrderInvariant, WaitsAgree, NEW c \in Callers, NEW op, WaitBegin(c, op)
    PROVE  WaitsAgree'
<1>1. /\ pc' = pc /\ cancelling' = cancelling /\ tasks # NoTasks
      /\ Suspend(c, op, "wait", NoRange, Tracked, {})
  BY DEF WaitBegin, taskVars
<1>2. \A k \in Tracked : pc[k] # "free"
  BY DEF Tracked, BookInvariant, BooksAgree
<1>3. Tracked # {}
  <2>1. PICK r \in Ranges : tasks[r] # NoJob
    BY <1>1, BookTypes DEF NoTasks
  <2>2. QED
    BY <2>1 DEF Tracked
<1>4. QED
  BY <1>1, <1>2, <1>3, SuspendKeepsWaits

\* A caller that is resumed.
LEMMA ContinueKeepsWaits ==
    ASSUME BookInvariant, OrderInvariant, WaitsAgree, NEW c \in Callers, Continue(c)
    PROVE  WaitsAgree'
<1>1. pc' = pc /\ WaitAgrees(c) /\ call \in [Callers -> CallRecord]
  BY BookTypes DEF Continue, CancelInitiated, CancelJoined, Unlink, WakeUp, WaitEnd, GatherEnd,
     Purge, taskVars, WaitsAgree
<1>2. CASE CancelInitiated(c) \/ WakeUp(c)
  <2>1. /\ call'[c].jobs = call[c].jobs /\ call'[c].at \in {"join", "woken"}
        /\ \A d \in Callers \ {c} : call'[d] = call[d]
    BY <1>1, <1>2 DEF CancelInitiated, WakeUp, CallRecord
  <2>2. WaitAgrees(c)'
    BY <1>1, <2>1 DEF WaitAgrees
  <2>3. \A k \in Jobs : cancelling'[k] => cancelling[k] \/ pc[k] # "created"
    <3>1. CASE WakeUp(c)
      BY <3>1 DEF WakeUp, taskVars
    <3>2. CASE CancelInitiated(c)
      <4>1. call[c].jobs \in SUBSET Jobs
        BY BookTypes DEF CallRecord
      <4>2. cancelling' = CancelledBy(call[c].jobs) /\ \A k \in call[c].jobs : pc[k] # "created"
        BY <3>2 DEF CancelInitiated, Initiated
      <4>3. QED
        BY <4>1, <4>2, NewlyCancelled
    <3>3. QED
      BY <1>2, <3>1, <3>2
  <2>4. QED
    BY <1>1, <2>1, <2>2, <2>3, CallerKeepsWaits
<1>3. CASE CancelJoined(c) \/ Unlink(c) \/ WaitEnd(c) \/ Purge(c)
  <2>1. cancelling' = cancelling
    BY <1>3 DEF CancelJoined, Unlink, WaitEnd, Purge, taskVars
  <2>2. Return(c) \/ Raise(c) \/ PopStats(c, call[c].range)
    BY <1>3 DEF CancelJoined, Unlink, WaitEnd, Purge
  <2>3. QED
    BY <1>1, <2>1, <2>2, ReturnKeepsWaits, PopKeepsWaits
<1>4. CASE GatherEnd(c)
  <2>1. cancelling' = cancelling
    BY <1>4 DEF GatherEnd, taskVars
  <2>2. Return(c) \/ \E op, files : Suspend(c, op, "purge", NoRange, {}, files)
    BY <1>4 DEF GatherEnd, ForgetAll
  <2>3. QED
    BY <1>1, <2>1, <2>2, ReturnKeepsWaits, SuspendKeepsWaits
<1>5. QED
  BY <1>2, <1>3, <1>4 DEF Continue

LEMMA RequestKeepsWaits ==
    ASSUME "shutdown" \in Manners, BookInvariant, OrderInvariant, WaitsAgree, Request
    PROVE  WaitsAgree'
<1>1. ASSUME NEW r \in Starts, StartChunk(r) PROVE WaitsAgree'
  <2>1. PICK j \in Jobs : pc[j] = "free" /\ pc' = [pc EXCEPT ![j] = "created"]
    BY <1>1 DEF StartChunk, Register, NextJob
  <2>2. call' = call /\ cancelling' = cancelling
    BY <1>1 DEF StartChunk, clientVars
  <2>3. QED
    BY <2>1, <2>2, CreateKeepsWaits
<1>2. ASSUME NEW p \in Resizes, ResizeChunk(p[1], p[2]) PROVE WaitsAgree'
  <2>1. PICK j \in Jobs : pc[j] = "free" /\ pc' = [pc EXCEPT ![j] = "created"]
    BY <1>2 DEF ResizeChunk, Register, NextJob
  <2>2. call' = call /\ \A k \in Jobs : cancelling'[k] => cancelling[k] \/ pc[k] # "created"
    BY <1>2, ObserveCancels DEF ResizeChunk, clientVars
  <2>3. QED
    BY <2>1, <2>2, CreateKeepsWaits
<1>3. ASSUME NEW c \in Callers, NEW op \in Operations,
             \/ \E r \in Ranges : CancelOrDelete(c, op, r)
             \/ WaitBegin(c, op)
             \/ CancelAll(c, op)
      PROVE  WaitsAgree'
  BY <1>3, CancelOneKeepsWaits, WaitKeepsWaits, CancelAllKeepsWaits
<1>4. QED
  BY <1>1, <1>2, <1>3 DEF Request

\* Whatever its callers do, the tasks of a manager never wait for each other in
\* a circle (run_chunk_succession awaits its predecessor, to go on or to stop).
THEOREM NoTaskIsStuck == Spec => []TasksGoOn
<1>1. BookInvariant /\ OrderInvariant => TasksGoOn
  BY SomeTaskGoesOn
<1>2. QED
  BY <1>1, TasksInOrder, PTL

\* When nobody calls cancel_chunk while cancel_all_chunks or cleanup runs, and
\* the other way round, no call waits for a task that will never begin, for the
\* lock or for another call: something of the manager can always go on.
THEOREM NobodyIsStuck ==
    ASSUME "shutdown" \in Manners
    PROVE  Spec => []NobodyStuck
<1> DEFINE Inv == BookInvariant /\ OrderInvariant /\ WaitsAgree
<1>1. Init => Inv
  <2>1. Init => \A c \in Callers : call[c].jobs = {} /\ call[c].at = "idle"
    <3>1. Idle.jobs = {} /\ Idle.at = "idle"
      BY DEF Idle
    <3>2. Init => \A c \in Callers : call[c] = Idle
      BY DEF Init
    <3>3. QED
      BY <3>1, <3>2
  <2>2. QED
    BY <2>1, InitBooks, InitOrder DEF WaitsAgree, WaitAgrees
<1>2. Inv /\ [Next]_vars => Inv'
  <2> SUFFICES ASSUME Inv, [Next]_vars PROVE WaitsAgree'
    BY NextKeepsBooks, NextKeepsOrder
  <2>1. CASE Request
    BY <2>1, RequestKeepsWaits
  <2>2. ASSUME NEW c \in Callers, Continue(c) PROVE WaitsAgree'
    BY <2>2, ContinueKeepsWaits
  <2>3. ASSUME NEW j \in Jobs, JobStep(j) PROVE WaitsAgree'
    BY <2>3, JobStepShape, TaskKeepsWaits
  <2>4. CASE MonitorEnds \/ UNCHANGED vars
    <3>1. pc' = pc /\ cancelling' = cancelling /\ call' = call
      BY <2>4 DEF MonitorEnds, taskVars, clientVars, vars
    <3>2. QED
      BY <3>1 DEF WaitsAgree, WaitAgrees, Hopeless
  <2>5. QED
    BY <2>1, <2>2, <2>3, <2>4 DEF Next
<1>3. Inv => NobodyStuck
  BY SomeCallerGoesOn
<1>4. QED
  BY <1>1, <1>2, <1>3, PTL DEF Spec

(***************************************************************************)
(* Steps run out                                                           *)
(***************************************************************************)

\* Where a task may go from where it stands: always on.
Advances(j) ==
    \/ pc[j] = "created" /\ pc'[j] \in {"opening", "awaiting", "cropping", "done", "dropped"}
    \/ /\ pc[j] = "opening"
       /\ pc'[j] = "done" \/ (pc'[j] = "streaming" /\ bytes'[j] = 0)
    \/ /\ pc[j] = "streaming"
       /\ \/ pc'[j] = "flushing"
          \/ pc'[j] = "streaming" /\ bytes'[j] > bytes[j] /\ bytes'[j] <= SourceSize
    \/ pc[j] = "awaiting" /\ pc'[j] \in {"cropping", "stopping", "done"}
    \/ pc[j] = "cropping" /\ pc'[j] \in {"shifting", "done"}
    \/ pc[j] = "shifting" /\ pc'[j] \in {"moving", "done"}
    \/ pc[j] \in {"flushing", "moving", "stopping"} /\ pc'[j] = "done"

\* A worker never counts more than the server has to give.
StreamFits == \A j \in Jobs : pc[j] = "streaming" => bytes[j] <= SourceSize

LEMMA AvailableFits ==
    ASSUME BookInvariant, NEW j \in Jobs, pc[j] = "streaming"
    PROVE  Available(j) \in Int /\ Available(j) <= SourceSize
<1>1. job[j].range \in Ranges
  BY PlaceKinds
<1>2. /\ job[j].range.start \in Nat /\ job[j].range.end \in Int
      /\ job[j].range.end < SourceSize /\ SourceSize \in Nat
  BY <1>1, RangeFacts, SizeAssumption DEF None
<1>3. QED
  BY <1>2 DEF Available, SourceFrom

LEMMA BlockAdvances ==
    ASSUME BookInvariant, NEW j \in Jobs, NEW n \in 1..SourceSize,
           Receive(j, n) \/ LoseWrite(j, n)
    PROVE  Advances(j)
<1>1. /\ pc[j] = "streaming" /\ n <= Available(j) - bytes[j] /\ Count(j, n)
      /\ pc'[j] \in {"streaming", "flushing"}
  BY BookTypes DEF Receive, LoseWrite
<1>2. bytes'[j] = bytes[j] + n /\ bytes[j] \in Nat /\ n \in Nat /\ n > 0
  BY <1>1, BookTypes, SizeAssumption DEF Count
<1>3. bytes'[j] > bytes[j] /\ bytes'[j] <= SourceSize
  BY <1>1, <1>2, AvailableFits, SizeAssumption
<1>4. QED
  BY <1>1, <1>3 DEF Advances

LEMMA WorkerAdvances ==
    ASSUME BookInvariant, OrderInvariant, NEW j \in Jobs, WorkerStep(j)
    PROVE  Advances(j)
<1>1. CASE StartDownload(j)
  BY <1>1, BookTypes DEF StartDownload, FirstToRun, Advances
<1>2. CASE Open(j)
  <2>1. bytes'[j] = 0
    BY <1>2 DEF Open, statVars, OrderInvariant, Beginnings
  <2>2. QED
    BY <1>2, <2>1, BookTypes DEF Open, Advances
<1>3. CASE EndStream(j, "none") \/ EndStream(j, "error") \/ InterruptStreaming(j)
  BY <1>3, BookTypes DEF EndStream, InterruptStreaming, Advances
<1>4. CASE OpenFails(j) \/ InterruptOpening(j) \/ InterruptFlushing(j) \/ Flush(j) \/ FlushFails(j)
  <2>1. pc[j] \in {"opening", "flushing"} /\ pc'[j] = "done"
    BY <1>4, BookTypes
       DEF OpenFails, InterruptOpening, InterruptFlushing, Flush, FlushFails, Finish
  <2>2. QED
    BY <2>1 DEF Advances
<1>5. CASE \E n \in 1..SourceSize : Receive(j, n) \/ LoseWrite(j, n)
  BY <1>5, BlockAdvances
<1>6. QED
  BY <1>1, <1>2, <1>3, <1>4, <1>5 DEF WorkerStep

LEMMA SuccessionAdvances ==
    ASSUME BookInvariant, NEW j \in Jobs, SuccessionStep(j)
    PROVE  Advances(j)
<1>1. CASE StartSuccession(j)
  <2>1. pc[j] = "created" /\ pc'[j] \in {"awaiting", "cropping", "done"}
    BY <1>1, BookTypes DEF StartSuccession, FirstToRun, Finish, Decide
  <2>2. QED
    BY <2>1 DEF Advances
<1>2. CASE Resume(j) \/ InterruptAwaiting(j)
  <2>1. pc[j] = "awaiting" /\ pc'[j] \in {"cropping", "stopping", "done"}
    BY <1>2, BookTypes DEF Resume, InterruptAwaiting, Decide, GiveUp, Finish
  <2>2. QED
    BY <2>1 DEF Advances
<1>3. CASE CheckCrop(j)
  BY <1>3, BookTypes DEF CheckCrop, Finish, Advances
<1>4. CASE Crop(j) \/ CropFails(j)
  <2>1. pc[j] = "shifting" /\ pc'[j] \in {"moving", "done"}
    BY <1>4, BookTypes DEF Crop, CropFails, Finish
  <2>2. QED
    BY <2>1 DEF Advances
<1>5. CASE Move(j) \/ MoveFails(j) \/ InterruptMoving(j) \/ Stopped(j)
  <2>1. pc[j] \in {"moving", "stopping"} /\ pc'[j] = "done"
    BY <1>5, BookTypes DEF Move, MoveFails, InterruptMoving, Stopped, GiveUp, Finish
  <2>2. QED
    BY <2>1 DEF Advances
<1>6. CASE InterruptCropping(j)
  BY <1>6, BookTypes DEF InterruptCropping, GiveUp, Finish, Advances
<1>7. QED
  BY <1>1, <1>2, <1>3, <1>4, <1>5, <1>6 DEF SuccessionStep

LEMMA TaskAdvances ==
    ASSUME BookInvariant, OrderInvariant, NEW j \in Jobs, JobStep(j)
    PROVE  Advances(j)
<1>1. CASE Drop(j)
  BY <1>1, BookTypes DEF Drop, FirstToRun, Advances
<1>2. QED
  BY <1>1, WorkerAdvances, SuccessionAdvances DEF JobStep

\* That way each place has fewer steps before it than the one it is reached from.
LEMMA FewerLeft ==
    ASSUME BookInvariant, StreamFits, NEW j \in Jobs, bytes'[j] \in Nat, Advances(j)
    PROVE  StepsLeft(j)' \in 0..(StepsLeft(j) - 1)
<1>1. /\ SourceSize \in Nat /\ bytes[j] \in Nat
      /\ pc[j] = "streaming" => bytes[j] <= SourceSize
  BY SizeAssumption, BookTypes DEF StreamFits
<1>2. CASE pc[j] = "created"
  BY <1>1, <1>2 DEF Advances, StepsLeft
<1>3. CASE pc[j] = "opening"
  BY <1>1, <1>3 DEF Advances, StepsLeft
<1>4. CASE pc[j] = "streaming"
  BY <1>1, <1>4 DEF Advances, StepsLeft
<1>5. CASE pc[j] \in {"awaiting", "cropping", "shifting", "flushing", "moving", "stopping"}
  BY <1>5 DEF Advances, StepsLeft
<1>6. QED
  BY <1>2, <1>3, <1>4, <1>5 DEF Advances

\* A job that a step leaves where it is, or that is new.
LEMMA SameLeft ==
    ASSUME BookInvariant, StreamFits, NEW j \in Jobs, pc'[j] = pc[j], bytes'[j] = bytes[j]
    PROVE  StepsLeft(j)' = StepsLeft(j) /\ StepsLeft(j) \in Nat
<1>1. /\ SourceSize \in Nat /\ bytes[j] \in Nat
      /\ pc[j] = "streaming" => bytes[j] <= SourceSize
  BY SizeAssumption, BookTypes DEF StreamFits
<1>2. StepsLeft(j)' = StepsLeft(j)
  BY DEF StepsLeft
<1>3. StepsLeft(j) \in Nat
  BY <1>1 DEF StepsLeft
<1>4. QED
  BY <1>2, <1>3

\* What a step of the whole manager does to the place of a job.
LEMMA StepPlaces ==
    ASSUME BookInvariant, OrderInvariant, [Next]_vars, NEW k \in Jobs
    PROVE  \/ pc'[k] = pc[k] /\ bytes'[k] = bytes[k]
           \/ pc[k] = "free" /\ pc'[k] = "created"
           \/ Advances(k)
<1>1. CASE Request
  <2>1. ASSUME NEW r \in Starts, StartChunk(r)
        PROVE  pc'[k] = pc[k] \/ (pc[k] = "free" /\ pc'[k] = "created")
    BY <2>1, BookTypes DEF StartChunk, Register, NextJob
  <2>2. ASSUME NEW p \in Resizes, ResizeChunk(p[1], p[2])
        PROVE  pc'[k] = pc[k] \/ (pc[k] = "free" /\ pc'[k] = "created")
    BY <2>2, BookTypes DEF ResizeChunk, Register, NextJob
  <2>3. ASSUME NEW c \in Callers, NEW op \in Operations,
               \/ \E r \in Ranges : CancelOrDelete(c, op, r)
               \/ WaitBegin(c, op)
               \/ CancelAll(c, op)
        PROVE  pc' = pc
    BY <2>3 DEF CancelOrDelete, WaitBegin, CancelAll, taskVars
  <2>4. bytes' = bytes
    BY <1>1 DEF Request, StartChunk, ResizeChunk, CancelOrDelete, WaitBegin, CancelAll, statVars
  <2>5. QED
    BY <1>1, <2>1, <2>2, <2>3, <2>4 DEF Request
<1>2. CASE MonitorEnds \/ UNCHANGED vars \/ \E c \in Callers : Continue(c)
  <2>1. UNCHANGED <<pc, bytes>>
    BY <1>2 DEF MonitorEnds, vars, Continue, CancelInitiated, CancelJoined, Unlink, WakeUp,
       WaitEnd, GatherEnd, Purge, taskVars, statVars
  <2>2. QED
    BY <2>1
<1>3. ASSUME NEW j \in Jobs, JobStep(j)
      PROVE  (pc'[k] = pc[k] /\ bytes'[k] = bytes[k]) \/ Advances(k)
  <2>1. CASE k = j
    BY <1>3, <2>1, TaskAdvances
  <2>2. CASE k # j
    BY <1>3, <2>2, JobStepShape DEF Shape, TaskFrame
  <2>3. QED
    BY <2>1, <2>2
<1>4. QED
  BY <1>1, <1>2, <1>3 DEF Next

LEMMA NextFits ==
    ASSUME BookInvariant, OrderInvariant, StreamFits, [Next]_vars
    PROVE  StreamFits'
<1> SUFFICES ASSUME NEW k \in Jobs, pc'[k] = "streaming" PROVE bytes'[k] <= SourceSize
  BY DEF StreamFits
<1>1. SourceSize \in Nat
  BY SizeAssumption
<1>2. QED
  BY <1>1, StepPlaces DEF StreamFits, Advances

\* Where a step of the manager leaves a call.
LEMMA CallAdvances ==
    ASSUME BookInvariant, NEW c \in Callers, Continue(c)
    PROVE  /\ \/ call[c].at = "init" /\ call'[c].at = "join"
              \/ call[c].at = "join" /\ call'[c].at \in {"unlink", "idle", "raised"}
              \/ call[c].at = "wait" /\ call'[c].at = "woken"
              \/ call[c].at = "gather" /\ call'[c].at \in {"purge", "idle"}
              \/ call[c].at \in {"woken", "unlink", "purge"} /\ call'[c].at \in {"idle", "raised"}
           /\ \A d \in Callers \ {c} : call'[d] = call[d]
<1>1. call \in [Callers -> CallRecord]
  BY BookTypes
<1>2. Return(c) \/ Raise(c) => /\ call'[c].at \in {"idle", "raised"}
                               /\ \A d \in Callers \ {c} : call'[d] = call[d]
  BY <1>1 DEF Return, Raise, Idle, Raised
<1>3. Return(c) => call'[c].at = "idle"
  BY <1>1 DEF Return, Idle
<1>4. ASSUME NEW op, NEW at, NEW range, NEW jobs, NEW files,
             Suspend(c, op, at, range, jobs, files)
      PROVE  call'[c].at = at /\ \A d \in Callers \ {c} : call'[d] = call[d]
  BY <1>1, <1>4 DEF Suspend
<1>5. CASE CancelInitiated(c) \/ WakeUp(c)
  BY <1>1, <1>5 DEF CancelInitiated, WakeUp, CallRecord
<1>6. CASE CancelJoined(c)
  BY <1>2, <1>4, <1>6 DEF CancelJoined, PopStats
<1>7. CASE Unlink(c) \/ WaitEnd(c) \/ Purge(c)
  BY <1>2, <1>7 DEF Unlink, WaitEnd, Purge
<1>8. CASE GatherEnd(c)
  BY <1>2, <1>3, <1>4, <1>8 DEF GatherEnd, ForgetAll
<1>9. QED
  BY <1>5, <1>6, <1>7, <1>8 DEF Continue

\* A call that is suspended is moved by nobody else.
LEMMA OthersStay ==
    ASSUME BookInvariant, OrderInvariant, [Next]_vars, NEW c \in Callers, ~Outside(c)
    PROVE  call'[c] = call[c] \/ Continue(c)
<1>1. CASE Request
  <2>1. ASSUME NEW d \in Callers, NEW op \in Operations,
               \/ \E r \in Ranges : CancelOrDelete(d, op, r)
               \/ WaitBegin(d, op)
               \/ CancelAll(d, op)
        PROVE  call'[c] = call[c]
    <3>1. d # c
      BY <2>1 DEF CancelOrDelete, WaitBegin, CancelAll
    <3>2. \/ Return(d) \/ Raise(d)
          \/ \E o, at, range, jobs, files : Suspend(d, o, at, range, jobs, files)
      BY <2>1 DEF CancelOrDelete, PopStats, WaitBegin, CancelAll, ForgetAll
    <3>3. QED
      BY <3>1, <3>2, BookTypes DEF Return, Raise, Suspend
  <2>2. (\E r \in Starts : StartChunk(r)) \/ (\E p \in Resizes : ResizeChunk(p[1], p[2]))
        => call' = call
    BY DEF StartChunk, ResizeChunk, clientVars
  <2>3. QED
    BY <1>1, <2>1, <2>2 DEF Request
<1>2. ASSUME NEW d \in Callers, Continue(d) PROVE call'[c] = call[c] \/ Continue(c)
  BY <1>2, CallAdvances
<1>3. ASSUME NEW j \in Jobs, JobStep(j) PROVE call' = call
  BY <1>3, JobStepShape DEF Shape, TaskFrame
<1>4. MonitorEnds \/ UNCHANGED vars => call' = call
  BY DEF MonitorEnds, clientVars, vars
<1>5. QED
  BY <1>1, <1>2, <1>3, <1>4 DEF Next

\* Whatever its callers do, each task takes a bounded number of steps, at most
\* SourceSize + 5, and each call at most three after the one that made it:
\* no worker, succession or coroutine of the manager repeats itself.
THEOREM StepsAreBounded == Spec => StepsRunOut
<1> DEFINE Inv == BookInvariant /\ OrderInvariant /\ StreamFits
<1>1. Init => Inv
  <2>1. Init => \A j \in Jobs : pc[j] # "streaming"
    BY DEF Init
  <2>2. QED
    BY <2>1, InitBooks, InitOrder DEF StreamFits
<1>2. Inv /\ [Next]_vars => Inv'
  BY NextKeepsBooks, NextKeepsOrder, NextFits
<1>3. ASSUME Inv, Inv', [Next]_vars
      PROVE  /\ \A j \in Jobs : JobStep(j) => StepsLeft(j)' \in 0..(StepsLeft(j) - 1)
             /\ \A j \in Jobs : pc[j] # "free" => StepsLeft(j)' <= StepsLeft(j)
             /\ \A c \in Callers : Continue(c) => CallStepsLeft(c)' \in 0..(CallStepsLeft(c) - 1)
             /\ \A c \in Callers : ~Outside(c) => CallStepsLeft(c)' <= CallStepsLeft(c)
  <2>1. \A j \in Jobs : bytes'[j] \in Nat
    BY <1>3 DEF BookInvariant, TypeOK
  <2>2. ASSUME NEW j \in Jobs, JobStep(j) PROVE StepsLeft(j)' \in 0..(StepsLeft(j) - 1)
    BY <1>3, <2>1, <2>2, TaskAdvances, FewerLeft
  <2>3. ASSUME NEW j \in Jobs, pc[j] # "free" PROVE StepsLeft(j)' <= StepsLeft(j)
    <3>1. CASE pc'[j] = pc[j] /\ bytes'[j] = bytes[j]
      BY <1>3, <3>1, SameLeft
    <3>2. CASE Advances(j)
      <4>1. StepsLeft(j)' \in 0..(StepsLeft(j) - 1)
        BY <1>3, <2>1, <3>2, FewerLeft
      <4>2. StepsLeft(j) \in Int
        BY SizeAssumption, <1>3, BookTypes DEF StepsLeft
      <4>3. QED
        BY <4>1, <4>2
    <3>3. QED
      BY <1>3, <2>3, <3>1, <3>2, StepPlaces
  <2>4. ASSUME NEW c \in Callers, Continue(c)
        PROVE  CallStepsLeft(c)' \in 0..(CallStepsLeft(c) - 1)
    BY <1>3, <2>4, CallAdvances DEF CallStepsLeft
  <2>5. ASSUME NEW c \in Callers, ~Outside(c) PROVE CallStepsLeft(c)' <= CallStepsLeft(c)
    <3>1. CallStepsLeft(c) \in Nat
      BY DEF CallStepsLeft
    <3>2. CASE call'[c] = call[c]
      BY <3>1, <3>2 DEF CallStepsLeft
    <3>3. CASE Continue(c)
      BY <2>4, <3>1, <3>3
    <3>4. QED
      BY <1>3, <2>5, <3>2, <3>3, OthersStay
  <2>6. QED
    BY <2>2, <2>3, <2>4, <2>5
<1>4. QED
  BY <1>1, <1>2, <1>3, PTL DEF Spec, StepsRunOut
=============================================================================
