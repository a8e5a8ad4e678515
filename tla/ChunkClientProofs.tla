------------------------- MODULE ChunkClientProofs -------------------------
(***************************************************************************)
(* The second layer: when callers keep the rules about shutdowns, busy     *)
(* ranges and successors, both dictionaries know every running task, no    *)
(* two tasks touch a file, a chunk that downloads is monitored, nothing    *)
(* outlives cleanup, and the manager keeps the promise of ChunkLifecycle.  *)
(***************************************************************************)
EXTENDS ChunkOrderProofs

(***************************************************************************)
(* The invariant: when callers keep to three of their rules                *)
(***************************************************************************)

CarefulClients == {"shutdown", "busy", "successor"} \subseteq Manners

\* Both dictionaries know every job with a running task.
LiveIsKnown ==
    \A j \in Jobs : Live(j) => tasks[job[j].range] = j /\ stats[job[j].range] = j

\* What the place of a task says of the status of its chunk.  A chunk that is
\* called off while its task goes on is always about to be cancelled.
Marked(j) == status[j] = "CANCELLED" /\ cancelling[j]
PlacesAgree ==
    \A j \in Jobs :
        /\ pc[j] = "created" /\ job[j].kind = "download" => status[j] = "PENDING" \/ Marked(j)
        /\ pc[j] \in {"opening", "streaming", "flushing"} => status[j] = "DOWNLOADING"
        /\ pc[j] = "created" /\ job[j].kind = "succession"
              => status[j] = "AWAITING_SUCCESSION" \/ Marked(j)
        /\ pc[j] \in {"awaiting", "cropping", "shifting", "moving"}
              => status[j] = "AWAITING_SUCCESSION" \/ Marked(j)
        /\ pc[j] = "stopping" => status[j] = "CANCELLED"
        /\ Done(j) => status[j] \in Ended /\ (status[j] = "ERROR" => exc[j] \in {"refused", "error"})

\* A succession that is being cancelled, and any task cancelled before its
\* first step, has a caller that waits for its end.
Awaited(j) ==
    \E c \in Callers : /\ call[c].at \in {"join", "gather"}
                       /\ j \in call[c].jobs
                       /\ call[c].at = "join" => call[c].range = job[j].range
CancellationsAwaited ==
    \A j \in Jobs :
        \/ Live(j) /\ job[j].kind = "succession" /\ (cancelling[j] \/ pc[j] = "stopping")
        \/ pc[j] = "created" /\ cancelling[j]
        => Awaited(j)

\* While a succession runs, the stats keep its predecessor; it changes files
\* only when that one's task is done, and has not failed; and nobody else
\* inherits from the same chunk.
PredecessorsKept ==
    \A j \in Jobs : job[j].kind = "succession" =>
        LET p == job[j].pred IN
        /\ Live(j) => stats[job[p].range] = p
        /\ pc[j] \in {"cropping", "shifting", "moving"} => Done(p) /\ status[p] # "ERROR"
        /\ job[j].awaits = NoJob => Done(p) /\ status[p] \in {"COMPLETED", "DEPRECATED"}
        /\ \A k \in Jobs : job[k].kind = "succession" /\ job[k].pred = p => k = j

\* What a suspended caller may still rely on.
Heir(j, r) == Live(j) /\ job[j].kind = "succession" /\ job[job[j].pred].range = r
CallAgrees(c) ==
    LET r == call[c].range IN
    /\ call[c].at \in {"init", "join"} =>
          /\ r \in Ranges
          /\ \E j \in Jobs : /\ call[c].jobs = {j} /\ pc[j] # "free"
                             /\ job[j].range = r /\ tasks[r] \in {NoJob, j}
          /\ call[c].op = "delete" => \A j \in Jobs : ~Heir(j, r)
    /\ call[c].at = "unlink" =>
          /\ r \in Ranges /\ stats[r] = NoJob
          /\ tasks[r] # NoJob => Done(tasks[r])
    /\ call[c].at \in {"gather", "purge"} =>
          /\ \A d \in Callers \ {c} : Outside(d) \/ call[d].at \in {"wait", "woken"}
          /\ call[c].op # "cancelAll" => cleaned
    /\ call[c].at = "gather" => Tracked \subseteq call[c].jobs
    /\ call[c].at = "purge" => tasks = NoTasks /\ call[c].op = "cleanup"
CallsAgree == \A c \in Callers : CallAgrees(c)

\* Once cleanup has begun, it waits for the tasks or there are none.
CleanupAgrees ==
    cleaned => (\E c \in Callers : call[c].at = "gather") \/ (tasks = NoTasks /\ monitor # "running")

\* The handle of a worker stays on the file its range is named after.
HandlesAgree == \A j \in Jobs : pc[j] \in {"streaming", "flushing"} => path[j] = job[j].range

CarefulInvariant ==
    /\ LiveIsKnown
    /\ PlacesAgree
    /\ CancellationsAwaited
    /\ PredecessorsKept
    /\ CallsAgree
    /\ CleanupAgrees
    /\ HandlesAgree
    /\ DownloadsAreMonitored
ClientInvariant == BookInvariant /\ OrderInvariant /\ CarefulInvariant

(***************************************************************************)
(* The invariant: when only one caller cancels, deletes and waits, and never cleans up*)
(***************************************************************************)

LoneClient ==
    /\ CarefulClients /\ "collect" \in Manners
    /\ "cleanup" \notin Operations
    /\ \A c, d \in Callers : c = d

\* What has a task has stats; and the entry a cancellation is after is there.
EntriesStay ==
    /\ \A r \in Ranges : tasks[r] # NoJob => stats[r] # NoJob
    /\ \A c \in Callers :
          /\ call[c].at \in {"init", "join"} => tasks[call[c].range] # NoJob
          /\ call[c].op # "cleanup"
RaiseInvariant == EntriesStay /\ NoCallRaises

(***************************************************************************)
(* What the invariant says of one job, of one succession, of one call      *)
(***************************************************************************)

LEMMA LiveFacts ==
    ASSUME ClientInvariant, NEW j \in Jobs, Live(j)
    PROVE  /\ job[j].range \in Ranges
           /\ tasks[job[j].range] = j /\ stats[job[j].range] = j
           /\ j \in Tracked /\ j \in StatsJobs
<1>1. job[j].range \in Ranges
  BY PlaceKinds DEF ClientInvariant, Live
<1>2. tasks[job[j].range] = j /\ stats[job[j].range] = j
  BY DEF ClientInvariant, CarefulInvariant, LiveIsKnown
<1>3. QED
  BY <1>1, <1>2, JobNumbers DEF Tracked, StatsJobs

\* Two running tasks are tasks of two ranges.
LEMMA SoleLive ==
    ASSUME ClientInvariant, NEW j \in Jobs, NEW k \in Jobs, Live(j), Live(k),
           job[j].range = job[k].range
    PROVE  j = k
BY LiveFacts

\* With no entry in the tasks, or a task that is done, nothing runs for a range.
LEMMA NothingRuns ==
    ASSUME ClientInvariant, NEW r \in Ranges, tasks[r] # NoJob => Done(tasks[r]),
           NEW k \in Jobs, job[k].range = r
    PROVE  ~Live(k)
BY LiveFacts, JobNumbers DEF Done, Live

\* The places of tasks and the status of chunks.
LEMMA PlaceStatus ==
    ASSUME ClientInvariant, NEW j \in Jobs
    PROVE  /\ pc[j] = "created" /\ job[j].kind = "download" => status[j] = "PENDING" \/ Marked(j)
           /\ pc[j] \in {"opening", "streaming", "flushing"} => status[j] = "DOWNLOADING"
           /\ pc[j] \in {"created", "awaiting", "cropping", "shifting", "moving"}
                 /\ job[j].kind = "succession"
                 => status[j] = "AWAITING_SUCCESSION" \/ Marked(j)
           /\ pc[j] = "stopping" => status[j] = "CANCELLED"
           /\ Done(j) => status[j] \in Ended /\ (status[j] = "ERROR" => exc[j] \in {"refused", "error"})
           /\ pc[j] # "free" => job[j].kind \in {"download", "succession"} \/ Done(j)
<1>1. pc[j] # "free" => job[j].kind \in {"download", "succession"} \/ Done(j)
  <2>1. job[j].kind \in {"none", "download", "succession", "recovered"}
    BY BookTypes DEF ClientInvariant, JobRecord
  <2>2. QED
    BY <2>1, PlaceKinds DEF ClientInvariant
<1>2. QED
  BY <1>1 DEF ClientInvariant, CarefulInvariant, PlacesAgree

\* What a running succession may rely on.
LEMMA PredFacts ==
    ASSUME ClientInvariant, NEW j \in Jobs, job[j].kind = "succession"
    PROVE  /\ job[j].pred \in Jobs /\ job[j].pred # j /\ job[j].pred < j
           /\ job[j].awaits \in {NoJob, job[j].pred}
           /\ pc[job[j].pred] # "free" /\ job[job[j].pred].range \in Ranges
           /\ Live(j) => stats[job[job[j].pred].range] = job[j].pred
           /\ pc[j] \in {"cropping", "shifting", "moving"}
                 => Done(job[j].pred) /\ status[job[j].pred] # "ERROR"
           /\ job[j].awaits = NoJob
                 => Done(job[j].pred) /\ status[job[j].pred] \in {"COMPLETED", "DEPRECATED"}
           /\ \A k \in Jobs : job[k].kind = "succession" /\ job[k].pred = job[j].pred => k = j
<1>1. /\ job[j].pred \in Jobs /\ job[j].pred < j /\ job[j].awaits \in {NoJob, job[j].pred}
      /\ pc[job[j].pred] # "free"
  BY SuccessionFacts DEF ClientInvariant
<1>2. job[job[j].pred].range \in Ranges
  BY <1>1, PlaceKinds DEF ClientInvariant
<1>3. job[j].pred # j
  BY <1>1, JobNumbers
<1>4. QED
  BY <1>1, <1>2, <1>3 DEF ClientInvariant, CarefulInvariant, PredecessorsKept

\* A chunk that is called off while its task goes on has a caller waiting.
LEMMA CancelledIsAwaited ==
    ASSUME ClientInvariant, NEW j \in Jobs, Live(j), status[j] = "CANCELLED"
    PROVE  Awaited(j)
<1>1. pc[j] \in Place /\ pc[j] \notin {"free", "done", "dropped"}
  BY BookTypes DEF ClientInvariant, Live
<1>2. pc[j] \notin {"opening", "streaming", "flushing"}
  BY PlaceStatus
<1>3. CASE pc[j] = "created"
  <2>1. cancelling[j]
    BY <1>3, PlaceStatus DEF Marked, Done
  <2>2. QED
    BY <1>3, <2>1 DEF ClientInvariant, CarefulInvariant, CancellationsAwaited
<1>4. CASE pc[j] \in {"awaiting", "cropping", "shifting", "moving", "stopping"}
  <2>1. job[j].kind = "succession"
    BY <1>4, PlaceKinds DEF ClientInvariant
  <2>2. pc[j] = "stopping" \/ cancelling[j]
    BY <1>4, <2>1, PlaceStatus DEF Marked
  <2>3. QED
    BY <2>1, <2>2 DEF ClientInvariant, CarefulInvariant, CancellationsAwaited
<1>5. QED
  BY <1>1, <1>2, <1>3, <1>4 DEF Place

LEMMA AwaitedIsBusy ==
    ASSUME NEW j \in Jobs, Awaited(j)
    PROVE  Busy(job[j].range) \/ ShuttingDown
BY DEF Awaited, Busy, ShuttingDown

\* The rules of careful clients, where they are kept.
LEMMA TouchFacts ==
    ASSUME CarefulClients, NEW r, MayTouch(r)
    PROVE  /\ ~ShuttingDown /\ ~Busy(r)
           /\ stats[r] # NoJob => ~Inherited(stats[r])
BY DEF CarefulClients, MayTouch, MayCall

\* The stats keep the chunk a running succession inherits from.
LEMMA HeirFacts ==
    ASSUME ClientInvariant, NEW j \in Jobs, NEW r, Heir(j, r)
    PROVE  r \in Ranges /\ stats[r] = job[j].pred /\ stats[r] # NoJob /\ Inherited(stats[r])
BY PredFacts, JobNumbers DEF Heir, Inherited

(***************************************************************************)
(* The steps of tasks                                                      *)
(***************************************************************************)

\* What the shape of a step leaves alone.
LEMMA ShapeFrame ==
    ASSUME BookInvariant, NEW j \in Jobs, Shape(j)
    PROVE  /\ UNCHANGED <<job, stats, tasks, monitor, call, cleaned>>
           /\ StatsJobs' = StatsJobs /\ Tracked' = Tracked
           /\ Live(j) /\ pc[j] # "free" /\ pc'[j] # "free"
           /\ \A k \in Jobs \ {j} : pc'[k] = pc[k] /\ exc'[k] = exc[k] /\ bytes'[k] = bytes[k]
           /\ \A k \in Jobs : Live(k)' => Live(k)
           /\ \A k \in Jobs : Done(k) => Done(k)' /\ k # j
<1>1. /\ UNCHANGED <<job, stats, tasks, monitor, call, cleaned>>
      /\ Live(j)
      /\ \A k \in Jobs \ {j} : pc'[k] = pc[k] /\ exc'[k] = exc[k] /\ bytes'[k] = bytes[k]
  BY DEF Shape, TaskFrame
<1>2. pc[j] # "free" /\ pc'[j] # "free"
  BY <1>1, ShapeStatus DEF Live
<1>3. StatsJobs' = StatsJobs /\ Tracked' = Tracked
  BY <1>1 DEF StatsJobs, Tracked
<1>4. \A k \in Jobs : Live(k)' => Live(k)
  BY <1>1 DEF Live
<1>5. \A k \in Jobs : Done(k) => Done(k)' /\ k # j
  BY <1>1 DEF Live, Done
<1>6. QED
  BY <1>1, <1>2, <1>3, <1>4, <1>5

\* A status changes in the books of the task that steps, and in those of a
\* predecessor that is done and has not failed.
LEMMA ShapeStatuses ==
    ASSUME ClientInvariant, NEW j \in Jobs, Shape(j), NEW k \in Jobs, k # j
    PROVE  \/ status'[k] = status[k]
           \/ /\ status'[k] = "DEPRECATED" /\ HandsOver(j) /\ k = job[j].pred
              /\ Done(k) /\ status[k] # "ERROR"
<1>1. CASE HandsOver(j)
  <2>1. job[j].kind = "succession" /\ status \in [Jobs -> Status]
    BY <1>1, PlaceKinds, BookTypes DEF ClientInvariant, HandsOver
  <2>2. Done(job[j].pred) /\ status[job[j].pred] # "ERROR" /\ job[j].pred \in Jobs
    BY <1>1, <2>1, PredFacts DEF HandsOver
  <2>3. QED
    BY <1>1, <2>1, <2>2 DEF HandsOver
<1>2. CASE ~HandsOver(j)
  <2>1. \/ status' = status
        \/ \E s : status' = [status EXCEPT ![j] = s]
    BY <1>2 DEF Shape, Drops, Begins, GoesOn, Stops, Ends
  <2>2. QED
    BY <2>1, BookTypes DEF ClientInvariant
<1>3. QED
  BY <1>1, <1>2

LEMMA TaskKeepsKnown ==
    ASSUME ClientInvariant, NEW j \in Jobs, Shape(j)
    PROVE  LiveIsKnown'
BY ShapeFrame, LiveFacts DEF ClientInvariant, LiveIsKnown

LEMMA TaskKeepsPlaces ==
    ASSUME ClientInvariant, NEW j \in Jobs, Shape(j)
    PROVE  PlacesAgree'
<1> SUFFICES ASSUME NEW k \in Jobs
             PROVE  /\ pc'[k] = "created" /\ job'[k].kind = "download"
                          => status'[k] = "PENDING" \/ Marked(k)'
                    /\ pc'[k] \in {"opening", "streaming", "flushing"} => status'[k] = "DOWNLOADING"
                    /\ pc'[k] = "created" /\ job'[k].kind = "succession"
                          => status'[k] = "AWAITING_SUCCESSION" \/ Marked(k)'
                    /\ pc'[k] \in {"awaiting", "cropping", "shifting", "moving"}
                          => status'[k] = "AWAITING_SUCCESSION" \/ Marked(k)'
                    /\ pc'[k] = "stopping" => status'[k] = "CANCELLED"
                    /\ Done(k)' => status'[k] \in Ended /\ (status'[k] = "ERROR" => exc'[k] \in {"refused", "error"})
  BY DEF PlacesAgree
<1>1. CASE k # j
  <2>1. job' = job /\ pc'[k] = pc[k] /\ exc'[k] = exc[k] /\ (cancelling[k] => cancelling'[k])
    BY <1>1 DEF Shape, TaskFrame
  <2>2. CASE status'[k] = status[k]
    <3>1. Marked(k) => Marked(k)'
      BY <2>1, <2>2 DEF Marked
    <3>2. QED
      BY <2>1, <2>2, <3>1 DEF ClientInvariant, CarefulInvariant, PlacesAgree, Done
  <2>3. CASE status'[k] = "DEPRECATED" /\ Done(k)
    BY <2>1, <2>3, PlaceStatus DEF Done, Ended
  <2>4. CASE status'[k] # status[k]
    BY <1>1, <2>3, <2>4, ShapeStatuses
  <2>5. QED
    BY <2>2, <2>4
<1>2. CASE k = j
  <2>1. job' = job /\ status \in [Jobs -> Status] /\ Live(j)
    BY BookTypes DEF ClientInvariant, Shape, TaskFrame
  <2>2. CASE Drops(j)
    <3>1. status[j] \in Ended
      BY <2>2, LiveFacts DEF ClientInvariant, OrderInvariant, Beginnings, CalledOff, Drops, Live
    <3>2. status[j] = "CANCELLED"
      BY <2>2, <3>1, PlaceStatus DEF Drops, Ended, Marked, Done
    <3>3. QED
      BY <1>2, <2>2, <3>2 DEF Drops, Ended, Done
  <2>3. CASE Begins(j)
    BY <1>2, <2>1, <2>3 DEF Begins, Done
  <2>4. CASE GoesOn(j)
    <3>1. CASE pc[j] \in {"opening", "streaming", "flushing"} /\ pc'[j] \in {"streaming", "flushing"}
      BY <1>2, <2>4, <3>1, PlaceStatus DEF GoesOn, Done
    <3>2. CASE /\ pc[j] \in {"awaiting", "cropping", "shifting"} /\ ~cancelling[j]
               /\ pc'[j] \in {"cropping", "shifting", "moving"}
      <4>1. status[j] = "AWAITING_SUCCESSION"
        BY <3>2, PlaceStatus, PlaceKinds DEF ClientInvariant, Marked
      <4>2. QED
        BY <1>2, <2>4, <3>2, <4>1 DEF GoesOn, Done
    <3>3. QED
      BY <2>4, <3>1, <3>2 DEF GoesOn
  <2>5. CASE Stops(j)
    BY <1>2, <2>1, <2>5 DEF Stops, Done
  <2>6. CASE Ends(j)
    BY <1>2, <2>1, <2>6 DEF Ends, Done
  <2>7. CASE HandsOver(j)
    <3>1. job[j].kind = "succession"
      BY <2>7, PlaceKinds DEF ClientInvariant, HandsOver
    <3>2. status'[j] = "COMPLETED"
      BY <2>1, <2>7, <3>1, PredFacts DEF HandsOver
    <3>3. QED
      BY <1>2, <2>7, <3>2 DEF HandsOver, Ended, Done
  <2>8. QED
    BY <2>2, <2>3, <2>4, <2>5, <2>6, <2>7 DEF Shape
<1>3. QED
  BY <1>1, <1>2

LEMMA TaskKeepsCancellations ==
    ASSUME ClientInvariant, NEW j \in Jobs, Shape(j)
    PROVE  CancellationsAwaited'
<1>1. \A k \in Jobs : Awaited(k) => Awaited(k)'
  BY ShapeFrame DEF ClientInvariant, Awaited
<1>2. \A k \in Jobs : cancelling'[k] =>
          cancelling[k] \/ (Live(k) /\ pc[k] # "created" /\ job[k].kind = "download")
  BY DEF Shape, TaskFrame
<1> SUFFICES ASSUME NEW k \in Jobs,
                    \/ /\ Live(k)' /\ job'[k].kind = "succession"
                       /\ cancelling'[k] \/ pc'[k] = "stopping"
                    \/ pc'[k] = "created" /\ cancelling'[k]
             PROVE  Awaited(k)
  BY <1>1 DEF CancellationsAwaited
<1>3. CASE pc'[k] = pc[k]
  <2>1. \/ Live(k) /\ job[k].kind = "succession" /\ (cancelling[k] \/ pc[k] = "stopping")
        \/ pc[k] = "created" /\ cancelling[k]
    BY <1>2, <1>3, ShapeFrame DEF ClientInvariant, Live
  <2>2. QED
    BY <2>1 DEF ClientInvariant, CarefulInvariant, CancellationsAwaited
<1>4. CASE pc'[k] # pc[k]
  <2>1. k = j /\ pc'[k] # "created" /\ Live(k) /\ job[k].kind = "succession"
    BY <1>4, ShapeFrame, ShapeStatus DEF ClientInvariant
  <2>2. cancelling[k]
    <3>1. CASE cancelling'[k]
      BY <1>2, <2>1, <3>1
    <3>2. CASE pc'[k] = "stopping"
      BY <2>1, <3>2 DEF Shape, Drops, Begins, GoesOn, Stops, Ends, HandsOver
    <3>3. QED
      BY <3>1, <3>2
  <2>3. QED
    BY <2>1, <2>2 DEF ClientInvariant, CarefulInvariant, CancellationsAwaited
<1>5. QED
  BY <1>3, <1>4

LEMMA TaskKeepsPredecessors ==
    ASSUME ClientInvariant, NEW j \in Jobs, Shape(j)
    PROVE  PredecessorsKept'
<1>1. job' = job /\ stats' = stats
  BY ShapeFrame DEF ClientInvariant
<1> SUFFICES ASSUME NEW k \in Jobs, job[k].kind = "succession"
             PROVE  LET p == job[k].pred IN
                    /\ Live(k)' => stats[job[p].range] = p
                    /\ pc'[k] \in {"cropping", "shifting", "moving"} => Done(p)' /\ status'[p] # "ERROR"
                    /\ job[k].awaits = NoJob
                          => Done(p)' /\ status'[p] \in {"COMPLETED", "DEPRECATED"}
                    /\ \A i \in Jobs : job[i].kind = "succession" /\ job[i].pred = p => i = k
  BY <1>1 DEF PredecessorsKept
<1> DEFINE p == job[k].pred
<1>2. /\ p \in Jobs /\ job[k].awaits \in {NoJob, p}
      /\ Live(k) => stats[job[p].range] = p
      /\ pc[k] \in {"cropping", "shifting", "moving"} => Done(p) /\ status[p] # "ERROR"
      /\ job[k].awaits = NoJob => Done(p) /\ status[p] \in {"COMPLETED", "DEPRECATED"}
      /\ \A i \in Jobs : job[i].kind = "succession" /\ job[i].pred = p => i = k
  BY PredFacts
<1>3. Done(p) => Done(p)' /\ status'[p] \in {status[p], "DEPRECATED"}
  BY <1>2, ShapeFrame, ShapeStatuses DEF ClientInvariant
<1>4. pc'[k] \in {"cropping", "shifting", "moving"} => Done(p) /\ status[p] # "ERROR"
  <2>1. CASE pc[k] \in {"cropping", "shifting", "moving"}
    BY <1>2, <2>1
  <2>2. CASE pc'[k] \in {"cropping", "shifting", "moving"}
             /\ pc[k] \notin {"cropping", "shifting", "moving"}
    <3>1. k = j
      BY <2>2, ShapeFrame DEF ClientInvariant
    <3>2. \/ pc[j] = "created" /\ job[j].awaits = NoJob
          \/ pc[j] = "awaiting" /\ Done(job[j].awaits) /\ ~Refused(j)
      BY <2>2, <3>1 DEF Shape, Drops, Begins, GoesOn, Stops, Ends, HandsOver
    <3>3. CASE job[j].awaits = NoJob
      BY <1>2, <3>1, <3>3
    <3>4. CASE job[j].awaits # NoJob /\ Done(job[j].awaits) /\ ~Refused(j)
      <4>1. job[j].awaits = p /\ exc[p] \notin {"refused", "error"}
        BY <1>2, <3>1, <3>4 DEF Refused, PredFailed
      <4>2. QED
        BY <1>2, <3>4, <4>1, PlaceStatus
    <3>5. QED
      BY <3>2, <3>3, <3>4, <1>2, <3>1, PlaceKinds, JobNumbers DEF ClientInvariant
  <2>3. QED
    BY <2>1, <2>2
<1>5. Live(k)' => Live(k)
  BY ShapeFrame DEF ClientInvariant
<1>6. QED
  BY <1>2, <1>3, <1>4, <1>5

LEMMA TaskKeepsCalls ==
    ASSUME ClientInvariant, NEW j \in Jobs, Shape(j)
    PROVE  CallsAgree' /\ CleanupAgrees'
<1>1. /\ UNCHANGED <<job, stats, tasks, monitor, call, cleaned>> /\ Tracked' = Tracked
      /\ \A k \in Jobs : pc[k] # "free" => pc'[k] # "free"
      /\ \A k \in Jobs : Live(k)' => Live(k)
      /\ \A k \in Jobs : Done(k) => Done(k)'
  BY ShapeFrame DEF ClientInvariant
<1>2. CleanupAgrees'
  BY <1>1 DEF ClientInvariant, CarefulInvariant, CleanupAgrees
<1>3. \A k \in Jobs : \A r : Heir(k, r)' => Heir(k, r)
  BY <1>1 DEF Heir
<1>4. ASSUME NEW c \in Callers PROVE CallAgrees(c)'
  <2>1. CallAgrees(c)
    BY DEF ClientInvariant, CarefulInvariant, CallsAgree
  <2>2. \A d \in Callers : Outside(d) => Outside(d)'
    BY <1>1 DEF Outside
  <2>3. tasks \in [Ranges -> Jobs \union {NoJob}]
    BY BookTypes DEF ClientInvariant
  <2>4. CASE call[c].at \in {"init", "join"}
    <3>1. call[c].op = "delete" => \A k \in Jobs : ~Heir(k, call[c].range)'
      BY <1>1, <1>3, <2>1, <2>4 DEF CallAgrees
    <3>2. QED
      BY <1>1, <2>1, <2>4, <3>1 DEF CallAgrees
  <2>5. CASE call[c].at = "unlink"
    BY <1>1, <2>1, <2>3, <2>5 DEF CallAgrees
  <2>6. CASE call[c].at \notin {"init", "join", "unlink"}
    BY <1>1, <2>1, <2>2, <2>6 DEF CallAgrees
  <2>7. QED
    BY <2>4, <2>5, <2>6
<1>5. QED
  BY <1>2, <1>4 DEF CallsAgree

LEMMA TaskKeepsMonitor ==
    ASSUME ClientInvariant, NEW j \in Jobs, Shape(j)
    PROVE  DownloadsAreMonitored'
<1>1. StatsJobs' = StatsJobs /\ monitor' = monitor /\ StatsJobs \subseteq Jobs
  BY ShapeFrame, BookTypes DEF ClientInvariant, StatsJobs
<1>2. ASSUME NEW k \in Jobs, status'[k] \in {"PENDING", "DOWNLOADING"}
      PROVE  status[k] \in {"PENDING", "DOWNLOADING"}
  <2>1. CASE k # j
    BY <1>2, <2>1, ShapeStatuses
  <2>2. CASE k = j
    <3>1. CASE Begins(j) /\ job[j].kind = "download"
      BY <2>2, <3>1, PlaceStatus DEF Begins, Marked
    <3>2. CASE status' = status
      BY <1>2, <3>2
    <3>3. CASE HandsOver(j)
      <4>1. job[j].kind = "succession" /\ job[j].pred # j /\ status \in [Jobs -> Status]
        BY <3>3, PlaceKinds, PredFacts, BookTypes DEF ClientInvariant, HandsOver
      <4>2. QED
        BY <1>2, <2>2, <3>3, <4>1 DEF HandsOver
    <3>4. CASE Stops(j) \/ Ends(j)
      BY <1>2, <2>2, <3>4, BookTypes DEF ClientInvariant, Stops, Ends, Ended
    <3>5. QED
      BY <3>1, <3>2, <3>3, <3>4 DEF Shape, Drops, GoesOn, Begins
  <2>3. QED
    BY <2>1, <2>2
<1>3. QED
  BY <1>1, <1>2 DEF ClientInvariant, CarefulInvariant, DownloadsAreMonitored
\* A handle is moved by the renaming of files, but never that of a worker: the
\* two files a succession renames belong to its predecessor, which is done, and
\* to itself.
LEMMA RenamedHandles ==
    ASSUME ClientInvariant, NEW j \in Jobs, Live(j), job[j].kind = "succession", pc[j] = "moving",
           NEW k \in Jobs, pc[k] \in {"streaming", "flushing"}
    PROVE  HandlesRenamed(job[job[j].pred].range, job[j].range)[k] = path[k]
<1>1. Live(k) /\ path[k] = job[k].range /\ job[k].kind = "download"
  BY PlaceKinds DEF ClientInvariant, CarefulInvariant, HandlesAgree, Live
<1>2. job[k].range # job[j].range
  BY <1>1, SoleLive
<1>3. job[k].range # job[job[j].pred].range
  <2>1. Done(job[j].pred) /\ stats[job[job[j].pred].range] = job[j].pred
    BY PredFacts
  <2>2. k # job[j].pred
    BY <1>1, <2>1 DEF Live, Done
  <2>3. QED
    BY <1>1, <2>1, <2>2, LiveFacts
<1>4. QED
  BY <1>1, <1>2, <1>3 DEF HandlesRenamed

LEMMA TaskKeepsHandles ==
    ASSUME ClientInvariant, NEW j \in Jobs, JobStep(j)
    PROVE  HandlesAgree'
<1>1. Shape(j)
  BY JobStepShape DEF ClientInvariant
<1>2. /\ job' = job
      /\ \A k \in Jobs : pc[k] \in {"streaming", "flushing"} => path[k] = job[k].range
      /\ \A k \in Jobs \ {j} : pc'[k] = pc[k]
      /\ path \in [Jobs -> Ranges \union {NoRange}]
  BY <1>1, ShapeFrame, BookTypes DEF ClientInvariant, CarefulInvariant, HandlesAgree
<1>3. CASE Open(j)
  BY <1>2, <1>3 DEF Open, HandlesAgree
<1>4. CASE \E from, to : path' = HandlesRenamed(from, to) /\ (Move(j) \/ InterruptMoving(j))
  <2>1. pc[j] = "moving" /\ Live(j) /\ job[j].kind = "succession" /\ pc'[j] = "done"
    BY <1>4, PlaceKinds, BookTypes DEF ClientInvariant, Move, InterruptMoving, Live
  <2>2. CASE path' = HandlesRenamed(job[job[j].pred].range, job[j].range)
    <3>1. \A k \in Jobs : pc[k] \in {"streaming", "flushing"} => path'[k] = path[k]
      BY <2>1, <2>2, RenamedHandles
    <3>2. QED
      BY <1>2, <2>1, <3>1 DEF HandlesAgree
  <2>3. CASE path' = path
    BY <1>2, <2>1, <2>3 DEF HandlesAgree
  <2>4. QED
    BY <1>4, <2>2, <2>3 DEF Move, InterruptMoving
<1>5. CASE path' = path /\ (pc'[j] \in {"streaming", "flushing"} => pc[j] \in {"streaming", "flushing"})
  BY <1>2, <1>5 DEF HandlesAgree
<1>6. CASE path' = [path EXCEPT ![j] = NoRange] /\ pc'[j] = "done"
  BY <1>2, <1>6 DEF HandlesAgree
<1>7. ASSUME NEW s, NEW outcome, Finish(j, s, outcome) PROVE HandlesAgree'
  BY <1>2, <1>6, <1>7, BookTypes DEF ClientInvariant, Finish
<1>8. CASE StartDownload(j) \/ Drop(j)
  BY <1>2, <1>5, <1>8, BookTypes DEF ClientInvariant, StartDownload, Drop
<1>9. CASE OpenFails(j) \/ InterruptOpening(j) \/ InterruptFlushing(j) \/ Flush(j) \/ FlushFails(j)
  BY <1>7, <1>9 DEF OpenFails, InterruptOpening, InterruptFlushing, Flush, FlushFails
<1>10. CASE \/ \E n \in 1..SourceSize : Receive(j, n) \/ LoseWrite(j, n)
            \/ \E outcome \in {"none", "error"} : EndStream(j, outcome)
            \/ InterruptStreaming(j)
  BY <1>5, <1>10 DEF Receive, LoseWrite, EndStream, InterruptStreaming
<1>11. CASE StartSuccession(j) \/ Resume(j) \/ CheckCrop(j) \/ Crop(j) \/ InterruptAwaiting(j)
  <2>1. \/ \E s, outcome : Finish(j, s, outcome)
        \/ path' = path /\ \E place \in {"awaiting", "cropping", "shifting", "moving", "stopping"} :
                              pc' = [pc EXCEPT ![j] = place]
    BY <1>11 DEF StartSuccession, Resume, CheckCrop, Crop, InterruptAwaiting, Decide, GiveUp
  <2>2. CASE path' = path /\ \E place \in {"awaiting", "cropping", "shifting", "moving", "stopping"} :
                                pc' = [pc EXCEPT ![j] = place]
    BY <1>5, <2>2, BookTypes DEF ClientInvariant
  <2>3. QED
    BY <1>7, <2>1, <2>2
<1>12. CASE CropFails(j) \/ MoveFails(j) \/ InterruptCropping(j) \/ Stopped(j)
  BY <1>7, <1>12 DEF CropFails, MoveFails, InterruptCropping, Stopped, GiveUp
<1>13. CASE Move(j) \/ InterruptMoving(j)
  <2>1. path' = path \/ \E from, to : path' = HandlesRenamed(from, to)
    BY <1>13 DEF Move, InterruptMoving
  <2>2. CASE path' = path
    <3>1. pc'[j] = "done"
      BY <1>13, BookTypes DEF ClientInvariant, Move, InterruptMoving
    <3>2. QED
      BY <1>5, <2>2, <3>1
  <2>3. QED
    BY <1>4, <1>13, <2>1, <2>2
<1>14. QED
  BY <1>3, <1>8, <1>9, <1>10, <1>11, <1>12, <1>13 DEF JobStep, WorkerStep, SuccessionStep
(***************************************************************************)
(* The steps of callers that create no job                                 *)
(***************************************************************************)

\* What such a step leaves alone: it takes no entry of a running task or of a
\* predecessor away, cancels only tasks whose end somebody waits for, marks
\* only chunks it cancels, and closes no file that is being written.
ClientFrame(c) ==
    /\ UNCHANGED <<job, pc, exc>>
    /\ \A d \in Callers \ {c} : call'[d] = call[d]
    /\ \A k \in Jobs : cancelling[k] => cancelling'[k]
    /\ \A k \in Jobs : status'[k] = status[k] \/
          /\ status'[k] = "CANCELLED" /\ cancelling'[k] /\ Live(k)
          /\ status[k] \in {"PENDING", "AWAITING_SUCCESSION"}
    /\ \A k \in Jobs : cancelling'[k] =>
          cancelling[k] \/ (pc[k] # "created" /\ job[k].kind = "download") \/ Awaited(k)'
    /\ \A k \in Jobs : Live(k) /\ Awaited(k) => Awaited(k)'
    /\ \A r \in Ranges : tasks'[r] = tasks[r] \/ (tasks'[r] = NoJob /\ ~Live(tasks[r]))
    /\ \A r \in Ranges : \/ stats'[r] = stats[r]
                         \/ /\ stats'[r] = NoJob /\ ~Live(stats[r])
                            /\ \A k \in Jobs : ~Heir(k, r)
    /\ monitor' = monitor \/ (monitor' = "none" /\ tasks' = NoTasks)
    /\ cleaned => cleaned'
    /\ cleaned' => \/ cleaned /\ call[c].at # "gather"
                   \/ call'[c].at = "gather"
                   \/ tasks' = NoTasks /\ monitor' = "none"
    /\ \A k \in Jobs : path'[k] = path[k] \/ pc[k] \notin {"streaming", "flushing"}
    /\ \/ Outside(c)' \/ call'[c].at \in {"wait", "woken"}
       \/ \A d \in Callers \ {c} : call[d].at \notin {"gather", "purge"}
    /\ CallAgrees(c)'

LEMMA FrameFacts ==
    ASSUME ClientInvariant, BookInvariant', NEW c \in Callers, ClientFrame(c)
    PROVE  /\ \A k \in Jobs : Live(k)' <=> Live(k)
           /\ \A k \in Jobs : Done(k)' <=> Done(k)
           /\ \A k \in Jobs : \A r : Heir(k, r)' <=> Heir(k, r)
           /\ \A r \in Ranges : tasks'[r] \in {tasks[r], NoJob} /\ stats'[r] \in {stats[r], NoJob}
           /\ Tracked' \subseteq Tracked /\ StatsJobs' \subseteq StatsJobs
           /\ tasks = NoTasks => tasks' = NoTasks
<1>1. /\ \A k \in Jobs : Live(k)' <=> Live(k)
      /\ \A k \in Jobs : Done(k)' <=> Done(k)
      /\ \A r \in Ranges : tasks'[r] \in {tasks[r], NoJob} /\ stats'[r] \in {stats[r], NoJob}
  BY DEF ClientFrame, Live, Done
<1>2. \A k \in Jobs : \A r : Heir(k, r)' <=> Heir(k, r)
  BY DEF ClientFrame, Heir, Live
<1>3. Tracked' \subseteq Tracked /\ StatsJobs' \subseteq StatsJobs
  BY <1>1 DEF Tracked, StatsJobs
<1>4. tasks = NoTasks => tasks' = NoTasks
  <2>1. tasks' \in [Ranges -> Jobs \union {NoJob}]
    BY DEF BookInvariant, TypeOK
  <2>2. QED
    BY <1>1, <2>1 DEF NoTasks
<1>5. QED
  BY <1>1, <1>2, <1>3, <1>4

LEMMA ClientKeepsKnown ==
    ASSUME ClientInvariant, BookInvariant', NEW c \in Callers, ClientFrame(c)
    PROVE  LiveIsKnown'
<1> SUFFICES ASSUME NEW k \in Jobs, Live(k)
             PROVE  tasks'[job[k].range] = k /\ stats'[job[k].range] = k
  BY FrameFacts DEF LiveIsKnown, ClientFrame
<1>1. job[k].range \in Ranges /\ tasks[job[k].range] = k /\ stats[job[k].range] = k
  BY LiveFacts
<1>2. QED
  BY <1>1 DEF ClientFrame

LEMMA ClientKeepsPlaces ==
    ASSUME ClientInvariant, BookInvariant', NEW c \in Callers, ClientFrame(c)
    PROVE  PlacesAgree'
<1> SUFFICES ASSUME NEW k \in Jobs
             PROVE  /\ pc[k] = "created" /\ job[k].kind = "download"
                          => status'[k] = "PENDING" \/ Marked(k)'
                    /\ pc[k] \in {"opening", "streaming", "flushing"} => status'[k] = "DOWNLOADING"
                    /\ pc[k] = "created" /\ job[k].kind = "succession"
                          => status'[k] = "AWAITING_SUCCESSION" \/ Marked(k)'
                    /\ pc[k] \in {"awaiting", "cropping", "shifting", "moving"}
                          => status'[k] = "AWAITING_SUCCESSION" \/ Marked(k)'
                    /\ pc[k] = "stopping" => status'[k] = "CANCELLED"
                    /\ Done(k) => status'[k] \in Ended /\ (status'[k] = "ERROR" => exc[k] \in {"refused", "error"})
  BY DEF PlacesAgree, ClientFrame, Done
<1>1. /\ pc[k] = "created" /\ job[k].kind = "download" => status[k] = "PENDING" \/ Marked(k)
      /\ pc[k] \in {"opening", "streaming", "flushing"} => status[k] = "DOWNLOADING"
      /\ pc[k] = "created" /\ job[k].kind = "succession"
            => status[k] = "AWAITING_SUCCESSION" \/ Marked(k)
      /\ pc[k] \in {"awaiting", "cropping", "shifting", "moving"}
            => status[k] = "AWAITING_SUCCESSION" \/ Marked(k)
      /\ pc[k] = "stopping" => status[k] = "CANCELLED"
      /\ Done(k) => status[k] \in Ended /\ (status[k] = "ERROR" => exc[k] \in {"refused", "error"})
  BY DEF ClientInvariant, CarefulInvariant, PlacesAgree
<1>2. CASE status'[k] = status[k]
  <2>1. Marked(k) => Marked(k)'
    BY <1>2 DEF Marked, ClientFrame
  <2>2. QED
    BY <1>1, <1>2, <2>1
<1>3. CASE status'[k] = "CANCELLED" /\ cancelling'[k] /\ Live(k)
           /\ status[k] \in {"PENDING", "AWAITING_SUCCESSION"}
  BY <1>1, <1>3 DEF Marked, Live, Done
<1>4. QED
  BY <1>2, <1>3 DEF ClientFrame

LEMMA ClientKeepsCancellations ==
    ASSUME ClientInvariant, BookInvariant', NEW c \in Callers, ClientFrame(c)
    PROVE  CancellationsAwaited'
<1> SUFFICES ASSUME NEW k \in Jobs,
                    \/ Live(k) /\ job[k].kind = "succession" /\ (cancelling'[k] \/ pc[k] = "stopping")
                    \/ pc[k] = "created" /\ cancelling'[k]
             PROVE  Awaited(k)'
  BY DEF CancellationsAwaited, ClientFrame, Live
<1>1. Live(k) /\ (pc[k] = "created" \/ job[k].kind # "download")
  BY DEF Live
<1>2. CASE cancelling'[k] /\ ~cancelling[k]
  BY <1>1, <1>2 DEF ClientFrame
<1>3. CASE cancelling'[k] => cancelling[k]
  <2>1. Awaited(k)
    BY <1>3 DEF ClientInvariant, CarefulInvariant, CancellationsAwaited
  <2>2. QED
    BY <1>1, <2>1 DEF ClientFrame
<1>4. QED
  BY <1>2, <1>3

LEMMA ClientKeepsPredecessors ==
    ASSUME ClientInvariant, BookInvariant', NEW c \in Callers, ClientFrame(c)
    PROVE  PredecessorsKept'
<1> SUFFICES ASSUME NEW k \in Jobs, job[k].kind = "succession"
             PROVE  LET p == job[k].pred IN
                    /\ Live(k) => stats'[job[p].range] = p
                    /\ pc[k] \in {"cropping", "shifting", "moving"} => Done(p) /\ status'[p] # "ERROR"
                    /\ job[k].awaits = NoJob => Done(p) /\ status'[p] \in {"COMPLETED", "DEPRECATED"}
                    /\ \A i \in Jobs : job[i].kind = "succession" /\ job[i].pred = p => i = k
  BY DEF PredecessorsKept, ClientFrame, Live, Done
<1> DEFINE p == job[k].pred
<1>1. /\ p \in Jobs /\ job[p].range \in Ranges
      /\ Live(k) => stats[job[p].range] = p
      /\ pc[k] \in {"cropping", "shifting", "moving"} => Done(p) /\ status[p] # "ERROR"
      /\ job[k].awaits = NoJob => Done(p) /\ status[p] \in {"COMPLETED", "DEPRECATED"}
      /\ \A i \in Jobs : job[i].kind = "succession" /\ job[i].pred = p => i = k
  BY PredFacts
<1>2. Done(p) => status'[p] = status[p]
  BY <1>1 DEF ClientFrame, Live, Done
<1>3. Live(k) => stats'[job[p].range] = stats[job[p].range]
  BY <1>1 DEF ClientFrame, Heir
<1>4. QED
  BY <1>1, <1>2, <1>3

LEMMA ClientKeepsCalls ==
    ASSUME ClientInvariant, BookInvariant', NEW c \in Callers, ClientFrame(c)
    PROVE  CallsAgree'
<1>1. ASSUME NEW d \in Callers, d # c PROVE CallAgrees(d)'
  <2>1. CallAgrees(d) /\ call'[d] = call[d]
    BY <1>1 DEF ClientInvariant, CarefulInvariant, CallsAgree, ClientFrame
  <2>2. /\ \A r \in Ranges : tasks'[r] \in {tasks[r], NoJob} /\ stats'[r] \in {stats[r], NoJob}
        /\ Tracked' \subseteq Tracked
        /\ tasks = NoTasks => tasks' = NoTasks
        /\ UNCHANGED <<job, pc>>
        /\ cleaned => cleaned'
    BY FrameFacts DEF ClientFrame
  <2>3. CASE call[d].at \in {"init", "join"}
    <3>1. call[d].op = "delete" => \A k \in Jobs : ~Heir(k, call[d].range)
      BY <2>1, <2>3 DEF CallAgrees
    <3>2. call'[d].op = "delete" => \A k \in Jobs : ~Heir(k, call[d].range)'
      BY <2>1, <3>1, FrameFacts
    <3>3. QED
      BY <2>1, <2>2, <2>3, <3>2 DEF CallAgrees
  <2>4. CASE call[d].at = "unlink"
    <3>1. tasks \in [Ranges -> Jobs \union {NoJob}]
      BY BookTypes DEF ClientInvariant
    <3>2. QED
      BY <2>1, <2>2, <2>4, <3>1 DEF CallAgrees, Done
  <2>5. CASE call[d].at \in {"gather", "purge"}
    <3>1. Outside(c)' \/ call'[c].at \in {"wait", "woken"}
      BY <1>1, <2>5 DEF ClientFrame
    <3>2. \A e \in Callers \ {c} : Outside(e) => Outside(e)'
      BY DEF ClientFrame, Outside
    <3>3. \A e \in Callers \ {d} : Outside(e)' \/ call'[e].at \in {"wait", "woken"}
      BY <2>1, <2>5, <3>1, <3>2 DEF CallAgrees, ClientFrame
    <3>4. QED
      BY <2>1, <2>2, <2>5, <3>3 DEF CallAgrees
  <2>6. CASE call[d].at \notin {"init", "join", "unlink", "gather", "purge"}
    BY <2>1, <2>6 DEF CallAgrees
  <2>7. QED
    BY <2>3, <2>4, <2>5, <2>6
<1>2. QED
  BY <1>1 DEF CallsAgree, ClientFrame

LEMMA ClientKeepsRest ==
    ASSUME ClientInvariant, BookInvariant', NEW c \in Callers, ClientFrame(c)
    PROVE  CleanupAgrees' /\ HandlesAgree' /\ DownloadsAreMonitored'
<1>1. CleanupAgrees'
  <2>1. CASE cleaned /\ call[c].at # "gather" /\ cleaned'
    <3>1. (\E d \in Callers : call[d].at = "gather") \/ (tasks = NoTasks /\ monitor # "running")
      BY <2>1 DEF ClientInvariant, CarefulInvariant, CleanupAgrees
    <3>2. CASE \E d \in Callers : call[d].at = "gather"
      BY <2>1, <3>2 DEF ClientFrame, CleanupAgrees
    <3>3. CASE tasks = NoTasks /\ monitor # "running"
      BY <3>3, FrameFacts DEF ClientFrame, CleanupAgrees
    <3>4. QED
      BY <3>1, <3>2, <3>3
  <2>2. CASE ~cleaned' \/ call'[c].at = "gather" \/ (tasks' = NoTasks /\ monitor' = "none")
    BY <2>2 DEF CleanupAgrees
  <2>3. QED
    BY <2>1, <2>2 DEF ClientFrame
<1>2. HandlesAgree'
  BY DEF ClientInvariant, CarefulInvariant, HandlesAgree, ClientFrame, Live
<1>3. DownloadsAreMonitored'
  <2> SUFFICES ASSUME NEW j \in StatsJobs', status'[j] \in {"PENDING", "DOWNLOADING"}
               PROVE  monitor' = "running"
    BY DEF DownloadsAreMonitored
  <2>1. j \in StatsJobs /\ j \in Jobs
    BY FrameFacts, BookTypes DEF ClientInvariant, StatsJobs
  <2>2. status'[j] = status[j]
    BY <2>1 DEF ClientFrame
  <2>3. monitor = "running"
    BY <2>1, <2>2 DEF ClientInvariant, CarefulInvariant, DownloadsAreMonitored
  <2>4. Live(j)
    <3>1. status[j] \notin Ended
      BY <2>2 DEF Ended
    <3>2. pc[j] # "free"
      BY <2>1, JobNumbers DEF StatsJobs, ClientInvariant, BookInvariant, BooksAgree
    <3>3. QED
      BY <2>1, <3>1, <3>2, PlaceStatus DEF Live, Done
  <2>5. tasks' # NoTasks
    <3>1. job[j].range \in Ranges /\ tasks[job[j].range] = j /\ j # NoJob
      BY <2>1, <2>4, LiveFacts, JobNumbers
    <3>2. tasks'[job[j].range] = j
      BY <2>4, <3>1 DEF ClientFrame
    <3>3. QED
      BY <3>1, <3>2 DEF NoTasks
  <2>6. QED
    BY <2>3, <2>5 DEF ClientFrame
<1>4. QED
  BY <1>1, <1>2, <1>3

LEMMA FrameKeepsCareful ==
    ASSUME ClientInvariant, BookInvariant', NEW c \in Callers, ClientFrame(c)
    PROVE  CarefulInvariant'
BY ClientKeepsKnown, ClientKeepsPlaces, ClientKeepsCancellations, ClientKeepsPredecessors,
   ClientKeepsCalls, ClientKeepsRest DEF CarefulInvariant
\* Where a caller stands after its step.
LEMMA ReturnFacts ==
    ASSUME BookInvariant, NEW c \in Callers, Return(c) \/ Raise(c)
    PROVE  /\ call'[c].at \in {"idle", "raised"} /\ Outside(c)'
           /\ \A d \in Callers \ {c} : call'[d] = call[d]
           /\ CallAgrees(c)'
<1>1. /\ call'[c].at \in {"idle", "raised"}
      /\ \A d \in Callers \ {c} : call'[d] = call[d]
  BY BookTypes DEF Return, Raise, Idle, Raised
<1>2. QED
  BY <1>1 DEF CallAgrees, Outside

LEMMA SuspendFacts ==
    ASSUME BookInvariant, NEW c \in Callers, NEW op, NEW at, NEW range, NEW jobs, NEW files,
           call' = [call EXCEPT ![c] =
              [op |-> op, at |-> at, range |-> range, jobs |-> jobs, files |-> files]]
    PROVE  /\ call'[c].op = op /\ call'[c].at = at /\ call'[c].range = range
           /\ call'[c].jobs = jobs /\ call'[c].files = files
           /\ \A d \in Callers \ {c} : call'[d] = call[d]
BY BookTypes

\* Nobody who waits for a running task is lost when a caller moves on that
\* waited for none.
LEMMA AwaitedKept ==
    ASSUME NEW c \in Callers, job' = job, \A d \in Callers \ {c} : call'[d] = call[d],
           call[c].at \in {"join", "gather"} => \A j \in call[c].jobs : Done(j),
           NEW k \in Jobs, Live(k), Awaited(k)
    PROVE  Awaited(k)'
<1>1. PICK d \in Callers : /\ call[d].at \in {"join", "gather"}
                           /\ k \in call[d].jobs
                           /\ call[d].at = "join" => call[d].range = job[k].range
  BY DEF Awaited
<1>2. d # c
  BY <1>1 DEF Live, Done
<1>3. call'[d] = call[d]
  BY <1>2
<1>4. QED
  BY <1>1, <1>3 DEF Awaited

\* A step that only changes where the caller stands, for a place of no promise.
LEMMA QuietFrame ==
    ASSUME ClientInvariant, NEW c \in Callers,
           UNCHANGED <<job, pc, exc, cancelling, status, tasks, stats, monitor, cleaned>>,
           \A k \in Jobs : path'[k] = path[k] \/ pc[k] \notin {"streaming", "flushing"},
           \A d \in Callers \ {c} : call'[d] = call[d],
           call[c].at \notin {"join", "gather"},
           call'[c].at \in {"idle", "raised", "wait", "woken"}
    PROVE  ClientFrame(c)
<1>1. CallAgrees(c)' /\ (Outside(c)' \/ call'[c].at \in {"wait", "woken"})
  BY DEF CallAgrees, Outside
<1>2. \A k \in Jobs : Live(k) /\ Awaited(k) => Awaited(k)'
  BY AwaitedKept
<1>3. QED
  BY <1>1, <1>2 DEF ClientFrame

LEMMA WaitFrame ==
    ASSUME ClientInvariant, NEW c \in Callers,
           WakeUp(c) \/ \E op \in Operations : WaitBegin(c, op)
    PROVE  ClientFrame(c)
<1>1. /\ UNCHANGED <<job, pc, exc, cancelling, status, tasks, stats, monitor, cleaned, path>>
      /\ call[c].at \notin {"join", "gather"}
  BY DEF WakeUp, WaitBegin, Outside, taskVars, statVars, bookVars
<1>2. call'[c].at \in {"wait", "woken"} /\ \A d \in Callers \ {c} : call'[d] = call[d]
  <2>1. call \in [Callers -> CallRecord]
    BY BookTypes DEF ClientInvariant
  <2>2. CASE WakeUp(c)
    BY <2>1, <2>2 DEF WakeUp, CallRecord
  <2>3. ASSUME NEW op, WaitBegin(c, op)
        PROVE  call'[c].at = "wait" /\ \A d \in Callers \ {c} : call'[d] = call[d]
    BY <2>1, <2>3 DEF WaitBegin, Suspend
  <2>4. QED
    BY <2>2, <2>3
<1>3. QED
  BY <1>1, <1>2, QuietFrame

\* No worker writes the file of a range the stats have forgotten.
LEMMA UnlinkFrame ==
    ASSUME ClientInvariant, NEW c \in Callers, Unlink(c)
    PROVE  ClientFrame(c)
<1> DEFINE r == call[c].range
<1>1. /\ UNCHANGED <<job, pc, exc, cancelling, status, tasks, stats, monitor, cleaned>>
      /\ call[c].at = "unlink" /\ Return(c)
  BY DEF Unlink, statVars, bookVars
<1>2. r \in Ranges /\ stats[r] = NoJob
  BY <1>1 DEF ClientInvariant, CarefulInvariant, CallsAgree, CallAgrees
<1>3. ASSUME NEW k \in Jobs, pc[k] \in {"streaming", "flushing"} PROVE path'[k] = path[k]
  <2>1. path[k] = job[k].range /\ Live(k)
    BY <1>3 DEF ClientInvariant, CarefulInvariant, HandlesAgree, Live
  <2>2. job[k].range # r
    BY <1>2, <2>1, LiveFacts, JobNumbers
  <2>3. QED
    BY <2>1, <2>2 DEF Unlink, Unlinked
<1>4. QED
  BY <1>1, <1>3, QuietFrame, ReturnFacts DEF ClientInvariant
\* A wait takes only tasks that are done out of the dictionary.
LEMMA WaitEndFrame ==
    ASSUME ClientInvariant, NEW c \in Callers, WaitEnd(c)
    PROVE  ClientFrame(c)
<1>1. /\ UNCHANGED <<job, pc, exc, cancelling, status, stats, path, cleaned>>
      /\ call[c].at = "woken" /\ (Return(c) \/ Raise(c))
  BY DEF WaitEnd, taskVars, statVars, bookVars
<1>2. /\ Outside(c)' /\ CallAgrees(c)' /\ \A d \in Callers \ {c} : call'[d] = call[d]
  BY <1>1, ReturnFacts DEF ClientInvariant
<1>3. \A r \in Ranges : tasks'[r] = tasks[r] \/ (tasks'[r] = NoJob /\ ~Live(tasks[r]))
  BY DEF WaitEnd, Collected, bookVars, Done, Live
<1>4. monitor' = monitor \/ (monitor' = "none" /\ tasks' = NoTasks)
  BY DEF WaitEnd, CheckStopMonitor, bookVars
<1>5. \A k \in Jobs : Live(k) /\ Awaited(k) => Awaited(k)'
  BY <1>1, <1>2, AwaitedKept
<1>6. QED
  BY <1>1, <1>2, <1>3, <1>4, <1>5 DEF ClientFrame

\* What a caller that cancels one chunk finds there, at its start and later.
LEMMA JoinFacts ==
    ASSUME ClientInvariant, NEW c \in Callers, call[c].at \in {"init", "join"}
    PROVE  /\ call[c].range \in Ranges
           /\ call[c].op = "delete" => \A k \in Jobs : ~Heir(k, call[c].range)
           /\ \E j \in Jobs : /\ call[c].jobs = {j} /\ pc[j] # "free"
                              /\ job[j].range = call[c].range
                              /\ tasks[call[c].range] \in {NoJob, j}
BY DEF ClientInvariant, CarefulInvariant, CallsAgree, CallAgrees

\* cancel_chunk cancels the task it then waits for.
LEMMA CancelOneFrame ==
    ASSUME ClientInvariant, BookInvariant', NEW c \in Callers, NEW j \in Jobs, NEW r \in Ranges,
           pc[j] # "free", job[j].range = r, tasks[r] \in {NoJob, j},
           UNCHANGED <<job, pc, exc, status, path, bookVars, cleaned>>,
           \A d \in Callers \ {c} : call'[d] = call[d],
           call[c].at \notin {"join", "gather"},
           call'[c].jobs = {j}, call'[c].range = r,
           call'[c].op = "delete" => \A k \in Jobs : ~Heir(k, r),
           \/ call'[c].at = "join" /\ cancelling' = CancelledBy({j})
           \/ call'[c].at = "init" /\ cancelling' = cancelling,
           \A d \in Callers \ {c} : call[d].at \notin {"gather", "purge"}
    PROVE  ClientFrame(c)
<1>1. CallAgrees(c)'
  <2>1. \A k \in Jobs : Heir(k, r)' <=> Heir(k, r)
    BY DEF Heir, Live
  <2>2. call'[c].op = "delete" => \A k \in Jobs : ~Heir(k, call[c].range)'
    BY <2>1 DEF bookVars
  <2>3. QED
    BY <2>2 DEF CallAgrees, bookVars
<1>2. \A k \in Jobs : cancelling[k] => cancelling'[k]
  BY StillCancelled DEF ClientInvariant
<1>3. \A k \in Jobs : cancelling'[k] =>
          cancelling[k] \/ (pc[k] # "created" /\ job[k].kind = "download") \/ Awaited(k)'
  <2>1. CASE cancelling' = cancelling
    BY <2>1
  <2>2. CASE call'[c].at = "join" /\ cancelling' = CancelledBy({j})
    <3>1. Awaited(j)'
      BY <2>2 DEF Awaited
    <3>2. \A k \in Jobs : cancelling'[k] /\ ~cancelling[k] =>
              k = j \/ (pc[k] # "created" /\ job[k].kind = "download")
      BY <2>2, NewlyCancelled DEF ClientInvariant
    <3>3. QED
      BY <3>1, <3>2
  <2>3. QED
    BY <2>1, <2>2
<1>4. \A k \in Jobs : Live(k) /\ Awaited(k) => Awaited(k)'
  BY AwaitedKept
<1>5. QED
  BY <1>1, <1>2, <1>3, <1>4 DEF ClientFrame, bookVars
LEMMA CancelInitiatedFrame ==
    ASSUME ClientInvariant, BookInvariant', NEW c \in Callers, CancelInitiated(c)
    PROVE  ClientFrame(c)
<1> DEFINE r == call[c].range
<1>1. /\ UNCHANGED <<job, pc, exc, status, path, bookVars, cleaned>>
      /\ call[c].at = "init" /\ cancelling' = CancelledBy(call[c].jobs)
      /\ call' = [call EXCEPT ![c].at = "join"]
  BY DEF CancelInitiated, statVars
<1>2. PICK j \in Jobs : /\ call[c].jobs = {j} /\ pc[j] # "free"
                        /\ job[j].range = r /\ tasks[r] \in {NoJob, j}
  BY <1>1, JoinFacts
<1>3. r \in Ranges /\ (call[c].op = "delete" => \A k \in Jobs : ~Heir(k, r))
  BY <1>1, JoinFacts
<1>4. /\ call'[c].at = "join" /\ call'[c].jobs = {j} /\ call'[c].range = r
      /\ call'[c].op = call[c].op
      /\ \A d \in Callers \ {c} : call'[d] = call[d]
  BY <1>1, <1>2, BookTypes DEF ClientInvariant, CallRecord
<1>5. \A d \in Callers \ {c} : call[d].at \notin {"gather", "purge"}
  BY <1>1 DEF ClientInvariant, CarefulInvariant, CallsAgree, CallAgrees, Outside
<1>6. QED
  BY <1>1, <1>2, <1>3, <1>4, <1>5, CancelOneFrame

\* The entry of the stats is popped when nothing runs for the range and no
\* running succession inherits from it.
LEMMA PopFrame ==
    ASSUME ClientInvariant, BookInvariant', NEW c \in Callers, NEW r \in Ranges, PopStats(c, r),
           UNCHANGED <<job, pc, exc, cancelling, status, path, cleaned>>,
           call[c].at \in {"join", "gather"} => \A j \in call[c].jobs : Done(j),
           call[c].at # "gather",
           \A k \in Jobs : ~Heir(k, r),
           tasks[r] # NoJob => Done(tasks[r]),
           \A q \in Ranges : tasks'[q] = tasks[q] \/ (tasks'[q] = NoJob /\ ~Live(tasks[q])),
           monitor' = monitor \/ (monitor' = "none" /\ tasks' = NoTasks),
           \A d \in Callers \ {c} : call[d].at \notin {"gather", "purge"}
    PROVE  ClientFrame(c)
<1>1. /\ \A q \in Ranges \ {r} : stats'[q] = stats[q]
      /\ stats'[r] = NoJob
  BY BookTypes DEF ClientInvariant, PopStats
<1>2. stats'[r] = stats[r] \/ ~Live(stats[r])
  <2>1. CASE stats[r] # NoJob
    <3>1. stats[r] \in Jobs /\ job[stats[r]].range = r
      BY <2>1, BookTypes DEF ClientInvariant, BookInvariant, BooksAgree
    <3>2. QED
      BY <3>1, NothingRuns
  <2>2. QED
    BY <1>1, <2>1
<1>3. CallAgrees(c)' /\ \A d \in Callers \ {c} : call'[d] = call[d]
  <2>1. CASE Return(c)
    BY <2>1, ReturnFacts DEF ClientInvariant
  <2>2. CASE Suspend(c, "delete", "unlink", r, {}, {})
    <3>1. /\ call'[c].at = "unlink" /\ call'[c].range = r
          /\ \A d \in Callers \ {c} : call'[d] = call[d]
      BY <2>2, BookTypes DEF ClientInvariant, Suspend
    <3>2. tasks'[r] # NoJob => Done(tasks[r]) /\ tasks'[r] = tasks[r]
      OBVIOUS
    <3>3. QED
      BY <1>1, <3>1, <3>2 DEF CallAgrees, Done
  <2>3. QED
    BY <2>1, <2>2 DEF PopStats
<1>4. \A k \in Jobs : Live(k) /\ Awaited(k) => Awaited(k)'
  BY <1>3, AwaitedKept
<1>5. QED
  BY <1>1, <1>2, <1>3, <1>4 DEF ClientFrame

LEMMA CancelOrDeleteFrame ==
    ASSUME CarefulClients, ClientInvariant, BookInvariant', NEW c \in Callers, NEW op,
           NEW r \in Ranges, CancelOrDelete(c, op, r)
    PROVE  ClientFrame(c)
<1>1. /\ UNCHANGED <<job, pc, exc, status, path, tasks, monitor, cleaned>>
      /\ Outside(c) /\ call[c].at \notin {"join", "gather"}
      /\ op \in {"cancel", "delete"}
  BY DEF CancelOrDelete, Outside, statVars
<1>2. ~ShuttingDown /\ (op = "delete" => MayTouch(r))
  BY DEF CancelOrDelete, MayDelete, MayTouch, MayCall, CarefulClients
<1>3. \A d \in Callers : call[d].at \notin {"gather", "purge"}
  BY <1>2 DEF ShuttingDown
<1>4. op = "delete" => \A k \in Jobs : ~Heir(k, r)
  BY <1>2, TouchFacts, HeirFacts
<1>5. CASE Raise(c) /\ UNCHANGED <<stats, cancelling>>
  BY <1>1, <1>5, ReturnFacts, QuietFrame DEF ClientInvariant
<1>6. CASE /\ tasks[r] # NoJob /\ stats' = stats
           /\ \/ cancelling' = CancelledBy({tasks[r]}) /\ Suspend(c, op, "join", r, {tasks[r]}, {})
              \/ cancelling' = cancelling /\ Suspend(c, op, "init", r, {tasks[r]}, {})
  <2>1. PICK j \in Jobs : j = tasks[r] /\ pc[j] # "free" /\ job[j].range = r
    BY <1>6, BookTypes DEF ClientInvariant, BookInvariant, BooksAgree
  <2>2. /\ call'[c].op = op /\ call'[c].jobs = {j} /\ call'[c].range = r
        /\ \A d \in Callers \ {c} : call'[d] = call[d]
        /\ \/ call'[c].at = "join" /\ cancelling' = CancelledBy({j})
           \/ call'[c].at = "init" /\ cancelling' = cancelling
    BY <1>6, <2>1, SuspendFacts DEF ClientInvariant, Suspend
  <2>3. bookVars' = bookVars
    BY <1>1, <1>6 DEF bookVars
  <2>4. QED
    BY <1>1, <1>3, <1>4, <2>1, <2>2, <2>3, CancelOneFrame
<1>7. CASE /\ op = "delete" /\ PopStats(c, r) /\ cancelling' = cancelling
           /\ tasks[r] # NoJob => stats[r] # NoJob /\ status[stats[r]] \notin Cancellable
  <2>1. ASSUME tasks[r] # NoJob PROVE Done(tasks[r])
    <3>1. /\ tasks[r] \in Jobs /\ stats[r] = tasks[r] /\ pc[tasks[r]] # "free"
          /\ job[tasks[r]].range = r
      BY <1>7, <2>1, BookTypes DEF ClientInvariant, BookInvariant, BooksAgree
    <3>2. ASSUME Live(tasks[r]) PROVE FALSE
      <4>1. status[tasks[r]] \in {"CANCELLED", "AWAITING_SUCCESSION", "PENDING", "DOWNLOADING"}
        <5>1. pc[tasks[r]] \in Place
          BY <3>1, BookTypes DEF ClientInvariant
        <5>2. QED
          BY <3>1, <3>2, <5>1, PlaceStatus, PlaceKinds DEF ClientInvariant, Place, Live, Marked, Done
      <4>2. status[tasks[r]] = "CANCELLED"
        BY <1>7, <2>1, <3>1, <4>1 DEF Cancellable
      <4>3. Awaited(tasks[r])
        BY <3>1, <3>2, <4>2, CancelledIsAwaited
      <4>4. Busy(r) \/ ShuttingDown
        BY <3>1, <4>3, AwaitedIsBusy
      <4>5. QED
        BY <1>2, <1>7, <4>4, TouchFacts
    <3>3. QED
      BY <3>1, <3>2 DEF Live, Done
  <2>2. QED
    BY <1>1, <1>3, <1>4, <1>7, <2>1, PopFrame
<1>8. QED
  BY <1>5, <1>6, <1>7 DEF CancelOrDelete

LEMMA CancelJoinedFrame ==
    ASSUME ClientInvariant, BookInvariant', NEW c \in Callers, CancelJoined(c)
    PROVE  ClientFrame(c)
<1> DEFINE r == call[c].range
<1>1. /\ UNCHANGED <<job, pc, exc, cancelling, status, path, cleaned>>
      /\ call[c].at = "join" /\ \A j \in call[c].jobs : Done(j)
  BY DEF CancelJoined, taskVars, statVars
<1>2. r \in Ranges /\ (call[c].op = "delete" => \A k \in Jobs : ~Heir(k, r))
  BY <1>1, JoinFacts
<1>3. tasks[r] # NoJob => Done(tasks[r])
  BY <1>1, JoinFacts
<1>4. \A d \in Callers \ {c} : call[d].at \notin {"gather", "purge"}
  BY <1>1 DEF ClientInvariant, CarefulInvariant, CallsAgree, CallAgrees, Outside
<1>5. /\ \A q \in Ranges : tasks'[q] = tasks[q] \/ (tasks'[q] = NoJob /\ ~Live(tasks[q]))
      /\ monitor' = monitor \/ (monitor' = "none" /\ tasks' = NoTasks)
  <2>1. CASE bookVars' = bookVars
    BY <2>1 DEF bookVars
  <2>2. CASE /\ tasks[r] # NoJob /\ tasks' = [tasks EXCEPT ![r] = NoJob]
             /\ CheckStopMonitor(tasks')
    <3>1. \A q \in Ranges : tasks'[q] = tasks[q] \/ (q = r /\ tasks'[q] = NoJob)
      BY <2>2, BookTypes DEF ClientInvariant
    <3>2. ~Live(tasks[r])
      BY <1>3, <2>2 DEF Live, Done
    <3>3. QED
      BY <2>2, <3>1, <3>2 DEF CheckStopMonitor
  <2>3. QED
    BY <2>1, <2>2 DEF CancelJoined
<1>6. CASE call[c].op = "delete" /\ PopStats(c, r)
  BY <1>1, <1>2, <1>3, <1>4, <1>5, <1>6, PopFrame
<1>7. CASE (Return(c) \/ Raise(c)) /\ stats' = stats
  <2>1. /\ Outside(c)' /\ CallAgrees(c)' /\ \A d \in Callers \ {c} : call'[d] = call[d]
    BY <1>7, ReturnFacts DEF ClientInvariant
  <2>2. \A k \in Jobs : Live(k) /\ Awaited(k) => Awaited(k)'
    BY <1>1, <2>1, AwaitedKept
  <2>3. QED
    BY <1>1, <1>5, <1>7, <2>1, <2>2 DEF ClientFrame
<1>8. QED
  BY <1>6, <1>7 DEF CancelJoined, bookVars
\* cancel_all_chunks ends when none of its tasks runs, and no other caller is
\* anywhere but in a wait: all entries go.
LEMMA ForgetFrame ==
    ASSUME ClientInvariant, BookInvariant', NEW c \in Callers, NEW op, ForgetAll(c, op),
           UNCHANGED <<job, pc, exc, path>>,
           \A k \in Jobs : cancelling[k] => cancelling'[k],
           \A k \in Jobs : cancelling'[k] => cancelling[k],
           \A k \in Jobs : status'[k] = status[k],
           cleaned => cleaned', op # "cancelAll" => cleaned',
           \A k \in Jobs : ~Live(k),
           \A d \in Callers \ {c} : Outside(d) \/ call[d].at \in {"wait", "woken"}
    PROVE  ClientFrame(c)
<1>1. tasks' = NoTasks /\ monitor' = "none"
  BY DEF ForgetAll, CheckStopMonitor
<1>2. \A r \in Ranges : \/ stats'[r] = stats[r]
                        \/ stats'[r] = NoJob /\ ~Live(stats[r])
  <2>1. \A r \in Ranges : stats[r] # NoJob => ~Live(stats[r])
    BY BookTypes DEF ClientInvariant
  <2>2. stats' = NoTasks \/ stats' = stats
    BY DEF ForgetAll
  <2>3. QED
    BY <2>1, <2>2 DEF NoTasks
<1>3. \A r \in Ranges : tasks'[r] = tasks[r] \/ (tasks'[r] = NoJob /\ ~Live(tasks[r]))
  <2>1. \A r \in Ranges : tasks[r] # NoJob => ~Live(tasks[r])
    BY BookTypes DEF ClientInvariant
  <2>2. QED
    BY <1>1, <2>1 DEF NoTasks
<1>4. CallAgrees(c)' /\ \A d \in Callers \ {c} : call'[d] = call[d]
  <2>1. CASE Return(c)
    BY <2>1, ReturnFacts DEF ClientInvariant
  <2>2. CASE op = "cleanup" /\ \E files : Suspend(c, op, "purge", NoRange, {}, files)
    <3>1. call'[c].at = "purge" /\ call'[c].op = op /\ \A d \in Callers \ {c} : call'[d] = call[d]
      BY <2>2, BookTypes DEF ClientInvariant, Suspend
    <3>2. \A d \in Callers \ {c} : Outside(d)' \/ call'[d].at \in {"wait", "woken"}
      BY <3>1 DEF Outside
    <3>3. QED
      BY <1>1, <2>2, <3>1, <3>2 DEF CallAgrees
  <2>3. QED
    BY <2>1, <2>2 DEF ForgetAll
<1>5. \A d \in Callers \ {c} : call[d].at \notin {"gather", "purge"}
  BY DEF Outside
<1>6. \A k \in Jobs : \A r : ~Heir(k, r)
  BY DEF Heir
<1>7. QED
  BY <1>1, <1>2, <1>3, <1>4, <1>5, <1>6 DEF ClientFrame
\* With no entry in the tasks nothing runs.
LEMMA NoTasksNoLive ==
    ASSUME ClientInvariant, tasks = NoTasks, NEW k \in Jobs
    PROVE  ~Live(k)
BY LiveFacts, JobNumbers DEF NoTasks

LEMMA GatherEndFrame ==
    ASSUME ClientInvariant, BookInvariant', NEW c \in Callers, GatherEnd(c)
    PROVE  ClientFrame(c)
<1>1. /\ UNCHANGED <<job, pc, exc, path, cancelling, status, cleaned>>
      /\ call[c].at = "gather" /\ \A j \in call[c].jobs : Done(j)
      /\ ForgetAll(c, call[c].op)
  BY DEF GatherEnd, taskVars, statVars
<1>2. /\ \A d \in Callers \ {c} : Outside(d) \/ call[d].at \in {"wait", "woken"}
      /\ call[c].op # "cancelAll" => cleaned
      /\ Tracked \subseteq call[c].jobs
  BY <1>1 DEF ClientInvariant, CarefulInvariant, CallsAgree, CallAgrees
<1>3. \A k \in Jobs : ~Live(k)
  BY <1>1, <1>2, LiveFacts DEF Live, Done
<1>4. QED
  BY <1>1, <1>2, <1>3, ForgetFrame

\* While cleanup deletes the files nothing runs.
LEMMA PurgeFrame ==
    ASSUME ClientInvariant, BookInvariant', NEW c \in Callers, Purge(c)
    PROVE  ClientFrame(c)
<1>1. /\ UNCHANGED <<job, pc, cancelling, exc, status, tasks, monitor, cleaned>>
      /\ call[c].at = "purge" /\ (Return(c) \/ Raise(c))
      /\ stats' = NoTasks \/ stats' = stats
  BY DEF Purge, statVars
<1>2. \A k \in Jobs : ~Live(k)
  BY <1>1, NoTasksNoLive DEF ClientInvariant, CarefulInvariant, CallsAgree, CallAgrees
<1>3. \A k \in Jobs : pc[k] \notin {"streaming", "flushing"}
  BY <1>2 DEF Live
<1>4. /\ \A d \in Callers \ {c} : call'[d] = call[d]
      /\ Outside(c)' /\ CallAgrees(c)'
  BY <1>1, ReturnFacts DEF ClientInvariant
<1>5. \A r \in Ranges : \/ stats'[r] = stats[r]
                        \/ stats'[r] = NoJob /\ ~Live(stats[r])
  <2>1. \A r \in Ranges : stats[r] # NoJob => ~Live(stats[r])
    BY <1>2, BookTypes DEF ClientInvariant
  <2>2. QED
    BY <1>1, <2>1 DEF NoTasks
<1>6. \A k \in Jobs : \A r : ~Heir(k, r)
  BY <1>2 DEF Heir
<1>7. QED
  BY <1>1, <1>2, <1>3, <1>4, <1>5, <1>6 DEF ClientFrame

\* A chunk that cancel_all_chunks marks has a task, which it cancels.
LEMMA MarkedFacts ==
    ASSUME ClientInvariant, NEW k \in Jobs, MarkedCancelled(k)
    PROVE  /\ Live(k) /\ k \in Tracked /\ CancelledBy(Tracked)[k]
           /\ status[k] \in {"PENDING", "AWAITING_SUCCESSION"}
<1>1. PICK r \in Ranges : tasks[r] # NoJob /\ stats[r] = k
  BY DEF MarkedCancelled
<1>2. tasks[r] = k /\ pc[k] # "free"
  BY <1>1, JobNumbers DEF ClientInvariant, BookInvariant, BooksAgree
<1>3. status[k] \in {"PENDING", "AWAITING_SUCCESSION"}
  BY DEF MarkedCancelled
<1>4. Live(k) /\ pc[k] # "stopping"
  <2>1. status[k] \notin Ended
    BY <1>3 DEF Ended
  <2>2. QED
    BY <1>2, <1>3, <2>1, PlaceStatus DEF Live, Done
<1>5. k \in Tracked /\ CancelTarget(k) = k
  BY <1>2, <1>4, JobNumbers DEF Tracked, CancelTarget
<1>6. CancelledBy(Tracked)[k]
  BY <1>4, <1>5 DEF CancelledBy
<1>7. QED
  BY <1>3, <1>4, <1>5, <1>6

LEMMA CancelAllFrame ==
    ASSUME CarefulClients, ClientInvariant, BookInvariant', NEW c \in Callers, NEW op,
           CancelAll(c, op)
    PROVE  ClientFrame(c)
<1>1. /\ UNCHANGED <<job, pc, exc, path>>
      /\ cancelling' = CancelledBy(Tracked)
      /\ status' = [j \in Jobs |-> IF MarkedCancelled(j) THEN "CANCELLED" ELSE status[j]]
      /\ Outside(c) /\ op \in {"cancelAll", "close", "cleanup"}
      /\ IF op = "cancelAll" THEN UNCHANGED cleaned ELSE ~cleaned /\ cleaned' = TRUE
  BY DEF CancelAll
<1>2. ~ShuttingDown /\ \A d \in Callers : Outside(d)
  BY DEF CancelAll, MayShutDown, CarefulClients
<1>3. /\ \A d \in Callers : call[d].at \notin {"gather", "purge", "join"}
      /\ ~cleaned
  BY <1>2 DEF ShuttingDown, Outside
<1>4. /\ \A k \in Jobs : cancelling[k] => cancelling'[k]
      /\ Tracked \in SUBSET Jobs
  BY <1>1, StillCancelled, BookTypes DEF ClientInvariant, Tracked
<1>5. CASE tasks = NoTasks /\ ForgetAll(c, op)
  <2>1. \A k \in Jobs : ~Live(k)
    BY <1>5, NoTasksNoLive
  <2>2. \A k \in Jobs : cancelling'[k] => cancelling[k]
    BY <1>1, <2>1 DEF CancelledBy
  <2>3. \A k \in Jobs : status'[k] = status[k]
    BY <1>1, <2>1, MarkedFacts
  <2>4. QED
    BY <1>1, <1>2, <1>4, <1>5, <2>1, <2>2, <2>3, ForgetFrame
<1>6. CASE Suspend(c, op, "gather", NoRange, Tracked, {}) /\ UNCHANGED bookVars
  <2>1. /\ call'[c].at = "gather" /\ call'[c].jobs = Tracked /\ call'[c].op = op
        /\ \A d \in Callers \ {c} : call'[d] = call[d]
    BY <1>6, BookTypes DEF ClientInvariant, Suspend
  <2>2. \A d \in Callers \ {c} : Outside(d)'
    BY <1>2, <2>1 DEF Outside
  <2>3. Tracked' = Tracked
    BY <1>6 DEF bookVars, Tracked
  <2>4. CallAgrees(c)'
    BY <1>1, <2>1, <2>2, <2>3 DEF CallAgrees
  <2>5. \A k \in Jobs : status'[k] = status[k] \/
          /\ status'[k] = "CANCELLED" /\ cancelling'[k] /\ Live(k)
          /\ status[k] \in {"PENDING", "AWAITING_SUCCESSION"}
    BY <1>1, MarkedFacts
  <2>6. \A k \in Jobs : cancelling'[k] =>
          cancelling[k] \/ (pc[k] # "created" /\ job[k].kind = "download") \/ Awaited(k)'
    <3>1. \A k \in Tracked : Awaited(k)'
      BY <2>1 DEF Awaited
    <3>2. QED
      BY <1>1, <1>4, <3>1, NewlyCancelled DEF ClientInvariant
  <2>7. \A k \in Jobs : ~Awaited(k)
    BY <1>3 DEF Awaited
  <2>8. QED
    BY <1>1, <1>3, <1>4, <1>6, <2>1, <2>4, <2>5, <2>6, <2>7 DEF ClientFrame, bookVars
<1>7. QED
  BY <1>5, <1>6 DEF CancelAll
(***************************************************************************)
(* The steps of callers that create a job                                  *)
(***************************************************************************)

\* What start_chunk and resize_chunk have in common: job j is new, and the only
\* one of its range.
Creates(j, kind, r, pred, awaits) ==
    /\ j \in Jobs /\ r \in Ranges
    /\ pc[j] = "free" /\ pc'[j] = "created" /\ ~cancelling'[j]
    /\ job'[j].kind = kind /\ job'[j].range = r
    /\ job'[j].pred = pred /\ job'[j].awaits = awaits
    /\ \/ kind = "download" /\ status'[j] = "PENDING" /\ monitor' = "running"
       \/ kind = "succession" /\ status'[j] = "AWAITING_SUCCESSION" /\ monitor' = monitor
    /\ \A k \in Jobs \ {j} : job'[k] = job[k] /\ pc'[k] = pc[k] /\ status'[k] = status[k]
    /\ stats'[r] = j /\ tasks'[r] = j
    /\ \A q \in Ranges \ {r} : stats'[q] = stats[q] /\ tasks'[q] = tasks[q]
    /\ UNCHANGED <<exc, path, call, cleaned>>
    /\ \A k \in Jobs : cancelling[k] => cancelling'[k]
    /\ \A k \in Jobs : cancelling'[k] =>
          cancelling[k] \/ (Live(k) /\ pc[k] # "created" /\ job[k].kind = "download")
    /\ ~ShuttingDown /\ ~Busy(r) /\ tasks[r] = NoJob
    /\ \A k \in Jobs : ~Heir(k, r)
    /\ kind = "succession" =>
          /\ pred \in Jobs /\ pc[pred] # "free"
          /\ job[pred].range # r /\ stats[job[pred].range] = pred
          /\ ~Busy(job[pred].range)
          /\ awaits = NoJob => Done(pred) /\ status[pred] = "COMPLETED"
          /\ \A k \in Jobs : job[k].kind = "succession" => job[k].pred # pred

LEMMA CreateFacts ==
    ASSUME ClientInvariant, NEW j, NEW kind, NEW r, NEW pred, NEW awaits,
           Creates(j, kind, r, pred, awaits)
    PROVE  /\ \A k \in Jobs : Live(k)' <=> (Live(k) \/ k = j)
           /\ \A k \in Jobs : Done(k)' <=> Done(k)
           /\ ~Live(j) /\ ~Done(j) /\ ~cleaned
           /\ \A k \in Jobs : k # j =>
                 (\A q : Heir(k, q)' <=> Heir(k, q)) /\ (Awaited(k)' <=> Awaited(k))
<1>1. /\ \A k \in Jobs : Live(k)' <=> (Live(k) \/ k = j)
      /\ \A k \in Jobs : Done(k)' <=> Done(k)
      /\ ~Live(j) /\ ~Done(j) /\ ~cleaned
  BY DEF Creates, Live, Done, ShuttingDown
<1>2. ASSUME NEW k \in Jobs, k # j
      PROVE  (\A q : Heir(k, q)' <=> Heir(k, q)) /\ (Awaited(k)' <=> Awaited(k))
  <2>1. job'[k] = job[k] /\ (Live(k)' <=> Live(k)) /\ call' = call
    BY <1>1, <1>2 DEF Creates
  <2>2. Awaited(k)' <=> Awaited(k)
    BY <2>1 DEF Awaited
  <2>3. job[k].kind = "succession" => job'[job[k].pred] = job[job[k].pred]
    <3>1. job[k].kind = "succession" => job[k].pred \in Jobs /\ job[k].pred # j
      BY <1>2, PredFacts DEF Creates
    <3>2. QED
      BY <3>1 DEF Creates
  <2>4. \A q : Heir(k, q)' <=> Heir(k, q)
    BY <2>1, <2>3 DEF Heir
  <2>5. QED
    BY <2>2, <2>4
<1>3. QED
  BY <1>1, <1>2

LEMMA CreateKeepsKnown ==
    ASSUME ClientInvariant, NEW j, NEW kind, NEW r, NEW pred, NEW awaits,
           Creates(j, kind, r, pred, awaits)
    PROVE  LiveIsKnown'
<1> SUFFICES ASSUME NEW k \in Jobs, Live(k)'
             PROVE  tasks'[job'[k].range] = k /\ stats'[job'[k].range] = k
  BY DEF LiveIsKnown
<1>1. CASE k = j
  BY <1>1 DEF Creates
<1>2. CASE k # j
  <2>1. job'[k] = job[k] /\ Live(k)
    BY <1>2, CreateFacts DEF Creates
  <2>2. /\ job[k].range \in Ranges
        /\ tasks[job[k].range] = k /\ stats[job[k].range] = k
    BY <2>1, LiveFacts
  <2>3. job[k].range # r
    BY <2>2, JobNumbers DEF Creates
  <2>4. QED
    BY <2>1, <2>2, <2>3 DEF Creates
<1>3. QED
  BY <1>1, <1>2

LEMMA CreateKeepsPlaces ==
    ASSUME ClientInvariant, NEW j, NEW kind, NEW r, NEW pred, NEW awaits,
           Creates(j, kind, r, pred, awaits)
    PROVE  PlacesAgree' /\ CancellationsAwaited' /\ HandlesAgree'
<1>1. PlacesAgree'
  <2> SUFFICES ASSUME NEW k \in Jobs
               PROVE  /\ pc'[k] = "created" /\ job'[k].kind = "download"
                            => status'[k] = "PENDING" \/ Marked(k)'
                      /\ pc'[k] \in {"opening", "streaming", "flushing"}
                            => status'[k] = "DOWNLOADING"
                      /\ pc'[k] = "created" /\ job'[k].kind = "succession"
                            => status'[k] = "AWAITING_SUCCESSION" \/ Marked(k)'
                      /\ pc'[k] \in {"awaiting", "cropping", "shifting", "moving"}
                            => status'[k] = "AWAITING_SUCCESSION" \/ Marked(k)'
                      /\ pc'[k] = "stopping" => status'[k] = "CANCELLED"
                      /\ Done(k)' => /\ status'[k] \in Ended
                                     /\ status'[k] = "ERROR" => exc'[k] \in {"refused", "error"}
    BY DEF PlacesAgree
  <2>1. CASE k = j
    BY <2>1 DEF Creates, Done
  <2>2. CASE k # j
    <3>1. /\ pc'[k] = pc[k] /\ job'[k] = job[k] /\ status'[k] = status[k] /\ exc' = exc
          /\ cancelling[k] => cancelling'[k]
      BY <2>2 DEF Creates
    <3>2. Marked(k) => Marked(k)'
      BY <3>1 DEF Marked
    <3>3. QED
      BY <3>1, <3>2 DEF ClientInvariant, CarefulInvariant, PlacesAgree, Done
  <2>3. QED
    BY <2>1, <2>2
<1>2. CancellationsAwaited'
  <2> SUFFICES ASSUME NEW k \in Jobs,
                      \/ /\ Live(k)' /\ job'[k].kind = "succession"
                         /\ cancelling'[k] \/ pc'[k] = "stopping"
                      \/ pc'[k] = "created" /\ cancelling'[k]
               PROVE  Awaited(k)'
    BY DEF CancellationsAwaited
  <2>1. k # j
    BY DEF Creates
  <2>2. /\ pc'[k] = pc[k] /\ job'[k] = job[k] /\ (Live(k)' <=> Live(k))
        /\ Awaited(k)' <=> Awaited(k)
    BY <2>1, CreateFacts DEF Creates
  <2>3. cancelling'[k] => cancelling[k]
    BY <2>2 DEF Creates
  <2>4. QED
    BY <2>2, <2>3 DEF ClientInvariant, CarefulInvariant, CancellationsAwaited
<1>3. HandlesAgree'
  <2> SUFFICES ASSUME NEW k \in Jobs, pc'[k] \in {"streaming", "flushing"}
               PROVE  path'[k] = job'[k].range
    BY DEF HandlesAgree
  <2>1. k # j
    BY DEF Creates
  <2>2. QED
    BY <2>1 DEF ClientInvariant, CarefulInvariant, HandlesAgree, Creates
<1>4. QED
  BY <1>1, <1>2, <1>3

LEMMA CreateKeepsPredecessors ==
    ASSUME ClientInvariant, NEW j, NEW kind, NEW r, NEW pred, NEW awaits,
           Creates(j, kind, r, pred, awaits)
    PROVE  PredecessorsKept'
<1> SUFFICES ASSUME NEW k \in Jobs, job'[k].kind = "succession", NEW p, p = job'[k].pred
             PROVE  /\ Live(k)' => stats'[job'[p].range] = p
                    /\ pc'[k] \in {"cropping", "shifting", "moving"}
                          => Done(p)' /\ status'[p] # "ERROR"
                    /\ job'[k].awaits = NoJob
                          => Done(p)' /\ status'[p] \in {"COMPLETED", "DEPRECATED"}
                    /\ \A i \in Jobs : job'[i].kind = "succession" /\ job'[i].pred = p => i = k
  BY DEF PredecessorsKept
<1>1. CASE k = j
  <2>1. /\ pred = p /\ awaits = job'[k].awaits /\ kind = "succession"
        /\ pred \in Jobs /\ pc[pred] # "free" /\ pred # j
        /\ job[pred].range # r /\ stats[job[pred].range] = pred
        /\ awaits = NoJob => Done(pred) /\ status[pred] = "COMPLETED"
        /\ \A i \in Jobs : job[i].kind = "succession" => job[i].pred # pred
    BY <1>1 DEF Creates
  <2>2. job[pred].range \in Ranges
    BY <2>1, PlaceKinds DEF ClientInvariant
  <2>3. job'[pred] = job[pred] /\ stats'[job[pred].range] = pred /\ status'[pred] = status[pred]
    BY <2>1, <2>2 DEF Creates
  <2>4. Done(pred)' <=> Done(pred)
    BY <2>1, CreateFacts
  <2>5. \A i \in Jobs : job'[i].kind = "succession" /\ job'[i].pred = pred => i = k
    BY <1>1, <2>1 DEF Creates
  <2>6. pc'[k] = "created"
    BY <1>1 DEF Creates
  <2>7. QED
    BY <2>1, <2>3, <2>4, <2>5, <2>6
<1>2. CASE k # j
  <2>1. /\ job'[k] = job[k] /\ p = job[k].pred /\ pc'[k] = pc[k] /\ job[k].kind = "succession"
        /\ (Live(k)' <=> Live(k))
    BY <1>2, CreateFacts DEF Creates
  <2>2. /\ p \in Jobs /\ p # j /\ pc[p] # "free" /\ job[p].range \in Ranges
        /\ Live(k) => stats[job[p].range] = p
        /\ pc[k] \in {"cropping", "shifting", "moving"} => Done(p) /\ status[p] # "ERROR"
        /\ job[k].awaits = NoJob => Done(p) /\ status[p] \in {"COMPLETED", "DEPRECATED"}
        /\ \A i \in Jobs : job[i].kind = "succession" /\ job[i].pred = p => i = k
    <3>1. /\ p \in Jobs /\ pc[p] # "free" /\ job[p].range \in Ranges
          /\ Live(k) => stats[job[p].range] = p
          /\ pc[k] \in {"cropping", "shifting", "moving"} => Done(p) /\ status[p] # "ERROR"
          /\ job[k].awaits = NoJob => Done(p) /\ status[p] \in {"COMPLETED", "DEPRECATED"}
          /\ \A i \in Jobs : job[i].kind = "succession" /\ job[i].pred = p => i = k
      BY <2>1, PredFacts
    <3>2. p # j
      BY <3>1 DEF Creates
    <3>3. QED
      BY <3>1, <3>2
  <2>3. job'[p] = job[p] /\ status'[p] = status[p] /\ (Done(p)' <=> Done(p))
    BY <2>2, CreateFacts DEF Creates
  <2>4. ASSUME Live(k) PROVE stats'[job[p].range] = p
    <3>1. Heir(k, job[p].range)
      BY <2>1, <2>4 DEF Heir
    <3>2. job[p].range # r
      BY <3>1 DEF Creates
    <3>3. QED
      BY <2>2, <2>4, <3>2 DEF Creates
  <2>5. \A i \in Jobs : job'[i].kind = "succession" /\ job'[i].pred = p => i = k
    <3>1. ASSUME job'[j].kind = "succession" PROVE job'[j].pred # p
      BY <2>1, <3>1 DEF Creates
    <3>2. QED
      BY <2>2, <3>1 DEF Creates
  <2>6. QED
    BY <2>1, <2>2, <2>3, <2>4, <2>5
<1>3. QED
  BY <1>1, <1>2
LEMMA CreateKeepsCalls ==
    ASSUME ClientInvariant, NEW j, NEW kind, NEW r, NEW pred, NEW awaits,
           Creates(j, kind, r, pred, awaits)
    PROVE  CallsAgree'
<1> SUFFICES ASSUME NEW c \in Callers PROVE CallAgrees(c)'
  BY DEF CallsAgree
<1> DEFINE q == call[c].range
<1>1. CallAgrees(c) /\ call' = call /\ call[c].at \notin {"gather", "purge"} /\ q # r
  BY DEF ClientInvariant, CarefulInvariant, CallsAgree, Creates, ShuttingDown, Busy
<1>2. CASE call[c].at \in {"init", "join"}
  <2>1. /\ q \in Ranges /\ tasks'[q] = tasks[q]
        /\ \E k \in Jobs : /\ call[c].jobs = {k} /\ pc[k] # "free"
                           /\ job[k].range = q /\ tasks[q] \in {NoJob, k}
    BY <1>1, <1>2 DEF CallAgrees, Creates
  <2>2. \E k \in Jobs : /\ call[c].jobs = {k} /\ pc'[k] # "free"
                        /\ job'[k].range = q /\ tasks'[q] \in {NoJob, k}
    BY <2>1 DEF Creates
  <2>3. call[c].op = "delete" => \A k \in Jobs : ~Heir(k, q)'
    <3>1. SUFFICES ASSUME NEW k \in Jobs, NEW t, t = q, call[c].op = "delete" PROVE ~Heir(k, t)'
      BY <1>1
    <3>2. ~Heir(k, t)
      BY <1>1, <1>2, <3>1 DEF CallAgrees
    <3>3. CASE k # j
      BY <3>2, <3>3, CreateFacts
    <3>4. CASE k = j
      <4>1. ASSUME kind = "succession" PROVE job'[pred].range # t
        <5>1. job[pred].range # t /\ pred # j /\ pred \in Jobs
          BY <3>1, <4>1 DEF Creates, Busy
        <5>2. QED
          BY <5>1 DEF Creates
      <4>2. QED
        BY <3>4, <4>1 DEF Heir, Creates
    <3>5. QED
      BY <3>3, <3>4
  <2>4. QED
    BY <1>1, <1>2, <2>1, <2>2, <2>3 DEF CallAgrees
<1>3. CASE call[c].at = "unlink"
  <2>1. /\ q \in Ranges /\ stats'[q] = NoJob /\ tasks'[q] = tasks[q]
        /\ tasks[q] # NoJob => Done(tasks[q])
    BY <1>1, <1>3 DEF CallAgrees, Creates
  <2>2. tasks[q] # NoJob => tasks[q] \in Jobs
    BY <2>1, BookTypes DEF ClientInvariant
  <2>3. tasks'[q] # NoJob => pc'[tasks'[q]] \in {"done", "dropped"}
    BY <2>1, <2>2 DEF Creates, Done
  <2>4. QED
    BY <1>1, <1>3, <2>1, <2>3 DEF CallAgrees, Done
<1>4. CASE call[c].at \notin {"init", "join", "unlink"}
  BY <1>1, <1>4 DEF CallAgrees
<1>5. QED
  BY <1>2, <1>3, <1>4

LEMMA CreateKeepsRest ==
    ASSUME ClientInvariant, NEW j, NEW kind, NEW r, NEW pred, NEW awaits,
           Creates(j, kind, r, pred, awaits)
    PROVE  CleanupAgrees' /\ DownloadsAreMonitored'
<1>1. CleanupAgrees'
  BY CreateFacts DEF Creates, CleanupAgrees
<1>2. DownloadsAreMonitored'
  <2> SUFFICES ASSUME NEW k \in StatsJobs', status'[k] \in {"PENDING", "DOWNLOADING"}
               PROVE  monitor' = "running"
    BY DEF DownloadsAreMonitored
  <2>1. CASE k = j
    BY <2>1 DEF Creates
  <2>2. CASE k # j
    <3>1. k \in StatsJobs /\ k \in Jobs
      <4>1. PICK q \in Ranges : k = stats'[q] /\ k # NoJob
        BY DEF StatsJobs
      <4>2. k = stats[q]
        BY <2>2, <4>1 DEF Creates
      <4>3. QED
        BY <4>1, <4>2, BookTypes DEF ClientInvariant, StatsJobs
    <3>2. status[k] \in {"PENDING", "DOWNLOADING"}
      BY <2>2, <3>1 DEF Creates
    <3>3. QED
      BY <3>1, <3>2 DEF ClientInvariant, CarefulInvariant, DownloadsAreMonitored, Creates
  <2>3. QED
    BY <2>1, <2>2
<1>3. QED
  BY <1>1, <1>2

LEMMA CreateKeepsCareful ==
    ASSUME ClientInvariant, NEW j, NEW kind, NEW r, NEW pred, NEW awaits,
           Creates(j, kind, r, pred, awaits)
    PROVE  CarefulInvariant'
BY CreateKeepsKnown, CreateKeepsPlaces, CreateKeepsPredecessors, CreateKeepsCalls,
   CreateKeepsRest DEF CarefulInvariant

LEMMA StartCreates ==
    ASSUME CarefulClients, ClientInvariant, NEW r \in Starts, StartChunk(r)
    PROVE  \E j : Creates(j, "download", r, NoJob, NoJob)
<1>1. PICK j \in Jobs : Register(j, "download", r, NoJob, NoJob, "PENDING")
  BY DEF StartChunk
<1>2. /\ r \in Ranges /\ MayTouch(r) /\ tasks[r] = NoJob /\ monitor' = "running"
      /\ UNCHANGED <<exc, path, call, cleaned, cancelling>>
  BY ClientAssumption DEF StartChunk, MayStart, clientVars
<1>3. ~ShuttingDown /\ ~Busy(r) /\ \A k \in Jobs : ~Heir(k, r)
  BY <1>2, TouchFacts, HeirFacts
<1>4. /\ pc[j] = "free" /\ pc'[j] = "created" /\ status'[j] = "PENDING"
      /\ job'[j].kind = "download" /\ job'[j].range = r
      /\ job'[j].pred = NoJob /\ job'[j].awaits = NoJob
      /\ \A k \in Jobs \ {j} : job'[k] = job[k] /\ pc'[k] = pc[k] /\ status'[k] = status[k]
      /\ stats'[r] = j /\ tasks'[r] = j
      /\ \A q \in Ranges \ {r} : stats'[q] = stats[q] /\ tasks'[q] = tasks[q]
  BY <1>1, <1>2, BookTypes DEF ClientInvariant, Register, NextJob
<1>5. ~cancelling[j]
  BY <1>4 DEF ClientInvariant, OrderInvariant, Beginnings
<1>6. QED
  BY <1>2, <1>3, <1>4, <1>5 DEF Creates

\* The successor is of a range nobody knows, the only one of its predecessor,
\* and awaits its task, or finds it complete.
LEMMA ResizeCreates ==
    ASSUME CarefulClients, ClientInvariant, NEW current, NEW new, ResizeChunk(current, new)
    PROVE  \E j : Creates(j, "succession", new, stats[current], tasks[current])
<1> DEFINE a == stats[current]
<1>1. PICK j \in Jobs :
         /\ Register(j, "succession", new, a, tasks[current], "AWAITING_SUCCESSION")
         /\ IF new.end # None /\ status[a] # "COMPLETED"
            THEN Observe(a, tasks[current], j, UsefulBytes(current, new))
            ELSE UNCHANGED <<cancelling, limit, observer>>
  BY DEF ResizeChunk
<1>2. /\ current \in Ranges /\ new \in Ranges /\ new # current
      /\ a \in Jobs /\ job[a].range = current /\ pc[a] # "free"
      /\ tasks[current] \in {NoJob, a}
  BY ResizeFacts DEF ClientInvariant
<1>3. /\ MayTouch(current) /\ ~Busy(new) /\ stats[new] = NoJob /\ tasks[new] = NoJob
      /\ \A k \in Jobs : job[k].kind = "succession" => job[k].pred # a
      /\ status[a] \in {"PENDING", "DOWNLOADING", "COMPLETED"}
      /\ UNCHANGED <<exc, path, monitor, call, cleaned>>
  BY DEF ResizeChunk, MayResize, CarefulClients, clientVars
<1>4. ~ShuttingDown /\ ~Busy(current) /\ \A k \in Jobs : ~Heir(k, new)
  BY <1>3, TouchFacts, HeirFacts
<1>5. /\ pc[j] = "free" /\ pc'[j] = "created" /\ status'[j] = "AWAITING_SUCCESSION"
      /\ job'[j].kind = "succession" /\ job'[j].range = new
      /\ job'[j].pred = a /\ job'[j].awaits = tasks[current]
      /\ \A k \in Jobs \ {j} : job'[k] = job[k] /\ pc'[k] = pc[k] /\ status'[k] = status[k]
      /\ stats'[new] = j /\ tasks'[new] = j
      /\ \A q \in Ranges \ {new} : stats'[q] = stats[q] /\ tasks'[q] = tasks[q]
  BY <1>1, <1>2, BookTypes DEF ClientInvariant, Register, NextJob
<1>6. /\ \A k \in Jobs : cancelling[k] => cancelling'[k]
      /\ \A k \in Jobs : cancelling'[k] =>
            cancelling[k] \/ (Live(k) /\ pc[k] # "created" /\ job[k].kind = "download")
  <2>1. \A k \in Jobs : cancelling[k] => cancelling'[k]
    BY <1>1, StillCancelled DEF ClientInvariant, Observe
  <2>2. \A k \in Jobs : cancelling'[k] =>
            cancelling[k] \/ (Live(k) /\ pc[k] # "created" /\ k = a)
    BY ObserveCancels DEF ClientInvariant
  <2>3. Live(a) => job[a].kind = "download"
    <3>1. Live(a) /\ job[a].kind = "succession" => FALSE
      BY <1>2, <1>3 DEF ClientInvariant, BookInvariant, SuccessionsAgree
    <3>2. QED
      BY <1>2, <3>1, PlaceStatus DEF Live, Done
  <2>4. QED
    BY <2>1, <2>2, <2>3
<1>7. ~cancelling'[j]
  <2>1. ~cancelling[j] /\ ~Live(j)
    BY <1>5 DEF ClientInvariant, OrderInvariant, Beginnings, Live
  <2>2. QED
    BY <1>6, <2>1
<1>8. tasks[current] = NoJob => Done(a) /\ status[a] = "COMPLETED"
  <2>1. tasks[current] = NoJob => ~Live(a)
    BY <1>2, LiveFacts, JobNumbers
  <2>2. ~Live(a) => Done(a) /\ status[a] \in Ended
    BY <1>2, PlaceStatus DEF Live, Done
  <2>3. QED
    BY <1>3, <2>1, <2>2 DEF Ended
<1>9. QED
  BY <1>2, <1>3, <1>4, <1>5, <1>6, <1>7, <1>8 DEF Creates
(***************************************************************************)
(* The invariant of careful clients                                        *)
(***************************************************************************)

LEMMA InitCareful == Init => CarefulInvariant
<1> SUFFICES ASSUME Init PROVE CarefulInvariant
  OBVIOUS
<1>1. \A j \in Jobs : /\ pc[j] = IF InitialJob(j) THEN "done" ELSE "free"
                      /\ status[j] = IF InitialJob(j) THEN "COMPLETED" ELSE "PENDING"
                      /\ ~cancelling[j]
  BY DEF Init
<1>2. BookInvariant /\ OrderInvariant
  BY InitBooks, InitOrder
<1>3. \A j \in Jobs : job[j].kind # "succession" /\ ~Live(j)
  <2>1. \A j \in Jobs : ~Live(j)
    BY <1>1 DEF Live
  <2>2. ASSUME NEW j \in Jobs PROVE job[j].kind # "succession"
    <3>1. job[j] = IF InitialJob(j) THEN [NoRecord EXCEPT !.kind = "recovered", !.range = Found(j)]
                   ELSE NoRecord
      BY DEF Init
    <3>2. [NoRecord EXCEPT !.kind = "recovered", !.range = Found(j)].kind = "recovered"
          /\ NoRecord.kind = "none"
      BY Zenon DEF NoRecord
    <3>3. QED
      BY <3>1, <3>2
  <2>3. QED
    BY <2>1, <2>2
<1>4. /\ tasks = NoTasks /\ ~cleaned
      /\ \A c \in Callers : call[c].at = "idle"
  BY DEF Init, Idle
<1>5. LiveIsKnown /\ CancellationsAwaited /\ PredecessorsKept /\ HandlesAgree
  BY <1>1, <1>3 DEF LiveIsKnown, CancellationsAwaited, PredecessorsKept, HandlesAgree
<1>6. PlacesAgree
  BY <1>1 DEF PlacesAgree, Done, Ended
<1>7. CallsAgree /\ CleanupAgrees
  BY <1>4 DEF CallsAgree, CallAgrees, CleanupAgrees
<1>8. DownloadsAreMonitored
  <2>1. \A j \in StatsJobs : j \in Jobs /\ pc[j] # "free"
    BY <1>2, BookTypes DEF StatsJobs, BookInvariant, BooksAgree
  <2>2. QED
    BY <1>1, <2>1 DEF DownloadsAreMonitored
<1>9. QED
  BY <1>5, <1>6, <1>7, <1>8 DEF CarefulInvariant

\* A pass of the monitor takes nothing away from anybody.
LEMMA MonitorEndsKeepsCareful ==
    ASSUME ClientInvariant, MonitorEnds
    PROVE  CarefulInvariant'
<1>1. /\ UNCHANGED <<job, pc, exc, cancelling, status, path, tasks, stats, call, cleaned>>
      /\ \A j \in StatsJobs : status[j] \notin {"PENDING", "DOWNLOADING"}
      /\ monitor' = "done"
  BY DEF MonitorEnds, taskVars, statVars, clientVars
<1>2. DownloadsAreMonitored' /\ CleanupAgrees'
  BY <1>1 DEF ClientInvariant, CarefulInvariant, DownloadsAreMonitored, CleanupAgrees, StatsJobs
<1>3. LiveIsKnown' /\ PlacesAgree' /\ HandlesAgree'
  BY <1>1 DEF ClientInvariant, CarefulInvariant, LiveIsKnown, PlacesAgree, HandlesAgree,
              Live, Done, Marked
<1>4. CancellationsAwaited' /\ PredecessorsKept'
  BY <1>1 DEF ClientInvariant, CarefulInvariant, CancellationsAwaited, PredecessorsKept,
              Live, Done, Awaited
<1>5. CallsAgree'
  BY <1>1 DEF ClientInvariant, CarefulInvariant, CallsAgree, CallAgrees, Heir, Live, Done,
              Outside, Tracked
<1>6. QED
  BY <1>2, <1>3, <1>4, <1>5 DEF CarefulInvariant

\* Every step of the system is a step of a task, of a caller, of the monitor,
\* or the creation of a job.
LEMMA CallerSteps ==
    ASSUME CarefulClients, ClientInvariant, BookInvariant', Request \/ \E c \in Callers : Continue(c)
    PROVE  \/ \E c \in Callers : ClientFrame(c)
           \/ \E j, kind, r, pred, awaits : Creates(j, kind, r, pred, awaits)
<1>1. ASSUME NEW r \in Starts, StartChunk(r)
      PROVE  \E j, kind, q, pred, awaits : Creates(j, kind, q, pred, awaits)
  BY <1>1, StartCreates
<1>2. ASSUME NEW p \in Resizes, ResizeChunk(p[1], p[2])
      PROVE  \E j, kind, q, pred, awaits : Creates(j, kind, q, pred, awaits)
  BY <1>2, ResizeCreates
<1>3. ASSUME NEW c \in Callers, NEW op \in Operations,
             \/ \E r \in Ranges : CancelOrDelete(c, op, r)
             \/ WaitBegin(c, op)
             \/ CancelAll(c, op)
      PROVE  ClientFrame(c)
  BY <1>3, CancelOrDeleteFrame, WaitFrame, CancelAllFrame
<1>4. ASSUME NEW c \in Callers, Continue(c)
      PROVE  ClientFrame(c)
  BY <1>4, CancelInitiatedFrame, CancelJoinedFrame, UnlinkFrame, WaitFrame, WaitEndFrame,
     GatherEndFrame, PurgeFrame DEF Continue
<1>5. QED
  BY <1>1, <1>2, <1>3, <1>4 DEF Request

LEMMA NextKeepsClient ==
    ASSUME CarefulClients, ClientInvariant, [Next]_vars
    PROVE  ClientInvariant'
<1>1. BookInvariant' /\ OrderInvariant'
  BY NextKeepsBooks, NextKeepsOrder DEF ClientInvariant
<1>2. CASE Request \/ \E c \in Callers : Continue(c)
  BY <1>1, <1>2, CallerSteps, FrameKeepsCareful, CreateKeepsCareful DEF ClientInvariant
<1>3. ASSUME NEW j \in Jobs, JobStep(j) PROVE CarefulInvariant'
  <2>1. Shape(j)
    BY <1>3, JobStepShape DEF ClientInvariant
  <2>2. QED
    BY <1>3, <2>1, TaskKeepsKnown, TaskKeepsPlaces, TaskKeepsCancellations, TaskKeepsPredecessors,
       TaskKeepsCalls, TaskKeepsMonitor, TaskKeepsHandles DEF CarefulInvariant
<1>4. CASE MonitorEnds
  BY <1>1, <1>4, MonitorEndsKeepsCareful DEF ClientInvariant
<1>5. CASE UNCHANGED vars
  <2>1. CarefulInvariant'
    <3>1. UNCHANGED <<job, pc, exc, cancelling, status, path, tasks, stats, monitor, call, cleaned>>
      BY <1>5 DEF vars
    <3>2. DownloadsAreMonitored' /\ CleanupAgrees' /\ LiveIsKnown' /\ PlacesAgree' /\ HandlesAgree'
      BY <3>1 DEF ClientInvariant, CarefulInvariant, DownloadsAreMonitored, CleanupAgrees,
                  StatsJobs, LiveIsKnown, PlacesAgree, HandlesAgree, Live, Done, Marked
    <3>3. CancellationsAwaited' /\ PredecessorsKept'
      BY <3>1 DEF ClientInvariant, CarefulInvariant, CancellationsAwaited, PredecessorsKept,
                  Live, Done, Awaited
    <3>4. CallsAgree'
      BY <3>1 DEF ClientInvariant, CarefulInvariant, CallsAgree, CallAgrees, Heir, Live, Done,
                  Outside, Tracked
    <3>5. QED
      BY <3>2, <3>3, <3>4 DEF CarefulInvariant
  <2>2. QED
    BY <1>1, <2>1 DEF ClientInvariant
<1>6. CASE Next
  BY <1>1, <1>2, <1>3, <1>4, <1>6 DEF Next, ClientInvariant
<1>7. QED
  BY <1>5, <1>6

\* When callers leave busy ranges, inherited chunks and a manager that shuts
\* down alone, both dictionaries know every running task, cancellations have a
\* caller that waits for them, predecessors stay in the stats, and whoever is
\* suspended in the manager finds what it relies on.
THEOREM ClientsInOrder ==
    ASSUME CarefulClients
    PROVE  Spec => []ClientInvariant
<1>1. Init => ClientInvariant
  BY InitBooks, InitOrder, InitCareful DEF ClientInvariant
<1>2. ClientInvariant /\ [Next]_vars => ClientInvariant'
  BY NextKeepsClient
<1>3. QED
  BY <1>1, <1>2, PTL DEF Spec

\* No task outlives its entry in _chunks_tasks (cancel_chunk, the waits and
\* cancel_all_chunks find whatever runs).
THEOREM NoTaskIsLost ==
    ASSUME CarefulClients
    PROVE  Spec => []LiveIsTracked
<1>1. ClientInvariant => LiveIsTracked
  BY DEF ClientInvariant, CarefulInvariant, LiveIsKnown, LiveIsTracked
<1>2. QED
  BY <1>1, ClientsInOrder, PTL

\* While a chunk is pending or downloading the monitor runs.
THEOREM ProgressIsReported ==
    ASSUME CarefulClients
    PROVE  Spec => []DownloadsAreMonitored
<1>1. ClientInvariant => DownloadsAreMonitored
  BY DEF ClientInvariant, CarefulInvariant
<1>2. QED
  BY <1>1, ClientsInOrder, PTL

\* Once cleanup has returned, no task runs, no entry is left and nothing is
\* reported.
THEOREM CleanupIsComplete ==
    ASSUME CarefulClients
    PROVE  Spec => []CleanedIsQuiet
<1>1. ClientInvariant => CleanedIsQuiet
  <2> SUFFICES ASSUME ClientInvariant, cleaned, \A c \in Callers : Outside(c)
               PROVE  /\ \A j \in Jobs : ~Live(j)
                      /\ tasks = NoTasks /\ monitor # "running"
    BY DEF CleanedIsQuiet
  <2>1. tasks = NoTasks /\ monitor # "running"
    BY DEF ClientInvariant, CarefulInvariant, CleanupAgrees, Outside
  <2>2. QED
    BY <2>1, NoTasksNoLive
<1>2. QED
  BY <1>1, ClientsInOrder, PTL

\* No two tasks ever work on the same file: a worker has its own, and a
\* succession crops and renames the file of a chunk that is done, which nobody
\* else inherits.
THEOREM FilesAreExclusive ==
    ASSUME CarefulClients
    PROVE  Spec => []ExclusiveFiles
<1>1. ClientInvariant => ExclusiveFiles
  <2> SUFFICES ASSUME ClientInvariant, NEW j \in Jobs, NEW k \in Jobs, j # k,
                      NEW file \in Uses(j), file \in Uses(k)
               PROVE  FALSE
    BY DEF ExclusiveFiles
  <2>1. \A i \in Jobs : \A f \in Uses(i) :
           /\ Live(i)
           /\ \/ f = job[i].range
              \/ /\ job[i].kind = "succession" /\ f = job[job[i].pred].range
                 /\ Done(job[i].pred) /\ stats[f] = job[i].pred
    <3> SUFFICES ASSUME NEW i \in Jobs, NEW f \in Uses(i)
                 PROVE  /\ Live(i)
                        /\ \/ f = job[i].range
                           \/ /\ job[i].kind = "succession" /\ f = job[job[i].pred].range
                              /\ Done(job[i].pred) /\ stats[f] = job[i].pred
      OBVIOUS
    <3>1. CASE pc[i] \in {"streaming", "flushing"}
      BY <3>1 DEF Uses, Live, ClientInvariant, CarefulInvariant, HandlesAgree
    <3>2. CASE pc[i] = "opening"
      BY <3>2 DEF Uses, Live
    <3>3. CASE pc[i] \in {"cropping", "shifting", "moving"}
      <4>1. Live(i) /\ job[i].kind = "succession"
        BY <3>3, PlaceKinds DEF ClientInvariant, Live
      <4>2. QED
        BY <3>3, <4>1, PredFacts DEF Uses
    <3>4. QED
      BY <3>1, <3>2, <3>3 DEF Uses
  <2>2. CASE file = job[j].range /\ file = job[k].range
    BY <2>1, <2>2, SoleLive
  <2>3. ASSUME NEW i \in Jobs, NEW m \in Jobs, Live(i), file = job[i].range,
               Done(job[m].pred), stats[file] = job[m].pred
        PROVE  FALSE
    <3>1. stats[file] = i
      BY <2>3, LiveFacts
    <3>2. QED
      BY <2>3, <3>1 DEF Live, Done
  <2>4. CASE job[j].kind = "succession" /\ job[k].kind = "succession" /\ job[j].pred = job[k].pred
    BY <2>4, PredFacts
  <2>5. QED
    BY <2>1, <2>2, <2>3, <2>4
<1>2. QED
  BY <1>1, ClientsInOrder, PTL
(***************************************************************************)
(* The promise                                                             *)
(***************************************************************************)

\* What a step of a task does to the status of its own chunk.
LEMMA OwnStatus ==
    ASSUME ClientInvariant, NEW j \in Jobs, Shape(j)
    PROVE  \/ status' = status /\ Live(j)'
           \/ status' = status /\ status[j] = "CANCELLED" /\ pc'[j] = "dropped"
           \/ /\ status[j] = "PENDING" /\ Live(j)'
              /\ status' = [status EXCEPT ![j] = "DOWNLOADING"]
           \/ /\ status[j] \in {"AWAITING_SUCCESSION", "CANCELLED"} /\ Live(j)'
              /\ status' = [status EXCEPT ![j] = "CANCELLED"]
           \/ /\ pc'[j] = "done"
              /\ \E s \in Ended : /\ status' = [status EXCEPT ![j] = s]
                                  /\ \/ status[j] = "DOWNLOADING"
                                     \/ /\ status[j] = "AWAITING_SUCCESSION"
                                        /\ s \in {"ERROR", "CANCELLED"}
                                     \/ status[j] = "CANCELLED" /\ s = "CANCELLED"
           \/ /\ HandsOver(j) /\ status[j] = "AWAITING_SUCCESSION"
              /\ job[j].kind = "succession"
<1>1. /\ Live(j)
      /\ pc[j] = "created" /\ job[j].kind = "download" => status[j] = "PENDING" \/ Marked(j)
      /\ pc[j] \in {"opening", "streaming", "flushing"} => status[j] = "DOWNLOADING"
      /\ pc[j] # "stopping" /\ job[j].kind = "succession"
            => status[j] = "AWAITING_SUCCESSION" \/ Marked(j)
      /\ pc[j] = "stopping" => status[j] = "CANCELLED" /\ job[j].kind = "succession"
  <2>1. Live(j) /\ pc[j] \in Place
    BY BookTypes DEF ClientInvariant, Shape, TaskFrame
  <2>2. QED
    BY <2>1, PlaceStatus, PlaceKinds DEF ClientInvariant, Place, Live
<1>2. CASE Drops(j)
  <2>1. status[j] \in Ended
    BY <1>2, LiveFacts DEF ClientInvariant, OrderInvariant, Beginnings, CalledOff, Drops, Live
  <2>2. status[j] = "CANCELLED"
    BY <1>2, <2>1, PlaceStatus DEF Drops, Ended, Marked, Done
  <2>3. QED
    BY <1>2, <2>2 DEF Drops
<1>3. CASE Begins(j)
  BY <1>1, <1>3 DEF Begins, Marked, Live
<1>4. CASE GoesOn(j)
  BY <1>4 DEF GoesOn, Live
<1>5. CASE Stops(j)
  BY <1>1, <1>5, PlaceKinds DEF ClientInvariant, Stops, Live, Marked
<1>6. CASE Ends(j)
  <2>1. PICK s \in Ended :
           /\ pc'[j] = "done" /\ status' = [status EXCEPT ![j] = s]
           /\ \/ pc[j] \in {"opening", "streaming", "flushing"}
              \/ job[j].kind = "succession" /\ pc[j] # "stopping" /\ ~cancelling[j] /\ s = "ERROR"
              \/ (pc[j] = "stopping" \/ (pc[j] # "created" /\ cancelling[j])) /\ s = "CANCELLED"
    BY <1>6 DEF Ends
  <2>2. CASE pc[j] \in {"opening", "streaming", "flushing"}
    BY <1>1, <2>1, <2>2
  <2>3. CASE job[j].kind = "succession" /\ pc[j] # "stopping" /\ ~cancelling[j] /\ s = "ERROR"
    BY <1>1, <2>1, <2>3 DEF Marked
  <2>4. CASE pc[j] \notin {"opening", "streaming", "flushing", "created"} /\ s = "CANCELLED"
    <3>1. job[j].kind = "succession"
      BY <1>1, <2>4, PlaceKinds, BookTypes DEF ClientInvariant, Live, Place
    <3>2. QED
      BY <1>1, <2>1, <2>4, <3>1 DEF Marked
  <2>5. QED
    BY <2>1, <2>2, <2>3, <2>4
<1>7. CASE HandsOver(j)
  <2>1. job[j].kind = "succession" /\ pc[j] # "stopping" /\ ~cancelling[j]
    BY <1>7, PlaceKinds DEF ClientInvariant, HandsOver
  <2>2. QED
    BY <1>1, <1>7, <2>1 DEF Marked
<1>8. QED
  BY <1>2, <1>3, <1>4, <1>5, <1>6, <1>7 DEF Shape

\* The action of StatusIsFinal.
EndedStays ==
    \A j \in Jobs :
        pc[j] # "free" => /\ OnlyTo(j, "ERROR", {})
                          /\ OnlyTo(j, "DEPRECATED", {})
                          /\ OnlyTo(j, "COMPLETED", {"DEPRECATED"})
                          /\ OnlyTo(j, "CANCELLED", {"DEPRECATED"})

\* A chunk that has ended keeps its status, but for a predecessor that hands
\* its file over: a cancellation that comes too late changes nothing.
THEOREM EndingsAreFinal ==
    ASSUME CarefulClients
    PROVE  Spec => StatusIsFinal
<1>1. ASSUME ClientInvariant, ClientInvariant', [Next]_vars
      PROVE  [EndedStays]_vars
  <2>1. ASSUME NEW j \in Jobs, JobStep(j) PROVE EndedStays
    <3> SUFFICES ASSUME NEW k \in Jobs
                 PROVE  \/ status'[k] = status[k]
                        \/ status[k] \notin Ended
                        \/ status'[k] = "DEPRECATED" /\ status[k] # "ERROR"
      BY DEF EndedStays, OnlyTo, Ended
    <3>1. Shape(j) /\ status \in [Jobs -> Status]
      BY <1>1, <2>1, JobStepShape, BookTypes DEF ClientInvariant
    <3>2. CASE k # j
      BY <1>1, <3>1, <3>2, ShapeStatuses
    <3>3. CASE k = j
      BY <1>1, <3>1, <3>3, OwnStatus DEF Ended
    <3>4. QED
      BY <3>2, <3>3
  <2>2. ASSUME NEW c \in Callers, ClientFrame(c) PROVE EndedStays
    BY <2>2 DEF ClientFrame, EndedStays, OnlyTo
  <2>3. ASSUME NEW j, NEW kind, NEW r, NEW pred, NEW awaits, Creates(j, kind, r, pred, awaits)
        PROVE  EndedStays
    BY <2>3 DEF Creates, EndedStays, OnlyTo
  <2>4. CASE MonitorEnds
    BY <2>4 DEF MonitorEnds, statVars, EndedStays, OnlyTo
  <2>5. CASE Next
    BY <1>1, <2>1, <2>2, <2>3, <2>4, <2>5, CallerSteps DEF Next, ClientInvariant
  <2>6. QED
    BY <1>1, <2>5
<1>2. Spec => [][EndedStays]_vars
  BY <1>1, ClientsInOrder, PTL DEF Spec
<1>3. QED
  BY <1>2 DEF StatusIsFinal, EndedStays
\* What the callers see of the jobs.
Made     == {j \in Jobs : pc[j] # "free"}
LiveJobs == {j \in Jobs : Live(j)}

LEMMA PromiseNames ==
    /\ Lifecycle!promiseVars = <<status, Made, LiveJobs, StatsJobs>>
    /\ Lifecycle!Ended = Ended
    /\ Lifecycle!Active = Active
BY DEF Lifecycle!promiseVars, Made, LiveJobs, Lifecycle!Ended, Ended, Lifecycle!Active, Active

LEMMA PromiseInit == Init => Lifecycle!Promised
<1> SUFFICES ASSUME Init PROVE Lifecycle!Promised
  OBVIOUS
<1>1. BookInvariant
  BY InitBooks
<1>2. \A j \in Jobs : /\ pc[j] = IF InitialJob(j) THEN "done" ELSE "free"
                      /\ status[j] = IF InitialJob(j) THEN "COMPLETED" ELSE "PENDING"
  BY DEF Init
<1>3. LiveJobs = {} /\ Made \subseteq Jobs /\ \A j \in Made : status[j] = "COMPLETED"
  BY <1>2 DEF LiveJobs, Made, Live
<1>4. StatsJobs = Made
  <2>1. ASSUME NEW j \in StatsJobs PROVE j \in Made
    BY <1>1, <2>1, BookTypes DEF StatsJobs, Made, BookInvariant, BooksAgree
  <2>2. ASSUME NEW j \in Made PROVE j \in StatsJobs
    <3>1. InitialJob(j) /\ j \in Jobs
      BY <1>2 DEF Made
    <3>2. j \in 1..Len(Recovered) /\ Found(j) \in Ranges
      BY <3>1, BoundAssumption DEF InitialJob, Jobs, Found
    <3>3. (CHOOSE i \in 1..Len(Recovered) : Found(i) = Found(j)) = j
      BY <3>2, BoundAssumption DEF Found
    <3>4. stats[Found(j)] = j
      BY <3>2, <3>3 DEF Init
    <3>5. QED
      BY <3>1, <3>2, <3>4, JobNumbers DEF StatsJobs
  <2>3. QED
    BY <2>1, <2>2
<1>5. status \in [Jobs -> Active \union Ended]
  BY <1>1, BookTypes DEF Status, Active, Ended
<1>6. QED
  BY <1>3, <1>4, <1>5, PromiseNames DEF Lifecycle!Promised, Made, LiveJobs

\* A step of a task begins, ends or hands over a chunk, calls it off, or shows
\* nothing of itself.
LEMMA TaskPromise ==
    ASSUME ClientInvariant, NEW j \in Jobs, Shape(j)
    PROVE  Lifecycle!Fulfil \/ UNCHANGED Lifecycle!promiseVars
<1>1. /\ Made' = Made /\ StatsJobs' = StatsJobs /\ j \in LiveJobs
      /\ Live(j)' => LiveJobs' = LiveJobs
      /\ ~Live(j)' => LiveJobs' = LiveJobs \ {j}
  <2>1. /\ StatsJobs' = StatsJobs /\ Live(j) /\ pc[j] # "free" /\ pc'[j] # "free"
        /\ \A k \in Jobs \ {j} : pc'[k] = pc[k]
    BY ShapeFrame DEF ClientInvariant
  <2>2. \A k \in Jobs \ {j} : Live(k)' <=> Live(k)
    BY <2>1 DEF Live
  <2>3. QED
    BY <2>1, <2>2 DEF Made, LiveJobs
<1>2. pc'[j] \in {"done", "dropped"} => ~Live(j)'
  BY DEF Live
<1>3. CASE status' = status /\ Live(j)'
  BY <1>1, <1>3 DEF Lifecycle!promiseVars, Made, LiveJobs
<1>4. CASE status' = status /\ status[j] = "CANCELLED" /\ pc'[j] = "dropped"
  <2>1. "CANCELLED" \in Lifecycle!Endings[status[j]] /\ status' = [status EXCEPT ![j] = "CANCELLED"]
    BY <1>4, BookTypes DEF ClientInvariant, Lifecycle!Endings
  <2>2. Lifecycle!End(j)
    BY <1>1, <1>2, <1>4, <2>1 DEF Lifecycle!End, Made, LiveJobs
  <2>3. QED
    BY <2>2 DEF Lifecycle!Fulfil
<1>5. CASE status[j] = "PENDING" /\ Live(j)' /\ status' = [status EXCEPT ![j] = "DOWNLOADING"]
  <2>1. Lifecycle!Begin(j)
    BY <1>1, <1>5 DEF Lifecycle!Begin, Made, LiveJobs
  <2>2. QED
    BY <2>1 DEF Lifecycle!Fulfil
<1>6. CASE /\ status[j] \in {"AWAITING_SUCCESSION", "CANCELLED"} /\ Live(j)'
           /\ status' = [status EXCEPT ![j] = "CANCELLED"]
  <2>1. CASE status[j] = "CANCELLED"
    <3>1. status' = status
      BY <1>6, <2>1, BookTypes DEF ClientInvariant
    <3>2. QED
      BY <1>3, <1>6, <3>1
  <2>2. CASE status[j] = "AWAITING_SUCCESSION"
    <3>1. status' = [k \in Jobs |-> IF k \in {j} THEN "CANCELLED" ELSE status[k]]
      BY <1>6, BookTypes DEF ClientInvariant
    <3>2. Lifecycle!CallOff({j})
      BY <1>1, <1>6, <2>2, <3>1 DEF Lifecycle!CallOff, Made, LiveJobs
    <3>3. {j} \in SUBSET LiveJobs
      BY <1>1
    <3>4. QED
      BY <3>2, <3>3 DEF Lifecycle!Fulfil, LiveJobs
  <2>3. QED
    BY <1>6, <2>1, <2>2
<1>7. ASSUME pc'[j] = "done", NEW s \in Ended, status' = [status EXCEPT ![j] = s],
             \/ status[j] = "DOWNLOADING"
             \/ status[j] = "AWAITING_SUCCESSION" /\ s \in {"ERROR", "CANCELLED"}
             \/ status[j] = "CANCELLED" /\ s = "CANCELLED"
      PROVE  Lifecycle!Fulfil
  <2>1. s \in Lifecycle!Endings[status[j]]
    BY <1>7 DEF Lifecycle!Endings, Lifecycle!Ended, Ended
  <2>2. Lifecycle!End(j)
    BY <1>1, <1>2, <1>7, <2>1 DEF Lifecycle!End, Made, LiveJobs
  <2>3. QED
    BY <2>2 DEF Lifecycle!Fulfil
<1>8. CASE HandsOver(j) /\ status[j] = "AWAITING_SUCCESSION" /\ job[j].kind = "succession"
  <2> DEFINE p == job[j].pred
  <2>1. p \in Jobs /\ Done(p) /\ pc[p] # "free" /\ status[p] \in Ended \ {"ERROR"}
    BY <1>8, PredFacts, PlaceStatus DEF HandsOver
  <2>2. p \in Made \ LiveJobs
    BY <2>1 DEF Made, LiveJobs, Live, Done
  <2>3. ~Live(j)' /\ status' = [status EXCEPT ![j] = "COMPLETED", ![p] = "DEPRECATED"]
    BY <1>2, <1>8 DEF HandsOver
  <2>4. Lifecycle!HandOver(j, p)
    BY <1>1, <1>8, <2>1, <2>2, <2>3, PromiseNames DEF Lifecycle!HandOver, Made, LiveJobs
  <2>5. QED
    BY <2>1, <2>4 DEF Lifecycle!Fulfil
<1>9. QED
  BY <1>3, <1>4, <1>5, <1>6, <1>7, <1>8, OwnStatus

\* What a caller takes out of the stats is forgotten; it stops no work.
LEMMA ForgetPromise ==
    ASSUME ClientInvariant, BookInvariant', NEW c \in Callers, ClientFrame(c), status' = status
    PROVE  Lifecycle!Fulfil
<1>1. Made' = Made /\ LiveJobs' = LiveJobs
  BY FrameFacts DEF ClientFrame, Made, LiveJobs
<1>2. \A r \in Ranges : stats'[r] = stats[r] \/ stats'[r] = NoJob
  BY DEF ClientFrame
<1>3. StatsJobs' \subseteq StatsJobs
  BY <1>2 DEF StatsJobs
<1>4. StatsJobs' = StatsJobs \ (StatsJobs \ StatsJobs')
  BY <1>3
<1>5. \E S \in SUBSET StatsJobs : StatsJobs' = StatsJobs \ S
  BY <1>4
<1>6. PICK S \in SUBSET StatsJobs : StatsJobs' = StatsJobs \ S
  BY <1>5
<1>7. Lifecycle!Forget(S)
  BY <1>1, <1>6 DEF Lifecycle!Forget, Made, LiveJobs
<1>8. QED
  BY <1>6, <1>7 DEF Lifecycle!Fulfil

\* cancel_all_chunks calls off the chunks it marks, and they are live.
LEMMA CancelAllPromise ==
    ASSUME CarefulClients, ClientInvariant, BookInvariant', NEW c \in Callers, NEW op,
           CancelAll(c, op)
    PROVE  Lifecycle!Fulfil
<1>1. /\ UNCHANGED <<job, pc>>
      /\ status' = [j \in Jobs |-> IF MarkedCancelled(j) THEN "CANCELLED" ELSE status[j]]
  BY DEF CancelAll
<1>2. Made' = Made /\ LiveJobs' = LiveJobs
  BY <1>1 DEF Made, LiveJobs, Live
<1>3. CASE tasks = NoTasks
  <2>1. \A j \in Jobs : ~MarkedCancelled(j)
    BY <1>3 DEF MarkedCancelled, NoTasks
  <2>2. status' = status
    BY <1>1, <2>1, BookTypes DEF ClientInvariant
  <2>3. QED
    BY <2>2, CancelAllFrame, ForgetPromise
<1>4. CASE tasks # NoTasks
  <2>1. StatsJobs' = StatsJobs
    BY <1>4 DEF CancelAll, bookVars, StatsJobs
  <2>2. \E S \in SUBSET Jobs : S = {j \in Jobs : MarkedCancelled(j)}
    OBVIOUS
  <2>3. PICK S \in SUBSET Jobs : S = {j \in Jobs : MarkedCancelled(j)}
    BY <2>2
  <2>4. S \subseteq LiveJobs /\ \A j \in S : status[j] \in {"PENDING", "AWAITING_SUCCESSION"}
    BY <2>3, MarkedFacts DEF LiveJobs
  <2>5. status' = [j \in Jobs |-> IF j \in S THEN "CANCELLED" ELSE status[j]]
    BY <1>1, <2>3
  <2>6. Lifecycle!CallOff(S)
    BY <1>2, <2>1, <2>4, <2>5 DEF Lifecycle!CallOff, Made, LiveJobs
  <2>7. QED
    BY <2>4, <2>6 DEF Lifecycle!Fulfil, LiveJobs
<1>5. QED
  BY <1>3, <1>4

\* start_chunk and resize_chunk launch a chunk, which takes the place of the
\* one its range had.
LEMMA CreatePromise ==
    ASSUME ClientInvariant, BookInvariant', NEW j, NEW kind, NEW r, NEW pred, NEW awaits,
           Creates(j, kind, r, pred, awaits)
    PROVE  Lifecycle!Fulfil
<1>1. /\ j \in Jobs /\ r \in Ranges /\ pc[j] = "free" /\ pc'[j] = "created"
      /\ status'[j] \in {"PENDING", "AWAITING_SUCCESSION"}
      /\ \A k \in Jobs \ {j} : pc'[k] = pc[k] /\ status'[k] = status[k]
      /\ stats'[r] = j
      /\ \A q \in Ranges \ {r} : stats'[q] = stats[q]
  BY DEF Creates
<1>2. j \notin Made /\ Made' = Made \union {j}
  BY <1>1 DEF Made
<1>3. LiveJobs' = LiveJobs \union {j}
  BY <1>1, CreateFacts DEF LiveJobs
<1>4. \E s \in {"PENDING", "AWAITING_SUCCESSION"} : status' = [status EXCEPT ![j] = s]
  <2>1. status \in [Jobs -> Status] /\ status' \in [Jobs -> Status]
    BY BookTypes DEF ClientInvariant, BookInvariant, TypeOK
  <2>2. status' = [status EXCEPT ![j] = status'[j]]
    BY <1>1, <2>1
  <2>3. QED
    BY <1>1, <2>2
<1>5. \E old \in {{}} \union {{k} : k \in StatsJobs} : StatsJobs' = (StatsJobs \ old) \union {j}
  <2>1. \A q \in Ranges \ {r} : stats[q] # stats[r] \/ stats[r] = NoJob
    BY <1>1 DEF ClientInvariant, BookInvariant, BooksAgree
  <2>2. StatsJobs' = (StatsJobs \ {stats[r]}) \union {j}
    <3>1. ASSUME NEW k \in StatsJobs' PROVE k \in (StatsJobs \ {stats[r]}) \union {j}
      <4>1. PICK q \in Ranges : stats'[q] = k /\ k # NoJob
        BY DEF StatsJobs
      <4>2. QED
        BY <1>1, <2>1, <4>1 DEF StatsJobs
    <3>2. ASSUME NEW k \in StatsJobs, k # stats[r] PROVE k \in StatsJobs'
      <4>1. PICK q \in Ranges : stats[q] = k /\ k # NoJob
        BY DEF StatsJobs
      <4>2. q # r /\ stats'[q] = k
        BY <1>1, <3>2, <4>1
      <4>3. QED
        BY <4>1, <4>2 DEF StatsJobs
    <3>3. j \in StatsJobs'
      BY <1>1, JobNumbers DEF StatsJobs
    <3>4. QED
      BY <3>1, <3>2, <3>3
  <2>3. CASE stats[r] = NoJob
    <3>1. StatsJobs \ {stats[r]} = StatsJobs
      BY <2>3 DEF StatsJobs
    <3>2. StatsJobs' = (StatsJobs \ {}) \union {j}
      BY <2>2, <3>1
    <3>3. QED
      BY <3>2
  <2>4. CASE stats[r] # NoJob
    <3>1. stats[r] \in StatsJobs
      BY <1>1, <2>4 DEF StatsJobs
    <3>2. QED
      BY <2>2, <3>1
  <2>5. QED
    BY <2>3, <2>4
<1>6. Lifecycle!Launch(j)
  BY <1>2, <1>3, <1>4, <1>5 DEF Lifecycle!Launch, Made, LiveJobs
<1>7. QED
  BY <1>1, <1>6 DEF Lifecycle!Fulfil

LEMMA CallerPromise ==
    ASSUME CarefulClients, ClientInvariant, BookInvariant', Request \/ \E c \in Callers : Continue(c)
    PROVE  Lifecycle!Fulfil
<1>1. CASE \E j, kind, r, pred, awaits : Creates(j, kind, r, pred, awaits)
  BY <1>1, CreatePromise
<1>2. CASE status' = status /\ \E c \in Callers : ClientFrame(c)
  BY <1>2, ForgetPromise
<1>3. CASE \E c \in Callers, op \in Operations : CancelAll(c, op)
  BY <1>3, CancelAllPromise
<1>4. ASSUME NEW r \in Starts, StartChunk(r)
      PROVE  \E j, kind, q, pred, awaits : Creates(j, kind, q, pred, awaits)
  BY <1>4, StartCreates
<1>5. ASSUME NEW p \in Resizes, ResizeChunk(p[1], p[2])
      PROVE  \E j, kind, q, pred, awaits : Creates(j, kind, q, pred, awaits)
  BY <1>5, ResizeCreates
<1>6. ASSUME NEW c \in Callers, NEW op \in Operations,
             (\E r \in Ranges : CancelOrDelete(c, op, r)) \/ WaitBegin(c, op)
      PROVE  status' = status /\ ClientFrame(c)
  <2>1. status' = status
    BY <1>6 DEF CancelOrDelete, WaitBegin, statVars
  <2>2. ClientFrame(c)
    BY <1>6, CancelOrDeleteFrame, WaitFrame
  <2>3. QED
    BY <2>1, <2>2
<1>7. ASSUME NEW c \in Callers, Continue(c)
      PROVE  status' = status /\ ClientFrame(c)
  <2>1. status' = status
    BY <1>7 DEF Continue, CancelInitiated, CancelJoined, Unlink, WakeUp, WaitEnd, GatherEnd,
                Purge, statVars
  <2>2. QED
    BY <1>7, <2>1, CancelInitiatedFrame, CancelJoinedFrame, UnlinkFrame, WaitFrame,
       WaitEndFrame, GatherEndFrame, PurgeFrame DEF Continue
<1>8. QED
  BY <1>1, <1>2, <1>3, <1>4, <1>5, <1>6, <1>7 DEF Request

\* The manager implements ChunkLifecycle: whatever tasks, cancellations and
\* successions do to each other, a status moves only as promised, and a chunk
\* stops being active no later than the work on it.
THEOREM ManagerKeepsPromise ==
    ASSUME CarefulClients
    PROVE  Spec => KeepsPromise
<1>1. ASSUME ClientInvariant, ClientInvariant', [Next]_vars
      PROVE  [Lifecycle!Fulfil]_(Lifecycle!promiseVars)
  <2>1. ASSUME NEW j \in Jobs, JobStep(j)
        PROVE  Lifecycle!Fulfil \/ UNCHANGED Lifecycle!promiseVars
    BY <1>1, <2>1, JobStepShape, TaskPromise DEF ClientInvariant
  <2>2. CASE Request \/ \E c \in Callers : Continue(c)
    BY <1>1, <2>2, CallerPromise DEF ClientInvariant
  <2>3. CASE MonitorEnds
    BY <2>3 DEF MonitorEnds, taskVars, statVars, Lifecycle!promiseVars, StatsJobs, Live
  <2>4. CASE UNCHANGED vars
    BY <2>4 DEF vars, Lifecycle!promiseVars, StatsJobs, Live
  <2>5. QED
    BY <1>1, <2>1, <2>2, <2>3, <2>4 DEF Next
<1>2. QED
  BY <1>1, ClientsInOrder, PromiseInit, PTL DEF Spec, KeepsPromise, Lifecycle!Promise

(***************************************************************************)
(* One caller at a time                                                    *)
(***************************************************************************)

\* Where a step leaves the caller, and what it promises there.
Rested(c) ==
    /\ call'[c].at # "raised" /\ call'[c].op # "cleanup"
    /\ call'[c].at \in {"init", "join"} => tasks'[call'[c].range] # NoJob

LEMMA RestedKeeps ==
    ASSUME LoneClient, NEW c \in Callers, Rested(c),
           \A r \in Ranges : tasks'[r] # NoJob => stats'[r] # NoJob
    PROVE  RaiseInvariant'
BY DEF LoneClient, Rested, RaiseInvariant, EntriesStay, NoCallRaises

LEMMA ReturnRests ==
    ASSUME BookInvariant, NEW c \in Callers, Return(c)
    PROVE  Rested(c)
BY BookTypes DEF Return, Idle, Rested

LEMMA SuspendRests ==
    ASSUME BookInvariant, NEW c \in Callers, NEW op, NEW at, NEW range, NEW jobs, NEW files,
           Suspend(c, op, at, range, jobs, files), op # "cleanup", at # "raised",
           at \in {"init", "join"} => tasks'[range] # NoJob
    PROVE  Rested(c)
<1>1. call'[c].op = op /\ call'[c].at = at /\ call'[c].range = range
  BY BookTypes DEF Suspend
<1>2. QED
  BY <1>1 DEF Rested

\* delete_chunk_data pops the stats of a range that has no task any more.
LEMMA PopRaisesNothing ==
    ASSUME LoneClient, ClientInvariant, RaiseInvariant, NEW c \in Callers, NEW r \in Ranges,
           PopStats(c, r), tasks'[r] = NoJob, \A q \in Ranges : tasks'[q] \in {tasks[q], NoJob}
    PROVE  RaiseInvariant'
<1>1. Rested(c)
  <2>1. CASE stats[r] = NoJob
    BY <2>1, ReturnRests DEF PopStats, ClientInvariant
  <2>2. CASE stats[r] # NoJob
    <3>1. Suspend(c, "delete", "unlink", r, {}, {})
      BY <2>2 DEF PopStats
    <3>2. QED
      BY <3>1, SuspendRests DEF ClientInvariant
  <2>3. QED
    BY <2>1, <2>2
<1>2. \A q \in Ranges : tasks'[q] # NoJob => stats'[q] # NoJob
  BY BookTypes DEF PopStats, RaiseInvariant, EntriesStay, ClientInvariant
<1>3. QED
  BY <1>1, <1>2, RestedKeeps

\* A chunk whose task runs is active, unless some caller has called it off and
\* waits for it: nobody but the only caller could.
LEMMA LiveIsCancellable ==
    ASSUME LoneClient, ClientInvariant, NEW c \in Callers, Outside(c), NEW j \in Jobs, Live(j)
    PROVE  status[j] \in Cancellable
<1>1. \A d \in Callers : call[d].at \in {"idle", "raised"}
  BY DEF LoneClient, Outside
<1>2. ~Awaited(j)
  BY <1>1 DEF Awaited
<1>3. /\ job[j].kind = "succession" => ~cancelling[j] /\ pc[j] # "stopping"
      /\ pc[j] = "created" => ~cancelling[j]
  BY <1>2 DEF ClientInvariant, CarefulInvariant, CancellationsAwaited
<1>4. /\ job[j].kind \in {"download", "succession"}
      /\ pc[j] \in {"opening", "streaming", "flushing"} => job[j].kind = "download"
      /\ pc[j] \in {"awaiting", "cropping", "shifting", "moving", "stopping"}
            => job[j].kind = "succession"
      /\ pc[j] \in Place
  BY PlaceKinds, PlaceStatus, BookTypes DEF ClientInvariant, Live, Done
<1>5. QED
  BY <1>3, <1>4, PlaceStatus DEF Marked, Cancellable, Place, Live

LEMMA RequestRaisesNothing ==
    ASSUME LoneClient, ClientInvariant, RaiseInvariant, NEW c \in Callers, NEW op \in Operations,
           \/ \E r \in Ranges : CancelOrDelete(c, op, r)
           \/ WaitBegin(c, op)
           \/ CancelAll(c, op)
    PROVE  RaiseInvariant'
<1>1. \A r \in Ranges : tasks[r] # NoJob => stats[r] # NoJob
  BY DEF RaiseInvariant, EntriesStay
<1>2. ASSUME NEW r \in Ranges, CancelOrDelete(c, op, r) PROVE RaiseInvariant'
  <2>1. tasks' = tasks /\ Outside(c) /\ op # "cleanup"
    BY <1>2 DEF CancelOrDelete
  <2>2. CASE tasks[r] # NoJob /\ stats' = stats
             /\ \E at \in {"init", "join"} : Suspend(c, op, at, r, {tasks[r]}, {})
    <3>1. Rested(c)
      BY <2>1, <2>2, SuspendRests DEF ClientInvariant
    <3>2. QED
      BY <1>1, <2>1, <2>2, <3>1, RestedKeeps
  <2>3. CASE tasks[r] = NoJob /\ PopStats(c, r)
    BY <2>1, <2>3, PopRaisesNothing
  <2>4. ASSUME op = "delete", tasks[r] # NoJob, stats[r] # NoJob,
               status[stats[r]] \notin Cancellable
        PROVE  FALSE
    <3>1. Live(tasks[r]) /\ tasks[r] \in Jobs /\ stats[r] = tasks[r]
      BY <1>2, <2>4, BookTypes DEF CancelOrDelete, MayDelete, LoneClient, ClientInvariant,
         BookInvariant, BooksAgree
    <3>2. QED
      BY <2>1, <2>4, <3>1, LiveIsCancellable
  <2>5. \/ tasks[r] # NoJob /\ stats' = stats
           /\ \E at \in {"init", "join"} : Suspend(c, op, at, r, {tasks[r]}, {})
        \/ tasks[r] = NoJob /\ PopStats(c, r)
        \/ /\ op = "delete" /\ tasks[r] # NoJob /\ stats[r] # NoJob
           /\ status[stats[r]] \notin Cancellable
    BY <1>1, <1>2 DEF CancelOrDelete
  <2>6. QED
    BY <2>2, <2>3, <2>4, <2>5
<1>3. CASE WaitBegin(c, op)
  <2>1. tasks' = tasks /\ stats' = stats /\ Suspend(c, op, "wait", NoRange, Tracked, {})
        /\ op # "cleanup"
    BY <1>3 DEF WaitBegin, WaitOperations, bookVars
  <2>2. Rested(c)
    BY <2>1, SuspendRests DEF ClientInvariant
  <2>3. QED
    BY <1>1, <2>1, <2>2, RestedKeeps
<1>4. CASE CancelAll(c, op)
  <2>1. op # "cleanup"
    BY DEF LoneClient
  <2>2. CASE ForgetAll(c, op)
    <3>1. Rested(c)
      BY <2>1, <2>2, ReturnRests DEF ForgetAll, ClientInvariant
    <3>2. QED
      BY <2>2, <3>1, RestedKeeps DEF ForgetAll, NoTasks
  <2>3. CASE Suspend(c, op, "gather", NoRange, Tracked, {}) /\ UNCHANGED bookVars
    <3>1. Rested(c)
      BY <2>1, <2>3, SuspendRests DEF ClientInvariant
    <3>2. QED
      BY <1>1, <2>3, <3>1, RestedKeeps DEF bookVars
  <2>4. QED
    BY <1>4, <2>2, <2>3 DEF CancelAll
<1>5. QED
  BY <1>2, <1>3, <1>4

LEMMA ContinueRaisesNothing ==
    ASSUME LoneClient, ClientInvariant, RaiseInvariant, NEW c \in Callers, Continue(c)
    PROVE  RaiseInvariant'
<1>1. /\ \A r \in Ranges : tasks[r] # NoJob => stats[r] # NoJob
      /\ call[c].at \in {"init", "join"} =>
            call[c].range \in Ranges /\ tasks[call[c].range] # NoJob
      /\ call[c].op # "cleanup"
  BY JoinFacts DEF RaiseInvariant, EntriesStay
<1>2. call \in [Callers -> CallRecord] /\ tasks \in [Ranges -> Jobs \union {NoJob}]
  BY BookTypes DEF ClientInvariant
<1>3. CASE CancelInitiated(c) \/ WakeUp(c)
  <2>1. /\ tasks' = tasks /\ stats' = stats
        /\ \/ call' = [call EXCEPT ![c].at = "woken"]
           \/ call' = [call EXCEPT ![c].at = "join"] /\ call[c].at = "init"
    BY <1>3 DEF CancelInitiated, WakeUp, bookVars
  <2>2. /\ call'[c].op = call[c].op /\ call'[c].range = call[c].range
        /\ call'[c].at = "woken" \/ (call'[c].at = "join" /\ call[c].at = "init")
    BY <1>2, <2>1 DEF CallRecord
  <2>3. Rested(c)
    BY <1>1, <2>1, <2>2 DEF Rested
  <2>4. QED
    BY <1>1, <2>1, <2>3, RestedKeeps
<1>4. CASE CancelJoined(c)
  <2> DEFINE r == call[c].range
  <2>1. r \in Ranges /\ tasks' = [tasks EXCEPT ![r] = NoJob]
        /\ (PopStats(c, r) \/ (Return(c) /\ stats' = stats))
    BY <1>1, <1>4 DEF CancelJoined
  <2>2. tasks'[r] = NoJob /\ \A q \in Ranges : tasks'[q] \in {tasks[q], NoJob}
    BY <1>2, <2>1
  <2>3. CASE PopStats(c, r)
    BY <2>1, <2>2, <2>3, PopRaisesNothing
  <2>4. CASE Return(c) /\ stats' = stats
    BY <1>1, <2>2, <2>4, ReturnRests, RestedKeeps DEF ClientInvariant
  <2>5. QED
    BY <2>1, <2>3, <2>4
<1>5. CASE Unlink(c)
  BY <1>1, <1>5, ReturnRests, RestedKeeps DEF Unlink, bookVars, ClientInvariant
<1>6. CASE WaitEnd(c)
  <2>1. \A r \in Collected(c) : r \in Ranges /\ tasks[r] \in Jobs
    BY <1>2 DEF Collected, CallRecord
  <2>2. \A r \in Collected(c) : stats[r] # NoJob
    BY <1>1, <2>1, JobNumbers
  <2>3. /\ tasks' = [r \in Ranges |-> IF r \in Collected(c) THEN NoJob ELSE tasks[r]]
        /\ Return(c) /\ stats' = stats
    BY <1>6, <2>2 DEF WaitEnd
  <2>4. QED
    BY <1>1, <2>3, ReturnRests, RestedKeeps DEF ClientInvariant
<1>7. CASE GatherEnd(c)
  <2>1. tasks' = NoTasks /\ Return(c)
    BY <1>1, <1>7 DEF GatherEnd, ForgetAll
  <2>2. QED
    BY <2>1, ReturnRests, RestedKeeps DEF NoTasks, ClientInvariant
<1>8. CASE Purge(c)
  BY <1>1, <1>8 DEF Purge, ClientInvariant, CarefulInvariant, CallsAgree, CallAgrees
<1>9. QED
  BY <1>3, <1>4, <1>5, <1>6, <1>7, <1>8 DEF Continue

\* When one caller at a time cancels, deletes and waits, whatever the others
\* start and resize meanwhile, no call ends in a KeyError on a range that was
\* in the dictionary when the call looked (cancel_chunk, delete_chunk_data and
\* the waits).  It is not so for two: both may cancel the same task, and the
\* later one finds the entry gone.
THEOREM LoneCallsReturn ==
    ASSUME LoneClient
    PROVE  Spec => []NoCallRaises
<1>1. CarefulClients
  BY DEF LoneClient
<1>2. Init => RaiseInvariant
  <2> SUFFICES ASSUME Init PROVE RaiseInvariant
    OBVIOUS
  <2>1. tasks = NoTasks /\ \A c \in Callers : call[c].at = "idle" /\ call[c].op = "none"
    BY DEF Init, Idle
  <2>2. QED
    BY <2>1 DEF NoTasks, RaiseInvariant, EntriesStay, NoCallRaises
<1>3. ASSUME ClientInvariant, RaiseInvariant, [Next]_vars PROVE RaiseInvariant'
  <2>1. CASE UNCHANGED <<stats, tasks, call>>
    BY <1>3, <2>1 DEF RaiseInvariant, EntriesStay, NoCallRaises
  <2>2. ASSUME NEW j, NEW kind, NEW r, NEW pred, NEW awaits, Creates(j, kind, r, pred, awaits)
        PROVE  RaiseInvariant'
    <3>1. /\ call' = call /\ stats'[r] # NoJob /\ tasks'[r] # NoJob
          /\ \A q \in Ranges \ {r} : stats'[q] = stats[q] /\ tasks'[q] = tasks[q]
      BY <2>2, JobNumbers DEF Creates
    <3>2. \A q \in Ranges : tasks[q] # NoJob => tasks'[q] # NoJob
      BY <3>1
    <3>3. \A c \in Callers : call[c].at \in {"init", "join"} => call[c].range \in Ranges
      BY <1>3, JoinFacts
    <3>4. QED
      BY <1>3, <3>1, <3>2, <3>3 DEF RaiseInvariant, EntriesStay, NoCallRaises
  <2>3. ASSUME NEW r \in Starts, StartChunk(r) PROVE RaiseInvariant'
    BY <1>1, <1>3, <2>2, <2>3, StartCreates
  <2>4. ASSUME NEW p \in Resizes, ResizeChunk(p[1], p[2]) PROVE RaiseInvariant'
    BY <1>1, <1>3, <2>2, <2>4, ResizeCreates
  <2>5. ASSUME NEW j \in Jobs, JobStep(j) PROVE RaiseInvariant'
    BY <1>3, <2>1, <2>5, JobStepShape, ShapeFrame DEF ClientInvariant
  <2>6. CASE MonitorEnds \/ UNCHANGED vars
    BY <2>1, <2>6 DEF MonitorEnds, clientVars, vars
  <2>7. QED
    BY <1>3, <2>3, <2>4, <2>5, <2>6, RequestRaisesNothing, ContinueRaisesNothing DEF Next, Request
<1>4. RaiseInvariant => NoCallRaises
  BY DEF RaiseInvariant
<1>5. QED
  BY <1>1, <1>2, <1>3, <1>4, ClientsInOrder, PTL DEF Spec
=============================================================================
