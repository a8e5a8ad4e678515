------------------------- MODULE ChunkManagerProofs -------------------------
(***************************************************************************)
(* Proofs about ChunkManager for every file, every set of ranges, every    *)
(* number of callers and every rule they keep or break: BookInvariant is   *)
(* inductive, and TypeOK and BooksAgree follow from it.                    *)
(***************************************************************************)
EXTENDS ChunkProperties, TLAPS

(***************************************************************************)
(* The invariant                                                           *)
(***************************************************************************)

\* What a job's kind says of its place: only what exists runs, a download is
\* never where a succession is, and a recovered chunk has no task.
KindsAgree ==
    \A j \in Jobs :
        /\ pc[j] = "free" <=> job[j].kind = "none"
        /\ pc[j] # "free" => job[j].range \in Ranges
        /\ pc[j] \in {"opening", "streaming", "flushing"} => job[j].kind = "download"
        /\ pc[j] \in {"awaiting", "cropping", "shifting", "moving", "stopping"}
              => job[j].kind = "succession"
        /\ pc[j] \in {"awaiting", "stopping"} => job[j].awaits \in Jobs
        /\ job[j].kind = "recovered" => Done(j)

\* A succession inherits from a chunk that contains it and that is no running
\* succession itself, so the predecessor's byte count can only grow under it;
\* what crop_file has checked stays true until the file is renamed.
SuccessionsAgree ==
    \A j \in Jobs : job[j].kind = "succession" =>
        /\ Live(j) => status[j] \in {"AWAITING_SUCCESSION", "CANCELLED"}
        /\ job[j].pred \in Jobs
        /\ job[job[j].pred].kind = "download" \/ Done(job[j].pred)
        /\ job[job[j].pred].kind # "none"
        /\ Contains(job[job[j].pred].range, job[j].range)
        /\ pc[j] \in {"shifting", "moving"} => StartCrop(j) <= EndCrop(j)

\* The inductive invariant: BooksAgree and TypeOK are not inductive alone.
BookInvariant == TypeOK /\ KindsAgree /\ SuccessionsAgree /\ BooksAgree

(***************************************************************************)
(* Ranges and files                                                        *)
(***************************************************************************)

\* The bounds of a range are numbers, in order (ChunkRange).
LEMMA RangeFacts ==
    ASSUME NEW r \in Ranges
    PROVE  /\ r.start \in Nat
           /\ r.end \in Nat \union {None}
           /\ r.end # None => r.start <= r.end
           /\ r # NoRange
BY RangesAssumption DEF ChunkRange, None, NoRange

\* A write keeps the type of a file.
LEMMA WrittenType ==
    ASSUME NEW file \in ChunkFile, NEW offset \in Nat, NEW n \in Nat
    PROVE  Written(file, offset, n) \in ChunkFile
<1> DEFINE len  == IF offset + n > file.len THEN offset + n ELSE file.len
           torn == file.torn \/ offset # file.len
<1>1. len \in Nat /\ torn \in BOOLEAN
  BY DEF ChunkFile
<1>2. Written(file, offset, n) = [file EXCEPT !.len = len, !.torn = torn]
  BY Zenon DEF Written
<1> HIDE DEF len, torn
<1>3. [file EXCEPT !.len = len, !.torn = torn] \in ChunkFile
  BY <1>1 DEF ChunkFile
<1>4. QED
  BY <1>2, <1>3

\* So does a crop of at least one byte that starts inside the file.
LEMMA CroppedType ==
    ASSUME NEW file \in ChunkFile, NEW first \in Nat, NEW last \in Int, first <= last
    PROVE  Cropped(file, first, last) \in ChunkFile
<1> DEFINE size == last - first + 1
           len  == IF size < file.len THEN size ELSE file.len
           torn == file.torn \/ file.len <= last
           from == file.from + first
<1>1. size \in Nat /\ len \in Nat /\ from \in Nat /\ torn \in BOOLEAN
  BY DEF ChunkFile
<1>2. Cropped(file, first, last) =
        IF first = 0 THEN [file EXCEPT !.len = len]
        ELSE [file EXCEPT !.from = from, !.len = size, !.torn = torn]
  BY Zenon DEF Cropped
<1> HIDE DEF size, len, torn, from
<1>3. /\ [file EXCEPT !.len = len] \in ChunkFile
      /\ [file EXCEPT !.from = from, !.len = size, !.torn = torn] \in ChunkFile
  BY <1>1 DEF ChunkFile
<1>4. QED
  BY <1>2, <1>3

\* And a crop that was stopped somewhere.
LEMMA CropStoppedType ==
    ASSUME NEW file \in ChunkFile, NEW first \in Nat, NEW last \in Int, first <= last,
           NEW left \in CropStopped(file, first, last)
    PROVE  left \in ChunkFile
<1> DEFINE size == last - first + 1
           torn == file.torn \/ file.len < size
           uncopied == [file EXCEPT !.len = size, !.torn = torn]
<1>1. Cropped(file, first, last) \in ChunkFile
  BY CroppedType
<1>2. size \in Nat /\ torn \in BOOLEAN
  BY DEF ChunkFile
<1>3. uncopied \in ChunkFile
  <2> HIDE DEF size, torn
  <2>1. QED
    BY <1>2 DEF ChunkFile
<1>4. [uncopied EXCEPT !.torn = TRUE] \in ChunkFile
  <2> HIDE DEF uncopied
  <2>1. QED
    BY <1>3 DEF ChunkFile
<1>5. [file EXCEPT !.torn = TRUE] \in ChunkFile
  BY DEF ChunkFile
<1>6. left \in {file, Cropped(file, first, last), uncopied, [uncopied EXCEPT !.torn = TRUE],
               [file EXCEPT !.torn = TRUE]}
  BY DEF CropStopped
<1>7. QED
  BY <1>1, <1>3, <1>4, <1>5, <1>6

\* An empty file and no file are files.
LEMMA NewFileType ==
    NoFile \in ChunkFile /\ \A start \in Nat : Opened(start) \in ChunkFile
BY DEF ChunkFile, NoFile, Opened, Whole

(***************************************************************************)
(* Steps of tasks.  Every one of them moves one job, and leaves the        *)
(* dictionaries and what the jobs are for alone.                           *)
(***************************************************************************)

\* What crop_file is asked for is a number of bytes of the predecessor's file.
LEMMA CropBounds ==
    ASSUME BookInvariant, NEW j \in Jobs, job[j].kind = "succession"
    PROVE  /\ job[j].pred \in Jobs
           /\ job[j].range \in Ranges
           /\ job[job[j].pred].range \in Ranges
           /\ StartCrop(j) \in Nat
           /\ EndCrop(j) \in Int
<1>1. job[j].pred \in Jobs /\ job[job[j].pred].kind # "none"
      /\ Contains(job[job[j].pred].range, job[j].range)
  BY DEF BookInvariant, SuccessionsAgree
<1>2. job[j].range \in Ranges /\ job[job[j].pred].range \in Ranges
  BY <1>1 DEF BookInvariant, KindsAgree
<1>3. bytes[job[j].pred] \in Nat
  BY <1>1 DEF BookInvariant, TypeOK
<1>4. QED
  BY <1>1, <1>2, <1>3, RangeFacts DEF StartCrop, EndCrop, Contains, None

\* Where a job of each kind may be.
PlaceOf(j, place) ==
    /\ place # "free"
    /\ place \in {"opening", "streaming", "flushing"} => job[j].kind = "download"
    /\ place \in {"awaiting", "cropping", "shifting", "moving", "stopping"}
          => job[j].kind = "succession"
    /\ place \in {"awaiting", "stopping"} => job[j].awaits \in Jobs
    /\ job[j].kind = "recovered" => place \in {"done", "dropped"}

\* A step of the task of job j keeps the invariant when it moves j alone, to a
\* place of its kind; counts bytes up, but for a succession that ends; leaves
\* the status of the other live successions alone; and crops within bounds.
LEMMA TaskStepKeeps ==
    ASSUME BookInvariant, TypeOK', NEW j \in Jobs, Live(j),
           job' = job, stats' = stats, tasks' = tasks,
           PlaceOf(j, pc'[j]),
           \A k \in Jobs \ {j} :
              /\ pc'[k] = pc[k]
              /\ bytes'[k] = bytes[k]
              /\ job[k].kind = "succession" /\ Live(k) => status'[k] = status[k],
           job[j].kind = "download" => bytes'[j] >= bytes[j],
           job[j].kind = "succession" /\ pc'[j] \notin {"done", "dropped"}
              => status'[j] \in {"AWAITING_SUCCESSION", "CANCELLED"},
           pc'[j] \in {"shifting", "moving"} => StartCrop(j) <= EndCrop(j)
    PROVE  BookInvariant'
<1>1. KindsAgree'
  <2> DEFINE Agrees(k) ==
          /\ pc[k] = "free" <=> job[k].kind = "none"
          /\ pc[k] # "free" => job[k].range \in Ranges
          /\ pc[k] \in {"opening", "streaming", "flushing"} => job[k].kind = "download"
          /\ pc[k] \in {"awaiting", "cropping", "shifting", "moving", "stopping"}
                => job[k].kind = "succession"
          /\ pc[k] \in {"awaiting", "stopping"} => job[k].awaits \in Jobs
          /\ job[k].kind = "recovered" => Done(k)
  <2>1. \A k \in Jobs : Agrees(k)
    BY DEF BookInvariant, KindsAgree
  <2>2. \A k \in Jobs \ {j} : Agrees(k)'
    BY <2>1 DEF Done
  <2>3. Agrees(j)'
    BY <2>1 DEF PlaceOf, Live, Done
  <2>4. QED
    BY <2>2, <2>3 DEF KindsAgree
<1>2. BooksAgree'
  <2>1. /\ stats \in [Ranges -> Jobs \union {NoJob}]
        /\ tasks \in [Ranges -> Jobs \union {NoJob}]
    BY DEF BookInvariant, TypeOK
  <2>2. \A k \in Jobs : pc[k] # "free" => pc'[k] # "free"
    BY DEF PlaceOf
  <2>3. QED
    BY <2>1, <2>2 DEF BookInvariant, BooksAgree
<1>3. SuccessionsAgree'
  <2> SUFFICES ASSUME NEW k \in Jobs, job[k].kind = "succession"
               PROVE  /\ Live(k)' => status'[k] \in {"AWAITING_SUCCESSION", "CANCELLED"}
                      /\ job[k].pred \in Jobs
                      /\ job[job[k].pred].kind = "download" \/ Done(job[k].pred)'
                      /\ job[job[k].pred].kind # "none"
                      /\ Contains(job[job[k].pred].range, job[k].range)
                      /\ pc'[k] \in {"shifting", "moving"} => StartCrop(k)' <= EndCrop(k)'
    BY DEF SuccessionsAgree
  <2>1. /\ Live(k) => status[k] \in {"AWAITING_SUCCESSION", "CANCELLED"}
        /\ job[k].pred \in Jobs
        /\ job[job[k].pred].kind = "download" \/ Done(job[k].pred)
        /\ job[job[k].pred].kind # "none"
        /\ Contains(job[job[k].pred].range, job[k].range)
        /\ pc[k] \in {"shifting", "moving"} => StartCrop(k) <= EndCrop(k)
    BY DEF BookInvariant, SuccessionsAgree
  <2>2. Live(k)' => status'[k] \in {"AWAITING_SUCCESSION", "CANCELLED"}
    BY <2>1 DEF Live
  <2>3. job[job[k].pred].kind = "download" \/ Done(job[k].pred)'
    BY <2>1 DEF Done, Live
  <2>4. ASSUME pc'[k] \in {"shifting", "moving"}
        PROVE  StartCrop(k)' <= EndCrop(k)'
    <3>1. bytes'[job[k].pred] >= bytes[job[k].pred]
      <4>1. CASE job[k].pred = j
        BY <2>1, <4>1 DEF Live, Done
      <4>2. CASE job[k].pred # j
        BY <2>1, <4>2 DEF BookInvariant, TypeOK
      <4>3. QED
        BY <4>1, <4>2
    <3>2. StartCrop(k)' = StartCrop(k)
      BY DEF StartCrop
    <3>3. EndCrop(k)' >= EndCrop(k) /\ EndCrop(k)' \in Int
      <4>1. bytes[job[k].pred] \in Nat /\ bytes'[job[k].pred] \in Nat
        BY <2>1 DEF BookInvariant, TypeOK
      <4>2. EndCrop(k) \in Int
        BY CropBounds
      <4>3. CASE job[k].range.end # None
        BY <4>2, <4>3 DEF EndCrop
      <4>4. CASE job[k].range.end = None
        BY <3>1, <4>1, <4>4 DEF EndCrop
      <4>5. QED
        BY <4>3, <4>4
    <3>4. StartCrop(k) <= EndCrop(k)
      BY <2>1, <2>4
    <3>5. QED
      BY <3>2, <3>3, <3>4, CropBounds
  <2>5. QED
    BY <2>1, <2>2, <2>3, <2>4
<1>4. QED
  BY <1>1, <1>2, <1>3 DEF BookInvariant

\* A task that ends, whatever its status and its outcome are.
LEMMA FinishKeeps ==
    ASSUME BookInvariant, NEW j \in Jobs, Live(j),
           NEW s \in Status, NEW outcome \in {"none", "refused", "error", "cancelled"},
           Finish(j, s, outcome), UNCHANGED <<job, bytes, bookVars, clientVars>>,
           limit' \in [Jobs -> Nat], observer' \in [Jobs -> Jobs \union {NoJob}],
           disk' \in [Ranges -> ChunkFile]
    PROVE  BookInvariant'
<1>1. TypeOK'
  BY DEF BookInvariant, TypeOK, Finish, Place, bookVars, clientVars
<1>2. \A k \in Jobs \ {j} : pc'[k] = pc[k] /\ bytes'[k] = bytes[k] /\ status'[k] = status[k]
  BY DEF BookInvariant, TypeOK, Finish
<1>3. pc'[j] = "done" /\ bytes'[j] = bytes[j] /\ bytes[j] \in Nat
  BY DEF BookInvariant, TypeOK, Finish
<1>4. PlaceOf(j, pc'[j])
  BY <1>3 DEF PlaceOf
<1>5. QED
  BY <1>1, <1>2, <1>3, <1>4, TaskStepKeeps DEF bookVars

\* A task that goes on to its next await, and changes nothing but a status
\* that is not a succession's, and its own file or handle.
LEMMA AdvanceKeeps ==
    ASSUME BookInvariant, NEW j \in Jobs, Live(j),
           NEW place \in Place, pc' = [pc EXCEPT ![j] = place], PlaceOf(j, place),
           place \in {"shifting", "moving"} => StartCrop(j) <= EndCrop(j),
           cancelling' \in [Jobs -> BOOLEAN],
           exc' \in [Jobs -> {"none", "refused", "error", "cancelled"}],
           path' \in [Jobs -> Ranges \union {NoRange}],
           disk' \in [Ranges -> ChunkFile],
           limit' = limit, observer' \in [Jobs -> Jobs \union {NoJob}],
           UNCHANGED <<job, bookVars, clientVars>>,
           bytes' \in [Jobs -> Nat], bytes'[j] >= bytes[j],
           status' \in [Jobs -> Status],
           \A k \in Jobs \ {j} : bytes'[k] = bytes[k] /\ status'[k] = status[k],
           job[j].kind = "succession" => status'[j] \in {status[j], "CANCELLED"}
    PROVE  BookInvariant'
<1>1. TypeOK'
  BY DEF BookInvariant, TypeOK, bookVars, clientVars
<1>2. \A k \in Jobs \ {j} : pc'[k] = pc[k]
  BY DEF BookInvariant, TypeOK
<1>3. pc'[j] = place
  BY DEF BookInvariant, TypeOK
<1>4. job[j].kind = "succession" => status'[j] \in {"AWAITING_SUCCESSION", "CANCELLED"}
  BY DEF BookInvariant, SuccessionsAgree
<1>5. QED
  BY <1>1, <1>2, <1>3, <1>4, TaskStepKeeps DEF bookVars

\* task.cancel() marks jobs.
LEMMA CancelledByType ==
    ASSUME TypeOK, NEW S
    PROVE  CancelledBy(S) \in [Jobs -> BOOLEAN]
BY DEF CancelledBy, TypeOK

LEMMA DropKeeps ==
    ASSUME BookInvariant, NEW j \in Jobs, Drop(j)
    PROVE  BookInvariant'
<1>1. Live(j) /\ pc[j] = "created"
  BY DEF Drop, FirstToRun, Live
<1>2. TypeOK'
  BY DEF BookInvariant, TypeOK, Drop, Place, statVars, bookVars, clientVars
<1>3. \A k \in Jobs \ {j} : pc'[k] = pc[k] /\ bytes'[k] = bytes[k] /\ status'[k] = status[k]
  BY DEF BookInvariant, TypeOK, Drop, statVars
<1>4. pc'[j] = "dropped" /\ bytes'[j] = bytes[j] /\ bytes[j] \in Nat
  BY DEF BookInvariant, TypeOK, Drop, statVars
<1>5. PlaceOf(j, pc'[j])
  BY <1>4 DEF PlaceOf
<1>6. job' = job /\ stats' = stats /\ tasks' = tasks
  BY DEF Drop, bookVars
<1>7. QED
  BY <1>1, <1>2, <1>3, <1>4, <1>5, <1>6, TaskStepKeeps

(***************************************************************************)
(* download_chunk_supervised                                               *)
(***************************************************************************)

\* The types the steps of a task start from.
LEMMA TaskTypes ==
    ASSUME TypeOK
    PROVE  /\ cancelling \in [Jobs -> BOOLEAN]
           /\ exc \in [Jobs -> {"none", "refused", "error", "cancelled"}]
           /\ status \in [Jobs -> Status]
           /\ bytes \in [Jobs -> Nat]
           /\ limit \in [Jobs -> Nat]
           /\ observer \in [Jobs -> Jobs \union {NoJob}]
           /\ path \in [Jobs -> Ranges \union {NoRange}]
           /\ disk \in [Ranges -> ChunkFile]
BY DEF TypeOK

\* A worker's job has a range, and the server's bytes start somewhere.
LEMMA WorkerRange ==
    ASSUME BookInvariant, NEW j \in Jobs, job[j].kind = "download"
    PROVE  job[j].range \in Ranges /\ SourceFrom(j) \in Nat
<1>1. job[j].range \in Ranges
  BY DEF BookInvariant, KindsAgree
<1>2. QED
  BY <1>1, RangeFacts DEF SourceFrom

\* A task that goes on and counts nothing.
LEMMA StepKeeps ==
    ASSUME BookInvariant, NEW j \in Jobs, Live(j),
           NEW place \in Place, pc' = [pc EXCEPT ![j] = place], PlaceOf(j, place),
           place \in {"shifting", "moving"} => StartCrop(j) <= EndCrop(j),
           cancelling' \in [Jobs -> BOOLEAN],
           exc' \in [Jobs -> {"none", "refused", "error", "cancelled"}],
           path' \in [Jobs -> Ranges \union {NoRange}],
           disk' \in [Ranges -> ChunkFile],
           UNCHANGED <<job, bytes, limit, observer, bookVars, clientVars>>,
           NEW s \in Status, status' = [status EXCEPT ![j] = s],
           job[j].kind = "succession" => s \in {status[j], "CANCELLED"}
    PROVE  BookInvariant'
<1>1. TypeOK
  BY DEF BookInvariant
<1>2. /\ bytes' \in [Jobs -> Nat] /\ bytes'[j] >= bytes[j]
      /\ observer' \in [Jobs -> Jobs \union {NoJob}]
  BY <1>1, TaskTypes
<1>3. /\ status' \in [Jobs -> Status] /\ status'[j] = s
      /\ \A k \in Jobs \ {j} : bytes'[k] = bytes[k] /\ status'[k] = status[k]
  BY <1>1, TaskTypes
<1>4. QED
  BY <1>2, <1>3, AdvanceKeeps

LEMMA StartDownloadKeeps ==
    ASSUME BookInvariant, NEW j \in Jobs, StartDownload(j)
    PROVE  BookInvariant'
<1>1. Live(j) /\ PlaceOf(j, "opening") /\ "opening" \in Place
  BY DEF StartDownload, FirstToRun, Live, PlaceOf, Place
<1>2. job[j].kind # "succession" /\ "DOWNLOADING" \in Status
  BY DEF StartDownload, Status
<1>3. QED
  BY <1>1, <1>2, TaskTypes, StepKeeps DEF StartDownload, BookInvariant

LEMMA OpenKeeps ==
    ASSUME BookInvariant, NEW j \in Jobs, Open(j)
    PROVE  BookInvariant'
<1>1. job[j].kind = "download"
  BY DEF Open, BookInvariant, KindsAgree
<1>2. Live(j) /\ PlaceOf(j, "streaming") /\ "streaming" \in Place
  BY <1>1 DEF Open, Live, PlaceOf, Place
<1>3. job[j].range \in Ranges /\ Opened(SourceFrom(j)) \in ChunkFile
  BY <1>1, WorkerRange, NewFileType
<1>4. path' \in [Jobs -> Ranges \union {NoRange}] /\ disk' \in [Ranges -> ChunkFile]
  BY <1>3 DEF Open, BookInvariant, TypeOK
<1>5. status[j] \in Status /\ status' = [status EXCEPT ![j] = status[j]]
  BY DEF Open, BookInvariant, TypeOK, statVars
<1>6. QED
  BY <1>1, <1>2, <1>4, <1>5, TaskTypes, StepKeeps DEF Open, BookInvariant, statVars

LEMMA OpenFailsKeeps ==
    ASSUME BookInvariant, NEW j \in Jobs, OpenFails(j)
    PROVE  BookInvariant'
<1>1. Live(j)
  BY DEF OpenFails, Live
<1>2. QED
  BY <1>1, TaskTypes, FinishKeeps DEF OpenFails, Status, BookInvariant

\* What counting n bytes does to the books of the stats.
LEMMA CountType ==
    ASSUME BookInvariant, NEW j \in Jobs, NEW n \in Nat, Count(j, n)
    PROVE  /\ bytes' \in [Jobs -> Nat]
           /\ bytes'[j] >= bytes[j]
           /\ \A k \in Jobs \ {j} : bytes'[k] = bytes[k]
           /\ observer' \in [Jobs -> Jobs \union {NoJob}]
           /\ cancelling' \in [Jobs -> BOOLEAN]
<1>1. /\ bytes' \in [Jobs -> Nat] /\ bytes'[j] >= bytes[j]
      /\ \A k \in Jobs \ {j} : bytes'[k] = bytes[k]
  BY DEF BookInvariant, TypeOK, Count
<1>2. observer' \in [Jobs -> Jobs \union {NoJob}]
  BY DEF BookInvariant, TypeOK, Count
<1>3. cancelling' \in [Jobs -> BOOLEAN]
  BY CancelledByType, TaskTypes DEF BookInvariant, Count
<1>4. QED
  BY <1>1, <1>2, <1>3

LEMMA ReceiveKeeps ==
    ASSUME BookInvariant, NEW j \in Jobs, NEW n \in Nat, Receive(j, n)
    PROVE  BookInvariant'
<1>1. job[j].kind = "download"
  BY DEF Receive, BookInvariant, KindsAgree
<1>2. Live(j) /\ PlaceOf(j, "streaming") /\ "streaming" \in Place
  BY <1>1 DEF Receive, Live, PlaceOf, Place
<1>3. pc' = [pc EXCEPT ![j] = "streaming"]
  BY DEF Receive, BookInvariant, TypeOK
<1>4. disk' \in [Ranges -> ChunkFile]
  <2>1. disk \in [Ranges -> ChunkFile] /\ bytes[j] \in Nat
        /\ (path[j] # NoRange => path[j] \in Ranges)
    BY DEF BookInvariant, TypeOK
  <2>2. path[j] # NoRange => Written(disk[path[j]], bytes[j], n) \in ChunkFile
    BY <2>1, WrittenType
  <2>3. QED
    BY <2>1, <2>2 DEF Receive
<1>5. Count(j, n)
  BY DEF Receive
<1>6. QED
  BY <1>1, <1>2, <1>3, <1>4, <1>5, CountType, TaskTypes, AdvanceKeeps
     DEF Receive, BookInvariant

LEMMA LoseWriteKeeps ==
    ASSUME BookInvariant, NEW j \in Jobs, NEW n \in Nat, LoseWrite(j, n)
    PROVE  BookInvariant'
<1>1. job[j].kind = "download"
  BY DEF LoseWrite, BookInvariant, KindsAgree
<1>2. Live(j) /\ "streaming" \in Place /\ "flushing" \in Place
      /\ PlaceOf(j, "streaming") /\ PlaceOf(j, "flushing")
  BY <1>1 DEF LoseWrite, Live, PlaceOf, Place
<1>3. Count(j, n)
  BY DEF LoseWrite
<1>4. exc' \in [Jobs -> {"none", "refused", "error", "cancelled"}]
  BY DEF LoseWrite, BookInvariant, TypeOK
<1>5. \/ pc' = [pc EXCEPT ![j] = "streaming"]
      \/ pc' = [pc EXCEPT ![j] = "flushing"]
  BY DEF LoseWrite, BookInvariant, TypeOK
<1>6. CASE pc' = [pc EXCEPT ![j] = "streaming"]
  BY <1>1, <1>2, <1>3, <1>4, <1>6, CountType, TaskTypes, AdvanceKeeps
     DEF LoseWrite, BookInvariant
<1>7. CASE pc' = [pc EXCEPT ![j] = "flushing"]
  BY <1>1, <1>2, <1>3, <1>4, <1>7, CountType, TaskTypes, AdvanceKeeps
     DEF LoseWrite, BookInvariant
<1>8. QED
  BY <1>5, <1>6, <1>7

LEMMA EndStreamKeeps ==
    ASSUME BookInvariant, NEW j \in Jobs, NEW outcome, EndStream(j, outcome)
    PROVE  BookInvariant'
<1>1. job[j].kind = "download"
  BY DEF EndStream, BookInvariant, KindsAgree
<1>2. Live(j) /\ PlaceOf(j, "flushing") /\ "flushing" \in Place
  BY <1>1 DEF EndStream, Live, PlaceOf, Place
<1>3. exc' \in [Jobs -> {"none", "refused", "error", "cancelled"}]
  BY DEF EndStream, BookInvariant, TypeOK
<1>4. status[j] \in Status /\ status' = [status EXCEPT ![j] = status[j]]
  BY DEF EndStream, BookInvariant, TypeOK, statVars
<1>5. QED
  BY <1>1, <1>2, <1>3, <1>4, TaskTypes, StepKeeps DEF EndStream, BookInvariant, statVars

LEMMA InterruptStreamingKeeps ==
    ASSUME BookInvariant, NEW j \in Jobs, InterruptStreaming(j)
    PROVE  BookInvariant'
<1>1. job[j].kind = "download"
  BY DEF InterruptStreaming, BookInvariant, KindsAgree
<1>2. Live(j) /\ PlaceOf(j, "flushing") /\ "flushing" \in Place
  BY <1>1 DEF InterruptStreaming, Live, PlaceOf, Place
<1>3. /\ exc' \in [Jobs -> {"none", "refused", "error", "cancelled"}]
      /\ cancelling' \in [Jobs -> BOOLEAN]
  BY DEF InterruptStreaming, BookInvariant, TypeOK
<1>4. status[j] \in Status /\ status' = [status EXCEPT ![j] = status[j]]
  BY DEF InterruptStreaming, BookInvariant, TypeOK, statVars
<1>5. QED
  BY <1>1, <1>2, <1>3, <1>4, TaskTypes, StepKeeps
     DEF InterruptStreaming, BookInvariant, statVars

LEMMA InterruptOpeningKeeps ==
    ASSUME BookInvariant, NEW j \in Jobs, InterruptOpening(j)
    PROVE  BookInvariant'
<1>1. job[j].kind = "download" /\ Live(j)
  BY DEF InterruptOpening, BookInvariant, KindsAgree, Live
<1>2. Opened(SourceFrom(j)) \in ChunkFile /\ job[j].range \in Ranges
  BY <1>1, WorkerRange, NewFileType
<1>3. disk' \in [Ranges -> ChunkFile]
  BY <1>2 DEF InterruptOpening, BookInvariant, TypeOK
<1>4. StatusWhenCancelled(j) \in Status
  BY DEF StatusWhenCancelled, Status
<1>5. QED
  BY <1>1, <1>3, <1>4, TaskTypes, FinishKeeps DEF InterruptOpening, BookInvariant

LEMMA FlushingKeeps ==
    ASSUME BookInvariant, NEW j \in Jobs,
           InterruptFlushing(j) \/ Flush(j) \/ FlushFails(j)
    PROVE  BookInvariant'
<1>1. Live(j)
  BY DEF InterruptFlushing, Flush, FlushFails, Live
<1>2. StatusWhenCancelled(j) \in Status /\ "COMPLETED" \in Status /\ "ERROR" \in Status
  BY DEF StatusWhenCancelled, Status
<1>3. /\ limit' \in [Jobs -> Nat] /\ observer' \in [Jobs -> Jobs \union {NoJob}]
      /\ disk' \in [Ranges -> ChunkFile]
      /\ UNCHANGED <<job, bytes, bookVars, clientVars>>
  BY TaskTypes DEF InterruptFlushing, Flush, FlushFails, BookInvariant
<1>4. \E s \in Status, outcome \in {"none", "refused", "error", "cancelled"} : Finish(j, s, outcome)
  BY <1>2 DEF InterruptFlushing, Flush, FlushFails
<1>5. QED
  BY <1>1, <1>3, <1>4, FinishKeeps

\* A worker's step keeps the invariant.
LEMMA WorkerKeeps ==
    ASSUME BookInvariant, NEW j \in Jobs, WorkerStep(j)
    PROVE  BookInvariant'
<1>1. ASSUME NEW n \in 1..SourceSize, Receive(j, n) \/ LoseWrite(j, n)
      PROVE  BookInvariant'
  <2>1. n \in Nat
    BY SizeAssumption
  <2>2. QED
    BY <1>1, <2>1, ReceiveKeeps, LoseWriteKeeps
<1>2. QED
  BY <1>1, StartDownloadKeeps, OpenKeeps, OpenFailsKeeps, EndStreamKeeps,
     InterruptOpeningKeeps, InterruptStreamingKeeps, FlushingKeeps DEF WorkerStep

(***************************************************************************)
(* run_chunk_succession                                                    *)
(***************************************************************************)

\* A decision ends the succession, or goes on to crop.
LEMMA DecideKeeps ==
    ASSUME BookInvariant, NEW j \in Jobs, Live(j), job[j].kind = "succession", Decide(j),
           UNCHANGED <<job, bytes, limit, observer, disk, bookVars, clientVars>>
    PROVE  BookInvariant'
<1>1. CASE Finish(j, "ERROR", "refused")
  BY <1>1, TaskTypes, FinishKeeps DEF Status, BookInvariant
<1>2. CASE /\ pc' = [pc EXCEPT ![j] = "cropping"]
           /\ UNCHANGED <<cancelling, exc, path, status>>
  <2>1. PlaceOf(j, "cropping") /\ "cropping" \in Place
    BY DEF PlaceOf, Place
  <2>2. status[j] \in Status /\ status' = [status EXCEPT ![j] = status[j]]
    BY <1>2 DEF BookInvariant, TypeOK
  <2>3. QED
    BY <1>2, <2>1, <2>2, TaskTypes, StepKeeps DEF BookInvariant
<1>3. QED
  BY <1>1, <1>2 DEF Decide

LEMMA StartSuccessionKeeps ==
    ASSUME BookInvariant, NEW j \in Jobs, StartSuccession(j)
    PROVE  BookInvariant'
<1>1. Live(j) /\ job[j].kind = "succession"
      /\ UNCHANGED <<job, bytes, limit, observer, disk, bookVars, clientVars>>
  BY DEF StartSuccession, FirstToRun, Live
<1>2. CASE Finish(j, "ERROR", "refused")
  BY <1>1, <1>2, TaskTypes, FinishKeeps DEF Status, BookInvariant
<1>3. CASE /\ job[j].awaits # NoJob
           /\ pc' = [pc EXCEPT ![j] = "awaiting"]
           /\ UNCHANGED <<cancelling, exc, path, status>>
  <2>1. job[j].awaits \in Jobs
    BY <1>1, <1>3 DEF BookInvariant, TypeOK, JobRecord
  <2>2. PlaceOf(j, "awaiting") /\ "awaiting" \in Place
    BY <1>1, <2>1 DEF PlaceOf, Place
  <2>3. status[j] \in Status /\ status' = [status EXCEPT ![j] = status[j]]
    BY <1>3 DEF BookInvariant, TypeOK
  <2>4. QED
    BY <1>1, <1>3, <2>2, <2>3, TaskTypes, StepKeeps DEF BookInvariant
<1>4. CASE Decide(j)
  BY <1>1, <1>4, DecideKeeps
<1>5. QED
  BY <1>2, <1>3, <1>4 DEF StartSuccession

LEMMA ResumeKeeps ==
    ASSUME BookInvariant, NEW j \in Jobs, Resume(j)
    PROVE  BookInvariant'
<1>1. Live(j) /\ job[j].kind = "succession"
  BY DEF Resume, Live, BookInvariant, KindsAgree
<1>2. QED
  BY <1>1, DecideKeeps DEF Resume

\* A succession that is past its check crops at least one byte.
LEMMA CheckCropKeeps ==
    ASSUME BookInvariant, NEW j \in Jobs, CheckCrop(j)
    PROVE  BookInvariant'
<1>1. Live(j) /\ job[j].kind = "succession"
  BY DEF CheckCrop, Live, BookInvariant, KindsAgree
<1>2. CASE Finish(j, "ERROR", "refused")
  BY <1>1, <1>2, TaskTypes, FinishKeeps DEF CheckCrop, Status, BookInvariant
<1>3. CASE /\ CanCrop(disk[job[job[j].pred].range], StartCrop(j), EndCrop(j))
           /\ pc' = [pc EXCEPT ![j] = "shifting"]
           /\ UNCHANGED <<cancelling, exc, path, status>>
  <2>1. StartCrop(j) <= EndCrop(j)
    BY <1>3 DEF CanCrop
  <2>2. PlaceOf(j, "shifting") /\ "shifting" \in Place
    BY <1>1 DEF PlaceOf, Place
  <2>3. status[j] \in Status /\ status' = [status EXCEPT ![j] = status[j]]
    BY <1>3 DEF BookInvariant, TypeOK
  <2>4. QED
    BY <1>1, <1>3, <2>1, <2>2, <2>3, TaskTypes, StepKeeps DEF CheckCrop, BookInvariant
<1>4. QED
  BY <1>2, <1>3 DEF CheckCrop

\* A succession that crops or moves: what it knows of both files.
LEMMA CroppingFacts ==
    ASSUME BookInvariant, NEW j \in Jobs, pc[j] \in {"cropping", "shifting", "moving"}
    PROVE  /\ Live(j) /\ job[j].kind = "succession"
           /\ job[j].pred \in Jobs
           /\ job[j].range \in Ranges /\ job[job[j].pred].range \in Ranges
           /\ StartCrop(j) \in Nat /\ EndCrop(j) \in Int
           /\ pc[j] # "cropping" => StartCrop(j) <= EndCrop(j)
           /\ disk[job[job[j].pred].range] \in ChunkFile
<1>1. Live(j) /\ job[j].kind = "succession"
  BY DEF Live, BookInvariant, KindsAgree
<1>2. pc[j] # "cropping" => StartCrop(j) <= EndCrop(j)
  BY <1>1 DEF BookInvariant, SuccessionsAgree
<1>3. disk \in [Ranges -> ChunkFile]
  BY DEF BookInvariant, TypeOK
<1>4. QED
  BY <1>1, <1>2, <1>3, CropBounds

LEMMA CropKeeps ==
    ASSUME BookInvariant, NEW j \in Jobs, Crop(j)
    PROVE  BookInvariant'
<1> DEFINE file == job[job[j].pred].range
<1>1. pc[j] = "shifting" /\ disk' = [disk EXCEPT ![file] = Cropped(disk[file], StartCrop(j), EndCrop(j))]
  BY DEF Crop
<1>2. /\ Live(j) /\ job[j].kind = "succession" /\ file \in Ranges
      /\ StartCrop(j) \in Nat /\ EndCrop(j) \in Int /\ StartCrop(j) <= EndCrop(j)
      /\ disk[file] \in ChunkFile
  BY <1>1, CroppingFacts
<1>3. Cropped(disk[file], StartCrop(j), EndCrop(j)) \in ChunkFile
  BY <1>2, CroppedType
<1>4. disk' \in [Ranges -> ChunkFile]
  BY <1>1, <1>2, <1>3, TaskTypes DEF BookInvariant
<1>5. PlaceOf(j, "moving") /\ "moving" \in Place
  BY <1>2 DEF PlaceOf, Place
<1>6. status[j] \in Status /\ status' = [status EXCEPT ![j] = status[j]]
  BY DEF Crop, BookInvariant, TypeOK, statVars
<1>7. QED
  BY <1>2, <1>4, <1>5, <1>6, TaskTypes, StepKeeps DEF Crop, BookInvariant, statVars

\* What is left of a file whose crop stopped is a file.
LEMMA StoppedCropType ==
    ASSUME BookInvariant, NEW j \in Jobs, pc[j] = "shifting",
           NEW left \in CropStopped(disk[job[job[j].pred].range], StartCrop(j), EndCrop(j))
    PROVE  left \in ChunkFile
<1>1. /\ StartCrop(j) \in Nat /\ EndCrop(j) \in Int /\ StartCrop(j) <= EndCrop(j)
      /\ disk[job[job[j].pred].range] \in ChunkFile
  BY CroppingFacts
<1>2. QED
  BY <1>1, CropStoppedType

LEMMA CropFailsKeeps ==
    ASSUME BookInvariant, NEW j \in Jobs, CropFails(j)
    PROVE  BookInvariant'
<1> DEFINE file == job[job[j].pred].range
<1>1. pc[j] = "shifting"
  BY DEF CropFails
<1>2. Live(j) /\ file \in Ranges
  BY <1>1, CroppingFacts
<1>3. PICK left \in CropStopped(disk[file], StartCrop(j), EndCrop(j)) :
          disk' = [disk EXCEPT ![file] = IF disk[file].present THEN left ELSE disk[file]]
  BY DEF CropFails
<1>4. left \in ChunkFile
  BY <1>1, StoppedCropType
<1>5. disk' \in [Ranges -> ChunkFile]
  BY <1>2, <1>3, <1>4, TaskTypes DEF BookInvariant
<1>6. QED
  BY <1>2, <1>5, TaskTypes, FinishKeeps DEF CropFails, Status, BookInvariant

LEMMA MoveFailsKeeps ==
    ASSUME BookInvariant, NEW j \in Jobs, MoveFails(j)
    PROVE  BookInvariant'
<1>1. Live(j)
  BY CroppingFacts DEF MoveFails
<1>2. QED
  BY <1>1, TaskTypes, FinishKeeps DEF MoveFails, Status, BookInvariant

\* A rename keeps the types of the files and of the open handles.
LEMMA RenamedType ==
    ASSUME TypeOK, NEW from \in Ranges, NEW to \in Ranges
    PROVE  /\ Renamed(from, to) \in [Ranges -> ChunkFile]
           /\ HandlesRenamed(from, to) \in [Jobs -> Ranges \union {NoRange}]
<1>1. Renamed(from, to) \in [Ranges -> ChunkFile]
  BY TaskTypes, NewFileType DEF Renamed
<1>2. HandlesRenamed(from, to) \in [Jobs -> Ranges \union {NoRange}]
  BY TaskTypes DEF HandlesRenamed
<1>3. QED
  BY <1>1, <1>2

\* The one step that changes the status of two jobs: the predecessor it calls
\* DEPRECATED is not a live succession.
LEMMA MoveKeeps ==
    ASSUME BookInvariant, NEW j \in Jobs, Move(j)
    PROVE  BookInvariant'
<1> DEFINE p == job[j].pred
<1>1. /\ Live(j) /\ job[j].kind = "succession"
      /\ p \in Jobs /\ job[j].range \in Ranges /\ job[p].range \in Ranges
      /\ StartCrop(j) \in Nat /\ EndCrop(j) \in Int /\ StartCrop(j) <= EndCrop(j)
  BY CroppingFacts DEF Move
<1>2. job[p].kind = "download" \/ Done(p)
  BY <1>1 DEF BookInvariant, SuccessionsAgree
<1>3. /\ bytes' \in [Jobs -> Nat] /\ status' \in [Jobs -> Status]
      /\ \A k \in Jobs \ {j} :
            /\ bytes'[k] = bytes[k]
            /\ job[k].kind = "succession" /\ Live(k) => status'[k] = status[k]
  <2>1. EndCrop(j) - StartCrop(j) + 1 \in Nat
    BY <1>1
  <2>2. bytes' \in [Jobs -> Nat] /\ \A k \in Jobs \ {j} : bytes'[k] = bytes[k]
    BY <2>1, TaskTypes DEF Move, BookInvariant
  <2>3. status' \in [Jobs -> Status] /\ \A k \in Jobs \ {j, p} : status'[k] = status[k]
    BY TaskTypes DEF Move, Status, BookInvariant
  <2>4. ~(job[p].kind = "succession" /\ Live(p))
    BY <1>2 DEF Live, Done
  <2>5. QED
    BY <2>2, <2>3, <2>4
<1>4. /\ pc' \in [Jobs -> Place] /\ pc'[j] = "done"
      /\ \A k \in Jobs \ {j} : pc'[k] = pc[k]
  BY DEF Move, BookInvariant, TypeOK, Place
<1>5. /\ disk' \in [Ranges -> ChunkFile]
      /\ path' \in [Jobs -> Ranges \union {NoRange}]
  BY <1>1, RenamedType DEF Move, BookInvariant
<1>6. TypeOK'
  BY <1>3, <1>4, <1>5 DEF Move, BookInvariant, TypeOK, bookVars, clientVars
<1>7. PlaceOf(j, pc'[j]) /\ job' = job /\ stats' = stats /\ tasks' = tasks
  BY <1>4 DEF PlaceOf, Move, bookVars
<1>8. QED
  BY <1>1, <1>3, <1>4, <1>6, <1>7, TaskStepKeeps

\* A cancelled succession that ends.
LEMMA GiveUpKeeps ==
    ASSUME BookInvariant, NEW j \in Jobs, Live(j), job[j].kind = "succession", GiveUp(j),
           UNCHANGED <<job, bytes, bookVars, clientVars>>, disk' \in [Ranges -> ChunkFile]
    PROVE  BookInvariant'
<1>1. limit' \in [Jobs -> Nat] /\ observer' \in [Jobs -> Jobs \union {NoJob}]
  BY TaskTypes DEF GiveUp, BookInvariant
<1>2. QED
  BY <1>1, FinishKeeps DEF GiveUp, Status

LEMMA InterruptAwaitingKeeps ==
    ASSUME BookInvariant, NEW j \in Jobs, InterruptAwaiting(j)
    PROVE  BookInvariant'
<1>1. Live(j) /\ job[j].kind = "succession" /\ job[j].awaits \in Jobs
  BY DEF InterruptAwaiting, Live, BookInvariant, KindsAgree
<1>2. CASE Done(job[j].awaits)
  BY <1>1, <1>2, TaskTypes, GiveUpKeeps DEF InterruptAwaiting, BookInvariant
<1>3. CASE ~Done(job[j].awaits)
  <2>1. PlaceOf(j, "stopping") /\ "stopping" \in Place /\ "CANCELLED" \in Status
    BY <1>1 DEF PlaceOf, Place, Status
  <2>2. cancelling' \in [Jobs -> BOOLEAN]
    BY <1>3, CancelledByType DEF InterruptAwaiting, BookInvariant
  <2>3. QED
    BY <1>1, <1>3, <2>1, <2>2, TaskTypes, StepKeeps DEF InterruptAwaiting, BookInvariant
<1>4. QED
  BY <1>2, <1>3

LEMMA InterruptCroppingKeeps ==
    ASSUME BookInvariant, NEW j \in Jobs, InterruptCropping(j)
    PROVE  BookInvariant'
<1> DEFINE file == job[job[j].pred].range
<1>1. Live(j) /\ job[j].kind = "succession" /\ file \in Ranges
  BY CroppingFacts DEF InterruptCropping
<1>2. disk' \in [Ranges -> ChunkFile]
  <2>1. disk \in [Ranges -> ChunkFile]
    BY TaskTypes DEF BookInvariant
  <2>2. CASE pc[j] = "shifting" /\ disk[file].present
    <3>1. PICK left \in CropStopped(disk[file], StartCrop(j), EndCrop(j)) :
              disk' = [disk EXCEPT ![file] = left]
      BY <2>2 DEF InterruptCropping
    <3>2. left \in ChunkFile
      BY <2>2, StoppedCropType
    <3>3. QED
      BY <1>1, <2>1, <3>1, <3>2
  <2>3. CASE ~(pc[j] = "shifting" /\ disk[file].present)
    BY <2>1, <2>3 DEF InterruptCropping
  <2>4. QED
    BY <2>2, <2>3
<1>3. QED
  BY <1>1, <1>2, GiveUpKeeps DEF InterruptCropping

LEMMA InterruptMovingKeeps ==
    ASSUME BookInvariant, NEW j \in Jobs, InterruptMoving(j)
    PROVE  BookInvariant'
<1>1. Live(j) /\ job[j].kind = "succession" /\ job[j].pred \in Jobs
      /\ job[j].range \in Ranges /\ job[job[j].pred].range \in Ranges
  BY CroppingFacts DEF InterruptMoving
<1>2. /\ disk' \in [Ranges -> ChunkFile]
      /\ path' \in [Jobs -> Ranges \union {NoRange}]
  BY <1>1, RenamedType, TaskTypes DEF InterruptMoving, BookInvariant
<1>3. /\ limit' \in [Jobs -> Nat] /\ observer' \in [Jobs -> Jobs \union {NoJob}]
      /\ exc' \in [Jobs -> {"none", "refused", "error", "cancelled"}]
      /\ cancelling' \in [Jobs -> BOOLEAN]
  BY TaskTypes DEF InterruptMoving, BookInvariant
<1>4. /\ pc' \in [Jobs -> Place] /\ pc'[j] = "done"
      /\ \A k \in Jobs \ {j} : pc'[k] = pc[k]
  BY DEF InterruptMoving, BookInvariant, TypeOK, Place
<1>5. /\ status' \in [Jobs -> Status]
      /\ \A k \in Jobs \ {j} : status'[k] = status[k]
  BY TaskTypes DEF InterruptMoving, BookInvariant, Status
<1>6. TypeOK'
  BY <1>2, <1>3, <1>4, <1>5
     DEF InterruptMoving, BookInvariant, TypeOK, bookVars, clientVars
<1>7. PlaceOf(j, pc'[j]) /\ job' = job /\ bytes' = bytes /\ stats' = stats /\ tasks' = tasks
  BY <1>4 DEF PlaceOf, InterruptMoving, bookVars
<1>8. QED
  BY <1>1, <1>4, <1>5, <1>6, <1>7, TaskStepKeeps

LEMMA StoppedKeeps ==
    ASSUME BookInvariant, NEW j \in Jobs, Stopped(j)
    PROVE  BookInvariant'
<1>1. Live(j) /\ job[j].kind = "succession"
  BY DEF Stopped, Live, BookInvariant, KindsAgree
<1>2. CASE GiveUp(j)
  BY <1>1, <1>2, TaskTypes, GiveUpKeeps DEF Stopped, BookInvariant
<1>3. CASE Finish(j, "CANCELLED", "error") /\ UNCHANGED <<limit, observer>>
  BY <1>1, <1>3, TaskTypes, FinishKeeps DEF Stopped, Status, BookInvariant
<1>4. QED
  BY <1>2, <1>3 DEF Stopped

\* A succession's step keeps the invariant.
LEMMA SuccessionKeeps ==
    ASSUME BookInvariant, NEW j \in Jobs, SuccessionStep(j)
    PROVE  BookInvariant'
BY StartSuccessionKeeps, ResumeKeeps, CheckCropKeeps, CropKeeps, CropFailsKeeps,
   MoveKeeps, MoveFailsKeeps, InterruptAwaitingKeeps, InterruptCroppingKeeps,
   InterruptMovingKeeps, StoppedKeeps DEF SuccessionStep

(***************************************************************************)
(* Steps of the callers and of the monitor                                 *)
(***************************************************************************)

\* A step that creates no job and moves none keeps the invariant if all it
\* does to the dictionaries is delete entries, and all it does to a status is
\* mark it CANCELLED.
LEMMA ClientStepKeeps ==
    ASSUME BookInvariant, TypeOK', job' = job, pc' = pc, bytes' = bytes,
           \A k \in Jobs : status'[k] \in {status[k], "CANCELLED"},
           \A r \in Ranges : stats'[r] \in {stats[r], NoJob} /\ tasks'[r] \in {tasks[r], NoJob}
    PROVE  BookInvariant'
<1>1. KindsAgree'
  BY DEF BookInvariant, KindsAgree, Done
<1>2. SuccessionsAgree'
  BY DEF BookInvariant, SuccessionsAgree, Live, Done, StartCrop, EndCrop
<1>3. BooksAgree'
  BY DEF BookInvariant, BooksAgree
<1>4. QED
  BY <1>1, <1>2, <1>3 DEF BookInvariant

\* What a caller's record may become.
LEMMA CallType ==
    ASSUME TypeOK, NEW c \in Callers, Return(c) \/ Raise(c)
    PROVE  call' \in [Callers -> CallRecord]
<1>1. Idle \in CallRecord /\ Raised \in CallRecord
  BY DEF Idle, Raised, CallRecord
<1>2. call \in [Callers -> CallRecord]
  BY DEF TypeOK
<1>3. QED
  BY <1>1, <1>2 DEF Return, Raise

LEMMA SuspendType ==
    ASSUME TypeOK, NEW c \in Callers, NEW op \in AllOperations,
           NEW at \in {"init", "join", "wait", "gather", "unlink", "purge"},
           NEW range \in Ranges \union {NoRange},
           NEW jobs \in SUBSET Jobs, NEW files \in SUBSET Ranges,
           Suspend(c, op, at, range, jobs, files)
    PROVE  call' \in [Callers -> CallRecord]
<1>1. [op |-> op, at |-> at, range |-> range, jobs |-> jobs, files |-> files] \in CallRecord
  BY DEF CallRecord
<1>2. call \in [Callers -> CallRecord]
  BY DEF TypeOK
<1>3. QED
  BY <1>1, <1>2 DEF Suspend

LEMMA CallAtType ==
    ASSUME TypeOK, NEW c \in Callers, NEW at \in {"join", "woken"},
           call' = [call EXCEPT ![c].at = at]
    PROVE  call' \in [Callers -> CallRecord]
BY DEF TypeOK, CallRecord

\* The tasks in the dictionary are jobs.
LEMMA TrackedType ==
    ASSUME TypeOK
    PROVE  /\ stats \in [Ranges -> Jobs \union {NoJob}]
           /\ tasks \in [Ranges -> Jobs \union {NoJob}]
           /\ Tracked \in SUBSET Jobs
           /\ NoTasks \in [Ranges -> Jobs \union {NoJob}]
BY DEF TypeOK, Tracked, NoTasks

\* The steps that touch neither a dictionary nor a status.
LEMMA QuietStepKeeps ==
    ASSUME BookInvariant, call' \in [Callers -> CallRecord],
           disk' \in [Ranges -> ChunkFile], path' \in [Jobs -> Ranges \union {NoRange}],
           cancelling' \in [Jobs -> BOOLEAN],
           monitor' \in {"none", "running", "done"},
           UNCHANGED <<job, pc, exc, statVars, stats, tasks, cleaned>>
    PROVE  BookInvariant'
<1>1. TypeOK'
  BY DEF BookInvariant, TypeOK, statVars
<1>2. QED
  BY <1>1, ClientStepKeeps DEF statVars

LEMMA MonitorEndsKeeps ==
    ASSUME BookInvariant, MonitorEnds
    PROVE  BookInvariant'
<1>1. call' \in [Callers -> CallRecord]
  BY DEF MonitorEnds, clientVars, BookInvariant, TypeOK
<1>2. QED
  BY <1>1, TaskTypes, QuietStepKeeps DEF MonitorEnds, taskVars, clientVars, BookInvariant

LEMMA WaitBeginKeeps ==
    ASSUME BookInvariant, NEW c \in Callers, NEW op, WaitBegin(c, op)
    PROVE  BookInvariant'
<1>1. op \in AllOperations
  BY DEF WaitBegin, WaitOperations, AllOperations
<1>2. TypeOK
  BY DEF BookInvariant
<1>3. call' \in [Callers -> CallRecord]
  <2>1. Suspend(c, op, "wait", NoRange, Tracked, {}) /\ Tracked \in SUBSET Jobs
    BY <1>2, TrackedType DEF WaitBegin
  <2>2. QED
    BY <1>1, <1>2, <2>1, SuspendType
<1>4. monitor \in {"none", "running", "done"}
  BY <1>2 DEF TypeOK
<1>5. QED
  BY <1>2, <1>3, <1>4, TaskTypes, QuietStepKeeps DEF WaitBegin, taskVars, bookVars

LEMMA WakeUpKeeps ==
    ASSUME BookInvariant, NEW c \in Callers, WakeUp(c)
    PROVE  BookInvariant'
<1>1. TypeOK
  BY DEF BookInvariant
<1>2. call' \in [Callers -> CallRecord]
  BY <1>1, CallAtType DEF WakeUp
<1>3. monitor \in {"none", "running", "done"}
  BY <1>1 DEF TypeOK
<1>4. QED
  BY <1>1, <1>2, <1>3, TaskTypes, QuietStepKeeps DEF WakeUp, taskVars, bookVars

LEMMA CancelInitiatedKeeps ==
    ASSUME BookInvariant, NEW c \in Callers, CancelInitiated(c)
    PROVE  BookInvariant'
<1>1. TypeOK
  BY DEF BookInvariant
<1>2. call' \in [Callers -> CallRecord]
  BY <1>1, CallAtType DEF CancelInitiated
<1>3. monitor \in {"none", "running", "done"}
  BY <1>1 DEF TypeOK
<1>4. cancelling' \in [Jobs -> BOOLEAN]
  BY <1>1, CancelledByType DEF CancelInitiated
<1>5. QED
  BY <1>1, <1>2, <1>3, <1>4, TaskTypes, QuietStepKeeps DEF CancelInitiated, bookVars

LEMMA UnlinkKeeps ==
    ASSUME BookInvariant, NEW c \in Callers, Unlink(c)
    PROVE  BookInvariant'
<1>1. TypeOK
  BY DEF BookInvariant
<1>2. call' \in [Callers -> CallRecord] /\ monitor \in {"none", "running", "done"}
  BY <1>1, CallType DEF Unlink, TypeOK
<1>3. disk' \in [Ranges -> ChunkFile]
  BY <1>1, TaskTypes, NewFileType DEF Unlink, Unlinked
<1>4. path' \in [Jobs -> Ranges \union {NoRange}]
  BY <1>1, TaskTypes DEF Unlink, Unlinked
<1>5. QED
  BY <1>1, <1>2, <1>3, <1>4, TaskTypes, QuietStepKeeps DEF Unlink, bookVars

\* The call of cancel_chunk or delete_chunk_data, up to its first await.
LEMMA PopStatsType ==
    ASSUME TypeOK, NEW c \in Callers, NEW r \in Ranges \union {NoRange}, PopStats(c, r)
    PROVE  /\ call' \in [Callers -> CallRecord]
           /\ stats' \in [Ranges -> Jobs \union {NoJob}]
           /\ \A q \in Ranges : stats'[q] \in {stats[q], NoJob}
<1>1. /\ stats' \in [Ranges -> Jobs \union {NoJob}]
      /\ \A q \in Ranges : stats'[q] \in {stats[q], NoJob}
  BY TrackedType DEF PopStats
<1>2. CASE Return(c)
  BY <1>1, <1>2, CallType
<1>3. CASE Suspend(c, "delete", "unlink", r, {}, {})
  <2>1. "delete" \in AllOperations
    BY DEF AllOperations
  <2>2. call' \in [Callers -> CallRecord]
    BY <1>3, <2>1, SuspendType
  <2>3. QED
    BY <1>1, <2>2
<1>4. QED
  BY <1>2, <1>3 DEF PopStats

\* A step that may delete entries of the dictionaries.
LEMMA ForgetStepKeeps ==
    ASSUME BookInvariant, call' \in [Callers -> CallRecord],
           disk' \in [Ranges -> ChunkFile], path' \in [Jobs -> Ranges \union {NoRange}],
           cancelling' \in [Jobs -> BOOLEAN],
           stats' \in [Ranges -> Jobs \union {NoJob}],
           tasks' \in [Ranges -> Jobs \union {NoJob}],
           \A r \in Ranges : stats'[r] \in {stats[r], NoJob} /\ tasks'[r] \in {tasks[r], NoJob},
           monitor' \in {monitor, "none"}, cleaned' \in BOOLEAN,
           status' \in [Jobs -> Status],
           \A k \in Jobs : status'[k] \in {status[k], "CANCELLED"},
           UNCHANGED <<job, pc, exc, bytes, limit, observer>>
    PROVE  BookInvariant'
<1>1. TypeOK'
  BY DEF BookInvariant, TypeOK
<1>2. QED
  BY <1>1, ClientStepKeeps

LEMMA CancelOrDeleteKeeps ==
    ASSUME BookInvariant, NEW c \in Callers, NEW op, NEW r \in Ranges,
           CancelOrDelete(c, op, r)
    PROVE  BookInvariant'
<1>1. TypeOK /\ op \in AllOperations
  BY DEF BookInvariant, CancelOrDelete, AllOperations
<1>2. /\ stats \in [Ranges -> Jobs \union {NoJob}] /\ tasks \in [Ranges -> Jobs \union {NoJob}]
      /\ tasks' = tasks
      /\ UNCHANGED <<job, pc, exc, path, status, bytes, limit, observer, disk, monitor, cleaned>>
  BY <1>1, TrackedType DEF CancelOrDelete, statVars
<1>3. cleaned \in BOOLEAN
  BY <1>1 DEF TypeOK
<1>4. CASE Raise(c) /\ UNCHANGED <<stats, cancelling>>
  BY <1>1, <1>2, <1>3, <1>4, TaskTypes, CallType, ForgetStepKeeps
<1>5. CASE /\ tasks[r] # NoJob
           /\ \/ /\ cancelling' = CancelledBy({tasks[r]})
                 /\ Suspend(c, op, "join", r, {tasks[r]}, {})
              \/ /\ Suspend(c, op, "init", r, {tasks[r]}, {})
                 /\ UNCHANGED cancelling
           /\ UNCHANGED stats
  <2>1. PICK jobs \in SUBSET Jobs :
            Suspend(c, op, "join", r, jobs, {}) \/ Suspend(c, op, "init", r, jobs, {})
    BY <1>2, <1>5
  <2>2. call' \in [Callers -> CallRecord]
    BY <1>1, <2>1, SuspendType
  <2>3. cancelling' \in [Jobs -> BOOLEAN]
    BY <1>1, <1>5, CancelledByType, TaskTypes
  <2>4. QED
    BY <1>1, <1>2, <1>3, <1>5, <2>2, <2>3, TaskTypes, ForgetStepKeeps
<1>6. CASE PopStats(c, r) /\ UNCHANGED cancelling
  BY <1>1, <1>2, <1>3, <1>6, TaskTypes, PopStatsType, ForgetStepKeeps
<1>7. QED
  BY <1>4, <1>5, <1>6 DEF CancelOrDelete

LEMMA CancelJoinedKeeps ==
    ASSUME BookInvariant, NEW c \in Callers, CancelJoined(c)
    PROVE  BookInvariant'
<1> DEFINE r == call[c].range
<1>1. TypeOK /\ cleaned \in BOOLEAN
  BY DEF BookInvariant, TypeOK
<1>2. /\ stats \in [Ranges -> Jobs \union {NoJob}] /\ tasks \in [Ranges -> Jobs \union {NoJob}]
      /\ UNCHANGED <<job, pc, exc, cancelling, path, status, bytes, limit, observer, disk, cleaned>>
  BY <1>1, TrackedType DEF CancelJoined, taskVars, statVars
<1>3. CASE Raise(c) /\ UNCHANGED bookVars
  BY <1>1, <1>2, <1>3, TaskTypes, CallType, ForgetStepKeeps DEF bookVars
<1>4. CASE /\ tasks' = [tasks EXCEPT ![r] = NoJob]
           /\ CheckStopMonitor(tasks')
           /\ PopStats(c, r) \/ (Return(c) /\ UNCHANGED stats)
  <2>1. /\ tasks' \in [Ranges -> Jobs \union {NoJob}]
        /\ \A q \in Ranges : tasks'[q] \in {tasks[q], NoJob}
    BY <1>2, <1>4
  <2>2. monitor' \in {monitor, "none"}
    BY <1>4 DEF CheckStopMonitor
  <2>3. /\ call' \in [Callers -> CallRecord]
        /\ stats' \in [Ranges -> Jobs \union {NoJob}]
        /\ \A q \in Ranges : stats'[q] \in {stats[q], NoJob}
    <3>1. CASE Return(c) /\ UNCHANGED stats
      BY <1>1, <1>2, <3>1, CallType
    <3>2. CASE PopStats(c, r)
      <4>1. r \in Ranges \union {NoRange}
        BY <1>1 DEF TypeOK, CallRecord
      <4>2. QED
        BY <1>1, <3>2, <4>1, PopStatsType
    <3>3. QED
      BY <1>4, <3>1, <3>2
  <2>4. QED
    BY <1>1, <1>2, <2>1, <2>2, <2>3, TaskTypes, ForgetStepKeeps
<1>5. QED
  BY <1>3, <1>4 DEF CancelJoined

LEMMA WaitEndKeeps ==
    ASSUME BookInvariant, NEW c \in Callers, WaitEnd(c)
    PROVE  BookInvariant'
<1>1. TypeOK /\ cleaned \in BOOLEAN
  BY DEF BookInvariant, TypeOK
<1>2. /\ stats \in [Ranges -> Jobs \union {NoJob}] /\ tasks \in [Ranges -> Jobs \union {NoJob}]
      /\ UNCHANGED <<job, pc, exc, cancelling, path, status, bytes, limit, observer, disk, cleaned>>
  BY <1>1, TrackedType DEF WaitEnd, taskVars, statVars
<1>3. /\ call' \in [Callers -> CallRecord]
      /\ stats' = stats
      /\ tasks' \in [Ranges -> Jobs \union {NoJob}]
      /\ \A r \in Ranges : tasks'[r] \in {tasks[r], NoJob}
      /\ monitor' \in {monitor, "none"}
  <2>1. CASE Raise(c) /\ UNCHANGED bookVars
    BY <1>1, <1>2, <2>1, CallType DEF bookVars
  <2>2. CASE /\ tasks' = [r \in Ranges |-> IF r \in Collected(c) THEN NoJob ELSE tasks[r]]
             /\ CheckStopMonitor(tasks')
             /\ Return(c)
             /\ UNCHANGED stats
    <3>1. /\ tasks' \in [Ranges -> Jobs \union {NoJob}]
          /\ \A r \in Ranges : tasks'[r] \in {tasks[r], NoJob}
      BY <1>2, <2>2
    <3>2. call' \in [Callers -> CallRecord] /\ monitor' \in {monitor, "none"}
      BY <1>1, <2>2, CallType DEF CheckStopMonitor
    <3>3. QED
      BY <2>2, <3>1, <3>2
  <2>3. QED
    BY <2>1, <2>2 DEF WaitEnd
<1>4. QED
  BY <1>1, <1>2, <1>3, TaskTypes, ForgetStepKeeps

\* The tail of cancel_all_chunks, in the call or after the gather.
LEMMA ForgetAllType ==
    ASSUME TypeOK, NEW c \in Callers, NEW op, ForgetAll(c, op)
    PROVE  /\ call' \in [Callers -> CallRecord]
           /\ stats' \in [Ranges -> Jobs \union {NoJob}]
           /\ tasks' \in [Ranges -> Jobs \union {NoJob}]
           /\ \A r \in Ranges : stats'[r] \in {stats[r], NoJob} /\ tasks'[r] \in {tasks[r], NoJob}
           /\ monitor' \in {monitor, "none"}
<1>1. /\ stats' \in [Ranges -> Jobs \union {NoJob}]
      /\ tasks' \in [Ranges -> Jobs \union {NoJob}]
      /\ \A r \in Ranges : stats'[r] \in {stats[r], NoJob} /\ tasks'[r] \in {tasks[r], NoJob}
  BY TrackedType DEF ForgetAll, NoTasks
<1>2. monitor' \in {monitor, "none"}
  BY DEF ForgetAll, CheckStopMonitor
<1>3. CASE Return(c)
  BY <1>1, <1>2, <1>3, CallType
<1>4. CASE op = "cleanup" /\ Suspend(c, op, "purge", NoRange, {}, {r \in Ranges : stats[r] # NoJob})
  <2>1. op \in AllOperations /\ {r \in Ranges : stats[r] # NoJob} \in SUBSET Ranges
    BY <1>4 DEF AllOperations
  <2>2. call' \in [Callers -> CallRecord]
    BY <1>4, <2>1, SuspendType
  <2>3. QED
    BY <1>1, <1>2, <2>2
<1>5. QED
  BY <1>3, <1>4 DEF ForgetAll

LEMMA CancelAllKeeps ==
    ASSUME BookInvariant, NEW c \in Callers, NEW op, CancelAll(c, op)
    PROVE  BookInvariant'
<1>1. TypeOK /\ op \in AllOperations
  BY DEF BookInvariant, CancelAll, AllOperations
<1>2. /\ stats \in [Ranges -> Jobs \union {NoJob}] /\ tasks \in [Ranges -> Jobs \union {NoJob}]
      /\ Tracked \in SUBSET Jobs
  BY <1>1, TrackedType
<1>3. UNCHANGED <<job, pc, exc, path, bytes, limit, observer, disk>>
  BY DEF CancelAll
<1>4. cleaned' \in BOOLEAN
  BY <1>1 DEF CancelAll, TypeOK
<1>5. /\ status' \in [Jobs -> Status]
      /\ \A k \in Jobs : status'[k] \in {status[k], "CANCELLED"}
  BY <1>1, TaskTypes DEF CancelAll, Status
<1>6. cancelling' \in [Jobs -> BOOLEAN]
  BY <1>1, CancelledByType DEF CancelAll
<1>7. CASE ForgetAll(c, op)
  BY <1>1, <1>3, <1>4, <1>5, <1>6, <1>7, ForgetAllType, TaskTypes, ForgetStepKeeps
<1>8. CASE Suspend(c, op, "gather", NoRange, Tracked, {}) /\ UNCHANGED bookVars
  <2>1. PICK jobs \in SUBSET Jobs : Suspend(c, op, "gather", NoRange, jobs, {})
    BY <1>2, <1>8
  <2>2. call' \in [Callers -> CallRecord]
    BY <1>1, <2>1, SuspendType
  <2>3. QED
    BY <1>1, <1>2, <1>3, <1>4, <1>5, <1>6, <1>8, <2>2, TaskTypes, ForgetStepKeeps DEF bookVars
<1>9. QED
  BY <1>7, <1>8 DEF CancelAll

LEMMA GatherEndKeeps ==
    ASSUME BookInvariant, NEW c \in Callers, GatherEnd(c)
    PROVE  BookInvariant'
<1>1. TypeOK /\ cleaned \in BOOLEAN
  BY DEF BookInvariant, TypeOK
<1>2. /\ ForgetAll(c, call[c].op)
      /\ UNCHANGED <<job, pc, exc, cancelling, path, status, bytes, limit, observer, disk, cleaned>>
  BY DEF GatherEnd, taskVars, statVars
<1>3. QED
  BY <1>1, <1>2, ForgetAllType, TaskTypes, ForgetStepKeeps

LEMMA PurgeKeeps ==
    ASSUME BookInvariant, NEW c \in Callers, Purge(c)
    PROVE  BookInvariant'
<1>1. TypeOK /\ cleaned \in BOOLEAN
  BY DEF BookInvariant, TypeOK
<1>2. /\ tasks' = tasks /\ monitor' = monitor /\ cleaned' = cleaned
      /\ UNCHANGED <<job, pc, exc, cancelling, status, bytes, limit, observer>>
  BY DEF Purge, statVars
<1>3. disk' \in [Ranges -> ChunkFile] /\ path' \in [Jobs -> Ranges \union {NoRange}]
  BY <1>1, TaskTypes, NewFileType DEF Purge
<1>4. /\ stats' \in [Ranges -> Jobs \union {NoJob}]
      /\ tasks' \in [Ranges -> Jobs \union {NoJob}]
      /\ \A r \in Ranges : stats'[r] \in {stats[r], NoJob} /\ tasks'[r] \in {tasks[r], NoJob}
  BY <1>1, <1>2, TrackedType DEF Purge, NoTasks
<1>5. call' \in [Callers -> CallRecord]
  BY <1>1, CallType DEF Purge
<1>6. QED
  BY <1>1, <1>2, <1>3, <1>4, <1>5, TaskTypes, ForgetStepKeeps

\* A suspended caller's next step keeps the invariant.
LEMMA ContinueKeeps ==
    ASSUME BookInvariant, NEW c \in Callers, Continue(c)
    PROVE  BookInvariant'
BY CancelInitiatedKeeps, CancelJoinedKeeps, UnlinkKeeps, WakeUpKeeps, WaitEndKeeps,
   GatherEndKeeps, PurgeKeeps DEF Continue

\* A new job: nothing refers to its number yet, and a succession inherits from
\* a chunk that contains it and will not move any more under its own hands.
LEMMA RegisterKeeps ==
    ASSUME BookInvariant, NEW j \in Jobs, NEW kind \in {"download", "succession"},
           NEW r \in Ranges, NEW pred \in Jobs \union {NoJob},
           NEW awaits \in Jobs \union {NoJob}, NEW s \in Status,
           Register(j, kind, r, pred, awaits, s),
           kind = "succession" =>
              /\ s = "AWAITING_SUCCESSION"
              /\ pred \in Jobs /\ job[pred].kind # "none"
              /\ job[pred].kind = "download" \/ Done(pred)
              /\ Contains(job[pred].range, r),
           UNCHANGED <<exc, path, bytes, disk, clientVars>>,
           cancelling' \in [Jobs -> BOOLEAN], limit' \in [Jobs -> Nat],
           observer' \in [Jobs -> Jobs \union {NoJob}],
           monitor' \in {"none", "running", "done"}
    PROVE  BookInvariant'
<1> DEFINE record == [kind |-> kind, range |-> r, pred |-> pred, awaits |-> awaits]
<1>1. /\ pc[j] = "free" /\ job[j].kind = "none"
      /\ \A k \in Jobs : pc[k] = "free" <=> job[k].kind = "none"
  BY DEF Register, NextJob, BookInvariant, KindsAgree
<1>2. /\ job' \in [Jobs -> JobRecord] /\ job'[j] = record
      /\ \A k \in Jobs \ {j} : job'[k] = job[k]
  <2>1. record \in JobRecord
    BY DEF JobRecord
  <2>2. QED
    BY <2>1 DEF Register, BookInvariant, TypeOK
<1>3. /\ pc' \in [Jobs -> Place] /\ pc'[j] = "created"
      /\ \A k \in Jobs \ {j} : pc'[k] = pc[k]
  BY DEF Register, BookInvariant, TypeOK, Place
<1>4. /\ status' \in [Jobs -> Status] /\ status'[j] = s
      /\ \A k \in Jobs \ {j} : status'[k] = status[k]
  BY DEF Register, BookInvariant, TypeOK
<1>5. /\ stats \in [Ranges -> Jobs \union {NoJob}] /\ tasks \in [Ranges -> Jobs \union {NoJob}]
      /\ stats' = [stats EXCEPT ![r] = j] /\ tasks' = [tasks EXCEPT ![r] = j]
  BY TrackedType DEF Register, BookInvariant
<1>6. /\ stats' \in [Ranges -> Jobs \union {NoJob}] /\ tasks' \in [Ranges -> Jobs \union {NoJob}]
      /\ stats'[r] = j /\ tasks'[r] = j
      /\ \A q \in Ranges \ {r} : stats'[q] = stats[q] /\ tasks'[q] = tasks[q]
  BY <1>5
<1>7. TypeOK'
  BY <1>2, <1>3, <1>4, <1>6 DEF BookInvariant, TypeOK, clientVars
<1>8. KindsAgree'
  <2> SUFFICES ASSUME NEW k \in Jobs
               PROVE  /\ pc'[k] = "free" <=> job'[k].kind = "none"
                      /\ pc'[k] # "free" => job'[k].range \in Ranges
                      /\ pc'[k] \in {"opening", "streaming", "flushing"}
                            => job'[k].kind = "download"
                      /\ pc'[k] \in {"awaiting", "cropping", "shifting", "moving", "stopping"}
                            => job'[k].kind = "succession"
                      /\ pc'[k] \in {"awaiting", "stopping"} => job'[k].awaits \in Jobs
                      /\ job'[k].kind = "recovered" => Done(k)'
    BY DEF KindsAgree
  <2>1. CASE k = j
    BY <1>2, <1>3, <2>1
  <2>2. CASE k # j
    BY <1>2, <1>3, <2>2 DEF BookInvariant, KindsAgree, Done
  <2>3. QED
    BY <2>1, <2>2
<1>9. BooksAgree'
  <2> SUFFICES ASSUME NEW q \in Ranges
               PROVE  /\ stats'[q] # NoJob => pc'[stats'[q]] # "free" /\ job'[stats'[q]].range = q
                      /\ tasks'[q] # NoJob => pc'[tasks'[q]] # "free" /\ job'[tasks'[q]].range = q
                      /\ stats'[q] # NoJob /\ tasks'[q] # NoJob => stats'[q] = tasks'[q]
    BY DEF BooksAgree
  <2>1. CASE q = r
    BY <1>2, <1>3, <1>6, <2>1
  <2>2. CASE q # r
    <3>1. /\ stats[q] # NoJob => pc[stats[q]] # "free" /\ job[stats[q]].range = q
          /\ tasks[q] # NoJob => pc[tasks[q]] # "free" /\ job[tasks[q]].range = q
          /\ stats[q] # NoJob /\ tasks[q] # NoJob => stats[q] = tasks[q]
      BY DEF BookInvariant, BooksAgree
    <3>2. QED
      BY <1>1, <1>2, <1>3, <1>5, <1>6, <2>2, <3>1
  <2>3. QED
    BY <2>1, <2>2
<1>10. SuccessionsAgree'
  <2> DEFINE Inherits(k) ==
          /\ Live(k) => status[k] \in {"AWAITING_SUCCESSION", "CANCELLED"}
          /\ job[k].pred \in Jobs
          /\ job[job[k].pred].kind = "download" \/ Done(job[k].pred)
          /\ job[job[k].pred].kind # "none"
          /\ Contains(job[job[k].pred].range, job[k].range)
          /\ pc[k] \in {"shifting", "moving"} => StartCrop(k) <= EndCrop(k)
  <2>1. \A k \in Jobs : job[k].kind = "succession" => Inherits(k)
    BY DEF BookInvariant, SuccessionsAgree
  <2>2. ASSUME job'[j].kind = "succession" PROVE Inherits(j)'
    <3>1. /\ kind = "succession" /\ job'[j].pred = pred /\ job'[j].range = r
          /\ pred \in Jobs /\ pred # j
      BY <1>1, <1>2, <2>2
    <3>2. job'[pred] = job[pred] /\ pc'[pred] = pc[pred]
      BY <1>2, <1>3, <3>1
    <3>3. Done(pred)' <=> Done(pred)
      BY <3>2 DEF Done
    <3>4. pc'[j] \notin {"shifting", "moving"} /\ status'[j] = "AWAITING_SUCCESSION"
      BY <1>3, <1>4, <3>1
    <3>5. QED
      BY <3>1, <3>2, <3>3, <3>4
  <2>3. ASSUME NEW k \in Jobs \ {j}, job'[k].kind = "succession" PROVE Inherits(k)'
    <3>1. job'[k] = job[k] /\ Inherits(k)
      BY <1>2, <2>1, <2>3
    <3>2. job[k].pred \in Jobs /\ job[k].pred # j
      BY <1>1, <3>1
    <3>3. /\ job'[job'[k].pred] = job[job[k].pred]
          /\ pc'[k] = pc[k] /\ pc'[job'[k].pred] = pc[job[k].pred] /\ status'[k] = status[k]
      BY <1>2, <1>3, <1>4, <3>1, <3>2
    <3>4. StartCrop(k)' = StartCrop(k) /\ EndCrop(k)' = EndCrop(k)
      BY <3>1, <3>3 DEF StartCrop, EndCrop
    <3>5. (Live(k)' <=> Live(k)) /\ (Done(job[k].pred)' <=> Done(job[k].pred))
      BY <3>1, <3>3 DEF Live, Done
    <3>6. QED
      BY <3>1, <3>3, <3>4, <3>5
  <2>4. QED
    BY <2>2, <2>3 DEF SuccessionsAgree
<1>11. QED
  BY <1>7, <1>8, <1>9, <1>10 DEF BookInvariant

LEMMA StartChunkKeeps ==
    ASSUME BookInvariant, NEW r, StartChunk(r)
    PROVE  BookInvariant'
<1>1. r \in Ranges /\ "PENDING" \in Status
  BY ClientAssumption DEF StartChunk, Status
<1>2. PICK j \in Jobs : Register(j, "download", r, NoJob, NoJob, "PENDING")
  BY DEF StartChunk
<1>3. QED
  BY <1>1, <1>2, TaskTypes, RegisterKeeps DEF StartChunk, BookInvariant

\* A chunk that may be resized is a worker's, or its task is done.
LEMMA ResizeChunkKeeps ==
    ASSUME BookInvariant, NEW current, NEW new, ResizeChunk(current, new)
    PROVE  BookInvariant'
<1> DEFINE a == stats[current]
<1>1. current \in Ranges /\ new \in Ranges /\ Contains(current, new)
  BY ClientAssumption DEF ResizeChunk
<1>2. /\ stats \in [Ranges -> Jobs \union {NoJob}] /\ tasks \in [Ranges -> Jobs \union {NoJob}]
      /\ monitor' \in {"none", "running", "done"}
  BY DEF ResizeChunk, BookInvariant, TypeOK
<1>3. a \in Jobs /\ status[a] \in {"PENDING", "DOWNLOADING", "COMPLETED"}
  BY <1>1, <1>2 DEF ResizeChunk
<1>4. pc[a] # "free" /\ job[a].range = current
  BY <1>1, <1>3 DEF ResizeChunk, BookInvariant, BooksAgree
<1>5. job[a].kind # "none" /\ (job[a].kind = "download" \/ Done(a))
  <2>1. job[a].kind \in {"none", "download", "succession", "recovered"}
    BY <1>3 DEF BookInvariant, TypeOK, JobRecord
  <2>2. job[a].kind # "none" /\ (job[a].kind = "recovered" => Done(a))
    BY <1>3, <1>4 DEF BookInvariant, KindsAgree
  <2>3. job[a].kind = "succession" => ~Live(a)
    BY <1>3 DEF BookInvariant, SuccessionsAgree
  <2>4. QED
    BY <1>4, <2>1, <2>2, <2>3 DEF Live, Done
<1>6. PICK b \in Jobs :
          /\ Register(b, "succession", new, a, tasks[current], "AWAITING_SUCCESSION")
          /\ IF new.end # None /\ status[a] # "COMPLETED"
             THEN Observe(a, tasks[current], b, UsefulBytes(current, new))
             ELSE UNCHANGED <<cancelling, limit, observer>>
  BY DEF ResizeChunk
<1>7. /\ cancelling' \in [Jobs -> BOOLEAN] /\ limit' \in [Jobs -> Nat]
      /\ observer' \in [Jobs -> Jobs \union {NoJob}]
  <2>1. new.end # None => UsefulBytes(current, new) \in Nat
    BY <1>1, RangeFacts DEF UsefulBytes, Contains, None
  <2>2. CASE new.end # None /\ status[a] # "COMPLETED"
    <3>1. Observe(a, tasks[current], b, UsefulBytes(current, new))
      BY <1>6, <2>2
    <3>2. cancelling' \in [Jobs -> BOOLEAN]
      BY <3>1, CancelledByType, TaskTypes DEF Observe, BookInvariant
    <3>3. limit' \in [Jobs -> Nat] /\ observer' \in [Jobs -> Jobs \union {NoJob}]
      BY <2>1, <2>2, <3>1, TaskTypes DEF Observe, BookInvariant
    <3>4. QED
      BY <3>2, <3>3
  <2>3. CASE ~(new.end # None /\ status[a] # "COMPLETED")
    BY <1>6, <2>3, TaskTypes DEF BookInvariant
  <2>4. QED
    BY <2>2, <2>3
<1>8. "AWAITING_SUCCESSION" \in Status /\ tasks[current] \in Jobs \union {NoJob}
  BY <1>1, <1>2 DEF Status
<1>9. UNCHANGED <<exc, path, bytes, disk, clientVars>>
  BY DEF ResizeChunk
<1>10. Register(b, "succession", new, a, tasks[current], "AWAITING_SUCCESSION")
  BY <1>6
<1>11. QED
  BY <1>1, <1>2, <1>3, <1>4, <1>5, <1>7, <1>8, <1>9, <1>10, RegisterKeeps

(***************************************************************************)
(* The theorems                                                            *)
(***************************************************************************)

\* A manager right after __init__: the recovered chunks, and nothing else.
LEMMA InitBooks == Init => BookInvariant
<1> SUFFICES ASSUME Init PROVE BookInvariant
  OBVIOUS
<1> DEFINE found == 1..Len(Recovered)
<1>1. /\ found \subseteq Jobs
      /\ \A i \in found : Recovered[i] \in Ranges
      /\ \A j \in Jobs : InitialJob(j) <=> j \in found
  BY BoundAssumption DEF Jobs, InitialJob
<1>2. \A r \in Ranges : /\ TotalBytes(r, SourceSize) \in Nat
                        /\ Whole(r.start, TotalBytes(r, SourceSize)) \in ChunkFile
  <2> SUFFICES ASSUME NEW r \in Ranges
               PROVE  /\ TotalBytes(r, SourceSize) \in Nat
                      /\ Whole(r.start, TotalBytes(r, SourceSize)) \in ChunkFile
    OBVIOUS
  <2>1. /\ r.start \in Nat /\ r.end \in Nat \union {None} /\ r.start < SourceSize
        /\ r.end # None => r.start <= r.end
    BY RangeFacts, RangesAssumption
  <2>2. TotalBytes(r, SourceSize) \in Nat
    BY <2>1, SizeAssumption DEF TotalBytes, None
  <2>3. QED
    BY <2>1, <2>2 DEF Whole, ChunkFile
<1>3. job \in [Jobs -> JobRecord]
  <2>1. NoRecord \in JobRecord
    BY DEF NoRecord, JobRecord
  <2>2. \A r \in Ranges : [NoRecord EXCEPT !.kind = "recovered", !.range = r] \in JobRecord
    BY DEF NoRecord, JobRecord
  <2>3. QED
    BY <1>1, <2>1, <2>2 DEF Init, Found
<1>4. \A j \in Jobs :
         /\ ~InitialJob(j) => job[j].kind = "none" /\ pc[j] = "free"
         /\ InitialJob(j) => /\ job[j].kind = "recovered" /\ pc[j] = "done"
                             /\ job[j].range = Recovered[j]
  BY DEF Init, NoRecord, Found
<1>5. stats \in [Ranges -> Jobs \union {NoJob}]
      /\ \A r \in Ranges : stats[r] # NoJob => stats[r] \in found /\ Recovered[stats[r]] = r
  <2> SUFFICES ASSUME NEW r \in Ranges
               PROVE  /\ stats[r] \in Jobs \union {NoJob}
                      /\ stats[r] # NoJob => stats[r] \in found /\ Recovered[stats[r]] = r
    BY DEF Init
  <2>1. CASE \E i \in found : Recovered[i] = r
    BY <1>1, <2>1 DEF Init, Found
  <2>2. CASE ~\E i \in found : Recovered[i] = r
    BY <2>2 DEF Init, Found
  <2>3. QED
    BY <2>1, <2>2
<1>6. bytes \in [Jobs -> Nat]
  BY <1>1, <1>2 DEF Init, Found
<1>7. disk \in [Ranges -> ChunkFile]
  BY <1>2, NewFileType DEF Init
<1>8. TypeOK
  <2>1. call \in [Callers -> CallRecord]
    BY DEF Init, Idle, CallRecord
  <2>2. pc \in [Jobs -> Place] /\ status \in [Jobs -> Status]
    BY DEF Init, Place, Status
  <2>3. tasks \in [Ranges -> Jobs \union {NoJob}]
    BY DEF Init, NoTasks
  <2>4. QED
    BY <1>3, <1>5, <1>6, <1>7, <2>1, <2>2, <2>3 DEF TypeOK, Init
<1>9. KindsAgree
  BY <1>1, <1>4 DEF KindsAgree, Done
<1>10. SuccessionsAgree
  BY <1>4 DEF SuccessionsAgree
<1>11. BooksAgree
  <2>1. \A r \in Ranges : tasks[r] = NoJob
    BY DEF Init, NoTasks
  <2>2. QED
    BY <1>1, <1>4, <1>5, <2>1 DEF BooksAgree
<1>12. QED
  BY <1>8, <1>9, <1>10, <1>11 DEF BookInvariant

\* Every step keeps the invariant.
LEMMA NextKeepsBooks == BookInvariant /\ [Next]_vars => BookInvariant'
<1> SUFFICES ASSUME BookInvariant, [Next]_vars PROVE BookInvariant'
  OBVIOUS
<1>1. CASE Request
  BY <1>1, StartChunkKeeps, ResizeChunkKeeps, CancelOrDeleteKeeps, WaitBeginKeeps,
     CancelAllKeeps DEF Request
<1>2. CASE \E c \in Callers : Continue(c)
  BY <1>2, ContinueKeeps
<1>3. CASE \E j \in Jobs : JobStep(j)
  BY <1>3, DropKeeps, WorkerKeeps, SuccessionKeeps DEF JobStep
<1>4. CASE MonitorEnds
  BY <1>4, MonitorEndsKeeps
<1>5. CASE UNCHANGED vars
  <2>1. TypeOK' /\ KindsAgree' /\ BooksAgree'
    BY <1>5 DEF BookInvariant, TypeOK, KindsAgree, BooksAgree, Done, vars
  <2>2. SuccessionsAgree'
    BY <1>5 DEF BookInvariant, SuccessionsAgree, Live, Done, StartCrop, EndCrop, vars
  <2>3. QED
    BY <2>1, <2>2 DEF BookInvariant
<1>6. QED
  BY <1>1, <1>2, <1>3, <1>4, <1>5 DEF Next

\* The books are in order in every reachable state, whatever the callers do.
THEOREM BooksInOrder == Spec => []BookInvariant
BY InitBooks, NextKeepsBooks, PTL DEF Spec

\* Every variable keeps its type: no count, limit or file length is ever
\* negative, and a crop never inverts its bounds.
THEOREM TypeCorrect == Spec => []TypeOK
<1>1. BookInvariant => TypeOK
  BY DEF BookInvariant
<1>2. QED
  BY <1>1, BooksInOrder, PTL

\* The two dictionaries never disagree about a range: where both have an entry,
\* it is the same job, and a job of that range.
THEOREM DictionariesAgree == Spec => []BooksAgree
<1>1. BookInvariant => BooksAgree
  BY DEF BookInvariant
<1>2. QED
  BY <1>1, BooksInOrder, PTL
=============================================================================
