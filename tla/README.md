# Formal models of SDownload

SDownload is an asynchronous download library in Python (asyncio, httpx, aiofiles). A file is cut
into byte ranges; a `ChunkManager` downloads each range into a file of its own, can shrink a chunk
while it is being downloaded and hand its bytes to a *successor*, and finally merges the chunk files.
This directory holds TLA+ modules that model that program, TLC configurations that check them on
small instances, and TLAPS proofs of what holds for every instance.

Paths below are relative to `src/sDownload/`; `CM` is
`services/downloader_manager/chunk_manager.py` and `CU` is `services/downloader_manager/chunk_utils/`.

## 1. Inventory

| Component | Source | State it keeps | Operations | Hard behaviour |
|---|---|---|---|---|
| Chunk manager | `CM`, `CU/cleanup.py` | `_chunks_stats`, `_chunks_tasks` (range to stats, range to task and init signal), `_monitor_task`, `_wait_lock`, `_cleaned_up` | `start_chunk`, `resize_chunk`, `cancel_chunk`, `delete_chunk_data`, `wait_for_first_completed_chunk`, `wait_for_completed_chunks`, `as_stream`, `cancel_all_chunks`, `cleanup`, `merge_chunks` | several coroutines of the client in the manager at once; dictionaries read before an await and used after it |
| Chunk worker | `CU/downloader.py` | a task; its `ChunkDownloadStats`; an open file | `download_chunk_supervised` | cancelled or failing at every await; cancelled by its own progress callback |
| Succession | `CU/succession.py`, `CU/common.py` | a task; the successor's stats; the predecessor's limit observer | `run_chunk_succession`, `create_succession_stop_callback` | waits for a task others may cancel; crop, rename and status changes are separate steps |
| Chunk statistics | `interfaces/models/stats_models.py` | status, `bytes_downloaded`, `limit_qt_bytes`, observer | `add_qt_bytes_downloaded`, `add_limit_observer`, `remove_limit_observer`, `set_status`, `set_error` | the callback runs inside the worker it stops |
| Chunk files | `file_system/local_storage.py` | files on disk, open handles | `save_binary_data`, `delete_data`, `crop_file`, `shrink_file_to`, `move_data`, `merge_ranges` | threads that outlive a cancelled await; in-place crop |
| Progress monitor | `CU/monitor.py` | a task | one pass every 0.5 s | started by `start_chunk`, cancelled when the last entry goes |
| HTTP downloader | `http_client/httpx_downloader.py` | the client | `download_chunk`, `get_file_info`, `list_resources` | early end of a response, a server that ignores `Range` |
| Range algorithms | `utils/range_operations.py` | none | `calculate_ranges`, `calculate_optimal_coverage` | overlapping, touching, open-ended ranges |
| Reconstruction | `CU/reconstructor.py`, `merge_ranges` | the final file | `reconstruct_file` | read limits at the cut points; files that change while they are copied |
| Recovery | `services/downloader_manager/recovery_download.py` | the JSON file on disk | `save_info`, `load_info`, `delete_info`, `purge_all` | a crash between two writes; files that changed since |
| Strategies | `services/downloader_manager/strategies/` | slots, pending ranges | `on_start`, `on_update`, `on_end` | every range must be issued once |
| Throttling | `services/downloader_manager/throttling/` | window counters, tokens | `wrap` | clock arithmetic, a speed of 0 |
| Resource explorer | `list_resources`, `http_client/resource_explorer.py`, `extractors/` | the queue of tasks, `seen_urls` | `explore_resource`, `_explore_with_method`, `extract` | pages that link to each other; levels; servers whose answers to OPTIONS, GET and PROPFIND disagree |
| Download tasks | `services/downloader_manager/download_task.py`, `old/` | | stubs and superseded code | |
| Exceptions, models, logging | `exceptions/`, `interfaces/`, `telemetry/` | | data classes | |

How they interact. A client's coroutines call the manager. `start_chunk` creates a stats object and a
worker task; `resize_chunk` creates a stats object and a succession task and arms a limit on the
stats of the predecessor. The worker pulls the response through the throttler, which counts every
block in the stats (and so may call the succession's stop callback, which cancels the worker), into
`save_binary_data`. The succession awaits the worker's task and then crops and renames its file. The
monitor reads the stats. `merge_chunks` passes the ranges of the COMPLETED chunks to
`calculate_optimal_coverage` and copies what that returns, file by file. `RecoveryDownload` is called by
the client, with the stats of the manager, and in a later process gives the stats that
`ChunkManager.__init__` starts with. Waits, cancellations and `cleanup` read `_chunks_tasks`, await tasks, and
remove entries afterwards. Everything runs in one event loop, so a synchronous method and a stretch
of a coroutine between two suspensions are atomic; file operations run in threads that a cancellation
of the awaiting task does not stop.

What makes each part correct:

- *manager*: the two dictionaries agree; no task loses its entry while it runs; nothing runs after
  `cleanup`; no call fails on a range it has just looked up; every call returns;
- *worker, files*: a chunk that is COMPLETED has exactly its bytes on disk;
- *succession*: it never touches a file somebody else uses, it loses no bytes, it always ends;
- *statistics*: the status of an ended chunk is final; no byte is counted twice;
- *monitor*: it runs while something downloads and stops afterwards;
- *ranges, reconstruction*: the parts merged are the file, without gaps and overlaps;
- *recovery*: what `load_info` accepts after a crash is really on disk;
- *strategies*: every range is issued, none twice at the same time;
- *crawl*: it ends, explores no URL twice, keeps to its depth and misses no file within it.

The places where each of these may go wrong are the `hazards` of `PROJECT.json`.

## 2. Modules

| Module | Models | Extends |
|---|---|---|
| `ChunkRanges` | `ChunkRange.__contains__`, `get_effective_range_info`, the limit of a resize | |
| `ChunkFiles` | what `LocalStorage` does to one chunk file | |
| `ChunkState` | the variables; jobs, tasks, cancellation and the init signal | `ChunkRanges`, `ChunkFiles` |
| `ChunkWorker` | `download_chunk_supervised` with the throttler's counting and `save_binary_data` | `ChunkState` |
| `ChunkSuccession` | `run_chunk_succession`, `crop_file`, `move_data` | `ChunkState` |
| `ChunkManager` | the public methods, the monitor, and the composition `Spec` / `FairSpec` | `ChunkWorker`, `ChunkSuccession` |
| `ChunkLifecycle` | abstract: how the status of a chunk may move, as a caller sees it | |
| `ChunkProperties` | the properties, and the refinement of `ChunkLifecycle` | `ChunkManager`; `ChunkLifecycle` by INSTANCE |
| `ChunkManagerProofs` | proofs: types and dictionaries | `ChunkProperties`, `TLAPS` |
| `ChunkOrderProofs` | proofs: what holds whatever the callers do; progress | `ChunkManagerProofs` |
| `ChunkClientProofs` | proofs: what careful callers get, and the refinement | `ChunkOrderProofs` |
| `ChunkFileProofs` | proofs: what is in the files, and what is counted | `ChunkClientProofs` |
| `MCChunkManager` | constants of the runs | `ChunkProperties` |
| `RangePlan` | `calculate_ranges` as a loop, and its properties | `ChunkRanges` |
| `RangePlanProofs` | proofs about the plans and the strategies | `DownloadStrategies`, `TLAPS` |
| `DownloadStrategies` | both strategies, under a control loop | `RangePlan` |
| `MCStrategies` | constants of the runs | `DownloadStrategies` |
| `RangeCoverage` | `calculate_optimal_coverage` as a search, and its properties | `ChunkRanges` |
| `RangeCoverageProofs` | the invariants of the search | `RangeCoverage`, `TLAPS` |
| `Reconstruction` | `merge_chunks`, `reconstruct_file`, `merge_ranges` | `RangeCoverage` |
| `Recovery` | `RecoveryDownload`, a process that is killed, and the composition with the merge | `Reconstruction` |
| `RecoveryProofs` | the theorems | `Recovery`, `RangeCoverageProofs` |
| `MCRecovery` | constants of the runs | `Recovery` |
| `ResourceCrawl` | `list_resources`, `explore_resource`, what the extractors make of links | |
| `ResourceCrawlProofs` | proofs about the crawl | `ResourceCrawl`, `TLAPS` |
| `MCResourceCrawl` | constants of the run | `ResourceCrawl` |

The chunk manager and the strategies do not share state: what connects them, the control loop of
`DownloadTask`, is a stub in the source. `DownloadStrategies` models that loop from
`interfaces/protocols/download_strategy_protocol.py`.

### State of the chunk manager

A *job* is one `ChunkDownloadStats` object together with the task that updates it; jobs are numbered
in the order they are created. A second `start_chunk` for a range makes a new job, so the model can
tell an old task from the new entry of the same range.

| Variable | In the code |
|---|---|
| `job[j]` | the range, the kind (download, succession, recovered), `stats_predecessor` and `predecessor_task` |
| `pc[j]`, `exc[j]`, `cancelling[j]` | where the task is suspended, how it ended, a `task.cancel()` that is not delivered yet |
| `status`, `bytes`, `limit`, `observer` | `status`, `bytes_downloaded`, `limit_qt_bytes` and the armed callback of the stats |
| `disk[r]`, `path[j]` | the temporary file of a range; the name under which the file a task has open lives now |
| `stats[r]`, `tasks[r]` | `_chunks_stats`, `_chunks_tasks` (`NoJob` for no entry) |
| `monitor`, `cleaned` | `_monitor_task`, `_cleaned_up` |
| `call[c]` | the coroutine of the manager that caller `c` is suspended in, and its local variables |

### Actions

A synchronous method (`start_chunk`, `resize_chunk`) is one action. A coroutine is cut at its
awaits: `cancel_chunk` is `CancelOrDelete`, `CancelInitiated`, `CancelJoined`;
`delete_chunk_data` is the same and then `Unlink`; a wait is `WaitBegin`, `WakeUp`, `WaitEnd`;
`cancel_all_chunks` is `CancelAll`, `GatherEnd`; `cleanup` adds `Purge`. A worker goes
*created, opening, streaming, flushing, done*, a succession *created, awaiting, cropping, shifting,
moving, done*; at each of these places the await may fail (`OpenFails`, `LoseWrite`, `EndStream`
with an error, `FlushFails`, `CropFails`, `MoveFails`) or a cancellation may be delivered
(`Interrupt...`, `Stopped`). `Drop` is asyncio's treatment of a task that is cancelled before its
first step: the body, its `except` and its `finally` never run.

Order in the event loop, where the code relies on it: first steps of tasks are taken in the order the
tasks were created (`FirstToRun`); a coroutine that awaits a task directly is resumed before one
that awaits it through `asyncio.wait` or `gather`, whose own futures need one more pass
(`AwaitersFirst`, and the place `woken` between the wake-up of a wait and its continuation).
`asyncio.Task.cancel` on a task that awaits another task hits that one (`CancelTarget`).

### Range plans and strategies

`RangePlan` has one action per turn of a loop of `calculate_ranges` (`FillGap`, `TakeCached`,
`FillTail`), so that the loops have invariants that can be proved; `pos` stands for `current_pos`
and for `temp_start`, which are never needed at the same time. `DownloadStrategies` runs that loop
inside `on_start` (`planning`; nothing else happens meanwhile) and adds `on_update`, `on_end` and
the life of the chunks that hold the slots. `issued` remembers what the strategy has returned since
`on_start`.

### Search, merge and recovery

`RangeCoverage` has the variables of the function under their names (`queue`, `visited`, `path`;
`at` is `current_pos`, `cuts` what is left of `reachable_cuts`) and one action per turn of its outer
loop (`TakePosition`, or `TakeGoal` and `TakeOpenEnd` where it returns) and of its inner loop
(`TryCut`). Nothing else can run meanwhile: while `merging` is `"covering"` only these actions are
enabled. `Reconstruction` goes on with one action per file that is copied; between two of them other
coroutines run. The final file is the sequence of the source positions that were written to it.

In `Recovery` a chunk is a record of `stats`: its range, the range its file is *named* after (a
recovered chunk has a shorter one), the bytes counted and a status. `disk` is the length of each
temporary file; that a file holds the source from the start of its name on is what
`CompletedIsIntact` says of the chunk manager. Bytes are counted first (`Receive`) and reach the file
later (`FlushBuffer`), at the latest when the task ends (`EndDownload`). `save_info` is cut at its
awaits: the sizes of all files (`SaveBegins`), the comparison with the stats and the opening of the
recovery file, which empties it (`SaveOpens`), the write (`SaveWrites`), the deletions, any of which
may fail (`SaveEnds`). The sizes are asked for one by one: a file that changes meanwhile has answered
before or answers afterwards (`Asked`). The stats in its list are objects: of a chunk that is started
again it still sees the old one (`save.old`, `Replaced`). `Kill` takes away all that is in memory, at any
of these points and any number of times; what was counted and not flushed is lost. `Load` is `load_info`
and what the client does with it: the recovered chunks are the new manager's, and the client downloads
the runs of bytes that are missing. `purge_all` is two actions, with a kill in between where one comes:
the files of the chunks `load_info` accepts, each of which may fail to be deleted (`PurgeFiles`), and then
the recovery file, which may fail too (`PurgeInfo`).

`stale` is set when a file is written that the recovery file names, or any file after `save_info` has
been called in this process: from then on the recovery file speaks of files that are no longer as it
says. The code allows it, and `GrownChunk` shows what comes of it; the properties about the merge and
the recovery file are stated for clients that do not do this (they stop the downloads, then save). A
`purge_all`, and a cleanup of the files after a merge, while there is a recovery file make it stale too.

### Crawl

`ResourceCrawl` has one action per request: `TakeTask`, the OPTIONS probe (`ProbeDav`, `ProbeFile`,
`ProbeNothing`), and the answer to GET or PROPFIND (`AskForFile`, `Upgrade`, `FallBack`, `Classify`).
A server is a function from URLs to records: what OPTIONS says, how it answers GET and how PROPFIND,
what the extension tells, and the links in the body. The two answers have nothing to do with each other:
each has a form (links, WebDAV, status 207, status 405 or 501, a download, none) and a content type of its
own. Any other refusal (403, 404) has the form of a page without links, or with some, as its body is read
like every other. `Shows`, `Elsewhere` and `IsFile` are what the code makes of an answer: there are links
in it for the extractor, it makes the client ask again by the other method, it is taken for a file. `Digest` is what `list_resources` does with a result, including
`_enqueue_links`. The model takes `SpeaksDav` as Python reads `dav_header or "PROPFIND" in allow_header and
not process_only_files`: the DAV header alone is enough, even for a task that only asks for files.
The loops of the code that skip some links are `Only`, a recursive function, and not `SelectSeq`, because
the library defines that with a recursion the provers cannot open.

`ListsEverything` is about what the server gives away to whatever requests the code may make first for a
URL, which depend on the way it was met (`AskedFirst`). A page is `Readable` if each of them is answered with
its links, or sends the client to the other method, which is; a file is `Recognisable` if nothing says
otherwise of it, OPTIONS, GET, its extension and, where OPTIONS speaks of WebDAV, PROPFIND. Section 4
lists what the code misses outside of that.

### The life of a chunk

`ChunkLifecycle` knows only the status of each chunk, which chunks somebody works on and which are in
the stats: eight statuses, and the steps `Launch`, `Begin`, `CallOff`, `End`, `HandOver` and `Forget`.
Tasks, files, limits, dictionaries and callers do not occur. `ChunkProperties` instantiates it with the
states of the manager (`Lifecycle`), and `KeepsPromise` is checked as a PROPERTY: every step of the
manager is one of these steps or changes nothing of what they speak of. In particular a successor
becomes COMPLETED and its predecessor DEPRECATED in one step, the predecessor has ended by then and not
by an error, and work that has been called off never changes its status again.

### Abstractions

- A file is its length, the position of its first byte in the source, and whether it is `torn` (no
  longer one run of source bytes: two alignments, a hole, or padding). This is what distinguishes a
  right file from a wrong one of right or wrong size.
- A cancelled file operation leaves any of the states the thread may still reach (a crop that is stopped
  may leave the file as it was, shifted at its old length, or cut: `CropStopped`); the thread is taken
  to be finished by then. A thread that works on after the next action of another task is not modelled.
- An await of the network or the disk is answered by an error, a success or a cancellation in any
  order; time is left out. The throttler is the point where bytes are counted.
- Waits with a list of ranges and without one differ only in the entries they look at; the model has
  the form without a list. `as_stream` is a loop over the first wait. A caller that queues for
  `_wait_lock` (`CM:129`) has read nothing yet, so it is taken not to have called.
- An exception of a succession that came before it looked at its predecessor's file (`refused`) is told from
  one that came later (`error`): only the latter may have taken bytes away.
- `call`, an error and a `KeyError` are one outcome, `raised`.

### Operators named as slips

Some modules have, beside an operator, a second form of it that is *not* used: `ResumeAtOnce` next to
`Resume`, `StopMonitorAlways` next to `CheckStopMonitor`, and so on. Each is a plausible mistake in
that code, and replacing the operator by it must violate the property it is listed with under
`mutants`. This keeps the properties honest: one that survives its slip says nothing about the code.

## 3. Rules of the clients

The documentation promises nothing to a client that, for example, starts a range while it is deleting
it. `Manners` names five rules; a run says which of them its callers keep:

| Rule | A caller ... |
|---|---|
| `shutdown` | calls nothing but a wait while the manager shuts down or after it, and shuts down only when no other call is pending |
| `busy` | leaves a range alone while another caller cancels or deletes it |
| `successor` | leaves a chunk alone while a successor takes its file, and resizes to a range the manager does not know, once per chunk |
| `collect` | collects an ended chunk with a wait before deleting its data |
| `disjoint` | starts no range that overlaps a chunk that has not failed |

Each rule is there because TLC finds a violation without it, and each of those is a hazard in
`PROJECT.json`. One of them is reported as a finding because the documentation speaks against it
(`cleanup_orphan`, without `busy`). A theorem that needs some of the rules says so (section 5).

## 4. Runs

| Run | Question | Instance |
|---|---|---|
| `succession` | Do resizes of a chunk that is running, completed, failing or cancelled keep files, counts and dictionaries right, and is nothing repeated? | 3-byte file, one caller, 3 jobs: a chunk, its successor, and the successor's successor or a restart |
| `shared` | Do two callers that cancel, delete, wait with time-outs and resize find consistent dictionaries, tracked tasks and a monitor? | unknown file size, open ranges, one recovered chunk, two callers, 3 jobs |
| `shutdown` | Is nothing left running after `cleanup`, is every final status final, does nobody wait for what cannot come any more, and does the manager implement `ChunkLifecycle`? | two callers, any shutdown operation in any state, 3 jobs |
| `liveness` | Does every task, call and monitor end? | 2-byte file, two callers, 2 jobs, `FairSpec` |
| `cleanup_orphan` | violation: `cleanup` leaves a task running | as `shutdown`, without the rule `busy` |
| `crop_loses` | violation: a resize loses bytes of a completed chunk | 3-byte file, one resize that fails |
| `tail_truncated` | violation: an open-ended successor is COMPLETED without its tail | 3-byte file of known size |
| `strategies` | Do both strategies plan and issue every byte once, whatever is cached and however slots come and go? | files of 0 to 7 bytes, 3 connections, all sorted caches of up to 2 of 11 ranges |
| `multi_overshoots` | violation: more Start actions than slots | as `strategies`, multi-chunk strategy, no cache |
| `resume` | Is the merged file right after any number of saves, kills and loads, does the recovery file tell the truth, and is the coverage minimal and complete? | 3-byte file, 2 kills; and the merge of every set of up to 4 of its 9 ranges, known and unknown size; purges that fail halfway |
| `grown_chunk` | violation: bytes are written twice after a recovery | as `resume`, 1 kill, without the condition `~stale` |
| `crawl` | Does the crawl end, keep to its depth, explore each URL once, find every file the server gives away, and come nearer to its end with each step? | 4 URLs, levels 1 to 3, 2 patterns, `FairSpec` |

Bounds. `MaxJobs` (3, and 2 for liveness) bounds how many stats objects are ever created; three give
a chunk, a successor and either a second successor or a restart of the first chunk, which is the
longest chain in which the code relates jobs with each other. Every relation in the code is between a
chunk and its direct predecessor, or between a task and the entry of its own range. A file of three
bytes has a chunk that can lose a prefix, a suffix or both and keep at least one byte; blocks of 1 to
3 bytes reach, miss and overshoot a limit. Two callers suffice to have one call resume in a state
that another one has changed. The `shared` and `shutdown` runs treat the callers as symmetric;
`shutdown` states a `[][A]_vars` property whose formula does not mention callers, so the symmetry
is sound for it, and no liveness property is checked under symmetry (`KeepsPromise` is a safety property, and does not
mention callers either).

In `strategies`, seven bytes for up to three parts give every remainder of the division; two cached
ranges can be nested, overlap, touch, leave a gap before, between or after them, end the file, or be
open-ended. `limit_size_per_chunk` (2 MB) is 2 there, so that sizes lie on both sides of it.

In `resume` a file of three bytes has all the ways in which two or three chunks can overlap, nest, touch,
start together, leave a gap or be open-ended; four chunks (of nine ranges) are one more than the merge
ever needs. Two kills give a recovery of a recovery. `MinChunkSize` is 2, so that partial chunks lie on
both sides of it. Downloads start from an open range or a closed and an open one; what is downloaded
after a `Load` is whatever is missing. The empty file is there for the goal at position 0.

In `crawl`, four URLs give a root, two pages that link to each other, and a file. The pages are HTML
(also with quoted links only, and on servers that know WebDAV and answer PROPFIND with a listing, with 405
or with a page), JSON, and WebDAV folders that answer GET with WebDAV, with 207 or with an HTML index; the odd
ones answer GET with WebDAV and refuse PROPFIND, fail, or have no content type; the file is served with and
without WebDAV, with a PROPFIND that is refused, answered like a GET or answered with a listing of itself,
with a failing OPTIONS, and under a misleading extension. These are the sorts of answers the code tells
apart, not every mixture of them; the proofs are about every mixture. The levels lie below, at and above
the distance of the file.

`CHECK_DEADLOCK FALSE`: when all jobs are used and all calls have returned, nothing is left to do,
and no client is obliged to go on. That nothing is stuck earlier is what `NobodyStuck` checks, as an
invariant, and `CallsReturn` and `TasksEnd`. `NobodyStuck` speaks of what the awaits wait for (`CanStep`,
`CanContinue`): a task that is not done can go on or waits for one that can, and so does a suspended
call. `StepsRunOut` says that each step leaves fewer to come. That what can go on in this sense has a
step in the model is how the guards of the steps are written; that these steps do lead to an end is what
the liveness run checks, with fairness.

Fairness (`liveness`): each task, each suspended caller and the monitor is weakly fair on its own.
The code justifies it: httpx requests have timeouts and a response has finitely many bytes, disk
operations end or fail, the event loop resumes what is ready, and the monitor sleeps half a second
per pass. Nothing is assumed of the clients: no caller has to call, and an unfair choice between
success and failure of a step is left open.

In `crawl`, `WF_vars(Next)`: the crawl is one coroutine that always has a next statement, and every
request of it ends or fails (httpx has time-outs). The caller of the generator is assumed to go on
asking for items.

What the passing runs show, apart from the table: a succession crops only after the predecessor's
task is done, even when it is cancelled twice or the predecessor is cancelled while it flushes
(`ExclusiveFiles`); however resizes are chained, cancelled and failing, a byte is never counted for a chunk
and for its successor (`NothingCountedTwice`), which would be so if the predecessor kept its status after
the rename; the init
signal is what keeps `cancel_chunk` from dropping a task that has not run (`ActiveIsLive`), and
`cancel_all_chunks`, which does not wait for it, makes up for it by marking those chunks itself, and
only those (`StatusIsFinal`).

### Findings

- `cleanup_orphan`: `cancel_chunk` deletes the entry its range has after the await (`CM:282`), not the
  one of the task it cancelled. Two concurrent cancellations, with a restart in between, leave a
  running task without an entry; `cleanup` returns while it downloads.
- `crop_loses`: `run_chunk_succession` crops a COMPLETED predecessor's file in place and marks it
  DEPRECATED only after the rename. A failure or a cancellation in between leaves a COMPLETED chunk
  with a damaged file.
- `tail_truncated`: a successor with an open end takes what its predecessor happens to have as its
  size, so a predecessor that was cancelled early gives a COMPLETED chunk without its tail, although
  the file size is known.
- `grown_chunk`: `load_info` accepts a chunk file that is longer than it was saved and recovers the
  shorter range. A fragment that uses its whole range has no read limit, so the merge copies the file
  to its end and writes the rest twice. It happens when a chunk goes on downloading after `save_info`
  has looked at its file, and the process is killed.
- `multi_overshoots`: `calculate_ranges` rounds the size of a part down, so a file whose size is no
  multiple of the number of parts gets one range more (a file smaller than twice the number of parts,
  up to nearly as many again), and `MultiChunkDownloadStrategy.on_start` returns them all. The
  protocol says it never returns more than the available slots.

Observed while modelling, without a run of their own:

- The recovery file is rewritten in place (`recovery_download.py:100`, `save_binary_data` opens with
  `"wb"`). A kill while it is written leaves a torn file; `load_info` returns None, and neither the old
  nor the new state is used, although every chunk is still on disk. `docs/design_principles.md`
  (Principle 4) speaks of an "atomic metadata file" and says that no completed data is lost. In the model
  this is `infoFile = "torn"`.
- `resource_explorer.py:140`: because `and` binds stronger than `or`, a server that sends a DAV header
  makes a task that should only tell whether its URL is a file list a folder beyond the depth.
  `DepthKept` is stated with that exception.
- `is_navigable("", "")` is None, so a URL whose OPTIONS answer has no Content-Type is taken for a file
  (`resource_explorer.py:147`) and its links are not read.
- A file on a WebDAV server is missed when its URL was met without a method hint (as a JSON or a quoted
  link): the DAV header of OPTIONS leads to a PROPFIND, the 207 that lists nothing but the file itself counts
  as a directory (`:100`), and the extractor skips the file's own entry (`webdav_extractor.py`).
- A page whose PROPFIND answers 207, or is refused with anything but 405 and 501 (a 403 or a 404), loses the
  links it shows to GET when OPTIONS speaks of WebDAV: only those two statuses fall back (`:199`).
- The answer to a second request, or to a PROPFIND, that is neither a page by its type nor a 207 puts
  the URL itself on the list of files, a refused folder too (`:101`).
- On the last level the pattern is applied to the URL (`httpx_downloader.py:188`), elsewhere to the file
  name (`:215`), so a pattern that matches names only (`^report`) misses files there;
  a file whose URL ends like a page's, or whose OPTIONS request fails, is missed on the last level too.
  `ListsEverything` says for which files and patterns the crawl is complete.
- `purge_all` "Deletes both the recovery metadata and all associated data chunks" (`recovery_download.py:185`),
  but it only tries the files `load_info` accepts, only logs the deletions that fail, and then deletes the
  recovery file all the same: what stays behind has no name any more.
- A `cleanup` whose deletions fail raises, with `_cleaned_up` set and `_chunks_stats` kept; a second one
  does nothing. `CleanedIsQuiet` says nothing of `_chunks_stats`.
- A file that an HTML page links to is yielded once for every page that links to it.
- `cancel_chunk` awaits the init signal of the task without a time-out (`CM:275`). When another caller calls
  `cancel_all_chunks` meanwhile and the task has not taken its first step, the task is dropped, the
  signal is never set, and `cancel_chunk` never returns: `NobodyStuck` is violated after six steps without
  the rule `shutdown`, and holds with that rule alone (`NobodyIsStuck`).

## 5. Proofs

Eight modules hold proofs. Every theorem is about the specification the runs check, for every value of
the constants that the named `ASSUME`s of its module allow (`ChunkState` and `ChunkManager`: ranges are
well formed and lie in the file, the file size is the true one or unknown, recovered ranges are
distinct, at most `MaxJobs` jobs; `RangePlan`: the cache is sorted and well formed; `Recovery`: the
planned ranges lie in the file and every range of it may name a chunk file; `ResourceCrawl`: a site gives
each URL one page; `CrawlRunsOut` also needs that the URLs are finitely many). Every inductive invariant was checked with TLC on the constants of a run before it
was proved.

### The chunk manager

The argument has four layers, a proof module for each, which begins with its invariant.

| Module | Layer | Assumes | Theorems |
|---|---|---|---|
| `ChunkManagerProofs` | `BookInvariant` | nothing of the clients | `BooksInOrder`, `TypeCorrect` (`TypeOK`), `DictionariesAgree` (`BooksAgree`) |
| `ChunkOrderProofs` | `OrderInvariant` | nothing of the clients | `TasksInOrder`, `ActiveHasTask` (`ActiveIsLive`), `NoTaskIsStuck` (`TasksGoOn`, the first half of `NobodyStuck`), `StepsAreBounded` (`StepsRunOut`) |
| `ChunkOrderProofs` | `WaitsAgree` | the rule `shutdown` | `NobodyIsStuck` (`NobodyStuck`) |
| `ChunkClientProofs` | `CarefulInvariant` | `CarefulClients` | `ClientsInOrder`, `NoTaskIsLost` (`LiveIsTracked`), `ProgressIsReported` (`DownloadsAreMonitored`), `CleanupIsComplete` (`CleanedIsQuiet`), `FilesAreExclusive` (`ExclusiveFiles`), `EndingsAreFinal` (`StatusIsFinal`), `ManagerKeepsPromise` (`KeepsPromise`) |
| `ChunkClientProofs` | `RaiseInvariant` | `LoneClient` | `LoneCallsReturn` (`NoCallRaises`) |
| `ChunkFileProofs` | `FileInvariant` | `CarefulClients`, `PlainSource` | `CompletedChunksAreIntact` (`CompletedIsIntact`) |
| `ChunkFileProofs` | `CountInvariant` | `DisjointStarts` | `NoByteIsCountedTwice` (`NothingCountedTwice`) |

The assumptions beyond the constants' own:

- `CarefulClients` is three of the five rules of section 3, `shutdown`, `busy` and `successor`: what TLC
  shows to be needed. `cleanup_orphan` is the counterexample without `busy`.
- `LoneClient`: one caller at a time cancels, deletes (what it has collected) and waits, and does not
  clean up; `start_chunk` and `resize_chunk` may still be called at any time. Two callers may cancel the
  same task, and the later one meets a KeyError.
- `PlainSource`: the server honours ranges, and no successor is open-ended when the size of the file is
  known. Without it `tail_truncated` is the counterexample.
- `DisjointStarts`: `CarefulClients` and the rule `disjoint`; the server honours ranges (else a chunk may
  count more bytes than its range has), and the recovered chunks do not overlap (which `RecoveryIsSound`
  does not promise of every recovery file). Two overlapping chunks that a client downloads on purpose are
  counted twice by the code.
- The rule `shutdown` alone for `NobodyIsStuck`; `NoTaskIsStuck` and `StepsAreBounded` assume nothing.

*Books.* Neither `TypeOK` nor `BooksAgree` is inductive. `Move` sets the successor's count to
`EndCrop - StartCrop + 1`; for this to be a natural number when the successor is open-ended, where
`EndCrop` is the predecessor's count less one, the check of `crop_file` must still hold when the
rename comes some awaits later. `SuccessionsAgree` carries that: the predecessor is a download or has
ended, so its count can only grow meanwhile, and the predecessor's range contains the successor's.
That a succession is never the live predecessor of another one comes from `resize_chunk`'s
requirement of PENDING, DOWNLOADING or COMPLETED, while a live succession is AWAITING_SUCCESSION or
CANCELLED: the second strengthening. `KindsAgree` says which places of `pc` a job of each kind can
be at, which the other parts need to tell workers from successions.

*Order.* The danger is a task that is cancelled before its first step: no line of it runs, so nobody sets
its status (`Drop`). `Beginnings` says that such a chunk is called off already, or forgotten. It holds
because the event loop runs first steps in the order of creation (`InOrder`): a limit callback or a
cancellation that goes through a predecessor can only hit a task that has begun (`Lineage`).

*Progress.* Tasks wait for tasks only as a succession does for its predecessor, which was created
earlier (`Lineage`), so the least job that is not done waits for nobody, or for its first step; and that
one is next (`InOrder`). A caller waits for tasks, which is no problem once every task is done, or for an
init signal. `WaitsAgree` says that the signal is never that of a task which was cancelled before its first
step; this is inductive because `cancel_chunk` only cancels after the signal, and `cancel_all_chunks`, which
does not wait for it, is not called while somebody does (`shutdown`). `StepsRunOut` has a variant per
place: a worker that streams has `SourceSize + 2 - bytes[j]` steps left, which is positive because it never
receives more than there is (`StreamFits`); and since nobody but the task itself moves its `pc` or raises
its count while it is at work, no step of another task or caller gives it more.

*Clients.* `LiveIsKnown`, that both dictionaries know every running task, is the centre. What threatens it
is a caller that is suspended in the manager and deletes an entry when it comes back; `CallAgrees` says
for every await what the caller may still rely on. A succession reads its predecessor from the stats
across awaits, and `PredecessorsKept` says that it is there, done when its file is touched, and nobody
else's. `PlacesAgree` ties the status of a chunk to the place of its task, up to a cancellation that is
on its way (`Marked`). The proof goes by what a step may do instead of by action: every step of a task
changes one job, and perhaps its predecessor (*shape*), every step of a client leaves the jobs that run
where they are or makes a new one (*frame*), so that the invariant is shown for a handful of kinds of
steps, and each action is shown to be of its kind.

*Refinement.* Under the invariant each step of the manager is a step of `ChunkLifecycle` or leaves its
variables unchanged: `start_chunk` and `resize_chunk` are `Launch`, a first step of a download `Begin`,
an end of a task `End`, the rename of a succession `HandOver`, a cancellation `CallOff` or `Forget`.
That `End` and `CallOff` may only happen to a live chunk is `PlacesAgree`; that `HandOver` finds an ended
predecessor without an error is `PredecessorsKept`.

*Files.* What is written under which name is settled first: a step of a task changes its own file and
that of the predecessor whose file it takes over, and these are nobody else's (`ExclusiveFiles`). Then
`StreamAgrees` (a worker not in trouble has on disk what it counted), `RestAgrees` (what a task leaves
behind starts where its chunk starts, however it ended) and `CropAgrees` (what a succession has found
stays so until the rename) are inductive, and a COMPLETED chunk is intact.

*Counts.* `get_downloaded_bytes` is the number of pairs of a counted chunk and a byte of it. A chunk *claims*
its range while it is active or COMPLETED. Two claims overlap only between a chunk and the successor that
still waits for its file (`ClaimsDisjoint`), and such a successor is not counted; the rename ends the one
claim in the step in which the other one counts. A chunk counts no more bytes than its range has
(`BytesFit`). So the pairs are mapped one to one to bytes of the file, and there are no more of them than
that (`DisjointBytes`).

### Plans and strategies

- `RangesCover`: `PlanSpec => []PlanCovers`; no byte of the file is left out, whatever the cache;
- `RangesDisjoint`: `PlanSpec => []PlanDisjoint`; no byte is planned twice if the cache is disjoint;
- `StrategiesPlanWhole`: the same of the plans that the strategies make, `Spec => [](PlanCovers /\ PlanDisjoint)`;
- `StrategiesLoseNoByte`: `Spec => []EveryByteOnce`;
- `SequentialKeepsSlots`: the sequential strategy keeps `StartsFitSlots`, which the other one violates
  (`multi_overshoots`).

`PlanCovers` speaks of the end of the loops only; `PlanInvariant` says what holds between two turns:
the bytes before `current_pos` are covered, also when a nested cached range moves `current_pos` back;
and, for a disjoint cache, as long as there is something left to plan, all ranges so far are closed
and end before `current_pos`, and the rest of the cache begins at or after it. `StrategyInvariant` adds
that the ranges issued, followed by the pending ones, are the plan, as sequences: an `on_update` moves the
boundary between the two, and a second `on_start` starts over with both.

### Search, merge and recovery

For every file, every set of ranges, every minimum size, any number of kills and all interleavings:

- `MergedFragmentsMeet`: `Spec => []FragmentsMeet`, and `ReportedGapsAreReal`: `Spec => []GapIsReal`;
- `MergeReadsFewestFiles`: `Spec => []FewestFiles`;
- `MergeIsByteExact`: `Spec => []CarefulMergeIsExact`, and `MergeFailsForGaps`: `Spec => []RefusedForGaps`;
- `RecoveryFileIsTrue`: `Spec => []InfoIsTrue`;
- `RecoveryTypes`: `Spec => []RecoveryTypeOK`;
- `RecoveryIsSound`: `Spec => []RecoveryInvariant`, from which all but the second follow.

`SearchInvariant` is about the breadth-first search. Every path on the queue
*meets*: it starts at byte 0, each fragment where the one before stops, up to its position
(`QueueSound`). Every visited position waits on the queue or was *followed*: all cuts its chunks reach
were visited too (`VisitedSound`). So when the queue is empty and the end was not visited, suppose the
chunks held the file: take the least byte that no chunk starting at a visited position holds. Some chunk
holds it, and it starts after a byte that one of those chunks holds, so its start is a cut that one
reaches, hence visited: a contradiction (`VisitedHold`; the least element comes from the
well-foundedness of the naturals).

`LevelInvariant` is about the length of the paths. The queue is in the order of the lengths of its paths,
which differ by one at most, and a position with a path of length `n` *needs* `n` chunks: no set of fewer
chunks that holds the file up to it exists. For suppose one did, for a position that is met for the first
time at this length; the chunk of that set which reaches it starts at a cut the other chunks hold the
file up to, so that cut needs fewer chunks still, was met on a shorter path, and has been followed: the
position would have been met before. Hence the first path that reaches the end is of least length.

`RecoveryInvariant` is about the rest. `TypesOK` holds in every state: ranges, names and bytes belong
together (a file is named after a range with the same start; a completed chunk has the bytes of its
range; no two chunks share a range *or a file*, which needs that what is missing after a load never
starts where a recovered chunk does; and of the stats a save is going to write, the replaced ones among
them, no two are of one file). `AllTrue` holds until `stale`: the files of complete chunks are as
long as they say, the sizes a save has asked for are still right, what it will write is on disk and not
among what it will delete, and the copy has reached the position where the next file starts
(`CopyTrue`). `AllTrue` is not an invariant without `stale`, as `grown_chunk` shows; and the exactness of
the merge is not inductive without `SaveTrue`, because the lengths of the files come from a recovery file
that an earlier process wrote.

### Crawl

- `CrawlTypes`: `Spec => []CrawlTypeOK`;
- `NothingExploredTwice`: `Spec => []ExploredOnce`;
- `DepthIsKept`: `Spec => []DepthKept`;
- `EverythingIsListed`: `Spec => []ListsEverything`;
- `CrawlRunsOut`: `Spec => CrawlAdvances`.

`CrawlInvariant` says that what waits was seen and not taken (`TakenOnce`), that the levels on the queue
are sorted and differ by one at most (`Levels`), by which kind of link a task was met (`Hints`), and what
led to the request that is about to be made (`Phase`): the first one is one of `AskedFirst`, and a second
one is only made where the first was answered by `Elsewhere`. `ListingInvariant` adds,
for sites and patterns as in `ListsEverything`, that nothing is lost (`NothingLost`): a URL an opened page
leads to is met at the next level at the latest. This is where the order of the queue matters: a URL that
was seen before was seen at the same level or earlier, so that it is not skipped because somebody met
it deeper. By induction over the links from the root every page within the depth has been opened
when the queue is empty. `Phase` is what ties a page that is `Readable` to the answer it is read by.

`CrawlRunsOut` follows from `TakenOnce`: a task that is taken is one URL less of those not taken yet, which
pays for the three requests it makes at most; the second request of a task is never followed by a
third (`Phase`). With `CrawlEnds` checked by TLC this is the part of the termination that does not
depend on fairness.

The inductions over the length of a sequence (`OnlyKeeps`) and over the distance from the root
(`NearIsOpened`) are made by hand: the set of counterexamples, if it is not empty, has a least element
(`LeastElement`, from the well-foundedness of the naturals), and that one is impossible.

### Left to TLC

- All liveness (`TasksEnd`, `CallsReturn`, `MonitorStops`, `CrawlEnds`): fairness and ENABLED are out
  of the prover's reach. What does not depend on fairness is proved: that nobody is stuck and that steps
  run out.
- The five violations, which are single behaviours.

No module here uses RECURSIVE, so every one can be proved about.

## 6. Not modelled

- Throttling: clock arithmetic. Its effect on the control of a worker, a stream that pauses or fails,
  is part of `Receive` and `EndStream`.
- How the extractors find links in a text; attachments and pages of type text, which are files of the
  crawl; POST. In the source the header and the body of a page come from two requests
  (`resource_explorer.py:76`); the model takes the server to answer both alike. Redirects: a URL
  answers for itself.
- `get_file_info`: one request, whose headers are parsed.
- Failures of the storage in `save_info` and `load_info` other than failed deletions: an exception ends
  the call, and the recovery file is then as after a kill.
- `download_task.py`, `multi_chunk_downloader_manager.py`: stubs. `old/`: not imported by anything.
- `ChunkManager.__del__`: depends on when the garbage collector runs; it cancels no more than
  `cleanup` does.

## 7. Plan

What could come next, in this order:

1. `ClientsInOrder` with fewer rules: which of the properties hold when only `busy` is kept.
2. Successions inside `Recovery`: a save while a chunk is cropped and renamed.
3. `Throttling`: the window counters and the token bucket as integer state machines.

## 8. How to run

    tlc -config Succession.cfg MCChunkManager      # and the other .cfg files
    tlc -config Strategies.cfg MCStrategies        # and MultiOvershoots.cfg
    tlc -config Resume.cfg MCRecovery              # and GrownChunk.cfg
    tlc -config Crawl.cfg MCResourceCrawl
    tlapm ChunkManagerProofs.tla                   # and the other modules named ...Proofs

Each run takes between a few seconds and two minutes; the proofs take some minutes.
