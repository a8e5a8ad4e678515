------------------------- MODULE DownloadStrategies -------------------------
(***************************************************************************)
(* The two built-in strategies and the control loop that consults them.    *)
(* The loop is not in the source yet: on_start, on_update and on_end may   *)
(* come in any order DownloadStrategyProtocol allows, with any number of   *)
(* slots that are really free; the ranges a strategy returns are started,  *)
(* become known to the manager, and end.                                   *)
(***************************************************************************)
EXTENDS RangePlan, FiniteSets

CONSTANTS
    Kinds,          \* "sequential", "multi"
    MaxConn,        \* max_conn
    LimitSize,      \* limit_size_per_chunk
    UseChunked      \* use_chunked_download

ASSUME StrategyAssumption ==
    /\ Kinds \subseteq {"sequential", "multi"}
    /\ MaxConn \in Nat \ {0}
    /\ LimitSize \in Nat \ {0}
    /\ UseChunked \in BOOLEAN

VARIABLES
    kind,         \* the class of the strategy
    given,        \* its cache
    pending,      \* _pending_ranges
    initialized,  \* _initialized
    planning,     \* whether a call of on_start is inside calculate_ranges
    slots,        \* available_slots of the last call
    answer,       \* how many Start actions it returned
    issued,       \* the ranges of all Start actions since on_start
    chunks,       \* the keys of chunks_stats
    active        \* the chunks that hold a connection

vars == <<planVars, kind, given, pending, initialized, planning, slots, answer,
          issued, chunks, active>>

Elements(s) == {s[i] : i \in 1..Len(s)}
Least(a, b) == IF a < b THEN a ELSE b

Everything == [start |-> 0, end |-> None]

\* The loop carries the Start actions out.
Return(starts) ==
    /\ answer' = Len(starts)
    /\ issued' = issued \o starts
    /\ chunks' = chunks \union Elements(starts)
    /\ active' = active \union Elements(starts)

\* Slip: the ranges are left in the list.
IssueAndKeep(queue, free) ==
    /\ Return(SubSeq(queue, 1, Least(free, Len(queue))))
    /\ pending' = queue
\* _issue_pending, with queue as _pending_ranges.
IssuePending(queue, free) ==
    LET n == Least(free, Len(queue)) IN
    /\ Return(SubSeq(queue, 1, n))
    /\ pending' = SubSeq(queue, n + 1, Len(queue))

\* _calc_initial_ranges of the sequential strategy.
SequentialParts ==
    IF fileSize \div MaxConn < LimitSize
    THEN IF fileSize \div LimitSize < 1 THEN 1 ELSE fileSize \div LimitSize
    ELSE MaxConn

Plan(parts) ==
    /\ planning' = TRUE
    /\ target' = TargetSize(fileSize, parts)
    /\ cache' = given
    /\ next' = 1
    /\ pos' = 0
    /\ ranges' = <<>>
    /\ UNCHANGED <<fileSize, pending, initialized, answer, issued, chunks, active>>

\* on_start; with chunks already there it does nothing.
OnStartSequential(free) ==
    /\ kind = "sequential"
    /\ chunks = {}
    /\ \/ /\ initialized
          /\ IssuePending(pending, free)
          /\ UNCHANGED <<planVars, initialized, planning>>
       \/ /\ ~initialized /\ UseChunked /\ fileSize > 0
          /\ Plan(SequentialParts)
       \/ /\ ~initialized /\ (~UseChunked \/ fileSize <= 0)
          /\ IssuePending(<<Everything>>, free)
          /\ initialized' = TRUE
          /\ ranges' = <<Everything>>
          /\ UNCHANGED <<fileSize, target, cache, next, pos, planning>>

OnStartMulti(free) ==
    /\ kind = "multi"
    /\ chunks = {}
    /\ free > 0
    /\ Plan(Least(MaxConn, free))

OnStart(free) ==
    /\ ~planning
    /\ OnStartSequential(free) \/ OnStartMulti(free)
    /\ slots' = free
    /\ UNCHANGED <<kind, given>>

\* calculate_ranges, inside on_start.
PlanOn ==
    /\ planning
    /\ PlanStep
    /\ UNCHANGED <<kind, given, pending, initialized, planning, slots, answer,
                   issued, chunks, active>>

\* The rest of on_start.
EndPlan ==
    /\ planning
    /\ Planned
    /\ planning' = FALSE
    /\ IF kind = "sequential"
       THEN IssuePending(ranges, slots) /\ initialized' = TRUE
       ELSE Return(ranges) /\ UNCHANGED <<pending, initialized>>
    /\ UNCHANGED <<planVars, kind, given, slots>>

\* on_update; the multi-chunk strategy has nothing to add.
OnUpdate(free) ==
    /\ ~planning
    /\ kind = "sequential"
    /\ IssuePending(pending, free)
    /\ slots' = free
    /\ UNCHANGED <<planVars, kind, given, initialized, planning>>

\* on_end; the manager is cleaned up or kept for a second on_start.
OnEnd(kept) ==
    /\ ~planning
    /\ initialized' = FALSE
    /\ pending' = <<>>
    /\ issued' = <<>>
    /\ answer' = 0
    /\ chunks' = kept
    /\ active' = {}
    /\ UNCHANGED <<planVars, kind, given, planning, slots>>

\* A chunk ends and gives its connection back.
ChunkEnds(r) ==
    /\ ~planning
    /\ r \in active
    /\ active' = active \ {r}
    /\ UNCHANGED <<planVars, kind, given, pending, initialized, planning, slots,
                   answer, issued, chunks>>

Init ==
    /\ PlanInit
    /\ kind \in Kinds
    /\ given = cache
    /\ pending = <<>>
    /\ initialized = FALSE
    /\ planning = FALSE
    /\ slots = 0
    /\ answer = 0
    /\ issued = <<>>
    /\ chunks = {}
    /\ active = {}

Next ==
    \/ \E free \in 0..MaxConn - Cardinality(active) : OnStart(free) \/ OnUpdate(free)
    \/ PlanOn
    \/ EndPlan
    \/ \E kept \in {chunks, {}} : OnEnd(kept)
    \/ \E r \in active : ChunkEnds(r)

Spec == Init /\ [][Next]_vars

-----------------------------------------------------------------------------
\* How many of the ranges hold byte b.
Holders(s, b) == Cardinality({i \in 1..Len(s) : InRange(b, s[i])})

\* From on_start to on_end every byte of the file is in exactly one range that
\* was issued or is still pending: also when on_start comes again after on_end,
\* when slots come and go, and whatever the cache, as long as that is disjoint.
EveryByteOnce ==
    (initialized \/ issued # <<>>) /\ ~planning /\ Disjoint(given) =>
        \A b \in 0..fileSize - 1 : Holders(issued \o pending, b) = 1

\* download_strategy_protocol.py, on_start: "The strategy should never return
\* more `StartChunkAction`s than this available balance."
StartsFitSlots == ~planning => answer <= slots
=============================================================================
