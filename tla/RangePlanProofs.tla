-------------------------- MODULE RangePlanProofs --------------------------
(***************************************************************************)
(* calculate_ranges covers the file and plans no byte twice, and the       *)
(* strategies that call it lose no byte of the plan: for every file size,  *)
(* number of parts, cache and sequence of calls.                           *)
(***************************************************************************)
EXTENDS DownloadStrategies, TLAPS, FiniteSetTheorems, SequenceTheorems

LEMMA PieceBounds ==
    ASSUME NEW gapEnd \in Nat, target \in Nat \ {0}, pos \in Nat, pos <= gapEnd
    PROVE  /\ Piece(gapEnd) \in Nat \ {0}
           /\ pos + Piece(gapEnd) <= gapEnd + 1
BY DEF Piece

LEMMA TargetPositive ==
    ASSUME NEW size \in Nat, NEW parts \in Int
    PROVE  TargetSize(size, parts) \in Nat \ {0}
<1>1. CASE parts <= 0
  BY <1>1 DEF TargetSize
<1>2. CASE parts > 0
  <2>1. size \div parts \in Int
    BY <1>2
  <2> QED
    BY <1>2, <2>1 DEF TargetSize
<1> QED
  BY <1>1, <1>2

-----------------------------------------------------------------------------
\* What the variables are.
PlanTypeOK ==
    /\ fileSize \in Nat
    /\ target \in Nat \ {0}
    /\ cache \in Caches
    /\ next \in 1..Len(cache) + 1
    /\ pos \in Nat
    /\ ranges \in Seq(ChunkRange)

\* The bytes before current_pos are covered.
CoveredSoFar ==
    \A b \in 0..fileSize - 1 : b < pos => \E i \in 1..Len(ranges) : InRange(b, ranges[i])

\* While there is something left to plan, all that is planned ends before
\* current_pos, and the cache goes on after it.
Ahead ==
    (next <= Len(cache) \/ pos < fileSize) =>
        \A i \in 1..Len(ranges) : ranges[i].end # None /\ ranges[i].end < pos
DisjointSoFar ==
    Disjoint(cache) =>
        /\ Disjoint(ranges)
        /\ Ahead
        /\ next <= Len(cache) => pos <= cache[next].start

PlanInvariant == PlanTypeOK /\ CoveredSoFar /\ DisjointSoFar

LEMMA RangeTypes ==
    ASSUME NEW s \in Seq(ChunkRange)
    PROVE  \A i \in 1..Len(s) : s[i].start \in Nat /\ s[i].end \in Nat \union {None}
<1> SUFFICES ASSUME NEW i \in 1..Len(s)
             PROVE  s[i].start \in Nat /\ s[i].end \in Nat \union {None}
  OBVIOUS
<1>1. s[i] \in ChunkRange
  OBVIOUS
<1> QED
  BY <1>1 DEF ChunkRange

LEMMA CacheType ==
    ASSUME NEW s \in Caches, NEW i \in 1..Len(s)
    PROVE  /\ s \in Seq(ChunkRange)
           /\ s[i] \in ChunkRange
           /\ s[i].start \in Nat
           /\ s[i].end \in Nat \union {None}
           /\ s[i].end # None => s[i].start <= s[i].end
<1>1. s \in Seq(ChunkRange) /\ (s[i].end # None => s[i].start <= s[i].end)
  BY PlanAssumption
<1>2. s[i] \in ChunkRange
  BY <1>1
<1> QED
  BY <1>1, <1>2 DEF ChunkRange

\* What Append does to coverage and to disjointness.
LEMMA AppendCovers ==
    ASSUME NEW s \in Seq(ChunkRange), NEW r \in ChunkRange, NEW b \in Nat,
           InRange(b, r) \/ \E i \in 1..Len(s) : InRange(b, s[i])
    PROVE  \E i \in 1..Len(Append(s, r)) : InRange(b, Append(s, r)[i])
<1>1. /\ Len(Append(s, r)) = Len(s) + 1
      /\ Append(s, r)[Len(s) + 1] = r
      /\ \A i \in 1..Len(s) : Append(s, r)[i] = s[i]
      /\ Len(s) \in Nat
  OBVIOUS
<1>2. CASE InRange(b, r)
  <2>1. Len(s) + 1 \in 1..Len(Append(s, r))
    BY <1>1
  <2> QED
    BY <1>1, <1>2, <2>1
<1>3. CASE \E i \in 1..Len(s) : InRange(b, s[i])
  <2>1. PICK i \in 1..Len(s) : InRange(b, s[i])
    BY <1>3
  <2>2. i \in 1..Len(Append(s, r)) /\ Append(s, r)[i] = s[i]
    BY <1>1
  <2> QED
    BY <2>1, <2>2
<1> QED
  BY <1>2, <1>3

LEMMA AppendDisjoint ==
    ASSUME NEW s \in Seq(ChunkRange), NEW r \in ChunkRange, Disjoint(s),
           \A i \in 1..Len(s) : s[i].end # None /\ s[i].end < r.start
    PROVE  Disjoint(Append(s, r))
<1>1. /\ Len(Append(s, r)) = Len(s) + 1
      /\ Append(s, r)[Len(s) + 1] = r
      /\ \A i \in 1..Len(s) : Append(s, r)[i] = s[i]
      /\ Len(s) \in Nat
  OBVIOUS
<1> SUFFICES ASSUME NEW i \in 1..Len(s) + 1, NEW k \in 1..Len(s) + 1, i < k
             PROVE  Append(s, r)[i].end # None /\ Append(s, r)[i].end < Append(s, r)[k].start
  BY <1>1 DEF Disjoint
<1>2. i \in 1..Len(s) /\ Append(s, r)[i] = s[i]
  BY <1>1
<1>3. CASE k = Len(s) + 1
  BY <1>1, <1>2, <1>3
<1>4. CASE k \in 1..Len(s)
  BY <1>1, <1>2, <1>4 DEF Disjoint
<1> QED
  BY <1>1, <1>3, <1>4

LEMMA AppendAhead ==
    ASSUME NEW s \in Seq(ChunkRange), NEW r \in ChunkRange, NEW p \in Nat,
           \A i \in 1..Len(s) : s[i].end # None /\ s[i].end < p,
           r.end # None, r.end < p
    PROVE  \A i \in 1..Len(Append(s, r)) :
              Append(s, r)[i].end # None /\ Append(s, r)[i].end < p
<1>1. /\ Len(Append(s, r)) = Len(s) + 1
      /\ Append(s, r)[Len(s) + 1] = r
      /\ \A i \in 1..Len(s) : Append(s, r)[i] = s[i]
      /\ Len(s) \in Nat
  OBVIOUS
<1> SUFFICES ASSUME NEW i \in 1..Len(s) + 1
             PROVE  Append(s, r)[i].end # None /\ Append(s, r)[i].end < p
  BY <1>1
<1>2. CASE i = Len(s) + 1
  BY <1>1, <1>2
<1>3. CASE i \in 1..Len(s)
  BY <1>1, <1>3
<1> QED
  BY <1>1, <1>2, <1>3

\* A piece [pos, last] that is appended keeps the covered prefix growing.
LEMMA GrowsCovered ==
    ASSUME PlanTypeOK, CoveredSoFar, NEW r \in ChunkRange, r.start <= pos,
           ranges' = Append(ranges, r), fileSize' = fileSize, pos' \in Nat,
           r.end # None => pos' <= r.end + 1
    PROVE  CoveredSoFar'
<1> SUFFICES ASSUME NEW b \in 0..fileSize - 1, b < pos'
             PROVE  \E i \in 1..Len(ranges') : InRange(b, ranges'[i])
  BY DEF CoveredSoFar
<1>1. b \in Nat /\ ranges \in Seq(ChunkRange) /\ pos \in Nat /\ fileSize \in Nat
  BY DEF PlanTypeOK
<1>2. CASE b < pos
  BY <1>1, <1>2, AppendCovers DEF CoveredSoFar
<1>3. CASE b >= pos
  <2>1. r.start \in Nat /\ r.end \in Nat \union {None}
    BY DEF ChunkRange
  <2>2. InRange(b, r)
    BY <1>1, <1>3, <2>1 DEF InRange, None
  <2> QED
    BY <1>1, <2>2, AppendCovers
<1> QED
  BY <1>1, <1>2, <1>3

-----------------------------------------------------------------------------
LEMMA FillGapKeeps == PlanInvariant /\ FillGap => PlanInvariant'
<1> SUFFICES ASSUME PlanInvariant, FillGap PROVE PlanInvariant'
  OBVIOUS
<1> DEFINE gapEnd == cache[next].start - 1
           size == Piece(gapEnd)
           r == Interval(pos, size)
<1>1. PlanTypeOK /\ CoveredSoFar /\ DisjointSoFar
  BY DEF PlanInvariant
<1>2. /\ fileSize \in Nat /\ target \in Nat \ {0} /\ cache \in Caches /\ pos \in Nat
      /\ ranges \in Seq(ChunkRange) /\ next \in 1..Len(cache)
  BY <1>1, CacheType, PlanAssumption DEF PlanTypeOK, FillGap
<1>3. cache[next].start \in Nat /\ pos < cache[next].start
  BY <1>2, CacheType DEF FillGap
<1>4. gapEnd \in Nat /\ pos <= gapEnd
  BY <1>2, <1>3
<1>5. size \in Nat \ {0} /\ pos + size <= gapEnd + 1
  BY <1>2, <1>4, PieceBounds
<1>6. /\ ranges' = Append(ranges, r) /\ pos' = pos + size
      /\ UNCHANGED <<fileSize, target, cache, next>>
  BY DEF FillGap
<1>7. /\ r \in ChunkRange /\ r.start = pos /\ r.end = pos + size - 1 /\ r.end # None
      /\ r.end < pos'
  BY <1>2, <1>5, <1>6 DEF Interval, ChunkRange, None
<1>8. PlanTypeOK'
  BY <1>1, <1>2, <1>5, <1>6, <1>7 DEF PlanTypeOK
<1>9. CoveredSoFar'
  <2>1. pos' \in Nat /\ r.start <= pos /\ pos' <= r.end + 1
    BY <1>2, <1>5, <1>6, <1>7
  <2> QED
    BY <1>1, <1>6, <1>7, <2>1, GrowsCovered
<1>10. DisjointSoFar'
  <2> SUFFICES ASSUME Disjoint(cache)
               PROVE  Disjoint(ranges') /\ Ahead' /\ pos' <= cache[next].start
    BY <1>6 DEF DisjointSoFar
  <2>1. Disjoint(ranges) /\ \A i \in 1..Len(ranges) : ranges[i].end # None /\ ranges[i].end < pos
    BY <1>1, <1>2 DEF DisjointSoFar, Ahead
  <2>2. Disjoint(ranges')
    <3> HIDE DEF r
    <3> QED BY <1>2, <1>6, <1>7, <2>1, AppendDisjoint
  <2>3. \A i \in 1..Len(ranges) : ranges[i].end \in Nat \union {None}
    BY <1>2, RangeTypes
  <2>4. \A i \in 1..Len(ranges) : ranges[i].end # None /\ ranges[i].end < pos'
    <3>1. pos' \in Nat /\ pos < pos'
      BY <1>2, <1>5, <1>6
    <3> QED
      BY <1>2, <2>1, <2>3, <3>1 DEF None
  <2>5. pos' \in Nat
    BY <1>2, <1>5, <1>6
  <2>6. \A i \in 1..Len(ranges') : ranges'[i].end # None /\ ranges'[i].end < pos'
    <3> HIDE DEF r
    <3> QED BY <1>2, <1>6, <1>7, <2>4, <2>5, AppendAhead
  <2>7. pos' <= cache[next].start
    BY <1>2, <1>3, <1>5, <1>6
  <2> QED
    BY <2>2, <2>6, <2>7 DEF Ahead
<1> QED
  BY <1>8, <1>9, <1>10 DEF PlanInvariant

LEMMA TakeCachedKeeps == PlanInvariant /\ TakeCached => PlanInvariant'
<1> SUFFICES ASSUME PlanInvariant, TakeCached PROVE PlanInvariant'
  OBVIOUS
<1> DEFINE r == cache[next]
<1>1. PlanTypeOK /\ CoveredSoFar /\ DisjointSoFar
  BY DEF PlanInvariant
<1>2. /\ fileSize \in Nat /\ target \in Nat \ {0} /\ cache \in Caches /\ pos \in Nat
      /\ ranges \in Seq(ChunkRange) /\ next \in 1..Len(cache) /\ Len(cache) \in Nat
  BY <1>1, PlanAssumption DEF PlanTypeOK, TakeCached
<1>3. /\ r \in ChunkRange /\ r.start \in Nat /\ r.end \in Nat \union {None}
      /\ r.start <= pos
      /\ r.end # None => r.start <= r.end
  BY <1>2, CacheType DEF TakeCached
<1>4. /\ ranges' = Append(ranges, r) /\ next' = next + 1
      /\ pos' = IF r.end = None THEN fileSize ELSE r.end + 1
      /\ UNCHANGED <<fileSize, target, cache>>
  BY DEF TakeCached
<1>5. pos' \in Nat
  BY <1>2, <1>3, <1>4
<1>6. PlanTypeOK'
  BY <1>2, <1>3, <1>4, <1>5 DEF PlanTypeOK
<1>7. CoveredSoFar'
  <2>1. r.end # None => pos' <= r.end + 1
    BY <1>3, <1>4
  <2> HIDE DEF r
  <2> QED
    BY <1>1, <1>3, <1>4, <1>5, <2>1, GrowsCovered
<1>8. DisjointSoFar'
  <2> SUFFICES ASSUME Disjoint(cache)
               PROVE  /\ Disjoint(ranges')
                      /\ Ahead'
                      /\ next + 1 <= Len(cache) => pos' <= cache[next + 1].start
    BY <1>4 DEF DisjointSoFar
  <2>1. /\ Disjoint(ranges)
        /\ \A i \in 1..Len(ranges) : ranges[i].end # None /\ ranges[i].end < pos
        /\ pos = r.start
    BY <1>1, <1>2, <1>3 DEF DisjointSoFar, Ahead
  <2>2. Disjoint(ranges')
    <3> HIDE DEF r
    <3> QED BY <1>2, <1>3, <1>4, <2>1, AppendDisjoint
  <2>3. next + 1 <= Len(cache) =>
           r.end # None /\ r.end < cache[next + 1].start /\ cache[next + 1].start \in Nat
    BY <1>2, CacheType DEF Disjoint
  <2>4. next + 1 <= Len(cache) => pos' <= cache[next + 1].start
    BY <1>3, <1>4, <2>3
  <2>5. Ahead'
    <3> SUFFICES ASSUME next' <= Len(cache') \/ pos' < fileSize'
                 PROVE  \A i \in 1..Len(ranges') :
                           ranges'[i].end # None /\ ranges'[i].end < pos'
      BY DEF Ahead
    <3>1. r.end # None
      BY <1>2, <1>4, <2>3
    <3>2. pos' = r.end + 1 /\ pos < pos'
      BY <1>2, <1>3, <1>4, <2>1, <3>1
    <3>3. \A i \in 1..Len(ranges) : ranges[i].end \in Nat \union {None}
      BY <1>2, RangeTypes
    <3>4. \A i \in 1..Len(ranges) : ranges[i].end # None /\ ranges[i].end < pos'
      BY <1>2, <1>5, <2>1, <3>2, <3>3 DEF None
    <3>5. r.end < pos'
      BY <1>3, <3>1, <3>2 DEF None
    <3> HIDE DEF r
    <3> QED
      BY <1>2, <1>3, <1>4, <1>5, <3>1, <3>4, <3>5, AppendAhead
  <2> QED
    BY <2>2, <2>4, <2>5
<1> QED
  BY <1>6, <1>7, <1>8 DEF PlanInvariant

LEMMA FillTailKeeps == PlanInvariant /\ FillTail => PlanInvariant'
<1> SUFFICES ASSUME PlanInvariant, FillTail PROVE PlanInvariant'
  OBVIOUS
<1>1. PlanTypeOK /\ CoveredSoFar /\ DisjointSoFar
  BY DEF PlanInvariant
<1>2. /\ fileSize \in Nat /\ target \in Nat \ {0} /\ cache \in Caches /\ pos \in Nat
      /\ ranges \in Seq(ChunkRange) /\ next = Len(cache) + 1 /\ Len(cache) \in Nat
      /\ pos < fileSize
  BY <1>1, PlanAssumption DEF PlanTypeOK, FillTail
<1>3. PICK r \in ChunkRange :
         /\ ranges' = Append(ranges, r)
         /\ r.start = pos
         /\ \/ r.end = None /\ pos' = fileSize
            \/ r.end # None /\ r.end < pos' /\ pos' = r.end + 1 /\ pos < pos'
         /\ pos' \in Nat
  <2>1. CASE fileSize - pos <= target
    <3>1. [start |-> pos, end |-> None] \in ChunkRange
      BY <1>2 DEF ChunkRange
    <3> QED
      BY <1>2, <2>1, <3>1 DEF FillTail
  <2>2. CASE ~(fileSize - pos <= target)
    <3>1. /\ Interval(pos, target) \in ChunkRange
          /\ Interval(pos, target).start = pos
          /\ Interval(pos, target).end = pos + target - 1
          /\ pos + target - 1 # None
      BY <1>2 DEF Interval, ChunkRange, None
    <3>2. ranges' = Append(ranges, Interval(pos, target)) /\ pos' = pos + target
      BY <2>2 DEF FillTail
    <3> QED
      BY <1>2, <3>1, <3>2
  <2> QED
    BY <2>1, <2>2
<1>4. UNCHANGED <<fileSize, target, cache, next>>
  BY DEF FillTail
<1>5. PlanTypeOK'
  BY <1>1, <1>2, <1>3, <1>4 DEF PlanTypeOK
<1>6. CoveredSoFar'
  <2>1. r.end # None => pos' <= r.end + 1
    BY <1>3
  <2>2. r.start <= pos
    BY <1>2, <1>3
  <2> QED
    BY <1>1, <1>3, <1>4, <2>1, <2>2, GrowsCovered
<1>7. DisjointSoFar'
  <2> SUFFICES ASSUME Disjoint(cache) PROVE Disjoint(ranges') /\ Ahead'
    BY <1>2, <1>4 DEF DisjointSoFar
  <2>1. /\ Disjoint(ranges)
        /\ \A i \in 1..Len(ranges) : ranges[i].end # None /\ ranges[i].end < pos
    BY <1>1, <1>2 DEF DisjointSoFar, Ahead
  <2>2. Disjoint(ranges')
    BY <1>2, <1>3, <2>1, AppendDisjoint
  <2>3. Ahead'
    <3> SUFFICES ASSUME pos' < fileSize
                 PROVE  \A i \in 1..Len(ranges') :
                           ranges'[i].end # None /\ ranges'[i].end < pos'
      BY <1>2, <1>4 DEF Ahead
    <3>1. r.end # None /\ r.end < pos' /\ pos < pos'
      BY <1>2, <1>3
    <3>2. \A i \in 1..Len(ranges) : ranges[i].end \in Nat \union {None}
      BY <1>2, RangeTypes
    <3>3. \A i \in 1..Len(ranges) : ranges[i].end # None /\ ranges[i].end < pos'
      BY <1>2, <1>3, <2>1, <3>1, <3>2 DEF None
    <3> QED
      BY <1>2, <1>3, <3>1, <3>3, AppendAhead
  <2> QED
    BY <2>2, <2>3
<1> QED
  BY <1>5, <1>6, <1>7 DEF PlanInvariant

LEMMA PlanInitHolds == PlanInit => PlanInvariant
<1> SUFFICES ASSUME NEW size \in FileSizes, NEW parts \in Parts, NEW sorted \in Caches,
                    BeginPlan(size, parts, sorted)
             PROVE  PlanInvariant
  BY DEF PlanInit
<1>1. /\ fileSize \in Nat /\ target \in Nat \ {0} /\ cache \in Caches /\ next = 1
      /\ pos = 0 /\ ranges = <<>> /\ Len(cache) \in Nat
  BY PlanAssumption, TargetPositive DEF BeginPlan
<1>2. Len(ranges) = 0 /\ ranges \in Seq(ChunkRange)
  BY <1>1
<1>3. PlanTypeOK
  BY <1>1, <1>2 DEF PlanTypeOK
<1>4. CoveredSoFar
  BY <1>1 DEF CoveredSoFar
<1>5. DisjointSoFar
  <2>1. next <= Len(cache) => pos <= cache[next].start
    BY <1>1, CacheType
  <2> QED
    BY <1>2, <2>1 DEF DisjointSoFar, Disjoint, Ahead
<1> QED
  BY <1>3, <1>4, <1>5 DEF PlanInvariant

LEMMA PlanNextKeeps == PlanInvariant /\ [PlanStep]_planVars => PlanInvariant'
<1> SUFFICES ASSUME PlanInvariant, [PlanStep]_planVars PROVE PlanInvariant'
  OBVIOUS
<1>1. CASE PlanStep
  BY <1>1, FillGapKeeps, TakeCachedKeeps, FillTailKeeps DEF PlanStep
<1>2. CASE UNCHANGED planVars
  BY <1>2 DEF planVars, PlanInvariant, PlanTypeOK, CoveredSoFar, DisjointSoFar, Ahead,
              Disjoint
<1> QED
  BY <1>1, <1>2

\* calculate_ranges never leaves a byte of the file out, whatever the size, the
\* number of parts and the cache.
THEOREM RangesCover == PlanSpec => []PlanCovers
<1>1. PlanInvariant => PlanCovers
  BY DEF PlanInvariant, PlanTypeOK, CoveredSoFar, PlanCovers, Planned
<1> QED
  BY <1>1, PlanInitHolds, PlanNextKeeps, PTL DEF PlanSpec

\* calculate_ranges never plans a byte twice unless the cache holds it twice.
THEOREM RangesDisjoint == PlanSpec => []PlanDisjoint
<1>1. PlanInvariant => PlanDisjoint
  BY DEF PlanInvariant, DisjointSoFar, PlanDisjoint
<1> QED
  BY <1>1, PlanInitHolds, PlanNextKeeps, PTL DEF PlanSpec

-----------------------------------------------------------------------------
(* The strategies that use the plan.                                       *)

HoldsAll(s) == \A b \in 0..fileSize - 1 : \E i \in 1..Len(s) : InRange(b, s[i])

StrategyTypeOK ==
    /\ fileSize \in Nat /\ given \in Caches
    /\ kind \in {"sequential", "multi"} /\ initialized \in BOOLEAN /\ planning \in BOOLEAN
    /\ slots \in Nat /\ answer \in Nat
    /\ pending \in Seq(ChunkRange) /\ issued \in Seq(ChunkRange)
    /\ IsFiniteSet(active)

\* Before its plan is made a strategy has issued nothing.
NothingYet ==
    /\ planning \/ (kind = "sequential" /\ ~initialized) => issued = <<>> /\ pending = <<>>
    /\ kind = "multi" => pending = <<>> /\ ~initialized
    /\ issued # <<>> => chunks # {}

\* What was issued and what is pending are the plan.
WholePlan ==
    (initialized \/ issued # <<>>) /\ ~planning =>
        HoldsAll(issued \o pending) /\ (Disjoint(given) => Disjoint(issued \o pending))

SequentialFits == kind = "sequential" => StartsFitSlots

StrategyInvariant ==
    /\ StrategyTypeOK
    /\ planning => PlanInvariant /\ cache = given
    /\ PlanCovers /\ PlanDisjoint
    /\ NothingYet /\ WholePlan /\ SequentialFits

LEMMA PlanAnswers == PlanInvariant => PlanCovers /\ PlanDisjoint
BY DEF PlanInvariant, PlanTypeOK, CoveredSoFar, PlanCovers, Planned, DisjointSoFar, PlanDisjoint

LEMMA PlanBegins ==
    ASSUME StrategyTypeOK, NEW parts \in Int, Plan(parts)
    PROVE  PlanInvariant'
<1>1. /\ fileSize' = fileSize /\ target' = TargetSize(fileSize, parts) /\ cache' = given
      /\ next' = 1 /\ pos' = 0 /\ ranges' = <<>> /\ fileSize \in Nat /\ given \in Caches
  BY DEF Plan, StrategyTypeOK
<1>2. target' \in Nat \ {0} /\ Len(cache') \in Nat
  BY <1>1, TargetPositive, PlanAssumption
<1>3. Len(ranges') = 0 /\ ranges' \in Seq(ChunkRange)
  BY <1>1
<1>4. PlanTypeOK'
  BY <1>1, <1>2, <1>3 DEF PlanTypeOK
<1>5. CoveredSoFar'
  BY <1>1 DEF CoveredSoFar
<1>6. DisjointSoFar'
  <2>1. next' <= Len(cache') => pos' <= cache'[next'].start
    BY <1>1, <1>2, CacheType
  <2> QED
    BY <1>3, <2>1 DEF DisjointSoFar, Disjoint, Ahead
<1> QED
  BY <1>4, <1>5, <1>6 DEF PlanInvariant

LEMMA WholeFile ==
    /\ HoldsAll(<<Everything>>) /\ Disjoint(<<Everything>>)
    /\ <<Everything>> \in Seq(ChunkRange) /\ Len(<<Everything>>) = 1
<1>1. Everything \in ChunkRange
  BY DEF Everything, ChunkRange
<1>2. Len(<<Everything>>) = 1 /\ <<Everything>>[1] = Everything
  OBVIOUS
<1>3. \A b \in Nat : InRange(b, Everything)
  BY DEF InRange, Everything
<1> QED
  BY <1>1, <1>2, <1>3 DEF HoldsAll, Disjoint

\* The ranges of an answer are finitely many.
LEMMA FewElements ==
    ASSUME NEW s \in Seq(ChunkRange)
    PROVE  IsFiniteSet(Elements(s)) /\ (s # <<>> => Elements(s) # {})
<1> DEFINE f == [i \in 1..Len(s) |-> s[i]]
<1>1. Len(s) \in Nat
  OBVIOUS
<1>2. IsFiniteSet(1..Len(s))
  BY <1>1, FS_Interval
<1>3. f \in Surjection(1..Len(s), Elements(s))
  BY DEF Surjection, Elements
<1>4. IsFiniteSet(Elements(s))
  BY <1>2, <1>3, FS_Surjection
<1>5. s # <<>> => 1 \in 1..Len(s)
  BY <1>1
<1> QED
  BY <1>4, <1>5 DEF Elements

\* The loop knows how many slots are free.
LEMMA FreeSlots ==
    ASSUME StrategyTypeOK, NEW free \in 0..MaxConn - Cardinality(active)
    PROVE  free \in Nat
<1>1. Cardinality(active) \in Nat /\ MaxConn \in Nat
  BY FS_CardinalityType, StrategyAssumption DEF StrategyTypeOK
<1> QED
  BY <1>1

\* The head of the queue is issued, the rest of it stays pending.
LEMMA QueueIsCut ==
    ASSUME NEW s \in Seq(ChunkRange), NEW q \in Seq(ChunkRange), NEW n \in 0..Len(q)
    PROVE  /\ SubSeq(q, 1, n) \in Seq(ChunkRange) /\ Len(SubSeq(q, 1, n)) = n
           /\ SubSeq(q, n + 1, Len(q)) \in Seq(ChunkRange)
           /\ (s \o SubSeq(q, 1, n)) \o SubSeq(q, n + 1, Len(q)) = s \o q
<1>1. Len(q) \in Nat /\ \A i \in 1..Len(q) : q[i] \in ChunkRange
  OBVIOUS
<1>2. SubSeq(q, 1, n) \in Seq(ChunkRange) /\ Len(SubSeq(q, 1, n)) = n
  BY <1>1, SubSeqProperties
<1>3. SubSeq(q, n + 1, Len(q)) \in Seq(ChunkRange)
  BY <1>1, SubSeqProperties
<1>4. SubSeq(q, 1, n) \o SubSeq(q, n + 1, Len(q)) = SubSeq(q, 1, Len(q))
  <2>1. 1 \in 1..Len(q) + 1 /\ n \in (1 - 1)..Len(q) /\ Len(q) \in n..Len(q)
    BY <1>1
  <2> QED
    BY <2>1, ConcatAdjacentSubSeq, Zenon
<1>5. SubSeq(q, 1, Len(q)) = q
  BY SubSeqFull
<1>6. (s \o SubSeq(q, 1, n)) \o SubSeq(q, n + 1, Len(q)) = s \o (SubSeq(q, 1, n) \o SubSeq(q, n + 1, Len(q)))
  <2> DEFINE a == SubSeq(q, 1, n)
             b == SubSeq(q, n + 1, Len(q))
  <2>1. a \in Seq(ChunkRange) /\ b \in Seq(ChunkRange)
    BY <1>2, <1>3
  <2> HIDE DEF a, b
  <2>2. (s \o a) \o b = s \o (a \o b)
    BY <2>1, ConcatAssociative
  <2> QED
    BY <2>2 DEF a, b
<1> QED
  BY <1>2, <1>3, <1>4, <1>5, <1>6

LEMMA QueueIssued ==
    ASSUME StrategyTypeOK, NEW q \in Seq(ChunkRange), NEW free \in Nat, IssuePending(q, free)
    PROVE  /\ issued' \in Seq(ChunkRange) /\ pending' \in Seq(ChunkRange)
           /\ issued' \o pending' = issued \o q
           /\ answer' \in Nat /\ answer' <= free
           /\ IsFiniteSet(active')
           /\ issued' # <<>> => issued # <<>> \/ chunks' # {}
           /\ chunks \subseteq chunks'
<1> DEFINE n == Least(free, Len(q))
           starts == SubSeq(q, 1, n)
<1>1. n \in 0..Len(q) /\ n <= free
  BY DEF Least
<1>2. /\ answer' = Len(starts) /\ issued' = issued \o starts
      /\ chunks' = chunks \union Elements(starts) /\ active' = active \union Elements(starts)
      /\ pending' = SubSeq(q, n + 1, Len(q))
  BY DEF IssuePending, Return
<1> HIDE DEF n
<1>3. /\ starts \in Seq(ChunkRange) /\ Len(starts) = n
      /\ pending' \in Seq(ChunkRange) /\ issued \in Seq(ChunkRange)
      /\ (issued \o starts) \o pending' = issued \o q
  BY <1>1, <1>2, QueueIsCut DEF StrategyTypeOK
<1> HIDE DEF starts
<1>4. issued' \in Seq(ChunkRange) /\ issued' \o pending' = issued \o q
  <2>1. issued \o starts \in Seq(ChunkRange)
    BY <1>3, ConcatProperties, Zenon
  <2> QED
    BY <1>2, <1>3, <2>1, Zenon
<1>5. IsFiniteSet(active')
  BY <1>2, <1>3, FewElements, FS_Union DEF StrategyTypeOK
<1>6. issued' # <<>> => issued # <<>> \/ starts # <<>>
  BY <1>2
<1>7. issued' # <<>> => issued # <<>> \/ chunks' # {}
  BY <1>2, <1>3, <1>6, FewElements
<1>8. answer' = n /\ n \in Nat /\ n <= free
  BY <1>1, <1>2, <1>3
<1> QED
  BY <1>2, <1>3, <1>4, <1>5, <1>7, <1>8, Zenon

LEMMA AllReturned ==
    ASSUME StrategyTypeOK, NEW s \in Seq(ChunkRange), Return(s)
    PROVE  /\ issued' \in Seq(ChunkRange) /\ issued' = issued \o s /\ answer' \in Nat
           /\ IsFiniteSet(active')
           /\ issued' # <<>> => issued # <<>> \/ chunks' # {}
           /\ chunks \subseteq chunks'
<1>1. /\ answer' = Len(s) /\ issued' = issued \o s
      /\ chunks' = chunks \union Elements(s) /\ active' = active \union Elements(s)
  BY DEF Return
<1>2. IsFiniteSet(active')
  BY <1>1, FewElements, FS_Union DEF StrategyTypeOK
<1>3. issued' # <<>> => issued # <<>> \/ s # <<>>
  BY <1>1
<1> QED
  BY <1>1, <1>2, <1>3, FewElements DEF StrategyTypeOK

\* Nothing of the plan changes.
LEMMA PlanFrame ==
    ASSUME PlanCovers, PlanDisjoint, UNCHANGED planVars
    PROVE  PlanCovers' /\ PlanDisjoint'
BY DEF planVars, PlanCovers, PlanDisjoint, Planned, Disjoint

LEMMA StartSequentialKeeps ==
    ASSUME StrategyInvariant, NEW free \in Nat, ~planning, OnStartSequential(free),
           slots' = free, UNCHANGED <<kind, given>>
    PROVE  StrategyInvariant'
<1> USE DEF StrategyInvariant
<1>1. StrategyTypeOK /\ kind = "sequential" /\ kind' = kind /\ given' = given
  BY DEF OnStartSequential
<1>2. CASE initialized
  <2>1. IssuePending(pending, free) /\ UNCHANGED <<planVars, initialized, planning>>
    BY <1>2 DEF OnStartSequential
  <2>2. /\ issued' \in Seq(ChunkRange) /\ pending' \in Seq(ChunkRange)
        /\ issued' \o pending' = issued \o pending
        /\ answer' \in Nat /\ answer' <= free /\ IsFiniteSet(active')
        /\ issued' # <<>> => issued # <<>> \/ chunks' # {}
        /\ chunks \subseteq chunks'
    BY <1>1, <2>1, QueueIssued DEF StrategyTypeOK
  <2>3. PlanCovers' /\ PlanDisjoint'
    BY <2>1, PlanFrame
  <2>4. StrategyTypeOK'
    BY <1>1, <2>1, <2>2 DEF StrategyTypeOK, planVars
  <2>5. NothingYet'
    BY <1>1, <1>2, <2>1, <2>2 DEF NothingYet
  <2>6. WholePlan'
    BY <1>1, <1>2, <2>1, <2>2 DEF WholePlan, planVars, HoldsAll, Disjoint
  <2>7. SequentialFits'
    BY <2>2 DEF SequentialFits, StartsFitSlots
  <2> QED
    BY <2>1, <2>3, <2>4, <2>5, <2>6, <2>7
<1>3. CASE ~initialized /\ Plan(SequentialParts)
  <2>1. SequentialParts \in Int
    BY <1>1, StrategyAssumption DEF SequentialParts, StrategyTypeOK
  <2>2. PlanInvariant' /\ cache' = given /\ planning'
    BY <1>1, <1>3, <2>1, PlanBegins DEF Plan
  <2>3. PlanCovers' /\ PlanDisjoint'
    BY <2>2, PlanAnswers, PTL
  <2>4. StrategyTypeOK'
    BY <1>1, <1>3 DEF Plan, StrategyTypeOK
  <2>5. NothingYet'
    BY <1>1, <1>3 DEF Plan, NothingYet
  <2> QED
    BY <1>1, <2>2, <2>3, <2>4, <2>5 DEF WholePlan, SequentialFits, StartsFitSlots
<1>4. CASE ~initialized /\ ~Plan(SequentialParts)
  <2>1. /\ IssuePending(<<Everything>>, free) /\ initialized' = TRUE /\ ranges' = <<Everything>>
        /\ UNCHANGED <<fileSize, target, cache, next, pos, planning>>
    BY <1>4 DEF OnStartSequential
  <2>2. /\ issued' \in Seq(ChunkRange) /\ pending' \in Seq(ChunkRange)
        /\ issued' \o pending' = issued \o <<Everything>>
        /\ answer' \in Nat /\ answer' <= free /\ IsFiniteSet(active')
        /\ issued' # <<>> => issued # <<>> \/ chunks' # {}
        /\ chunks \subseteq chunks'
    BY <1>1, <2>1, QueueIssued, WholeFile
  <2>3. issued = <<>> /\ pending = <<>>
    BY <1>1, <1>4 DEF NothingYet
  <2>4. issued' \o pending' = <<Everything>>
    BY <2>2, <2>3, WholeFile
  <2>5. PlanCovers' /\ PlanDisjoint'
    BY <2>1, WholeFile DEF PlanCovers, PlanDisjoint, HoldsAll, Disjoint
  <2>6. StrategyTypeOK'
    BY <1>1, <2>1, <2>2 DEF StrategyTypeOK
  <2>7. NothingYet'
    BY <1>1, <2>1, <2>2, <2>3 DEF NothingYet
  <2>8. WholePlan'
    BY <2>1, <2>4, WholeFile DEF WholePlan, HoldsAll, Disjoint
  <2>9. SequentialFits'
    BY <2>2 DEF SequentialFits, StartsFitSlots
  <2> QED
    BY <2>1, <2>5, <2>6, <2>7, <2>8, <2>9
<1> QED
  BY <1>2, <1>3, <1>4

LEMMA StartMultiKeeps ==
    ASSUME StrategyInvariant, NEW free \in Nat, ~planning, OnStartMulti(free),
           slots' = free, UNCHANGED <<kind, given>>
    PROVE  StrategyInvariant'
<1> USE DEF StrategyInvariant
<1>1. StrategyTypeOK /\ kind = "multi" /\ chunks = {} /\ Plan(Least(MaxConn, free))
  BY DEF OnStartMulti
<1>2. Least(MaxConn, free) \in Int
  BY StrategyAssumption DEF Least
<1>3. PlanInvariant' /\ cache' = given /\ planning'
  BY <1>1, <1>2, PlanBegins DEF Plan
<1>4. PlanCovers' /\ PlanDisjoint'
  BY <1>3, PlanAnswers, PTL
<1>5. StrategyTypeOK'
  BY <1>1 DEF Plan, StrategyTypeOK
<1>6. NothingYet'
  BY <1>1 DEF Plan, NothingYet
<1> QED
  BY <1>1, <1>3, <1>4, <1>5, <1>6 DEF WholePlan, SequentialFits, StartsFitSlots

LEMMA PlanOnKeeps ==
    ASSUME StrategyInvariant, PlanOn
    PROVE  StrategyInvariant'
<1> USE DEF StrategyInvariant
<1>1. /\ StrategyTypeOK /\ PlanInvariant /\ cache = given /\ planning /\ PlanStep
      /\ UNCHANGED <<kind, given, pending, initialized, planning, slots, answer, issued, chunks, active>>
  BY DEF PlanOn
<1>2. PlanInvariant'
  BY <1>1, PlanNextKeeps
<1>3. PlanCovers' /\ PlanDisjoint'
  BY <1>2, PlanAnswers, PTL
<1>4. cache' = cache /\ fileSize' = fileSize
  BY <1>1 DEF PlanStep, FillGap, TakeCached, FillTail
<1>5. StrategyTypeOK' /\ NothingYet'
  BY <1>1, <1>4 DEF StrategyTypeOK, NothingYet
<1> QED
  BY <1>1, <1>2, <1>3, <1>4, <1>5 DEF WholePlan, SequentialFits, StartsFitSlots

\* The plan is complete: all of it is issued or waits.
LEMMA EndPlanKeeps ==
    ASSUME StrategyInvariant, EndPlan
    PROVE  StrategyInvariant'
<1> USE DEF StrategyInvariant
<1>1. /\ StrategyTypeOK /\ PlanInvariant /\ cache = given /\ planning /\ Planned /\ planning' = FALSE
      /\ issued = <<>> /\ pending = <<>>
      /\ UNCHANGED <<planVars, kind, given, slots>>
  BY DEF EndPlan, NothingYet
<1>2. /\ ranges \in Seq(ChunkRange) /\ HoldsAll(ranges)
      /\ Disjoint(given) => Disjoint(ranges)
  BY <1>1, PlanAnswers DEF PlanInvariant, PlanTypeOK, PlanCovers, PlanDisjoint, HoldsAll
<1>3. PlanCovers' /\ PlanDisjoint'
  BY <1>1, PlanFrame
<1>4. /\ issued' \in Seq(ChunkRange) /\ pending' \in Seq(ChunkRange)
      /\ issued' \o pending' = ranges
      /\ answer' \in Nat /\ IsFiniteSet(active')
      /\ issued' # <<>> => chunks' # {}
      /\ kind = "sequential" => answer' <= slots /\ initialized' = TRUE
      /\ kind = "multi" => pending' = pending /\ initialized' = initialized
  <2>1. CASE kind = "sequential"
    <3>1. IssuePending(ranges, slots) /\ initialized' = TRUE
      BY <2>1 DEF EndPlan
    <3>2. slots \in Nat
      BY <1>1 DEF StrategyTypeOK
    <3>3. /\ issued' \in Seq(ChunkRange) /\ pending' \in Seq(ChunkRange)
          /\ issued' \o pending' = issued \o ranges
          /\ answer' \in Nat /\ answer' <= slots /\ IsFiniteSet(active')
          /\ issued' # <<>> => issued # <<>> \/ chunks' # {}
      BY <1>1, <1>2, <3>1, <3>2, QueueIssued
    <3> QED
      BY <1>1, <1>2, <2>1, <3>1, <3>3
  <2>2. CASE kind = "multi"
    <3>1. Return(ranges) /\ UNCHANGED <<pending, initialized>>
      BY <2>2 DEF EndPlan
    <3>2. /\ issued' \in Seq(ChunkRange) /\ issued' = issued \o ranges /\ answer' \in Nat
          /\ IsFiniteSet(active')
          /\ issued' # <<>> => issued # <<>> \/ chunks' # {}
      BY <1>1, <1>2, <3>1, AllReturned
    <3>3. issued' = ranges /\ pending' = <<>>
      BY <1>1, <1>2, <3>1, <3>2
    <3> QED
      BY <1>1, <1>2, <2>2, <3>1, <3>2, <3>3
  <2> QED
    BY <1>1, <2>1, <2>2 DEF StrategyTypeOK
<1>5. initialized' \in BOOLEAN
  BY <1>1, <1>4 DEF StrategyTypeOK
<1>6. StrategyTypeOK'
  BY <1>1, <1>4, <1>5 DEF StrategyTypeOK, planVars
<1>7. NothingYet'
  BY <1>1, <1>4 DEF NothingYet
<1>8. WholePlan'
  BY <1>1, <1>2, <1>4 DEF WholePlan, planVars, HoldsAll, Disjoint
<1>9. SequentialFits'
  BY <1>1, <1>4 DEF SequentialFits, StartsFitSlots
<1> QED
  BY <1>1, <1>3, <1>6, <1>7, <1>8, <1>9

LEMMA UpdateKeeps ==
    ASSUME StrategyInvariant, NEW free \in Nat, OnUpdate(free)
    PROVE  StrategyInvariant'
<1> USE DEF StrategyInvariant
<1>1. /\ StrategyTypeOK /\ ~planning /\ kind = "sequential" /\ IssuePending(pending, free)
      /\ slots' = free /\ UNCHANGED <<planVars, kind, given, initialized, planning>>
  BY DEF OnUpdate
<1>2. /\ issued' \in Seq(ChunkRange) /\ pending' \in Seq(ChunkRange)
      /\ issued' \o pending' = issued \o pending
      /\ answer' \in Nat /\ answer' <= free /\ IsFiniteSet(active')
      /\ issued' # <<>> => issued # <<>> \/ chunks' # {}
      /\ chunks \subseteq chunks'
  BY <1>1, QueueIssued DEF StrategyTypeOK
<1>3. PlanCovers' /\ PlanDisjoint'
  BY <1>1, PlanFrame
<1>4. StrategyTypeOK'
  BY <1>1, <1>2 DEF StrategyTypeOK, planVars
<1>5. ~initialized => issued' = <<>> /\ pending' = <<>>
  <2> SUFFICES ASSUME ~initialized
               PROVE  issued' = <<>> /\ pending' = <<>>
    OBVIOUS
  <2>1. issued = <<>> /\ pending = <<>>
    BY <1>1 DEF NothingYet
  <2>2. issued' \o pending' = <<>>
    BY <1>2, <2>1
  <2>3. Len(issued') + Len(pending') = 0
    BY <1>2, <2>2
  <2> QED
    BY <1>2, <2>3
<1>6. NothingYet'
  BY <1>1, <1>2, <1>5 DEF NothingYet
<1>7. WholePlan'
  BY <1>1, <1>2, <1>5 DEF WholePlan, planVars, HoldsAll, Disjoint
<1>8. SequentialFits'
  BY <1>1, <1>2 DEF SequentialFits, StartsFitSlots
<1> QED
  BY <1>1, <1>3, <1>4, <1>6, <1>7, <1>8

LEMMA OnEndKeeps ==
    ASSUME StrategyInvariant, NEW kept, OnEnd(kept)
    PROVE  StrategyInvariant'
<1> USE DEF StrategyInvariant
<1>1. /\ StrategyTypeOK /\ ~planning /\ initialized' = FALSE /\ pending' = <<>> /\ issued' = <<>>
      /\ answer' = 0 /\ active' = {} /\ UNCHANGED <<planVars, kind, given, planning, slots>>
  BY DEF OnEnd
<1>2. StrategyTypeOK'
  <2>1. IsFiniteSet(active')
    BY <1>1, FS_EmptySet, Zenon
  <2>2. issued' \in Seq(ChunkRange) /\ pending' \in Seq(ChunkRange)
    BY <1>1
  <2>3. initialized' \in BOOLEAN /\ planning' \in BOOLEAN /\ answer' \in Nat
    BY <1>1 DEF StrategyTypeOK
  <2> QED
    BY <1>1, <2>1, <2>2, <2>3 DEF StrategyTypeOK, planVars
<1> QED
  BY <1>1, <1>2, PlanFrame DEF NothingYet, WholePlan, SequentialFits, StartsFitSlots, StrategyTypeOK

LEMMA ChunkEndsKeeps ==
    ASSUME StrategyInvariant, NEW r, ChunkEnds(r)
    PROVE  StrategyInvariant'
<1> USE DEF StrategyInvariant
<1>1. /\ StrategyTypeOK /\ active' = active \ {r} /\ ~planning
      /\ UNCHANGED <<planVars, kind, given, pending, initialized, planning, slots, answer, issued, chunks>>
  BY DEF ChunkEnds
<1>2. IsFiniteSet(active')
  BY <1>1, FS_RemoveElement DEF StrategyTypeOK
<1>3. StrategyTypeOK'
  BY <1>1, <1>2 DEF StrategyTypeOK, planVars
<1> QED
  BY <1>1, <1>3, PlanFrame
     DEF NothingYet, WholePlan, SequentialFits, StartsFitSlots, planVars, HoldsAll, Disjoint

LEMMA InitStrategies == Init => StrategyInvariant
<1> SUFFICES ASSUME Init
             PROVE  StrategyInvariant
  OBVIOUS
<1>1. PlanInvariant
  BY PlanInitHolds DEF Init
<1>2. PlanCovers /\ PlanDisjoint /\ fileSize \in Nat /\ cache \in Caches
  BY <1>1, PlanAnswers DEF PlanInvariant, PlanTypeOK
<1>3. StrategyTypeOK
  <2>1. IsFiniteSet(active)
    BY FS_EmptySet, Zenon DEF Init
  <2>2. issued \in Seq(ChunkRange) /\ pending \in Seq(ChunkRange)
    BY DEF Init
  <2>3. initialized \in BOOLEAN /\ planning \in BOOLEAN /\ slots \in Nat /\ answer \in Nat
    BY DEF Init
  <2>4. kind \in {"sequential", "multi"} /\ given = cache
    BY StrategyAssumption DEF Init
  <2> QED
    BY <1>2, <2>1, <2>2, <2>3, <2>4 DEF StrategyTypeOK
<1> QED
  BY <1>2, <1>3 DEF Init, StrategyInvariant, NothingYet, WholePlan, SequentialFits, StartsFitSlots

LEMMA NextStrategies ==
    ASSUME StrategyInvariant, [Next]_vars
    PROVE  StrategyInvariant'
<1>1. CASE UNCHANGED vars
  BY <1>1 DEF vars, planVars, StrategyInvariant, StrategyTypeOK, PlanInvariant, PlanTypeOK, CoveredSoFar,
              DisjointSoFar, Ahead, PlanCovers, PlanDisjoint, Planned, Disjoint, NothingYet, WholePlan,
              HoldsAll, SequentialFits, StartsFitSlots
<1>2. ASSUME NEW free \in 0..MaxConn - Cardinality(active), OnStart(free) \/ OnUpdate(free)
      PROVE  StrategyInvariant'
  <2>1. free \in Nat
    BY FreeSlots DEF StrategyInvariant
  <2> QED
    BY <1>2, <2>1, StartSequentialKeeps, StartMultiKeeps, UpdateKeeps DEF OnStart
<1>3. CASE PlanOn \/ EndPlan
  BY <1>3, PlanOnKeeps, EndPlanKeeps
<1>4. CASE \E kept \in {chunks, {}} : OnEnd(kept)
  BY <1>4, OnEndKeeps
<1>5. CASE \E r \in active : ChunkEnds(r)
  BY <1>5, ChunkEndsKeeps
<1> QED
  BY <1>1, <1>2, <1>3, <1>4, <1>5 DEF Next

\* In disjoint ranges that hold every byte, each byte is in one.
LEMMA OneHolder ==
    ASSUME NEW s \in Seq(ChunkRange), Disjoint(s), HoldsAll(s), NEW b \in 0..fileSize - 1
    PROVE  Holders(s, b) = 1
<1>1. PICK i \in 1..Len(s) : InRange(b, s[i])
  BY DEF HoldsAll
<1>2. ASSUME NEW k \in 1..Len(s), InRange(b, s[k])
      PROVE  k = i
  <2>1. /\ s[i].start \in Nat /\ s[i].end \in Nat \union {None}
        /\ s[k].start \in Nat /\ s[k].end \in Nat \union {None}
    BY RangeTypes
  <2>2. ~(i < k) /\ ~(k < i)
    BY <1>1, <1>2, <2>1 DEF Disjoint, InRange
  <2>3. i \in Int /\ k \in Int
    OBVIOUS
  <2> QED
    BY <2>2, <2>3
<1>3. {k \in 1..Len(s) : InRange(b, s[k])} = {i}
  BY <1>1, <1>2
<1> QED
  BY <1>3, FS_Singleton DEF Holders

LEMMA StrategiesSound == Spec => []StrategyInvariant
<1> QED
  BY InitStrategies, NextStrategies, PTL DEF Spec

\* From on_start to on_end every byte of the file is in exactly one range that
\* was issued or waits, for both strategies, every file, cache, number of
\* connections and sequence of on_start, on_update and on_end.
THEOREM StrategiesLoseNoByte == Spec => []EveryByteOnce
<1>1. ASSUME StrategyInvariant
      PROVE  EveryByteOnce
  <2> SUFFICES ASSUME initialized \/ issued # <<>>, ~planning, Disjoint(given),
                      NEW b \in 0..fileSize - 1
               PROVE  Holders(issued \o pending, b) = 1
    BY DEF EveryByteOnce
  <2>1. issued \o pending \in Seq(ChunkRange)
    BY <1>1 DEF StrategyInvariant, StrategyTypeOK
  <2>2. HoldsAll(issued \o pending) /\ Disjoint(issued \o pending)
    BY <1>1 DEF StrategyInvariant, WholePlan
  <2> QED
    BY <2>1, <2>2, OneHolder
<1> QED
  BY <1>1, StrategiesSound, PTL

\* The plans the strategies make, also again after on_end, cover the file and
\* plan no byte twice.
THEOREM StrategiesPlanWhole == Spec => [](PlanCovers /\ PlanDisjoint)
<1>1. StrategyInvariant => PlanCovers /\ PlanDisjoint
  BY DEF StrategyInvariant
<1> QED
  BY <1>1, StrategiesSound, PTL

\* The sequential strategy keeps to the slots it is given; the multi-chunk
\* strategy does not.
THEOREM SequentialKeepsSlots == Spec => [](kind = "sequential" => StartsFitSlots)
<1>1. StrategyInvariant => (kind = "sequential" => StartsFitSlots)
  BY DEF StrategyInvariant, SequentialFits
<1> QED
  BY <1>1, StrategiesSound, PTL
=============================================================================
