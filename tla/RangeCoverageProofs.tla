------------------------ MODULE RangeCoverageProofs ------------------------
(***************************************************************************)
(* calculate_optimal_coverage takes bytes that meet, and reports a gap     *)
(* only where there is one: for every set of chunks and every file size.   *)
(***************************************************************************)
EXTENDS RangeCoverage, TLAPS, WellFoundedInduction, FiniteSetTheorems

LEMMA LeastElement ==
    ASSUME NEW T, T \subseteq Nat, T # {}
    PROVE  \E x \in T : \A y \in T : x <= y
<1> DEFINE R == {ss \in Nat \X Nat : ss[1] < ss[2]}
<1>1. IsWellFoundedOn(R, Nat)
  BY NatLessThanWellFounded DEF OpToRel
<1>2. PICK x \in T : \A y \in T : ~ (<<y, x>> \in R)
  <2> HIDE DEF R
  <2> QED
    BY <1>1, WFMin
<1>3. \A y \in T : y < x => <<y, x>> \in R
  OBVIOUS
<1>4. \A y \in T : ~ (y < x)
  <2> HIDE DEF R
  <2> QED
    BY <1>2, <1>3, Zenon
<1> HIDE DEF R
<1> QED
  BY <1>4

-----------------------------------------------------------------------------
(* The invariant of the search.                                            *)

Waiting == [at : Nat, path : Seq(Fragment)]

SearchTypeOK ==
    /\ chunks \subseteq ChunkRange
    /\ size \in Nat \union {None}
    /\ queue \in Seq(Waiting)
    /\ visited \subseteq Nat
    /\ at \in Nat
    /\ path \in Seq(Fragment)
    /\ cuts \subseteq Nat
    /\ outcome \in {"idle", "searching", "path", "gap"}

\* The fragments meet, or they lead beyond the end of the file, from where the
\* search never comes back to it.
Sound(p, a) == Meets(p, a) \/ (size # None /\ a > size)
QueueSound == \A i \in 1..Len(queue) : Sound(queue[i].path, queue[i].at)

\* While cuts are left, the chunk at this position reaches all of them, and one
\* that is read to EOF has the end of the file among them.
CutsSound ==
    cuts # {} =>
        /\ Sound(path, at)
        /\ \A q \in cuts : at < q /\ \A r \in chunks : BestAt(r, at) => Reaches(r, q)
        /\ \A r \in chunks : r.start = at /\ r.end = None =>
              size # None /\ (at < size => size \in cuts)

\* Every cut the chunks at v reach was met.
Followed(v) ==
    \A s \in chunks : s.start = v =>
        /\ ~(size = None /\ s.end = None)
        /\ \A q \in CutPoints : v < q /\ Reaches(s, q) => q \in visited \union cuts
Waits(v) == \E i \in 1..Len(queue) : queue[i].at = v

\* What was visited was followed or still waits, and the end was not visited.
VisitedSound ==
    /\ 0 \in visited
    /\ size # 0 => size \notin visited
    /\ size = 0 => cuts = {} /\ queue # <<>>
    /\ \A v \in visited : Followed(v) \/ Waits(v)

\* All chunks start within the file.
ChunksWithin == size = 0 => \A r \in chunks : r.start = 0

\* Why the search reports a gap.
NoneAtStart == chunks # {} /\ \A r \in chunks : r.start # 0
NothingLeft ==
    /\ 0 \in visited /\ cuts = {} /\ size \notin visited
    /\ \A v \in visited : Followed(v)

SearchInvariant ==
    /\ SearchTypeOK
    /\ ChunksWithin
    /\ outcome = "searching" => QueueSound /\ CutsSound /\ VisitedSound
    /\ outcome = "path" => Meets(path, size)
    /\ outcome = "gap" => NoneAtStart \/ NothingLeft

-----------------------------------------------------------------------------
(* Fragments.                                                              *)

LEMMA RangeFields ==
    ASSUME NEW r \in ChunkRange
    PROVE  r.start \in Nat /\ r.end \in Nat \union {None}
BY DEF ChunkRange

LEMMA FragmentFields ==
    ASSUME NEW f \in Fragment
    PROVE  f.range \in ChunkRange /\ f.limit \in Nat \union {None}
BY DEF Fragment

\* One more fragment, from where the others end.
LEMMA MeetsLonger ==
    ASSUME NEW p \in Seq(Fragment), NEW f \in Fragment, NEW a \in Nat, NEW goal,
           Meets(p, a), f.range.start = a, Stop(f) = goal
    PROVE  Meets(Append(p, f), goal)
<1> DEFINE q == Append(p, f)
<1>1. /\ Len(q) = Len(p) + 1 /\ Len(p) \in Nat
      /\ \A i \in 1..Len(p) : q[i] = p[i]
      /\ q[Len(p) + 1] = f /\ q # <<>>
  OBVIOUS
<1>2. CASE p = <<>>
  <2>1. a = 0 /\ Len(p) = 0
    BY <1>2 DEF Meets
  <2> QED
    BY <1>1, <2>1 DEF Meets
<1>3. CASE p # <<>>
  <2>1. Len(p) > 0
    BY <1>3
  <2>2. q[1] = p[1] /\ q[Len(p)] = p[Len(p)]
    BY <1>1, <2>1
  <2>3. /\ p[1].range.start = 0
        /\ \A i \in 1..Len(p) - 1 : Stop(p[i]) = p[i + 1].range.start
        /\ Stop(p[Len(p)]) = a
    BY <1>3 DEF Meets
  <2> HIDE DEF q
  <2>4. ASSUME NEW i \in 1..Len(q) - 1
        PROVE  Stop(q[i]) = q[i + 1].range.start
    <3>1. CASE i = Len(p)
      BY <1>1, <2>2, <2>3, <3>1
    <3>2. CASE i # Len(p)
      <4>1. i \in 1..Len(p) - 1 /\ i + 1 \in 1..Len(p) /\ i \in 1..Len(p)
        BY <1>1, <3>2
      <4>2. q[i] = p[i] /\ q[i + 1] = p[i + 1]
        BY <1>1, <4>1
      <4> QED
        BY <2>3, <4>1, <4>2
    <3> QED
      BY <3>1, <3>2
  <2>5. q[1].range.start = 0 /\ Stop(q[Len(q)]) = goal
    BY <1>1, <2>2, <2>3
  <2>6. Meets(q, goal)
    BY <1>1, <2>4, <2>5 DEF Meets
  <2> QED
    BY <2>6 DEF q
<1> QED
  BY <1>2, <1>3

\* The bytes of a closed chunk, up to a cut it reaches.
LEMMA ClosedStops ==
    ASSUME NEW r \in ChunkRange, r.end # None, NEW next \in Nat,
           r.start < next, Reaches(r, next)
    PROVE  /\ [range |-> r, limit |-> ReadLimit(r, next)] \in Fragment
           /\ Stop([range |-> r, limit |-> ReadLimit(r, next)]) = next
<1>1. r.start \in Nat /\ r.end \in Nat
  BY RangeFields
<1>2. CASE next >= r.end + 1
  BY <1>1, <1>2 DEF ReadLimit, Stop, Reaches, Fragment, None
<1>3. CASE next < r.end + 1
  <2>1. ReadLimit(r, next) = next - r.start
    BY <1>1, <1>3 DEF ReadLimit
  <2>2. next - r.start \in Nat /\ r.start + (next - r.start) = next /\ next - r.start # None
    BY <1>1 DEF None
  <2> QED
    BY <2>1, <2>2 DEF Stop, Fragment
<1> QED
  BY <1>1, <1>2, <1>3

LEMMA OpenStops ==
    ASSUME NEW r \in ChunkRange, r.end = None, NEW next
    PROVE  /\ ReadLimit(r, next) = None
           /\ [range |-> r, limit |-> None] \in Fragment
           /\ Stop([range |-> r, limit |-> None]) = size
BY DEF ReadLimit, Fragment, Stop

-----------------------------------------------------------------------------
(* Each step keeps the invariant.                                          *)

LEMMA InitSearches == SearchInit => SearchInvariant
BY DEF SearchInit, SearchInvariant, SearchTypeOK, ChunksWithin

LEMMA ForgetSearches == ForgetSearch => SearchInvariant'
BY DEF ForgetSearch, SearchInvariant, SearchTypeOK, ChunksWithin

LEMMA UnchangedSearches ==
    ASSUME SearchInvariant, UNCHANGED searchVars
    PROVE  SearchInvariant'
BY DEF SearchInvariant, searchVars, SearchTypeOK, ChunksWithin, QueueSound, CutsSound, VisitedSound,
       Sound, Meets, Stop, BestAt, Farther, Followed, Waits, CutPoints, NoneAtStart, NothingLeft

LEMMA BeginSearches ==
    ASSUME NEW given, given \subseteq ChunkRange, given # {},
           NEW n \in Nat \union {None}, n = 0 => \A r \in given : r.start = 0,
           BeginSearch(given, n)
    PROVE  SearchInvariant'
<1> DEFINE first == [at |-> 0, path |-> <<>>]
<1>1. /\ chunks' = given /\ size' = n /\ visited' = {0} /\ at' = 0 /\ path' = <<>>
      /\ cuts' = {} /\ queue' = <<first>>
      /\ outcome' = IF \E r \in given : r.start = 0 THEN "searching" ELSE "gap"
  BY DEF BeginSearch
<1>2. SearchTypeOK'
  <2>1. first \in Waiting /\ path' \in Seq(Fragment)
    BY <1>1 DEF Waiting
  <2>2. queue' \in Seq(Waiting)
    <3> HIDE DEF first
    <3> QED
      BY <1>1, <2>1
  <2> QED
    BY <1>1, <2>1, <2>2 DEF SearchTypeOK
<1>3. ChunksWithin'
  BY <1>1 DEF ChunksWithin
<1>4. Len(queue') = 1 /\ queue'[1].at = 0 /\ queue'[1].path = <<>>
  BY <1>1
<1>5. QueueSound'
  BY <1>4 DEF QueueSound, Sound, Meets
<1>6. VisitedSound'
  <2>1. Waits(0)'
    BY <1>4 DEF Waits
  <2>2. queue' # <<>>
    BY <1>1
  <2> QED
    BY <1>1, <2>1, <2>2 DEF VisitedSound, None
<1>7. outcome' = "gap" => NoneAtStart'
  BY <1>1 DEF NoneAtStart
<1> QED
  BY <1>1, <1>2, <1>3, <1>5, <1>6, <1>7 DEF SearchInvariant, CutsSound

\* What the head of the queue is.
LEMMA HeadOfQueue ==
    ASSUME SearchTypeOK, queue # <<>>
    PROVE  /\ Head(queue) = queue[1] /\ 1 \in 1..Len(queue)
           /\ queue[1].at \in Nat /\ queue[1].path \in Seq(Fragment)
           /\ Tail(queue) \in Seq(Waiting) /\ Len(Tail(queue)) = Len(queue) - 1
           /\ \A i \in 1..Len(queue) - 1 : Tail(queue)[i] = queue[i + 1]
<1>1. queue \in Seq(Waiting)
  BY DEF SearchTypeOK
<1>2. queue[1] \in Waiting
  BY <1>1
<1> QED
  BY <1>1, <1>2 DEF Waiting

LEMMA GoalTaken ==
    ASSUME SearchInvariant, TakeGoal
    PROVE  SearchInvariant'
<1>1. SearchTypeOK /\ QueueSound /\ queue # <<>>
  BY DEF SearchInvariant, TakeGoal
<1>2. queue[1].at = size /\ path' = queue[1].path
  BY <1>1, HeadOfQueue DEF TakeGoal
<1>3. Meets(path', size) /\ path' \in Seq(Fragment)
  BY <1>1, <1>2, HeadOfQueue DEF QueueSound, Sound
<1> QED
  BY <1>3 DEF SearchInvariant, TakeGoal, SearchTypeOK, ChunksWithin, Meets, Stop

LEMMA OpenEndTaken ==
    ASSUME SearchInvariant, TakeOpenEnd
    PROVE  SearchInvariant'
<1>1. SearchTypeOK /\ QueueSound /\ queue # <<>> /\ size = None
  BY DEF SearchInvariant, TakeOpenEnd
<1>2. PICK r \in chunks :
         /\ r.start = queue[1].at /\ r.end = None
         /\ path' = Append(queue[1].path, [range |-> r, limit |-> None])
  BY <1>1, HeadOfQueue DEF TakeOpenEnd, BestAt
<1>3. r \in ChunkRange
  BY <1>1 DEF SearchTypeOK
<1>4. /\ queue[1].at \in Nat /\ queue[1].path \in Seq(Fragment)
      /\ Meets(queue[1].path, queue[1].at)
  BY <1>1, HeadOfQueue DEF QueueSound, Sound
<1> DEFINE f == [range |-> r, limit |-> None]
<1>5. f \in Fragment /\ Stop(f) = size /\ f.range.start = queue[1].at
  BY <1>2, <1>3, OpenStops
<1> HIDE DEF f
<1>6. Meets(path', size) /\ path' \in Seq(Fragment)
  BY <1>2, <1>4, <1>5, MeetsLonger DEF f
<1> QED
  BY <1>6 DEF SearchInvariant, TakeOpenEnd, SearchTypeOK, ChunksWithin, Meets, Stop

\* Of the chunks that start at one position, what any reaches the best reaches.
LEMMA BestReaches ==
    ASSUME chunks \subseteq ChunkRange, NEW p, NEW r \in chunks, BestAt(r, p),
           NEW s \in chunks, s.start = p
    PROVE  /\ s.end = None => r.end = None
           /\ \A q \in Nat : Reaches(s, q) => Reaches(r, q)
<1>1. r.end \in Nat \union {None} /\ s.end \in Nat \union {None}
  BY RangeFields
<1>2. Farther(r, s)
  BY DEF BestAt
<1> QED
  BY <1>1, <1>2 DEF Farther, Reaches, None

LEMMA PositionTaken ==
    ASSUME SearchInvariant, TakePosition
    PROVE  SearchInvariant'
<1> USE DEF TakePosition
<1>1. SearchTypeOK /\ QueueSound /\ VisitedSound /\ queue # <<>> /\ cuts = {}
  BY DEF SearchInvariant
<1>2. /\ at' = queue[1].at /\ path' = queue[1].path /\ queue' = Tail(queue)
      /\ at' \in Nat /\ path' \in Seq(Fragment) /\ queue' \in Seq(Waiting)
      /\ Len(queue') = Len(queue) - 1
      /\ \A i \in 1..Len(queue') : queue'[i] = queue[i + 1] /\ i + 1 \in 1..Len(queue)
      /\ Sound(path', at')
  BY <1>1, HeadOfQueue DEF QueueSound
<1>3. PICK r \in chunks :
         /\ BestAt(r, at') /\ ~(size = None /\ r.end = None)
         /\ cuts' = {q \in CutPoints \ visited : at' < q /\ Reaches(r, q)}
  OBVIOUS
<1>4. CutPoints \subseteq Nat /\ chunks \subseteq ChunkRange
  BY <1>1, RangeFields DEF SearchTypeOK, CutPoints
<1>5. SearchTypeOK'
  BY <1>1, <1>2, <1>3, <1>4 DEF SearchTypeOK
<1>6. QueueSound'
  <2> SUFFICES ASSUME NEW i \in 1..Len(queue')
               PROVE  Sound(queue[i].path, queue[i].at)'
    BY DEF QueueSound
  <2>1. Sound(queue[i + 1].path, queue[i + 1].at) /\ queue'[i] = queue[i + 1]
    BY <1>1, <1>2 DEF QueueSound
  <2>2. Sound(queue'[i].path, queue'[i].at)
    BY <2>1
  <2>3. size' = size
    OBVIOUS
  <2> HIDE DEF TakePosition
  <2> QED
    BY <2>2, <2>3 DEF Sound, Meets, Stop
<1>7. CutsSound'
  <2>1. Sound(path, at)'
    BY <1>2 DEF Sound, Meets, Stop
  <2>2. ASSUME NEW q \in cuts', NEW t \in chunks, BestAt(t, at')
        PROVE  at' < q /\ Reaches(t, q)
    <3>1. at' < q /\ Reaches(r, q) /\ q \in Nat
      BY <1>3, <1>4
    <3>2. t.start = at' /\ r.start = at'
      BY <1>3, <2>2 DEF BestAt
    <3> QED
      BY <1>3, <1>4, <2>2, <3>1, <3>2, BestReaches
  <2>3. ASSUME NEW t \in chunks, t.start = at', t.end = None
        PROVE  size # None /\ (at' < size => size \in cuts')
    <3>1. r.end = None /\ size # None
      BY <1>3, <1>4, <2>3, BestReaches
    <3>2. ASSUME at' < size
          PROVE  size \in cuts'
      <4>1. size \in CutPoints /\ size # 0
        BY <1>2, <3>1, <3>2 DEF CutPoints
      <4> QED
        BY <1>1, <1>3, <3>1, <3>2, <4>1 DEF VisitedSound, Reaches
    <3> QED
      BY <3>1, <3>2
  <2>4. \A q \in cuts' : at' < q
    BY <1>3
  <2> QED
    BY <2>1, <2>2, <2>3, <2>4 DEF CutsSound, BestAt, Farther, Reaches
<1>8. VisitedSound'
  <2>1. 0 \in visited' /\ (size' # 0 => size' \notin visited')
    BY <1>1 DEF VisitedSound
  <2>2. size' # 0
    <3>1. SUFFICES ASSUME size = 0
                   PROVE  FALSE
      OBVIOUS
    <3>2. r.start = at' /\ r.start = 0
      BY <1>3, <3>1 DEF BestAt, SearchInvariant, ChunksWithin
    <3> QED
      BY <3>1, <3>2
  <2>3. ASSUME NEW v \in visited
        PROVE  Followed(v)' \/ Waits(v)'
    <3>1. CASE v = at'
      <4>1. ASSUME NEW s \in chunks, s.start = v
            PROVE  /\ ~(size = None /\ s.end = None)
                   /\ \A q \in CutPoints : v < q /\ Reaches(s, q) => q \in visited \union cuts'
        BY <1>3, <1>4, <3>1, <4>1, BestReaches
      <4> QED
        BY <4>1 DEF Followed, CutPoints, Reaches
    <3>2. CASE v # at' /\ Followed(v)
      BY <1>1, <3>2 DEF Followed, CutPoints, Reaches
    <3>3. CASE v # at' /\ Waits(v)
      <4>1. PICK i \in 1..Len(queue) : queue[i].at = v
        BY <3>3 DEF Waits
      <4>2. i # 1 /\ i - 1 \in 1..Len(queue')
        BY <1>2, <3>3, <4>1
      <4>3. queue'[i - 1].at = v
        BY <1>2, <4>1, <4>2
      <4> QED
        BY <4>2, <4>3 DEF Waits
    <3> QED
      BY <1>1, <3>1, <3>2, <3>3 DEF VisitedSound
  <2> QED
    BY <2>1, <2>2, <2>3 DEF VisitedSound
<1> QED
  BY <1>5, <1>6, <1>7, <1>8 DEF SearchInvariant, ChunksWithin

\* A fragment up to the furthest cut that is left.
LEMMA CutIsSound ==
    ASSUME SearchTypeOK, CutsSound, NEW next \in cuts, NEW r \in chunks,
           Furthest(next), BestAt(r, at)
    PROVE  LET longer == Append(path, [range |-> r, limit |-> ReadLimit(r, next)])
           IN  longer \in Seq(Fragment) /\ Sound(longer, next)
<1> DEFINE f == [range |-> r, limit |-> ReadLimit(r, next)]
<1>1. /\ r \in ChunkRange /\ next \in Nat /\ at \in Nat /\ path \in Seq(Fragment)
      /\ size \in Nat \union {None}
  BY DEF SearchTypeOK
<1>2. r.start = at /\ r.start \in Nat /\ r.end \in Nat \union {None} /\ f.range.start = at
  BY <1>1, RangeFields DEF BestAt
<1>3. at < next /\ Reaches(r, next) /\ Sound(path, at)
  BY DEF CutsSound
<1>4. f \in Fragment /\ Stop(f) = IF r.end = None THEN size ELSE next
  BY <1>1, <1>2, <1>3, ClosedStops, OpenStops
<1> HIDE DEF f
<1>5. CASE size # None /\ at > size
  <2>1. next > size
    BY <1>1, <1>3, <1>5
  <2> QED
    BY <1>1, <1>4, <1>5, <2>1 DEF Sound, f
<1>6. CASE Meets(path, at)
  <2>1. CASE r.end # None
    BY <1>1, <1>2, <1>4, <1>6, <2>1, MeetsLonger DEF Sound, f
  <2>2. CASE r.end = None
    <3>1. size # None /\ (at < size => size \in cuts)
      BY <1>2, <2>2 DEF CutsSound
    <3>2. next >= size
      BY <1>1, <1>3, <3>1 DEF Furthest
    <3>3. CASE next = size
      BY <1>1, <1>2, <1>4, <1>6, <2>2, <3>3, MeetsLonger DEF Sound, f
    <3>4. CASE next # size
      <4>1. next > size
        BY <1>1, <3>1, <3>2, <3>4
      <4> QED
        BY <1>1, <1>4, <3>1, <4>1 DEF Sound, f
    <3> QED
      BY <3>3, <3>4
  <2> QED
    BY <2>1, <2>2
<1> QED
  BY <1>3, <1>5, <1>6 DEF Sound

LEMMA CutTried ==
    ASSUME SearchInvariant, TryCut
    PROVE  SearchInvariant'
<1>1. /\ SearchTypeOK /\ QueueSound /\ CutsSound /\ VisitedSound
      /\ outcome = "searching" /\ chunks' = chunks /\ size' = size /\ at' = at
  BY DEF SearchInvariant, TryCut
<1>2. PICK next \in cuts, r \in chunks :
        LET longer == Append(path, [range |-> r, limit |-> ReadLimit(r, next)]) IN
        /\ Furthest(next) /\ BestAt(r, at)
        /\ visited' = visited \union {next}
        /\ cuts' = cuts \ {next}
        /\ IF next = size
           THEN path' = longer /\ outcome' = "path" /\ UNCHANGED queue
           ELSE /\ queue' = Append(queue, [at |-> next, path |-> longer])
                /\ UNCHANGED <<path, outcome>>
  BY DEF TryCut
<1> DEFINE longer == Append(path, [range |-> r, limit |-> ReadLimit(r, next)])
<1>3. longer \in Seq(Fragment) /\ Sound(longer, next)
  BY <1>1, <1>2, CutIsSound
<1>4. /\ visited' = visited \union {next} /\ cuts' = cuts \ {next} /\ next \in Nat
      /\ next = size => path' = longer /\ outcome' = "path" /\ queue' = queue
      /\ next # size => /\ queue' = Append(queue, [at |-> next, path |-> longer])
                        /\ path' = path /\ outcome' = outcome
  BY <1>1, <1>2 DEF SearchTypeOK
<1> HIDE DEF longer
<1>5. CASE next = size
  <2>1. Meets(longer, size)
    BY <1>1, <1>3, <1>5 DEF Sound, SearchTypeOK
  <2>2. SearchTypeOK'
    BY <1>1, <1>3, <1>4, <1>5 DEF SearchTypeOK
  <2>3. Meets(path, size)'
    BY <1>1, <1>4, <1>5, <2>1 DEF Meets, Stop
  <2>4. outcome' = "path" /\ ChunksWithin'
    BY <1>1, <1>4, <1>5 DEF SearchInvariant, ChunksWithin
  <2> QED
    BY <2>2, <2>3, <2>4 DEF SearchInvariant
<1>6. CASE next # size
  <2> DEFINE last == [at |-> next, path |-> longer]
  <2>1. last \in Waiting /\ last.at = next /\ last.path = longer
    BY <1>3, <1>4 DEF Waiting
  <2> HIDE DEF last
  <2>2. queue' = Append(queue, last) /\ queue \in Seq(Waiting)
    BY <1>1, <1>4, <1>6 DEF SearchTypeOK, last
  <2>3. /\ queue' \in Seq(Waiting) /\ Len(queue) \in Nat /\ Len(queue') = Len(queue) + 1
        /\ \A i \in 1..Len(queue) : queue'[i] = queue[i]
        /\ queue'[Len(queue) + 1] = last /\ queue' # <<>>
    BY <2>1, <2>2
  <2>4. SearchTypeOK'
    BY <1>1, <1>4, <1>6, <2>3 DEF SearchTypeOK
  <2>5. QueueSound'
    <3> SUFFICES ASSUME NEW i \in 1..Len(queue')
                 PROVE  Sound(queue[i].path, queue[i].at)'
      BY DEF QueueSound
    <3>1. Sound(queue'[i].path, queue'[i].at)
      <4>1. CASE i = Len(queue) + 1
        BY <1>3, <2>1, <2>3, <4>1
      <4>2. CASE i # Len(queue) + 1
        <5>1. i \in 1..Len(queue)
          BY <2>3, <4>2
        <5> QED
          BY <1>1, <2>3, <5>1 DEF QueueSound
      <4> QED
        BY <4>1, <4>2
    <3> QED
      BY <1>1, <3>1 DEF Sound, Meets, Stop
  <2>6. CutsSound'
    <3>1. Sound(path, at)'
      <4>1. Sound(path, at)
        BY <1>1 DEF CutsSound
      <4> QED
        BY <1>1, <1>4, <1>6, <4>1 DEF Sound, Meets, Stop
    <3>2. \A q \in cuts : at < q /\ \A t \in chunks : BestAt(t, at) => Reaches(t, q)
      BY <1>1 DEF CutsSound
    <3>3. \A t \in chunks : t.start = at /\ t.end = None =>
             size # None /\ (at < size => size \in cuts')
      BY <1>1, <1>4, <1>6 DEF CutsSound
    <3>4. \A q \in cuts' : at < q /\ \A t \in chunks : BestAt(t, at) => Reaches(t, q)
      BY <1>4, <3>2
    <3> QED
      BY <1>1, <3>1, <3>3, <3>4 DEF CutsSound, BestAt, Farther, Reaches
  <2>7. VisitedSound'
    <3>1. 0 \in visited' /\ (size' # 0 => size' \notin visited')
      BY <1>1, <1>4, <1>6 DEF VisitedSound
    <3>2. size' # 0
      BY <1>1 DEF VisitedSound
    <3>3. ASSUME NEW v \in visited'
          PROVE  Followed(v)' \/ Waits(v)'
      <4>1. CASE v = next
        BY <2>1, <2>3, <4>1 DEF Waits
      <4>2. CASE v # next /\ Followed(v)
        <5>1. visited' \union cuts' = visited \union cuts
          BY <1>4
        <5> QED
          BY <1>1, <4>2, <5>1 DEF Followed, CutPoints, Reaches
      <4>3. CASE v # next /\ Waits(v)
        BY <2>3, <4>3 DEF Waits
      <4> QED
        BY <1>1, <1>4, <4>1, <4>2, <4>3 DEF VisitedSound
    <3> QED
      BY <3>1, <3>2, <3>3 DEF VisitedSound
  <2>8. outcome' = "searching" /\ ChunksWithin'
    BY <1>1, <1>4, <1>6 DEF SearchInvariant, ChunksWithin
  <2> QED
    BY <2>4, <2>5, <2>6, <2>7, <2>8 DEF SearchInvariant
<1> QED
  BY <1>5, <1>6

LEMMA GivenUp ==
    ASSUME SearchInvariant, GiveUp
    PROVE  SearchInvariant'
<1>1. VisitedSound /\ SearchTypeOK /\ ChunksWithin /\ queue = <<>> /\ cuts = {}
  BY DEF SearchInvariant, GiveUp
<1>2. \A v : ~Waits(v)
  BY <1>1 DEF Waits
<1>3. NothingLeft
  BY <1>1, <1>2 DEF NothingLeft, VisitedSound
<1>4. NothingLeft'
  BY <1>3 DEF GiveUp, NothingLeft, Followed, CutPoints, Reaches
<1> QED
  BY <1>1, <1>4 DEF SearchInvariant, GiveUp, SearchTypeOK, ChunksWithin

LEMMA SearchSteps ==
    ASSUME SearchInvariant, SearchStep
    PROVE  SearchInvariant'
BY GoalTaken, OpenEndTaken, PositionTaken, CutTried, GivenUp DEF SearchStep

-----------------------------------------------------------------------------
(* What the invariant says of the answers.                                 *)

LEMMA PathMeets == SearchInvariant => FragmentsMeet
BY DEF SearchInvariant, FragmentsMeet

\* As far as the chunks hold every byte, those that start at visited positions do.
LEMMA VisitedHold ==
    ASSUME SearchTypeOK, NothingLeft, NEW n \in Nat,
           \A b \in 0..n - 1 : \E r \in chunks : InRange(b, r)
    PROVE  \A b \in 0..n - 1 : \E r \in chunks : r.start \in visited /\ InRange(b, r)
<1> DEFINE Lost == {b \in 0..n - 1 : \A r \in chunks : r.start \in visited => ~InRange(b, r)}
<1>1. SUFFICES ASSUME Lost # {}
               PROVE  FALSE
  OBVIOUS
<1>2. PICK b \in Lost : \A c \in Lost : b <= c
  <2>1. Lost \subseteq Nat
    OBVIOUS
  <2> HIDE DEF Lost
  <2> QED
    BY <1>1, <2>1, LeastElement
<1>3. PICK r \in chunks : InRange(b, r)
  OBVIOUS
<1>4. r.start \in Nat /\ r.start <= b /\ r.start \notin visited /\ r.start # 0
  BY <1>3, RangeFields DEF SearchTypeOK, InRange, NothingLeft
<1>5. PICK s \in chunks : s.start \in visited /\ InRange(r.start - 1, s)
  <2>1. r.start - 1 \in 0..n - 1 /\ r.start - 1 < b
    BY <1>4
  <2>2. r.start - 1 \notin Lost
    <3>1. b \in Nat
      OBVIOUS
    <3> HIDE DEF Lost
    <3> QED
      BY <1>2, <1>4, <2>1, <3>1
  <2> QED
    BY <2>1, <2>2
<1>6. s.start < r.start /\ Reaches(s, r.start) /\ r.start \in CutPoints
  BY <1>4, <1>5, RangeFields DEF InRange, Reaches, CutPoints, SearchTypeOK
<1> QED
  BY <1>4, <1>5, <1>6 DEF NothingLeft, Followed

LEMMA NothingLeftIsGap ==
    ASSUME SearchTypeOK, NothingLeft
    PROVE  ~HoldFile(chunks)
<1>1. SUFFICES ASSUME HoldFile(chunks)
               PROVE  FALSE
  OBVIOUS
<1>2. CASE size # None
  <2>1. size \in Nat /\ size # 0 /\ \A b \in 0..size - 1 : \E r \in chunks : InRange(b, r)
    BY <1>1, <1>2 DEF HoldFile, SearchTypeOK, NothingLeft
  <2>2. PICK r \in chunks : r.start \in visited /\ InRange(size - 1, r)
    BY <2>1, VisitedHold
  <2>3. r.start < size /\ Reaches(r, size) /\ size \in CutPoints
    BY <1>2, <2>1, <2>2, RangeFields DEF InRange, Reaches, CutPoints, SearchTypeOK
  <2> QED
    BY <2>2, <2>3 DEF NothingLeft, Followed
<1>3. CASE size = None
  <2>1. PICK last \in chunks :
           last.end = None /\ \A b \in 0..last.start - 1 : \E r \in chunks : InRange(b, r)
    BY <1>1, <1>3 DEF HoldFile
  <2>2. last.start \in Nat
    BY RangeFields DEF SearchTypeOK
  <2>3. last.start \notin visited
    BY <1>3, <2>1 DEF NothingLeft, Followed
  <2>4. last.start # 0
    BY <2>3 DEF NothingLeft
  <2>5. PICK r \in chunks : r.start \in visited /\ InRange(last.start - 1, r)
    <3> DEFINE n == last.start
    <3>1. n \in Nat /\ \A b \in 0..n - 1 : \E r \in chunks : InRange(b, r)
      BY <2>1, <2>2
    <3>2. n - 1 \in 0..n - 1
      BY <2>2, <2>4
    <3> HIDE DEF n
    <3>3. \A b \in 0..n - 1 : \E r \in chunks : r.start \in visited /\ InRange(b, r)
      BY <3>1, VisitedHold
    <3>4. \E r \in chunks : r.start \in visited /\ InRange(n - 1, r)
      BY <3>2, <3>3
    <3> QED
      BY <3>4 DEF n
  <2>6. r.start < last.start /\ Reaches(r, last.start) /\ last.start \in CutPoints
    BY <2>2, <2>4, <2>5, RangeFields DEF InRange, Reaches, CutPoints, SearchTypeOK
  <2> QED
    BY <2>3, <2>5, <2>6 DEF NothingLeft, Followed
<1> QED
  BY <1>2, <1>3

LEMMA NoneAtStartIsGap ==
    ASSUME SearchTypeOK, ChunksWithin, NoneAtStart
    PROVE  ~HoldFile(chunks)
<1>1. SUFFICES ASSUME HoldFile(chunks)
               PROVE  FALSE
  OBVIOUS
<1>2. \A r \in chunks : r.start \in Nat /\ r.start # 0 /\ ~InRange(0, r)
  BY RangeFields DEF SearchTypeOK, NoneAtStart, InRange
<1>3. CASE size # None
  <2>1. size \in Nat /\ size # 0
    BY <1>3 DEF SearchTypeOK, ChunksWithin, NoneAtStart
  <2> QED
    BY <1>1, <1>2, <1>3, <2>1 DEF HoldFile
<1>4. CASE size = None
  BY <1>1, <1>2, <1>4 DEF HoldFile
<1> QED
  BY <1>3, <1>4

LEMMA GapsReal == SearchInvariant => GapIsReal
BY NothingLeftIsGap, NoneAtStartIsGap DEF SearchInvariant, GapIsReal

-----------------------------------------------------------------------------
(* Every fragment is of one of the chunks and stays within it.             *)

Fits(f) ==
    /\ f.range \in chunks
    /\ f.limit # None => f.range.end # None /\ f.range.start + f.limit <= f.range.end + 1
AllFit(p) == \A i \in 1..Len(p) : Fits(p[i])
FragmentsFit == AllFit(path) /\ \A k \in 1..Len(queue) : AllFit(queue[k].path)

LEMMA OneMoreFits ==
    ASSUME NEW p \in Seq(Fragment), AllFit(p), NEW f \in Fragment, Fits(f)
    PROVE  AllFit(Append(p, f))
<1> SUFFICES ASSUME NEW i \in 1..Len(p) + 1
             PROVE  Fits(Append(p, f)[i])
  BY DEF AllFit
<1>1. CASE i = Len(p) + 1
  BY <1>1
<1>2. CASE i # Len(p) + 1
  <2>1. i \in 1..Len(p) /\ Append(p, f)[i] = p[i]
    BY <1>2
  <2> QED
    BY <2>1 DEF AllFit
<1> QED
  BY <1>1, <1>2

LEMMA NothingFits ==
    /\ SearchInit => FragmentsFit
    /\ ForgetSearch => FragmentsFit'
BY DEF SearchInit, ForgetSearch, FragmentsFit, AllFit

LEMMA UnchangedFits ==
    ASSUME FragmentsFit, UNCHANGED searchVars
    PROVE  FragmentsFit'
BY DEF FragmentsFit, AllFit, Fits, searchVars

LEMMA BeginFits ==
    ASSUME NEW given, NEW n, BeginSearch(given, n)
    PROVE  FragmentsFit'
<1>1. path' = <<>> /\ queue' = <<[at |-> 0, path |-> <<>>]>>
  BY DEF BeginSearch
<1>2. Len(queue') = 1 /\ queue'[1].path = <<>>
  BY <1>1
<1> QED
  BY <1>1, <1>2 DEF FragmentsFit, AllFit

LEMMA StepFits ==
    ASSUME SearchInvariant, FragmentsFit, SearchStep
    PROVE  FragmentsFit'
<1>1. SearchTypeOK /\ chunks' = chunks /\ \A f : Fits(f)' <=> Fits(f)
  BY DEF SearchInvariant, SearchStep, TakeGoal, TakeOpenEnd, TakePosition, TryCut, GiveUp, Fits
<1>2. CASE TakeGoal
  BY <1>1, <1>2, HeadOfQueue DEF TakeGoal, FragmentsFit, AllFit, Fits
<1>3. CASE TakeOpenEnd
  <2>1. queue # <<>> /\ queue' = queue
    BY <1>3 DEF TakeOpenEnd
  <2>2. PICK r \in chunks :
           /\ r.end = None
           /\ path' = Append(queue[1].path, [range |-> r, limit |-> None])
    BY <1>1, <1>3, HeadOfQueue DEF TakeOpenEnd
  <2>3. queue[1].path \in Seq(Fragment) /\ AllFit(queue[1].path) /\ r \in ChunkRange
    BY <1>1, <2>1, HeadOfQueue DEF FragmentsFit, SearchTypeOK
  <2> DEFINE f == [range |-> r, limit |-> None]
  <2>4. f \in Fragment /\ Fits(f)
    BY <2>2, <2>3, OpenStops DEF Fits
  <2> HIDE DEF f
  <2>5. AllFit(path')
    BY <2>2, <2>3, <2>4, OneMoreFits DEF f
  <2> QED
    BY <1>1, <2>1, <2>5 DEF FragmentsFit, AllFit, Fits
<1>4. CASE TakePosition
  <2>1. queue # <<>> /\ path' = queue[1].path /\ queue' = Tail(queue)
    BY <1>1, <1>4, HeadOfQueue DEF TakePosition
  <2>2. /\ AllFit(path')
        /\ Len(queue') = Len(queue) - 1 /\ Len(queue) \in Nat
        /\ \A k \in 1..Len(queue') : queue'[k] = queue[k + 1] /\ k + 1 \in 1..Len(queue)
    BY <1>1, <2>1, HeadOfQueue DEF FragmentsFit, SearchTypeOK
  <2>3. \A k \in 1..Len(queue') : AllFit(queue'[k].path)
    BY <2>2 DEF FragmentsFit
  <2> QED
    BY <1>1, <2>2, <2>3 DEF FragmentsFit, AllFit, Fits
<1>5. CASE TryCut
  <2>1. PICK next \in cuts, r \in chunks :
          LET longer == Append(path, [range |-> r, limit |-> ReadLimit(r, next)]) IN
          /\ Furthest(next) /\ BestAt(r, at)
          /\ IF next = size
             THEN path' = longer /\ UNCHANGED queue
             ELSE queue' = Append(queue, [at |-> next, path |-> longer]) /\ UNCHANGED path
    BY <1>5 DEF TryCut
  <2> DEFINE f == [range |-> r, limit |-> ReadLimit(r, next)]
  <2>2. /\ next \in Nat /\ at \in Nat /\ r \in ChunkRange /\ r.start = at /\ r.start \in Nat
        /\ r.end \in Nat \union {None} /\ path \in Seq(Fragment) /\ queue \in Seq(Waiting)
    <3> HIDE DEF f
    <3>1. next \in cuts /\ r \in chunks /\ BestAt(r, at)
      BY <2>1
    <3>2. next \in Nat /\ at \in Nat /\ r \in ChunkRange /\ path \in Seq(Fragment) /\ queue \in Seq(Waiting)
      BY <1>1, <3>1 DEF SearchTypeOK
    <3> QED
      BY <3>1, <3>2, RangeFields DEF BestAt
  <2>3. at < next /\ Reaches(r, next)
    BY <1>5, <2>1 DEF SearchInvariant, TryCut, CutsSound
  <2>4. f \in Fragment
    BY <2>2, <2>3, ClosedStops, OpenStops
  <2>5. Fits(f)
    <3>1. CASE r.end = None
      BY <2>2, <3>1, OpenStops DEF Fits
    <3>2. CASE r.end # None
      BY <2>2, <2>3, <3>2 DEF Fits, ReadLimit, Reaches
    <3> QED
      BY <3>1, <3>2
  <2> DEFINE longer == Append(path, f)
  <2>6. AllFit(longer)
    <3> HIDE DEF f
    <3> QED
      BY <2>2, <2>4, <2>5, OneMoreFits DEF FragmentsFit
  <2> DEFINE last == [at |-> next, path |-> longer]
  <2>7. \/ path' = longer /\ queue' = queue
        \/ path' = path /\ queue' = Append(queue, last)
    BY <2>1
  <2>8. last.path = longer
    OBVIOUS
  <2> HIDE DEF last, longer, f
  <2>9. AllFit(path') /\ \A k \in 1..Len(queue') : AllFit(queue'[k].path)
    <3>1. CASE path' = longer /\ queue' = queue
      BY <2>6, <3>1 DEF FragmentsFit
    <3>2. CASE path' = path /\ queue' = Append(queue, last)
      <4> SUFFICES ASSUME NEW k \in 1..Len(queue')
                   PROVE  AllFit(queue'[k].path)
        BY <3>2 DEF FragmentsFit
      <4>1. CASE k = Len(queue) + 1
        BY <2>2, <2>6, <2>8, <3>2, <4>1
      <4>2. CASE k # Len(queue) + 1
        <5>1. k \in 1..Len(queue) /\ queue'[k] = queue[k]
          BY <2>2, <3>2, <4>2
        <5> QED
          BY <5>1 DEF FragmentsFit
      <4> QED
        BY <4>1, <4>2
    <3> QED
      BY <2>7, <3>1, <3>2
  <2> QED
    BY <1>1, <2>9 DEF FragmentsFit, AllFit, Fits
<1>6. CASE GiveUp
  BY <1>6, UnchangedFits DEF GiveUp, FragmentsFit, AllFit, Fits
<1> QED
  BY <1>2, <1>3, <1>4, <1>5, <1>6 DEF SearchStep

-----------------------------------------------------------------------------
(* No smaller set of chunks holds the file: the search takes the positions *)
(* level by level, and a position of level n needs n chunks before it.     *)

\* The chunks of S hold everything before position p.
Covers(S, p) == \A b \in 0..p - 1 : \E r \in S : InRange(b, r)
Needs(p, n) == \A S \in SUBSET chunks : Covers(S, p) => n <= Cardinality(S)

\* Every cut the chunks at v reach was visited, and none of them ends the search.
Done(v) ==
    \A s \in chunks : s.start = v =>
        /\ ~(size = None /\ s.end = None)
        /\ \A q \in CutPoints : v < q /\ Reaches(s, q) => q \in visited

\* The search is done with all positions that fewer than n chunks reach.
Behind(n) ==
    \A r \in chunks, S \in SUBSET chunks :
        Covers(S, r.start) /\ Cardinality(S) < n => Done(r.start)

\* The queue holds what is left of this level and then the next one.
QueueInOrder ==
    /\ \A i \in 1..Len(queue) : Len(queue[i].path) \in {Len(path), Len(path) + 1}
    /\ \A i, k \in 1..Len(queue) : i < k => Len(queue[i].path) <= Len(queue[k].path)

QueueNeeded ==
    /\ Needs(at, Len(path))
    /\ \A i \in 1..Len(queue) : Needs(queue[i].at, Len(queue[i].path))

CutsNew == cuts \intersect visited = {} /\ cuts \subseteq CutPoints
DoneOrWaits == \A v \in visited : Done(v) \/ Waits(v) \/ (v = at /\ cuts # {})

LevelInvariant ==
    /\ IsFiniteSet(chunks)
    /\ outcome = "searching" =>
          QueueInOrder /\ QueueNeeded /\ Behind(Len(path)) /\ CutsNew /\ DoneOrWaits
    /\ FewestFiles

LEMMA NoSearchNoLevels ==
    /\ SearchInit => LevelInvariant
    /\ ForgetSearch => LevelInvariant'
BY FS_EmptySet DEF SearchInit, ForgetSearch, LevelInvariant, FewestFiles

LEMMA UnchangedLevels ==
    ASSUME LevelInvariant, UNCHANGED searchVars
    PROVE  LevelInvariant'
BY DEF LevelInvariant, searchVars, QueueInOrder, QueueNeeded, Behind, CutsNew, DoneOrWaits,
       Covers, Needs, Done, Waits, FewestFiles, HoldFile, CutPoints, Reaches

LEMMA CountOfSubset ==
    ASSUME IsFiniteSet(chunks), NEW S \in SUBSET chunks
    PROVE  IsFiniteSet(S) /\ Cardinality(S) \in Nat
BY FS_Subset, FS_CardinalityType

LEMMA BeginLevels ==
    ASSUME NEW given, IsFiniteSet(given), NEW n, BeginSearch(given, n)
    PROVE  LevelInvariant'
<1>1. /\ chunks' = given /\ visited' = {0} /\ at' = 0 /\ path' = <<>> /\ cuts' = {}
      /\ queue' = <<[at |-> 0, path |-> <<>>]>> /\ outcome' \in {"searching", "gap"}
  BY DEF BeginSearch
<1>2. Len(queue') = 1 /\ queue'[1].at = 0 /\ queue'[1].path = <<>> /\ Len(path') = 0
  BY <1>1
<1>3. \A S \in SUBSET given : Cardinality(S) \in Nat
  BY FS_Subset, FS_CardinalityType
<1>4. QueueInOrder'
  BY <1>2 DEF QueueInOrder
<1>5. QueueNeeded' /\ Behind(Len(path))'
  BY <1>1, <1>2, <1>3 DEF QueueNeeded, Needs, Behind
<1>6. CutsNew' /\ DoneOrWaits'
  BY <1>1, <1>2 DEF CutsNew, DoneOrWaits, Waits
<1> QED
  BY <1>1, <1>4, <1>5, <1>6 DEF LevelInvariant, FewestFiles

\* The chunk that holds the byte before p leaves the others what is before it.
LEMMA OneChunkLess ==
    ASSUME SearchTypeOK, IsFiniteSet(chunks), NEW S \in SUBSET chunks, NEW p \in Nat \ {0}, Covers(S, p)
    PROVE  \E r \in S : /\ r.start < p /\ Reaches(r, p) /\ r.start \in Nat
                        /\ S \ {r} \in SUBSET chunks /\ Covers(S \ {r}, r.start)
                        /\ Cardinality(S \ {r}) = Cardinality(S) - 1
<1>1. PICK r \in S : InRange(p - 1, r)
  BY DEF Covers
<1>2. r.start \in Nat /\ r.end \in Nat \union {None} /\ r.start < p /\ Reaches(r, p)
  BY <1>1, RangeFields DEF SearchTypeOK, InRange, Reaches
<1>3. ASSUME NEW b \in 0..r.start - 1
      PROVE  \E s \in S \ {r} : InRange(b, s)
  <2>1. PICK s \in S : InRange(b, s)
    BY <1>2 DEF Covers
  <2>2. ~InRange(b, r)
    BY <1>2 DEF InRange
  <2> QED
    BY <2>1, <2>2
<1>4. Cardinality(S \ {r}) = Cardinality(S) - 1
  BY CountOfSubset, FS_RemoveElement
<1> QED
  BY <1>2, <1>3, <1>4 DEF Covers

\* What n + 1 chunks reach was visited when the search is done with what n reach.
LEMMA NextLevelVisited ==
    ASSUME SearchTypeOK, IsFiniteSet(chunks), NEW n \in Nat, Behind(n),
           NEW S \in SUBSET chunks, NEW p \in CutPoints \ {0}, Covers(S, p), Cardinality(S) <= n
    PROVE  p \in visited
<1>1. p \in Nat \ {0}
  BY RangeFields DEF CutPoints, SearchTypeOK
<1>2. PICK r \in S : /\ r.start < p /\ Reaches(r, p) /\ r.start \in Nat
                     /\ S \ {r} \in SUBSET chunks /\ Covers(S \ {r}, r.start)
                     /\ Cardinality(S \ {r}) = Cardinality(S) - 1
  BY <1>1, OneChunkLess
<1>3. Cardinality(S) \in Nat
  BY CountOfSubset
<1>4. Done(r.start)
  BY <1>2, <1>3 DEF Behind
<1> QED
  BY <1>2, <1>4 DEF Done

\* Before a position that needs n chunks the search is done with all that need less.
LEMMA LevelDone ==
    ASSUME SearchTypeOK, IsFiniteSet(chunks), VisitedSound, QueueNeeded, DoneOrWaits, cuts = {},
           Behind(Len(path)), NEW n \in {Len(path), Len(path) + 1},
           \A i \in 1..Len(queue) : n <= Len(queue[i].path)
    PROVE  Behind(n)
<1> SUFFICES ASSUME NEW r \in chunks, NEW S \in SUBSET chunks,
                    Covers(S, r.start), Cardinality(S) < n, n = Len(path) + 1
             PROVE  Done(r.start)
  BY DEF Behind
<1>1. Len(path) \in Nat /\ Cardinality(S) \in Nat /\ Cardinality(S) <= Len(path)
  BY CountOfSubset DEF SearchTypeOK
<1>2. r.start \in visited
  <2>1. r.start \in CutPoints
    BY DEF CutPoints
  <2>2. 0 \in visited
    BY DEF VisitedSound
  <2> QED
    BY <1>1, <2>1, <2>2, NextLevelVisited
<1>3. ~Waits(r.start)
  <2> SUFFICES ASSUME NEW i \in 1..Len(queue), queue[i].at = r.start
               PROVE  FALSE
    BY DEF Waits
  <2>1. Len(queue[i].path) <= Cardinality(S)
    BY DEF QueueNeeded, Needs
  <2>2. queue[i].path \in Seq(Fragment)
    <3>1. queue[i] \in Waiting
      BY DEF SearchTypeOK
    <3> QED
      BY <3>1 DEF Waiting
  <2> QED
    BY <1>1, <2>1, <2>2
<1> QED
  BY <1>2, <1>3 DEF DoneOrWaits

\* The head of the queue is of the lowest level in it.
LEMMA HeadIsLowest ==
    ASSUME SearchTypeOK, queue # <<>>, QueueInOrder
    PROVE  /\ Len(queue[1].path) \in {Len(path), Len(path) + 1}
           /\ Len(path) \in Nat /\ Len(queue[1].path) \in Nat
           /\ \A i \in 1..Len(queue) : Len(queue[1].path) <= Len(queue[i].path)
<1>1. 1 \in 1..Len(queue) /\ queue[1].path \in Seq(Fragment)
  BY HeadOfQueue
<1>2. Len(queue[1].path) \in Nat
  BY <1>1
<1>3. ASSUME NEW i \in 1..Len(queue)
      PROVE  Len(queue[1].path) <= Len(queue[i].path)
  <2>1. CASE i = 1
    BY <1>2, <2>1
  <2>2. CASE i # 1
    BY <1>1, <2>2 DEF QueueInOrder
  <2> QED
    BY <2>1, <2>2
<1> QED
  BY <1>1, <1>2, <1>3 DEF QueueInOrder, SearchTypeOK

LEMMA GoalLevels ==
    ASSUME SearchInvariant, LevelInvariant, TakeGoal
    PROVE  LevelInvariant'
<1>1. SearchTypeOK /\ QueueNeeded /\ queue # <<>> /\ chunks' = chunks /\ size' = size /\ outcome' = "path"
  BY DEF SearchInvariant, LevelInvariant, TakeGoal
<1>2. queue[1].at = size /\ path' = queue[1].path /\ size \in Nat
  BY <1>1, HeadOfQueue DEF TakeGoal
<1>3. Needs(size, Len(path'))
  BY <1>1, <1>2, HeadOfQueue DEF QueueNeeded
<1>4. FewestFiles'
  BY <1>1, <1>2, <1>3 DEF FewestFiles, Needs, Covers, HoldFile, None
<1> QED
  BY <1>1, <1>4 DEF LevelInvariant

\* What lies before the chunk that was read to EOF needs one chunk less.
LEMMA OpenEndLevels ==
    ASSUME SearchInvariant, LevelInvariant, TakeOpenEnd
    PROVE  LevelInvariant'
<1>1. /\ SearchTypeOK /\ VisitedSound /\ IsFiniteSet(chunks) /\ queue # <<>> /\ size = None /\ cuts = {}
      /\ QueueInOrder /\ QueueNeeded /\ Behind(Len(path)) /\ DoneOrWaits
      /\ chunks' = chunks /\ size' = size /\ outcome' = "path"
  BY DEF SearchInvariant, LevelInvariant, TakeOpenEnd
<1>2. PICK f : path' = Append(queue[1].path, f)
  BY <1>1, HeadOfQueue DEF TakeOpenEnd
<1>3. Len(path') = Len(queue[1].path) + 1 /\ Len(queue[1].path) \in Nat
  BY <1>1, <1>2, HeadOfQueue
<1>4. Behind(Len(queue[1].path))
  BY <1>1, HeadIsLowest, LevelDone
<1>5. ASSUME NEW S \in SUBSET chunks, HoldFile(S)
      PROVE  Len(path') <= Cardinality(S)
  <2>1. PICK last \in S : last.end = None /\ Covers(S, last.start)
    BY <1>1, <1>5 DEF HoldFile, Covers
  <2>2. last.start \in Nat
    BY <1>1, RangeFields DEF SearchTypeOK
  <2>3. ASSUME NEW b \in 0..last.start - 1
        PROVE  \E s \in S \ {last} : InRange(b, s)
    <3>1. PICK s \in S : InRange(b, s)
      BY <2>1 DEF Covers
    <3>2. ~InRange(b, last)
      BY <2>2 DEF InRange
    <3> QED
      BY <3>1, <3>2
  <2>4. Cardinality(S) \in Nat /\ Cardinality(S \ {last}) = Cardinality(S) - 1
    BY <1>1, CountOfSubset, FS_RemoveElement
  <2>5. ~Done(last.start)
    BY <1>1, <2>1 DEF Done
  <2>6. ~(Cardinality(S \ {last}) < Len(queue[1].path))
    BY <1>4, <2>3, <2>5 DEF Behind, Covers
  <2> QED
    BY <1>3, <2>4, <2>6
<1>6. FewestFiles'
  BY <1>1, <1>5 DEF FewestFiles, HoldFile
<1> QED
  BY <1>1, <1>6 DEF LevelInvariant

LEMMA PositionLevels ==
    ASSUME SearchInvariant, LevelInvariant, TakePosition
    PROVE  LevelInvariant'
<1>1. /\ SearchTypeOK /\ VisitedSound /\ IsFiniteSet(chunks) /\ queue # <<>> /\ cuts = {}
      /\ QueueInOrder /\ QueueNeeded /\ Behind(Len(path)) /\ DoneOrWaits
      /\ outcome = "searching"
      /\ chunks' = chunks /\ size' = size /\ outcome' = outcome /\ visited' = visited
  BY DEF SearchInvariant, LevelInvariant, TakePosition
<1>2. /\ at' = queue[1].at /\ path' = queue[1].path /\ queue' = Tail(queue)
      /\ Len(queue') = Len(queue) - 1 /\ Len(queue) \in Nat
      /\ \A i \in 1..Len(queue') : queue'[i] = queue[i + 1] /\ i + 1 \in 1..Len(queue)
  BY <1>1, HeadOfQueue DEF TakePosition, SearchTypeOK
<1>3. /\ Len(queue[1].path) \in {Len(path), Len(path) + 1}
      /\ Len(path) \in Nat /\ Len(queue[1].path) \in Nat
      /\ \A i \in 1..Len(queue) : Len(queue[1].path) <= Len(queue[i].path)
  BY <1>1, HeadIsLowest
<1>4. Behind(Len(path'))
  BY <1>1, <1>2, <1>3, LevelDone
<1>5. Behind(Len(path))'
  BY <1>1, <1>4 DEF Behind, Covers, Done, CutPoints, Reaches
<1>6. QueueInOrder'
  <2>1. ASSUME NEW i \in 1..Len(queue')
        PROVE  Len(queue'[i].path) \in {Len(path'), Len(path') + 1}
    <3>1. queue[i + 1].path \in Seq(Fragment)
      <4>1. queue[i + 1] \in Waiting
        BY <1>1, <1>2 DEF SearchTypeOK
      <4> QED
        BY <4>1 DEF Waiting
    <3>2. Len(queue[i + 1].path) \in {Len(path), Len(path) + 1}
      BY <1>1, <1>2 DEF QueueInOrder
    <3>3. Len(queue[1].path) <= Len(queue[i + 1].path)
      BY <1>2, <1>3
    <3> QED
      BY <1>2, <1>3, <3>1, <3>2, <3>3
  <2>2. ASSUME NEW i \in 1..Len(queue'), NEW k \in 1..Len(queue'), i < k
        PROVE  Len(queue'[i].path) <= Len(queue'[k].path)
    BY <1>1, <1>2, <2>2 DEF QueueInOrder
  <2> QED
    BY <2>1, <2>2 DEF QueueInOrder
<1>7. QueueNeeded'
  <2>1. Needs(at', Len(path'))
    BY <1>1, <1>2, HeadOfQueue DEF QueueNeeded
  <2>2. \A i \in 1..Len(queue') : Needs(queue'[i].at, Len(queue'[i].path))
    BY <1>1, <1>2 DEF QueueNeeded
  <2> QED
    BY <1>1, <2>1, <2>2 DEF QueueNeeded, Needs, Covers
<1>8. CutsNew'
  BY <1>1 DEF TakePosition, CutsNew, CutPoints
<1>9. DoneOrWaits'
  <2> SUFFICES ASSUME NEW v \in visited, ~(v = at' /\ cuts' # {})
               PROVE  Done(v)' \/ Waits(v)'
    BY <1>1 DEF DoneOrWaits
  <2>1. CASE Done(v)
    BY <1>1, <2>1 DEF Done, CutPoints, Reaches
  <2>2. CASE v # at' /\ Waits(v)
    <3>1. PICK i \in 1..Len(queue) : queue[i].at = v
      BY <2>2 DEF Waits
    <3>2. i # 1 /\ i - 1 \in 1..Len(queue')
      BY <1>2, <2>2, <3>1
    <3>3. queue'[i - 1].at = v
      BY <1>2, <3>1, <3>2
    <3> QED
      BY <3>2, <3>3 DEF Waits
  <2>3. CASE v = at'
    <3>1. cuts' = {}
      BY <2>3
    <3>2. Followed(v)' \/ Waits(v)'
      BY <1>1, PositionTaken DEF SearchInvariant, VisitedSound
    <3> QED
      BY <3>1, <3>2 DEF Followed, Done
  <2> QED
    BY <1>1, <2>1, <2>2, <2>3 DEF DoneOrWaits
<1> QED
  BY <1>1, <1>5, <1>6, <1>7, <1>8, <1>9 DEF LevelInvariant, FewestFiles

LEMMA CutLevels ==
    ASSUME SearchInvariant, LevelInvariant, TryCut
    PROVE  LevelInvariant'
<1>1. /\ SearchTypeOK /\ CutsSound /\ IsFiniteSet(chunks) /\ outcome = "searching"
      /\ QueueInOrder /\ QueueNeeded /\ Behind(Len(path)) /\ CutsNew /\ DoneOrWaits
      /\ chunks' = chunks /\ size' = size /\ at' = at
  BY DEF SearchInvariant, LevelInvariant, TryCut
<1>2. PICK next \in cuts, r \in chunks :
         LET longer == Append(path, [range |-> r, limit |-> ReadLimit(r, next)]) IN
         /\ visited' = visited \union {next} /\ cuts' = cuts \ {next}
         /\ IF next = size
            THEN path' = longer /\ outcome' = "path" /\ UNCHANGED queue
            ELSE queue' = Append(queue, [at |-> next, path |-> longer]) /\ UNCHANGED <<path, outcome>>
  BY DEF TryCut
<1> DEFINE longer == Append(path, [range |-> r, limit |-> ReadLimit(r, next)])
<1>3. Len(longer) = Len(path) + 1 /\ Len(path) \in Nat
  BY <1>1 DEF SearchTypeOK
<1>4. Needs(next, Len(longer))
  <2> SUFFICES ASSUME NEW S \in SUBSET chunks, Covers(S, next), ~(Len(longer) <= Cardinality(S))
               PROVE  FALSE
    BY DEF Needs
  <2>1. Cardinality(S) \in Nat /\ Cardinality(S) <= Len(path)
    BY <1>1, <1>3, CountOfSubset
  <2>2. next \in CutPoints \ {0} /\ next \notin visited
    BY <1>1 DEF CutsNew, CutsSound, SearchTypeOK
  <2> QED
    BY <1>1, <1>3, <2>1, <2>2, NextLevelVisited
<1> HIDE DEF longer
<1>5. CASE next = size
  <2>1. path' = longer /\ outcome' = "path" /\ size # None /\ Needs(size, Len(longer))
    BY <1>1, <1>2, <1>4, <1>5 DEF SearchTypeOK, None, longer
  <2>2. FewestFiles'
    BY <1>1, <2>1 DEF FewestFiles, Needs, Covers, HoldFile
  <2> QED
    BY <1>1, <2>1, <2>2 DEF LevelInvariant
<1>6. CASE next # size
  <2> DEFINE last == [at |-> next, path |-> longer]
  <2>1. last.at = next /\ last.path = longer
    OBVIOUS
  <2> HIDE DEF last
  <2>2. queue' = Append(queue, last) /\ path' = path /\ outcome' = outcome
    BY <1>2, <1>6 DEF last, longer
  <2>3. /\ Len(queue') = Len(queue) + 1 /\ Len(queue) \in Nat
        /\ \A i \in 1..Len(queue) : queue'[i] = queue[i]
        /\ queue'[Len(queue) + 1] = last
    BY <1>1, <2>2 DEF SearchTypeOK
  <2>4. QueueInOrder'
    <3>1. \A i \in 1..Len(queue) : Len(queue[i].path) \in {Len(path), Len(path) + 1}
      BY <1>1 DEF QueueInOrder
    <3>2. ASSUME NEW i \in 1..Len(queue')
          PROVE  Len(queue'[i].path) \in {Len(path), Len(path) + 1}
      <4>1. CASE i = Len(queue) + 1
        BY <1>3, <2>1, <2>3, <4>1
      <4>2. CASE i # Len(queue) + 1
        <5>1. i \in 1..Len(queue)
          BY <2>3, <4>2
        <5> QED
          BY <2>3, <3>1, <5>1
      <4> QED
        BY <4>1, <4>2
    <3>3. ASSUME NEW i \in 1..Len(queue'), NEW k \in 1..Len(queue'), i < k
          PROVE  Len(queue'[i].path) <= Len(queue'[k].path)
      <4>1. CASE k = Len(queue) + 1
        BY <1>3, <2>1, <2>3, <3>2, <4>1
      <4>2. CASE k # Len(queue) + 1
        <5>1. i \in 1..Len(queue) /\ k \in 1..Len(queue)
          BY <2>3, <3>3, <4>2
        <5>2. queue'[i] = queue[i] /\ queue'[k] = queue[k]
          BY <2>3, <5>1
        <5> QED
          BY <1>1, <3>3, <5>1, <5>2 DEF QueueInOrder
      <4> QED
        BY <4>1, <4>2
    <3> QED
      BY <2>2, <3>2, <3>3 DEF QueueInOrder
  <2>5. QueueNeeded'
    <3>1. ASSUME NEW i \in 1..Len(queue')
          PROVE  Needs(queue'[i].at, Len(queue'[i].path))
      <4>1. CASE i = Len(queue) + 1
        BY <1>4, <2>1, <2>3, <4>1
      <4>2. CASE i # Len(queue) + 1
        <5>1. i \in 1..Len(queue)
          BY <2>3, <4>2
        <5> QED
          BY <1>1, <2>3, <5>1 DEF QueueNeeded
      <4> QED
        BY <4>1, <4>2
    <3>2. Needs(at, Len(path))
      BY <1>1 DEF QueueNeeded
    <3> QED
      BY <1>1, <2>2, <3>1, <3>2 DEF QueueNeeded, Needs, Covers
  <2>6. ASSUME NEW v, Done(v)
        PROVE  Done(v)'
    BY <1>1, <1>2, <2>6 DEF Done, CutPoints, Reaches
  <2>7. Behind(Len(path))'
    BY <1>1, <2>2, <2>6 DEF Behind, Covers
  <2>8. CutsNew'
    BY <1>1, <1>2 DEF CutsNew, CutPoints
  <2>9. DoneOrWaits'
    <3> SUFFICES ASSUME NEW v \in visited', ~(v = at /\ cuts' # {}), ~Done(v)'
                 PROVE  Waits(v)'
      BY <1>1 DEF DoneOrWaits
    <3>1. CASE v = next
      BY <2>1, <2>3, <3>1 DEF Waits
    <3>2. CASE v # next /\ Waits(v)
      BY <2>3, <3>2 DEF Waits
    <3>3. CASE v = at /\ cuts' = {}
      <4>1. Followed(v)' \/ Waits(v)'
        BY <1>1, <2>2, CutTried DEF SearchInvariant, VisitedSound
      <4> QED
        BY <3>3, <4>1 DEF Followed, Done
    <3>4. v = next \/ v \in visited
      BY <1>2
    <3> QED
      BY <1>1, <2>6, <3>1, <3>2, <3>3, <3>4 DEF DoneOrWaits
  <2> QED
    BY <1>1, <2>2, <2>4, <2>5, <2>7, <2>8, <2>9 DEF LevelInvariant, FewestFiles
<1> QED
  BY <1>5, <1>6

LEMMA StepLevels ==
    ASSUME SearchInvariant, LevelInvariant, SearchStep
    PROVE  LevelInvariant'
<1>1. CASE GiveUp
  BY <1>1 DEF GiveUp, LevelInvariant, FewestFiles
<1> QED
  BY <1>1, GoalLevels, OpenEndLevels, PositionLevels, CutLevels DEF SearchStep
=============================================================================
