--------------------------- MODULE RecoveryProofs ---------------------------
(***************************************************************************)
(* What is recovered and merged is the file: for every file, every set of  *)
(* ranges, every number of crashes and every order of the steps.           *)
(***************************************************************************)
EXTENDS Recovery, RangeCoverageProofs, SequenceTheorems

-----------------------------------------------------------------------------
(* The invariant: types first, and how the ranges, the names and the bytes *)
(* of the chunks belong together.                                          *)

FilesOK ==
    /\ source \in Nat /\ fileSize \in {None, source}
    /\ disk \in [Names -> Nat \union {None}]
    /\ \A n \in Names : disk[n] # None => n.start + disk[n] <= source
    /\ \A a \in 0..source - 1 :
          /\ [start |-> a, end |-> None] \in Names
          /\ \A b \in a..source - 1 : [start |-> a, end |-> b] \in Names

StatOK(s) ==
    /\ s \in Stats
    /\ Within(s.range, source) /\ s.name.start = s.range.start
    /\ s.bytes <= TotalBytes(s.range, source)
    /\ s.status = "COMPLETED" => s.bytes = TotalBytes(s.range, source)

\* No two chunks have one range or one file.
StatsOK ==
    /\ \A s \in stats : StatOK(s)
    /\ \A s, t \in stats : s.range = t.range \/ s.name = t.name => s = t

\* A chunk yet to be started takes nobody else's file.
PlanOK ==
    /\ plan \subseteq Names
    /\ \A r \in plan : Within(r, source) /\ \A s \in stats : s.name = r => s.range = r

EntryOK(c) ==
    /\ c \in DTO /\ c.name.start = c.range.start
    /\ c.range.end = c.range.start + c.bytes - 1 /\ c.range.end < source
Entries(es) ==
    /\ \A c \in es : EntryOK(c)
    /\ \A c, d \in es : c.name = d.name => c = d

InfoOK ==
    /\ infoFile \in {"none", "torn", "whole"}
    /\ Entries(info)
    /\ ~Readable => info = {}

SaveRecord == [at     : {"no", "statting", "writing", "deleting"},
               list   : SUBSET ChunkRange,
               old    : SUBSET Stats,
               sizes  : UNION {[D -> Nat] : D \in SUBSET Names},
               dto    : SUBSET DTO,
               doomed : SUBSET Names]

\* The stats a save is going to write, with those a restart has replaced: no
\* two of them are of one file.
Listed == {s \in stats : s.range \in save.list} \union save.old
ListOK ==
    /\ \A o \in save.old : StatOK(o) /\ o.range \notin save.list
    /\ \A s, t \in Listed : s.name = t.name => s = t

SaveOK ==
    /\ save \in SaveRecord
    /\ Entries(save.dto)
    /\ save.at # "no" => sealed /\ process = "up"
    /\ save.at # "statting" => save.list = {} /\ save.old = {}
    /\ ListOK

PhaseOK ==
    /\ process \in {"up", "down", "purging", "gone"}
    /\ merging \in {"idle", "covering", "copying", "merged", "failed"}
    /\ sealed \in BOOLEAN /\ stale \in BOOLEAN
    /\ process # "up" => merging = "idle"
    /\ merging = "idle" => chunks = {} /\ size = None /\ outcome = "idle"
    /\ merging = "covering" =>
          chunks = {s.range : s \in Completed} /\ size = fileSize

ConfigRecord == [name : Names, limit : Nat \union {None}]
CopyOK ==
    /\ left \in Seq(ConfigRecord)
    /\ merged \in Seq(0..source - 1)

TypesOK ==
    FilesOK /\ StatsOK /\ PlanOK /\ InfoOK /\ SaveOK /\ PhaseOK /\ CopyOK
    /\ SearchInvariant /\ FragmentsFit

-----------------------------------------------------------------------------
(* What is true as long as no file is changed behind a recovery file.      *)

\* Until they are merged, completed chunks are all there, and until they are
\* saved the files of the others exist.
FilesTrue ==
    process = "up" /\ (merging # "merged" \/ save.at # "no") =>
        /\ \A s \in Completed : disk[s.name] = s.bytes
        /\ ~sealed => \A s \in stats : s.status = "DOWNLOADING" => disk[s.name] # None

\* The sizes a save has asked for are still right, and what it wrote or is going
\* to write is on disk and not about to be deleted.
SaveTrue ==
    /\ save.at = "statting" =>
          /\ save.old = {}
          /\ \A s \in stats : s.range \in save.list =>
                s.name \in DOMAIN save.sizes /\ save.sizes[s.name] = SizeOf(s.name)
    /\ save.at \in {"writing", "deleting"} =>
          /\ \A c \in save.dto : disk[c.name] = c.bytes /\ c.name \notin save.doomed
          /\ \A s \in Completed : s.name \notin save.doomed
    /\ save.at = "deleting" => infoFile = "whole" /\ info = save.dto

\* Where the bytes copied of a file end.
Upto(c) == c.name.start + (IF c.limit # None THEN c.limit ELSE disk[c.name])

\* What is left to copy goes on where the copy stands and ends with the file.
CopyTrue ==
    merging = "copying" =>
        /\ merged = Run(0, Len(merged))
        /\ \A i \in 1..Len(left) : \E s \in Completed :
              left[i].name = s.name /\ (left[i].limit # None => left[i].limit <= s.bytes)
        /\ left = <<>> => Len(merged) = source
        /\ left # <<>> => /\ left[1].name.start = Len(merged)
                          /\ Upto(left[Len(left)]) = source
        /\ \A i \in 1..Len(left) - 1 : Upto(left[i]) = left[i + 1].name.start

FailedTrue == merging = "failed" => outcome = "gap" \/ (chunks = {} /\ size = None)

AllTrue ==
    FilesTrue /\ SaveTrue /\ CopyTrue /\ FailedTrue /\ InfoIsTrue
    /\ MergeIsExact

RecoveryInvariant == TypesOK /\ (~stale => AllTrue)

-----------------------------------------------------------------------------
(* Chunks, their entries in the recovery file, and what is missing.        *)

LEMMA NameFields ==
    ASSUME NEW n \in Names
    PROVE  n \in ChunkRange /\ n.start \in Nat /\ n.end \in Nat \union {None}
BY RecoveryAssumption, RangeFields

LEMMA StatFields ==
    ASSUME NEW s, StatOK(s), source \in Nat
    PROVE  /\ s \in Stats /\ s.range \in ChunkRange /\ s.name \in Names /\ s.bytes \in Nat
           /\ s.range.start \in Nat /\ s.range.end \in Nat \union {None}
           /\ s.status \in {"DOWNLOADING", "COMPLETED", "CANCELLED"}
           /\ s.name.start = s.range.start
           /\ TotalBytes(s.range, source) \in Nat /\ s.bytes <= TotalBytes(s.range, source)
           /\ s.range.start + TotalBytes(s.range, source) <= source
<1>1. s \in Stats /\ Within(s.range, source) /\ s.name.start = s.range.start
      /\ s.bytes <= TotalBytes(s.range, source)
  BY DEF StatOK
<1>2. /\ s.range \in ChunkRange /\ s.name \in Names /\ s.bytes \in Nat
      /\ s.status \in {"DOWNLOADING", "COMPLETED", "CANCELLED"}
  BY <1>1 DEF Stats
<1>3. s.range.start \in Nat /\ s.range.end \in Nat \union {None}
  BY <1>2, RangeFields
<1>4. /\ TotalBytes(s.range, source) \in Nat
      /\ s.range.start + TotalBytes(s.range, source) <= source
  BY <1>1, <1>3 DEF TotalBytes, Within, None
<1> QED
  BY <1>1, <1>2, <1>3, <1>4

LEMMA EntryFields ==
    ASSUME NEW c, EntryOK(c), source \in Nat
    PROVE  /\ c.name \in Names /\ c.range \in ChunkRange /\ c.bytes \in Nat \ {0}
           /\ c.range.start \in Nat /\ c.range.end \in Nat
           /\ c.name.start = c.range.start
           /\ c.range.end = c.range.start + c.bytes - 1 /\ c.range.end < source
<1>1. c \in DTO /\ c.name.start = c.range.start
      /\ c.range.end = c.range.start + c.bytes - 1 /\ c.range.end < source
  BY DEF EntryOK
<1>2. c.name \in Names /\ c.range \in ChunkRange /\ c.bytes \in Nat \ {0}
  BY <1>1 DEF DTO
<1>3. c.range.start \in Nat
  BY <1>2, RangeFields
<1> QED
  BY <1>1, <1>2, <1>3

LEMMA EntryIsOK ==
    ASSUME NEW s, StatOK(s), source \in Nat, s.bytes > 0
    PROVE  EntryOK(Entry(s)) /\ Entry(s).name = s.name /\ Entry(s).bytes = s.bytes
<1>1. /\ s.name \in Names /\ s.bytes \in Nat \ {0} /\ s.range.start \in Nat
      /\ s.name.start = s.range.start
      /\ s.range.start + s.bytes <= source
  BY StatFields
<1>2. [start |-> s.range.start, end |-> s.range.start + s.bytes - 1] \in ChunkRange
  BY <1>1 DEF ChunkRange
<1> QED
  BY <1>1, <1>2 DEF EntryOK, Entry, DTO

LEMMA RecoveredIsOK ==
    ASSUME NEW c, EntryOK(c), source \in Nat
    PROVE  /\ StatOK(RecoveredStats(c))
           /\ RecoveredStats(c).range = c.range /\ RecoveredStats(c).name = c.name
           /\ RecoveredStats(c).bytes = c.bytes
<1>1. /\ c.name \in Names /\ c.range \in ChunkRange /\ c.bytes \in Nat \ {0}
      /\ c.range.start \in Nat /\ c.range.end \in Nat
      /\ c.name.start = c.range.start
      /\ c.range.end = c.range.start + c.bytes - 1 /\ c.range.end < source
  BY EntryFields
<1>2. RecoveredStats(c) \in Stats
  BY <1>1 DEF RecoveredStats, Stats
<1>3. TotalBytes(c.range, source) = c.bytes /\ Within(c.range, source)
  BY <1>1 DEF TotalBytes, Within, None
<1> QED
  BY <1>1, <1>2, <1>3 DEF StatOK, RecoveredStats

\* What is missing starts where nothing was recovered.
LEMMA MissingRanges ==
    ASSUME FilesOK, NEW rs, NEW r \in Missing(rs)
    PROVE  r \in Names /\ Within(r, source) /\ \A q \in rs : ~InRange(r.start, q)
<1> DEFINE free(b) == \A q \in rs : ~InRange(b, q)
           first(a) == free(a) /\ (a = 0 \/ ~free(a - 1))
<1>1. PICK w \in (0..source - 1) \X (0..source - 1) :
         /\ first(w[1]) /\ w[1] <= w[2]
         /\ r = [start |-> w[1], end |-> IF w[2] = source - 1 THEN None ELSE w[2]]
  BY DEF Missing
<1>2. w[1] \in 0..source - 1 /\ w[2] \in 0..source - 1 /\ source \in Nat
  BY <1>1 DEF FilesOK
<1>3. free(w[1])
  BY <1>1
<1> HIDE DEF free, first
<1>4. r.start = w[1] /\ r.end = IF w[2] = source - 1 THEN None ELSE w[2]
  BY <1>1
<1>5. r \in Names
  <2>1. CASE w[2] = source - 1
    BY <1>1, <1>2, <2>1 DEF FilesOK
  <2>2. CASE w[2] # source - 1
    <3>1. w[2] \in w[1]..source - 1
      BY <1>1, <1>2
    <3> QED
      BY <1>1, <1>2, <2>2, <3>1 DEF FilesOK
  <2> QED
    BY <2>1, <2>2
<1>6. Within(r, source)
  BY <1>1, <1>2, <1>4 DEF Within, None
<1> QED
  BY <1>3, <1>4, <1>5, <1>6 DEF free

-----------------------------------------------------------------------------
(* Parts of the invariant whose variables do not change.                   *)

LEMMA Frames ==
    ASSUME TypesOK, source' = source
    PROVE  /\ UNCHANGED <<fileSize, disk>> => FilesOK'
           /\ UNCHANGED stats => StatsOK'
           /\ UNCHANGED <<stats, plan>> => PlanOK'
           /\ UNCHANGED <<infoFile, info>> => InfoOK'
           /\ UNCHANGED <<stats, save, sealed, process>> => SaveOK'
           /\ UNCHANGED <<left, merged>> => CopyOK'
           /\ UNCHANGED searchVars => SearchInvariant' /\ FragmentsFit'
<1>1. FilesOK /\ StatsOK /\ PlanOK /\ InfoOK /\ SaveOK /\ CopyOK
  BY DEF TypesOK
<1>2. UNCHANGED <<fileSize, disk>> => FilesOK'
  BY <1>1 DEF FilesOK
<1>3. UNCHANGED stats => StatsOK'
  BY <1>1 DEF StatsOK, StatOK
<1>4. UNCHANGED <<stats, plan>> => PlanOK'
  BY <1>1 DEF PlanOK
<1>5. UNCHANGED <<infoFile, info>> => InfoOK'
  BY <1>1 DEF InfoOK, Entries, EntryOK, Readable
<1>6. UNCHANGED <<stats, save, sealed, process>> => SaveOK'
  BY <1>1 DEF SaveOK, SaveRecord, ListOK, Listed, StatOK, Entries, EntryOK
<1>7. UNCHANGED <<left, merged>> => CopyOK'
  BY <1>1 DEF CopyOK
<1>8. UNCHANGED searchVars => SearchInvariant' /\ FragmentsFit'
  BY UnchangedSearches, UnchangedFits DEF TypesOK
<1> QED
  BY <1>2, <1>3, <1>4, <1>5, <1>6, <1>7, <1>8

-----------------------------------------------------------------------------
(* Types: the local variables of save_info.                                *)

LEMMA SaveFields ==
    ASSUME SaveOK
    PROVE  /\ save.at \in {"no", "statting", "writing", "deleting"}
           /\ save.list \subseteq ChunkRange /\ save.old \subseteq Stats
           /\ save.dto \subseteq DTO /\ save.doomed \subseteq Names
           /\ save.sizes \in UNION {[D -> Nat] : D \in SUBSET Names}
           /\ save = [at |-> save.at, list |-> save.list, old |-> save.old,
                      sizes |-> save.sizes, dto |-> save.dto, doomed |-> save.doomed]
BY DEF SaveOK, SaveRecord

LEMMA NoSaveIsOK ==
    /\ NoSave \in SaveRecord
    /\ NoSave.at = "no" /\ NoSave.dto = {} /\ NoSave.doomed = {}
    /\ NoSave.list = {} /\ NoSave.old = {}
    /\ NoSave = [at |-> NoSave.at, list |-> NoSave.list, old |-> NoSave.old,
                 sizes |-> NoSave.sizes, dto |-> NoSave.dto, doomed |-> NoSave.doomed]
<1> DEFINE nothing == [n \in {} |-> 0]
<1>1. nothing \in [{} -> Nat] /\ {} \in SUBSET Names
  OBVIOUS
<1>2. nothing \in UNION {[D -> Nat] : D \in SUBSET Names}
  BY <1>1
<1>3. NoSave = [at |-> "no", list |-> {}, old |-> {}, sizes |-> nothing,
                dto |-> {}, doomed |-> {}]
  BY DEF NoSave
<1> HIDE DEF nothing
<1> QED
  BY <1>2, <1>3 DEF SaveRecord

LEMMA EndedSave ==
    ASSUME save' = NoSave
    PROVE  SaveOK'
BY NoSaveIsOK DEF SaveOK, SaveRecord, ListOK, Listed, Entries

\* A size that is asked for once more changes nothing else.
LEMMA AskedFields ==
    ASSUME NEW asking \in SaveRecord, NEW n \in Names, save' \in Asked(asking, n), FilesOK'
    PROVE  /\ save' \in SaveRecord
           /\ save'.at = asking.at /\ save'.list = asking.list /\ save'.old = asking.old
           /\ save'.dto = asking.dto /\ save'.doomed = asking.doomed
<1>1. SizeOf(n)' \in Nat
  BY DEF FilesOK, SizeOf, None
<1>2. CASE save' = asking
  BY <1>2
<1>3. CASE n \in DOMAIN asking.sizes /\ save' = [asking EXCEPT !.sizes[n] = SizeOf(n)']
  <2> DEFINE new == [asking.sizes EXCEPT ![n] = SizeOf(n)']
  <2>1. PICK D \in SUBSET Names : asking.sizes \in [D -> Nat]
    BY DEF SaveRecord
  <2>2. new \in [D -> Nat]
    BY <1>1, <2>1
  <2>3. save' = [asking EXCEPT !.sizes = new]
    BY <1>3
  <2> HIDE DEF new
  <2> QED
    BY <2>2, <2>3 DEF SaveRecord
<1> QED
  BY <1>2, <1>3 DEF Asked

\* One of the stats of a list changes, but for its range and its file.
LEMMA UpdatedList ==
    ASSUME TypesOK, source' = source, NEW s \in stats, NEW t, t.range = s.range, t.name = s.name,
           Update(s, t), save' \in SaveRecord,
           save'.at = save.at, save'.list = save.list, save'.old = save.old, save'.dto = save.dto,
           UNCHANGED <<sealed, process>>
    PROVE  SaveOK'
<1>1. SaveOK /\ stats' = (stats \ {s}) \union {t}
  BY DEF TypesOK, Update
<1>2. \A x, y \in Listed' : x.name = y.name => x = y
  <2>1. \A x \in Listed' : \/ (x = t /\ s \in Listed /\ s.range \in save.list)
                          \/ (x \in Listed /\ (s.range \in save.list => x # s))
    <3> SUFFICES ASSUME NEW x \in Listed'
                 PROVE  \/ (x = t /\ s \in Listed /\ s.range \in save.list)
                        \/ (x \in Listed /\ (s.range \in save.list => x # s))
      OBVIOUS
    <3>1. CASE x \in save.old
      BY <1>1, <3>1 DEF Listed, SaveOK, ListOK
    <3>2. CASE x \in stats' /\ x.range \in save.list
      BY <1>1, <3>2 DEF Listed
    <3> QED
      BY <3>1, <3>2 DEF Listed
  <2> QED
    BY <1>1, <2>1 DEF SaveOK, ListOK
<1>3. \A o \in save'.old : StatOK(o)' /\ o.range \notin save'.list
  BY <1>1 DEF SaveOK, ListOK, StatOK
<1> QED
  BY <1>1, <1>2, <1>3 DEF SaveOK, ListOK, Entries, EntryOK

-----------------------------------------------------------------------------
(* Types: the download.                                                    *)

LEMMA PhaseFrame ==
    ASSUME TypesOK, UNCHANGED <<process, merging, fileSize, sealed, searchVars>>,
           stale' \in BOOLEAN,
           merging = "covering" => {s.range : s \in Completed'} = {s.range : s \in Completed}
    PROVE  PhaseOK'
BY DEF TypesOK, PhaseOK, searchVars

LEMMA TouchIsBoolean ==
    ASSUME TypesOK, NEW n, Touch(n)
    PROVE  stale' \in BOOLEAN
BY DEF TypesOK, PhaseOK, Touch

\* One chunk of the stats changes, but for its range and its file.
LEMMA UpdateStat ==
    ASSUME TypesOK, source' = source, plan' = plan, NEW s \in stats, NEW t, StatOK(t),
           t.range = s.range, t.name = s.name, Update(s, t)
    PROVE  StatsOK' /\ PlanOK'
<1>1. StatsOK /\ PlanOK
  BY DEF TypesOK
<1>2. stats' = (stats \ {s}) \union {t}
  BY DEF Update
<1>3. \A x \in stats' : StatOK(x)
  BY <1>1, <1>2 DEF StatsOK
<1>4. \A x \in stats' : StatOK(x)'
  BY <1>3 DEF StatOK
<1>5. \A x, y \in stats' : x.range = y.range \/ x.name = y.name => x = y
  BY <1>1, <1>2 DEF StatsOK
<1>6. \A r \in plan : \A x \in stats' : x.name = r => x.range = r
  BY <1>1, <1>2 DEF PlanOK
<1> QED
  BY <1>1, <1>4, <1>5, <1>6 DEF StatsOK, PlanOK

LEMMA FlushedFiles ==
    ASSUME TypesOK, NEW s \in stats, source' = source, fileSize' = fileSize, disk' = Flushed(s)
    PROVE  FilesOK'
<1>1. FilesOK /\ StatOK(s)
  BY DEF TypesOK, StatsOK
<1>2. source \in Nat
  BY <1>1 DEF FilesOK
<1>3. s.name \in Names /\ s.bytes \in Nat /\ s.name.start + s.bytes <= source
  BY <1>1, <1>2, StatFields
<1>4. disk' \in [Names -> Nat \union {None}] /\ \A n \in Names : disk'[n] = disk[n] \/ (n = s.name /\ disk'[n] = s.bytes)
  BY <1>1, <1>3 DEF FilesOK, Flushed
<1>5. \A n \in Names : disk'[n] # None => n.start + disk'[n] <= source
  BY <1>1, <1>3, <1>4 DEF FilesOK
<1> QED
  BY <1>1, <1>4, <1>5 DEF FilesOK

LEMMA StartTypes ==
    ASSUME TypesOK, NEW r \in plan, Start(r)
    PROVE  TypesOK'
<1> DEFINE new == [range |-> r, name |-> r, bytes |-> 0, status |-> "DOWNLOADING"]
<1>1. /\ FilesOK /\ StatsOK /\ PlanOK /\ PhaseOK /\ merging = "idle"
      /\ stats' = {s \in stats : s.range # r} \union {new}
      /\ disk' = [disk EXCEPT ![r] = 0] /\ Touch(r)
      /\ save' \in Asked(Replaced(r), r)
      /\ UNCHANGED downloadRest
  BY DEF Start, TypesOK
<1>2. source' = source /\ fileSize' = fileSize /\ plan' = plan /\ source \in Nat
  BY <1>1 DEF downloadRest, FilesOK
<1>3. r \in Names /\ r \in ChunkRange /\ r.start \in Nat /\ r.end \in Nat \union {None} /\ Within(r, source)
  BY <1>1, NameFields DEF PlanOK
<1>4. r.start <= source /\ TotalBytes(r, source) \in Nat
  BY <1>2, <1>3 DEF Within, TotalBytes, None
<1>5. FilesOK'
  BY <1>1, <1>2, <1>3, <1>4 DEF FilesOK
<1>6. new \in Stats
  BY <1>3 DEF Stats
<1>7. StatOK(new)
  BY <1>3, <1>4, <1>6 DEF StatOK
<1> HIDE DEF new
<1>8. new.range = r /\ new.name = r
  BY DEF new
<1>9. \A x \in stats' : StatOK(x)'
  BY <1>1, <1>2, <1>7 DEF StatOK, StatsOK
<1>10. \A x, y \in stats' : x.range = y.range \/ x.name = y.name => x = y
  BY <1>1, <1>8 DEF StatsOK, PlanOK
<1>11. \A q \in plan : \A x \in stats' : x.name = q => x.range = q
  BY <1>1, <1>8 DEF PlanOK
<1>12. StatsOK' /\ PlanOK'
  BY <1>1, <1>2, <1>9, <1>10, <1>11 DEF StatsOK, PlanOK
<1>13. PhaseOK'
  BY <1>1, TouchIsBoolean, PhaseFrame DEF downloadRest, mergeVars
<1>14. InfoOK' /\ CopyOK' /\ SearchInvariant' /\ FragmentsFit'
  BY <1>1, Frames DEF downloadRest, mergeVars
<1>15. SaveOK'
  <2>1. /\ SaveOK /\ UNCHANGED <<sealed, process>>
        /\ \A x \in stats' : x.range # r => x \in stats
    BY <1>1, <1>8 DEF TypesOK, downloadRest
  <2>2. \A s \in stats : s \in Stats
    BY <1>1 DEF StatsOK, StatOK
  <2>3. /\ Replaced(r) \in SaveRecord /\ Replaced(r).at = save.at /\ Replaced(r).dto = save.dto
        /\ Replaced(r).list = save.list \ {r}
        /\ Replaced(r).old = save.old \union {s \in stats : s.range = r /\ r \in save.list}
    BY <2>1, <2>2 DEF Replaced, SaveOK, SaveRecord
  <2>4. /\ save' \in SaveRecord /\ save'.at = save.at /\ save'.dto = save.dto
        /\ save'.list = save.list \ {r}
        /\ save'.old = save.old \union {s \in stats : s.range = r /\ r \in save.list}
    BY <1>1, <1>3, <1>5, <2>3, AskedFields
  <2>5. Listed' \subseteq Listed
    BY <2>1, <2>4 DEF Listed
  <2>6. \A o \in save'.old : StatOK(o)' /\ o.range \notin save'.list
    BY <1>1, <1>2, <2>1, <2>4 DEF SaveOK, ListOK, StatsOK, StatOK
  <2> QED
    BY <1>2, <2>1, <2>4, <2>5, <2>6 DEF SaveOK, ListOK, Entries, EntryOK
<1> QED
  BY <1>5, <1>12, <1>13, <1>14, <1>15 DEF TypesOK

LEMMA ReceiveTypes ==
    ASSUME TypesOK, NEW s \in stats, Receive(s)
    PROVE  TypesOK'
<1> DEFINE t == [s EXCEPT !.bytes = @ + 1]
<1>1. /\ StatOK(s) /\ merging # "covering" /\ s.status = "DOWNLOADING"
      /\ s.bytes < TotalBytes(s.range, source)
      /\ Update(s, t) /\ UNCHANGED <<disk, stale, save, downloadRest>> /\ source \in Nat /\ PhaseOK
  BY DEF Receive, Running, TypesOK, StatsOK, FilesOK
<1>2. s \in Stats /\ s.bytes \in Nat /\ TotalBytes(s.range, source) \in Nat
  BY <1>1, StatFields
<1>3. /\ t \in Stats /\ t.bytes = s.bytes + 1
      /\ t.range = s.range /\ t.name = s.name /\ t.status = s.status
  BY <1>2 DEF Stats
<1> HIDE DEF t
<1>4. StatOK(t)
  BY <1>1, <1>2, <1>3 DEF StatOK
<1>5. StatsOK' /\ PlanOK'
  BY <1>1, <1>3, <1>4, UpdateStat DEF downloadRest
<1>6. PhaseOK'
  BY <1>1, PhaseFrame DEF downloadRest, mergeVars, PhaseOK
<1>7. FilesOK' /\ InfoOK' /\ CopyOK' /\ SearchInvariant' /\ FragmentsFit'
  BY <1>1, Frames DEF downloadRest, mergeVars
<1>8. SaveOK'
  BY <1>1, <1>3, UpdatedList DEF downloadRest, TypesOK, SaveOK
<1> QED
  BY <1>5, <1>6, <1>7, <1>8 DEF TypesOK

LEMMA FlushTypes ==
    ASSUME TypesOK, NEW s \in stats, FlushBuffer(s)
    PROVE  TypesOK'
<1>1. /\ merging # "covering" /\ disk' = Flushed(s) /\ Touch(s.name)
      /\ save' \in Asked(save, s.name)
      /\ UNCHANGED <<stats, downloadRest>>
  BY DEF FlushBuffer, Running
<1>2. FilesOK'
  BY <1>1, FlushedFiles DEF downloadRest
<1>3. PhaseOK'
  BY <1>1, TouchIsBoolean, PhaseFrame DEF downloadRest, mergeVars
<1>4. StatsOK' /\ PlanOK' /\ InfoOK' /\ CopyOK' /\ SearchInvariant' /\ FragmentsFit'
  BY <1>1, Frames DEF downloadRest, mergeVars
<1>5. SaveOK'
  <2>1. SaveOK /\ StatOK(s) /\ source \in Nat /\ UNCHANGED <<source, sealed, process>>
    BY <1>1 DEF TypesOK, StatsOK, FilesOK, downloadRest
  <2>2. /\ save' \in SaveRecord
        /\ save'.at = save.at /\ save'.list = save.list /\ save'.old = save.old /\ save'.dto = save.dto
    BY <1>1, <1>2, <2>1, AskedFields, StatFields DEF SaveOK
  <2> QED
    BY <1>1, <2>1, <2>2 DEF SaveOK, ListOK, Listed, StatOK, Entries, EntryOK
<1> QED
  BY <1>2, <1>3, <1>4, <1>5 DEF TypesOK

LEMMA EndTypes ==
    ASSUME TypesOK, NEW s \in stats, EndDownload(s)
    PROVE  TypesOK'
<1>1. PICK status \in IF s.bytes = TotalBytes(s.range, source) THEN {"COMPLETED"} ELSE {"CANCELLED"} :
         Update(s, [s EXCEPT !.status = status])
  BY DEF EndDownload
<1> DEFINE t == [s EXCEPT !.status = status]
<1>2. /\ merging # "covering" /\ disk' = Flushed(s) /\ Touch(s.name) /\ Update(s, t)
      /\ save' \in Asked(save, s.name)
      /\ UNCHANGED downloadRest /\ StatOK(s) /\ source \in Nat
  BY <1>1 DEF EndDownload, Running, TypesOK, StatsOK, FilesOK
<1>3. /\ t \in Stats /\ t.bytes = s.bytes /\ t.range = s.range /\ t.name = s.name
      /\ t.status = status
  BY <1>1, <1>2, StatFields DEF Stats
<1> HIDE DEF t
<1>4. StatOK(t)
  BY <1>1, <1>2, <1>3 DEF StatOK
<1>5. StatsOK' /\ PlanOK'
  BY <1>2, <1>3, <1>4, UpdateStat DEF downloadRest
<1>6. FilesOK'
  BY <1>2, FlushedFiles DEF downloadRest
<1>7. PhaseOK'
  BY <1>2, TouchIsBoolean, PhaseFrame DEF downloadRest, mergeVars
<1>8. InfoOK' /\ CopyOK' /\ SearchInvariant' /\ FragmentsFit'
  BY <1>2, Frames DEF downloadRest, mergeVars
<1>9. SaveOK'
  <2>1. save \in SaveRecord /\ s.name \in Names /\ UNCHANGED <<source, sealed, process>>
    BY <1>2, StatFields DEF TypesOK, SaveOK, downloadRest
  <2> QED
    BY <1>2, <1>3, <1>6, <2>1, AskedFields, UpdatedList
<1> QED
  BY <1>5, <1>6, <1>7, <1>8, <1>9 DEF TypesOK

-----------------------------------------------------------------------------
(* Types: save_info.                                                       *)

LEMMA SaveBeginsTypes ==
    ASSUME TypesOK, SaveBegins
    PROVE  TypesOK'
<1> DEFINE names == {s.name : s \in stats}
           sizes == [n \in names |-> SizeOf(n)]
           list  == {s.range : s \in stats}
<1>1. /\ FilesOK /\ StatsOK /\ PhaseOK /\ process = "up" /\ merging # "covering"
      /\ save' = [NoSave EXCEPT !.at = "statting", !.list = list, !.sizes = sizes]
      /\ sealed' = TRUE
      /\ UNCHANGED <<disk, infoFile, info, saveRest>>
  BY DEF SaveBegins, Running, TypesOK
<1>2. names \subseteq Names /\ list \subseteq ChunkRange
  BY <1>1, StatFields DEF StatsOK, FilesOK
<1>3. sizes \in [names -> Nat]
  BY <1>1, <1>2 DEF FilesOK, SizeOf, None
<1> HIDE DEF names, list
<1>4. sizes \in UNION {[D -> Nat] : D \in SUBSET Names}
  BY <1>2, <1>3
<1> HIDE DEF sizes
<1>5. /\ save' \in SaveRecord /\ save'.at = "statting" /\ save'.old = {} /\ save'.dto = {}
  BY <1>1, <1>2, <1>4, NoSaveIsOK DEF SaveRecord
<1>6. SaveOK'
  BY <1>1, <1>5 DEF SaveOK, ListOK, Listed, StatsOK, Entries, saveRest
<1>7. PhaseOK'
  BY <1>1 DEF PhaseOK, saveRest, searchVars, mergeVars, Completed
<1>8. FilesOK' /\ StatsOK' /\ PlanOK' /\ InfoOK' /\ CopyOK' /\ SearchInvariant' /\ FragmentsFit'
  BY <1>1, Frames DEF saveRest, mergeVars
<1> QED
  BY <1>6, <1>7, <1>8 DEF TypesOK

LEMMA SaveOpensTypes ==
    ASSUME TypesOK, SaveOpens
    PROVE  TypesOK'
<1> DEFINE dto    == {Entry(s) : s \in {t \in Listed : Kept(t)}}
           doomed == {s.name : s \in {t \in Listed : Useless(t)}}
<1>1. /\ FilesOK /\ StatsOK /\ PhaseOK /\ SaveOK /\ process = "up" /\ save.at = "statting"
      /\ save' = [NoSave EXCEPT !.at = "writing", !.dto = dto, !.doomed = doomed]
      /\ infoFile' = "torn" /\ info' = {}
      /\ UNCHANGED <<disk, sealed, saveRest>> /\ source \in Nat
  BY DEF SaveOpens, Listed, Running, TypesOK, FilesOK
<1>2. \A s \in Listed : StatOK(s)
  BY <1>1 DEF Listed, SaveOK, ListOK, StatsOK
<1>3. \A s \in Listed : Kept(s) => /\ EntryOK(Entry(s))
                                   /\ Entry(s).name = s.name /\ Entry(s).bytes = s.bytes
  BY <1>1, <1>2, EntryIsOK DEF Kept
<1>4. \A c \in dto : EntryOK(c)
  BY <1>3
<1>5. \A c, d \in dto : c.name = d.name => c = d
  <2> SUFFICES ASSUME NEW s \in Listed, NEW t \in Listed, Kept(s), Kept(t), Entry(s).name = Entry(t).name
               PROVE  Entry(s) = Entry(t)
    OBVIOUS
  <2> QED
    BY <1>1, <1>3 DEF SaveOK, ListOK
<1>6. dto \subseteq DTO
  BY <1>4 DEF EntryOK
<1>7. doomed \subseteq Names
  BY <1>1, <1>2, StatFields
<1> HIDE DEF dto, doomed
<1>8. SaveOK'
  <2>1. /\ save' \in SaveRecord /\ save'.at = "writing" /\ save'.dto = dto
        /\ save'.list = {} /\ save'.old = {}
    BY <1>1, <1>6, <1>7, NoSaveIsOK DEF SaveRecord
  <2>2. Entries(save.dto)'
    BY <1>1, <1>4, <1>5, <2>1 DEF Entries, EntryOK, saveRest
  <2>3. sealed' /\ process' = "up"
    BY <1>1 DEF SaveOK, saveRest
  <2> QED
    BY <2>1, <2>2, <2>3 DEF SaveOK, ListOK, Listed
<1>9. InfoOK'
  BY <1>1 DEF InfoOK, Entries
<1>10. PhaseOK'
  BY <1>1 DEF PhaseOK, saveRest, searchVars, mergeVars, Completed
<1>11. FilesOK' /\ StatsOK' /\ PlanOK' /\ CopyOK' /\ SearchInvariant' /\ FragmentsFit'
  BY <1>1, Frames DEF saveRest, mergeVars
<1> QED
  BY <1>8, <1>9, <1>10, <1>11 DEF TypesOK

LEMMA SaveWritesTypes ==
    ASSUME TypesOK, SaveWrites
    PROVE  TypesOK'
<1>1. /\ PhaseOK /\ SaveOK /\ process = "up" /\ save.at = "writing"
      /\ infoFile' = "whole" /\ info' = save.dto
      /\ save' = [save EXCEPT !.at = "deleting"]
      /\ UNCHANGED <<disk, sealed, saveRest>>
  BY DEF SaveWrites, Running, TypesOK
<1>2. /\ save' \in SaveRecord /\ save'.at = "deleting" /\ save'.dto = save.dto
      /\ save'.list = {} /\ save'.old = {}
  BY <1>1 DEF SaveOK, SaveRecord
<1>3. SaveOK'
  BY <1>1, <1>2 DEF SaveOK, ListOK, Listed, Entries, EntryOK, saveRest
<1>4. InfoOK'
  BY <1>1 DEF InfoOK, SaveOK, Entries, EntryOK, Readable, saveRest
<1>5. PhaseOK'
  BY <1>1 DEF PhaseOK, saveRest, searchVars, mergeVars, Completed
<1>6. FilesOK' /\ StatsOK' /\ PlanOK' /\ CopyOK' /\ SearchInvariant' /\ FragmentsFit'
  BY <1>1, Frames DEF saveRest, mergeVars
<1> QED
  BY <1>3, <1>4, <1>5, <1>6 DEF TypesOK

\* Files are only deleted.
LEMMA DeletedFiles ==
    ASSUME TypesOK, UNCHANGED <<source, fileSize>>, NEW gone,
           disk' = [n \in Names |-> IF n \in gone THEN None ELSE disk[n]]
    PROVE  FilesOK'
BY DEF TypesOK, FilesOK

LEMMA SaveEndsTypes ==
    ASSUME TypesOK, SaveEnds
    PROVE  TypesOK'
<1>1. PICK gone \in SUBSET save.doomed :
         disk' = [n \in Names |-> IF n \in gone THEN None ELSE disk[n]]
  BY DEF SaveEnds
<1>2. PhaseOK /\ save' = NoSave /\ UNCHANGED <<infoFile, info, sealed, saveRest>>
  BY DEF SaveEnds, TypesOK
<1>3. FilesOK'
  BY <1>1, <1>2, DeletedFiles DEF saveRest
<1>4. SaveOK'
  BY <1>2, EndedSave
<1>5. PhaseOK'
  BY <1>2 DEF PhaseOK, saveRest, searchVars, mergeVars, Completed
<1>6. StatsOK' /\ PlanOK' /\ InfoOK' /\ CopyOK' /\ SearchInvariant' /\ FragmentsFit'
  BY <1>2, Frames DEF saveRest, mergeVars
<1> QED
  BY <1>3, <1>4, <1>5, <1>6 DEF TypesOK

-----------------------------------------------------------------------------
(* Types: crashes, recoveries and the end of a download.                   *)

LEMMA KillTypes ==
    ASSUME TypesOK, Kill
    PROVE  TypesOK'
<1>1. /\ PhaseOK /\ process' = "down" /\ stats' = {} /\ plan' = {} /\ sealed' = FALSE
      /\ save' = NoSave /\ merging' = "idle" /\ left' = <<>> /\ merged' = <<>>
      /\ ForgetSearch
      /\ UNCHANGED <<source, fileSize, disk, infoFile, info, stale>>
  BY DEF Kill, TypesOK
<1>2. StatsOK' /\ PlanOK' /\ CopyOK'
  BY <1>1 DEF StatsOK, PlanOK, CopyOK
<1>3. SaveOK'
  BY <1>1, EndedSave
<1>4. PhaseOK'
  BY <1>1 DEF PhaseOK, ForgetSearch
<1>5. SearchInvariant' /\ FragmentsFit'
  BY <1>1, ForgetSearches, NothingFits
<1>6. FilesOK' /\ InfoOK'
  BY <1>1, Frames
<1> QED
  BY <1>2, <1>3, <1>4, <1>5, <1>6 DEF TypesOK

LEMMA LoadTypes ==
    ASSUME TypesOK, Load
    PROVE  TypesOK'
<1>1. PICK one \in SUBSET Recovered :
         /\ \A c, d \in one : c.range = d.range => c = d
         /\ stats' = {RecoveredStats(c) : c \in one}
         /\ plan' = Missing({c.range : c \in one})
  BY DEF Load
<1>2. /\ FilesOK /\ InfoOK /\ SaveOK /\ PhaseOK /\ process = "down" /\ process' = "up"
      /\ UNCHANGED loadRest /\ source \in Nat
  BY DEF Load, TypesOK, FilesOK
<1>3. \A c \in one : EntryOK(c) /\ c \in info
  BY <1>2 DEF InfoOK, Entries, Recovered
<1>4. \A c \in one : /\ StatOK(RecoveredStats(c))
                     /\ RecoveredStats(c).range = c.range /\ RecoveredStats(c).name = c.name
  BY <1>2, <1>3, RecoveredIsOK
<1>5. \A s \in stats' : StatOK(s)'
  BY <1>1, <1>2, <1>4 DEF StatOK, loadRest
<1>6. \A s, t \in stats' : s.range = t.range \/ s.name = t.name => s = t
  <2> SUFFICES ASSUME NEW c \in one, NEW d \in one, c.range = d.range \/ c.name = d.name
               PROVE  c = d
    BY <1>1, <1>4
  <2> QED
    BY <1>1, <1>2, <1>3 DEF InfoOK, Entries
<1>7. StatsOK'
  BY <1>5, <1>6 DEF StatsOK
<1>8. \A r \in plan' : r \in Names /\ Within(r, source) /\ \A c \in one : ~InRange(r.start, c.range)
  BY <1>1, <1>2, MissingRanges
<1>9. \A r \in plan', c \in one : c.name # r
  <2> SUFFICES ASSUME NEW r \in plan', NEW c \in one, c.name = r
               PROVE  FALSE
    OBVIOUS
  <2>1. /\ c.name.start = c.range.start /\ c.range.start \in Nat /\ c.range.end \in Nat
        /\ c.range.start <= c.range.end
    BY <1>2, <1>3, EntryFields
  <2> QED
    BY <1>8, <2>1 DEF InRange
<1>10. PlanOK'
  BY <1>1, <1>2, <1>4, <1>8, <1>9 DEF PlanOK, loadRest
<1>11. SaveOK'
  <2>1. save.at = "no" /\ save' = save /\ source' = source /\ sealed' = sealed
    BY <1>2 DEF SaveOK, loadRest
  <2> QED
    BY <1>2, <2>1 DEF SaveOK, SaveRecord, ListOK, Listed, Entries, EntryOK
<1>12. PhaseOK'
  BY <1>2 DEF PhaseOK, loadRest, searchVars, mergeVars
<1>13. FilesOK' /\ InfoOK' /\ CopyOK' /\ SearchInvariant' /\ FragmentsFit'
  BY <1>2, Frames DEF loadRest, mergeVars
<1> QED
  BY <1>7, <1>10, <1>11, <1>12, <1>13 DEF TypesOK

LEMMA EndTypesOfFiles ==
    ASSUME TypesOK, CleanUp \/ PurgeFiles
    PROVE  TypesOK'
<1>1. /\ PhaseOK /\ process = "up" /\ UNCHANGED <<infoFile, info, endRest>>
      /\ process' \in {"up", "purging"} /\ stale' \in BOOLEAN
      /\ process' = "purging" => merging = "idle"
      /\ save.at = "no"
  BY DEF CleanUp, PurgeFiles, TypesOK, PhaseOK
<1>2. \E gone : disk' = [n \in Names |-> IF n \in gone THEN None ELSE disk[n]]
  <2>1. CASE CleanUp
    <3>1. disk' = [n \in Names |-> IF n \in {s.name : s \in stats} THEN None ELSE disk[n]]
      BY <2>1 DEF CleanUp
    <3> QED
      BY <3>1
  <2>2. CASE PurgeFiles
    BY <2>2 DEF PurgeFiles
  <2> QED
    BY <2>1, <2>2
<1>3. FilesOK'
  BY <1>1, <1>2, DeletedFiles DEF endRest
<1>4. SaveOK'
  BY <1>1 DEF TypesOK, SaveOK, SaveRecord, ListOK, Listed, StatOK, Entries, EntryOK, endRest
<1>5. PhaseOK'
  BY <1>1 DEF PhaseOK, endRest, searchVars, mergeVars, Completed
<1>6. StatsOK' /\ PlanOK' /\ InfoOK' /\ CopyOK' /\ SearchInvariant' /\ FragmentsFit'
  BY <1>1, Frames DEF endRest, mergeVars
<1> QED
  BY <1>3, <1>4, <1>5, <1>6 DEF TypesOK

LEMMA EndTypesOfInfo ==
    ASSUME TypesOK, DeleteInfo \/ PurgeInfo
    PROVE  TypesOK'
<1>1. /\ PhaseOK /\ SaveOK /\ InfoOK
      /\ \/ infoFile' = "none" /\ info' = {}
         \/ UNCHANGED <<infoFile, info>>
      /\ UNCHANGED <<disk, stale, endRest>>
      /\ \/ process = "up" /\ process' = "up"
         \/ process = "purging" /\ process' = "gone"
  BY DEF DeleteInfo, PurgeInfo, TypesOK
<1>2. InfoOK'
  <2>1. CASE infoFile' = "none" /\ info' = {}
    BY <2>1 DEF InfoOK, Entries
  <2>2. CASE UNCHANGED <<infoFile, info>>
    BY <1>1, <2>2, Frames DEF endRest
  <2> QED
    BY <1>1, <2>1, <2>2
<1>3. SaveOK'
  BY <1>1 DEF SaveOK, SaveRecord, ListOK, Listed, StatOK, Entries, EntryOK, endRest
<1>4. PhaseOK'
  BY <1>1 DEF PhaseOK, endRest, searchVars, mergeVars, Completed
<1>5. FilesOK' /\ StatsOK' /\ PlanOK' /\ CopyOK' /\ SearchInvariant' /\ FragmentsFit'
  BY <1>1, Frames DEF endRest, mergeVars
<1> QED
  BY <1>2, <1>3, <1>4, <1>5 DEF TypesOK

-----------------------------------------------------------------------------
(* Types: the merge.                                                       *)

LEMMA RunIsSeq ==
    ASSUME NEW a \in Nat, NEW k \in Nat, NEW n \in Nat, a + k <= n
    PROVE  Run(a, k) \in Seq(0..n - 1) /\ Len(Run(a, k)) = k
BY DEF Run

LEMMA MergeFrames ==
    ASSUME TypesOK, UNCHANGED <<fileVars, save, recVars>>
    PROVE  FilesOK' /\ StatsOK' /\ PlanOK' /\ InfoOK' /\ SaveOK'
BY Frames DEF fileVars, recVars

LEMMA ChosenStat ==
    ASSUME TypesOK, NEW f, \E s \in Completed : s.range = f.range
    PROVE  \E s \in Completed : s.range = f.range /\ Config(f) = [name |-> s.name, limit |-> f.limit]
<1> DEFINE s == CHOOSE x \in Completed : x.range = f.range
<1>1. s \in Completed /\ s.range = f.range
  OBVIOUS
<1>2. Config(f) = [name |-> s.name, limit |-> f.limit]
  BY DEF Config
<1> HIDE DEF s
<1> QED
  BY <1>1, <1>2

LEMMA BeginMergeTypes ==
    ASSUME TypesOK, BeginMerge, process = "up", UNCHANGED <<save, recVars>>
    PROVE  TypesOK'
<1>1. PhaseOK /\ StatsOK /\ FilesOK /\ merging = "idle" /\ UNCHANGED <<fileVars, left, merged>>
  BY DEF BeginMerge, TypesOK
<1>2. FilesOK' /\ StatsOK' /\ PlanOK' /\ InfoOK' /\ SaveOK' /\ CopyOK'
  BY <1>1, MergeFrames, Frames DEF fileVars
<1>3. CASE Completed = {}
  <2>1. merging' = "failed" /\ UNCHANGED searchVars
    BY <1>3 DEF BeginMerge
  <2>2. PhaseOK'
    BY <1>1, <2>1 DEF PhaseOK, recVars
  <2>3. SearchInvariant' /\ FragmentsFit'
    BY <1>1, <2>1, Frames DEF fileVars
  <2> QED
    BY <1>2, <2>2, <2>3 DEF TypesOK
<1>4. CASE Completed # {}
  <2> DEFINE given == {s.range : s \in Completed}
  <2>1. BeginSearch(given, fileSize) /\ merging' = "covering"
    BY <1>4 DEF BeginMerge
  <2>2. given \subseteq ChunkRange /\ given # {}
    BY <1>1, <1>4, StatFields DEF StatsOK, FilesOK, Completed
  <2>3. fileSize \in Nat \union {None} /\ source \in Nat
    BY <1>1 DEF FilesOK
  <2>4. fileSize = 0 => \A r \in given : r.start = 0
    <3> SUFFICES ASSUME fileSize = 0, NEW s \in Completed
                 PROVE  s.range.start = 0
      OBVIOUS
    <3>1. StatOK(s) /\ source = 0
      BY <1>1 DEF StatsOK, FilesOK, Completed, None
    <3> QED
      BY <3>1, StatFields
  <2>5. given' = given
    BY <1>1 DEF fileVars, Completed
  <2>6. chunks' = given /\ size' = fileSize /\ fileSize' = fileSize
    BY <1>1, <2>1 DEF BeginSearch, fileVars
  <2>7. PhaseOK'
    BY <1>1, <2>1, <2>5, <2>6 DEF PhaseOK, recVars
  <2> HIDE DEF given
  <2>8. SearchInvariant' /\ FragmentsFit'
    BY <2>1, <2>2, <2>3, <2>4, BeginSearches, BeginFits
  <2> QED
    BY <1>2, <2>7, <2>8 DEF TypesOK
<1> QED
  BY <1>3, <1>4

LEMMA OpenMergedTypes ==
    ASSUME TypesOK, OpenMerged, process = "up", UNCHANGED <<save, recVars>>
    PROVE  TypesOK'
<1>1. /\ PhaseOK /\ StatsOK /\ FilesOK /\ merging = "covering" /\ merging' = "copying"
      /\ UNCHANGED <<fileVars, searchVars>>
      /\ left' = [i \in 1..Len(path) |-> Config(path[i])] /\ merged' = <<>>
      /\ path \in Seq(Fragment) /\ AllFit(path)
  BY DEF OpenMerged, TypesOK, SearchInvariant, SearchTypeOK, FragmentsFit
<1>2. \A i \in 1..Len(path) : Config(path[i]) \in ConfigRecord
  <2> SUFFICES ASSUME NEW i \in 1..Len(path)
               PROVE  Config(path[i]) \in ConfigRecord
    OBVIOUS
  <2>1. path[i] \in Fragment /\ Fits(path[i])
    BY <1>1 DEF AllFit
  <2>2. \E s \in Completed : s.range = path[i].range
    BY <1>1, <2>1 DEF PhaseOK, Fits
  <2>3. PICK s \in Completed : Config(path[i]) = [name |-> s.name, limit |-> path[i].limit]
    BY <2>2, ChosenStat
  <2>4. s.name \in Names
    BY <1>1, <2>3, StatFields DEF StatsOK, FilesOK, Completed
  <2> QED
    BY <2>1, <2>3, <2>4, FragmentFields DEF ConfigRecord
<1>3. CopyOK'
  BY <1>1, <1>2 DEF CopyOK
<1>4. PhaseOK'
  BY <1>1 DEF PhaseOK, recVars
<1>5. FilesOK' /\ StatsOK' /\ PlanOK' /\ InfoOK' /\ SaveOK' /\ SearchInvariant' /\ FragmentsFit'
  BY <1>1, MergeFrames, Frames DEF fileVars
<1> QED
  BY <1>3, <1>4, <1>5 DEF TypesOK

\* What CopyNext appends.
Copied(c) == IF c.limit # None /\ c.limit < disk[c.name] THEN c.limit ELSE disk[c.name]

LEMMA CopiedBytes ==
    ASSUME TypesOK, left # <<>>, disk[Head(left).name] # None
    PROVE  /\ Head(left) = left[1] /\ left[1] \in ConfigRecord
           /\ left[1].name \in Names /\ left[1].name.start \in Nat
           /\ left[1].limit \in Nat \union {None}
           /\ disk[left[1].name] \in Nat /\ Copied(left[1]) \in Nat
           /\ left[1].name.start + Copied(left[1]) <= source /\ source \in Nat
<1>1. left \in Seq(ConfigRecord) /\ FilesOK
  BY DEF TypesOK, CopyOK
<1>2. Head(left) = left[1] /\ left[1] \in ConfigRecord
  BY <1>1
<1>3. left[1].name \in Names /\ left[1].limit \in Nat \union {None}
  BY <1>2 DEF ConfigRecord
<1>4. left[1].name.start \in Nat
  BY <1>3, NameFields
<1>5. disk[left[1].name] \in Nat /\ left[1].name.start + disk[left[1].name] <= source /\ source \in Nat
  BY <1>1, <1>2, <1>3 DEF FilesOK
<1> QED
  BY <1>2, <1>3, <1>4, <1>5 DEF Copied, None

LEMMA CopyNextTypes ==
    ASSUME TypesOK, CopyNext, process = "up", UNCHANGED <<save, recVars>>
    PROVE  TypesOK'
<1>1. /\ PhaseOK /\ CopyOK /\ merging = "copying" /\ left # <<>>
      /\ disk[Head(left).name] # None
      /\ merged' = merged \o Run(Head(left).name.start, Copied(Head(left)))
      /\ left' = Tail(left) /\ UNCHANGED <<fileVars, searchVars, merging>>
  BY DEF CopyNext, Copied, TypesOK
<1>2. Run(Head(left).name.start, Copied(Head(left))) \in Seq(0..source - 1)
  BY <1>1, CopiedBytes, RunIsSeq
<1>3. CopyOK'
  BY <1>1, <1>2 DEF CopyOK, fileVars
<1>4. PhaseOK'
  BY <1>1 DEF PhaseOK, recVars
<1>5. FilesOK' /\ StatsOK' /\ PlanOK' /\ InfoOK' /\ SaveOK' /\ SearchInvariant' /\ FragmentsFit'
  BY <1>1, MergeFrames, Frames DEF fileVars
<1> QED
  BY <1>3, <1>4, <1>5 DEF TypesOK

LEMMA MergeEndsTypes ==
    ASSUME TypesOK, Refuse \/ SourceMissing \/ EndMerge, process = "up", UNCHANGED <<save, recVars>>
    PROVE  TypesOK'
<1>1. /\ PhaseOK /\ merging \in {"covering", "copying"} /\ merging' \in {"failed", "merged"}
      /\ UNCHANGED <<fileVars, searchVars, left, merged>>
  BY DEF Refuse, SourceMissing, EndMerge, TypesOK
<1>2. PhaseOK'
  BY <1>1 DEF PhaseOK, recVars
<1>3. /\ FilesOK' /\ StatsOK' /\ PlanOK' /\ InfoOK' /\ SaveOK' /\ CopyOK'
      /\ SearchInvariant' /\ FragmentsFit'
  BY <1>1, MergeFrames, Frames DEF fileVars
<1> QED
  BY <1>2, <1>3 DEF TypesOK

LEMMA SearchKeepsTypes ==
    ASSUME TypesOK, merging = "covering", SearchStep, UNCHANGED <<fileVars, mergeVars>>,
           process = "up", UNCHANGED <<save, recVars>>
    PROVE  TypesOK'
<1>1. chunks' = chunks /\ size' = size
  BY DEF SearchStep, TakeGoal, TakeOpenEnd, TakePosition, TryCut, GiveUp
<1>2. PhaseOK'
  BY <1>1 DEF TypesOK, PhaseOK, recVars, fileVars, mergeVars, Completed
<1>3. FilesOK' /\ StatsOK' /\ PlanOK' /\ InfoOK' /\ SaveOK' /\ CopyOK'
  BY MergeFrames, Frames DEF fileVars, mergeVars
<1>4. SearchInvariant' /\ FragmentsFit'
  BY SearchSteps, StepFits DEF TypesOK
<1> QED
  BY <1>2, <1>3, <1>4 DEF TypesOK

LEMMA InitCases ==
    ASSUME Init
    PROVE  \E p \in Plans \union Finished :
              \E known \in {None, p.size} :
                 \E done \in SUBSET p.ranges, toDo \in SUBSET p.ranges :
                    InitFiles(p.size, known, done, toDo) /\ (done = {} \/ toDo = {})
<1>1. CASE \E p \in Plans : InitFiles(p.size, p.size, {}, p.ranges)
  <2>1. PICK p \in Plans : InitFiles(p.size, p.size, {}, p.ranges)
    BY <1>1
  <2>2. /\ p \in Plans \union Finished /\ p.size \in {None, p.size}
        /\ {} \in SUBSET p.ranges /\ p.ranges \in SUBSET p.ranges
    OBVIOUS
  <2> QED
    BY <2>1, <2>2, Zenon
<1>2. CASE \E p \in Finished : \E known \in {None, p.size} : InitFiles(p.size, known, p.ranges, {})
  <2>1. PICK p \in Finished : \E known \in {None, p.size} : InitFiles(p.size, known, p.ranges, {})
    BY <1>2
  <2>2. PICK known \in {None, p.size} : InitFiles(p.size, known, p.ranges, {})
    BY <2>1
  <2>3. /\ p \in Plans \union Finished
        /\ {} \in SUBSET p.ranges /\ p.ranges \in SUBSET p.ranges
    OBVIOUS
  <2> QED
    BY <2>2, <2>3, Zenon
<1> QED
  BY <1>1, <1>2 DEF Init

LEMMA InitTypes == Init => TypesOK
<1> SUFFICES ASSUME Init
             PROVE  TypesOK
  OBVIOUS
<1>0. PICK p \in Plans \union Finished :
         \E known \in {None, p.size} :
            \E done \in SUBSET p.ranges, toDo \in SUBSET p.ranges :
               InitFiles(p.size, known, done, toDo) /\ (done = {} \/ toDo = {})
  BY InitCases
<1>1. PICK known \in {None, p.size}, done \in SUBSET p.ranges, toDo \in SUBSET p.ranges :
         InitFiles(p.size, known, done, toDo) /\ (done = {} \/ toDo = {})
  BY <1>0
<1> DEFINE S(r) == [range |-> r, name |-> r, bytes |-> TotalBytes(r, p.size), status |-> "COMPLETED"]
<1>2. /\ source = p.size /\ fileSize = known
      /\ stats = {S(r) : r \in done}
      /\ disk = [n \in Names |-> IF n \in done THEN TotalBytes(n, p.size) ELSE None]
      /\ plan = toDo
  BY <1>1 DEF InitFiles
<1>3. /\ p.size \in Nat /\ p.ranges \subseteq Names
      /\ \A r \in p.ranges : Within(r, p.size)
      /\ \A a \in 0..p.size - 1 :
            /\ [start |-> a, end |-> None] \in Names
            /\ \A b \in a..p.size - 1 : [start |-> a, end |-> b] \in Names
  BY RecoveryAssumption
<1>4. \A r \in p.ranges : /\ r \in Names /\ r \in ChunkRange /\ Within(r, p.size)
                          /\ r.start \in Nat /\ r.end \in Nat \union {None}
                          /\ TotalBytes(r, p.size) \in Nat
                          /\ r.start + TotalBytes(r, p.size) <= p.size
  <2> SUFFICES ASSUME NEW r \in p.ranges
               PROVE  /\ r \in Names /\ r \in ChunkRange /\ Within(r, p.size)
                      /\ r.start \in Nat /\ r.end \in Nat \union {None}
                      /\ TotalBytes(r, p.size) \in Nat
                      /\ r.start + TotalBytes(r, p.size) <= p.size
    OBVIOUS
  <2>1. r \in Names /\ r \in ChunkRange /\ r.start \in Nat /\ r.end \in Nat \union {None}
    BY <1>3, NameFields
  <2> QED
    BY <1>3, <2>1 DEF Within, TotalBytes, None
<1>5. FilesOK
  <2>1. disk \in [Names -> Nat \union {None}]
    BY <1>1, <1>2, <1>4
  <2>2. \A n \in Names : disk[n] # None => n.start + disk[n] <= source
    BY <1>1, <1>2, <1>4
  <2> QED
    BY <1>1, <1>2, <1>3, <2>1, <2>2 DEF FilesOK
<1>6. StatsOK
  <2>1. \A r \in done : S(r) \in Stats /\ S(r).range = r /\ S(r).name = r
                        /\ S(r).bytes = TotalBytes(r, p.size)
    BY <1>1, <1>4 DEF Stats
  <2> HIDE DEF S
  <2>2. \A s \in stats : StatOK(s)
    BY <1>1, <1>2, <1>4, <2>1 DEF StatOK
  <2> QED
    BY <1>2, <2>1, <2>2 DEF StatsOK
<1>7. PlanOK
  BY <1>1, <1>2, <1>4 DEF PlanOK
<1>8. /\ merging = "idle" /\ left = <<>> /\ merged = <<>> /\ save = NoSave /\ process = "up"
      /\ infoFile = "none" /\ info = {} /\ sealed = FALSE /\ stale = FALSE /\ SearchInit
  BY DEF Init
<1>9. InfoOK /\ CopyOK
  BY <1>8 DEF InfoOK, Entries, CopyOK
<1>10. SaveOK
  BY <1>8, NoSaveIsOK DEF SaveOK, ListOK, Listed, Entries
<1>11. PhaseOK
  BY <1>8 DEF PhaseOK, SearchInit
<1>12. SearchInvariant /\ FragmentsFit
  BY <1>8, InitSearches, NothingFits
<1> QED
  BY <1>5, <1>6, <1>7, <1>9, <1>10, <1>11, <1>12 DEF TypesOK

LEMMA StepTypes ==
    ASSUME TypesOK, [Next]_vars
    PROVE  TypesOK'
<1>1. CASE UNCHANGED vars
  <2>1. /\ source' = source
        /\ UNCHANGED <<fileVars, searchVars, mergeVars, save, recVars>>
    BY <1>1 DEF vars, fileVars
  <2>2. PhaseOK'
    BY <2>1 DEF TypesOK, PhaseOK, fileVars, searchVars, mergeVars, recVars, Completed
  <2> QED
    BY <2>1, <2>2, Frames DEF TypesOK, fileVars, mergeVars, recVars
<1>2. CASE \E r \in plan : Start(r)
  BY <1>2, StartTypes
<1>3. CASE \E s \in stats : Receive(s) \/ FlushBuffer(s) \/ EndDownload(s)
  BY <1>3, ReceiveTypes, FlushTypes, EndTypes
<1>4. CASE SaveBegins \/ SaveOpens \/ SaveWrites \/ SaveEnds
  BY <1>4, SaveBeginsTypes, SaveOpensTypes, SaveWritesTypes, SaveEndsTypes
<1>5. CASE Kill \/ Load
  BY <1>5, KillTypes, LoadTypes
<1>6. CASE CleanUp \/ DeleteInfo \/ PurgeFiles \/ PurgeInfo
  BY <1>6, EndTypesOfFiles, EndTypesOfInfo
<1>7. CASE process = "up" /\ MergeStep /\ UNCHANGED <<save, recVars>>
  BY <1>7, BeginMergeTypes, OpenMergedTypes, CopyNextTypes, MergeEndsTypes, SearchKeepsTypes
     DEF MergeStep
<1> QED
  BY <1>1, <1>2, <1>3, <1>4, <1>5, <1>6, <1>7 DEF Next

-----------------------------------------------------------------------------
(* What is true and whose variables do not change.                         *)

LEMMA TrueFrames ==
    ASSUME AllTrue, ~stale, source' = source
    PROVE  /\ UNCHANGED <<process, merging, save, disk, stats, sealed>> => FilesTrue'
           /\ UNCHANGED <<save, stats, disk, infoFile, info>> => SaveTrue'
           /\ UNCHANGED <<merging, merged, left, stats, disk>> => CopyTrue'
           /\ UNCHANGED <<merging, searchVars>> => FailedTrue'
           /\ UNCHANGED <<process, disk, infoFile, info>> => InfoIsTrue'
           /\ UNCHANGED <<merging, merged>> => MergeIsExact'
<1>1. FilesTrue /\ SaveTrue /\ CopyTrue /\ FailedTrue /\ InfoIsTrue /\ MergeIsExact
  BY DEF AllTrue
<1>2. UNCHANGED <<process, merging, save, disk, stats, sealed>> => FilesTrue'
  BY <1>1 DEF FilesTrue, Completed
<1>3. UNCHANGED <<save, stats, disk, infoFile, info>> => SaveTrue'
  BY <1>1 DEF SaveTrue, Completed, SizeOf
<1>4. UNCHANGED <<merging, merged, left, stats, disk>> => CopyTrue'
  BY <1>1 DEF CopyTrue, Completed, Upto, Run
<1>5. UNCHANGED <<merging, searchVars>> => FailedTrue'
  BY <1>1 DEF FailedTrue, searchVars
<1>6. UNCHANGED <<process, disk, infoFile, info>> => InfoIsTrue'
  BY <1>1 DEF InfoIsTrue, Readable
<1>7. UNCHANGED <<merging, merged>> => MergeIsExact'
  BY <1>1 DEF MergeIsExact, Run
<1> QED
  BY <1>2, <1>3, <1>4, <1>5, <1>6, <1>7

LEMMA CopyGoesOn ==
    ASSUME CopyTrue, UNCHANGED <<source, merging, left, merged>>, Completed \subseteq Completed',
           \A s \in Completed : disk'[s.name] = disk[s.name]
    PROVE  CopyTrue'
<1> SUFFICES ASSUME merging = "copying"
             PROVE  CopyTrue'
  BY DEF CopyTrue
<1>1. \A i \in 1..Len(left) : Upto(left[i])' = Upto(left[i])
  BY DEF CopyTrue, Upto
<1>2. left # <<>> => Upto(left[Len(left)])' = Upto(left[Len(left)])
  BY DEF CopyTrue, Upto
<1>3. \A i \in 1..Len(left) : \E s \in Completed' :
              left[i].name = s.name /\ (left[i].limit # None => left[i].limit <= s.bytes)
  BY DEF CopyTrue
<1> QED
  BY <1>1, <1>2, <1>3 DEF CopyTrue, Run

-----------------------------------------------------------------------------
(* Truth: the download.                                                    *)

\* A file is only touched before the first save, and when no recovery file names it.
LEMMA TouchedBeforeSave ==
    ASSUME TypesOK, NEW n, Touch(n), ~stale'
    PROVE  ~stale /\ ~sealed /\ save.at = "no" /\ \A c \in info : c.name # n
BY DEF Touch, TypesOK, PhaseOK, SaveOK, InfoOK

\* A size that is asked for once more leaves the save where it stands.
LEMMA AskedAt ==
    ASSUME SaveOK, NEW r, NEW n, save' \in Asked(save, n) \union Asked(Replaced(r), n)
    PROVE  save'.at = save.at
BY DEF Asked, Replaced, SaveOK, SaveRecord

LEMMA InfoElsewhere ==
    ASSUME TypesOK, InfoIsTrue, ~stale, NEW n, \A c \in info : c.name # n,
           \A x \in Names : x # n => disk'[x] = disk[x],
           UNCHANGED <<infoFile, info>>, process = "up", process' = "up"
    PROVE  InfoIsTrue'
<1>1. \A c \in info : c.name \in Names
  BY EntryFields DEF TypesOK, InfoOK, Entries, FilesOK
<1> QED
  BY <1>1 DEF InfoIsTrue, Readable

LEMMA StartKeepsTrue ==
    ASSUME TypesOK, AllTrue, NEW r \in plan, Start(r), ~stale'
    PROVE  AllTrue'
<1> DEFINE new == [range |-> r, name |-> r, bytes |-> 0, status |-> "DOWNLOADING"]
<1>1. /\ FilesOK /\ StatsOK /\ PlanOK /\ merging = "idle" /\ process = "up"
      /\ stats' = {s \in stats : s.range # r} \union {new}
      /\ disk' = [disk EXCEPT ![r] = 0] /\ Touch(r)
      /\ save' \in Asked(Replaced(r), r) /\ SaveOK
      /\ UNCHANGED downloadRest
  BY DEF Start, Running, TypesOK
<1>2. ~stale /\ ~sealed /\ save.at = "no" /\ \A c \in info : c.name # r
  BY <1>1, TouchedBeforeSave
<1>3. /\ r \in Names /\ disk'[r] = 0 /\ \A x \in Names : x # r => disk'[x] = disk[x]
      /\ \A s \in stats : s.name \in Names
  BY <1>1, StatFields DEF PlanOK, FilesOK, StatsOK
<1>4. \A s \in stats' : s # new => s \in stats /\ s.name # r
  BY <1>1 DEF PlanOK
<1>5. new.name = r /\ new.status = "DOWNLOADING"
  OBVIOUS
<1> HIDE DEF new
<1>6. FilesTrue'
  BY <1>1, <1>2, <1>3, <1>4, <1>5 DEF AllTrue, FilesTrue, Completed, None, downloadRest
<1>7. merging' = "idle" /\ save'.at = "no" /\ process' = "up" /\ UNCHANGED <<infoFile, info>>
  BY <1>1, <1>2, AskedAt DEF downloadRest, mergeVars, Replaced, SaveOK, SaveRecord
<1>8. SaveTrue' /\ CopyTrue' /\ FailedTrue' /\ MergeIsExact'
  BY <1>7 DEF SaveTrue, CopyTrue, FailedTrue, MergeIsExact
<1>9. InfoIsTrue'
  BY <1>1, <1>2, <1>3, <1>7, InfoElsewhere DEF AllTrue
<1> QED
  BY <1>6, <1>8, <1>9 DEF AllTrue

LEMMA ReceiveKeepsTrue ==
    ASSUME TypesOK, AllTrue, NEW s \in stats, Receive(s), ~stale'
    PROVE  AllTrue'
<1> DEFINE t == [s EXCEPT !.bytes = @ + 1]
<1>1. /\ StatOK(s) /\ s.status = "DOWNLOADING" /\ stats' = (stats \ {s}) \union {t}
      /\ UNCHANGED <<disk, stale, save, downloadRest>> /\ FilesOK /\ StatsOK
  BY DEF Receive, Update, TypesOK, StatsOK
<1>2. s \in Stats
  BY <1>1 DEF StatOK
<1>3. t.range = s.range /\ t.name = s.name /\ t.status = "DOWNLOADING"
  BY <1>1, <1>2 DEF Stats
<1> HIDE DEF t
<1>4. Completed' = Completed
  BY <1>1, <1>3 DEF Completed
<1>5. UNCHANGED <<source, process, merging, left, merged, save, sealed, infoFile, info, searchVars>>
  BY <1>1 DEF downloadRest, mergeVars
<1>6. FilesTrue'
  BY <1>1, <1>3, <1>4, <1>5 DEF AllTrue, FilesTrue
<1>7. SaveTrue'
  BY <1>1, <1>3, <1>4, <1>5 DEF AllTrue, SaveTrue, SizeOf
<1>8. CopyTrue'
  BY <1>1, <1>4, <1>5, CopyGoesOn DEF AllTrue
<1>9. FailedTrue' /\ InfoIsTrue' /\ MergeIsExact'
  BY <1>1, <1>5, TrueFrames
<1> QED
  BY <1>6, <1>7, <1>8, <1>9 DEF AllTrue

\* The bytes of a chunk that is no longer or not yet complete reach its file.
LEMMA FlushElsewhere ==
    ASSUME TypesOK, NEW s \in stats, s.status = "DOWNLOADING", disk' = Flushed(s)
    PROVE  /\ \A x \in Names : x # s.name => disk'[x] = disk[x]
           /\ \A x \in stats : x # s => x.name # s.name /\ disk'[x.name] = disk[x.name]
           /\ \A x \in Completed : x # s
           /\ disk[s.name] # None => disk'[s.name] = s.bytes /\ disk'[s.name] # None
<1>1. FilesOK /\ StatsOK /\ \A x \in stats : x.name \in Names
  BY StatFields DEF TypesOK, StatsOK, FilesOK
<1>2. s.bytes \in Nat
  BY <1>1, StatFields DEF StatsOK, FilesOK
<1>3. \A x \in Names : x # s.name => disk'[x] = disk[x]
  BY <1>1 DEF Flushed, FilesOK
<1>4. \A x \in stats : x # s => x.name # s.name
  BY <1>1 DEF StatsOK
<1>5. disk[s.name] # None => disk'[s.name] = s.bytes
  BY <1>1 DEF Flushed, FilesOK
<1> QED
  BY <1>1, <1>2, <1>3, <1>4, <1>5 DEF Completed, None

LEMMA FlushKeepsTrue ==
    ASSUME TypesOK, AllTrue, NEW s \in stats, FlushBuffer(s), ~stale'
    PROVE  AllTrue'
<1>1. /\ s.status = "DOWNLOADING" /\ disk' = Flushed(s) /\ Touch(s.name) /\ disk[s.name] # None
      /\ process = "up" /\ UNCHANGED <<stats, downloadRest>>
      /\ save' \in Asked(save, s.name) /\ SaveOK
  BY DEF FlushBuffer, Running, TypesOK
<1>2. ~stale /\ ~sealed /\ save.at = "no" /\ \A c \in info : c.name # s.name
  BY <1>1, TouchedBeforeSave
<1>3. /\ UNCHANGED <<source, process, merging, left, merged, sealed, infoFile, info, searchVars>>
      /\ save'.at = "no"
  BY <1>1, <1>2, AskedAt DEF downloadRest, mergeVars
<1>4. /\ \A x \in Names : x # s.name => disk'[x] = disk[x]
      /\ \A x \in stats : x # s => disk'[x.name] = disk[x.name]
      /\ \A x \in Completed : x # s
      /\ disk'[s.name] # None
  BY <1>1, FlushElsewhere
<1>5. Completed' = Completed /\ Completed \subseteq stats
  BY <1>1 DEF Completed
<1>6. FilesTrue'
  BY <1>1, <1>2, <1>3, <1>4, <1>5 DEF AllTrue, FilesTrue
<1>7. SaveTrue'
  BY <1>3 DEF SaveTrue
<1>8. CopyTrue'
  BY <1>3, <1>4, <1>5, CopyGoesOn DEF AllTrue
<1>9. FailedTrue' /\ MergeIsExact'
  BY <1>2, <1>3, TrueFrames
<1>10. InfoIsTrue'
  BY <1>1, <1>2, <1>3, <1>4, InfoElsewhere DEF AllTrue
<1> QED
  BY <1>6, <1>7, <1>8, <1>9, <1>10 DEF AllTrue

LEMMA EndKeepsTrue ==
    ASSUME TypesOK, AllTrue, NEW s \in stats, EndDownload(s), ~stale'
    PROVE  AllTrue'
<1>1. PICK status \in IF s.bytes = TotalBytes(s.range, source) THEN {"COMPLETED"} ELSE {"CANCELLED"} :
         Update(s, [s EXCEPT !.status = status])
  BY DEF EndDownload
<1> DEFINE t == [s EXCEPT !.status = status]
<1>2. /\ s.status = "DOWNLOADING" /\ disk' = Flushed(s) /\ Touch(s.name)
      /\ process = "up" /\ UNCHANGED downloadRest
      /\ save' \in Asked(save, s.name) /\ SaveOK
      /\ stats' = (stats \ {s}) \union {t} /\ s \in Stats
  BY <1>1 DEF EndDownload, Running, Update, TypesOK, StatsOK, StatOK
<1>3. t.name = s.name /\ t.bytes = s.bytes /\ t.status # "DOWNLOADING"
  BY <1>1, <1>2 DEF Stats
<1> HIDE DEF t
<1>4. ~stale /\ ~sealed /\ save.at = "no" /\ \A c \in info : c.name # s.name
  BY <1>2, TouchedBeforeSave
<1>5. /\ UNCHANGED <<source, process, merging, left, merged, sealed, infoFile, info, searchVars>>
      /\ save'.at = "no"
  BY <1>2, <1>4, AskedAt DEF downloadRest, mergeVars
<1>6. /\ \A x \in Names : x # s.name => disk'[x] = disk[x]
      /\ \A x \in stats : x # s => disk'[x.name] = disk[x.name]
      /\ \A x \in Completed : x # s
      /\ disk[s.name] # None => disk'[s.name] = s.bytes
  BY <1>2, FlushElsewhere
<1>7. Completed \subseteq Completed' /\ Completed' \subseteq Completed \union {t} /\ Completed \subseteq stats
  BY <1>2 DEF Completed
<1>8. FilesTrue'
  <2> SUFFICES ASSUME process' = "up", merging' # "merged" \/ save'.at # "no"
               PROVE  /\ \A x \in Completed' : disk'[x.name] = x.bytes
                      /\ \A x \in stats' : x.status = "DOWNLOADING" => disk'[x.name] # None
    BY DEF FilesTrue
  <2>1. /\ \A x \in Completed : disk[x.name] = x.bytes
        /\ \A x \in stats : x.status = "DOWNLOADING" => disk[x.name] # None
    BY <1>4, <1>5 DEF AllTrue, FilesTrue
  <2>2. disk'[s.name] = s.bytes
    BY <1>2, <1>6, <2>1
  <2> QED
    BY <1>2, <1>3, <1>6, <1>7, <2>1, <2>2
<1>9. SaveTrue'
  BY <1>4, <1>5 DEF SaveTrue
<1>10. CopyTrue'
  BY <1>5, <1>6, <1>7, CopyGoesOn DEF AllTrue
<1>11. FailedTrue' /\ MergeIsExact'
  BY <1>4, <1>5, TrueFrames
<1>12. InfoIsTrue'
  BY <1>2, <1>4, <1>5, <1>6, InfoElsewhere DEF AllTrue
<1> QED
  BY <1>8, <1>9, <1>10, <1>11, <1>12 DEF AllTrue

-----------------------------------------------------------------------------
(* Truth: save_info.                                                       *)

LEMMA SaveBeginsKeepsTrue ==
    ASSUME TypesOK, AllTrue, SaveBegins, ~stale'
    PROVE  AllTrue'
<1>1. /\ process = "up" /\ merging = "idle" /\ sealed' = TRUE /\ FilesOK
      /\ save'.at = "statting"
      /\ save'.sizes = [n \in {s.name : s \in stats} |-> SizeOf(n)] /\ save'.old = {}
      /\ UNCHANGED <<disk, infoFile, info, saveRest>>
  BY NoSaveIsOK DEF SaveBegins, Running, TypesOK, SaveRecord
<1>2. UNCHANGED <<source, stats, disk, process, merging, infoFile, info, stale>>
  BY <1>1 DEF saveRest, mergeVars
<1>3. FilesTrue'
  BY <1>1, <1>2 DEF AllTrue, FilesTrue, Completed
<1>4. SaveTrue'
  BY <1>1, <1>2 DEF SaveTrue, SizeOf
<1>5. CopyTrue' /\ FailedTrue' /\ MergeIsExact'
  BY <1>1, <1>2 DEF CopyTrue, FailedTrue, MergeIsExact
<1>6. InfoIsTrue'
  BY <1>2, TrueFrames
<1> QED
  BY <1>3, <1>4, <1>5, <1>6 DEF AllTrue

LEMMA SaveOpensKeepsTrue ==
    ASSUME TypesOK, AllTrue, SaveOpens, ~stale'
    PROVE  AllTrue'
<1>1. /\ process = "up" /\ save.at = "statting" /\ FilesOK /\ StatsOK /\ SaveOK
      /\ save'.at = "writing" /\ save.old = {}
      /\ save'.dto = {Entry(s) : s \in {t \in {u \in stats : u.range \in save.list} : Kept(t)}}
      /\ save'.doomed = {s.name : s \in {t \in {u \in stats : u.range \in save.list} : Useless(t)}}
      /\ infoFile' = "torn" /\ info' = {}
      /\ UNCHANGED <<disk, sealed, saveRest>>
  <2>1. save.at = "statting" /\ save.old = {}
    BY DEF SaveOpens, AllTrue, SaveTrue
  <2>2. {s \in stats : s.range \in save.list} \union save.old = {s \in stats : s.range \in save.list}
    BY <2>1
  <2> QED
    BY <2>1, <2>2, NoSaveIsOK DEF SaveOpens, Running, TypesOK, SaveRecord
<1>2. UNCHANGED <<source, stats, disk, process, merging, left, merged, searchVars, sealed, stale>> /\ sealed
  BY <1>1 DEF saveRest, mergeVars, SaveOK
<1>3. \A s \in stats : Kept(s) => Entry(s).name = s.name /\ Entry(s).bytes = s.bytes
  BY <1>1, EntryIsOK DEF StatsOK, FilesOK, Kept
<1>4. \A s \in stats : s.bytes \in Nat
  BY <1>1, StatFields DEF StatsOK, FilesOK
<1>5. \A s \in stats : s.range \in save.list /\ Kept(s) => disk[s.name] = s.bytes
  BY <1>1, <1>4 DEF AllTrue, SaveTrue, SizeOf, Kept
<1>6. \A s \in Completed : s.range \in save.list => ~Useless(s)
  <2> SUFFICES ASSUME NEW s \in Completed, s.range \in save.list
               PROVE  ~Useless(s)
    OBVIOUS
  <2>1. disk[s.name] = s.bytes /\ s \in stats /\ s.status = "COMPLETED"
    BY <1>1 DEF AllTrue, FilesTrue, Completed
  <2>2. save.sizes[s.name] = s.bytes
    BY <1>1, <1>4, <2>1 DEF AllTrue, SaveTrue, SizeOf, None
  <2> QED
    BY <1>4, <2>1, <2>2 DEF Useless, Kept
<1>7. SaveTrue'
  <2>1. \A c \in save'.dto : disk'[c.name] = c.bytes
    BY <1>1, <1>2, <1>3, <1>5
  <2>2. \A c \in save'.dto : c.name \notin save'.doomed
    <3> SUFFICES ASSUME NEW s \in stats, Kept(s), NEW t \in stats, Useless(t)
                 PROVE  s.name # t.name
      BY <1>1, <1>3
    <3> QED
      BY <1>1 DEF StatsOK, Useless
  <2>3. \A s \in Completed' : s.name \notin save'.doomed
    <3> SUFFICES ASSUME NEW s \in Completed, NEW t \in stats, t.range \in save.list, Useless(t)
                 PROVE  s.name # t.name
      BY <1>1, <1>2 DEF Completed
    <3> QED
      BY <1>1, <1>6 DEF StatsOK, Completed
  <2> QED
    BY <1>1, <2>1, <2>2, <2>3 DEF SaveTrue
<1>8. FilesTrue'
  BY <1>1, <1>2 DEF AllTrue, FilesTrue, Completed
<1>9. CopyTrue' /\ FailedTrue' /\ MergeIsExact'
  BY <1>2, TrueFrames
<1>10. InfoIsTrue'
  BY <1>1, <1>2 DEF InfoIsTrue, Readable
<1> QED
  BY <1>7, <1>8, <1>9, <1>10 DEF AllTrue

LEMMA SaveWritesKeepsTrue ==
    ASSUME TypesOK, AllTrue, SaveWrites, ~stale'
    PROVE  AllTrue'
<1>1. /\ process = "up" /\ save.at = "writing" /\ SaveOK
      /\ infoFile' = "whole" /\ info' = save.dto /\ save' = [save EXCEPT !.at = "deleting"]
      /\ UNCHANGED <<disk, sealed, saveRest>>
  BY DEF SaveWrites, Running, TypesOK
<1>2. UNCHANGED <<source, stats, disk, process, merging, left, merged, searchVars, sealed, stale>>
  BY <1>1 DEF saveRest, mergeVars
<1>3. save'.at = "deleting" /\ save'.dto = save.dto /\ save'.doomed = save.doomed
  BY <1>1, SaveFields
<1>4. SaveTrue'
  BY <1>1, <1>2, <1>3 DEF AllTrue, SaveTrue, Completed
<1>5. FilesTrue'
  BY <1>1, <1>2, <1>3 DEF AllTrue, FilesTrue, Completed
<1>6. CopyTrue' /\ FailedTrue' /\ MergeIsExact'
  BY <1>2, TrueFrames
<1>7. InfoIsTrue'
  BY <1>1, <1>2 DEF AllTrue, SaveTrue, InfoIsTrue
<1> QED
  BY <1>4, <1>5, <1>6, <1>7 DEF AllTrue

LEMMA SaveEndsKeepsTrue ==
    ASSUME TypesOK, AllTrue, SaveEnds, ~stale'
    PROVE  AllTrue'
<1>1. PICK gone \in SUBSET save.doomed :
         disk' = [n \in Names |-> IF n \in gone THEN None ELSE disk[n]]
  BY DEF SaveEnds
<1>2. /\ process = "up" /\ save.at = "deleting" /\ save' = NoSave /\ FilesOK /\ StatsOK /\ SaveOK /\ InfoOK
      /\ UNCHANGED <<infoFile, info, sealed, saveRest>>
  BY DEF SaveEnds, Running, TypesOK
<1>3. UNCHANGED <<source, stats, process, merging, left, merged, searchVars, sealed, stale, infoFile, info>>
      /\ sealed /\ save'.at = "no"
  BY <1>2, NoSaveIsOK DEF saveRest, mergeVars, SaveOK
<1>4. \A s \in Completed : s.name \in Names /\ s.name \notin save.doomed
  BY <1>2, StatFields DEF AllTrue, SaveTrue, Completed, StatsOK, FilesOK
<1>5. \A s \in Completed : disk'[s.name] = disk[s.name]
  BY <1>1, <1>4
<1>6. Completed' = Completed
  BY <1>3 DEF Completed
<1>7. FilesTrue'
  BY <1>2, <1>3, <1>5, <1>6 DEF AllTrue, FilesTrue
<1>8. SaveTrue'
  BY <1>3 DEF SaveTrue
<1>9. CopyTrue'
  BY <1>3, <1>5, <1>6, CopyGoesOn DEF AllTrue
<1>10. FailedTrue' /\ MergeIsExact'
  BY <1>3, TrueFrames
<1>11. InfoIsTrue'
  <2>1. \A c \in info : c.name \in Names /\ c.name \notin save.doomed /\ disk[c.name] = c.bytes
    BY <1>2, EntryFields DEF AllTrue, SaveTrue, InfoOK, Entries, FilesOK
  <2> QED
    BY <1>1, <1>2, <1>3, <2>1 DEF InfoIsTrue
<1> QED
  BY <1>7, <1>8, <1>9, <1>10, <1>11 DEF AllTrue

-----------------------------------------------------------------------------
(* Truth: crashes, recoveries and the end of a download.                   *)

LEMMA KillKeepsTrue ==
    ASSUME TypesOK, AllTrue, Kill, ~stale'
    PROVE  AllTrue'
<1>1. /\ process' = "down" /\ save' = NoSave /\ merging' = "idle"
      /\ UNCHANGED <<source, disk, infoFile, info, stale>>
  BY DEF Kill
<1>2. FilesTrue' /\ SaveTrue' /\ CopyTrue' /\ FailedTrue' /\ MergeIsExact'
  BY <1>1, NoSaveIsOK DEF FilesTrue, SaveTrue, CopyTrue, FailedTrue, MergeIsExact
<1>3. InfoIsTrue'
  BY <1>1 DEF AllTrue, InfoIsTrue, Readable
<1> QED
  BY <1>2, <1>3 DEF AllTrue

LEMMA LoadKeepsTrue ==
    ASSUME TypesOK, AllTrue, Load, ~stale'
    PROVE  AllTrue'
<1>1. PICK one \in SUBSET Recovered : stats' = {RecoveredStats(c) : c \in one}
  BY DEF Load
<1>2. /\ process = "down" /\ process' = "up" /\ UNCHANGED loadRest /\ FilesOK /\ InfoOK
      /\ merging = "idle" /\ save.at = "no"
  BY DEF Load, TypesOK, PhaseOK, SaveOK
<1>3. UNCHANGED <<source, disk, merging, save, infoFile, info, stale>>
  BY <1>2 DEF loadRest, mergeVars
<1>4. \A c \in one : disk[c.name] = c.bytes
  BY <1>2, <1>3 DEF AllTrue, InfoIsTrue, Recovered
<1>5. \A c \in one : /\ RecoveredStats(c).name = c.name /\ RecoveredStats(c).bytes = c.bytes
                     /\ RecoveredStats(c).status = "COMPLETED"
  BY DEF RecoveredStats
<1>6. FilesTrue'
  BY <1>1, <1>3, <1>4, <1>5 DEF FilesTrue, Completed
<1>7. SaveTrue' /\ CopyTrue' /\ FailedTrue' /\ MergeIsExact'
  BY <1>2, <1>3 DEF SaveTrue, CopyTrue, FailedTrue, MergeIsExact
<1>8. InfoIsTrue'
  BY <1>2, <1>3 DEF AllTrue, InfoIsTrue, Readable
<1> QED
  BY <1>6, <1>7, <1>8 DEF AllTrue

LEMMA CleanUpKeepsTrue ==
    ASSUME TypesOK, AllTrue, CleanUp, ~stale'
    PROVE  AllTrue'
<1>1. /\ process = "up" /\ merging = "merged" /\ save.at = "no" /\ ~Readable /\ ~stale
      /\ UNCHANGED <<process, infoFile, info, endRest>>
  BY DEF CleanUp
<1>2. UNCHANGED <<source, process, merging, merged, save, infoFile, info, searchVars>>
  BY <1>1 DEF endRest, mergeVars
<1>3. FilesTrue' /\ SaveTrue' /\ CopyTrue'
  BY <1>1, <1>2 DEF FilesTrue, SaveTrue, CopyTrue
<1>4. FailedTrue' /\ MergeIsExact'
  BY <1>1, <1>2, TrueFrames
<1>5. InfoIsTrue'
  BY <1>1, <1>2 DEF InfoIsTrue, Readable
<1> QED
  BY <1>3, <1>4, <1>5 DEF AllTrue

LEMMA DeleteInfoKeepsTrue ==
    ASSUME TypesOK, AllTrue, DeleteInfo, ~stale'
    PROVE  AllTrue'
<1>1. /\ process = "up" /\ save.at = "no" /\ infoFile' = "none" /\ info' = {}
      /\ UNCHANGED <<process, disk, stale, endRest>>
  BY DEF DeleteInfo
<1>2. UNCHANGED <<source, process, merging, merged, left, save, disk, stats, sealed, searchVars, stale>>
  BY <1>1 DEF endRest, mergeVars
<1>3. FilesTrue' /\ CopyTrue' /\ FailedTrue' /\ MergeIsExact'
  BY <1>2, TrueFrames
<1>4. SaveTrue' /\ InfoIsTrue'
  BY <1>1, <1>2 DEF SaveTrue, InfoIsTrue
<1> QED
  BY <1>3, <1>4 DEF AllTrue

\* Where there is a recovery file a purge makes it stale, and where there is
\* none it deletes nothing.
LEMMA PurgeFilesKeepsTrue ==
    ASSUME TypesOK, AllTrue, PurgeFiles, ~stale'
    PROVE  AllTrue'
<1>1. /\ process' = "purging" /\ save.at = "no" /\ merging = "idle" /\ ~Readable
      /\ UNCHANGED <<infoFile, info, endRest>>
  BY DEF PurgeFiles, TypesOK
<1>2. save'.at = "no" /\ merging' = "idle" /\ ~Readable'
  BY <1>1 DEF endRest, mergeVars, Readable
<1> QED
  BY <1>1, <1>2 DEF AllTrue, FilesTrue, SaveTrue, CopyTrue, FailedTrue, MergeIsExact, InfoIsTrue

LEMMA PurgeInfoKeepsTrue ==
    ASSUME TypesOK, AllTrue, PurgeInfo, ~stale'
    PROVE  AllTrue'
<1>1. /\ process = "purging" /\ process' = "gone" /\ merging = "idle" /\ save.at = "no"
      /\ UNCHANGED <<disk, stale, endRest>>
      /\ infoFile' = "none" \/ UNCHANGED <<infoFile, info>>
  BY DEF PurgeInfo, TypesOK, PhaseOK, SaveOK
<1>2. merging' = "idle" /\ save'.at = "no"
  BY <1>1 DEF endRest, mergeVars
<1>3. InfoIsTrue'
  BY <1>1 DEF AllTrue, InfoIsTrue, Readable
<1> QED
  BY <1>1, <1>2, <1>3 DEF AllTrue, FilesTrue, SaveTrue, CopyTrue, FailedTrue, MergeIsExact

-----------------------------------------------------------------------------
(* Truth: the merge.                                                       *)

\* Two sequences of numbers that go on from one another.
LEMMA Joined ==
    ASSUME NEW a \in Nat, NEW k \in Nat, NEW s \in Seq(Int), NEW t \in Seq(Int),
           Len(s) = a, Len(t) = k,
           \A i \in 1..a : s[i] = i - 1,
           \A i \in 1..k : t[i] = a + i - 1
    PROVE  /\ s \o t \in Seq(Int) /\ Len(s \o t) = a + k
           /\ \A i \in 1..a + k : (s \o t)[i] = i - 1
<1>1. /\ s \o t \in Seq(Int) /\ Len(s \o t) = Len(s) + Len(t)
      /\ \A i \in 1..Len(s) + Len(t) :
            (s \o t)[i] = IF i <= Len(s) THEN s[i] ELSE t[i - Len(s)]
  BY ConcatProperties
<1> DEFINE both == s \o t
<1>2. /\ both \in Seq(Int) /\ Len(both) = a + k
      /\ \A i \in 1..a + k : both[i] = IF i <= a THEN s[i] ELSE t[i - a]
  BY <1>1
<1> HIDE DEF both
<1>3. \A i \in 1..a + k : both[i] = i - 1
  <2> SUFFICES ASSUME NEW i \in 1..a + k
               PROVE  both[i] = i - 1
    OBVIOUS
  <2>1. CASE i <= a
    BY <1>2, <2>1
  <2>2. CASE a < i
    <3>1. i - a \in 1..k
      BY <2>2
    <3>2. t[i - a] = i - 1
      BY <3>1
    <3> QED
      BY <1>2, <2>2, <3>2
  <2> QED
    BY <2>1, <2>2
<1> QED
  BY <1>2, <1>3 DEF both

LEMMA RunsJoin ==
    ASSUME NEW a \in Nat, NEW k \in Nat
    PROVE  /\ Run(0, a) \o Run(a, k) = Run(0, a + k)
           /\ Len(Run(0, a + k)) = a + k /\ Len(Run(0, a)) = a
<1> DEFINE s == Run(0, a)
           t == Run(a, k)
           u == Run(0, a + k)
<1>1. s \in Seq(Int) /\ Len(s) = a /\ \A i \in 1..a : s[i] = i - 1
  BY DEF Run
<1>2. t \in Seq(Int) /\ Len(t) = k /\ \A i \in 1..k : t[i] = a + i - 1
  BY DEF Run
<1>3. u \in Seq(Int) /\ Len(u) = a + k /\ \A i \in 1..a + k : u[i] = i - 1
  BY DEF Run
<1> HIDE DEF s, t, u
<1> DEFINE both == s \o t
<1>4. both \in Seq(Int) /\ Len(both) = a + k /\ \A i \in 1..a + k : both[i] = i - 1
  BY <1>1, <1>2, Joined
<1> HIDE DEF both
<1>5. both = u
  BY <1>3, <1>4
<1> QED
  BY <1>1, <1>3, <1>5 DEF both, s, t, u

LEMMA MergeKeepsFiles ==
    ASSUME TypesOK, AllTrue, ~stale, UNCHANGED <<fileVars, save, recVars>>, process = "up",
           merging # "merged"
    PROVE  FilesTrue' /\ SaveTrue' /\ InfoIsTrue'
<1>1. UNCHANGED <<source, process, disk, stats, save, sealed, infoFile, info>>
  BY DEF fileVars, recVars
<1>2. SaveTrue' /\ InfoIsTrue'
  BY <1>1, TrueFrames
<1>3. FilesTrue'
  BY <1>1 DEF AllTrue, FilesTrue, Completed
<1> QED
  BY <1>2, <1>3

LEMMA BeginMergeKeepsTrue ==
    ASSUME TypesOK, AllTrue, ~stale, BeginMerge, process = "up", UNCHANGED <<save, recVars>>
    PROVE  AllTrue'
<1>1. merging = "idle" /\ UNCHANGED fileVars /\ merging' \in {"failed", "covering"}
  BY DEF BeginMerge
<1>2. FilesTrue' /\ SaveTrue' /\ InfoIsTrue'
  BY <1>1, MergeKeepsFiles
<1>3. CopyTrue' /\ MergeIsExact'
  BY <1>1 DEF CopyTrue, MergeIsExact
<1>4. FailedTrue'
  BY <1>1 DEF FailedTrue, BeginMerge, TypesOK, PhaseOK, searchVars
<1> QED
  BY <1>2, <1>3, <1>4 DEF AllTrue

LEMMA RefuseKeepsTrue ==
    ASSUME TypesOK, AllTrue, ~stale, Refuse, process = "up", UNCHANGED <<save, recVars>>
    PROVE  AllTrue'
<1>1. /\ merging = "covering" /\ outcome = "gap" /\ merging' = "failed"
      /\ UNCHANGED <<fileVars, searchVars, left, merged>>
  BY DEF Refuse
<1>2. FilesTrue' /\ SaveTrue' /\ InfoIsTrue'
  BY <1>1, MergeKeepsFiles
<1>3. CopyTrue' /\ MergeIsExact' /\ FailedTrue'
  BY <1>1 DEF CopyTrue, MergeIsExact, FailedTrue, searchVars
<1> QED
  BY <1>2, <1>3 DEF AllTrue

LEMMA SearchKeepsTrue ==
    ASSUME TypesOK, AllTrue, ~stale, merging = "covering", UNCHANGED <<fileVars, mergeVars>>,
           process = "up", UNCHANGED <<save, recVars>>
    PROVE  AllTrue'
<1>1. FilesTrue' /\ SaveTrue' /\ InfoIsTrue'
  BY MergeKeepsFiles
<1>2. CopyTrue' /\ MergeIsExact' /\ FailedTrue'
  BY DEF CopyTrue, MergeIsExact, FailedTrue, mergeVars
<1> QED
  BY <1>1, <1>2 DEF AllTrue

\* The file of a fragment holds its bytes where the search takes them to be.
LEMMA FragmentIsThere ==
    ASSUME TypesOK, FilesTrue, process = "up", merging = "covering", NEW f \in Fragment, Fits(f)
    PROVE  /\ Config(f).name.start = f.range.start
           /\ Upto(Config(f)) = IF Stop(f) = None THEN source ELSE Stop(f)
           /\ \E s \in Completed : /\ Config(f).name = s.name
                                   /\ Config(f).limit # None => Config(f).limit <= s.bytes
<1>1. /\ FilesOK /\ StatsOK /\ source \in Nat /\ size \in {None, source}
      /\ chunks = {s.range : s \in Completed}
  BY DEF TypesOK, PhaseOK, FilesOK
<1>2. PICK s \in Completed : s.range = f.range /\ Config(f) = [name |-> s.name, limit |-> f.limit]
  BY <1>1, ChosenStat DEF Fits
<1>3. /\ StatOK(s) /\ s.bytes = TotalBytes(f.range, source) /\ disk[s.name] = s.bytes
  BY <1>1, <1>2 DEF StatsOK, StatOK, Completed, FilesTrue
<1>4. /\ s.name.start = f.range.start /\ s.bytes \in Nat
      /\ f.range.start \in Nat /\ f.range.end \in Nat \union {None}
      /\ f.limit \in Nat \union {None}
  BY <1>1, <1>2, <1>3, StatFields, FragmentFields
<1>5. /\ Config(f).name = s.name /\ Config(f).limit = f.limit
  BY <1>2
<1>6. Upto(Config(f)) = f.range.start + IF f.limit # None THEN f.limit ELSE s.bytes
  BY <1>3, <1>4, <1>5 DEF Upto
<1>7. f.limit # None => f.range.end # None /\ f.limit <= s.bytes
  BY <1>3, <1>4 DEF Fits, TotalBytes, None
<1>8. CASE f.limit # None
  BY <1>2, <1>4, <1>5, <1>6, <1>7, <1>8 DEF Stop, None
<1>9. CASE f.limit = None /\ f.range.end # None
  BY <1>2, <1>3, <1>4, <1>5, <1>6, <1>9 DEF Stop, TotalBytes, None
<1>10. CASE f.limit = None /\ f.range.end = None
  BY <1>1, <1>2, <1>3, <1>4, <1>5, <1>6, <1>10 DEF Stop, TotalBytes, None
<1> QED
  BY <1>8, <1>9, <1>10

LEMMA OpenMergedKeepsTrue ==
    ASSUME TypesOK, AllTrue, ~stale, OpenMerged, process = "up", UNCHANGED <<save, recVars>>
    PROVE  AllTrue'
<1>1. /\ merging = "covering" /\ merging' = "copying" /\ outcome = "path"
      /\ left' = [i \in 1..Len(path) |-> Config(path[i])] /\ merged' = <<>>
      /\ UNCHANGED <<source, disk, stats>> /\ UNCHANGED <<fileVars, searchVars>>
  BY DEF OpenMerged, fileVars
<1>2. FilesTrue' /\ SaveTrue' /\ InfoIsTrue'
  BY <1>1, MergeKeepsFiles
<1>3. MergeIsExact' /\ FailedTrue'
  BY <1>1 DEF MergeIsExact, FailedTrue
<1>4. /\ path \in Seq(Fragment) /\ Meets(path, size) /\ AllFit(path)
      /\ source \in Nat /\ size \in {None, source} /\ FilesTrue
  BY <1>1 DEF TypesOK, SearchInvariant, SearchTypeOK, FragmentsFit, PhaseOK, FilesOK, AllTrue
<1>5. \A i \in 1..Len(path) :
         /\ path[i] \in Fragment
         /\ left'[i].name.start = path[i].range.start
         /\ Upto(left'[i]) = IF Stop(path[i]) = None THEN source ELSE Stop(path[i])
         /\ \E s \in Completed : /\ left'[i].name = s.name
                                 /\ left'[i].limit # None => left'[i].limit <= s.bytes
  <2> SUFFICES ASSUME NEW i \in 1..Len(path)
               PROVE  /\ path[i] \in Fragment
                      /\ left'[i].name.start = path[i].range.start
                      /\ Upto(left'[i]) = IF Stop(path[i]) = None THEN source ELSE Stop(path[i])
                      /\ \E s \in Completed : /\ left'[i].name = s.name
                                              /\ left'[i].limit # None => left'[i].limit <= s.bytes
    OBVIOUS
  <2>1. path[i] \in Fragment /\ Fits(path[i]) /\ left'[i] = Config(path[i])
    BY <1>1, <1>4 DEF AllFit
  <2> QED
    BY <1>1, <1>4, <2>1, FragmentIsThere
<1>6. Len(left') = Len(path) /\ Len(path) \in Nat /\ (left' = <<>> <=> path = <<>>)
  BY <1>1, <1>4
<1>7. Completed' = Completed
  BY <1>1 DEF Completed
<1>8. \A i \in 1..Len(left') : \E s \in Completed' :
         left'[i].name = s.name /\ (left'[i].limit # None => left'[i].limit <= s.bytes)
  <2> SUFFICES ASSUME NEW i \in 1..Len(path)
               PROVE  \E s \in Completed :
                         left'[i].name = s.name /\ (left'[i].limit # None => left'[i].limit <= s.bytes)
    BY <1>6, <1>7, Zenon
  <2>1. PICK s \in Completed : /\ left'[i].name = s.name
                               /\ left'[i].limit # None => left'[i].limit <= s.bytes
    BY <1>5
  <2> QED
    BY <2>1, Zenon
<1>9. merged' = Run(0, Len(merged'))  /\ Len(merged') = 0
  BY <1>1 DEF Run
<1>10. left' = <<>> => Len(merged') = source'
  BY <1>1, <1>4, <1>6, <1>9 DEF Meets, None
<1>11. left' # <<>> => left'[1].name.start = Len(merged')
  <2> SUFFICES ASSUME path # <<>>
               PROVE  left'[1].name.start = 0
    BY <1>6, <1>9
  <2>1. 1 \in 1..Len(path) /\ path[1].range.start = 0
    BY <1>4, <1>6 DEF Meets
  <2> QED
    BY <1>5, <2>1
<1>12. \A i \in 1..Len(path) : left[i]' = left'[i] /\ Upto(left[i])' = Upto(left'[i])
  BY <1>1 DEF Upto
<1>13. left' # <<>> => Upto(left[Len(left)])' = source'
  <2> SUFFICES ASSUME path # <<>>
               PROVE  Upto(left'[Len(path)]) = source
    BY <1>1, <1>6, <1>12 DEF Upto
  <2>1. Len(path) \in 1..Len(path) /\ Stop(path[Len(path)]) = size
    BY <1>4, <1>6 DEF Meets
  <2> QED
    BY <1>4, <1>5, <2>1 DEF None
<1>14. \A i \in 1..Len(left') - 1 : Upto(left[i])' = left'[i + 1].name.start
  <2> SUFFICES ASSUME NEW i \in 1..Len(path) - 1
               PROVE  Upto(left'[i]) = left'[i + 1].name.start
    BY <1>6, <1>12
  <2>1. i \in 1..Len(path) /\ i + 1 \in 1..Len(path) /\ path # <<>>
    BY <1>4
  <2>2. Stop(path[i]) = path[i + 1].range.start
    BY <1>4, <2>1 DEF Meets
  <2>3. path[i + 1].range.start \in Nat
    BY <1>5, <2>1, FragmentFields, RangeFields
  <2> QED
    BY <1>5, <2>1, <2>2, <2>3 DEF None
<1>15. CopyTrue'
  BY <1>8, <1>9, <1>10, <1>11, <1>13, <1>14 DEF CopyTrue
<1> QED
  BY <1>2, <1>3, <1>15 DEF AllTrue

LEMMA TailOf ==
    ASSUME NEW S, NEW s \in Seq(S), s # <<>>
    PROVE  /\ Len(Tail(s)) = Len(s) - 1
           /\ \A i \in 1..Len(s) - 1 : Tail(s)[i] = s[i + 1]
           /\ Tail(s) = <<>> <=> Len(s) = 1
           /\ Len(s) \in Nat \ {0} /\ 1 \in 1..Len(s)
           /\ Len(s) # 1 => 1 \in 1..Len(s) - 1 /\ Len(s) - 1 \in 1..Len(s) - 1
<1>1. Len(s) \in Nat \ {0}
  OBVIOUS
<1>2. Len(Tail(s)) = Len(s) - 1 /\ Tail(s) \in Seq(S)
  OBVIOUS
<1>3. \A i \in 1..Len(s) - 1 : Tail(s)[i] = s[i + 1]
  OBVIOUS
<1>4. Tail(s) = <<>> <=> Len(s) = 1
  <2> DEFINE t == Tail(s)
  <2>1. t \in Seq(S) /\ Len(t) = Len(s) - 1
    BY <1>2
  <2> HIDE DEF t
  <2>2. t = <<>> <=> Len(t) = 0
    BY <2>1, EmptySeq
  <2>3. t = <<>> <=> Len(s) = 1
    BY <1>1, <2>1, <2>2
  <2> QED
    BY <2>3 DEF t
<1> QED
  BY <1>1, <1>2, <1>3, <1>4

LEMMA CopyNextKeepsTrue ==
    ASSUME TypesOK, AllTrue, ~stale, CopyNext, process = "up", UNCHANGED <<save, recVars>>
    PROVE  AllTrue'
<1> DEFINE first == left[1]
           a     == Len(merged)
           k     == Copied(left[1])
<1>1. /\ merging = "copying" /\ left # <<>> /\ disk[Head(left).name] # None
      /\ merged' = merged \o Run(Head(left).name.start, Copied(Head(left)))
      /\ left' = Tail(left)
      /\ UNCHANGED <<source, disk, stats, merging>> /\ UNCHANGED <<fileVars, searchVars>>
  BY DEF CopyNext, Copied, fileVars
<1>2. /\ CopyTrue /\ FilesTrue /\ CopyOK /\ FilesOK /\ StatsOK
  BY DEF AllTrue, TypesOK
<1>3. FilesTrue' /\ SaveTrue' /\ InfoIsTrue'
  BY <1>1, MergeKeepsFiles
<1>4. MergeIsExact' /\ FailedTrue'
  BY <1>1 DEF MergeIsExact, FailedTrue
<1>5. /\ Head(left) = first /\ first.name.start = a /\ first.name.start \in Nat
      /\ first.limit \in Nat \union {None} /\ disk[first.name] \in Nat /\ k \in Nat /\ a \in Nat
  BY <1>1, <1>2, CopiedBytes DEF CopyTrue
<1>6. /\ Len(left) \in Nat /\ Len(left) # 0 /\ 1 \in 1..Len(left)
      /\ Len(left) # 1 => 1 \in 1..Len(left) - 1 /\ Len(left) - 1 \in 1..Len(left) - 1
  BY <1>1, <1>2, TailOf DEF CopyOK
<1>7. Upto(first) = a + k
  <2>1. PICK s \in Completed : /\ first.name = s.name
                               /\ first.limit # None => first.limit <= s.bytes
    BY <1>1, <1>2, <1>6 DEF CopyTrue
  <2>2. disk[first.name] = s.bytes
    BY <1>1, <1>2, <2>1 DEF FilesTrue
  <2> QED
    BY <1>5, <2>1, <2>2 DEF Upto, Copied
<1>8. merged = Run(0, a)
  BY <1>1, <1>2 DEF CopyTrue
<1> HIDE DEF first, a, k
<1>9. merged' = Run(0, a) \o Run(a, k)
  BY <1>1, <1>5, <1>8 DEF first, k
<1>10. merged' = Run(0, a + k) /\ Len(merged') = a + k
  BY <1>5, <1>9, RunsJoin
<1>11. /\ Len(left') = Len(left) - 1
       /\ \A i \in 1..Len(left) - 1 : left'[i] = left[i + 1]
       /\ left' = <<>> <=> Len(left) = 1
  BY <1>1, <1>2, TailOf DEF CopyOK
<1>12. Completed' = Completed
  BY <1>1 DEF Completed
<1>13. merged' = Run(0, Len(merged'))
  BY <1>10
<1>14. \A i \in 1..Len(left') : \E s \in Completed' :
          left'[i].name = s.name /\ (left'[i].limit # None => left'[i].limit <= s.bytes)
  <2> SUFFICES ASSUME NEW i \in 1..Len(left) - 1
               PROVE  \E s \in Completed :
                         left'[i].name = s.name /\ (left'[i].limit # None => left'[i].limit <= s.bytes)
    BY <1>11, <1>12, Zenon
  <2>1. i + 1 \in 1..Len(left) /\ left'[i] = left[i + 1]
    BY <1>6, <1>11
  <2> QED
    BY <1>1, <1>2, <2>1 DEF CopyTrue
<1>15. /\ Upto(left[Len(left)]) = source
       /\ \A i \in 1..Len(left) - 1 : Upto(left[i]) = left[i + 1].name.start
  BY <1>1, <1>2 DEF CopyTrue
<1>16. left' = <<>> => Len(merged') = source'
  BY <1>1, <1>7, <1>10, <1>11, <1>15 DEF first
<1>17. \A i \in 1..Len(left) - 1 : Upto(left[i])' = Upto(left[i + 1])
  BY <1>1, <1>11 DEF Upto
<1>18. left' # <<>> => left'[1].name.start = Len(merged')
  <2> SUFFICES ASSUME Len(left) # 1
               PROVE  left'[1].name.start = a + k
    BY <1>10, <1>11
  <2>1. 1 \in 1..Len(left) - 1
    BY <1>6
  <2>2. left'[1] = left[1 + 1] /\ Upto(left[1]) = left[1 + 1].name.start
    BY <1>11, <1>15, <2>1
  <2> QED
    BY <1>7, <2>2 DEF first
<1>19. left' # <<>> => Upto(left[Len(left)])' = source'
  <2> SUFFICES ASSUME Len(left) # 1
               PROVE  Upto(left[Len(left)])' = source
    BY <1>1, <1>11
  <2>1. Len(left') \in 1..Len(left) - 1 /\ left'[Len(left')] = left[Len(left)]
    BY <1>6, <1>11
  <2> QED
    BY <1>1, <1>15, <2>1 DEF Upto
<1>20. \A i \in 1..Len(left') - 1 : Upto(left[i])' = left'[i + 1].name.start
  <2> SUFFICES ASSUME NEW i \in 1..Len(left) - 2
               PROVE  Upto(left[i])' = left'[i + 1].name.start
    BY <1>6, <1>11
  <2>1. i \in 1..Len(left) - 1 /\ i + 1 \in 1..Len(left) - 1
    BY <1>6
  <2>2. Upto(left[i])' = Upto(left[i + 1]) /\ left'[i + 1] = left[(i + 1) + 1]
    BY <1>11, <1>17, <2>1
  <2> QED
    BY <1>15, <2>1, <2>2
<1>21. CopyTrue'
  BY <1>13, <1>14, <1>16, <1>18, <1>19, <1>20 DEF CopyTrue
<1> QED
  BY <1>3, <1>4, <1>21 DEF AllTrue

\* The files of complete chunks are all there.
LEMMA NoSourceMissing ==
    ASSUME TypesOK, AllTrue, SourceMissing, process = "up"
    PROVE  FALSE
<1>1. /\ merging = "copying" /\ left # <<>> /\ disk[Head(left).name] = None
      /\ CopyTrue /\ FilesTrue /\ StatsOK /\ FilesOK /\ left \in Seq(ConfigRecord)
  BY DEF SourceMissing, AllTrue, TypesOK, CopyOK
<1>2. 1 \in 1..Len(left) /\ Head(left) = left[1]
  BY <1>1
<1>3. PICK s \in Completed : left[1].name = s.name
  BY <1>1, <1>2 DEF CopyTrue
<1>4. disk[s.name] = s.bytes /\ StatOK(s) /\ source \in Nat
  BY <1>1, <1>3 DEF FilesTrue, StatsOK, FilesOK, Completed
<1>5. s.bytes \in Nat
  BY <1>4, StatFields
<1> QED
  BY <1>1, <1>2, <1>3, <1>4, <1>5 DEF None

LEMMA EndMergeKeepsTrue ==
    ASSUME TypesOK, AllTrue, ~stale, EndMerge, process = "up", UNCHANGED <<save, recVars>>
    PROVE  AllTrue'
<1>1. /\ merging = "copying" /\ merging' = "merged" /\ left = <<>>
      /\ UNCHANGED <<source, merged>> /\ UNCHANGED fileVars
  BY DEF EndMerge, fileVars
<1>2. FilesTrue' /\ SaveTrue' /\ InfoIsTrue'
  BY <1>1, MergeKeepsFiles
<1>3. merged = Run(0, source)
  BY <1>1 DEF AllTrue, CopyTrue
<1>4. CopyTrue' /\ FailedTrue' /\ MergeIsExact'
  BY <1>1, <1>3 DEF CopyTrue, FailedTrue, MergeIsExact, Run
<1> QED
  BY <1>2, <1>4 DEF AllTrue

-----------------------------------------------------------------------------
(* Initially, and at every step.                                           *)

LEMMA InitTrue == Init => AllTrue
<1> SUFFICES ASSUME Init
             PROVE  AllTrue
  OBVIOUS
<1>1. /\ merging = "idle" /\ save.at = "no" /\ infoFile = "none" /\ process = "up"
      /\ sealed = FALSE
  BY DEF Init, NoSave
<1>0. PICK p \in Plans \union Finished :
         \E known \in {None, p.size} :
            \E done \in SUBSET p.ranges, toDo \in SUBSET p.ranges :
               InitFiles(p.size, known, done, toDo) /\ (done = {} \/ toDo = {})
  BY InitCases
<1>2. PICK known \in {None, p.size}, done \in SUBSET p.ranges, toDo \in SUBSET p.ranges :
         InitFiles(p.size, known, done, toDo) /\ (done = {} \/ toDo = {})
  BY <1>0
<1>3. p.ranges \subseteq Names
  BY RecoveryAssumption
<1>4. \A s \in stats : \E r \in done :
         /\ s.name = r /\ s.bytes = TotalBytes(r, p.size) /\ s.status = "COMPLETED"
  BY <1>2 DEF InitFiles
<1>5. \A r \in done : disk[r] = TotalBytes(r, p.size)
  BY <1>2, <1>3 DEF InitFiles
<1>6. FilesTrue
  BY <1>4, <1>5 DEF FilesTrue, Completed
<1> QED
  BY <1>1, <1>6 DEF AllTrue, SaveTrue, CopyTrue, FailedTrue, InfoIsTrue,
                    MergeIsExact, Readable

\* A recovery file that is out of date stays out of date.
LEMMA StaleForGood ==
    ASSUME Next, stale
    PROVE  stale'
BY DEF Next, Start, Receive, FlushBuffer, EndDownload, Touch, SaveBegins, SaveOpens, SaveWrites,
       SaveEnds, Kill, Load, CleanUp, DeleteInfo, PurgeFiles, PurgeInfo, MergeStep,
       downloadRest, saveRest, loadRest, endRest, recVars

LEMMA StepTrue ==
    ASSUME TypesOK, AllTrue, ~stale, ~stale', [Next]_vars
    PROVE  AllTrue'
<1>1. CASE UNCHANGED vars
  BY <1>1, TrueFrames DEF AllTrue, vars, fileVars, searchVars, mergeVars, recVars
<1>2. CASE \E r \in plan : Start(r)
  BY <1>2, StartKeepsTrue
<1>3. CASE \E s \in stats : Receive(s) \/ FlushBuffer(s) \/ EndDownload(s)
  BY <1>3, ReceiveKeepsTrue, FlushKeepsTrue, EndKeepsTrue
<1>4. CASE SaveBegins \/ SaveOpens \/ SaveWrites \/ SaveEnds
  BY <1>4, SaveBeginsKeepsTrue, SaveOpensKeepsTrue, SaveWritesKeepsTrue, SaveEndsKeepsTrue
<1>5. CASE Kill \/ Load
  BY <1>5, KillKeepsTrue, LoadKeepsTrue
<1>6. CASE CleanUp \/ DeleteInfo \/ PurgeFiles \/ PurgeInfo
  BY <1>6, CleanUpKeepsTrue, DeleteInfoKeepsTrue, PurgeFilesKeepsTrue, PurgeInfoKeepsTrue
<1>7. CASE process = "up" /\ MergeStep /\ UNCHANGED <<save, recVars>>
  BY <1>7, BeginMergeKeepsTrue, RefuseKeepsTrue, OpenMergedKeepsTrue, CopyNextKeepsTrue,
     NoSourceMissing, EndMergeKeepsTrue, SearchKeepsTrue DEF MergeStep
<1> QED
  BY <1>1, <1>2, <1>3, <1>4, <1>5, <1>6, <1>7 DEF Next

\* Whatever is downloaded, saved, killed, loaded and merged, the ranges, the
\* names and the bytes of the chunks belong together, and the recovery file, the
\* chunk files and the copy agree as long as nothing was written behind a save.
THEOREM RecoveryIsSound == Spec => []RecoveryInvariant
<1>1. Init => RecoveryInvariant
  BY InitTypes, InitTrue DEF RecoveryInvariant
<1>2. RecoveryInvariant /\ [Next]_vars => RecoveryInvariant'
  <2> SUFFICES ASSUME RecoveryInvariant, [Next]_vars
               PROVE  RecoveryInvariant'
    OBVIOUS
  <2>1. TypesOK'
    BY StepTypes DEF RecoveryInvariant
  <2>2. ASSUME ~stale'
        PROVE  ~stale
    BY <2>2, StaleForGood DEF vars, recVars
  <2> QED
    BY <2>1, <2>2, StepTrue DEF RecoveryInvariant
<1> QED
  BY <1>1, <1>2, PTL DEF Spec

\* The parts of the type invariant the runs check.
THEOREM RecoveryTypes == Spec => []RecoveryTypeOK
<1>1. RecoveryInvariant => RecoveryTypeOK
  BY DEF RecoveryInvariant, TypesOK, FilesOK, StatsOK, StatOK, InfoOK, Entries, EntryOK, SaveOK, SaveRecord,
         PhaseOK, CopyOK, SearchInvariant, SearchTypeOK, RecoveryTypeOK
<1> QED
  BY <1>1, RecoveryIsSound, PTL

\* calculate_optimal_coverage, as the merge calls it after any number of
\* recoveries, takes bytes that meet at every cut and end with the file.
THEOREM MergedFragmentsMeet == Spec => []FragmentsMeet
<1>1. RecoveryInvariant => FragmentsMeet
  BY PathMeets DEF RecoveryInvariant, TypesOK
<1> QED
  BY <1>1, RecoveryIsSound, PTL

\* It reports a gap only when the chunks it was given do not hold the file.
THEOREM ReportedGapsAreReal == Spec => []GapIsReal
<1>1. RecoveryInvariant => GapIsReal
  BY GapsReal DEF RecoveryInvariant, TypesOK
<1> QED
  BY <1>1, RecoveryIsSound, PTL

\* merge_chunks leaves the file byte for byte, for every file and after every
\* sequence of saves, crashes and loads that writes nothing behind a save.
THEOREM MergeIsByteExact == Spec => []CarefulMergeIsExact
<1>1. RecoveryInvariant => CarefulMergeIsExact
  BY DEF RecoveryInvariant, AllTrue, CarefulMergeIsExact
<1> QED
  BY <1>1, RecoveryIsSound, PTL

\* merge_chunks fails only when the complete chunks do not hold the file.
THEOREM MergeFailsForGaps == Spec => []RefusedForGaps
<1>1. ASSUME RecoveryInvariant
      PROVE  RefusedForGaps
  <2> SUFFICES ASSUME merging = "failed", ~stale
               PROVE  ~HoldFile(chunks)
    BY DEF RefusedForGaps
  <2>1. CASE outcome = "gap"
    BY <1>1, <2>1, GapsReal DEF RecoveryInvariant, TypesOK, GapIsReal
  <2>2. CASE chunks = {} /\ size = None
    BY <2>2 DEF HoldFile
  <2> QED
    BY <1>1, <2>1, <2>2 DEF RecoveryInvariant, AllTrue, FailedTrue
<1> QED
  BY <1>1, RecoveryIsSound, PTL

\* What the recovery file says is on disk, at every point at which the process
\* may be killed.
THEOREM RecoveryFileIsTrue == Spec => []InfoIsTrue
<1>1. RecoveryInvariant => InfoIsTrue
  BY DEF RecoveryInvariant, AllTrue, InfoIsTrue
<1> QED
  BY <1>1, RecoveryIsSound, PTL

-----------------------------------------------------------------------------
(* The merge reads the fewest files.                                       *)

LEMMA RangesOfAFile ==
    ASSUME NEW n \in Nat, NEW T \in SUBSET {r \in ChunkRange : Within(r, n)}
    PROVE  IsFiniteSet(T)
<1> DEFINE bounds == (0..n) \X (None..n)
           f == [r \in T |-> <<r.start, r.end>>]
<1>1. ASSUME NEW r \in T
      PROVE  r.start \in 0..n /\ r.end \in None..n
  <2>1. r \in ChunkRange /\ Within(r, n)
    OBVIOUS
  <2>2. r.start \in Nat /\ r.end \in Nat \union {None}
    BY <2>1, RangeFields
  <2> QED
    BY <2>1, <2>2 DEF Within, None
<1>2. f \in [T -> bounds]
  BY <1>1
<1>3. \A r, s \in T : f[r] = f[s] => r = s
  BY DEF ChunkRange
<1>4. f \in Injection(T, bounds)
  BY <1>2, <1>3 DEF Injection, IsInjective
<1>5. IsFiniteSet(bounds)
  <2>1. IsFiniteSet(0..n) /\ IsFiniteSet(None..n)
    BY FS_Interval DEF None
  <2> QED
    BY <2>1, FS_Product
<1> HIDE DEF f, bounds
<1> QED
  BY <1>4, <1>5, FS_Injection

LEMMA BeginMergeLevels ==
    ASSUME TypesOK, LevelInvariant, BeginMerge
    PROVE  LevelInvariant'
<1>1. CASE Completed = {}
  BY <1>1, UnchangedLevels DEF BeginMerge
<1>2. CASE Completed # {}
  <2> DEFINE given == {s.range : s \in Completed}
  <2>1. BeginSearch(given, fileSize)
    BY <1>2 DEF BeginMerge
  <2>2. source \in Nat /\ \A s \in Completed : StatOK(s)
    BY DEF TypesOK, StatsOK, FilesOK, Completed
  <2>3. given \subseteq {r \in ChunkRange : Within(r, source)}
    BY <2>2, StatFields DEF StatOK
  <2> HIDE DEF given
  <2>4. IsFiniteSet(given)
    BY <2>2, <2>3, RangesOfAFile
  <2> QED
    BY <2>1, <2>4, BeginLevels
<1> QED
  BY <1>1, <1>2

LEMMA NextLevels ==
    ASSUME TypesOK, LevelInvariant, [Next]_vars
    PROVE  LevelInvariant'
<1>1. CASE UNCHANGED searchVars
  BY <1>1, UnchangedLevels
<1>2. CASE \E r \in plan : Start(r)
  BY <1>1, <1>2 DEF Start, downloadRest
<1>3. CASE \E s \in stats : Receive(s) \/ FlushBuffer(s) \/ EndDownload(s)
  BY <1>1, <1>3 DEF Receive, FlushBuffer, EndDownload, downloadRest
<1>4. CASE SaveBegins \/ SaveOpens \/ SaveWrites \/ SaveEnds
  BY <1>1, <1>4 DEF SaveBegins, SaveOpens, SaveWrites, SaveEnds, saveRest
<1>5. CASE Kill
  BY <1>5, NoSearchNoLevels DEF Kill
<1>6. CASE Load
  BY <1>1, <1>6 DEF Load, loadRest
<1>7. CASE CleanUp \/ DeleteInfo \/ PurgeFiles \/ PurgeInfo
  BY <1>1, <1>7 DEF CleanUp, DeleteInfo, PurgeFiles, PurgeInfo, endRest
<1>8. CASE MergeStep
  BY <1>1, <1>8, BeginMergeLevels, StepLevels
     DEF MergeStep, Refuse, OpenMerged, CopyNext, SourceMissing, EndMerge, TypesOK
<1> QED
  BY <1>1, <1>2, <1>3, <1>4, <1>5, <1>6, <1>7, <1>8 DEF Next, vars

\* calculate_optimal_coverage "finds the minimum number of chunks": no set of
\* the completed chunks that holds the file is smaller than what it answers.
THEOREM MergeReadsFewestFiles == Spec => []FewestFiles
<1>1. Init => TypesOK /\ LevelInvariant
  BY InitTypes, NoSearchNoLevels DEF Init
<1>2. TypesOK /\ LevelInvariant /\ [Next]_vars => (TypesOK /\ LevelInvariant)'
  BY StepTypes, NextLevels
<1>3. LevelInvariant => FewestFiles
  BY DEF LevelInvariant
<1> QED
  BY <1>1, <1>2, <1>3, PTL DEF Spec
=============================================================================
