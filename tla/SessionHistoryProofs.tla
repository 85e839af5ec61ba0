------------------------ MODULE SessionHistoryProofs ------------------------
(***************************************************************************)
(* What a session remembers: who made which artifact, from what, and how   *)
(* far the process that made it had come.  From this follow, for every set *)
(* of processes, sessions and commands, that exit codes tell the truth,    *)
(* that a stopped process starts no later stage and says so in what it     *)
(* leaves behind, that a report shows a diagnosis of the collection it     *)
(* shows, that the pipeline reports on what it collected, and that the     *)
(* processes and the file system implement ArtifactStore.                  *)
(***************************************************************************)
EXTENDS SessionProofs

-----------------------------------------------------------------------------
(* The inductive invariant.                                                *)

\* A process runs the stages of its command in order, and knows whether it has
\* been asked to stop; once it has, it does not leave the first check of a stage
\* later than the one it was asked in.
LifeOf(p) ==
    /\ proc[p].state = "idle" => proc[p].cmd = "none" /\ proc[p].fence = "none"
    /\ Running(p) => /\ proc[p].cmd \in Commands
                     /\ proc[p].cmd # "pipeline" => proc[p].stage = proc[p].cmd
    /\ proc[p].fence = "none" <=> proc[p].intr = 0
    /\ Running(p) /\ proc[p].fence # "none" =>
         Rank[proc[p].stage] <= Rank[proc[p].fence] \/ proc[p].at = 1
    /\ proc[p].state \in {"interrupted", "unlogged"} => proc[p].intr = 1

\* An artifact of p in stage st: of an earlier stage than the one p runs, or of
\* this one if p has taken the step that makes it; never beyond the fence.
Within(p, st, step) ==
    /\ proc[p].state # "idle"
    /\ Running(p) => \/ Rank[st] < Rank[proc[p].stage]
                     \/ st = proc[p].stage /\ step \in Past(p)
    /\ proc[p].fence # "none" => Rank[st] <= Rank[proc[p].fence]

\* The manifests of all artifacts on the disk, finished or not.
OnDisk == {disk[x[1]][x[2]].manifest : x \in {y \in Paths \X Slots : Exists(y[1], y[2])}}

\* What p has published: nothing beyond where it stands, nothing of its goal when
\* it has ended otherwise, and in a pipeline only what belongs to its session.
PublishedBy(p) ==
    /\ \A m \in done : m.by = p =>
         /\ Within(p, m.stage, "rename")
         /\ proc[p].state \in {"failed", "interrupted", "unlogged"} => m.stage # Goal(p)
         /\ proc[p].cmd = "pipeline" =>
              m.session = p /\ (m.stage = "report" => <<p, "collect">> \in m.inputs)
    /\ Running(p) /\ "rename" \in Past(p) => \E m \in done : IdOf(m) = <<p, proc[p].stage>>
    /\ proc[p].state = "published" => Delivered(p)

LeftBy(p) == \A m \in OnDisk : m.by = p => Within(p, m.stage, "mkdir")

\* The places in which the artifacts of a stage are made.
Bench(d, st) == d \in Paths /\ st \in Stages /\ (st = "collect" => d[2] = "incomplete")

\* What lies unfinished is where its process works now, or has a log.
UnfinishedOf(p) ==
    \A d \in Paths, st \in Stages :
        /\ Bench(d, st) /\ Exists(d, WorkSlot[st])
        /\ disk[d][WorkSlot[st]].manifest.by = p
        => /\ Running(p) => Holding(p) /\ proc[p].dir = d /\ proc[p].stage = st
           /\ proc[p].state = "interrupted" => disk[d][WorkSlot[st]].log

\* What p has loaded was published, and belongs together.
LoadedBy(p) ==
    Running(p) =>
        /\ "loadCollection" \in Past(p) =>
             /\ proc[p].collection \in done /\ proc[p].collection.stage = "collect"
             /\ proc[p].cmd = "pipeline" =>
                  proc[p].collection.by = p /\ proc[p].collection.session = p
        /\ "loadDiagnosis" \in Past(p) =>
             /\ proc[p].diagnosis \in done /\ proc[p].diagnosis.stage = "diagnose"
             /\ proc[p].diagnosis.session = proc[p].collection.session
             /\ proc[p].diagnosis.inputs = {IdOf(proc[p].collection)}

\* A pipeline that has collected finds its collection where it goes on.
HomeOf(p) ==
    /\ Running(p) /\ proc[p].cmd = "pipeline"
    /\ proc[p].stage # "collect" \/ "rename" \in Past(p)
    => /\ Exists(FinalPath(p), "collection")
       /\ disk[FinalPath(p)]["collection"].manifest.by = p
       /\ disk[FinalPath(p)]["collection"].manifest.session = p

HistoryOf(p) ==
    LifeOf(p) /\ PublishedBy(p) /\ LeftBy(p) /\ UnfinishedOf(p) /\ LoadedBy(p) /\ HomeOf(p)

\* What has a final name was published.
ShelfPublished ==
    \A s \in Sessions, st \in Stages : InPlace(s, st) # None => InPlace(s, st).manifest \in done

HInv == IInv /\ ShelfPublished /\ ReportLineage /\ \A p \in Procs : HistoryOf(p)

-----------------------------------------------------------------------------
(* Where a process stands, and what it has behind it.                      *)

LEMMA ProgramEnds ==
    ASSUME NEW st \in Stages, NEW n \in 1..Len(Program[st])
    PROVE  /\ Program[st][n] # "return" => "rename" \notin Before(st, n)
           /\ Program[st][1] = "check"
<1>1. CASE st = "collect" BY <1>1 DEF Program, Before
<1>2. CASE st = "diagnose" BY <1>2 DEF Program, Before
<1>3. CASE st = "report" BY <1>3 DEF Program, Before
<1> QED BY <1>1, <1>2, <1>3 DEF Stages

\* Only return comes after the rename, and the first step looks for an interrupt.
LEMMA Footing ==
    ASSUME IInv, NEW p \in Procs
    PROVE  /\ Op(p) # "return" => "rename" \notin Past(p)
           /\ proc[p].at = 1 => Op(p) = "check" /\ Past(p) = {}
           /\ proc[p].intr \in 0..1 /\ proc[p].fence \in Stages \cup {"none"}
<1>1. Op(p) # "return" => "rename" \notin Past(p)
  BY Position, ProgramEnds
<1>2. proc[p].at = 1 => Op(p) = "check" /\ Past(p) = {}
  BY Position, ProgramEnds, ProgramShape
<1>3. proc[p].intr \in 0..1 /\ proc[p].fence \in Stages \cup {"none"}
  BY Position DEF Processes
<1> QED BY <1>1, <1>2, <1>3

LEMMA FinalPathIs ==
    ASSUME IInv, NEW p \in Procs, Running(p),
           proc[p].stage # "collect" \/ "rename" \in Past(p)
    PROVE  \E s \in Sessions : FinalPath(p) = <<s, "final">>
<1>1. CASE proc[p].stage # "collect"
  BY <1>1, AtHome DEF FinalPath
<1>2. CASE proc[p].stage = "collect"
  <2>1. Op(p) = "return"
    BY <1>2, Footing
  <2>2. "name" \in Past(p)
    BY <1>2, <2>1, Position DEF Reached
  <2>3. PICK s \in Sessions : proc[p].dir = <<s, "incomplete">>
    BY <1>2, <2>2 DEF IInv, ControlOK
  <2> QED BY <1>2, <2>3 DEF FinalPath
<1> QED BY <1>1, <1>2

-----------------------------------------------------------------------------
(* What a step may do to the artifacts on the disk.                        *)

\* Nothing of q has been added, and what q left unfinished is as it was or gone.
TameFor(q) ==
    /\ \A m \in OnDisk' : m.by = q => m \in OnDisk
    /\ \A d \in Paths, st \in Stages :
         /\ Bench(d, st) /\ disk'[d][WorkSlot[st]] # None
         /\ disk'[d][WorkSlot[st]].manifest.by = q
         => /\ disk[d][WorkSlot[st]] # None
            /\ disk'[d][WorkSlot[st]].manifest = disk[d][WorkSlot[st]].manifest
            /\ disk[d][WorkSlot[st]].log => disk'[d][WorkSlot[st]].log

\* A finished collection stays what it is.
CollectionsStay ==
    \A s \in Sessions : disk[<<s, "final">>]["collection"] # None =>
        /\ disk'[<<s, "final">>]["collection"] # None
        /\ disk'[<<s, "final">>]["collection"].manifest =
             disk[<<s, "final">>]["collection"].manifest

\* Nothing appears under a final name, or goes.
ShelfSame == \A s \in Sessions, st \in Stages : InPlace(s, st)' = InPlace(s, st)

LEMMA OnDiskIs ==
    \A m : m \in OnDisk <=>
             \E d \in Paths, x \in Slots : disk[d][x] # None /\ m = disk[d][x].manifest
<1> SUFFICES ASSUME NEW m
             PROVE  m \in OnDisk <=>
                    \E d \in Paths, x \in Slots : disk[d][x] # None /\ m = disk[d][x].manifest
  OBVIOUS
<1>1. ASSUME m \in OnDisk
      PROVE  \E d \in Paths, x \in Slots : disk[d][x] # None /\ m = disk[d][x].manifest
  BY <1>1 DEF OnDisk, Exists
<1>2. ASSUME NEW d \in Paths, NEW x \in Slots, disk[d][x] # None, m = disk[d][x].manifest
      PROVE  m \in OnDisk
  <2>1. <<d, x>> \in {y \in Paths \X Slots : Exists(y[1], y[2])}
    BY <1>2 DEF Exists
  <2> QED BY <1>2, <2>1 DEF OnDisk
<1> QED BY <1>1, <1>2

LEMMA OnDiskThen ==
    \A m : m \in OnDisk' <=>
             \E d \in Paths, x \in Slots : disk'[d][x] # None /\ m = disk'[d][x].manifest
<1> SUFFICES ASSUME NEW m
             PROVE  m \in OnDisk' <=>
                    \E d \in Paths, x \in Slots : disk'[d][x] # None /\ m = disk'[d][x].manifest
  OBVIOUS
<1>1. ASSUME m \in OnDisk'
      PROVE  \E d \in Paths, x \in Slots : disk'[d][x] # None /\ m = disk'[d][x].manifest
  BY <1>1 DEF OnDisk, Exists
<1>2. ASSUME NEW d \in Paths, NEW x \in Slots, disk'[d][x] # None, m = disk'[d][x].manifest
      PROVE  m \in OnDisk'
  <2>1. <<d, x>> \in {y \in Paths \X Slots : Exists(y[1], y[2])'}
    BY <1>2 DEF Exists
  <2> QED BY <1>2, <2>1 DEF OnDisk
<1> QED BY <1>1, <1>2

\* A change of one place.
Put(d, x, a) == disk' = [disk EXCEPT ![d][x] = a]

LEMMA PlaceChange ==
    ASSUME IInv, ShelfPublished, done' = done, NEW d \in Paths, NEW x \in Slots,
           NEW a \in Artifacts \cup {None}, Put(d, x, a), NEW q \in Procs,
           a # None => a.manifest \in OnDisk \/ a.manifest.by # q,
           \A st \in Stages : Bench(d, st) /\ x = WorkSlot[st] /\ a # None /\ a.manifest.by = q =>
             /\ disk[d][x] # None /\ a.manifest = disk[d][x].manifest
             /\ disk[d][x].log => a.log,
           x = "collection" /\ d[2] = "final" /\ disk[d][x] # None =>
             a # None /\ a.manifest = disk[d][x].manifest,
           \A s \in Sessions, st \in Stages :
             d = <<s, "final">> /\ x = FinalSlot[st] /\ a # None => a.manifest \in done
    PROVE  TameFor(q) /\ CollectionsStay /\ ShelfPublished'
<1>1. /\ disk'[d][x] = a
      /\ \A e \in Paths, y \in Slots : <<e, y>> # <<d, x>> => disk'[e][y] = disk[e][y]
  BY DEF IInv, TypeOK, Put
<1>2. ASSUME NEW m \in OnDisk', m.by = q
      PROVE  m \in OnDisk
  <2>1. PICK e \in Paths, y \in Slots : disk'[e][y] # None /\ m = disk'[e][y].manifest
    BY <1>2, OnDiskThen
  <2>2. CASE <<e, y>> = <<d, x>>
    BY <1>1, <1>2, <2>1, <2>2
  <2>3. CASE <<e, y>> # <<d, x>>
    BY <1>1, <2>1, <2>3, OnDiskIs
  <2> QED BY <2>2, <2>3
<1>3. ASSUME NEW e \in Paths, NEW st \in Stages, Bench(e, st), disk'[e][WorkSlot[st]] # None,
             disk'[e][WorkSlot[st]].manifest.by = q
      PROVE  /\ disk[e][WorkSlot[st]] # None
             /\ disk'[e][WorkSlot[st]].manifest = disk[e][WorkSlot[st]].manifest
             /\ disk[e][WorkSlot[st]].log => disk'[e][WorkSlot[st]].log
  <2>1. WorkSlot[st] \in Slots
    BY DEF WorkSlot, Slots, Stages
  <2>2. CASE <<e, WorkSlot[st]>> = <<d, x>>
    BY <1>1, <1>3, <2>2
  <2>3. CASE <<e, WorkSlot[st]>> # <<d, x>>
    BY <1>1, <1>3, <2>1, <2>3
  <2> QED BY <2>2, <2>3
<1>4. CollectionsStay
  <2> SUFFICES ASSUME NEW s \in Sessions, disk[<<s, "final">>]["collection"] # None
               PROVE  /\ disk'[<<s, "final">>]["collection"] # None
                      /\ disk'[<<s, "final">>]["collection"].manifest =
                           disk[<<s, "final">>]["collection"].manifest
    BY DEF CollectionsStay
  <2>1. <<s, "final">> \in Paths /\ "collection" \in Slots
    BY DEF Paths, Slots
  <2>2. CASE <<<<s, "final">>, "collection">> = <<d, x>>
    BY <1>1, <2>2
  <2>3. CASE <<<<s, "final">>, "collection">> # <<d, x>>
    BY <1>1, <2>1, <2>3
  <2> QED BY <2>2, <2>3
<1>5. ShelfPublished'
  <2> SUFFICES ASSUME NEW s \in Sessions, NEW st \in Stages, InPlace(s, st)' # None
               PROVE  InPlace(s, st)'.manifest \in done
    BY DEF ShelfPublished
  <2>1. <<s, "final">> \in Paths /\ FinalSlot[st] \in Slots
    BY DEF Paths, FinalSlot, Slots, Stages
  <2>2. CASE <<<<s, "final">>, FinalSlot[st]>> = <<d, x>>
    BY <1>1, <2>2 DEF InPlace
  <2>3. CASE <<<<s, "final">>, FinalSlot[st]>> # <<d, x>>
    <3>1. InPlace(s, st)' = InPlace(s, st)
      BY <1>1, <2>1, <2>3 DEF InPlace
    <3> QED BY <3>1 DEF ShelfPublished
  <2> QED BY <2>2, <2>3
<1> QED BY <1>2, <1>3, <1>4, <1>5 DEF TameFor

LEMMA NoDiskChange ==
    ASSUME ShelfPublished, UNCHANGED disk, done \subseteq done', NEW q \in Procs
    PROVE  TameFor(q) /\ CollectionsStay /\ ShelfPublished' /\ ShelfSame
<1>1. OnDisk' = OnDisk
  BY DEF OnDisk, Exists
<1>2. ShelfSame
  BY DEF ShelfSame, InPlace
<1>3. ShelfPublished'
  BY <1>2 DEF ShelfPublished, ShelfSame
<1> QED BY <1>1, <1>2, <1>3 DEF TameFor, CollectionsStay

-----------------------------------------------------------------------------
(* The processes that do not move.                                         *)

LEMMA SameProcess ==
    ASSUME NEW q \in Procs, proc'[q] = proc[q]
    PROVE  /\ Running(q)' = Running(q) /\ Past(q)' = Past(q) /\ Holding(q)' = Holding(q)
           /\ Goal(q)' = Goal(q) /\ FinalPath(q)' = FinalPath(q)
           /\ LifeOf(q)' = LifeOf(q)
           /\ \A st, step : Within(q, st, step)' = Within(q, st, step)
  BY DEF Running, Past, Holding, Goal, FinalPath, LifeOf, Within

LEMMA Onlooker ==
    ASSUME IInv, NEW q \in Procs, HistoryOf(q), proc'[q] = proc[q],
           done \subseteq done', \A m \in done' \ done : m.by # q,
           TameFor(q), CollectionsStay
    PROVE  HistoryOf(q)'
<1>1. LifeOf(q)'
  BY SameProcess DEF HistoryOf
<1>2. PublishedBy(q)'
  <2>1. Delivered(q) => Delivered(q)'
    BY SameProcess DEF Delivered
  <2> QED BY <2>1, SameProcess DEF HistoryOf, PublishedBy
<1>3. LeftBy(q)'
  BY SameProcess DEF HistoryOf, LeftBy, TameFor
<1>4. UnfinishedOf(q)'
  <2> SUFFICES ASSUME NEW d \in Paths, NEW st \in Stages, Bench(d, st),
                      disk'[d][WorkSlot[st]] # None, disk'[d][WorkSlot[st]].manifest.by = q
               PROVE  /\ Running(q) => Holding(q) /\ proc[q].dir = d /\ proc[q].stage = st
                      /\ proc[q].state = "interrupted" => disk'[d][WorkSlot[st]].log
    BY SameProcess DEF UnfinishedOf, Exists, Bench
  <2>1. /\ disk[d][WorkSlot[st]] # None /\ disk[d][WorkSlot[st]].manifest.by = q
        /\ disk[d][WorkSlot[st]].log => disk'[d][WorkSlot[st]].log
    BY DEF TameFor
  <2> QED BY <2>1 DEF HistoryOf, UnfinishedOf, Exists
<1>5. LoadedBy(q)'
  BY SameProcess DEF HistoryOf, LoadedBy
<1>6. HomeOf(q)'
  <2> SUFFICES ASSUME Running(q), proc[q].cmd = "pipeline",
                      proc[q].stage # "collect" \/ "rename" \in Past(q)
               PROVE  /\ disk'[FinalPath(q)]["collection"] # None
                      /\ disk'[FinalPath(q)]["collection"].manifest.by = q
                      /\ disk'[FinalPath(q)]["collection"].manifest.session = q
    BY SameProcess DEF HomeOf, Exists
  <2>1. /\ disk[FinalPath(q)]["collection"] # None
        /\ disk[FinalPath(q)]["collection"].manifest.by = q
        /\ disk[FinalPath(q)]["collection"].manifest.session = q
    BY DEF HistoryOf, HomeOf, Exists
  <2>2. PICK s \in Sessions : FinalPath(q) = <<s, "final">>
    BY FinalPathIs
  <2> QED BY <2>1, <2>2 DEF CollectionsStay
<1> QED BY <1>1, <1>2, <1>3, <1>4, <1>5, <1>6 DEF HistoryOf

-----------------------------------------------------------------------------
(* The process that moves.                                                 *)

\* It ends: what it has made stays, and it ends in a way that fits.
LEMMA Ended ==
    ASSUME IInv, NEW p \in Procs, HistoryOf(p), Running(p), NEW how \in Endings, Exit(p, how),
           done' = done, TameFor(p), CollectionsStay,
           how = "published" => Delivered(p),
           how \in {"failed", "interrupted", "unlogged"} => Op(p) # "return",
           how \in {"interrupted", "unlogged"} => proc[p].intr = 1,
           how = "interrupted" /\ Holding(p) => disk'[proc[p].dir][WorkOf(p)].log
    PROVE  HistoryOf(p)'
<1>1. /\ proc'[p].state = how /\ proc'[p].cmd = proc[p].cmd
      /\ proc'[p].intr = proc[p].intr /\ proc'[p].fence = proc[p].fence
  BY DEF IInv, TypeOK, Exit, Resting
<1>2. /\ ~Running(p)' /\ how # "idle" /\ Goal(p)' = Goal(p)
  BY <1>1 DEF Running, Endings, Goal
<1>3. LifeOf(p)'
  BY <1>1, <1>2 DEF HistoryOf, LifeOf
<1>4. \A m : \A step : Within(p, m, step) => Within(p, m, step)'
  BY <1>1, <1>2 DEF Within
<1>5. PublishedBy(p)'
  <2>1. ASSUME NEW m \in done, m.by = p, how \in {"failed", "interrupted", "unlogged"}
        PROVE  m.stage # Goal(p)
    <3>1. Rank[m.stage] < Rank[proc[p].stage]
      BY <2>1, Footing DEF HistoryOf, PublishedBy, Within
    <3>2. proc[p].stage \in Stages /\ m.stage \in Stages
      BY Position DEF IInv, TypeOK, Manifests
    <3>3. proc[p].cmd # "pipeline" => proc[p].stage = proc[p].cmd
      BY DEF HistoryOf, LifeOf
    <3> QED BY <3>1, <3>2, <3>3 DEF Goal, Rank, Stages
  <2>2. how = "published" => Delivered(p)'
    BY <1>1, <1>2 DEF Delivered
  <2> QED BY <1>1, <1>2, <1>4, <2>1, <2>2 DEF HistoryOf, PublishedBy
<1>6. LeftBy(p)'
  BY <1>4 DEF HistoryOf, LeftBy, TameFor
<1>7. UnfinishedOf(p)'
  <2> SUFFICES ASSUME NEW d \in Paths, NEW st \in Stages, Bench(d, st),
                      disk'[d][WorkSlot[st]] # None, disk'[d][WorkSlot[st]].manifest.by = p,
                      how = "interrupted"
               PROVE  disk'[d][WorkSlot[st]].log
    BY <1>1, <1>2 DEF UnfinishedOf, Exists, Bench
  <2>1. disk[d][WorkSlot[st]] # None /\ disk[d][WorkSlot[st]].manifest.by = p
    BY DEF TameFor
  <2>2. Holding(p) /\ proc[p].dir = d /\ proc[p].stage = st
    BY <2>1 DEF HistoryOf, UnfinishedOf, Exists
  <2> QED BY <2>2 DEF WorkOf
<1>8. LoadedBy(p)' /\ HomeOf(p)'
  BY <1>2 DEF LoadedBy, HomeOf
<1> QED BY <1>3, <1>5, <1>6, <1>7, <1>8 DEF HistoryOf

\* It takes a step that neither makes nor publishes anything.
LEMMA SteppedOn ==
    ASSUME IInv, NEW p \in Procs, HistoryOf(p), Running(p), NEW r \in Processes,
           proc' = [proc EXCEPT ![p] = r],
           r.at = proc[p].at + 1, r.state = "running", r.cmd = proc[p].cmd,
           r.stage = proc[p].stage, r.intr = proc[p].intr, r.fence = proc[p].fence,
           r.dir = proc[p].dir \/ Op(p) = "name",
           Op(p) \notin {"mkdir", "rename", "return"}, Op(p) = "check" => proc[p].intr = 0,
           done' = done, TameFor(p), CollectionsStay, LoadedBy(p)'
    PROVE  HistoryOf(p)'
<1>1. proc'[p] = r /\ Past(p)' = Past(p) \cup {Op(p)} /\ Running(p)' /\ Goal(p)' = Goal(p)
  BY OneStepOn DEF Running, Goal
<1>2. Holding(p)' = Holding(p) /\ ("rename" \in Past(p)' => "rename" \in Past(p))
  BY <1>1 DEF Holding
<1>3. proc[p].fence # "none" => Rank[proc[p].stage] <= Rank[proc[p].fence]
  BY Footing DEF HistoryOf, LifeOf
<1>4. LifeOf(p)'
  BY <1>1, <1>3 DEF HistoryOf, LifeOf
<1>5. \A m : \A step : Within(p, m, step) => Within(p, m, step)'
  BY <1>1 DEF Within
<1>6. PublishedBy(p)'
  <2>1. "rename" \notin Past(p)
    BY Footing
  <2> QED BY <1>1, <1>2, <1>5, <2>1 DEF HistoryOf, PublishedBy
<1>7. LeftBy(p)'
  BY <1>5 DEF HistoryOf, LeftBy, TameFor
<1>8. Op(p) = "name" => ~Holding(p) /\ proc[p].stage = "collect" /\ "rename" \notin Past(p)
  BY Position, Footing DEF Reached, Holding
<1>9. UnfinishedOf(p)'
  <2> SUFFICES ASSUME NEW d \in Paths, NEW st \in Stages, Bench(d, st),
                      disk'[d][WorkSlot[st]] # None, disk'[d][WorkSlot[st]].manifest.by = p
               PROVE  Holding(p)' /\ r.dir = d /\ r.stage = st
    BY <1>1 DEF UnfinishedOf, Exists, Bench
  <2>1. disk[d][WorkSlot[st]] # None /\ disk[d][WorkSlot[st]].manifest.by = p
    BY DEF TameFor
  <2>2. Holding(p) /\ proc[p].dir = d /\ proc[p].stage = st
    BY <2>1 DEF HistoryOf, UnfinishedOf, Exists
  <2> QED BY <1>2, <1>8, <2>2
<1>10. HomeOf(p)'
  <2> SUFFICES ASSUME r.cmd = "pipeline", r.stage # "collect" \/ "rename" \in Past(p)'
               PROVE  /\ disk'[FinalPath(p)']["collection"] # None
                      /\ disk'[FinalPath(p)']["collection"].manifest.by = p
                      /\ disk'[FinalPath(p)']["collection"].manifest.session = p
    BY <1>1 DEF HomeOf, Exists
  <2>1. proc[p].cmd = "pipeline" /\ proc[p].stage # "collect" /\ r.dir = proc[p].dir
    BY <1>2, <1>8, Footing
  <2>2. FinalPath(p)' = FinalPath(p)
    BY <1>1, <2>1 DEF FinalPath
  <2>3. /\ disk[FinalPath(p)]["collection"] # None
        /\ disk[FinalPath(p)]["collection"].manifest.by = p
        /\ disk[FinalPath(p)]["collection"].manifest.session = p
    BY <2>1 DEF HistoryOf, HomeOf, Exists
  <2>4. PICK s \in Sessions : FinalPath(p) = <<s, "final">>
    BY <2>1, FinalPathIs
  <2> QED BY <2>2, <2>3, <2>4 DEF CollectionsStay
<1> QED BY <1>4, <1>6, <1>7, <1>9, <1>10 DEF HistoryOf

-----------------------------------------------------------------------------
(* The steps that publish nothing.                                         *)

\* The others look on.
LEMMA OthersLookOn ==
    ASSUME HInv, IInv', NEW p \in Procs, \A q \in Procs : q # p => proc'[q] = proc[q],
           done' = done, \A q \in Procs : q # p => TameFor(q), CollectionsStay,
           ShelfPublished', HistoryOf(p)'
    PROVE  HInv'
<1>1. ASSUME NEW q \in Procs PROVE HistoryOf(q)'
  <2>1. CASE q = p BY <2>1
  <2>2. CASE q # p BY <2>2, Onlooker DEF HInv
  <2> QED BY <2>1, <2>2
<1>2. ReportLineage'
  BY DEF HInv, ReportLineage
<1> QED BY <1>1, <1>2 DEF HInv

\* A process changes what it is making, and not what it says of itself.
LEMMA OwnBench ==
    ASSUME HInv, done' = done, NEW p \in Procs, Running(p), Holding(p), NEW a \in Artifacts,
           a.manifest = disk[proc[p].dir][WorkOf(p)].manifest,
           disk' = [disk EXCEPT ![proc[p].dir][WorkOf(p)] = a], NEW q \in Procs
    PROVE  /\ TameFor(q) /\ CollectionsStay /\ ShelfPublished' /\ ShelfSame
           /\ disk'[proc[p].dir][WorkOf(p)] = a
<1>1. IInv /\ ShelfPublished
  BY DEF HInv
<1>2. /\ proc[p].dir \in Paths /\ WorkOf(p) \in Slots
      /\ Workbench(proc[p].dir, WorkOf(p))
      /\ disk[proc[p].dir][WorkOf(p)] # None
  BY <1>1, Workplace, HolderAtWorkbench, NoneAssumption
<1>3. ~disk[proc[p].dir][WorkOf(p)].log
  <2>1. disk[proc[p].dir][WorkOf(p)] =
          [NewArtifact(ManifestOf(p)) EXCEPT !.files = Past(p) \cap FileNames]
    BY <1>1 DEF IInv, HolderOwnsDirectory
  <2> QED BY <2>1 DEF NewArtifact
<1>4. a.manifest \in OnDisk
  BY <1>2, OnDiskIs
<1>5. /\ ~(WorkOf(p) = "collection" /\ proc[p].dir[2] = "final")
      /\ \A s \in Sessions, st \in Stages : ~(proc[p].dir = <<s, "final">> /\ WorkOf(p) = FinalSlot[st])
  BY <1>2 DEF Workbench, FinalSlot, Stages
<1>6. Put(proc[p].dir, WorkOf(p), a)
  BY DEF Put
<1>7. TameFor(q) /\ CollectionsStay /\ ShelfPublished'
  BY <1>1, <1>2, <1>3, <1>4, <1>5, <1>6, PlaceChange
<1>8. ShelfSame /\ disk'[proc[p].dir][WorkOf(p)] = a
  BY <1>1, <1>2, WorkbenchChange DEF ShelfSame
<1> QED BY <1>7, <1>8

\* The traces a process leaves in what it is making: a log, a file, half a file.
LEMMA TraceOf ==
    ASSUME IInv, NEW p \in Procs, Running(p), Holding(p)
    PROVE  /\ \E a \in Artifacts :
                /\ a.manifest = disk[proc[p].dir][WorkOf(p)].manifest /\ a.log
                /\ [disk EXCEPT ![proc[p].dir][WorkOf(p)].log = TRUE] =
                   [disk EXCEPT ![proc[p].dir][WorkOf(p)] = a]
           /\ Op(p) \in FileNames => \E a \in Artifacts :
                /\ a.manifest = disk[proc[p].dir][WorkOf(p)].manifest
                /\ [disk EXCEPT ![proc[p].dir][WorkOf(p)].torn = @ \cup {Op(p)}] =
                   [disk EXCEPT ![proc[p].dir][WorkOf(p)] = a]
           /\ Op(p) \in FileNames => \E a \in Artifacts :
                /\ a.manifest = disk[proc[p].dir][WorkOf(p)].manifest
                /\ [disk EXCEPT ![proc[p].dir][WorkOf(p)].files = @ \cup {Op(p)}] =
                   [disk EXCEPT ![proc[p].dir][WorkOf(p)] = a]
<1> DEFINE a == disk[proc[p].dir][WorkOf(p)]
<1>1. /\ disk \in [Paths -> [Slots -> Artifacts \cup {None}]]
      /\ proc[p].dir \in Paths /\ WorkOf(p) \in Slots /\ a \in Artifacts
  BY Workplace DEF IInv, TypeOK
<1>2. LET b == [a EXCEPT !.log = TRUE]
      IN  /\ b \in Artifacts /\ b.manifest = a.manifest /\ b.log
          /\ [disk EXCEPT ![proc[p].dir][WorkOf(p)].log = TRUE] =
             [disk EXCEPT ![proc[p].dir][WorkOf(p)] = b]
  BY <1>1 DEF Artifacts
<1>3. Op(p) \in FileNames =>
      LET b == [a EXCEPT !.torn = @ \cup {Op(p)}]
      IN  /\ b \in Artifacts /\ b.manifest = a.manifest
          /\ [disk EXCEPT ![proc[p].dir][WorkOf(p)].torn = @ \cup {Op(p)}] =
             [disk EXCEPT ![proc[p].dir][WorkOf(p)] = b]
  BY <1>1 DEF Artifacts
<1>4. Op(p) \in FileNames =>
      LET b == [a EXCEPT !.files = @ \cup {Op(p)}]
      IN  /\ b \in Artifacts /\ b.manifest = a.manifest
          /\ [disk EXCEPT ![proc[p].dir][WorkOf(p)].files = @ \cup {Op(p)}] =
             [disk EXCEPT ![proc[p].dir][WorkOf(p)] = b]
  BY <1>1 DEF Artifacts
<1> QED BY <1>2, <1>3, <1>4

\* A process ends.
LEMMA Ends ==
    ASSUME HInv, IInv', NEW p \in Procs, Running(p), NEW how \in Endings, Exit(p, how),
           UNCHANGED <<done, edits>>,
           \/ UNCHANGED disk /\ (how = "interrupted" => ~Holding(p))
           \/ /\ Holding(p)
              /\ \E a \in Artifacts :
                   /\ a.manifest = disk[proc[p].dir][WorkOf(p)].manifest
                   /\ how = "interrupted" => a.log
                   /\ disk' = [disk EXCEPT ![proc[p].dir][WorkOf(p)] = a],
           how = "published" => Delivered(p),
           how \in {"failed", "interrupted", "unlogged"} => Op(p) # "return",
           how \in {"interrupted", "unlogged"} => proc[p].intr = 1
    PROVE  HInv' /\ ShelfSame
<1>1. \A q \in Procs : q # p => proc'[q] = proc[q]
  BY DEF HInv, IInv, TypeOK, Exit
<1>2. /\ \A q \in Procs : TameFor(q)
      /\ CollectionsStay /\ ShelfPublished' /\ ShelfSame
      /\ how = "interrupted" /\ Holding(p) => disk'[proc[p].dir][WorkOf(p)].log
  <2>1. CASE UNCHANGED disk /\ (how = "interrupted" => ~Holding(p))
    BY <2>1, NoDiskChange DEF HInv
  <2>2. ASSUME Holding(p), NEW a \in Artifacts,
               a.manifest = disk[proc[p].dir][WorkOf(p)].manifest, how = "interrupted" => a.log,
               disk' = [disk EXCEPT ![proc[p].dir][WorkOf(p)] = a]
        PROVE  /\ \A q \in Procs : TameFor(q)
               /\ CollectionsStay /\ ShelfPublished' /\ ShelfSame
               /\ how = "interrupted" => disk'[proc[p].dir][WorkOf(p)].log
    BY <2>2, OwnBench
  <2> QED BY <2>1, <2>2
<1>3. HistoryOf(p)'
  BY <1>2, Ended DEF HInv
<1> QED BY <1>1, <1>2, <1>3, OthersLookOn

\* A process goes on, and nothing else changes.
LEMMA Walks ==
    ASSUME HInv, IInv', NEW p \in Procs, NEW r \in Processes, proc' = [proc EXCEPT ![p] = r],
           UNCHANGED <<disk, done, edits>>, HistoryOf(p)'
    PROVE  HInv' /\ ShelfSame
<1>1. \A q \in Procs : q # p => proc'[q] = proc[q]
  BY DEF HInv, IInv, TypeOK
<1>2. /\ \A q \in Procs : TameFor(q)
      /\ CollectionsStay /\ ShelfPublished' /\ ShelfSame
  BY NoDiskChange DEF HInv
<1> QED BY <1>1, <1>2, OthersLookOn

\* One step further.
LEMMA Advances ==
    ASSUME HInv, NEW p \in Procs, Running(p), Advance(p), done' = done,
           Op(p) \notin {"name", "mkdir", "rename", "return", "loadCollection", "loadDiagnosis"},
           Op(p) = "check" => proc[p].intr = 0, TameFor(p), CollectionsStay
    PROVE  /\ HistoryOf(p)'
           /\ \E r \in Processes : proc' = [proc EXCEPT ![p] = r]
<1> DEFINE r == [proc[p] EXCEPT !.at = proc[p].at + 1]
<1>1. proc[p] \in Processes /\ proc \in [Procs -> Processes]
  BY DEF HInv, IInv, TypeOK
<1>2. /\ r \in Processes /\ r.at = proc[p].at + 1 /\ r.state = proc[p].state
      /\ r.cmd = proc[p].cmd /\ r.stage = proc[p].stage /\ r.intr = proc[p].intr
      /\ r.fence = proc[p].fence /\ r.dir = proc[p].dir
      /\ r.collection = proc[p].collection /\ r.diagnosis = proc[p].diagnosis
  BY <1>1 DEF Processes
<1>3. proc' = [proc EXCEPT ![p] = r]
  BY <1>1 DEF Advance
<1> HIDE DEF r
<1>4. proc'[p] = r /\ Past(p)' = Past(p) \cup {Op(p)}
  BY <1>2, <1>3, OneStepOn DEF HInv
<1>5. LoadedBy(p)'
  BY <1>2, <1>4 DEF HInv, HistoryOf, LoadedBy
<1> QED BY <1>2, <1>3, <1>5, SteppedOn DEF HInv, Running

LEMMA AdvanceHistory ==
    ASSUME HInv, IInv', NEW p \in Procs, Running(p), Advance(p), UNCHANGED <<disk, done, edits>>,
           Op(p) \in {"check", "compute", "validate", "probeFinal", "probeIncomplete"},
           Op(p) = "check" => proc[p].intr = 0
    PROVE  HInv' /\ ShelfSame
<1>1. TameFor(p) /\ CollectionsStay
  BY NoDiskChange DEF HInv
<1> QED BY <1>1, Advances, Walks

LEMMA StartHistory ==
    ASSUME HInv, IInv', NEW p \in Procs, Start(p)
    PROVE  HInv' /\ ShelfSame
<1>1. PICK c \in Commands, d \in Paths :
        proc' = [proc EXCEPT ![p].state = "running", ![p].cmd = c,
                             ![p].stage = FirstStage(c),
                             ![p].dir = IF FirstStage(c) = "collect" THEN None ELSE d]
  BY DEF Start
<1> DEFINE r == [proc[p] EXCEPT !.state = "running", !.cmd = c, !.stage = FirstStage(c),
                                !.dir = IF FirstStage(c) = "collect" THEN None ELSE d]
<1>2. /\ proc[p] \in Processes /\ proc \in [Procs -> Processes] /\ ~Running(p)
      /\ proc[p].at = 1 /\ proc[p].state = "idle"
  BY DEF HInv, IInv, TypeOK, ControlOK, Start, Running
<1>3. FirstStage(c) \in Stages /\ (c # "pipeline" => FirstStage(c) = c)
      /\ (c = "pipeline" => FirstStage(c) = "collect")
  BY SessionAssumption DEF FirstStage, Stages
<1>4. /\ r \in Processes /\ r.state = "running" /\ r.at = 1 /\ r.stage = FirstStage(c)
      /\ r.cmd = c /\ r.intr = proc[p].intr /\ r.fence = proc[p].fence
  BY <1>2, <1>3 DEF Processes
<1>5. proc' = [proc EXCEPT ![p] = r] /\ proc'[p] = r
  BY <1>1, <1>2
<1> HIDE DEF r
<1>6. Past(p)' = {} /\ Running(p)'
  BY <1>3, <1>4, <1>5, ProgramShape DEF Past, Running
<1>7. /\ proc[p].fence = "none" /\ proc[p].intr = 0
      /\ \A m \in done : m.by # p
      /\ \A m \in OnDisk : m.by # p
  BY <1>2 DEF HInv, HistoryOf, LifeOf, PublishedBy, LeftBy, Within
<1>8. UNCHANGED <<disk, done, edits>> /\ OnDisk' = OnDisk
  BY DEF Start, OnDisk, Exists
<1>9. HistoryOf(p)'
  <2>1. LifeOf(p)'
    BY <1>3, <1>4, <1>5, <1>7 DEF LifeOf
  <2>2. PublishedBy(p)' /\ LeftBy(p)'
    BY <1>4, <1>5, <1>6, <1>7, <1>8 DEF PublishedBy, LeftBy
  <2>3. UnfinishedOf(p)'
    <3> SUFFICES ASSUME NEW e \in Paths, NEW st \in Stages, disk[e][WorkSlot[st]] # None,
                        disk[e][WorkSlot[st]].manifest.by = p
                 PROVE  FALSE
      BY <1>8 DEF UnfinishedOf, Exists
    <3>1. WorkSlot[st] \in Slots
      BY DEF WorkSlot, Slots, Stages
    <3> QED BY <1>7, <3>1, OnDiskIs
  <2>4. LoadedBy(p)' /\ HomeOf(p)'
    BY <1>3, <1>4, <1>5, <1>6 DEF LoadedBy, HomeOf
  <2> QED BY <2>1, <2>2, <2>3, <2>4 DEF HistoryOf
<1> QED BY <1>4, <1>5, <1>8, <1>9, Walks

LEMMA CheckHistory ==
    ASSUME HInv, IInv', NEW p \in Procs, Check(p)
    PROVE  HInv' /\ ShelfSame
<1>1. Running(p) /\ Op(p) = "check" /\ UNCHANGED <<done, edits>>
  BY DEF Check
<1>2. CASE proc[p].intr = 0
  BY <1>1, <1>2, AdvanceHistory DEF Check
<1>3. CASE proc[p].intr # 0
  <2>1. proc[p].intr = 1
    BY <1>3, Footing DEF HInv
  <2>2. CASE ~Holding(p) /\ Exit(p, "interrupted") /\ UNCHANGED disk
    BY <1>1, <2>1, <2>2, Ends DEF Endings
  <2>3. CASE /\ Holding(p) /\ Exit(p, "interrupted")
             /\ disk' = [disk EXCEPT ![proc[p].dir][WorkOf(p)].log = TRUE]
    BY <1>1, <2>1, <2>3, Ends, TraceOf DEF Endings, HInv
  <2>4. CASE Exit(p, "unlogged") /\ UNCHANGED disk
    BY <1>1, <2>1, <2>4, Ends DEF Endings
  <2> QED BY <1>3, <2>2, <2>3, <2>4 DEF Check
<1> QED BY <1>2, <1>3

LEMMA NameHistory ==
    ASSUME HInv, IInv', NEW p \in Procs, Name(p)
    PROVE  HInv' /\ ShelfSame
<1>1. Running(p) /\ Op(p) = "name" /\ UNCHANGED <<disk, done, edits>>
  BY DEF Name
<1>2. CASE proc[p].tries = MaxTries
  <2>1. Exit(p, "failed")
    BY <1>2 DEF Name
  <2> QED BY <1>1, <2>1, Ends DEF Endings
<1>3. CASE proc[p].tries # MaxTries
  <2>1. PICK s \in Sessions :
          proc' = [proc EXCEPT ![p].dir = <<s, "incomplete">>, ![p].at = @ + 1,
                               ![p].tries = @ + 1]
    BY <1>3 DEF Name
  <2> DEFINE r == [proc[p] EXCEPT !.dir = <<s, "incomplete">>, !.at = proc[p].at + 1,
                                  !.tries = proc[p].tries + 1]
  <2>2. proc[p] \in Processes /\ proc \in [Procs -> Processes]
    BY DEF HInv, IInv, TypeOK
  <2>3. proc[p].tries + 1 \in 0..MaxTries /\ <<s, "incomplete">> \in Paths
        /\ proc[p].at + 1 \in Nat \ {0}
    BY <2>2, <1>3, SessionAssumption DEF Processes, Paths
  <2>4. /\ r \in Processes /\ r.at = proc[p].at + 1 /\ r.state = proc[p].state
        /\ r.cmd = proc[p].cmd /\ r.stage = proc[p].stage /\ r.intr = proc[p].intr
        /\ r.fence = proc[p].fence
        /\ r.collection = proc[p].collection /\ r.diagnosis = proc[p].diagnosis
    BY <2>2, <2>3 DEF Processes
  <2>5. proc' = [proc EXCEPT ![p] = r]
    BY <2>1, <2>2
  <2> HIDE DEF r
  <2>6. proc'[p] = r /\ Past(p)' = Past(p) \cup {Op(p)}
    BY <1>1, <2>4, <2>5, OneStepOn DEF HInv
  <2>7. LoadedBy(p)'
    BY <1>1, <2>4, <2>6 DEF HInv, HistoryOf, LoadedBy, Running
  <2>8. TameFor(p) /\ CollectionsStay
    BY <1>1, NoDiskChange DEF HInv
  <2>9. HistoryOf(p)'
    BY <1>1, <2>4, <2>5, <2>7, <2>8, SteppedOn DEF HInv, Running
  <2> QED BY <1>1, <2>4, <2>5, <2>9, Walks
<1> QED BY <1>2, <1>3

LEMMA ProbeHistory ==
    ASSUME HInv, IInv', NEW p \in Procs, Probe(p)
    PROVE  HInv' /\ ShelfSame
<1>1. /\ Running(p) /\ Op(p) \in {"probeFinal", "probeIncomplete"}
      /\ UNCHANGED <<disk, done, edits>>
  BY DEF Probe
<1>2. CASE Advance(p)
  BY <1>1, <1>2, AdvanceHistory
<1>3. CASE Exit(p, "failed")
  BY <1>1, <1>3, Ends DEF Endings
<1>4. CASE proc[p].stage = "collect" /\ proc' = [proc EXCEPT ![p].at = 2]
  <2> DEFINE r == [proc[p] EXCEPT !.at = 2]
  <2>1. proc[p] \in Processes /\ proc \in [Procs -> Processes]
    BY DEF HInv, IInv, TypeOK
  <2>2. /\ r \in Processes /\ r.at = 2 /\ r.state = proc[p].state
        /\ r.cmd = proc[p].cmd /\ r.stage = proc[p].stage /\ r.intr = proc[p].intr
        /\ r.fence = proc[p].fence
    BY <2>1 DEF Processes
  <2>3. proc' = [proc EXCEPT ![p] = r] /\ proc'[p] = r
    BY <1>4, <2>1
  <2> HIDE DEF r
  <2>4. Past(p)' = {"check"} /\ Running(p)' /\ Goal(p)' = Goal(p)
    BY <1>1, <1>4, <2>2, <2>3, ProgramShape DEF Past, Running, Goal, Stages
  <2>5. /\ "mkdir" \notin Past(p) /\ "rename" \notin Past(p) /\ ~Holding(p)
        /\ proc[p].at # 1 /\ OnDisk' = OnDisk
    BY <1>1, Position, Footing DEF HInv, Reached, Holding, OnDisk, Exists
  <2>6. LifeOf(p)'
    BY <1>1, <2>2, <2>3, <2>5 DEF HInv, HistoryOf, LifeOf, Running
  <2>7. ASSUME NEW st, NEW step \in {"mkdir", "rename"}, Within(p, st, step)
        PROVE  Within(p, st, step)'
    BY <1>1, <2>2, <2>3, <2>5, <2>7 DEF Within, Running
  <2>8. PublishedBy(p)' /\ LeftBy(p)'
    BY <1>1, <2>2, <2>3, <2>4, <2>5, <2>7 DEF HInv, HistoryOf, PublishedBy, LeftBy, Running
  <2>9. UnfinishedOf(p)'
    BY <1>1, <2>2, <2>3, <2>5 DEF HInv, HistoryOf, UnfinishedOf, Exists, Running
  <2>10. LoadedBy(p)' /\ HomeOf(p)'
    BY <1>4, <2>2, <2>3, <2>4 DEF LoadedBy, HomeOf
  <2>11. HistoryOf(p)'
    BY <2>6, <2>8, <2>9, <2>10 DEF HistoryOf
  <2> QED BY <1>1, <2>2, <2>3, <2>11, Walks
<1> QED BY <1>2, <1>3, <1>4 DEF Probe

LEMMA ComputeHistory ==
    ASSUME HInv, IInv', NEW p \in Procs, Compute(p)
    PROVE  HInv' /\ ShelfSame
  BY AdvanceHistory DEF Compute

LEMMA CancelCollectorsHistory ==
    ASSUME HInv, IInv', NEW p \in Procs, CancelCollectors(p)
    PROVE  HInv' /\ ShelfSame
<1>1. /\ Running(p) /\ Op(p) = "compute" /\ proc[p].stage = "collect"
      /\ proc[p].intr > 0 /\ UNCHANGED <<done, edits>>
  BY DEF CancelCollectors
<1>2. Holding(p) /\ WorkOf(p) = "collection" /\ proc[p].intr = 1
  BY <1>1, Position, Footing DEF HInv, Holding, Reached, WorkOf, WorkSlot
<1>3. CASE /\ Exit(p, "interrupted")
           /\ disk' = [disk EXCEPT ![proc[p].dir]["collection"].log = TRUE]
  <2>1. disk' = [disk EXCEPT ![proc[p].dir][WorkOf(p)].log = TRUE]
    BY <1>2, <1>3
  <2>2. \E a \in Artifacts :
          /\ a.manifest = disk[proc[p].dir][WorkOf(p)].manifest /\ a.log
          /\ disk' = [disk EXCEPT ![proc[p].dir][WorkOf(p)] = a]
    BY <1>1, <1>2, <2>1, TraceOf DEF HInv
  <2>3. Exit(p, "interrupted") /\ "interrupted" \in Endings /\ Op(p) # "return"
    BY <1>1, <1>3 DEF Endings
  <2> QED BY <1>1, <1>2, <2>2, <2>3, Ends
<1>4. CASE Exit(p, "unlogged") /\ UNCHANGED disk
  BY <1>1, <1>2, <1>4, Ends DEF Endings
<1> QED BY <1>3, <1>4 DEF CancelCollectors

\* What makes a loaded input a good one.
LEMMA WellLoaded ==
    ASSUME NEW p \in Procs, NEW c, NEW d, done' = done,
           proc'[p].collection = c, proc'[p].diagnosis = d, c \in done, c.stage = "collect",
           proc'[p].cmd = "pipeline" => c.by = p /\ c.session = p,
           "loadDiagnosis" \in Past(p)' =>
             d \in done /\ d.stage = "diagnose" /\ d.session = c.session /\ d.inputs = {IdOf(c)}
    PROVE  LoadedBy(p)'
  BY DEF LoadedBy, IdOf

\* A step that loads.
LEMMA LoadHistory ==
    ASSUME HInv, IInv', NEW p \in Procs, Running(p),
           Op(p) \in {"loadCollection", "loadDiagnosis"},
           NEW c \in Manifests, NEW d \in Manifests \cup {None},
           proc' = [proc EXCEPT ![p].at = @ + 1, ![p].collection = c, ![p].diagnosis = d],
           c \in done /\ c.stage = "collect",
           proc[p].cmd = "pipeline" => c.by = p /\ c.session = p,
           "loadDiagnosis" \in Past(p) \cup {Op(p)} =>
             d \in done /\ d.stage = "diagnose" /\ d.session = c.session /\ d.inputs = {IdOf(c)},
           UNCHANGED <<disk, done, edits>>
    PROVE  HInv' /\ ShelfSame
<1> DEFINE r == [proc[p] EXCEPT !.at = proc[p].at + 1, !.collection = c, !.diagnosis = d]
<1>1. proc[p] \in Processes /\ proc \in [Procs -> Processes] /\ proc[p].at + 1 \in Nat \ {0}
  BY DEF HInv, IInv, TypeOK, Processes
<1>2. /\ r \in Processes /\ r.at = proc[p].at + 1 /\ r.state = proc[p].state
      /\ r.cmd = proc[p].cmd /\ r.stage = proc[p].stage /\ r.intr = proc[p].intr
      /\ r.fence = proc[p].fence /\ r.dir = proc[p].dir
      /\ r.collection = c /\ r.diagnosis = d
  BY <1>1 DEF Processes
<1>3. proc' = [proc EXCEPT ![p] = r]
  BY <1>1
<1> HIDE DEF r
<1>4. proc'[p] = r /\ Past(p)' = Past(p) \cup {Op(p)}
  BY <1>2, <1>3, OneStepOn DEF HInv
<1>5. LoadedBy(p)'
  <2>1. "loadDiagnosis" \in Past(p)' =>
          d \in done /\ d.stage = "diagnose" /\ d.session = c.session /\ d.inputs = {IdOf(c)}
    BY <1>4
  <2>2. proc'[p].collection = c /\ proc'[p].diagnosis = d /\ proc'[p].cmd = proc[p].cmd
    BY <1>2, <1>4
  <2> QED BY <2>1, <2>2, WellLoaded
<1>6. TameFor(p) /\ CollectionsStay
  BY NoDiskChange DEF HInv
<1>7. HistoryOf(p)'
  BY <1>2, <1>3, <1>5, <1>6, SteppedOn DEF HInv, Running
<1> QED BY <1>2, <1>3, <1>7, Walks

\* What is in place in a session directory was published, and is of its stage.
LEMMA FoundInPlace ==
    ASSUME HInv, NEW s \in Sessions, NEW st \in Stages, NEW a,
           a = disk[<<s, "final">>][FinalSlot[st]], a # None
    PROVE  a \in Artifacts /\ a.manifest \in done \cap Manifests /\ a.manifest.stage = st
<1>1. InPlace(s, st) = a /\ <<s, "final">> \in Paths /\ FinalSlot[st] \in Slots
  BY DEF InPlace, Paths, FinalSlot, Slots, Stages
<1>2. disk \in [Paths -> [Slots -> Artifacts \cup {None}]] /\ PublishedComplete
  BY DEF HInv, IInv, TypeOK
<1>3. a \in Artifacts
  BY <1>1, <1>2
<1>4. a.manifest \in done /\ a.manifest.stage = st
  BY <1>1, <1>2 DEF HInv, ShelfPublished, PublishedComplete
<1> QED BY <1>3, <1>4 DEF Artifacts

LEMMA LoadCollectionHistory ==
    ASSUME HInv, IInv', NEW p \in Procs, LoadCollection(p)
    PROVE  HInv' /\ ShelfSame
<1> DEFINE a == disk[proc[p].dir]["collection"]
<1>1. /\ Running(p) /\ Op(p) = "loadCollection" /\ UNCHANGED <<disk, done, edits>>
      /\ a # None
      /\ proc' = [proc EXCEPT ![p].at = @ + 1, ![p].collection = a.manifest,
                              ![p].diagnosis = None]
  BY DEF LoadCollection, Exists
<1>2. proc[p].stage # "collect" /\ "loadDiagnosis" \notin Past(p)
  BY <1>1, Position DEF HInv, Reached
<1>3. PICK s \in Sessions : proc[p].dir = <<s, "final">>
  BY <1>1, <1>2, AtHome DEF HInv
<1>4. "collect" \in Stages /\ FinalSlot["collect"] = "collection"
  BY DEF Stages, FinalSlot
<1>5. a.manifest \in done \cap Manifests /\ a.manifest.stage = "collect"
  BY <1>1, <1>3, <1>4, FoundInPlace
<1>6. proc[p].cmd = "pipeline" => a.manifest.by = p /\ a.manifest.session = p
  BY <1>1, <1>2 DEF HInv, HistoryOf, HomeOf, FinalPath
<1> HIDE DEF a
<1> QED BY <1>1, <1>2, <1>5, <1>6, LoadHistory

LEMMA LoadDiagnosisHistory ==
    ASSUME HInv, IInv', NEW p \in Procs, LoadDiagnosis(p)
    PROVE  HInv' /\ ShelfSame
<1> DEFINE a == disk[proc[p].dir]["diagnosis"]
           c == proc[p].collection
<1>1. /\ Running(p) /\ Op(p) = "loadDiagnosis" /\ UNCHANGED <<disk, done, edits>>
      /\ a # None /\ a.manifest.session = c.session /\ a.manifest.inputs = {IdOf(c)}
      /\ proc' = [proc EXCEPT ![p].at = @ + 1, ![p].diagnosis = a.manifest]
  BY DEF LoadDiagnosis, Exists
<1>2. proc[p].stage # "collect" /\ "loadCollection" \in Past(p)
  BY <1>1, Position DEF HInv, Reached
<1>3. PICK s \in Sessions : proc[p].dir = <<s, "final">>
  BY <1>1, <1>2, AtHome DEF HInv
<1>4. "diagnose" \in Stages /\ FinalSlot["diagnose"] = "diagnosis"
  BY DEF Stages, FinalSlot
<1>5. a.manifest \in done \cap Manifests /\ a.manifest.stage = "diagnose"
  BY <1>1, <1>3, <1>4, FoundInPlace
<1>6. /\ c \in done \cap Manifests /\ c.stage = "collect"
      /\ proc[p].cmd = "pipeline" => c.by = p /\ c.session = p
  BY <1>1, <1>2, AtHome DEF HInv, HistoryOf, LoadedBy
<1>7. proc[p] \in Processes /\ proc \in [Procs -> Processes]
  BY DEF HInv, IInv, TypeOK
<1>8. proc' = [proc EXCEPT ![p].at = @ + 1, ![p].collection = c, ![p].diagnosis = a.manifest]
  BY <1>1, <1>7 DEF Processes
<1> HIDE DEF a, c
<1> QED BY <1>1, <1>5, <1>6, <1>8, LoadHistory

LEMMA StageKnown ==
    ASSUME IInv
    PROVE  \A m \in done \cup OnDisk : m \in Manifests /\ m.stage \in Stages
<1>1. \A m \in done : m \in Manifests
  BY DEF IInv, TypeOK
<1>2. \A m \in OnDisk : m \in Manifests
  BY OnDiskIs DEF IInv, TypeOK, Artifacts
<1> QED BY <1>1, <1>2 DEF Manifests

LEMMA ReturnHistory ==
    ASSUME HInv, IInv', NEW p \in Procs, Return(p)
    PROVE  HInv' /\ ShelfSame
<1>1. Running(p) /\ Op(p) = "return" /\ UNCHANGED <<disk, done, edits>>
  BY DEF Return
<1>2. /\ proc[p] \in Processes /\ proc \in [Procs -> Processes] /\ proc[p].stage \in Stages
      /\ "rename" \in Past(p) /\ ~Holding(p)
  BY <1>1, Position DEF HInv, IInv, TypeOK, Reached, Holding
<1>3. CASE (proc[p].cmd # "pipeline" \/ proc[p].stage = "report") /\ Exit(p, "published")
  <2>1. Goal(p) = proc[p].stage
    BY <1>1, <1>3 DEF HInv, HistoryOf, LifeOf, Goal
  <2>2. Delivered(p)
    BY <1>1, <1>2, <2>1 DEF HInv, HistoryOf, PublishedBy, Delivered
  <2> QED BY <1>1, <1>2, <1>3, <2>2, Ends DEF Endings
<1>4. CASE /\ proc[p].cmd = "pipeline" /\ proc[p].stage # "report"
           /\ proc' = [proc EXCEPT ![p].stage = NextStage[@], ![p].at = 1,
                                   ![p].dir = FinalPath(p)]
  <2> DEFINE r == [proc[p] EXCEPT !.stage = NextStage[@], !.at = 1, !.dir = FinalPath(p)]
  <2>1. NextStage[proc[p].stage] \in {"diagnose", "report"}
        /\ Rank[proc[p].stage] < Rank[NextStage[proc[p].stage]]
    BY <1>2, <1>4 DEF NextStage, Stages, Rank
  <2>2. FinalPath(p) \in Paths
    BY <1>1, <1>2, FinalPathIs DEF HInv, Paths
  <2>3. NextStage[proc[p].stage] \in Stages /\ 1 \in Nat \ {0}
    BY <2>1 DEF Stages
  <2>4. /\ r \in Processes /\ r.at = 1 /\ r.dir = FinalPath(p)
        /\ r.stage = NextStage[proc[p].stage] /\ r.state = proc[p].state
        /\ r.cmd = proc[p].cmd /\ r.intr = proc[p].intr /\ r.fence = proc[p].fence
    BY <1>2, <2>2, <2>3 DEF Processes
  <2>5. proc' = [proc EXCEPT ![p] = r] /\ proc'[p] = r
    BY <1>2, <1>4
  <2> HIDE DEF r
  <2>6. /\ Past(p)' = {} /\ Running(p)' /\ Goal(p)' = Goal(p) /\ FinalPath(p)' = FinalPath(p)
        /\ OnDisk' = OnDisk
    BY <1>1, <2>1, <2>3, <2>4, <2>5, ProgramShape DEF Past, Running, Goal, FinalPath, OnDisk, Exists
  <2>7. LifeOf(p)'
    BY <1>1, <1>4, <2>4, <2>5 DEF HInv, HistoryOf, LifeOf, Running
  <2>8. ASSUME NEW st \in Stages, NEW step, Within(p, st, step)
        PROVE  Within(p, st, step)'
    <3>1. Rank[st] < Rank[proc[p].stage] \/ st = proc[p].stage
      BY <1>1, <2>8 DEF Within
    <3>2. Rank[st] < Rank[r.stage]
      BY <1>2, <2>1, <2>4, <3>1 DEF Rank, Stages
    <3> QED BY <1>1, <2>4, <2>5, <2>8, <3>2 DEF Within, Running
  <2>9. \A m \in done \cup OnDisk : m.stage \in Stages
    BY StageKnown DEF HInv
  <2>10. PublishedBy(p)' /\ LeftBy(p)'
    BY <1>1, <2>4, <2>5, <2>6, <2>8, <2>9 DEF HInv, HistoryOf, PublishedBy, LeftBy, Running
  <2>11. UnfinishedOf(p)'
    BY <1>1, <1>2, <2>4, <2>5 DEF HInv, HistoryOf, UnfinishedOf, Exists, Running
  <2>12. LoadedBy(p)'
    BY <2>6 DEF LoadedBy
  <2>13. HomeOf(p)'
    BY <1>1, <1>2, <1>4, <2>6 DEF HInv, HistoryOf, HomeOf, Exists
  <2>14. HistoryOf(p)'
    BY <2>7, <2>10, <2>11, <2>12, <2>13 DEF HistoryOf
  <2> QED BY <1>1, <2>4, <2>5, <2>14, Walks
<1> QED BY <1>3, <1>4 DEF Return

\* A process that stops where it stands.
LEMMA StopHistory ==
    ASSUME HInv, IInv', NEW p \in Procs, Running(p), NEW how \in {"failed", "aborted", "crashed"},
           Exit(p, how), MayTear(p), UNCHANGED <<done, edits>>,
           how = "failed" => Op(p) # "return"
    PROVE  HInv' /\ ShelfSame
<1>1. how \in Endings /\ how \notin {"published", "interrupted", "unlogged"}
  BY DEF Endings
<1>2. CASE UNCHANGED disk
  BY <1>1, <1>2, Ends
<1>3. CASE /\ Op(p) \in FileNames
           /\ disk' = [disk EXCEPT ![proc[p].dir][WorkOf(p)].torn = @ \cup {Op(p)}]
  <2>1. Holding(p)
    BY <1>3, Position DEF HInv, Reached, Holding
  <2> QED BY <1>1, <1>3, <2>1, Ends, TraceOf DEF HInv
<1> QED BY <1>2, <1>3 DEF MayTear

LEMMA FailHistory ==
    ASSUME HInv, IInv', NEW p \in Procs, Fail(p)
    PROVE  HInv' /\ ShelfSame
  BY StopHistory DEF Fail

LEMMA CrashHistory ==
    ASSUME HInv, IInv', NEW p \in Procs, Crash(p)
    PROVE  HInv' /\ ShelfSame
  BY StopHistory DEF Crash

LEMMA CtrlCHistory ==
    ASSUME HInv, IInv', NEW p \in Procs, CtrlC(p)
    PROVE  HInv' /\ ShelfSame
<1>1. Running(p) /\ UNCHANGED <<done, edits>>
  BY DEF CtrlC
<1>2. CASE Exit(p, "aborted") /\ MayTear(p)
  BY <1>1, <1>2, StopHistory
<1>3. CASE /\ proc[p].intr = 0 /\ UNCHANGED disk
           /\ proc' = [proc EXCEPT ![p].intr = 1, ![p].fence = proc[p].stage]
  <2> DEFINE r == [proc[p] EXCEPT !.intr = 1, !.fence = proc[p].stage]
  <2>1. proc[p] \in Processes /\ proc \in [Procs -> Processes] /\ proc[p].stage \in Stages
    BY Position DEF HInv, IInv, TypeOK
  <2>2. /\ r \in Processes /\ r.at = proc[p].at /\ r.state = proc[p].state
        /\ r.cmd = proc[p].cmd /\ r.stage = proc[p].stage /\ r.intr = 1
        /\ r.fence = proc[p].stage /\ r.dir = proc[p].dir
        /\ r.collection = proc[p].collection /\ r.diagnosis = proc[p].diagnosis
    <3>1. proc[p] \in Processes /\ proc[p].stage \in Stages \cup {"none"} /\ 1 \in 0..1
      BY <2>1
    <3> QED BY <3>1 DEF Processes
  <2>3. proc' = [proc EXCEPT ![p] = r] /\ proc'[p] = r
    BY <1>3, <2>1
  <2> HIDE DEF r
  <2>4. /\ Past(p)' = Past(p) /\ Running(p)' /\ Goal(p)' = Goal(p) /\ FinalPath(p)' = FinalPath(p)
        /\ Holding(p)' = Holding(p) /\ OnDisk' = OnDisk
    <3>1. Past(p)' = Past(p) /\ Running(p)' /\ Goal(p)' = Goal(p) /\ FinalPath(p)' = FinalPath(p)
      BY <1>1, <2>2, <2>3 DEF Past, Running, Goal, FinalPath
    <3>2. OnDisk' = OnDisk
      BY <1>3 DEF OnDisk, Exists
    <3> QED BY <3>1, <3>2 DEF Holding
  <2>5. LifeOf(p)'
    BY <1>1, <2>1, <2>2, <2>3 DEF HInv, HistoryOf, LifeOf, Running, Rank, Stages
  <2>6. ASSUME NEW st \in Stages, NEW step, Within(p, st, step)
        PROVE  Within(p, st, step)'
    <3>1. Rank[st] <= Rank[proc[p].stage]
      BY <1>1, <2>1, <2>6 DEF Within, Rank, Stages
    <3> QED BY <1>1, <2>2, <2>3, <2>4, <2>6, <3>1 DEF Within, Running
  <2>7. \A m \in done \cup OnDisk : m.stage \in Stages
    BY StageKnown DEF HInv
  <2>8. PublishedBy(p)' /\ LeftBy(p)'
    BY <1>1, <2>2, <2>3, <2>4, <2>6, <2>7 DEF HInv, HistoryOf, PublishedBy, LeftBy, Running
  <2>9. UnfinishedOf(p)'
    BY <1>1, <1>3, <2>2, <2>3, <2>4 DEF HInv, HistoryOf, UnfinishedOf, Exists, Running
  <2>10. LoadedBy(p)'
    BY <1>1, <2>2, <2>3, <2>4 DEF HInv, HistoryOf, LoadedBy, Running
  <2>11. HomeOf(p)'
    BY <1>1, <1>3, <2>2, <2>3, <2>4 DEF HInv, HistoryOf, HomeOf, Exists, Running
  <2>12. HistoryOf(p)'
    BY <2>5, <2>8, <2>9, <2>10, <2>11 DEF HistoryOf
  <2> QED BY <1>1, <1>3, <2>2, <2>3, <2>12, Walks
<1> QED BY <1>2, <1>3 DEF CtrlC

-----------------------------------------------------------------------------
(* The steps that make an artifact.                                        *)

LEMMA WorkSlotsDiffer ==
    \A g, h \in Stages : WorkSlot[g] \in Slots /\ (WorkSlot[g] = WorkSlot[h] => g = h)
  BY DEF WorkSlot, Slots, Stages

LEMMA MkdirHistory ==
    ASSUME HInv, IInv', NEW p \in Procs, Mkdir(p)
    PROVE  HInv' /\ ShelfSame
<1> DEFINE a == NewArtifact(ManifestOf(p))
<1>1. /\ Running(p) /\ Op(p) = "mkdir" /\ disk[proc[p].dir][WorkOf(p)] = None
      /\ proc[p].stage # "collect" => disk[proc[p].dir]["collection"] # None
      /\ Put(proc[p].dir, WorkOf(p), a)
      /\ Advance(p) /\ UNCHANGED <<done, edits>>
  BY DEF Mkdir, Exists, Put
<1>2. /\ proc[p].stage \in Stages /\ "mkdir" \notin Past(p) /\ "rename" \notin Past(p)
      /\ proc[p].stage # "collect" => "loadCollection" \in Past(p)
      /\ proc[p].stage = "report" => "loadDiagnosis" \in Past(p)
      /\ proc[p].stage = "collect" => "name" \in Past(p)
      /\ proc[p].at # 1
  BY <1>1, Position, Footing DEF HInv, Reached
<1>3. a \in Artifacts /\ a.manifest.by = p /\ a.manifest.stage = proc[p].stage
  <2>1. ManifestOf(p) \in Manifests
    BY <1>1, <1>2, OwnManifest DEF HInv
  <2> QED BY <2>1 DEF NewArtifact, Artifacts, ManifestOf
<1>4. /\ proc[p].dir \in Paths /\ WorkOf(p) \in Slots
      /\ Workbench(proc[p].dir, WorkOf(p))
  <2>1. CASE proc[p].stage = "collect"
    <3>1. \E s \in Sessions : proc[p].dir = <<s, "incomplete">>
      BY <1>1, <1>2, <2>1 DEF HInv, IInv, ControlOK
    <3> QED BY <2>1, <3>1 DEF WorkOf, WorkSlot, Workbench, Paths, Slots
  <2>2. CASE proc[p].stage # "collect"
    BY <1>1, <1>2, <2>2, AtHome DEF HInv, WorkOf, WorkSlot, Workbench, Slots, Stages
  <2> QED BY <2>1, <2>2
<1> HIDE DEF a
<1>5. /\ ~(WorkOf(p) = "collection" /\ proc[p].dir[2] = "final")
      /\ \A s \in Sessions, st \in Stages :
           ~(proc[p].dir = <<s, "final">> /\ WorkOf(p) = FinalSlot[st])
  BY <1>4 DEF Workbench, FinalSlot, Stages
<1>6. ShelfSame
  BY <1>1, <1>3, <1>4, WorkbenchChange DEF HInv, Put, ShelfSame
<1>7. ASSUME NEW q \in Procs, q # p
      PROVE  TameFor(q)
  BY <1>1, <1>3, <1>4, <1>5, <1>7, PlaceChange DEF HInv
<1>8. CollectionsStay /\ ShelfPublished'
  <2>1. disk \in [Paths -> [Slots -> Artifacts \cup {None}]]
    BY DEF HInv, IInv, TypeOK
  <2>2. CollectionsStay
    <3> SUFFICES ASSUME NEW s \in Sessions, disk[<<s, "final">>]["collection"] # None
                 PROVE  disk'[<<s, "final">>]["collection"] = disk[<<s, "final">>]["collection"]
      BY DEF CollectionsStay
    <3>1. "collect" \in Stages /\ FinalSlot["collect"] = "collection"
      BY DEF Stages, FinalSlot
    <3> QED BY <1>6, <3>1 DEF ShelfSame, InPlace
  <2> QED BY <1>1, <1>6, <2>2 DEF HInv, ShelfPublished, ShelfSame
<1>9. /\ disk'[proc[p].dir][WorkOf(p)] = a
      /\ \A e \in Paths, y \in Slots :
           <<e, y>> # <<proc[p].dir, WorkOf(p)>> => disk'[e][y] = disk[e][y]
  <2>1. PICK d \in Paths, x \in Slots : d = proc[p].dir /\ x = WorkOf(p)
    BY <1>4
  <2>2. disk' = [disk EXCEPT ![d][x] = a]
    BY <1>1, <2>1 DEF Put
  <2>3. disk \in [Paths -> [Slots -> Artifacts \cup {None}]]
    BY DEF HInv, IInv, TypeOK
  <2>4. /\ disk'[d][x] = a
        /\ \A e \in Paths, y \in Slots : <<e, y>> # <<d, x>> => disk'[e][y] = disk[e][y]
    BY <2>2, <2>3
  <2> QED BY <2>1, <2>4
<1> DEFINE r == [proc[p] EXCEPT !.at = proc[p].at + 1]
<1>10. proc[p] \in Processes /\ proc \in [Procs -> Processes]
  BY DEF HInv, IInv, TypeOK
<1>11. /\ r \in Processes /\ r.at = proc[p].at + 1 /\ r.state = proc[p].state
       /\ r.cmd = proc[p].cmd /\ r.stage = proc[p].stage /\ r.intr = proc[p].intr
       /\ r.fence = proc[p].fence /\ r.dir = proc[p].dir
       /\ r.collection = proc[p].collection /\ r.diagnosis = proc[p].diagnosis
  BY <1>10 DEF Processes
<1>12. proc' = [proc EXCEPT ![p] = r]
  BY <1>1, <1>10 DEF Advance
<1> HIDE DEF r
<1>13. /\ proc'[p] = r /\ Past(p)' = Past(p) \cup {"mkdir"} /\ Running(p)'
       /\ Goal(p)' = Goal(p) /\ FinalPath(p)' = FinalPath(p) /\ Holding(p)'
       /\ \A q \in Procs : q # p => proc'[q] = proc[q]
  <2>1. proc'[p] = r /\ Past(p)' = Past(p) \cup {"mkdir"}
    BY <1>1, <1>11, <1>12, OneStepOn DEF HInv
  <2> QED BY <1>1, <1>2, <1>10, <1>11, <1>12, <2>1 DEF Running, Goal, FinalPath, Holding
<1>14. proc[p].fence # "none" => Rank[proc[p].stage] <= Rank[proc[p].fence]
  BY <1>1, <1>2 DEF HInv, HistoryOf, LifeOf
<1>15. HistoryOf(p)'
  <2>1. LifeOf(p)'
    BY <1>1, <1>11, <1>13, <1>14 DEF HInv, HistoryOf, LifeOf, Running
  <2>2. \A st : \A step : Within(p, st, step) => Within(p, st, step)'
    BY <1>1, <1>11, <1>13 DEF Within, Running
  <2>3. PublishedBy(p)'
    BY <1>1, <1>2, <1>11, <1>13, <2>2 DEF HInv, HistoryOf, PublishedBy, Running
  <2>4. LeftBy(p)'
    <3> SUFFICES ASSUME NEW m \in OnDisk', m.by = p
                 PROVE  Within(p, m.stage, "mkdir")'
      BY DEF LeftBy
    <3>1. PICK e \in Paths, y \in Slots : disk'[e][y] # None /\ m = disk'[e][y].manifest
      BY OnDiskThen
    <3>2. CASE <<e, y>> = <<proc[p].dir, WorkOf(p)>>
      BY <1>3, <1>9, <1>11, <1>13, <1>14, <3>1, <3>2 DEF Within, Running
    <3>3. CASE <<e, y>> # <<proc[p].dir, WorkOf(p)>>
      <4>1. m \in OnDisk
        BY <1>9, <3>1, <3>3, OnDiskIs
      <4> QED BY <2>2, <4>1 DEF HInv, HistoryOf, LeftBy
    <3> QED BY <3>2, <3>3
  <2>5. UnfinishedOf(p)'
    <3> SUFFICES ASSUME NEW e \in Paths, NEW st \in Stages, Bench(e, st),
                        disk'[e][WorkSlot[st]] # None, disk'[e][WorkSlot[st]].manifest.by = p
                 PROVE  r.dir = e /\ r.stage = st
      BY <1>1, <1>11, <1>13 DEF UnfinishedOf, Exists, Bench, Running
    <3>1. CASE <<e, WorkSlot[st]>> = <<proc[p].dir, WorkOf(p)>>
      BY <1>2, <1>11, <3>1, WorkSlotsDiffer DEF WorkOf
    <3>2. CASE <<e, WorkSlot[st]>> # <<proc[p].dir, WorkOf(p)>>
      <4>1. disk[e][WorkSlot[st]] # None /\ disk[e][WorkSlot[st]].manifest.by = p
        BY <1>9, <3>2, WorkSlotsDiffer
      <4> QED BY <1>1, <1>2, <4>1 DEF HInv, HistoryOf, UnfinishedOf, Exists, Holding
    <3> QED BY <3>1, <3>2
  <2>6. LoadedBy(p)'
    BY <1>1, <1>11, <1>13 DEF HInv, HistoryOf, LoadedBy
  <2>7. HomeOf(p)'
    <3> SUFFICES ASSUME proc[p].cmd = "pipeline", proc[p].stage # "collect"
                 PROVE  /\ disk'[FinalPath(p)]["collection"] # None
                        /\ disk'[FinalPath(p)]["collection"].manifest.by = p
                        /\ disk'[FinalPath(p)]["collection"].manifest.session = p
      BY <1>2, <1>11, <1>13 DEF HomeOf, Exists
    <3>1. /\ disk[FinalPath(p)]["collection"] # None
          /\ disk[FinalPath(p)]["collection"].manifest.by = p
          /\ disk[FinalPath(p)]["collection"].manifest.session = p
      BY <1>1 DEF HInv, HistoryOf, HomeOf, Exists
    <3>2. \E s \in Sessions : FinalPath(p) = <<s, "final">>
      BY <1>1, FinalPathIs DEF HInv
    <3> QED BY <1>8, <3>1, <3>2 DEF CollectionsStay
  <2> QED BY <2>1, <2>3, <2>4, <2>5, <2>6, <2>7 DEF HistoryOf
<1> QED BY <1>1, <1>6, <1>7, <1>8, <1>13, <1>15, OthersLookOn

LEMMA WriteHistory ==
    ASSUME HInv, IInv', NEW p \in Procs, Write(p)
    PROVE  HInv' /\ ShelfSame
<1>1. /\ Running(p) /\ Op(p) \in FileNames /\ Advance(p) /\ UNCHANGED <<done, edits>>
      /\ disk' = [disk EXCEPT ![proc[p].dir][WorkOf(p)].files = @ \cup {Op(p)}]
  BY DEF Write
<1>2. Holding(p)
  BY <1>1, Position DEF HInv, Reached, Holding
<1>3. PICK a \in Artifacts :
        /\ a.manifest = disk[proc[p].dir][WorkOf(p)].manifest
        /\ disk' = [disk EXCEPT ![proc[p].dir][WorkOf(p)] = a]
  BY <1>1, <1>2, TraceOf DEF HInv
<1>4. /\ \A q \in Procs : TameFor(q)
      /\ CollectionsStay /\ ShelfPublished' /\ ShelfSame
  BY <1>1, <1>2, <1>3, OwnBench
<1>5. Op(p) \notin {"check", "name", "mkdir", "rename", "return", "loadCollection", "loadDiagnosis"}
  BY <1>1 DEF FileNames, Expected, Stages
<1>6. HistoryOf(p)'
  BY <1>1, <1>4, <1>5, Advances
<1>7. \A q \in Procs : q # p => proc'[q] = proc[q]
  BY <1>1 DEF Advance, HInv, IInv, TypeOK
<1> QED BY <1>1, <1>4, <1>6, <1>7, OthersLookOn

-----------------------------------------------------------------------------
(* Publishing.                                                             *)

\* What a rename moves, whether it renames the session directory or one inside.
LEMMA RenameMoves ==
    ASSUME IInv, NEW p \in Procs, Rename(p)
    PROVE  /\ \E s \in Sessions :
                /\ FinalPath(p) = <<s, "final">>
                /\ proc[p].stage = "collect" \/ disk[<<s, "final">>]["collection"] # None
           /\ disk[FinalPath(p)][FinalOf(p)] = None
           /\ \A e \in Paths, y \in Slots :
                disk'[e][y] = IF <<e, y>> = <<FinalPath(p), FinalOf(p)>>
                              THEN disk[proc[p].dir][WorkOf(p)]
                              ELSE IF <<e, y>> = <<proc[p].dir, WorkOf(p)>> THEN None
                              ELSE disk[e][y]
<1>1. /\ Running(p) /\ Holding(p) /\ disk[FinalPath(p)][FinalOf(p)] = None
      /\ disk \in [Paths -> [Slots -> Artifacts \cup {None}]]
  BY RenamedIsWhole DEF Rename, Exists, IInv, TypeOK
<1>2. CASE proc[p].stage = "collect"
  <2>1. WorkOf(p) = "collection" /\ FinalOf(p) = "collection" /\ "collection" \in Slots
    BY <1>2 DEF WorkOf, FinalOf, WorkSlot, FinalSlot, Slots
  <2>2. PICK s \in Sessions : proc[p].dir = <<s, "incomplete">>
    BY <1>1, <1>2, Workplace
  <2> DEFINE old == <<s, "incomplete">>
             new == <<s, "final">>
  <2>3. old \in Paths /\ new \in Paths /\ old # new /\ FinalPath(p) = new
    BY <1>2, <2>2 DEF Paths, FinalPath
  <2>4. disk' = [disk EXCEPT ![new] = disk[old], ![old] = Vacant]
    BY <1>2, <2>2, <2>3 DEF Rename
  <2>5. /\ \A x \in Slots : Vacant[x] = None
        /\ disk[new] = Vacant /\ \A x \in Slots \ {"collection"} : disk[old][x] = None
    BY <1>1, <2>1, <2>3 DEF Vacant, IInv, DirectoryOK
  <2>6. disk'[new] = disk[old] /\ disk'[old] = Vacant
        /\ \A d \in Paths : d # new /\ d # old => disk'[d] = disk[d]
    BY <1>1, <2>3, <2>4
  <2> HIDE DEF old, new
  <2>7. ASSUME NEW e \in Paths, NEW y \in Slots
        PROVE  disk'[e][y] = IF <<e, y>> = <<new, "collection">> THEN disk[old]["collection"]
                             ELSE IF <<e, y>> = <<old, "collection">> THEN None
                             ELSE disk[e][y]
    <3>1. CASE e = new BY <2>3, <2>5, <2>6, <3>1
    <3>2. CASE e = old BY <2>3, <2>5, <2>6, <3>2
    <3>3. CASE e # new /\ e # old BY <2>6, <3>3
    <3> QED BY <3>1, <3>2, <3>3
  <2> QED BY <1>1, <1>2, <2>1, <2>2, <2>3, <2>7 DEF old, new
<1>3. CASE proc[p].stage # "collect"
  <2>1. PICK s \in Sessions : proc[p].dir = <<s, "final">>
    BY <1>1, <1>3, Workplace
  <2>2. /\ FinalPath(p) = proc[p].dir /\ proc[p].dir \in Paths
        /\ WorkOf(p) \in Slots /\ FinalOf(p) \in Slots /\ WorkOf(p) # FinalOf(p)
    BY <1>3, <2>1, Position DEF FinalPath, Paths, WorkOf, FinalOf, WorkSlot, FinalSlot, Slots, Stages
  <2>3. disk' = [disk EXCEPT ![proc[p].dir] =
                    [@ EXCEPT ![FinalOf(p)] = disk[proc[p].dir][WorkOf(p)], ![WorkOf(p)] = None]]
    BY <1>3 DEF Rename
  <2>4. /\ \A e \in Paths : e # proc[p].dir => disk'[e] = disk[e]
        /\ disk'[proc[p].dir] = [disk[proc[p].dir] EXCEPT
             ![FinalOf(p)] = disk[proc[p].dir][WorkOf(p)], ![WorkOf(p)] = None]
    BY <1>1, <2>2, <2>3
  <2>5. disk[proc[p].dir] \in [Slots -> Artifacts \cup {None}]
    BY <1>1, <2>2
  <2>6. \A y \in Slots : disk'[proc[p].dir][y] =
          IF y = WorkOf(p) THEN None
          ELSE IF y = FinalOf(p) THEN disk[proc[p].dir][WorkOf(p)] ELSE disk[proc[p].dir][y]
    BY <2>2, <2>4, <2>5
  <2>7. disk[proc[p].dir]["collection"] # None
    BY <1>1, <2>1, HolderAtWorkbench DEF Workbench
  <2> QED BY <1>1, <2>1, <2>2, <2>4, <2>6, <2>7
<1> QED BY <1>2, <1>3

LEMMA FinalSlotsDiffer ==
    /\ \A g, h \in Stages : /\ FinalSlot[g] \in Slots
                            /\ FinalSlot[g] = FinalSlot[h] => g = h
                            /\ FinalSlot[g] = WorkSlot[h] => g = "collect" /\ h = "collect"
    /\ FinalSlot["collect"] = "collection" /\ "collect" \in Stages
  BY DEF FinalSlot, WorkSlot, Slots, Stages

\* Its effect on the shelf, and on what others find.
LEMMA RenamePublishes ==
    ASSUME HInv, NEW p \in Procs, Rename(p), NEW g, g = proc[p].stage, NEW m, m = ManifestOf(p),
           NEW a, a = disk[proc[p].dir][WorkOf(p)]
    PROVE  /\ a.manifest = m /\ a \in Artifacts /\ ~a.edited
           /\ done' = done \cup {m} /\ m.by = p /\ m.stage = g
           /\ \E s \in Sessions :
                /\ FinalPath(p) = <<s, "final">>
                /\ InPlace(s, g) = None /\ InPlace(s, g)' = a
                /\ \A t \in Sessions, st \in Stages :
                     <<t, st>> # <<s, g>> => InPlace(t, st)' = InPlace(t, st)
                /\ g = "collect" \/ InPlace(s, "collect") # None
           /\ \A q \in Procs : TameFor(q)
           /\ CollectionsStay
           /\ ShelfPublished'
           /\ disk'[proc[p].dir][WorkOf(p)] = None
<1>1. /\ Running(p) /\ Holding(p) /\ a \in Artifacts /\ g \in Stages
      /\ proc[p].dir \in Paths /\ WorkOf(p) \in Slots /\ Workbench(proc[p].dir, WorkOf(p))
  BY RenamedIsWhole, Workplace, HolderAtWorkbench, Position DEF HInv
<1>2. a.manifest = m /\ a \in Artifacts /\ ~a.edited
  <2>1. a = [NewArtifact(m) EXCEPT !.files = Past(p) \cap FileNames]
    BY <1>1 DEF HInv, IInv, HolderOwnsDirectory
  <2> QED BY <1>1, <2>1 DEF NewArtifact
<1>3. done' = done \cup {m} /\ m.by = p /\ m.stage = g
  BY <1>2 DEF Rename, ManifestOf
<1>4. PICK s \in Sessions :
        /\ FinalPath(p) = <<s, "final">>
        /\ g = "collect" \/ disk[<<s, "final">>]["collection"] # None
  BY RenameMoves DEF HInv
<1>5. /\ <<s, "final">> \in Paths /\ FinalOf(p) = FinalSlot[g] /\ WorkOf(p) = WorkSlot[g]
      /\ \A t \in Sessions : <<t, "final">> \in Paths
  BY DEF Paths, FinalOf, WorkOf
<1>6. /\ disk[<<s, "final">>][FinalSlot[g]] = None
      /\ \A e \in Paths, y \in Slots :
           disk'[e][y] = IF <<e, y>> = <<<<s, "final">>, FinalSlot[g]>> THEN a
                         ELSE IF <<e, y>> = <<proc[p].dir, WorkSlot[g]>> THEN None
                         ELSE disk[e][y]
  BY <1>4, <1>5, RenameMoves DEF HInv
<1>7. \A t \in Sessions, st \in Stages :
        <<<<t, "final">>, FinalSlot[st]>> # <<proc[p].dir, WorkSlot[g]>>
  BY <1>1, <1>5 DEF Workbench, FinalSlot, Stages
<1>8. /\ InPlace(s, g) = None /\ InPlace(s, g)' = a
      /\ \A t \in Sessions, st \in Stages :
           <<t, st>> # <<s, g>> => InPlace(t, st)' = InPlace(t, st)
  <2>1. InPlace(s, g) = None /\ InPlace(s, g)' = a
    <3>1. FinalSlot[g] \in Slots
      BY <1>1, FinalSlotsDiffer
    <3>2. disk'[<<s, "final">>][FinalSlot[g]] = a
      BY <1>5, <1>6, <3>1
    <3> QED BY <1>6, <3>2 DEF InPlace
  <2>2. ASSUME NEW t \in Sessions, NEW st \in Stages, <<t, st>> # <<s, g>>
        PROVE  InPlace(t, st)' = InPlace(t, st)
    <3>1. <<<<t, "final">>, FinalSlot[st]>> # <<<<s, "final">>, FinalSlot[g]>>
      BY <1>1, <2>2, FinalSlotsDiffer
    <3> QED BY <1>5, <1>6, <1>7, <3>1, FinalSlotsDiffer DEF InPlace
  <2> QED BY <2>1, <2>2
<1>9. disk'[proc[p].dir][WorkOf(p)] = None
  BY <1>1, <1>5, <1>6, <1>7
<1>10. ASSUME NEW q \in Procs
       PROVE  TameFor(q)
  <2>1. ASSUME NEW n \in OnDisk'
        PROVE  n \in OnDisk
    <3>1. PICK e \in Paths, y \in Slots : disk'[e][y] # None /\ n = disk'[e][y].manifest
      BY <2>1, OnDiskThen
    <3>2. (disk'[e][y] = a \/ disk'[e][y] = disk[e][y]) /\ a # None
      BY <1>1, <1>6, <3>1, NoneAssumption
    <3> QED BY <1>1, <3>1, <3>2, OnDiskIs
  <2>2. ASSUME NEW e \in Paths, NEW st \in Stages, Bench(e, st), disk'[e][WorkSlot[st]] # None
        PROVE  disk'[e][WorkSlot[st]] = disk[e][WorkSlot[st]]
    <3>1. <<e, WorkSlot[st]>> # <<<<s, "final">>, FinalSlot[g]>>
      BY <1>1, <2>2, FinalSlotsDiffer DEF Bench
    <3> QED BY <1>6, <2>2, <3>1, WorkSlotsDiffer
  <2> QED BY <2>1, <2>2 DEF TameFor
<1>11. CollectionsStay
  <2> SUFFICES ASSUME NEW t \in Sessions, disk[<<t, "final">>]["collection"] # None
               PROVE  disk'[<<t, "final">>]["collection"] = disk[<<t, "final">>]["collection"]
    BY DEF CollectionsStay
  <2>1. InPlace(t, "collect") # None
    BY FinalSlotsDiffer DEF InPlace
  <2>2. InPlace(t, "collect")' = InPlace(t, "collect")
    BY <1>8, <2>1, FinalSlotsDiffer
  <2> QED BY <2>2, FinalSlotsDiffer DEF InPlace
<1>12. ShelfPublished'
  <2> SUFFICES ASSUME NEW t \in Sessions, NEW st \in Stages, InPlace(t, st)' # None
               PROVE  InPlace(t, st)'.manifest \in done'
    BY DEF ShelfPublished
  <2>1. CASE <<t, st>> = <<s, g>>
    <3>1. InPlace(t, st)' = a
      BY <1>8, <2>1
    <3> QED BY <1>2, <1>3, <3>1
  <2>2. CASE <<t, st>> # <<s, g>>
    BY <1>3, <1>8, <2>2 DEF HInv, ShelfPublished
  <2> QED BY <2>1, <2>2
<1>13. g = "collect" \/ InPlace(s, "collect") # None
  BY <1>4, FinalSlotsDiffer DEF InPlace
<1> QED BY <1>2, <1>3, <1>4, <1>8, <1>9, <1>10, <1>11, <1>12, <1>13

\* What the published artifact says of its making.
LEMMA PublishedManifest ==
    ASSUME HInv, NEW p \in Procs, Rename(p), NEW m, m = ManifestOf(p)
    PROVE  /\ m.stage = "collect" => m.session = p /\ m.inputs = {}
           /\ m.stage # "collect" =>
                \E c \in done : /\ c = proc[p].collection /\ c.stage = "collect"
                                /\ proc[p].cmd = "pipeline" => c.by = p /\ c.session = p
                                /\ m.session = c.session
                                /\ m.stage = "diagnose" => m.inputs = {IdOf(c)}
                                /\ m.stage = "report" => \E d \in done :
                                     /\ d.stage = "diagnose" /\ d.session = c.session
                                     /\ d.inputs = {IdOf(c)}
                                     /\ m.inputs = {IdOf(c), IdOf(d)}
<1>1. /\ Running(p) /\ Op(p) = "rename" /\ m.stage = proc[p].stage /\ proc[p].stage \in Stages
      /\ "mkdir" \in Past(p)
  BY Position DEF Rename, ManifestOf, HInv, Reached
<1>2. /\ proc[p].stage # "collect" => "loadCollection" \in Past(p)
      /\ proc[p].stage = "report" => "loadDiagnosis" \in Past(p)
  <2>1. \A n \in 1..Len(Program["diagnose"]) :
          Program["diagnose"][n] = "rename" => "loadCollection" \in Before("diagnose", n)
    BY DEF Program, Before
  <2>2. \A n \in 1..Len(Program["report"]) : Program["report"][n] = "rename" =>
          {"loadCollection", "loadDiagnosis"} \subseteq Before("report", n)
    BY DEF Program, Before
  <2> QED BY <1>1, <2>1, <2>2, Position DEF HInv, Stages
<1>3. CASE m.stage = "collect"
  BY <1>1, <1>3 DEF ManifestOf
<1>4. CASE m.stage # "collect"
  <2> DEFINE c == proc[p].collection
             d == proc[p].diagnosis
  <2>1. /\ c \in done /\ c.stage = "collect"
        /\ proc[p].cmd = "pipeline" => c.by = p /\ c.session = p
        /\ m.stage = "report" => d \in done /\ d.stage = "diagnose" /\ d.session = c.session
                                 /\ d.inputs = {IdOf(c)}
    BY <1>1, <1>2, <1>4 DEF HInv, HistoryOf, LoadedBy
  <2>2. /\ m.session = c.session
        /\ m.stage = "diagnose" => m.inputs = {IdOf(c)}
        /\ m.stage = "report" => m.inputs = {IdOf(c), IdOf(d)}
    BY <1>1, <1>4 DEF ManifestOf
  <2> HIDE DEF d
  <2>3. m.stage = "report" => \E e \in done :
          /\ e.stage = "diagnose" /\ e.session = c.session
          /\ e.inputs = {IdOf(c)} /\ m.inputs = {IdOf(c), IdOf(e)}
    BY <2>1, <2>2
  <2> HIDE DEF c
  <2> QED BY <1>4, <2>1, <2>2, <2>3 DEF c
<1> QED BY <1>3, <1>4

LEMMA RenameHistory ==
    ASSUME HInv, IInv', NEW p \in Procs, Rename(p)
    PROVE  HInv'
<1>1. PICK g, m, a : g = proc[p].stage /\ m = ManifestOf(p) /\ a = disk[proc[p].dir][WorkOf(p)]
  OBVIOUS
<1>2. /\ a.manifest = m /\ a \in Artifacts /\ done' = done \cup {m} /\ m.by = p /\ m.stage = g
      /\ \A q \in Procs : TameFor(q)
      /\ CollectionsStay /\ ShelfPublished' /\ disk'[proc[p].dir][WorkOf(p)] = None
  BY <1>1, RenamePublishes
<1>3. PICK s \in Sessions :
        FinalPath(p) = <<s, "final">> /\ InPlace(s, g)' = a
  BY <1>1, RenamePublishes
<1>4. /\ m.stage = "collect" => m.session = p
      /\ proc[p].cmd = "pipeline" =>
           m.session = p /\ (m.stage = "report" => <<p, "collect">> \in m.inputs)
      /\ m.stage = "report" => \E d \in done : /\ d.stage = "diagnose" /\ d.session = m.session
                                               /\ m.inputs = d.inputs \cup {IdOf(d)}
  <2>1. CASE m.stage = "collect"
    BY <1>1, <2>1, PublishedManifest
  <2>2. CASE m.stage # "collect"
    <3>1. PICK c \in done :
            /\ c.stage = "collect" /\ m.session = c.session
            /\ proc[p].cmd = "pipeline" => c.by = p /\ c.session = p
            /\ m.stage = "report" => \E d \in done :
                 /\ d.stage = "diagnose" /\ d.session = c.session
                 /\ d.inputs = {IdOf(c)} /\ m.inputs = {IdOf(c), IdOf(d)}
      BY <1>1, <2>2, PublishedManifest
    <3> QED BY <2>2, <3>1 DEF IdOf
  <2> QED BY <2>1, <2>2
<1>5. /\ Running(p) /\ Holding(p) /\ Op(p) = "rename" /\ Advance(p) /\ "rename" \notin Past(p)
      /\ proc[p].at # 1 /\ proc[p].stage \in Stages
  BY RenamedIsWhole, Footing, Position DEF HInv, Rename
<1> DEFINE r == [proc[p] EXCEPT !.at = proc[p].at + 1]
<1>6. proc[p] \in Processes /\ proc \in [Procs -> Processes]
  BY DEF HInv, IInv, TypeOK
<1>7. /\ r \in Processes /\ r.at = proc[p].at + 1 /\ r.state = proc[p].state
      /\ r.cmd = proc[p].cmd /\ r.stage = proc[p].stage /\ r.intr = proc[p].intr
      /\ r.fence = proc[p].fence /\ r.dir = proc[p].dir
      /\ r.collection = proc[p].collection /\ r.diagnosis = proc[p].diagnosis
  BY <1>6 DEF Processes
<1>8. proc' = [proc EXCEPT ![p] = r]
  BY <1>5, <1>6 DEF Advance
<1> HIDE DEF r
<1>9. /\ proc'[p] = r /\ Past(p)' = Past(p) \cup {"rename"} /\ Running(p)'
      /\ Goal(p)' = Goal(p) /\ FinalPath(p)' = FinalPath(p)
      /\ \A q \in Procs : q # p => proc'[q] = proc[q]
  <2>1. proc'[p] = r /\ Past(p)' = Past(p) \cup {"rename"}
    BY <1>5, <1>7, <1>8, OneStepOn DEF HInv
  <2> QED BY <1>5, <1>6, <1>7, <1>8, <2>1 DEF Running, Goal, FinalPath
<1>10. proc[p].fence # "none" => Rank[proc[p].stage] <= Rank[proc[p].fence]
  BY <1>5 DEF HInv, HistoryOf, LifeOf
<1>11. HistoryOf(p)'
  <2>1. LifeOf(p)'
    BY <1>5, <1>7, <1>9, <1>10 DEF HInv, HistoryOf, LifeOf, Running
  <2>2. \A st : \A step : Within(p, st, step) => Within(p, st, step)'
    BY <1>5, <1>7, <1>9 DEF Within, Running
  <2>3. Within(p, g, "rename")'
    BY <1>1, <1>5, <1>7, <1>9, <1>10 DEF Within, Running
  <2>4. PublishedBy(p)'
    <3>1. ASSUME NEW n \in done', n.by = p
          PROVE  /\ Within(p, n.stage, "rename")'
                 /\ proc[p].cmd = "pipeline" =>
                      n.session = p /\ (n.stage = "report" => <<p, "collect">> \in n.inputs)
      <4>1. CASE n = m BY <1>2, <1>4, <2>3, <4>1
      <4>2. CASE n \in done
        BY <2>2, <3>1, <4>2 DEF HInv, HistoryOf, PublishedBy
      <4> QED BY <1>2, <4>1, <4>2
    <3>2. m \in done' /\ IdOf(m) = <<p, proc[p].stage>>
      BY <1>1, <1>2 DEF IdOf
    <3>3. r.state = "running"
      BY <1>5, <1>7 DEF Running
    <3> QED BY <1>7, <1>9, <3>1, <3>2, <3>3 DEF PublishedBy
  <2>5. LeftBy(p)'
    BY <1>2, <2>2 DEF HInv, HistoryOf, LeftBy, TameFor
  <2>6. UnfinishedOf(p)'
    <3> SUFFICES ASSUME NEW e \in Paths, NEW st \in Stages, Bench(e, st),
                        disk'[e][WorkSlot[st]] # None, disk'[e][WorkSlot[st]].manifest.by = p
                 PROVE  FALSE
      BY DEF UnfinishedOf, Exists, Bench
    <3>1. disk[e][WorkSlot[st]] # None /\ disk[e][WorkSlot[st]].manifest.by = p
      BY <1>2 DEF TameFor
    <3>2. proc[p].dir = e /\ proc[p].stage = st
      BY <1>5, <3>1 DEF HInv, HistoryOf, UnfinishedOf, Exists
    <3> QED BY <1>2, <3>2 DEF WorkOf
  <2>7. LoadedBy(p)'
    BY <1>2, <1>5, <1>7, <1>9 DEF HInv, HistoryOf, LoadedBy
  <2>8. HomeOf(p)'
    <3> SUFFICES ASSUME proc[p].cmd = "pipeline"
                 PROVE  /\ disk'[FinalPath(p)]["collection"] # None
                        /\ disk'[FinalPath(p)]["collection"].manifest.by = p
                        /\ disk'[FinalPath(p)]["collection"].manifest.session = p
      BY <1>7, <1>9 DEF HomeOf, Exists
    <3>1. CASE proc[p].stage = "collect"
      <4>1. disk'[FinalPath(p)]["collection"] = a
        BY <1>1, <1>3, <3>1, FinalSlotsDiffer DEF InPlace
      <4> QED BY <1>1, <1>2, <1>4, <3>1, <4>1, NoneAssumption
    <3>2. CASE proc[p].stage # "collect"
      <4>1. /\ disk[FinalPath(p)]["collection"] # None
            /\ disk[FinalPath(p)]["collection"].manifest.by = p
            /\ disk[FinalPath(p)]["collection"].manifest.session = p
        BY <1>5, <3>2 DEF HInv, HistoryOf, HomeOf, Exists
      <4> QED BY <1>2, <1>3, <4>1 DEF CollectionsStay
    <3> QED BY <3>1, <3>2
  <2> QED BY <2>1, <2>4, <2>5, <2>6, <2>7, <2>8 DEF HistoryOf
<1>12. ASSUME NEW q \in Procs PROVE HistoryOf(q)'
  <2>1. CASE q = p BY <1>11, <2>1
  <2>2. CASE q # p BY <1>2, <1>9, <2>2, Onlooker DEF HInv
  <2> QED BY <2>1, <2>2
<1>13. ReportLineage'
  BY <1>2, <1>4 DEF HInv, ReportLineage
<1> QED BY <1>2, <1>12, <1>13 DEF HInv

-----------------------------------------------------------------------------
(* The user.                                                               *)

\* Nobody moves, and one place of the disk has changed.
LEMMA UserHistory ==
    ASSUME HInv, IInv', UNCHANGED <<proc, done>>,
           \A q \in Procs : TameFor(q) /\ CollectionsStay, ShelfPublished'
    PROVE  HInv'
<1>1. \A q \in Procs : HistoryOf(q)'
  BY Onlooker DEF HInv
<1> QED BY <1>1 DEF HInv, ReportLineage

LEMMA CleanUpHistory ==
    ASSUME HInv, IInv', CleanUp
    PROVE  HInv' /\ ShelfSame
<1>1. UNCHANGED <<proc, done, edits>>
  BY DEF CleanUp
<1>2. PICK d \in Paths, x \in Slots : Workbench(d, x) /\ disk' = [disk EXCEPT ![d][x] = None]
  BY OneCleaned DEF HInv
<1>3. Put(d, x, None) /\ ~(x = "collection" /\ d[2] = "final")
  BY <1>2 DEF Put, Workbench
<1>4. \A q \in Procs : TameFor(q) /\ CollectionsStay
  <2> SUFFICES ASSUME NEW q \in Procs PROVE TameFor(q) /\ CollectionsStay
    OBVIOUS
  <2> QED BY <1>1, <1>3, PlaceChange DEF HInv
<1>5. ShelfSame
  BY <1>2, WorkbenchChange DEF HInv, ShelfSame
<1>6. ShelfPublished'
  BY <1>1, <1>5 DEF HInv, ShelfPublished, ShelfSame
<1> QED BY <1>1, <1>4, <1>5, <1>6, UserHistory

\* What the user does to one artifact that has a final name.
Edited(s, st) ==
    LET old == InPlace(s, st)
        new == InPlace(s, st)'
    IN  \/ old # None /\ new = [old EXCEPT !.edited = TRUE]
        \/ old # None /\ st # "collect" /\ new = None
        \/ \E t \in Sessions : /\ old = None /\ InPlace(t, st) # None /\ new = InPlace(t, st)
                               /\ st # "collect"

LEMMA EditHistory ==
    ASSUME HInv, IInv', Edit
    PROVE  /\ HInv' /\ UNCHANGED <<proc, done>>
           /\ \E s \in Sessions, st \in Stages :
                /\ Edited(s, st)
                /\ \A t \in Sessions, g \in Stages :
                     <<t, g>> # <<s, st>> => InPlace(t, g)' = InPlace(t, g)
<1>1. UNCHANGED <<proc, done>>
  BY DEF Edit
<1>2. PICK s \in Sessions, st \in Stages :
        \/ /\ disk[<<s, "final">>][FinalSlot[st]] # None
           /\ disk' = [disk EXCEPT ![<<s, "final">>][FinalSlot[st]].edited = TRUE]
        \/ /\ disk[<<s, "final">>][FinalSlot[st]] # None /\ st # "collect"
           /\ disk' = [disk EXCEPT ![<<s, "final">>][FinalSlot[st]] = None]
        \/ \E t \in Sessions :
           /\ disk[<<s, "final">>]["collection"] # None
           /\ disk[<<s, "final">>][FinalSlot[st]] = None
           /\ disk[<<t, "final">>][FinalSlot[st]] # None
           /\ disk' = [disk EXCEPT ![<<s, "final">>][FinalSlot[st]] =
                                  disk[<<t, "final">>][FinalSlot[st]]]
  BY DEF Edit, Exists
<1>3. /\ disk \in [Paths -> [Slots -> Artifacts \cup {None}]]
      /\ \A t \in Sessions : <<t, "final">> \in Paths
      /\ FinalSlot[st] \in Slots
  BY FinalSlotsDiffer DEF HInv, IInv, TypeOK, Paths
<1> DEFINE d == <<s, "final">>
           x == FinalSlot[st]
<1>4. PICK a \in Artifacts \cup {None} :
        /\ Put(d, x, a)
        /\ \/ disk[d][x] # None /\ a = [disk[d][x] EXCEPT !.edited = TRUE] /\ a \in Artifacts
           \/ disk[d][x] # None /\ st # "collect" /\ a = None
           \/ \E t \in Sessions : /\ disk[d][x] = None /\ InPlace(t, st) # None
                                  /\ a = InPlace(t, st) /\ st # "collect"
  <2>1. CASE /\ disk[d][x] # None
             /\ disk' = [disk EXCEPT ![d][x].edited = TRUE]
    <3> DEFINE b == [disk[d][x] EXCEPT !.edited = TRUE]
    <3>1. b \in Artifacts
      <4>1. disk[d][x] \in Artifacts
        BY <1>3, <2>1
      <4>2. \A a \in Artifacts : [a EXCEPT !.edited = TRUE] \in Artifacts
        BY DEF Artifacts
      <4> QED BY <4>1, <4>2
    <3>2. Put(d, x, b)
      BY <1>3, <2>1 DEF Put
    <3> QED BY <2>1, <3>1, <3>2
  <2>2. CASE /\ disk[d][x] # None /\ st # "collect"
             /\ disk' = [disk EXCEPT ![d][x] = None]
    BY <2>2 DEF Put
  <2>3. ASSUME NEW t \in Sessions, disk[d]["collection"] # None, disk[d][x] = None,
               disk[<<t, "final">>][x] # None,
               disk' = [disk EXCEPT ![d][x] = disk[<<t, "final">>][x]]
        PROVE  /\ Put(d, x, InPlace(t, st)) /\ InPlace(t, st) # None /\ st # "collect"
               /\ InPlace(t, st) \in Artifacts \cup {None}
    BY <1>3, <2>3, FinalSlotsDiffer DEF Put, InPlace
  <2> QED BY <1>2, <2>1, <2>2, <2>3
<1>5. /\ disk'[d][x] = a
      /\ \A e \in Paths, y \in Slots : <<e, y>> # <<d, x>> => disk'[e][y] = disk[e][y]
  BY <1>3, <1>4 DEF Put
<1>6. /\ InPlace(s, st)' = a /\ InPlace(s, st) = disk[d][x]
      /\ \A t \in Sessions, g \in Stages :
           <<t, g>> # <<s, st>> => InPlace(t, g)' = InPlace(t, g)
  <2>1. InPlace(s, st)' = a /\ InPlace(s, st) = disk[d][x]
    BY <1>5 DEF InPlace
  <2>2. ASSUME NEW t \in Sessions, NEW g \in Stages, <<t, g>> # <<s, st>>
        PROVE  InPlace(t, g)' = InPlace(t, g)
    <3>1. <<<<t, "final">>, FinalSlot[g]>> # <<d, x>> /\ FinalSlot[g] \in Slots
      BY <2>2, FinalSlotsDiffer
    <3> QED BY <1>3, <1>5, <3>1 DEF InPlace
  <2> QED BY <2>1, <2>2
<1>7. Edited(s, st)
  BY <1>4, <1>6 DEF Edited
<1>8. a # None => a.manifest \in OnDisk /\ a.manifest \in done
  <2>1. ASSUME NEW t \in Sessions, InPlace(t, st) # None
        PROVE  InPlace(t, st).manifest \in OnDisk /\ InPlace(t, st).manifest \in done
    <3>1. InPlace(t, st).manifest \in OnDisk
      BY <1>3, <2>1, OnDiskIs DEF InPlace
    <3> QED BY <2>1, <3>1 DEF HInv, ShelfPublished
  <2>2. disk[d][x] # None =>
          [disk[d][x] EXCEPT !.edited = TRUE].manifest = disk[d][x].manifest
    BY <1>3 DEF Artifacts
  <2> QED BY <1>4, <1>6, <2>1, <2>2
<1>9. \A g \in Stages : ~(Bench(d, g) /\ x = WorkSlot[g])
  BY FinalSlotsDiffer DEF Bench
<1>10. x = "collection" => disk[d][x] = None \/ (a # None /\ a.manifest = disk[d][x].manifest)
  BY <1>3, <1>4, FinalSlotsDiffer, NoneAssumption DEF Artifacts
<1>11. d \in Paths /\ x \in Slots
  BY <1>3
<1> HIDE DEF d, x
<1>12. ASSUME NEW q \in Procs PROVE TameFor(q) /\ CollectionsStay
  BY <1>1, <1>4, <1>8, <1>9, <1>10, <1>11, PlaceChange DEF HInv
<1>13. ShelfPublished'
  BY <1>1, <1>6, <1>8 DEF HInv, ShelfPublished
<1> QED BY <1>1, <1>6, <1>7, <1>12, <1>13, UserHistory

-----------------------------------------------------------------------------
(* The invariance, and what follows from it.                               *)

LEMMA InitHInv == Init => HInv
<1> SUFFICES ASSUME Init PROVE HInv
  OBVIOUS
<1>1. IInv
  BY InitIInv
<1>2. \A p \in Procs : proc[p] = Resting("idle", "none", 0, "none")
  BY DEF Init
<1>3. \A p \in Procs : proc[p].state = "idle" /\ proc[p].cmd = "none" /\ proc[p].intr = 0
                       /\ proc[p].fence = "none" /\ ~Running(p)
  BY <1>2 DEF Resting, Running
<1>4. \A m \in done : \E s \in Seeded : m = SeedManifest(s) /\ m.by = s /\ m.stage = "collect"
  BY DEF Init, SeedManifest
<1>5. \A d \in Paths, x \in Slots : disk[d][x] # None =>
        /\ d[1] \in Seeded /\ d[2] = "final" /\ x = "collection"
        /\ disk[d][x].manifest = SeedManifest(d[1])
  BY DEF Init, Vacant, NewArtifact, Paths
<1>6. \A s \in Seeded : s \notin Procs
  BY SessionAssumption
<1>7. ShelfPublished
  <2> SUFFICES ASSUME NEW s \in Sessions, NEW st \in Stages, InPlace(s, st) # None
               PROVE  InPlace(s, st).manifest \in done
    BY DEF ShelfPublished
  <2>1. <<s, "final">> \in Paths /\ FinalSlot[st] \in Slots
    BY FinalSlotsDiffer DEF Paths
  <2>2. s \in Seeded /\ InPlace(s, st).manifest = SeedManifest(s)
    BY <1>5, <2>1 DEF InPlace
  <2> QED BY <2>2 DEF Init
<1>8. ReportLineage
  BY <1>4 DEF ReportLineage
<1>9. \A m \in OnDisk : \E s \in Seeded : m.by = s
  <2> SUFFICES ASSUME NEW m \in OnDisk PROVE \E s \in Seeded : m.by = s
    OBVIOUS
  <2>1. PICK d \in Paths, x \in Slots : disk[d][x] # None /\ m = disk[d][x].manifest
    BY OnDiskIs
  <2>2. d[1] \in Seeded /\ m = SeedManifest(d[1])
    BY <1>5, <2>1
  <2> QED BY <2>2 DEF SeedManifest
<1>10. ASSUME NEW p \in Procs PROVE HistoryOf(p)
  <2>1. LifeOf(p)
    BY <1>3, <1>10 DEF LifeOf
  <2>2. PublishedBy(p) /\ LeftBy(p)
    BY <1>3, <1>4, <1>6, <1>9, <1>10 DEF PublishedBy, LeftBy
  <2>3. UnfinishedOf(p)
    BY <1>3, <1>10 DEF UnfinishedOf
  <2>4. LoadedBy(p) /\ HomeOf(p)
    BY <1>3, <1>10 DEF LoadedBy, HomeOf
  <2> QED BY <2>1, <2>2, <2>3, <2>4 DEF HistoryOf
<1> QED BY <1>1, <1>7, <1>8, <1>10 DEF HInv

\* Whoever steps, the history stays right; and what a final name shows changes
\* only by a rename or by the user.
LEMMA NextHistory ==
    ASSUME Leftovers = FALSE, HInv, [Next]_vars
    PROVE  /\ HInv'
           /\ \/ ShelfSame /\ done' = done
              \/ \E p \in Procs : Rename(p)
              \/ Edit
<1>1. IInv'
  BY NextKeeps DEF HInv
<1>2. CASE UNCHANGED vars
  <2>1. UNCHANGED <<proc, done>> /\ UNCHANGED disk
    BY <1>2 DEF vars
  <2>2. \A q \in Procs : TameFor(q) /\ CollectionsStay
    BY <2>1, NoDiskChange DEF HInv
  <2>3. ShelfSame
    BY <2>1 DEF ShelfSame, InPlace
  <2>4. ShelfPublished'
    BY <2>1, <2>3 DEF HInv, ShelfPublished, ShelfSame
  <2> QED BY <1>1, <2>1, <2>2, <2>3, <2>4, UserHistory
<1>3. ASSUME NEW p \in Procs,
             \/ Start(p) \/ CtrlC(p) \/ Crash(p)
             \/ Check(p) \/ Name(p) \/ Probe(p) \/ Compute(p) \/ CancelCollectors(p)
             \/ LoadCollection(p) \/ LoadDiagnosis(p)
             \/ Mkdir(p) \/ Write(p) \/ Return(p) \/ Fail(p)
      PROVE  HInv' /\ ShelfSame /\ done' = done
  <2>1. HInv' /\ ShelfSame
    BY <1>1, <1>3, StartHistory, CheckHistory, NameHistory, ProbeHistory, ComputeHistory,
       CancelCollectorsHistory, LoadCollectionHistory, LoadDiagnosisHistory, MkdirHistory,
       WriteHistory, ReturnHistory, FailHistory, CtrlCHistory, CrashHistory
  <2>2. done' = done
    BY <1>3 DEF Start, CtrlC, Crash, Check, Name, Probe, Compute, CancelCollectors,
       LoadCollection, LoadDiagnosis, Mkdir, Write, Return, Fail
  <2> QED BY <2>1, <2>2
<1>4. ASSUME NEW p \in Procs, Rename(p) PROVE HInv'
  BY <1>1, <1>4, RenameHistory
<1>5. CASE CleanUp
  <2>1. done' = done
    BY <1>5 DEF CleanUp
  <2> QED BY <1>1, <1>5, <2>1, CleanUpHistory
<1>6. CASE Edit
  BY <1>1, <1>6, EditHistory
<1> QED BY <1>2, <1>3, <1>4, <1>5, <1>6 DEF Next, Step

\* Every reachable state has a history that fits: who made what, from what, and
\* how far they came.
THEOREM HistoryInvariance ==
    ASSUME Leftovers = FALSE
    PROVE  Spec => []HInv
<1>1. Init => HInv
  BY InitHInv
<1>2. HInv /\ [Next]_vars => HInv'
  BY NextHistory
<1> QED BY <1>1, <1>2, PTL DEF Spec

\* The exit code tells the truth (main): a process that printed a path has
\* published its artifact, one that failed or was interrupted has not.
THEOREM ExitIsTruthful ==
    ASSUME Leftovers = FALSE
    PROVE  Spec => []ExitTellsTheTruth
<1>1. HInv => ExitTellsTheTruth
  <2> SUFFICES ASSUME HInv, NEW p \in Procs
               PROVE  /\ proc[p].state = "published" => Delivered(p)
                      /\ proc[p].state \in {"failed", "interrupted", "unlogged"} => ~Delivered(p)
                      /\ proc[p].state \in {"interrupted", "unlogged"} => proc[p].intr = 1
    BY DEF ExitTellsTheTruth
  <2>1. LifeOf(p) /\ PublishedBy(p)
    BY DEF HInv, HistoryOf
  <2>2. proc[p].state \in {"failed", "interrupted", "unlogged"} => ~Delivered(p)
    BY <2>1 DEF PublishedBy, Delivered, IdOf
  <2> QED BY <2>1, <2>2 DEF LifeOf, PublishedBy
<1> QED BY <1>1, HistoryInvariance, PTL

\* A process asked to stop starts no later stage (run_pipeline and the checks):
\* nothing it publishes or leaves behind is of a stage after the interrupted one.
THEOREM StopsInItsStage ==
    ASSUME Leftovers = FALSE
    PROVE  Spec => []NoLaterStage
<1>1. HInv => NoLaterStage
  <2> SUFFICES ASSUME HInv, NEW p \in Procs, proc[p].fence # "none"
               PROVE  /\ \A m \in done : m.by = p => Rank[m.stage] <= Rank[proc[p].fence]
                      /\ \A d \in Paths, x \in Slots :
                           Exists(d, x) /\ disk[d][x].manifest.by = p
                             => Rank[disk[d][x].manifest.stage] <= Rank[proc[p].fence]
    BY DEF NoLaterStage
  <2>1. PublishedBy(p) /\ LeftBy(p)
    BY DEF HInv, HistoryOf
  <2>2. \A m \in OnDisk : m.by = p => Rank[m.stage] <= Rank[proc[p].fence]
    BY <2>1 DEF LeftBy, Within
  <2>3. \A d \in Paths, x \in Slots : Exists(d, x) => disk[d][x].manifest \in OnDisk
    BY OnDiskIs DEF Exists
  <2> QED BY <2>1, <2>2, <2>3 DEF PublishedBy, Within
<1> QED BY <1>1, HistoryInvariance, PTL

\* What an interrupted process leaves unfinished says so: interruption.log lies
\* with it (check_with_log).
THEOREM InterruptIsLogged ==
    ASSUME Leftovers = FALSE
    PROVE  Spec => []InterruptLeavesLog
<1>1. HInv => InterruptLeavesLog
  BY DEF HInv, HistoryOf, UnfinishedOf, InterruptLeavesLog, Bench
<1> QED BY <1>1, HistoryInvariance, PTL

\* A report was rendered from a diagnosis made from the very collection it
\* shows (load_diagnosis_artifact, generate_report), whatever the user copied.
THEOREM ReportsFit ==
    ASSUME Leftovers = FALSE
    PROVE  Spec => []ReportLineage
<1>1. HInv => ReportLineage
  BY DEF HInv
<1> QED BY <1>1, HistoryInvariance, PTL

\* The pipeline reports on what it collected (run_pipeline).
THEOREM PipelineKeepsItsSession ==
    ASSUME Leftovers = FALSE
    PROVE  Spec => []PipelineReportsItsCollection
<1>1. HInv => PipelineReportsItsCollection
  BY DEF HInv, HistoryOf, PublishedBy, PipelineReportsItsCollection
<1> QED BY <1>1, HistoryInvariance, PTL

-----------------------------------------------------------------------------
(* The refinement of ArtifactStore.  An artifact appears at once, in a      *)
(* place that was empty, made from what was published before; and only the *)
(* user takes one away.                                                    *)

-----------------------------------------------------------------------------
(* The store one sees.  What lies under a final name is whole, so all of it *)
(* is on the shelf.                                                         *)

Shown(s, st) == IF InPlace(s, st) # None THEN InPlace(s, st).manifest ELSE None

ShelfAsShown ==
    /\ Shelf = [s \in Sessions |-> [st \in Stages |-> Shown(s, st)]]
    /\ \A s \in Sessions, st \in Stages :
         /\ Shelf[s][st] = Shown(s, st)
         /\ Shown(s, st) = None <=> InPlace(s, st) = None
         /\ Shown(s, st) \in Manifests \cup {None}
         /\ InPlace(s, st) # None => InPlace(s, st) \in Artifacts

LEMMA ShelfIs == IInv => ShelfAsShown
<1> SUFFICES ASSUME IInv PROVE ShelfAsShown
  OBVIOUS
<1>1. ASSUME NEW s \in Sessions, NEW st \in Stages, InPlace(s, st) # None
      PROVE  /\ InPlace(s, st).manifest \in Manifests /\ Whole(InPlace(s, st), st)
             /\ InPlace(s, st) \in Artifacts
  <2>1. InPlace(s, st) \in Artifacts
    BY <1>1, FinalSlotsDiffer DEF IInv, TypeOK, InPlace, Paths
  <2>2. /\ InPlace(s, st).files = Expected[st] /\ InPlace(s, st).torn = {}
        /\ ~InPlace(s, st).log
    BY <1>1 DEF IInv, PublishedComplete
  <2> DEFINE a == InPlace(s, st)
             b == [a EXCEPT !.edited = FALSE]
  <2>3. b.files = a.files /\ b.torn = a.torn /\ b.log = a.log /\ b.edited = FALSE
    BY <2>1 DEF Artifacts
  <2>4. Whole(a, st)
    BY <2>2, <2>3 DEF Whole, Loadable
  <2> QED BY <2>1, <2>4 DEF Artifacts
<1>2. Shelf = [s \in Sessions |-> [st \in Stages |-> Shown(s, st)]]
  BY <1>1 DEF Shelf, Shown
<1>3. \A s \in Sessions, st \in Stages :
        /\ Shown(s, st) = None <=> InPlace(s, st) = None
        /\ Shown(s, st) \in Manifests \cup {None}
  BY <1>1, NoneAssumption DEF Shown
<1> QED BY <1>1, <1>2, <1>3 DEF ShelfAsShown

LEMMA ShelfThen == IInv' => ShelfAsShown'
  BY ShelfIs, PTL

LEMMA SameWords ==
    /\ Store!Stages = Stages /\ Store!Manifests = Manifests
    /\ \A m : Store!IdOf(m) = IdOf(m)
  BY DEF Store!Stages, Stages, Store!Manifests, Manifests, Store!Ids, Ids, Store!IdOf, IdOf

LEMMA InitStore == Init => Store!StoreInit
<1> SUFFICES ASSUME Init PROVE Store!StoreInit
  OBVIOUS
<1>1. IInv
  BY InitIInv
<1>2. \A s \in Sessions, st \in Stages :
        /\ InPlace(s, st) = IF st = "collect" /\ s \in Seeded
                            THEN [NewArtifact(SeedManifest(s)) EXCEPT !.files = Expected["collect"]]
                            ELSE None
  BY FinalSlotsDiffer DEF Init, InPlace, Paths, Vacant
<1>3. \A s \in Sessions, st \in Stages :
        Shelf[s][st] = IF st = "collect" /\ s \in Seeded THEN SeedManifest(s) ELSE None
  <2>1. \A s \in Seeded :
          [NewArtifact(SeedManifest(s)) EXCEPT !.files = Expected["collect"]].manifest = SeedManifest(s)
    BY DEF NewArtifact
  <2>2. \A s \in Sessions, st \in Stages : Shelf[s][st] = Shown(s, st)
         /\ (Shown(s, st) = None <=> InPlace(s, st) = None)
    BY <1>1, ShelfIs DEF ShelfAsShown
  <2>3. \A s \in Seeded : 
          [NewArtifact(SeedManifest(s)) EXCEPT !.files = Expected["collect"]] # None
    <3> SUFFICES ASSUME NEW s \in Seeded
                 PROVE [NewArtifact(SeedManifest(s)) EXCEPT !.files = Expected["collect"]] # None
      OBVIOUS
    <3>1. SeedManifest(s) \in Manifests
      BY SessionAssumption DEF SeedManifest, Manifests, Stages, Authors
    <3>2. [NewArtifact(SeedManifest(s)) EXCEPT !.files = Expected["collect"]] \in Artifacts
      BY <3>1 DEF NewArtifact, Artifacts, FileNames, Expected, Stages
    <3> QED BY <3>2, NoneAssumption
  <2> QED BY <1>2, <2>1, <2>2, <2>3 DEF Shown
<1>4. Shelf \in [Sessions -> [Stages -> Manifests \cup {None}]]
  BY <1>1, ShelfIs DEF ShelfAsShown
<1>5. \A s \in Sessions : \A st \in {"diagnose", "report"} : Shelf[s][st] = None
  BY <1>3 DEF Stages
<1>6. \A s \in Seeded : SeedManifest(s) # None /\ s \in Sessions
  <2> SUFFICES ASSUME NEW s \in Seeded PROVE SeedManifest(s) # None /\ s \in Sessions
    OBVIOUS
  <2>1. s \in Sessions
    BY SessionAssumption
  <2>2. SeedManifest(s) \in Manifests
    BY <2>1 DEF SeedManifest, Manifests, Stages, Authors
  <2> QED BY <2>1, <2>2, NoneAssumption
<1>7. done = {Shelf[s]["collect"] : s \in Sessions} \ {None}
  <2>1. done = {SeedManifest(s) : s \in Seeded}
    BY DEF Init
  <2> QED BY <1>3, <1>6, <2>1, FinalSlotsDiffer
<1>8. \A m \in done : m.stage = "collect" /\ m.session = m.by /\ m.inputs = {}
  BY DEF Init, SeedManifest
<1>9. Spoiled = {}
  BY <1>2 DEF Spoiled, NewArtifact
<1> QED BY <1>4, <1>5, <1>7, <1>8, <1>9, SameWords DEF Store!StoreInit

-----------------------------------------------------------------------------
(* Steps that leave the store alone, publish, or are the user's.           *)

\* One place of the store changes.
LEMMA OnePlace ==
    ASSUME IInv, IInv', NEW s \in Sessions, NEW st \in Stages,
           \A t \in Sessions, g \in Stages :
             <<t, g>> # <<s, st>> => InPlace(t, g)' = InPlace(t, g)
    PROVE  /\ Shelf' = [Shelf EXCEPT ![s][st] = Shown(s, st)']
           /\ \A t \in Sessions, g \in Stages : <<t, g>> # <<s, st>> =>
                (<<t, g>> \in Spoiled' <=> <<t, g>> \in Spoiled)
           /\ <<s, st>> \in Spoiled <=> InPlace(s, st) # None /\ InPlace(s, st).edited
           /\ <<s, st>> \in Spoiled' <=> InPlace(s, st)' # None /\ InPlace(s, st)'.edited
<1>1. /\ Shelf = [t \in Sessions |-> [g \in Stages |-> Shown(t, g)]]
      /\ Shelf' = [t \in Sessions |-> [g \in Stages |-> Shown(t, g)']]
  BY ShelfIs, ShelfThen DEF ShelfAsShown
<1>2. \A t \in Sessions, g \in Stages :
        <<t, g>> # <<s, st>> => Shown(t, g)' = Shown(t, g)
  BY DEF Shown
<1>3. Shelf' = [Shelf EXCEPT ![s][st] = Shown(s, st)']
  <2>1. ASSUME NEW t \in Sessions
        PROVE  [g \in Stages |-> Shown(t, g)'] =
               IF t = s THEN [Shelf[s] EXCEPT ![st] = Shown(s, st)'] ELSE Shelf[t]
    <3>1. Shelf[t] = [g \in Stages |-> Shown(t, g)] /\ Shelf[s] = [g \in Stages |-> Shown(s, g)]
      BY <1>1
    <3>2. CASE t = s BY <1>2, <3>1, <3>2
    <3>3. CASE t # s BY <1>2, <3>1, <3>3
    <3> QED BY <3>2, <3>3
  <2> QED BY <1>1, <2>1
<1>4. \A t \in Sessions, g \in Stages :
        /\ <<t, g>> \in Spoiled <=> InPlace(t, g) # None /\ InPlace(t, g).edited
        /\ <<t, g>> \in Spoiled' <=> InPlace(t, g)' # None /\ InPlace(t, g)'.edited
  BY DEF Spoiled
<1> QED BY <1>3, <1>4

LEMMA StoreStutters ==
    ASSUME IInv, IInv', ShelfSame, done' = done
    PROVE  UNCHANGED Store!storeVars
<1>1. Shelf' = Shelf
  <2>1. \A s \in Sessions, st \in Stages : Shown(s, st)' = Shown(s, st)
    BY DEF ShelfSame, Shown
  <2>2. /\ Shelf = [s \in Sessions |-> [st \in Stages |-> Shown(s, st)]]
        /\ Shelf' = [s \in Sessions |-> [st \in Stages |-> Shown(s, st)']]
    BY ShelfIs, ShelfThen DEF ShelfAsShown
  <2> QED BY <2>1, <2>2
<1>2. Spoiled' = Spoiled
  BY DEF ShelfSame, Spoiled
<1> QED BY <1>1, <1>2 DEF Store!storeVars

\* A rename publishes.
LEMMA RenameIsPublish ==
    ASSUME HInv, HInv', NEW p \in Procs, Rename(p)
    PROVE  Store!StoreNext
<1>1. PICK g, m, a : g = proc[p].stage /\ m = ManifestOf(p) /\ a = disk[proc[p].dir][WorkOf(p)]
  OBVIOUS
<1>2. /\ a.manifest = m /\ a \in Artifacts /\ ~a.edited
      /\ done' = done \cup {m} /\ m.by = p /\ m.stage = g /\ g \in Stages
  BY <1>1, RenamePublishes, Position DEF HInv
<1>3. PICK s \in Sessions :
        /\ InPlace(s, g) = None /\ InPlace(s, g)' = a
        /\ \A t \in Sessions, st \in Stages :
             <<t, st>> # <<s, g>> => InPlace(t, st)' = InPlace(t, st)
        /\ g = "collect" \/ InPlace(s, "collect") # None
  BY <1>1, RenamePublishes
<1>4. m \in Manifests /\ a # None
  BY <1>2, NoneAssumption DEF Artifacts
<1>5. \A e \in done : IdOf(e) # IdOf(m)
  <2> SUFFICES ASSUME NEW e \in done, e.by = p, e.stage = g PROVE FALSE
    BY <1>2 DEF IdOf
  <2>1. Running(p) /\ "rename" \notin Past(p)
    BY RenamedIsWhole DEF HInv, Holding
  <2>2. Rank[g] < Rank[g]
    BY <1>1, <2>1 DEF HInv, HistoryOf, PublishedBy, Within
  <2> QED BY <1>2, <2>2 DEF Rank, Stages
<1>6. Shelf[s][g] = None
  BY <1>2, <1>3, ShelfIs DEF HInv, ShelfAsShown
<1>7. Shelf' = [Shelf EXCEPT ![s][g] = m]
  BY <1>2, <1>3, <1>4, OnePlace DEF HInv, Shown
<1>8. Spoiled' = Spoiled
  <2>1. <<s, g>> \notin Spoiled /\ <<s, g>> \notin Spoiled'
    BY <1>2, <1>3 DEF Spoiled
  <2>2. \A t \in Sessions, st \in Stages : <<t, st>> # <<s, g>> =>
          (<<t, st>> \in Spoiled' <=> <<t, st>> \in Spoiled)
    <3>1. \A t \in Sessions, st \in Stages :
            /\ <<t, st>> \in Spoiled <=> InPlace(t, st) # None /\ InPlace(t, st).edited
            /\ <<t, st>> \in Spoiled' <=> InPlace(t, st)' # None /\ InPlace(t, st)'.edited
      BY DEF Spoiled
    <3> QED BY <1>3, <3>1
  <2>3. \A t \in Sessions, st \in Stages : <<t, st>> \in Spoiled' <=> <<t, st>> \in Spoiled
    BY <2>1, <2>2
  <2> QED BY <2>3 DEF Spoiled
<1>9. Store!Publish(s, m)
  BY <1>2, <1>5, <1>6, <1>7, <1>8, SameWords DEF Store!Publish
<1>10. p \in Authors
  BY DEF Authors
<1>11. m = [stage |-> g, by |-> p, session |-> m.session, inputs |-> m.inputs]
  BY <1>2, <1>4 DEF Manifests
<1>12. CASE g = "collect"
  <2>1. m.session = p /\ m.inputs = {}
    BY <1>1, <1>2, <1>12, PublishedManifest
  <2>2. m = [stage |-> "collect", by |-> p, session |-> p, inputs |-> {}]
    BY <1>11, <1>12, <2>1
  <2>3. Store!PublishCollection(s, p)
    BY <1>9, <2>2 DEF Store!PublishCollection
  <2> QED BY <1>10, <2>3 DEF Store!StoreNext
<1>13. CASE g # "collect"
  <2>1. PICK c \in done :
          /\ c.stage = "collect" /\ m.session = c.session
          /\ m.stage = "diagnose" => m.inputs = {IdOf(c)}
          /\ m.stage = "report" => \E d \in done :
               /\ d.stage = "diagnose" /\ d.session = c.session
               /\ d.inputs = {IdOf(c)} /\ m.inputs = {IdOf(c), IdOf(d)}
    BY <1>1, <1>2, <1>13, PublishedManifest
  <2>2. Shelf[s]["collect"] # None
    BY <1>3, <1>13, ShelfIs, FinalSlotsDiffer DEF HInv, ShelfAsShown
  <2>3. CASE g = "diagnose"
    <3>1. m = [stage |-> "diagnose", by |-> p, session |-> c.session, inputs |-> {IdOf(c)}]
      BY <1>2, <1>11, <2>1, <2>3
    <3>2. Store!PublishDiagnosis(s, p, c)
      BY <1>9, <2>1, <3>1, SameWords DEF Store!PublishDiagnosis
    <3> QED BY <1>10, <2>2, <3>2 DEF Store!StoreNext
  <2>4. CASE g = "report"
    <3>1. PICK d \in done : /\ d.stage = "diagnose" /\ d.session = c.session
                            /\ d.inputs = {IdOf(c)} /\ m.inputs = {IdOf(c), IdOf(d)}
      BY <1>2, <2>1, <2>4
    <3>2. m = [stage |-> "report", by |-> p, session |-> c.session,
               inputs |-> {IdOf(c), IdOf(d)}]
      BY <1>11, <2>1, <2>4, <3>1
    <3>3. Store!PublishReport(s, p, c, d)
      BY <1>9, <2>1, <3>1, <3>2, SameWords DEF Store!PublishReport
    <3> QED BY <1>10, <2>2, <3>3 DEF Store!StoreNext
  <2> QED BY <1>2, <1>13, <2>3, <2>4 DEF Stages
<1> QED BY <1>12, <1>13

\* The user's three operations are the store's.
LEMMA EditIsUser ==
    ASSUME HInv, IInv', Edit
    PROVE  Store!StoreNext
<1>1. PICK s \in Sessions, st \in Stages :
        /\ Edited(s, st) /\ done' = done
        /\ \A t \in Sessions, g \in Stages :
             <<t, g>> # <<s, st>> => InPlace(t, g)' = InPlace(t, g)
  BY EditHistory
<1>2. /\ Shelf' = [Shelf EXCEPT ![s][st] = Shown(s, st)']
      /\ \A t \in Sessions, g \in Stages : <<t, g>> # <<s, st>> =>
           (<<t, g>> \in Spoiled' <=> <<t, g>> \in Spoiled)
  BY <1>1, OnePlace DEF HInv
<1>3. ShelfAsShown /\ ShelfAsShown'
  BY ShelfIs, ShelfThen DEF HInv
<1>4. Spoiled \subseteq Sessions \X Stages /\ Spoiled' \subseteq Sessions \X Stages
  BY DEF Spoiled
<1>5. \A t \in Sessions, g \in Stages :
        /\ <<t, g>> \in Spoiled <=> InPlace(t, g) # None /\ InPlace(t, g).edited
        /\ <<t, g>> \in Spoiled' <=> InPlace(t, g)' # None /\ InPlace(t, g)'.edited
  BY DEF Spoiled
<1>6. CASE InPlace(s, st) # None /\ InPlace(s, st)' = [InPlace(s, st) EXCEPT !.edited = TRUE]
  <2>1. /\ InPlace(s, st)'.manifest = InPlace(s, st).manifest
        /\ InPlace(s, st)'.edited = TRUE /\ InPlace(s, st)' \in Artifacts
    BY <1>3, <1>6 DEF ShelfAsShown, Artifacts
  <2>2. InPlace(s, st)' # None
    BY <2>1, NoneAssumption
  <2>3. Shown(s, st)' = Shelf[s][st] /\ Shelf[s][st] # None
    BY <1>3, <1>6, <2>1, <2>2 DEF ShelfAsShown, Shown
  <2>4. Shelf' = Shelf
    BY <1>2, <1>3, <2>3 DEF ShelfAsShown
  <2>5. Spoiled' = Spoiled \cup {<<s, st>>}
    BY <1>2, <1>4, <1>5, <2>1, <2>2
  <2>6. Store!UserDamages(s, st)
    BY <1>1, <2>3, <2>4, <2>5 DEF Store!UserDamages
  <2> QED BY <2>6, SameWords DEF Store!StoreNext
<1>7. CASE InPlace(s, st) # None /\ InPlace(s, st)' = None
  <2>1. Shown(s, st)' = None /\ Shelf[s][st] # None
    BY <1>3, <1>7 DEF ShelfAsShown, Shown
  <2>2. Spoiled' = Spoiled \ {<<s, st>>}
    BY <1>2, <1>4, <1>5, <1>7
  <2>3. Store!UserRemoves(s, st)
    BY <1>1, <1>2, <2>1, <2>2 DEF Store!UserRemoves
  <2> QED BY <2>3, SameWords DEF Store!StoreNext
<1>8. ASSUME NEW t \in Sessions, InPlace(s, st) = None, InPlace(t, st) # None,
             InPlace(s, st)' = InPlace(t, st)
      PROVE  Store!StoreNext
  <2>1. /\ Shown(s, st)' = Shelf[t][st] /\ Shelf[s][st] = None /\ Shelf[t][st] # None
    BY <1>3, <1>8 DEF ShelfAsShown, Shown
  <2>2. Spoiled' = IF <<t, st>> \in Spoiled THEN Spoiled \cup {<<s, st>>} ELSE Spoiled
    <3>1. <<s, st>> \notin Spoiled /\ (<<s, st>> \in Spoiled' <=> <<t, st>> \in Spoiled)
      BY <1>5, <1>8
    <3> QED BY <1>2, <1>4, <3>1
  <2>3. Store!UserCopies(s, t, st)
    BY <1>1, <1>2, <2>1, <2>2 DEF Store!UserCopies
  <2> QED BY <2>3, SameWords DEF Store!StoreNext
<1> QED BY <1>1, <1>6, <1>7, <1>8 DEF Edited

\* The processes and the file system implement ArtifactStore: an artifact
\* appears whole, at once and in an empty place, names only what was published
\* before it, and is changed by the user alone (write_bundle, write_diagnosis,
\* write_report and what is loaded before them).
THEOREM Implements ==
    ASSUME Leftovers = FALSE
    PROVE  Spec => ImplementsStore
<1>1. Init => Store!StoreInit
  BY InitStore
<1>2. HInv /\ HInv' /\ [Next]_vars => [Store!StoreNext]_(Store!storeVars)
  <2> SUFFICES ASSUME HInv, HInv', [Next]_vars
               PROVE  Store!StoreNext \/ UNCHANGED Store!storeVars
    OBVIOUS
  <2>1. CASE ShelfSame /\ done' = done
    BY <2>1, StoreStutters DEF HInv
  <2>2. ASSUME NEW p \in Procs, Rename(p) PROVE Store!StoreNext
    BY <2>2, RenameIsPublish
  <2>3. CASE Edit
    BY <2>3, EditIsUser DEF HInv
  <2> QED BY <2>1, <2>2, <2>3, NextHistory
<1> QED BY <1>1, <1>2, HistoryInvariance, PTL DEF Spec, ImplementsStore, Store!StoreSpec
=============================================================================
