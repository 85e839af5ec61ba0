---------------------------- MODULE SessionProofs ----------------------------
(***************************************************************************)
(* For every set of processes, sessions and commands, and every bound: the *)
(* type invariant, that a process between create_dir and rename is alone   *)
(* in its directory, that what has a final name is whole, and that no step *)
(* of the program touches it again.                                        *)
(***************************************************************************)
EXTENDS Session, TLAPS

Steps == {"check", "name", "probeFinal", "probeIncomplete", "mkdir", "compute",
          "validate", "loadCollection", "loadDiagnosis", "rename", "return"}
         \cup FileNames

-----------------------------------------------------------------------------
(* The programs: where each step stands, and what precedes it.             *)

\* One more step has been taken.
LEMMA BeforeNext ==
    ASSUME NEW st \in Stages, NEW n \in 1..Len(Program[st])
    PROVE  Before(st, n + 1) = Before(st, n) \cup {Program[st][n]}
  BY DEF Before

\* Only return ends a program, and the first step has nothing before it.
LEMMA ProgramShape ==
    ASSUME NEW st \in Stages
    PROVE  /\ 1 \in 1..Len(Program[st]) /\ 2 \in 1..Len(Program[st])
           /\ Len(Program[st]) \in Nat
           /\ Before(st, 1) = {}
           /\ Before(st, 2) = {"check"}
           /\ \A n \in 1..Len(Program[st]) :
                /\ Program[st][n] \in Steps
                /\ Program[st][n] # "return" => n + 1 \in 1..Len(Program[st])
<1>1. ASSUME NEW n \in 1..Len(Program[st])
      PROVE  /\ Program[st][n] \in Steps
             /\ Program[st][n] # "return" => n + 1 \in 1..Len(Program[st])
  <2>1. CASE st = "collect"
    BY <2>1 DEF Program, Steps, FileNames, Expected, Stages
  <2>2. CASE st = "diagnose"
    BY <2>2 DEF Program, Steps, FileNames, Expected, Stages
  <2>3. CASE st = "report"
    BY <2>3 DEF Program, Steps, FileNames, Expected, Stages
  <2> QED BY <2>1, <2>2, <2>3 DEF Stages
<1>2. /\ 1 \in 1..Len(Program[st]) /\ 2 \in 1..Len(Program[st])
      /\ Len(Program[st]) \in Nat
  <2>1. CASE st = "collect" BY <2>1 DEF Program
  <2>2. CASE st = "diagnose" BY <2>2 DEF Program
  <2>3. CASE st = "report" BY <2>3 DEF Program
  <2> QED BY <2>1, <2>2, <2>3 DEF Stages
<1>3. Before(st, 1) = {} /\ Before(st, 2) = {"check"}
  <2>1. Program[st][1] = "check"
    BY DEF Stages, Program
  <2>2. 1..(1 - 1) = {} /\ 1..(2 - 1) = {1}
    OBVIOUS
  <2> QED BY <2>1, <2>2 DEF Before
<1> QED BY <1>1, <1>2, <1>3

\* What has been done when a step is reached.
Reached(st, n) ==
    LET op == Program[st][n]
        past == Before(st, n)
    IN  /\ op = "rename" => /\ past \cap FileNames = Expected[st]
                            /\ "mkdir" \in past /\ "rename" \notin past
        /\ op = "mkdir" => /\ past \cap FileNames = {}
                           /\ "mkdir" \notin past /\ "rename" \notin past
                           /\ st # "collect" => "loadCollection" \in past
                           /\ st = "report" => "loadDiagnosis" \in past
        /\ op \in FileNames => /\ "mkdir" \in past /\ "rename" \notin past
                               /\ op \notin past
        /\ op \in {"name", "probeFinal", "probeIncomplete", "loadCollection",
                   "loadDiagnosis"} => "mkdir" \notin past
        /\ op = "return" => "rename" \in past
        /\ st = "collect" => /\ op \notin {"loadCollection", "loadDiagnosis"}
                             /\ op \notin {"check", "name"} => "name" \in past
                             /\ "mkdir" \in past => "name" \in past
                             /\ op = "compute" => /\ "mkdir" \in past
                                                  /\ "rename" \notin past
        /\ st # "collect" => op # "name"
        /\ op = "loadCollection" => "loadDiagnosis" \notin past
        /\ op = "loadDiagnosis" => "loadCollection" \in past

LEMMA CollectReached ==
    ASSUME NEW n \in 1..Len(Program["collect"])
    PROVE  Reached("collect", n)
  BY DEF Reached, Program, Before, FileNames, Expected, Stages

LEMMA CollectLoadsNothing ==
    ASSUME NEW n \in 1..Len(Program["collect"])
    PROVE  "loadCollection" \notin Before("collect", n)
           /\ "loadDiagnosis" \notin Before("collect", n)
  BY DEF Program, Before

LEMMA DiagnoseReached ==
    ASSUME NEW n \in 1..Len(Program["diagnose"])
    PROVE  Reached("diagnose", n)
  BY DEF Reached, Program, Before, FileNames, Expected, Stages

LEMMA ReportReached ==
    ASSUME NEW n \in 1..Len(Program["report"])
    PROVE  Reached("report", n)
  BY DEF Reached, Program, Before, FileNames, Expected, Stages

LEMMA StepReached ==
    ASSUME NEW st \in Stages, NEW n \in 1..Len(Program[st])
    PROVE  Reached(st, n)
  BY CollectReached, DiagnoseReached, ReportReached DEF Stages

-----------------------------------------------------------------------------
(* The inductive invariant.                                                *)

\* A process stands in its program; it works in a session directory under the
\* name its stage has for it, and holds the manifests it has loaded.
ControlOK ==
    \A p \in Procs :
        /\ proc[p].at \in 1..Len(Program[proc[p].stage])
        /\ ~Running(p) => proc[p].at = 1
        /\ Running(p) =>
             /\ proc[p].stage = "collect" /\ "name" \in Past(p) =>
                  \E s \in Sessions : proc[p].dir = <<s, "incomplete">>
             /\ proc[p].stage # "collect" =>
                  \E s \in Sessions : proc[p].dir = <<s, "final">>
             /\ "loadCollection" \in Past(p) => proc[p].collection \in Manifests
             /\ "loadDiagnosis" \in Past(p) => proc[p].diagnosis \in Manifests

\* A session directory being collected holds its collection only; without a
\* collection there is no session directory.
DirectoryOK ==
    \A s \in Sessions :
        /\ \A x \in Slots \ {"collection"} : disk[<<s, "incomplete">>][x] = None
        /\ disk[<<s, "final">>]["collection"] = None => disk[<<s, "final">>] = Vacant

IInv == TypeOK /\ ControlOK /\ DirectoryOK /\ HolderOwnsDirectory /\ PublishedComplete

LEMMA InitIInv == Init => IInv
<1> SUFFICES ASSUME Init PROVE IInv
  OBVIOUS
<1>1. TypeOK
  <2>1. proc \in [Procs -> Processes]
    BY SessionAssumption DEF Init, Processes, Stages, Resting
  <2>2. \A s \in Seeded : SeedManifest(s) \in Manifests
    BY SessionAssumption DEF SeedManifest, Manifests, Stages, Authors
  <2>3. \A s \in Seeded : [NewArtifact(SeedManifest(s)) EXCEPT
                             !.files = Expected["collect"]] \in Artifacts
    BY <2>2 DEF NewArtifact, Artifacts, FileNames, Expected, Stages
  <2>4. disk \in [Paths -> [Slots -> Artifacts \cup {None}]]
    BY <2>3 DEF Init, Vacant, Paths
  <2>5. done \subseteq Manifests /\ edits \in 0..MaxEdits
    BY <2>2, SessionAssumption DEF Init
  <2> QED BY <2>1, <2>4, <2>5 DEF TypeOK
<1>2. ControlOK
  BY ProgramShape DEF Init, ControlOK, Running, Stages, Resting
<1>3. DirectoryOK
  BY DEF Init, DirectoryOK, Paths, Slots, Vacant
<1>4. HolderOwnsDirectory
  BY DEF Init, HolderOwnsDirectory, Running, Resting
<1>5. PublishedComplete
  BY DEF Init, PublishedComplete, InPlace, FinalSlot, Vacant, Slots, Paths, Stages,
     NewArtifact, SeedManifest
<1> QED BY <1>1, <1>2, <1>3, <1>4, <1>5 DEF IInv

-----------------------------------------------------------------------------
(* What the invariant says of one process.                                 *)

LEMMA Position ==
    ASSUME IInv, NEW p \in Procs
    PROVE  /\ proc[p] \in Processes
           /\ proc[p].stage \in Stages
           /\ proc[p].at \in 1..Len(Program[proc[p].stage])
           /\ Op(p) = Program[proc[p].stage][proc[p].at]
           /\ Past(p) = Before(proc[p].stage, proc[p].at)
           /\ Reached(proc[p].stage, proc[p].at)
           /\ Op(p) \in Steps
           /\ Op(p) # "return" => proc[p].at + 1 \in 1..Len(Program[proc[p].stage])
           /\ Before(proc[p].stage, proc[p].at + 1) = Past(p) \cup {Op(p)}
<1>1. proc[p] \in Processes /\ proc[p].stage \in Stages
  BY DEF IInv, TypeOK, Processes
<1>2. proc[p].at \in 1..Len(Program[proc[p].stage])
  BY DEF IInv, ControlOK
<1>3. Op(p) = Program[proc[p].stage][proc[p].at]
      /\ Past(p) = Before(proc[p].stage, proc[p].at)
  BY DEF Op, Past
<1> QED BY <1>1, <1>2, <1>3, StepReached, BeforeNext, ProgramShape

\* Where a process that holds a directory works: never under a final name.
LEMMA Workplace ==
    ASSUME IInv, NEW p \in Procs, Running(p), Holding(p)
    PROVE  /\ proc[p].dir \in Paths /\ WorkOf(p) \in Slots
           /\ \/ /\ proc[p].stage = "collect" /\ WorkOf(p) = "collection"
                 /\ \E s \in Sessions : proc[p].dir = <<s, "incomplete">>
              \/ /\ proc[p].stage # "collect"
                 /\ WorkOf(p) \in {"diagnosis.incomplete", "report.incomplete"}
                 /\ \E s \in Sessions : proc[p].dir = <<s, "final">>
           /\ disk[proc[p].dir][WorkOf(p)] \in Artifacts
           /\ disk[proc[p].dir][WorkOf(p)].manifest.by = p
           /\ disk[proc[p].dir][WorkOf(p)].manifest.stage = proc[p].stage
<1>1. WorkOf(p) = WorkSlot[proc[p].stage] /\ proc[p].stage \in Stages
  BY Position DEF WorkOf
<1>2. proc[p].stage = "collect" => "name" \in Past(p)
  BY Position DEF Holding, Reached
<1>3. \/ /\ proc[p].stage = "collect" /\ WorkOf(p) = "collection"
         /\ \E s \in Sessions : proc[p].dir = <<s, "incomplete">>
      \/ /\ proc[p].stage # "collect"
         /\ WorkOf(p) \in {"diagnosis.incomplete", "report.incomplete"}
         /\ \E s \in Sessions : proc[p].dir = <<s, "final">>
  BY <1>1, <1>2 DEF IInv, ControlOK, WorkSlot, Stages
<1>4. proc[p].dir \in Paths /\ WorkOf(p) \in Slots
  BY <1>3 DEF Paths, Slots
<1>5. Exists(proc[p].dir, WorkOf(p))
      /\ disk[proc[p].dir][WorkOf(p)] =
           [NewArtifact(ManifestOf(p)) EXCEPT !.files = Past(p) \cap FileNames]
  BY DEF IInv, HolderOwnsDirectory
<1>6. disk[proc[p].dir][WorkOf(p)] \in Artifacts
  BY <1>4, <1>5 DEF IInv, TypeOK, Exists
<1>7. ManifestOf(p).by = p /\ ManifestOf(p).stage = proc[p].stage
  BY DEF ManifestOf
<1>8. disk[proc[p].dir][WorkOf(p)].manifest = ManifestOf(p)
  BY <1>5 DEF NewArtifact
<1> QED BY <1>3, <1>4, <1>6, <1>7, <1>8

\* Two processes never work in the same place.
LEMMA Apart ==
    ASSUME IInv, NEW p \in Procs, NEW q \in Procs, p # q,
           Running(p), Holding(p), Running(q), Holding(q)
    PROVE  <<proc[p].dir, WorkOf(p)>> # <<proc[q].dir, WorkOf(q)>>
  BY Workplace

-----------------------------------------------------------------------------
(* The steps preserve the invariant.                                       *)

ControlAt(p) ==
    /\ proc[p].at \in 1..Len(Program[proc[p].stage])
    /\ ~Running(p) => proc[p].at = 1
    /\ Running(p) =>
         /\ proc[p].stage = "collect" /\ "name" \in Past(p) =>
              \E s \in Sessions : proc[p].dir = <<s, "incomplete">>
         /\ proc[p].stage # "collect" =>
              \E s \in Sessions : proc[p].dir = <<s, "final">>
         /\ "loadCollection" \in Past(p) => proc[p].collection \in Manifests
         /\ "loadDiagnosis" \in Past(p) => proc[p].diagnosis \in Manifests

HoldsAt(p) ==
    Running(p) /\ Holding(p) =>
        /\ Exists(proc[p].dir, WorkOf(p))
        /\ disk[proc[p].dir][WorkOf(p)] =
             [NewArtifact(ManifestOf(p)) EXCEPT !.files = Past(p) \cap FileNames]

LEMMA ByProcess ==
    /\ ControlOK <=> \A p \in Procs : ControlAt(p)
    /\ HolderOwnsDirectory <=> \A p \in Procs : HoldsAt(p)
    /\ ControlOK' <=> \A p \in Procs : ControlAt(p)'
    /\ HolderOwnsDirectory' <=> \A p \in Procs : HoldsAt(p)'
  BY DEF ControlOK, ControlAt, HolderOwnsDirectory, HoldsAt

\* A process that does nothing, and whose place nobody touches.
LEMMA Bystander ==
    ASSUME IInv, NEW q \in Procs, proc'[q] = proc[q],
           Running(q) /\ Holding(q) =>
             disk'[proc[q].dir][WorkOf(q)] = disk[proc[q].dir][WorkOf(q)]
    PROVE  ControlAt(q)' /\ HoldsAt(q)'
<1>1. ControlAt(q) /\ HoldsAt(q)
  BY ByProcess DEF IInv
<1>2. /\ Running(q)' = Running(q) /\ Holding(q)' = Holding(q) /\ Past(q)' = Past(q)
      /\ WorkOf(q)' = WorkOf(q) /\ ManifestOf(q)' = ManifestOf(q)
  BY DEF Running, Holding, Past, WorkOf, ManifestOf
<1>3. ControlAt(q)'
  BY <1>1, <1>2 DEF ControlAt
<1>4. HoldsAt(q)'
  BY <1>1, <1>2 DEF HoldsAt, Exists
<1> QED BY <1>3, <1>4

\* A step after which every final name shows what it showed before.
FinalKept ==
    \A s \in Sessions, st \in Stages :
        InPlace(s, st) # None => InPlace(s, st)' = InPlace(s, st)

\* One step further, with nothing else changed.
LEMMA AdvanceKeeps ==
    ASSUME IInv, NEW p \in Procs, Running(p), Advance(p), UNCHANGED <<disk, done, edits>>,
           Op(p) \in {"check", "probeFinal", "probeIncomplete", "compute", "validate"}
    PROVE  IInv' /\ FinalKept
<1>1. /\ proc'[p] = [proc[p] EXCEPT !.at = @ + 1]
      /\ \A q \in Procs : q # p => proc'[q] = proc[q]
      /\ proc' \in [Procs -> Processes]
  <2>1. proc \in [Procs -> Processes]
    BY DEF IInv, TypeOK
  <2>2. proc' = [proc EXCEPT ![p] = [proc[p] EXCEPT !.at = proc[p].at + 1]]
    BY DEF Advance
  <2>3. [proc[p] EXCEPT !.at = proc[p].at + 1] \in Processes
    BY <2>1 DEF Processes
  <2> QED BY <2>1, <2>2, <2>3
<1>2. /\ Running(p)' /\ Past(p)' = Past(p) \cup {Op(p)}
      /\ proc'[p].stage = proc[p].stage
      /\ proc'[p].at \in 1..Len(Program[proc'[p].stage])
  BY <1>1, Position DEF Running, Past, Processes
<1>3. Op(p) \notin FileNames \cup {"name", "mkdir", "rename", "loadCollection", "loadDiagnosis"}
  BY DEF FileNames, Expected, Stages
<1>4. ControlAt(p)'
  <2>1. ControlAt(p)
    BY ByProcess DEF IInv
  <2> QED BY <1>1, <1>2, <1>3, <2>1 DEF ControlAt, Running, Processes
<1>5. HoldsAt(p)'
  <2>1. HoldsAt(p)
    BY ByProcess DEF IInv
  <2>2. /\ Holding(p)' = Holding(p) /\ WorkOf(p)' = WorkOf(p)
        /\ ManifestOf(p)' = ManifestOf(p) /\ proc'[p].dir = proc[p].dir
        /\ Past(p)' \cap FileNames = Past(p) \cap FileNames
    BY <1>1, <1>2, <1>3 DEF Holding, WorkOf, ManifestOf
  <2> QED BY <2>1, <2>2 DEF HoldsAt, Exists
<1>6. ControlOK' /\ HolderOwnsDirectory'
  BY <1>1, <1>4, <1>5, Bystander, ByProcess
<1>7. TypeOK'
  BY <1>1 DEF IInv, TypeOK
<1>8. DirectoryOK' /\ PublishedComplete' /\ FinalKept
  BY DEF IInv, DirectoryOK, PublishedComplete, InPlace, FinalKept
<1> QED BY <1>6, <1>7, <1>8 DEF IInv

\* A place where an artifact is being made.
Workbench(d, x) ==
    \/ x = "collection" /\ \E s \in Sessions : d = <<s, "incomplete">>
    \/ /\ x \in {"diagnosis.incomplete", "report.incomplete"}
       /\ \E s \in Sessions : d = <<s, "final">>
       /\ disk[d]["collection"] # None

\* Changing what lies there leaves everything under a final name as it is.
LEMMA WorkbenchChange ==
    ASSUME IInv, NEW d \in Paths, NEW x \in Slots, Workbench(d, x),
           NEW a \in Artifacts \cup {None}, disk' = [disk EXCEPT ![d][x] = a]
    PROVE  /\ disk' \in [Paths -> [Slots -> Artifacts \cup {None}]]
           /\ disk'[d][x] = a
           /\ \A e \in Paths, y \in Slots : <<e, y>> # <<d, x>> => disk'[e][y] = disk[e][y]
           /\ DirectoryOK'
           /\ PublishedComplete'
           /\ \A s \in Sessions, st \in Stages : InPlace(s, st)' = InPlace(s, st)
<1>1. disk \in [Paths -> [Slots -> Artifacts \cup {None}]]
  BY DEF IInv, TypeOK
<1>2. disk' \in [Paths -> [Slots -> Artifacts \cup {None}]]
  BY <1>1
<1>3. disk'[d][x] = a
      /\ \A e \in Paths, y \in Slots : <<e, y>> # <<d, x>> => disk'[e][y] = disk[e][y]
  BY <1>1
<1>4. \A s \in Sessions, st \in Stages : InPlace(s, st)' = InPlace(s, st)
  BY <1>3 DEF InPlace, Workbench, FinalSlot, Stages, Slots, Paths
<1>5. DirectoryOK'
  <2>1. \A s \in Sessions, y \in Slots \ {"collection"} :
          disk'[<<s, "incomplete">>][y] = None
    <3> SUFFICES ASSUME NEW s \in Sessions, NEW y \in Slots \ {"collection"}
                 PROVE  disk'[<<s, "incomplete">>][y] = None
      OBVIOUS
    <3>1. <<s, "incomplete">> \in Paths /\ disk[<<s, "incomplete">>][y] = None
      BY DEF Paths, IInv, DirectoryOK
    <3>2. <<<<s, "incomplete">>, y>> # <<d, x>>
      BY DEF Workbench
    <3> QED BY <1>3, <3>1, <3>2
  <2>2. ASSUME NEW s \in Sessions, disk'[<<s, "final">>]["collection"] = None
        PROVE  disk'[<<s, "final">>] = Vacant
    <3>1. <<s, "final">> \in Paths /\ "collection" \in Slots
      BY DEF Paths, Slots
    <3>2. disk[<<s, "final">>]["collection"] = None
      BY <1>3, <2>2, <3>1 DEF Workbench
    <3>3. <<s, "final">> # d
      BY <3>2 DEF Workbench
    <3> QED BY <1>1, <3>1, <3>2, <3>3 DEF IInv, DirectoryOK
  <2> QED BY <2>1, <2>2 DEF DirectoryOK
<1>6. PublishedComplete'
  BY <1>4 DEF IInv, PublishedComplete
<1> QED BY <1>2, <1>3, <1>4, <1>5, <1>6

LEMMA HolderAtWorkbench ==
    ASSUME IInv, NEW p \in Procs, Running(p), Holding(p)
    PROVE  Workbench(proc[p].dir, WorkOf(p))
<1>1. proc[p].stage # "collect" => disk[proc[p].dir]["collection"] # None
  <2> SUFFICES ASSUME proc[p].stage # "collect", disk[proc[p].dir]["collection"] = None
               PROVE  FALSE
    OBVIOUS
  <2>1. PICK s \in Sessions : proc[p].dir = <<s, "final">>
    BY Workplace
  <2>2. disk[proc[p].dir] = Vacant
    BY <2>1 DEF IInv, DirectoryOK
  <2>3. disk[proc[p].dir][WorkOf(p)] \in Artifacts /\ WorkOf(p) \in Slots
    BY Workplace
  <2> QED BY <2>2, <2>3, NoneAssumption DEF Vacant
<1> QED BY <1>1, Workplace DEF Workbench

\* A process that ends, and may leave a last trace in its own directory.
LEMMA ExitKeeps ==
    ASSUME IInv, NEW p \in Procs, Running(p), NEW how \in Endings, Exit(p, how),
           UNCHANGED <<done, edits>>,
           \/ UNCHANGED disk
           \/ /\ Holding(p)
              /\ \E a \in Artifacts : disk' = [disk EXCEPT ![proc[p].dir][WorkOf(p)] = a]
    PROVE  IInv' /\ FinalKept
<1>1. /\ proc' \in [Procs -> Processes]
      /\ \A q \in Procs : q # p => proc'[q] = proc[q]
      /\ proc'[p].state = how /\ proc'[p].at = 1 /\ proc'[p].stage = "collect"
  <2>1. proc \in [Procs -> Processes]
    BY DEF IInv, TypeOK
  <2> DEFINE r == Resting(how, proc[p].cmd, proc[p].intr, proc[p].fence)
  <2>2. proc' = [proc EXCEPT ![p] = r]
    BY DEF Exit
  <2>3. r \in Processes
    <3>1. /\ proc[p].cmd \in Commands \cup {"none"} /\ proc[p].intr \in 0..1
          /\ proc[p].fence \in Stages \cup {"none"} /\ 0 \in 0..MaxTries
      BY <2>1, SessionAssumption DEF Processes
    <3> QED BY <3>1 DEF Processes, Stages, Resting
  <2>4. r.state = how /\ r.at = 1 /\ r.stage = "collect"
    BY DEF Resting
  <2> HIDE DEF r
  <2> QED BY <2>1, <2>2, <2>3, <2>4
<1>2. ~Running(p)'
  BY <1>1 DEF Running, Endings
<1>3. ControlAt(p)' /\ HoldsAt(p)'
  BY <1>1, <1>2, ProgramShape DEF ControlAt, HoldsAt, Stages
<1>4. CASE UNCHANGED disk
  <2>1. ControlOK' /\ HolderOwnsDirectory'
    BY <1>1, <1>3, <1>4, Bystander, ByProcess
  <2>2. TypeOK'
    BY <1>1, <1>4 DEF IInv, TypeOK
  <2>3. DirectoryOK' /\ PublishedComplete' /\ FinalKept
    BY <1>4 DEF IInv, DirectoryOK, PublishedComplete, InPlace, FinalKept
  <2> QED BY <2>1, <2>2, <2>3 DEF IInv
<1>5. ASSUME Holding(p), NEW a \in Artifacts,
             disk' = [disk EXCEPT ![proc[p].dir][WorkOf(p)] = a]
      PROVE  IInv' /\ FinalKept
  <2>1. proc[p].dir \in Paths /\ WorkOf(p) \in Slots /\ Workbench(proc[p].dir, WorkOf(p))
    BY <1>5, Workplace, HolderAtWorkbench
  <2>2. ASSUME NEW q \in Procs, q # p, Running(q), Holding(q)
        PROVE  disk'[proc[q].dir][WorkOf(q)] = disk[proc[q].dir][WorkOf(q)]
    <3>1. <<proc[q].dir, WorkOf(q)>> # <<proc[p].dir, WorkOf(p)>>
      BY <1>5, <2>2, Apart
    <3>2. proc[q].dir \in Paths /\ WorkOf(q) \in Slots
      BY <2>2, Workplace
    <3> QED BY <1>5, <2>1, <3>1, <3>2, WorkbenchChange
  <2>3. ControlOK' /\ HolderOwnsDirectory'
    BY <1>1, <1>3, <2>2, Bystander, ByProcess
  <2>4. TypeOK' /\ DirectoryOK' /\ PublishedComplete' /\ FinalKept
    BY <1>1, <1>5, <2>1, WorkbenchChange DEF IInv, TypeOK, FinalKept
  <2> QED BY <2>3, <2>4 DEF IInv
<1> QED BY <1>4, <1>5

\* A step that changes only the record of its process keeps the invariant when that
\* record's control is right and its process holds what it holds.
LEMMA PrivateChange ==
    ASSUME IInv, NEW p \in Procs, NEW r \in Processes, proc' = [proc EXCEPT ![p] = r],
           UNCHANGED <<disk, done, edits>>, ControlAt(p)', HoldsAt(p)'
    PROVE  IInv' /\ FinalKept
<1>1. proc' \in [Procs -> Processes] /\ \A q \in Procs : q # p => proc'[q] = proc[q]
  BY DEF IInv, TypeOK
<1>2. ControlOK' /\ HolderOwnsDirectory'
  BY <1>1, Bystander, ByProcess
<1>3. TypeOK' /\ DirectoryOK' /\ PublishedComplete' /\ FinalKept
  <2>1. TypeOK'
    BY <1>1 DEF IInv, TypeOK
  <2>2. DirectoryOK' /\ PublishedComplete'
    BY DEF IInv, DirectoryOK, PublishedComplete, InPlace
  <2>3. FinalKept
    BY DEF FinalKept, InPlace
  <2> QED BY <2>1, <2>2, <2>3
<1> QED BY <1>2, <1>3 DEF IInv

LEMMA StartKeeps ==
    ASSUME IInv, Leftovers = FALSE, NEW p \in Procs, Start(p)
    PROVE  IInv' /\ FinalKept
<1>1. PICK c \in Commands, d \in Paths :
        /\ d[2] = "incomplete" => Leftovers
        /\ proc' = [proc EXCEPT ![p].state = "running", ![p].cmd = c,
                                ![p].stage = FirstStage(c),
                                ![p].dir = IF FirstStage(c) = "collect" THEN None ELSE d]
  BY DEF Start
<1> DEFINE r == [proc[p] EXCEPT !.state = "running", !.cmd = c, !.stage = FirstStage(c),
                                !.dir = IF FirstStage(c) = "collect" THEN None ELSE d]
<1>2. proc[p] \in Processes /\ proc[p].at = 1 /\ proc \in [Procs -> Processes]
  BY DEF IInv, TypeOK, ControlOK, Start, Running
<1>3. FirstStage(c) \in Stages /\ \E s \in Sessions : d = <<s, "final">>
  BY <1>1, SessionAssumption DEF FirstStage, Stages, Paths
<1>4. /\ r \in Processes /\ r.state = "running" /\ r.at = 1 /\ r.stage = FirstStage(c)
      /\ r.dir = IF FirstStage(c) = "collect" THEN None ELSE d
  BY <1>2, <1>3 DEF Processes
<1>5. proc' = [proc EXCEPT ![p] = r] /\ proc'[p] = r
  BY <1>1, <1>2
<1> HIDE DEF r
<1>6. Past(p)' = {}
  BY <1>3, <1>4, <1>5, ProgramShape DEF Past
<1>7. ControlAt(p)' /\ HoldsAt(p)'
  BY <1>3, <1>4, <1>5, <1>6, ProgramShape DEF ControlAt, HoldsAt, Holding, Running
<1> QED BY <1>4, <1>5, <1>7, PrivateChange DEF Start

\* The facts about a process one step on, whatever else of it changed.
LEMMA OneStepOn ==
    ASSUME IInv, NEW p \in Procs, NEW r \in Processes, proc' = [proc EXCEPT ![p] = r],
           r.at = proc[p].at + 1, r.stage = proc[p].stage, Op(p) # "return"
    PROVE  /\ proc'[p] = r
           /\ proc'[p].at \in 1..Len(Program[proc'[p].stage])
           /\ Past(p)' = Past(p) \cup {Op(p)}
<1>1. proc'[p] = r
  BY DEF IInv, TypeOK
<1> QED BY <1>1, Position DEF Past

LEMMA NameKeeps ==
    ASSUME IInv, NEW p \in Procs, Name(p)
    PROVE  IInv' /\ FinalKept
<1>1. Running(p) /\ Op(p) = "name" /\ UNCHANGED <<disk, done, edits>>
  BY DEF Name
<1>2. CASE proc[p].tries = MaxTries
  <2>1. Exit(p, "failed")
    BY <1>2 DEF Name
  <2> QED BY <1>1, <2>1, ExitKeeps DEF Endings
<1>3. CASE proc[p].tries # MaxTries
  <2>1. PICK s \in Sessions :
          proc' = [proc EXCEPT ![p].dir = <<s, "incomplete">>, ![p].at = @ + 1,
                               ![p].tries = @ + 1]
    BY <1>3 DEF Name
  <2> DEFINE r == [proc[p] EXCEPT !.dir = <<s, "incomplete">>, !.at = proc[p].at + 1,
                                  !.tries = proc[p].tries + 1]
  <2>2. proc[p] \in Processes /\ proc \in [Procs -> Processes]
        /\ proc[p].stage \in Stages /\ Reached(proc[p].stage, proc[p].at)
        /\ Past(p) = Before(proc[p].stage, proc[p].at)
    BY Position DEF IInv, TypeOK
  <2>3. proc[p].tries + 1 \in 0..MaxTries /\ <<s, "incomplete">> \in Paths
    BY <2>2, <1>3, SessionAssumption DEF Processes, Paths
  <2>4. /\ r \in Processes /\ r.state = proc[p].state /\ r.at = proc[p].at + 1
        /\ r.stage = proc[p].stage /\ r.dir = <<s, "incomplete">>
    <3>1. proc[p] \in Processes /\ proc[p].at + 1 \in Nat \ {0}
      BY <2>2 DEF Processes
    <3> QED BY <2>3, <3>1 DEF Processes
  <2>5. proc' = [proc EXCEPT ![p] = r]
    BY <2>1, <2>2
  <2> HIDE DEF r
  <2>6. /\ proc'[p] = r /\ Past(p)' = Past(p) \cup {"name"}
        /\ proc'[p].at \in 1..Len(Program[proc'[p].stage])
    BY <1>1, <2>4, <2>5, OneStepOn
  <2>7. proc[p].stage = "collect" /\ "mkdir" \notin Past(p)
    BY <1>1, <2>2, Position DEF Reached
  <2>8. "loadCollection" \notin Past(p)' /\ "loadDiagnosis" \notin Past(p)'
    BY <2>6, <2>7, CollectLoadsNothing, Position
  <2>9. ControlAt(p)' /\ HoldsAt(p)'
    BY <1>1, <2>4, <2>6, <2>7, <2>8 DEF ControlAt, HoldsAt, Holding, Running
  <2> QED BY <1>1, <2>4, <2>5, <2>9, PrivateChange
<1> QED BY <1>2, <1>3

\* Writing the log, a whole file or a cut-off one replaces one artifact by another.
LEMMA TraceIsArtifact ==
    ASSUME IInv, NEW p \in Procs, Running(p), Holding(p)
    PROVE  /\ \E a \in Artifacts :
                [disk EXCEPT ![proc[p].dir][WorkOf(p)].log = TRUE] =
                [disk EXCEPT ![proc[p].dir][WorkOf(p)] = a]
           /\ Op(p) \in FileNames => \E a \in Artifacts :
                [disk EXCEPT ![proc[p].dir][WorkOf(p)].torn = @ \cup {Op(p)}] =
                [disk EXCEPT ![proc[p].dir][WorkOf(p)] = a]
<1> DEFINE a == disk[proc[p].dir][WorkOf(p)]
<1>1. /\ disk \in [Paths -> [Slots -> Artifacts \cup {None}]]
      /\ proc[p].dir \in Paths /\ WorkOf(p) \in Slots /\ a \in Artifacts
  BY Workplace DEF IInv, TypeOK
<1>2. [a EXCEPT !.log = TRUE] \in Artifacts
  BY <1>1 DEF Artifacts
<1>3. Op(p) \in FileNames => [a EXCEPT !.torn = @ \cup {Op(p)}] \in Artifacts
  BY <1>1 DEF Artifacts
<1>4. [disk EXCEPT ![proc[p].dir][WorkOf(p)].log = TRUE] =
      [disk EXCEPT ![proc[p].dir][WorkOf(p)] = [a EXCEPT !.log = TRUE]]
  BY <1>1
<1>5. [disk EXCEPT ![proc[p].dir][WorkOf(p)].torn = @ \cup {Op(p)}] =
      [disk EXCEPT ![proc[p].dir][WorkOf(p)] = [a EXCEPT !.torn = @ \cup {Op(p)}]]
  BY <1>1
<1> QED BY <1>2, <1>3, <1>4, <1>5

LEMMA CheckKeeps ==
    ASSUME IInv, NEW p \in Procs, Check(p)
    PROVE  IInv' /\ FinalKept
<1>1. Running(p) /\ Op(p) = "check" /\ UNCHANGED <<done, edits>>
  BY DEF Check
<1>2. CASE Advance(p) /\ UNCHANGED disk
  BY <1>1, <1>2, AdvanceKeeps
<1>3. CASE Exit(p, "interrupted") /\ UNCHANGED disk
  BY <1>1, <1>3, ExitKeeps DEF Endings
<1>4. CASE /\ Holding(p) /\ Exit(p, "interrupted")
           /\ disk' = [disk EXCEPT ![proc[p].dir][WorkOf(p)].log = TRUE]
  BY <1>1, <1>4, ExitKeeps, TraceIsArtifact DEF Endings
<1>5. CASE Exit(p, "unlogged") /\ UNCHANGED disk
  BY <1>1, <1>5, ExitKeeps DEF Endings
<1> QED BY <1>2, <1>3, <1>4, <1>5 DEF Check

LEMMA ProbeKeeps ==
    ASSUME IInv, NEW p \in Procs, Probe(p)
    PROVE  IInv' /\ FinalKept
<1>1. /\ Running(p) /\ Op(p) \in {"probeFinal", "probeIncomplete"}
      /\ UNCHANGED <<disk, done, edits>>
  BY DEF Probe
<1>2. CASE Advance(p)
  BY <1>1, <1>2, AdvanceKeeps
<1>3. CASE Exit(p, "failed")
  BY <1>1, <1>3, ExitKeeps DEF Endings
<1>4. CASE proc[p].stage = "collect" /\ proc' = [proc EXCEPT ![p].at = 2]
  <2> DEFINE r == [proc[p] EXCEPT !.at = 2]
  <2>1. proc[p] \in Processes /\ proc \in [Procs -> Processes]
    BY DEF IInv, TypeOK
  <2>2. /\ r \in Processes /\ r.state = proc[p].state /\ r.at = 2
        /\ r.stage = "collect"
    BY <1>4, <2>1 DEF Processes
  <2>3. proc' = [proc EXCEPT ![p] = r] /\ proc'[p] = r
    BY <1>4, <2>1
  <2> HIDE DEF r
  <2>4. Past(p)' = {"check"} /\ 2 \in 1..Len(Program["collect"])
    BY <2>2, <2>3, ProgramShape DEF Past, Stages
  <2>5. ControlAt(p)' /\ HoldsAt(p)'
    BY <1>1, <2>2, <2>3, <2>4 DEF ControlAt, HoldsAt, Holding, Running
  <2> QED BY <1>1, <2>2, <2>3, <2>5, PrivateChange
<1> QED BY <1>2, <1>3, <1>4 DEF Probe

LEMMA ComputeKeeps ==
    ASSUME IInv, NEW p \in Procs, Compute(p)
    PROVE  IInv' /\ FinalKept
  BY AdvanceKeeps DEF Compute

LEMMA CancelCollectorsKeeps ==
    ASSUME IInv, NEW p \in Procs, CancelCollectors(p)
    PROVE  IInv' /\ FinalKept
<1>1. /\ Running(p) /\ Op(p) = "compute" /\ proc[p].stage = "collect"
      /\ UNCHANGED <<done, edits>>
  BY DEF CancelCollectors
<1>2. Holding(p) /\ WorkOf(p) = "collection"
  BY <1>1, Position DEF Holding, Reached, WorkOf, WorkSlot
<1>3. CASE /\ Exit(p, "interrupted")
           /\ disk' = [disk EXCEPT ![proc[p].dir]["collection"].log = TRUE]
  BY <1>1, <1>2, <1>3, ExitKeeps, TraceIsArtifact DEF Endings
<1>4. CASE Exit(p, "unlogged") /\ UNCHANGED disk
  BY <1>1, <1>4, ExitKeeps DEF Endings
<1> QED BY <1>3, <1>4 DEF CancelCollectors

\* A step that loads: the process moves on with another manifest or none.
LEMMA LoadKeeps ==
    ASSUME IInv, NEW p \in Procs, Running(p),
           Op(p) \in {"loadCollection", "loadDiagnosis"},
           NEW c \in Manifests \cup {None}, NEW d \in Manifests \cup {None},
           proc' = [proc EXCEPT ![p].at = @ + 1, ![p].collection = c, ![p].diagnosis = d],
           c \in Manifests, Op(p) = "loadDiagnosis" => d \in Manifests,
           "loadDiagnosis" \in Past(p) => d \in Manifests,
           UNCHANGED <<disk, done, edits>>
    PROVE  IInv' /\ FinalKept
<1> DEFINE r == [proc[p] EXCEPT !.at = proc[p].at + 1, !.collection = c, !.diagnosis = d]
<1>1. proc[p] \in Processes /\ proc \in [Procs -> Processes]
  BY DEF IInv, TypeOK
<1>2. /\ r \in Processes /\ r.state = proc[p].state /\ r.at = proc[p].at + 1
      /\ r.stage = proc[p].stage /\ r.dir = proc[p].dir
      /\ r.collection = c /\ r.diagnosis = d
  <2>1. proc[p] \in Processes /\ proc[p].at + 1 \in Nat \ {0}
    BY <1>1 DEF Processes
  <2> QED BY <2>1 DEF Processes
<1>3. proc' = [proc EXCEPT ![p] = r]
  BY <1>1
<1> HIDE DEF r
<1>4. /\ proc'[p] = r /\ Past(p)' = Past(p) \cup {Op(p)}
      /\ proc'[p].at \in 1..Len(Program[proc'[p].stage])
  BY <1>2, <1>3, OneStepOn
<1>5. "mkdir" \notin Past(p) /\ proc[p].stage # "collect"
  BY Position DEF Reached
<1>6. ControlAt(p)
  BY ByProcess DEF IInv
<1>7. ControlAt(p)' /\ HoldsAt(p)'
  BY <1>2, <1>4, <1>5, <1>6 DEF ControlAt, HoldsAt, Holding, Running
<1> QED BY <1>2, <1>3, <1>7, PrivateChange

\* diagnose and report work in a session directory under its final name.
LEMMA AtHome ==
    ASSUME IInv, NEW p \in Procs, Running(p), proc[p].stage # "collect"
    PROVE  /\ \E s \in Sessions : proc[p].dir = <<s, "final">>
           /\ proc[p].dir \in Paths
           /\ "loadCollection" \in Past(p) => proc[p].collection \in Manifests
           /\ "loadDiagnosis" \in Past(p) => proc[p].diagnosis \in Manifests
<1>1. ControlAt(p)
  BY ByProcess DEF IInv
<1>2. \E s \in Sessions : proc[p].dir = <<s, "final">>
  BY <1>1 DEF ControlAt
<1> QED BY <1>1, <1>2 DEF ControlAt, Paths

LEMMA LoadCollectionKeeps ==
    ASSUME IInv, NEW p \in Procs, LoadCollection(p)
    PROVE  IInv' /\ FinalKept
<1> DEFINE a == disk[proc[p].dir]["collection"]
<1>1. /\ Running(p) /\ Op(p) = "loadCollection" /\ UNCHANGED <<disk, done, edits>>
      /\ a # None
      /\ proc' = [proc EXCEPT ![p].at = @ + 1, ![p].collection = a.manifest,
                              ![p].diagnosis = None]
  BY DEF LoadCollection, Exists
<1>2. proc[p].stage # "collect" /\ "loadDiagnosis" \notin Past(p)
  BY <1>1, Position DEF Reached
<1>3. proc[p].dir \in Paths
  BY <1>1, <1>2, AtHome
<1>4. a.manifest \in Manifests
  BY <1>1, <1>3 DEF IInv, TypeOK, Artifacts, Slots
<1> HIDE DEF a
<1> QED BY <1>1, <1>2, <1>4, LoadKeeps

LEMMA LoadDiagnosisKeeps ==
    ASSUME IInv, NEW p \in Procs, LoadDiagnosis(p)
    PROVE  IInv' /\ FinalKept
<1> DEFINE a == disk[proc[p].dir]["diagnosis"]
<1>1. /\ Running(p) /\ Op(p) = "loadDiagnosis" /\ UNCHANGED <<disk, done, edits>>
      /\ a # None
      /\ proc' = [proc EXCEPT ![p].at = @ + 1, ![p].diagnosis = a.manifest]
  BY DEF LoadDiagnosis, Exists
<1>2. proc[p].stage # "collect" /\ "loadCollection" \in Past(p)
  BY <1>1, Position DEF Reached
<1>3. proc[p].dir \in Paths /\ proc[p].collection \in Manifests
  BY <1>1, <1>2, AtHome
<1>4. proc[p] \in Processes /\ proc \in [Procs -> Processes]
  BY DEF IInv, TypeOK
<1>5. a.manifest \in Manifests
  BY <1>1, <1>3 DEF IInv, TypeOK, Artifacts, Slots
<1>6. proc' = [proc EXCEPT ![p].at = @ + 1, ![p].collection = proc[p].collection,
                           ![p].diagnosis = a.manifest]
  BY <1>1, <1>4 DEF Processes
<1> HIDE DEF a
<1> QED BY <1>1, <1>3, <1>5, <1>6, LoadKeeps

LEMMA OwnManifest ==
    ASSUME IInv, NEW p \in Procs, Running(p),
           proc[p].stage # "collect" => "loadCollection" \in Past(p),
           proc[p].stage = "report" => "loadDiagnosis" \in Past(p)
    PROVE  ManifestOf(p) \in Manifests
<1>1. proc[p].stage \in Stages /\ p \in Authors
  BY Position DEF Authors
<1>2. \A m \in Manifests : m.session \in Authors /\ IdOf(m) \in Ids
  BY DEF Manifests, IdOf, Ids
<1>3. CASE proc[p].stage = "collect"
  BY <1>1, <1>3 DEF ManifestOf, Manifests
<1>4. CASE proc[p].stage = "diagnose"
  <2>1. proc[p].collection \in Manifests
    BY <1>4, AtHome
  <2> QED BY <1>1, <1>2, <1>4, <2>1 DEF ManifestOf, Manifests
<1>5. CASE proc[p].stage = "report"
  <2>1. proc[p].collection \in Manifests /\ proc[p].diagnosis \in Manifests
    BY <1>5, AtHome
  <2> QED BY <1>1, <1>2, <1>5, <2>1 DEF ManifestOf, Manifests
<1> QED BY <1>1, <1>3, <1>4, <1>5 DEF Stages

\* One step further, with the artifact at one's own workbench replaced.
LEMMA WorkKeeps ==
    ASSUME IInv, NEW p \in Procs, Running(p), Advance(p), UNCHANGED <<done, edits>>,
           Op(p) \in FileNames \cup {"mkdir"}, "rename" \notin Past(p),
           proc[p].dir \in Paths, WorkOf(p) \in Slots, Workbench(proc[p].dir, WorkOf(p)),
           NEW a \in Artifacts, disk' = [disk EXCEPT ![proc[p].dir][WorkOf(p)] = a],
           a = [NewArtifact(ManifestOf(p)) EXCEPT
                  !.files = (Past(p) \cup {Op(p)}) \cap FileNames],
           \A q \in Procs : q # p /\ Running(q) /\ Holding(q) =>
             <<proc[q].dir, WorkOf(q)>> # <<proc[p].dir, WorkOf(p)>>
    PROVE  IInv' /\ FinalKept
<1>1. /\ proc'[p] = [proc[p] EXCEPT !.at = @ + 1]
      /\ \A q \in Procs : q # p => proc'[q] = proc[q]
      /\ proc' \in [Procs -> Processes]
  <2>1. proc \in [Procs -> Processes]
    BY DEF IInv, TypeOK
  <2>2. proc' = [proc EXCEPT ![p] = [proc[p] EXCEPT !.at = proc[p].at + 1]]
    BY DEF Advance
  <2>3. [proc[p] EXCEPT !.at = proc[p].at + 1] \in Processes
    BY <2>1 DEF Processes
  <2> QED BY <2>1, <2>2, <2>3
<1>2. Op(p) \notin {"name", "loadCollection", "loadDiagnosis", "rename", "return"}
  BY DEF FileNames, Expected, Stages
<1>3. /\ Running(p)' /\ Past(p)' = Past(p) \cup {Op(p)}
      /\ proc'[p].stage = proc[p].stage
      /\ proc'[p].at \in 1..Len(Program[proc'[p].stage])
  <2>1. Op(p) # "return" /\ proc[p] \in Processes
    BY <1>2, Position
  <2>2. proc'[p].at = proc[p].at + 1 /\ proc'[p].stage = proc[p].stage
        /\ proc'[p].state = proc[p].state
    BY <1>1, <2>1 DEF Processes
  <2> QED BY <2>1, <2>2, Position DEF Running, Past
<1>4. ControlAt(p)'
  <2>1. ControlAt(p)
    BY ByProcess DEF IInv
  <2> QED BY <1>1, <1>2, <1>3, <2>1 DEF ControlAt, Running, Processes
<1>5. disk'[proc[p].dir][WorkOf(p)] = a
  BY WorkbenchChange
<1>6. HoldsAt(p)'
  <2>1. /\ WorkOf(p)' = WorkOf(p) /\ ManifestOf(p)' = ManifestOf(p)
        /\ proc'[p].dir = proc[p].dir
    BY <1>1 DEF WorkOf, ManifestOf
  <2> QED BY <1>3, <1>5, <2>1, NoneAssumption DEF HoldsAt, Exists
<1>7. ASSUME NEW q \in Procs, q # p, Running(q), Holding(q)
      PROVE  disk'[proc[q].dir][WorkOf(q)] = disk[proc[q].dir][WorkOf(q)]
  <2>1. proc[q].dir \in Paths /\ WorkOf(q) \in Slots
    BY <1>7, Workplace
  <2> QED BY <1>7, <2>1, WorkbenchChange
<1>8. ControlOK' /\ HolderOwnsDirectory'
  BY <1>1, <1>4, <1>6, <1>7, Bystander, ByProcess
<1>9. TypeOK' /\ DirectoryOK' /\ PublishedComplete' /\ FinalKept
  BY <1>1, WorkbenchChange DEF IInv, TypeOK, FinalKept
<1> QED BY <1>8, <1>9 DEF IInv

LEMMA MkdirKeeps ==
    ASSUME IInv, NEW p \in Procs, Mkdir(p)
    PROVE  IInv' /\ FinalKept
<1>1. /\ Running(p) /\ Op(p) = "mkdir" /\ disk[proc[p].dir][WorkOf(p)] = None
      /\ proc[p].stage # "collect" => disk[proc[p].dir]["collection"] # None
      /\ disk' = [disk EXCEPT ![proc[p].dir][WorkOf(p)] = NewArtifact(ManifestOf(p))]
      /\ Advance(p) /\ UNCHANGED <<done, edits>>
  BY DEF Mkdir, Exists
<1>2. /\ proc[p].stage \in Stages /\ Past(p) \cap FileNames = {} /\ "rename" \notin Past(p)
      /\ proc[p].stage # "collect" => "loadCollection" \in Past(p)
      /\ proc[p].stage = "report" => "loadDiagnosis" \in Past(p)
      /\ proc[p].stage = "collect" => "name" \in Past(p)
  BY <1>1, Position DEF Reached
<1>3. ManifestOf(p) \in Manifests
  BY <1>1, <1>2, OwnManifest
<1>4. NewArtifact(ManifestOf(p)) \in Artifacts
  BY <1>3 DEF NewArtifact, Artifacts
<1>5. NewArtifact(ManifestOf(p)) =
        [NewArtifact(ManifestOf(p)) EXCEPT !.files = (Past(p) \cup {Op(p)}) \cap FileNames]
  <2>1. (Past(p) \cup {Op(p)}) \cap FileNames = {}
    BY <1>1, <1>2 DEF FileNames, Expected, Stages
  <2>2. [NewArtifact(ManifestOf(p)) EXCEPT !.files = {}] = NewArtifact(ManifestOf(p))
    <3>1. \A a \in Artifacts : [a EXCEPT !.files = a.files] = a
      BY DEF Artifacts
    <3>2. NewArtifact(ManifestOf(p)).files = {}
      BY DEF NewArtifact
    <3> QED BY <1>4, <3>1, <3>2
  <2> QED BY <2>1, <2>2
<1>6. /\ proc[p].dir \in Paths /\ WorkOf(p) \in Slots
      /\ Workbench(proc[p].dir, WorkOf(p))
  <2>1. CASE proc[p].stage = "collect"
    <3>1. \E s \in Sessions : proc[p].dir = <<s, "incomplete">>
      BY <1>1, <1>2, <2>1 DEF IInv, ControlOK
    <3> QED BY <2>1, <3>1 DEF WorkOf, WorkSlot, Workbench, Paths, Slots
  <2>2. CASE proc[p].stage # "collect"
    BY <1>1, <1>2, <2>2, AtHome DEF WorkOf, WorkSlot, Workbench, Slots, Stages
  <2> QED BY <2>1, <2>2
<1>7. \A q \in Procs : q # p /\ Running(q) /\ Holding(q) =>
        <<proc[q].dir, WorkOf(q)>> # <<proc[p].dir, WorkOf(p)>>
  BY <1>1, Workplace, NoneAssumption
<1> QED BY <1>1, <1>2, <1>4, <1>5, <1>6, <1>7, WorkKeeps

LEMMA WriteKeeps ==
    ASSUME IInv, NEW p \in Procs, Write(p)
    PROVE  IInv' /\ FinalKept
<1> DEFINE a == disk[proc[p].dir][WorkOf(p)]
<1> DEFINE b == [a EXCEPT !.files = @ \cup {Op(p)}]
<1>1. /\ Running(p) /\ Op(p) \in FileNames
      /\ disk' = [disk EXCEPT ![proc[p].dir][WorkOf(p)].files = @ \cup {Op(p)}]
      /\ Advance(p) /\ UNCHANGED <<done, edits>>
  BY DEF Write
<1>2. Holding(p) /\ "rename" \notin Past(p)
  BY <1>1, Position DEF Reached, Holding
<1>3. /\ disk \in [Paths -> [Slots -> Artifacts \cup {None}]]
      /\ proc[p].dir \in Paths /\ WorkOf(p) \in Slots /\ a \in Artifacts
      /\ Workbench(proc[p].dir, WorkOf(p))
  BY <1>1, <1>2, Workplace, HolderAtWorkbench DEF IInv, TypeOK
<1>4. b \in Artifacts /\ disk' = [disk EXCEPT ![proc[p].dir][WorkOf(p)] = b]
  BY <1>1, <1>3 DEF Artifacts
<1>5. a = [NewArtifact(ManifestOf(p)) EXCEPT !.files = Past(p) \cap FileNames]
  BY <1>1, <1>2 DEF IInv, HolderOwnsDirectory
<1>6. b = [NewArtifact(ManifestOf(p)) EXCEPT !.files = (Past(p) \cup {Op(p)}) \cap FileNames]
  <2>1. (Past(p) \cup {Op(p)}) \cap FileNames = (Past(p) \cap FileNames) \cup {Op(p)}
    BY <1>1
  <2> QED BY <1>5, <2>1 DEF NewArtifact
<1>7. \A q \in Procs : q # p /\ Running(q) /\ Holding(q) =>
        <<proc[q].dir, WorkOf(q)>> # <<proc[p].dir, WorkOf(p)>>
  BY <1>1, <1>2, Apart
<1> HIDE DEF b
<1> QED BY <1>1, <1>2, <1>3, <1>4, <1>6, <1>7, WorkKeeps

\* What lies under the final name from now on.
LEMMA RenamedIsWhole ==
    ASSUME IInv, NEW p \in Procs, Rename(p)
    PROVE  /\ Running(p) /\ Holding(p) /\ Op(p) = "rename"
           /\ disk[proc[p].dir][WorkOf(p)] \in Artifacts
           /\ disk[proc[p].dir][WorkOf(p)].manifest.stage = proc[p].stage
           /\ disk[proc[p].dir][WorkOf(p)].files = Expected[proc[p].stage]
           /\ disk[proc[p].dir][WorkOf(p)].torn = {}
           /\ ~disk[proc[p].dir][WorkOf(p)].log
<1>1. Running(p) /\ Op(p) = "rename"
  BY DEF Rename
<1>2. Holding(p) /\ Past(p) \cap FileNames = Expected[proc[p].stage]
  BY <1>1, Position DEF Reached, Holding
<1>3. disk[proc[p].dir][WorkOf(p)] =
        [NewArtifact(ManifestOf(p)) EXCEPT !.files = Past(p) \cap FileNames]
  BY <1>1, <1>2 DEF IInv, HolderOwnsDirectory
<1> QED BY <1>1, <1>2, <1>3, Workplace DEF NewArtifact

\* collect: the session directory gets its final name.
LEMMA RenameSession ==
    ASSUME IInv, NEW p \in Procs, Rename(p), proc[p].stage = "collect"
    PROVE  /\ disk' \in [Paths -> [Slots -> Artifacts \cup {None}]]
           /\ DirectoryOK' /\ PublishedComplete'
           /\ \A q \in Procs : q # p /\ Running(q) /\ Holding(q) =>
                disk'[proc[q].dir][WorkOf(q)] = disk[proc[q].dir][WorkOf(q)]
           /\ \A s \in Sessions, st \in Stages :
                InPlace(s, st) # None => InPlace(s, st)' = InPlace(s, st)
<1> DEFINE a == disk[proc[p].dir]["collection"]
<1>1. WorkOf(p) = "collection" /\ FinalOf(p) = "collection"
  BY DEF WorkOf, FinalOf, WorkSlot, FinalSlot
<1>2. /\ Running(p) /\ Holding(p) /\ a \in Artifacts /\ a.manifest.stage = "collect"
      /\ a.files = Expected["collect"] /\ a.torn = {} /\ ~a.log
  BY <1>1, RenamedIsWhole
<1>3. PICK s \in Sessions : proc[p].dir = <<s, "incomplete">>
  BY <1>2, Workplace
<1> DEFINE old == <<s, "incomplete">>
           new == <<s, "final">>
<1>4. old \in Paths /\ new \in Paths /\ old # new /\ FinalPath(p) = new
  BY <1>3 DEF Paths, FinalPath
<1>5. /\ disk[new]["collection"] = None
      /\ disk' = [disk EXCEPT ![new] = disk[old], ![old] = Vacant]
  BY <1>1, <1>3, <1>4 DEF Rename, Exists
<1>6. disk \in [Paths -> [Slots -> Artifacts \cup {None}]]
  BY DEF IInv, TypeOK
<1>7. Vacant \in [Slots -> Artifacts \cup {None}] /\ \A x \in Slots : Vacant[x] = None
  BY DEF Vacant
<1>8. /\ disk' \in [Paths -> [Slots -> Artifacts \cup {None}]]
      /\ disk'[new] = disk[old] /\ disk'[old] = Vacant
      /\ \A d \in Paths : d # new /\ d # old => disk'[d] = disk[d]
  BY <1>4, <1>5, <1>6, <1>7
<1>9. disk[new] = Vacant /\ \A x \in Slots \ {"collection"} : disk[old][x] = None
  BY <1>5 DEF IInv, DirectoryOK
<1>10. DirectoryOK'
  <2>1. ASSUME NEW t \in Sessions, NEW x \in Slots \ {"collection"}
        PROVE  disk'[<<t, "incomplete">>][x] = None
    <3>1. CASE t = s BY <1>7, <1>8, <3>1
    <3>2. CASE t # s
      <4>1. <<t, "incomplete">> \in Paths \ {old, new}
        BY <3>2 DEF Paths
      <4> QED BY <1>8, <4>1 DEF IInv, DirectoryOK
    <3> QED BY <3>1, <3>2
  <2>2. ASSUME NEW t \in Sessions, disk'[<<t, "final">>]["collection"] = None
        PROVE  disk'[<<t, "final">>] = Vacant
    <3>1. t # s
      BY <1>2, <1>3, <1>8, <2>2, NoneAssumption
    <3>2. <<t, "final">> \in Paths \ {old, new}
      BY <3>1 DEF Paths
    <3> QED BY <1>8, <2>2, <3>2 DEF IInv, DirectoryOK
  <2> QED BY <2>1, <2>2 DEF DirectoryOK
<1>11. \A t \in Sessions, st \in Stages : t # s => InPlace(t, st)' = InPlace(t, st)
  BY <1>8 DEF InPlace, Paths
<1>12. ASSUME NEW st \in Stages
       PROVE  /\ InPlace(s, st) = None
              /\ InPlace(s, st)' = IF st = "collect" THEN a ELSE None
  <2>1. FinalSlot[st] \in Slots /\ (st # "collect" => FinalSlot[st] # "collection")
        /\ FinalSlot["collect"] = "collection"
    BY DEF FinalSlot, Stages, Slots
  <2>2. InPlace(s, st) = None
    BY <1>7, <1>9, <2>1 DEF InPlace
  <2>3. InPlace(s, st)' = disk[old][FinalSlot[st]]
    BY <1>8 DEF InPlace
  <2> QED BY <1>3, <1>9, <2>1, <2>2, <2>3
<1>13. PublishedComplete'
  <2> SUFFICES ASSUME NEW t \in Sessions, NEW st \in Stages, InPlace(t, st)' # None
               PROVE  /\ InPlace(t, st)'.manifest.stage = st
                      /\ InPlace(t, st)'.files = Expected[st]
                      /\ InPlace(t, st)'.torn = {}
                      /\ ~InPlace(t, st)'.log
    BY DEF PublishedComplete
  <2>1. CASE t = s BY <1>2, <1>12, <2>1
  <2>2. CASE t # s BY <1>11, <2>2 DEF IInv, PublishedComplete
  <2> QED BY <2>1, <2>2
<1>14. ASSUME NEW q \in Procs, q # p, Running(q), Holding(q)
       PROVE  disk'[proc[q].dir][WorkOf(q)] = disk[proc[q].dir][WorkOf(q)]
  <2>1. proc[q].dir \in Paths
    BY <1>14, Workplace
  <2>2. proc[q].dir # old
    BY <1>1, <1>2, <1>3, <1>14, Apart, Workplace
  <2>3. proc[q].dir # new
    BY <1>5, <1>14, HolderAtWorkbench DEF Workbench
  <2> QED BY <1>8, <2>1, <2>2, <2>3
<1>15. \A t \in Sessions, st \in Stages :
         InPlace(t, st) # None => InPlace(t, st)' = InPlace(t, st)
  BY <1>11, <1>12
<1> QED BY <1>8, <1>10, <1>13, <1>14, <1>15

\* diagnose and report: a directory inside it gets its final name.
LEMMA RenameInside ==
    ASSUME IInv, NEW p \in Procs, Rename(p), proc[p].stage # "collect"
    PROVE  /\ disk' \in [Paths -> [Slots -> Artifacts \cup {None}]]
           /\ DirectoryOK' /\ PublishedComplete'
           /\ \A q \in Procs : q # p /\ Running(q) /\ Holding(q) =>
                disk'[proc[q].dir][WorkOf(q)] = disk[proc[q].dir][WorkOf(q)]
           /\ \A s \in Sessions, st \in Stages :
                InPlace(s, st) # None => InPlace(s, st)' = InPlace(s, st)
<1> DEFINE a == disk[proc[p].dir][WorkOf(p)]
           d == proc[p].dir
<1>1. /\ Running(p) /\ Holding(p) /\ a \in Artifacts /\ a.manifest.stage = proc[p].stage
      /\ a.files = Expected[proc[p].stage] /\ a.torn = {} /\ ~a.log
  BY RenamedIsWhole
<1>2. PICK g \in Stages : g = proc[p].stage /\ g # "collect"
  BY Position
<1>3. /\ WorkOf(p) \in {"diagnosis.incomplete", "report.incomplete"}
      /\ FinalOf(p) \in {"diagnosis", "report"} /\ FinalOf(p) \in Slots
      /\ FinalOf(p) = FinalSlot[proc[p].stage]
  BY <1>2 DEF WorkOf, FinalOf, WorkSlot, FinalSlot, Stages, Slots
<1>4. PICK s \in Sessions : d = <<s, "final">>
  BY <1>1, <1>2, Workplace
<1>5. d \in Paths /\ WorkOf(p) \in Slots /\ disk[d]["collection"] # None
  BY <1>1, <1>3, HolderAtWorkbench, Workplace DEF Workbench
<1>6. /\ disk[d][FinalOf(p)] = None
      /\ disk' = [disk EXCEPT ![d] = [disk[d] EXCEPT ![FinalOf(p)] = a, ![WorkOf(p)] = None]]
  <2>1. FinalPath(p) = d
    BY <1>2 DEF FinalPath
  <2>2. disk \in [Paths -> [Slots -> Artifacts \cup {None}]]
    BY DEF IInv, TypeOK
  <2> QED BY <1>2, <1>5, <2>1, <2>2 DEF Rename, Exists
<1>7. /\ disk \in [Paths -> [Slots -> Artifacts \cup {None}]]
      /\ disk' \in [Paths -> [Slots -> Artifacts \cup {None}]]
  BY <1>1, <1>3, <1>5, <1>6 DEF IInv, TypeOK
<1>8. /\ disk'[d][FinalOf(p)] = a
      /\ \A x \in Slots \ {FinalOf(p), WorkOf(p)} : disk'[d][x] = disk[d][x]
      /\ \A e \in Paths : e # d => disk'[e] = disk[e]
  BY <1>3, <1>5, <1>6, <1>7
<1> HIDE DEF a, d
<1>9. DirectoryOK'
  <2>1. ASSUME NEW t \in Sessions, NEW x \in Slots \ {"collection"}
        PROVE  disk'[<<t, "incomplete">>][x] = None
    <3>1. <<t, "incomplete">> \in Paths \ {d}
      BY <1>4 DEF Paths
    <3> QED BY <1>8, <3>1 DEF IInv, DirectoryOK
  <2>2. ASSUME NEW t \in Sessions, disk'[<<t, "final">>]["collection"] = None
        PROVE  disk'[<<t, "final">>] = Vacant
    <3>1. "collection" \in Slots \ {FinalOf(p), WorkOf(p)}
      BY <1>3 DEF Slots
    <3>2. t # s
      BY <1>4, <1>5, <1>8, <2>2, <3>1
    <3>3. <<t, "final">> \in Paths \ {d}
      BY <1>4, <3>2 DEF Paths
    <3> QED BY <1>8, <2>2, <3>3 DEF IInv, DirectoryOK
  <2> QED BY <2>1, <2>2 DEF DirectoryOK
<1>10. /\ InPlace(s, g) = None /\ InPlace(s, g)' = a
       /\ \A t \in Sessions, st \in Stages :
            <<t, st>> # <<s, g>> => InPlace(t, st)' = InPlace(t, st)
  <2>1. InPlace(s, g) = None /\ InPlace(s, g)' = a
    BY <1>2, <1>3, <1>4, <1>6, <1>8 DEF InPlace
  <2>2. ASSUME NEW t \in Sessions, NEW st \in Stages, t # s
        PROVE  InPlace(t, st)' = InPlace(t, st)
    <3>1. <<t, "final">> \in Paths \ {d}
      BY <1>4, <2>2 DEF Paths
    <3> QED BY <1>8, <3>1 DEF InPlace
  <2>3. ASSUME NEW st \in Stages, st # g
        PROVE  InPlace(s, st)' = InPlace(s, st)
    <3>1. FinalSlot[st] \in Slots \ {FinalOf(p), WorkOf(p)}
      BY <1>2, <1>3, <2>3 DEF FinalSlot, Slots, Stages
    <3> QED BY <1>4, <1>8, <3>1 DEF InPlace
  <2> QED BY <2>1, <2>2, <2>3
<1>11. PublishedComplete'
  <2> SUFFICES ASSUME NEW t \in Sessions, NEW st \in Stages, InPlace(t, st)' # None
               PROVE  /\ InPlace(t, st)'.manifest.stage = st
                      /\ InPlace(t, st)'.files = Expected[st]
                      /\ InPlace(t, st)'.torn = {}
                      /\ ~InPlace(t, st)'.log
    BY DEF PublishedComplete
  <2>1. CASE <<t, st>> = <<s, g>> BY <1>1, <1>2, <1>10, <2>1
  <2>2. CASE <<t, st>> # <<s, g>>
    BY <1>10, <2>2 DEF IInv, PublishedComplete
  <2> QED BY <2>1, <2>2
<1>12. ASSUME NEW q \in Procs, q # p, Running(q), Holding(q)
       PROVE  disk'[proc[q].dir][WorkOf(q)] = disk[proc[q].dir][WorkOf(q)]
  <2>1. proc[q].dir \in Paths /\ WorkOf(q) \in Slots
    BY <1>12, Workplace
  <2>2. CASE proc[q].dir # d
    BY <1>8, <2>1, <2>2
  <2>3. CASE proc[q].dir = d
    <3>1. WorkOf(q) # WorkOf(p)
      BY <1>1, <1>12, <2>3, Apart DEF d
    <3>2. WorkOf(q) # FinalOf(p)
      BY <1>3, <1>12, Workplace
    <3> QED BY <1>8, <2>1, <2>3, <3>1, <3>2
  <2> QED BY <2>2, <2>3
<1> QED BY <1>7, <1>9, <1>10, <1>11, <1>12

LEMMA RenameEffect ==
    ASSUME IInv, NEW p \in Procs, Rename(p)
    PROVE  /\ disk' \in [Paths -> [Slots -> Artifacts \cup {None}]]
           /\ DirectoryOK' /\ PublishedComplete'
           /\ \A q \in Procs : q # p /\ Running(q) /\ Holding(q) =>
                disk'[proc[q].dir][WorkOf(q)] = disk[proc[q].dir][WorkOf(q)]
           /\ \A s \in Sessions, st \in Stages :
                InPlace(s, st) # None => InPlace(s, st)' = InPlace(s, st)
  BY RenameSession, RenameInside

LEMMA RenameKeeps ==
    ASSUME IInv, NEW p \in Procs, Rename(p)
    PROVE  IInv' /\ FinalKept
<1>1. /\ Running(p) /\ Holding(p) /\ Op(p) = "rename" /\ Advance(p)
      /\ done' = done \cup {disk[proc[p].dir][WorkOf(p)].manifest} /\ edits' = edits
      /\ disk[proc[p].dir][WorkOf(p)] \in Artifacts
  BY RenamedIsWhole DEF Rename
<1>2. /\ proc'[p] = [proc[p] EXCEPT !.at = @ + 1]
      /\ \A q \in Procs : q # p => proc'[q] = proc[q]
      /\ proc' \in [Procs -> Processes]
  <2>1. proc \in [Procs -> Processes]
    BY DEF IInv, TypeOK
  <2>2. proc' = [proc EXCEPT ![p] = [proc[p] EXCEPT !.at = proc[p].at + 1]]
    BY <1>1 DEF Advance
  <2>3. [proc[p] EXCEPT !.at = proc[p].at + 1] \in Processes
    BY <2>1 DEF Processes
  <2> QED BY <2>1, <2>2, <2>3
<1>3. /\ Running(p)' /\ Past(p)' = Past(p) \cup {"rename"}
      /\ proc'[p].stage = proc[p].stage
      /\ proc'[p].at \in 1..Len(Program[proc'[p].stage])
  <2>1. Op(p) # "return" /\ proc[p] \in Processes
    BY <1>1, Position
  <2>2. proc'[p].at = proc[p].at + 1 /\ proc'[p].stage = proc[p].stage
        /\ proc'[p].state = proc[p].state
    BY <1>2, <2>1 DEF Processes
  <2> QED BY <1>1, <2>1, <2>2, Position DEF Running, Past
<1>4. ControlAt(p)'
  <2>1. ControlAt(p)
    BY ByProcess DEF IInv
  <2> QED BY <1>2, <1>3, <2>1 DEF ControlAt, Running, Processes
<1>5. HoldsAt(p)'
  BY <1>3 DEF HoldsAt, Holding
<1>6. ControlOK' /\ HolderOwnsDirectory'
  BY <1>2, <1>4, <1>5, RenameEffect, Bystander, ByProcess
<1>7. TypeOK'
  BY <1>1, <1>2, RenameEffect DEF IInv, TypeOK, Artifacts
<1> QED BY <1>6, <1>7, RenameEffect DEF IInv, FinalKept

LEMMA ReturnKeeps ==
    ASSUME IInv, NEW p \in Procs, Return(p)
    PROVE  IInv' /\ FinalKept
<1>1. Running(p) /\ Op(p) = "return" /\ UNCHANGED <<disk, done, edits>>
  BY DEF Return
<1>2. CASE Exit(p, "published")
  BY <1>1, <1>2, ExitKeeps DEF Endings
<1>3. CASE /\ proc[p].stage # "report"
           /\ proc' = [proc EXCEPT ![p].stage = NextStage[@], ![p].at = 1,
                                   ![p].dir = FinalPath(p)]
  <2> DEFINE r == [proc[p] EXCEPT !.stage = NextStage[@], !.at = 1, !.dir = FinalPath(p)]
  <2>1. proc[p] \in Processes /\ proc \in [Procs -> Processes]
    BY DEF IInv, TypeOK
  <2>2. proc[p].stage \in {"collect", "diagnose"}
    BY <1>3, Position DEF Stages
  <2>3. \E s \in Sessions : FinalPath(p) = <<s, "final">>
    <3>1. CASE proc[p].stage = "collect"
      <4>1. "name" \in Past(p)
        BY <1>1, <3>1, Position DEF Reached
      <4>2. \E s \in Sessions : proc[p].dir = <<s, "incomplete">>
        BY <1>1, <3>1, <4>1 DEF IInv, ControlOK
      <4> QED BY <3>1, <4>2 DEF FinalPath
    <3>2. CASE proc[p].stage # "collect"
      BY <1>1, <3>2, AtHome DEF FinalPath
    <3> QED BY <3>1, <3>2
  <2>4. NextStage[proc[p].stage] \in {"diagnose", "report"} /\ FinalPath(p) \in Paths
    BY <2>2, <2>3 DEF NextStage, Paths
  <2>5. /\ r \in Processes /\ r.at = 1 /\ r.dir = FinalPath(p)
        /\ r.stage \in {"diagnose", "report"} /\ r.state = proc[p].state
    <3>1. /\ proc[p] \in Processes /\ 1 \in Nat \ {0}
          /\ NextStage[proc[p].stage] \in Stages /\ FinalPath(p) \in Paths \cup {None}
      BY <2>1, <2>4 DEF Stages
    <3> QED BY <2>4, <3>1 DEF Processes
  <2>6. proc' = [proc EXCEPT ![p] = r] /\ proc'[p] = r
    BY <1>3, <2>1
  <2> HIDE DEF r
  <2>7. Past(p)' = {} /\ 1 \in 1..Len(Program[r.stage])
    BY <2>5, <2>6, ProgramShape DEF Past, Stages
  <2>8. ControlAt(p)' /\ HoldsAt(p)'
    BY <1>1, <2>3, <2>5, <2>6, <2>7 DEF ControlAt, HoldsAt, Holding, Running
  <2> QED BY <1>1, <2>5, <2>6, <2>8, PrivateChange
<1> QED BY <1>2, <1>3 DEF Return

\* A process that stops where it stands.
LEMMA StopKeeps ==
    ASSUME IInv, NEW p \in Procs, Running(p), NEW how \in Endings, Exit(p, how),
           MayTear(p), UNCHANGED <<done, edits>>
    PROVE  IInv' /\ FinalKept
<1>1. CASE UNCHANGED disk
  BY <1>1, ExitKeeps
<1>2. CASE /\ Op(p) \in FileNames
           /\ disk' = [disk EXCEPT ![proc[p].dir][WorkOf(p)].torn = @ \cup {Op(p)}]
  <2>1. Holding(p)
    BY <1>2, Position DEF Reached, Holding
  <2> QED BY <1>2, <2>1, ExitKeeps, TraceIsArtifact
<1> QED BY <1>1, <1>2 DEF MayTear

LEMMA FailKeeps ==
    ASSUME IInv, NEW p \in Procs, Fail(p)
    PROVE  IInv' /\ FinalKept
  BY StopKeeps DEF Fail, Endings

LEMMA CrashKeeps ==
    ASSUME IInv, NEW p \in Procs, Crash(p)
    PROVE  IInv' /\ FinalKept
  BY StopKeeps DEF Crash, Endings

LEMMA CtrlCKeeps ==
    ASSUME IInv, NEW p \in Procs, CtrlC(p)
    PROVE  IInv' /\ FinalKept
<1>1. Running(p) /\ UNCHANGED <<done, edits>>
  BY DEF CtrlC
<1>2. CASE Exit(p, "aborted") /\ MayTear(p)
  BY <1>1, <1>2, StopKeeps DEF Endings
<1>3. CASE /\ proc' = [proc EXCEPT ![p].intr = 1, ![p].fence = proc[p].stage]
           /\ UNCHANGED disk
  <2> DEFINE r == [proc[p] EXCEPT !.intr = 1, !.fence = proc[p].stage]
  <2>1. proc[p] \in Processes /\ proc \in [Procs -> Processes]
    BY DEF IInv, TypeOK
  <2>2. /\ r \in Processes /\ r.state = proc[p].state /\ r.at = proc[p].at
        /\ r.stage = proc[p].stage /\ r.dir = proc[p].dir
        /\ r.collection = proc[p].collection /\ r.diagnosis = proc[p].diagnosis
    <3>1. proc[p] \in Processes /\ proc[p].stage \in Stages \cup {"none"} /\ 1 \in 0..1
      BY <2>1 DEF Processes
    <3> QED BY <3>1 DEF Processes
  <2>3. proc' = [proc EXCEPT ![p] = r] /\ proc'[p] = r
    BY <1>3, <2>1
  <2> HIDE DEF r
  <2>4. ControlAt(p) /\ HoldsAt(p)
    BY ByProcess DEF IInv
  <2>5. /\ Past(p)' = Past(p) /\ WorkOf(p)' = WorkOf(p) /\ ManifestOf(p)' = ManifestOf(p)
        /\ Running(p)' = Running(p)
    BY <2>2, <2>3 DEF Past, WorkOf, ManifestOf, Running
  <2>6. ControlAt(p)'
    BY <2>2, <2>3, <2>4, <2>5 DEF ControlAt
  <2>7. HoldsAt(p)'
    BY <1>3, <2>2, <2>3, <2>4, <2>5 DEF HoldsAt, Holding, Exists
  <2> QED BY <1>1, <1>3, <2>2, <2>3, <2>6, <2>7, PrivateChange
<1> QED BY <1>2, <1>3 DEF CtrlC

\* No process moves, and nobody's workbench is touched.
LEMMA DiskChange ==
    ASSUME IInv, UNCHANGED proc, done' = done, edits' \in 0..MaxEdits,
           disk' \in [Paths -> [Slots -> Artifacts \cup {None}]],
           DirectoryOK', PublishedComplete',
           \A q \in Procs : Running(q) /\ Holding(q) =>
             disk'[proc[q].dir][WorkOf(q)] = disk[proc[q].dir][WorkOf(q)]
    PROVE  IInv'
<1>1. ControlOK' /\ HolderOwnsDirectory'
  BY Bystander, ByProcess
<1>2. TypeOK'
  BY DEF IInv, TypeOK
<1> QED BY <1>1, <1>2 DEF IInv

\* The user empties one workbench, which belongs to nobody who runs.
LEMMA OneCleaned ==
    ASSUME IInv, CleanUp
    PROVE  \E d \in Paths, x \in Slots :
             /\ Workbench(d, x)
             /\ \A p \in Procs : Running(p) => disk[d][x].manifest.by # p
             /\ disk' = [disk EXCEPT ![d][x] = None]
<1>1. PICK d \in Paths, st \in Stages :
        /\ st = "collect" => d[2] = "incomplete"
        /\ disk[d][WorkSlot[st]] # None
        /\ \A p \in Procs : Running(p) => disk[d][WorkSlot[st]].manifest.by # p
        /\ disk' = IF st = "collect" THEN [disk EXCEPT ![d] = Vacant]
                   ELSE [disk EXCEPT ![d][WorkSlot[st]] = None]
  BY DEF CleanUp, Exists
<1> DEFINE x == WorkSlot[st]
<1>2. disk \in [Paths -> [Slots -> Artifacts \cup {None}]]
  BY DEF IInv, TypeOK
<1>3. PICK s \in Sessions, k \in {"final", "incomplete"} : d = <<s, k>>
  BY DEF Paths
<1>4. x \in Slots /\ Workbench(d, x)
  <2>1. CASE st = "collect"
    BY <1>1, <1>3, <2>1 DEF WorkSlot, Workbench, Slots
  <2>2. CASE st # "collect"
    <3>1. x \in {"diagnosis.incomplete", "report.incomplete"}
      BY <2>2 DEF WorkSlot, Stages
    <3>2. d = <<s, "final">>
      BY <1>1, <1>3, <3>1 DEF IInv, DirectoryOK, Slots
    <3>3. disk[d]["collection"] # None
      BY <1>1, <3>1, <3>2 DEF IInv, DirectoryOK, Vacant, Slots
    <3> QED BY <3>1, <3>2, <3>3 DEF Workbench, Slots
  <2> QED BY <2>1, <2>2
<1>5. disk' = [disk EXCEPT ![d][x] = None]
  <2>1. CASE st = "collect"
    <3>1. x = "collection" /\ d = <<s, "incomplete">>
      BY <1>1, <1>3, <2>1 DEF WorkSlot
    <3>2. [disk[d] EXCEPT ![x] = None] = Vacant
      BY <1>2, <3>1 DEF IInv, DirectoryOK, Vacant
    <3> QED BY <1>1, <1>2, <2>1, <3>2
  <2>2. CASE st # "collect"
    BY <1>1, <2>2
  <2> QED BY <2>1, <2>2
<1> QED BY <1>1, <1>4, <1>5

LEMMA CleanUpKeeps ==
    ASSUME IInv, CleanUp
    PROVE  IInv' /\ FinalKept
<1>1. UNCHANGED <<proc, done, edits>> /\ edits \in 0..MaxEdits
  BY DEF CleanUp, IInv, TypeOK
<1>2. PICK d \in Paths, x \in Slots :
        /\ Workbench(d, x)
        /\ \A p \in Procs : Running(p) => disk[d][x].manifest.by # p
        /\ disk' = [disk EXCEPT ![d][x] = None]
  BY OneCleaned
<1>3. ASSUME NEW q \in Procs, Running(q), Holding(q)
      PROVE  disk'[proc[q].dir][WorkOf(q)] = disk[proc[q].dir][WorkOf(q)]
  <2>1. /\ proc[q].dir \in Paths /\ WorkOf(q) \in Slots
        /\ disk[proc[q].dir][WorkOf(q)].manifest.by = q
    BY <1>3, Workplace
  <2>2. <<proc[q].dir, WorkOf(q)>> # <<d, x>>
    BY <1>2, <1>3, <2>1
  <2> QED BY <1>2, <2>1, <2>2, WorkbenchChange
<1>4. FinalKept
  BY <1>2, WorkbenchChange DEF FinalKept
<1> QED BY <1>1, <1>2, <1>3, <1>4, WorkbenchChange, DiskChange

WholeOf(a, st) ==
    /\ a.manifest.stage = st
    /\ a.files = Expected[st]
    /\ a.torn = {}
    /\ ~a.log

\* The user changes what lies under one final name.
LEMMA ShelfChange ==
    ASSUME IInv, UNCHANGED <<proc, done>>, edits' \in 0..MaxEdits,
           NEW s \in Sessions, NEW st \in Stages, NEW a \in Artifacts \cup {None},
           disk' = [disk EXCEPT ![<<s, "final">>][FinalSlot[st]] = a],
           disk[<<s, "final">>]["collection"] # None,
           st = "collect" => a # None, a # None => WholeOf(a, st)
    PROVE  IInv'
<1> DEFINE d == <<s, "final">>
           x == FinalSlot[st]
<1>1. /\ d \in Paths /\ x \in Slots /\ (x = "collection" => st = "collect")
      /\ x \notin {"diagnosis.incomplete", "report.incomplete"}
  BY DEF Paths, Slots, FinalSlot, Stages
<1>2. disk \in [Paths -> [Slots -> Artifacts \cup {None}]]
  BY DEF IInv, TypeOK
<1>3. /\ disk' \in [Paths -> [Slots -> Artifacts \cup {None}]]
      /\ disk'[d][x] = a
      /\ \A e \in Paths, y \in Slots : <<e, y>> # <<d, x>> => disk'[e][y] = disk[e][y]
      /\ \A e \in Paths : e # d => disk'[e] = disk[e]
  BY <1>1, <1>2
<1>4. DirectoryOK'
  <2>1. ASSUME NEW t \in Sessions, NEW y \in Slots \ {"collection"}
        PROVE  disk'[<<t, "incomplete">>][y] = None
    <3>1. <<t, "incomplete">> \in Paths \ {d}
      BY DEF Paths
    <3> QED BY <1>3, <3>1 DEF IInv, DirectoryOK
  <2>2. ASSUME NEW t \in Sessions, disk'[<<t, "final">>]["collection"] = None
        PROVE  disk'[<<t, "final">>] = Vacant
    <3>1. "collection" \in Slots
      BY DEF Slots
    <3>2. t # s
      BY <1>1, <1>3, <2>2, <3>1
    <3>3. <<t, "final">> \in Paths \ {d}
      BY <3>2 DEF Paths
    <3> QED BY <1>3, <2>2, <3>3 DEF IInv, DirectoryOK
  <2> QED BY <2>1, <2>2 DEF DirectoryOK
<1>5. PublishedComplete'
  <2> SUFFICES ASSUME NEW t \in Sessions, NEW g \in Stages, InPlace(t, g)' # None
               PROVE  WholeOf(InPlace(t, g)', g)
    BY DEF PublishedComplete, WholeOf
  <2>1. CASE t = s /\ g = st
    <3>1. InPlace(t, g)' = a
      BY <1>3, <2>1 DEF InPlace
    <3> QED BY <2>1, <3>1
  <2>2. CASE t # s \/ g # st
    <3>1. <<t, "final">> \in Paths /\ FinalSlot[g] \in Slots
          /\ (g # st => FinalSlot[g] # x)
      BY DEF Paths, FinalSlot, Slots, Stages
    <3>2. InPlace(t, g)' = InPlace(t, g)
      BY <1>3, <2>2, <3>1 DEF InPlace
    <3> QED BY <3>2 DEF IInv, PublishedComplete, WholeOf
  <2> QED BY <2>1, <2>2
<1>6. ASSUME NEW q \in Procs, Running(q), Holding(q)
      PROVE  disk'[proc[q].dir][WorkOf(q)] = disk[proc[q].dir][WorkOf(q)]
  <2>1. proc[q].dir \in Paths /\ WorkOf(q) \in Slots
    BY <1>6, Workplace
  <2>2. <<proc[q].dir, WorkOf(q)>> # <<d, x>>
    BY <1>1, <1>6, Workplace
  <2> QED BY <1>3, <2>1, <2>2
<1> QED BY <1>3, <1>4, <1>5, <1>6, DiskChange

LEMMA EditKeeps ==
    ASSUME IInv, Edit
    PROVE  IInv'
<1>1. UNCHANGED <<proc, done>> /\ edits' \in 0..MaxEdits
  BY SessionAssumption DEF Edit, IInv, TypeOK
<1>2. PICK s \in Sessions, st \in Stages :
        \/ /\ disk[<<s, "final">>][FinalSlot[st]] # None
           /\ disk' = [disk EXCEPT ![<<s, "final">>][FinalSlot[st]].edited = TRUE]
        \/ /\ disk[<<s, "final">>][FinalSlot[st]] # None /\ st # "collect"
           /\ disk' = [disk EXCEPT ![<<s, "final">>][FinalSlot[st]] = None]
        \/ \E t \in Sessions :
           /\ disk[<<s, "final">>]["collection"] # None
           /\ disk[<<s, "final">>][FinalSlot[st]] = None
           /\ disk[<<t, "final">>][FinalSlot[st]] # None
           /\ disk' = [disk EXCEPT ![<<s, "final">>][FinalSlot[st]] =
                                  disk[<<t, "final">>][FinalSlot[st]]]
  BY DEF Edit, Exists
<1> DEFINE d == <<s, "final">>
           x == FinalSlot[st]
<1>3. /\ \A t \in Sessions : <<t, "final">> \in Paths
      /\ x \in Slots /\ x # "diagnosis.incomplete"
      /\ disk \in [Paths -> [Slots -> Artifacts \cup {None}]]
  BY DEF Paths, FinalSlot, Slots, Stages, IInv, TypeOK
<1>4. disk[d][x] # None => disk[d]["collection"] # None
  BY <1>3 DEF IInv, DirectoryOK, Vacant
<1>5. \A t \in Sessions : disk[<<t, "final">>][x] # None => WholeOf(disk[<<t, "final">>][x], st)
  BY DEF IInv, PublishedComplete, InPlace, WholeOf
<1>6. CASE /\ disk[d][x] # None
           /\ disk' = [disk EXCEPT ![d][x].edited = TRUE]
  <2> DEFINE a == disk[d][x]
             b == [a EXCEPT !.edited = TRUE]
  <2>1. a \in Artifacts /\ WholeOf(a, st)
    BY <1>3, <1>5, <1>6
  <2>2. disk' = [disk EXCEPT ![d][x] = b]
    BY <1>3, <1>6
  <2> HIDE DEF a
  <2>3. b \in Artifacts /\ WholeOf(b, st)
    BY <2>1 DEF Artifacts, WholeOf
  <2> HIDE DEF b
  <2>4. b # None
    BY <2>3, NoneAssumption
  <2> QED BY <1>1, <1>4, <1>6, <2>2, <2>3, <2>4, ShelfChange
<1>7. CASE /\ disk[d][x] # None /\ st # "collect"
           /\ disk' = [disk EXCEPT ![d][x] = None]
  BY <1>1, <1>4, <1>7, ShelfChange
<1>8. ASSUME NEW t \in Sessions, disk[d]["collection"] # None, disk[d][x] = None,
             disk[<<t, "final">>][x] # None,
             disk' = [disk EXCEPT ![d][x] = disk[<<t, "final">>][x]]
      PROVE  IInv'
  <2> DEFINE a == disk[<<t, "final">>][x]
  <2>1. a \in Artifacts \cup {None} /\ a # None /\ WholeOf(a, st)
    BY <1>3, <1>5, <1>8
  <2>2. disk' = [disk EXCEPT ![d][x] = a]
    BY <1>8
  <2> HIDE DEF a
  <2> QED BY <1>1, <1>8, <2>1, <2>2, ShelfChange
<1> QED BY <1>2, <1>6, <1>7, <1>8

-----------------------------------------------------------------------------
(* The theorems.  Without Leftovers nobody gives diagnose or report the     *)
(* .incomplete directory of a stopped collection to work in.                *)

LEMMA NextKeeps ==
    ASSUME Leftovers = FALSE, IInv, [Next]_vars
    PROVE  IInv' /\ (FinalKept \/ edits' # edits)
<1>1. CASE UNCHANGED vars
  <2>1. DirectoryOK' /\ PublishedComplete'
    BY <1>1 DEF vars, IInv, DirectoryOK, PublishedComplete, InPlace
  <2> QED BY <1>1, <2>1, DiskChange DEF vars, IInv, TypeOK, FinalKept, InPlace
<1>2. ASSUME NEW p \in Procs, Start(p) \/ Step(p) \/ CtrlC(p) \/ Crash(p)
      PROVE  IInv' /\ FinalKept
  BY <1>2, StartKeeps, CheckKeeps, NameKeeps, ProbeKeeps, ComputeKeeps,
     CancelCollectorsKeeps, LoadCollectionKeeps, LoadDiagnosisKeeps, MkdirKeeps,
     WriteKeeps, RenameKeeps, ReturnKeeps, FailKeeps, CtrlCKeeps, CrashKeeps DEF Step
<1>3. CASE CleanUp BY <1>3, CleanUpKeeps
<1>4. CASE Edit
  <2>1. edits' # edits
    BY <1>4 DEF Edit, IInv, TypeOK
  <2> QED BY <1>4, <2>1, EditKeeps
<1> QED BY <1>1, <1>2, <1>3, <1>4 DEF Next

\* The inductive invariant holds of every reachable state.
THEOREM Invariance ==
    ASSUME Leftovers = FALSE
    PROVE  Spec => []IInv
<1>1. Init => IInv
  BY InitIInv
<1>2. IInv /\ [Next]_vars => IInv'
  BY NextKeeps
<1> QED BY <1>1, <1>2, PTL DEF Spec

\* Processes and directories keep their shape (the records of interrupt.rs,
\* bundle.rs, diagnose.rs and report.rs as modelled).
THEOREM TypeCorrect ==
    ASSUME Leftovers = FALSE
    PROVE  Spec => []TypeOK
<1>1. IInv => TypeOK
  BY DEF IInv
<1> QED BY <1>1, Invariance, PTL

\* Between create_dir and rename a process is alone in its directory, however
\* many processes probe and create in the same session.
THEOREM Exclusive ==
    ASSUME Leftovers = FALSE
    PROVE  Spec => []HolderOwnsDirectory
<1>1. IInv => HolderOwnsDirectory
  BY DEF IInv
<1> QED BY <1>1, Invariance, PTL

\* What a final name shows is whole, wherever processes were stopped.
THEOREM Complete ==
    ASSUME Leftovers = FALSE
    PROVE  Spec => []PublishedComplete
<1>1. IInv => PublishedComplete
  BY DEF IInv
<1> QED BY <1>1, Invariance, PTL

\* No step of the program changes or removes what has a final name.
THEOREM Immutable ==
    ASSUME Leftovers = FALSE
    PROVE  Spec => PublishedImmutable
<1>1. IInv /\ [Next]_vars =>
        [\A s \in Sessions, st \in Stages :
           InPlace(s, st) # None /\ edits' = edits => InPlace(s, st)' = InPlace(s, st)]_vars
  BY NextKeeps DEF FinalKept
<1> QED BY <1>1, Invariance, PTL DEF Spec, PublishedImmutable
=============================================================================
