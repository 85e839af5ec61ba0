------------------------------- MODULE Session -------------------------------
(***************************************************************************)
(* The pcdiag processes and the session directories they share.            *)
(*                                                                         *)
(* A process runs one command: collect, diagnose, report, or the pipeline  *)
(* of the three.  Each command is straight-line code between interrupt     *)
(* checks, so its control is a list of steps (Program below), and one      *)
(* action executes each kind of step on the shared file system.  Processes *)
(* run concurrently; Ctrl+C, a failing system call, a crash and the user's *)
(* own file operations may come between any two steps.                     *)
(***************************************************************************)
EXTENDS Naturals, Sequences, FiniteSets

CONSTANTS
    Procs,      \* runs of pcdiag
    Sessions,   \* display names `pcdiag-<time>-<short id>` of session directories
    Seeded,     \* the sessions an earlier run has already collected
    Commands,   \* the commands the runs are given
    Leftovers,  \* do users pass `<session>.incomplete` to diagnose and report?
    MaxTries,   \* attempts at a session name (16 in the code)
    MaxEdits,   \* bound on the user's file operations
    None        \* no artifact, no directory

ASSUME SessionAssumption ==
    /\ Seeded \subseteq Sessions
    /\ Commands \subseteq {"collect", "diagnose", "report", "pipeline"}
    /\ Leftovers \in BOOLEAN
    /\ MaxTries \in Nat \ {0}
    /\ MaxEdits \in Nat
    /\ Procs \cap Sessions = {}

VARIABLES
    proc,       \* the processes: program counter, interrupt count, loaded inputs
    disk,       \* the session directories and the artifact directories in them
    done,       \* history: the manifests of all artifacts ever published
    edits       \* the user's file operations so far

vars == <<proc, disk, done, edits>>

-----------------------------------------------------------------------------
(* The file system.                                                        *)

Stages == {"collect", "diagnose", "report"}

\* The final name of a session directory, and the name it has while collecting.
Paths == Sessions \X {"final", "incomplete"}

\* The artifact directories inside a session directory.
Slots == {"collection", "diagnosis", "diagnosis.incomplete",
          "report", "report.incomplete"}

WorkSlot == [collect |-> "collection", diagnose |-> "diagnosis.incomplete",
             report |-> "report.incomplete"]
FinalSlot == [collect |-> "collection", diagnose |-> "diagnosis",
              report |-> "report"]

\* The files of a finished artifact.
Expected == [collect  |-> {"collection.json", "status.json", "manifest.json"},
             diagnose |-> {"diagnosis.json", "ai-diagnosis-guide.md", "manifest.json"},
             report   |-> {"report.html", "manifest.json"}]

FileNames == UNION {Expected[st] : st \in Stages}

\* An artifact id is a fresh UUIDv4, so it stands for the run that drew it and
\* its stage; the session id stands for the run that collected.
Authors == Procs \cup Sessions
Ids == Authors \X Stages
Manifests == [stage : Stages, by : Authors, session : Authors, inputs : SUBSET Ids]
IdOf(m) == <<m.by, m.stage>>

\* A directory of artifact files: those written out, those cut off while being
\* written, whether interruption.log lies beside them, and whether the user
\* changed a file since.  The manifest is what manifest.json says once written.
Artifacts == [manifest : Manifests, files : SUBSET FileNames,
              torn : SUBSET FileNames, log : BOOLEAN, edited : BOOLEAN]

ASSUME NoneAssumption ==
    None \notin Artifacts /\ None \notin Manifests /\ None \notin Paths

NewArtifact(m) ==
    [manifest |-> m, files |-> {}, torn |-> {}, log |-> FALSE, edited |-> FALSE]

Vacant == [x \in Slots |-> None]

\* A session directory exists as long as it has its collection: collect
\* creates both, and nothing removes the collection alone.
Exists(d, x) == disk[d][x] # None

\* load_verified_files: every declared file is there with the declared size and
\* hash, and no other file is.  The log of an interrupted collect lies in the
\* session directory, beside collection/ and not in it.
Loadable(a, st) ==
    /\ a.files = Expected[st]
    /\ a.torn = {}
    /\ ~a.edited
    /\ a.log => st = "collect"

-----------------------------------------------------------------------------
(* The control of the commands.                                            *)

\* A file name is the step that writes it.  Between two adjacent interrupt
\* checks of the code that no shared effect separates, one check stands for
\* both (the pipeline's own check before a stage and the stage's first one; the
\* checks around the creation of collection/ inside the private directory).
Program ==
    [collect |->
       <<"check", "name", "probeFinal", "probeIncomplete", "mkdir",
         "check", "compute", "check", "validate",
         "check", "collection.json", "check", "status.json",
         "check", "manifest.json", "check", "rename", "return">>,
     diagnose |->
       <<"check", "loadCollection", "check", "compute", "check", "validate",
         "check", "probeFinal", "probeIncomplete", "mkdir",
         "check", "diagnosis.json", "check", "ai-diagnosis-guide.md",
         "check", "manifest.json", "check", "rename", "return">>,
     report |->
       <<"check", "loadCollection", "check", "loadDiagnosis",
         "check", "compute", "check", "probeFinal", "probeIncomplete", "mkdir",
         "check", "report.html",
         "check", "manifest.json", "check", "rename", "return">>]

Op(p) == Program[proc[p].stage][proc[p].at]

\* The steps before the n-th one of a stage, and those p has taken.
Before(st, n) == {Program[st][i] : i \in 1..(n - 1)}
Past(p) == Before(proc[p].stage, proc[p].at)

Running(p) == proc[p].state = "running"

\* p has created its .incomplete directory and not yet renamed it.
Holding(p) == "mkdir" \in Past(p) /\ "rename" \notin Past(p)

Rank == [none |-> 0, collect |-> 1, diagnose |-> 2, report |-> 3]

FirstStage(c) == IF c = "pipeline" THEN "collect" ELSE c
NextStage == [collect |-> "diagnose", diagnose |-> "report"]

\* How a process ends: "published" (path on stdout, exit 0), "failed" (exit 1),
\* "interrupted" (exit 130; "unlogged" when interruption.log could not be
\* written, which the message says), "aborted" by a second Ctrl+C (exit 130),
\* or "crashed" (killed from outside).
Endings == {"published", "failed", "interrupted", "unlogged", "aborted", "crashed"}

WorkOf(p)  == WorkSlot[proc[p].stage]
FinalOf(p) == FinalSlot[proc[p].stage]

\* collect renames the session directory itself; the others a directory in it.
FinalPath(p) ==
    IF proc[p].stage = "collect" THEN <<proc[p].dir[1], "final">> ELSE proc[p].dir

Advance(p) == proc' = [proc EXCEPT ![p].at = @ + 1]

\* A process that is not running: one that has ended keeps its command, its exit
\* state and its interrupts, and nothing else.
Resting(state, cmd, intr, fence) ==
    [state |-> state, cmd |-> cmd, stage |-> "collect", at |-> 1, dir |-> None,
     tries |-> 0, intr |-> intr, fence |-> fence,
     collection |-> None, diagnosis |-> None]

Exit(p, how) ==
    proc' = [proc EXCEPT ![p] = Resting(how, @.cmd, @.intr, @.fence)]

-----------------------------------------------------------------------------
(* Starting, and the steps that only read.                                 *)

Start(p) ==
    /\ proc[p].state = "idle"
    /\ \E c \in Commands, d \in Paths :
         /\ d[2] = "incomplete" => Leftovers
         /\ proc' = [proc EXCEPT ![p].state = "running", ![p].cmd = c,
                                 ![p].stage = FirstStage(c),
                                 ![p].dir = IF FirstStage(c) = "collect" THEN None ELSE d]
    /\ UNCHANGED <<disk, done, edits>>

\* Check, were the pipeline not to look at the interrupt between its stages.
CheckInside(p) ==
    /\ Running(p) /\ Op(p) = "check"
    /\ IF proc[p].intr = 0 \/ ~Holding(p)
       THEN Advance(p) /\ UNCHANGED disk
       ELSE /\ Exit(p, "interrupted")
            /\ disk' = [disk EXCEPT ![proc[p].dir][WorkOf(p)].log = TRUE]
    /\ UNCHANGED <<done, edits>>

\* Check, were the plain interrupt::check used everywhere.
CheckSilently(p) ==
    /\ Running(p) /\ Op(p) = "check"
    /\ IF proc[p].intr = 0 THEN Advance(p) ELSE Exit(p, "interrupted")
    /\ UNCHANGED <<disk, done, edits>>

\* interrupt::check before the directory is created, check_with_log after.
Check(p) ==
    /\ Running(p) /\ Op(p) = "check"
    /\ IF proc[p].intr = 0
       THEN Advance(p) /\ UNCHANGED disk
       ELSE \/ /\ ~Holding(p)
               /\ Exit(p, "interrupted") /\ UNCHANGED disk
            \/ /\ Holding(p) /\ Exists(proc[p].dir, WorkOf(p))
               /\ Exit(p, "interrupted")
               /\ disk' = [disk EXCEPT ![proc[p].dir][WorkOf(p)].log = TRUE]
            \/ /\ Holding(p)
               /\ Exit(p, "unlogged") /\ UNCHANGED disk
    /\ UNCHANGED <<done, edits>>

\* Name, were the attempts not counted against a limit.
NameForEver(p) ==
    /\ Running(p) /\ Op(p) = "name"
    /\ \E s \in Sessions :
         proc' = [proc EXCEPT ![p].dir = <<s, "incomplete">>, ![p].at = @ + 1,
                              ![p].tries = IF @ > MaxTries THEN @ ELSE @ + 1]
    /\ UNCHANGED <<disk, done, edits>>

\* collect draws a session name; after MaxTries taken names it gives up.
Name(p) ==
    /\ Running(p) /\ Op(p) = "name"
    /\ IF proc[p].tries = MaxTries
       THEN Exit(p, "failed")
       ELSE \E s \in Sessions :
              proc' = [proc EXCEPT ![p].dir = <<s, "incomplete">>, ![p].at = @ + 1,
                                   ![p].tries = @ + 1]
    /\ UNCHANGED <<disk, done, edits>>

\* exists() on the final, then on the .incomplete name: collect draws another
\* name, diagnose and report give up.
Probe(p) ==
    /\ Running(p)
    /\ LET taken == \/ Op(p) = "probeFinal" /\ Exists(FinalPath(p), FinalOf(p))
                    \/ Op(p) = "probeIncomplete" /\ Exists(proc[p].dir, WorkOf(p))
       IN  /\ Op(p) \in {"probeFinal", "probeIncomplete"}
           /\ IF ~taken THEN Advance(p)
              ELSE IF proc[p].stage = "collect"
                   THEN proc' = [proc EXCEPT ![p].at = 2]
                   ELSE Exit(p, "failed")
    /\ UNCHANGED <<disk, done, edits>>

\* Evaluating, validating, rendering; and the collectors' run, which also ends
\* early when it sees the interrupt.
Compute(p) ==
    /\ Running(p) /\ Op(p) \in {"compute", "validate"}
    /\ Advance(p)
    /\ UNCHANGED <<disk, done, edits>>

CancelCollectors(p) ==
    /\ Running(p) /\ Op(p) = "compute" /\ proc[p].stage = "collect"
    /\ proc[p].intr > 0
    /\ \/ /\ Exists(proc[p].dir, "collection")
          /\ Exit(p, "interrupted")
          /\ disk' = [disk EXCEPT ![proc[p].dir]["collection"].log = TRUE]
       \/ Exit(p, "unlogged") /\ UNCHANGED disk
    /\ UNCHANGED <<done, edits>>

LoadCollection(p) ==
    /\ Running(p) /\ Op(p) = "loadCollection"
    /\ Exists(proc[p].dir, "collection")
    /\ LET a == disk[proc[p].dir]["collection"]
       IN  /\ Loadable(a, "collect")
           /\ proc' = [proc EXCEPT ![p].at = @ + 1, ![p].collection = a.manifest,
                                   ![p].diagnosis = None]
    /\ UNCHANGED <<disk, done, edits>>

\* LoadDiagnosis, were the session and the input ids not compared.
LoadAnyDiagnosis(p) ==
    /\ Running(p) /\ Op(p) = "loadDiagnosis"
    /\ Exists(proc[p].dir, "diagnosis")
    /\ LET a == disk[proc[p].dir]["diagnosis"]
       IN  /\ Loadable(a, "diagnose")
           /\ proc' = [proc EXCEPT ![p].at = @ + 1, ![p].diagnosis = a.manifest]
    /\ UNCHANGED <<disk, done, edits>>

\* load_diagnosis_artifact: of the same session and made from this collection.
LoadDiagnosis(p) ==
    /\ Running(p) /\ Op(p) = "loadDiagnosis"
    /\ Exists(proc[p].dir, "diagnosis")
    /\ LET a == disk[proc[p].dir]["diagnosis"]
           c == proc[p].collection
       IN  /\ Loadable(a, "diagnose")
           /\ a.manifest.session = c.session
           /\ a.manifest.inputs = {IdOf(c)}
           /\ proc' = [proc EXCEPT ![p].at = @ + 1, ![p].diagnosis = a.manifest]
    /\ UNCHANGED <<disk, done, edits>>

-----------------------------------------------------------------------------
(* The steps that write.                                                   *)

\* The manifest a process will write for its current stage.
ManifestOf(p) ==
    LET st == proc[p].stage
    IN  [stage |-> st, by |-> p,
         session |-> IF st = "collect" THEN p ELSE proc[p].collection.session,
         inputs |-> IF st = "collect" THEN {}
                    ELSE IF st = "diagnose" THEN {IdOf(proc[p].collection)}
                    ELSE {IdOf(proc[p].collection), IdOf(proc[p].diagnosis)}]

\* Mkdir, were it create_dir_all, which is content with a directory that is there.
MkdirAll(p) ==
    /\ Running(p) /\ Op(p) = "mkdir"
    /\ proc[p].stage # "collect" => Exists(proc[p].dir, "collection")
    /\ disk' = IF Exists(proc[p].dir, WorkOf(p)) THEN disk
               ELSE [disk EXCEPT ![proc[p].dir][WorkOf(p)] = NewArtifact(ManifestOf(p))]
    /\ Advance(p)
    /\ UNCHANGED <<done, edits>>

\* fs::create_dir fails when the name is taken or the parent has gone.
Mkdir(p) ==
    /\ Running(p) /\ Op(p) = "mkdir"
    /\ ~Exists(proc[p].dir, WorkOf(p))
    /\ proc[p].stage # "collect" => Exists(proc[p].dir, "collection")
    /\ disk' = [disk EXCEPT ![proc[p].dir][WorkOf(p)] = NewArtifact(ManifestOf(p))]
    /\ Advance(p)
    /\ UNCHANGED <<done, edits>>

\* write_new: create_new, write_all, sync_all.
Write(p) ==
    /\ Running(p) /\ Op(p) \in FileNames
    /\ Exists(proc[p].dir, WorkOf(p))
    /\ LET a == disk[proc[p].dir][WorkOf(p)]
       IN  /\ Op(p) \notin a.files \cup a.torn
           /\ disk' = [disk EXCEPT ![proc[p].dir][WorkOf(p)].files = @ \cup {Op(p)}]
    /\ Advance(p)
    /\ UNCHANGED <<done, edits>>

\* Rename, were it to replace what is there.
RenameOver(p) ==
    /\ Running(p) /\ Op(p) = "rename"
    /\ Exists(proc[p].dir, WorkOf(p))
    /\ disk' = IF proc[p].stage = "collect"
               THEN [disk EXCEPT ![FinalPath(p)] = disk[proc[p].dir],
                                 ![proc[p].dir] = Vacant]
               ELSE [disk EXCEPT ![proc[p].dir] =
                        [@ EXCEPT ![FinalOf(p)] = disk[proc[p].dir][WorkOf(p)],
                                  ![WorkOf(p)] = None]]
    /\ done' = done \cup {disk[proc[p].dir][WorkOf(p)].manifest}
    /\ Advance(p)
    /\ UNCHANGED edits

\* fs::rename fails on a non-empty target directory.
Rename(p) ==
    /\ Running(p) /\ Op(p) = "rename"
    /\ Exists(proc[p].dir, WorkOf(p))
    /\ ~Exists(FinalPath(p), FinalOf(p))
    /\ disk' = IF proc[p].stage = "collect"
               THEN [disk EXCEPT ![FinalPath(p)] = disk[proc[p].dir],
                                 ![proc[p].dir] = Vacant]
               ELSE [disk EXCEPT ![proc[p].dir] =
                        [@ EXCEPT ![FinalOf(p)] = disk[proc[p].dir][WorkOf(p)],
                                  ![WorkOf(p)] = None]]
    /\ done' = done \cup {disk[proc[p].dir][WorkOf(p)].manifest}
    /\ Advance(p)
    /\ UNCHANGED edits

\* Return, were the pipeline to exit after its first stage.
ReturnEarly(p) ==
    /\ Running(p) /\ Op(p) = "return"
    /\ Exit(p, "published")
    /\ UNCHANGED <<disk, done, edits>>

\* Return, were the pipeline to look for a session instead of keeping its own.
ReturnElsewhere(p) ==
    /\ Running(p) /\ Op(p) = "return"
    /\ IF proc[p].cmd = "pipeline" /\ proc[p].stage # "report"
       THEN \E s \in Sessions :
              proc' = [proc EXCEPT ![p].stage = NextStage[@], ![p].at = 1,
                                   ![p].dir = <<s, "final">>]
       ELSE Exit(p, "published")
    /\ UNCHANGED <<disk, done, edits>>

\* The next stage of the pipeline, or the path on stdout and exit code 0.
Return(p) ==
    /\ Running(p) /\ Op(p) = "return"
    /\ IF proc[p].cmd = "pipeline" /\ proc[p].stage # "report"
       THEN proc' = [proc EXCEPT ![p].stage = NextStage[@], ![p].at = 1,
                                 ![p].dir = FinalPath(p)]
       ELSE Exit(p, "published")
    /\ UNCHANGED <<disk, done, edits>>

-----------------------------------------------------------------------------
(* Failures, interrupts and the user.                                      *)

\* A write that stops half-way may leave its file cut off.
MayTear(p) ==
    \/ UNCHANGED disk
    \/ /\ Op(p) \in FileNames
       /\ Exists(proc[p].dir, WorkOf(p))
       /\ Op(p) \notin disk[proc[p].dir][WorkOf(p)].files
       /\ disk' = [disk EXCEPT ![proc[p].dir][WorkOf(p)].torn = @ \cup {Op(p)}]

\* Every `?`: a clock, a UUID, a load, a validation, a write or a rename that
\* fails ends the command with exit code 1.
Fail(p) ==
    /\ Running(p) /\ Op(p) \notin {"check", "probeFinal", "probeIncomplete", "return"}
    /\ Exit(p, "failed")
    /\ MayTear(p)
    /\ UNCHANGED <<done, edits>>

\* console_handler: the first Ctrl+C is only counted, the second is ExitProcess.
CtrlC(p) ==
    /\ Running(p)
    /\ IF proc[p].intr = 0
       THEN /\ proc' = [proc EXCEPT ![p].intr = 1, ![p].fence = proc[p].stage]
            /\ UNCHANGED disk
       ELSE Exit(p, "aborted") /\ MayTear(p)
    /\ UNCHANGED <<done, edits>>

Crash(p) ==
    /\ Running(p)
    /\ Exit(p, "crashed")
    /\ MayTear(p)
    /\ UNCHANGED <<done, edits>>

\* The user removes an .incomplete directory whose process has ended.
CleanUp ==
    /\ \E d \in Paths, st \in Stages :
         /\ st = "collect" => d[2] = "incomplete"
         /\ Exists(d, WorkSlot[st])
         /\ \A p \in Procs : Running(p) => disk[d][WorkSlot[st]].manifest.by # p
         /\ disk' = IF st = "collect" THEN [disk EXCEPT ![d] = Vacant]
                    ELSE [disk EXCEPT ![d][WorkSlot[st]] = None]
    /\ UNCHANGED <<proc, done, edits>>

\* The user damages a finished artifact, removes a diagnosis or a report to
\* make it anew, or copies one from another session.
Edit ==
    /\ edits < MaxEdits
    /\ edits' = edits + 1
    /\ \E s \in Sessions, st \in Stages :
         LET d == <<s, "final">>
             x == FinalSlot[st]
         IN  \/ /\ Exists(d, x)
                /\ disk' = [disk EXCEPT ![d][x].edited = TRUE]
             \/ /\ Exists(d, x) /\ st # "collect"
                /\ disk' = [disk EXCEPT ![d][x] = None]
             \/ \E t \in Sessions :
                /\ Exists(d, "collection") /\ ~Exists(d, x)
                /\ Exists(<<t, "final">>, x)
                /\ disk' = [disk EXCEPT ![d][x] = disk[<<t, "final">>][x]]
    /\ UNCHANGED <<proc, done>>

-----------------------------------------------------------------------------

SeedManifest(s) == [stage |-> "collect", by |-> s, session |-> s, inputs |-> {}]

Init ==
    /\ proc = [p \in Procs |-> Resting("idle", "none", 0, "none")]
    /\ disk = [d \in Paths |->
                 IF d[1] \in Seeded /\ d[2] = "final"
                 THEN [Vacant EXCEPT !["collection"] =
                         [NewArtifact(SeedManifest(d[1])) EXCEPT
                            !.files = Expected["collect"]]]
                 ELSE Vacant]
    /\ done = {SeedManifest(s) : s \in Seeded}
    /\ edits = 0

\* The steps of p's own code.
Step(p) ==
    \/ Check(p) \/ Name(p) \/ Probe(p) \/ Compute(p) \/ CancelCollectors(p)
    \/ LoadCollection(p) \/ LoadDiagnosis(p)
    \/ Mkdir(p) \/ Write(p) \/ Rename(p) \/ Return(p) \/ Fail(p)

Next ==
    \/ \E p \in Procs : Start(p) \/ Step(p) \/ CtrlC(p) \/ Crash(p)
    \/ CleanUp
    \/ Edit

Spec == Init /\ [][Next]_vars

\* Every call of the program returns: file operations do, and run_worker does.
FairSpec == Spec /\ \A p \in Procs : WF_vars(Step(p))

-----------------------------------------------------------------------------
(* Properties.                                                             *)

Processes ==
    [state : {"idle", "running"} \cup Endings, cmd : Commands \cup {"none"},
     stage : Stages, at : Nat \ {0}, dir : Paths \cup {None}, tries : 0..MaxTries,
     intr : 0..1, fence : Stages \cup {"none"},
     collection : Manifests \cup {None}, diagnosis : Manifests \cup {None}]

\* What a process looks like, and what lies on the disk.
TypeOK ==
    /\ proc \in [Procs -> Processes]
    /\ disk \in [Paths -> [Slots -> Artifacts \cup {None}]]
    /\ done \subseteq Manifests
    /\ edits \in 0..MaxEdits

InPlace(s, st) == disk[<<s, "final">>][FinalSlot[st]]

\* Whatever lies under a final name is whole: all files of its stage, none of
\* them cut off, no interruption log, whichever processes met in the directory
\* and wherever they were stopped (write_bundle, write_diagnosis, write_report
\* rename only after the last sync_all).
PublishedComplete ==
    \A s \in Sessions, st \in Stages : InPlace(s, st) # None =>
        /\ InPlace(s, st).manifest.stage = st
        /\ InPlace(s, st).files = Expected[st]
        /\ InPlace(s, st).torn = {}
        /\ ~InPlace(s, st).log

\* From create_dir to rename a process is alone in its .incomplete directory,
\* which holds exactly what it has written so far (exists() and create_dir are
\* separate calls; only create_dir decides).
HolderOwnsDirectory ==
    \A p \in Procs : Running(p) /\ Holding(p) =>
        /\ Exists(proc[p].dir, WorkOf(p))
        /\ disk[proc[p].dir][WorkOf(p)] =
             [NewArtifact(ManifestOf(p)) EXCEPT !.files = Past(p) \cap FileNames]

\* A published report was rendered from a diagnosis made from the very
\* collection it shows, whatever the user copied in or removed meanwhile
\* (load_diagnosis_artifact's comparisons hold what generate_report writes).
ReportLineage ==
    \A r \in done : r.stage = "report" =>
        \E d \in done : /\ d.stage = "diagnose"
                        /\ d.session = r.session
                        /\ r.inputs = d.inputs \cup {IdOf(d)}

\* The pipeline reports on the session it collected (run_pipeline hands the
\* path returned by collect to the later stages).
PipelineReportsItsCollection ==
    \A r \in done, p \in Procs :
        /\ r.by = p
        /\ proc[p].cmd = "pipeline"
        => r.session = p /\ (r.stage = "report" => <<p, "collect">> \in r.inputs)

Goal(p) == IF proc[p].cmd = "pipeline" THEN "report" ELSE proc[p].cmd
Delivered(p) == \E m \in done : IdOf(m) = <<p, Goal(p)>>

\* The exit code tells the truth (main): 0 and a path on stdout exactly for an
\* artifact this process put in place, 1 and 130 after a first Ctrl+C for none.
ExitTellsTheTruth ==
    \A p \in Procs :
        /\ proc[p].state = "published" => Delivered(p)
        /\ proc[p].state \in {"failed", "interrupted", "unlogged"} => ~Delivered(p)
        /\ proc[p].state \in {"interrupted", "unlogged"} => proc[p].intr = 1

\* A process asked to stop starts no later stage: everything it has made or
\* will make is of the stage the first Ctrl+C fell in, or an earlier one.
NoLaterStage ==
    \A p \in Procs : proc[p].fence # "none" =>
        /\ \A m \in done : m.by = p => Rank[m.stage] <= Rank[proc[p].fence]
        /\ \A d \in Paths, x \in Slots :
             Exists(d, x) /\ disk[d][x].manifest.by = p
               => Rank[disk[d][x].manifest.stage] <= Rank[proc[p].fence]

\* A run ended by a first Ctrl+C leaves interruption.log in the .incomplete
\* directory it leaves behind (every `?` after create_dir uses check_with_log).
InterruptLeavesLog ==
    \A p \in Procs : proc[p].state = "interrupted" =>
        \A d \in Paths, st \in Stages :
            /\ Exists(d, WorkSlot[st])
            /\ st = "collect" => d[2] = "incomplete"
            /\ disk[d][WorkSlot[st]].manifest.by = p
            => disk[d][WorkSlot[st]].log

\* No step of the program changes or removes what lies under a final name; only
\* the user does (rename refuses a target that is there).
PublishedImmutable ==
    [][\A s \in Sessions, st \in Stages :
         InPlace(s, st) # None /\ edits' = edits => InPlace(s, st)' = InPlace(s, st)]_vars

\* Every command ends, whatever names are taken (the 16 attempts at a session
\* name), whoever interrupts it and whatever fails.
Terminates == \A p \in Procs : Running(p) ~> ~Running(p)

\* What docs say of a failed stage: its .incomplete directory holds a log.
FailureLeavesLog ==
    \A p \in Procs : proc[p].state = "failed" =>
        \A d \in Paths : Exists(d, "diagnosis.incomplete")
                         /\ disk[d]["diagnosis.incomplete"].manifest.by = p
                         => disk[d]["diagnosis.incomplete"].log

\* What docs say of an .incomplete session: it is not taken for a finished one.
LeftoverIsNoInput ==
    \A m \in done : m.stage = "diagnose" => \A i \in m.inputs : \E c \in done : IdOf(c) = i

\* All files of the stage and nothing else, leaving aside what the user changed.
Whole(a, st) == Loadable([a EXCEPT !.edited = FALSE], st)

\* The artifacts in place, seen as the abstract store: one that is not whole is
\* not there.
Shelf == [s \in Sessions |-> [st \in Stages |->
            IF InPlace(s, st) # None /\ Whole(InPlace(s, st), st)
            THEN InPlace(s, st).manifest ELSE None]]
Spoiled == {x \in Sessions \X Stages :
              InPlace(x[1], x[2]) # None /\ InPlace(x[1], x[2]).edited}

Store == INSTANCE ArtifactStore WITH
    Authors <- Authors, Places <- Sessions, Missing <- None, ever <- done,
    shelf <- Shelf, spoiled <- Spoiled

\* The processes and the file system implement the store of whole artifacts.
ImplementsStore == Store!StoreSpec
=============================================================================
