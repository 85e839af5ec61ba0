# A TLA+ model of pcdiag

pcdiag collects the state of a Windows PC, evaluates rules on it and renders a
report. Each of the three commands (`collect`, `diagnose`, `report`) publishes an
artifact: a directory of files with a manifest. Without a command pcdiag runs all
three as one pipeline. This directory models the parts of it in which steps of
several processes meet, in which a step may fail half-way, or in which parts that
never see one another must agree on what is missing and why.

## The system

| Part | State | Operations | Meets |
|---|---|---|---|
| Commands (`main.rs`, `interrupt.rs`) | stage, `INTERRUPT_COUNT` | start, stage after stage, `check`, `check_with_log`, exit code | the console's Ctrl+C, the file system |
| Artifact publishing (`bundle.rs`, `diagnose.rs`, `report.rs`) | `<session>[.incomplete]`, `collection/`, `diagnosis[.incomplete]/`, `report[.incomplete]/` | probe a name, `create_dir`, `write_new`, `rename` | other pcdiag processes and the user in the same directories |
| Artifact loading (`core/artifact.rs`) | none | verify the listed files, refuse others, compare ids | a user who edits, removes or copies artifacts |
| Collector supervision (`collector_process.rs`) | worker, job object, two reader threads, deadline | spawn suspended, isolate, resume, watch, kill, join, assemble | worker and PowerShell processes, pipes, Ctrl+C |
| Manifest rules (`core/manifest.rs`) | none | version order, inputs and files per artifact type | publishing and loading |
| Storage collectors (`pcdiag-windows`: `physical_disks.rs`, `partitions.rs`, `volumes.rs`, `smart.rs`) | none; one process each | list, open and query every disk or volume; values, nulls with reasons, status | the PC's disks, the gate |
| System collectors (`windows_info.rs`, `clock.rs`, `firmware.rs`, `memory.rs`, `windows_security.rs`) | none; one process each | a fixed list of queries; each value, its reason or message, the status from what is missing | Windows APIs and the registry, the gate |
| Hardware collectors (`cpu.rs`, `gpu.rs`, `devices.rs`) | none; one process each | several lists of the same processors or adapters, put together | hot-plug between two lists, the gate, the GPU and device rules |
| History collectors (`event_logs.rs`, `windows_updates.rs`, `runtime_environment.rs` and `.ps1`) | none; one PowerShell process each | ask log by log, page by page, category by category; truncate | events, updates and programs that change meanwhile, the event rules |
| Collection validation (`core/validation.rs`) | none | status against nulls, reasons and messages of each section; values; references between sections | `collect` before it writes, loading |
| Rule engine (`core/rules.rs`) | none | evaluations, findings, summary | `diagnose`, `validate_against` |
| Command line (`main.rs`) | none | parse, reject, defaults | - |
| Report rendering (`report.rs`) | none | text, tables, dates | - |
| In-process collection (`pcdiag-windows`: `collect.rs`) | none | the collectors one after the other, without processes | its tests only |
| Update check (`update_check.rs`) | none | one HTTP request, one line printed | the network |

What makes each part correct:

- *Commands*: the exit code says what was published; after a first Ctrl+C no
  later stage starts and the directory left behind says so; every command ends.
- *Publishing*: a final name shows a whole artifact, at once, and the program
  never touches it again; two processes never write into one directory.
- *Loading*: a report shows a diagnosis made from the collection it shows.
- *Supervision*: no process outlives the collector it was started for; each
  verdict is what happened; the run ends and a worker is never left waiting.
- *Storage collectors*: what is missing has a reason, "success" means nothing is,
  and four collectors that never see one another agree on the PC.
- *Other collectors*: each value that is missing has exactly one reason, the status
  the collector computes is the one the gate computes again, lists of one thing made
  at two moments are not put together wrongly, and paging ends and loses nothing new.
- *Validation, rules*: what `collect` and `diagnose` produce passes the checks they
  and the later stages apply to it, whatever the PC answers.

The behaviours that are hard to test are the hazards of `PROJECT.json`, each with
its line: check-then-create races, crashes between two files, Ctrl+C in every
position, a helper that keeps a pipe open, an exit racing a time limit.

## Modules

### `Session`, with `ArtifactStore`, `SessionProofs`, `SessionHistoryProofs`

`Session` models any number of pcdiag processes on a shared set of session
directories. A command of the code is straight-line between interrupt checks, so
`Program` writes each one down as a list of steps, in source order, and there is one
action per kind of step: `Check`, `Name`, `Probe`, `Compute`, `CancelCollectors`,
`LoadCollection`, `LoadDiagnosis`, `Mkdir`, `Write`, `Rename`, `Return`. Any two steps
may be separated by a step of another process, by `CtrlC`, `Crash` or `Fail`, or by
the user (`CleanUp`, `Edit`).

- `proc[p]` is the process: its place in `Program`, the session it works in, the
  names it has tried, its interrupts (the counter of `interrupt.rs`; a second Ctrl+C
  is `ExitProcess`), the manifests it has loaded, and how it ended.
- `disk[d][x]` is the artifact directory `x` in the session directory `d`: the files
  written, the file cut off by a crash, `interruption.log`, and whether the user
  changed it. The rename of a session directory moves all that is in it.
- Ids are UUIDv4 in the code and never repeat. An artifact id is modelled by the
  process that drew it and the stage, a session id by the process that collected.
  A session's *directory* name has only a time and a short id, and may repeat.
- `exists()` twice and `create_dir` are three steps, as they are three calls.
- `Fail` is every `?` of the code, at every step that has one.

`ArtifactStore` is what this amounts to: artifacts that appear whole and at once,
never replace one another, and name as inputs only what was published before.
`Session!Store` is the refinement mapping (`Shelf`, `Spoiled`): an artifact is in the
store when it is under its final name with exactly the files of its stage, none cut off
and no log beside them; everything `.incomplete` maps to nothing. `ImplementsStore`
checks it, and `SessionHistoryProofs` proves it.

### `CollectorRun`, with `CollectorRunProofs`

The parent's control (`pc`) follows `collect_all` and `run_worker` statement by
statement; the worker, its helper, the two reader threads and the console act
between any two of them. A killed process is `doomed` until the system has
removed it and keeps the pipes open until then. A job holds the worker and all it
starts after `isolate`. Ctrl+C reaches the processes of the console one at a time,
in any order; workers have no handler and die of it. Answers are told apart only as
far as the code does: its own, one of the wrong shape (found by `assemble`), and
another collector's or no `WorkerOutput` at all. Time is the set `overdue`: a limit
may pass at any moment after the worker was started.

### `Storage`, with `StorageProofs`

The PC is a set of devices, each with traits (`locked`, `full`, `failing`, ...) and the
`PhysicalDrive` number it has at the moment. The four storage collectors run in
`COLLECTOR_ORDER`; each lists (`List`), then opens and queries one item after the other
(`QueryDisk`, `QueryPartition`, `QueryVolume`, `QuerySmart`), and returns (`Return`), or is
lost as a whole (`Lose`: failed enumeration, broken worker, time limit). Between any
two of these `Move` connects, removes or renumbers a device. What each collector does
with a disk it cannot open differs and is kept: left out (`physical_disks`, if gone),
a message (`physical_disks`, `partitions`), an entry without values (`smart`).
`FieldResults` and `Returned` are `map_*` and `build_result`.
`Gate` is `validate_with_status` on the storage sections; a nonempty `errors` is a
`collect` that fails. `Evaluate` is the four storage rules, `Valid` what
`validate_against` asks of one evaluation. Paths are tuples (section, index, field), so
a wrong index is a wrong path, as in the code.

Abstracted: sizes are small numbers that keep the comparisons (full: under 10 % and
10 GiB at once; quota: capacity below free space); a device has one partition and one
volume; of the fields one query fills, one or two are kept; `failing` sets
prediction, critical warning and use together. Left out: overlapping partitions,
repeated partition numbers, extents of length zero (`validation.rs:499-505`; Windows would have
to say so of a volume), texts and native codes.

### `Sections`, with `Answers`, `SystemFacts`, `Histories`, `Hardware`, `SectionRules`, `SectionsProofs`, `DiagnosisProofs`, `HistoryProofs`, `CollectionProofs`

Every section but storage has one of eleven collectors, and all have the same life: ask Windows one
question after the other, judge what was heard, hand the result to the gate, and the
gate's result to the rules. `Sections` is that life, for one section at a time
(`section`): no check of the gate and no rule reads two of these sections.

- `pc` is what the PC is like as far as the section goes (`Pcs`); `Change` is what may
  happen between two questions: a processor is switched, an adapter is connected or
  removed, an update is installed, the update history is deleted. It is the
  environment, not the code.
- `todo` is the list of questions left, in the order of the source; `answer` the
  values, null reasons and messages so far; `seen` a list that a later question is
  put together with (`packages` and `cores`, `adapters`, the pages of the history).
- `AskWindows`, ... `AskRuntime` are the collectors, one question a step. `GiveUp` is
  the `?` of the collectors in which one failure is enough for all; `Lose` a worker
  that breaks or whose time runs out, after which `collector_process.rs` writes an
  empty section.
- `Return` judges (`WindowsResult`, ... are the ends of the `collect_*` functions),
  `Gate` is the section's part of `validate_with_status`, `Evaluate` its rules.

`Answers` says what a query may answer and what the gate asks of a status in every
section: a value is there, or null with a reason (`Missed`, with a message), or null
and nobody says so (`Unsaid`). A later answer adds to what is there (`Join`, `Beside`) and
replaces nothing; `EntriesAt` is a list filtered by place, as the code's filters keep the
order. `SystemFacts` has the five collectors with a fixed set of
fields, `Histories` the three that run scripts, `Hardware` the three that put lists
together: `Online` processors in two topologies, and adapters that DXGI lists matched
with devices that SetupAPI lists (`MatchDetails`: by LUID, else by PCI numbers). There are two
PCI identities: DXGI always has the one of an adapter (`pci`), SetupAPI takes its own from the
instance id (`PciSaid`), which may be unreadable or no PCI device's; a device may know no LUID
either. An adapter whose device says neither still looks for its PCI numbers, and finds an equal
adapter's. `SectionRules` has the catalogue, all rules
of these sections with the pairing of events 41 and 6008 (`Paired`), the summary,
and `Accepted`, which is `validate_against`.

Abstracted: a value that neither gate nor rule compares is `Known`. `Word` is 2^64
scaled down; the pages of the update history (`Batch`), the limit of a category
(`Limit`) and of a log (`MaxEvents`) are scaled down too. Times are minutes on a
calendar with leap days, since the pairing compares dates of different months; an event has
beside its time the tick of the clock it happened at, so that the properties can measure
distances without the code's own arithmetic. The
registry of installed applications is read in views, each of which may break off: the
answer is a prefix of the true list. The values that `windows_security.rs` reads
by groups are `Details`, each of them read, of no use or not reached (`DetailAnswers`). Left out: the forms of texts, the CPUID bits, the
decoding of device properties, masking of command lines, signatures.

`MCSession` and `MCStorage` add the symmetry sets for TLC; `CollectorRun` needs none.
`MCSections` chooses what the PC may be like: days that exist and days that do not, a
memory that is nearly used up and one whose page counts overflow, events around midnight at
the end of a February, a leap February and a year, and nine adapters: three of one make whose
devices say so, with and without a LUID; one SetupAPI does not take for PCI; one whose instance
id is not to be read; two whose PCI numbers SetupAPI has the wrong way round; two of software.

Definitions whose comment begins "X, were ..." state how a plausible defect would
change the definition that follows; nothing in the specification uses them, and the
`mutants` of `PROJECT.json` show with them that each property depends on the code.

## Runs

| Run | Instance | Question |
|---|---|---|
| `Session_fresh` | 2 processes, any command, 1 session name, 2 tries, empty disk | Do races for one name, interrupts and crashes ever show in a final name, an exit code or a second writer? Does every command end, also when every name it draws is taken? |
| `Session_store` | 2 processes, pipeline and report, 2 names, 1 collected, 1 edit | Does the program implement `ArtifactStore` although a user damages, removes and copies, does a report belong to what it shows, and a pipeline report on what it collected? |
| `Session_failure_log` | 1 process, diagnose | *Violated*: docs/common-manifest.md:245-246 promises a log for a failed stage. A failing write leaves `diagnosis.incomplete` without one. |
| `Session_leftover` | 2 processes, collect and diagnose, `.incomplete` paths allowed | *Violated*: docs/cli-command.md:53 and :56 say an interrupted artifact is not treated as finished. `diagnose` accepts an `.incomplete` session whose collection is complete. |
| `CollectorRun` | 2 collectors, an answer of 2 pieces, a pipe of 1 | No survivor, no verdict that did not happen, no worker after the interrupt |
| `CollectorRun_ends` | 1 collector, 2 pieces on each pipe, pipes of 1 | Does the run end when workers hang and helpers keep pipes open, and is a worker that goes on writing never left waiting? |
| `Storage` | 2 numbers, 2 devices of 6 kinds, 1 fault, 2 moves | Is every refusal of the gate the PC's doing, is "success" whole, are findings and passes earned, is the diagnosis valid? |
| `Storage_denied` | the same, locked devices, no faults or moves | *Violated*: docs/diagnostic-data-model.md:1166 says a refused disk does not stop the rest. The gate refuses the whole collection. |
| `Storage_absent` | the same, NVMe devices, 2 faults | *Violated*: docs/diagnostic-data-model.md:1183 says unread values are `not_evaluated`. The NVMe rules say `not_applicable` when the disk list was lost. |
| `Sections` | each of 11 sections, every choice of `MCSections`, any query fails, 2 changes | Does the gate refuse only what Windows said wrong, is "success" whole, are findings and passes earned, is the diagnosis valid, are shutdowns counted as the records allow, is the update history whole, does every collector end? |
| `Sections_twin` | adapters only | *Violated*: docs/diagnostic-data-model.md:970 makes two adapters with one device instance a warning. The gate refuses the collection before a rule sees it; one of two equal adapters is shown with the device of the other, because its own says neither LUID nor PCI numbers or was unplugged between the two lists. |
| `Sections_registry` | runtime environment only | *Violated*: docs/windows-runtime-environment.md:19 says that what cannot be listed is null with a reason. A registry view that breaks off leaves a part of the applications under "success". |

`ExplainedRefusal` of `Sections` leaves six causes of a refusal, all of them in what
Windows says: a time zone more than a day from UTC, a firmware date with a year of
five digits, an event whose text is blank, an adapter without a description, and two adapters
shown with one device (`Mistaken`), because the own device of one of them (`Orphan`) is gone by
the time SetupAPI is asked, or because it says neither its LUID nor the PCI numbers DXGI has.
All are unusual but nothing in the code excludes them; each costs the user
the whole collection, since `collect` publishes nothing that the gate refuses.

`SuccessIsComplete` and `PassIsEarned` hold while adapters and processors come and go, too. An
adapter that is no orphan is shown with its own device, whatever was plugged meanwhile; the
counts of processors, cores and packages, taken from two lists of different moments, are out
by one at most for each processor that was switched (`Nearly`). A stopped adapter can pass for
one that works only if it is an orphan and, besides, an adapter came after DXGI's list
was made: among the adapters of the list the gate would see the twin.

Why the bounds are enough: two processes are needed for a race and a third meets
the same directory states as the second; one session name forces every collision
and two names let artifacts be copied from one session to another; `MaxTries = 2`
reaches both a retry and giving up (16 in the code); the one edit damages, removes
or copies. In `Storage`, two devices are needed for one to hide another, two
moves to exchange a disk under its number, and one fault beside what the traits
bring already gives each rule a known and an unknown value. Two collectors show what one leaves to the
next; an answer longer than the pipe makes the worker wait. In `Sections`, two adapters are enough to be taken
for one another, with the nine kinds above in every order, and a change each way exchanges them; five entries and two updates
are more than three pages of two; four events of two kinds are the shortest log in
which taking the first partner costs a pair elsewhere; a category of three is longer
than its limit of two. Each run stops when
its processes have ended, so deadlock is not checked.

`Leftovers = FALSE` says that users do not hand `<session>.incomplete` to `diagnose` or
`report`. The code does not prevent it; `Session_leftover` shows what follows, and
every other `Session` run and all theorems are under the assumption.

Fairness: `Session!FairSpec` asks only that a process that can take its next step
does (file operations and computations return); nothing is asked of Ctrl+C, the
user or another process. `CollectorRun!FairSpec` asks only that the parent and its
reader threads are scheduled; workers and helpers may hang for ever. What else a
property needs is its premise: `Returns` that time passes and that the system removes
what was killed (`SystemFair`), `Heard` that the worker goes on writing
(`WorkerWrites`). `Sections!FairSpec` asks that a collector goes on (`WF_vars(Work)`):
each question is answered or fails. A question that hangs is the time limit's, which
`CollectorRun` has. Nothing is asked of `Change`, `GiveUp` and `Lose`, so `Ends` is
about the loops, the pages of the history above all.

## Proofs

`SessionProofs` proves for any set of processes and session names, any commands, any
number of tries and edits, from `SessionAssumption`, `NoneAssumption` and
`Leftovers = FALSE`:

- `Invariance`: `Spec => []IInv`;
- `TypeCorrect`, `Exclusive`, `Complete`: `TypeOK`, `HolderOwnsDirectory` and
  `PublishedComplete` are invariants;
- `Immutable`: `Spec => PublishedImmutable`.

None of the last three is inductive alone. A rename publishes a whole artifact only
because the process holds its directory (`HolderOwnsDirectory`), which other
processes respect only because a directory belongs to the process its manifest
names (`DirectoryOK`), and because the place in `Program` agrees with the session
path, the tries and the loaded manifests (`ControlOK`). `IInv` is the conjunction of
these with `TypeOK` and `PublishedComplete`. The proof has one lemma per action;
`PrivateChange` and `WorkbenchChange` state once what a step that changes only its
process, or its process and its own directory, leaves intact for the others.

`SessionHistoryProofs` proves, from the same assumptions,

- `HistoryInvariance`: `Spec => []HInv`;
- `ExitIsTruthful`, `StopsInItsStage`, `InterruptIsLogged`, `ReportsFit` and
  `PipelineKeepsItsSession`: `ExitTellsTheTruth`, `NoLaterStage`, `InterruptLeavesLog`,
  `ReportLineage` and `PipelineReportsItsCollection` are invariants.

What these say of a published artifact or of a process that has ended follows from
nothing in the present state alone: an exit code is right because of what its process
did before it ended, a report fits because of what its process had loaded. `HInv` keeps
that history, process by process, next to `IInv`: nothing of `p` is published or on the
disk that belongs to a step `p` has not reached or to a stage after the one in which it
was interrupted (`PublishedBy`, `LeftBy`, both by `Within`); what `p` has loaded was
published, of one session and one made from the other (`LoadedBy`); what is unfinished is
where its process works, or has a log (`UnfinishedOf`); a pipeline that has collected
finds its own collection at its path (`HomeOf`), which holds because names may collide
but no step of the program replaces an artifact, and a collection of one session cannot
be copied over one that is there; and what is under a final name was published
(`ShelfPublished`), which is how loading connects to publishing when user and
processes come between. For the processes that do not move, one lemma says what a step
may do to the disk so that their history stays (`TameFor`): nothing of theirs appears,
and what they left unfinished stays as it is or goes.

`SessionHistoryProofs` also proves `Implements`, `Spec => ImplementsStore`. A rename is the
one step that publishes (`RenameIsPublish`): its place is empty, its artifact whole, its
inputs published, and its id new, all by `HInv`; the user's damage, removal and copy are
the store's (`EditIsUser`, and removal of what is `.incomplete` is invisible); every other
step changes nothing under a final name and nothing in `done` (`StoreStutters`), a
crash in the middle of writing among them.

`CollectorRunProofs` proves for any number of collectors, any length of their answers
and any capacity of the pipes, from `CollectorRunAssumption`:

- `Invariance`: `Spec => []IInv`;
- `TypeCorrect`, `NothingSurvives`, `VerdictsAreJustified`, `StopsPromptly`: `TypeOK`,
  `NoSurvivor`, `VerdictsJustified` and `PromptStop` are invariants.

`NoSurvivor` needs to know what the job holds when it is ended: a helper that is alive
is in the job, because only a running worker starts one and a worker runs only after
`isolate` (`ProcessesOK`); and that a reader ends only when nobody holds its pipe
(`ReadersOK`), so that after the join nothing is left. `VerdictsJustified` needs how
exit status, answer and faults go together (`ExitOK`, `ReasonOK`), and that what has its
verdict does not change (`PastOK`); `PromptStop` how far the parent may be beyond the
collector it was at (`FlagOK`, `FutureOK`). Two lemmas say once what the ways out of a
worker have in common: `GivingUpKeeps` for every kill, `RecordingKeeps` for every verdict.

`StorageProofs` proves for any number of devices, numbers, failures and moves, and whatever
each device is like, from `StorageAssumption` (the devices are finitely many, numbers are
natural) and `NullAssumption` (the null is none of the values, lists and records that are
written):

- `Invariance`: `Spec => []IInv`;
- `TypeCorrect`, `RefusalsExplained`, `SuccessTold`, `DiagnosisIsAccepted`,
  `FaultIsReported`, `PassEarned`: `TypeOK`, `ExplainedRefusal`, `SuccessIsComplete`,
  `DiagnosisAccepted`, `FaultReported` and `PassIsEarned` are invariants.

All of these speak of the end, of the gate or of the rules; each collector is long gone by
then, and the next one never saw it. `IInv` is what must be known on the way. While a
collector runs (`Collecting`), each device is still listed, or has its entry, or is
`Excused`: a partition by a message, a locked disk by one too, a volume and a SMART
entry by nothing; and each entry is true of a device (`True`). When it has returned
(`Sound`), its fields are exactly its nulls and its status is theirs (`Agreed`). Of a disk
that means its number and capacity, so that the references of the other collectors are
met unless a disk is locked, and no partition is longer than its disk, as no two devices
have one number (`PlacesDiffer`). Of the volumes it means that there are as many as
devices, which needs that a listing without repetition of all of them misses none
(`ListsAll`), and that no two have one mount point (`Apart`). Of a SMART entry without
a protocol it means a null whose reason is not `not_applicable`, so that the status is
not "success". `Judged` says that the rules were applied to these results and no others.
What is true of an undisturbed PC only is stated so: `MoveKeeps` is where a move ends it,
and the agreement of status and nulls goes on. The theorems about the rules then need
no step: `ValidEvaluation`, `OneBadValue`, `OneLowVolume` and `PassedIs` say what a rule
makes of the entries, whatever the others are or lack.

The other four modules are about `Sections`, each extending the one before. They prove
every invariant of the run `Sections`, for all eleven collectors:

| Theorem | Invariant of `Sections` |
|---|---|
| `CollectionProofs!EveryStateTyped` | `TypeOK` |
| `CollectionProofs!EveryRefusalExplained` | `ExplainedRefusal` |
| `CollectionProofs!EverySuccessComplete` | `SuccessIsComplete` |
| `CollectionProofs!EveryPassEarned` | `PassIsEarned` |
| `HistoryProofs!EveryDiagnosisAccepted` | `DiagnosisAccepted` |
| `HistoryProofs!EveryFaultReported` | `FaultReported` |
| `HistoryProofs!ShutdownsRight` | `ShutdownsCounted` |
| `HistoryProofs!HistoryIsWhole` | `HistoryWhole` |

They hold for PCs of any size, from these assumptions, which TLC evaluates on every run:

- `NullAssumption`, `ListsAssumption`, `KindsAssumption`: the null is none of the values,
  lists and names of kinds that are written;
- `SystemFactsAssumption`: the areas and properties of Windows Security are finitely many
  and distinct, and the word has some width;
- `HistoriesAssumption`: a page, a category and a log have room for one entry;
- `SectionsAssumption`: numbers are numbers, and the PC is one that can be: no more memory
  is available than there is; a processor is in one package and one core, and a core within
  one package; an adapter is known by its LUID; DXGI has the PCI numbers of
  each adapter, and those of software are said by no hardware; the events of one PC were written by one clock, which shows one minute after the
  other from a day of the calendar on; and the categories are finitely many.

Nothing is assumed of failures or of what changes between two questions.

**`SectionsProofs`: answers and the gate.** The gate sees a result only when all questions
have been asked, so the invariant (`IInv`, here for Windows, clock, firmware and memory) says what is
known before each of them: exactly the fields of the earlier queries, with a reason for
exactly the nulls among them (`Covers`), as each query adds fields nobody had
(`JoinCovers`). Beside that, each section needs to know that it will not fail without a
message, which is not the same for all: in `windows` and `memory` every null is worth one
(`Voiced`), the clock's hardware clock and most of the firmware are missing silently and
one field whose failure speaks is enough (`ClockSays`, `FirmwareKept`). What the memory
says to be available is never more than there is (`MemoryWithin`): where the collector
computes it, by `Product`. `SuccessUnblamed`, `PartialUnblamed`, `FailureUnblamed` and
`LostUnblamed` say once what the gate accepts.

**`DiagnosisProofs`: the rules.** `DInv` follows the answers as far as the rules on memory,
devices and adapters read them: the entry of each device and adapter that was listed, with exactly
the reasons its type or its presence gives (`DevicesMapped`, `Mapped`), the two numbers of the
memory (`OfMemory`); then that the result is made of these or the worker was lost
(`Returned`), and that the gate and the rules saw this result (`Followed`). The rest is
about the rules alone: `MemoryRuleIs`, `DeviceRuleIs` and `GpuRulesAre` say for any values,
missing ones included, that what a rule points to is there (`Backed`) and that one bad
value is enough, and `AcceptedIs` that `validate_against` wants no more. It also wants the
summary to add up, which one pass over the evaluations computes; `SummaryIs` says what the
pass has counted after each of them (`SummaryGrows`). That is an induction over a list,
done without the library's induction theorem: `Induction` is stated for a set of numbers
and proved by counting, with the facts about finite sets. The folds and recursive functions
of the modules that follow are reached in the same way.

**`HistoryProofs`: event logs and updates.** `EventsRead` says of each log that it was read
as `ReadLog`, the newest of the events that were asked for in their order, or is a null
with a reason and a message; so what a rule finds in the collection can be said of
the PC. `ShutdownsRight` is about `Paired`, which takes records 41 and 6008 one after the
other and gives each its closest free partner. What it takes is a matching, hence never
more pairs than the most there could be; and each pair of any matching shares a record with a pair
taken, as otherwise the pass would have taken it, hence at least half of the most. The code
compares dates, by a formula of its own for the days since 1970, the property compares ticks of the clock; that
both are the same distance (`Measured`) is the arithmetic of the Gregorian calendar: the
minute after the last of a day, a February of either length and a year is one more.

`HistoryIsWhole` compares a finished list with the update history as it was in the
beginning; what connects them is that installations move entries towards the pages and never
past them. `HInv` says it with one number (`Reaches`): the pages have every entry from `lo`
on, and the place of the next page is, after all moves so far, not beyond the one of `lo - 1`.
`NextPageOK` lowers `lo` by a page, `InstallOK` keeps it. At the end `lo - 1` entries can be
missing, as many as the history has grown since it was counted (`OverIsWhole`). A deletion ends
the promise, but not that entries older than the date stay out.

**`CollectionProofs`: answers put together from several lists.** `AllRead` is the
conjunction of all invariants, with those of the remaining sections:

- *adapters* (`MatchesRead`): `OwnDevice` says that the device an adapter is matched
  with is its own as long as SetupAPI can tell that one, because no two adapters have one LUID
  and PCI numbers decide only when one device says them; otherwise it is that of an adapter
  with the same numbers. So two adapters with one device (`twin`) need an orphan
  (`AdapterRefusals`), and this is stated of the two lists themselves, whatever changed between
  them. That a pass is earned takes counting: the gate lets no two adapters through with one
  device (`AdaptersApart`), so if every device is that of an adapter in the list, the
  adapters are matched with all of them, and a stopped device would speak for itself
  (`AdaptersPassed`);
- *processors* (`CpuRead`): packages and cores come from two queries at two moments,
  between which processors are switched. The gate adds up cores and processors of all
  packages and compares; it never refuses, because the totals are sums of the same entries
  (`NumberPairs` counts them as pairs) and because a package has at least as many processors
  as cores, whatever moment each was listed at. The invariant knows of each
  list the processors that were on then, and those touched since, which are no more than
  the changes (`Since`). As packages and cores are disjoint, each that differs has a touched
  processor of its own (`MoreLit`), so the counts are near those of the PC (`CountsNear`);
- *Windows Security* (`SecurityRead`): a list of questions of any length; a message for
  each area that could not be read, and without a reason no message but of an area nobody watches
  (`SecurityVoiced`);
- *updates* (`UpdatesRead`): the answer is made of the pages;
- *runtime environment* (`RuntimeRead`): each category that was listed is a null with a
  reason or a list, which is whole unless it is marked as cut short (`RuntimeSays`), but for the
  applications (`Sections_registry`).

`AllRead` is inductive, and the gate (`RefusalsOK`), the completeness of a success
(`CompletesOK`) and the passes (`PassOK`, `AdaptersPassed`) follow from it without a step. The types need
`TypesKept` beside it, mostly that a reason is given for a null only (`Reasoned`).
`Int16` has a name because the provers cannot expand 65536 numbers.

Only model-checked:

- liveness (`Terminates`, `Returns`, `Heard`, `Ends`), which with ENABLED and fairness is out of the proof
  system's reach;
- the properties of the runs that find a violation, which the code does not have.

## Not modelled

Artifact contents beyond the manifest; reading an artifact file by file (loading is
one step); failures of `create_dir_all` on the output root beyond `Fail`; the non-Windows
stub of the job object, which never runs in a release; rendering; the update check,
whose answer is only printed; the parser of the command line and the comparisons of
`manifest.rs`, which have no state and no second actor; `collect.rs`, which runs the
collectors without processes and is called by tests only; hashes. Of the collectors and
the gate: the forms of texts (instants, KB numbers), overlapping partitions, extents of length zero, CPUID bits,
decoding of device properties, masking of command lines, file signatures. In `Storage`, a disk exchanged under its number
between two collectors may give its SMART values to the other's model; nothing in the
collection could tell, and no property is stated. Three effects were seen and are behaviour of the code
that no document speaks of: a worker that ends between `try_wait` and the look at the clock, its
limit being over, has its answer discarded as a time-out (`VerdictsJustified` forbids a time-out
before the limit, not this); a run whose failure follows an ignored first Ctrl+C exits with
1, and a Ctrl+C after the last check publishes and exits with 0.

## Plan

1. `Session`, `ArtifactStore`, `SessionProofs`, `SessionHistoryProofs` (done).
2. `CollectorRun`, `CollectorRunProofs` (done).
3. `Storage`, `StorageProofs` (done).
4. The other sections, with all rules, the pairing of shutdowns and the status each
   collector computes: `Answers`, `SystemFacts`, `Histories`, `Hardware`, `SectionRules`,
   `Sections`, `SectionsProofs`, `DiagnosisProofs`, `HistoryProofs`, `CollectionProofs`
   (done).

Not begun: a module `ArtifactLoad`, loading file by file against concurrent edits,
implementing the one-step load of `Session`; the fields and partitions of a disk that
`Storage` abstracts.
