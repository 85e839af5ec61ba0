------------------------------ MODULE Sections ------------------------------
(***************************************************************************)
(* One section of the collection, from the first question to Windows to    *)
(* the evaluations of its rules: the collector of the section, the gate    *)
(* (core/validation.rs) and the rules (core/rules.rs), for every section   *)
(* but storage, which module Storage follows.                              *)
(*                                                                         *)
(* A collector asks one question after the other, each of which may fail;  *)
(* between two of them processors, adapters and entries of the update      *)
(* history may come and go.                                                *)
(***************************************************************************)
EXTENDS SectionRules

CONSTANTS
    Collecting,   \* the sections to look at
    Biases,       \* minutes from local time to UTC, as Windows has them
    Dates,        \* release dates, as [year, month, day], and Null
    Memories,     \* what the memory is like
    Services,     \* what Device Guard lists
    Topologies,   \* processors: [packages, cores, arm]
    Features1,    \* instruction sets a package may have
    Cards,        \* adapters that may be installed
    DeviceKinds,  \* what a device may be like
    Clocks,       \* runs of minutes in which events happen
    Timelines,    \* system logs
    Extras,       \* further events, of any log
    Items,        \* what a category of the runtime environment lists
    MaxCards,     \* bound: adapters at a time
    MaxDevices,   \* bound: devices
    MaxEntries,   \* bound: entries of the update history at first
    Mosts,        \* limits the user sets on the entries read, or Null
    Cutoffs,      \* the oldest entry the user wants
    MaxChanges    \* bound: processors, adapters, entries that come or go

VARIABLES
    section,      \* the section collected
    pc,           \* what the PC is like, as far as the section goes
    changes,      \* how often that has changed
    stage,        \* "collecting", "gate", "rules", "done"
    todo,         \* the questions left
    answer,       \* the values, reasons and messages so far
    seen,         \* lists a later question is put together with
    result,       \* what the collector returned
    errors,       \* what the gate found
    evaluations   \* what the rules say

vars == <<section, pc, changes, stage, todo, answer, seen, result, errors, evaluations>>
later == <<section, stage, result, errors, evaluations>>

SectionNames == {"windows", "clock", "firmware", "memory", "windows_security", "cpu", "gpus",
                 "devices", "event_logs", "windows_updates", "runtime_environment"}

\* The calendar of the PC.
Moment(year, month, day, minute) == [year |-> year, month |-> month, day |-> day, minute |-> minute]
NextMidnight(t) ==
    IF t.day < DaysInMonth(t.year, t.month) THEN Moment(t.year, t.month, t.day + 1, 0)
    ELSE IF t.month < 12 THEN Moment(t.year, t.month + 1, 1, 0)
    ELSE Moment(t.year + 1, 1, 1, 0)
NextMinute(t) ==
    IF t.minute < 1439 THEN Moment(t.year, t.month, t.day, t.minute + 1) ELSE NextMidnight(t)

Minutes == 0 .. 1439
Moments == [year : Nat, month : Nat, day : Nat, minute : Minutes]
Events == [tick : Nat, time : Moments, log : Logs, id : Nat, level : Nat, text : {Null, Known, ""}]

\* The events happened when the clock had ticked so often.
Timed(events, clock) == \A e \in events : e.tick \in DOMAIN clock /\ e.time = clock[e.tick]

\* No member of a list of sets has anything in common with another.
Apart(sets) == \A i, j \in DOMAIN sets : i # j => sets[i] \cap sets[j] = {}

ASSUME SectionsAssumption ==
    /\ Collecting \subseteq SectionNames
    /\ {MaxCards, MaxDevices, MaxEntries, MaxChanges} \subseteq Nat
    /\ Mosts \subseteq {Null} \cup (Nat \ {0})
    /\ Biases \subseteq Int /\ Cutoffs \subseteq Int
    /\ Dates \subseteq {Null} \cup [year : Nat, month : Nat, day : Nat]
    /\ \A m \in Memories :
         /\ m \in [total : Nat, available : Nat, limit_pages : Nat, total_pages : Nat, page_size : Nat]
         /\ m.available <= m.total
    \* A processor is of one package and of one core, and a core is within a package.
    /\ \A t \in Topologies :
         /\ t.packages \in Seq(SUBSET UNION ToSet(t.packages)) /\ Apart(t.packages)
         /\ t.cores \in Seq(SUBSET UNION ToSet(t.packages)) /\ Apart(t.cores)
         /\ \A c \in ToSet(t.cores) : c # {} /\ \E p \in ToSet(t.packages) : c \subseteq p
         /\ IsFiniteSet(UNION ToSet(t.packages)) /\ t.arm \in BOOLEAN
    \* An adapter is known by its number, DXGI has PCI numbers for each, and the device
    \* of no hardware has those of software.
    /\ \A c \in Cards :
         /\ c.id # Null /\ c.pci # Null /\ c.type \in {"hardware", "software"}
         /\ {c.shy, c.mute, c.stopped, c.named, c.unread} \subseteq BOOLEAN
    /\ \A c, d \in Cards : c.id = d.id => c = d
    /\ \A c, d \in Cards : c.type = "software" /\ d.type = "hardware" => c.pci # d.parsed
    \* A log is written by one clock, which shows one minute after the other.
    /\ \A c \in Clocks :
         /\ c \in Seq(Moments) /\ c # <<>> /\ IsDay(c[1])
         /\ \A i \in 1 .. Len(c) - 1 : c[i + 1] = NextMinute(c[i])
    /\ \A t \in Timelines : t \in Seq(Events) /\ \E c \in Clocks : Timed(ToSet(t), c)
    /\ Extras \subseteq Events /\ \E c \in Clocks : Timed(Extras, c)
    /\ Items \subseteq Seq({"good", "bad"}) /\ IsFiniteSet(Categories)
    /\ "runtime_environment" \notin Categories

\* No list of the collection passes for a null, alone or with a mark that it was cut short.
Records == [log : Logs, time : Moments, id : Nat, text : {Known, ""}]
ASSUME ListsAssumption ==
    /\ Null \notin Seq(Records) /\ Null \notin Seq(Nat)
    /\ Null \notin [items : Seq({"good", "bad"}), truncated : BOOLEAN]

-----------------------------------------------------------------------------
(* The PC *)

SeqsUpTo(S, n) == UNION {[1 .. k -> S] : k \in 0 .. n}

\* The newest entry has the highest number.
HistoryOf(n) == [i \in 1 .. n |-> n + 1 - i]

Pcs(s) ==
    CASE s = "windows" -> [early : BOOLEAN]
      [] s = "clock" -> [bias : Biases]
      [] s = "firmware" -> [date : Dates, type : {"uefi", "bios", "unknown"}]
      [] s = "memory" -> Memories
      [] s = "windows_security" -> [configured : Services, running : Services]
      [] s = "cpu" -> UNION {[topology : {t}, on : (SUBSET UNION ToSet(t.packages)) \ {{}}]
                               : t \in Topologies}
      [] s = "gpus" -> [cards : {q \in SeqsUpTo(Cards, MaxCards) : IsInjective(q)}]
      [] s = "devices" -> [devices : SeqsUpTo(DeviceKinds, MaxDevices)]
      [] s = "event_logs" ->
            {[l \in Logs |-> IF l = "system" THEN t ELSE <<>>] : t \in Timelines} \cup
            {[l \in Logs |-> EntriesAt(q, {i \in DOMAIN q : q[i].log = l})] : q \in SeqsUpTo(Extras, 2)}
      [] s = "windows_updates" ->
            {[first |-> n, history |-> HistoryOf(n), most |-> m, cutoff |-> c] :
               n \in 0 .. MaxEntries, m \in Mosts, c \in Cutoffs}
      [] s = "runtime_environment" -> [Categories -> Items]

Queries(s) ==
    CASE s = "windows" -> WindowsQueries
      [] s = "clock" -> ClockQueries
      [] s = "firmware" -> FirmwareQueries
      [] s = "memory" -> MemoryQueries
      [] s = "windows_security" -> SecurityQueries
      [] s = "cpu" -> CpuQueries
      [] s = "gpus" -> GpuQueries
      [] s = "devices" -> DeviceQueries
      [] s = "event_logs" -> EventLogQueries
      [] s = "windows_updates" -> UpdateQueries
      [] s = "runtime_environment" -> SetToSeq(Categories)

Init ==
    /\ section \in Collecting
    /\ pc \in Pcs(section)
    /\ changes = 0
    /\ stage = "collecting" /\ todo = Queries(section)
    /\ answer = Got(<<>>) /\ seen = <<>>
    /\ result = Null /\ errors = {} /\ evaluations = <<>>

Changing(s, new) ==
    /\ section = s /\ stage = "collecting" /\ todo # <<>>
    /\ changes < MaxChanges
    /\ pc' = new
    /\ changes' = changes + 1
    /\ UNCHANGED <<todo, answer, seen, later>>

\* A processor is taken off the running system, or added to it.
SwitchProcessor ==
    section = "cpu" /\ \E p \in UNION ToSet(pc.topology.packages) :
        /\ pc.on # {p}
        /\ Changing("cpu", [pc EXCEPT !.on = IF p \in @ THEN @ \ {p} ELSE @ \cup {p}])

PlugCard(card) ==
    /\ section = "gpus" /\ Len(pc.cards) < MaxCards /\ card \notin ToSet(pc.cards)
    /\ Changing("gpus", [pc EXCEPT !.cards = Append(@, card)])

UnplugCard(i) == Changing("gpus", [pc EXCEPT !.cards = RemoveAt(@, i)])

InstallUpdate ==
    /\ section = "windows_updates"
    /\ Changing("windows_updates", [pc EXCEPT !.history = <<pc.first + changes + 1>> \o @])

\* The history is deleted, as resetting Windows Update does.
ClearHistory ==
    /\ section = "windows_updates" /\ pc.history # <<>>
    /\ Changing("windows_updates", [pc EXCEPT !.history = <<>>])

-----------------------------------------------------------------------------
(* The collectors *)

Ask(s, query) ==
    /\ section = s /\ stage = "collecting"
    /\ todo # <<>> /\ Head(todo) = query
    /\ todo' = Tail(todo)
    /\ UNCHANGED <<pc, changes, later>>

\* An answer is part of the result.
Hear(s, query, answers) ==
    /\ Ask(s, query)
    /\ \E a \in answers : answer' = Join(answer, a)
    /\ UNCHANGED seen

\* A list is kept until another is there.
See(s, query, name, list) ==
    /\ Ask(s, query)
    /\ seen' = [n \in DOMAIN seen \cup {name} |-> IF n = name THEN list ELSE seen[n]]
    /\ UNCHANGED answer

AskWindows ==
    \/ Hear("windows", "version", VersionAnswers)
    \/ Hear("windows", "architecture", ArchitectureAnswers)
    \/ section = "windows" /\ Hear("windows", "uptime", UptimeAnswers(pc.early))
    \/ Hear("windows", "boot_mode", BootModeAnswers)

AskClock ==
    \/ Hear("clock", "hardware_clock", HardwareClockAnswers)
    \/ Hear("clock", "system_time", SystemTimeAnswers)
    \/ section = "clock" /\ Hear("clock", "utc_offset", UtcOffsetAnswers(pc.bias))
    \/ Hear("clock", "time_service", TimeServiceAnswers)

AskFirmware ==
    \/ \E text \in {"vendor", "version"} : Hear("firmware", text, TextAnswers(text, Known))
    \/ section = "firmware" /\ Hear("firmware", "release_date", ReleaseDateAnswers(pc.date))
    \/ section = "firmware" /\ Hear("firmware", "interface_type", InterfaceAnswers(pc.type))
    \/ /\ section = "firmware" /\ "interface_type" \in DOMAIN answer.values
       /\ Hear("firmware", "secure_boot_enabled",
               SecureBootAnswers(answer.values["interface_type"]))
    \/ Hear("firmware", "status", FirmwareStatusAnswers)

AskMemory ==
    \/ section = "memory" /\ Hear("memory", "global", GlobalMemoryAnswers(pc))
    \/ section = "memory" /\ Hear("memory", "performance", PerformanceAnswers(pc))

AskSecurity ==
    \/ \E p \in Providers : Hear("windows_security", p, HealthAnswers(p))
    \/ section = "windows_security" /\ Hear("windows_security", "device_guard", DeviceGuardAnswers(pc))
    \/ Hear("windows_security", "details", DetailAnswers)

\* The sets of processors of which one is on.
Online(sets) ==
    LET on == [i \in DOMAIN sets |-> sets[i] \cap pc.on]
    IN  EntriesAt(on, {i \in DOMAIN on : on[i] # {}})

\* Each package is asked who it is, which ARM does not tell.
Identities(packages, arm) == [DOMAIN packages -> {Null} \cup (IF arm THEN {} ELSE Features1)]

AskCpu ==
    \/ section = "cpu" /\ See("cpu", "packages", "packages", Online(pc.topology.packages))
    \/ section = "cpu" /\ See("cpu", "cores", "cores", Online(pc.topology.cores))
    \/ /\ section = "cpu" /\ todo = <<"identity">>
       /\ Hear("cpu", "identity",
               {CpuAnswer(seen.packages, seen.cores, i, pc.topology.arm) :
                  i \in Identities(seen.packages, pc.topology.arm)})

\* SetupAPI may fail alone.
AskGpu ==
    \/ section = "gpus" /\ See("gpus", "adapters", "adapters", pc.cards)
    \/ /\ section = "gpus" /\ todo = <<"displays">>
       /\ Hear("gpus", "displays",
               {GpuAnswer(seen.adapters, Displays(pc.cards), DisplaysSaid(Displays(pc.cards))),
                GpuAnswer(seen.adapters, {}, {"setupapi"})})

AskDevices == section = "devices" /\ Hear("devices", "devices", {DeviceAnswer(pc.devices)})

AskEventLogs ==
    \E l \in Logs : section = "event_logs" /\ Hear("event_logs", l, LogAnswers(l, pc[l]))

\* The number of entries, page after page, and the end.
AskUpdates ==
    \/ /\ section = "windows_updates"
       /\ See("windows_updates", "count", "pages", FirstPage(pc.history))
    \/ /\ section = "windows_updates" /\ stage = "collecting" /\ todo = <<"pages">>
       /\ ~seen.pages.over
       /\ seen' = [pages |-> NextPage(seen.pages, pc.history, pc.most, pc.cutoff)]
       /\ UNCHANGED <<pc, changes, todo, answer, later>>
    \/ /\ section = "windows_updates" /\ todo = <<"pages">> /\ seen.pages.over
       /\ Hear("windows_updates", "pages", {UpdateAnswer(seen.pages)})

AskRuntime ==
    \E c \in Categories :
       section = "runtime_environment" /\ Hear("runtime_environment", c, CategoryAnswers(c, pc[c]))

Failure(s) ==
    CASE s = "cpu" -> CpuFailure
      [] s = "gpus" -> GpuFailure
      [] s = "devices" -> DeviceFailure
      [] s = "windows_updates" -> UpdateFailure
      [] s = "runtime_environment" -> RuntimeFailure

\* In these sections one failure is enough for all.
GiveUp ==
    /\ section \in {"cpu", "gpus", "devices", "windows_updates", "runtime_environment"}
    /\ stage = "collecting" /\ todo # <<>>
    /\ answer' = Failure(section)
    /\ todo' = <<>>
    /\ UNCHANGED <<pc, changes, seen, later>>

Judge(s, a) ==
    CASE s = "windows" -> WindowsResult(a)
      [] s = "clock" -> ClockResult(a)
      [] s = "firmware" -> FirmwareResult(a)
      [] s = "memory" -> MemoryResult(a)
      [] s = "windows_security" -> SecurityResult(a)
      [] s = "cpu" -> CpuResult(a)
      [] s = "gpus" -> GpuResult(a)
      [] s = "devices" -> DeviceResult(a)
      [] s = "event_logs" -> EventLogResult(a)
      [] s = "windows_updates" -> UpdateResult(a)
      [] s = "runtime_environment" -> RuntimeResult(a)

Return ==
    /\ stage = "collecting" /\ todo = <<>>
    /\ result' = Judge(section, answer)
    /\ stage' = "gate"
    /\ UNCHANGED <<section, pc, changes, todo, answer, seen, errors, evaluations>>

\* What is written for a worker that was lost: empty_collection.
EmptyPaths(s) ==
    CASE s = "windows" -> {"edition", "version", "build_number", "architecture", "booted_at",
                           "uptime_ms", "boot_mode"}
      [] s = "clock" -> {"hardware_clock", "system_time_utc", "utc_offset_minutes",
                         "windows_time_service"}
      [] s = "firmware" -> ToSet(FirmwareQueries)
      [] s = "memory" -> GlobalFields \cup {"limit", "commit_available"}
      [] s = "windows_security" -> HealthFields
      [] s = "cpu" -> {<<0, f>> : f \in CpuFields}
      [] s = "gpus" -> {<<0, "gpus">>}
      [] s = "devices" -> {<<0, "devices">>}
      [] s = "event_logs" -> Logs
      [] s = "windows_updates" -> {"history"}
      [] s = "runtime_environment" -> {<<0, c>> : c \in Categories}

\* The worker breaks, or its time runs out.
Lose ==
    /\ stage = "collecting"
    /\ result' = Lost(EmptyPaths(section))
    /\ stage' = "gate" /\ todo' = <<>>
    /\ UNCHANGED <<section, pc, changes, answer, seen, errors, evaluations>>

-----------------------------------------------------------------------------
(* The gate and the rules *)

GateErrors(s, r) ==
    CASE s = "windows" -> WindowsErrors(r)
      [] s = "clock" -> ClockErrors(r)
      [] s = "firmware" -> FirmwareErrors(r)
      [] s = "memory" -> MemoryErrors(r)
      [] s = "windows_security" -> SecurityErrors(r)
      [] s = "cpu" -> CpuErrors(r)
      [] s = "gpus" -> GpuErrors(r)
      [] s = "devices" -> DeviceErrors(r)
      [] s = "event_logs" -> EventLogErrors(r)
      [] s = "windows_updates" -> UpdateErrors(r)
      [] s = "runtime_environment" -> {}

\* One error is enough: nothing is written.
Gate ==
    /\ stage = "gate"
    /\ errors' = GateErrors(section, result)
    /\ stage' = IF errors' = {} THEN "rules" ELSE "done"
    /\ UNCHANGED <<section, pc, changes, todo, answer, seen, result, evaluations>>

Evaluate ==
    /\ stage = "rules"
    /\ evaluations' = Diagnose(section, result.values)
    /\ stage' = "done"
    /\ UNCHANGED <<section, pc, changes, todo, answer, seen, result, errors>>

Change ==
    \/ SwitchProcessor
    \/ \E card \in Cards : PlugCard(card)
    \/ section = "gpus" /\ \E i \in DOMAIN pc.cards : UnplugCard(i)
    \/ InstallUpdate
    \/ ClearHistory

Work == AskWindows \/ AskClock \/ AskFirmware \/ AskMemory \/ AskSecurity \/ AskCpu \/ AskGpu
        \/ AskDevices \/ AskEventLogs \/ AskUpdates \/ AskRuntime \/ Return \/ Gate \/ Evaluate

Next == Work \/ Change \/ GiveUp \/ Lose

Spec == Init /\ [][Next]_vars
\* The parent and the worker keep running; Windows need not change, nor fail.
FairSpec == Spec /\ WF_vars(Work)
-----------------------------------------------------------------------------
(* Properties *)

Undisturbed == changes = 0
Written == stage = "done" /\ errors = {}
Verdicts(rule) == {e.status : e \in {x \in ToSet(evaluations) : x.rule = rule}}

TypeOK ==
    /\ section \in Collecting
    /\ changes \in 0 .. MaxChanges
    /\ stage \in {"collecting", "gate", "rules", "done"}
    /\ ToSet(todo) \subseteq ToSet(Queries(section))
    /\ DOMAIN answer.reasons \cap (DOMAIN answer.values \ Nulls(answer.values)) \subseteq
          {<<0, c>> : c \in Categories}
    /\ section = "clock" /\ "utc_offset_minutes" \in DOMAIN answer.values =>
          answer.values["utc_offset_minutes"] \in {Null} \cup Int16
    /\ result # Null => result.status \in {"success", "partial", "failed"}
    /\ \A n \in DOMAIN evaluations : evaluations[n].rule \in Catalogue

\* An adapter whose own device cannot be told: it is gone by the time SetupAPI is asked,
\* or the device says neither its LUID nor the PCI numbers DXGI has of it.
Orphan(card, cards) == card \notin ToSet(cards) \/ (card.shy /\ PciSaid(card) # card.pci)

\* An adapter takes the device of another one for its own.
Mistaken(adapters, cards) ==
    \E a \in ToSet(adapters), b \in ToSet(cards) :
       Orphan(a, cards) /\ b.type = "hardware" /\ PciSaid(b) = a.pci

\* One section that is refused costs the user the whole collection (bundle.rs:58).
\* Whatever fails, comes or goes, the collectors and the gate agree on which values
\* are missing, why, and what the status is; each refusal there is has one of six
\* causes, all of them in what Windows said: a time zone more than a day away, a year
\* of five digits, a blank event text, an adapter without a name, and two adapters with
\* one device, because the second went while the adapters were listed, or because its
\* own device says neither its LUID nor its PCI numbers and the first one's says them.
ExplainedRefusal ==
    \A e \in errors :
        \/ e[1] = "offset" /\ pc.bias \notin -1440 .. 1440
        \/ e[1] = "date" /\ pc.date.year > 9999
        \/ e[1] = "event" /\ \E n \in DOMAIN pc[e[2]] : pc[e[2]][n].text = ""
        \/ /\ e[1] = "no_reason" /\ section = "gpus" /\ e[2][2] = "name"
           /\ ~seen.adapters[e[2][1]].named
        \/ e[1] = "twin" /\ section = "gpus" /\ Mistaken(seen.adapters, pc.cards)

\* The software adapters, by their number.
Software(values) == Entries(values) \ HardwareGpus(values)

\* As many, give or take what came and went.
Nearly(m, n) == m - n \in -changes .. changes

\* "success" promises that nothing is missing but what cannot be there, and that the
\* values are those of the PC: all its adapters, as long as none comes or goes, and all
\* its devices, events and items.  Whatever comes or goes, each adapter of which SetupAPI
\* can tell the device is shown with that device, and the packages, cores and processors,
\* put together from two lists of different moments, are out by one at most for each
\* processor that came or went.  The applications are left out: see ApplicationsWhole.
SuccessIsComplete ==
    Written /\ result.status = "success" =>
        /\ section # "gpus" /\ section # "devices" => Nulls(result.values) = {}
        /\ section = "cpu" =>
             /\ Nearly(result.values[<<0, "logical_processors">>], Cardinality(pc.on))
             /\ Nearly(result.values[<<0, "physical_cores">>], Len(Online(pc.topology.cores)))
             /\ Nearly(result.values[<<0, "physical_packages">>], Len(Online(pc.topology.packages)))
        /\ section = "gpus" =>
             /\ \A p \in Nulls(result.values) : p[1] \in Software(result.values)
             /\ Undisturbed => Entries(result.values) = DOMAIN pc.cards
             /\ \A i \in HardwareGpus(result.values) :
                  \/ Orphan(seen.adapters[i], pc.cards)
                  \/ result.values[<<i, "instance">>] = seen.adapters[i].id
        /\ section = "devices" =>
             /\ Entries(result.values) = DOMAIN pc.devices
             /\ \A p \in Nulls(result.values) : pc.devices[p[1]].present = FALSE
        /\ section = "event_logs" => \A l \in Logs : \A n \in DOMAIN pc[l] :
             Asked(l, pc[l][n]) /\ n <= MaxEvents =>
                \E e \in ToSet(result.values[l]) : e.id = pc[l][n].id /\ e.time = pc[l][n].time
        /\ section = "runtime_environment" => \A c \in Categories \ {"installed_applications"} :
             result.values[<<0, c>>].items = pc[c]

\* A diagnosis is written only to be loaded again by the report: for every section,
\* with whatever values missing, each rule speaks once, its evidence points to values
\* of the collection although it looks at some entries only, and the summary adds up.
DiagnosisAccepted ==
    Written => Accepted(section, result.values, evaluations, Summarize(evaluations))

\* A defect that was read is a finding, whatever else could not be read: an adapter
\* or a device with a problem, a record of an event, memory that is nearly used up.
FaultReported ==
    Written =>
        /\ section = "gpus" => \A i \in HardwareGpus(result.values) :
             /\ result.values[<<i, "problem">>] \notin {Null, 0} =>
                   Verdicts(<<"gpu", "device_problem">>) = {"triggered"}
             /\ result.values[<<i, "started">>] = FALSE =>
                   Verdicts(<<"gpu", "adapter_started">>) = {"triggered"}
        /\ section = "devices" /\ result.status # "failed" => \A d \in ToSet(pc.devices) :
             d.present = TRUE /\ d.problem \notin {Null, 0} =>
                \E e \in ToSet(evaluations) :
                   /\ e.status = "triggered"
                   /\ d.problem # 22 => e.severity = "error"
        /\ section = "event_logs" => \A l \in Logs : \A n \in DOMAIN pc[l] :
             n <= MaxEvents /\ Asked(l, pc[l][n]) =>
                LET kind == KindOf(Entry(l, pc[l][n]))
                IN  Verdicts(<<l, "availability">>) = {"triggered"} \/ kind = Null
                    \/ Verdicts(<<l, kind>>) = {"triggered"}
        /\ section = "memory" /\ pc.total > 0 /\ pc.available * 10 < pc.total =>
             Verdicts(<<"memory", "available_ratio">>) # {"passed"}

\* "passed" is said of the adapters only when every one of them was found well: the
\* numbers of another adapter are never taken for those of one that is stopped.  They
\* can be only if its own device cannot be told and, what is more, another adapter came
\* after the list was made: among the adapters of the list, the gate would see the twin.
PassIsEarned ==
    Written =>
        /\ section = "gpus" /\ (\/ Verdicts(<<"gpu", "device_problem">>) = {"passed"}
                               \/ Verdicts(<<"gpu", "adapter_started">>) = {"passed"}) =>
             \A i \in HardwareGpus(result.values) : seen.adapters[i].stopped =>
                /\ Orphan(seen.adapters[i], pc.cards)
                /\ ~(ToSet(pc.cards) \subseteq ToSet(seen.adapters))
        /\ section = "devices" /\ "passed" \in Verdicts(<<"device", "device_problem">>) =>
             \A d \in ToSet(pc.devices) : d.present = TRUE => d.problem = 0

\* The true number of shutdowns lies between all records and the most pairs of 41 and
\* 6008 within a minute.  Pairing them one after the other finds at least half of the
\* most pairs, and never a pair too many, across months and leap days.
ShutdownsCounted ==
    Written /\ section = "event_logs" =>
        \A e \in ToSet(evaluations) : e.rule = <<"system", "unexpected_shutdown">> =>
            LET log == Logged("system", pc["system"])
                those == {i \in DOMAIN log : log[i].id \in {41, 6008}}
                near == {p \in those \X those : /\ log[p[1]].id = 41 /\ log[p[2]].id = 6008
                                                /\ log[p[1]].tick - log[p[2]].tick \in -1 .. 1}
                most == Max({Cardinality(m) : m \in {x \in SUBSET near :
                               \A p, q \in x : p # q => p[1] # q[1] /\ p[2] # q[2]}})
                pairs == Cardinality(those) - e.count
            IN  pairs <= most /\ 2 * pairs >= most

\* The history is read page by page while updates are installed, which moves every
\* entry one place on.  If it was not deleted meanwhile, only the oldest entries can be
\* missing: one at most for each update installed, unless the user's limit is named as
\* the reason; and none of those the user's date asks for, if the date is.
HistoryWhole ==
    Written /\ section = "windows_updates" /\ result.status = "success"
    /\ (pc.first > 0 => 1 \in ToSet(pc.history)) =>
        LET items == ToSet(result.values["history"])
            due == {n \in 1 .. pc.first : n >= pc.cutoff}
            lost == due \ items
        IN  /\ \A n \in lost, m \in due \cap items : n < m
            /\ Cardinality(lost) <= changes \/ "truncated_by_count" \in result.said
            /\ "truncated_by_date" \in result.said => lost = {}
            /\ \A n \in items : n >= pc.cutoff

\* The pages have an end, even when the history is deleted between two of them.
Ends == <>(stage = "done")

\* docs/diagnostic-data-model.md:970: two adapters with the same instance are what
\* gpu.device_instance_id_unique warns of.  No such collection gets as far as a rule.
TwinsReachTheRule == ~\E e \in errors : e[1] = "twin"

\* docs/windows-runtime-environment.md:19: applications that cannot be listed are null,
\* and status.json says why.  A registry that breaks off is a success, with a part of
\* them.
ApplicationsWhole ==
    Written /\ section = "runtime_environment" /\ result.status = "success" =>
        result.values[<<0, "installed_applications">>].items = pc["installed_applications"]
=============================================================================
