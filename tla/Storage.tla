------------------------------ MODULE Storage ------------------------------
(***************************************************************************)
(* The storage collectors of pcdiag-windows (physical_disks.rs,            *)
(* partitions.rs, volumes.rs, smart.rs), the gate a collection passes      *)
(* before it is written (core/validation.rs), the storage rules            *)
(* (core/rules.rs) and the check of a diagnosis against its collection.    *)
(*                                                                         *)
(* The four collectors run one after the other, each in a process of its   *)
(* own, and each asks Windows again which disks there are.  Only the gate  *)
(* sees their answers together.  Between any two queries the user may move *)
(* a device, a query may fail, or a whole collector may be lost.           *)
(*                                                                         *)
(* A device has one partition, which fills it, and one volume.  A number   *)
(* of `Numbers' stands for the PhysicalDrive number and for the drive      *)
(* letter that goes with the place of a device.                            *)
(***************************************************************************)
EXTENDS Integers, FiniteSets, Sequences, SequencesExt

CONSTANTS
    Numbers,     \* PhysicalDrive numbers
    Devices,     \* devices that may be connected
    Traits,      \* what a device may be like: sets of the names in TraitNames
    MaxFaults,   \* bound: queries and collectors that fail
    MaxChanges,  \* bound: devices connected, removed or moved while collecting
    Null         \* JSON's null; also the place of a device that is not connected

\* locked: may not be opened.  large: twice the size.  mbr: not GPT.
\* hidden: no drive letter.  full: below both free space limits.  quota: the
\* caller's quota is below the free space.  empty: a capacity of 0.
\* failing: reports a defect.  spent: spare over 100.  bridge: no SMART.
TraitNames == {"nvme", "locked", "large", "mbr", "hidden", "full", "quota", "empty",
               "failing", "spent", "bridge"}

ASSUME StorageAssumption ==
    /\ Numbers \subseteq Nat /\ IsFiniteSet(Devices)
    /\ Traits \subseteq SUBSET TraitNames
    /\ MaxFaults \in Nat /\ MaxChanges \in Nat

\* What a collector writes about one disk, partition, volume.
Extents == [disk_number : Numbers, end : 1 .. 2]
Entry ==
    [physical_disks |-> [number : Numbers, model : {"named", Null},
                         bus_type : {"nvme", "sata", Null}, capacity_bytes : {1, 2, Null}],
     partitions |-> [disk_number : Numbers, end : 1 .. 2, bootable : {TRUE, Null}],
     volumes |-> [mount_points : {Null} \cup SUBSET Numbers, capacity_bytes : {0, 3, 8, Null},
                  free_bytes : {0, 4, Null}, extents : {Null} \cup SUBSET Extents],
     smart |-> [disk_number : Numbers, protocol : {"nvme", "failure_prediction", "unknown"},
                predict_failure : {TRUE, FALSE, Null}, critical_warning : {0, 1, Null},
                percentage_used : {99, 100, Null}, available_spare_percent : {100, 101, Null},
                temperature_celsius : {40, Null}]]

ASSUME NullAssumption ==
    /\ Null \notin Nat \cup BOOLEAN
                 \cup {"named", "nvme", "sata", "failure_prediction", "unknown"}
    /\ \A S \in SUBSET Numbers, x \in Extents : Null \notin {S, {x}}
    /\ Null \notin Seq(Numbers \cup Devices)
    /\ \A c \in DOMAIN Entry : Null \notin Seq(Entry[c])

VARIABLES
    trait,       \* what each device is like
    place,       \* the number each device has now
    changes,     \* how often a device was moved
    faults,      \* how many queries failed
    stage,       \* the collector that runs, then "gate", "rules", "done"
    todo,        \* what it has listed and not yet queried; Null before it lists
    out,         \* the snapshots it has taken
    said,        \* whether it has a message
    result,      \* what each collector returned
    errors,      \* what the gate found
    evaluations  \* what the rules say

pc == <<trait, place, changes>>
run == <<stage, todo, out, said>>
vars == <<pc, faults, run, result, errors, evaluations>>

Collectors == {"physical_disks", "partitions", "volumes", "smart"}
After == [physical_disks |-> "partitions", partitions |-> "volumes",
          volumes |-> "smart", smart |-> "gate"]
Rules == {"smart_failure_prediction", "nvme_critical_warning", "nvme_percentage_used",
          "volume_free_space"}

-----------------------------------------------------------------------------
(* The PC *)

Is(d, t) == t \in trait[d]
Connected == {d \in Devices : place[d] # Null}
Vacant(n) == \A d \in Devices : place[d] # n
Refuses(n) == \E d \in Devices : place[d] = n /\ Is(d, "locked")
Opens(n) == {d \in Devices : place[d] = n /\ ~Is(d, "locked")}
Capacity(d) == IF Is(d, "large") THEN 2 ELSE 1

Init ==
    /\ trait \in [Devices -> Traits]
    /\ place \in [Devices -> Numbers \cup {Null}]
    /\ \A d, e \in Devices : d # e /\ place[d] = place[e] => place[d] = Null
    /\ changes = 0 /\ faults = 0
    /\ stage = "physical_disks" /\ todo = Null /\ out = <<>> /\ said = FALSE
    /\ result = [c \in {} |-> Null]
    /\ errors = {}
    /\ evaluations = [r \in {} |-> Null]

\* A device is connected, removed, or gets another number.
Move(d, n) ==
    /\ stage \in Collectors
    /\ changes < MaxChanges
    /\ n # place[d] /\ (n = Null \/ Vacant(n))
    /\ place' = [place EXCEPT ![d] = n]
    /\ changes' = changes + 1
    /\ UNCHANGED <<trait, faults, run, result, errors, evaluations>>

Spend(n) ==
    /\ faults + n <= MaxFaults
    /\ faults' = faults + n

-----------------------------------------------------------------------------
(* What a collector does: list, query one after the other, return *)

\* enumerate_disk_numbers, sorted; the volumes FindFirstVolumeW finds, in any order.
List ==
    /\ stage \in Collectors
    /\ todo = Null
    /\ todo' \in IF stage = "volumes" THEN SetToSeqs(Connected)
                 ELSE {q \in SetToSeqs({place[d] : d \in Connected}) :
                         \A i, j \in DOMAIN q : i < j => q[i] < q[j]}
    /\ UNCHANGED <<pc, faults, stage, out, said, result, errors, evaluations>>

\* An answer, without the fields whose query failed.
Snapshot(answer, missing) ==
    [value |-> [f \in DOMAIN answer |-> IF f \in DOMAIN missing THEN Null ELSE answer[f]],
     missing |-> missing]

\* The next listed item is taken up.
Querying(c) == /\ stage = c /\ todo \notin {Null, <<>>}
               /\ todo' = Tail(todo)
               /\ UNCHANGED <<pc, stage, result, errors, evaluations>>
Silent == UNCHANGED <<faults, out, said>>
\* Say, were every disk that cannot be opened taken for a removed one.
SayNothing == UNCHANGED <<faults, out, said>>
Say == said' = TRUE /\ UNCHANGED <<faults, out>>
Take(snapshot) == out' = Append(out, snapshot) /\ UNCHANGED said

\* A disk that has gone is left out without a word.
QueryDisk ==
    /\ Querying("physical_disks")
    /\ LET n == Head(todo)
           fields == [descriptor |-> {"model", "bus_type"}, geometry |-> {"capacity_bytes"}]
       IN  \/ Vacant(n) /\ Silent
           \/ Refuses(n) /\ Say
           \/ \E d \in Opens(n), failed \in SUBSET DOMAIN fields,
                 model \in {"named", Null} :
                /\ Spend(Cardinality(failed) + (IF model = Null THEN 1 ELSE 0))
                /\ Take(Snapshot([number |-> n, model |-> model,
                                  bus_type |-> IF Is(d, "nvme") THEN "nvme" ELSE "sata",
                                  capacity_bytes |-> Capacity(d)],
                                 [f \in UNION {fields[q] : q \in failed} |-> "failed"]))

\* A disk that has gone is named in a message, as is one whose layout fails.
QueryPartition ==
    /\ Querying("partitions")
    /\ LET n == Head(todo)
       IN  \/ (Vacant(n) \/ Refuses(n)) /\ Say
           \/ Opens(n) # {} /\ said' = TRUE /\ Spend(1) /\ UNCHANGED out
           \/ \E d \in Opens(n) :
                /\ Spend(0)
                /\ Take(Snapshot([disk_number |-> n, end |-> Capacity(d), bootable |-> TRUE],
                                 [f \in IF Is(d, "mbr") THEN {} ELSE {"bootable"}
                                    |-> "not_applicable"]))

\* Four queries by the volume's name; all fail when the device has gone.
QueryVolume ==
    /\ Querying("volumes")
    /\ LET d == Head(todo)
           fields == [mount |-> {"mount_points"}, space |-> {"capacity_bytes", "free_bytes"},
                      extents |-> {"extents"}]
       IN  \E failed \in IF d \in Connected THEN SUBSET DOMAIN fields ELSE {DOMAIN fields} :
             /\ Spend(IF d \in Connected THEN Cardinality(failed) ELSE 0)
             /\ Take(Snapshot(
                  [mount_points |-> IF Is(d, "hidden") THEN {} ELSE {place[d]},
                   capacity_bytes |-> IF Is(d, "empty") THEN 0
                                      ELSE IF Is(d, "quota") THEN 3 ELSE 8,
                   free_bytes |-> IF Is(d, "full") \/ Is(d, "empty") THEN 0 ELSE 4,
                   extents |-> {[disk_number |-> place[d], end |-> Capacity(d)]}],
                  [f \in UNION {fields[q] : q \in failed} |-> "failed"]))

NvmeFields == {"critical_warning", "percentage_used", "available_spare_percent",
               "temperature_celsius"}

\* What a device tells by one of the two protocols, or nothing, and why.
Smart(n, d, protocol, missing) ==
    Snapshot([disk_number |-> n, protocol |-> protocol,
              predict_failure |-> Is(d, "failing"),
              critical_warning |-> IF Is(d, "failing") THEN 1 ELSE 0,
              percentage_used |-> IF Is(d, "failing") THEN 100 ELSE 99,
              available_spare_percent |-> IF Is(d, "spent") THEN 101 ELSE 100,
              temperature_celsius |-> 40], missing)
NvmeSnapshot(n, d, invalid) ==
    Smart(n, d, "nvme", [f \in {"predict_failure"} \cup invalid |->
                           IF f \in invalid THEN "invalid_value" ELSE "not_applicable"])
PredictionSnapshot(n, d) ==
    Smart(n, d, "failure_prediction", [f \in NvmeFields |-> "not_applicable"])
UnavailableSnapshot(n, status) ==
    Snapshot([disk_number |-> n, protocol |-> "unknown", predict_failure |-> Null,
              critical_warning |-> Null, percentage_used |-> Null,
              available_spare_percent |-> Null, temperature_celsius |-> Null],
             [f \in NvmeFields \cup {"predict_failure"} |-> status])

\* The NVMe log, else the failure prediction, else an entry without values;
\* a disk that cannot be opened has such an entry too.
QuerySmart ==
    /\ Querying("smart")
    /\ LET n == Head(todo)
       IN  \/ /\ Vacant(n) /\ Spend(0)
              /\ Take(UnavailableSnapshot(n, "failed"))
           \/ /\ Refuses(n) /\ Spend(0)
              /\ Take(UnavailableSnapshot(n, "permission_denied"))
           \/ \E d \in Opens(n), invalid \in SUBSET {"temperature_celsius"} :
                /\ Is(d, "nvme") /\ ~Is(d, "bridge") /\ Spend(Cardinality(invalid))
                /\ Take(NvmeSnapshot(n, d, invalid))
           \/ \E d \in Opens(n) :
                /\ ~Is(d, "bridge") /\ Spend(IF Is(d, "nvme") THEN 1 ELSE 0)
                /\ Take(PredictionSnapshot(n, d))
           \/ \E d \in Opens(n), status \in {"unsupported", "permission_denied", "failed"} :
                /\ Spend(IF Is(d, "bridge") /\ status = "unsupported" THEN 0 ELSE 1)
                /\ Take(UnavailableSnapshot(n, status))

Nulls(value) == {f \in DOMAIN value : value[f] = Null}

\* FieldResults, were a disk's fields found by its number.
FieldResultsByNumber(c) ==
    UNION {{[path |-> <<c, IF c = "physical_disks" THEN out[i].value.number + 1 ELSE i, f>>,
             status |-> "failed"] : f \in Nulls(out[i].value)} : i \in DOMAIN out}

\* Every null of a collector's values, with its reason.
FieldResults(c) ==
    UNION {{[path |-> <<c, i, f>>,
             status |-> IF f \in DOMAIN out[i].missing THEN out[i].missing[f] ELSE "source_null"]
              : f \in Nulls(out[i].value)} : i \in DOMAIN out}

Harmless(c, field) == c \in {"partitions", "smart"} /\ field.status = "not_applicable"

Returned(c, fields) ==
    [values |-> [i \in DOMAIN out |-> out[i].value], fields |-> fields, messages |-> said,
     status |-> IF ~said /\ \A f \in fields : Harmless(c, f) THEN "success" ELSE "partial"]

Finish(c, outcome) ==
    /\ result' = [x \in DOMAIN result \cup {c} |-> IF x = c THEN outcome ELSE result[x]]
    /\ stage' = After[c] /\ todo' = Null /\ out' = <<>> /\ said' = FALSE
    /\ UNCHANGED <<pc, errors, evaluations>>

Return ==
    /\ stage \in Collectors /\ todo = <<>>
    /\ Finish(stage, Returned(stage, FieldResults(stage)))
    /\ UNCHANGED faults

\* Lose, were a lost collector recorded as one that had nothing to do.
LoseAsSkipped ==
    /\ stage \in Collectors
    /\ Spend(1)
    /\ Finish(stage, [values |-> Null, fields |-> {}, messages |-> TRUE, status |-> "skipped"])

\* The enumeration fails, the worker breaks, or its time runs out.
Lose ==
    /\ stage \in Collectors
    /\ Spend(1)
    /\ Finish(stage, [values |-> Null, fields |-> {}, messages |-> TRUE, status |-> "failed"])

-----------------------------------------------------------------------------
(* The gate *)

Entries(c) == IF result[c].values = Null THEN <<>> ELSE result[c].values
EntrySet(c) == {Entries(c)[i] : i \in DOMAIN Entries(c)}

\* The JSON value at a path, if there is one.
Has(path) == path[2] \in DOMAIN Entries(path[1]) /\ path[3] \in DOMAIN Entries(path[1])[path[2]]
At(path) == Entries(path[1])[path[2]][path[3]]

Ranges == EntrySet("partitions") \cup
          UNION {v.extents : v \in {w \in EntrySet("volumes") : w.extents # Null}}

References == {r.disk_number : r \in Ranges \cup EntrySet("smart")}

RangeErrors ==
    LET disks == EntrySet("physical_disks")
    IN  IF result["physical_disks"].values = Null THEN {} ELSE
          {<<"reference", n>> : n \in References \ {k.number : k \in disks}} \cup
          {<<"range", r.disk_number>> : r \in {x \in Ranges : \E k \in disks :
              k.number = x.disk_number /\ k.capacity_bytes # Null /\ x.end > k.capacity_bytes}}

ValueErrors ==
    {<<"free", i>> : i \in {j \in DOMAIN Entries("volumes") : LET v == Entries("volumes")[j] IN
        v.free_bytes # Null /\ v.capacity_bytes # Null /\ v.free_bytes > v.capacity_bytes}} \cup
    {<<"spare", s.disk_number>> : s \in {t \in EntrySet("smart") :
        t.available_spare_percent # Null /\ t.available_spare_percent > 100}} \cup
    {<<"mount", n>> : n \in {m \in Numbers : \E i, j \in DOMAIN Entries("volumes") : i < j /\
        \A k \in {i, j} : LET p == Entries("volumes")[k].mount_points IN p # Null /\ m \in p}}

\* A collector's status and fields against its values.
StatusErrors(c) ==
    LET r == result[c]
        paths == {f.path : f \in r.fields}
    IN  IF r.status \in {"success", "partial"}
        THEN {<<"no_array", c>> : x \in {y \in {c} : r.values = Null}} \cup
             {<<"not_null", p>> : p \in {q \in paths : ~Has(q) \/ At(q) # Null}} \cup
             {<<"no_reason", p>> : p \in
                 (UNION {{<<c, i, f>> : f \in Nulls(Entries(c)[i])} : i \in DOMAIN Entries(c)}) \ paths} \cup
             {<<"no_success", c>> : x \in {y \in {c} : r.status = "success" /\
                 (r.messages \/ \E f \in r.fields : ~Harmless(c, f))}}
        ELSE {<<"no_null", c>> : x \in {y \in {c} : r.values # Null \/ ~r.messages}}

\* One error is enough: nothing is written.
Gate ==
    /\ stage = "gate"
    /\ errors' = RangeErrors \cup ValueErrors \cup UNION {StatusErrors(c) : c \in Collectors}
    /\ stage' = IF errors' = {} THEN "rules" ELSE "done"
    /\ UNCHANGED <<pc, faults, todo, out, said, result, evaluations>>

-----------------------------------------------------------------------------
(* The storage rules *)

Evaluation(status, evidence, reason) ==
    [status |-> status, severe |-> status = "triggered", evidence |-> evidence, reason |-> reason]
Unavailable(paths) == Evaluation("not_evaluated", {}, paths)
Inapplicable == Evaluation("not_applicable", {}, {<<"storage">>})
\* Verdict, were a missing value to come before a finding.
VerdictCautious(triggered, evidence, missing) ==
    Evaluation(IF missing # {} THEN "not_evaluated"
               ELSE IF triggered THEN "triggered" ELSE "passed", evidence, missing)
Verdict(triggered, evidence, missing) ==
    Evaluation(IF triggered THEN "triggered"
               ELSE IF missing # {} THEN "not_evaluated" ELSE "passed", evidence, missing)
Collected(path) == [path |-> path, value |-> At(path)]

\* SmartRule, were the entries numbered after the others are filtered out.
SmartRuleRenumbered(protocol, field, bad, absent) ==
    LET those == SelectSeq(Entries("smart"), LAMBDA s : s.protocol = protocol)
    IN  IF result["smart"].values = Null THEN Unavailable({<<"smart">>})
        ELSE IF those = <<>> THEN absent
        ELSE Verdict(\E i \in DOMAIN those : those[i][field] \in bad,
                     {[path |-> <<"smart", i, field>>, value |-> those[i][field]]
                        : i \in DOMAIN those}, {})

\* A rule on the disks that answered by one protocol: `absent' when there are none.
SmartRule(protocol, field, bad, absent) ==
    LET smart == Entries("smart")
        paths == {<<"smart", i, field>> : i \in {j \in DOMAIN smart : smart[j].protocol = protocol}}
        known == {p \in paths : At(p) # Null}
    IN  IF result["smart"].values = Null THEN Unavailable({<<"smart">>})
        ELSE IF paths = {} THEN absent
        ELSE Verdict(\E p \in known : At(p) \in bad, {Collected(p) : p \in known}, paths \ known)

PredictionAbsent ==
    IF \E s \in EntrySet("smart") : s.protocol = "unknown"
    THEN Unavailable({<<"smart">>}) ELSE Inapplicable

NvmeAbsent ==
    IF \E k \in EntrySet("physical_disks") : k.bus_type = "nvme"
    THEN Unavailable({<<"smart">>}) ELSE Inapplicable

Low(v) == 10 * v.free_bytes < v.capacity_bytes

Needed(i) == {<<"volumes", i, f>> : f \in {"capacity_bytes", "free_bytes"}}
Measurable(path) == At(path) # Null /\ (path[3] = "capacity_bytes" => At(path) > 0)

\* The volumes with a drive letter.
Lettered == {i \in DOMAIN Entries("volumes") : Entries("volumes")[i].mount_points \notin {Null, {}}}

\* MissingVolumes, were volumes with unknown drive letters passed over.
MissingLettered == {p \in UNION {Needed(i) : i \in Lettered} : ~Measurable(p)}

\* What keeps the volume rule from looking at all of them.
MissingVolumes ==
    {p \in UNION {Needed(i) : i \in Lettered} : ~Measurable(p)} \cup
    {<<"volumes", i, "mount_points">> :
        i \in {j \in DOMAIN Entries("volumes") : Entries("volumes")[j].mount_points = Null}}

VolumeRule ==
    LET whole == {i \in Lettered : \A p \in Needed(i) : Measurable(p)}
    IN  IF result["volumes"].values = Null THEN Unavailable({<<"volumes">>})
        ELSE IF whole # {}
             THEN Verdict(\E i \in whole : Low(Entries("volumes")[i]),
                          {Collected(p) : p \in UNION {Needed(i) : i \in whole}}, MissingVolumes)
        ELSE IF MissingVolumes # {} THEN Unavailable(MissingVolumes) ELSE Inapplicable

Evaluate ==
    /\ stage = "rules"
    /\ evaluations' =
         [smart_failure_prediction |->
             SmartRule("failure_prediction", "predict_failure", {TRUE}, PredictionAbsent),
          nvme_critical_warning |-> SmartRule("nvme", "critical_warning", {1}, NvmeAbsent),
          nvme_percentage_used |-> SmartRule("nvme", "percentage_used", {100}, NvmeAbsent),
          volume_free_space |-> VolumeRule]
    /\ stage' = "done"
    /\ UNCHANGED <<pc, faults, todo, out, said, result, errors>>

\* What loading a diagnosis asks of each evaluation (validate_against).
Valid(evaluation) ==
    /\ evaluation.severe <=> evaluation.status = "triggered"
    /\ evaluation.status = "not_evaluated" => evaluation.reason # {}
    /\ \A e \in evaluation.evidence : Has(e.path) /\ At(e.path) # Null /\ At(e.path) = e.value

Next ==
    \/ \E d \in Devices, n \in Numbers \cup {Null} : Move(d, n)
    \/ List
    \/ QueryDisk
    \/ QueryPartition
    \/ QueryVolume
    \/ QuerySmart
    \/ Return
    \/ Lose
    \/ Gate
    \/ Evaluate

Spec == Init /\ [][Next]_vars
-----------------------------------------------------------------------------
(* Properties *)

TypeOK ==
    /\ trait \in [Devices -> Traits]
    /\ place \in [Devices -> Numbers \cup {Null}]
    /\ changes \in 0 .. MaxChanges /\ faults \in 0 .. MaxFaults
    /\ stage \in Collectors \cup {"gate", "rules", "done"}
    /\ todo = Null \/ todo \in Seq(IF stage = "volumes" THEN Devices ELSE Numbers)
    /\ out # <<>> => stage \in Collectors
    /\ \A i \in DOMAIN out : out[i].value \in Entry[stage]
    /\ said \in BOOLEAN
    /\ DOMAIN result \subseteq Collectors
    /\ \A c \in DOMAIN result :
         /\ result[c].status \in {"success", "partial", "failed"}
         /\ result[c].values \in {Null} \cup Seq(Entry[c])
    /\ DOMAIN evaluations \in {{}, Rules}

Undisturbed == changes = 0
Written == stage = "done" /\ errors = {}

\* The four collectors never see one another, and the gate refuses the whole
\* collection for one error (bundle.rs:58).  On a PC nobody touches, each error
\* is explained by a device: a reference by one that may not be opened, a free
\* space by a quota, a spare by what the device said.  Statuses, nulls and their
\* paths always agree, whatever fails and whatever is moved.
ExplainedRefusal ==
    \A e \in errors :
        /\ e[1] = "reference" => ~Undisturbed \/ \E d \in Connected : place[d] = e[2] /\ Is(d, "locked")
        /\ e[1] = "free" => \E d \in Devices : Is(d, "quota")
        /\ e[1] = "spare" => \E d \in Devices : Is(d, "spent")
        /\ e[1] \in {"range", "mount"} => ~Undisturbed
        /\ e[1] \notin {"no_array", "not_null", "no_reason", "no_success", "no_null"}

\* "success" promises that nothing is missing: on a PC nobody touches, every
\* connected device has its entry, and every disk answered by some protocol.
SuccessIsComplete ==
    \A c \in DOMAIN result : Undisturbed /\ result[c].status = "success" =>
        LET numbers == {place[d] : d \in Connected}
        IN  CASE c = "physical_disks" -> numbers = {k.number : k \in EntrySet(c)}
              [] c = "partitions" -> numbers = {k.disk_number : k \in EntrySet(c)}
              [] c = "volumes" -> Len(result[c].values) = Cardinality(Connected)
              [] c = "smart" -> /\ numbers = {k.disk_number : k \in EntrySet(c)}
                                /\ \A k \in EntrySet(c) : k.protocol # "unknown"

\* What the rules say of a collection passes the check that loading the
\* diagnosis makes: the evidence points to the values it was taken from, although
\* each rule looks only at some of the entries.
DiagnosisAccepted == Written => \A r \in Rules : Valid(evaluations[r])

\* A defect a device has reported is a finding, whatever other devices, queries
\* and collectors have failed (docs/diagnostic-data-model.md:1183).
FaultReported ==
    Written /\ Undisturbed => \A d \in Connected :
        /\ Is(d, "failing") => \A s \in EntrySet("smart") : s.disk_number = place[d] =>
             /\ s.protocol = "failure_prediction" =>
                   evaluations["smart_failure_prediction"].status = "triggered"
             /\ s.protocol = "nvme" =>
                   /\ evaluations["nvme_critical_warning"].status = "triggered"
                   /\ evaluations["nvme_percentage_used"].status = "triggered"
        /\ Is(d, "full") => \A v \in EntrySet("volumes") :
             v.mount_points = {place[d]} /\ v.capacity_bytes \notin {Null, 0} =>
                   evaluations["volume_free_space"].status = "triggered"

\* "passed" is said of the volumes only when every volume with a drive letter was
\* measured: a failed query never hides a full or unmeasurable one.
PassIsEarned ==
    Written /\ Undisturbed /\ evaluations["volume_free_space"].status = "passed" =>
        \A d \in Connected : Is(d, "hidden") \/ ~(Is(d, "full") \/ Is(d, "empty"))

\* docs/diagnostic-data-model.md:1166: when a disk refuses, its SMART entry says
\* permission_denied and the rest of the collection goes on.  It does not: the
\* disk is missing from the disks, and the gate refuses the reference to it.
DeniedDiskIsKept == Undisturbed => ~\E e \in errors : e[1] = "reference"

\* docs/diagnostic-data-model.md:1183: not_applicable when there is no such disk,
\* not_evaluated when its values could not be read.
AbsentMeansAbsent ==
    Written /\ Undisturbed /\ evaluations["nvme_critical_warning"].status = "not_applicable" =>
        \A d \in Connected : ~Is(d, "nvme")
=============================================================================
