---------------------------- MODULE SectionRules ----------------------------
(***************************************************************************)
(* The built-in rules on memory, graphics adapters, devices and event logs *)
(* (core/rules.rs), the summary of a diagnosis, and the check of a         *)
(* diagnosis against its collection (validate_against, core/validation.rs).*)
(* `values' are those of one section, by path.                             *)
(***************************************************************************)
EXTENDS SystemFacts, Histories, Hardware

\* An evaluation: what a rule says, on which evidence, and why it says no more.
Evaluation(rule, status, severity, evidence, reason) ==
    [rule |-> rule, status |-> status, severity |-> severity, evidence |-> evidence,
     reason |-> reason, count |-> 0]
NotEvaluated(rule, evidence, reason) == Evaluation(rule, "not_evaluated", Null, evidence, reason)
Inapplicable(rule, path) == Evaluation(rule, "not_applicable", Null, {}, {path})
Judged(rule, triggered, severity, evidence, reason) ==
    IF triggered THEN Evaluation(rule, "triggered", severity, evidence, reason)
    ELSE Evaluation(rule, "passed", Null, evidence, reason)

Collected(values, paths) == {[path |-> p, value |-> values[p]] : p \in paths}

-----------------------------------------------------------------------------
(* Memory *)

\* Less than a tenth of the memory is free.  No ratio is taken of nothing.
MemoryRule(values) ==
    LET rule == <<"memory", "available_ratio">>
        paths == {"total", "available"}
        missing == {p \in paths : values[p] = Null}
    IN  CASE missing # {} -> NotEvaluated(rule, {}, missing)
          [] missing = {} /\ values["total"] = 0 ->
                NotEvaluated(rule, Collected(values, {"total"}), {"total"})
          [] OTHER -> Judged(rule, 10 * values["available"] < values["total"], "warning",
                             Collected(values, paths), {})

-----------------------------------------------------------------------------
(* Graphics adapters *)

GpuRules == <<"device_problem", "adapter_started", "driver_version_available",
              "device_instance_id_unique">>

\* The adapters that are hardware, under their place among all.
HardwareGpus(values) == {i \in Entries(values) : values[<<i, "type">>] = "hardware"}

\* GpuValueRule, were one missing value enough to say nothing.
GpuValueRuleCautious(values, rule, field, good, severity) ==
    LET paths == HardwareGpus(values) \X {field}
        missing == {p \in paths : values[p] = Null}
    IN  IF missing # {} THEN NotEvaluated(rule, {}, missing)
        ELSE Judged(rule, \E p \in paths : values[p] # good, severity, Collected(values, paths), {})

\* GpuValueRule, were the values that could be read enough for a pass.
GpuValueRuleHasty(values, rule, field, good, severity) ==
    LET paths == HardwareGpus(values) \X {field}
        missing == {p \in paths : values[p] = Null}
        bad == {p \in paths \ missing : values[p] # good}
    IN  IF missing = paths THEN NotEvaluated(rule, {}, missing)
        ELSE Judged(rule, bad # {}, severity, Collected(values, paths \ missing), missing)

\* A value of each adapter that is to be `good'.  A finding comes before what is missing.
GpuValueRule(values, rule, field, good, severity) ==
    LET paths == HardwareGpus(values) \X {field}
        missing == {p \in paths : values[p] = Null}
        bad == {p \in paths \ missing : values[p] # good}
    IN  IF bad = {} /\ missing # {} THEN NotEvaluated(rule, {}, missing)
        ELSE Judged(rule, bad # {}, severity, Collected(values, paths \ missing), missing)

\* A missing driver version is the finding.
GpuDriverRule(values, rule) ==
    LET paths == HardwareGpus(values) \X {"driver"}
        missing == {p \in paths : values[p] = Null}
    IN  Judged(rule, missing # {}, "warning", Collected(values, paths \ missing), missing)

\* The evidence is the duplicates, if there are any.
GpuUniqueRule(values, rule) ==
    LET paths == HardwareGpus(values) \X {"instance"}
        missing == {p \in paths : values[p] = Null}
        twins == {p \in paths \ missing : \E q \in paths \ {p} : values[q] = values[p]}
    IN  IF twins = {} /\ missing # {}
        THEN NotEvaluated(rule, Collected(values, paths \ missing), missing)
        ELSE Judged(rule, twins # {}, "warning",
                    Collected(values, IF twins # {} THEN twins ELSE paths \ missing), missing)

EvaluateGpus(values) ==
    [n \in DOMAIN GpuRules |->
       LET rule == <<"gpu", GpuRules[n]>>
       IN  CASE values[<<0, "gpus">>] = Null -> NotEvaluated(rule, {}, {<<0, "gpus">>})
             [] values[<<0, "gpus">>] # Null /\ HardwareGpus(values) = {} ->
                   Inapplicable(rule, <<0, "gpus">>)
             [] OTHER ->
                   CASE n = 1 -> GpuValueRule(values, rule, "problem", 0, "error")
                     [] n = 2 -> GpuValueRule(values, rule, "started", TRUE, "warning")
                     [] n = 3 -> GpuDriverRule(values, rule)
                     [] n = 4 -> GpuUniqueRule(values, rule)]

-----------------------------------------------------------------------------
(* Devices *)

\* All that is wrong is that somebody has disabled something.
DisabledOnly(codes) == codes = {22}

\* The problem codes of the devices that are present.
DeviceRule(values) ==
    LET rule == <<"device", "device_problem">>
        present == {i \in Entries(values) : values[<<i, "present">>] = TRUE}
        paths == present \X {"problem"}
        missing == {p \in paths : values[p] = Null}
        codes == {values[p] : p \in paths \ missing} \ {0}
        evidence == Collected(values, paths \ missing)
    IN  CASE values[<<0, "devices">>] = Null -> NotEvaluated(rule, {}, {<<0, "devices">>})
          [] values[<<0, "devices">>] # Null /\ present = {} -> Inapplicable(rule, <<0, "devices">>)
          [] present # {} /\ codes = {} /\ missing # {} -> NotEvaluated(rule, evidence, missing)
          [] OTHER -> Judged(rule, codes # {}, IF DisabledOnly(codes) THEN "warning" ELSE "error",
                             evidence, missing)

-----------------------------------------------------------------------------
(* Event logs *)

KindOf(event) ==
    CASE event.log = "system" /\ event.id \in {41, 6008} -> "unexpected_shutdown"
      [] event.log = "system" /\ event.id \in {7, 11, 51, 55, 129, 153} -> "storage_io_failure"
      [] event.log = "system" /\ event.id \in {7000, 7001, 7009, 7011, 7023, 7024, 7031, 7034} ->
            "service_failure"
      [] event.log = "application" /\ event.id \in 1000 .. 1002 -> "application_failure"
      [] event.log = "security" /\ event.id = 1102 -> "audit_log_cleared"
      [] event.log = "security" /\ event.id = 4625 -> "failed_logon"
      [] event.log = "security" /\ event.id = 4719 -> "audit_policy_changed"
      [] OTHER -> Null

ASSUME KindsAssumption ==
    Null \notin {"unexpected_shutdown", "storage_io_failure", "service_failure",
                 "application_failure", "audit_log_cleared", "failed_logon", "audit_policy_changed"}

KindSeverity(kind) ==
    CASE kind \in {"unexpected_shutdown", "audit_log_cleared"} -> "critical"
      [] kind = "failed_logon" -> "warning"
      [] OTHER -> "error"

\* DaysSinceEpoch, were January and February counted into the year they begin.
DaysSinceEpochOwnYear(t) ==
    LET month == t.month + (IF t.month > 2 THEN -3 ELSE 9)
        of == t.year % 400
    IN  (t.year \div 400) * 146097 + of * 365 + of \div 4 - of \div 100 +
        (153 * month + 2) \div 5 + t.day - 1 - 719468

\* The days of the Gregorian calendar, counted in years that begin in March.
DaysSinceEpoch(t) ==
    LET year == t.year - (IF t.month <= 2 THEN 1 ELSE 0)
        month == t.month + (IF t.month > 2 THEN -3 ELSE 9)
        of == year % 400
    IN  (year \div 400) * 146097 + of * 365 + of \div 4 - of \div 100 +
        (153 * month + 2) \div 5 + t.day - 1 - 719468

\* Whole minutes: the model's clock does not tell seconds.
UtcMinutes(t) == DaysSinceEpoch(t) * 1440 + t.minute

Distance(a, b) == IF UtcMinutes(a) < UtcMinutes(b) THEN UtcMinutes(b) - UtcMinutes(a)
                  ELSE UtcMinutes(a) - UtcMinutes(b)

\* The records 6008 that a record 41 uses up, one after the other in the order of the
\* log: the nearest free one within a minute, the first of several.
Paired(events) ==
    LET Closest(e, free) ==
            LET near == {j \in free : Distance(events[j].time, e.time) <= 1}
            IN  {j \in near : \A k \in near :
                    LET d(x) == Distance(events[x].time, e.time)
                    IN  d(j) < d(k) \/ (d(j) = d(k) /\ j <= k)}
        late == {j \in DOMAIN events : events[j].id = 6008}
    IN  FoldLeft(LAMBDA used, e : IF e.id = 41 THEN used \cup Closest(e, late \ used) ELSE used,
                 {}, events)

\* A 41 and a 6008 of the same moment are one shutdown.
ShutdownCount(events) == Len(events) - Cardinality(Paired(events))

Newer(a, b) == UtcMinutes(a.time) >= UtcMinutes(b.time)

\* All records of a kind in one evaluation, which shows the latest of them.
KindEvaluation(values, log, kind) ==
    LET those == {i \in DOMAIN values[log] : KindOf(values[log][i]) = kind}
        latest == CHOOSE i \in those : \A j \in those :
                     /\ Newer(values[log][i], values[log][j])
                     /\ Newer(values[log][j], values[log][i]) => j <= i
        records == EntriesAt(values[log], those)
    IN  [Judged(<<log, kind>>, TRUE, KindSeverity(kind),
                {[path |-> <<log, latest>>, value |-> values[log][latest]]}, {})
           EXCEPT !.count = IF kind = "unexpected_shutdown" THEN ShutdownCount(records)
                            ELSE Len(records)]

\* A log that could not be read is a finding of its own.
EvaluateEventLogs(values) ==
    LET read == {l \in Logs : values[l] # Null}
        found == {<<p[1], KindOf(p[2])>> : p \in UNION {{l} \X ToSet(values[l]) : l \in read}}
    IN  SetToSeq({Judged(<<l, "availability">>, TRUE, "warning", {}, {}) : l \in Logs \ read})
        \o SetToSeq({KindEvaluation(values, f[1], f[2]) : f \in {x \in found : x[2] # Null}})

-----------------------------------------------------------------------------
(* The diagnosis *)

\* diagnose_collection, for the section at hand.
Diagnose(section, values) ==
    CASE section = "memory" -> <<MemoryRule(values)>>
      [] section = "gpus" -> EvaluateGpus(values)
      [] section = "devices" -> <<DeviceRule(values)>>
      [] section = "event_logs" -> EvaluateEventLogs(values)
      [] OTHER -> <<>>

\* BUILTIN_RULE_IDS, of these sections; anything else panics.
Catalogue ==
    {<<"memory", "available_ratio">>, <<"device", "device_problem">>} \cup
    {<<"gpu", r>> : r \in ToSet(GpuRules)} \cup
    (Logs \X {"availability"}) \cup
    ({"system"} \X {"unexpected_shutdown", "storage_io_failure", "service_failure"}) \cup
    {<<"application", "application_failure">>} \cup
    ({"security"} \X {"audit_log_cleared", "failed_logon", "audit_policy_changed"})

Ranks == <<"warning", "error", "critical">>
Rank(severity) == CHOOSE n \in DOMAIN Ranks : Ranks[n] = severity

\* Worse, were the last finding taken for the worst.
WorseLast(severity, overall) == TRUE

\* A severity outdoes those so far.
Worse(severity, overall) == overall = Null \/ Rank(severity) > Rank(overall)

\* One pass over the evaluations.
Summarize(evaluations) ==
    LET counts == [c \in {"passed", "triggered", "not_applicable", "not_evaluated"} \cup ToSet(Ranks) |-> 0]
        Add(s, e) ==
            [overall |-> IF e.severity # Null /\ Worse(e.severity, s.overall) THEN e.severity
                         ELSE s.overall,
             counts |-> [c \in DOMAIN s.counts |->
                           IF c \in {e.status, e.severity} THEN s.counts[c] + 1 ELSE s.counts[c]]]
    IN  FoldLeft(Add, [overall |-> Null, counts |-> counts], evaluations)

\* collection_value: what the collection holds at a path.
Holds(section, values, e) ==
    IF section = "event_logs"
    THEN /\ e.path[1] \in Logs /\ values[e.path[1]] # Null
         /\ e.path[2] \in DOMAIN values[e.path[1]] /\ values[e.path[1]][e.path[2]] = e.value
    ELSE e.path \in DOMAIN values /\ values[e.path] # Null /\ values[e.path] = e.value

\* validate_against: every rule once, a severity for each finding, a reason for each
\* silence, evidence that is in the collection, and a summary that adds up.
Accepted(section, values, evaluations, summary) ==
    LET having(P(_)) == Cardinality({n \in DOMAIN evaluations : P(evaluations[n])})
    IN  /\ \A n, k \in DOMAIN evaluations : evaluations[n].rule = evaluations[k].rule => n = k
        /\ \A n \in DOMAIN evaluations : LET e == evaluations[n] IN
             /\ e.status = "triggered" <=> e.severity # Null
             /\ e.status = "not_evaluated" => e.reason # {}
             /\ \A evidence \in e.evidence : Holds(section, values, evidence)
        /\ \A c \in DOMAIN summary.counts :
             summary.counts[c] = having(LAMBDA e : c \in {e.status, e.severity})
        /\ summary.overall = Null <=> having(LAMBDA e : e.severity # Null) = 0
        /\ \A n \in DOMAIN evaluations : evaluations[n].severity # Null =>
             Rank(evaluations[n].severity) <= Rank(summary.overall)
=============================================================================
