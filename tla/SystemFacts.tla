---------------------------- MODULE SystemFacts ----------------------------
(***************************************************************************)
(* The collectors whose answer has a fixed shape: windows_info.rs,         *)
(* clock.rs, firmware.rs, memory.rs and windows_security.rs of             *)
(* pcdiag-windows, and what the gate asks of each of them.  An operator    *)
(* ...Answers is the set of answers Windows may give to one query.         *)
(***************************************************************************)
EXTENDS Answers

CONSTANTS
    Word,        \* the first number that 64 bits cannot hold, scaled down
    Providers,   \* the areas whose health the Security Center knows
    Details      \* what the security script reads besides

ASSUME SystemFactsAssumption ==
    /\ Word \in Nat \ {0}
    /\ Providers # {}
    /\ IsFiniteSet(Providers) /\ IsFiniteSet(Details) /\ Providers \cap Details = {}
    /\ {"configured", "running", "device_guard", "details"} \cap (Providers \cup Details) = {}

Or(answer, missed) == {answer, missed}

-----------------------------------------------------------------------------
(* Windows *)

WindowsQueries == <<"version", "architecture", "uptime", "boot_mode">>

\* The edition has a query of its own, which may fail alone.
EditionAnswers == {GotAll({"edition"}), Missed({"edition"}, "failed", "edition")}

VersionAnswers ==
    {Join(GotAll({"version", "build_number"}), edition) : edition \in EditionAnswers} \cup
    {Missed({"edition", "version", "build_number"}, "failed", "version")}

ArchitectureAnswers == {GotAll({"architecture"})}

\* A clock that says less than the time since the start is no clock.
UptimeAnswers(early) ==
    Or(IF early THEN Missed({"booted_at", "uptime_ms"}, "failed", "boot_time_invalid")
       ELSE GotAll({"booted_at", "uptime_ms"}),
       Missed({"booted_at", "uptime_ms"}, "failed", "uptime"))

BootModeAnswers == Or(GotAll({"boot_mode"}), Missed({"boot_mode"}, "failed", "boot_mode"))

\* By the number of missing fields; all seven missing need no reasons of their own.
WindowsResult(answer) ==
    CASE DOMAIN answer.reasons = {} -> Result("success", answer)
      [] DOMAIN answer.reasons = DOMAIN answer.values -> Unreasoned(Result("failed", answer))
      [] OTHER -> Result("partial", answer)

WindowsErrors(r) == StatusErrors(r)

-----------------------------------------------------------------------------
(* Clock *)

ClockQueries == <<"hardware_clock", "system_time", "utc_offset", "time_service">>

HardwareClockAnswers == {Unsaid({"hardware_clock"}, "unsupported")}
SystemTimeAnswers ==
    Or(GotAll({"system_time_utc"}), Missed({"system_time_utc"}, "failed", "system_time"))
TimeServiceAnswers ==
    Or(GotAll({"windows_time_service"}), Missed({"windows_time_service"}, "failed", "service"))

\* Offset, were it not made to fit.
OffsetAny(bias) == -bias

\* The bias in minutes, negated, if 16 bits hold it.
Int16 == -32768 .. 32767
Offset(bias) == IF -bias \in Int16 THEN -bias ELSE Null

UtcOffsetAnswers(bias) ==
    Or(IF Offset(bias) # Null THEN Got([utc_offset_minutes |-> Offset(bias)])
       ELSE Missed({"utc_offset_minutes"}, "invalid_value", "offset_invalid"),
       Missed({"utc_offset_minutes"}, "failed", "time_zone"))

\* Never a success: the hardware clock cannot be read.
ClockResult(answer) ==
    IF DOMAIN answer.reasons = DOMAIN answer.values THEN Unreasoned(Result("failed", answer))
    ELSE Result("partial", answer)

\* No time zone is more than a day away from UTC.
OffsetErrors(r) ==
    {<<"offset", o>> : o \in {r.values["utc_offset_minutes"]} \ ({Null} \cup (-1440 .. 1440))}

ClockErrors(r) == StatusErrors(r) \cup OffsetErrors(r)

-----------------------------------------------------------------------------
(* Firmware *)

FirmwareQueries == <<"vendor", "version", "release_date", "interface_type",
                     "secure_boot_enabled", "status">>

DaysInMonth(year, month) ==
    LET leap == year % 400 = 0 \/ (year % 4 = 0 /\ year % 100 # 0)
    IN  CASE month \in {4, 6, 9, 11} -> 30
          [] month = 2 -> IF leap THEN 29 ELSE 28
          [] OTHER -> 31

IsDay(d) == /\ d.year > 0 /\ d.month \in 1 .. 12
            /\ d.day > 0 /\ d.day <= DaysInMonth(d.year, d.month)

\* The date a text of three numbers says; Null for any other text.
NormalizeDate(text) == IF text # Null /\ IsDay(text) THEN text ELSE Null

\* The gate wants ten characters: a year of four digits.
IsIsoDate(d) == d.year <= 9999 /\ IsDay(d)

\* A registry text: a missing or blank one is no failure.
TextAnswers(path, value) ==
    {Got([p \in {path} |-> value]), Unsaid({path}, "source_null"), Missed({path}, "failed", path)}

ReleaseDateAnswers(text) ==
    {IF NormalizeDate(text) = Null
     THEN Missed({"release_date"}, "invalid_value", "release_date_invalid")
     ELSE Got([release_date |-> NormalizeDate(text)]),
     Unsaid({"release_date"}, "source_null"),
     Missed({"release_date"}, "failed", "release_date")}

InterfaceAnswers(type) ==
    Or(Got([interface_type |-> type]), Missed({"interface_type"}, "failed", "interface_type"))

\* Secure Boot is asked about on UEFI only, as far as that is known.
SecureBootAnswers(type) ==
    CASE type = "uefi" -> TextAnswers("secure_boot_enabled", Known)
      [] type = "bios" -> {Unsaid({"secure_boot_enabled"}, "not_applicable")}
      [] type = "unknown" -> {Unsaid({"secure_boot_enabled"}, "unsupported")}
      [] type = Null -> {Unsaid({"secure_boot_enabled"}, "not_collected")}

FirmwareStatusAnswers == {Unsaid({"status"}, "unsupported")}

\* `status' is always null, so this is never a success.
FirmwareResult(answer) ==
    IF Nulls(answer.values) = DOMAIN answer.values THEN Unreasoned(Result("failed", answer))
    ELSE Result("partial", answer)

\* A date is a day, and a BIOS has no Secure Boot.
FirmwareValueErrors(r) ==
    {<<"date", d>> : d \in {x \in {r.values["release_date"]} \ {Null} : ~IsIsoDate(x)}} \cup
    {<<"bios", v>> : v \in {x \in {r.values["secure_boot_enabled"]} \ {Null} :
                              r.values["interface_type"] = "bios"}}

FirmwareErrors(r) == StatusErrors(r) \cup FirmwareValueErrors(r)

-----------------------------------------------------------------------------
(* Memory *)

MemoryQueries == <<"global", "performance">>

GlobalFields == {"total", "available", "load", "virtual_total", "virtual_available"}

GlobalMemoryAnswers(m) ==
    Or(Got([total |-> m.total, available |-> m.available, load |-> Known,
            virtual_total |-> m.total, virtual_available |-> m.available]),
       Missed(GlobalFields, "failed", "global"))

\* Checked arithmetic: pages in use beyond the limit, or a product too large.
CommitMemory(m) ==
    IF m.limit_pages * m.page_size >= Word \/ m.limit_pages < m.total_pages
    THEN Missed({"limit", "commit_available"}, "invalid_value", "performance_invalid")
    ELSE Got([limit |-> m.limit_pages * m.page_size,
              commit_available |-> (m.limit_pages - m.total_pages) * m.page_size])

PerformanceAnswers(m) ==
    Or(CommitMemory(m), Missed({"limit", "commit_available"}, "failed", "performance"))

MemoryResult(answer) ==
    CASE DOMAIN answer.reasons = {} -> Result("success", answer)
      [] DOMAIN answer.reasons = DOMAIN answer.values -> Unreasoned(Result("failed", answer))
      [] OTHER -> Result("partial", answer)

Exceeds(values, available, total) ==
    values[available] # Null /\ values[total] # Null /\ values[available] > values[total]

MemoryValueErrors(r) ==
    {<<"exceeds", pair[1]>> : pair \in {x \in {<<"available", "total">>,
        <<"commit_available", "limit">>, <<"virtual_available", "virtual_total">>} :
            Exceeds(r.values, x[1], x[2])}}

\* Success is not asked to be silent, only to be complete.
MemoryErrors(r) ==
    (CASE r.status = "success" -> {<<"not_success", p>> : p \in Nulls(r.values) \cup DOMAIN r.fields}
       [] r.status = "partial" -> FieldErrors(r, Nulls(r.values))
       [] r.status = "failed" -> FailureErrors(r)) \cup MemoryValueErrors(r)

-----------------------------------------------------------------------------
(* Windows Security *)

GuardFields == {"configured", "running"}
HealthFields == Providers \cup GuardFields

SecurityQueries == SetToSeq(Providers) \o <<"device_guard">> \o <<"details">>

\* decode_health: S_FALSE is a service that does not run, not a health.
HealthAnswers(p) ==
    {GotAll({p}), Answer([x \in {p} |-> "not_monitored"], <<>>, {"wsc_not_monitored"})} \cup
    {Missed({p}, status, "health") : status \in {"not_collected", "failed"}}

\* memory_integrity_present: the numbers of the services, if there are any; 0 says
\* that there is none, and cannot stand beside another.
PresentIn(f, services) ==
    CASE services = {} -> Missed({f}, "source_null", "property")
      [] 0 \in services /\ services # {0} -> Missed({f}, "invalid_value", "services")
      [] OTHER -> Got([x \in {f} |-> 2 \in services])

\* Both properties fail with the script; else each speaks for itself.
DeviceGuardAnswers(guard) ==
    Or(Join(PresentIn("configured", guard.configured), PresentIn("running", guard.running)),
       Missed(GuardFields, "failed", "device_guard"))

\* Read-Group: a detail is read, or is no text to keep, or was not reached when its group
\* failed, which any of the group may be: nothing orders the keys of a group.
GroupAnswers ==
    {Answer([d \in Details |-> IF how[d] = "read" THEN Known ELSE Null],
            [d \in {x \in Details : how[x] # "read"} |-> how[d]], {})
       : how \in [Details -> {"read", "invalid_value", "failed"}]}

\* apply_details: the script fails as a whole, or each group answers.  There is no
\* message either way.
DetailAnswers == {Unsaid(Details, "failed")} \cup GroupAnswers

\* SecurityResult, were it not judged again after the details.
SecurityResultEarly(answer) ==
    LET missed == DOMAIN answer.reasons \cap HealthFields
    IN  Result(IF missed = {} THEN "success" ELSE IF missed = HealthFields THEN "failed"
               ELSE "partial", answer)

\* Judged by the number of missing fields, once the details are in; the reasons stay.
SecurityResult(answer) ==
    LET missing == Cardinality(DOMAIN answer.reasons)
    IN  Result(CASE missing = 0 -> "success"
                 [] missing = Cardinality(HealthFields \cup Details) -> "failed"
                 [] OTHER -> "partial", answer)

\* The details may be missing altogether, as they are when the worker is lost.
SecurityErrors(r) ==
    LET nulls == Nulls(r.values)
    IN  {<<"no_detail", d>> : d \in {x \in Details : DOMAIN r.values \cap Details # {} /\
                                                     x \notin DOMAIN r.values}} \cup
        (CASE r.status = "success" ->
                {<<"not_success", p>> : p \in nulls} \cup SuccessErrors(r, {"wsc_not_monitored"})
           [] r.status = "partial" ->
                {<<"not_partial", n>> : n \in {Cardinality(nulls)} \cap {0, Cardinality(DOMAIN r.values)}}
           [] r.status = "failed" -> FailureErrors(r)) \cup
        (IF r.status = "partial" \/ DOMAIN r.fields # {} THEN FieldErrors(r, nulls) ELSE {})
=============================================================================
