---------------------------- MODULE SectionsProofs ----------------------------
(***************************************************************************)
(* Four of the collectors with a fixed set of fields, windows_info.rs,     *)
(* clock.rs, firmware.rs and memory.rs, and the gate: whatever Windows     *)
(* answers, whichever queries fail and wherever the worker is lost, the    *)
(* gate refuses nothing but an offset beyond a day and a year of five      *)
(* digits.                                                                 *)
(***************************************************************************)
EXTENDS Sections, TLAPS

Fixed == {"windows", "clock", "firmware", "memory"}

\* A time zone more than a day away.
Away(bias) == bias \notin -1440 .. 1440

\* An event with a blank text.
Blank(e) == e.text = ""

\* The refusals that ExplainedRefusal allows, in a section s of a PC p, where a was seen.
Explains(e, s, p, a) ==
    \/ e[1] = "offset" /\ Away(p.bias)
    \/ e[1] = "date" /\ p.date.year > 9999
    \/ e[1] = "event" /\ \E n \in DOMAIN p[e[2]] : Blank(p[e[2]][n])
    \/ e[1] = "no_reason" /\ s = "gpus" /\ e[2][2] = "name" /\ ~a.adapters[e[2][1]].named
    \/ e[1] = "twin" /\ s = "gpus" /\ Mistaken(a.adapters, p.cards)

\* Nulls and reasons go together.
Balanced(a) == DOMAIN a.reasons = Nulls(a.values)

\* Each missing value is worth a message, and nothing else is.
Voiced(a) == a.said = {} <=> DOMAIN a.reasons = {}

\* A whole answer to a query about these paths.
Covers(a, paths) == Balanced(a) /\ DOMAIN a.values = paths

(***************************************************************************)
(* The inductive invariant, section by section: what has been answered     *)
(* when a question is next.                                                *)
(***************************************************************************)

WindowsAsked ==
    \/ todo = WindowsQueries /\ Covers(answer, {})
    \/ /\ todo = <<"architecture", "uptime", "boot_mode">>
       /\ Covers(answer, {"edition", "version", "build_number"})
    \/ /\ todo = <<"uptime", "boot_mode">>
       /\ Covers(answer, {"edition", "version", "build_number", "architecture"})
    \/ /\ todo = <<"boot_mode">>
       /\ Covers(answer, {"edition", "version", "build_number", "architecture",
                          "booted_at", "uptime_ms"})
    \/ /\ todo = <<>>
       /\ Covers(answer, {"edition", "version", "build_number", "architecture",
                          "booted_at", "uptime_ms", "boot_mode"})

WindowsOK == section = "windows" => WindowsAsked /\ Voiced(answer)

ClockAsked ==
    \/ todo = ClockQueries /\ Covers(answer, {})
    \/ /\ todo = <<"system_time", "utc_offset", "time_service">>
       /\ Covers(answer, {"hardware_clock"})
    \/ /\ todo = <<"utc_offset", "time_service">>
       /\ Covers(answer, {"hardware_clock", "system_time_utc"})
    \/ /\ todo = <<"time_service">>
       /\ Covers(answer, {"hardware_clock", "system_time_utc", "utc_offset_minutes"})
    \/ /\ todo = <<>>
       /\ Covers(answer, {"hardware_clock", "system_time_utc", "utc_offset_minutes",
                          "windows_time_service"})

\* The hardware clock is missing without a word; the offset is that of the PC.
ClockSays(a, bias) ==
    /\ "system_time_utc" \in DOMAIN a.reasons => a.said # {}
    /\ "utc_offset_minutes" \in DOMAIN a.values =>
          a.values["utc_offset_minutes"] \in {Null, -bias}

ClockKept == ClockSays(answer, pc.bias)

ClockOK == section = "clock" => pc.bias \in Int /\ ClockAsked /\ ClockKept

FirmwareAsked ==
    \/ todo = FirmwareQueries /\ Covers(answer, {})
    \/ /\ todo = <<"version", "release_date", "interface_type", "secure_boot_enabled", "status">>
       /\ Covers(answer, {"vendor"})
    \/ /\ todo = <<"release_date", "interface_type", "secure_boot_enabled", "status">>
       /\ Covers(answer, {"vendor", "version"})
    \/ /\ todo = <<"interface_type", "secure_boot_enabled", "status">>
       /\ Covers(answer, {"vendor", "version", "release_date"})
    \/ /\ todo = <<"secure_boot_enabled", "status">>
       /\ Covers(answer, {"vendor", "version", "release_date", "interface_type"})
    \/ /\ todo = <<"status">>
       /\ Covers(answer, {"vendor", "version", "release_date", "interface_type",
                          "secure_boot_enabled"})
    \/ /\ todo = <<>>
       /\ Covers(answer, {"vendor", "version", "release_date", "interface_type",
                          "secure_boot_enabled", "status"})

\* Only an unknown interface is always worth a message; a date that is kept is a day of
\* the PC's, and a BIOS has no Secure Boot.
FirmwareKept ==
    /\ "interface_type" \in DOMAIN answer.reasons => answer.said # {}
    /\ "release_date" \in DOMAIN answer.values =>
          \/ answer.values["release_date"] = Null
          \/ answer.values["release_date"] = pc.date /\ IsDay(pc.date)
    /\ "interface_type" \in DOMAIN answer.values =>
          answer.values["interface_type"] \in {Null, "uefi", "bios", "unknown"}
    /\ "secure_boot_enabled" \in DOMAIN answer.values =>
          (answer.values["interface_type"] = "bios" =>
              answer.values["secure_boot_enabled"] = Null)

FirmwareOK ==
    section = "firmware" =>
        /\ pc.type \in {"uefi", "bios", "unknown"}
        /\ pc.date # Null => pc.date.year \in Nat
        /\ FirmwareAsked /\ FirmwareKept

\* As much is available as there is, at most.
Within(values, available, total) ==
    available \in DOMAIN values => total \in DOMAIN values /\ ~Exceeds(values, available, total)

MemoryWithin(values) ==
    /\ Within(values, "available", "total")
    /\ Within(values, "commit_available", "limit")
    /\ Within(values, "virtual_available", "virtual_total")

MemoryAsked ==
    \/ todo = MemoryQueries /\ Covers(answer, {})
    \/ todo = <<"performance">> /\ Covers(answer, GlobalFields)
    \/ todo = <<>> /\ Covers(answer, GlobalFields \cup {"limit", "commit_available"})

MemoryOK ==
    section = "memory" =>
        pc \in Memories /\ MemoryAsked /\ Voiced(answer) /\ MemoryWithin(answer.values)

IInv ==
    section \in Fixed =>
        /\ stage = "collecting" => WindowsOK /\ ClockOK /\ FirmwareOK /\ MemoryOK
        /\ stage = "gate" =>
              \A e \in GateErrors(section, result) : Explains(e, section, pc, seen)
        /\ ExplainedRefusal

-----------------------------------------------------------------------------
(* The shapes of answers *)

\* c is what a says about P and b says about Q, and no more.
Joined(c, a, P, b, Q) ==
    /\ Covers(c, P \cup Q)
    /\ \A p \in P : c.values[p] = a.values[p]
    /\ \A p \in Q : c.values[p] = b.values[p]
    /\ DOMAIN c.reasons = DOMAIN a.reasons \cup DOMAIN b.reasons
    /\ c.said = a.said \cup b.said
    /\ DOMAIN a.reasons \subseteq P /\ DOMAIN b.reasons \subseteq Q

\* Two answers about different paths are one about all of them.
LEMMA JoinCovers ==
    ASSUME NEW a, NEW b, NEW P, NEW Q, Covers(a, P), Covers(b, Q), P \cap Q = {},
           NEW c, c = Join(a, b)
    PROVE  Joined(c, a, P, b, Q)
<1>1. c.values = Beside(a.values, b.values) /\ c.reasons = Beside(a.reasons, b.reasons)
      /\ c.said = a.said \cup b.said
  BY DEF Join, Answer
<1>2. DOMAIN c.values = P \cup Q
  BY <1>1 DEF Beside, Covers
<1>3. \A p \in P : c.values[p] = a.values[p]
  BY <1>1 DEF Beside, Covers
<1>4. \A p \in Q : c.values[p] = b.values[p]
  BY <1>1 DEF Beside, Covers
<1>5. DOMAIN c.reasons = DOMAIN a.reasons \cup DOMAIN b.reasons
  BY <1>1 DEF Beside
<1>6. Nulls(c.values) = Nulls(a.values) \cup Nulls(b.values)
  BY <1>2, <1>3, <1>4 DEF Nulls, Covers
<1>7. DOMAIN a.reasons \subseteq P /\ DOMAIN b.reasons \subseteq Q
  BY DEF Covers, Balanced, Nulls
<1>8. Covers(c, P \cup Q)
  BY <1>2, <1>5, <1>6 DEF Covers, Balanced
<1> QED BY <1>1, <1>3, <1>4, <1>5, <1>7, <1>8 DEF Joined

LEMMA MissedShape ==
    ASSUME NEW P, NEW status, NEW code
    PROVE  /\ Covers(Missed(P, status, code), P)
           /\ \A p \in P : Missed(P, status, code).values[p] = Null
           /\ DOMAIN Missed(P, status, code).reasons = P
           /\ Missed(P, status, code).said = {code}
BY DEF Missed, Answer, Covers, Balanced, Nulls

LEMMA UnsaidShape ==
    ASSUME NEW P, NEW status
    PROVE  /\ Covers(Unsaid(P, status), P)
           /\ \A p \in P : Unsaid(P, status).values[p] = Null
           /\ DOMAIN Unsaid(P, status).reasons = P
           /\ Unsaid(P, status).said = {}
BY DEF Unsaid, Answer, Covers, Balanced, Nulls

\* What was read has no reason.
LEMMA GotShape ==
    ASSUME NEW values, \A p \in DOMAIN values : values[p] # Null
    PROVE  /\ Covers(Got(values), DOMAIN values)
           /\ Got(values).values = values
           /\ DOMAIN Got(values).reasons = {}
           /\ Got(values).said = {}
BY DEF Got, Answer, Covers, Balanced, Nulls

LEMMA GotAllShape ==
    ASSUME NEW P
    PROVE  /\ Covers(GotAll(P), P)
           /\ DOMAIN GotAll(P).reasons = {}
           /\ GotAll(P).said = {}
<1>1. Known # Null BY NullAssumption
<1> QED BY <1>1, GotShape DEF GotAll

-----------------------------------------------------------------------------
(* The verdict of a collector and the gate *)

\* The gate has nothing to say of a status that is what the number of reasons makes it.
LEMMA SuccessUnblamed ==
    ASSUME NEW a, Balanced(a), DOMAIN a.reasons = {}, a.said = {}
    PROVE  StatusErrors(Result("success", a)) = {} /\ Result("success", a).values = a.values
<1> DEFINE r == Result("success", a)
<1>1. r.values = a.values /\ r.said = {} /\ r.status = "success" /\ r.fields = a.reasons
  BY DEF Result
<1> HIDE DEF r
<1>2. FieldErrors(r, Nulls(r.values)) = {}
  BY <1>1 DEF FieldErrors, Balanced
<1>3. SuccessErrors(r, {}) = {}
  BY <1>1 DEF SuccessErrors
<1>4. StatusErrors(r) = {}
  BY <1>1, <1>2, <1>3 DEF StatusErrors
<1> QED BY <1>1, <1>4 DEF r

LEMMA PartialUnblamed ==
    ASSUME NEW a, Balanced(a)
    PROVE  /\ StatusErrors(Result("partial", a)) = {} /\ Result("partial", a).values = a.values
           /\ FieldErrors(Result("partial", a), Nulls(a.values)) = {}
<1> DEFINE r == Result("partial", a)
<1>1. r.values = a.values /\ r.status = "partial" /\ r.fields = a.reasons
  BY DEF Result
<1> HIDE DEF r
<1>2. FieldErrors(r, Nulls(r.values)) = {}
  BY <1>1 DEF FieldErrors, Balanced
<1>3. StatusErrors(r) = {}
  BY <1>1, <1>2 DEF StatusErrors
<1> QED BY <1>1, <1>2, <1>3 DEF r

LEMMA FailureUnblamed ==
    ASSUME NEW a, Balanced(a), DOMAIN a.reasons = DOMAIN a.values, a.said # {}
    PROVE  /\ StatusErrors(Unreasoned(Result("failed", a))) = {}
           /\ FailureErrors(Unreasoned(Result("failed", a))) = {}
           /\ Unreasoned(Result("failed", a)).values = a.values
<1> DEFINE r == Unreasoned(Result("failed", a))
<1>1. r.values = a.values /\ r.said = a.said /\ r.status = "failed"
  BY DEF Result, Unreasoned
<1> HIDE DEF r
<1>2. FailureErrors(r) = {}
  BY <1>1 DEF FailureErrors, Balanced
<1>3. StatusErrors(r) = {}
  BY <1>1, <1>2 DEF StatusErrors
<1> QED BY <1>1, <1>2, <1>3 DEF r

\* A worker that was lost is believed, too: nothing but nulls, and a message.
LEMMA LostUnblamed ==
    ASSUME NEW paths
    PROVE  /\ StatusErrors(Lost(paths)) = {} /\ FailureErrors(Lost(paths)) = {}
           /\ \A p \in paths : Lost(paths).values[p] = Null
<1> DEFINE a == Missed(paths, "failed", "worker")
<1>1. /\ Balanced(a) /\ DOMAIN a.values = DOMAIN a.reasons /\ a.said = {"worker"}
      /\ \A p \in paths : a.values[p] = Null
  BY MissedShape DEF Covers
<1>2. Lost(paths) = Unreasoned(Result("failed", a))
  BY DEF Lost
<1> HIDE DEF a
<1> QED BY <1>1, <1>2, FailureUnblamed

LEMMA WindowsUnblamed ==
    ASSUME NEW a, Covers(a, EmptyPaths("windows")), Voiced(a)
    PROVE  WindowsErrors(WindowsResult(a)) = {}
<1>0. DOMAIN a.values # {}
  BY DEF Covers, EmptyPaths
<1>1. CASE DOMAIN a.reasons = {}
  <2>1. WindowsResult(a) = Result("success", a) BY <1>0, <1>1 DEF WindowsResult
  <2> QED BY <1>1, <2>1, SuccessUnblamed DEF WindowsErrors, Covers, Voiced
<1>2. CASE DOMAIN a.reasons = DOMAIN a.values /\ DOMAIN a.reasons # {}
  <2>1. WindowsResult(a) = Unreasoned(Result("failed", a)) BY <1>0, <1>2 DEF WindowsResult
  <2> QED BY <1>2, <2>1, FailureUnblamed DEF WindowsErrors, Covers, Voiced
<1>3. CASE DOMAIN a.reasons # DOMAIN a.values /\ DOMAIN a.reasons # {}
  <2>1. WindowsResult(a) = Result("partial", a) BY <1>3 DEF WindowsResult
  <2> QED BY <2>1, PartialUnblamed DEF WindowsErrors, Covers
<1> QED BY <1>1, <1>2, <1>3

\* Of the clock, the gate may find the time zone too far away, and nothing else.
LEMMA ClockBlamed ==
    ASSUME NEW a, NEW bias \in Int, Covers(a, EmptyPaths("clock")), ClockSays(a, bias)
    PROVE  \A e \in ClockErrors(ClockResult(a)) : e[1] = "offset" /\ Away(bias)
<1>1. /\ "system_time_utc" \in DOMAIN a.values
      /\ "system_time_utc" \in DOMAIN a.reasons => a.said # {}
      /\ a.values["utc_offset_minutes"] \in {Null, -bias}
  BY DEF Covers, EmptyPaths, ClockSays
<1>2. StatusErrors(ClockResult(a)) = {} /\ ClockResult(a).values = a.values
  <2>1. CASE DOMAIN a.reasons = DOMAIN a.values
    <3>1. ClockResult(a) = Unreasoned(Result("failed", a)) BY <2>1 DEF ClockResult
    <3> QED BY <1>1, <2>1, <3>1, FailureUnblamed DEF Covers
  <2>2. CASE DOMAIN a.reasons # DOMAIN a.values
    <3>1. ClockResult(a) = Result("partial", a) BY <2>2 DEF ClockResult
    <3> QED BY <3>1, PartialUnblamed DEF Covers
  <2> QED BY <2>1, <2>2
<1>3. \A e \in OffsetErrors(ClockResult(a)) : e[1] = "offset" /\ Away(bias)
  <2> DEFINE near == -1440 .. 1440
             offset == -bias
  <2>1. a.values["utc_offset_minutes"] \in {Null, offset}
    BY <1>1
  <2>2. offset \notin near => Away(bias)
    BY DEF Away
  <2> HIDE DEF near, offset
  <2>3. \A o \in {a.values["utc_offset_minutes"]} \ ({Null} \cup near) : offset \notin near
    BY <2>1
  <2>4. \A e \in OffsetErrors(ClockResult(a)) : e[1] = "offset" /\ offset \notin near
    BY <1>2, <2>3 DEF OffsetErrors, near
  <2> QED BY <2>2, <2>4
<1> QED BY <1>2, <1>3 DEF ClockErrors

\* Of the firmware, the gate may find the year too long, and nothing else.
LEMMA FirmwareBlamed ==
    ASSUME NEW a, NEW date, Covers(a, ToSet(FirmwareQueries)),
           date # Null => date.year \in Nat,
           "interface_type" \in DOMAIN a.reasons => a.said # {},
           \/ a.values["release_date"] = Null
           \/ a.values["release_date"] = date /\ IsDay(date),
           a.values["interface_type"] = "bios" => a.values["secure_boot_enabled"] = Null
    PROVE  \A e \in FirmwareErrors(FirmwareResult(a)) : e[1] = "date" /\ date.year > 9999
<1>1. "interface_type" \in DOMAIN a.values
  BY DEF Covers, ToSet, FirmwareQueries
<1>2. StatusErrors(FirmwareResult(a)) = {} /\ FirmwareResult(a).values = a.values
  <2>1. CASE Nulls(a.values) = DOMAIN a.values
    <3>1. FirmwareResult(a) = Unreasoned(Result("failed", a)) BY <2>1 DEF FirmwareResult
    <3> QED BY <1>1, <2>1, <3>1, FailureUnblamed DEF Covers, Balanced
  <2>2. CASE Nulls(a.values) # DOMAIN a.values
    <3>1. FirmwareResult(a) = Result("partial", a) BY <2>2 DEF FirmwareResult
    <3> QED BY <3>1, PartialUnblamed DEF Covers
  <2> QED BY <2>1, <2>2
<1>3. \A e \in FirmwareValueErrors(FirmwareResult(a)) : e[1] = "date" /\ date.year > 9999
  <2>1. \A d \in {a.values["release_date"]} \ {Null} : ~IsIsoDate(d) => d = date /\ date.year > 9999
    BY DEF IsIsoDate
  <2>2. {a.values["secure_boot_enabled"]} \ {Null} # {} => a.values["interface_type"] # "bios"
    OBVIOUS
  <2> QED BY <1>2, <2>1, <2>2 DEF FirmwareValueErrors
<1> QED BY <1>2, <1>3 DEF FirmwareErrors

LEMMA MemoryValuesUnblamed ==
    ASSUME NEW r, {"available", "commit_available", "virtual_available"} \subseteq DOMAIN r.values,
           MemoryWithin(r.values)
    PROVE  MemoryValueErrors(r) = {}
<1>1. /\ ~Exceeds(r.values, "available", "total")
      /\ ~Exceeds(r.values, "commit_available", "limit")
      /\ ~Exceeds(r.values, "virtual_available", "virtual_total")
  BY DEF MemoryWithin, Within
<1>2. \A x \in {<<"available", "total">>, <<"commit_available", "limit">>,
                <<"virtual_available", "virtual_total">>} : ~Exceeds(r.values, x[1], x[2])
  BY <1>1
<1> QED BY <1>2 DEF MemoryValueErrors

\* Of the memory, the gate finds nothing.
LEMMA MemoryUnblamed ==
    ASSUME NEW a, Covers(a, EmptyPaths("memory")), Voiced(a), MemoryWithin(a.values)
    PROVE  MemoryErrors(MemoryResult(a)) = {}
<1> DEFINE r == MemoryResult(a)
<1>1. /\ DOMAIN a.values # {}
      /\ {"available", "commit_available", "virtual_available"} \subseteq DOMAIN a.values
  BY DEF Covers, EmptyPaths, GlobalFields
<1>2. r.values = a.values => MemoryValueErrors(r) = {}
  BY <1>1, MemoryValuesUnblamed
<1>3. CASE DOMAIN a.reasons = {}
  <2>1. r = Result("success", a)
    BY <1>1, <1>3 DEF MemoryResult
  <2>2. r.values = a.values /\ r.fields = a.reasons /\ r.status = "success"
    BY <2>1 DEF Result
  <2>3. Nulls(r.values) = {}
    BY <1>3, <2>2 DEF Covers, Balanced
  <2> HIDE DEF r
  <2>4. MemoryErrors(r) = {}
    BY <1>2, <1>3, <2>2, <2>3 DEF MemoryErrors
  <2> QED BY <2>4 DEF r
<1>4. CASE DOMAIN a.reasons = DOMAIN a.values
  <2>1. r = Unreasoned(Result("failed", a))
    BY <1>1, <1>4 DEF MemoryResult
  <2>2. FailureErrors(r) = {} /\ r.values = a.values
    BY <1>1, <1>4, <2>1, FailureUnblamed DEF Covers, Voiced
  <2>3. r.status = "failed"
    BY <2>1 DEF Result, Unreasoned
  <2> HIDE DEF r
  <2>4. MemoryErrors(r) = {}
    BY <1>2, <2>2, <2>3 DEF MemoryErrors
  <2> QED BY <2>4 DEF r
<1>5. CASE DOMAIN a.reasons # {} /\ DOMAIN a.reasons # DOMAIN a.values
  <2>1. r = Result("partial", a)
    BY <1>5 DEF MemoryResult
  <2>2. FieldErrors(r, Nulls(r.values)) = {} /\ r.values = a.values
    BY <2>1, PartialUnblamed DEF Covers
  <2>3. r.status = "partial"
    BY <2>1 DEF Result
  <2> HIDE DEF r
  <2>4. MemoryErrors(r) = {}
    BY <1>2, <2>2, <2>3 DEF MemoryErrors
  <2> QED BY <2>4 DEF r
<1> QED BY <1>3, <1>4, <1>5

-----------------------------------------------------------------------------
(* What each query is answered with *)

LEMMA VersionShape ==
    ASSUME NEW a \in VersionAnswers
    PROVE  Covers(a, {"edition", "version", "build_number"}) /\ Voiced(a)
<1> DEFINE v == GotAll({"version", "build_number"})
           P == {"version", "build_number"}
           Q == {"edition"}
<1>1. CASE a = Missed({"edition", "version", "build_number"}, "failed", "version")
  BY <1>1, MissedShape DEF Voiced
<1>2. ASSUME NEW e \in EditionAnswers, a = Join(v, e)
      PROVE  Covers(a, {"edition", "version", "build_number"}) /\ Voiced(a)
  <2>1. Covers(v, P) /\ Voiced(v)
    BY GotAllShape DEF Voiced
  <2>2. Covers(e, Q) /\ Voiced(e)
    BY GotAllShape, MissedShape DEF EditionAnswers, Voiced
  <2>3. P \cap Q = {} /\ P \cup Q = {"edition", "version", "build_number"}
    OBVIOUS
  <2> HIDE DEF v, P, Q
  <2>4. Joined(Join(v, e), v, P, e, Q)
    BY <2>1, <2>2, <2>3, JoinCovers
  <2>5. Covers(Join(v, e), P \cup Q) /\ Voiced(Join(v, e))
    BY <2>1, <2>2, <2>4 DEF Joined, Voiced
  <2> QED BY <1>2, <2>3, <2>5
<1> QED BY <1>1, <1>2 DEF VersionAnswers

LEMMA ArchitectureShape ==
    ASSUME NEW a \in ArchitectureAnswers
    PROVE  Covers(a, {"architecture"}) /\ Voiced(a)
BY GotAllShape DEF ArchitectureAnswers, Voiced

LEMMA UptimeShape ==
    ASSUME NEW early, NEW a \in UptimeAnswers(early)
    PROVE  Covers(a, {"booted_at", "uptime_ms"}) /\ Voiced(a)
<1>1. \/ a = GotAll({"booted_at", "uptime_ms"})
      \/ \E code : a = Missed({"booted_at", "uptime_ms"}, "failed", code)
  BY DEF UptimeAnswers, Or
<1> QED BY <1>1, GotAllShape, MissedShape DEF Voiced

LEMMA BootModeShape ==
    ASSUME NEW a \in BootModeAnswers
    PROVE  Covers(a, {"boot_mode"}) /\ Voiced(a)
BY GotAllShape, MissedShape DEF BootModeAnswers, Or, Voiced

LEMMA SystemTimeShape ==
    ASSUME NEW a \in SystemTimeAnswers
    PROVE  Covers(a, {"system_time_utc"}) /\ (DOMAIN a.reasons # {} => a.said # {})
BY GotAllShape, MissedShape DEF SystemTimeAnswers, Or

LEMMA UtcOffsetShape ==
    ASSUME NEW bias \in Int, NEW a \in UtcOffsetAnswers(bias)
    PROVE  /\ Covers(a, {"utc_offset_minutes"})
           /\ a.values["utc_offset_minutes"] \in {Null, -bias}
<1>1. CASE Offset(bias) # Null /\ a = Got([utc_offset_minutes |-> Offset(bias)])
  <2> DEFINE v == [utc_offset_minutes |-> Offset(bias)]
  <2>1. DOMAIN v = {"utc_offset_minutes"} /\ v["utc_offset_minutes"] = Offset(bias)
    OBVIOUS
  <2>2. Offset(bias) \in {Null, -bias}
    BY DEF Offset
  <2> HIDE DEF v
  <2>3. Covers(Got(v), DOMAIN v) /\ Got(v).values = v
    BY <1>1, <2>1, GotShape
  <2>4. a = Got(v)
    BY <1>1 DEF v
  <2> QED BY <2>1, <2>2, <2>3, <2>4
<1>2. CASE \E status, code : a = Missed({"utc_offset_minutes"}, status, code)
  BY <1>2, MissedShape
<1> QED BY <1>1, <1>2 DEF UtcOffsetAnswers, Or

LEMMA TimeServiceShape ==
    ASSUME NEW a \in TimeServiceAnswers
    PROVE  Covers(a, {"windows_time_service"})
BY GotAllShape, MissedShape DEF TimeServiceAnswers, Or

LEMMA TextShape ==
    ASSUME NEW path, NEW a \in TextAnswers(path, Known)
    PROVE  Covers(a, {path})
<1>1. CASE a = Got([p \in {path} |-> Known])
  BY <1>1, GotAllShape DEF GotAll
<1> QED BY <1>1, UnsaidShape, MissedShape DEF TextAnswers

LEMMA ReleaseDateShape ==
    ASSUME NEW text, NEW a \in ReleaseDateAnswers(text)
    PROVE  /\ Covers(a, {"release_date"})
           /\ \/ a.values["release_date"] = Null
              \/ a.values["release_date"] = text /\ IsDay(text)
<1>1. CASE NormalizeDate(text) # Null /\ a = Got([release_date |-> NormalizeDate(text)])
  <2> DEFINE v == [release_date |-> NormalizeDate(text)]
  <2>1. DOMAIN v = {"release_date"} /\ v["release_date"] = NormalizeDate(text)
    OBVIOUS
  <2>2. NormalizeDate(text) = text /\ IsDay(text)
    BY <1>1 DEF NormalizeDate
  <2> HIDE DEF v
  <2>3. Covers(Got(v), DOMAIN v) /\ Got(v).values = v
    BY <1>1, <2>1, GotShape
  <2>4. a = Got(v)
    BY <1>1 DEF v
  <2> QED BY <2>1, <2>2, <2>3, <2>4
<1>2. CASE \E status, code : a = Missed({"release_date"}, status, code)
  BY <1>2, MissedShape
<1>3. CASE a = Unsaid({"release_date"}, "source_null")
  BY <1>3, UnsaidShape
<1> QED BY <1>1, <1>2, <1>3 DEF ReleaseDateAnswers

LEMMA InterfaceShape ==
    ASSUME NEW type \in {"uefi", "bios", "unknown"}, NEW a \in InterfaceAnswers(type)
    PROVE  /\ Covers(a, {"interface_type"})
           /\ DOMAIN a.reasons # {} => a.said # {}
           /\ a.values["interface_type"] \in {Null, "uefi", "bios", "unknown"}
<1>1. CASE a = Got([interface_type |-> type])
  <2> DEFINE v == [interface_type |-> type]
  <2>1. DOMAIN v = {"interface_type"} /\ v["interface_type"] = type
    OBVIOUS
  <2>2. type # Null
    BY NullAssumption
  <2> HIDE DEF v
  <2>3. Covers(Got(v), DOMAIN v) /\ Got(v).values = v /\ DOMAIN Got(v).reasons = {}
    BY <2>1, <2>2, GotShape
  <2>4. a = Got(v)
    BY <1>1 DEF v
  <2> QED BY <2>1, <2>3, <2>4
<1>2. CASE a = Missed({"interface_type"}, "failed", "interface_type")
  BY <1>2, MissedShape
<1> QED BY <1>1, <1>2 DEF InterfaceAnswers, Or

\* A BIOS is not asked for its Secure Boot.
LEMMA SecureBootShape ==
    ASSUME NEW type \in {Null, "uefi", "bios", "unknown"}, NEW a \in SecureBootAnswers(type)
    PROVE  /\ Covers(a, {"secure_boot_enabled"})
           /\ type = "bios" => a.values["secure_boot_enabled"] = Null
<1>1. CASE type = "uefi"
  <2>1. SecureBootAnswers(type) = TextAnswers("secure_boot_enabled", Known)
    BY <1>1, NullAssumption DEF SecureBootAnswers
  <2> QED BY <1>1, <2>1, TextShape
<1>2. CASE type # "uefi"
  <2>1. \E status : a = Unsaid({"secure_boot_enabled"}, status)
    BY <1>2, NullAssumption DEF SecureBootAnswers
  <2> QED BY <2>1, UnsaidShape
<1> QED BY <1>1, <1>2

LEMMA FirmwareStatusShape ==
    ASSUME NEW a \in FirmwareStatusAnswers
    PROVE  Covers(a, {"status"})
BY UnsaidShape DEF FirmwareStatusAnswers

LEMMA GlobalMemoryShape ==
    ASSUME NEW m \in Memories, NEW a \in GlobalMemoryAnswers(m)
    PROVE  Covers(a, GlobalFields) /\ Voiced(a) /\ MemoryWithin(a.values)
<1> DEFINE v == [total |-> m.total, available |-> m.available, load |-> Known,
                 virtual_total |-> m.total, virtual_available |-> m.available]
<1>1. CASE a = Got(v)
  <2>1. DOMAIN v = GlobalFields
    BY DEF GlobalFields
  <2>2. m.total \in Nat /\ m.available \in Nat /\ m.available <= m.total
    BY SectionsAssumption
  <2>3. \A p \in DOMAIN v : v[p] # Null
    BY <2>1, <2>2, NullAssumption DEF GlobalFields
  <2>4. MemoryWithin(v)
    BY <2>2 DEF MemoryWithin, Within, Exceeds
  <2> HIDE DEF v
  <2> QED BY <1>1, <2>1, <2>3, <2>4, GotShape DEF Voiced
<1>2. CASE a = Missed(GlobalFields, "failed", "global")
  <2>1. /\ Covers(a, GlobalFields)
        /\ DOMAIN a.reasons = GlobalFields /\ a.said = {"global"}
        /\ \A p \in GlobalFields : a.values[p] = Null
    BY <1>2, MissedShape
  <2>3. Voiced(a)
    BY <2>1 DEF Voiced, GlobalFields
  <2>2. MemoryWithin(a.values)
    BY <2>1 DEF MemoryWithin, Within, Exceeds, GlobalFields, Covers
  <2> QED BY <2>1, <2>2, <2>3
<1> QED BY <1>1, <1>2 DEF GlobalMemoryAnswers, Or

\* What is left of a product, when what is left of a factor is taken.
LEMMA Product ==
    ASSUME NEW l \in Nat, NEW t \in Nat, NEW s \in Nat, t <= l
    PROVE  l * s \in Nat /\ (l - t) * s \in Nat /\ (l - t) * s <= l * s
<1>1. (l - t) * s = l * s - t * s /\ t * s \in Nat /\ l * s \in Nat
  OBVIOUS
<1>2. l - t \in Nat
  OBVIOUS
<1>3. (l - t) * s \in Nat
  BY <1>2
<1> QED BY <1>1, <1>3

LEMMA PerformanceShape ==
    ASSUME NEW m \in Memories, NEW a \in PerformanceAnswers(m)
    PROVE  Covers(a, {"limit", "commit_available"}) /\ Voiced(a) /\ MemoryWithin(a.values)
<1> DEFINE F == {"limit", "commit_available"}
           all == m.limit_pages * m.page_size
           rest == (m.limit_pages - m.total_pages) * m.page_size
           v == [limit |-> all, commit_available |-> rest]
<1>1. CASE a = Got(v) /\ ~(m.limit_pages < m.total_pages)
  <2>1. DOMAIN v = F
    OBVIOUS
  <2>2. m.limit_pages \in Nat /\ m.total_pages \in Nat /\ m.page_size \in Nat
    BY SectionsAssumption
  <2>3. m.total_pages <= m.limit_pages
    BY <1>1, <2>2
  <2>4. all \in Nat /\ rest \in Nat /\ rest <= all
    BY <2>2, <2>3, Product
  <2> HIDE DEF all, rest
  <2>5. \A p \in DOMAIN v : v[p] # Null
    BY <2>1, <2>4, NullAssumption
  <2>6. MemoryWithin(v)
    BY <2>4 DEF MemoryWithin, Within, Exceeds
  <2> HIDE DEF v, F
  <2>7. Covers(a, F) /\ Voiced(a) /\ a.values = v
    BY <1>1, <2>1, <2>5, GotShape DEF Voiced
  <2> QED BY <2>6, <2>7 DEF F
<1>2. CASE \E status, code : a = Missed(F, status, code)
  <2>1. /\ Covers(a, F) /\ Voiced(a) /\ DOMAIN a.values = F
        /\ \A p \in F : a.values[p] = Null
    BY <1>2, MissedShape DEF Voiced, Covers
  <2>2. MemoryWithin(a.values)
    BY <2>1 DEF MemoryWithin, Within, Exceeds
  <2> QED BY <2>1, <2>2
<1> QED BY <1>1, <1>2 DEF PerformanceAnswers, CommitMemory, Or

-----------------------------------------------------------------------------
(* The steps of the collectors *)

LEMMA WindowsHears ==
    ASSUME section = "windows", WindowsOK, AskWindows
    PROVE  WindowsOK'
<1>1. WindowsAsked /\ Voiced(answer)
  BY DEF WindowsOK
<1>2. section' = "windows" /\ pc' = pc
  BY DEF AskWindows, Hear, Ask, later
<1>3. CASE Hear("windows", "version", VersionAnswers)
  <2> DEFINE P == {}
             Q == {"edition", "version", "build_number"}
  <2>1. todo = <<"version", "architecture", "uptime", "boot_mode">> /\ Covers(answer, P)
    BY <1>1, <1>3 DEF WindowsAsked, Hear, Ask, WindowsQueries
  <2>2. todo' = <<"architecture", "uptime", "boot_mode">>
    BY <1>3, <2>1 DEF Hear, Ask
  <2>3. PICK a \in VersionAnswers : answer' = Join(answer, a)
    BY <1>3 DEF Hear
  <2>4. Covers(a, Q) /\ Voiced(a)
    BY VersionShape
  <2>5. P \cap Q = {}
    OBVIOUS
  <2> HIDE DEF P, Q
  <2>6. Joined(answer', answer, P, a, Q)
    BY <2>1, <2>3, <2>4, <2>5, JoinCovers
  <2>7. P \cup Q = {"edition", "version", "build_number"}
    BY DEF P, Q
  <2>8. Voiced(answer')
    BY <1>1, <2>4, <2>6 DEF Joined, Voiced
  <2> QED BY <1>2, <2>2, <2>6, <2>7, <2>8 DEF Joined, WindowsOK, WindowsAsked
<1>4. CASE Hear("windows", "architecture", ArchitectureAnswers)
  <2> DEFINE P == {"edition", "version", "build_number"}
             Q == {"architecture"}
  <2>1. todo = <<"architecture", "uptime", "boot_mode">> /\ Covers(answer, P)
    BY <1>1, <1>4 DEF WindowsAsked, Hear, Ask, WindowsQueries
  <2>2. todo' = <<"uptime", "boot_mode">>
    BY <1>4, <2>1 DEF Hear, Ask
  <2>3. PICK a \in ArchitectureAnswers : answer' = Join(answer, a)
    BY <1>4 DEF Hear
  <2>4. Covers(a, Q) /\ Voiced(a)
    BY ArchitectureShape
  <2>5. P \cap Q = {}
    OBVIOUS
  <2> HIDE DEF P, Q
  <2>6. Joined(answer', answer, P, a, Q)
    BY <2>1, <2>3, <2>4, <2>5, JoinCovers
  <2>7. P \cup Q = {"edition", "version", "build_number", "architecture"}
    BY DEF P, Q
  <2>8. Voiced(answer')
    BY <1>1, <2>4, <2>6 DEF Joined, Voiced
  <2> QED BY <1>2, <2>2, <2>6, <2>7, <2>8 DEF Joined, WindowsOK, WindowsAsked
<1>5. CASE Hear("windows", "uptime", UptimeAnswers(pc.early))
  <2> DEFINE P == {"edition", "version", "build_number", "architecture"}
             Q == {"booted_at", "uptime_ms"}
  <2>1. todo = <<"uptime", "boot_mode">> /\ Covers(answer, P)
    BY <1>1, <1>5 DEF WindowsAsked, Hear, Ask, WindowsQueries
  <2>2. todo' = <<"boot_mode">>
    BY <1>5, <2>1 DEF Hear, Ask
  <2>3. PICK a \in UptimeAnswers(pc.early) : answer' = Join(answer, a)
    BY <1>5 DEF Hear
  <2>4. Covers(a, Q) /\ Voiced(a)
    BY UptimeShape
  <2>5. P \cap Q = {}
    OBVIOUS
  <2> HIDE DEF P, Q
  <2>6. Joined(answer', answer, P, a, Q)
    BY <2>1, <2>3, <2>4, <2>5, JoinCovers
  <2>7. P \cup Q = {"edition", "version", "build_number", "architecture", "booted_at",
                  "uptime_ms"}
    BY DEF P, Q
  <2>8. Voiced(answer')
    BY <1>1, <2>4, <2>6 DEF Joined, Voiced
  <2> QED BY <1>2, <2>2, <2>6, <2>7, <2>8 DEF Joined, WindowsOK, WindowsAsked
<1>6. CASE Hear("windows", "boot_mode", BootModeAnswers)
  <2> DEFINE P == {"edition", "version", "build_number", "architecture", "booted_at",
                  "uptime_ms"}
             Q == {"boot_mode"}
  <2>1. todo = <<"boot_mode">> /\ Covers(answer, P)
    BY <1>1, <1>6 DEF WindowsAsked, Hear, Ask, WindowsQueries
  <2>2. todo' = <<>>
    BY <1>6, <2>1 DEF Hear, Ask
  <2>3. PICK a \in BootModeAnswers : answer' = Join(answer, a)
    BY <1>6 DEF Hear
  <2>4. Covers(a, Q) /\ Voiced(a)
    BY BootModeShape
  <2>5. P \cap Q = {}
    OBVIOUS
  <2> HIDE DEF P, Q
  <2>6. Joined(answer', answer, P, a, Q)
    BY <2>1, <2>3, <2>4, <2>5, JoinCovers
  <2>7. P \cup Q = {"edition", "version", "build_number", "architecture", "booted_at",
                  "uptime_ms", "boot_mode"}
    BY DEF P, Q
  <2>8. Voiced(answer')
    BY <1>1, <2>4, <2>6 DEF Joined, Voiced
  <2> QED BY <1>2, <2>2, <2>6, <2>7, <2>8 DEF Joined, WindowsOK, WindowsAsked
<1> QED BY <1>3, <1>4, <1>5, <1>6 DEF AskWindows

LEMMA ClockHears ==
    ASSUME section = "clock", ClockOK, AskClock
    PROVE  ClockOK'
<1>1. ClockAsked /\ ClockKept /\ pc.bias \in Int
  BY DEF ClockOK
<1>2. section' = "clock" /\ pc' = pc
  BY DEF AskClock, Hear, Ask, later
<1>3. CASE Hear("clock", "hardware_clock", HardwareClockAnswers)
  <2> DEFINE P == {}
             Q == {"hardware_clock"}
  <2>1. todo = <<"hardware_clock", "system_time", "utc_offset", "time_service">> /\ Covers(answer, P)
    BY <1>1, <1>3 DEF ClockAsked, Hear, Ask, ClockQueries
  <2>2. todo' = <<"system_time", "utc_offset", "time_service">>
    BY <1>3, <2>1 DEF Hear, Ask
  <2>3. PICK a \in HardwareClockAnswers : answer' = Join(answer, a)
    BY <1>3 DEF Hear
  <2>4. Covers(a, Q)
    BY UnsaidShape DEF HardwareClockAnswers
  <2>5. P \cap Q = {}
    OBVIOUS
  <2> HIDE DEF P, Q
  <2>6. Joined(answer', answer, P, a, Q)
    BY <2>1, <2>3, <2>4, <2>5, JoinCovers
  <2>7. P \cup Q = {"hardware_clock"}
    BY DEF P, Q
  <2>8. ClockKept'
    BY <1>1, <1>2, <2>1, <2>4, <2>6 DEF ClockKept, ClockSays, Joined, Covers, P, Q
  <2> QED BY <1>1, <1>2, <2>2, <2>6, <2>7, <2>8 DEF Joined, ClockOK, ClockAsked
<1>4. CASE Hear("clock", "system_time", SystemTimeAnswers)
  <2> DEFINE P == {"hardware_clock"}
             Q == {"system_time_utc"}
  <2>1. todo = <<"system_time", "utc_offset", "time_service">> /\ Covers(answer, P)
    BY <1>1, <1>4 DEF ClockAsked, Hear, Ask, ClockQueries
  <2>2. todo' = <<"utc_offset", "time_service">>
    BY <1>4, <2>1 DEF Hear, Ask
  <2>3. PICK a \in SystemTimeAnswers : answer' = Join(answer, a)
    BY <1>4 DEF Hear
  <2>4. Covers(a, Q) /\ (DOMAIN a.reasons # {} => a.said # {})
    BY SystemTimeShape
  <2>5. P \cap Q = {}
    OBVIOUS
  <2> HIDE DEF P, Q
  <2>6. Joined(answer', answer, P, a, Q)
    BY <2>1, <2>3, <2>4, <2>5, JoinCovers
  <2>7. P \cup Q = {"hardware_clock", "system_time_utc"}
    BY DEF P, Q
  <2>8. ClockKept'
    BY <1>1, <1>2, <2>1, <2>4, <2>6 DEF ClockKept, ClockSays, Joined, Covers, P, Q
  <2> QED BY <1>1, <1>2, <2>2, <2>6, <2>7, <2>8 DEF Joined, ClockOK, ClockAsked
<1>5. CASE Hear("clock", "utc_offset", UtcOffsetAnswers(pc.bias))
  <2> DEFINE P == {"hardware_clock", "system_time_utc"}
             Q == {"utc_offset_minutes"}
  <2>1. todo = <<"utc_offset", "time_service">> /\ Covers(answer, P)
    BY <1>1, <1>5 DEF ClockAsked, Hear, Ask, ClockQueries
  <2>2. todo' = <<"time_service">>
    BY <1>5, <2>1 DEF Hear, Ask
  <2>3. PICK a \in UtcOffsetAnswers(pc.bias) : answer' = Join(answer, a)
    BY <1>5 DEF Hear
  <2>4. /\ Covers(a, Q)
        /\ a.values["utc_offset_minutes"] \in {Null, -pc.bias}
    BY <1>1, UtcOffsetShape
  <2>5. P \cap Q = {}
    OBVIOUS
  <2> HIDE DEF P, Q
  <2>6. Joined(answer', answer, P, a, Q)
    BY <2>1, <2>3, <2>4, <2>5, JoinCovers
  <2>7. P \cup Q = {"hardware_clock", "system_time_utc", "utc_offset_minutes"}
    BY DEF P, Q
  <2>8. ClockKept'
    BY <1>1, <1>2, <2>1, <2>4, <2>6 DEF ClockKept, ClockSays, Joined, Covers, P, Q
  <2> QED BY <1>1, <1>2, <2>2, <2>6, <2>7, <2>8 DEF Joined, ClockOK, ClockAsked
<1>6. CASE Hear("clock", "time_service", TimeServiceAnswers)
  <2> DEFINE P == {"hardware_clock", "system_time_utc", "utc_offset_minutes"}
             Q == {"windows_time_service"}
  <2>1. todo = <<"time_service">> /\ Covers(answer, P)
    BY <1>1, <1>6 DEF ClockAsked, Hear, Ask, ClockQueries
  <2>2. todo' = <<>>
    BY <1>6, <2>1 DEF Hear, Ask
  <2>3. PICK a \in TimeServiceAnswers : answer' = Join(answer, a)
    BY <1>6 DEF Hear
  <2>4. Covers(a, Q)
    BY TimeServiceShape
  <2>5. P \cap Q = {}
    OBVIOUS
  <2> HIDE DEF P, Q
  <2>6. Joined(answer', answer, P, a, Q)
    BY <2>1, <2>3, <2>4, <2>5, JoinCovers
  <2>7. P \cup Q = {"hardware_clock", "system_time_utc", "utc_offset_minutes",
                  "windows_time_service"}
    BY DEF P, Q
  <2>8. ClockKept'
    BY <1>1, <1>2, <2>1, <2>4, <2>6 DEF ClockKept, ClockSays, Joined, Covers, P, Q
  <2> QED BY <1>1, <1>2, <2>2, <2>6, <2>7, <2>8 DEF Joined, ClockOK, ClockAsked
<1> QED BY <1>3, <1>4, <1>5, <1>6 DEF AskClock

LEMMA FirmwareHears ==
    ASSUME section = "firmware", FirmwareOK, AskFirmware
    PROVE  FirmwareOK'
<1>1. FirmwareAsked /\ FirmwareKept
      /\ pc.type \in {"uefi", "bios", "unknown"} /\ (pc.date # Null => pc.date.year \in Nat)
  BY DEF FirmwareOK
<1>2. section' = "firmware" /\ pc' = pc
  BY DEF AskFirmware, Hear, Ask, later
<1>3. CASE Hear("firmware", "vendor", TextAnswers("vendor", Known))
  <2> DEFINE P == {}
             Q == {"vendor"}
  <2>1. /\ todo = <<"vendor", "version", "release_date", "interface_type", "secure_boot_enabled",
                   "status">>
        /\ Covers(answer, P)
    BY <1>1, <1>3 DEF FirmwareAsked, Hear, Ask, FirmwareQueries
  <2>2. todo' = <<"version", "release_date", "interface_type", "secure_boot_enabled", "status">>
    BY <1>3, <2>1 DEF Hear, Ask
  <2>3. PICK a \in TextAnswers("vendor", Known) : answer' = Join(answer, a)
    BY <1>3 DEF Hear
  <2>4. Covers(a, Q)
    BY TextShape
  <2>5. P \cap Q = {}
    OBVIOUS
  <2> HIDE DEF P, Q
  <2>6. Joined(answer', answer, P, a, Q)
    BY <2>1, <2>3, <2>4, <2>5, JoinCovers
  <2>7. P \cup Q = {"vendor"}
    BY DEF P, Q
  <2>8. FirmwareKept'
    BY <1>1, <1>2, <2>1, <2>4, <2>6 DEF FirmwareKept, Joined, Covers, P, Q
  <2> QED BY <1>1, <1>2, <2>2, <2>6, <2>7, <2>8 DEF Joined, FirmwareOK, FirmwareAsked
<1>4. CASE Hear("firmware", "version", TextAnswers("version", Known))
  <2> DEFINE P == {"vendor"}
             Q == {"version"}
  <2>1. /\ todo = <<"version", "release_date", "interface_type", "secure_boot_enabled", "status">>
        /\ Covers(answer, P)
    BY <1>1, <1>4 DEF FirmwareAsked, Hear, Ask, FirmwareQueries
  <2>2. todo' = <<"release_date", "interface_type", "secure_boot_enabled", "status">>
    BY <1>4, <2>1 DEF Hear, Ask
  <2>3. PICK a \in TextAnswers("version", Known) : answer' = Join(answer, a)
    BY <1>4 DEF Hear
  <2>4. Covers(a, Q)
    BY TextShape
  <2>5. P \cap Q = {}
    OBVIOUS
  <2> HIDE DEF P, Q
  <2>6. Joined(answer', answer, P, a, Q)
    BY <2>1, <2>3, <2>4, <2>5, JoinCovers
  <2>7. P \cup Q = {"vendor", "version"}
    BY DEF P, Q
  <2>8. FirmwareKept'
    BY <1>1, <1>2, <2>1, <2>4, <2>6 DEF FirmwareKept, Joined, Covers, P, Q
  <2> QED BY <1>1, <1>2, <2>2, <2>6, <2>7, <2>8 DEF Joined, FirmwareOK, FirmwareAsked
<1>5. CASE Hear("firmware", "release_date", ReleaseDateAnswers(pc.date))
  <2> DEFINE P == {"vendor", "version"}
             Q == {"release_date"}
  <2>1. /\ todo = <<"release_date", "interface_type", "secure_boot_enabled", "status">>
        /\ Covers(answer, P)
    BY <1>1, <1>5 DEF FirmwareAsked, Hear, Ask, FirmwareQueries
  <2>2. todo' = <<"interface_type", "secure_boot_enabled", "status">>
    BY <1>5, <2>1 DEF Hear, Ask
  <2>3. PICK a \in ReleaseDateAnswers(pc.date) : answer' = Join(answer, a)
    BY <1>5 DEF Hear
  <2>4. /\ Covers(a, Q)
        /\ \/ a.values["release_date"] = Null
           \/ a.values["release_date"] = pc.date /\ IsDay(pc.date)
    BY ReleaseDateShape
  <2>5. P \cap Q = {}
    OBVIOUS
  <2> HIDE DEF P, Q
  <2>6. Joined(answer', answer, P, a, Q)
    BY <2>1, <2>3, <2>4, <2>5, JoinCovers
  <2>7. P \cup Q = {"vendor", "version", "release_date"}
    BY DEF P, Q
  <2>8. FirmwareKept'
    BY <1>1, <1>2, <2>1, <2>4, <2>6 DEF FirmwareKept, Joined, Covers, P, Q
  <2> QED BY <1>1, <1>2, <2>2, <2>6, <2>7, <2>8 DEF Joined, FirmwareOK, FirmwareAsked
<1>6. CASE Hear("firmware", "interface_type", InterfaceAnswers(pc.type))
  <2> DEFINE P == {"vendor", "version", "release_date"}
             Q == {"interface_type"}
  <2>1. todo = <<"interface_type", "secure_boot_enabled", "status">> /\ Covers(answer, P)
    BY <1>1, <1>6 DEF FirmwareAsked, Hear, Ask, FirmwareQueries
  <2>2. todo' = <<"secure_boot_enabled", "status">>
    BY <1>6, <2>1 DEF Hear, Ask
  <2>3. PICK a \in InterfaceAnswers(pc.type) : answer' = Join(answer, a)
    BY <1>6 DEF Hear
  <2>4. /\ Covers(a, Q)
        /\ DOMAIN a.reasons # {} => a.said # {}
        /\ a.values["interface_type"] \in {Null, "uefi", "bios", "unknown"}
    BY <1>1, InterfaceShape
  <2>5. P \cap Q = {}
    OBVIOUS
  <2> HIDE DEF P, Q
  <2>6. Joined(answer', answer, P, a, Q)
    BY <2>1, <2>3, <2>4, <2>5, JoinCovers
  <2>7. P \cup Q = {"vendor", "version", "release_date", "interface_type"}
    BY DEF P, Q
  <2>8. FirmwareKept'
    <3>1. DOMAIN answer.values = P /\ DOMAIN answer'.values = P \cup Q
      BY <2>1, <2>6 DEF Joined, Covers
    <3>2. "interface_type" \in DOMAIN answer'.reasons => answer'.said # {}
      BY <1>1, <2>4, <2>6 DEF Joined, FirmwareKept, P, Q
    <3>3. \/ answer'.values["release_date"] = Null
          \/ answer'.values["release_date"] = pc.date /\ IsDay(pc.date)
      BY <1>1, <2>6, <3>1 DEF Joined, FirmwareKept, P
    <3>4. answer'.values["interface_type"] \in {Null, "uefi", "bios", "unknown"}
      BY <1>1, <2>4, <2>6, <3>1 DEF Joined, FirmwareKept, P, Q
    <3>5. "secure_boot_enabled" \in P \cup Q => (answer'.values["interface_type"] = "bios" =>
              answer'.values["secure_boot_enabled"] = Null)
      BY <2>4, <2>6 DEF Joined, P, Q
    <3> QED BY <1>2, <3>1, <3>2, <3>3, <3>4, <3>5 DEF FirmwareKept
  <2> QED BY <1>1, <1>2, <2>2, <2>6, <2>7, <2>8 DEF Joined, FirmwareOK, FirmwareAsked
<1>7. CASE Hear("firmware", "secure_boot_enabled",
                SecureBootAnswers(answer.values["interface_type"]))
  <2> DEFINE P == {"vendor", "version", "release_date", "interface_type"}
             Q == {"secure_boot_enabled"}
  <2>1. todo = <<"secure_boot_enabled", "status">> /\ Covers(answer, P)
    BY <1>1, <1>7 DEF FirmwareAsked, Hear, Ask, FirmwareQueries
  <2>2. todo' = <<"status">>
    BY <1>7, <2>1 DEF Hear, Ask
  <2>3. PICK a \in SecureBootAnswers(answer.values["interface_type"]) : answer' = Join(answer, a)
    BY <1>7 DEF Hear
  <2>4. /\ Covers(a, Q)
        /\ answer.values["interface_type"] = "bios" => a.values["secure_boot_enabled"] = Null
    BY <1>1, <2>1, SecureBootShape DEF FirmwareKept, Covers
  <2>5. P \cap Q = {}
    OBVIOUS
  <2> HIDE DEF P, Q
  <2>6. Joined(answer', answer, P, a, Q)
    BY <2>1, <2>3, <2>4, <2>5, JoinCovers
  <2>7. P \cup Q = {"vendor", "version", "release_date", "interface_type",
                  "secure_boot_enabled"}
    BY DEF P, Q
  <2>8. FirmwareKept'
    <3>1. DOMAIN answer.values = P /\ DOMAIN answer'.values = P \cup Q
      BY <2>1, <2>6 DEF Joined, Covers
    <3>2. "interface_type" \in DOMAIN answer'.reasons => answer'.said # {}
      BY <1>1, <2>4, <2>6 DEF Joined, FirmwareKept, P, Q
    <3>3. \/ answer'.values["release_date"] = Null
          \/ answer'.values["release_date"] = pc.date /\ IsDay(pc.date)
      BY <1>1, <2>6, <3>1 DEF Joined, FirmwareKept, P
    <3>4. answer'.values["interface_type"] \in {Null, "uefi", "bios", "unknown"}
      BY <1>1, <2>4, <2>6, <3>1 DEF Joined, FirmwareKept, P, Q
    <3>5. "secure_boot_enabled" \in P \cup Q => (answer'.values["interface_type"] = "bios" =>
              answer'.values["secure_boot_enabled"] = Null)
      BY <2>4, <2>6 DEF Joined, P, Q
    <3> QED BY <1>2, <3>1, <3>2, <3>3, <3>4, <3>5 DEF FirmwareKept
  <2> QED BY <1>1, <1>2, <2>2, <2>6, <2>7, <2>8 DEF Joined, FirmwareOK, FirmwareAsked
<1>8. CASE Hear("firmware", "status", FirmwareStatusAnswers)
  <2> DEFINE P == {"vendor", "version", "release_date", "interface_type",
                  "secure_boot_enabled"}
             Q == {"status"}
  <2>1. todo = <<"status">> /\ Covers(answer, P)
    BY <1>1, <1>8 DEF FirmwareAsked, Hear, Ask, FirmwareQueries
  <2>2. todo' = <<>>
    BY <1>8, <2>1 DEF Hear, Ask
  <2>3. PICK a \in FirmwareStatusAnswers : answer' = Join(answer, a)
    BY <1>8 DEF Hear
  <2>4. Covers(a, Q)
    BY FirmwareStatusShape
  <2>5. P \cap Q = {}
    OBVIOUS
  <2> HIDE DEF P, Q
  <2>6. Joined(answer', answer, P, a, Q)
    BY <2>1, <2>3, <2>4, <2>5, JoinCovers
  <2>7. P \cup Q = {"vendor", "version", "release_date", "interface_type",
                  "secure_boot_enabled", "status"}
    BY DEF P, Q
  <2>8. FirmwareKept'
    BY <1>1, <1>2, <2>1, <2>4, <2>6 DEF FirmwareKept, Joined, Covers, P, Q
  <2> QED BY <1>1, <1>2, <2>2, <2>6, <2>7, <2>8 DEF Joined, FirmwareOK, FirmwareAsked
<1> QED BY <1>3, <1>4, <1>5, <1>6, <1>7, <1>8 DEF AskFirmware

LEMMA JoinedWithin ==
    ASSUME NEW a, NEW b, NEW c, NEW P, NEW Q, Joined(c, a, P, b, Q), Covers(a, P), Covers(b, Q),
           MemoryWithin(a.values), MemoryWithin(b.values)
    PROVE  MemoryWithin(c.values)
<1>1. ASSUME NEW x, NEW y, Within(a.values, x, y), Within(b.values, x, y)
      PROVE  Within(c.values, x, y)
  <2>1. DOMAIN c.values = P \cup Q /\ DOMAIN a.values = P /\ DOMAIN b.values = Q
    BY DEF Joined, Covers
  <2>2. CASE x \in P
    <3>1. y \in P /\ c.values[x] = a.values[x] /\ c.values[y] = a.values[y]
      BY <1>1, <2>1, <2>2 DEF Joined, Within
    <3> QED BY <1>1, <2>1, <2>2, <3>1 DEF Within, Exceeds
  <2>3. CASE x \in Q
    <3>1. y \in Q /\ c.values[x] = b.values[x] /\ c.values[y] = b.values[y]
      BY <1>1, <2>1, <2>3 DEF Joined, Within
    <3> QED BY <1>1, <2>1, <2>3, <3>1 DEF Within, Exceeds
  <2>4. CASE x \notin P /\ x \notin Q
    BY <2>1, <2>4 DEF Within
  <2> QED BY <2>2, <2>3, <2>4
<1> QED BY <1>1 DEF MemoryWithin

LEMMA MemoryHears ==
    ASSUME section = "memory", MemoryOK, AskMemory
    PROVE  MemoryOK'
<1>1. MemoryAsked /\ Voiced(answer) /\ MemoryWithin(answer.values) /\ pc \in Memories
  BY DEF MemoryOK
<1>2. section' = "memory" /\ pc' = pc
  BY DEF AskMemory, Hear, Ask, later
<1>3. CASE Hear("memory", "global", GlobalMemoryAnswers(pc))
  <2>1. todo = <<"global", "performance">> /\ Covers(answer, {})
    BY <1>1, <1>3 DEF MemoryAsked, Hear, Ask, MemoryQueries
  <2>2. todo' = <<"performance">>
    BY <1>3, <2>1 DEF Hear, Ask
  <2>3. PICK a \in GlobalMemoryAnswers(pc) : answer' = Join(answer, a)
    BY <1>3 DEF Hear
  <2>4. Covers(a, GlobalFields) /\ Voiced(a) /\ MemoryWithin(a.values)
    BY <1>1, GlobalMemoryShape
  <2> DEFINE P == {}
  <2>5. Covers(answer, P) /\ P \cap GlobalFields = {}
    BY <2>1
  <2> HIDE DEF P
  <2>6. Joined(answer', answer, P, a, GlobalFields)
    BY <2>3, <2>4, <2>5, JoinCovers
  <2>7. P \cup GlobalFields = GlobalFields
    BY DEF P
  <2>8. MemoryWithin(answer'.values)
    BY <1>1, <2>4, <2>5, <2>6, JoinedWithin
  <2>9. Voiced(answer')
    BY <1>1, <2>4, <2>6 DEF Joined, Voiced
  <2> QED BY <1>1, <1>2, <2>2, <2>6, <2>7, <2>8, <2>9 DEF Joined, MemoryOK, MemoryAsked
<1>4. CASE Hear("memory", "performance", PerformanceAnswers(pc))
  <2> DEFINE F == {"limit", "commit_available"}
  <2>1. todo = <<"performance">> /\ Covers(answer, GlobalFields)
    BY <1>1, <1>4 DEF MemoryAsked, Hear, Ask, MemoryQueries
  <2>2. todo' = <<>>
    BY <1>4, <2>1 DEF Hear, Ask
  <2>3. PICK a \in PerformanceAnswers(pc) : answer' = Join(answer, a)
    BY <1>4 DEF Hear
  <2>4. Covers(a, F) /\ Voiced(a) /\ MemoryWithin(a.values)
    BY <1>1, PerformanceShape
  <2>5. GlobalFields \cap F = {}
    BY DEF GlobalFields
  <2> HIDE DEF F
  <2>6. Joined(answer', answer, GlobalFields, a, F)
    BY <2>1, <2>3, <2>4, <2>5, JoinCovers
  <2>8. MemoryWithin(answer'.values)
    BY <1>1, <2>1, <2>4, <2>6, JoinedWithin
  <2>9. Voiced(answer')
    BY <1>1, <2>4, <2>6 DEF Joined, Voiced
  <2> QED BY <1>1, <1>2, <2>2, <2>6, <2>8, <2>9 DEF Joined, MemoryOK, MemoryAsked, F
<1> QED BY <1>3, <1>4 DEF AskMemory

-----------------------------------------------------------------------------
(* Refusals *)

LEMMA OffsetExplained ==
    ASSUME NEW e, NEW s, NEW p, NEW a, e[1] = "offset", Away(p.bias)
    PROVE  Explains(e, s, p, a)
BY DEF Explains

LEMMA DateExplained ==
    ASSUME NEW e, NEW s, NEW p, NEW a, e[1] = "date", p.date.year > 9999
    PROVE  Explains(e, s, p, a)
BY DEF Explains

LEMMA RefusalNow ==
    ExplainedRefusal <=> \A e \in errors : Explains(e, section, pc, seen)
BY DEF ExplainedRefusal, Explains, Away, Blank

LEMMA RefusalThen ==
    ExplainedRefusal' <=> \A e \in errors' : Explains(e, section', pc', seen')
BY DEF ExplainedRefusal, Explains, Away, Blank

-----------------------------------------------------------------------------
(* The invariant *)

LEMMA InitOK == Init => IInv
<1> SUFFICES ASSUME Init, section \in Fixed PROVE IInv
  BY DEF IInv
<1>1. Covers(answer, {}) /\ DOMAIN answer.reasons = {} /\ answer.said = {}
  <2>1. DOMAIN <<>> = {}
    OBVIOUS
  <2>2. answer = Got(<<>>)
    BY DEF Init
  <2> QED BY <2>1, <2>2, GotShape
<1>2. stage = "collecting" /\ errors = {} /\ todo = Queries(section) /\ pc \in Pcs(section)
  BY DEF Init
<1>3. WindowsOK
  BY <1>1, <1>2 DEF WindowsOK, WindowsAsked, Voiced, Queries
<1>4. ClockOK
  <2> SUFFICES ASSUME section = "clock" PROVE ClockOK
    BY DEF ClockOK
  <2>1. pc.bias \in Int
    BY <1>2, SectionsAssumption DEF Pcs
  <2>2. ClockAsked
    BY <1>1, <1>2 DEF ClockAsked, Queries
  <2>3. ClockKept
    BY <1>1 DEF ClockKept, ClockSays, Covers
  <2> QED BY <2>1, <2>2, <2>3 DEF ClockOK
<1>5. FirmwareOK
  <2> SUFFICES ASSUME section = "firmware" PROVE FirmwareOK
    BY DEF FirmwareOK
  <2>1. pc \in [date : Dates, type : {"uefi", "bios", "unknown"}]
    BY <1>2 DEF Pcs
  <2>2. pc.type \in {"uefi", "bios", "unknown"} /\ (pc.date # Null => pc.date.year \in Nat)
    BY <2>1, SectionsAssumption
  <2>3. FirmwareAsked
    BY <1>1, <1>2 DEF FirmwareAsked, Queries
  <2>4. FirmwareKept
    BY <1>1 DEF FirmwareKept, Covers
  <2> QED BY <2>2, <2>3, <2>4 DEF FirmwareOK
<1>6. MemoryOK
  <2> SUFFICES ASSUME section = "memory" PROVE MemoryOK
    BY DEF MemoryOK
  <2>1. pc \in Memories /\ MemoryAsked
    BY <1>1, <1>2 DEF Pcs, MemoryAsked, Queries
  <2>2. DOMAIN answer.values = {}
    BY <1>1 DEF Covers
  <2>3. MemoryWithin(answer.values)
    BY <2>2 DEF MemoryWithin, Within
  <2> QED BY <1>1, <2>1, <2>3 DEF MemoryOK, Voiced
<1> QED BY <1>2, <1>3, <1>4, <1>5, <1>6 DEF IInv, ExplainedRefusal

\* In these sections, nothing comes or goes, and no failure is one for all.
LEMMA Quiet ==
    ASSUME section \in Fixed
    PROVE  ~Change /\ ~GiveUp /\ ~AskSecurity /\ ~AskCpu /\ ~AskGpu /\ ~AskDevices
           /\ ~AskEventLogs /\ ~AskUpdates /\ ~AskRuntime
<1>1. ~Change
  BY DEF Fixed, Change, SwitchProcessor, PlugCard, InstallUpdate, ClearHistory
<1>2. ~GiveUp
  BY DEF Fixed, GiveUp
<1>3. ~AskSecurity /\ ~AskCpu /\ ~AskGpu
  BY DEF Fixed, AskSecurity, AskCpu, AskGpu, Hear, Ask
<1>4. ~AskDevices /\ ~AskEventLogs /\ ~AskUpdates /\ ~AskRuntime
  BY DEF Fixed, AskDevices, AskEventLogs, AskUpdates, AskRuntime
<1> QED BY <1>1, <1>2, <1>3, <1>4

\* What the collector hands over leaves the gate with nothing that is not explained.
LEMMA ReturnOK ==
    ASSUME IInv, Return, section \in Fixed
    PROVE  \A e \in GateErrors(section', result') : Explains(e, section', pc', seen')
<1>1. /\ stage = "collecting" /\ todo = <<>> /\ result' = Judge(section, answer)
      /\ section' = section /\ pc' = pc
  BY DEF Return
<1>2. WindowsOK /\ ClockOK /\ FirmwareOK /\ MemoryOK
  BY <1>1 DEF IInv
<1>3. CASE section = "windows"
  <2>1. Covers(answer, EmptyPaths("windows")) /\ Voiced(answer)
    BY <1>1, <1>2, <1>3 DEF WindowsOK, WindowsAsked, WindowsQueries, EmptyPaths
  <2>2. result' = WindowsResult(answer) /\ GateErrors(section', result') = WindowsErrors(result')
    BY <1>1, <1>3 DEF Judge, GateErrors
  <2> QED BY <2>1, <2>2, WindowsUnblamed
<1>4. CASE section = "clock"
  <2>1. Covers(answer, EmptyPaths("clock")) /\ ClockKept /\ pc.bias \in Int
    BY <1>1, <1>2, <1>4 DEF ClockOK, ClockAsked, ClockQueries, EmptyPaths
  <2>2. result' = ClockResult(answer) /\ GateErrors(section', result') = ClockErrors(result')
    BY <1>1, <1>4 DEF Judge, GateErrors
  <2>3. \A e \in ClockErrors(ClockResult(answer)) : e[1] = "offset" /\ Away(pc.bias)
    BY <2>1, ClockBlamed DEF ClockKept
  <2>4. \A e \in ClockErrors(result') : Explains(e, section', pc', seen')
    BY <1>1, <2>2, <2>3, OffsetExplained
  <2> QED BY <2>2, <2>4
<1>5. CASE section = "firmware"
  <2>1. Covers(answer, ToSet(FirmwareQueries)) /\ FirmwareKept
        /\ (pc.date # Null => pc.date.year \in Nat)
    <3>1. ToSet(FirmwareQueries) = {"vendor", "version", "release_date", "interface_type",
                                    "secure_boot_enabled", "status"}
      BY DEF ToSet, FirmwareQueries
    <3> QED BY <1>1, <1>2, <1>5, <3>1 DEF FirmwareOK, FirmwareAsked, FirmwareQueries
  <2>2. result' = FirmwareResult(answer) /\ GateErrors(section', result') = FirmwareErrors(result')
    BY <1>1, <1>5 DEF Judge, GateErrors
  <2>3. DOMAIN answer.values = {"vendor", "version", "release_date", "interface_type",
                                "secure_boot_enabled", "status"}
    BY <1>1, <1>2, <1>5 DEF FirmwareOK, FirmwareAsked, FirmwareQueries, Covers
  <2>4. \A e \in FirmwareErrors(FirmwareResult(answer)) : e[1] = "date" /\ pc.date.year > 9999
    <3>1. /\ "interface_type" \in DOMAIN answer.reasons => answer.said # {}
          /\ \/ answer.values["release_date"] = Null
             \/ answer.values["release_date"] = pc.date /\ IsDay(pc.date)
          /\ answer.values["interface_type"] = "bios" =>
                answer.values["secure_boot_enabled"] = Null
      BY <2>1, <2>3 DEF FirmwareKept
    <3> QED BY <2>1, <3>1, FirmwareBlamed
  <2> QED BY <1>1, <2>2, <2>4, DateExplained
<1>6. CASE section = "memory"
  <2>1. Covers(answer, EmptyPaths("memory")) /\ Voiced(answer) /\ MemoryWithin(answer.values)
    BY <1>1, <1>2, <1>6 DEF MemoryOK, MemoryAsked, MemoryQueries, EmptyPaths
  <2>2. result' = MemoryResult(answer) /\ GateErrors(section', result') = MemoryErrors(result')
    BY <1>1, <1>6 DEF Judge, GateErrors
  <2> QED BY <2>1, <2>2, MemoryUnblamed
<1> QED BY <1>3, <1>4, <1>5, <1>6 DEF Fixed

\* Nor does a worker that was lost.
LEMMA LoseOK ==
    ASSUME Lose, section \in Fixed
    PROVE  GateErrors(section', result') = {}
<1> DEFINE paths == EmptyPaths(section)
<1>1. result' = Lost(paths) /\ section' = section
  BY DEF Lose
<1> HIDE DEF paths
<1>2. StatusErrors(Lost(paths)) = {} /\ FailureErrors(Lost(paths)) = {} /\ \A p \in paths : Lost(paths).values[p] = Null
  BY LostUnblamed
<1>3. CASE section = "windows"
  BY <1>1, <1>2, <1>3 DEF GateErrors, WindowsErrors
<1>4. CASE section = "clock"
  <2>1. "utc_offset_minutes" \in paths
    BY <1>4 DEF paths, EmptyPaths
  <2>2. OffsetErrors(Lost(paths)) = {}
    BY <1>2, <2>1 DEF OffsetErrors
  <2> QED BY <1>1, <1>2, <1>4, <2>2 DEF GateErrors, ClockErrors
<1>5. CASE section = "firmware"
  <2>1. "release_date" \in paths /\ "secure_boot_enabled" \in paths
    BY <1>5 DEF paths, EmptyPaths, ToSet, FirmwareQueries
  <2>2. FirmwareValueErrors(Lost(paths)) = {}
    BY <1>2, <2>1 DEF FirmwareValueErrors
  <2> QED BY <1>1, <1>2, <1>5, <2>2 DEF GateErrors, FirmwareErrors
<1>6. CASE section = "memory"
  <2>1. {"available", "commit_available", "virtual_available"} \subseteq paths
    BY <1>6 DEF paths, EmptyPaths, GlobalFields
  <2>2. MemoryValueErrors(Lost(paths)) = {}
    <3> DEFINE r == Lost(paths)
    <3>1. \A x \in {<<"available", "total">>, <<"commit_available", "limit">>,
                    <<"virtual_available", "virtual_total">>} : ~Exceeds(r.values, x[1], x[2])
      BY <1>2, <2>1 DEF Exceeds
    <3> HIDE DEF r
    <3>2. MemoryValueErrors(r) = {}
      BY <3>1 DEF MemoryValueErrors
    <3> QED BY <3>2 DEF r
  <2>3. Lost(paths).status = "failed"
    BY DEF Lost, Unreasoned, Result
  <2>4. MemoryErrors(Lost(paths)) = {}
    BY <1>2, <2>2, <2>3 DEF MemoryErrors
  <2> QED BY <1>1, <1>6, <2>4 DEF GateErrors
<1> QED BY <1>3, <1>4, <1>5, <1>6 DEF Fixed

LEMMA StepOK == IInv /\ [Next]_vars => IInv'
<1> SUFFICES ASSUME IInv, [Next]_vars, section' \in Fixed PROVE IInv'
  BY DEF IInv
<1>1. section' = section
  BY DEF vars, later, Next, Work, Change, GiveUp, Lose, Return, Gate, Evaluate, AskWindows,
     AskClock, AskFirmware, AskMemory, AskSecurity, AskCpu, AskGpu, AskDevices, AskEventLogs,
     AskUpdates, AskRuntime, Hear, See, Ask, SwitchProcessor, PlugCard, UnplugCard,
     InstallUpdate, ClearHistory, Changing
<1>2. CASE AskWindows
  <2>1. /\ section = "windows" /\ stage = "collecting" /\ WindowsOK
        /\ UNCHANGED <<pc, changes, seen, later>>
    BY <1>1, <1>2 DEF AskWindows, Hear, Ask, IInv
  <2>2. WindowsOK'
    BY <1>2, <2>1, WindowsHears
  <2> QED BY <1>1, <2>1, <2>2, RefusalNow, RefusalThen DEF IInv, later, ClockOK, FirmwareOK, MemoryOK
<1>3. CASE AskClock
  <2>1. /\ section = "clock" /\ stage = "collecting" /\ ClockOK
        /\ UNCHANGED <<pc, changes, seen, later>>
    BY <1>1, <1>3 DEF AskClock, Hear, Ask, IInv
  <2>2. ClockOK'
    BY <1>3, <2>1, ClockHears
  <2> QED BY <1>1, <2>1, <2>2, RefusalNow, RefusalThen DEF IInv, later, WindowsOK, FirmwareOK, MemoryOK
<1>4. CASE AskFirmware
  <2>1. /\ section = "firmware" /\ stage = "collecting" /\ FirmwareOK
        /\ UNCHANGED <<pc, changes, seen, later>>
    BY <1>1, <1>4 DEF AskFirmware, Hear, Ask, IInv
  <2>2. FirmwareOK'
    BY <1>4, <2>1, FirmwareHears
  <2> QED BY <1>1, <2>1, <2>2, RefusalNow, RefusalThen DEF IInv, later, WindowsOK, ClockOK, MemoryOK
<1>5. CASE Return
  <2>1. stage' = "gate" /\ UNCHANGED <<pc, changes, seen, errors>>
    BY <1>5 DEF Return
  <2> QED BY <1>1, <1>5, <2>1, ReturnOK, RefusalNow, RefusalThen DEF IInv
<1>6. CASE Lose
  <2>1. stage' = "gate" /\ UNCHANGED <<pc, changes, seen, errors>>
    BY <1>6 DEF Lose
  <2> QED BY <1>1, <1>6, <2>1, LoseOK, RefusalNow, RefusalThen DEF IInv
<1>7. CASE Gate
  <2>1. /\ stage = "gate" /\ stage' \in {"rules", "done"} /\ errors' = GateErrors(section, result)
        /\ UNCHANGED <<pc, changes, seen>>
    BY <1>7 DEF Gate
  <2>2. \A e \in errors' : Explains(e, section', pc', seen')
    BY <1>1, <2>1 DEF IInv
  <2>3. ExplainedRefusal'
    BY <2>2, RefusalThen
  <2> QED BY <2>1, <2>3 DEF IInv
<1>8. CASE Evaluate
  <2>1. stage' = "done" /\ UNCHANGED <<pc, changes, seen, errors>>
    BY <1>8 DEF Evaluate
  <2> QED BY <1>1, <2>1, RefusalNow, RefusalThen DEF IInv
<1>9. CASE UNCHANGED vars
  <2>1. ExplainedRefusal'
    BY <1>1, <1>9, RefusalNow, RefusalThen DEF vars, IInv
  <2>2. stage = "collecting" => WindowsOK' /\ ClockOK' /\ FirmwareOK' /\ MemoryOK'
    BY <1>1, <1>9 DEF vars, IInv, WindowsOK, WindowsAsked, ClockOK, ClockAsked, ClockKept,
       FirmwareOK, FirmwareAsked, FirmwareKept, MemoryOK, MemoryAsked
  <2> QED BY <1>1, <1>9, <2>1, <2>2 DEF vars, IInv
<1>10. CASE AskMemory
  <2>1. /\ section = "memory" /\ stage = "collecting" /\ MemoryOK
        /\ UNCHANGED <<pc, changes, seen, later>>
    BY <1>1, <1>10 DEF AskMemory, Hear, Ask, IInv
  <2>2. MemoryOK'
    BY <1>10, <2>1, MemoryHears
  <2> QED BY <1>1, <2>1, <2>2, RefusalNow, RefusalThen
          DEF IInv, later, WindowsOK, ClockOK, FirmwareOK
<1> QED BY <1>1, <1>2, <1>3, <1>4, <1>5, <1>6, <1>7, <1>8, <1>9, <1>10, Quiet DEF Next, Work

LEMMA Invariance == Spec => []IInv
BY InitOK, StepOK, PTL DEF Spec
=============================================================================
