------------------------------ MODULE Hardware ------------------------------
(***************************************************************************)
(* The collectors that list hardware: cpu.rs, gpu.rs and devices.rs of     *)
(* pcdiag-windows, and what the gate asks of them.  <<i, f>> is field f of *)
(* entry i; <<0, f>> is a field of the section, or the list as a whole.    *)
(***************************************************************************)
EXTENDS Answers

Entries(values) == {p[1] : p \in DOMAIN values} \ {0}

\* The sum of a field: as many pairs of an entry and a number up to its value.
Total(values, f) == Cardinality(UNION {{i} \X (1 .. values[<<i, f>>]) : i \in Entries(values)})

\* Two entries of a list with the same identity.
Twins(r, f) ==
    {<<"twin", j>> : j \in {k \in Entries(r.values) : r.values[<<k, f>>] # Null /\
        \E i \in Entries(r.values) : i < k /\ r.values[<<i, f>>] = r.values[<<k, f>>]}}

\* A list of hardware may be successful with values that do not apply.
ListErrors(r) ==
    CASE r.status = "success" ->
             FieldErrors(r, Nulls(r.values)) \cup
             {<<"not_success", p>> : p \in {q \in DOMAIN r.fields : r.fields[q] # "not_applicable"}}
      [] r.status = "partial" -> FieldErrors(r, Nulls(r.values))
      [] r.status = "failed" -> FailureErrors(r)

-----------------------------------------------------------------------------
(* Processors: a package and a core are the sets of their logical processors *)

CpuQueries == <<"packages", "cores", "identity">>

\* The cores that share a processor with the package.
CoresOf(package, cores) == {i \in DOMAIN cores : cores[i] \cap package # {}}

FeatureFields == {"instruction_sets", "virtualization", "hypervisor"}
CpuFields == FeatureFields \cup {"architecture", "physical_packages", "physical_cores",
                                "logical_processors", "packages"}
CpuFailure == Missed({<<0, f>> : f \in CpuFields}, "failed", "cpu")

\* What all the packages can do, if all of them could be identified; on ARM the
\* system is asked instead, which knows of instruction sets only.
Features(identity, arm) ==
    LET known == \A i \in DOMAIN identity : identity[i] # Null
    IN  [f \in FeatureFields |->
           CASE f = "instruction_sets" /\ known ->
                   {x \in UNION ToSet(identity) : \A i \in DOMAIN identity : x \in identity[i]}
             [] f = "instruction_sets" /\ ~known /\ arm -> {"neon"}
             [] f # "instruction_sets" /\ known -> Known
             [] OTHER -> Null]

\* The packages and the cores come from two queries: a package without a core, and
\* an empty list, make the whole collector fail.  Packages that cannot be identified
\* have no names, and a message each.
CpuAnswer(packages, cores, identity, arm) ==
    LET shape == [p \in (DOMAIN packages) \X {"cores", "logical"} |->
                    IF p[2] = "cores" THEN Cardinality(CoresOf(packages[p[1]], cores))
                    ELSE Cardinality(packages[p[1]])]
        features == Features(identity, arm)
        names == [p \in (DOMAIN packages) \X {"manufacturer", "model"} |->
                    IF identity[p[1]] = Null THEN Null ELSE Known]
        section == [p \in {0} \X CpuFields |->
                      CASE p[2] = "physical_cores" -> Total(shape, "cores")
                        [] p[2] = "logical_processors" -> Total(shape, "logical")
                        [] p[2] \in {"physical_packages", "packages"} -> Len(packages)
                        [] p[2] = "architecture" -> Known
                        [] OTHER -> features[p[2]]]
        values == Beside(shape, Beside(names, section))
    IN  IF packages = <<>> \/ cores = <<>> \/ \E p \in DOMAIN shape : shape[p] = 0
        THEN CpuFailure
        ELSE Answer(values,
                    [p \in Nulls(values) |-> IF p[1] = 0 THEN "unsupported" ELSE "failed"],
                    {m \in {"identity"} : \E i \in DOMAIN identity : identity[i] = Null})

CpuResult(answer) ==
    CASE <<0, "packages">> \in Nulls(answer.values) -> Unreasoned(Result("failed", answer))
      [] <<0, "packages">> \notin Nulls(answer.values) /\ DOMAIN answer.reasons # {} ->
            Result("partial", answer)
      [] OTHER -> Result("success", answer)

\* The numbers of the section against those of its packages.
CpuNumberErrors(r) ==
    LET v == r.values
        packages == Entries(v)
    IN  IF v[<<0, "packages">>] = Null THEN {} ELSE
           {<<"zero", p>> : p \in {q \in packages \X {"cores", "logical"} : v[q] = 0}} \cup
           {<<"fewer", i>> : i \in {j \in packages : v[<<j, "logical">>] < v[<<j, "cores">>]}} \cup
           {<<"count", f>> : f \in
              {x \in {"physical_packages"} : v[<<0, x>>] # Cardinality(packages)} \cup
              {x \in {"physical_cores"} : v[<<0, x>>] # Total(v, "cores")
                                          \/ v[<<0, x>>] < v[<<0, "physical_packages">>]} \cup
              {x \in {"logical_processors"} : v[<<0, x>>] # Total(v, "logical")
                                              \/ v[<<0, x>>] < v[<<0, "physical_cores">>]}}

CpuErrors(r) == StatusErrors(r) \cup CpuNumberErrors(r)

-----------------------------------------------------------------------------
(* Graphics adapters: what DXGI lists, with what SetupAPI knows of each *)

\* DXGI knows the adapters there were when its factory was made; SetupAPI is asked next.
GpuQueries == <<"adapters", "displays">>

\* The PCI numbers SetupAPI knows are a part of the instance id: there are none when
\* the id cannot be read or is not that of a PCI device, and they need not be the ones
\* DXGI has, which are always there.
PciSaid(card) == IF card.unread THEN Null ELSE card.parsed

\* A display device; the driver is asked for its LUID, which it may not know.
Display(card) ==
    [luid |-> IF card.shy THEN Null ELSE card.id, pci |-> PciSaid(card),
     instance |-> IF card.unread THEN Null ELSE card.id,
     driver |-> IF card.mute THEN Null ELSE Known, started |-> IF card.mute THEN Null ELSE ~card.stopped,
     problem |-> IF card.mute THEN Null ELSE IF card.stopped THEN 43 ELSE 0]

\* SetupAPI lists the cards that are hardware; DXGI lists all.
Displays(cards) == {Display(card) : card \in {c \in ToSet(cards) : c.type = "hardware"}}

\* A display device that says neither is useless, and a message says so.
DisplaysSaid(displays) == {m \in {"identity"} : \E d \in displays : d.luid = Null /\ d.pci = Null}

\* The one device with the LUID of the adapter, else the one with the PCI numbers that
\* DXGI has of it, be it another's, else none.
MatchDetails(card, displays) ==
    LET byLuid == {d \in displays : d.luid = card.id}
        byPci == {d \in displays : d.pci = card.pci}
    IN  CASE Cardinality(byLuid) = 1 -> byLuid
          [] Cardinality(byLuid) # 1 /\ Cardinality(byPci) = 1 -> byPci
          [] OTHER -> {}

\* An adapter without a device is worth a message, unless it is software that no
\* device could be; so are several devices with its numbers.
MatchSaid(card, displays) ==
    {m \in {"match"} : MatchDetails(card, displays) = {} /\
        (card.type = "hardware" \/ \E d \in displays : d.pci = card.pci)}

\* MissingStatus, were every adapter treated like a software one.
MissingStatusAny(type) == "not_applicable"
MissingStatus(type) == IF type = "software" THEN "not_applicable" ELSE "source_null"

\* An adapter has a vendor when its number is known, and a state when it has a device.
MapAdapter(card, displays) ==
    LET none == [instance |-> Null, driver |-> Null, started |-> Null, problem |-> Null]
        matches == MatchDetails(card, displays)
        device == IF matches = {} THEN none ELSE CHOOSE d \in matches : TRUE
    IN  [name |-> IF card.named THEN Known ELSE Null, type |-> card.type,
         vendor_id |-> IF card.vendor = "large" THEN Null ELSE Known,
         vendor |-> IF card.vendor = "listed" THEN Known ELSE Null,
         instance |-> device.instance, driver |-> device.driver,
         started |-> device.started, problem |-> device.problem]

\* Why a value of an adapter is missing.
GpuReason(f, type) ==
    CASE f = "vendor_id" -> "invalid_value"
      [] f = "vendor" -> "source_null"
      [] OTHER -> MissingStatus(type)

GpuFailure == Missed({<<0, "gpus">>}, "failed", "dxgi")

\* A name may be blank: that is a null without a reason.
GpuAnswer(cards, displays, said) ==
    LET gpus == [i \in DOMAIN cards |-> MapAdapter(cards[i], displays)]
        paths == UNION {{i} \X DOMAIN gpus[i] : i \in DOMAIN gpus}
        missing == {p \in paths : gpus[p[1]][p[2]] = Null /\ p[2] # "name"}
    IN  Answer([p \in paths \cup {<<0, "gpus">>} |->
                  IF p[1] = 0 THEN Len(cards) ELSE gpus[p[1]][p[2]]],
               [p \in missing |-> GpuReason(p[2], cards[p[1]].type)],
               said \cup UNION {MatchSaid(cards[i], displays) : i \in DOMAIN cards})

GpuResult(answer) ==
    CASE <<0, "gpus">> \in Nulls(answer.values) -> Unreasoned(Result("failed", answer))
      [] /\ <<0, "gpus">> \notin Nulls(answer.values)
         /\ answer.said = {} /\ Range(answer.reasons) \subseteq {"not_applicable"} ->
            Result("success", answer)
      [] OTHER -> Result("partial", answer)

\* Messages are not looked at.
GpuErrors(r) == ListErrors(r) \cup Twins(r, "instance")

-----------------------------------------------------------------------------
(* Devices: the connected ones and those that were connected once *)

DeviceQueries == <<"devices">>

MapDevice(i, d) ==
    [name |-> IF d.named THEN Known ELSE Null, instance |-> i, present |-> d.present,
     started |-> IF d.problem = Null THEN Null ELSE Known, problem |-> d.problem]

\* The state of a device that is known to be absent does not apply.
DeviceReason(f, d) ==
    IF f \in {"started", "problem"} /\ d.present = FALSE THEN "not_applicable" ELSE "source_null"

DeviceFailure == Missed({<<0, "devices">>}, "failed", "setupapi")

DeviceAnswer(devices) ==
    LET mapped == [i \in DOMAIN devices |-> MapDevice(i, devices[i])]
        paths == UNION {{i} \X DOMAIN mapped[i] : i \in DOMAIN mapped}
    IN  Answer([p \in paths \cup {<<0, "devices">>} |->
                  IF p[1] = 0 THEN Len(devices) ELSE mapped[p[1]][p[2]]],
               [p \in {q \in paths : mapped[q[1]][q[2]] = Null} |->
                  DeviceReason(p[2], devices[p[1]])], {})

DeviceResult(answer) ==
    CASE <<0, "devices">> \in Nulls(answer.values) -> Unreasoned(Result("failed", answer))
      [] /\ <<0, "devices">> \notin Nulls(answer.values)
         /\ Range(answer.reasons) \subseteq {"not_applicable"} -> Result("success", answer)
      [] OTHER -> Result("partial", answer)

DeviceErrors(r) ==
    ListErrors(r) \cup Twins(r, "instance") \cup
    {<<"absent", p>> : p \in {q \in DOMAIN r.fields : q[2] \in {"started", "problem"} /\
        q \in DOMAIN r.values /\ r.values[<<q[1], "present">>] = FALSE /\
        r.fields[q] # "not_applicable"}}
=============================================================================
