--------------------------- MODULE StorageProofs ---------------------------
(***************************************************************************)
(* What the four storage collectors, the gate and the rules make of a PC,  *)
(* for any number of devices, whatever they are like: a refusal has its    *)
(* cause in the PC, "success" is complete, what a device has reported is   *)
(* found, what has passed was measured, and a diagnosis of an accepted     *)
(* collection is valid.                                                    *)
(***************************************************************************)
EXTENDS Storage, FiniteSetTheorems, TLAPS

-----------------------------------------------------------------------------
(* The inductive invariant. *)

\* No two devices have one number.
PlacesDiffer == \A d, e \in Devices : d # e /\ place[d] = place[e] => place[d] = Null

\* The collectors that have returned or were lost.
Past == CASE stage = "physical_disks" -> {}
          [] stage = "partitions" -> {"physical_disks"}
          [] stage = "volumes" -> {"physical_disks", "partitions"}
          [] stage = "smart" -> {"physical_disks", "partitions", "volumes"}
          [] OTHER -> Collectors

VolumeCapacity(d) == IF Is(d, "empty") THEN 0 ELSE IF Is(d, "quota") THEN 3 ELSE 8
VolumeFree(d) == IF Is(d, "full") \/ Is(d, "empty") THEN 0 ELSE 4
Mounts(d) == IF Is(d, "hidden") THEN {} ELSE {place[d]}

\* A volume's values are those of its device, or missing.
VolumeOf(d, v) ==
    /\ v.capacity_bytes \in {Null, VolumeCapacity(d)}
    /\ v.free_bytes \in {Null, VolumeFree(d)}
    /\ v.capacity_bytes = Null <=> v.free_bytes = Null
    /\ Undisturbed => /\ d \in Connected
                      /\ v.mount_points \in {Null, Mounts(d)}
                      /\ v.extents \in {Null, {[disk_number |-> place[d], end |-> Capacity(d)]}}

\* What a device has told about its health is true.
SmartOf(d, v) ==
    /\ v.protocol = "failure_prediction" => v.predict_failure = Is(d, "failing")
    /\ v.protocol = "nvme" => /\ v.critical_warning = IF Is(d, "failing") THEN 1 ELSE 0
                              /\ v.percentage_used = IF Is(d, "failing") THEN 100 ELSE 99

\* What a collector writes comes from a device.
TrueDisk(v) ==
    Undisturbed => \E d \in Connected : /\ v.number = place[d] /\ ~Is(d, "locked")
                                        /\ v.capacity_bytes \in {Null, Capacity(d)}
TruePartition(v) ==
    Undisturbed => \E d \in Connected : v.disk_number = place[d] /\ v.end = Capacity(d)
TrueVolume(v) == \E d \in Devices : VolumeOf(d, v)
TrueSmart(v) ==
    /\ v.available_spare_percent = 101 => \E d \in Devices : Is(d, "spent")
    /\ Undisturbed => \E d \in Connected : v.disk_number = place[d] /\ SmartOf(d, v)

True(c, v) ==
    /\ c = "physical_disks" => TrueDisk(v)
    /\ c = "partitions" => TruePartition(v)
    /\ c = "volumes" => TrueVolume(v)
    /\ c = "smart" => TrueSmart(v)

\* One of the values is about the device d.
About(c, d, v) ==
    /\ c = "physical_disks" => v.number = place[d]
    /\ c \in {"partitions", "smart"} => v.disk_number = place[d]
    /\ c = "volumes" => VolumeOf(d, v)

\* A device may be left out only with a message, and a disk only if locked.
Excused(c, d, messages) ==
    messages /\ (c = "partitions" \/ (c = "physical_disks" /\ Is(d, "locked")))

\* No two volumes have one mount point.
Apart(values) ==
    \A i, j \in DOMAIN values :
      i # j /\ values[i].mount_points # Null /\ values[j].mount_points # Null =>
        values[i].mount_points \cap values[j].mount_points = {}

\* What is listed under stage c for a device.
Listed(c, d) == IF c = "volumes" THEN d ELSE place[d]

\* The values so far.
Values == [i \in DOMAIN out |-> out[i].value]

\* Before it lists, a collector has nothing; afterwards each connected device is
\* listed still, or has its entry, or is excused.
Collecting ==
    /\ stage \notin Collectors => todo = Null
    /\ todo = Null => out = <<>> /\ said = FALSE
    /\ out \in Seq({out[i] : i \in DOMAIN out})
    /\ \A i \in DOMAIN out :
         /\ True(stage, out[i].value)
         /\ stage = "smart" /\ out[i].value.protocol = "unknown" =>
              /\ out[i].value.predict_failure = Null
              /\ "predict_failure" \in DOMAIN out[i].missing
              /\ out[i].missing["predict_failure"] # "not_applicable"
    /\ Undisturbed /\ todo # Null =>
         /\ \A k \in DOMAIN todo : \E d \in Connected : todo[k] = Listed(stage, d)
         /\ \A d \in Connected : \/ \E k \in DOMAIN todo : todo[k] = Listed(stage, d)
                                 \/ \E i \in DOMAIN out : About(stage, d, out[i].value)
                                 \/ Excused(stage, d, said)
    /\ Undisturbed /\ todo # Null /\ stage = "volumes" =>
         /\ Len(out) + Len(todo) = Cardinality(Connected)
         /\ \A k, l \in DOMAIN todo : todo[k] = todo[l] => k = l
         /\ Apart(Values)
         /\ \A i \in DOMAIN out, k \in DOMAIN todo :
              out[i].value.mount_points # Null => place[todo[k]] \notin out[i].value.mount_points

\* The status a collector returns agrees with its nulls, their reasons and its
\* messages.
Agreed(c, r) ==
    /\ r.status \in {"success", "partial"}
    /\ \A f \in r.fields :
         \E i \in DOMAIN r.values : \E g \in Nulls(r.values[i]) : f.path = <<c, i, g>>
    /\ \A i \in DOMAIN r.values : \A g \in Nulls(r.values[i]) :
         \E f \in r.fields : f.path = <<c, i, g>>
    /\ r.status = "success" => ~r.messages /\ \A f \in r.fields : Harmless(c, f)

Sound(c, r) ==
    IF r.values = Null THEN r.fields = {} /\ r.messages /\ r.status = "failed"
    ELSE /\ Agreed(c, r)
         /\ \A i \in DOMAIN r.values :
              /\ True(c, r.values[i])
              /\ c = "smart" /\ r.values[i].protocol = "unknown" => r.status # "success"
         /\ Undisturbed =>
              /\ \A d \in Connected : \/ \E i \in DOMAIN r.values : About(c, d, r.values[i])
                                      \/ Excused(c, d, r.messages)
              /\ c = "volumes" => Len(r.values) = Cardinality(Connected) /\ Apart(r.values)

\* What the rules say of the results.
Rulings ==
    [smart_failure_prediction |->
        SmartRule("failure_prediction", "predict_failure", {TRUE}, PredictionAbsent),
     nvme_critical_warning |-> SmartRule("nvme", "critical_warning", {1}, NvmeAbsent),
     nvme_percentage_used |-> SmartRule("nvme", "percentage_used", {100}, NvmeAbsent),
     volume_free_space |-> VolumeRule]

Judged ==
    /\ stage # "done" => errors = {}
    /\ stage = "done" /\ errors = {} => evaluations = Rulings

IInv ==
    /\ TypeOK
    /\ PlacesDiffer
    /\ DOMAIN result = Past
    /\ Collecting
    /\ \A c \in DOMAIN result : Sound(c, result[c])
    /\ Judged
    /\ ExplainedRefusal

-----------------------------------------------------------------------------
(* Devices and what is listed. *)

LEMMA FinishAdds ==
    ASSUME NEW c \in Collectors, NEW outcome, c \notin DOMAIN result, Finish(c, outcome)
    PROVE  /\ DOMAIN result' = DOMAIN result \cup {c}
           /\ result'[c] = outcome
           /\ \A x \in DOMAIN result : result'[x] = result[x]
  BY DEF Finish

\* An injection of a finite set into one of its size misses nothing.
LEMMA ListsAll ==
    ASSUME NEW S, IsFiniteSet(S), NEW q \in SetToSeqs(S)
    PROVE  /\ q \in Seq(S) /\ Len(q) = Cardinality(S) /\ Cardinality(S) \in Nat
           /\ \A i, j \in DOMAIN q : q[i] = q[j] => i = j
           /\ \A x \in S : \E i \in DOMAIN q : q[i] = x
<1>1. Cardinality(S) \in Nat
  BY FS_CardinalityType
<1> DEFINE n == Cardinality(S)
<1>2. /\ q \in [1..n -> S]
      /\ \A i, j \in 1..n : i # j => q[i] # q[j]
  BY DEF SetToSeqs
<1>3. q \in Seq(S) /\ Len(q) = n /\ DOMAIN q = 1..n
  BY <1>1, <1>2
<1>4. q \in Injection(1..n, S)
  BY <1>2 DEF Injection, IsInjective
<1>5. IsFiniteSet(1..n) /\ Cardinality(1..n) = n
  BY <1>1, FS_Interval
<1>6. q \in Surjection(1..n, S)
  BY <1>4, <1>5, FS_Injection
<1> QED BY <1>1, <1>2, <1>3, <1>6 DEF Surjection

LEMMA PlacesFinite ==
    ASSUME IInv
    PROVE  /\ IsFiniteSet(Connected) /\ Cardinality(Connected) \in Nat
           /\ IsFiniteSet({place[d] : d \in Connected})
           /\ {place[d] : d \in Connected} \subseteq Numbers
<1>1. IsFiniteSet(Connected)
  BY StorageAssumption, FS_Subset DEF Connected
<1>2. Cardinality(Connected) \in Nat
  BY <1>1, FS_CardinalityType
<1>3. [d \in Connected |-> place[d]] \in Surjection(Connected, {place[d] : d \in Connected})
  BY DEF Surjection
<1>4. IsFiniteSet({place[d] : d \in Connected})
  BY <1>1, <1>3, FS_Surjection
<1>5. {place[d] : d \in Connected} \subseteq Numbers
  BY DEF IInv, TypeOK, Connected
<1> QED BY <1>1, <1>2, <1>4, <1>5

LEMMA AppendIs ==
    ASSUME NEW s, s \in Seq({s[i] : i \in DOMAIN s}), NEW x, NEW t, t = Append(s, x)
    PROVE  /\ Len(s) \in Nat /\ DOMAIN s = 1..Len(s)
           /\ Len(t) = Len(s) + 1 /\ DOMAIN t = 1..(Len(s) + 1)
           /\ \A i \in 1..Len(s) : t[i] = s[i]
           /\ t[Len(s) + 1] = x
           /\ t \in Seq({t[i] : i \in DOMAIN t})
<1> DEFINE S == {s[i] : i \in DOMAIN s}
<1>1. Len(s) \in Nat /\ DOMAIN s = 1..Len(s) /\ s \in Seq(S \cup {x})
  OBVIOUS
<1>2. t \in Seq(S \cup {x}) /\ Len(t) = Len(s) + 1
  BY <1>1
<1>3. /\ DOMAIN t = 1..(Len(s) + 1)
      /\ \A i \in 1..Len(s) : t[i] = s[i]
      /\ t[Len(s) + 1] = x
  BY <1>1, <1>2
<1>4. t \in Seq({t[i] : i \in DOMAIN t})
  BY <1>2
<1> QED BY <1>1, <1>2, <1>3, <1>4

\* What stays true while the PC does.
LEMMA PcSame ==
    ASSUME UNCHANGED pc
    PROVE  /\ Undisturbed' = Undisturbed /\ Connected' = Connected
           /\ \A d : Is(d, "locked")' = Is(d, "locked")
           /\ PlacesDiffer' = PlacesDiffer
           /\ \A c, d : Listed(c, d)' = Listed(c, d)
           /\ \A c, d, v : About(c, d, v)' = About(c, d, v)
           /\ \A c, d, m : Excused(c, d, m)' = Excused(c, d, m)
           /\ \A c, v : True(c, v)' = True(c, v)
           /\ \A c, r : Sound(c, r)' = Sound(c, r)
<1>1. trait' = trait /\ place' = place /\ changes' = changes
  BY DEF pc
<1>2. Undisturbed' = Undisturbed /\ Connected' = Connected /\ PlacesDiffer' = PlacesDiffer
  BY <1>1 DEF Undisturbed, Connected, PlacesDiffer
<1>3. \A d, x : Is(d, x)' = Is(d, x)
  BY <1>1 DEF Is
<1>4. \A d : Capacity(d)' = Capacity(d)
  BY <1>1 DEF Capacity, Is
<1>5. \A d, v : VolumeOf(d, v)' = VolumeOf(d, v)
  BY <1>1 DEF VolumeOf, VolumeCapacity, VolumeFree, Mounts, Capacity, Is, Undisturbed, Connected
<1>6. /\ \A c, d : Listed(c, d)' = Listed(c, d)
      /\ \A c, d, v : About(c, d, v)' = About(c, d, v)
      /\ \A c, d, m : Excused(c, d, m)' = Excused(c, d, m)
  BY <1>1, <1>3, <1>5 DEF Listed, About, Excused
<1>7. \A c, v : True(c, v)' = True(c, v)
  BY <1>1 DEF True, TrueDisk, TruePartition, TrueVolume, TrueSmart, SmartOf, VolumeOf,
              VolumeCapacity, VolumeFree, Mounts, Capacity, Is, Undisturbed, Connected
<1>8. \A c, r : Sound(c, r)' = Sound(c, r)
  <2> SUFFICES ASSUME NEW c, NEW r PROVE Sound(c, r)' = Sound(c, r)
    OBVIOUS
  <2>1. /\ \A d, v : About(c, d, v)' = About(c, d, v)
        /\ \A d, m : Excused(c, d, m)' = Excused(c, d, m)
        /\ \A v : True(c, v)' = True(c, v)
    BY <1>6, <1>7
  <2>2. Agreed(c, r)' = Agreed(c, r)
    BY DEF Agreed
  <2> QED BY <1>2, <2>1, <2>2, Zenon DEF Sound
<1> QED BY <1>2, <1>3, <1>6, <1>7, <1>8

-----------------------------------------------------------------------------
(* The steps of a collector. *)

\* What a collector that runs leaves to the others.
LEMMA RunningKeeps ==
    ASSUME IInv, stage \in Collectors, UNCHANGED <<pc, stage, result, errors, evaluations>>
    PROVE  /\ PlacesDiffer'
           /\ (DOMAIN result = Past)'
           /\ (\A c \in DOMAIN result : Sound(c, result[c]))'
           /\ Judged' /\ ExplainedRefusal'
           /\ errors = {} /\ errors' = {}
<1>1. PlacesDiffer' /\ (DOMAIN result = Past)'
  BY PcSame DEF IInv, Past
<1>2. (\A c \in DOMAIN result : Sound(c, result[c]))'
  <2> SUFFICES ASSUME NEW c \in DOMAIN result PROVE Sound(c, result[c])'
    OBVIOUS
  <2>1. \A r : Sound(c, r)' = Sound(c, r)
    BY PcSame
  <2>2. Sound(c, result[c]) /\ result'[c] = result[c]
    BY DEF IInv
  <2>3. Sound(c, result[c])' = Sound(c, result[c])
    BY <2>1, <2>2
  <2> QED BY <2>2, <2>3
<1>3. errors = {} /\ errors' = {}
  BY DEF IInv, Judged, Collectors
<1>4. Judged' /\ ExplainedRefusal'
  BY <1>3 DEF Judged, ExplainedRefusal, Collectors
<1> QED BY <1>1, <1>2, <1>3, <1>4

LEMMA ListKeeps ==
    ASSUME IInv, List
    PROVE  IInv'
<1>1. /\ stage \in Collectors /\ todo = Null /\ out = <<>> /\ said = FALSE
      /\ UNCHANGED <<pc, stage, result, errors, evaluations>>
      /\ out' = out /\ said' = said /\ faults' = faults /\ stage' = stage
  BY DEF List, IInv, Collecting
<1> DEFINE S == IF stage = "volumes" THEN Connected ELSE {place[d] : d \in Connected}
<1>2. IsFiniteSet(S) /\ S \subseteq (IF stage = "volumes" THEN Devices ELSE Numbers)
  BY PlacesFinite DEF Connected
<1>3. todo' \in SetToSeqs(S)
  BY <1>1 DEF List
<1>4. /\ todo' \in Seq(S) /\ Len(todo') = Cardinality(S)
      /\ \A i, j \in DOMAIN todo' : todo'[i] = todo'[j] => i = j
      /\ \A x \in S : \E i \in DOMAIN todo' : todo'[i] = x
  BY <1>2, <1>3, ListsAll
<1>5. \A d : (d \in Connected => Listed(stage, d) \in S)
             /\ \A x \in S : \E e \in Connected : x = Listed(stage, e)
  BY DEF Listed
<1>6. todo' \in Seq(IF stage = "volumes" THEN Devices ELSE Numbers) /\ todo' # Null
  <2>1. todo' \in Seq(IF stage = "volumes" THEN Devices ELSE Numbers)
    BY <1>2, <1>4
  <2>2. todo' \in Seq(Numbers \cup Devices)
    BY <2>1
  <2> QED BY <2>1, <2>2, NullAssumption
<1>7. TypeOK'
  BY <1>1, <1>6 DEF IInv, TypeOK, pc, Collectors
<1>8. Collecting'
  <2>1. /\ Undisturbed' = Undisturbed /\ Connected' = Connected
        /\ \A d : Listed(stage, d)' = Listed(stage, d)
    BY <1>1, PcSame
  <2>2. (Undisturbed /\ todo # Null =>
         /\ \A k \in DOMAIN todo : \E d \in Connected : todo[k] = Listed(stage, d)
         /\ \A d \in Connected : \/ \E k \in DOMAIN todo : todo[k] = Listed(stage, d)
                                 \/ \E i \in DOMAIN out : About(stage, d, out[i].value)
                                 \/ Excused(stage, d, said))'
    <3>1. \A k \in DOMAIN todo' : \E d \in Connected : todo'[k] = Listed(stage, d)
      <4> SUFFICES ASSUME NEW k \in DOMAIN todo'
                   PROVE  \E d \in Connected : todo'[k] = Listed(stage, d)
        OBVIOUS
      <4>1. todo'[k] \in S
        BY <1>4
      <4> QED BY <1>5, <4>1
    <3>2. \A d \in Connected : \E k \in DOMAIN todo' : todo'[k] = Listed(stage, d)
      BY <1>4, <1>5
    <3> QED BY <1>1, <2>1, <3>1, <3>2
  <2>3. (Undisturbed /\ todo # Null /\ stage = "volumes" =>
         /\ Len(out) + Len(todo) = Cardinality(Connected)
         /\ \A k, l \in DOMAIN todo : todo[k] = todo[l] => k = l
         /\ Apart(Values)
         /\ \A i \in DOMAIN out, k \in DOMAIN todo :
              out[i].value.mount_points # Null => place[todo[k]] \notin out[i].value.mount_points)'
    <3>1. CASE stage = "volumes"
      <4>1. Len(out') + Len(todo') = Cardinality(Connected')
        BY <1>1, <1>4, <2>1, <3>1, PlacesFinite
      <4>2. DOMAIN out' = {} /\ Apart(Values)'
        BY <1>1 DEF Apart, Values
      <4> QED BY <1>4, <4>1, <4>2
    <3>2. CASE stage # "volumes" BY <1>1, <3>2
    <3> QED BY <3>1, <3>2
  <2> QED BY <1>1, <1>6, <2>2, <2>3 DEF Collecting
<1> QED BY <1>1, <1>7, <1>8, RunningKeeps DEF IInv

LEMMA MoveKeeps ==
    ASSUME IInv, NEW d \in Devices, NEW n \in Numbers \cup {Null}, Move(d, n)
    PROVE  IInv'
<1>1. /\ stage \in Collectors /\ (n = Null \/ Vacant(n))
      /\ place' = [place EXCEPT ![d] = n] /\ changes' = changes + 1 /\ changes < MaxChanges
      /\ UNCHANGED <<trait, faults, run, result, errors, evaluations>>
  BY DEF Move
<1>2. /\ changes \in 0..MaxChanges /\ MaxChanges \in Nat /\ place \in [Devices -> Numbers \cup {Null}]
      /\ changes' \in 0..MaxChanges /\ ~Undisturbed'
  BY <1>1, StorageAssumption DEF IInv, TypeOK, Undisturbed
<1>3. TypeOK'
  BY <1>1, <1>2 DEF IInv, TypeOK, run
<1>4. PlacesDiffer'
  BY <1>1, <1>2 DEF IInv, PlacesDiffer, Vacant
<1>5. \A c, v : True(c, v) => True(c, v)'
  BY <1>1, <1>2 DEF True, TrueDisk, TruePartition, TrueVolume, TrueSmart, VolumeOf,
                    VolumeCapacity, VolumeFree, Is, Undisturbed
<1>6. (\A c \in DOMAIN result : Sound(c, result[c]))'
  <2> SUFFICES ASSUME NEW c \in DOMAIN result PROVE Sound(c, result[c])'
    BY <1>1
  <2> DEFINE r == result[c]
  <2>1. Sound(c, r) /\ result'[c] = r
    BY <1>1 DEF IInv
  <2>2. Sound(c, r) => Sound(c, r)'
    BY <1>1, <1>2, <1>5 DEF Sound, Agreed
  <2> QED BY <1>1, <2>1, <2>2
<1>7. Collecting'
  BY <1>1, <1>2, <1>5 DEF IInv, Collecting, run
<1>8. errors' = {} /\ stage' = stage /\ stage # "done"
  <2>1. stage' = stage /\ errors' = errors /\ stage # "done"
    BY <1>1 DEF Collectors, run
  <2> QED BY <2>1 DEF IInv, Judged
<1>9. Judged' /\ ExplainedRefusal' /\ (DOMAIN result = Past)'
  BY <1>1, <1>8 DEF Judged, ExplainedRefusal, IInv, Past
<1> QED BY <1>3, <1>4, <1>6, <1>7, <1>9 DEF IInv

\* The first of a list and the rest.
LEMMA TailIs ==
    ASSUME NEW S, NEW s \in Seq(S), s # <<>>, NEW t, t = Tail(s)
    PROVE  /\ Head(s) = s[1] /\ 1 \in DOMAIN s /\ s[1] \in S
           /\ t \in Seq(S) /\ Len(s) \in Nat /\ Len(s) = Len(t) + 1
           /\ \A k \in DOMAIN t : k + 1 \in DOMAIN s /\ t[k] = s[k + 1]
           /\ \A k \in DOMAIN s : k # 1 => k - 1 \in DOMAIN t /\ t[k - 1] = s[k]
<1>1. Len(s) \in Nat /\ Len(s) >= 1 /\ Head(s) = s[1] /\ s[1] \in S /\ DOMAIN s = 1..Len(s)
  OBVIOUS
<1>2. t \in Seq(S) /\ Len(t) = Len(s) - 1 /\ DOMAIN t = 1..Len(t)
  BY <1>1
<1>3. \A k \in 1..Len(t) : t[k] = s[k + 1]
  BY <1>1, <1>2
<1> QED BY <1>1, <1>2, <1>3

\* What a collector that has listed knows of its list.
LEMMA AtHead ==
    ASSUME IInv, NEW c \in Collectors, Querying(c)
    PROVE  /\ stage = c /\ stage' = c /\ todo # Null /\ todo' # Null /\ todo' = Tail(todo)
           /\ todo \in Seq(IF c = "volumes" THEN Devices ELSE Numbers) /\ todo # <<>>
           /\ todo' \in Seq(IF c = "volumes" THEN Devices ELSE Numbers)
           /\ Head(todo) \in IF c = "volumes" THEN Devices ELSE Numbers
           /\ Undisturbed => \E d \in Connected : Head(todo) = Listed(c, d)
           /\ UNCHANGED <<pc, stage, result, errors, evaluations>>
<1>1. /\ stage = c /\ stage' = c /\ todo # Null /\ todo' = Tail(todo) /\ todo # <<>>
      /\ UNCHANGED <<pc, stage, result, errors, evaluations>>
  BY DEF Querying
<1>2. todo \in Seq(IF c = "volumes" THEN Devices ELSE Numbers)
  BY <1>1 DEF IInv, TypeOK
<1>3. /\ todo' \in Seq(IF c = "volumes" THEN Devices ELSE Numbers)
      /\ Head(todo) \in IF c = "volumes" THEN Devices ELSE Numbers
      /\ Head(todo) = todo[1] /\ 1 \in DOMAIN todo
  BY <1>1, <1>2, TailIs
<1>4. todo' # Null
  <2>1. todo' \in Seq(Numbers \cup Devices)
    BY <1>3
  <2> QED BY <2>1, NullAssumption
<1>5. Undisturbed => \E d \in Connected : Head(todo) = Listed(c, d)
  BY <1>1, <1>3 DEF IInv, Collecting
<1> QED BY <1>1, <1>2, <1>3, <1>4, <1>5

\* An item is passed over, with a message if it is connected.
LEMMA PassKeeps ==
    ASSUME IInv, NEW c \in {"physical_disks", "partitions"}, Querying(c),
           out' = out, said' \in {said, TRUE}, faults' \in 0..MaxFaults,
           Undisturbed => \A d \in Connected : Listed(c, d) = Head(todo) => Excused(c, d, said')
    PROVE  IInv'
<1>1. /\ stage = c /\ stage' = c /\ todo # Null /\ todo' # Null /\ c \in Collectors
      /\ todo' \in Seq(IF c = "volumes" THEN Devices ELSE Numbers)
      /\ UNCHANGED <<pc, stage, result, errors, evaluations>>
  BY AtHead DEF Collectors
<1>2. /\ Head(todo) = todo[1]
      /\ \A k \in DOMAIN todo' : k + 1 \in DOMAIN todo /\ todo'[k] = todo[k + 1]
      /\ \A k \in DOMAIN todo : k # 1 => k - 1 \in DOMAIN todo' /\ todo'[k - 1] = todo[k]
  BY <1>1, AtHead, TailIs
<1>3. said \in BOOLEAN /\ said' \in BOOLEAN
  BY DEF IInv, TypeOK
<1>4. TypeOK'
  BY <1>1, <1>3 DEF IInv, TypeOK, pc
<1>5. /\ Undisturbed' = Undisturbed /\ Connected' = Connected
      /\ \A d : Listed(c, d)' = Listed(c, d)
      /\ \A d, v : About(c, d, v)' = About(c, d, v)
      /\ \A d, m : Excused(c, d, m)' = Excused(c, d, m)
      /\ \A v : True(c, v)' = True(c, v)
  BY <1>1, PcSame
<1>6. Undisturbed =>
         /\ \A k \in DOMAIN todo' : \E d \in Connected : todo'[k] = Listed(c, d)
         /\ \A d \in Connected : \/ \E k \in DOMAIN todo' : todo'[k] = Listed(c, d)
                                 \/ \E i \in DOMAIN out : About(c, d, out[i].value)
                                 \/ Excused(c, d, said')
  <2> SUFFICES ASSUME Undisturbed
               PROVE  /\ \A k \in DOMAIN todo' : \E d \in Connected : todo'[k] = Listed(c, d)
                      /\ \A d \in Connected : \/ \E k \in DOMAIN todo' : todo'[k] = Listed(c, d)
                                              \/ \E i \in DOMAIN out : About(c, d, out[i].value)
                                              \/ Excused(c, d, said')
    OBVIOUS
  <2>1. /\ \A k \in DOMAIN todo : \E d \in Connected : todo[k] = Listed(c, d)
        /\ \A d \in Connected : \/ \E k \in DOMAIN todo : todo[k] = Listed(c, d)
                                \/ \E i \in DOMAIN out : About(c, d, out[i].value)
                                \/ Excused(c, d, said)
    BY <1>1 DEF IInv, Collecting
  <2>2. \A d : Excused(c, d, said) => Excused(c, d, said')
    BY <1>3 DEF Excused
  <2>3. \A d \in Connected : (\E k \in DOMAIN todo : todo[k] = Listed(c, d)) =>
          \/ \E k \in DOMAIN todo' : todo'[k] = Listed(c, d)
          \/ Excused(c, d, said')
    BY <1>2
  <2> QED BY <1>2, <2>1, <2>2, <2>3
<1>7. Collecting'
  <2>1. /\ (\A i \in DOMAIN out : True(c, out[i].value))'
        /\ out' \in Seq({out'[i] : i \in DOMAIN out'})
    BY <1>1, <1>5 DEF IInv, Collecting
  <2> QED BY <1>1, <1>5, <1>6, <2>1 DEF Collecting
<1> QED BY <1>1, <1>4, <1>7, RunningKeeps DEF IInv

\* A null of an unknown protocol has a reason that "success" does not allow.
Noted(c, x) ==
    c = "smart" /\ x.value.protocol = "unknown" =>
      /\ x.value.predict_failure = Null
      /\ "predict_failure" \in DOMAIN x.missing
      /\ x.missing["predict_failure"] # "not_applicable"

\* An item is written down.
LEMMA TakeKeeps ==
    ASSUME IInv, NEW c \in Collectors, Querying(c), NEW x, out' = Append(out, x),
           said' \in BOOLEAN, said => said', todo # Null, faults' \in 0..MaxFaults,
           x.value \in Entry[c], True(c, x.value), Noted(c, x),
           Undisturbed => \A d \in Connected : Listed(c, d) = Head(todo) => About(c, d, x.value),
           c = "volumes" /\ Undisturbed =>
             x.value.mount_points \in {Null, {}, {place[Head(todo)]}}
    PROVE  IInv'
<1>1. /\ stage = c /\ stage' = c /\ todo # Null /\ todo' # Null
      /\ todo \in Seq(IF c = "volumes" THEN Devices ELSE Numbers)
      /\ todo' \in Seq(IF c = "volumes" THEN Devices ELSE Numbers)
      /\ UNCHANGED <<pc, stage, result, errors, evaluations>>
  BY AtHead
<1>2. /\ Head(todo) = todo[1] /\ 1 \in DOMAIN todo
      /\ Len(todo) \in Nat /\ Len(todo) = Len(todo') + 1
      /\ \A k \in DOMAIN todo' : k + 1 \in DOMAIN todo /\ todo'[k] = todo[k + 1]
      /\ \A k \in DOMAIN todo : k # 1 => k - 1 \in DOMAIN todo' /\ todo'[k - 1] = todo[k]
  BY <1>1, AtHead, TailIs
<1> DEFINE n == Len(out)
<1>3. /\ n \in Nat /\ DOMAIN out = 1..n
      /\ Len(out') = n + 1 /\ DOMAIN out' = 1..(n + 1)
      /\ \A i \in 1..n : out'[i] = out[i]
      /\ out'[n + 1] = x
      /\ out' \in Seq({out'[i] : i \in DOMAIN out'})
  <2>1. out \in Seq({out[i] : i \in DOMAIN out})
    BY DEF IInv, Collecting
  <2>2. PICK t : t = out'
    OBVIOUS
  <2>3. t = Append(out, x)
    BY <2>2
  <2>4. /\ Len(out) \in Nat /\ DOMAIN out = 1..Len(out)
        /\ Len(t) = Len(out) + 1 /\ DOMAIN t = 1..(Len(out) + 1)
        /\ \A i \in 1..Len(out) : t[i] = out[i]
        /\ t[Len(out) + 1] = x
        /\ t \in Seq({t[i] : i \in DOMAIN t})
    BY ONLY <2>1, <2>3, AppendIs
  <2> QED BY <2>2, <2>4
<1>4. TypeOK'
  <2>1. \A i \in DOMAIN out' : out'[i].value \in Entry[stage']
    BY <1>1, <1>3 DEF IInv, TypeOK
  <2> QED BY <1>1, <2>1 DEF IInv, TypeOK, pc
<1>5. /\ Undisturbed' = Undisturbed /\ Connected' = Connected /\ place' = place
      /\ \A d : Listed(c, d)' = Listed(c, d)
      /\ \A d, v : About(c, d, v)' = About(c, d, v)
      /\ \A d, m : Excused(c, d, m)' = Excused(c, d, m)
      /\ \A v : True(c, v)' = True(c, v)
  BY <1>1, PcSame DEF pc
<1>6. \A i \in DOMAIN out' : True(c, out'[i].value) /\ Noted(c, out'[i])
  <2>1. \A i \in DOMAIN out : True(c, out[i].value) /\ Noted(c, out[i])
    BY <1>1 DEF IInv, Collecting, Noted
  <2> QED BY <1>3, <2>1
<1>7. ASSUME Undisturbed
      PROVE  /\ \A k \in DOMAIN todo' : \E d \in Connected : todo'[k] = Listed(c, d)
             /\ \A d \in Connected : \/ \E k \in DOMAIN todo' : todo'[k] = Listed(c, d)
                                     \/ \E i \in DOMAIN out' : About(c, d, out'[i].value)
                                     \/ Excused(c, d, said')
  <2>1. /\ \A k \in DOMAIN todo : \E d \in Connected : todo[k] = Listed(c, d)
        /\ \A d \in Connected : \/ \E k \in DOMAIN todo : todo[k] = Listed(c, d)
                                \/ \E i \in DOMAIN out : About(c, d, out[i].value)
                                \/ Excused(c, d, said)
    BY <1>1, <1>7 DEF IInv, Collecting
  <2>2. \A d : Excused(c, d, said) => Excused(c, d, said')
    BY DEF Excused
  <2>3. \A d \in Connected : (\E k \in DOMAIN todo : todo[k] = Listed(c, d)) =>
          \/ \E k \in DOMAIN todo' : todo'[k] = Listed(c, d)
          \/ About(c, d, out'[n + 1].value)
    BY <1>2, <1>3, <1>7
  <2>4. \A d : (\E i \in DOMAIN out : About(c, d, out[i].value)) =>
               \E i \in DOMAIN out' : About(c, d, out'[i].value)
    BY <1>3
  <2>5. n + 1 \in DOMAIN out'
    BY <1>3
  <2> QED BY <1>2, <2>1, <2>2, <2>3, <2>4, <2>5
<1>8. ASSUME Undisturbed, c = "volumes"
      PROVE  /\ Len(out') + Len(todo') = Cardinality(Connected)
             /\ \A k, l \in DOMAIN todo' : todo'[k] = todo'[l] => k = l
             /\ Apart(Values)'
             /\ \A i \in DOMAIN out', k \in DOMAIN todo' :
                  out'[i].value.mount_points # Null =>
                    place[todo'[k]] \notin out'[i].value.mount_points
  <2>1. /\ Len(out) + Len(todo) = Cardinality(Connected)
        /\ \A k, l \in DOMAIN todo : todo[k] = todo[l] => k = l
        /\ Apart(Values)
        /\ \A i \in DOMAIN out, k \in DOMAIN todo :
             out[i].value.mount_points # Null => place[todo[k]] \notin out[i].value.mount_points
    BY <1>1, <1>8 DEF IInv, Collecting
  <2>2. Len(todo') \in Nat
    BY <1>1
  <2>3. \A k \in DOMAIN todo' : k + 1 # 1 /\ k + 1 \in DOMAIN todo /\ k \in Nat
    BY <1>2, <2>2, <1>1
  <2>4. \A k, l \in DOMAIN todo' : todo'[k] = todo'[l] => k = l
    <3> SUFFICES ASSUME NEW k \in DOMAIN todo', NEW l \in DOMAIN todo', todo'[k] = todo'[l]
                 PROVE  k = l
      OBVIOUS
    <3>1. k + 1 = l + 1
      BY <1>2, <2>1
    <3> QED BY <2>3, <3>1
  <2>5. \A k \in DOMAIN todo' : place[todo'[k]] # place[todo[1]]
    <3> SUFFICES ASSUME NEW k \in DOMAIN todo' PROVE place[todo'[k]] # place[todo[1]]
      OBVIOUS
    <3>1. todo[k + 1] # todo[1] /\ todo'[k] = todo[k + 1] /\ k + 1 \in DOMAIN todo
      BY <1>2, <2>1, <2>3
    <3>2. \A l \in DOMAIN todo : todo[l] \in Connected
      BY <1>1, <1>8 DEF IInv, Collecting, Listed
    <3>3. todo'[k] \in Connected /\ todo[1] \in Connected
      BY <1>2, <3>1, <3>2
    <3> QED BY <3>1, <3>3 DEF IInv, PlacesDiffer, Connected
  <2> DEFINE old(i) == out[i].value.mount_points
             new(i) == out'[i].value.mount_points
  <2>6. \A i \in 1..n : new(i) = old(i)
    BY <1>3
  <2>7. new(n + 1) \in {Null, {}, {place[todo[1]]}}
    BY <1>2, <1>3, <1>8
  <2>8. /\ \A i, j \in 1..n : i # j /\ old(i) # Null /\ old(j) # Null => old(i) \cap old(j) = {}
        /\ \A i \in 1..n : old(i) # Null => place[todo[1]] \notin old(i)
    BY <1>2, <1>3, <2>1 DEF Apart, Values
  <2> HIDE DEF old, new
  <2>9. \A i, j \in 1..(n + 1) : i # j /\ new(i) # Null /\ new(j) # Null => new(i) \cap new(j) = {}
    <3> SUFFICES ASSUME NEW i \in 1..(n + 1), NEW j \in 1..(n + 1),
                        i # j, new(i) # Null, new(j) # Null
                 PROVE  new(i) \cap new(j) = {}
      OBVIOUS
    <3>1. CASE i \in 1..n /\ j \in 1..n BY <2>6, <2>8, <3>1
    <3>2. CASE i = n + 1 /\ j \in 1..n BY <2>6, <2>7, <2>8, <3>2
    <3>3. CASE j = n + 1 /\ i \in 1..n BY <2>6, <2>7, <2>8, <3>3
    <3> QED BY <1>3, <3>1, <3>2, <3>3
  <2>10. Apart(Values)'
    BY <1>3, <2>9 DEF Apart, Values, new
  <2>11. \A i \in 1..(n + 1), k \in DOMAIN todo' : new(i) # Null => place[todo'[k]] \notin new(i)
    <3> SUFFICES ASSUME NEW i \in 1..(n + 1), NEW k \in DOMAIN todo', new(i) # Null
                 PROVE  place[todo'[k]] \notin new(i)
      OBVIOUS
    <3>1. CASE i \in 1..n
      <4>1. todo'[k] = todo[k + 1] /\ k + 1 \in DOMAIN todo /\ i \in DOMAIN out
        BY <1>2, <1>3, <3>1
      <4>2. old(i) # Null => place[todo[k + 1]] \notin old(i)
        BY <2>1, <4>1 DEF old
      <4> QED BY <2>6, <3>1, <4>1, <4>2
    <3>2. CASE i = n + 1
      BY <2>5, <2>7, <3>2
    <3> QED BY <1>3, <3>1, <3>2
  <2>12. Len(out') + Len(todo') = Cardinality(Connected)
    BY <1>2, <1>3, <2>1, <2>2
  <2> QED BY <1>3, <2>4, <2>10, <2>11, <2>12 DEF new
<1>9. Collecting'
  <2>1. (\A i \in DOMAIN out : True(c, out[i].value))'
    BY <1>5, <1>6
  <2>2. (\A i \in DOMAIN out : Noted(c, out[i]))'
    BY <1>6 DEF Noted
  <2>3. (Undisturbed /\ todo # Null =>
         /\ \A k \in DOMAIN todo : \E d \in Connected : todo[k] = Listed(c, d)
         /\ \A d \in Connected : \/ \E k \in DOMAIN todo : todo[k] = Listed(c, d)
                                 \/ \E i \in DOMAIN out : About(c, d, out[i].value)
                                 \/ Excused(c, d, said))'
    BY <1>5, <1>7
  <2>4. (Undisturbed /\ todo # Null /\ c = "volumes" =>
         /\ Len(out) + Len(todo) = Cardinality(Connected)
         /\ \A k, l \in DOMAIN todo : todo[k] = todo[l] => k = l
         /\ Apart(Values)
         /\ \A i \in DOMAIN out, k \in DOMAIN todo :
              out[i].value.mount_points # Null => place[todo[k]] \notin out[i].value.mount_points)'
    BY <1>5, <1>8
  <2>5. /\ stage' = c /\ stage' \in Collectors /\ todo' # Null
        /\ out' \in Seq({out'[i] : i \in DOMAIN out'})
    BY <1>1, <1>3
  <2>6. (\A i \in DOMAIN out : True(stage, out[i].value) /\ Noted(stage, out[i]))'
    BY <2>1, <2>2, <2>5
  <2>7. (Undisturbed /\ todo # Null =>
         /\ \A k \in DOMAIN todo : \E d \in Connected : todo[k] = Listed(stage, d)
         /\ \A d \in Connected : \/ \E k \in DOMAIN todo : todo[k] = Listed(stage, d)
                                 \/ \E i \in DOMAIN out : About(stage, d, out[i].value)
                                 \/ Excused(stage, d, said))'
    BY <2>3, <2>5
  <2> QED BY <2>4, <2>5, <2>6, <2>7 DEF Collecting, Noted
<1> QED BY <1>1, <1>4, <1>9, RunningKeeps DEF IInv

-----------------------------------------------------------------------------
(* Each collector's queries. *)

\* The queries of one item that fail can be counted.
LEMMA Counted ==
    /\ \A S \in SUBSET {"descriptor", "geometry"} : Cardinality(S) \in Nat
    /\ \A S \in SUBSET {"mount", "space", "extents"} : Cardinality(S) \in Nat
    /\ \A S \in SUBSET {"temperature_celsius"} : Cardinality(S) \in Nat
<1>1. \A T : IsFiniteSet(T) => \A S \in SUBSET T : Cardinality(S) \in Nat
  <2> SUFFICES ASSUME NEW T, IsFiniteSet(T), NEW S \in SUBSET T PROVE Cardinality(S) \in Nat
    OBVIOUS
  <2> QED BY FS_Subset, FS_CardinalityType
<1>2. \A x, y : IsFiniteSet({x, y})
  <2> SUFFICES ASSUME NEW x, NEW y PROVE IsFiniteSet({x, y})
    OBVIOUS
  <2>1. IsFiniteSet({x}) /\ {x, y} = {x} \cup {y}
    BY FS_Singleton
  <2> QED BY <2>1, FS_AddElement
<1>3. \A x, y, z : IsFiniteSet({x, y, z})
  <2> SUFFICES ASSUME NEW x, NEW y, NEW z PROVE IsFiniteSet({x, y, z})
    OBVIOUS
  <2>1. IsFiniteSet({x, y}) /\ {x, y, z} = {x, y} \cup {z}
    BY <1>2
  <2> QED BY <2>1, FS_AddElement
<1>4. IsFiniteSet({"temperature_celsius"})
  BY FS_Singleton
<1> QED BY <1>1, <1>2, <1>3, <1>4

LEMMA Spent ==
    ASSUME IInv, NEW n \in Nat, Spend(n)
    PROVE  faults' \in 0..MaxFaults
  BY StorageAssumption DEF IInv, TypeOK, Spend

\* What a snapshot keeps of an answer.
LEMMA SnapshotIs ==
    ASSUME NEW answer, NEW missing
    PROVE  /\ Snapshot(answer, missing).missing = missing
           /\ Snapshot(answer, missing).value =
                [f \in DOMAIN answer |-> IF f \in DOMAIN missing THEN Null ELSE answer[f]]
  BY DEF Snapshot

DiskAnswer(n, m, b, k) == [number |-> n, model |-> m, bus_type |-> b, capacity_bytes |-> k]

LEMMA DiskSnapshot ==
    ASSUME NEW n \in Numbers, NEW m \in {"named", Null}, NEW b \in {"nvme", "sata"},
           NEW k \in {1, 2}, NEW missing,
           DOMAIN missing \subseteq {"model", "bus_type", "capacity_bytes"},
           NEW x, x = Snapshot(DiskAnswer(n, m, b, k), missing)
    PROVE  /\ x.value \in Entry["physical_disks"]
           /\ x.value.number = n /\ x.value.capacity_bytes \in {Null, k}
<1> DEFINE v == x.value
<1>1. /\ v = [f \in {"number", "model", "bus_type", "capacity_bytes"} |->
               IF f \in DOMAIN missing THEN Null
               ELSE DiskAnswer(n, m, b, k)[f]]
  BY SnapshotIs DEF DiskAnswer
<1>2. /\ v.number = n /\ v.model \in {"named", Null} /\ v.bus_type \in {"nvme", "sata", Null}
      /\ v.capacity_bytes \in {Null, k}
  BY <1>1 DEF DiskAnswer
<1>3. v = [number |-> v.number, model |-> v.model, bus_type |-> v.bus_type,
           capacity_bytes |-> v.capacity_bytes]
  BY <1>1
<1>4. v \in [number : Numbers, model : {"named", Null},
             bus_type : {"nvme", "sata", Null}, capacity_bytes : {1, 2, Null}]
  BY <1>2, <1>3
<1> QED BY <1>2, <1>4 DEF Entry

LEMMA QueryDiskKeeps ==
    ASSUME IInv, QueryDisk
    PROVE  IInv'
<1> DEFINE n == Head(todo)
           fields == [descriptor |-> {"model", "bus_type"}, geometry |-> {"capacity_bytes"}]
<1>1. /\ Querying("physical_disks") /\ "physical_disks" \in Collectors /\ n \in Numbers
      /\ todo # Null /\ faults \in 0..MaxFaults /\ said \in BOOLEAN
      /\ Undisturbed => \E d \in Connected : n = place[d]
  BY AtHead DEF QueryDisk, IInv, TypeOK, Collectors, Listed
<1>2. CASE Vacant(n) /\ Silent
  <2>1. ~Undisturbed
    BY <1>1, <1>2 DEF Vacant, Connected
  <2> QED BY <1>1, <1>2, <2>1, PassKeeps DEF Silent
<1>3. CASE Refuses(n) /\ Say
  <2>1. \A d \in Connected : place[d] = n => Is(d, "locked")
    BY <1>1, <1>3, StorageAssumption, NullAssumption DEF Refuses, IInv, PlacesDiffer, Connected
  <2>2. said' = TRUE /\ out' = out /\ faults' = faults
    BY <1>3 DEF Say
  <2>3. \A d \in Connected : Listed("physical_disks", d) = n => Excused("physical_disks", d, said')
    BY <2>1, <2>2 DEF Listed, Excused
  <2> QED BY <1>1, <2>2, <2>3, PassKeeps
<1>4. CASE \E d \in Opens(n), failed \in SUBSET DOMAIN fields, model \in {"named", Null} :
             /\ Spend(Cardinality(failed) + (IF model = Null THEN 1 ELSE 0))
             /\ Take(Snapshot([number |-> n, model |-> model,
                               bus_type |-> IF Is(d, "nvme") THEN "nvme" ELSE "sata",
                               capacity_bytes |-> Capacity(d)],
                              [f \in UNION {fields[q] : q \in failed} |-> "failed"]))
  <2>1. PICK d \in Opens(n), failed \in SUBSET DOMAIN fields, model \in {"named", Null} :
             /\ Spend(Cardinality(failed) + (IF model = Null THEN 1 ELSE 0))
             /\ Take(Snapshot([number |-> n, model |-> model,
                               bus_type |-> IF Is(d, "nvme") THEN "nvme" ELSE "sata",
                               capacity_bytes |-> Capacity(d)],
                              [f \in UNION {fields[q] : q \in failed} |-> "failed"]))
    BY <1>4
  <2> DEFINE missing == [f \in UNION {fields[q] : q \in failed} |-> "failed"]
             x == Snapshot([number |-> n, model |-> model,
                            bus_type |-> IF Is(d, "nvme") THEN "nvme" ELSE "sata",
                            capacity_bytes |-> Capacity(d)], missing)
  <2>2. DOMAIN missing \subseteq {"model", "bus_type", "capacity_bytes"}
    OBVIOUS
  <2>3. /\ x.value \in Entry["physical_disks"]
        /\ x.value.number = n /\ x.value.capacity_bytes \in {Null, Capacity(d)}
    <3>1. PICK b \in {"nvme", "sata"}, k \in {1, 2} :
            b = (IF Is(d, "nvme") THEN "nvme" ELSE "sata") /\ k = Capacity(d)
      BY DEF Capacity
    <3>2. x = Snapshot(DiskAnswer(n, model, b, k), missing)
      BY <3>1 DEF DiskAnswer
    <3> HIDE DEF x, missing
    <3> QED BY <1>1, <2>2, <3>1, <3>2, DiskSnapshot
  <2>4. out' = Append(out, x) /\ said' = said
    BY <2>1 DEF Take
  <2>5. faults' \in 0..MaxFaults
    <3>1. Cardinality(failed) \in Nat
      BY Counted
    <3> QED BY <2>1, <3>1, Spent
  <2> HIDE DEF x
  <2>6. place[d] = n /\ d \in Connected /\ ~Is(d, "locked")
    BY <1>1, StorageAssumption, NullAssumption DEF Opens, Connected
  <2>7. True("physical_disks", x.value)
    BY <2>3, <2>6 DEF True, TrueDisk
  <2>8. \A e \in Connected : Listed("physical_disks", e) = n => About("physical_disks", e, x.value)
    BY <2>3 DEF Listed, About
  <2> QED BY <1>1, <2>3, <2>4, <2>5, <2>7, <2>8, TakeKeeps DEF Noted
<1> QED BY <1>2, <1>3, <1>4 DEF QueryDisk

PartitionAnswer(n, k) == [disk_number |-> n, end |-> k, bootable |-> TRUE]

LEMMA PartitionSnapshot ==
    ASSUME NEW n \in Numbers, NEW k \in {1, 2}, NEW missing, DOMAIN missing \subseteq {"bootable"},
           NEW x, x = Snapshot(PartitionAnswer(n, k), missing)
    PROVE  /\ x.value \in Entry["partitions"]
           /\ x.value.disk_number = n /\ x.value.end = k
<1> DEFINE v == x.value
<1>1. v = [f \in {"disk_number", "end", "bootable"} |->
             IF f \in DOMAIN missing THEN Null ELSE PartitionAnswer(n, k)[f]]
  BY SnapshotIs DEF PartitionAnswer
<1>2. v.disk_number = n /\ v.end = k /\ v.bootable \in {TRUE, Null}
  BY <1>1 DEF PartitionAnswer
<1>3. v = [disk_number |-> v.disk_number, end |-> v.end, bootable |-> v.bootable]
  BY <1>1
<1>4. k \in 1..2
  OBVIOUS
<1>5. v \in [disk_number : Numbers, end : 1..2, bootable : {TRUE, Null}]
  BY <1>2, <1>3, <1>4
<1> QED BY <1>2, <1>5 DEF Entry

LEMMA QueryPartitionKeeps ==
    ASSUME IInv, QueryPartition
    PROVE  IInv'
<1> DEFINE n == Head(todo)
<1>1. /\ Querying("partitions") /\ "partitions" \in Collectors /\ n \in Numbers
      /\ todo # Null /\ faults \in 0..MaxFaults /\ said \in BOOLEAN
      /\ Undisturbed => \E d \in Connected : n = place[d]
  BY AtHead DEF QueryPartition, IInv, TypeOK, Collectors, Listed
<1>2. ASSUME out' = out, said' = TRUE, faults' \in 0..MaxFaults
      PROVE  IInv'
  <2>1. \A d \in Connected : Excused("partitions", d, said')
    BY <1>2 DEF Excused
  <2> QED BY <1>1, <1>2, <2>1, PassKeeps
<1>3. CASE (Vacant(n) \/ Refuses(n)) /\ Say
  BY <1>1, <1>2, <1>3 DEF Say
<1>4. CASE Opens(n) # {} /\ said' = TRUE /\ Spend(1) /\ UNCHANGED out
  BY <1>2, <1>4, Spent
<1>5. CASE \E d \in Opens(n) :
             /\ Spend(0)
             /\ Take(Snapshot([disk_number |-> n, end |-> Capacity(d), bootable |-> TRUE],
                              [f \in IF Is(d, "mbr") THEN {} ELSE {"bootable"}
                                 |-> "not_applicable"]))
  <2>1. PICK d \in Opens(n) :
             /\ Spend(0)
             /\ Take(Snapshot([disk_number |-> n, end |-> Capacity(d), bootable |-> TRUE],
                              [f \in IF Is(d, "mbr") THEN {} ELSE {"bootable"}
                                 |-> "not_applicable"]))
    BY <1>5
  <2> DEFINE missing == [f \in IF Is(d, "mbr") THEN {} ELSE {"bootable"} |-> "not_applicable"]
             x == Snapshot([disk_number |-> n, end |-> Capacity(d), bootable |-> TRUE], missing)
  <2>2. DOMAIN missing \subseteq {"bootable"}
    OBVIOUS
  <2>3. /\ x.value \in Entry["partitions"]
        /\ x.value.disk_number = n /\ x.value.end = Capacity(d)
    <3>1. PICK k \in {1, 2} : k = Capacity(d)
      BY DEF Capacity
    <3>2. x = Snapshot(PartitionAnswer(n, k), missing)
      BY <3>1 DEF PartitionAnswer
    <3> HIDE DEF x, missing
    <3> QED BY <1>1, <2>2, <3>1, <3>2, PartitionSnapshot
  <2>4. out' = Append(out, x) /\ said' = said
    BY <2>1 DEF Take
  <2>5. faults' \in 0..MaxFaults
    BY <2>1, Spent
  <2> HIDE DEF x
  <2>6. place[d] = n /\ d \in Connected
    BY <1>1, StorageAssumption, NullAssumption DEF Opens, Connected
  <2>7. True("partitions", x.value)
    BY <2>3, <2>6 DEF True, TruePartition
  <2>8. \A e \in Connected : Listed("partitions", e) = n => About("partitions", e, x.value)
    BY <2>3 DEF Listed, About
  <2> QED BY <1>1, <2>3, <2>4, <2>5, <2>7, <2>8, TakeKeeps DEF Noted
<1> QED BY <1>3, <1>4, <1>5 DEF QueryPartition

VolumeAnswer(m, k, l, e) ==
    [mount_points |-> m, capacity_bytes |-> k, free_bytes |-> l, extents |-> e]

\* What cannot be known of a volume's place is among the missing fields.
Missable(m, k, l, e, missing) ==
    /\ k \in {0, 3, 8} /\ l \in {0, 4}
    /\ "mount_points" \in DOMAIN missing \/ m \in SUBSET Numbers
    /\ "extents" \in DOMAIN missing \/ e \in SUBSET Extents
    /\ "capacity_bytes" \in DOMAIN missing <=> "free_bytes" \in DOMAIN missing

LEMMA VolumeSnapshot ==
    ASSUME NEW m, NEW k, NEW l, NEW e, NEW missing, Missable(m, k, l, e, missing),
           NEW x, x = Snapshot(VolumeAnswer(m, k, l, e), missing)
    PROVE  /\ x.value \in Entry["volumes"]
           /\ x.value.mount_points = IF "mount_points" \in DOMAIN missing THEN Null ELSE m
           /\ x.value.extents = IF "extents" \in DOMAIN missing THEN Null ELSE e
           /\ x.value.capacity_bytes = IF "capacity_bytes" \in DOMAIN missing THEN Null ELSE k
           /\ x.value.free_bytes = IF "capacity_bytes" \in DOMAIN missing THEN Null ELSE l
<1> USE DEF Missable
<1> DEFINE v == x.value
<1>1. v = [f \in {"mount_points", "capacity_bytes", "free_bytes", "extents"} |->
             IF f \in DOMAIN missing THEN Null ELSE VolumeAnswer(m, k, l, e)[f]]
  BY SnapshotIs DEF VolumeAnswer
<1>2. /\ v.mount_points = IF "mount_points" \in DOMAIN missing THEN Null ELSE m
      /\ v.extents = IF "extents" \in DOMAIN missing THEN Null ELSE e
      /\ v.capacity_bytes = IF "capacity_bytes" \in DOMAIN missing THEN Null ELSE k
      /\ v.free_bytes = IF "capacity_bytes" \in DOMAIN missing THEN Null ELSE l
  BY <1>1 DEF VolumeAnswer
<1>3. v = [mount_points |-> v.mount_points, capacity_bytes |-> v.capacity_bytes,
           free_bytes |-> v.free_bytes, extents |-> v.extents]
  BY <1>1
<1>4. /\ v.mount_points \in {Null} \cup SUBSET Numbers
      /\ v.extents \in {Null} \cup SUBSET Extents
      /\ v.capacity_bytes \in {0, 3, 8, Null} /\ v.free_bytes \in {0, 4, Null}
  BY <1>2
<1>5. v \in [mount_points : {Null} \cup SUBSET Numbers, capacity_bytes : {0, 3, 8, Null},
             free_bytes : {0, 4, Null}, extents : {Null} \cup SUBSET Extents]
  BY <1>3, <1>4
<1> QED BY <1>2, <1>5 DEF Entry

LEMMA QueryVolumeKeeps ==
    ASSUME IInv, QueryVolume
    PROVE  IInv'
<1> DEFINE d == Head(todo)
           fields == [mount |-> {"mount_points"}, space |-> {"capacity_bytes", "free_bytes"},
                      extents |-> {"extents"}]
           extent == [disk_number |-> place[d], end |-> Capacity(d)]
           missing(failed) == [f \in UNION {fields[q] : q \in failed} |-> "failed"]
           answer == [mount_points |-> IF Is(d, "hidden") THEN {} ELSE {place[d]},
                      capacity_bytes |-> IF Is(d, "empty") THEN 0
                                         ELSE IF Is(d, "quota") THEN 3 ELSE 8,
                      free_bytes |-> IF Is(d, "full") \/ Is(d, "empty") THEN 0 ELSE 4,
                      extents |-> {[disk_number |-> place[d], end |-> Capacity(d)]}]
<1>1. /\ Querying("volumes") /\ "volumes" \in Collectors /\ d \in Devices
      /\ todo # Null /\ faults \in 0..MaxFaults /\ said \in BOOLEAN
      /\ Undisturbed => d \in Connected
  BY AtHead DEF QueryVolume, IInv, TypeOK, Collectors, Listed
<1>2. PICK failed :
        /\ failed \in IF d \in Connected THEN SUBSET DOMAIN fields ELSE {DOMAIN fields}
        /\ Spend(IF d \in Connected THEN Cardinality(failed) ELSE 0)
        /\ Take(Snapshot(answer, missing(failed)))
  BY DEF QueryVolume
<1>3. PICK gone : gone = missing(failed)
  OBVIOUS
<1>4. /\ "capacity_bytes" \in DOMAIN gone <=> "free_bytes" \in DOMAIN gone
      /\ d \notin Connected => "mount_points" \in DOMAIN gone /\ "extents" \in DOMAIN gone
  <2>1. \A f : f \in DOMAIN gone <=> \E q \in failed : f \in fields[q]
    BY <1>3
  <2>2. failed \subseteq {"mount", "space", "extents"}
    BY <1>2
  <2>3. /\ fields["mount"] = {"mount_points"}
        /\ fields["space"] = {"capacity_bytes", "free_bytes"}
        /\ fields["extents"] = {"extents"}
    OBVIOUS
  <2>4. d \notin Connected => failed = {"mount", "space", "extents"}
    BY <1>2
  <2> HIDE DEF fields
  <2>5. /\ "capacity_bytes" \in DOMAIN gone <=> "space" \in failed
        /\ "free_bytes" \in DOMAIN gone <=> "space" \in failed
    <3>1. \A q \in {"mount", "space", "extents"} :
            /\ "capacity_bytes" \in fields[q] <=> q = "space"
            /\ "free_bytes" \in fields[q] <=> q = "space"
      BY <2>3
    <3> QED BY <2>1, <2>2, <3>1
  <2> QED BY <2>1, <2>3, <2>4, <2>5
<1>5. PICK x : x = Snapshot(VolumeAnswer(Mounts(d), VolumeCapacity(d), VolumeFree(d), {extent}), gone)
  OBVIOUS
<1>6. out' = Append(out, x) /\ said' = said
  BY <1>2, <1>3, <1>5 DEF Take, VolumeAnswer, Mounts, VolumeCapacity, VolumeFree
<1>7. faults' \in 0..MaxFaults
  <2>1. failed \in SUBSET {"mount", "space", "extents"}
    BY <1>2
  <2>2. Cardinality(failed) \in Nat
    BY <2>1, Counted
  <2> QED BY <1>2, <2>2, Spent
<1>8. /\ VolumeCapacity(d) \in {0, 3, 8} /\ VolumeFree(d) \in {0, 4}
      /\ "mount_points" \in DOMAIN gone \/ Mounts(d) \in SUBSET Numbers
      /\ "extents" \in DOMAIN gone \/ {extent} \in SUBSET Extents
  <2>1. VolumeCapacity(d) \in {0, 3, 8} /\ VolumeFree(d) \in {0, 4}
    BY DEF VolumeCapacity, VolumeFree
  <2>2. d \in Connected => place[d] \in Numbers
    BY <1>1 DEF Connected, IInv, TypeOK
  <2>3. d \in Connected => extent \in Extents
    <3>1. Capacity(d) \in 1..2
      BY DEF Capacity
    <3> QED BY <2>2, <3>1 DEF Extents
  <2> QED BY <1>4, <2>1, <2>2, <2>3 DEF Mounts
<1> HIDE DEF extent
<1>9. /\ x.value \in Entry["volumes"]
      /\ x.value.mount_points \in {Null, Mounts(d)}
      /\ x.value.extents \in {Null, {extent}}
      /\ \/ x.value.capacity_bytes = Null /\ x.value.free_bytes = Null
         \/ x.value.capacity_bytes = VolumeCapacity(d) /\ x.value.free_bytes = VolumeFree(d)
  <2>1. PICK m, k, l, e : m = Mounts(d) /\ k = VolumeCapacity(d) /\ l = VolumeFree(d) /\ e = {extent}
    OBVIOUS
  <2>2. x = Snapshot(VolumeAnswer(m, k, l, e), gone)
    BY <1>5, <2>1
  <2>3. Missable(m, k, l, e, gone)
    BY <1>4, <1>8, <2>1 DEF Missable
  <2>4. /\ x.value \in Entry["volumes"]
        /\ x.value.mount_points = IF "mount_points" \in DOMAIN gone THEN Null ELSE m
        /\ x.value.extents = IF "extents" \in DOMAIN gone THEN Null ELSE e
        /\ x.value.capacity_bytes = IF "capacity_bytes" \in DOMAIN gone THEN Null ELSE k
        /\ x.value.free_bytes = IF "capacity_bytes" \in DOMAIN gone THEN Null ELSE l
    BY <2>2, <2>3, VolumeSnapshot
  <2> QED BY <2>1, <2>4
<1>10. VolumeCapacity(d) # Null /\ VolumeFree(d) # Null
  BY <1>8, NullAssumption
<1>11. VolumeOf(d, x.value)
  BY <1>1, <1>9, <1>10 DEF VolumeOf, extent
<1>12. True("volumes", x.value)
  BY <1>1, <1>11 DEF True, TrueVolume
<1>13. \A e \in Connected : Listed("volumes", e) = d => About("volumes", e, x.value)
  BY <1>11 DEF Listed, About
<1>14. x.value.mount_points \in {Null, {}, {place[d]}}
  BY <1>9 DEF Mounts
<1> QED BY <1>1, <1>6, <1>7, <1>9, <1>12, <1>13, <1>14, TakeKeeps DEF Noted

SmartFields == {"disk_number", "protocol", "predict_failure", "critical_warning",
                "percentage_used", "available_spare_percent", "temperature_celsius"}
SmartEntry == [disk_number : Numbers, protocol : {"nvme", "failure_prediction", "unknown"},
               predict_failure : {TRUE, FALSE, Null}, critical_warning : {0, 1, Null},
               percentage_used : {99, 100, Null}, available_spare_percent : {100, 101, Null},
               temperature_celsius : {40, Null}]

LEMMA SmartEntryIs == Entry["smart"] = SmartEntry
  BY DEF Entry, SmartEntry

\* What a device says by a protocol that the rules know is true.
LEMMA SmartSnapshot ==
    ASSUME NEW n \in Numbers, NEW d \in Devices, NEW protocol \in {"nvme", "failure_prediction"},
           NEW missing, DOMAIN missing \subseteq NvmeFields \cup {"predict_failure"},
           protocol = "nvme" => DOMAIN missing \subseteq {"predict_failure", "temperature_celsius"},
           protocol = "failure_prediction" => "predict_failure" \notin DOMAIN missing,
           NEW x, x = Smart(n, d, protocol, missing)
    PROVE  /\ x.value \in Entry["smart"]
           /\ x.value.disk_number = n /\ x.value.protocol = protocol
           /\ SmartOf(d, x.value)
           /\ x.value.available_spare_percent = 101 => Is(d, "spent")
<1> DEFINE v == x.value
           told == [disk_number |-> n, protocol |-> protocol,
                    predict_failure |-> Is(d, "failing"),
                    critical_warning |-> IF Is(d, "failing") THEN 1 ELSE 0,
                    percentage_used |-> IF Is(d, "failing") THEN 100 ELSE 99,
                    available_spare_percent |-> IF Is(d, "spent") THEN 101 ELSE 100,
                    temperature_celsius |-> 40]
<1>1. v = [f \in SmartFields |-> IF f \in DOMAIN missing THEN Null ELSE told[f]]
  <2>1. DOMAIN told = SmartFields
    BY DEF SmartFields
  <2> QED BY <2>1, SnapshotIs DEF Smart
<1>2. /\ told["disk_number"] = n /\ told["protocol"] = protocol
      /\ told["predict_failure"] = Is(d, "failing")
      /\ told["critical_warning"] = IF Is(d, "failing") THEN 1 ELSE 0
      /\ told["percentage_used"] = IF Is(d, "failing") THEN 100 ELSE 99
      /\ told["available_spare_percent"] = IF Is(d, "spent") THEN 101 ELSE 100
      /\ told["temperature_celsius"] = 40
  OBVIOUS
<1>3. Is(d, "failing") \in {TRUE, FALSE}
  <2>1. Is(d, "failing") \in BOOLEAN
    BY DEF Is
  <2> QED BY <2>1
<1> HIDE DEF told
<1>4. /\ v.disk_number = n /\ v.protocol = protocol
      /\ v.predict_failure = IF "predict_failure" \in DOMAIN missing THEN Null
                             ELSE told["predict_failure"]
      /\ v.critical_warning = IF "critical_warning" \in DOMAIN missing THEN Null
                              ELSE told["critical_warning"]
      /\ v.percentage_used = IF "percentage_used" \in DOMAIN missing THEN Null
                             ELSE told["percentage_used"]
      /\ v.available_spare_percent = IF "available_spare_percent" \in DOMAIN missing THEN Null
                                     ELSE told["available_spare_percent"]
      /\ v.temperature_celsius = IF "temperature_celsius" \in DOMAIN missing THEN Null
                                 ELSE told["temperature_celsius"]
  BY <1>1, <1>2 DEF SmartFields, NvmeFields
<1>5. /\ v.predict_failure \in {TRUE, FALSE, Null} /\ v.critical_warning \in {0, 1, Null}
      /\ v.percentage_used \in {99, 100, Null} /\ v.available_spare_percent \in {100, 101, Null}
      /\ v.temperature_celsius \in {40, Null}
  BY <1>2, <1>3, <1>4
<1>6. v = [disk_number |-> v.disk_number, protocol |-> v.protocol,
           predict_failure |-> v.predict_failure, critical_warning |-> v.critical_warning,
           percentage_used |-> v.percentage_used,
           available_spare_percent |-> v.available_spare_percent,
           temperature_celsius |-> v.temperature_celsius]
  BY <1>1 DEF SmartFields
<1>7. v \in SmartEntry
  BY <1>4, <1>5, <1>6 DEF SmartEntry
<1>8. SmartOf(d, v)
  BY <1>2, <1>4 DEF SmartOf
<1>9. v.available_spare_percent = 101 => Is(d, "spent")
  <2>1. Null # 101
    BY NullAssumption
  <2> QED BY <1>2, <1>4, <2>1
<1> QED BY <1>4, <1>7, <1>8, <1>9, SmartEntryIs

\* An entry without values says so.
LEMMA UnavailableIs ==
    ASSUME NEW n \in Numbers, NEW status \in {"unsupported", "permission_denied", "failed"},
           NEW x, x = UnavailableSnapshot(n, status)
    PROVE  /\ x.value \in Entry["smart"] /\ x.value.disk_number = n
           /\ x.value.protocol = "unknown" /\ Noted("smart", x)
           /\ x.value.available_spare_percent = Null
<1> DEFINE v == x.value
           nothing == [disk_number |-> n, protocol |-> "unknown", predict_failure |-> Null,
                       critical_warning |-> Null, percentage_used |-> Null,
                       available_spare_percent |-> Null, temperature_celsius |-> Null]
           missing == [f \in NvmeFields \cup {"predict_failure"} |-> status]
<1>1. /\ v = [f \in SmartFields |-> IF f \in DOMAIN missing THEN Null ELSE nothing[f]]
      /\ x.missing = missing
  <2>1. DOMAIN nothing = SmartFields
    BY DEF SmartFields
  <2> QED BY <2>1, SnapshotIs DEF UnavailableSnapshot
<1>2. /\ v.disk_number = n /\ v.protocol = "unknown" /\ v.predict_failure = Null
      /\ v.critical_warning = Null /\ v.percentage_used = Null
      /\ v.available_spare_percent = Null /\ v.temperature_celsius = Null
  BY <1>1 DEF SmartFields, NvmeFields
<1>3. v = [disk_number |-> v.disk_number, protocol |-> v.protocol,
           predict_failure |-> v.predict_failure, critical_warning |-> v.critical_warning,
           percentage_used |-> v.percentage_used,
           available_spare_percent |-> v.available_spare_percent,
           temperature_celsius |-> v.temperature_celsius]
  BY <1>1 DEF SmartFields
<1>4. v \in SmartEntry
  BY <1>2, <1>3 DEF SmartEntry
<1>5. Noted("smart", x)
  BY <1>1, <1>2 DEF Noted
<1> QED BY <1>2, <1>4, <1>5, SmartEntryIs

LEMMA QuerySmartKeeps ==
    ASSUME IInv, QuerySmart
    PROVE  IInv'
<1> DEFINE n == Head(todo)
<1>1. /\ Querying("smart") /\ "smart" \in Collectors /\ n \in Numbers
      /\ todo # Null /\ faults \in 0..MaxFaults /\ said \in BOOLEAN
      /\ Undisturbed => \E d \in Connected : n = place[d]
  BY AtHead DEF QuerySmart, IInv, TypeOK, Collectors, Listed
<1>2. ASSUME NEW x, Take(x), faults' \in 0..MaxFaults, x.value \in Entry["smart"],
             x.value.disk_number = n, Noted("smart", x), TrueSmart(x.value)
      PROVE  IInv'
  <2>1. out' = Append(out, x) /\ said' = said
    BY <1>2 DEF Take
  <2>2. True("smart", x.value)
    BY <1>2 DEF True
  <2>3. \A e \in Connected : Listed("smart", e) = n => About("smart", e, x.value)
    BY <1>2 DEF Listed, About
  <2> QED BY <1>1, <1>2, <2>1, <2>2, <2>3, TakeKeeps
<1>3. ASSUME NEW status \in {"unsupported", "permission_denied", "failed"},
             Take(UnavailableSnapshot(n, status)), faults' \in 0..MaxFaults
      PROVE  IInv'
  <2>1. PICK x : x = UnavailableSnapshot(n, status)
    OBVIOUS
  <2>2. /\ x.value \in Entry["smart"] /\ x.value.disk_number = n
        /\ x.value.protocol = "unknown" /\ Noted("smart", x)
        /\ x.value.available_spare_percent = Null
    BY <1>1, <2>1, UnavailableIs
  <2>3. TrueSmart(x.value)
    BY <1>1, <2>2, NullAssumption DEF TrueSmart, SmartOf
  <2> QED BY <1>2, <1>3, <2>1, <2>2, <2>3
<1>4. ASSUME NEW d \in Opens(n), NEW protocol \in {"nvme", "failure_prediction"},
             NEW missing, DOMAIN missing \subseteq NvmeFields \cup {"predict_failure"},
             protocol = "nvme" => DOMAIN missing \subseteq {"predict_failure", "temperature_celsius"},
             protocol = "failure_prediction" => "predict_failure" \notin DOMAIN missing,
             Take(Smart(n, d, protocol, missing)), faults' \in 0..MaxFaults
      PROVE  IInv'
  <2>1. PICK x : x = Smart(n, d, protocol, missing)
    OBVIOUS
  <2>2. place[d] = n /\ d \in Connected /\ d \in Devices
    BY <1>1, StorageAssumption, NullAssumption DEF Opens, Connected
  <2>3. /\ x.value \in Entry["smart"]
        /\ x.value.disk_number = n /\ x.value.protocol = protocol
        /\ SmartOf(d, x.value)
        /\ x.value.available_spare_percent = 101 => Is(d, "spent")
    BY <1>1, <1>4, <2>1, <2>2, SmartSnapshot
  <2>4. TrueSmart(x.value)
    BY <2>2, <2>3 DEF TrueSmart
  <2>5. Noted("smart", x)
    BY <2>3 DEF Noted
  <2> QED BY <1>2, <1>4, <2>1, <2>3, <2>4, <2>5
<1>5. CASE \/ Vacant(n) /\ Spend(0) /\ Take(UnavailableSnapshot(n, "failed"))
           \/ Refuses(n) /\ Spend(0) /\ Take(UnavailableSnapshot(n, "permission_denied"))
  <2>1. faults' \in 0..MaxFaults
    BY <1>5, Spent
  <2> QED BY <1>3, <1>5, <2>1
<1>6. CASE \E d \in Opens(n), invalid \in SUBSET {"temperature_celsius"} :
             /\ Is(d, "nvme") /\ ~Is(d, "bridge") /\ Spend(Cardinality(invalid))
             /\ Take(NvmeSnapshot(n, d, invalid))
  <2>1. PICK d \in Opens(n), invalid \in SUBSET {"temperature_celsius"} :
             Spend(Cardinality(invalid)) /\ Take(NvmeSnapshot(n, d, invalid))
    BY <1>6
  <2>2. PICK missing : missing = [f \in {"predict_failure"} \cup invalid |->
                           IF f \in invalid THEN "invalid_value" ELSE "not_applicable"]
    OBVIOUS
  <2>3. DOMAIN missing \subseteq {"predict_failure", "temperature_celsius"}
    BY <2>2
  <2>4. faults' \in 0..MaxFaults
    BY <2>1, Counted, Spent
  <2>5. Take(Smart(n, d, "nvme", missing))
    BY <2>1, <2>2 DEF NvmeSnapshot
  <2>6. DOMAIN missing \subseteq NvmeFields \cup {"predict_failure"}
    BY <2>3 DEF NvmeFields
  <2> QED BY <1>4, <2>3, <2>4, <2>5, <2>6
<1>7. CASE \E d \in Opens(n) :
             /\ ~Is(d, "bridge") /\ Spend(IF Is(d, "nvme") THEN 1 ELSE 0)
             /\ Take(PredictionSnapshot(n, d))
  <2>1. PICK d \in Opens(n) :
             Spend(IF Is(d, "nvme") THEN 1 ELSE 0) /\ Take(PredictionSnapshot(n, d))
    BY <1>7
  <2>2. PICK missing : missing = [f \in NvmeFields |-> "not_applicable"]
    OBVIOUS
  <2>3. DOMAIN missing = NvmeFields /\ "predict_failure" \notin NvmeFields
    BY <2>2 DEF NvmeFields
  <2>4. faults' \in 0..MaxFaults
    BY <2>1, Spent
  <2>5. Take(Smart(n, d, "failure_prediction", missing))
    BY <2>1, <2>2 DEF PredictionSnapshot
  <2> QED BY <1>4, <2>3, <2>4, <2>5
<1>8. CASE \E d \in Opens(n), status \in {"unsupported", "permission_denied", "failed"} :
             /\ Spend(IF Is(d, "bridge") /\ status = "unsupported" THEN 0 ELSE 1)
             /\ Take(UnavailableSnapshot(n, status))
  <2>1. PICK d \in Opens(n), status \in {"unsupported", "permission_denied", "failed"} :
             /\ Spend(IF Is(d, "bridge") /\ status = "unsupported" THEN 0 ELSE 1)
             /\ Take(UnavailableSnapshot(n, status))
    BY <1>8
  <2>2. faults' \in 0..MaxFaults
    BY <2>1, Spent
  <2> QED BY <1>3, <2>1, <2>2
<1> QED BY <1>5, <1>6, <1>7, <1>8 DEF QuerySmart

-----------------------------------------------------------------------------
(* A collector returns, or is lost. *)

\* Who has a result when one more has it.
LEMMA PastThen ==
    ASSUME IInv, stage \in Collectors, stage' = After[stage]
    PROVE  /\ stage \notin DOMAIN result /\ Past' = Past \cup {stage}
           /\ stage' \in Collectors \cup {"gate"}
<1>1. CASE stage = "physical_disks" BY <1>1 DEF IInv, Past, After, Collectors
<1>2. CASE stage = "partitions" BY <1>2 DEF IInv, Past, After, Collectors
<1>3. CASE stage = "volumes" BY <1>3 DEF IInv, Past, After, Collectors
<1>4. CASE stage = "smart" BY <1>4 DEF IInv, Past, After, Collectors
<1> QED BY <1>1, <1>2, <1>3, <1>4 DEF Collectors

LEMMA FinishKeeps ==
    ASSUME IInv, stage \in Collectors, NEW r, Finish(stage, r), faults' \in 0..MaxFaults,
           Sound(stage, r), r.status \in {"success", "partial", "failed"},
           r.values \in {Null} \cup Seq(Entry[stage])
    PROVE  IInv'
<1>1. /\ stage' = After[stage] /\ todo' = Null /\ out' = <<>> /\ said' = FALSE
      /\ UNCHANGED <<pc, errors, evaluations>>
  BY DEF Finish
<1>2. /\ stage \notin DOMAIN result /\ Past' = Past \cup {stage}
      /\ stage' \in Collectors \cup {"gate"}
  BY <1>1, PastThen
<1>3. /\ DOMAIN result' = DOMAIN result \cup {stage}
      /\ result'[stage] = r
      /\ \A x \in DOMAIN result : result'[x] = result[x]
  BY <1>2, FinishAdds
<1>4. TypeOK'
  <2>1. \A c \in DOMAIN result' : /\ result'[c].status \in {"success", "partial", "failed"}
                                  /\ result'[c].values \in {Null} \cup Seq(Entry[c])
    BY <1>3 DEF IInv, TypeOK
  <2>2. /\ DOMAIN out' = {} /\ out' = <<>>
        /\ stage' \in Collectors \cup {"gate", "rules", "done"}
    BY <1>1, <1>2
  <2>3. DOMAIN result' \subseteq Collectors
    BY <1>3 DEF IInv, TypeOK
  <2>4. /\ trait' \in [Devices -> Traits] /\ place' \in [Devices -> Numbers \cup {Null}]
        /\ changes' \in 0..MaxChanges /\ DOMAIN evaluations' \in {{}, Rules}
    BY <1>1 DEF IInv, TypeOK, pc
  <2> QED BY <1>1, <2>1, <2>2, <2>3, <2>4 DEF TypeOK
<1>5. PlacesDiffer' /\ (DOMAIN result = Past)'
  BY <1>1, <1>2, <1>3, PcSame DEF IInv
<1>6. Collecting'
  BY <1>1 DEF Collecting
<1>7. (\A c \in DOMAIN result : Sound(c, result[c]))'
  <2>1. \A c, x : Sound(c, x)' = Sound(c, x)
    BY <1>1, PcSame
  <2>2. \A c \in DOMAIN result' : Sound(c, result'[c])
    BY <1>3 DEF IInv
  <2> QED BY <2>1, <2>2
<1>8. errors = {} /\ errors' = {} /\ stage' # "done"
  BY <1>1, <1>2 DEF IInv, Judged, Collectors
<1>9. Judged' /\ ExplainedRefusal'
  BY <1>8 DEF Judged, ExplainedRefusal
<1> QED BY <1>4, <1>5, <1>6, <1>7, <1>9 DEF IInv

LEMMA LoseKeeps ==
    ASSUME IInv, Lose
    PROVE  IInv'
<1>1. PICK r : r = [values |-> Null, fields |-> {}, messages |-> TRUE, status |-> "failed"]
  OBVIOUS
<1>2. /\ stage \in Collectors /\ Finish(stage, r) /\ faults' \in 0..MaxFaults
  BY <1>1, Spent DEF Lose
<1>3. r.values = Null /\ r.fields = {} /\ r.messages = TRUE /\ r.status = "failed"
  BY <1>1
<1>4. Sound(stage, r)
  BY <1>3 DEF Sound
<1> QED BY <1>2, <1>3, <1>4, FinishKeeps

LEMMA ReturnKeeps ==
    ASSUME IInv, Return
    PROVE  IInv'
<1> DEFINE c == stage
           r == Returned(stage, FieldResults(stage))
<1>1. /\ c \in Collectors /\ todo = <<>> /\ todo # Null
      /\ Finish(c, r) /\ faults' \in 0..MaxFaults /\ said \in BOOLEAN
  <2>1. <<>> \in Seq(Numbers \cup Devices)
    OBVIOUS
  <2> QED BY <2>1, NullAssumption DEF Return, IInv, TypeOK
<1>2. /\ r.values = Values /\ r.fields = FieldResults(c) /\ r.messages = said
      /\ r.status = IF ~said /\ \A f \in FieldResults(c) : Harmless(c, f)
                    THEN "success" ELSE "partial"
  BY DEF Returned, Values
<1> HIDE DEF r
<1>3. /\ out \in Seq({out[i] : i \in DOMAIN out}) /\ Len(out) \in Nat /\ DOMAIN out = 1..Len(out)
      /\ \A i \in DOMAIN out : out[i].value \in Entry[c]
  <2>1. out \in Seq({out[i] : i \in DOMAIN out})
    BY DEF IInv, Collecting
  <2> QED BY <2>1 DEF IInv, TypeOK
<1>4. /\ Values \in Seq(Entry[c]) /\ Len(Values) = Len(out) /\ DOMAIN Values = DOMAIN out
      /\ \A i \in DOMAIN out : Values[i] = out[i].value
  <2>1. Values \in [1..Len(out) -> Entry[c]] /\ \A i \in DOMAIN out : Values[i] = out[i].value
    BY <1>3 DEF Values
  <2> QED BY <1>3, <2>1
<1>5. Values # Null
  <2>1. c \in DOMAIN Entry
    BY <1>1 DEF Entry, Collectors
  <2> QED BY <1>4, <2>1, NullAssumption
<1>6. /\ \A f \in FieldResults(c) :
           \E i \in DOMAIN Values : \E g \in Nulls(Values[i]) : f.path = <<c, i, g>>
      /\ \A i \in DOMAIN Values : \A g \in Nulls(Values[i]) :
           \E f \in FieldResults(c) :
             /\ f.path = <<c, i, g>>
             /\ f.status = IF g \in DOMAIN out[i].missing THEN out[i].missing[g] ELSE "source_null"
  <2>1. FieldResults(c) =
          UNION {{[path |-> <<c, i, g>>,
                   status |-> IF g \in DOMAIN out[i].missing THEN out[i].missing[g]
                              ELSE "source_null"] : g \in Nulls(Values[i])} : i \in DOMAIN out}
    BY <1>4 DEF FieldResults
  <2>2. \A f \in FieldResults(c) :
           \E i \in DOMAIN out : \E g \in Nulls(Values[i]) : f.path = <<c, i, g>>
    BY <2>1
  <2>3. ASSUME NEW i \in DOMAIN out, NEW g \in Nulls(Values[i])
        PROVE  \E f \in FieldResults(c) :
                 /\ f.path = <<c, i, g>>
                 /\ f.status = IF g \in DOMAIN out[i].missing THEN out[i].missing[g]
                               ELSE "source_null"
    <3> DEFINE f == [path |-> <<c, i, g>>,
                     status |-> IF g \in DOMAIN out[i].missing THEN out[i].missing[g]
                                ELSE "source_null"]
    <3>1. f \in FieldResults(c)
      BY <2>1
    <3> QED BY <3>1
  <2> QED BY <1>4, <2>2, <2>3
<1>7. Agreed(c, r)
  BY <1>2, <1>6 DEF Agreed
<1>8. \A i \in DOMAIN Values :
        /\ True(c, Values[i])
        /\ c = "smart" /\ Values[i].protocol = "unknown" => r.status # "success"
  <2> SUFFICES ASSUME NEW i \in DOMAIN out
               PROVE  /\ True(c, Values[i])
                      /\ c = "smart" /\ Values[i].protocol = "unknown" => r.status # "success"
    BY <1>4
  <2>1. True(c, Values[i])
    BY <1>4 DEF IInv, Collecting
  <2>2. ASSUME c = "smart", Values[i].protocol = "unknown" PROVE r.status # "success"
    <3>1. /\ Values[i].predict_failure = Null
          /\ "predict_failure" \in DOMAIN out[i].missing
          /\ out[i].missing["predict_failure"] # "not_applicable"
      BY <1>4, <2>2 DEF IInv, Collecting
    <3>2. Values[i] \in Entry["smart"]
      BY <1>3, <1>4, <2>2
    <3>3. "predict_failure" \in Nulls(Values[i])
      <4>1. \A v \in SmartEntry : "predict_failure" \in DOMAIN v
        BY DEF SmartEntry
      <4> QED BY <3>1, <3>2, <4>1, SmartEntryIs DEF Nulls
    <3>4. \E f \in FieldResults(c) : f.status # "not_applicable"
      BY <1>4, <1>6, <3>1, <3>3
    <3> QED BY <1>2, <3>4 DEF Harmless
  <2> QED BY <2>1, <2>2
<1>9. ASSUME Undisturbed
      PROVE  /\ \A d \in Connected : \/ \E i \in DOMAIN Values : About(c, d, Values[i])
                                     \/ Excused(c, d, said)
             /\ c = "volumes" => Len(Values) = Cardinality(Connected) /\ Apart(Values)
  <2>1. DOMAIN todo = {} /\ Len(todo) = 0
    BY <1>1
  <2>2. \A d \in Connected : \/ \E i \in DOMAIN out : About(c, d, out[i].value)
                             \/ Excused(c, d, said)
    BY <1>1, <1>9, <2>1 DEF IInv, Collecting
  <2>3. c = "volumes" => Len(out) + Len(todo) = Cardinality(Connected) /\ Apart(Values)
    BY <1>1, <1>9 DEF IInv, Collecting
  <2>4. Len(out) + Len(todo) = Len(out)
    BY <1>3, <2>1
  <2> QED BY <1>4, <2>2, <2>3, <2>4
<1>10. Sound(c, r)
  BY <1>2, <1>5, <1>7, <1>8, <1>9 DEF Sound
<1>11. r.status \in {"success", "partial", "failed"} /\ r.values \in {Null} \cup Seq(Entry[c])
  BY <1>2, <1>4
<1> QED BY <1>1, <1>10, <1>11, FinishKeeps

-----------------------------------------------------------------------------
(* The gate. *)

\* What the gate finds in each section.
LEMMA EntriesAre ==
    ASSUME IInv, NEW c \in DOMAIN result
    PROVE  /\ Sound(c, result[c])
           /\ Entries(c) \in Seq(Entry[c])
           /\ result[c].values # Null => Entries(c) = result[c].values
           /\ result[c].values = Null => Entries(c) = <<>> /\ DOMAIN Entries(c) = {}
           /\ \A i \in DOMAIN Entries(c) : Entries(c)[i] \in Entry[c] /\ True(c, Entries(c)[i])
           /\ \A v \in EntrySet(c) : v \in Entry[c] /\ True(c, v)
<1>1. Sound(c, result[c]) /\ result[c].values \in {Null} \cup Seq(Entry[c])
  BY DEF IInv, TypeOK
<1>2. CASE result[c].values = Null
  <2>1. Entries(c) = <<>>
    BY <1>2 DEF Entries
  <2> QED BY <1>1, <1>2, <2>1 DEF EntrySet
<1>3. CASE result[c].values # Null
  <2>1. Entries(c) = result[c].values /\ Entries(c) \in Seq(Entry[c])
    BY <1>1, <1>3 DEF Entries
  <2>2. \A i \in DOMAIN Entries(c) : Entries(c)[i] \in Entry[c] /\ True(c, Entries(c)[i])
    BY <1>1, <1>3, <2>1 DEF Sound
  <2> QED BY <1>1, <1>3, <2>1, <2>2 DEF EntrySet
<1> QED BY <1>2, <1>3

LEMMA NoStatusError ==
    ASSUME IInv, DOMAIN result = Collectors, NEW c \in Collectors
    PROVE  StatusErrors(c) = {}
<1> DEFINE r == result[c]
           paths == {f.path : f \in r.fields}
<1>1. Sound(c, r)
  BY EntriesAre
<1>2. CASE r.values = Null
  <2>1. r.messages /\ r.status = "failed"
    BY <1>1, <1>2 DEF Sound
  <2> QED BY <1>2, <2>1 DEF StatusErrors
<1>3. CASE r.values # Null
  <2>1. Agreed(c, r) /\ Entries(c) = r.values
    BY <1>1, <1>3, EntriesAre DEF Sound
  <2>2. \A p \in paths : Has(p) /\ At(p) = Null
    <3> SUFFICES ASSUME NEW f \in r.fields PROVE Has(f.path) /\ At(f.path) = Null
      OBVIOUS
    <3>1. PICK i \in DOMAIN r.values : \E g \in Nulls(r.values[i]) : f.path = <<c, i, g>>
      BY <2>1 DEF Agreed
    <3>2. PICK g \in Nulls(r.values[i]) : f.path = <<c, i, g>>
      BY <3>1
    <3> QED BY <2>1, <3>2 DEF Has, At, Nulls
  <2>3. \A i \in DOMAIN Entries(c) : \A g \in Nulls(Entries(c)[i]) : <<c, i, g>> \in paths
    BY <2>1 DEF Agreed
  <2>4. /\ r.status \in {"success", "partial"}
        /\ r.status = "success" => ~r.messages /\ \A f \in r.fields : Harmless(c, f)
    BY <2>1 DEF Agreed
  <2>5. {<<"no_array", c>> : x \in {y \in {c} : r.values = Null}} = {}
    BY <1>3
  <2>6. {<<"not_null", p>> : p \in {q \in paths : ~Has(q) \/ At(q) # Null}} = {}
    BY <2>2
  <2>7. (UNION {{<<c, i, f>> : f \in Nulls(Entries(c)[i])} : i \in DOMAIN Entries(c)}) \ paths = {}
    <3> DEFINE places == UNION {{<<c, i, f>> : f \in Nulls(Entries(c)[i])}
                                  : i \in DOMAIN Entries(c)}
    <3>1. ASSUME NEW p \in places PROVE p \in paths
      <4>1. PICK i \in DOMAIN Entries(c) : p \in {<<c, i, f>> : f \in Nulls(Entries(c)[i])}
        OBVIOUS
      <4>2. PICK g \in Nulls(Entries(c)[i]) : p = <<c, i, g>>
        BY <4>1
      <4> HIDE DEF paths
      <4> QED BY <2>3, <4>2
    <3> QED BY <3>1
  <2>8. {<<"no_success", c>> : x \in {y \in {c} : r.status = "success" /\
                 (r.messages \/ \E f \in r.fields : ~Harmless(c, f))}} = {}
    BY <2>4
  <2> QED BY <2>4, <2>5, <2>6, <2>7, <2>8 DEF StatusErrors
<1> QED BY <1>2, <1>3

\* Every reference is to a connected disk.
LEMMA ReferencesAre ==
    ASSUME IInv, DOMAIN result = Collectors, Undisturbed
    PROVE  /\ \A r \in Ranges : \E d \in Connected : r.disk_number = place[d] /\ r.end = Capacity(d)
           /\ \A n \in References : \E d \in Connected : n = place[d]
<1>1. \A r \in EntrySet("partitions") : \E d \in Connected : r.disk_number = place[d] /\ r.end = Capacity(d)
  BY EntriesAre DEF True, TruePartition, Collectors
<1>2. ASSUME NEW v \in EntrySet("volumes"), v.extents # Null, NEW r \in v.extents
      PROVE  \E d \in Connected : r.disk_number = place[d] /\ r.end = Capacity(d)
  <2>1. TrueVolume(v)
    BY EntriesAre DEF True, Collectors
  <2>2. PICK d \in Devices : VolumeOf(d, v)
    BY <2>1 DEF TrueVolume
  <2>3. d \in Connected /\ r = [disk_number |-> place[d], end |-> Capacity(d)]
    BY <1>2, <2>2 DEF VolumeOf
  <2> QED BY <2>3
<1>3. \A r \in Ranges : \E d \in Connected : r.disk_number = place[d] /\ r.end = Capacity(d)
  BY <1>1, <1>2 DEF Ranges
<1>4. \A s \in EntrySet("smart") : \E d \in Connected : s.disk_number = place[d]
  BY EntriesAre DEF True, TrueSmart, Collectors
<1> QED BY <1>3, <1>4 DEF References

LEMMA RangeErrorsExplained ==
    ASSUME IInv, DOMAIN result = Collectors, NEW e \in RangeErrors
    PROVE  \/ /\ e[1] = "reference"
              /\ ~Undisturbed \/ \E d \in Connected : place[d] = e[2] /\ Is(d, "locked")
           \/ e[1] = "range" /\ ~Undisturbed
<1> DEFINE disks == EntrySet("physical_disks")
<1>1. result["physical_disks"].values # Null
  BY DEF RangeErrors
<1>2. CASE e \in {<<"reference", n>> : n \in References \ {k.number : k \in disks}}
  <2>1. PICK n \in References : e = <<"reference", n>> /\ \A k \in disks : n # k.number
    BY <1>2
  <2>2. ASSUME Undisturbed PROVE \E d \in Connected : place[d] = n /\ Is(d, "locked")
    <3>1. PICK d \in Connected : n = place[d]
      BY <2>2, ReferencesAre
    <3>2. \/ \E i \in DOMAIN Entries("physical_disks") :
                About("physical_disks", d, Entries("physical_disks")[i])
          \/ Excused("physical_disks", d, result["physical_disks"].messages)
      BY <1>1, <2>2, EntriesAre DEF Sound, Collectors
    <3>3. \A i \in DOMAIN Entries("physical_disks") : Entries("physical_disks")[i] \in disks
      BY DEF EntrySet
    <3> QED BY <2>1, <3>1, <3>2, <3>3 DEF About, Excused
  <2> QED BY <2>1, <2>2
<1>3. CASE e \in {<<"range", r.disk_number>> : r \in {x \in Ranges : \E k \in disks :
              k.number = x.disk_number /\ k.capacity_bytes # Null /\ x.end > k.capacity_bytes}}
  <2>1. PICK r \in Ranges, k \in disks :
          /\ e = <<"range", r.disk_number>>
          /\ k.number = r.disk_number /\ k.capacity_bytes # Null /\ r.end > k.capacity_bytes
    BY <1>3
  <2>2. ASSUME Undisturbed PROVE FALSE
    <3>1. PICK d \in Connected : r.disk_number = place[d] /\ r.end = Capacity(d)
      BY <2>2, ReferencesAre
    <3>2. PICK b \in Connected : k.number = place[b] /\ k.capacity_bytes \in {Null, Capacity(b)}
      BY <2>2, EntriesAre DEF True, TrueDisk, Collectors
    <3>3. b = d
      BY <2>1, <3>1, <3>2 DEF IInv, PlacesDiffer, Connected
    <3>4. Capacity(d) \in {1, 2}
      BY DEF Capacity
    <3> QED BY <2>1, <3>1, <3>2, <3>3, <3>4
  <2> QED BY <2>1, <2>2
<1> QED BY <1>1, <1>2, <1>3 DEF RangeErrors

LEMMA ValueErrorsExplained ==
    ASSUME IInv, DOMAIN result = Collectors, NEW e \in ValueErrors
    PROVE  \/ e[1] = "free" /\ \E d \in Devices : Is(d, "quota")
           \/ e[1] = "spare" /\ \E d \in Devices : Is(d, "spent")
           \/ e[1] = "mount" /\ ~Undisturbed
<1>1. CASE e \in {<<"free", i>> : i \in {j \in DOMAIN Entries("volumes") : LET v == Entries("volumes")[j] IN
        v.free_bytes # Null /\ v.capacity_bytes # Null /\ v.free_bytes > v.capacity_bytes}}
  <2>1. PICK i \in DOMAIN Entries("volumes") :
          /\ e = <<"free", i>>
          /\ Entries("volumes")[i].free_bytes # Null /\ Entries("volumes")[i].capacity_bytes # Null
          /\ Entries("volumes")[i].free_bytes > Entries("volumes")[i].capacity_bytes
    BY <1>1
  <2>2. TrueVolume(Entries("volumes")[i])
    BY EntriesAre DEF True, Collectors
  <2>3. PICK d \in Devices : VolumeOf(d, Entries("volumes")[i])
    BY <2>2 DEF TrueVolume
  <2>4. VolumeFree(d) > VolumeCapacity(d)
    BY <2>1, <2>3 DEF VolumeOf
  <2>5. Is(d, "quota")
    BY <2>4 DEF VolumeFree, VolumeCapacity
  <2> QED BY <2>1, <2>5
<1>2. CASE e \in {<<"spare", s.disk_number>> : s \in {t \in EntrySet("smart") :
        t.available_spare_percent # Null /\ t.available_spare_percent > 100}}
  <2>1. PICK s \in EntrySet("smart") :
          /\ e = <<"spare", s.disk_number>>
          /\ s.available_spare_percent # Null /\ s.available_spare_percent > 100
    BY <1>2
  <2>2. s \in SmartEntry /\ TrueSmart(s)
    BY EntriesAre, SmartEntryIs DEF True, Collectors
  <2>3. s.available_spare_percent = 101
    BY <2>1, <2>2 DEF SmartEntry
  <2> QED BY <2>1, <2>2, <2>3 DEF TrueSmart
<1>3. CASE e \in {<<"mount", n>> : n \in {m \in Numbers : \E i, j \in DOMAIN Entries("volumes") : i < j /\
        \A k \in {i, j} : LET p == Entries("volumes")[k].mount_points IN p # Null /\ m \in p}}
  <2> DEFINE E == Entries("volumes")
  <2>1. PICK m \in Numbers, i \in DOMAIN E, j \in DOMAIN E :
          /\ e = <<"mount", m>> /\ i < j
          /\ E[i].mount_points # Null /\ m \in E[i].mount_points
          /\ E[j].mount_points # Null /\ m \in E[j].mount_points
    BY <1>3
  <2>2. E \in Seq(Entry["volumes"]) /\ i # j
    BY <2>1, EntriesAre DEF Collectors
  <2>3. ASSUME Undisturbed PROVE FALSE
    <3>1. Apart(E)
      <4>1. result["volumes"].values # Null
        BY <2>1, EntriesAre DEF Collectors
      <4> QED BY <2>3, <4>1, EntriesAre DEF Sound, Collectors
    <3> QED BY <2>1, <2>2, <3>1 DEF Apart
  <2> QED BY <2>1, <2>3
<1> QED BY <1>1, <1>2, <1>3 DEF ValueErrors

\* Statuses, nulls and their paths always agree; the other errors have their cause.
LEMMA GateKeeps ==
    ASSUME IInv, Gate
    PROVE  IInv'
<1>1. /\ stage = "gate" /\ stage' \in {"rules", "done"} /\ stage' \notin Collectors
      /\ stage' = IF errors' = {} THEN "rules" ELSE "done"
      /\ UNCHANGED <<pc, faults, todo, out, said, result, evaluations>>
      /\ todo' = todo /\ out' = out /\ said' = said /\ result' = result /\ faults' = faults
  BY DEF Gate, Collectors
<1>2. todo = Null /\ out = <<>> /\ said = FALSE /\ DOMAIN result = Collectors
  BY <1>1 DEF IInv, Collecting, Past, Collectors
<1>3. \A c \in Collectors : StatusErrors(c) = {}
  BY <1>2, NoStatusError
<1>4. UNION {StatusErrors(c) : c \in Collectors} = {}
  BY <1>3
<1>5. errors' = RangeErrors \cup ValueErrors
  BY <1>4 DEF Gate
<1>6. TypeOK'
  <2>1. /\ trait' \in [Devices -> Traits] /\ place' \in [Devices -> Numbers \cup {Null}]
        /\ changes' \in 0..MaxChanges /\ faults' \in 0..MaxFaults
        /\ DOMAIN evaluations' \in {{}, Rules} /\ DOMAIN result' \subseteq Collectors
    BY <1>1 DEF IInv, TypeOK, pc
  <2>2. todo' = Null /\ out' = <<>> /\ said' \in BOOLEAN /\ DOMAIN out' = {}
    <3>1. said' \in BOOLEAN
      BY <1>1 DEF IInv, TypeOK
    <3>2. todo' = Null /\ out' = <<>>
      BY <1>1, <1>2
    <3>3. DOMAIN out' = {}
      BY <3>2
    <3> QED BY <3>1, <3>2, <3>3
  <2>3. \A c \in DOMAIN result' : /\ result'[c].status \in {"success", "partial", "failed"}
                                  /\ result'[c].values \in {Null} \cup Seq(Entry[c])
    BY <1>1 DEF IInv, TypeOK
  <2> QED BY <1>1, <2>1, <2>2, <2>3 DEF TypeOK
<1>7. PlacesDiffer' /\ (DOMAIN result = Past)'
  BY <1>1, <1>2, PcSame DEF IInv, Past
<1>8. Collecting'
  BY <1>1, <1>2 DEF Collecting, Collectors
<1>9. (\A c \in DOMAIN result : Sound(c, result[c]))'
  <2>1. \A c, r : Sound(c, r)' = Sound(c, r)
    BY <1>1, PcSame
  <2> QED BY <1>1, <2>1 DEF IInv
<1>10. Judged'
  BY <1>1 DEF Judged
<1>11. ExplainedRefusal'
  <2>1. /\ Undisturbed' = Undisturbed /\ Connected' = Connected
        /\ place' = place /\ trait' = trait
    BY <1>1, PcSame DEF pc
  <2>2. \A d, t : Is(d, t)' = Is(d, t)
    BY <2>1 DEF Is
  <2>3. \A e \in errors' :
          \/ /\ e[1] = "reference"
             /\ ~Undisturbed \/ \E d \in Connected : place[d] = e[2] /\ Is(d, "locked")
          \/ e[1] = "range" /\ ~Undisturbed
          \/ e[1] = "free" /\ \E d \in Devices : Is(d, "quota")
          \/ e[1] = "spare" /\ \E d \in Devices : Is(d, "spent")
          \/ e[1] = "mount" /\ ~Undisturbed
    <3> SUFFICES ASSUME NEW e \in errors'
                 PROVE  \/ /\ e[1] = "reference"
                           /\ ~Undisturbed \/ \E d \in Connected : place[d] = e[2] /\ Is(d, "locked")
                        \/ e[1] = "range" /\ ~Undisturbed
                        \/ e[1] = "free" /\ \E d \in Devices : Is(d, "quota")
                        \/ e[1] = "spare" /\ \E d \in Devices : Is(d, "spent")
                        \/ e[1] = "mount" /\ ~Undisturbed
      OBVIOUS
    <3>1. CASE e \in RangeErrors BY <1>2, <3>1, RangeErrorsExplained
    <3>2. CASE e \in ValueErrors BY <1>2, <3>2, ValueErrorsExplained
    <3> QED BY <1>5, <3>1, <3>2
  <2> QED BY <2>1, <2>2, <2>3 DEF ExplainedRefusal
<1> QED BY <1>6, <1>7, <1>8, <1>9, <1>10, <1>11 DEF IInv

-----------------------------------------------------------------------------
(* The rules. *)

LEMMA RulingsSame ==
    ASSUME result' = result
    PROVE  Rulings' = Rulings
<1>1. \A c : Entries(c)' = Entries(c)
  BY DEF Entries
<1>2. \A c : EntrySet(c)' = EntrySet(c)
  BY <1>1 DEF EntrySet
<1>3. \A p : At(p)' = At(p)
  BY <1>1 DEF At
<1>4. PredictionAbsent' = PredictionAbsent /\ NvmeAbsent' = NvmeAbsent
  BY <1>2 DEF PredictionAbsent, NvmeAbsent, Unavailable, Inapplicable, Evaluation
<1>5. \A protocol, field, bad, absent :
         SmartRule(protocol, field, bad, absent)' = SmartRule(protocol, field, bad, absent)
  BY DEF SmartRule, Collected, At, Entries, Verdict, Unavailable, Evaluation
<1>6. VolumeRule' = VolumeRule
  BY DEF VolumeRule, Lettered, Needed, Measurable, MissingVolumes, Collected, At, Entries, Low,
         Verdict, Unavailable, Inapplicable, Evaluation
<1> QED BY <1>4, <1>5, <1>6 DEF Rulings

LEMMA EvaluateKeeps ==
    ASSUME IInv, Evaluate
    PROVE  IInv'
<1>1. /\ stage = "rules" /\ stage' = "done" /\ stage' \notin Collectors
      /\ UNCHANGED <<pc, faults, todo, out, said, result, errors>>
      /\ todo' = todo /\ out' = out /\ said' = said /\ result' = result /\ faults' = faults
      /\ errors' = errors
  BY DEF Evaluate, Collectors
<1>2. /\ todo = Null /\ out = <<>> /\ said = FALSE /\ DOMAIN result = Collectors
      /\ errors = {}
  BY <1>1 DEF IInv, Collecting, Past, Collectors, Judged
<1>3. evaluations' = Rulings /\ DOMAIN evaluations' = Rules
  BY DEF Evaluate, Rulings, Rules
<1>4. TypeOK'
  <2>1. /\ trait' \in [Devices -> Traits] /\ place' \in [Devices -> Numbers \cup {Null}]
        /\ changes' \in 0..MaxChanges /\ faults' \in 0..MaxFaults
        /\ DOMAIN result' \subseteq Collectors
    BY <1>1 DEF IInv, TypeOK, pc
  <2>2. todo' = Null /\ out' = <<>> /\ said' \in BOOLEAN /\ DOMAIN out' = {}
    <3>1. said' \in BOOLEAN
      BY <1>1 DEF IInv, TypeOK
    <3>2. todo' = Null /\ out' = <<>>
      BY <1>1, <1>2
    <3>3. DOMAIN out' = {}
      BY <3>2
    <3> QED BY <3>1, <3>2, <3>3
  <2>3. \A c \in DOMAIN result' : /\ result'[c].status \in {"success", "partial", "failed"}
                                  /\ result'[c].values \in {Null} \cup Seq(Entry[c])
    BY <1>1 DEF IInv, TypeOK
  <2> QED BY <1>1, <1>3, <2>1, <2>2, <2>3 DEF TypeOK
<1>5. PlacesDiffer' /\ (DOMAIN result = Past)'
  BY <1>1, <1>2, PcSame DEF IInv, Past
<1>6. Collecting'
  BY <1>1, <1>2 DEF Collecting, Collectors
<1>7. (\A c \in DOMAIN result : Sound(c, result[c]))'
  <2>1. \A c, r : Sound(c, r)' = Sound(c, r)
    BY <1>1, PcSame
  <2> QED BY <1>1, <2>1 DEF IInv
<1>8. Judged'
  BY <1>1, <1>3, RulingsSame DEF Judged
<1>9. ExplainedRefusal'
  BY <1>1, <1>2 DEF ExplainedRefusal
<1> QED BY <1>4, <1>5, <1>6, <1>7, <1>8, <1>9 DEF IInv

-----------------------------------------------------------------------------
(* The invariant. *)

LEMMA InitKeeps == Init => IInv
<1> SUFFICES ASSUME Init PROVE IInv
  OBVIOUS
<1>1. /\ stage = "physical_disks" /\ todo = Null /\ out = <<>> /\ said = FALSE
      /\ result = [c \in {} |-> Null] /\ errors = {} /\ evaluations = [r \in {} |-> Null]
      /\ changes = 0 /\ faults = 0
  BY DEF Init
<1>2. DOMAIN result = {} /\ DOMAIN evaluations = {} /\ DOMAIN out = {}
  BY <1>1
<1>3. TypeOK
  <2>1. said \in BOOLEAN
    BY <1>1
  <2>2. changes \in 0..MaxChanges /\ faults \in 0..MaxFaults
    BY <1>1, StorageAssumption
  <2>3. trait \in [Devices -> Traits] /\ place \in [Devices -> Numbers \cup {Null}]
    BY DEF Init
  <2> QED BY <1>1, <1>2, <2>1, <2>2, <2>3 DEF TypeOK, Collectors
<1>4. PlacesDiffer
  BY DEF Init, PlacesDiffer
<1>5. DOMAIN result = Past
  BY <1>1, <1>2 DEF Past
<1>6. Collecting
  <2>1. out \in Seq({out[i] : i \in DOMAIN out})
    BY <1>1
  <2> QED BY <1>1, <1>2, <2>1 DEF Collecting, Collectors
<1>7. Judged /\ ExplainedRefusal
  BY <1>1 DEF Judged, ExplainedRefusal
<1> QED BY <1>2, <1>3, <1>4, <1>5, <1>6, <1>7 DEF IInv

LEMMA StutterKeeps ==
    ASSUME IInv, UNCHANGED vars
    PROVE  IInv'
<1>1. /\ UNCHANGED pc /\ trait' = trait /\ place' = place /\ changes' = changes
      /\ faults' = faults /\ stage' = stage /\ todo' = todo /\ out' = out /\ said' = said
      /\ result' = result /\ errors' = errors /\ evaluations' = evaluations
  BY DEF vars, pc, run
<1>2. TypeOK'
  BY <1>1 DEF IInv, TypeOK
<1>3. PlacesDiffer' /\ (DOMAIN result = Past)'
  BY <1>1, PcSame DEF IInv, Past
<1>4. Collecting'
  <2>1. /\ Undisturbed' = Undisturbed /\ Connected' = Connected /\ Values' = Values
        /\ \A c, d : Listed(c, d)' = Listed(c, d)
        /\ \A c, d, v : About(c, d, v)' = About(c, d, v)
        /\ \A c, d, m : Excused(c, d, m)' = Excused(c, d, m)
        /\ \A c, v : True(c, v)' = True(c, v)
        /\ \A s : Apart(s)' = Apart(s)
    BY <1>1, PcSame DEF Values, Apart
  <2>2. Collecting
    BY DEF IInv
  <2> QED BY <1>1, <2>1, <2>2 DEF Collecting
<1>5. (\A c \in DOMAIN result : Sound(c, result[c]))'
  <2>1. \A c, r : Sound(c, r)' = Sound(c, r)
    BY <1>1, PcSame
  <2> QED BY <1>1, <2>1 DEF IInv
<1>6. Judged'
  BY <1>1, RulingsSame DEF IInv, Judged
<1>7. ExplainedRefusal'
  BY <1>1, PcSame DEF IInv, ExplainedRefusal, Is
<1> QED BY <1>2, <1>3, <1>4, <1>5, <1>6, <1>7 DEF IInv

LEMMA NextKeeps == IInv /\ [Next]_vars => IInv'
<1> SUFFICES ASSUME IInv, [Next]_vars PROVE IInv'
  OBVIOUS
<1>1. CASE \E d \in Devices, n \in Numbers \cup {Null} : Move(d, n)
  BY <1>1, MoveKeeps
<1>2. CASE List
  BY <1>2, ListKeeps
<1>3. CASE QueryDisk
  BY <1>3, QueryDiskKeeps
<1>4. CASE QueryPartition
  BY <1>4, QueryPartitionKeeps
<1>5. CASE QueryVolume
  BY <1>5, QueryVolumeKeeps
<1>6. CASE QuerySmart
  BY <1>6, QuerySmartKeeps
<1>7. CASE Return
  BY <1>7, ReturnKeeps
<1>8. CASE Lose
  BY <1>8, LoseKeeps
<1>9. CASE Gate
  BY <1>9, GateKeeps
<1>10. CASE Evaluate
  BY <1>10, EvaluateKeeps
<1>11. CASE UNCHANGED vars
  BY <1>11, StutterKeeps
<1> QED BY <1>1, <1>2, <1>3, <1>4, <1>5, <1>6, <1>7, <1>8, <1>9, <1>10, <1>11 DEF Next

\* Whatever is moved, fails or is lost: what the collectors wrote is true, nothing
\* connected was left out without an excuse, statuses agree with nulls, and the
\* rules were applied to exactly that.
THEOREM Invariance == Spec => []IInv
  BY InitKeeps, NextKeeps, PTL DEF Spec

\* Each collector writes what its snapshot type allows, at its own stage.
THEOREM TypeCorrect == Spec => []TypeOK
<1>1. IInv => TypeOK
  BY DEF IInv
<1> QED BY <1>1, Invariance, PTL

\* On a PC nobody touches, each error of the gate (bundle.rs:58) is explained by a
\* device; and statuses, nulls and their paths always agree.
THEOREM RefusalsExplained == Spec => []ExplainedRefusal
<1>1. IInv => ExplainedRefusal
  BY DEF IInv
<1> QED BY <1>1, Invariance, PTL

\* What "success" promises of one collector.
LEMMA SuccessTells ==
    ASSUME IInv, Undisturbed, NEW c \in DOMAIN result, result[c].status = "success"
    PROVE  /\ Entries(c) = result[c].values
           /\ \A d \in Connected : \E v \in EntrySet(c) : About(c, d, v)
           /\ \A v \in EntrySet(c) : True(c, v)
           /\ c = "smart" => \A v \in EntrySet(c) : v.protocol # "unknown"
           /\ c = "volumes" => Len(result[c].values) = Cardinality(Connected)
<1> DEFINE r == result[c]
<1>1. Sound(c, r) /\ r.values # Null /\ Entries(c) = r.values
  BY EntriesAre DEF Sound
<1>2. ~r.messages
  BY <1>1 DEF Sound, Agreed
<1>3. \A d \in Connected : \E i \in DOMAIN r.values : About(c, d, r.values[i])
  BY <1>1, <1>2 DEF Sound, Excused
<1>4. \A d \in Connected : \E v \in EntrySet(c) : About(c, d, v)
  BY <1>1, <1>3 DEF EntrySet
<1>5. c = "smart" => \A v \in EntrySet(c) : v.protocol # "unknown"
  BY <1>1 DEF Sound, EntrySet
<1>6. c = "volumes" => Len(r.values) = Cardinality(Connected)
  BY <1>1 DEF Sound
<1> QED BY <1>1, <1>4, <1>5, <1>6, EntriesAre

\* A collector that says "success" on a PC nobody touches has left no device out
\* (storage_inventory.rs, smart.rs: every failure is a message or a null).
THEOREM SuccessTold == Spec => []SuccessIsComplete
<1>1. IInv => SuccessIsComplete
  <2> SUFFICES ASSUME IInv, Undisturbed, NEW c \in DOMAIN result, result[c].status = "success"
               PROVE  LET numbers == {place[d] : d \in Connected}
                      IN  CASE c = "physical_disks" -> numbers = {k.number : k \in EntrySet(c)}
                            [] c = "partitions" -> numbers = {k.disk_number : k \in EntrySet(c)}
                            [] c = "volumes" -> Len(result[c].values) = Cardinality(Connected)
                            [] c = "smart" -> /\ numbers = {k.disk_number : k \in EntrySet(c)}
                                              /\ \A k \in EntrySet(c) : k.protocol # "unknown"
    BY DEF SuccessIsComplete
  <2> DEFINE numbers == {place[d] : d \in Connected}
  <2>1. c \in Collectors
    BY DEF IInv, TypeOK
  <2>2. /\ \A d \in Connected : \E v \in EntrySet(c) : About(c, d, v)
        /\ \A v \in EntrySet(c) : True(c, v)
    BY SuccessTells
  <2>3. CASE c = "physical_disks"
    <3>1. \A d \in Connected : \E v \in EntrySet(c) : v.number = place[d]
      BY <2>2, <2>3 DEF About
    <3>2. \A v \in EntrySet(c) : \E d \in Connected : v.number = place[d]
      BY <2>2, <2>3 DEF True, TrueDisk
    <3>3. numbers = {k.number : k \in EntrySet(c)}
      BY <3>1, <3>2
    <3> QED BY <2>3, <3>3
  <2>4. CASE c = "partitions"
    <3>1. \A d \in Connected : \E v \in EntrySet(c) : v.disk_number = place[d]
      BY <2>2, <2>4 DEF About
    <3>2. \A v \in EntrySet(c) : \E d \in Connected : v.disk_number = place[d]
      BY <2>2, <2>4 DEF True, TruePartition
    <3>3. numbers = {k.disk_number : k \in EntrySet(c)}
      BY <3>1, <3>2
    <3> QED BY <2>4, <3>3
  <2>5. CASE c = "volumes"
    <3>1. Len(result[c].values) = Cardinality(Connected)
      BY <2>5, SuccessTells
    <3> QED BY <2>5, <3>1
  <2>6. CASE c = "smart"
    <3>1. \A d \in Connected : \E v \in EntrySet(c) : v.disk_number = place[d]
      BY <2>2, <2>6 DEF About
    <3>2. \A v \in EntrySet(c) : \E d \in Connected : v.disk_number = place[d]
      BY <2>2, <2>6 DEF True, TrueSmart
    <3>3. numbers = {k.disk_number : k \in EntrySet(c)}
      BY <3>1, <3>2
    <3>4. \A v \in EntrySet(c) : v.protocol # "unknown"
      BY <2>6, SuccessTells
    <3> QED BY <2>6, <3>3, <3>4
  <2> QED BY <2>1, <2>3, <2>4, <2>5, <2>6 DEF Collectors
<1> QED BY <1>1, Invariance, PTL

-----------------------------------------------------------------------------
(* What the rules say. *)

LEMMA ValidEvaluation ==
    ASSUME NEW status, NEW evidence, NEW reason,
           status = "not_evaluated" => reason # {},
           \A e \in evidence : Has(e.path) /\ At(e.path) # Null /\ At(e.path) = e.value
    PROVE  Valid(Evaluation(status, evidence, reason))
<1>1. PICK v : v = Evaluation(status, evidence, reason)
  OBVIOUS
<1>2. /\ v.status = status /\ v.evidence = evidence /\ v.reason = reason
      /\ v.severe = (status = "triggered")
  BY <1>1 DEF Evaluation
<1>3. v.severe <=> v.status = "triggered"
  BY <1>2
<1>4. Valid(v)
  BY <1>2, <1>3 DEF Valid
<1> QED BY <1>1, <1>4

LEMMA ValidVerdict ==
    ASSUME NEW triggered, NEW evidence, NEW missing,
           \A e \in evidence : Has(e.path) /\ At(e.path) # Null /\ At(e.path) = e.value
    PROVE  Valid(Verdict(triggered, evidence, missing))
  BY ValidEvaluation DEF Verdict

LEMMA ValidUnavailable ==
    ASSUME NEW paths, paths # {}
    PROVE  Valid(Unavailable(paths))
  BY ValidEvaluation DEF Unavailable

LEMMA ValidInapplicable == Valid(Inapplicable)
  BY ValidEvaluation DEF Inapplicable

LEMMA CollectedIs ==
    ASSUME NEW paths, \A p \in paths : Has(p) /\ At(p) # Null
    PROVE  \A e \in {Collected(p) : p \in paths} :
             Has(e.path) /\ At(e.path) # Null /\ At(e.path) = e.value
<1> SUFFICES ASSUME NEW p \in paths
             PROVE  Has(Collected(p).path) /\ At(Collected(p).path) # Null
                    /\ At(Collected(p).path) = Collected(p).value
  OBVIOUS
<1>1. Collected(p).path = p /\ Collected(p).value = At(p)
  BY DEF Collected
<1> QED BY <1>1

LEMMA SmartRuleValid ==
    ASSUME IInv, DOMAIN result = Collectors, NEW protocol, NEW bad, NEW absent, Valid(absent),
           NEW field \in {"predict_failure", "critical_warning", "percentage_used"}
    PROVE  Valid(SmartRule(protocol, field, bad, absent))
<1> DEFINE smart == Entries("smart")
           paths == {<<"smart", i, field>> : i \in {j \in DOMAIN smart : smart[j].protocol = protocol}}
           known == {p \in paths : At(p) # Null}
<1>1. \A p \in paths : Has(p)
  <2> SUFFICES ASSUME NEW i \in DOMAIN smart PROVE Has(<<"smart", i, field>>)
    OBVIOUS
  <2>1. smart[i] \in SmartEntry
    BY EntriesAre, SmartEntryIs DEF Collectors
  <2>2. field \in DOMAIN smart[i]
    BY <2>1 DEF SmartEntry
  <2> QED BY <2>2 DEF Has
<1>2. \A p \in known : Has(p) /\ At(p) # Null
  BY <1>1
<1>3. \A e \in {Collected(p) : p \in known} :
        Has(e.path) /\ At(e.path) # Null /\ At(e.path) = e.value
  BY <1>2, CollectedIs
<1>4. Valid(Verdict(\E p \in known : At(p) \in bad, {Collected(p) : p \in known}, paths \ known))
  BY <1>3, ValidVerdict
<1>5. Valid(Unavailable({<<"smart">>}))
  BY ValidUnavailable
<1> QED BY <1>4, <1>5 DEF SmartRule

LEMMA AbsentValid == Valid(PredictionAbsent) /\ Valid(NvmeAbsent)
  BY ValidUnavailable, ValidInapplicable DEF PredictionAbsent, NvmeAbsent

VolumeEntry == [mount_points : {Null} \cup SUBSET Numbers, capacity_bytes : {0, 3, 8, Null},
                free_bytes : {0, 4, Null}, extents : {Null} \cup SUBSET Extents]

LEMMA VolumeEntryIs == Entry["volumes"] = VolumeEntry
  BY DEF Entry, VolumeEntry

LEMMA VolumeRuleValid ==
    ASSUME IInv, DOMAIN result = Collectors
    PROVE  Valid(VolumeRule)
<1> DEFINE whole == {i \in Lettered : \A p \in Needed(i) : Measurable(p)}
           paths == UNION {Needed(i) : i \in whole}
<1>1. \A p \in paths : Has(p) /\ At(p) # Null
  <2> SUFFICES ASSUME NEW i \in whole, NEW p \in Needed(i) PROVE Has(p) /\ At(p) # Null
    OBVIOUS
  <2>1. i \in DOMAIN Entries("volumes") /\ Measurable(p)
    BY DEF Lettered
  <2>2. Entries("volumes")[i] \in VolumeEntry
    BY <2>1, EntriesAre, VolumeEntryIs DEF Collectors
  <2>3. PICK f \in {"capacity_bytes", "free_bytes"} : p = <<"volumes", i, f>>
    BY DEF Needed
  <2>4. f \in DOMAIN Entries("volumes")[i]
    BY <2>2 DEF VolumeEntry
  <2> QED BY <2>1, <2>3, <2>4 DEF Has, Measurable
<1>2. \A e \in {Collected(p) : p \in paths} :
        Has(e.path) /\ At(e.path) # Null /\ At(e.path) = e.value
  BY <1>1, CollectedIs
<1>3. Valid(Verdict(\E i \in whole : Low(Entries("volumes")[i]),
                    {Collected(p) : p \in paths}, MissingVolumes))
  BY <1>2, ValidVerdict
<1>4. Valid(Unavailable({<<"volumes">>}))
  BY ValidUnavailable
<1>5. MissingVolumes # {} => Valid(Unavailable(MissingVolumes))
  BY ValidUnavailable
<1> QED BY <1>3, <1>4, <1>5, ValidInapplicable DEF VolumeRule

\* When a collection was written, every collector has its say and the rules were
\* applied to that.
LEMMA WrittenIs ==
    ASSUME IInv, Written
    PROVE  DOMAIN result = Collectors /\ evaluations = Rulings
  BY DEF IInv, Written, Past, Judged

\* What the rules say of an accepted collection passes validate_against
\* (validation.rs:1673): each evidence is the value at its path, and nothing that was not
\* evaluated lacks its reason.
THEOREM DiagnosisIsAccepted == Spec => []DiagnosisAccepted
<1>1. IInv => DiagnosisAccepted
  <2> SUFFICES ASSUME IInv, Written PROVE \A r \in Rules : Valid(evaluations[r])
    BY DEF DiagnosisAccepted
  <2>1. DOMAIN result = Collectors /\ evaluations = Rulings
    BY WrittenIs
  <2>2. Valid(SmartRule("failure_prediction", "predict_failure", {TRUE}, PredictionAbsent))
    BY <2>1, SmartRuleValid, AbsentValid
  <2>3. Valid(SmartRule("nvme", "critical_warning", {1}, NvmeAbsent))
    BY <2>1, SmartRuleValid, AbsentValid
  <2>4. Valid(SmartRule("nvme", "percentage_used", {100}, NvmeAbsent))
    BY <2>1, SmartRuleValid, AbsentValid
  <2>5. Valid(VolumeRule)
    BY <2>1, VolumeRuleValid
  <2> QED BY <2>1, <2>2, <2>3, <2>4, <2>5 DEF Rulings, Rules
<1> QED BY <1>1, Invariance, PTL

LEMMA StatusIs ==
    /\ \A triggered, evidence, missing :
         Verdict(triggered, evidence, missing).status =
           IF triggered THEN "triggered" ELSE IF missing # {} THEN "not_evaluated" ELSE "passed"
    /\ \A paths : Unavailable(paths).status = "not_evaluated"
    /\ Inapplicable.status = "not_applicable"
<1>1. \A status, evidence, reason : Evaluation(status, evidence, reason).status = status
  BY DEF Evaluation
<1> QED BY <1>1 DEF Verdict, Unavailable, Inapplicable

\* One bad value is enough, whatever the others are or lack.
LEMMA OneBadValue ==
    ASSUME IInv, DOMAIN result = Collectors, NEW protocol, NEW field, NEW bad, NEW absent,
           NEW i \in DOMAIN Entries("smart"), Entries("smart")[i].protocol = protocol,
           Entries("smart")[i][field] # Null, Entries("smart")[i][field] \in bad
    PROVE  SmartRule(protocol, field, bad, absent).status = "triggered"
<1> DEFINE smart == Entries("smart")
           paths == {<<"smart", j, field>> : j \in {k \in DOMAIN smart : smart[k].protocol = protocol}}
           known == {p \in paths : At(p) # Null}
           p == <<"smart", i, field>>
<1>1. result["smart"].values # Null
  BY EntriesAre DEF Collectors
<1>2. At(p) = Entries("smart")[i][field]
  BY DEF At
<1>3. p \in known /\ At(p) \in bad /\ paths # {}
  BY <1>2
<1>4. PICK triggered : triggered = (\E q \in known : At(q) \in bad)
  OBVIOUS
<1>5. Verdict(triggered, {Collected(q) : q \in known}, paths \ known).status = "triggered"
  BY <1>3, <1>4, StatusIs
<1> QED BY <1>1, <1>3, <1>4, <1>5 DEF SmartRule

\* Two connected devices with one number are one.
LEMMA SamePlace ==
    ASSUME IInv, NEW d \in Connected, NEW e \in Connected, place[d] = place[e]
    PROVE  d = e
  BY DEF IInv, PlacesDiffer, Connected

LEMMA SmartFound ==
    ASSUME IInv, Written, Undisturbed, NEW d \in Connected, Is(d, "failing"),
           NEW s \in EntrySet("smart"), s.disk_number = place[d]
    PROVE  /\ s.protocol = "failure_prediction" =>
                evaluations["smart_failure_prediction"].status = "triggered"
           /\ s.protocol = "nvme" =>
                /\ evaluations["nvme_critical_warning"].status = "triggered"
                /\ evaluations["nvme_percentage_used"].status = "triggered"
<1>1. DOMAIN result = Collectors /\ evaluations = Rulings
  BY WrittenIs
<1>2. TrueSmart(s)
  BY <1>1, EntriesAre DEF True, Collectors
<1>3. PICK e \in Connected : s.disk_number = place[e] /\ SmartOf(e, s)
  BY <1>2 DEF TrueSmart
<1>4. SmartOf(d, s)
  BY <1>3, SamePlace
<1>5. PICK i \in DOMAIN Entries("smart") : s = Entries("smart")[i]
  BY DEF EntrySet
<1>6. ASSUME s.protocol = "failure_prediction"
      PROVE  evaluations["smart_failure_prediction"].status = "triggered"
  <2>1. s.predict_failure = Is(d, "failing") /\ Is(d, "failing") \in BOOLEAN
    BY <1>4, <1>6 DEF SmartOf, Is
  <2>2. s["predict_failure"] \in {TRUE} /\ s["predict_failure"] # Null
    BY <2>1, NullAssumption
  <2>3. SmartRule("failure_prediction", "predict_failure", {TRUE}, PredictionAbsent).status
          = "triggered"
    BY <1>1, <1>5, <1>6, <2>2, OneBadValue
  <2> QED BY <1>1, <2>3 DEF Rulings
<1>7. ASSUME s.protocol = "nvme"
      PROVE  /\ evaluations["nvme_critical_warning"].status = "triggered"
             /\ evaluations["nvme_percentage_used"].status = "triggered"
  <2>1. s["critical_warning"] = 1 /\ s["percentage_used"] = 100
    BY <1>4, <1>7 DEF SmartOf
  <2>2. Null \notin Nat
    BY NullAssumption
  <2>3. s["critical_warning"] # Null /\ s["percentage_used"] # Null
    BY <2>1, <2>2
  <2>4. SmartRule("nvme", "critical_warning", {1}, NvmeAbsent).status = "triggered"
    BY <1>1, <1>5, <1>7, <2>1, <2>3, OneBadValue
  <2>5. SmartRule("nvme", "percentage_used", {100}, NvmeAbsent).status = "triggered"
    BY <1>1, <1>5, <1>7, <2>1, <2>3, OneBadValue
  <2> QED BY <1>1, <2>4, <2>5 DEF Rulings
<1> QED BY <1>6, <1>7

\* One full volume is enough, whatever is missing about the others.
LEMMA OneLowVolume ==
    ASSUME IInv, DOMAIN result = Collectors, NEW i \in Lettered,
           \A p \in Needed(i) : Measurable(p), Low(Entries("volumes")[i])
    PROVE  VolumeRule.status = "triggered"
<1> DEFINE whole == {j \in Lettered : \A p \in Needed(j) : Measurable(p)}
<1>1. i \in DOMAIN Entries("volumes")
  BY DEF Lettered
<1>2. result["volumes"].values # Null
  BY <1>1, EntriesAre DEF Collectors
<1>3. i \in whole
  OBVIOUS
<1>4. \E j \in whole : Low(Entries("volumes")[j])
  BY <1>3
<1>5. Verdict(\E j \in whole : Low(Entries("volumes")[j]),
              {Collected(p) : p \in UNION {Needed(j) : j \in whole}}, MissingVolumes).status
        = "triggered"
  BY <1>4, StatusIs
<1> QED BY <1>2, <1>3, <1>5 DEF VolumeRule

\* What the volume rule needs of an entry.
LEMMA MeasurableIs ==
    ASSUME NEW i \in DOMAIN Entries("volumes")
    PROVE  (\A p \in Needed(i) : Measurable(p)) <=>
             /\ Entries("volumes")[i].capacity_bytes # Null
             /\ Entries("volumes")[i].capacity_bytes > 0
             /\ Entries("volumes")[i].free_bytes # Null
<1> DEFINE p == <<"volumes", i, "capacity_bytes">>
           q == <<"volumes", i, "free_bytes">>
<1>1. Needed(i) = {p, q}
  BY DEF Needed
<1>2. At(p) = Entries("volumes")[i].capacity_bytes /\ At(q) = Entries("volumes")[i].free_bytes
  BY DEF At
<1>3. Measurable(p) <=> At(p) # Null /\ At(p) > 0
  BY DEF Measurable
<1>4. Measurable(q) <=> At(q) # Null
  BY DEF Measurable
<1> QED BY <1>1, <1>2, <1>3, <1>4

LEMMA VolumeFound ==
    ASSUME IInv, Written, Undisturbed, NEW d \in Connected, Is(d, "full"),
           NEW v \in EntrySet("volumes"), v.mount_points = {place[d]},
           v.capacity_bytes \notin {Null, 0}
    PROVE  evaluations["volume_free_space"].status = "triggered"
<1>1. DOMAIN result = Collectors /\ evaluations = Rulings
  BY WrittenIs
<1>2. TrueVolume(v)
  BY <1>1, EntriesAre DEF True, Collectors
<1>3. PICK e \in Devices : VolumeOf(e, v)
  BY <1>2 DEF TrueVolume
<1>4. v.mount_points # Null
  <2>1. place[d] \in Numbers
    BY DEF Connected, IInv, TypeOK
  <2>2. {place[d]} \in SUBSET Numbers /\ [disk_number |-> place[d], end |-> 1] \in Extents
    BY <2>1 DEF Extents
  <2> QED BY <2>2, NullAssumption
<1>5. e \in Connected /\ Mounts(e) = {place[d]}
  BY <1>3, <1>4 DEF VolumeOf
<1>6. e = d
  BY <1>5, SamePlace DEF Mounts
<1>7. /\ v.capacity_bytes = VolumeCapacity(d) /\ v.free_bytes = VolumeFree(d)
      /\ v.free_bytes # Null
  BY <1>3, <1>6 DEF VolumeOf
<1>8. VolumeFree(d) = 0 /\ VolumeCapacity(d) \in {3, 8}
  BY <1>7 DEF VolumeFree, VolumeCapacity
<1>9. PICK i \in DOMAIN Entries("volumes") : v = Entries("volumes")[i]
  BY DEF EntrySet
<1>10. i \in Lettered
  BY <1>4, <1>9 DEF Lettered
<1>11. \A p \in Needed(i) : Measurable(p)
  BY <1>7, <1>8, <1>9, MeasurableIs
<1>12. Low(Entries("volumes")[i])
  BY <1>7, <1>8, <1>9 DEF Low
<1>13. VolumeRule.status = "triggered"
  BY <1>1, <1>10, <1>11, <1>12, OneLowVolume
<1> QED BY <1>1, <1>13 DEF Rulings

\* A defect that a device on a PC nobody touches has reported is a finding, whatever
\* else has failed (rules.rs; docs/diagnostic-data-model.md:1183).
THEOREM FaultIsReported == Spec => []FaultReported
<1>1. IInv => FaultReported
  BY SmartFound, VolumeFound DEF FaultReported
<1> QED BY <1>1, Invariance, PTL

LEMMA PassedIs ==
    ASSUME VolumeRule.status = "passed"
    PROVE  /\ result["volumes"].values # Null
           /\ MissingVolumes = {}
           /\ \A i \in Lettered : (\A p \in Needed(i) : Measurable(p))
                                    => ~Low(Entries("volumes")[i])
<1> DEFINE whole == {i \in Lettered : \A p \in Needed(i) : Measurable(p)}
           verdict == Verdict(\E i \in whole : Low(Entries("volumes")[i]),
                              {Collected(p) : p \in UNION {Needed(i) : i \in whole}},
                              MissingVolumes)
<1>1. result["volumes"].values # Null
  BY StatusIs DEF VolumeRule
<1>2. whole # {} /\ VolumeRule = verdict
  BY <1>1, StatusIs DEF VolumeRule
<1>3. ~(\E i \in whole : Low(Entries("volumes")[i])) /\ MissingVolumes = {}
  BY <1>2 DEF Verdict, Evaluation
<1> QED BY <1>1, <1>3

\* "passed" means that each volume with a drive letter was measured and has room.
THEOREM PassEarned == Spec => []PassIsEarned
<1>1. IInv => PassIsEarned
  <2> SUFFICES ASSUME IInv, Written, Undisturbed,
                      evaluations["volume_free_space"].status = "passed",
                      NEW d \in Connected, ~Is(d, "hidden")
               PROVE  ~Is(d, "full") /\ ~Is(d, "empty")
    BY DEF PassIsEarned
  <2>1. DOMAIN result = Collectors /\ VolumeRule.status = "passed"
    BY WrittenIs DEF Rulings
  <2>2. /\ result["volumes"].values # Null
        /\ MissingVolumes = {}
        /\ \A i \in Lettered : (\A p \in Needed(i) : Measurable(p)) => ~Low(Entries("volumes")[i])
    BY <2>1, PassedIs
  <2>3. PICK i \in DOMAIN Entries("volumes") : VolumeOf(d, Entries("volumes")[i])
    BY <2>1, <2>2, EntriesAre DEF Sound, About, Excused, Collectors
  <2> DEFINE v == Entries("volumes")[i]
  <2>4. v.mount_points # Null
    BY <2>2 DEF MissingVolumes
  <2>5. v.mount_points = {place[d]}
    BY <2>3, <2>4 DEF VolumeOf, Mounts
  <2>6. i \in Lettered
    BY <2>4, <2>5 DEF Lettered
  <2>7. \A p \in Needed(i) : Measurable(p)
    BY <2>2, <2>6 DEF MissingVolumes
  <2>8. v.capacity_bytes # Null /\ v.capacity_bytes > 0 /\ v.free_bytes # Null /\ ~Low(v)
    BY <2>2, <2>6, <2>7, MeasurableIs
  <2>9. v.capacity_bytes = VolumeCapacity(d) /\ v.free_bytes = VolumeFree(d)
    BY <2>3, <2>8 DEF VolumeOf
  <2>10. ~Is(d, "empty")
    BY <2>8, <2>9 DEF VolumeCapacity
  <2>11. VolumeCapacity(d) \in {3, 8}
    BY <2>10 DEF VolumeCapacity
  <2>12. ~Is(d, "full")
    <3>1. ASSUME Is(d, "full") PROVE FALSE
      <4>1. VolumeFree(d) = 0
        BY <3>1 DEF VolumeFree
      <4> QED BY <2>8, <2>9, <2>11, <4>1 DEF Low
    <3> QED BY <3>1
  <2> QED BY <2>10, <2>12
<1> QED BY <1>1, Invariance, PTL
=============================================================================
