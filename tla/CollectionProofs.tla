-------------------------- MODULE CollectionProofs --------------------------
(***************************************************************************)
(* The sections whose answers are put together from several questions: the *)
(* adapters of DXGI with the devices of SetupAPI (gpu.rs), the packages    *)
(* and the cores (cpu.rs), Windows Security (windows_security.rs), the     *)
(* update history (windows_updates.rs) and the categories of the runtime   *)
(* environment (runtime_environment.rs).  With the other modules, what the *)
(* gate refuses and what a success is worth, of all eleven sections, and   *)
(* the types of module Sections.                                           *)
(***************************************************************************)
EXTENDS HistoryProofs

-----------------------------------------------------------------------------
(* The matching *)

\* A list has finitely many members.
LEMMA ListFinite ==
    ASSUME NEW S, NEW q \in Seq(S)
    PROVE  IsFiniteSet(ToSet(q))
<1> DEFINE D == 1 .. Len(q)
           f == [k \in D |-> q[k]]
<1>1. IsFiniteSet(D)
  <2>1. Len(q) \in Nat
    OBVIOUS
  <2> QED BY <2>1, FS_Interval
<1>2. f \in Surjection(D, ToSet(q))
  BY DEF Surjection, ToSet
<1> HIDE DEF f, D
<1> QED BY <1>1, <1>2, FS_Surjection

\* A list has finitely many places.
LEMMA PlacesFinite ==
    ASSUME NEW q, Len(q) \in Nat, DOMAIN q = 1 .. Len(q)
    PROVE  IsFiniteSet(DOMAIN q)
<1> DEFINE len == Len(q)
<1>1. len \in Int
  OBVIOUS
<1> HIDE DEF len
<1>2. IsFiniteSet(1 .. len)
  BY <1>1, FS_Interval
<1> QED BY <1>2 DEF len

\* There are finitely many devices.
LEMMA DisplaysFinite ==
    ASSUME NEW present, IsFiniteSet(ToSet(present))
    PROVE  IsFiniteSet(Displays(present))
<1> DEFINE S == {b \in ToSet(present) : b.type = "hardware"}
           f == [b \in S |-> Display(b)]
<1>1. IsFiniteSet(S)
  BY FS_Subset
<1>2. f \in Surjection(S, Displays(present))
  BY DEF Surjection, Displays
<1> HIDE DEF S, f
<1> QED BY <1>1, <1>2, FS_Surjection

\* An adapter a may be shown with the device of b: it is its own, or its own cannot be
\* told and b's says the numbers of a.
Taken(b, a, present) ==
    /\ b \in ToSet(present) /\ b.type = "hardware"
    /\ b # a => Orphan(a, present) /\ PciSaid(b) = a.pci

\* Whatever device an adapter is matched with, it is its own as long as SetupAPI can tell
\* that one: no two adapters have one LUID, and the PCI numbers decide only when one
\* device says them.
LEMMA OwnDevice ==
    ASSUME NEW a \in Cards, NEW present \in Seq(Cards), NEW displays \in {Displays(present), {}},
           MatchDetails(a, displays) # {}
    PROVE  \E b \in Cards : Taken(b, a, present) /\ MatchDetails(a, displays) = {Display(b)}
<1> DEFINE matches == MatchDetails(a, displays)
           byLuid == {d \in displays : d.luid = a.id}
           byPci == {d \in displays : d.pci = a.pci}
<1>1. matches = CASE Cardinality(byLuid) = 1 -> byLuid
                 [] Cardinality(byLuid) # 1 /\ Cardinality(byPci) = 1 -> byPci
                 [] OTHER -> {}
  BY Zenon DEF MatchDetails
<1>2. \A d \in displays : \E b \in Cards : b \in ToSet(present) /\ b.type = "hardware" /\ d = Display(b)
  BY DEF Displays, ToSet
<1>3. /\ \A c, d \in Cards : c.id = d.id => c = d
      /\ a.id # Null /\ a.pci # Null /\ a.type \in {"hardware", "software"}
      /\ \A c, d \in Cards : c.type = "software" /\ d.type = "hardware" => c.pci # d.parsed
      /\ a.shy \in BOOLEAN
  BY SectionsAssumption
<1>4. displays = {} \/ \A b \in ToSet(present) : b.type = "hardware" => Display(b) \in displays
  BY DEF Displays
<1>5. \A b : /\ Display(b).luid = IF b.shy THEN Null ELSE b.id
             /\ Display(b).pci = PciSaid(b)
             /\ Display(b).instance = IF b.unread THEN Null ELSE b.id
  BY DEF Display
<1>6. \A d \in displays : d.luid = a.id => d = Display(a) /\ a \in ToSet(present) /\ a.type = "hardware"
  <2> SUFFICES ASSUME NEW d \in displays, d.luid = a.id
               PROVE  d = Display(a) /\ a \in ToSet(present) /\ a.type = "hardware"
    OBVIOUS
  <2>1. PICK b \in Cards : b \in ToSet(present) /\ b.type = "hardware" /\ d = Display(b)
    BY <1>2
  <2>2. b.id = a.id
    BY <1>3, <1>5, <2>1
  <2> QED BY <1>3, <2>1, <2>2
<1>9. matches # {}
  OBVIOUS
<1> SUFFICES \E b \in Cards : Taken(b, a, present) /\ matches = {Display(b)}
  OBVIOUS
<1> HIDE DEF matches, byLuid, byPci
<1>7. CASE Cardinality(byLuid) = 1
  <2>1. matches = byLuid
    BY <1>1, <1>7
  <2>2. matches = {Display(a)} /\ a \in ToSet(present) /\ a.type = "hardware"
    BY <1>6, <1>9, <2>1 DEF byLuid
  <2> QED BY <2>2 DEF Taken
<1>8. CASE Cardinality(byLuid) # 1
  <2>1. Cardinality(byPci) = 1 /\ matches = byPci
    BY <1>1, <1>8, <1>9
  <2>2. PICK d : matches = {d}
    <3>1. IsFiniteSet(byPci)
      <4>1. IsFiniteSet(ToSet(present))
        BY ListFinite
      <4>2. IsFiniteSet(displays)
        BY <4>1, DisplaysFinite, FS_EmptySet
      <4> QED BY <4>2, FS_Subset DEF byPci
    <3> QED BY <2>1, <3>1, FS_Singleton
  <2>3. d \in displays /\ d.pci = a.pci
    BY <2>1, <2>2 DEF byPci
  <2>4. PICK b \in Cards : b \in ToSet(present) /\ b.type = "hardware" /\ d = Display(b)
    BY <1>2, <2>3
  <2>5. PciSaid(b) = a.pci /\ b.parsed = a.pci
    BY <1>3, <1>5, <2>3, <2>4 DEF PciSaid
  <2>6. a.type = "hardware"
    BY <1>3, <2>4, <2>5
  <2>7. CASE Orphan(a, present)
    BY <2>2, <2>4, <2>5, <2>7 DEF Taken
  <2>8. CASE ~Orphan(a, present)
    <3>1. a \in ToSet(present) /\ (a.shy => PciSaid(a) = a.pci)
      BY <2>8 DEF Orphan
    <3>2. Display(a) \in displays
      BY <1>4, <2>3, <2>6, <3>1
    <3>3. a.shy
      <4> SUFFICES ASSUME ~a.shy PROVE FALSE
        OBVIOUS
      <4>1. Display(a).luid = a.id
        BY <1>5
      <4>2. byLuid = {Display(a)}
        BY <1>6, <3>2, <4>1 DEF byLuid
      <4>3. Cardinality({Display(a)}) = 1
        BY FS_Singleton
      <4> QED BY <1>8, <4>2, <4>3
    <3>4. Display(a) \in byPci
      BY <1>5, <3>1, <3>2, <3>3 DEF byPci
    <3>5. matches = {Display(a)}
      BY <2>1, <2>2, <3>4
    <3> QED BY <2>6, <3>1, <3>5 DEF Taken
  <2> QED BY <2>7, <2>8
<1> QED BY <1>7, <1>8

\* Each entry of the answer is an adapter with what was matched with it.
LEMMA GpuValuesAre ==
    ASSUME NEW cards \in Seq(Cards), NEW displays, NEW said,
           NEW a, a = GpuAnswer(cards, displays, said)
    PROVE  \A i \in DOMAIN cards, f \in GpuFields :
             a.values[<<i, f>>] = MapAdapter(cards[i], displays)[f]
<1> DEFINE gpus == [i \in DOMAIN cards |-> MapAdapter(cards[i], displays)]
           paths == UNION {{i} \X DOMAIN gpus[i] : i \in DOMAIN gpus}
           missing == {p \in paths : gpus[p[1]][p[2]] = Null /\ p[2] # "name"}
           f == [p \in paths \cup {<<0, "gpus">>} |->
                   IF p[1] = 0 THEN Len(cards) ELSE gpus[p[1]][p[2]]]
           g == [p \in missing |-> GpuReason(p[2], cards[p[1]].type)]
           all == said \cup UNION {MatchSaid(cards[i], displays) : i \in DOMAIN cards}
<1>1. a = Answer(f, g, all)
  BY Zenon DEF GpuAnswer
<1>2. \A i \in DOMAIN cards : i # 0 /\ DOMAIN gpus[i] = GpuFields
                              /\ gpus[i] = MapAdapter(cards[i], displays)
  BY DEF MapAdapter, GpuFields
<1>3. DOMAIN gpus = DOMAIN cards
  OBVIOUS
<1> HIDE DEF gpus, all, g
<1>4. paths = (DOMAIN cards) \X GpuFields
  BY <1>2, <1>3
<1> HIDE DEF paths
<1>5. \A i \in DOMAIN cards, field \in GpuFields : f[<<i, field>>] = gpus[i][field]
  BY <1>2, <1>4
<1>6. a.values = f
  BY <1>1 DEF Answer
<1> HIDE DEF f
<1>7. ASSUME NEW i \in DOMAIN cards, NEW field \in GpuFields
      PROVE  a.values[<<i, field>>] = MapAdapter(cards[i], displays)[field]
  BY <1>2, <1>5, <1>6
<1> QED BY <1>7

LEMMA NullIsNone == Null # 0 /\ Null # TRUE
<1>1. Null \notin Nat /\ Null \notin BOOLEAN
  BY Zenon, NullAssumption
<1>2. Null # 0
  BY <1>1
<1>3. Null # TRUE
  BY Zenon, <1>1
<1> QED BY <1>2, <1>3

\* What an adapter is shown with: nothing, or what the device of b says.
Shown(instance, problem, started, b) ==
    /\ instance = Display(b).instance /\ problem = Display(b).problem
    /\ started = Display(b).started

Bare(instance, problem, started) == instance = Null /\ problem = Null /\ started = Null

LEMMA MapAdapterIs ==
    ASSUME NEW a \in Cards, NEW present \in Seq(Cards), NEW displays \in {Displays(present), {}},
           NEW gpu, gpu = MapAdapter(a, displays)
    PROVE  /\ gpu.name = Null => ~a.named
           /\ \/ Bare(gpu.instance, gpu.problem, gpu.started)
              \/ \E b \in Cards : Taken(b, a, present) /\ Shown(gpu.instance, gpu.problem, gpu.started, b)
<1> DEFINE matches == MatchDetails(a, displays)
           none == [instance |-> Null, driver |-> Null, started |-> Null, problem |-> Null]
           device == IF matches = {} THEN none ELSE CHOOSE d \in matches : TRUE
<1>1. gpu = [name |-> IF a.named THEN Known ELSE Null, type |-> a.type,
             vendor_id |-> IF a.vendor = "large" THEN Null ELSE Known,
             vendor |-> IF a.vendor = "listed" THEN Known ELSE Null,
             instance |-> device.instance, driver |-> device.driver,
             started |-> device.started, problem |-> device.problem]
  BY Zenon DEF MapAdapter
<1>2. Known # Null /\ a.named \in BOOLEAN
  BY NullAssumption, SectionsAssumption
<1>3. device = none \/ \E b \in Cards : Taken(b, a, present) /\ device = Display(b)
  <2>1. CASE matches = {}
    BY <2>1
  <2>2. CASE matches # {}
    <3>1. \E b \in Cards : Taken(b, a, present) /\ matches = {Display(b)}
      BY <2>2, OwnDevice
    <3>2. PICK b \in Cards : Taken(b, a, present) /\ matches = {Display(b)}
      BY <3>1
    <3> HIDE DEF matches
    <3>3. device = Display(b)
      BY <3>2
    <3> QED BY <3>2, <3>3
  <2> QED BY <2>1, <2>2
<1> HIDE DEF device
<1>4. gpu.name = Null => ~a.named
  BY <1>1, <1>2
<1>5. gpu.instance = device.instance /\ gpu.problem = device.problem /\ gpu.started = device.started
  BY <1>1
<1>6. CASE device = none
  <2>1. Bare(gpu.instance, gpu.problem, gpu.started)
    BY <1>5, <1>6 DEF Bare
  <2> QED BY <1>4, <2>1
<1>7. CASE \E b \in Cards : Taken(b, a, present) /\ device = Display(b)
  <2>1. PICK b \in Cards : Taken(b, a, present) /\ device = Display(b)
    BY <1>7
  <2>2. Shown(gpu.instance, gpu.problem, gpu.started, b)
    BY <1>5, <2>1 DEF Shown
  <2> QED BY <1>4, <2>1, <2>2
<1> QED BY <1>3, <1>6, <1>7

\* A device that is said to work does, and it goes by the number of its adapter, unless
\* its instance id cannot be read.
LEMMA ShownIs ==
    ASSUME NEW b \in Cards, NEW instance, NEW problem, NEW started, Shown(instance, problem, started, b)
    PROVE  /\ instance = IF b.unread THEN Null ELSE b.id
           /\ problem = 0 => ~b.stopped
           /\ IsTrue(started) => ~b.stopped
<1>1. b.stopped \in BOOLEAN /\ b.mute \in BOOLEAN
  BY SectionsAssumption
<1>2. Null # 0 /\ Null # TRUE
  BY NullIsNone
<1>3. /\ instance = IF b.unread THEN Null ELSE b.id
      /\ started = IF b.mute THEN Null ELSE ~b.stopped
      /\ problem = IF b.mute THEN Null ELSE IF b.stopped THEN 43 ELSE 0
  BY DEF Shown, Display
<1>4. problem = 0 => ~b.stopped
  BY <1>1, <1>2, <1>3
<1>5. IsTrue(started) => ~b.stopped
  BY <1>1, <1>2, <1>3 DEF IsTrue
<1> QED BY <1>3, <1>4, <1>5

-----------------------------------------------------------------------------
(* The invariant *)

\* The adapters were matched with the devices there are, or SetupAPI failed.
Matched(a, cards) ==
    \E displays \in {Displays(pc.cards), {}} : \E said : a = GpuAnswer(cards, displays, said)

\* Every adapter is there once.
Differ(cards) == \A i, k \in DOMAIN cards : cards[i] = cards[k] => i = k

MatchingHeard == answer = GpuFailure \/ (Differ(seen.adapters) /\ Matched(answer, seen.adapters))

MatchesRead ==
    section = "gpus" =>
        /\ Differ(pc.cards)
        /\ stage = "collecting" /\ todo = <<"displays">> => Differ(seen.adapters)
        /\ stage = "collecting" /\ todo = <<>> => MatchingHeard
        /\ stage # "collecting" => Returned(MatchingHeard)

LEMMA MatchesInit == Init => MatchesRead
<1> SUFFICES ASSUME Init, section = "gpus" PROVE MatchesRead
  BY DEF MatchesRead
<1>1. /\ stage = "collecting" /\ todo = GpuQueries /\ pc \in Pcs("gpus")
  BY DEF Init, Queries
<1>2. todo # <<>> /\ todo # <<"displays">>
  BY <1>1 DEF GpuQueries
<1>3. PICK s \in {q \in SeqsUpTo(Cards, MaxCards) : IsInjective(q)} : pc = [cards |-> s]
  BY <1>1 DEF Pcs
<1>4. Differ(pc.cards)
  BY <1>3 DEF Differ, IsInjective
<1> QED BY <1>1, <1>2, <1>4 DEF MatchesRead

\* Those behind the one that is removed move up.
LEMMA RemoveAtIs ==
    ASSUME NEW S, NEW q \in Seq(S), NEW i \in 1 .. Len(q)
    PROVE  /\ DOMAIN RemoveAt(q, i) = 1 .. Len(q) - 1
           /\ \A k \in 1 .. Len(q) - 1 : RemoveAt(q, i)[k] = q[IF k < i THEN k ELSE k + 1]
<1> DEFINE left == SubSeq(q, 1, i - 1)
           right == SubSeq(q, i + 1, Len(q))
           n == Len(q)
<1>1. RemoveAt(q, i) = left \o right
  BY DEF RemoveAt
<1>2. n \in Nat /\ i \in Nat /\ 1 <= i /\ i <= n
  OBVIOUS
<1>3. /\ left \in Seq(S) /\ Len(left) = i - 1 /\ \A k \in 1 .. i - 1 : left[k] = q[k]
  BY <1>2
<1>4. /\ right \in Seq(S) /\ Len(right) = n - i /\ \A k \in 1 .. n - i : right[k] = q[k + i]
  BY <1>2
<1> HIDE DEF left, right
<1>5. /\ DOMAIN (left \o right) = 1 .. (i - 1) + (n - i)
      /\ \A k \in 1 .. (i - 1) + (n - i) :
           (left \o right)[k] = IF k <= i - 1 THEN left[k] ELSE right[k - (i - 1)]
  BY <1>2, <1>3, <1>4
<1>6. ASSUME NEW k \in 1 .. n - 1 PROVE (left \o right)[k] = q[IF k < i THEN k ELSE k + 1]
  <2>1. CASE k < i
    BY <1>2, <1>3, <1>5, <2>1
  <2>2. CASE ~(k < i)
    <3>1. k - (i - 1) \in 1 .. n - i /\ (k - (i - 1)) + i = k + 1
      BY <1>2, <2>2
    <3>2. right[k - (i - 1)] = q[k + 1]
      BY <1>4, <3>1
    <3> QED BY <1>2, <1>5, <2>2, <3>2
  <2> QED BY <2>1, <2>2
<1>7. (i - 1) + (n - i) = n - 1
  BY <1>2
<1> QED BY <1>1, <1>5, <1>6, <1>7

\* An adapter that comes is another one, and those that stay are still there once.
LEMMA DifferKept ==
    ASSUME Change, section = "gpus", pc \in [cards : Seq(Cards)], Differ(pc.cards)
    PROVE  Differ(pc'.cards)
<1>1. CASE \E card \in Cards : PlugCard(card)
  <2>1. PICK card \in Cards : PlugCard(card)
    BY <1>1
  <2> DEFINE cards == pc.cards
             more == Append(cards, card)
             last == Len(cards) + 1
  <2>2. pc' = [pc EXCEPT !.cards = more] /\ card \notin ToSet(cards)
    BY <2>1 DEF PlugCard, Changing
  <2>3. cards \in Seq(Cards) /\ Len(cards) \in Nat /\ DOMAIN cards = 1 .. Len(cards)
    OBVIOUS
  <2>4. /\ DOMAIN more = 1 .. last /\ more[last] = card
        /\ \A i \in 1 .. Len(cards) : more[i] = cards[i] /\ cards[i] # card
    <3>1. DOMAIN more = 1 .. last /\ more[last] = card /\ \A i \in 1 .. Len(cards) : more[i] = cards[i]
      BY <2>3
    <3>2. \A i \in 1 .. Len(cards) : cards[i] # card
      BY <2>2, <2>3 DEF ToSet
    <3> QED BY <3>1, <3>2
  <2>5. pc'.cards = more
    BY <2>2
  <2>6. \A i, k \in 1 .. Len(cards) : cards[i] = cards[k] => i = k
    BY <2>3 DEF Differ
  <2>7. \A i \in 1 .. last : i = last \/ i \in 1 .. Len(cards)
    BY <2>3
  <2> HIDE DEF cards, more, last
  <2> QED BY <2>4, <2>5, <2>6, <2>7 DEF Differ
<1>2. CASE \E i \in DOMAIN pc.cards : UnplugCard(i)
  <2>1. PICK i \in DOMAIN pc.cards : UnplugCard(i)
    BY <1>2
  <2> DEFINE cards == pc.cards
             fewer == RemoveAt(cards, i)
             old(k) == IF k < i THEN k ELSE k + 1
  <2>2. pc' = [pc EXCEPT !.cards = fewer]
    BY <2>1 DEF UnplugCard, Changing
  <2>3. /\ cards \in Seq(Cards) /\ Len(cards) \in Nat /\ DOMAIN cards = 1 .. Len(cards)
        /\ i \in 1 .. Len(cards)
    OBVIOUS
  <2>4. /\ DOMAIN fewer = 1 .. Len(cards) - 1
        /\ \A k \in 1 .. Len(cards) - 1 : fewer[k] = cards[old(k)]
    BY <2>3, RemoveAtIs
  <2>5. \A k \in 1 .. Len(cards) - 1 : old(k) \in 1 .. Len(cards)
    BY <2>3
  <2>6. \A k, l \in 1 .. Len(cards) - 1 : old(k) = old(l) => k = l
    BY <2>3
  <2>7. pc'.cards = fewer
    BY <2>2
  <2>8. \A k, l \in 1 .. Len(cards) : cards[k] = cards[l] => k = l
    BY <2>3 DEF Differ
  <2> HIDE DEF cards, fewer, old
  <2>9. \A k, l \in DOMAIN fewer : fewer[k] = fewer[l] => k = l
    BY <2>4, <2>5, <2>6, <2>8
  <2> QED BY <2>7, <2>9 DEF Differ
<1> QED BY <1>1, <1>2 DEF Change, SwitchProcessor, InstallUpdate, ClearHistory, Changing

LEMMA MatchesKept ==
    ASSUME [Next]_vars, DInv, MatchesRead, section = "gpus"
    PROVE  MatchesRead'
<1>1. /\ section' = section /\ pc \in [cards : Seq(Cards)] /\ changes \in Nat
      /\ stage = "collecting" => \/ todo = GpuQueries /\ answer = Got(<<>>) /\ DOMAIN seen = {}
                                 \/ todo = <<"displays">> /\ answer = Got(<<>>) /\ AdaptersSeen
                                 \/ todo = <<>> /\ AdaptersHeard
  BY Steady DEF DInv, AdaptersRead
<1>2. /\ Differ(pc.cards)
      /\ stage = "collecting" /\ todo = <<"displays">> => Differ(seen.adapters)
      /\ stage = "collecting" /\ todo = <<>> => MatchingHeard
      /\ stage # "collecting" => Returned(MatchingHeard)
  BY DEF MatchesRead
<1>3. CASE See("gpus", "adapters", "adapters", pc.cards)
  <2>1. /\ stage = "collecting" /\ stage' = stage /\ UNCHANGED <<pc, changes, answer>>
        /\ todo # <<>> /\ Head(todo) = "adapters" /\ todo' = Tail(todo)
        /\ seen' = [n \in DOMAIN seen \cup {"adapters"} |->
                      IF n = "adapters" THEN pc.cards ELSE seen[n]]
    BY <1>3 DEF See, Ask, later
  <2>2. todo = GpuQueries
    BY <1>1, <2>1
  <2>3. todo' # <<>>
    BY <2>1, <2>2 DEF GpuQueries
  <2>4. seen'.adapters = pc.cards
    BY <2>1
  <2> QED BY <1>2, <2>1, <2>3, <2>4 DEF MatchesRead
<1>4. CASE /\ todo = <<"displays">>
           /\ Hear("gpus", "displays",
                   {GpuAnswer(seen.adapters, Displays(pc.cards), DisplaysSaid(Displays(pc.cards))),
                    GpuAnswer(seen.adapters, {}, {"setupapi"})})
  <2>1. /\ stage = "collecting" /\ stage' = stage /\ UNCHANGED <<pc, changes, seen>>
        /\ todo' = Tail(todo)
    BY <1>4 DEF Hear, Ask, later
  <2>2. answer = Got(<<>>) /\ AdaptersSeen /\ Differ(seen.adapters)
    BY <1>1, <1>2, <1>4, <2>1 DEF GpuQueries
  <2>3. PICK displays \in {Displays(pc.cards), {}} :
          \E said : answer' = Join(answer, GpuAnswer(seen.adapters, displays, said))
    BY <1>4 DEF Hear
  <2>4. PICK said : answer' = Join(answer, GpuAnswer(seen.adapters, displays, said))
    BY <2>3
  <2>5. answer' = GpuAnswer(seen.adapters, displays, said)
    BY <2>2, <2>4, GpuAnswerMaps DEF AdaptersSeen
  <2>6. Matched(answer, seen.adapters)'
    BY <2>1, <2>5 DEF Matched
  <2>7. todo' = <<>>
    BY <1>4, <2>1
  <2> QED BY <1>2, <2>1, <2>2, <2>6, <2>7 DEF MatchesRead, MatchingHeard
<1>5. CASE Change
  <2>1. UNCHANGED <<section, stage, todo, answer, seen, result>>
    BY <1>1, <1>5, AdaptersChange
  <2>2. stage = "collecting" /\ todo # <<>>
    BY <1>5 DEF Change, SwitchProcessor, PlugCard, UnplugCard, InstallUpdate, ClearHistory, Changing
  <2>3. Differ(pc'.cards)
    BY <1>1, <1>2, <1>5, DifferKept
  <2> QED BY <1>2, <2>1, <2>2, <2>3 DEF MatchesRead
<1>6. CASE GiveUp
  <2>1. stage' = "collecting" /\ todo' = <<>> /\ UNCHANGED <<pc, changes>> /\ answer' = GpuFailure
    BY <1>6 DEF GiveUp, Failure, later
  <2> QED BY <1>2, <2>1 DEF MatchesRead, MatchingHeard
<1>7. CASE Common
  <2>1. /\ UNCHANGED <<section, pc, changes, answer, seen>>
        /\ stage' = "collecting" => UNCHANGED <<stage, todo>>
    BY <1>7, CommonKeeps
  <2>2. Return => MatchingHeard
    BY <1>2 DEF Return
  <2>3. MatchingHeard' = MatchingHeard /\ MatchingHeard \in BOOLEAN
    BY <2>1 DEF MatchingHeard, Matched
  <2>4. stage' # "collecting" => Returned(MatchingHeard)'
    BY <1>2, <1>7, <2>1, <2>2, <2>3, Handover DEF Returned
  <2> QED BY <1>1, <1>2, <2>1, <2>3, <2>4 DEF MatchesRead
<1> QED BY <1>3, <1>4, <1>5, <1>6, <1>7, OwnSteps DEF AskGpu

-----------------------------------------------------------------------------
(* What follows for the adapters *)

\* The collection has nothing of them, or each of them with what was matched.
AdaptersTold ==
    /\ AdaptersSeen /\ Mapped(answer, seen.adapters)
    /\ Differ(seen.adapters) /\ Matched(answer, seen.adapters) /\ pc.cards \in Seq(Cards)
    /\ result = GpuResult(answer) /\ result.values = answer.values
    /\ Entries(answer.values) = DOMAIN seen.adapters
    /\ <<0, "gpus">> \notin Nulls(answer.values)

LEMMA AdaptersAreTold ==
    ASSUME AdaptersRead, MatchesRead, section = "gpus", stage # "collecting"
    PROVE  \/ Nothing(result.values, "gpus") /\ Admitted(result)
           \/ AdaptersTold
<1> SUFFICES ASSUME ~(Nothing(result.values, "gpus") /\ Admitted(result)) PROVE AdaptersTold
  OBVIOUS
<1>1. /\ AdaptersSeen /\ Mapped(answer, seen.adapters)
      /\ result = GpuResult(answer) /\ result.values = answer.values
  BY AdaptersReturned
<1>2. Entries(answer.values) = 1 .. Len(seen.adapters) /\ DOMAIN seen.adapters = 1 .. Len(seen.adapters)
      /\ Len(seen.adapters) \in Nat
  <2>1. seen.adapters \in Seq(Cards)
    BY <1>1 DEF AdaptersSeen
  <2> QED BY <1>1, <2>1, AdaptersListed
<1>3. answer.values[<<0, "gpus">>] # Null
  BY <1>1, <1>2, NullAssumption DEF Mapped
<1>4. answer # GpuFailure
  <2>1. GpuFailure.values = [p \in {<<0, "gpus">>} |-> Null]
    BY DEF GpuFailure, Missed, Answer
  <2> QED BY <1>3, <2>1
<1>5. result # Lost(EmptyPaths("gpus"))
  <2>1. EmptyPaths("gpus") = {<<0, "gpus">>}
    BY DEF EmptyPaths
  <2>2. Lost({<<0, "gpus">>}).values = [p \in {<<0, "gpus">>} |-> Null]
    BY DEF Lost, Unreasoned, Result, Missed, Answer
  <2> QED BY <1>1, <1>3, <2>1, <2>2
<1>6. Differ(seen.adapters) /\ Matched(answer, seen.adapters)
  BY <1>4, <1>5 DEF MatchesRead, Returned, MatchingHeard
<1>7. pc.cards \in Seq(Cards)
  BY DEF AdaptersRead
<1> QED BY <1>1, <1>2, <1>3, <1>6, <1>7 DEF AdaptersTold, Nulls

\* What the collection says of the device of the i-th adapter is what that of b says.
HasDevice(i, b) ==
    /\ Taken(b, seen.adapters[i], pc.cards)
    /\ Shown(answer.values[<<i, "instance">>], answer.values[<<i, "problem">>],
             answer.values[<<i, "started">>], b)

LEMMA AdaptersTrue ==
    ASSUME AdaptersTold, NEW i \in DOMAIN seen.adapters
    PROVE  /\ answer.values[<<i, "name">>] = Null => ~seen.adapters[i].named
           /\ \/ Bare(answer.values[<<i, "instance">>], answer.values[<<i, "problem">>],
                      answer.values[<<i, "started">>])
              \/ \E b \in Cards : HasDevice(i, b)
<1>1. seen.adapters \in Seq(Cards) /\ pc.cards \in Seq(Cards)
  BY DEF AdaptersTold, AdaptersSeen
<1>2. PICK displays \in {Displays(pc.cards), {}} :
         \E said : answer = GpuAnswer(seen.adapters, displays, said)
  BY DEF AdaptersTold, Matched
<1>3. PICK said : answer = GpuAnswer(seen.adapters, displays, said)
  BY <1>2
<1> DEFINE gpu == MapAdapter(seen.adapters[i], displays)
<1>4. \A f \in GpuFields : answer.values[<<i, f>>] = gpu[f]
  BY <1>1, <1>3, GpuValuesAre
<1>5. /\ gpu.name = Null => ~seen.adapters[i].named
      /\ \/ Bare(gpu.instance, gpu.problem, gpu.started)
         \/ \E b \in Cards : /\ Taken(b, seen.adapters[i], pc.cards)
                             /\ Shown(gpu.instance, gpu.problem, gpu.started, b)
  <2> DEFINE a == seen.adapters[i]
             present == pc.cards
  <2>1. a \in Cards /\ present \in Seq(Cards) /\ displays \in {Displays(present), {}}
    BY <1>1
  <2>2. gpu = MapAdapter(a, displays)
    OBVIOUS
  <2> HIDE DEF a, present, gpu
  <2>3. /\ gpu.name = Null => ~a.named
        /\ \/ Bare(gpu.instance, gpu.problem, gpu.started)
           \/ \E b \in Cards : Taken(b, a, present) /\ Shown(gpu.instance, gpu.problem, gpu.started, b)
    BY <2>1, <2>2, MapAdapterIs
  <2> QED BY <2>3 DEF a, present
<1> HIDE DEF gpu
<1>6. {"name", "instance", "problem", "started"} \subseteq GpuFields
  BY DEF GpuFields
<1>7. /\ answer.values[<<i, "name">>] = gpu.name
      /\ answer.values[<<i, "instance">>] = gpu.instance
      /\ answer.values[<<i, "problem">>] = gpu.problem
      /\ answer.values[<<i, "started">>] = gpu.started
  BY <1>4, <1>6
<1> QED BY <1>5, <1>7 DEF HasDevice

\* An adapter whose own device can be told is shown with that one, and two adapters with
\* one device have one instance id.
LEMMA DevicesTold ==
    ASSUME AdaptersTold, NEW i \in DOMAIN seen.adapters, NEW b \in Cards, HasDevice(i, b)
    PROVE  /\ answer.values[<<i, "instance">>] = IF b.unread THEN Null ELSE b.id
           /\ b.unread => b = seen.adapters[i]
           /\ Orphan(seen.adapters[i], pc.cards) \/ b = seen.adapters[i]
           /\ answer.values[<<i, "problem">>] = 0 => ~b.stopped
           /\ IsTrue(answer.values[<<i, "started">>]) => ~b.stopped
<1>1. seen.adapters[i] \in Cards
  BY DEF AdaptersTold, AdaptersSeen
<1>2. b # seen.adapters[i] => Orphan(seen.adapters[i], pc.cards) /\ PciSaid(b) = seen.adapters[i].pci
  BY DEF HasDevice, Taken
<1>3. b.unread => b = seen.adapters[i]
  <2>1. seen.adapters[i].pci # Null
    BY <1>1, SectionsAssumption
  <2> QED BY <1>2, <2>1 DEF PciSaid
<1> QED BY <1>2, <1>3, ShownIs DEF HasDevice

LEMMA AdaptersJudged ==
    ASSUME DInv, section = "gpus", Written
    PROVE  /\ DOMAIN evaluations = 1 .. 4
           /\ \A n \in 1 .. 4 : evaluations[n].rule = <<"gpu", GpuRules[n]>>
           /\ \A i \in HardwareGpus(result.values) :
                /\ evaluations[1].status = "passed" => result.values[<<i, "problem">>] = 0
                /\ evaluations[2].status = "passed" => IsTrue(result.values[<<i, "started">>])
<1>1. evaluations = EvaluateGpus(result.values) /\ stage = "done" /\ AdaptersRead
  BY DEF DInv, Followed, Written, Diagnose
<1>2. Listing(result.values, "gpus", {"type", "problem", "started", "driver", "instance"})
  BY <1>1, AdaptersListed DEF Listing, GpuFields
<1> QED BY <1>1, <1>2, GpuRulesAre

\* The gate lets no two adapters through with one instance id.
LEMMA AdaptersApart ==
    ASSUME AdaptersTold, Twins(result, "instance") = {},
           NEW i \in DOMAIN seen.adapters, NEW k \in DOMAIN seen.adapters, NEW b \in Cards,
           HasDevice(i, b), HasDevice(k, b)
    PROVE  i = k
<1>1. /\ result.values = answer.values /\ Entries(answer.values) = DOMAIN seen.adapters
      /\ Differ(seen.adapters) /\ seen.adapters \in Seq(Cards)
  BY DEF AdaptersTold, AdaptersSeen
<1>2. /\ answer.values[<<i, "instance">>] = IF b.unread THEN Null ELSE b.id
      /\ answer.values[<<k, "instance">>] = IF b.unread THEN Null ELSE b.id
      /\ b.unread => b = seen.adapters[i] /\ b = seen.adapters[k]
  BY DevicesTold
<1>3. CASE b.unread
  BY <1>1, <1>2, <1>3 DEF Differ
<1>4. CASE ~b.unread
  <2>1. b.id # Null
    BY SectionsAssumption
  <2>2. answer.values[<<i, "instance">>] = b.id /\ answer.values[<<k, "instance">>] = b.id
    BY <1>2, <1>4
  <2>3. \A x, y \in DOMAIN seen.adapters :
          x < y /\ answer.values[<<x, "instance">>] = b.id /\ answer.values[<<y, "instance">>] = b.id
          => <<"twin", y>> \in Twins(result, "instance")
    BY <1>1, <2>1 DEF Twins
  <2>4. ~(i < k) /\ ~(k < i)
    BY <2>2, <2>3
  <2>5. i \in Nat /\ k \in Nat
    BY <1>1
  <2> QED BY <2>4, <2>5
<1> QED BY <1>3, <1>4

\* "passed" of a stopped adapter takes an adapter that came after the list was made: as
\* long as all that SetupAPI shows are in the list, and no two of the list are shown with
\* one device, every device is shown with some adapter of the list, and speaks for itself.
LEMMA AdaptersPassed ==
    ASSUME DInv, MatchesRead, section = "gpus"
    PROVE  PassIsEarned
<1> SUFFICES ASSUME Written, NEW n \in {1, 2}, Verdicts(<<"gpu", GpuRules[n]>>) = {"passed"},
                    NEW i \in HardwareGpus(result.values), seen.adapters[i].stopped
             PROVE  /\ Orphan(seen.adapters[i], pc.cards)
                    /\ ~(ToSet(pc.cards) \subseteq ToSet(seen.adapters))
  BY DEF PassIsEarned, GpuRules
<1>1. /\ DOMAIN evaluations = 1 .. 4
      /\ evaluations[n].rule = <<"gpu", GpuRules[n]>>
      /\ \A k \in HardwareGpus(result.values) :
           /\ evaluations[1].status = "passed" => result.values[<<k, "problem">>] = 0
           /\ evaluations[2].status = "passed" => IsTrue(result.values[<<k, "started">>])
  BY AdaptersJudged
<1>2. evaluations[n].status = "passed"
  <2>1. evaluations[n] \in ToSet(evaluations)
    BY <1>1 DEF ToSet
  <2>2. evaluations[n].status \in Verdicts(<<"gpu", GpuRules[n]>>)
    BY <1>1, <2>1 DEF Verdicts
  <2> QED BY <2>2
<1>3. AdaptersTold
  <2>1. Nothing(result.values, "gpus") => Entries(result.values) = {}
    BY NothingListed
  <2>2. AdaptersRead /\ stage # "collecting"
    BY DEF DInv, Written
  <2> QED BY <2>1, <2>2, AdaptersAreTold DEF HardwareGpus
<1> DEFINE H == HardwareGpus(result.values)
           D == {b \in ToSet(pc.cards) : b.type = "hardware"}
<1>4. /\ result.values = answer.values /\ H \subseteq DOMAIN seen.adapters
      /\ seen.adapters \in Seq(Cards) /\ pc.cards \in Seq(Cards)
      /\ \A k \in DOMAIN seen.adapters : seen.adapters[k].type = "hardware" => k \in H
  <2>1. \A k \in DOMAIN seen.adapters : answer.values[<<k, "type">>] = seen.adapters[k].type
    BY <1>3 DEF AdaptersTold, Mapped
  <2> QED BY <1>3, <2>1 DEF AdaptersTold, AdaptersSeen, HardwareGpus
<1>5. Twins(result, "instance") = {}
  <2>1. GateErrors("gpus", result) = {}
    BY DEF DInv, Followed, Written
  <2> QED BY <2>1 DEF GateErrors, GpuErrors
<1> HIDE DEF H
<1>6. ASSUME NEW k \in H PROVE \E b \in Cards : HasDevice(k, b) /\ ~b.stopped
  <2>1. answer.values[<<k, "problem">>] = 0 \/ IsTrue(answer.values[<<k, "started">>])
    BY <1>1, <1>2, <1>4, <1>6 DEF H
  <2>2. k \in DOMAIN seen.adapters
    BY <1>4
  <2>3. ~Bare(answer.values[<<k, "instance">>], answer.values[<<k, "problem">>],
              answer.values[<<k, "started">>])
    <3> QED BY <2>1, NullIsNone DEF Bare, IsTrue
  <2>4. PICK b \in Cards : HasDevice(k, b)
    BY <1>3, <2>2, <2>3, AdaptersTrue
  <2> QED BY <1>3, <2>1, <2>2, <2>4, DevicesTold
<1> DEFINE f == [k \in H |-> CHOOSE b \in Cards : HasDevice(k, b) /\ ~b.stopped]
<1>7. \A k \in H : f[k] \in Cards /\ HasDevice(k, f[k]) /\ ~f[k].stopped
  BY <1>6
<1>8. i \in H /\ i \in DOMAIN seen.adapters
  BY <1>4 DEF H
<1> HIDE DEF f
<1>9. Orphan(seen.adapters[i], pc.cards)
  <2>1. f[i] # seen.adapters[i]
    BY <1>7, <1>8
  <2> QED BY <1>3, <1>7, <1>8, <2>1, DevicesTold
<1>10. ASSUME ToSet(pc.cards) \subseteq ToSet(seen.adapters) PROVE FALSE
  <2>1. IsFiniteSet(D) /\ IsFiniteSet(H)
    <3>1. IsFiniteSet(ToSet(pc.cards))
      BY <1>4, ListFinite
    <3>2. IsFiniteSet(1 .. Len(seen.adapters)) /\ H \subseteq 1 .. Len(seen.adapters)
      <4>1. Len(seen.adapters) \in Nat /\ DOMAIN seen.adapters = 1 .. Len(seen.adapters)
        BY <1>4
      <4> QED BY <1>4, <4>1, FS_Interval
    <3> QED BY <3>1, <3>2, FS_Subset
  <2>2. f \in Injection(H, D)
    <3>1. DOMAIN f = H /\ f = [k \in H |-> f[k]]
      BY DEF f
    <3>2. \A k \in H : f[k] \in D
      BY <1>7 DEF HasDevice, Taken
    <3>3. \A k, l \in H : f[k] = f[l] => k = l
      <4> SUFFICES ASSUME NEW k \in H, NEW l \in H, f[k] = f[l] PROVE k = l
        OBVIOUS
      <4>1. k \in DOMAIN seen.adapters /\ l \in DOMAIN seen.adapters
        BY <1>4
      <4>2. HasDevice(k, f[k]) /\ HasDevice(l, f[k]) /\ f[k] \in Cards
        BY <1>7
      <4> QED BY <1>3, <1>5, <4>1, <4>2, AdaptersApart
    <3> HIDE DEF D
    <3> QED BY <3>1, <3>2, <3>3 DEF Injection, IsInjective
  <2> DEFINE g == [b \in D |-> CHOOSE k \in H : seen.adapters[k] = b]
  <2>3. \A b \in D : g[b] \in H /\ seen.adapters[g[b]] = b
    <3> SUFFICES ASSUME NEW b \in D PROVE \E k \in H : seen.adapters[k] = b
      OBVIOUS
    <3>1. PICK k \in DOMAIN seen.adapters : seen.adapters[k] = b
      BY <1>10 DEF ToSet
    <3> QED BY <1>4, <3>1
  <2>4. g = [b \in D |-> g[b]] /\ DOMAIN g = D
    OBVIOUS
  <2> HIDE DEF D, g
  <2>5. g \in Injection(D, H)
    BY <2>3, <2>4 DEF Injection, IsInjective
  <2>6. Cardinality(H) <= Cardinality(D) /\ Cardinality(D) <= Cardinality(H)
    BY <2>1, <2>2, <2>5, FS_Injection
  <2>7. Cardinality(H) = Cardinality(D)
    <3>1. Cardinality(H) \in Nat /\ Cardinality(D) \in Nat
      BY <2>1, FS_CardinalityType
    <3> QED BY <2>6, <3>1
  <2>8. f \in Surjection(H, D) /\ g \in Surjection(D, H)
    BY <2>1, <2>2, <2>5, <2>7, FS_Injection
  <2>9. PICK b \in D : g[b] = i
    BY <1>8, <2>8 DEF Surjection
  <2>10. PICK k \in H : f[k] = b
    BY <2>8 DEF Surjection
  <2> QED BY <1>7, <2>3, <2>9, <2>10
<1> QED BY <1>9, <1>10

\* The gate refuses the adapters for a blank name, or when one took the device of another.
LEMMA AdapterRefusals ==
    ASSUME AdaptersRead, MatchesRead, section = "gpus", stage # "collecting",
           NEW e \in GateErrors("gpus", result)
    PROVE  Explains(e, section, pc, seen)
<1>1. e \in ListErrors(result) \cup Twins(result, "instance")
  BY DEF GateErrors, GpuErrors
<1>2. CASE Nothing(result.values, "gpus") /\ Admitted(result)
  <2>1. ListErrors(result) = {}
    BY <1>2 DEF ListErrors, FailureErrors, Nothing, Nulls, Admitted
  <2>2. Entries(result.values) = {}
    BY <1>2, NothingListed
  <2> QED BY <1>1, <2>1, <2>2 DEF Twins
<1>3. CASE AdaptersTold
  <2>1. /\ AdaptersSeen /\ Mapped(answer, seen.adapters) /\ result = GpuResult(answer)
        /\ result.values = answer.values /\ Entries(answer.values) = DOMAIN seen.adapters
        /\ <<0, "gpus">> \notin Nulls(answer.values)
    BY <1>3 DEF AdaptersTold
  <2>2. result.fields = answer.reasons
        /\ \/ result.status = "success" /\ Range(answer.reasons) \subseteq {"not_applicable"}
           \/ result.status = "partial"
    BY <2>1 DEF GpuResult, Result
  <2>3. result.status = "success" =>
          {q \in DOMAIN result.fields : result.fields[q] # "not_applicable"} = {}
    BY <2>2 DEF Range
  <2>4. ListErrors(result) = FieldErrors(result, Nulls(answer.values))
    BY <2>1, <2>2, <2>3 DEF ListErrors
  <2>5. CASE e \in FieldErrors(result, Nulls(answer.values))
    <3>1. DOMAIN answer.reasons = {p \in Nulls(answer.values) : p[2] # "name"}
      BY <2>1 DEF Mapped
    <3>2. PICK p \in Nulls(answer.values) : e = <<"no_reason", p>> /\ p[2] = "name"
      BY <2>2, <2>5, <3>1 DEF FieldErrors
    <3>3. p \in (DOMAIN seen.adapters) \X GpuFields
      BY <2>1 DEF Mapped, Nulls
    <3>4. p = <<p[1], "name">> /\ p[1] \in DOMAIN seen.adapters
      BY <3>2, <3>3
    <3>5. ~seen.adapters[p[1]].named
      BY <1>3, <3>4, AdaptersTrue DEF Nulls
    <3>6. e[1] = "no_reason" /\ e[2] = p
      BY <3>2
    <3> QED BY <3>2, <3>5, <3>6 DEF Explains
  <2>6. CASE e \in Twins(result, "instance")
    <3>1. PICK k \in DOMAIN seen.adapters :
            /\ e = <<"twin", k>> /\ answer.values[<<k, "instance">>] # Null
            /\ \E i \in DOMAIN seen.adapters : i < k /\
                 answer.values[<<i, "instance">>] = answer.values[<<k, "instance">>]
      BY <2>1, <2>6 DEF Twins
    <3>2. PICK i \in DOMAIN seen.adapters : i < k /\
            answer.values[<<i, "instance">>] = answer.values[<<k, "instance">>]
      BY <3>1
    <3>3. PICK b \in Cards : HasDevice(k, b)
      BY <1>3, <3>1, AdaptersTrue DEF Bare
    <3>4. PICK c \in Cards : HasDevice(i, c)
      BY <1>3, <3>1, <3>2, AdaptersTrue DEF Bare
    <3>5. b = c
      <4>1. /\ answer.values[<<k, "instance">>] = IF b.unread THEN Null ELSE b.id
            /\ answer.values[<<i, "instance">>] = IF c.unread THEN Null ELSE c.id
        BY <1>3, <3>3, <3>4, DevicesTold
      <4>2. b.id = c.id
        BY <3>1, <3>2, <4>1
      <4> QED BY <4>2, SectionsAssumption
    <3>6. seen.adapters[i] # seen.adapters[k] /\ seen.adapters \in Seq(Cards)
      <4>1. seen.adapters \in Seq(Cards) /\ Differ(seen.adapters)
        BY <1>3 DEF AdaptersTold, AdaptersSeen
      <4>2. i \in Nat /\ k \in Nat
        BY <4>1
      <4> QED BY <3>2, <4>1, <4>2 DEF Differ
    <3>7. PICK m \in {i, k} : b # seen.adapters[m]
      BY <3>6
    <3>8. HasDevice(m, b) /\ m \in DOMAIN seen.adapters
      BY <3>3, <3>4, <3>5
    <3>9. /\ Orphan(seen.adapters[m], pc.cards) /\ PciSaid(b) = seen.adapters[m].pci
          /\ b \in ToSet(pc.cards) /\ b.type = "hardware"
      BY <3>7, <3>8 DEF HasDevice, Taken
    <3>10. seen.adapters[m] \in ToSet(seen.adapters)
      BY <3>8 DEF ToSet
    <3>11. Mistaken(seen.adapters, pc.cards)
      BY <3>9, <3>10 DEF Mistaken
    <3>12. e[1] = "twin"
      BY <3>1
    <3> QED BY <3>11, <3>12 DEF Explains
  <2> QED BY <1>1, <2>4, <2>5, <2>6
<1> QED BY <1>2, <1>3, AdaptersAreTold

LEMMA AdapterRefusalsOK == DInv /\ MatchesRead => (section = "gpus" => ExplainedRefusal)
<1> SUFFICES ASSUME DInv, MatchesRead, section = "gpus" PROVE ExplainedRefusal
  OBVIOUS
<1>1. AdaptersRead /\ Followed /\ stage \in {"collecting", "gate", "rules", "done"}
  BY DEF DInv
<1>2. \A e \in errors : e \in GateErrors("gpus", result) /\ stage # "collecting"
  BY <1>1 DEF Followed
<1>3. \A e \in errors : Explains(e, section, pc, seen)
  BY <1>1, <1>2, AdapterRefusals
<1> QED BY <1>3, RefusalNow

\* A success shows each adapter whose own device can be told with that device.
LEMMA AdaptersWhole == DInv /\ MatchesRead => (section = "gpus" => SuccessIsComplete)
<1> SUFFICES ASSUME DInv, MatchesRead, section = "gpus", Written, result.status = "success"
             PROVE  SuccessIsComplete
  BY DEF SuccessIsComplete
<1>1. /\ stage = "done" /\ GateErrors("gpus", result) = {} /\ AdaptersRead
  BY DEF DInv, Followed, Written
<1>2. /\ \A p \in Nulls(result.values) : p[1] \in Software(result.values)
      /\ Undisturbed => Entries(result.values) = DOMAIN pc.cards
  BY <1>1, AdaptersComplete DEF GateErrors
<1>3. ASSUME NEW i \in HardwareGpus(result.values)
      PROVE  \/ Orphan(seen.adapters[i], pc.cards)
             \/ result.values[<<i, "instance">>] = seen.adapters[i].id
  <2>1. AdaptersTold
    <3>1. Nothing(result.values, "gpus") => Entries(result.values) = {}
      BY NothingListed
    <3> QED BY <1>1, <3>1, AdaptersAreTold DEF HardwareGpus
  <2>2. i \in DOMAIN seen.adapters /\ result.values = answer.values
    BY <2>1 DEF AdaptersTold, HardwareGpus
  <2>3. answer.values[<<i, "instance">>] # Null
    <3>1. <<i, "instance">> \in DOMAIN answer.values
      BY <2>1, <2>2 DEF AdaptersTold, Mapped, GpuFields
    <3>2. i \notin Software(result.values)
      BY DEF Software
    <3>3. <<i, "instance">> \notin Nulls(result.values)
      BY <1>2, <3>2
    <3> QED BY <2>2, <3>1, <3>3 DEF Nulls
  <2>4. PICK b \in Cards : HasDevice(i, b)
    BY <2>1, <2>2, <2>3, AdaptersTrue DEF Bare
  <2> QED BY <2>1, <2>2, <2>3, <2>4, DevicesTold
<1> QED BY <1>2, <1>3 DEF SuccessIsComplete

-----------------------------------------------------------------------------
(* Lists of questions *)

\* What is left of the questions, from the n-th on.
LEMMA QuestionsLeft ==
    ASSUME NEW S, NEW q \in Seq(S), NEW n \in 1 .. Len(q) + 1,
           NEW left, left = SubSeq(q, n, Len(q))
    PROVE  /\ left = <<>> => n = Len(q) + 1
           /\ left # <<>> => /\ n \in DOMAIN q /\ Head(left) = q[n]
                             /\ Tail(left) = SubSeq(q, n + 1, Len(q)) /\ n + 1 \in 1 .. Len(q) + 1
<1>1. Len(q) \in Nat /\ DOMAIN q = 1 .. Len(q) /\ n \in Nat /\ 1 <= n /\ n <= Len(q) + 1
  OBVIOUS
<1>2. left = [i \in 1 .. Len(q) - n + 1 |-> q[i + n - 1]]
  BY <1>1
<1>3. left \in Seq(S) /\ Len(left) = Len(q) - n + 1
  BY <1>1, <1>2
<1>4. CASE n <= Len(q)
  <2>1. left # <<>> /\ n \in DOMAIN q /\ Head(left) = q[n]
    BY <1>1, <1>2, <1>3, <1>4
  <2>2. Tail(left) = [i \in 1 .. Len(q) - n |-> q[i + n]]
    BY <1>1, <1>2, <1>3, <1>4, SMTT(20)
  <2>3. SubSeq(q, n + 1, Len(q)) = [i \in 1 .. Len(q) - n |-> q[i + n]]
    BY <1>1, <1>4
  <2> QED BY <1>1, <1>4, <2>1, <2>2, <2>3
<1>5. CASE n = Len(q) + 1
  <2>1. left = <<>>
    BY <1>1, <1>3, <1>5
  <2> QED BY <1>5, <2>1
<1> QED BY <1>1, <1>4, <1>5

LEMMA AllQuestionsLeft ==
    ASSUME NEW S, NEW q \in Seq(S)
    PROVE  SubSeq(q, 1, Len(q)) = q /\ 1 \in 1 .. Len(q) + 1
  OBVIOUS

\* What the collectors of these sections do themselves.
LEMMA OtherSteps ==
    ASSUME [Next]_vars
    PROVE  /\ section = "windows_security" => AskSecurity \/ Common
           /\ section = "cpu" => AskCpu \/ SwitchProcessor \/ GiveUp \/ Common
           /\ section = "windows_updates" =>
                 AskUpdates \/ InstallUpdate \/ ClearHistory \/ GiveUp \/ Common
           /\ section = "runtime_environment" => AskRuntime \/ GiveUp \/ Common
<1>1. Next \/ UNCHANGED vars
  OBVIOUS
<1>2. section \in {"windows_security", "cpu", "windows_updates", "runtime_environment"} =>
        ~AskWindows /\ ~AskClock /\ ~AskFirmware /\ ~AskMemory /\ ~AskGpu /\ ~AskDevices
        /\ ~AskEventLogs
  BY DEF AskWindows, AskClock, AskFirmware, AskMemory, AskGpu, AskDevices, AskEventLogs,
         Hear, See, Ask
<1>3. /\ section # "windows_security" => ~AskSecurity
      /\ section # "cpu" => ~AskCpu
      /\ section # "windows_updates" => ~AskUpdates
      /\ section # "runtime_environment" => ~AskRuntime
  BY DEF AskSecurity, AskCpu, AskUpdates, AskRuntime, Hear, See, Ask
<1>4. /\ section \in {"windows_security", "runtime_environment"} => ~Change
      /\ section = "cpu" /\ Change => SwitchProcessor
      /\ section = "windows_updates" /\ Change => InstallUpdate \/ ClearHistory
  BY DEF Change, SwitchProcessor, PlugCard, UnplugCard, InstallUpdate, ClearHistory, Changing
<1>5. section = "windows_security" => ~GiveUp
  BY DEF GiveUp
<1> QED BY <1>1, <1>2, <1>3, <1>4, <1>5 DEF Next, Work, Common

-----------------------------------------------------------------------------
(* Windows Security: a list of questions, one for each area of health *)

\* What a question is about.
SecurityPaths(q) ==
    CASE q = "device_guard" -> GuardFields
      [] q = "details" -> Details
      [] OTHER -> {q}

SecurityQuestions == Providers \cup {"device_guard", "details"}

\* Without a reason there is no message but of an area nobody watches, and an area or a
\* property that could not be read is worth one.
SecurityVoiced(a) ==
    /\ DOMAIN a.reasons = {} => a.said \subseteq {"wsc_not_monitored"}
    /\ DOMAIN a.reasons \cap HealthFields # {} => a.said # {}

SecurityAsked ==
    \E n \in 1 .. Len(SecurityQueries) + 1 :
        /\ todo = SubSeq(SecurityQueries, n, Len(SecurityQueries))
        /\ Covers(answer, UNION {SecurityPaths(SecurityQueries[i]) : i \in 1 .. n - 1})

SecurityHeard == Covers(answer, HealthFields \cup Details) /\ SecurityVoiced(answer)

SecurityRead ==
    section = "windows_security" =>
        /\ stage = "collecting" => SecurityAsked /\ SecurityVoiced(answer)
        /\ stage # "collecting" => Returned(SecurityHeard)

LEMMA SecurityQueriesAre ==
    ASSUME NEW q, q = SecurityQueries
    PROVE  /\ q \in Seq(SecurityQuestions) /\ ToSet(q) = SecurityQuestions
           /\ \A i, j \in DOMAIN q : q[i] = q[j] => i = j
<1> DEFINE p == SetToSeq(Providers)
           c == Cardinality(Providers)
<1>0. IsFiniteSet(Providers) /\ "device_guard" \notin Providers /\ "details" \notin Providers
  BY SystemFactsAssumption
<1>1. /\ p \in Seq(Providers) /\ Len(p) = c /\ c \in Nat /\ DOMAIN p = 1 .. c
      /\ ToSet(p) = Providers /\ \A i, j \in DOMAIN p : p[i] = p[j] => i = j
  BY <1>0, SetToSeqIs
<1>2. q = (p \o <<"device_guard">>) \o <<"details">>
  BY DEF SecurityQueries
<1> HIDE DEF p, c
<1>3. p \in Seq(SecurityQuestions)
  <2>1. \A i \in 1 .. c : p[i] \in SecurityQuestions
    BY <1>1 DEF SecurityQuestions
  <2> QED BY <1>1, <2>1
<1>4. /\ q \in Seq(SecurityQuestions) /\ DOMAIN q = 1 .. c + 2
      /\ \A i \in 1 .. c : q[i] = p[i]
      /\ q[c + 1] = "device_guard" /\ q[c + 2] = "details"
  <2> DEFINE u == p \o <<"device_guard">>
  <2>1. "device_guard" \in SecurityQuestions /\ "details" \in SecurityQuestions
    BY DEF SecurityQuestions
  <2>2. /\ u \in Seq(SecurityQuestions) /\ DOMAIN u = 1 .. c + 1 /\ Len(u) = c + 1
        /\ \A i \in 1 .. c : u[i] = p[i]
        /\ u[c + 1] = "device_guard"
    BY <1>1, <1>3, <2>1
  <2>3. q = u \o <<"details">>
    BY <1>2
  <2> HIDE DEF u
  <2>4. /\ q \in Seq(SecurityQuestions) /\ DOMAIN q = 1 .. c + 2
        /\ \A i \in 1 .. c + 1 : q[i] = u[i]
        /\ q[c + 2] = "details"
    BY <1>1, <2>1, <2>2, <2>3
  <2>5. \A i \in 1 .. c : i \in 1 .. c + 1
    BY <1>1
  <2>6. c + 1 \in 1 .. c + 1
    BY <1>1
  <2> QED BY <2>2, <2>4, <2>5, <2>6
<1>5. \A i \in DOMAIN q : i \in 1 .. c \/ i = c + 1 \/ i = c + 2
  BY <1>1, <1>4
<1>6. \A i \in 1 .. c : q[i] \in Providers
  BY <1>1, <1>4
<1>7. \A i, j \in DOMAIN q : q[i] = q[j] => i = j
  BY <1>0, <1>1, <1>4, <1>5, <1>6
<1>8. ToSet(q) = SecurityQuestions
  <2>1. c + 1 \in DOMAIN q /\ c + 2 \in DOMAIN q /\ 1 .. c \subseteq DOMAIN q
    BY <1>1, <1>4
  <2>2. \A x \in Providers : \E i \in DOMAIN q : q[i] = x
    <3> SUFFICES ASSUME NEW x \in Providers PROVE \E i \in DOMAIN q : q[i] = x
      OBVIOUS
    <3>1. PICK i \in 1 .. c : p[i] = x
      BY <1>1 DEF ToSet
    <3> QED BY <1>4, <2>1, <3>1
  <2>3. SecurityQuestions \subseteq ToSet(q)
    BY <1>4, <2>1, <2>2 DEF SecurityQuestions, ToSet
  <2>4. ToSet(q) \subseteq SecurityQuestions
    BY <1>4, <1>5, <1>6 DEF SecurityQuestions, ToSet
  <2> QED BY <2>3, <2>4
<1> QED BY <1>4, <1>7, <1>8

\* No two questions are about the same field.
LEMMA SecurityPathsApart ==
    ASSUME NEW q \in SecurityQuestions, NEW r \in SecurityQuestions, q # r
    PROVE  SecurityPaths(q) \cap SecurityPaths(r) = {}
<1>1. /\ {"configured", "running", "device_guard", "details"} \cap (Providers \cup Details) = {}
      /\ Providers \cap Details = {}
  BY SystemFactsAssumption
<1>2. \A x \in SecurityQuestions : \/ x = "device_guard" /\ SecurityPaths(x) = {"configured", "running"}
                                   \/ x = "details" /\ SecurityPaths(x) = Details
                                   \/ x \in Providers /\ SecurityPaths(x) = {x}
  BY <1>1 DEF SecurityQuestions, SecurityPaths, GuardFields
<1>3. \A x \in Providers : x \notin Details /\ x \notin {"configured", "running"}
  BY <1>1
<1>4. Details \cap {"configured", "running"} = {}
  BY <1>1
<1> QED BY <1>2, <1>3, <1>4

LEMMA SecurityPathsAll == UNION {SecurityPaths(q) : q \in SecurityQuestions} = HealthFields \cup Details
<1>1. {"device_guard", "details"} \cap Providers = {}
  BY SystemFactsAssumption
<1>2. \A x \in SecurityQuestions : \/ x = "device_guard" /\ SecurityPaths(x) = GuardFields
                                   \/ x = "details" /\ SecurityPaths(x) = Details
                                   \/ x \in Providers /\ SecurityPaths(x) = {x}
  BY <1>1 DEF SecurityQuestions, SecurityPaths
<1>3. /\ SecurityPaths("device_guard") = GuardFields /\ SecurityPaths("details") = Details
      /\ \A x \in Providers : SecurityPaths(x) = {x}
  BY <1>1 DEF SecurityPaths
<1>4. {"device_guard", "details"} \cup Providers = SecurityQuestions
  BY DEF SecurityQuestions
<1> QED BY <1>2, <1>3, <1>4 DEF HealthFields

-----------------------------------------------------------------------------
(* Its answers *)

LEMMA HealthShape ==
    ASSUME NEW p \in Providers, NEW a \in HealthAnswers(p)
    PROVE  Covers(a, {p}) /\ SecurityVoiced(a)
<1>1. CASE a = GotAll({p})
  BY <1>1, GotAllShape DEF SecurityVoiced
<1>2. CASE a = Answer([x \in {p} |-> "not_monitored"], <<>>, {"wsc_not_monitored"})
  <2>1. "not_monitored" # Null
    BY NullAssumption
  <2>2. a.values = [x \in {p} |-> "not_monitored"] /\ a.reasons = <<>> /\ a.said = {"wsc_not_monitored"}
    BY <1>2 DEF Answer
  <2> QED BY <2>1, <2>2 DEF Covers, Balanced, Nulls, SecurityVoiced
<1>3. CASE \E status \in {"not_collected", "failed"} : a = Missed({p}, status, "health")
  BY <1>3, MissedShape DEF SecurityVoiced
<1> QED BY <1>1, <1>2, <1>3 DEF HealthAnswers

LEMMA PresentShape ==
    ASSUME NEW f \in GuardFields, NEW services, NEW a, a = PresentIn(f, services)
    PROVE  Covers(a, {f}) /\ SecurityVoiced(a)
<1>1. CASE \E status : a = Missed({f}, status, "property") \/ a = Missed({f}, status, "services")
  <2>1. PICK status, code : a = Missed({f}, status, code)
    BY <1>1
  <2> QED BY <2>1, MissedShape DEF SecurityVoiced
<1>2. CASE a = Got([x \in {f} |-> 2 \in services])
  <2> DEFINE values == [x \in {f} |-> 2 \in services]
  <2>1. (2 \in services) # Null
    <3>1. (2 \in services) \in BOOLEAN
      OBVIOUS
    <3> QED BY <3>1, NullAssumption
  <2>2. \A x \in DOMAIN values : values[x] # Null
    BY <2>1
  <2>3. DOMAIN values = {f}
    OBVIOUS
  <2> HIDE DEF values
  <2>4. Covers(Got(values), {f}) /\ DOMAIN Got(values).reasons = {} /\ Got(values).said = {}
    BY <2>2, <2>3, GotShape
  <2>5. a = Got(values)
    BY <1>2 DEF values
  <2> QED BY <2>4, <2>5 DEF SecurityVoiced
<1> QED BY <1>1, <1>2 DEF PresentIn

LEMMA JoinVoiced ==
    ASSUME NEW a, NEW b, NEW c, c = Join(a, b), SecurityVoiced(a), SecurityVoiced(b)
    PROVE  SecurityVoiced(c)
<1>1. DOMAIN c.reasons = DOMAIN a.reasons \cup DOMAIN b.reasons /\ c.said = a.said \cup b.said
  BY DEF Join, Beside, Answer
<1> QED BY <1>1 DEF SecurityVoiced

LEMMA GuardShape ==
    ASSUME NEW guard, NEW a \in DeviceGuardAnswers(guard)
    PROVE  Covers(a, GuardFields) /\ SecurityVoiced(a)
<1>1. CASE a = Missed(GuardFields, "failed", "device_guard")
  BY <1>1, MissedShape DEF SecurityVoiced, GuardFields
<1>2. CASE a = Join(PresentIn("configured", guard.configured), PresentIn("running", guard.running))
  <2> DEFINE x == PresentIn("configured", guard.configured)
             y == PresentIn("running", guard.running)
  <2>1. /\ Covers(x, {"configured"}) /\ SecurityVoiced(x)
        /\ Covers(y, {"running"}) /\ SecurityVoiced(y)
    BY PresentShape DEF GuardFields
  <2>2. a = Join(x, y)
    BY <1>2
  <2> HIDE DEF x, y
  <2>3. Covers(a, {"configured"} \cup {"running"})
    BY <2>1, <2>2, JoinCovers DEF Joined
  <2>4. {"configured"} \cup {"running"} = GuardFields
    BY DEF GuardFields
  <2>5. SecurityVoiced(a)
    BY <2>1, <2>2, JoinVoiced
  <2> QED BY <2>3, <2>4, <2>5
<1> QED BY <1>1, <1>2 DEF DeviceGuardAnswers, Or

LEMMA DetailShape ==
    ASSUME NEW a \in DetailAnswers
    PROVE  Covers(a, Details) /\ SecurityVoiced(a)
<1>1. Details \cap HealthFields = {}
  BY SystemFactsAssumption DEF HealthFields, GuardFields
<1>2. CASE a = Unsaid(Details, "failed")
  BY <1>1, <1>2, UnsaidShape DEF SecurityVoiced
<1>3. CASE a \in GroupAnswers
  <2>1. PICK how \in [Details -> {"read", "invalid_value", "failed"}] :
          a = Answer([d \in Details |-> IF how[d] = "read" THEN Known ELSE Null],
                     [d \in {x \in Details : how[x] # "read"} |-> how[d]], {})
    BY <1>3 DEF GroupAnswers
  <2>2. /\ a.values = [d \in Details |-> IF how[d] = "read" THEN Known ELSE Null]
        /\ a.reasons = [d \in {x \in Details : how[x] # "read"} |-> how[d]] /\ a.said = {}
    BY <2>1 DEF Answer
  <2>3. Known # Null
    BY NullAssumption
  <2>4. Nulls(a.values) = {x \in Details : how[x] # "read"}
    BY <2>2, <2>3 DEF Nulls
  <2>5. DOMAIN a.values = Details /\ DOMAIN a.reasons = {x \in Details : how[x] # "read"}
    BY <2>2
  <2>6. Covers(a, Details)
    BY <2>4, <2>5 DEF Covers, Balanced
  <2> QED BY <1>1, <2>2, <2>5, <2>6 DEF SecurityVoiced
<1> QED BY <1>2, <1>3 DEF DetailAnswers

-----------------------------------------------------------------------------
(* From the first question to the gate *)

LEMMA SecurityInit == Init => SecurityRead
<1> SUFFICES ASSUME Init, section = "windows_security" PROVE SecurityRead
  BY DEF SecurityRead
<1> DEFINE q == SecurityQueries
<1>1. /\ stage = "collecting" /\ todo = SecurityQueries /\ answer = Got(<<>>)
  BY DEF Init, Queries
<1>2. q \in Seq(SecurityQuestions)
  BY SecurityQueriesAre
<1>3. SubSeq(q, 1, Len(q)) = q /\ 1 \in 1 .. Len(q) + 1
  BY <1>2, AllQuestionsLeft
<1>4. Covers(answer, {}) /\ SecurityVoiced(answer)
  BY <1>1 DEF Got, Answer, Covers, Balanced, Nulls, SecurityVoiced
<1>5. UNION {SecurityPaths(q[i]) : i \in 1 .. 1 - 1} = {}
  OBVIOUS
<1> HIDE DEF q
<1>6. todo = SubSeq(q, 1, Len(q)) /\ Covers(answer, UNION {SecurityPaths(q[i]) : i \in 1 .. 1 - 1})
  BY <1>1, <1>3, <1>4, <1>5 DEF q
<1>7. SecurityAsked
  BY <1>3, <1>6 DEF SecurityAsked, q
<1> QED BY <1>1, <1>4, <1>7 DEF SecurityRead

\* A question is answered about its own fields.
LEMMA SecurityAnswers ==
    ASSUME AskSecurity
    PROVE  /\ stage = "collecting" /\ stage' = stage /\ section' = section
           /\ todo # <<>> /\ todo' = Tail(todo)
           /\ \E a : /\ answer' = Join(answer, a)
                     /\ Covers(a, SecurityPaths(Head(todo))) /\ SecurityVoiced(a)
<1>0. {"device_guard", "details"} \cap Providers = {}
  BY SystemFactsAssumption
<1>1. CASE \E p \in Providers : Hear("windows_security", p, HealthAnswers(p))
  <2>1. PICK p \in Providers : Hear("windows_security", p, HealthAnswers(p))
    BY <1>1
  <2>2. PICK a \in HealthAnswers(p) : answer' = Join(answer, a)
    BY <2>1 DEF Hear
  <2>3. SecurityPaths(p) = {p} /\ Head(todo) = p
    BY <1>0, <2>1 DEF SecurityPaths, Hear, Ask
  <2>4. Covers(a, {p}) /\ SecurityVoiced(a)
    BY HealthShape
  <2> QED BY <2>1, <2>2, <2>3, <2>4 DEF Hear, Ask, later
<1>2. CASE Hear("windows_security", "device_guard", DeviceGuardAnswers(pc))
  <2>1. PICK a \in DeviceGuardAnswers(pc) : answer' = Join(answer, a)
    BY <1>2 DEF Hear
  <2>2. SecurityPaths("device_guard") = GuardFields /\ Head(todo) = "device_guard"
    BY <1>2 DEF SecurityPaths, Hear, Ask
  <2>3. Covers(a, GuardFields) /\ SecurityVoiced(a)
    BY GuardShape
  <2> QED BY <1>2, <2>1, <2>2, <2>3 DEF Hear, Ask, later
<1>3. CASE Hear("windows_security", "details", DetailAnswers)
  <2>1. PICK a \in DetailAnswers : answer' = Join(answer, a)
    BY <1>3 DEF Hear
  <2>2. SecurityPaths("details") = Details /\ Head(todo) = "details"
    BY <1>3 DEF SecurityPaths, Hear, Ask
  <2>3. Covers(a, Details) /\ SecurityVoiced(a)
    BY DetailShape
  <2> QED BY <1>3, <2>1, <2>2, <2>3 DEF Hear, Ask, later
<1> QED BY <1>1, <1>2, <1>3 DEF AskSecurity

LEMMA SecurityGoesOn ==
    ASSUME AskSecurity, SecurityAsked, SecurityVoiced(answer)
    PROVE  SecurityAsked' /\ SecurityVoiced(answer')
<1> DEFINE q == SecurityQueries
           Done(n) == UNION {SecurityPaths(q[i]) : i \in 1 .. n - 1}
<1>0. /\ q \in Seq(SecurityQuestions) /\ ToSet(q) = SecurityQuestions
      /\ \A i, j \in DOMAIN q : q[i] = q[j] => i = j
  BY SecurityQueriesAre
<1>a. DOMAIN q = 1 .. Len(q) /\ Len(q) \in Nat /\ \A i \in DOMAIN q : q[i] \in SecurityQuestions
  BY <1>0
<1> HIDE DEF q
<1>1. PICK n \in 1 .. Len(q) + 1 : todo = SubSeq(q, n, Len(q)) /\ Covers(answer, Done(n))
  BY DEF SecurityAsked, q
<1>2. PICK a : /\ answer' = Join(answer, a)
               /\ Covers(a, SecurityPaths(Head(todo))) /\ SecurityVoiced(a)
  BY SecurityAnswers
<1>3. todo # <<>> /\ todo' = Tail(todo)
  BY SecurityAnswers
<1>4. /\ n \in DOMAIN q /\ Head(todo) = q[n]
      /\ todo' = SubSeq(q, n + 1, Len(q)) /\ n + 1 \in 1 .. Len(q) + 1
  BY <1>0, <1>1, <1>3, QuestionsLeft
<1>5. Done(n) \cap SecurityPaths(q[n]) = {}
  <2>1. \A i \in 1 .. n - 1 : i \in DOMAIN q /\ i # n
    BY <1>a, <1>4
  <2>2. \A i \in 1 .. n - 1 : q[i] # q[n] /\ q[i] \in SecurityQuestions /\ q[n] \in SecurityQuestions
    BY <1>0, <1>a, <1>4, <2>1
  <2>3. \A i \in 1 .. n - 1 : SecurityPaths(q[i]) \cap SecurityPaths(q[n]) = {}
    BY <2>2, SecurityPathsApart
  <2> QED BY <2>3
<1>6. Done(n) \cup SecurityPaths(q[n]) = Done(n + 1)
  <2>1. \A i : i \in 1 .. (n + 1) - 1 <=> i \in 1 .. n - 1 \/ i = n
    BY <1>a, <1>4
  <2> QED BY <2>1
<1> HIDE DEF Done
<1>7. Covers(answer', Done(n) \cup SecurityPaths(q[n]))
  BY <1>1, <1>2, <1>4, <1>5, JoinCovers DEF Joined
<1>8. todo' = SubSeq(q, n + 1, Len(q)) /\ Covers(answer', Done(n + 1))
  BY <1>4, <1>6, <1>7
<1>9. SecurityAsked'
  BY <1>4, <1>8 DEF SecurityAsked, Done, q
<1>10. SecurityVoiced(answer')
  BY <1>2, JoinVoiced
<1> QED BY <1>9, <1>10

LEMMA SecurityReady ==
    ASSUME SecurityAsked, SecurityVoiced(answer), todo = <<>>
    PROVE  SecurityHeard
<1> DEFINE q == SecurityQueries
           Done(n) == UNION {SecurityPaths(q[i]) : i \in 1 .. n - 1}
<1>0. q \in Seq(SecurityQuestions) /\ ToSet(q) = SecurityQuestions
  BY SecurityQueriesAre
<1>1. DOMAIN q = 1 .. Len(q) /\ Len(q) \in Nat
  BY <1>0
<1> HIDE DEF q
<1>2. PICK n \in 1 .. Len(q) + 1 : todo = SubSeq(q, n, Len(q)) /\ Covers(answer, Done(n))
  BY DEF SecurityAsked, q
<1>3. n = Len(q) + 1
  BY <1>0, <1>2, QuestionsLeft
<1>4. 1 .. n - 1 = DOMAIN q
  BY <1>1, <1>3
<1>5. Done(n) = UNION {SecurityPaths(x) : x \in SecurityQuestions}
  BY <1>0, <1>4 DEF ToSet
<1>6. Covers(answer, HealthFields \cup Details)
  BY <1>2, <1>5, SecurityPathsAll
<1> QED BY <1>6 DEF SecurityHeard

LEMMA SecurityKept ==
    ASSUME [Next]_vars, DInv, SecurityRead, section = "windows_security"
    PROVE  SecurityRead'
<1>1. section' = section
  BY Steady
<1>2. CASE AskSecurity
  <2>1. stage = "collecting" /\ stage' = stage
    BY <1>2, SecurityAnswers
  <2>2. SecurityAsked' /\ SecurityVoiced(answer)'
    BY <1>2, <2>1, SecurityGoesOn DEF SecurityRead
  <2> QED BY <2>1, <2>2 DEF SecurityRead
<1>3. CASE Common
  <2>1. /\ UNCHANGED <<section, pc, changes, answer, seen>>
        /\ stage' = "collecting" => UNCHANGED <<stage, todo>>
    BY <1>3, CommonKeeps
  <2>2. Return => SecurityHeard
    BY SecurityReady DEF Return, SecurityRead
  <2>3. SecurityHeard' = SecurityHeard /\ SecurityHeard \in BOOLEAN
    BY <2>1 DEF SecurityHeard, Covers, Balanced, SecurityVoiced
  <2>4. stage' # "collecting" => Returned(SecurityHeard)'
    BY <1>3, <2>1, <2>2, <2>3, Handover DEF Returned, SecurityRead
  <2>5. stage' = "collecting" => SecurityAsked' /\ SecurityVoiced(answer)'
    BY <2>1 DEF SecurityRead, SecurityAsked
  <2> QED BY <2>4, <2>5 DEF SecurityRead
<1> QED BY <1>2, <1>3, OtherSteps

\* Whatever fails, the gate agrees with the status, which depends on the number of reasons.
LEMMA SecurityUnblamed ==
    ASSUME SecurityRead, section = "windows_security", stage # "collecting"
    PROVE  SecurityErrors(result) = {}
<1> DEFINE all == HealthFields \cup Details
           nulls == Nulls(result.values)
           r == result
<1>0. /\ IsFiniteSet(all) /\ HealthFields # {} /\ Details \cap HealthFields = {}
      /\ Cardinality(all) \in Nat \ {0}
  <2>1. IsFiniteSet({"configured", "running"})
    <3>1. IsFiniteSet({"configured"}) /\ IsFiniteSet({"running"})
      BY FS_Singleton
    <3>2. IsFiniteSet({"configured"} \cup {"running"})
      BY <3>1, FS_Union
    <3>3. {"configured"} \cup {"running"} = {"configured", "running"}
      OBVIOUS
    <3> QED BY <3>2, <3>3
  <2>2. HealthFields # {} /\ Details \cap HealthFields = {}
    BY SystemFactsAssumption DEF HealthFields, GuardFields
  <2>3. IsFiniteSet(Providers \cup {"configured", "running"})
    BY <2>1, SystemFactsAssumption, FS_Union
  <2>4. IsFiniteSet(all)
    BY <2>3, SystemFactsAssumption, FS_Union DEF HealthFields, GuardFields
  <2>5. Cardinality(all) \in Nat /\ (Cardinality(all) = 0 <=> all = {})
    BY <2>4, FS_CardinalityType, FS_EmptySet
  <2> QED BY <2>2, <2>4, <2>5
<1>1. CASE result = Lost(EmptyPaths("windows_security"))
  <2>1. FailureErrors(r) = {} /\ r.status = "failed" /\ DOMAIN r.fields = {}
        /\ DOMAIN r.values = HealthFields
    <3>1. EmptyPaths("windows_security") = HealthFields
      BY DEF EmptyPaths
    <3>2. r = Lost(HealthFields)
      BY <1>1, <3>1
    <3>3. FailureErrors(r) = {}
      BY <3>2, LostUnblamed
    <3>4. /\ Lost(HealthFields).status = "failed" /\ Lost(HealthFields).fields = <<>>
          /\ DOMAIN Lost(HealthFields).values = HealthFields
      <4> DEFINE a == Result("failed", Missed(HealthFields, "failed", "worker"))
      <4>1. a.status = "failed" /\ DOMAIN a.values = HealthFields /\ DOMAIN a = {"status", "values", "fields", "said"}
        BY DEF Result, Missed, Answer
      <4>2. Lost(HealthFields) = [a EXCEPT !.fields = <<>>]
        BY DEF Lost, Unreasoned
      <4> HIDE DEF a
      <4> QED BY <4>1, <4>2
    <3>5. DOMAIN <<>> = {}
      OBVIOUS
    <3> QED BY <3>2, <3>3, <3>4, <3>5
  <2> QED BY <1>0, <2>1 DEF SecurityErrors
<1>2. CASE SecurityHeard /\ result = SecurityResult(answer)
  <2>1. /\ Balanced(answer) /\ DOMAIN answer.values = all /\ SecurityVoiced(answer)
        /\ r.values = answer.values /\ r.fields = answer.reasons /\ r.said = answer.said
        /\ nulls = DOMAIN answer.reasons
    BY <1>2 DEF SecurityHeard, Covers, Balanced, SecurityResult, Result
  <2> DEFINE c == Cardinality(DOMAIN answer.reasons)
  <2>2. nulls \in SUBSET all
    BY <2>1 DEF Nulls
  <2>3. /\ IsFiniteSet(nulls) /\ c \in Nat /\ (c = 0 <=> nulls = {})
        /\ (c = Cardinality(all) <=> nulls = all)
    BY <1>0, <2>1, <2>2, FS_Subset, FS_CardinalityType, FS_EmptySet
  <2>4. FieldErrors(r, nulls) = {}
    BY <2>1 DEF FieldErrors
  <2>5. {d \in Details : DOMAIN r.values \cap Details # {} /\ d \notin DOMAIN r.values} = {}
    BY <2>1
  <2>9. SecurityResult(answer).status = IF c = 0 THEN "success"
                                      ELSE IF c = Cardinality(all) THEN "failed" ELSE "partial"
    <3> DEFINE s == CASE c = 0 -> "success" [] c = Cardinality(all) -> "failed" [] OTHER -> "partial"
    <3>1. SecurityResult(answer) = Result(s, answer)
      BY Zenon DEF SecurityResult
    <3>2. s = IF c = 0 THEN "success" ELSE IF c = Cardinality(all) THEN "failed" ELSE "partial"
      BY <1>0
    <3> HIDE DEF s
    <3> QED BY <3>1, <3>2 DEF Result
  <2>6. CASE c = 0
    <3>0. SecurityResult(answer).status = "success"
      BY <2>6, <2>9
    <3>1. r.status = "success" /\ nulls = {} /\ DOMAIN r.fields = {}
      BY <1>2, <2>1, <2>3, <2>6, <3>0
    <3>2. SuccessErrors(r, {"wsc_not_monitored"}) = {}
      BY <2>1, <3>1 DEF SuccessErrors, SecurityVoiced
    <3> QED BY <2>5, <3>1, <3>2 DEF SecurityErrors
  <2>7. CASE c # 0 /\ c = Cardinality(all)
    <3>1. r.status = "failed" /\ nulls = all
      BY <1>2, <2>1, <2>3, <2>7 DEF SecurityResult, Result
    <3>2. r.said # {}
      BY <1>0, <2>1, <3>1 DEF SecurityVoiced
    <3>3. FailureErrors(r) = {}
      BY <2>1, <3>1, <3>2 DEF FailureErrors
    <3> QED BY <2>4, <2>5, <3>1, <3>3 DEF SecurityErrors
  <2>8. CASE c # 0 /\ c # Cardinality(all)
    <3>1. r.status = "partial"
      BY <1>2, <2>1, <2>3, <2>8 DEF SecurityResult, Result
    <3>2. {Cardinality(nulls)} \cap {0, Cardinality(DOMAIN r.values)} = {}
      BY <2>1, <2>8
    <3> QED BY <2>4, <2>5, <3>1, <3>2 DEF SecurityErrors
  <2> QED BY <2>6, <2>7, <2>8
<1> QED BY <1>1, <1>2 DEF SecurityRead, Returned, Judge

-----------------------------------------------------------------------------
(* The update history *)

\* The pages, or nothing of them.
UpdatesHeard == answer = UpdateFailure \/ \E p \in Pages : answer = UpdateAnswer(p)

UpdatesRead ==
    section = "windows_updates" =>
        /\ stage = "collecting" /\ todo = <<>> => UpdatesHeard
        /\ stage # "collecting" => Returned(UpdatesHeard)

LEMMA UpdatesInit == Init => UpdatesRead
<1> SUFFICES ASSUME Init, section = "windows_updates" PROVE UpdatesRead
  BY DEF UpdatesRead
<1>1. stage = "collecting" /\ todo = <<"count", "pages">>
  BY DEF Init, Queries, UpdateQueries
<1>2. todo # <<>>
  BY <1>1
<1> QED BY <1>1, <1>2 DEF UpdatesRead

LEMMA UpdatesAnswered ==
    ASSUME HInv, section = "windows_updates", AskUpdates, todo' = <<>>
    PROVE  UpdatesHeard'
<1>1. stage = "collecting" /\ AskedOK
  BY DEF HInv, AskUpdates, Hear, See, Ask
<1>2. CASE See("windows_updates", "count", "pages", FirstPage(pc.history))
  <2>1. todo = <<"count", "pages">> \/ todo = <<"pages">>
    BY <1>1, <1>2 DEF AskedOK, See, Ask
  <2>2. todo' = Tail(todo) /\ Head(todo) = "count"
    BY <1>2 DEF See, Ask
  <2>3. todo = <<"count", "pages">>
    BY <2>1, <2>2
  <2>4. todo' # <<>>
    BY <2>2, <2>3
  <2> QED BY <2>4
<1>3. CASE todo = <<"pages">> /\ todo' = todo
  <2>1. todo # <<>>
    BY <1>3
  <2> QED BY <1>3, <2>1
<1>4. CASE todo = <<"pages">> /\ Hear("windows_updates", "pages", {UpdateAnswer(seen.pages)})
  <2>1. todo # <<"count", "pages">> /\ todo # <<>>
    BY <1>4
  <2>2. answer = Got(<<>>) /\ PagesOK(seen.pages)
    BY <1>1, <2>1 DEF AskedOK
  <2> DEFINE p == seen.pages
             f == [history |-> p.items]
             said == {m \in {"truncated_by_date"} : p.by_date} \cup
                     {m \in {"truncated_by_count"} : p.by_count}
  <2>3. UpdateAnswer(p) = Answer(f, <<>>, said) /\ answer' = Join(answer, UpdateAnswer(p))
    BY <1>4 DEF UpdateAnswer, Hear
  <2>4. f = [x \in DOMAIN f |-> f[x]] /\ <<>> = [x \in DOMAIN <<>> |-> <<>>[x]]
    OBVIOUS
  <2> HIDE DEF f, said
  <2>5. Join(Got(<<>>), Answer(f, <<>>, said)) = Answer(f, <<>>, said)
    BY <2>4, JoinNothing
  <2>6. answer' = UpdateAnswer(p)
    BY <2>2, <2>3, <2>5
  <2>7. p \in Pages
    BY <2>2 DEF PagesOK
  <2> QED BY <2>6, <2>7 DEF UpdatesHeard
<1> QED BY <1>2, <1>3, <1>4 DEF AskUpdates

LEMMA UpdatesKept ==
    ASSUME [Next]_vars, DInv, HInv, UpdatesRead, section = "windows_updates"
    PROVE  UpdatesRead'
<1>1. section' = section
  BY Steady
<1>2. CASE AskUpdates
  <2>1. stage = "collecting" /\ stage' = stage
    BY <1>2 DEF AskUpdates, Hear, See, Ask, later
  <2> QED BY <1>2, <2>1, UpdatesAnswered DEF UpdatesRead
<1>3. CASE InstallUpdate \/ ClearHistory
  <2>1. todo # <<>> /\ todo' = todo /\ stage = "collecting" /\ stage' = stage
    BY <1>3 DEF InstallUpdate, ClearHistory, Changing, later
  <2> QED BY <2>1 DEF UpdatesRead
<1>4. CASE GiveUp
  <2>1. answer' = UpdateFailure /\ stage = "collecting" /\ stage' = stage
    BY <1>4 DEF GiveUp, Failure, later
  <2> QED BY <2>1 DEF UpdatesRead, UpdatesHeard
<1>5. CASE Common
  <2>1. /\ UNCHANGED <<section, pc, changes, answer, seen>>
        /\ stage' = "collecting" => UNCHANGED <<stage, todo>>
    BY <1>5, CommonKeeps
  <2>2. Return => UpdatesHeard
    BY DEF Return, UpdatesRead
  <2>3. UpdatesHeard' = UpdatesHeard /\ UpdatesHeard \in BOOLEAN
    BY <2>1 DEF UpdatesHeard
  <2>4. stage' # "collecting" => Returned(UpdatesHeard)'
    BY <1>5, <2>1, <2>2, <2>3, Handover DEF Returned, UpdatesRead
  <2>5. stage' = "collecting" /\ todo' = <<>> => UpdatesHeard'
    BY <2>1, <2>3 DEF UpdatesRead
  <2> QED BY <2>4, <2>5 DEF UpdatesRead
<1> QED BY <1>2, <1>3, <1>4, <1>5, OtherSteps

\* The gate allows what the limits of the user leave out, and a history that failed.
LEMMA UpdatesUnblamed ==
    ASSUME UpdatesRead, section = "windows_updates", stage # "collecting"
    PROVE  UpdateErrors(result) = {}
<1> DEFINE r == result
<1>1. CASE result = Lost(EmptyPaths("windows_updates"))
  <2>1. EmptyPaths("windows_updates") = {"history"}
    BY DEF EmptyPaths
  <2>2. r = Lost({"history"})
    BY <1>1, <2>1
  <2>3. FailureErrors(r) = {}
    BY <2>2, LostUnblamed
  <2>4. r.status = "failed" /\ r.fields = <<>>
    <3> DEFINE a == Result("failed", Missed({"history"}, "failed", "worker"))
    <3>1. a.status = "failed" /\ DOMAIN a = {"status", "values", "fields", "said"}
      BY DEF Result, Missed, Answer
    <3>2. r = [a EXCEPT !.fields = <<>>]
      BY <2>2 DEF Lost, Unreasoned
    <3> HIDE DEF a
    <3> QED BY <3>1, <3>2
  <2>5. DOMAIN <<>> = {}
    OBVIOUS
  <2> QED BY <2>3, <2>4, <2>5 DEF UpdateErrors
<1>2. CASE answer = UpdateFailure /\ result = UpdateResult(answer)
  <2>1. /\ DOMAIN answer.reasons = {"history"} /\ answer.said # {}
        /\ DOMAIN answer.values = {"history"} /\ answer.values["history"] = Null
    BY <1>2 DEF UpdateFailure, Missed, Answer
  <2>2. /\ r.status = "failed" /\ r.fields = answer.reasons /\ r.values = answer.values
        /\ r.said = answer.said
    BY <1>2, <2>1 DEF UpdateResult, Result
  <2>3. FailureErrors(r) = {}
    BY <2>1, <2>2 DEF FailureErrors, Nulls
  <2> QED BY <2>1, <2>2, <2>3 DEF UpdateErrors
<1>3. ASSUME NEW p \in Pages, answer = UpdateAnswer(p), result = UpdateResult(answer)
      PROVE  UpdateErrors(result) = {}
  <2>1. /\ DOMAIN answer.values = {"history"} /\ answer.values["history"] = p.items
        /\ DOMAIN answer.reasons = {}
        /\ answer.said \subseteq {"truncated_by_date", "truncated_by_count"}
    BY <1>3 DEF UpdateAnswer, Answer
  <2>2. /\ r.status = "success" /\ r.fields = answer.reasons /\ r.values = answer.values
        /\ r.said = answer.said
    BY <1>3, <2>1 DEF UpdateResult, Result
  <2>3. p.items # Null
    BY ListsAssumption DEF Pages
  <2>4. Nulls(r.values) = {}
    BY <2>1, <2>2, <2>3 DEF Nulls
  <2>5. SuccessErrors(r, {"truncated_by_date", "truncated_by_count"}) = {}
    BY <2>1, <2>2 DEF SuccessErrors
  <2> QED BY <2>1, <2>2, <2>4, <2>5 DEF UpdateErrors
<1> QED BY <1>1, <1>2, <1>3 DEF UpdatesRead, Returned, Judge, UpdatesHeard

-----------------------------------------------------------------------------
(* The runtime environment: a list of questions, one for each category *)

Quality == {"good", "bad"}
ItemLists == [items : Seq(Quality), truncated : BOOLEAN]

\* A list that was not cut short is whole.
Whole(list, items) == list.truncated = FALSE => list.items = items

\* These categories have been listed, each null has a reason, and a list without a reason
\* has what the PC has.
RuntimeSays(a, categories) ==
    /\ DOMAIN a.values = {<<0, c>> : c \in categories}
    /\ Nulls(a.values) \subseteq DOMAIN a.reasons
    /\ \A c \in categories :
         /\ a.values[<<0, c>>] \in {Null} \cup ItemLists
         /\ DOMAIN a.reasons = {} /\ c # "installed_applications" =>
               Whole(a.values[<<0, c>>], pc[c])
    /\ <<0, "runtime_environment">> \notin DOMAIN a.reasons

RuntimeAsked ==
    \E n \in 1 .. Len(SetToSeq(Categories)) + 1 :
        /\ todo = SubSeq(SetToSeq(Categories), n, Len(SetToSeq(Categories)))
        /\ RuntimeSays(answer, {SetToSeq(Categories)[i] : i \in 1 .. n - 1})

RuntimeHeard == answer = RuntimeFailure \/ RuntimeSays(answer, Categories)

RuntimeRead ==
    section = "runtime_environment" =>
        /\ pc \in [Categories -> Items]
        /\ stage = "collecting" /\ todo # <<>> => RuntimeAsked
        /\ stage = "collecting" /\ todo = <<>> => RuntimeHeard
        /\ stage # "collecting" => Returned(RuntimeHeard)

LEMMA CategoryQueriesAre ==
    ASSUME NEW q, q = SetToSeq(Categories)
    PROVE  /\ q \in Seq(Categories) /\ ToSet(q) = Categories
           /\ \A i, j \in DOMAIN q : q[i] = q[j] => i = j
  BY SetToSeqIs, SectionsAssumption

\* All places of a list are the list.
LEMMA AllEntries ==
    ASSUME NEW S, NEW list \in Seq(S)
    PROVE  EntriesAt(list, DOMAIN list) = list
<1> DEFINE n == Len(list)
           D == 1 .. n
<1>0. n \in Nat /\ DOMAIN list = D
  OBVIOUS
<1> HIDE DEF n
<1>1. IsFiniteSet(D) /\ Cardinality(D) = n
  BY <1>0, FS_Interval
<1>2. ASSUME NEW i \in D PROVE Cardinality({j \in D : j <= i}) = i
  <2>1. {j \in D : j <= i} = 1 .. i /\ i \in Nat
    BY <1>0
  <2>2. Cardinality(1 .. i) = i
    BY <2>1, FS_Interval
  <2> QED BY <2>1, <2>2
<1>3. ASSUME NEW k \in D PROVE Nth(D, k) = k
  <2>1. Cardinality({j \in D : j <= k}) = k
    BY <1>2
  <2>2. \A i \in D : Cardinality({j \in D : j <= i}) = k => i = k
    BY <1>2
  <2>3. Nth(D, k) \in D /\ Cardinality({j \in D : j <= Nth(D, k)}) = k
    BY <2>1 DEF Nth
  <2> QED BY <2>2, <2>3
<1>4. EntriesAt(list, D) = [k \in D |-> list[Nth(D, k)]]
  BY <1>1 DEF EntriesAt
<1>5. EntriesAt(list, D) = [k \in D |-> list[k]]
  BY <1>3, <1>4
<1>6. list = [k \in D |-> list[k]]
  BY <1>0
<1> QED BY <1>0, <1>5, <1>6

\* Of a category that was listed, nothing is dropped without a reason.
LEMMA ListedIs ==
    ASSUME NEW c, NEW items \in Seq(Quality), NEW a, a = Listed(c, items)
    PROVE  /\ DOMAIN a.values = {<<0, c>>} /\ a.values[<<0, c>>] \in ItemLists
           /\ DOMAIN a.reasons = {} => Whole(a.values[<<0, c>>], items)
           /\ \A p \in DOMAIN a.reasons : p[2] = c
<1> DEFINE listed == FirstOf(Limit, items)
           bad == {i \in DOMAIN listed : listed[i] = "bad"}
           value == [items |-> EntriesAt(listed, DOMAIN listed \ bad), truncated |-> Len(items) > Limit]
<1>0. Limit \in Nat /\ Len(items) \in Nat
  BY HistoriesAssumption
<1>1. a = Answer([p \in {<<0, c>>} |-> value], [p \in {<<i, c>> : i \in bad} |-> "invalid_value"],
                 {m \in {"item"} : bad # {}})
  BY Zenon DEF Listed
<1>2. listed \in Seq(Quality) /\ (~(Len(items) > Limit) => listed = items)
  <2>1. listed \in Seq(Quality)
    BY <1>0, FirstFew
  <2>2. ~(Len(items) > Limit) => listed = SubSeq(items, 1, Len(items))
    BY <1>0 DEF FirstOf
  <2>3. SubSeq(items, 1, Len(items)) = items
    OBVIOUS
  <2> QED BY <2>1, <2>2, <2>3
<1> HIDE DEF listed
<1>3. value.items \in Seq(Quality) /\ (bad = {} => value.items = listed)
  <2> DEFINE D == DOMAIN listed \ bad
  <2>1. D \in SUBSET DOMAIN listed
    OBVIOUS
  <2>2. bad = {} => D = DOMAIN listed
    OBVIOUS
  <2>3. value.items = EntriesAt(listed, D)
    OBVIOUS
  <2> HIDE DEF value, D, bad
  <2>4. value.items \in Seq(Quality)
    BY <1>2, <2>1, <2>3, EntriesAtIs
  <2>5. EntriesAt(listed, DOMAIN listed) = listed
    BY <1>2, AllEntries
  <2> QED BY <2>2, <2>3, <2>4, <2>5
<1>4. value.truncated = (Len(items) > Limit) /\ value = [items |-> value.items, truncated |-> Len(items) > Limit]
  OBVIOUS
<1>5. value \in ItemLists
  <2> HIDE DEF value
  <2>1. (Len(items) > Limit) \in BOOLEAN
    OBVIOUS
  <2> QED BY <1>3, <1>4, <2>1 DEF ItemLists
<1>6. bad = {} => Whole(value, items)
  <2> HIDE DEF value, bad
  <2> QED BY <1>2, <1>3, <1>4 DEF Whole
<1> HIDE DEF value
<1>7. DOMAIN a.values = {<<0, c>>} /\ a.values[<<0, c>>] = value /\ DOMAIN a.reasons = {<<i, c>> : i \in bad}
  BY <1>1 DEF Answer
<1>8. {<<i, c>> : i \in bad} = {} => bad = {}
  OBVIOUS
<1> HIDE DEF bad
<1> QED BY <1>5, <1>6, <1>7, <1>8

LEMMA CategoryShape ==
    ASSUME NEW c \in Categories, NEW a \in CategoryAnswers(c, pc[c]), pc \in [Categories -> Items]
    PROVE  RuntimeSays(a, {c})
<1>0. pc[c] \in Seq(Quality) /\ "runtime_environment" # c /\ \A p : p = <<0, "runtime_environment">> => p[2] # c
  BY SectionsAssumption DEF Quality
<1>n. Null \notin ItemLists
  BY ListsAssumption DEF ItemLists, Quality
<1>s. {<<0, x>> : x \in {c}} = {<<0, c>>}
  OBVIOUS
<1>1. CASE a = Missed({<<0, c>>}, "failed", "category")
  <2>1. /\ a.values = [p \in {<<0, c>>} |-> Null] /\ DOMAIN a.reasons = {<<0, c>>}
    BY <1>1 DEF Missed, Answer
  <2> QED BY <1>0, <1>s, <2>1 DEF RuntimeSays, Nulls
<1>2. CASE a = Listed(c, pc[c])
  <2>1. /\ DOMAIN a.values = {<<0, c>>} /\ a.values[<<0, c>>] \in ItemLists
        /\ DOMAIN a.reasons = {} => Whole(a.values[<<0, c>>], pc[c])
        /\ \A p \in DOMAIN a.reasons : p[2] = c
    BY <1>0, <1>2, ListedIs
  <2>2. Nulls(a.values) = {}
    BY <1>n, <2>1 DEF Nulls
  <2>3. <<0, "runtime_environment">> \notin DOMAIN a.reasons
    BY <1>0, <2>1
  <2> QED BY <1>s, <2>1, <2>2, <2>3 DEF RuntimeSays
<1>3. CASE c = "installed_applications" /\ a \in ApplicationAnswers(c, pc[c])
  <2> DEFINE read == {Listed(c, FirstOf(m, pc[c])) : m \in 0 .. Len(pc[c])}
             With(b) == [b EXCEPT !.reasons = Beside(@, [p \in {<<0, c>>} |-> "failed"]),
                                  !.said = @ \cup {"appx"}]
  <2>c. a \in read \cup {With(b) : b \in read}
    BY <1>3, Zenon DEF ApplicationAnswers
  <2>d. PICK b0 \in read : a = b0 \/ a = With(b0)
    BY <2>c
  <2>1. PICK n \in 0 .. Len(pc[c]) : b0 = Listed(c, FirstOf(n, pc[c]))
    BY <2>d
  <2> DEFINE few == FirstOf(n, pc[c])
             b == Listed(c, few)
  <2>2. n \in Nat
    BY <1>0
  <2>3. few \in Seq(Quality)
    BY <1>0, <2>2, FirstFew
  <2>a. a = b \/ a = With(b)
    BY <2>1, <2>d
  <2>b. b = Listed(c, few) /\ DOMAIN b = {"values", "reasons", "said"}
    BY DEF Listed, Answer
  <2> HIDE DEF few, b, read, With
  <2>4. /\ DOMAIN b.values = {<<0, c>>} /\ b.values[<<0, c>>] \in ItemLists
        /\ \A p \in DOMAIN b.reasons : p[2] = c
    BY <2>3, <2>b, ListedIs
  <2>5. a.values = b.values /\ DOMAIN a.reasons \subseteq DOMAIN b.reasons \cup {<<0, c>>}
    <3>1. CASE a = b
      BY <3>1
    <3>2. CASE a = With(b)
      <4> DEFINE g == [p \in {<<0, c>>} |-> "failed"]
      <4>1. a = [b EXCEPT !.reasons = Beside(b.reasons, g), !.said = b.said \cup {"appx"}]
        BY <3>2, Zenon DEF With
      <4>2. DOMAIN Beside(b.reasons, g) = DOMAIN b.reasons \cup DOMAIN g
        BY DEF Beside
      <4>3. DOMAIN g = {<<0, c>>}
        OBVIOUS
      <4> HIDE DEF g
      <4>4. a.values = b.values /\ a.reasons = Beside(b.reasons, g)
        BY <2>b, <4>1
      <4> QED BY <4>2, <4>3, <4>4
    <3> QED BY <2>a, <3>1, <3>2
  <2>6. Nulls(a.values) = {}
    BY <1>n, <2>4, <2>5 DEF Nulls
  <2>7. <<0, "runtime_environment">> \notin DOMAIN a.reasons
    BY <1>0, <2>4, <2>5
  <2> QED BY <1>3, <1>s, <2>4, <2>5, <2>6, <2>7 DEF RuntimeSays
<1> QED BY <1>1, <1>2, <1>3 DEF CategoryAnswers

LEMMA RuntimeJoin ==
    ASSUME NEW A, NEW c, c \notin A, NEW a, NEW b, RuntimeSays(a, A), RuntimeSays(b, {c}),
           NEW d, d = Join(a, b)
    PROVE  RuntimeSays(d, A \cup {c})
<1> DEFINE P == {<<0, x>> : x \in A}
<1>1. d.values = Beside(a.values, b.values) /\ d.reasons = Beside(a.reasons, b.reasons)
  BY DEF Join, Answer
<1>2. /\ DOMAIN a.values = P /\ DOMAIN b.values = {<<0, c>>} /\ <<0, c>> \notin P
      /\ {<<0, x>> : x \in A \cup {c}} = P \cup {<<0, c>>}
  BY DEF RuntimeSays
<1>3. DOMAIN d.reasons = DOMAIN a.reasons \cup DOMAIN b.reasons
  BY <1>1 DEF Beside
<1> HIDE DEF P
<1>4. /\ DOMAIN d.values = P \cup {<<0, c>>}
      /\ \A p \in P : d.values[p] = a.values[p]
      /\ d.values[<<0, c>>] = b.values[<<0, c>>]
  BY <1>1, <1>2 DEF Beside
<1>5. Nulls(d.values) \subseteq Nulls(a.values) \cup Nulls(b.values)
  BY <1>2, <1>4 DEF Nulls
<1>6. ASSUME NEW x \in A \cup {c}
      PROVE  /\ d.values[<<0, x>>] \in {Null} \cup ItemLists
             /\ DOMAIN d.reasons = {} /\ x # "installed_applications" =>
                   Whole(d.values[<<0, x>>], pc[x])
  <2>1. CASE x \in A
    <3>1. d.values[<<0, x>>] = a.values[<<0, x>>]
      BY <1>4, <2>1 DEF P
    <3> QED BY <1>3, <2>1, <3>1 DEF RuntimeSays
  <2>2. CASE x = c
    <3>1. x \in {c}
      BY <2>2
    <3> QED BY <1>3, <1>4, <2>2, <3>1 DEF RuntimeSays
  <2> QED BY <2>1, <2>2
<1>7. Nulls(d.values) \subseteq DOMAIN d.reasons /\ <<0, "runtime_environment">> \notin DOMAIN d.reasons
  BY <1>3, <1>5 DEF RuntimeSays
<1> QED BY <1>2, <1>4, <1>6, <1>7 DEF RuntimeSays

LEMMA RuntimeInit == Init => RuntimeRead
<1> SUFFICES ASSUME Init, section = "runtime_environment" PROVE RuntimeRead
  BY DEF RuntimeRead
<1> DEFINE q == SetToSeq(Categories)
<1>1. stage = "collecting" /\ todo = q /\ answer = Got(<<>>) /\ pc \in [Categories -> Items]
  BY DEF Init, Queries, Pcs
<1>2. q \in Seq(Categories) /\ ToSet(q) = Categories
  BY CategoryQueriesAre
<1>3. SubSeq(q, 1, Len(q)) = q /\ 1 \in 1 .. Len(q) + 1
  BY <1>2, AllQuestionsLeft
<1>4. DOMAIN <<>> = {}
  OBVIOUS
<1>5. RuntimeSays(answer, {})
  BY <1>1, <1>4 DEF Got, Answer, RuntimeSays, Nulls
<1>6. {q[i] : i \in 1 .. 1 - 1} = {}
  OBVIOUS
<1> HIDE DEF q
<1>7. RuntimeAsked
  BY <1>1, <1>3, <1>5, <1>6 DEF RuntimeAsked, q
<1>8. todo = <<>> => RuntimeHeard
  <2>1. q = <<>> => Categories = {}
    BY <1>2, <1>4 DEF ToSet
  <2> QED BY <1>1, <1>5, <2>1 DEF RuntimeHeard
<1> QED BY <1>1, <1>7, <1>8 DEF RuntimeRead

LEMMA RuntimeGoesOn ==
    ASSUME AskRuntime, RuntimeAsked, pc \in [Categories -> Items]
    PROVE  RuntimeAsked' /\ (todo' = <<>> => RuntimeHeard')
<1> DEFINE q == SetToSeq(Categories)
           Done(n) == {q[i] : i \in 1 .. n - 1}
<1>0. /\ q \in Seq(Categories) /\ ToSet(q) = Categories
      /\ \A i, j \in DOMAIN q : q[i] = q[j] => i = j
  BY CategoryQueriesAre
<1>a. DOMAIN q = 1 .. Len(q) /\ Len(q) \in Nat /\ \A i \in DOMAIN q : q[i] \in Categories
  BY <1>0
<1> HIDE DEF q
<1>1. PICK n \in 1 .. Len(q) + 1 : todo = SubSeq(q, n, Len(q)) /\ RuntimeSays(answer, Done(n))
  BY DEF RuntimeAsked, q
<1>2. PICK c \in Categories : Hear("runtime_environment", c, CategoryAnswers(c, pc[c]))
  BY DEF AskRuntime
<1>3. PICK a \in CategoryAnswers(c, pc[c]) : answer' = Join(answer, a)
  BY <1>2 DEF Hear
<1>4. todo # <<>> /\ todo' = Tail(todo) /\ Head(todo) = c /\ pc' = pc
  BY <1>2 DEF Hear, Ask
<1>5. /\ n \in DOMAIN q /\ Head(todo) = q[n]
      /\ todo' = SubSeq(q, n + 1, Len(q)) /\ n + 1 \in 1 .. Len(q) + 1
  BY <1>0, <1>1, <1>4, QuestionsLeft
<1>6. RuntimeSays(a, {c})
  BY CategoryShape
<1>7. c \notin Done(n)
  <2>1. \A i \in 1 .. n - 1 : i \in DOMAIN q /\ i # n
    BY <1>a, <1>5
  <2> QED BY <1>0, <1>4, <1>5, <2>1
<1>8. Done(n) \cup {c} = Done(n + 1)
  <2>1. \A i : i \in 1 .. (n + 1) - 1 <=> i \in 1 .. n - 1 \/ i = n
    BY <1>a, <1>5
  <2> QED BY <1>4, <1>5, <2>1
<1> HIDE DEF Done
<1>9. RuntimeSays(answer', Done(n + 1))
  BY <1>1, <1>3, <1>6, <1>7, <1>8, RuntimeJoin
<1>10. RuntimeSays(answer, Done(n + 1))'
  BY <1>4, <1>9 DEF RuntimeSays, Done, q, Nulls, Whole
<1>11. RuntimeAsked'
  BY <1>5, <1>10 DEF RuntimeAsked, Done, q
<1>12. ASSUME todo' = <<>> PROVE RuntimeHeard'
  <2>1. n + 1 = Len(q) + 1
    BY <1>0, <1>5, <1>12, QuestionsLeft
  <2>2. Done(n + 1) = Categories
    BY <1>0, <1>a, <2>1 DEF ToSet, Done
  <2> QED BY <1>4, <1>9, <2>2 DEF RuntimeHeard, RuntimeSays, Nulls, Whole
<1> QED BY <1>11, <1>12

LEMMA RuntimeKept ==
    ASSUME [Next]_vars, DInv, RuntimeRead, section = "runtime_environment"
    PROVE  RuntimeRead'
<1>0. section' = section
  BY Steady
<1>1. CASE AskRuntime
  <2>1. stage = "collecting" /\ stage' = stage /\ todo # <<>> /\ pc' = pc
    BY <1>1 DEF AskRuntime, Hear, Ask, later
  <2>2. RuntimeAsked /\ pc \in [Categories -> Items]
    BY <2>1 DEF RuntimeRead
  <2>3. RuntimeAsked' /\ (todo' = <<>> => RuntimeHeard')
    BY <1>1, <2>2, RuntimeGoesOn
  <2> QED BY <2>1, <2>2, <2>3 DEF RuntimeRead
<1>2. CASE GiveUp
  <2>1. answer' = RuntimeFailure /\ todo' = <<>> /\ stage = "collecting" /\ stage' = stage /\ pc' = pc
    BY <1>2 DEF GiveUp, Failure, later
  <2> QED BY <2>1 DEF RuntimeRead, RuntimeHeard
<1>3. CASE Common
  <2>1. /\ UNCHANGED <<section, pc, changes, answer, seen>>
        /\ stage' = "collecting" => UNCHANGED <<stage, todo>>
    BY <1>3, CommonKeeps
  <2>2. Return => RuntimeHeard
    BY DEF Return, RuntimeRead
  <2>3. RuntimeHeard' = RuntimeHeard /\ RuntimeHeard \in BOOLEAN
    BY <2>1 DEF RuntimeHeard, RuntimeSays, Nulls, Whole
  <2>4. stage' # "collecting" => Returned(RuntimeHeard)'
    BY <1>3, <2>1, <2>2, <2>3, Handover DEF Returned, RuntimeRead
  <2>5. stage' = "collecting" => /\ todo' # <<>> => RuntimeAsked'
                                 /\ todo' = <<>> => RuntimeHeard'
    BY <2>1, <2>3 DEF RuntimeRead, RuntimeAsked, RuntimeSays, Nulls, Whole
  <2> QED BY <2>1, <2>4, <2>5 DEF RuntimeRead
<1> QED BY <1>1, <1>2, <1>3, OtherSteps

LEMMA LostFails == \A P : Lost(P).status = "failed"
<1> SUFFICES ASSUME NEW P PROVE Lost(P).status = "failed"
  OBVIOUS
<1> DEFINE a == Result("failed", Missed(P, "failed", "worker"))
<1>1. a.status = "failed" /\ DOMAIN a = {"status", "values", "fields", "said"}
  BY DEF Result
<1>2. Lost(P) = [a EXCEPT !.fields = <<>>]
  BY DEF Lost, Unreasoned
<1> HIDE DEF a
<1> QED BY <1>1, <1>2

\* A success has every category, whole.
LEMMA RuntimeComplete ==
    ASSUME RuntimeRead, section = "runtime_environment", stage # "collecting",
           result.status = "success"
    PROVE  /\ Nulls(result.values) = {}
           /\ \A c \in Categories \ {"installed_applications"} :
                 result.values[<<0, c>>].items = pc[c]
<1>1. result # Lost(EmptyPaths(section))
  BY LostFails
<1>2. RuntimeHeard /\ result = RuntimeResult(answer)
  BY <1>1 DEF RuntimeRead, Returned, Judge
<1>3. /\ <<0, "runtime_environment">> \notin DOMAIN answer.reasons /\ DOMAIN answer.reasons = {}
      /\ ~Truncated(answer) /\ result.values = answer.values
  BY <1>2, Zenon DEF RuntimeResult, Result
<1>4. answer # RuntimeFailure
  BY <1>3 DEF RuntimeFailure, Answer
<1>5. RuntimeSays(answer, Categories)
  BY <1>2, <1>4 DEF RuntimeHeard
<1>6. Nulls(answer.values) = {}
  BY <1>3, <1>5 DEF RuntimeSays
<1>7. ASSUME NEW c \in Categories \ {"installed_applications"}
      PROVE  answer.values[<<0, c>>].items = pc[c]
  <2> DEFINE v == answer.values[<<0, c>>]
  <2>1. <<0, c>> \in DOMAIN answer.values
    BY <1>5 DEF RuntimeSays
  <2>2. v # Null /\ v \in ItemLists
    BY <1>5, <1>6, <2>1 DEF RuntimeSays, Nulls
  <2>3. v.truncated \in BOOLEAN /\ ~v.truncated
    BY <1>3, <1>6, <2>1, <2>2 DEF Truncated, ItemLists
  <2>4. Whole(v, pc[c])
    BY <1>3, <1>5 DEF RuntimeSays
  <2> QED BY <2>3, <2>4 DEF Whole
<1> QED BY <1>3, <1>6, <1>7

-----------------------------------------------------------------------------
(* Sums of a field, as numbers of pairs *)

\* As many pairs of i and a number as n says of i.
NumberPairs(I, n) == UNION {{i} \X (1 .. n[i]) : i \in I}

LEMMA PairsAre ==
    ASSUME NEW I, NEW n \in [I -> Nat]
    PROVE  \A p : p \in NumberPairs(I, n) <=> \E i \in I : \E k \in 1 .. n[i] : p = <<i, k>>
BY DEF NumberPairs

LEMMA PairsFinite ==
    ASSUME NEW I, IsFiniteSet(I), NEW n \in [I -> Nat]
    PROVE  IsFiniteSet(NumberPairs(I, n))
<1> DEFINE row(i) == {i} \X (1 .. n[i])
           rows == {row(i) : i \in I}
           f == [i \in I |-> row(i)]
<1>1. ASSUME NEW i \in I PROVE IsFiniteSet(row(i))
  <2>1. IsFiniteSet({i})
    BY FS_Singleton
  <2>2. IsFiniteSet(1 .. n[i])
    BY FS_Interval
  <2> QED BY <2>1, <2>2, FS_Product
<1> HIDE DEF row
<1>2. f \in Surjection(I, rows)
  BY DEF Surjection
<1> HIDE DEF f
<1>3. IsFiniteSet(rows)
  BY <1>2, FS_Surjection
<1>4. \A r \in rows : IsFiniteSet(r)
  BY <1>1
<1> HIDE DEF rows
<1>5. IsFiniteSet(UNION rows)
  BY <1>3, <1>4, FS_UNION
<1> QED BY <1>5 DEF rows, row, NumberPairs

LEMMA PairsAtLeast ==
    ASSUME NEW I, IsFiniteSet(I), NEW n \in [I -> Nat \ {0}]
    PROVE  Cardinality(I) <= Cardinality(NumberPairs(I, n))
<1> DEFINE f == [i \in I |-> <<i, 1>>]
           P == NumberPairs(I, n)
<1>0. n \in [I -> Nat]
  OBVIOUS
<1>1. \A i \in I : f[i] \in P
  BY <1>0, PairsAre
<1>2. IsFiniteSet(P)
  BY <1>0, PairsFinite
<1> HIDE DEF P
<1>3. f \in Injection(I, P)
  BY <1>1 DEF Injection, IsInjective
<1> HIDE DEF f
<1> QED BY <1>2, <1>3, FS_Injection DEF P

LEMMA PairsMonotone ==
    ASSUME NEW I, IsFiniteSet(I), NEW n \in [I -> Nat], NEW m \in [I -> Nat],
           \A i \in I : n[i] <= m[i]
    PROVE  Cardinality(NumberPairs(I, n)) <= Cardinality(NumberPairs(I, m))
<1>1. NumberPairs(I, n) \subseteq NumberPairs(I, m)
  <2> SUFFICES ASSUME NEW p \in NumberPairs(I, n) PROVE p \in NumberPairs(I, m)
    OBVIOUS
  <2>1. PICK i \in I, k \in Nat : k \in 1 .. n[i] /\ p = <<i, k>>
    BY PairsAre
  <2>2. k \in 1 .. m[i]
    <3>1. n[i] \in Nat /\ m[i] \in Nat /\ n[i] <= m[i]
      OBVIOUS
    <3> QED BY <2>1, <3>1
  <2> QED BY <2>1, <2>2, PairsAre
<1>2. IsFiniteSet(NumberPairs(I, m))
  BY PairsFinite
<1> QED BY <1>1, <1>2, FS_Subset

\* The sum of the sizes of disjoint sets is the size of their union.
LEMMA PairsOfParts ==
    ASSUME NEW I, IsFiniteSet(I), NEW A, \A i \in I : IsFiniteSet(A[i]),
           \A i, j \in I : i # j => A[i] \cap A[j] = {},
           NEW n, n = [i \in I |-> Cardinality(A[i])]
    PROVE  Cardinality(NumberPairs(I, n)) = Cardinality(UNION {A[i] : i \in I})
<1> DEFINE b == [i \in I |-> CHOOSE f : f \in Bijection(1 .. n[i], A[i])]
           P == NumberPairs(I, n)
           U == UNION {A[i] : i \in I}
           g == [p \in P |-> b[p[1]][p[2]]]
<1>1. n \in [I -> Nat]
  BY FS_CardinalityType
<1>2. ASSUME NEW i \in I
      PROVE  /\ b[i] \in [1 .. n[i] -> A[i]]
             /\ \A k, l \in 1 .. n[i] : b[i][k] = b[i][l] => k = l
             /\ \A x \in A[i] : \E k \in 1 .. n[i] : b[i][k] = x
  <2>1. \E f : f \in Bijection(1 .. n[i], A[i])
    BY FS_CardinalityType DEF ExistsBijection
  <2>2. b[i] \in Bijection(1 .. n[i], A[i])
    BY <2>1
  <2> QED BY <2>2 DEF Bijection, Injection, Surjection, IsInjective
<1> HIDE DEF b
<1>3. \A p : p \in P <=> \E i \in I : \E k \in 1 .. n[i] : p = <<i, k>>
  BY <1>1, PairsAre
<1>4. IsFiniteSet(P)
  BY <1>1, PairsFinite
<1> HIDE DEF P
<1>5. g \in [P -> U]
  <2> SUFFICES ASSUME NEW p \in P PROVE b[p[1]][p[2]] \in U
    OBVIOUS
  <2>1. PICK i \in I, k \in Nat : k \in 1 .. n[i] /\ p = <<i, k>>
    BY <1>3
  <2>2. b[i][k] \in A[i]
    BY <1>2, <2>1, ZenonT(40)
  <2>3. p[1] = i /\ p[2] = k
    BY <2>1
  <2> QED BY <2>2, <2>3
<1>6. ASSUME NEW p \in P, NEW q \in P, g[p] = g[q] PROVE p = q
  <2>1. PICK i \in I, k \in Nat : k \in 1 .. n[i] /\ p = <<i, k>>
    BY <1>3
  <2>2. PICK j \in I, l \in Nat : l \in 1 .. n[j] /\ q = <<j, l>>
    BY <1>3
  <2>a. g[p] = b[p[1]][p[2]] /\ g[q] = b[q[1]][q[2]]
    OBVIOUS
  <2>b. p[1] = i /\ p[2] = k /\ q[1] = j /\ q[2] = l
    BY <2>1, <2>2
  <2>3. b[i][k] = b[j][l] /\ b[i][k] \in A[i] /\ b[j][l] \in A[j]
    <3>a. \A x \in I : b[x] \in [1 .. n[x] -> A[x]]
      BY <1>2
    <3>0. b[i][k] \in A[i]
      BY <2>1, <3>a
    <3>1. b[j][l] \in A[j]
      BY <2>2, <3>a
    <3>2. b[p[1]][p[2]] = b[q[1]][q[2]]
      BY <1>6, <2>a
    <3>3. b[p[1]][p[2]] = b[i][k] /\ b[q[1]][q[2]] = b[j][l]
      BY <2>b
    <3> QED BY <3>0, <3>1, <3>2, <3>3
  <2>4. i = j
    BY <2>3
  <2> QED BY <1>2, <2>1, <2>2, <2>3, <2>4
<1>7. ASSUME NEW x \in U PROVE \E p \in P : g[p] = x
  <2>1. PICK i \in I : x \in A[i]
    OBVIOUS
  <2>2. PICK k \in 1 .. n[i] : b[i][k] = x
    BY <1>2, <2>1
  <2>3. <<i, k>> \in P
    BY <1>3
  <2> QED BY <2>2, <2>3
<1> HIDE DEF g, U
<1>8. g \in Bijection(P, U)
  BY <1>5, <1>6, <1>7 DEF Bijection, Injection, Surjection, IsInjective
<1>9. Cardinality(U) = Cardinality(P)
  BY <1>4, <1>8, FS_Bijection DEF ExistsBijection
<1> QED BY <1>9 DEF U, P

-----------------------------------------------------------------------------
(* Processors: an answer about packages and cores that are there *)

\* A list of sets of processors, of which none is empty and no two share a processor.
Parts(sets) ==
    /\ Len(sets) \in Nat /\ DOMAIN sets = 1 .. Len(sets)
    /\ \A i \in DOMAIN sets : IsFiniteSet(sets[i]) /\ sets[i] # {}
    /\ Apart(sets)

\* The entries are the packages, the numbers of the section are those of its entries, and
\* each null has a reason, and a message.
CpuSays(a, packages, cores) ==
    /\ DOMAIN a.values = ((DOMAIN packages) \X {"cores", "logical", "manufacturer", "model"})
                         \cup ({0} \X CpuFields)
    /\ \A i \in DOMAIN packages :
         /\ a.values[<<i, "cores">>] = Cardinality(CoresOf(packages[i], cores))
         /\ a.values[<<i, "logical">>] = Cardinality(packages[i])
         /\ a.values[<<i, "cores">>] # 0
    /\ packages # <<>>
    /\ a.values[<<0, "packages">>] = Len(packages)
    /\ a.values[<<0, "physical_packages">>] = Len(packages)
    /\ a.values[<<0, "physical_cores">>] = Total(a.values, "cores")
    /\ a.values[<<0, "logical_processors">>] = Total(a.values, "logical")
    /\ DOMAIN a.reasons = Nulls(a.values)
    /\ Nulls(a.values) = {} => a.said = {}

LEMMA EntriesAre ==
    ASSUME NEW I, 0 \notin I, NEW v, \A p \in DOMAIN v : p[1] \in I \/ p[1] = 0,
           NEW f, \A i \in I : <<i, f>> \in DOMAIN v
    PROVE  Entries(v) = I
<1>1. \A i \in I : \E p \in DOMAIN v : p[1] = i
  <2> SUFFICES ASSUME NEW i \in I PROVE \E p \in DOMAIN v : p[1] = i
    OBVIOUS
  <2>1. <<i, f>> \in DOMAIN v /\ <<i, f>>[1] = i
    OBVIOUS
  <2> QED BY <2>1
<1> QED BY <1>1 DEF Entries

LEMMA CpuFailureAlone == Join(Got(<<>>), CpuFailure) = CpuFailure
<1> DEFINE P == {<<0, f>> : f \in CpuFields}
           f == [p \in P |-> Null]
           g == [p \in P |-> "failed"]
           said == {"cpu"}
<1>1. CpuFailure = Answer(f, g, said)
  BY DEF CpuFailure, Missed
<1>2. f = [p \in DOMAIN f |-> f[p]] /\ g = [p \in DOMAIN g |-> g[p]]
  OBVIOUS
<1> HIDE DEF f, g, said
<1> QED BY <1>1, <1>2, JoinNothing

LEMMA CpuAnswerIs ==
    ASSUME NEW packages, Parts(packages), NEW cores, NEW identity, DOMAIN identity = DOMAIN packages,
           NEW arm, NEW a, a = CpuAnswer(packages, cores, identity, arm)
    PROVE  /\ a = CpuFailure \/ CpuSays(a, packages, cores)
           /\ Join(Got(<<>>), a) = a
<1> DEFINE I == DOMAIN packages
           shape == [p \in I \X {"cores", "logical"} |->
                       IF p[2] = "cores" THEN Cardinality(CoresOf(packages[p[1]], cores))
                       ELSE Cardinality(packages[p[1]])]
           features == Features(identity, arm)
           names == [p \in I \X {"manufacturer", "model"} |->
                       IF identity[p[1]] = Null THEN Null ELSE Known]
           section0 == [p \in {0} \X CpuFields |->
                         CASE p[2] = "physical_cores" -> Total(shape, "cores")
                           [] p[2] = "logical_processors" -> Total(shape, "logical")
                           [] p[2] \in {"physical_packages", "packages"} -> Len(packages)
                           [] p[2] = "architecture" -> Known
                           [] OTHER -> features[p[2]]]
           values == Beside(shape, Beside(names, section0))
           reasons == [p \in Nulls(values) |-> IF p[1] = 0 THEN "unsupported" ELSE "failed"]
           said == {m \in {"identity"} : \E i \in DOMAIN identity : identity[i] = Null}
           fails == packages = <<>> \/ cores = <<>> \/ \E p \in DOMAIN shape : shape[p] = 0
<1>1. a = IF fails THEN CpuFailure ELSE Answer(values, reasons, said)
  BY Zenon DEF CpuAnswer
<1>2. 0 \notin I /\ Len(packages) \in Nat
  BY DEF Parts
<1>3. /\ DOMAIN shape = I \X {"cores", "logical"}
      /\ \A i \in I : /\ shape[<<i, "cores">>] = Cardinality(CoresOf(packages[i], cores))
                      /\ shape[<<i, "logical">>] = Cardinality(packages[i])
  OBVIOUS
<1>4. /\ DOMAIN names = I \X {"manufacturer", "model"}
      /\ \A i \in I : identity[i] = Null => names[<<i, "manufacturer">>] = Null
  OBVIOUS
<1>5. /\ DOMAIN section0 = {0} \X CpuFields
      /\ section0[<<0, "packages">>] = Len(packages)
      /\ section0[<<0, "physical_packages">>] = Len(packages)
      /\ section0[<<0, "physical_cores">>] = Total(shape, "cores")
      /\ section0[<<0, "logical_processors">>] = Total(shape, "logical")
  BY DEF CpuFields
<1> HIDE DEF shape, names, section0
<1>6. /\ DOMAIN values = (I \X {"cores", "logical"}) \cup (I \X {"manufacturer", "model"})
                         \cup ({0} \X CpuFields)
      /\ \A p \in I \X {"cores", "logical"} : values[p] = shape[p]
      /\ \A p \in I \X {"manufacturer", "model"} : values[p] = names[p]
      /\ \A p \in {0} \X CpuFields : values[p] = section0[p]
  <2> DEFINE rest == Beside(names, section0)
  <2>1. /\ DOMAIN rest = (I \X {"manufacturer", "model"}) \cup ({0} \X CpuFields)
        /\ \A p \in I \X {"manufacturer", "model"} : rest[p] = names[p]
        /\ \A p \in {0} \X CpuFields : rest[p] = section0[p]
    BY <1>2, <1>4, <1>5 DEF Beside
  <2>2. values = Beside(shape, rest)
    OBVIOUS
  <2> HIDE DEF rest, values
  <2> QED BY <1>2, <1>3, <2>1, <2>2 DEF Beside
<1>a. values = [p \in DOMAIN values |-> values[p]] /\ reasons = [p \in DOMAIN reasons |-> reasons[p]]
  <2> DEFINE rest == Beside(names, section0)
  <2>1. values = Beside(shape, rest)
    OBVIOUS
  <2> HIDE DEF rest, values
  <2> QED BY <2>1 DEF Beside
<1> HIDE DEF values
<1>7. DOMAIN values = (I \X {"cores", "logical", "manufacturer", "model"}) \cup ({0} \X CpuFields)
  BY <1>6
<1>8. Entries(values) = I /\ Entries(shape) = I
  <2>1. \A p \in DOMAIN values : p[1] \in I \/ p[1] = 0
    BY <1>7
  <2>2. \A i \in I : <<i, "cores">> \in DOMAIN values
    BY <1>7
  <2>3. Entries(values) = I
    BY <1>2, <2>1, <2>2, EntriesAre
  <2>4. \A p \in DOMAIN shape : p[1] \in I
    BY <1>3
  <2>5. \A i \in I : <<i, "cores">> \in DOMAIN shape
    BY <1>3
  <2>6. Entries(shape) = I
    BY <1>2, <2>4, <2>5, EntriesAre
  <2> QED BY <2>3, <2>6
<1>9. ASSUME NEW f \in {"cores", "logical"} PROVE Total(shape, f) = Total(values, f)
  <2>1. \A i \in I : values[<<i, f>>] = shape[<<i, f>>]
    BY <1>6
  <2>2. UNION {{i} \X (1 .. values[<<i, f>>]) : i \in I} = UNION {{i} \X (1 .. shape[<<i, f>>]) : i \in I}
    BY <2>1
  <2> QED BY <1>8, <2>2 DEF Total
<1>10. Nulls(values) = {} => said = {}
  <2> SUFFICES ASSUME NEW i \in DOMAIN identity, identity[i] = Null PROVE Nulls(values) # {}
    OBVIOUS
  <2>1. i \in I /\ <<i, "manufacturer">> \in I \X {"manufacturer", "model"}
    OBVIOUS
  <2>2. values[<<i, "manufacturer">>] = Null /\ <<i, "manufacturer">> \in DOMAIN values
    BY <1>4, <1>6, <2>1
  <2> QED BY <2>2 DEF Nulls
<1>11. DOMAIN reasons = Nulls(values)
  OBVIOUS
<1> HIDE DEF reasons, said
<1>b. Join(Got(<<>>), a) = a
  <2>1. Join(Got(<<>>), Answer(values, reasons, said)) = Answer(values, reasons, said)
    BY <1>a, JoinNothing
  <2> QED BY <1>1, <2>1, CpuFailureAlone
<1>12. SUFFICES ASSUME ~fails PROVE CpuSays(a, packages, cores)
  BY <1>1, <1>b
<1>13. a.values = values /\ a.reasons = reasons /\ a.said = said
  BY <1>1, <1>12 DEF Answer
<1>14. ASSUME NEW i \in I
       PROVE  /\ values[<<i, "cores">>] = Cardinality(CoresOf(packages[i], cores))
              /\ values[<<i, "logical">>] = Cardinality(packages[i])
              /\ values[<<i, "cores">>] # 0
  BY <1>3, <1>6, <1>12
<1>15. /\ values[<<0, "packages">>] = Len(packages)
       /\ values[<<0, "physical_packages">>] = Len(packages)
       /\ values[<<0, "physical_cores">>] = Total(values, "cores")
       /\ values[<<0, "logical_processors">>] = Total(values, "logical")
  BY <1>5, <1>6, <1>9 DEF CpuFields
<1> QED BY <1>7, <1>10, <1>11, <1>12, <1>13, <1>14, <1>15 DEF CpuSays

\* A package has no fewer processors than cores.
LEMMA CoresFit ==
    ASSUME NEW package, IsFiniteSet(package), NEW cores, Apart(cores)
    PROVE  /\ IsFiniteSet(CoresOf(package, cores))
           /\ Cardinality(CoresOf(package, cores)) \in Nat /\ Cardinality(package) \in Nat
           /\ Cardinality(CoresOf(package, cores)) <= Cardinality(package)
<1> DEFINE C == CoresOf(package, cores)
           f == [i \in C |-> CHOOSE x : x \in cores[i] \cap package]
<1>1. \A i \in C : i \in DOMAIN cores /\ \E x : x \in cores[i] \cap package
  BY DEF CoresOf
<1>2. \A i \in C : f[i] \in cores[i] \cap package
  BY <1>1
<1>3. \A i, j \in C : f[i] = f[j] => i = j
  BY <1>1, <1>2 DEF Apart
<1>4. f \in [C -> package]
  BY <1>2
<1> HIDE DEF C, f
<1>5. f \in Injection(C, package)
  BY <1>3, <1>4 DEF Injection, IsInjective
<1>6. IsFiniteSet(C) /\ Cardinality(C) <= Cardinality(package)
  BY <1>5, FS_Injection
<1> QED BY <1>6, FS_CardinalityType DEF C

\* The numbers of the entries, as functions.
CoresIn(packages, cores) == [i \in DOMAIN packages |-> Cardinality(CoresOf(packages[i], cores))]
ProcessorsIn(packages) == [i \in DOMAIN packages |-> Cardinality(packages[i])]

LEMMA CpuTotals ==
    ASSUME NEW packages, Parts(packages), NEW cores, Parts(cores), NEW a, CpuSays(a, packages, cores)
    PROVE  /\ Entries(a.values) = DOMAIN packages /\ IsFiniteSet(DOMAIN packages)
           /\ Cardinality(DOMAIN packages) = Len(packages)
           /\ CoresIn(packages, cores) \in [DOMAIN packages -> Nat \ {0}]
           /\ ProcessorsIn(packages) \in [DOMAIN packages -> Nat]
           /\ \A i \in DOMAIN packages : CoresIn(packages, cores)[i] <= ProcessorsIn(packages)[i]
           /\ Total(a.values, "cores") = Cardinality(NumberPairs(DOMAIN packages, CoresIn(packages, cores)))
           /\ Total(a.values, "logical") = Cardinality(NumberPairs(DOMAIN packages, ProcessorsIn(packages)))
<1> DEFINE I == DOMAIN packages
           v == a.values
<1>1. I = 1 .. Len(packages) /\ Len(packages) \in Nat /\ 0 \notin I
  BY DEF Parts
<1>2. /\ DOMAIN v = (I \X {"cores", "logical", "manufacturer", "model"}) \cup ({0} \X CpuFields)
      /\ \A i \in I : /\ v[<<i, "cores">>] = CoresIn(packages, cores)[i]
                      /\ v[<<i, "logical">>] = ProcessorsIn(packages)[i]
                      /\ v[<<i, "cores">>] # 0
  BY DEF CpuSays, CoresIn, ProcessorsIn
<1>3. \A p \in DOMAIN v : p[1] \in I \/ p[1] = 0
  BY <1>2
<1>4. \A i \in I : <<i, "cores">> \in DOMAIN v
  BY <1>2
<1>5. Entries(v) = I
  BY <1>1, <1>3, <1>4, EntriesAre
<1>6. IsFiniteSet(I) /\ Cardinality(I) = Len(packages)
  <2> DEFINE len == Len(packages)
  <2>1. len \in Nat /\ I = 1 .. len
    BY <1>1
  <2> HIDE DEF len, I
  <2>2. IsFiniteSet(1 .. len) /\ Cardinality(1 .. len) = len
    BY <2>1, FS_Interval
  <2> QED BY <2>1, <2>2 DEF len
<1>7. \A i \in I : /\ CoresIn(packages, cores)[i] \in Nat /\ ProcessorsIn(packages)[i] \in Nat
                   /\ CoresIn(packages, cores)[i] <= ProcessorsIn(packages)[i]
  BY CoresFit DEF Parts, CoresIn, ProcessorsIn
<1>8. /\ CoresIn(packages, cores) = [i \in I |-> CoresIn(packages, cores)[i]]
      /\ ProcessorsIn(packages) = [i \in I |-> ProcessorsIn(packages)[i]]
  BY DEF CoresIn, ProcessorsIn
<1> HIDE DEF I, v
<1>9. /\ CoresIn(packages, cores) \in [I -> Nat \ {0}]
      /\ ProcessorsIn(packages) \in [I -> Nat]
  BY <1>2, <1>7, <1>8
<1>10. /\ Total(v, "cores") = Cardinality(NumberPairs(I, CoresIn(packages, cores)))
       /\ Total(v, "logical") = Cardinality(NumberPairs(I, ProcessorsIn(packages)))
  <2> DEFINE n == CoresIn(packages, cores)
             m == ProcessorsIn(packages)
  <2>0. \A i \in I : v[<<i, "cores">>] = n[i] /\ v[<<i, "logical">>] = m[i]
    BY <1>2
  <2> HIDE DEF n, m
  <2>1. UNION {{i} \X (1 .. v[<<i, "cores">>]) : i \in I} = UNION {{i} \X (1 .. n[i]) : i \in I}
    BY <2>0
  <2>2. UNION {{i} \X (1 .. v[<<i, "logical">>]) : i \in I} = UNION {{i} \X (1 .. m[i]) : i \in I}
    BY <2>0
  <2>3. Total(v, "cores") = Cardinality(NumberPairs(I, n)) /\ Total(v, "logical") = Cardinality(NumberPairs(I, m))
    BY <1>5, <2>1, <2>2 DEF Total, NumberPairs
  <2> QED BY <2>3 DEF n, m
<1> QED BY <1>5, <1>6, <1>7, <1>9, <1>10 DEF I, v

\* The gate finds the numbers to agree.
LEMMA CpuSaysUnblamed ==
    ASSUME NEW packages, Parts(packages), NEW cores, Parts(cores), NEW a, CpuSays(a, packages, cores),
           NEW r, r = CpuResult(a)
    PROVE  CpuErrors(r) = {}
<1> DEFINE I == DOMAIN packages
           v == a.values
           n == CoresIn(packages, cores)
           m == ProcessorsIn(packages)
           few == Cardinality(NumberPairs(I, n))
           many == Cardinality(NumberPairs(I, m))
<1>1. /\ Entries(v) = I /\ IsFiniteSet(I) /\ Cardinality(I) = Len(packages)
      /\ n \in [I -> Nat \ {0}] /\ m \in [I -> Nat] /\ \A i \in I : n[i] <= m[i]
      /\ Total(v, "cores") = few /\ Total(v, "logical") = many
  BY CpuTotals
<1>2. /\ \A i \in I : v[<<i, "cores">>] = n[i] /\ v[<<i, "logical">>] = m[i]
      /\ v[<<0, "packages">>] = Len(packages) /\ Len(packages) \in Nat
      /\ v[<<0, "physical_packages">>] = Len(packages)
      /\ v[<<0, "physical_cores">>] = few /\ v[<<0, "logical_processors">>] = many
      /\ DOMAIN a.reasons = Nulls(v) /\ (Nulls(v) = {} => a.said = {})
  BY <1>1 DEF CpuSays, CoresIn, ProcessorsIn, Parts
<1> HIDE DEF I, v, n, m
<1>3. few \in Nat /\ many \in Nat /\ Len(packages) <= few /\ few <= many
  <2>1. n \in [I -> Nat]
    BY <1>1
  <2>2. IsFiniteSet(NumberPairs(I, n)) /\ IsFiniteSet(NumberPairs(I, m))
    BY <1>1, <2>1, PairsFinite
  <2>3. Cardinality(I) <= few
    BY <1>1, PairsAtLeast
  <2>4. few <= many
    BY <1>1, <2>1, PairsMonotone
  <2> QED BY <1>1, <2>2, <2>3, <2>4, FS_CardinalityType
<1> HIDE DEF few, many
<1>4. /\ r.values = v /\ r.fields = a.reasons /\ r.said = a.said
      /\ \/ r.status = "success" /\ DOMAIN a.reasons = {}
         \/ r.status = "partial"
  <2>1. v[<<0, "packages">>] # Null
    BY <1>2, NullAssumption
  <2>2. <<0, "packages">> \notin Nulls(a.values)
    BY <2>1 DEF Nulls, v
  <2>3. r = Result("partial", a) \/ (r = Result("success", a) /\ DOMAIN a.reasons = {})
    BY <2>2 DEF CpuResult
  <2> QED BY <2>3 DEF Result, v
<1>5. StatusErrors(r) = {}
  <2>1. FieldErrors(r, Nulls(r.values)) = {}
    BY <1>2, <1>4 DEF FieldErrors
  <2>2. r.status = "success" => SuccessErrors(r, {}) = {}
    BY <1>2, <1>4 DEF SuccessErrors
  <2> QED BY <1>4, <2>1, <2>2 DEF StatusErrors
<1>6. {q \in I \X {"cores", "logical"} : v[q] = 0} = {}
  <2> SUFFICES ASSUME NEW q \in I \X {"cores", "logical"} PROVE v[q] # 0
    OBVIOUS
  <2>0. PICK i \in I : q = <<i, "cores">> \/ q = <<i, "logical">>
    OBVIOUS
  <2>1. n[i] \in Nat \ {0} /\ m[i] \in Nat /\ n[i] <= m[i]
    BY <1>1
  <2>2. v[<<i, "cores">>] = n[i] /\ v[<<i, "logical">>] = m[i]
    BY <1>2
  <2>3. n[i] # 0 /\ m[i] # 0
    BY <2>1
  <2> QED BY <2>0, <2>2, <2>3
<1>7. {j \in I : v[<<j, "logical">>] < v[<<j, "cores">>]} = {}
  <2> SUFFICES ASSUME NEW i \in I PROVE ~(v[<<i, "logical">>] < v[<<i, "cores">>])
    OBVIOUS
  <2>1. n[i] \in Nat /\ m[i] \in Nat /\ n[i] <= m[i]
    BY <1>1
  <2> QED BY <1>2, <2>1
<1>8. /\ {x \in {"physical_packages"} : v[<<0, x>>] # Cardinality(I)} = {}
      /\ {x \in {"physical_cores"} : v[<<0, x>>] # Total(v, "cores")
                                     \/ v[<<0, x>>] < v[<<0, "physical_packages">>]} = {}
      /\ {x \in {"logical_processors"} : v[<<0, x>>] # Total(v, "logical")
                                         \/ v[<<0, x>>] < v[<<0, "physical_cores">>]} = {}
  <2>1. v[<<0, "physical_packages">>] = Cardinality(I)
    BY <1>1, <1>2
  <2>2. /\ v[<<0, "physical_cores">>] = Total(v, "cores")
        /\ ~(v[<<0, "physical_cores">>] < v[<<0, "physical_packages">>])
    BY <1>1, <1>2, <1>3
  <2>3. /\ v[<<0, "logical_processors">>] = Total(v, "logical")
        /\ ~(v[<<0, "logical_processors">>] < v[<<0, "physical_cores">>])
    BY <1>1, <1>2, <1>3
  <2> QED BY <2>1, <2>2, <2>3
<1>9. CpuNumberErrors(r) = {}
  BY <1>1, <1>4, <1>6, <1>7, <1>8 DEF CpuNumberErrors
<1> QED BY <1>5, <1>9 DEF CpuErrors

-----------------------------------------------------------------------------
(* Processors: what is on *)

\* The sets of which one member is on.
Those(sets, on) == {i \in DOMAIN sets : sets[i] \cap on # {}}

\* A list of what is on of each of those sets.
Lit(q, sets, on) ==
    /\ Parts(q) /\ Len(q) = Cardinality(Those(sets, on))
    /\ \A k \in DOMAIN q : \E i \in DOMAIN sets : q[k] = sets[i] \cap on
    /\ \A i \in Those(sets, on) : \E k \in DOMAIN q : q[k] = sets[i] \cap on

\* Of disjoint sets, what is on is a list of disjoint sets, and nothing is left out.
LEMMA OnlineIs ==
    ASSUME NEW U, IsFiniteSet(U), NEW sets \in Seq(SUBSET U), Apart(sets), NEW q, q = Online(sets)
    PROVE  Lit(q, sets, pc.on)
<1> DEFINE on == [i \in DOMAIN sets |-> sets[i] \cap pc.on]
           D == {i \in DOMAIN on : on[i] # {}}
<1>1. q = EntriesAt(on, D)
  BY DEF Online
<1>2. /\ on \in Seq(SUBSET U) /\ DOMAIN on = 1 .. Len(on) /\ Len(on) \in Nat
      /\ DOMAIN on = DOMAIN sets /\ D \in SUBSET (1 .. Len(on))
      /\ \A i \in DOMAIN sets : on[i] = sets[i] \cap pc.on /\ on[i] \subseteq U
  OBVIOUS
<1>3. \A i \in D : on[i] # {}
  OBVIOUS
<1>4. \A i \in DOMAIN sets : on[i] # {} => i \in D
  OBVIOUS
<1>12. D = Those(sets, pc.on)
  BY DEF Those
<1> HIDE DEF on, D
<1>5. /\ DOMAIN q = 1 .. Cardinality(D) /\ Len(q) = Cardinality(D) /\ Cardinality(D) \in Nat
      /\ \A k \in DOMAIN q : Nth(D, k) \in D /\ q[k] = on[Nth(D, k)]
      /\ \A i \in D : \E k \in DOMAIN q : q[k] = on[i]
  <2>1. D \in SUBSET DOMAIN on /\ on \in Seq(SUBSET U)
    BY <1>2
  <2>2. /\ Len(q) = Cardinality(D) /\ DOMAIN q = 1 .. Cardinality(D) /\ Cardinality(D) \in Nat
        /\ \A k \in DOMAIN q : Nth(D, k) \in D /\ q[k] = on[Nth(D, k)]
        /\ \A i \in D : \E k \in DOMAIN q : k <= i /\ Nth(D, k) = i /\ q[k] = on[i]
    BY <1>1, <2>1, EntriesAtIs
  <2> QED BY <2>2
<1>6. \A k, l \in DOMAIN q : k # l => Nth(D, k) # Nth(D, l)
  <2>1. \A k, l \in 1 .. Cardinality(D) : k < l => Nth(D, k) < Nth(D, l)
    BY <1>2, NthIs
  <2>2. \A k \in DOMAIN q : Nth(D, k) \in Nat
    <3>1. \A i \in D : i \in Nat
      BY <1>2
    <3> QED BY <1>5, <3>1
  <2> SUFFICES ASSUME NEW k \in DOMAIN q, NEW l \in DOMAIN q, k # l PROVE Nth(D, k) # Nth(D, l)
    OBVIOUS
  <2>3. k < l \/ l < k
    BY <1>5
  <2>4. Nth(D, k) < Nth(D, l) \/ Nth(D, l) < Nth(D, k)
    BY <1>5, <2>1, <2>3
  <2> QED BY <2>2, <2>4
<1>7. \A k \in DOMAIN q : IsFiniteSet(q[k]) /\ q[k] # {}
  <2> SUFFICES ASSUME NEW k \in DOMAIN q PROVE IsFiniteSet(q[k]) /\ q[k] # {}
    OBVIOUS
  <2>1. q[k] \in SUBSET U /\ q[k] # {}
    BY <1>2, <1>3, <1>5
  <2> QED BY <2>1, FS_Subset
<1>8. Apart(q)
  <2> SUFFICES ASSUME NEW k \in DOMAIN q, NEW l \in DOMAIN q, k # l PROVE q[k] \cap q[l] = {}
    BY DEF Apart
  <2> DEFINE i == Nth(D, k)
             j == Nth(D, l)
  <2>1. i \in DOMAIN sets /\ j \in DOMAIN sets /\ i # j /\ q[k] = on[i] /\ q[l] = on[j]
    BY <1>2, <1>5, <1>6
  <2>2. sets[i] \cap sets[j] = {}
    BY <2>1 DEF Apart
  <2> HIDE DEF i, j
  <2> QED BY <1>2, <2>1, <2>2
<1>9. Parts(q)
  BY <1>5, <1>7, <1>8 DEF Parts
<1>10. \A k \in DOMAIN q : \E i \in DOMAIN sets : q[k] = sets[i] \cap pc.on
  <2> SUFFICES ASSUME NEW k \in DOMAIN q PROVE \E i \in DOMAIN sets : q[k] = sets[i] \cap pc.on
    OBVIOUS
  <2>1. Nth(D, k) \in DOMAIN sets /\ q[k] = on[Nth(D, k)]
    BY <1>2, <1>5
  <2>2. on[Nth(D, k)] = sets[Nth(D, k)] \cap pc.on
    BY <1>2, <2>1
  <2> QED BY <2>1, <2>2
<1>11. \A i \in DOMAIN sets : sets[i] \cap pc.on # {} =>
          \E k \in DOMAIN q : q[k] = sets[i] \cap pc.on
  <2> SUFFICES ASSUME NEW i \in DOMAIN sets, sets[i] \cap pc.on # {}
               PROVE  \E k \in DOMAIN q : q[k] = sets[i] \cap pc.on
    OBVIOUS
  <2>1. on[i] = sets[i] \cap pc.on
    BY <1>2
  <2>2. i \in D
    BY <1>4, <2>1
  <2>3. PICK k \in DOMAIN q : q[k] = on[i]
    BY <1>5, <2>2
  <2> QED BY <2>1, <2>3
<1> QED BY <1>5, <1>9, <1>10, <1>11, <1>12 DEF Lit, Those

\* What Windows knows of the processors.
CpuPc ==
    /\ pc.topology \in Topologies
    /\ pc \in [topology : {pc.topology}, on : SUBSET UNION ToSet(pc.topology.packages)]

LEMMA TopologyIs ==
    ASSUME CpuPc, NEW t, t = pc.topology, NEW U, U = UNION ToSet(t.packages)
    PROVE  /\ IsFiniteSet(U) /\ pc.on \in SUBSET U
           /\ t.packages \in Seq(SUBSET U) /\ Apart(t.packages)
           /\ t.cores \in Seq(SUBSET U) /\ Apart(t.cores)
           /\ \A x \in U : \E i \in DOMAIN t.packages : x \in t.packages[i]
           /\ \A j \in DOMAIN t.cores : \E i \in DOMAIN t.packages : t.cores[j] \subseteq t.packages[i]
<1>1. t \in Topologies /\ pc.on \in SUBSET U
  BY DEF CpuPc
<1>2. /\ t.packages \in Seq(SUBSET U) /\ Apart(t.packages)
      /\ t.cores \in Seq(SUBSET U) /\ Apart(t.cores)
      /\ \A c \in ToSet(t.cores) : c # {} /\ \E p \in ToSet(t.packages) : c \subseteq p
      /\ IsFiniteSet(U)
  BY <1>1, SectionsAssumption
<1>3. \A x \in U : \E i \in DOMAIN t.packages : x \in t.packages[i]
  BY DEF ToSet
<1>4. \A j \in DOMAIN t.cores : \E i \in DOMAIN t.packages : t.cores[j] \subseteq t.packages[i]
  <2> SUFFICES ASSUME NEW j \in DOMAIN t.cores
               PROVE  \E i \in DOMAIN t.packages : t.cores[j] \subseteq t.packages[i]
    OBVIOUS
  <2>1. t.cores[j] \in ToSet(t.cores)
    BY DEF ToSet
  <2>2. PICK p \in ToSet(t.packages) : t.cores[j] \subseteq p
    BY <1>2, <2>1
  <2> QED BY <2>2 DEF ToSet
<1> QED BY <1>1, <1>2, <1>3, <1>4

-----------------------------------------------------------------------------
(* Processors: numbers of two moments *)

\* With all but so many of its members in another set, a set is larger by no more.
LEMMA LargerBy ==
    ASSUME NEW X, NEW Y, NEW T, IsFiniteSet(X), IsFiniteSet(Y), IsFiniteSet(T),
           NEW f, \A x \in X \ Y : f[x] \in T, \A x, y \in X \ Y : f[x] = f[y] => x = y
    PROVE  Cardinality(X) <= Cardinality(Y) + Cardinality(T)
<1> DEFINE Z == X \ Y
           g == [x \in Z |-> f[x]]
<1>1. IsFiniteSet(Z)
  BY FS_Subset
<1>2. g \in Injection(Z, T)
  BY DEF Injection, IsInjective
<1>3. X \subseteq Y \cup Z
  OBVIOUS
<1> HIDE DEF Z, g
<1>4. Cardinality(Z) <= Cardinality(T)
  BY <1>2, FS_Injection
<1>5. /\ IsFiniteSet(Y \cup Z)
      /\ Cardinality(Y \cup Z) = Cardinality(Y) + Cardinality(Z) - Cardinality(Y \cap Z)
  BY <1>1, FS_Union
<1>6. Cardinality(X) <= Cardinality(Y \cup Z)
  BY <1>3, <1>5, FS_Subset
<1>7. IsFiniteSet(Y \cap Z)
  BY FS_Subset
<1>8. /\ Cardinality(X) \in Nat /\ Cardinality(Y) \in Nat /\ Cardinality(Z) \in Nat
      /\ Cardinality(T) \in Nat /\ Cardinality(Y \cap Z) \in Nat
  BY <1>1, <1>7, FS_CardinalityType
<1> QED BY <1>4, <1>5, <1>6, <1>8

\* Of disjoint sets, no more light up than processors are touched.
LEMMA MoreLit ==
    ASSUME NEW U, IsFiniteSet(U), NEW sets \in Seq(SUBSET U), Apart(sets),
           NEW a, NEW b, NEW T \in SUBSET U, a \ T = b \ T
    PROVE  /\ Cardinality(Those(sets, a)) \in Nat /\ Cardinality(T) \in Nat
           /\ Cardinality(Those(sets, a)) <= Cardinality(Those(sets, b)) + Cardinality(T)
<1> DEFINE X == Those(sets, a)
           Y == Those(sets, b)
           f == [i \in X \ Y |-> CHOOSE x : x \in sets[i] \cap a]
<1>1. IsFiniteSet(T) /\ IsFiniteSet(X) /\ IsFiniteSet(Y)
  <2>1. IsFiniteSet(DOMAIN sets)
    <3>1. Len(sets) \in Nat /\ DOMAIN sets = 1 .. Len(sets)
      OBVIOUS
    <3> QED BY <3>1, PlacesFinite
  <2>2. X \subseteq DOMAIN sets /\ Y \subseteq DOMAIN sets
    BY DEF Those
  <2> QED BY <2>1, <2>2, FS_Subset
<1>2. \A i \in X \ Y : /\ i \in DOMAIN sets /\ \E x : x \in sets[i] \cap a
                       /\ sets[i] \cap b = {}
  BY DEF Those
<1> HIDE DEF X, Y
<1>3. \A i \in X \ Y : f[i] \in sets[i] \cap a
  BY <1>2
<1> HIDE DEF f
<1>4. \A i \in X \ Y : f[i] \in T
  BY <1>2, <1>3
<1>5. \A i, k \in X \ Y : f[i] = f[k] => i = k
  BY <1>2, <1>3 DEF Apart
<1>6. Cardinality(X) <= Cardinality(Y) + Cardinality(T)
  BY <1>1, <1>4, <1>5, LargerBy
<1> QED BY <1>1, <1>6, FS_CardinalityType DEF X, Y

\* As many cores have a processor that was on at both moments as cores of the second
\* list have one of the first.
LEMMA BothLit ==
    ASSUME NEW U, IsFiniteSet(U), NEW sets \in Seq(SUBSET U), Apart(sets), NEW a, NEW b,
           NEW q, Lit(q, sets, b), NEW K, K = {k \in DOMAIN q : q[k] \cap a # {}}
    PROVE  Cardinality(K) = Cardinality(Those(sets, a \cap b))
<1> DEFINE Z == Those(sets, a \cap b)
           f == [i \in Z |-> CHOOSE k \in DOMAIN q : q[k] = sets[i] \cap b]
           g == [k \in K |-> CHOOSE i \in DOMAIN sets : q[k] = sets[i] \cap b]
<1>1. IsFiniteSet(K) /\ IsFiniteSet(Z)
  <2>1. IsFiniteSet(DOMAIN sets)
    <3>1. Len(sets) \in Nat /\ DOMAIN sets = 1 .. Len(sets)
      OBVIOUS
    <3> QED BY <3>1, PlacesFinite
  <2>2. IsFiniteSet(DOMAIN q)
    <3>1. Len(q) \in Nat /\ DOMAIN q = 1 .. Len(q)
      BY DEF Lit, Parts
    <3> QED BY <3>1, PlacesFinite
  <2>3. Z \subseteq DOMAIN sets /\ K \subseteq DOMAIN q
    BY DEF Those
  <2> QED BY <2>1, <2>2, <2>3, FS_Subset
<1>2. \A i \in Z : i \in DOMAIN sets /\ i \in Those(sets, b) /\ sets[i] \cap b \cap a # {}
  BY DEF Those
<1>3. \A k \in K : k \in DOMAIN q /\ q[k] \cap a # {}
  OBVIOUS
<1>4. \A k \in DOMAIN q : q[k] \cap a # {} => k \in K
  OBVIOUS
<1>5. \A i \in DOMAIN sets : sets[i] \cap b \cap a # {} => i \in Z
  BY DEF Those
<1> HIDE DEF Z
<1>6. \A i \in Z : f[i] \in DOMAIN q /\ q[f[i]] = sets[i] \cap b
  BY <1>2 DEF Lit
<1>7. \A k \in K : g[k] \in DOMAIN sets /\ q[k] = sets[g[k]] \cap b
  BY <1>3 DEF Lit
<1>8. f \in Injection(Z, K)
  <2>1. f = [i \in Z |-> f[i]]
    OBVIOUS
  <2> HIDE DEF f
  <2>2. \A i \in Z : f[i] \in K
    BY <1>2, <1>4, <1>6
  <2>3. \A i, j \in Z : f[i] = f[j] => i = j
    BY <1>2, <1>6 DEF Apart
  <2> QED BY <2>1, <2>2, <2>3 DEF Injection, IsInjective
<1>9. g \in Injection(K, Z)
  <2>1. g = [k \in K |-> g[k]]
    OBVIOUS
  <2> HIDE DEF g
  <2>2. \A k \in K : g[k] \in Z
    BY <1>3, <1>5, <1>7
  <2>3. \A k, l \in K : g[k] = g[l] => k = l
    <3>1. Apart(q)
      BY DEF Lit, Parts
    <3>2. \A k, l \in K : g[k] = g[l] => q[k] = q[l] /\ q[k] # {}
      BY <1>3, <1>7
    <3> QED BY <1>3, <3>1, <3>2 DEF Apart
  <2> QED BY <2>1, <2>2, <2>3 DEF Injection, IsInjective
<1> HIDE DEF f, g
<1>10. Cardinality(K) <= Cardinality(Z) /\ Cardinality(Z) <= Cardinality(K)
  BY <1>1, <1>8, <1>9, FS_Injection
<1>11. Cardinality(K) \in Nat /\ Cardinality(Z) \in Nat
  BY <1>1, FS_CardinalityType
<1> QED BY <1>10, <1>11 DEF Z

\* The entries say together what was on when the packages were listed, and as many cores
\* as have a processor that was on both times.
LEMMA EntriesCount ==
    ASSUME CpuPc, NEW first, NEW second, first \in SUBSET UNION ToSet(pc.topology.packages),
           NEW packages, Lit(packages, pc.topology.packages, first),
           NEW cores, Lit(cores, pc.topology.cores, second), NEW a, CpuSays(a, packages, cores)
    PROVE  /\ Total(a.values, "cores") = Cardinality(Those(pc.topology.cores, first \cap second))
           /\ Total(a.values, "logical") = Cardinality(first)
<1> DEFINE t == pc.topology
           U == UNION ToSet(t.packages)
           I == DOMAIN packages
           C == [i \in I |-> CoresOf(packages[i], cores)]
           K == {k \in DOMAIN cores : cores[k] \cap first # {}}
<1>1. /\ IsFiniteSet(U) /\ t.packages \in Seq(SUBSET U) /\ Apart(t.packages)
      /\ t.cores \in Seq(SUBSET U) /\ Apart(t.cores)
      /\ \A x \in U : \E i \in DOMAIN t.packages : x \in t.packages[i]
      /\ \A j \in DOMAIN t.cores : \E i \in DOMAIN t.packages : t.cores[j] \subseteq t.packages[i]
  BY TopologyIs
<1>0. /\ first \in SUBSET U
      /\ Lit(packages, t.packages, first) /\ Lit(cores, t.cores, second)
  OBVIOUS
<1> HIDE DEF t, U
<1>2. /\ Parts(packages)
      /\ \A k \in I : \E i \in DOMAIN t.packages : packages[k] = t.packages[i] \cap first
      /\ \A i \in DOMAIN t.packages : t.packages[i] \cap first # {} =>
            \E k \in I : packages[k] = t.packages[i] \cap first
  BY <1>0 DEF Lit, Those
<1>3. /\ Parts(cores)
      /\ \A k \in DOMAIN cores : \E j \in DOMAIN t.cores : cores[k] = t.cores[j] \cap second
  BY <1>0 DEF Lit
<1>4. /\ IsFiniteSet(I)
      /\ Total(a.values, "cores") = Cardinality(NumberPairs(I, CoresIn(packages, cores)))
      /\ Total(a.values, "logical") = Cardinality(NumberPairs(I, ProcessorsIn(packages)))
  BY <1>2, <1>3, CpuTotals
<1>5. \A x \in first : \E k \in I : x \in packages[k]
  <2> SUFFICES ASSUME NEW x \in first PROVE \E k \in I : x \in packages[k]
    OBVIOUS
  <2>1. PICK i \in DOMAIN t.packages : x \in t.packages[i]
    BY <1>0, <1>1
  <2>2. x \in t.packages[i] \cap first
    BY <2>1
  <2> QED BY <1>2, <2>2
\* The processors of a core that were on at first are all of one package.
<1>6. \A k \in DOMAIN cores : \A i, j \in I :
        cores[k] \cap packages[i] # {} /\ cores[k] \cap packages[j] # {} => i = j
  <2> SUFFICES ASSUME NEW k \in DOMAIN cores, NEW i \in I, NEW j \in I,
                      cores[k] \cap packages[i] # {}, cores[k] \cap packages[j] # {}
               PROVE  i = j
    OBVIOUS
  <2>1. PICK c \in DOMAIN t.cores : cores[k] = t.cores[c] \cap second
    BY <1>3
  <2>2. PICK m \in DOMAIN t.packages : t.cores[c] \subseteq t.packages[m]
    BY <1>1
  <2>3. PICK x \in DOMAIN t.packages : packages[i] = t.packages[x] \cap first
    BY <1>2
  <2>4. PICK y \in DOMAIN t.packages : packages[j] = t.packages[y] \cap first
    BY <1>2
  <2>5. t.packages[m] \cap t.packages[x] # {} /\ t.packages[m] \cap t.packages[y] # {}
    BY <2>1, <2>2, <2>3, <2>4
  <2>6. m = x /\ m = y
    BY <1>1, <2>5 DEF Apart
  <2>7. packages[i] = packages[j] /\ packages[i] # {}
    BY <2>3, <2>4, <2>6
  <2> QED BY <1>2, <2>7 DEF Parts, Apart
<1>7. Cardinality(NumberPairs(I, ProcessorsIn(packages))) = Cardinality(first)
  <2>1. \A i \in I : IsFiniteSet(packages[i])
    BY <1>2 DEF Parts
  <2>2. \A i, j \in I : i # j => packages[i] \cap packages[j] = {}
    BY <1>2 DEF Parts, Apart
  <2>3. ProcessorsIn(packages) = [i \in I |-> Cardinality(packages[i])]
    BY DEF ProcessorsIn
  <2>4. UNION {packages[i] : i \in I} = first
    BY <1>2, <1>5
  <2> HIDE DEF I
  <2>5. Cardinality(NumberPairs(I, ProcessorsIn(packages))) = Cardinality(UNION {packages[i] : i \in I})
    BY <1>4, <2>1, <2>2, <2>3, PairsOfParts
  <2> QED BY <2>4, <2>5
<1>8. Cardinality(NumberPairs(I, CoresIn(packages, cores))) = Cardinality(K)
  <2>1. \A i \in I : IsFiniteSet(C[i])
    BY <1>2, <1>3, CoresFit DEF Parts
  <2>2. ASSUME NEW i \in I, NEW j \in I, i # j PROVE C[i] \cap C[j] = {}
    <3> SUFFICES ASSUME NEW k \in C[i] \cap C[j] PROVE FALSE
      OBVIOUS
    <3>1. k \in DOMAIN cores /\ cores[k] \cap packages[i] # {} /\ cores[k] \cap packages[j] # {}
      BY DEF CoresOf
    <3> QED BY <1>6, <2>2, <3>1
  <2>3. UNION {C[i] : i \in I} = K
    <3>1. ASSUME NEW i \in I, NEW k \in C[i] PROVE k \in K
      <4>1. k \in DOMAIN cores /\ cores[k] \cap packages[i] # {}
        BY <3>1 DEF CoresOf
      <4>2. packages[i] \subseteq first
        BY <1>2
      <4> QED BY <4>1, <4>2
    <3>2. ASSUME NEW k \in K PROVE \E i \in I : k \in C[i]
      <4>1. PICK x \in first : x \in cores[k]
        OBVIOUS
      <4>2. PICK i \in I : x \in packages[i]
        BY <1>5
      <4> QED BY <4>1, <4>2 DEF CoresOf
    <3> HIDE DEF C, K
    <3> QED BY <3>1, <3>2
  <2>4. CoresIn(packages, cores) = [i \in I |-> Cardinality(C[i])]
    BY DEF CoresIn
  <2> HIDE DEF I, C
  <2>5. Cardinality(NumberPairs(I, CoresIn(packages, cores))) = Cardinality(UNION {C[i] : i \in I})
    BY <1>4, <2>1, <2>2, <2>4, PairsOfParts
  <2> QED BY <2>3, <2>5
<1>9. Cardinality(K) = Cardinality(Those(t.cores, first \cap second))
  <2> DEFINE sets == t.cores
  <2>1. sets \in Seq(SUBSET U) /\ Apart(sets) /\ Lit(cores, sets, second)
    BY <1>0, <1>1
  <2>2. K = {k \in DOMAIN cores : cores[k] \cap first # {}}
    OBVIOUS
  <2> HIDE DEF sets, K
  <2>3. Cardinality(K) = Cardinality(Those(sets, first \cap second))
    BY <1>1, <2>1, <2>2, BothLit
  <2> QED BY <2>3 DEF sets
<1> QED BY <1>4, <1>7, <1>8, <1>9 DEF t

-----------------------------------------------------------------------------
(* Processors: from the first question to the gate *)

\* Since these were on, no other processors than the touched ones came or went, and no
\* more than there were changes.
Since(on, touched) ==
    /\ {on, touched} \subseteq SUBSET UNION ToSet(pc.topology.packages)
    /\ Cardinality(touched) <= changes
    /\ on \ touched = pc.on \ touched

\* The lists that were seen are those there were at the time.
PackagesSeen ==
    /\ "packages" \in DOMAIN seen
    /\ \E on, touched : Since(on, touched) /\ Lit(seen["packages"], pc.topology.packages, on)

ListsSeen ==
    /\ {"packages", "cores"} \subseteq DOMAIN seen
    /\ \E first, second, touched :
         /\ Since(first, touched) /\ Lit(seen["packages"], pc.topology.packages, first)
         /\ Since(second, touched) /\ Lit(seen["cores"], pc.topology.cores, second)

CpuHeard ==
    \/ answer = CpuFailure
    \/ ListsSeen /\ CpuSays(answer, seen["packages"], seen["cores"])

CpuAsked ==
    \/ todo = CpuQueries /\ answer = Got(<<>>)
    \/ todo = <<"cores", "identity">> /\ answer = Got(<<>>) /\ PackagesSeen
    \/ todo = <<"identity">> /\ answer = Got(<<>>) /\ ListsSeen
    \/ todo = <<>> /\ CpuHeard

CpuRead ==
    section = "cpu" =>
        /\ CpuPc
        /\ stage = "collecting" => CpuAsked
        /\ stage # "collecting" => Returned(CpuHeard)

LEMMA CpuInit == Init => CpuRead
<1> SUFFICES ASSUME Init, section = "cpu" PROVE CpuRead
  BY DEF CpuRead
<1>1. /\ stage = "collecting" /\ todo = CpuQueries /\ answer = Got(<<>>)
      /\ pc \in UNION {[topology : {t}, on : (SUBSET UNION ToSet(t.packages)) \ {{}}] : t \in Topologies}
  BY DEF Init, Queries, Pcs
<1>2. PICK t \in Topologies : pc \in [topology : {t}, on : (SUBSET UNION ToSet(t.packages)) \ {{}}]
  BY <1>1
<1>3. CpuPc
  BY <1>2 DEF CpuPc
<1> QED BY <1>1, <1>3 DEF CpuRead, CpuAsked

LEMMA OnlineLit ==
    ASSUME CpuPc
    PROVE  /\ Lit(Online(pc.topology.packages), pc.topology.packages, pc.on)
           /\ Lit(Online(pc.topology.cores), pc.topology.cores, pc.on)
<1> DEFINE t == pc.topology
           U == UNION ToSet(t.packages)
           p == t.packages
           c == t.cores
<1>1. /\ IsFiniteSet(U) /\ p \in Seq(SUBSET U) /\ Apart(p) /\ c \in Seq(SUBSET U) /\ Apart(c)
  BY TopologyIs
<1> HIDE DEF U, p, c
<1>2. Lit(Online(p), p, pc.on)
  BY <1>1, OnlineIs
<1>3. Lit(Online(c), c, pc.on)
  BY <1>1, OnlineIs
<1> QED BY <1>2, <1>3 DEF p, c

\* Nothing has been touched since now.
LEMMA SinceNow ==
    ASSUME CpuPc, changes \in Nat
    PROVE  Since(pc.on, {})
<1>1. pc.on \in SUBSET UNION ToSet(pc.topology.packages)
  BY DEF CpuPc
<1> QED BY <1>1, FS_EmptySet DEF Since

\* One more processor is touched by each change.
LEMMA SinceThen ==
    ASSUME CpuPc, changes \in Nat, NEW p \in UNION ToSet(pc.topology.packages),
           pc' = [pc EXCEPT !.on = IF p \in pc.on THEN pc.on \ {p} ELSE pc.on \cup {p}],
           changes' = changes + 1, NEW on, NEW touched, Since(on, touched)
    PROVE  Since(on, touched \cup {p})'
<1> DEFINE U == UNION ToSet(pc.topology.packages)
<1>1. IsFiniteSet(U)
  BY TopologyIs
<1>2. /\ pc'.topology = pc.topology
      /\ pc'.on = IF p \in pc.on THEN pc.on \ {p} ELSE pc.on \cup {p}
  BY DEF CpuPc
<1>3. /\ on \in SUBSET U /\ touched \in SUBSET U /\ Cardinality(touched) <= changes
      /\ on \ touched = pc.on \ touched
  BY DEF Since
<1>0. p \in U
  OBVIOUS
<1> HIDE DEF U
<1>4. Cardinality(touched \cup {p}) <= changes'
  <2>1. IsFiniteSet(touched)
    BY <1>1, <1>3, FS_Subset
  <2>2. Cardinality(touched) \in Nat
    BY <2>1, FS_CardinalityType
  <2>3. Cardinality(touched \cup {p}) = IF p \in touched THEN Cardinality(touched) ELSE Cardinality(touched) + 1
    BY <2>1, FS_AddElement
  <2> QED BY <1>3, <2>2, <2>3
<1>5. on \ (touched \cup {p}) = pc'.on \ (touched \cup {p})
  BY <1>2, <1>3
<1>6. on \in SUBSET U /\ touched \cup {p} \in SUBSET U
  BY <1>0, <1>3
<1> QED BY <1>2, <1>4, <1>5, <1>6 DEF Since, U

\* A list is seen.
LEMMA SeeKeeps ==
    ASSUME NEW s, NEW q, NEW name, NEW list, See(s, q, name, list)
    PROVE  /\ section = s /\ stage = "collecting" /\ todo # <<>> /\ Head(todo) = q /\ todo' = Tail(todo)
           /\ UNCHANGED <<section, pc, changes, stage, answer>>
           /\ name \in DOMAIN seen' /\ seen'[name] = list
           /\ \A n \in DOMAIN seen : n # name => n \in DOMAIN seen' /\ seen'[n] = seen[n]
BY DEF See, Ask, later

LEMMA CpuGoesOn ==
    ASSUME AskCpu, CpuPc, CpuAsked, DInv
    PROVE  CpuAsked' /\ CpuPc' /\ section' = section /\ stage = "collecting" /\ stage' = stage
<1>0. /\ Lit(Online(pc.topology.packages), pc.topology.packages, pc.on)
      /\ Lit(Online(pc.topology.cores), pc.topology.cores, pc.on)
      /\ changes \in Nat
  BY OnlineLit DEF DInv
<1>1. CASE See("cpu", "packages", "packages", Online(pc.topology.packages))
  <2>1. /\ stage = "collecting" /\ todo # <<>> /\ Head(todo) = "packages" /\ todo' = Tail(todo)
        /\ UNCHANGED <<section, pc, changes, stage, answer>>
        /\ "packages" \in DOMAIN seen' /\ seen'["packages"] = Online(pc.topology.packages)
    BY <1>1, SeeKeeps
  <2>2. todo = CpuQueries /\ answer = Got(<<>>)
    BY <2>1 DEF CpuAsked
  <2>3. todo' = <<"cores", "identity">>
    BY <2>1, <2>2 DEF CpuQueries
  <2>4. Since(pc.on, {})'
    BY <1>0, <2>1, SinceNow DEF Since
  <2>5. PackagesSeen'
    <3>1. Lit(seen'["packages"], pc'.topology.packages, pc'.on)
      BY <1>0, <2>1
    <3> QED BY <2>1, <2>4, <3>1 DEF PackagesSeen
  <2> QED BY <2>1, <2>2, <2>3, <2>5 DEF CpuAsked, CpuPc
<1>2. CASE See("cpu", "cores", "cores", Online(pc.topology.cores))
  <2>1. /\ stage = "collecting" /\ todo # <<>> /\ Head(todo) = "cores" /\ todo' = Tail(todo)
        /\ UNCHANGED <<section, pc, changes, stage, answer>>
        /\ "cores" \in DOMAIN seen' /\ seen'["cores"] = Online(pc.topology.cores)
        /\ "packages" \in DOMAIN seen => "packages" \in DOMAIN seen' /\ seen'["packages"] = seen["packages"]
    BY <1>2, SeeKeeps
  <2>2. todo = <<"cores", "identity">> /\ answer = Got(<<>>) /\ PackagesSeen
    BY <2>1 DEF CpuAsked, CpuQueries
  <2>3. todo' = <<"identity">>
    BY <2>1, <2>2
  <2>4. PICK on, touched : Since(on, touched) /\ Lit(seen["packages"], pc.topology.packages, on)
    BY <2>2 DEF PackagesSeen
  <2>5. ListsSeen'
    <3>1. Since(pc.on, touched)
      BY <2>4 DEF Since, CpuPc
    <3>2. Since(on, touched)' /\ Since(pc.on, touched)'
      BY <2>1, <2>4, <3>1 DEF Since
    <3>3. /\ Lit(seen'["packages"], pc'.topology.packages, on)
          /\ Lit(seen'["cores"], pc'.topology.cores, pc'.on)
      BY <1>0, <2>1, <2>2, <2>4 DEF PackagesSeen
    <3> QED BY <2>1, <2>2, <3>2, <3>3 DEF ListsSeen, PackagesSeen
  <2> QED BY <2>1, <2>2, <2>3, <2>5 DEF CpuAsked, CpuPc
<1>3. CASE /\ todo = <<"identity">>
           /\ Hear("cpu", "identity",
                   {CpuAnswer(seen.packages, seen.cores, i, pc.topology.arm) :
                      i \in Identities(seen.packages, pc.topology.arm)})
  <2>1. /\ stage = "collecting" /\ todo' = Tail(todo)
        /\ UNCHANGED <<section, pc, changes, stage, seen>>
    BY <1>3 DEF Hear, Ask, later
  <2>2. answer = Got(<<>>) /\ ListsSeen
    BY <1>3 DEF CpuAsked, CpuQueries
  <2> DEFINE packages == seen["packages"]
             cores == seen["cores"]
             arm == pc.topology.arm
  <2>3. PICK i \in Identities(packages, arm) : answer' = Join(answer, CpuAnswer(packages, cores, i, arm))
    BY <1>3 DEF Hear
  <2>4. DOMAIN i = DOMAIN packages /\ Parts(packages)
    BY <2>2 DEF Identities, ListsSeen, Lit
  <2>5. /\ answer' = CpuFailure \/ CpuSays(answer', packages, cores)
    <3> DEFINE a == CpuAnswer(packages, cores, i, arm)
    <3> HIDE DEF packages, cores, arm
    <3>1. (a = CpuFailure \/ CpuSays(a, packages, cores)) /\ Join(Got(<<>>), a) = a
      BY <2>4, CpuAnswerIs
    <3> QED BY <2>2, <2>3, <3>1
  <2>6. todo' = <<>>
    BY <1>3, <2>1
  <2>7. ListsSeen'
    BY <2>1, <2>2 DEF ListsSeen, Since
  <2>8. CpuHeard'
    BY <2>1, <2>5, <2>7 DEF CpuHeard
  <2> QED BY <2>1, <2>6, <2>8 DEF CpuAsked, CpuPc
<1> QED BY <1>1, <1>2, <1>3 DEF AskCpu

LEMMA CpuKept ==
    ASSUME [Next]_vars, DInv, CpuRead, section = "cpu"
    PROVE  CpuRead'
<1>0. section' = section /\ changes \in Nat /\ CpuPc
  BY Steady DEF DInv, CpuRead
<1>1. CASE AskCpu
  <2>1. stage = "collecting" => CpuAsked
    BY DEF CpuRead
  <2>2. stage = "collecting"
    BY <1>1 DEF AskCpu, See, Hear, Ask
  <2>3. CpuAsked' /\ CpuPc' /\ stage' = stage
    BY <1>0, <1>1, <2>1, <2>2, CpuGoesOn
  <2> QED BY <2>2, <2>3 DEF CpuRead
<1>2. CASE SwitchProcessor
  <2>1. PICK p \in UNION ToSet(pc.topology.packages) :
          Changing("cpu", [pc EXCEPT !.on = IF p \in @ THEN @ \ {p} ELSE @ \cup {p}])
    BY <1>2 DEF SwitchProcessor
  <2>2. /\ pc' = [pc EXCEPT !.on = IF p \in pc.on THEN pc.on \ {p} ELSE pc.on \cup {p}]
        /\ changes' = changes + 1 /\ todo # <<>> /\ stage = "collecting"
        /\ UNCHANGED <<todo, answer, seen, stage>>
    BY <2>1 DEF Changing, later
  <2>3. pc'.topology = pc.topology /\ CpuPc'
    BY <1>0, <2>2 DEF CpuPc
  <2>4. \A on, touched : Since(on, touched) => Since(on, touched \cup {p})'
    BY <1>0, <2>2, SinceThen
  <2>5. (PackagesSeen => PackagesSeen') /\ (ListsSeen => ListsSeen')
    <3>1. ASSUME PackagesSeen PROVE PackagesSeen'
      <4>1. PICK on, touched : Since(on, touched) /\ Lit(seen["packages"], pc.topology.packages, on)
        BY <3>1 DEF PackagesSeen
      <4>2. Since(on, touched \cup {p})' /\ Lit(seen'["packages"], pc'.topology.packages, on)
        BY <2>2, <2>3, <2>4, <4>1
      <4> QED BY <2>2, <3>1, <4>2 DEF PackagesSeen
    <3>2. ASSUME ListsSeen PROVE ListsSeen'
      <4>1. PICK first, second, touched :
              /\ Since(first, touched) /\ Lit(seen["packages"], pc.topology.packages, first)
              /\ Since(second, touched) /\ Lit(seen["cores"], pc.topology.cores, second)
        BY <3>2 DEF ListsSeen
      <4>2. /\ Since(first, touched \cup {p})' /\ Lit(seen'["packages"], pc'.topology.packages, first)
            /\ Since(second, touched \cup {p})' /\ Lit(seen'["cores"], pc'.topology.cores, second)
        BY <2>2, <2>3, <2>4, <4>1
      <4> QED BY <2>2, <3>2, <4>2 DEF ListsSeen
    <3> QED BY <3>1, <3>2
  <2>6. CpuAsked'
    BY <2>2, <2>5 DEF CpuRead, CpuAsked
  <2> QED BY <2>2, <2>3, <2>6 DEF CpuRead
<1>3. CASE GiveUp
  <2>1. stage = "collecting" /\ stage' = stage /\ pc' = pc /\ todo' = <<>> /\ answer' = CpuFailure
    BY <1>3 DEF GiveUp, Failure, later
  <2>2. CpuPc'
    BY <1>0, <2>1 DEF CpuPc
  <2> QED BY <2>1, <2>2 DEF CpuRead, CpuAsked, CpuHeard
<1>4. CASE Common
  <2>1. /\ UNCHANGED <<section, pc, changes, answer, seen>>
        /\ stage' = "collecting" => UNCHANGED <<stage, todo>>
    BY <1>4, CommonKeeps
  <2>2. Return => CpuHeard
    BY DEF Return, CpuRead, CpuAsked, CpuQueries
  <2>4. PackagesSeen' = PackagesSeen /\ ListsSeen' = ListsSeen
    BY <2>1 DEF PackagesSeen, ListsSeen, Since
  <2>5. CpuHeard' = CpuHeard /\ CpuHeard \in BOOLEAN
    BY <2>1, <2>4 DEF CpuHeard
  <2>6. stage' # "collecting" => Returned(CpuHeard)'
    BY <1>4, <2>1, <2>2, <2>5, Handover DEF Returned, CpuRead
  <2>7. stage' = "collecting" => CpuAsked'
    BY <2>1, <2>4, <2>5 DEF CpuRead, CpuAsked
  <2>8. CpuPc'
    BY <1>0, <2>1 DEF CpuPc
  <2> QED BY <2>6, <2>7, <2>8 DEF CpuRead
<1> QED BY <1>1, <1>2, <1>3, <1>4, OtherSteps

\* The gate finds nothing wrong, whatever goes off or on between two questions.
LEMMA CpuUnblamed ==
    ASSUME CpuRead, section = "cpu", stage # "collecting"
    PROVE  CpuErrors(result) = {}
<1>1. CASE result = Lost(EmptyPaths("cpu"))
  <2>1. /\ StatusErrors(result) = {}
        /\ \A p \in EmptyPaths("cpu") : result.values[p] = Null
    BY <1>1, LostUnblamed
  <2>2. <<0, "packages">> \in EmptyPaths("cpu")
    BY DEF EmptyPaths, CpuFields
  <2>3. CpuNumberErrors(result) = {}
    BY <2>1, <2>2 DEF CpuNumberErrors
  <2> QED BY <2>1, <2>3 DEF CpuErrors
<1>2. CASE answer = CpuFailure /\ result = CpuResult(answer)
  <2>1. /\ DOMAIN answer.values = {<<0, f>> : f \in CpuFields} /\ answer.said = {"cpu"}
        /\ \A p \in DOMAIN answer.values : answer.values[p] = Null
    BY <1>2 DEF CpuFailure, Missed, Answer
  <2>2. <<0, "packages">> \in Nulls(answer.values)
    BY <2>1 DEF Nulls, CpuFields
  <2> DEFINE a == Result("failed", answer)
  <2>3. result = [a EXCEPT !.fields = <<>>]
    BY <1>2, <2>2 DEF CpuResult, Unreasoned
  <2>4. /\ a.values = answer.values /\ a.said = answer.said /\ a.status = "failed"
        /\ DOMAIN a = {"status", "values", "fields", "said"}
    BY DEF Result
  <2> HIDE DEF a
  <2>5. result.values = answer.values /\ result.said = answer.said /\ result.status = "failed"
    BY <2>3, <2>4
  <2>6. FailureErrors(result) = {}
    BY <2>1, <2>5 DEF FailureErrors, Nulls
  <2>7. CpuNumberErrors(result) = {}
    BY <2>2, <2>5 DEF CpuNumberErrors, Nulls
  <2> QED BY <2>5, <2>6, <2>7 DEF CpuErrors, StatusErrors
<1>3. CASE /\ ListsSeen /\ CpuSays(answer, seen["packages"], seen["cores"])
           /\ result = CpuResult(answer)
  <2>1. Parts(seen["packages"]) /\ Parts(seen["cores"])
    BY <1>3 DEF ListsSeen, Lit
  <2> QED BY <1>3, <2>1, CpuSaysUnblamed
<1> QED BY <1>1, <1>2, <1>3 DEF CpuRead, Returned, Judge, CpuHeard

\* Numbers that differ by no more than what was touched.
LEMMA NearBy ==
    ASSUME changes \in Nat, NEW m \in Nat, NEW n \in Nat, NEW k \in Nat,
           k <= changes, m <= n + k, n <= m + k
    PROVE  Nearly(m, n)
BY DEF Nearly

\* The numbers of two moments, and those of now.
LEMMA CountsNear ==
    ASSUME CpuPc, ListsSeen, changes \in Nat, NEW a, CpuSays(a, seen["packages"], seen["cores"])
    PROVE  /\ Nearly(a.values[<<0, "logical_processors">>], Cardinality(pc.on))
           /\ Nearly(a.values[<<0, "physical_cores">>], Len(Online(pc.topology.cores)))
           /\ Nearly(a.values[<<0, "physical_packages">>], Len(Online(pc.topology.packages)))
<1> DEFINE t == pc.topology
           U == UNION ToSet(t.packages)
           packages == seen["packages"]
           cores == seen["cores"]
<1>1. PICK first, second, T :
        /\ Since(first, T) /\ Lit(packages, t.packages, first)
        /\ Since(second, T) /\ Lit(cores, t.cores, second)
  BY DEF ListsSeen
<1>2. /\ first \in SUBSET U /\ T \in SUBSET U /\ Cardinality(T) <= changes
      /\ first \ T = pc.on \ T /\ second \ T = pc.on \ T
  BY <1>1 DEF Since
<1>3. /\ IsFiniteSet(U) /\ pc.on \in SUBSET U
      /\ t.packages \in Seq(SUBSET U) /\ Apart(t.packages)
      /\ t.cores \in Seq(SUBSET U) /\ Apart(t.cores)
  BY TopologyIs
<1>4. /\ Total(a.values, "cores") = Cardinality(Those(t.cores, first \cap second))
      /\ Total(a.values, "logical") = Cardinality(first)
  <2>1. CpuSays(a, packages, cores)
    OBVIOUS
  <2> HIDE DEF packages, cores
  <2> QED BY <1>1, <1>2, <2>1, EntriesCount
<1>5. /\ a.values[<<0, "logical_processors">>] = Cardinality(first)
      /\ a.values[<<0, "physical_cores">>] = Cardinality(Those(t.cores, first \cap second))
      /\ a.values[<<0, "physical_packages">>] = Cardinality(Those(t.packages, first))
  BY <1>1, <1>4 DEF CpuSays, Lit
<1>6. /\ Len(Online(t.packages)) = Cardinality(Those(t.packages, pc.on))
      /\ Len(Online(t.cores)) = Cardinality(Those(t.cores, pc.on))
  BY OnlineLit DEF Lit
<1> DEFINE p == t.packages
           c == t.cores
<1>7. p \in Seq(SUBSET U) /\ Apart(p) /\ c \in Seq(SUBSET U) /\ Apart(c)
  BY <1>3
<1>8. (first \cap second) \ T = pc.on \ T
  BY <1>2
<1> HIDE DEF U, p, c
<1>9. Nearly(Cardinality(Those(p, first)), Cardinality(Those(p, pc.on)))
  <2>1. /\ Cardinality(Those(p, first)) \in Nat /\ Cardinality(T) \in Nat
        /\ Cardinality(Those(p, first)) <= Cardinality(Those(p, pc.on)) + Cardinality(T)
    BY <1>2, <1>3, <1>7, MoreLit
  <2>2. /\ Cardinality(Those(p, pc.on)) \in Nat
        /\ Cardinality(Those(p, pc.on)) <= Cardinality(Those(p, first)) + Cardinality(T)
    BY <1>2, <1>3, <1>7, MoreLit
  <2> QED BY <1>2, <2>1, <2>2, NearBy
<1>10. Nearly(Cardinality(Those(c, first \cap second)), Cardinality(Those(c, pc.on)))
  <2> DEFINE both == first \cap second
  <2>0. both \ T = pc.on \ T
    BY <1>8
  <2> HIDE DEF both
  <2>1. /\ Cardinality(Those(c, both)) \in Nat /\ Cardinality(T) \in Nat
        /\ Cardinality(Those(c, both)) <= Cardinality(Those(c, pc.on)) + Cardinality(T)
    BY <1>2, <1>3, <1>7, <2>0, MoreLit
  <2>2. /\ Cardinality(Those(c, pc.on)) \in Nat
        /\ Cardinality(Those(c, pc.on)) <= Cardinality(Those(c, both)) + Cardinality(T)
    BY <1>2, <1>3, <1>7, <2>0, MoreLit
  <2>3. Nearly(Cardinality(Those(c, both)), Cardinality(Those(c, pc.on)))
    BY <1>2, <2>1, <2>2, NearBy
  <2> QED BY <2>3 DEF both
<1>11. Nearly(Cardinality(first), Cardinality(pc.on))
  <2> DEFINE on == pc.on
             id == [x \in U |-> x]
  <2>1. IsFiniteSet(first) /\ IsFiniteSet(on) /\ IsFiniteSet(T)
    BY <1>2, <1>3, FS_Subset
  <2>2. on \in SUBSET U /\ first \ T = on \ T
    BY <1>2, <1>3
  <2> HIDE DEF on
  <2>3. \A x \in U : id[x] = x
    OBVIOUS
  <2> HIDE DEF id
  <2>4. /\ \A x \in first \ on : id[x] \in T
        /\ \A x, y \in first \ on : id[x] = id[y] => x = y
        /\ \A x \in on \ first : id[x] \in T
        /\ \A x, y \in on \ first : id[x] = id[y] => x = y
    BY <1>2, <2>2, <2>3
  <2>5. /\ Cardinality(first) <= Cardinality(on) + Cardinality(T)
        /\ Cardinality(on) <= Cardinality(first) + Cardinality(T)
    BY <2>1, <2>4, LargerBy
  <2>6. Cardinality(first) \in Nat /\ Cardinality(on) \in Nat /\ Cardinality(T) \in Nat
    BY <2>1, FS_CardinalityType
  <2>7. Nearly(Cardinality(first), Cardinality(on))
    BY <1>2, <2>5, <2>6, NearBy
  <2> QED BY <2>7 DEF on
<1> QED BY <1>5, <1>6, <1>9, <1>10, <1>11 DEF p, c

\* A success has every number, and each is out by one at most for each processor that came
\* or went.
LEMMA CpuComplete ==
    ASSUME CpuRead, section = "cpu", stage # "collecting", result.status = "success", changes \in Nat
    PROVE  /\ Nulls(result.values) = {}
           /\ Nearly(result.values[<<0, "logical_processors">>], Cardinality(pc.on))
           /\ Nearly(result.values[<<0, "physical_cores">>], Len(Online(pc.topology.cores)))
           /\ Nearly(result.values[<<0, "physical_packages">>], Len(Online(pc.topology.packages)))
<1>1. result # Lost(EmptyPaths(section))
  BY LostFails
<1>2. CpuHeard /\ result = CpuResult(answer) /\ CpuPc
  BY <1>1 DEF CpuRead, Returned, Judge
<1>3. /\ DOMAIN answer.reasons = {} /\ <<0, "packages">> \notin Nulls(answer.values)
      /\ result.values = answer.values
  <2>1. Unreasoned(Result("failed", answer)).status = "failed"
    <3> DEFINE a == Result("failed", answer)
    <3>1. a.status = "failed" /\ DOMAIN a = {"status", "values", "fields", "said"}
      BY DEF Result
    <3> HIDE DEF a
    <3>2. [a EXCEPT !.fields = <<>>].status = "failed"
      BY <3>1
    <3> QED BY <3>2 DEF Unreasoned, a
  <2>2. Result("partial", answer).status = "partial" /\ Result("success", answer).values = answer.values
    BY DEF Result
  <2> QED BY <1>2, <2>1, <2>2 DEF CpuResult
<1>4. answer # CpuFailure
  <2>1. DOMAIN CpuFailure.reasons = {<<0, f>> : f \in CpuFields}
    BY DEF CpuFailure, Missed, Answer
  <2> QED BY <1>3, <2>1 DEF CpuFields
<1>5. ListsSeen /\ CpuSays(answer, seen["packages"], seen["cores"])
  BY <1>2, <1>4 DEF CpuHeard
<1>6. Nulls(answer.values) = {}
  BY <1>3, <1>5 DEF CpuSays
<1> QED BY <1>2, <1>3, <1>5, <1>6, CountsNear

-----------------------------------------------------------------------------
(* All sections together *)

\* What is known of the sections, once more with those of this module.
OtherSections == SecurityRead /\ UpdatesRead /\ RuntimeRead /\ CpuRead
AllRead == IInv /\ DInv /\ EventsRead /\ MatchesRead /\ HInv /\ OtherSections

LEMMA AllReadInit == Init => MatchesRead /\ HInv /\ OtherSections
BY MatchesInit, HistoryInit, SecurityInit, UpdatesInit, RuntimeInit, CpuInit DEF OtherSections

LEMMA AllReadKept ==
    ASSUME [Next]_vars, DInv, MatchesRead, HInv, OtherSections
    PROVE  MatchesRead' /\ HInv' /\ OtherSections'
<1>1. section' = section
  BY Steady
<1>2. MatchesRead'
  BY <1>1, MatchesKept DEF MatchesRead
<1>3. HInv'
  BY StepKeeps
<1>4. SecurityRead'
  BY <1>1, SecurityKept DEF OtherSections, SecurityRead
<1>5. UpdatesRead'
  BY <1>1, UpdatesKept DEF OtherSections, UpdatesRead
<1>6. RuntimeRead'
  BY <1>1, RuntimeKept DEF OtherSections, RuntimeRead
<1>7. CpuRead'
  BY <1>1, CpuKept DEF OtherSections, CpuRead
<1> QED BY <1>2, <1>3, <1>4, <1>5, <1>6, <1>7 DEF OtherSections

LEMMA AllReadInvariance == Spec => []AllRead
<1>1. Init => MatchesRead /\ HInv /\ OtherSections
  BY AllReadInit
<1>2. DInv /\ (MatchesRead /\ HInv /\ OtherSections) /\ [Next]_vars =>
        (MatchesRead /\ HInv /\ OtherSections)'
  BY AllReadKept
<1>3. Spec => [](MatchesRead /\ HInv /\ OtherSections)
  BY <1>1, <1>2, DInvariance, PTL DEF Spec
<1> QED BY <1>3, DInvariance, EInvariance, PTL DEF AllRead

\* In these sections nothing is ever refused.
LEMMA NeverRefused ==
    ASSUME DInv, OtherSections,
           section \in {"windows_security", "windows_updates", "runtime_environment", "cpu"}
    PROVE  errors = {}
<1>1. Followed /\ stage \in {"collecting", "gate", "rules", "done"}
  BY DEF DInv
<1>2. stage # "collecting" => GateErrors(section, result) = {}
  BY SecurityUnblamed, UpdatesUnblamed, CpuUnblamed DEF OtherSections, GateErrors
<1> QED BY <1>1, <1>2 DEF Followed

LEMMA RefusalsOK == AllRead => ExplainedRefusal
<1> SUFFICES ASSUME AllRead PROVE ExplainedRefusal
  OBVIOUS
<1>1. IInv /\ DInv /\ EventsRead /\ MatchesRead /\ OtherSections /\ section \in SectionNames
  BY DEF AllRead, DInv
<1>2. CASE section \in Fixed
  BY <1>1, <1>2 DEF IInv
<1>3. CASE section \in {"windows_security", "windows_updates", "runtime_environment", "cpu"}
  BY <1>1, <1>3, NeverRefused, RefusalNow
<1>4. CASE section \in {"devices", "gpus", "event_logs"}
  BY <1>1, <1>4, RefusalOK, AdapterRefusalsOK, LogRefusalsOK
<1> QED BY <1>1, <1>2, <1>3, <1>4 DEF SectionNames, Fixed

LEMMA CompletesOK == AllRead => SuccessIsComplete
<1> SUFFICES ASSUME AllRead PROVE SuccessIsComplete
  OBVIOUS
<1>1. DInv /\ EventsRead /\ MatchesRead /\ OtherSections /\ section \in SectionNames
  BY DEF AllRead, DInv
<1>2. CASE section \in Completed
  BY <1>1, <1>2, CompleteOK
<1>3. CASE section \in {"event_logs", "gpus"}
  BY <1>1, <1>3, LogsComplete, AdaptersWhole
<1>4. CASE section = "cpu"
  <2>1. (Written => stage # "collecting") /\ changes \in Nat
    BY <1>1 DEF Written, DInv
  <2> QED BY <1>1, <1>4, <2>1, CpuComplete DEF OtherSections, SuccessIsComplete
<1>5. CASE section = "runtime_environment"
  <2>1. Written => stage # "collecting"
    BY DEF Written
  <2> QED BY <1>1, <1>5, <2>1, RuntimeComplete DEF OtherSections, SuccessIsComplete
<1> QED BY <1>1, <1>2, <1>3, <1>4, <1>5 DEF SectionNames, Completed, Fixed

-----------------------------------------------------------------------------
(* Types: nothing leaves the sets its comment names *)

Statuses == {"success", "partial", "failed"}

\* A reason is for a null, or for a category that was cut short.
Reasoned(a) ==
    DOMAIN a.reasons \cap (DOMAIN a.values \ Nulls(a.values)) \subseteq {<<0, c>> : c \in Categories}

\* The offset fits 16 bits.
Fits(a) ==
    section = "clock" /\ "utc_offset_minutes" \in DOMAIN a.values =>
        a.values["utc_offset_minutes"] \in {Null} \cup Int16

TypesKept ==
    /\ section \in Collecting
    /\ changes \in 0 .. MaxChanges
    /\ todo \in Seq(ToSet(Queries(section)))
    /\ Reasoned(answer) /\ Fits(answer)
    /\ result # Null => result.status \in Statuses
    /\ stage = "rules" => errors = {}
    /\ Written \/ evaluations = <<>>

LEMMA QueriesListed == \A s \in SectionNames : Queries(s) \in Seq(ToSet(Queries(s)))
<1> SUFFICES ASSUME NEW s \in SectionNames PROVE Queries(s) \in Seq(ToSet(Queries(s)))
  OBVIOUS
<1>1. ASSUME NEW S, Queries(s) \in Seq(S) PROVE Queries(s) \in Seq(ToSet(Queries(s)))
  <2> DEFINE q == Queries(s)
  <2> HIDE DEF q
  <2>1. q \in Seq(S)
    BY <1>1 DEF q
  <2>2. Len(q) \in Nat /\ DOMAIN q = 1 .. Len(q) /\ q = [i \in 1 .. Len(q) |-> q[i]]
    BY <2>1
  <2>3. \A i \in 1 .. Len(q) : q[i] \in ToSet(q)
    BY <2>2 DEF ToSet
  <2>4. q \in Seq(ToSet(q))
    BY <2>2, <2>3
  <2> QED BY <2>4 DEF q
<1>2. CASE s = "windows_security"
  BY <1>1, <1>2, SecurityQueriesAre DEF Queries
<1>3. CASE s = "runtime_environment"
  BY <1>1, <1>3, CategoryQueriesAre DEF Queries
<1>4. CASE s \notin {"windows_security", "runtime_environment"}
  <2>1. \E S : Queries(s) \in Seq(S)
    <3>1. CASE s = "windows"
      <4>1. WindowsQueries \in Seq({"version", "architecture", "uptime", "boot_mode"})
        BY DEF WindowsQueries
      <4> QED BY <3>1, <4>1 DEF Queries
    <3>2. CASE s = "clock"
      <4>1. ClockQueries \in Seq({"hardware_clock", "system_time", "utc_offset", "time_service"})
        BY DEF ClockQueries
      <4> QED BY <3>2, <4>1 DEF Queries
    <3>3. CASE s = "firmware"
      <4>1. FirmwareQueries \in Seq({"vendor", "version", "release_date", "interface_type",
                                     "secure_boot_enabled", "status"})
        BY DEF FirmwareQueries
      <4> QED BY <3>3, <4>1 DEF Queries
    <3>4. CASE s = "memory"
      <4>1. MemoryQueries \in Seq({"global", "performance"})
        BY DEF MemoryQueries
      <4> QED BY <3>4, <4>1 DEF Queries
    <3>5. CASE s = "cpu"
      <4>1. CpuQueries \in Seq({"packages", "cores", "identity"})
        BY DEF CpuQueries
      <4> QED BY <3>5, <4>1 DEF Queries
    <3>6. CASE s = "gpus"
      <4>1. GpuQueries \in Seq({"adapters", "displays"})
        BY DEF GpuQueries
      <4> QED BY <3>6, <4>1 DEF Queries
    <3>7. CASE s = "devices"
      <4>1. DeviceQueries \in Seq({"devices"})
        BY DEF DeviceQueries
      <4> QED BY <3>7, <4>1 DEF Queries
    <3>8. CASE s = "event_logs"
      <4>1. EventLogQueries \in Seq({"system", "application", "security"})
        BY DEF EventLogQueries
      <4> QED BY <3>8, <4>1 DEF Queries
    <3>9. CASE s = "windows_updates"
      <4>1. UpdateQueries \in Seq({"count", "pages"})
        BY DEF UpdateQueries
      <4> QED BY <3>9, <4>1 DEF Queries
    <3> QED BY <1>4, <3>1, <3>2, <3>3, <3>4, <3>5, <3>6, <3>7, <3>8, <3>9 DEF SectionNames
  <2> QED BY <1>1, <2>1
<1> QED BY <1>2, <1>3, <1>4

LEMMA UnreasonedFails == \A a : Unreasoned(Result("failed", a)).status = "failed"
<1> SUFFICES ASSUME NEW a PROVE Unreasoned(Result("failed", a)).status = "failed"
  OBVIOUS
<1> DEFINE r == Result("failed", a)
<1>1. r.status = "failed" /\ DOMAIN r = {"status", "values", "fields", "said"}
  BY DEF Result
<1> HIDE DEF r
<1>2. [r EXCEPT !.fields = <<>>].status = "failed"
  BY <1>1
<1> QED BY <1>2 DEF Unreasoned, r

\* Every collector judges itself with one of three words.
LEMMA JudgedStatus == ASSUME NEW s \in SectionNames, NEW a PROVE Judge(s, a).status \in Statuses
<1>0. \A b : /\ Result("success", b).status \in Statuses /\ Result("partial", b).status \in Statuses
             /\ Result("failed", b).status \in Statuses
             /\ Unreasoned(Result("failed", b)).status \in Statuses
  BY UnreasonedFails DEF Result, Statuses
<1>1. WindowsResult(a).status \in Statuses
  BY <1>0 DEF WindowsResult
<1>2. ClockResult(a).status \in Statuses
  BY <1>0 DEF ClockResult
<1>3. FirmwareResult(a).status \in Statuses
  BY <1>0 DEF FirmwareResult
<1>4. MemoryResult(a).status \in Statuses
  BY <1>0 DEF MemoryResult
<1>5. SecurityResult(a).status \in Statuses
  <2> DEFINE c == Cardinality(DOMAIN a.reasons)
             word == CASE c = 0 -> "success"
                       [] c = Cardinality(HealthFields \cup Details) -> "failed"
                       [] OTHER -> "partial"
  <2>1. SecurityResult(a) = Result(word, a)
    BY Zenon DEF SecurityResult
  <2>2. word \in Statuses
    BY DEF Statuses
  <2> HIDE DEF word
  <2> QED BY <2>1, <2>2 DEF Result
<1>6. CpuResult(a).status \in Statuses
  BY <1>0 DEF CpuResult
<1>7. GpuResult(a).status \in Statuses
  BY <1>0 DEF GpuResult
<1>8. DeviceResult(a).status \in Statuses
  BY <1>0 DEF DeviceResult
<1>9. EventLogResult(a).status \in Statuses
  BY <1>0 DEF EventLogResult, Result, Statuses
<1>10. UpdateResult(a).status \in Statuses
  BY DEF UpdateResult, Result, Statuses
<1>11. RuntimeResult(a).status \in Statuses
  BY <1>0, Zenon DEF RuntimeResult
<1> QED BY <1>1, <1>2, <1>3, <1>4, <1>5, <1>6, <1>7, <1>8, <1>9, <1>10, <1>11
        DEF Judge, SectionNames

\* While questions are left and when there are none any more, the reasons are for nulls.
LEMMA CoversReasoned == ASSUME NEW a, NEW P, Covers(a, P) PROVE Reasoned(a)
BY DEF Covers, Balanced, Reasoned

LEMMA NothingReasoned == Reasoned(Got(<<>>))
<1>1. DOMAIN Got(<<>>).values = {}
  BY DEF Got, Answer
<1> QED BY <1>1 DEF Reasoned

LEMMA MissedReasoned == ASSUME NEW P, NEW status, NEW code PROVE Reasoned(Missed(P, status, code))
<1>1. DOMAIN Missed(P, status, code).values = Nulls(Missed(P, status, code).values)
  BY DEF Missed, Answer, Nulls
<1> QED BY <1>1 DEF Reasoned

LEMMA AnswersReasoned ==
    ASSUME AllRead, stage = "collecting"
    PROVE  Reasoned(answer)
<1>1. /\ IInv /\ DInv /\ EventsRead /\ HInv /\ OtherSections /\ section \in SectionNames
  BY DEF AllRead, DInv
<1>2. CASE section = "windows"
  <2>1. WindowsAsked
    BY <1>1, <1>2 DEF IInv, Fixed, WindowsOK
  <2> QED BY <2>1, CoversReasoned DEF WindowsAsked
<1>3. CASE section = "clock"
  <2>1. ClockAsked
    BY <1>1, <1>3 DEF IInv, Fixed, ClockOK
  <2> QED BY <2>1, CoversReasoned DEF ClockAsked
<1>4. CASE section = "firmware"
  <2>1. FirmwareAsked
    BY <1>1, <1>4 DEF IInv, Fixed, FirmwareOK
  <2> QED BY <2>1, CoversReasoned DEF FirmwareAsked
<1>5. CASE section = "memory"
  <2>1. MemoryAsked
    BY <1>1, <1>5 DEF IInv, Fixed, MemoryOK
  <2> QED BY <2>1, CoversReasoned DEF MemoryAsked
<1>6. CASE section = "windows_security"
  <2>1. SecurityAsked
    BY <1>1, <1>6 DEF OtherSections, SecurityRead
  <2> QED BY <2>1, CoversReasoned DEF SecurityAsked
<1>7. CASE section = "cpu"
  <2>1. CpuAsked
    BY <1>1, <1>7 DEF OtherSections, CpuRead
  <2>2. Reasoned(CpuFailure)
    BY MissedReasoned DEF CpuFailure
  <2>3. \A p, c : CpuSays(answer, p, c) => Reasoned(answer)
    BY DEF CpuSays, Reasoned
  <2> QED BY <2>1, <2>2, <2>3, NothingReasoned DEF CpuAsked, CpuHeard
<1>8. CASE section = "gpus"
  <2>1. answer = Got(<<>>) \/ AdaptersHeard
    BY <1>1, <1>8 DEF DInv, AdaptersRead
  <2>2. Reasoned(GpuFailure)
    BY MissedReasoned DEF GpuFailure
  <2>3. \A c : Mapped(answer, c) => Reasoned(answer)
    BY DEF Mapped, Reasoned
  <2> QED BY <2>1, <2>2, <2>3, NothingReasoned DEF AdaptersHeard
<1>9. CASE section = "devices"
  <2>1. /\ answer = Got(<<>>) \/ answer = DeviceAnswer(pc.devices) \/ answer = DeviceFailure
        /\ pc.devices \in Seq(DeviceKinds)
    BY <1>1, <1>9 DEF DInv, DevicesRead, DevicesHeard
  <2>2. Reasoned(DeviceFailure)
    BY MissedReasoned DEF DeviceFailure
  <2>3. answer = DeviceAnswer(pc.devices) => DevicesMapped(answer, pc.devices)
    BY <2>1, DeviceAnswerMaps
  <2>4. DevicesMapped(answer, pc.devices) => Reasoned(answer)
    BY DEF DevicesMapped, Reasoned
  <2> QED BY <2>1, <2>2, <2>3, <2>4, NothingReasoned
<1>10. CASE section = "event_logs"
  <2>1. LogsAsked
    BY <1>1, <1>10 DEF EventsRead
  <2> QED BY <2>1, CoversReasoned DEF LogsAsked
<1>11. CASE section = "windows_updates"
  <2>1. AskedOK /\ (todo = <<>> => UpdatesHeard)
    BY <1>1, <1>11 DEF HInv, OtherSections, UpdatesRead
  <2>2. Reasoned(UpdateFailure)
    BY MissedReasoned DEF UpdateFailure
  <2>3. \A p : Reasoned(UpdateAnswer(p))
    <3>1. \A p : DOMAIN UpdateAnswer(p).reasons = {}
      BY DEF UpdateAnswer, Answer
    <3> QED BY <3>1 DEF Reasoned
  <2> QED BY <2>1, <2>2, <2>3, NothingReasoned DEF AskedOK, UpdatesHeard
<1>12. CASE section = "runtime_environment"
  <2>1. IF todo = <<>> THEN RuntimeHeard ELSE RuntimeAsked
    BY <1>1, <1>12 DEF OtherSections, RuntimeRead
  <2>2. Reasoned(RuntimeFailure)
    BY DEF RuntimeFailure, Answer, Reasoned
  <2>3. RuntimeSays(answer, Categories) => Reasoned(answer)
    BY DEF RuntimeSays, Reasoned
  <2>4. RuntimeAsked => Reasoned(answer)
    <3> SUFFICES ASSUME RuntimeAsked PROVE Reasoned(answer)
      OBVIOUS
    <3> DEFINE q == SetToSeq(Categories)
    <3>0. q \in Seq(Categories)
      BY CategoryQueriesAre
    <3> HIDE DEF q
    <3>1. PICK n \in 1 .. Len(q) + 1 : RuntimeSays(answer, {q[i] : i \in 1 .. n - 1})
      BY DEF RuntimeAsked, q
    <3>2. \A i \in 1 .. n - 1 : q[i] \in Categories
      BY <3>0, <3>1
    <3>3. {q[i] : i \in 1 .. n - 1} \subseteq Categories
      BY <3>2
    <3>4. DOMAIN answer.values = {<<0, c>> : c \in {q[i] : i \in 1 .. n - 1}}
      BY <3>1 DEF RuntimeSays
    <3>5. DOMAIN answer.values \subseteq {<<0, c>> : c \in Categories}
      BY <3>3, <3>4
    <3> QED BY <3>5 DEF Reasoned
  <2> QED BY <2>1, <2>2, <2>3, <2>4 DEF RuntimeHeard
<1> QED BY <1>1, <1>2, <1>3, <1>4, <1>5, <1>6, <1>7, <1>8, <1>9, <1>10, <1>11, <1>12
        DEF SectionNames

\* Each rule that speaks is one of the catalogue: anything else would be a panic.
LEMMA RulesKnown ==
    ASSUME DInv, EventsRead, Written
    PROVE  \A n \in DOMAIN evaluations : evaluations[n].rule \in Catalogue
<1>1. evaluations = Diagnose(section, result.values) /\ stage = "done"
      /\ MemoryRead /\ DevicesRead /\ AdaptersRead /\ section \in SectionNames
  BY DEF DInv, Followed, Written
<1>2. CASE section = "memory"
  <2>1. evaluations = <<MemoryRule(result.values)>>
    BY <1>1, <1>2 DEF Diagnose
  <2>2. {"total", "available"} \subseteq DOMAIN result.values
    BY <1>1, <1>2, MemoryReturned DEF MemoryFields
  <2>3. DOMAIN evaluations = {1} /\ evaluations[1] = MemoryRule(result.values)
    BY <2>1
  <2>4. evaluations[1].rule = <<"memory", "available_ratio">>
    BY <2>2, <2>3, MemoryRuleIs
  <2> QED BY <2>3, <2>4 DEF Catalogue
<1>3. CASE section = "devices"
  <2>1. evaluations = <<DeviceRule(result.values)>>
    BY <1>1, <1>3 DEF Diagnose
  <2>2. Listing(result.values, "devices", {"present", "problem"})
    BY <1>1, <1>3, DevicesListed DEF Listing, DeviceFields
  <2>3. DOMAIN evaluations = {1} /\ evaluations[1] = DeviceRule(result.values)
    BY <2>1
  <2>4. evaluations[1].rule = <<"device", "device_problem">>
    BY <2>2, <2>3, DeviceRuleIs
  <2> QED BY <2>3, <2>4 DEF Catalogue
<1>4. CASE section = "gpus"
  <2>1. evaluations = EvaluateGpus(result.values)
    BY <1>1, <1>4 DEF Diagnose
  <2>2. Listing(result.values, "gpus", {"type", "problem", "started", "driver", "instance"})
    BY <1>1, <1>4, AdaptersListed DEF Listing, GpuFields
  <2>3. DOMAIN evaluations = 1 .. 4
        /\ \A n \in 1 .. 4 : evaluations[n].rule = <<"gpu", GpuRules[n]>>
    BY <2>1, <2>2, GpuRulesAre
  <2>4. \A n \in 1 .. 4 : GpuRules[n] \in ToSet(GpuRules)
    BY DEF GpuRules, ToSet
  <2> QED BY <2>3, <2>4 DEF Catalogue
<1>5. CASE section = "event_logs"
  <2>1. /\ evaluations = EvaluateEventLogs(result.values) /\ LogsListed(result.values)
        /\ Chronicled(pc) /\ \A l \in Logs : result.values[l] \in {Null, ReadLog(l)}
    BY <1>5, LogsEvaluated
  <2>2. \A n \in DOMAIN evaluations : OfLog(result.values, evaluations[n])
    BY <2>1, EventRulesAre
  <2>3. ASSUME NEW l \in Logs, NEW kind \in Kinds, result.values[l] # Null,
               OfKind(result.values[l], kind) # {}
        PROVE  <<l, kind>> \in Catalogue
    <3>1. PICK k \in DOMAIN result.values[l] : KindOf(result.values[l][k]) = kind
      BY <2>3 DEF OfKind
    <3>2. result.values[l] = ReadLog(l)
      BY <2>1, <2>3
    <3>3. result.values[l][k].log = l
      BY <2>1, <3>1, <3>2, ReadLogIs
    <3>4. kind # Null
      BY FewKinds
    <3> DEFINE e == result.values[l][k]
    <3>5. KindOf(e) = kind /\ e.log = l
      BY <3>1, <3>3
    <3> HIDE DEF e
    <3>6. \/ l = "system" /\ kind \in {"unexpected_shutdown", "storage_io_failure", "service_failure"}
          \/ l = "application" /\ kind = "application_failure"
          \/ l = "security" /\ kind \in {"audit_log_cleared", "failed_logon", "audit_policy_changed"}
      BY <3>4, <3>5 DEF KindOf
    <3> QED BY <3>6 DEF Catalogue
  <2>4. \A l \in Logs : <<l, "availability">> \in Catalogue
    BY DEF Catalogue
  <2> SUFFICES ASSUME NEW n \in DOMAIN evaluations PROVE evaluations[n].rule \in Catalogue
    OBVIOUS
  <2>5. \/ \E l \in Logs : evaluations[n].rule = <<l, "availability">>
        \/ \E l \in Logs, kind \in Kinds :
             /\ evaluations[n].rule = <<l, kind>> /\ result.values[l] # Null
             /\ OfKind(result.values[l], kind) # {}
    BY <2>2, Zenon DEF OfLog
  <2> QED BY <2>3, <2>4, <2>5
<1>6. CASE section \notin {"memory", "devices", "gpus", "event_logs"}
  <2>1. evaluations = <<>>
    BY <1>1, <1>6 DEF Diagnose
  <2> QED BY <2>1
<1> QED BY <1>2, <1>3, <1>4, <1>5, <1>6

\* The offset is asked for once, and what does not fit becomes a null.
LEMMA OffsetFits == \A bias \in Int : Offset(bias) \in {Null} \cup Int16
BY DEF Offset

LEMMA FitsKept ==
    ASSUME AskClock, AllRead, Fits(answer)
    PROVE  Fits(answer)'
<1>1. section = "clock" /\ section' = section /\ pc.bias \in Int
  <2>1. section = "clock" /\ section' = section /\ stage = "collecting"
    BY DEF AskClock, Hear, Ask, later
  <2> QED BY <2>1 DEF AllRead, IInv, Fixed, ClockOK
<1> DEFINE R == {Null} \cup Int16
           o == "utc_offset_minutes"
           Sound(a) == o \in DOMAIN a.values => a.values[o] \in R
<1>2. ASSUME NEW a, Sound(a), answer' = Join(answer, a) PROVE Fits(answer)'
  <2>1. answer'.values = Beside(answer.values, a.values)
    BY <1>2 DEF Join, Answer
  <2>2. o \in DOMAIN answer.values => answer.values[o] \in R
    BY <1>1 DEF Fits
  <2>3. o \in DOMAIN answer'.values => answer'.values[o] \in R
    BY <1>2, <2>1, <2>2 DEF Beside
  <2> QED BY <2>3 DEF Fits
<1>3. ASSUME NEW a \in HardwareClockAnswers \cup SystemTimeAnswers \cup TimeServiceAnswers
      PROVE  Sound(a)
  <2>1. o \notin DOMAIN a.values
    BY DEF HardwareClockAnswers, SystemTimeAnswers, TimeServiceAnswers, Or, Unsaid, Missed,
           GotAll, Got, Answer
  <2> QED BY <2>1
<1>4. ASSUME NEW a \in UtcOffsetAnswers(pc.bias) PROVE Sound(a)
  <2>1. CASE Offset(pc.bias) # Null /\ a = Got([utc_offset_minutes |-> Offset(pc.bias)])
    <3>1. a.values[o] = Offset(pc.bias)
      BY <2>1 DEF Got, Answer
    <3> QED BY <1>1, <3>1, OffsetFits
  <2>2. CASE \E status, code : a = Missed({o}, status, code)
    BY <2>2 DEF Missed, Answer
  <2> QED BY <2>1, <2>2 DEF UtcOffsetAnswers, Or
<1> HIDE DEF Sound
<1>5. \E a \in HardwareClockAnswers \cup SystemTimeAnswers \cup TimeServiceAnswers
               \cup UtcOffsetAnswers(pc.bias) : answer' = Join(answer, a)
  BY DEF AskClock, Hear
<1> QED BY <1>2, <1>3, <1>4, <1>5

LEMMA TypesInit == Init => TypesKept
<1> SUFFICES ASSUME Init PROVE TypesKept
  OBVIOUS
<1>1. /\ section \in Collecting /\ section \in SectionNames /\ changes = 0 /\ MaxChanges \in Nat
      /\ stage = "collecting" /\ todo = Queries(section) /\ answer = Got(<<>>)
      /\ result = Null /\ errors = {} /\ evaluations = <<>>
  BY SectionsAssumption DEF Init
<1>2. todo \in Seq(ToSet(Queries(section)))
  BY <1>1, QueriesListed
<1>3. Reasoned(answer)
  BY <1>1, NothingReasoned
<1>4. Fits(answer)
  <2>1. DOMAIN answer.values = {}
    BY <1>1 DEF Got, Answer
  <2> QED BY <2>1 DEF Fits
<1> QED BY <1>1, <1>2, <1>3, <1>4 DEF TypesKept

\* What a step does to the questions, the changes and the answer.
LEMMA StepTypes ==
    ASSUME [Next]_vars
    PROVE  /\ section' = section
           /\ todo' = todo \/ todo' = <<>> \/ (todo # <<>> /\ todo' = Tail(todo))
           /\ changes' = changes \/ (changes < MaxChanges /\ changes' = changes + 1)
           /\ UNCHANGED answer \/ (stage = "collecting" /\ UNCHANGED later)
           /\ \/ UNCHANGED <<stage, result, errors, evaluations>>
              \/ Return \/ Lose \/ Gate \/ Evaluate
<1>1. section' = section
  BY DEF vars, later, Next, Work, Change, GiveUp, Lose, Return, Gate, Evaluate, AskWindows,
     AskClock, AskFirmware, AskMemory, AskSecurity, AskCpu, AskGpu, AskDevices, AskEventLogs,
     AskUpdates, AskRuntime, Hear, See, Ask, SwitchProcessor, PlugCard, UnplugCard,
     InstallUpdate, ClearHistory, Changing
<1>2. todo' = todo \/ todo' = <<>> \/ (todo # <<>> /\ todo' = Tail(todo))
  BY DEF vars, later, Next, Work, Change, GiveUp, Lose, Return, Gate, Evaluate, AskWindows,
     AskClock, AskFirmware, AskMemory, AskSecurity, AskCpu, AskGpu, AskDevices, AskEventLogs,
     AskUpdates, AskRuntime, Hear, See, Ask, SwitchProcessor, PlugCard, UnplugCard,
     InstallUpdate, ClearHistory, Changing
<1>3. changes' = changes \/ (changes < MaxChanges /\ changes' = changes + 1)
  BY DEF vars, later, Next, Work, Change, GiveUp, Lose, Return, Gate, Evaluate, AskWindows,
     AskClock, AskFirmware, AskMemory, AskSecurity, AskCpu, AskGpu, AskDevices, AskEventLogs,
     AskUpdates, AskRuntime, Hear, See, Ask, SwitchProcessor, PlugCard, UnplugCard,
     InstallUpdate, ClearHistory, Changing
<1>4. UNCHANGED answer \/ (stage = "collecting" /\ UNCHANGED later)
  BY DEF vars, later, Next, Work, Change, GiveUp, Lose, Return, Gate, Evaluate, AskWindows,
     AskClock, AskFirmware, AskMemory, AskSecurity, AskCpu, AskGpu, AskDevices, AskEventLogs,
     AskUpdates, AskRuntime, Hear, See, Ask, SwitchProcessor, PlugCard, UnplugCard,
     InstallUpdate, ClearHistory, Changing
<1>5. \/ UNCHANGED <<stage, result, errors, evaluations>>
      \/ Return \/ Lose \/ Gate \/ Evaluate
  BY DEF vars, later, Next, Work, Change, GiveUp, AskWindows,
     AskClock, AskFirmware, AskMemory, AskSecurity, AskCpu, AskGpu, AskDevices, AskEventLogs,
     AskUpdates, AskRuntime, Hear, See, Ask, SwitchProcessor, PlugCard, UnplugCard,
     InstallUpdate, ClearHistory, Changing
<1> QED BY <1>1, <1>2, <1>3, <1>4, <1>5

LEMMA TypesStep ==
    ASSUME [Next]_vars, AllRead, TypesKept, stage' = "collecting" => Reasoned(answer)'
    PROVE  TypesKept'
<1>1. /\ section' = section /\ section \in SectionNames
      /\ todo' = todo \/ todo' = <<>> \/ (todo # <<>> /\ todo' = Tail(todo))
      /\ changes' = changes \/ (changes < MaxChanges /\ changes' = changes + 1)
      /\ UNCHANGED answer \/ (stage = "collecting" /\ UNCHANGED later)
      /\ \/ UNCHANGED <<stage, result, errors, evaluations>>
         \/ Return \/ Lose \/ Gate \/ Evaluate
  BY StepTypes DEF AllRead, DInv
<1>2. todo' \in Seq(ToSet(Queries(section')))
  <2> DEFINE S == ToSet(Queries(section))
  <2>1. todo \in Seq(S) /\ <<>> \in Seq(S)
    BY DEF TypesKept
  <2> HIDE DEF S
  <2>2. todo # <<>> => Tail(todo) \in Seq(S)
    BY <2>1
  <2>3. todo' \in Seq(S)
    BY <1>1, <2>1, <2>2
  <2> QED BY <1>1, <2>3 DEF S
<1>3. changes' \in 0 .. MaxChanges
  BY <1>1, SectionsAssumption DEF TypesKept
<1>4. Reasoned(answer)'
  <2>1. answer' = answer => Reasoned(answer)'
    BY DEF Reasoned, TypesKept
  <2>2. stage = "collecting" /\ UNCHANGED later => stage' = "collecting"
    BY DEF later
  <2> QED BY <1>1, <2>1, <2>2
<1>5. Fits(answer)'
  <2>1. CASE answer' = answer
    BY <1>1, <2>1 DEF Fits, TypesKept
  <2>2. CASE AskClock
    BY <2>2, FitsKept DEF TypesKept
  <2>3. CASE section # "clock"
    BY <1>1, <2>3 DEF Fits
  <2>4. section = "clock" => answer' = answer \/ AskClock
    BY DEF vars, later, Next, Work, Change, GiveUp, Lose, Return, Gate, Evaluate, AskWindows,
       AskFirmware, AskMemory, AskSecurity, AskCpu, AskGpu, AskDevices, AskEventLogs,
       AskUpdates, AskRuntime, Hear, See, Ask, SwitchProcessor, PlugCard, UnplugCard,
       InstallUpdate, ClearHistory, Changing
  <2> QED BY <2>1, <2>2, <2>3, <2>4
<1>6. result' # Null => result'.status \in Statuses
  <2>1. CASE Return
    <3>1. result' = Judge(section, answer)
      BY <2>1 DEF Return
    <3> QED BY <1>1, <3>1, JudgedStatus
  <2>2. CASE Lose
    <3>1. result' = Lost(EmptyPaths(section))
      BY <2>2 DEF Lose
    <3> QED BY <3>1, LostFails DEF Statuses
  <2>3. CASE result' = result
    BY <2>3 DEF TypesKept
  <2> QED BY <1>1, <2>1, <2>2, <2>3 DEF Gate, Evaluate
<1>7. stage' = "rules" => errors' = {}
  BY <1>1 DEF Return, Lose, Gate, Evaluate, TypesKept
<1>8. Written' \/ evaluations' = <<>>
  BY <1>1 DEF Return, Lose, Gate, Evaluate, TypesKept, Written
<1> QED BY <1>1, <1>2, <1>3, <1>4, <1>5, <1>6, <1>7, <1>8 DEF TypesKept

LEMMA TypesOK == AllRead /\ TypesKept => TypeOK
<1> SUFFICES ASSUME AllRead, TypesKept PROVE TypeOK
  OBVIOUS
<1>1. ToSet(todo) \subseteq ToSet(Queries(section))
  <2> DEFINE S == ToSet(Queries(section))
  <2>1. todo \in Seq(S)
    BY DEF TypesKept
  <2> HIDE DEF S
  <2>2. \A i \in DOMAIN todo : todo[i] \in S
    BY <2>1
  <2>3. ToSet(todo) \subseteq S
    BY <2>2 DEF ToSet
  <2> QED BY <2>3 DEF S
<1>2. \A n \in DOMAIN evaluations : evaluations[n].rule \in Catalogue
  <2>1. CASE Written
    BY <2>1, RulesKnown DEF AllRead
  <2>2. CASE evaluations = <<>>
    BY <2>2
  <2> QED BY <2>1, <2>2 DEF TypesKept
<1>3. stage \in {"collecting", "gate", "rules", "done"}
  BY DEF AllRead, DInv
<1>4. section = "clock" /\ "utc_offset_minutes" \in DOMAIN answer.values =>
         answer.values["utc_offset_minutes"] \in {Null} \cup Int16
  BY DEF TypesKept, Fits
<1>5. /\ section \in Collecting /\ changes \in 0 .. MaxChanges
      /\ DOMAIN answer.reasons \cap (DOMAIN answer.values \ Nulls(answer.values)) \subseteq
            {<<0, c>> : c \in Categories}
      /\ result # Null => result.status \in {"success", "partial", "failed"}
  BY DEF TypesKept, Reasoned, Statuses
<1> QED BY <1>1, <1>2, <1>3, <1>4, <1>5 DEF TypeOK

LEMMA TypesInvariance == Spec => [](AllRead /\ TypesKept)
<1>1. AllRead => (stage = "collecting" => Reasoned(answer))
  BY AnswersReasoned
<1>2. /\ AllRead /\ TypesKept /\ [Next]_vars
      /\ (stage = "collecting" => Reasoned(answer))'
      => TypesKept'
  BY TypesStep
<1>3. Init => TypesKept
  BY TypesInit
<1> QED BY <1>1, <1>2, <1>3, AllReadInvariance, PTL DEF Spec

-----------------------------------------------------------------------------
(* The theorems *)

\* Whatever Windows answers, whichever questions fail, whatever comes or goes between two
\* of them and wherever the worker is lost: the gate refuses no section but for a time zone
\* beyond a day, a year of five digits, a blank event text, an adapter without a name, and
\* an adapter shown with the device of an equal one because its own is gone or cannot be
\* told (ExplainedRefusal of the eleven collectors and validation.rs, with nothing left
\* out).
THEOREM EveryRefusalExplained == Spec => []ExplainedRefusal
BY AllReadInvariance, RefusalsOK, PTL

\* A success lacks nothing but what cannot be there.  Whatever comes or goes, no adapter
\* whose own device can be told is shown with another's, and the numbers of processors,
\* cores and packages are off by no more than the changes since; if nothing came or went,
\* they, the adapters, devices, events and items are those of the PC (SuccessIsComplete).
THEOREM EverySuccessComplete == Spec => []SuccessIsComplete
BY AllReadInvariance, CompletesOK, PTL

\* "passed" is said only when every adapter, and every device that is present, works: the
\* numbers of another adapter are never taken for those of one that is stopped, not even
\* when adapters come and go between the two lists, unless the stopped one cannot be told
\* apart from one that came after the first (PassIsEarned, with nothing left out).
THEOREM EveryPassEarned == Spec => []PassIsEarned
<1>1. AllRead => PassIsEarned
  BY PassOK, AdaptersPassed DEF AllRead
<1> QED BY <1>1, AllReadInvariance, PTL

\* Whatever happens, the state is one of those the module describes: in particular a
\* reason is for a null, an offset fits 16 bits, and a rule that speaks is one of the
\* catalogue (TypeOK; FieldStatus of status.rs, and BUILTIN_RULE_IDS).
THEOREM EveryStateTyped == Spec => []TypeOK
BY TypesInvariance, TypesOK, PTL
=============================================================================
