--------------------------- MODULE DiagnosisProofs ---------------------------
(***************************************************************************)
(* The rules on memory, devices and adapters (core/rules.rs), the summary  *)
(* of their evaluations, and the check of a diagnosis against its          *)
(* collection (validate_against, core/validation.rs).                      *)
(***************************************************************************)
EXTENDS SectionsProofs, FiniteSetTheorems

-----------------------------------------------------------------------------
(* Induction, over a set of numbers *)

LEMMA Induction ==
    ASSUME NEW S, 0 \in S, \A n \in Nat : n \in S => n + 1 \in S
    PROVE  \A n \in Nat : n \in S
<1> SUFFICES ASSUME NEW m \in Nat, m \notin S PROVE FALSE
  OBVIOUS
<1> DEFINE T == {j \in 1 .. m : \A i \in 0 .. j : i \in S}
           k == Cardinality(T)
<1>1. T \subseteq 1 .. m /\ IsFiniteSet(1 .. m) /\ Cardinality(1 .. m) = m
  BY FS_Interval
<1>2. IsFiniteSet(T) /\ k \in Nat /\ k <= m
  BY <1>1, FS_Subset, FS_CardinalityType
<1>3. \A j \in T : 1 .. j \subseteq T
  OBVIOUS
<1> HIDE DEF T
<1>4. T \subseteq 1 .. k
  <2> SUFFICES ASSUME NEW j \in T PROVE j <= k /\ j \in Nat /\ 1 <= j
    BY <1>2
  <2>1. j \in Nat /\ 1 <= j
    BY <1>1
  <2>2. Cardinality(1 .. j) = j
    BY <2>1, FS_Interval
  <2>3. Cardinality(1 .. j) <= Cardinality(T)
    BY <1>2, <1>3, FS_Subset
  <2> QED BY <2>1, <2>2, <2>3
<1>5. T = 1 .. k
  <2>1. IsFiniteSet(1 .. k) /\ Cardinality(1 .. k) = k
    BY <1>2, FS_Interval
  <2> QED BY <1>4, <2>1, FS_Subset
<1>6. \A i \in 0 .. k : i \in S
  <2>1. CASE k = 0
    BY <2>1
  <2>2. CASE k # 0
    <3>1. k \in T
      BY <1>2, <1>5, <2>2
    <3> QED BY <3>1 DEF T
  <2> QED BY <2>1, <2>2
<1>7. k + 1 \in S
  <2>1. k \in S
    BY <1>2, <1>6
  <2> QED BY <1>2, <2>1
<1>8. k < m
  BY <1>2, <1>6
<1>9. k + 1 \in T
  <2>1. ASSUME NEW i \in 0 .. (k + 1) PROVE i \in S
    <3>1. i \in 0 .. k \/ i = k + 1
      BY <1>2
    <3> QED BY <1>6, <1>7, <3>1
  <2>2. k + 1 \in 1 .. m
    BY <1>2, <1>8
  <2> QED BY <2>1, <2>2 DEF T
<1> QED BY <1>2, <1>5, <1>9

LEMMA MaxIs ==
    ASSUME NEW s, s \subseteq Int, NEW x \in s, \A y \in s : x >= y
    PROVE  Max(s) = x
<1>1. \A z \in s : (\A y \in s : z >= y) => z = x
  <2> SUFFICES ASSUME NEW z \in s, \A y \in s : z >= y PROVE z = x
    OBVIOUS
  <2>1. z >= x /\ x >= z /\ z \in Int /\ x \in Int
    OBVIOUS
  <2> QED BY <2>1
<1> QED BY <1>1 DEF Max

\* A set of the first numbers is empty or has a greatest element.
LEMMA Greatest ==
    ASSUME NEW n \in Nat, NEW s, s \subseteq 1 .. n, s # {}
    PROVE  Max(s) \in s /\ \A y \in s : Max(s) >= y
<1> DEFINE Good == {k \in Nat : \A t \in SUBSET (1 .. k) :
                       t # {} => \E x \in t : \A y \in t : x >= y}
<1>1. 0 \in Good
  <2>1. 1 .. 0 = {}
    OBVIOUS
  <2> QED BY <2>1
<1>2. ASSUME NEW k \in Nat, k \in Good PROVE k + 1 \in Good
  <2> SUFFICES ASSUME NEW t \in SUBSET (1 .. (k + 1)), t # {}
               PROVE  \E x \in t : \A y \in t : x >= y
    OBVIOUS
  <2>1. CASE k + 1 \in t
    BY <2>1
  <2>2. CASE k + 1 \notin t
    <3>1. t \in SUBSET (1 .. k)
      BY <2>2
    <3> QED BY <1>2, <3>1
  <2> QED BY <2>1, <2>2
<1>3. n \in Good
  <2> HIDE DEF Good
  <2> QED BY <1>1, <1>2, Induction
<1>4. PICK x \in s : \A y \in s : x >= y
  BY <1>3
<1>5. s \subseteq Int
  OBVIOUS
<1> QED BY <1>4, <1>5, MaxIs

-----------------------------------------------------------------------------
(* The summary *)

Severities == {"warning", "error", "critical"}
Counted == {"passed", "triggered", "not_applicable", "not_evaluated"} \cup ToSet(Ranks)

\* The evaluations of s that are counted under c.
Under(ev, s, c) == {n \in s : c \in {ev[n].status, ev[n].severity}}

Worst(ev, s) ==
    IF \E n \in s : ev[n].severity = "critical" THEN "critical"
    ELSE IF \E n \in s : ev[n].severity = "error" THEN "error"
    ELSE IF \E n \in s : ev[n].severity = "warning" THEN "warning"
    ELSE Null

\* The summary of the evaluations in s, at once.
SummaryOf(ev, s) ==
    [overall |-> Worst(ev, s), counts |-> [c \in Counted |-> Cardinality(Under(ev, s, c))]]

LEMMA RankIs == Rank("warning") = 1 /\ Rank("error") = 2 /\ Rank("critical") = 3
<1>1. DOMAIN Ranks = 1 .. 3 /\ Ranks[1] = "warning" /\ Ranks[2] = "error" /\ Ranks[3] = "critical"
  BY DEF Ranks
<1>2. \A n \in 1 .. 3 : n = 1 \/ n = 2 \/ n = 3
  OBVIOUS
<1>3. /\ \A n \in DOMAIN Ranks : Ranks[n] = "warning" <=> n = 1
      /\ \A n \in DOMAIN Ranks : Ranks[n] = "error" <=> n = 2
      /\ \A n \in DOMAIN Ranks : Ranks[n] = "critical" <=> n = 3
  BY <1>1, <1>2
<1>4. 1 \in DOMAIN Ranks /\ 2 \in DOMAIN Ranks /\ 3 \in DOMAIN Ranks
  BY <1>1
<1> QED BY <1>3, <1>4 DEF Rank

\* One evaluation more.
LEMMA SummaryGrows ==
    ASSUME NEW ev, NEW s, NEW x \in s, IsFiniteSet(s),
           \A n \in s : ev[n].severity \in {Null} \cup Severities,
           NEW before, before = SummaryOf(ev, s \ {x})
    PROVE  SummaryOf(ev, s) =
             [overall |-> IF ev[x].severity # Null /\ Worse(ev[x].severity, before.overall)
                          THEN ev[x].severity ELSE before.overall,
              counts |-> [c \in DOMAIN before.counts |->
                            IF c \in {ev[x].status, ev[x].severity} THEN before.counts[c] + 1
                            ELSE before.counts[c]]]
<1> DEFINE e == ev[x]
           rest == s \ {x}
<1>0. Null \notin Severities
  BY NullAssumption DEF Severities
<1>1. before.overall = Worst(ev, rest)
      /\ before.counts = [c \in Counted |-> Cardinality(Under(ev, rest, c))]
  BY DEF SummaryOf
<1>2. Worst(ev, s) = IF e.severity # Null /\ Worse(e.severity, Worst(ev, rest)) THEN e.severity
                     ELSE Worst(ev, rest)
  <2>1. \A v : (\E n \in s : ev[n].severity = v) <=> e.severity = v \/ (\E n \in rest : ev[n].severity = v)
    OBVIOUS
  <2>2. e.severity \in {Null, "warning", "error", "critical"}
    BY DEF Severities
  <2>3. Worst(ev, rest) \in {Null, "warning", "error", "critical"}
    BY DEF Worst
  <2>4. CASE e.severity = Null
    BY <1>0, <2>1, <2>4 DEF Worst, Severities
  <2>5. CASE e.severity = "critical"
    BY <1>0, <2>1, <2>3, <2>5, RankIs DEF Worst, Severities, Worse
  <2>6. CASE e.severity = "error"
    BY <1>0, <2>1, <2>3, <2>6, RankIs DEF Worst, Severities, Worse
  <2>7. CASE e.severity = "warning"
    BY <1>0, <2>1, <2>3, <2>7, RankIs DEF Worst, Severities, Worse
  <2> QED BY <2>2, <2>4, <2>5, <2>6, <2>7
<1>3. ASSUME NEW c \in Counted
      PROVE  Cardinality(Under(ev, s, c)) =
               IF c \in {e.status, e.severity} THEN Cardinality(Under(ev, rest, c)) + 1
               ELSE Cardinality(Under(ev, rest, c))
  <2>1. IsFiniteSet(Under(ev, rest, c)) /\ x \notin Under(ev, rest, c)
    <3>1. Under(ev, rest, c) \subseteq s
      BY DEF Under
    <3> QED BY <3>1, FS_Subset DEF Under
  <2>2. Under(ev, s, c) = IF c \in {e.status, e.severity} THEN Under(ev, rest, c) \cup {x}
                          ELSE Under(ev, rest, c)
    BY DEF Under
  <2> QED BY <2>1, <2>2, FS_AddElement
<1> HIDE DEF e, rest
<1>4. DOMAIN before.counts = Counted
      /\ \A c \in Counted : before.counts[c] = Cardinality(Under(ev, rest, c))
  BY <1>1
<1>5. SummaryOf(ev, s) =
        [overall |-> IF e.severity # Null /\ Worse(e.severity, before.overall)
                     THEN e.severity ELSE before.overall,
         counts |-> [c \in DOMAIN before.counts |->
                       IF c \in {e.status, e.severity} THEN before.counts[c] + 1
                       ELSE before.counts[c]]]
  <2>1. [c \in Counted |-> Cardinality(Under(ev, s, c))] =
          [c \in DOMAIN before.counts |->
             IF c \in {e.status, e.severity} THEN before.counts[c] + 1 ELSE before.counts[c]]
    <3> DEFINE f(c) == Cardinality(Under(ev, s, c))
               g(c) == IF c \in {e.status, e.severity} THEN before.counts[c] + 1
                       ELSE before.counts[c]
    <3>1. \A c \in Counted : f(c) = g(c)
      BY <1>3, <1>4
    <3>2. DOMAIN before.counts = Counted
      BY <1>4
    <3> HIDE DEF f, g
    <3>3. [c \in Counted |-> f(c)] = [c \in DOMAIN before.counts |-> g(c)]
      BY <3>1, <3>2
    <3> QED BY <3>3 DEF f, g
  <2>2. Worst(ev, s) = IF e.severity # Null /\ Worse(e.severity, before.overall)
                       THEN e.severity ELSE before.overall
    BY <1>1, <1>2
  <2> QED BY <2>1, <2>2 DEF SummaryOf
<1> QED BY <1>5 DEF e

\* One pass finds the summary.
LEMMA SummaryIs ==
    ASSUME NEW n \in Nat, NEW ev, DOMAIN ev = 1 .. n,
           \A i \in 1 .. n : ev[i].severity \in {Null} \cup Severities
    PROVE  Summarize(ev) = SummaryOf(ev, 1 .. n)
<1> DEFINE base == [overall |-> Null, counts |-> [c \in Counted |-> 0]]
           Add(s, e) ==
             [overall |-> IF e.severity # Null /\ Worse(e.severity, s.overall) THEN e.severity
                          ELSE s.overall,
              counts |-> [c \in DOMAIN s.counts |->
                            IF c \in {e.status, e.severity} THEN s.counts[c] + 1 ELSE s.counts[c]]]
           Pass(F) == [s \in SUBSET DOMAIN ev |->
                         IF s = {} THEN base ELSE Add(F[s \ {Max(s)}], ev[Max(s)])]
           pass == CHOOSE F : F = Pass(F)
           Whole == [s \in SUBSET DOMAIN ev |-> SummaryOf(ev, s)]
<1>1. Summarize(ev) = pass[DOMAIN ev]
  BY DEF Summarize, FoldLeft, MapThenFoldSet, Counted
<1>2. SummaryOf(ev, {}) = base
  <2>1. \A c : Under(ev, {}, c) = {}
    BY DEF Under
  <2> QED BY <2>1, FS_EmptySet DEF SummaryOf, Worst
<1>3. ASSUME NEW s \in SUBSET DOMAIN ev, NEW x \in s
      PROVE  SummaryOf(ev, s) = Add(SummaryOf(ev, s \ {x}), ev[x])
  <2>1. IsFiniteSet(s)
    BY FS_Interval, FS_Subset
  <2>2. \A i \in s : ev[i].severity \in {Null} \cup Severities
    OBVIOUS
  <2> QED BY <2>1, <2>2, SummaryGrows
<1> HIDE DEF base, Add
\* There is such a pass: the summaries of all sets.
<1>4. \E F : F = Pass(F)
  <2>1. \A s \in SUBSET DOMAIN ev :
           SummaryOf(ev, s) = IF s = {} THEN base ELSE Add(Whole[s \ {Max(s)}], ev[Max(s)])
    <3> SUFFICES ASSUME NEW s \in SUBSET DOMAIN ev, s # {}
                 PROVE  SummaryOf(ev, s) = Add(Whole[s \ {Max(s)}], ev[Max(s)])
      BY <1>2
    <3>1. Max(s) \in s
      BY Greatest
    <3> QED BY <1>3, <3>1
  <2>2. Whole = Pass(Whole)
    BY <2>1
  <2> QED BY <2>2
<1>5. pass = Pass(pass)
  <2> HIDE DEF Pass
  <2> QED BY <1>4
<1> HIDE DEF pass
\* Any other pass gives the same.
<1> DEFINE Same == {k \in Nat : \A s \in SUBSET (1 .. k) :
                       s \in SUBSET DOMAIN ev => pass[s] = SummaryOf(ev, s)}
<1>6. 0 \in Same
  <2>1. 1 .. 0 = {}
    OBVIOUS
  <2>2. pass[{}] = base
    BY <1>5
  <2> QED BY <1>2, <2>1, <2>2
<1>7. ASSUME NEW k \in Nat, k \in Same PROVE k + 1 \in Same
  <2> SUFFICES ASSUME NEW s \in SUBSET (1 .. (k + 1)), s \in SUBSET DOMAIN ev
               PROVE  pass[s] = SummaryOf(ev, s)
    OBVIOUS
  <2>1. CASE k + 1 \in s
    <3>1. \A y \in s : k + 1 >= y
      OBVIOUS
    <3>2. s \subseteq Int
      OBVIOUS
    <3>3. Max(s) = k + 1
      BY <2>1, <3>1, <3>2, MaxIs
    <3>4. pass[s] = Add(pass[s \ {k + 1}], ev[k + 1])
      BY <1>5, <2>1, <3>3
    <3>5. s \ {k + 1} \in SUBSET (1 .. k) /\ s \ {k + 1} \in SUBSET DOMAIN ev
      BY <1>7
    <3>6. pass[s \ {k + 1}] = SummaryOf(ev, s \ {k + 1})
      BY <1>7, <3>5
    <3> QED BY <1>3, <2>1, <3>4, <3>6
  <2>2. CASE k + 1 \notin s
    <3>1. s \in SUBSET (1 .. k)
      BY <1>7, <2>2
    <3> QED BY <1>7, <3>1
  <2> QED BY <2>1, <2>2
<1>8. n \in Same
  <2> HIDE DEF Same
  <2> QED BY <1>6, <1>7, Induction
<1>9. pass[1 .. n] = SummaryOf(ev, 1 .. n)
  BY <1>8
<1> QED BY <1>1, <1>9

\* The summary adds up: what validate_against asks of it.
LEMMA SummaryAddsUp ==
    ASSUME NEW n \in Nat, NEW ev, DOMAIN ev = 1 .. n,
           \A i \in 1 .. n : ev[i].severity \in {Null} \cup Severities,
           NEW summary, summary = Summarize(ev)
    PROVE  /\ \A c \in DOMAIN summary.counts :
                summary.counts[c] = Cardinality({i \in DOMAIN ev : c \in {ev[i].status, ev[i].severity}})
           /\ summary.overall = Null <=> Cardinality({i \in DOMAIN ev : ev[i].severity # Null}) = 0
           /\ \A i \in DOMAIN ev : ev[i].severity # Null =>
                Rank(ev[i].severity) <= Rank(summary.overall)
<1>1. summary = SummaryOf(ev, DOMAIN ev)
  BY SummaryIs
<1>2. summary.overall = Worst(ev, DOMAIN ev) /\ DOMAIN summary.counts = Counted
      /\ \A c \in Counted : summary.counts[c] =
            Cardinality({i \in DOMAIN ev : c \in {ev[i].status, ev[i].severity}})
  BY <1>1 DEF SummaryOf, Under
<1>3. Null \notin Severities
  BY NullAssumption DEF Severities
<1>4. summary.overall = Null <=> {i \in DOMAIN ev : ev[i].severity # Null} = {}
  <2>1. summary.overall = Null <=> \A i \in DOMAIN ev : ev[i].severity \notin Severities
    BY <1>2, <1>3 DEF Worst, Severities
  <2>2. \A i \in DOMAIN ev : ev[i].severity \notin Severities <=> ev[i].severity = Null
    BY <1>3
  <2> QED BY <2>1, <2>2
<1>5. IsFiniteSet({i \in DOMAIN ev : ev[i].severity # Null})
  <2>1. IsFiniteSet(DOMAIN ev)
    BY FS_Interval
  <2>2. {i \in DOMAIN ev : ev[i].severity # Null} \subseteq DOMAIN ev
    OBVIOUS
  <2> QED BY <2>1, <2>2, FS_Subset
<1>6. ASSUME NEW i \in DOMAIN ev, ev[i].severity # Null
      PROVE  Rank(ev[i].severity) <= Rank(summary.overall)
  <2>1. ev[i].severity \in {"warning", "error", "critical"}
    BY <1>6 DEF Severities
  <2>2. CASE ev[i].severity = "critical"
    BY <1>2, <2>2, RankIs DEF Worst
  <2>3. CASE ev[i].severity = "error"
    BY <1>2, <2>3, RankIs DEF Worst
  <2>4. CASE ev[i].severity = "warning"
    BY <1>2, <2>4, RankIs DEF Worst
  <2> QED BY <2>1, <2>2, <2>3, <2>4
<1> QED BY <1>2, <1>4, <1>5, <1>6, FS_EmptySet

-----------------------------------------------------------------------------
(* What validate_against asks of one evaluation *)

Faithful(s, values, e) ==
    /\ e.severity \in {Null} \cup Severities
    /\ e.status = "triggered" <=> e.severity # Null
    /\ e.status = "not_evaluated" => e.reason # {}
    /\ \A evidence \in e.evidence : Holds(s, values, evidence)

LEMMA AcceptedIs ==
    ASSUME NEW s, NEW values, NEW n \in Nat, NEW ev, DOMAIN ev = 1 .. n,
           \A i \in 1 .. n : Faithful(s, values, ev[i]),
           \A i, k \in 1 .. n : ev[i].rule = ev[k].rule => i = k
    PROVE  Accepted(s, values, ev, Summarize(ev))
<1>1. \A i \in 1 .. n : ev[i].severity \in {Null} \cup Severities
  BY DEF Faithful
<1> DEFINE summary == Summarize(ev)
<1>2. /\ \A c \in DOMAIN summary.counts :
            summary.counts[c] = Cardinality({i \in DOMAIN ev : c \in {ev[i].status, ev[i].severity}})
      /\ summary.overall = Null <=> Cardinality({i \in DOMAIN ev : ev[i].severity # Null}) = 0
      /\ \A i \in DOMAIN ev : ev[i].severity # Null =>
            Rank(ev[i].severity) <= Rank(summary.overall)
  BY <1>1, SummaryAddsUp
<1> HIDE DEF summary
<1>3. \A i \in DOMAIN ev :
        /\ ev[i].status = "triggered" <=> ev[i].severity # Null
        /\ ev[i].status = "not_evaluated" => ev[i].reason # {}
        /\ \A evidence \in ev[i].evidence : Holds(s, values, evidence)
  BY DEF Faithful
<1>4. Accepted(s, values, ev, summary)
  BY <1>2, <1>3 DEF Accepted
<1> QED BY <1>4 DEF summary

Backed(s, values, evidence) == \A x \in evidence : Holds(s, values, x)

\* Evidence from the paths of values that are there.
Evident(values, paths) == paths \subseteq DOMAIN values /\ \A p \in paths : values[p] # Null

LEMMA CollectedHolds ==
    ASSUME NEW s, s # "event_logs", NEW values, NEW paths, Evident(values, paths)
    PROVE  Backed(s, values, Collected(values, paths))
  BY DEF Evident, Collected, Holds, Backed

\* The forms an evaluation takes.
LEMMA JudgedFaithful ==
    ASSUME NEW s, NEW values, NEW evidence, Backed(s, values, evidence),
           NEW rule, NEW triggered \in BOOLEAN, NEW severity \in Severities, NEW reason
    PROVE  LET e == Judged(rule, triggered, severity, evidence, reason)
           IN  /\ Faithful(s, values, e) /\ e.rule = rule
               /\ e.status = IF triggered THEN "triggered" ELSE "passed"
               /\ triggered => e.severity = severity
<1>1. severity # Null
  BY NullAssumption DEF Severities
<1> QED BY <1>1 DEF Judged, Evaluation, Faithful, Backed

LEMMA NotEvaluatedFaithful ==
    ASSUME NEW s, NEW values, NEW evidence, Backed(s, values, evidence),
           NEW rule, NEW reason, reason # {}
    PROVE  LET e == NotEvaluated(rule, evidence, reason)
           IN  Faithful(s, values, e) /\ e.rule = rule /\ e.status = "not_evaluated"
  BY DEF NotEvaluated, Evaluation, Faithful, Backed

LEMMA InapplicableFaithful ==
    ASSUME NEW s, NEW values, NEW rule, NEW path
    PROVE  LET e == Inapplicable(rule, path)
           IN  Faithful(s, values, e) /\ e.rule = rule /\ e.status = "not_applicable"
  BY DEF Inapplicable, Evaluation, Faithful

-----------------------------------------------------------------------------
(* The rule on memory *)

LEMMA MemoryRuleIs ==
    ASSUME NEW values, {"total", "available"} \subseteq DOMAIN values,
           NEW e, e = MemoryRule(values)
    PROVE  /\ Faithful("memory", values, e) /\ e.rule = <<"memory", "available_ratio">>
           /\ e.status = "passed" =>
                /\ values["total"] # Null /\ values["available"] # Null
                /\ ~(10 * values["available"] < values["total"])
<1> DEFINE rule == <<"memory", "available_ratio">>
           paths == {"total", "available"}
           missing == {p \in paths : values[p] = Null}
           low == 10 * values["available"] < values["total"]
           all == Collected(values, paths)
           some == Collected(values, {"total"})
<1>1. CASE missing # {}
  <2>1. e = NotEvaluated(rule, {}, missing)
    BY <1>1 DEF MemoryRule
  <2> HIDE DEF missing, rule
  <2>2. Faithful("memory", values, e) /\ e.rule = rule /\ e.status = "not_evaluated"
    BY <1>1, <2>1, NotEvaluatedFaithful DEF Backed
  <2> QED BY <2>2 DEF rule
<1>2. CASE missing = {} /\ values["total"] = 0
  <2>1. e = NotEvaluated(rule, some, {"total"})
    BY <1>2 DEF MemoryRule
  <2>2. Evident(values, {"total"})
    BY <1>2 DEF Evident
  <2>3. Backed("memory", values, some)
    BY <2>2, CollectedHolds
  <2> HIDE DEF some, rule
  <2>4. Faithful("memory", values, e) /\ e.rule = rule /\ e.status = "not_evaluated"
    BY <2>1, <2>3, NotEvaluatedFaithful
  <2> QED BY <2>4 DEF rule
<1>3. CASE missing = {} /\ values["total"] # 0
  <2>1. e = Judged(rule, low, "warning", all, {})
    BY <1>3 DEF MemoryRule
  <2>2. Evident(values, paths)
    BY <1>3 DEF Evident
  <2>3. low \in BOOLEAN /\ "warning" \in Severities
    BY DEF Severities
  <2>4. values["total"] # Null /\ values["available"] # Null
    BY <1>3
  <2>5. Backed("memory", values, all)
    BY <2>2, CollectedHolds
  <2> HIDE DEF low, all, rule
  <2>6. Faithful("memory", values, e) /\ e.rule = rule
        /\ e.status = IF low THEN "triggered" ELSE "passed"
    BY <2>1, <2>3, <2>5, JudgedFaithful
  <2> QED BY <2>4, <2>6 DEF low, rule
<1> QED BY <1>1, <1>2, <1>3

-----------------------------------------------------------------------------
(* The rule on devices and those on adapters *)

\* The values of a list: each entry has the fields, and a list that is missing has none.
Listing(values, list, fields) ==
    /\ <<0, list>> \in DOMAIN values
    /\ values[<<0, list>>] = Null => Entries(values) = {}
    /\ \A i \in Entries(values), f \in fields : <<i, f>> \in DOMAIN values

LEMMA DeviceRuleIs ==
    ASSUME NEW values, Listing(values, "devices", {"present", "problem"}),
           NEW e, e = DeviceRule(values)
    PROVE  /\ Faithful("devices", values, e) /\ e.rule = <<"device", "device_problem">>
           /\ values[<<0, "devices">>] # Null =>
                \A i \in Entries(values) : values[<<i, "present">>] = TRUE =>
                  /\ values[<<i, "problem">>] \notin {Null, 0} => e.status = "triggered"
                  /\ values[<<i, "problem">>] \notin {Null, 0, 22} => e.severity = "error"
                  /\ e.status = "passed" => values[<<i, "problem">>] = 0
           /\ values[<<0, "devices">>] = Null => e.status = "not_evaluated"
<1> DEFINE rule == <<"device", "device_problem">>
           present == {i \in Entries(values) : values[<<i, "present">>] = TRUE}
           paths == present \X {"problem"}
           missing == {p \in paths : values[p] = Null}
           codes == {values[p] : p \in paths \ missing} \ {0}
           evidence == Collected(values, paths \ missing)
           severity == IF DisabledOnly(codes) THEN "warning" ELSE "error"
           none == values[<<0, "devices">>] = Null
<1>1. e = CASE none -> NotEvaluated(rule, {}, {<<0, "devices">>})
            [] ~none /\ present = {} -> Inapplicable(rule, <<0, "devices">>)
            [] present # {} /\ codes = {} /\ missing # {} -> NotEvaluated(rule, evidence, missing)
            [] OTHER -> Judged(rule, codes # {}, severity, evidence, missing)
  BY DEF DeviceRule
<1>2. none => present = {}
  BY DEF Listing
<1>3. Backed("devices", values, evidence)
  <2>1. Evident(values, paths \ missing)
    BY DEF Evident, Listing
  <2> QED BY <2>1, CollectedHolds
<1>4. \A i \in present :
        /\ values[<<i, "problem">>] \notin {Null, 0} => values[<<i, "problem">>] \in codes
        /\ codes = {} /\ missing = {} => values[<<i, "problem">>] = 0
  BY DEF Listing
<1> DEFINE list == <<0, "devices">>
           found == codes # {}
<1>5. severity \in Severities /\ found \in BOOLEAN
  BY DEF Severities
<1>6. \A c \in codes : c # 22 => severity = "error"
  BY DEF DisabledOnly
<1> HIDE DEF codes, missing, severity, none, evidence, rule, list, found
<1>7. CASE none
  <2>1. e = NotEvaluated(rule, {}, {list})
    BY <1>1, <1>2, <1>7 DEF list
  <2>2. Faithful("devices", values, e) /\ e.rule = rule /\ e.status = "not_evaluated"
    BY <2>1, NotEvaluatedFaithful DEF Backed
  <2> QED BY <1>7, <2>2 DEF none, rule
<1>8. CASE ~none /\ present = {}
  <2>1. e = Inapplicable(rule, list)
    BY <1>1, <1>8 DEF list
  <2>2. Faithful("devices", values, e) /\ e.rule = rule
    BY <2>1, InapplicableFaithful
  <2> QED BY <1>8, <2>2 DEF none, rule
<1>9. CASE present # {} /\ codes = {} /\ missing # {}
  <2>1. e = NotEvaluated(rule, evidence, missing)
    BY <1>1, <1>2, <1>9
  <2>2. Faithful("devices", values, e) /\ e.rule = rule /\ e.status = "not_evaluated"
    BY <1>3, <1>9, <2>1, NotEvaluatedFaithful
  <2> QED BY <1>2, <1>4, <1>9, <2>2 DEF none, rule
<1>10. CASE present # {} /\ ~(codes = {} /\ missing # {})
  <2>1. e = Judged(rule, found, severity, evidence, missing)
    BY <1>1, <1>2, <1>10 DEF found
  <2>2. /\ Faithful("devices", values, e) /\ e.rule = rule
        /\ e.status = IF found THEN "triggered" ELSE "passed"
        /\ found => e.severity = severity
    BY <1>3, <1>5, <2>1, JudgedFaithful
  <2>3. ASSUME NEW i \in present
        PROVE  /\ values[<<i, "problem">>] \notin {Null, 0} => e.status = "triggered"
               /\ values[<<i, "problem">>] \notin {Null, 0, 22} => e.severity = "error"
               /\ e.status = "passed" => values[<<i, "problem">>] = 0
    BY <1>4, <1>6, <1>10, <2>2 DEF found
  <2> QED BY <1>2, <1>10, <2>2, <2>3 DEF none, rule
<1> QED BY <1>7, <1>8, <1>9, <1>10

\* A rule on the adapters: of the paths to one field of the hardware ones, some miss.
LEMMA PathsEvident ==
    ASSUME NEW values, NEW field,
           \A i \in Entries(values) : <<i, field>> \in DOMAIN values,
           NEW paths, paths \subseteq HardwareGpus(values) \X {field},
           \A p \in paths : values[p] # Null
    PROVE  Backed("gpus", values, Collected(values, paths))
<1>1. \A p \in paths : \E i \in Entries(values) : p = <<i, field>>
  <2>1. HardwareGpus(values) \subseteq Entries(values)
    BY DEF HardwareGpus
  <2>2. \A p \in HardwareGpus(values) \X {field} : p = <<p[1], field>> /\ p[1] \in HardwareGpus(values)
    OBVIOUS
  <2> QED BY <2>1, <2>2
<1>2. Evident(values, paths)
  BY <1>1 DEF Evident
<1> QED BY <1>2, CollectedHolds

LEMMA GpuValueRuleIs ==
    ASSUME NEW values, NEW field, NEW rule, NEW good, NEW severity \in Severities,
           \A i \in Entries(values) : <<i, field>> \in DOMAIN values,
           NEW e, e = GpuValueRule(values, rule, field, good, severity)
    PROVE  /\ Faithful("gpus", values, e) /\ e.rule = rule
           /\ \A i \in HardwareGpus(values) :
                /\ values[<<i, field>>] \notin {Null, good} => e.status = "triggered"
                /\ e.status = "passed" => values[<<i, field>>] = good
<1> DEFINE paths == HardwareGpus(values) \X {field}
           missing == {p \in paths : values[p] = Null}
           bad == {p \in paths \ missing : values[p] # good}
           found == bad # {}
           evidence == Collected(values, paths \ missing)
<1>1. e = IF bad = {} /\ missing # {} THEN NotEvaluated(rule, {}, missing)
          ELSE Judged(rule, found, severity, evidence, missing)
  BY DEF GpuValueRule
<1>2. Backed("gpus", values, evidence)
  <2>1. paths \ missing \subseteq HardwareGpus(values) \X {field}
        /\ \A p \in paths \ missing : values[p] # Null
    OBVIOUS
  <2> HIDE DEF paths, missing
  <2> QED BY <2>1, PathsEvident
<1>3. \A i \in HardwareGpus(values) :
        /\ values[<<i, field>>] \notin {Null, good} => found
        /\ missing = {} /\ ~found => values[<<i, field>>] = good
  <2> SUFFICES ASSUME NEW i \in HardwareGpus(values)
               PROVE  /\ values[<<i, field>>] \notin {Null, good} => found
                      /\ missing = {} /\ ~found => values[<<i, field>>] = good
    OBVIOUS
  <2>1. <<i, field>> \in paths
    OBVIOUS
  <2> QED BY <2>1
<1>4. found \in BOOLEAN /\ (bad = {} <=> ~found)
  OBVIOUS
<1> HIDE DEF bad, missing, evidence, found
<1>5. CASE ~found /\ missing # {}
  <2>1. e = NotEvaluated(rule, {}, missing)
    BY <1>1, <1>4, <1>5
  <2>2. Faithful("gpus", values, e) /\ e.rule = rule /\ e.status = "not_evaluated"
    BY <1>5, <2>1, NotEvaluatedFaithful DEF Backed
  <2> QED BY <1>3, <1>5, <2>2
<1>6. CASE found \/ missing = {}
  <2>1. e = Judged(rule, found, severity, evidence, missing)
    BY <1>1, <1>4, <1>6
  <2>2. /\ Faithful("gpus", values, e) /\ e.rule = rule
        /\ e.status = IF found THEN "triggered" ELSE "passed"
    BY <1>2, <1>4, <2>1, JudgedFaithful
  <2> QED BY <1>3, <1>6, <2>2
<1> QED BY <1>5, <1>6

LEMMA GpuDriverRuleIs ==
    ASSUME NEW values, NEW rule,
           \A i \in Entries(values) : <<i, "driver">> \in DOMAIN values,
           NEW e, e = GpuDriverRule(values, rule)
    PROVE  Faithful("gpus", values, e) /\ e.rule = rule
<1> DEFINE paths == HardwareGpus(values) \X {"driver"}
           missing == {p \in paths : values[p] = Null}
           found == missing # {}
           evidence == Collected(values, paths \ missing)
<1>1. e = Judged(rule, found, "warning", evidence, missing)
  BY DEF GpuDriverRule
<1>2. Backed("gpus", values, evidence)
  <2>1. paths \ missing \subseteq HardwareGpus(values) \X {"driver"}
        /\ \A p \in paths \ missing : values[p] # Null
    OBVIOUS
  <2> HIDE DEF paths, missing
  <2> QED BY <2>1, PathsEvident
<1>3. found \in BOOLEAN /\ "warning" \in Severities
  BY DEF Severities
<1> HIDE DEF missing, evidence, found
<1> QED BY <1>1, <1>2, <1>3, JudgedFaithful

LEMMA GpuUniqueRuleIs ==
    ASSUME NEW values, NEW rule,
           \A i \in Entries(values) : <<i, "instance">> \in DOMAIN values,
           NEW e, e = GpuUniqueRule(values, rule)
    PROVE  Faithful("gpus", values, e) /\ e.rule = rule
<1> DEFINE paths == HardwareGpus(values) \X {"instance"}
           missing == {p \in paths : values[p] = Null}
           twins == {p \in paths \ missing : \E q \in paths \ {p} : values[q] = values[p]}
           found == twins # {}
           shown == IF found THEN twins ELSE paths \ missing
           there == Collected(values, paths \ missing)
           evidence == Collected(values, shown)
<1>1. e = IF ~found /\ missing # {} THEN NotEvaluated(rule, there, missing)
          ELSE Judged(rule, found, "warning", evidence, missing)
  BY DEF GpuUniqueRule
<1>2. /\ paths \ missing \subseteq HardwareGpus(values) \X {"instance"}
      /\ \A p \in paths \ missing : values[p] # Null
      /\ shown \subseteq paths \ missing
  OBVIOUS
<1>3. found \in BOOLEAN /\ "warning" \in Severities
  BY DEF Severities
<1>4. Backed("gpus", values, there)
  <2> HIDE DEF paths, missing
  <2> QED BY <1>2, PathsEvident
<1>5. Backed("gpus", values, evidence)
  <2> HIDE DEF paths, missing, shown
  <2>1. shown \subseteq HardwareGpus(values) \X {"instance"} /\ \A p \in shown : values[p] # Null
    BY <1>2
  <2> QED BY <2>1, PathsEvident
<1> HIDE DEF missing, evidence, there, found
<1>6. CASE ~found /\ missing # {}
  BY <1>1, <1>4, <1>6, NotEvaluatedFaithful
<1>7. CASE found \/ missing = {}
  <2>1. e = Judged(rule, found, "warning", evidence, missing)
    BY <1>1, <1>7
  <2> QED BY <1>3, <1>5, <2>1, JudgedFaithful
<1> QED BY <1>6, <1>7

IsTrue(value) == value = TRUE

LEMMA GpuRulesAre ==
    ASSUME NEW values, Listing(values, "gpus", {"type", "problem", "started", "driver", "instance"}),
           NEW ev, ev = EvaluateGpus(values)
    PROVE  /\ DOMAIN ev = 1 .. 4
           /\ \A n \in 1 .. 4 : Faithful("gpus", values, ev[n]) /\ ev[n].rule = <<"gpu", GpuRules[n]>>
           /\ \A i \in HardwareGpus(values) :
                /\ values[<<i, "problem">>] \notin {Null, 0} => ev[1].status = "triggered"
                /\ values[<<i, "started">>] = FALSE => ev[2].status = "triggered"
                /\ ev[1].status = "passed" => values[<<i, "problem">>] = 0
                /\ ev[2].status = "passed" => IsTrue(values[<<i, "started">>])
<1> DEFINE rule(n) == <<"gpu", GpuRules[n]>>
           list == <<0, "gpus">>
           none == values[list] = Null
           few == HardwareGpus(values) = {}
<1>1. DOMAIN GpuRules = 1 .. 4
  BY DEF GpuRules
<1>2. /\ DOMAIN ev = 1 .. 4
      /\ \A n \in 1 .. 4 :
           /\ none => ev[n] = NotEvaluated(rule(n), {}, {list})
           /\ ~none /\ few => ev[n] = Inapplicable(rule(n), list)
      /\ ~none /\ ~few =>
           /\ ev[1] = GpuValueRule(values, rule(1), "problem", 0, "error")
           /\ ev[2] = GpuValueRule(values, rule(2), "started", TRUE, "warning")
           /\ ev[3] = GpuDriverRule(values, rule(3))
           /\ ev[4] = GpuUniqueRule(values, rule(4))
  <2>1. ev = [n \in 1 .. 4 |->
               CASE none -> NotEvaluated(rule(n), {}, {list})
                 [] ~none /\ few -> Inapplicable(rule(n), list)
                 [] OTHER ->
                      CASE n = 1 -> GpuValueRule(values, rule(n), "problem", 0, "error")
                        [] n = 2 -> GpuValueRule(values, rule(n), "started", TRUE, "warning")
                        [] n = 3 -> GpuDriverRule(values, rule(n))
                        [] n = 4 -> GpuUniqueRule(values, rule(n))]
    BY <1>1, Zenon DEF EvaluateGpus
  <2> HIDE DEF none, few, list, rule
  <2>2. DOMAIN ev = 1 .. 4
    BY <2>1
  <2>3. \A n \in 1 .. 4 : none => ev[n] = NotEvaluated(rule(n), {}, {list})
    BY <2>1
  <2>4. \A n \in 1 .. 4 : ~none /\ few => ev[n] = Inapplicable(rule(n), list)
    BY <2>1
  <2>5. ASSUME ~none, ~few
        PROVE  /\ ev[1] = GpuValueRule(values, rule(1), "problem", 0, "error")
               /\ ev[2] = GpuValueRule(values, rule(2), "started", TRUE, "warning")
               /\ ev[3] = GpuDriverRule(values, rule(3))
               /\ ev[4] = GpuUniqueRule(values, rule(4))
    <3> DEFINE problem(n) == GpuValueRule(values, rule(n), "problem", 0, "error")
               started(n) == GpuValueRule(values, rule(n), "started", TRUE, "warning")
               driver(n) == GpuDriverRule(values, rule(n))
               unique(n) == GpuUniqueRule(values, rule(n))
    <3>1. \A n \in 1 .. 4 : ev[n] = CASE n = 1 -> problem(n) [] n = 2 -> started(n)
                                      [] n = 3 -> driver(n) [] n = 4 -> unique(n)
      BY <2>1, <2>5
    <3> HIDE DEF problem, started, driver, unique
    <3>2. ev[1] = problem(1) /\ ev[2] = started(2) /\ ev[3] = driver(3) /\ ev[4] = unique(4)
      BY <3>1
    <3> QED BY <3>2 DEF problem, started, driver, unique
  <2> QED BY <2>2, <2>3, <2>4, <2>5
<1>3. none => few
  BY DEF Listing, HardwareGpus
<1>4. \A i \in Entries(values), f \in {"type", "problem", "started", "driver", "instance"} :
        <<i, f>> \in DOMAIN values
  BY DEF Listing
<1>5. {"error", "warning"} \subseteq Severities
  BY DEF Severities
<1>6. few => ~\E i \in HardwareGpus(values) : TRUE
  OBVIOUS
<1> HIDE DEF rule, none, few, list
<1>7. CASE none
  <2>1. ASSUME NEW n \in 1 .. 4 PROVE Faithful("gpus", values, ev[n]) /\ ev[n].rule = rule(n)
    <3>1. ev[n] = NotEvaluated(rule(n), {}, {list})
      BY <1>2, <1>7
    <3> QED BY <3>1, NotEvaluatedFaithful DEF Backed
  <2> QED BY <1>2, <1>3, <1>6, <1>7, <2>1 DEF rule
<1>8. CASE ~none /\ few
  <2>1. ASSUME NEW n \in 1 .. 4 PROVE Faithful("gpus", values, ev[n]) /\ ev[n].rule = rule(n)
    <3>1. ev[n] = Inapplicable(rule(n), list)
      BY <1>2, <1>8
    <3> QED BY <3>1, InapplicableFaithful
  <2> QED BY <1>2, <1>6, <1>8, <2>1 DEF rule
<1>9. CASE ~none /\ ~few
  <2> DEFINE Has(f) == \A i \in Entries(values) : <<i, f>> \in DOMAIN values
  <2>a. Has("problem") /\ Has("started") /\ Has("driver") /\ Has("instance")
    BY <1>4
  <2>1. /\ Faithful("gpus", values, ev[1]) /\ ev[1].rule = rule(1)
        /\ \A i \in HardwareGpus(values) :
             /\ values[<<i, "problem">>] \notin {Null, 0} => ev[1].status = "triggered"
             /\ ev[1].status = "passed" => values[<<i, "problem">>] = 0
    <3>1. ev[1] = GpuValueRule(values, rule(1), "problem", 0, "error")
      BY <1>2, <1>9
    <3>2. Has("problem") /\ "error" \in Severities
      BY <1>5, <2>a
    <3> QED BY <3>1, <3>2, GpuValueRuleIs
  <2>2. /\ Faithful("gpus", values, ev[2]) /\ ev[2].rule = rule(2)
        /\ \A i \in HardwareGpus(values) :
             /\ values[<<i, "started">>] \notin {Null, TRUE} => ev[2].status = "triggered"
             /\ ev[2].status = "passed" => IsTrue(values[<<i, "started">>])
    <3> DEFINE good == TRUE
    <3>1. ev[2] = GpuValueRule(values, rule(2), "started", good, "warning")
      BY <1>2, <1>9
    <3>2. Has("started") /\ "warning" \in Severities
      BY <1>5, <2>a
    <3> HIDE DEF good
    <3>3. /\ Faithful("gpus", values, ev[2]) /\ ev[2].rule = rule(2)
          /\ \A i \in HardwareGpus(values) :
               /\ values[<<i, "started">>] \notin {Null, good} => ev[2].status = "triggered"
               /\ ev[2].status = "passed" => values[<<i, "started">>] = good
      BY <3>1, <3>2, GpuValueRuleIs
    <3> QED BY <3>3 DEF good, IsTrue
  <2>3. Faithful("gpus", values, ev[3]) /\ ev[3].rule = rule(3)
    <3>1. ev[3] = GpuDriverRule(values, rule(3)) /\ Has("driver")
      BY <1>2, <1>9, <2>a
    <3> QED BY <3>1, GpuDriverRuleIs
  <2>4. Faithful("gpus", values, ev[4]) /\ ev[4].rule = rule(4)
    <3>1. ev[4] = GpuUniqueRule(values, rule(4)) /\ Has("instance")
      BY <1>2, <1>9, <2>a
    <3> QED BY <3>1, GpuUniqueRuleIs
  <2>5. \A n \in 1 .. 4 : n = 1 \/ n = 2 \/ n = 3 \/ n = 4
    OBVIOUS
  <2>6. \A n \in 1 .. 4 : Faithful("gpus", values, ev[n]) /\ ev[n].rule = rule(n)
    BY <2>1, <2>2, <2>3, <2>4, <2>5
  <2>7. FALSE \notin {Null, TRUE}
    BY NullAssumption
  <2> QED BY <1>2, <2>1, <2>2, <2>6, <2>7 DEF rule
<1> QED BY <1>7, <1>8, <1>9

-----------------------------------------------------------------------------
(* The inductive invariant: what is heard of memory, devices and adapters, *)
(* and what the gate and the rules make of it.                             *)

MemoryFields == {"total", "available"}

\* The numbers are those of the PC, or missing.
OfMemory(values) == \A f \in MemoryFields \cap DOMAIN values : values[f] \in {Null, pc[f]}

MemoryHeard == OfMemory(answer.values) /\ MemoryFields \subseteq DOMAIN answer.values

\* The one question about devices is answered with all of them.
DevicesHeard == answer = DeviceAnswer(pc.devices) \/ answer = DeviceFailure

GpuFields == {"name", "type", "vendor_id", "vendor", "instance", "driver", "started", "problem"}

\* The adapters that were listed are those there were at the time.
AdaptersSeen == seen.adapters \in Seq(Cards) /\ (Undisturbed => seen.adapters = pc.cards)

\* Each adapter that was listed has an entry, and each value it lacks a reason that
\* depends on its type; only of its name nothing is said.
Mapped(a, cards) ==
    /\ DOMAIN a.values = {<<0, "gpus">>} \cup (DOMAIN cards) \X GpuFields
    /\ a.values[<<0, "gpus">>] = Len(cards)
    /\ \A i \in DOMAIN cards : a.values[<<i, "type">>] = cards[i].type
    /\ DOMAIN a.reasons = {p \in Nulls(a.values) : p[2] # "name"}
    /\ \A p \in DOMAIN a.reasons : a.reasons[p] = GpuReason(p[2], cards[p[1]].type)

AdaptersHeard ==
    \/ answer = GpuFailure
    \/ AdaptersSeen /\ Mapped(answer, seen.adapters)

\* What a collector returns is made of what it heard, or its worker was lost.
Returned(heard) ==
    \/ result = Lost(EmptyPaths(section))
    \/ heard /\ result = Judge(section, answer)

MemoryRead ==
    section = "memory" =>
        /\ pc \in Memories
        /\ stage = "collecting" => OfMemory(answer.values)
        /\ stage # "collecting" => Returned(MemoryHeard)

DevicesRead ==
    section = "devices" =>
        /\ pc.devices \in Seq(DeviceKinds)
        /\ stage = "collecting" => \/ todo = DeviceQueries /\ answer = Got(<<>>)
                                   \/ todo = <<>> /\ DevicesHeard
        /\ stage # "collecting" => Returned(DevicesHeard)

AdaptersRead ==
    section = "gpus" =>
        /\ pc \in [cards : Seq(Cards)]
        /\ stage = "collecting" => \/ todo = GpuQueries /\ answer = Got(<<>>) /\ DOMAIN seen = {}
                                   \/ todo = <<"displays">> /\ answer = Got(<<>>) /\ AdaptersSeen
                                   \/ todo = <<>> /\ AdaptersHeard
        /\ stage # "collecting" => Returned(AdaptersHeard)

\* The gate and the rules saw what the collector returned.
Followed ==
    /\ stage \in {"collecting", "gate"} => errors = {}
    /\ stage \in {"rules", "done"} => errors = GateErrors(section, result)
    /\ Written => evaluations = Diagnose(section, result.values)

DInv ==
    /\ section \in SectionNames /\ changes \in Nat
    /\ stage \in {"collecting", "gate", "rules", "done"}
    /\ MemoryRead /\ DevicesRead /\ AdaptersRead /\ Followed

-----------------------------------------------------------------------------
(* It is an invariant *)

\* The first answer is all there is.
LEMMA JoinNothing ==
    ASSUME NEW f, NEW g, f = [p \in DOMAIN f |-> f[p]], g = [p \in DOMAIN g |-> g[p]],
           NEW said
    PROVE  Join(Got(<<>>), Answer(f, g, said)) = Answer(f, g, said)
<1> DEFINE a == Answer(f, g, said)
           b == Got(<<>>)
<1>1. DOMAIN <<>> = {}
  OBVIOUS
<1>2. /\ b.values = <<>> /\ b.reasons = <<>> /\ b.said = {}
      /\ a.values = f /\ a.reasons = g /\ a.said = said
  BY DEF Got, Answer
<1>3. Beside(<<>>, f) = f /\ Beside(<<>>, g) = g
  BY <1>1 DEF Beside
<1>4. Join(b, a) = Answer(Beside(b.values, a.values), Beside(b.reasons, a.reasons),
                         b.said \cup a.said)
  BY DEF Join
<1> HIDE DEF a, b
<1>5. Join(b, a) = Answer(f, g, {} \cup said)
  BY <1>2, <1>3, <1>4
<1>6. {} \cup said = said
  OBVIOUS
<1>7. Join(b, a) = Answer(f, g, said)
  BY <1>5, <1>6
<1> QED BY <1>7 DEF a, b

LEMMA DInitOK == Init => DInv
<1> SUFFICES ASSUME Init PROVE DInv
  OBVIOUS
<1>1. /\ stage = "collecting" /\ todo = Queries(section) /\ answer = Got(<<>>) /\ changes = 0
      /\ seen = <<>> /\ pc \in Pcs(section) /\ section \in SectionNames /\ errors = {}
  BY SectionsAssumption DEF Init
<1>2. DOMAIN <<>> = {}
  OBVIOUS
<1>3. MemoryRead
  <2>1. DOMAIN answer.values = {}
    BY <1>1, <1>2 DEF Got, Answer
  <2> QED BY <1>1, <2>1 DEF MemoryRead, OfMemory, Pcs
<1>4. ASSUME NEW S, NEW n, NEW q \in SeqsUpTo(S, n) PROVE q \in Seq(S)
  BY DEF SeqsUpTo
<1>5. DevicesRead
  <2>1. section = "devices" => pc.devices \in Seq(DeviceKinds)
    BY <1>1, <1>4 DEF Pcs
  <2> QED BY <1>1, <2>1 DEF DevicesRead, Queries
<1>6. AdaptersRead
  <2>1. section = "gpus" => pc \in [cards : Seq(Cards)]
    BY <1>1, <1>4 DEF Pcs
  <2> QED BY <1>1, <1>2, <2>1 DEF AdaptersRead, Queries
<1>7. Followed
  BY <1>1 DEF Followed, Written
<1> QED BY <1>1, <1>3, <1>5, <1>6, <1>7 DEF DInv

LEMMA Steady ==
    ASSUME [Next]_vars, DInv
    PROVE  /\ section' = section /\ changes' \in Nat
           /\ stage' \in {"collecting", "gate", "rules", "done"}
<1>1. section' = section
  BY DEF vars, later, Next, Work, Change, GiveUp, Lose, Return, Gate, Evaluate, AskWindows,
     AskClock, AskFirmware, AskMemory, AskSecurity, AskCpu, AskGpu, AskDevices, AskEventLogs,
     AskUpdates, AskRuntime, Hear, See, Ask, SwitchProcessor, PlugCard, UnplugCard,
     InstallUpdate, ClearHistory, Changing
<1>2. changes' = changes \/ changes' = changes + 1
  BY DEF vars, later, Next, Work, Change, GiveUp, Lose, Return, Gate, Evaluate, AskWindows,
     AskClock, AskFirmware, AskMemory, AskSecurity, AskCpu, AskGpu, AskDevices, AskEventLogs,
     AskUpdates, AskRuntime, Hear, See, Ask, SwitchProcessor, PlugCard, UnplugCard,
     InstallUpdate, ClearHistory, Changing
<1>3. stage' \in {stage, "gate", "rules", "done"}
  BY DEF vars, later, Next, Work, Change, GiveUp, Lose, Return, Gate, Evaluate, AskWindows,
     AskClock, AskFirmware, AskMemory, AskSecurity, AskCpu, AskGpu, AskDevices, AskEventLogs,
     AskUpdates, AskRuntime, Hear, See, Ask, SwitchProcessor, PlugCard, UnplugCard,
     InstallUpdate, ClearHistory, Changing
<1>4. changes \in Nat /\ stage \in {"collecting", "gate", "rules", "done"}
  BY DEF DInv
<1> QED BY <1>1, <1>2, <1>3, <1>4

\* The gate and the rules look at what was returned, and only they speak.
LEMMA FollowedKept == ASSUME [Next]_vars, DInv PROVE Followed'
<1>1. Followed
  BY DEF DInv
<1>2. CASE Gate
  BY <1>1, <1>2 DEF Gate, Followed, Written
<1>3. CASE Evaluate
  BY <1>1, <1>3 DEF Evaluate, Followed, Written
<1>4. CASE Return \/ Lose
  <2>1. stage = "collecting" /\ stage' = "gate" /\ errors' = errors
    BY <1>4 DEF Return, Lose
  <2> QED BY <1>1, <2>1 DEF Followed, Written
<1>5. CASE UNCHANGED later
  BY <1>1, <1>5 DEF later, Followed, Written
<1>6. ~Gate /\ ~Evaluate /\ ~Return /\ ~Lose => UNCHANGED later
  BY DEF vars, later, Next, Work, Change, GiveUp, AskWindows,
     AskClock, AskFirmware, AskMemory, AskSecurity, AskCpu, AskGpu, AskDevices, AskEventLogs,
     AskUpdates, AskRuntime, Hear, See, Ask, SwitchProcessor, PlugCard, UnplugCard,
     InstallUpdate, ClearHistory, Changing
<1> QED BY <1>2, <1>3, <1>4, <1>5, <1>6

\* What the collector of the section does not do itself is common to all.
Common == Return \/ Lose \/ Gate \/ Evaluate \/ UNCHANGED vars

LEMMA CommonKeeps ==
    ASSUME Common
    PROVE  /\ UNCHANGED <<section, pc, changes, answer, seen>>
           /\ stage' = "collecting" => UNCHANGED <<stage, todo>>
  BY DEF Common, Return, Lose, Gate, Evaluate, vars

\* A collector that returns or is lost leaves what it heard.
LEMMA Handover ==
    ASSUME Common, NEW heard \in BOOLEAN, Return => heard, stage # "collecting" => Returned(heard)
    PROVE  stage' # "collecting" => \/ result' = Lost(EmptyPaths(section))
                                    \/ heard /\ result' = Judge(section, answer')
<1>1. CASE Return
  BY <1>1 DEF Return
<1>2. CASE Lose
  BY <1>2 DEF Lose
<1>3. CASE Gate
  BY <1>3 DEF Gate, Returned
<1>4. CASE Evaluate
  BY <1>4 DEF Evaluate, Returned
<1>5. CASE UNCHANGED vars
  BY <1>5 DEF vars, Returned
<1> QED BY <1>1, <1>2, <1>3, <1>4, <1>5 DEF Common

LEMMA OwnSteps ==
    ASSUME [Next]_vars
    PROVE  /\ section = "memory" => AskMemory \/ Common
           /\ section = "devices" => AskDevices \/ GiveUp \/ Common
           /\ section = "gpus" => AskGpu \/ Change \/ GiveUp \/ Common
<1>1. Next \/ UNCHANGED vars
  OBVIOUS
<1>2. section \in {"memory", "devices", "gpus"} =>
        ~AskWindows /\ ~AskClock /\ ~AskFirmware /\ ~AskSecurity /\ ~AskCpu /\ ~AskEventLogs
        /\ ~AskUpdates /\ ~AskRuntime
  BY DEF AskWindows, AskClock, AskFirmware, AskSecurity, AskCpu, AskEventLogs, AskUpdates,
         AskRuntime, Hear, See, Ask
<1>3. section # "memory" => ~AskMemory
  BY DEF AskMemory
<1>4. section # "devices" => ~AskDevices
  BY DEF AskDevices
<1>5. section # "gpus" => ~AskGpu
  BY DEF AskGpu
<1>6. section \in {"memory", "devices"} => ~Change
  BY DEF Change, SwitchProcessor, PlugCard, InstallUpdate, ClearHistory
<1>7. section = "memory" => ~GiveUp
  BY DEF GiveUp
<1> QED BY <1>1, <1>2, <1>3, <1>4, <1>5, <1>6, <1>7 DEF Next, Work, Common

\* The numbers of an answer about memory.
LEMMA MemorySays ==
    ASSUME NEW m, NEW a, a \in GlobalMemoryAnswers(m) \cup PerformanceAnswers(m)
    PROVE  \A f \in MemoryFields \cap DOMAIN a.values : a.values[f] \in {Null, m[f]}
<1>1. CASE a \in GlobalMemoryAnswers(m)
  BY <1>1 DEF GlobalMemoryAnswers, Or, Got, Missed, Answer, MemoryFields
<1>2. CASE a \in PerformanceAnswers(m)
  <2>1. DOMAIN a.values = {"limit", "commit_available"}
    BY <1>2 DEF PerformanceAnswers, CommitMemory, Or, Got, Missed, Answer
  <2> QED BY <2>1 DEF MemoryFields
<1> QED BY <1>1, <1>2

LEMMA MemoryKept ==
    ASSUME [Next]_vars, DInv, IInv, section = "memory"
    PROVE  MemoryRead'
<1>1. /\ section' = section /\ pc \in Memories
      /\ stage = "collecting" => OfMemory(answer.values) /\ MemoryOK
      /\ stage # "collecting" => Returned(MemoryHeard)
  BY Steady DEF DInv, MemoryRead, IInv, Fixed
<1>2. CASE AskMemory
  <2>1. /\ stage = "collecting" /\ stage' = stage /\ pc' = pc
        /\ \E a \in GlobalMemoryAnswers(pc) \cup PerformanceAnswers(pc) : answer' = Join(answer, a)
    BY <1>2 DEF AskMemory, Hear, Ask, later
  <2>2. PICK a \in GlobalMemoryAnswers(pc) \cup PerformanceAnswers(pc) : answer' = Join(answer, a)
    BY <2>1
  <2>3. \A f \in MemoryFields \cap DOMAIN a.values : a.values[f] \in {Null, pc[f]}
    BY MemorySays
  <2>4. \A f \in DOMAIN answer'.values :
          \/ f \in DOMAIN answer.values /\ answer'.values[f] = answer.values[f]
          \/ f \in DOMAIN a.values /\ answer'.values[f] = a.values[f]
    BY <2>2 DEF Join, Beside, Answer
  <2>5. OfMemory(answer.values)
    BY <1>1, <2>1
  <2>6. \A f \in MemoryFields \cap DOMAIN answer'.values : answer'.values[f] \in {Null, pc'[f]}
    BY <2>1, <2>3, <2>4, <2>5 DEF OfMemory
  <2> QED BY <1>1, <2>1, <2>6 DEF MemoryRead, OfMemory
<1>3. CASE Common
  <2>1. /\ UNCHANGED <<section, pc, changes, answer, seen>>
        /\ stage' = "collecting" => stage = "collecting"
    BY <1>3, CommonKeeps
  <2>2. Return => MemoryHeard
    <3> SUFFICES ASSUME Return PROVE MemoryHeard
      OBVIOUS
    <3>1. stage = "collecting" /\ todo = <<>>
      BY DEF Return
    <3>2. DOMAIN answer.values = GlobalFields \cup {"limit", "commit_available"}
      BY <1>1, <3>1 DEF MemoryOK, MemoryAsked, MemoryQueries, Covers
    <3> QED BY <1>1, <3>1, <3>2 DEF MemoryHeard, MemoryFields, GlobalFields
  <2>3. MemoryHeard' = MemoryHeard
    BY <2>1 DEF MemoryHeard, OfMemory
  <2>4. stage' # "collecting" => Returned(MemoryHeard)'
    BY <1>1, <1>3, <2>1, <2>2, <2>3, Handover DEF Returned
  <2> QED BY <1>1, <2>1, <2>4 DEF MemoryRead, OfMemory
<1> QED BY <1>2, <1>3, OwnSteps

LEMMA DeviceAnswerAlone == Join(Got(<<>>), DeviceAnswer(pc.devices)) = DeviceAnswer(pc.devices)
<1> DEFINE mapped == [i \in DOMAIN pc.devices |-> MapDevice(i, pc.devices[i])]
           paths == UNION {{i} \X DOMAIN mapped[i] : i \in DOMAIN mapped}
           f == [p \in paths \cup {<<0, "devices">>} |->
                   IF p[1] = 0 THEN Len(pc.devices) ELSE mapped[p[1]][p[2]]]
           g == [p \in {q \in paths : mapped[q[1]][q[2]] = Null} |->
                   DeviceReason(p[2], pc.devices[p[1]])]
<1>1. DeviceAnswer(pc.devices) = Answer(f, g, {})
  BY Zenon DEF DeviceAnswer
<1>2. f = [p \in DOMAIN f |-> f[p]] /\ g = [p \in DOMAIN g |-> g[p]]
  <2> HIDE DEF paths, mapped
  <2> QED OBVIOUS
<1> HIDE DEF f, g
<1> QED BY <1>1, <1>2, JoinNothing

LEMMA DevicesKept ==
    ASSUME [Next]_vars, DInv, section = "devices"
    PROVE  DevicesRead'
<1>1. /\ section' = section /\ pc.devices \in Seq(DeviceKinds)
      /\ stage = "collecting" => \/ todo = DeviceQueries /\ answer = Got(<<>>)
                                 \/ todo = <<>> /\ DevicesHeard
      /\ stage # "collecting" => Returned(DevicesHeard)
  BY Steady DEF DInv, DevicesRead
<1>2. CASE AskDevices
  <2>1. /\ stage = "collecting" /\ stage' = stage /\ pc' = pc /\ todo # <<>> /\ todo' = Tail(todo)
        /\ answer' = Join(answer, DeviceAnswer(pc.devices))
    BY <1>2 DEF AskDevices, Hear, Ask, later
  <2>2. todo = <<"devices">> /\ answer = Got(<<>>)
    BY <1>1, <2>1 DEF DeviceQueries
  <2>3. todo' = <<>> /\ answer' = DeviceAnswer(pc'.devices)
    BY <2>1, <2>2, DeviceAnswerAlone
  <2> QED BY <1>1, <2>1, <2>3 DEF DevicesRead, DevicesHeard
<1>3. CASE GiveUp
  <2>1. stage' = "collecting" /\ pc' = pc /\ todo' = <<>> /\ answer' = DeviceFailure
    BY <1>3 DEF GiveUp, Failure, later
  <2> QED BY <1>1, <2>1 DEF DevicesRead, DevicesHeard
<1>4. CASE Common
  <2>1. /\ UNCHANGED <<section, pc, changes, answer, seen>>
        /\ stage' = "collecting" => UNCHANGED <<stage, todo>>
    BY <1>4, CommonKeeps
  <2>2. Return => DevicesHeard
    BY <1>1 DEF Return, DeviceQueries
  <2>3. DevicesHeard' = DevicesHeard
    BY <2>1 DEF DevicesHeard
  <2>4. stage' # "collecting" => Returned(DevicesHeard)'
    BY <1>1, <1>4, <2>1, <2>2, <2>3, Handover DEF Returned, DevicesHeard
  <2> QED BY <1>1, <2>1, <2>3, <2>4 DEF DevicesRead
<1> QED BY <1>2, <1>3, <1>4, OwnSteps

LEMMA GpuAnswerMaps ==
    ASSUME NEW cards \in Seq(Cards), NEW displays, NEW said,
           NEW a, a = GpuAnswer(cards, displays, said)
    PROVE  Join(Got(<<>>), a) = a /\ Mapped(a, cards)
<1> DEFINE gpus == [i \in DOMAIN cards |-> MapAdapter(cards[i], displays)]
           paths == UNION {{i} \X DOMAIN gpus[i] : i \in DOMAIN gpus}
           missing == {p \in paths : gpus[p[1]][p[2]] = Null /\ p[2] # "name"}
           f == [p \in paths \cup {<<0, "gpus">>} |->
                   IF p[1] = 0 THEN Len(cards) ELSE gpus[p[1]][p[2]]]
           g == [p \in missing |-> GpuReason(p[2], cards[p[1]].type)]
           all == said \cup UNION {MatchSaid(cards[i], displays) : i \in DOMAIN cards}
<1>1. a = Answer(f, g, all)
  BY Zenon DEF GpuAnswer
<1>2. \A i \in DOMAIN cards : i # 0 /\ DOMAIN gpus[i] = GpuFields /\ gpus[i]["type"] = cards[i].type
  BY DEF MapAdapter, GpuFields
<1>3. DOMAIN gpus = DOMAIN cards
  OBVIOUS
<1> HIDE DEF gpus, all
<1>4. paths = (DOMAIN cards) \X GpuFields
  BY <1>2, <1>3
<1> HIDE DEF paths
<1>5. f = [p \in DOMAIN f |-> f[p]] /\ g = [p \in DOMAIN g |-> g[p]]
  OBVIOUS
<1>6. DOMAIN f = {<<0, "gpus">>} \cup (DOMAIN cards) \X GpuFields
      /\ f[<<0, "gpus">>] = Len(cards)
      /\ \A i \in DOMAIN cards, field \in GpuFields : f[<<i, field>>] = gpus[i][field]
  BY <1>2, <1>4
<1>7. Len(cards) # Null
  BY NullAssumption
<1>8. DOMAIN g = {p \in Nulls(f) : p[2] # "name"}
  <2>1. DOMAIN g = {p \in (DOMAIN cards) \X GpuFields : gpus[p[1]][p[2]] = Null /\ p[2] # "name"}
    BY <1>4
  <2>2. \A p \in (DOMAIN cards) \X GpuFields : f[p] = gpus[p[1]][p[2]]
    BY <1>6
  <2> HIDE DEF f, g
  <2> QED BY <1>6, <1>7, <2>1, <2>2 DEF Nulls
<1>9. \A p \in DOMAIN g : g[p] = GpuReason(p[2], cards[p[1]].type)
  OBVIOUS
<1>10. "type" \in GpuFields
  BY DEF GpuFields
<1> HIDE DEF f, g
<1>11. Join(Got(<<>>), a) = a
  BY <1>1, <1>5, JoinNothing
<1>12. a.values = f /\ a.reasons = g
  BY <1>1 DEF Answer
<1>13. Mapped(a, cards)
  BY <1>2, <1>6, <1>8, <1>9, <1>10, <1>12 DEF Mapped
<1> QED BY <1>11, <1>13

LEMMA AdaptersChange ==
    ASSUME Change, section = "gpus", pc \in [cards : Seq(Cards)], changes \in Nat
    PROVE  /\ pc' \in [cards : Seq(Cards)] /\ changes' # 0
           /\ UNCHANGED <<section, stage, todo, answer, seen, result>>
<1>1. CASE \E card \in Cards : PlugCard(card)
  <2>1. PICK card \in Cards : PlugCard(card)
    BY <1>1
  <2> DEFINE more == Append(pc.cards, card)
  <2>2. pc' = [pc EXCEPT !.cards = more]
    BY <2>1 DEF PlugCard, Changing
  <2>3. more \in Seq(Cards)
    OBVIOUS
  <2> HIDE DEF more
  <2>4. pc' \in [cards : Seq(Cards)]
    BY <2>2, <2>3
  <2>5. changes' = changes + 1 /\ UNCHANGED <<todo, answer, seen, later>>
    BY <2>1 DEF PlugCard, Changing
  <2> QED BY <2>4, <2>5 DEF later
<1>2. CASE \E i \in DOMAIN pc.cards : UnplugCard(i)
  <2>1. PICK i \in DOMAIN pc.cards : UnplugCard(i)
    BY <1>2
  <2> DEFINE fewer == RemoveAt(pc.cards, i)
  <2>2. pc' = [pc EXCEPT !.cards = fewer]
    BY <2>1 DEF UnplugCard, Changing
  <2>3. pc.cards \in Seq(Cards) /\ i \in 1 .. Len(pc.cards) /\ Len(pc.cards) \in Nat
    OBVIOUS
  <2>4. fewer \in Seq(Cards)
    BY <2>3 DEF RemoveAt
  <2> HIDE DEF fewer
  <2> QED BY <2>1, <2>2, <2>4 DEF UnplugCard, Changing, later
<1> QED BY <1>1, <1>2 DEF Change, SwitchProcessor, InstallUpdate, ClearHistory, Changing

LEMMA AdaptersKept ==
    ASSUME [Next]_vars, DInv, section = "gpus"
    PROVE  AdaptersRead'
<1>1. /\ section' = section /\ pc \in [cards : Seq(Cards)] /\ changes \in Nat
      /\ stage = "collecting" => \/ todo = GpuQueries /\ answer = Got(<<>>) /\ DOMAIN seen = {}
                                 \/ todo = <<"displays">> /\ answer = Got(<<>>) /\ AdaptersSeen
                                 \/ todo = <<>> /\ AdaptersHeard
      /\ stage # "collecting" => Returned(AdaptersHeard)
  BY Steady DEF DInv, AdaptersRead
<1>2. CASE See("gpus", "adapters", "adapters", pc.cards)
  <2>1. /\ stage = "collecting" /\ stage' = stage /\ UNCHANGED <<pc, changes, answer>>
        /\ todo # <<>> /\ Head(todo) = "adapters" /\ todo' = Tail(todo)
        /\ seen' = [n \in DOMAIN seen \cup {"adapters"} |->
                      IF n = "adapters" THEN pc.cards ELSE seen[n]]
    BY <1>2 DEF See, Ask, later
  <2>2. todo = GpuQueries /\ answer = Got(<<>>)
    BY <1>1, <2>1
  <2>3. todo' = <<"displays">> /\ seen'.adapters = pc'.cards
    BY <2>1, <2>2 DEF GpuQueries
  <2>4. AdaptersSeen'
    BY <1>1, <2>1, <2>3 DEF AdaptersSeen
  <2> QED BY <1>1, <2>1, <2>2, <2>3, <2>4 DEF AdaptersRead
<1>3. CASE /\ todo = <<"displays">>
           /\ Hear("gpus", "displays",
                   {GpuAnswer(seen.adapters, Displays(pc.cards), DisplaysSaid(Displays(pc.cards))),
                    GpuAnswer(seen.adapters, {}, {"setupapi"})})
  <2>1. /\ stage = "collecting" /\ stage' = stage /\ UNCHANGED <<pc, changes, seen>>
        /\ todo' = Tail(todo)
    BY <1>3 DEF Hear, Ask, later
  <2>2. PICK displays, said : answer' = Join(answer, GpuAnswer(seen.adapters, displays, said))
    BY <1>3 DEF Hear
  <2>3. answer = Got(<<>>) /\ AdaptersSeen
    BY <1>1, <1>3, <2>1 DEF GpuQueries
  <2>4. Mapped(answer', seen'.adapters)
    BY <2>1, <2>2, <2>3, GpuAnswerMaps DEF AdaptersSeen
  <2>5. todo' = <<>> /\ AdaptersSeen'
    BY <1>3, <2>1, <2>3 DEF AdaptersSeen, Undisturbed
  <2> QED BY <1>1, <2>1, <2>4, <2>5 DEF AdaptersRead, AdaptersHeard
<1>4. CASE Change
  <2>1. /\ pc' \in [cards : Seq(Cards)] /\ changes' # 0
        /\ UNCHANGED <<section, stage, todo, answer, seen, result>>
    BY <1>1, <1>4, AdaptersChange
  <2>2. AdaptersSeen => AdaptersSeen'
    BY <2>1 DEF AdaptersSeen, Undisturbed
  <2>3. AdaptersHeard => AdaptersHeard'
    BY <2>1, <2>2 DEF AdaptersHeard
  <2>4. stage = "collecting"
    BY <1>4 DEF Change, SwitchProcessor, PlugCard, UnplugCard, InstallUpdate, ClearHistory, Changing
  <2> QED BY <1>1, <2>1, <2>2, <2>3, <2>4 DEF AdaptersRead
<1>5. CASE GiveUp
  <2>1. stage' = "collecting" /\ pc' = pc /\ todo' = <<>> /\ answer' = GpuFailure
    BY <1>5 DEF GiveUp, Failure, later
  <2> QED BY <1>1, <2>1 DEF AdaptersRead, AdaptersHeard
<1>6. CASE Common
  <2>1. /\ UNCHANGED <<section, pc, changes, answer, seen>>
        /\ stage' = "collecting" => UNCHANGED <<stage, todo>>
    BY <1>6, CommonKeeps
  <2>2. Return => AdaptersHeard
    BY <1>1 DEF Return, GpuQueries
  <2>3. AdaptersHeard' = AdaptersHeard /\ AdaptersSeen' = AdaptersSeen
    BY <2>1 DEF AdaptersHeard, AdaptersSeen, Undisturbed
  <2>4. stage' # "collecting" => Returned(AdaptersHeard)'
    BY <1>1, <1>6, <2>1, <2>2, <2>3, Handover DEF Returned, AdaptersHeard
  <2> QED BY <1>1, <2>1, <2>3, <2>4 DEF AdaptersRead
<1> QED BY <1>2, <1>3, <1>4, <1>5, <1>6, OwnSteps DEF AskGpu

LEMMA DStepOK == IInv /\ DInv /\ [Next]_vars => DInv'
<1> SUFFICES ASSUME IInv, DInv, [Next]_vars PROVE DInv'
  OBVIOUS
<1>1. section' = section
  BY Steady
<1>2. MemoryRead'
  BY <1>1, MemoryKept DEF MemoryRead
<1>3. DevicesRead'
  BY <1>1, DevicesKept DEF DevicesRead
<1>4. AdaptersRead'
  BY <1>1, AdaptersKept DEF AdaptersRead
<1> QED BY <1>2, <1>3, <1>4, Steady, FollowedKept DEF DInv

LEMMA DInvariance == Spec => [](IInv /\ DInv)
<1>1. Init => IInv /\ DInv
  BY InitOK, DInitOK
<1>2. IInv /\ DInv /\ [Next]_vars => (IInv /\ DInv)'
  BY StepOK, DStepOK
<1> QED BY <1>1, <1>2, PTL DEF Spec

-----------------------------------------------------------------------------
(* What was returned *)

\* A failure that says so, without a reason for each null.
Admitted(r) == r.status = "failed" /\ r.said # {} /\ DOMAIN r.fields = {}

\* A list that is missing.
Nothing(values, list) == DOMAIN values = {<<0, list>>} /\ values[<<0, list>>] = Null

DeviceFields == {"name", "instance", "present", "started", "problem"}

\* Every device has an entry with its state, and each value it lacks a reason.
DevicesMapped(a, devices) ==
    /\ DOMAIN a.values = {<<0, "devices">>} \cup (DOMAIN devices) \X DeviceFields
    /\ a.values[<<0, "devices">>] = Len(devices)
    /\ \A i \in DOMAIN devices :
         /\ a.values[<<i, "present">>] = devices[i].present
         /\ a.values[<<i, "problem">>] = devices[i].problem
         /\ a.values[<<i, "instance">>] = i
    /\ DOMAIN a.reasons = Nulls(a.values)
    /\ \A p \in DOMAIN a.reasons : a.reasons[p] = DeviceReason(p[2], devices[p[1]])

LEMMA DeviceAnswerMaps ==
    ASSUME NEW devices \in Seq(DeviceKinds), NEW a, a = DeviceAnswer(devices)
    PROVE  DevicesMapped(a, devices)
<1> DEFINE mapped == [i \in DOMAIN devices |-> MapDevice(i, devices[i])]
           paths == UNION {{i} \X DOMAIN mapped[i] : i \in DOMAIN mapped}
           missing == {q \in paths : mapped[q[1]][q[2]] = Null}
           f == [p \in paths \cup {<<0, "devices">>} |->
                   IF p[1] = 0 THEN Len(devices) ELSE mapped[p[1]][p[2]]]
           g == [p \in missing |-> DeviceReason(p[2], devices[p[1]])]
<1>1. a = Answer(f, g, {})
  BY Zenon DEF DeviceAnswer
<1>2. \A i \in DOMAIN devices :
        /\ i # 0 /\ DOMAIN mapped[i] = DeviceFields
        /\ mapped[i]["present"] = devices[i].present /\ mapped[i]["problem"] = devices[i].problem
        /\ mapped[i]["instance"] = i
  BY DEF MapDevice, DeviceFields
<1>3. DOMAIN mapped = DOMAIN devices
  OBVIOUS
<1> HIDE DEF mapped
<1>4. paths = (DOMAIN devices) \X DeviceFields
  BY <1>2, <1>3
<1> HIDE DEF paths
<1>5. DOMAIN f = {<<0, "devices">>} \cup (DOMAIN devices) \X DeviceFields
      /\ f[<<0, "devices">>] = Len(devices)
      /\ \A i \in DOMAIN devices, field \in DeviceFields : f[<<i, field>>] = mapped[i][field]
  BY <1>2, <1>4
<1>6. Len(devices) # Null
  BY NullAssumption
<1>7. DOMAIN g = Nulls(f)
  <2>1. DOMAIN g = {p \in (DOMAIN devices) \X DeviceFields : mapped[p[1]][p[2]] = Null}
    BY <1>4
  <2>2. \A p \in (DOMAIN devices) \X DeviceFields : f[p] = mapped[p[1]][p[2]]
    BY <1>5
  <2> HIDE DEF f, g
  <2> QED BY <1>5, <1>6, <2>1, <2>2 DEF Nulls
<1>8. \A p \in DOMAIN g : g[p] = DeviceReason(p[2], devices[p[1]])
  OBVIOUS
<1>9. {"present", "problem", "instance"} \subseteq DeviceFields
  BY DEF DeviceFields
<1> HIDE DEF f, g
<1>10. a.values = f /\ a.reasons = g
  BY <1>1 DEF Answer
<1> QED BY <1>2, <1>5, <1>7, <1>8, <1>9, <1>10 DEF DevicesMapped

LEMMA ListingOf ==
    ASSUME NEW values, NEW n \in Nat, NEW list, NEW fields,
           DOMAIN values = {<<0, list>>} \cup (1 .. n) \X fields,
           values[<<0, list>>] = n, NEW field \in fields
    PROVE  Listing(values, list, fields) /\ Entries(values) = 1 .. n
<1>1. \A i \in 1 .. n : <<i, field>> \in DOMAIN values /\ i # 0
  OBVIOUS
<1>2. \A p \in DOMAIN values : p[1] = 0 \/ p[1] \in 1 .. n
  OBVIOUS
<1>3. Entries(values) = 1 .. n
  <2>1. Entries(values) \subseteq 1 .. n
    BY <1>2 DEF Entries
  <2>2. ASSUME NEW i \in 1 .. n PROVE i \in Entries(values)
    <3>1. <<i, field>> \in DOMAIN values /\ <<i, field>>[1] = i /\ i # 0
      BY <1>1
    <3> QED BY <3>1 DEF Entries
  <2> QED BY <2>1, <2>2
<1>4. values[<<0, list>>] # Null
  BY NullAssumption
<1> QED BY <1>3, <1>4 DEF Listing

LEMMA NothingListed ==
    ASSUME NEW values, NEW list, NEW fields, Nothing(values, list)
    PROVE  Listing(values, list, fields) /\ Entries(values) = {}
<1>1. Entries(values) = {}
  BY DEF Nothing, Entries
<1> QED BY <1>1 DEF Nothing, Listing

LEMMA LostIsNothing ==
    ASSUME NEW list, NEW r, r = Lost({<<0, list>>})
    PROVE  Nothing(r.values, list) /\ Admitted(r)
  BY DEF Nothing, Admitted, Lost, Unreasoned, Result, Missed, Answer

LEMMA MemoryReturned ==
    ASSUME MemoryRead, section = "memory", stage # "collecting"
    PROVE  MemoryFields \subseteq DOMAIN result.values /\ OfMemory(result.values)
<1>1. CASE result = Lost(EmptyPaths("memory"))
  <2> DEFINE paths == EmptyPaths("memory")
  <2>1. MemoryFields \subseteq paths
    BY DEF MemoryFields, EmptyPaths, GlobalFields
  <2> HIDE DEF paths
  <2>2. result.values = [p \in paths |-> Null]
    BY <1>1 DEF Lost, Unreasoned, Result, Missed, Answer, paths
  <2> QED BY <2>1, <2>2 DEF OfMemory
<1>2. CASE MemoryHeard /\ result = MemoryResult(answer)
  <2>1. result.values = answer.values
    BY <1>2 DEF MemoryResult, Result, Unreasoned
  <2> QED BY <1>2, <2>1 DEF MemoryHeard
<1> QED BY <1>1, <1>2 DEF MemoryRead, Returned, Judge

LEMMA DevicesReturned ==
    ASSUME DevicesRead, section = "devices", stage # "collecting"
    PROVE  /\ pc.devices \in Seq(DeviceKinds)
           /\ \/ Nothing(result.values, "devices") /\ Admitted(result)
              \/ /\ DevicesMapped(answer, pc.devices) /\ answer.said = {}
                 /\ result = DeviceResult(answer) /\ result.values = answer.values
<1>1. pc.devices \in Seq(DeviceKinds)
  BY DEF DevicesRead
<1>2. CASE result = Lost({<<0, "devices">>})
  BY <1>1, <1>2, LostIsNothing
<1>3. CASE result = DeviceResult(DeviceFailure)
  <2>1. DeviceFailure.values = [p \in {<<0, "devices">>} |-> Null]
    BY DEF DeviceFailure, Missed, Answer
  <2>2. <<0, "devices">> \in Nulls(DeviceFailure.values)
    BY <2>1 DEF Nulls
  <2>a. ~(Range(DeviceFailure.reasons) \subseteq {"not_applicable"})
    <3>1. DeviceFailure.reasons = [p \in {<<0, "devices">>} |-> "failed"]
      BY DEF DeviceFailure, Missed, Answer
    <3>2. "failed" \in Range(DeviceFailure.reasons)
      BY <3>1 DEF Range
    <3> QED BY <3>2
  <2>3. result = Unreasoned(Result("failed", DeviceFailure))
    BY <1>3, <2>2, <2>a DEF DeviceResult
  <2>4. result.values = DeviceFailure.values /\ Admitted(result)
    BY <2>3 DEF Unreasoned, Result, Admitted, DeviceFailure, Missed, Answer
  <2> QED BY <1>1, <2>1, <2>4 DEF Nothing
<1>4. CASE answer = DeviceAnswer(pc.devices) /\ result = DeviceResult(answer)
  <2>1. DevicesMapped(answer, pc.devices)
    BY <1>1, <1>4, DeviceAnswerMaps
  <2>2. result.values = answer.values
    BY <1>4 DEF DeviceResult, Result, Unreasoned
  <2>3. answer.said = {}
    BY <1>4 DEF DeviceAnswer, Answer
  <2> QED BY <1>1, <1>4, <2>1, <2>2, <2>3
<1>5. EmptyPaths("devices") = {<<0, "devices">>}
  BY DEF EmptyPaths
<1> QED BY <1>2, <1>3, <1>4, <1>5 DEF DevicesRead, Returned, DevicesHeard, Judge

LEMMA AdaptersReturned ==
    ASSUME AdaptersRead, section = "gpus", stage # "collecting"
    PROVE  \/ Nothing(result.values, "gpus") /\ Admitted(result)
           \/ /\ AdaptersSeen /\ Mapped(answer, seen.adapters)
              /\ result = GpuResult(answer) /\ result.values = answer.values
<1>1. CASE result = Lost({<<0, "gpus">>})
  BY <1>1, LostIsNothing
<1>2. CASE result = GpuResult(GpuFailure)
  <2>1. GpuFailure.values = [p \in {<<0, "gpus">>} |-> Null]
    BY DEF GpuFailure, Missed, Answer
  <2>2. <<0, "gpus">> \in Nulls(GpuFailure.values)
    BY <2>1 DEF Nulls
  <2>a. GpuFailure.said # {}
    BY DEF GpuFailure, Missed, Answer
  <2>3. result = Unreasoned(Result("failed", GpuFailure))
    BY <1>2, <2>2, <2>a DEF GpuResult
  <2>4. result.values = GpuFailure.values /\ Admitted(result)
    BY <2>3 DEF Unreasoned, Result, Admitted, GpuFailure, Missed, Answer
  <2> QED BY <2>1, <2>4 DEF Nothing
<1>3. CASE AdaptersSeen /\ Mapped(answer, seen.adapters) /\ result = GpuResult(answer)
  <2>1. result.values = answer.values
    BY <1>3 DEF GpuResult, Result, Unreasoned
  <2> QED BY <1>3, <2>1
<1>4. EmptyPaths("gpus") = {<<0, "gpus">>}
  BY DEF EmptyPaths
<1> QED BY <1>1, <1>2, <1>3, <1>4 DEF AdaptersRead, Returned, AdaptersHeard, Judge

LEMMA DevicesListed ==
    ASSUME DevicesRead, section = "devices", stage # "collecting"
    PROVE  /\ Listing(result.values, "devices", DeviceFields)
           /\ DevicesMapped(answer, pc.devices) =>
                Entries(answer.values) = 1 .. Len(pc.devices) /\ answer.values[<<0, "devices">>] # Null
<1>1. pc.devices \in Seq(DeviceKinds)
  BY DevicesReturned
<1>2. CASE DevicesMapped(answer, pc.devices)
  <2>1. /\ DOMAIN answer.values = {<<0, "devices">>} \cup (1 .. Len(pc.devices)) \X DeviceFields
        /\ answer.values[<<0, "devices">>] = Len(pc.devices) /\ Len(pc.devices) \in Nat
    BY <1>1, <1>2 DEF DevicesMapped
  <2>2. "present" \in DeviceFields
    BY DEF DeviceFields
  <2>3. Listing(answer.values, "devices", DeviceFields) /\ Entries(answer.values) = 1 .. Len(pc.devices)
    BY <2>1, <2>2, ListingOf
  <2>4. answer.values[<<0, "devices">>] # Null
    BY <2>1, NullAssumption
  <2>5. Nothing(result.values, "devices") => Listing(result.values, "devices", DeviceFields)
    BY NothingListed
  <2> QED BY <2>3, <2>4, <2>5, DevicesReturned
<1>3. CASE ~DevicesMapped(answer, pc.devices)
  BY <1>3, DevicesReturned, NothingListed
<1> QED BY <1>2, <1>3

LEMMA AdaptersListed ==
    ASSUME AdaptersRead, section = "gpus", stage # "collecting"
    PROVE  /\ Listing(result.values, "gpus", GpuFields)
           /\ AdaptersSeen /\ Mapped(answer, seen.adapters) =>
                Entries(answer.values) = 1 .. Len(seen.adapters)
<1>1. CASE AdaptersSeen /\ Mapped(answer, seen.adapters)
  <2>1. /\ DOMAIN answer.values = {<<0, "gpus">>} \cup (1 .. Len(seen.adapters)) \X GpuFields
        /\ answer.values[<<0, "gpus">>] = Len(seen.adapters) /\ Len(seen.adapters) \in Nat
    BY <1>1 DEF Mapped, AdaptersSeen
  <2>2. "type" \in GpuFields
    BY DEF GpuFields
  <2>3. Listing(answer.values, "gpus", GpuFields) /\ Entries(answer.values) = 1 .. Len(seen.adapters)
    BY <2>1, <2>2, ListingOf
  <2>4. Nothing(result.values, "gpus") => Listing(result.values, "gpus", GpuFields)
    BY NothingListed
  <2> QED BY <2>3, <2>4, AdaptersReturned
<1>2. CASE ~(AdaptersSeen /\ Mapped(answer, seen.adapters))
  BY <1>2, AdaptersReturned, NothingListed
<1> QED BY <1>1, <1>2

-----------------------------------------------------------------------------
(* The diagnosis *)

LEMMA DiagnosisOK == DInv => (section # "event_logs" => DiagnosisAccepted)
<1> SUFFICES ASSUME DInv, section # "event_logs", Written
             PROVE  Accepted(section, result.values, evaluations, Summarize(evaluations))
  BY DEF DiagnosisAccepted
<1>1. evaluations = Diagnose(section, result.values) /\ stage = "done"
      /\ MemoryRead /\ DevicesRead /\ AdaptersRead
  BY DEF DInv, Followed, Written
<1>2. CASE section = "memory"
  <2>1. evaluations = <<MemoryRule(result.values)>>
    BY <1>1, <1>2 DEF Diagnose
  <2>2. {"total", "available"} \subseteq DOMAIN result.values
    BY <1>1, <1>2, MemoryReturned DEF MemoryFields
  <2>3. DOMAIN evaluations = 1 .. 1 /\ evaluations[1] = MemoryRule(result.values)
    BY <2>1
  <2>4. Faithful("memory", result.values, evaluations[1])
    BY <2>2, <2>3, MemoryRuleIs
  <2>5. \A i \in 1 .. 1 : i = 1
    OBVIOUS
  <2> QED BY <1>2, <2>3, <2>4, <2>5, AcceptedIs
<1>3. CASE section = "devices"
  <2>1. evaluations = <<DeviceRule(result.values)>>
    BY <1>1, <1>3 DEF Diagnose
  <2>2. Listing(result.values, "devices", {"present", "problem"})
    BY <1>1, <1>3, DevicesListed DEF Listing, DeviceFields
  <2>3. DOMAIN evaluations = 1 .. 1 /\ evaluations[1] = DeviceRule(result.values)
    BY <2>1
  <2>4. Faithful("devices", result.values, evaluations[1])
    BY <2>2, <2>3, DeviceRuleIs
  <2>5. \A i \in 1 .. 1 : i = 1
    OBVIOUS
  <2> QED BY <1>3, <2>3, <2>4, <2>5, AcceptedIs
<1>4. CASE section = "gpus"
  <2>1. evaluations = EvaluateGpus(result.values)
    BY <1>1, <1>4 DEF Diagnose
  <2>2. Listing(result.values, "gpus", {"type", "problem", "started", "driver", "instance"})
    BY <1>1, <1>4, AdaptersListed DEF Listing, GpuFields
  <2>3. DOMAIN evaluations = 1 .. 4
        /\ \A n \in 1 .. 4 : Faithful("gpus", result.values, evaluations[n])
                             /\ evaluations[n].rule = <<"gpu", GpuRules[n]>>
    BY <2>1, <2>2, GpuRulesAre
  <2>4. \A i, k \in 1 .. 4 : GpuRules[i] = GpuRules[k] => i = k
    BY DEF GpuRules
  <2>5. \A i, k \in 1 .. 4 : evaluations[i].rule = evaluations[k].rule => i = k
    BY <2>3, <2>4
  <2> QED BY <1>4, <2>3, <2>5, AcceptedIs
<1>5. CASE section \notin {"memory", "devices", "gpus"}
  <2>1. evaluations = <<>>
    BY <1>1, <1>5 DEF Diagnose
  <2>2. DOMAIN evaluations = 1 .. 0 /\ 0 \in Nat /\ \A i \in 1 .. 0 : FALSE
    BY <2>1
  <2> QED BY <2>2, AcceptedIs
<1> QED BY <1>2, <1>3, <1>4, <1>5

LEMMA FaultOK == DInv => (section # "event_logs" => FaultReported)
<1> SUFFICES ASSUME DInv, section # "event_logs", Written
             PROVE  FaultReported
  BY DEF FaultReported
<1>1. evaluations = Diagnose(section, result.values) /\ stage = "done"
      /\ MemoryRead /\ DevicesRead /\ AdaptersRead
  BY DEF DInv, Followed, Written
<1> DEFINE Spoken(rule) == {x \in ToSet(evaluations) : x.rule = rule}
<1>2. section = "gpus" => \A i \in HardwareGpus(result.values) :
        /\ result.values[<<i, "problem">>] \notin {Null, 0} =>
              Verdicts(<<"gpu", "device_problem">>) = {"triggered"}
        /\ result.values[<<i, "started">>] = FALSE =>
              Verdicts(<<"gpu", "adapter_started">>) = {"triggered"}
  <2> SUFFICES ASSUME section = "gpus", NEW i \in HardwareGpus(result.values)
               PROVE  /\ result.values[<<i, "problem">>] \notin {Null, 0} =>
                            Verdicts(<<"gpu", "device_problem">>) = {"triggered"}
                      /\ result.values[<<i, "started">>] = FALSE =>
                            Verdicts(<<"gpu", "adapter_started">>) = {"triggered"}
    OBVIOUS
  <2>1. evaluations = EvaluateGpus(result.values)
    BY <1>1 DEF Diagnose
  <2>2. Listing(result.values, "gpus", {"type", "problem", "started", "driver", "instance"})
    BY <1>1, AdaptersListed DEF Listing, GpuFields
  <2>3. /\ DOMAIN evaluations = 1 .. 4
        /\ \A n \in 1 .. 4 : evaluations[n].rule = <<"gpu", GpuRules[n]>>
        /\ result.values[<<i, "problem">>] \notin {Null, 0} => evaluations[1].status = "triggered"
        /\ result.values[<<i, "started">>] = FALSE => evaluations[2].status = "triggered"
    BY <2>1, <2>2, GpuRulesAre
  <2>4. \A n \in 1 .. 4 : /\ <<"gpu", GpuRules[n]>> = <<"gpu", "device_problem">> <=> n = 1
                          /\ <<"gpu", GpuRules[n]>> = <<"gpu", "adapter_started">> <=> n = 2
    BY DEF GpuRules
  <2>5. Spoken(<<"gpu", "device_problem">>) = {evaluations[1]}
        /\ Spoken(<<"gpu", "adapter_started">>) = {evaluations[2]}
    BY <2>3, <2>4 DEF ToSet
  <2>6. Verdicts(<<"gpu", "device_problem">>) = {evaluations[1].status}
        /\ Verdicts(<<"gpu", "adapter_started">>) = {evaluations[2].status}
    BY <2>5 DEF Verdicts
  <2> QED BY <2>3, <2>6
<1>3. section = "devices" /\ result.status # "failed" => \A d \in ToSet(pc.devices) :
        d.present = TRUE /\ d.problem \notin {Null, 0} =>
           \E e \in ToSet(evaluations) :
              /\ e.status = "triggered"
              /\ d.problem # 22 => e.severity = "error"
  <2> SUFFICES ASSUME section = "devices", result.status # "failed", NEW d \in ToSet(pc.devices),
                      d.present = TRUE, d.problem \notin {Null, 0}
               PROVE  \E e \in ToSet(evaluations) :
                         e.status = "triggered" /\ (d.problem # 22 => e.severity = "error")
    OBVIOUS
  <2>1. /\ DevicesMapped(answer, pc.devices) /\ result.values = answer.values
        /\ pc.devices \in Seq(DeviceKinds)
    BY <1>1, DevicesReturned DEF Admitted
  <2>2. /\ Listing(result.values, "devices", {"present", "problem"})
        /\ Entries(result.values) = 1 .. Len(pc.devices) /\ result.values[<<0, "devices">>] # Null
    BY <1>1, <2>1, DevicesListed DEF Listing, DeviceFields
  <2>3. evaluations = <<DeviceRule(result.values)>>
    BY <1>1 DEF Diagnose
  <2> DEFINE e == DeviceRule(result.values)
  <2>4. e \in ToSet(evaluations)
    BY <2>3 DEF ToSet
  <2>5. PICK i \in DOMAIN pc.devices : d = pc.devices[i]
    BY DEF ToSet
  <2>6. /\ result.values[<<i, "present">>] = TRUE /\ result.values[<<i, "problem">>] = d.problem
        /\ i \in Entries(result.values)
    <3>1. DOMAIN pc.devices = 1 .. Len(pc.devices)
      BY <2>1
    <3>2. answer.values[<<i, "present">>] = pc.devices[i].present
          /\ answer.values[<<i, "problem">>] = pc.devices[i].problem
      BY <2>1 DEF DevicesMapped
    <3>3. result.values[<<i, "present">>] = d.present /\ result.values[<<i, "problem">>] = d.problem
      BY <2>1, <2>5, <3>2
    <3> QED BY <2>2, <3>1, <3>3
  <2>7. \A k \in Entries(result.values) : result.values[<<k, "present">>] = TRUE =>
          /\ result.values[<<k, "problem">>] \notin {Null, 0} => e.status = "triggered"
          /\ result.values[<<k, "problem">>] \notin {Null, 0, 22} => e.severity = "error"
    BY <2>2, DeviceRuleIs
  <2> HIDE DEF e
  <2> QED BY <2>4, <2>6, <2>7
<1>4. section = "memory" /\ pc.total > 0 /\ pc.available * 10 < pc.total =>
        Verdicts(<<"memory", "available_ratio">>) # {"passed"}
  <2> SUFFICES ASSUME section = "memory", pc.available * 10 < pc.total,
                      Verdicts(<<"memory", "available_ratio">>) = {"passed"}
               PROVE  FALSE
    OBVIOUS
  <2>1. evaluations = <<MemoryRule(result.values)>>
    BY <1>1 DEF Diagnose
  <2>2. MemoryFields \subseteq DOMAIN result.values /\ OfMemory(result.values) /\ pc \in Memories
    BY <1>1, MemoryReturned DEF MemoryRead
  <2> DEFINE e == MemoryRule(result.values)
             total == result.values["total"]
             available == result.values["available"]
  <2>3. /\ e.rule = <<"memory", "available_ratio">>
        /\ e.status = "passed" => total # Null /\ available # Null /\ ~(10 * available < total)
    BY <2>2, MemoryRuleIs DEF MemoryFields
  <2>4. ToSet(evaluations) = {e}
    BY <2>1 DEF ToSet
  <2> HIDE DEF e
  <2>5. e.status = "passed"
    BY <2>3, <2>4 DEF Verdicts
  <2>6. total = pc.total /\ available = pc.available
    BY <2>2, <2>3, <2>5 DEF OfMemory, MemoryFields
  <2> HIDE DEF total, available
  <2>7. pc.total \in Nat /\ pc.available \in Nat
    BY <2>2, SectionsAssumption
  <2> QED BY <2>3, <2>5, <2>6, <2>7
<1> QED BY <1>2, <1>3, <1>4 DEF FaultReported

LEMMA PassOK == DInv => (section # "gpus" => PassIsEarned)
<1> SUFFICES ASSUME DInv, Written, section = "devices",
                    "passed" \in Verdicts(<<"device", "device_problem">>),
                    NEW d \in ToSet(pc.devices), d.present = TRUE
             PROVE  d.problem = 0
  BY DEF PassIsEarned
<1>1. evaluations = <<DeviceRule(result.values)>> /\ stage = "done" /\ DevicesRead
  BY DEF DInv, Followed, Written, Diagnose
<1> DEFINE e == DeviceRule(result.values)
<1>2. ToSet(evaluations) = {e}
  BY <1>1 DEF ToSet
<1>3. Listing(result.values, "devices", {"present", "problem"})
  BY <1>1, DevicesListed DEF Listing, DeviceFields
<1>4. /\ result.values[<<0, "devices">>] = Null => e.status = "not_evaluated"
      /\ result.values[<<0, "devices">>] # Null =>
           \A k \in Entries(result.values) : result.values[<<k, "present">>] = TRUE =>
              (e.status = "passed" => result.values[<<k, "problem">>] = 0)
  BY <1>3, DeviceRuleIs
<1> HIDE DEF e
<1>5. e.status = "passed"
  BY <1>2 DEF Verdicts
<1>6. /\ DevicesMapped(answer, pc.devices) /\ result.values = answer.values
      /\ pc.devices \in Seq(DeviceKinds)
  BY <1>1, <1>4, <1>5, DevicesReturned DEF Nothing
<1>7. Entries(result.values) = 1 .. Len(pc.devices)
  BY <1>1, <1>6, DevicesListed
<1>8. PICK i \in DOMAIN pc.devices : d = pc.devices[i]
  BY DEF ToSet
<1>9. i \in Entries(result.values) /\ result.values[<<i, "present">>] = TRUE
      /\ result.values[<<i, "problem">>] = d.problem
  <2>1. DOMAIN pc.devices = 1 .. Len(pc.devices)
    BY <1>6
  <2>2. result.values[<<i, "present">>] = TRUE /\ result.values[<<i, "problem">>] = d.problem
    BY <1>6, <1>8, ZenonT(30) DEF DevicesMapped
  <2> QED BY <1>7, <2>1, <2>2
<1> QED BY <1>4, <1>5, <1>9

-----------------------------------------------------------------------------
(* What a success says *)

\* The gate lets no null pass in a successful section.
LEMMA GateHoldsNulls ==
    ASSUME NEW s \in Fixed \cup {"windows_security", "windows_updates"},
           NEW r, r.status = "success", GateErrors(s, r) = {}
    PROVE  Nulls(r.values) = {}
<1>1. StatusErrors(r) = {} => Nulls(r.values) = {}
  <2>1. StatusErrors(r) = {} => {<<"no_reason", p>> : p \in Nulls(r.values) \ DOMAIN r.fields} = {}
                                /\ {<<"not_success", p>> : p \in DOMAIN r.fields} = {}
    BY DEF StatusErrors, FieldErrors, SuccessErrors
  <2> QED BY <2>1
<1>2. {<<"not_success", p>> : p \in Nulls(r.values)} = {} => Nulls(r.values) = {}
  OBVIOUS
<1>3. CASE s \in {"windows", "clock", "firmware"}
  <2>1. GateErrors(s, r) = {} => StatusErrors(r) = {}
    BY <1>3 DEF GateErrors, WindowsErrors, ClockErrors, FirmwareErrors
  <2> QED BY <1>1, <2>1
<1>4. CASE s = "memory"
  <2>1. {<<"not_success", p>> : p \in Nulls(r.values) \cup DOMAIN r.fields} \subseteq GateErrors(s, r)
    BY <1>4 DEF GateErrors, MemoryErrors
  <2> QED BY <2>1
<1>5. CASE s = "windows_security"
  <2>1. {<<"not_success", p>> : p \in Nulls(r.values)} \subseteq GateErrors(s, r)
    BY <1>5 DEF GateErrors, SecurityErrors
  <2> QED BY <1>2, <2>1
<1>6. CASE s = "windows_updates"
  <2>1. {<<"not_success", p>> : p \in Nulls(r.values)} \subseteq GateErrors(s, r)
    BY <1>6 DEF GateErrors, UpdateErrors
  <2> QED BY <1>2, <2>1
<1> QED BY <1>3, <1>4, <1>5, <1>6 DEF Fixed

LEMMA DevicesComplete ==
    ASSUME DevicesRead, section = "devices", stage # "collecting", result.status = "success"
    PROVE  /\ Entries(result.values) = DOMAIN pc.devices
           /\ \A p \in Nulls(result.values) : pc.devices[p[1]].present = FALSE
<1>1. /\ DevicesMapped(answer, pc.devices) /\ result = DeviceResult(answer)
      /\ result.values = answer.values /\ pc.devices \in Seq(DeviceKinds)
  BY DevicesReturned DEF Admitted
<1>2. Entries(answer.values) = 1 .. Len(pc.devices) /\ <<0, "devices">> \notin Nulls(answer.values)
  BY <1>1, DevicesListed DEF Nulls
<1>3. Range(answer.reasons) \subseteq {"not_applicable"}
  BY <1>1, <1>2 DEF DeviceResult, Result
<1>4. ASSUME NEW p \in Nulls(answer.values) PROVE pc.devices[p[1]].present = FALSE
  <2>1. p \in DOMAIN answer.reasons /\ answer.reasons[p] = DeviceReason(p[2], pc.devices[p[1]])
    BY <1>1 DEF DevicesMapped
  <2>2. answer.reasons[p] = "not_applicable"
    BY <1>3, <2>1 DEF Range
  <2> QED BY <2>1, <2>2 DEF DeviceReason
<1>5. DOMAIN pc.devices = 1 .. Len(pc.devices)
  BY <1>1
<1> QED BY <1>1, <1>2, <1>4, <1>5

LEMMA AdaptersComplete ==
    ASSUME AdaptersRead, section = "gpus", stage # "collecting", result.status = "success",
           GpuErrors(result) = {}
    PROVE  /\ \A p \in Nulls(result.values) : p[1] \in Software(result.values)
           /\ Undisturbed => Entries(result.values) = DOMAIN pc.cards
<1>1. /\ AdaptersSeen /\ Mapped(answer, seen.adapters) /\ result = GpuResult(answer)
      /\ result.values = answer.values
  BY AdaptersReturned DEF Admitted
<1>2. Entries(answer.values) = 1 .. Len(seen.adapters)
  BY <1>1, AdaptersListed
<1>3. /\ DOMAIN seen.adapters = 1 .. Len(seen.adapters) /\ Len(seen.adapters) # Null
      /\ Undisturbed => seen.adapters = pc.cards
  <2>1. seen.adapters \in Seq(Cards)
    BY <1>1 DEF AdaptersSeen
  <2>2. Len(seen.adapters) \in Nat
    BY <2>1
  <2> QED BY <1>1, <2>1, <2>2, NullAssumption DEF AdaptersSeen
<1>4. <<0, "gpus">> \notin Nulls(answer.values)
  BY <1>1, <1>3 DEF Mapped, Nulls
<1>5. Range(answer.reasons) \subseteq {"not_applicable"} /\ result.fields = answer.reasons
  BY <1>1, <1>4 DEF GpuResult, Result
<1>6. Nulls(answer.values) \subseteq DOMAIN answer.reasons
  <2>1. {<<"no_reason", p>> : p \in Nulls(result.values) \ DOMAIN result.fields}
          \subseteq GpuErrors(result)
    BY DEF GpuErrors, ListErrors, FieldErrors
  <2> QED BY <1>1, <1>5, <2>1
<1>7. ASSUME NEW p \in Nulls(answer.values) PROVE p[1] \in Software(answer.values)
  <2>1. answer.reasons[p] = GpuReason(p[2], seen.adapters[p[1]].type)
    BY <1>1, <1>6 DEF Mapped
  <2>2. answer.reasons[p] = "not_applicable"
    BY <1>5, <1>6 DEF Range
  <2>3. seen.adapters[p[1]].type = "software"
    BY <2>1, <2>2 DEF GpuReason, MissingStatus
  <2>4. p \in (DOMAIN seen.adapters) \X GpuFields
    BY <1>1, <1>4 DEF Mapped, Nulls
  <2>5. p[1] \in DOMAIN seen.adapters
    BY <2>4
  <2>6. answer.values[<<p[1], "type">>] = "software"
    BY <1>1, <2>3, <2>5 DEF Mapped
  <2> QED BY <1>2, <1>3, <2>5, <2>6 DEF Software, HardwareGpus
<1> QED BY <1>1, <1>2, <1>3, <1>7

Completed == Fixed \cup {"windows_security", "windows_updates", "devices"}

LEMMA CompleteOK == DInv => (section \in Completed => SuccessIsComplete)
<1> SUFFICES ASSUME DInv, section \in Completed, Written, result.status = "success"
             PROVE  SuccessIsComplete
  BY DEF SuccessIsComplete
<1>1. /\ stage = "done" /\ GateErrors(section, result) = {} /\ DevicesRead
  BY DEF DInv, Followed, Written
<1>2. section # "devices" => Nulls(result.values) = {}
  BY <1>1, GateHoldsNulls DEF Completed
<1>3. section = "devices" =>
        /\ Entries(result.values) = DOMAIN pc.devices
        /\ \A p \in Nulls(result.values) : pc.devices[p[1]].present = FALSE
  BY <1>1, DevicesComplete
<1>4. section \notin {"cpu", "gpus", "event_logs", "runtime_environment"}
  BY DEF Completed, Fixed
<1> QED BY <1>2, <1>3, <1>4 DEF SuccessIsComplete

\* Of the devices, the gate finds nothing wrong.
LEMMA DevicesUnblamed ==
    ASSUME DevicesRead, section = "devices", stage # "collecting"
    PROVE  DeviceErrors(result) = {}
<1> DEFINE absent == {q \in DOMAIN result.fields : q[2] \in {"started", "problem"} /\
                        q \in DOMAIN result.values /\ result.values[<<q[1], "present">>] = FALSE /\
                        result.fields[q] # "not_applicable"}
<1>1. DeviceErrors(result) = ListErrors(result) \cup Twins(result, "instance")
                             \cup {<<"absent", q>> : q \in absent}
  BY DEF DeviceErrors
<1>2. CASE Nothing(result.values, "devices") /\ Admitted(result)
  <2>1. ListErrors(result) = {}
    BY <1>2 DEF ListErrors, FailureErrors, Nothing, Nulls, Admitted
  <2>2. Entries(result.values) = {}
    BY <1>2, NothingListed
  <2>3. Twins(result, "instance") = {} /\ absent = {}
    BY <1>2, <2>2 DEF Twins, Admitted
  <2> QED BY <1>1, <2>1, <2>3
<1>3. CASE ~(Nothing(result.values, "devices") /\ Admitted(result))
  <2>1. /\ DevicesMapped(answer, pc.devices) /\ result = DeviceResult(answer)
        /\ result.values = answer.values /\ pc.devices \in Seq(DeviceKinds)
    BY <1>3, DevicesReturned
  <2>2. Entries(answer.values) = DOMAIN pc.devices /\ <<0, "devices">> \notin Nulls(answer.values)
    BY <2>1, DevicesListed DEF Nulls
  <2>3. result.fields = answer.reasons
        /\ \/ result.status = "success" /\ Range(answer.reasons) \subseteq {"not_applicable"}
           \/ result.status = "partial"
    BY <2>1, <2>2 DEF DeviceResult, Result
  <2>4. FieldErrors(result, Nulls(result.values)) = {}
    BY <2>1, <2>3 DEF FieldErrors, DevicesMapped
  <2>5. result.status = "success" =>
          {q \in DOMAIN result.fields : result.fields[q] # "not_applicable"} = {}
    BY <2>3 DEF Range
  <2>6. ListErrors(result) = {}
    BY <2>3, <2>4, <2>5 DEF ListErrors
  <2>7. Twins(result, "instance") = {}
    <3>1. \A i \in Entries(result.values) : result.values[<<i, "instance">>] = i
      BY <2>1, <2>2 DEF DevicesMapped
    <3>2. \A i, k \in Entries(result.values) : i < k =>
            result.values[<<i, "instance">>] # result.values[<<k, "instance">>]
      BY <2>1, <2>2, <3>1
    <3> QED BY <3>2 DEF Twins
  <2>8. absent = {}
    <3> SUFFICES ASSUME NEW q \in absent PROVE FALSE
      OBVIOUS
    <3>1. /\ q \in DOMAIN answer.reasons /\ q[2] \in {"started", "problem"}
          /\ answer.values[<<q[1], "present">>] = FALSE /\ answer.reasons[q] # "not_applicable"
      BY <2>1, <2>3
    <3>2. answer.reasons[q] = DeviceReason(q[2], pc.devices[q[1]])
      BY <2>1, <3>1 DEF DevicesMapped
    <3>3. q \in (DOMAIN pc.devices) \X DeviceFields
      BY <2>1, <2>2, <3>1 DEF DevicesMapped, Nulls
    <3>4. q[1] \in DOMAIN pc.devices
      BY <3>3
    <3>5. answer.values[<<q[1], "present">>] = pc.devices[q[1]].present
      BY <2>1, <3>4 DEF DevicesMapped
    <3> QED BY <3>1, <3>2, <3>5 DEF DeviceReason
  <2> QED BY <1>1, <2>6, <2>7, <2>8
<1> QED BY <1>2, <1>3

LEMMA RefusalOK == DInv => (section = "devices" => ExplainedRefusal)
<1> SUFFICES ASSUME DInv, section = "devices" PROVE ExplainedRefusal
  OBVIOUS
<1>1. DevicesRead /\ Followed /\ stage \in {"collecting", "gate", "rules", "done"}
  BY DEF DInv
<1>2. stage # "collecting" => GateErrors(section, result) = {}
  BY <1>1, DevicesUnblamed DEF GateErrors
<1>3. errors = {}
  BY <1>1, <1>2 DEF Followed
<1> QED BY <1>3, RefusalNow
=============================================================================
