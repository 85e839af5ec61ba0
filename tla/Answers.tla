------------------------------ MODULE Answers ------------------------------
(***************************************************************************)
(* What the collectors of pcdiag-windows make of the answers Windows gives *)
(* them, and the part of the gate (core/validation.rs) that compares the   *)
(* values of a collector with its status.                                  *)
(*                                                                         *)
(* A value has a path: the name of a field, or <<i, name>> in entry i of a *)
(* list.  A query is answered with values; a failed one leaves nulls, each *)
(* with its reason, and mostly a message.  Values that no check and no     *)
(* rule reads are all `Known'.                                             *)
(***************************************************************************)
EXTENDS Integers, FiniteSets, Sequences, SequencesExt

CONSTANT Null    \* JSON's null

Known == "known"

\* Null is none of the values that are there.
ASSUME NullAssumption ==
    Null \notin Nat \cup BOOLEAN \cup
              {Known, "uefi", "bios", "unknown", "not_monitored", "warning", "error", "critical"}

Answer(values, reasons, said) == [values |-> values, reasons |-> reasons, said |-> said]

Got(values) == Answer(values, <<>>, {})
GotAll(paths) == Got([p \in paths |-> Known])

\* A null at each path: with a message of that code, or without one.
Missed(paths, status, code) == Answer([p \in paths |-> Null], [p \in paths |-> status], {code})
Unsaid(paths, status) == Answer([p \in paths |-> Null], [p \in paths |-> status], {})

\* What is there first stays.
Beside(f, g) == [x \in DOMAIN f \cup DOMAIN g |-> IF x \in DOMAIN f THEN f[x] ELSE g[x]]
Join(a, b) ==
    Answer(Beside(a.values, b.values), Beside(a.reasons, b.reasons), a.said \cup b.said)

Nulls(values) == {p \in DOMAIN values : values[p] = Null}

\* What a collector returns; a failed one may drop the reasons of its nulls.
Result(status, answer) ==
    [status |-> status, values |-> answer.values, fields |-> answer.reasons, said |-> answer.said]
Unreasoned(result) == [result EXCEPT !.fields = <<>>]

\* A lost worker: nothing but nulls at these paths and one message.
Lost(paths) == Unreasoned(Result("failed", Missed(paths, "failed", "worker")))

\* The k-th of some places of a list, and what the list has at these places, in order.
Nth(places, k) == CHOOSE i \in places : Cardinality({j \in places : j <= i}) = k
EntriesAt(list, places) == [k \in 1 .. Cardinality(places) |-> list[Nth(places, k)]]

-----------------------------------------------------------------------------
(* The gate: a status and its fields against the values *)

\* Each field names a null, and each null has a field.
FieldErrors(r, nulls) ==
    {<<"not_null", p>> : p \in DOMAIN r.fields \ nulls} \cup
    {<<"no_reason", p>> : p \in nulls \ DOMAIN r.fields}

\* Failed or skipped: no value, and a message that says why.
FailureErrors(r) ==
    {<<"not_failed", p>> : p \in DOMAIN r.values \ Nulls(r.values)} \cup
    {<<"silent", c>> : c \in {x \in {r.status} : r.said = {}}}

\* Successful: nothing missing and nothing said that is not `harmless'.
SuccessErrors(r, harmless) ==
    {<<"not_success", p>> : p \in DOMAIN r.fields} \cup
    {<<"said", m>> : m \in r.said \ harmless}

\* What most sections are held to.
StatusErrors(r) ==
    CASE r.status = "success" -> FieldErrors(r, Nulls(r.values)) \cup SuccessErrors(r, {})
      [] r.status = "partial" -> FieldErrors(r, Nulls(r.values))
      [] r.status = "failed" -> FailureErrors(r)
=============================================================================
