----------------------------- MODULE Histories -----------------------------
(***************************************************************************)
(* The collectors that list what has happened or what is installed:        *)
(* event_logs.rs, windows_updates.rs and runtime_environment.rs of         *)
(* pcdiag-windows with their scripts, and what the gate asks of them.      *)
(***************************************************************************)
EXTENDS Answers

CONSTANTS
    MaxEvents,   \* events a log is read back to (1000)
    Batch,       \* entries of the update history read at a time (100)
    Limit,       \* items kept of a category of the runtime environment (5000)
    Categories   \* categories of the runtime environment

ASSUME HistoriesAssumption == {MaxEvents, Batch, Limit} \subseteq Nat \ {0}

FirstOf(n, s) == SubSeq(s, 1, IF n < Len(s) THEN n ELSE Len(s))

-----------------------------------------------------------------------------
(* Event logs: sequences of [time, id, level, text], the newest first *)

Logs == {"system", "application", "security"}
EventLogQueries == <<"system", "application", "security">>

\* What the script asks a log for; the rest is left out without a word.
Asked(log, event) ==
    IF log = "security" THEN event.id \in {1102, 4625, 4719} ELSE event.level \in 1 .. 3

\* parse_events: an event without a text is given one.  A blank text stays blank.
Entry(log, event) ==
    [log |-> log, time |-> event.time, id |-> event.id,
     text |-> IF event.text = Null THEN Known ELSE event.text]

\* The newest of those.
Logged(log, events) ==
    FirstOf(MaxEvents, EntriesAt(events, {i \in DOMAIN events : Asked(log, events[i])}))

LogAnswers(log, events) ==
    LET asked == Logged(log, events)
    IN  {Got([l \in {log} |-> [i \in DOMAIN asked |-> Entry(log, asked[i])]]),
         Missed({log}, "failed", "event_log")}

\* The reasons stay even when all three logs failed.
EventLogResult(answer) ==
    Result(CASE DOMAIN answer.reasons = {} -> "success"
             [] DOMAIN answer.reasons = Logs -> "failed"
             [] OTHER -> "partial", answer)

\* An entry is of its log and has a text.
EventErrors(r) ==
    UNION {{<<"event", log>> : e \in {x \in ToSet(r.values[log]) : x.log # log \/ x.text = ""}}
             : log \in DOMAIN r.values \ Nulls(r.values)}

EventLogErrors(r) ==
    (CASE r.status = "success" ->
             {<<"not_success", p>> : p \in Nulls(r.values)} \cup SuccessErrors(r, {})
       [] r.status = "partial" -> {<<"no_reason", p>> : p \in Nulls(r.values) \ DOMAIN r.fields}
       [] r.status = "failed" -> FailureErrors(r)) \cup EventErrors(r)

-----------------------------------------------------------------------------
(* Update history: the newest first, read page by page *)

\* The entries of a page up to the first that is older than the lookback.
Fresh(batch, cutoff) ==
    FirstOf(CHOOSE n \in 0 .. Len(batch) :
               /\ \A i \in 1 .. n : batch[i] >= cutoff
               /\ n < Len(batch) => batch[n + 1] < cutoff, batch)

UpdateQueries == <<"count", "pages">>

\* Before the first page: how many entries there are is asked once.
FirstPage(history) ==
    [total |-> Len(history), offset |-> 0, items |-> <<>>, by_date |-> FALSE,
     by_count |-> FALSE, over |-> history = <<>>]

\* Advance, were the entries numbered from one.
AdvancePast(pages, batch) == pages.offset + Len(batch) + 1

\* Where the next page starts.
Advance(pages, batch) == pages.offset + Len(batch)

\* Exhausted, were the first count of the entries believed.
ExhaustedByCount(batch, offset, total) == offset >= total

\* There is nothing left, or nothing came.
Exhausted(batch, offset, total) == batch = <<>> \/ offset >= total

\* One page of at most `Batch' entries, as many as are still wanted, from the place
\* the pages before it have reached.  The history may have changed since.
NextPage(pages, history, most, cutoff) ==
    LET left == {Batch, pages.total - pages.offset} \cup
                (IF most = Null THEN {} ELSE {most - Len(pages.items)})
        batch == FirstOf(Min(left), SubSeq(history, pages.offset + 1, Len(history)))
        fresh == Fresh(batch, cutoff)
        items == pages.items \o fresh
        offset == IF fresh = batch THEN Advance(pages, batch) ELSE pages.offset
        full == most # Null /\ Len(items) >= most
    IN  [pages EXCEPT !.items = items, !.offset = offset,
                      !.by_date = fresh # batch,
                      !.by_count = full /\ offset < pages.total,
                      !.over = fresh # batch \/ full \/ Exhausted(batch, offset, pages.total)]

UpdateAnswer(pages) ==
    Answer([history |-> pages.items], <<>>,
           {m \in {"truncated_by_date"} : pages.by_date} \cup
           {m \in {"truncated_by_count"} : pages.by_count})

\* The session, the searcher or a page fails.
UpdateFailure == Missed({"history"}, "failed", "windows_update")

UpdateResult(answer) ==
    Result(IF DOMAIN answer.reasons = {} THEN "success" ELSE "failed", answer)

UpdateErrors(r) ==
    (IF r.status = "success"
     THEN {<<"not_success", p>> : p \in Nulls(r.values)} \cup
          SuccessErrors(r, {"truncated_by_date", "truncated_by_count"})
     ELSE FailureErrors(r)) \cup
    {<<"unknown", p>> : p \in DOMAIN r.fields \ {"history"}}

-----------------------------------------------------------------------------
(* Runtime environment: <<0, c>> is category c and <<i, c>> its item i *)

\* A listed category: an item that is not as expected is dropped, under the number
\* it had.
Listed(c, items) ==
    LET listed == FirstOf(Limit, items)
        bad == {i \in DOMAIN listed : listed[i] = "bad"}
    IN  Answer([p \in {<<0, c>>} |-> [items |-> EntriesAt(listed, DOMAIN listed \ bad),
                                      truncated |-> Len(items) > Limit]],
               [p \in {<<i, c>> : i \in bad} |-> "invalid_value"],
               {m \in {"item"} : bad # {}})

\* The applications have two sources.  The registry may break off at any key: what
\* was read until then stays, and nothing is said of the rest.  The store may fail.
ApplicationAnswers(c, items) ==
    LET read == {Listed(c, FirstOf(n, items)) : n \in 0 .. Len(items)}
    IN  read \cup {[a EXCEPT !.reasons = Beside(@, [p \in {<<0, c>>} |-> "failed"]),
                             !.said = @ \cup {"appx"}] : a \in read}

\* The query of a category fails, or lists it.
CategoryAnswers(c, items) ==
    {Missed({<<0, c>>}, "failed", "category")} \cup
    (IF c = "installed_applications" THEN ApplicationAnswers(c, items) ELSE {Listed(c, items)})

\* The script fails, or says what is not JSON.
RuntimeFailure ==
    Answer([p \in {<<0, c>> : c \in Categories} |-> Null],
           [p \in {<<0, "runtime_environment">>} |-> "failed"], {"runtime_environment"})

Truncated(answer) ==
    \E p \in DOMAIN answer.values \ Nulls(answer.values) : answer.values[p].truncated

\* A shortened list is told by a message only when nothing else is.
RuntimeResult(answer) ==
    IF <<0, "runtime_environment">> \in DOMAIN answer.reasons THEN Result("failed", answer)
    ELSE IF DOMAIN answer.reasons # {} THEN Result("partial", answer)
    ELSE IF Truncated(answer) THEN Result("partial", [answer EXCEPT !.said = @ \cup {"truncated"}])
    ELSE Result("success", answer)
=============================================================================
