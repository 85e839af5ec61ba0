----------------------------- MODULE MCSections -----------------------------
(* Sections for TLC: what the PC may be like, chosen so that each property  *)
(* meets the case it is about.                                              *)
EXTENDS Sections

\* Leap days and days that are none, and years the gate or the collector refuses.
MCDates ==
    {[year |-> d[1], month |-> d[2], day |-> d[3]] :
       d \in {<<2024, 2, 29>>, <<2023, 2, 29>>, <<1900, 2, 29>>, <<2000, 2, 29>>,
              <<12024, 1, 1>>, <<0, 1, 1>>, <<24, 13, 1>>}} \cup {Null}

\* Nothing, nearly nothing, and a tenth; pages beyond the limit, and too many of them.
MCMemories ==
    {m \in [total : {0, 1, 20}, available : {0, 1, 2, 20}, limit_pages : {2, 5},
            total_pages : {1, 2, 3}, page_size : {1, 4}] : m.available <= m.total}

MCTopologies ==
    {[packages |-> <<{1, 2, 3}>>, cores |-> <<{1, 2}, {3}>>, arm |-> FALSE],
     [packages |-> <<{1}, {2, 3}>>, cores |-> <<{1}, {2, 3}>>, arm |-> FALSE],
     [packages |-> <<{1}, {2}>>, cores |-> <<{1}, {2}>>, arm |-> TRUE]}

Card(id, traits, pci, parsed) ==
    [id |-> id, pci |-> pci, parsed |-> parsed, type |-> IF "software" \in traits THEN "software" ELSE "hardware",
     shy |-> "shy" \in traits, mute |-> "mute" \in traits, stopped |-> "stopped" \in traits,
     named |-> "unnamed" \notin traits, unread |-> "unread" \in traits,
     vendor |-> IF "large" \in traits THEN "large" ELSE IF "unlisted" \in traits THEN "unlisted"
                ELSE "listed"]

\* Of the same make: three whose devices say so, one that SetupAPI does not take for PCI,
\* and one whose instance id is not to be read; two whose PCI numbers SetupAPI has the
\* wrong way round; and two of software.
MCCards ==
    {Card("a", {}, "x", "x"), Card("b", {"shy"}, "x", "x"),
     Card("c", {"shy", "stopped", "unlisted"}, "x", "x"), Card("d", {"shy", "stopped"}, "x", Null),
     Card("e", {"unread", "mute"}, "x", "x"),
     Card("f", {"shy"}, "x", "y"), Card("g", {"shy", "stopped"}, "y", "x"),
     Card("h", {"software"}, "w", Null), Card("i", {"software", "unnamed", "large"}, "w", Null)}

MCDeviceKinds ==
    [named : {TRUE}, present : {TRUE, FALSE, Null}, problem : {0, 22, 43, Null}] \cup
    {[named |-> FALSE, present |-> TRUE, problem |-> 0]}

\* The last minute of a day, and the first ones of the next.
Clock(eve) ==
    LET midnight == Moment(eve[1], eve[2], eve[3], 1439)
    IN  <<midnight, NextMinute(midnight), NextMinute(NextMinute(midnight))>>
MCClocks == {Clock(eve) : eve \in {<<2023, 2, 28>>, <<2024, 2, 29>>, <<2023, 12, 31>>}}

Event(clock, tick, log, id, level, text) ==
    [tick |-> tick, time |-> clock[tick], log |-> log, id |-> id, level |-> level, text |-> text]

\* Shutdowns, the newest first.
Timeline(clock, n) ==
    {[i \in 1 .. n |-> Event(clock, t[i], "system", id[i], 1, Known)] :
       id \in [1 .. n -> {41, 6008}],
       t \in {x \in [1 .. n -> 1 .. 3] : \A i, j \in 1 .. n : i < j => x[i] >= x[j]}}
MCTimelines ==
    UNION {Timeline(c, n) : c \in MCClocks, n \in 0 .. 3} \cup
    {t \in Timeline(Clock(<<2024, 2, 29>>), 4) : Cardinality({i \in 1 .. 4 : t[i].id = 41}) = 2}

MCExtras ==
    LET c == Clock(<<2023, 12, 31>>)
    IN  {Event(c, 1, "system", 7, 2, Known), Event(c, 1, "system", 7031, 2, Null),
         Event(c, 2, "system", 10016, 2, Known), Event(c, 2, "system", 41, 4, Known),
         Event(c, 1, "application", 1000, 2, Known), Event(c, 2, "application", 1000, 2, ""),
         Event(c, 1, "security", 1102, 4, Known), Event(c, 1, "security", 4625, 0, Known),
         Event(c, 2, "security", 4719, 0, Known), Event(c, 2, "security", 4624, 0, Known)}

MCBiases == {-540, 0, 1500, 40000}

MCItems == SeqsUpTo({"good", "bad"}, 3)
=============================================================================
