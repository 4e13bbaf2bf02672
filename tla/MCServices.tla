----------------------------- MODULE MCServices -----------------------------
EXTENDS Services
CONSTANTS ent, pre, word, quoted, r1, r2, r3

(* Search: an entity of four characters, its prefix of two, and a word of two *)
MCPrefixesOf == [p \in {ent, pre, word, quoted} |-> IF p = ent THEN <<pre>> ELSE <<>>]
MCTerm == <<pre, word>>
MCIdf == << <<100>>, <<693, 100>>, <<1099, 405, 100>> >>

\* A text has all its patterns as often as its word.
Mem(has, often, phase, source, superseded, project, tags, reads) ==
    [has |-> has, often |-> [p \in has |-> often], phase |-> phase, source |-> source,
     superseded |-> superseded, project |-> project, tags |-> tags, reads |-> reads]
MCShape ==
    {Mem({pre}, 2, "inbox", "chat", FALSE, "A", {}, 0),
     Mem({ent, pre, word}, 5, "processed", "chat", TRUE, "B", {}, 3),
     Mem({word}, 3, "processed", "evidence-task", FALSE, "A", {"t", word}, 12),
     Mem({ent, pre, word}, 1, "processed", "chat", FALSE, "A", {}, 3)}

MCQuery == {<<ent>>, <<pre>>, <<word, ent>>}

Filter(phase, project, tags, exclude) ==
    [phase |-> phase, project |-> project, tags |-> tags, exclude |-> exclude]
MCFilters ==
    {Filter("processed", "", {}, {}), Filter("", "A", {}, {"evidence-task"}), Filter("", "", {"t"}, {})}

(* Ask *)
Ques(time, activity, aggregate, stats, relation) ==
    [time |-> time, activity |-> activity, aggregate |-> aggregate, stats |-> stats,
     relation |-> relation, keywords |-> <<ent>>, split |-> <<word, pre>>]
MCQuestion ==
    {Ques(FALSE, FALSE, FALSE, FALSE, FALSE), Ques(TRUE, FALSE, FALSE, FALSE, FALSE),
     Ques(FALSE, TRUE, TRUE, FALSE, FALSE), Ques(FALSE, TRUE, TRUE, TRUE, FALSE),
     Ques(TRUE, TRUE, FALSE, FALSE, TRUE), Ques(FALSE, TRUE, FALSE, FALSE, TRUE)}

Shares(o, p, i) == [organized |-> o, processed |-> p, inbox |-> i]
MCShare ==
    [dashboard |-> (TRUE :> Shares(2, 1, 1) @@ FALSE :> Shares(1, 1, 2)),
     mcp |-> [short \in BOOLEAN |-> Shares(2, 2, 1)]]

\* Of three memories the first two are of one day.
MCSimplified == [q \in Query |-> <<word>>]
MCDayOf == <<1, 1, 2>>
MCMost == [organized |-> 1, processed |-> 1, inbox |-> 2]

(* Times: three weeks at the beginning of the second year *)
MCNow == {86400 * d + t : d \in 400 .. 420, t \in {0, 9 * 3600, 15 * 3600, 84600, 86399}}

\* What a phrase does not say (None of Times).
Absent == -1
Phrase(relative, date, weekday, hour, minute, half, absolute) ==
    [relative |-> relative, date |-> date, weekday |-> weekday, hour |-> hour, minute |-> minute,
     half |-> half, absolute |-> absolute]
MCReminder ==
    {Phrase(n, "", 0, Absent, 0, "", Absent) : n \in {30, 7200, 259200}}
    \cup {Phrase(Absent, d, 0, Absent, 0, "", Absent) : d \in {"", "today", "in two days"}}
    \cup {Phrase(Absent, d, 0, h, m, x, Absent) :
            d \in {"", "today", "tomorrow", "in two days", "in three days"},
            h \in {3, 12, 15}, m \in {0, 30},
            x \in {"", "morning", "noon", "afternoon", "evening"}}
    \cup {Phrase(Absent, "next week", w, 10, 0, "", Absent) : w \in 0 .. 6}
    \cup {Phrase(Absent, "", 0, h, 30, "", a) : h \in {Absent, 15}, a \in {400, 480}}

Asks(kind, n, y, m, d, m2, d2) ==
    [kind |-> kind, n |-> n, year |-> y, month |-> m, day |-> d, month2 |-> m2, day2 |-> d2]
MCAsking ==
    {Asks("last days", n, Absent, 1, 1, 1, 1) : n \in {1, 30}}
    \cup {Asks(k, 0, Absent, 1, 1, 1, 1) : k \in {"last week", "this week"}}
    \cup {Asks(k, n, Absent, 1, 1, 1, 1) : k \in {"days ago", "full date"}, n \in 0 .. 2}
    \cup {Asks("dates", 0, Absent, m, 5, m2, 20) : m \in {1, 2, 12}, m2 \in {2, 3}}
    \cup {Asks(k, 0, y, m, 1, 1, 1) :
            k \in {"early month", "mid month", "late month", "month"}, y \in {Absent, 0},
            m \in 1 .. 12}
    \cup {Asks("date", 0, y, m, 15, 1, 1) : y \in {Absent, 0}, m \in 1 .. 12}

(* ModelClient *)
MCText ==
    {<<"fact">>, <<"string", "open", "fact", "close", "open", "close">>,
     <<"open", "string", "close">>, <<"open", "open", "fact", "close", "close">>,
     <<"close", "open", "fact", "close">>}

\* Rebuild: the memory of r1 names the title of that of r2.
MCWiki == {<<r1, r2>>}

(* Upgrade: no database yet, two versions without raw capture, and one without provenance *)
Older(columns, sourced, key, tokenizer) ==
    [cols |-> columns, sourced |-> sourced, provenance |-> FALSE, targetKey |-> key,
     tokenizer |-> tokenizer]
MCSchemaColumns == {"phase", "session_id", "processed_by"}
MCColumns == <<"session_id", "processed_by", "raw_entry_id", "project">>
MCVintage ==
    {Older({}, FALSE, FALSE, "none"), Older({"phase"}, FALSE, TRUE, "unicode61"),
     Older(MCSchemaColumns, FALSE, TRUE, "unicode61"),
     Older(MCSchemaColumns \cup {"raw_entry_id"}, TRUE, FALSE, "unicode61")}
=============================================================================
