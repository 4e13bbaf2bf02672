---------------------------- MODULE ModelClient ----------------------------
(***************************************************************************)
(* Calls of the language model (llm/llm.go, llm/http_client.go) and the    *)
(* log of them that all processes share (llm/usage.go).  A call is sent    *)
(* once, recorded whatever came of it, and then its text is searched for   *)
(* an array of facts.                                                      *)
(*                                                                         *)
(* A text is a sequence of tokens: brackets, facts (objects, with the      *)
(* arrays inside them) and strings; other text is left out.                *)
(***************************************************************************)
EXTENDS Integers, Sequences, FiniteSets, SequencesExt

CONSTANTS
    Proc,        \* processes that call the model
    Prompt,      \* prompts, as their hashes tell them apart
    Function,    \* methods of Client; those but "Chat" look for an array
    Text,        \* what the model may answer
    DupWindow,   \* how long an equal call is a duplicate (5 minutes)
    MaxCalls, MaxClock, MaxFaults   \* bounds

VARIABLES
    calls,    \* what each process is doing
    db,       \* its handle on the log: "new", "open" or "failed"
    usage,    \* the table prompt_usage
    clock,    \* minutes
    faults

clientVars == <<calls, db, usage, clock, faults>>

Idle == [step |-> "idle"]

ClientInit ==
    /\ calls = [p \in Proc |-> Idle] /\ db = [p \in Proc |-> "new"]
    /\ usage = <<>> /\ clock = 0 /\ faults = 0

Step(p, r) == calls' = [calls EXCEPT ![p] = r]
Go(p, step) == Step(p, [calls[p] EXCEPT !.step = step])
Fault == faults < MaxFaults /\ faults' = faults + 1
NoFault == UNCHANGED faults

-----------------------------------------------------------------------------
(* The answer *)

Depth(text, n) ==
    Cardinality({i \in 1 .. n : text[i] = "open"}) - Cardinality({i \in 1 .. n : text[i] = "close"})

\* Mutant: an array ends at the last bracket that closes one.
ExtractToLast(text) ==
    LET starts == {n \in DOMAIN text : text[n] = "open" /\ Depth(text, n - 1) = 0}
        ends == {n \in DOMAIN text : text[n] = "close" /\ Depth(text, n) = 0}
    IN  IF starts = {} \/ ends = {} THEN <<>>
        ELSE SubSeq(text, CHOOSE n \in starts : \A m \in starts : n <= m,
                          CHOOSE n \in ends : \A m \in ends : m <= n)

\* extractJSON: from the last bracket that opens at depth 0 before the first that closes to
\* depth 0; "[]" where there is none, or where it opens too late.
extractJSON(text) ==
    LET ends == {n \in DOMAIN text : text[n] = "close" /\ Depth(text, n) = 0}
        end == IF ends = {} THEN 0 ELSE CHOOSE n \in ends : \A m \in ends : n <= m
        starts == {n \in 1 .. end : text[n] = "open" /\ Depth(text, n - 1) = 0}
    IN  IF starts = {} THEN <<"open", "close">>
        ELSE SubSeq(text, CHOOSE n \in starts : \A m \in starts : m <= n, end)

\* What json.Unmarshal makes of it: the number of objects, or an error.  The text always
\* begins with a bracket, so the search for an object that wraps the array finds none.
Parsed(text) ==
    LET array == extractJSON(text) IN
      IF \A n \in 2 .. Len(array) - 1 : array[n] = "fact" THEN Len(array) - 2 ELSE -1

-----------------------------------------------------------------------------
(* A call *)

\* sent and seen are history variables: when the call was made, and the rows there were.
Send(p, f, prompt) ==
    /\ calls[p] = Idle
    /\ Len(usage) + Cardinality({q \in Proc : calls[q].step \notin {"idle", "recorded", "done"}}) < MaxCalls
    /\ Step(p, [step |-> "sent", function |-> f, prompt |-> prompt, error |-> FALSE,
                dup |-> FALSE, lost |-> FALSE, sent |-> clock, seen |-> Len(usage)])
    /\ UNCHANGED <<db, usage, clock, faults>>

\* chatWithModel: one request, and no retry.
Receive(p) ==
    /\ calls[p].step = "sent"
    /\ \/ Go(p, "answered") /\ NoFault
       \/ Step(p, [calls[p] EXCEPT !.step = "answered", !.error = TRUE]) /\ Fault
    /\ UNCHANGED <<db, usage, clock>>

\* usageOnce: what the first attempt of a process finds is for its lifetime.
OpenUsageDB(p) ==
    /\ calls[p].step = "answered" /\ db[p] = "new"
    /\ \/ db' = [db EXCEPT ![p] = "open"] /\ NoFault
       \/ db' = [db EXCEPT ![p] = "failed"] /\ Fault
    /\ UNCHANGED <<calls, usage, clock>>

\* Mutant: the prompt is not part of the context.
ContextOfLabel(c) == <<c.function>>

Context(c) == <<c.function, c.prompt>>

isDuplicate(c) ==
    \E n \in DOMAIN usage : Context(usage[n]) = Context(c) /\ usage[n].at >= clock - DupWindow

\* Record: the look at the log.
CheckDuplicate(p) ==
    /\ calls[p].step = "answered" /\ db[p] # "new"
    /\ Step(p, IF db[p] = "failed" THEN [calls[p] EXCEPT !.step = "recorded", !.lost = TRUE]
               ELSE [calls[p] EXCEPT !.step = "insert", !.dup = isDuplicate(calls[p])])
    /\ UNCHANGED <<db, usage, clock, faults>>

Row(c) == [function |-> c.function, prompt |-> c.prompt, error |-> c.error, dup |-> c.dup,
           at |-> clock, sent |-> c.sent, seen |-> c.seen]

Inserted(c) == Append(usage, Row(c))

InsertUsage(p) ==
    /\ calls[p].step = "insert"
    /\ \/ usage' = Inserted(calls[p]) /\ Go(p, "recorded") /\ NoFault
       \/ Step(p, [calls[p] EXCEPT !.step = "recorded", !.lost = TRUE]) /\ Fault /\ UNCHANGED usage
    /\ UNCHANGED <<db, clock>>

\* Extract, Merge and ConceptTags parse what they got; Chat returns it.
Answer(text, facts) == [step |-> "done", text |-> text, facts |-> facts]

Return(p) ==
    /\ calls[p].step = "recorded"
    /\ IF calls[p].error \/ calls[p].function = "Chat" THEN Step(p, Answer(<<>>, 0))
       ELSE \E t \in Text : Step(p, Answer(t, Parsed(t)))
    /\ UNCHANGED <<db, usage, clock, faults>>

Done(p) ==
    /\ calls[p].step = "done"
    /\ Step(p, Idle)
    /\ UNCHANGED <<db, usage, clock, faults>>

Kill(p) ==
    /\ calls[p] # Idle /\ Fault
    /\ Step(p, Idle) /\ db' = [db EXCEPT ![p] = "new"]
    /\ UNCHANGED <<usage, clock>>

Tick == clock < MaxClock /\ clock' = clock + 1 /\ UNCHANGED <<calls, db, usage, faults>>

ClientNext ==
    \/ \E p \in Proc :
         \/ \E f \in Function, prompt \in Prompt : Send(p, f, prompt)
         \/ Receive(p) \/ OpenUsageDB(p) \/ CheckDuplicate(p) \/ InsertUsage(p)
         \/ Return(p) \/ Done(p) \/ Kill(p)
    \/ Tick

ClientSpec == ClientInit /\ [][ClientNext]_clientVars

-----------------------------------------------------------------------------
(* Properties *)

\* The log, whoever writes it at the same time: a call that is about to return has its row, with
\* its error, unless the log could not be written; a row is flagged as a duplicate only if an
\* equal call ("two asks with different questions are NOT duplicates", usage.go:187) was
\* recorded within the window before it was made, and is flagged if one was recorded before
\* it was even sent.
UsageIsTrue ==
    /\ \A p \in Proc : calls[p].step = "recorded" =>
         calls[p].lost \/ \E n \in calls[p].seen + 1 .. Len(usage) :
           /\ usage[n].function = calls[p].function /\ usage[n].prompt = calls[p].prompt
           /\ usage[n].error = calls[p].error /\ usage[n].sent = calls[p].sent
    /\ \A n \in DOMAIN usage :
         LET row == usage[n]
             Equal(m) == usage[m].function = row.function /\ usage[m].prompt = row.prompt
         IN  /\ row.dup => \E m \in 1 .. n - 1 : Equal(m) /\ usage[m].at >= row.sent - DupWindow
             /\ (\E m \in 1 .. row.seen : Equal(m) /\ usage[m].at >= row.at - DupWindow) => row.dup

\* "extractJSON locates the first balanced JSON array/object in s" (llm.go:509): a complete
\* array that no bracket precedes is what is taken, however the text goes on: all its facts,
\* if it holds nothing else, and an error otherwise.
FirstArrayTaken ==
    \A p \in Proc : calls[p].step = "done" /\ calls[p].text # <<>> =>
      LET t == calls[p].text
          Brackets(n) == \A i \in 1 .. n : t[i] \in {"fact", "string"}
      IN  \A m, n \in DOMAIN t :
            /\ Brackets(m - 1) /\ t[m] = "open" /\ t[n] = "close" /\ m < n
            /\ Depth(t, n) = 0 /\ \A i \in m .. n - 1 : Depth(t, i) > 0
            => calls[p].facts = IF \A i \in m + 1 .. n - 1 : t[i] = "fact" THEN n - m - 1 ELSE -1
=============================================================================
