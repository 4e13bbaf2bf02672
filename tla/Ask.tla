-------------------------------- MODULE Ask --------------------------------
(***************************************************************************)
(* Answering a question from the memories: the pipeline of the dashboard's *)
(* chat (dashboard/ask_workflow.go) and the tool memory_ask of the MCP     *)
(* server (mcp/server.go), with the helpers both share (query/intent.go).  *)
(* Each search is a read of its own, and memories arrive in between.       *)
(*                                                                         *)
(* A question is what the program finds in it: a time range, the wish for  *)
(* a list or a relation, the keywords the model would name, and those that *)
(* splitting its characters gives.                                         *)
(***************************************************************************)
EXTENDS Search

CONSTANTS
    Question,   \* [time, activity, aggregate, stats, relation : BOOLEAN, keywords, split],
                \*   the last two sequences of patterns
    Aggregates, \* sources that are left out of an answer: "evidence-task" and "profile-task"
    Share,      \* entry -> is the inbox short? -> phase -> memories it may give to an answer
    Few,        \* the inbox is short with fewer (3)
    MaxAsked    \* bound: memories when a question is asked

\* Keywords are patterns, and an answer has room for each phase.
ASSUME AskAssumption ==
    /\ \A q \in Question : q.keywords \in Seq(Pattern) /\ q.split \in Seq(Pattern)
    /\ Share \in [{"dashboard", "mcp"} -> [BOOLEAN -> [Phases -> Nat \ {0}]]]

VARIABLE ask    \* the question at work, with the context of the pipeline

askVars == <<searchVars, ask>>

NoAsk == [step |-> "idle"]

AskInit == SearchInit /\ ask = NoAsk

At(step) == ask.step = step
Go(step) == [ask EXCEPT !.step = step]
Answer(told) == [ask EXCEPT !.step = "answered", !.told = told]
Reads == UNCHANGED searchVars

\* known is a history variable: the memories there were when the question came.
Begin(entry, q) ==
    /\ At("idle") /\ Len(memories) <= MaxAsked
    /\ ask' = [step |-> IF entry = "dashboard" THEN "resolve" ELSE "intent", entry |-> entry,
               question |-> q, query |-> <<>>, found |-> [p \in {} |-> <<>>], results |-> <<>>,
               told |-> "", spent |-> 0, known |-> Ids]
    /\ Reads

-----------------------------------------------------------------------------
(* The pipeline *)

\* stageResolveContext: with a history, the model or a concatenation makes another question
\* of it; a call takes its timeout at most.
ResolveContext ==
    /\ At("resolve")
    /\ \/ ask' = Go("intent")
       \/ \E q \in Question, s \in {0, 15} :
            ask' = [Go("intent") EXCEPT !.question = q, !.spent = @ + s]
    /\ Reads

\* The dashboard looks for a time first; MCP takes it only for a question about activity, and
\* knows no other intent.
Intent ==
    LET q == ask.question IN
      IF q.time /\ (ask.entry = "mcp" => q.activity) THEN "time"
      ELSE IF ask.entry = "mcp" THEN "keywords"
      ELSE IF q.aggregate THEN "aggregate"
      ELSE IF q.relation THEN "relation"
      ELSE "keywords"

DetectIntent ==
    /\ At("intent") /\ ask' = Go(Intent)
    /\ Reads

\* The memories of a time range, or those that name both ends of a relation: any of them.
FetchList ==
    /\ At("time") \/ At("relation")
    /\ \E is \in SUBSET Ids :
         ask' = IF is = {} THEN Answer("nothing")
                ELSE [Go("generate") EXCEPT !.results = OldestFirst(is)]
    /\ Reads

\* Statistics need no model; a list of entities is searched for in two of the phases.
FetchAggregate ==
    /\ At("aggregate")
    /\ LET In(p) == [phase |-> p, project |-> "", tags |-> {}, exclude |-> {}] IN
         IF ask.question.stats THEN ask' = Answer("numbers")
         ELSE \E s \in Strategy : \E organized \in SearchResults(ask.question.keywords, In("organized"), s) :
                LET results == organized \o SearchLike(ask.question.keywords, In("inbox"))
                IN  ask' = IF results = <<>> THEN Answer("nothing")
                           ELSE [Go("generate") EXCEPT !.results = results]
    /\ Reads

KeywordsTimeout(entry) == IF entry = "mcp" THEN 8 ELSE 15

\* Without an answer of the model, the question is split.
ExtractKeywords ==
    /\ At("keywords")
    /\ \E k \in {ask.question.keywords, ask.question.split} :
         ask' = [Go("fetch") EXCEPT !.query = k, !.spent = @ + KeywordsTimeout(ask.entry)]
    /\ Reads

\* Mutant: the processed memories are not searched.
OrderTwo(entry) == <<"organized", "inbox">>

Order(entry) ==
    IF entry = "mcp" THEN <<"inbox", "organized", "processed">>
    ELSE <<"organized", "inbox", "processed">>

Excluded == Aggregates

\* The searches, one for each phase.
FetchPhase ==
    /\ At("fetch") /\ Cardinality(DOMAIN ask.found) < Len(Order(ask.entry))
    /\ LET p == Order(ask.entry)[Cardinality(DOMAIN ask.found) + 1]
           f == [phase |-> p, project |-> "", tags |-> {}, exclude |-> Excluded]
           found == [x \in DOMAIN ask.found \cup {p} |->
                       IF x = p THEN SearchWithExpansion(ask.query, f) ELSE ask.found[x]]
       IN  ask' = [ask EXCEPT !.found = found]
    /\ Reads

\* stageRankEntity, and pick: what is over the share of a phase is left out.
Rank ==
    /\ At("fetch") /\ Cardinality(DOMAIN ask.found) = Len(Order(ask.entry))
    /\ LET share == Share[ask.entry][Len(ask.found["inbox"]) < Few]
           Part(p) == IF p \in DOMAIN ask.found
                      THEN SubSeq(ask.found[p], 1, Min({share[p], Len(ask.found[p])}))
                      ELSE <<>>
           results == Part("organized") \o Part("processed") \o Part("inbox")
       IN  ask' = IF results = <<>> THEN Answer("nothing")
                  ELSE [Go("generate") EXCEPT !.results = results]
    /\ Reads

GenerateTimeout(entry) == IF entry = "mcp" THEN 18 ELSE 60

\* MCP falls back to what was found; the dashboard tells the error.
Generate ==
    /\ At("generate")
    /\ \E told \in {"answer", IF ask.entry = "mcp" THEN "memories" ELSE "error"} :
         ask' = [Answer(told) EXCEPT !.spent = @ + GenerateTimeout(ask.entry)]
    /\ Reads

AskStep ==
    \/ ResolveContext \/ DetectIntent \/ FetchList \/ FetchAggregate
    \/ ExtractKeywords \/ FetchPhase \/ Rank \/ Generate

Arrive(m) ==
    /\ ~At("idle") => Len(memories) <= MaxAsked
    /\ Insert(m) /\ UNCHANGED ask

AskNext ==
    \/ \E entry \in {"dashboard", "mcp"}, q \in Question : Begin(entry, q)
    \/ AskStep \/ \E m \in Shape : Arrive(m)

AskSpec == AskInit /\ [][AskNext]_askVars

-----------------------------------------------------------------------------
(* Properties *)

Asked == ~At("idle") /\ ask.query # <<>>

\* An answer from keywords is grounded: "nothing" is said only if no memory of those known
\* from the beginning has a keyword, whatever phase it is in and whether or not the model
\* named the keywords; "auto-generated aggregates" never "crowd out real memories"
\* (ask_workflow.go:366); and a call of the tool ends within "the MCP 30s tool budget".
PipelineGrounded ==
    /\ Asked /\ At("answered") =>
         /\ ask.told = "nothing" =>
              \A i \in ask.known, n \in DOMAIN ask.query :
                 memories[i].source \notin Aggregates => ~Has(i, ask.query[n])
         /\ \A i \in ToSet(ask.results) : memories[i].source \notin Aggregates
    /\ ~At("idle") /\ ask.entry = "mcp" => ask.spent <= 30
=============================================================================
