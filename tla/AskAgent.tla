------------------------------ MODULE AskAgent ------------------------------
(***************************************************************************)
(* The agent of the dashboard (dashboard/agent.go): the language model     *)
(* plans searches, looks at what they found, and plans more, until it is   *)
(* content or a number of rounds is over; then it answers from a selection *)
(* of what was found.  Any call of the model may fail, and memories arrive *)
(* in between.                                                             *)
(***************************************************************************)
EXTENDS Search

CONSTANTS
    Simplified, \* question -> what simplifyQuery makes of it
    DayOf,      \* index -> the day of its creation
    Most,       \* phase -> memories of it that are selected
    Cited,      \* sources an answer comes with (10)
    MaxSteps,   \* rounds (max_steps)
    MaxKnown    \* bound: memories when a question is asked

\* The agent has a round at least (1 to 10), simpler words are words, every memory has a day,
\* and a selection has room for each phase.
ASSUME AgentAssumption ==
    /\ MaxSteps \in Nat \ {0} /\ Cited \in Nat
    /\ Simplified \in [Query -> Seq(Pattern)]
    /\ \A i \in 1 .. MaxMemories : DayOf[i] \in Int
    /\ Most \in [Phases -> Nat \ {0}]

VARIABLE agent  \* [step, question, todo, round, collected, prompt, told, sources]

agentVars == <<searchVars, agent>>

NoFilter == [phase |-> "", project |-> "", tags |-> {}, exclude |-> {}]

NoAgent == [step |-> "idle", question |-> <<>>, todo |-> <<>>, round |-> 0, collected |-> <<>>,
            prompt |-> {}, told |-> "", sources |-> <<>>]

AgentInit == SearchInit /\ agent = NoAgent

AgentAt(step) == agent.step = step
AgentAnswers(told, sources) == [agent EXCEPT !.step = "answered", !.told = told, !.sources = sources]

BeginAgent(q) ==
    /\ AgentAt("idle") /\ Len(memories) <= MaxKnown
    /\ agent' = [NoAgent EXCEPT !.step = "plan", !.question = q]
    /\ UNCHANGED searchVars

\* One to three searches, two of which stand for more.
Plans == {<<q>> : q \in Query} \cup (Query \X Query)

\* Without a plan the question itself is searched for.
Plan ==
    /\ AgentAt("plan")
    /\ \/ \E todo \in Plans : agent' = [agent EXCEPT !.step = "search", !.todo = todo]
       \/ agent' = [agent EXCEPT !.step = "fallback"]
    /\ UNCHANGED searchVars

\* resultCollector.add
Collected(found) ==
    agent.collected \o Only(found, {n \in DOMAIN found : found[n] \notin ToSet(agent.collected)})

fallbackSearch ==
    /\ AgentAt("fallback")
    /\ \E found \in SearchResults(agent.question, NoFilter, "idf") :
         agent' = IF found = <<>> THEN AgentAnswers("nothing", <<>>)
                  ELSE [agent EXCEPT !.step = "compose", !.collected = Collected(found)]
    /\ UNCHANGED searchVars

SearchNextQuery ==
    /\ AgentAt("search") /\ agent.todo # <<>>
    /\ \E found \in SearchResults(agent.todo[1], NoFilter, "idf") :
         agent' = [agent EXCEPT !.todo = Tail(@), !.collected = Collected(found)]
    /\ UNCHANGED searchVars

\* Mutant: the loop goes on as long as the model wants more.
WhileWanted(todo) == [agent EXCEPT !.step = "search", !.todo = todo, !.round = @ + 1]

\* Another round, if one is left.
NextRound(todo) ==
    IF agent.round + 1 = MaxSteps THEN [agent EXCEPT !.step = "compose"]
    ELSE [agent EXCEPT !.step = "search", !.todo = todo, !.round = @ + 1]

\* With nothing found, simpler words are tried, in every round that is left.
Simplify ==
    /\ AgentAt("search") /\ agent.todo = <<>> /\ agent.collected = <<>>
    /\ agent' = NextRound(<<Simplified[agent.question]>>)
    /\ UNCHANGED searchVars

\* The model is content, wants other searches, or does not answer.
Observe ==
    /\ AgentAt("search") /\ agent.todo = <<>> /\ agent.collected # <<>>
    /\ \/ agent' = [agent EXCEPT !.step = "compose"]
       \/ \E todo \in Plans : agent' = NextRound(todo)
    /\ UNCHANGED searchVars

\* A client that goes away is noticed at the beginning of a round, or fails the next call.
Cancel ==
    /\ AgentAt("search") /\ agent.todo # <<>>
    /\ agent' = AgentAnswers("cancelled", <<>>)
    /\ UNCHANGED searchVars

-----------------------------------------------------------------------------
(* The selection: buildSynthPrompt *)

InPhase(is, p) == Only(is, {n \in DOMAIN is : memories[is[n]].phase = p})
Upto(is, n) == SubSeq(is, 1, Min({n, Len(is)}))

\* In rounds, one memory of each day that has another, the days in the order of their first.
spreadByDateAgent(is, n) ==
    LET Nth(i) == Cardinality({j \in is : DayOf[j] = DayOf[i] /\ j < i})
        ahead == [i \in is |->
          {j \in is : Nth(j) < Nth(i) \/ (Nth(j) = Nth(i) /\ DayOf[j] < DayOf[i])}]
    IN  {i \in is : Cardinality(ahead[i]) < n}

\* Memories of the inbox are taken oldest first, the others as they were found.
Selected(collected) ==
    ToSet(Upto(InPhase(collected, "organized"), Most["organized"]))
    \cup ToSet(Upto(InPhase(collected, "processed"), Most["processed"]))
    \cup spreadByDateAgent(ToSet(InPhase(collected, "inbox")), Most["inbox"])

\* The model answers from the selection, and may be asked with nothing; the sources shown
\* are the first that were found.  Without its answer, what was found is shown.
Compose ==
    /\ AgentAt("compose")
    /\ \/ agent' = [AgentAnswers("answer", Upto(agent.collected, Cited))
                     EXCEPT !.prompt = Selected(agent.collected)]
       \/ agent' = AgentAnswers("memories", agent.collected)
    /\ UNCHANGED searchVars

AgentArrive(m) ==
    /\ ~AgentAt("answered") /\ (AgentAt("idle") => Len(memories) <= MaxKnown)
    /\ Insert(m) /\ UNCHANGED agent

AgentNext ==
    \/ \E q \in Query : BeginAgent(q)
    \/ Plan \/ fallbackSearch \/ SearchNextQuery \/ Simplify \/ Observe \/ Cancel \/ Compose
    \/ \E m \in Shape : AgentArrive(m)

AgentSpec == AgentInit /\ [][AgentNext]_agentVars

-----------------------------------------------------------------------------
(* Properties *)

Spread(is) == {DayOf[i] : i \in {i \in is : memories[i].phase = "inbox"}}

\* The agent ends: the model never gets more rounds than there are.  "Balanced phase
\* selection" (agent.go:346): however much was found in one phase, each that was found is
\* among what the answer is made from, and the memories of the inbox show it as many of their
\* days as there is room for; every source is shown once, and was found.
AgentGrounded ==
    /\ agent.round < MaxSteps
    /\ AgentAt("answered") =>
         /\ IsInjective(agent.sources) /\ ToSet(agent.sources) \subseteq ToSet(agent.collected)
         /\ agent.told = "answer" =>
              LET found == ToSet(agent.collected) IN
                /\ {memories[i].phase : i \in agent.prompt} = {memories[i].phase : i \in found}
                /\ Cardinality(Spread(agent.prompt))
                     = Min({Most["inbox"], Cardinality(Spread(found))})
=============================================================================
