------------------------------ MODULE Services ------------------------------
(***************************************************************************)
(* What is done on request: searches and questions over the memories (Ask, *)
(* which is over Search, and AskAgent), the times people name (Times), the *)
(* calls of the language model (ModelClient), the MCP server (McpServer),  *)
(* the pages that watch a run (EventStream), the project board             *)
(* (ProjectState), memory rebuild (Rebuild) and the opening of a database  *)
(* (Upgrade).  They only meet in results that each module takes to be any  *)
(* of those possible, so a behaviour here is one of one of them.  None has *)
(* to go on for ever: there is no fairness.                                *)
(***************************************************************************)
EXTENDS Ask, AskAgent, Upkeep

VARIABLE part

vars ==
    <<part, askVars, agent, timeVars, modelVars, faults, toolVars, pageVars, boardVars,
      rebuildVars, databaseVars>>

Init ==
    /\ part \in {"memories", "agent", "times", "model", "mcp", "pages", "board", "rebuild",
                 "database"}
    /\ AskInit /\ AgentInit /\ Calling!ClientInit /\ Serving!McpInit
    /\ TimesInit /\ (part # "times" => now = CHOOSE t \in Now : TRUE)
    /\ Watching!StreamInit /\ Board!Init /\ Derived!Init
    /\ IF part = "database" THEN Opening!UpgradeInit
       ELSE Opening!UpgradeInit /\ cols = {}

\* A step of a part leaves the others alone.  A search, or else a question, is the last thing
\* that is done with the memories.
OfMemories ==
    /\ part = "memories"
    /\ UNCHANGED <<part, agent, timeVars, modelVars, faults, toolVars, pageVars, boardVars,
                   rebuildVars, databaseVars>>
OfAgent ==
    /\ part = "agent"
    /\ UNCHANGED <<part, ask, timeVars, modelVars, faults, toolVars, pageVars, boardVars,
                   rebuildVars, databaseVars>>
OfTimes ==
    /\ part = "times"
    /\ UNCHANGED <<part, askVars, agent, modelVars, faults, toolVars, pageVars, boardVars,
                   rebuildVars, databaseVars>>
OfModel ==
    /\ part = "model"
    /\ UNCHANGED <<part, askVars, agent, timeVars, toolVars, pageVars, boardVars, rebuildVars,
                   databaseVars>>
OfTools ==
    /\ part = "mcp"
    /\ UNCHANGED <<part, askVars, agent, timeVars, modelVars, faults, pageVars, boardVars,
                   rebuildVars, databaseVars>>
OfPages ==
    /\ part = "pages"
    /\ UNCHANGED <<part, askVars, agent, timeVars, modelVars, faults, toolVars, boardVars,
                   rebuildVars, databaseVars>>
OfBoard ==
    /\ part = "board"
    /\ UNCHANGED <<part, askVars, agent, timeVars, modelVars, toolVars, pageVars, rebuildVars,
                   databaseVars>>
OfRebuild ==
    /\ part = "rebuild"
    /\ UNCHANGED <<part, askVars, agent, timeVars, modelVars, toolVars, pageVars, boardVars,
                   databaseVars>>
OfDatabase ==
    /\ part = "database"
    /\ UNCHANGED <<part, askVars, agent, timeVars, modelVars, toolVars, pageVars, boardVars,
                   rebuildVars>>

Next ==
    \/ OfMemories /\ At("idle") /\ SearchNext /\ UNCHANGED ask
    \/ OfMemories /\ search = NoSearch /\ AskNext
    \/ OfAgent /\ AgentNext
    \/ OfTimes /\ TimesNext
    \/ OfModel /\ Calling!ClientNext
    \/ OfTools /\ Serving!McpNext
    \/ OfPages /\ Watching!StreamNext
    \/ OfBoard /\ Board!Next
    \/ OfRebuild /\ Derived!Next
    \/ OfDatabase /\ Opening!UpgradeNext

Spec == Init /\ [][Next]_vars

-----------------------------------------------------------------------------
(* The properties that Ask, Search and Times do not state, with the code in the modules above *)

\* An answer is made from what should be (Ask, AskAgent).
AskGrounded == PipelineGrounded /\ AgentGrounded
\* What is logged of a call, and taken from its answer, is so (ModelClient).
CallsAreTrue == Calling!UsageIsTrue /\ Calling!FirstArrayTaken
\* Requests are answered in their order, from what came before (McpServer).
AnsweredInOrder == Serving!AnsweredInOrder
\* A page gets the events of a run (EventStream).
EventsArrive == Watching!EventsArrive
\* The file shows the states and the queue (ProjectState).
BoardIsCurrent == Board!BoardIsCurrent
\* A rebuild makes everything anew (Rebuild).
RebuildRestores == Derived!RebuildRestores
\* Opening keeps what an older version stored (Upgrade).
UpgradeKeeps == Opening!UpgradeKeeps
=============================================================================
