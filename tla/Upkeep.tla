------------------------------- MODULE Upkeep -------------------------------
(***************************************************************************)
(* The parts of Services that have nothing to do with searches: the log of *)
(* the calls of the language model (ModelClient), the MCP server           *)
(* (McpServer), the pages that watch a run (EventStream), the project      *)
(* board (ProjectState), memory rebuild (Rebuild), the opening of a        *)
(* database (Upgrade) and the times people name (Times).  Services         *)
(* composes them with the others.                                          *)
(***************************************************************************)
EXTENDS Times, FiniteSets

CONSTANTS
    Proc, Prompt, Function, Text, DupWindow, MaxCalls, MaxClock, MaxFaults,
    Tool, Content, NoContent, MaxRequests, MaxKills,
    Viewer, Slots, Processors, MaxRuns,
    Project, Writer, MaxReports, MaxGrads,
    Page, Noise, Wiki,
    Entry, Labelled, Origin, SchemaColumns, Columns, Vintage, MaxStarts, MaxWrites

VARIABLES
    calls, db, usage, clock, faults,
    sent, stdin, handling, stdout, store, kills,
    running, runner, subs, viewer, emitted, sentTo, failed,
    states, trail, grads, file, writer, reports, alone, trusted,
    log, mem, tagged, links, indexed, mentioned, rebuild, fresh,
    cols, rows, pointer, events, provenance, targetKey, labels, index, opener, first, shaken,
    starts, writes

modelVars == <<calls, db, usage, clock>>
toolVars == <<sent, stdin, handling, stdout, store, kills>>
pageVars == <<running, runner, subs, viewer, emitted, sentTo, failed>>
boardVars == <<states, trail, grads, file, writer, reports, alone, trusted>>
rebuildVars == <<log, mem, tagged, links, indexed, mentioned, rebuild, fresh>>
databaseVars ==
    <<cols, rows, pointer, events, provenance, targetKey, labels, index, opener, first, shaken,
      starts, writes>>

Calling == INSTANCE ModelClient
Serving == INSTANCE McpServer
Watching == INSTANCE EventStream
Board == INSTANCE ProjectState
Derived == INSTANCE Rebuild WITH Content <- Page
Opening == INSTANCE Upgrade WITH Content <- Entry, mem <- rows, links <- labels

\* A text is made of the tokens that ModelClient tells apart, no argument is none of the
\* arguments, and what is known of a row is not that nothing is known of it.
ASSUME UpkeepAssumption ==
    /\ DupWindow \in Nat /\ Text \subseteq Seq({"open", "close", "fact", "string"})
    /\ NoContent \notin Content
    /\ Processors \in Nat
    /\ Origin \cap {"", Opening!NoRow} = {}
=============================================================================
