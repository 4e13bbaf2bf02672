---------------------------- MODULE FactPipeline ----------------------------
(***************************************************************************)
(* How conversation captures leave the inbox.  Once the inbox holds        *)
(* Threshold captures a task of the daemon has the language model extract  *)
(* facts from them, session by session, stores the facts and marks the     *)
(* captures.  The configuration chooses the engine at start-up:            *)
(*   plugin: PipelineTask, PipelineEngine.Run and FactProcessor.Process    *)
(*           (daemon/pipeline.go, plugin/pipeline.go, factprocessor/)      *)
(*   legacy: ProcessTask and ProcessInbox (daemon/process.go, processor/)  *)
(* Other processes capture and delete meanwhile.  A SQL statement, the     *)
(* ingestion of one fact and a call of the model are one step each.        *)
(*                                                                         *)
(* A fact, and a result before it is stored, is the set of captures it was *)
(* extracted from; the facts of one answer count as one.  What an answer   *)
(* speaks of is up to the model, and what it gives too much of is cut off. *)
(* Captures without a session are grouped by time; such a group is a       *)
(* session here.                                                           *)
(***************************************************************************)
EXTENDS Naturals, FiniteSets, SequencesExt

CONSTANTS
    Capture,      \* captures, numbered in the order in which a session lists them
    Session,
    SessionOf,    \* capture -> its session
    Engines,      \* engines a start of the daemon may be configured with
    Threshold,    \* captures in the inbox that make a run worth while
    ChunkSize,    \* captures per call of the model (maxContentsPerCall)
    MaxSessions,  \* sessions per run of the plugin engine (maxSessionsPerTick)
    MaxChunks,    \* answered calls per run (maxChunksPerTick)
    MaxFaults     \* bound: kills, failed calls or statements, and deletes, together

ASSUME PipelineAssumption ==
    /\ Capture \subseteq Nat /\ IsFiniteSet(Capture)
    /\ SessionOf \in [Capture -> Session] /\ IsFiniteSet(Session)
    /\ Engines # {} /\ Engines \subseteq {"plugin", "legacy"}
    /\ Threshold \in Nat \ {0} /\ ChunkSize \in Nat \ {0}
    /\ MaxSessions \in Nat \ {0} /\ MaxChunks \in Nat \ {0}
    /\ MaxFaults \in Nat

VARIABLES
    phase,     \* capture -> its phase, or where it is if it has no row
    consumed,  \* captures with the fact-processor bit in consumed_mask
    facts,     \* facts stored with phase processed
    engine,    \* what the running daemon was started with
    run,       \* where the task is, with its locals
    answer,    \* history: capture -> what the run that marked it had been told about it
    plugged,   \* history: the plugin engine has been configured
    kills, errors

tables == <<phase, consumed, facts>>
faults == <<kills, errors>>
vars == <<tables, engine, run, answer, plugged, faults>>

Sources == SUBSET Capture

Idle == [step |-> "idle", listed |-> {}, todo |-> <<>>, results |-> <<>>,
         sources |-> <<>>, told |-> {}, silent |-> {}, sessions |-> 0, chunks |-> 0, calls |-> 0]

Steps == {"idle", "list", "session", "extract", "route", "mark", "flip",
          "group", "merge", "write", "flush"}

Inbox == {c \in Capture : phase[c] = "inbox"}
Unconsumed == Inbox \ consumed
SessionsIn(cs) == {SessionOf[c] : c \in cs}
Of(s, cs) == {c \in cs : SessionOf[c] = s}

\* The place of a capture in its session.
Rank(c, cs) == Cardinality({d \in cs : d < c})

Init ==
    /\ phase = [c \in Capture |-> "absent"]
    /\ consumed = {} /\ facts = {}
    /\ engine \in Engines
    /\ run = Idle
    /\ answer = [c \in Capture |-> "none"]
    /\ plugged = (engine = "plugin")
    /\ kills = 0 /\ errors = 0

At(step) == run.step = step
Go(step) == run' = [run EXCEPT !.step = step]
StoreUnchanged == UNCHANGED <<tables, engine, answer, plugged, faults>>
RestUnchanged == UNCHANGED <<engine, plugged, faults>>
Deleted == {c \in Capture : phase[c] = "deleted"}
Undisturbed == kills + errors + Cardinality(Deleted) < MaxFaults
Fails == Undisturbed /\ errors' = errors + 1 /\ UNCHANGED kills

\* What this run was told about a capture: facts that it kept, nothing that was kept, or
\* it was not told anything.
Answer(c) ==
    IF c \in run.silent THEN "nothing" ELSE IF c \in run.told THEN "facts" ELSE "unseen"
Note(c) == answer' = [answer EXCEPT ![c] = Answer(c)]

-----------------------------------------------------------------------------
(* The plugin engine *)

\* inboxCount looks at the phase alone.
CheckThreshold ==
    /\ engine = "plugin" /\ At("idle")
    /\ Cardinality(Inbox) >= Threshold
    /\ Go("list")
    /\ StoreUnchanged

ListUnconsumed ==
    /\ At("list")
    /\ run' = IF Unconsumed = {} THEN Idle
                                 ELSE [Idle EXCEPT !.step = "session", !.listed = Unconsumed]
    /\ StoreUnchanged

\* chunkContents, by count (the limit on characters cuts earlier, never later).
Chunks(cs) ==
    [i \in 1 .. (Cardinality(cs) + ChunkSize - 1) \div ChunkSize |->
       {c \in cs : Rank(c, cs) \div ChunkSize = i - 1}]

\* Mutant: an off-by-one in the comparison.
TrimmedShort(cs) ==
    LET left == MaxChunks - run.chunks
    IN  SubSeq(Chunks(cs), 1, IF Len(Chunks(cs)) >= left THEN left - 1 ELSE Len(Chunks(cs)))

\* Mutant: every session has the whole budget.
TrimmedAnew(cs) ==
    SubSeq(Chunks(cs), 1, IF Len(Chunks(cs)) > MaxChunks THEN MaxChunks ELSE Len(Chunks(cs)))

\* The chunks that still fit into the budget.
Trimmed(cs) ==
    LET chunks == Chunks(cs)
        left == MaxChunks - run.chunks
    IN  SubSeq(chunks, 1, IF Len(chunks) > left THEN left ELSE Len(chunks))

\* Mutant: a session of which something is left over stays in the queue as a whole.
TakenIfWhole(cs) == IF Len(Chunks(cs)) = Len(Trimmed(cs)) THEN cs ELSE {}

\* Every capture of the session becomes a source, whatever the trimming leaves out.
Taken(cs) == cs

\* Map iteration takes the sessions in any order.
NextSession ==
    /\ At("session")
    /\ run.sessions < MaxSessions /\ run.chunks < MaxChunks
    /\ \E s \in SessionsIn(run.listed) :
         LET items == Of(s, run.listed) IN
           run' = [run EXCEPT !.step = "extract", !.listed = @ \ items,
                              !.sources = Append(@, Taken(items)), !.todo = Trimmed(items),
                              !.sessions = @ + 1]
    /\ StoreUnchanged

EndSessions ==
    /\ At("session")
    /\ run.listed = {} \/ run.sessions >= MaxSessions \/ run.chunks >= MaxChunks
    /\ Go("route")
    /\ StoreUnchanged

\* The calls of a session come to an end.
EndChunks ==
    /\ At("extract") /\ run.todo = <<>>
    /\ Go("session")
    /\ StoreUnchanged

\* The model has answered for some captures, and the kept facts are of those in spoken.
\* The others had nothing worth keeping, or their facts were cut off: of more facts than
\* captures only the first few are kept.
Told(r, cs, spoken) ==
    [r EXCEPT !.told = @ \cup spoken, !.silent = @ \cup (cs \ spoken),
              !.results = IF spoken = {} THEN @ ELSE Append(@, spoken)]

\* The model answers for a chunk.
Extract ==
    /\ At("extract") /\ run.todo # <<>>
    /\ LET answered == [run EXCEPT !.todo = Tail(@), !.chunks = @ + 1, !.calls = @ + 1]
       IN  \E spoken \in SUBSET Head(run.todo) :
             run' = Told(answered, Head(run.todo), spoken)
    /\ StoreUnchanged

\* The call fails or its answer does not parse: the loop goes on, and the call is not
\* counted against the budget.
ExtractFails ==
    /\ At("extract") /\ run.todo # <<>>
    /\ Fails
    /\ run' = [run EXCEPT !.todo = Tail(@), !.calls = @ + 1]
    /\ UNCHANGED <<tables, engine, answer, plugged>>

\* The router ingests a result.  (A fact of low confidence, which it drops, or without
\* any text, which the store refuses, has been left out by Extract.)
Route ==
    /\ At("route") /\ run.results # <<>>
    /\ run' = [run EXCEPT !.results = Tail(@)]
    /\ facts' = facts \cup {Head(run.results)}
    /\ UNCHANGED <<phase, consumed, answer>> /\ RestUnchanged

\* A fact that cannot be stored is counted as an error, by either engine.
StoreFails ==
    /\ run.step \in {"route", "write"} /\ run.results # <<>>
    /\ Fails
    /\ run' = [run EXCEPT !.results = Tail(@)]
    /\ UNCHANGED <<tables, engine, answer, plugged>>

\* Mutant: the captures are marked before their facts are stored.
StartMarksEarly ==
    /\ At("route")
    /\ run' = [run EXCEPT !.step = "mark"]
    /\ StoreUnchanged

StartMarks ==
    /\ At("route") /\ run.results = <<>>
    /\ Go("mark")
    /\ StoreUnchanged

Existing(c) == phase[c] \in {"inbox", "processed"}

\* A row that was deleted meanwhile is not matched; that is no error.
SetBit(c) == consumed' = IF Existing(c) THEN consumed \cup {c} ELSE consumed

\* The source that is next to be marked.
Source(c) ==
    /\ run.sources # <<>>
    /\ c \in Head(run.sources)
    /\ \A d \in Head(run.sources) : c <= d

\* The loop over the sources goes on.
Drop(c) ==
    run' = [run EXCEPT !.step = IF @ = "flip" THEN "mark" ELSE @,
                       !.sources = <<Head(@) \ {c}>> \o Tail(@)]

\* The sources of a session are done, or of all sessions.
EndSource ==
    /\ run.step \in {"mark", "flush"}
    /\ run.sources # <<>> /\ Head(run.sources) = {}
    /\ run' = [run EXCEPT !.sources = Tail(@)]
    /\ StoreUnchanged

EndMarks ==
    /\ run.step \in {"mark", "flush"} /\ run.sources = <<>>
    /\ run' = Idle
    /\ StoreUnchanged

MarkConsumed(c) ==
    /\ At("mark") /\ Source(c)
    /\ SetBit(c) /\ Note(c)
    /\ Go("flip")
    /\ UNCHANGED <<phase, facts>> /\ RestUnchanged

MarkFails(c) ==
    /\ At("mark") /\ Source(c)
    /\ Fails
    /\ Drop(c)
    /\ UNCHANGED <<tables, engine, answer, plugged>>

\* Mutant: the phase stays as it is.
NotProcessed(cs) == phase

Processed(cs) ==
    [c \in Capture |-> IF c \in cs /\ Existing(c) THEN "processed" ELSE phase[c]]

MarkProcessed(c) ==
    /\ At("flip") /\ Source(c)
    /\ phase' = Processed({c})
    /\ Drop(c)
    /\ UNCHANGED <<consumed, facts, answer>> /\ RestUnchanged

MarkProcessedFails(c) ==
    /\ At("flip") /\ Source(c)
    /\ Fails
    /\ Drop(c)
    /\ UNCHANGED <<tables, engine, answer, plugged>>

-----------------------------------------------------------------------------
(* The legacy engine *)

\* One query serves the threshold and the work; consumed_mask plays no part.
ListInbox ==
    /\ engine = "legacy" /\ At("idle")
    /\ Cardinality(Inbox) >= Threshold
    /\ run' = [Idle EXCEPT !.step = "group", !.listed = Inbox]
    /\ StoreUnchanged

\* All calls for a session succeed: only then do its captures become sources.
ExtractSession(s) ==
    /\ At("group") /\ s \in SessionsIn(run.listed)
    /\ LET items == Of(s, run.listed)
           answered == [run EXCEPT !.listed = @ \ items,
                                !.sources = Append(@, items)]
       IN  \E spoken \in SUBSET items : run' = Told(answered, items, spoken)
    /\ StoreUnchanged

\* Mutant: a session that failed is marked like the others.
SkipAndMark(s) ==
    /\ At("group") /\ s \in SessionsIn(run.listed)
    /\ Fails
    /\ run' = [run EXCEPT !.listed = @ \ Of(s, run.listed),
                        !.sources = Append(@, Of(s, run.listed))]
    /\ UNCHANGED <<tables, engine, answer, plugged>>

SkipSession(s) ==
    /\ At("group") /\ s \in SessionsIn(run.listed)
    /\ Fails
    /\ run' = [run EXCEPT !.listed = @ \ Of(s, run.listed)]
    /\ UNCHANGED <<tables, engine, answer, plugged>>

\* When nothing was extracted nothing is marked either.
EndGroups ==
    /\ At("group") /\ run.listed = {}
    /\ run' = IF run.results = <<>> THEN Idle ELSE [run EXCEPT !.step = "merge"]
    /\ StoreUnchanged

\* What the model may make of the extracted facts: at most as many (more are cut off),
\* down to none at all, of any of the captures they came from.
Merges(rs) ==
    UNION {[1 .. n -> (SUBSET UNION ToSet(rs)) \ {{}}] : n \in 0 .. Len(rs)}

\* Its answer is taken as it is.  A capture it no longer speaks of is marked like the
\* others.
Merge ==
    /\ At("merge")
    /\ \E merged \in Merges(run.results) :
         LET kept == UNION ToSet(merged) IN
           run' = [run EXCEPT !.step = "write", !.results = merged, !.told = kept,
                              !.silent = (@ \cup run.told) \ kept]
    /\ StoreUnchanged

\* flushBatch returns before it writes or marks anything.
MergeFails ==
    /\ At("merge")
    /\ Fails
    /\ run' = Idle
    /\ UNCHANGED <<tables, engine, answer, plugged>>

Write ==
    /\ At("write") /\ run.results # <<>>
    /\ facts' = facts \cup {Head(run.results)}
    /\ run' = [run EXCEPT !.results = Tail(@)]
    /\ UNCHANGED <<phase, consumed, answer>> /\ RestUnchanged

EndWrites ==
    /\ At("write") /\ run.results = <<>>
    /\ Go("flush")
    /\ StoreUnchanged

\* The phase is all that keeps a capture from the next run.  (Within a session the
\* order is a map's, which no property depends on.)
Flush(c) ==
    /\ At("flush") /\ Source(c)
    /\ phase' = Processed({c}) /\ Note(c)
    /\ Drop(c)
    /\ UNCHANGED <<consumed, facts>> /\ RestUnchanged

FlushFails(c) ==
    /\ At("flush") /\ Source(c)
    /\ Fails
    /\ Drop(c)
    /\ UNCHANGED <<tables, engine, answer, plugged>>

-----------------------------------------------------------------------------
(* The rest of the system *)

\* The daemon is killed, or told to stop, in the middle of whatever it does, and is
\* started again, perhaps with another configuration.
Restart ==
    /\ Undisturbed /\ kills' = kills + 1 /\ UNCHANGED errors
    /\ run' = Idle
    /\ engine' \in Engines
    /\ plugged' = (plugged \/ engine' = "plugin")
    /\ UNCHANGED <<tables, answer>>

CaptureRow(c) ==
    /\ phase[c] = "absent"
    /\ phase' = [phase EXCEPT ![c] = "inbox"]
    /\ UNCHANGED <<consumed, facts, answer, run>> /\ RestUnchanged

Delete(c) ==
    /\ Existing(c) /\ Undisturbed
    /\ phase' = [phase EXCEPT ![c] = "deleted"]
    /\ consumed' = consumed \ {c}
    /\ UNCHANGED <<facts, answer, run>> /\ RestUnchanged

PluginStep ==
    \/ CheckThreshold \/ ListUnconsumed \/ NextSession \/ EndSessions
    \/ EndChunks \/ Extract \/ Route \/ StartMarks \/ EndSource \/ EndMarks
    \/ \E c \in Capture : MarkConsumed(c) \/ MarkProcessed(c)

LegacyStep ==
    \/ ListInbox \/ EndGroups \/ Merge \/ Write \/ EndWrites
    \/ \E s \in Session : ExtractSession(s)
    \/ \E c \in Capture : Flush(c)

Fault ==
    \/ Restart \/ ExtractFails \/ StoreFails \/ MergeFails
    \/ \E s \in Session : SkipSession(s)
    \/ \E c \in Capture : MarkFails(c) \/ MarkProcessedFails(c) \/ FlushFails(c)

Next ==
    \/ PluginStep \/ LegacyStep \/ Fault
    \/ \E c \in Capture : CaptureRow(c) \/ Delete(c)

Spec == Init /\ [][Next]_vars

\* The ticker fires again and again, and a call of the model comes to an end.
FairSpec == Spec /\ WF_vars(PluginStep \/ LegacyStep)

-----------------------------------------------------------------------------
(* Properties *)

TypeOK ==
    /\ phase \in [Capture -> {"absent", "inbox", "processed", "deleted"}]
    /\ consumed \in SUBSET {c \in Capture : Existing(c)}
    /\ facts \in SUBSET Sources
    /\ engine \in Engines
    /\ run \in [step : Steps, listed : Sources, todo : Seq(Sources),
                results : Seq(Sources), sources : Seq(Sources),
                told : Sources, silent : Sources,
                sessions : 0 .. MaxSessions, chunks : 0 .. MaxChunks, calls : Nat]
    /\ answer \in [Capture -> {"none", "unseen", "nothing", "facts"}]
    /\ plugged \in BOOLEAN
    /\ kills \in Nat /\ errors \in Nat

Unseen == {c \in Capture : answer[c] = "unseen"}

\* "Incremental progress" (factprocessor.go:62): the facts a run keeps are stored before
\* their captures are taken out of the queue.  Wherever the daemon is killed, a capture
\* marked by a run that kept facts of it, through the cut and the merge, has a fact
\* stored.  (What the model leaves out when it merges is lost: its captures are marked.)
NoFactLost ==
    errors = 0 => {c \in Capture : answer[c] = "facts"} \subseteq UNION facts

\* The legacy engine never marks a capture the model has not answered for, whichever
\* calls and statements fail.
LegacyMarksSeen == ~plugged => Unseen = {}

\* The chunks of the captures, session by session.
ChunksIn(cs) ==
    UNION {{s} \X (1 .. Len(Chunks(Of(s, cs)))) : s \in SessionsIn(cs)}

Arrived == {c \in Capture : phase[c] # "absent"}
ChunksOfArrived == Cardinality(ChunksIn(Arrived))

\* Nor does the plugin engine, when no call fails and the captures fit into the budget.
PluginMarksSeen ==
    errors = 0 /\ ChunksOfArrived <= MaxChunks => Unseen = {}

\* "Aligning phase with the legacy processor path keeps List(Phase:inbox) honest"
\* (pipeline.go:111): between two runs a consumed capture does not count as inbox.
PhaseFollowsMark ==
    kills + errors = 0 /\ At("idle") => consumed \cap Inbox = {}

\* "max total LLM calls per tick" (factprocessor.go:24), when no call fails.
CallsWithinBudget == errors = 0 => run.calls <= MaxChunks

\* With the plugin engine a backlog is worked off, although each run takes only a few
\* sessions and a session may be larger than the budget of a run.
InboxDrains ==
    Cardinality(Unconsumed) >= Threshold
        ~> Cardinality(Unconsumed) < Threshold \/ engine = "legacy"

-----------------------------------------------------------------------------
\* "reads inbox items not yet consumed by each processor, processes them, and marks
\* consumption" (plugin/pipeline.go:30): what is marked has been processed.
ConsumedWasProcessed == consumed \cap Unseen = {}
=============================================================================
