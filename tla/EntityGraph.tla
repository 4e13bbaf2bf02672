---------------------------- MODULE EntityGraph ----------------------------
(***************************************************************************)
(* EntityExtractionTask (daemon/entity_extract.go) links settled memories  *)
(* to the entities the language model finds in them (entity/store.go).     *)
(* The daemon runs it as one of its tasks; the command entity-build runs   *)
(* it at the same time, on the same tables, and entity-reclassify judges   *)
(* the kinds of entities anew.                                             *)
(*                                                                         *)
(* A row is its place in the order of creation.  An entity is its          *)
(* normalized name, which is UNIQUE.                                       *)
(***************************************************************************)
EXTENDS Naturals, FiniteSets, FiniteSetsExt, Functions

CONSTANTS
    Row,          \* rows, numbers in the order of creation
    Entity,
    Kind,         \* the taxonomy
    classifyEntity, \* entity -> the kind the heuristic gives a new one
    Named,        \* row -> entities the model may name for it
    Silent,       \* rows the model never returns an entry for
    PerTick,      \* runner -> rows per run of the task
    BatchSize,    \* rows per call of the model
    MaxFaults     \* bound: kills, failing calls and statements, and deletes, together

VARIABLES
    rows,      \* row -> "absent", "settled" or "deleted"
    marked,    \* rows with the entity-extract bit in consumed_mask
    kind,      \* table entities: entity -> its kind, or "none" without a row
    mentions,  \* table entity_mentions: row -> entity -> number of links
    run,       \* the daemon's and the command's EntityExtractionTask with their locals
    judge,     \* entity-reclassify: entities still to update, or "idle"
    known,     \* history: row -> entities that were in the table when the run that marked
               \*   it began, and were named for it
    errors, faults

tables == <<rows, marked, kind, mentions>>
vars == <<tables, run, judge, known, errors, faults>>

Runner == {"daemon", "build"}
Idle == [step |-> "idle", pending |-> {}, batch |-> {}, answer |-> <<>>, row |-> 0,
         entity |-> "none", seen |-> {}, count |-> 0]

Init ==
    /\ rows = [r \in Row |-> "absent"]
    /\ marked = {} /\ kind = [e \in Entity |-> "none"]
    /\ mentions = [r \in Row |-> [e \in Entity |-> 0]]
    /\ run = [p \in Runner |-> Idle] /\ judge = {}
    /\ known = [r \in Row |-> {}]
    /\ errors = 0 /\ faults = 0

Settled(r) == rows[r] = "settled"
Unconsumed == {r \in Row : Settled(r) /\ r \notin marked}
Entities == {e \in Entity : kind[e] # "none"}

Oldest(rs, n) == {r \in rs : Cardinality({q \in rs : q < r}) < n}

\* One statement, consumed_mask | bit; a row that is gone is not matched.
MarkConsumed(r) == marked' = IF Settled(r) THEN marked \cup {r} ELSE marked

NoFault == UNCHANGED <<errors, faults>>
Fails == faults < MaxFaults /\ faults' = faults + 1 /\ errors' = errors + 1

-----------------------------------------------------------------------------
(* EntityExtractionTask *)

Go(p, changed) == run' = [run EXCEPT ![p] = changed]
RunOnly == NoFault /\ UNCHANGED <<rows, judge>>

\* ListUnconsumedInPhase is oldest first.
List(p) ==
    /\ run[p].step = "idle"
    /\ Go(p, [Idle EXCEPT !.step = "next", !.seen = Entities,
                          !.pending = Oldest(Unconsumed, PerTick[p])])
    /\ RunOnly /\ UNCHANGED <<marked, kind, mentions, known>>

\* The command runs the task again, until a run links nothing.
Done(p) ==
    /\ run[p].step = "next" /\ run[p].pending = {}
    /\ Go(p, [Idle EXCEPT !.step = IF p = "build" /\ run[p].count = 0 THEN "exit" ELSE "idle"])
    /\ RunOnly /\ UNCHANGED <<marked, kind, mentions, known>>

\* Entries may be missing, and name any entities of their row.
Extract(p) ==
    /\ run[p].step = "next" /\ run[p].pending # {}
    /\ LET batch == Oldest(run[p].pending, BatchSize) IN
         \E got \in SUBSET (batch \ Silent) :
           \E answer \in [got -> UNION {SUBSET Named[r] : r \in got} \cup {{}}] :
             /\ \A r \in got : answer[r] \subseteq Named[r]
             /\ Go(p, [run[p] EXCEPT !.step = "row", !.pending = @ \ batch,
                                     !.answer = answer])
    /\ RunOnly /\ UNCHANGED <<marked, kind, mentions, known>>

ExtractFails(p) ==
    /\ run[p].step = "next" /\ run[p].pending # {}
    /\ Go(p, [run[p] EXCEPT !.pending = @ \ Oldest(@, BatchSize)])
    /\ Fails /\ UNCHANGED <<tables, known, judge>>

\* An answer that does not parse: the batch is marked "so we don't retry indefinitely".
ParseFails(p) ==
    /\ run[p].step = "next" /\ run[p].pending # {}
    /\ LET batch == Oldest(run[p].pending, BatchSize) IN
         Go(p, [run[p] EXCEPT !.step = "row", !.pending = @ \ batch,
                              !.answer = [r \in batch |-> {}]])
    /\ Fails /\ UNCHANGED <<tables, known, judge>>

NextRow(p) ==
    /\ run[p].step = "row"
    /\ IF DOMAIN run[p].answer = {} THEN Go(p, [run[p] EXCEPT !.step = "next"])
       ELSE Go(p, [run[p] EXCEPT !.step = "resolve", !.row = Min(DOMAIN run[p].answer),
                                 !.batch = run[p].answer[Min(DOMAIN run[p].answer)]])
    /\ RunOnly /\ UNCHANGED <<marked, kind, mentions, known>>

\* Resolve, by name; nothing in the program adds an alias.
Resolve(p, e) ==
    /\ run[p].step = "resolve" /\ e \in run[p].batch
    /\ Go(p, [run[p] EXCEPT !.step = IF e \in Entities THEN "mention" ELSE "create",
                            !.entity = e, !.batch = @ \ {e}])
    /\ RunOnly /\ UNCHANGED <<marked, kind, mentions, known>>

\* The name is UNIQUE: whoever comes second gets an error, and goes on to the next name
\* ("likely duplicate name").
CreateEntity(p) ==
    /\ run[p].step = "create"
    /\ LET e == run[p].entity IN
         IF e \in Entities
         THEN Go(p, [run[p] EXCEPT !.step = "resolve", !.entity = "none"]) /\ UNCHANGED kind
         ELSE /\ Go(p, [run[p] EXCEPT !.step = "mention"])
              /\ kind' = [kind EXCEPT ![e] = classifyEntity[e]]
    /\ RunOnly /\ UNCHANGED <<marked, mentions, known>>

RecordMention(p) ==
    /\ run[p].step = "mention"
    /\ mentions' = [mentions EXCEPT ![run[p].row][run[p].entity] = @ + 1]
    /\ Go(p, [run[p] EXCEPT !.step = "resolve", !.entity = "none", !.count = 1])
    /\ RunOnly /\ UNCHANGED <<marked, kind, known>>

\* Creating or linking fails, and the error is dropped.
LinkFails(p) ==
    /\ run[p].step \in {"create", "mention"}
    /\ Go(p, [run[p] EXCEPT !.step = "resolve", !.entity = "none"])
    /\ Fails /\ UNCHANGED <<tables, known, judge>>

\* Mutant: a row whose first name is linked is done.
MarkEarly(p) ==
    /\ run[p].step = "resolve" /\ Cardinality(run[p].batch) <= 1
    /\ LET r == run[p].row IN
         /\ MarkConsumed(r)
         /\ known' = [known EXCEPT ![r] = @ \cup (run[p].answer[r] \cap run[p].seen)]
         /\ Go(p, [run[p] EXCEPT !.step = "row", !.row = 0, !.answer = Restrict(@, DOMAIN @ \ {r})])
    /\ RunOnly /\ UNCHANGED <<kind, mentions>>

\* Mutant: an entry without entities is left for the next run.
MarkLinked(p) ==
    /\ run[p].step = "resolve" /\ run[p].batch = {}
    /\ LET r == run[p].row IN
         /\ IF run[p].answer[r] = {} THEN UNCHANGED marked ELSE MarkConsumed(r)
         /\ known' = [known EXCEPT ![r] = @ \cup (run[p].answer[r] \cap run[p].seen)]
         /\ Go(p, [run[p] EXCEPT !.step = "row", !.row = 0, !.answer = Restrict(@, DOMAIN @ \ {r})])
    /\ RunOnly /\ UNCHANGED <<kind, mentions>>

Mark(p) ==
    /\ run[p].step = "resolve" /\ run[p].batch = {}
    /\ LET r == run[p].row IN
         /\ MarkConsumed(r)
         /\ known' = [known EXCEPT ![r] = @ \cup (run[p].answer[r] \cap run[p].seen)]
         /\ Go(p, [run[p] EXCEPT !.step = "row", !.row = 0, !.answer = Restrict(@, DOMAIN @ \ {r})])
    /\ RunOnly /\ UNCHANGED <<kind, mentions>>

-----------------------------------------------------------------------------
(* The rest *)

RestUnchanged == UNCHANGED <<run, known>>

\* entity-reclassify loads the concepts, and asks for their kinds in batches.
ReclassifyEntities ==
    /\ judge = {}
    /\ judge' = {e \in Entities : kind[e] = "concept"}
    /\ NoFault /\ UNCHANGED tables /\ RestUnchanged

\* The answer has another kind of the taxonomy, or none.
UpdateKind(e) ==
    /\ e \in judge /\ judge' = judge \ {e}
    /\ \E k \in Kind : kind' = [kind EXCEPT ![e] = k]
    /\ NoFault /\ UNCHANGED <<rows, marked, mentions>> /\ RestUnchanged

Settle(r) ==
    /\ rows[r] = "absent" /\ \A q \in Row : q < r => rows[q] # "absent"
    /\ rows' = [rows EXCEPT ![r] = "settled"]
    /\ NoFault /\ UNCHANGED <<marked, kind, mentions, judge>> /\ RestUnchanged

Delete(r) ==
    /\ Settled(r) /\ faults < MaxFaults /\ faults' = faults + 1
    /\ rows' = [rows EXCEPT ![r] = "deleted"]
    /\ UNCHANGED <<marked, kind, mentions, judge, errors>> /\ RestUnchanged

\* The daemon or the command is killed, and started again.
Kill(p) ==
    /\ faults < MaxFaults /\ faults' = faults + 1
    /\ Go(p, Idle)
    /\ UNCHANGED <<tables, known, judge, errors>>

ExtractionStep(p) ==
    \/ List(p) \/ Done(p) \/ Extract(p) \/ NextRow(p) \/ CreateEntity(p) \/ RecordMention(p)
    \/ Mark(p) \/ \E e \in Entity : Resolve(p, e)

Next ==
    \/ \E p \in Runner : ExtractionStep(p) \/ ExtractFails(p) \/ ParseFails(p) \/ LinkFails(p)
                         \/ Kill(p)
    \/ ReclassifyEntities \/ \E e \in Entity : UpdateKind(e)
    \/ \E r \in Row : Settle(r) \/ Delete(r)

Spec == Init /\ [][Next]_vars

\* An answer of the daemon's that has an entry for the row.
Covered(r) == Extract("daemon") /\ r \in DOMAIN run'["daemon"].answer

\* The ticker fires again and again; a row the model does return entries for has one again
\* and again.  The command need not be run.
FairSpec ==
    /\ Spec /\ WF_vars(ExtractionStep("daemon"))
    /\ \A r \in Row \ Silent : SF_vars(Covered(r))

-----------------------------------------------------------------------------
(* Properties *)

\* Whichever runs overlap and wherever one is killed, a row that counts as extracted is
\* linked to every entity named for it that was in the table when the run began; only a
\* name two runs meet at once can be lost.
ExtractedIsLinked ==
    errors = 0 => \A r \in Row : \A e \in known[r] : mentions[r][e] > 0

\* A row the model returns nothing for is never marked, and is listed again by every run, the
\* oldest first: as many of them as a run takes leave no place for a later row.
Starved(r) == Cardinality({q \in Silent \cap Unconsumed : q < r}) >= PerTick["daemon"]

\* No settled memory waits forever for its extraction, unless the older rows that the model
\* returns nothing for fill the daemon's runs: then it waits until one of them is deleted or
\* an answer that does not parse marks them.
BacklogDrains ==
    \A r \in Row \ Silent : []<>(Settled(r) => r \in marked \/ Starved(r))
=============================================================================
