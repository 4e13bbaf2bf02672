---------------------------- MODULE DaemonTasks ----------------------------
(***************************************************************************)
(* Three tasks of the daemon that share no table with another one: those   *)
(* for reminders (Reminders), for what other programs write (Ingest) and   *)
(* for entities (EntityGraph).  None of the three reads what another       *)
(* writes, so a behaviour here is one of one of them.                      *)
(***************************************************************************)
EXTENDS Naturals, Sequences, FiniteSets

CONSTANTS
    None,
    Id, Daemon, Prefix, Horizon, MaxClock, MaxKills, MaxErrors,
    Given, Noise, Answer, NoText, Entry, Parent, PromptId, Section, Bare, Reader, MaxTurns,
    Row, Entity, Kind, classifyEntity, Named, Silent, PerTick, BatchSize,
    MaxFaults

VARIABLES
    part,
    rem, clock, task, tmp, pending, pushed, kills, errors,
    source, rollout, partial, transcript, note, reading, memories,
    rows, marked, kind, mentions, run, judge, known,
    faults

reminderVars == <<rem, clock, task, tmp, pending, pushed, kills>>
ingestVars == <<source, rollout, partial, transcript, note, reading, memories>>
entityVars == <<rows, marked, kind, mentions, run, judge, known>>
vars == <<part, reminderVars, ingestVars, entityVars, errors, faults>>

Reminding == INSTANCE Reminders
Ingesting == INSTANCE Ingest WITH rows <- memories
Linking == INSTANCE EntityGraph

\* No row and no file is neither a row nor a file; rows are numbers, the model names entities,
\* and every one of them has a kind of the taxonomy.  The prompts of a user are not the marks
\* of what has none.
ASSUME DaemonTasksAssumption ==
    /\ None \notin [trigger : Nat, status : {"pending", "fired"} \cup Reminding!Finished]
    /\ \A ids \in SUBSET Id : None # ids
    /\ Row \subseteq Nat /\ Named \in [Row -> SUBSET Entity]
    /\ classifyEntity \in [Entity -> Kind] /\ "none" \notin Kind
    /\ Given \cap {None, "entry", "note", "page"} = {}

Init ==
    /\ part \in {"reminders", "ingest", "entities"}
    /\ Reminding!Init /\ Linking!Init
    /\ Ingesting!IngestInit /\ (part # "ingest" => source = "notes")

\* A step of a task leaves the others alone.
OfReminders == part = "reminders" /\ UNCHANGED <<part, ingestVars, entityVars, faults>>
OfIngest == part = "ingest" /\ UNCHANGED <<part, reminderVars, entityVars, errors>>
OfEntities == part = "entities" /\ UNCHANGED <<part, reminderVars, ingestVars>>

Next ==
    \/ OfReminders /\ Reminding!Next
    \/ OfIngest /\ Ingesting!IngestNext
    \/ OfEntities /\ Linking!Next

Spec == Init /\ [][Next]_vars

\* The fairness of the three modules.
FairSpec ==
    /\ Spec
    /\ WF_vars(OfReminders /\ Reminding!Tick)
    /\ \A d \in Daemon : WF_vars(OfReminders /\ Reminding!Run(d))
    /\ WF_vars(OfIngest /\ Ingesting!DaemonReads)
    /\ WF_vars(OfEntities /\ Linking!ExtractionStep("daemon"))
    /\ \A r \in Row \ Silent : SF_vars(OfEntities /\ Linking!Covered(r))

-----------------------------------------------------------------------------
(* The properties, stated with the code they are about in the modules above *)

\* A reminder is announced twice only after an error (Reminders).
RepeatedOnlyOnErrors == Reminding!RepeatedOnlyOnErrors
\* What is announced is in pending.md (Reminders).
AnnouncedIsListed == Reminding!AnnouncedIsListed
\* What is due is announced (Reminders).
DueIsAnnounced == Reminding!DueIsAnnounced
\* A prompt is paired with an answer once (Ingest).
PromptsOnce == Ingesting!PromptsOnce
\* What is read is kept in the end (Ingest).
EverythingIsKept == Ingesting!EverythingIsKept
\* A row that counts as extracted is linked to what was named for it (EntityGraph).
ExtractedIsLinked == Linking!ExtractedIsLinked
\* Every settled memory is extracted in the end (EntityGraph).
BacklogDrains == Linking!BacklogDrains
=============================================================================
