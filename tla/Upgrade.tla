------------------------------ MODULE Upgrade ------------------------------
(***************************************************************************)
(* Opening a database (SqliteStore.init): the schema and the migrations    *)
(* run on every open, statement by statement in no transaction, on a       *)
(* database that is new, of an older version, or half upgraded by an       *)
(* opener that was killed.  Every command opens the database on its own,   *)
(* while others that have opened it write and delete.                      *)
(*                                                                         *)
(* A row is its content.  Its provenance is one value, "" if there is      *)
(* none.  The write of a memory is one step (MemoryStore has its detail).  *)
(***************************************************************************)
EXTENDS Naturals, FiniteSets, Sequences, SequencesExt

CONSTANTS
    Content,
    Labelled,       \* contents with a wiki link, to a label that is no id
    Origin,         \* values of the provenance
    SchemaColumns,  \* the columns the schema makes, and has indexes on
    Columns,        \* those that an older version may lack, in the order of init
    Vintage,        \* [cols, sourced, provenance, targetKey, tokenizer]: the older databases
    Proc,
    MaxStarts,      \* bound: opens
    MaxWrites,      \* bound: writes and deletes
    MaxFaults       \* bound: kills

VARIABLES
    cols,       \* the columns of memories
    mem,        \* content -> the provenance of its row, or NoRow
    pointer,    \* rows whose raw_entry_id is set
    events,     \* content -> the provenance of its event, or NoRow
    provenance, \* raw_entries has the columns for it
    targetKey,  \* links has a foreign key on target_id
    links,      \* rows whose label link is kept
    index,      \* [tokenizer, entries : content -> Nat]; tokenizer "none" without a table
    opener,     \* process -> its place in init
    first,      \* history: the first provenance an event had
    shaken,     \* history: the rebuild of the index was killed, or another process was at
                \*   work during it
    starts, writes, faults

tables == <<cols, mem, pointer, events, provenance, targetKey, links, index>>
openVars == <<tables, opener, first, shaken, starts, writes, faults>>

NoRow == "no row"
Rows == {c \in Content : mem[c] # NoRow}
Once(cs) == [c \in Content |-> IF c \in cs THEN 1 ELSE 0]

\* A database of an older version with any rows; from the time of raw capture on, every
\* row has its event.
UpgradeInit ==
    /\ \E v \in Vintage :
         /\ cols = v.cols /\ provenance = v.provenance /\ targetKey = v.targetKey
         /\ mem \in [Content -> {NoRow, ""} \cup (IF "session_id" \in v.cols THEN Origin ELSE {})]
         /\ pointer = IF v.sourced THEN Rows ELSE {}
         /\ events = [c \in Content |-> IF c \notin pointer THEN NoRow
                                        ELSE IF v.provenance THEN mem[c] ELSE ""]
         /\ index = [tokenizer |-> v.tokenizer, entries |-> Once(Rows)]
         /\ v.cols = {} => Rows = {}
    /\ links = {} /\ opener = [p \in Proc |-> "idle"]
    /\ first = events /\ shaken = FALSE
    /\ starts = 0 /\ writes = 0 /\ faults = 0

-----------------------------------------------------------------------------
(* init *)

\* Mutant: the pointers are set before the events are there.
AfterPointFirst ==
    [schema |-> "links", links |-> "columns", columns |-> "point", point |-> "fill",
     fill |-> "eventColumns", eventColumns |-> "provenance", provenance |-> "tokenizer",
     create |-> "reindex", reindex |-> "open"]

\* The order of the statements.
After ==
    [schema |-> "links", links |-> "columns", columns |-> "fill", fill |-> "point",
     point |-> "eventColumns", eventColumns |-> "provenance", provenance |-> "tokenizer",
     create |-> "reindex", reindex |-> "open"]

At(p, step) == opener[p] = step
Go(p, step) == opener' = [opener EXCEPT ![p] = step]
Rebuilding == {p \in Proc : opener[p] \in {"create", "reindex"}}
Bounds == UNCHANGED <<starts, writes, faults>>

StartOpen(p) ==
    /\ At(p, "idle") /\ starts < MaxStarts /\ starts' = starts + 1
    /\ Go(p, "schema") /\ shaken' = (shaken \/ Rebuilding # {})
    /\ UNCHANGED <<tables, first, writes, faults>>

\* A new database gets all tables; of an old one the missing columns are not added here, and
\* an index on one that is missing fails the statement, and the open with it.
Schema(p) ==
    /\ At(p, "schema")
    /\ IF SchemaColumns \subseteq cols \/ cols = {}
       THEN /\ cols' = cols \cup SchemaColumns
            /\ provenance' = (provenance \/ cols = {})
            /\ index' = IF index.tokenizer = "none" THEN [index EXCEPT !.tokenizer = "trigram"]
                        ELSE index
            /\ Go(p, After.schema)
       ELSE /\ Go(p, "failed") /\ UNCHANGED <<cols, provenance, index>>
    /\ UNCHANGED <<mem, pointer, events, targetKey, links, first, shaken>> /\ Bounds

\* migrateLinksTable asks pragma_foreign_key_list for a column "field", which it does not
\* have; the error leaves the count at zero, which is taken for a migrated table.
MigrateLinks(p) ==
    /\ At(p, "links") /\ Go(p, After.links)
    /\ UNCHANGED <<tables, first, shaken>> /\ Bounds

\* ALTER TABLE, one column after the other; the error for one that is there is dropped.
AddColumn(p) ==
    /\ At(p, "columns")
    /\ LET missing == SelectSeq(Columns, LAMBDA c : c \notin cols) IN
         IF missing = <<>> THEN Go(p, After.columns) /\ UNCHANGED cols
         ELSE cols' = cols \cup {missing[1]} /\ UNCHANGED opener
    /\ UNCHANGED <<mem, pointer, events, provenance, targetKey, links, index, first, shaken>>
    /\ Bounds

\* INSERT OR IGNORE of the rows' contents into the event log, without their provenance.
FillEvents(p) ==
    /\ At(p, "fill") /\ Go(p, After.fill)
    /\ events' = [c \in Content |-> IF c \in Rows /\ events[c] = NoRow THEN "" ELSE events[c]]
    /\ UNCHANGED <<cols, mem, pointer, provenance, targetKey, links, index, first, shaken>>
    /\ Bounds

SetPointers(p) ==
    /\ At(p, "point") /\ Go(p, After.point)
    /\ pointer' = Rows
    /\ UNCHANGED <<cols, mem, events, provenance, targetKey, links, index, first, shaken>>
    /\ Bounds

AddEventColumns(p) ==
    /\ At(p, "eventColumns") /\ Go(p, After.eventColumns)
    /\ provenance' = TRUE
    /\ UNCHANGED <<cols, mem, pointer, events, targetKey, links, index, first, shaken>>
    /\ Bounds

FirstOf(evs) == [c \in Content |-> IF first[c] \in Origin THEN first[c] ELSE evs[c]]

\* backfillRawEntryProvenance: nothing to do if every event has some.
BackfillProvenance(p) ==
    /\ At(p, "provenance") /\ Go(p, After.provenance)
    /\ events' = [c \in Content |-> IF events[c] = "" /\ c \in pointer THEN mem[c] ELSE events[c]]
    /\ first' = FirstOf(events')
    /\ UNCHANGED <<cols, mem, pointer, provenance, targetKey, links, index, shaken>> /\ Bounds

\* migrateFTSTokenizer drops a table of the old kind, and else does nothing.
MigrateIndex(p) ==
    /\ At(p, "tokenizer")
    /\ IF index.tokenizer = "unicode61"
       THEN /\ index' = [tokenizer |-> "none", entries |-> Once({})]
            /\ Go(p, "create")
            /\ shaken' = (shaken \/ \E q \in Proc \ {p} : opener[q] # "idle")
       ELSE Go(p, "open") /\ UNCHANGED <<index, shaken>>
    /\ UNCHANGED <<cols, mem, pointer, events, provenance, targetKey, links, first>> /\ Bounds

CreateIndex(p) ==
    /\ At(p, "create") /\ Go(p, After.create)
    /\ index' = IF index.tokenizer = "none" THEN [index EXCEPT !.tokenizer = "trigram"] ELSE index
    /\ UNCHANGED <<cols, mem, pointer, events, provenance, targetKey, links, first, shaken>>
    /\ Bounds

Reindex(p) ==
    /\ At(p, "reindex") /\ Go(p, After.reindex)
    /\ index' = [index EXCEPT !.entries = [c \in Content |-> @[c] + Once(Rows)[c]]]
    /\ UNCHANGED <<cols, mem, pointer, events, provenance, targetKey, links, first, shaken>>
    /\ Bounds

Init(p) ==
    \/ StartOpen(p) \/ Schema(p) \/ MigrateLinks(p) \/ AddColumn(p) \/ FillEvents(p)
    \/ SetPointers(p) \/ AddEventColumns(p) \/ BackfillProvenance(p)
    \/ MigrateIndex(p) \/ CreateIndex(p) \/ Reindex(p)

-----------------------------------------------------------------------------
(* The rest of the system *)

Changes(p) ==
    /\ At(p, "open") /\ index.tokenizer # "none"
    /\ writes < MaxWrites /\ writes' = writes + 1
    /\ shaken' = (shaken \/ Rebuilding # {})
    /\ UNCHANGED <<cols, provenance, targetKey, opener, starts, faults>>

\* InsertMemory fills what the event and an existing row lack.  A link is a statement of its
\* own, whose error for a label under the foreign key nobody looks at.
Write(p, c, o) ==
    /\ Changes(p)
    /\ events' = [events EXCEPT ![c] = IF @ \in {NoRow, ""} THEN o ELSE @]
    /\ first' = FirstOf(events')
    /\ mem' = [mem EXCEPT ![c] = IF @ \in {NoRow, ""} THEN o ELSE @]
    /\ pointer' = pointer \cup {c}
    /\ index' = IF c \in Rows THEN index ELSE [index EXCEPT !.entries[c] = @ + 1]
    /\ links' = IF targetKey THEN links ELSE links \cup ({c} \cap Labelled)

Delete(p, c) ==
    /\ Changes(p) /\ c \in Rows
    /\ mem' = [mem EXCEPT ![c] = NoRow] /\ pointer' = pointer \ {c}
    /\ links' = links \ {c} /\ index' = [index EXCEPT !.entries[c] = 0]
    /\ UNCHANGED <<events, first>>

\* A command ends, or is killed where it is.
Close(p) ==
    /\ opener[p] \in {"open", "failed"} /\ Go(p, "idle")
    /\ UNCHANGED <<tables, first, shaken>> /\ Bounds

Kill(p) ==
    /\ opener[p] \notin {"idle", "open", "failed"}
    /\ faults < MaxFaults /\ faults' = faults + 1
    /\ Go(p, "idle") /\ shaken' = (shaken \/ p \in Rebuilding)
    /\ UNCHANGED <<tables, first, starts, writes>>

UpgradeNext ==
    \E p \in Proc :
       \/ Init(p) \/ Close(p) \/ Kill(p)
       \/ \E c \in Content : Delete(p, c) \/ \E o \in {""} \cup Origin : Write(p, c, o)

UpgradeSpec == UpgradeInit /\ [][UpgradeNext]_openVars

-----------------------------------------------------------------------------
(* Properties *)

\* "This guarantees every memory — including those written before raw capture existed — has
\* a permanent source" (sqlite.go:115): no row ever points to an event that is not there,
\* every row points to one while anyone has the database open, and the first provenance an
\* event got is never replaced, whoever opens, is killed, writes and deletes meanwhile; and
\* an index that was rebuilt by one process alone has every row once.
UpgradeKeeps ==
    /\ \A c \in pointer : events[c] # NoRow
    /\ (\E p \in Proc : At(p, "open")) => pointer = Rows
    /\ \A c \in Content : first[c] \in Origin => events[c] = first[c]
    /\ ~shaken /\ Rebuilding = {} => index.entries = Once(Rows)

\* "Migrate: recreate links table without target_id FK (wiki-links are text labels, not
\* memory IDs)" (sqlite.go:70): while the database is open a label can be linked.
LabelsCanBeLinked == (\E p \in Proc : At(p, "open")) => ~targetKey
=============================================================================
