---------------------------- MODULE MemoryStore ----------------------------
(***************************************************************************)
(* The SQLite store of memory-cli (src/internal/store): the event log      *)
(* raw_entries, the memories table, its full-text index and the version    *)
(* links kept in the metadata column, as several processes use them at     *)
(* once (the daemon, the MCP server, the HTTP API, CLI commands), all on   *)
(* one database file.                                                      *)
(*                                                                         *)
(* Every SQL statement, and every transaction, is one atomic step: each    *)
(* process has one connection and SQLite serialises the writers.  What the *)
(* Go code does between two statements it keeps in local variables, and a  *)
(* process may stop there: op[p] is where process p is inside the store    *)
(* operation it runs, with those locals.                                   *)
(***************************************************************************)
EXTENDS Naturals, Sequences, FiniteSets

CONSTANTS
    Content,       \* texts, each standing for its SHA-256 too
    Trim,          \* text -> the text without the white space around it
    Project,       \* project names
    NoProject,     \* the empty project column
    Id,            \* memory ids (UUIDs: an id is never handed out twice)
    Proc,          \* threads of control with a store handle
    Category,      \* the categories IsValidCategory accepts, without inbox
    AutoCategory,  \* trimmed text -> what CategorizeContent makes of it
    Terms,         \* trimmed text -> the terms extractTermsFromContent finds
    Unknown,       \* a category name of the caller's own making
    Rejected,      \* contents that are empty or too long after trimming
    Request,       \* the writes the callers ask for, each in Asked
    Status,        \* values of the metadata key "status"
    None,          \* no value
    MaxClock,      \* bound: the clock stops here
    MaxFaults      \* bound: crashes and failed statements

Inbox == "inbox"
FactPhase == {"processed", "organized"}
Phase == FactPhase \cup {Inbox}
Origin == Project \cup {NoProject}

\* The values of the category column: a known category, inbox, or left empty.
Stored == Category \cup {Inbox, ""}

\* What a caller hands to IngestMemory, and what the gate makes of it: there, content
\* is the text the hash is of.  hashed: the caller set ContentHash, of the text before
\* it is trimmed (NewMemory, NewMemoryFromDataItem).  dated: the CreatedAt it set, if
\* it set one.  fine: the time has a fraction of a second (time.Now()); the fact
\* processor's is a whole second.
Asked(cats) == [content : Content, hashed : BOOLEAN, phase : Phase, category : cats,
                project : Origin, status : Status \cup {None},
                dated : Nat \cup {None}, fine : BOOLEAN]
Command == Asked(Stored)

Key == {"superseded_by", "status"}
Value == Id \cup Status \cup {None}
Meta == [Key -> Value]
NoMeta == [k \in Key |-> None]

\* An event keeps the content and the provenance it was captured with.
Event == [hash : Content, project : Origin]

\* A row of memories.  Its content_hash is hash and its content Trim[hash]: nothing in
\* this module rewrites a row's content.  created is in whole seconds (RFC3339).
Row == [hash : Content, phase : Phase, category : Stored, project : Origin,
        created : Nat, meta : Meta]

ASSUME StoreAssumption ==
    /\ Inbox \notin Category /\ "" \notin Category /\ Unknown \notin Stored
    /\ AutoCategory \in [Content -> Category \cup {Inbox}]
    /\ Trim \in [Content -> Content]
    /\ \A c \in Content : Trim[Trim[c]] = Trim[c]
    /\ Rejected \subseteq Content
    /\ Request \subseteq Asked(Stored \cup {Unknown})
    /\ NoProject \notin Project
    /\ None \notin Id /\ None \notin Status
    /\ None \notin Row
    /\ MaxClock \in Nat /\ MaxFaults \in Nat

VARIABLES
    events,   \* raw_entries in rowid order
    mem,      \* the memories table: id -> row, None when there is no such row
    fts,      \* the ids indexed in memories_fts
    minted,   \* the ids handed out so far
    clock,    \* wall-clock seconds
    op,       \* process -> the operation it is inside, with its locals
    faults    \* crashes and failed statements so far

rowVars == <<mem, fts, minted>>
vars == <<events, rowVars, clock, op, faults>>

Rows == {i \in Id : mem[i] # None}
RowsWith(c) == {i \in Rows : mem[i].hash = c}

\* Where a process can be.
Idle == [step |-> "idle"]
Inserting == [step : {"insert"}, cmd : Command, at : Nat]
Listing == [step : {"list"}, cmd : Command, at : Nat, id : Id]
Marking == [step : {"mark"}, id : Id \cup {None}, todo : SUBSET Id]
Patching == [step : {"patch"}, target : Id, key : Key, val : Value,
             read : Meta, id : Id \cup {None}, todo : SUBSET Id]
Deleting == [step : {"delete"}, target : Id]
Operation == {Idle} \cup Inserting \cup Listing \cup Marking \cup Patching \cup Deleting

Init ==
    /\ events = <<>>
    /\ mem = [i \in Id |-> None]
    /\ fts = {}
    /\ minted = {}
    /\ clock = 1
    /\ op = [p \in Proc |-> Idle]
    /\ faults = 0

-----------------------------------------------------------------------------
(* IngestMemory: the command gate, the insert transaction, the supersede pass *)

\* The validation that runs before anything is appended.
Accepted(r) == Trim[r.content] \notin Rejected /\ r.phase \in Phase

\* A category nobody knows falls back to inbox; a hash that is not there is computed
\* of the trimmed text, one that is there stays.
Gate(r) ==
    [r EXCEPT !.category = IF @ = Unknown THEN Inbox ELSE @,
              !.content = IF r.hashed THEN @ ELSE Trim[@]]

\* CreatedAt: the caller's, or now.
CreatedAt(r) == IF r.dated = None THEN clock ELSE r.dated

Ingest(p, r) ==
    /\ op[p] = Idle
    /\ Accepted(r)
    /\ op' = [op EXCEPT ![p] = [step |-> "insert", cmd |-> Gate(r), at |-> CreatedAt(r)]]
    /\ UNCHANGED <<events, rowVars, clock, faults>>

\* INSERT OR IGNORE INTO raw_entries, then the UPDATE that fills in its empty
\* provenance: on a first occurrence the second changes nothing.  Both go by the hash.
HasEvent(c) == \E k \in DOMAIN events : events[k].hash = c

Backfill(old, new) == IF old = NoProject THEN new ELSE old

Captured(r) ==
    IF HasEvent(r.content)
      THEN [k \in DOMAIN events |->
              IF events[k].hash = r.content
                THEN [events[k] EXCEPT !.project = Backfill(@, r.project)]
                ELSE events[k]]
      ELSE Append(events, [hash |-> r.content, project |-> r.project])

NewRow(r, at) ==
    [hash |-> r.content, phase |-> r.phase,
     category |-> IF r.category = Inbox THEN AutoCategory[Trim[r.content]] ELSE r.category,
     project |-> r.project, created |-> at,
     meta |-> [NoMeta EXCEPT !["status"] = r.status]]

\* A row under a fresh id, indexed for full-text search.
InsertRow(r, at, i) ==
    /\ i \in Id \ minted
    /\ mem' = [mem EXCEPT ![i] = NewRow(r, at)]
    /\ fts' = fts \cup {i}
    /\ minted' = minted \cup {i}

\* No row has this hash: insert one.
AddRow(r, at, i) == RowsWith(r.content) = {} /\ InsertRow(r, at, i)

\* A row has this hash: fill in its empty provenance and adopt its id.
AdoptRow(r, at, i) ==
    /\ i \in RowsWith(r.content)
    /\ mem' = [mem EXCEPT ![i].project = Backfill(@, r.project)]
    /\ UNCHANGED <<fts, minted>>

\* Mutant: the lookup by content_hash is dropped.
StoreTwice(r, at, i) == InsertRow(r, at, i)

StoreRow(r, at, i) == AddRow(r, at, i) \/ AdoptRow(r, at, i)

\* Mutant: a second occurrence does not fill in the project of its event.
CaptureOnce(r) ==
    IF HasEvent(r.content)
      THEN events
      ELSE Append(events, [hash |-> r.content, project |-> r.project])
CaptureEvent(r) == Captured(r)

\* InsertMemory: one transaction.  A fact goes on to the supersede pass.
InsertMemory(p) ==
    /\ op[p].step = "insert"
    /\ LET r == op[p].cmd IN
       \E i \in Id :
         /\ StoreRow(r, op[p].at, i)
         /\ events' = CaptureEvent(r)
         /\ op' = [op EXCEPT ![p] =
              IF r.phase \in FactPhase
                THEN [step |-> "list", cmd |-> r, at |-> op[p].at, id |-> i]
                ELSE Idle]
    /\ UNCHANGED <<clock, faults>>

\* At least three terms in common (which implies the early return on fewer than two).
Overlap(c, d) == Cardinality(Terms[Trim[c]] \cap Terms[Trim[d]]) >= 3

\* The stored time of a row is older than the time a write carries in memory,
\* which may have a fraction of a second the stored one has lost.
Older(created, at, fine) == created < at \/ (created = at /\ fine)

IsSuperseded(row) == row.meta["superseded_by"] # None

\* Mutant: the row just written is not left out.
CandidatesWithSelf(r, at, i) ==
    {j \in Rows :
       /\ mem[j].phase = r.phase
       /\ r.category # "" => mem[j].category = r.category
       /\ r.project # NoProject => mem[j].project = r.project
       /\ Older(mem[j].created, at, r.fine)
       /\ ~ IsSuperseded(mem[j])
       /\ Overlap(mem[j].hash, r.content)}

\* Mutant: the count of shared terms is left out.
CandidatesUnrelated(r, at, i) ==
    {j \in Rows \ {i} : /\ mem[j].phase = r.phase
                        /\ Older(mem[j].created, at, r.fine)
                        /\ ~ IsSuperseded(mem[j])}

\* Mutant: the time comparison lets only rows of the same second through.
CandidatesSameSecond(r, at, i) ==
    {j \in CandidatesWithSelf(r, at, i) \ {i} : mem[j].created = at}

\* The rows a write makes obsolete, as List and the loop over its result select them.
Candidates(r, at, i) == CandidatesWithSelf(r, at, i) \ {i}

\* What remains of a pass when some of its candidates are done.
Continue(i, todo) ==
    IF todo = {} THEN Idle ELSE [step |-> "mark", id |-> i, todo |-> todo]

\* CheckAndSupersede up to its loop: one query, whose rows the loop then judges.
CheckAndSupersede(p) ==
    /\ op[p].step = "list"
    /\ op' = [op EXCEPT ![p] =
         Continue(@.id, Candidates(@.cmd, @.at, @.id))]
    /\ UNCHANGED <<events, rowVars, clock, faults>>

-----------------------------------------------------------------------------
(* UpdateMemoryMetadata: SELECT the metadata, merge the patch, UPDATE it back *)

\* The SELECT.  A row that is gone is an error, which the supersede pass ignores.
ReadMetadata(p, target, key, val, i, todo) ==
    op' = [op EXCEPT ![p] =
      IF target \in Rows
        THEN [step |-> "patch", target |-> target, key |-> key, val |-> val,
              read |-> mem[target].meta, id |-> i, todo |-> todo]
        ELSE Continue(i, todo)]

\* The next round of the supersede loop: MarkSuperseded(old, new).
MarkSuperseded(p) ==
    /\ op[p].step = "mark"
    /\ \E old \in op[p].todo :
         ReadMetadata(p, old, "superseded_by", op[p].id, op[p].id, op[p].todo \ {old})
    /\ UNCHANGED <<events, rowVars, clock, faults>>

\* A client changes the status of a memory: PATCH /memories/{id} of the HTTP API.
PatchStatus(p, target, v) ==
    /\ op[p] = Idle
    /\ target \in Rows
    /\ ReadMetadata(p, target, "status", v, None, {})
    /\ UNCHANGED <<events, rowVars, clock, faults>>

\* Mutant: the patch replaces the metadata it should be merged into.
MergeNothing(read, key, val) == [NoMeta EXCEPT ![key] = val]
Merged(read, key, val) == [read EXCEPT ![key] = val]

\* The UPDATE.  It matches no row when the row is gone.
UpdateMemoryMetadata(p) ==
    /\ op[p].step = "patch"
    /\ LET o == op[p] IN
         /\ mem' = IF o.target \in Rows
                     THEN [mem EXCEPT ![o.target].meta = Merged(o.read, o.key, o.val)]
                     ELSE mem
         /\ op' = [op EXCEPT ![p] = Continue(o.id, o.todo)]
    /\ UNCHANGED <<events, fts, minted, clock, faults>>

-----------------------------------------------------------------------------
(* Delete: the index entry first, then the row; the event stays *)

\* Mutant: the row goes first and the index entry is left for the second step.
RowFirst(i) == mem' = [mem EXCEPT ![i] = None] /\ UNCHANGED fts
Unindex(i) == fts' = fts \ {i} /\ UNCHANGED mem

\* resolveID and the first DELETE: between them nothing can go wrong, since ids
\* are never reused and a DELETE of a missing entry changes nothing.
DeleteIndex(p, i) ==
    /\ op[p] = Idle
    /\ i \in Rows
    /\ Unindex(i)
    /\ op' = [op EXCEPT ![p] = [step |-> "delete", target |-> i]]
    /\ UNCHANGED <<events, minted, clock, faults>>

\* Mutant: deleting a memory forgets its event too.
ForgetEvent(i) == SelectSeq(events, LAMBDA e : mem[i] = None \/ e.hash # mem[i].hash)
KeptEvents(i) == events

Delete(p) ==
    /\ op[p].step = "delete"
    /\ mem' = [mem EXCEPT ![op[p].target] = None]
    /\ events' = KeptEvents(op[p].target)
    /\ op' = [op EXCEPT ![p] = Idle]
    /\ UNCHANGED <<fts, minted, clock, faults>>

-----------------------------------------------------------------------------
(* Faults *)

\* The process dies inside an operation, or a statement fails (SQLITE_BUSY after
\* the busy timeout) and the operation returns: what it had committed stays.
Crash(p) ==
    /\ op[p] # Idle
    /\ op' = [op EXCEPT ![p] = Idle]

\* A statement fails and the code goes on: a MarkSuperseded whose error nobody
\* looks at, or the index half of Delete, whose result is dropped.
StatementFails(p) ==
    \/ /\ op[p].step = "mark"
       /\ \E old \in op[p].todo :
            op' = [op EXCEPT ![p] = Continue(@.id, @.todo \ {old})]
    \/ /\ op[p].step = "patch"
       /\ op' = [op EXCEPT ![p] = Continue(@.id, @.todo)]
    \/ /\ op[p] = Idle
       /\ \E i \in Rows : op' = [op EXCEPT ![p] = [step |-> "delete", target |-> i]]

Fault(p) ==
    /\ faults < MaxFaults
    /\ Crash(p) \/ StatementFails(p)
    /\ faults' = faults + 1
    /\ UNCHANGED <<events, rowVars, clock>>

Tick ==
    /\ clock < MaxClock
    /\ clock' = clock + 1
    /\ UNCHANGED <<events, rowVars, op, faults>>

Step(p) ==
    \/ \E r \in Request : Ingest(p, r)
    \/ InsertMemory(p)
    \/ CheckAndSupersede(p)
    \/ MarkSuperseded(p)
    \/ \E i \in Id, v \in Status : PatchStatus(p, i, v)
    \/ UpdateMemoryMetadata(p)
    \/ \E i \in Id : DeleteIndex(p, i)
    \/ Delete(p)
    \/ Fault(p)

Next == Tick \/ \E p \in Proc : Step(p)

Spec == Init /\ [][Next]_vars

-----------------------------------------------------------------------------
(* Properties *)

TypeOK ==
    /\ events \in Seq(Event)
    /\ mem \in [Id -> Row \cup {None}]
    /\ fts \in SUBSET Id
    /\ minted \in SUBSET Id
    /\ clock \in Nat
    /\ op \in [Proc -> Operation]
    /\ faults \in Nat

\* A hash has one event and at most one row, however many processes ingest it at the
\* same time, delete it and ingest it again (InsertMemory's INSERT OR IGNORE and its
\* lookup by content_hash, in one transaction).  So a text has one row among those
\* whose hash is of the trimmed text; callers that hash before they trim can store a
\* text once more for each white space around it, against IngestMemory's "same trimmed
\* content -> same hash".
OneEventPerHash ==
    \A k, l \in DOMAIN events : events[k].hash = events[l].hash => k = l
OneRowPerHash ==
    \A i, j \in Rows : mem[i].hash = mem[j].hash => i = j
HashOfTrimmed(i) == mem[i].hash = Trim[mem[i].hash]
OneRowPerText ==
    \A i, j \in Rows :
      (HashOfTrimmed(i) /\ HashOfTrimmed(j) /\ Trim[mem[i].hash] = Trim[mem[j].hash]) =>
        i = j
NoDuplicates == OneEventPerHash /\ OneRowPerHash /\ OneRowPerText

\* Every row can be traced to its event (raw_entry_id), and so can be rebuilt from the
\* log; and whenever the row knows its project, so does the event, whichever of the
\* occurrences of the content brought it.
HasEventWithProject(c) ==
    \E k \in DOMAIN events : events[k].hash = c /\ events[k].project # NoProject
Traceable ==
    \A i \in Rows :
      /\ HasEvent(mem[i].hash)
      /\ mem[i].project # NoProject => HasEventWithProject(mem[i].hash)

\* The version link of a row: the id of the row that made it obsolete.
SupersededBy(i) == mem[i].meta["superseded_by"]

\* A memory is only ever marked obsolete for a cause: the mark is on a fact, not on
\* a raw inbox event, it names another memory, and one that was committed before
\* the mark was made (the supersede pass runs after the insert's commit).
SupersedeJustified ==
    \A i \in Rows :
      SupersededBy(i) # None =>
        /\ mem[i].phase \in FactPhase
        /\ SupersededBy(i) \in minted \ {i}

\* ... and while the superseding memory has a row, the two share enough terms.
SupersedeOverlaps ==
    \A i \in Rows :
      SupersededBy(i) \in Rows => Overlap(mem[i].hash, mem[SupersededBy(i)].hash)

\* Ingesting a content again never disturbs its row: "the existing memory's
\* processing state is authoritative".  Only an empty project is ever filled in.
RowsKeepTheirIdentity ==
    [][\A i \in Rows :
         mem'[i] # None =>
           /\ mem'[i].hash = mem[i].hash
           /\ mem'[i].phase = mem[i].phase
           /\ mem'[i].created = mem[i].created
           /\ mem[i].project # NoProject => mem'[i].project = mem[i].project]_vars

\* As long as every statement succeeds, the index agrees with the table: no entry
\* without a row, and a row is missing from it only while some process is deleting it.
IndexMatchesRows ==
    faults = 0 =>
      /\ fts \subseteq Rows
      /\ \A i \in Rows \ fts :
           \E p \in Proc : op[p].step = "delete" /\ op[p].target = i

\* The log as EventLog promises it: place and origin of a content, read off events.
PlaceOf(c) ==
    IF HasEvent(c) THEN CHOOSE k \in DOMAIN events : events[k].hash = c ELSE 0
Log == INSTANCE EventLog WITH
    place <- [c \in Content |-> PlaceOf(c)],
    origin <- [c \in Content |->
                 IF HasEvent(c) THEN events[PlaceOf(c)].project ELSE NoProject],
    size <- Len(events)

\* The event log is append-only: under every operation, deletes and faults
\* included, no event is lost, moved or stripped of its provenance.
ImplementsEventLog == Log!LogSpec

\* With one process, no faults and every write naming its category and project and made
\* as of now, the supersede pass is complete: of two facts of one phase, category and project that
\* share enough terms, the older one is marked as soon as the writer is idle.
SupersedeComplete ==
    (\A p \in Proc : op[p] = Idle) =>
      \A i, j \in Rows :
        /\ mem[i].phase \in FactPhase /\ mem[j].phase = mem[i].phase
        /\ mem[j].category = mem[i].category
        /\ mem[j].project = mem[i].project
        /\ mem[i].created < mem[j].created
        /\ Overlap(mem[i].hash, mem[j].hash)
        => IsSuperseded(mem[i])

-----------------------------------------------------------------------------
(* What the comments of the code say, and the code does not do *)

\* "keys not in the patch are preserved" (metadata.go:8): a step changes a key of a
\* row's metadata only if it writes a patch of that key.
OnlyPatchedKeysChange ==
    [][\A i \in Rows, k \in Key :
         (mem'[i] # None /\ mem'[i].meta[k] # mem[i].meta[k]) =>
           \E p \in Proc : op[p].step = "patch" /\ op[p].target = i /\ op[p].key = k]_vars
=============================================================================
