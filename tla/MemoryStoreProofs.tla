------------------------- MODULE MemoryStoreProofs -------------------------
(***************************************************************************)
(* Theorems about MemoryStore for every set of contents, ids, processes    *)
(* and requests, every clock bound and every number of faults.             *)
(***************************************************************************)
EXTENDS MemoryStore, TLAPS

\* Key, value, metadata and row values are what the code puts into a row.
LEMMA NewRowType ==
    ASSUME NEW r \in Command, NEW at \in Nat
    PROVE  NewRow(r, at) \in Row
<1>1. [NoMeta EXCEPT !["status"] = r.status] \in Meta
  BY DEF NoMeta, Meta, Key, Value, Command, Asked
<1>2. (IF r.category = Inbox THEN AutoCategory[Trim[r.content]] ELSE r.category) \in Stored
  <2>1. Trim[r.content] \in Content /\ r.category \in Stored
    BY StoreAssumption DEF Command, Asked
  <2> QED
    BY <2>1, StoreAssumption DEF Stored
<1> QED
  BY <1>1, <1>2 DEF NewRow, Row, Command, Asked

LEMMA GateType ==
    ASSUME NEW r \in Asked(Stored \cup {Unknown})
    PROVE  Gate(r) \in Command
<1>1. Trim[r.content] \in Content
  BY StoreAssumption DEF Asked
<1> QED
  BY <1>1 DEF Gate, Command, Asked, Stored

\* A memory's time is the caller's or the clock's.
LEMMA CreatedAtType ==
    ASSUME TypeOK, NEW r \in Request
    PROVE  CreatedAt(r) \in Nat
  BY StoreAssumption DEF CreatedAt, Asked, TypeOK

\* What remains of a supersede pass is again a place a process can be in.
LEMMA ContinueType ==
    ASSUME NEW i \in Id \cup {None}, NEW todo \in SUBSET Id
    PROVE  Continue(i, todo) \in Operation
  BY DEF Continue, Operation, Marking

LEMMA CapturedType ==
    ASSUME events \in Seq(Event), NEW r \in Command
    PROVE  Captured(r) \in Seq(Event)
<1>1. CASE HasEvent(r.content)
  <2>1. \A k \in DOMAIN events :
          (IF events[k].hash = r.content
             THEN [events[k] EXCEPT !.project = Backfill(@, r.project)]
             ELSE events[k]) \in Event
    <3> SUFFICES ASSUME NEW k \in DOMAIN events
                 PROVE  [events[k] EXCEPT !.project = Backfill(@, r.project)] \in Event
      OBVIOUS
    <3>1. events[k] \in Event
      OBVIOUS
    <3>2. Backfill(events[k].project, r.project) \in Origin
      BY <3>1 DEF Event, Backfill, Command, Asked
    <3> QED
      BY <3>1, <3>2 DEF Event
  <2>2. DOMAIN events = 1..Len(events) /\ Len(events) \in Nat
    OBVIOUS
  <2> QED
    BY <1>1, <2>1, <2>2 DEF Captured
<1>2. CASE ~ HasEvent(r.content)
  BY <1>2 DEF Captured, Event, Command, Asked
<1> QED
  BY <1>1, <1>2

\* Inserting or adopting a row keeps the three row variables well-typed.
LEMMA StoreRowType ==
    ASSUME TypeOK, NEW r \in Command, NEW at \in Nat, NEW i \in Id, StoreRow(r, at, i)
    PROVE  /\ mem' \in [Id -> Row \cup {None}]
           /\ fts' \in SUBSET Id
           /\ minted' \in SUBSET Id
<1>1. CASE AddRow(r, at, i)
  BY <1>1, NewRowType DEF AddRow, InsertRow, TypeOK
<1>2. CASE AdoptRow(r, at, i)
  <2>1. mem[i] \in Row
    BY <1>2 DEF AdoptRow, RowsWith, Rows, TypeOK
  <2>2. [mem[i] EXCEPT !.project = Backfill(@, r.project)] \in Row
    BY <2>1 DEF Row, Backfill, Command, Asked
  <2> QED
    BY <1>2, <2>2 DEF AdoptRow, TypeOK
<1> QED
  BY <1>1, <1>2 DEF StoreRow

\* Where a process is tells which locals it has.
LEMMA OperationLocals ==
    ASSUME TypeOK, NEW p \in Proc
    PROVE  /\ op[p].step = "insert" => op[p] \in Inserting
           /\ op[p].step = "list" => op[p] \in Listing
           /\ op[p].step = "mark" => op[p] \in Marking
           /\ op[p].step = "patch" => op[p] \in Patching
           /\ op[p].step = "delete" => op[p] \in Deleting
<1>1. op[p] \in Operation
  BY DEF TypeOK
<1> QED
  BY <1>1 DEF Operation, Idle, Inserting, Listing, Marking, Patching, Deleting

\* The SELECT half of a metadata patch leads to a place a process can be in.
LEMMA ReadMetadataType ==
    ASSUME TypeOK, NEW p \in Proc, NEW target \in Id, NEW key \in Key, NEW val \in Value,
           NEW i \in Id \cup {None}, NEW todo \in SUBSET Id,
           ReadMetadata(p, target, key, val, i, todo)
    PROVE  op' \in [Proc -> Operation]
<1>1. CASE target \in Rows
  <2>1. mem[target].meta \in Meta
    BY <1>1 DEF Rows, TypeOK, Row
  <2>2. [step |-> "patch", target |-> target, key |-> key, val |-> val,
         read |-> mem[target].meta, id |-> i, todo |-> todo] \in Patching
    BY <2>1 DEF Patching
  <2> QED
    BY <1>1, <2>2 DEF ReadMetadata, TypeOK, Operation
<1>2. CASE target \notin Rows
  BY <1>2, ContinueType DEF ReadMetadata, TypeOK
<1> QED
  BY <1>1, <1>2

-----------------------------------------------------------------------------
\* Type correctness: every variable keeps the type TypeOK gives it.
LEMMA TypeInit == Init => TypeOK
<1> SUFFICES ASSUME Init
             PROVE  TypeOK
  OBVIOUS
<1>1. op \in [Proc -> Operation]
  BY DEF Init, Operation
<1> QED
  BY <1>1 DEF Init, TypeOK

LEMMA TypeStep == TypeOK /\ [Next]_vars => TypeOK'
<1> SUFFICES ASSUME TypeOK, [Next]_vars
             PROVE  TypeOK'
  OBVIOUS
<1> USE DEF TypeOK, rowVars
<1>1. CASE UNCHANGED vars
  BY <1>1 DEF vars
<1>2. CASE Tick
  BY <1>2 DEF Tick
<1>3. ASSUME NEW p \in Proc, NEW r \in Request, Ingest(p, r)
      PROVE  TypeOK'
  <2>1. CreatedAt(r) \in Nat
    BY CreatedAtType DEF TypeOK
  <2>2. [step |-> "insert", cmd |-> Gate(r), at |-> CreatedAt(r)] \in Operation
    BY <2>1, GateType, StoreAssumption DEF Operation, Inserting
  <2> QED
    BY <1>3, <2>2 DEF Ingest
<1>4. ASSUME NEW p \in Proc, InsertMemory(p)
      PROVE  TypeOK'
  <2> DEFINE r == op[p].cmd
  <2>1. op[p] \in Inserting
    BY <1>4, OperationLocals DEF InsertMemory
  <2>2. r \in Command /\ op[p].at \in Nat
    BY <2>1 DEF Inserting
  <2>3. PICK i \in Id :
          /\ StoreRow(r, op[p].at, i)
          /\ events' = CaptureEvent(r)
          /\ op' = [op EXCEPT ![p] =
               IF r.phase \in FactPhase
                 THEN [step |-> "list", cmd |-> r, at |-> op[p].at, id |-> i]
                 ELSE Idle]
    BY <1>4 DEF InsertMemory
  <2>4. events' \in Seq(Event)
    BY <2>2, <2>3, CapturedType DEF CaptureEvent
  <2>5. op' \in [Proc -> Operation]
    <3>1. [step |-> "list", cmd |-> r, at |-> op[p].at, id |-> i] \in Listing
      BY <2>2 DEF Listing
    <3> QED
      BY <3>1, <2>3 DEF Operation
  <2>6. UNCHANGED <<clock, faults>>
    BY <1>4 DEF InsertMemory
  <2> HIDE DEF r
  <2>7. /\ mem' \in [Id -> Row \cup {None}]
        /\ fts' \in SUBSET Id
        /\ minted' \in SUBSET Id
    BY <2>2, <2>3, StoreRowType
  <2> QED
    BY <2>4, <2>5, <2>6, <2>7
<1>5. ASSUME NEW p \in Proc, CheckAndSupersede(p)
      PROVE  TypeOK'
  <2>1. op[p] \in Listing
    BY <1>5, OperationLocals DEF CheckAndSupersede
  <2>2. Candidates(op[p].cmd, op[p].at, op[p].id) \in SUBSET Id /\ op[p].id \in Id
    BY <2>1 DEF Listing, Candidates, CandidatesWithSelf, Rows
  <2>3. Continue(op[p].id, Candidates(op[p].cmd, op[p].at, op[p].id)) \in Operation
    BY <2>2, ContinueType
  <2> QED
    BY <1>5, <2>3 DEF CheckAndSupersede
<1>6. ASSUME NEW p \in Proc, MarkSuperseded(p)
      PROVE  TypeOK'
  <2>1. op[p] \in Marking
    BY <1>6, OperationLocals DEF MarkSuperseded
  <2>2. PICK old \in op[p].todo :
          ReadMetadata(p, old, "superseded_by", op[p].id, op[p].id, op[p].todo \ {old})
    BY <1>6 DEF MarkSuperseded
  <2>3. op[p].id \in Id \cup {None} /\ op[p].todo \in SUBSET Id
    BY <2>1 DEF Marking
  <2>4. op' \in [Proc -> Operation]
    <3> HIDE DEF TypeOK
    <3>1. old \in Id /\ op[p].todo \ {old} \in SUBSET Id /\ op[p].id \in Value
          /\ "superseded_by" \in Key
      BY <2>3 DEF Key, Value
    <3> QED
      BY <2>2, <2>3, <3>1, ReadMetadataType
  <2> QED
    BY <1>6, <2>4 DEF MarkSuperseded
<1>7. ASSUME NEW p \in Proc, NEW i \in Id, NEW v \in Status, PatchStatus(p, i, v)
      PROVE  TypeOK'
  <2>1. op' \in [Proc -> Operation]
    <3> HIDE DEF TypeOK
    <3>1. v \in Value /\ "status" \in Key /\ {} \in SUBSET Id
      BY DEF Key, Value
    <3>2. ReadMetadata(p, i, "status", v, None, {})
      BY <1>7 DEF PatchStatus
    <3> QED
      BY <3>1, <3>2, ReadMetadataType
  <2> QED
    BY <1>7, <2>1 DEF PatchStatus
<1>8. ASSUME NEW p \in Proc, UpdateMemoryMetadata(p)
      PROVE  TypeOK'
  <2> DEFINE o == op[p]
  <2>1. o \in Patching
    BY <1>8, OperationLocals DEF UpdateMemoryMetadata
  <2>2. Merged(o.read, o.key, o.val) \in Meta
    BY <2>1 DEF Patching, Merged, Meta
  <2>3. ASSUME o.target \in Rows
        PROVE  [mem[o.target] EXCEPT !.meta = Merged(o.read, o.key, o.val)] \in Row
    BY <2>2, <2>3 DEF Rows, Row
  <2>4. mem' \in [Id -> Row \cup {None}]
    BY <1>8, <2>3 DEF UpdateMemoryMetadata
  <2>5. Continue(o.id, o.todo) \in Operation
    BY <2>1, ContinueType DEF Patching
  <2> QED
    BY <1>8, <2>4, <2>5 DEF UpdateMemoryMetadata
<1>9. ASSUME NEW p \in Proc, NEW i \in Id, DeleteIndex(p, i)
      PROVE  TypeOK'
  BY <1>9 DEF DeleteIndex, Unindex, Operation, Deleting
<1>10. ASSUME NEW p \in Proc, Delete(p)
       PROVE  TypeOK'
  BY <1>10 DEF Delete, KeptEvents, Operation
<1>11. ASSUME NEW p \in Proc, Fault(p)
       PROVE  TypeOK'
  <2>1. CASE Crash(p)
    BY <1>11, <2>1 DEF Fault, Crash, Operation
  <2>2. CASE StatementFails(p)
    <3>1. ASSUME NEW old \in op[p].todo, op[p].step = "mark",
                 op' = [op EXCEPT ![p] = Continue(@.id, @.todo \ {old})]
          PROVE  op' \in [Proc -> Operation]
      <4>1. op[p] \in Marking
        BY <3>1, OperationLocals
      <4>2. Continue(op[p].id, op[p].todo \ {old}) \in Operation
        BY <4>1, ContinueType DEF Marking
      <4> QED
        BY <3>1, <4>2
    <3>2. ASSUME op[p].step = "patch",
                 op' = [op EXCEPT ![p] = Continue(@.id, @.todo)]
          PROVE  op' \in [Proc -> Operation]
      <4>1. op[p] \in Patching
        BY <3>2, OperationLocals
      <4>2. Continue(op[p].id, op[p].todo) \in Operation
        BY <4>1, ContinueType DEF Patching
      <4> QED
        BY <3>2, <4>2
    <3>3. ASSUME NEW i \in Rows, op' = [op EXCEPT ![p] = [step |-> "delete", target |-> i]]
          PROVE  op' \in [Proc -> Operation]
      BY <3>3 DEF Rows, Operation, Deleting
    <3>4. op' \in [Proc -> Operation]
      BY <2>2, <3>1, <3>2, <3>3 DEF StatementFails
    <3> QED
      BY <1>11, <3>4 DEF Fault
  <2> QED
    BY <1>11, <2>1, <2>2 DEF Fault
<1> QED
  BY <1>1, <1>2, <1>3, <1>4, <1>5, <1>6, <1>7, <1>8, <1>9, <1>10, <1>11 DEF Next, Step

\* TypeOK is an invariant of the specification.
THEOREM TypeCorrect == Spec => []TypeOK
  BY TypeInit, TypeStep, PTL DEF Spec

-----------------------------------------------------------------------------
(* Safety: why a version link is always justified.                          *)
(* SupersedeJustified is not inductive: the link is written from locals a   *)
(* process has held for several steps, and a patch of another key writes    *)
(* back the link it read.  CanMark says that a link from t to s is          *)
(* justified, rows that vanish meanwhile included; the invariant keeps it   *)
(* for every link in the table and for every link a process may yet write.  *)

CanMark(t, s) ==
    /\ t \in minted /\ s \in minted /\ s # t
    /\ mem[t] # None => mem[t].phase \in FactPhase
    /\ (mem[t] # None /\ mem[s] # None) => Overlap(mem[t].hash, mem[s].hash)

\* Ids are handed out before rows exist, and never twice.
Grounded == \A i \in Id : mem[i] # None => i \in minted

LinksJustified ==
    \A i \in Rows : SupersededBy(i) # None => CanMark(i, SupersededBy(i))

\* What the locals of process p promise about the links it may yet write.
PassJustified(p) ==
    /\ op[p].step = "list" =>
         /\ op[p].cmd.phase \in FactPhase
         /\ op[p].id \in minted
         /\ mem[op[p].id] # None => mem[op[p].id].hash = op[p].cmd.content
    /\ op[p].step \in {"mark", "patch"} =>
         \A j \in op[p].todo : CanMark(j, op[p].id)
    /\ op[p].step = "patch" =>
         /\ op[p].key = "superseded_by" => CanMark(op[p].target, op[p].val)
         /\ op[p].read["superseded_by"] # None =>
              CanMark(op[p].target, op[p].read["superseded_by"])

LinkInv == TypeOK /\ Grounded /\ LinksJustified /\ \A p \in Proc : PassJustified(p)

\* Under every step the ids handed out stay handed out, and a row of such an id
\* keeps its content, phase, time and project, or vanishes for good.
Stable ==
    /\ minted \subseteq minted'
    /\ \A i \in minted : mem'[i] # None =>
         /\ mem[i] # None
         /\ mem'[i].hash = mem[i].hash
         /\ mem'[i].phase = mem[i].phase
         /\ mem'[i].created = mem[i].created
         /\ mem[i].project # NoProject => mem'[i].project = mem[i].project

LEMMA StoreRowStable ==
    ASSUME TypeOK, Grounded, NEW r \in Command, NEW at \in Nat, NEW i \in Id,
           StoreRow(r, at, i)
    PROVE  /\ Stable /\ Grounded' /\ i \in minted'
           /\ mem'[i] \in Row /\ mem'[i].hash = r.content
           /\ \A j \in Id \ {i} : mem'[j] = mem[j]
           /\ \/ i \notin minted /\ mem'[i].meta["superseded_by"] = None
              \/ mem[i] # None /\ mem'[i].meta = mem[i].meta
<1> USE DEF Stable, Grounded, TypeOK
<1>1. CASE AddRow(r, at, i)
  <2>1. /\ i \in Id \ minted
        /\ mem' = [mem EXCEPT ![i] = NewRow(r, at)]
        /\ minted' = minted \cup {i}
    BY <1>1 DEF AddRow, InsertRow
  <2>2. NewRow(r, at) \in Row /\ NewRow(r, at).hash = r.content
    BY NewRowType DEF NewRow
  <2>3. NewRow(r, at).meta["superseded_by"] = None
    BY DEF NewRow, NoMeta, Key
  <2> QED
    BY <2>1, <2>2, <2>3
<1>2. CASE AdoptRow(r, at, i)
  <2> DEFINE row == [mem[i] EXCEPT !.project = Backfill(@, r.project)]
  <2>1. mem[i] \in Row /\ mem[i] # None /\ mem[i].hash = r.content
    BY <1>2 DEF AdoptRow, RowsWith, Rows
  <2>2. row \in Row
    BY <2>1 DEF Row, Backfill, Command, Asked
  <2>3. /\ row.hash = mem[i].hash /\ row.phase = mem[i].phase
        /\ row.created = mem[i].created /\ row.meta = mem[i].meta
        /\ mem[i].project # NoProject => row.project = mem[i].project
    BY <2>1 DEF Row, Backfill
  <2>4. mem' = [mem EXCEPT ![i] = row] /\ minted' = minted
    BY <1>2 DEF AdoptRow
  <2> HIDE DEF row
  <2> QED
    BY <2>1, <2>2, <2>3, <2>4
<1> QED
  BY <1>1, <1>2 DEF StoreRow

LEMMA UpdateStable ==
    ASSUME TypeOK, Grounded, NEW p \in Proc, UpdateMemoryMetadata(p)
    PROVE  /\ Stable /\ Grounded' /\ minted' = minted
           /\ \A j \in Id : mem'[j] # None =>
                \/ mem'[j].meta = mem[j].meta
                \/ /\ j = op[p].target
                   /\ mem'[j].meta = Merged(op[p].read, op[p].key, op[p].val)
<1> USE DEF Stable, Grounded, TypeOK
<1> DEFINE t == op[p].target
           m == Merged(op[p].read, op[p].key, op[p].val)
           row == [mem[t] EXCEPT !.meta = m]
<1>1. minted' = minted /\ mem' = IF t \in Rows THEN [mem EXCEPT ![t] = row] ELSE mem
  BY DEF UpdateMemoryMetadata
<1>2. ASSUME t \in Rows
      PROVE  /\ row.hash = mem[t].hash /\ row.phase = mem[t].phase
             /\ row.created = mem[t].created /\ row.project = mem[t].project
             /\ row.meta = m /\ mem[t] # None /\ t \in Id
  BY <1>2 DEF Rows, Row
<1> HIDE DEF row, t, m
<1>3. CASE t \in Rows
  BY <1>1, <1>2, <1>3 DEF t, m
<1>4. CASE t \notin Rows
  BY <1>1, <1>4
<1> QED
  BY <1>3, <1>4

\* No step but these three changes the table.
LEMMA RowSteps ==
    ASSUME TypeOK, [Next]_vars
    PROVE  \/ UNCHANGED <<mem, minted>>
           \/ \E p \in Proc : InsertMemory(p) \/ UpdateMemoryMetadata(p) \/ Delete(p)
  BY DEF Next, Step, vars, rowVars, Tick, Ingest, CheckAndSupersede, MarkSuperseded,
         PatchStatus, DeleteIndex, Unindex, Fault

LEMMA RowsStable ==
    ASSUME TypeOK, Grounded, [Next]_vars
    PROVE  Stable /\ Grounded'
<1>1. CASE UNCHANGED <<mem, minted>>
  BY <1>1 DEF Stable, Grounded
<1>2. ASSUME NEW p \in Proc, InsertMemory(p)
      PROVE  Stable /\ Grounded'
  <2>1. op[p].cmd \in Command /\ op[p].at \in Nat
    BY <1>2, OperationLocals DEF InsertMemory, Inserting
  <2>2. PICK i \in Id : StoreRow(op[p].cmd, op[p].at, i)
    BY <1>2 DEF InsertMemory
  <2> QED
    BY <2>1, <2>2, StoreRowStable
<1>3. ASSUME NEW p \in Proc, UpdateMemoryMetadata(p)
      PROVE  Stable /\ Grounded'
  BY <1>3, UpdateStable
<1>4. ASSUME NEW p \in Proc, Delete(p)
      PROVE  Stable /\ Grounded'
  BY <1>4 DEF Delete, Stable, Grounded, TypeOK
<1> QED
  BY <1>1, <1>2, <1>3, <1>4, RowSteps
\* A justified link stays justified.
LEMMA CanMarkStable ==
    ASSUME Stable, NEW t, NEW s, CanMark(t, s)
    PROVE  CanMark(t, s)'
  BY DEF CanMark, Stable

\* A process that does not move keeps what its locals promise.
LEMMA PassUnmoved ==
    ASSUME TypeOK, Stable, NEW p \in Proc, PassJustified(p), op'[p] = op[p]
    PROVE  PassJustified(p)'
<1>1. ASSUME op[p].step = "list"
      PROVE  /\ op[p].id \in minted'
             /\ mem'[op[p].id] # None => mem'[op[p].id].hash = op[p].cmd.content
  BY <1>1 DEF PassJustified, Stable
<1>2. ASSUME op[p].step \in {"mark", "patch"}, NEW j \in op[p].todo
      PROVE  CanMark(j, op[p].id)'
  <2>1. CanMark(j, op[p].id)
    BY <1>2 DEF PassJustified
  <2>2. op'[p].id = op[p].id
    OBVIOUS
  <2> QED
    BY <2>1, <2>2 DEF CanMark, Stable
<1>3. ASSUME op[p].step = "patch", op[p].key = "superseded_by"
      PROVE  CanMark(op[p].target, op[p].val)'
  BY <1>3 DEF PassJustified, CanMark, Stable
<1>4. ASSUME op[p].step = "patch", op[p].read["superseded_by"] # None
      PROVE  CanMark(op[p].target, op[p].read["superseded_by"])'
  BY <1>4 DEF PassJustified, CanMark, Stable
<1> QED
  BY <1>1, <1>2, <1>3, <1>4 DEF PassJustified

\* The rest of a pass promises what the pass promised.
LEMMA PassContinues ==
    ASSUME NEW p \in Proc, NEW i, NEW todo, op'[p] = Continue(i, todo),
           \A j \in todo : CanMark(j, i)'
    PROVE  PassJustified(p)'
<1>1. CASE todo = {}
  BY <1>1 DEF Continue, PassJustified, Idle
<1>2. CASE todo # {}
  <2>1. op'[p] = [step |-> "mark", id |-> i, todo |-> todo]
    BY <1>2 DEF Continue
  <2>2. \A j \in op'[p].todo : CanMark(j, op[p].id)'
    BY <2>1 DEF CanMark
  <2> QED
    BY <2>1, <2>2 DEF PassJustified
<1> QED
  BY <1>1, <1>2

\* A process at rest promises nothing.
LEMMA PassIdle ==
    ASSUME NEW p \in Proc, op'[p].step \in {"idle", "insert", "delete"}
    PROVE  PassJustified(p)'
  BY DEF PassJustified

\* What ReadMetadata reads is a link of the table, justified like all of them.
LEMMA PassReads ==
    ASSUME LinkInv, UNCHANGED <<mem, minted>>, NEW p \in Proc,
           NEW target \in Id, NEW key \in Key, NEW val \in Value,
           NEW i, NEW todo,
           ReadMetadata(p, target, key, val, i, todo),
           \A j \in todo : CanMark(j, i),
           key = "superseded_by" => CanMark(target, val)
    PROVE  PassJustified(p)'
<1> USE DEF LinkInv
<1>0. Stable
  BY DEF Stable, TypeOK
<1>1. CASE target \in Rows
  <2>1. op'[p] = [step |-> "patch", target |-> target, key |-> key, val |-> val,
                  read |-> mem[target].meta, id |-> i, todo |-> todo]
    BY <1>1 DEF ReadMetadata, TypeOK
  <2>2. mem[target].meta["superseded_by"] # None =>
          CanMark(target, mem[target].meta["superseded_by"])
    BY <1>1 DEF LinksJustified, SupersededBy
  <2>3. \A j \in op'[p].todo : CanMark(j, op[p].id)'
    BY <2>1 DEF CanMark
  <2>4. key = "superseded_by" => CanMark(op[p].target, op[p].val)'
    BY <2>1 DEF CanMark
  <2>5. op'[p].read["superseded_by"] # None =>
          CanMark(op[p].target, op[p].read["superseded_by"])'
    BY <2>1, <2>2 DEF CanMark
  <2> QED
    BY <2>1, <2>3, <2>4, <2>5 DEF PassJustified
<1>2. CASE target \notin Rows
  <2>1. op'[p] = Continue(i, todo)
    BY <1>2 DEF ReadMetadata, TypeOK
  <2>2. \A j \in todo : CanMark(j, i)'
    BY DEF CanMark
  <2> QED
    BY <2>1, <2>2, PassContinues
<1> QED
  BY <1>1, <1>2

\* The links of the table stay justified.
LEMMA LinksStep ==
    ASSUME LinkInv, [Next]_vars
    PROVE  LinksJustified'
<1> USE DEF LinkInv
<1>0. Stable
  BY RowsStable
<1> SUFFICES ASSUME NEW k \in Id, mem'[k] # None, mem'[k].meta["superseded_by"] # None
             PROVE  CanMark(k, mem[k].meta["superseded_by"])'
  BY DEF LinksJustified, Rows, SupersededBy
<1> DEFINE s == mem'[k].meta["superseded_by"]
<1>1. ASSUME k \in minted, mem[k].meta["superseded_by"] = s
      PROVE  CanMark(k, mem[k].meta["superseded_by"])'
  <2>1. CanMark(k, s)
    BY <1>0, <1>1 DEF Stable, LinksJustified, Rows, SupersededBy
  <2> HIDE DEF s
  <2>2. CanMark(k, s) => /\ k \in minted' /\ s \in minted' /\ s # k
                         /\ mem'[k] # None => mem'[k].phase \in FactPhase
                         /\ (mem'[k] # None /\ mem'[s] # None) =>
                              Overlap(mem'[k].hash, mem'[s].hash)
    BY <1>0 DEF CanMark, Stable
  <2> QED
    BY <2>1, <2>2 DEF CanMark, s
<1>2. CASE UNCHANGED <<mem, minted>>
  <2>1. k \in minted
    BY <1>2 DEF Grounded
  <2> QED
    BY <1>1, <1>2, <2>1
<1>3. ASSUME NEW p \in Proc, InsertMemory(p)
      PROVE  CanMark(k, mem[k].meta["superseded_by"])'
  <2>1. op[p].cmd \in Command /\ op[p].at \in Nat
    BY <1>3, OperationLocals DEF InsertMemory, Inserting
  <2>2. PICK i \in Id : StoreRow(op[p].cmd, op[p].at, i)
    BY <1>3 DEF InsertMemory
  <2>3. mem[k] # None /\ mem'[k].meta = mem[k].meta
    BY <2>1, <2>2, StoreRowStable
  <2>4. k \in minted
    BY <2>3 DEF Grounded
  <2> QED
    BY <1>1, <2>3, <2>4
<1>4. ASSUME NEW p \in Proc, UpdateMemoryMetadata(p)
      PROVE  CanMark(k, mem[k].meta["superseded_by"])'
  <2> DEFINE o == op[p]
  <2>1. k \in minted
    BY <1>4, UpdateStable DEF Grounded
  <2>2. CASE mem'[k].meta = mem[k].meta
    BY <1>1, <2>1, <2>2
  <2>3. CASE k = o.target /\ mem'[k].meta = Merged(o.read, o.key, o.val)
    <3>1. o \in Patching /\ o.step = "patch" /\ PassJustified(p)
      BY <1>4, OperationLocals DEF UpdateMemoryMetadata
    <3>2. (s = o.val /\ o.key = "superseded_by") \/ s = o.read["superseded_by"]
      BY <2>3, <3>1 DEF Merged, Patching, Meta, Key
    <3>3. CanMark(k, s)
      BY <2>3, <3>1, <3>2 DEF PassJustified
    <3> HIDE DEF s
    <3>4. /\ k \in minted' /\ s \in minted' /\ s # k
          /\ mem'[k] # None => mem'[k].phase \in FactPhase
          /\ (mem'[k] # None /\ mem'[s] # None) => Overlap(mem'[k].hash, mem'[s].hash)
      BY <1>0, <3>3 DEF CanMark, Stable
    <3> QED
      BY <3>4 DEF CanMark, s
  <2> QED
    BY <1>4, <2>2, <2>3, UpdateStable
<1>5. ASSUME NEW p \in Proc, Delete(p)
      PROVE  CanMark(k, mem[k].meta["superseded_by"])'
  <2>1. mem[k] # None /\ mem'[k] = mem[k] /\ minted' = minted
    BY <1>5 DEF Delete, TypeOK
  <2> QED
    BY <1>1, <2>1 DEF Grounded
<1> QED
  BY <1>2, <1>3, <1>4, <1>5, RowSteps
\* A pass that has one candidate less, or has written one link, goes on justified.
LEMMA PassShrinks ==
    ASSUME Stable, NEW p \in Proc, PassJustified(p), op[p].step \in {"mark", "patch"},
           NEW todo \in SUBSET op[p].todo, op'[p] = Continue(op[p].id, todo)
    PROVE  PassJustified(p)'
<1>1. PICK i : i = op[p].id
  OBVIOUS
<1>2. \A j \in todo : CanMark(j, i)
  BY <1>1 DEF PassJustified
<1>3. \A j \in todo : CanMark(j, i)'
  BY <1>2, CanMarkStable
<1>4. op'[p] = Continue(i, todo)
  BY <1>1
<1> QED
  BY <1>3, <1>4, PassContinues

\* Every step leaves every process with locals that promise justified links only.
LEMMA PassStep ==
    ASSUME LinkInv, [Next]_vars, NEW q \in Proc
    PROVE  PassJustified(q)'
<1> USE DEF LinkInv
<1>0. Stable
  BY RowsStable
<1>1. CASE op'[q] = op[q]
  BY <1>0, <1>1, PassUnmoved
<1> SUFFICES ASSUME op'[q] # op[q]
             PROVE  PassJustified(q)'
  BY <1>1
<1>2. Step(q)
  <2>1. \E p \in Proc : Step(p)
    BY DEF Next, Tick, vars
  <2>2. ASSUME NEW p \in Proc, Step(p)
        PROVE  \E x : op' = [op EXCEPT ![p] = x]
    BY <2>2 DEF Step, Ingest, InsertMemory, CheckAndSupersede, MarkSuperseded,
       PatchStatus, ReadMetadata, UpdateMemoryMetadata, DeleteIndex, Delete, Fault,
       Crash, StatementFails
  <2> QED
    BY <2>1, <2>2 DEF TypeOK
<1>3. ASSUME NEW r \in Request, Ingest(q, r)
      PROVE  PassJustified(q)'
  BY <1>3, PassIdle DEF Ingest, TypeOK
<1>4. CASE InsertMemory(q)
  <2> DEFINE r == op[q].cmd
  <2>1. r \in Command /\ op[q].at \in Nat
    BY <1>4, OperationLocals DEF InsertMemory, Inserting
  <2>2. PICK i \in Id :
          /\ StoreRow(r, op[q].at, i)
          /\ op'[q] = IF r.phase \in FactPhase
                        THEN [step |-> "list", cmd |-> r, at |-> op[q].at, id |-> i]
                        ELSE Idle
    BY <1>4 DEF InsertMemory, TypeOK
  <2> HIDE DEF r
  <2>3. i \in minted' /\ mem'[i].hash = r.content
    BY <2>1, <2>2, StoreRowStable
  <2>4. CASE r.phase \in FactPhase
    BY <2>2, <2>3, <2>4 DEF PassJustified
  <2>5. CASE r.phase \notin FactPhase
    BY <2>2, <2>5, PassIdle DEF Idle
  <2> QED
    BY <2>4, <2>5
<1>5. CASE CheckAndSupersede(q)
  <2> DEFINE o == op[q]
             todo == Candidates(o.cmd, o.at, o.id)
  <2>1. o \in Listing /\ o.step = "list"
    BY <1>5, OperationLocals DEF CheckAndSupersede
  <2>2. o.cmd.phase \in FactPhase /\ o.id \in minted
        /\ (mem[o.id] # None => mem[o.id].hash = o.cmd.content)
    BY <2>1 DEF PassJustified
  <2>3. \A j \in todo : CanMark(j, o.id)
    BY <2>2 DEF Candidates, CandidatesWithSelf, CanMark, Rows, Grounded
  <2>4. op'[q] = Continue(o.id, todo) /\ UNCHANGED <<mem, minted>>
    BY <1>5 DEF CheckAndSupersede, TypeOK, rowVars
  <2>5. PICK i, rest : i = o.id /\ rest = todo
    OBVIOUS
  <2>6. \A j \in rest : CanMark(j, i)
    BY <2>3, <2>5
  <2>7. \A j \in rest : CanMark(j, i)'
    BY <1>0, <2>6, CanMarkStable
  <2>8. op'[q] = Continue(i, rest)
    BY <2>4, <2>5
  <2> QED
    BY <2>7, <2>8, PassContinues
<1>6. CASE MarkSuperseded(q)
  <2>1. op[q] \in Marking /\ op[q].step = "mark" /\ UNCHANGED <<mem, minted>>
    BY <1>6, OperationLocals DEF MarkSuperseded, rowVars
  <2>2. PICK old \in op[q].todo :
          ReadMetadata(q, old, "superseded_by", op[q].id, op[q].id, op[q].todo \ {old})
    BY <1>6 DEF MarkSuperseded
  <2>3. \A j \in op[q].todo : CanMark(j, op[q].id)
    BY <2>1 DEF PassJustified
  <2>4. old \in Id /\ op[q].id \in Value /\ "superseded_by" \in Key
    BY <2>1 DEF Marking, Value, Key
  <2> QED
    BY <2>1, <2>2, <2>3, <2>4, PassReads
<1>7. ASSUME NEW i \in Id, NEW v \in Status, PatchStatus(q, i, v)
      PROVE  PassJustified(q)'
  <2>1. v \in Value /\ "status" \in Key
    BY DEF Value, Key
  <2>2. ReadMetadata(q, i, "status", v, None, {}) /\ UNCHANGED <<mem, minted>>
    BY <1>7 DEF PatchStatus, rowVars
  <2> QED
    BY <2>1, <2>2, PassReads
<1>8. CASE UpdateMemoryMetadata(q)
  <2>1. op[q].step = "patch" /\ op'[q] = Continue(op[q].id, op[q].todo)
    BY <1>8 DEF UpdateMemoryMetadata, TypeOK
  <2> QED
    BY <1>0, <2>1, PassShrinks
<1>9. ASSUME NEW i \in Id, DeleteIndex(q, i)
      PROVE  PassJustified(q)'
  BY <1>9, PassIdle DEF DeleteIndex, TypeOK
<1>10. CASE Delete(q)
  BY <1>10, PassIdle DEF Delete, TypeOK, Idle
<1>11. CASE Fault(q)
  <2>1. CASE Crash(q)
    BY <2>1, PassIdle DEF Crash, TypeOK, Idle
  <2>2. CASE StatementFails(q)
    <3>1. CASE op[q].step = "mark"
               /\ \E old \in op[q].todo : op'[q] = Continue(op[q].id, op[q].todo \ {old})
      BY <1>0, <3>1, PassShrinks
    <3>2. CASE op[q].step = "patch" /\ op'[q] = Continue(op[q].id, op[q].todo)
      BY <1>0, <3>2, PassShrinks
    <3>3. CASE \E i \in Rows : op'[q] = [step |-> "delete", target |-> i]
      BY <3>3, PassIdle
    <3> QED
      BY <2>2, <3>1, <3>2, <3>3 DEF StatementFails, TypeOK
  <2> QED
    BY <1>11, <2>1, <2>2 DEF Fault
<1> QED
  BY <1>2, <1>3, <1>4, <1>5, <1>6, <1>7, <1>8, <1>9, <1>10, <1>11 DEF Step

LEMMA LinkInit == Init => LinkInv
  BY TypeInit
  DEF Init, LinkInv, Grounded, LinksJustified, Rows, PassJustified, Idle

LEMMA LinkStep == LinkInv /\ [Next]_vars => LinkInv'
  BY TypeStep, RowsStable, LinksStep, PassStep DEF LinkInv

\* No memory is marked obsolete without a cause, whatever the processes that write,
\* patch and delete at the same time, and wherever they are interrupted: the mark is
\* on a fact and names another memory that was committed before.
THEOREM LinksAreJustified == Spec => []SupersedeJustified
<1>1. LinkInv => SupersedeJustified
  BY DEF LinkInv, LinksJustified, SupersedeJustified, CanMark, Rows
<1> QED
  BY <1>1, LinkInit, LinkStep, PTL DEF Spec

\* The content a link was made for is the content both rows still have.
THEOREM LinksOverlap == Spec => []SupersedeOverlaps
<1>1. LinkInv => SupersedeOverlaps
  <2> SUFFICES ASSUME LinkInv, NEW i \in Rows, SupersededBy(i) \in Rows
               PROVE  Overlap(mem[i].hash, mem[SupersededBy(i)].hash)
    BY DEF SupersedeOverlaps
  <2>1. SupersededBy(i) # None
    BY StoreAssumption DEF Rows
  <2> QED
    BY <2>1 DEF LinkInv, LinksJustified, CanMark, Rows
<1> QED
  BY <1>1, LinkInit, LinkStep, PTL DEF Spec

\* A row keeps its content, phase, time and project as long as it exists.
THEOREM RowIdentity == Spec => RowsKeepTheirIdentity
<1>1. LinkInv /\ [Next]_vars =>
        \A i \in Rows : mem'[i] # None =>
           /\ mem'[i].hash = mem[i].hash
           /\ mem'[i].phase = mem[i].phase
           /\ mem'[i].created = mem[i].created
           /\ mem[i].project # NoProject => mem'[i].project = mem[i].project
  BY RowsStable DEF LinkInv, Stable, Grounded, Rows
<1> QED
  BY <1>1, LinkInit, LinkStep, PTL DEF Spec, RowsKeepTheirIdentity

-----------------------------------------------------------------------------
(* The event log: no content is ever duplicated or loses its event, and the *)
(* store implements the abstract log of EventLog.                           *)

LogInv == TypeOK /\ Grounded /\ NoDuplicates /\ Traceable

\* The events of a log, as functions of their place.
LEMMA CapturedEvents ==
    ASSUME TypeOK, NEW r \in Command, events' = Captured(r)
    PROVE  /\ HasEvent(r.content) =>
                /\ DOMAIN events' = DOMAIN events
                /\ Len(events') = Len(events)
                /\ \A k \in DOMAIN events :
                     /\ events'[k].hash = events[k].hash
                     /\ events'[k].project =
                          IF events[k].hash = r.content
                            THEN Backfill(events[k].project, r.project)
                            ELSE events[k].project
           /\ ~ HasEvent(r.content) =>
                /\ DOMAIN events' = DOMAIN events \cup {Len(events) + 1}
                /\ Len(events') = Len(events) + 1
                /\ \A k \in DOMAIN events : events'[k] = events[k]
                /\ events'[Len(events) + 1] = [hash |-> r.content, project |-> r.project]
<1>0. events \in Seq(Event) /\ DOMAIN events = 1..Len(events) /\ Len(events) \in Nat
  BY DEF TypeOK
<1>1. CASE HasEvent(r.content)
  <2>1. events' = [k \in DOMAIN events |->
              IF events[k].hash = r.content
                THEN [events[k] EXCEPT !.project = Backfill(@, r.project)]
                ELSE events[k]]
    BY <1>1 DEF Captured
  <2>2. DOMAIN events' = DOMAIN events
    BY <2>1
  <2>3. events' \in Seq(Event)
    BY CapturedType DEF TypeOK
  <2>4. Len(events') = Len(events)
    BY <1>0, <2>2, <2>3
  <2>5. ASSUME NEW k \in DOMAIN events
        PROVE  /\ events'[k].hash = events[k].hash
               /\ events'[k].project =
                    IF events[k].hash = r.content
                      THEN Backfill(events[k].project, r.project)
                      ELSE events[k].project
    <3>1. events[k] \in Event
      BY <1>0
    <3> QED
      BY <2>1, <3>1 DEF Event
  <2> QED
    BY <1>1, <2>2, <2>4, <2>5
<1>2. CASE ~ HasEvent(r.content)
  <2> DEFINE e == [hash |-> r.content, project |-> r.project]
  <2>1. e \in Event
    BY DEF Event, Command, Asked
  <2>2. events' = Append(events, e)
    BY <1>2 DEF Captured
  <2> HIDE DEF e
  <2>3. /\ DOMAIN events' = DOMAIN events \cup {Len(events) + 1}
        /\ Len(events') = Len(events) + 1
        /\ \A k \in DOMAIN events : events'[k] = events[k]
        /\ events'[Len(events) + 1] = e
    BY <1>0, <2>1, <2>2
  <2> QED
    BY <1>2, <2>3 DEF e
<1> QED
  BY <1>1, <1>2

\* Only InsertMemory changes the log.
LEMMA LogSteps ==
    ASSUME TypeOK, [Next]_vars
    PROVE  events' = events \/ \E p \in Proc : InsertMemory(p)
  BY DEF Next, Step, vars, Tick, Ingest, CheckAndSupersede, MarkSuperseded, PatchStatus,
         UpdateMemoryMetadata, DeleteIndex, Delete, KeptEvents, Fault

\* What InsertMemory does, freed of the locals it is stated with.
LEMMA Inserted ==
    ASSUME TypeOK, NEW p \in Proc, InsertMemory(p)
    PROVE  \E r \in Command, at \in Nat, i \in Id :
             StoreRow(r, at, i) /\ events' = Captured(r)
<1>1. op[p].cmd \in Command /\ op[p].at \in Nat
  BY OperationLocals DEF InsertMemory, Inserting
<1> QED
  BY <1>1 DEF InsertMemory, CaptureEvent

\* A captured content has an event, with its project; and no content loses its event, or
\* the event its project.
LEMMA EventsKept ==
    ASSUME TypeOK, NEW r \in Command, events' = Captured(r), NEW c
    PROVE  /\ HasEvent(c) => HasEvent(c)'
           /\ HasEvent(r.content)'
           /\ HasEventWithProject(c) => HasEventWithProject(c)'
           /\ r.project # NoProject => HasEventWithProject(r.content)'
<1>1. CASE HasEvent(r.content)
  <2>1. /\ DOMAIN events' = DOMAIN events
        /\ \A k \in DOMAIN events :
             /\ events'[k].hash = events[k].hash
             /\ events'[k].project = IF events[k].hash = r.content
                                      THEN Backfill(events[k].project, r.project)
                                      ELSE events[k].project
    BY <1>1, CapturedEvents
  <2>2. \A k \in DOMAIN events : events[k].project # NoProject =>
                                   events'[k].project # NoProject
    BY <2>1 DEF Backfill
  <2>3. HasEvent(c) => HasEvent(c)'
    BY <2>1 DEF HasEvent
  <2>4. HasEventWithProject(c) => HasEventWithProject(c)'
    BY <2>1, <2>2 DEF HasEventWithProject
  <2>5. PICK k \in DOMAIN events : events[k].hash = r.content
    BY <1>1 DEF HasEvent
  <2>6. HasEvent(r.content)'
    BY <2>1, <2>5 DEF HasEvent
  <2>7. r.project # NoProject => HasEventWithProject(r.content)'
    BY <2>1, <2>5 DEF HasEventWithProject, Backfill
  <2> QED
    BY <2>3, <2>4, <2>6, <2>7
<1>2. CASE ~ HasEvent(r.content)
  <2>1. /\ DOMAIN events' = DOMAIN events \cup {Len(events) + 1}
        /\ \A k \in DOMAIN events : events'[k] = events[k]
        /\ events'[Len(events) + 1] = [hash |-> r.content, project |-> r.project]
    BY <1>2, CapturedEvents
  <2> QED
    BY <2>1 DEF HasEvent, HasEventWithProject
<1> QED
  BY <1>1, <1>2

\* Where hashes are unique, so are the texts whose hash is of the trimmed text.
LEMMA TextsFollowHashes ==
    ASSUME OneRowPerHash'
    PROVE  OneRowPerText'
  BY DEF OneRowPerHash, OneRowPerText, HashOfTrimmed

LEMMA UniqueEvents ==
    ASSUME TypeOK, OneEventPerHash, NEW r \in Command, events' = Captured(r)
    PROVE  OneEventPerHash'
<1>1. CASE HasEvent(r.content)
  <2>1. /\ DOMAIN events' = DOMAIN events
        /\ \A k \in DOMAIN events : events'[k].hash = events[k].hash
    BY <1>1, CapturedEvents
  <2> QED
    BY <2>1 DEF OneEventPerHash
<1>2. CASE ~ HasEvent(r.content)
  <2>1. \A k \in DOMAIN events : events[k].hash # r.content
    BY <1>2 DEF HasEvent
  <2>2. /\ DOMAIN events' = DOMAIN events \cup {Len(events) + 1}
        /\ \A k \in DOMAIN events : events'[k] = events[k]
        /\ events'[Len(events) + 1] = [hash |-> r.content, project |-> r.project]
    BY <1>2, CapturedEvents
  <2> SUFFICES ASSUME NEW k \in DOMAIN events', NEW l \in DOMAIN events',
                      events'[k].hash = events'[l].hash
               PROVE  k = l
    BY DEF OneEventPerHash
  <2>3. CASE k \in DOMAIN events /\ l \in DOMAIN events
    BY <2>2, <2>3 DEF OneEventPerHash
  <2>4. CASE k = Len(events) + 1 \/ l = Len(events) + 1
    BY <2>1, <2>2, <2>4
  <2> QED
    BY <2>2, <2>3, <2>4
<1> QED
  BY <1>1, <1>2

LEMMA LogInvInit == Init => LogInv
  BY TypeInit DEF Init, LogInv, NoDuplicates, OneEventPerHash, OneRowPerHash, OneRowPerText,
     Traceable, Rows, Grounded

LEMMA LogInvStep == LogInv /\ [Next]_vars => LogInv'
<1> SUFFICES ASSUME LogInv, [Next]_vars
             PROVE  NoDuplicates' /\ Traceable'
  BY TypeStep, RowsStable DEF LogInv
<1> USE DEF LogInv, NoDuplicates
<1> DEFINE Same(j) == /\ mem[j] # None /\ mem'[j].hash = mem[j].hash
                      /\ mem'[j].project = mem[j].project
<1>1. ASSUME NEW p \in Proc, InsertMemory(p)
      PROVE  NoDuplicates' /\ Traceable'
  <2>1. PICK r \in Command, at \in Nat, i \in Id :
          StoreRow(r, at, i) /\ events' = Captured(r)
    BY <1>1, Inserted
  <2>2. OneEventPerHash'
    BY <2>1, UniqueEvents
  <2>3. /\ mem'[i] # None /\ mem'[i].hash = r.content
        /\ \A j \in Id \ {i} : mem'[j] = mem[j]
        /\ mem[i] = None => RowsWith(r.content) = {}
        /\ mem[i] # None => mem[i].hash = r.content
        /\ mem'[i].project # NoProject =>
             r.project # NoProject \/ (mem[i] # None /\ mem[i].project # NoProject)
    <3>1. CASE AddRow(r, at, i)
      <4>1. /\ NewRow(r, at) \in Row /\ NewRow(r, at) # None
            /\ NewRow(r, at).hash = r.content /\ NewRow(r, at).project = r.project
        BY NewRowType, StoreAssumption DEF NewRow
      <4>2. RowsWith(r.content) = {} /\ mem' = [mem EXCEPT ![i] = NewRow(r, at)]
        BY <3>1 DEF AddRow, InsertRow
      <4>3. mem[i] = None
        BY <3>1 DEF AddRow, InsertRow, Grounded
      <4> QED
        BY <4>1, <4>2, <4>3 DEF TypeOK
    <3>2. CASE AdoptRow(r, at, i)
      <4>1. mem[i] # None /\ mem[i] \in Row /\ mem[i].hash = r.content
        BY <3>2 DEF AdoptRow, RowsWith, Rows, TypeOK
      <4>2. mem' = [mem EXCEPT ![i] = [mem[i] EXCEPT !.project = Backfill(@, r.project)]]
        BY <3>2 DEF AdoptRow
      <4>3. mem'[i] \in Row
        BY <2>1, StoreRowType, <4>1, <4>2 DEF Row, Backfill, Command, Asked, TypeOK
      <4>4. /\ mem'[i].hash = r.content
            /\ mem'[i].project = Backfill(mem[i].project, r.project)
        BY <4>1, <4>2 DEF TypeOK, Row
      <4> QED
        BY <4>1, <4>2, <4>3, <4>4, StoreAssumption DEF TypeOK, Backfill
    <3> QED
      BY <2>1, <3>1, <3>2 DEF StoreRow
  <2>4. OneRowPerHash'
    BY <2>3 DEF OneRowPerHash, RowsWith, Rows
  <2>5. Traceable'
    <3> SUFFICES ASSUME NEW j \in Id, mem'[j] # None
                 PROVE  /\ HasEvent(mem[j].hash)'
                        /\ mem'[j].project # NoProject => HasEventWithProject(mem[j].hash)'
      BY DEF Traceable, Rows
    <3>1. CASE j = i
      <4>1. mem[i] # None /\ mem[i].project # NoProject => HasEventWithProject(r.content)
        BY <2>3 DEF Traceable, Rows
      <4>2. /\ HasEvent(r.content)'
            /\ HasEventWithProject(r.content) => HasEventWithProject(r.content)'
            /\ r.project # NoProject => HasEventWithProject(r.content)'
        BY <2>1, EventsKept
      <4> QED
        BY <2>3, <3>1, <4>1, <4>2 DEF HasEvent, HasEventWithProject
    <3>2. CASE j # i
      <4>1. /\ mem'[j] = mem[j] /\ HasEvent(mem[j].hash)
            /\ mem[j].project # NoProject => HasEventWithProject(mem[j].hash)
        BY <2>3, <3>2 DEF Traceable, Rows
      <4>2. PICK c : c = mem[j].hash
        OBVIOUS
      <4>3. HasEvent(c)' /\ (HasEventWithProject(c) => HasEventWithProject(c)')
        BY <2>1, <4>1, <4>2, EventsKept
      <4> QED
        BY <4>1, <4>2, <4>3 DEF HasEvent, HasEventWithProject
    <3> QED
      BY <3>1, <3>2
  <2> QED
    BY <2>2, <2>4, <2>5, TextsFollowHashes
<1>2. ASSUME events' = events,
             \A j \in Id : mem'[j] # None => Same(j)
      PROVE  NoDuplicates' /\ Traceable'
  <2>1. OneEventPerHash' /\ OneRowPerHash'
    BY <1>2 DEF OneEventPerHash, OneRowPerHash, Rows
  <2>2. Traceable'
    BY <1>2 DEF Traceable, Rows, HasEvent, HasEventWithProject
  <2> QED
    BY <2>1, <2>2, TextsFollowHashes
<1>3. ASSUME NEW p \in Proc, UpdateMemoryMetadata(p)
      PROVE  \A j \in Id : mem'[j] # None => Same(j)
  <2>1. CASE op[p].target \in Rows
    <3> DEFINE t == op[p].target
               row == [mem[t] EXCEPT !.meta = Merged(op[p].read, op[p].key, op[p].val)]
    <3>1. /\ mem' = [mem EXCEPT ![t] = row] /\ mem[t] # None
          /\ row.hash = mem[t].hash /\ row.project = mem[t].project
      BY <1>3, <2>1 DEF UpdateMemoryMetadata, Rows, TypeOK, Row
    <3> HIDE DEF t, row
    <3> QED
      BY <3>1 DEF TypeOK
  <2>2. CASE op[p].target \notin Rows
    BY <1>3, <2>2 DEF UpdateMemoryMetadata
  <2> QED
    BY <2>1, <2>2
<1>4. ASSUME NEW p \in Proc, Delete(p)
      PROVE  \A j \in Id : mem'[j] # None => Same(j)
  BY <1>4 DEF Delete, TypeOK
<1>5. ASSUME NEW p \in Proc, UpdateMemoryMetadata(p) \/ Delete(p)
      PROVE  events' = events
  BY <1>5 DEF UpdateMemoryMetadata, Delete, KeptEvents
<1>6. CASE UNCHANGED <<mem, minted>> /\ events' = events
  BY <1>2, <1>6
<1> QED
  BY <1>1, <1>2, <1>3, <1>4, <1>5, <1>6, RowSteps, LogSteps

\* However many processes ingest the same content at the same time, and whether they
\* bring a hash or let the store compute one, a hash has one event and at most one row,
\* and a text at most one row among those hashed after trimming.
THEOREM NothingTwice == Spec => []NoDuplicates
  BY LogInvInit, LogInvStep, PTL DEF Spec, LogInv

\* Every row of the memories table has its event in raw_entries, which knows a project
\* when the row does.
THEOREM RowsTraceable == Spec => []Traceable
  BY LogInvInit, LogInvStep, PTL DEF Spec, LogInv
-----------------------------------------------------------------------------
(* The refinement: the log of the store is the log that EventLog promises.   *)

\* The place of a content is the one place where it is.
LEMMA ThePlace ==
    ASSUME NEW s, NEW c, NEW k \in DOMAIN s, s[k].hash = c,
           \A m, l \in DOMAIN s : s[m].hash = s[l].hash => m = l
    PROVE  (CHOOSE j \in DOMAIN s : s[j].hash = c) = k
  OBVIOUS

\* The mapped variables, before and after a step that leaves one event per content.
OriginOf(c) == IF HasEvent(c) THEN events[PlaceOf(c)].project ELSE NoProject

LEMMA PlaceBefore ==
    ASSUME OneEventPerHash, NEW k \in DOMAIN events
    PROVE  HasEvent(events[k].hash) /\ PlaceOf(events[k].hash) = k
  BY ThePlace DEF HasEvent, PlaceOf, OneEventPerHash

LEMMA PlaceAfter ==
    ASSUME OneEventPerHash', NEW k \in DOMAIN events', NEW c, events'[k].hash = c
    PROVE  HasEvent(c)' /\ PlaceOf(c)' = k
  BY ThePlace DEF HasEvent, PlaceOf, OneEventPerHash

LEMMA LogStarts == Init => Log!LogInit
  BY DEF Init, Log!LogInit, PlaceOf, HasEvent

\* A content that already has an event: its provenance is filled in, or nothing changes.
LEMMA LogEnriches ==
    ASSUME LogInv, OneEventPerHash', NEW r \in Command, events' = Captured(r),
           HasEvent(r.content)
    PROVE  Log!Enrich(r.content, r.project) \/ UNCHANGED Log!logVars
<1> USE DEF LogInv, NoDuplicates
<1>1. /\ DOMAIN events' = DOMAIN events
      /\ Len(events') = Len(events)
      /\ \A k \in DOMAIN events : events'[k].hash = events[k].hash
  BY CapturedEvents
<1>2. \A k \in DOMAIN events : events'[k].project =
        IF events[k].hash = r.content
          THEN Backfill(events[k].project, r.project)
          ELSE events[k].project
  BY CapturedEvents
<1>3. \A c \in Content : HasEvent(c)' = HasEvent(c)
  BY <1>1 DEF HasEvent
<1>4. ASSUME NEW c \in Content, HasEvent(c)
      PROVE  /\ PlaceOf(c) \in DOMAIN events /\ events[PlaceOf(c)].hash = c
             /\ PlaceOf(c)' = PlaceOf(c)
  <2>1. PICK k \in DOMAIN events : events[k].hash = c
    BY <1>4 DEF HasEvent
  <2>2. PlaceOf(c) = k
    BY <2>1, PlaceBefore
  <2>3. PlaceOf(c)' = k
    BY <1>1, <2>1, PlaceAfter
  <2> QED
    BY <2>1, <2>2, <2>3
<1>5. \A c \in Content : PlaceOf(c)' = PlaceOf(c)
  <2>1. \A c \in Content : ~ HasEvent(c) => PlaceOf(c) = 0 /\ PlaceOf(c)' = 0
    BY <1>3 DEF PlaceOf
  <2> QED
    BY <1>4, <2>1
<1>6. \A c \in Content :
        OriginOf(c)' = IF c = r.content THEN Backfill(OriginOf(c), r.project)
                                        ELSE OriginOf(c)
  <2> TAKE c \in Content
  <2>1. CASE HasEvent(c)
    <3>1. HasEvent(c)' /\ PlaceOf(c)' = PlaceOf(c)
      BY <1>3, <1>4, <2>1
    <3>2. OriginOf(c)' = events'[PlaceOf(c)].project
      BY <3>1 DEF OriginOf
    <3> QED
      BY <1>2, <1>4, <2>1, <3>2 DEF OriginOf
  <2>2. CASE ~ HasEvent(c)
    BY <1>3, <2>2 DEF OriginOf
  <2> QED
    BY <2>1, <2>2
<1>7. r.content \in Content /\ PlaceOf(r.content) # 0
  <2>1. r.content \in Content
    BY DEF Command, Asked
  <2>2. PlaceOf(r.content) \in 1..Len(events) /\ Len(events) \in Nat
    BY <1>4, <2>1 DEF TypeOK
  <2> QED
    BY <2>1, <2>2
<1>8. CASE OriginOf(r.content) = NoProject
  <2>1. [c \in Content |-> OriginOf(c)'] =
          [[c \in Content |-> OriginOf(c)] EXCEPT ![r.content] = r.project]
    BY <1>6, <1>7, <1>8 DEF Backfill
  <2>2. Log!Enrich(r.content, r.project)
    BY <1>1, <1>5, <1>7, <1>8, <2>1 DEF Log!Enrich, OriginOf
  <2> QED
    BY <2>2
<1>9. CASE OriginOf(r.content) # NoProject
  <2>1. \A c \in Content : OriginOf(c)' = OriginOf(c)
    BY <1>6, <1>9 DEF Backfill
  <2> QED
    BY <1>1, <1>5, <2>1 DEF Log!logVars, OriginOf
<1> QED
  BY <1>8, <1>9

\* A content seen for the first time takes the next place.
LEMMA LogAppends ==
    ASSUME LogInv, OneEventPerHash', NEW r \in Command, events' = Captured(r),
           ~ HasEvent(r.content)
    PROVE  Log!Append(r.content, r.project)
<1> USE DEF LogInv, NoDuplicates
<1> DEFINE n == Len(events)
<1>1. /\ DOMAIN events' = DOMAIN events \cup {n + 1}
      /\ Len(events') = n + 1
      /\ \A k \in DOMAIN events : events'[k] = events[k]
      /\ events'[n + 1] = [hash |-> r.content, project |-> r.project]
  BY CapturedEvents
<1>2. r.content \in Content
  BY DEF Command, Asked
<1> HIDE DEF n
<1>3. PlaceOf(r.content)' = n + 1 /\ OriginOf(r.content)' = r.project
  <2>1. n + 1 \in DOMAIN events' /\ events'[n + 1].hash = r.content
    BY <1>1
  <2>2. HasEvent(r.content)' /\ PlaceOf(r.content)' = n + 1
    BY <2>1, PlaceAfter
  <2> QED
    BY <1>1, <2>2 DEF OriginOf
<1>4. ASSUME NEW c \in Content, c # r.content
      PROVE  PlaceOf(c)' = PlaceOf(c) /\ OriginOf(c)' = OriginOf(c)
  <2>1. CASE HasEvent(c)
    <3>1. PICK k \in DOMAIN events : events[k].hash = c
      BY <2>1 DEF HasEvent
    <3>2. PlaceOf(c) = k
      BY <3>1, PlaceBefore
    <3>3. HasEvent(c)' /\ PlaceOf(c)' = k
      BY <1>1, <3>1, PlaceAfter
    <3> QED
      BY <1>1, <2>1, <3>1, <3>2, <3>3 DEF OriginOf
  <2>2. CASE ~ HasEvent(c)
    <3>1. ~ HasEvent(c)'
      BY <1>1, <1>4, <2>2 DEF HasEvent
    <3> QED
      BY <2>2, <3>1 DEF PlaceOf, OriginOf
  <2> QED
    BY <2>1, <2>2
<1>5. PlaceOf(r.content) = 0
  BY DEF PlaceOf
<1>6. [c \in Content |-> PlaceOf(c)'] =
        [[c \in Content |-> PlaceOf(c)] EXCEPT ![r.content] = n + 1]
  BY <1>2, <1>3, <1>4
<1>7. [c \in Content |-> OriginOf(c)'] =
        [[c \in Content |-> OriginOf(c)] EXCEPT ![r.content] = r.project]
  BY <1>2, <1>3, <1>4
<1> QED
  BY <1>1, <1>2, <1>5, <1>6, <1>7 DEF Log!Append, OriginOf, n

LEMMA LogRefines == LogInv /\ [Next]_vars => [Log!LogNext]_Log!logVars
<1> SUFFICES ASSUME LogInv, [Next]_vars
             PROVE  Log!LogNext \/ UNCHANGED Log!logVars
  OBVIOUS
<1>1. CASE events' = events
  BY <1>1 DEF Log!logVars, PlaceOf, HasEvent
<1>2. ASSUME NEW p \in Proc, InsertMemory(p)
      PROVE  Log!LogNext \/ UNCHANGED Log!logVars
  <2>1. PICK r \in Command : events' = Captured(r)
    BY <1>2, Inserted DEF LogInv
  <2>2. OneEventPerHash'
    BY LogInvStep DEF LogInv, NoDuplicates
  <2>3. r.content \in Content /\ r.project \in Project \cup {NoProject}
    BY DEF Command, Asked, Origin
  <2> QED
    BY <2>1, <2>2, <2>3, LogEnriches, LogAppends DEF Log!LogNext
<1> QED
  BY <1>1, <1>2, LogSteps DEF LogInv

\* The event log is append-only: under every operation, deletes and faults included,
\* no event is lost, moved or stripped of its provenance.
THEOREM StoreImplementsLog == Spec => ImplementsEventLog
  BY LogStarts, LogInvInit, LogInvStep, LogRefines, PTL
  DEF Spec, ImplementsEventLog, Log!LogSpec

-----------------------------------------------------------------------------
(* The full-text index: what is being deleted is out of it before its row   *)
(* goes, and never comes back, because no id is handed out twice.           *)

IndexInv ==
    TypeOK /\ Grounded
    /\ (faults = 0 =>
          /\ fts \subseteq Rows
          /\ \A p \in Proc : op[p].step = "delete" => op[p].target \in minted \ fts
          /\ \A i \in Rows \ fts :
               \E p \in Proc : op[p].step = "delete" /\ op[p].target = i)

LEMMA IndexInvStep == IndexInv /\ [Next]_vars => IndexInv'
<1> SUFFICES ASSUME IndexInv, [Next]_vars, faults' = 0
             PROVE  /\ (fts \subseteq Rows)'
                    /\ \A p \in Proc : op'[p].step = "delete" => op'[p].target \in minted' \ fts'
                    /\ \A i \in Rows' \ fts' :
                         \E p \in Proc : op'[p].step = "delete" /\ op'[p].target = i
  BY TypeStep, RowsStable DEF IndexInv
<1> USE DEF IndexInv
<1>0. TypeOK /\ Grounded /\ TypeOK' /\ Stable
  BY TypeStep, RowsStable
<1>1. faults = 0
  <2>1. faults' = faults \/ faults' = faults + 1
    BY DEF Next, Step, vars, Tick, Ingest, InsertMemory, CheckAndSupersede, MarkSuperseded,
         PatchStatus, UpdateMemoryMetadata, DeleteIndex, Delete, Fault
  <2>2. faults \in Nat
    BY DEF TypeOK
  <2> QED
    BY <2>1, <2>2
\* The rows, the index and the deletes under way stay as they are.
<1>2. ASSUME Rows' = Rows, UNCHANGED <<fts, minted>>,
             \A p \in Proc : op'[p] = op[p] \/ (op[p].step # "delete" /\ op'[p].step # "delete")
      PROVE  /\ (fts \subseteq Rows)'
             /\ \A p \in Proc : op'[p].step = "delete" => op'[p].target \in minted' \ fts'
             /\ \A i \in Rows' \ fts' :
                  \E p \in Proc : op'[p].step = "delete" /\ op'[p].target = i
  BY <1>1, <1>2
<1>3. CASE UNCHANGED vars \/ Tick
  BY <1>2, <1>3 DEF vars, Tick, rowVars, Rows
<1>4. ASSUME NEW p \in Proc,
             (\E r \in Request : Ingest(p, r)) \/ CheckAndSupersede(p) \/ MarkSuperseded(p)
               \/ (\E i \in Id, v \in Status : PatchStatus(p, i, v))
      PROVE  /\ Rows' = Rows /\ UNCHANGED <<fts, minted>>
             /\ \A q \in Proc : op'[q] = op[q] \/ (op[q].step # "delete" /\ op'[q].step # "delete")
  BY <1>0, <1>4 DEF Ingest, CheckAndSupersede, MarkSuperseded, PatchStatus, ReadMetadata, Continue,
       Idle, TypeOK, rowVars, Rows
<1>5. ASSUME NEW p \in Proc, UpdateMemoryMetadata(p)
      PROVE  /\ Rows' = Rows /\ UNCHANGED <<fts, minted>>
             /\ \A q \in Proc : op'[q] = op[q] \/ (op[q].step # "delete" /\ op'[q].step # "delete")
  <2>1. ASSUME NEW i \in Id  PROVE (mem'[i] # None) <=> (mem[i] # None)
    <3>1. CASE op[p].target \in Rows
      <4> DEFINE t == op[p].target
                 row == [mem[t] EXCEPT !.meta = Merged(op[p].read, op[p].key, op[p].val)]
      <4>1. mem' = [mem EXCEPT ![t] = row] /\ t \in Id /\ mem[t] # None
        BY <1>5, <3>1 DEF UpdateMemoryMetadata, Rows
      <4>2. mem'[t] \in Row \cup {None} /\ mem'[t] = row
        BY <1>0, <4>1 DEF TypeOK
      <4>3. mem[t] \in Row
        BY <1>0, <4>1 DEF TypeOK
      <4>4. Merged(op[p].read, op[p].key, op[p].val) \in Meta
        <5>1. op[p] \in Patching
          BY <1>0, <1>5, OperationLocals DEF UpdateMemoryMetadata
        <5> QED
          BY <5>1 DEF Patching, Merged, Meta
      <4>5. row \in Row
        BY <4>3, <4>4 DEF Row
      <4> HIDE DEF row, t
      <4>6. row # None
        BY <4>5, StoreAssumption
      <4> QED
        BY <1>0, <4>1, <4>6 DEF TypeOK
    <3>2. CASE op[p].target \notin Rows
      BY <1>5, <3>2 DEF UpdateMemoryMetadata
    <3> QED
      BY <3>1, <3>2
  <2> QED
    BY <1>0, <1>5, <2>1 DEF UpdateMemoryMetadata, Continue, Idle, TypeOK, Rows
<1>6. ASSUME NEW p \in Proc, InsertMemory(p)
      PROVE  /\ (fts \subseteq Rows)'
             /\ \A q \in Proc : op'[q].step = "delete" => op'[q].target \in minted' \ fts'
             /\ \A i \in Rows' \ fts' :
                  \E q \in Proc : op'[q].step = "delete" /\ op'[q].target = i
  <2>1. op[p].cmd \in Command /\ op[p].at \in Nat
    BY <1>0, <1>6, OperationLocals DEF InsertMemory, Inserting
  <2>2. PICK i \in Id : StoreRow(op[p].cmd, op[p].at, i)
    BY <1>6 DEF InsertMemory
  <2>3. \A q \in Proc : op'[q] = op[q] \/ (op[q].step # "delete" /\ op'[q].step # "delete")
    BY <1>0, <1>6 DEF InsertMemory, Idle, TypeOK
  <2>4. mem'[i] \in Row /\ \A j \in Id \ {i} : mem'[j] = mem[j]
    BY <1>0, <2>1, <2>2, StoreRowStable
  <2>7. mem'[i] # None
    BY <2>4, StoreAssumption
  <2>5. CASE AddRow(op[p].cmd, op[p].at, i)
    <3>1. i \notin minted /\ fts' = fts \cup {i} /\ minted' = minted \cup {i}
      BY <2>5 DEF AddRow, InsertRow
    <3>2. Rows' = Rows \cup {i} /\ i \notin Rows
      BY <1>0, <2>4, <2>7, <3>1 DEF Rows, Grounded
    <3> QED
      BY <1>1, <2>3, <3>1, <3>2
  <2>6. CASE AdoptRow(op[p].cmd, op[p].at, i)
    <3>1. i \in Rows /\ UNCHANGED <<fts, minted>>
      BY <2>6 DEF AdoptRow, RowsWith
    <3>2. Rows' = Rows
      BY <1>0, <2>4, <2>7, <3>1 DEF Rows
    <3> QED
      BY <1>2, <2>3, <3>1, <3>2
  <2> QED
    BY <2>2, <2>5, <2>6 DEF StoreRow
<1>7. ASSUME NEW p \in Proc, NEW i \in Id, DeleteIndex(p, i)
      PROVE  /\ (fts \subseteq Rows)'
             /\ \A q \in Proc : op'[q].step = "delete" => op'[q].target \in minted' \ fts'
             /\ \A j \in Rows' \ fts' :
                  \E q \in Proc : op'[q].step = "delete" /\ op'[q].target = j
  <2>1. /\ i \in Rows /\ Rows' = Rows /\ fts' = fts \ {i} /\ minted' = minted
        /\ op[p].step # "delete" /\ i \in minted
        /\ op' = [op EXCEPT ![p] = [step |-> "delete", target |-> i]]
    BY <1>0, <1>7 DEF DeleteIndex, Unindex, Rows, Idle, Grounded
  <2>2. op'[p].step = "delete" /\ op'[p].target = i /\ \A q \in Proc \ {p} : op'[q] = op[q]
    BY <1>0, <2>1 DEF TypeOK
  <2> QED
    BY <1>1, <2>1, <2>2
<1>8. ASSUME NEW p \in Proc, Delete(p)
      PROVE  /\ (fts \subseteq Rows)'
             /\ \A q \in Proc : op'[q].step = "delete" => op'[q].target \in minted' \ fts'
             /\ \A j \in Rows' \ fts' :
                  \E q \in Proc : op'[q].step = "delete" /\ op'[q].target = j
  <2>1. /\ op[p].step = "delete" /\ op[p].target \in minted \ fts /\ UNCHANGED <<fts, minted>>
        /\ Rows' = Rows \ {op[p].target}
    BY <1>0, <1>1, <1>8 DEF Delete, TypeOK, Rows
  <2>2. op'[p].step # "delete" /\ \A q \in Proc \ {p} : op'[q] = op[q]
    BY <1>0, <1>8 DEF Delete, Idle, TypeOK
  <2> QED
    BY <1>1, <2>1, <2>2
<1>9. ASSUME NEW p \in Proc, Fault(p)
      PROVE  FALSE
  BY <1>1, <1>9 DEF Fault
<1> QED
  BY <1>2, <1>3, <1>4, <1>5, <1>6, <1>7, <1>8, <1>9 DEF Next, Step

\* As long as every statement succeeds, the index has the rows that are not being deleted,
\* and nothing else, however many processes write and delete the same rows.
THEOREM IndexIsTable == Spec => []IndexMatchesRows
<1>1. Init => IndexInv
  BY TypeInit DEF Init, IndexInv, Grounded, Rows, Idle
<1>2. IndexInv => IndexMatchesRows
  BY DEF IndexInv, IndexMatchesRows
<1> QED
  BY <1>1, <1>2, IndexInvStep, PTL DEF Spec

-----------------------------------------------------------------------------
(* The supersede pass of one process is complete.  A pair of rows is either *)
(* marked or still on the way of the one process there is: the row just     *)
(* written has not been compared yet, or the old row waits for its mark.    *)

\* One process, no faults, and every write names its category and its project.
Sequential ==
    /\ \A p, q \in Proc : p = q
    /\ MaxFaults = 0
    /\ \A r \in Request : /\ r.category \in Category /\ r.project \in Project
                          /\ r.dated = None

\* Row j makes row i obsolete.
Obsoletes(j, i) ==
    /\ mem[i].phase \in FactPhase /\ mem[j].phase = mem[i].phase
    /\ mem[j].category = mem[i].category
    /\ mem[j].project = mem[i].project
    /\ mem[i].created < mem[j].created
    /\ Overlap(mem[i].hash, mem[j].hash)

\* Process p has written row j and not yet looked for the rows it makes obsolete.
Compares(p, j) ==
    /\ op[p].step = "list" /\ op[p].id = j
    /\ op[p].cmd.content = mem[j].hash /\ op[p].cmd.phase = mem[j].phase
    /\ op[p].cmd.category = mem[j].category /\ op[p].cmd.project = mem[j].project
    /\ op[p].at = mem[j].created

\* Process p is about to mark row i.
WillMark(p, i) ==
    \/ op[p].step \in {"mark", "patch"} /\ i \in op[p].todo
    \/ op[p].step = "patch" /\ op[p].key = "superseded_by" /\ op[p].target = i

\* What the one process knows at each place of an operation.
Alone(p) ==
    /\ op[p].step = "insert" =>
         /\ op[p].cmd.category \in Category /\ op[p].cmd.project \in Project
         /\ op[p].at <= clock
         /\ \A i \in Rows : mem[i].created <= op[p].at
    /\ op[p].step = "mark" => op[p].id # None
    /\ op[p].step = "patch" =>
         /\ op[p].target \in Rows /\ op[p].read = mem[op[p].target].meta
         /\ op[p].key = "superseded_by" => op[p].val # None
         /\ op[p].todo # {} => op[p].id # None

CompleteInv ==
    /\ TypeOK /\ Grounded /\ faults = 0
    /\ \A i \in Rows : mem[i].project \in Project /\ mem[i].created <= clock
    /\ \A p \in Proc : Alone(p)
    /\ \A i, j \in Rows :
         Obsoletes(j, i) =>
           IsSuperseded(mem[i]) \/ \E p \in Proc : Compares(p, j) \/ WillMark(p, i)

\* With faults = 0 and MaxFaults = 0 nothing fails.
LEMMA OneProcessSteps ==
    ASSUME Sequential, TypeOK, [Next]_vars
    PROVE  \/ UNCHANGED vars \/ Tick
           \/ \E p \in Proc :
                \/ \E r \in Request : Ingest(p, r)
                \/ InsertMemory(p) \/ CheckAndSupersede(p) \/ MarkSuperseded(p)
                \/ \E i \in Id, v \in Status : PatchStatus(p, i, v)
                \/ UpdateMemoryMetadata(p)
                \/ \E i \in Id : DeleteIndex(p, i)
                \/ Delete(p)
<1>1. ASSUME NEW p \in Proc, Fault(p)
      PROVE  FALSE
  BY <1>1 DEF Fault, Sequential, TypeOK
<1> QED
  BY <1>1 DEF Next, Step

\* Adopting a row that has its project changes nothing.
LEMMA AdoptNothing ==
    ASSUME TypeOK, NEW r, NEW at, NEW i \in Id, AdoptRow(r, at, i),
           mem[i].project \in Project
    PROVE  mem' = mem /\ minted' = minted
<1>1. mem[i] \in Row
  BY DEF AdoptRow, RowsWith, Rows, TypeOK
<1>2. [mem[i] EXCEPT !.project = Backfill(@, r.project)] = mem[i]
  BY <1>1, StoreAssumption DEF Row, Backfill
<1> QED
  BY <1>2 DEF AdoptRow, TypeOK

LEMMA CompleteStep == Sequential /\ CompleteInv /\ [Next]_vars => CompleteInv'
<1> SUFFICES ASSUME Sequential, CompleteInv, [Next]_vars
             PROVE  /\ (faults = 0)'
                    /\ (\A i \in Rows : mem[i].project \in Project /\ mem[i].created <= clock)'
                    /\ (\A p \in Proc : Alone(p))'
                    /\ (\A i, j \in Rows :
                          Obsoletes(j, i) =>
                            \/ IsSuperseded(mem[i])
                            \/ \E p \in Proc : Compares(p, j) \/ WillMark(p, i))'
  BY TypeStep, RowsStable DEF CompleteInv
<1> DEFINE Goal == /\ (faults = 0)'
                   /\ (\A i \in Rows : mem[i].project \in Project /\ mem[i].created <= clock)'
                   /\ (\A p \in Proc : Alone(p))'
                   /\ (\A i, j \in Rows :
                         Obsoletes(j, i) =>
                           \/ IsSuperseded(mem[i])
                           \/ \E p \in Proc : Compares(p, j) \/ WillMark(p, i))'
<1>0. /\ TypeOK /\ TypeOK' /\ Grounded /\ Stable
      /\ \A i \in Rows : mem[i].created \in Nat
      /\ clock \in Nat
  BY TypeStep, RowsStable DEF CompleteInv, TypeOK, Rows, Row
<1>p. \A p, q \in Proc : p = q
  BY DEF Sequential
<1>1. CASE UNCHANGED vars
  BY <1>1 DEF vars, rowVars, CompleteInv, Alone, Obsoletes, Compares, WillMark, Rows
<1>2. CASE Tick
  <2>1. clock' = clock + 1 /\ UNCHANGED <<mem, op, faults>> /\ Rows' = Rows
    BY <1>2 DEF Tick, rowVars, Rows
  <2>2. ASSUME NEW p \in Proc  PROVE Alone(p)'
    <3>1. op[p].step = "insert" => op[p].at \in Nat
      BY <1>0, OperationLocals DEF Inserting
    <3> QED
      BY <1>0, <2>1, <3>1 DEF CompleteInv, Alone
  <2> QED
    BY <1>0, <2>1, <2>2 DEF CompleteInv, Obsoletes, Compares, WillMark
\* The steps that leave the table alone and find or leave the process with nothing to do.
<1>3. ASSUME NEW p \in Proc, UNCHANGED <<mem, clock, faults>>, Alone(p)',
             \A i, j \in Rows : (Compares(p, j) \/ WillMark(p, i)) /\ Obsoletes(j, i) =>
                                  IsSuperseded(mem[i]) \/ Compares(p, j)' \/ WillMark(p, i)'
      PROVE  Goal
  <2>1. Rows' = Rows
    BY <1>3 DEF Rows
  <2> QED
    BY <1>3, <1>p, <2>1 DEF CompleteInv, Obsoletes
<1>4. ASSUME NEW p \in Proc, NEW r \in Request, Ingest(p, r)
      PROVE  Goal
  <2>1. /\ UNCHANGED <<mem, clock, faults>> /\ op[p] = Idle
        /\ op'[p] = [step |-> "insert", cmd |-> Gate(r), at |-> clock]
    BY <1>0, <1>4 DEF Ingest, CreatedAt, Sequential, rowVars, TypeOK
  <2>2. /\ Gate(r).category \in Category /\ Gate(r).project \in Project
    <3>1. r \in Asked(Stored \cup {Unknown}) /\ r.category \in Category /\ r.project \in Project
      BY StoreAssumption DEF Sequential
    <3> QED
      BY <3>1, StoreAssumption DEF Gate, Asked, Stored
  <2>3. Rows' = Rows
    BY <2>1 DEF Rows
  <2>4. Alone(p)'
    BY <1>0, <2>1, <2>2, <2>3 DEF Alone, CompleteInv
  <2>5. \A i, j \in Rows : ~ Compares(p, j) /\ ~ WillMark(p, i)
    BY <2>1 DEF Compares, WillMark, Idle
  <2> QED
    BY <1>3, <2>1, <2>4, <2>5
<1>5. ASSUME NEW p \in Proc, InsertMemory(p)
      PROVE  Goal
  <2>1. op[p].step = "insert" /\ op[p].cmd \in Command /\ op[p].at \in Nat
    BY <1>0, <1>5, OperationLocals DEF InsertMemory, Inserting
  <2>2. PICK i \in Id :
          /\ StoreRow(op[p].cmd, op[p].at, i)
          /\ op'[p] = IF op[p].cmd.phase \in FactPhase
                        THEN [step |-> "list", cmd |-> op[p].cmd, at |-> op[p].at, id |-> i]
                        ELSE Idle
    BY <1>0, <1>5 DEF InsertMemory, TypeOK
  <2>3. UNCHANGED <<clock, faults>>
    BY <1>5 DEF InsertMemory
  <2>4. /\ op[p].cmd.category \in Category /\ op[p].cmd.project \in Project
        /\ op[p].at <= clock
        /\ \A k \in Rows : mem[k].created <= op[p].at
    BY <2>1 DEF CompleteInv, Alone
  <2>5. Alone(p)'
    BY <2>2 DEF Alone, Idle
  <2>6. \A k, j \in Rows : ~ Compares(p, j) /\ ~ WillMark(p, k)
    BY <2>1 DEF Compares, WillMark
  <2>7. CASE AdoptRow(op[p].cmd, op[p].at, i)
    <3>1. mem[i].project \in Project
      BY <2>7 DEF AdoptRow, RowsWith, CompleteInv
    <3>2. mem' = mem
      BY <1>0, <2>7, <3>1, AdoptNothing
    <3> QED
      BY <1>3, <2>3, <2>5, <2>6, <3>2
  <2>8. CASE AddRow(op[p].cmd, op[p].at, i)
    <3> DEFINE row == NewRow(op[p].cmd, op[p].at)
    <3>1. /\ i \notin minted /\ i \notin Rows
          /\ mem' = [mem EXCEPT ![i] = row]
      BY <1>0, <2>8 DEF AddRow, InsertRow, Grounded, Rows
    <3>2. /\ row \in Row
          /\ row.hash = op[p].cmd.content /\ row.phase = op[p].cmd.phase
          /\ row.category = op[p].cmd.category /\ row.project = op[p].cmd.project
          /\ row.created = op[p].at
      BY <2>1, <2>4, StoreAssumption, NewRowType DEF NewRow
    <3> HIDE DEF row
    <3>3. row # None
      BY <3>2, StoreAssumption
    <3>4. /\ Rows' = Rows \cup {i} /\ mem'[i] = row
          /\ \A k \in Rows : mem'[k] = mem[k]
      BY <1>0, <3>1, <3>3 DEF Rows, TypeOK
    <3>5. ASSUME NEW j \in Rows', NEW k \in Rows', Obsoletes(j, k)'
          PROVE  IsSuperseded(mem[k])' \/ \E q \in Proc : Compares(q, j)' \/ WillMark(q, k)'
      <4>1. CASE j = i
        <5>1. mem'[j].phase \in FactPhase
          BY <3>5 DEF Obsoletes
        <5>2. op'[p] = [step |-> "list", cmd |-> op[p].cmd, at |-> op[p].at, id |-> i]
          BY <2>2, <3>2, <3>4, <4>1, <5>1
        <5>3. Compares(p, j)'
          BY <3>2, <3>4, <4>1, <5>2 DEF Compares
        <5> QED
          BY <5>3
      <4>2. CASE j # i /\ k = i
        <5>1. j \in Rows /\ mem'[j] = mem[j] /\ mem'[k].created = op[p].at
          BY <3>2, <3>4, <4>2
        <5> QED
          BY <1>0, <2>1, <2>4, <3>5, <5>1 DEF Obsoletes
      <4>3. CASE j # i /\ k # i
        <5>1. j \in Rows /\ k \in Rows /\ mem'[j] = mem[j] /\ mem'[k] = mem[k]
          BY <3>4, <4>3
        <5>2. Obsoletes(j, k)
          BY <3>5, <5>1 DEF Obsoletes
        <5>3. IsSuperseded(mem[k])
          BY <1>p, <2>6, <5>1, <5>2 DEF CompleteInv
        <5> QED
          BY <5>1, <5>3 DEF IsSuperseded
      <4> QED
        BY <4>1, <4>2, <4>3
    <3>6. \A k \in Rows' : mem'[k].project \in Project /\ mem'[k].created <= clock'
      BY <2>3, <2>4, <3>2, <3>4 DEF CompleteInv
    <3>7. faults' = 0
      BY <2>3 DEF CompleteInv
    <3> QED
      BY <1>p, <2>5, <3>5, <3>6, <3>7
  <2> QED
    BY <2>2, <2>7, <2>8 DEF StoreRow
<1>6. ASSUME NEW p \in Proc, CheckAndSupersede(p)
      PROVE  Goal
  <2>1. op[p] \in Listing /\ op[p].step = "list"
    BY <1>0, <1>6, OperationLocals DEF CheckAndSupersede
  <2> DEFINE todo == Candidates(op[p].cmd, op[p].at, op[p].id)
  <2>2. UNCHANGED <<mem, clock, faults>> /\ op'[p] = Continue(op[p].id, todo)
    BY <1>0, <1>6 DEF CheckAndSupersede, rowVars, TypeOK
  <2>3. Alone(p)'
    <3>1. op[p].id \in Id /\ op[p].id # None
      BY <2>1, StoreAssumption DEF Listing
    <3> HIDE DEF todo
    <3>2. CASE todo = {}
      BY <2>2, <3>2 DEF Continue, Idle, Alone
    <3>3. CASE todo # {}
      <4>1. op'[p] = [step |-> "mark", id |-> op[p].id, todo |-> todo]
        BY <2>2, <3>3 DEF Continue
      <4> QED
        BY <3>1, <4>1 DEF Alone
    <3> QED
      BY <3>2, <3>3
  <2>4. ASSUME NEW i \in Rows, NEW j \in Rows, Compares(p, j), Obsoletes(j, i)
        PROVE  IsSuperseded(mem[i]) \/ WillMark(p, i)'
    <3>1. mem[i].created < mem[j].created /\ i # j
      BY <1>0, <2>4 DEF Obsoletes
    <3>2. IsSuperseded(mem[i]) \/ i \in todo
      BY <2>4, <3>1 DEF Candidates, CandidatesWithSelf, Older, Compares, Obsoletes
    <3> QED
      BY <2>2, <3>2 DEF Continue, WillMark
  <2>5. \A i \in Rows : ~ WillMark(p, i)
    BY <2>1 DEF WillMark
  <2> HIDE DEF todo
  <2> QED
    BY <1>3, <2>2, <2>3, <2>4, <2>5
<1>7. ASSUME NEW p \in Proc, MarkSuperseded(p)
      PROVE  Goal
  <2>1. op[p] \in Marking /\ op[p].step = "mark" /\ op[p].id # None
    BY <1>0, <1>7, OperationLocals DEF MarkSuperseded, CompleteInv, Alone
  <2>2. PICK old \in op[p].todo :
          ReadMetadata(p, old, "superseded_by", op[p].id, op[p].id, op[p].todo \ {old})
    BY <1>7 DEF MarkSuperseded
  <2>3. UNCHANGED <<mem, clock, faults>>
    BY <1>7 DEF MarkSuperseded, rowVars
  <2>4. CASE old \in Rows
    <3>1. op'[p] = [step |-> "patch", target |-> old, key |-> "superseded_by",
                    val |-> op[p].id, read |-> mem[old].meta, id |-> op[p].id,
                    todo |-> op[p].todo \ {old}]
      BY <1>0, <2>2, <2>4 DEF ReadMetadata, TypeOK
    <3>2. Alone(p)'
      BY <2>1, <2>3, <2>4, <3>1 DEF Alone, Rows
    <3>3. \A i, j \in Rows : ~ Compares(p, j) /\ (WillMark(p, i) => WillMark(p, i)')
      BY <2>1, <3>1 DEF Compares, WillMark
    <3> QED
      BY <1>3, <2>3, <3>2, <3>3
  <2>5. CASE old \notin Rows
    <3>1. op'[p] = Continue(op[p].id, op[p].todo \ {old})
      BY <1>0, <2>2, <2>5 DEF ReadMetadata, TypeOK
    <3>2. Alone(p)'
      BY <2>1, <3>1 DEF Alone, Continue, Idle
    <3>3. \A i, j \in Rows : ~ Compares(p, j) /\ (WillMark(p, i) => WillMark(p, i)')
      BY <2>1, <2>5, <3>1 DEF Compares, WillMark, Continue
    <3> QED
      BY <1>3, <2>3, <3>2, <3>3
  <2> QED
    BY <2>4, <2>5
<1>8. ASSUME NEW p \in Proc, NEW i \in Id, NEW v \in Status, PatchStatus(p, i, v)
      PROVE  Goal
  <2>1. /\ op[p] = Idle /\ i \in Rows /\ UNCHANGED <<mem, clock, faults>>
        /\ op'[p] = [step |-> "patch", target |-> i, key |-> "status", val |-> v,
                     read |-> mem[i].meta, id |-> None, todo |-> {}]
    BY <1>0, <1>8 DEF PatchStatus, ReadMetadata, TypeOK, rowVars
  <2>2. Alone(p)'
    BY <2>1 DEF Alone, Rows
  <2>3. \A k, j \in Rows : ~ Compares(p, j) /\ ~ WillMark(p, k)
    BY <2>1 DEF Compares, WillMark, Idle
  <2> QED
    BY <1>3, <2>1, <2>2, <2>3
<1>9. ASSUME NEW p \in Proc, UpdateMemoryMetadata(p)
      PROVE  Goal
  <2> DEFINE o == op[p]
             row == [mem[o.target] EXCEPT !.meta = Merged(o.read, o.key, o.val)]
  <2>1. o \in Patching /\ o.step = "patch"
    BY <1>0, <1>9, OperationLocals DEF UpdateMemoryMetadata
  <2>2. /\ o.target \in Rows /\ o.read = mem[o.target].meta
        /\ o.key = "superseded_by" => o.val # None
        /\ o.todo # {} => o.id # None
    BY <2>1 DEF CompleteInv, Alone
  <2>3. /\ mem' = [mem EXCEPT ![o.target] = row] /\ UNCHANGED <<clock, faults>>
        /\ op'[p] = Continue(o.id, o.todo)
    BY <1>0, <1>9, <2>2 DEF UpdateMemoryMetadata, TypeOK
  <2>4. mem[o.target] \in Row
    BY <1>0, <2>2 DEF TypeOK, Rows
  <2>5. Merged(o.read, o.key, o.val) \in Meta
    BY <2>1 DEF Patching, Merged, Meta
  <2>6. /\ row \in Row
        /\ row.hash = mem[o.target].hash /\ row.phase = mem[o.target].phase
        /\ row.category = mem[o.target].category /\ row.project = mem[o.target].project
        /\ row.created = mem[o.target].created
        /\ row.meta = Merged(o.read, o.key, o.val)
    BY <2>4, <2>5 DEF Row
  <2>7. IsSuperseded(row) \/ (row.meta["superseded_by"] = mem[o.target].meta["superseded_by"]
                              /\ o.key # "superseded_by")
    BY <2>1, <2>2, <2>4, <2>6 DEF Merged, IsSuperseded, Row, Meta, Key
  <2> HIDE DEF row
  <2>8. row # None
    BY <2>6, StoreAssumption
  <2>9. /\ Rows' = Rows /\ mem'[o.target] = row
        /\ \A k \in Rows \ {o.target} : mem'[k] = mem[k]
    BY <1>0, <2>2, <2>3, <2>8 DEF Rows, TypeOK
  <2>10. Alone(p)'
    BY <2>2, <2>3 DEF Alone, Continue, Idle
  <2>11. \A k \in Rows' : mem'[k].project \in Project /\ mem'[k].created <= clock'
    BY <2>2, <2>3, <2>6, <2>9 DEF CompleteInv
  <2>12. ASSUME NEW i \in Rows', NEW j \in Rows', Obsoletes(j, i)'
         PROVE  IsSuperseded(mem[i])' \/ \E q \in Proc : Compares(q, j)' \/ WillMark(q, i)'
    <3>1. Obsoletes(j, i)
      <4>1. \A k \in Rows : /\ mem'[k].hash = mem[k].hash /\ mem'[k].phase = mem[k].phase
                            /\ mem'[k].category = mem[k].category
                            /\ mem'[k].project = mem[k].project
                            /\ mem'[k].created = mem[k].created
        BY <2>6, <2>9
      <4> QED
        BY <2>9, <2>12, <4>1 DEF Obsoletes
    <3>2. IsSuperseded(mem[i]) \/ WillMark(p, i)
      BY <1>p, <2>1, <2>9, <3>1 DEF CompleteInv, Compares
    <3>3. CASE i = o.target
      BY <2>3, <2>7, <2>9, <3>2, <3>3 DEF WillMark, Continue, IsSuperseded
    <3>4. CASE i # o.target
      <4>1. mem'[i] = mem[i]
        BY <2>9, <3>4
      <4>2. WillMark(p, i) => WillMark(p, i)'
        BY <2>3, <3>4 DEF WillMark, Continue
      <4> QED
        BY <3>2, <4>1, <4>2 DEF IsSuperseded
    <3> QED
      BY <3>3, <3>4
  <2> QED
    BY <1>p, <2>3, <2>10, <2>11, <2>12 DEF CompleteInv
<1>10. ASSUME NEW p \in Proc, NEW i \in Id, DeleteIndex(p, i)
       PROVE  Goal
  <2>1. /\ op[p] = Idle /\ UNCHANGED <<mem, clock, faults>>
        /\ op'[p] = [step |-> "delete", target |-> i]
    BY <1>0, <1>10 DEF DeleteIndex, Unindex, TypeOK
  <2>2. Alone(p)'
    BY <2>1 DEF Alone
  <2>3. \A k, j \in Rows : ~ Compares(p, j) /\ ~ WillMark(p, k)
    BY <2>1 DEF Compares, WillMark, Idle
  <2> QED
    BY <1>3, <2>1, <2>2, <2>3
<1>11. ASSUME NEW p \in Proc, Delete(p)
       PROVE  Goal
  <2>1. /\ op[p].step = "delete" /\ mem' = [mem EXCEPT ![op[p].target] = None]
        /\ op'[p] = Idle /\ UNCHANGED <<clock, faults>>
    BY <1>0, <1>11 DEF Delete, TypeOK
  <2>2. Rows' \subseteq Rows /\ \A k \in Rows' : mem'[k] = mem[k]
    BY <1>0, <2>1 DEF Rows, TypeOK
  <2>3. Alone(p)'
    BY <2>1 DEF Alone, Idle
  <2>4. \A k, j \in Rows : Obsoletes(j, k) => IsSuperseded(mem[k])
    BY <1>p, <2>1 DEF CompleteInv, Compares, WillMark
  <2> QED
    BY <1>p, <2>1, <2>2, <2>3, <2>4 DEF CompleteInv, Obsoletes, IsSuperseded
<1> HIDE DEF Goal
<1>12. Goal
  BY <1>0, <1>4, <1>5, <1>6, <1>7, <1>8, <1>9, <1>10, <1>11, <1>1, <1>2, OneProcessSteps DEF Goal
<1> QED
  BY <1>12 DEF Goal

\* With one process, no faults and every write naming its category and project, of two
\* facts of one phase, category and project that share enough terms the older one is
\* marked whenever the writer is idle, however many rows, patches and deletes there were.
THEOREM PassIsComplete == Sequential => (Spec => []SupersedeComplete)
<1>1. Init => CompleteInv
  BY TypeInit DEF Init, CompleteInv, Grounded, Rows, Alone, Idle
<1>2. CompleteInv => SupersedeComplete
  BY DEF CompleteInv, SupersedeComplete, Obsoletes, Compares, WillMark, Idle
<1> SUFFICES ASSUME Sequential
             PROVE  Spec => []SupersedeComplete
  OBVIOUS
<1>3. CompleteInv /\ [Next]_vars => CompleteInv'
  BY CompleteStep
<1> QED
  BY <1>1, <1>2, <1>3, PTL DEF Spec
=============================================================================
