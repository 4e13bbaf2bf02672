--------------------------- MODULE CurationProofs ---------------------------
(***************************************************************************)
(* Theorems about Curation: what consolidation and enrichment may never do *)
(* to the memories, for every sequence of arrivals, every answer of the    *)
(* model, every batch size and every number of faults.                     *)
(***************************************************************************)
EXTENDS Curation, SequenceTheorems, WellFoundedInduction, TLAPS

-----------------------------------------------------------------------------
(* Types *)

\* The locals of the two tasks.
Group == [project : Project, ids : SUBSET Nat]
Task ==
    [step : {"idle", "next", "dups", "merge", "write", "project", "written", "mark"},
     phase : {"A", "B"}, todo : SUBSET Group, project : Project \cup {NoProject},
     ids : SUBSET Nat, writes : SUBSET (SUBSET Nat), written : Nat, marks : SUBSET Nat]
Run == [step : {"idle", "next", "tag", "mark"}, pending : SUBSET Nat, batch : SUBSET Nat,
        given : SUBSET Nat]

\* ... name rows of the table only.
NamesRows ==
    /\ \A g \in task.todo : g.ids \subseteq Ids
    /\ \A s \in task.writes : s \subseteq Ids
    /\ task.ids \subseteq Ids /\ task.marks \subseteq Ids
    /\ task.written \in Ids \cup {0} /\ (task.step = "project" => task.written \in Ids)
    /\ topics \subseteq Ids /\ enr.pending \subseteq Ids /\ enr.batch \subseteq Ids
    /\ enr.given \subseteq Ids /\ excused \subseteq Ids

CurationTypeInv ==
    /\ mem \in Seq(Row)
    /\ task \in Task /\ enr \in Run
    /\ errors \in Nat /\ faults \in 0 .. MaxFaults /\ errors <= faults
    /\ NamesRows
    /\ turn \in {"consolidate-llm", "enrich-tags"}
    /\ turn = "consolidate-llm" => enr = EnrIdle
    /\ turn = "enrich-tags" => task.step = "idle"

-----------------------------------------------------------------------------
(* Lemmas about the operators *)

\* A set of ids that is not empty has a first one.
LEMMA FirstIsOne ==
    ASSUME NEW S \in SUBSET Nat, S # {}
    PROVE  First(S) \in S
<1>1. \E i \in S : \A j \in S : ~ (<<j, i>> \in OpToRel(<, Nat))
  BY NatLessThanWellFounded, WFMin
<1>2. \A i, j \in Nat : j < i => <<j, i>> \in OpToRel(<, Nat)
  <2>1. OpToRel(<, Nat) = {ss \in Nat \X Nat : ss[1] < ss[2]}
    BY Zenon DEF OpToRel
  <2> QED
    BY <2>1
<1>3. \E i \in S : \A j \in S : ~ (j < i)
  BY <1>1, <1>2
<1>4. \E i \in S : \A j \in S : i <= j
  BY <1>3
<1> QED
  BY <1>4 DEF First

\* What a step may do to the table: rows are added, keep their text, keep their marks, and
\* keep their phase unless someone deletes them.
Kept ==
    /\ mem' \in Seq(Row) /\ Ids \subseteq Ids'
    /\ \A i \in Ids : /\ mem'[i].text = mem[i].text
                      /\ mem[i].marks \subseteq mem'[i].marks
                      /\ mem'[i].phase = mem[i].phase \/ Delete(i)
    /\ \A i \in Ids' \ Ids : mem'[i].marks = {}
    /\ excused \subseteq excused' /\ forgotten \subseteq forgotten'

LEMMA KeptSame ==
    ASSUME mem \in Seq(Row), mem' = mem, excused \subseteq excused', forgotten' = forgotten
    PROVE  Kept
  BY DEF Kept, Ids

\* One row is replaced, if it is there.
LEMMA RowReplaced ==
    ASSUME mem \in Seq(Row), NEW i, NEW row, i \in Ids => row \in Row,
           mem' = [mem EXCEPT ![i] = row]
    PROVE  /\ mem' \in Seq(Row) /\ Ids' = Ids
           /\ \A j \in Ids : mem'[j] = IF j = i THEN row ELSE mem[j]
<1>1. CASE i \in Ids
  BY <1>1, ExceptSeq DEF Ids
<1>2. CASE i \notin Ids
  <2>1. mem \in [1 .. Len(mem) -> Row] /\ DOMAIN mem = 1 .. Len(mem)
    OBVIOUS
  <2>2. [mem EXCEPT ![i] = row] = mem
    BY <1>2, <2>1 DEF Ids
  <2> QED
    BY <1>2, <2>2 DEF Ids
<1> QED
  BY <1>1, <1>2

LEMMA KeptMarked ==
    ASSUME mem \in Seq(Row), NEW i, NEW m \in {"consolidate-llm", "enrich-tags"},
           mem' = [mem EXCEPT ![i].marks = @ \cup {m}],
           UNCHANGED <<excused, forgotten>>
    PROVE  Kept /\ Ids' = Ids /\ \A j \in Ids \ {i} : mem'[j] = mem[j]
<1> DEFINE row == [mem[i] EXCEPT !.marks = @ \cup {m}]
<1>1. mem' = [mem EXCEPT ![i] = row]
  OBVIOUS
<1>2. ASSUME i \in Ids
      PROVE  /\ row \in Row /\ row.text = mem[i].text /\ row.phase = mem[i].phase
             /\ mem[i].marks \subseteq row.marks
  <2>1. mem[i] \in Row
    BY <1>2 DEF Ids
  <2> QED
    BY <2>1 DEF Row
<1> HIDE DEF row
<1>3. /\ mem' \in Seq(Row) /\ Ids' = Ids
      /\ \A j \in Ids : mem'[j] = IF j = i THEN row ELSE mem[j]
  <2>1. PICK new, old : new = row /\ old = i
    OBVIOUS
  <2>2. (old \in Ids => new \in Row) /\ mem' = [mem EXCEPT ![old] = new]
    BY <1>1, <1>2, <2>1
  <2>3. /\ mem' \in Seq(Row) /\ Ids' = Ids
        /\ \A j \in Ids : mem'[j] = IF j = old THEN new ELSE mem[j]
    BY ONLY mem \in Seq(Row), <2>2, RowReplaced
  <2> QED
    BY <2>1, <2>3
<1> QED
  BY <1>2, <1>3 DEF Kept

LEMMA KeptAppended ==
    ASSUME mem \in Seq(Row), NEW row \in Row, row.marks = {}, mem' = Append(mem, row),
           excused \subseteq excused', forgotten' = forgotten
    PROVE  Kept /\ Ids' = Ids \cup {Len(mem) + 1} /\ mem'[Len(mem) + 1] = row
           /\ \A i \in Ids : mem'[i] = mem[i]
<1>1. /\ DOMAIN mem = 1 .. Len(mem) /\ Len(mem) \in Nat
      /\ DOMAIN mem' = 1 .. (Len(mem) + 1)
      /\ mem' \in Seq(Row) /\ mem'[Len(mem) + 1] = row
      /\ \A i \in DOMAIN mem : mem'[i] = mem[i]
  OBVIOUS
<1>2. Ids' = Ids \cup {Len(mem) + 1}
  BY <1>1 DEF Ids
<1> QED
  BY <1>1, <1>2 DEF Kept, Ids

LEMMA KeptStep ==
    ASSUME CurationTypeInv, [CurationNext]_allVars
    PROVE  Kept
<1> USE DEF CurationTypeInv
<1>1. ASSUME mem' = mem, excused \subseteq excused', forgotten' = forgotten
      PROVE  Kept
  BY <1>1, KeptSame
<1>2. CASE Mark
  BY <1>1, <1>2, KeptMarked DEF Mark, MarkConsumed, Consumer, RestUnchanged
<1>3. CASE MarkWritten
  BY <1>1, <1>3, KeptMarked DEF MarkWritten, MarkConsumed, Consumer, RestUnchanged
<1>4. CASE EnrichMark /\ UNCHANGED <<excused, forgotten>>
  BY <1>1, <1>4, KeptMarked DEF EnrichMark, Bit
<1>5. CASE setProjectOnMemory
  <2> DEFINE i == task.written
             row == [mem[i] EXCEPT !.project = task.project]
  <2>1. CASE mem' = [mem EXCEPT ![i] = row]
    <3>1. ASSUME i \in Ids
          PROVE  /\ row \in Row /\ row.text = mem[i].text /\ row.phase = mem[i].phase
                 /\ mem[i].marks = row.marks
      <4>1. mem[i] \in Row
        BY <3>1 DEF Ids
      <4> QED
        BY <4>1 DEF Row, Task
    <3>2. UNCHANGED <<excused, forgotten>>
      BY <1>5 DEF setProjectOnMemory, RestUnchanged
    <3> HIDE DEF row, i
    <3>3. /\ mem' \in Seq(Row) /\ Ids' = Ids
          /\ \A j \in Ids : mem'[j] = IF j = i THEN row ELSE mem[j]
      <4>1. PICK new, old : new = row /\ old = i
        OBVIOUS
      <4>2. (old \in Ids => new \in Row) /\ mem' = [mem EXCEPT ![old] = new]
        BY <2>1, <3>1, <4>1
      <4>3. /\ mem' \in Seq(Row) /\ Ids' = Ids
            /\ \A j \in Ids : mem'[j] = IF j = old THEN new ELSE mem[j]
        BY <4>2, RowReplaced
      <4> QED
        BY <4>1, <4>3
    <3> QED
      BY <3>1, <3>2, <3>3 DEF Kept
  <2> QED
    BY <1>1, <1>5, <2>1 DEF setProjectOnMemory, RestUnchanged
<1>6. CASE Write
  <2>1. PICK s \in task.writes :
          \/ mem' = mem /\ excused \subseteq excused'
          \/ /\ mem' = Append(mem, [text |-> UNION {mem[i].text : i \in s}, phase |-> "organized",
                                    project |-> NoProject, marks |-> {}])
             /\ excused' = excused
    BY <1>6 DEF Write
  <2>2. UNION {mem[i].text : i \in s} \in SUBSET Fact
    <3>1. \A i \in s : mem[i] \in Row
      BY DEF NamesRows, Ids
    <3> QED
      BY <3>1 DEF Row
  <2>3. [text |-> UNION {mem[i].text : i \in s}, phase |-> "organized",
         project |-> NoProject, marks |-> {}] \in Row
    BY <2>2 DEF Row
  <2> QED
    BY <1>1, <1>6, <2>1, <2>3, KeptAppended DEF Write
<1>7. ASSUME NEW n \in DOMAIN Arrival, Arrive(n)
      PROVE  Kept
  <2>1. Arrival[n] \in Row /\ Arrival[n].marks = {}
    BY ConsolidationAssumption
  <2> QED
    BY <1>7, <2>1, KeptAppended DEF Arrive, RestUnchanged
<1>8. ASSUME NEW i \in Ids, Delete(i)
      PROVE  Kept
  <2> DEFINE row == [mem[i] EXCEPT !.phase = "deleted"]
  <2>1. mem[i] \in Row
    BY DEF Ids
  <2>2. row \in Row /\ row.text = mem[i].text /\ row.marks = mem[i].marks
    BY <2>1 DEF Row
  <2>3. mem' = [mem EXCEPT ![i] = row] /\ excused' = excused /\ forgotten \subseteq forgotten'
    BY <1>8 DEF Delete
  <2> HIDE DEF row
  <2>4. /\ mem' \in Seq(Row) /\ Ids' = Ids
        /\ \A j \in Ids : mem'[j] = IF j = i THEN row ELSE mem[j]
    <3>1. PICK new, old : new = row /\ old = i
      OBVIOUS
    <3>2. (old \in Ids => new \in Row) /\ mem' = [mem EXCEPT ![old] = new]
      BY <2>2, <2>3, <3>1
    <3>3. /\ mem' \in Seq(Row) /\ Ids' = Ids
          /\ \A j \in Ids : mem'[j] = IF j = old THEN new ELSE mem[j]
      BY <3>2, RowReplaced
    <3> QED
      BY <3>1, <3>3
  <2> QED
    BY <1>8, <2>2, <2>3, <2>4 DEF Kept
<1>9. CASE NextGroup \/ \E out \in Answers(task.ids) : Merge(out)
  BY <1>1, <1>9 DEF NextGroup, Merge
<1>10. CASE \/ ListProcessed \/ ListOrganized \/ Done \/ EndMarks \/ EndWrites
            \/ MarkFails \/ MergeFails \/ WriteFails \/ setProjectFails
  BY <1>1, <1>10 DEF ListProcessed, ListOrganized, Done, EndMarks, EndWrites, MarkFails,
     MergeFails, WriteFails, setProjectFails, TablesUnchanged, Fails
<1>11. CASE EnrichFails \/ KillDaemon \/ UNCHANGED allVars
  BY <1>1, <1>11 DEF EnrichFails, ConceptTagsFails, TagFails, KillDaemon, allVars, vars
<1>12. CASE Enrich
  BY <1>1, <1>4, <1>12 DEF Enrich, EnrichStep, EnrichList, EnrichDone, ConceptTags, Tag, EnrichNext
<1> QED
  BY <1>2, <1>3, <1>5, <1>6, <1>7, <1>8, <1>9, <1>10, <1>11, <1>12
  DEF CurationNext, Consolidate, Step, Others

-----------------------------------------------------------------------------
(* Type correctness, step by step *)

\* The first names of a list are names of the list.
LEMMA NewestOf ==
    ASSUME NEW ids, NEW n
    PROVE  Newest(ids, n) \subseteq ids
  BY DEF Newest

\* The rows a task has named stay where they are.
LEMMA NamesKept ==
    ASSUME CurationTypeInv, Kept, UNCHANGED <<task, topics, enr, excused>>
    PROVE  NamesRows'
  BY DEF CurationTypeInv, Kept, NamesRows

LEMMA ConsolidateTypes ==
    ASSUME CurationTypeInv, Kept, Step \/ MarkFails \/ MergeFails \/ WriteFails \/ setProjectFails,
           UNCHANGED <<topics, enr>>
    PROVE  task' \in Task /\ NamesRows'
<1> USE DEF CurationTypeInv
<1>0. Ids \subseteq Nat /\ Ids \subseteq Ids' /\ (excused' \subseteq Ids => excused' \subseteq Ids')
  BY DEF Kept, Ids
<1>1. CASE ListProcessed
  <2> DEFINE groups == {p \in Project : Cardinality(Of(p, codeDedup(Unconsolidated))) >= 2}
             batches == UNION {{[project |-> p, ids |-> b] :
                                  b \in Batches(Of(p, codeDedup(Unconsolidated)))} : p \in groups}
  <2>1. \A p \in Project : \A b \in Batches(Of(p, codeDedup(Unconsolidated))) : b \subseteq Ids
    BY DEF Batches, Of, codeDedup, Unconsolidated, InPhase
  <2>2. batches \subseteq Group /\ \A g \in batches : g.ids \subseteq Ids
    <3> SUFFICES ASSUME NEW g \in batches
                 PROVE  g \in Group /\ g.ids \subseteq Ids
      OBVIOUS
    <3>0. PICK p \in groups : \E b \in Batches(Of(p, codeDedup(Unconsolidated))) :
                               g = [project |-> p, ids |-> b]
      OBVIOUS
    <3>1. PICK b \in Batches(Of(p, codeDedup(Unconsolidated))) : g = [project |-> p, ids |-> b]
      BY <3>0
    <3>2. p \in Project /\ b \subseteq Ids
      BY <2>1, <3>1
    <3> QED
      BY <1>0, <3>1, <3>2 DEF Group
  <2>3. task' = [Idle EXCEPT !.step = "next", !.todo = batches] /\ excused' = excused
    BY <1>1 DEF ListProcessed, TablesUnchanged
  <2> HIDE DEF batches
  <2>4. /\ task'.todo = batches /\ task' \in Task /\ task'.writes = {} /\ task'.ids = {}
        /\ task'.marks = {} /\ task'.written = 0 /\ task'.step = "next"
    BY <2>2, <2>3 DEF Idle, Task
  <2> QED
    BY <1>0, <2>2, <2>3, <2>4 DEF NamesRows
<1>2. CASE ListOrganized
  <2>1. PICK top \in SUBSET Ranked :
          task' = [Idle EXCEPT !.step = "next", !.phase = "B", !.todo =
              IF Cardinality(InPhase("organized")) < MinOrganized THEN {}
              ELSE {[project |-> p, ids |-> Of(p, InPhase("organized"))] : p \in top}]
    BY <1>2 DEF ListOrganized
  <2>2. PICK todo :
          /\ todo = IF Cardinality(InPhase("organized")) < MinOrganized THEN {}
                    ELSE {[project |-> p, ids |-> Of(p, InPhase("organized"))] : p \in top}
          /\ task' = [Idle EXCEPT !.step = "next", !.phase = "B", !.todo = todo]
    BY <2>1
  <2>3. top \subseteq Project /\ \A p : Of(p, InPhase("organized")) \subseteq Ids
    BY DEF Ranked, Of, InPhase
  <2>4. todo \subseteq Group /\ \A g \in todo : g.ids \subseteq Ids
    BY <1>0, <2>2, <2>3 DEF Group
  <2>5. task'.todo = todo /\ task' \in Task /\ task'.writes = {} /\ task'.ids = {}
        /\ task'.marks = {} /\ task'.written = 0 /\ task'.step = "next"
    BY <2>2, <2>4 DEF Idle, Task
  <2>6. excused' = excused
    BY <1>2 DEF ListOrganized, TablesUnchanged
  <2> QED
    BY <1>0, <2>4, <2>5, <2>6 DEF NamesRows
<1>3. CASE NextGroup
  <2>1. PICK g \in task.todo, kept \in SUBSET Nat, few \in BOOLEAN :
          /\ kept \subseteq g.ids
          /\ task' = [task EXCEPT !.todo = @ \ {g}, !.project = g.project,
                        !.step = IF few THEN "mark" ELSE "dups",
                        !.ids = IF few THEN {} ELSE kept, !.marks = g.ids \ kept]
          /\ excused' = excused \cup (g.ids \ kept)
    <3>1. PICK g \in task.todo :
            LET kept == IF task.phase = "A" THEN g.ids ELSE codeDedup(g.ids)
                few == task.phase = "B" /\ Cardinality(kept) < MinMerge
            IN  /\ task' = [task EXCEPT !.todo = @ \ {g}, !.project = g.project,
                              !.step = IF few THEN "mark" ELSE "dups",
                              !.ids = IF few THEN {} ELSE kept, !.marks = g.ids \ kept]
                /\ excused' = excused \cup (g.ids \ kept)
      BY <1>3 DEF NextGroup
    <3>2. codeDedup(g.ids) \subseteq g.ids
      BY DEF codeDedup
    <3>3. g.ids \subseteq Nat
      BY DEF Task, Group
    <3> DEFINE kept == IF task.phase = "A" THEN g.ids ELSE codeDedup(g.ids)
               few == task.phase = "B" /\ Cardinality(kept) < MinMerge
    <3>4. kept \in SUBSET Nat /\ few \in BOOLEAN /\ kept \subseteq g.ids
      BY <3>2, <3>3
    <3> QED
      BY <3>1, <3>4
  <2>2. g \in Group /\ g.ids \subseteq Ids
    BY DEF Task, NamesRows
  <2>3. task' \in Task
    BY <2>1, <2>2 DEF Task, Group
  <2>4. /\ task'.todo \subseteq task.todo /\ task'.writes = task.writes
        /\ task'.ids \subseteq g.ids /\ task'.marks \subseteq g.ids
        /\ task'.written = task.written /\ task'.step # "project"
    BY <2>1 DEF Task
  <2> QED
    BY <1>0, <2>1, <2>2, <2>3, <2>4 DEF NamesRows
<1>4. CASE Done
  BY <1>0, <1>4 DEF Done, TablesUnchanged, Idle, Task, NamesRows
<1>5. CASE Mark \/ MarkFails
  <2>1. task' = [task EXCEPT !.marks = @ \ {First(@)}] /\ excused' = excused
        /\ task.step \in {"dups", "mark"}
    BY <1>5 DEF Mark, MarkFails, RestUnchanged, Fails
  <2> QED
    BY <1>0, <2>1 DEF Task, NamesRows
<1>6. CASE EndMarks \/ EndWrites \/ MergeFails
  <2>1. PICK st \in {"merge", "next", "mark"} : task' = [task EXCEPT !.step = st]
    BY <1>6 DEF EndMarks, EndWrites, MergeFails
  <2>2. excused' = excused
    BY <1>6 DEF EndMarks, EndWrites, MergeFails, TablesUnchanged, Fails
  <2> QED
    BY <1>0, <2>1, <2>2 DEF Task, NamesRows
<1>7. ASSUME NEW out \in Answers(task.ids), Merge(out)
      PROVE  task' \in Task /\ NamesRows'
  <2>1. \A s \in out : s \subseteq task.ids
    BY DEF Answers
  <2>2. task.ids \subseteq Ids
    BY DEF NamesRows
  <2>3. CASE task' = Unreduced /\ excused' = excused \cup task.ids
    BY <1>0, <2>2, <2>3 DEF Unreduced, Task, NamesRows
  <2>4. CASE task' = Reduced(out) /\ excused' = excused
    <3>1. out \in SUBSET (SUBSET Nat) /\ UNION out \subseteq Ids
      BY <1>0, <2>1, <2>2
    <3>2. task' = [task EXCEPT !.step = "write", !.writes = out, !.marks = UNION out]
      BY <2>4 DEF Reduced
    <3>3. task' \in Task
      BY <1>0, <3>1, <3>2 DEF Task
    <3>4. /\ task'.todo = task.todo /\ task'.writes = out /\ task'.ids = task.ids
          /\ task'.marks = UNION out /\ task'.written = task.written /\ task'.step = "write"
      BY <3>2 DEF Task
    <3> QED
      BY <1>0, <2>1, <2>2, <2>4, <3>1, <3>3, <3>4 DEF NamesRows
  <2> QED
    BY <1>7, <2>3, <2>4 DEF Merge
<1>8. CASE Write
  <2>1. PICK s \in task.writes :
          LET text == UNION {mem[i].text : i \in s}
              same == {i \in Ids : Live(i) /\ mem[i].text = text}
              next == [task EXCEPT !.step = "project", !.writes = @ \ {s}]
          IN  \/ /\ same # {} /\ task' = [next EXCEPT !.written = First(same)]
                 /\ excused' = excused \cup same
              \/ /\ mem' = Append(mem, [text |-> text, phase |-> "organized",
                                        project |-> NoProject, marks |-> {}])
                 /\ task' = [next EXCEPT !.written = Len(mem) + 1]
                 /\ excused' = excused
    BY <1>8 DEF Write
  <2> DEFINE same == {i \in Ids : Live(i) /\ mem[i].text = UNION {mem[j].text : j \in s}}
  <2>2. PICK w \in Ids' :
          /\ task' = [task EXCEPT !.step = "project", !.writes = @ \ {s}, !.written = w]
          /\ excused' \subseteq excused \cup Ids
    <3>1. CASE same # {} /\ excused' = excused \cup same
               /\ task' = [[task EXCEPT !.step = "project", !.writes = @ \ {s}]
                             EXCEPT !.written = First(same)]
      <4>1. First(same) \in Ids'
        BY <1>0, <3>1, FirstIsOne
      <4> HIDE DEF same
      <4>2. task' = [task EXCEPT !.step = "project", !.writes = @ \ {s}, !.written = First(same)]
        BY <3>1 DEF Task
      <4>3. same \subseteq Ids
        BY DEF same
      <4> QED
        BY <3>1, <4>1, <4>2, <4>3
    <3>2. CASE /\ mem' = Append(mem, [text |-> UNION {mem[i].text : i \in s},
                               phase |-> "organized", project |-> NoProject, marks |-> {}])
               /\ task' = [[task EXCEPT !.step = "project", !.writes = @ \ {s}]
                             EXCEPT !.written = Len(mem) + 1]
               /\ excused' = excused
      <4>1. Len(mem) + 1 \in Ids'
        BY <3>2 DEF Ids
      <4>2. task' = [task EXCEPT !.step = "project", !.writes = @ \ {s}, !.written = Len(mem) + 1]
        BY <3>2 DEF Task
      <4> QED
        BY <3>2, <4>1, <4>2
    <3> QED
      BY <2>1, <3>1, <3>2
  <2>3. w \in Nat
    <3>1. mem' \in Seq(Row)
      BY DEF Kept
    <3> QED
      BY <3>1 DEF Ids
  <2>4. task' \in Task
    BY <2>2, <2>3 DEF Task
  <2>5. /\ task'.todo = task.todo /\ task'.writes \subseteq task.writes /\ task'.ids = task.ids
        /\ task'.marks = task.marks /\ task'.written = w
    BY <2>2 DEF Task
  <2> HIDE DEF same
  <2> QED
    BY <1>0, <2>2, <2>4, <2>5 DEF NamesRows
<1>9. CASE WriteFails
  <2>1. PICK s \in task.writes : task' = [task EXCEPT !.writes = @ \ {s}]
    BY <1>9 DEF WriteFails
  <2>2. excused' = excused /\ task.step = "write"
    BY <1>9 DEF WriteFails, Fails, At
  <2> QED
    BY <1>0, <2>1, <2>2 DEF Task, NamesRows
<1>10. CASE setProjectOnMemory \/ setProjectFails \/ MarkWritten
  <2>1. PICK st \in {"write", "written"} : task' = [task EXCEPT !.step = st]
    BY <1>10 DEF setProjectOnMemory, setProjectFails, MarkWritten
  <2>2. excused' = excused
    BY <1>10 DEF setProjectOnMemory, setProjectFails, MarkWritten, RestUnchanged, Fails
  <2> QED
    BY <1>0, <2>1, <2>2 DEF Task, NamesRows
<1> QED
  BY <1>1, <1>2, <1>3, <1>4, <1>5, <1>6, <1>7, <1>8, <1>9, <1>10 DEF Step

LEMMA EnrichTypes ==
    ASSUME CurationTypeInv, Kept, EnrichStep \/ ConceptTagsFails \/ TagFails,
           UNCHANGED <<task, excused>>
    PROVE  enr' \in Run /\ NamesRows'
<1> USE DEF CurationTypeInv
<1>0. Ids \subseteq Nat /\ Ids \subseteq Ids'
  BY DEF Kept, Ids
<1>1. CASE EnrichList
  <2>1. Newest(Pending, PerTick) \subseteq Ids
    BY NewestOf DEF Pending, Ids
  <2> QED
    BY <1>0, <1>1, <2>1 DEF EnrichList, EnrIdle, Run, NamesRows
<1>2. CASE EnrichDone
  BY <1>0, <1>2 DEF EnrichDone, EnrIdle, Run, NamesRows
<1>3. CASE ConceptTags
  <2>1. Newest(enr.pending, EnrichBatchSize) \subseteq enr.pending
    BY NewestOf
  <2>2. PICK batch \in SUBSET enr.pending, given \in SUBSET enr.pending :
          enr' = [enr EXCEPT !.step = "tag", !.pending = @ \ batch, !.batch = batch,
                             !.given = given]
    BY <1>3, <2>1 DEF ConceptTags
  <2>3. topics' = topics
    BY <1>3 DEF ConceptTags
  <2> QED
    BY <1>0, <2>2, <2>3 DEF Run, NamesRows
<1>4. CASE ConceptTagsFails
  <2>1. PICK n : enr' = [enr EXCEPT !.pending = @ \ n] /\ topics' = topics
    BY <1>4 DEF ConceptTagsFails
  <2> QED
    BY <1>0, <2>1 DEF Run, NamesRows
<1>5. CASE Tag \/ TagFails \/ EnrichMark
  <2>1. PICK i :
          /\ \/ enr' = [enr EXCEPT !.batch = @ \ {i}]
             \/ enr' = [enr EXCEPT !.step = "mark"]
             \/ enr' = [enr EXCEPT !.step = "tag", !.batch = @ \ {i}]
          /\ topics' \subseteq topics \cup enr.given
    BY <1>5 DEF Tag, TagFails, EnrichMark
  <2>2. /\ enr' \in Run /\ enr'.pending = enr.pending /\ enr'.batch \subseteq enr.batch
        /\ enr'.given = enr.given
    BY <2>1 DEF Run
  <2> QED
    BY <1>0, <2>1, <2>2 DEF NamesRows
<1>6. CASE EnrichNext
  BY <1>0, <1>6 DEF EnrichNext, Run, NamesRows
<1> QED
  BY <1>1, <1>2, <1>3, <1>4, <1>5, <1>6 DEF EnrichStep

LEMMA CurationTypeStep == CurationTypeInv /\ [CurationNext]_allVars => CurationTypeInv'
<1> SUFFICES ASSUME CurationTypeInv, [CurationNext]_allVars
             PROVE  CurationTypeInv'
  OBVIOUS
<1>1. Kept /\ mem' \in Seq(Row)
  BY KeptStep DEF Kept
<1>2. errors' \in Nat /\ faults' \in 0 .. MaxFaults /\ errors' <= faults'
  <2>1. \/ UNCHANGED <<errors, faults>>
        \/ faults < MaxFaults /\ faults' = faults + 1 /\ (errors' = errors \/ errors' = errors + 1)
    BY DEF CurationNext, Consolidate, Step, ListProcessed, ListOrganized, NextGroup, Done, Mark,
       EndMarks, Merge, Write, setProjectOnMemory, MarkWritten, EndWrites, TablesUnchanged,
       RestUnchanged, Enrich, EnrichFails, KillDaemon, Others, MarkFails, MergeFails, WriteFails,
       setProjectFails, Fails, Arrive, Delete, allVars, vars
  <2> QED
    BY <2>1, ConsolidationAssumption DEF CurationTypeInv
<1>3. CASE Consolidate
  <2>1. task' \in Task /\ NamesRows' /\ enr' = enr
    BY <1>1, <1>3, ConsolidateTypes DEF Consolidate, enrVars
  <2>2. /\ turn = "consolidate-llm"
        /\ turn' = IF task.step # "idle" /\ task'.step = "idle" THEN "enrich-tags" ELSE turn
    BY <1>3 DEF Consolidate
  <2> QED
    BY <1>1, <1>2, <2>1, <2>2 DEF CurationTypeInv
<1>4. CASE Enrich
  <2>1. enr' \in Run /\ NamesRows' /\ task' = task
    BY <1>1, <1>4, EnrichTypes DEF Enrich
  <2>2. /\ turn = "enrich-tags"
        /\ turn' = IF enr.step # "idle" /\ enr'.step = "idle" THEN "consolidate-llm" ELSE turn
    BY <1>4 DEF Enrich
  <2>3. enr.step # "idle" /\ enr'.step = "idle" => enr' = EnrIdle
    BY <1>4 DEF Enrich, EnrichStep, EnrichList, EnrichDone, ConceptTags, Tag, EnrichMark,
       EnrichNext, CurationTypeInv, Run, EnrIdle
  <2> QED
    BY <1>1, <1>2, <2>1, <2>2, <2>3 DEF CurationTypeInv
<1>5. CASE EnrichFails
  <2>1. enr' \in Run /\ NamesRows' /\ task' = task /\ turn' = turn
    BY <1>1, <1>5, EnrichTypes DEF EnrichFails
  <2>2. turn # "consolidate-llm"
    BY <1>5 DEF EnrichFails, ConceptTagsFails, TagFails, CurationTypeInv, EnrIdle
  <2> QED
    BY <1>1, <1>2, <2>1, <2>2 DEF CurationTypeInv
<1>6. CASE KillDaemon
  BY <1>1, <1>2, <1>6 DEF KillDaemon, CurationTypeInv, NamesRows, Idle, EnrIdle, Task, Run, Kept
<1>7. CASE (MarkFails \/ MergeFails \/ WriteFails \/ setProjectFails) /\ UNCHANGED <<enrVars, turn>>
  <2>1. task' \in Task /\ NamesRows' /\ enr' = enr /\ turn' = turn
    BY <1>1, <1>7, ConsolidateTypes DEF enrVars
  <2>2. task.step # "idle"
    BY <1>7 DEF MarkFails, MergeFails, WriteFails, setProjectFails, At
  <2> QED
    BY <1>1, <1>2, <2>1, <2>2 DEF CurationTypeInv
<1>8. CASE UNCHANGED <<task, topics, enr, excused, turn>>
  <2>1. NamesRows'
    BY <1>1, <1>8, NamesKept
  <2> QED
    BY <1>1, <1>2, <1>8, <2>1 DEF CurationTypeInv
<1>9. CASE \/ UNCHANGED allVars
           \/ ((\E n \in DOMAIN Arrival : Arrive(n)) \/ \E i \in Ids : Delete(i))
                /\ UNCHANGED <<enrVars, turn>>
  BY <1>8, <1>9 DEF allVars, vars, enrVars, Arrive, RestUnchanged, Delete
<1> QED
  BY <1>3, <1>4, <1>5, <1>6, <1>7, <1>9 DEF CurationNext, Others

LEMMA CurationTypeStart == CurationInit => CurationTypeInv
<1> SUFFICES ASSUME CurationInit
             PROVE  CurationTypeInv
  OBVIOUS
<1> USE DEF CurationInit, Init, EnrichInit
<1>1. task \in Task /\ enr \in Run
  BY DEF Idle, EnrIdle, Task, Run
<1>2. NamesRows
  BY DEF NamesRows, Idle, EnrIdle
<1>3. mem \in Seq(Row) /\ 0 \in 0 .. MaxFaults
  BY ConsolidationAssumption
<1> QED
  BY <1>1, <1>2, <1>3 DEF CurationTypeInv, Idle

\* Every variable keeps its type, every row a task has named stays in the table, and no two
\* tasks of the daemon run at once.
THEOREM CurationTypeCorrect == CurationSpec => []CurationTypeOK
<1>1. CurationTypeInv => CurationTypeOK
  BY DEF CurationTypeInv, CurationTypeOK, TypeOK, NamesRows, Task
<1> QED
  BY <1>1, CurationTypeStart, CurationTypeStep, PTL DEF CurationSpec

\* No step of a task removes a memory, or takes back a mark of the other.
THEOREM TasksRemoveNothing == CurationSpec => NothingRemoved
<1>1. CurationTypeInv /\ [CurationNext]_allVars =>
        [\A i \in Ids : Live(i) =>
            /\ mem'[i].phase = mem[i].phase \/ Delete(i)
            /\ mem[i].marks \subseteq mem'[i].marks]_allVars
  BY KeptStep DEF Kept
<1> QED
  BY <1>1, CurationTypeStart, CurationTypeStep, PTL DEF CurationSpec, NothingRemoved

-----------------------------------------------------------------------------
(* Nothing consumed is lost *)

Text(ids) == UNION {mem[i].text : i \in ids}

\* What the user can still read, or has thrown away.
Said == forgotten \cup Text(InPhase("organized") \cup excused)

\* What is to be said when the memories under way are written.
SaidSoon == Said \cup UNION {Text(s) : s \in task.writes}

\* What the locals of the task promise: the marks it is about to make are on rows whose text
\* is said, or is going to be.
Promise ==
    /\ task.step \in {"dups", "mark"} => \A i \in task.marks : mem[i].text \subseteq Said
    /\ task.step \in {"write", "project", "written"} =>
          \A i \in task.marks : mem[i].text \subseteq SaidSoon
    /\ task.step \in {"project", "written"} =>
          task.written \in Ids /\ mem[task.written].text \subseteq Said

MergeInv ==
    errors = 0 => Promise /\ \A i \in Ids : Consumed(i) => mem[i].text \subseteq Said

\* What has been said is not taken back.
LEMMA SaidKept ==
    ASSUME CurationTypeInv, Kept
    PROVE  Said \subseteq Said'
<1> SUFFICES ASSUME NEW x \in Said
             PROVE  x \in Said'
  OBVIOUS
<1> USE DEF Said, Text
<1>1. CASE x \in forgotten
  BY <1>1 DEF Kept
<1>2. ASSUME NEW i \in InPhase("organized"), x \in mem[i].text
      PROVE  x \in Said'
  <2>1. i \in Ids' /\ x \in mem'[i].text /\ mem[i].phase = "organized"
    BY <1>2 DEF Kept, InPhase
  <2>2. CASE mem'[i].phase = "organized"
    BY <2>1, <2>2 DEF InPhase
  <2>3. CASE Delete(i)
    BY <1>2, <2>3 DEF Delete
  <2> QED
    BY <1>2, <2>1, <2>2, <2>3 DEF Kept, InPhase
<1>3. ASSUME NEW i \in excused, x \in mem[i].text
      PROVE  x \in Said'
  BY <1>3 DEF Kept, CurationTypeInv, NamesRows
<1> QED
  BY <1>1, <1>2, <1>3

\* The text of rows in the table stays what it is.
LEMMA TextKept ==
    ASSUME Kept, NEW s \in SUBSET Ids
    PROVE  UNION {mem'[i].text : i \in s} = UNION {mem[i].text : i \in s}
  BY DEF Kept

\* A row that is consumed was, or is being marked.
LEMMA NewlyConsumed ==
    ASSUME CurationTypeInv, [CurationNext]_allVars, NEW i \in Ids', Consumed(i)'
    PROVE  /\ i \in Ids
           /\ \/ Consumed(i)
              \/ Mark /\ i = First(task.marks)
              \/ MarkWritten /\ i = task.written
<1> USE DEF CurationTypeInv
<1>1. i \in Ids
  BY KeptStep DEF Kept, Consumed
<1> SUFFICES \/ Consumed(i)
             \/ Mark /\ i = First(task.marks)
             \/ MarkWritten /\ i = task.written
  BY <1>1
<1>2. ASSUME mem'[i].marks = mem[i].marks
      PROVE  Consumed(i)
  BY <1>2 DEF Consumed
<1>3. CASE Mark
  <2>1. CASE Live(First(task.marks))
    <3>1. PICK j : j = First(task.marks)
      OBVIOUS
    <3>2. mem' = [mem EXCEPT ![j].marks = @ \cup {"consolidate-llm"}]
          /\ UNCHANGED <<excused, forgotten>>
      BY <1>3, <2>1, <3>1 DEF Mark, MarkConsumed, Consumer, RestUnchanged
    <3>3. \A k \in Ids \ {j} : mem'[k] = mem[k]
      BY <3>2, KeptMarked
    <3> QED
      BY <1>1, <1>2, <1>3, <3>1, <3>3
  <2> QED
    BY <1>1, <1>2, <1>3, <2>1 DEF Mark, MarkConsumed
<1>4. CASE MarkWritten
  <2>1. CASE Live(task.written)
    <3>1. PICK j : j = task.written
      OBVIOUS
    <3>2. mem' = [mem EXCEPT ![j].marks = @ \cup {"consolidate-llm"}]
          /\ UNCHANGED <<excused, forgotten>>
      BY <1>4, <2>1, <3>1 DEF MarkWritten, MarkConsumed, Consumer, RestUnchanged
    <3>3. \A k \in Ids \ {j} : mem'[k] = mem[k]
      BY <3>2, KeptMarked
    <3> QED
      BY <1>1, <1>2, <1>4, <3>1, <3>3
  <2> QED
    BY <1>1, <1>2, <1>4, <2>1 DEF MarkWritten, MarkConsumed
<1>5. mem[i] \in Row
  BY <1>1 DEF Ids
<1>6. ASSUME NEW j, mem' = [mem EXCEPT ![j].marks = @ \cup {"enrich-tags"}]
      PROVE  Consumed(i)
  <2>1. mem \in [1 .. Len(mem) -> Row] /\ DOMAIN mem = 1 .. Len(mem)
    OBVIOUS
  <2>2. mem'[i] = IF i = j THEN [mem[i] EXCEPT !.marks = @ \cup {"enrich-tags"}] ELSE mem[i]
    BY <1>1, <1>6, <2>1 DEF Ids
  <2>3. mem'[i].marks \subseteq mem[i].marks \cup {"enrich-tags"}
    BY <1>5, <2>2 DEF Row
  <2> QED
    BY <2>3 DEF Consumed, Consumer
<1>7. CASE EnrichMark
  BY <1>2, <1>6, <1>7 DEF EnrichMark, Bit
<1>8. CASE setProjectOnMemory
  <2>1. PICK j, p : mem' = mem \/ mem' = [mem EXCEPT ![j].project = p]
    BY <1>8 DEF setProjectOnMemory
  <2>2. mem \in [1 .. Len(mem) -> Row] /\ DOMAIN mem = 1 .. Len(mem)
    OBVIOUS
  <2>3. mem'[i] = mem[i] \/ mem'[i] = [mem[i] EXCEPT !.project = p]
    BY <1>1, <2>1, <2>2 DEF Ids
  <2> QED
    BY <1>2, <1>5, <2>3 DEF Row
<1>9. CASE Write \/ \E n \in DOMAIN Arrival : Arrive(n)
  <2>1. mem' = mem \/ \E row : mem' = Append(mem, row)
    BY <1>9 DEF Write, Arrive
  <2>2. mem'[i] = mem[i]
    BY <1>1, <2>1 DEF Ids
  <2> QED
    BY <1>2, <2>2
<1>10. ASSUME NEW j \in Ids, Delete(j)
       PROVE  Consumed(i)
  <2>1. mem' = [mem EXCEPT ![j].phase = "deleted"]
    BY <1>10 DEF Delete
  <2>2. mem \in [1 .. Len(mem) -> Row] /\ DOMAIN mem = 1 .. Len(mem)
    OBVIOUS
  <2>3. mem'[i] = mem[i] \/ mem'[i] = [mem[i] EXCEPT !.phase = "deleted"]
    BY <1>1, <2>1, <2>2 DEF Ids
  <2> QED
    BY <1>2, <1>5, <2>3 DEF Row
<1>11. CASE mem' = mem
  BY <1>2, <1>11
<1>12. \/ Mark \/ MarkWritten \/ EnrichMark \/ setProjectOnMemory \/ Write
       \/ (\E n \in DOMAIN Arrival : Arrive(n)) \/ (\E j \in Ids : Delete(j)) \/ mem' = mem
  BY DEF CurationNext, Consolidate, Step, ListProcessed, ListOrganized, NextGroup, Done,
     EndMarks, Merge, EndWrites, TablesUnchanged, Enrich, EnrichStep, EnrichList, EnrichDone,
     ConceptTags, Tag, EnrichNext, EnrichFails, ConceptTagsFails, TagFails, KillDaemon, Others,
     MarkFails, MergeFails, WriteFails, setProjectFails, Fails, allVars, vars
<1> QED
  BY <1>1, <1>3, <1>4, <1>7, <1>8, <1>9, <1>10, <1>11, <1>12

\* As long as the sets of rows the task holds do not grow, its promises hold.
LEMMA PromiseKept ==
    ASSUME CurationTypeInv, Kept, Promise,
           task'.marks \subseteq task.marks, task'.writes = task.writes,
           task'.written = task.written,
           task'.step \in {"dups", "mark"} => task.step \in {"dups", "mark"},
           task'.step \in {"write", "project", "written"} =>
              task.step \in {"write", "project", "written"},
           task'.step \in {"project", "written"} => task.step \in {"project", "written"}
    PROVE  Promise'
<1> USE DEF CurationTypeInv, NamesRows
<1>1. \A i \in Ids : mem'[i].text = mem[i].text
  BY DEF Kept
<1>2. SaidSoon \subseteq SaidSoon'
  <2>1. \A s \in task.writes : Text(s)' = Text(s)
    BY TextKept DEF Text
  <2> QED
    BY <2>1, SaidKept DEF SaidSoon
<1>3. \A i \in task'.marks : i \in Ids
  OBVIOUS
<1>4. ASSUME task'.step \in {"dups", "mark"}, NEW i \in task'.marks
      PROVE  mem'[i].text \subseteq Said'
  BY <1>1, <1>3, <1>4, SaidKept DEF Promise
<1>5. ASSUME task'.step \in {"write", "project", "written"}, NEW i \in task'.marks
      PROVE  mem'[i].text \subseteq SaidSoon'
  BY <1>1, <1>2, <1>3, <1>5 DEF Promise
<1>6. ASSUME task'.step \in {"project", "written"}
      PROVE  task'.written \in Ids' /\ mem'[task'.written].text \subseteq Said'
  BY <1>1, <1>6, SaidKept DEF Promise, Kept
<1> QED
  BY <1>4, <1>5, <1>6 DEF Promise

LEMMA PromiseStep ==
    ASSUME CurationTypeInv, CurationTypeInv', Promise, [CurationNext]_allVars,
           errors = 0, errors' = 0
    PROVE  Promise'
<1> USE DEF CurationTypeInv, NamesRows
<1>0. Kept /\ \A i \in Ids : mem'[i].text = mem[i].text
  BY KeptStep DEF Kept
<1>1. CASE task' = task
  BY <1>0, <1>1, PromiseKept
<1>2. CASE NextGroup
  <2>0. PICK g \in task.todo : \E kept :
          /\ task'.marks = g.ids \ kept /\ task'.step \in {"dups", "mark"}
          /\ excused' = excused \cup (g.ids \ kept)
    <3>1. PICK g \in task.todo :
            LET kept == IF task.phase = "A" THEN g.ids ELSE codeDedup(g.ids)
                few == task.phase = "B" /\ Cardinality(kept) < MinMerge
            IN  /\ task' = [task EXCEPT !.todo = @ \ {g}, !.project = g.project,
                              !.step = IF few THEN "mark" ELSE "dups",
                              !.ids = IF few THEN {} ELSE kept, !.marks = g.ids \ kept]
                /\ excused' = excused \cup (g.ids \ kept)
      BY <1>2 DEF NextGroup
    <3>2. PICK kept, few :
            /\ task' = [task EXCEPT !.todo = @ \ {g}, !.project = g.project,
                              !.step = IF few THEN "mark" ELSE "dups",
                              !.ids = IF few THEN {} ELSE kept, !.marks = g.ids \ kept]
            /\ excused' = excused \cup (g.ids \ kept)
      BY <3>1
    <3> QED
      BY <3>2 DEF Task
  <2>1. PICK kept : /\ task'.marks = g.ids \ kept /\ task'.step \in {"dups", "mark"}
                    /\ excused' = excused \cup (g.ids \ kept)
    BY <2>0
  <2>2. \A i \in task'.marks : i \in excused'
    BY <2>1
  <2>3. \A i \in task'.marks : mem'[i].text \subseteq Said'
    BY <2>2 DEF Said, Text
  <2> QED
    BY <2>1, <2>3 DEF Promise
<1>3. CASE Mark
  BY <1>0, <1>3, PromiseKept DEF Mark, Task
<1>4. CASE EndMarks \/ setProjectOnMemory \/ MarkWritten
  <2>1. PICK st \in {"merge", "next", "write", "written"} :
          /\ task' = [task EXCEPT !.step = st]
          /\ st = "written" => task.step = "project"
          /\ st = "write" => task.step \in {"project", "written"}
    BY <1>4 DEF EndMarks, setProjectOnMemory, MarkWritten, At
  <2> QED
    BY <1>0, <2>1, PromiseKept DEF Task
<1>5. CASE EndWrites
  <2>1. task.writes = {} /\ task.step = "write" /\ task' = [task EXCEPT !.step = "mark"]
    BY <1>5 DEF EndWrites, At
  <2>2. \A i \in task.marks : mem[i].text \subseteq Said
    BY <2>1 DEF Promise, SaidSoon
  <2>3. task'.marks = task.marks /\ task'.step = "mark"
    BY <2>1 DEF Task
  <2>4. \A i \in task'.marks : mem'[i].text \subseteq Said'
    BY <1>0, <2>2, <2>3, SaidKept
  <2> QED
    BY <2>3, <2>4 DEF Promise
<1>6. ASSUME NEW out \in Answers(task.ids), Merge(out)
      PROVE  Promise'
  <2>1. CASE task' = Unreduced /\ excused' = excused \cup task.ids
    <3>1. task'.step = "mark" /\ task'.marks = task.ids
      BY <2>1 DEF Unreduced, Task
    <3>2. \A i \in task'.marks : mem'[i].text \subseteq Said'
      BY <2>1, <3>1 DEF Said, Text
    <3> QED
      BY <3>1, <3>2 DEF Promise
  <2>2. CASE task' = Reduced(out)
    <3>1. task'.step = "write" /\ task'.marks = UNION out /\ task'.writes = out
      BY <2>2 DEF Reduced, Task
    <3>2. ASSUME NEW i \in task'.marks
          PROVE  mem'[i].text \subseteq SaidSoon'
      <4>1. PICK s \in out : i \in s
        BY <3>1
      <4>2. mem'[i].text \subseteq Text(s)'
        BY <4>1 DEF Text
      <4> QED
        BY <3>1, <4>2 DEF SaidSoon
    <3> QED
      BY <3>1, <3>2 DEF Promise
  <2> QED
    BY <1>6, <2>1, <2>2 DEF Merge
<1>7. CASE Write
  <2>1. PICK s \in task.writes :
          LET text == UNION {mem[i].text : i \in s}
              same == {i \in Ids : Live(i) /\ mem[i].text = text}
              next == [task EXCEPT !.step = "project", !.writes = @ \ {s}]
          IN  \/ /\ same # {} /\ task' = [next EXCEPT !.written = First(same)]
                 /\ excused' = excused \cup same
              \/ /\ mem' = Append(mem, [text |-> text, phase |-> "organized",
                                        project |-> NoProject, marks |-> {}])
                 /\ task' = [next EXCEPT !.written = Len(mem) + 1]
    BY <1>7 DEF Write
  <2> DEFINE text == UNION {mem[i].text : i \in s}
             same == {i \in Ids : Live(i) /\ mem[i].text = text}
             w == task'.written
  <2>2. /\ task'.step = "project" /\ task'.writes = task.writes \ {s}
        /\ task'.marks = task.marks /\ task.step = "write"
    BY <1>7, <2>1 DEF Write, At, Task
  <2>3. w \in Ids' /\ mem'[w].text = text /\ mem'[w].text \subseteq Said'
    <3>1. CASE /\ same # {} /\ excused' = excused \cup same
               /\ task' = [[task EXCEPT !.step = "project", !.writes = @ \ {s}]
                             EXCEPT !.written = First(same)]
      <4>0. same \in SUBSET Nat
        BY DEF Ids
      <4>1. First(same) \in same
        BY <3>1, <4>0, FirstIsOne
      <4>2. w = First(same)
        BY <3>1 DEF Task
      <4>3. w \in Ids /\ mem[w].text = text /\ w \in excused'
        BY <3>1, <4>1, <4>2
      <4> HIDE DEF w, text, same
      <4>4. w \in Ids' /\ mem'[w].text = text
        BY <1>0, <4>3 DEF Kept
      <4> QED
        BY <4>3, <4>4 DEF Said, Text
    <3>2. CASE /\ mem' = Append(mem, [text |-> text, phase |-> "organized",
                                      project |-> NoProject, marks |-> {}])
               /\ task' = [[task EXCEPT !.step = "project", !.writes = @ \ {s}]
                             EXCEPT !.written = Len(mem) + 1]
      <4>1. w = Len(mem) + 1
        BY <3>2 DEF Task
      <4>2. w \in Ids' /\ mem'[w].text = text /\ mem'[w].phase = "organized"
        BY <3>2, <4>1 DEF Ids
      <4> HIDE DEF w, text
      <4> QED
        BY <4>2 DEF Said, Text, InPhase
    <3> QED
      BY <2>1, <3>1, <3>2
  <2> HIDE DEF w, same
  <2>4. Text(s) \subseteq Said'
    BY <2>3 DEF Text
  <2>5. ASSUME NEW t \in task.writes \ {s}
        PROVE  Text(t) \subseteq SaidSoon'
    <3>1. Text(t)' = Text(t)
      BY <1>0, TextKept DEF Text
    <3> QED
      BY <2>2, <3>1 DEF SaidSoon
  <2>6. SaidSoon \subseteq SaidSoon'
    BY <1>0, <2>4, <2>5, SaidKept DEF SaidSoon
  <2>7. \A i \in task'.marks : mem'[i].text \subseteq SaidSoon'
    BY <1>0, <2>2, <2>6 DEF Promise
  <2> QED
    BY <2>2, <2>3, <2>7 DEF Promise, w
<1>8. CASE ListProcessed \/ ListOrganized \/ Done \/ KillDaemon
  <2>1. ASSUME ListProcessed
        PROVE  task'.step \in {"idle", "next"}
    BY <2>1 DEF ListProcessed, Idle
  <2>2. ASSUME ListOrganized
        PROVE  task'.step \in {"idle", "next"}
    <3>1. PICK top \in SUBSET Ranked :
            task' = [Idle EXCEPT !.step = "next", !.phase = "B", !.todo =
                IF Cardinality(InPhase("organized")) < MinOrganized THEN {}
                ELSE {[project |-> p, ids |-> Of(p, InPhase("organized"))] : p \in top}]
      BY <2>2 DEF ListOrganized
    <3> QED
      BY <3>1 DEF Idle
  <2>3. ASSUME Done \/ KillDaemon
        PROVE  task'.step \in {"idle", "next"}
    BY <2>3 DEF Done, KillDaemon, Idle
  <2>4. task'.step \in {"idle", "next"}
    BY <1>8, <2>1, <2>2, <2>3
  <2> QED
    BY <2>4 DEF Promise
<1>9. ~ (MarkFails \/ MergeFails \/ WriteFails \/ setProjectFails)
  BY DEF MarkFails, MergeFails, WriteFails, setProjectFails, Fails
<1> QED
  BY <1>1, <1>2, <1>3, <1>4, <1>5, <1>6, <1>7, <1>8, <1>9 DEF CurationNext, Consolidate, Step,
     Enrich, EnrichFails, Others, Arrive, Delete, allVars, vars

LEMMA MergeStep ==
    CurationTypeInv /\ CurationTypeInv' /\ MergeInv /\ [CurationNext]_allVars => MergeInv'
<1> SUFFICES ASSUME CurationTypeInv, CurationTypeInv', MergeInv, [CurationNext]_allVars, errors' = 0
             PROVE  /\ \A i \in Ids' : Consumed(i)' => mem'[i].text \subseteq Said'
                    /\ Promise'
  BY DEF MergeInv
<1>1. errors = 0
  <2>1. errors' = errors \/ errors' = errors + 1
    BY DEF CurationNext, Consolidate, Step, ListProcessed, ListOrganized, NextGroup, Done, Mark,
       EndMarks, Merge, Write, setProjectOnMemory, MarkWritten, EndWrites, TablesUnchanged,
       RestUnchanged, Enrich, EnrichFails, KillDaemon, Others, MarkFails, MergeFails, WriteFails,
       setProjectFails, Fails, Arrive, Delete, allVars, vars
  <2> QED
    BY <2>1 DEF CurationTypeInv
<1>2. Promise /\ \A i \in Ids : Consumed(i) => mem[i].text \subseteq Said
  BY <1>1 DEF MergeInv
<1>3. Promise'
  BY <1>1, <1>2, PromiseStep
<1>4. ASSUME NEW i \in Ids', Consumed(i)'
      PROVE  mem'[i].text \subseteq Said'
  <2>1. i \in Ids /\ (Consumed(i) \/ (Mark /\ i = First(task.marks))
                        \/ (MarkWritten /\ i = task.written))
    BY <1>4, NewlyConsumed
  <2>2. CASE Mark /\ i = First(task.marks)
    <3>1. i \in task.marks /\ task.step \in {"dups", "mark"}
      BY <2>2, FirstIsOne DEF Mark, CurationTypeInv, Task
    <3> QED
      BY <1>2, <3>1, <2>1, KeptStep, SaidKept DEF Promise, Kept
  <2>3. CASE MarkWritten /\ i = task.written
    BY <1>2, <2>1, <2>3, KeptStep, SaidKept DEF Promise, Kept, MarkWritten, At
  <2>4. CASE Consumed(i)
    BY <1>2, <2>1, <2>4, KeptStep, SaidKept DEF Kept
  <2> QED
    BY <2>1, <2>2, <2>3, <2>4
<1> QED
  BY <1>3, <1>4

\* Unless a call or a statement failed, what a consumed fact says is said by an organized
\* memory, or was left in its own words, or thrown away by a person: for every answer of the
\* model, every order of arrivals, deletes and kills.
THEOREM NothingConsumedIsLost == CurationSpec => []ConsumedIsMerged
<1>1. CurationInit => MergeInv
  BY DEF CurationInit, Init, MergeInv, Promise, Ids, Idle
<1>2. MergeInv => ConsumedIsMerged
  BY DEF MergeInv, ConsumedIsMerged, Said, Text, InPhase
<1> QED
  BY <1>1, <1>2, CurationTypeStart, CurationTypeStep, MergeStep, PTL DEF CurationSpec
=============================================================================
