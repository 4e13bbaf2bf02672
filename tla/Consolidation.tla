---------------------------- MODULE Consolidation ----------------------------
(***************************************************************************)
(* ConsolidateLLMTask (daemon/consolidate_llm.go): a task of the daemon    *)
(* has the language model merge the facts of a project into fewer, denser  *)
(* memories.  Phase A merges processed memories into organized ones, phase *)
(* B merges the organized memories of the largest projects once more.  A   *)
(* source is marked consumed and never removed.  Facts arrive and memories *)
(* are deleted meanwhile; the daemon may be killed anywhere.               *)
(*                                                                         *)
(* The text of a memory is the set of facts it states; a merged text       *)
(* states what the sources it names state.  An id is the place of a row in *)
(* the order of creation, which List reverses.                             *)
(***************************************************************************)
EXTENDS Naturals, FiniteSets, SequencesExt

CONSTANTS
    Arrival,       \* the memories that arrive, in this order
    Project,       \* projects; a memory may have none
    NoProject,
    Fingerprint,   \* text -> its fingerprint, the start of its normalized form
    BatchSize,     \* memories per call of the model in phase A
    MinOrganized,  \* phase B: organized memories that make it worth while,
    MinProject,    \*   memories of a project that make it a candidate,
    MinMerge,      \*   memories left to merge,
    TopProjects,   \*   projects per run
    MaxRows,       \* bound: rows ever inserted
    MaxFaults      \* bound: kills, failing calls and statements, and deletes, together

\* The facts that can be stated, and a row of memories.
Fact == UNION {Arrival[n].text : n \in DOMAIN Arrival}
Row == [text : SUBSET Fact, phase : {"processed", "organized", "deleted"},
        project : Project \cup {NoProject}, marks : SUBSET {"consolidate-llm", "enrich-tags"}]

\* What arrives has been settled, and no consumer has seen it.
ASSUME ConsolidationAssumption ==
    /\ Arrival \in Seq(Row)
    /\ \A n \in DOMAIN Arrival : Arrival[n].phase # "deleted" /\ Arrival[n].marks = {}
    /\ MaxRows \in Nat /\ MaxFaults \in Nat

VARIABLES
    mem,        \* the table memories; a deleted row stays with phase "deleted"
    task,       \* where the task is, with its locals
    excused,    \* history: rows marked, or adopted, in words the model did not change
    forgotten,  \* history: facts of the deleted rows
    errors, faults

vars == <<mem, task, excused, forgotten, errors, faults>>

Consumer == "consolidate-llm"

Idle == [step |-> "idle", phase |-> "A", todo |-> {}, project |-> NoProject,
         ids |-> {}, writes |-> {}, written |-> 0, marks |-> {}]

Ids == DOMAIN mem
Live(i) == mem[i].phase # "deleted"
InPhase(phase) == {i \in Ids : mem[i].phase = phase}
Consumed(i) == Consumer \in mem[i].marks
Of(p, ids) == {i \in ids : mem[i].project = p}

Init ==
    /\ mem = <<>> /\ task = Idle
    /\ excused = {} /\ forgotten = {}
    /\ errors = 0 /\ faults = 0

At(step) == task.step = step
TablesUnchanged == UNCHANGED <<mem, excused, forgotten, errors, faults>>
RestUnchanged == UNCHANGED <<excused, forgotten, errors, faults>>
Fails ==
    /\ faults < MaxFaults /\ faults' = faults + 1 /\ errors' = errors + 1
    /\ UNCHANGED <<mem, excused, forgotten>>

\* codeDedup keeps the first row of a fingerprint, which in the order of List is the newest.
codeDedup(ids) ==
    {i \in ids : \A j \in ids : Fingerprint[mem[i].text] = Fingerprint[mem[j].text] => j <= i}

\* A group is cut into batches in the order of List.
Batches(ids) ==
    LET place(i) == Cardinality({j \in ids : j > i}) \div BatchSize
    IN  {{i \in ids : place(i) = n} : n \in {place(i) : i \in ids}}

Unconsolidated == {i \in InPhase("processed") : ~Consumed(i)}

\* Phase A: the groups of two or more that have a project.
ListProcessed ==
    /\ At("idle")
    /\ LET groups == {p \in Project : Cardinality(Of(p, codeDedup(Unconsolidated))) >= 2}
       IN  task' = [Idle EXCEPT !.step = "next",
              !.todo = UNION {{[project |-> p, ids |-> b] :
                                 b \in Batches(Of(p, codeDedup(Unconsolidated)))} :
                              p \in groups}]
    /\ TablesUnchanged

\* Phase B considers a project's organized memories until four fifths of them are consumed.
Ranked ==
    {p \in Project :
       LET ids == Of(p, InPhase("organized"))
       IN  /\ Cardinality(ids) >= MinProject
           /\ 5 * Cardinality({i \in ids : Consumed(i)}) <= 4 * Cardinality(ids)}

Largest(top) ==
    \A p \in top, q \in Ranked \ top :
       Cardinality(Of(p, InPhase("organized"))) >= Cardinality(Of(q, InPhase("organized")))

ListOrganized ==
    /\ At("next") /\ task.phase = "A" /\ task.todo = {}
    /\ \E top \in SUBSET Ranked :
         /\ Largest(top)
         /\ Cardinality(top) = IF Cardinality(Ranked) < TopProjects
                               THEN Cardinality(Ranked) ELSE TopProjects
         /\ task' = [Idle EXCEPT !.step = "next", !.phase = "B", !.todo =
              IF Cardinality(InPhase("organized")) < MinOrganized THEN {}
              ELSE {[project |-> p, ids |-> Of(p, InPhase("organized"))] : p \in top}]
    /\ TablesUnchanged

\* The next batch, or the next project; phase B first marks what the fingerprints have in
\* common, and gives up a project of which too little is left.
NextGroup ==
    /\ At("next")
    /\ \E g \in task.todo :
         LET kept == IF task.phase = "A" THEN g.ids ELSE codeDedup(g.ids)
             few == task.phase = "B" /\ Cardinality(kept) < MinMerge
         IN  /\ task' = [task EXCEPT !.todo = @ \ {g}, !.project = g.project,
                           !.step = IF few THEN "mark" ELSE "dups",
                           !.ids = IF few THEN {} ELSE kept, !.marks = g.ids \ kept]
             /\ excused' = excused \cup (g.ids \ kept)
    /\ UNCHANGED <<mem, forgotten, errors, faults>>

Done ==
    /\ At("next") /\ task.phase = "B" /\ task.todo = {}
    /\ task' = Idle
    /\ TablesUnchanged

\* The memory a mark is made on next; the order is that of a slice, which no property
\* depends on.
First(ids) == CHOOSE i \in ids : \A j \in ids : i <= j

\* Mutant: the sources are removed, as an earlier version of the task did.
MarkByDelete(i) == [mem EXCEPT ![i].phase = "deleted"]

\* A row that was deleted meanwhile is not matched.
MarkConsumed(i) ==
    IF Live(i) THEN [mem EXCEPT ![i].marks = @ \cup {Consumer}] ELSE mem

Mark ==
    /\ task.step \in {"dups", "mark"} /\ task.marks # {}
    /\ mem' = MarkConsumed(First(task.marks))
    /\ task' = [task EXCEPT !.marks = @ \ {First(@)}]
    /\ RestUnchanged

MarkFails ==
    /\ task.step \in {"dups", "mark"} /\ task.marks # {}
    /\ task' = [task EXCEPT !.marks = @ \ {First(@)}]
    /\ Fails

EndMarks ==
    /\ task.step \in {"dups", "mark"} /\ task.marks = {}
    /\ task' = [task EXCEPT !.step = IF @ = "dups" THEN "merge" ELSE "next"]
    /\ TablesUnchanged

\* What the model answers: merged memories that name disjoint sources, and need not name all.
Answers(ids) ==
    {out \in SUBSET (SUBSET ids \ {{}}) : \A s, t \in out : s # t => s \cap t = {}}

\* Mutant: the sources are marked before anything is written.
MarksFirst(out) ==
    [task EXCEPT !.step = "mark", !.writes = out, !.marks = UNION out]

Reduced(out) ==
    [task EXCEPT !.step = "write", !.writes = out, !.marks = UNION out]

\* Mutant: a batch that cannot be reduced is passed over.
UnreducedSkipped == [task EXCEPT !.step = "mark"]

\* Without a reduction every source of the batch is marked, and nothing is written.
Unreduced == [task EXCEPT !.step = "mark", !.marks = task.ids]

Merge(out) ==
    /\ At("merge") /\ out \in Answers(task.ids)
    /\ IF Cardinality(out) >= Cardinality(task.ids)
       THEN /\ task' = Unreduced
            /\ excused' = excused \cup task.ids
       ELSE /\ task' = Reduced(out)
            /\ UNCHANGED excused
    /\ UNCHANGED <<mem, forgotten, errors, faults>>

\* The call fails or its answer does not parse; the batch is listed again by the next run.
MergeFails ==
    /\ At("merge")
    /\ task' = [task EXCEPT !.step = "next"]
    /\ Fails

\* Write goes through IngestMemory: a text that has a row already makes no second one, and
\* the row keeps its phase.  Otherwise an organized memory without a project is inserted.
Write ==
    /\ At("write")
    /\ \E s \in task.writes :
         LET text == UNION {mem[i].text : i \in s}
             same == {i \in Ids : Live(i) /\ mem[i].text = text}
             next == [task EXCEPT !.step = "project", !.writes = @ \ {s}]
         IN  IF same # {}
             THEN /\ task' = [next EXCEPT !.written = First(same)]
                  /\ excused' = excused \cup same
                  /\ UNCHANGED mem
             ELSE /\ Len(mem) < MaxRows
                  /\ mem' = Append(mem, [text |-> text, phase |-> "organized",
                                         project |-> NoProject, marks |-> {}])
                  /\ task' = [next EXCEPT !.written = Len(mem) + 1]
                  /\ UNCHANGED excused
    /\ UNCHANGED <<forgotten, errors, faults>>

\* The memory is not written, and yet its sources will be marked.
WriteFails ==
    /\ At("write")
    /\ \E s \in task.writes : task' = [task EXCEPT !.writes = @ \ {s}]
    /\ Fails

\* A second statement, whose error is dropped; only phase B marks what it has written.
setProjectOnMemory ==
    /\ At("project")
    /\ mem' = IF Live(task.written) THEN [mem EXCEPT ![task.written].project = task.project]
                                    ELSE mem
    /\ task' = [task EXCEPT !.step = IF task.phase = "A" THEN "write" ELSE "written"]
    /\ RestUnchanged

setProjectFails ==
    /\ At("project")
    /\ task' = [task EXCEPT !.step = IF task.phase = "A" THEN "write" ELSE "written"]
    /\ Fails

MarkWritten ==
    /\ At("written")
    /\ mem' = MarkConsumed(task.written)
    /\ task' = [task EXCEPT !.step = "write"]
    /\ RestUnchanged

EndWrites ==
    /\ At("write") /\ task.writes = {}
    /\ task' = [task EXCEPT !.step = "mark"]
    /\ TablesUnchanged

-----------------------------------------------------------------------------
(* The rest of the system *)

\* A settled memory arrives, from the pipeline or a write, in words no other has.
Arrive(n) ==
    /\ Len(mem) < MaxRows
    /\ \A k \in 1 .. n : (k < n) <=> \E i \in Ids : mem[i].text = Arrival[k].text
    /\ mem' = Append(mem, Arrival[n])
    /\ UNCHANGED task /\ RestUnchanged

Delete(i) ==
    /\ Live(i) /\ faults < MaxFaults
    /\ mem' = [mem EXCEPT ![i].phase = "deleted"]
    /\ forgotten' = forgotten \cup mem[i].text
    /\ faults' = faults + 1
    /\ UNCHANGED <<task, excused, errors>>

Step ==
    \/ ListProcessed \/ ListOrganized \/ NextGroup \/ Done \/ Mark \/ EndMarks
    \/ \E out \in Answers(task.ids) : Merge(out)
    \/ Write \/ setProjectOnMemory \/ MarkWritten \/ EndWrites

\* An answer that names every source it was given.
FullAnswer(p) ==
    task.project = p /\ \E out \in Answers(task.ids) : UNION out = task.ids /\ Merge(out)

-----------------------------------------------------------------------------
(* Properties *)

TypeOK ==
    /\ mem \in Seq(Row)
    /\ task.step \in {"idle", "next", "dups", "merge", "write", "project", "written", "mark"}
    /\ task.ids \cup task.marks \subseteq Ids /\ task.written \in Ids \cup {0}
    /\ task.writes \subseteq SUBSET Ids
    /\ excused \subseteq Ids /\ errors <= faults /\ faults \in 0 .. MaxFaults

\* "A processor marks a memory consumed, never removes it" (consolidate_llm.go:145): what a
\* consumed fact says is said by an organized memory, whenever the daemon is killed, unless
\* the model left the fact in its own words or a person deleted the memory.
ConsumedIsMerged ==
    errors = 0 =>
      \A i \in InPhase("processed") :
         Consumed(i) /\ i \notin excused =>
           mem[i].text \subseteq forgotten \cup
              UNION {mem[j].text : j \in InPhase("organized") \cup (excused \ {i})}

\* No project keeps two mergeable facts for ever.
BacklogShrinks ==
    \A p \in Project : <>[](Cardinality(Of(p, codeDedup(Unconsolidated))) < 2)
=============================================================================
