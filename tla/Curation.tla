------------------------------ MODULE Curation ------------------------------
(***************************************************************************)
(* The daemon's loop (daemon/daemon.go) with the two tasks that curate the *)
(* settled memories: they run one after the other, on one table, and each  *)
(* has a bit of its own in consumed_mask.                                  *)
(***************************************************************************)
EXTENDS Consolidation

CONSTANTS PerTick, EnrichBatchSize

VARIABLES
    topics, enr,  \* EnrichTagsTask
    turn          \* the task whose turn it is

INSTANCE Enrichment

enrVars == <<topics, enr>>
allVars == <<vars, enrVars, turn>>

\* A daemon that starts runs its tasks at once.
CurationInit == Init /\ EnrichInit /\ turn = "consolidate-llm"

\* runTasks: in the order of AddTask, each to its end.
Consolidate ==
    /\ turn = "consolidate-llm"
    /\ Step
    /\ turn' = IF task.step # "idle" /\ task'.step = "idle" THEN "enrich-tags" ELSE turn
    /\ UNCHANGED enrVars

Enrich ==
    /\ turn = "enrich-tags"
    /\ EnrichStep
    /\ turn' = IF enr.step # "idle" /\ enr'.step = "idle" THEN "consolidate-llm" ELSE turn
    /\ UNCHANGED <<task, excused, forgotten, errors, faults>>

EnrichFails ==
    /\ ConceptTagsFails \/ TagFails
    /\ faults < MaxFaults /\ faults' = faults + 1 /\ errors' = errors + 1
    /\ UNCHANGED <<task, excused, forgotten, turn>>

\* SIGKILL; a signal that asks the daemon to stop waits for the tasks.
KillDaemon ==
    /\ faults < MaxFaults /\ faults' = faults + 1
    /\ task' = Idle /\ enr' = EnrIdle /\ turn' = "consolidate-llm"
    /\ UNCHANGED <<mem, excused, forgotten, errors, topics>>

Others ==
    /\ \/ MarkFails \/ MergeFails \/ WriteFails \/ setProjectFails
       \/ \E n \in DOMAIN Arrival : Arrive(n)
       \/ \E i \in Ids : Delete(i)
    /\ UNCHANGED <<enrVars, turn>>

CurationNext == Consolidate \/ Enrich \/ EnrichFails \/ KillDaemon \/ Others

CurationSpec == CurationInit /\ [][CurationNext]_allVars

\* The ticker fires again and again, and calls of the model come to an end; of the answers
\* for a project there is again and again one that names every source.
FairCuration ==
    /\ CurationSpec
    /\ WF_allVars(Consolidate \/ Enrich)
    /\ \A p \in Project : SF_allVars(FullAnswer(p) /\ Consolidate)

-----------------------------------------------------------------------------

CurationTypeOK ==
    /\ TypeOK
    /\ topics \cup enr.pending \cup enr.batch \subseteq Ids
    /\ enr.given \subseteq Ids
    /\ turn \in {"consolidate-llm", "enrich-tags"}
    /\ task.step # "idle" => turn = "consolidate-llm" /\ enr = EnrIdle

\* "A processor marks a memory consumed, never removes it" (consolidate_llm.go:145), and
\* "concurrent consumers can never lose each other's marks" (consumers.go:6): the tasks
\* remove no memory, only a person does, and no mark of either task is taken back.
NothingRemoved ==
    [][\A i \in Ids : Live(i) =>
         /\ mem'[i].phase = mem[i].phase \/ Delete(i)
         /\ mem[i].marks \subseteq mem'[i].marks]_allVars

\* Every memory is enriched in the end, newly merged ones included.
AllEnriched == \A i \in 1 .. MaxRows : []<>(i \in Ids /\ Live(i) => Bit \in mem[i].marks)
=============================================================================
