----------------------------- MODULE Enrichment -----------------------------
(***************************************************************************)
(* EnrichTagsTask (daemon/enrich.go): topic tags from the language model   *)
(* for every settled memory, newest first, a few per run.  It shares the   *)
(* table memories with other tasks; a row has a mark for each consumer.    *)
(***************************************************************************)
EXTENDS Naturals, FiniteSets, FiniteSetsExt

CONSTANTS
    PerTick,         \* memories per run (enrichPerTick)
    EnrichBatchSize  \* memories per call of the model

VARIABLES
    mem,      \* the table memories
    topics,   \* rows with topic tags
    enr       \* where the task is, with its locals

Bit == "enrich-tags"
EnrIdle == [step |-> "idle", pending |-> {}, batch |-> {}, given |-> {}]

EnrichInit == topics = {} /\ enr = EnrIdle

\* The first n of the list, which is newest first.
Newest(ids, n) == {i \in ids : Cardinality({j \in ids : j > i}) < n}

Pending == {i \in DOMAIN mem : mem[i].phase # "deleted" /\ Bit \notin mem[i].marks}

EnrichList ==
    /\ enr.step = "idle"
    /\ enr' = [EnrIdle EXCEPT !.step = "next", !.pending = Newest(Pending, PerTick)]
    /\ UNCHANGED <<mem, topics>>

EnrichDone ==
    /\ enr.step = "next" /\ enr.pending = {}
    /\ enr' = EnrIdle
    /\ UNCHANGED <<mem, topics>>

\* The answer may be shorter than the batch, or have nothing to say of a memory.
ConceptTags ==
    /\ enr.step = "next" /\ enr.pending # {}
    /\ LET batch == Newest(enr.pending, EnrichBatchSize) IN
         \E given \in SUBSET batch :
           enr' = [enr EXCEPT !.step = "tag", !.pending = @ \ batch, !.batch = batch,
                              !.given = given]
    /\ UNCHANGED <<mem, topics>>

\* The batch is passed over, and comes first again in the next run.
ConceptTagsFails ==
    /\ enr.step = "next" /\ enr.pending # {}
    /\ enr' = [enr EXCEPT !.pending = @ \ Newest(@, EnrichBatchSize)]
    /\ UNCHANGED <<mem, topics>>

\* Mutant: a memory the model has no topics for is passed over, and stays pending.
TagGivenOnly ==
    /\ enr.step = "tag" /\ enr.batch # {}
    /\ LET i == Max(enr.batch) IN
         IF i \in enr.given
         THEN enr' = [enr EXCEPT !.step = "mark"] /\ topics' = topics \cup {i}
         ELSE enr' = [enr EXCEPT !.batch = @ \ {i}] /\ UNCHANGED topics
    /\ UNCHANGED mem

\* Tag looks for the row, and fails without one: the memory is passed over.
Tag ==
    /\ enr.step = "tag" /\ enr.batch # {}
    /\ LET i == Max(enr.batch) IN
         IF i \in enr.given /\ mem[i].phase = "deleted"
         THEN enr' = [enr EXCEPT !.batch = @ \ {i}] /\ UNCHANGED topics
         ELSE enr' = [enr EXCEPT !.step = "mark"] /\ topics' = topics \cup (enr.given \cap {i})
    /\ UNCHANGED mem

TagFails ==
    /\ enr.step = "tag" /\ enr.batch \cap enr.given # {}
    /\ enr' = [enr EXCEPT !.batch = @ \ {Max(@)}]
    /\ Max(enr.batch) \in enr.given
    /\ UNCHANGED <<mem, topics>>

EnrichMark ==
    /\ enr.step = "mark"
    /\ LET i == Max(enr.batch) IN
         /\ mem' = IF mem[i].phase = "deleted" THEN mem
                   ELSE [mem EXCEPT ![i].marks = @ \cup {Bit}]
         /\ enr' = [enr EXCEPT !.step = "tag", !.batch = @ \ {i}]
    /\ UNCHANGED topics

EnrichNext ==
    /\ enr.step = "tag" /\ enr.batch = {}
    /\ enr' = [enr EXCEPT !.step = "next", !.given = {}]
    /\ UNCHANGED <<mem, topics>>

EnrichStep ==
    EnrichList \/ EnrichDone \/ ConceptTags \/ Tag \/ EnrichMark \/ EnrichNext
=============================================================================
