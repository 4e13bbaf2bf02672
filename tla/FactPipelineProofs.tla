------------------------- MODULE FactPipelineProofs -------------------------
(***************************************************************************)
(* The fact pipeline for every number of captures and sessions, every      *)
(* budget and any number of kills, failures and deletes.                   *)
(***************************************************************************)
EXTENDS FactPipeline, FiniteSetTheorems, SequenceTheorems, TLAPS

\* What is taken from a session fits into the budget of the run.
BudgetInv == run.chunks + Len(run.todo) <= MaxChunks

-----------------------------------------------------------------------------
(* Lemmas about chunks *)

LEMMA Division ==
    ASSUME NEW a \in Nat, NEW b \in Nat \ {0}
    PROVE  (a + b - 1) \div b \in Nat
  OBVIOUS

LEMMA ChunksType ==
    ASSUME NEW cs \in SUBSET Capture
    PROVE  Chunks(cs) \in Seq(Sources)
<1>1. Cardinality(cs) \in Nat
  BY PipelineAssumption, FS_Subset, FS_CardinalityType
<1>2. ChunkSize \in Nat \ {0}
  BY PipelineAssumption
<1>3. (Cardinality(cs) + ChunkSize - 1) \div ChunkSize \in Nat
  BY <1>1, <1>2, Division
<1> DEFINE n == (Cardinality(cs) + ChunkSize - 1) \div ChunkSize
           chunk(i) == {c \in cs : Rank(c, cs) \div ChunkSize = i - 1}
<1>4. \A i \in 1 .. n : chunk(i) \in Sources
  BY DEF Sources
<1>5. Chunks(cs) = [i \in 1 .. n |-> chunk(i)]
  BY DEF Chunks
<1> HIDE DEF n, chunk
<1>6. n \in Nat
  BY <1>3 DEF n
<1> QED
  BY <1>4, <1>5, <1>6

LEMMA TrimmedType ==
    ASSUME NEW cs \in SUBSET Capture, run.chunks \in Nat, run.chunks <= MaxChunks
    PROVE  /\ Trimmed(cs) \in Seq(Sources)
           /\ run.chunks + Len(Trimmed(cs)) <= MaxChunks
<1> DEFINE left == MaxChunks - run.chunks
           n == IF Len(Chunks(cs)) > left THEN left ELSE Len(Chunks(cs))
<1>1. left \in Nat /\ MaxChunks \in Nat
  BY PipelineAssumption
<1>2. Chunks(cs) \in Seq(Sources)
  BY ChunksType
<1>3. Trimmed(cs) = SubSeq(Chunks(cs), 1, n)
  BY DEF Trimmed
<1>4. n \in Nat /\ n <= Len(Chunks(cs)) /\ n <= left
  BY <1>1, <1>2
<1> HIDE DEF n
<1>5. SubSeq(Chunks(cs), 1, n) \in Seq(Sources) /\ Len(SubSeq(Chunks(cs), 1, n)) = n
  BY <1>2, <1>4
<1> QED
  BY <1>1, <1>3, <1>4, <1>5
-----------------------------------------------------------------------------
(* Type correctness *)

TypeInv == TypeOK /\ BudgetInv

\* The locals of the task at every kind of step.
Run ==
    [step : Steps, listed : Sources, todo : Seq(Sources), results : Seq(Sources),
     sources : Seq(Sources), told : Sources, silent : Sources,
     sessions : 0 .. MaxSessions, chunks : 0 .. MaxChunks, calls : Nat]

LEMMA IdleType == Idle \in Run /\ Idle.chunks = 0 /\ Idle.todo = <<>>
  BY PipelineAssumption DEF Idle, Run, Steps, Sources

LEMMA Statics ==
    ASSUME TypeOK
    PROVE  /\ run \in Run
           /\ \A c \in Capture : Answer(c) \in {"none", "unseen", "nothing", "facts"}
           /\ MaxSessions \in Nat /\ MaxChunks \in Nat
  BY PipelineAssumption DEF TypeOK, Run, Answer

\* Steps that change nothing but the locals of the task.
LEMMA StoreKept ==
    ASSUME TypeOK, StoreUnchanged, run' \in Run, BudgetInv'
    PROVE  TypeInv'
  BY DEF StoreUnchanged, tables, faults, TypeInv, TypeOK, Existing, Run

\* Steps that fail.
LEMMA FailKept ==
    ASSUME TypeOK, Fails, UNCHANGED <<tables, engine, answer, plugged>>, run' \in Run,
           BudgetInv'
    PROVE  TypeInv'
  BY DEF Fails, tables, TypeInv, TypeOK, Existing, Run

\* A capture is taken from the source that is being marked.
LEMMA DropType ==
    ASSUME NEW c \in Capture, run \in Run, Source(c), Drop(c)
    PROVE  run' \in Run /\ run'.chunks = run.chunks /\ run'.todo = run.todo
<1> DEFINE left == Head(run.sources) \ {c}
           rest == Tail(run.sources)
<1>1. Head(run.sources) \in Sources /\ Tail(run.sources) \in Seq(Sources)
  BY DEF Source, Run
<1>2. left \in Sources /\ rest \in Seq(Sources)
  BY <1>1 DEF Sources
<1>3. run' = [run EXCEPT !.step = IF @ = "flip" THEN "mark" ELSE @,
                         !.sources = <<left>> \o rest]
  BY DEF Drop, Run
<1> HIDE DEF left, rest
<1>4. <<left>> \o rest \in Seq(Sources)
  BY <1>2
<1> QED
  BY <1>3, <1>4 DEF Run, Steps

\* What an answer leaves in the locals: facts of some of the captures, nothing of the
\* others.
LEMMA ToldIs ==
    ASSUME NEW r \in Run, NEW cs \in Sources, NEW spoken \in SUBSET cs
    PROVE  /\ Told(r, cs, spoken) \in Run
           /\ Told(r, cs, spoken) =
                [r EXCEPT !.told = r.told \cup spoken, !.silent = r.silent \cup (cs \ spoken),
                          !.results = IF spoken = {} THEN r.results
                                                     ELSE Append(r.results, spoken)]
<1> DEFINE told == r.told \cup spoken
           silent == r.silent \cup (cs \ spoken)
           results == IF spoken = {} THEN r.results ELSE Append(r.results, spoken)
<1>1. /\ told \in Sources /\ silent \in Sources /\ results \in Seq(Sources)
  <2>1. spoken \in Sources
    BY DEF Sources
  <2> QED
    BY <2>1 DEF Run, Sources
<1>2. Told(r, cs, spoken) = [r EXCEPT !.told = told, !.silent = silent, !.results = results]
  BY DEF Told, Run
<1> HIDE DEF told, silent, results
<1>3. Told(r, cs, spoken) \in Run
  BY <1>1, <1>2 DEF Run
<1> QED
  BY <1>2, <1>3 DEF told, silent, results

\* A call of the plugin engine that is answered.
LEMMA ExtractIs ==
    ASSUME TypeInv, Extract
    PROVE  /\ Head(run.todo) \in Sources /\ Tail(run.todo) \in Seq(Sources)
           /\ run' \in Run
           /\ run'.todo = Tail(run.todo) /\ Len(run'.todo) = Len(run.todo) - 1
           /\ run'.chunks = run.chunks + 1 /\ run'.calls = run.calls + 1
           /\ run'.step = run.step /\ run'.listed = run.listed /\ run'.sources = run.sources
           /\ \E spoken \in SUBSET Head(run.todo) :
                /\ run'.told = run.told \cup spoken
                /\ run'.silent = run.silent \cup (Head(run.todo) \ spoken)
                /\ run'.results = IF spoken = {} THEN run.results
                                                  ELSE Append(run.results, spoken)
<1>0. run \in Run /\ MaxChunks \in Nat /\ run.chunks + Len(run.todo) <= MaxChunks
  BY Statics DEF TypeInv, BudgetInv
<1> DEFINE chunk == Head(run.todo)
           rest == Tail(run.todo)
           n == run.chunks + 1
           m == run.calls + 1
           answered == [run EXCEPT !.todo = rest, !.chunks = n, !.calls = m]
<1>1. /\ chunk \in Sources /\ rest \in Seq(Sources)
      /\ Len(rest) = Len(run.todo) - 1 /\ Len(run.todo) \in Nat
  BY <1>0 DEF Extract, Run
<1>2. n \in 0 .. MaxChunks /\ m \in Nat
  BY <1>0, <1>1 DEF Run, Extract
<1>3. PICK spoken \in SUBSET chunk :
        run' = Told([run EXCEPT !.todo = Tail(@), !.chunks = @ + 1, !.calls = @ + 1],
                    chunk, spoken)
  BY DEF Extract
<1>4. run' = Told(answered, chunk, spoken)
  <2>1. [run EXCEPT !.todo = Tail(@), !.chunks = @ + 1, !.calls = @ + 1] = answered
    BY <1>0 DEF Run
  <2> QED
    BY <1>3, <2>1, Zenon
<1> HIDE DEF chunk, rest, n, m
<1>5. /\ answered \in Run /\ answered.chunks = n /\ answered.todo = rest
      /\ answered.calls = m
      /\ answered.told = run.told /\ answered.silent = run.silent
      /\ answered.results = run.results /\ answered.step = run.step
      /\ answered.listed = run.listed /\ answered.sources = run.sources
  BY <1>0, <1>1, <1>2 DEF Run
<1> HIDE DEF answered
<1>6. /\ run' \in Run
      /\ run' = [answered EXCEPT !.told = answered.told \cup spoken,
                                 !.silent = answered.silent \cup (chunk \ spoken),
                                 !.results = IF spoken = {} THEN answered.results
                                               ELSE Append(answered.results, spoken)]
  <2>1. answered \in Run /\ chunk \in Sources /\ spoken \in SUBSET chunk
    BY <1>1, <1>3, <1>5
  <2> QED
    BY <2>1, <1>4, ToldIs, ZenonT(30)
<1>7. /\ run'.chunks = n /\ run'.todo = rest /\ run'.calls = m /\ run'.step = run.step
      /\ run'.listed = run.listed /\ run'.sources = run.sources
      /\ run'.told = run.told \cup spoken
      /\ run'.silent = run.silent \cup (chunk \ spoken)
      /\ run'.results = IF spoken = {} THEN run.results ELSE Append(run.results, spoken)
  BY <1>5, <1>6 DEF Run
<1> QED
  BY <1>1, <1>6, <1>7 DEF chunk, rest, n, m

\* A session of the legacy engine that is answered for.
LEMMA SessionIs ==
    ASSUME TypeOK, NEW s \in Session, ExtractSession(s)
    PROVE  /\ Of(s, run.listed) \in Sources
           /\ run' \in Run
           /\ run'.todo = run.todo /\ run'.chunks = run.chunks /\ run'.calls = run.calls
           /\ run'.step = run.step
           /\ run'.sources = Append(run.sources, Of(s, run.listed))
           /\ \E spoken \in SUBSET Of(s, run.listed) :
                /\ run'.told = run.told \cup spoken
                /\ run'.silent = run.silent \cup (Of(s, run.listed) \ spoken)
                /\ run'.results = IF spoken = {} THEN run.results
                                                  ELSE Append(run.results, spoken)
<1>0. run \in Run
  BY Statics
<1> DEFINE items == Of(s, run.listed)
           answered == [run EXCEPT !.listed = @ \ items, !.sources = Append(@, items)]
<1>1. items \in Sources
  BY <1>0 DEF Of, Run, Sources
<1>2. PICK spoken \in SUBSET items : run' = Told(answered, items, spoken)
  BY DEF ExtractSession
<1> HIDE DEF items
<1>3. run.listed \ items \in Sources /\ Append(run.sources, items) \in Seq(Sources)
  BY <1>0, <1>1 DEF Run, Sources
<1>4. /\ answered \in Run /\ answered.chunks = run.chunks /\ answered.todo = run.todo
      /\ answered.calls = run.calls
      /\ answered.told = run.told /\ answered.silent = run.silent
      /\ answered.results = run.results /\ answered.step = run.step
      /\ answered.sources = Append(run.sources, items)
  BY <1>0, <1>3 DEF Run
<1> HIDE DEF answered
<1>5. /\ run' \in Run
      /\ run' = [answered EXCEPT !.told = answered.told \cup spoken,
                                 !.silent = answered.silent \cup (items \ spoken),
                                 !.results = IF spoken = {} THEN answered.results
                                               ELSE Append(answered.results, spoken)]
  <2>1. answered \in Run /\ items \in Sources /\ spoken \in SUBSET items
    BY <1>1, <1>2, <1>4
  <2> QED
    BY <2>1, <1>2, ToldIs, ZenonT(30)
<1>6. /\ run'.chunks = run.chunks /\ run'.todo = run.todo /\ run'.calls = run.calls
      /\ run'.step = run.step /\ run'.sources = Append(run.sources, items)
      /\ run'.told = run.told \cup spoken
      /\ run'.silent = run.silent \cup (items \ spoken)
      /\ run'.results = IF spoken = {} THEN run.results ELSE Append(run.results, spoken)
  BY <1>4, <1>5 DEF Run
<1> QED
  BY <1>1, <1>5, <1>6 DEF items

\* What the model made of the results speaks of some of their captures; of the others
\* nothing is kept.
LEMMA MergeIs ==
    ASSUME TypeOK, Merge
    PROVE  /\ run' \in Run
           /\ run'.step = "write" /\ run'.told = UNION ToSet(run'.results)
           /\ run'.told \subseteq UNION ToSet(run.results)
           /\ run.told \cup run.silent \subseteq run'.told \cup run'.silent
           /\ run'.todo = run.todo /\ run'.chunks = run.chunks /\ run'.calls = run.calls
           /\ run'.listed = run.listed /\ run'.sources = run.sources
<1>0. run \in Run
  BY Statics
<1>1. PICK merged \in Merges(run.results) :
        run' = [run EXCEPT !.step = "write", !.results = merged,
                           !.told = UNION ToSet(merged),
                           !.silent = (@ \cup run.told) \ UNION ToSet(merged)]
  BY DEF Merge
<1> DEFINE all == UNION ToSet(run.results)
           kept == UNION ToSet(merged)
           silent == (run.silent \cup run.told) \ kept
<1>2. PICK n \in 0 .. Len(run.results) : merged \in [1 .. n -> (SUBSET all) \ {{}}]
  BY <1>1 DEF Merges
<1>3. all \in Sources
  BY <1>0 DEF Run, ToSet, Sources
<1>4. n \in Nat
  BY <1>0, <1>2 DEF Run
<1> HIDE DEF all
<1>5. \A i \in 1 .. n : merged[i] \in SUBSET all /\ merged[i] \in Sources
  BY <1>2, <1>3 DEF Sources
<1>6. merged \in Seq(Sources) /\ DOMAIN merged = 1 .. n
  BY <1>2, <1>4, <1>5
<1>7. kept \in SUBSET all
  BY <1>5, <1>6 DEF ToSet
<1>8. kept \in Sources /\ silent \in Sources
  BY <1>0, <1>3, <1>7 DEF Sources, Run
<1>9. run' = [run EXCEPT !.step = "write", !.results = merged, !.told = kept,
                         !.silent = silent]
  BY <1>0, <1>1 DEF Run
<1>10. run.told \cup run.silent \subseteq kept \cup silent
  OBVIOUS
<1> HIDE DEF silent
<1>11. /\ run' \in Run /\ run'.step = "write" /\ run'.results = merged
       /\ run'.told = kept /\ run'.silent = silent
       /\ run'.todo = run.todo /\ run'.chunks = run.chunks /\ run'.calls = run.calls
       /\ run'.listed = run.listed /\ run'.sources = run.sources
  <2> HIDE DEF kept
  <2>1. "write" \in Steps
    BY DEF Steps
  <2> QED
    BY <1>0, <1>6, <1>8, <1>9, <2>1 DEF Run
<1> QED
  BY <1>7, <1>10, <1>11 DEF all

LEMMA PluginTypes ==
    ASSUME TypeInv, PluginStep
    PROVE  TypeInv'
<1> USE DEF TypeInv, BudgetInv
<1>0. run \in Run /\ MaxSessions \in Nat /\ MaxChunks \in Nat
  BY Statics
<1>1. CASE CheckThreshold \/ EndSessions \/ EndChunks \/ StartMarks
  BY <1>1, <1>0 DEF CheckThreshold, EndSessions, EndChunks, StartMarks, Go, StoreUnchanged,
       tables, faults, TypeOK, Existing, Steps, Run
<1>2. CASE ListUnconsumed
  <2>1. Unconsumed \in Sources
    BY DEF Unconsumed, Inbox, Sources
  <2>2. run' \in Run /\ run'.chunks + Len(run'.todo) <= MaxChunks
    <3>1. run' = Idle \/ run' = [Idle EXCEPT !.step = "session", !.listed = Unconsumed]
      BY <1>2 DEF ListUnconsumed
    <3>2. "session" \in Steps
      BY DEF Steps
    <3>3. run' \in Run /\ run'.chunks = 0 /\ run'.todo = <<>>
      BY <2>1, <3>1, <3>2, IdleType DEF Run
    <3> QED
      BY <1>0, <3>3
  <2> QED
    BY <1>2, <2>2, StoreKept DEF ListUnconsumed
<1>3. CASE NextSession
  <2>1. PICK s \in SessionsIn(run.listed) :
          LET items == Of(s, run.listed) IN
            run' = [run EXCEPT !.step = "extract", !.listed = @ \ items,
                               !.sources = Append(@, Taken(items)), !.todo = Trimmed(items),
                               !.sessions = @ + 1]
    BY <1>3 DEF NextSession
  <2> DEFINE items == Of(s, run.listed)
  <2>2. items \in SUBSET Capture /\ items \in Sources
    BY <1>0 DEF Of, Run, Sources
  <2>3. Trimmed(items) \in Seq(Sources) /\ run.chunks + Len(Trimmed(items)) <= MaxChunks
    BY <1>0, <2>2, TrimmedType DEF Run
  <2>4. run.sessions < MaxSessions
    BY <1>3 DEF NextSession
  <2> HIDE DEF items
  <2>5. run' = [run EXCEPT !.step = "extract", !.listed = @ \ items,
                           !.sources = Append(@, items), !.todo = Trimmed(items),
                           !.sessions = @ + 1]
    BY <2>1, Zenon DEF items, Taken
  <2>6. run' \in Run /\ run'.chunks + Len(run'.todo) <= MaxChunks
    <3>1. Append(run.sources, items) \in Seq(Sources)
      BY <1>0, <2>2 DEF Run
    <3>2. run.sessions + 1 \in 0 .. MaxSessions
      BY <1>0, <2>4 DEF Run
    <3>3. run.listed \ items \in Sources
      BY <1>0 DEF Run, Sources
    <3>4. "extract" \in Steps
      BY DEF Steps
    <3> QED
      BY <1>0, <2>3, <2>5, <3>1, <3>2, <3>3, <3>4 DEF Run
  <2> QED
    BY <1>3, <2>6, StoreKept DEF NextSession
<1>4. CASE Extract
  <2>1. /\ run' \in Run /\ Len(run'.todo) = Len(run.todo) - 1
        /\ run'.chunks = run.chunks + 1
    BY <1>4, ExtractIs
  <2>2. run.chunks \in Nat /\ Len(run.todo) \in Nat
    BY <1>0 DEF Run
  <2>3. run'.chunks + Len(run'.todo) <= MaxChunks
    BY <1>0, <2>1, <2>2
  <2> QED
    BY <1>4, <2>1, <2>3, StoreKept DEF Extract
<1>5. CASE Route
  <2>1. Head(run.results) \in Sources /\ Tail(run.results) \in Seq(Sources)
    BY <1>0, <1>5 DEF Route, Run
  <2>2. run' \in Run /\ run'.chunks + Len(run'.todo) <= MaxChunks
    BY <1>0, <1>5, <2>1 DEF Route, Run
  <2> QED
    BY <1>5, <2>1, <2>2 DEF Route, RestUnchanged, faults, TypeOK, Existing, Run
<1>6. CASE EndSource \/ EndMarks
  <2>1. run' \in Run /\ run'.chunks + Len(run'.todo) <= MaxChunks
    <3>1. CASE EndSource
      <4>1. Tail(run.sources) \in Seq(Sources)
        BY <1>0, <3>1 DEF EndSource, Run
      <4> QED
        BY <1>0, <3>1, <4>1 DEF EndSource, Run
    <3>2. CASE EndMarks
      BY <1>0, <3>2, IdleType DEF EndMarks, Idle
    <3> QED
      BY <1>6, <3>1, <3>2
  <2> QED
    BY <1>6, <2>1, StoreKept DEF EndSource, EndMarks
<1>7. ASSUME NEW c \in Capture, MarkConsumed(c)
      PROVE  TypeInv'
  <2>1. run' \in Run /\ run'.chunks + Len(run'.todo) <= MaxChunks
    BY <1>0, <1>7 DEF MarkConsumed, Go, Run, Steps
  <2>2. answer' \in [Capture -> {"none", "unseen", "nothing", "facts"}]
    BY <1>7, Statics DEF MarkConsumed, Note, TypeOK
  <2> QED
    BY <1>7, <2>1, <2>2 DEF MarkConsumed, SetBit, RestUnchanged, faults, TypeOK, Existing, Run
<1>8. ASSUME NEW c \in Capture, MarkProcessed(c)
      PROVE  TypeInv'
  <2>1. run' \in Run /\ run'.chunks + Len(run'.todo) <= MaxChunks
    BY <1>0, <1>8, DropType DEF MarkProcessed
  <2> QED
    BY <1>8, <2>1 DEF MarkProcessed, Processed, RestUnchanged, faults, TypeOK, Existing, Run
<1> QED
  BY <1>1, <1>2, <1>3, <1>4, <1>5, <1>6, <1>7, <1>8 DEF PluginStep
LEMMA LegacyTypes ==
    ASSUME TypeInv, LegacyStep
    PROVE  TypeInv'
<1> USE DEF TypeInv, BudgetInv
<1>0. run \in Run /\ MaxSessions \in Nat /\ MaxChunks \in Nat
  BY Statics
<1> DEFINE RunKept == run' \in Run /\ run'.chunks + Len(run'.todo) <= MaxChunks
<1>1. CASE ListInbox
  <2>1. Inbox \in Sources /\ "group" \in Steps
    BY DEF Inbox, Sources, Steps
  <2>2. run' = [Idle EXCEPT !.step = "group", !.listed = Inbox]
    BY <1>1 DEF ListInbox
  <2>3. run' \in Run /\ run'.chunks = 0 /\ run'.todo = <<>>
    BY <2>1, <2>2, IdleType DEF Run
  <2>4. RunKept
    BY <1>0, <2>3
  <2> QED
    BY <1>1, <2>4, StoreKept DEF ListInbox
<1>2. CASE EndGroups
  <2>1. run' = Idle \/ run' = [run EXCEPT !.step = "merge"]
    BY <1>2 DEF EndGroups
  <2>2. RunKept
    <3>1. CASE run' = Idle
      BY <1>0, <3>1, IdleType
    <3>2. CASE run' = [run EXCEPT !.step = "merge"]
      BY <1>0, <3>2 DEF Run, Steps
    <3> QED
      BY <2>1, <3>1, <3>2
  <2> QED
    BY <1>2, <2>2, StoreKept DEF EndGroups
<1>3. CASE Merge
  <2>1. RunKept
    BY <1>0, <1>3, MergeIs
  <2> QED
    BY <1>3, <2>1, StoreKept DEF Merge
<1>4. CASE Write
  <2>1. Head(run.results) \in Sources /\ Tail(run.results) \in Seq(Sources)
    BY <1>0, <1>4 DEF Write, Run
  <2>2. RunKept
    BY <1>0, <1>4, <2>1 DEF Write, Run
  <2> QED
    BY <1>4, <2>1, <2>2 DEF Write, RestUnchanged, faults, TypeOK, Existing, Run
<1>5. CASE EndWrites
  <2>1. RunKept
    BY <1>0, <1>5 DEF EndWrites, Go, Run, Steps
  <2> QED
    BY <1>5, <2>1, StoreKept DEF EndWrites
<1>6. ASSUME NEW s \in Session, ExtractSession(s)
      PROVE  TypeInv'
  <2>1. RunKept
    BY <1>0, <1>6, SessionIs
  <2> QED
    BY <1>6, <2>1, StoreKept DEF ExtractSession
<1>7. ASSUME NEW c \in Capture, Flush(c)
      PROVE  TypeInv'
  <2>1. RunKept
    BY <1>0, <1>7, DropType DEF Flush
  <2>2. answer' \in [Capture -> {"none", "unseen", "nothing", "facts"}]
    BY <1>7, Statics DEF Flush, Note, TypeOK
  <2> QED
    BY <1>7, <2>1, <2>2 DEF Flush, Processed, RestUnchanged, faults, TypeOK, Existing, Run
<1> QED
  BY <1>1, <1>2, <1>3, <1>4, <1>5, <1>6, <1>7 DEF LegacyStep

LEMMA FaultTypes ==
    ASSUME TypeInv, Fault
    PROVE  TypeInv'
<1> USE DEF TypeInv, BudgetInv
<1>0. run \in Run /\ MaxSessions \in Nat /\ MaxChunks \in Nat
  BY Statics
<1> DEFINE RunKept == run' \in Run /\ run'.chunks + Len(run'.todo) <= MaxChunks
<1>1. CASE Restart
  <2>1. RunKept
    BY <1>0, <1>1, IdleType DEF Restart
  <2> QED
    BY <1>1, <2>1 DEF Restart, tables, TypeOK, Existing, Run
<1>2. CASE ExtractFails
  <2> DEFINE rest == Tail(run.todo)
             m == run.calls + 1
  <2>1. rest \in Seq(Sources) /\ Len(rest) = Len(run.todo) - 1 /\ m \in Nat
    BY <1>0, <1>2 DEF ExtractFails, Run
  <2>2. run' = [run EXCEPT !.todo = rest, !.calls = m]
    BY <1>0, <1>2 DEF ExtractFails, Run
  <2> HIDE DEF rest, m
  <2>3. run' \in Run /\ run'.chunks = run.chunks /\ run'.todo = rest
    BY <1>0, <2>1, <2>2 DEF Run
  <2>4. run.chunks \in Nat /\ Len(run.todo) \in Nat
    BY <1>0 DEF Run
  <2>5. RunKept
    BY <1>0, <2>1, <2>3, <2>4
  <2> QED
    BY <1>2, <2>5, FailKept DEF ExtractFails
<1>3. CASE StoreFails
  <2>1. Tail(run.results) \in Seq(Sources)
    BY <1>0, <1>3 DEF StoreFails, Run
  <2>2. RunKept
    BY <1>0, <1>3, <2>1 DEF StoreFails, Run
  <2> QED
    BY <1>3, <2>2, FailKept DEF StoreFails
<1>4. CASE MergeFails
  <2>1. RunKept
    BY <1>0, <1>4, IdleType DEF MergeFails
  <2> QED
    BY <1>4, <2>1, FailKept DEF MergeFails
<1>5. ASSUME NEW s \in Session, SkipSession(s)
      PROVE  TypeInv'
  <2>1. RunKept
    BY <1>0, <1>5 DEF SkipSession, Run, Sources
  <2> QED
    BY <1>5, <2>1, FailKept DEF SkipSession
<1>6. ASSUME NEW c \in Capture, MarkFails(c) \/ MarkProcessedFails(c) \/ FlushFails(c)
      PROVE  TypeInv'
  <2>1. Source(c) /\ Drop(c) /\ Fails /\ UNCHANGED <<tables, engine, answer, plugged>>
    BY <1>6 DEF MarkFails, MarkProcessedFails, FlushFails
  <2>2. RunKept
    BY <1>0, <1>6, <2>1, DropType
  <2> QED
    BY <2>1, <2>2, FailKept
<1> QED
  BY <1>1, <1>2, <1>3, <1>4, <1>5, <1>6 DEF Fault

LEMMA RowTypes ==
    ASSUME TypeInv, NEW c \in Capture, CaptureRow(c) \/ Delete(c)
    PROVE  TypeInv'
  BY DEF TypeInv, BudgetInv, CaptureRow, Delete, RestUnchanged, faults, TypeOK, Existing

LEMMA TypeStep == TypeInv /\ [Next]_vars => TypeInv'
<1> SUFFICES ASSUME TypeInv, [Next]_vars
             PROVE  TypeInv'
  OBVIOUS
<1>1. CASE PluginStep \/ LegacyStep \/ Fault
  BY <1>1, PluginTypes, LegacyTypes, FaultTypes
<1>2. CASE \E c \in Capture : CaptureRow(c) \/ Delete(c)
  BY <1>2, RowTypes
<1>3. CASE UNCHANGED vars
  BY <1>3 DEF vars, tables, faults, TypeInv, BudgetInv, TypeOK, Existing
<1> QED
  BY <1>1, <1>2, <1>3 DEF Next

LEMMA TypeInit == Init => TypeInv
<1> SUFFICES ASSUME Init
             PROVE  TypeInv
  OBVIOUS
<1>1. run \in Run /\ run.chunks = 0 /\ run.todo = <<>>
  BY IdleType DEF Init
<1>2. BudgetInv
  BY <1>1, PipelineAssumption DEF BudgetInv
<1>3. TypeOK
  BY <1>1 DEF Init, TypeOK, Existing, Run
<1> QED
  BY <1>2, <1>3 DEF TypeInv

\* The state of the pipeline has its types; among them: only captures that have a row
\* carry a mark, and a run never works on more chunks than its budget.
THEOREM TypeCorrect == Spec => []TypeOK
<1>1. TypeInv => TypeOK
  BY DEF TypeInv
<1> QED
  BY TypeInit, TypeStep, <1>1, PTL DEF Spec

-----------------------------------------------------------------------------
(* Lemmas about the elements of a sequence *)

LEMMA SetOfAppend ==
    ASSUME NEW S, NEW s \in Seq(S), NEW x \in S
    PROVE  ToSet(Append(s, x)) = ToSet(s) \cup {x}
<1>1. /\ Append(s, x) \in Seq(S) /\ Len(Append(s, x)) = Len(s) + 1 /\ Len(s) \in Nat
      /\ Append(s, x)[Len(s) + 1] = x
      /\ \A i \in 1 .. Len(s) : Append(s, x)[i] = s[i]
  OBVIOUS
<1>2. ToSet(s) = {s[i] : i \in 1 .. Len(s)}
  BY DEF ToSet
<1>3. ToSet(Append(s, x)) = {Append(s, x)[i] : i \in 1 .. (Len(s) + 1)}
  BY <1>1 DEF ToSet
<1> QED
  BY <1>1, <1>2, <1>3

LEMMA SetOfTail ==
    ASSUME NEW S, NEW s \in Seq(S), s # <<>>
    PROVE  ToSet(s) = {Head(s)} \cup ToSet(Tail(s))
<1> DEFINE rest == Tail(s)
<1>1. Head(s) = s[1] /\ Len(s) \in Nat /\ DOMAIN s = 1 .. Len(s)
  OBVIOUS
<1>2. /\ rest \in Seq(S) /\ Len(rest) = Len(s) - 1
      /\ \A i \in 1 .. Len(rest) : rest[i] = s[i + 1]
  BY HeadTailProperties
<1>3. ToSet(s) = {s[i] : i \in 1 .. Len(s)}
  BY <1>1 DEF ToSet
<1> HIDE DEF rest
<1>4. Len(rest) \in Nat /\ DOMAIN rest = 1 .. Len(rest)
  BY <1>2
<1>5. ToSet(rest) = {rest[i] : i \in 1 .. Len(rest)}
  BY <1>4 DEF ToSet
<1>6. \A i \in 1 .. Len(s) : i = 1 \/ (i - 1 \in 1 .. Len(rest) /\ s[i] = rest[i - 1])
  BY <1>1, <1>2
<1>7. 1 \in 1 .. Len(s) /\ \A i \in 1 .. Len(rest) : i + 1 \in 1 .. Len(s)
  BY <1>1, <1>2, <1>4
<1>8. \A y : y \in ToSet(s) <=> y = s[1] \/ y \in ToSet(rest)
  BY <1>2, <1>3, <1>5, <1>6, <1>7
<1>9. ToSet(s) = {s[1]} \cup ToSet(rest)
  BY <1>8
<1> QED
  BY <1>1, <1>9 DEF rest

LEMMA SetOfEmpty == ToSet(<<>>) = {}
  BY DEF ToSet

LEMMA SetOfOne ==
    ASSUME NEW x
    PROVE  ToSet(<<x>>) = {x}
  BY DEF ToSet

LEMMA SetOfFront ==
    ASSUME NEW S, NEW s \in Seq(S), NEW x \in S
    PROVE  ToSet(<<x>> \o s) = {x} \cup ToSet(s)
<1> DEFINE t == <<x>> \o s
<1>1. /\ Len(t) = Len(s) + 1 /\ Len(s) \in Nat /\ DOMAIN t = 1 .. (Len(s) + 1)
      /\ t[1] = x
      /\ \A i \in 1 .. Len(s) : t[i + 1] = s[i]
  OBVIOUS
<1>2. ToSet(s) = {s[i] : i \in 1 .. Len(s)}
  BY DEF ToSet
<1>3. ToSet(t) = {t[i] : i \in 1 .. (Len(s) + 1)}
  BY <1>1 DEF ToSet
<1> HIDE DEF t
<1>4. \A i \in 1 .. (Len(s) + 1) : i = 1 \/ (i - 1 \in 1 .. Len(s) /\ t[i] = s[i - 1])
  BY <1>1
<1>5. ToSet(t) = {x} \cup ToSet(s)
  BY <1>1, <1>2, <1>3, <1>4
<1> QED
  BY <1>5 DEF t
LEMMA UnionOfMore ==
    ASSUME NEW A, NEW x
    PROVE  UNION (A \cup {x}) = x \cup UNION A
  OBVIOUS

-----------------------------------------------------------------------------
(* No fact is lost *)

Marking == {"mark", "flip", "flush"}
Pending == UNION ToSet(run.results)
HaveFacts == {c \in Capture : answer[c] = "facts"}

\* Marks are made when nothing is pending; and as long as no statement failed, whatever
\* this run was told facts about is stored or pending.
NothingPending == run.step \in Marking => run.results = <<>>
Covered ==
    errors = 0 => HaveFacts \subseteq UNION facts /\ run.told \subseteq Pending \cup UNION facts

CoverInv == NothingPending /\ Covered

\* Steps that leave answers, facts and results alone.
LEMMA CoverQuiet ==
    ASSUME CoverInv, UNCHANGED <<facts, answer>>, errors' = 0 => errors = 0,
           run'.told = run.told, run'.results = run.results,
           run'.step \in Marking => run.step \in Marking \/ run.results = <<>>
    PROVE  CoverInv'
  BY DEF CoverInv, NothingPending, Covered, HaveFacts, Pending

\* Steps that begin or end a run.
LEMMA CoverFresh ==
    ASSUME CoverInv, UNCHANGED <<facts, answer>>, errors' = 0 => errors = 0,
           run'.told = {}, run'.results = <<>>
    PROVE  CoverInv'
  BY DEF CoverInv, NothingPending, Covered, HaveFacts

\* Steps that keep the answer for some captures.
LEMMA CoverNote ==
    ASSUME TypeInv, CoverInv, NEW c \in Capture, Note(c), run.step \in Marking,
           UNCHANGED <<facts, errors>>, run'.told = run.told, run'.results = run.results
    PROVE  CoverInv'
<1>1. run.results = <<>>
  BY DEF CoverInv, NothingPending
<1>2. Pending = {} /\ Pending' = {}
  BY <1>1, SetOfEmpty DEF Pending
<1>3. ASSUME errors = 0
      PROVE  HaveFacts' \subseteq UNION facts /\ run.told \subseteq UNION facts
  <2>1. run.told \subseteq UNION facts /\ HaveFacts \subseteq UNION facts
    BY <1>2, <1>3 DEF CoverInv, Covered
  <2>2. \A d \in Capture : answer'[d] = IF d = c THEN Answer(c) ELSE answer[d]
    BY DEF Note, TypeInv, TypeOK
  <2>3. Answer(c) = "facts" => c \in run.told
    BY DEF Answer
  <2> QED
    BY <2>1, <2>2, <2>3 DEF HaveFacts
<1> QED
  BY <1>1, <1>2, <1>3 DEF CoverInv, NothingPending, Covered

\* Steps that store the first result.
LEMMA CoverStore ==
    ASSUME TypeInv, CoverInv, run.results # <<>>, run.step \notin Marking,
           facts' = facts \cup {Head(run.results)}, UNCHANGED <<answer, errors>>,
           run' = [run EXCEPT !.results = Tail(@)]
    PROVE  CoverInv'
<1>0. run \in Run /\ run.results \in Seq(Sources)
  BY Statics DEF TypeInv, Run
<1>1. ToSet(run.results) = {Head(run.results)} \cup ToSet(Tail(run.results))
  BY <1>0, SetOfTail
<1>2. run'.results = Tail(run.results) /\ run'.told = run.told /\ run'.step = run.step
  BY <1>0 DEF Run
<1> DEFINE first == Head(run.results)
           rest == Tail(run.results)
<1>3. /\ ToSet(run.results) = ToSet(rest) \cup {first} /\ facts' = facts \cup {first}
      /\ run'.results = rest
  BY <1>1, <1>2
<1> HIDE DEF first, rest
<1>4. Pending = first \cup Pending' /\ UNION facts' = first \cup UNION facts
  <2>1. UNION (ToSet(rest) \cup {first}) = first \cup UNION ToSet(rest)
    BY UnionOfMore
  <2>2. UNION (facts \cup {first}) = first \cup UNION facts
    BY UnionOfMore
  <2>3. Pending = UNION ToSet(run.results) /\ Pending' = UNION ToSet(run'.results)
    BY DEF Pending
  <2> QED
    BY <1>3, <2>1, <2>2, <2>3
<1> QED
  BY <1>2, <1>4 DEF CoverInv, NothingPending, Covered, HaveFacts

\* Steps that add a result.
LEMMA CoverTold ==
    ASSUME TypeInv, CoverInv, UNCHANGED <<facts, answer, errors>>, NEW cs \in Sources,
           run'.told = run.told \cup cs, run'.results = Append(run.results, cs),
           run'.step \notin Marking
    PROVE  CoverInv'
<1>0. run.results \in Seq(Sources)
  BY Statics DEF TypeInv, Run
<1>1. ToSet(run'.results) = ToSet(run.results) \cup {cs}
  BY <1>0, SetOfAppend
<1>2. Pending' = Pending \cup cs
  <2>1. UNION (ToSet(run.results) \cup {cs}) = cs \cup UNION ToSet(run.results)
    BY UnionOfMore
  <2>2. Pending = UNION ToSet(run.results) /\ Pending' = UNION ToSet(run'.results)
    BY DEF Pending
  <2> QED
    BY <1>1, <2>1, <2>2
<1> QED
  BY <1>2 DEF CoverInv, NothingPending, Covered, HaveFacts

LEMMA CoverPlugin ==
    ASSUME TypeInv, CoverInv, PluginStep
    PROVE  CoverInv'
<1>0. run \in Run
  BY Statics DEF TypeInv
<1>1. CASE CheckThreshold \/ EndSessions \/ EndChunks \/ StartMarks \/ EndSource
  <2>1. /\ UNCHANGED <<facts, answer, errors>>
        /\ run'.told = run.told /\ run'.results = run.results
        /\ run'.step \in Marking => run.step \in Marking \/ run.results = <<>>
    BY <1>0, <1>1 DEF CheckThreshold, EndSessions, EndChunks, StartMarks, EndSource, At, Go,
         StoreUnchanged, tables, faults, Run, Marking
  <2> QED
    BY <2>1, CoverQuiet
<1>2. CASE NextSession
  <2>1. /\ UNCHANGED <<facts, answer, errors>>
        /\ run'.told = run.told /\ run'.results = run.results /\ run'.step = "extract"
    BY <1>0, <1>2 DEF NextSession, StoreUnchanged, tables, faults, Run
  <2> QED
    BY <2>1, CoverQuiet DEF Marking
<1>3. CASE ListUnconsumed \/ EndMarks
  <2>1. UNCHANGED <<facts, answer, errors>> /\ run'.told = {} /\ run'.results = <<>>
    <3>1. \/ run' = Idle
          \/ run' = [Idle EXCEPT !.step = "session", !.listed = Unconsumed]
      BY <1>3 DEF ListUnconsumed, EndMarks
    <3>2. Idle.told = {} /\ Idle.results = <<>>
      BY DEF Idle
    <3>3. run'.told = {} /\ run'.results = <<>>
      BY <3>1, <3>2, IdleType DEF Run
    <3> QED
      BY <1>3, <3>3 DEF ListUnconsumed, EndMarks, StoreUnchanged, tables, faults
  <2> QED
    BY <2>1, CoverFresh
<1>4. CASE Extract
  <2>1. /\ UNCHANGED <<facts, answer, errors>> /\ run.step = "extract" /\ run'.step = "extract"
    BY <1>4, ExtractIs DEF Extract, At, StoreUnchanged, tables, faults
  <2>2. PICK spoken \in SUBSET Head(run.todo) :
          /\ run'.told = run.told \cup spoken
          /\ run'.results = IF spoken = {} THEN run.results ELSE Append(run.results, spoken)
    BY <1>4, ExtractIs
  <2>3. spoken \in Sources
    BY <1>4, ExtractIs DEF Sources
  <2>4. CASE spoken = {}
    <3>1. run'.told = run.told /\ run'.results = run.results
      BY <2>2, <2>4
    <3> QED
      BY <2>1, <3>1, CoverQuiet DEF Marking
  <2>5. CASE spoken # {}
    BY <2>1, <2>2, <2>3, <2>5, CoverTold DEF Marking
  <2> QED
    BY <2>4, <2>5
<1>5. CASE Route
  <2>1. run.step \notin Marking /\ UNCHANGED <<answer, errors>>
    BY <1>5 DEF Route, At, Marking, RestUnchanged, faults
  <2> QED
    BY <1>5, <2>1, CoverStore DEF Route
<1>6. ASSUME NEW c \in Capture, MarkConsumed(c)
      PROVE  CoverInv'
  <2>1. /\ UNCHANGED <<facts, errors>> /\ run.step \in Marking /\ Note(c)
        /\ run'.told = run.told /\ run'.results = run.results
    BY <1>0, <1>6 DEF MarkConsumed, At, Go, RestUnchanged, faults, Run, Marking
  <2> QED
    BY <2>1, CoverNote
<1>7. ASSUME NEW c \in Capture, MarkProcessed(c)
      PROVE  CoverInv'
  <2>1. /\ UNCHANGED <<facts, answer, errors>> /\ run.step \in Marking
        /\ run'.told = run.told /\ run'.results = run.results
    BY <1>0, <1>7 DEF MarkProcessed, At, Drop, RestUnchanged, faults, Run, Marking
  <2> QED
    BY <2>1, CoverQuiet
<1> QED
  BY <1>1, <1>2, <1>3, <1>4, <1>5, <1>6, <1>7 DEF PluginStep

LEMMA CoverLegacy ==
    ASSUME TypeInv, CoverInv, LegacyStep
    PROVE  CoverInv'
<1>0. run \in Run
  BY Statics DEF TypeInv
<1>1. CASE ListInbox
  <2>1. UNCHANGED <<facts, answer, errors>> /\ run'.told = {} /\ run'.results = <<>>
    BY <1>1 DEF ListInbox, StoreUnchanged, tables, faults, Idle
  <2> QED
    BY <2>1, CoverFresh
<1>2. CASE EndGroups
  <2>1. CASE run' = Idle
    <3>1. UNCHANGED <<facts, answer, errors>> /\ run'.told = {} /\ run'.results = <<>>
      BY <1>2, <2>1 DEF EndGroups, StoreUnchanged, tables, faults, Idle
    <3> QED
      BY <3>1, CoverFresh
  <2>2. CASE run' = [run EXCEPT !.step = "merge"]
    <3>1. /\ UNCHANGED <<facts, answer, errors>>
          /\ run'.told = run.told /\ run'.results = run.results /\ run'.step = "merge"
      BY <1>0, <1>2, <2>2 DEF EndGroups, StoreUnchanged, tables, faults, Run
    <3> QED
      BY <3>1, CoverQuiet DEF Marking
  <2> QED
    BY <1>2, <2>1, <2>2 DEF EndGroups
<1>3. CASE Merge
  <2>1. /\ UNCHANGED <<facts, answer, errors>>
    BY <1>3 DEF Merge, StoreUnchanged, tables, faults
  <2>2. run'.step = "write" /\ run'.told = Pending'
    BY <1>3, MergeIs DEF TypeInv, Pending
  <2> QED
    BY <2>1, <2>2 DEF CoverInv, NothingPending, Covered, HaveFacts, Marking
<1>4. CASE Write
  <2>1. run.step \notin Marking /\ UNCHANGED <<answer, errors>>
    BY <1>4 DEF Write, At, Marking, RestUnchanged, faults
  <2> QED
    BY <1>4, <2>1, CoverStore DEF Write
<1>5. CASE EndWrites
  <2>1. /\ UNCHANGED <<facts, answer, errors>> /\ run.results = <<>>
        /\ run'.told = run.told /\ run'.results = run.results
    BY <1>0, <1>5 DEF EndWrites, Go, StoreUnchanged, tables, faults, Run
  <2> QED
    BY <2>1, CoverQuiet
<1>6. ASSUME NEW s \in Session, ExtractSession(s)
      PROVE  CoverInv'
  <2>1. /\ UNCHANGED <<facts, answer, errors>> /\ run.step = "group" /\ run'.step = "group"
    BY <1>6, SessionIs DEF ExtractSession, At, StoreUnchanged, tables, faults, TypeInv
  <2>2. PICK spoken \in SUBSET Of(s, run.listed) :
          /\ run'.told = run.told \cup spoken
          /\ run'.results = IF spoken = {} THEN run.results ELSE Append(run.results, spoken)
    BY <1>6, SessionIs DEF TypeInv
  <2>3. spoken \in Sources
    BY <1>6, SessionIs DEF Sources, TypeInv
  <2>4. CASE spoken = {}
    <3>1. run'.told = run.told /\ run'.results = run.results
      BY <2>2, <2>4
    <3> QED
      BY <2>1, <3>1, CoverQuiet DEF Marking
  <2>5. CASE spoken # {}
    BY <2>1, <2>2, <2>3, <2>5, CoverTold DEF Marking
  <2> QED
    BY <2>4, <2>5
<1>7. ASSUME NEW c \in Capture, Flush(c)
      PROVE  CoverInv'
  <2>1. /\ UNCHANGED <<facts, errors>> /\ run.step \in Marking /\ Note(c)
        /\ run'.told = run.told /\ run'.results = run.results
    BY <1>0, <1>7 DEF Flush, At, Drop, RestUnchanged, faults, Run, Marking
  <2> QED
    BY <2>1, CoverNote
<1> QED
  BY <1>1, <1>2, <1>3, <1>4, <1>5, <1>6, <1>7 DEF LegacyStep

LEMMA CoverFault ==
    ASSUME TypeInv, CoverInv, Fault
    PROVE  CoverInv'
<1>0. run \in Run /\ errors \in Nat
  BY Statics DEF TypeInv, TypeOK
<1>1. CASE Restart
  <2>1. UNCHANGED <<facts, answer, errors>> /\ run'.told = {} /\ run'.results = <<>>
    BY <1>1 DEF Restart, tables, Idle
  <2> QED
    BY <2>1, CoverFresh
<1>2. CASE MergeFails
  <2>1. /\ UNCHANGED <<facts, answer>> /\ errors' # 0
        /\ run'.told = {} /\ run'.results = <<>>
    BY <1>0, <1>2 DEF MergeFails, Fails, tables, Idle
  <2> QED
    BY <2>1, CoverFresh
<1>3. CASE StoreFails \/ ExtractFails
  <2>1. errors' # 0
    BY <1>0, <1>3 DEF StoreFails, ExtractFails, Fails
  <2>2. run'.step = run.step /\ run.step \in {"route", "write", "extract"}
    BY <1>0, <1>3 DEF StoreFails, ExtractFails, At, Run
  <2>3. run'.step \notin Marking
    BY <2>2 DEF Marking
  <2> QED
    BY <2>1, <2>3 DEF CoverInv, NothingPending, Covered
<1>4. ASSUME NEW s \in Session, SkipSession(s)
      PROVE  CoverInv'
  <2>1. errors' # 0 /\ run'.step \notin Marking
    BY <1>0, <1>4 DEF SkipSession, Fails, At, Run, Marking
  <2> QED
    BY <2>1 DEF CoverInv, NothingPending, Covered
<1>5. ASSUME NEW c \in Capture, MarkFails(c) \/ MarkProcessedFails(c) \/ FlushFails(c)
      PROVE  CoverInv'
  <2>1. Drop(c) /\ Fails /\ run.step \in Marking
    BY <1>5 DEF MarkFails, MarkProcessedFails, FlushFails, At, Marking
  <2>2. run'.results = run.results
    BY <1>0, <2>1 DEF Drop, Run
  <2> QED
    BY <1>0, <2>1, <2>2 DEF CoverInv, NothingPending, Covered, Fails
<1> QED
  BY <1>1, <1>2, <1>3, <1>4, <1>5 DEF Fault

LEMMA CoverStep == TypeInv /\ CoverInv /\ [Next]_vars => CoverInv'
<1> SUFFICES ASSUME TypeInv, CoverInv, [Next]_vars
             PROVE  CoverInv'
  OBVIOUS
<1>1. CASE PluginStep \/ LegacyStep \/ Fault
  BY <1>1, CoverPlugin, CoverLegacy, CoverFault
<1>2. CASE (\E c \in Capture : CaptureRow(c) \/ Delete(c)) \/ UNCHANGED vars
  <2>1. UNCHANGED <<facts, answer, errors, run>>
    BY <1>2 DEF CaptureRow, Delete, RestUnchanged, faults, vars, tables
  <2> QED
    BY <2>1, CoverQuiet
<1> QED
  BY <1>1, <1>2 DEF Next

\* Facts are stored before their captures leave the queue: wherever the daemon is killed
\* and whichever engine runs next, no capture is marked while facts the run keeps of it are
\* not in the store, as long as no call or statement fails.
THEOREM FactsAreStored == Spec => []NoFactLost
<1>1. Init => CoverInv
  BY SetOfEmpty DEF Init, Idle, CoverInv, NothingPending, Covered, HaveFacts, Pending
<1>2. CoverInv => NoFactLost
  BY DEF CoverInv, Covered, HaveFacts, NoFactLost
<1> QED
  BY TypeInit, TypeStep, <1>1, CoverStep, <1>2, PTL DEF Spec

-----------------------------------------------------------------------------
(* What the legacy engine marks *)

LegacySteps == {"idle", "group", "merge", "write", "flush"}
Sourced == UNION ToSet(run.sources)

\* As long as only the legacy engine has run, every capture that is a source has been
\* answered for by the model in this run.
LegacyInv ==
    ~plugged =>
       /\ engine = "legacy"
       /\ run.step \in LegacySteps
       /\ Sourced \subseteq run.told \cup run.silent
       /\ Unseen = {}

\* Steps after which there are fewer sources, or more answers.
LEMMA LegacyQuiet ==
    ASSUME LegacyInv, UNCHANGED <<engine, plugged, answer>>,
           ~plugged => /\ run'.step \in LegacySteps
                       /\ Sourced' \subseteq Sourced \cup (run'.told \cup run'.silent)
                       /\ run.told \cup run.silent \subseteq run'.told \cup run'.silent
    PROVE  LegacyInv'
  BY DEF LegacyInv, Unseen

\* Steps that begin or end a run.
LEMMA LegacyFresh ==
    ASSUME LegacyInv, UNCHANGED answer, ~plugged' => ~plugged /\ engine' = "legacy",
           ~plugged => run'.step \in LegacySteps, run'.sources = <<>>
    PROVE  LegacyInv'
<1>1. Sourced' = {}
  <2>1. ToSet(run'.sources) = {}
    BY SetOfEmpty
  <2> QED
    BY <2>1 DEF Sourced
<1> QED
  BY <1>1 DEF LegacyInv, Unseen

LEMMA DropShrinks ==
    ASSUME run \in Run, NEW c \in Capture, Source(c), Drop(c)
    PROVE  Sourced' \subseteq Sourced
<1> DEFINE first == Head(run.sources)
           left == first \ {c}
           rest == Tail(run.sources)
<1>1. /\ run.sources \in Seq(Sources) /\ run.sources # <<>>
      /\ first \in Sources /\ rest \in Seq(Sources)
  BY DEF Source, Run
<1>2. left \in Sources /\ left \subseteq first
  BY <1>1 DEF Sources
<1>3. run'.sources = <<left>> \o rest
  BY DEF Drop, Run
<1>4. ToSet(run.sources) = {first} \cup ToSet(rest)
  BY <1>1, SetOfTail
<1> HIDE DEF first, left, rest
<1>5. ToSet(<<left>> \o rest) = {left} \cup ToSet(rest)
  BY <1>1, <1>2, SetOfFront
<1>6. ToSet(run'.sources) = {left} \cup ToSet(rest)
  BY <1>3, <1>5
<1> QED
  BY <1>2, <1>4, <1>6 DEF Sourced

LEMMA LegacyPlugin ==
    ASSUME TypeInv, LegacyInv, PluginStep
    PROVE  LegacyInv'
<1>0. run \in Run
  BY Statics DEF TypeInv
<1>1. CASE CheckThreshold \/ ListUnconsumed \/ NextSession \/ EndSessions \/ EndChunks
           \/ Extract \/ Route \/ StartMarks
  <2>1. UNCHANGED plugged /\ (engine = "plugin" \/ run.step \notin LegacySteps)
    BY <1>1 DEF CheckThreshold, ListUnconsumed, NextSession, EndSessions, EndChunks,
         Extract, Route, StartMarks, At, LegacySteps, StoreUnchanged, RestUnchanged
  <2> QED
    BY <2>1 DEF LegacyInv
<1>2. ASSUME NEW c \in Capture, MarkConsumed(c) \/ MarkProcessed(c)
      PROVE  LegacyInv'
  <2>1. UNCHANGED plugged /\ run.step \notin LegacySteps
    BY <1>2 DEF MarkConsumed, MarkProcessed, At, LegacySteps, RestUnchanged
  <2> QED
    BY <2>1 DEF LegacyInv
<1>3. CASE EndSource
  <2>1. run.sources \in Seq(Sources) /\ run.sources # <<>>
    BY <1>0, <1>3 DEF EndSource, Run
  <2>2. ToSet(run.sources) = {Head(run.sources)} \cup ToSet(Tail(run.sources))
    BY <2>1, SetOfTail
  <2>3. /\ UNCHANGED <<engine, plugged, answer>> /\ run'.sources = Tail(run.sources)
        /\ run'.step = run.step /\ run'.told = run.told /\ run'.silent = run.silent
    BY <1>0, <1>3 DEF EndSource, StoreUnchanged, Run
  <2>4. ToSet(run'.sources) \subseteq ToSet(run.sources)
    BY <2>2, <2>3
  <2>5. Sourced' \subseteq Sourced
    BY <2>4 DEF Sourced
  <2> QED
    BY <2>3, <2>5, LegacyQuiet DEF LegacyInv
<1>4. CASE EndMarks
  <2>1. UNCHANGED <<engine, plugged, answer>> /\ run'.step = "idle" /\ run'.sources = <<>>
    BY <1>4 DEF EndMarks, StoreUnchanged, Idle
  <2> QED
    BY <2>1, LegacyFresh DEF LegacyInv, LegacySteps
<1> QED
  BY <1>1, <1>2, <1>3, <1>4 DEF PluginStep

LEMMA LegacyLegacy ==
    ASSUME TypeInv, LegacyInv, LegacyStep
    PROVE  LegacyInv'
<1>0. run \in Run
  BY Statics DEF TypeInv
<1>1. CASE ListInbox
  <2>1. UNCHANGED <<engine, plugged, answer>> /\ run'.step = "group" /\ run'.sources = <<>>
    BY <1>1 DEF ListInbox, StoreUnchanged, Idle
  <2> QED
    BY <2>1, LegacyFresh DEF LegacyInv, LegacySteps
<1>2. CASE EndGroups
  <2>1. CASE run' = Idle
    <3>1. UNCHANGED <<engine, plugged, answer>> /\ run'.step = "idle" /\ run'.sources = <<>>
      BY <1>2, <2>1 DEF EndGroups, StoreUnchanged, Idle
    <3> QED
      BY <3>1, LegacyFresh DEF LegacyInv, LegacySteps
  <2>2. CASE run' = [run EXCEPT !.step = "merge"]
    <3>1. /\ UNCHANGED <<engine, plugged, answer>> /\ run'.sources = run.sources
          /\ run'.step = "merge" /\ run'.told = run.told /\ run'.silent = run.silent
      BY <1>0, <1>2, <2>2 DEF EndGroups, StoreUnchanged, Run
    <3> QED
      BY <3>1, LegacyQuiet DEF Sourced, LegacySteps
  <2> QED
    BY <1>2, <2>1, <2>2 DEF EndGroups
<1>3. CASE Merge \/ Write \/ EndWrites
  <2>1. /\ UNCHANGED <<engine, plugged, answer>> /\ run'.sources = run.sources
        /\ run.told \cup run.silent \subseteq run'.told \cup run'.silent
        /\ run'.step \in {"write", "flush"}
    <3>1. CASE Merge
      BY <1>0, <3>1, MergeIs DEF Merge, StoreUnchanged, TypeInv
    <3>2. CASE Write
      BY <1>0, <3>2 DEF Write, At, RestUnchanged, Run
    <3>3. CASE EndWrites
      BY <1>0, <3>3 DEF EndWrites, Go, StoreUnchanged, Run
    <3> QED
      BY <1>3, <3>1, <3>2, <3>3
  <2> QED
    BY <2>1, LegacyQuiet DEF Sourced, LegacySteps
<1>4. ASSUME NEW s \in Session, ExtractSession(s)
      PROVE  LegacyInv'
  <2> DEFINE items == Of(s, run.listed)
  <2>1. items \in Sources /\ run.sources \in Seq(Sources)
    BY <1>0 DEF Of, Run, Sources
  <2>2. /\ UNCHANGED <<engine, plugged, answer>> /\ run'.step = "group"
        /\ run'.sources = Append(run.sources, items)
        /\ run'.told \cup run'.silent = run.told \cup run.silent \cup items
    BY <1>4, SessionIs DEF ExtractSession, At, StoreUnchanged, TypeInv
  <2> HIDE DEF items
  <2>3. ToSet(run'.sources) = ToSet(run.sources) \cup {items}
    BY <2>1, <2>2, SetOfAppend
  <2>4. Sourced' = items \cup Sourced
    BY <2>3 DEF Sourced
  <2> QED
    BY <2>2, <2>4, LegacyQuiet DEF LegacySteps
<1>5. ASSUME NEW c \in Capture, Flush(c)
      PROVE  LegacyInv'
  <2>1. /\ Source(c) /\ Drop(c) /\ Note(c) /\ run.step = "flush"
        /\ UNCHANGED <<engine, plugged>>
    BY <1>5 DEF Flush, At, RestUnchanged
  <2>2. Sourced' \subseteq Sourced
    BY <1>0, <1>5, <2>1, DropShrinks
  <2>3. run'.step = "flush" /\ run'.told = run.told /\ run'.silent = run.silent
    BY <1>0, <2>1 DEF Drop, Run
  <2>4. c \in Sourced
    <3>1. run.sources \in Seq(Sources) /\ run.sources # <<>> /\ c \in Head(run.sources)
      BY <1>0, <2>1 DEF Source, Run
    <3>2. ToSet(run.sources) = {Head(run.sources)} \cup ToSet(Tail(run.sources))
      BY <3>1, SetOfTail
    <3>3. Head(run.sources) \in ToSet(run.sources)
      BY <3>2
    <3> QED
      BY <3>1, <3>3 DEF Sourced
  <2>5. ASSUME ~plugged
        PROVE  Unseen' = {}
    <3>1. Unseen = {} /\ c \in run.told \cup run.silent
      BY <2>4, <2>5 DEF LegacyInv
    <3>2. Answer(c) # "unseen"
      BY <3>1 DEF Answer
    <3>3. \A d \in Capture : answer'[d] = IF d = c THEN Answer(c) ELSE answer[d]
      BY <2>1 DEF Note, TypeInv, TypeOK
    <3> QED
      BY <3>1, <3>2, <3>3 DEF Unseen
  <2> QED
    BY <2>1, <2>2, <2>3, <2>5 DEF LegacyInv, LegacySteps
<1> QED
  BY <1>1, <1>2, <1>3, <1>4, <1>5 DEF LegacyStep

LEMMA LegacyFault ==
    ASSUME TypeInv, LegacyInv, Fault
    PROVE  LegacyInv'
<1>0. run \in Run
  BY Statics DEF TypeInv
<1>1. CASE Restart
  <2>1. /\ UNCHANGED answer /\ run'.step = "idle" /\ run'.sources = <<>>
        /\ engine' \in {"plugin", "legacy"} /\ plugged' = (plugged \/ engine' = "plugin")
    BY <1>1, PipelineAssumption DEF Restart, tables, Idle
  <2> QED
    BY <2>1, LegacyFresh DEF LegacyInv, LegacySteps, TypeInv, TypeOK
<1>2. CASE MergeFails
  <2>1. UNCHANGED <<engine, plugged, answer>> /\ run'.step = "idle" /\ run'.sources = <<>>
    BY <1>2 DEF MergeFails, tables, Idle
  <2> QED
    BY <2>1, LegacyFresh DEF LegacyInv, LegacySteps
<1>3. CASE StoreFails \/ ExtractFails
  <2>1. /\ UNCHANGED <<engine, plugged, answer>> /\ run'.sources = run.sources
        /\ run'.told = run.told /\ run'.silent = run.silent /\ run'.step = run.step
    BY <1>0, <1>3 DEF StoreFails, ExtractFails, Run
  <2> QED
    BY <2>1, LegacyQuiet DEF Sourced, LegacyInv
<1>4. ASSUME NEW s \in Session, SkipSession(s)
      PROVE  LegacyInv'
  <2>1. /\ UNCHANGED <<engine, plugged, answer>> /\ run'.sources = run.sources
        /\ run'.told = run.told /\ run'.silent = run.silent /\ run'.step = run.step
    BY <1>0, <1>4 DEF SkipSession, Run
  <2> QED
    BY <2>1, LegacyQuiet DEF Sourced, LegacyInv
<1>5. ASSUME NEW c \in Capture, MarkFails(c) \/ MarkProcessedFails(c) \/ FlushFails(c)
      PROVE  LegacyInv'
  <2>1. /\ Source(c) /\ Drop(c) /\ UNCHANGED <<engine, plugged, answer>>
        /\ run.step \in {"mark", "flip", "flush"}
    BY <1>5 DEF MarkFails, MarkProcessedFails, FlushFails, At
  <2>2. Sourced' \subseteq Sourced
    BY <1>0, <1>5, <2>1, DropShrinks
  <2>3. /\ run.step = "flush" => run'.step = "flush"
        /\ run'.told = run.told /\ run'.silent = run.silent
    BY <1>0, <2>1 DEF Drop, Run
  <2> QED
    BY <2>1, <2>2, <2>3, LegacyQuiet DEF LegacyInv, LegacySteps
<1> QED
  BY <1>1, <1>2, <1>3, <1>4, <1>5 DEF Fault

LEMMA LegacyInvStep == TypeInv /\ LegacyInv /\ [Next]_vars => LegacyInv'
<1> SUFFICES ASSUME TypeInv, LegacyInv, [Next]_vars
             PROVE  LegacyInv'
  OBVIOUS
<1>1. CASE PluginStep \/ LegacyStep \/ Fault
  BY <1>1, LegacyPlugin, LegacyLegacy, LegacyFault
<1>2. CASE (\E c \in Capture : CaptureRow(c) \/ Delete(c)) \/ UNCHANGED vars
  <2>1. UNCHANGED <<engine, plugged, answer, run>>
    BY <1>2 DEF CaptureRow, Delete, RestUnchanged, vars, tables
  <2> QED
    BY <2>1, LegacyQuiet DEF LegacyInv, Sourced
<1> QED
  BY <1>1, <1>2 DEF Next

\* The legacy engine marks a capture only after the model has answered for it in the same
\* run, whichever calls and statements fail and wherever the daemon is killed.
THEOREM LegacyHasSeen == Spec => []LegacyMarksSeen
<1>1. Init => LegacyInv
  <2> SUFFICES ASSUME Init
               PROVE  LegacyInv
    OBVIOUS
  <2>1. Sourced = {}
    <3>1. run.sources = <<>>
      BY DEF Init, Idle
    <3> QED
      BY <3>1, SetOfEmpty DEF Sourced
  <2> QED
    BY <2>1, PipelineAssumption DEF Init, Idle, LegacyInv, LegacySteps, Unseen
<1>2. LegacyInv => LegacyMarksSeen
  BY DEF LegacyInv, LegacyMarksSeen
<1> QED
  BY TypeInit, TypeStep, <1>1, LegacyInvStep, <1>2, PTL DEF Spec

-----------------------------------------------------------------------------
(* Mark and phase *)

\* Without faults the only consumed capture that is in the inbox is the one that the run
\* has just marked and is about to flip.
HalfMarked == consumed \cap Inbox
MarkInv ==
    kills + errors = 0 => \A c \in HalfMarked : run.step = "flip" /\ Source(c)

\* Steps that leave the marks and the phases alone, and are no step of a half-made mark.
LEMMA MarkQuiet ==
    ASSUME MarkInv, UNCHANGED <<phase, consumed, kills, errors>>, run.step # "flip"
    PROVE  MarkInv'
  BY DEF MarkInv, HalfMarked, Inbox

LEMMA MarkPlugin ==
    ASSUME TypeInv, MarkInv, PluginStep
    PROVE  MarkInv'
<1>0. run \in Run
  BY Statics DEF TypeInv
<1>1. CASE CheckThreshold \/ ListUnconsumed \/ NextSession \/ EndSessions \/ EndChunks
           \/ Extract \/ StartMarks \/ EndSource \/ EndMarks
  <2>1. UNCHANGED <<phase, consumed, kills, errors>> /\ run.step # "flip"
    BY <1>1 DEF CheckThreshold, ListUnconsumed, NextSession, EndSessions, EndChunks, Extract,
         StartMarks, EndSource, EndMarks, At, StoreUnchanged, tables, faults
  <2> QED
    BY <2>1, MarkQuiet
<1>2. CASE Route
  <2>1. UNCHANGED <<phase, consumed, kills, errors>> /\ run.step # "flip"
    BY <1>2 DEF Route, At, RestUnchanged, faults
  <2> QED
    BY <2>1, MarkQuiet
<1>3. ASSUME NEW c \in Capture, MarkConsumed(c)
      PROVE  MarkInv'
  <2>1. /\ UNCHANGED <<phase, kills, errors>> /\ run.step = "mark" /\ Source(c)
        /\ consumed' \subseteq consumed \cup {c}
        /\ run'.step = "flip" /\ run'.sources = run.sources
    BY <1>0, <1>3 DEF MarkConsumed, SetBit, At, Go, RestUnchanged, faults, Run
  <2>2. Source(c)'
    BY <2>1 DEF Source
  <2>3. kills + errors = 0 => HalfMarked = {}
    BY <2>1 DEF MarkInv
  <2>4. HalfMarked' \subseteq HalfMarked \cup {c}
    BY <2>1 DEF HalfMarked, Inbox
  <2> QED
    BY <2>1, <2>2, <2>3, <2>4 DEF MarkInv
<1>4. ASSUME NEW c \in Capture, MarkProcessed(c)
      PROVE  MarkInv'
  <2>1. /\ UNCHANGED <<consumed, kills, errors>> /\ Source(c) /\ phase' = Processed({c})
    BY <1>4 DEF MarkProcessed, RestUnchanged, faults
  <2>2. \A d \in Capture : Source(d) => d = c
    BY <2>1, PipelineAssumption DEF Source
  <2>3. phase'[c] # "inbox" /\ \A d \in Capture : phase'[d] = "inbox" => phase[d] = "inbox"
    BY <2>1 DEF Processed, Existing
  <2>4. HalfMarked' \subseteq HalfMarked /\ c \notin HalfMarked'
    BY <2>1, <2>3 DEF HalfMarked, Inbox
  <2>5. kills + errors = 0 => HalfMarked \subseteq {c}
    BY <2>2 DEF MarkInv, HalfMarked, Inbox
  <2> QED
    BY <2>1, <2>4, <2>5 DEF MarkInv
<1> QED
  BY <1>1, <1>2, <1>3, <1>4 DEF PluginStep

LEMMA MarkLegacy ==
    ASSUME TypeInv, MarkInv, LegacyStep
    PROVE  MarkInv'
<1>1. CASE ListInbox \/ EndGroups \/ Merge \/ EndWrites \/ \E s \in Session : ExtractSession(s)
  <2>1. UNCHANGED <<phase, consumed, kills, errors>> /\ run.step # "flip"
    BY <1>1 DEF ListInbox, EndGroups, Merge, EndWrites, ExtractSession, At, StoreUnchanged,
         tables, faults
  <2> QED
    BY <2>1, MarkQuiet
<1>2. CASE Write
  <2>1. UNCHANGED <<phase, consumed, kills, errors>> /\ run.step # "flip"
    BY <1>2 DEF Write, At, RestUnchanged, faults
  <2> QED
    BY <2>1, MarkQuiet
<1>3. ASSUME NEW c \in Capture, Flush(c)
      PROVE  MarkInv'
  <2>1. /\ UNCHANGED <<consumed, kills, errors>> /\ run.step = "flush"
        /\ phase' = Processed({c})
    BY <1>3 DEF Flush, At, RestUnchanged, faults
  <2>2. HalfMarked' \subseteq HalfMarked
    BY <2>1 DEF HalfMarked, Inbox, Processed
  <2> QED
    BY <2>1, <2>2 DEF MarkInv
<1> QED
  BY <1>1, <1>2, <1>3 DEF LegacyStep

LEMMA MarkRows ==
    ASSUME TypeInv, MarkInv, NEW c \in Capture, CaptureRow(c) \/ Delete(c)
    PROVE  MarkInv'
<1>1. UNCHANGED <<run, kills, errors>>
  BY DEF CaptureRow, Delete, RestUnchanged, faults
<1>2. HalfMarked' \subseteq HalfMarked
  <2>1. CASE CaptureRow(c)
    BY <2>1 DEF CaptureRow, HalfMarked, Inbox, TypeInv, TypeOK, Existing
  <2>2. CASE Delete(c)
    BY <2>2 DEF Delete, HalfMarked, Inbox, TypeInv, TypeOK
  <2> QED
    BY <2>1, <2>2
<1> QED
  BY <1>1, <1>2 DEF MarkInv, Source

LEMMA MarkStep == TypeInv /\ MarkInv /\ [Next]_vars => MarkInv'
<1> SUFFICES ASSUME TypeInv, MarkInv, [Next]_vars
             PROVE  MarkInv'
  OBVIOUS
<1>1. CASE PluginStep \/ LegacyStep
  BY <1>1, MarkPlugin, MarkLegacy
<1>2. CASE Fault
  <2>1. kills' + errors' > 0
    BY <1>2 DEF Fault, Restart, ExtractFails, StoreFails, MergeFails, SkipSession, MarkFails,
         MarkProcessedFails, FlushFails, Fails, TypeInv, TypeOK
  <2> QED
    BY <2>1 DEF MarkInv
<1>3. CASE \E c \in Capture : CaptureRow(c) \/ Delete(c)
  BY <1>3, MarkRows
<1>4. CASE UNCHANGED vars
  BY <1>4 DEF MarkInv, HalfMarked, Inbox, Source, vars, tables, faults
<1> QED
  BY <1>1, <1>2, <1>3, <1>4 DEF Next

\* Between two runs no consumed capture counts as inbox, unless a call or a statement
\* failed or the daemon was killed.
THEOREM PhaseFollows == Spec => []PhaseFollowsMark
<1>1. Init => MarkInv
  BY DEF Init, MarkInv, HalfMarked
<1>2. MarkInv => PhaseFollowsMark
  BY DEF MarkInv, HalfMarked, PhaseFollowsMark, At
<1> QED
  BY TypeInit, TypeStep, <1>1, MarkStep, <1>2, PTL DEF Spec

-----------------------------------------------------------------------------
(* The budget *)

CallsInv == errors = 0 => run.calls <= run.chunks

LEMMA CallsStep == TypeInv /\ CallsInv /\ [Next]_vars => CallsInv'
<1> SUFFICES ASSUME TypeInv, CallsInv, [Next]_vars
             PROVE  CallsInv'
  OBVIOUS
<1>0. run \in Run /\ run.calls \in Nat /\ run.chunks \in Nat
  BY Statics DEF TypeInv, Run
<1>1. CASE Extract
  <2>1. /\ run'.calls = run.calls + 1 /\ run'.chunks = run.chunks + 1 /\ errors' = errors
    BY <1>1, ExtractIs DEF Extract, StoreUnchanged, faults
  <2> QED
    BY <1>0, <2>1 DEF CallsInv
<1>2. CASE Fault /\ ~Restart
  <2>1. errors' # 0
    BY <1>2 DEF Fault, ExtractFails, StoreFails, MergeFails, SkipSession, MarkFails,
         MarkProcessedFails, FlushFails, Fails, TypeInv, TypeOK
  <2> QED
    BY <2>1 DEF CallsInv
<1>3. CASE Restart \/ ListUnconsumed \/ ListInbox \/ EndMarks
  <2>1. run'.calls = 0 /\ run'.chunks = 0
    <3>1. \/ run' = Idle
          \/ run' = [Idle EXCEPT !.step = "session", !.listed = Unconsumed]
          \/ run' = [Idle EXCEPT !.step = "group", !.listed = Inbox]
      BY <1>3 DEF Restart, ListUnconsumed, ListInbox, EndMarks
    <3>2. Idle.calls = 0 /\ Idle.chunks = 0 /\ Idle \in Run
      BY IdleType DEF Idle
    <3> QED
      BY <3>1, <3>2 DEF Run
  <2> QED
    BY <2>1 DEF CallsInv
<1>4. CASE CheckThreshold \/ EndSessions \/ EndChunks \/ StartMarks \/ EndSource \/ NextSession
  <2>1. run'.calls = run.calls /\ run'.chunks = run.chunks /\ errors' = errors
    BY <1>0, <1>4 DEF CheckThreshold, EndSessions, EndChunks, StartMarks, EndSource,
         NextSession, Go, StoreUnchanged, faults, Run
  <2> QED
    BY <2>1 DEF CallsInv
<1>5. CASE Route \/ Write \/ EndWrites \/ Merge
  <2>1. run'.calls = run.calls /\ run'.chunks = run.chunks /\ errors' = errors
    BY <1>0, <1>5, MergeIs DEF Route, Write, EndWrites, Merge, Go, StoreUnchanged,
         RestUnchanged, faults, Run, TypeInv
  <2> QED
    BY <2>1 DEF CallsInv
<1>6. CASE EndGroups
  <2>1. errors' = errors /\ (run' = Idle \/ run' = [run EXCEPT !.step = "merge"])
    BY <1>6 DEF EndGroups, StoreUnchanged, faults
  <2>2. CASE run' = Idle
    BY <2>2 DEF CallsInv, Idle
  <2>3. CASE run' = [run EXCEPT !.step = "merge"]
    BY <1>0, <2>1, <2>3 DEF CallsInv, Run
  <2> QED
    BY <2>1, <2>2, <2>3
<1>7. ASSUME NEW s \in Session, ExtractSession(s)
      PROVE  CallsInv'
  <2>1. run'.calls = run.calls /\ run'.chunks = run.chunks /\ errors' = errors
    BY <1>7, SessionIs DEF ExtractSession, StoreUnchanged, faults, TypeInv
  <2> QED
    BY <2>1 DEF CallsInv
<1>8. ASSUME NEW c \in Capture, MarkConsumed(c) \/ MarkProcessed(c) \/ Flush(c)
      PROVE  CallsInv'
  <2>1. run'.calls = run.calls /\ run'.chunks = run.chunks /\ errors' = errors
    BY <1>0, <1>8 DEF MarkConsumed, MarkProcessed, Flush, Drop, Go, RestUnchanged, faults, Run
  <2> QED
    BY <2>1 DEF CallsInv
<1>9. CASE (\E c \in Capture : CaptureRow(c) \/ Delete(c)) \/ UNCHANGED vars
  <2>1. UNCHANGED <<run, errors>>
    BY <1>9 DEF CaptureRow, Delete, RestUnchanged, faults, vars
  <2> QED
    BY <2>1 DEF CallsInv
<1> QED
  BY <1>1, <1>2, <1>3, <1>4, <1>5, <1>6, <1>7, <1>8, <1>9 DEF Next, PluginStep, LegacyStep,
     Fault

\* A run of the daemon makes no more calls of the model than its budget allows, as long as
\* no call fails.
THEOREM CallsBounded == Spec => []CallsWithinBudget
<1>1. Init => CallsInv
  BY DEF Init, Idle, CallsInv
<1>2. TypeInv /\ CallsInv => CallsWithinBudget
  BY PipelineAssumption DEF TypeInv, TypeOK, CallsInv, CallsWithinBudget
<1> QED
  BY TypeInit, TypeStep, <1>1, CallsStep, <1>2, PTL DEF Spec

-----------------------------------------------------------------------------
(* How many chunks there are *)

LEMMA DivBounds ==
    ASSUME NEW a \in Nat, NEW k \in Nat \ {0}
    PROVE  a \div k \in Nat /\ k * (a \div k) <= a /\ a < k * ((a \div k) + 1)
  OBVIOUS

LEMMA DivMonotone ==
    ASSUME NEW a \in Nat, NEW b \in Nat, NEW k \in Nat \ {0}, a <= b
    PROVE  a \div k <= b \div k
<1> DEFINE p == a \div k
           q == b \div k
<1>1. p \in Nat /\ k * p <= a
  BY DivBounds
<1>2. q \in Nat /\ b < k * (q + 1)
  BY DivBounds
<1> HIDE DEF p, q
<1>3. k * p < k * (q + 1)
  <2>1. k * p \in Nat /\ k * (q + 1) \in Nat
    BY <1>1, <1>2
  <2> QED
    BY <1>1, <1>2, <2>1
<1>4. p < q + 1
  BY <1>1, <1>2, <1>3
<1> QED
  BY <1>1, <1>2, <1>4 DEF p, q

ChunkCount(cs) == (Cardinality(cs) + ChunkSize - 1) \div ChunkSize

LEMMA ChunksAre ==
    ASSUME NEW cs \in SUBSET Capture
    PROVE  /\ IsFiniteSet(cs) /\ Cardinality(cs) \in Nat
           /\ Len(Chunks(cs)) = ChunkCount(cs) /\ ChunkCount(cs) \in Nat
           /\ \A i \in 1 .. ChunkCount(cs) : Chunks(cs)[i] = {c \in cs : Rank(c, cs) \div ChunkSize = i - 1}
<1>1. IsFiniteSet(cs) /\ Cardinality(cs) \in Nat
  BY PipelineAssumption, FS_Subset, FS_CardinalityType
<1>2. ChunkSize \in Nat \ {0}
  BY PipelineAssumption
<1>3. ChunkCount(cs) \in Nat
  BY <1>1, <1>2, Division DEF ChunkCount
<1> DEFINE chunk(i) == {c \in cs : Rank(c, cs) \div ChunkSize = i - 1}
<1>5. Chunks(cs) = [i \in 1 .. ChunkCount(cs) |-> chunk(i)]
  BY DEF Chunks, ChunkCount
<1> HIDE DEF chunk
<1>6. Len(Chunks(cs)) = ChunkCount(cs) /\ \A i \in 1 .. ChunkCount(cs) : Chunks(cs)[i] = chunk(i)
  BY <1>3, <1>5
<1> QED
  BY <1>1, <1>3, <1>6 DEF chunk

\* Every capture is in one of the chunks.
LEMMA ChunksCover ==
    ASSUME NEW cs \in SUBSET Capture, NEW c \in cs
    PROVE  c \in UNION ToSet(Chunks(cs))
<1> DEFINE before == {d \in cs : d < c}
<1>1. IsFiniteSet(cs) /\ Cardinality(cs) \in Nat
  BY ChunksAre
<1>2. IsFiniteSet(before) /\ Cardinality(before) \in Nat /\ Cardinality(before) < Cardinality(cs)
  <2>1. before \in SUBSET (cs \ {c})
    BY PipelineAssumption
  <2>2. IsFiniteSet(cs \ {c}) /\ Cardinality(cs \ {c}) = Cardinality(cs) - 1
    BY <1>1, FS_RemoveElement
  <2>3. IsFiniteSet(before) /\ Cardinality(before) <= Cardinality(cs \ {c})
    BY <2>1, <2>2, FS_Subset
  <2>4. Cardinality(before) \in Nat
    BY <2>3, FS_CardinalityType
  <2> QED
    BY <1>1, <2>2, <2>3, <2>4
<1> DEFINE n == Cardinality(cs)
           r == Cardinality(before)
           q == r \div ChunkSize
<1>3. Rank(c, cs) = r
  BY DEF Rank
<1> HIDE DEF before
<1>4. r \in Nat /\ n \in Nat /\ r + 1 <= n /\ ChunkSize \in Nat \ {0}
  BY <1>1, <1>2, PipelineAssumption
<1> HIDE DEF r, n
<1>5. q \in Nat /\ q + 1 <= (n + ChunkSize - 1) \div ChunkSize
  <2>1. q \in Nat /\ (r + ChunkSize) \div ChunkSize = q + 1
    BY <1>4
  <2>2. (r + ChunkSize) \div ChunkSize <= (n + ChunkSize - 1) \div ChunkSize
    <3>1. r + ChunkSize \in Nat /\ n + ChunkSize - 1 \in Nat /\ r + ChunkSize <= n + ChunkSize - 1
      BY <1>4
    <3> QED
      BY <1>4, <3>1, DivMonotone
  <2> QED
    BY <2>1, <2>2
<1> HIDE DEF q
<1>6. q + 1 \in 1 .. ChunkCount(cs)
  BY <1>5, ChunksAre DEF ChunkCount, n
<1>7. c \in Chunks(cs)[q + 1]
  BY <1>3, <1>5, <1>6, ChunksAre DEF q
<1>8. Chunks(cs)[q + 1] \in ToSet(Chunks(cs))
  BY <1>6, ChunksAre DEF ToSet
<1> QED
  BY <1>7, <1>8

\* More captures of a session make no fewer chunks.
LEMMA MoreChunks ==
    ASSUME NEW ds \in SUBSET Capture, NEW cs \in SUBSET ds
    PROVE  Len(Chunks(cs)) <= Len(Chunks(ds))
<1>1. cs \in SUBSET Capture
  OBVIOUS
<1>2. /\ Cardinality(cs) \in Nat /\ Cardinality(ds) \in Nat
      /\ Len(Chunks(cs)) = ChunkCount(cs) /\ Len(Chunks(ds)) = ChunkCount(ds) /\ IsFiniteSet(ds)
  BY <1>1, ChunksAre
<1>3. Cardinality(cs) <= Cardinality(ds)
  BY <1>2, FS_Subset
<1>4. ChunkSize \in Nat \ {0}
  BY PipelineAssumption
<1> DEFINE a == Cardinality(cs) + ChunkSize - 1
           b == Cardinality(ds) + ChunkSize - 1
<1>5. a \in Nat /\ b \in Nat /\ a <= b
  BY <1>2, <1>3, <1>4
<1> HIDE DEF a, b
<1>6. a \div ChunkSize <= b \div ChunkSize
  BY <1>4, <1>5, DivMonotone
<1> QED
  BY <1>2, <1>6 DEF ChunkCount, a, b

LEMMA OfType ==
    ASSUME NEW cs \in SUBSET Capture, NEW s
    PROVE  Of(s, cs) \in SUBSET Capture
  BY DEF Of

\* No session has more chunks than all captures would make.
LEMMA FewChunks ==
    ASSUME NEW cs \in SUBSET Capture
    PROVE  ChunksIn(cs) \subseteq Session \X (1 .. Len(Chunks(Capture)))
<1>1. ASSUME NEW s \in SessionsIn(cs), NEW i \in 1 .. Len(Chunks(Of(s, cs)))
      PROVE  i \in 1 .. Len(Chunks(Capture))
  <2>1. Of(s, cs) \in SUBSET Capture /\ Capture \in SUBSET Capture
    BY DEF Of
  <2>2. Len(Chunks(Of(s, cs))) <= Len(Chunks(Capture))
    BY <2>1, MoreChunks
  <2>3. Len(Chunks(Of(s, cs))) \in Nat /\ Len(Chunks(Capture)) \in Nat
    BY <2>1, ChunksAre
  <2> QED
    BY <2>2, <2>3
<1>2. SessionsIn(cs) \subseteq Session
  BY PipelineAssumption DEF SessionsIn
<1> QED
  BY <1>1, <1>2 DEF ChunksIn

LEMMA ChunksFinite ==
    ASSUME NEW cs \in SUBSET Capture
    PROVE  IsFiniteSet(ChunksIn(cs)) /\ Cardinality(ChunksIn(cs)) \in Nat
<1>1. Len(Chunks(Capture)) \in Nat
  BY ChunksAre
<1>2. IsFiniteSet(Session) /\ IsFiniteSet(1 .. Len(Chunks(Capture)))
  BY <1>1, PipelineAssumption, FS_Interval
<1>3. IsFiniteSet(Session \X (1 .. Len(Chunks(Capture))))
  BY <1>2, FS_Product
<1> QED
  BY <1>3, FewChunks, FS_Subset, FS_CardinalityType

\* With more captures there are no fewer chunks.
LEMMA ChunksGrow ==
    ASSUME NEW ds \in SUBSET Capture, NEW cs \in SUBSET ds
    PROVE  Cardinality(ChunksIn(cs)) <= Cardinality(ChunksIn(ds))
<1>1. ASSUME NEW s \in SessionsIn(cs), NEW i \in 1 .. Len(Chunks(Of(s, cs)))
      PROVE  s \in SessionsIn(ds) /\ i \in 1 .. Len(Chunks(Of(s, ds)))
  <2>1. Of(s, ds) \in SUBSET Capture /\ Of(s, cs) \in SUBSET Of(s, ds)
    BY DEF Of
  <2>2. Len(Chunks(Of(s, cs))) <= Len(Chunks(Of(s, ds)))
    BY <2>1, MoreChunks
  <2>3. Of(s, cs) \in SUBSET Capture
    BY <2>1
  <2>4. Len(Chunks(Of(s, cs))) \in Nat /\ Len(Chunks(Of(s, ds))) \in Nat
    BY <2>1, <2>3, ChunksAre
  <2>5. s \in SessionsIn(ds)
    BY DEF SessionsIn
  <2> QED
    BY <2>2, <2>4, <2>5
<1>2. ChunksIn(cs) \in SUBSET ChunksIn(ds)
  BY <1>1 DEF ChunksIn
<1> QED
  BY <1>2, ChunksFinite, FS_Subset

\* The chunks are those of one session and those of the others.
LEMMA ChunksSplit ==
    ASSUME NEW cs \in SUBSET Capture, NEW s \in SessionsIn(cs)
    PROVE  Cardinality(ChunksIn(cs)) =
             Len(Chunks(Of(s, cs))) + Cardinality(ChunksIn(cs \ Of(s, cs)))
<1> DEFINE n == Len(Chunks(Of(s, cs)))
           rest == cs \ Of(s, cs)
           own == {s} \X (1 .. n)
<1>1. n \in Nat
  BY OfType, ChunksAre
<1>2. rest \in SUBSET Capture
  OBVIOUS
<1>3. SessionsIn(rest) = SessionsIn(cs) \ {s} /\ \A t \in SessionsIn(rest) : Of(t, rest) = Of(t, cs)
  BY DEF SessionsIn, Of
<1>4. ChunksIn(cs) = own \cup ChunksIn(rest)
  BY <1>3 DEF ChunksIn
<1>5. own \cap ChunksIn(rest) = {}
  <2>1. \A x \in own : x[1] = s
    OBVIOUS
  <2>2. ASSUME NEW x \in ChunksIn(rest)
        PROVE  x[1] \in SessionsIn(rest)
    <3>1. PICK t \in SessionsIn(rest) : x \in {t} \X (1 .. Len(Chunks(Of(t, rest))))
      BY Zenon DEF ChunksIn
    <3>2. x[1] = t
      BY <3>1
    <3> QED
      BY <3>2
  <2> QED
    BY <1>3, <2>1, <2>2
<1> HIDE DEF n, rest
<1>6. IsFiniteSet(own) /\ Cardinality(own) = n
  <2>1. IsFiniteSet(1 .. n) /\ Cardinality(1 .. n) = n
    BY <1>1, FS_Interval
  <2>2. IsFiniteSet({s}) /\ Cardinality({s}) = 1
    BY FS_Singleton
  <2>3. IsFiniteSet(own) /\ Cardinality(own) = Cardinality({s}) * Cardinality(1 .. n)
    BY <2>1, <2>2, FS_Product
  <2> QED
    BY <1>1, <2>1, <2>2, <2>3
<1> DEFINE others == ChunksIn(rest)
<1> HIDE DEF own
<1>7. IsFiniteSet(others) /\ Cardinality(others) \in Nat
  BY <1>2, ChunksFinite
<1>8. Cardinality(own \cap others) = 0
  BY <1>5, FS_EmptySet
<1> HIDE DEF others
<1>9. Cardinality(own \cup others) =
        Cardinality(own) + Cardinality(others) - Cardinality(own \cap others)
  BY <1>6, <1>7, FS_Union
<1>10. Cardinality(own \cup others) = n + Cardinality(others)
  BY <1>1, <1>6, <1>7, <1>8, <1>9
<1> QED
  BY <1>4, <1>10 DEF n, rest, others

-----------------------------------------------------------------------------
(* The plugin engine marks what the model has seen *)

\* No call failed, and all there is to extract from fits into one run.
Fits == errors = 0 /\ ChunksOfArrived <= MaxChunks

Extracting == {"session", "extract"}
Ahead == UNION ToSet(run.todo)

\* Under that condition nothing is trimmed: the chunks of the sessions that are listed fit
\* into what is left of the budget, and every source has an answer or a chunk to come.
SeenInv ==
    Fits => /\ Unseen = {}
            /\ Sourced \subseteq run.told \cup run.silent \cup Ahead
            /\ run.step # "extract" => run.todo = <<>>
            /\ run.step \in Extracting =>
                 run.chunks + Len(run.todo) + Cardinality(ChunksIn(run.listed)) <= MaxChunks

LEMMA FitsBefore ==
    ASSUME TypeInv, [Next]_vars, Fits'
    PROVE  Fits
<1>1. Arrived \subseteq Arrived' /\ Arrived' \in SUBSET Capture
  <2>1. \A d \in Capture : phase'[d] = "absent" => phase[d] = "absent"
    <3>1. CASE \E c \in Capture : CaptureRow(c) \/ Delete(c)
      BY <3>1 DEF CaptureRow, Delete, TypeInv, TypeOK
    <3>2. CASE PluginStep
      BY <3>2 DEF PluginStep, CheckThreshold, ListUnconsumed, NextSession, EndSessions,
           EndChunks, Extract, Route, StartMarks, EndSource, EndMarks, MarkConsumed,
           MarkProcessed, Processed, StoreUnchanged, tables
    <3>3. CASE LegacyStep
      BY <3>3 DEF LegacyStep, ListInbox, EndGroups, Merge, Write, EndWrites, ExtractSession,
           Flush, Processed, StoreUnchanged, tables
    <3>4. CASE Fault
      BY <3>4 DEF Fault, Restart, ExtractFails, StoreFails, MergeFails, SkipSession, MarkFails,
           MarkProcessedFails, FlushFails, tables
    <3>5. CASE UNCHANGED vars
      BY <3>5 DEF vars, tables
    <3> QED
      BY <3>1, <3>2, <3>3, <3>4, <3>5 DEF Next
  <2> QED
    BY <2>1 DEF Arrived
<1>2. errors = 0
  <2>1. CASE Fault
    <3>1. CASE Restart
      BY <3>1 DEF Restart, Fits
    <3>2. CASE ~Restart
      <4>1. errors' # 0
        BY <2>1, <3>2 DEF Fault, ExtractFails, StoreFails, MergeFails, SkipSession, MarkFails,
             MarkProcessedFails, FlushFails, Fails, TypeInv, TypeOK
      <4> QED
        BY <4>1 DEF Fits
    <3> QED
      BY <3>1, <3>2
  <2>2. CASE PluginStep
    BY <2>2 DEF PluginStep, CheckThreshold, ListUnconsumed, NextSession, EndSessions,
         EndChunks, Extract, Route, StartMarks, EndSource, EndMarks, MarkConsumed,
         MarkProcessed, StoreUnchanged, RestUnchanged, faults, Fits
  <2>3. CASE LegacyStep
    BY <2>3 DEF LegacyStep, ListInbox, EndGroups, Merge, Write, EndWrites, ExtractSession,
         Flush, StoreUnchanged, RestUnchanged, faults, Fits
  <2>4. CASE (\E c \in Capture : CaptureRow(c) \/ Delete(c)) \/ UNCHANGED vars
    BY <2>4 DEF CaptureRow, Delete, RestUnchanged, faults, vars, Fits
  <2> QED
    BY <2>1, <2>2, <2>3, <2>4 DEF Next
<1>3. Arrived \in SUBSET Arrived' /\ Arrived \in SUBSET Capture
  BY <1>1 DEF Arrived
<1>4. Cardinality(ChunksIn(Arrived)) <= Cardinality(ChunksIn(Arrived'))
  BY <1>1, <1>3, ChunksGrow
<1>5. Cardinality(ChunksIn(Arrived)) \in Nat /\ Cardinality(ChunksIn(Arrived')) \in Nat
  BY <1>1, <1>3, ChunksFinite
<1>6. Cardinality(ChunksIn(Arrived')) <= MaxChunks
  <2>1. ChunksOfArrived' <= MaxChunks
    BY DEF Fits
  <2> QED
    BY <2>1 DEF ChunksOfArrived, ChunksIn, SessionsIn, Of, Chunks, Rank
<1>7. MaxChunks \in Nat
  BY PipelineAssumption
<1> QED
  BY <1>2, <1>4, <1>5, <1>6, <1>7 DEF Fits, ChunksOfArrived

\* Steps after which there are no more sources, no fewer answers and the same calls ahead.
LEMMA SeenKept ==
    ASSUME SeenInv, Fits' => Fits, UNCHANGED answer, Sourced' \subseteq Sourced,
           run.told \cup run.silent \subseteq run'.told \cup run'.silent,
           run'.todo = run.todo, run'.chunks = run.chunks, run'.listed = run.listed,
           run'.step \in Extracting => run.step \in Extracting,
           run'.step # "extract" => run.step # "extract" \/ run.todo = <<>>
    PROVE  SeenInv'
<1> SUFFICES ASSUME Fits'
             PROVE  /\ Unseen' = {}
                    /\ Sourced' \subseteq run'.told \cup run'.silent \cup Ahead'
                    /\ run'.step # "extract" => run'.todo = <<>>
                    /\ run'.step \in Extracting =>
                         run'.chunks + Len(run'.todo) + Cardinality(ChunksIn(run'.listed))
                           <= MaxChunks
  BY DEF SeenInv, ChunksIn, SessionsIn, Of, Chunks, Rank
<1>1. Unseen' = Unseen /\ Ahead' = Ahead
  BY DEF Unseen, Ahead
<1> QED
  BY <1>1 DEF SeenInv

\* Steps that begin or end a run.
LEMMA SeenFresh ==
    ASSUME SeenInv, Fits' => Fits, UNCHANGED answer, run'.sources = <<>>, run'.todo = <<>>,
           run'.step \notin Extracting
    PROVE  SeenInv'
<1>1. Sourced' = {}
  BY SetOfEmpty DEF Sourced
<1>2. Unseen' = Unseen
  BY DEF Unseen
<1> QED
  BY <1>1, <1>2 DEF SeenInv

\* A source that is marked after the calls has an answer.
LEMMA SourceSeen ==
    ASSUME TypeInv, SeenInv, NEW c \in Capture, Source(c), Note(c), Fits,
           run.step # "extract"
    PROVE  Unseen' = {}
<1>0. run \in Run
  BY Statics DEF TypeInv
<1>1. c \in Sourced
  <2>1. run.sources \in Seq(Sources) /\ run.sources # <<>> /\ c \in Head(run.sources)
    BY <1>0 DEF Source, Run
  <2>2. ToSet(run.sources) = {Head(run.sources)} \cup ToSet(Tail(run.sources))
    BY <2>1, SetOfTail
  <2>3. Head(run.sources) \in ToSet(run.sources)
    BY <2>2
  <2> QED
    BY <2>1, <2>3 DEF Sourced
<1>2. Ahead = {}
  BY SetOfEmpty DEF SeenInv, Ahead
<1>3. Unseen = {} /\ c \in run.told \cup run.silent
  BY <1>1, <1>2 DEF SeenInv
<1>4. Answer(c) # "unseen"
  BY <1>3 DEF Answer
<1>5. \A d \in Capture : answer'[d] = IF d = c THEN Answer(c) ELSE answer[d]
  BY DEF Note, TypeInv, TypeOK
<1> QED
  BY <1>3, <1>4, <1>5 DEF Unseen

\* The first session that is listed is taken as a whole.
LEMMA SeenNext ==
    ASSUME TypeInv, SeenInv, NextSession, Fits' => Fits
    PROVE  SeenInv'
<1>0. run \in Run /\ run.chunks \in Nat /\ MaxChunks \in Nat
  BY Statics DEF TypeInv, Run
<1>1. PICK s \in SessionsIn(run.listed) :
        LET items == Of(s, run.listed) IN
          run' = [run EXCEPT !.step = "extract", !.listed = @ \ items,
                             !.sources = Append(@, Taken(items)), !.todo = Trimmed(items),
                             !.sessions = @ + 1]
  BY DEF NextSession
<1> DEFINE items == Of(s, run.listed)
<1>2. /\ run'.step = "extract" /\ run'.listed = run.listed \ items
      /\ run'.sources = Append(run.sources, items) /\ run'.todo = Trimmed(items)
      /\ run'.chunks = run.chunks /\ run'.told = run.told /\ run'.silent = run.silent
  BY <1>0, <1>1 DEF Taken, Run
<1>3. answer' = answer /\ run.step = "session"
  BY DEF NextSession, At, StoreUnchanged
<1>4. run.listed \in SUBSET Capture /\ items \in SUBSET Capture
      /\ run.listed \ items \in SUBSET Capture
  BY <1>0 DEF Run, Sources, Of
<1> SUFFICES ASSUME Fits'
             PROVE  SeenInv'
  BY DEF SeenInv
<1>5. Cardinality(ChunksIn(run.listed)) =
        Len(Chunks(items)) + Cardinality(ChunksIn(run.listed \ items))
  BY <1>4, ChunksSplit
<1>6. /\ Cardinality(ChunksIn(run.listed \ items)) \in Nat /\ Len(Chunks(items)) \in Nat
      /\ Chunks(items) \in Seq(Sources)
  BY <1>4, ChunksFinite, ChunksAre, ChunksType
<1>7. /\ Unseen = {} /\ run.todo = <<>>
      /\ Sourced \subseteq run.told \cup run.silent \cup Ahead
      /\ run.chunks + Len(run.todo) + Cardinality(ChunksIn(run.listed)) <= MaxChunks
  BY <1>3 DEF SeenInv, Extracting
<1> DEFINE k == Len(Chunks(items))
           m == Cardinality(ChunksIn(run.listed \ items))
<1>8. run.chunks + k + m <= MaxChunks /\ k \in Nat /\ m \in Nat
  <2>1. Len(run.todo) = 0
    BY <1>7
  <2> QED
    BY <1>0, <1>5, <1>6, <1>7, <2>1
<1>9. Trimmed(items) = Chunks(items)
  <2>1. ~(k > MaxChunks - run.chunks)
    BY <1>0, <1>8
  <2>2. Trimmed(items) = SubSeq(Chunks(items), 1, k)
    BY <2>1 DEF Trimmed
  <2> QED
    BY <1>6, <2>2
<1>10. Sourced' = Sourced \cup items
  <2>1. run.sources \in Seq(Sources) /\ items \in Sources
    BY <1>0, <1>4 DEF Run, Sources
  <2>2. ToSet(run'.sources) = ToSet(run.sources) \cup {items}
    BY <1>2, <2>1, SetOfAppend
  <2> QED
    BY <2>2 DEF Sourced
<1>11. items \subseteq Ahead'
  <2>1. Ahead' = UNION ToSet(Chunks(items))
    BY <1>2, <1>9 DEF Ahead
  <2> QED
    BY <1>4, <2>1, ChunksCover
<1>12. Ahead = {}
  BY <1>7, SetOfEmpty DEF Ahead
<1>13. Sourced' \subseteq run'.told \cup run'.silent \cup Ahead'
  BY <1>2, <1>7, <1>10, <1>11, <1>12
<1>14. run'.chunks + Len(run'.todo) + Cardinality(ChunksIn(run'.listed)) <= MaxChunks
  <2>1. /\ run'.chunks = run.chunks /\ Len(run'.todo) = k
        /\ Cardinality(ChunksIn(run'.listed)) = m
    BY <1>2, <1>9
  <2> HIDE DEF k, m
  <2> QED
    BY <1>0, <1>8, <2>1
<1>15. Unseen' = {}
  BY <1>3, <1>7 DEF Unseen
<1> QED
  BY <1>2, <1>13, <1>14, <1>15 DEF SeenInv, ChunksIn, SessionsIn, Of, Chunks, Rank

\* The chunk that was answered for is one of those that were ahead.
LEMMA SeenExtract ==
    ASSUME TypeInv, SeenInv, Extract, Fits' => Fits
    PROVE  SeenInv'
<1>0. run \in Run /\ run.chunks \in Nat /\ run.todo \in Seq(Sources) /\ MaxChunks \in Nat
  BY Statics DEF TypeInv, Run
<1> DEFINE chunk == Head(run.todo)
<1>1. /\ run.todo # <<>> /\ run.step = "extract" /\ answer' = answer
  BY DEF Extract, At, StoreUnchanged
<1>2. /\ run'.step = "extract" /\ run'.listed = run.listed /\ run'.sources = run.sources
      /\ run'.todo = Tail(run.todo) /\ run'.chunks = run.chunks + 1
      /\ run'.told \cup run'.silent = run.told \cup run.silent \cup chunk
  BY <1>0, <1>1, ExtractIs
<1> SUFFICES ASSUME Fits'
             PROVE  SeenInv'
  BY DEF SeenInv
<1>3. ToSet(run.todo) = {chunk} \cup ToSet(Tail(run.todo))
  BY <1>0, <1>1, SetOfTail
<1>4. Ahead = chunk \cup Ahead'
  BY <1>2, <1>3 DEF Ahead
<1>5. Sourced' = Sourced /\ Unseen' = Unseen
  BY <1>1, <1>2 DEF Sourced, Unseen
<1>6. /\ Unseen = {} /\ Sourced \subseteq run.told \cup run.silent \cup Ahead
      /\ run.chunks + Len(run.todo) + Cardinality(ChunksIn(run.listed)) <= MaxChunks
  BY <1>1 DEF SeenInv, Extracting
<1>7. run'.chunks + Len(run'.todo) + Cardinality(ChunksIn(run'.listed)) <= MaxChunks
  <2> DEFINE m == Cardinality(ChunksIn(run.listed))
             k == Len(run.todo)
  <2>1. m \in Nat
    BY <1>0, ChunksFinite DEF Run, Sources
  <2>2. k \in Nat /\ Len(Tail(run.todo)) = k - 1
    BY <1>0, <1>1
  <2>3. /\ run'.chunks = run.chunks + 1 /\ Len(run'.todo) = k - 1
        /\ Cardinality(ChunksIn(run'.listed)) = m
    BY <1>2, <2>2
  <2>4. run.chunks + k + m <= MaxChunks
    BY <1>6
  <2> HIDE DEF m, k
  <2> QED
    BY <1>0, <2>1, <2>2, <2>3, <2>4
<1>8. Sourced' \subseteq run'.told \cup run'.silent \cup Ahead'
  BY <1>2, <1>4, <1>5, <1>6
<1> QED
  BY <1>2, <1>5, <1>6, <1>7, <1>8 DEF SeenInv, ChunksIn, SessionsIn, Of, Chunks, Rank

LEMMA SeenList ==
    ASSUME TypeInv, SeenInv, ListUnconsumed, Fits' => Fits
    PROVE  SeenInv'
<1>0. run \in Run /\ MaxChunks \in Nat
  BY Statics DEF TypeInv
<1>1. UNCHANGED <<answer, phase>>
  BY DEF ListUnconsumed, StoreUnchanged, tables
<1>2. CASE run' = Idle
  BY <1>1, <1>2, SeenFresh DEF Idle, Extracting
<1>3. CASE run' = [Idle EXCEPT !.step = "session", !.listed = Unconsumed]
  <2>1. /\ run'.sources = <<>> /\ run'.todo = <<>> /\ run'.step = "session"
        /\ run'.listed = Unconsumed /\ run'.chunks = 0
    BY <1>3 DEF Idle
  <2> SUFFICES ASSUME Fits'
               PROVE  SeenInv'
    BY DEF SeenInv
  <2>2. Unconsumed \in SUBSET Arrived /\ Arrived \in SUBSET Capture /\ Unconsumed \in SUBSET Capture
    BY DEF Unconsumed, Inbox, Arrived
  <2>3. /\ Cardinality(ChunksIn(Unconsumed)) <= Cardinality(ChunksIn(Arrived))
        /\ Cardinality(ChunksIn(Unconsumed)) \in Nat /\ Cardinality(ChunksIn(Arrived)) \in Nat
    BY <2>2, ChunksGrow, ChunksFinite
  <2>4. Cardinality(ChunksIn(Arrived)) <= MaxChunks
    BY DEF Fits, ChunksOfArrived
  <2>5. run'.chunks + Len(run'.todo) + Cardinality(ChunksIn(run'.listed)) <= MaxChunks
    <3> DEFINE m == Cardinality(ChunksIn(Unconsumed))
               n == Cardinality(ChunksIn(Arrived))
    <3>1. /\ run'.chunks = 0 /\ Len(run'.todo) = 0
          /\ Cardinality(ChunksIn(run'.listed)) = m
      BY <2>1
    <3>2. m \in Nat /\ n \in Nat /\ m <= n /\ n <= MaxChunks
      BY <2>3, <2>4
    <3> HIDE DEF m, n
    <3> QED
      BY <1>0, <3>1, <3>2
  <2>6. Sourced' = {} /\ Unseen' = {}
    BY <1>1, <2>1, SetOfEmpty DEF Sourced, Unseen, SeenInv
  <2> QED
    BY <2>1, <2>5, <2>6 DEF SeenInv, ChunksIn, SessionsIn, Of, Chunks, Rank
<1> QED
  BY <1>2, <1>3 DEF ListUnconsumed

LEMMA SeenPlugin ==
    ASSUME TypeInv, SeenInv, PluginStep, Fits' => Fits
    PROVE  SeenInv'
<1>0. run \in Run
  BY Statics DEF TypeInv
<1>1. CASE CheckThreshold \/ EndSessions \/ EndChunks \/ StartMarks \/ Route
  <2>1. /\ UNCHANGED answer /\ run'.sources = run.sources /\ run'.told = run.told
        /\ run'.silent = run.silent /\ run'.todo = run.todo /\ run'.chunks = run.chunks
        /\ run'.listed = run.listed
        /\ run'.step \in Extracting => run.step \in Extracting
        /\ run'.step # "extract" => run.step # "extract" \/ run.todo = <<>>
    BY <1>0, <1>1 DEF CheckThreshold, EndSessions, EndChunks, StartMarks, Route, At, Go,
         Extracting, StoreUnchanged, Run
  <2> QED
    BY <2>1, SeenKept DEF Sourced
<1>2. CASE EndSource
  <2>1. run.sources \in Seq(Sources) /\ run.sources # <<>>
    BY <1>0, <1>2 DEF EndSource, Run
  <2>2. ToSet(run.sources) = {Head(run.sources)} \cup ToSet(Tail(run.sources))
    BY <2>1, SetOfTail
  <2>3. /\ UNCHANGED answer /\ run'.sources = Tail(run.sources)
        /\ run'.step = run.step /\ run'.told = run.told /\ run'.silent = run.silent
        /\ run'.todo = run.todo /\ run'.chunks = run.chunks /\ run'.listed = run.listed
    BY <1>0, <1>2 DEF EndSource, StoreUnchanged, Run
  <2>4. ToSet(run'.sources) \subseteq ToSet(run.sources)
    BY <2>2, <2>3
  <2>5. Sourced' \subseteq Sourced
    BY <2>4 DEF Sourced
  <2> QED
    BY <2>3, <2>5, SeenKept
<1>3. CASE EndMarks
  <2>1. /\ UNCHANGED answer /\ run'.step = "idle" /\ run'.sources = <<>> /\ run'.todo = <<>>
    BY <1>3 DEF EndMarks, StoreUnchanged, Idle
  <2> QED
    BY <2>1, SeenFresh DEF Extracting
<1>4. ASSUME NEW c \in Capture, MarkConsumed(c)
      PROVE  SeenInv'
  <2>1. /\ Source(c) /\ Note(c) /\ run.step = "mark"
        /\ run' = [run EXCEPT !.step = "flip"]
    BY <1>4 DEF MarkConsumed, At, Go
  <2>2. /\ run'.sources = run.sources /\ run'.told = run.told /\ run'.silent = run.silent
        /\ run'.todo = run.todo /\ run'.step = "flip"
    BY <1>0, <2>1 DEF Run
  <2>3. Fits' => Unseen' = {}
    BY <2>1, SourceSeen
  <2>4. Sourced' = Sourced /\ Ahead' = Ahead
    BY <2>2 DEF Sourced, Ahead
  <2> QED
    BY <2>1, <2>2, <2>3, <2>4 DEF SeenInv, Extracting
<1>5. ASSUME NEW c \in Capture, MarkProcessed(c)
      PROVE  SeenInv'
  <2>1. Source(c) /\ Drop(c) /\ run.step = "flip" /\ UNCHANGED answer
    BY <1>5 DEF MarkProcessed, At
  <2>2. /\ run'.told = run.told /\ run'.silent = run.silent /\ run'.todo = run.todo
        /\ run'.chunks = run.chunks /\ run'.listed = run.listed /\ run'.step = "mark"
    BY <1>0, <2>1 DEF Drop, Run
  <2> QED
    BY <1>0, <1>5, <2>1, <2>2, DropShrinks, SeenKept DEF Extracting
<1> QED
  BY <1>1, <1>2, <1>3, <1>4, <1>5, SeenList, SeenNext, SeenExtract DEF PluginStep

LEMMA SeenLegacy ==
    ASSUME TypeInv, SeenInv, LegacyStep, Fits' => Fits
    PROVE  SeenInv'
<1>0. run \in Run
  BY Statics DEF TypeInv
<1>1. CASE Merge \/ Write \/ EndWrites
  <2>1. /\ UNCHANGED answer /\ run'.sources = run.sources
        /\ run.told \cup run.silent \subseteq run'.told \cup run'.silent
        /\ run'.todo = run.todo /\ run'.chunks = run.chunks
        /\ run'.listed = run.listed /\ run'.step \notin Extracting /\ run.step # "extract"
    <3>1. CASE Merge
      BY <3>1, MergeIs DEF Merge, At, StoreUnchanged, Extracting, TypeInv
    <3>2. CASE Write
      BY <1>0, <3>2 DEF Write, At, Run, Extracting
    <3>3. CASE EndWrites
      BY <1>0, <3>3 DEF EndWrites, At, Go, StoreUnchanged, Run, Extracting
    <3> QED
      BY <1>1, <3>1, <3>2, <3>3
  <2> QED
    BY <2>1, SeenKept DEF Sourced
<1>2. CASE ListInbox
  <2>1. UNCHANGED answer /\ run'.step = "group" /\ run'.sources = <<>> /\ run'.todo = <<>>
    BY <1>2 DEF ListInbox, StoreUnchanged, Idle
  <2> QED
    BY <2>1, SeenFresh DEF Extracting
<1>3. CASE EndGroups
  <2>1. UNCHANGED answer /\ run.step = "group"
    BY <1>3 DEF EndGroups, At, StoreUnchanged
  <2>2. CASE run' = Idle
    BY <2>1, <2>2, SeenFresh DEF Idle, Extracting
  <2>3. CASE run' = [run EXCEPT !.step = "merge"]
    <3>1. /\ run'.sources = run.sources /\ run'.told = run.told
          /\ run'.silent = run.silent /\ run'.todo = run.todo /\ run'.chunks = run.chunks
          /\ run'.listed = run.listed /\ run'.step = "merge"
      BY <1>0, <2>3 DEF Run
    <3> QED
      BY <2>1, <3>1, SeenKept DEF Sourced, Extracting
  <2> QED
    BY <1>3, <2>2, <2>3 DEF EndGroups
<1>4. ASSUME NEW s \in Session, ExtractSession(s)
      PROVE  SeenInv'
  <2> DEFINE items == Of(s, run.listed)
  <2>1. items \in Sources /\ run.sources \in Seq(Sources)
    BY <1>0 DEF Of, Run, Sources
  <2>2. /\ UNCHANGED answer /\ run.step = "group" /\ run'.step = "group"
        /\ run'.todo = run.todo
        /\ run'.sources = Append(run.sources, items)
        /\ run'.told \cup run'.silent = run.told \cup run.silent \cup items
    BY <1>4, SessionIs DEF ExtractSession, At, StoreUnchanged, TypeInv
  <2> HIDE DEF items
  <2>3. ToSet(run'.sources) = ToSet(run.sources) \cup {items}
    BY <2>1, <2>2, SetOfAppend
  <2>4. Sourced' = items \cup Sourced
    BY <2>3 DEF Sourced
  <2>5. Unseen' = Unseen /\ Ahead' = Ahead
    BY <2>2 DEF Unseen, Ahead
  <2> QED
    BY <2>2, <2>4, <2>5 DEF SeenInv, Extracting
<1>5. ASSUME NEW c \in Capture, Flush(c)
      PROVE  SeenInv'
  <2>1. Source(c) /\ Drop(c) /\ Note(c) /\ run.step = "flush"
    BY <1>5 DEF Flush, At
  <2>2. /\ run'.told = run.told /\ run'.silent = run.silent /\ run'.todo = run.todo
        /\ run'.step = "flush"
    BY <1>0, <2>1 DEF Drop, Run
  <2>3. Fits' => Unseen' = {}
    BY <2>1, SourceSeen
  <2>4. Sourced' \subseteq Sourced /\ Ahead' = Ahead
    BY <1>0, <2>1, <2>2, DropShrinks DEF Ahead
  <2> QED
    BY <2>1, <2>2, <2>3, <2>4 DEF SeenInv, Extracting
<1> QED
  BY <1>1, <1>2, <1>3, <1>4, <1>5 DEF LegacyStep

LEMMA SeenStep == TypeInv /\ SeenInv /\ [Next]_vars => SeenInv'
<1> SUFFICES ASSUME TypeInv, SeenInv, [Next]_vars
             PROVE  SeenInv'
  OBVIOUS
<1>0. Fits' => Fits
  BY FitsBefore
<1>1. CASE PluginStep \/ LegacyStep
  BY <1>0, <1>1, SeenPlugin, SeenLegacy
<1>2. CASE Fault
  <2>1. CASE Restart
    <3>1. UNCHANGED answer /\ run' = Idle
      BY <2>1 DEF Restart
    <3> QED
      BY <1>0, <3>1, SeenFresh DEF Idle, Extracting
  <2>2. CASE ~Restart
    <3>1. errors' # 0
      BY <1>2, <2>2 DEF Fault, ExtractFails, StoreFails, MergeFails, SkipSession, MarkFails,
           MarkProcessedFails, FlushFails, Fails, TypeInv, TypeOK
    <3> QED
      BY <3>1 DEF SeenInv, Fits
  <2> QED
    BY <2>1, <2>2
<1>3. CASE (\E c \in Capture : CaptureRow(c) \/ Delete(c)) \/ UNCHANGED vars
  <2>1. UNCHANGED <<answer, run>>
    BY <1>3 DEF CaptureRow, Delete, vars
  <2> QED
    BY <1>0, <2>1, SeenKept DEF Sourced
<1> QED
  BY <1>1, <1>2, <1>3 DEF Next

\* As long as no call fails and all that was ever captured fits into the budget of one run,
\* the plugin engine marks a capture only after the model has answered for it, wherever the
\* daemon is killed and whatever is captured or deleted meanwhile.
THEOREM PluginHasSeen == Spec => []PluginMarksSeen
<1>1. Init => SeenInv
  <2> SUFFICES ASSUME Init
               PROVE  SeenInv
    OBVIOUS
  <2>1. run.sources = <<>> /\ run.todo = <<>> /\ run.step = "idle"
    BY DEF Init, Idle
  <2>2. Sourced = {} /\ Unseen = {}
    BY <2>1, SetOfEmpty DEF Init, Sourced, Unseen
  <2> QED
    BY <2>1, <2>2 DEF SeenInv, Extracting
<1>2. SeenInv => PluginMarksSeen
  BY DEF SeenInv, Fits, PluginMarksSeen
<1> QED
  BY TypeInit, TypeStep, <1>1, SeenStep, <1>2, PTL DEF Spec
=============================================================================
