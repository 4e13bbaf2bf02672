------------------------------ MODULE Verdicts ------------------------------
(***************************************************************************)
(* What the daemon learns from the verdicts on proposals: ProfileTask      *)
(* (daemon/profile.go) writes one profile of the user, EvidenceTask        *)
(* (daemon/evidence.go) one memory per domain with the tally of its        *)
(* verdicts.  They run one after the other; proposals arrive, and are      *)
(* judged, judged anew and relabelled by a PATCH of their metadata.        *)
(*                                                                         *)
(* A proposal's row is its place in the order of creation.  Feedback       *)
(* memories differ only in that their verdict comes with them, and the     *)
(* lists of a run hold all there are.                                      *)
(***************************************************************************)
EXTENDS Naturals, Sequences, FiniteSets, FiniteSetsExt

CONSTANTS
    Verdict,    \* what normalizeVerdict makes of a status: accept, reject or ignore
    Domain,     \* domains, in the form bucketByDomain gives them
    Arriving,   \* domain -> what arrives in it: proposals, with the verdict Pending, and feedback,
                \*   with the first line of each, which may be the name of a domain
    Text,       \* profiles the model may write
    MaxSignals, \* bound: proposals and feedback memories
    MaxClock,   \* bound: seconds
    MaxChanges, \* bound: verdicts given
    MaxFaults   \* bound: kills, failing calls and statements

VARIABLES
    signals,   \* proposals and feedback: [verdict, domain, line, at]
    evidence,  \* the rows of the evidence task: [topic, tally, summary], in order of creation
    profiles,  \* the rows of the profile task: [text, at, superseded]
    task,      \* where the daemon is, with the locals of the task
    clock, changes, errors, faults

rows == <<evidence, profiles>>
outside == <<signals, clock, changes>>
vars == <<outside, rows, task, errors, faults>>

Pending == "pending"

Begin(step) == [step |-> step, signals |-> <<>>, todo |-> {}, domain |-> "none", row |-> 0,
                text |-> "none"]

Init ==
    /\ signals = <<>> /\ evidence = <<>> /\ profiles = <<>>
    /\ task = Begin("profile") /\ clock = 1
    /\ changes = 0 /\ errors = 0 /\ faults = 0

At(step) == task.step = step
Go(changed) == task' = changed
NoFault == UNCHANGED <<errors, faults>>
Reads == NoFault /\ UNCHANGED <<outside, rows>>
Fails == faults < MaxFaults /\ faults' = faults + 1 /\ errors' = errors + 1

-----------------------------------------------------------------------------
(* ProfileTask *)

Latest(times) == IF times = {} THEN 0 ELSE Max(times)

\* hasNewSignal compares times of creation, in whole seconds.
hasNewSignal ==
    \/ profiles = <<>>
    \/ Latest({signals[s].at : s \in DOMAIN signals})
         > Latest({profiles[n].at : n \in DOMAIN profiles})

ListSignals ==
    /\ At("profile")
    /\ Go(IF signals # <<>> /\ hasNewSignal THEN Begin("chat") ELSE Begin("evidence"))
    /\ Reads

Chat ==
    /\ At("chat")
    /\ \E t \in Text : Go([task EXCEPT !.step = "supersede", !.text = t,
                                       !.todo = DOMAIN profiles])
    /\ Reads

\* The call fails, or the answer is empty.
ChatFails ==
    /\ At("chat") /\ Go(Begin("evidence"))
    /\ Fails /\ UNCHANGED <<outside, rows>>

Superseded(n) == [profiles EXCEPT ![n].superseded = TRUE]

\* supersedeOldProfiles: one metadata update each.
Supersede ==
    /\ At("supersede") /\ task.todo # {}
    /\ Go([task EXCEPT !.todo = @ \ {Max(@)}])
    /\ profiles' = Superseded(Max(task.todo))
    /\ NoFault /\ UNCHANGED <<outside, evidence>>

SupersedeFails ==
    /\ At("supersede") /\ task.todo # {}
    /\ Go([task EXCEPT !.todo = @ \ {Max(@)}])
    /\ Fails /\ UNCHANGED <<outside, rows>>

\* A text that has a row already adopts it, as it is.
IngestProfile ==
    /\ At("supersede") /\ task.todo = {} /\ Go(Begin("evidence"))
    /\ profiles' = IF \E n \in DOMAIN profiles : profiles[n].text = task.text THEN profiles
                   ELSE Append(profiles, [text |-> task.text, at |-> clock, superseded |-> FALSE])
    /\ NoFault /\ UNCHANGED <<outside, evidence>>

IngestFails ==
    /\ At("supersede") /\ task.todo = {} /\ Go(Begin("evidence"))
    /\ Fails /\ UNCHANGED <<outside, rows>>

-----------------------------------------------------------------------------
(* EvidenceTask *)

Judged(ss) == {s \in DOMAIN ss : ss[s].verdict # Pending}
Bucket(ss, d) == {s \in Judged(ss) : ss[s].domain = d}

gatherVerdicts ==
    /\ At("evidence")
    /\ Go([Begin("domain") EXCEPT !.signals = signals,
             !.todo = {signals[s].domain : s \in Judged(signals)}])
    /\ Reads

\* The rows that speak for a domain.
RowsOf(d) == {n \in DOMAIN evidence : evidence[n].topic = d}

\* The rows whose metadata is LIKE "topic":"<d>": as well those with a verdict on a proposal
\* whose first line is the name of the domain.
Matching(d) ==
    RowsOf(d) \cup {n \in DOMAIN evidence : \E v \in evidence[n].tally : v.line = d}

\* Mutant: the row is looked for by its summary, which a kill may have left behind.
CreateUnlessTold(d) ==
    IF \E n \in Matching(d) : evidence[n].summary # {}
    THEN evidence
    ELSE Append(evidence, [topic |-> d, tally |-> {}, summary |-> {}])

Found(d) ==
    IF Matching(d) # {} THEN evidence
    ELSE Append(evidence, [topic |-> d, tally |-> {}, summary |-> {}])

\* findOrCreateTopicMemory, for one domain after the other, in any order.
findOrCreateTopicMemory ==
    /\ At("domain")
    /\ \E d \in task.todo :
         /\ evidence' = Found(d)
         /\ Go([task EXCEPT !.step = "merge", !.todo = @ \ {d}, !.domain = d,
                            !.row = IF evidence' # evidence THEN Len(evidence') ELSE Min(Matching(d))])
    /\ NoFault /\ UNCHANGED <<outside, profiles>>

NextDomain == [task EXCEPT !.step = "domain", !.domain = "none", !.row = 0]

Verdicts(ss, d) ==
    {[signal |-> s, type |-> ss[s].verdict, line |-> ss[s].line] : s \in Bucket(ss, d)}


\* The tally is computed anew from the verdicts the run began with.
Tally == Verdicts(task.signals, task.domain)

MergeEvidence ==
    /\ At("merge") /\ Go([task EXCEPT !.step = "rewrite"])
    /\ evidence' = [evidence EXCEPT ![task.row].topic = task.domain, ![task.row].tally = Tally]
    /\ NoFault /\ UNCHANGED <<outside, profiles>>

\* The content is told anew, in a statement of its own.
RewriteContent ==
    /\ At("rewrite") /\ Go(NextDomain)
    /\ evidence' = [evidence EXCEPT ![task.row].summary = Tally]
    /\ NoFault /\ UNCHANGED <<outside, profiles>>

\* One bad domain does not stop the others.
DomainFails ==
    /\ \/ At("domain") /\ \E d \in task.todo : Go([task EXCEPT !.todo = @ \ {d}])
       \/ At("merge") /\ Go(NextDomain)
       \/ At("rewrite") /\ Go(NextDomain)
    /\ Fails /\ UNCHANGED <<outside, rows>>

Done ==
    /\ At("domain") /\ task.todo = {} /\ Go(Begin("profile"))
    /\ Reads

-----------------------------------------------------------------------------
(* The rest of the system *)

\* A proposal arrives without a verdict, feedback with one.
Propose(d) ==
    /\ Len(signals) < MaxSignals
    /\ \E new \in Arriving[d] :
         signals' = Append(signals, [verdict |-> new.verdict, domain |-> d, line |-> new.line,
                                     at |-> clock])
    /\ NoFault /\ UNCHANGED <<rows, task, clock, changes>>

\* PATCH of a proposal's metadata: a verdict, or another domain.
Judge(s, v, d) ==
    /\ changes < MaxChanges /\ changes' = changes + 1
    /\ s \in DOMAIN signals
    /\ signals' = [signals EXCEPT ![s].verdict = v, ![s].domain = d]
    /\ NoFault /\ UNCHANGED <<rows, task, clock>>

Tick ==
    /\ clock < MaxClock /\ clock' = clock + 1
    /\ NoFault /\ UNCHANGED <<signals, changes, rows, task>>

Kill ==
    /\ faults < MaxFaults /\ faults' = faults + 1
    /\ Go(Begin("profile")) /\ UNCHANGED <<outside, rows, errors>>

Step ==
    \/ ListSignals \/ Chat \/ Supersede \/ IngestProfile
    \/ gatherVerdicts \/ findOrCreateTopicMemory \/ MergeEvidence \/ RewriteContent \/ Done

Next ==
    \/ Step \/ ChatFails \/ SupersedeFails \/ IngestFails \/ DomainFails
    \/ \E d \in Domain : Propose(d)
    \/ \E s \in DOMAIN signals, v \in Verdict, d \in Domain : Judge(s, v, d)
    \/ Tick \/ Kill

-----------------------------------------------------------------------------
(* Properties *)

\* No proposal begins with a line that is the name of a domain.
Plain == \A s \in DOMAIN signals : signals[s].line \notin Domain

\* "so only the latest counts" (profile.go:74), and each domain has one memory: as long as
\* no statement fails, no two profiles are current, and no two rows speak for a domain,
\* wherever the daemon is killed.  The rows are only distinct as long as no first line is the
\* name of a domain: else a domain takes over the row of another, beside its own.
OneVoice ==
    errors = 0 =>
      /\ Cardinality({n \in DOMAIN profiles : ~profiles[n].superseded}) <= 1
      /\ Plain => \A d \in Domain : Cardinality(RowsOf(d)) <= 1

\* "rerunning recomputes from the raw verdicts" (evidence.go:36): from some time on every
\* domain that has verdicts has a row that tells and counts exactly these, whatever was
\* judged, judged anew, relabelled, killed or failed before, and though the rows of others
\* are taken over.  Two domains that are each the first line of a proposal of the other take
\* each other's row for ever.  A domain that has lost all its verdicts is in no bucket, and
\* its row goes on telling the last of them.
Confused == \E s, t \in DOMAIN signals :
    /\ signals[s].line = signals[t].domain /\ signals[t].line = signals[s].domain
    /\ signals[s].domain # signals[t].domain

=============================================================================
