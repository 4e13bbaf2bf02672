--------------------------- MODULE SessionDigest ---------------------------
(***************************************************************************)
(* SessionDigestTask (src/internal/daemon/session_digest.go) and the store *)
(* methods under it: the sessions that have memories without the           *)
(* session-digest bit are taken oldest first, a few per run; the newest    *)
(* memories of a session are fed to the language model; its digest         *)
(* replaces the session's row of session_views; then every memory the      *)
(* session has by that time gets the bit.                                  *)
(*                                                                         *)
(* The daemon's ticker and `memory sessions --build` run the task, each in *)
(* a process of its own, while other processes capture and delete          *)
(* memories.  A SQL statement and a call of the language model are one     *)
(* step each.                                                              *)
(***************************************************************************)
EXTENDS Naturals, FiniteSets, SequencesExt

CONSTANTS
    Memory,      \* memories, numbered in the order of their created_at
    Session,
    SessionOf,   \* memory -> its session_id
    Proc,        \* processes that run the task
    Limit,       \* sessions per run (sessionDigestPerTick, or --build)
    Window,      \* memories fed into one digest (sessionDigestMemories)
    Poison,      \* sessions whose prompt never gets a usable answer
    MaxDeletes,  \* bound: deleted memories
    MaxFaults    \* bound: kills and failed statements

ASSUME DigestAssumption ==
    /\ Memory \subseteq Nat /\ IsFiniteSet(Memory)
    /\ SessionOf \in [Memory -> Session]
    /\ Limit \in Nat \ {0} /\ Window \in Nat \ {0}
    /\ Poison \subseteq Session
    /\ MaxDeletes \in Nat /\ MaxFaults \in Nat

VARIABLES
    stored,    \* the memories table
    gone,      \* the memories that were deleted
    bit,       \* the memories with the session-digest bit in consumed_mask
    view,      \* session_views: session -> the memories its digest was made from,
               \* {} when it has none
    run,       \* process -> where it is in Run, with its locals
    faults

tables == <<stored, gone, bit, view>>
digestVars == <<tables, run, faults>>

Of(s) == {m \in stored : SessionOf[m] = s}
Unconsumed(s) == Of(s) \ bit

Least(ms) == CHOOSE m \in ms : \A n \in ms : m <= n

Idle == [step |-> "idle"]
DigestInit ==
    /\ stored = {} /\ gone = {} /\ bit = {}
    /\ view = [s \in Session |-> {}]
    /\ run = [p \in Proc |-> Idle]
    /\ faults = 0

Goto(p, place) == run' = [run EXCEPT ![p] = place]

\* The loop goes on with the sessions that are left.
NextSession(p) ==
    Goto(p, IF Len(run[p].todo) = 1 THEN Idle
                                    ELSE [step |-> "list", todo |-> Tail(run[p].todo)])

-----------------------------------------------------------------------------
(* Run *)

\* SessionsWithUnconsumed: ORDER BY MIN(created_at) over the unconsumed memories, LIMIT.
Batch ==
    LET pending == {s \in Session : Unconsumed(s) # {}}
        before(s) == {t \in pending : Least(Unconsumed(t)) < Least(Unconsumed(s))}
        size == IF Cardinality(pending) < Limit THEN Cardinality(pending) ELSE Limit
    IN  [n \in 1 .. size |-> CHOOSE s \in pending : Cardinality(before(s)) = n - 1]

StartRun(p) ==
    /\ run[p] = Idle
    /\ Batch # <<>>
    /\ Goto(p, [step |-> "list", todo |-> Batch])
    /\ UNCHANGED <<tables, faults>>

\* ListMemoriesBySession with a limit keeps the newest.
Newest(s) == {m \in Of(s) : Cardinality({n \in Of(s) : n > m}) < Window}

\* A session without memories is only marked.
ListSession(p) ==
    /\ run[p].step = "list"
    /\ LET prompt == Newest(Head(run[p].todo)) IN
         Goto(p, IF prompt = {}
                   THEN [step |-> "collect", todo |-> run[p].todo]
                   ELSE [step |-> "ask", todo |-> run[p].todo, prompt |-> prompt])
    /\ UNCHANGED <<tables, faults>>

\* The model answers with a digest, and UpsertSessionView replaces the row.
Digest(p, s) ==
    /\ run[p].step = "ask"
    /\ s = Head(run[p].todo) /\ s \notin Poison
    /\ view' = [view EXCEPT ![s] = run[p].prompt]
    /\ Goto(p, [step |-> "collect", todo |-> run[p].todo])
    /\ UNCHANGED <<stored, gone, bit, faults>>

\* Mutant: the error ends the run.
FailAndReturn(p) ==
    /\ run[p].step = "ask"
    /\ Goto(p, Idle)
    /\ UNCHANGED <<tables, faults>>

\* Mutant: the error is logged, and the session marked.
FailAndMark(p) ==
    /\ run[p].step = "ask"
    /\ Goto(p, [step |-> "collect", todo |-> run[p].todo])
    /\ UNCHANGED <<tables, faults>>

\* No answer in 30 seconds, an answer that does not parse, or an upsert that fails:
\* nothing is marked, and the next run tries again.
Fail(p) ==
    /\ run[p].step = "ask"
    /\ NextSession(p)
    /\ UNCHANGED <<tables, faults>>

\* markConsumed lists the session anew, and without a limit.
Collect(p) ==
    /\ run[p].step = "collect"
    /\ LET marks == Of(Head(run[p].todo)) IN
         IF marks = {} THEN NextSession(p)
                       ELSE Goto(p, [step |-> "mark", todo |-> run[p].todo, marks |-> marks])
    /\ UNCHANGED <<tables, faults>>

\* One round of the loop over the memories, oldest first, is done.
Marked(p, m) ==
    IF run[p].marks = {m} THEN NextSession(p)
                          ELSE Goto(p, [run[p] EXCEPT !.marks = @ \ {m}])

\* The UPDATE matches no row when the memory is gone.
SetBit(m) == bit' = bit \cup ({m} \cap stored)

MarkConsumed(p) ==
    /\ run[p].step = "mark"
    /\ LET m == Least(run[p].marks) IN SetBit(m) /\ Marked(p, m)
    /\ UNCHANGED <<stored, gone, view, faults>>

-----------------------------------------------------------------------------
(* The rest of the system, and faults *)

\* A conversation log may be read late: memories arrive in any order.
Capture(m) ==
    /\ m \notin stored \cup gone
    /\ stored' = stored \cup {m}
    /\ UNCHANGED <<gone, bit, view, run, faults>>

Delete(m) ==
    /\ m \in stored /\ Cardinality(gone) < MaxDeletes
    /\ stored' = stored \ {m} /\ bit' = bit \ {m}
    /\ gone' = gone \cup {m}
    /\ UNCHANGED <<view, run, faults>>

\* The process is killed, or an UPDATE fails whose result nobody looks at.
Fault(p) ==
    /\ faults < MaxFaults
    /\ faults' = faults + 1
    /\ \/ run[p] # Idle /\ Goto(p, Idle)
       \/ run[p].step = "mark" /\ Marked(p, Least(run[p].marks))
    /\ UNCHANGED tables

Proceed(p) == StartRun(p) \/ ListSession(p) \/ Collect(p) \/ MarkConsumed(p)

DigestNext ==
    \/ \E p \in Proc : Proceed(p) \/ Fail(p) \/ Fault(p) \/ (\E s \in Session : Digest(p, s))
    \/ \E m \in Memory : Capture(m) \/ Delete(m)

-----------------------------------------------------------------------------
(* Properties *)

\* "not marked consumed -> retried next tick" (session_digest.go:58): a memory is taken
\* out of the queue only after its session got a digest.  (When memories are deleted
\* too, a session that was empty for a moment is marked without one.)
ConsumedHasView ==
    gone = {} => \A m \in bit : view[SessionOf[m]] # {}

\* Fewer sessions without a usable answer than a run has places do not keep the others
\* from being digested.
HealthyAreDigested ==
    \A s \in Session \ Poison : []<>(Unconsumed(s) = {})
=============================================================================
