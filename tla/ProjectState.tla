---------------------------- MODULE ProjectState ----------------------------
(***************************************************************************)
(* The shared working state of projects (store/project_state.go) and the   *)
(* queue of facts to archive elsewhere (store/graduation.go).  Every       *)
(* change is a row in SQLite and then the whole board written anew to      *)
(* state.md, which agents read at the start of a session.  The commands    *)
(* and the servers that report do so in processes of their own, under no   *)
(* lock.                                                                   *)
(*                                                                         *)
(* A state is the number of the report that made it.                       *)
(***************************************************************************)
EXTENDS Naturals, Sequences, FiniteSets

CONSTANTS
    Project,
    Writer,      \* processes that report
    MaxReports,  \* bound: states reported
    MaxGrads,    \* bound: facts queued; ListGraduations shows up to 100
    MaxFaults    \* bound: kills and failing statements, together

VARIABLES
    states,   \* table project_states: project -> its state, 0 without a row
    trail,    \* table project_state_history
    grads,    \* table graduations: 0 while pending, or the pointer it was archived with
    file,     \* state.md: the states and the pending facts it shows, if it is "whole"
    writer,   \* process -> where it is, with its locals
    reports,  \* bound counter of reports
    alone,    \* history: the process that works while no other does
    trusted,  \* history: the last change of the tables was that of a process that worked
              \*   alone up to now, and whatever was asked of it succeeded
    faults

vars == <<states, trail, grads, file, writer, reports, alone, trusted, faults>>

Idle == [step |-> "idle", report |-> 0, shown |-> <<>>, queue |-> {}]
Nobody == "nobody"

Board(shown, queue) == [text |-> "whole", states |-> shown, queue |-> queue]
NoFile == [text |-> "empty", states |-> [p \in Project |-> 0], queue |-> {}]

Init ==
    /\ states = [p \in Project |-> 0] /\ trail = {} /\ grads = <<>>
    /\ file = NoFile
    /\ writer = [w \in Writer |-> Idle] /\ reports = 0
    /\ alone = Nobody /\ trusted = FALSE /\ faults = 0

At(w, step) == writer[w].step = step
Go(w, changed) == writer' = [writer EXCEPT ![w] = changed]
Busy == {w \in Writer : ~At(w, "idle")}
Pending == {g \in DOMAIN grads : grads[g] = 0}

\* A process begins with the change of its table.
Begin(w) ==
    /\ At(w, "idle")
    /\ alone' = IF Busy = {} THEN w ELSE Nobody
    /\ trusted' = (Busy = {})
    /\ UNCHANGED <<file, faults>>

TablesUnchanged == UNCHANGED <<states, trail, grads, reports>>
HistoryUnchanged == UNCHANGED <<alone, trusted>>

Fails ==
    /\ faults < MaxFaults /\ faults' = faults + 1
    /\ trusted' = FALSE /\ UNCHANGED alone

\* SetProjectState: the upsert; input that is not valid is turned down before.
SetProjectState(w, p) ==
    /\ Begin(w) /\ reports < MaxReports
    /\ reports' = reports + 1
    /\ states' = [states EXCEPT ![p] = reports + 1]
    /\ Go(w, [Idle EXCEPT !.step = "trail", !.report = reports + 1])
    /\ UNCHANGED <<trail, grads>>

AppendHistory(w) ==
    /\ At(w, "trail")
    /\ trail' = trail \cup {writer[w].report}
    /\ Go(w, [writer[w] EXCEPT !.step = "list"])
    /\ HistoryUnchanged /\ UNCHANGED <<states, grads, reports, file, faults>>

\* The error is dropped.
AppendHistoryFails(w) ==
    /\ At(w, "trail") /\ Go(w, [writer[w] EXCEPT !.step = "list"])
    /\ Fails /\ TablesUnchanged /\ UNCHANGED file

AddGraduation(w) ==
    /\ Begin(w) /\ Len(grads) < MaxGrads
    /\ grads' = Append(grads, 0)
    /\ Go(w, [Idle EXCEPT !.step = "list"])
    /\ UNCHANGED <<states, trail, reports>>

\* One conditional UPDATE; when it matches no row the caller gets an error and no more is done.
CompleteGraduation(w, g, pointer) ==
    /\ Begin(w) /\ g \in Pending
    /\ grads' = [grads EXCEPT ![g] = pointer]
    /\ Go(w, [Idle EXCEPT !.step = "list"])
    /\ UNCHANGED <<states, trail, reports>>

\* Mutant: only the state of this report is added to what the file shows.
ShownOwn(w) ==
    [writer[w] EXCEPT !.step = "pending", !.shown =
       [p \in Project |-> IF states[p] = writer[w].report THEN states[p] ELSE 0]]

Shown(w) == [writer[w] EXCEPT !.step = "pending", !.shown = states]

\* writeStateMarkdown: the states, and in a second query the pending facts.
ListProjectStates(w) ==
    /\ At(w, "list") /\ Go(w, Shown(w))
    /\ HistoryUnchanged /\ TablesUnchanged /\ UNCHANGED <<file, faults>>

ListGraduations(w) ==
    /\ At(w, "pending")
    /\ Go(w, [writer[w] EXCEPT !.step = "open", !.queue = Pending])
    /\ HistoryUnchanged /\ TablesUnchanged /\ UNCHANGED <<file, faults>>

\* Without the states no file is written; without the facts it is, and shows none.
ListFails(w) ==
    /\ At(w, "list") \/ At(w, "pending")
    /\ Go(w, IF At(w, "list") THEN Idle ELSE [writer[w] EXCEPT !.step = "open"])
    /\ Fails /\ TablesUnchanged /\ UNCHANGED file

\* os.WriteFile opens the file with O_TRUNC and then writes.
Truncate(w) ==
    /\ At(w, "open") /\ Go(w, [writer[w] EXCEPT !.step = "write"])
    /\ file' = NoFile
    /\ HistoryUnchanged /\ TablesUnchanged /\ UNCHANGED faults

\* What another process has written past the end of this board stays.
WriteFile(w) ==
    /\ At(w, "write") /\ Go(w, Idle)
    /\ \/ file' = Board(writer[w].shown, writer[w].queue)
       \/ file # NoFile /\ file' = [NoFile EXCEPT !.text = "mixed"]
    /\ HistoryUnchanged /\ TablesUnchanged /\ UNCHANGED faults

\* The process is killed, or the file cannot be written: nobody writes it again.
Kill(w) ==
    /\ ~At(w, "idle") /\ Go(w, Idle)
    /\ Fails /\ TablesUnchanged /\ UNCHANGED file

Step(w) ==
    \/ \E p \in Project : SetProjectState(w, p)
    \/ AppendHistory(w) \/ AppendHistoryFails(w) \/ AddGraduation(w)
    \/ \E g \in DOMAIN grads, pointer \in 1 .. 2 : CompleteGraduation(w, g, pointer)
    \/ ListProjectStates(w) \/ ListGraduations(w) \/ ListFails(w)
    \/ Truncate(w) \/ WriteFile(w) \/ Kill(w)

Next == \E w \in Writer : Step(w)

Spec == Init /\ [][Next]_vars

-----------------------------------------------------------------------------
(* Properties *)

\* "one block per project so any agent can read the whole board in one file" (project_state.go:194):
\* between two changes state.md shows every state and every pending fact, if the process that
\* made the last change was alone and was not killed; and the trail lacks a state only after
\* a failure.
BoardIsCurrent ==
    Busy = {} =>
       /\ trusted => file = Board(states, Pending)
       /\ faults = 0 => \A p \in Project : states[p] # 0 => states[p] \in trail
=============================================================================
