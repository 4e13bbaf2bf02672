----------------------------- MODULE Reminders -----------------------------
(***************************************************************************)
(* Reminders: the table (src/internal/store/reminders.go), the commands    *)
(* that create, finish and cancel them, and the daemon's ReminderTask      *)
(* (src/internal/daemon/reminder.go), which every tick takes the due ones, *)
(* marks each fired, rewrites pending.md and pushes one notification.      *)
(*                                                                         *)
(* A SQL statement, a file operation and a push are one step each; what    *)
(* the task holds in between is task[d].  Times are instants: all writers  *)
(* and the task format them in the configured location, so that the text   *)
(* comparison in SQL is the comparison of instants.                        *)
(***************************************************************************)
EXTENDS Naturals, FiniteSets

CONSTANTS
    Id,         \* reminder ids
    Daemon,     \* daemons that run a ReminderTask
    Prefix,     \* sets of ids: what a short id typed by the user may match
    None,       \* no row, no file
    Horizon,    \* how far ahead pending.md looks (365 days)
    MaxClock,   \* bound: the clock stops here
    MaxKills,   \* bound: daemons killed inside a run
    MaxErrors   \* bound: failing statements and writes

Finished == {"done", "cancelled"}

VARIABLES
    rem,        \* the reminders table: id -> [trigger, status], or None
    clock,
    task,       \* daemon -> where its ReminderTask is, with its locals
    tmp,        \* pending.md.tmp: the reminders it lists, None when there is none
    pending,    \* pending.md
    pushed,     \* reminder -> number of notifications that announced it
    kills, errors

files == <<tmp, pending>>
vars == <<rem, clock, task, files, pushed, kills, errors>>

Rows == {i \in Id : rem[i] # None}
Open == {i \in Rows : rem[i].status = "pending"}

Idle == [step |-> "idle"]

Init ==
    /\ rem = [i \in Id |-> None]
    /\ clock = 1
    /\ task = [d \in Daemon |-> Idle]
    /\ tmp = None /\ pending = None
    /\ pushed = [i \in Id |-> 0]
    /\ kills = 0 /\ errors = 0

-----------------------------------------------------------------------------
(* The commands and tools *)

\* `memory remind` and the MCP tool memory_remind.
CreateReminder(i, t) ==
    /\ rem[i] = None
    /\ rem' = [rem EXCEPT ![i] = [trigger |-> t, status |-> "pending"]]
    /\ UNCHANGED <<clock, task, files, pushed, kills, errors>>

\* `memory reminders --done` and `--cancel`: one UPDATE over all ids with the prefix.
MarkReminderStatus(ids, s) ==
    /\ ids \cap Rows # {}
    /\ rem' = [i \in Id |-> IF i \in ids \cap Rows THEN [rem[i] EXCEPT !.status = s]
                                                   ELSE rem[i]]
    /\ UNCHANGED <<clock, task, files, pushed, kills, errors>>

-----------------------------------------------------------------------------
(* ReminderTask.Run *)

\* Mutant: the query forgets the status.
DueWhateverStatus(now) == {i \in Rows : rem[i].trigger <= now}

\* ListDueReminders: pending reminders up to a time.
Due(now) == {i \in Open : rem[i].trigger <= now}

Goto(d, place) == task' = [task EXCEPT ![d] = place]

\* With nothing due the run ends here, and pending.md stays as it is.
ListDue(d) ==
    /\ task[d] = Idle
    /\ Due(clock) # {}
    /\ Goto(d, [step |-> "mark", due |-> Due(clock), items |-> {}])
    /\ UNCHANGED <<rem, clock, files, pushed, kills, errors>>

\* The reminders come in the order of their triggers.
Earliest(ids) == {i \in ids : \A j \in ids : rem[i].trigger <= rem[j].trigger}

\* Mutant: the list of items is built anew in every round.
AnnounceLast(d, i) ==
    LET rest == task[d].due \ {i}
    IN  Goto(d, IF rest = {} THEN [step |-> "write", items |-> {i}]
                             ELSE [step |-> "mark", due |-> rest, items |-> {i}])

\* One round of the loop is done: the reminder is to be announced in any case.
Announce(d, i) ==
    LET rest == task[d].due \ {i}
        items == task[d].items \cup {i}
    IN  Goto(d, IF rest = {} THEN [step |-> "write", items |-> items]
                             ELSE [step |-> "mark", due |-> rest, items |-> items])

\* The UPDATE goes by the id alone.  (fired_at is only shown.)
Fire(i) == rem' = [rem EXCEPT ![i].status = "fired"]

MarkReminderFired(d) ==
    /\ task[d].step = "mark"
    /\ \E i \in Earliest(task[d].due) : Fire(i) /\ Announce(d, i)
    /\ UNCHANGED <<clock, files, pushed, kills, errors>>

\* Mutant: the still-pending reminders are listed, the ones that fire are not.
ListedWithoutItems(d) == Due(clock + Horizon)

\* writePendingFile: the items of this run, and what is still pending up to a year.
Listed(d) == task[d].items \cup Due(clock + Horizon)

WriteTmp(d) ==
    /\ task[d].step = "write"
    /\ tmp' = Listed(d)
    /\ Goto(d, [step |-> "rename", items |-> task[d].items])
    /\ UNCHANGED <<rem, clock, pending, pushed, kills, errors>>

\* A rename whose source is gone fails; the error is logged and the run goes on.
RenameTmp(d) ==
    /\ task[d].step = "rename"
    /\ IF tmp # None THEN pending' = tmp /\ tmp' = None ELSE UNCHANGED files
    /\ Goto(d, [step |-> "push", items |-> task[d].items])
    /\ UNCHANGED <<rem, clock, pushed, kills, errors>>

PushNotification(d) ==
    /\ task[d].step = "push"
    /\ pushed' = [i \in Id |-> IF i \in task[d].items THEN pushed[i] + 1 ELSE pushed[i]]
    /\ Goto(d, Idle)
    /\ UNCHANGED <<rem, clock, files, kills, errors>>

Run(d) ==
    ListDue(d) \/ MarkReminderFired(d) \/ WriteTmp(d) \/ RenameTmp(d) \/ PushNotification(d)

-----------------------------------------------------------------------------
(* Time and faults *)

Tick ==
    /\ clock < MaxClock
    /\ clock' = clock + 1
    /\ UNCHANGED <<rem, task, files, pushed, kills, errors>>

Kill(d) ==
    /\ kills < MaxKills
    /\ kills' = kills + 1
    /\ task[d] # Idle
    /\ Goto(d, Idle)
    /\ UNCHANGED <<rem, clock, files, pushed, errors>>

\* The UPDATE fails: the loop goes on with the next reminder.  The file cannot be
\* written or renamed: the run goes on with the notification.
Error(d) ==
    /\ errors < MaxErrors
    /\ errors' = errors + 1
    /\ \/ /\ task[d].step = "mark"
          /\ \E i \in Earliest(task[d].due) : Announce(d, i)
       \/ /\ task[d].step \in {"write", "rename"}
          /\ Goto(d, [step |-> "push", items |-> task[d].items])
    /\ UNCHANGED <<rem, clock, files, pushed, kills>>

Next ==
    \/ \E i \in Id, t \in 1..MaxClock : CreateReminder(i, t)
    \/ \E ids \in Prefix, s \in Finished : MarkReminderStatus(ids, s)
    \/ \E d \in Daemon : Run(d) \/ Kill(d) \/ Error(d)
    \/ Tick

Spec == Init /\ [][Next]_vars

\* The ticker fires again and again, and time passes.
FairSpec == Spec /\ WF_vars(Tick) /\ \A d \in Daemon : WF_vars(Run(d))

-----------------------------------------------------------------------------
(* Properties *)

\* "this task marks each reminder 'fired' after notifying, so it fires exactly once"
\* (reminder.go:17).  The code falls short of it where an UPDATE fails; but a killed
\* daemon never leads to a second notification, and a failing UPDATE to one at most.
RepeatedOnlyOnErrors == \A i \in Id : pushed[i] <= 1 + errors

\* Agents read pending.md: unless a write failed, a reminder is in the file by the time
\* its notification comes.
AnnouncedIsListed ==
    [][\A i \in Id :
         errors = 0 /\ pushed'[i] > pushed[i] => pending # None /\ i \in pending]_vars

\* Again and again all that is due is announced, unless the user is faster.  (A daemon
\* killed after its marks announces nothing: "a missed notification is better than spam".)
DueIsAnnounced ==
    []<>(\A i \in Rows : rem[i].trigger <= clock =>
           pushed[i] > 0 \/ rem[i].status \in Finished \/ kills > 0)
=============================================================================
