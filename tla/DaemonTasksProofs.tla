------------------------- MODULE DaemonTasksProofs -------------------------
(***************************************************************************)
(* Proofs about the tasks of DaemonTasks: reminders are announced once and *)
(* are in the file by then (Reminders), what counts as extracted is linked *)
(* (EntityGraph), and a prompt is paired once (Ingest).                    *)
(***************************************************************************)
EXTENDS DaemonTasks, FiniteSetTheorems, WellFoundedInduction, TLAPS

-----------------------------------------------------------------------------
(* Reminders *)

Reminder == [trigger : Nat, status : {"pending", "fired"} \cup Reminding!Finished]

Place ==
    {Reminding!Idle} \cup [step : {"mark"}, due : SUBSET Id, items : SUBSET Id]
                     \cup [step : {"write", "rename", "push"}, items : SUBSET Id]

\* What a run still has to mark, and what it is going to announce.
ToMark(d) == IF task[d].step = "mark" THEN task[d].due ELSE {}
Items(d) == IF task[d].step = "idle" THEN {} ELSE task[d].items

RemindersType ==
    /\ rem \in [Id -> {None} \cup Reminder]
    /\ task \in [Daemon -> Place]
    /\ pushed \in [Id -> Nat] /\ errors \in Nat

Announcements(i, d) == pushed[i] + (IF i \in Items(d) THEN 1 ELSE 0)

\* Each announcement of a reminder that is pending, or is still to be marked, has cost an
\* error; and a reminder there is none of is not on the way.
OnceFor(i, d) ==
    /\ Announcements(i, d) <= 1 + errors
    /\ i \in Reminding!Open => Announcements(i, d) <= errors
    /\ i \in ToMark(d) => i \notin Items(d) /\ pushed[i] <= errors
    /\ i \notin Reminding!Rows => pushed[i] = 0 /\ i \notin Items(d) /\ i \notin ToMark(d)

\* What is going to be announced is in the file that is being made, and then in pending.md.
ListedFor(d) ==
    errors = 0 =>
      /\ task[d].step = "rename" => tmp # None /\ task[d].items \subseteq tmp
      /\ task[d].step = "push" => pending # None /\ task[d].items \subseteq pending

\* An announcement needs a daemon: without one none ever was made.
RemindersInv ==
    /\ RemindersType
    /\ \A i \in Id : \A d \in Daemon : OnceFor(i, d)
    /\ Daemon = {} => \A i \in Id : pushed[i] = 0
    /\ \A d \in Daemon : ListedFor(d)

Single == \A d, e \in Daemon : d = e

\* The shapes of a run.
LEMMA Shapes ==
    ASSUME RemindersType, NEW d \in Daemon
    PROVE  /\ task[d].step \in {"idle", "mark", "write", "rename", "push"}
           /\ task[d].step = "idle" <=> task[d] = Reminding!Idle
           /\ task[d].step = "mark" => task[d].due \in SUBSET Id /\ task[d].items \in SUBSET Id
           /\ task[d].step \in {"write", "rename", "push"} => task[d].items \in SUBSET Id
           /\ ToMark(d) \in SUBSET Id /\ Items(d) \in SUBSET Id
<1>1. task[d] \in Place
  BY DEF RemindersType
<1> QED
  BY <1>1 DEF Place, Reminding!Idle, ToMark, Items

\* The only daemon goes to another place, and nothing else changes that the invariant reads
\* but for the file on the way.
LEMMA Goes ==
    ASSUME Single, RemindersInv, NEW d \in Daemon, NEW place \in Place,
           Reminding!Goto(d, place), UNCHANGED <<rem, pushed>>,
           errors' \in Nat, errors' >= errors,
           \A i \in Id : OnceFor(i, d)', ListedFor(d)'
    PROVE  RemindersInv'
BY DEF Single, RemindersInv, RemindersType, Reminding!Goto

LEMMA ListDueKeeps ==
    ASSUME Single, RemindersInv, NEW d \in Daemon, Reminding!ListDue(d)
    PROVE  RemindersInv'
<1> DEFINE due == Reminding!Due(clock)
           place == [step |-> "mark", due |-> due, items |-> {}]
<1>1. /\ task[d] = Reminding!Idle /\ Reminding!Goto(d, place)
      /\ UNCHANGED <<rem, pushed, errors, tmp, pending>>
  BY DEF Reminding!ListDue, Reminding!files
<1>2. due \subseteq Reminding!Open /\ Reminding!Open \subseteq Reminding!Rows /\ due \in SUBSET Id
  BY DEF Reminding!Due, Reminding!Open, Reminding!Rows
<1>3. Items(d) = {} /\ ToMark(d) = {}
  BY <1>1 DEF Items, ToMark, Reminding!Idle
<1>4. place \in Place /\ task'[d] = place
  BY <1>1, <1>2 DEF Place, RemindersInv, RemindersType, Reminding!Goto
<1>5. Items(d)' = {} /\ ToMark(d)' = due
  BY <1>4 DEF Items, ToMark
<1>6. ListedFor(d)'
  BY <1>4 DEF ListedFor
<1>7. errors \in Nat /\ pushed \in [Id -> Nat]
  BY DEF RemindersInv, RemindersType
<1>8. ASSUME NEW i \in Id
      PROVE  OnceFor(i, d)'
  <2>1. OnceFor(i, d) /\ pushed[i] \in Nat
    BY <1>7 DEF RemindersInv
  <2>2. /\ (i \in Reminding!Open)' <=> i \in Reminding!Open
        /\ (i \in Reminding!Rows)' <=> i \in Reminding!Rows
    BY <1>1 DEF Reminding!Open, Reminding!Rows
  <2> HIDE DEF due
  <2> QED
    BY <1>1, <1>2, <1>3, <1>5, <1>7, <2>1, <2>2 DEF OnceFor, Announcements
<1> HIDE DEF place
<1> QED
  BY <1>1, <1>4, <1>6, <1>7, <1>8, Goes

\* One reminder more is to be announced; an error less is one it may cost.
LEMMA AnnounceKeeps ==
    ASSUME Single, RemindersInv, NEW d \in Daemon, task[d].step = "mark", NEW i \in task[d].due,
           Reminding!Announce(d, i), UNCHANGED <<pushed, tmp, pending>>,
           \/ Reminding!Fire(i) /\ UNCHANGED errors
           \/ UNCHANGED rem /\ errors' = errors + 1
    PROVE  RemindersInv'
<1> DEFINE rest == task[d].due \ {i}
           items == task[d].items \cup {i}
<1>1. task[d].due \in SUBSET Id /\ task[d].items \in SUBSET Id /\ i \in Id
  BY Shapes DEF RemindersInv
<1>2. PICK place : place = IF rest = {} THEN [step |-> "write", items |-> items]
                           ELSE [step |-> "mark", due |-> rest, items |-> items]
  OBVIOUS
<1>3. place \in Place
  BY <1>1, <1>2 DEF Place
<1>4. Reminding!Goto(d, place)
  BY <1>2 DEF Reminding!Announce
<1>5. task' = [task EXCEPT ![d] = place] /\ task'[d] = place
  BY <1>4 DEF RemindersInv, RemindersType, Reminding!Goto
<1>6. Items(d) = task[d].items /\ ToMark(d) = task[d].due
  BY DEF Items, ToMark
<1>7. Items(d)' = items /\ ToMark(d)' = rest
  BY <1>2, <1>5 DEF Items, ToMark
<1>8. errors \in Nat /\ errors' \in Nat /\ errors' >= errors /\ pushed \in [Id -> Nat]
  BY DEF RemindersInv, RemindersType
<1>9. ListedFor(d)'
  BY <1>2, <1>5 DEF ListedFor
<1>10. OnceFor(i, d) /\ pushed[i] \in Nat /\ i \notin Items(d) /\ pushed[i] <= errors /\ i \in Reminding!Rows
  BY <1>1, <1>6, <1>8 DEF RemindersInv, OnceFor
<1>11. rem[i] \in Reminder /\ rem \in [Id -> {None} \cup Reminder]
  BY <1>10 DEF RemindersInv, RemindersType, Reminding!Rows
<1>12. /\ rem' \in [Id -> {None} \cup Reminder]
       /\ Reminding!Rows' = Reminding!Rows /\ Reminding!Open' \subseteq Reminding!Open
       /\ i \notin Reminding!Open' \/ errors' = errors + 1
  <2>1. CASE UNCHANGED rem /\ errors' = errors + 1
    BY <2>1, <1>11 DEF Reminding!Rows, Reminding!Open
  <2>2. CASE Reminding!Fire(i)
    <3>1. PICK r : r = [rem[i] EXCEPT !.status = "fired"]
      OBVIOUS
    <3>2. r \in Reminder /\ r.status = "fired"
      BY <1>11, <3>1 DEF Reminder
    <3>3. rem' = [rem EXCEPT ![i] = r]
      BY <2>2, <3>1 DEF Reminding!Fire
    <3>4. r # None /\ rem[i] # None
      BY <3>2, <1>11, DaemonTasksAssumption DEF Reminder
    <3> QED
      BY <1>1, <1>11, <3>2, <3>3, <3>4 DEF Reminding!Rows, Reminding!Open
  <2> QED
    BY <2>1, <2>2
<1>13. ASSUME NEW j \in Id
       PROVE  OnceFor(j, d)'
  <2>1. OnceFor(j, d) /\ pushed[j] \in Nat
    BY <1>8 DEF RemindersInv
  <2>2. CASE j = i
    <3>1. Announcements(i, d)' = pushed[i] + 1
      BY <1>7 DEF Announcements
    <3>2. i \notin ToMark(d)' /\ i \in Reminding!Rows'
      BY <1>7, <1>10, <1>12
    <3> QED
      BY <1>8, <1>10, <1>12, <2>1, <2>2, <3>1, <3>2 DEF OnceFor
  <2>3. CASE j # i
    BY <1>6, <1>7, <1>8, <1>12, <2>1, <2>3 DEF OnceFor, Announcements
  <2> QED
    BY <2>2, <2>3
<1> QED
  BY <1>3, <1>5, <1>8, <1>9, <1>12, <1>13 DEF Single, RemindersInv, RemindersType

\* The user makes a reminder, or is done with some.
LEMMA UserKeeps ==
    ASSUME RemindersInv, UNCHANGED <<task, pushed, errors, tmp, pending>>,
           \/ \E i \in Id, t \in Nat : Reminding!CreateReminder(i, t)
           \/ \E ids \in Prefix, s \in Reminding!Finished : Reminding!MarkReminderStatus(ids, s)
    PROVE  RemindersInv'
<1>1. rem \in [Id -> {None} \cup Reminder] /\ errors \in Nat /\ pushed \in [Id -> Nat]
  BY DEF RemindersInv, RemindersType
<1>2. \A d \in Daemon : /\ Items(d)' = Items(d) /\ ToMark(d)' = ToMark(d)
                        /\ ListedFor(d)' <=> ListedFor(d)
  BY DEF Items, ToMark, ListedFor
<1>3. ASSUME NEW i \in Id, NEW t \in Nat, Reminding!CreateReminder(i, t)
      PROVE  RemindersInv'
  <2>1. PICK r : r = [trigger |-> t, status |-> "pending"]
    OBVIOUS
  <2>2. r \in Reminder /\ r # None
    BY <2>1, DaemonTasksAssumption DEF Reminder
  <2>3. rem[i] = None /\ rem' = [rem EXCEPT ![i] = r]
    BY <1>3, <2>1 DEF Reminding!CreateReminder
  <2>4. \A j \in Id : j # i => rem'[j] = rem[j]
    BY <1>1, <2>3
  <2>5. /\ rem' \in [Id -> {None} \cup Reminder] /\ Reminding!Open' \subseteq Reminding!Open \cup {i}
        /\ Reminding!Rows' = Reminding!Rows \cup {i} /\ i \notin Reminding!Rows
    BY <1>1, <2>2, <2>3 DEF Reminding!Rows, Reminding!Open
  <2>6. ASSUME NEW j \in Id, NEW d \in Daemon
        PROVE  OnceFor(j, d)'
    <3>1. OnceFor(j, d) /\ pushed[j] \in Nat
      BY <1>1 DEF RemindersInv
    <3> QED
      BY <1>1, <1>2, <2>5, <3>1 DEF OnceFor, Announcements
  <2> QED
    BY <1>1, <1>2, <2>5, <2>6 DEF RemindersInv, RemindersType
<1>4. ASSUME NEW ids \in Prefix, NEW s \in Reminding!Finished, Reminding!MarkReminderStatus(ids, s)
      PROVE  RemindersInv'
  <2>1. \A i \in ids \cap Reminding!Rows : /\ rem[i] \in Reminder
                                           /\ [rem[i] EXCEPT !.status = s] \in Reminder
                                           /\ [rem[i] EXCEPT !.status = s].status = s
    BY <1>1 DEF Reminding!Rows, Reminder
  <2>2. rem' = [i \in Id |-> IF i \in ids \cap Reminding!Rows THEN [rem[i] EXCEPT !.status = s]
                             ELSE rem[i]]
    BY <1>4 DEF Reminding!MarkReminderStatus
  <2>3. s # "pending" /\ \A r \in Reminder : r # None
    BY DaemonTasksAssumption DEF Reminding!Finished, Reminder
  <2>4. /\ rem' \in [Id -> {None} \cup Reminder] /\ Reminding!Open' \subseteq Reminding!Open
        /\ Reminding!Rows' = Reminding!Rows
    <3>1. \A i \in Id : \/ rem'[i] = rem[i]
                        \/ /\ i \in Reminding!Rows /\ rem'[i] \in Reminder
                           /\ rem'[i].status # "pending"
      BY <2>1, <2>2, <2>3
    <3>2. rem' \in [Id -> {None} \cup Reminder]
      BY <1>1, <2>2, <3>1
    <3> QED
      BY <2>3, <3>1, <3>2 DEF Reminding!Rows, Reminding!Open
  <2>5. ASSUME NEW j \in Id, NEW d \in Daemon
        PROVE  OnceFor(j, d)'
    <3>1. OnceFor(j, d) /\ pushed[j] \in Nat
      BY <1>1 DEF RemindersInv
    <3> QED
      BY <1>1, <1>2, <2>4, <3>1 DEF OnceFor, Announcements
  <2> QED
    BY <1>1, <1>2, <2>4, <2>5 DEF RemindersInv, RemindersType
<1> QED
  BY <1>3, <1>4

\* The run goes on to a place with the same items, or ends; what it has announced by then is
\* in pushed.
LEMMA RunKeeps ==
    ASSUME Single, RemindersInv, NEW d \in Daemon, NEW place \in Place,
           Reminding!Goto(d, place), UNCHANGED rem, place.step # "mark",
           pushed' \in [Id -> Nat], errors' \in Nat, errors' >= errors,
           \A i \in Id : Announcements(i, d)' <= Announcements(i, d) /\ pushed[i] <= pushed'[i]
                         /\ (i \notin Items(d) => pushed'[i] = pushed[i]),
           place.step # "idle" => place.items = Items(d),
           ListedFor(d)'
    PROVE  RemindersInv'
<1>1. rem' \in [Id -> {None} \cup Reminder] /\ task' = [task EXCEPT ![d] = place] /\ task'[d] = place
  BY DEF RemindersInv, RemindersType, Reminding!Goto
<1>2. ToMark(d)' = {} /\ Items(d)' \subseteq Items(d)
  BY <1>1 DEF ToMark, Items
<1>3. Reminding!Rows' = Reminding!Rows /\ Reminding!Open' = Reminding!Open
  BY DEF Reminding!Rows, Reminding!Open
<1>4. errors \in Nat /\ pushed \in [Id -> Nat]
  BY DEF RemindersInv, RemindersType
<1>5. ASSUME NEW i \in Id
      PROVE  OnceFor(i, d)'
  <2>1. /\ OnceFor(i, d) /\ Announcements(i, d) \in Nat /\ Announcements(i, d)' \in Nat
        /\ pushed[i] \in Nat /\ pushed'[i] \in Nat
    BY <1>4 DEF RemindersInv, Announcements
  <2> QED
    BY <1>2, <1>3, <1>4, <2>1 DEF OnceFor
<1> QED
  BY <1>1, <1>5 DEF Single, RemindersInv, RemindersType

LEMMA FileKeeps ==
    ASSUME Single, RemindersInv, NEW d \in Daemon,
           Reminding!WriteTmp(d) \/ Reminding!RenameTmp(d)
    PROVE  RemindersInv'
<1>1. errors' = errors /\ errors \in Nat /\ pushed' = pushed /\ pushed \in [Id -> Nat] /\ rem' = rem
  BY DEF RemindersInv, RemindersType, Reminding!WriteTmp, Reminding!RenameTmp
<1>2. task[d].step \in {"write", "rename"} /\ task[d].items \in SUBSET Id
  BY Shapes DEF RemindersInv, Reminding!WriteTmp, Reminding!RenameTmp
<1>3. Items(d) = task[d].items
  BY <1>2 DEF Items
<1>4. CASE Reminding!WriteTmp(d)
  <2>1. PICK place : place = [step |-> "rename", items |-> task[d].items]
    OBVIOUS
  <2>2. /\ place \in Place /\ place.step = "rename" /\ place.items = Items(d)
    BY <1>2, <1>3, <2>1 DEF Place
  <2>3. Reminding!Goto(d, place) /\ tmp' = task[d].items \cup Reminding!Due(clock + Horizon)
    BY <1>4, <2>1 DEF Reminding!WriteTmp, Reminding!Listed
  <2>4. task'[d] = place
    BY <2>3 DEF RemindersInv, RemindersType, Reminding!Goto
  <2>5. Reminding!Due(clock + Horizon) \subseteq Id
    BY DEF Reminding!Due, Reminding!Open, Reminding!Rows
  <2>6. tmp' \in SUBSET Id
    BY <1>2, <2>3, <2>5
  <2>7. tmp' # None
    BY <2>6, DaemonTasksAssumption
  <2>8. ListedFor(d)'
    BY <1>3, <2>2, <2>3, <2>4, <2>7 DEF ListedFor
  <2>9. Items(d)' = Items(d)
    BY <2>2, <2>4 DEF Items
  <2>10. \A i \in Id : Announcements(i, d)' <= Announcements(i, d)
    BY <1>1, <2>9 DEF Announcements
  <2> QED
    BY <1>1, <2>2, <2>3, <2>8, <2>10, RunKeeps
<1>5. CASE Reminding!RenameTmp(d)
  <2>1. PICK place : place = [step |-> "push", items |-> task[d].items]
    OBVIOUS
  <2>2. /\ place \in Place /\ place.step = "push" /\ place.items = Items(d)
    BY <1>2, <1>3, <2>1 DEF Place
  <2>3. Reminding!Goto(d, place) /\ task[d].step = "rename"
    BY <1>5, <2>1 DEF Reminding!RenameTmp
  <2>4. task'[d] = place
    BY <2>3 DEF RemindersInv, RemindersType, Reminding!Goto
  <2>5. ListedFor(d)
    BY DEF RemindersInv
  <2>6. ListedFor(d)'
    BY <1>1, <1>3, <1>5, <2>2, <2>3, <2>4, <2>5 DEF ListedFor, Reminding!RenameTmp
  <2>7. Items(d)' = Items(d)
    BY <2>2, <2>4 DEF Items
  <2>8. \A i \in Id : Announcements(i, d)' <= Announcements(i, d)
    BY <1>1, <2>7 DEF Announcements
  <2> QED
    BY <1>1, <2>2, <2>3, <2>6, <2>8, RunKeeps
<1> QED
  BY <1>4, <1>5

LEMMA PushKeeps ==
    ASSUME Single, RemindersInv, NEW d \in Daemon, Reminding!PushNotification(d)
    PROVE  RemindersInv'
<1>1. /\ errors' = errors /\ errors \in Nat /\ pushed \in [Id -> Nat] /\ rem' = rem
      /\ Reminding!Goto(d, Reminding!Idle) /\ task[d].step = "push"
      /\ pushed' = [i \in Id |-> IF i \in task[d].items THEN pushed[i] + 1 ELSE pushed[i]]
  BY DEF RemindersInv, RemindersType, Reminding!PushNotification
<1>2. /\ Reminding!Idle \in Place /\ Reminding!Idle.step = "idle"
      /\ task'[d] = Reminding!Idle /\ Items(d) = task[d].items
  BY <1>1 DEF Place, RemindersInv, RemindersType, Reminding!Goto, Reminding!Idle, Items
<1>3. Items(d)' = {}
  BY <1>2 DEF Items
<1>4. pushed' \in [Id -> Nat] /\ ListedFor(d)'
  BY <1>1, <1>2 DEF ListedFor
<1>5. ASSUME NEW i \in Id
      PROVE  /\ Announcements(i, d)' <= Announcements(i, d) /\ pushed[i] <= pushed'[i]
             /\ i \notin Items(d) => pushed'[i] = pushed[i]
  <2>1. pushed[i] \in Nat /\ pushed'[i] = IF i \in Items(d) THEN pushed[i] + 1 ELSE pushed[i]
    BY <1>1, <1>2
  <2>2. Announcements(i, d)' = pushed'[i] + 0
    BY <1>3 DEF Announcements
  <2> QED
    BY <2>1, <2>2 DEF Announcements
<1> QED
  BY <1>1, <1>2, <1>4, <1>5, RunKeeps

\* A run that is killed, or whose file cannot be written.
LEMMA CutKeeps ==
    ASSUME Single, RemindersInv, NEW d \in Daemon,
           \/ Reminding!Kill(d)
           \/ Reminding!Error(d) /\ task[d].step \in {"write", "rename"}
    PROVE  RemindersInv'
<1>1. errors \in Nat /\ pushed' = pushed /\ pushed \in [Id -> Nat] /\ rem' = rem
  BY DEF RemindersInv, RemindersType, Reminding!Kill, Reminding!Error
<1>2. CASE Reminding!Kill(d)
  <2>1. Reminding!Goto(d, Reminding!Idle) /\ errors' = errors
    BY <1>2 DEF Reminding!Kill
  <2>2. /\ Reminding!Idle \in Place /\ Reminding!Idle.step = "idle" /\ task'[d] = Reminding!Idle
    BY <2>1 DEF Place, RemindersInv, RemindersType, Reminding!Goto, Reminding!Idle
  <2>3. Items(d)' = {} /\ ListedFor(d)'
    BY <2>2 DEF Items, ListedFor
  <2>4. \A i \in Id : Announcements(i, d)' <= Announcements(i, d) /\ pushed[i] <= pushed'[i]
    BY <1>1, <2>3 DEF Announcements
  <2> QED
    BY <1>1, <2>1, <2>2, <2>3, <2>4, RunKeeps
<1>3. CASE Reminding!Error(d) /\ task[d].step \in {"write", "rename"}
  <2>1. PICK place : place = [step |-> "push", items |-> task[d].items]
    OBVIOUS
  <2>2. Items(d) = task[d].items /\ task[d].items \in SUBSET Id
    BY <1>3, Shapes DEF Items, RemindersInv
  <2>3. place \in Place /\ place.step = "push" /\ place.items = Items(d)
    BY <2>1, <2>2 DEF Place
  <2>4. Reminding!Goto(d, place) /\ errors' = errors + 1
    BY <1>3, <2>1 DEF Reminding!Error
  <2>5. task'[d] = place
    BY <2>4 DEF RemindersInv, RemindersType, Reminding!Goto
  <2>6. Items(d)' = Items(d) /\ ListedFor(d)'
    BY <1>1, <2>3, <2>4, <2>5 DEF Items, ListedFor
  <2>7. \A i \in Id : Announcements(i, d)' <= Announcements(i, d) /\ pushed[i] <= pushed'[i]
    BY <1>1, <2>6 DEF Announcements
  <2> QED
    BY <1>1, <2>3, <2>4, <2>6, <2>7, RunKeeps
<1> QED
  BY <1>2, <1>3

LEMMA RemindersStep ==
    ASSUME Single, RemindersInv, Reminding!Next
    PROVE  RemindersInv'
<1>1. CASE \E i \in Id, t \in 1..MaxClock : Reminding!CreateReminder(i, t)
  <2>1. \A t \in 1..MaxClock : t \in Nat
    OBVIOUS
  <2> QED
    BY <1>1, <2>1, UserKeeps DEF Reminding!CreateReminder, Reminding!files
<1>2. CASE \E ids \in Prefix, s \in Reminding!Finished : Reminding!MarkReminderStatus(ids, s)
  BY <1>2, UserKeeps DEF Reminding!MarkReminderStatus, Reminding!files
<1>3. ASSUME NEW d \in Daemon, Reminding!Run(d)
      PROVE  RemindersInv'
  <2>1. CASE Reminding!ListDue(d)
    BY <2>1, ListDueKeeps
  <2>2. CASE Reminding!MarkReminderFired(d)
    BY <2>2, AnnounceKeeps DEF Reminding!MarkReminderFired, Reminding!Earliest, Reminding!files
  <2>3. CASE Reminding!WriteTmp(d) \/ Reminding!RenameTmp(d)
    BY <2>3, FileKeeps
  <2>4. CASE Reminding!PushNotification(d)
    BY <2>4, PushKeeps
  <2> QED
    BY <1>3, <2>1, <2>2, <2>3, <2>4 DEF Reminding!Run
<1>4. ASSUME NEW d \in Daemon, Reminding!Kill(d)
      PROVE  RemindersInv'
  BY <1>4, CutKeeps
<1>5. ASSUME NEW d \in Daemon, Reminding!Error(d)
      PROVE  RemindersInv'
  <2>1. CASE task[d].step \in {"write", "rename"}
    BY <1>5, <2>1, CutKeeps
  <2>2. CASE task[d].step \notin {"write", "rename"}
    BY <1>5, <2>2, AnnounceKeeps DEF Reminding!Error, Reminding!Earliest, Reminding!files
  <2> QED
    BY <2>1, <2>2
<1>6. CASE Reminding!Tick
  BY <1>6 DEF Reminding!Tick, Reminding!files, RemindersInv, RemindersType, OnceFor, Announcements,
              ListedFor, Items, ToMark, Reminding!Open, Reminding!Rows
<1> QED
  BY <1>1, <1>2, <1>3, <1>4, <1>5, <1>6 DEF Reminding!Next

\* Of the other tasks' variables it only reads the number of errors, which grows.
LEMMA OthersKeep ==
    ASSUME RemindersInv, UNCHANGED <<rem, task, tmp, pending, pushed>>,
           errors' \in Nat, errors' >= errors
    PROVE  RemindersInv'
<1>1. errors \in Nat /\ pushed \in [Id -> Nat]
  BY DEF RemindersInv, RemindersType
<1>2. ASSUME NEW d \in Daemon
      PROVE  /\ Items(d)' = Items(d) /\ ToMark(d)' = ToMark(d) /\ ListedFor(d)'
             /\ Reminding!Open' = Reminding!Open /\ Reminding!Rows' = Reminding!Rows
  BY <1>1 DEF Items, ToMark, ListedFor, RemindersInv, Reminding!Open, Reminding!Rows
<1>3. ASSUME NEW i \in Id, NEW d \in Daemon
      PROVE  OnceFor(i, d)'
  <2>1. /\ OnceFor(i, d) /\ pushed[i] \in Nat /\ pushed'[i] = pushed[i]
    BY <1>1 DEF RemindersInv
  <2>2. Announcements(i, d) \in Nat /\ Announcements(i, d)' = Announcements(i, d)
    BY <1>2, <2>1 DEF Announcements
  <2> QED
    BY <1>1, <1>2, <2>1, <2>2 DEF OnceFor
<1> QED
  BY <1>2, <1>3 DEF RemindersInv, RemindersType

LEMMA ErrorsGrow ==
    ASSUME errors \in Nat, Linking!Next
    PROVE  errors' \in Nat /\ errors' >= errors
<1> USE DEF Linking!NoFault, Linking!RunOnly, Linking!Fails
<1>1. ASSUME NEW p \in Linking!Runner, Linking!ExtractionStep(p)
      PROVE  errors' \in Nat /\ errors' >= errors
  <2>1. CASE Linking!List(p) \/ Linking!Done(p) \/ Linking!NextRow(p) \/ Linking!Mark(p)
    BY <2>1 DEF Linking!List, Linking!Done, Linking!NextRow, Linking!Mark
  <2>2. CASE Linking!CreateEntity(p) \/ Linking!RecordMention(p)
    BY <2>2 DEF Linking!CreateEntity, Linking!RecordMention
  <2>3. CASE \E e \in Entity : Linking!Resolve(p, e)
    BY <2>3 DEF Linking!Resolve
  <2>4. CASE Linking!Extract(p)
    <3>1. UNCHANGED errors
      BY <2>4, Zenon DEF Linking!Extract
    <3> QED
      BY <3>1
  <2> QED
    BY <1>1, <2>1, <2>2, <2>3, <2>4 DEF Linking!ExtractionStep
<1>2. ASSUME NEW p \in Linking!Runner,
             \/ Linking!ExtractFails(p) \/ Linking!ParseFails(p) \/ Linking!LinkFails(p)
             \/ Linking!Kill(p)
      PROVE  errors' \in Nat /\ errors' >= errors
  BY <1>2 DEF Linking!ExtractFails, Linking!ParseFails, Linking!LinkFails, Linking!Kill
<1>3. ASSUME \/ Linking!ReclassifyEntities \/ \E e \in Entity : Linking!UpdateKind(e)
             \/ \E r \in Row : Linking!Settle(r) \/ Linking!Delete(r)
      PROVE  errors' \in Nat /\ errors' >= errors
  BY <1>3 DEF Linking!ReclassifyEntities, Linking!UpdateKind, Linking!Settle, Linking!Delete
<1> QED
  BY <1>1, <1>2, <1>3 DEF Linking!Next

LEMMA RemindersInvariant == ASSUME Single PROVE Spec => []RemindersInv
<1>1. Init => RemindersInv
  BY DEF Init, Reminding!Init, RemindersInv, RemindersType, OnceFor, Announcements, ListedFor,
         Items, ToMark, Reminding!Rows, Reminding!Open, Reminding!Idle, Place
<1>2. RemindersInv /\ [Next]_vars => RemindersInv'
  <2> SUFFICES ASSUME RemindersInv, [Next]_vars
               PROVE  RemindersInv'
    OBVIOUS
  <2>0. errors \in Nat
    BY DEF RemindersInv, RemindersType
  <2>1. CASE OfReminders /\ Reminding!Next
    BY <2>1, RemindersStep
  <2>2. CASE OfIngest /\ Ingesting!IngestNext
    BY <2>0, <2>2, OthersKeep DEF OfIngest, reminderVars
  <2>3. CASE OfEntities /\ Linking!Next
    BY <2>0, <2>3, OthersKeep, ErrorsGrow DEF OfEntities, reminderVars
  <2>4. CASE UNCHANGED vars
    BY <2>0, <2>4, OthersKeep DEF vars, reminderVars
  <2> QED
    BY <2>1, <2>2, <2>3, <2>4 DEF Next
<1> QED
  BY <1>1, <1>2, PTL DEF Spec

\* With one daemon a reminder is announced again only after an error, whatever is made, done,
\* cancelled or killed when.  (Of two daemons each would announce what is due at once; the
\* lock is there to leave one: DaemonLock.)
THEOREM AnnouncedOnce == ASSUME Single PROVE Spec => []RepeatedOnlyOnErrors
<1>1. RemindersInv => RepeatedOnlyOnErrors
  <2> SUFFICES ASSUME RemindersInv, NEW i \in Id
               PROVE  pushed[i] <= 1 + errors
    BY DEF RepeatedOnlyOnErrors, Reminding!RepeatedOnlyOnErrors
  <2>1. pushed[i] \in Nat /\ errors \in Nat
    BY DEF RemindersInv, RemindersType
  <2>2. CASE Daemon = {}
    BY <2>1, <2>2 DEF RemindersInv
  <2>3. ASSUME NEW d \in Daemon
        PROVE  pushed[i] <= 1 + errors
    BY <2>1 DEF RemindersInv, OnceFor, Announcements
  <2> QED
    BY <2>2, <2>3
<1> QED
  BY <1>1, RemindersInvariant, PTL

\* With one daemon, and as long as no write fails, a reminder is in pending.md by the time
\* its notification comes.
THEOREM ListedByThen == ASSUME Single PROVE Spec => AnnouncedIsListed
<1>1. RemindersInv /\ [Next]_vars =>
        [\A i \in Id : errors = 0 /\ pushed'[i] > pushed[i] => pending # None /\ i \in pending]_(Reminding!vars)
  <2> SUFFICES ASSUME RemindersInv, [Next]_vars, NEW i \in Id,
                      errors = 0, pushed'[i] > pushed[i]
               PROVE  pending # None /\ i \in pending
    OBVIOUS
  <2>1. pushed[i] \in Nat /\ pushed' # pushed
    BY DEF RemindersInv, RemindersType
  <2>2. Reminding!Next
    BY <2>1 DEF Next, vars, OfIngest, OfEntities, reminderVars
  <2>3. PICK d \in Daemon : Reminding!PushNotification(d)
    BY <2>1, <2>2 DEF Reminding!Next, Reminding!CreateReminder, Reminding!MarkReminderStatus,
         Reminding!Run, Reminding!ListDue, Reminding!MarkReminderFired, Reminding!WriteTmp,
         Reminding!RenameTmp, Reminding!Kill, Reminding!Error, Reminding!Tick
  <2>4. task[d].step = "push" /\ i \in task[d].items
    <3>1. pushed' = [j \in Id |-> IF j \in task[d].items THEN pushed[j] + 1 ELSE pushed[j]]
      BY <2>3 DEF Reminding!PushNotification
    <3> QED
      BY <2>1, <2>3, <3>1 DEF Reminding!PushNotification
  <2> QED
    BY <2>4 DEF RemindersInv, ListedFor
<1> QED
  BY <1>1, RemindersInvariant, PTL DEF Spec, AnnouncedIsListed, Reminding!AnnouncedIsListed

-----------------------------------------------------------------------------
(* Entities *)

Answers == UNION {[got -> SUBSET Entity] : got \in SUBSET Row}

Extraction ==
    [step : {"idle", "next", "row", "resolve", "create", "mention", "exit"},
     pending : SUBSET Row, batch : SUBSET Entity, answer : Answers, row : Nat,
     entity : Entity \cup {"none"}, seen : SUBSET Entity, count : {0, 1}]

GraphType ==
    /\ kind \in [Entity -> Kind \cup {"none"}]
    /\ mentions \in [Row -> [Entity -> Nat]]
    /\ run \in [Linking!Runner -> Extraction]
    /\ known \in [Row -> SUBSET Entity]
    /\ errors \in Nat

\* Where a run is with a row, one of the entities it has to link to it that is not linked
\* yet is still to come, or is the one it is at; no entity it knew is ever made anew.
AtRow(p) ==
    run[p].step \in {"resolve", "create", "mention"} =>
      /\ run[p].row \in Row
      /\ run[p].step \in {"create", "mention"} => run[p].entity \in Entity
      /\ run[p].step = "create" => run[p].entity \notin run[p].seen
      /\ errors = 0 =>
           \A e \in run[p].answer[run[p].row] \cap run[p].seen :
              \/ e \in run[p].batch
              \/ run[p].step = "mention" /\ e = run[p].entity
              \/ mentions[run[p].row][e] > 0

GraphInv ==
    /\ GraphType
    /\ \A p \in Linking!Runner : AtRow(p) /\ run[p].seen \subseteq Linking!Entities
    /\ ExtractedIsLinked

\* A set of rows that is not empty has a first one.
LEMMA LeastNumber ==
    ASSUME NEW S \in SUBSET Nat, S # {}
    PROVE  \E x \in S : \A y \in S : x <= y
<1>1. \E x \in S : \A y \in S : ~ (<<y, x>> \in OpToRel(<, Nat))
  BY ONLY S \in SUBSET Nat, S # {}, NatLessThanWellFounded, WFMin
<1>2. \A i, j \in Nat : j < i => <<j, i>> \in OpToRel(<, Nat)
  <2>1. OpToRel(<, Nat) = {ss \in Nat \X Nat : ss[1] < ss[2]}
    BY Zenon DEF OpToRel
  <2> QED
    BY <2>1
<1>3. \E x \in S : \A y \in S : ~ (y < x)
  BY <1>1, <1>2
<1>4. \A x, y \in S : ~ (y < x) => x <= y
  OBVIOUS
<1> QED
  BY <1>3, <1>4

LEMMA Smallest ==
    ASSUME NEW S \in SUBSET Row, S # {}
    PROVE  Linking!Min(S) \in S
BY DaemonTasksAssumption, LeastNumber DEF Linking!Min

\* An answer that loses a row is one.
LEMMA Loses ==
    ASSUME NEW a \in Answers, NEW S
    PROVE  Linking!Restrict(a, DOMAIN a \ S) \in Answers
<1>1. PICK got \in SUBSET Row : a \in [got -> SUBSET Entity]
  BY DEF Answers
<1>2. DOMAIN a = got /\ got \ S \in SUBSET Row
  BY <1>1
<1>3. Linking!Restrict(a, got \ S) \in [got \ S -> SUBSET Entity]
  BY <1>1 DEF Linking!Restrict
<1> QED
  BY <1>2, <1>3 DEF Answers

LEMMA AnswerType ==
    ASSUME NEW a \in Answers
    PROVE  DOMAIN a \in SUBSET Row /\ \A r \in DOMAIN a : a[r] \in SUBSET Entity
BY DEF Answers

LEMMA NoAnswer == <<>> \in Answers
<1>1. <<>> \in Seq(SUBSET Entity)
  OBVIOUS
<1>2. <<>> = [i \in {} |-> {}]
  OBVIOUS
<1>3. [i \in {} |-> {}] \in [{} -> SUBSET Entity]
  OBVIOUS
<1> QED
  BY <1>2, <1>3 DEF Answers

LEMMA IdleIsOne == Linking!Idle \in Extraction /\ Linking!Idle.seen = {} /\ Linking!Idle.step = "idle"
<1>1. PICK a \in Answers : a = <<>>
  BY NoAnswer
<1>2. Linking!Idle = [step |-> "idle", pending |-> {}, batch |-> {}, answer |-> a, row |-> 0,
                      entity |-> "none", seen |-> {}, count |-> 0]
  BY <1>1 DEF Linking!Idle
<1> QED
  BY <1>2 DEF Extraction

\* The tables only grow.
Grown ==
    /\ UNCHANGED known /\ errors' \in Nat /\ errors' >= errors
    /\ kind' \in [Entity -> Kind \cup {"none"}] /\ Linking!Entities \subseteq Linking!Entities'
    /\ mentions' \in [Row -> [Entity -> Nat]]
    /\ \A q \in Row : \A e \in Entity : mentions[q][e] > 0 => mentions'[q][e] > 0

GoesTo(p, r) ==
    /\ run' = [run EXCEPT ![p] = r]
    /\ r.seen \subseteq Linking!Entities'

LEMMA NotGrown ==
    ASSUME GraphInv, UNCHANGED <<known, kind, mentions>>, errors' = errors \/ errors' = errors + 1
    PROVE  Grown /\ Linking!Entities' = Linking!Entities
BY DEF Grown, GraphInv, GraphType, Linking!Entities

\* One run goes on, or is cut off; no row is marked.
LEMMA GraphGoes ==
    ASSUME GraphInv, NEW p \in Linking!Runner, NEW r \in Extraction, GoesTo(p, r), Grown,
           AtRow(p)'
    PROVE  GraphInv'
<1>1. run' \in [Linking!Runner -> Extraction] /\ run'[p] = r
  BY DEF GraphInv, GraphType, GoesTo
<1>2. GraphType'
  BY <1>1 DEF GraphInv, GraphType, Grown
<1>3. errors' = 0 => errors = 0
  BY DEF GraphInv, GraphType, Grown
<1>4. ExtractedIsLinked'
  <2>1. \A q \in Row : known[q] \in SUBSET Entity
    BY DEF GraphInv, GraphType
  <2> QED
    BY <1>3, <2>1 DEF GraphInv, Grown, ExtractedIsLinked, Linking!ExtractedIsLinked
<1>5. ASSUME NEW q \in Linking!Runner, q # p
      PROVE  AtRow(q)' /\ (run[q].seen \subseteq Linking!Entities)'
  <2>1. run'[q] = run[q] /\ run[q] \in Extraction
    BY <1>5 DEF GraphInv, GraphType, GoesTo
  <2>2. AtRow(q) /\ run[q].seen \subseteq Linking!Entities /\ run[q].seen \in SUBSET Entity
    BY <2>1 DEF GraphInv, Extraction
  <2> QED
    BY <1>3, <2>1, <2>2 DEF AtRow, Grown, Extraction
<1> QED
  BY <1>1, <1>2, <1>4, <1>5 DEF GraphInv, GoesTo

LEMMA ListKeeps ==
    ASSUME GraphInv, NEW p \in Linking!Runner, Linking!List(p) \/ Linking!Done(p)
    PROVE  GraphInv'
<1>1. UNCHANGED <<errors, known, kind, mentions>>
  BY DEF Linking!List, Linking!Done, Linking!RunOnly, Linking!NoFault
<1>2. Grown /\ Linking!Entities' = Linking!Entities /\ Linking!Entities \in SUBSET Entity
  BY <1>1, NotGrown DEF Linking!Entities
<1>3. PICK idle \in Extraction : idle = Linking!Idle
  BY IdleIsOne
<1>4. idle.seen = {}
  BY <1>3, IdleIsOne
<1>5. CASE Linking!List(p)
  <2>1. PICK r : r = [idle EXCEPT !.step = "next", !.seen = Linking!Entities,
                                  !.pending = Linking!Oldest(Linking!Unconsumed, PerTick[p])]
    OBVIOUS
  <2>2. Linking!Oldest(Linking!Unconsumed, PerTick[p]) \in SUBSET Row
    BY DEF Linking!Oldest, Linking!Unconsumed
  <2>3. r \in Extraction /\ r.step = "next" /\ r.seen = Linking!Entities
    BY <1>2, <2>1, <2>2 DEF Extraction
  <2>4. run' = [run EXCEPT ![p] = r]
    BY <1>3, <1>5, <2>1 DEF Linking!List, Linking!Go
  <2>5. run'[p] = r
    BY <2>4 DEF GraphInv, GraphType
  <2>6. AtRow(p)'
    BY <2>3, <2>5 DEF AtRow
  <2> QED
    BY <1>2, <2>3, <2>4, <2>6, GraphGoes DEF GoesTo
<1>6. CASE Linking!Done(p)
  <2>1. PICK step \in {"exit", "idle"} :
          step = IF p = "build" /\ run[p].count = 0 THEN "exit" ELSE "idle"
    OBVIOUS
  <2>2. PICK r : r = [idle EXCEPT !.step = step]
    OBVIOUS
  <2>3. r \in Extraction /\ r.step = step /\ r.seen = {}
    BY <1>4, <2>2 DEF Extraction
  <2>4. run' = [run EXCEPT ![p] = r]
    BY <1>3, <1>6, <2>1, <2>2 DEF Linking!Done, Linking!Go
  <2>5. run'[p] = r
    BY <2>4 DEF GraphInv, GraphType
  <2>6. AtRow(p)'
    BY <2>1, <2>3, <2>5 DEF AtRow
  <2> QED
    BY <1>2, <2>3, <2>4, <2>6, GraphGoes DEF GoesTo
<1> QED
  BY <1>5, <1>6

LEMMA ExtractKeeps ==
    ASSUME GraphInv, NEW p \in Linking!Runner,
           Linking!Extract(p) \/ Linking!ExtractFails(p) \/ Linking!ParseFails(p) \/ Linking!Kill(p)
    PROVE  GraphInv'
<1>1. run[p] \in Extraction /\ run[p].seen \subseteq Linking!Entities
  BY DEF GraphInv, GraphType
<1> DEFINE batch == Linking!Oldest(run[p].pending, BatchSize)
<1>2. batch \in SUBSET Row
  BY <1>1 DEF Linking!Oldest, Extraction
<1>3. Grown /\ Linking!Entities' = Linking!Entities
  <2>1. CASE Linking!Extract(p)
    <3>1. UNCHANGED <<errors, kind, mentions, known>>
      BY <2>1, Zenon DEF Linking!Extract, Linking!RunOnly, Linking!NoFault
    <3> QED
      BY <3>1, NotGrown
  <2>2. CASE Linking!ExtractFails(p) \/ Linking!ParseFails(p) \/ Linking!Kill(p)
    <3>1. UNCHANGED <<kind, mentions, known>> /\ (errors' = errors \/ errors' = errors + 1)
      BY <2>2 DEF Linking!ExtractFails, Linking!ParseFails, Linking!Kill, Linking!Fails, Linking!tables
    <3> QED
      BY <3>1, NotGrown
  <2> QED
    BY <2>1, <2>2
<1>4. ASSUME NEW r \in Extraction, run' = [run EXCEPT ![p] = r], r.seen \in {{}, run[p].seen},
             r.step \notin {"resolve", "create", "mention"}
      PROVE  GraphInv'
  <2>1. GoesTo(p, r)
    BY <1>1, <1>3, <1>4 DEF GoesTo
  <2>2. run'[p] = r
    BY <1>4 DEF GraphInv, GraphType
  <2>3. AtRow(p)'
    BY <1>4, <2>2 DEF AtRow
  <2> QED
    BY <1>3, <2>1, <2>3, GraphGoes
<1>5. CASE Linking!Extract(p)
  <2>0. PICK got \in SUBSET (batch \ Silent) :
          \E answer \in [got -> UNION {SUBSET Named[r] : r \in got} \cup {{}}] :
            /\ \A r \in got : answer[r] \subseteq Named[r]
            /\ run' = [run EXCEPT ![p] = [run[p] EXCEPT !.step = "row", !.pending = @ \ batch,
                                                        !.answer = answer]]
    BY <1>5, Zenon DEF Linking!Extract, Linking!Go
  <2>1. PICK answer \in [got -> UNION {SUBSET Named[r] : r \in got} \cup {{}}] :
          /\ \A r \in got : answer[r] \subseteq Named[r]
          /\ run' = [run EXCEPT ![p] = [run[p] EXCEPT !.step = "row", !.pending = @ \ batch,
                                                      !.answer = answer]]
    BY <2>0
  <2>2. got \in SUBSET Row /\ \A r \in got : Named[r] \in SUBSET Entity
    BY <1>2, <2>0, DaemonTasksAssumption
  <2>3. answer \in [got -> SUBSET Entity]
    BY <2>1, <2>2
  <2>4. answer \in Answers
    BY <2>2, <2>3 DEF Answers
  <2>5. PICK r : r = [run[p] EXCEPT !.step = "row", !.pending = @ \ batch, !.answer = answer]
    OBVIOUS
  <2> HIDE DEF batch
  <2>6. r \in Extraction /\ r.seen = run[p].seen /\ r.step = "row"
    BY <1>1, <1>2, <2>4, <2>5 DEF Extraction
  <2> QED
    BY <1>4, <2>1, <2>5, <2>6
<1>6. CASE Linking!ExtractFails(p)
  <2>1. PICK r : r = [run[p] EXCEPT !.pending = @ \ batch]
    OBVIOUS
  <2>2. run' = [run EXCEPT ![p] = r] /\ run[p].step = "next"
    BY <1>6, <2>1 DEF Linking!ExtractFails, Linking!Go
  <2> HIDE DEF batch
  <2>3. r \in Extraction /\ r.seen = run[p].seen /\ r.step = "next"
    BY <1>1, <1>2, <2>1, <2>2 DEF Extraction
  <2> QED
    BY <1>4, <2>2, <2>3
<1>7. CASE Linking!ParseFails(p)
  <2>0. [q \in batch |-> {}] \in [batch -> SUBSET Entity]
    OBVIOUS
  <2>1. PICK answer \in Answers : answer = [q \in batch |-> {}]
    BY <1>2, <2>0 DEF Answers
  <2>2. PICK r : r = [run[p] EXCEPT !.step = "row", !.pending = @ \ batch, !.answer = answer]
    OBVIOUS
  <2>3. run' = [run EXCEPT ![p] = r]
    BY <1>7, <2>1, <2>2 DEF Linking!ParseFails, Linking!Go
  <2> HIDE DEF batch
  <2>4. r \in Extraction /\ r.seen = run[p].seen /\ r.step = "row"
    BY <1>1, <1>2, <2>1, <2>2 DEF Extraction
  <2> QED
    BY <1>4, <2>3, <2>4
<1>8. CASE Linking!Kill(p)
  <2>1. run' = [run EXCEPT ![p] = Linking!Idle]
    BY <1>8 DEF Linking!Kill, Linking!Go
  <2> QED
    BY <1>4, <2>1, IdleIsOne
<1> QED
  BY <1>5, <1>6, <1>7, <1>8

LEMMA NextRowKeeps ==
    ASSUME GraphInv, NEW p \in Linking!Runner, Linking!NextRow(p)
    PROVE  GraphInv'
<1>1. run[p] \in Extraction /\ run[p].seen \subseteq Linking!Entities
  BY DEF GraphInv, GraphType
<1>2. Grown /\ Linking!Entities' = Linking!Entities
  <2>1. UNCHANGED <<errors, kind, mentions, known>>
    BY DEF Linking!NextRow, Linking!RunOnly, Linking!NoFault
  <2> QED
    BY <2>1, NotGrown
<1>3. PICK a \in Answers : a = run[p].answer
  BY <1>1 DEF Extraction
<1>4. CASE DOMAIN a = {}
  <2>1. PICK r : r = [run[p] EXCEPT !.step = "next"]
    OBVIOUS
  <2>2. run' = [run EXCEPT ![p] = r]
    BY <1>3, <1>4, <2>1 DEF Linking!NextRow, Linking!Go
  <2>3. r \in Extraction /\ r.step = "next" /\ r.seen = run[p].seen
    BY <1>1, <2>1 DEF Extraction
  <2>4. run'[p] = r
    BY <2>2 DEF GraphInv, GraphType
  <2> QED
    BY <1>1, <1>2, <2>2, <2>3, <2>4, GraphGoes DEF GoesTo, AtRow
<1>5. CASE DOMAIN a # {}
  <2>1. PICK row \in Row : row = Linking!Min(DOMAIN a) /\ row \in DOMAIN a /\ a[row] \in SUBSET Entity
    BY <1>5, AnswerType, Smallest
  <2>2. PICK named \in SUBSET Entity : named = a[row]
    BY <2>1
  <2>3. PICK r : r = [run[p] EXCEPT !.step = "resolve", !.row = row, !.batch = named]
    OBVIOUS
  <2>4. run' = [run EXCEPT ![p] = r]
    BY <1>3, <1>5, <2>1, <2>2, <2>3 DEF Linking!NextRow, Linking!Go
  <2>5. row \in Nat
    BY DaemonTasksAssumption
  <2>6. /\ r \in Extraction /\ r.step = "resolve" /\ r.seen = run[p].seen /\ r.row = row
        /\ r.batch = named /\ r.answer = a
    BY <1>1, <1>3, <2>3, <2>5 DEF Extraction
  <2>7. run'[p] = r
    BY <2>4 DEF GraphInv, GraphType
  <2>8. AtRow(p)'
    BY <2>2, <2>6, <2>7 DEF AtRow
  <2> QED
    BY <1>1, <1>2, <2>4, <2>6, <2>8, GraphGoes DEF GoesTo
<1> QED
  BY <1>4, <1>5

\* The steps with one entity; the changes of the tables are those of the step.
LEMMA EntityStepKeeps ==
    ASSUME GraphInv, NEW p \in Linking!Runner, NEW r \in Extraction, run' = [run EXCEPT ![p] = r],
           Grown, run[p].step \in {"resolve", "create", "mention"},
           r.seen = run[p].seen, r.row = run[p].row, r.answer = run[p].answer,
           r.step \in {"resolve", "create", "mention"},
           r.step \in {"create", "mention"} => r.entity \in Entity,
           r.step = "create" => r.entity \notin r.seen,
           errors' = 0 =>
             \A e \in r.answer[r.row] \cap r.seen :
               \/ e \in run[p].batch
               \/ run[p].step = "mention" /\ e = run[p].entity
               \/ mentions[r.row][e] > 0
               => \/ e \in r.batch
                  \/ r.step = "mention" /\ e = r.entity
                  \/ mentions'[r.row][e] > 0
    PROVE  GraphInv'
<1>1. run[p] \in Extraction /\ run[p].seen \subseteq Linking!Entities /\ AtRow(p)
  BY DEF GraphInv, GraphType
<1>2. run'[p] = r
  BY DEF GraphInv, GraphType
<1>3. errors' = 0 => errors = 0
  BY DEF Grown, GraphInv, GraphType
<1>4. AtRow(p)'
  BY <1>1, <1>2, <1>3 DEF AtRow
<1>5. GoesTo(p, r)
  BY <1>1 DEF GoesTo, Grown
<1> QED
  BY <1>4, <1>5, GraphGoes

LEMMA ResolveKeeps ==
    ASSUME GraphInv, NEW p \in Linking!Runner, NEW e \in Entity, Linking!Resolve(p, e)
    PROVE  GraphInv'
<1>1. run[p] \in Extraction /\ run[p].seen \subseteq Linking!Entities
  BY DEF GraphInv, GraphType
<1>2. UNCHANGED <<errors, kind, mentions, known>> /\ Grown
  <2>1. UNCHANGED <<errors, kind, mentions, known>>
    BY DEF Linking!Resolve, Linking!RunOnly, Linking!NoFault
  <2> QED
    BY <2>1, NotGrown
<1>3. PICK step \in {"mention", "create"} :
        step = IF e \in Linking!Entities THEN "mention" ELSE "create"
  OBVIOUS
<1>4. PICK r : r = [run[p] EXCEPT !.step = step, !.entity = e, !.batch = @ \ {e}]
  OBVIOUS
<1>5. run' = [run EXCEPT ![p] = r] /\ run[p].step = "resolve"
  BY <1>3, <1>4 DEF Linking!Resolve, Linking!Go
<1>6. /\ r \in Extraction /\ r.step = step /\ r.entity = e /\ r.batch = run[p].batch \ {e}
      /\ r.seen = run[p].seen /\ r.row = run[p].row /\ r.answer = run[p].answer
  BY <1>1, <1>4 DEF Extraction
<1>7. r.step = "create" => e \notin r.seen
  BY <1>1, <1>3, <1>6
<1>8. ASSUME NEW f \in r.seen
      PROVE  f = e => r.step = "mention"
  BY <1>1, <1>3, <1>6, <1>8
<1> QED
  BY <1>2, <1>5, <1>6, <1>7, <1>8, EntityStepKeeps

LEMMA CreateKeeps ==
    ASSUME GraphInv, NEW p \in Linking!Runner,
           Linking!CreateEntity(p) \/ Linking!RecordMention(p) \/ Linking!LinkFails(p)
    PROVE  GraphInv'
<1>1. run[p] \in Extraction /\ AtRow(p) /\ run[p].step \in {"create", "mention"}
  BY DEF GraphInv, GraphType, Linking!CreateEntity, Linking!RecordMention, Linking!LinkFails
<1>2. run[p].entity \in Entity /\ run[p].row \in Row
  BY <1>1 DEF AtRow
<1>3. kind \in [Entity -> Kind \cup {"none"}] /\ mentions \in [Row -> [Entity -> Nat]] /\ errors \in Nat
  BY DEF GraphInv, GraphType
<1>4. PICK back : back = [run[p] EXCEPT !.step = "resolve", !.entity = "none"]
  OBVIOUS
<1>5. /\ back \in Extraction /\ back.step = "resolve" /\ back.batch = run[p].batch
      /\ back.seen = run[p].seen /\ back.row = run[p].row /\ back.answer = run[p].answer
  BY <1>1, <1>4 DEF Extraction
<1>6. CASE Linking!CreateEntity(p) /\ run[p].entity \in Linking!Entities
  <2>1. UNCHANGED <<errors, kind, mentions, known>> /\ run' = [run EXCEPT ![p] = back] /\ run[p].step = "create"
    BY <1>4, <1>6 DEF Linking!CreateEntity, Linking!RunOnly, Linking!NoFault, Linking!Go
  <2>2. Grown
    BY <2>1, NotGrown
  <2> QED
    BY <1>1, <1>5, <2>1, <2>2, EntityStepKeeps
<1>7. CASE Linking!CreateEntity(p) /\ run[p].entity \notin Linking!Entities
  <2>1. PICK r : r = [run[p] EXCEPT !.step = "mention"]
    OBVIOUS
  <2>2. /\ UNCHANGED <<errors, mentions, known>> /\ run' = [run EXCEPT ![p] = r]
        /\ run[p].step = "create" /\ kind' = [kind EXCEPT ![run[p].entity] = classifyEntity[run[p].entity]]
    BY <1>7, <2>1 DEF Linking!CreateEntity, Linking!RunOnly, Linking!NoFault, Linking!Go
  <2>3. /\ r \in Extraction /\ r.step = "mention" /\ r.batch = run[p].batch /\ r.entity = run[p].entity
        /\ r.seen = run[p].seen /\ r.row = run[p].row /\ r.answer = run[p].answer
    BY <1>1, <2>1 DEF Extraction
  <2>4. classifyEntity[run[p].entity] \in Kind
    BY <1>2, DaemonTasksAssumption
  <2>5. Grown
    BY <1>2, <1>3, <2>2, <2>4, DaemonTasksAssumption DEF Grown, Linking!Entities
  <2> QED
    BY <1>2, <2>2, <2>3, <2>5, EntityStepKeeps
<1>8. CASE Linking!RecordMention(p)
  <2>1. PICK r : r = [run[p] EXCEPT !.step = "resolve", !.entity = "none", !.count = 1]
    OBVIOUS
  <2>2. PICK n \in Nat : n = mentions[run[p].row][run[p].entity] + 1 /\ n > 0
    BY <1>2, <1>3
  <2>3. PICK links \in [Entity -> Nat] : links = [mentions[run[p].row] EXCEPT ![run[p].entity] = n]
    BY <1>2, <1>3
  <2>4. mentions' = [mentions EXCEPT ![run[p].row] = links]
    BY <1>8, <2>2, <2>3 DEF Linking!RecordMention
  <2>5. /\ UNCHANGED <<errors, kind, known>> /\ run' = [run EXCEPT ![p] = r] /\ run[p].step = "mention"
    BY <1>8, <2>1 DEF Linking!RecordMention, Linking!RunOnly, Linking!NoFault, Linking!Go
  <2>6. /\ r \in Extraction /\ r.step = "resolve" /\ r.batch = run[p].batch
        /\ r.seen = run[p].seen /\ r.row = run[p].row /\ r.answer = run[p].answer
    BY <1>1, <2>1 DEF Extraction
  <2>7. mentions' \in [Row -> [Entity -> Nat]] /\ mentions'[run[p].row] = links
    BY <1>2, <1>3, <2>4
  <2>8. \A f \in Entity : mentions[run[p].row][f] > 0 => links[f] > 0
    BY <1>2, <1>3, <2>2, <2>3
  <2>9. \A q \in Row : \A f \in Entity : mentions[q][f] > 0 => mentions'[q][f] > 0
    BY <1>2, <1>3, <2>4, <2>8
  <2>10. Grown
    BY <1>3, <2>5, <2>7, <2>9 DEF Grown, Linking!Entities
  <2>11. links[run[p].entity] > 0
    BY <1>2, <1>3, <2>2, <2>3
  <2>12. r.seen \subseteq Entity
    BY <1>1, <2>6 DEF Extraction
  <2> QED
    BY <1>2, <2>5, <2>6, <2>7, <2>8, <2>10, <2>11, <2>12, EntityStepKeeps
<1>9. CASE Linking!LinkFails(p)
  <2>1. UNCHANGED <<kind, mentions, known>> /\ errors' = errors + 1 /\ run' = [run EXCEPT ![p] = back]
    BY <1>4, <1>9 DEF Linking!LinkFails, Linking!Fails, Linking!tables, Linking!Go
  <2>2. Grown /\ errors' # 0
    BY <1>3, <2>1, NotGrown
  <2> QED
    BY <1>1, <1>5, <2>1, <2>2, EntityStepKeeps
<1> QED
  BY <1>6, <1>7, <1>8, <1>9

\* The row is done: what its run knew of is linked.
LEMMA MarkKeeps ==
    ASSUME GraphInv, NEW p \in Linking!Runner, Linking!Mark(p)
    PROVE  GraphInv'
<1>1. run[p] \in Extraction /\ AtRow(p) /\ run[p].step = "resolve" /\ run[p].batch = {}
  BY DEF GraphInv, GraphType, Linking!Mark
<1>2. PICK row \in Row : row = run[p].row
  BY <1>1 DEF AtRow
<1>3. UNCHANGED <<errors, kind, mentions>>
  BY DEF Linking!Mark, Linking!RunOnly, Linking!NoFault
<1>4. PICK new : new = run[p].answer[row] \cap run[p].seen
  OBVIOUS
<1>5. new \in SUBSET Entity /\ (errors = 0 => \A e \in new : mentions[row][e] > 0)
  BY <1>1, <1>2, <1>4 DEF AtRow, Extraction
<1>6. known' = [known EXCEPT ![row] = known[row] \cup new]
  BY <1>2, <1>4 DEF Linking!Mark
<1>7. known \in [Row -> SUBSET Entity] /\ known' \in [Row -> SUBSET Entity]
  BY <1>5, <1>6 DEF GraphInv, GraphType
<1>8. ExtractedIsLinked'
  <2>1. \A q \in Row : known'[q] = known[q] \/ (q = row /\ known'[q] = known[row] \cup new)
    BY <1>6, <1>7
  <2> QED
    BY <1>3, <1>5, <2>1 DEF GraphInv, ExtractedIsLinked, Linking!ExtractedIsLinked
<1>9. PICK answer \in Answers : answer = Linking!Restrict(run[p].answer, DOMAIN run[p].answer \ {row})
  BY <1>1, Loses DEF Extraction
<1>10. PICK r : r = [run[p] EXCEPT !.step = "row", !.row = 0, !.answer = answer]
  OBVIOUS
<1>11. run' = [run EXCEPT ![p] = r]
  BY <1>2, <1>9, <1>10 DEF Linking!Mark, Linking!Go
<1>12. r \in Extraction /\ r.step = "row" /\ r.seen = run[p].seen
  BY <1>1, <1>10 DEF Extraction
<1>13. GraphType'
  BY <1>3, <1>7, <1>11, <1>12 DEF GraphInv, GraphType
<1>14. Linking!Entities' = Linking!Entities
  BY <1>3 DEF Linking!Entities
<1>15. ASSUME NEW q \in Linking!Runner
       PROVE  AtRow(q)' /\ (run[q].seen \subseteq Linking!Entities)'
  <2>1. CASE q = p
    <3>1. run'[p] = r
      BY <1>11 DEF GraphInv, GraphType
    <3> QED
      BY <1>12, <1>14, <2>1, <3>1 DEF GraphInv, AtRow
  <2>2. CASE q # p
    <3>1. run'[q] = run[q]
      BY <1>11, <2>2 DEF GraphInv, GraphType
    <3> QED
      BY <1>3, <1>14, <3>1 DEF GraphInv, AtRow
  <2> QED
    BY <2>1, <2>2
<1> QED
  BY <1>8, <1>13, <1>15 DEF GraphInv

\* Steps that leave the runs and the links as they are, and only give a kind to an entity or
\* count an error.
LEMMA RunsRest ==
    ASSUME GraphInv, UNCHANGED <<run, mentions, known>>, errors' \in Nat, errors' >= errors,
           \/ UNCHANGED kind
           \/ \E e \in Entity, k \in Kind : kind' = [kind EXCEPT ![e] = k]
    PROVE  GraphInv'
<1>1. kind' \in [Entity -> Kind \cup {"none"}] /\ Linking!Entities \subseteq Linking!Entities'
  BY DaemonTasksAssumption DEF GraphInv, GraphType, Linking!Entities
<1>2. errors' = 0 => errors = 0
  BY DEF GraphInv, GraphType
<1>3. GraphType' /\ ExtractedIsLinked'
  BY <1>1, <1>2 DEF GraphInv, GraphType, ExtractedIsLinked, Linking!ExtractedIsLinked
<1>4. ASSUME NEW p \in Linking!Runner
      PROVE  AtRow(p)' /\ (run[p].seen \subseteq Linking!Entities)'
  BY <1>1, <1>2 DEF GraphInv, AtRow
<1> QED
  BY <1>3, <1>4 DEF GraphInv

LEMMA GraphStep ==
    ASSUME GraphInv, Linking!Next
    PROVE  GraphInv'
<1>0. errors \in Nat
  BY DEF GraphInv, GraphType
<1>1. ASSUME NEW p \in Linking!Runner, Linking!ExtractionStep(p)
      PROVE  GraphInv'
  BY <1>1, ListKeeps, ExtractKeeps, NextRowKeeps, CreateKeeps, MarkKeeps, ResolveKeeps
  DEF Linking!ExtractionStep
<1>2. ASSUME NEW p \in Linking!Runner,
             \/ Linking!ExtractFails(p) \/ Linking!ParseFails(p) \/ Linking!LinkFails(p)
             \/ Linking!Kill(p)
      PROVE  GraphInv'
  BY <1>2, ExtractKeeps, CreateKeeps
<1>3. ASSUME \/ Linking!ReclassifyEntities
             \/ \E r \in Row : Linking!Settle(r) \/ Linking!Delete(r)
      PROVE  GraphInv'
  <2>1. UNCHANGED <<run, mentions, known, kind, errors>>
    BY <1>3 DEF Linking!ReclassifyEntities, Linking!Settle, Linking!Delete,
         Linking!RestUnchanged, Linking!NoFault, Linking!tables
  <2> QED
    BY <1>0, <2>1, RunsRest
<1>4. CASE \E e \in Entity : Linking!UpdateKind(e)
  <2>1. /\ UNCHANGED <<run, mentions, known>> /\ errors' = errors
        /\ \E e \in Entity, k \in Kind : kind' = [kind EXCEPT ![e] = k]
    BY <1>4 DEF Linking!UpdateKind, Linking!RestUnchanged, Linking!NoFault
  <2>2. errors' \in Nat /\ errors' >= errors
    BY <1>0, <2>1
  <2> QED
    BY ONLY GraphInv, <2>1, <2>2, RunsRest, Zenon
<1> QED
  BY <1>1, <1>2, <1>3, <1>4 DEF Linking!Next

LEMMA ReminderErrors ==
    ASSUME errors \in Nat, Reminding!Next
    PROVE  errors' \in Nat /\ errors' >= errors
<1>1. ASSUME NEW d \in Daemon, Reminding!Run(d)
      PROVE  UNCHANGED errors
  BY <1>1 DEF Reminding!Run, Reminding!ListDue, Reminding!MarkReminderFired, Reminding!WriteTmp,
       Reminding!RenameTmp, Reminding!PushNotification
<1>2. ASSUME NEW d \in Daemon, Reminding!Kill(d)
      PROVE  UNCHANGED errors
  BY <1>2 DEF Reminding!Kill
<1>3. ASSUME NEW d \in Daemon, Reminding!Error(d)
      PROVE  errors' = errors + 1
  BY <1>3 DEF Reminding!Error
<1>4. CASE UNCHANGED errors
  BY <1>4
<1>5. CASE \E i \in Id, t \in 1..MaxClock : Reminding!CreateReminder(i, t)
  BY <1>5 DEF Reminding!CreateReminder
<1>6. CASE \E ids \in Prefix, s \in Reminding!Finished : Reminding!MarkReminderStatus(ids, s)
  BY <1>6 DEF Reminding!MarkReminderStatus
<1>7. CASE Reminding!Tick
  BY <1>7 DEF Reminding!Tick
<1> QED
  BY <1>1, <1>2, <1>3, <1>4, <1>5, <1>6, <1>7 DEF Reminding!Next

\* However runs of the daemon and of the command overlap, and wherever one is killed, a row
\* that counts as extracted is linked to each entity named for it that was there when the
\* run began, as long as no call and no statement has failed.
THEOREM LinkedToItsEntities == Spec => []ExtractedIsLinked
<1>1. Init => GraphInv
  <2> SUFFICES ASSUME Init
               PROVE  GraphInv
    OBVIOUS
  <2>1. /\ kind = [e \in Entity |-> "none"] /\ mentions = [r \in Row |-> [e \in Entity |-> 0]]
        /\ run = [p \in Linking!Runner |-> Linking!Idle] /\ known = [r \in Row |-> {}] /\ errors = 0
    BY DEF Init, Linking!Init
  <2>2. GraphType
    BY <2>1, IdleIsOne DEF GraphType
  <2>3. \A p \in Linking!Runner : run[p] = Linking!Idle
    BY <2>1
  <2> QED
    BY <2>1, <2>2, <2>3, IdleIsOne DEF GraphInv, AtRow, ExtractedIsLinked, Linking!ExtractedIsLinked
<1>2. GraphInv /\ [Next]_vars => GraphInv'
  <2> SUFFICES ASSUME GraphInv, [Next]_vars
               PROVE  GraphInv'
    OBVIOUS
  <2>0. errors \in Nat
    BY DEF GraphInv, GraphType
  <2>1. CASE OfReminders /\ Reminding!Next
    BY <2>0, <2>1, ReminderErrors, RunsRest DEF OfReminders, entityVars
  <2>2. CASE OfIngest /\ Ingesting!IngestNext
    BY <2>0, <2>2, RunsRest DEF OfIngest, entityVars
  <2>3. CASE OfEntities /\ Linking!Next
    BY <2>3, GraphStep
  <2>4. CASE UNCHANGED vars
    BY <2>0, <2>4, RunsRest DEF vars, entityVars
  <2> QED
    BY <2>1, <2>2, <2>3, <2>4 DEF Next
<1>3. GraphInv => ExtractedIsLinked
  BY DEF GraphInv
<1> QED
  BY <1>1, <1>2, <1>3, PTL DEF Spec

-----------------------------------------------------------------------------
(* Ingest: what the loop over a rollout makes of it *)

\* A set of numbers that has nought, and the next after each, has all up to n.
LEMMA Rising ==
    ASSUME NEW n \in Nat, NEW S, 0 \in S, \A m \in Nat : m < n /\ m \in S => m + 1 \in S
    PROVE  \A m \in 0 .. n : m \in S
<1> DEFINE Missing == {m \in 0 .. n : m \notin S}
<1> SUFFICES ASSUME Missing # {} PROVE FALSE
  OBVIOUS
<1>1. Missing \in SUBSET Nat
  OBVIOUS
<1>2. PICK least \in Missing : \A m \in Missing : least <= m
  BY <1>1, LeastNumber
<1>3. least # 0 /\ least - 1 \in Nat /\ least - 1 < n /\ least - 1 \notin Missing
  BY <1>2
<1>4. least - 1 \in S
  BY <1>3
<1> QED
  BY <1>2, <1>3, <1>4

Turn == [prompt : Given \cup {None}, text : Answer \cup {NoText}]
Unscanned == [last |-> None, paired |-> FALSE, made |-> <<>>]
Scan(before, turn) == IF turn.text = NoText THEN before ELSE Ingesting!Paired(before, turn)

\* The loop has a value at every line.
LEMMA ScannedIs ==
    ASSUME NEW lines \in Seq(Turn)
    PROVE  LET after == Ingesting!Scanned(lines)
           IN  /\ after[0] = Unscanned
               /\ \A n \in 1 .. Len(lines) : after[n] = Scan(after[n - 1], lines[n])
<1> DEFINE Following(f, n) == IF n = 0 THEN Unscanned ELSE Scan(f[n - 1], lines[n])
           Works(f, m) == f = [n \in 0 .. m |-> Following(f, n)]
           S == {m \in Nat : \E f : Works(f, m)}
<1>0. Len(lines) \in Nat
  OBVIOUS
<1>1. 0 \in S
  <2>1. Works([n \in 0 .. 0 |-> Unscanned], 0)
    OBVIOUS
  <2> QED
    BY <2>1
<1>2. ASSUME NEW m \in Nat, m \in S PROVE m + 1 \in S
  <2>1. PICK f : Works(f, m)
    BY <1>2
  <2> DEFINE g == [n \in 0 .. m + 1 |-> IF n = m + 1 THEN Scan(f[m], lines[m + 1]) ELSE f[n]]
  <2>2. \A n \in 0 .. m : g[n] = f[n] /\ f[n] = Following(f, n)
    BY <2>1
  <2>3. \A n \in 0 .. m : n # 0 => n - 1 \in 0 .. m
    OBVIOUS
  <2>4. ASSUME NEW n \in 0 .. m PROVE g[n] = Following(g, n)
    <3> HIDE DEF g, Following
    <3>1. g[n] = Following(f, n)
      BY <2>2
    <3>2. n # 0 => g[n - 1] = f[n - 1]
      BY <2>2, <2>3
    <3> QED
      BY <3>1, <3>2 DEF Following
  <2>5. g[m + 1] = Following(g, m + 1)
    <3>1. m + 1 \in 0 .. m + 1 /\ m + 1 # 0 /\ m + 1 - 1 = m /\ m \in 0 .. m
      OBVIOUS
    <3>2. g[m + 1] = Scan(f[m], lines[m + 1])
      BY <3>1
    <3>3. g[m] = f[m]
      BY <2>2, <3>1
    <3> HIDE DEF g
    <3> QED
      BY <3>1, <3>2, <3>3
  <2>6. \A n \in 0 .. m + 1 : g[n] = Following(g, n)
    BY <2>4, <2>5
  <2> HIDE DEF Following
  <2>7. Works(g, m + 1)
    BY <2>6
  <2>8. m + 1 \in Nat
    OBVIOUS
  <2> HIDE DEF Works
  <2> QED
    BY <2>7, <2>8
<1>3. Len(lines) \in S
  <2>1. \A m \in Nat : m < Len(lines) /\ m \in S => m + 1 \in S
    BY <1>2
  <2>2. Len(lines) \in 0 .. Len(lines)
    BY <1>0
  <2> HIDE DEF S
  <2> QED
    BY <1>0, <1>1, <2>1, <2>2, Rising
<1>4. \E f : Works(f, Len(lines))
  BY <1>3
<1> DEFINE after == Ingesting!Scanned(lines)
<1>5. Works(after, Len(lines))
  <2>1. after = CHOOSE f : Works(f, Len(lines))
    BY DEF Ingesting!Scanned, Scan, Unscanned
  <2> QED
    BY <1>4, <2>1, Zenon
<1>6. \A n \in 0 .. Len(lines) : after[n] = Following(after, n)
  BY <1>5
<1> QED
  BY <1>0, <1>6

LEMMA ScannedGrows ==
    ASSUME NEW lines \in Seq(Turn), NEW t \in Turn
    PROVE  \A n \in 0 .. Len(lines) :
             Ingesting!Scanned(Append(lines, t))[n] = Ingesting!Scanned(lines)[n]
<1> DEFINE more == Append(lines, t)
           before == Ingesting!Scanned(lines)
           after == Ingesting!Scanned(more)
           S == {n \in Nat : after[n] = before[n]}
<1>1. /\ more \in Seq(Turn) /\ Len(lines) \in Nat /\ Len(more) = Len(lines) + 1
      /\ \A n \in 1 .. Len(lines) : more[n] = lines[n]
  OBVIOUS
<1>2. /\ before[0] = Unscanned
      /\ \A n \in 1 .. Len(lines) : before[n] = Scan(before[n - 1], lines[n])
  BY ScannedIs
<1>3. /\ after[0] = Unscanned
      /\ \A n \in 1 .. Len(more) : after[n] = Scan(after[n - 1], more[n])
  BY <1>1, ScannedIs
<1> HIDE DEF more, before, after
<1>4. 0 \in S
  BY <1>2, <1>3
<1>5. ASSUME NEW m \in Nat, m < Len(lines), m \in S PROVE m + 1 \in S
  <2>1. m + 1 \in 1 .. Len(lines) /\ m + 1 \in 1 .. Len(more) /\ m + 1 - 1 = m
    BY <1>1, <1>5
  <2>2. before[m + 1] = Scan(before[m], lines[m + 1])
    BY <1>2, <2>1
  <2>3. after[m + 1] = Scan(after[m], more[m + 1])
    BY <1>3, <2>1
  <2> QED
    BY <1>1, <1>5, <2>1, <2>2, <2>3
<1>6. \A m \in 0 .. Len(lines) : m \in S
  <2> HIDE DEF S
  <2> QED
    BY <1>1, <1>4, <1>5, Rising
<1> QED
  BY <1>6 DEF more, before, after

-----------------------------------------------------------------------------
(* Pairs and prompts that came anew, in general *)

Pair == ((Given \ Noise) \cup {None}) \X Answer
Pairs(made, p) == {i \in DOMAIN made : made[i][1] = p}

LEMMA PairsStep ==
    ASSUME NEW made \in Seq(Pair), NEW x, NEW p
    PROVE  /\ Cardinality(Pairs(made, p)) \in Nat /\ IsFiniteSet(Pairs(made, p))
           /\ Cardinality(Pairs(Append(made, x), p)) =
                Cardinality(Pairs(made, p)) + IF x[1] = p THEN 1 ELSE 0
<1> DEFINE P == Pairs(made, p)
           k == Len(made) + 1
           more == Append(made, x)
<1>1. /\ Len(made) \in Nat /\ DOMAIN made = 1 .. Len(made) /\ DOMAIN more = 1 .. k
      /\ more[k] = x /\ \A i \in DOMAIN made : more[i] = made[i]
  OBVIOUS
<1>2. P \in SUBSET (1 .. Len(made))
  BY <1>1 DEF Pairs
<1>3. IsFiniteSet(P) /\ Cardinality(P) \in Nat
  <2>1. IsFiniteSet(1 .. Len(made))
    BY <1>1, FS_Interval
  <2> HIDE DEF P
  <2> QED
    BY <1>2, <2>1, FS_Subset, FS_CardinalityType
<1>4. k \notin P /\ 1 .. k = (1 .. Len(made)) \cup {k}
  BY <1>1, <1>2
<1>5. Cardinality(P \cup {k}) = Cardinality(P) + 1
  BY <1>3, <1>4, FS_AddElement
<1> HIDE DEF more, k
<1>6. Pairs(more, p) = P \cup (IF x[1] = p THEN {k} ELSE {})
  BY <1>1, <1>4 DEF Pairs
<1> HIDE DEF P
<1>7. CASE x[1] = p
  BY <1>3, <1>5, <1>6, <1>7 DEF more, P
<1>8. CASE x[1] # p
  <2>1. Pairs(more, p) = P
    BY <1>6, <1>8
  <2> QED
    BY <1>3, <1>8, <2>1 DEF more, P
<1> QED
  BY <1>7, <1>8

\* The prompt in the window is still p.
Standing(lines, n, p) ==
    \E m \in 1 .. n : lines[m].prompt = p /\ \A k \in m + 1 .. n : lines[k].prompt \in {None, p}
Anew(lines, n, p) == {k \in 1 .. n : lines[k].prompt = p /\ ~ Standing(lines, k - 1, p)}

LEMMA StandingStep ==
    ASSUME NEW lines, NEW n \in Nat, n # 0, NEW p, p # None
    PROVE  Standing(lines, n, p) <=> \/ lines[n].prompt = p
                                     \/ lines[n].prompt = None /\ Standing(lines, n - 1, p)
<1>1. CASE lines[n].prompt = p
  <2>1. n \in 1 .. n /\ \A k \in n + 1 .. n : lines[k].prompt \in {None, p}
    OBVIOUS
  <2> QED
    BY <1>1, <2>1 DEF Standing
<1>2. CASE lines[n].prompt # p
  <2>1. ASSUME Standing(lines, n, p)
        PROVE  lines[n].prompt = None /\ Standing(lines, n - 1, p)
    <3>1. PICK m \in 1 .. n :
            lines[m].prompt = p /\ \A k \in m + 1 .. n : lines[k].prompt \in {None, p}
      BY <2>1 DEF Standing
    <3>2. m # n
      BY <1>2, <3>1
    <3>3. m \in 1 .. n - 1 /\ n \in m + 1 .. n /\ \A k \in m + 1 .. n - 1 : k \in m + 1 .. n
      BY <3>2
    <3> QED
      BY <1>2, <3>1, <3>3 DEF Standing
  <2>2. ASSUME lines[n].prompt = None, Standing(lines, n - 1, p)
        PROVE  Standing(lines, n, p)
    <3>1. PICK m \in 1 .. n - 1 :
            lines[m].prompt = p /\ \A k \in m + 1 .. n - 1 : lines[k].prompt \in {None, p}
      BY <2>2 DEF Standing
    <3>2. m \in 1 .. n /\ \A k \in m + 1 .. n : k = n \/ k \in m + 1 .. n - 1
      OBVIOUS
    <3> QED
      BY <2>2, <3>1, <3>2 DEF Standing
  <2> QED
    BY <1>2, <2>1, <2>2
<1> QED
  BY <1>1, <1>2

LEMMA AnewStep ==
    ASSUME NEW lines, NEW n \in Nat, NEW p
    PROVE  /\ IsFiniteSet(Anew(lines, n, p)) /\ Cardinality(Anew(lines, n, p)) \in Nat
           /\ Cardinality(Anew(lines, n + 1, p)) =
                Cardinality(Anew(lines, n, p))
                  + IF lines[n + 1].prompt = p /\ ~ Standing(lines, n, p) THEN 1 ELSE 0
<1> DEFINE A == Anew(lines, n, p)
           Comes == lines[n + 1].prompt = p /\ ~ Standing(lines, n, p)
<1>1. A \in SUBSET (1 .. n)
  BY DEF Anew
<1>2. IsFiniteSet(A) /\ Cardinality(A) \in Nat
  <2>1. IsFiniteSet(1 .. n)
    BY FS_Interval
  <2> HIDE DEF A
  <2> QED
    BY <1>1, <2>1, FS_Subset, FS_CardinalityType
<1>3. n + 1 \notin A /\ 1 .. n + 1 = (1 .. n) \cup {n + 1} /\ n + 1 - 1 = n
  BY <1>1
<1>4. Cardinality(A \cup {n + 1}) = Cardinality(A) + 1
  BY <1>2, <1>3, FS_AddElement
<1>5. Anew(lines, n + 1, p) = A \cup (IF Comes THEN {n + 1} ELSE {})
  BY <1>3 DEF Anew
<1> HIDE DEF A
<1>6. CASE Comes
  BY <1>2, <1>4, <1>5, <1>6 DEF A
<1>7. CASE ~ Comes
  <2>1. Anew(lines, n + 1, p) = A
    BY <1>5, <1>7
  <2> QED
    BY <1>2, <1>7, <2>1 DEF A
<1> QED
  BY <1>6, <1>7

-----------------------------------------------------------------------------
(* What the loop knows *)

Known == [last : Given \cup {None}, paired : BOOLEAN, made : Seq(Pair)]

\* What was scanned of the first n lines: a prompt that is no noise was paired when it was
\* new; so with each prompt there are no more pairs than the times it came anew, and fewer
\* while it stands there without a text of its own.
ScanKnows(lines, n, acc) ==
    /\ acc \in Known
    /\ acc.last \notin Noise \cup {None} => acc.paired
    /\ \A p \in Given :
         /\ Cardinality(Pairs(acc.made, p)) <= Cardinality(Anew(lines, n, p))
         /\ Standing(lines, n, p) /\ acc.last # p =>
              Cardinality(Pairs(acc.made, p)) < Cardinality(Anew(lines, n, p))

LEMMA PairedIs ==
    ASSUME NEW acc \in Known, NEW t \in Turn, t.text # NoText,
           acc.last \notin Noise \cup {None} => acc.paired
    PROVE  LET then == Ingesting!Paired(acc, t)
           IN  /\ then \in Known
               /\ then.last \notin Noise \cup {None} => then.paired
               /\ t.prompt # None => then.last = t.prompt
               /\ t.prompt = None => then.last = acc.last
               /\ \E told \in (Given \ Noise) \cup {None} :
                    /\ then.made = Append(acc.made, <<told, t.text>>)
                    /\ told # None => told = t.prompt /\ told # acc.last
<1> DEFINE new == t.prompt \notin {None, acc.last}
           waits == new \/ ~ acc.paired
           told == IF waits /\ t.prompt \notin Noise THEN t.prompt ELSE None
           then == Ingesting!Paired(acc, t)
<1>1. /\ t.prompt \in Given \cup {None} /\ t.text \in Answer
      /\ acc.last \in Given \cup {None} /\ acc.paired \in BOOLEAN /\ acc.made \in Seq(Pair)
  BY DEF Turn, Known
<1>2. /\ then.last = IF new THEN t.prompt ELSE acc.last
      /\ then.paired = ((acc.paired /\ ~ new) \/ told # None)
      /\ then.made = Append(acc.made, <<told, t.text>>)
      /\ then = [last |-> then.last, paired |-> then.paired, made |-> then.made]
  BY DEF Ingesting!Paired
<1>3. told \in (Given \ Noise) \cup {None} /\ (told # None => told = t.prompt /\ told # acc.last)
  BY <1>1
<1>4. new /\ t.prompt \notin Noise => told # None
  OBVIOUS
<1>5. Append(acc.made, <<told, t.text>>) \in Seq(Pair)
  <2> HIDE DEF told
  <2>1. <<told, t.text>> \in Pair
    BY <1>1, <1>3 DEF Pair
  <2> QED
    BY <1>1, <2>1
<1>6. /\ t.prompt # None => then.last = t.prompt
      /\ t.prompt = None => then.last = acc.last
  BY <1>2
<1>7. then \in Known
  <2>1. then.last \in Given \cup {None}
    BY <1>1, <1>2
  <2>2. then.paired \in BOOLEAN
    BY <1>2
  <2>3. then.made \in Seq(Pair)
    BY <1>2, <1>5
  <2> HIDE DEF then
  <2> QED
    BY <1>2, <2>1, <2>2, <2>3, Zenon DEF Known
<1>8. then.last \notin Noise \cup {None} => then.paired
  <2>1. CASE new
    BY <1>2, <1>4, <2>1
  <2>2. CASE ~ new
    BY <1>2, <2>2
  <2> QED
    BY <2>1, <2>2
<1> HIDE DEF told, then
<1>9. \E x \in (Given \ Noise) \cup {None} :
        /\ then.made = Append(acc.made, <<x, t.text>>)
        /\ x # None => x = t.prompt /\ x # acc.last
  BY <1>2, <1>3, Zenon
<1> QED
  BY <1>6, <1>7, <1>8, <1>9, Zenon DEF then

LEMMA ScanBegins == ASSUME NEW lines PROVE ScanKnows(lines, 0, Unscanned)
<1>1. Unscanned \in Known /\ Unscanned.made = <<>> /\ Unscanned.last = None
  <2>1. <<>> \in Seq(Pair)
    OBVIOUS
  <2> QED
    BY <2>1 DEF Unscanned, Known
<1>2. ASSUME NEW p \in Given
      PROVE  /\ Cardinality(Pairs(<<>>, p)) = 0 /\ Cardinality(Anew(lines, 0, p)) = 0
             /\ ~ Standing(lines, 0, p)
  <2>1. Pairs(<<>>, p) = {} /\ Anew(lines, 0, p) = {}
    BY DEF Pairs, Anew
  <2>2. ~ Standing(lines, 0, p)
    <3>1. 1 .. 0 = {}
      OBVIOUS
    <3> QED
      BY <3>1 DEF Standing
  <2>3. Cardinality({}) = 0
    BY FS_EmptySet
  <2> QED
    BY <2>1, <2>2, <2>3
<1> QED
  BY <1>1, <1>2 DEF ScanKnows

LEMMA ScanKeeps ==
    ASSUME NEW lines \in Seq(Turn), NEW n \in Nat, n < Len(lines), NEW acc,
           ScanKnows(lines, n, acc)
    PROVE  ScanKnows(lines, n + 1, Scan(acc, lines[n + 1]))
<1> DEFINE t == lines[n + 1]
           then == Scan(acc, t)
<1>1. t \in Turn /\ n + 1 \in Nat /\ n + 1 # 0 /\ n + 1 - 1 = n
  OBVIOUS
<1>2. acc \in Known /\ acc.made \in Seq(Pair) /\ (acc.last \notin Noise \cup {None} => acc.paired)
  BY DEF ScanKnows, Known
<1> HIDE DEF t
<1>3. None \notin Given
  BY DaemonTasksAssumption
<1>4. ASSUME NEW p \in Given
      PROVE  /\ Cardinality(Pairs(acc.made, p)) \in Nat /\ Cardinality(Anew(lines, n, p)) \in Nat
             /\ Cardinality(Pairs(acc.made, p)) <= Cardinality(Anew(lines, n, p))
             /\ Standing(lines, n, p) /\ acc.last # p =>
                  Cardinality(Pairs(acc.made, p)) < Cardinality(Anew(lines, n, p))
             /\ Cardinality(Anew(lines, n + 1, p)) =
                  Cardinality(Anew(lines, n, p))
                    + IF t.prompt = p /\ ~ Standing(lines, n, p) THEN 1 ELSE 0
             /\ Standing(lines, n + 1, p) <=> \/ t.prompt = p
                                              \/ t.prompt = None /\ Standing(lines, n, p)
  <2>1. Cardinality(Pairs(acc.made, p)) \in Nat
    BY <1>2, PairsStep
  <2>2. Standing(lines, n + 1, p) <=> \/ t.prompt = p
                                      \/ t.prompt = None /\ Standing(lines, n, p)
    BY <1>1, <1>3, StandingStep DEF t
  <2>3. /\ Cardinality(Anew(lines, n, p)) \in Nat
        /\ Cardinality(Anew(lines, n + 1, p)) =
             Cardinality(Anew(lines, n, p))
               + IF t.prompt = p /\ ~ Standing(lines, n, p) THEN 1 ELSE 0
    BY AnewStep DEF t
  <2> QED
    BY <2>1, <2>2, <2>3 DEF ScanKnows
<1>5. CASE t.text = NoText
  <2>1. then = acc
    BY <1>5 DEF Scan
  <2>2. ASSUME NEW p \in Given
        PROVE  /\ Cardinality(Pairs(acc.made, p)) <= Cardinality(Anew(lines, n + 1, p))
               /\ Standing(lines, n + 1, p) /\ acc.last # p =>
                    Cardinality(Pairs(acc.made, p)) < Cardinality(Anew(lines, n + 1, p))
    BY <1>3, <1>4
  <2> HIDE DEF then
  <2> QED
    BY <1>2, <2>1, <2>2 DEF ScanKnows, then, t
<1>6. CASE t.text # NoText
  <2>1. then = Ingesting!Paired(acc, t)
    BY <1>6 DEF Scan
  <2>2. /\ then \in Known
        /\ then.last \notin Noise \cup {None} => then.paired
        /\ t.prompt # None => then.last = t.prompt
        /\ t.prompt = None => then.last = acc.last
        /\ \E told \in (Given \ Noise) \cup {None} :
             /\ then.made = Append(acc.made, <<told, t.text>>)
             /\ told # None => told = t.prompt /\ told # acc.last
    <3> HIDE DEF then
    <3> QED
      BY <1>1, <1>2, <1>6, <2>1, PairedIs
  <2>3. PICK told \in (Given \ Noise) \cup {None} :
             /\ then.made = Append(acc.made, <<told, t.text>>)
             /\ told # None => told = t.prompt /\ told # acc.last
    BY <2>2
  <2> HIDE DEF then
  <2>4. ASSUME NEW p \in Given
        PROVE  /\ Cardinality(Pairs(then.made, p)) <= Cardinality(Anew(lines, n + 1, p))
               /\ Standing(lines, n + 1, p) /\ then.last # p =>
                    Cardinality(Pairs(then.made, p)) < Cardinality(Anew(lines, n + 1, p))
    <3>1. Cardinality(Pairs(then.made, p)) =
            Cardinality(Pairs(acc.made, p)) + IF told = p THEN 1 ELSE 0
      <4>1. <<told, t.text>>[1] = told
        OBVIOUS
      <4>2. Cardinality(Pairs(Append(acc.made, <<told, t.text>>), p)) =
              Cardinality(Pairs(acc.made, p)) + IF <<told, t.text>>[1] = p THEN 1 ELSE 0
        BY <1>2, PairsStep
      <4> QED
        BY <2>3, <4>1, <4>2
    <3>2. told = p => t.prompt = p /\ acc.last # p
      BY <1>3, <2>3
    <3>3. t.prompt = p => then.last = p
      BY <1>3, <2>2
    <3>4. Cardinality(Pairs(then.made, p)) <= Cardinality(Anew(lines, n + 1, p))
      BY <1>4, <3>1, <3>2
    <3>5. ASSUME Standing(lines, n + 1, p), then.last # p
          PROVE  Cardinality(Pairs(then.made, p)) < Cardinality(Anew(lines, n + 1, p))
      <4>1. t.prompt # p /\ t.prompt = None /\ Standing(lines, n, p)
        BY <1>4, <3>3, <3>5
      <4>2. acc.last # p /\ told # p
        BY <2>2, <3>2, <3>5, <4>1
      <4> QED
        BY <1>4, <3>1, <4>1, <4>2
    <3> QED
      BY <3>4, <3>5
  <2> QED
    BY <2>2, <2>4 DEF ScanKnows, then, t
<1> QED
  BY <1>5, <1>6

LEMMA ScanIsKnown ==
    ASSUME NEW lines \in Seq(Turn)
    PROVE  \A n \in 0 .. Len(lines) : ScanKnows(lines, n, Ingesting!Scanned(lines)[n])
<1> DEFINE after == Ingesting!Scanned(lines)
           S == {n \in Nat : ScanKnows(lines, n, after[n])}
<1>1. /\ after[0] = Unscanned /\ Len(lines) \in Nat
      /\ \A n \in 1 .. Len(lines) : after[n] = Scan(after[n - 1], lines[n])
  BY ScannedIs
<1> HIDE DEF after
<1>2. 0 \in S
  BY <1>1, ScanBegins
<1>3. ASSUME NEW m \in Nat, m < Len(lines), m \in S PROVE m + 1 \in S
  <2>1. m + 1 \in 1 .. Len(lines) /\ m + 1 - 1 = m /\ m + 1 \in Nat
    BY <1>1, <1>3
  <2>2. after[m + 1] = Scan(after[m], lines[m + 1])
    BY <1>1, <2>1
  <2>3. ScanKnows(lines, m + 1, after[m + 1])
    BY <1>3, <2>2, ScanKeeps
  <2> QED
    BY <2>1, <2>3
<1>4. \A m \in 0 .. Len(lines) : m \in S
  <2> HIDE DEF S
  <2> QED
    BY <1>1, <1>2, <1>3, Rising
<1> QED
  BY <1>4 DEF after

-----------------------------------------------------------------------------
(* What was read and what was written *)

MadeOf(lines) ==
    LET made == Ingesting!Scanned(lines)[Len(lines)].made IN {made[i] : i \in DOMAIN made}

LEMMA MadeGrows ==
    ASSUME NEW lines \in Seq(Turn), NEW t \in Turn
    PROVE  MadeOf(lines) \subseteq MadeOf(Append(lines, t))
<1> DEFINE more == Append(lines, t)
           n == Len(lines)
           acc == Ingesting!Scanned(lines)[n]
           then == Ingesting!Scanned(more)[n + 1]
<1>1. /\ n \in Nat /\ more \in Seq(Turn) /\ Len(more) = n + 1 /\ more[n + 1] = t
      /\ n \in 0 .. n /\ n + 1 \in 1 .. n + 1 /\ n + 1 - 1 = n
  OBVIOUS
<1> HIDE DEF more
<1>2. Ingesting!Scanned(more)[n] = acc
  BY <1>1, ScannedGrows DEF more
<1>3. then = Scan(acc, t)
  <2>1. \A k \in 1 .. Len(more) :
          Ingesting!Scanned(more)[k] = Scan(Ingesting!Scanned(more)[k - 1], more[k])
    BY <1>1, ScannedIs
  <2> HIDE DEF n
  <2> QED
    BY <1>1, <1>2, <2>1
<1>4. ScanKnows(lines, n, acc)
  BY <1>1, ScanIsKnown
<1> HIDE DEF acc, then, n
<1>5. acc.made \in Seq(Pair) /\ acc \in Known /\ (acc.last \notin Noise \cup {None} => acc.paired)
  BY <1>4 DEF ScanKnows, Known
<1>6. then.made = acc.made \/ \E x : then.made = Append(acc.made, x)
  <2>1. CASE t.text = NoText
    BY <1>3, <2>1 DEF Scan
  <2>2. CASE t.text # NoText
    <3>1. then = Ingesting!Paired(acc, t)
      BY <1>3, <2>2 DEF Scan
    <3>2. \E told \in (Given \ Noise) \cup {None} : then.made = Append(acc.made, <<told, t.text>>)
      BY <1>5, <2>2, <3>1, PairedIs
    <3> QED
      BY <3>2
  <2> QED
    BY <2>1, <2>2
<1>7. \A i \in DOMAIN acc.made : i \in DOMAIN then.made /\ then.made[i] = acc.made[i]
  <2>1. \A x : \A i \in DOMAIN acc.made :
          i \in DOMAIN Append(acc.made, x) /\ Append(acc.made, x)[i] = acc.made[i]
    BY <1>5
  <2> QED
    BY <1>6, <2>1
<1>8. MadeOf(lines) = {acc.made[i] : i \in DOMAIN acc.made}
  BY DEF MadeOf, acc, n
<1>9. MadeOf(more) = {then.made[i] : i \in DOMAIN then.made}
  BY <1>1 DEF MadeOf, then
<1> QED
  BY <1>7, <1>8, <1>9 DEF more

\* What can have been read: a pair of the rollout as it is now, or what has no prompt.
Fitting(c) ==
    IF source = "zcode" THEN c \in MadeOf(rollout) ELSE c[1] \in {"entry", "note", "page"}

IngestInv ==
    /\ source \in {"zcode", "conversations", "notes", "pages"}
    /\ rollout \in Seq(Turn) /\ partial \in BOOLEAN /\ (partial => rollout # <<>>)
    /\ transcript \in Nat /\ note \in Nat
    /\ reading = [r \in Reader |-> reading[r]]
    /\ \A r \in Reader :
         /\ \E S : reading[r] \in Seq(S)
         /\ \A i \in DOMAIN reading[r] : Fitting(reading[r][i].content)
    /\ \A c \in DOMAIN memories : Fitting(c)

LEMMA IngestBegins == ASSUME Ingesting!IngestInit PROVE IngestInv
<1>1. /\ source \in {"zcode", "conversations", "notes", "pages"}
      /\ rollout = <<>> /\ partial = FALSE /\ transcript = 0 /\ note = 0
      /\ reading = [r \in Reader |-> <<>>] /\ memories = [c \in {} |-> None]
  BY DEF Ingesting!IngestInit
<1>2. /\ DOMAIN <<>> = {} /\ DOMAIN [c \in {} |-> None] = {}
      /\ <<>> \in Seq({}) /\ <<>> \in Seq(Turn)
  OBVIOUS
<1>3. \A r \in Reader : reading[r] = <<>>
  BY <1>1
<1> QED
  BY <1>1, <1>2, <1>3 DEF IngestInv

\* As a rollout only grows, what fits goes on fitting.
LEMMA SourceGrows ==
    ASSUME IngestInv, source' = source,
           rollout' = rollout \/ \E t \in Turn : rollout' = Append(rollout, t),
           partial' \in BOOLEAN, partial' => rollout' # <<>>, transcript' \in Nat, note' \in Nat,
           UNCHANGED <<reading, memories>>
    PROVE  IngestInv'
<1>1. rollout' \in Seq(Turn) /\ MadeOf(rollout) \subseteq MadeOf(rollout')
  <2>1. CASE rollout' = rollout
    BY <2>1 DEF IngestInv
  <2>2. CASE \E t \in Turn : rollout' = Append(rollout, t)
    <3>1. PICK t \in Turn : rollout' = Append(rollout, t)
      BY <2>2
    <3>2. rollout \in Seq(Turn)
      BY DEF IngestInv
    <3>3. MadeOf(rollout) \subseteq MadeOf(Append(rollout, t)) /\ Append(rollout, t) \in Seq(Turn)
      BY <3>2, MadeGrows
    <3> QED
      BY <3>1, <3>3
  <2> QED
    BY <2>1, <2>2
<1>2. \A c : Fitting(c) => Fitting(c)'
  BY <1>1 DEF Fitting
<1> QED
  BY <1>1, <1>2 DEF IngestInv

LEMMA LastLine ==
    ASSUME NEW S, NEW lines \in Seq(S), NEW front \in Seq(S), Len(lines) = Len(front) + 1,
           \A i \in 1 .. Len(front) : front[i] = lines[i]
    PROVE  lines = Append(front, lines[Len(lines)])
<1>1. lines[Len(lines)] \in S
  OBVIOUS
<1> DEFINE more == Append(front, lines[Len(lines)])
<1>2. more \in Seq(S) /\ Len(more) = Len(lines) /\ \A i \in 1 .. Len(lines) : more[i] = lines[i]
  BY <1>1
<1> HIDE DEF more
<1>3. more = lines
  BY <1>2
<1> QED
  BY <1>3 DEF more

\* What a run reads fits.
LEMMA IngestedFits ==
    ASSUME IngestInv
    PROVE  /\ \E S : Ingesting!Ingested \in Seq(S)
           /\ \A i \in DOMAIN Ingesting!Ingested : Fitting(Ingesting!Ingested[i].content)
<1> DEFINE read == Ingesting!Ingested
<1>0. \A n \in Nat : \A f : (f = [i \in 1 .. n |-> f[i]]) => \E S : f \in Seq(S)
  <2> SUFFICES ASSUME NEW n \in Nat, NEW f, f = [i \in 1 .. n |-> f[i]]
               PROVE  f \in Seq({f[i] : i \in 1 .. n})
    OBVIOUS
  <2>1. \A i \in 1 .. n : f[i] \in {f[j] : j \in 1 .. n}
    OBVIOUS
  <2> QED
    BY <2>1
<1>1. CASE source = "zcode"
  <2> DEFINE made == Ingesting!fromRollout
  <2>1. rollout \in Seq(Turn) /\ Len(rollout) \in Nat /\ Ingesting!Complete \in 0 .. Len(rollout)
    BY DEF IngestInv, Ingesting!Complete
  <2>2. made = Ingesting!Scanned(rollout)[Ingesting!Complete].made
    BY DEF Ingesting!fromRollout
  <2>3. made \in Seq(Pair)
    BY <2>1, <2>2, ScanIsKnown DEF ScanKnows, Known
  <2>4. \A i \in DOMAIN made : made[i] \in MadeOf(rollout)
    <3>1. CASE ~ partial
      <4>1. Ingesting!Complete = Len(rollout)
        BY <3>1 DEF Ingesting!Complete
      <4> HIDE DEF made
      <4> QED
        BY <2>2, <4>1 DEF MadeOf
    <3>2. CASE partial
      <4> DEFINE n == Len(rollout) - 1
                 lines == SubSeq(rollout, 1, n)
                 t == rollout[Len(rollout)]
      <4>1. /\ n \in Nat /\ lines \in Seq(Turn) /\ t \in Turn /\ Len(lines) = n
            /\ rollout = Append(lines, t) /\ Ingesting!Complete = n /\ n \in 0 .. Len(lines)
        <5>1. n \in Nat /\ n + 1 = Len(rollout) /\ rollout # <<>>
          BY <2>1, <3>2 DEF IngestInv
        <5>2. lines = [i \in 1 .. n |-> rollout[i]] /\ Len(lines) = n /\ lines \in Seq(Turn)
          BY <2>1, <5>1
        <5>3. t \in Turn
          BY <2>1, <5>1
        <5>4. rollout = Append(lines, t)
          <6> HIDE DEF lines, n
          <6> QED
            BY <2>1, <5>1, <5>2, LastLine DEF t
        <5>5. Ingesting!Complete = n
          BY <3>2 DEF Ingesting!Complete
        <5> QED
          BY <5>1, <5>2, <5>3, <5>4, <5>5
      <4> HIDE DEF n, lines, t
      <4>2. Ingesting!Scanned(rollout)[n] = Ingesting!Scanned(lines)[n]
        BY <4>1, ScannedGrows
      <4>3. MadeOf(lines) \subseteq MadeOf(rollout)
        BY <4>1, MadeGrows
      <4> HIDE DEF made
      <4>4. made = Ingesting!Scanned(lines)[Len(lines)].made
        BY <2>2, <4>1, <4>2
      <4> QED
        BY <4>3, <4>4 DEF MadeOf
    <3> QED
      BY <3>1, <3>2
  <2> HIDE DEF made
  <2>5. read = [i \in DOMAIN made |-> [content |-> made[i], prompt |-> None]]
    BY <1>1 DEF Ingesting!Ingested, Ingesting!Memory, made
  <2>6. Len(made) \in Nat /\ DOMAIN made = 1 .. Len(made)
    BY <2>3
  <2> HIDE DEF read
  <2>7. /\ read = [i \in 1 .. Len(made) |-> read[i]]
        /\ \A i \in DOMAIN read : i \in DOMAIN made /\ read[i].content = made[i]
    BY <2>5, <2>6
  <2>8. \A i \in DOMAIN read : Fitting(read[i].content)
    BY <1>1, <2>4, <2>7 DEF Fitting
  <2>9. \E S : read \in Seq(S)
    BY <1>0, <2>6, <2>7
  <2> QED
    BY <2>8, <2>9 DEF read
<1>2. CASE source = "conversations"
  <2>1. read = [e \in 1 .. transcript |->
                  [content |-> <<"entry", e>>, prompt |-> Ingesting!resolvePromptID(e)]]
    BY <1>2 DEF Ingesting!Ingested, Ingesting!Memory, Ingesting!fromTranscript
  <2> HIDE DEF read
  <2>2. /\ transcript \in Nat /\ read = [e \in 1 .. transcript |-> read[e]]
        /\ \A i \in DOMAIN read : read[i].content = <<"entry", i>>
    BY <2>1 DEF IngestInv
  <2>3. \A i \in DOMAIN read : Fitting(read[i].content)
    BY <1>2, <2>2 DEF Fitting
  <2>4. \E S : read \in Seq(S)
    BY <1>0, <2>2
  <2> QED
    BY <2>3, <2>4 DEF read
<1>3. CASE source = "notes"
  <2> DEFINE whole == {n \in 1 .. note : note = 1 \/ Section[n] \notin Bare}
             k == Cardinality(whole)
  <2>1. k \in Nat
    <3>1. note \in Nat /\ IsFiniteSet(1 .. note)
      BY FS_Interval DEF IngestInv
    <3>2. whole \in SUBSET (1 .. note)
      OBVIOUS
    <3> HIDE DEF whole
    <3> QED
      BY <3>1, <3>2, FS_Subset, FS_CardinalityType
  <2>2. DOMAIN Ingesting!fromNote = 1 .. k
    BY Zenon DEF Ingesting!fromNote, Ingesting!Cardinality, Ingesting!IsFiniteSet, Cardinality, IsFiniteSet
  <2> HIDE DEF k
  <2>3. read = [i \in 1 .. k |->
                  [content |-> <<"note", Ingesting!fromNote[i]>>, prompt |-> None]]
    BY <1>3, <2>2 DEF Ingesting!Ingested, Ingesting!Memory
  <2> HIDE DEF read
  <2>4. /\ read = [i \in 1 .. k |-> read[i]]
        /\ \A i \in DOMAIN read : read[i].content = <<"note", Ingesting!fromNote[i]>>
    BY <2>3
  <2>5. \A i \in DOMAIN read : Fitting(read[i].content)
    BY <1>3, <2>4 DEF Fitting
  <2>6. \E S : read \in Seq(S)
    BY <1>0, <2>1, <2>4
  <2> QED
    BY <2>5, <2>6 DEF read
<1>4. CASE source = "pages"
  <2> DEFINE k == IF note = 0 THEN 0 ELSE 1
  <2>1. DOMAIN Ingesting!fromPage = 1 .. k /\ k \in Nat
    <3>1. DOMAIN <<>> = 1 .. 0 /\ DOMAIN <<note>> = 1 .. 1
      OBVIOUS
    <3> QED
      BY <3>1 DEF Ingesting!fromPage
  <2> HIDE DEF k
  <2>2. read = [i \in 1 .. k |->
                  [content |-> <<"page", Ingesting!fromPage[i]>>, prompt |-> None]]
    BY <1>4, <2>1 DEF Ingesting!Ingested, Ingesting!Memory
  <2> HIDE DEF read
  <2>3. /\ read = [i \in 1 .. k |-> read[i]]
        /\ \A i \in DOMAIN read : read[i].content = <<"page", Ingesting!fromPage[i]>>
    BY <2>2
  <2>4. \A i \in DOMAIN read : Fitting(read[i].content)
    BY <1>4, <2>3 DEF Fitting
  <2>5. \E S : read \in Seq(S)
    BY <1>0, <2>1, <2>3
  <2> QED
    BY <2>4, <2>5 DEF read
<1> QED
  BY <1>1, <1>2, <1>3, <1>4 DEF IngestInv

LEMMA GrowKeeps ==
    ASSUME IngestInv,
           \/ \E p \in Given \cup {None}, t \in Answer \cup {NoText} : Ingesting!BeginTurn(p, t)
           \/ Ingesting!EndTurn \/ Ingesting!WriteEntry \/ Ingesting!WriteSection
    PROVE  IngestInv'
<1>0. /\ rollout \in Seq(Turn) /\ transcript \in Nat /\ note \in Nat /\ partial \in BOOLEAN
      /\ (partial => rollout # <<>>)
  BY DEF IngestInv
<1>1. ASSUME NEW p \in Given \cup {None}, NEW t \in Answer \cup {NoText}, Ingesting!BeginTurn(p, t)
      PROVE  IngestInv'
  <2> DEFINE turn == [prompt |-> p, text |-> t]
  <2>1. turn \in Turn
    BY DEF Turn
  <2>2. rollout' = Append(rollout, turn) /\ partial' = TRUE /\ source' = source
        /\ UNCHANGED <<transcript, note, reading, memories>>
    BY <1>1 DEF Ingesting!BeginTurn, Ingesting!Grow
  <2> HIDE DEF turn
  <2>3. rollout' # <<>>
    BY <1>0, <2>1, <2>2
  <2> QED
    BY <1>0, <2>1, <2>2, <2>3, SourceGrows
<1>2. CASE Ingesting!EndTurn
  BY <1>0, <1>2, SourceGrows DEF Ingesting!EndTurn, Ingesting!Grow
<1>3. CASE Ingesting!WriteEntry
  BY <1>0, <1>3, SourceGrows DEF Ingesting!WriteEntry, Ingesting!Grow
<1>4. CASE Ingesting!WriteSection
  BY <1>0, <1>4, SourceGrows DEF Ingesting!WriteSection, Ingesting!Grow
<1> QED
  BY <1>1, <1>2, <1>3, <1>4

LEMMA RunsKeep ==
    ASSUME IngestInv, NEW r \in Reader, Ingesting!Read(r) \/ Ingesting!Write(r) \/ Ingesting!Kill(r)
    PROVE  IngestInv'
<1>0. /\ UNCHANGED <<source, rollout, partial, transcript, note>>
      /\ \A c : Fitting(c)' <=> Fitting(c)
  BY DEF Ingesting!Read, Ingesting!Write, Ingesting!Kill, Ingesting!Sources, Fitting
<1>1. /\ reading = [q \in Reader |-> reading[q]] /\ \E S : reading[r] \in Seq(S)
      /\ \A i \in DOMAIN reading[r] : Fitting(reading[r][i].content)
      /\ \A c \in DOMAIN memories : Fitting(c)
  BY DEF IngestInv
<1>2. ASSUME NEW list, \E S : list \in Seq(S), \A i \in DOMAIN list : Fitting(list[i].content),
             reading' = [reading EXCEPT ![r] = list], \A c \in DOMAIN memories' : Fitting(c)
      PROVE  IngestInv'
  <2>1. /\ reading' = [q \in Reader |-> reading'[q]] /\ reading'[r] = list
        /\ \A q \in Reader : q # r => reading'[q] = reading[q]
    BY <1>1, <1>2
  <2>2. \A q \in Reader :
          /\ \E S : reading'[q] \in Seq(S)
          /\ \A i \in DOMAIN reading'[q] : Fitting(reading'[q][i].content)
    BY <1>2, <2>1 DEF IngestInv
  <2> QED
    BY <1>0, <1>2, <2>1, <2>2 DEF IngestInv
<1>3. CASE Ingesting!Read(r)
  <2>1. reading' = [reading EXCEPT ![r] = Ingesting!Ingested] /\ memories' = memories
    BY <1>3 DEF Ingesting!Read
  <2> QED
    BY <1>1, <1>2, <2>1, IngestedFits
<1>4. CASE Ingesting!Write(r)
  <2>1. /\ reading[r] # <<>> /\ reading' = [reading EXCEPT ![r] = Tail(reading[r])]
        /\ memories' = Ingesting!Stored(Head(reading[r])) \/ memories' = memories
    BY <1>1, <1>4 DEF Ingesting!Write
  <2>2. PICK S : reading[r] \in Seq(S)
    BY <1>1
  <2>3. /\ Tail(reading[r]) \in Seq(S) /\ 1 \in DOMAIN reading[r] /\ Head(reading[r]) = reading[r][1]
        /\ \A i \in DOMAIN Tail(reading[r]) :
             i + 1 \in DOMAIN reading[r] /\ Tail(reading[r])[i] = reading[r][i + 1]
    BY <2>1, <2>2
  <2>4. \A i \in DOMAIN Tail(reading[r]) : Fitting(Tail(reading[r])[i].content)
    BY <1>1, <2>3
  <2>5. \A c \in DOMAIN memories' : c \in DOMAIN memories \/ c = Head(reading[r]).content
    BY <2>1 DEF Ingesting!Stored
  <2>6. Fitting(Head(reading[r]).content)
    BY <1>1, <2>3
  <2>7. \A c \in DOMAIN memories' : Fitting(c)
    BY <1>1, <2>5, <2>6
  <2> QED
    BY <1>2, <2>1, <2>3, <2>4, <2>7
<1>5. CASE Ingesting!Kill(r)
  <2>1. reading' = [reading EXCEPT ![r] = <<>>] /\ memories' = memories
    BY <1>5 DEF Ingesting!Kill
  <2>2. (\E S : <<>> \in Seq(S)) /\ \A i \in DOMAIN <<>> : Fitting(<<>>[i].content)
    <3>1. DOMAIN <<>> = {} /\ <<>> \in Seq({})
      OBVIOUS
    <3> QED
      BY <3>1
  <2> QED
    BY <1>1, <1>2, <2>1, <2>2
<1> QED
  BY <1>3, <1>4, <1>5

LEMMA IngestKeeps == ASSUME IngestInv, Ingesting!IngestNext PROVE IngestInv'
<1>1. ASSUME NEW c \in DOMAIN memories, Ingesting!Delete(c) PROVE IngestInv'
  <2>1. /\ UNCHANGED <<source, rollout, partial, transcript, note, reading>>
        /\ DOMAIN memories' \subseteq DOMAIN memories
    BY <1>1 DEF Ingesting!Delete, Ingesting!Sources
  <2>2. \A d : Fitting(d)' <=> Fitting(d)
    BY <2>1 DEF Fitting
  <2> QED
    BY <2>1, <2>2 DEF IngestInv
<1> QED
  BY <1>1, GrowKeeps, RunsKeep DEF Ingesting!IngestNext

LEMMA IngestRests == ASSUME IngestInv, UNCHANGED ingestVars PROVE IngestInv'
<1>1. \A c : Fitting(c)' <=> Fitting(c)
  BY DEF Fitting, ingestVars
<1> QED
  BY <1>1 DEF IngestInv, ingestVars

LEMMA IngestShows == ASSUME IngestInv PROVE PromptsOnce
<1>1. SUFFICES ASSUME NEW p \in Given
               PROVE  /\ Cardinality(Ingesting!PairedWith(p)) <= Cardinality(Ingesting!CameAnew(p))
                      /\ p \in Noise => Ingesting!PairedWith(p) = {}
  <2>1. \A S : Ingesting!Cardinality(S) = Cardinality(S)
    BY Zenon DEF Cardinality, IsFiniteSet, Ingesting!Cardinality, Ingesting!IsFiniteSet
  <2> QED
    BY <2>1 DEF PromptsOnce, Ingesting!PromptsOnce
<1> DEFINE n == Len(rollout)
           acc == Ingesting!Scanned(rollout)[n]
<1>2. rollout \in Seq(Turn) /\ n \in Nat /\ DOMAIN rollout = 1 .. n
  BY DEF IngestInv
<1>3. ScanKnows(rollout, n, acc)
  BY <1>2, ScanIsKnown
<1>4. /\ acc.made \in Seq(Pair)
      /\ Cardinality(Pairs(acc.made, p)) <= Cardinality(Anew(rollout, n, p))
  BY <1>3 DEF ScanKnows, Known
<1>5. MadeOf(rollout) = {acc.made[i] : i \in DOMAIN acc.made}
  BY DEF MadeOf
<1> HIDE DEF acc, n
<1>6. Anew(rollout, n, p) = Ingesting!CameAnew(p)
  BY <1>2 DEF Anew, Standing, Ingesting!CameAnew
<1>7. CASE source = "zcode"
  <2>1. Ingesting!PairedWith(p) \subseteq {acc.made[i] : i \in Pairs(acc.made, p)}
    BY <1>5, <1>7 DEF IngestInv, Fitting, Ingesting!PairedWith, Pairs
  <2>2. /\ IsFiniteSet(Pairs(acc.made, p)) /\ Cardinality(Pairs(acc.made, p)) \in Nat
    BY <1>4, PairsStep
  <2>3. p \in Noise => Pairs(acc.made, p) = {}
    <3>1. p # None
      BY DaemonTasksAssumption
    <3> QED
      BY <1>4, <3>1 DEF Pairs, Pair
  <2> DEFINE f == [i \in Pairs(acc.made, p) |-> acc.made[i]]
             image == {f[i] : i \in Pairs(acc.made, p)}
  <2>4. f \in [Pairs(acc.made, p) -> image] /\ image = {acc.made[i] : i \in Pairs(acc.made, p)}
    OBVIOUS
  <2>5. IsFiniteSet(image) /\ Cardinality(image) <= Cardinality(Pairs(acc.made, p))
        /\ Cardinality(image) \in Nat
    <3>1. \A y \in image : \E i \in Pairs(acc.made, p) : f[i] = y
      OBVIOUS
    <3>2. f \in Surjection(Pairs(acc.made, p), image)
      <4> HIDE DEF f, image
      <4> QED
        BY <2>4, <3>1 DEF Surjection
    <3> HIDE DEF f, image
    <3> QED
      BY <2>2, <3>2, FS_Surjection, FS_CardinalityType
  <2> HIDE DEF f, image
  <2>6. Ingesting!PairedWith(p) \in SUBSET image
    BY <2>1, <2>4
  <2>7. /\ Cardinality(Ingesting!PairedWith(p)) <= Cardinality(image)
        /\ Cardinality(Ingesting!PairedWith(p)) \in Nat
    BY <2>5, <2>6, FS_Subset, FS_CardinalityType
  <2>8. Cardinality(Anew(rollout, n, p)) \in Nat
    BY <1>2, AnewStep
  <2>9. Cardinality(Ingesting!PairedWith(p)) <= Cardinality(Ingesting!CameAnew(p))
    BY <1>4, <1>6, <2>2, <2>5, <2>7, <2>8
  <2>10. p \in Noise => Ingesting!PairedWith(p) = {}
    BY <2>1, <2>3
  <2> QED
    BY <2>9, <2>10
<1>8. CASE source # "zcode"
  <2>1. Ingesting!PairedWith(p) = {}
    <3>1. p \notin {"entry", "note", "page"}
      BY DaemonTasksAssumption
    <3> QED
      BY <1>8, <3>1, Zenon DEF IngestInv, Fitting, Ingesting!PairedWith
  <2>2. Cardinality({}) = 0
    BY FS_EmptySet
  <2>3. Cardinality(Ingesting!CameAnew(p)) \in Nat
    BY <1>2, <1>6, AnewStep
  <2> QED
    BY <2>1, <2>2, <2>3
<1> QED
  BY <1>7, <1>8

\* However often a growing rollout was read, whoever reads it, and whatever is killed, fails or
\* is deleted: there are no more memories with a prompt than times it came anew, and none with
\* noise.
THEOREM PromptsArePairedOnce == Spec => []PromptsOnce
<1>1. Init => IngestInv
  BY IngestBegins DEF Init
<1>2. ASSUME IngestInv, [Next]_vars PROVE IngestInv'
  <2>1. CASE OfIngest /\ Ingesting!IngestNext
    BY <1>2, <2>1, IngestKeeps
  <2>2. CASE UNCHANGED ingestVars
    BY <1>2, <2>2, IngestRests
  <2> QED
    BY <1>2, <2>1, <2>2 DEF Next, vars, OfReminders, OfEntities
<1>3. IngestInv => PromptsOnce
  BY IngestShows
<1> QED
  BY <1>1, <1>2, <1>3, PTL DEF Spec
=============================================================================
