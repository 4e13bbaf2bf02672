-------------------------- MODULE DaemonLockProofs --------------------------
(***************************************************************************)
(* Mutual exclusion of daemons that are started one after the other, for   *)
(* any number of them, of kills and of failed writes.                      *)
(***************************************************************************)
EXTENDS DaemonLock, TLAPS

\* One start at a time.
OneStart == \A p, q \in StartingUp : p = q

\* Who owns the path, at each place of a start.  Between ReadPid and RemoveStale the
\* file at the path can only be the one that was read, or gone: nobody else starts.
PathInv ==
    /\ lock # None => lock.pid \in {None, lock.maker}
    /\ \A p \in Proc :
         /\ step[p] \in {"created", "running"} => lock # None /\ lock.maker = p
         /\ step[p] \in {"probe", "remove"} => lock = None \/ lock.maker = seen[p]
         /\ step[p] = "remove" => ~ Alive(seen[p])
         /\ step[p] = "reopen" => lock = None

LockInv == TypeOK /\ OneStart /\ PathInv

\* Every step moves one process, and leaves the others where they are.
LEMMA OneMoves ==
    ASSUME TypeOK, Next
    PROVE  \E p \in Proc, s \in Where :
             /\ step' = [step EXCEPT ![p] = s]
             /\ s \in Starting => step[p] \in Starting \/ s = "open"
             /\ s = "open" /\ Serial => StartingUp = {}
<1>1. PICK p \in Proc : Start(p) \/ Proceed(p) \/ Stop(p) \/ Exit(p) \/ Fault(p)
  BY DEF Next
<1> USE DEF Goto, Where, Starting
<1>2. CASE Start(p)
  BY <1>2 DEF Start
<1>3. CASE Proceed(p)
  <2>1. CASE Open(p)
    BY <2>1 DEF Open
  <2>2. CASE ReadPid(p)
    BY <2>2 DEF ReadPid
  <2>3. CASE Probe(p)
    BY <2>3 DEF Probe
  <2>4. CASE RemoveStale(p) \/ Reopen(p) \/ WritePid(p)
    BY <2>4 DEF RemoveStale, Reopen, WritePid
  <2> QED
    BY <1>3, <2>1, <2>2, <2>3, <2>4 DEF Proceed
<1>4. CASE Stop(p) \/ Exit(p) \/ Fault(p)
  BY <1>4 DEF Stop, Exit, Fault
<1> QED
  BY <1>1, <1>2, <1>3, <1>4

LEMMA OneStartStep ==
    ASSUME TypeOK, OneStart, Serial, Next
    PROVE  OneStart'
<1>1. PICK p \in Proc, s \in Where :
        /\ step' = [step EXCEPT ![p] = s]
        /\ s \in Starting => step[p] \in Starting \/ s = "open"
        /\ s = "open" /\ Serial => StartingUp = {}
  BY OneMoves
<1>2. \A q \in Proc : step'[q] = IF q = p THEN s ELSE step[q]
  BY <1>1 DEF TypeOK
<1> QED
  BY <1>1, <1>2 DEF OneStart, StartingUp

LEMMA TypeStep ==
    ASSUME TypeOK, Next
    PROVE  TypeOK'
<1> USE DEF TypeOK, Goto, Where, Starting, File
<1>1. PICK p \in Proc : Start(p) \/ Proceed(p) \/ Stop(p) \/ Exit(p) \/ Fault(p)
  BY DEF Next
<1>2. CASE Start(p)
  BY <1>2 DEF Start
<1>3. CASE Open(p)
  BY <1>3 DEF Open, Create
<1>4. CASE ReadPid(p)
  BY <1>4 DEF ReadPid, HasPid
<1>5. CASE Probe(p)
  BY <1>5 DEF Probe
<1>6. CASE RemoveStale(p)
  BY <1>6 DEF RemoveStale
<1>7. CASE Reopen(p)
  BY <1>7 DEF Reopen, Create
<1>8. CASE WritePid(p)
  BY <1>8 DEF WritePid
<1>9. CASE Stop(p) \/ Exit(p) \/ Fault(p)
  BY <1>9 DEF Stop, Exit, Fault
<1> QED
  BY <1>1, <1>2, <1>3, <1>4, <1>5, <1>6, <1>7, <1>8, <1>9 DEF Proceed

\* A file that was just created is its maker's, and has no PID.
LEMMA NewFile ==
    ASSUME NEW p \in Proc, Create(p)
    PROVE  lock' # None /\ lock'.maker = p /\ lock'.pid = None
  BY LockAssumption DEF Create, File

\* The path keeps its owner.
LEMMA PathStep ==
    ASSUME LockInv, Serial, Next
    PROVE  PathInv'
<1> USE DEF LockInv, TypeOK, Goto, PathInv
<1>1. PICK p \in Proc : Start(p) \/ Proceed(p) \/ Stop(p) \/ Exit(p) \/ Fault(p)
  BY DEF Next
<1>0. \A q \in Proc \ {p} : step[p] \in Starting => step[q] \notin Starting
  BY DEF OneStart, StartingUp
<1>2. CASE Start(p)
  BY <1>2 DEF Start, Alive, StartingUp, Starting
<1>3. CASE Open(p)
  <2>1. CASE lock # None
    BY <1>0, <1>3, <2>1 DEF Open, Alive, Starting
  <2>2. CASE lock = None
    BY <1>0, <1>3, <2>2, NewFile DEF Open, Alive, Starting
  <2> QED
    BY <2>1, <2>2
<1>4. CASE ReadPid(p)
  BY <1>0, <1>4 DEF ReadPid, HasPid, Alive, Starting
<1>5. CASE Probe(p)
  BY <1>0, <1>5 DEF Probe, Alive, Starting
<1>6. CASE RemoveStale(p)
  BY <1>0, <1>6 DEF RemoveStale, Alive, Starting
<1>7. CASE Reopen(p)
  <2>1. CASE lock # None
    BY <1>0, <1>7, <2>1 DEF Reopen, Alive, Starting
  <2>2. CASE lock = None
    BY <1>0, <1>7, <2>2, NewFile DEF Reopen, Alive, Starting
  <2> QED
    BY <2>1, <2>2
<1>8. CASE WritePid(p)
  <2>1. lock # None /\ lock.maker = p /\ lock \in File
    BY <1>8 DEF WritePid
  <2>2. lock' = [lock EXCEPT !.pid = p] /\ lock' \in File
    BY <1>8, <2>1 DEF WritePid, File
  <2>3. lock'.maker = p /\ lock'.pid = p /\ lock' # None
    BY <2>1, <2>2, LockAssumption DEF File
  <2> QED
    BY <1>0, <1>8, <2>1, <2>3 DEF WritePid, Alive, Starting
<1>9. CASE Stop(p)
  BY <1>9 DEF Stop, Alive
<1>10. CASE Exit(p) \/ Fault(p)
  BY <1>10 DEF Exit, Fault, Alive
<1> QED
  BY <1>1, <1>2, <1>3, <1>4, <1>5, <1>6, <1>7, <1>8, <1>9, <1>10 DEF Proceed

LEMMA LockInit == Init => LockInv
  BY LockAssumption
  DEF Init, LockInv, TypeOK, OneStart, PathInv, StartingUp, Starting, Where, Alive

LEMMA LockStep == Serial /\ LockInv /\ [Next]_vars => LockInv'
<1>1. ASSUME Serial, LockInv, Next
      PROVE  LockInv'
  BY <1>1, TypeStep, OneStartStep, PathStep DEF LockInv
<1>2. ASSUME LockInv, UNCHANGED vars
      PROVE  LockInv'
  BY <1>2 DEF LockInv, vars, TypeOK, OneStart, PathInv, StartingUp, Alive
<1> QED
  BY <1>1, <1>2

\* Daemons that are started one after the other exclude each other, whatever the
\* moments at which they are stopped, killed, or fail to write their PID.
THEOREM SerialStartsExclude ==
    ASSUME Serial
    PROVE  Spec => []OneDaemon
<1>1. LockInv => OneDaemon
  BY DEF LockInv, PathInv, OneDaemon
<1>2. LockInv /\ [Next]_vars => LockInv'
  BY LockStep
<1> QED
  BY <1>1, <1>2, LockInit, PTL DEF Spec

\* ... and each of them is to be found under the path as long as it runs.
THEOREM SerialStartsLocked ==
    ASSUME Serial
    PROVE  Spec => []RunningIsLocked
<1>1. LockInv => RunningIsLocked
  BY DEF LockInv, PathInv, RunningIsLocked
<1>2. LockInv /\ [Next]_vars => LockInv'
  BY LockStep
<1> QED
  BY <1>1, <1>2, LockInit, PTL DEF Spec
=============================================================================
