----------------------------- MODULE DaemonLock -----------------------------
(***************************************************************************)
(* The start and stop of `memory serve` (src/internal/cmd/serve.go): the   *)
(* lock file .daemon.lock, created with O_EXCL, that holds the PID of its  *)
(* owner, is taken over when that PID is not alive, and removed when the   *)
(* daemon stops.                                                           *)
(*                                                                         *)
(* A file system call is one step.  A path and the file behind it are two  *)
(* things: Remove takes away whatever the path names at that moment, and   *)
(* WriteString goes to the file its process created, even when the path    *)
(* has come to name another one.                                           *)
(***************************************************************************)
EXTENDS Naturals, FiniteSets

CONSTANTS
    Proc,        \* runs of `memory serve`; each stands for its own PID
    None,        \* no file, or no PID in it
    Serial,      \* whether a start waits until the one before has come to an end
    MaxFaults    \* bound: kills and failed writes

\* What the path names: a file, by the process that created it, and the PID in it.
File == [maker : Proc, pid : Proc \cup {None}]

ASSUME LockAssumption ==
    /\ None \notin Proc /\ None \notin File
    /\ Serial \in BOOLEAN
    /\ MaxFaults \in Nat

Starting == {"open", "read", "probe", "remove", "reopen", "created"}
Where == Starting \cup {"off", "running", "leaving", "refused", "dead"}

VARIABLES
    lock,     \* the file at .daemon.lock, None when there is none
    step,     \* where a process is in RunE
    seen,     \* the PID a process has read from a file in its way
    faults    \* kills and failed writes so far

vars == <<lock, step, seen, faults>>

Init ==
    /\ lock = None
    /\ step = [p \in Proc |-> "off"]
    /\ seen = [p \in Proc |-> None]
    /\ faults = 0

\* Signal 0 reaches a process from its start to its end.
Alive(p) == step[p] \notin {"off", "refused", "dead"}

StartingUp == {p \in Proc : step[p] \in Starting}

Goto(p, s) == step' = [step EXCEPT ![p] = s]

-----------------------------------------------------------------------------
Start(p) ==
    /\ step[p] = "off"
    /\ Serial => StartingUp = {}
    /\ Goto(p, "open")
    /\ UNCHANGED <<lock, seen, faults>>

Create(p) == lock' = [maker |-> p, pid |-> None]

\* OpenFile with O_CREATE|O_EXCL.
Open(p) ==
    /\ step[p] = "open"
    /\ \/ lock = None /\ Create(p) /\ Goto(p, "created")
       \/ lock # None /\ UNCHANGED lock /\ Goto(p, "read")
    /\ UNCHANGED <<seen, faults>>

\* The path names a file with a PID in it.
HasPid == lock # None /\ lock.pid # None

\* A file that is gone by now, or that has no PID yet, ends the start.
ReadPid(p) ==
    /\ step[p] = "read"
    /\ \/ /\ HasPid
          /\ seen' = [seen EXCEPT ![p] = lock.pid]
          /\ Goto(p, "probe")
       \/ /\ ~ HasPid
          /\ Goto(p, "refused")
          /\ UNCHANGED seen
    /\ UNCHANGED <<lock, faults>>

\* Mutant: the PID is not looked up, the lock is always taken for a stale one.
ProbeNothing(p) ==
    /\ step[p] = "probe"
    /\ Goto(p, "remove")
    /\ UNCHANGED <<lock, seen, faults>>

\* Mutant: the test of the signal's result is the wrong way round.
ProbeInverted(p) ==
    /\ step[p] = "probe"
    /\ Goto(p, IF Alive(seen[p]) THEN "remove" ELSE "refused")
    /\ UNCHANGED <<lock, seen, faults>>

Probe(p) ==
    /\ step[p] = "probe"
    /\ Goto(p, IF Alive(seen[p]) THEN "refused" ELSE "remove")
    /\ UNCHANGED <<lock, seen, faults>>

\* Remove goes by the path: the file may be another one than the one that was read.
RemoveStale(p) ==
    /\ step[p] = "remove"
    /\ lock' = None
    /\ Goto(p, "reopen")
    /\ UNCHANGED <<seen, faults>>

Reopen(p) ==
    /\ step[p] = "reopen"
    /\ \/ lock = None /\ Create(p) /\ Goto(p, "created")
       \/ lock # None /\ UNCHANGED lock /\ Goto(p, "refused")
    /\ UNCHANGED <<seen, faults>>

\* WriteString goes to the process's own file; from here on the daemon runs.
WritePid(p) ==
    /\ step[p] = "created"
    /\ lock' = IF lock # None /\ lock.maker = p THEN [lock EXCEPT !.pid = p] ELSE lock
    /\ Goto(p, "running")
    /\ UNCHANGED <<seen, faults>>

\* SIGINT or SIGTERM: the deferred function removes the path, whatever it names, and
\* the process ends a moment later, its task goroutine with it.
Stop(p) ==
    /\ step[p] = "running"
    /\ lock' = None
    /\ Goto(p, "leaving")
    /\ UNCHANGED <<seen, faults>>

Exit(p) ==
    /\ step[p] = "leaving"
    /\ Goto(p, "dead")
    /\ UNCHANGED <<lock, seen, faults>>

\* A kill leaves the file; a failed write of the PID goes unnoticed.
Fault(p) ==
    /\ faults < MaxFaults
    /\ faults' = faults + 1
    /\ \/ Alive(p) /\ Goto(p, "dead")
       \/ step[p] = "created" /\ Goto(p, "running")
    /\ UNCHANGED <<lock, seen>>

\* The steps a start takes by itself.
Proceed(p) ==
    Open(p) \/ ReadPid(p) \/ Probe(p) \/ RemoveStale(p) \/ Reopen(p) \/ WritePid(p)

Next == \E p \in Proc : Start(p) \/ Proceed(p) \/ Stop(p) \/ Exit(p) \/ Fault(p)

Spec == Init /\ [][Next]_vars

\* A process that has been started is scheduled.
FairSpec == Spec /\ \A p \in Proc : WF_vars(Proceed(p))

-----------------------------------------------------------------------------
TypeOK ==
    /\ lock \in File \cup {None}
    /\ step \in [Proc -> Where]
    /\ seen \in [Proc -> Proc \cup {None}]
    /\ \A p \in Proc : step[p] \in {"probe", "remove"} => seen[p] # None
    /\ faults \in Nat

\* "Advisory lock (.daemon.lock with PID) for daemon - only one instance" (SPEC.md:298):
\* no two daemons run their tasks at the same time.
OneDaemon ==
    \A p, q \in Proc : step[p] = "running" /\ step[q] = "running" => p = q

\* The path names the file of the daemon that runs, so that a later start meets it.
RunningIsLocked ==
    \A p \in Proc : step[p] = "running" => lock # None /\ lock.maker = p

\* "Check if the PID is still running; if not, remove stale lock" (serve.go:54): the
\* lock of a daemon that was killed does not keep the next start from running.
StaleLockIsTakenOver ==
    \A p \in Proc :
      (step[p] = "open" /\ HasPid /\ ~ Alive(lock.pid))
        ~> step[p] \in {"running", "dead"}
=============================================================================
