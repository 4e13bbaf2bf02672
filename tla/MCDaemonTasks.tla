--------------------------- MODULE MCDaemonTasks ---------------------------
EXTENDS DaemonTasks
CONSTANTS p, hi, a, b, heading, s, go, sql

\* A full id matches one reminder, a short prefix may match them all.
MCPrefix == {{i} : i \in Id} \cup {Id}

\* A damaged transcript: its two entries name each other as the parent.
MCParent == <<2, 1>>
MCPromptId == <<None, p>>
MCSection == <<heading, s>>

\* The first two rows are silent, and fill a run of the daemon.
MCNamed == [r \in Row |-> IF r = 3 THEN {go, sql} ELSE {go}]
MCPerTick == [r \in {"daemon", "build"} |-> IF r = "daemon" THEN 2 ELSE 3]
MCclassify == [x \in Entity |-> IF x = go THEN "concept" ELSE "technology"]
=============================================================================
