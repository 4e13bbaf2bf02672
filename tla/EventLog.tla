------------------------------ MODULE EventLog ------------------------------
(***************************************************************************)
(* What the store promises about its event log (the comments on the table  *)
(* raw_entries in src/internal/store/sqlite_schema.go and on RawEvent in   *)
(* rebuild.go), without saying how: one event per distinct content, placed *)
(* once and for all in one total order; no event is removed or moved; and  *)
(* a later occurrence of the same content can only fill in provenance that *)
(* was still empty.  MemoryStore and Rebuild implement this specification. *)
(***************************************************************************)
EXTENDS Naturals

CONSTANTS Content,    \* contents, each standing for its SHA-256 content_hash
          Project,    \* project names: the provenance column that is modelled
          NoProject   \* the empty project column

VARIABLES
    place,    \* content -> its place in the order of events, 0 when it has none
    origin,   \* content -> the project its event carries
    size      \* the number of events

logVars == <<place, origin, size>>

LogInit ==
    /\ place = [c \in Content |-> 0]
    /\ origin = [c \in Content |-> NoProject]
    /\ size = 0

\* A content seen for the first time becomes the last event of the order.
Append(c, p) ==
    /\ place[c] = 0
    /\ place' = [place EXCEPT ![c] = size + 1]
    /\ size' = size + 1
    /\ origin' = [origin EXCEPT ![c] = p]

\* Provenance accumulates: an empty project is filled in, a project stays.
Enrich(c, p) ==
    /\ place[c] # 0
    /\ origin[c] = NoProject
    /\ origin' = [origin EXCEPT ![c] = p]
    /\ UNCHANGED <<place, size>>

LogNext == \E c \in Content, p \in Project \cup {NoProject} : Append(c, p) \/ Enrich(c, p)

LogSpec == LogInit /\ [][LogNext]_logVars
=============================================================================
