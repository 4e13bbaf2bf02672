---------------------------- MODULE DerivedViews ----------------------------
(***************************************************************************)
(* What the daemon derives from memories with the language model, and has  *)
(* to bring up to date however often it fails: the digests of sessions     *)
(* (SessionDigest), and the profile and the evidence that follow from      *)
(* verdicts (Verdicts).  The two share no table, so a behaviour here is    *)
(* one of one of them.                                                     *)
(***************************************************************************)
EXTENDS SessionDigest, Sequences

CONSTANTS
    Verdict, Domain, Arriving, Text, MaxSignals, MaxClock, MaxChanges

VARIABLES
    part,
    signals, evidence, profiles, task, clock, changes, errors

verdictVars == <<signals, evidence, profiles, task, clock, changes, errors>>
vars == <<part, digestVars, verdictVars>>

Learned == INSTANCE Verdicts

\* Proposals wait for their verdict, feedback brings it.
ASSUME ArrivingAssumption ==
    \A d \in Domain : Arriving[d] \subseteq [verdict : {"pending"} \cup Verdict, line : STRING]

Init ==
    /\ part \in {"sessions", "verdicts"}
    /\ DigestInit /\ Learned!Init

OfSessions == part = "sessions" /\ UNCHANGED <<part, verdictVars>>
OfVerdicts == part = "verdicts" /\ UNCHANGED <<part, tables, run>>

Next ==
    \/ OfSessions /\ DigestNext
    \/ OfVerdicts /\ Learned!Next

Spec == Init /\ [][Next]_vars

\* The daemon goes on: its ticker fires again and again, and a call of the model comes to an
\* end.  A digest that is asked for often enough is answered, except for a poisoned session.
FairSpec ==
    /\ Spec
    /\ WF_vars(OfVerdicts /\ Learned!Step)
    /\ \A p \in Proc : WF_vars(OfSessions /\ (Proceed(p) \/ Fail(p)))
    /\ \A s \in Session \ Poison : SF_vars(OfSessions /\ \E p \in Proc : Digest(p, s))

-----------------------------------------------------------------------------
(* The properties that SessionDigest does not state are those of Verdicts *)

\* One profile and one row of evidence for a domain speak at a time (Verdicts).
OneVoice == Learned!OneVoice
=============================================================================
