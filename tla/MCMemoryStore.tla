--------------------------- MODULE MCMemoryStore ---------------------------
(***************************************************************************)
(* Instances of MemoryStore for TLC.  Contents a and b are two wordings of *)
(* one fact (at least three shared terms), x is an unrelated one, e is     *)
(* refused by the command gate, and a_ is a with a newline after it.       *)
(***************************************************************************)
EXTENDS MemoryStore, TLC

CONSTANTS a, a_, b, x, e, pj, t1, t2, t3, t4

MCContent == {a, a_, b, x, e}
MCTrim == [c \in MCContent |-> IF c = a_ THEN a ELSE c]
MCTerms ==
    [c \in MCContent |-> IF c \in {a, a_} THEN {t1, t2, t3}
                         ELSE IF c = b THEN {t1, t2, t3, t4}
                         ELSE IF c = x THEN {t3, t4} ELSE {}]
MCAutoCategory == [c \in MCContent |-> IF c \in {a, a_, b} THEN "knowledge" ELSE Inbox]
MCCategory == {"knowledge", "decisions"}

Ask(c, ph, cat, pr, st, fn) ==
    [content |-> c, hashed |-> FALSE, phase |-> ph, category |-> cat, project |-> pr,
     status |-> st, dated |-> None, fine |-> fn]

\* A fact as the consolidation task writes it (any project, exact time), a capture of
\* the same words with a category nobody knows, the words once more with the white space
\* they were hashed with and the time they were said, an unrelated fact, and a write the
\* gate refuses.
MCRequest ==
    {Ask(a, "organized", "knowledge", NoProject, None, TRUE),
     [Ask(a_, "organized", "knowledge", pj, None, TRUE) EXCEPT !.hashed = TRUE, !.dated = 1],
     Ask(x, "organized", "knowledge", pj, None, TRUE),
     Ask(a, "inbox", Unknown, pj, None, TRUE),
     Ask(e, "inbox", Inbox, NoProject, None, TRUE)}

\* Two versions written by the fact processor (whole seconds), one of them again under
\* another category, next to an unrelated proposal with a status.
MCRequestSequential ==
    {Ask(a, "processed", "knowledge", pj, None, FALSE),
     Ask(b, "processed", "knowledge", pj, None, FALSE),
     Ask(a, "organized", "decisions", pj, None, TRUE),
     Ask(x, "processed", "knowledge", pj, "pending", TRUE)}

Permute == Permutations(Id) \cup Permutations(Proc)
=============================================================================
