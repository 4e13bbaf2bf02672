--------------------------- MODULE MCDerivedViews ---------------------------
EXTENDS DerivedViews, TLC

CONSTANTS s1, s2, s3

\* Three sessions, with two memories in the middle one; s1, the oldest, may be the one
\* without an answer.
MCThree == 1 :> s1 @@ 2 :> s2 @@ 3 :> s2 @@ 4 :> s3

\* Proposals arrive in x, feedback in y, which may begin with the name of x; a verdict on one
\* of them may be given, changed or moved to the other domain.
New(verdict, line) == [verdict |-> verdict, line |-> line]
MCArriving ==
    [d \in Domain |-> IF d = "y" THEN {New("accept", "words"), New("accept", "x")}
                      ELSE {New("pending", "words")}]
=============================================================================
