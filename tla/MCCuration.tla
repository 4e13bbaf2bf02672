-------------------------- MODULE MCCuration --------------------------------
EXTENDS Curation
CONSTANTS p, none, a, b, c

\* Two facts to merge, and an organized memory to merge the result with.
MCArrival ==
    << [text |-> {a}, phase |-> "processed", project |-> p, marks |-> {}],
       [text |-> {c}, phase |-> "organized", project |-> p, marks |-> {}],
       [text |-> {b}, phase |-> "processed", project |-> p, marks |-> {}] >>

\* The merged text begins like one of its sources.
MCFingerprint == [t \in SUBSET {a, b, c} |-> IF t = {a, b, c} THEN {c} ELSE t]
=============================================================================
