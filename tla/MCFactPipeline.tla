--------------------------- MODULE MCFactPipeline ---------------------------
(***************************************************************************)
(* Instances of FactPipeline for TLC.                                      *)
(***************************************************************************)
EXTENDS FactPipeline, TLC

CONSTANTS s1, s2

\* One session that is larger than the budget of a run, and one that is not.
MCSessions == 1 :> s1 @@ 2 :> s1 @@ 3 :> s1 @@ 4 :> s2
=============================================================================
