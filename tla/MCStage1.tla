------------------------------ MODULE MCStage1 ------------------------------
(* Small instances of Stage1: the data action of each build and the         *)
(* symmetry of builds and credentials that share one.                      *)
EXTENDS Stage1Retry, TLC

CONSTANTS Preserving   \* the builds compiled with DATA_ACTION_PRESERVE

Actions == [b \in Builds |->
    IF b \in Preserving THEN "preserve" ELSE "initialize"]

TupleSymmetry == Permutations(Builds) \cup Permutations(Creds)
=============================================================================
