------------------------------ MODULE MCCosign ------------------------------
(* Three holders of which two sign, as the code fixes it.  Either the holders  *)
(* and the relay answer, and the coordinator is asked, restarted and sent      *)
(* frames again; or they fail it, in its first request.  The third subset of a *)
(* request is tried in the first life only, of which FailureExplained speaks.  *)
EXTENDS Cosign, TLC

ThreeHolders == 1..3
Swaps == Permutations(Messages)

OneKindOfFault ==
  \/ crashes + misses + overdue = 0
  \/ asked <= 1 /\ lives = 1 /\ dups = 0

TwoSubsetsLater == lives > 1 => \A c \in Callers : Cardinality(ceremony[c].tried) <= 2
=============================================================================
