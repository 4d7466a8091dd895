---------------------------- MODULE MCGenomeLoop ----------------------------
(* Small instances of GenomeLoop for TLC.                                      *)
EXTENDS GenomeLoop, TLC

Customers == Permutations(Requests)
=============================================================================
