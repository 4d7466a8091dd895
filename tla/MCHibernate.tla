---------------------------- MODULE MCHibernate ----------------------------
(* Small instances of Hibernate for TLC.                                      *)
EXTENDS Hibernate, TLC

Symmetry == Permutations(Wakers)
=============================================================================
