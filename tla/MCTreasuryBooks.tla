--------------------------- MODULE MCTreasuryBooks ---------------------------
(* Model-checking instance of TreasuryBooks: the keys are interchangeable, and *)
(* so are the charges.                                                         *)
EXTENDS TreasuryBooks, TLC

Symmetry == Permutations(Keys) \cup Permutations(Charges)
=============================================================================
