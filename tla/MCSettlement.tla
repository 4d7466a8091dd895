---------------------------- MODULE MCSettlement ----------------------------
(* Model-checking instances of Settlement: charges, keys and tokens are        *)
(* interchangeable.  On Lightning a few calls share several charges; on Cashu  *)
(* more calls, with tokens, share one charge.                                  *)
EXTENDS Settlement, TLC

CONSTANTS
  LightningSettlers,  \* bound: the calls in flight on Lightning
  CashuCharges        \* bound: the charges issued on Cashu

WithinRail ==
  \/ rail = "Lightning" /\ \A s \in Settlers \ LightningSettlers : pc[s] = "idle"
  \/ rail = "Cashu" /\ Cardinality({c \in Charges : issued_charges[c] # NoRow}) <= CashuCharges

Symmetry == Permutations(Charges) \cup Permutations(Keys) \cup Permutations(Tokens)
=============================================================================
