---------------------------- MODULE AgentAccount ----------------------------
(* What the treasury promises the agent it keeps alive: an account that is     *)
(* spent from, never below zero and once for an act, that receives once for a  *)
(* payment, and whose rent and adjustments are all it loses or gains besides.  *)
(* What an act has cost and a payment has brought stays on the account.        *)
EXTENDS Integers

CONSTANTS
  Acts, Payments,
  Budget,  \* what the agent starts with
  None     \* not spent yet, not received yet

VARIABLES
  funds,
  cost,     \* Acts -> what the act has cost, or None
  income,   \* Payments -> what the payment has brought, or None
  rent,     \* all rent paid so far
  adjusted  \* the net change by comparing with the outside

vars == <<funds, cost, income, rent, adjusted>>

Init ==
  /\ funds = Budget
  /\ cost = [a \in Acts |-> None]
  /\ income = [p \in Payments |-> None]
  /\ rent = 0 /\ adjusted = 0

Spend(a) ==
  /\ cost[a] = None
  /\ funds' \in 0..funds
  /\ cost' = [cost EXCEPT ![a] = funds - funds']
  /\ UNCHANGED <<income, rent, adjusted>>

\* A payment that the account cannot hold is closed with nothing received.
Receive(p) ==
  /\ income[p] = None
  /\ funds' \in Nat /\ funds' >= funds
  /\ income' = [income EXCEPT ![p] = funds' - funds]
  /\ UNCHANGED <<cost, rent, adjusted>>

PayRent ==
  /\ funds' \in 0..funds
  /\ rent' = rent + (funds - funds')
  /\ UNCHANGED <<cost, income, adjusted>>

Adjust ==
  /\ funds' \in Nat
  /\ adjusted' = adjusted + (funds' - funds)
  /\ UNCHANGED <<cost, income, rent>>

Next ==
  \/ \E a \in Acts : Spend(a)
  \/ \E p \in Payments : Receive(p)
  \/ PayRent \/ Adjust

Spec == Init /\ [][Next]_vars
=============================================================================
