---------------------------- MODULE MCFleetLease ----------------------------
(* An agent, moving, that h hosts and every node could take over, and another, *)
(* steady, that s hosts for good: its heartbeats show that the link delivers.  *)
EXTENDS FleetLease, TLC

CONSTANTS
  h, s, moving, steady,
  FreeUntil, \* bound: the last second on a free network
  FreeEvents \* bound: the events of an agent on a free network

MCHome == moving :> h @@ steady :> s

MCKeystores == [n \in Nodes |-> IF n = s THEN {moving, steady} ELSE {moving}]

WithinFree ==
  network = "free" =>
    now <= FreeUntil /\ \A x \in Agents : Cardinality(relayed[x]) <= FreeEvents[x]

MCFreeEvents == moving :> 3 @@ steady :> 2
=============================================================================
