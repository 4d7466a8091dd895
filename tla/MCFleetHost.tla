----------------------------- MODULE MCFleetHost -----------------------------
(* One static tenant and one that is asked for, on a host with two slots.      *)
EXTENDS FleetHost

CONSTANTS g1, g2

TwoAgents == {g1, g2}
OneStatic == <<g1>>
OneRequested == {g2}

(* A static tenant that is also a healthy orphan is re-adopted: the supervisor *)
(* that re-adopted it does not kill it.                                        *)
BounceInvisible ==
  [][\A p \in procs \ procs' :
       p.life < life /\ tenants[p.agent] = p.pid
         => phase' = "down" \/ UNCHANGED <<disk, memory>>]_vars

(* A tenant whose process id was not recorded is never hosted a second time    *)
(* beside its orphan.                                                          *)
NeverDoubleHosted == \A p, q \in procs : p # q => p.agent # q.agent
=============================================================================
