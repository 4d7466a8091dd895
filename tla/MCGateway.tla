----------------------------- MODULE MCGateway -----------------------------
(* Model-checking instances of Gateway.  A gateway serves one workload; a run  *)
(* takes any it is offered, each with its requests, the number of them that     *)
(* may be in flight, and its bounds.                                           *)
EXTENDS Gateway, TLC

CONSTANTS p1, p2, b1, q1, w1, w2, f1, f2, h1, h2,
  Offered  \* the workloads a run takes

Ask(act, key, cost) ==
  [act |-> act, key |-> key, request_hash |-> NoHash, allowed |-> TRUE, valid |-> TRUE,
   estimate |-> cost, ceiling |-> cost, budget_sats |-> cost, wseq |-> 0]

(* A write of content h under mem-write-n.                                     *)
Write(key, n, h) == [Ask("memory", key, 1) EXCEPT !.request_hash = h, !.wseq = n]

Quote(key, h) == [Ask("charge", key, 0) EXCEPT !.request_hash = h]

(* Two notes, one of them also asked for with too low a ceiling, too low a     *)
(* budget, a malformed payload, or to a relay that is not on the list.         *)
PublishRequests ==
  {Ask("publish", p1, 1), Ask("publish", p2, 2),
   [Ask("publish", p1, 1) EXCEPT !.ceiling = 0],
   [Ask("publish", p2, 2) EXCEPT !.budget_sats = 1],
   [Ask("publish", p1, 1) EXCEPT !.valid = FALSE],
   [Ask("publish", p2, 2) EXCEPT !.allowed = FALSE]}

(* A completion whose ceiling is below the estimate and a quote whose amount   *)
(* changes when it is asked for again.                                         *)
BrainRequests ==
  {[Ask("generic", b1, 2) EXCEPT !.ceiling = 1],
   [Ask("generic", b1, 2) EXCEPT !.budget_sats = 1],
   Quote(q1, h1), Quote(q1, h2)}

(* Two writes and a completion.                                                *)
MemoryRequests == {Write(w1, 1, h1), Write(w2, 2, h1), Ask("generic", b1, 1)}

(* Two fetches over a balance that pays for one.                               *)
FetchRequests == {Ask("fetch", f1, 2), Ask("fetch", f2, 2)}

(* The workloads of the claims the code does not keep.                         *)
FetchAndPublish == {Ask("fetch", f1, 2), Ask("publish", p1, 2)}

ReusedWrites == {Write(w1, 1, h1), Write(w1, 1, h2)}

OneCompletion == {Ask("generic", b1, 1)}

Requotes == {Quote(q1, h1), Quote(q1, h2)}

Workloads ==
  [publish |-> [requests |-> PublishRequests, flights |-> 2, arrivals |-> 3,
                cancels |-> 1, boots |-> 1, rent |-> 3],
   brain   |-> [requests |-> BrainRequests, flights |-> 2, arrivals |-> 3,
                cancels |-> 1, boots |-> 1, rent |-> 3],
   memory  |-> [requests |-> MemoryRequests, flights |-> 1, arrivals |-> 5,
                cancels |-> 1, boots |-> 2, rent |-> 0],
   fetch   |-> [requests |-> FetchRequests, flights |-> 2, arrivals |-> 4,
                cancels |-> 1, boots |-> 1, rent |-> 0],
   fetchAndPublish |-> [requests |-> FetchAndPublish, flights |-> 2, arrivals |-> 2,
                        cancels |-> 0, boots |-> 0, rent |-> 0],
   reusedWrites    |-> [requests |-> ReusedWrites, flights |-> 1, arrivals |-> 2,
                        cancels |-> 1, boots |-> 0, rent |-> 0],
   oneCompletion   |-> [requests |-> OneCompletion, flights |-> 1, arrivals |-> 1,
                        cancels |-> 0, boots |-> 0, rent |-> 0],
   requotes        |-> [requests |-> Requotes, flights |-> 1, arrivals |-> 2,
                        cancels |-> 0, boots |-> 0, rent |-> 0]]

AllRequests == UNION {Workloads[w].requests : w \in Offered}

VARIABLE workload

mcVars == <<vars, workload>>

WithinWorkload ==
  LET w == Workloads[workload] IN
  /\ \A c \in Clients : pc[c] # "idle" => req[c] \in w.requests
  /\ Cardinality({c \in Clients : pc[c] # "idle"}) <= w.flights
  /\ arrivals <= w.arrivals /\ cancels <= w.cancels /\ boots <= w.boots
  /\ burned <= w.rent

MCInit == Init /\ workload \in Offered

MCNext == Next /\ UNCHANGED workload /\ WithinWorkload'

MCSpec == MCInit /\ [][MCNext]_mcVars

Symmetry == Permutations(Clients) \cup Permutations(Charges)

(* Resume-replay safety: for a genome that waits for one answer before it asks *)
(* again, nothing is performed under a key that is on the ledger, whatever was *)
(* dropped, resent, or replayed from a checkpoint after restarts (step 1 of    *)
(* authorize_capability).                                                      *)
ReplayPerformsNothing == [][Workloads[workload].flights = 1 => ReplayStep]_mcVars

(* egress_debit_gate does what it was added for: where only fetches debit, no  *)
(* fetch is performed and then refused for want of sats (authorize_actuate).   *)
FetchNeverUnpaid == workload = "fetch" => PerformedIsPaid
=============================================================================
