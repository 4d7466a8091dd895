---------------------------- MODULE SigningOracle ----------------------------
(* What a quorum key promises its callers: a signature is of a message some    *)
(* caller asked for and that a threshold of the holders endorsed, each by its  *)
(* own decision.  A request may also be given up; nothing is signed by halves. *)
EXTENDS Naturals, FiniteSets

CONSTANTS Holders, Threshold, Callers, Messages, NoMessage

VARIABLES
  asked,     \* the message each caller waits for
  endorsed,  \* who endorsed what
  emitted    \* the messages with a signature under the group key

vars == <<asked, endorsed, emitted>>

Init ==
  /\ asked = [c \in Callers |-> NoMessage]
  /\ endorsed = {} /\ emitted = {}

Ask(c, m) ==
  /\ asked[c] = NoMessage
  /\ asked' = [asked EXCEPT ![c] = m]
  /\ UNCHANGED <<endorsed, emitted>>

\* A holder may endorse a request whose caller has meanwhile given up.
Endorse(h, m) ==
  /\ endorsed' = endorsed \cup {<<h, m>>}
  /\ UNCHANGED <<asked, emitted>>

Endorsers(m) == {h \in Holders : <<h, m>> \in endorsed}

Sign(c) ==
  /\ asked[c] # NoMessage
  /\ Cardinality(Endorsers(asked[c])) >= Threshold
  /\ emitted' = emitted \cup {asked[c]}
  /\ asked' = [asked EXCEPT ![c] = NoMessage]
  /\ UNCHANGED endorsed

GiveUp(C) ==
  /\ asked' = [c \in Callers |-> IF c \in C THEN NoMessage ELSE asked[c]]
  /\ UNCHANGED <<endorsed, emitted>>

Next ==
  \/ \E c \in Callers, m \in Messages : Ask(c, m)
  \/ \E h \in Holders, m \in Messages : Endorse(h, m)
  \/ \E c \in Callers : Sign(c)
  \/ \E C \in SUBSET Callers : GiveUp(C)

Spec == Init /\ [][Next]_vars
=============================================================================
