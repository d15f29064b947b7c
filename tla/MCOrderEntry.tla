---------------------------- MODULE MCOrderEntry ----------------------------
(* OrderEntry with a handful of calls and ids, for TLC. *)
EXTENDS OrderEntry, FiniteSets

\* The calls that have arrived and the orders the server has created.
Arrived == {r \in Call : pc[r] # "idle"}
Created == {o \in OrderId : book[o] # "none"}

\* The bounds: an order call among three orders of anybody and one event on its way,
\* an order and a close call with one order, or an order and a cancel call with one
\* order and a peer that stalls.  They hold back only calls, server and peers, none
\* of which is fair.
Within ==
  \/ held = {} /\ positions = {} /\ Arrived \subseteq PlaceCall /\ Len(events) <= 1
  \/ held = {} /\ Arrived \cap CancelCall = {} /\ Cardinality(Created) <= 1
  \/ /\ Cardinality(held) <= 1 /\ Cardinality(Created) <= 1
     /\ (Arrived \cap CloseCall = {} /\ positions = {}) \/ Arrived \subseteq CloseCall
  \/ loop = "exited"

\* Ids are as good as each other: the server takes the lowest.
Ascending == \A o \in Created : 1..o \subseteq Created

MCInit == Init /\ Within /\ Ascending

MCNext == Next /\ Within' /\ Ascending'

MCSpec == MCInit /\ [][MCNext]_vars /\ Fairness
=============================================================================
