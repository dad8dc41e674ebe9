--------------------------- MODULE MCRefillOrders ---------------------------
(* RefillOrders on small instances, as a bound on the states: every handler *)
(* against every other over one order (Race); three orders of two bookings  *)
(* and of a key of the client after two jars, before anybody pays (Queue);  *)
(* two orders after one jar, one of them with a checkout (Checkout).        *)
EXTENDS RefillOrders, TLC

CONSTANTS o1, o2, o3, j1, j2, a1, a2, k1

Symmetry == Permutations({o2, o3}) \cup Permutations(Payments) \cup Permutations(Requests)

\* The rows in use, those that requests in flight are about to make included.
Existing == {o \in Orders : ~Absent(o)}
Made == Cardinality(Existing) + Cardinality(Creating)
Opened == {p \in Payments : payments[p].status # "absent"}
Busy == {r \in Requests : req[r] # Idle}

NotFrom(keys) ==
    /\ \A r \in Requests : req[r].key \notin keys
    /\ \A o \in Orders : orders[o].key \notin keys

Race ==
    /\ Existing \subseteq {o1} /\ Made <= 1 /\ redeemed \subseteq {j1}
    /\ NotFrom({k1, a2})
Queue == Opening = {} /\ Opened = {}
Checkout ==
    /\ Existing \subseteq {o2, o3} /\ Made <= 2 /\ redeemed \subseteq {j1}
    /\ Cardinality(Opened) + Cardinality(Opening) <= 1
    /\ Cardinality(Busy) <= 2 /\ NotFrom({k1})
InScene == Race \/ Queue \/ Checkout
=============================================================================
