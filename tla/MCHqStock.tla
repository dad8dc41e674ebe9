------------------------------ MODULE MCHqStock ------------------------------
(* Two scenes for TLC: an order that arrives in up to three deliveries; and *)
(* two clerks who count while goods come and go.                            *)
EXTENDS HqStock, TLC

CONSTANTS f1, f2, f3, k1, k2
VARIABLE scene

TwoLines == 1..2
OrderedOf == <<3, 2>>
RawOf == <<5, 8>>
Symmetry == Permutations({f2, f3}) \cup Permutations({k1, k2})

InScene ==
    \/ scene = "deliveries" /\ clerk = [c \in Clerks |-> Idle] /\ sold = 0
       /\ \A k \in Forms : form[k] # None => form[k].ofOrder
    \/ scene = "counts" /\ form[f2] = None /\ form[f3] = None
       /\ order = "pending_receipt"
       /\ \A l \in Lines : version[l] <= 2
       /\ form[f1] \in {None, [quantity |-> <<1, 1>>, ofOrder |-> FALSE]}
MCInit == Init /\ scene \in {"deliveries", "counts"}
MCNext == UNCHANGED scene /\ Next /\ InScene'
MCSpec == MCInit /\ [][MCNext]_<<vars, scene>>
=============================================================================
