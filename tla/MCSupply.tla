------------------------------ MODULE MCSupply -------------------------------
(* Four scenes: two clerks of HQ who work on one order of any kind; a shop    *)
(* with a request, whose orders one clerk ships while the second stays in the *)
(* queue; a subscription with one box, two clerks and two runs of the cron;   *)
(* and one with two boxes, a clerk and a cron.                                *)
EXTENDS RestockRequests, Subscriptions

CONSTANTS o1, o2, k1, k2
VARIABLE scene

MCInit ==
    Init /\ SubscriptionInit /\ scene \in {"clerks", "requests", "box", "boxes"}
SupplyScene ==
    \/ /\ scene = "clerks" /\ order[o2] = NoOrder
       /\ request = [r \in Requests |-> NoRequest]
    \/ /\ scene = "requests" /\ clerk[k2] = Idle
       /\ \A o \in Orders : order[o].kind \in {None, "restock"}
       /\ order[o2].status \in {"none", "confirmed"} /\ ~order[o2].refunded
       /\ shipment[o2].status \in {"none", "pending", "cancelled"}
       /\ clerk[k1] # Idle => clerk[k1].order = o1 /\ clerk[k1].op # "status"
SubscriptionScene ==
    \/ scene = "box" /\ schedule[1] = "none"
    \/ scene = "boxes" /\ planner[k2] = AtRest /\ cron[k2] = {}
MCNext ==
    /\ UNCHANGED scene
    /\ \/ SupplyNext /\ SupplyScene' /\ UNCHANGED subscriptionVars
       \/ SubscriptionNext /\ SubscriptionScene' /\ UNCHANGED supplyVars
MCSpec == MCInit /\ [][MCNext]_<<supplyVars, subscriptionVars, scene>> /\ SubscriptionFairness
=============================================================================
