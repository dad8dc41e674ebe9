---------------------------- MODULE MCWebOrders -----------------------------
(* Three scenes of one order for TLC: three versions whose webhooks come in *)
(* any order and are reconciled, with the review ("intake"); the same with  *)
(* failures until the cron gives a row up, nobody reviewing ("recovery");   *)
(* or an order that is paid at once and its second version, with the        *)
(* shipment page, the carrier and the old pages ("house").                  *)
EXTENDS WebOrders

VARIABLE scene

CarrierEvents == {[sent |-> 1, status |-> "shipped"], [sent |-> 2, status |-> "delivered"]}
Alone == caller = [c \in Callers |-> NoCall] /\ audits = {}
InScene ==
    \/ scene = "intake" /\ Alone /\ fails <= 1 /\ webOrder.payment # "refunded"
    \/ scene = "recovery" /\ Alone /\ page = 0
    \/ scene = "house" /\ Len(source) <= 2 /\ fails = 0 /\ fetched = 0
MCInit ==
    /\ WebInit /\ scene \in {"intake", "recovery", "house"}
    /\ source[1].payment = IF scene = "house" THEN "paid" ELSE "unpaid"
MCNext == UNCHANGED scene /\ WebNext /\ InScene'
MCSpec ==
    /\ MCInit /\ [][MCNext]_<<webVars, scene>>
    /\ \A v \in Versions : WF_<<webVars, scene>>(TakeUp(v) /\ UNCHANGED scene)
=============================================================================
