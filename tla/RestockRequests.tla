-------------------------- MODULE RestockRequests ---------------------------
(***************************************************************************)
(* The restock requests of a shop and the orders HQ makes of them.  HQ     *)
(* edits and rejects what it read before the transaction; the conversion   *)
(* claims the request first and makes order and shipment in the same       *)
(* transaction.                                                            *)
(***************************************************************************)
EXTENDS Fulfillment

VARIABLES
    request,   \* RestockRequest rows
    desk       \* HQ requests that edit or reject

supplyVars == <<fulfillmentVars, request, desk>>

NoRequest == [status |-> "none", qty |-> 0, order |-> None]

Init ==
    /\ FulfillmentInit
    /\ request = [r \in Requests |-> NoRequest]
    /\ desk = [r \in Requests |-> Idle]

Put(r, row) == request' = [request EXCEPT ![r] = row]

\* submitSelfSelectRestockRequest
Submit(r, q) ==
    /\ request[r].status = "none"
    /\ Put(r, [NoRequest EXCEPT !.status = "submitted", !.qty = q])
    /\ UNCHANGED <<fulfillmentVars, desk>>

\* updateRestockRequestAsHq, rejectRestockRequest: the checks ...
Opened(r) == request[r].status \in {"submitted", "under_review"} /\ request[r].order = None
DeskRead(r, what) ==
    /\ desk[r] = Idle /\ Opened(r)
    /\ desk' = [desk EXCEPT ![r] = what]
    /\ UNCHANGED <<fulfillmentVars, request>>
\* ... and the writes by id: neither knows of an order made in between.
DeskWrite(r) ==
    /\ desk[r] # Idle
    /\ \/ desk[r].op = "edit" /\ Put(r, [request[r] EXCEPT !.status = "under_review",
                                                          !.qty = desk[r].qty])
       \/ desk[r].op = "reject" /\ Put(r, [request[r] EXCEPT !.status = "rejected"])
       \/ UNCHANGED request       \* the request of the clerk ended early
    /\ desk' = [desk EXCEPT ![r] = Idle]
    /\ UNCHANGED fulfillmentVars

\* approveAndConvertRestockRequest: the claim asks for a request without an
\* order in a status that can be approved; a repeat finds the order.
ClaimableByStatus(r) == \* mutant: only the status is asked for
    request[r].status \in {"submitted", "under_review"}
Claimable(r) ==
    request[r].order = None /\ request[r].status \in {"submitted", "under_review"}
Convert(r, o) ==
    /\ Claimable(r) /\ request[r].qty > 0
    /\ NewOrder(o, "restock", request[r].qty, r)
    /\ Put(r, [request[r] EXCEPT !.status = "converted", !.order = o])
    /\ UNCHANGED <<clerk, desk>>

RequestNext ==
    \E r \in Requests :
        \/ \E q \in Qtys : Submit(r, q) \/ DeskRead(r, [op |-> "edit", qty |-> q])
        \/ DeskRead(r, [op |-> "reject"]) \/ DeskWrite(r)
        \/ \E o \in Orders : Convert(r, o)
SupplyNext ==
    RequestNext \/ (FulfillmentNext /\ UNCHANGED <<request, desk>>)
Spec == Init /\ [][SupplyNext]_supplyVars

-----------------------------------------------------------------------------
\* A request becomes one order: approving twice, an edit or a rejection that
\* overtakes the approval and brings the request back to life make no second
\* shipment of the same goods.
ConvertedOnce ==
    \A r \in Requests : \A o \in Orders :
        order[o].request = r => request[r].order = o
=============================================================================
