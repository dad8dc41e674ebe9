----------------------------- MODULE HqTriggers -----------------------------
(***************************************************************************)
(* The trigger that guards every write of an order or a shipment, whatever *)
(* handler makes it (hq_bulk_mark_eligible).  A row is a record with a     *)
(* status and the flag `eligible`: HQ keeps the books of its goods.  The   *)
(* status of a row that is not there yet is "none".                        *)
(***************************************************************************)

Gone == {"shipped", "delivered", "received", "completed"}

\* It refuses to revive or to take back what was booked ...
Refused(old, new) ==
    /\ old.eligible
    /\ \/ old.status = "cancelled" /\ new.status \in Gone
       \/ old.status \in Gone /\ new.status \in {"pending", "review", "confirmed"}
\* ... and starts the bookkeeping the first time the row ships.
Marked(old, new) ==
    [new EXCEPT !.eligible =
        \/ old.eligible
        \/ old.status \notin Gone \cup {"cancelled"} /\ new.status \in Gone]
=============================================================================
