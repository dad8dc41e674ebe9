---------------------------- MODULE Fulfillment -----------------------------
(***************************************************************************)
(* Orders, their shipments and the stock of the head office.  Every commit *)
(* that touches an order or a shipment runs the triggers of the HQ bulk    *)
(* inventory: they book the goods out when a document ships and back in    *)
(* when it is cancelled, returned or refunded.  Most handlers check what   *)
(* they read before their transaction and then write by id; the receipt in *)
(* the shop is a conditional update.  'draft' and 'packed' are "confirmed" *)
(* here, a packed shipment is "pending", and an order that is delivered is *)
(* "completed": no rule below tells them apart.                            *)
(***************************************************************************)
EXTENDS Integers, FiniteSets, HqTriggers

CONSTANTS
    Orders,    \* rows, never reused; an order has one shipment at most
    Requests,  \* restock requests an order may come from
    Clerks,    \* HQ requests in flight
    Kinds,     \* which kinds of orders this instance has
    Qtys,      \* units on the one line of an order
    None

ASSUME FulfillmentConstants ==
    /\ Qtys \subseteq Nat \ {0} /\ Kinds \subseteq {"restock", "customer", "import"}
    /\ None \notin Requests \cup Orders

VARIABLES
    order, shipment,
    ledger,    \* InventoryTransaction: booked out and back for each document
    arrived,   \* units a restock shipment put on the shelf of its shop
    clerk      \* what each HQ request has read

fulfillmentVars == <<order, shipment, ledger, arrived, clerk>>

NoOrder == [kind |-> None, status |-> "none", eligible |-> FALSE,
            refunded |-> FALSE, qty |-> 0, request |-> None]
NoShipment == [status |-> "none", eligible |-> FALSE, qty |-> 0, counted |-> FALSE]
NoEntry == [out |-> 0, back |-> 0]
Idle == [op |-> "idle"]

FulfillmentInit ==
    /\ order = [o \in Orders |-> NoOrder]
    /\ shipment = [o \in Orders |-> NoShipment]
    /\ ledger = [o \in Orders |-> [order |-> NoEntry, shipment |-> NoEntry]]
    /\ arrived = [o \in Orders |-> 0]
    /\ clerk = [c \in Clerks |-> Idle]

-----------------------------------------------------------------------------
(* The triggers that keep the books; HqTriggers guards each row.           *)

\* hq_bulk_post: book out once, book back once.
Posted(entry, q) == IF entry.out > 0 THEN entry ELSE [entry EXCEPT !.out = q]
Reversed(entry) == [entry EXCEPT !.back = entry.out]

Fallen(ord) == ord.status = "cancelled" \/ ord.refunded

\* hq_bulk_sync_order: an order without a shipment is booked itself.
OrderSynced(ord, ship, entry) ==
    IF Fallen(ord) THEN Reversed(entry)
    ELSE IF ship.status = "none" /\ ord.eligible /\ ord.status \in Gone
         THEN Posted(entry, ord.qty) ELSE entry
\* hq_bulk_sync_shipment, which it calls for the shipment of the order.
BookedElsewhere(ship, ordEntry) == ship.eligible /\ ordEntry.out > 0
ShipmentSynced(ord, ship, entry) ==
    IF ~ship.eligible THEN entry
    ELSE IF Fallen(ord) \/ ship.status = "cancelled" THEN Reversed(entry)
         ELSE IF ship.status \in Gone THEN Posted(entry, ship.qty) ELSE entry

\* A transaction that leaves the rows `ord` and `ship` of o: it commits with
\* what the triggers book, or it is rolled back.
Commits(o, ord, ship) ==
    LET ord2 == Marked(order[o], ord)
        ship2 == Marked(shipment[o], ship)
        entry == OrderSynced(ord2, ship2, ledger[o].order)
    IN
    /\ ~Refused(order[o], ord) /\ ~Refused(shipment[o], ship)
    /\ ~BookedElsewhere(ship2, entry)
    /\ order' = [order EXCEPT ![o] = ord2]
    /\ shipment' = [shipment EXCEPT ![o] = ship2]
    /\ ledger' = [ledger EXCEPT ![o] =
          [order |-> entry, shipment |-> ShipmentSynced(ord2, ship2, @.shipment)]]

Rows == <<order, shipment, ledger>>
Read(c, what) == /\ clerk[c] = Idle /\ clerk' = [clerk EXCEPT ![c] = what]
                 /\ UNCHANGED <<Rows, arrived>>
Done(c) == clerk' = [clerk EXCEPT ![c] = Idle]
Writes(c, o, ord, ship) == Commits(o, ord, ship) /\ Done(c) /\ UNCHANGED arrived
\* A request that ends without its write: an error of a trigger, a closed page.
GiveUp(c) == clerk[c] # Idle /\ Done(c) /\ UNCHANGED <<Rows, arrived>>

-----------------------------------------------------------------------------
(* HQ makes documents.                                                     *)

\* createOrder, createRestockOrderWithShipment.
NewOrder(o, kind, q, r) ==
    /\ kind \in Kinds /\ order[o].status = "none"
    /\ Commits(o, [NoOrder EXCEPT !.kind = kind, !.status = "confirmed", !.qty = q,
                                  !.request = r],
                  [NoShipment EXCEPT !.status = "pending", !.qty = q])
    /\ UNCHANGED arrived
CreateOrder(o, kind, q) ==
    kind # "import" /\ NewOrder(o, kind, q, None) /\ UNCHANGED clerk

\* An order of the web shop from before the OMS, waiting for its review.
Import(o, q) ==
    /\ "import" \in Kinds /\ order[o].status = "none"
    /\ Commits(o, [NoOrder EXCEPT !.kind = "import", !.status = "review", !.qty = q],
                  NoShipment)
    /\ UNCHANGED <<arrived, clerk>>

\* approveOrderForShipment.
Approve(o) ==
    /\ order[o].kind = "import" /\ order[o].status = "review" /\ ~order[o].refunded
    /\ shipment[o].status = "none"
    /\ Commits(o, [order[o] EXCEPT !.status = "confirmed"],
                  [NoShipment EXCEPT !.status = "pending", !.qty = order[o].qty])
    /\ UNCHANGED <<arrived, clerk>>

-----------------------------------------------------------------------------
(* HQ changes documents.                                                   *)

\* markShipmentStatus reads the shipment (TRANSITIONS) and writes it and its
\* order by id.  'received' is the answer of the shop for a restock; for the
\* others, who have no such step, it stands for 'delivered'.
Transitions(status) ==
    CASE status = "pending" -> {"shipped", "cancelled"}
      [] status \in {"shipped", "delivered"} ->
            {"delivered", "shipped", "received", "pending"} \ {status}
      [] OTHER -> {}
Target(kind, to) == IF kind # "restock" /\ to = "delivered" THEN "received" ELSE to
MarkRead(c, o, to) ==
    LET kind == order[o].kind IN
    /\ Target(kind, to) \in Transitions(shipment[o].status)
    /\ ~(kind = "restock" /\ to = "received")
    /\ Read(c, [op |-> "mark", order |-> o, to |-> Target(kind, to)])
\* buildOrderUpdateFromShipmentStatus
OrderFor(to) ==
    CASE to = "pending" -> "confirmed" [] to \in {"delivered", "received"} -> "completed"
      [] OTHER -> to
Shipped(ship, to) ==       \* shippedAt starts anew, before any later count
    [ship EXCEPT !.status = to, !.counted = @ /\ to # "shipped"]
MarkWrite(c) ==
    LET o == clerk[c].order IN
    /\ clerk[c].op = "mark"
    /\ Writes(c, o, [order[o] EXCEPT !.status = OrderFor(clerk[c].to)],
                    Shipped(shipment[o], clerk[c].to))

\* updateOrderStatus refuses to ship an order that has a shipment when it reads
\* it; the write takes along the shipments of customers, not those of shops.
HasShipment(o) == shipment[o].status \notin {"none", "cancelled"}
StatusRead(c, o, to) ==
    /\ order[o].status # "none"
    /\ to \in {"shipped", "completed"} => ~HasShipment(o)
    /\ Read(c, [op |-> "status", order |-> o, to |-> to])
ShipmentFor(to) ==         \* shipmentStatusFromOrderStatus
    CASE to = "confirmed" -> "pending" [] to = "completed" -> "delivered" [] OTHER -> to
StatusWrite(c) ==
    LET o == clerk[c].order IN
    /\ clerk[c].op = "status"
    /\ Writes(c, o, [order[o] EXCEPT !.status = clerk[c].to],
          IF HasShipment(o) /\ order[o].kind # "restock"
          THEN Shipped(shipment[o], ShipmentFor(clerk[c].to)) ELSE shipment[o])

\* updateOrderPaymentStatus: any status after any other.
SetRefunded(o, yes) ==
    /\ order[o].status # "none" /\ order[o].refunded # yes
    /\ Commits(o, [order[o] EXCEPT !.refunded = yes], shipment[o])
    /\ UNCHANGED <<arrived, clerk>>

\* updateOrder: what may be edited is decided before the transaction; the
\* lines of a document that is in the ledger are kept by hq_bulk_protect_lines.
Editable(o) ==
    order[o].status \in {"review", "confirmed"} /\ shipment[o].status \notin Gone
EditRead(c, o, q) ==
    Editable(o) /\ q # order[o].qty /\ Read(c, [op |-> "edit", order |-> o, qty |-> q])
EditWriteLoose(c) == \* mutant: the lines are not protected
    LET o == clerk[c].order IN
    /\ clerk[c].op = "edit"
    /\ Writes(c, o, [order[o] EXCEPT !.qty = clerk[c].qty],
          IF shipment[o].status = "none" THEN NoShipment
          ELSE [shipment[o] EXCEPT !.qty = clerk[c].qty])
EditWrite(c) ==
    LET o == clerk[c].order IN
    /\ clerk[c].op = "edit"
    /\ ledger[o].order.out = 0 /\ ledger[o].shipment.out = 0
    /\ Writes(c, o, [order[o] EXCEPT !.qty = clerk[c].qty],
          IF shipment[o].status = "none" THEN NoShipment
          ELSE [shipment[o] EXCEPT !.qty = clerk[c].qty])

\* The upkeep of the queue: cancelShipmentsForCancelledOrders ...
CancelStray(o) ==
    /\ shipment[o].status = "pending" /\ order[o].status = "cancelled"
    /\ Commits(o, order[o], [shipment[o] EXCEPT !.status = "cancelled"])
    /\ UNCHANGED <<arrived, clerk>>
\* ... and consolidateDuplicateMerchantRestockShipments, which keeps one of the
\* pending shipments of a shop with the same lines and cancels the others by id.
ConsolidateRead(c, o) ==
    /\ order[o].kind = "restock" /\ shipment[o].status = "pending"
    /\ \E p \in Orders \ {o} : /\ order[p].kind = "restock"
                               /\ shipment[p].status = "pending"
                               /\ shipment[p].qty = shipment[o].qty
    /\ Read(c, [op |-> "consolidate", order |-> o])
ConsolidateWrite(c) ==
    LET o == clerk[c].order IN
    /\ clerk[c].op = "consolidate"
    /\ Writes(c, o, order[o], [shipment[o] EXCEPT !.status = "cancelled"])

-----------------------------------------------------------------------------
(* The shop.                                                               *)

\* A stocktake in the shop is later than the departure of what is under way.
CountShelf ==
    LET away == {o \in Orders : /\ order[o].kind = "restock"
                                /\ shipment[o].status \in {"shipped", "delivered"}
                                /\ ~shipment[o].counted} IN
    /\ away # {}
    /\ shipment' = [o \in Orders |->
          IF o \in away THEN [shipment[o] EXCEPT !.counted = TRUE] ELSE shipment[o]]
    /\ UNCHANGED <<order, ledger, arrived, clerk>>

AtTheDoor(o) == order[o].kind = "restock" /\ shipment[o].status \in {"shipped", "delivered"}
\* confirmMerchantRestockReceipt: the status read in the transaction is the
\* condition of its update, and the lines are added to the shelf unless they
\* were added before (applyMerchantRestockFromShipment).
ReceiptAdds(o) == shipment[o].qty \* mutant: every receipt adds its lines
Receipt(o) == IF arrived[o] > 0 THEN 0 ELSE shipment[o].qty
Receive(o) ==
    /\ AtTheDoor(o) /\ (arrived[o] = 0 => ~shipment[o].counted)
    /\ Commits(o, order[o], [shipment[o] EXCEPT !.status = "received"])
    /\ arrived' = [arrived EXCEPT ![o] = @ + Receipt(o)]
    /\ UNCHANGED clerk
\* closeCountedHistoricalReceipt: HQ closes what the shop may not post.
CloseCounted(o) ==
    /\ AtTheDoor(o) /\ (arrived[o] > 0 \/ shipment[o].counted)
    /\ Commits(o, order[o], [shipment[o] EXCEPT !.status = "received"])
    /\ UNCHANGED <<arrived, clerk>>

FulfillmentNext ==
    \/ CountShelf
    \/ \E o \in Orders :
          \/ \E q \in Qtys : Import(o, q) \/ \E k \in Kinds : CreateOrder(o, k, q)
          \/ Approve(o) \/ CancelStray(o) \/ Receive(o) \/ CloseCounted(o)
          \/ \E yes \in BOOLEAN : SetRefunded(o, yes)
    \/ \E c \in Clerks :
          \/ MarkWrite(c) \/ StatusWrite(c) \/ EditWrite(c) \/ ConsolidateWrite(c)
          \/ GiveUp(c)
          \/ \E o \in Orders :
                \/ \E to \in Gone \cup {"pending", "cancelled"} : MarkRead(c, o, to)
                \/ \E to \in {"confirmed", "shipped", "completed", "cancelled"} :
                      StatusRead(c, o, to)
                \/ \E q \in Qtys : EditRead(c, o, q)
                \/ ConsolidateRead(c, o)

-----------------------------------------------------------------------------
Net(entry) == entry.out - entry.back

\* Goods leave the head office once, with the order or with its shipment, in the
\* quantity of the lines that are still there, and come back at most once.
BookedOnce(o) ==
    LET ord == ledger[o].order  ship == ledger[o].shipment IN
    /\ ord.out \in {0, order[o].qty} /\ ship.out \in {0, shipment[o].qty}
    /\ ord.back \in {0, ord.out} /\ ship.back \in {0, ship.out}
    /\ Net(ord) = 0 \/ Net(ship) = 0

\* The stock of the head office is right in spite of the handlers: every document
\* is booked once.  A document that fell keeps nothing booked out, however it
\* fell and whatever a clerk with an older page wrote afterwards; one that counts,
\* is under way and was never booked back is booked out.
BooksFollowDocuments ==
    \A o \in Orders :
        /\ BookedOnce(o)
        /\ Fallen(order[o]) => Net(ledger[o].order) = 0 /\ Net(ledger[o].shipment) = 0
        /\ shipment[o].status = "cancelled" => Net(ledger[o].shipment) = 0
        /\ (/\ shipment[o].eligible /\ shipment[o].status \in Gone /\ ~Fallen(order[o])
            /\ ledger[o].shipment.back = 0) => Net(ledger[o].shipment) = shipment[o].qty

\* The shelf of a shop gets a shipment once, also when a clerk at HQ puts a
\* received shipment back on its way or changes its lines.
ArrivesOnce ==
    [][\A o \in Orders : arrived[o] > 0 => arrived'[o] = arrived[o]]_arrived

\* A shipment that was booked back is not under way again: the stock is back on
\* the books of the head office only while the goods are.
ReturnedIsNotRevived ==
    \A o \in Orders :
        ledger[o].shipment.back > 0 => Fallen(order[o]) \/ shipment[o].status = "cancelled"
=============================================================================
