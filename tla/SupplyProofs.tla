---------------------------- MODULE SupplyProofs ----------------------------
(***************************************************************************)
(* What is proved of the orders and shipments of HQ, of the requests they  *)
(* come from and of the monthly boxes, for every number of documents,      *)
(* clerks, days and runs of the cron.  The books rest on what a single     *)
(* commit does to the rows and the ledger of one order, whatever handler   *)
(* it belongs to (CommitKeepsBooks); the handlers only have to show that   *)
(* they leave the lines of a booked document alone.                        *)
(***************************************************************************)
EXTENDS RestockRequests, Subscriptions, TLAPS

OrderStatuses == {"none", "review", "confirmed", "shipped", "completed", "cancelled"}
ShipmentStatuses ==
    {"none", "pending", "shipped", "delivered", "received", "cancelled"}
OrderRow == [kind : Kinds \cup {None}, status : OrderStatuses, eligible : BOOLEAN,
             refunded : BOOLEAN, qty : Nat, request : Requests \cup {None}]
ShipmentRow == [status : ShipmentStatuses, eligible : BOOLEAN, qty : Nat,
                counted : BOOLEAN]
Entry == [out : Nat, back : Nat]
Task == [op : {"idle"}]
        \cup [op : {"mark"}, order : Orders,
              to : {"pending", "shipped", "delivered", "received", "cancelled"}]
        \cup [op : {"status"}, order : Orders,
              to : {"confirmed", "shipped", "completed", "cancelled"}]
        \cup [op : {"edit"}, order : Orders, qty : Qtys]
        \cup [op : {"consolidate"}, order : Orders]
RequestRow == [status : {"none", "submitted", "under_review", "rejected", "converted"},
               qty : Nat, order : Orders \cup {None}]
DeskTask == [op : {"idle", "reject"}] \cup [op : {"edit"}, qty : Qtys]

RowsTyped ==
    /\ order \in [Orders -> OrderRow]
    /\ shipment \in [Orders -> ShipmentRow]
    /\ ledger \in [Orders -> [order : Entry, shipment : Entry]]
TypeOK ==
    /\ RowsTyped
    /\ arrived \in [Orders -> Nat]
    /\ clerk \in [Clerks -> Task]
    /\ request \in [Requests -> RequestRow]
    /\ desk \in [Requests -> DeskTask]

(***************************************************************************)
(* The books of one order, as a condition on its two rows and its entry.   *)
(***************************************************************************)
EntryOK(entry, qty) == entry.out \in {0, qty} /\ entry.back \in {0, entry.out}

\* What BooksFollowDocuments says of them, and what makes it inductive: only a
\* document of which HQ keeps books is in the ledger, and an order that is booked
\* itself has no shipment of that kind.
BooksOK(ord, ship, entry) ==
    /\ EntryOK(entry.order, ord.qty) /\ EntryOK(entry.shipment, ship.qty)
    /\ entry.shipment.out > 0 => ship.eligible
    /\ ship.eligible => entry.order.out = 0
    /\ Fallen(ord) => Net(entry.order) = 0 /\ Net(entry.shipment) = 0
    /\ ship.status = "cancelled" => Net(entry.shipment) = 0
    /\ (/\ ship.eligible /\ ship.status \in Gone /\ ~Fallen(ord)
        /\ entry.shipment.back = 0) => Net(entry.shipment) = ship.qty

\* A row that is not there is blank, in the ledger too.
Blank(o) ==
    /\ order[o].status = "none" =>
          /\ order[o] = NoOrder /\ shipment[o] = NoShipment
          /\ ledger[o] = [order |-> NoEntry, shipment |-> NoEntry]
    /\ shipment[o].status = "none" => shipment[o] = NoShipment

\* Who is at work on a document has read one that is there.
TaskOK(c) == clerk[c].op # "idle" => order[clerk[c].order].status # "none"

\* A request that was not submitted has no order.
NothingBefore == \A r \in Requests : request[r].status = "none" => request[r].order = None

DocumentsOK ==
    \A o \in Orders : BooksOK(order[o], shipment[o], ledger[o]) /\ Blank(o)

Inv ==
    /\ TypeOK
    /\ DocumentsOK
    /\ \A c \in Clerks : TaskOK(c)
    /\ NothingBefore
    /\ ConvertedOnce

LEMMA InvImpliesBooks == Inv => BooksFollowDocuments
<1> SUFFICES ASSUME Inv, NEW o \in Orders
             PROVE  /\ BookedOnce(o)
                    /\ Fallen(order[o]) =>
                          Net(ledger[o].order) = 0 /\ Net(ledger[o].shipment) = 0
                    /\ shipment[o].status = "cancelled" => Net(ledger[o].shipment) = 0
                    /\ (/\ shipment[o].eligible /\ shipment[o].status \in Gone
                        /\ ~Fallen(order[o]) /\ ledger[o].shipment.back = 0)
                             => Net(ledger[o].shipment) = shipment[o].qty
  BY DEF BooksFollowDocuments
<1>1. BooksOK(order[o], shipment[o], ledger[o])
  BY DEF Inv, DocumentsOK
<1>2. /\ ledger[o].order \in Entry /\ ledger[o].shipment \in Entry
      /\ order[o].qty \in Nat /\ shipment[o].qty \in Nat
  BY DEF Inv, TypeOK, RowsTyped, OrderRow, ShipmentRow
<1>3. Net(ledger[o].order) = 0 \/ Net(ledger[o].shipment) = 0
  BY <1>1, <1>2 DEF BooksOK, EntryOK, Net, Entry
<1>4. BookedOnce(o)
  BY <1>1, <1>3 DEF BooksOK, EntryOK, BookedOnce
<1> QED BY <1>1, <1>4 DEF BooksOK

-----------------------------------------------------------------------------
(* One commit.                                                             *)

LEMMA EntryTypes ==
    ASSUME NEW entry \in Entry, NEW q \in Nat
    PROVE  /\ Posted(entry, q) \in Entry /\ Reversed(entry) \in Entry
           /\ Posted(entry, q).out = IF entry.out > 0 THEN entry.out ELSE q
           /\ Posted(entry, q).back = entry.back
           /\ Reversed(entry).out = entry.out /\ Reversed(entry).back = entry.out
<1>1. CASE entry.out > 0
  BY <1>1 DEF Entry, Posted, Reversed
<1>2. CASE ~(entry.out > 0)
  BY <1>2 DEF Entry, Posted, Reversed
<1> QED BY <1>1, <1>2

LEMMA MarkedRows ==
    /\ \A old, ord \in OrderRow :
          /\ Marked(old, ord) \in OrderRow
          /\ Marked(old, ord).status = ord.status /\ Marked(old, ord).kind = ord.kind
          /\ Marked(old, ord).qty = ord.qty /\ Marked(old, ord).refunded = ord.refunded
          /\ Marked(old, ord).request = ord.request
          /\ old.eligible => Marked(old, ord).eligible
    /\ \A old, ship \in ShipmentRow :
          /\ Marked(old, ship) \in ShipmentRow
          /\ Marked(old, ship).status = ship.status /\ Marked(old, ship).qty = ship.qty
          /\ old.eligible => Marked(old, ship).eligible
<1>1. ASSUME NEW old \in OrderRow, NEW ord \in OrderRow
      PROVE  /\ Marked(old, ord) \in OrderRow
             /\ Marked(old, ord).status = ord.status /\ Marked(old, ord).kind = ord.kind
             /\ Marked(old, ord).qty = ord.qty /\ Marked(old, ord).refunded = ord.refunded
             /\ Marked(old, ord).request = ord.request
             /\ old.eligible => Marked(old, ord).eligible
  BY DEF Marked, OrderRow
<1>2. ASSUME NEW old \in ShipmentRow, NEW ship \in ShipmentRow
      PROVE  /\ Marked(old, ship) \in ShipmentRow
             /\ Marked(old, ship).status = ship.status /\ Marked(old, ship).qty = ship.qty
             /\ old.eligible => Marked(old, ship).eligible
  BY DEF Marked, ShipmentRow
<1> QED BY <1>1, <1>2

\* What the triggers book for an order and its shipment, as they are when the
\* trigger has marked them.
LEMMA SyncKeepsBooks ==
    ASSUME NEW ord \in OrderRow, NEW ship \in ShipmentRow,
           NEW entry \in [order : Entry, shipment : Entry],
           EntryOK(entry.order, ord.qty), EntryOK(entry.shipment, ship.qty),
           entry.shipment.out > 0 => ship.eligible,
           ~BookedElsewhere(ship, OrderSynced(ord, ship, entry.order))
    PROVE  LET new == [order |-> OrderSynced(ord, ship, entry.order),
                       shipment |-> ShipmentSynced(ord, ship, entry.shipment)] IN
           /\ new \in [order : Entry, shipment : Entry]
           /\ BooksOK(ord, ship, new)
<1> DEFINE eo == OrderSynced(ord, ship, entry.order)
           es == ShipmentSynced(ord, ship, entry.shipment)
<1>1. /\ entry.order \in Entry /\ entry.shipment \in Entry
      /\ ord.qty \in Nat /\ ship.qty \in Nat /\ ship.eligible \in BOOLEAN
  BY DEF OrderRow, ShipmentRow
<1>2. /\ eo \in Entry /\ EntryOK(eo, ord.qty)
      /\ Fallen(ord) => Net(eo) = 0
  <2>1. /\ Posted(entry.order, ord.qty) \in Entry
        /\ EntryOK(Posted(entry.order, ord.qty), ord.qty)
    BY <1>1, EntryTypes DEF EntryOK, Entry
  <2>2. /\ Reversed(entry.order) \in Entry
        /\ EntryOK(Reversed(entry.order), ord.qty)
        /\ Net(Reversed(entry.order)) = 0
    <3>1. /\ Reversed(entry.order) \in Entry
          /\ Reversed(entry.order).out = entry.order.out
          /\ Reversed(entry.order).back = entry.order.out
      BY <1>1, EntryTypes
    <3>2. entry.order.out \in Nat
      BY <1>1 DEF Entry
    <3> QED BY <1>1, <3>1, <3>2 DEF EntryOK, Net
  <2> QED BY <1>1, <2>1, <2>2 DEF OrderSynced
<1>3. es \in Entry /\ EntryOK(es, ship.qty) /\ (es.out > 0 => ship.eligible)
  <2>1. CASE ~ship.eligible
    BY <1>1, <2>1 DEF ShipmentSynced
  <2>2. CASE ship.eligible /\ (Fallen(ord) \/ ship.status = "cancelled")
    BY <1>1, <2>2, EntryTypes DEF ShipmentSynced, EntryOK, Entry
  <2>3. CASE ship.eligible /\ ~(Fallen(ord) \/ ship.status = "cancelled")
    BY <1>1, <2>3, EntryTypes DEF ShipmentSynced, EntryOK, Entry
  <2> QED BY <1>1, <2>1, <2>2, <2>3
<1>4. ship.eligible => eo.out = 0
  BY <1>2 DEF BookedElsewhere, Entry
<1>5. (Fallen(ord) \/ ship.status = "cancelled") => Net(es) = 0
  <2>1. CASE ~ship.eligible
    BY <1>3, <2>1 DEF EntryOK, Net, Entry
  <2>2. CASE ship.eligible
    BY <1>1, <2>2, EntryTypes DEF ShipmentSynced, Net, Entry
  <2> QED BY <1>1, <2>1, <2>2
<1>6. ship.eligible /\ ship.status \in Gone /\ ~Fallen(ord) /\ es.back = 0
        => Net(es) = ship.qty
  <2> SUFFICES ASSUME ship.eligible, ship.status \in Gone, ~Fallen(ord), es.back = 0
               PROVE  Net(es) = ship.qty
    OBVIOUS
  <2>1. es = Posted(entry.shipment, ship.qty)
    BY DEF ShipmentSynced, Gone
  <2>2. Posted(entry.shipment, ship.qty).out
          = IF entry.shipment.out > 0 THEN entry.shipment.out ELSE ship.qty
    BY <1>1, EntryTypes
  <2>3. es.out = ship.qty
    BY <1>1, <2>1, <2>2 DEF EntryOK, Entry
  <2> QED BY <1>1, <2>3 DEF Net
<1>7. BooksOK(ord, ship, [order |-> eo, shipment |-> es])
  BY <1>2, <1>3, <1>4, <1>5, <1>6 DEF BooksOK
<1> QED BY <1>2, <1>3, <1>7

\* A commit keeps the books of its order when it leaves the lines of a document
\* that is in the ledger as they are.
KeepsLines(o, ord, ship) ==
    /\ ledger[o].order.out > 0 => ord.qty = order[o].qty
    /\ ledger[o].shipment.out > 0 => ship.qty = shipment[o].qty

LEMMA CommitKeepsBooks ==
    ASSUME RowsTyped, NEW o \in Orders, BooksOK(order[o], shipment[o], ledger[o])
    PROVE  \A ord \in OrderRow, ship \in ShipmentRow :
              Commits(o, ord, ship) /\ KeepsLines(o, ord, ship) =>
                 /\ order' = [order EXCEPT ![o] = Marked(order[o], ord)]
                 /\ shipment' = [shipment EXCEPT ![o] = Marked(shipment[o], ship)]
                 /\ ledger' = [ledger EXCEPT ![o] = ledger'[o]]
                 /\ order'[o] \in OrderRow /\ shipment'[o] \in ShipmentRow
                 /\ ledger'[o] \in [order : Entry, shipment : Entry]
                 /\ BooksOK(order'[o], shipment'[o], ledger'[o])
<1> SUFFICES ASSUME NEW ord \in OrderRow, NEW ship \in ShipmentRow,
                    Commits(o, ord, ship), KeepsLines(o, ord, ship)
             PROVE  /\ order' = [order EXCEPT ![o] = Marked(order[o], ord)]
                    /\ shipment' = [shipment EXCEPT ![o] = Marked(shipment[o], ship)]
                    /\ ledger' = [ledger EXCEPT ![o] = ledger'[o]]
                    /\ order'[o] \in OrderRow /\ shipment'[o] \in ShipmentRow
                    /\ ledger'[o] \in [order : Entry, shipment : Entry]
                    /\ BooksOK(order'[o], shipment'[o], ledger'[o])
  OBVIOUS
<1>1. PICK old \in OrderRow, oldShip \in ShipmentRow,
           entry \in [order : Entry, shipment : Entry] :
         old = order[o] /\ oldShip = shipment[o] /\ entry = ledger[o]
  BY DEF RowsTyped
<1>2. PICK ord2 \in OrderRow, ship2 \in ShipmentRow :
         /\ ord2 = Marked(old, ord) /\ ship2 = Marked(oldShip, ship)
         /\ ord2.qty = ord.qty /\ ship2.qty = ship.qty
         /\ oldShip.eligible => ship2.eligible
  BY MarkedRows
<1>3. /\ order' = [order EXCEPT ![o] = ord2]
      /\ shipment' = [shipment EXCEPT ![o] = ship2]
      /\ ledger' = [ledger EXCEPT ![o] =
            [order |-> OrderSynced(ord2, ship2, entry.order),
             shipment |-> ShipmentSynced(ord2, ship2, entry.shipment)]]
      /\ ~BookedElsewhere(ship2, OrderSynced(ord2, ship2, entry.order))
  BY <1>1, <1>2 DEF Commits
<1>4. /\ EntryOK(entry.order, ord2.qty) /\ EntryOK(entry.shipment, ship2.qty)
      /\ entry.shipment.out > 0 => ship2.eligible
  <2>1. /\ EntryOK(entry.order, old.qty) /\ EntryOK(entry.shipment, oldShip.qty)
        /\ entry.shipment.out > 0 => oldShip.eligible
    BY <1>1 DEF BooksOK
  <2>2. /\ entry.order.out > 0 => ord2.qty = old.qty
        /\ entry.shipment.out > 0 => ship2.qty = oldShip.qty
    BY <1>1, <1>2 DEF KeepsLines
  <2>3. entry.order.out \in Nat /\ entry.shipment.out \in Nat
    BY DEF Entry
  <2> QED BY <1>2, <2>1, <2>2, <2>3 DEF EntryOK
<1>5. PICK new \in [order : Entry, shipment : Entry] :
         /\ new = [order |-> OrderSynced(ord2, ship2, entry.order),
                   shipment |-> ShipmentSynced(ord2, ship2, entry.shipment)]
         /\ BooksOK(ord2, ship2, new)
  BY <1>3, <1>4, SyncKeepsBooks
<1>6. order'[o] = ord2 /\ shipment'[o] = ship2 /\ ledger'[o] = new
  BY <1>3, <1>5 DEF RowsTyped
<1> QED BY <1>1, <1>2, <1>3, <1>5, <1>6

LEMMA BlankStaysBlank == Marked(NoShipment, NoShipment) = NoShipment
<1>1. NoShipment \in ShipmentRow
  BY DEF NoShipment, ShipmentRow, ShipmentStatuses
<1>2. PICK row \in ShipmentRow :
         /\ row = Marked(NoShipment, NoShipment)
         /\ row.status = "none" /\ row.qty = 0
  BY <1>1, MarkedRows DEF NoShipment
<1>3. ~row.eligible /\ row.counted = FALSE
  BY <1>2 DEF Marked, NoShipment, Gone
<1>4. row = [status |-> "none", eligible |-> FALSE, qty |-> 0, counted |-> FALSE]
  BY <1>2, <1>3 DEF ShipmentRow
<1> QED BY <1>2, <1>4 DEF NoShipment

\* What a commit does to the documents: a row that was there stays, and the
\* documents of another order are not touched.
Stays == \A p \in Orders : order[p].status # "none" => order'[p].status # "none"

LEMMA CommitStep ==
    ASSUME RowsTyped, DocumentsOK, NEW o \in Orders
    PROVE  \A ord \in OrderRow, ship \in ShipmentRow :
              /\ Commits(o, ord, ship) /\ KeepsLines(o, ord, ship)
              /\ ord.status # "none"
              /\ ship.status = "none" => ship = NoShipment /\ shipment[o] = NoShipment
              => /\ RowsTyped' /\ DocumentsOK' /\ Stays
                 /\ order'[o].request = ord.request
                 /\ \A p \in Orders \ {o} : order'[p] = order[p]
<1> SUFFICES ASSUME NEW ord \in OrderRow, NEW ship \in ShipmentRow,
                    Commits(o, ord, ship), KeepsLines(o, ord, ship),
                    ord.status # "none",
                    ship.status = "none" => ship = NoShipment /\ shipment[o] = NoShipment
             PROVE  /\ RowsTyped' /\ DocumentsOK' /\ Stays
                    /\ order'[o].request = ord.request
                    /\ \A p \in Orders \ {o} : order'[p] = order[p]
  OBVIOUS
<1>1. BooksOK(order[o], shipment[o], ledger[o]) /\ Blank(o)
  BY DEF DocumentsOK
<1>2. /\ order' = [order EXCEPT ![o] = Marked(order[o], ord)]
      /\ shipment' = [shipment EXCEPT ![o] = Marked(shipment[o], ship)]
      /\ ledger' = [ledger EXCEPT ![o] = ledger'[o]]
      /\ order'[o] \in OrderRow /\ shipment'[o] \in ShipmentRow
      /\ ledger'[o] \in [order : Entry, shipment : Entry]
      /\ BooksOK(order'[o], shipment'[o], ledger'[o])
  BY <1>1, CommitKeepsBooks
<1>3. /\ order[o] \in OrderRow /\ shipment[o] \in ShipmentRow
  BY DEF RowsTyped
<1>4. RowsTyped'
  BY <1>2 DEF RowsTyped
<1>5. /\ order'[o] = Marked(order[o], ord) /\ shipment'[o] = Marked(shipment[o], ship)
      /\ \A p \in Orders \ {o} : /\ order'[p] = order[p] /\ shipment'[p] = shipment[p]
                               /\ ledger'[p] = ledger[p]
  BY <1>2 DEF RowsTyped
<1>6. /\ order'[o].status = ord.status /\ order'[o].request = ord.request
      /\ shipment'[o].status = ship.status
  <2>1. /\ Marked(order[o], ord).status = ord.status
        /\ Marked(order[o], ord).request = ord.request
    BY <1>3, MarkedRows
  <2>2. Marked(shipment[o], ship).status = ship.status
    BY <1>3, MarkedRows
  <2> QED BY <1>5, <2>1, <2>2
<1>7. ship.status = "none" => shipment'[o] = NoShipment
  BY <1>5, BlankStaysBlank
<1>8. DocumentsOK'
  <2> SUFFICES ASSUME NEW p \in Orders
               PROVE  BooksOK(order'[p], shipment'[p], ledger'[p]) /\ Blank(p)'
    BY DEF DocumentsOK
  <2>1. CASE p = o
    BY <1>2, <1>6, <1>7, <2>1 DEF Blank
  <2>2. CASE p # o
    BY <1>5, <2>2 DEF DocumentsOK, Blank
  <2> QED BY <2>1, <2>2
<1> QED BY <1>4, <1>5, <1>6, <1>8 DEF Stays

\* The rest of the invariant, when a write makes no order of a request: a clerk is
\* done at most, and what arrives is counted.
ClerksRest == clerk' = clerk \/ \E c \in Clerks : Done(c)

LEMMA RestStays ==
    ASSUME Inv, RowsTyped', DocumentsOK', Stays, ClerksRest,
           \A p \in Orders : order'[p].request = order[p].request,
           arrived' \in [Orders -> Nat], UNCHANGED <<request, desk>>
    PROVE  Inv'
<1>1. clerk' \in [Clerks -> Task]
  BY DEF Inv, TypeOK, ClerksRest, Done, Task, Idle
<1>2. \A c \in Clerks : clerk'[c] = clerk[c] \/ clerk'[c].op = "idle"
  BY DEF Inv, TypeOK, ClerksRest, Done, Idle
<1>3. \A c \in Clerks : clerk[c].op # "idle" => clerk[c].order \in Orders
  BY DEF Inv, TypeOK, Task
<1>4. \A c \in Clerks : TaskOK(c)'
  BY <1>2, <1>3 DEF Inv, TaskOK, Stays
<1>5. ConvertedOnce' /\ NothingBefore'
  BY DEF Inv, NothingBefore, ConvertedOnce
<1>6. TypeOK'
  BY <1>1 DEF Inv, TypeOK
<1> QED BY <1>4, <1>5, <1>6 DEF Inv

LEMMA WriteStep ==
    ASSUME Inv, NEW o \in Orders, ClerksRest, arrived' \in [Orders -> Nat],
           UNCHANGED <<request, desk>>
    PROVE  \A ord \in OrderRow, ship \in ShipmentRow :
              /\ Commits(o, ord, ship) /\ KeepsLines(o, ord, ship)
              /\ ord.status # "none" /\ ord.request = order[o].request
              /\ ship.status = "none" => ship = NoShipment /\ shipment[o] = NoShipment
              => Inv'
<1> SUFFICES ASSUME NEW ord \in OrderRow, NEW ship \in ShipmentRow,
                    Commits(o, ord, ship), KeepsLines(o, ord, ship),
                    ord.status # "none", ord.request = order[o].request,
                    ship.status = "none" => ship = NoShipment /\ shipment[o] = NoShipment
             PROVE  Inv'
  OBVIOUS
<1>1. RowsTyped /\ DocumentsOK
  BY DEF Inv, TypeOK
<1>2. /\ RowsTyped' /\ DocumentsOK' /\ Stays
      /\ order'[o].request = ord.request
      /\ \A p \in Orders \ {o} : order'[p] = order[p]
  BY <1>1, CommitStep
<1>3. \A p \in Orders : order'[p].request = order[p].request
  BY <1>2
<1> QED BY <1>2, <1>3, RestStays

-----------------------------------------------------------------------------
(* The initial state, and the steps that write no document.                *)

LEMMA NullRows ==
    /\ NoOrder \in OrderRow /\ NoShipment \in ShipmentRow /\ NoEntry \in Entry
    /\ Idle \in Task /\ Idle \in DeskTask /\ NoRequest \in RequestRow
BY DEF NoOrder, NoShipment, NoEntry, Idle, NoRequest, OrderRow, ShipmentRow, Entry,
       Task, DeskTask, RequestRow, OrderStatuses, ShipmentStatuses

LEMMA InitInv == Init => Inv
<1> SUFFICES ASSUME Init PROVE Inv
  OBVIOUS
<1> USE DEF Init, FulfillmentInit
<1>1. TypeOK
  BY NullRows DEF TypeOK, RowsTyped
<1>2. DocumentsOK
  <2> SUFFICES ASSUME NEW o \in Orders
               PROVE  BooksOK(order[o], shipment[o], ledger[o]) /\ Blank(o)
    BY DEF DocumentsOK
  <2>1. order[o] = NoOrder /\ shipment[o] = NoShipment
        /\ ledger[o] = [order |-> NoEntry, shipment |-> NoEntry]
    OBVIOUS
  <2> QED BY <2>1 DEF BooksOK, EntryOK, Blank, NoOrder, NoShipment, NoEntry, Net, Gone,
                      Fallen
<1>3. \A c \in Clerks : TaskOK(c)
  BY DEF TaskOK, Idle
<1>4. ConvertedOnce /\ NothingBefore
  BY FulfillmentConstants DEF ConvertedOnce, NothingBefore, NoOrder, NoRequest
<1> QED BY <1>1, <1>2, <1>3, <1>4 DEF Inv

\* Opening a document, and any other step that leaves the documents alone.
LEMMA ReadStep ==
    ASSUME Inv, NEW c \in Clerks, NEW what \in Task,
           what.op # "idle" => order[what.order].status # "none",
           clerk' = [clerk EXCEPT ![c] = what], UNCHANGED <<Rows, arrived, request, desk>>
    PROVE  Inv'
<1>1. RowsTyped' /\ DocumentsOK'
  BY DEF Inv, TypeOK, RowsTyped, DocumentsOK, Blank, Rows
<1>2. TypeOK'
  BY <1>1 DEF Inv, TypeOK
<1>3. \A d \in Clerks : clerk'[d] = IF d = c THEN what ELSE clerk[d]
  BY DEF Inv, TypeOK
<1>4. \A d \in Clerks : TaskOK(d)'
  BY <1>3 DEF Inv, TaskOK, Rows
<1>5. ConvertedOnce' /\ NothingBefore'
  BY DEF Inv, NothingBefore, ConvertedOnce, Rows
<1> QED BY <1>1, <1>2, <1>4, <1>5 DEF Inv

LEMMA CountStep ==
    ASSUME Inv, CountShelf, UNCHANGED <<request, desk>>
    PROVE  Inv'
<1>1. \A o \in Orders : /\ shipment'[o] \in ShipmentRow
                        /\ shipment'[o].status = shipment[o].status
                        /\ shipment'[o].eligible = shipment[o].eligible
                        /\ shipment'[o].qty = shipment[o].qty
                        /\ shipment'[o] # shipment[o] => shipment[o].status # "none"
  BY DEF CountShelf, Inv, TypeOK, RowsTyped, ShipmentRow
<1>2. shipment' = [o \in Orders |-> shipment'[o]]
  BY DEF CountShelf
<1>3. RowsTyped'
  BY <1>1, <1>2 DEF CountShelf, Inv, TypeOK, RowsTyped
<1>4. DocumentsOK'
  <2> SUFFICES ASSUME NEW o \in Orders
               PROVE  BooksOK(order[o], shipment'[o], ledger[o]) /\ Blank(o)'
    BY DEF DocumentsOK, CountShelf
  <2>1. BooksOK(order[o], shipment[o], ledger[o]) /\ Blank(o)
    BY DEF Inv, DocumentsOK
  <2>2. BooksOK(order[o], shipment'[o], ledger[o])
    BY <1>1, <2>1 DEF BooksOK
  <2>3. Blank(o)'
    <3>1. order[o].status = "none" => shipment[o].status = "none"
      BY <2>1 DEF Blank, NoShipment
    <3> QED BY <1>1, <2>1, <3>1 DEF Blank, CountShelf
  <2> QED BY <2>2, <2>3
<1>5. Stays /\ ClerksRest /\ arrived' \in [Orders -> Nat]
      /\ \A p \in Orders : order'[p].request = order[p].request
  BY DEF CountShelf, Stays, ClerksRest, Inv, TypeOK
<1> QED BY <1>3, <1>4, <1>5, RestStays

-----------------------------------------------------------------------------
(* Rows that are written.                                                  *)

LEMMA OrderFields ==
    \A ord \in OrderRow :
       /\ \A x \in OrderStatuses :
             /\ [ord EXCEPT !.status = x] \in OrderRow
             /\ [ord EXCEPT !.status = x].status = x
             /\ [ord EXCEPT !.status = x].qty = ord.qty
             /\ [ord EXCEPT !.status = x].request = ord.request
       /\ \A x \in BOOLEAN :
             /\ [ord EXCEPT !.refunded = x] \in OrderRow
             /\ [ord EXCEPT !.refunded = x].status = ord.status
             /\ [ord EXCEPT !.refunded = x].qty = ord.qty
             /\ [ord EXCEPT !.refunded = x].request = ord.request
       /\ \A x \in Nat :
             /\ [ord EXCEPT !.qty = x] \in OrderRow
             /\ [ord EXCEPT !.qty = x].status = ord.status
             /\ [ord EXCEPT !.qty = x].request = ord.request
BY DEF OrderRow

LEMMA ShipmentFields ==
    \A ship \in ShipmentRow :
       /\ \A x \in ShipmentStatuses :
             /\ [ship EXCEPT !.status = x] \in ShipmentRow
             /\ [ship EXCEPT !.status = x].status = x
             /\ [ship EXCEPT !.status = x].qty = ship.qty
             /\ Shipped(ship, x) \in ShipmentRow
             /\ Shipped(ship, x).status = x
             /\ Shipped(ship, x).qty = ship.qty
       /\ \A x \in Nat :
             /\ [ship EXCEPT !.qty = x] \in ShipmentRow
             /\ [ship EXCEPT !.qty = x].status = ship.status
BY DEF ShipmentRow, Shipped

\* A document that is there, as the actions below find it.
LEMMA Documents ==
    ASSUME Inv, NEW o \in Orders
    PROVE  /\ order[o] \in OrderRow /\ shipment[o] \in ShipmentRow
           /\ BooksOK(order[o], shipment[o], ledger[o]) /\ Blank(o)
           /\ shipment[o].status = "none" =>
                 /\ shipment[o] = NoShipment /\ ledger[o].shipment.out = 0
           /\ order[o].status = "none" =>
                 /\ ledger[o].order.out = 0 /\ ledger[o].shipment.out = 0
                 /\ shipment[o] = NoShipment
           /\ ledger[o].order.out \in Nat /\ ledger[o].shipment.out \in Nat
<1>1. /\ order[o] \in OrderRow /\ shipment[o] \in ShipmentRow
      /\ BooksOK(order[o], shipment[o], ledger[o]) /\ Blank(o)
      /\ ledger[o].order.out \in Nat /\ ledger[o].shipment.out \in Nat
  BY DEF Inv, TypeOK, RowsTyped, DocumentsOK, Entry
<1>2. shipment[o] = NoShipment => ledger[o].shipment.out = 0
  BY <1>1 DEF BooksOK, NoShipment
<1> QED BY <1>1, <1>2 DEF Blank, NoEntry

LEMMA ClerkTasks ==
    ASSUME Inv, NEW c \in Clerks, clerk[c].op # "idle"
    PROVE  /\ clerk[c].order \in Orders /\ order[clerk[c].order].status # "none"
           /\ clerk[c].op = "mark" =>
                 clerk[c].to \in {"pending", "shipped", "delivered", "received", "cancelled"}
           /\ clerk[c].op = "status" =>
                 clerk[c].to \in {"confirmed", "shipped", "completed", "cancelled"}
           /\ clerk[c].op = "edit" => clerk[c].qty \in Nat
<1>1. clerk[c] \in Task /\ TaskOK(c)
  BY DEF Inv, TypeOK
<1>2. /\ clerk[c].order \in Orders
      /\ clerk[c].op = "mark" =>
            clerk[c].to \in {"pending", "shipped", "delivered", "received", "cancelled"}
      /\ clerk[c].op = "status" =>
            clerk[c].to \in {"confirmed", "shipped", "completed", "cancelled"}
      /\ clerk[c].op = "edit" => clerk[c].qty \in Qtys
  BY <1>1 DEF Task
<1> QED BY <1>1, <1>2, FulfillmentConstants DEF TaskOK

\* A write that only cancels a shipment.
LEMMA ShipmentCancelled ==
    ASSUME Inv, NEW o \in Orders, order[o].status # "none", ClerksRest,
           arrived' \in [Orders -> Nat], UNCHANGED <<request, desk>>,
           Commits(o, order[o], [shipment[o] EXCEPT !.status = "cancelled"])
    PROVE  Inv'
<1>1. order[o] \in OrderRow /\ shipment[o] \in ShipmentRow
  BY Documents
<1>2. /\ [shipment[o] EXCEPT !.status = "cancelled"] \in ShipmentRow
      /\ [shipment[o] EXCEPT !.status = "cancelled"].status = "cancelled"
      /\ [shipment[o] EXCEPT !.status = "cancelled"].qty = shipment[o].qty
  BY <1>1, ShipmentFields DEF ShipmentStatuses
<1>3. KeepsLines(o, order[o], [shipment[o] EXCEPT !.status = "cancelled"])
  BY <1>2 DEF KeepsLines
<1> QED BY <1>1, <1>2, <1>3, WriteStep

-----------------------------------------------------------------------------
(* The writes of clerks.                                                   *)

LEMMA MarkWriteStep ==
    ASSUME Inv, NEW c \in Clerks, MarkWrite(c), UNCHANGED <<request, desk>>
    PROVE  Inv'
<1>1. PICK o \in Orders, to \in {"pending", "shipped", "delivered", "received", "cancelled"} :
         o = clerk[c].order /\ to = clerk[c].to /\ order[o].status # "none"
  BY ClerkTasks DEF MarkWrite
<1>2. /\ Commits(o, [order[o] EXCEPT !.status = OrderFor(to)], Shipped(shipment[o], to))
      /\ Done(c) /\ arrived' = arrived
  BY <1>1 DEF MarkWrite, Writes
<1>3. OrderFor(to) \in OrderStatuses \ {"none"} /\ to \in ShipmentStatuses \ {"none"}
  BY DEF OrderFor, OrderStatuses, ShipmentStatuses
<1>4. order[o] \in OrderRow /\ shipment[o] \in ShipmentRow
  BY Documents
<1>5. /\ [order[o] EXCEPT !.status = OrderFor(to)] \in OrderRow
      /\ [order[o] EXCEPT !.status = OrderFor(to)].status # "none"
      /\ [order[o] EXCEPT !.status = OrderFor(to)].qty = order[o].qty
      /\ [order[o] EXCEPT !.status = OrderFor(to)].request = order[o].request
  BY <1>3, <1>4, OrderFields
<1>6. /\ Shipped(shipment[o], to) \in ShipmentRow
      /\ Shipped(shipment[o], to).status # "none"
      /\ Shipped(shipment[o], to).qty = shipment[o].qty
  BY <1>3, <1>4, ShipmentFields
<1>7. KeepsLines(o, [order[o] EXCEPT !.status = OrderFor(to)], Shipped(shipment[o], to))
  BY <1>5, <1>6 DEF KeepsLines
<1>8. ClerksRest /\ arrived' \in [Orders -> Nat]
  BY <1>2 DEF ClerksRest, Inv, TypeOK
<1> QED BY <1>2, <1>5, <1>6, <1>7, <1>8, WriteStep

LEMMA StatusWriteStep ==
    ASSUME Inv, NEW c \in Clerks, StatusWrite(c), UNCHANGED <<request, desk>>
    PROVE  Inv'
<1>1. PICK o \in Orders, to \in {"confirmed", "shipped", "completed", "cancelled"} :
         o = clerk[c].order /\ to = clerk[c].to /\ order[o].status # "none"
  BY ClerkTasks DEF StatusWrite
<1>2. PICK ship : ship = IF HasShipment(o) /\ order[o].kind # "restock"
                         THEN Shipped(shipment[o], ShipmentFor(to)) ELSE shipment[o]
  OBVIOUS
<1>3. /\ Commits(o, [order[o] EXCEPT !.status = to], ship)
      /\ Done(c) /\ arrived' = arrived
  BY <1>1, <1>2 DEF StatusWrite, Writes
<1>4. to \in OrderStatuses \ {"none"} /\ ShipmentFor(to) \in ShipmentStatuses \ {"none"}
  BY DEF ShipmentFor, OrderStatuses, ShipmentStatuses
<1>5. /\ order[o] \in OrderRow /\ shipment[o] \in ShipmentRow
      /\ shipment[o].status = "none" => shipment[o] = NoShipment
  BY Documents
<1>6. /\ [order[o] EXCEPT !.status = to] \in OrderRow
      /\ [order[o] EXCEPT !.status = to].status # "none"
      /\ [order[o] EXCEPT !.status = to].qty = order[o].qty
      /\ [order[o] EXCEPT !.status = to].request = order[o].request
  BY <1>4, <1>5, OrderFields
<1>7. /\ Shipped(shipment[o], ShipmentFor(to)) \in ShipmentRow
      /\ Shipped(shipment[o], ShipmentFor(to)).status # "none"
      /\ Shipped(shipment[o], ShipmentFor(to)).qty = shipment[o].qty
  BY <1>4, <1>5, ShipmentFields
<1>8. /\ ship \in ShipmentRow /\ ship.qty = shipment[o].qty
      /\ ship.status = "none" => ship = NoShipment /\ shipment[o] = NoShipment
  BY <1>2, <1>5, <1>7
<1>9. KeepsLines(o, [order[o] EXCEPT !.status = to], ship)
  BY <1>6, <1>8 DEF KeepsLines
<1>10. ClerksRest /\ arrived' \in [Orders -> Nat]
  BY <1>3 DEF ClerksRest, Inv, TypeOK
<1> QED BY <1>3, <1>6, <1>8, <1>9, <1>10, WriteStep

LEMMA EditWriteStep ==
    ASSUME Inv, NEW c \in Clerks, EditWrite(c), UNCHANGED <<request, desk>>
    PROVE  Inv'
<1>1. PICK o \in Orders, q \in Nat :
         o = clerk[c].order /\ q = clerk[c].qty /\ order[o].status # "none"
  BY ClerkTasks DEF EditWrite
<1>2. PICK ship : ship = IF shipment[o].status = "none" THEN NoShipment
                         ELSE [shipment[o] EXCEPT !.qty = q]
  OBVIOUS
<1>3. /\ Commits(o, [order[o] EXCEPT !.qty = q], ship)
      /\ ledger[o].order.out = 0 /\ ledger[o].shipment.out = 0
      /\ Done(c) /\ arrived' = arrived
  BY <1>1, <1>2 DEF EditWrite, Writes
<1>4. /\ order[o] \in OrderRow /\ shipment[o] \in ShipmentRow
      /\ shipment[o].status = "none" => shipment[o] = NoShipment
  BY Documents
<1>5. /\ [order[o] EXCEPT !.qty = q] \in OrderRow
      /\ [order[o] EXCEPT !.qty = q].status # "none"
      /\ [order[o] EXCEPT !.qty = q].request = order[o].request
  BY <1>1, <1>4, OrderFields
<1>6. /\ [shipment[o] EXCEPT !.qty = q] \in ShipmentRow
      /\ [shipment[o] EXCEPT !.qty = q].status = shipment[o].status
  BY <1>4, ShipmentFields
<1>7. /\ ship \in ShipmentRow
      /\ ship.status = "none" => ship = NoShipment /\ shipment[o] = NoShipment
  BY <1>2, <1>4, <1>6, NullRows
<1>8. KeepsLines(o, [order[o] EXCEPT !.qty = q], ship)
  BY <1>3 DEF KeepsLines
<1>9. ClerksRest /\ arrived' \in [Orders -> Nat]
  BY <1>3 DEF ClerksRest, Inv, TypeOK
<1> QED BY <1>3, <1>5, <1>7, <1>8, <1>9, WriteStep

LEMMA ConsolidateWriteStep ==
    ASSUME Inv, NEW c \in Clerks, ConsolidateWrite(c), UNCHANGED <<request, desk>>
    PROVE  Inv'
<1>1. PICK o \in Orders : o = clerk[c].order /\ order[o].status # "none"
  BY ClerkTasks DEF ConsolidateWrite
<1>2. /\ Commits(o, order[o], [shipment[o] EXCEPT !.status = "cancelled"])
      /\ Done(c) /\ arrived' = arrived
  BY <1>1 DEF ConsolidateWrite, Writes
<1>3. ClerksRest /\ arrived' \in [Orders -> Nat]
  BY <1>2 DEF ClerksRest, Inv, TypeOK
<1> QED BY <1>1, <1>2, <1>3, ShipmentCancelled

\* The rows a document starts with.
LEMMA NewRows ==
    /\ \A q \in Nat :
          /\ [NoShipment EXCEPT !.status = "pending", !.qty = q] \in ShipmentRow
          /\ [NoShipment EXCEPT !.status = "pending", !.qty = q].status = "pending"
    /\ \A kind \in Kinds, q \in Nat, r \in Requests \cup {None} :
          /\ [NoOrder EXCEPT !.kind = kind, !.status = "confirmed", !.qty = q,
                             !.request = r] \in OrderRow
          /\ [NoOrder EXCEPT !.kind = kind, !.status = "confirmed", !.qty = q,
                             !.request = r].status = "confirmed"
          /\ [NoOrder EXCEPT !.kind = kind, !.status = "confirmed", !.qty = q,
                             !.request = r].request = r
    /\ \A kind \in Kinds, q \in Nat :
          /\ [NoOrder EXCEPT !.kind = kind, !.status = "review", !.qty = q] \in OrderRow
          /\ [NoOrder EXCEPT !.kind = kind, !.status = "review", !.qty = q].status = "review"
          /\ [NoOrder EXCEPT !.kind = kind, !.status = "review", !.qty = q].request = None
BY DEF NoOrder, NoShipment, OrderRow, ShipmentRow, OrderStatuses, ShipmentStatuses

-----------------------------------------------------------------------------
(* The writes that no clerk has prepared.                                  *)

LEMMA RefundStep ==
    ASSUME Inv, NEW o \in Orders, NEW yes \in BOOLEAN, SetRefunded(o, yes),
           UNCHANGED <<request, desk>>
    PROVE  Inv'
<1>1. order[o] \in OrderRow /\ shipment[o] \in ShipmentRow
      /\ (shipment[o].status = "none" => shipment[o] = NoShipment)
  BY Documents
<1>2. /\ order[o].status # "none"
      /\ Commits(o, [order[o] EXCEPT !.refunded = yes], shipment[o])
      /\ arrived' = arrived /\ clerk' = clerk
  BY DEF SetRefunded
<1>3. /\ [order[o] EXCEPT !.refunded = yes] \in OrderRow
      /\ [order[o] EXCEPT !.refunded = yes].status = order[o].status
      /\ [order[o] EXCEPT !.refunded = yes].qty = order[o].qty
      /\ [order[o] EXCEPT !.refunded = yes].request = order[o].request
  BY <1>1, OrderFields
<1>4. KeepsLines(o, [order[o] EXCEPT !.refunded = yes], shipment[o])
  BY <1>3 DEF KeepsLines
<1>5. ClerksRest /\ arrived' \in [Orders -> Nat]
  BY <1>2 DEF ClerksRest, Inv, TypeOK
<1> QED BY <1>1, <1>2, <1>3, <1>4, <1>5, WriteStep

LEMMA ApproveStep ==
    ASSUME Inv, NEW o \in Orders, Approve(o), UNCHANGED <<request, desk>>
    PROVE  Inv'
<1>1. /\ order[o] \in OrderRow /\ shipment[o] \in ShipmentRow
      /\ ledger[o].shipment.out = 0
  BY Documents DEF Approve
<1>2. PICK ord \in OrderRow :
         /\ ord = [order[o] EXCEPT !.status = "confirmed"] /\ ord.status # "none"
         /\ ord.qty = order[o].qty /\ ord.request = order[o].request
  <2>1. /\ [order[o] EXCEPT !.status = "confirmed"] \in OrderRow
        /\ [order[o] EXCEPT !.status = "confirmed"].status = "confirmed"
        /\ [order[o] EXCEPT !.status = "confirmed"].qty = order[o].qty
        /\ [order[o] EXCEPT !.status = "confirmed"].request = order[o].request
    BY <1>1, OrderFields DEF OrderStatuses
  <2> QED BY <2>1
<1>3. PICK ship \in ShipmentRow :
         /\ ship = [NoShipment EXCEPT !.status = "pending", !.qty = order[o].qty]
         /\ ship.status # "none"
  <2>1. order[o].qty \in Nat
    BY <1>1 DEF OrderRow
  <2>2. /\ [NoShipment EXCEPT !.status = "pending", !.qty = order[o].qty] \in ShipmentRow
        /\ [NoShipment EXCEPT !.status = "pending", !.qty = order[o].qty].status = "pending"
    BY <2>1, NewRows
  <2> QED BY <2>2
<1>4. Commits(o, ord, ship) /\ arrived' = arrived /\ clerk' = clerk
  BY <1>2, <1>3 DEF Approve
<1>5. KeepsLines(o, ord, ship)
  BY <1>1, <1>2 DEF KeepsLines
<1>6. ClerksRest /\ arrived' \in [Orders -> Nat]
  BY <1>4 DEF ClerksRest, Inv, TypeOK
<1> QED BY <1>2, <1>3, <1>4, <1>5, <1>6, WriteStep

\* The shop receives what is at the door, or HQ closes it.
LEMMA DoorStep ==
    ASSUME Inv, NEW o \in Orders, Receive(o) \/ CloseCounted(o),
           UNCHANGED <<request, desk>>
    PROVE  Inv'
<1>1. order[o] \in OrderRow /\ shipment[o] \in ShipmentRow
      /\ (order[o].status = "none" => shipment[o].status = "none")
  BY Documents DEF NoShipment
<1>2. /\ Commits(o, order[o], [shipment[o] EXCEPT !.status = "received"])
      /\ order[o].status # "none"
      /\ clerk' = clerk
  BY <1>1 DEF Receive, CloseCounted, AtTheDoor
<1>3. arrived' \in [Orders -> Nat]
  BY <1>1 DEF Receive, CloseCounted, Receipt, Inv, TypeOK, ShipmentRow
<1>4. /\ [shipment[o] EXCEPT !.status = "received"] \in ShipmentRow
      /\ [shipment[o] EXCEPT !.status = "received"].status = "received"
      /\ [shipment[o] EXCEPT !.status = "received"].qty = shipment[o].qty
  BY <1>1, ShipmentFields DEF ShipmentStatuses
<1>5. KeepsLines(o, order[o], [shipment[o] EXCEPT !.status = "received"])
  BY <1>4 DEF KeepsLines
<1> QED BY <1>1, <1>2, <1>3, <1>4, <1>5, WriteStep DEF ClerksRest

LEMMA StrayStep ==
    ASSUME Inv, NEW o \in Orders, CancelStray(o), UNCHANGED <<request, desk>>
    PROVE  Inv'
<1>1. /\ order[o].status # "none"
      /\ Commits(o, order[o], [shipment[o] EXCEPT !.status = "cancelled"])
      /\ ClerksRest /\ arrived' \in [Orders -> Nat]
  BY DEF CancelStray, ClerksRest, Inv, TypeOK
<1> QED BY <1>1, ShipmentCancelled

-----------------------------------------------------------------------------
(* New orders.                                                             *)

\* The first write of a row; `r` is None or the request it is made of.
LEMMA FirstCommit ==
    ASSUME Inv, NEW o \in Orders, order[o].status = "none"
    PROVE  \A ord \in OrderRow, ship \in ShipmentRow :
              /\ Commits(o, ord, ship) /\ ord.status # "none"
              /\ ship.status = "none" => ship = NoShipment
              => /\ RowsTyped' /\ DocumentsOK' /\ Stays
                 /\ order'[o].request = ord.request
                 /\ \A p \in Orders \ {o} : order'[p] = order[p]
<1>1. RowsTyped /\ DocumentsOK
  BY DEF Inv, TypeOK
<1>2. \A ord, ship : KeepsLines(o, ord, ship)
  BY Documents DEF KeepsLines
<1>3. shipment[o] = NoShipment
  BY Documents
<1> QED BY <1>1, <1>2, <1>3, CommitStep

LEMMA NewOrderRows ==
    ASSUME Inv, NEW o \in Orders, NEW kind, NEW q \in Nat,
           NEW r \in Requests \cup {None}, NewOrder(o, kind, q, r)
    PROVE  /\ RowsTyped' /\ DocumentsOK' /\ Stays
           /\ order'[o].request = r
           /\ \A p \in Orders \ {o} : order'[p] = order[p]
           /\ order[o].request = None /\ arrived' = arrived
<1>1. PICK ord \in OrderRow :
         /\ ord = [NoOrder EXCEPT !.kind = kind, !.status = "confirmed", !.qty = q,
                                   !.request = r]
         /\ ord.status # "none" /\ ord.request = r
  <2>1. kind \in Kinds
    BY DEF NewOrder
  <2>2. /\ [NoOrder EXCEPT !.kind = kind, !.status = "confirmed", !.qty = q,
                           !.request = r] \in OrderRow
        /\ [NoOrder EXCEPT !.kind = kind, !.status = "confirmed", !.qty = q,
                           !.request = r].status = "confirmed"
        /\ [NoOrder EXCEPT !.kind = kind, !.status = "confirmed", !.qty = q,
                           !.request = r].request = r
    BY <2>1 DEF NoOrder, OrderRow, OrderStatuses
  <2> QED BY <2>2
<1>2. PICK ship \in ShipmentRow :
         /\ ship = [NoShipment EXCEPT !.status = "pending", !.qty = q]
         /\ ship.status # "none"
  <2>1. /\ [NoShipment EXCEPT !.status = "pending", !.qty = q] \in ShipmentRow
        /\ [NoShipment EXCEPT !.status = "pending", !.qty = q].status = "pending"
    BY NewRows
  <2> QED BY <2>1
<1>3. Commits(o, ord, ship) /\ order[o].status = "none" /\ arrived' = arrived
  BY <1>1, <1>2 DEF NewOrder
<1>4. order[o].request = None
  BY <1>3, Documents DEF Blank, NoOrder
<1> QED BY <1>1, <1>2, <1>3, <1>4, FirstCommit

LEMMA CreateOrderStep ==
    ASSUME Inv, NEW o \in Orders, NEW kind, NEW q \in Qtys, CreateOrder(o, kind, q),
           UNCHANGED <<request, desk>>
    PROVE  Inv'
<1>1. /\ RowsTyped' /\ DocumentsOK' /\ Stays
      /\ order'[o].request = None
      /\ \A p \in Orders \ {o} : order'[p] = order[p]
      /\ order[o].request = None /\ arrived' = arrived
  BY NewOrderRows, FulfillmentConstants DEF CreateOrder
<1>2. ClerksRest /\ arrived' \in [Orders -> Nat]
  BY <1>1 DEF CreateOrder, ClerksRest, Inv, TypeOK
<1>3. \A p \in Orders : order'[p].request = order[p].request
  BY <1>1
<1> QED BY <1>1, <1>2, <1>3, RestStays

LEMMA ImportStep ==
    ASSUME Inv, NEW o \in Orders, NEW q \in Qtys, Import(o, q),
           UNCHANGED <<request, desk>>
    PROVE  Inv'
<1>1. PICK ord \in OrderRow :
         /\ ord = [NoOrder EXCEPT !.kind = "import", !.status = "review", !.qty = q]
         /\ ord.status # "none" /\ ord.request = None
  <2>1. "import" \in Kinds /\ q \in Nat
    BY FulfillmentConstants DEF Import
  <2>2. /\ [NoOrder EXCEPT !.kind = "import", !.status = "review", !.qty = q] \in OrderRow
        /\ [NoOrder EXCEPT !.kind = "import", !.status = "review", !.qty = q].status = "review"
        /\ [NoOrder EXCEPT !.kind = "import", !.status = "review", !.qty = q].request = None
    BY <2>1, NewRows
  <2> QED BY <2>2
<1>2. Commits(o, ord, NoShipment) /\ order[o].status = "none" /\ clerk' = clerk
      /\ arrived' = arrived
  BY <1>1 DEF Import
<1>3. order[o].request = None
  BY <1>2, Documents DEF Blank, NoOrder
<1>4. /\ RowsTyped' /\ DocumentsOK' /\ Stays
      /\ order'[o].request = None
      /\ \A p \in Orders \ {o} : order'[p] = order[p]
  BY <1>1, <1>2, NullRows, FirstCommit
<1>5. \A p \in Orders : order'[p].request = order[p].request
  BY <1>3, <1>4
<1>6. ClerksRest /\ arrived' \in [Orders -> Nat]
  BY <1>2 DEF ClerksRest, Inv, TypeOK
<1> QED BY <1>4, <1>5, <1>6, RestStays

-----------------------------------------------------------------------------
(* Reads.                                                                  *)

LEMMA ReadSteps ==
    ASSUME Inv, NEW c \in Clerks, UNCHANGED <<request, desk>>,
           \/ GiveUp(c)
           \/ \E o \in Orders :
                 \/ \E to \in Gone \cup {"pending", "cancelled"} : MarkRead(c, o, to)
                 \/ \E to \in {"confirmed", "shipped", "completed", "cancelled"} :
                       StatusRead(c, o, to)
                 \/ \E q \in Qtys : EditRead(c, o, q)
                 \/ ConsolidateRead(c, o)
    PROVE  Inv'
<1>1. CASE GiveUp(c)
  <2>1. clerk' = [clerk EXCEPT ![c] = Idle] /\ UNCHANGED <<Rows, arrived>>
    BY <1>1 DEF GiveUp, Done
  <2> QED BY <2>1, NullRows, ReadStep DEF Idle
<1>2. ASSUME NEW o \in Orders, NEW to \in Gone \cup {"pending", "cancelled"},
             MarkRead(c, o, to)
      PROVE  Inv'
  <2>1. PICK target : target = Target(order[o].kind, to)
    OBVIOUS
  <2>2. /\ target \in Transitions(shipment[o].status)
        /\ clerk' = [clerk EXCEPT ![c] = [op |-> "mark", order |-> o, to |-> target]]
        /\ UNCHANGED <<Rows, arrived>>
    BY <1>2, <2>1 DEF MarkRead, Read
  <2>3. /\ target \in {"pending", "shipped", "delivered", "received", "cancelled"}
        /\ shipment[o].status # "none"
    BY <2>2 DEF Transitions
  <2>4. order[o].status # "none"
    BY <2>3, Documents DEF NoShipment
  <2>5. PICK what \in Task : what = [op |-> "mark", order |-> o, to |-> target]
    BY <2>3 DEF Task
  <2> QED BY <2>2, <2>4, <2>5, ReadStep
<1>3. ASSUME NEW o \in Orders,
             NEW to \in {"confirmed", "shipped", "completed", "cancelled"},
             StatusRead(c, o, to)
      PROVE  Inv'
  <2>1. /\ order[o].status # "none"
        /\ clerk' = [clerk EXCEPT ![c] = [op |-> "status", order |-> o, to |-> to]]
        /\ UNCHANGED <<Rows, arrived>>
    BY <1>3 DEF StatusRead, Read
  <2>2. PICK what \in Task : what = [op |-> "status", order |-> o, to |-> to]
    BY DEF Task
  <2> QED BY <2>1, <2>2, ReadStep
<1>4. ASSUME NEW o \in Orders, NEW q \in Qtys, EditRead(c, o, q)
      PROVE  Inv'
  <2>1. /\ order[o].status # "none"
        /\ clerk' = [clerk EXCEPT ![c] = [op |-> "edit", order |-> o, qty |-> q]]
        /\ UNCHANGED <<Rows, arrived>>
    BY <1>4 DEF EditRead, Editable, Read
  <2>2. PICK what \in Task : what = [op |-> "edit", order |-> o, qty |-> q]
    BY DEF Task
  <2> QED BY <2>1, <2>2, ReadStep
<1>5. ASSUME NEW o \in Orders, ConsolidateRead(c, o)
      PROVE  Inv'
  <2>1. /\ shipment[o].status = "pending"
        /\ clerk' = [clerk EXCEPT ![c] = [op |-> "consolidate", order |-> o]]
        /\ UNCHANGED <<Rows, arrived>>
    BY <1>5 DEF ConsolidateRead, Read
  <2>2. order[o].status # "none"
    BY <2>1, Documents DEF NoShipment
  <2>3. PICK what \in Task : what = [op |-> "consolidate", order |-> o]
    BY DEF Task
  <2> QED BY <2>1, <2>2, <2>3, ReadStep
<1> QED BY <1>1, <1>2, <1>3, <1>4, <1>5

-----------------------------------------------------------------------------
(* The requests of the shop.                                               *)

\* A step that writes no document and gives no request another order.
LEMMA DeskStep ==
    ASSUME Inv, UNCHANGED fulfillmentVars,
           request' \in [Requests -> RequestRow], desk' \in [Requests -> DeskTask],
           \A r \in Requests :
              /\ request'[r].order = request[r].order
              /\ request'[r].status = "none" => request[r].status = "none"
    PROVE  Inv'
<1>1. RowsTyped' /\ DocumentsOK'
  BY DEF Inv, TypeOK, RowsTyped, DocumentsOK, Blank, fulfillmentVars
<1>2. TypeOK'
  BY <1>1 DEF Inv, TypeOK, fulfillmentVars
<1>3. \A c \in Clerks : TaskOK(c)'
  BY DEF Inv, TaskOK, fulfillmentVars
<1>4. ConvertedOnce' /\ NothingBefore'
  BY DEF Inv, NothingBefore, ConvertedOnce, fulfillmentVars
<1> QED BY <1>1, <1>2, <1>3, <1>4 DEF Inv

LEMMA RequestSteps ==
    ASSUME Inv, NEW r \in Requests,
           \/ \E q \in Qtys : Submit(r, q) \/ DeskRead(r, [op |-> "edit", qty |-> q])
           \/ DeskRead(r, [op |-> "reject"]) \/ DeskWrite(r)
    PROVE  Inv'
<1>1. request \in [Requests -> RequestRow] /\ desk \in [Requests -> DeskTask]
  BY DEF Inv, TypeOK
<1>2. ASSUME NEW q \in Qtys, Submit(r, q)
      PROVE  Inv'
  <2>1. /\ request' = [request EXCEPT ![r] = [NoRequest EXCEPT !.status = "submitted",
                                                              !.qty = q]]
        /\ UNCHANGED <<fulfillmentVars, desk>> /\ request[r].status = "none"
    BY <1>2 DEF Submit, Put
  <2>2. request[r].order = None
    BY <2>1, <1>2 DEF Inv, NothingBefore
  <2> QED BY <1>1, <2>1, <2>2, FulfillmentConstants, DeskStep DEF NoRequest, RequestRow
<1>3. ASSUME NEW q \in Qtys, DeskRead(r, [op |-> "edit", qty |-> q])
      PROVE  Inv'
  BY <1>1, <1>3, DeskStep DEF DeskRead, DeskTask
<1>4. ASSUME DeskRead(r, [op |-> "reject"])
      PROVE  Inv'
  BY <1>1, <1>4, DeskStep DEF DeskRead, DeskTask
<1>5. ASSUME DeskWrite(r)
      PROVE  Inv'
  <2>1. desk' \in [Requests -> DeskTask] /\ UNCHANGED fulfillmentVars
    BY <1>1, <1>5 DEF DeskWrite, Idle, DeskTask
  <2>2. desk[r].op = "edit" => desk[r].qty \in Nat
    BY <1>1, FulfillmentConstants DEF DeskTask
  <2>3. /\ request' \in [Requests -> RequestRow]
        /\ \A s \in Requests :
              /\ request'[s].order = request[s].order
              /\ request'[s].status = "none" => request[s].status = "none"
    <3>1. request[r] \in RequestRow
      BY <1>1
    <3>2. CASE desk[r].op = "edit" /\ Put(r, [request[r] EXCEPT !.status = "under_review",
                                                              !.qty = desk[r].qty])
      BY <1>1, <2>2, <3>1, <3>2 DEF Put, RequestRow
    <3>3. CASE desk[r].op = "reject" /\ Put(r, [request[r] EXCEPT !.status = "rejected"])
      BY <1>1, <3>1, <3>3 DEF Put, RequestRow
    <3>4. CASE request' = request
      BY <1>1, <3>4
    <3> QED BY <1>5, <3>2, <3>3, <3>4 DEF DeskWrite
  <2> QED BY <2>1, <2>3, DeskStep
<1> QED BY <1>2, <1>3, <1>4, <1>5

LEMMA ConvertStep ==
    ASSUME Inv, NEW r \in Requests, NEW o \in Orders, Convert(r, o)
    PROVE  Inv'
<1>1. request \in [Requests -> RequestRow]
  BY DEF Inv, TypeOK
<1>2. PICK q \in Nat : q = request[r].qty
  BY <1>1 DEF RequestRow
<1>3. /\ RowsTyped' /\ DocumentsOK' /\ Stays
      /\ order'[o].request = r
      /\ \A p \in Orders \ {o} : order'[p] = order[p]
      /\ order[o].request = None /\ arrived' = arrived
  BY <1>2, NewOrderRows DEF Convert
<1>4. request' = [request EXCEPT ![r] = [request[r] EXCEPT !.status = "converted",
                                                          !.order = o]]
      /\ UNCHANGED <<clerk, desk>>
  BY DEF Convert, Put
<1>5. request' \in [Requests -> RequestRow]
  BY <1>1, <1>4 DEF RequestRow
<1>6. /\ request'[r].order = o /\ request'[r].status = "converted"
      /\ \A s \in Requests \ {r} : request'[s] = request[s]
  BY <1>1, <1>4 DEF RequestRow
<1>7. TypeOK'
  BY <1>3, <1>4, <1>5 DEF Inv, TypeOK
<1>8. \A c \in Clerks : TaskOK(c)'
  BY <1>3, <1>4, ClerkTasks DEF Inv, TaskOK, Stays
<1>9. NothingBefore'
  BY <1>6 DEF Inv, NothingBefore
<1>10. ConvertedOnce'
  <2> SUFFICES ASSUME NEW s \in Requests, NEW p \in Orders, order'[p].request = s
               PROVE  request'[s].order = p
    BY DEF ConvertedOnce
  <2>1. CASE p = o
    BY <1>3, <1>6, <2>1
  <2>2. CASE p # o
    <3>1. request[s].order = p
      BY <1>3, <2>2 DEF Inv, ConvertedOnce
    <3>2. s # r
      BY <3>1, FulfillmentConstants DEF Convert, Claimable
    <3> QED BY <1>6, <3>1, <3>2
  <2> QED BY <2>1, <2>2
<1> QED BY <1>3, <1>7, <1>8, <1>9, <1>10 DEF Inv

-----------------------------------------------------------------------------
(* The theorems.                                                           *)

LEMMA NextInv == Inv /\ [SupplyNext]_supplyVars => Inv'
<1> SUFFICES ASSUME Inv, [SupplyNext]_supplyVars
             PROVE  Inv'
  OBVIOUS
<1>1. CASE RequestNext
  BY <1>1, RequestSteps, ConvertStep DEF RequestNext
<1>2. CASE FulfillmentNext /\ UNCHANGED <<request, desk>>
  <2>1. CASE CountShelf
    BY <1>2, <2>1, CountStep
  <2>2. ASSUME NEW o \in Orders,
               \/ \E q \in Qtys : Import(o, q) \/ \E k \in Kinds : CreateOrder(o, k, q)
               \/ Approve(o) \/ CancelStray(o) \/ Receive(o) \/ CloseCounted(o)
               \/ \E yes \in BOOLEAN : SetRefunded(o, yes)
        PROVE  Inv'
    BY <1>2, <2>2, ImportStep, CreateOrderStep, ApproveStep, StrayStep, DoorStep, RefundStep
  <2>3. ASSUME NEW c \in Clerks,
               \/ MarkWrite(c) \/ StatusWrite(c) \/ EditWrite(c) \/ ConsolidateWrite(c)
        PROVE  Inv'
    BY <1>2, <2>3, MarkWriteStep, StatusWriteStep, EditWriteStep, ConsolidateWriteStep
  <2> QED BY <1>2, <2>1, <2>2, <2>3, ReadSteps DEF FulfillmentNext
<1>3. CASE UNCHANGED supplyVars
  <2>1. UNCHANGED fulfillmentVars /\ request' = request /\ desk' = desk
    BY <1>3 DEF supplyVars
  <2> QED BY <2>1, DeskStep DEF Inv, TypeOK
<1> QED BY <1>1, <1>2, <1>3 DEF SupplyNext

\* BooksFollowDocuments, for every number of orders, clerks and requests: whatever
\* pages the clerks have open, a document is booked out of the head office once
\* and booked back once, and one that fell keeps nothing booked out.
THEOREM BooksAlwaysFollow == Spec => []BooksFollowDocuments
<1>1. Spec => []Inv
  BY InitInv, NextInv, PTL DEF Spec
<1> QED BY <1>1, InvImpliesBooks, PTL

\* ConvertedOnce: no interleaving of approvals, edits and rejections makes two
\* orders of a restock request, since the conversion takes the request in the
\* transaction that makes its order.
THEOREM RequestsConvertOnce == Spec => []ConvertedOnce
<1>1. Inv => ConvertedOnce
  BY DEF Inv
<1> QED BY <1>1, InitInv, NextInv, PTL DEF Spec

LEMMA OnlyReceiptsArrive ==
    [SupplyNext]_supplyVars => arrived' = arrived \/ \E o \in Orders : Receive(o)
<1> SUFFICES ASSUME SupplyNext, arrived' # arrived
             PROVE  \E o \in Orders : Receive(o)
  BY DEF supplyVars, fulfillmentVars
<1>1. FulfillmentNext
  BY DEF SupplyNext, RequestNext, Submit, DeskRead, DeskWrite, Convert, NewOrder,
         fulfillmentVars
<1> QED BY <1>1 DEF FulfillmentNext, CountShelf, Import, CreateOrder, NewOrder, Approve,
     CancelStray, CloseCounted, SetRefunded, MarkWrite, StatusWrite, EditWrite,
     ConsolidateWrite, GiveUp, MarkRead, StatusRead, EditRead, ConsolidateRead, Read,
     Writes

\* ArrivesOnce, as an action property: once the units of an order have reached the
\* shelf of the shop no step changes how many they were.
THEOREM ShelfFilledOnce == Spec => ArrivesOnce
<1>1. Inv /\ [SupplyNext]_supplyVars
        => [\A o \in Orders : arrived[o] > 0 => arrived'[o] = arrived[o]]_arrived
  <2> SUFFICES ASSUME Inv, [SupplyNext]_supplyVars, arrived' # arrived,
                      NEW o \in Orders, arrived[o] > 0
               PROVE  arrived'[o] = arrived[o]
    OBVIOUS
  <2>1. PICK p \in Orders : Receive(p)
    BY OnlyReceiptsArrive
  <2>2. arrived' = [arrived EXCEPT ![p] = @ + Receipt(p)]
    BY <2>1 DEF Receive
  <2>3. arrived \in [Orders -> Nat]
    BY DEF Inv, TypeOK
  <2>4. arrived[p] > 0 => arrived[p] + Receipt(p) = arrived[p]
    BY <2>3 DEF Receipt
  <2> QED BY <2>2, <2>3, <2>4
<1> QED BY <1>1, InitInv, NextInv, PTL DEF Spec, ArrivesOnce

-----------------------------------------------------------------------------
(* The boxes of a subscription.                                            *)

SubscriptionSpec == SubscriptionInit /\ [][SubscriptionNext]_subscriptionVars

BoxRow == [status : {"none", "pending", "shipped", "delivered", "received", "cancelled"},
           eligible : BOOLEAN]
BoxTargets == {"pending", "shipped", "received", "cancelled"}
Plan == [op : {"rest"}]
        \cup [op : {"row"}, day : Days, next : RowStatuses, boxed : BOOLEAN]
        \cup [op : {"box"}, day : Days, next : BoxTargets]

\* A box is made for a row that is there, which stays there.
Planned(d) == schedule[d] # "none"

BoxesInv ==
    /\ today \in Nat
    /\ schedule \in [Days -> RowStatuses \cup {"none"}]
    /\ box \in [Days -> BoxRow]
    /\ cron \in [Crons -> SUBSET Days]
    /\ planner \in [Planners -> Plan]
    /\ crossed \in SUBSET Days
    /\ \A c \in Crons : \A d \in cron[c] : Planned(d)
    /\ \A d \in Days : Boxed(d) => Planned(d)
    /\ BoxFollowsSchedule

LEMMA InitBoxes == SubscriptionInit => BoxesInv
BY DEF SubscriptionInit, BoxesInv, BoxRow, NoBox, Plan, AtRest, Boxed, BoxFollowsSchedule

\* Row and box agree when one is written with what it means for the other.
Agree(row, status) ==
    /\ row = "shipped" <=> status = "shipped"
    /\ row = "delivered" <=> status \in {"delivered", "received"}
    /\ row = "skipped" <=> status = "cancelled"

LEMMA RowsAgree ==
    /\ \A next \in RowStatuses : Agree(next, BoxFor(next))
    /\ \A next \in BoxTargets : RowFor(next) \in RowStatuses /\ Agree(RowFor(next), next)
BY DEF RowStatuses, BoxTargets, Agree, BoxFor, RowFor

LEMMA LeavesStep ==
    ASSUME BoxesInv, NEW d \in Days, NEW row \in RowStatuses,
           NEW status \in {"pending", "shipped", "delivered", "received", "cancelled"},
           Agree(row, status), Leaves(d, row, status),
           planner' \in [Planners -> Plan], UNCHANGED <<today, cron>>
    PROVE  BoxesInv'
<1>1. PICK new \in BoxRow : new = Marked(box[d], [box[d] EXCEPT !.status = status])
                          /\ new.status = status
  <2>1. box[d] \in BoxRow
    BY DEF BoxesInv
  <2>2. /\ Marked(box[d], [box[d] EXCEPT !.status = status]) \in BoxRow
        /\ Marked(box[d], [box[d] EXCEPT !.status = status]).status = status
    BY <2>1 DEF Marked, BoxRow
  <2> QED BY <2>2
<1>2. /\ schedule' = [schedule EXCEPT ![d] = row] /\ box' = [box EXCEPT ![d] = new]
      /\ crossed' = crossed \ {d}
  BY <1>1 DEF Leaves
<1>3. /\ schedule' \in [Days -> RowStatuses \cup {"none"}] /\ box' \in [Days -> BoxRow]
      /\ crossed' \in SUBSET Days
      /\ schedule'[d] = row /\ box'[d] = new
      /\ \A e \in Days \ {d} : schedule'[e] = schedule[e] /\ box'[e] = box[e]
  BY <1>1, <1>2 DEF BoxesInv
<1>4. \A e \in Days : Planned(e) => Planned(e)'
  BY <1>3 DEF Planned, RowStatuses
<1>5. \A e \in Days : Boxed(e)' => Planned(e)'
  BY <1>3 DEF BoxesInv, Planned, Boxed, RowStatuses
<1>6. BoxFollowsSchedule'
  <2> SUFFICES ASSUME NEW e \in Days, Boxed(e)', e \notin crossed'
               PROVE  Agree(schedule'[e], box'[e].status)
    BY DEF BoxFollowsSchedule, Agree
  <2>1. CASE e = d
    BY <1>1, <1>3, <2>1
  <2>2. CASE e # d
    BY <1>2, <1>3, <2>2 DEF BoxesInv, BoxFollowsSchedule, Boxed, Agree
  <2> QED BY <2>1, <2>2
<1>7. \A c \in Crons : \A e \in cron'[c] : Planned(e)'
  BY <1>4 DEF BoxesInv
<1> QED BY <1>3, <1>5, <1>6, <1>7 DEF BoxesInv

LEMMA SyncWriteStep ==
    ASSUME BoxesInv, NEW c \in Crons, SyncWrite(c)
    PROVE  BoxesInv'
<1>0. PICK made \in SUBSET Days : made = {d \in cron[c] : ~Boxed(d)}
  BY DEF BoxesInv
<1>1. /\ cron' = [cron EXCEPT ![c] = {}] /\ UNCHANGED <<today, schedule, planner>>
      /\ box' = [d \in Days |-> IF d \in made THEN [NoBox EXCEPT !.status = "pending"]
                                ELSE box[d]]
      /\ crossed' = crossed \cup {d \in made : schedule[d] # "pending"}
      /\ \A d \in made : Planned(d)
  BY <1>0 DEF SyncWrite, BoxesInv
<1>2. /\ cron' \in [Crons -> SUBSET Days] /\ crossed' \in SUBSET Days
      /\ \A b \in Crons : cron'[b] \in SUBSET cron[b]
  BY <1>1 DEF BoxesInv
<1>3. box' \in [Days -> BoxRow]
  <2>1. [NoBox EXCEPT !.status = "pending"] \in BoxRow
    BY DEF NoBox, BoxRow
  <2> QED BY <1>1, <2>1 DEF BoxesInv
<1>4. \A d \in Days : Boxed(d)' => Planned(d)'
  BY <1>1 DEF BoxesInv, Boxed, Planned
<1>5. BoxFollowsSchedule'
  <2> SUFFICES ASSUME NEW d \in Days, Boxed(d)', d \notin crossed'
               PROVE  Agree(schedule'[d], box'[d].status)
    BY DEF BoxFollowsSchedule, Agree
  <2>1. CASE d \in made
    <3>1. box'[d].status = "pending"
      BY <1>1, <2>1 DEF NoBox
    <3>2. schedule'[d] = "pending"
      BY <1>1, <2>1
    <3> QED BY <3>1, <3>2 DEF Agree
  <2>2. CASE d \notin made
    <3>1. box'[d] = box[d] /\ schedule'[d] = schedule[d] /\ d \notin crossed
      BY <1>1, <2>2
    <3> QED BY <3>1 DEF BoxesInv, BoxFollowsSchedule, Boxed, Agree
  <2> QED BY <2>1, <2>2
<1>6. \A b \in Crons : \A d \in cron'[b] : Planned(d)'
  BY <1>1, <1>2 DEF BoxesInv, Planned
<1> QED BY <1>1, <1>2, <1>3, <1>4, <1>5, <1>6 DEF BoxesInv

LEMMA RowWriteStep ==
    ASSUME BoxesInv, NEW p \in Planners, RowWrite(p)
    PROVE  BoxesInv'
<1>1. PICK d \in Days, next \in RowStatuses : d = planner[p].day /\ next = planner[p].next
  BY DEF RowWrite, BoxesInv, Plan
<1>2. planner' \in [Planners -> Plan] /\ UNCHANGED <<today, cron>>
  BY DEF RowWrite, Rests, BoxesInv, Plan, AtRest
<1>3. CASE planner[p].boxed
  <2>1. Leaves(d, next, BoxFor(next))
    BY <1>1, <1>3 DEF RowWrite
  <2>2. BoxFor(next) \in {"pending", "shipped", "delivered", "received", "cancelled"}
    BY DEF BoxFor, RowStatuses
  <2> QED BY <1>2, <2>1, <2>2, RowsAgree, LeavesStep
<1>4. CASE ~planner[p].boxed
  <2>1. /\ schedule' = [schedule EXCEPT ![d] = next] /\ UNCHANGED box
        /\ crossed' = IF Boxed(d) THEN crossed \cup {d} ELSE crossed
    BY <1>1, <1>4 DEF RowWrite
  <2>2. /\ schedule' \in [Days -> RowStatuses \cup {"none"}] /\ crossed' \in SUBSET Days
        /\ schedule'[d] = next
        /\ \A e \in Days \ {d} : schedule'[e] = schedule[e]
    BY <2>1 DEF BoxesInv
  <2>3. \A e \in Days : Planned(e) => Planned(e)'
    BY <2>2 DEF Planned, RowStatuses
  <2>4. BoxFollowsSchedule'
    BY <2>1, <2>2 DEF BoxesInv, BoxFollowsSchedule, Boxed
  <2> QED BY <1>2, <2>1, <2>2, <2>3, <2>4 DEF BoxesInv, Boxed
<1> QED BY <1>3, <1>4

LEMMA BoxWriteStep ==
    ASSUME BoxesInv, NEW p \in Planners, BoxWrite(p)
    PROVE  BoxesInv'
<1>1. PICK d \in Days, next \in BoxTargets : d = planner[p].day /\ next = planner[p].next
  BY DEF BoxWrite, BoxesInv, Plan
<1>2. planner' \in [Planners -> Plan] /\ UNCHANGED <<today, cron>>
  BY DEF BoxWrite, Rests, BoxesInv, Plan, AtRest
<1>3. Leaves(d, RowFor(next), next)
  BY <1>1 DEF BoxWrite
<1>4. next \in {"pending", "shipped", "delivered", "received", "cancelled"}
  BY DEF BoxTargets
<1>5. PICK row \in RowStatuses : row = RowFor(next) /\ Agree(row, next)
  BY RowsAgree
<1> QED BY <1>2, <1>3, <1>4, <1>5, LeavesStep

\* The steps that write neither a row that was there nor a box.
LEMMA QuietSteps ==
    ASSUME BoxesInv, today' \in Nat, cron' \in [Crons -> SUBSET Days],
           planner' \in [Planners -> Plan],
           \A c \in Crons : \A d \in cron'[c] : Planned(d),
           UNCHANGED <<schedule, box, crossed>>
    PROVE  BoxesInv'
BY DEF BoxesInv, Planned, Boxed, BoxFollowsSchedule

LEMMA NextBoxes == BoxesInv /\ [SubscriptionNext]_subscriptionVars => BoxesInv'
<1> SUFFICES ASSUME BoxesInv, [SubscriptionNext]_subscriptionVars
             PROVE  BoxesInv'
  OBVIOUS
<1>1. CASE Dawn
  BY <1>1, QuietSteps DEF Dawn, BoxesInv
<1>2. ASSUME NEW d \in Days, AddRow(d)
      PROVE  BoxesInv'
  <2>1. /\ schedule' \in [Days -> RowStatuses \cup {"none"}]
        /\ \A e \in Days : Planned(e) => Planned(e)'
        /\ ~Boxed(d) /\ \A e \in Days \ {d} : schedule'[e] = schedule[e]
    BY <1>2 DEF AddRow, BoxesInv, Planned, RowStatuses
  <2>2. BoxFollowsSchedule'
    BY <1>2, <2>1 DEF AddRow, BoxesInv, BoxFollowsSchedule, Boxed
  <2> QED BY <1>2, <2>1, <2>2 DEF AddRow, BoxesInv, Boxed
<1>3. ASSUME NEW c \in Crons, SyncRead(c) \/ SyncDies(c)
      PROVE  BoxesInv'
  <2>1. /\ cron' \in [Crons -> SUBSET Days]
        /\ \A b \in Crons : \A d \in cron'[b] : Planned(d)
    BY <1>3 DEF SyncRead, SyncDies, BoxesInv, Planned
  <2> QED BY <1>3, <2>1, QuietSteps DEF SyncRead, SyncDies, BoxesInv
<1>4. ASSUME NEW p \in Planners, PlannerEnds(p)
      PROVE  BoxesInv'
  BY <1>4, QuietSteps DEF PlannerEnds, Rests, BoxesInv, Plan, AtRest
<1>5. ASSUME NEW p \in Planners, NEW d \in Days, NEW next \in RowStatuses, RowRead(p, d, next)
      PROVE  BoxesInv'
  BY <1>5, QuietSteps DEF RowRead, Plans, BoxesInv, Plan, Boxed
<1>6. ASSUME NEW p \in Planners, NEW d \in Days, NEW next \in BoxTargets, BoxRead(p, d, next)
      PROVE  BoxesInv'
  BY <1>6, QuietSteps DEF BoxRead, Plans, BoxesInv, Plan
<1>7. CASE UNCHANGED subscriptionVars
  BY <1>7, QuietSteps DEF subscriptionVars, BoxesInv
<1> QED BY <1>1, <1>2, <1>3, <1>4, <1>5, <1>6, <1>7, SyncWriteStep, RowWriteStep,
           BoxWriteStep DEF SubscriptionNext, BoxTargets

\* BoxFollowsSchedule, for every number of months, crons and planners: the row of a
\* month and its box tell the same story, except for a row that changed while its
\* box was being made.
THEOREM BoxAlwaysFollows == SubscriptionSpec => []BoxFollowsSchedule
<1>1. BoxesInv => BoxFollowsSchedule
  BY DEF BoxesInv
<1> QED BY <1>1, InitBoxes, NextBoxes, PTL DEF SubscriptionSpec
=============================================================================
