----------------------------- MODULE ShopShelf ------------------------------
(***************************************************************************)
(* The shelf of a partner shop: merchant_stocks, one quantity for each     *)
(* size of a product, and merchant_stock_txns, the movements that explain  *)
(* it.  Counter sales and receipts are READ COMMITTED transactions made of *)
(* conditional or relative updates.  The back office sells, counts and     *)
(* undoes under SERIALIZABLE: it writes the absolute quantity it computed  *)
(* from its snapshot, and PostgreSQL ends the transaction when a row it    *)
(* writes was changed since.  A refill delivery reads the shelf and then   *)
(* updates each row on the quantity it has seen.                           *)
(***************************************************************************)
EXTENDS Sequences, FiniteSets, Sums

CONSTANTS
    Tiers,         \* the sizes of a product, 1 .. n in the order of their rows
    Clients,       \* back office requests and deliveries in flight
    Settlements,   \* the rows that may lock a sale
    None,          \* no settlement
    Handlers,      \* which writers this instance has
    InitQty,       \* units of each size when the model starts
    MaxQty,        \* bound: units of one movement, and of a counted size
    MaxTxns        \* bound: movements

ASSUME ShelfConstants ==
    /\ IsFiniteSet(Tiers) /\ Tiers = 1..Cardinality(Tiers)
    /\ InitQty \in Nat /\ MaxQty \in Nat /\ MaxTxns \in Nat
    /\ None \notin Settlements

VARIABLES
    shelf,      \* merchant_stocks: the quantity of each size
    lots,       \* MerchantStockLot: the batches of each size, oldest first
    txns,       \* merchant_stock_txns, in the order of their creation
    tx,         \* the transactions in flight, with the snapshot they act on
    clamped,    \* sizes whose quantity an undo cut off at zero
    torn        \* sizes with batches where an undo gave units to no batch

shelfVars == <<shelf, lots, txns, tx, clamped, torn>>

\* A batch, named after the movement that made it: what a receipt brought, or
\* the opening balance that was on the shelf before the first receipt.
Modes == {"consignment", "wholesale"}

\* A movement.  `kind` tells what the settlements see: a sale, another
\* movement, or a row that was deleted.  `lock` is settlementId, `from`
\* inventoryAllocation, `bill` settlementQuantity.
NoFrom == [x \in {} |-> 0]
Deleted(t) == [kind |-> "deleted", tier |-> t, qty |-> 0, lock |-> None,
               bill |-> 0, from |-> NoFrom]
Idle == [op |-> "idle"]
NoLots == <<>>
Room(n) == Len(txns) + n <= MaxTxns

Left(ls) == [i \in DOMAIN ls |-> ls[i].left]
Tracked(ls) == Sum(Left(ls))

\* Oldest first: what n units take of each batch or row of quantities f.
Before(f, i) == Sum([j \in {k \in DOMAIN f : k < i} |-> f[j]])
FirstIn(f, n) ==
    [i \in DOMAIN f |->
        IF Before(f, i) >= n THEN 0
        ELSE IF f[i] <= n - Before(f, i) THEN f[i] ELSE n - Before(f, i)]

-----------------------------------------------------------------------------
(* merchant_inventory_ownership_insert, the trigger that books movement n,  *)
(* q units (negative when they leave) of a size that had `was`.  `mode` is  *)
(* that of the shipment a receipt belongs to.                               *)
Raises(ls, was, q, mode) ==
    /\ q # 0 /\ (ls # NoLots \/ mode = "wholesale")
    /\ \/ q > 0 /\ (mode = None \/ Tracked(ls) > was)
       \/ q < 0 /\ Tracked(ls) # was
Opening(ls, was, n) ==
    IF Tracked(ls) = was THEN NoLots
    ELSE << [source |-> <<"legacy", n>>, mode |-> "consignment",
             initial |-> was - Tracked(ls), left |-> was - Tracked(ls)] >>
AsReceipt(ls, q, mode, n) ==
    Append(ls, [source |-> <<"receipt", n>>, mode |-> mode, initial |-> q, left |-> q])
BookedNoOpening(ls, was, q, mode, n) == \* mutant: the opening balance is forgotten
    CASE q > 0 /\ (ls # NoLots \/ mode = "wholesale") -> AsReceipt(ls, q, mode, n)
      [] q < 0 /\ ls # NoLots ->
            [i \in DOMAIN ls |-> [ls[i] EXCEPT !.left = @ - FirstIn(Left(ls), -q)[i]]]
      [] OTHER -> ls
Booked(ls, was, q, mode, n) ==
    CASE q > 0 /\ (ls # NoLots \/ mode = "wholesale") ->
            AsReceipt(Opening(ls, was, n) \o ls, q, mode, n)
      [] q < 0 /\ ls # NoLots ->
            [i \in DOMAIN ls |-> [ls[i] EXCEPT !.left = @ - FirstIn(Left(ls), -q)[i]]]
      [] OTHER -> ls

\* inventoryAllocation and settlementQuantity of the movement.
From(ls, q) ==
    IF q >= 0 \/ ls = NoLots THEN NoFrom
    ELSE LET take == FirstIn(Left(ls), -q)
             used == {i \in DOMAIN ls : take[i] > 0} IN
         [x \in {ls[i].source : i \in used} |->
             take[CHOOSE i \in used : ls[i].source = x]]
Consigned(ls) == {i \in DOMAIN ls : ls[i].mode = "consignment"}
BillAll(ls, kind, q) == \* mutant: every unit that is sold is settled
    IF kind = "sale" THEN -q ELSE 0
Bill(ls, kind, q) ==
    IF kind # "sale" THEN 0 ELSE IF ls = NoLots THEN -q
    ELSE Sum([i \in Consigned(ls) |-> FirstIn(Left(ls), -q)[i]])
Row(ls, kind, t, q) ==
    [kind |-> kind, tier |-> t, qty |-> q, lock |-> None,
     from |-> From(ls, q), bill |-> Bill(ls, kind, q)]

\* A writer changed size t from `was` by q and adds the movement.
Book(kind, t, was, q, mode) ==
    /\ Room(1)
    /\ ~Raises(lots[t], was, q, mode)
    /\ shelf' = [shelf EXCEPT ![t] = was + q]
    /\ lots' = [lots EXCEPT ![t] = Booked(@, was, q, mode, Len(txns) + 1)]
    /\ txns' = Append(txns, Row(lots[t], kind, t, q))
    /\ UNCHANGED <<clamped, torn>>

-----------------------------------------------------------------------------
ShelfInit ==
    /\ shelf = [t \in Tiers |-> InitQty]
    /\ lots = [t \in Tiers |-> NoLots]
    /\ txns = <<>>
    /\ tx = [c \in Clients |-> Idle]
    /\ clamped = {} /\ torn = {}

\* recordCounterSale: every line takes its units if there are enough, or the
\* whole sale is rolled back.
CounterSale(t, q) ==
    /\ shelf[t] >= q
    /\ Book("sale", t, shelf[t], -q, None) /\ UNCHANGED tx

\* applyMerchantRestockFromShipment: a relative update, in the mode of the
\* order the shipment belongs to.
Receive(t, q, mode) == Book("other", t, shelf[t], q, mode) /\ UNCHANGED tx

Unwritten == UNCHANGED <<shelf, lots, txns, clamped, torn>>
Seen(S) == [t \in S |-> shelf[t]]

\* The snapshot of a SERIALIZABLE transaction, or the read of a delivery.
\* recordMerchantQuickSale and createMerchantSale: sell q units.
BeginSale(c, t, q) ==
    /\ tx[c] = Idle /\ shelf[t] >= q
    /\ tx' = [tx EXCEPT ![c] =
               [op |-> "set", kind |-> "sale", tier |-> t, seen |-> Seen({t}),
                to |-> shelf[t] - q]]
    /\ Unwritten

\* adjustMerchantStock, adjustStoreProductQuantity: count n units; a count
\* that is lower may be declared a sale by the back office.
BeginCount(c, t, n, kind) ==
    /\ tx[c] = Idle /\ n # shelf[t]
    /\ kind = "sale" => n < shelf[t]
    /\ tx' = [tx EXCEPT ![c] =
               [op |-> "set", kind |-> kind, tier |-> t, seen |-> Seen({t}),
                to |-> n]]
    /\ Unwritten

\* undoMerchantStockMovement: take a movement back that no settlement locks.
BeginUndo(c, i) ==
    /\ tx[c] = Idle
    /\ i \in DOMAIN txns /\ txns[i].kind # "deleted" /\ txns[i].lock = None
    /\ tx' = [tx EXCEPT ![c] =
               [op |-> "undo", txn |-> i, row |-> txns[i],
                seen |-> Seen({txns[i].tier})]]
    /\ Unwritten

\* deductCountedRefillProductStock: q units of any size, if there are enough.
BeginMirror(c, q) ==
    /\ tx[c] = Idle /\ Sum(shelf) >= q
    /\ tx' = [tx EXCEPT ![c] = [op |-> "mirror", qty |-> q, seen |-> Seen(Tiers)]]
    /\ Unwritten

\* First updater wins: the row that is written is still the one of the
\* snapshot, and its batches with it: nobody writes them without the row.
\* (A row changed and changed back passes here and fails in PostgreSQL; the
\* outcome of a failure is always possible, see Abort.)
Fresh(c, t) == shelf[t] = tx[c].seen[t]
Done(c) == tx' = [tx EXCEPT ![c] = Idle]

CommitSetStale(c) == \* mutant: the transaction runs READ COMMITTED
    LET t == tx[c].tier IN
    /\ tx[c].op = "set"
    /\ Book(tx[c].kind, t, tx[c].seen[t], tx[c].to - tx[c].seen[t], None)
    /\ Done(c)
CommitSet(c) ==
    LET t == tx[c].tier IN
    /\ tx[c].op = "set" /\ Fresh(c, t)
    /\ Book(tx[c].kind, t, shelf[t], tx[c].to - shelf[t], None)
    /\ Done(c)

\* merchant_inventory_ownership_undo: the units go back to the batches they
\* came from; a receipt that made a batch stays.
MadeLot(t, i) == \E k \in DOMAIN lots[t] : lots[t][k].source = <<"receipt", i>>
Restored(ls, from) ==
    [k \in DOMAIN ls |->
        [ls[k] EXCEPT !.left = @ + IF ls[k].source \in DOMAIN from
                                   THEN from[ls[k].source] ELSE 0]]
UndoTo(c) == tx[c].seen[tx[c].row.tier] - tx[c].row.qty
Undo(c, i) ==
    LET t == tx[c].row.tier IN
    /\ shelf' = [shelf EXCEPT ![t] = IF UndoTo(c) < 0 THEN 0 ELSE UndoTo(c)]
    /\ lots' = [lots EXCEPT ![t] = Restored(@, tx[c].row.from)]
    /\ clamped' = IF UndoTo(c) < 0 THEN clamped \cup {t} ELSE clamped
    /\ torn' = IF lots[t] # NoLots /\ tx[c].row.from = NoFrom
               THEN torn \cup {t} ELSE torn
    /\ txns' = [txns EXCEPT ![i] = Deleted(t)]
    /\ Done(c)
CommitUndo(c) ==
    /\ tx[c].op = "undo" /\ Fresh(c, tx[c].row.tier)
    /\ txns[tx[c].txn] = tx[c].row
    /\ ~MadeLot(tx[c].row.tier, tx[c].txn)
    /\ Undo(c, tx[c].txn)

\* The delivery takes the first rows first; each row is its own movement.
CommitMirror(c) ==
    LET take == FirstIn(tx[c].seen, tx[c].qty)
        touched == {t \in Tiers : take[t] > 0}
    IN
    /\ tx[c].op = "mirror" /\ Room(Cardinality(touched))
    /\ \A t \in touched : Fresh(c, t) /\ ~Raises(lots[t], shelf[t], -take[t], None)
    /\ shelf' = [t \in Tiers |-> shelf[t] - take[t]]
    /\ lots' = [t \in Tiers |-> Booked(lots[t], shelf[t], -take[t], None, 0)]
    /\ \E at \in [1..Cardinality(touched) -> touched] :
          /\ \A m, n \in DOMAIN at : m < n => at[m] < at[n]
          /\ txns' = txns \o [n \in DOMAIN at |->
                        Row(lots[at[n]], "other", at[n], -take[at[n]])]
    /\ Done(c)
    /\ UNCHANGED <<clamped, torn>>

\* A serialization failure, a lost condition, a number that is taken or the
\* end of the request: everything is rolled back and nothing is retried.
Abort(c) == tx[c] # Idle /\ Done(c) /\ Unwritten

ShelfNext ==
    \/ /\ "counter" \in Handlers
       /\ \E t \in Tiers, q \in 1..MaxQty : CounterSale(t, q)
    \/ /\ "receive" \in Handlers
       /\ \E t \in Tiers, q \in 1..MaxQty, m \in Modes : Receive(t, q, m)
    \/ /\ "sale" \in Handlers
       /\ \E c \in Clients, t \in Tiers, q \in 1..MaxQty : BeginSale(c, t, q)
    \/ /\ "count" \in Handlers
       /\ \E c \in Clients, t \in Tiers, n \in 0..MaxQty, k \in {"sale", "other"} :
             BeginCount(c, t, n, k)
    \/ "undo" \in Handlers /\ \E c \in Clients, i \in DOMAIN txns : BeginUndo(c, i)
    \/ "mirror" \in Handlers /\ \E c \in Clients, q \in 1..MaxQty : BeginMirror(c, q)
    \/ \E c \in Clients :
          CommitSet(c) \/ CommitUndo(c) \/ CommitMirror(c) \/ Abort(c)
ShelfSpec == ShelfInit /\ [][ShelfNext]_shelfVars

-----------------------------------------------------------------------------
Live(t) == {i \in DOMAIN txns : txns[i].tier = t /\ txns[i].kind # "deleted"}
Moved(t) == Sum([i \in Live(t) |-> txns[i].qty])
\* The quantity of a size is what its movements say, whichever of the seven
\* writers ran in between: no update is lost.  An undo that would go below
\* zero stops at zero (Math.max), and only then the shelf shows more than its
\* movements explain.
ShelfExplained ==
    \A t \in Tiers :
        /\ shelf[t] >= 0 /\ shelf[t] >= InitQty + Moved(t)
        /\ t \notin clamped => shelf[t] = InitQty + Moved(t)

\* Once a size has batches they add up to its quantity, so that it can be sold
\* and counted.  The exception is an undo of a movement from before the first
\* batch: it moves the shelf and no batch.
LotsMatchShelf ==
    \A t \in Tiers \ torn : lots[t] # NoLots => Tracked(lots[t]) = shelf[t]

\* A settlement bills what left consignment batches by sales, and nothing the
\* shop bought: the consigned units are on the shelf, billed, or written off.
ConsignedBilled ==
    \A t \in Tiers :
        LET sold == {i \in Live(t) : txns[i].kind = "sale" /\ txns[i].from # NoFrom}
            offs(x) == {i \in Live(t) : txns[i].kind # "sale" /\ x \in DOMAIN txns[i].from}
            writtenOff(x) == Sum([i \in offs(x) |-> txns[i].from[x]])
        IN Sum([k \in Consigned(lots[t]) |-> lots[t][k].initial - lots[t][k].left])
             = Sum([i \in sold |-> txns[i].bill])
               + Sum([k \in Consigned(lots[t]) |-> writtenOff(lots[t][k].source)])
=============================================================================
