------------------------------- MODULE HqStock -------------------------------
(***************************************************************************)
(* The stock of the main warehouse: a purchase order that is received in   *)
(* several deliveries and priced by cumulative shares, receipts without an *)
(* order, the goods that leave, and two kinds of count.  applyStocktake    *)
(* writes an absolute quantity in a serializable transaction that is tried *)
(* again after a conflict; countInventoryQuantities writes only over the   *)
(* version its page was opened with.  Amounts are cents; the average cost  *)
(* per gram, a rounded decimal, is left out.                               *)
(***************************************************************************)
EXTENDS FiniteSets, Sums

CONSTANTS
    Lines,            \* the lines of the purchase order 1..n: one product each
    Ordered, Raw,     \* quantity and amount of each line
    Shipping, Discount, \* the order's common cost (packaging, processing and
                        \* tax are shared as shipping is)
    Forms,            \* receiving pages: each has a submission key of its own
    Counts,           \* stocktake pages: each has an event key of its own
    Clerks,
    MaxQuantity,      \* bound on what one page receives of a line
    Found,            \* the quantities a count can find
    MaxSales, None

ASSUME HqStockConstants ==
    /\ IsFiniteSet(Lines) /\ Lines # {} /\ Lines = 1..Cardinality(Lines)
    /\ Ordered \in [Lines -> Nat \ {0}] /\ Raw \in [Lines -> Nat \ {0}]
    /\ Shipping \in Nat /\ Discount \in Nat /\ MaxQuantity \in Nat /\ Found \subseteq Nat

VARIABLES
    order,    \* PurchaseOrder.status
    form,     \* what the clerk has typed into a receiving page
    receipt,  \* PurchaseReceipt by submission key
    balance,  \* InventoryBalance.quantity
    version,  \* InventoryBalance.updatedAt
    journal,  \* the sum of InventoryTransaction.quantity
    bought,   \* that of its purchase_in rows
    applied,  \* StocktakeAdjustment by event key
    clerk,    \* a count in progress
    sold

vars == <<order, form, receipt, balance, version, journal, bought, applied, clerk, sold>>

Quantities == [Lines -> 0..MaxQuantity]
FormRow == [quantity : Quantities, ofOrder : BOOLEAN]
ReceiptRow == [quantity : Quantities, landed : [Lines -> Int], ofOrder : BOOLEAN]
ASSUME NoRow == None \notin FormRow \cup ReceiptRow

Nothing == [l \in Lines |-> 0]
Idle == [op |-> "idle"]

Init ==
    /\ order = "pending_receipt"
    /\ form = [k \in Forms |-> None] /\ receipt = [k \in Forms |-> None]
    /\ balance = Nothing /\ version = Nothing /\ journal = Nothing /\ bought = Nothing
    /\ applied = [k \in Counts |-> None]
    /\ clerk = [c \in Clerks |-> Idle]
    /\ sold = 0

-----------------------------------------------------------------------------
(* What a delivery costs.                                                  *)

CumulativeShare(total, received, ordered) == (total * received) \div ordered
ShareAlone(total, before, after, ordered) == \* mutant: each delivery is rounded by itself
    CumulativeShare(total, after - before, ordered)
ShareOf(total, before, after, ordered) ==
    CumulativeShare(total, after, ordered) - CumulativeShare(total, before, ordered)

\* allocateCommonCost: in proportion to the amounts; the cents that are left
\* go to the largest remainders.
AllocateCommonCost(raw, common) ==
    LET size == IF common < 0 THEN -common ELSE common
        cents == [l \in DOMAIN raw |-> (size * raw[l]) \div Sum(raw)]
        rest == [l \in DOMAIN raw |-> (size * raw[l]) % Sum(raw)]
        ahead(l) == {m \in DOMAIN raw : rest[m] > rest[l] \/ (rest[m] = rest[l] /\ m < l)}
        extra(l) == IF Cardinality(ahead(l)) < size - Sum(cents) THEN 1 ELSE 0
        sign == IF common < 0 THEN -1 ELSE 1
    IN [l \in DOMAIN raw |-> sign * (cents[l] + extra(l))]

OrderReceipts == {k \in Forms : receipt[k] # None /\ receipt[k].ofOrder}
Received(l) == Sum([k \in OrderReceipts |-> receipt[k].quantity[l]])
ReceivedAmount(l) == CumulativeShare(Raw[l], Received(l), Ordered[l])
\* The landed amount of every line of a delivery of the order.
Landed(q) ==
    LET raw == [l \in {m \in Lines : q[m] > 0} |->
                   ShareOf(Raw[l], Received(l), Received(l) + q[l], Ordered[l])]
        before == Sum([l \in Lines |-> ReceivedAmount(l)])
        common == ShareOf(Shipping, before, before + Sum(raw), Sum(Raw))
                  - ShareOf(Discount, before, before + Sum(raw), Sum(Raw))
        share == IF Sum(raw) = 0 THEN [l \in DOMAIN raw |-> 0]
                                 ELSE AllocateCommonCost(raw, common)
    IN [l \in Lines |-> IF l \in DOMAIN raw THEN raw[l] + share[l] ELSE 0]

-----------------------------------------------------------------------------
(* Receipts.                                                               *)

Touched(q) == [l \in Lines |-> IF q[l] = 0 THEN version[l] ELSE version[l] + 1]
Plus(a, b) == [l \in Lines |-> a[l] + b[l]]
Posted(q) ==   \* postPurchaseReceiptInTransaction
    /\ \A l \in Lines : q[l] > 0 => balance[l] + q[l] >= 0
    /\ balance' = Plus(balance, q) /\ version' = Touched(q)
    /\ journal' = Plus(journal, q) /\ bought' = Plus(bought, q)

\* A page is opened and filled in; it is submitted once, or again after an
\* answer that did not arrive.
Fill(k, q, ofOrder) ==
    /\ form[k] = None /\ Sum(q) > 0
    /\ form' = [form EXCEPT ![k] = [quantity |-> q, ofOrder |-> ofOrder]]
    /\ UNCHANGED <<order, receipt, balance, version, journal, bought, applied, clerk, sold>>

NewEachTime(k) == form[k] # None \* mutant: the submission key is not looked up
NotYetBooked(k) == form[k] # None /\ receipt[k] = None
Booked(k, landed) ==
    receipt' = [receipt EXCEPT ![k] = [quantity |-> form[k].quantity, landed |-> landed,
                                       ofOrder |-> form[k].ofOrder]]

Complete(q) == \A l \in Lines : Received(l) + q[l] = Ordered[l]
ReceivePurchaseOrder(k) ==
    LET q == form[k].quantity IN
    /\ NotYetBooked(k) /\ form[k].ofOrder /\ order = "pending_receipt"
    /\ \A l \in Lines : Received(l) + q[l] <= Ordered[l]
    /\ \A l \in Lines : Landed(q)[l] >= 0
    /\ Posted(q) /\ Booked(k, Landed(q))
    /\ order' = IF Complete(q) THEN "received" ELSE order
    /\ UNCHANGED <<form, applied, clerk, sold>>
PostPurchaseReceipt(k) ==
    /\ NotYetBooked(k) /\ ~form[k].ofOrder
    /\ Posted(form[k].quantity) /\ Booked(k, Nothing)
    /\ UNCHANGED <<order, form, applied, clerk, sold>>

NoneReceived == OrderReceipts = {}
CancelUnreceivedPurchaseOrder ==
    /\ order = "pending_receipt" /\ NoneReceived
    /\ order' = "cancelled"
    /\ UNCHANGED <<form, receipt, balance, version, journal, bought, applied, clerk, sold>>

\* hq_bulk_post books out what is shipped.
BookOut(l) ==
    /\ sold < MaxSales /\ sold' = sold + 1
    /\ balance' = [balance EXCEPT ![l] = @ - 1]
    /\ version' = [version EXCEPT ![l] = @ + 1]
    /\ journal' = [journal EXCEPT ![l] = @ - 1]
    /\ UNCHANGED <<order, form, receipt, bought, applied, clerk>>

-----------------------------------------------------------------------------
(* applyStocktake: a snapshot, then the writes; a row that was changed in  *)
(* between is a serialization failure, and the transaction starts again.   *)

Snapshot(k, l, after, attempt) ==
    [op |-> "stocktake", key |-> k, line |-> l, after |-> after,
     before |-> balance[l], seen |-> version[l], attempt |-> attempt]
StocktakeBegin(c, k, l, after) ==
    /\ clerk[c] = Idle /\ applied[k] \in {None, <<l, after>>}
    /\ clerk' = [clerk EXCEPT ![c] = Snapshot(k, l, after, 1)]
    /\ UNCHANGED <<order, form, receipt, balance, version, journal, bought, applied, sold>>
NeverConflicts(c) == FALSE \* mutant: not serializable
Conflict(c) ==
    \/ version[clerk[c].line] # clerk[c].seen
    \/ applied[clerk[c].key] # None
StocktakeCommit(c) ==
    LET t == clerk[c] IN
    /\ t.op = "stocktake" /\ ~Conflict(c)
    /\ balance' = [balance EXCEPT ![t.line] = t.after]
    /\ version' = [version EXCEPT ![t.line] = @ + 1]
    /\ journal' = [journal EXCEPT ![t.line] = @ + t.after - t.before]
    /\ applied' = [applied EXCEPT ![t.key] = <<t.line, t.after>>]
    /\ clerk' = [clerk EXCEPT ![c] = Idle]
    /\ UNCHANGED <<order, form, receipt, bought, sold>>
StocktakeRetry(c) ==
    LET t == clerk[c] IN
    /\ t.op = "stocktake" /\ Conflict(c)
    /\ clerk' = [clerk EXCEPT ![c] =
          IF applied[t.key] # None \/ t.attempt = 3 THEN Idle
          ELSE Snapshot(t.key, t.line, t.after, t.attempt + 1)]
    /\ UNCHANGED <<order, form, receipt, balance, version, journal, bought, applied, sold>>

-----------------------------------------------------------------------------
(* countInventoryQuantities: all lines of the page, or none.               *)

OpenCount(c, S, counted) ==
    /\ clerk[c] = Idle
    /\ clerk' = [clerk EXCEPT ![c] =
          [op |-> "count", expected |-> [l \in S |-> version[l]], counted |-> counted,
           booked |-> [l \in S |-> journal[l]]]]
    /\ UNCHANGED <<order, form, receipt, balance, version, journal, bought, applied, sold>>
SomeAsExpected(t) == \* mutant: the lines that still match are written
    \E l \in DOMAIN t.expected : version[l] = t.expected[l]
AsExpected(t) ==
    \A l \in DOMAIN t.expected : version[l] = t.expected[l] /\ balance[l] # t.counted[l]
Counted(t, l) == IF l \in DOMAIN t.expected THEN t.counted[l] ELSE balance[l]
SubmitCount(c) ==
    LET t == clerk[c] IN
    /\ t.op = "count"
    /\ IF AsExpected(t)
       THEN /\ balance' = [l \in Lines |-> Counted(t, l)]
            /\ journal' = [l \in Lines |-> journal[l] + Counted(t, l) - balance[l]]
            /\ version' = [l \in Lines |->
                              version[l] + (IF l \in DOMAIN t.expected THEN 1 ELSE 0)]
       ELSE UNCHANGED <<balance, version, journal>>
    /\ clerk' = [clerk EXCEPT ![c] = Idle]
    /\ UNCHANGED <<order, form, receipt, bought, applied, sold>>

Next ==
    \/ \E k \in Forms :
          \/ \E q \in Quantities, b \in BOOLEAN : Fill(k, q, b)
          \/ ReceivePurchaseOrder(k) \/ PostPurchaseReceipt(k)
    \/ CancelUnreceivedPurchaseOrder
    \/ \E l \in Lines : BookOut(l)
    \/ \E c \in Clerks :
          \/ \E k \in Counts, l \in Lines, n \in Found : StocktakeBegin(c, k, l, n)
          \/ StocktakeCommit(c) \/ StocktakeRetry(c)
          \/ \E S \in SUBSET Lines \ {{}} : \E counted \in [S -> Found] : OpenCount(c, S, counted)
          \/ SubmitCount(c)
Spec == Init /\ [][Next]_vars

-----------------------------------------------------------------------------
(* Properties.                                                             *)

\* Whatever counts, receipts and shipments run at once, the balance of a
\* product is what its journal adds up to: no movement is lost under a count
\* and no count under a movement (stocktake.ts:40).
BalanceIsJournal == balance = journal

\* However often a page is submitted and however deliveries and the cancellation
\* cross, a delivery is booked in once, none beyond the order, and the order is
\* closed when, and only when, nothing is outstanding.
DeliveredOnce ==
    /\ order = "received" <=> \A l \in Lines : Received(l) = Ordered[l]
    /\ order = "cancelled" => OrderReceipts = {}
    /\ \A l \in Lines :
        /\ Received(l) <= Ordered[l]
        /\ bought[l] = Sum([k \in {f \in Forms : receipt[f] # None} |-> form[k].quantity[l]])

\* However an order is split into deliveries, their landed amounts add up to
\* the amount of the order, to the cent ("the last receipt absorbs rounding",
\* partial-receipt.ts:1).
CostsAddUp ==
    order = "received" =>
        Sum([k \in OrderReceipts |-> Sum(receipt[k].landed)]) = Sum(Raw) + Shipping - Discount

\* A count replaces nothing that was booked after its page was opened.
CountSeesAll ==
    [][\A c \in Clerks : clerk[c].op = "count" /\ clerk'[c] = Idle =>
          \/ balance' = balance
          \/ \A l \in DOMAIN clerk[c].booked : journal[l] = clerk[c].booked[l]]_vars
=============================================================================
