------------------------- MODULE VendorSettlements --------------------------
(***************************************************************************)
(* What the head office owes the vendors whose goods it sells on           *)
(* consignment.  One month: periods do not overlap and an order never      *)
(* changes its month, so months have nothing in common.  The statement of  *)
(* a vendor takes every order of the month with goods of his or is not     *)
(* made at all.  It reads the orders and then their lines, at READ         *)
(* COMMITTED and without locks, while clerks edit, cancel and refund.      *)
(***************************************************************************)
EXTENDS Integers, Sequences, FiniteSets, Sums

CONSTANTS
    Orders,     \* orders of the month, with vendors' goods among their lines
    Vendors,    \* enrolled for consignment, paid in TWD
    ShareBps,   \* the share of the house in the goods of each vendor
    Contents,   \* what an order may hold: the discount, and billed lines of a
                \* vendor (or the House, for its own goods) and an amount
    MaxEditions,\* how often an order is written
    House

LineRows == [vendor : Vendors \cup {House}, amount : Nat \ {0}]
HeldRows == [discount : Nat, lines : Seq(LineRows)]
ASSUME VendorConstants ==
    /\ ShareBps \in [Vendors -> 0..10000] /\ House \notin Vendors
    /\ Contents \subseteq HeldRows

VARIABLES
    sale,       \* orders with their lines; a line is <<order, edition, place>>
    statement,  \* vendor_settlements with their items
    draft,      \* the transaction that makes the statement of a vendor
    misread     \* orders settled with a discount that an edit between the two
                \* reads of the statement had changed

vendorVars == <<sale, statement, draft, misread>>

Empty == [discount |-> 0, lines |-> <<>>]
NotSold == [edition |-> 0, held |-> Empty, paid |-> FALSE, fallen |-> FALSE]
NoStatement == [status |-> "none", items |-> {}]
NoDraft == [stage |-> "none"]

VendorInit ==
    /\ sale = [o \in Orders |-> NotSold]
    /\ statement = [v \in Vendors |-> NoStatement]
    /\ draft = [v \in Vendors |-> NoDraft]
    /\ misread = {}

Sold == {o \in Orders : sale[o].edition > 0}
Amount(lines, P) == Sum([i \in P |-> lines[i].amount])
Places(lines) == DOMAIN lines
Subtotal(held) == Amount(held.lines, Places(held.lines))
LinesOf(o) == {<<o, sale[o].edition, i>> : i \in Places(sale[o].held.lines)}
Items == UNION {statement[v].items : v \in Vendors}
ItemsOf(o) == {x \in Items : x.line[1] = o}

-----------------------------------------------------------------------------
(* The orders.                                                             *)

\* createOrder, an import of the web shop.
Sell(o, held, paid) ==
    /\ sale[o].edition = 0
    /\ sale' = [sale EXCEPT ![o] = [edition |-> 1, held |-> held, paid |-> paid,
                                    fallen |-> FALSE]]
    /\ UNCHANGED <<statement, draft, misread>>

\* updateOrder deletes the lines and writes new ones, which the foreign key of
\* an item refuses (ON DELETE RESTRICT).  It asks whether the order may be
\* edited before its transaction, so one that fell meanwhile is edited too; one
\* that has shipped is not, but none here need have.
LinesFreed(o) == TRUE  \* mutant: the key lets the lines go
LinesFree(o) == \A x \in Items : x.line \notin LinesOf(o)
EditSale(o, held, paid) ==
    /\ sale[o].edition \in 1..MaxEditions - 1 /\ LinesFree(o)
    /\ sale' = [sale EXCEPT ![o] = [edition |-> sale[o].edition + 1, held |-> held,
                                    paid |-> paid, fallen |-> sale[o].fallen]]
    /\ UNCHANGED <<statement, draft, misread>>

\* updateOrderPaymentStatus, updateOrderStatus: any status, settled or not.
SetStatus(o) ==
    /\ o \in Sold
    /\ \/ sale' = [sale EXCEPT ![o].paid = ~@]
       \/ sale' = [sale EXCEPT ![o].fallen = ~@]
    /\ UNCHANGED <<statement, draft, misread>>

-----------------------------------------------------------------------------
(* createVendorSettlementDraft.                                            *)

\* allocateOrderDiscount: by largest remainder, the first line of a tie first.
RoundedDown(held, i) ==  \* mutant: what the rounding leaves is nobody's
    LET s == Subtotal(held) IN (held.discount * held.lines[i].amount) \div s
Allocated(held, i) ==
    LET s == Subtotal(held)
        part(j) == held.discount * held.lines[j].amount
        left == held.discount
                  - Sum([j \in Places(held.lines) |-> part(j) \div s])
        ahead == {j \in Places(held.lines) :
                    \/ part(j) % s > part(i) % s
                    \/ part(j) % s = part(i) % s /\ j < i}
    IN part(i) \div s + IF Cardinality(ahead) < left THEN 1 ELSE 0

\* calculateVendorSettlement: Math.round for the house, the rest for the vendor.
Credit(v, line, gross) ==
    LET share == (2 * gross * ShareBps[v] + 10000) \div 20000
    IN [line |-> line, gross |-> gross, share |-> share, payable |-> gross - share]

Header(o) == [subtotal |-> Subtotal(sale[o].held), discount |-> sale[o].held.discount,
              paid |-> sale[o].paid, fallen |-> sale[o].fallen]

\* Under the lock of its key and with no statement of that key: the orders ...
DraftOrders(v) ==
    LET found == {o \in Sold : \E i \in Places(sale[o].held.lines) :
                                  sale[o].held.lines[i].vendor = v}
    IN
    /\ draft[v] = NoDraft /\ statement[v] = NoStatement
    /\ draft' = [draft EXCEPT ![v] = [stage |-> "orders",
                    seen |-> [o \in found |-> Header(o)]]]
    /\ UNCHANGED <<sale, statement, misread>>

\* ... and their lines, as they are now, against the order as it was.
Mixed(seen, o) == [discount |-> seen[o].discount, lines |-> sale[o].held.lines]
Safe(seen, o) ==
    /\ seen[o].paid /\ ~seen[o].fallen
    /\ Subtotal(Mixed(seen, o)) = seen[o].subtotal
    /\ seen[o].subtotal > 0 /\ seen[o].discount <= seen[o].subtotal
CreditsOf(v, seen, o) ==
    LET held == Mixed(seen, o) IN
    {Credit(v, <<o, sale[o].edition, i>>, held.lines[i].amount - Allocated(held, i)) :
        i \in {j \in Places(held.lines) : held.lines[j].vendor = v}}
DraftLines(v) ==
    LET seen == draft[v].seen IN
    /\ draft[v].stage = "orders"
    /\ \A o \in DOMAIN seen : Safe(seen, o)
    /\ draft' = [draft EXCEPT ![v] = [stage |-> "lines",
                    items |-> UNION {CreditsOf(v, seen, o) : o \in DOMAIN seen},
                    misread |-> {o \in DOMAIN seen : seen[o].discount # sale[o].held.discount}]]
    /\ UNCHANGED <<sale, statement, misread>>

\* The statement, if there is a line and every line is still there and in no
\* other statement.
DraftWrite(v) ==
    LET lines == {x.line : x \in draft[v].items} IN
    /\ draft[v].stage = "lines" /\ lines # {}
    /\ \A l \in lines : l \in LinesOf(l[1]) /\ \A x \in Items : x.line # l
    /\ statement' = [statement EXCEPT ![v] = [status |-> "draft", items |-> draft[v].items]]
    /\ misread' = misread \cup (draft[v].misread \cap {l[1] : l \in lines})
    /\ draft' = [draft EXCEPT ![v] = NoDraft]
    /\ UNCHANGED sale
\* A blocker, an error of the database, a crash: nothing is written.
DraftFails(v) ==
    /\ draft[v] # NoDraft /\ draft' = [draft EXCEPT ![v] = NoDraft]
    /\ UNCHANGED <<sale, statement, misread>>

\* updateVendorSettlementStatus: an update on the status the page showed.
StatementMoves == {<<"draft", "reviewing">>, <<"reviewing", "draft">>,
                   <<"reviewing", "approved">>, <<"approved", "reviewing">>,
                   <<"approved", "paid">>}
MoveStatement(v, next) ==
    /\ <<statement[v].status, next>> \in StatementMoves
    /\ statement' = [statement EXCEPT ![v].status = next]
    /\ UNCHANGED <<sale, draft, misread>>

VendorNext ==
    \/ \E o \in Orders : \/ SetStatus(o)
                        \/ \E held \in Contents, paid \in BOOLEAN :
                              Sell(o, held, paid) \/ EditSale(o, held, paid)
    \/ \E v \in Vendors : \/ DraftOrders(v) \/ DraftLines(v) \/ DraftWrite(v)
                          \/ DraftFails(v)
                          \/ \E next \in {"draft", "reviewing", "approved", "paid"} :
                                MoveStatement(v, next)
VendorSpec == VendorInit /\ [][VendorNext]_vendorVars

-----------------------------------------------------------------------------
\* The vendors are credited with what the customer paid for their goods, to the
\* dollar, although their statements are made one by one and orders change in
\* between: a credited line is a line its order still has, and the credits of an
\* order and the amounts of its other lines, less their part of the discount, are
\* the total.  The exception is an order whose discount was edited between the
\* two reads of a statement: it is credited with a discount it no longer has.
CreditedIsCollected ==
    \A o \in Sold \ misread :
        LET held == sale[o].held
            credited == ItemsOf(o)
            open == {i \in Places(held.lines) : \A x \in credited : x.line[3] # i}
            rest == Subtotal(held) - held.discount - Sum([x \in credited |-> x.gross])
        IN
        /\ \A x \in credited : x.line \in LinesOf(o) /\ 0 <= x.share /\ x.share <= x.gross
        /\ credited # {} => rest \in 0..Amount(held.lines, open)
=============================================================================
