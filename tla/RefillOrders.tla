---------------------------- MODULE RefillOrders ----------------------------
(***************************************************************************)
(* The refill ("jar exchange") order of the LIFF shop: lib/refill.  A       *)
(* customer opens an order for a booking, reserves an empty jar, pays       *)
(* through the ECPay gateway, and a shop hands the refill over.             *)
(*                                                                          *)
(* The database runs at READ COMMITTED.  A handler is a record of `req`     *)
(* that goes through stages; a stage is a database read whose result the    *)
(* handler keeps and acts on later, or a commit.  A transaction that takes  *)
(* the order row FOR UPDATE before it decides anything is one step, unless  *)
(* it reads a row that its lock does not protect (a jar).                   *)
(***************************************************************************)
EXTENDS Integers, FiniteSets

CONSTANTS
    Orders,        \* ids of rows of refill_orders
    Payments,      \* ids of rows of payment_orders: one ECPay trade each
    Jars,          \* rows of jar_codes: the containers of one customer
    Requests,      \* slots for HTTP requests in flight
    Appointments,  \* confirmed future bookings of the customer
    ClientKeys,    \* idempotency keys a client may send instead of the
                   \* default, which is one key for each booking
    Ops,           \* the handlers that are called in this configuration
    DeclineThenCharge, \* may the gateway decline a trade and then charge it?
    InitStock,     \* jars of the flavour in the shop at the start
    MaxQty,        \* largest quantity handed over for one order
    MaxCrashes,    \* how many requests may die between two stages
    None           \* the null of every nullable column

AllOps == {"create", "cancel", "redeem", "pay", "callback", "decline",
           "deliver", "missing"}

ASSUME ConstantsAssumption ==
    /\ Ops \subseteq AllOps
    /\ DeclineThenCharge \in BOOLEAN
    /\ InitStock \in Nat /\ MaxQty \in Nat /\ MaxCrashes \in Nat
    /\ None \notin Orders \cup Payments \cup Jars \cup Appointments
                   \cup ClientKeys

VARIABLES
    orders,     \* refill_orders
    payments,   \* payment_orders
    redeemed,   \* the jars whose code the customer has registered
    jarLock,    \* jar_codes.locked_by_refill_order_id
    stock,      \* merchant_refill_stocks.quantity
    handed,     \* jars that refill_stock_txns says each order received
    notices,    \* automation_jobs rows: <<kind, order>>
    declined,   \* trades the gateway has refused
    charged,    \* trades the gateway has taken the money for
    acked,      \* charged trades whose callback was answered "1|OK"
    req,        \* requests in flight
    crashes     \* requests that have died so far

vars == <<orders, payments, redeemed, jarLock, stock, handed, notices,
          declined, charged, acked, req, crashes>>
gateway == <<declined, charged, acked>>
shop == <<stock, handed>>

-----------------------------------------------------------------------------
(* Prices, statuses and rows. *)

Keys == Appointments \cup ClientKeys
OrderTypes == {"first", "exchange"}
Purposes == {"refill", "extra_topup"}
OrderStatuses == {"absent", "draft", "payment_pending", "payment_failed",
                  "paid_waiting_return", "awaiting_extra_payment",
                  "completed", "cancelled"}
ActiveStatuses == {"draft", "payment_pending", "paid_waiting_return",
                   "awaiting_extra_payment"}
PaymentStatuses == {"absent", "pending", "paid", "failed", "duplicate_paid"}
Price == [first |-> 129, exchange |-> 99]
ExtraTopup == 30
Amounts == {129, 99, 30}

OrderRow == [status : OrderStatuses, type : OrderTypes, mode : OrderTypes,
             base : Amounts, extra : {0, ExtraTopup}, jar : Jars \cup {None},
             appt : Appointments \cup {None}, key : Keys \cup {None},
             paid : BOOLEAN, quantity : 0..MaxQty]
PaymentRow == [status : PaymentStatuses, order : Orders \cup {None},
               purpose : Purposes, amount : Amounts]
NoRow == [status |-> "absent", type |-> "first", mode |-> "first",
          base |-> Price["first"], extra |-> 0, jar |-> None,
          appt |-> None, key |-> None, paid |-> FALSE, quantity |-> 0]
NoPaymentRow == [status |-> "absent", order |-> None,
                 purpose |-> "refill", amount |-> Price["first"]]

\* What a handler remembers between two stages: its parameters and the
\* values it has read.
Stages == {"idle", "refresh", "reserve", "claim", "open", "missing", "topup",
           "refuse", "check", "settle", "duplicate"}
Request == [stage : Stages, order : Orders \cup {None},
            pay : Payments \cup {None}, purpose : Purposes,
            jar : Jars \cup {None}, tries : 0..2,
            appt : Appointments \cup {None}, key : Keys \cup {None},
            seen : OrderStatuses, amount : Amounts]
Idle == [stage |-> "idle", order |-> None, pay |-> None,
         purpose |-> "refill", jar |-> None, tries |-> 0, appt |-> None,
         key |-> None, seen |-> "absent", amount |-> Price["first"]]

Absent(o) == orders[o].status = "absent"
Locked(o) == {j \in Jars : jarLock[j] = o}
Available == {j \in redeemed : jarLock[j] = None}
NoneWithKey(k) == {} \* mutant: no unique index, no read of the key
WithKey(k) == {o \in Orders : ~Absent(o) /\ orders[o].key = k}
ActiveFor(a) == {o \in Orders : /\ orders[o].status \in ActiveStatuses
                                /\ orders[o].appt = a}
BlockingPayments(o) ==
    {p \in Payments : /\ payments[p].order = o
                      /\ payments[p].status \in {"pending", "paid"}}
NoOtherPaid(p) == {} \* mutant: neither the check nor the paid-only index
OtherPaid(p) ==
    {q \in Payments \ {p} : /\ payments[q].order = payments[p].order
                            /\ payments[q].purpose = payments[p].purpose
                            /\ payments[q].status = "paid"}

\* canCustomerCancelRefillOrder and canRefreshRefillQualification.
CheckoutNotOpened(o) == /\ orders[o].status \in {"draft", "payment_failed"}
                        /\ BlockingPayments(o) = {}

\* A qualification refresh keeps the order row FOR UPDATE while it looks for
\* a jar; every other writer of the row, and every insert of a payment that
\* refers to it, waits.
NeverLocked(o) == FALSE \* mutant: SELECT without FOR UPDATE
RowLocked(o) == \E r \in Requests : /\ req[r].stage \in {"reserve", "claim"}
                                    /\ req[r].order = o

\* Requests that will insert an order or a payment: with the rows that are
\* left they bound the number of requests.
Creating == {r \in Requests : /\ req[r].stage \in {"reserve", "claim"}
                              /\ req[r].order = None}
Opening == {r \in Requests : req[r].stage \in {"open", "missing", "topup"}}
OrderIdsLeft == Cardinality({o \in Orders : Absent(o)})
                    > Cardinality(Creating)
PaymentIdsLeft == Cardinality({p \in Payments : payments[p].status = "absent"})
                    > Cardinality(Opening)

Becomes(r, record) == req' = [req EXCEPT ![r] = record]
SetStatus(o, status) == orders' = [orders EXCEPT ![o].status = status]

Init ==
    /\ orders = [o \in Orders |-> NoRow]
    /\ payments = [p \in Payments |-> NoPaymentRow]
    /\ redeemed \in SUBSET Jars
    /\ jarLock = [j \in Jars |-> None]
    /\ stock = InitStock
    /\ handed = [o \in Orders |-> 0]
    /\ notices = {}
    /\ declined = {} /\ charged = {} /\ acked = {}
    /\ req = [r \in Requests |-> Idle]
    /\ crashes = 0

-----------------------------------------------------------------------------
(* Creating an order, and refreshing the qualification of an unpaid one. *)

\* createRefillOrder reads the order with the same key and an active order of
\* the booking before it opens its transaction.
CreateRead(r, a, k) ==
    /\ "create" \in Ops /\ req[r] = Idle
    /\ \/ \E o \in WithKey(k) :
            Becomes(r, [Idle EXCEPT !.stage = "refresh", !.order = o])
       \/ /\ WithKey(k) = {}
          /\ \E o \in ActiveFor(a) :
                Becomes(r, [Idle EXCEPT !.stage = "refresh", !.order = o])
       \/ /\ WithKey(k) = {} /\ ActiveFor(a) = {} /\ OrderIdsLeft
          /\ Becomes(r, [Idle EXCEPT !.stage = "reserve", !.appt = a,
                                     !.key = k])
    /\ UNCHANGED <<orders, payments, redeemed, jarLock, shop, notices,
                   gateway, crashes>>

\* An unpaid order is an exchange order when a jar is reserved for it.
Qualified(row, j) ==
    LET type == IF j = None THEN "first" ELSE "exchange"
    IN  [row EXCEPT !.type = type, !.mode = type, !.base = Price[type],
                    !.extra = 0, !.jar = j]

Lock(j, o) == [i \in Jars |-> IF i = j THEN o ELSE jarLock[i]]

\* refreshUnpaidOrderQualification up to the search for a jar.
RefreshRead(r) ==
    LET o == req[r].order IN
    /\ req[r].stage = "refresh" /\ ~RowLocked(o)
    /\ \/ /\ ~CheckoutNotOpened(o)
          /\ Becomes(r, Idle) /\ UNCHANGED orders
       \/ /\ CheckoutNotOpened(o)
          /\ \E j \in Locked(o) :
                orders' = [orders EXCEPT ![o] = Qualified(orders[o], j)]
          /\ Becomes(r, Idle)
       \/ /\ CheckoutNotOpened(o) /\ Locked(o) = {}
          /\ Becomes(r, [req[r] EXCEPT !.stage = "reserve"])
          /\ UNCHANGED orders
    /\ UNCHANGED <<payments, redeemed, jarLock, shop, notices, gateway,
                   crashes>>

\* The commit that follows reserveAvailableJar: a new row, which the unique
\* index on idempotency_key may refuse, or the refreshed one.
CommitOrder(r, j) ==
    /\ \/ /\ req[r].order # None
          /\ orders' = [orders EXCEPT ![req[r].order] =
                                         Qualified(orders[req[r].order], j)]
          /\ jarLock' = Lock(j, req[r].order)
       \/ /\ req[r].order = None /\ WithKey(req[r].key) = {}
          /\ \E o \in Orders :
                /\ Absent(o)
                /\ orders' = [orders EXCEPT ![o] =
                       Qualified([NoRow EXCEPT !.status = "draft",
                                               !.appt = req[r].appt,
                                               !.key = req[r].key], j)]
                /\ jarLock' = Lock(j, o)
       \/ /\ req[r].order = None /\ WithKey(req[r].key) # {}
          /\ UNCHANGED <<orders, jarLock>>
    /\ Becomes(r, Idle)

\* reserveAvailableJar: find a candidate ...
ReserveRead(r) ==
    /\ req[r].stage = "reserve"
    /\ \/ \E j \in Available :
            /\ Becomes(r, [req[r] EXCEPT !.stage = "claim", !.jar = j])
            /\ UNCHANGED <<orders, jarLock>>
       \/ Available = {} /\ CommitOrder(r, None)
    /\ UNCHANGED <<payments, redeemed, shop, notices, gateway, crashes>>

\* ... and claim it with a conditional update, at most three times.
ClaimedBlindly(j) == TRUE \* mutant: update by id
StillAvailable(j) == j \in Available

ReserveClaim(r) ==
    /\ req[r].stage = "claim"
    /\ \/ StillAvailable(req[r].jar) /\ CommitOrder(r, req[r].jar)
       \/ /\ ~StillAvailable(req[r].jar) /\ req[r].tries < 2
          /\ Becomes(r, [req[r] EXCEPT !.stage = "reserve", !.jar = None,
                                       !.tries = @ + 1])
          /\ UNCHANGED <<orders, jarLock>>
       \/ /\ ~StillAvailable(req[r].jar) /\ req[r].tries = 2
          /\ CommitOrder(r, None)
    /\ UNCHANGED <<payments, redeemed, shop, notices, gateway, crashes>>

ReleaseJars(o) ==
    jarLock' = [j \in Jars |-> IF jarLock[j] = o THEN None ELSE jarLock[j]]

\* cancelUnpaidRefillOrder.
Cancel(o) ==
    /\ "cancel" \in Ops /\ ~RowLocked(o)
    /\ \/ orders[o].status = "cancelled" /\ UNCHANGED orders
       \/ CheckoutNotOpened(o) /\ SetStatus(o, "cancelled")
    /\ ReleaseJars(o)
    /\ UNCHANGED <<payments, redeemed, shop, notices, gateway, req, crashes>>

\* redeemJarCode: the customer registers the code of a jar.
RedeemJarCode(j) ==
    /\ "redeem" \in Ops /\ j \notin redeemed
    /\ redeemed' = redeemed \cup {j}
    /\ UNCHANGED <<orders, payments, jarLock, shop, notices, gateway, req,
                   crashes>>

-----------------------------------------------------------------------------
(* Opening a checkout: initiateRefillPayment. *)

\* assertRefillPaymentSnapshot, with the reservation the order claims.
SnapshotValid(o) ==
    /\ orders[o].base = Price[orders[o].type] /\ orders[o].extra = 0
    /\ orders[o].mode = orders[o].type
    /\ orders[o].type = "exchange" =>
          orders[o].jar \in redeemed /\ orders[o].jar \in Locked(o)

PayAllowed(o, purpose) ==
    \/ /\ purpose = "refill"
       /\ orders[o].status \in {"draft", "payment_pending", "payment_failed"}
       /\ SnapshotValid(o)
    \/ purpose = "extra_topup" /\ orders[o].status = "awaiting_extra_payment"

\* The transaction reads the order without a lock ...
ReadForPayment(r, o, purpose) ==
    Becomes(r, [Idle EXCEPT !.stage = "open", !.order = o,
                            !.purpose = purpose, !.seen = orders[o].status,
                            !.amount = IF purpose = "refill"
                                       THEN orders[o].base ELSE ExtraTopup])

PayRead(r, o, purpose) ==
    /\ "pay" \in Ops /\ req[r] = Idle
    /\ PayAllowed(o, purpose) /\ PaymentIdsLeft
    /\ ReadForPayment(r, o, purpose)
    /\ UNCHANGED <<orders, payments, redeemed, jarLock, shop, notices,
                   gateway, crashes>>

\* ... and then inserts the attempt and updates the order by its id.
PayWrite(r) ==
    LET o == req[r].order IN
    /\ req[r].stage = "open" /\ ~RowLocked(o)
    /\ \E p \in Payments :
          /\ payments[p].status = "absent"
          /\ payments' = [payments EXCEPT ![p] =
                [status |-> "pending", order |-> o,
                 purpose |-> req[r].purpose, amount |-> req[r].amount]]
    /\ IF req[r].purpose = "refill" /\ req[r].seen = "draft"
       THEN SetStatus(o, "payment_pending")
       ELSE UNCHANGED orders
    /\ Becomes(r, Idle)
    /\ UNCHANGED <<redeemed, jarLock, shop, notices, gateway, crashes>>

-----------------------------------------------------------------------------
(* The gateway, and its callback: handleEcpayCallback. *)

GatewayCharges(p) ==
    /\ payments[p].status # "absent" /\ p \notin charged
    /\ DeclineThenCharge \/ p \notin declined
    /\ charged' = charged \cup {p}
    /\ UNCHANGED <<orders, payments, redeemed, jarLock, shop, notices,
                   declined, acked, req, crashes>>

GatewayDeclines(p) ==
    /\ "decline" \in Ops
    /\ payments[p].status # "absent" /\ p \notin declined \cup charged
    /\ declined' = declined \cup {p}
    /\ UNCHANGED <<orders, payments, redeemed, jarLock, shop, notices,
                   charged, acked, req, crashes>>

\* The payment and its order are read before any transaction.
CallbackRequest(p, stage) ==
    [Idle EXCEPT !.stage = stage, !.pay = p, !.order = payments[p].order,
                 !.purpose = payments[p].purpose,
                 !.seen = orders[payments[p].order].status]

\* A failure code for a trade that is read as pending.
RefuseRead(r, p) ==
    /\ "callback" \in Ops /\ req[r] = Idle
    /\ p \in declined /\ payments[p].status = "pending"
    /\ Becomes(r, CallbackRequest(p, "refuse"))
    /\ UNCHANGED <<orders, payments, redeemed, jarLock, shop, notices,
                   gateway, crashes>>

RefuseWrite(r) ==
    LET o == req[r].order IN
    /\ req[r].stage = "refuse"
    /\ payments' = [payments EXCEPT ![req[r].pay].status = "failed"]
    /\ IF req[r].purpose = "refill" /\ req[r].seen = "payment_pending"
       THEN ~RowLocked(o) /\ SetStatus(o, "payment_failed")
       ELSE UNCHANGED orders
    /\ Becomes(r, Idle)
    /\ UNCHANGED <<redeemed, jarLock, shop, notices, gateway, crashes>>

Acknowledge(r) == /\ acked' = acked \cup {req[r].pay}
                  /\ Becomes(r, Idle)

\* RtnCode 1 with the amount of the payment.  The gateway repeats it, and the
\* customer's browser delivers it once more.
AnyCode(p) == p \in charged \cup declined \* mutant: RtnCode is not looked at
SuccessCode(p) == p \in charged

CallbackRead(r, p) ==
    /\ "callback" \in Ops /\ req[r] = Idle /\ SuccessCode(p)
    /\ \/ /\ payments[p].status = "paid"
          /\ acked' = acked \cup {p} /\ UNCHANGED req
       \/ /\ payments[p].status # "paid"
          /\ Becomes(r, CallbackRequest(p, "check")) /\ UNCHANGED acked
    /\ UNCHANGED <<orders, payments, redeemed, jarLock, shop, notices,
                   declined, charged, crashes>>

DuplicateForgotten(p) == UNCHANGED payments \* mutant: acknowledged only
MarkDuplicate(p) ==
    payments' = [payments EXCEPT ![p].status =
                    IF @ = "paid" THEN "paid" ELSE "duplicate_paid"]

\* The transaction first looks for another payment that has won.
CallbackCheck(r) ==
    /\ req[r].stage = "check"
    /\ \/ /\ OtherPaid(req[r].pay) # {}
          /\ MarkDuplicate(req[r].pay) /\ Acknowledge(r)
       \/ /\ OtherPaid(req[r].pay) = {}
          /\ Becomes(r, [req[r] EXCEPT !.stage = "settle"])
          /\ UNCHANGED <<payments, acked>>
    /\ UNCHANGED <<orders, redeemed, jarLock, shop, notices, declined,
                   charged, crashes>>

\* What a won claim does to the order, by the status that was read before the
\* transaction.
Advance(r) ==
    LET o == req[r].order IN
    \/ /\ req[r].purpose = "refill"
       /\ req[r].seen \in {"draft", "payment_pending", "payment_failed"}
       /\ ~RowLocked(o)
       /\ orders' = [orders EXCEPT ![o].status = "paid_waiting_return",
                                   ![o].paid = TRUE]
    \/ /\ req[r].purpose = "extra_topup"
       /\ req[r].seen = "awaiting_extra_payment"
       /\ ~RowLocked(o)
       /\ orders' = [orders EXCEPT ![o].status = "paid_waiting_return",
                                   ![o].mode = "first",
                                   ![o].extra = ExtraTopup]
    \/ /\ req[r].seen \notin IF req[r].purpose = "refill"
                             THEN {"draft", "payment_pending",
                                   "payment_failed"}
                             ELSE {"awaiting_extra_payment"}
       /\ UNCHANGED orders

\* The claim is a conditional update; the partial unique index on paid
\* payments aborts the second of two transactions that both passed the check.
ClaimedTwice(p) == TRUE \* mutant: update by id
Claimable(p) == payments[p].status = "pending"

CallbackSettle(r) ==
    LET p == req[r].pay IN
    /\ req[r].stage = "settle"
    /\ \/ /\ ~Claimable(p)
          /\ Acknowledge(r) /\ UNCHANGED <<orders, payments, notices>>
       \/ /\ Claimable(p) /\ OtherPaid(p) # {}
          /\ Becomes(r, [req[r] EXCEPT !.stage = "duplicate"])
          /\ UNCHANGED <<orders, payments, notices, acked>>
       \/ /\ Claimable(p) /\ OtherPaid(p) = {}
          /\ payments' = [payments EXCEPT ![p].status = "paid"]
          /\ Advance(r)
          /\ notices' = notices \cup {<<"paid", req[r].order>>}
          /\ Acknowledge(r)
    /\ UNCHANGED <<redeemed, jarLock, shop, declined, charged, crashes>>

\* The second transaction; without a winner it throws and the gateway gets
\* "0|Error".
CallbackDuplicate(r) ==
    /\ req[r].stage = "duplicate"
    /\ \/ /\ OtherPaid(req[r].pay) # {}
          /\ MarkDuplicate(req[r].pay) /\ Acknowledge(r)
       \/ /\ OtherPaid(req[r].pay) = {}
          /\ Becomes(r, Idle) /\ UNCHANGED <<payments, acked>>
    /\ UNCHANGED <<orders, redeemed, jarLock, shop, notices, declined,
                   charged, crashes>>

-----------------------------------------------------------------------------
(* The shop. *)

OnShelf(q) == TRUE \* mutant: quantity not compared
InStock(q) == q <= stock

\* completeRefillDelivery: one transaction under the order row's lock.
CompleteDelivery(o, q) ==
    /\ "deliver" \in Ops /\ ~RowLocked(o)
    /\ orders[o].status = "paid_waiting_return"
    /\ \/ orders[o].paid
       \/ \E p \in Payments : /\ payments[p].order = o
                              /\ payments[p].status = "paid"
    /\ InStock(q)
    /\ stock' = stock - q
    /\ handed' = [handed EXCEPT ![o] = @ + q]
    /\ orders' = [orders EXCEPT ![o].status = "completed",
                                ![o].quantity = q]
    /\ notices' = notices \cup {<<"completed", o>>}
    /\ UNCHANGED <<payments, redeemed, jarLock, gateway, req, crashes>>

\* markMissingContainer with the choice 'topup': the order is read outside
\* the transaction that moves it, then a checkout for the difference opens.
MissingRead(r, o) ==
    /\ "missing" \in Ops /\ req[r] = Idle /\ PaymentIdsLeft
    /\ orders[o].status = "paid_waiting_return" /\ orders[o].mode # "first"
    /\ Becomes(r, [Idle EXCEPT !.stage = "missing", !.order = o])
    /\ UNCHANGED <<orders, payments, redeemed, jarLock, shop, notices,
                   gateway, crashes>>

MissingWrite(r) ==
    /\ req[r].stage = "missing" /\ ~RowLocked(req[r].order)
    /\ SetStatus(req[r].order, "awaiting_extra_payment")
    /\ Becomes(r, [req[r] EXCEPT !.stage = "topup"])
    /\ UNCHANGED <<payments, redeemed, jarLock, shop, notices, gateway,
                   crashes>>

MissingPayRead(r) ==
    LET o == req[r].order IN
    /\ req[r].stage = "topup"
    /\ IF PayAllowed(o, "extra_topup")
       THEN ReadForPayment(r, o, "extra_topup")
       ELSE Becomes(r, Idle)
    /\ UNCHANGED <<orders, payments, redeemed, jarLock, shop, notices,
                   gateway, crashes>>

-----------------------------------------------------------------------------
\* The process that serves a request dies: its transaction is rolled back and
\* nobody gets an answer.
Crash(r) ==
    /\ req[r].stage # "idle" /\ crashes < MaxCrashes
    /\ Becomes(r, Idle) /\ crashes' = crashes + 1
    /\ UNCHANGED <<orders, payments, redeemed, jarLock, shop, notices,
                   gateway>>

Continue(r) ==
    \/ RefreshRead(r) \/ ReserveRead(r) \/ ReserveClaim(r)
    \/ PayWrite(r) \/ RefuseWrite(r)
    \/ CallbackCheck(r) \/ CallbackSettle(r) \/ CallbackDuplicate(r)
    \/ MissingWrite(r) \/ MissingPayRead(r)

Next ==
    \/ \E r \in Requests : Continue(r) \/ Crash(r)
    \/ \E r \in Requests, a \in Appointments :
          \E k \in {a} \cup ClientKeys : CreateRead(r, a, k)
    \/ \E r \in Requests, o \in Orders, purpose \in Purposes :
          PayRead(r, o, purpose)
    \/ \E r \in Requests, p \in Payments : RefuseRead(r, p)
    \/ \E r \in Requests, p \in Payments : CallbackRead(r, p)
    \/ \E r \in Requests, o \in Orders : MissingRead(r, o)
    \/ \E o \in Orders : Cancel(o)
    \/ \E o \in Orders, q \in 1..MaxQty : CompleteDelivery(o, q)
    \/ \E j \in Jars : RedeemJarCode(j)
    \/ \E p \in Payments : GatewayCharges(p) \/ GatewayDeclines(p)

Spec == Init /\ [][Next]_vars

\* A server finishes the requests it has taken, and the gateway repeats the
\* callback of a charged trade until it is answered "1|OK".
Fairness ==
    /\ \A r \in Requests : WF_vars(Continue(r))
    /\ \A p \in Payments :
          SF_vars(p \notin acked /\ \E r \in Requests : CallbackRead(r, p))

FairSpec == Spec /\ Fairness

-----------------------------------------------------------------------------
(* Properties that hold whatever the requests race. *)

\* Every row and every request in flight has the shape of its table.
TypeOK ==
    /\ orders \in [Orders -> OrderRow]
    /\ payments \in [Payments -> PaymentRow]
    /\ redeemed \subseteq Jars
    /\ jarLock \in [Jars -> Orders \cup {None}]
    /\ stock \in 0..InitStock
    /\ handed \in [Orders -> Nat]
    /\ notices \subseteq {"paid", "completed"} \X Orders
    /\ declined \subseteq Payments /\ charged \subseteq Payments
    /\ acked \subseteq charged
    /\ req \in [Requests -> Request]
    /\ crashes \in 0..MaxCrashes

\* However many success callbacks of however many attempts run at once, at
\* most one payment of an order and purpose is ever 'paid': the check, the
\* conditional claim and the paid-only unique index of handleEcpayCallback.
OneWinner ==
    \A p, q \in Payments :
        /\ payments[p].status = "paid" /\ payments[q].status = "paid"
        /\ payments[p].order = payments[q].order
        /\ payments[p].purpose = payments[q].purpose
        => p = q

\* A jar that is locked by an order is the jar whose serial the order carries
\* and lowers its price: two page loads never reserve two jars for one order,
\* and an order that is cancelled or does not exist holds none
\* (reserveAvailableJar, refreshUnpaidOrderQualification and
\* cancelUnpaidRefillOrder against each other).
ReservationMatches ==
    \A j \in Jars : jarLock[j] # None =>
        LET row == orders[jarLock[j]]
        IN  /\ j \in redeemed
            /\ row.jar = j /\ row.type = "exchange"
            /\ row.status \notin {"absent", "cancelled"}

\* The shop never hands over a refill whose refill price the gateway has not
\* taken, even when a delivery follows stale callbacks and top-ups.
DeliveredIsCharged ==
    \A o \in Orders : handed[o] > 0 =>
        \E p \in charged : /\ payments[p].order = o
                           /\ payments[p].purpose = "refill"

\* A repeated create with the same key never makes a second order, not even
\* when both requests have read that there is none (the unique index on
\* idempotency_key and the catch branch of createRefillOrder).
KeyIsUnique ==
    \A o1, o2 \in Orders :
        orders[o1].key = orders[o2].key /\ orders[o1].key # None => o1 = o2

\* An order gets the exchange price only with a jar that is locked for it, and
\* keeps it locked, whoever else is after the jar and whatever becomes of the
\* checkout: an order that was cancelled gives its jar back, and a checkout or a
\* failed callback that writes a stale status (payment.ts:152, callback.ts:99)
\* may revive it without one; nothing else leaves the price without its jar.
LowerPrice(o) == orders[o].type = "exchange" /\ orders[o].status # "cancelled"
Backed(o) == \E j \in Jars : jarLock[j] = o /\ orders[o].jar = j
PriceIsBacked ==
    [][\A o \in Orders :
          LowerPrice(o)' /\ ~Backed(o)' =>
              orders[o].status = "cancelled" \/ (LowerPrice(o) /\ ~Backed(o))]_vars

-----------------------------------------------------------------------------
(* A property that holds as long as some handlers are not called: the run   *)
(* that checks it says which.                                               *)

\* A request that is repeated, or that comes late, never hands the goods over
\* twice: what the stock transactions say left the shop for an order is the
\* quantity the order says it delivered.
HandedOnce == \A o \in Orders : handed[o] = orders[o].quantity

-----------------------------------------------------------------------------
(* The order and payment rows implement the ledger of charges. *)

Bills == Orders \X Purposes
PaidFor(b) == {p \in Payments : /\ <<payments[p].order,
                                     payments[p].purpose>> = b
                                /\ payments[p].status = "paid"}
WinnerOf(b) ==
    IF PaidFor(b) = {} THEN None ELSE CHOOSE p \in PaidFor(b) : TRUE

ASSUME NullIsNoBill == None \notin Bills

Ledger == INSTANCE ChargeLedger WITH
    bill <- [p \in Payments |-> IF payments[p].status = "absent" THEN None
                                ELSE <<payments[p].order,
                                       payments[p].purpose>>],
    taken <- charged,
    winner <- [b \in Bills |-> WinnerOf(b)],
    refundDue <- {p \in Payments : payments[p].status = "duplicate_paid"}

\* Every charge is settled once and for all, as the payment of its bill or as
\* a refund that is due, and every charge is settled eventually although
\* requests die between two stages: the gateway repeats what was not
\* answered.
EveryChargeIsSettled == Ledger!LedgerSpec
=============================================================================
