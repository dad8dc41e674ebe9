------------------------- MODULE RefillOrdersProofs -------------------------
(***************************************************************************)
(* Theorems about RefillOrders for every number of orders, payments, jars  *)
(* and requests in flight.                                                 *)
(***************************************************************************)
EXTENDS RefillOrders, TLAPS

(***************************************************************************)
(* The inductive invariant: the type invariant, and what a request knows   *)
(* for certain about the rows it was started for.                          *)
(***************************************************************************)
OrderStages == {"refresh", "open", "missing", "topup"}
CallbackStages == {"check", "settle", "duplicate"}

\* What a handler remembers of its payment is what the row still says: the
\* order and the purpose of a payment never change.
RequestOK(r) ==
    /\ req[r].stage \in OrderStages => req[r].order \in Orders
    /\ req[r].stage \in CallbackStages \cup {"refuse"} =>
          /\ req[r].order \in Orders /\ req[r].pay \in Payments
          /\ payments[req[r].pay].status # "absent"
          /\ payments[req[r].pay].order = req[r].order
          /\ payments[req[r].pay].purpose = req[r].purpose
    /\ req[r].stage \in CallbackStages => req[r].pay \in charged
    /\ req[r].stage = "claim" => req[r].jar \in redeemed

PaymentOK(p) ==
    IF payments[p].status = "absent" THEN p \notin charged \cup declined
                                     ELSE payments[p].order \in Orders

Consistent ==
    /\ TypeOK
    /\ \A r \in Requests : RequestOK(r)
    /\ \A p \in Payments : PaymentOK(p)

-----------------------------------------------------------------------------
(* Rows and records. *)

LEMMA NullRows == NoRow \in OrderRow /\ NoPaymentRow \in PaymentRow
                  /\ Idle \in Request
<1>1. NoRow \in OrderRow
  BY ConstantsAssumption DEF NoRow, OrderRow, OrderStatuses, OrderTypes,
     Amounts, Price, ExtraTopup
<1>2. NoPaymentRow \in PaymentRow
  BY DEF NoPaymentRow, PaymentRow, PaymentStatuses, Purposes, Amounts, Price
<1>3. Idle \in Request
  BY DEF Idle, Request, Stages, Purposes, OrderStatuses, Amounts, Price
<1> QED BY <1>1, <1>2, <1>3

LEMMA RequestFields ==
    ASSUME NEW q \in Request
    PROVE  /\ \A x \in Stages : [q EXCEPT !.stage = x] \in Request
           /\ \A x \in Orders \cup {None} : [q EXCEPT !.order = x] \in Request
           /\ \A x \in Payments \cup {None} : [q EXCEPT !.pay = x] \in Request
           /\ \A x \in Purposes : [q EXCEPT !.purpose = x] \in Request
           /\ \A x \in Jars \cup {None} : [q EXCEPT !.jar = x] \in Request
           /\ \A x \in 0..2 : [q EXCEPT !.tries = x] \in Request
           /\ \A x \in Appointments \cup {None} :
                 [q EXCEPT !.appt = x] \in Request
           /\ \A x \in Keys \cup {None} : [q EXCEPT !.key = x] \in Request
           /\ \A x \in OrderStatuses : [q EXCEPT !.seen = x] \in Request
           /\ \A x \in Amounts : [q EXCEPT !.amount = x] \in Request
BY SMT DEF Request

LEMMA RowFields ==
    ASSUME NEW row \in OrderRow
    PROVE  /\ \A x \in OrderStatuses : [row EXCEPT !.status = x] \in OrderRow
           /\ \A x \in OrderTypes : [row EXCEPT !.type = x] \in OrderRow
           /\ \A x \in OrderTypes : [row EXCEPT !.mode = x] \in OrderRow
           /\ \A x \in Amounts : [row EXCEPT !.base = x] \in OrderRow
           /\ \A x \in {0, ExtraTopup} : [row EXCEPT !.extra = x] \in OrderRow
           /\ \A x \in Jars \cup {None} : [row EXCEPT !.jar = x] \in OrderRow
           /\ \A x \in Appointments \cup {None} :
                 [row EXCEPT !.appt = x] \in OrderRow
           /\ \A x \in Keys \cup {None} : [row EXCEPT !.key = x] \in OrderRow
           /\ \A x \in BOOLEAN : [row EXCEPT !.paid = x] \in OrderRow
           /\ \A x \in 0..MaxQty : [row EXCEPT !.quantity = x] \in OrderRow
BY SMT DEF OrderRow

LEMMA QualifiedType ==
    ASSUME NEW row \in OrderRow, NEW j \in Jars \cup {None}
    PROVE  Qualified(row, j) \in OrderRow
<1> DEFINE type == IF j = None THEN "first" ELSE "exchange"
<1>1. type \in OrderTypes /\ Price[type] \in Amounts /\ 0 \in {0, ExtraTopup}
  BY DEF OrderTypes, Price, Amounts
<1> HIDE DEF type
<1>2. [row EXCEPT !.type = type, !.mode = type, !.base = Price[type],
                  !.extra = 0, !.jar = j] \in OrderRow
  BY <1>1, RowFields, Zenon
<1> QED BY <1>2, Zenon DEF Qualified, type

LEMMA SetRowType ==
    ASSUME orders \in [Orders -> OrderRow], NEW o, NEW row \in OrderRow
    PROVE  [orders EXCEPT ![o] = row] \in [Orders -> OrderRow]
OBVIOUS

LEMMA SetStatusType ==
    ASSUME orders \in [Orders -> OrderRow], NEW o \in Orders,
           NEW status \in OrderStatuses, SetStatus(o, status)
    PROVE  orders' \in [Orders -> OrderRow]
BY DEF SetStatus, OrderRow

LEMMA BecomesType ==
    ASSUME req \in [Requests -> Request], NEW r \in Requests,
           NEW record \in Request, Becomes(r, record)
    PROVE  /\ req' \in [Requests -> Request] /\ req'[r] = record
           /\ \A s \in Requests \ {r} : req'[s] = req[s]
BY DEF Becomes

\* Payments keep their identity, and jars and charges are never taken back.
Grows ==
    /\ redeemed \subseteq redeemed' /\ charged \subseteq charged'
    /\ \A p \in Payments : payments[p].status # "absent" =>
          /\ payments'[p].status # "absent"
          /\ payments'[p].order = payments[p].order
          /\ payments'[p].purpose = payments[p].purpose

LEMMA OthersStayOK ==
    ASSUME Consistent, Grows, NEW s \in Requests, req'[s] = req[s]
    PROVE  RequestOK(s)'
BY DEF Consistent, Grows, RequestOK

LEMMA GrowsUnchanged ==
    ASSUME UNCHANGED payments, UNCHANGED redeemed, UNCHANGED charged
    PROVE  Grows
BY DEF Grows

\* A step that touches neither payments nor the gateway needs a look only at
\* the request it serves.
LEMMA QuietStep ==
    ASSUME Consistent, TypeOK', NEW r \in Requests, RequestOK(r)',
           \A s \in Requests \ {r} : req'[s] = req[s],
           UNCHANGED <<payments, redeemed, charged, declined>>
    PROVE  Consistent'
<1>1. \A s \in Requests : RequestOK(s)'
  BY OthersStayOK, GrowsUnchanged
<1>2. \A p \in Payments : PaymentOK(p)'
  BY DEF Consistent, PaymentOK
<1> QED BY <1>1, <1>2 DEF Consistent

LEMMA IdleOK == ASSUME NEW r \in Requests, req'[r] = Idle PROVE RequestOK(r)'
BY DEF RequestOK, Idle, OrderStages, CallbackStages

LEMMA ConsistentInit == Init => Consistent
<1> SUFFICES ASSUME Init PROVE Consistent
  OBVIOUS
<1>1. TypeOK
  BY NullRows, ConstantsAssumption DEF Init, TypeOK
<1>2. \A r \in Requests : RequestOK(r)
  BY DEF Init, RequestOK, Idle, OrderStages, CallbackStages
<1>3. \A p \in Payments : PaymentOK(p)
  BY DEF Init, PaymentOK, NoPaymentRow
<1> QED BY <1>1, <1>2, <1>3 DEF Consistent

-----------------------------------------------------------------------------
(* One lemma for each action. *)

LEMMA CreateReadConsistent ==
    ASSUME Consistent, NEW r \in Requests, NEW a \in Appointments,
           NEW k \in {a} \cup ClientKeys, CreateRead(r, a, k)
    PROVE  Consistent'
<1> DEFINE Refreshing(o) == [Idle EXCEPT !.stage = "refresh", !.order = o]
           Creator == [Idle EXCEPT !.stage = "reserve", !.appt = a, !.key = k]
<1>1. \A o \in Orders : Refreshing(o) \in Request
  <2>1. "refresh" \in Stages BY DEF Stages
  <2> QED BY <2>1, NullRows, RequestFields, Zenon
<1>2. Creator \in Request
  <2>1. "reserve" \in Stages /\ k \in Keys BY DEF Stages, Keys
  <2> QED BY <2>1, NullRows, RequestFields, Zenon
<1>3. /\ \A o \in Orders : /\ Refreshing(o).stage = "refresh"
                           /\ Refreshing(o).order = o
      /\ Creator.stage = "reserve"
  BY Zenon DEF Idle
<1> HIDE DEF Refreshing, Creator
<1>4. PICK record \in Request :
         /\ Becomes(r, record)
         /\ record.stage \in {"refresh", "reserve"}
         /\ record.stage = "refresh" => record.order \in Orders
  <2>1. \/ \E o \in Orders : Becomes(r, Refreshing(o))
        \/ Becomes(r, Creator)
    BY Zenon DEF CreateRead, WithKey, ActiveFor, Refreshing, Creator
  <2> QED BY <1>1, <1>2, <1>3, <2>1
<1>5. /\ req' \in [Requests -> Request] /\ req'[r] = record
      /\ \A s \in Requests \ {r} : req'[s] = req[s]
  BY <1>4, BecomesType DEF Consistent, TypeOK
<1>6. RequestOK(r)'
  BY <1>4, <1>5 DEF RequestOK, OrderStages, CallbackStages
<1>7. TypeOK'
  BY <1>5 DEF Consistent, TypeOK, CreateRead, gateway, shop
<1> QED BY <1>5, <1>6, <1>7, QuietStep DEF CreateRead, gateway

LEMMA RefreshReadConsistent ==
    ASSUME Consistent, NEW r \in Requests, RefreshRead(r)
    PROVE  Consistent'
<1> DEFINE o == req[r].order
<1> USE NullRows
<1>1. o \in Orders
  BY DEF RefreshRead, Consistent, RequestOK, OrderStages
<1>2. orders' \in [Orders -> OrderRow]
  <2>1. orders \in [Orders -> OrderRow] /\ orders[o] \in OrderRow
    BY <1>1 DEF Consistent, TypeOK
  <2>2. \/ UNCHANGED orders
        \/ \E j \in Jars : orders' = [orders EXCEPT ![o] =
                                                Qualified(orders[o], j)]
    BY Zenon DEF RefreshRead, Locked
  <2>3. \A j \in Jars : Qualified(orders[o], j) \in OrderRow
    BY <2>1, QualifiedType
  <2> HIDE DEF o
  <2> QED BY <2>1, <2>2, <2>3, SetRowType
<1>3. [req[r] EXCEPT !.stage = "reserve"] \in Request
  BY DEF Consistent, TypeOK, Request, Stages
<1>4. PICK record \in Request :
         Becomes(r, record) /\ record.stage \in {"idle", "reserve"}
  BY <1>3 DEF RefreshRead, Idle, Consistent, TypeOK, Request
<1>5. /\ req' \in [Requests -> Request] /\ req'[r] = record
      /\ \A s \in Requests \ {r} : req'[s] = req[s]
  BY <1>4, BecomesType DEF Consistent, TypeOK
<1>6. RequestOK(r)'
  BY <1>4, <1>5 DEF RequestOK, OrderStages, CallbackStages
<1>7. TypeOK'
  BY <1>2, <1>5 DEF Consistent, TypeOK, RefreshRead, gateway, shop
<1> QED BY <1>5, <1>6, <1>7, QuietStep DEF RefreshRead, gateway

\* What both branches of reserveAvailableJar do in the end.
LEMMA CommitOrderType ==
    ASSUME Consistent, NEW r \in Requests, NEW j \in Jars \cup {None},
           CommitOrder(r, j), req[r].stage \in {"reserve", "claim"}
    PROVE  /\ orders' \in [Orders -> OrderRow]
           /\ jarLock' \in [Jars -> Orders \cup {None}]
           /\ Becomes(r, Idle)
<1>1. /\ orders \in [Orders -> OrderRow] /\ req[r] \in Request
      /\ jarLock \in [Jars -> Orders \cup {None}]
  BY DEF Consistent, TypeOK
<1>2. /\ req[r].order \in Orders \cup {None}
      /\ req[r].appt \in Appointments \cup {None}
      /\ req[r].key \in Keys \cup {None}
  BY <1>1 DEF Request
<1> DEFINE New == [NoRow EXCEPT !.status = "draft", !.appt = req[r].appt,
                                !.key = req[r].key]
<1>3. New \in OrderRow
  <2>1. "draft" \in OrderStatuses BY DEF OrderStatuses
  <2> QED BY <1>2, <2>1, NullRows, RowFields, Zenon
<1> HIDE DEF New
<1>4. /\ Qualified(New, j) \in OrderRow
      /\ \A o \in Orders : Qualified(orders[o], j) \in OrderRow
  BY <1>1, <1>3, QualifiedType
<1>5. \A o \in Orders : Lock(j, o) \in [Jars -> Orders \cup {None}]
  BY <1>1 DEF Lock
<1>6. \/ UNCHANGED <<orders, jarLock>>
      \/ \E o \in Orders : /\ orders' = [orders EXCEPT ![o] =
                                              Qualified(orders[o], j)]
                           /\ jarLock' = Lock(j, o)
      \/ \E o \in Orders : /\ orders' = [orders EXCEPT ![o] =
                                              Qualified(New, j)]
                           /\ jarLock' = Lock(j, o)
  BY <1>2, Zenon DEF CommitOrder, New
<1>7. orders' \in [Orders -> OrderRow]
  BY <1>1, <1>4, <1>6, SetRowType
<1>8. jarLock' \in [Jars -> Orders \cup {None}]
  BY <1>1, <1>5, <1>6
<1> QED BY <1>7, <1>8 DEF CommitOrder

\* The shape of the conclusion for a handler that ends.
LEMMA EndsConsistent ==
    ASSUME Consistent, NEW r \in Requests, Becomes(r, Idle),
           orders' \in [Orders -> OrderRow],
           jarLock' \in [Jars -> Orders \cup {None}],
           UNCHANGED <<payments, redeemed, shop, notices, gateway, crashes>>
    PROVE  Consistent'
<1>1. /\ req' \in [Requests -> Request] /\ req'[r] = Idle
      /\ \A s \in Requests \ {r} : req'[s] = req[s]
  BY NullRows, BecomesType DEF Consistent, TypeOK
<1>2. TypeOK'
  BY <1>1 DEF Consistent, TypeOK, gateway, shop
<1> QED BY <1>1, <1>2, IdleOK, QuietStep DEF gateway

LEMMA ReserveReadConsistent ==
    ASSUME Consistent, NEW r \in Requests, ReserveRead(r)
    PROVE  Consistent'
<1>1. CASE CommitOrder(r, None)
  BY <1>1, CommitOrderType, EndsConsistent DEF ReserveRead
<1>2. CASE \E j \in Available :
              /\ Becomes(r, [req[r] EXCEPT !.stage = "claim", !.jar = j])
              /\ UNCHANGED <<orders, jarLock>>
  <2>1. PICK j \in Available :
           /\ Becomes(r, [req[r] EXCEPT !.stage = "claim", !.jar = j])
           /\ UNCHANGED <<orders, jarLock>>
    BY <1>2
  <2> DEFINE record == [req[r] EXCEPT !.stage = "claim", !.jar = j]
  <2>2. j \in redeemed /\ j \in Jars \cup {None} /\ req[r] \in Request
    BY DEF Available, Consistent, TypeOK
  <2>3. record \in Request /\ record.stage = "claim" /\ record.jar = j
    <3>1. "claim" \in Stages BY DEF Stages
    <3>2. record \in Request
      BY <2>2, <3>1, RequestFields, Zenon
    <3>3. req[r] = [req[r] EXCEPT !.stage = req[r].stage]
      BY <2>2 DEF Request
    <3>4. "stage" \in DOMAIN req[r] /\ "jar" \in DOMAIN req[r]
      BY <2>2 DEF Request
    <3> QED BY <3>2, <3>4, Zenon
  <2> HIDE DEF record
  <2>4. /\ req' \in [Requests -> Request] /\ req'[r] = record
        /\ \A s \in Requests \ {r} : req'[s] = req[s]
    BY <2>1, <2>3, BecomesType DEF Consistent, TypeOK, record
  <2>5. RequestOK(r)'
    BY <2>2, <2>3, <2>4
       DEF RequestOK, OrderStages, CallbackStages, ReserveRead
  <2>6. TypeOK'
    BY <2>1, <2>4 DEF Consistent, TypeOK, ReserveRead, gateway, shop
  <2> QED BY <2>4, <2>5, <2>6, QuietStep DEF ReserveRead, gateway
<1> QED BY <1>1, <1>2 DEF ReserveRead

LEMMA ReserveClaimConsistent ==
    ASSUME Consistent, NEW r \in Requests, ReserveClaim(r)
    PROVE  Consistent'
<1>1. req[r] \in Request /\ req[r].jar \in Jars \cup {None}
  BY DEF Consistent, TypeOK, Request
<1>2. CASE CommitOrder(r, None) \/ CommitOrder(r, req[r].jar)
  BY <1>1, <1>2, CommitOrderType, EndsConsistent DEF ReserveClaim
<1>3. CASE /\ req[r].tries < 2 /\ UNCHANGED <<orders, jarLock>>
           /\ Becomes(r, [req[r] EXCEPT !.stage = "reserve", !.jar = None,
                                        !.tries = @ + 1])
  <2> DEFINE record == [req[r] EXCEPT !.stage = "reserve", !.jar = None,
                                      !.tries = req[r].tries + 1]
  <2>1. /\ "reserve" \in Stages /\ None \in Jars \cup {None}
        /\ req[r].tries + 1 \in 0..2
    BY <1>1, <1>3 DEF Stages, Request
  <2>2. record \in Request /\ record.stage = "reserve"
    <3>1. "stage" \in DOMAIN req[r] BY <1>1 DEF Request
    <3> QED BY <1>1, <2>1, <3>1, RequestFields, Zenon
  <2>3. Becomes(r, record)
    BY <1>3, Zenon
  <2> HIDE DEF record
  <2>4. /\ req' \in [Requests -> Request] /\ req'[r] = record
        /\ \A s \in Requests \ {r} : req'[s] = req[s]
    BY <2>2, <2>3, BecomesType DEF Consistent, TypeOK
  <2>5. RequestOK(r)'
    BY <2>2, <2>4 DEF RequestOK, OrderStages, CallbackStages
  <2>6. TypeOK'
    BY <1>3, <2>4 DEF Consistent, TypeOK, ReserveClaim, gateway, shop
  <2> QED BY <2>4, <2>5, <2>6, QuietStep DEF ReserveClaim, gateway
<1> QED BY <1>2, <1>3 DEF ReserveClaim

\* A handler that has only read, and goes on.
LEMMA ReadStep ==
    ASSUME Consistent, NEW r \in Requests, NEW record \in Request,
           Becomes(r, record),
           record.stage \in OrderStages => record.order \in Orders,
           record.stage \notin CallbackStages \cup {"refuse", "claim"},
           UNCHANGED <<orders, payments, redeemed, jarLock, shop, notices,
                       gateway, crashes>>
    PROVE  Consistent'
<1>1. /\ req' \in [Requests -> Request] /\ req'[r] = record
      /\ \A s \in Requests \ {r} : req'[s] = req[s]
  BY BecomesType DEF Consistent, TypeOK
<1>2. TypeOK'
  BY <1>1 DEF Consistent, TypeOK, gateway, shop
<1>3. RequestOK(r)'
  BY <1>1 DEF RequestOK
<1> QED BY <1>1, <1>2, <1>3, QuietStep DEF gateway

LEMMA ReadForPaymentConsistent ==
    ASSUME Consistent, NEW r \in Requests, NEW o \in Orders,
           NEW purpose \in Purposes, ReadForPayment(r, o, purpose),
           UNCHANGED <<orders, payments, redeemed, jarLock, shop, notices,
                       gateway, crashes>>
    PROVE  Consistent'
<1> DEFINE price == IF purpose = "refill" THEN orders[o].base ELSE ExtraTopup
           record == [Idle EXCEPT !.stage = "open", !.order = o,
                          !.purpose = purpose, !.seen = orders[o].status,
                          !.amount = price]
<1>1. orders[o].base \in Amounts /\ orders[o].status \in OrderStatuses
  BY DEF Consistent, TypeOK, OrderRow
<1>2. price \in Amounts /\ "open" \in Stages
  BY <1>1 DEF Amounts, ExtraTopup, Stages
<1> HIDE DEF price
<1>3. record \in Request
  BY <1>1, <1>2, NullRows, RequestFields, Zenon
<1>4. record.stage = "open" /\ record.order = o
  BY Zenon DEF Idle
<1>5. Becomes(r, record)
  BY Zenon DEF ReadForPayment, price
<1> HIDE DEF record
<1>6. record.stage \notin CallbackStages \cup {"refuse", "claim"}
  BY <1>4 DEF CallbackStages
<1> QED BY <1>3, <1>4, <1>5, <1>6, ReadStep

LEMMA PayReadConsistent ==
    ASSUME Consistent, NEW r \in Requests, NEW o \in Orders,
           NEW purpose \in Purposes, PayRead(r, o, purpose)
    PROVE  Consistent'
BY ReadForPaymentConsistent DEF PayRead

LEMMA PayWriteConsistent ==
    ASSUME Consistent, NEW r \in Requests, PayWrite(r)
    PROVE  Consistent'
<1> DEFINE o == req[r].order
<1>1. /\ o \in Orders /\ req[r] \in Request
      /\ orders \in [Orders -> OrderRow]
      /\ payments \in [Payments -> PaymentRow]
  BY DEF PayWrite, Consistent, RequestOK, OrderStages, TypeOK
<1> DEFINE Attempt == [status |-> "pending", order |-> o,
                       purpose |-> req[r].purpose, amount |-> req[r].amount]
<1>2. /\ Attempt \in PaymentRow /\ Attempt.status = "pending"
      /\ Attempt.order \in Orders
  BY <1>1 DEF PaymentRow, PaymentStatuses, Request
<1> HIDE DEF Attempt
<1>3. PICK p \in Payments :
         /\ payments[p].status = "absent"
         /\ payments' = [payments EXCEPT ![p] = Attempt]
  BY Zenon DEF PayWrite, Attempt
<1>4. orders' \in [Orders -> OrderRow]
  <2>1. "payment_pending" \in OrderStatuses BY DEF OrderStatuses
  <2>2. SetStatus(o, "payment_pending") \/ UNCHANGED orders
    BY DEF PayWrite
  <2> QED BY <1>1, <2>1, <2>2, SetStatusType
<1>5. /\ req' \in [Requests -> Request] /\ req'[r] = Idle
      /\ \A s \in Requests \ {r} : req'[s] = req[s]
  BY NullRows, BecomesType DEF Consistent, TypeOK, PayWrite
<1>6. /\ payments' \in [Payments -> PaymentRow] /\ payments'[p] = Attempt
      /\ \A q \in Payments \ {p} : payments'[q] = payments[q]
  BY <1>1, <1>2, <1>3
<1>7. TypeOK'
  BY <1>4, <1>5, <1>6 DEF Consistent, TypeOK, PayWrite, gateway, shop
<1>8. Grows
  BY <1>3, <1>6 DEF Grows, PayWrite, gateway
<1>9. \A s \in Requests : RequestOK(s)'
  BY <1>5, <1>8, OthersStayOK, IdleOK
<1>10. \A q \in Payments : PaymentOK(q)'
  BY <1>2, <1>6 DEF Consistent, PaymentOK, PayWrite, gateway
<1> QED BY <1>7, <1>9, <1>10 DEF Consistent

LEMMA GatewayConsistent ==
    ASSUME Consistent, NEW p \in Payments,
           GatewayCharges(p) \/ GatewayDeclines(p)
    PROVE  Consistent'
<1>1. /\ UNCHANGED <<orders, payments, redeemed, jarLock, shop, notices,
                     acked, req, crashes>>
      /\ payments[p].status # "absent"
      /\ charged \subseteq charged' /\ charged' \subseteq charged \cup {p}
      /\ declined' \subseteq declined \cup {p}
  BY DEF GatewayCharges, GatewayDeclines
<1>2. TypeOK'
  BY <1>1 DEF Consistent, TypeOK, shop
<1>3. Grows
  BY <1>1 DEF Grows
<1>4. \A s \in Requests : RequestOK(s)'
  BY <1>1, <1>3, OthersStayOK
<1>5. \A q \in Payments : PaymentOK(q)'
  BY <1>1 DEF Consistent, PaymentOK
<1> QED BY <1>2, <1>4, <1>5 DEF Consistent

\* The first step of a callback: the payment is on record, so is its order.
LEMMA CallbackRequestConsistent ==
    ASSUME Consistent, NEW r \in Requests, NEW p \in Payments,
           NEW stage \in {"refuse", "check"}, payments[p].status # "absent",
           stage = "check" => p \in charged,
           Becomes(r, CallbackRequest(p, stage)),
           UNCHANGED <<orders, payments, redeemed, jarLock, shop, notices,
                       gateway, crashes>>
    PROVE  Consistent'
<1> DEFINE record == CallbackRequest(p, stage)
<1>1. /\ payments[p].order \in Orders /\ payments[p].purpose \in Purposes
      /\ orders[payments[p].order].status \in OrderStatuses
      /\ stage \in Stages
  BY DEF Consistent, PaymentOK, TypeOK, PaymentRow, OrderRow, Stages
<1>2. record \in Request
  BY <1>1, NullRows, RequestFields, Zenon DEF CallbackRequest
<1>3. /\ record.stage = stage /\ record.pay = p
      /\ record.order = payments[p].order
      /\ record.purpose = payments[p].purpose
  BY Zenon DEF CallbackRequest, Idle
<1>4. /\ req' \in [Requests -> Request] /\ req'[r] = record
      /\ \A s \in Requests \ {r} : req'[s] = req[s]
  BY <1>2, BecomesType DEF Consistent, TypeOK
<1> HIDE DEF record
<1>5. TypeOK'
  BY <1>4 DEF Consistent, TypeOK, gateway, shop
<1>6. RequestOK(r)'
  BY <1>1, <1>3, <1>4
     DEF RequestOK, OrderStages, CallbackStages, gateway
<1> QED BY <1>4, <1>5, <1>6, QuietStep DEF gateway

LEMMA RefuseReadConsistent ==
    ASSUME Consistent, NEW r \in Requests, NEW p \in Payments,
           RefuseRead(r, p)
    PROVE  Consistent'
BY CallbackRequestConsistent DEF RefuseRead

\* A step that gives a payment another status, and ends its handler.
LEMMA PaymentStatusType ==
    ASSUME payments \in [Payments -> PaymentRow], NEW p \in Payments,
           NEW status \in PaymentStatuses,
           payments' = [payments EXCEPT ![p].status = status]
    PROVE  /\ payments' \in [Payments -> PaymentRow]
           /\ payments'[p].status = status
           /\ payments'[p].order = payments[p].order
           /\ payments'[p].purpose = payments[p].purpose
           /\ \A q \in Payments \ {p} : payments'[q] = payments[q]
BY DEF PaymentRow

LEMMA PaymentStatusStep ==
    ASSUME Consistent, NEW r \in Requests, NEW p \in Payments,
           NEW status \in PaymentStatuses \ {"absent"},
           payments[p].status # "absent", Becomes(r, Idle),
           payments' = [payments EXCEPT ![p].status = status],
           orders' \in [Orders -> OrderRow],
           notices' \subseteq {"paid", "completed"} \X Orders,
           acked' \subseteq charged,
           UNCHANGED <<redeemed, jarLock, shop, declined, charged, crashes>>
    PROVE  Consistent'
<1>1. /\ payments' \in [Payments -> PaymentRow]
      /\ payments'[p].status = status
      /\ payments'[p].order = payments[p].order
      /\ payments'[p].purpose = payments[p].purpose
      /\ \A q \in Payments \ {p} : payments'[q] = payments[q]
  BY PaymentStatusType DEF Consistent, TypeOK
<1>2. /\ req' \in [Requests -> Request] /\ req'[r] = Idle
      /\ \A s \in Requests \ {r} : req'[s] = req[s]
  BY NullRows, BecomesType DEF Consistent, TypeOK
<1>3. TypeOK'
  BY <1>1, <1>2 DEF Consistent, TypeOK, shop
<1>4. Grows
  BY <1>1 DEF Grows
<1>5. \A s \in Requests : RequestOK(s)'
  BY <1>2, <1>4, OthersStayOK, IdleOK
<1>6. \A q \in Payments : PaymentOK(q)'
  BY <1>1 DEF Consistent, PaymentOK
<1> QED BY <1>3, <1>5, <1>6 DEF Consistent

LEMMA RefuseWriteConsistent ==
    ASSUME Consistent, NEW r \in Requests, RefuseWrite(r)
    PROVE  Consistent'
<1>1. /\ req[r].order \in Orders /\ req[r].pay \in Payments
      /\ payments[req[r].pay].status # "absent"
      /\ "failed" \in PaymentStatuses \ {"absent"}
      /\ "payment_failed" \in OrderStatuses
  BY DEF Consistent, RequestOK, RefuseWrite, PaymentStatuses, OrderStatuses
<1>2. orders' \in [Orders -> OrderRow]
  <2>1. SetStatus(req[r].order, "payment_failed") \/ UNCHANGED orders
    BY DEF RefuseWrite
  <2>2. orders \in [Orders -> OrderRow]
    BY DEF Consistent, TypeOK
  <2> QED BY <1>1, <2>1, <2>2, SetStatusType
<1>3. payments' = [payments EXCEPT ![req[r].pay].status = "failed"]
  BY DEF RefuseWrite
<1>4. /\ notices' \subseteq {"paid", "completed"} \X Orders
      /\ acked' \subseteq charged
      /\ UNCHANGED <<redeemed, jarLock, shop, declined, charged, crashes>>
  BY DEF RefuseWrite, Consistent, TypeOK, gateway
<1> QED BY <1>1, <1>2, <1>3, <1>4, PaymentStatusStep DEF RefuseWrite

LEMMA CallbackReadConsistent ==
    ASSUME Consistent, NEW r \in Requests, NEW p \in Payments,
           CallbackRead(r, p)
    PROVE  Consistent'
<1>1. CASE acked' = acked \cup {p} /\ UNCHANGED req
  <2>1. TypeOK'
    BY <1>1 DEF Consistent, TypeOK, CallbackRead, SuccessCode, shop
  <2>2. Grows
    BY DEF CallbackRead, Grows
  <2>3. \A s \in Requests : RequestOK(s)'
    BY <1>1, <2>2, OthersStayOK
  <2>4. \A q \in Payments : PaymentOK(q)'
    BY DEF CallbackRead, Consistent, PaymentOK
  <2> QED BY <2>1, <2>3, <2>4 DEF Consistent
<1>2. CASE Becomes(r, CallbackRequest(p, "check")) /\ UNCHANGED acked
  <2>1. p \in charged /\ payments[p].status # "absent"
    BY DEF CallbackRead, SuccessCode, Consistent, PaymentOK
  <2> QED BY <1>2, <2>1, CallbackRequestConsistent DEF CallbackRead, gateway
<1> QED BY <1>1, <1>2 DEF CallbackRead

\* A handler of a callback that has got as far as its transaction.
LEMMA CallbackStage ==
    ASSUME Consistent, NEW r \in Requests, req[r].stage \in CallbackStages
    PROVE  /\ req[r] \in Request /\ req[r].order \in Orders
           /\ req[r].pay \in Payments /\ req[r].pay \in charged
           /\ payments[req[r].pay].status # "absent"
           /\ payments[req[r].pay].order = req[r].order
           /\ payments[req[r].pay].purpose = req[r].purpose
BY DEF Consistent, TypeOK, RequestOK, CallbackStages

LEMMA DuplicateConsistent ==
    ASSUME Consistent, NEW r \in Requests, req[r].stage \in CallbackStages,
           MarkDuplicate(req[r].pay), Acknowledge(r),
           UNCHANGED <<orders, redeemed, jarLock, shop, notices, declined,
                       charged, crashes>>
    PROVE  Consistent'
<1>1. PICK status \in {"paid", "duplicate_paid"} :
         payments' = [payments EXCEPT ![req[r].pay].status = status]
  <2>1. CASE payments[req[r].pay].status = "paid"
    BY <2>1 DEF MarkDuplicate
  <2>2. CASE payments[req[r].pay].status # "paid"
    BY <2>2 DEF MarkDuplicate
  <2> QED BY <2>1, <2>2
<1>2. status \in PaymentStatuses \ {"absent"}
  BY DEF PaymentStatuses
<1>3. /\ orders' \in [Orders -> OrderRow]
      /\ notices' \subseteq {"paid", "completed"} \X Orders
      /\ acked' \subseteq charged
  BY CallbackStage DEF Consistent, TypeOK, Acknowledge
<1> QED BY <1>1, <1>2, <1>3, CallbackStage, PaymentStatusStep
        DEF Acknowledge

\* A handler of a callback that goes on to its next transaction.
LEMMA NextStageConsistent ==
    ASSUME Consistent, NEW r \in Requests, req[r].stage \in CallbackStages,
           NEW stage \in CallbackStages,
           Becomes(r, [req[r] EXCEPT !.stage = stage]),
           UNCHANGED <<orders, payments, redeemed, jarLock, shop, notices,
                       gateway, crashes>>
    PROVE  Consistent'
<1> DEFINE record == [req[r] EXCEPT !.stage = stage]
<1>1. /\ record \in Request /\ record.stage = stage
      /\ record.order = req[r].order /\ record.pay = req[r].pay
      /\ record.purpose = req[r].purpose
  BY CallbackStage DEF Request, Stages, CallbackStages
<1> HIDE DEF record
<1>2. /\ req' \in [Requests -> Request] /\ req'[r] = record
      /\ \A s \in Requests \ {r} : req'[s] = req[s]
  BY <1>1, BecomesType DEF Consistent, TypeOK, record
<1>3. TypeOK'
  BY <1>2 DEF Consistent, TypeOK, gateway, shop
<1>4. RequestOK(r)'
  BY <1>1, <1>2, CallbackStage
     DEF RequestOK, OrderStages, CallbackStages, gateway
<1> QED BY <1>2, <1>3, <1>4, QuietStep DEF gateway

\* A handler that ends without a trace but an answer.
LEMMA AnswerConsistent ==
    ASSUME Consistent, NEW r \in Requests, Becomes(r, Idle),
           acked' \subseteq charged,
           UNCHANGED <<orders, payments, redeemed, jarLock, shop, notices,
                       declined, charged>>,
           crashes' \in 0..MaxCrashes
    PROVE  Consistent'
<1>1. /\ req' \in [Requests -> Request] /\ req'[r] = Idle
      /\ \A s \in Requests \ {r} : req'[s] = req[s]
  BY NullRows, BecomesType DEF Consistent, TypeOK
<1>2. TypeOK'
  BY <1>1 DEF Consistent, TypeOK, shop
<1> QED BY <1>1, <1>2, IdleOK, QuietStep

LEMMA CallbackCheckConsistent ==
    ASSUME Consistent, NEW r \in Requests, CallbackCheck(r)
    PROVE  Consistent'
<1>1. req[r].stage \in CallbackStages /\ "settle" \in CallbackStages
  BY DEF CallbackCheck, CallbackStages
<1>2. CASE MarkDuplicate(req[r].pay) /\ Acknowledge(r)
  BY <1>1, <1>2, DuplicateConsistent DEF CallbackCheck
<1>3. CASE /\ Becomes(r, [req[r] EXCEPT !.stage = "settle"])
           /\ UNCHANGED <<payments, acked>>
  BY <1>1, <1>3, NextStageConsistent DEF CallbackCheck, gateway
<1> QED BY <1>2, <1>3 DEF CallbackCheck

LEMMA AdvanceType ==
    ASSUME Consistent, NEW r \in Requests, req[r].stage \in CallbackStages,
           Advance(r)
    PROVE  orders' \in [Orders -> OrderRow]
<1> DEFINE o == req[r].order
<1>1. o \in Orders /\ orders \in [Orders -> OrderRow]
      /\ orders[o] \in OrderRow
  BY CallbackStage DEF Consistent, TypeOK
<1> HIDE DEF o
<1>2. /\ "paid_waiting_return" \in OrderStatuses /\ TRUE \in BOOLEAN
      /\ "first" \in OrderTypes /\ ExtraTopup \in {0, ExtraTopup}
  BY DEF OrderStatuses, OrderTypes
<1> DEFINE Paid == [orders[o] EXCEPT !.status = "paid_waiting_return",
                                     !.paid = TRUE]
           ToppedUp == [orders[o] EXCEPT !.status = "paid_waiting_return",
                                         !.mode = "first",
                                         !.extra = ExtraTopup]
<1>3. Paid \in OrderRow /\ ToppedUp \in OrderRow
  BY <1>1, <1>2, RowFields, Zenon
<1>4. \/ UNCHANGED orders
      \/ orders' = [orders EXCEPT ![o] = Paid]
      \/ orders' = [orders EXCEPT ![o] = ToppedUp]
  <2>1. CASE UNCHANGED orders
    BY <2>1
  <2>2. CASE orders' = [orders EXCEPT ![o].status = "paid_waiting_return",
                                      ![o].paid = TRUE]
    BY <1>1, <2>2, Zenon
  <2>3. CASE orders' = [orders EXCEPT ![o].status = "paid_waiting_return",
                                      ![o].mode = "first",
                                      ![o].extra = ExtraTopup]
    BY <1>1, <2>3, Zenon
  <2> QED BY <2>1, <2>2, <2>3, Zenon DEF Advance, o
<1> HIDE DEF Paid, ToppedUp
<1> QED BY <1>1, <1>3, <1>4, SetRowType

LEMMA CallbackSettleConsistent ==
    ASSUME Consistent, NEW r \in Requests, CallbackSettle(r)
    PROVE  Consistent'
<1> DEFINE p == req[r].pay
<1>1. req[r].stage \in CallbackStages /\ "duplicate" \in CallbackStages
  BY DEF CallbackSettle, CallbackStages
<1>2. CASE Acknowledge(r) /\ UNCHANGED <<orders, payments, notices>>
  BY <1>1, <1>2, CallbackStage, AnswerConsistent
     DEF CallbackSettle, Acknowledge, Consistent, TypeOK
<1>3. CASE /\ Becomes(r, [req[r] EXCEPT !.stage = "duplicate"])
           /\ UNCHANGED <<orders, payments, notices, acked>>
  BY <1>1, <1>3, NextStageConsistent DEF CallbackSettle, gateway
<1>4. CASE /\ payments' = [payments EXCEPT ![p].status = "paid"]
           /\ Advance(r)
           /\ notices' = notices \cup {<<"paid", req[r].order>>}
           /\ Acknowledge(r)
  <2>1. "paid" \in PaymentStatuses \ {"absent"}
    BY DEF PaymentStatuses
  <2>2. /\ notices' \subseteq {"paid", "completed"} \X Orders
        /\ acked' \subseteq charged
    BY <1>1, <1>4, CallbackStage DEF Consistent, TypeOK, Acknowledge
  <2> QED BY <1>1, <1>4, <2>1, <2>2, CallbackStage, AdvanceType,
             PaymentStatusStep DEF CallbackSettle, Acknowledge
<1> QED BY <1>2, <1>3, <1>4 DEF CallbackSettle

LEMMA CallbackDuplicateConsistent ==
    ASSUME Consistent, NEW r \in Requests, CallbackDuplicate(r)
    PROVE  Consistent'
<1>1. req[r].stage \in CallbackStages
  BY DEF CallbackDuplicate, CallbackStages
<1>2. CASE MarkDuplicate(req[r].pay) /\ Acknowledge(r)
  BY <1>1, <1>2, DuplicateConsistent DEF CallbackDuplicate
<1>3. CASE Becomes(r, Idle) /\ UNCHANGED <<payments, acked>>
  BY <1>3, AnswerConsistent DEF CallbackDuplicate, Consistent, TypeOK
<1> QED BY <1>2, <1>3 DEF CallbackDuplicate

LEMMA CancelConsistent ==
    ASSUME Consistent, NEW o \in Orders, Cancel(o)
    PROVE  Consistent'
<1>1. orders' \in [Orders -> OrderRow]
  <2>1. "cancelled" \in OrderStatuses BY DEF OrderStatuses
  <2> QED BY <2>1, SetStatusType DEF Cancel, Consistent, TypeOK
<1>2. jarLock' \in [Jars -> Orders \cup {None}]
  BY DEF Cancel, ReleaseJars, Consistent, TypeOK
<1>3. TypeOK'
  BY <1>1, <1>2 DEF Cancel, Consistent, TypeOK, gateway, shop
<1>4. \A s \in Requests : RequestOK(s)'
  BY OthersStayOK, GrowsUnchanged DEF Cancel, gateway
<1>5. \A p \in Payments : PaymentOK(p)'
  BY DEF Cancel, Consistent, PaymentOK, gateway
<1> QED BY <1>3, <1>4, <1>5 DEF Consistent

LEMMA RedeemJarCodeConsistent ==
    ASSUME Consistent, NEW j \in Jars, RedeemJarCode(j)
    PROVE  Consistent'
<1>1. TypeOK'
  BY DEF RedeemJarCode, Consistent, TypeOK, gateway, shop
<1>2. Grows
  BY DEF RedeemJarCode, Grows, gateway
<1>3. \A s \in Requests : RequestOK(s)'
  BY <1>2, OthersStayOK DEF RedeemJarCode
<1>4. \A p \in Payments : PaymentOK(p)'
  BY DEF RedeemJarCode, Consistent, PaymentOK, gateway
<1> QED BY <1>1, <1>3, <1>4 DEF Consistent

LEMMA CompleteDeliveryConsistent ==
    ASSUME Consistent, NEW o \in Orders, NEW q \in 1..MaxQty,
           CompleteDelivery(o, q)
    PROVE  Consistent'
<1> DEFINE row == [orders[o] EXCEPT !.status = "completed", !.quantity = q]
<1>1. /\ orders \in [Orders -> OrderRow] /\ orders[o] \in OrderRow
      /\ "completed" \in OrderStatuses /\ q \in 0..MaxQty /\ q \in Nat
      /\ stock \in 0..InitStock /\ InitStock \in Nat
  BY ConstantsAssumption DEF Consistent, TypeOK, OrderStatuses
<1>2. orders' \in [Orders -> OrderRow]
  <2>1. row \in OrderRow
    BY <1>1, RowFields, Zenon
  <2>2. orders' = [orders EXCEPT ![o] = row]
    BY <1>1, Zenon DEF CompleteDelivery
  <2> HIDE DEF row
  <2> QED BY <1>1, <2>1, <2>2, SetRowType
<1>3. stock' \in 0..InitStock /\ handed' \in [Orders -> Nat]
  BY <1>1 DEF CompleteDelivery, InStock, Consistent, TypeOK
<1>4. TypeOK'
  BY <1>2, <1>3 DEF CompleteDelivery, Consistent, TypeOK, gateway
<1>5. \A s \in Requests : RequestOK(s)'
  BY OthersStayOK, GrowsUnchanged DEF CompleteDelivery, gateway
<1>6. \A p \in Payments : PaymentOK(p)'
  BY DEF CompleteDelivery, Consistent, PaymentOK, gateway
<1> QED BY <1>4, <1>5, <1>6 DEF Consistent

LEMMA MissingReadConsistent ==
    ASSUME Consistent, NEW r \in Requests, NEW o \in Orders,
           MissingRead(r, o)
    PROVE  Consistent'
<1> DEFINE record == [Idle EXCEPT !.stage = "missing", !.order = o]
<1>1. "missing" \in Stages BY DEF Stages
<1>2. record \in Request BY <1>1, NullRows, RequestFields, Zenon
<1>3. record.stage = "missing" /\ record.order = o BY Zenon DEF Idle
<1>4. Becomes(r, record) BY Zenon DEF MissingRead
<1> HIDE DEF record
<1>5. record.stage \notin CallbackStages \cup {"refuse", "claim"}
  BY <1>3 DEF CallbackStages
<1> QED BY <1>2, <1>3, <1>4, <1>5, ReadStep DEF MissingRead

LEMMA MissingWriteConsistent ==
    ASSUME Consistent, NEW r \in Requests, MissingWrite(r)
    PROVE  Consistent'
<1> DEFINE record == [req[r] EXCEPT !.stage = "topup"]
<1>1. /\ req[r] \in Request /\ req[r].order \in Orders
      /\ orders \in [Orders -> OrderRow]
  BY DEF MissingWrite, Consistent, TypeOK, RequestOK, OrderStages
<1>2. /\ record \in Request /\ record.stage = "topup"
      /\ record.order \in Orders
  BY <1>1 DEF Request, Stages
<1>3. Becomes(r, record) BY DEF MissingWrite
<1> HIDE DEF record
<1>4. /\ req' \in [Requests -> Request] /\ req'[r] = record
      /\ \A s \in Requests \ {r} : req'[s] = req[s]
  BY <1>2, <1>3, BecomesType DEF Consistent, TypeOK
<1>5. orders' \in [Orders -> OrderRow]
  <2>1. "awaiting_extra_payment" \in OrderStatuses BY DEF OrderStatuses
  <2> QED BY <1>1, <2>1, SetStatusType DEF MissingWrite
<1>6. TypeOK'
  BY <1>4, <1>5 DEF MissingWrite, Consistent, TypeOK, gateway, shop
<1>7. RequestOK(r)'
  BY <1>2, <1>4 DEF RequestOK, CallbackStages
<1> QED BY <1>4, <1>6, <1>7, QuietStep DEF MissingWrite, gateway

LEMMA MissingPayReadConsistent ==
    ASSUME Consistent, NEW r \in Requests, MissingPayRead(r)
    PROVE  Consistent'
<1>1. req[r].order \in Orders /\ "extra_topup" \in Purposes
  BY DEF MissingPayRead, Consistent, RequestOK, OrderStages, Purposes
<1>2. \/ ReadForPayment(r, req[r].order, "extra_topup")
      \/ Becomes(r, Idle)
  BY DEF MissingPayRead
<1>3. CASE ReadForPayment(r, req[r].order, "extra_topup")
  BY <1>1, <1>3, ReadForPaymentConsistent DEF MissingPayRead
<1>4. CASE Becomes(r, Idle)
  BY <1>4, AnswerConsistent DEF MissingPayRead, gateway, Consistent, TypeOK
<1> QED BY <1>2, <1>3, <1>4

LEMMA CrashConsistent ==
    ASSUME Consistent, NEW r \in Requests, Crash(r)
    PROVE  Consistent'
<1>1. crashes' \in 0..MaxCrashes
  BY ConstantsAssumption DEF Crash, Consistent, TypeOK
<1> QED BY <1>1, AnswerConsistent DEF Crash, gateway, Consistent, TypeOK

LEMMA StutterConsistent ==
    ASSUME Consistent, UNCHANGED vars
    PROVE  Consistent'
<1> USE DEF vars, gateway, shop
<1>1. TypeOK'
  BY DEF Consistent, TypeOK
<1>2. \A s \in Requests : RequestOK(s)'
  BY OthersStayOK, GrowsUnchanged
<1>3. \A p \in Payments : PaymentOK(p)'
  BY DEF Consistent, PaymentOK
<1> QED BY <1>1, <1>2, <1>3 DEF Consistent

LEMMA NextConsistent == Consistent /\ [Next]_vars => Consistent'
<1> SUFFICES ASSUME Consistent, [Next]_vars PROVE Consistent'
  OBVIOUS
<1>1. ASSUME NEW r \in Requests, Continue(r) PROVE Consistent'
  BY <1>1, RefreshReadConsistent, ReserveReadConsistent,
     ReserveClaimConsistent, PayWriteConsistent, RefuseWriteConsistent,
     CallbackCheckConsistent, CallbackSettleConsistent,
     CallbackDuplicateConsistent, MissingWriteConsistent,
     MissingPayReadConsistent DEF Continue
<1>2. ASSUME NEW r \in Requests, Crash(r) PROVE Consistent'
  BY <1>2, CrashConsistent
<1>3. ASSUME NEW r \in Requests, NEW a \in Appointments,
             NEW k \in {a} \cup ClientKeys, CreateRead(r, a, k)
      PROVE  Consistent'
  BY <1>3, CreateReadConsistent
<1>4. ASSUME NEW r \in Requests, NEW o \in Orders,
             NEW purpose \in Purposes, PayRead(r, o, purpose)
      PROVE  Consistent'
  BY <1>4, PayReadConsistent
<1>5. ASSUME NEW r \in Requests, NEW p \in Payments,
             RefuseRead(r, p) \/ CallbackRead(r, p)
      PROVE  Consistent'
  BY <1>5, RefuseReadConsistent, CallbackReadConsistent
<1>6. ASSUME NEW r \in Requests, NEW o \in Orders, MissingRead(r, o)
      PROVE  Consistent'
  BY <1>6, MissingReadConsistent
<1>7. ASSUME NEW o \in Orders, Cancel(o) PROVE Consistent'
  BY <1>7, CancelConsistent
<1>8. ASSUME NEW o \in Orders, NEW q \in 1..MaxQty, CompleteDelivery(o, q)
      PROVE  Consistent'
  BY <1>8, CompleteDeliveryConsistent
<1>9. ASSUME NEW j \in Jars, RedeemJarCode(j) PROVE Consistent'
  BY <1>9, RedeemJarCodeConsistent
<1>10. ASSUME NEW p \in Payments, GatewayCharges(p) \/ GatewayDeclines(p)
       PROVE  Consistent'
  BY <1>10, GatewayConsistent
<1>11. CASE UNCHANGED vars
  BY <1>11, StutterConsistent
<1> QED
  BY <1>1, <1>2, <1>3, <1>4, <1>5, <1>6, <1>7, <1>8, <1>9, <1>10, <1>11
     DEF Next

\* Every row and every request keeps the shape of its table, and a callback
\* in flight always knows the order its payment belongs to.
THEOREM AlwaysConsistent == Spec => []Consistent
<1>1. Init => Consistent BY ConsistentInit
<1>2. Consistent /\ [Next]_vars => Consistent' BY NextConsistent
<1> QED BY <1>1, <1>2, PTL DEF Spec

\* The type invariant of lib/refill's rows and handlers, whatever the number
\* of orders, payments, jars and requests.
THEOREM TypeCorrect == Spec => []TypeOK
<1>1. Consistent => TypeOK BY DEF Consistent
<1> QED BY <1>1, AlwaysConsistent, PTL

(***************************************************************************)
(* What the shop may rely on about money: one winning payment for each     *)
(* bill, and no refill handed over whose price was not taken.              *)
(***************************************************************************)
\* Payments keep their bill, charges and codes are never taken back.
LEMMA NextGrows == Consistent /\ [Next]_vars => Grows
<1> SUFFICES ASSUME Consistent, [Next]_vars PROVE Grows
  OBVIOUS
<1> USE DEF Grows, gateway
<1>1. payments \in [Payments -> PaymentRow]
  BY DEF Consistent, TypeOK
<1>2. ASSUME NEW r \in Requests, RefuseWrite(r) PROVE Grows
  BY <1>1, <1>2 DEF RefuseWrite, PaymentRow
<1>3. ASSUME NEW p, MarkDuplicate(p), UNCHANGED <<redeemed, charged>>
      PROVE  Grows
  BY <1>1, <1>3 DEF MarkDuplicate, PaymentRow
<1>4. ASSUME NEW r \in Requests, CallbackSettle(r) PROVE Grows
  <2>1. \/ UNCHANGED payments
        \/ payments' = [payments EXCEPT ![req[r].pay].status = "paid"]
    BY <1>4 DEF CallbackSettle
  <2>2. UNCHANGED <<redeemed, charged>>
    BY <1>4 DEF CallbackSettle
  <2> QED BY <1>1, <2>1, <2>2 DEF PaymentRow
<1>5. ASSUME NEW r \in Requests, PayWrite(r) PROVE Grows
  <2> DEFINE Attempt == [status |-> "pending", order |-> req[r].order,
                         purpose |-> req[r].purpose, amount |-> req[r].amount]
  <2>1. PICK p \in Payments :
           /\ payments[p].status = "absent"
           /\ payments' = [payments EXCEPT ![p] = Attempt]
    BY <1>5 DEF PayWrite
  <2> HIDE DEF Attempt
  <2> QED BY <1>1, <1>5, <2>1 DEF PayWrite
<1>6. ASSUME NEW r \in Requests, Continue(r) PROVE Grows
  <2>1. CASE CallbackCheck(r) \/ CallbackDuplicate(r)
    <3>1. UNCHANGED payments \/ MarkDuplicate(req[r].pay)
      BY <2>1 DEF CallbackCheck, CallbackDuplicate
    <3>2. UNCHANGED <<redeemed, charged>>
      BY <2>1 DEF CallbackCheck, CallbackDuplicate
    <3> QED BY <1>3, <3>1, <3>2
  <2>2. CASE \/ RefreshRead(r) \/ ReserveRead(r) \/ ReserveClaim(r)
             \/ MissingWrite(r) \/ MissingPayRead(r)
    BY <2>2 DEF RefreshRead, ReserveRead, ReserveClaim, MissingWrite,
                MissingPayRead
  <2> QED BY <1>2, <1>4, <1>5, <1>6, <2>1, <2>2 DEF Continue
<1>7. CASE UNCHANGED vars
  BY <1>7 DEF vars
<1>8. CASE \E p \in Payments : GatewayCharges(p) \/ GatewayDeclines(p)
  BY <1>8 DEF GatewayCharges, GatewayDeclines
<1>9. CASE \/ \E r \in Requests : Crash(r)
           \/ \E r \in Requests, a \in Appointments :
                 \E k \in {a} \cup ClientKeys : CreateRead(r, a, k)
           \/ \E r \in Requests, o \in Orders, purpose \in Purposes :
                 PayRead(r, o, purpose)
           \/ \E r \in Requests, p \in Payments :
                 RefuseRead(r, p) \/ CallbackRead(r, p)
           \/ \E r \in Requests, o \in Orders : MissingRead(r, o)
           \/ \E o \in Orders : Cancel(o)
           \/ \E o \in Orders, q \in 1..MaxQty : CompleteDelivery(o, q)
           \/ \E j \in Jars : RedeemJarCode(j)
  BY <1>9 DEF Crash, CreateRead, PayRead, RefuseRead, CallbackRead,
              MissingRead, Cancel, CompleteDelivery, RedeemJarCode
<1> QED BY <1>6, <1>7, <1>8, <1>9 DEF Next

-----------------------------------------------------------------------------
(* One winner. *)

\* No payment of a bill turns 'paid', except where handleEcpayCallback claims
\* it and sees no other.
NoNewWinner ==
    \A p \in Payments : payments'[p].status = "paid" =>
        /\ payments[p].status = "paid"
        /\ payments'[p].order = payments[p].order
        /\ payments'[p].purpose = payments[p].purpose

LEMMA NoNewWinnerSafe == OneWinner /\ NoNewWinner => OneWinner'
BY DEF OneWinner, NoNewWinner

LEMMA SettleOneWinner ==
    ASSUME Consistent, OneWinner, NEW p \in Payments,
           payments' = [payments EXCEPT ![p].status = "paid"],
           OtherPaid(p) = {}
    PROVE  OneWinner'
<1>1. payments \in [Payments -> PaymentRow]
      /\ "paid" \in PaymentStatuses
  BY DEF Consistent, TypeOK, PaymentStatuses
<1>2. /\ payments'[p].status = "paid"
      /\ payments'[p].order = payments[p].order
      /\ payments'[p].purpose = payments[p].purpose
      /\ \A q \in Payments \ {p} : payments'[q] = payments[q]
  BY <1>1, PaymentStatusType
<1> QED BY <1>2 DEF OneWinner, OtherPaid

LEMMA NextOneWinner == Consistent /\ OneWinner /\ [Next]_vars => OneWinner'
<1> SUFFICES ASSUME Consistent, OneWinner, [Next]_vars PROVE OneWinner'
  OBVIOUS
<1>1. payments \in [Payments -> PaymentRow]
  BY DEF Consistent, TypeOK
<1>2. CASE UNCHANGED payments
  BY <1>2, NoNewWinnerSafe DEF NoNewWinner
<1>3. ASSUME NEW r \in Requests, RefuseWrite(r) PROVE OneWinner'
  <2>1. NoNewWinner
    BY <1>1, <1>3 DEF RefuseWrite, NoNewWinner, PaymentRow
  <2> QED BY <2>1, NoNewWinnerSafe
<1>4. ASSUME NEW p, MarkDuplicate(p) PROVE OneWinner'
  <2>1. NoNewWinner
    BY <1>1, <1>4 DEF MarkDuplicate, NoNewWinner, PaymentRow
  <2> QED BY <2>1, NoNewWinnerSafe
<1>5. ASSUME NEW r \in Requests, CallbackSettle(r) PROVE OneWinner'
  <2>1. req[r].pay \in Payments
    BY <1>5, CallbackStage DEF CallbackSettle, CallbackStages
  <2>2. \/ UNCHANGED payments
        \/ /\ payments' = [payments EXCEPT ![req[r].pay].status = "paid"]
           /\ OtherPaid(req[r].pay) = {}
    BY <1>5 DEF CallbackSettle
  <2> QED BY <1>2, <2>1, <2>2, SettleOneWinner
<1>6. ASSUME NEW r \in Requests, PayWrite(r) PROVE OneWinner'
  <2> DEFINE Attempt == [status |-> "pending", order |-> req[r].order,
                         purpose |-> req[r].purpose, amount |-> req[r].amount]
  <2>1. PICK p \in Payments :
           /\ payments[p].status = "absent"
           /\ payments' = [payments EXCEPT ![p] = Attempt]
    BY <1>6 DEF PayWrite
  <2>2. Attempt.status # "paid"
    OBVIOUS
  <2> HIDE DEF Attempt
  <2>3. NoNewWinner
    BY <1>1, <2>1, <2>2 DEF NoNewWinner
  <2> QED BY <2>3, NoNewWinnerSafe
<1>7. \/ UNCHANGED payments
      \/ \E r \in Requests : RefuseWrite(r) \/ CallbackSettle(r) \/ PayWrite(r)
      \/ \E p : MarkDuplicate(p)
  <2>1. ASSUME NEW r \in Requests, Continue(r)
        PROVE  \/ UNCHANGED payments
               \/ RefuseWrite(r) \/ CallbackSettle(r) \/ PayWrite(r)
               \/ \E p : MarkDuplicate(p)
    BY <2>1 DEF Continue, RefreshRead, ReserveRead, ReserveClaim,
       CallbackCheck, CallbackDuplicate, MissingWrite, MissingPayRead
  <2>2. CASE \E r \in Requests : Continue(r)
    BY <2>1, <2>2
  <2>3. CASE \/ UNCHANGED vars
             \/ \E p \in Payments : GatewayCharges(p) \/ GatewayDeclines(p)
             \/ \E r \in Requests : Crash(r)
             \/ \E r \in Requests, a \in Appointments :
                   \E k \in {a} \cup ClientKeys : CreateRead(r, a, k)
             \/ \E r \in Requests, o \in Orders, purpose \in Purposes :
                   PayRead(r, o, purpose)
             \/ \E r \in Requests, p \in Payments :
                   RefuseRead(r, p) \/ CallbackRead(r, p)
             \/ \E r \in Requests, o \in Orders : MissingRead(r, o)
             \/ \E o \in Orders : Cancel(o)
             \/ \E o \in Orders, q \in 1..MaxQty : CompleteDelivery(o, q)
             \/ \E j \in Jars : RedeemJarCode(j)
    BY <2>3 DEF vars, GatewayCharges, GatewayDeclines, Crash, CreateRead,
       PayRead, RefuseRead, CallbackRead, MissingRead, Cancel,
       CompleteDelivery, RedeemJarCode
  <2> QED BY <2>2, <2>3 DEF Next
<1> QED BY <1>2, <1>3, <1>4, <1>5, <1>6, <1>7

\* At most one payment of an order and purpose is ever 'paid', however many
\* callbacks of however many attempts handleEcpayCallback serves at once.
THEOREM OneWinnerAlways == Spec => []OneWinner
<1>1. Init => OneWinner
  BY DEF Init, OneWinner, NoPaymentRow
<1>2. Consistent /\ Consistent' /\ OneWinner /\ [Next]_vars => OneWinner'
  BY NextOneWinner
<1> QED BY <1>1, <1>2, AlwaysConsistent, PTL DEF Spec

-----------------------------------------------------------------------------
(* No refill without its price. *)

RefillCharged(o) == \E p \in charged : /\ payments[p].order = o
                                       /\ payments[p].purpose = "refill"
SettledStatuses == {"paid_waiting_return", "awaiting_extra_payment",
                    "completed"}

\* An order is in a status that follows its payment only once it is charged,
\* and so is what a handler believes of the order it once read.
ChargedFirst ==
    /\ \A o \in Orders :
          orders[o].status \in SettledStatuses \/ handed[o] > 0 =>
              RefillCharged(o)
    /\ \A r \in Requests :
          /\ req[r].order \in Orders
          /\ req[r].stage = "missing" \/ req[r].seen \in SettledStatuses
          => RefillCharged(req[r].order)

\* The two halves of ChargedFirst after a step, by the charges before it.
OrdersFirst ==
    \A o \in Orders :
        orders'[o].status \in SettledStatuses \/ handed'[o] > 0 =>
            RefillCharged(o)
RequestsFirst ==
    \A r \in Requests :
        /\ req'[r].order \in Orders
        /\ req'[r].stage = "missing" \/ req'[r].seen \in SettledStatuses
        => RefillCharged(req'[r].order)

LEMMA FirstStep ==
    ASSUME Consistent, Grows, OrdersFirst, RequestsFirst
    PROVE  ChargedFirst'
<1>1. ASSUME NEW o, RefillCharged(o) PROVE RefillCharged(o)'
  BY <1>1 DEF RefillCharged, Consistent, TypeOK, PaymentOK, Grows
<1>2. (\A o \in Orders :
          orders[o].status \in SettledStatuses \/ handed[o] > 0 =>
              RefillCharged(o))'
  BY <1>1 DEF OrdersFirst
<1>3. (\A r \in Requests :
          /\ req[r].order \in Orders
          /\ req[r].stage = "missing" \/ req[r].seen \in SettledStatuses
          => RefillCharged(req[r].order))'
  BY <1>1 DEF RequestsFirst
<1> QED BY <1>2, <1>3 DEF ChargedFirst

LEMMA OrdersFirstSame ==
    ASSUME ChargedFirst, UNCHANGED handed,
           \A o \in Orders : orders'[o].status \in SettledStatuses =>
                                 orders[o].status \in SettledStatuses
    PROVE  OrdersFirst
BY DEF ChargedFirst, OrdersFirst

LEMMA SetStatusFirst ==
    ASSUME Consistent, ChargedFirst, UNCHANGED handed, NEW o,
           NEW status \in OrderStatuses \ SettledStatuses,
           SetStatus(o, status)
    PROVE  OrdersFirst
<1>1. orders \in [Orders -> OrderRow] BY DEF Consistent, TypeOK
<1>2. \A x \in Orders : orders'[x].status \in SettledStatuses =>
                            orders[x].status \in SettledStatuses
  BY <1>1 DEF SetStatus, OrderRow
<1> QED BY <1>2, OrdersFirstSame

LEMMA BecomesFirst ==
    ASSUME Consistent, ChargedFirst, NEW r \in Requests, NEW record,
           Becomes(r, record),
           /\ record.order \in Orders
           /\ record.stage = "missing" \/ record.seen \in SettledStatuses
           => RefillCharged(record.order)
    PROVE  RequestsFirst
<1>1. /\ req \in [Requests -> Request]
  BY DEF Consistent, TypeOK
<1>2. req'[r] = record /\ \A s \in Requests \ {r} : req'[s] = req[s]
  BY <1>1 DEF Becomes
<1> QED BY <1>2 DEF RequestsFirst, ChargedFirst

LEMMA IdleFirst ==
    ASSUME Consistent, ChargedFirst, NEW r \in Requests, Becomes(r, Idle)
    PROVE  RequestsFirst
<1>1. Idle.order \notin Orders
  BY ConstantsAssumption DEF Idle
<1> QED BY <1>1, BecomesFirst

\* A handler that goes on to another stage knows what it knew.
LEMMA StageFirst ==
    ASSUME Consistent, ChargedFirst, NEW r \in Requests, NEW record,
           Becomes(r, record), record.stage # "missing",
           record.order = req[r].order, record.seen = req[r].seen
    PROVE  RequestsFirst
BY BecomesFirst DEF ChargedFirst

LEMMA QualifiedStatus ==
    ASSUME NEW row \in OrderRow, NEW j
    PROVE  Qualified(row, j).status = row.status
<1> "status" \in DOMAIN row BY DEF OrderRow
<1> QED BY Zenon DEF Qualified

-----------------------------------------------------------------------------
(* ChargedFirst, action by action. *)

LEMMA CreateReadFirst ==
    ASSUME Consistent, ChargedFirst, NEW r \in Requests,
           NEW a \in Appointments, NEW k, CreateRead(r, a, k)
    PROVE  OrdersFirst /\ RequestsFirst
<1>1. OrdersFirst
  BY OrdersFirstSame DEF CreateRead, shop
<1> DEFINE Refreshing(o) == [Idle EXCEPT !.stage = "refresh", !.order = o]
           Creator == [Idle EXCEPT !.stage = "reserve", !.appt = a, !.key = k]
<1>2. PICK record \in {Refreshing(o) : o \in Orders} \cup {Creator} :
         Becomes(r, record)
  BY Zenon DEF CreateRead, WithKey, ActiveFor
<1>3. \A o : Refreshing(o).stage = "refresh" /\ Refreshing(o).seen = "absent"
  BY Zenon DEF Idle
<1>4. Creator.stage = "reserve" /\ Creator.seen = "absent"
  BY Zenon DEF Idle
<1> HIDE DEF Refreshing, Creator
<1>5. record.stage # "missing" /\ record.seen \notin SettledStatuses
  BY <1>3, <1>4 DEF SettledStatuses
<1> QED BY <1>1, <1>2, <1>5, BecomesFirst

LEMMA RefreshReadFirst ==
    ASSUME Consistent, ChargedFirst, NEW r \in Requests, RefreshRead(r)
    PROVE  OrdersFirst /\ RequestsFirst
<1> DEFINE o == req[r].order
<1>1. /\ orders \in [Orders -> OrderRow] /\ o \in Orders
      /\ req[r] \in Request
  BY DEF RefreshRead, Consistent, TypeOK, RequestOK, OrderStages
<1>2. OrdersFirst
  <2>1. \/ UNCHANGED orders
        \/ \E j \in Jars : orders' = [orders EXCEPT ![o] =
                                                Qualified(orders[o], j)]
    BY Zenon DEF RefreshRead, Locked
  <2>2. \A j : Qualified(orders[o], j).status = orders[o].status
    BY <1>1, QualifiedStatus
  <2> HIDE DEF o
  <2>3. \A x \in Orders : orders'[x].status = orders[x].status
    BY <1>1, <2>1, <2>2
  <2> QED BY <2>3, OrdersFirstSame DEF RefreshRead, shop
<1>3. CASE Becomes(r, Idle)
  BY <1>2, <1>3, IdleFirst
<1>4. CASE Becomes(r, [req[r] EXCEPT !.stage = "reserve"])
  <2> DEFINE record == [req[r] EXCEPT !.stage = "reserve"]
  <2>1. /\ record.stage = "reserve" /\ record.order = req[r].order
        /\ record.seen = req[r].seen
    BY <1>1 DEF Request
  <2> HIDE DEF record
  <2> QED BY <1>2, <1>4, <2>1, StageFirst DEF record
<1> QED BY <1>3, <1>4 DEF RefreshRead

LEMMA CommitOrderFirst ==
    ASSUME Consistent, ChargedFirst, NEW r \in Requests, NEW j,
           CommitOrder(r, j), UNCHANGED handed
    PROVE  OrdersFirst /\ RequestsFirst
<1>1. /\ orders \in [Orders -> OrderRow] /\ req[r] \in Request
  BY DEF Consistent, TypeOK
<1>2. /\ req[r].order \in Orders \cup {None}
      /\ req[r].appt \in Appointments \cup {None}
      /\ req[r].key \in Keys \cup {None}
  BY <1>1 DEF Request
<1> DEFINE New == [NoRow EXCEPT !.status = "draft", !.appt = req[r].appt,
                                !.key = req[r].key]
<1>3. New \in OrderRow /\ New.status = "draft"
  <2>1. "draft" \in OrderStatuses BY DEF OrderStatuses
  <2>2. New \in OrderRow BY <1>2, <2>1, NullRows, RowFields, Zenon
  <2>3. New.status = "draft" BY Zenon DEF NoRow
  <2> QED BY <2>2, <2>3
<1> HIDE DEF New
<1>4. /\ Qualified(New, j).status = "draft"
      /\ \A o \in Orders : Qualified(orders[o], j).status = orders[o].status
  BY <1>1, <1>3, QualifiedStatus
<1>5. \/ UNCHANGED orders
      \/ \E o \in Orders : orders' = [orders EXCEPT ![o] =
                                              Qualified(orders[o], j)]
      \/ \E o \in Orders : orders' = [orders EXCEPT ![o] = Qualified(New, j)]
  BY <1>2, Zenon DEF CommitOrder, New
<1>6. \A x \in Orders : orders'[x].status \in SettledStatuses =>
                            orders[x].status \in SettledStatuses
  BY <1>1, <1>4, <1>5 DEF SettledStatuses
<1> QED BY <1>6, OrdersFirstSame, IdleFirst DEF CommitOrder

LEMMA RequestDomain ==
    ASSUME NEW q \in Request
    PROVE  {"stage", "order", "seen"} \subseteq DOMAIN q
BY DEF Request

LEMMA ReserveFirst ==
    ASSUME Consistent, ChargedFirst, NEW r \in Requests,
           ReserveRead(r) \/ ReserveClaim(r)
    PROVE  OrdersFirst /\ RequestsFirst
<1>1. UNCHANGED handed /\ req[r] \in Request
  BY DEF ReserveRead, ReserveClaim, shop, Consistent, TypeOK
<1>2. CASE \E j : CommitOrder(r, j)
  BY <1>1, <1>2, CommitOrderFirst
<1>3. CASE /\ UNCHANGED orders
           /\ \E j \in Available :
                 Becomes(r, [req[r] EXCEPT !.stage = "claim", !.jar = j])
  <2>1. PICK j \in Available :
           Becomes(r, [req[r] EXCEPT !.stage = "claim", !.jar = j])
    BY <1>3
  <2> DEFINE record == [req[r] EXCEPT !.stage = "claim", !.jar = j]
  <2>2. /\ record.stage = "claim" /\ record.order = req[r].order
        /\ record.seen = req[r].seen
    BY <1>1, RequestDomain, Zenon
  <2> HIDE DEF record
  <2>3. Becomes(r, record) BY <2>1 DEF record
  <2> QED BY <1>1, <1>3, <2>2, <2>3, StageFirst, OrdersFirstSame
<1>4. CASE /\ UNCHANGED orders
           /\ Becomes(r, [req[r] EXCEPT !.stage = "reserve", !.jar = None,
                                        !.tries = @ + 1])
  <2> DEFINE record == [req[r] EXCEPT !.stage = "reserve", !.jar = None,
                                      !.tries = req[r].tries + 1]
  <2>1. /\ record.stage = "reserve" /\ record.order = req[r].order
        /\ record.seen = req[r].seen
    BY <1>1, RequestDomain, Zenon
  <2>2. Becomes(r, record) BY <1>4, Zenon
  <2> HIDE DEF record
  <2> QED BY <1>1, <1>4, <2>1, <2>2, StageFirst, OrdersFirstSame
<1> QED BY <1>2, <1>3, <1>4 DEF ReserveRead, ReserveClaim

LEMMA ReadForPaymentFirst ==
    ASSUME Consistent, ChargedFirst, NEW r \in Requests, NEW o \in Orders,
           NEW purpose, ReadForPayment(r, o, purpose)
    PROVE  RequestsFirst
<1> DEFINE price == IF purpose = "refill" THEN orders[o].base ELSE ExtraTopup
           record == [Idle EXCEPT !.stage = "open", !.order = o,
                          !.purpose = purpose, !.seen = orders[o].status,
                          !.amount = price]
<1> HIDE DEF price
<1>1. /\ record.stage = "open" /\ record.order = o
      /\ record.seen = orders[o].status
  BY Zenon DEF Idle
<1>2. Becomes(r, record)
  BY Zenon DEF ReadForPayment, price
<1> HIDE DEF record
<1>3. record.seen \in SettledStatuses => RefillCharged(o)
  BY <1>1 DEF ChargedFirst
<1> QED BY <1>1, <1>2, <1>3, BecomesFirst

LEMMA CallbackRequestFirst ==
    ASSUME Consistent, ChargedFirst, NEW r \in Requests, NEW p, NEW stage,
           stage # "missing", Becomes(r, CallbackRequest(p, stage))
    PROVE  RequestsFirst
<1> DEFINE record == CallbackRequest(p, stage)
<1>1. /\ record.stage = stage /\ record.order = payments[p].order
      /\ record.seen = orders[payments[p].order].status
  BY Zenon DEF CallbackRequest, Idle
<1> HIDE DEF record
<1>2. /\ record.order \in Orders
      /\ record.stage = "missing" \/ record.seen \in SettledStatuses
      => RefillCharged(record.order)
  BY <1>1 DEF ChargedFirst
<1> QED BY <1>2, BecomesFirst DEF record

LEMMA PayFirst ==
    ASSUME Consistent, ChargedFirst, NEW r \in Requests,
           PayWrite(r) \/ \E o \in Orders, u \in Purposes : PayRead(r, o, u)
    PROVE  OrdersFirst /\ RequestsFirst
<1>1. CASE PayWrite(r)
  <2>1. UNCHANGED handed /\ Becomes(r, Idle)
    BY <1>1 DEF PayWrite, shop
  <2>2. UNCHANGED orders \/ SetStatus(req[r].order, "payment_pending")
    BY <1>1 DEF PayWrite
  <2>3. "payment_pending" \in OrderStatuses \ SettledStatuses
    BY DEF OrderStatuses, SettledStatuses
  <2> QED BY <2>1, <2>2, <2>3, SetStatusFirst, OrdersFirstSame, IdleFirst
<1>2. ASSUME NEW o \in Orders, NEW u \in Purposes, PayRead(r, o, u)
      PROVE  OrdersFirst /\ RequestsFirst
  BY <1>2, ReadForPaymentFirst, OrdersFirstSame DEF PayRead, shop
<1> QED BY <1>1, <1>2

LEMMA RefuseFirst ==
    ASSUME Consistent, ChargedFirst, NEW r \in Requests,
           RefuseWrite(r) \/ \E p \in Payments : RefuseRead(r, p)
    PROVE  OrdersFirst /\ RequestsFirst
<1>1. CASE RefuseWrite(r)
  <2>1. UNCHANGED handed /\ Becomes(r, Idle)
    BY <1>1 DEF RefuseWrite, shop
  <2>2. UNCHANGED orders \/ SetStatus(req[r].order, "payment_failed")
    BY <1>1 DEF RefuseWrite
  <2>3. "payment_failed" \in OrderStatuses \ SettledStatuses
    BY DEF OrderStatuses, SettledStatuses
  <2> QED BY <2>1, <2>2, <2>3, SetStatusFirst, OrdersFirstSame, IdleFirst
<1>2. ASSUME NEW p \in Payments, RefuseRead(r, p)
      PROVE  OrdersFirst /\ RequestsFirst
  BY <1>2, CallbackRequestFirst, OrdersFirstSame DEF RefuseRead, shop
<1> QED BY <1>1, <1>2

\* The payment that is claimed is charged, and it pays for the refill unless
\* the order was already waiting for a top-up.
LEMMA AdvanceFirst ==
    ASSUME Consistent, ChargedFirst, NEW r \in Requests,
           req[r].stage \in CallbackStages, Advance(r), UNCHANGED handed
    PROVE  OrdersFirst
<1> DEFINE o == req[r].order
<1>1. /\ orders \in [Orders -> OrderRow] /\ o \in Orders
      /\ req[r].pay \in charged /\ payments[req[r].pay].order = o
      /\ payments[req[r].pay].purpose = req[r].purpose
  BY CallbackStage DEF Consistent, TypeOK
<1>2. CASE UNCHANGED orders
  BY <1>2, OrdersFirstSame
<1>3. CASE ~UNCHANGED orders
  <2>1. RefillCharged(o)
    <3>1. \/ req[r].purpose = "refill"
          \/ req[r].seen = "awaiting_extra_payment"
      BY <1>3 DEF Advance
    <3>2. CASE req[r].purpose = "refill"
      BY <1>1, <3>2 DEF RefillCharged
    <3>3. CASE req[r].seen = "awaiting_extra_payment"
      BY <1>1, <3>3 DEF ChargedFirst, SettledStatuses
    <3> QED BY <3>1, <3>2, <3>3
  <2>2. \E row : orders' = [orders EXCEPT ![o] = row]
    <3>1. \/ orders' = [orders EXCEPT ![o].status = "paid_waiting_return",
                                     ![o].paid = TRUE]
          \/ orders' = [orders EXCEPT ![o].status = "paid_waiting_return",
                                     ![o].mode = "first",
                                     ![o].extra = ExtraTopup]
      BY <1>3, Zenon DEF Advance
    <3>2. \/ orders' = [orders EXCEPT ![o] =
                 [orders[o] EXCEPT !.status = "paid_waiting_return",
                                   !.paid = TRUE]]
          \/ orders' = [orders EXCEPT ![o] =
                 [orders[o] EXCEPT !.status = "paid_waiting_return",
                                   !.mode = "first",
                                   !.extra = ExtraTopup]]
      <4> HIDE DEF o
      <4> QED BY <1>1, <3>1, Zenon
    <3> QED BY <3>2
  <2> HIDE DEF o
  <2>3. \A x \in Orders \ {o} : orders'[x] = orders[x]
    BY <1>1, <2>2
  <2> QED BY <2>1, <2>3 DEF OrdersFirst, ChargedFirst
<1> QED BY <1>2, <1>3

LEMMA CallbackFirst ==
    ASSUME Consistent, ChargedFirst, NEW r \in Requests,
           \/ CallbackCheck(r) \/ CallbackSettle(r) \/ CallbackDuplicate(r)
           \/ \E p \in Payments : CallbackRead(r, p)
    PROVE  OrdersFirst /\ RequestsFirst
<1>1. UNCHANGED handed /\ req[r] \in Request
  BY DEF CallbackCheck, CallbackSettle, CallbackDuplicate, CallbackRead, shop,
     Consistent, TypeOK
<1>2. OrdersFirst
  <2>1. \/ UNCHANGED orders
        \/ req[r].stage \in CallbackStages /\ Advance(r)
    BY DEF CallbackCheck, CallbackSettle, CallbackDuplicate, CallbackRead,
       CallbackStages
  <2> QED BY <1>1, <2>1, AdvanceFirst, OrdersFirstSame
<1>3. RequestsFirst
  <2>1. \/ UNCHANGED req \/ Becomes(r, Idle)
        \/ \E p \in Payments : Becomes(r, CallbackRequest(p, "check"))
        \/ \E stage \in {"settle", "duplicate"} :
              Becomes(r, [req[r] EXCEPT !.stage = stage])
    BY DEF CallbackCheck, CallbackSettle, CallbackDuplicate, CallbackRead,
       Acknowledge
  <2>2. CASE UNCHANGED req
    BY <2>2 DEF RequestsFirst, ChargedFirst
  <2>3. ASSUME NEW stage \in {"settle", "duplicate"},
               Becomes(r, [req[r] EXCEPT !.stage = stage])
        PROVE  RequestsFirst
    <3> DEFINE record == [req[r] EXCEPT !.stage = stage]
    <3>1. /\ record.stage # "missing" /\ record.order = req[r].order
          /\ record.seen = req[r].seen
      BY <1>1 DEF Request
    <3>2. Becomes(r, record) BY <2>3
    <3> HIDE DEF record
    <3> QED BY <3>1, <3>2, StageFirst
  <2> QED BY <2>1, <2>2, <2>3, IdleFirst, CallbackRequestFirst
<1> QED BY <1>2, <1>3

LEMMA CompleteDeliveryFirst ==
    ASSUME Consistent, ChargedFirst, NEW o \in Orders, NEW q \in 1..MaxQty,
           CompleteDelivery(o, q)
    PROVE  OrdersFirst /\ RequestsFirst
<1>1. orders \in [Orders -> OrderRow] /\ handed \in [Orders -> Nat]
  BY DEF Consistent, TypeOK
<1>2. RefillCharged(o)
  BY DEF CompleteDelivery, ChargedFirst, SettledStatuses
<1>3. /\ \A x \in Orders \ {o} : orders'[x] = orders[x]
      /\ \A x \in Orders \ {o} : handed'[x] = handed[x]
  <2> DEFINE row == [orders[o] EXCEPT !.status = "completed",
                                      !.quantity = q]
  <2>1. orders' = [orders EXCEPT ![o] = row]
    BY <1>1, Zenon DEF CompleteDelivery
  <2> HIDE DEF row
  <2>2. handed' = [handed EXCEPT ![o] = @ + q]
    BY DEF CompleteDelivery
  <2> QED BY <1>1, <2>1, <2>2
<1>4. OrdersFirst
  BY <1>2, <1>3 DEF OrdersFirst, ChargedFirst
<1> QED BY <1>4 DEF RequestsFirst, ChargedFirst, CompleteDelivery

LEMMA MissingFirst ==
    ASSUME Consistent, ChargedFirst, NEW r \in Requests,
           \/ MissingWrite(r) \/ MissingPayRead(r)
           \/ \E o \in Orders : MissingRead(r, o)
    PROVE  OrdersFirst /\ RequestsFirst
<1>1. UNCHANGED handed /\ req[r] \in Request
      /\ orders \in [Orders -> OrderRow]
  BY DEF MissingWrite, MissingPayRead, MissingRead, shop, Consistent, TypeOK
<1>2. CASE MissingWrite(r)
  <2> DEFINE o == req[r].order
             record == [req[r] EXCEPT !.stage = "topup"]
  <2>1. o \in Orders /\ RefillCharged(o)
    BY <1>2 DEF MissingWrite, ChargedFirst, Consistent, RequestOK,
       OrderStages
  <2>2. \A x \in Orders \ {o} : orders'[x] = orders[x]
    BY <1>1, <1>2 DEF MissingWrite, SetStatus
  <2>3. OrdersFirst
    BY <1>1, <2>1, <2>2 DEF OrdersFirst, ChargedFirst
  <2>4. /\ record.stage # "missing" /\ record.order = req[r].order
        /\ record.seen = req[r].seen
    BY <1>1 DEF Request
  <2>5. Becomes(r, record) BY <1>2 DEF MissingWrite
  <2> HIDE DEF record, o
  <2> QED BY <2>3, <2>4, <2>5, StageFirst
<1>3. CASE MissingPayRead(r)
  <2>1. req[r].order \in Orders
    BY <1>3 DEF MissingPayRead, Consistent, RequestOK, OrderStages
  <2>2. OrdersFirst
    BY <1>1, <1>3, OrdersFirstSame DEF MissingPayRead
  <2>3. \/ ReadForPayment(r, req[r].order, "extra_topup")
        \/ Becomes(r, Idle)
    BY <1>3 DEF MissingPayRead
  <2> QED BY <2>1, <2>2, <2>3, ReadForPaymentFirst, IdleFirst
<1>4. ASSUME NEW o \in Orders, MissingRead(r, o)
      PROVE  OrdersFirst /\ RequestsFirst
  <2> DEFINE record == [Idle EXCEPT !.stage = "missing", !.order = o]
  <2>1. record.order = o BY Zenon DEF Idle
  <2>2. Becomes(r, record) BY <1>4, Zenon DEF MissingRead
  <2> HIDE DEF record
  <2>3. RefillCharged(o)
    BY <1>4 DEF MissingRead, ChargedFirst, SettledStatuses
  <2> QED BY <1>1, <1>4, <2>1, <2>2, <2>3, BecomesFirst, OrdersFirstSame
          DEF MissingRead
<1> QED BY <1>2, <1>3, <1>4

LEMMA NextFirst ==
    Consistent /\ ChargedFirst /\ [Next]_vars => OrdersFirst /\ RequestsFirst
<1> SUFFICES ASSUME Consistent, ChargedFirst, [Next]_vars
             PROVE  OrdersFirst /\ RequestsFirst
  OBVIOUS
<1>1. ASSUME NEW r \in Requests, Continue(r)
      PROVE  OrdersFirst /\ RequestsFirst
  BY <1>1, RefreshReadFirst, ReserveFirst, PayFirst, RefuseFirst,
     CallbackFirst, MissingFirst DEF Continue
<1>2. ASSUME NEW r \in Requests, Crash(r)
      PROVE  OrdersFirst /\ RequestsFirst
  BY <1>2, IdleFirst, OrdersFirstSame DEF Crash, shop
<1>3. ASSUME NEW r \in Requests, NEW a \in Appointments,
             NEW k \in {a} \cup ClientKeys, CreateRead(r, a, k)
      PROVE  OrdersFirst /\ RequestsFirst
  BY <1>3, CreateReadFirst
<1>4. ASSUME NEW r \in Requests, NEW o \in Orders,
             NEW purpose \in Purposes, PayRead(r, o, purpose)
      PROVE  OrdersFirst /\ RequestsFirst
  BY <1>4, PayFirst
<1>5. ASSUME NEW r \in Requests, NEW p \in Payments,
             RefuseRead(r, p) \/ CallbackRead(r, p)
      PROVE  OrdersFirst /\ RequestsFirst
  BY <1>5, RefuseFirst, CallbackFirst
<1>6. ASSUME NEW r \in Requests, NEW o \in Orders, MissingRead(r, o)
      PROVE  OrdersFirst /\ RequestsFirst
  BY <1>6, MissingFirst
<1>7. ASSUME NEW o \in Orders, Cancel(o)
      PROVE  OrdersFirst /\ RequestsFirst
  <2>1. UNCHANGED handed /\ UNCHANGED req
    BY <1>7 DEF Cancel, shop
  <2>2. UNCHANGED orders \/ SetStatus(o, "cancelled")
    BY <1>7 DEF Cancel
  <2>3. "cancelled" \in OrderStatuses \ SettledStatuses
    BY DEF OrderStatuses, SettledStatuses
  <2>4. OrdersFirst
    BY <2>1, <2>2, <2>3, SetStatusFirst, OrdersFirstSame
  <2> QED BY <2>1, <2>4 DEF RequestsFirst, ChargedFirst
<1>8. ASSUME NEW o \in Orders, NEW q \in 1..MaxQty, CompleteDelivery(o, q)
      PROVE  OrdersFirst /\ RequestsFirst
  BY <1>8, CompleteDeliveryFirst
<1>9. CASE \/ \E j \in Jars : RedeemJarCode(j)
           \/ \E p \in Payments : GatewayCharges(p) \/ GatewayDeclines(p)
           \/ UNCHANGED vars
  BY <1>9 DEF RedeemJarCode, GatewayCharges, GatewayDeclines, vars, shop,
     OrdersFirst, RequestsFirst, ChargedFirst
<1> QED BY <1>1, <1>2, <1>3, <1>4, <1>5, <1>6, <1>7, <1>8, <1>9 DEF Next

LEMMA InitFirst == Init => ChargedFirst
BY DEF Init, ChargedFirst, NoRow, Idle, SettledStatuses

\* The shop never hands over a refill whose price the gateway has not taken:
\* every path of completeRefillDelivery goes through a callback that claimed a
\* charged payment for the refill, also after a missing jar and its top-up.
THEOREM DeliveryIsCharged == Spec => []DeliveredIsCharged
<1>1. Init => ChargedFirst BY InitFirst
<1>2. Consistent /\ ChargedFirst /\ [Next]_vars => ChargedFirst'
  BY NextFirst, NextGrows, FirstStep
<1>3. ChargedFirst => DeliveredIsCharged
  BY DEF ChargedFirst, DeliveredIsCharged, RefillCharged
<1> QED BY <1>1, <1>2, <1>3, AlwaysConsistent, PTL DEF Spec

-----------------------------------------------------------------------------
(* Reservations.  What any step may do to the orders, to the locks on jars   *)
(* and to the requests that hold an order row while they look for a jar.     *)

HoldsRow(r, o) == /\ req[r].stage \in {"reserve", "claim"}
                  /\ req[r].order = o

OneRow(o) == \A x \in Orders \ {o} : orders'[x] = orders[x]
NoNewHolder ==
    \A s \in Requests, x \in Orders : HoldsRow(s, x)' => HoldsRow(s, x)
LetsGo(r) ==
    \A s \in Requests, x \in Orders :
        HoldsRow(s, x)' => HoldsRow(s, x) /\ s # r
KeepsOffer(o) == /\ orders'[o].key = orders[o].key
                 /\ orders'[o].jar = orders[o].jar
                 /\ orders'[o].type = orders[o].type
TypeFor(j) == IF j = None THEN "first" ELSE "exchange"
Offers(o, j) == orders'[o].jar = j /\ orders'[o].type = TypeFor(j)

Rests == UNCHANGED <<orders, jarLock>> /\ NoNewHolder

\* A checkout, a callback or the shop moves an order that nobody holds.
Moves(o) ==
    /\ UNCHANGED jarLock /\ NoNewHolder /\ ~RowLocked(o)
    /\ OneRow(o) /\ KeepsOffer(o)
    /\ orders'[o].status \notin {"absent", "cancelled"}
    /\ \/ orders[o].status = "paid_waiting_return"
       \/ \E r \in Requests :
             req[r].stage \in {"open", "refuse", "settle", "missing"}

Frees(o) ==
    /\ ReleaseJars(o) /\ NoNewHolder /\ ~RowLocked(o)
    /\ OneRow(o) /\ KeepsOffer(o) /\ orders'[o].status = "cancelled"

\* The three outcomes of a qualification refresh, and a new order.
Requalifies(o, j) ==
    /\ UNCHANGED jarLock /\ NoNewHolder /\ ~RowLocked(o) /\ j \in Locked(o)
    /\ OneRow(o) /\ Offers(o, j)
    /\ orders'[o].status = orders[o].status /\ orders'[o].key = orders[o].key

Seizes(r, o) ==
    /\ UNCHANGED <<orders, jarLock>> /\ ~RowLocked(o)
    /\ orders[o].status \in {"draft", "payment_failed"} /\ Locked(o) = {}
    /\ \A s \in Requests, x \in Orders :
          HoldsRow(s, x)' => HoldsRow(s, x) \/ (s = r /\ x = o)

Commits(r, o, j) ==
    /\ HoldsRow(r, o) /\ LetsGo(r) /\ jarLock' = Lock(j, o)
    /\ j \in Available \cup {None}
    /\ OneRow(o) /\ Offers(o, j)
    /\ orders'[o].status = orders[o].status /\ orders'[o].key = orders[o].key

Creates(o, j) ==
    /\ Absent(o) /\ NoNewHolder /\ jarLock' = Lock(j, o)
    /\ j \in Available \cup {None}
    /\ OneRow(o) /\ Offers(o, j)
    /\ orders'[o].status = "draft" /\ WithKey(orders'[o].key) = {}

OrderStep ==
    \/ Rests
    \/ \E o \in Orders : Moves(o) \/ Frees(o)
    \/ \E o \in Orders, j \in Jars : Requalifies(o, j)
    \/ \E r \in Requests, o \in Orders : Seizes(r, o)
    \/ \E r \in Requests, o \in Orders, j \in Jars \cup {None} :
          Commits(r, o, j)
    \/ \E o \in Orders, j \in Jars \cup {None} : Creates(o, j)

LEMMA SetStatusRow ==
    ASSUME Consistent, NEW o \in Orders, NEW status, SetStatus(o, status)
    PROVE  OneRow(o) /\ KeepsOffer(o) /\ orders'[o].status = status
           /\ orders'[o].quantity = orders[o].quantity
<1>1. orders \in [Orders -> OrderRow] BY DEF Consistent, TypeOK
<1> QED BY <1>1 DEF SetStatus, OneRow, KeepsOffer, OrderRow

LEMMA QualifiedFields ==
    ASSUME NEW row \in OrderRow, NEW j
    PROVE  /\ Qualified(row, j).status = row.status
           /\ Qualified(row, j).key = row.key
           /\ Qualified(row, j).quantity = row.quantity
           /\ Qualified(row, j).jar = j
           /\ Qualified(row, j).type = TypeFor(j)
<1>1. {"status", "key", "quantity", "jar", "type"} \subseteq DOMAIN row
  BY DEF OrderRow
<1> QED BY <1>1, Zenon DEF Qualified, TypeFor

LEMMA LetsGoNew == \A r : LetsGo(r) => NoNewHolder
BY DEF LetsGo, NoNewHolder

LEMMA BecomesHolder ==
    ASSUME Consistent, NEW r \in Requests, NEW record, Becomes(r, record),
           \/ record.stage \notin {"reserve", "claim"}
           \/ record.order = None
           \/ /\ req[r].stage \in {"reserve", "claim"}
              /\ record.order = req[r].order
    PROVE  NoNewHolder
<1>1. req \in [Requests -> Request] /\ None \notin Orders
  BY ConstantsAssumption DEF Consistent, TypeOK
<1>2. req'[r] = record /\ \A s \in Requests \ {r} : req'[s] = req[s]
  BY <1>1 DEF Becomes
<1> QED BY <1>1, <1>2 DEF NoNewHolder, HoldsRow

LEMMA IdleHolder ==
    ASSUME Consistent, NEW r \in Requests, Becomes(r, Idle)
    PROVE  LetsGo(r) /\ NoNewHolder
<1>1. req \in [Requests -> Request] BY DEF Consistent, TypeOK
<1>2. req'[r] = Idle /\ \A s \in Requests \ {r} : req'[s] = req[s]
  BY <1>1 DEF Becomes
<1>3. Idle.stage = "idle" BY Zenon DEF Idle
<1>4. LetsGo(r)
  BY <1>2, <1>3 DEF LetsGo, HoldsRow
<1> QED BY <1>4, LetsGoNew

LEMMA SameHolder == UNCHANGED req => NoNewHolder
BY DEF NoNewHolder, HoldsRow

LEMMA CommitOrderStep ==
    ASSUME Consistent, NEW r \in Requests, NEW j \in Jars \cup {None},
           j \in Available \cup {None}, CommitOrder(r, j),
           req[r].stage \in {"reserve", "claim"}
    PROVE  OrderStep
<1>1. /\ orders \in [Orders -> OrderRow] /\ req[r] \in Request
  BY DEF Consistent, TypeOK
<1>2. /\ req[r].order \in Orders \cup {None}
      /\ req[r].appt \in Appointments \cup {None}
      /\ req[r].key \in Keys \cup {None}
  BY <1>1 DEF Request
<1>3. LetsGo(r) /\ NoNewHolder
  BY IdleHolder DEF CommitOrder
<1>4. CASE req[r].order # None
  <2> DEFINE o == req[r].order
             row == Qualified(orders[o], j)
  <2>1. o \in Orders /\ orders[o] \in OrderRow BY <1>1, <1>2, <1>4
  <2>2. /\ row.status = orders[o].status /\ row.key = orders[o].key
        /\ row.jar = j /\ row.type = TypeFor(j)
    BY <2>1, QualifiedFields
  <2>3. orders' = [orders EXCEPT ![o] = row] /\ jarLock' = Lock(j, o)
    BY <1>4, Zenon DEF CommitOrder
  <2>4. HoldsRow(r, o) BY DEF HoldsRow
  <2> HIDE DEF row, o
  <2>5. orders'[o] = row /\ OneRow(o)
    BY <1>1, <2>1, <2>3 DEF OneRow
  <2>6. Offers(o, j)
    BY <2>2, <2>5 DEF Offers
  <2>7. Commits(r, o, j)
    BY <1>3, <2>2, <2>3, <2>4, <2>5, <2>6 DEF Commits
  <2> QED BY <2>1, <2>7 DEF OrderStep
<1>5. CASE req[r].order = None /\ WithKey(req[r].key) = {}
  <2> DEFINE New == [NoRow EXCEPT !.status = "draft", !.appt = req[r].appt,
                                  !.key = req[r].key]
             row == Qualified(New, j)
  <2>1. New \in OrderRow /\ New.status = "draft" /\ New.key = req[r].key
    <3>1. "draft" \in OrderStatuses BY DEF OrderStatuses
    <3>2. New \in OrderRow BY <1>2, <3>1, NullRows, RowFields, Zenon
    <3>3. New.status = "draft" /\ New.key = req[r].key BY Zenon DEF NoRow
    <3> QED BY <3>2, <3>3
  <2>2. PICK o \in Orders :
           /\ Absent(o) /\ orders' = [orders EXCEPT ![o] = row]
           /\ jarLock' = Lock(j, o)
    BY <1>5, Zenon DEF CommitOrder
  <2> HIDE DEF New
  <2>3. /\ row.status = "draft" /\ row.key = req[r].key
        /\ row.jar = j /\ row.type = TypeFor(j)
    BY <2>1, QualifiedFields
  <2> HIDE DEF row
  <2>4. orders'[o] = row /\ OneRow(o)
    BY <1>1, <2>2 DEF OneRow
  <2>5. Offers(o, j)
    BY <2>3, <2>4 DEF Offers
  <2>6. Creates(o, j)
    BY <1>3, <1>5, <2>2, <2>3, <2>4, <2>5 DEF Creates
  <2> QED BY <2>6 DEF OrderStep
<1>6. CASE req[r].order = None /\ WithKey(req[r].key) # {}
  BY <1>3, <1>6 DEF CommitOrder, OrderStep, Rests
<1> QED BY <1>4, <1>5, <1>6

LEMMA RefreshReadStep ==
    ASSUME Consistent, NEW r \in Requests, RefreshRead(r)
    PROVE  OrderStep
<1> DEFINE o == req[r].order
<1>1. /\ orders \in [Orders -> OrderRow] /\ o \in Orders
      /\ req[r] \in Request /\ req \in [Requests -> Request]
  BY DEF RefreshRead, Consistent, TypeOK, RequestOK, OrderStages
<1>2. UNCHANGED jarLock /\ ~RowLocked(o)
  BY DEF RefreshRead
<1>3. CASE UNCHANGED orders /\ Becomes(r, Idle)
  BY <1>2, <1>3, IdleHolder DEF OrderStep, Rests
<1>4. CASE /\ Becomes(r, Idle)
           /\ \E j \in Locked(o) :
                 orders' = [orders EXCEPT ![o] = Qualified(orders[o], j)]
  <2>1. PICK j \in Locked(o) :
                 orders' = [orders EXCEPT ![o] = Qualified(orders[o], j)]
    BY <1>4
  <2> DEFINE row == Qualified(orders[o], j)
  <2>2. /\ row.status = orders[o].status /\ row.key = orders[o].key
        /\ row.jar = j /\ row.type = TypeFor(j)
    BY <1>1, QualifiedFields
  <2>3. j \in Jars /\ NoNewHolder
    BY <1>4, IdleHolder DEF Locked
  <2> HIDE DEF row, o
  <2>4. orders'[o] = row /\ OneRow(o)
    BY <1>1, <2>1 DEF OneRow, row
  <2>5. Offers(o, j)
    BY <2>2, <2>4 DEF Offers
  <2>6. Requalifies(o, j)
    BY <1>2, <2>2, <2>3, <2>4, <2>5 DEF Requalifies
  <2> QED BY <1>1, <2>3, <2>6 DEF OrderStep
<1>5. CASE /\ CheckoutNotOpened(o) /\ Locked(o) = {} /\ UNCHANGED orders
           /\ Becomes(r, [req[r] EXCEPT !.stage = "reserve"])
  <2>1. \A s \in Requests \ {r} : req'[s] = req[s]
    BY <1>1, <1>5 DEF Becomes
  <2>2. req'[r].order = o
    BY <1>1, <1>5 DEF Becomes, Request
  <2> HIDE DEF o
  <2>3. \A s \in Requests, x \in Orders :
           HoldsRow(s, x)' => HoldsRow(s, x) \/ (s = r /\ x = o)
    BY <2>1, <2>2 DEF HoldsRow
  <2>4. Seizes(r, o)
    BY <1>2, <1>5, <2>3 DEF Seizes, CheckoutNotOpened
  <2> QED BY <1>1, <2>4 DEF OrderStep
<1> QED BY <1>3, <1>4, <1>5, Zenon DEF RefreshRead

LEMMA ReserveStep ==
    ASSUME Consistent, NEW r \in Requests, ReserveRead(r) \/ ReserveClaim(r)
    PROVE  OrderStep
<1>1. req[r] \in Request /\ req[r].jar \in Jars \cup {None}
      /\ req[r].stage \in {"reserve", "claim"}
  BY DEF ReserveRead, ReserveClaim, Consistent, TypeOK, Request
<1>2. CASE \E j \in Jars \cup {None} :
              j \in Available \cup {None} /\ CommitOrder(r, j)
  BY <1>1, <1>2, CommitOrderStep
<1>3. CASE /\ UNCHANGED <<orders, jarLock>>
           /\ \E record : /\ Becomes(r, record)
                          /\ record.order = req[r].order
  <2>1. NoNewHolder BY <1>1, <1>3, BecomesHolder
  <2> QED BY <1>3, <2>1 DEF OrderStep, Rests
<1>4. \/ \E j \in Jars \cup {None} :
              j \in Available \cup {None} /\ CommitOrder(r, j)
      \/ /\ UNCHANGED <<orders, jarLock>>
         /\ \E j \in Available :
               Becomes(r, [req[r] EXCEPT !.stage = "claim", !.jar = j])
      \/ /\ UNCHANGED <<orders, jarLock>>
         /\ Becomes(r, [req[r] EXCEPT !.stage = "reserve", !.jar = None,
                                      !.tries = @ + 1])
  BY <1>1, Zenon DEF ReserveRead, ReserveClaim, StillAvailable
<1>5. \A j : [req[r] EXCEPT !.stage = "claim", !.jar = j].order = req[r].order
  BY <1>1, RequestDomain, Zenon
<1>6. [req[r] EXCEPT !.stage = "reserve", !.jar = None,
                     !.tries = req[r].tries + 1].order = req[r].order
  BY <1>1, RequestDomain, Zenon
<1>7. Becomes(r, [req[r] EXCEPT !.stage = "reserve", !.jar = None,
                                !.tries = @ + 1])
      => Becomes(r, [req[r] EXCEPT !.stage = "reserve", !.jar = None,
                                   !.tries = req[r].tries + 1])
  BY Zenon
<1> QED BY <1>2, <1>3, <1>4, <1>5, <1>6, <1>7, Zenon

\* What a handler writes that found the order row free.
LEMMA StatusStep ==
    ASSUME Consistent, NEW o \in Orders, ~RowLocked(o), NEW status,
           SetStatus(o, status), status \notin {"absent", "cancelled"},
           UNCHANGED jarLock, NoNewHolder,
           \E r \in Requests :
              req[r].stage \in {"open", "refuse", "settle", "missing"}
    PROVE  OrderStep
<1>1. Moves(o)
  BY SetStatusRow DEF Moves
<1> QED BY <1>1 DEF OrderStep

LEMMA AdvanceStep ==
    ASSUME Consistent, NEW r \in Requests, req[r].stage = "settle",
           Advance(r), UNCHANGED jarLock, NoNewHolder
    PROVE  OrderStep
<1> DEFINE o == req[r].order
<1>1. orders \in [Orders -> OrderRow] /\ o \in Orders
      /\ orders[o] \in OrderRow
  BY CallbackStage DEF Consistent, TypeOK, CallbackStages
<1>2. CASE UNCHANGED orders
  BY <1>2 DEF OrderStep, Rests
<1>3. CASE /\ ~RowLocked(o)
           /\ \/ orders' = [orders EXCEPT ![o].status = "paid_waiting_return",
                                          ![o].paid = TRUE]
              \/ orders' = [orders EXCEPT ![o].status = "paid_waiting_return",
                                          ![o].mode = "first",
                                          ![o].extra = ExtraTopup]
  <2>1. \E row : /\ orders' = [orders EXCEPT ![o] = row]
                 /\ row.status = "paid_waiting_return"
                 /\ row.key = orders[o].key /\ row.jar = orders[o].jar
                 /\ row.type = orders[o].type
    <3> DEFINE row1 == [orders[o] EXCEPT !.status = "paid_waiting_return",
                                         !.paid = TRUE]
               row2 == [orders[o] EXCEPT !.status = "paid_waiting_return",
                                         !.mode = "first",
                                         !.extra = ExtraTopup]
    <3>1. {"status", "key", "jar", "type"} \subseteq DOMAIN orders[o]
      BY <1>1 DEF OrderRow
    <3>2. /\ row1.status = "paid_waiting_return" /\ row1.key = orders[o].key
          /\ row1.jar = orders[o].jar /\ row1.type = orders[o].type
      BY <3>1, Zenon
    <3>3. /\ row2.status = "paid_waiting_return" /\ row2.key = orders[o].key
          /\ row2.jar = orders[o].jar /\ row2.type = orders[o].type
      BY <3>1, Zenon
    <3>4. \/ orders' = [orders EXCEPT ![o] = row1]
          \/ orders' = [orders EXCEPT ![o] = row2]
      <4> HIDE DEF o
      <4> QED BY <1>1, <1>3, Zenon
    <3> HIDE DEF row1, row2
    <3> QED BY <3>2, <3>3, <3>4
  <2> HIDE DEF o
  <2>2. OneRow(o) /\ KeepsOffer(o)
        /\ orders'[o].status = "paid_waiting_return"
    BY <1>1, <2>1 DEF OneRow, KeepsOffer
  <2>3. Moves(o)
    BY <1>3, <2>2 DEF Moves
  <2> QED BY <1>1, <2>3 DEF OrderStep
<1> QED BY <1>2, <1>3, Zenon DEF Advance

LEMMA ReadForPaymentStage ==
    ASSUME NEW r, NEW o, NEW purpose, ReadForPayment(r, o, purpose)
    PROVE  \E record : Becomes(r, record) /\ record.stage = "open"
<1> DEFINE price == IF purpose = "refill" THEN orders[o].base ELSE ExtraTopup
           record == [Idle EXCEPT !.stage = "open", !.order = o,
                          !.purpose = purpose, !.seen = orders[o].status,
                          !.amount = price]
<1> HIDE DEF price
<1>1. record.stage = "open" BY Zenon DEF Idle
<1>2. Becomes(r, record) BY Zenon DEF ReadForPayment, price
<1> QED BY <1>1, <1>2

LEMMA HandlerStep ==
    ASSUME Consistent, NEW r \in Requests,
           \/ PayWrite(r) \/ RefuseWrite(r) \/ CallbackCheck(r)
           \/ CallbackSettle(r) \/ CallbackDuplicate(r) \/ MissingWrite(r)
           \/ MissingPayRead(r)
    PROVE  OrderStep
<1>1. req[r] \in Request /\ UNCHANGED jarLock
  BY DEF Consistent, TypeOK, PayWrite, RefuseWrite, CallbackCheck,
     CallbackSettle, CallbackDuplicate, MissingWrite, MissingPayRead
<1>2. \A stage : [req[r] EXCEPT !.stage = stage].stage = stage
  BY <1>1, RequestDomain, Zenon
<1>3. CASE PayWrite(r) \/ RefuseWrite(r)
  <2>1. NoNewHolder
    BY <1>3, IdleHolder DEF PayWrite, RefuseWrite
  <2>2. req[r].order \in Orders
    BY <1>3 DEF PayWrite, RefuseWrite, Consistent, RequestOK, OrderStages
  <2>3. \/ UNCHANGED orders
        \/ /\ ~RowLocked(req[r].order)
           /\ \/ SetStatus(req[r].order, "payment_pending")
              \/ SetStatus(req[r].order, "payment_failed")
           /\ req[r].stage \in {"open", "refuse"}
    BY <1>3 DEF PayWrite, RefuseWrite
  <2> QED BY <1>1, <2>1, <2>2, <2>3, StatusStep DEF OrderStep, Rests
<1>4. CASE CallbackCheck(r) \/ CallbackDuplicate(r) \/ CallbackSettle(r)
  <2>1. NoNewHolder
    <3>1. \/ Becomes(r, Idle)
          \/ \E stage \in {"settle", "duplicate"} :
                Becomes(r, [req[r] EXCEPT !.stage = stage])
      BY <1>4 DEF CallbackCheck, CallbackDuplicate, CallbackSettle,
                  Acknowledge
    <3>2. \A stage \in {"settle", "duplicate"} :
             [req[r] EXCEPT !.stage = stage].stage \notin {"reserve", "claim"}
      BY <1>2
    <3> QED BY <3>1, <3>2, IdleHolder, BecomesHolder
  <2>2. \/ UNCHANGED orders
        \/ Advance(r) /\ req[r].stage = "settle"
    BY <1>4 DEF CallbackCheck, CallbackDuplicate, CallbackSettle
  <2> QED BY <1>1, <2>1, <2>2, AdvanceStep DEF OrderStep, Rests
<1>5. CASE MissingWrite(r)
  <2>1. Becomes(r, [req[r] EXCEPT !.stage = "topup"])
    BY <1>5 DEF MissingWrite
  <2>2. NoNewHolder
    BY <1>2, <2>1, BecomesHolder
  <2>3. req[r].order \in Orders
    BY <1>5 DEF MissingWrite, Consistent, RequestOK, OrderStages
  <2> QED BY <1>1, <1>5, <2>2, <2>3, StatusStep DEF MissingWrite
<1>6. CASE MissingPayRead(r)
  <2>1. \E record : /\ Becomes(r, record)
                    /\ record.stage \in {"open", "idle"}
    <3>1. Idle.stage = "idle" BY Zenon DEF Idle
    <3> QED BY <1>6, <3>1, ReadForPaymentStage DEF MissingPayRead
  <2>2. NoNewHolder
    BY <2>1, BecomesHolder
  <2> QED BY <1>1, <1>6, <2>2 DEF MissingPayRead, OrderStep, Rests
<1> QED BY <1>3, <1>4, <1>5, <1>6

LEMMA CallbackRequestStage ==
    \A p, stage : CallbackRequest(p, stage).stage = stage
BY Zenon DEF CallbackRequest, Idle

LEMMA StartStep ==
    ASSUME Consistent, NEW r \in Requests,
           \/ \E a \in Appointments, k \in Keys : CreateRead(r, a, k)
           \/ \E o \in Orders, u \in Purposes : PayRead(r, o, u)
           \/ \E p \in Payments : RefuseRead(r, p) \/ CallbackRead(r, p)
           \/ \E o \in Orders : MissingRead(r, o)
    PROVE  OrderStep
<1>1. UNCHANGED <<orders, jarLock>>
  BY DEF CreateRead, PayRead, RefuseRead, CallbackRead, MissingRead
<1>2. \/ UNCHANGED req
      \/ \E record : /\ Becomes(r, record)
                     /\ \/ record.stage \notin {"reserve", "claim"}
                        \/ record.order = None
  <2>1. CASE \E a \in Appointments, k \in Keys : CreateRead(r, a, k)
    <3>1. \A o : [Idle EXCEPT !.stage = "refresh", !.order = o].stage
                     \notin {"reserve", "claim"}
      BY Zenon DEF Idle
    <3>2. \A a, k : [Idle EXCEPT !.stage = "reserve", !.appt = a,
                                 !.key = k].order = None
      BY Zenon DEF Idle
    <3> QED BY <2>1, <3>1, <3>2, Zenon DEF CreateRead
  <2>2. CASE \E o \in Orders, u \in Purposes : PayRead(r, o, u)
    BY <2>2, ReadForPaymentStage DEF PayRead
  <2>3. CASE \E p \in Payments : RefuseRead(r, p) \/ CallbackRead(r, p)
    <3>1. \/ UNCHANGED req
          \/ \E p, stage : /\ Becomes(r, CallbackRequest(p, stage))
                           /\ stage \in {"refuse", "check"}
      BY <2>3, Zenon DEF RefuseRead, CallbackRead
    <3> QED BY <3>1, CallbackRequestStage
  <2>4. CASE \E o \in Orders : MissingRead(r, o)
    <3>1. \A o : [Idle EXCEPT !.stage = "missing", !.order = o].stage
                     = "missing"
      BY Zenon DEF Idle
    <3>2. \E record : Becomes(r, record) /\ record.stage = "missing"
      BY <2>4, <3>1, Zenon DEF MissingRead
    <3> QED BY <3>2
  <2> QED BY <2>1, <2>2, <2>3, <2>4
<1>3. NoNewHolder
  BY <1>2, BecomesHolder, SameHolder
<1> QED BY <1>1, <1>3 DEF OrderStep, Rests

LEMMA DeskStep ==
    ASSUME Consistent, NEW o \in Orders,
           Cancel(o) \/ \E q \in 1..MaxQty : CompleteDelivery(o, q)
    PROVE  OrderStep
<1>1. NoNewHolder /\ ~RowLocked(o)
  BY SameHolder DEF Cancel, CompleteDelivery
<1>2. orders \in [Orders -> OrderRow] /\ orders[o] \in OrderRow
  BY DEF Consistent, TypeOK
<1>3. CASE Cancel(o)
  <2>1. ReleaseJars(o) BY <1>3 DEF Cancel
  <2>2. OneRow(o) /\ KeepsOffer(o) /\ orders'[o].status = "cancelled"
    <3>1. CASE orders[o].status = "cancelled" /\ UNCHANGED orders
      BY <3>1 DEF OneRow, KeepsOffer
    <3>2. CASE SetStatus(o, "cancelled")
      BY <3>2, SetStatusRow
    <3> QED BY <1>3, <3>1, <3>2 DEF Cancel
  <2>3. Frees(o) BY <1>1, <2>1, <2>2 DEF Frees
  <2> QED BY <2>3 DEF OrderStep
<1>4. ASSUME NEW q \in 1..MaxQty, CompleteDelivery(o, q)
      PROVE  OrderStep
  <2> DEFINE row == [orders[o] EXCEPT !.status = "completed",
                                      !.quantity = q]
  <2>1. orders' = [orders EXCEPT ![o] = row]
    BY <1>2, <1>4, Zenon DEF CompleteDelivery
  <2>2. {"status", "key", "jar", "type"} \subseteq DOMAIN orders[o]
    BY <1>2 DEF OrderRow
  <2>3. /\ row.status = "completed" /\ row.key = orders[o].key
        /\ row.jar = orders[o].jar /\ row.type = orders[o].type
    BY <2>2, Zenon
  <2> HIDE DEF row
  <2>4. OneRow(o) /\ KeepsOffer(o) /\ orders'[o].status = "completed"
    BY <1>2, <2>1, <2>3 DEF OneRow, KeepsOffer
  <2>5. Moves(o)
    BY <1>1, <1>4, <2>4 DEF Moves, CompleteDelivery
  <2> QED BY <2>5 DEF OrderStep
<1> QED BY <1>3, <1>4

LEMMA EveryStep == Consistent /\ [Next]_vars => OrderStep
<1> SUFFICES ASSUME Consistent, [Next]_vars PROVE OrderStep
  OBVIOUS
<1>1. ASSUME NEW r \in Requests, Continue(r) PROVE OrderStep
  BY <1>1, RefreshReadStep, ReserveStep, HandlerStep DEF Continue
<1>2. ASSUME NEW r \in Requests, Crash(r) PROVE OrderStep
  BY <1>2, IdleHolder DEF Crash, OrderStep, Rests
<1>3. ASSUME NEW r \in Requests, NEW a \in Appointments,
             NEW k \in {a} \cup ClientKeys, CreateRead(r, a, k)
      PROVE  OrderStep
  <2>1. k \in Keys BY DEF Keys
  <2> QED BY <1>3, <2>1, StartStep
<1>4. ASSUME NEW r \in Requests, NEW o \in Orders, NEW u \in Purposes,
             PayRead(r, o, u)
      PROVE  OrderStep
  BY <1>4, StartStep
<1>5. ASSUME NEW r \in Requests, NEW p \in Payments,
             RefuseRead(r, p) \/ CallbackRead(r, p)
      PROVE  OrderStep
  BY <1>5, StartStep
<1>6. ASSUME NEW r \in Requests, NEW o \in Orders, MissingRead(r, o)
      PROVE  OrderStep
  BY <1>6, StartStep
<1>7. ASSUME NEW o \in Orders,
             Cancel(o) \/ \E q \in 1..MaxQty : CompleteDelivery(o, q)
      PROVE  OrderStep
  BY <1>7, DeskStep
<1>8. CASE \/ \E j \in Jars : RedeemJarCode(j)
           \/ \E p \in Payments : GatewayCharges(p) \/ GatewayDeclines(p)
           \/ UNCHANGED vars
  BY <1>8, SameHolder DEF RedeemJarCode, GatewayCharges, GatewayDeclines,
     vars, OrderStep, Rests
<1> QED BY <1>1, <1>2, <1>3, <1>4, <1>5, <1>6, <1>7, <1>8 DEF Next

-----------------------------------------------------------------------------
(* ReservationMatches is not inductive: a refresh writes the jar it claimed  *)
(* over whatever the row says, so it must know that the order holds no jar   *)
(* and still waits for its checkout while one handler has its row.           *)

Reserved ==
    /\ ReservationMatches
    /\ \A r \in Requests, o \in Orders : HoldsRow(r, o) =>
          /\ orders[o].status \in {"draft", "payment_failed"}
          /\ Locked(o) = {}
    /\ \A r, s \in Requests, o \in Orders :
          HoldsRow(r, o) /\ HoldsRow(s, o) => r = s

LEMMA FreeRow ==
    ASSUME NEW o, ~RowLocked(o), NEW r \in Requests
    PROVE  ~HoldsRow(r, o)
BY DEF RowLocked, HoldsRow

LEMMA NullIsNoOrder == None \notin Orders /\ None \notin Jars
BY ConstantsAssumption

LEMMA HoldersStay ==
    ASSUME Reserved, NoNewHolder,
           \A r \in Requests, o \in Orders : HoldsRow(r, o) =>
              /\ orders'[o].status = orders[o].status
              /\ \A j \in Jars : jarLock'[j] # o
    PROVE  /\ \A r \in Requests, o \in Orders : HoldsRow(r, o)' =>
                 /\ orders'[o].status \in {"draft", "payment_failed"}
                 /\ Locked(o)' = {}
           /\ \A r, s \in Requests, o \in Orders :
                 HoldsRow(r, o)' /\ HoldsRow(s, o)' => r = s
BY DEF Reserved, NoNewHolder, Locked

LEMMA ReservedUnlessCommitted ==
    ASSUME Consistent, Reserved, Grows, NEW o \in Orders,
           Moves(o) \/ Frees(o) \/ \E j \in Jars : Requalifies(o, j)
    PROVE  Reserved'
<1>1. /\ jarLock \in [Jars -> Orders \cup {None}] /\ NoNewHolder
      /\ ~RowLocked(o) /\ OneRow(o)
  BY DEF Consistent, TypeOK, Moves, Frees, Requalifies
<1>2. \A j \in Jars : jarLock'[j] \in {jarLock[j], None}
  BY <1>1 DEF Moves, Frees, Requalifies, ReleaseJars
<1>3. \A r \in Requests, x \in Orders : HoldsRow(r, x) =>
         /\ orders'[x].status = orders[x].status
         /\ \A j \in Jars : jarLock'[j] # x
  <2> SUFFICES ASSUME NEW r \in Requests, NEW x \in Orders, HoldsRow(r, x)
               PROVE  /\ orders'[x].status = orders[x].status
                      /\ \A j \in Jars : jarLock'[j] # x
    OBVIOUS
  <2>1. x # o BY <1>1, FreeRow
  <2>2. \A j \in Jars : jarLock[j] # x BY DEF Reserved, Locked
  <2> QED BY <1>1, <1>2, <2>1, <2>2, NullIsNoOrder DEF OneRow
<1>4. ReservationMatches'
  <2> SUFFICES ASSUME NEW j \in Jars, jarLock'[j] # None
               PROVE  /\ j \in redeemed'
                      /\ orders'[jarLock'[j]].jar = j
                      /\ orders'[jarLock'[j]].type = "exchange"
                      /\ orders'[jarLock'[j]].status
                             \notin {"absent", "cancelled"}
    BY DEF ReservationMatches
  <2> DEFINE x == jarLock[j]
  <2>1. jarLock'[j] = x /\ x \in Orders
    BY <1>1, <1>2
  <2>2. /\ j \in redeemed' /\ orders[x].jar = j
        /\ orders[x].type = "exchange"
        /\ orders[x].status \notin {"absent", "cancelled"}
    BY <2>1 DEF Reserved, ReservationMatches, Grows
  <2>3. CASE x # o
    BY <1>1, <2>1, <2>2, <2>3 DEF OneRow
  <2>4. CASE x = o
    <3>1. CASE Moves(o)
      BY <2>1, <2>2, <2>4, <3>1 DEF Moves, KeepsOffer
    <3>2. CASE Frees(o)
      BY <1>1, <2>1, <2>4, <3>2, NullIsNoOrder DEF Frees, ReleaseJars
    <3>3. ASSUME NEW i \in Jars, Requalifies(o, i)
          PROVE  /\ orders'[x].jar = j /\ orders'[x].type = "exchange"
                 /\ orders'[x].status \notin {"absent", "cancelled"}
      <4>1. i = j
        <5>1. jarLock[i] = o BY <3>3 DEF Requalifies, Locked
        <5>2. orders[o].jar = i
          BY <5>1, NullIsNoOrder DEF Reserved, ReservationMatches
        <5> QED BY <2>2, <2>4, <5>2
      <4> QED BY <2>2, <2>4, <3>3, <4>1, NullIsNoOrder
              DEF Requalifies, Offers, TypeFor
    <3> QED BY <2>1, <2>2, <3>1, <3>2, <3>3
  <2> QED BY <2>3, <2>4
<1> QED BY <1>1, <1>3, <1>4, HoldersStay DEF Reserved

LEMMA ReservedOnCommit ==
    ASSUME Consistent, Reserved, Grows, NEW o \in Orders,
           NEW j \in Jars \cup {None}, j \in Available \cup {None},
           jarLock' = Lock(j, o), OneRow(o), Offers(o, j), NoNewHolder,
           orders'[o].status \notin {"absent", "cancelled"},
           Locked(o) = {}, \A r \in Requests : ~HoldsRow(r, o)'
    PROVE  Reserved'
<1>1. /\ jarLock \in [Jars -> Orders \cup {None}]
      /\ redeemed \subseteq redeemed'
  BY DEF Consistent, TypeOK, Grows
<1>2. \A i \in Jars : jarLock'[i] = IF i = j THEN o ELSE jarLock[i]
  BY DEF Lock
<1>3. /\ \A r \in Requests, x \in Orders : HoldsRow(r, x)' =>
            /\ orders'[x].status \in {"draft", "payment_failed"}
            /\ Locked(x)' = {}
      /\ \A r, s \in Requests, x \in Orders :
            HoldsRow(r, x)' /\ HoldsRow(s, x)' => r = s
  <2>1. ASSUME NEW r \in Requests, NEW x \in Orders, HoldsRow(r, x)'
        PROVE  /\ orders'[x].status \in {"draft", "payment_failed"}
               /\ Locked(x)' = {}
    <3>1. x # o /\ HoldsRow(r, x) BY <2>1 DEF NoNewHolder
    <3>2. orders'[x] = orders[x] BY <3>1 DEF OneRow
    <3>3. \A i \in Jars : jarLock[i] # x
      BY <3>1 DEF Reserved, Locked
    <3>4. \A i \in Jars : jarLock'[i] # x
      BY <1>2, <3>1, <3>3
    <3> QED BY <3>1, <3>2, <3>4 DEF Reserved, Locked
  <2>2. \A r, s \in Requests, x \in Orders :
            HoldsRow(r, x)' /\ HoldsRow(s, x)' => r = s
    BY DEF NoNewHolder, Reserved
  <2> QED BY <2>1, <2>2
<1>4. ReservationMatches'
  <2> SUFFICES ASSUME NEW i \in Jars, jarLock'[i] # None
               PROVE  /\ i \in redeemed'
                      /\ orders'[jarLock'[i]].jar = i
                      /\ orders'[jarLock'[i]].type = "exchange"
                      /\ orders'[jarLock'[i]].status
                             \notin {"absent", "cancelled"}
    BY DEF ReservationMatches
  <2>1. CASE i = j
    <3>1. jarLock'[i] = o /\ j # None BY <1>2, <2>1, NullIsNoOrder
    <3>2. j \in redeemed BY <3>1 DEF Available
    <3> QED BY <1>1, <2>1, <3>1, <3>2 DEF Offers, TypeFor
  <2>2. CASE i # j
    <3>1. jarLock'[i] = jarLock[i] /\ jarLock[i] \in Orders
      BY <1>1, <1>2, <2>2
    <3>2. jarLock[i] # o BY DEF Locked
    <3> QED BY <1>1, <3>1, <3>2 DEF OneRow, Reserved, ReservationMatches
  <2> QED BY <2>1, <2>2
<1> QED BY <1>3, <1>4 DEF Reserved

LEMMA ReservedStep ==
    Consistent /\ Reserved /\ Grows /\ OrderStep => Reserved'
<1> SUFFICES ASSUME Consistent, Reserved, Grows, OrderStep PROVE Reserved'
  OBVIOUS
<1>1. CASE Rests
  <2>1. ReservationMatches'
    BY <1>1 DEF Rests, Reserved, ReservationMatches, Grows
  <2>2. \A r \in Requests, x \in Orders : HoldsRow(r, x) =>
           /\ orders'[x].status = orders[x].status
           /\ \A j \in Jars : jarLock'[j] # x
    BY <1>1 DEF Rests, Reserved, Locked
  <2> QED BY <1>1, <2>1, <2>2, HoldersStay DEF Rests, Reserved
<1>2. CASE \/ \E o \in Orders : Moves(o) \/ Frees(o)
           \/ \E o \in Orders, j \in Jars : Requalifies(o, j)
  BY <1>2, ReservedUnlessCommitted
<1>3. ASSUME NEW r \in Requests, NEW o \in Orders, Seizes(r, o)
      PROVE  Reserved'
  <2>1. UNCHANGED <<orders, jarLock>> /\ \A s \in Requests : ~HoldsRow(s, o)
    BY <1>3, FreeRow DEF Seizes
  <2>2. \A s \in Requests, x \in Orders :
           HoldsRow(s, x)' => HoldsRow(s, x) \/ (s = r /\ x = o)
    BY <1>3 DEF Seizes
  <2>3. ReservationMatches'
    BY <2>1 DEF Reserved, ReservationMatches, Grows
  <2>4. \A s \in Requests, x \in Orders : HoldsRow(s, x)' =>
           /\ orders'[x].status \in {"draft", "payment_failed"}
           /\ Locked(x)' = {}
    BY <1>3, <2>1, <2>2 DEF Seizes, Reserved, Locked
  <2>5. \A s, t \in Requests, x \in Orders :
            HoldsRow(s, x)' /\ HoldsRow(t, x)' => s = t
    BY <2>1, <2>2 DEF Reserved
  <2> QED BY <2>3, <2>4, <2>5 DEF Reserved
<1>4. ASSUME NEW r \in Requests, NEW o \in Orders,
             NEW j \in Jars \cup {None}, Commits(r, o, j)
      PROVE  Reserved'
  <2>1. /\ orders[o].status \in {"draft", "payment_failed"}
        /\ Locked(o) = {}
    BY <1>4 DEF Commits, Reserved
  <2>2. \A s \in Requests : ~HoldsRow(s, o)'
    BY <1>4 DEF Commits, LetsGo, Reserved
  <2> QED BY <1>4, <2>1, <2>2, LetsGoNew, ReservedOnCommit DEF Commits
<1>5. ASSUME NEW o \in Orders, NEW j \in Jars \cup {None}, Creates(o, j)
      PROVE  Reserved'
  <2>1. Locked(o) = {}
    BY <1>5, NullIsNoOrder
       DEF Creates, Absent, Locked, Reserved, ReservationMatches
  <2>2. \A s \in Requests : ~HoldsRow(s, o)'
    BY <1>5 DEF Creates, Absent, NoNewHolder, Reserved
  <2> QED BY <1>5, <2>1, <2>2, ReservedOnCommit DEF Creates
<1> QED BY <1>1, <1>2, <1>3, <1>4, <1>5 DEF OrderStep

LEMMA ReservedInit == Init => Reserved
BY NullIsNoOrder DEF Init, Reserved, ReservationMatches, HoldsRow, Idle

LEMMA ReservedAlways == Spec => []Reserved
<1>1. Consistent /\ Reserved /\ [Next]_vars => Reserved'
  BY ReservedStep, EveryStep, NextGrows
<1> QED BY <1>1, ReservedInit, AlwaysConsistent, PTL DEF Spec

\* A jar that an order has locked is the jar the order carries and is priced
\* by, however the page loads that look for a jar, the cancellations and the
\* checkouts of any number of orders interleave.
THEOREM ReservationAlwaysMatches == Spec => []ReservationMatches
<1>1. Reserved => ReservationMatches BY DEF Reserved
<1> QED BY <1>1, ReservedAlways, PTL

-----------------------------------------------------------------------------
(* One order for a key: an order that does not exist yet has none. *)

KeysKept == KeyIsUnique /\ \A o \in Orders : Absent(o) => orders[o].key = None

LEMMA KeysStep == Reserved /\ KeysKept /\ OrderStep => KeysKept'
<1> SUFFICES ASSUME Reserved, KeysKept, OrderStep PROVE KeysKept'
  OBVIOUS
<1>1. CASE \A o \in Orders : /\ orders'[o].key = orders[o].key
                             /\ Absent(o)' => Absent(o)
  BY <1>1 DEF KeysKept, KeyIsUnique
<1>2. CASE Rests \/ \E r \in Requests, o \in Orders : Seizes(r, o)
  BY <1>1, <1>2 DEF Rests, Seizes, Absent
<1>3. ASSUME NEW o \in Orders,
             \/ Moves(o) \/ Frees(o)
             \/ \E j \in Jars : Requalifies(o, j)
             \/ \E r \in Requests, j \in Jars \cup {None} : Commits(r, o, j)
      PROVE  KeysKept'
  <2>1. /\ orders'[o].key = orders[o].key
        /\ Absent(o)' => Absent(o)
        /\ \A x \in Orders \ {o} : orders'[x] = orders[x]
    BY <1>3 DEF Moves, Frees, Requalifies, Commits, KeepsOffer, OneRow, Absent
  <2>2. ASSUME NEW x \in Orders
        PROVE  /\ orders'[x].key = orders[x].key
               /\ Absent(x)' => Absent(x)
    <3>1. CASE x = o BY <2>1, <3>1 DEF Absent
    <3>2. CASE x # o BY <2>1, <3>2 DEF Absent
    <3> QED BY <3>1, <3>2
  <2> QED BY <1>1, <2>2
<1>4. ASSUME NEW o \in Orders, NEW j \in Jars \cup {None}, Creates(o, j)
      PROVE  KeysKept'
  <2>1. /\ ~Absent(o)' /\ WithKey(orders'[o].key) = {}
        /\ \A x \in Orders \ {o} : orders'[x] = orders[x]
    BY <1>4 DEF Creates, OneRow, Absent
  <2>2. ASSUME NEW x \in Orders \ {o}, orders'[x].key = orders'[o].key
        PROVE  orders'[o].key = None
    <3>1. x \notin WithKey(orders'[o].key) /\ orders[x].key = orders'[o].key
      BY <2>1, <2>2
    <3> QED BY <3>1 DEF WithKey, KeysKept
  <2>3. KeyIsUnique'
    BY <2>1, <2>2 DEF KeysKept, KeyIsUnique
  <2>4. (\A x \in Orders : Absent(x) => orders[x].key = None)'
    BY <2>1 DEF KeysKept, Absent
  <2> QED BY <2>3, <2>4 DEF KeysKept
<1> QED BY <1>2, <1>3, <1>4 DEF OrderStep

\* Two requests that create an order with the same idempotency key, both of
\* which have read that there is none, never make two orders.
THEOREM KeyStaysUnique == Spec => []KeyIsUnique
<1>1. Init => KeysKept
  BY DEF Init, KeysKept, KeyIsUnique, NoRow
<1>2. Consistent /\ Reserved /\ KeysKept /\ [Next]_vars => KeysKept'
  BY KeysStep, EveryStep
<1>3. KeysKept => KeyIsUnique BY DEF KeysKept
<1> QED BY <1>1, <1>2, <1>3, AlwaysConsistent, ReservedAlways, PTL DEF Spec

-----------------------------------------------------------------------------
(* No step takes its jar from an order that keeps the lower price.           *)

StaysBacked(x) ==
    LowerPrice(x)' /\ ~Backed(x)' =>
        orders[x].status = "cancelled" \/ (LowerPrice(x) /\ ~Backed(x))

\* An order whose row and whose locks a step leaves alone.
LEMMA UntouchedBacked ==
    ASSUME NEW x \in Orders, orders'[x] = orders[x],
           \A i \in Jars : jarLock[i] = x => jarLock'[i] = x
    PROVE  StaysBacked(x)
BY DEF StaysBacked, LowerPrice, Backed

\* A step that writes the row of o, and leaves every other order its locks.
LEMMA OneRowBacked ==
    ASSUME NEW o \in Orders, OneRow(o), StaysBacked(o),
           \A x \in Orders \ {o}, i \in Jars :
              jarLock[i] = x => jarLock'[i] = x
    PROVE  \A x \in Orders : StaysBacked(x)
<1> SUFFICES ASSUME NEW x \in Orders PROVE StaysBacked(x)
  OBVIOUS
<1>1. CASE x = o BY <1>1
<1>2. CASE x # o BY <1>2, UntouchedBacked DEF OneRow
<1> QED BY <1>1, <1>2

\* A lock of a jar on an order is only given back by its cancellation, and a
\* jar is only taken for an order while no other order has it.
LEMMA BackedStep ==
    ASSUME Consistent, OrderStep
    PROVE  \A x \in Orders : StaysBacked(x)
<1>1. jarLock \in [Jars -> Orders \cup {None}]
  BY DEF Consistent, TypeOK
<1>2. CASE Rests \/ \E r \in Requests, o \in Orders : Seizes(r, o)
  <2>1. UNCHANGED <<orders, jarLock>> BY <1>2 DEF Rests, Seizes
  <2> QED BY <2>1, UntouchedBacked
<1>3. ASSUME NEW o \in Orders, Moves(o)
      PROVE  \A x \in Orders : StaysBacked(x)
  <2>1. UNCHANGED jarLock /\ OneRow(o) /\ KeepsOffer(o)
    BY <1>3 DEF Moves
  <2>2. StaysBacked(o)
    BY <2>1 DEF StaysBacked, LowerPrice, Backed, KeepsOffer
  <2> QED BY <2>1, <2>2, OneRowBacked
<1>4. ASSUME NEW o \in Orders, Frees(o)
      PROVE  \A x \in Orders : StaysBacked(x)
  <2>1. \A x \in Orders \ {o}, i \in Jars :
           jarLock[i] = x => jarLock'[i] = x
    BY <1>4 DEF Frees, ReleaseJars
  <2>2. StaysBacked(o)
    BY <1>4 DEF Frees, StaysBacked, LowerPrice
  <2> QED BY <1>4, <2>1, <2>2, OneRowBacked DEF Frees
<1>5. ASSUME NEW o \in Orders, NEW j \in Jars, Requalifies(o, j)
      PROVE  \A x \in Orders : StaysBacked(x)
  <2>1. UNCHANGED jarLock /\ OneRow(o) BY <1>5 DEF Requalifies
  <2>2. StaysBacked(o)
    BY <1>5 DEF Requalifies, Offers, Locked, StaysBacked, Backed
  <2> QED BY <2>1, <2>2, OneRowBacked
<1>6. ASSUME NEW o \in Orders, NEW j \in Jars \cup {None},
             OneRow(o), Offers(o, j), jarLock' = Lock(j, o),
             j \in Available \cup {None}
      PROVE  \A x \in Orders : StaysBacked(x)
  <2>1. \A i \in Jars : jarLock'[i] = IF i = j THEN o ELSE jarLock[i]
    BY <1>6 DEF Lock
  <2>2. \A x \in Orders \ {o}, i \in Jars :
           jarLock[i] = x => jarLock'[i] = x
    BY <1>6, <2>1, NullIsNoOrder DEF Available
  <2>3. StaysBacked(o)
    BY <1>6, <2>1 DEF Offers, TypeFor, StaysBacked, LowerPrice, Backed
  <2> QED BY <1>6, <2>2, <2>3, OneRowBacked
<1>7. CASE \/ \E r \in Requests, o \in Orders, j \in Jars \cup {None} :
                 Commits(r, o, j)
           \/ \E o \in Orders, j \in Jars \cup {None} : Creates(o, j)
  BY <1>6, <1>7 DEF Commits, Creates
<1> QED BY <1>2, <1>3, <1>4, <1>5, <1>7 DEF OrderStep

\* Whatever page loads, creates, checkouts, callbacks, cancellations and
\* deliveries interleave, an order that asks the lower price keeps the jar it
\* got the price for; only an order that was cancelled before may stand there
\* without one, when a stale checkout or callback revives it.
THEOREM PriceStaysBacked == Spec => PriceIsBacked
<1>1. Consistent /\ [Next]_vars =>
      [\A o \in Orders :
          LowerPrice(o)' /\ ~Backed(o)' =>
              orders[o].status = "cancelled"
                  \/ (LowerPrice(o) /\ ~Backed(o))]_vars
  BY BackedStep, EveryStep DEF StaysBacked
<1> QED BY <1>1, AlwaysConsistent, PTL DEF Spec, PriceIsBacked

-----------------------------------------------------------------------------
(* What any step may do to the payments and to the charges of the gateway.   *)

SetsPayment(p, status) ==
    /\ payments'[p].status = status
    /\ payments'[p].order = payments[p].order
    /\ payments'[p].purpose = payments[p].purpose
    /\ \A q \in Payments \ {p} : payments'[q] = payments[q]

Opens(p, b) ==
    /\ payments[p].status = "absent" /\ payments'[p].status = "pending"
    /\ b = <<payments'[p].order, payments'[p].purpose>>
    /\ \A q \in Payments \ {p} : payments'[q] = payments[q]
    /\ \E r \in Requests : /\ req[r].stage = "open"
                           /\ b = <<req[r].order, req[r].purpose>>
Refuses(r) == /\ req[r].stage = "refuse" /\ SetsPayment(req[r].pay, "failed")
Wins(p) == /\ p \in charged /\ payments[p].status = "pending"
           /\ OtherPaid(p) = {} /\ SetsPayment(p, "paid")
Doubles(p) == /\ p \in charged /\ OtherPaid(p) # {}
              /\ payments[p].status # "paid"
              /\ SetsPayment(p, "duplicate_paid")
Takes(p) == /\ payments[p].status # "absent" /\ p \notin charged
            /\ charged' = charged \cup {p} /\ UNCHANGED payments

PaymentStep ==
    \/ UNCHANGED <<payments, charged>>
    \/ \E p \in Payments : Takes(p)
    \/ /\ UNCHANGED charged
       /\ \/ \E p \in Payments, b \in Bills : Opens(p, b)
          \/ \E r \in Requests : Refuses(r)
          \/ \E p \in Payments : Wins(p) \/ Doubles(p)

LEMMA SetsPaymentTo ==
    ASSUME Consistent, NEW p \in Payments, NEW status,
           payments' = [payments EXCEPT ![p].status = status]
    PROVE  SetsPayment(p, status)
<1>1. payments \in [Payments -> PaymentRow] BY DEF Consistent, TypeOK
<1> QED BY <1>1 DEF SetsPayment, PaymentRow

LEMMA PayWriteOpens ==
    ASSUME Consistent, NEW r \in Requests, PayWrite(r)
    PROVE  \E p \in Payments, b \in Bills : Opens(p, b)
<1> DEFINE Attempt == [status |-> "pending", order |-> req[r].order,
                       purpose |-> req[r].purpose, amount |-> req[r].amount]
           b == <<req[r].order, req[r].purpose>>
<1>1. PICK p \in Payments :
         /\ payments[p].status = "absent"
         /\ payments' = [payments EXCEPT ![p] = Attempt]
  BY DEF PayWrite
<1>2. b \in Bills
  BY DEF PayWrite, Consistent, TypeOK, Request, RequestOK, OrderStages, Bills
<1>3. /\ Attempt.status = "pending" /\ Attempt.order = req[r].order
      /\ Attempt.purpose = req[r].purpose
  OBVIOUS
<1>4. payments \in [Payments -> PaymentRow] BY DEF Consistent, TypeOK
<1> HIDE DEF Attempt
<1>5. /\ payments'[p] = Attempt
      /\ \A q \in Payments \ {p} : payments'[q] = payments[q]
  BY <1>1, <1>4
<1>6. Opens(p, b)
  BY <1>1, <1>3, <1>5 DEF Opens, PayWrite
<1> QED BY <1>2, <1>6

LEMMA MarkDuplicateStep ==
    ASSUME Consistent, NEW r \in Requests, req[r].stage \in CallbackStages,
           OtherPaid(req[r].pay) # {}, MarkDuplicate(req[r].pay),
           UNCHANGED charged
    PROVE  PaymentStep
<1> DEFINE p == req[r].pay
<1>1. p \in Payments /\ p \in charged BY CallbackStage
<1>2. payments \in [Payments -> PaymentRow] BY DEF Consistent, TypeOK
<1>3. CASE payments[p].status = "paid"
  <2>1. payments' = payments
    BY <1>1, <1>2, <1>3 DEF MarkDuplicate, PaymentRow
  <2> QED BY <2>1 DEF PaymentStep
<1>4. CASE payments[p].status # "paid"
  <2>1. payments' = [payments EXCEPT ![p].status = "duplicate_paid"]
    BY <1>1, <1>2, <1>4, Zenon DEF MarkDuplicate
  <2>2. SetsPayment(p, "duplicate_paid")
    BY <1>1, <2>1, SetsPaymentTo
  <2>3. Doubles(p) BY <1>1, <1>4, <2>2 DEF Doubles
  <2> QED BY <1>1, <2>3 DEF PaymentStep
<1> QED BY <1>3, <1>4

LEMMA EveryPaymentStep == Consistent /\ [Next]_vars => PaymentStep
<1> SUFFICES ASSUME Consistent, [Next]_vars PROVE PaymentStep
  OBVIOUS
<1>1. ASSUME NEW r \in Requests, PayWrite(r) \/ RefuseWrite(r)
      PROVE  PaymentStep
  <2>1. UNCHANGED charged BY <1>1 DEF PayWrite, RefuseWrite, gateway
  <2>2. CASE PayWrite(r)
    BY <2>1, <2>2, PayWriteOpens DEF PaymentStep
  <2>3. CASE RefuseWrite(r)
    <3>1. req[r].pay \in Payments /\ req[r].stage = "refuse"
      BY <2>3 DEF RefuseWrite, Consistent, RequestOK
    <3>2. Refuses(r)
      BY <2>3, <3>1, SetsPaymentTo DEF RefuseWrite, Refuses
    <3> QED BY <2>1, <3>2 DEF PaymentStep
  <2> QED BY <1>1, <2>2, <2>3
<1>2. ASSUME NEW r \in Requests,
             CallbackCheck(r) \/ CallbackDuplicate(r) \/ CallbackSettle(r)
      PROVE  PaymentStep
  <2>1. UNCHANGED charged /\ req[r].stage \in CallbackStages
    BY <1>2 DEF CallbackCheck, CallbackDuplicate, CallbackSettle,
                CallbackStages
  <2>2. \/ UNCHANGED payments
        \/ OtherPaid(req[r].pay) # {} /\ MarkDuplicate(req[r].pay)
        \/ /\ payments[req[r].pay].status = "pending"
           /\ OtherPaid(req[r].pay) = {}
           /\ payments' = [payments EXCEPT ![req[r].pay].status = "paid"]
    BY <1>2 DEF CallbackCheck, CallbackDuplicate, CallbackSettle, Claimable
  <2>3. CASE UNCHANGED payments BY <2>1, <2>3 DEF PaymentStep
  <2>4. CASE OtherPaid(req[r].pay) # {} /\ MarkDuplicate(req[r].pay)
    BY <2>1, <2>4, MarkDuplicateStep
  <2>5. CASE /\ payments[req[r].pay].status = "pending"
             /\ OtherPaid(req[r].pay) = {}
             /\ payments' = [payments EXCEPT ![req[r].pay].status = "paid"]
    <3>1. req[r].pay \in Payments /\ req[r].pay \in charged
      BY <2>1, CallbackStage
    <3>2. SetsPayment(req[r].pay, "paid")
      BY <2>5, <3>1, SetsPaymentTo
    <3>3. Wins(req[r].pay) BY <2>5, <3>1, <3>2 DEF Wins
    <3> QED BY <2>1, <3>1, <3>3 DEF PaymentStep
  <2> QED BY <2>2, <2>3, <2>4, <2>5
<1>3. ASSUME NEW r \in Requests, Continue(r) PROVE PaymentStep
  <2>1. CASE \/ RefreshRead(r) \/ ReserveRead(r) \/ ReserveClaim(r)
             \/ MissingWrite(r) \/ MissingPayRead(r)
    BY <2>1 DEF RefreshRead, ReserveRead, ReserveClaim, MissingWrite,
       MissingPayRead, PaymentStep, gateway
  <2> QED BY <1>1, <1>2, <1>3, <2>1 DEF Continue
<1>4. CASE \E p \in Payments : GatewayCharges(p) \/ GatewayDeclines(p)
  BY <1>4 DEF GatewayCharges, GatewayDeclines, PaymentStep, Takes
<1>5. CASE \/ UNCHANGED vars
           \/ \E r \in Requests : Crash(r)
           \/ \E r \in Requests, a \in Appointments :
                 \E k \in {a} \cup ClientKeys : CreateRead(r, a, k)
           \/ \E r \in Requests, o \in Orders, purpose \in Purposes :
                 PayRead(r, o, purpose)
           \/ \E r \in Requests, p \in Payments :
                 RefuseRead(r, p) \/ CallbackRead(r, p)
           \/ \E r \in Requests, o \in Orders : MissingRead(r, o)
           \/ \E o \in Orders : Cancel(o)
           \/ \E o \in Orders, q \in 1..MaxQty : CompleteDelivery(o, q)
           \/ \E j \in Jars : RedeemJarCode(j)
  BY <1>5 DEF vars, Crash, CreateRead, PayRead, RefuseRead, CallbackRead,
     MissingRead, Cancel, CompleteDelivery, RedeemJarCode, gateway,
     PaymentStep
<1> QED BY <1>3, <1>4, <1>5 DEF Next

-----------------------------------------------------------------------------
(* A gateway that never charges what it has declined.  A refused trade is    *)
(* then never one that has paid for an order.                                *)

Undisputed ==
    /\ declined \cap charged = {}
    /\ \A r \in Requests : req[r].stage = "refuse" => req[r].pay \in declined
    /\ \A p \in Payments : payments[p].status \in {"paid", "duplicate_paid"}
                               => p \in charged

\* Only RefuseRead starts a refusal, and no step takes back a decline.
LEMMA RefusalStep ==
    ASSUME Consistent, Undisputed, [Next]_vars
    PROVE  /\ declined \subseteq declined'
           /\ \A r \in Requests :
                 req'[r].stage = "refuse" => req'[r].pay \in declined
<1>1. req \in [Requests -> Request] /\ declined \subseteq declined'
  <2>1. req \in [Requests -> Request] BY DEF Consistent, TypeOK
  <2>2. ASSUME NEW r \in Requests, Continue(r) PROVE UNCHANGED declined
    BY <2>2 DEF Continue, RefreshRead, ReserveRead, ReserveClaim, PayWrite,
       RefuseWrite, CallbackCheck, CallbackSettle, CallbackDuplicate,
       MissingWrite, MissingPayRead, gateway
  <2>3. CASE \E r \in Requests : Continue(r)
    BY <2>1, <2>2, <2>3
  <2>4. CASE \/ UNCHANGED vars
             \/ \E p \in Payments : GatewayCharges(p) \/ GatewayDeclines(p)
             \/ \E r \in Requests : Crash(r)
             \/ \E r \in Requests, a \in Appointments :
                   \E k \in {a} \cup ClientKeys : CreateRead(r, a, k)
             \/ \E r \in Requests, o \in Orders, purpose \in Purposes :
                   PayRead(r, o, purpose)
             \/ \E r \in Requests, p \in Payments :
                   RefuseRead(r, p) \/ CallbackRead(r, p)
             \/ \E r \in Requests, o \in Orders : MissingRead(r, o)
             \/ \E o \in Orders : Cancel(o)
             \/ \E o \in Orders, q \in 1..MaxQty : CompleteDelivery(o, q)
             \/ \E j \in Jars : RedeemJarCode(j)
    BY <2>1, <2>4 DEF vars, GatewayCharges, GatewayDeclines, Crash,
       CreateRead, PayRead, RefuseRead, CallbackRead, MissingRead, Cancel,
       CompleteDelivery, RedeemJarCode, gateway
  <2> QED BY <2>1, <2>3, <2>4 DEF Next
<1>2. ASSUME NEW r \in Requests, NEW record, Becomes(r, record),
             record.stage = "refuse" => record.pay \in declined
      PROVE  \A s \in Requests :
                req'[s].stage = "refuse" => req'[s].pay \in declined
  <2>1. req'[r] = record
    BY <1>1, <1>2 DEF Becomes
  <2>2. \A s \in Requests \ {r} : req'[s] = req[s]
    BY <1>1, <1>2 DEF Becomes
  <2>3. req'[r].stage = "refuse" => req'[r].pay \in declined
    BY <1>2, <2>1
  <2>4. \A s \in Requests \ {r} :
           req'[s].stage = "refuse" => req'[s].pay \in declined
    BY <2>2 DEF Undisputed
  <2> QED BY <2>3, <2>4
<1>3. CASE UNCHANGED req
  BY <1>1, <1>3 DEF Undisputed
<1>4. Idle.stage = "idle" BY Zenon DEF Idle
<1>5. ASSUME NEW r \in Requests, Continue(r)
      PROVE  \E record : Becomes(r, record) /\ record.stage # "refuse"
  <2>1. req[r] \in Request BY <1>1
  <2>2. \A stage : [req[r] EXCEPT !.stage = stage].stage = stage
    BY <2>1, RequestDomain, Zenon
  <2>3. \A j : [req[r] EXCEPT !.stage = "claim", !.jar = j].stage = "claim"
    BY <2>1, RequestDomain, Zenon
  <2>4. [req[r] EXCEPT !.stage = "reserve", !.jar = None,
                       !.tries = req[r].tries + 1].stage = "reserve"
    BY <2>1, RequestDomain, Zenon
  <2>5. \/ Becomes(r, Idle)
        \/ \E o, purpose : ReadForPayment(r, o, purpose)
        \/ \E stage \in {"reserve", "settle", "duplicate", "topup"} :
              Becomes(r, [req[r] EXCEPT !.stage = stage])
        \/ \E j : Becomes(r, [req[r] EXCEPT !.stage = "claim", !.jar = j])
        \/ Becomes(r, [req[r] EXCEPT !.stage = "reserve", !.jar = None,
                                     !.tries = req[r].tries + 1])
    BY Zenon, <1>5 DEF Continue, RefreshRead, ReserveRead, ReserveClaim,
       CommitOrder, PayWrite, RefuseWrite, CallbackCheck, CallbackSettle,
       CallbackDuplicate, Acknowledge, MissingWrite, MissingPayRead
  <2>6. ASSUME NEW record, Becomes(r, record), record.stage # "refuse"
        PROVE  \E x : Becomes(r, x) /\ x.stage # "refuse"
    BY <2>6
  <2>7. ASSUME NEW j, Becomes(r, [req[r] EXCEPT !.stage = "claim", !.jar = j])
        PROVE  \E x : Becomes(r, x) /\ x.stage # "refuse"
    <3> DEFINE record == [req[r] EXCEPT !.stage = "claim", !.jar = j]
    <3>1. record.stage = "claim" BY <2>3
    <3>2. Becomes(r, record) BY <2>7
    <3> HIDE DEF record
    <3> QED BY <3>1, <3>2
  <2> QED BY <1>4, <2>2, <2>4, <2>5, <2>6, <2>7, ReadForPaymentStage
<1>6. ASSUME NEW r \in Requests, NEW a, NEW k, CreateRead(r, a, k)
      PROVE  \E record : Becomes(r, record) /\ record.stage # "refuse"
  <2>1. \A o : [Idle EXCEPT !.stage = "refresh", !.order = o].stage
                   = "refresh"
    BY Zenon DEF Idle
  <2>2. [Idle EXCEPT !.stage = "reserve", !.appt = a, !.key = k].stage
            = "reserve"
    BY Zenon DEF Idle
  <2>3. \E record : /\ Becomes(r, record)
                    /\ record.stage \in {"refresh", "reserve"}
    BY <1>6, <2>1, <2>2, Zenon DEF CreateRead
  <2> QED BY <2>3
<1>7. ASSUME NEW r \in Requests, NEW p,
             RefuseRead(r, p) \/ CallbackRead(r, p), ~UNCHANGED req
      PROVE  \E record :
                /\ Becomes(r, record)
                /\ record.stage = "refuse" => record.pay \in declined
  <2>1. \A stage : CallbackRequest(p, stage).pay = p
    BY Zenon DEF CallbackRequest, Idle
  <2> QED BY <1>7, <2>1, CallbackRequestStage DEF RefuseRead, CallbackRead
<1>8. ASSUME NEW r \in Requests, NEW o, MissingRead(r, o)
      PROVE  \E record : Becomes(r, record) /\ record.stage # "refuse"
  <2>1. [Idle EXCEPT !.stage = "missing", !.order = o].stage = "missing"
    BY Zenon DEF Idle
  <2>2. \E record : Becomes(r, record) /\ record.stage = "missing"
    BY <1>8, <2>1, Zenon DEF MissingRead
  <2> QED BY <2>2
<1>9. CASE \/ UNCHANGED vars
           \/ \E p \in Payments : GatewayCharges(p) \/ GatewayDeclines(p)
           \/ \E o \in Orders : Cancel(o)
           \/ \E o \in Orders, q \in 1..MaxQty : CompleteDelivery(o, q)
           \/ \E j \in Jars : RedeemJarCode(j)
  BY <1>1, <1>3, <1>9 DEF vars, GatewayCharges, GatewayDeclines, Cancel,
     CompleteDelivery, RedeemJarCode
<1>10. CASE \E r \in Requests : Continue(r) \/ Crash(r)
  BY <1>1, <1>2, <1>4, <1>5, <1>10 DEF Crash
<1>11. CASE \/ \E r \in Requests, a \in Appointments :
                  \E k \in {a} \cup ClientKeys : CreateRead(r, a, k)
            \/ \E r \in Requests, o \in Orders, purpose \in Purposes :
                  PayRead(r, o, purpose)
            \/ \E r \in Requests, p \in Payments :
                  RefuseRead(r, p) \/ CallbackRead(r, p)
            \/ \E r \in Requests, o \in Orders : MissingRead(r, o)
  BY <1>1, <1>2, <1>3, <1>6, <1>7, <1>8, <1>11, ReadForPaymentStage
     DEF PayRead
<1> QED BY <1>9, <1>10, <1>11 DEF Next

LEMMA UndisputedStep ==
    ASSUME ~DeclineThenCharge, Consistent, Undisputed, [Next]_vars
    PROVE  Undisputed'
<1>1. declined' \cap charged' = {}
  <2>1. CASE \E p \in Payments : GatewayCharges(p) \/ GatewayDeclines(p)
    BY <2>1 DEF GatewayCharges, GatewayDeclines, Undisputed
  <2>2. CASE UNCHANGED <<declined, charged>>
    BY <2>2 DEF Undisputed
  <2>3. ASSUME NEW r \in Requests, Continue(r)
        PROVE  UNCHANGED <<declined, charged>>
    BY <2>3 DEF Continue, RefreshRead, ReserveRead, ReserveClaim, PayWrite,
       RefuseWrite, CallbackCheck, CallbackSettle, CallbackDuplicate,
       MissingWrite, MissingPayRead, gateway
  <2>4. CASE \/ UNCHANGED vars
             \/ \E r \in Requests : Crash(r)
             \/ \E r \in Requests, a \in Appointments :
                   \E k \in {a} \cup ClientKeys : CreateRead(r, a, k)
             \/ \E r \in Requests, o \in Orders, purpose \in Purposes :
                   PayRead(r, o, purpose)
             \/ \E r \in Requests, p \in Payments :
                   RefuseRead(r, p) \/ CallbackRead(r, p)
             \/ \E r \in Requests, o \in Orders : MissingRead(r, o)
             \/ \E o \in Orders : Cancel(o)
             \/ \E o \in Orders, q \in 1..MaxQty : CompleteDelivery(o, q)
             \/ \E j \in Jars : RedeemJarCode(j)
    BY <2>2, <2>4 DEF vars, Crash, CreateRead, PayRead, RefuseRead,
       CallbackRead, MissingRead, Cancel, CompleteDelivery, RedeemJarCode,
       gateway
  <2> QED BY <2>1, <2>2, <2>3, <2>4 DEF Next
<1>2. \A r \in Requests : req'[r].stage = "refuse" => req'[r].pay \in declined'
  BY RefusalStep
<1>3. \A p \in Payments :
         payments'[p].status \in {"paid", "duplicate_paid"} => p \in charged'
  BY EveryPaymentStep DEF PaymentStep, Takes, Opens, Refuses, Wins, Doubles,
     SetsPayment, Undisputed
<1> QED BY <1>1, <1>2, <1>3 DEF Undisputed

LEMMA UndisputedAlways == ~DeclineThenCharge => (Spec => []Undisputed)
<1> SUFFICES ASSUME ~DeclineThenCharge PROVE Spec => []Undisputed
  OBVIOUS
<1>1. Init => Undisputed
  <2>1. Idle.stage = "idle" /\ NoPaymentRow.status = "absent"
    BY Zenon DEF Idle, NoPaymentRow
  <2> QED BY <2>1 DEF Init, Undisputed
<1>2. Consistent /\ Undisputed /\ [Next]_vars => Undisputed'
  BY UndisputedStep
<1> QED BY <1>1, <1>2, AlwaysConsistent, PTL DEF Spec

-----------------------------------------------------------------------------
(* The order and payment rows implement the ledger of charges.               *)

BillMap == [p \in Payments |-> IF payments[p].status = "absent" THEN None
                               ELSE <<payments[p].order,
                                      payments[p].purpose>>]
WinnerMap == [b \in Bills |-> WinnerOf(b)]
Refunds == {p \in Payments : payments[p].status = "duplicate_paid"}

SameBills == \A p \in Payments : BillMap'[p] = BillMap[p]

LEMMA BillMapSame == SameBills => BillMap' = BillMap
BY DEF SameBills, BillMap

LEMMA WinnerSame ==
    ASSUME NEW b, PaidFor(b)' = PaidFor(b)
    PROVE  WinnerOf(b)' = WinnerOf(b)
<1> DEFINE Chosen(S) == IF S = {} THEN None ELSE CHOOSE p \in S : TRUE
<1>1. WinnerOf(b) = Chosen(PaidFor(b))
  BY DEF WinnerOf
<1>2. WinnerOf(b)' = Chosen(PaidFor(b)')
  BY DEF WinnerOf
<1> HIDE DEF Chosen
<1> QED BY <1>1, <1>2, Zenon

LEMMA WinnerMapSame ==
    ASSUME \A b \in Bills : PaidFor(b)' = PaidFor(b)
    PROVE  WinnerMap' = WinnerMap
<1>1. \A b \in Bills : WinnerOf(b)' = WinnerOf(b) BY WinnerSame
<1> QED BY <1>1, Zenon DEF WinnerMap

\* A change of one payment that neither was nor becomes the paid one.
LEMMA StillPaidFor ==
    ASSUME NEW p \in Payments, payments[p].status # "paid",
           payments'[p].status # "paid",
           \A q \in Payments \ {p} : payments'[q] = payments[q]
    PROVE  WinnerMap' = WinnerMap
<1>1. \A b \in Bills : PaidFor(b)' = PaidFor(b)
  BY DEF PaidFor
<1> QED BY <1>1, WinnerMapSame

LEMMA WinnerIsPaid ==
    ASSUME NEW b, PaidFor(b) # {}
    PROVE  WinnerOf(b) \in PaidFor(b)
BY Zenon DEF WinnerOf

LEMMA BillOf ==
    ASSUME Consistent, NEW p \in Payments, payments[p].status # "absent"
    PROVE  /\ BillMap[p] = <<payments[p].order, payments[p].purpose>>
           /\ BillMap[p] \in Bills /\ BillMap[p] # None
<1>1. payments[p].order \in Orders /\ payments[p].purpose \in Purposes
  BY DEF Consistent, TypeOK, PaymentRow, PaymentOK
<1>2. BillMap[p] = <<payments[p].order, payments[p].purpose>>
  BY DEF BillMap
<1> QED BY <1>1, <1>2, NullIsNoBill DEF Bills

\* A payment in a settled status keeps its bill.
LEMMA SetsPaymentBills ==
    ASSUME Consistent, NEW p \in Payments, payments[p].status # "absent",
           NEW status, status # "absent", SetsPayment(p, status)
    PROVE  BillMap' = BillMap
<1>1. ASSUME NEW q \in Payments PROVE BillMap'[q] = BillMap[q]
  <2>1. CASE q = p BY <2>1 DEF SetsPayment, BillMap
  <2>2. CASE q # p BY <2>2 DEF SetsPayment, BillMap
  <2> QED BY <2>1, <2>2
<1> QED BY <1>1, BillMapSame DEF SameBills

LedgerStutters == UNCHANGED <<BillMap, charged, WinnerMap, Refunds>>

LEMMA OpensTrade ==
    ASSUME Consistent, NEW p \in Payments, NEW b \in Bills, Opens(p, b),
           UNCHANGED charged
    PROVE  Ledger!OpenTrade(p)
<1>1. BillMap[p] = None BY DEF Opens, BillMap
<1>2. BillMap' = [BillMap EXCEPT ![p] = b]
  <2>1. BillMap'[p] = b BY DEF Opens, BillMap
  <2>2. \A q \in Payments \ {p} : BillMap'[q] = BillMap[q]
    BY DEF Opens, BillMap
  <2> QED BY <2>1, <2>2 DEF BillMap
<1>3. WinnerMap' = WinnerMap
  BY StillPaidFor DEF Opens
<1>4. Refunds' = Refunds
  BY DEF Refunds, Opens
<1> QED
  BY <1>1, <1>2, <1>3, <1>4
     DEF Ledger!OpenTrade, BillMap, WinnerMap, Refunds

LEMMA TakesMoney ==
    ASSUME Consistent, NEW p \in Payments, Takes(p)
    PROVE  Ledger!TakeMoney(p)
<1>1. BillMap[p] # None BY BillOf DEF Takes
<1>2. BillMap' = BillMap /\ Refunds' = Refunds
  BY DEF Takes, BillMap, Refunds
<1>3. WinnerMap' = WinnerMap
  <2>1. \A b \in Bills : PaidFor(b)' = PaidFor(b) BY DEF Takes, PaidFor
  <2> QED BY <2>1, WinnerMapSame
<1> QED
  BY <1>1, <1>2, <1>3
     DEF Takes, Ledger!TakeMoney, BillMap, WinnerMap, Refunds

LEMMA RefusesStutters ==
    ASSUME Consistent, Undisputed, NEW r \in Requests, Refuses(r),
           UNCHANGED charged
    PROVE  LedgerStutters
<1> DEFINE p == req[r].pay
<1>1. p \in Payments /\ payments[p].status # "absent"
  BY DEF Refuses, Consistent, RequestOK
<1>2. payments[p].status \notin {"paid", "duplicate_paid"}
  BY <1>1 DEF Refuses, Undisputed
<1>3. SetsPayment(p, "failed") BY DEF Refuses
<1> HIDE DEF p
<1>4. BillMap' = BillMap BY <1>1, <1>3, SetsPaymentBills
<1>5. WinnerMap' = WinnerMap
  BY <1>1, <1>2, <1>3, StillPaidFor DEF SetsPayment
<1>6. Refunds' = Refunds BY <1>1, <1>2, <1>3 DEF Refunds, SetsPayment
<1> QED BY <1>4, <1>5, <1>6 DEF LedgerStutters

LEMMA WinsBill ==
    ASSUME Consistent, NEW p \in Payments, Wins(p), UNCHANGED charged
    PROVE  Ledger!PayBill(p)
<1>0. PICK b \in Bills : b = BillMap[p]
  BY BillOf DEF Wins
<1>1. /\ b = <<payments[p].order, payments[p].purpose>> /\ b \in Bills
  BY <1>0, BillOf DEF Wins
<1>2. BillMap' = BillMap BY SetsPaymentBills DEF Wins
<1>3. SetsPayment(p, "paid") /\ payments[p].status = "pending"
  BY DEF Wins
<1>4. PaidFor(b) = {}
  BY <1>1, <1>3 DEF PaidFor, Wins, OtherPaid
<1>5. PaidFor(b)' = {p}
  <2>1. \A q \in Payments : q \in PaidFor(b)' <=> q = p
    BY <1>1, <1>3, <1>4 DEF PaidFor, SetsPayment
  <2>2. PaidFor(b)' \subseteq Payments BY DEF PaidFor
  <2> QED BY <2>1, <2>2
<1>6. \A c \in Bills \ {b} : PaidFor(c)' = PaidFor(c)
  BY <1>1, <1>3 DEF PaidFor, SetsPayment
<1>7. WinnerOf(b) = None BY <1>4 DEF WinnerOf
<1>8. WinnerOf(b)' = p
  <2>1. WinnerOf(b)' \in PaidFor(b)'
    BY <1>5, Zenon DEF WinnerOf
  <2> QED BY <1>5, <2>1
<1>9. \A c \in Bills \ {b} : WinnerOf(c)' = WinnerOf(c)
  BY <1>6, WinnerSame
<1>10. WinnerMap[b] = None /\ WinnerMap' = [WinnerMap EXCEPT ![b] = p]
  BY <1>1, <1>7, <1>8, <1>9 DEF WinnerMap
<1>11. Refunds' = Refunds BY <1>3 DEF Refunds, SetsPayment
<1>12. p \in charged BY DEF Wins
<1> QED
  BY <1>0, <1>2, <1>10, <1>11, <1>12
     DEF Ledger!PayBill, BillMap, WinnerMap, Refunds

LEMMA DoublesCharge ==
    ASSUME Consistent, Undisputed, NEW p \in Payments, Doubles(p),
           UNCHANGED charged
    PROVE  Ledger!OweRefund(p) \/ LedgerStutters
<1> DEFINE b == BillMap[p]
<1>1. payments[p].status # "absent"
  BY DEF Doubles, Consistent, PaymentOK
<1>2. b = <<payments[p].order, payments[p].purpose>> /\ b \in Bills
  BY <1>1, BillOf
<1>3. SetsPayment(p, "duplicate_paid") /\ payments[p].status # "paid"
  BY DEF Doubles
<1>4. BillMap' = BillMap BY <1>1, <1>3, SetsPaymentBills
<1>5. WinnerMap' = WinnerMap
  BY <1>3, StillPaidFor DEF SetsPayment
<1>6. Refunds' = Refunds \cup {p}
  BY <1>3 DEF Refunds, SetsPayment
<1>7. CASE p \in Refunds
  BY <1>4, <1>5, <1>6, <1>7 DEF LedgerStutters
<1>8. CASE p \notin Refunds
  <2> HIDE DEF b
  <2>1. PaidFor(b) # {} /\ p \notin PaidFor(b) /\ None \notin PaidFor(b)
    BY <1>2, <1>3, ConstantsAssumption DEF PaidFor, Doubles, OtherPaid
  <2>2. WinnerOf(b) \notin {None, p}
    BY <2>1, WinnerIsPaid
  <2>3. WinnerMap[b] \notin {None, p}
    BY <1>2, <2>2 DEF WinnerMap
  <2>4. p \in charged \ Refunds BY <1>8 DEF Doubles
  <2>5. Ledger!OweRefund(p)
    BY <1>4, <1>5, <1>6, <2>3, <2>4
       DEF b, Ledger!OweRefund, BillMap, WinnerMap, Refunds
  <2> QED BY <2>5
<1> QED BY <1>7, <1>8

LEMMA LedgerStep ==
    ASSUME Consistent, Undisputed, PaymentStep
    PROVE  [Ledger!LedgerNext]_(Ledger!ledger)
<1>1. CASE UNCHANGED <<payments, charged>>
  <2>1. LedgerStutters
    <3>1. BillMap' = BillMap /\ Refunds' = Refunds
      BY <1>1 DEF BillMap, Refunds
    <3>2. \A b \in Bills : PaidFor(b)' = PaidFor(b) BY <1>1 DEF PaidFor
    <3> QED BY <1>1, <3>1, <3>2, WinnerMapSame DEF LedgerStutters
  <2> QED BY <2>1
          DEF LedgerStutters, Ledger!ledger, BillMap, WinnerMap, Refunds
<1>2. CASE \E p \in Payments : Takes(p)
  BY <1>2, TakesMoney DEF Ledger!LedgerNext
<1>3. CASE \E p \in Payments, b \in Bills : UNCHANGED charged /\ Opens(p, b)
  BY <1>3, OpensTrade DEF Ledger!LedgerNext
<1>4. CASE \E r \in Requests : UNCHANGED charged /\ Refuses(r)
  <2>1. LedgerStutters BY <1>4, RefusesStutters
  <2> QED BY <2>1
          DEF LedgerStutters, Ledger!ledger, BillMap, WinnerMap, Refunds
<1>5. CASE \E p \in Payments : UNCHANGED charged /\ Wins(p)
  BY <1>5, WinsBill DEF Ledger!LedgerNext, Ledger!SettleCharge
<1>6. ASSUME NEW p \in Payments, UNCHANGED charged, Doubles(p)
      PROVE  [Ledger!LedgerNext]_(Ledger!ledger)
  <2>1. CASE Ledger!OweRefund(p)
    BY <2>1 DEF Ledger!LedgerNext, Ledger!SettleCharge
  <2>2. CASE LedgerStutters
    BY <2>2 DEF LedgerStutters, Ledger!ledger, BillMap, WinnerMap, Refunds
  <2> QED BY <1>6, <2>1, <2>2, DoublesCharge
<1> QED BY <1>1, <1>2, <1>3, <1>4, <1>5, <1>6 DEF PaymentStep

LEMMA LedgerInits == Init => Ledger!LedgerInit
<1> SUFFICES ASSUME Init PROVE Ledger!LedgerInit
  OBVIOUS
<1>1. \A p \in Payments : payments[p].status = "absent"
  <2>1. NoPaymentRow.status = "absent" BY Zenon DEF NoPaymentRow
  <2> QED BY <2>1 DEF Init
<1>2. BillMap = [p \in Payments |-> None]
  BY <1>1 DEF BillMap
<1>3. \A b \in Bills : WinnerOf(b) = None
  BY <1>1 DEF WinnerOf, PaidFor
<1>4. WinnerMap = [b \in Bills |-> None]
  BY <1>3 DEF WinnerMap
<1>5. Refunds = {} BY <1>1 DEF Refunds
<1>6. charged = {} BY DEF Init
<1> QED
  BY <1>2, <1>4, <1>5, <1>6
     DEF Ledger!LedgerInit, BillMap, WinnerMap, Refunds

\* With a gateway that does not charge what it has declined, the payment rows
\* implement the ledger: a charge becomes the one payment of its bill or a
\* refund that is due, and neither verdict is ever taken back, whatever
\* callbacks and refusals arrive late, twice or in the wrong order.
THEOREM RowsImplementLedger ==
    ~DeclineThenCharge => (Spec => Ledger!LedgerSafety)
<1> SUFFICES ASSUME ~DeclineThenCharge PROVE Spec => Ledger!LedgerSafety
  OBVIOUS
<1>1. Init => Ledger!LedgerInit BY LedgerInits
<1>2. Consistent /\ Undisputed /\ [Next]_vars
      => [Ledger!LedgerNext]_(Ledger!ledger)
  BY LedgerStep, EveryPaymentStep
<1>3. Spec => []Undisputed BY UndisputedAlways
<1> QED BY <1>1, <1>2, <1>3, AlwaysConsistent, PTL
        DEF Spec, Ledger!LedgerSafety

-----------------------------------------------------------------------------
(* The goods leave once.  An order waits for its delivery only after the one *)
(* payment that can win it, so whoever writes an older status over a         *)
(* delivered order never makes it wait again.                                *)

RefillPaid(o) == \E p \in Payments : /\ payments[p].status = "paid"
                                     /\ payments[p].order = o
                                     /\ payments[p].purpose = "refill"

Served ==
    /\ HandedOnce
    /\ \A o \in Orders :
          /\ orders[o].quantity # 0 => RefillPaid(o)
          /\ orders[o].status = "paid_waiting_return" =>
                orders[o].quantity = 0 /\ RefillPaid(o)
          /\ orders[o].status = "absent" => orders[o].quantity = 0
          /\ orders[o].status # "awaiting_extra_payment"
    /\ \A p \in Payments :
          payments[p].status # "absent" => payments[p].purpose = "refill"
    /\ \A r \in Requests :
          /\ req[r].stage \notin {"missing", "topup"}
          /\ req[r].stage = "open" => req[r].purpose = "refill"

\* What a step may do to the goods.
Calm ==
    /\ UNCHANGED handed
    /\ \A o \in Orders :
          /\ orders'[o].status = "paid_waiting_return" =>
                orders[o].status = "paid_waiting_return"
          /\ orders'[o].status # "awaiting_extra_payment"
          /\ orders'[o].status = "absent" => orders[o].status = "absent"
          /\ \/ orders'[o].quantity = orders[o].quantity
             \/ orders[o].status = "absent" /\ orders'[o].quantity = 0

Promises(p) ==
    LET o == payments[p].order IN
    /\ Wins(p) /\ UNCHANGED handed
    /\ OneRow(o) /\ orders'[o].quantity = orders[o].quantity
    /\ orders'[o].status = "paid_waiting_return"

HandsOver(o, q) ==
    /\ UNCHANGED payments /\ OneRow(o)
    /\ orders[o].status = "paid_waiting_return"
    /\ orders'[o].status = "completed" /\ orders'[o].quantity = q
    /\ handed'[o] = handed[o] + q
    /\ \A x \in Orders \ {o} : handed'[x] = handed[x]

GoodsStep == \/ Calm
             \/ \E p \in Payments : Promises(p)
             \/ \E o \in Orders, q \in 1..MaxQty : HandsOver(o, q)

LEMMA CalmSame ==
    ASSUME Served, UNCHANGED <<orders, handed>>
    PROVE  Calm
BY DEF Served, Calm

LEMMA CalmRow ==
    ASSUME Served, UNCHANGED handed, NEW o \in Orders, OneRow(o),
           \/ orders'[o].status \notin {"paid_waiting_return", "absent",
                                        "awaiting_extra_payment"}
           \/ orders'[o].status = orders[o].status,
           \/ orders'[o].quantity = orders[o].quantity
           \/ orders[o].status = "absent" /\ orders'[o].quantity = 0
    PROVE  Calm
<1>1. \A x \in Orders \ {o} : orders'[x] = orders[x] BY DEF OneRow
<1> QED BY <1>1 DEF Served, Calm

LEMMA CommitOrderCalm ==
    ASSUME Consistent, Served, NEW r \in Requests, NEW j,
           CommitOrder(r, j), UNCHANGED handed
    PROVE  Calm
<1>1. orders \in [Orders -> OrderRow] /\ req[r] \in Request
  BY DEF Consistent, TypeOK
<1>2. /\ req[r].order \in Orders \cup {None}
      /\ req[r].appt \in Appointments \cup {None}
      /\ req[r].key \in Keys \cup {None}
  BY <1>1 DEF Request
<1> DEFINE New == [NoRow EXCEPT !.status = "draft", !.appt = req[r].appt,
                                !.key = req[r].key]
<1>3. New \in OrderRow /\ New.status = "draft" /\ New.quantity = 0
  <2>1. "draft" \in OrderStatuses BY DEF OrderStatuses
  <2>2. New \in OrderRow BY <1>2, <2>1, NullRows, RowFields, Zenon
  <2>3. New.status = "draft" /\ New.quantity = 0 BY Zenon DEF NoRow
  <2> QED BY <2>2, <2>3
<1>4. CASE UNCHANGED orders
  BY <1>4, CalmSame
<1>5. ASSUME NEW o \in Orders,
             \/ orders' = [orders EXCEPT ![o] = Qualified(orders[o], j)]
             \/ /\ orders' = [orders EXCEPT ![o] = Qualified(New, j)]
                /\ Absent(o)
      PROVE  Calm
  <2> HIDE DEF New
  <2>1. /\ Qualified(orders[o], j).status = orders[o].status
        /\ Qualified(orders[o], j).quantity = orders[o].quantity
        /\ Qualified(New, j).status = "draft"
        /\ Qualified(New, j).quantity = 0
    BY <1>1, <1>3, QualifiedFields
  <2>2. OneRow(o) BY <1>1, <1>5 DEF OneRow
  <2>3. \/ /\ orders'[o].status = orders[o].status
           /\ orders'[o].quantity = orders[o].quantity
        \/ /\ orders'[o].status = "draft" /\ orders[o].status = "absent"
           /\ orders'[o].quantity = 0
    BY <1>1, <1>5, <2>1 DEF Absent
  <2> QED BY <2>2, <2>3, CalmRow
<1>6. \/ UNCHANGED orders
      \/ \E o \in Orders :
            orders' = [orders EXCEPT ![o] = Qualified(orders[o], j)]
      \/ \E o \in Orders :
            /\ orders' = [orders EXCEPT ![o] = Qualified(New, j)]
            /\ Absent(o)
  BY <1>2, Zenon DEF CommitOrder, New
<1> QED BY <1>4, <1>5, <1>6

LEMMA RefreshReadCalm ==
    ASSUME Consistent, Served, NEW r \in Requests, RefreshRead(r)
    PROVE  Calm
<1> DEFINE o == req[r].order
<1>1. /\ orders \in [Orders -> OrderRow] /\ o \in Orders
      /\ UNCHANGED handed
  BY DEF RefreshRead, Consistent, TypeOK, RequestOK, OrderStages, shop
<1>2. \/ UNCHANGED orders
      \/ \E j \in Jars : orders' = [orders EXCEPT ![o] =
                                              Qualified(orders[o], j)]
  BY Zenon DEF RefreshRead, Locked
<1> HIDE DEF o
<1>3. ASSUME NEW j, orders' = [orders EXCEPT ![o] = Qualified(orders[o], j)]
      PROVE  Calm
  <2>1. /\ Qualified(orders[o], j).status = orders[o].status
        /\ Qualified(orders[o], j).quantity = orders[o].quantity
    BY <1>1, QualifiedFields
  <2>2. /\ OneRow(o) /\ orders'[o].status = orders[o].status
        /\ orders'[o].quantity = orders[o].quantity
    BY <1>1, <1>3, <2>1 DEF OneRow
  <2> QED BY <1>1, <2>2, CalmRow
<1> QED BY <1>1, <1>2, <1>3, CalmSame

\* A claim that moves its order is the win of a payment of that order.
LEMMA SettleGoods ==
    ASSUME Consistent, Served, NEW r \in Requests, CallbackSettle(r)
    PROVE  GoodsStep
<1> DEFINE p == req[r].pay
           o == req[r].order
<1>1. /\ p \in Payments /\ p \in charged /\ o \in Orders
      /\ payments[p].order = o /\ payments[p].purpose = req[r].purpose
      /\ payments[p].status # "absent"
      /\ orders \in [Orders -> OrderRow] /\ orders[o] \in OrderRow
      /\ UNCHANGED handed
  BY CallbackStage DEF CallbackSettle, CallbackStages, Consistent, TypeOK,
     shop
<1>2. req[r].purpose = "refill" BY <1>1 DEF Served
<1>3. CASE UNCHANGED orders
  BY <1>1, <1>3, CalmSame DEF GoodsStep
<1>4. CASE ~UNCHANGED orders
  <2>1. /\ payments[p].status = "pending" /\ OtherPaid(p) = {}
        /\ payments' = [payments EXCEPT ![p].status = "paid"]
        /\ Advance(r)
    BY <1>4 DEF CallbackSettle, Claimable
  <2>2. orders' = [orders EXCEPT ![o].status = "paid_waiting_return",
                                 ![o].paid = TRUE]
    BY <1>2, <1>4, <2>1, Zenon DEF Advance
  <2> DEFINE row == [orders[o] EXCEPT !.status = "paid_waiting_return",
                                      !.paid = TRUE]
  <2>3. orders' = [orders EXCEPT ![o] = row]
    <3> HIDE DEF o
    <3> QED BY <1>1, <2>2, Zenon
  <2>4. {"status", "quantity"} \subseteq DOMAIN orders[o]
    BY <1>1 DEF OrderRow
  <2>5. /\ row.status = "paid_waiting_return"
        /\ row.quantity = orders[o].quantity
    BY <2>4, Zenon
  <2> HIDE DEF row, o, p
  <2>6. /\ OneRow(o) /\ orders'[o].quantity = orders[o].quantity
        /\ orders'[o].status = "paid_waiting_return"
    BY <1>1, <2>3, <2>5 DEF OneRow
  <2>7. Wins(p) BY <1>1, <2>1, SetsPaymentTo DEF Wins
  <2>8. Promises(p) BY <1>1, <2>6, <2>7 DEF Promises
  <2> QED BY <1>1, <2>8 DEF GoodsStep
<1> QED BY <1>3, <1>4

LEMMA EveryGoodsStep ==
    Consistent /\ Served /\ [Next]_vars => GoodsStep
<1> SUFFICES ASSUME Consistent, Served, [Next]_vars PROVE GoodsStep
  OBVIOUS
<1>1. ASSUME NEW o \in Orders, NEW status, SetStatus(o, status),
             status \notin {"paid_waiting_return", "absent",
                            "awaiting_extra_payment"}, UNCHANGED handed
      PROVE  GoodsStep
  BY <1>1, SetStatusRow, CalmRow DEF GoodsStep
<1>2. ASSUME NEW r \in Requests, PayWrite(r) \/ RefuseWrite(r)
      PROVE  GoodsStep
  <2>1. req[r].order \in Orders /\ UNCHANGED handed
    BY <1>2 DEF PayWrite, RefuseWrite, Consistent, RequestOK, OrderStages,
       shop
  <2>2. \/ UNCHANGED orders
        \/ SetStatus(req[r].order, "payment_pending")
        \/ SetStatus(req[r].order, "payment_failed")
    BY <1>2 DEF PayWrite, RefuseWrite
  <2> QED BY <1>1, <2>1, <2>2, CalmSame DEF GoodsStep
<1>3. ASSUME NEW r \in Requests, Continue(r) PROVE GoodsStep
  <2>1. CASE RefreshRead(r)
    BY <2>1, RefreshReadCalm DEF GoodsStep
  <2>2. CASE ReserveRead(r) \/ ReserveClaim(r)
    <3>1. UNCHANGED handed BY <2>2 DEF ReserveRead, ReserveClaim, shop
    <3>2. UNCHANGED orders \/ \E j : CommitOrder(r, j)
      BY <2>2 DEF ReserveRead, ReserveClaim
    <3> QED BY <3>1, <3>2, CommitOrderCalm, CalmSame DEF GoodsStep
  <2>3. CASE CallbackCheck(r) \/ CallbackDuplicate(r) \/ MissingPayRead(r)
    BY <2>3, CalmSame DEF CallbackCheck, CallbackDuplicate, MissingPayRead,
       GoodsStep, shop
  <2>4. CASE MissingWrite(r)
    BY <2>4 DEF MissingWrite, Served
  <2> QED BY <1>2, <1>3, <2>1, <2>2, <2>3, <2>4, SettleGoods DEF Continue
<1>4. ASSUME NEW o \in Orders, Cancel(o) PROVE GoodsStep
  <2>1. UNCHANGED handed BY <1>4 DEF Cancel, shop
  <2>2. UNCHANGED orders \/ SetStatus(o, "cancelled") BY <1>4 DEF Cancel
  <2> QED BY <1>1, <2>1, <2>2, CalmSame DEF GoodsStep
<1>5. ASSUME NEW o \in Orders, NEW q \in 1..MaxQty, CompleteDelivery(o, q)
      PROVE  GoodsStep
  <2> DEFINE row == [orders[o] EXCEPT !.status = "completed",
                                      !.quantity = q]
  <2>1. orders \in [Orders -> OrderRow] /\ handed \in [Orders -> Nat]
    BY DEF Consistent, TypeOK
  <2>2. orders' = [orders EXCEPT ![o] = row]
    BY <1>5, <2>1, Zenon DEF CompleteDelivery
  <2>3. {"status", "quantity"} \subseteq DOMAIN orders[o]
    BY <2>1 DEF OrderRow
  <2>4. row.status = "completed" /\ row.quantity = q
    BY <2>3, Zenon
  <2> HIDE DEF row
  <2>5. /\ OneRow(o) /\ orders'[o].status = "completed"
        /\ orders'[o].quantity = q
    BY <2>1, <2>2, <2>4 DEF OneRow
  <2>6. HandsOver(o, q)
    BY <1>5, <2>1, <2>5 DEF HandsOver, CompleteDelivery
  <2> QED BY <2>6 DEF GoodsStep
<1>6. CASE \/ UNCHANGED vars
           \/ \E r \in Requests : Crash(r)
           \/ \E r \in Requests, a \in Appointments :
                 \E k \in {a} \cup ClientKeys : CreateRead(r, a, k)
           \/ \E r \in Requests, o \in Orders, purpose \in Purposes :
                 PayRead(r, o, purpose)
           \/ \E r \in Requests, p \in Payments :
                 RefuseRead(r, p) \/ CallbackRead(r, p)
           \/ \E r \in Requests, o \in Orders : MissingRead(r, o)
           \/ \E j \in Jars : RedeemJarCode(j)
           \/ \E p \in Payments : GatewayCharges(p) \/ GatewayDeclines(p)
  BY <1>6, CalmSame DEF vars, Crash, CreateRead, PayRead, RefuseRead,
     CallbackRead, MissingRead, RedeemJarCode, GatewayCharges,
     GatewayDeclines, GoodsStep, shop
<1> QED BY <1>3, <1>4, <1>5, <1>6 DEF Next

LEMMA RefillStaysPaid ==
    ASSUME Consistent, Undisputed, PaymentStep, NEW o, RefillPaid(o)
    PROVE  RefillPaid(o)'
<1>1. PICK p \in Payments : /\ payments[p].status = "paid"
                            /\ payments[p].order = o
                            /\ payments[p].purpose = "refill"
  BY DEF RefillPaid
<1>2. ASSUME NEW r \in Requests, Refuses(r) PROVE req[r].pay # p
  BY <1>1, <1>2 DEF Refuses, Undisputed
<1>3. /\ payments'[p].status = "paid" /\ payments'[p].order = o
      /\ payments'[p].purpose = "refill"
  <2>1. CASE payments'[p] = payments[p] BY <1>1, <2>1
  <2>2. CASE \E r \in Requests : Refuses(r)
    BY <1>1, <1>2, <2>2 DEF Refuses, SetsPayment
  <2> QED BY <1>1, <2>1, <2>2 DEF PaymentStep, Takes, Opens, Wins, Doubles,
             SetsPayment
<1> QED BY <1>3 DEF RefillPaid

\* Without the handler of missing jars nobody opens a top-up.
LEMMA OnlyRefills ==
    ASSUME "missing" \notin Ops, Consistent, Served, [Next]_vars
    PROVE  \A r \in Requests :
              /\ req'[r].stage \notin {"missing", "topup"}
              /\ req'[r].stage = "open" => req'[r].purpose = "refill"
<1>1. req \in [Requests -> Request] BY DEF Consistent, TypeOK
<1>2. ASSUME NEW r \in Requests, NEW record, Becomes(r, record),
             record.stage \notin {"missing", "topup"},
             record.stage = "open" => record.purpose = "refill"
      PROVE  \A s \in Requests :
                /\ req'[s].stage \notin {"missing", "topup"}
                /\ req'[s].stage = "open" => req'[s].purpose = "refill"
  <2>1. req'[r] = record BY <1>1, <1>2 DEF Becomes
  <2>2. \A s \in Requests \ {r} : req'[s] = req[s]
    BY <1>1, <1>2 DEF Becomes
  <2>3. \A s \in Requests \ {r} :
           /\ req'[s].stage \notin {"missing", "topup"}
           /\ req'[s].stage = "open" => req'[s].purpose = "refill"
    BY <2>2 DEF Served
  <2> QED BY <1>2, <2>1, <2>3
<1>3. CASE UNCHANGED req
  BY <1>3 DEF Served
<1>4. ASSUME NEW r \in Requests, NEW record, Becomes(r, record),
             record.stage \in {"idle", "refresh", "reserve", "claim",
                               "refuse", "check", "settle", "duplicate"}
      PROVE  \A s \in Requests :
                /\ req'[s].stage \notin {"missing", "topup"}
                /\ req'[s].stage = "open" => req'[s].purpose = "refill"
  BY <1>2, <1>4
<1>5. Idle.stage = "idle" BY Zenon DEF Idle
<1>6. ASSUME NEW r \in Requests, Continue(r)
      PROVE  \E record : /\ Becomes(r, record)
                         /\ record.stage \in {"idle", "reserve", "claim",
                                              "settle", "duplicate"}
  <2>1. req[r] \in Request BY <1>1
  <2>2. \A stage : [req[r] EXCEPT !.stage = stage].stage = stage
    BY <2>1, RequestDomain, Zenon
  <2>3. \A j : [req[r] EXCEPT !.stage = "claim", !.jar = j].stage = "claim"
    BY <2>1, RequestDomain, Zenon
  <2>4. [req[r] EXCEPT !.stage = "reserve", !.jar = None,
                       !.tries = req[r].tries + 1].stage = "reserve"
    BY <2>1, RequestDomain, Zenon
  <2>5. ~MissingWrite(r) /\ ~MissingPayRead(r)
    BY DEF MissingWrite, MissingPayRead, Served
  <2>6. \/ Becomes(r, Idle)
        \/ \E stage \in {"reserve", "settle", "duplicate"} :
              Becomes(r, [req[r] EXCEPT !.stage = stage])
        \/ \E j : Becomes(r, [req[r] EXCEPT !.stage = "claim", !.jar = j])
        \/ Becomes(r, [req[r] EXCEPT !.stage = "reserve", !.jar = None,
                                     !.tries = req[r].tries + 1])
    BY Zenon, <1>6, <2>5 DEF Continue, RefreshRead, ReserveRead,
       ReserveClaim, CommitOrder, PayWrite, RefuseWrite, CallbackCheck,
       CallbackSettle, CallbackDuplicate, Acknowledge
  <2>7. ASSUME NEW j, Becomes(r, [req[r] EXCEPT !.stage = "claim", !.jar = j])
        PROVE  \E x : Becomes(r, x) /\ x.stage = "claim"
    <3> DEFINE record == [req[r] EXCEPT !.stage = "claim", !.jar = j]
    <3>1. record.stage = "claim" BY <2>3
    <3>2. Becomes(r, record) BY <2>7
    <3> HIDE DEF record
    <3> QED BY <3>1, <3>2
  <2> QED BY <1>5, <2>2, <2>4, <2>6, <2>7
<1>7. ASSUME NEW r \in Requests, NEW a, NEW k, CreateRead(r, a, k)
      PROVE  \E record : /\ Becomes(r, record)
                         /\ record.stage \in {"refresh", "reserve"}
  <2>1. \A o : [Idle EXCEPT !.stage = "refresh", !.order = o].stage
                   = "refresh"
    BY Zenon DEF Idle
  <2>2. [Idle EXCEPT !.stage = "reserve", !.appt = a, !.key = k].stage
            = "reserve"
    BY Zenon DEF Idle
  <2> QED BY <1>7, <2>1, <2>2, Zenon DEF CreateRead
<1>8. ASSUME NEW r \in Requests, NEW p,
             RefuseRead(r, p) \/ CallbackRead(r, p), ~UNCHANGED req
      PROVE  \E record : /\ Becomes(r, record)
                         /\ record.stage \in {"refuse", "check"}
  BY <1>8, CallbackRequestStage DEF RefuseRead, CallbackRead
<1>9. ASSUME NEW r \in Requests, NEW o \in Orders, NEW u \in Purposes,
             PayRead(r, o, u)
      PROVE  \E record : /\ Becomes(r, record) /\ record.stage = "open"
                         /\ record.purpose = "refill"
  <2>1. u = "refill" BY <1>9 DEF PayRead, PayAllowed, Served
  <2> DEFINE price == IF u = "refill" THEN orders[o].base ELSE ExtraTopup
             record == [Idle EXCEPT !.stage = "open", !.order = o,
                            !.purpose = u, !.seen = orders[o].status,
                            !.amount = price]
  <2> HIDE DEF price
  <2>2. record.stage = "open" /\ record.purpose = u BY Zenon DEF Idle
  <2>3. Becomes(r, record)
    BY <1>9, Zenon DEF PayRead, ReadForPayment, price
  <2> HIDE DEF record
  <2> QED BY <2>1, <2>2, <2>3
<1>10. CASE \/ UNCHANGED vars
            \/ \E p \in Payments : GatewayCharges(p) \/ GatewayDeclines(p)
            \/ \E o \in Orders : Cancel(o)
            \/ \E o \in Orders, q \in 1..MaxQty : CompleteDelivery(o, q)
            \/ \E j \in Jars : RedeemJarCode(j)
            \/ \E r \in Requests, o \in Orders : MissingRead(r, o)
  BY <1>3, <1>10 DEF vars, GatewayCharges, GatewayDeclines, Cancel,
     CompleteDelivery, RedeemJarCode, MissingRead
<1>11. CASE \E r \in Requests : Continue(r) \/ Crash(r)
  BY <1>4, <1>5, <1>6, <1>11 DEF Crash
<1>12. CASE \/ \E r \in Requests, a \in Appointments :
                  \E k \in {a} \cup ClientKeys : CreateRead(r, a, k)
            \/ \E r \in Requests, p \in Payments :
                  RefuseRead(r, p) \/ CallbackRead(r, p)
  BY <1>3, <1>4, <1>7, <1>8, <1>12
<1>13. CASE \E r \in Requests, o \in Orders, purpose \in Purposes :
               PayRead(r, o, purpose)
  <2>1. PICK r \in Requests, o \in Orders, u \in Purposes : PayRead(r, o, u)
    BY <1>13
  <2>2. PICK record : /\ Becomes(r, record) /\ record.stage = "open"
                      /\ record.purpose = "refill"
    BY <1>9, <2>1
  <2> QED BY <1>2, <2>2
<1> QED BY <1>10, <1>11, <1>12, <1>13 DEF Next

LEMMA ServedStep ==
    ASSUME "missing" \notin Ops, Consistent, Undisputed, Served,
           [Next]_vars
    PROVE  Served'
<1>1. GoodsStep /\ PaymentStep BY EveryGoodsStep, EveryPaymentStep
<1>2. \A o : RefillPaid(o) => RefillPaid(o)'
  BY <1>1, RefillStaysPaid
<1>3. \A p \in Payments :
         payments'[p].status # "absent" => payments'[p].purpose = "refill"
  <2>1. CASE UNCHANGED payments
    BY <2>1 DEF Served
  <2>2. ASSUME NEW p \in Payments, NEW b \in Bills, Opens(p, b)
        PROVE  \A q \in Payments : payments'[q].status # "absent" =>
                                      payments'[q].purpose = "refill"
    <3>1. payments'[p].purpose = "refill"
      BY <2>2 DEF Opens, Served
    <3> QED BY <2>2, <3>1 DEF Opens, Served
  <2>3. ASSUME NEW p \in Payments, NEW status, SetsPayment(p, status),
               payments[p].status # "absent"
        PROVE  \A q \in Payments : payments'[q].status # "absent" =>
                                      payments'[q].purpose = "refill"
    BY <2>3 DEF SetsPayment, Served
  <2>4. \/ UNCHANGED payments
        \/ \E p \in Payments, b \in Bills : Opens(p, b)
        \/ \E p \in Payments : /\ \E status : SetsPayment(p, status)
                               /\ payments[p].status # "absent"
    BY <1>1 DEF PaymentStep, Takes, Refuses, Wins, Doubles, Consistent,
       RequestOK, PaymentOK
  <2> QED BY <2>1, <2>2, <2>3, <2>4
<1>4. \A o \in Orders :
         /\ handed'[o] = orders'[o].quantity
         /\ orders'[o].quantity # 0 => RefillPaid(o)'
         /\ orders'[o].status = "paid_waiting_return" =>
               orders'[o].quantity = 0 /\ RefillPaid(o)'
         /\ orders'[o].status = "absent" => orders'[o].quantity = 0
         /\ orders'[o].status # "awaiting_extra_payment"
  <2> SUFFICES ASSUME NEW x \in Orders
               PROVE  /\ handed'[x] = orders'[x].quantity
                      /\ orders'[x].quantity # 0 => RefillPaid(x)'
                      /\ orders'[x].status = "paid_waiting_return" =>
                            orders'[x].quantity = 0 /\ RefillPaid(x)'
                      /\ orders'[x].status = "absent" =>
                            orders'[x].quantity = 0
                      /\ orders'[x].status # "awaiting_extra_payment"
    OBVIOUS
  <2>0. /\ handed[x] = orders[x].quantity
        /\ orders[x].quantity # 0 => RefillPaid(x)'
        /\ orders[x].status = "paid_waiting_return" =>
              orders[x].quantity = 0 /\ RefillPaid(x)'
        /\ orders[x].status = "absent" => orders[x].quantity = 0
        /\ orders[x].status # "awaiting_extra_payment"
    BY <1>2 DEF Served, HandedOnce
  <2>1. CASE Calm
    <3>1. /\ handed'[x] = handed[x]
          /\ orders'[x].status = "paid_waiting_return" =>
                orders[x].status = "paid_waiting_return"
          /\ orders'[x].status # "awaiting_extra_payment"
          /\ orders'[x].status = "absent" => orders[x].status = "absent"
          /\ \/ orders'[x].quantity = orders[x].quantity
             \/ orders[x].status = "absent" /\ orders'[x].quantity = 0
      BY <2>1 DEF Calm
    <3> QED BY <2>0, <3>1
  <2>2. ASSUME NEW p \in Payments, Promises(p)
        PROVE  /\ handed'[x] = orders'[x].quantity
               /\ orders'[x].quantity # 0 => RefillPaid(x)'
               /\ orders'[x].status = "paid_waiting_return" =>
                     orders'[x].quantity = 0 /\ RefillPaid(x)'
               /\ orders'[x].status = "absent" => orders'[x].quantity = 0
               /\ orders'[x].status # "awaiting_extra_payment"
    <3>1. handed'[x] = handed[x] BY <2>2 DEF Promises
    <3>2. CASE x # payments[p].order
      <4>1. orders'[x] = orders[x] BY <2>2, <3>2 DEF Promises, OneRow
      <4> QED BY <2>0, <3>1, <4>1
    <3>3. CASE x = payments[p].order
      <4>1. payments[p].purpose = "refill" /\ OtherPaid(p) = {}
            /\ payments[p].status = "pending"
        BY <2>2 DEF Promises, Wins, Served
      <4>2. ~RefillPaid(x)
        BY <3>3, <4>1 DEF RefillPaid, OtherPaid
      <4>3. orders[x].quantity = 0
        BY <4>2 DEF Served
      <4>4. RefillPaid(x)'
        BY <2>2, <3>3, <4>1 DEF RefillPaid, Promises, Wins, SetsPayment
      <4>5. /\ orders'[x].quantity = orders[x].quantity
            /\ orders'[x].status = "paid_waiting_return"
        BY <2>2, <3>3 DEF Promises
      <4> QED BY <2>0, <3>1, <4>3, <4>4, <4>5
    <3> QED BY <3>2, <3>3
  <2>3. ASSUME NEW o \in Orders, NEW q \in 1..MaxQty, HandsOver(o, q)
        PROVE  /\ handed'[x] = orders'[x].quantity
               /\ orders'[x].quantity # 0 => RefillPaid(x)'
               /\ orders'[x].status = "paid_waiting_return" =>
                     orders'[x].quantity = 0 /\ RefillPaid(x)'
               /\ orders'[x].status = "absent" => orders'[x].quantity = 0
               /\ orders'[x].status # "awaiting_extra_payment"
    <3>1. CASE x # o
      <4>1. orders'[x] = orders[x] /\ handed'[x] = handed[x]
        BY <2>3, <3>1 DEF HandsOver, OneRow
      <4> QED BY <2>0, <4>1
    <3>2. CASE x = o
      <4>1. /\ orders[x].status = "paid_waiting_return"
            /\ orders'[x].status = "completed" /\ orders'[x].quantity = q
            /\ handed'[x] = handed[x] + q
        BY <2>3, <3>2 DEF HandsOver
      <4>2. handed[x] = 0 /\ RefillPaid(x)' BY <2>0, <4>1
      <4>3. handed'[x] = q BY <4>1, <4>2
      <4> QED BY <4>1, <4>2, <4>3
    <3> QED BY <3>1, <3>2
  <2> QED BY <1>1, <2>1, <2>2, <2>3 DEF GoodsStep
<1>5. \A r \in Requests :
         /\ req'[r].stage \notin {"missing", "topup"}
         /\ req'[r].stage = "open" => req'[r].purpose = "refill"
  BY OnlyRefills
<1> QED BY <1>3, <1>4, <1>5 DEF Served, HandedOnce

LEMMA ServedInit == Init => Served
<1> SUFFICES ASSUME Init PROVE Served
  OBVIOUS
<1>1. /\ NoRow.status = "absent" /\ NoRow.quantity = 0
      /\ NoPaymentRow.status = "absent" /\ Idle.stage = "idle"
  BY Zenon DEF NoRow, NoPaymentRow, Idle
<1> QED BY <1>1 DEF Init, Served, HandedOnce

\* The jars that the stock transactions say left the shop for an order are
\* the quantity it was delivered with: no stale refusal, duplicate callback
\* or repeated delivery hands the goods over twice, as long as the gateway
\* does not charge what it declined and no top-up is opened.
THEOREM GoodsLeaveOnce ==
    ~DeclineThenCharge /\ "missing" \notin Ops => (Spec => []HandedOnce)
<1> SUFFICES ASSUME ~DeclineThenCharge, "missing" \notin Ops
             PROVE  Spec => []HandedOnce
  OBVIOUS
<1>1. Consistent /\ Undisputed /\ Served /\ [Next]_vars => Served'
  BY ServedStep
<1>2. Served => HandedOnce BY DEF Served
<1>3. Spec => []Undisputed BY UndisputedAlways
<1> QED BY <1>1, <1>2, <1>3, ServedInit, AlwaysConsistent, PTL DEF Spec
=============================================================================
