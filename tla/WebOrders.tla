----------------------------- MODULE WebOrders ------------------------------
(***************************************************************************)
(* One order of the web shop at the head office: the webhooks of its       *)
(* versions, which arrive late, twice, out of order or after a failure;    *)
(* the reconciliation that fetches it; the review by a person and the      *)
(* shipment it makes; the carrier and the clerks who move the shipment.    *)
(* The intake, the review and the old order pages take one advisory lock,  *)
(* so each of their transactions is one step.  The shipment page and the   *)
(* webhooks of fulfilments and cancellations do not: they read first and   *)
(* write by id.  A version of the order is its index in `source`.          *)
(***************************************************************************)
EXTENDS Naturals, Sequences, FiniteSets, HqTriggers

CONSTANTS
    MaxVersions, MaxTime,  \* bounds on what the customer does to the order
    MaxFails,              \* intake transactions that fail
    MaxRecoveryAttempts,   \* MAX_RECOVERY_ATTEMPTS: after these the cron gives a row up
    Callers,               \* requests of HQ and of Shopify in flight
    Carrier,               \* the fulfilment events of the carrier
    FromBefore,            \* may the order be older than the OMS?
    Unenrolled

ASSUME WebOrdersConstants ==
    /\ MaxVersions \in Nat \ {0} /\ MaxRecoveryAttempts \in Nat \ {0} /\ FromBefore \subseteq BOOLEAN
    /\ Carrier \subseteq [sent : Nat, status : {"shipped", "delivered"}]
    /\ Unenrolled \notin {"NEW", "REVIEW", "READY", "FULFILLMENT_PENDING", "FULFILLED"}

VARIABLES
    source,   \* the versions Shopify has, the last is its present one
    event,    \* ShopifyWebhookEvent: one row for the webhook of each version
    attempts, \* how often the webhook of each version was tried
    fails,
    fetched,  \* the version a reconciliation has read
    retry,    \* the FAILED rows of reconciliations, one for each run
    webOrder, shipment,
    page,     \* the version the reviewer has before her
    checked,  \* the version the last stored check was made on
    audits,   \* fulfilment events in the audit log
    caller

webVars == <<source, event, attempts, fails, fetched, retry, webOrder, shipment, page, checked, audits, caller>>

Payments == {"unpaid", "paid", "refunded"}
Versions == 1..MaxVersions
Sent == {"shipped", "delivered"}
Rank(status) == CASE status = "shipped" -> 2 [] status = "delivered" -> 3 [] OTHER -> 0
NoOrder == [oms |-> Unenrolled, status |-> "none", snap |-> 0, payment |-> "unpaid",
            flags |-> {}, fresh |-> FALSE, reviewed |-> FALSE]
NoShipment == [status |-> "none", built |-> 0, eligible |-> FALSE, out |-> 0,
               back |-> FALSE, live |-> 0]
NoCall == [op |-> "idle"]

\* An order from before the OMS: approved on the old pages, or not yet.
OldOrder == [NoOrder EXCEPT !.status = "review", !.payment = "paid"]

WebInit ==
    /\ source \in {<<[at |-> 1, payment |-> p, cancelled |-> FALSE]>> : p \in {"unpaid", "paid"}}
    /\ event = [v \in Versions |-> "none"] /\ attempts = [v \in Versions |-> 0]
    /\ fails = 0 /\ fetched = 0 /\ retry = {}
    /\ webOrder \in {IF b THEN OldOrder ELSE NoOrder : b \in FromBefore}
    /\ shipment = NoShipment
    /\ page = 0 /\ checked = 0 /\ audits = {}
    /\ caller = [c \in Callers |-> NoCall]

\* The customer pays, edits, is paid back or cancels.  Two changes may carry
\* the same time.
Change(payment, at, cancelled) ==
    LET last == source[Len(source)] IN
    /\ Len(source) < MaxVersions /\ at \in {last.at, last.at + 1} /\ at <= MaxTime
    /\ last.cancelled => cancelled
    /\ payment = last.payment \/ <<last.payment, payment>> \in
          {<<"unpaid", "paid">>, <<"unpaid", "refunded">>, <<"paid", "refunded">>}
    /\ source' = Append(source, [at |-> at, payment |-> payment, cancelled |-> cancelled])
    /\ UNCHANGED <<event, attempts, fails, fetched, retry, webOrder, shipment, page, checked, audits, caller>>

-----------------------------------------------------------------------------
(* The triggers that keep the books, as in Fulfillment, with the gate for  *)
(* orders of the OMS.                                                      *)

GateUnchecked(ord) == ord.oms # Unenrolled => ord.reviewed \* mutant: no look at the check
Gate(ord) ==
    ord.oms # Unenrolled =>
        /\ ord.oms \in {"READY", "FULFILLMENT_PENDING", "FULFILLED"}
        /\ ord.reviewed /\ ord.fresh /\ ord.flags = {}
Fell(ord, ship) ==
    ord.status = "cancelled" \/ ord.payment = "refunded" \/ ship.status = "cancelled"
Synced(ord, ship) ==
    IF ~ship.eligible THEN ship
    ELSE IF Fell(ord, ship) THEN [ship EXCEPT !.back = ship.out # 0]
         ELSE IF ship.out = 0 THEN [ship EXCEPT !.out = IF ord.snap = 0 THEN 1 ELSE ord.snap]
              ELSE ship
Commits(ord, ship) ==
    LET marked == Marked(shipment, ship) IN
    /\ ~Refused(shipment, ship)
    /\ marked.eligible /\ ~Fell(ord, marked) /\ marked.out = 0 => Gate(ord)
    /\ webOrder' = ord /\ shipment' = Synced(ord, marked)

-----------------------------------------------------------------------------
(* persistShopifyIntake                                                    *)

Preserved(ord) ==   \* preserveOperationalOrder
    \/ ord.status \in {"cancelled", "shipped", "delivered"}
    \/ ord.oms \in {"FULFILLMENT_PENDING", "FULFILLED"}
Blocking(s) ==      \* intakeSummary, and the check that has not been made yet
    {"unchecked"} \cup (IF s.payment = "paid" THEN {} ELSE {"payment"})
                  \cup (IF s.cancelled THEN {"cancelled"} ELSE {})
Arrived(s) ==
    [oms |-> "NEW", reviewed |-> FALSE,
     status |-> IF s.cancelled THEN "cancelled" ELSE "review"]

OlderNever(v) == FALSE \* mutant: an older version is saved over a newer one
Older(v) == webOrder.snap # 0 /\ source[v].at < source[webOrder.snap].at
SameAt(v) == webOrder.snap # 0 /\ source[v].at = source[webOrder.snap].at
Saved(v) ==         \* the order after version v was taken in
    LET s == source[v]
        common == [webOrder EXCEPT !.snap = v, !.payment = s.payment,
                                !.flags = Blocking(s), !.fresh = FALSE]
    IN IF webOrder.status # "none" /\ Preserved(webOrder) THEN common
       ELSE [common EXCEPT !.oms = Arrived(s).oms, !.status = Arrived(s).status,
                           !.reviewed = FALSE]
Conflicting(v) ==      \* the same time and other contents: nobody knows which holds
    [webOrder EXCEPT !.flags = {"conflict"}, !.fresh = FALSE,
                  !.oms = IF Preserved(webOrder) THEN @ ELSE "NEW",
                  !.reviewed = Preserved(webOrder) /\ @]
After(v) ==
    IF Older(v) \/ webOrder.snap = v THEN webOrder
    ELSE IF SameAt(v) THEN Conflicting(v) ELSE Saved(v)

\* A webhook is delivered, as often as Shopify likes, or taken up again from its
\* FAILED row by the cron, which gives a row up that has failed too often.
Intake(v) ==
    /\ Commits(After(v), shipment)
    /\ event' = [event EXCEPT ![v] = "done"] /\ attempts' = [attempts EXCEPT ![v] = @ + 1]
    /\ UNCHANGED <<source, fails, fetched, retry, page, checked, audits, caller>>
Deliver(v) == v <= Len(source) /\ event[v] # "done" /\ Intake(v)
RecoverableNow(v) ==   \* mutant: only the last version is worth it
    event[v] = "failed" /\ v = Len(source) /\ attempts[v] < MaxRecoveryAttempts
Recoverable(v) == event[v] = "failed" /\ attempts[v] < MaxRecoveryAttempts
Recover(v) == Recoverable(v) /\ Intake(v)
IntakeFails(v) ==
    /\ v <= Len(source) /\ event[v] # "done" /\ fails < MaxFails
    /\ fails' = fails + 1
    /\ event' = [event EXCEPT ![v] = "failed"] /\ attempts' = [attempts EXCEPT ![v] = @ + 1]
    /\ UNCHANGED <<source, fetched, retry, webOrder, shipment, page, checked, audits, caller>>
\* The cron tries a row; what comes of it is open.
TakeUp(v) == Recover(v) \/ (Recoverable(v) /\ IntakeFails(v))

\* reconcileRecentOrders fetches first and persists later; it leaves orders
\* that are not enrolled alone.  What fails is retried by the same cron, which
\* does not know that it was a reconciliation.
Fetch == /\ fetched = 0 /\ fetched' = Len(source)
         /\ UNCHANGED <<source, event, attempts, fails, retry, webOrder, shipment, page, checked, audits, caller>>
NotEnrolledYet == webOrder.status # "none" /\ webOrder.oms = Unenrolled
Reconcile ==
    /\ fetched # 0 /\ fetched' = 0
    /\ IF NotEnrolledYet THEN UNCHANGED <<webOrder, shipment>>
       ELSE Commits(After(fetched), shipment)
    /\ UNCHANGED <<source, event, attempts, fails, retry, page, checked, audits, caller>>
ReconcileFails ==
    /\ fetched # 0 /\ fetched' = 0 /\ fails < MaxFails
    /\ fails' = fails + 1
    /\ retry' = retry \cup {[run |-> fails', version |-> fetched, attempts |-> 1]}
    /\ UNCHANGED <<source, event, attempts, webOrder, shipment, page, checked, audits, caller>>
RecoverReconcile(row) ==
    /\ row.attempts < MaxRecoveryAttempts /\ retry' = retry \ {row}
    /\ Commits(After(row.version), shipment)
    /\ UNCHANGED <<source, event, attempts, fails, fetched, page, checked, audits, caller>>
RecoverReconcileFails(row) ==
    /\ row.attempts < MaxRecoveryAttempts /\ fails < MaxFails /\ fails' = fails + 1
    /\ retry' = (retry \ {row}) \cup {[row EXCEPT !.attempts = @ + 1]}
    /\ UNCHANGED <<source, event, attempts, fetched, webOrder, shipment, page, checked, audits, caller>>

-----------------------------------------------------------------------------
(* runReview                                                               *)

Live == shipment.status \notin {"none", "cancelled"}
OpenPage ==
    /\ webOrder.oms # Unenrolled /\ page # webOrder.snap /\ page' = webOrder.snap
    /\ UNCHANGED <<source, event, attempts, fails, fetched, retry, webOrder, shipment, checked, audits, caller>>
HashOfPage == page = webOrder.snap /\ page # 0   \* else "the order was updated"
InReview ==
    /\ HashOfPage /\ webOrder.oms \in {"NEW", "REVIEW", "READY"}
    /\ webOrder.status \notin {"cancelled", "shipped", "delivered"} /\ ~Live
    /\ "conflict" \notin webOrder.flags
\* The issues of the contents; what is wrong with the address is not modelled:
\* an action that it blocks changes nothing.
Issues == Blocking(source[webOrder.snap]) \ {"unchecked"}
Check ==
    /\ InReview
    /\ Commits([webOrder EXCEPT !.oms = "REVIEW", !.flags = Issues, !.fresh = TRUE,
                             !.reviewed = FALSE], shipment)
    /\ checked' = webOrder.snap
    /\ UNCHANGED <<source, event, attempts, fails, fetched, retry, page, audits, caller>>
Unpaid == source[webOrder.snap].payment = "unpaid"
\* omsApprovalBlockers: in the review an open payment may pass.
Clear(allowed) == webOrder.fresh /\ Issues \subseteq allowed
NewShipment ==
    [NoShipment EXCEPT !.status = "pending", !.built = webOrder.snap,
                       !.live = 1 + (IF Live THEN shipment.live ELSE 0)]
ReviewStep(ord, ship) ==
    /\ InReview /\ checked = webOrder.snap
    /\ Commits(ord, ship)
    /\ UNCHANGED <<source, event, attempts, fails, fetched, retry, page, checked, audits, caller>>
Confirmed == [webOrder EXCEPT !.oms = "FULFILLMENT_PENDING", !.status = "confirmed",
                           !.reviewed = TRUE]
ApproveUnpaid ==
    /\ webOrder.oms = "REVIEW" /\ Unpaid /\ Clear({"payment"})
    /\ ReviewStep([webOrder EXCEPT !.oms = "READY", !.reviewed = TRUE, !.flags = Issues], shipment)
Approve ==
    /\ webOrder.oms = "REVIEW" /\ Clear({}) /\ ReviewStep(Confirmed, NewShipment)

-----------------------------------------------------------------------------
(* The old order pages, under guardLegacyOrderTx.                          *)

LegacyRead(c) ==
    /\ caller[c] = NoCall /\ webOrder.status = "review" /\ webOrder.oms = Unenrolled
    /\ caller' = [caller EXCEPT ![c] = [op |-> "legacy"]]
    /\ UNCHANGED <<source, event, attempts, fails, fetched, retry, webOrder, shipment, page, checked, audits>>
NotEnrolledThen == TRUE \* mutant: the enrolment is not read again under the lock
NotEnrolled == webOrder.oms = Unenrolled
LegacyApprove(c) ==
    /\ caller[c].op = "legacy" /\ NotEnrolled
    /\ webOrder.payment = "paid" /\ webOrder.status = "review" /\ ~Live
    /\ Commits([webOrder EXCEPT !.status = "confirmed"],
               [NoShipment EXCEPT !.status = "pending", !.live = 1])
    /\ caller' = [caller EXCEPT ![c] = NoCall]
    /\ UNCHANGED <<source, event, attempts, fails, fetched, retry, page, checked, audits>>

-----------------------------------------------------------------------------
(* markShipmentStatus and the webhooks of fulfilment and cancellation.     *)

Actionable == webOrder.oms \in {Unenrolled, "FULFILLMENT_PENDING", "FULFILLED"}
MarkRead(c, to) ==
    /\ caller[c] = NoCall /\ Actionable
    /\ \/ shipment.status = "pending" /\ to \in {"shipped", "cancelled"}
       \/ shipment.status \in Sent /\ to \in Sent \ {shipment.status}
    /\ caller' = [caller EXCEPT ![c] =
          [op |-> "mark", to |-> to, legacy |-> webOrder.oms = Unenrolled]]
    /\ UNCHANGED <<source, event, attempts, fails, fetched, retry, webOrder, shipment, page, checked, audits>>
MarkWrite(c) ==
    LET to == caller[c].to IN
    /\ caller[c].op = "mark"
    /\ IF caller[c].legacy THEN NotEnrolled ELSE Actionable
    /\ Commits([webOrder EXCEPT !.status = to,
                             !.oms = IF to \in Sent /\ ~caller[c].legacy THEN "FULFILLED" ELSE @],
               [shipment EXCEPT !.status = to])
    /\ caller' = [caller EXCEPT ![c] = NoCall]
    /\ UNCHANGED <<source, event, attempts, fails, fetched, retry, page, checked, audits>>

\* syncShopifyFulfillment: the audit log says what was processed and accepted.
Accepted == {a \in audits : a.accepted}
CarrierRead(c, e) ==
    /\ caller[c] = NoCall /\ webOrder.status # "none"
    /\ ~\E a \in audits : a.event = e
    /\ caller' = [caller EXCEPT ![c] =
          [op |-> "carrier", event |-> e,
           apply |-> /\ \A a \in Accepted : a.event.sent < e.sent
                     /\ Live /\ Rank(e.status) >= Rank(shipment.status),
           write |-> Rank(e.status) > Rank(shipment.status)]]
    /\ UNCHANGED <<source, event, attempts, fails, fetched, retry, webOrder, shipment, page, checked, audits>>
CarrierWrite(c) ==
    LET k == caller[c] IN
    /\ k.op = "carrier"
    /\ IF k.apply /\ k.write THEN Commits(webOrder, [shipment EXCEPT !.status = k.event.status])
                  ELSE UNCHANGED <<webOrder, shipment>>
    /\ audits' = audits \cup {[event |-> k.event, accepted |-> k.apply]}
    /\ caller' = [caller EXCEPT ![c] = NoCall]
    /\ UNCHANGED <<source, event, attempts, fails, fetched, retry, page, checked>>

\* syncShopifyCancellation: what is in the books of HQ falls with its order;
\* what is not is cancelled while it is pending.
CancelRead(c) ==
    /\ caller[c] = NoCall /\ webOrder.status # "none" /\ source[Len(source)].cancelled
    /\ shipment.eligible \/ shipment.status = "pending"
    /\ caller' = [caller EXCEPT ![c] = [op |-> "cancel", all |-> shipment.eligible]]
    /\ UNCHANGED <<source, event, attempts, fails, fetched, retry, webOrder, shipment, page, checked, audits>>
CancelWrite(c) ==
    /\ caller[c].op = "cancel"
    /\ Commits(IF caller[c].all THEN [webOrder EXCEPT !.status = "cancelled"] ELSE webOrder,
               [shipment EXCEPT !.status = "cancelled"])
    /\ caller' = [caller EXCEPT ![c] = NoCall]
    /\ UNCHANGED <<source, event, attempts, fails, fetched, retry, page, checked, audits>>
\* A transaction that a guard or a trigger has refused.
GiveUp(c) ==
    /\ caller[c] # NoCall /\ caller' = [caller EXCEPT ![c] = NoCall]
    /\ UNCHANGED <<source, event, attempts, fails, fetched, retry, webOrder, shipment, page, checked, audits>>

WebNext ==
    \/ \E p \in Payments, at \in 1..MaxTime, b \in BOOLEAN : Change(p, at, b)
    \/ \E v \in Versions : Deliver(v) \/ Recover(v) \/ IntakeFails(v)
    \/ Fetch \/ Reconcile \/ ReconcileFails
    \/ \E row \in retry : RecoverReconcile(row) \/ RecoverReconcileFails(row)
    \/ OpenPage \/ Check \/ ApproveUnpaid \/ Approve
    \/ \E c \in Callers :
          \/ LegacyRead(c) \/ LegacyApprove(c)
          \/ \E to \in Sent \cup {"cancelled"} : MarkRead(c, to)
          \/ MarkWrite(c)
          \/ \E e \in Carrier : CarrierRead(c, e)
          \/ CarrierWrite(c) \/ CancelRead(c) \/ CancelWrite(c) \/ GiveUp(c)
WebSpec == WebInit /\ [][WebNext]_webVars
\* The cron takes up what failed, as long as it may; it need not succeed.
WebFairSpec == WebSpec /\ \A v \in Versions : WF_webVars(TakeUp(v))

-----------------------------------------------------------------------------
(* Properties.                                                             *)

\* The goods that leave are those of the version the reviewer approved, once: an
\* update taken in after the approval keeps the shipment in the house, and there
\* is no second live shipment, also of an order that was enrolled after the old
\* pages had made one (review-service.ts:108).
OneLiveShipment == shipment.live <= 1
ShippedAsReviewed ==
    /\ OneLiveShipment
    /\ shipment.built # 0 /\ shipment.out # 0 => shipment.out = shipment.built

\* At the moment the goods are booked out no version has been taken in that is
\* newer, or of the same time with other contents.
ShippedIsNewest ==
    [][shipment.built # 0 /\ shipment.out = 0 /\ shipment'.out # 0 =>
          \A v \in Versions : event[v] = "done" /\ v # shipment'.out =>
              source[v].at < source[shipment'.out].at]_webVars

\* Once an order is enrolled only a review of its present version lets it go
\* on, also when a clerk had opened it on the old pages before.
EnrolledOnlyByReview ==
    [][webOrder.oms \in {"NEW", "REVIEW", "READY"} /\ webOrder'.status \in {"confirmed"} \cup Sent
          => \/ webOrder.status = webOrder'.status
             \/ webOrder'.reviewed /\ checked = webOrder.snap]_webVars

\* Every webhook whose transaction failed is taken in in the end, or has failed as
\* often as the cron tries it (recovery.ts:27); a row that was given up stays FAILED
\* until Shopify delivers it again.
GivenUp(v) == event[v] = "failed" /\ attempts[v] >= MaxRecoveryAttempts
FailedIsRecovered ==
    \A v \in Versions : event[v] = "failed" ~> event[v] = "done" \/ GivenUp(v)

\* "Reconciliation is not authorization to enroll existing legacy workflows"
\* (intake.ts:101): an order that no webhook has brought in stays where it is.
ReconcileEnrollsNone ==
    [][NotEnrolledYet /\ webOrder'.oms # Unenrolled => \E v \in Versions : event'[v] # "none"]_webVars
=============================================================================
