--------------------------- MODULE Subscriptions ----------------------------
(***************************************************************************)
(* The monthly boxes of a subscription.  Its schedule has a row for each    *)
(* day a box is due; the cron makes the shipment (the box) of each row that *)
(* comes near; clerks move a row on the page of the schedule and a box on   *)
(* the page of the shipments, and each of them writes the other.  A packed  *)
(* row or box is "pending" here: no rule below tells them apart.  The       *)
(* status of a subscription is always 'active': nothing in the code pauses  *)
(* or cancels one.                                                          *)
(***************************************************************************)
EXTENDS Naturals, HqTriggers

CONSTANTS
    Days,      \* the days of the schedule; a row is named by its day
    Ahead,     \* DEFAULT_DAYS_AHEAD
    LastDay,   \* bound of the clock
    Crons,     \* runs of the cron
    Planners   \* requests of clerks

ASSUME SubscriptionConstants ==
    Days \subseteq Nat /\ Ahead \in Nat /\ LastDay \in Nat

VARIABLES
    today,
    schedule,  \* SubscriptionShipment.status
    box,       \* the Shipment of each row
    cron,      \* the rows a run of the cron will make boxes for
    planner,   \* what the request of a clerk has read
    crossed    \* rows that changed while their box was being made

subscriptionVars == <<today, schedule, box, cron, planner, crossed>>

NoBox == [status |-> "none", eligible |-> FALSE]
AtRest == [op |-> "rest"]
RowStatuses == {"pending", "shipped", "delivered", "skipped"}

SubscriptionInit ==
    /\ today = 0
    /\ schedule = [d \in Days |-> "none"]
    /\ box = [d \in Days |-> NoBox]
    /\ cron = [c \in Crons |-> {}]
    /\ planner = [p \in Planners |-> AtRest]
    /\ crossed = {}

Boxed(d) == box[d].status # "none"

\* createSubscriptionRecord writes the rows one by one, without a transaction:
\* a crash or a number that is taken ends the loop, and any of them may be missing.
AddRow(d) ==
    /\ schedule[d] = "none" /\ schedule' = [schedule EXCEPT ![d] = "pending"]
    /\ UNCHANGED <<today, box, cron, planner, crossed>>

Dawn == /\ today < LastDay /\ today' = today + 1
        /\ UNCHANGED <<schedule, box, cron, planner, crossed>>

-----------------------------------------------------------------------------
(* syncUpcomingSubscriptionShipments: the rows that need a box ...          *)
ReachedToday(d) == d = today + Ahead  \* mutant: a run that was missed is not made up for
Reached(d) == d <= today + Ahead
SyncRead(c) ==
    LET rows == {d \in Days : Reached(d) /\ schedule[d] = "pending" /\ ~Boxed(d)} IN
    /\ cron[c] = {} /\ rows # {} /\ cron' = [cron EXCEPT ![c] = rows]
    /\ UNCHANGED <<today, schedule, box, planner, crossed>>
\* ... and their boxes, in one statement that passes over the rows which have one.
SyncWrite(c) ==
    LET made == {d \in cron[c] : ~Boxed(d)} IN
    /\ cron[c] # {} /\ cron' = [cron EXCEPT ![c] = {}]
    /\ box' = [d \in Days |-> IF d \in made THEN [NoBox EXCEPT !.status = "pending"]
                              ELSE box[d]]
    /\ crossed' = crossed \cup {d \in made : schedule[d] # "pending"}
    /\ UNCHANGED <<today, schedule, planner>>
SyncDies(c) ==
    /\ cron[c] # {} /\ cron' = [cron EXCEPT ![c] = {}]
    /\ UNCHANGED <<today, schedule, box, planner, crossed>>

-----------------------------------------------------------------------------
(* The clerks.  Each read may be old when its transaction writes by id.     *)

Plans(p, what) == /\ planner[p] = AtRest /\ planner' = [planner EXCEPT ![p] = what]
                  /\ UNCHANGED <<today, schedule, box, cron, crossed>>
Rests(p) == planner' = [planner EXCEPT ![p] = AtRest] /\ UNCHANGED <<today, cron>>
\* The transaction that leaves row d and its box so, unless the trigger of the
\* shipments refuses the box.
Leaves(d, row, status) ==
    LET new == [box[d] EXCEPT !.status = status] IN
    /\ ~Refused(box[d], new)
    /\ schedule' = [schedule EXCEPT ![d] = row]
    /\ box' = [box EXCEPT ![d] = Marked(box[d], new)]
    /\ crossed' = crossed \ {d}

\* updateSubscriptionShipmentStatus: from any status to any other; the box
\* follows if there was one when the row was read.
RowRead(p, d, next) ==
    /\ schedule[d] # "none"
    /\ Plans(p, [op |-> "row", day |-> d, next |-> next, boxed |-> Boxed(d)])
BoxFor(row) == IF row = "skipped" THEN "cancelled" ELSE row
RowWrite(p) ==
    LET d == planner[p].day  next == planner[p].next IN
    /\ planner[p].op = "row" /\ Rests(p)
    /\ IF planner[p].boxed THEN Leaves(d, next, BoxFor(next))
       ELSE /\ schedule' = [schedule EXCEPT ![d] = next] /\ UNCHANGED box
            /\ crossed' = IF Boxed(d) THEN crossed \cup {d} ELSE crossed

\* markShipmentStatus: along the transitions of a shipment; one that arrives
\* is 'received', as no shop confirms it, and the row follows.
BoxMoves ==
    {<<"pending", "shipped">>, <<"pending", "pending">>, <<"pending", "cancelled">>,
     <<"shipped", "received">>, <<"shipped", "pending">>, <<"delivered", "received">>,
     <<"delivered", "shipped">>, <<"delivered", "pending">>}
BoxRead(p, d, next) ==
    /\ <<box[d].status, next>> \in BoxMoves
    /\ Plans(p, [op |-> "box", day |-> d, next |-> next])
RowForLoose(status) ==  \* mutant: a cancelled box leaves its row alone
    IF status = "received" THEN "delivered"
    ELSE IF status = "cancelled" THEN "pending" ELSE status
RowFor(status) ==
    CASE status = "received" -> "delivered"
      [] status = "cancelled" -> "skipped"
      [] OTHER -> status
BoxWrite(p) ==
    /\ planner[p].op = "box" /\ Rests(p)
    /\ Leaves(planner[p].day, RowFor(planner[p].next), planner[p].next)

PlannerEnds(p) ==
    /\ planner[p] # AtRest /\ Rests(p) /\ UNCHANGED <<schedule, box, crossed>>

SubscriptionNext ==
    \/ Dawn \/ \E d \in Days : AddRow(d)
    \/ \E c \in Crons : SyncRead(c) \/ SyncWrite(c) \/ SyncDies(c)
    \/ \E p \in Planners :
        \/ RowWrite(p) \/ BoxWrite(p) \/ PlannerEnds(p)
        \/ \E d \in Days :
            \/ \E next \in RowStatuses : RowRead(p, d, next)
            \/ \E next \in {"pending", "shipped", "received", "cancelled"} :
                  BoxRead(p, d, next)

\* The cron runs every day, and not every run dies between its two statements.
SubscriptionFairness ==
    /\ WF_subscriptionVars(\E c \in Crons : SyncRead(c))
    /\ SF_subscriptionVars(\E c \in Crons : SyncWrite(c))

-----------------------------------------------------------------------------
\* A month is sent, or skipped, on both pages alike: row and box say the same
\* thing whichever page wrote last, whatever it had read and whatever the trigger
\* refused.  The exception is a row that changed while its box was being made (or
\* was read before): a month skipped just then has a box in the queue, until one
\* of the two is written again.
BoxFollowsSchedule ==
    \A d \in Days : Boxed(d) /\ d \notin crossed =>
        /\ schedule[d] = "shipped" <=> box[d].status = "shipped"
        /\ schedule[d] = "delivered" <=> box[d].status \in {"delivered", "received"}
        /\ schedule[d] = "skipped" <=> box[d].status = "cancelled"

\* No month is forgotten: a row that is due gets its box or is moved on, also when
\* the cron did not run on the day it came near, or died.
EveryDueRowIsQueued ==
    \A d \in Days :
        schedule[d] = "pending" /\ d <= today + Ahead ~> Boxed(d) \/ schedule[d] # "pending"
=============================================================================
