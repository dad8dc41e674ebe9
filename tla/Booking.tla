------------------------------- MODULE Booking -------------------------------
(***************************************************************************)
(* Appointments of one shop: lib/booking.  Customers and the shop take      *)
(* places in the slots of a day; the shop confirms, moves and cancels; LINE *)
(* tells the customer, at once and before the appointment.                  *)
(*                                                                          *)
(* Only the two transactions that take a place are serializable.  All other *)
(* handlers read a row, and write it by its id later.  Time goes in ticks:  *)
(* a slot is the tick it starts at, and one tick before is its two-hour     *)
(* window.                                                                  *)
(***************************************************************************)
EXTENDS Integers, FiniteSets

CONSTANTS
    Appointments,   \* ids of rows of appointments
    Slots,          \* start times of the shop's schedule
    TicksPerDay,
    MaxClock,       \* bound on time
    Capacities,     \* what the shop may set capacityPerSlot to
    Desks,          \* requests and background tasks in progress
    Reachable       \* appointments whose customer has bound a LINE account

ASSUME BookingConstants ==
    /\ Slots \subseteq Nat /\ TicksPerDay \in Nat \ {0} /\ MaxClock \in Nat
    /\ Capacities \subseteq Nat \ {0} /\ Capacities # {}
    /\ IsFiniteSet(Appointments) /\ Reachable \subseteq Appointments

VARIABLES
    appts,      \* appointments
    capacity,   \* MerchantSettings.bookingCapacityPerSlot
    clock,
    desk,
    \* Records of the history, which no action reads:
    told,       \* reminders LINE has delivered: <<appointment, reminder, start>>
    withheld,   \* reminders a deployment without LINE has not sent
    peak,       \* the largest capacity there has been
    raced,      \* full slots an appointment was put in on stale reads
    untold,     \* moved appointments whose notice is owed
    crossed     \* appointments marked as reminded by a scan that a move overtook

bookingVars == <<appts, capacity, clock, desk, told, withheld, peak, raced, untold, crossed>>

Reminders == {"day", "hours"}
Absent == [status |-> "absent", slot |-> 0, over |-> FALSE, marks |-> {}]
AtRest == [op |-> "rest"]
Day(t) == t \div TicksPerDay

Occupying == {a \in Appointments : appts[a].status \in {"requested", "confirmed"}}
IsFull(s, apart) == Cardinality({b \in Occupying \ apart : appts[b].slot = s}) >= capacity

BookingInit ==
    /\ appts = [a \in Appointments |-> Absent]
    /\ capacity \in Capacities /\ peak = capacity
    /\ clock = 0
    /\ desk = [d \in Desks |-> AtRest]
    /\ told = {} /\ withheld = {} /\ raced = {} /\ untold = {} /\ crossed = {}

-----------------------------------------------------------------------------
(* Transactions that cross.  A serializable one that reads a day is refused *)
(* when another has taken a place of that day since; nothing stops a write  *)
(* that is not.                                                             *)

Concerns(r, a, s) ==
    \/ r.op \in {"book", "move"} /\ Day(r.slot) = Day(s)
    \/ r.op \in {"confirm", "move"} /\ r.appt = a
AfterWrite(d, next, a, s, serializable) ==
    [e \in Desks |->
        IF e = d THEN next
        ELSE IF ~Concerns(desk[e], a, s) THEN desk[e]
        ELSE IF serializable /\ desk[e].op = "book" THEN [desk[e] EXCEPT !.doomed = TRUE]
        ELSE [desk[e] EXCEPT !.late = TRUE]]
Raced(r, s, a) == raced' = IF r.late /\ IsFull(s, {a}) THEN raced \cup {s} ELSE raced
Tell(a, what) == [op |-> "tell", appt |-> a, what |-> what]

-----------------------------------------------------------------------------
(* Places.                                                                 *)

\* submitCustomerBooking refuses a full slot; createMerchantAppointment marks
\* what it puts there.
BookBegin(d, by, s) ==
    /\ desk[d] = AtRest
    /\ IsFull(s, {}) => by = "merchant"
    /\ desk' = [desk EXCEPT ![d] = [op |-> "book", by |-> by, slot |-> s,
                   full |-> IsFull(s, {}), doomed |-> FALSE, late |-> FALSE]]
    /\ UNCHANGED <<appts, capacity, clock, told, withheld, peak, raced, untold, crossed>>
AlwaysCommits(d) == TRUE \* mutant: READ COMMITTED
Serializes(d) == ~desk[d].doomed
BookCommit(d, a) ==
    LET r == desk[d]
        asked == r.by = "customer" IN
    /\ r.op = "book" /\ Serializes(d) /\ appts[a] = Absent
    /\ appts' = [appts EXCEPT ![a] =
          [status |-> IF asked THEN "requested" ELSE "confirmed",
           slot |-> r.slot, over |-> r.full, marks |-> {}]]
    /\ desk' = AfterWrite(d, IF asked THEN Tell(a, "received") ELSE AtRest, a, r.slot, TRUE)
    /\ Raced(r, r.slot, a)
    /\ UNCHANGED <<capacity, clock, told, withheld, peak, untold, crossed>>

ConfirmBegin(d, a) ==
    /\ desk[d] = AtRest /\ a \in Occupying
    /\ desk' = [desk EXCEPT ![d] =
          IF appts[a].status = "confirmed" THEN Tell(a, "confirmed")
          ELSE [op |-> "confirm", appt |-> a, late |-> FALSE]]
    /\ UNCHANGED <<appts, capacity, clock, told, withheld, peak, raced, untold, crossed>>
ConfirmCommit(d) ==
    LET r == desk[d] IN
    /\ r.op = "confirm"
    /\ appts' = [appts EXCEPT ![r.appt].status = "confirmed"]
    /\ desk' = AfterWrite(d, Tell(r.appt, "confirmed"), r.appt, appts[r.appt].slot, FALSE)
    /\ Raced(r, appts[r.appt].slot, r.appt)
    /\ UNCHANGED <<capacity, clock, told, withheld, peak, untold, crossed>>

MoveBegin(d, a, s) ==
    /\ desk[d] = AtRest /\ a \in Occupying
    /\ desk' = [desk EXCEPT ![d] = [op |-> "move", appt |-> a, slot |-> s,
                   over |-> appts[a].over \/ IsFull(s, {a}), late |-> FALSE]]
    /\ UNCHANGED <<appts, capacity, clock, told, withheld, peak, raced, untold, crossed>>
MoveCommit(d) ==
    LET r == desk[d] IN
    /\ r.op = "move"
    /\ appts' = [appts EXCEPT ![r.appt] =
          [@ EXCEPT !.status = "confirmed", !.slot = r.slot, !.over = r.over]]
    /\ desk' = AfterWrite(d, Tell(r.appt, "moved"), r.appt, r.slot, FALSE)
    /\ Raced(r, r.slot, r.appt)
    /\ untold' = untold \cup {r.appt}
    /\ UNCHANGED <<capacity, clock, told, withheld, peak, crossed>>

\* Idempotent; its write commutes with every other but a confirmation's.
Cancel(d, a) ==
    /\ desk[d] = AtRest /\ a \in Occupying
    /\ appts' = [appts EXCEPT ![a].status = "cancelled"]
    /\ desk' = AfterWrite(d, AtRest, a, appts[a].slot, FALSE)
    /\ UNCHANGED <<capacity, clock, told, withheld, peak, raced, untold, crossed>>

UpdateSchedule(c) ==
    /\ c # capacity /\ capacity' = c
    /\ peak' = IF c > peak THEN c ELSE peak
    /\ UNCHANGED <<appts, clock, desk, told, withheld, raced, untold, crossed>>

-----------------------------------------------------------------------------
(* Messages: the row is read, LINE is called, and the mark that keeps the  *)
(* message from being sent again is written last.  A deployment where LINE *)
(* is not set up, or whose external effects are off, sends nothing and     *)
(* marks all the same: only an error of LINE leaves a message unmarked.    *)

Push(a, message, due) ==
    [op |-> IF message # "shop" /\ a \notin Reachable THEN "mark" ELSE "push",
     appt |-> a, message |-> message, slot |-> appts[a].slot, due |-> due]
Scan(due) == IF due = {} THEN AtRest ELSE [op |-> "scan", due |-> due]
\* What is left to do after a message: the shop is told of a new request.
After(r) ==
    IF r.message # "received" THEN Scan(r.due)
    ELSE [r EXCEPT !.message = "shop", !.op = "push"]

TellLoad(d) ==
    LET r == desk[d]
        row == appts[r.appt]
        current == row.status = IF r.what = "received" THEN "requested" ELSE "confirmed"
    IN /\ r.op = "tell"
       /\ desk' = [desk EXCEPT ![d] =
              IF ~current \/ (r.what # "moved" /\ r.what \in row.marks) THEN AtRest
              ELSE Push(r.appt, r.what, {})]
       /\ UNCHANGED <<appts, capacity, clock, told, withheld, peak, raced, untold, crossed>>

InWindow(k, s) ==
    /\ s >= clock
    /\ IF k = "day" THEN Day(s) = Day(clock) + 1 ELSE s = clock + 1
\* processAppointmentReminders, from the daily cron.
ScanBegin(d) ==
    LET due == {x \in [appt : Occupying, message : Reminders, slot : Slots] :
                   /\ appts[x.appt].status = "confirmed" /\ appts[x.appt].slot = x.slot
                   /\ x.message \notin appts[x.appt].marks /\ InWindow(x.message, x.slot)}
    IN /\ desk[d] = AtRest /\ due # {}
       /\ desk' = [desk EXCEPT ![d] = Scan(due)]
       /\ UNCHANGED <<appts, capacity, clock, told, withheld, peak, raced, untold, crossed>>
ScanNext(d) ==
    LET r == desk[d] IN
    /\ r.op = "scan"
    /\ \E x \in r.due : desk' = [desk EXCEPT ![d] =
          [Push(x.appt, x.message, r.due \ {x}) EXCEPT !.slot = x.slot]]
    /\ UNCHANGED <<appts, capacity, clock, told, withheld, peak, raced, untold, crossed>>

Reminded(d) ==
    {<<desk[d].appt, desk[d].message, desk[d].slot>>} \cap (Appointments \X Reminders \X Slots)
PushSent(d) ==
    /\ desk[d].op = "push"
    /\ told' = told \cup Reminded(d)
    /\ desk' = [desk EXCEPT ![d].op = "mark"]
    /\ UNCHANGED <<appts, capacity, clock, withheld, peak, raced, untold, crossed>>
PushSkipped(d) ==
    /\ desk[d].op = "push"
    /\ withheld' = withheld \cup Reminded(d)
    /\ desk' = [desk EXCEPT ![d].op = "mark"]
    /\ UNCHANGED <<appts, capacity, clock, told, peak, raced, untold, crossed>>
PushFails(d) ==
    /\ desk[d].op = "push"
    /\ desk' = [desk EXCEPT ![d] = After(desk[d])]
    /\ UNCHANGED <<appts, capacity, clock, told, withheld, peak, raced, untold, crossed>>
MarksKept(marks, m) == marks \cup {m} \* mutant: the reminders are not reset
MarksWith(marks, m) ==
    IF m = "moved" THEN (marks \cup {"confirmed"}) \ Reminders ELSE marks \cup {m}
MarkField(d) ==
    LET r == desk[d]
        stale == r.slot # appts[r.appt].slot
    IN /\ r.op = "mark"
       /\ appts' = [appts EXCEPT ![r.appt].marks = MarksWith(@, r.message)]
       /\ untold' = IF ~stale /\ r.message = "moved" THEN untold \ {r.appt} ELSE untold
       /\ crossed' = IF stale /\ r.message \in Reminders THEN crossed \cup {r.appt}
                     ELSE IF r.message = "moved" THEN crossed \ {r.appt}
                     ELSE crossed
       /\ desk' = [desk EXCEPT ![d] = After(r)]
       /\ UNCHANGED <<capacity, clock, told, withheld, peak, raced>>

\* A transaction is refused, a connection is lost, or the process is frozen
\* once its answer is out: nothing is tried again.
Dies(d) ==
    /\ desk[d] # AtRest
    /\ desk' = [desk EXCEPT ![d] = AtRest]
    /\ UNCHANGED <<appts, capacity, clock, told, withheld, peak, raced, untold, crossed>>
Tick ==
    /\ clock < MaxClock /\ clock' = clock + 1
    /\ UNCHANGED <<appts, capacity, desk, told, withheld, peak, raced, untold, crossed>>

BookingNext ==
    \/ \E d \in Desks :
          \/ \E s \in Slots : \/ \E by \in {"customer", "merchant"} : BookBegin(d, by, s)
                              \/ \E a \in Appointments : MoveBegin(d, a, s)
          \/ \E a \in Appointments : BookCommit(d, a) \/ ConfirmBegin(d, a) \/ Cancel(d, a)
          \/ ConfirmCommit(d) \/ MoveCommit(d) \/ TellLoad(d)
          \/ ScanBegin(d) \/ ScanNext(d)
          \/ PushSent(d) \/ PushSkipped(d) \/ PushFails(d) \/ MarkField(d) \/ Dies(d)
    \/ \E c \in Capacities : UpdateSchedule(c)
    \/ Tick
BookingSpec == BookingInit /\ [][BookingNext]_bookingVars

-----------------------------------------------------------------------------
(* Properties.                                                             *)

\* However many customers take the last places at once, a slot holds no more
\* than the shop has ever allowed, beside what was put there knowingly; only
\* a confirmation or a move whose reads were overtaken can break this
\* (service.ts:244).
SlotsHold ==
    \A s \in Slots \ raced :
        Cardinality({a \in Occupying : appts[a].slot = s /\ ~appts[a].over}) <= peak

\* A confirmed appointment is marked as reminded only when the reminder of the
\* time it has now went to LINE, or was withheld by a deployment that sends
\* nothing (push.ts:38, reminders.ts:73); an error of LINE never marks, and what
\* marks an old time had are gone with the notice of a new one (notify.ts:157).
\* While that notice is owed the old marks stand; a scan that had read the row
\* before the move may put one back after it (WindowsRecomputed).
MarksHold(a) ==
    appts[a].status = "confirmed" =>
        \A k \in Reminders \cap appts[a].marks : <<a, k, appts[a].slot>> \in told \cup withheld
RemindersFollowTheTime == \A a \in Reachable \ (untold \cup crossed) : MarksHold(a)

\* "After a reschedule the reminder windows are computed anew" (notify.ts:161): with
\* the notice of a new time out, no reminder of an old time counts for the new one.
WindowsRecomputed == \A a \in Reachable \ untold : MarksHold(a)
=============================================================================
