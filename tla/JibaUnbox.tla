------------------------------ MODULE JibaUnbox ------------------------------
(***************************************************************************)
(* The two-piece campaign of one customer: a LINE conversation fills an     *)
(* application form, a supervisor reviews it, the customer declares a bank  *)
(* transfer that the supervisor verifies, and a parcel is queued and sent.  *)
(*                                                                          *)
(* Only approvals, declarations and repairs are transactions.  Any other    *)
(* handler looks once at the rows, and what it then does is a list of       *)
(* writes, each committed on its own: task[r] is what request r has still   *)
(* to do.  A step of the conversation is named for what it asks.  What a    *)
(* handler replies, the fields' formats, products, pets and the candidate   *)
(* stores are left out.  Nothing writes upsellAmount, so the shipping fee   *)
(* is always due.                                                           *)
(***************************************************************************)
EXTENDS Naturals, Sequences, FiniteSets

CONSTANTS
    MaxApps,    \* bound on applications; they are numbered in order
    MaxParcels, \* bound on the shipments the staff cancels
    Workers     \* requests in progress

VARIABLES
    app,        \* CampaignApplication
    talk,       \* ConversationSession; notes: what collectedDataJson says of
                \* the extra order and the transfer
    order,      \* Order.status
    parcels,    \* Shipment.status of the order's shipments
    task,
    submitted,  \* applications a review page was opened for
    agreedOnce, \* applications whose customer has accepted the licence
    verified,   \* applications whose transfer the supervisor has seen
    recalled    \* applications a parcel of which the staff has cancelled

jibaVars == <<app, talk, order, parcels, task, submitted, agreedOnce, verified, recalled>>
ghosts == <<submitted, agreedOnce, verified, recalled>>

Apps == 1..MaxApps
Active == {"collecting", "pending", "awaiting"}
Approved == {"awaiting", "ready"}
Asked == {"name", "phone", "store", "ig"}
NoApp == [status |-> "none", pay |-> "unpaid", filled |-> {}, agreed |-> FALSE]
NoTalk == [open |-> FALSE, step |-> "none", taken |-> FALSE, notes |-> {}]
Free == [app |-> 0, todo |-> <<>>]

JibaInit ==
    /\ app = [a \in Apps |-> NoApp] /\ talk = [a \in Apps |-> NoTalk]
    /\ order = [a \in Apps |-> "none"]
    /\ parcels = [a \in Apps |-> <<>>]
    /\ task = [r \in Workers |-> Free]
    /\ submitted = {} /\ agreedOnce = {} /\ verified = {} /\ recalled = {}

-----------------------------------------------------------------------------
(* What a handler may have to do.                                          *)

Fill(f) == [do |-> "fill", field |-> f]
Set(patch) == [do |-> "set", patch |-> patch]
Put(o) == [do |-> "put", order |-> o]
\* setConversationState reads the notes, and writes them with the step.
Turn(step, add) == [do |-> "peek", step |-> step, add |-> add]
Goto(step) == Turn(step, {})
Queue == [do |-> "look"]

First(fields, has, otherwise) ==
    LET lacking == {i \in DOMAIN fields : fields[i] \notin has}
    IN IF lacking = {} THEN otherwise
       ELSE fields[CHOOSE i \in lacking : \A j \in lacking : i <= j]
NothingMissing(has) == "none" \* mutant: the steps are not guarded
Missing(has) == First(<<"name", "phone", "store">>, has, "none")
AfterTransfer(row, pet) ==
    First(<<"ig", "pet", "licence">>,
          row.filled \cup pet \cup (IF row.agreed THEN {"licence"} ELSE {}), "confirm")
Declared(pay, notes) == pay # "unpaid" \/ "declared" \in notes
Resumed(step, row, notes) ==
    IF step \in {"upsell", "transfer"} /\ Missing(row.filled) # "none"
    THEN Missing(row.filled)
    ELSE IF /\ step \in {"transfer", "ig", "pet", "licence", "confirm"}
            /\ "upsell" \in notes /\ ~Declared(row.pay, notes)
    THEN "transfer" ELSE step

Submit == <<Set([status |-> "pending"]), Put("pending_review"), Goto("review")>>
Disagree == <<Set([status |-> "cancelled", agreed |-> FALSE]), Put("cancelled"), Goto("cancelled")>>
Again(step) == <<Goto(step)>> \* replyInvalidField

\* The lists of writes that a text may lead to at a step: the offer ...
OfferAnswers(row, step) ==
    CASE step = "product" -> {<<Goto("brief")>>}
      [] step \in {"brief", "upsell"} -> {<<[do |-> step, has |-> row.filled]>>}
      [] OTHER -> {}
\* ... the address ...
AddressAnswers(step) ==
    CASE step = "name" -> {Again(step), <<Fill("name"), Goto("phone")>>}
      [] step = "phone" -> {Again(step), <<Fill("phone"), Goto("store")>>}
      [] step = "store" -> {Again(step), <<Goto("pick")>>}
      [] step = "pick" -> {<<Goto("store")>>, <<Fill("store"), Goto("upsell")>>}
      [] OTHER -> {}
\* ... and the licence.
LicenceAnswers(row, step) ==
    CASE step = "ig" -> {Again(step), <<Fill("ig"), Goto("pet")>>}
      [] step = "pet" -> {Again(step), <<Goto("licence")>>}
      [] step = "licence" -> {Disagree, <<Set([agreed |-> TRUE]), Goto("confirm")>>}
      [] step = "confirm" -> {<<Goto("name")>>, <<Goto("store")>>,
                              IF row.agreed THEN Submit ELSE <<Goto("licence")>>}
      [] OTHER -> {}
Answers(row, step) == OfferAnswers(row, step) \cup AddressAnswers(step) \cup LicenceAnswers(row, step)

-----------------------------------------------------------------------------
(* Requests.                                                               *)

Begins(r, a, todo) ==
    /\ task[r] = Free /\ task' = [task EXCEPT ![r] = [app |-> a, todo |-> todo]]
    /\ UNCHANGED <<app, talk, order, parcels, ghosts>>
\* findActiveJibaApplication: the newest.
IsActive(a) == app[a].status \in Active /\ \A b \in Apps : b > a => app[b].status \notin Active
Talks(a) == IsActive(a) /\ talk[a].open

Enrol(r) ==
    /\ \A a \in Apps : app[a].status \notin Active
    /\ Begins(r, 0, <<[do |-> "enrol"], [do |-> "open"], Goto("product")>>)
Hear(r, a) ==
    /\ Talks(a) /\ ~talk[a].taken
    /\ \E todo \in Answers(app[a], talk[a].step) : Begins(r, a, todo)
HearDeclared(r, a) ==
    /\ Talks(a) /\ ~talk[a].taken
    /\ Begins(r, a, <<[do |-> "declare", step |-> talk[a].step]>>)
\* The keyword, "continue", or joining again: the pause is lifted, or not.
HearResume(r, a) ==
    LET to == Resumed(talk[a].step, app[a], talk[a].notes)
        moves == IF to = talk[a].step THEN <<>> ELSE <<Goto(to)>>
    IN Talks(a) /\ \E todo \in {moves, <<[do |-> "same"]>> \o moves} : todo # <<>> /\ Begins(r, a, todo)
\* Registering, or leaving by the menu.
Pause(r, a) ==
    /\ Talks(a)
    /\ Begins(r, a, <<Goto(IF talk[a].step = "pick" THEN "store" ELSE talk[a].step)>>)
HearCancel(r, a) ==
    /\ IsActive(a)
    /\ Begins(r, a, <<Set([status |-> "cancelled"]), Put("cancelled")>>
                    \o IF talk[a].open THEN <<Goto("cancelled")>> ELSE <<>>)
FindHelper(a) ==
    /\ Talks(a) /\ talk' = [talk EXCEPT ![a].taken = TRUE]
    /\ UNCHANGED <<app, order, parcels, task, ghosts>>

\* The supervisor's page keeps its buttons while the application moves on.
Approve(r, a) ==
    /\ a \in submitted
    /\ app[a].status \in {"pending"} \cup Approved
    /\ Begins(r, a, IF app[a].status = "ready" THEN <<Queue>>
                    ELSE <<[do |-> "approve", status |-> app[a].status, declared |-> Declared(app[a].pay, talk[a].notes)]>>)
Reject(r, a) ==
    /\ a \in submitted
    /\ Begins(r, a, <<Set([status |-> "rejected"]), Put("cancelled"), Goto("cancelled")>>)
Return(r, a) ==
    /\ a \in submitted
    /\ \E f \in Asked \cup {"pet", "licence"} : Begins(r, a, <<Set([status |-> "collecting"]), Goto(f)>>)
MarkPaid(r, a) ==
    /\ app[a].status \in Approved
    /\ Begins(r, a, IF app[a].status = "ready" /\ app[a].pay = "paid" THEN <<Queue>>
                    ELSE <<Set([status |-> "ready", pay |-> "paid"]), Put("confirmed"), Queue, Goto("ready")>>)
Live(a) == {i \in DOMAIN parcels[a] : parcels[a][i] # "cancelled"}
Existing(a) == Live(a) # {}
Backfill(r, a) ==
    /\ app[a].status \in Approved /\ ~Existing(a) /\ order[a] # "cancelled"
    /\ Begins(r, a, <<[do |-> "repair", status |->
           IF app[a].status = "ready" \/ Declared(app[a].pay, talk[a].notes) THEN "ready" ELSE "awaiting"]>>)

\* The staff: canMarkJibaShipmentShipped.
GateOfOrder(a) == order[a] # "awaiting" \* mutant: a declaration is enough
Gate(a) == order[a] # "awaiting" /\ app[a].pay = "paid"
MarkShipped(r, a) ==
    \E i \in DOMAIN parcels[a] :
        parcels[a][i] = "pending" /\ Gate(a) /\ Begins(r, a, <<[do |-> "ship", parcel |-> i]>>)
Recall(a) ==
    /\ Len(parcels[a]) <= MaxParcels
    /\ \E i \in DOMAIN parcels[a] :
          parcels[a][i] = "pending" /\ parcels' = [parcels EXCEPT ![a][i] = "cancelled"]
    /\ order' = [order EXCEPT ![a] = "cancelled"]
    /\ recalled' = recalled \cup {a}
    /\ UNCHANGED <<app, talk, task, submitted, agreedOnce, verified>>

-----------------------------------------------------------------------------
(* Steps.                                                                  *)

Step(r, what) == task[r].todo # <<>> /\ Head(task[r].todo).do = what
Then(r, first) ==
    LET todo == first \o Tail(task[r].todo)
    IN task' = [task EXCEPT ![r] = IF todo = <<>> THEN Free ELSE [@ EXCEPT !.todo = todo]]
Created(a) == [parcels EXCEPT ![a] = Append(@, "pending")]
Ensured(a) == IF Existing(a) THEN parcels ELSE Created(a)

DoEnrol(r, a) ==
    /\ Step(r, "enrol") /\ app[a] = NoApp /\ (a > 1 => app[a - 1] # NoApp)
    /\ app' = [app EXCEPT ![a].status = "collecting"]
    /\ order' = [order EXCEPT ![a] = "draft"]
    /\ task' = [task EXCEPT ![r] = [app |-> a, todo |-> Tail(@.todo)]]
    /\ UNCHANGED <<talk, parcels, ghosts>>
DoOpen(r) ==
    /\ Step(r, "open")
    /\ talk' = [talk EXCEPT ![task[r].app] = [@ EXCEPT !.open = TRUE, !.step = "product"]]
    /\ Then(r, <<>>) /\ UNCHANGED <<app, order, parcels, ghosts>>
DoFill(r) ==
    /\ Step(r, "fill")
    /\ app' = [app EXCEPT ![task[r].app].filled = @ \cup {Head(task[r].todo).field}]
    /\ Then(r, <<>>) /\ UNCHANGED <<talk, order, parcels, ghosts>>
DoSet(r) ==
    LET a == task[r].app
        patch == Head(task[r].todo).patch
        row == [f \in DOMAIN app[a] |-> IF f \in DOMAIN patch THEN patch[f] ELSE app[a][f]]
    IN /\ Step(r, "set")
       /\ app' = [app EXCEPT ![a] = row]
       /\ submitted' = IF row.status = "pending" THEN submitted \cup {a} ELSE submitted
       /\ agreedOnce' = IF row.agreed THEN agreedOnce \cup {a} ELSE agreedOnce
       /\ verified' = IF row.pay = "paid" THEN verified \cup {a} ELSE verified
       /\ Then(r, <<>>) /\ UNCHANGED <<talk, order, parcels, recalled>>
DoPut(r) ==
    /\ Step(r, "put")
    /\ order' = [order EXCEPT ![task[r].app] = Head(task[r].todo).order]
    /\ Then(r, <<>>) /\ UNCHANGED <<app, talk, parcels, ghosts>>
DoPeek(r) ==
    LET s == Head(task[r].todo) IN
    /\ Step(r, "peek")
    /\ Then(r, <<[do |-> "move", step |-> s.step,
                  notes |-> talk[task[r].app].notes \cup s.add]>>)
    /\ UNCHANGED <<app, talk, order, parcels, ghosts>>
DoMove(r) ==
    LET s == Head(task[r].todo) IN
    /\ Step(r, "move")
    /\ talk' = [talk EXCEPT ![task[r].app] = [@ EXCEPT !.step = s.step, !.notes = s.notes]]
    /\ Then(r, <<>>) /\ UNCHANGED <<app, order, parcels, ghosts>>
\* The session is read again, with its copies of the fields, those that no
\* crossing write has lost.
DoRead(r) ==
    /\ Step(r, "brief") \/ Step(r, "upsell")
    /\ \E copies \in SUBSET app[task[r].app].filled :
          LET s == Head(task[r].todo)
              missing == Missing(s.has \cup copies)
          IN Then(r, <<IF missing # "none" THEN Goto(missing)
                       ELSE IF s.do = "brief" THEN Goto("upsell") ELSE Turn("transfer", {"upsell"})>>)
    /\ UNCHANGED <<app, talk, order, parcels, ghosts>>
DoSame(r) ==
    /\ Step(r, "same") /\ Then(r, <<Goto(talk[task[r].app].step)>>)
    /\ UNCHANGED <<app, talk, order, parcels, ghosts>>
DoLook(r) ==
    /\ Step(r, "look") /\ Then(r, IF Existing(task[r].app) THEN <<>> ELSE <<[do |-> "create"]>>)
    /\ UNCHANGED <<app, talk, order, parcels, ghosts>>
DoCreate(r) ==
    /\ Step(r, "create") /\ parcels' = Created(task[r].app)
    /\ Then(r, <<>>) /\ UNCHANGED <<app, talk, order, ghosts>>
DoShip(r) ==
    /\ Step(r, "ship")
    /\ parcels' = [parcels EXCEPT ![task[r].app][Head(task[r].todo).parcel] = "shipped"]
    /\ order' = [order EXCEPT ![task[r].app] = "shipped"]
    /\ Then(r, <<>>) /\ UNCHANGED <<app, talk, ghosts>>

(* Transactions.                                                           *)

Onward(s, row, pet) ==
    IF s.step = "transfer" /\ row.status # "ready" THEN <<Goto(AfterTransfer(row, pet))>> ELSE <<>>
Pets == {{}, {"pet"}}
DeclareRead(r) ==
    LET a == task[r].app
        s == Head(task[r].todo)
    IN /\ Step(r, "declare")
       /\ \E pet \in Pets :
             Then(r, IF Declared(app[a].pay, talk[a].notes) THEN Onward(s, app[a], pet)
                     ELSE <<[do |-> "commit", step |-> s.step, status |-> app[a].status,
                             notes |-> talk[a].notes]>>)
       /\ UNCHANGED <<app, talk, order, parcels, ghosts>>
\* The status seen decides, and a row that is no longer unpaid does not stop it.
DeclaredRow(row, approved) ==
    [row EXCEPT !.pay = IF approved \/ @ = "unpaid" THEN "declared" ELSE @,
                !.status = IF approved THEN "ready" ELSE @]
DeclaredTalk(said, notes, approved) ==
    [said EXCEPT !.notes = notes \cup {"declared"}, !.step = IF approved THEN "ready" ELSE @]
DeclareCommit(r) ==
    LET a == task[r].app
        s == Head(task[r].todo)
        approved == s.status = "awaiting"
    IN /\ Step(r, "commit")
       /\ app' = [app EXCEPT ![a] = DeclaredRow(app[a], approved)]
       /\ talk' = [talk EXCEPT ![a] = DeclaredTalk(talk[a], s.notes, approved)]
       /\ order' = IF approved THEN [order EXCEPT ![a] = "confirmed"] ELSE order
       /\ parcels' = IF approved THEN Ensured(a) ELSE parcels
       /\ \E pet \in Pets : Then(r, Onward(s, app'[a], pet))
       /\ UNCHANGED ghosts
OnlyWhenPaid(a, next) == IF next = "ready" THEN Ensured(a) ELSE parcels \* mutant: no parcel before the transfer
Queued(a, next) == Ensured(a)
ApproveCommit(r) ==
    LET a == task[r].app
        s == Head(task[r].todo)
        next == IF s.declared THEN "ready" ELSE "awaiting"
    IN /\ Step(r, "approve")
       /\ \/ /\ app[a].status = s.status /\ (s.status = "pending" \/ s.declared)
             /\ app' = [app EXCEPT ![a].status = next]
             /\ talk' = [talk EXCEPT ![a].step = next]
             /\ order' = [order EXCEPT ![a] = IF s.declared THEN "confirmed" ELSE "awaiting"]
             /\ parcels' = Queued(a, next)
          \/ /\ ~(s.status = "pending" \/ s.declared) /\ parcels' = Ensured(a)
             /\ UNCHANGED <<app, talk, order>>
          \/ /\ app[a].status # s.status /\ (s.status = "pending" \/ s.declared)
             /\ parcels' = IF app[a].status \in {"pending"} \cup Approved THEN Ensured(a) ELSE parcels
             /\ UNCHANGED <<app, talk, order>>
       /\ Then(r, <<>>) /\ UNCHANGED ghosts
RepairCommit(r) ==
    LET a == task[r].app
        next == Head(task[r].todo).status
    IN /\ Step(r, "repair")
       /\ app' = [app EXCEPT ![a].status = next]
       /\ order' = [order EXCEPT ![a] = IF next = "ready" THEN "confirmed" ELSE "awaiting"]
       /\ parcels' = Ensured(a)
       /\ Then(r, <<>>) /\ UNCHANGED <<talk, ghosts>>
\* A request fails, or its server ends, between two writes.
Dropped(r) == task[r] # Free /\ task' = [task EXCEPT ![r] = Free] /\ UNCHANGED <<app, talk, order, parcels, ghosts>>

JibaNext ==
    \/ \E r \in Workers :
          \/ Enrol(r)
          \/ \E a \in Apps : \/ Hear(r, a) \/ HearDeclared(r, a) \/ HearResume(r, a) \/ Pause(r, a)
                             \/ HearCancel(r, a) \/ Approve(r, a) \/ Reject(r, a) \/ Return(r, a)
                             \/ MarkPaid(r, a) \/ Backfill(r, a) \/ MarkShipped(r, a) \/ DoEnrol(r, a)
          \/ DoOpen(r) \/ DoFill(r) \/ DoSet(r) \/ DoPut(r) \/ DoPeek(r) \/ DoMove(r)
          \/ DoRead(r) \/ DoSame(r) \/ DoLook(r) \/ DoCreate(r) \/ DoShip(r)
          \/ DeclareRead(r) \/ DeclareCommit(r) \/ ApproveCommit(r) \/ RepairCommit(r) \/ Dropped(r)
    \/ \E a \in Apps : FindHelper(a) \/ Recall(a)
JibaSpec == JibaInit /\ [][JibaNext]_jibaVars

-----------------------------------------------------------------------------
(* Properties.                                                             *)

\* However messages cross, are delivered twice or die halfway, what reaches
\* the supervisor has a recipient, a phone, a store and an account, and its
\* customer has accepted the licence (flow.ts, every step of the switch).
ReviewedIsComplete ==
    \A a \in Apps : app[a].status \in {"pending"} \cup Approved =>
        Asked \subseteq app[a].filled /\ a \in agreedOnce

\* No parcel is sent before the supervisor has seen the money: neither a
\* declaration nor an approval is enough (payment.ts:315).
SentWasPaid == \A a \in Apps : (\E i \in DOMAIN parcels[a] : parcels[a][i] = "shipped") => a \in verified

\* An approved application has one parcel, paid or not, whoever queues it;
\* unless the staff cancelled one (service.ts:430).
ApprovedIsQueued ==
    \A a \in Apps \ recalled :
        LET n == Cardinality(Live(a)) IN n <= 1 /\ (app[a].status \in Approved => n = 1)
=============================================================================
