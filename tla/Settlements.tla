---------------------------- MODULE Settlements -----------------------------
(***************************************************************************)
(* The monthly settlements of a shop.  A store confirms a preview of what  *)
(* is unsettled (new version: source items, an idempotency key), the back  *)
(* office makes settlements of the sales of a period (legacy), moves their *)
(* status and deletes legacy ones.  Every read a handler makes outside the *)
(* transaction that writes is a step of its own.  Amounts never change     *)
(* once a sale or a coupon exists, so the digests of a preview are its set *)
(* of sources.                                                             *)
(***************************************************************************)
EXTENDS Integers, Sequences, FiniteSets, FiniteSetsExt

CONSTANTS
    Settlements,   \* rows, never reused
    Requests,      \* requests of stores and of the back office
    Coupons,       \* coupons redeemed in this shop
    Periods,       \* sets of movements, by their creation, that are settled
    Attempts,      \* SETTLEMENT_NO_MAX_ATTEMPTS
    None

ASSUME SettlementConstants ==
    Attempts \in Nat \ {0} /\ None \notin Settlements \cup Coupons

VARIABLES
    txns,          \* merchant_stock_txns (see ShopShelf)
    settlements,   \* the rows with their source items
    req            \* what each request is doing

settlementVars == <<settlements, req>>

Statuses == {"none", "draft", "reviewing", "approved", "paid", "cancelled",
             "deleted"}
NoRow == [status |-> "none", pos |-> FALSE, number |-> 0, key |-> None,
          lines |-> {}]
Idle == [stage |-> "idle"]

Sale(i) == <<"sale", i>>
Exists(s) == settlements[s].status \notin {"none", "deleted"}
Active(s) == Exists(s) /\ settlements[s].status # "cancelled"
Rows == {s \in Settlements : Exists(s)}
WithKey(k) == {s \in Rows : settlements[s].pos /\ settlements[s].key = k}
NextNo == 1 + Max({0} \cup {settlements[s].number : s \in Rows})
NumberFree(n) == \A s \in Rows : settlements[s].number # n

\* The source items: withdrawing voids all items of a settlement.
ActiveSources ==
    UNION {settlements[s].lines : s \in {u \in Rows : settlements[u].pos /\ Active(u)}}
VoidedAttempts(S) ==
    Cardinality({s \in Rows : /\ settlements[s].status = "cancelled"
                              /\ settlements[s].lines \cap S # {}})
\* The sales no settlement has locked, less those of goods the shop had bought.
Unlocked(p) ==
    {i \in DOMAIN txns \cap p : /\ txns[i].kind = "sale" /\ txns[i].lock = None
                               /\ txns[i].bill # 0}
Key(p, S, n) == <<p, S, n>>     \* buildIdempotencyKey: one shop, one method

SettlementInit ==
    /\ settlements = [s \in Settlements |-> NoRow]
    /\ req = [r \in Requests |-> Idle]

Go(r, state) == req' = [req EXCEPT ![r] = state]

-----------------------------------------------------------------------------
(* The store: preview, confirm, withdraw.                                  *)

\* A page and what a request made from it has found so far.
PageOf(p, S, k) ==
    [stage |-> "page", period |-> p, sources |-> S, key |-> k,
     found |-> {}, draft |-> None, tries |-> 0, number |-> 0]

\* The page: the unsettled sources of a period and the key they would get.
\* A store that has its answer keeps the page and may press the button again.
Preview(r, p) ==
    LET S == ({Sale(i) : i \in Unlocked(p)} \cup {<<"coupon", c>> : c \in Coupons})
                 \ ActiveSources IN
    /\ req[r] = Idle /\ S # {}
    /\ Go(r, PageOf(p, S, Key(p, S, VoidedAttempts(S))))
    /\ UNCHANGED <<txns, settlements>>

Page(r) == PageOf(req[r].period, req[r].sources, req[r].key)
Answer(r) == Go(r, Page(r)) /\ UNCHANGED <<txns, settlements>>
Refuse(r) == Go(r, Idle) /\ UNCHANGED <<txns, settlements>>

\* confirmStoreSettlement, 1: a settlement with the key of the page is the answer.
ConfirmFindPrior(r) ==
    /\ req[r].stage = "page"
    /\ \/ WithKey(req[r].key) # {} /\ Answer(r)
       \/ /\ WithKey(req[r].key) = {}
          /\ Go(r, [Page(r) EXCEPT !.stage = "sales"])
          /\ UNCHANGED <<txns, settlements>>

\* 2: loadSources, the movements no settlement has locked ...
ConfirmLoadSales(r) ==
    /\ req[r].stage = "sales"
    /\ Go(r, [Page(r) EXCEPT !.stage = "items",
                  !.found = {Sale(i) : i \in Unlocked(req[r].period)}
                                \cup {<<"coupon", c>> : c \in Coupons}])
    /\ UNCHANGED <<txns, settlements>>

\* ... less the sources that are items of an active settlement.
ConfirmLoadItems(r) ==
    /\ req[r].stage = "items"
    /\ Go(r, [Page(r) EXCEPT !.stage = "count",
                             !.found = req[r].found \ ActiveSources])
    /\ UNCHANGED <<txns, settlements>>

\* 3: countAttempts makes the key of the draft.
ConfirmCount(r) ==
    /\ req[r].stage = "count"
    /\ Go(r, [Page(r) EXCEPT !.stage = "persist", !.found = req[r].found,
                  !.draft = Key(req[r].period, req[r].found,
                                VoidedAttempts(req[r].found))])
    /\ UNCHANGED <<txns, settlements>>

\* runPersistAttempt looks for the key of the draft and takes a number.
Attempt(r, n) ==
    \/ WithKey(req[r].draft) # {} /\ Answer(r)
    \/ /\ WithKey(req[r].draft) = {}
       /\ Go(r, [Page(r) EXCEPT !.stage = "commit", !.draft = req[r].draft,
                                !.tries = n, !.number = NextNo])
       /\ UNCHANGED <<txns, settlements>>

\* 4: persistSettlementDraft: the key of the page once more, the comparison
\* with the page, the first attempt.
Persist(r) ==
    /\ req[r].stage = "persist"
    /\ \/ /\ req[r].key # req[r].draft
          /\ WithKey(req[r].key) # {} /\ Answer(r)
       \/ /\ req[r].key = req[r].draft \/ WithKey(req[r].key) = {}
          /\ \/ /\ req[r].found = {} \/ req[r].found # req[r].sources
                /\ Refuse(r)
             \/ /\ req[r].found # {} /\ req[r].found = req[r].sources
                /\ Attempt(r, 1)
AttemptAgain(r) == req[r].stage = "attempt" /\ Attempt(r, req[r].tries + 1)

Sales(S) == {i \in DOMAIN txns : Sale(i) \in S}
Lockable(S) == \A i \in Sales(S) : txns[i].kind = "sale" /\ txns[i].lock = None
LockAll(S, s) ==
    [i \in DOMAIN txns |->
        IF Sale(i) \in S THEN [txns[i] EXCEPT !.lock = s] ELSE txns[i]]
Release(s) ==
    [i \in DOMAIN txns |->
        IF txns[i].lock = s THEN [txns[i] EXCEPT !.lock = None] ELSE txns[i]]

\* ... and writes the row, its items and its locks, or learns what is in the
\* way: the unique indexes in the order of the inserts, then the lock count.
Write(r, s) ==
    LET S == req[r].sources IN
    /\ settlements[s] = NoRow
    /\ settlements' = [settlements EXCEPT ![s] =
          [status |-> "draft", pos |-> TRUE, number |-> req[r].number,
           key |-> req[r].draft, lines |-> S]]
    /\ txns' = LockAll(S, s)
    /\ Go(r, Page(r))
AttemptCommitBlind(r) == \* mutant: neither the item index nor the count holds
    /\ req[r].stage = "commit"
    /\ NumberFree(req[r].number) /\ WithKey(req[r].draft) = {}
    /\ \E s \in Settlements : Write(r, s)
AttemptCommit(r) ==
    LET S == req[r].sources IN
    /\ req[r].stage = "commit"
    /\ \/ /\ ~NumberFree(req[r].number)
          /\ \/ /\ req[r].tries < Attempts
                /\ Go(r, [Page(r) EXCEPT !.stage = "attempt",
                             !.draft = req[r].draft, !.tries = req[r].tries])
                /\ UNCHANGED <<txns, settlements>>
             \/ req[r].tries = Attempts /\ Refuse(r)
       \/ /\ NumberFree(req[r].number)
          /\ WithKey(req[r].draft) # {} /\ Answer(r)
       \/ /\ NumberFree(req[r].number) /\ WithKey(req[r].draft) = {}
          /\ \/ (S \cap ActiveSources # {} \/ ~Lockable(S)) /\ Refuse(r)
             \/ /\ S \cap ActiveSources = {} /\ Lockable(S)
                /\ \E s \in Settlements : Write(r, s)

\* withdrawSettlementDraft: one transaction that starts by moving the status.
WithdrawAny(s) == \* mutant: the status is not a condition of the update
    /\ settlements[s].pos /\ Active(s)
    /\ settlements' = [settlements EXCEPT ![s].status = "cancelled"]
    /\ txns' = Release(s)
    /\ UNCHANGED req
Withdraw(s) ==
    /\ settlements[s].pos /\ settlements[s].status = "draft"
    /\ settlements' = [settlements EXCEPT ![s].status = "cancelled"]
    /\ txns' = Release(s)
    /\ UNCHANGED req

-----------------------------------------------------------------------------
(* The back office.                                                        *)

\* createSettlement: lines and number are computed before the transaction.
LegacyRead(r, p) ==
    /\ req[r] = Idle /\ Unlocked(p) # {}
    /\ Go(r, [stage |-> "legacy", sales |-> Unlocked(p), number |-> NextNo])
    /\ UNCHANGED <<txns, settlements>>
LegacyWriteUncounted(r) == \* mutant: the locks are taken without a condition
    LET S == {Sale(i) : i \in req[r].sales} IN
    /\ req[r].stage = "legacy" /\ NumberFree(req[r].number)
    /\ \E s \in Settlements :
          /\ settlements[s] = NoRow
          /\ settlements' = [settlements EXCEPT ![s] =
                [status |-> "draft", pos |-> FALSE, number |-> req[r].number,
                 key |-> None, lines |-> S]]
          /\ txns' = LockAll(S, s)
    /\ Go(r, Idle)
LegacyWrite(r) ==
    LET S == {Sale(i) : i \in req[r].sales} IN
    /\ req[r].stage = "legacy"
    /\ \/ /\ NumberFree(req[r].number) /\ Lockable(S)
          /\ \E s \in Settlements :
                /\ settlements[s] = NoRow
                /\ settlements' = [settlements EXCEPT ![s] =
                      [status |-> "draft", pos |-> FALSE,
                       number |-> req[r].number, key |-> None, lines |-> S]]
                /\ txns' = LockAll(S, s)
          /\ Go(r, Idle)
       \/ ~(NumberFree(req[r].number) /\ Lockable(S)) /\ Refuse(r)

Flow == {"draft", "reviewing", "approved", "paid"}          \* STATUS_FLOW
NextStatus(a, b) ==                              \* NEW_VERSION_NEXT_STATUS
    <<a, b>> \in {<<"draft", "reviewing">>, <<"reviewing", "approved">>,
                  <<"approved", "paid">>}

\* updateSettlementStatus: the status is read, then updated on a condition.
StatusRead(r, s, next) ==
    /\ req[r] = Idle /\ Exists(s)
    /\ settlements[s].pos => NextStatus(settlements[s].status, next)
    /\ Go(r, [stage |-> "status", row |-> s, next |-> next,
              was |-> settlements[s].status])
    /\ UNCHANGED <<txns, settlements>>
StatusWrite(r) ==
    LET s == req[r].row
        ok == /\ Active(s)
              /\ settlements[s].pos => settlements[s].status = req[r].was IN
    /\ req[r].stage = "status"
    /\ \/ ok /\ settlements' = [settlements EXCEPT ![s].status = req[r].next]
       \/ ~ok /\ UNCHANGED settlements
    /\ Go(r, Idle) /\ UNCHANGED txns

\* deleteSettlement: what may be deleted is decided before the transaction.
DeleteRead(r, s) ==
    /\ req[r] = Idle /\ Exists(s)
    /\ settlements[s].status # "paid" /\ ~settlements[s].pos
    /\ Go(r, [stage |-> "delete", row |-> s])
    /\ UNCHANGED <<txns, settlements>>
DeleteWrite(r) ==
    /\ req[r].stage = "delete"
    /\ \/ /\ Exists(req[r].row)
          /\ settlements' = [settlements EXCEPT ![req[r].row].status = "deleted"]
          /\ txns' = Release(req[r].row)
          /\ Go(r, Idle)
       \/ ~Exists(req[r].row) /\ Refuse(r)

\* A page is closed, a request ends early.
Leave(r) == req[r] # Idle /\ Refuse(r)

Store(r) ==
    \/ \E p \in Periods : Preview(r, p)
    \/ ConfirmFindPrior(r) \/ ConfirmLoadSales(r) \/ ConfirmLoadItems(r)
    \/ ConfirmCount(r) \/ Persist(r) \/ AttemptAgain(r) \/ AttemptCommit(r)
Office(r) ==
    \/ \E p \in Periods : LegacyRead(r, p)
    \/ LegacyWrite(r) \/ StatusWrite(r) \/ DeleteWrite(r)
    \/ \E s \in Settlements : DeleteRead(r, s)
    \/ \E s \in Settlements, next \in Flow : StatusRead(r, s, next)
SettlementNext ==
    \/ \E r \in Requests : Store(r) \/ Office(r) \/ Leave(r)
    \/ \E s \in Settlements : Withdraw(s)

-----------------------------------------------------------------------------
\* A sale or a coupon is billed by one settlement at most, whether the store
\* or the back office made it and whatever ran at the same time.
BilledOnce ==
    \A s, u \in Settlements :
        s # u /\ Active(s) /\ Active(u) =>
            settlements[s].lines \cap settlements[u].lines = {}

\* The lock of a movement and the lines of the settlement agree: a movement
\* is locked by the settlement that bills it, is not undone while it is
\* billed, and is free again once the settlement is withdrawn or deleted.
LocksMatchLines ==
    /\ \A i \in DOMAIN txns :
          txns[i].lock # None =>
              Active(txns[i].lock) /\ Sale(i) \in settlements[txns[i].lock].lines
    /\ \A s \in Settlements : Active(s) =>
          \A i \in Sales(settlements[s].lines) :
              txns[i].kind = "sale" /\ txns[i].lock = s

\* What a store confirmed and the company paid, or the store withdrew, is
\* never touched again, whoever was in the middle of changing its status.
PosEndIsFinal ==
    [][\A s \in Settlements :
          settlements[s].pos /\ settlements[s].status \in {"paid", "cancelled"}
              => settlements'[s] = settlements[s]]_settlements
=============================================================================
