--------------------------- MODULE MemberRewards ----------------------------
(***************************************************************************)
(* A member's points: earned with the codes on returned jars, adjusted by  *)
(* HQ, spent on grooming coupons and rewards; and the coupons a store      *)
(* takes.  Every handler looks before its transaction and again inside;    *)
(* what counts is decided at the commit, by a conditional update of the    *)
(* code or the coupon, and under the advisory lock of the member's points. *)
(* A ledger row is newer than the rows before it (createdAt), also when    *)
(* two servers wrote them.                                                 *)
(***************************************************************************)
EXTENDS Integers, Sequences, FiniteSets

CONSTANTS
    Members, Codes, Coupons,
    Requests,          \* requests in flight
    Forms,             \* adjustments HQ has filled in, each with its requestId
    Member, Change,    \* of a form
    CouponPoints,      \* GROOMING_COUPON_POINTS
    RewardPoints,      \* pointsRequired of the one reward of this instance
    MaxRewards,        \* bound on the redemptions of rewards
    None

ASSUME MemberConstants ==
    /\ Member \in [Forms -> Members] /\ Change \in [Forms -> Int \ {0}]
    /\ CouponPoints \in Nat \ {0} /\ RewardPoints \in Nat \ {0} /\ MaxRewards \in Nat
    /\ None \notin Members

VARIABLES
    code,      \* jar_codes
    ledger,    \* member_points_ledger, oldest row first
    coupon,    \* coupons; `late`: expiresAt has passed, `paid`: claims that succeeded
    rewards,   \* reward_redemptions with their numbers
    sales,     \* jar_exchange orders with their numbers
    req        \* what each request has read

vars == <<code, ledger, coupon, rewards, sales, req>>

Idle == [op |-> "idle"]
NoCoupon == [status |-> "none", owner |-> None, late |-> FALSE, paid |-> 0]

Init ==
    /\ code = [c \in Codes |-> [status |-> "unused", by |-> None]]
    /\ ledger = [m \in Members |-> <<>>]
    /\ coupon = [k \in Coupons |-> NoCoupon]
    /\ rewards = {} /\ sales = {}
    /\ req = [r \in Requests |-> Idle]

Goes(r, what) == req' = [req EXCEPT ![r] = what]
Starts(r, what) ==
    req[r] = Idle /\ Goes(r, what) /\ UNCHANGED <<code, ledger, coupon, rewards, sales>>
\* A request that ends without a write: refused, failed, or its server gone.
GiveUp(r) ==
    /\ req[r] # Idle /\ Goes(r, Idle)
    /\ UNCHANGED <<code, ledger, coupon, rewards, sales>>

-----------------------------------------------------------------------------
(* The ledger.                                                             *)

\* getPointsBalance
Balance(m) == IF ledger[m] = <<>> THEN 0 ELSE ledger[m][Len(ledger[m])].balance

\* appendPointsLedger: the balance is the one read under the lock, whatever the
\* transaction has seen before.
BalanceSeen(m, seen) == seen \* mutant: the balance of the first look
BalanceNow(m, seen) == Balance(m)
Book(m, source, ref, change, seen) ==
    LET after == BalanceNow(m, seen) + change IN
    /\ after >= 0
    /\ ledger' = [ledger EXCEPT ![m] =
          Append(@, [source |-> source, ref |-> ref, change |-> change, balance |-> after])]

\* manualPointsAdjustment looks for its requestId under the lock of the member.
Adjusted(f) == \E i \in DOMAIN ledger[Member[f]] : ledger[Member[f]][i].ref = f
Adjust(f) ==
    /\ ~Adjusted(f)
    /\ Book(Member[f], "manual", f, Change[f], Balance(Member[f]))
    /\ UNCHANGED <<code, coupon, rewards, sales, req>>

-----------------------------------------------------------------------------
(* Codes of returned jars.                                                 *)

\* redeemJarCode: the code it finds is unused ...
RedeemRead(r, m, c) ==
    code[c].status = "unused" /\ Starts(r, [op |-> "redeem", member |-> m, code |-> c])
\* ... and is claimed together with its points if it still is.
UnusedWhenRead(c) == TRUE \* mutant: the claim asks nothing
Unused(c) == code[c].status = "unused"
RedeemCommit(r) ==
    LET m == req[r].member  c == req[r].code IN
    /\ req[r].op = "redeem" /\ Unused(c)
    /\ code' = [code EXCEPT ![c] = [status |-> "used", by |-> m]]
    /\ Book(m, "code", c, 1, Balance(m))
    /\ Goes(r, [op |-> "reply", code |-> c])
    /\ UNCHANGED <<coupon, rewards, sales>>

\* recordJarExchangeSaleOnRedeem runs after the reply: it looks for the order of
\* the code and for the last number ...
NextNumber(rows) ==
    IF rows = {} THEN 1 ELSE 1 + (CHOOSE n \in {x.number : x \in rows} :
                                      \A x \in rows : x.number <= n)
SaleRead(r) ==
    /\ req[r].op = "reply" /\ ~\E s \in sales : s.code = req[r].code
    /\ Goes(r, [op |-> "sale", code |-> req[r].code, number |-> NextNumber(sales)])
    /\ UNCHANGED <<code, ledger, coupon, rewards, sales>>
\* ... and makes the order; a number that is taken by now loses it for good.
SaleWrite(r) ==
    /\ req[r].op = "sale" /\ \A s \in sales : s.number # req[r].number
    /\ sales' = sales \cup {[code |-> req[r].code, number |-> req[r].number]}
    /\ Goes(r, Idle)
    /\ UNCHANGED <<code, ledger, coupon, rewards>>

\* voidAvailableJarCode
Void(c) ==
    /\ code[c].status = "unused"
    /\ code' = [code EXCEPT ![c].status = "expired"]
    /\ UNCHANGED <<ledger, coupon, rewards, sales, req>>

-----------------------------------------------------------------------------
(* Coupons and rewards.                                                    *)

\* redeemGroomingCouponForCustomer
CouponRead(r, m) ==
    /\ Balance(m) >= CouponPoints
    /\ Starts(r, [op |-> "coupon", member |-> m, seen |-> Balance(m)])
CouponCommit(r, k) ==
    LET m == req[r].member IN
    /\ req[r].op = "coupon" /\ coupon[k].status = "none"
    /\ coupon' = [coupon EXCEPT ![k] = [NoCoupon EXCEPT !.status = "available", !.owner = m]]
    /\ Book(m, "coupon", k, -CouponPoints, req[r].seen)
    /\ Goes(r, Idle)
    /\ UNCHANGED <<code, rewards, sales>>

\* redeemRewardForCustomer: the redemption takes the number after the last one
\* (its cost record likewise), which must still be free when it commits.
RewardRead(r, m) ==
    /\ Balance(m) >= RewardPoints /\ Cardinality(rewards) < MaxRewards
    /\ Starts(r, [op |-> "reward", member |-> m, seen |-> Balance(m),
                  number |-> NextNumber(rewards)])
RewardCommit(r) ==
    LET m == req[r].member  n == req[r].number IN
    /\ req[r].op = "reward" /\ \A x \in rewards : x.number # n
    /\ rewards' = rewards \cup {[number |-> n, member |-> m]}
    /\ Book(m, "reward", n, -RewardPoints, req[r].seen)
    /\ Goes(r, Idle)
    /\ UNCHANGED <<code, coupon, sales>>

-----------------------------------------------------------------------------
(* Coupons at the store.                                                   *)

TimePasses(k) ==
    /\ coupon[k].status # "none" /\ ~coupon[k].late
    /\ coupon' = [coupon EXCEPT ![k].late = TRUE]
    /\ UNCHANGED <<code, ledger, rewards, sales, req>>

\* verifyCouponAtStore finds a coupon that is over and writes so by its id.
VerifyRead(r, k) ==
    /\ coupon[k].status = "available" /\ coupon[k].late
    /\ Starts(r, [op |-> "over", coupon |-> k])
VerifyWrite(r) ==
    /\ req[r].op = "over"
    /\ coupon' = [coupon EXCEPT ![req[r].coupon].status = "expired"]
    /\ Goes(r, Idle)
    /\ UNCHANGED <<code, ledger, rewards, sales>>
\* expireCoupons, expireCouponsForCustomer
Expire(k) ==
    /\ coupon[k].status = "available" /\ coupon[k].late
    /\ coupon' = [coupon EXCEPT ![k].status = "expired"]
    /\ UNCHANGED <<code, ledger, rewards, sales, req>>

\* confirmCouponRedemptionAtStore: the time is that of its start, the status
\* that of its write.
ConfirmRead(r, k) ==
    /\ coupon[k].status = "available" /\ ~coupon[k].late
    /\ Starts(r, [op |-> "confirm", coupon |-> k])
AvailableWhenRead(k) == TRUE \* mutant: the claim asks nothing
Available(k) == coupon[k].status = "available"
ConfirmWrite(r) ==
    LET k == req[r].coupon IN
    /\ req[r].op = "confirm" /\ Available(k)
    /\ coupon' = [coupon EXCEPT ![k].status = "redeemed", ![k].paid = @ + 1]
    /\ Goes(r, Idle)
    /\ UNCHANGED <<code, ledger, rewards, sales>>

Next ==
    \/ \E f \in Forms : Adjust(f)
    \/ \E c \in Codes : Void(c)
    \/ \E k \in Coupons : TimePasses(k) \/ Expire(k)
    \/ \E r \in Requests :
          \/ RedeemCommit(r) \/ SaleRead(r) \/ SaleWrite(r) \/ RewardCommit(r)
          \/ VerifyWrite(r) \/ ConfirmWrite(r) \/ GiveUp(r)
          \/ \E m \in Members :
                \/ CouponRead(r, m) \/ RewardRead(r, m)
                \/ \E c \in Codes : RedeemRead(r, m, c)
          \/ \E k \in Coupons : CouponCommit(r, k) \/ VerifyRead(r, k) \/ ConfirmRead(r, k)
Spec == Init /\ [][Next]_vars

-----------------------------------------------------------------------------
Rows(m, source) ==
    {ledger[m][i].ref : i \in {j \in DOMAIN ledger[m] : ledger[m][j].source = source}}

\* The ledger of a member adds up, never below zero, and each of its rows is a
\* document of that member, booked once: a form sent twice, a coupon and a
\* reward bought at the same time with the same points leave no other trace.
LedgerAddsUp ==
    \A m \in Members :
        LET rows == ledger[m] IN
        /\ \A i \in DOMAIN rows :
              /\ rows[i].balance >= 0
              /\ rows[i].balance =
                    rows[i].change + (IF i = 1 THEN 0 ELSE rows[i - 1].balance)
              /\ \A j \in DOMAIN rows :
                    rows[i].source = rows[j].source /\ rows[i].ref = rows[j].ref => i = j
        /\ Rows(m, "coupon") = {k \in Coupons : coupon[k].owner = m}
        /\ Rows(m, "reward") = {x.number : x \in {y \in rewards : y.member = m}}

\* A returned jar counts once: its code gives points to one member, who is the
\* one on the code, and makes one sale at most, however often and by whom it is
\* entered; a voided code gives nothing.
ReturnCountsOnce ==
    \A c \in Codes :
        /\ \A m \in Members : c \in Rows(m, "code") <=> code[c] = [status |-> "used", by |-> m]
        /\ \A s, t \in sales : s.code = c /\ t.code = c => s = t /\ code[c].status = "used"

\* A store is owed for a coupon once: also when a second till, or an expiry that
\* was read before the redemption and overwrites it, comes after the first.
CouponPaidOnce == \A k \in Coupons : coupon[k].paid <= 1
=============================================================================
