------------------------- MODULE LineServicesProofs -------------------------
(***************************************************************************)
(* What is proved of the services behind the LINE account: the points and   *)
(* coupons of members, the two-piece campaign, and appointments.  The three *)
(* share no state, so each has an inductive invariant of its own.           *)
(***************************************************************************)
EXTENDS MemberRewards, JibaUnbox, Booking, FiniteSetTheorems, SequenceTheorems, TLAPS

(***************************************************************************)
(* Members.  No lock of the look before the transaction is needed: what is *)
(* proved of a request is only that its coupon exists and that the code it *)
(* replies for is its own, and the rest follows from the conditions of the *)
(* writes.                                                                 *)
(***************************************************************************)
Sources == {"manual", "code", "coupon", "reward"}
Documents == Forms \cup Codes \cup Coupons \cup {x.number : x \in rewards}
Entry == [source : Sources, ref : Documents, change : Int, balance : Int]
CodeRow == [status : {"unused", "used", "expired"}, by : Members \cup {None}]
CouponRow == [status : {"none", "available", "redeemed", "expired"},
              owner : Members \cup {None}, late : BOOLEAN, paid : Nat]

TypeOK ==
    /\ code \in [Codes -> CodeRow]
    /\ ledger \in [Members -> Seq(Entry)]
    /\ coupon \in [Coupons -> CouponRow]
    /\ DOMAIN req = Requests

\* What a request has read and no other request can undo.
Replies(r, c) == req[r].op \in {"reply", "sale"} /\ req[r].code = c
RequestOK(r) ==
    /\ req[r].op \in {"redeem", "coupon", "reward"} => req[r].member \in Members
    /\ req[r].op \in {"redeem", "reply", "sale"} => req[r].code \in Codes
    /\ req[r].op \in {"over", "confirm"} =>
          req[r].coupon \in Coupons /\ coupon[req[r].coupon].status # "none"

\* The rows of a member up to now: each balance is the one before and its change,
\* and no document is booked twice.
Chain(rows) ==
    \A i \in DOMAIN rows :
        /\ rows[i].balance >= 0
        /\ rows[i].balance = rows[i].change + (IF i = 1 THEN 0 ELSE rows[i - 1].balance)
        /\ \A j \in DOMAIN rows :
              rows[i].source = rows[j].source /\ rows[i].ref = rows[j].ref => i = j
Chained(m) == Chain(ledger[m])
Explained(m) ==
    /\ Rows(m, "coupon") = {k \in Coupons : coupon[k].owner = m}
    /\ Rows(m, "reward") = {x.number : x \in {y \in rewards : y.member = m}}
    /\ Rows(m, "code") = {c \in Codes : code[c] = [status |-> "used", by |-> m]}

\* A code in use is sold once, or one request is about to sell it.
CodeOK(c) ==
    /\ \A s \in sales : s.code = c => code[c].status = "used"
    /\ \A s, t \in sales : s.code = c /\ t.code = c => s = t
    /\ \A r \in Requests : Replies(r, c) => code[c].status = "used"
    /\ \A r, q \in Requests : Replies(r, c) /\ Replies(q, c) => r = q
    /\ \A r \in Requests : Replies(r, c) /\ req[r].op = "sale" => \A s \in sales : s.code # c

CouponOK(k) ==
    /\ coupon[k].status = "none" => coupon[k].owner = None
    /\ coupon[k].status \in {"none", "available"} => coupon[k].paid = 0
    /\ coupon[k].paid <= 1

Inv ==
    /\ TypeOK
    /\ \A r \in Requests : RequestOK(r)
    /\ \A m \in Members : Chained(m) /\ Explained(m)
    /\ \A c \in Codes : CodeOK(c)
    /\ \A k \in Coupons : CouponOK(k)

-----------------------------------------------------------------------------
(* The ledger. *)

LEMMA AppendFacts ==
    ASSUME NEW S, NEW rows \in Seq(S), NEW row \in S
    PROVE  /\ Append(rows, row) \in Seq(S)
           /\ Len(rows) \in Nat /\ DOMAIN rows = 1..Len(rows)
           /\ Len(Append(rows, row)) = Len(rows) + 1
           /\ DOMAIN Append(rows, row) = 1..Len(rows) + 1
           /\ \A i \in 1..Len(rows) : Append(rows, row)[i] = rows[i]
           /\ Append(rows, row)[Len(rows) + 1] = row
           /\ rows = <<>> <=> Len(rows) = 0
BY SMT

LEMMA BalanceType ==
    ASSUME TypeOK, NEW m \in Members
    PROVE  Balance(m) \in Int
<1>1. ledger[m] \in Seq(Entry)
  BY DEF TypeOK
<1>2. CASE ledger[m] = <<>>
  BY <1>2 DEF Balance
<1>3. CASE ledger[m] # <<>>
  <2>1. Len(ledger[m]) \in 1..Len(ledger[m])
    BY <1>1, <1>3, EmptySeq
  <2>2. ledger[m][Len(ledger[m])] \in Entry
    BY <1>1, <2>1, ElementOfSeq
  <2> QED
    BY <1>3, <2>2 DEF Balance, Entry
<1> QED
  BY <1>2, <1>3

\* The documents a ledger speaks of only grow.
LEMMA LedgerType ==
    ASSUME TypeOK, Documents \subseteq Documents'
    PROVE  \A m \in Members : ledger[m] \in Seq(Entry')
<1> SUFFICES ASSUME NEW m \in Members PROVE ledger[m] \in Seq(Entry')
  OBVIOUS
<1>1. ledger[m] \in Seq(Entry)
  BY DEF TypeOK
<1>2. Entry \subseteq Entry'
  BY DEF Entry
<1> QED
  BY <1>1, <1>2, SeqMonotonic

\* A row is appended: its balance follows, and its document is the one that is new.
LEMMA BookKeeps ==
    ASSUME TypeOK, NEW m \in Members, Chained(m), NEW source \in Sources, NEW ref,
           NEW change \in Int, Book(m, source, ref, change, 0),
           Documents \subseteq Documents', ref \in Documents', ref \notin Rows(m, source)
    PROVE  /\ ledger' \in [Members -> Seq(Entry')]
           /\ \A n \in Members \ {m} : ledger'[n] = ledger[n]
           /\ Chained(m)'
           /\ Rows(m, source)' = Rows(m, source) \cup {ref}
           /\ \A t : t # source => Rows(m, t)' = Rows(m, t)
<1> PICK after \in Int : after = Balance(m) + change
  BY BalanceType
<1> DEFINE rows == ledger[m]  n == Len(ledger[m])
           row == [source |-> source, ref |-> ref, change |-> change, balance |-> after]
<1>1. after >= 0 /\ ledger' = [ledger EXCEPT ![m] = Append(rows, row)]
  BY DEF Book, BalanceNow
<1>2. rows \in Seq(Entry') /\ row \in Entry'
  BY LedgerType DEF Entry
<1>3. /\ Append(rows, row) \in Seq(Entry')
      /\ n \in Nat /\ DOMAIN rows = 1..n /\ DOMAIN Append(rows, row) = 1..n + 1
      /\ \A i \in 1..n : Append(rows, row)[i] = rows[i]
      /\ Append(rows, row)[n + 1] = row
      /\ rows = <<>> <=> n = 0
  BY <1>2, AppendFacts
<1>4. ledger'[m] = Append(rows, row) /\ (\A i \in Members \ {m} : ledger'[i] = ledger[i])
  BY <1>1 DEF TypeOK
<1>5. ledger' \in [Members -> Seq(Entry')]
  BY <1>1, <1>3, LedgerType DEF TypeOK
<1>6. PICK k \in Nat : k = n
  BY <1>3
<1>7. /\ DOMAIN ledger[m] = 1..k /\ DOMAIN ledger'[m] = 1..k + 1
      /\ \A i \in 1..k : ledger'[m][i] = ledger[m][i]
      /\ ledger'[m][k + 1] = row
      /\ after = change + (IF k = 0 THEN 0 ELSE ledger[m][k].balance)
  <2>1. Balance(m) = IF k = 0 THEN 0 ELSE ledger[m][k].balance
    BY <1>3, <1>6 DEF Balance
  <2>2. after = change + Balance(m) /\ Balance(m) \in Int
    BY BalanceType
  <2> QED
    BY <1>3, <1>4, <1>6, <2>1, <2>2
<1> HIDE DEF rows, n
<1>8. /\ row.source = source /\ row.ref = ref /\ row.change = change /\ row.balance = after
  OBVIOUS
<1> HIDE DEF row
<1>9. \A i \in 1..k : ledger[m][i].source = source => ledger[m][i].ref # ref
  BY <1>7 DEF Rows
<1>10. Chained(m)'
  <2> SUFFICES ASSUME NEW i \in 1..k + 1
               PROVE  /\ ledger'[m][i].balance >= 0
                      /\ ledger'[m][i].balance = ledger'[m][i].change
                            + (IF i = 1 THEN 0 ELSE ledger'[m][i - 1].balance)
                      /\ \A j \in 1..k + 1 :
                            ledger'[m][i].source = ledger'[m][j].source
                              /\ ledger'[m][i].ref = ledger'[m][j].ref => i = j
    BY <1>7 DEF Chained, Chain
  <2>1. CASE i \in 1..k
    <3>1. i = 1 \/ i - 1 \in 1..k
      BY <2>1
    <3>2. /\ ledger[m][i].balance >= 0
          /\ ledger[m][i].balance = ledger[m][i].change
                + (IF i = 1 THEN 0 ELSE ledger[m][i - 1].balance)
          /\ \A j \in 1..k : ledger[m][i].source = ledger[m][j].source
                                /\ ledger[m][i].ref = ledger[m][j].ref => i = j
      BY <2>1, <1>7 DEF Chained, Chain
    <3>3. ASSUME NEW j \in 1..k + 1, ledger'[m][i].source = ledger'[m][j].source,
                 ledger'[m][i].ref = ledger'[m][j].ref
          PROVE  i = j
      <4>1. CASE j \in 1..k
        BY <2>1, <3>2, <3>3, <4>1, <1>7
      <4>2. CASE j = k + 1
        BY <2>1, <3>3, <4>2, <1>7, <1>8, <1>9
      <4> QED
        BY <4>1, <4>2
    <3>4. /\ ledger'[m][i] = ledger[m][i] /\ (i = 1 \/ ledger'[m][i - 1] = ledger[m][i - 1])
      BY <2>1, <3>1, <1>7
    <3> QED
      BY <3>2, <3>3, <3>4
  <2>2. CASE i = k + 1
    <3>1. k = 0 \/ k \in 1..k
      OBVIOUS
    <3> QED
      BY <2>2, <3>1, <1>1, <1>7, <1>8, <1>9
  <2> QED
    BY <2>1, <2>2
<1>11. Rows(m, source)' = Rows(m, source) \cup {ref}
  <2>1. Rows(m, source) = {ledger[m][i].ref : i \in {j \in 1..k : ledger[m][j].source = source}}
    BY <1>7 DEF Rows
  <2>2. Rows(m, source)' = {ledger'[m][i].ref :
                              i \in {j \in 1..k + 1 : ledger'[m][j].source = source}}
    BY <1>7 DEF Rows
  <2>3. {j \in 1..k + 1 : ledger'[m][j].source = source}
          = {j \in 1..k : ledger[m][j].source = source} \cup {k + 1}
    BY <1>7, <1>8
  <2>4. PICK before : before = {j \in 1..k : ledger[m][j].source = source}
    OBVIOUS
  <2>5. \A i \in before : ledger'[m][i].ref = ledger[m][i].ref
    BY <1>7, <2>4
  <2>6. ledger'[m][k + 1].ref = ref
    BY <1>7, <1>8
  <2>7. Rows(m, source)' = {ledger'[m][i].ref : i \in before \cup {k + 1}}
    BY <2>2, <2>3, <2>4
  <2>8. Rows(m, source) = {ledger[m][i].ref : i \in before}
    BY <2>1, <2>4
  <2>9. {ledger'[m][i].ref : i \in before \cup {k + 1}}
          = {ledger[m][i].ref : i \in before} \cup {ref}
    BY ONLY <2>5, <2>6
  <2> QED
    BY <2>7, <2>8, <2>9
<1>12. ASSUME NEW t, t # source PROVE Rows(m, t)' = Rows(m, t)
  <2>1. {j \in 1..k + 1 : ledger'[m][j].source = t} = {j \in 1..k : ledger[m][j].source = t}
    BY <1>7, <1>8, <1>12
  <2>2. Rows(m, t) = {ledger[m][i].ref : i \in {j \in 1..k : ledger[m][j].source = t}}
    BY <1>7 DEF Rows
  <2>3. Rows(m, t)' = {ledger'[m][i].ref : i \in {j \in 1..k + 1 : ledger'[m][j].source = t}}
    BY <1>7 DEF Rows
  <2> QED
    BY <1>7, <2>1, <2>2, <2>3
<1> QED
  BY <1>4, <1>5, <1>10, <1>11, <1>12

-----------------------------------------------------------------------------
(* What a step leaves as it was. *)

LEMMA RequestsKept ==
    ASSUME Inv, NEW r, RequestOK(r)', \A q \in Requests \ {r} : req'[q] = req[q],
           \A k \in Coupons : coupon[k].status # "none" => coupon'[k].status # "none"
    PROVE  \A q \in Requests : RequestOK(q)'
BY DEF Inv, RequestOK

\* A step of a request that does not reply for a code afterwards.
LEMMA CodesKept ==
    ASSUME Inv, UNCHANGED sales, NEW r,
           \A c \in Codes : code[c].status = "used" => code'[c].status = "used",
           \A q \in Requests \ {r} : req'[q] = req[q],
           r \in Requests => req'[r].op \notin {"reply", "sale"}
    PROVE  \A c \in Codes : CodeOK(c)'
<1> SUFFICES ASSUME NEW c \in Codes PROVE CodeOK(c)'
  OBVIOUS
<1>1. CodeOK(c)
  BY DEF Inv
<1>2. \A q \in Requests : Replies(q, c)' => Replies(q, c) /\ req'[q] = req[q]
  BY DEF Replies
<1> QED
  BY <1>1, <1>2 DEF CodeOK

\* A step that books nothing.
LEMMA LedgerKept ==
    ASSUME Inv, UNCHANGED <<ledger, rewards>>,
           \A k \in Coupons : coupon'[k].owner = coupon[k].owner,
           \A c \in Codes : \/ code'[c] = code[c]
                            \/ code[c].status = "unused" /\ code'[c].status = "expired"
    PROVE  /\ ledger' \in [Members -> Seq(Entry')]
           /\ \A m \in Members : Chained(m)' /\ Explained(m)'
<1>1. Entry' = Entry
  BY DEF Entry, Documents
<1>2. ASSUME NEW m \in Members PROVE Chained(m)' /\ Explained(m)'
  <2>1. Chained(m) /\ Explained(m)
    BY DEF Inv
  <2>2. \A t : Rows(m, t)' = Rows(m, t)
    BY DEF Rows
  <2>3. \A c \in Codes : code'[c] = [status |-> "used", by |-> m]
                             <=> code[c] = [status |-> "used", by |-> m]
    OBVIOUS
  <2>4. Explained(m)'
    BY <2>1, <2>2, <2>3 DEF Explained
  <2> QED
    BY <2>1, <2>4 DEF Chained
<1> QED
  BY <1>1, <1>2 DEF Inv, TypeOK

\* A step that only reads: what the request remembers is all that changes.
LEMMA ReadKeeps ==
    ASSUME Inv, NEW r \in Requests, UNCHANGED <<code, ledger, coupon, rewards, sales>>,
           DOMAIN req' = Requests, \A q \in Requests \ {r} : req'[q] = req[q],
           RequestOK(r)', req'[r].op \notin {"reply", "sale"}
    PROVE  Inv'
<1>1. \A q \in Requests : RequestOK(q)'
  BY RequestsKept
<1>2. \A c \in Codes : CodeOK(c)'
  <2>1. UNCHANGED sales /\ (\A c \in Codes : code[c].status = "used" => code'[c].status = "used")
    OBVIOUS
  <2> QED
    BY <2>1, CodesKept
<1>3. ledger' \in [Members -> Seq(Entry')] /\ \A m \in Members : Chained(m)' /\ Explained(m)'
  <2>1. /\ UNCHANGED <<ledger, rewards>>
        /\ \A k \in Coupons : coupon'[k].owner = coupon[k].owner
        /\ \A c \in Codes : \/ code'[c] = code[c]
                            \/ code[c].status = "unused" /\ code'[c].status = "expired"
    OBVIOUS
  <2> QED
    BY <2>1, LedgerKept
<1>4. \A k \in Coupons : CouponOK(k)'
  BY DEF Inv, CouponOK
<1> QED
  BY <1>1, <1>2, <1>3, <1>4 DEF Inv, TypeOK

LEMMA ReadsKeep ==
    ASSUME Inv, NEW r \in Requests,
           \/ GiveUp(r)
           \/ \E m \in Members : \/ CouponRead(r, m) \/ RewardRead(r, m)
                                 \/ \E c \in Codes : RedeemRead(r, m, c)
           \/ \E k \in Coupons : VerifyRead(r, k) \/ ConfirmRead(r, k)
    PROVE  Inv'
<1> USE DEF Goes, Starts
<1>1. CASE GiveUp(r)
  <2>1. req'[r].op = "idle"
    BY <1>1 DEF GiveUp, Idle, Inv, TypeOK
  <2> QED
    BY <1>1, <2>1, ReadKeeps DEF GiveUp, RequestOK, Inv, TypeOK
<1>2. ASSUME NEW m \in Members, CouponRead(r, m) PROVE Inv'
  <2>1. req'[r].op = "coupon" /\ req'[r].member = m
    BY <1>2 DEF CouponRead, Inv, TypeOK
  <2> QED
    BY <1>2, <2>1, ReadKeeps DEF CouponRead, RequestOK, Inv, TypeOK
<1>3. ASSUME NEW m \in Members, RewardRead(r, m) PROVE Inv'
  <2>1. req'[r].op = "reward" /\ req'[r].member = m
    BY <1>3 DEF RewardRead, Inv, TypeOK
  <2> QED
    BY <1>3, <2>1, ReadKeeps DEF RewardRead, RequestOK, Inv, TypeOK
<1>4. ASSUME NEW m \in Members, NEW c \in Codes, RedeemRead(r, m, c) PROVE Inv'
  <2>1. req'[r].op = "redeem" /\ req'[r].member = m /\ req'[r].code = c
    BY <1>4 DEF RedeemRead, Inv, TypeOK
  <2> QED
    BY <1>4, <2>1, ReadKeeps DEF RedeemRead, RequestOK, Inv, TypeOK
<1>5. ASSUME NEW k \in Coupons, VerifyRead(r, k) PROVE Inv'
  <2>1. req'[r].op = "over" /\ req'[r].coupon = k /\ coupon[k].status = "available"
    BY <1>5 DEF VerifyRead, Inv, TypeOK
  <2> QED
    BY <1>5, <2>1, ReadKeeps DEF VerifyRead, RequestOK, Inv, TypeOK
<1>6. ASSUME NEW k \in Coupons, ConfirmRead(r, k) PROVE Inv'
  <2>1. req'[r].op = "confirm" /\ req'[r].coupon = k /\ coupon[k].status = "available"
    BY <1>6 DEF ConfirmRead, Inv, TypeOK
  <2> QED
    BY <1>6, <2>1, ReadKeeps DEF ConfirmRead, RequestOK, Inv, TypeOK
<1> QED
  BY <1>1, <1>2, <1>3, <1>4, <1>5, <1>6

-----------------------------------------------------------------------------
(* The writes. *)

\* Nothing but the status of one coupon changes, and never back to "none".
LEMMA CouponWriteKeeps ==
    ASSUME Inv, NEW k \in Coupons, UNCHANGED <<code, ledger, rewards, sales>>,
           \A i \in Coupons \ {k} : coupon'[i] = coupon[i],
           coupon' \in [Coupons -> CouponRow], CouponOK(k)',
           coupon'[k].owner = coupon[k].owner,
           coupon[k].status # "none" => coupon'[k].status # "none",
           NEW r, \A q \in Requests \ {r} : req'[q] = req[q], DOMAIN req' = Requests,
           r \in Requests => req'[r] = Idle
    PROVE  Inv'
<1>1. \A i \in Coupons : coupon[i].status # "none" => coupon'[i].status # "none"
  OBVIOUS
<1>2. \A q \in Requests : RequestOK(q)'
  <2>1. r \in Requests => RequestOK(r)'
    BY DEF RequestOK, Idle
  <2>2. CASE r \in Requests
    BY <1>1, <2>1, <2>2, RequestsKept
  <2>3. CASE r \notin Requests
    BY <1>1, <2>3 DEF Inv, RequestOK
  <2> QED
    BY <2>2, <2>3
<1>3. \A c \in Codes : CodeOK(c)'
  <2>1. r \in Requests => req'[r].op \notin {"reply", "sale"}
    BY DEF Idle
  <2>2. UNCHANGED sales /\ (\A c \in Codes : code[c].status = "used" => code'[c].status = "used")
    OBVIOUS
  <2> QED
    BY <2>1, <2>2, CodesKept
<1>4. ledger' \in [Members -> Seq(Entry')] /\ \A m \in Members : Chained(m)' /\ Explained(m)'
  <2>1. /\ UNCHANGED <<ledger, rewards>>
        /\ \A i \in Coupons : coupon'[i].owner = coupon[i].owner
        /\ \A c \in Codes : \/ code'[c] = code[c]
                            \/ code[c].status = "unused" /\ code'[c].status = "expired"
    OBVIOUS
  <2> QED
    BY <2>1, LedgerKept
<1>5. \A i \in Coupons : CouponOK(i)'
  BY DEF Inv, CouponOK
<1> QED
  BY <1>2, <1>3, <1>4, <1>5 DEF Inv, TypeOK

\* The clock, the two expiries and the till: only the till pays, and only once.
LEMMA CouponsKeep ==
    ASSUME Inv,
           \/ \E k \in Coupons : TimePasses(k) \/ Expire(k)
           \/ \E r \in Requests : VerifyWrite(r) \/ ConfirmWrite(r)
    PROVE  Inv'
<1> USE DEF Inv, TypeOK
<1>1. ASSUME NEW k \in Coupons, TimePasses(k) PROVE Inv'
  <2>1. coupon[k] \in CouponRow /\ coupon' = [coupon EXCEPT ![k].late = TRUE]
    BY <1>1 DEF TimePasses
  <2>2. /\ coupon' \in [Coupons -> CouponRow] /\ \A i \in Coupons \ {k} : coupon'[i] = coupon[i]
        /\ coupon'[k].status = coupon[k].status /\ coupon'[k].owner = coupon[k].owner
        /\ coupon'[k].paid = coupon[k].paid
    BY <2>1 DEF CouponRow
  <2>3. CouponOK(k)'
    BY <2>2 DEF CouponOK
  <2>4. PICK r : r \notin Requests
    BY NoSetContainsEverything
  <2> QED
    BY <1>1, <2>2, <2>3, <2>4, CouponWriteKeeps DEF TimePasses
<1>2. ASSUME NEW k \in Coupons, Expire(k) PROVE Inv'
  <2>1. coupon[k] \in CouponRow /\ coupon' = [coupon EXCEPT ![k].status = "expired"]
    BY <1>2 DEF Expire
  <2>2. /\ coupon' \in [Coupons -> CouponRow] /\ \A i \in Coupons \ {k} : coupon'[i] = coupon[i]
        /\ coupon'[k].status = "expired" /\ coupon'[k].owner = coupon[k].owner
        /\ coupon'[k].paid = coupon[k].paid
    BY <2>1 DEF CouponRow
  <2>3. CouponOK(k)'
    BY <2>2 DEF CouponOK
  <2>4. PICK r : r \notin Requests
    BY NoSetContainsEverything
  <2> QED
    BY <1>2, <2>2, <2>3, <2>4, CouponWriteKeeps DEF Expire
<1>3. ASSUME NEW r \in Requests, VerifyWrite(r) PROVE Inv'
  <2> PICK k \in Coupons : k = req[r].coupon
    BY <1>3 DEF VerifyWrite, RequestOK
  <2>1. /\ coupon[k] \in CouponRow /\ coupon' = [coupon EXCEPT ![k].status = "expired"]
        /\ coupon[k].status # "none"
    BY <1>3 DEF VerifyWrite, RequestOK
  <2>2. /\ coupon' \in [Coupons -> CouponRow] /\ \A i \in Coupons \ {k} : coupon'[i] = coupon[i]
        /\ coupon'[k].status = "expired" /\ coupon'[k].owner = coupon[k].owner
        /\ coupon'[k].paid = coupon[k].paid
    BY <2>1 DEF CouponRow
  <2>3. CouponOK(k)'
    BY <2>1, <2>2 DEF CouponOK
  <2>4. /\ req'[r] = Idle /\ DOMAIN req' = Requests
        /\ \A q \in Requests \ {r} : req'[q] = req[q]
    BY <1>3 DEF VerifyWrite, Goes
  <2> QED
    BY <1>3, <2>2, <2>3, <2>4, CouponWriteKeeps DEF VerifyWrite
<1>4. ASSUME NEW r \in Requests, ConfirmWrite(r) PROVE Inv'
  <2> PICK k \in Coupons : k = req[r].coupon
    BY <1>4 DEF ConfirmWrite, RequestOK
  <2>1. /\ coupon[k] \in CouponRow /\ coupon[k].status = "available"
        /\ coupon' = [coupon EXCEPT ![k].status = "redeemed", ![k].paid = @ + 1]
    BY <1>4 DEF ConfirmWrite, Available
  <2>2. coupon[k].paid = 0 /\ coupon[k].paid + 1 \in Nat
    BY <2>1 DEF CouponOK
  <2>3. /\ coupon' \in [Coupons -> CouponRow] /\ \A i \in Coupons \ {k} : coupon'[i] = coupon[i]
        /\ coupon'[k].status = "redeemed" /\ coupon'[k].owner = coupon[k].owner
        /\ coupon'[k].paid = coupon[k].paid + 1
    BY <2>1, <2>2 DEF CouponRow
  <2>4. CouponOK(k)'
    BY <2>2, <2>3 DEF CouponOK
  <2>5. /\ req'[r] = Idle /\ DOMAIN req' = Requests
        /\ \A q \in Requests \ {r} : req'[q] = req[q]
    BY <1>4 DEF ConfirmWrite, Goes
  <2> QED
    BY <1>4, <2>3, <2>4, <2>5, CouponWriteKeeps DEF ConfirmWrite
<1> QED
  BY <1>1, <1>2, <1>3, <1>4

LEMMA VoidKeeps ==
    ASSUME Inv, NEW c \in Codes, Void(c)
    PROVE  Inv'
<1>1. /\ code[c].status = "unused" /\ code[c] \in CodeRow
      /\ code' = [code EXCEPT ![c].status = "expired"]
      /\ UNCHANGED <<ledger, coupon, rewards, sales, req>>
  BY DEF Void, Inv, TypeOK
<1>2. /\ code' \in [Codes -> CodeRow] /\ \A d \in Codes \ {c} : code'[d] = code[d]
      /\ code'[c].status = "expired"
  BY <1>1 DEF Inv, TypeOK, CodeRow
<1>3. \A r \in Requests : RequestOK(r)'
  BY <1>1 DEF Inv, RequestOK
<1>4. \A d \in Codes : CodeOK(d)'
  <2>1. \A d \in Codes : code[d].status = "used" => code'[d].status = "used"
    BY <1>1, <1>2
  <2>2. \A r, d : Replies(r, d)' <=> Replies(r, d)
    BY <1>1 DEF Replies
  <2> QED
    BY <1>1, <2>1, <2>2 DEF Inv, CodeOK
<1>5. ledger' \in [Members -> Seq(Entry')] /\ \A m \in Members : Chained(m)' /\ Explained(m)'
  <2>1. /\ UNCHANGED <<ledger, rewards>>
        /\ \A k \in Coupons : coupon'[k].owner = coupon[k].owner
        /\ \A d \in Codes : \/ code'[d] = code[d]
                            \/ code[d].status = "unused" /\ code'[d].status = "expired"
    BY <1>1, <1>2
  <2> QED
    BY <2>1, LedgerKept
<1>6. \A k \in Coupons : CouponOK(k)'
  BY <1>1 DEF Inv, CouponOK
<1> QED
  BY <1>1, <1>2, <1>3, <1>4, <1>5, <1>6 DEF Inv, TypeOK

\* A form is booked under the lock that found it unbooked.
LEMMA AdjustKeeps ==
    ASSUME Inv, NEW f \in Forms, Adjust(f)
    PROVE  Inv'
<1> PICK m \in Members, change \in Int : m = Member[f] /\ change = Change[f]
  BY MemberConstants
<1>1. Book(m, "manual", f, change, 0) /\ UNCHANGED <<code, coupon, rewards, sales, req>>
  BY DEF Adjust, Book, BalanceNow
<1>2. f \notin Rows(m, "manual")
  BY DEF Adjust, Adjusted, Rows
<1>3. TypeOK /\ Chained(m) /\ Documents' = Documents /\ f \in Documents
  BY <1>1 DEF Inv, Documents
<1>4. /\ ledger' \in [Members -> Seq(Entry')]
      /\ \A n \in Members \ {m} : ledger'[n] = ledger[n]
      /\ Chained(m)'
      /\ Rows(m, "manual")' = Rows(m, "manual") \cup {f}
      /\ \A t : t # "manual" => Rows(m, t)' = Rows(m, t)
  BY <1>1, <1>2, <1>3, BookKeeps DEF Sources
<1>5. ASSUME NEW n \in Members PROVE Chained(n)' /\ Explained(n)'
  <2>1. CASE n = m
    BY <1>1, <1>4, <2>1 DEF Inv, Explained
  <2>2. CASE n # m
    <3>1. \A t : Rows(n, t)' = Rows(n, t)
      BY <1>4, <2>2 DEF Rows
    <3>2. Chained(n) /\ Explained(n)
      BY DEF Inv
    <3>3. Chained(n)'
      BY <1>4, <2>2, <3>2 DEF Chained
    <3>4. Explained(n)'
      BY <1>1, <3>1, <3>2 DEF Explained
    <3> QED
      BY <3>3, <3>4
  <2> QED
    BY <2>1, <2>2
<1>6. \A r \in Requests : RequestOK(r)'
  BY <1>1 DEF Inv, RequestOK
<1>7. \A c \in Codes : CodeOK(c)'
  BY <1>1 DEF Inv, CodeOK, Replies
<1>8. \A k \in Coupons : CouponOK(k)'
  BY <1>1 DEF Inv, CouponOK
<1> QED
  BY <1>1, <1>4, <1>5, <1>6, <1>7, <1>8 DEF Inv, TypeOK

\* The points of a code and its use are one commit, and an unused code has no row.
LEMMA RedeemCommitKeeps ==
    ASSUME Inv, NEW r \in Requests, RedeemCommit(r)
    PROVE  Inv'
<1> PICK m \in Members, c \in Codes : m = req[r].member /\ c = req[r].code
  BY DEF RedeemCommit, Inv, RequestOK
<1>1. /\ code[c].status = "unused" /\ Book(m, "code", c, 1, 0)
      /\ code' = [code EXCEPT ![c] = [status |-> "used", by |-> m]]
      /\ UNCHANGED <<coupon, rewards, sales>>
      /\ req' = [req EXCEPT ![r] = [op |-> "reply", code |-> c]]
  BY DEF RedeemCommit, Unused, Book, BalanceNow, Goes
<1>2. /\ code' \in [Codes -> CodeRow] /\ code'[c] = [status |-> "used", by |-> m]
      /\ \A d \in Codes \ {c} : code'[d] = code[d]
      /\ DOMAIN req' = Requests /\ req'[r].op = "reply" /\ req'[r].code = c
      /\ \A q \in Requests \ {r} : req'[q] = req[q]
  BY <1>1 DEF Inv, TypeOK, CodeRow
<1>3. c \notin Rows(m, "code")
  BY <1>1 DEF Inv, Explained
<1>4. TypeOK /\ Chained(m) /\ Documents' = Documents /\ c \in Documents
  BY <1>1 DEF Inv, Documents
<1>5. /\ ledger' \in [Members -> Seq(Entry')]
      /\ \A n \in Members \ {m} : ledger'[n] = ledger[n]
      /\ Chained(m)'
      /\ Rows(m, "code")' = Rows(m, "code") \cup {c}
      /\ \A t : t # "code" => Rows(m, t)' = Rows(m, t)
  <2>1. "code" \in Sources /\ c \in Documents' /\ Documents \subseteq Documents'
    BY <1>4 DEF Sources
  <2> QED
    BY <1>1, <1>3, <1>4, <2>1, BookKeeps
<1>6. ASSUME NEW n \in Members PROVE Chained(n)' /\ Explained(n)'
  <2>1. CASE n = m
    <3>1. Rows(m, "code")' = {d \in Codes : code'[d] = [status |-> "used", by |-> m]}
      <4>1. Rows(m, "code") = {d \in Codes : code[d] = [status |-> "used", by |-> m]}
        BY DEF Inv, Explained
      <4> QED
        BY <1>2, <1>5, <4>1
    <3> QED
      BY <1>1, <1>5, <2>1, <3>1 DEF Inv, Explained
  <2>2. CASE n # m
    <3>1. \A t : Rows(n, t)' = Rows(n, t)
      BY <1>5, <2>2 DEF Rows
    <3>2. \A d \in Codes : code'[d] = [status |-> "used", by |-> n]
                              <=> code[d] = [status |-> "used", by |-> n]
      BY <1>1, <1>2, <2>2
    <3>3. Rows(n, "code")' = {d \in Codes : code'[d] = [status |-> "used", by |-> n]}
      <4>1. Rows(n, "code") = {d \in Codes : code[d] = [status |-> "used", by |-> n]}
        BY DEF Inv, Explained
      <4> QED
        BY <3>1, <3>2, <4>1
    <3>4. Chained(n)'
      BY <1>5, <2>2 DEF Inv, Chained
    <3> QED
      BY <1>1, <3>1, <3>3, <3>4 DEF Inv, Explained
  <2> QED
    BY <2>1, <2>2
<1>7. \A q \in Requests : RequestOK(q)'
  <2>1. RequestOK(r)'
    BY <1>2 DEF RequestOK
  <2> QED
    BY <1>1, <1>2, <2>1, RequestsKept
<1>8. ASSUME NEW d \in Codes PROVE CodeOK(d)'
  <2>1. CodeOK(d)
    BY DEF Inv
  <2>2. \A q \in Requests \ {r} : Replies(q, d)' <=> Replies(q, d)
    BY <1>2 DEF Replies
  <2>3. CASE d = c
    <3>1. (\A q \in Requests : ~Replies(q, c)) /\ (\A s \in sales : s.code # c)
      BY <1>1, <2>1, <2>3 DEF CodeOK
    <3> QED
      BY <1>1, <1>2, <2>2, <2>3, <3>1 DEF CodeOK
  <2>4. CASE d # c
    <3>1. ~Replies(r, d)'
      BY <1>2, <2>4 DEF Replies
    <3> QED
      BY <1>1, <1>2, <2>1, <2>2, <2>4, <3>1 DEF CodeOK
  <2> QED
    BY <2>3, <2>4
<1>9. \A k \in Coupons : CouponOK(k)'
  BY <1>1 DEF Inv, CouponOK
<1> QED
  BY <1>2, <1>4, <1>5, <1>6, <1>7, <1>8, <1>9, <1>1 DEF Inv, TypeOK

\* The points of a coupon and the coupon are one commit.
LEMMA CouponCommitKeeps ==
    ASSUME Inv, NEW r \in Requests, NEW k \in Coupons, CouponCommit(r, k)
    PROVE  Inv'
<1> PICK m \in Members : m = req[r].member
  BY DEF CouponCommit, Inv, RequestOK
<1> PICK change \in Int : change = -CouponPoints
  BY MemberConstants
<1>1. /\ coupon[k].status = "none" /\ Book(m, "coupon", k, change, 0)
      /\ coupon' = [coupon EXCEPT ![k] = [NoCoupon EXCEPT !.status = "available", !.owner = m]]
      /\ UNCHANGED <<code, rewards, sales>>
      /\ req' = [req EXCEPT ![r] = Idle]
  BY DEF CouponCommit, Book, BalanceNow, Goes
<1>2. /\ coupon' \in [Coupons -> CouponRow]
      /\ coupon'[k].status = "available" /\ coupon'[k].owner = m /\ coupon'[k].paid = 0
      /\ \A i \in Coupons \ {k} : coupon'[i] = coupon[i]
      /\ DOMAIN req' = Requests /\ req'[r] = Idle
      /\ \A q \in Requests \ {r} : req'[q] = req[q]
  BY <1>1 DEF Inv, TypeOK, CouponRow, NoCoupon
<1>3. k \notin Rows(m, "coupon") /\ coupon[k].owner = None
  BY <1>1, MemberConstants DEF Inv, Explained, CouponOK
<1>4. TypeOK /\ Chained(m) /\ Documents' = Documents /\ k \in Documents
  BY <1>1 DEF Inv, Documents
<1>5. /\ ledger' \in [Members -> Seq(Entry')]
      /\ \A n \in Members \ {m} : ledger'[n] = ledger[n]
      /\ Chained(m)'
      /\ Rows(m, "coupon")' = Rows(m, "coupon") \cup {k}
      /\ \A t : t # "coupon" => Rows(m, t)' = Rows(m, t)
  <2>1. "coupon" \in Sources /\ k \in Documents' /\ Documents \subseteq Documents'
    BY <1>4 DEF Sources
  <2> QED
    BY <1>1, <1>3, <1>4, <2>1, BookKeeps
<1>6. ASSUME NEW n \in Members PROVE Chained(n)' /\ Explained(n)'
  <2>1. Chained(n) /\ Explained(n)
    BY DEF Inv
  <2>2. CASE n = m
    <3>1. Rows(m, "coupon")' = {i \in Coupons : coupon'[i].owner = m}
      BY <1>2, <1>5, <2>1, <2>2 DEF Explained
    <3> QED
      BY <1>1, <1>5, <2>1, <2>2, <3>1 DEF Explained
  <2>3. CASE n # m
    <3>1. \A t : Rows(n, t)' = Rows(n, t)
      BY <1>5, <2>3 DEF Rows
    <3>2. \A i \in Coupons : coupon'[i].owner = n <=> coupon[i].owner = n
      BY <1>2, <1>3, <2>3, MemberConstants
    <3>3. Rows(n, "coupon")' = {i \in Coupons : coupon'[i].owner = n}
      BY <2>1, <3>1, <3>2 DEF Explained
    <3>4. Chained(n)'
      BY <1>5, <2>1, <2>3 DEF Chained
    <3> QED
      BY <1>1, <2>1, <3>1, <3>3, <3>4 DEF Explained
  <2> QED
    BY <2>2, <2>3
<1>7. \A q \in Requests : RequestOK(q)'
  <2>1. RequestOK(r)'
    BY <1>2 DEF RequestOK, Idle
  <2>2. \A i \in Coupons : coupon[i].status # "none" => coupon'[i].status # "none"
    BY <1>2
  <2> QED
    BY <1>2, <2>1, <2>2, RequestsKept
<1>8. \A c \in Codes : CodeOK(c)'
  <2>1. req'[r].op \notin {"reply", "sale"}
    BY <1>2 DEF Idle
  <2>2. UNCHANGED sales /\ (\A c \in Codes : code[c].status = "used" => code'[c].status = "used")
    BY <1>1
  <2> QED
    BY <1>2, <2>1, <2>2, CodesKept
<1>9. \A i \in Coupons : CouponOK(i)'
  BY <1>2 DEF Inv, CouponOK
<1> QED
  BY <1>1, <1>2, <1>5, <1>6, <1>7, <1>8, <1>9 DEF Inv, TypeOK

\* A redemption commits with the number that is still free.
LEMMA RewardCommitKeeps ==
    ASSUME Inv, NEW r \in Requests, RewardCommit(r)
    PROVE  Inv'
<1> PICK m \in Members : m = req[r].member
  BY DEF RewardCommit, Inv, RequestOK
<1> PICK number : number = req[r].number
  OBVIOUS
<1> PICK change \in Int : change = -RewardPoints
  BY MemberConstants
<1> PICK new : new = [number |-> number, member |-> m]
  OBVIOUS
<1>1. /\ \A x \in rewards : x.number # number
      /\ rewards' = rewards \cup {new} /\ new.number = number /\ new.member = m
      /\ Book(m, "reward", number, change, 0)
      /\ UNCHANGED <<code, coupon, sales>>
      /\ req' = [req EXCEPT ![r] = Idle]
  BY DEF RewardCommit, Book, BalanceNow, Goes
<1>2. /\ DOMAIN req' = Requests /\ req'[r] = Idle
      /\ \A q \in Requests \ {r} : req'[q] = req[q]
  BY <1>1 DEF Inv, TypeOK
<1>3. number \notin Rows(m, "reward")
  <2>1. Rows(m, "reward") = {x.number : x \in {y \in rewards : y.member = m}}
    BY DEF Inv, Explained
  <2> QED
    BY <1>1, <2>1
<1>4. TypeOK /\ Chained(m) /\ Documents \subseteq Documents' /\ number \in Documents'
  <2>1. {x.number : x \in rewards'} = {x.number : x \in rewards} \cup {number}
    BY <1>1
  <2> QED
    BY <2>1 DEF Inv, Documents
<1>5. /\ ledger' \in [Members -> Seq(Entry')]
      /\ \A n \in Members \ {m} : ledger'[n] = ledger[n]
      /\ Chained(m)'
      /\ Rows(m, "reward")' = Rows(m, "reward") \cup {number}
      /\ \A t : t # "reward" => Rows(m, t)' = Rows(m, t)
  <2>1. "reward" \in Sources
    BY DEF Sources
  <2> QED
    BY <1>1, <1>3, <1>4, <2>1, BookKeeps
<1>6. ASSUME NEW n \in Members PROVE Chained(n)' /\ Explained(n)'
  <2>1. Chained(n) /\ Explained(n)
    BY DEF Inv
  <2>2. CASE n = m
    <3>1. {y \in rewards' : y.member = m}
            = {y \in rewards : y.member = m} \cup {new}
      BY <1>1
    <3>2. {x.number : x \in {y \in rewards' : y.member = m}}
            = {x.number : x \in {y \in rewards : y.member = m}} \cup {number}
      BY <1>1, <3>1
    <3>3. Rows(m, "reward")' = {x.number : x \in {y \in rewards' : y.member = m}}
      BY <1>5, <2>1, <2>2, <3>2 DEF Explained
    <3> QED
      BY <1>1, <1>5, <2>1, <2>2, <3>3 DEF Explained
  <2>3. CASE n # m
    <3>1. \A t : Rows(n, t)' = Rows(n, t)
      BY <1>5, <2>3 DEF Rows
    <3>2. {y \in rewards' : y.member = n} = {y \in rewards : y.member = n}
      BY <1>1, <2>3
    <3>3. Rows(n, "reward")' = {x.number : x \in {y \in rewards' : y.member = n}}
      BY <2>1, <3>1, <3>2 DEF Explained
    <3>4. Chained(n)'
      BY <1>5, <2>1, <2>3 DEF Chained
    <3> QED
      BY <1>1, <2>1, <3>1, <3>3, <3>4 DEF Explained
  <2> QED
    BY <2>2, <2>3
<1>7. \A q \in Requests : RequestOK(q)'
  <2>1. RequestOK(r)'
    BY <1>2 DEF RequestOK, Idle
  <2> QED
    BY <1>1, <1>2, <2>1, RequestsKept
<1>8. \A c \in Codes : CodeOK(c)'
  <2>1. req'[r].op \notin {"reply", "sale"}
    BY <1>2 DEF Idle
  <2>2. UNCHANGED sales /\ (\A c \in Codes : code[c].status = "used" => code'[c].status = "used")
    BY <1>1
  <2> QED
    BY <1>2, <2>1, <2>2, CodesKept
<1>9. \A k \in Coupons : CouponOK(k)'
  BY <1>1 DEF Inv, CouponOK
<1> QED
  BY <1>1, <1>2, <1>5, <1>6, <1>7, <1>8, <1>9 DEF Inv, TypeOK

\* The request that replied for a code looks for its sale, and makes it if the
\* number is still free.
LEMMA SaleKeeps ==
    ASSUME Inv, NEW r \in Requests, SaleRead(r) \/ SaleWrite(r)
    PROVE  Inv'
<1> PICK c \in Codes : c = req[r].code
  BY DEF SaleRead, SaleWrite, Inv, RequestOK
<1>1. Replies(r, c) /\ UNCHANGED <<code, ledger, coupon, rewards>>
  BY DEF SaleRead, SaleWrite, Replies
<1>2. ledger' \in [Members -> Seq(Entry')] /\ \A m \in Members : Chained(m)' /\ Explained(m)'
  <2>1. /\ UNCHANGED <<ledger, rewards>>
        /\ \A k \in Coupons : coupon'[k].owner = coupon[k].owner
        /\ \A d \in Codes : \/ code'[d] = code[d]
                            \/ code[d].status = "unused" /\ code'[d].status = "expired"
    BY <1>1
  <2> QED
    BY <2>1, LedgerKept
<1>3. \A k \in Coupons : CouponOK(k)'
  BY <1>1 DEF Inv, CouponOK
<1>4. /\ code[c].status = "used"
      /\ \A q \in Requests : Replies(q, c) => q = r
  BY <1>1 DEF Inv, CodeOK
<1>5. CASE SaleRead(r)
  <2>1. /\ UNCHANGED sales /\ (\A s \in sales : s.code # c)
        /\ DOMAIN req' = Requests /\ req'[r].op = "sale" /\ req'[r].code = c
        /\ \A q \in Requests \ {r} : req'[q] = req[q]
    BY <1>5 DEF SaleRead, Goes, Inv, TypeOK
  <2>2. \A q \in Requests : RequestOK(q)'
    <3>1. RequestOK(r)'
      BY <2>1 DEF RequestOK
    <3> QED
      BY <1>1, <2>1, <3>1, RequestsKept
  <2>3. ASSUME NEW d \in Codes PROVE CodeOK(d)'
    <3>1. CodeOK(d) /\ (\A q \in Requests : Replies(q, d)' <=> Replies(q, d))
      BY <1>1, <2>1 DEF Inv, Replies
    <3>2. \A q \in Requests : Replies(q, d)' /\ req'[q].op = "sale" => \A s \in sales : s.code # d
      BY <2>1, <3>1 DEF CodeOK, Replies
    <3> QED
      BY <1>1, <2>1, <3>1, <3>2 DEF CodeOK
  <2> QED
    BY <1>1, <1>2, <1>3, <2>1, <2>2, <2>3 DEF Inv, TypeOK
<1>6. CASE SaleWrite(r)
  <2> PICK number : number = req[r].number
    OBVIOUS
  <2>1. /\ sales' = sales \cup {[code |-> c, number |-> number]}
        /\ req[r].op = "sale" /\ DOMAIN req' = Requests /\ req'[r] = Idle
        /\ \A q \in Requests \ {r} : req'[q] = req[q]
    BY <1>6 DEF SaleWrite, Goes, Inv, TypeOK
  <2>2. \A q \in Requests : RequestOK(q)'
    <3>1. RequestOK(r)'
      BY <2>1 DEF RequestOK, Idle
    <3> QED
      BY <1>1, <2>1, <3>1, RequestsKept
  <2>3. ASSUME NEW d \in Codes PROVE CodeOK(d)'
    <3>1. CodeOK(d)
      BY DEF Inv
    <3>2. \A q \in Requests : Replies(q, d)' => q # r /\ Replies(q, d) /\ req'[q] = req[q]
      BY <2>1 DEF Replies, Idle
    <3>3. CASE d = c
      <4>1. (\A s \in sales : s.code # c) /\ (\A q \in Requests : ~Replies(q, c)')
        BY <1>1, <1>4, <2>1, <3>1, <3>2, <3>3 DEF CodeOK
      <4> QED
        BY <1>1, <1>4, <2>1, <3>3, <4>1 DEF CodeOK
    <3>4. CASE d # c
      <4>1. \A s \in sales' : s.code = d => s \in sales
        BY <2>1, <3>4
      <4> QED
        BY <1>1, <3>1, <3>2, <4>1 DEF CodeOK
    <3> QED
      BY <3>3, <3>4
  <2> QED
    BY <1>1, <1>2, <1>3, <2>1, <2>2, <2>3 DEF Inv, TypeOK
<1> QED
  BY <1>5, <1>6

-----------------------------------------------------------------------------
(* The theorems. *)

LEMMA InvInit == Init => Inv
<1> SUFFICES ASSUME Init PROVE Inv
  OBVIOUS
<1>1. TypeOK
  <2>1. \A m \in Members : ledger[m] = <<>> /\ ledger[m] \in Seq(Entry)
    BY EmptySeq DEF Init
  <2> QED
    BY <2>1 DEF Init, TypeOK, CodeRow, CouponRow, NoCoupon
<1>2. \A r \in Requests : RequestOK(r) /\ (\A c : ~Replies(r, c))
  BY DEF Init, RequestOK, Replies, Idle
<1>3. ASSUME NEW m \in Members PROVE Chained(m) /\ Explained(m)
  <2>1. ledger[m] = <<>> /\ DOMAIN ledger[m] = {}
    BY DEF Init
  <2>2. Chained(m)
    BY <2>1 DEF Chained, Chain
  <2>3. \A t : Rows(m, t) = {}
    BY <2>1 DEF Rows
  <2>4. \A k \in Coupons : coupon[k].owner # m
    BY MemberConstants DEF Init, NoCoupon
  <2>5. \A c \in Codes : code[c] # [status |-> "used", by |-> m]
    BY DEF Init
  <2>6. Explained(m)
    BY <2>3, <2>4, <2>5 DEF Init, Explained
  <2> QED
    BY <2>2, <2>6
<1>4. \A c \in Codes : CodeOK(c)
  BY <1>2 DEF Init, CodeOK
<1>5. \A k \in Coupons : CouponOK(k)
  BY DEF Init, CouponOK, NoCoupon
<1> QED
  BY <1>1, <1>2, <1>3, <1>4, <1>5 DEF Inv

LEMMA InvStep == Inv /\ [Next]_vars => Inv'
<1> SUFFICES ASSUME Inv, [Next]_vars PROVE Inv'
  OBVIOUS
<1>1. ASSUME NEW f \in Forms, Adjust(f) PROVE Inv'
  BY <1>1, AdjustKeeps
<1>2. ASSUME NEW c \in Codes, Void(c) PROVE Inv'
  BY <1>2, VoidKeeps
<1>3. ASSUME NEW k \in Coupons, TimePasses(k) \/ Expire(k) PROVE Inv'
  BY <1>3, CouponsKeep
<1>4. ASSUME NEW r \in Requests, VerifyWrite(r) \/ ConfirmWrite(r) PROVE Inv'
  BY <1>4, CouponsKeep
<1>5. ASSUME NEW r \in Requests, NEW k \in Coupons, CouponCommit(r, k) PROVE Inv'
  BY <1>5, CouponCommitKeeps
<1>6. ASSUME NEW r \in Requests,
             RedeemCommit(r) \/ RewardCommit(r) \/ SaleRead(r) \/ SaleWrite(r)
      PROVE  Inv'
  BY <1>6, RedeemCommitKeeps, RewardCommitKeeps, SaleKeeps
<1>7. ASSUME NEW r \in Requests,
             \/ GiveUp(r)
             \/ \E m \in Members : \/ CouponRead(r, m) \/ RewardRead(r, m)
                                   \/ \E c \in Codes : RedeemRead(r, m, c)
             \/ \E k \in Coupons : VerifyRead(r, k) \/ ConfirmRead(r, k)
      PROVE  Inv'
  BY <1>7, ReadsKeep
<1>8. CASE UNCHANGED vars
  <2>1. ledger' \in [Members -> Seq(Entry')] /\ \A m \in Members : Chained(m)' /\ Explained(m)'
    <3>1. /\ UNCHANGED <<ledger, rewards>>
          /\ \A k \in Coupons : coupon'[k].owner = coupon[k].owner
          /\ \A d \in Codes : \/ code'[d] = code[d]
                              \/ code[d].status = "unused" /\ code'[d].status = "expired"
      BY <1>8 DEF vars
    <3> QED
      BY <3>1, LedgerKept
  <2>2. /\ \A r \in Requests : RequestOK(r)'
        /\ \A c \in Codes : CodeOK(c)'
        /\ \A k \in Coupons : CouponOK(k)'
    BY <1>8 DEF vars, Inv, RequestOK, CodeOK, Replies, CouponOK
  <2> QED
    BY <1>8, <2>1, <2>2 DEF vars, Inv, TypeOK
<1> QED
  BY <1>1, <1>2, <1>3, <1>4, <1>5, <1>6, <1>7, <1>8 DEF Next

LEMMA AlwaysInv == Spec => []Inv
BY InvInit, InvStep, PTL DEF Spec

\* Every member's ledger adds up and never below zero, and its rows are his coupons
\* and rewards, each once, whatever forms are sent twice and requests race.
THEOREM LedgerAlwaysAddsUp == Spec => []LedgerAddsUp
<1>1. Inv => LedgerAddsUp
  BY DEF Inv, LedgerAddsUp, Chained, Chain, Explained
<1> QED
  BY <1>1, AlwaysInv, PTL

\* A code gives points to the one member it names and makes one sale at most.
THEOREM ReturnsCountOnce == Spec => []ReturnCountsOnce
<1>1. Inv => ReturnCountsOnce
  <2> SUFFICES ASSUME Inv, NEW c \in Codes
               PROVE  /\ \A m \in Members :
                           c \in Rows(m, "code") <=> code[c] = [status |-> "used", by |-> m]
                      /\ \A s, t \in sales :
                           s.code = c /\ t.code = c => s = t /\ code[c].status = "used"
    BY DEF ReturnCountsOnce
  <2>1. \A m \in Members : Explained(m)
    BY DEF Inv
  <2>2. CodeOK(c)
    BY DEF Inv
  <2> QED
    BY <2>1, <2>2 DEF Explained, CodeOK
<1> QED
  BY <1>1, AlwaysInv, PTL

\* A store is owed for a coupon once, however many tills and expiries write it.
THEOREM CouponsPaidOnce == Spec => []CouponPaidOnce
<1>1. Inv => CouponPaidOnce
  BY DEF Inv, CouponOK, CouponPaidOnce
<1> QED
  BY <1>1, AlwaysInv, PTL

-----------------------------------------------------------------------------
(***************************************************************************)
(* The two-piece campaign.  Only a few facts about an application are ever  *)
(* established, and none of them is undone: a field is filled, the licence  *)
(* was accepted, a transfer was seen, a parcel was queued or cancelled.     *)
(* What a request has still to write presumes some of these facts: it may   *)
(* be late, but never wrong.                                                *)
(***************************************************************************)
Steps == {"none", "product", "brief", "name", "phone", "store", "pick", "upsell", "transfer",
          "ig", "pet", "licence", "confirm", "review", "awaiting", "ready", "cancelled"}
Statuses == {"none", "collecting", "pending", "awaiting", "ready", "rejected", "cancelled"}
Placed == {"none", "draft", "pending_review", "awaiting", "confirmed", "shipped", "cancelled"}
Notes == {"upsell", "declared"}
Patches == {[status |-> "pending"], [status |-> "cancelled"], [status |-> "rejected"],
            [status |-> "collecting"], [status |-> "cancelled", agreed |-> FALSE],
            [agreed |-> TRUE], [status |-> "ready", pay |-> "paid"]}
Writes ==
    [do : {"enrol", "open", "same", "look", "create"}]
    \cup [do : {"fill"}, field : Asked] \cup [do : {"set"}, patch : Patches]
    \cup [do : {"put"}, order : Placed]
    \cup [do : {"peek"}, step : Steps, add : SUBSET Notes]
    \cup [do : {"move"}, step : Steps, notes : SUBSET Notes]
    \cup [do : {"brief", "upsell"}, has : SUBSET Asked]
    \cup [do : {"declare"}, step : Steps]
    \cup [do : {"commit"}, step : Steps, status : Statuses, notes : SUBSET Notes]
    \cup [do : {"approve"}, status : Statuses, declared : BOOLEAN]
    \cup [do : {"repair"}, status : Approved] \cup [do : {"ship"}, parcel : Nat]

AppRow == [status : Statuses, pay : {"unpaid", "declared", "paid"}, filled : SUBSET Asked, agreed : BOOLEAN]
TalkRow == [open : BOOLEAN, step : Steps, taken : BOOLEAN, notes : SUBSET Notes]
Parcels == Seq({"pending", "shipped", "cancelled"})

\* The facts that a step of the conversation, and a write, presume.
AfterIg == {"pet", "licence", "confirm"}
AfterStore == {"upsell", "transfer", "ig"} \cup AfterIg
AfterPhone == {"store", "pick"} \cup AfterStore
AfterName == {"phone"} \cup AfterPhone
Before(step) ==
    {f \in Asked : \/ f = "name" /\ step \in AfterName
                   \/ f = "phone" /\ step \in AfterPhone
                   \/ f = "store" /\ step \in AfterStore
                   \/ f = "ig" /\ step \in AfterIg}
Whole == Asked \cup {"agreed"}
Presumed(s) ==
    CASE s.do \in {"peek", "move", "declare"} -> Before(s.step)
      [] s.do = "commit" ->
            Before(s.step) \cup (IF s.status = "awaiting" THEN Whole ELSE {})
      [] s.do \in {"brief", "upsell"} -> s.has
      [] s.do = "set" -> (IF s.patch = [status |-> "pending"] THEN Whole ELSE {})
            \cup (IF s.patch = [status |-> "ready", pay |-> "paid"] THEN Whole \cup {"kept"} ELSE {})
      [] s.do \in {"approve", "repair"} -> Whole
      [] s.do = "look" -> {"kept"}
      [] s.do = "create" -> {"recalled"}
      [] s.do = "ship" -> {"verified"}
      [] OTHER -> {}
Gives(s) == IF s.do = "fill" THEN {s.field} ELSE {}

\* A list of writes that may begin once these facts are known.
Follows(todo, facts) ==
    /\ todo \in Seq(Writes)
    /\ \A i \in DOMAIN todo : todo[i].do \notin {"fill", "enrol"} /\ Presumed(todo[i]) \subseteq facts
Sound(todo, facts) ==
    /\ todo \in Seq(Writes)
    /\ todo # <<>> => /\ Head(todo).do # "enrol"
                      /\ Presumed(Head(todo)) \subseteq facts
                      /\ Follows(Tail(todo), facts \cup Gives(Head(todo)))
Enrolment == <<[do |-> "enrol"], [do |-> "open"], Goto("product")>>

Facts(a) ==
    app[a].filled \cup {f \in {"agreed", "verified", "kept", "recalled"} :
        \/ f = "agreed" /\ a \in agreedOnce
        \/ f = "verified" /\ a \in verified
        \/ f = "kept" /\ (a \in recalled \/ parcels[a] # <<>>)
        \/ f = "recalled" /\ a \in recalled}

RowTypes ==
    /\ app \in [Apps -> AppRow] /\ talk \in [Apps -> TalkRow]
    /\ order \in [Apps -> Placed] /\ parcels \in [Apps -> Parcels]
TaskTypes == DOMAIN task = Workers /\ \A r \in Workers : DOMAIN task[r] = {"app", "todo"}
Complete(a) == app[a].filled = Asked /\ a \in agreedOnce
Kept(a) == a \in recalled \/ parcels[a] # <<>>
RowSound(a) ==
    /\ app[a].agreed => a \in agreedOnce
    /\ app[a].pay = "paid" => a \in verified
    /\ app[a].status \in {"pending"} \cup Approved => Complete(a)
    /\ a \in submitted => Complete(a)
    /\ app[a].status \in Approved => Kept(a)
    /\ Before(talk[a].step) \subseteq app[a].filled
ParcelsSound(a) ==
    /\ a \notin recalled => Len(parcels[a]) <= 1 /\ \A i \in DOMAIN parcels[a] : parcels[a][i] # "cancelled"
    /\ \A i \in DOMAIN parcels[a] : parcels[a][i] = "shipped" => a \in verified
RowsSound == RowTypes /\ \A a \in Apps : RowSound(a) /\ ParcelsSound(a)
TaskSound(r) ==
    \/ task[r].todo \in {<<>>, Enrolment}
    \/ task[r].app \in Apps /\ Sound(task[r].todo, Facts(task[r].app))
TasksSound == TaskTypes /\ \A r \in Workers : TaskSound(r)
CampaignSound == RowsSound /\ TasksSound

Grows == \A a \in Apps : Facts(a) \subseteq Facts(a)'

LEMMA Turn1 ==
    ASSUME NEW step \in Steps, NEW add \in SUBSET Notes
    PROVE  /\ Turn(step, add) \in Writes /\ Turn(step, add).do = "peek"
           /\ Presumed(Turn(step, add)) = Before(step)
BY DEF Turn, Writes, Presumed

LEMMA Goto1 ==
    ASSUME NEW step \in Steps
    PROVE  Goto(step) \in Writes /\ Goto(step).do = "peek" /\ Presumed(Goto(step)) = Before(step)
BY Turn1 DEF Goto

LEMMA BeforeIs ==
    /\ \A step : step \notin AfterName => Before(step) = {}
    /\ Before("phone") = {"name"}
    /\ \A step \in {"store", "pick"} : Before(step) = {"name", "phone"}
    /\ \A step \in {"upsell", "transfer", "ig"} : Before(step) = {"name", "phone", "store"}
    /\ \A step \in AfterIg : Before(step) = Asked
    /\ {"none", "product", "brief", "name", "review", "awaiting", "ready", "cancelled"}
          \cap AfterName = {}
    /\ {"none", "product", "brief", "name", "review", "awaiting", "ready", "cancelled"}
          \cup AfterName \subseteq Steps
    /\ AfterName = {"phone", "store", "pick", "upsell", "transfer", "ig", "pet", "licence", "confirm"}
<1> USE DEF Before, AfterName, AfterPhone, AfterStore, AfterIg, Asked
<1>1. \A step : step \notin AfterName => Before(step) = {} OBVIOUS
<1>2. Before("phone") = {"name"} OBVIOUS
<1>3. \A step \in {"store", "pick"} : Before(step) = {"name", "phone"} OBVIOUS
<1>4. \A step \in {"upsell", "transfer", "ig"} : Before(step) = {"name", "phone", "store"} OBVIOUS
<1>5. \A step \in AfterIg : Before(step) = Asked OBVIOUS
<1>6. {"none", "product", "brief", "name", "review", "awaiting", "ready", "cancelled"}
          \cap AfterName = {}
  OBVIOUS
<1>7. {"none", "product", "brief", "name", "review", "awaiting", "ready", "cancelled"}
          \cup AfterName \subseteq Steps
  BY DEF Steps
<1>8. AfterName = {"phone", "store", "pick", "upsell", "transfer", "ig", "pet", "licence", "confirm"}
  OBVIOUS
<1> QED BY <1>1, <1>2, <1>3, <1>4, <1>5, <1>6, <1>7, <1>8

LEMMA PatchesDiffer ==
    /\ {[status |-> "pending"], [status |-> "cancelled"], [status |-> "rejected"],
        [status |-> "collecting"], [status |-> "cancelled", agreed |-> FALSE],
        [agreed |-> TRUE], [status |-> "ready", pay |-> "paid"]} \subseteq Patches
    /\ \A patch \in {[status |-> "cancelled"], [status |-> "rejected"], [status |-> "collecting"],
                     [status |-> "cancelled", agreed |-> FALSE], [agreed |-> TRUE]} :
          patch # [status |-> "pending"] /\ patch # [status |-> "ready", pay |-> "paid"]
    /\ [status |-> "pending"] # [status |-> "ready", pay |-> "paid"]
<1>1. \A patch : patch = [agreed |-> TRUE] => "status" \notin DOMAIN patch OBVIOUS
<1>2. \A patch : patch \in {[status |-> "pending"], [status |-> "ready", pay |-> "paid"]}
         => "status" \in DOMAIN patch /\ patch.status \in {"pending", "ready"}
  OBVIOUS
<1>3. \A patch : patch \in {[status |-> "cancelled"], [status |-> "rejected"],
         [status |-> "collecting"], [status |-> "cancelled", agreed |-> FALSE]}
         => patch.status \notin {"pending", "ready"}
  OBVIOUS
<1>4. [status |-> "pending"].status # [status |-> "ready", pay |-> "paid"].status OBVIOUS
<1> QED BY <1>1, <1>2, <1>3, <1>4 DEF Patches

LEMMA Set1 ==
    ASSUME NEW patch \in Patches
    PROVE  /\ Set(patch) \in Writes /\ Set(patch).do = "set" /\ Set(patch).patch = patch
           /\ Presumed(Set(patch)) \subseteq Whole \cup {"kept"}
           /\ patch # [status |-> "ready", pay |-> "paid"] => Presumed(Set(patch)) \subseteq Whole
           /\ patch # [status |-> "pending"] /\ patch # [status |-> "ready", pay |-> "paid"]
                 => Presumed(Set(patch)) = {}
BY DEF Set, Writes, Presumed

LEMMA Put1 ==
    ASSUME NEW o \in Placed
    PROVE  Put(o) \in Writes /\ Put(o).do = "put" /\ Presumed(Put(o)) = {}
BY DEF Put, Writes, Presumed

LEMMA Queue1 == Queue \in Writes /\ Queue.do = "look" /\ Presumed(Queue) = {"kept"}
BY DEF Queue, Writes, Presumed

LEMMA Fill1 ==
    ASSUME NEW f \in Asked
    PROVE  Fill(f) \in Writes /\ Fill(f).do = "fill" /\ Presumed(Fill(f)) = {} /\ Gives(Fill(f)) = {f}
BY DEF Fill, Writes, Presumed, Gives

\* Lists of writes.
Link(s, facts) == s \in Writes /\ s.do \notin {"fill", "enrol"} /\ Presumed(s) \subseteq facts

LEMMA Follows0 == ASSUME NEW facts PROVE Follows(<<>>, facts)
BY DEF Follows

LEMMA FollowsCons ==
    ASSUME NEW s, NEW facts, NEW rest, Link(s, facts), Follows(rest, facts)
    PROVE  Follows(<<s>> \o rest, facts)
BY DEF Link, Follows

LEMMA FollowsConcat ==
    ASSUME NEW x, NEW y, NEW facts, Follows(x, facts), Follows(y, facts)
    PROVE  Follows(x \o y, facts)
BY DEF Follows

LEMMA Follows1 == ASSUME NEW s, NEW facts, Link(s, facts) PROVE Follows(<<s>>, facts)
BY DEF Link, Follows

LEMMA Follows2 ==
    ASSUME NEW s, NEW t, NEW facts, Link(s, facts), Link(t, facts)
    PROVE  Follows(<<s, t>>, facts)
BY DEF Link, Follows

LEMMA Follows3 ==
    ASSUME NEW s, NEW t, NEW u, NEW facts, Link(s, facts), Link(t, facts), Link(u, facts)
    PROVE  Follows(<<s, t, u>>, facts)
BY DEF Link, Follows

LEMMA Follows4 ==
    ASSUME NEW s, NEW t, NEW u, NEW v, NEW facts,
           Link(s, facts), Link(t, facts), Link(u, facts), Link(v, facts)
    PROVE  Follows(<<s, t, u, v>>, facts)
BY DEF Link, Follows

LEMMA FollowsTail ==
    ASSUME NEW todo, NEW facts, Follows(todo, facts), todo # <<>>
    PROVE  /\ Follows(Tail(todo), facts) /\ Link(Head(todo), facts)
BY DEF Link, Follows

LEMMA FollowsSound ==
    ASSUME NEW todo, NEW facts, Follows(todo, facts) PROVE Sound(todo, facts)
<1>1. todo \in Seq(Writes) BY DEF Follows
<1>2. CASE todo = <<>> BY <1>1, <1>2 DEF Sound
<1>3. CASE todo # <<>>
  <2>1. Follows(Tail(todo), facts) /\ Link(Head(todo), facts) BY <1>3, FollowsTail
  <2>2. Gives(Head(todo)) = {} BY <2>1 DEF Gives, Link
  <2>3. facts \cup Gives(Head(todo)) = facts BY <2>2
  <2> QED BY <1>1, <2>1, <2>3 DEF Sound, Link
<1> QED BY <1>2, <1>3

LEMMA FillSound ==
    ASSUME NEW f \in Asked, NEW step \in Steps, NEW facts, Before(step) \subseteq facts \cup {f}
    PROVE  Sound(<<Fill(f), Goto(step)>>, facts)
<1>1. Follows(<<Goto(step)>>, facts \cup {f})
  BY Goto1, Follows1 DEF Link
<1>2. Fill(f) \in Writes /\ Goto(step) \in Writes BY Goto1, Fill1
<1>3. ASSUME NEW s \in Writes, NEW t \in Writes
      PROVE  <<s, t>> \in Seq(Writes) /\ Head(<<s, t>>) = s /\ Tail(<<s, t>>) = <<t>>
  OBVIOUS
<1>4. /\ <<Fill(f), Goto(step)>> \in Seq(Writes) /\ Head(<<Fill(f), Goto(step)>>) = Fill(f)
      /\ Tail(<<Fill(f), Goto(step)>>) = <<Goto(step)>>
  BY ONLY <1>2, <1>3
<1> QED BY <1>1, <1>4, Fill1 DEF Sound

LEMMA FollowsGrows ==
    ASSUME NEW todo, NEW facts, NEW more, facts \subseteq more, Follows(todo, facts)
    PROVE  Follows(todo, more)
BY DEF Follows

LEMMA SoundGrows ==
    ASSUME NEW todo, NEW facts, NEW more, facts \subseteq more, Sound(todo, facts)
    PROVE  Sound(todo, more)
<1>1. Follows(Tail(todo), facts \cup Gives(Head(todo)))
         => Follows(Tail(todo), more \cup Gives(Head(todo)))
  BY FollowsGrows
<1> QED BY <1>1 DEF Sound

LEMMA SoundTail ==
    ASSUME NEW todo, NEW facts, NEW more, NEW first, Sound(todo, facts), todo # <<>>,
           facts \cup Gives(Head(todo)) \subseteq more, Follows(first, more)
    PROVE  Sound(first \o Tail(todo), more)
<1>1. Follows(Tail(todo), more) BY FollowsGrows DEF Sound
<1> QED BY <1>1, FollowsConcat, FollowsSound

\* What a choice of the next step may find.
LEMMA FirstOf3 ==
    ASSUME NEW x, NEW y, NEW z, NEW has, NEW otherwise
    PROVE  \/ First(<<x, y, z>>, has, otherwise) = otherwise /\ {x, y, z} \subseteq has
           \/ First(<<x, y, z>>, has, otherwise) = x
           \/ First(<<x, y, z>>, has, otherwise) = y /\ x \in has
           \/ First(<<x, y, z>>, has, otherwise) = z /\ {x, y} \subseteq has
<1> DEFINE fields == <<x, y, z>>
           lacking == {i \in DOMAIN fields : fields[i] \notin has}
           least(i) == i \in lacking /\ \A j \in lacking : i <= j
<1>1. DOMAIN fields = 1..3 /\ fields[1] = x /\ fields[2] = y /\ fields[3] = z OBVIOUS
<1>2. First(fields, has, otherwise)
        = IF lacking = {} THEN otherwise ELSE fields[CHOOSE i \in lacking : \A j \in lacking : i <= j]
  BY DEF First
<1>3. CASE lacking = {}
  <2>1. {x, y, z} \subseteq has BY <1>1, <1>3
  <2> QED BY <2>1, <1>2, <1>3
<1>4. CASE lacking # {}
  <2>1. \E i \in lacking : \A j \in lacking : i <= j
    <3>1. CASE 1 \in lacking BY <3>1, <1>1
    <3>2. CASE 1 \notin lacking /\ 2 \in lacking BY <3>2, <1>1
    <3>3. CASE 1 \notin lacking /\ 2 \notin lacking
      <4>1. lacking = {3} BY <3>3, <1>1, <1>4
      <4> QED BY <4>1
    <3> QED BY <3>1, <3>2, <3>3
  <2>2. PICK i \in lacking : /\ i = CHOOSE k \in lacking : \A j \in lacking : k <= j
                             /\ \A j \in lacking : i <= j
    BY <2>1
  <2>3. First(fields, has, otherwise) = fields[i] BY <1>2, <1>4, <2>2
  <2>4. CASE i = 1 BY <2>3, <2>4, <1>1
  <2>5. CASE i = 2
    <3>1. 1 \notin lacking BY <2>2, <2>5
    <3> QED BY <3>1, <2>3, <2>5, <1>1
  <2>6. CASE i = 3
    <3>1. 1 \notin lacking /\ 2 \notin lacking BY <2>2, <2>6
    <3> QED BY <3>1, <2>3, <2>6, <1>1
  <2> QED BY <2>2, <2>4, <2>5, <2>6, <1>1
<1> QED BY <1>3, <1>4

LEMMA MissingGives ==
    ASSUME NEW facts, NEW has, has \cap Asked \subseteq facts
    PROVE  \/ Missing(has) = "none" /\ {"name", "phone", "store"} \subseteq facts
           \/ Missing(has) \in {"name", "phone", "store"} /\ Before(Missing(has)) \subseteq facts
BY FirstOf3 DEF Missing, Asked, Before, AfterName, AfterPhone, AfterStore, AfterIg

LEMMA TransferGives ==
    ASSUME NEW facts, NEW row, NEW pet \in {{}, {"pet"}}, row.filled \cap Asked \subseteq facts,
           {"name", "phone", "store"} \subseteq facts
    PROVE  AfterTransfer(row, pet) \in Steps /\ Before(AfterTransfer(row, pet)) \subseteq facts
<1> DEFINE has == row.filled \cup pet \cup (IF row.agreed THEN {"licence"} ELSE {})
<1>1. AfterTransfer(row, pet) = First(<<"ig", "pet", "licence">>, has, "confirm")
  BY DEF AfterTransfer
<1>2. "ig" \in has => "ig" \in facts BY DEF Asked
<1> DEFINE next == First(<<"ig", "pet", "licence">>, has, "confirm")
<1> HIDE DEF has
<1>3. \/ next = "confirm" /\ {"ig", "pet", "licence"} \subseteq has
      \/ next = "ig"
      \/ next = "pet" /\ "ig" \in has
      \/ next = "licence" /\ {"ig", "pet"} \subseteq has
  BY FirstOf3 DEF next
<1> HIDE DEF next
<1>4. next \in Steps /\ Before(next) \subseteq facts
  BY <1>2, <1>3, BeforeIs DEF Asked, AfterIg
<1> QED BY <1>1, <1>4 DEF next

LEMMA OfferSound ==
    ASSUME NEW facts, NEW row \in AppRow, NEW step, row.filled \subseteq facts,
           NEW todo \in OfferAnswers(row, step)
    PROVE  Sound(todo, facts)
<1>1. row.filled \subseteq Asked BY DEF AppRow
<1>2. CASE step = "product"
  <2>1. todo = <<Goto("brief")>> BY <1>2 DEF OfferAnswers
  <2>2. Before("brief") = {} BY BeforeIs
  <2>3. Follows(<<Goto("brief")>>, facts) BY <2>2, Goto1, Follows1 DEF Link, Steps
  <2> QED BY <2>1, <2>3, FollowsSound
<1>3. CASE step \in {"brief", "upsell"}
  <2> DEFINE s == [do |-> step, has |-> row.filled]
  <2>1. todo = <<s>> BY <1>3 DEF OfferAnswers
  <2>2. Link(s, facts) BY <1>1, <1>3 DEF Link, Writes, Presumed
  <2> QED BY <2>1, <2>2, Follows1, FollowsSound
<1>4. CASE step \notin {"product", "brief", "upsell"} BY <1>4 DEF OfferAnswers
<1> QED BY <1>2, <1>3, <1>4

LEMMA AgainSound ==
    ASSUME NEW step \in Steps, NEW facts, Before(step) \subseteq facts
    PROVE  Sound(Again(step), facts) /\ Sound(<<Goto(step)>>, facts)
BY Goto1, Follows1, FollowsSound DEF Link, Again

LEMMA AddressSound ==
    ASSUME NEW facts, NEW step, Before(step) \subseteq facts,
           NEW todo \in AddressAnswers(step)
    PROVE  Sound(todo, facts)
<1> USE BeforeIs DEF Steps, Asked
<1>1. CASE step = "name"
  <2>1. todo = Again("name") \/ todo = <<Fill("name"), Goto("phone")>>
    BY <1>1 DEF AddressAnswers
  <2>2. Before("phone") \subseteq facts \cup {"name"} BY <1>1
  <2>3. Sound(<<Fill("name"), Goto("phone")>>, facts) BY <2>2, FillSound
  <2>4. Sound(Again("name"), facts)
    BY <1>1, AgainSound
  <2> QED BY <2>1, <2>3, <2>4
<1>2. CASE step = "phone"
  <2>1. todo = Again("phone") \/ todo = <<Fill("phone"), Goto("store")>>
    BY <1>2 DEF AddressAnswers
  <2>2. Before("store") \subseteq facts \cup {"phone"} BY <1>2
  <2>3. Sound(<<Fill("phone"), Goto("store")>>, facts) BY <2>2, FillSound
  <2>4. Sound(Again("phone"), facts)
    BY <1>2, AgainSound
  <2> QED BY <2>1, <2>3, <2>4
<1>3. CASE step = "store"
  <2>1. todo = Again("store") \/ todo = <<Goto("pick")>>
    BY <1>3 DEF AddressAnswers
  <2> QED BY <1>3, <2>1, AgainSound
<1>4. CASE step = "pick"
  <2>1. todo = <<Goto("store")>> \/ todo = <<Fill("store"), Goto("upsell")>>
    BY <1>4 DEF AddressAnswers
  <2>2. Before("upsell") \subseteq facts \cup {"store"} BY <1>4
  <2>3. Sound(<<Fill("store"), Goto("upsell")>>, facts) BY <2>2, FillSound
  <2>4. Sound(<<Goto("store")>>, facts) /\ Sound(Again("pick"), facts)
    BY <1>4, AgainSound
  <2> QED BY <2>1, <2>3, <2>4
<1>5. CASE step \notin {"name", "phone", "store", "pick"} BY <1>5 DEF AddressAnswers
<1> QED BY <1>1, <1>2, <1>3, <1>4, <1>5

LEMMA Resting ==
    /\ Before("review") = {} /\ Before("cancelled") = {} /\ Before("ready") = {}
    /\ Before("product") = {} /\ Before("awaiting") = {} /\ Before("name") = {}
BY BeforeIs

LEMMA EndsSound ==
    ASSUME NEW facts
    PROVE  /\ Whole \subseteq facts => Sound(Submit, facts)
           /\ Sound(Disagree, facts)
<1>1. ASSUME Whole \subseteq facts PROVE Sound(Submit, facts)
  <2>1. Link(Set([status |-> "pending"]), facts)
    BY <1>1, Set1, PatchesDiffer DEF Link
  <2>2. Link(Put("pending_review"), facts) BY Put1 DEF Link, Placed
  <2>3. Link(Goto("review"), facts) BY Goto1, Resting DEF Link, Steps
  <2> QED BY <2>1, <2>2, <2>3, Follows3, FollowsSound DEF Submit
<1>2. Sound(Disagree, facts)
  <2>1. Link(Set([status |-> "cancelled", agreed |-> FALSE]), facts)
    BY Set1, PatchesDiffer DEF Link
  <2>2. Link(Put("cancelled"), facts) BY Put1 DEF Link, Placed
  <2>3. Link(Goto("cancelled"), facts) BY Goto1, Resting DEF Link, Steps
  <2> QED BY <2>1, <2>2, <2>3, Follows3, FollowsSound DEF Disagree
<1> QED BY <1>1, <1>2

LEMMA LicenceSound ==
    ASSUME NEW facts, NEW row \in AppRow, row.agreed => "agreed" \in facts, NEW step,
           Before(step) \subseteq facts, NEW todo \in LicenceAnswers(row, step)
    PROVE  Sound(todo, facts)
<1> USE BeforeIs DEF AfterIg, Asked, Steps
<1>1. CASE step = "ig"
  <2>1. todo = Again("ig") \/ todo = <<Fill("ig"), Goto("pet")>>
    BY <1>1 DEF LicenceAnswers
  <2>2. Before("pet") \subseteq facts \cup {"ig"} BY <1>1
  <2>3. Sound(<<Fill("ig"), Goto("pet")>>, facts) BY <2>2, FillSound
  <2>4. Sound(Again("ig"), facts)
    BY <1>1, AgainSound
  <2> QED BY <2>1, <2>3, <2>4
<1>2. CASE step = "pet"
  <2>1. todo = Again("pet") \/ todo = <<Goto("licence")>>
    BY <1>2 DEF LicenceAnswers
  <2> QED BY <1>2, <2>1, AgainSound
<1>3. CASE step = "licence"
  <2>1. todo = Disagree \/ todo = <<Set([agreed |-> TRUE]), Goto("confirm")>>
    BY <1>3 DEF LicenceAnswers
  <2>5. Link(Set([agreed |-> TRUE]), facts) BY Set1, PatchesDiffer DEF Link
  <2>6. Link(Goto("confirm"), facts) BY <1>3, Goto1, BeforeIs DEF Link, AfterIg
  <2>7. Sound(<<Set([agreed |-> TRUE]), Goto("confirm")>>, facts)
    BY <2>5, <2>6, Follows2, FollowsSound
  <2> QED BY <2>1, <2>7, EndsSound
<1>4. CASE step = "confirm"
  <2>1. \/ todo = <<Goto("name")>>
        \/ todo = <<Goto("store")>>
        \/ row.agreed /\ todo = Submit
        \/ todo = <<Goto("licence")>>
    BY <1>4 DEF LicenceAnswers
  <2>2. Whole \subseteq facts \cup (IF row.agreed THEN {} ELSE {"agreed"})
    BY <1>4 DEF Whole
  <2>3. row.agreed => Sound(Submit, facts) BY <2>2, EndsSound
  <2> QED BY <1>4, <2>1, <2>3, AgainSound
<1>5. CASE step \notin {"ig", "pet", "licence", "confirm"} BY <1>5 DEF LicenceAnswers
<1> QED BY <1>1, <1>2, <1>3, <1>4, <1>5

LEMMA AnswersSound ==
    ASSUME NEW facts, NEW row \in AppRow, row.filled \subseteq facts,
           row.agreed => "agreed" \in facts, NEW step, Before(step) \subseteq facts,
           NEW todo \in Answers(row, step)
    PROVE  Sound(todo, facts)
BY OfferSound, AddressSound, LicenceSound DEF Answers

LEMMA ResumedKnown ==
    ASSUME NEW facts, NEW row \in AppRow, row.filled \subseteq facts, NEW notes,
           NEW step \in Steps, Before(step) \subseteq facts
    PROVE  Resumed(step, row, notes) \in Steps /\ Before(Resumed(step, row, notes)) \subseteq facts
<1>1. row.filled \cap Asked \subseteq facts OBVIOUS
<1>2. \/ Missing(row.filled) = "none" /\ {"name", "phone", "store"} \subseteq facts
      \/ Missing(row.filled) \in {"name", "phone", "store"} /\ Before(Missing(row.filled)) \subseteq facts
  BY <1>1, MissingGives
<1>3. step \in {"transfer", "ig", "pet", "licence", "confirm"} => Before("transfer") \subseteq facts
  BY DEF Before, AfterName, AfterPhone, AfterStore, AfterIg, Asked
<1>4. \/ /\ Resumed(step, row, notes) = Missing(row.filled)
         /\ Missing(row.filled) # "none"
      \/ /\ Resumed(step, row, notes) = "transfer"
         /\ step \in {"transfer", "ig", "pet", "licence", "confirm"}
      \/ Resumed(step, row, notes) = step
  BY DEF Resumed
<1> QED BY <1>2, <1>3, <1>4 DEF Steps

LEMMA FactsAre ==
    ASSUME RowTypes, NEW a \in Apps
    PROVE  /\ Facts(a) \cap Asked = app[a].filled /\ app[a].filled \subseteq Facts(a)
           /\ "agreed" \in Facts(a) <=> a \in agreedOnce
           /\ "verified" \in Facts(a) <=> a \in verified
           /\ "kept" \in Facts(a) <=> Kept(a)
           /\ "recalled" \in Facts(a) <=> a \in recalled
<1>1. app[a].filled \subseteq Asked BY DEF RowTypes, AppRow
<1> QED BY <1>1 DEF Facts, Kept, Asked

LEMMA WholeIsComplete ==
    ASSUME RowTypes, NEW a \in Apps
    PROVE  Whole \subseteq Facts(a) <=> Complete(a)
<1>1. app[a].filled \subseteq Asked BY DEF RowTypes, AppRow
<1> QED BY <1>1, FactsAre DEF Whole, Complete

LEMMA FactsGrow ==
    ASSUME NEW a \in Apps, app[a].filled \subseteq app'[a].filled,
           agreedOnce \subseteq agreedOnce', verified \subseteq verified',
           recalled \subseteq recalled', parcels[a] # <<>> => parcels'[a] # <<>>
    PROVE  Facts(a) \subseteq Facts(a)'
BY DEF Facts

LEMMA Due ==
    ASSUME TasksSound, NEW r \in Workers, NEW what, what # "enrol", Step(r, what)
    PROVE  /\ task[r].app \in Apps /\ Sound(task[r].todo, Facts(task[r].app))
           /\ task[r].todo \in Seq(Writes) /\ task[r].todo # <<>>
           /\ Head(task[r].todo) \in Writes /\ Head(task[r].todo).do = what
           /\ Presumed(Head(task[r].todo)) \subseteq Facts(task[r].app)
<1>1. task[r].todo # <<>> /\ Head(task[r].todo).do = what BY DEF Step
<1>2. Head(Enrolment) = [do |-> "enrol"] BY DEF Enrolment
<1>3. task[r].todo # Enrolment BY <1>1, <1>2
<1>4. TaskSound(r) BY DEF TasksSound
<1>5. task[r].app \in Apps /\ Sound(task[r].todo, Facts(task[r].app))
  BY <1>1, <1>3, <1>4 DEF TaskSound
<1>6. task[r].todo \in Seq(Writes) BY <1>5 DEF Sound
<1>7. Head(task[r].todo) \in Writes BY <1>1, <1>6
<1> QED BY <1>1, <1>5, <1>6, <1>7 DEF Sound

LEMMA OthersSound ==
    ASSUME TasksSound, Grows, NEW q \in Workers, task'[q] = task[q]
    PROVE  TaskSound(q)'
<1>1. TaskSound(q) BY DEF TasksSound
<1>2. CASE task[q].todo \in {<<>>, Enrolment} BY <1>2 DEF TaskSound, Enrolment
<1>3. CASE task[q].app \in Apps /\ Sound(task[q].todo, Facts(task[q].app))
  <2>1. PICK a, facts, more : a = task[q].app /\ facts = Facts(a) /\ more = Facts(a)' OBVIOUS
  <2>2. facts \subseteq more BY <1>3, <2>1 DEF Grows
  <2>3. Sound(task[q].todo, more) BY <1>3, <2>1, <2>2, SoundGrows
  <2>4. Sound(task[q].todo, Facts(a)') BY <2>1, <2>3, Zenon
  <2> QED BY <1>3, <2>1, <2>4 DEF TaskSound
<1> QED BY <1>1, <1>2, <1>3 DEF TaskSound

\* A request takes up a list of writes ...
LEMMA Begun ==
    ASSUME CampaignSound, NEW r \in Workers, NEW a, NEW todo, Begins(r, a, todo),
           todo = Enrolment \/ (a \in Apps /\ Sound(todo, Facts(a)))
    PROVE  CampaignSound'
<1>1. /\ task' = [task EXCEPT ![r] = [app |-> a, todo |-> todo]]
      /\ UNCHANGED <<app, talk, order, parcels, submitted, agreedOnce, verified, recalled>>
  BY DEF Begins, ghosts
<1>2. RowsSound'
  BY <1>1 DEF CampaignSound, RowsSound, RowTypes, RowSound, ParcelsSound, Complete, Kept
<1>3. \A b : Facts(b)' = Facts(b) BY <1>1 DEF Facts
<1>4. Grows BY <1>3 DEF Grows
<1>5. TaskTypes' BY <1>1 DEF CampaignSound, TasksSound, TaskTypes
<1>6. TaskSound(r)'
  <2>1. task'[r].app = a /\ task'[r].todo = todo BY <1>1 DEF CampaignSound, TasksSound, TaskTypes
  <2>2. CASE todo = Enrolment BY <2>1, <2>2 DEF TaskSound, Enrolment
  <2>3. CASE a \in Apps /\ Sound(todo, Facts(a))
    <3>1. Sound(todo, Facts(a)') BY <1>3, <2>3, Zenon
    <3> QED BY <2>1, <2>3, <3>1 DEF TaskSound
  <2> QED BY <2>2, <2>3
<1>7. \A q \in Workers \ {r} : TaskSound(q)'
  BY <1>1, <1>4, OthersSound DEF CampaignSound, TasksSound, TaskTypes
<1> QED BY <1>2, <1>5, <1>6, <1>7 DEF CampaignSound, TasksSound

\* ... and does the first of them.
LEMMA Done ==
    ASSUME CampaignSound, RowsSound', Grows, NEW r \in Workers, NEW what, what # "enrol",
           Step(r, what), NEW first, Then(r, first), NEW a, a = task[r].app,
           Facts(a) \cup Gives(Head(task[r].todo)) \subseteq Facts(a)',
           Follows(first, Facts(a)')
    PROVE  CampaignSound'
<1> DEFINE todo == first \o Tail(task[r].todo)
<1>1. task' = [task EXCEPT ![r] = IF todo = <<>> THEN Free ELSE [@ EXCEPT !.todo = todo]]
  BY DEF Then
<1>2. TaskTypes BY DEF CampaignSound, TasksSound
<1>3. TaskTypes' BY <1>1, <1>2 DEF TaskTypes, Free
<1>4. TaskSound(r)'
  <2>1. PICK facts, more : facts = Facts(a) /\ more = Facts(a)' OBVIOUS
  <2>2. /\ a \in Apps /\ Sound(task[r].todo, facts) /\ task[r].todo # <<>>
    BY <2>1, Due DEF CampaignSound
  <2>3. facts \cup Gives(Head(task[r].todo)) \subseteq more BY <2>1
  <2>4. Follows(first, more) BY <2>1, Zenon
  <2>5. Sound(todo, more) BY <2>2, <2>3, <2>4, SoundTail
  <2>6. Sound(todo, Facts(a)') BY <2>1, <2>5, Zenon
  <2> HIDE DEF todo
  <2>7. CASE todo = <<>>
    <3>1. task'[r].todo = <<>> BY <1>1, <1>2, <2>7 DEF TaskTypes, Free
    <3> QED BY <3>1 DEF TaskSound
  <2>8. CASE todo # <<>>
    <3>1. task'[r].todo = todo /\ task'[r].app = a BY <1>1, <1>2, <2>8 DEF TaskTypes
    <3> QED BY <2>2, <2>6, <3>1 DEF TaskSound
  <2> QED BY <2>7, <2>8
<1>5. \A q \in Workers \ {r} : TaskSound(q)'
  BY <1>1, <1>2, OthersSound DEF CampaignSound, TaskTypes
<1> QED BY <1>3, <1>4, <1>5 DEF CampaignSound, TasksSound

\* What a request of the customer takes up presumes what is known of the row.
LEMMA EnrolKeeps == ASSUME CampaignSound, NEW r \in Workers, Enrol(r) PROVE CampaignSound'
BY Begun DEF Enrol, Enrolment

LEMMA RowKnown ==
    ASSUME CampaignSound, NEW a \in Apps
    PROVE  /\ app[a] \in AppRow /\ talk[a].step \in Steps
           /\ app[a].filled \subseteq Facts(a)
           /\ app[a].agreed => "agreed" \in Facts(a)
           /\ Before(talk[a].step) \subseteq Facts(a)
           /\ app[a].status \in {"pending"} \cup Approved \/ a \in submitted => Whole \subseteq Facts(a)
           /\ app[a].status \in Approved => "kept" \in Facts(a)
<1>1. RowTypes /\ RowSound(a) BY DEF CampaignSound, RowsSound
<1>2. app[a] \in AppRow /\ talk[a].step \in Steps BY <1>1 DEF RowTypes, TalkRow
<1>3. app[a].filled \subseteq Facts(a) BY <1>1, FactsAre
<1>4. app[a].agreed => "agreed" \in Facts(a) BY <1>1, FactsAre DEF RowSound
<1>5. Before(talk[a].step) \subseteq Facts(a) BY <1>1, <1>3 DEF RowSound
<1>6. app[a].status \in {"pending"} \cup Approved \/ a \in submitted => Whole \subseteq Facts(a)
  BY <1>1, WholeIsComplete DEF RowSound
<1>7. app[a].status \in Approved => "kept" \in Facts(a) BY <1>1, FactsAre DEF RowSound
<1> QED BY <1>2, <1>3, <1>4, <1>5, <1>6, <1>7

LEMMA HearKeeps ==
    ASSUME CampaignSound, NEW r \in Workers, NEW a \in Apps, Hear(r, a)
    PROVE  CampaignSound'
<1>1. PICK todo \in Answers(app[a], talk[a].step) : Begins(r, a, todo) BY DEF Hear
<1>2. Sound(todo, Facts(a)) BY RowKnown, AnswersSound
<1> QED BY <1>1, <1>2, Begun

LEMMA HearDeclaredKeeps ==
    ASSUME CampaignSound, NEW r \in Workers, NEW a \in Apps, HearDeclared(r, a)
    PROVE  CampaignSound'
<1> DEFINE s == [do |-> "declare", step |-> talk[a].step]
<1>1. Begins(r, a, <<s>>) BY DEF HearDeclared
<1>2. s \in Writes /\ s.do = "declare" /\ Presumed(s) = Before(talk[a].step)
  BY RowKnown DEF Writes, Presumed
<1>3. Link(s, Facts(a)) BY <1>2, RowKnown DEF Link
<1>4. Sound(<<s>>, Facts(a)) BY <1>3, Follows1, FollowsSound
<1> QED BY <1>1, <1>4, Begun

LEMMA HearResumeKeeps ==
    ASSUME CampaignSound, NEW r \in Workers, NEW a \in Apps, HearResume(r, a)
    PROVE  CampaignSound'
<1> DEFINE to == Resumed(talk[a].step, app[a], talk[a].notes)
           moves == IF to = talk[a].step THEN <<>> ELSE <<Goto(to)>>
<1>1. PICK todo \in {moves, <<[do |-> "same"]>> \o moves} : Begins(r, a, todo)
  BY DEF HearResume
<1>2. to \in Steps /\ Before(to) \subseteq Facts(a) BY RowKnown, ResumedKnown
<1>3. Follows(moves, Facts(a))
  <2>1. Follows(<<Goto(to)>>, Facts(a)) BY <1>2, Goto1, Follows1 DEF Link
  <2> QED BY <2>1, Follows0
<1>4. Link([do |-> "same"], Facts(a)) BY DEF Link, Writes, Presumed
<1>5. Follows(<<[do |-> "same"]>> \o moves, Facts(a)) BY <1>3, <1>4, FollowsCons
<1>6. Sound(todo, Facts(a)) BY <1>3, <1>5, FollowsSound
<1> QED BY <1>1, <1>6, Begun

LEMMA PauseKeeps ==
    ASSUME CampaignSound, NEW r \in Workers, NEW a \in Apps, Pause(r, a)
    PROVE  CampaignSound'
<1> DEFINE to == IF talk[a].step = "pick" THEN "store" ELSE talk[a].step
<1>1. Begins(r, a, <<Goto(to)>>) BY DEF Pause
<1>2. to \in Steps /\ Before(to) \subseteq Facts(a) BY RowKnown, BeforeIs DEF Steps
<1>3. Sound(<<Goto(to)>>, Facts(a)) BY <1>2, AgainSound
<1> QED BY <1>1, <1>3, Begun

LEMMA SetLink ==
    ASSUME NEW facts,
           NEW patch \in {[status |-> "cancelled"], [status |-> "rejected"], [status |-> "collecting"]}
    PROVE  Link(Set(patch), facts)
BY Set1, PatchesDiffer DEF Link

LEMMA HearCancelKeeps ==
    ASSUME CampaignSound, NEW r \in Workers, NEW a \in Apps, HearCancel(r, a)
    PROVE  CampaignSound'
<1> DEFINE x == <<Set([status |-> "cancelled"]), Put("cancelled")>>
           y == IF talk[a].open THEN <<Goto("cancelled")>> ELSE <<>>
<1>1. Begins(r, a, x \o y) BY DEF HearCancel
<1>2. Follows(x, Facts(a)) BY SetLink, Put1, Follows2 DEF Link, Placed
<1>3. Follows(y, Facts(a))
  <2>1. Follows(<<Goto("cancelled")>>, Facts(a)) BY Goto1, Resting, Follows1 DEF Link, Steps
  <2> QED BY <2>1, Follows0
<1>4. Sound(x \o y, Facts(a)) BY <1>2, <1>3, FollowsConcat, FollowsSound
<1> QED BY <1>1, <1>4, Begun

LEMMA RejectKeeps ==
    ASSUME CampaignSound, NEW r \in Workers, NEW a \in Apps, Reject(r, a)
    PROVE  CampaignSound'
<1>1. Begins(r, a, <<Set([status |-> "rejected"]), Put("cancelled"), Goto("cancelled")>>)
  BY DEF Reject
<1>2. Link(Put("cancelled"), Facts(a)) /\ Link(Goto("cancelled"), Facts(a))
  BY Put1, Goto1, Resting DEF Link, Placed, Steps
<1>3. Sound(<<Set([status |-> "rejected"]), Put("cancelled"), Goto("cancelled")>>, Facts(a))
  BY <1>2, SetLink, Follows3, FollowsSound
<1> QED BY <1>1, <1>3, Begun

LEMMA ReturnKeeps ==
    ASSUME CampaignSound, NEW r \in Workers, NEW a \in Apps, Return(r, a)
    PROVE  CampaignSound'
<1>1. PICK f \in Asked \cup {"pet", "licence"} :
         Begins(r, a, <<Set([status |-> "collecting"]), Goto(f)>>)
  BY DEF Return
<1>2. f \in Steps BY DEF Asked, Steps
<1>3. Before(f) \subseteq Facts(a)
  <2>1. Whole \subseteq Facts(a) BY RowKnown DEF Return
  <2> QED BY <2>1 DEF Before, Whole
<1>4. Link(Goto(f), Facts(a)) BY <1>2, <1>3, Goto1 DEF Link
<1>5. Sound(<<Set([status |-> "collecting"]), Goto(f)>>, Facts(a))
  BY <1>4, SetLink, Follows2, FollowsSound
<1> QED BY <1>1, <1>5, Begun

LEMMA ApproveKeeps ==
    ASSUME CampaignSound, NEW r \in Workers, NEW a \in Apps, Approve(r, a)
    PROVE  CampaignSound'
<1> DEFINE s == [do |-> "approve", status |-> app[a].status,
                 declared |-> Declared(app[a].pay, talk[a].notes)]
<1>1. \/ app[a].status = "ready" /\ Begins(r, a, <<Queue>>)
      \/ Begins(r, a, <<s>>)
  BY DEF Approve
<1>2. Whole \subseteq Facts(a) BY RowKnown DEF Approve
<1>3. app[a].status = "ready" => Sound(<<Queue>>, Facts(a))
  <2>1. app[a].status = "ready" => Link(Queue, Facts(a)) BY RowKnown, Queue1 DEF Link, Approved
  <2> QED BY <2>1, Follows1, FollowsSound
<1>4. Sound(<<s>>, Facts(a))
  <2>1. Declared(app[a].pay, talk[a].notes) \in BOOLEAN BY DEF Declared
  <2>2. app[a].status \in Statuses BY RowKnown DEF AppRow
  <2>3. s \in Writes /\ s.do = "approve" /\ Presumed(s) = Whole BY <2>1, <2>2 DEF Writes, Presumed
  <2>4. Link(s, Facts(a)) BY <1>2, <2>3 DEF Link
  <2> QED BY <2>4, Follows1, FollowsSound
<1> QED BY <1>1, <1>3, <1>4, Begun

LEMMA MarkPaidKeeps ==
    ASSUME CampaignSound, NEW r \in Workers, NEW a \in Apps, MarkPaid(r, a)
    PROVE  CampaignSound'
<1> DEFINE paid == Set([status |-> "ready", pay |-> "paid"])
           todo == <<paid, Put("confirmed"), Queue, Goto("ready")>>
<1>1. Begins(r, a, <<Queue>>) \/ Begins(r, a, todo) BY DEF MarkPaid
<1>2. Whole \subseteq Facts(a) /\ "kept" \in Facts(a) BY RowKnown DEF MarkPaid
<1>3. Link(Queue, Facts(a)) BY <1>2, Queue1 DEF Link
<1>4. Link(paid, Facts(a)) BY <1>2, Set1, PatchesDiffer DEF Link
<1>5. Link(Put("confirmed"), Facts(a)) /\ Link(Goto("ready"), Facts(a))
  BY Put1, Goto1, Resting DEF Link, Placed, Steps
<1>6. Follows(todo, Facts(a)) BY <1>3, <1>4, <1>5, Follows4
<1> HIDE DEF todo
<1>7. Sound(todo, Facts(a)) /\ Sound(<<Queue>>, Facts(a)) BY <1>3, <1>6, Follows1, FollowsSound
<1> QED BY <1>1, <1>7, Begun

LEMMA BackfillKeeps ==
    ASSUME CampaignSound, NEW r \in Workers, NEW a \in Apps, Backfill(r, a)
    PROVE  CampaignSound'
<1> DEFINE next == IF app[a].status = "ready" \/ Declared(app[a].pay, talk[a].notes)
                   THEN "ready" ELSE "awaiting"
           s == [do |-> "repair", status |-> next]
<1>1. Begins(r, a, <<s>>) BY DEF Backfill
<1>2. Whole \subseteq Facts(a) BY RowKnown DEF Backfill
<1>3. next \in Approved BY DEF Approved
<1>4. s \in Writes /\ s.do = "repair" /\ Presumed(s) = Whole
  <2> HIDE DEF next
  <2> QED BY <1>3 DEF Writes, Presumed
<1>5. Link(s, Facts(a)) BY <1>2, <1>4 DEF Link
<1>6. Sound(<<s>>, Facts(a)) BY <1>5, Follows1, FollowsSound
<1> QED BY <1>1, <1>6, Begun

LEMMA MarkShippedKeeps ==
    ASSUME CampaignSound, NEW r \in Workers, NEW a \in Apps, MarkShipped(r, a)
    PROVE  CampaignSound'
<1>1. PICK i \in DOMAIN parcels[a] : Gate(a) /\ Begins(r, a, <<[do |-> "ship", parcel |-> i]>>)
  BY DEF MarkShipped
<1>2. "verified" \in Facts(a)
  <2>1. RowTypes /\ RowSound(a) BY DEF CampaignSound, RowsSound
  <2> QED BY <1>1, <2>1, FactsAre DEF Gate, RowSound
<1>3. i \in Nat BY DEF CampaignSound, RowsSound, RowTypes, Parcels
<1> DEFINE s == [do |-> "ship", parcel |-> i]
<1>4. s \in Writes /\ s.do = "ship" /\ Presumed(s) = {"verified"} BY <1>3 DEF Writes, Presumed
<1>5. Sound(<<s>>, Facts(a)) BY <1>2, <1>4, Follows1, FollowsSound DEF Link
<1> QED BY <1>1, <1>5, Begun

Quiet == UNCHANGED <<app, talk, order, parcels, submitted, agreedOnce, verified, recalled>>

LEMMA QuietRows ==
    ASSUME CampaignSound, Quiet
    PROVE  RowsSound' /\ Grows /\ \A a : Facts(a)' = Facts(a)
<1>1. RowsSound'
  BY DEF Quiet, CampaignSound, RowsSound, RowTypes, RowSound, ParcelsSound, Complete, Kept
<1>2. \A a : Facts(a)' = Facts(a) BY DEF Quiet, Facts
<1> QED BY <1>1, <1>2 DEF Grows

LEMMA QuietDone ==
    ASSUME CampaignSound, Quiet, NEW r \in Workers, NEW what, what \notin {"enrol", "fill"},
           Step(r, what), NEW first, Then(r, first), Follows(first, Facts(task[r].app))
    PROVE  CampaignSound'
<1>1. PICK a : a = task[r].app OBVIOUS
<1>2. Gives(Head(task[r].todo)) = {} BY DEF Step, Gives
<1>3. Facts(a)' = Facts(a) BY QuietRows
<1>4. RowsSound' /\ Grows BY QuietRows
<1>5. Facts(a) \cup Gives(Head(task[r].todo)) \subseteq Facts(a)' BY <1>2, <1>3
<1>6. Follows(first, Facts(a)) BY <1>1
<1>7. Follows(first, Facts(a)') BY <1>3, <1>6, Zenon
<1> QED BY <1>1, <1>4, <1>5, <1>7, Done

LEMMA DroppedKeeps == ASSUME CampaignSound, NEW r \in Workers, Dropped(r) PROVE CampaignSound'
<1>1. Quiet /\ task' = [task EXCEPT ![r] = Free] BY DEF Dropped, Quiet, ghosts
<1>2. TaskTypes /\ TaskTypes' BY <1>1 DEF CampaignSound, TasksSound, TaskTypes, Free
<1>3. TaskSound(r)'
  <2>1. task'[r].todo = <<>> BY <1>1, <1>2 DEF TaskTypes, Free
  <2> QED BY <2>1 DEF TaskSound
<1>4. RowsSound' /\ Grows BY <1>1, QuietRows
<1>5. \A q \in Workers \ {r} : TaskSound(q)'
  BY <1>1, <1>2, <1>4, OthersSound DEF CampaignSound, TaskTypes
<1> QED BY <1>2, <1>3, <1>4, <1>5 DEF CampaignSound, TasksSound

LEMMA DoPeekKeeps == ASSUME CampaignSound, NEW r \in Workers, DoPeek(r) PROVE CampaignSound'
<1> DEFINE s == Head(task[r].todo)
           a == task[r].app
           move == [do |-> "move", step |-> s.step, notes |-> talk[a].notes \cup s.add]
<1>1. Step(r, "peek") /\ Quiet /\ Then(r, <<move>>) BY DEF DoPeek, Quiet, ghosts
<1>2. a \in Apps /\ s \in Writes /\ s.do = "peek" /\ Presumed(s) \subseteq Facts(a)
  BY <1>1, Due DEF CampaignSound
<1>3. s.step \in Steps /\ s.add \in SUBSET Notes /\ Presumed(s) = Before(s.step)
  BY <1>2 DEF Writes, Presumed
<1>4. talk[a].notes \in SUBSET Notes
  BY <1>2 DEF CampaignSound, RowsSound, RowTypes, TalkRow
<1>5. Link(move, Facts(a))
  <2>1. move \in Writes /\ move.do = "move" /\ Presumed(move) = Before(s.step)
    <3> HIDE DEF s, a
    <3> QED BY <1>3, <1>4 DEF Writes, Presumed
  <2> QED BY <1>2, <1>3, <2>1 DEF Link
<1>6. Follows(<<move>>, Facts(a)) BY <1>5, Follows1
<1> HIDE DEF move
<1> QED BY <1>1, <1>6, QuietDone

LEMMA DoReadKeeps == ASSUME CampaignSound, NEW r \in Workers, DoRead(r) PROVE CampaignSound'
<1> DEFINE s == Head(task[r].todo)
           a == task[r].app
<1>1. PICK what \in {"brief", "upsell"} : Step(r, what) BY DEF DoRead
<1>2. PICK copies \in SUBSET app[a].filled :
         Then(r, <<IF Missing(s.has \cup copies) # "none" THEN Goto(Missing(s.has \cup copies))
                   ELSE IF s.do = "brief" THEN Goto("upsell") ELSE Turn("transfer", {"upsell"})>>)
  BY DEF DoRead
<1>3. Quiet BY DEF DoRead, Quiet, ghosts
<1>4. a \in Apps /\ s \in Writes /\ s.do = what /\ Presumed(s) \subseteq Facts(a)
  BY <1>1, Due DEF CampaignSound
<1>5. s.has \subseteq Facts(a) BY <1>1, <1>4 DEF Presumed
<1>6. copies \subseteq Facts(a) BY <1>4, RowKnown
<1> DEFINE gap == Missing(s.has \cup copies)
           next == IF gap # "none" THEN Goto(gap)
                   ELSE IF s.do = "brief" THEN Goto("upsell") ELSE Turn("transfer", {"upsell"})
<1>7. \/ gap = "none" /\ {"name", "phone", "store"} \subseteq Facts(a)
      \/ gap \in {"name", "phone", "store"} /\ Before(gap) \subseteq Facts(a)
  <2>1. (s.has \cup copies) \cap Asked \subseteq Facts(a) BY <1>5, <1>6
  <2>2. PICK facts, has : facts = Facts(a) /\ has = s.has \cup copies OBVIOUS
  <2>3. has \cap Asked \subseteq facts BY <2>1, <2>2
  <2>4. \/ Missing(has) = "none" /\ {"name", "phone", "store"} \subseteq facts
        \/ Missing(has) \in {"name", "phone", "store"} /\ Before(Missing(has)) \subseteq facts
    BY <2>3, MissingGives
  <2>5. gap = Missing(has) BY <2>2, Zenon
  <2> HIDE DEF gap
  <2> QED BY <2>2, <2>4, <2>5, Zenon
<1> HIDE DEF gap
<1>8. Link(next, Facts(a))
  <2>1. CASE gap # "none"
    <3>1. gap \in Steps /\ Before(gap) \subseteq Facts(a) BY <1>7, <2>1 DEF Steps
    <3> QED BY <2>1, <3>1, Goto1 DEF Link
  <2>2. CASE gap = "none" /\ s.do = "brief"
    <3>1. Before("upsell") \subseteq Facts(a) /\ "upsell" \in Steps BY <1>7, <2>2, BeforeIs DEF Steps
    <3> QED BY <2>2, <3>1, Goto1 DEF Link
  <2>3. CASE gap = "none" /\ s.do # "brief"
    <3>1. /\ Before("transfer") \subseteq Facts(a) /\ "transfer" \in Steps
          /\ {"upsell"} \in SUBSET Notes
      BY <1>7, <2>3, BeforeIs DEF Steps, Notes
    <3> QED BY <2>3, <3>1, Turn1 DEF Link
  <2> QED BY <2>1, <2>2, <2>3
<1>9. Follows(<<next>>, Facts(a)) BY <1>8, Follows1
<1>10. Then(r, <<next>>) BY <1>2 DEF gap
<1> HIDE DEF next
<1> QED BY <1>1, <1>3, <1>9, <1>10, QuietDone

LEMMA DoSameKeeps == ASSUME CampaignSound, NEW r \in Workers, DoSame(r) PROVE CampaignSound'
<1> DEFINE a == task[r].app
<1>1. Step(r, "same") /\ Quiet /\ Then(r, <<Goto(talk[a].step)>>) BY DEF DoSame, Quiet, ghosts
<1>2. a \in Apps BY <1>1, Due DEF CampaignSound
<1>3. Follows(<<Goto(talk[a].step)>>, Facts(a)) BY <1>2, RowKnown, Goto1, Follows1 DEF Link
<1> QED BY <1>1, <1>3, QuietDone

LEMMA DoLookKeeps == ASSUME CampaignSound, NEW r \in Workers, DoLook(r) PROVE CampaignSound'
<1> DEFINE a == task[r].app
           first == IF Existing(a) THEN <<>> ELSE <<[do |-> "create"]>>
<1>1. Step(r, "look") /\ Quiet /\ Then(r, first) BY DEF DoLook, Quiet, ghosts
<1>2. /\ a \in Apps /\ Head(task[r].todo).do = "look" /\ Presumed(Head(task[r].todo)) \subseteq Facts(a)
  BY <1>1, Due DEF CampaignSound
<1>3. "kept" \in Facts(a) BY <1>2 DEF Presumed
<1>4. RowTypes /\ ParcelsSound(a) BY <1>2 DEF CampaignSound, RowsSound
<1>5. Kept(a) BY <1>2, <1>3, <1>4, FactsAre
<1>6. ~Existing(a) => "recalled" \in Facts(a)
  <2>1. parcels[a] \in Seq({"pending", "shipped", "cancelled"}) BY <1>2, <1>4 DEF RowTypes, Parcels
  <2>2. ASSUME a \notin recalled PROVE Existing(a)
    <3>1. parcels[a] # <<>> BY <1>5, <2>2 DEF Kept
    <3>2. 1 \in DOMAIN parcels[a] BY <2>1, <3>1
    <3>3. parcels[a][1] # "cancelled" BY <1>4, <2>2, <3>2 DEF ParcelsSound
    <3> QED BY <3>2, <3>3 DEF Existing, Live
  <2> QED BY <1>2, <1>4, <2>2, FactsAre
<1>7. Follows(first, Facts(a))
  <2>1. CASE Existing(a)
    <3>1. first = <<>> BY <2>1
    <3> QED BY <3>1, Follows0
  <2>2. CASE ~Existing(a)
    <3>1. Link([do |-> "create"], Facts(a)) BY <1>6, <2>2 DEF Link, Writes, Presumed
    <3>2. first = <<[do |-> "create"]>> BY <2>2
    <3> QED BY <3>1, <3>2, Follows1
  <2> QED BY <2>1, <2>2
<1> HIDE DEF first
<1> QED BY <1>1, <1>7, QuietDone

\* What changes of the rows.
LEMMA SameParcels ==
    ASSUME NEW a, parcels' = parcels, UNCHANGED <<verified, recalled>>, ParcelsSound(a)
    PROVE  ParcelsSound(a)' /\ (Kept(a) <=> Kept(a)')
BY DEF ParcelsSound, Kept

\* Only the conversation changes, to a step that is due.
LEMMA TalkRows ==
    ASSUME CampaignSound, UNCHANGED <<app, order, parcels, submitted, agreedOnce, verified, recalled>>,
           NEW a \in Apps, NEW row \in TalkRow, talk' = [talk EXCEPT ![a] = row],
           Before(row.step) \subseteq app[a].filled
    PROVE  RowsSound' /\ Grows
<1>1. RowTypes' BY DEF CampaignSound, RowsSound, RowTypes
<1>2. ASSUME NEW b \in Apps PROVE RowSound(b)' /\ ParcelsSound(b)'
  <2>1. RowSound(b) /\ ParcelsSound(b) BY <1>2 DEF CampaignSound, RowsSound
  <2>2. talk'[b] = IF b = a THEN row ELSE talk[b]
    BY <1>2 DEF CampaignSound, RowsSound, RowTypes
  <2>3. Before(talk'[b].step) \subseteq app[b].filled
    <3>1. CASE b = a BY <2>2, <3>1
    <3>2. CASE b # a BY <2>1, <2>2, <3>2 DEF RowSound
    <3> QED BY <3>1, <3>2
  <2>4. ParcelsSound(b)' /\ (Kept(b) <=> Kept(b)') BY <2>1, SameParcels
  <2> QED BY <2>1, <2>3, <2>4 DEF RowSound, Complete
<1>3. Grows BY DEF Grows, Facts
<1> QED BY <1>1, <1>2, <1>3 DEF RowsSound

LEMMA DoOpenKeeps == ASSUME CampaignSound, NEW r \in Workers, DoOpen(r) PROVE CampaignSound'
<1>1. PICK a : a = task[r].app OBVIOUS
<1> DEFINE row == [talk[a] EXCEPT !.open = TRUE, !.step = "product"]
<1>2. /\ Step(r, "open") /\ Then(r, <<>>) /\ talk' = [talk EXCEPT ![a] = row]
      /\ UNCHANGED <<app, order, parcels, submitted, agreedOnce, verified, recalled>>
  BY <1>1 DEF DoOpen, ghosts
<1>3. a \in Apps /\ Head(task[r].todo).do = "open" BY <1>1, <1>2, Due DEF CampaignSound
<1>4. row \in TalkRow /\ row.step = "product"
  <2>1. talk[a] \in TalkRow BY <1>3 DEF CampaignSound, RowsSound, RowTypes
  <2>2. "product" \in Steps BY DEF Steps
  <2> QED BY <2>1, <2>2 DEF TalkRow
<1>5. Before(row.step) \subseteq app[a].filled BY <1>4, BeforeIs
<1> HIDE DEF row
<1>6. RowsSound' /\ Grows BY <1>2, <1>3, <1>4, <1>5, TalkRows
<1>7. Facts(a) \cup Gives(Head(task[r].todo)) \subseteq Facts(a)'
  BY <1>3, <1>6 DEF Gives, Grows
<1>8. Follows(<<>>, Facts(a)') BY Follows0
<1> QED BY <1>1, <1>2, <1>6, <1>7, <1>8, Done

LEMMA DoMoveKeeps == ASSUME CampaignSound, NEW r \in Workers, DoMove(r) PROVE CampaignSound'
<1>1. PICK a, s : a = task[r].app /\ s = Head(task[r].todo) OBVIOUS
<1> DEFINE row == [talk[a] EXCEPT !.step = s.step, !.notes = s.notes]
<1>2. /\ Step(r, "move") /\ Then(r, <<>>) /\ talk' = [talk EXCEPT ![a] = row]
      /\ UNCHANGED <<app, order, parcels, submitted, agreedOnce, verified, recalled>>
  BY <1>1 DEF DoMove, ghosts
<1>3. a \in Apps /\ s \in Writes /\ s.do = "move" /\ Presumed(s) \subseteq Facts(a)
  BY <1>1, <1>2, Due DEF CampaignSound
<1>4. s.step \in Steps /\ s.notes \in SUBSET Notes /\ Before(s.step) \subseteq Facts(a)
  BY <1>3 DEF Writes, Presumed
<1>5. row \in TalkRow /\ row.step = s.step
  <2>1. talk[a] \in TalkRow BY <1>3 DEF CampaignSound, RowsSound, RowTypes
  <2> QED BY <1>4, <2>1 DEF TalkRow
<1>6. Before(row.step) \subseteq app[a].filled
  <2>1. Before(s.step) \subseteq Asked BY DEF Before
  <2>2. Facts(a) \cap Asked = app[a].filled BY <1>3, FactsAre DEF CampaignSound, RowsSound
  <2> QED BY <1>4, <1>5, <2>1, <2>2
<1> HIDE DEF row
<1>7. RowsSound' /\ Grows BY <1>2, <1>3, <1>5, <1>6, TalkRows
<1>8. Facts(a) \cup Gives(Head(task[r].todo)) \subseteq Facts(a)'
  BY <1>1, <1>3, <1>7 DEF Gives, Grows
<1>9. Follows(<<>>, Facts(a)') BY Follows0
<1> QED BY <1>1, <1>2, <1>7, <1>8, <1>9, Done

LEMMA FindHelperKeeps ==
    ASSUME CampaignSound, NEW a \in Apps, FindHelper(a) PROVE CampaignSound'
<1> DEFINE row == [talk[a] EXCEPT !.taken = TRUE]
<1>1. /\ talk' = [talk EXCEPT ![a] = row] /\ UNCHANGED task
      /\ UNCHANGED <<app, order, parcels, submitted, agreedOnce, verified, recalled>>
  BY DEF FindHelper, ghosts
<1>2. row \in TalkRow /\ row.step = talk[a].step
  BY DEF CampaignSound, RowsSound, RowTypes, TalkRow
<1>3. Before(row.step) \subseteq app[a].filled
  BY <1>2 DEF CampaignSound, RowsSound, RowSound
<1> HIDE DEF row
<1>4. RowsSound' /\ Grows BY <1>1, <1>2, <1>3, TalkRows
<1>5. \A q \in Workers : TaskSound(q)' BY <1>1, <1>4, OthersSound DEF CampaignSound
<1> QED BY <1>1, <1>4, <1>5 DEF CampaignSound, TasksSound, TaskTypes

\* Only the order changes.
LEMMA DoPutKeeps == ASSUME CampaignSound, NEW r \in Workers, DoPut(r) PROVE CampaignSound'
<1>1. PICK a, s : a = task[r].app /\ s = Head(task[r].todo) OBVIOUS
<1>2. /\ Step(r, "put") /\ Then(r, <<>>) /\ order' = [order EXCEPT ![a] = s.order]
      /\ UNCHANGED <<app, talk, parcels, submitted, agreedOnce, verified, recalled>>
  BY <1>1 DEF DoPut, ghosts
<1>3. a \in Apps /\ s \in Writes /\ s.do = "put" BY <1>1, <1>2, Due DEF CampaignSound
<1>4. s.order \in Placed BY <1>3 DEF Writes
<1>5. RowsSound'
  BY <1>2, <1>4 DEF CampaignSound, RowsSound, RowTypes, RowSound, ParcelsSound, Complete, Kept
<1>6. Grows BY <1>2 DEF Grows, Facts
<1>7. Facts(a) \cup Gives(Head(task[r].todo)) \subseteq Facts(a)'
  BY <1>1, <1>3, <1>6 DEF Gives, Grows
<1>8. Follows(<<>>, Facts(a)') BY Follows0
<1> QED BY <1>1, <1>2, <1>5, <1>6, <1>7, <1>8, Done

\* The row of one application changes, and takes no fact back.
OnlyRow(a) ==
    /\ RowTypes'
    /\ \A b \in Apps \ {a} :
          /\ app'[b] = app[b] /\ talk'[b] = talk[b] /\ parcels'[b] = parcels[b]
          /\ b \in submitted' => b \in submitted
    /\ app[a].filled \subseteq app'[a].filled
    /\ parcels[a] # <<>> => parcels'[a] # <<>>
    /\ agreedOnce \subseteq agreedOnce' /\ verified \subseteq verified'
    /\ recalled \subseteq recalled' /\ recalled' \subseteq recalled \cup {a}

LEMMA RowWritten ==
    ASSUME CampaignSound, NEW a \in Apps, OnlyRow(a), RowSound(a)', ParcelsSound(a)'
    PROVE  RowsSound' /\ Grows
<1>1. ASSUME NEW b \in Apps \ {a} PROVE RowSound(b)' /\ ParcelsSound(b)'
  <2>1. RowSound(b) /\ ParcelsSound(b) BY DEF CampaignSound, RowsSound
  <2>2. /\ app'[b] = app[b] /\ talk'[b] = talk[b] /\ parcels'[b] = parcels[b]
        /\ b \in submitted' => b \in submitted
        /\ b \in agreedOnce => b \in agreedOnce'
        /\ b \in verified => b \in verified'
        /\ b \in recalled <=> b \in recalled'
    BY DEF OnlyRow
  <2>3. RowSound(b)' BY <2>1, <2>2 DEF RowSound, Complete, Kept
  <2>4. ParcelsSound(b)' BY <2>1, <2>2 DEF ParcelsSound
  <2> QED BY <2>3, <2>4
<1>2. RowsSound' BY <1>1 DEF RowsSound, OnlyRow
<1>3. ASSUME NEW b \in Apps PROVE Facts(b) \subseteq Facts(b)'
  <2>1. app[b].filled \subseteq app'[b].filled /\ (parcels[b] # <<>> => parcels'[b] # <<>>)
    BY DEF OnlyRow
  <2> QED BY <2>1, FactsGrow DEF OnlyRow
<1> QED BY <1>2, <1>3 DEF Grows

LEMMA RowsAre ==
    ASSUME CampaignSound, NEW a \in Apps
    PROVE  /\ RowTypes /\ RowSound(a) /\ ParcelsSound(a)
           /\ app[a] \in AppRow /\ talk[a] \in TalkRow /\ parcels[a] \in Parcels
BY DEF CampaignSound, RowsSound, RowTypes

\* The row of the application changes, and nothing of its parcels.
LEMMA AppWritten ==
    ASSUME CampaignSound, NEW a \in Apps, NEW row \in AppRow, app' = [app EXCEPT ![a] = row],
           order' \in [Apps -> Placed], UNCHANGED <<talk, parcels, recalled>>,
           app[a].filled \subseteq row.filled,
           agreedOnce \subseteq agreedOnce', verified \subseteq verified',
           submitted' \subseteq submitted \cup {a},
           row.agreed => a \in agreedOnce', row.pay = "paid" => a \in verified',
           row.status \in {"pending"} \cup Approved \/ a \in submitted'
              => row.filled = Asked /\ a \in agreedOnce',
           row.status \in Approved => Kept(a)
    PROVE  RowsSound' /\ Grows
<1>1. RowTypes /\ RowSound(a) /\ ParcelsSound(a) /\ app[a] \in AppRow BY RowsAre
<1>2. app'[a] = row /\ \A b \in Apps \ {a} : app'[b] = app[b] BY <1>1 DEF RowTypes
<1>3. RowTypes' BY <1>1 DEF RowTypes
<1>4. OnlyRow(a) BY <1>2, <1>3 DEF OnlyRow
<1>5. Kept(a)' <=> Kept(a) BY DEF Kept
<1>6. RowSound(a)' BY <1>1, <1>2, <1>5 DEF RowSound, Complete
<1>7. ParcelsSound(a)' BY <1>1 DEF ParcelsSound
<1> QED BY <1>4, <1>6, <1>7, RowWritten

LEMMA DoFillKeeps == ASSUME CampaignSound, NEW r \in Workers, DoFill(r) PROVE CampaignSound'
<1>1. PICK a, s : a = task[r].app /\ s = Head(task[r].todo) OBVIOUS
<1> DEFINE row == [app[a] EXCEPT !.filled = @ \cup {s.field}]
<1>2. /\ Step(r, "fill") /\ Then(r, <<>>) /\ app' = [app EXCEPT ![a] = row]
      /\ UNCHANGED <<talk, order, parcels, submitted, agreedOnce, verified, recalled>>
  BY <1>1 DEF DoFill, ghosts
<1>3. a \in Apps /\ s \in Writes /\ s.do = "fill" BY <1>1, <1>2, Due DEF CampaignSound
<1>4. s.field \in Asked BY <1>3 DEF Writes
<1>5. RowTypes /\ RowSound(a) /\ app[a] \in AppRow BY <1>3, RowsAre
<1>6. /\ row \in AppRow /\ row.filled = app[a].filled \cup {s.field}
      /\ row.status = app[a].status /\ row.pay = app[a].pay /\ row.agreed = app[a].agreed
  BY <1>4, <1>5 DEF AppRow
<1> HIDE DEF row
<1>7. app[a].filled = Asked => row.filled = Asked BY <1>4, <1>6
<1>8. RowsSound' /\ Grows
  <2>1. order' \in [Apps -> Placed] BY <1>2, <1>5 DEF RowTypes
  <2>2. row.agreed => a \in agreedOnce BY <1>5, <1>6 DEF RowSound
  <2>3. row.pay = "paid" => a \in verified BY <1>5, <1>6 DEF RowSound
  <2>4. row.status \in {"pending"} \cup Approved \/ a \in submitted
           => row.filled = Asked /\ a \in agreedOnce
    BY <1>5, <1>6, <1>7 DEF RowSound, Complete
  <2>5. row.status \in Approved => Kept(a) BY <1>5, <1>6 DEF RowSound
  <2> QED BY <1>2, <1>3, <1>6, <2>1, <2>2, <2>3, <2>4, <2>5, AppWritten
<1>9. Facts(a) \cup Gives(Head(task[r].todo)) \subseteq Facts(a)'
  <2>1. app'[a] = row BY <1>2, <1>3, <1>5 DEF RowTypes
  <2>2. s.field \in Facts(a)' BY <1>6, <2>1 DEF Facts
  <2> QED BY <1>1, <1>3, <1>8, <2>2 DEF Gives, Grows
<1>10. Follows(<<>>, Facts(a)') BY Follows0
<1> QED BY <1>1, <1>2, <1>8, <1>9, <1>10, Done

LEMMA Patched ==
    ASSUME NEW old \in AppRow, NEW patch \in Patches, NEW row,
           row = [f \in DOMAIN old |-> IF f \in DOMAIN patch THEN patch[f] ELSE old[f]]
    PROVE  /\ row \in AppRow /\ row.filled = old.filled
           /\ \/ row.status = old.status
              \/ row.status \in {"cancelled", "rejected", "collecting"}
              \/ row.status = "pending" /\ patch = [status |-> "pending"]
              \/ row.status = "ready" /\ patch = [status |-> "ready", pay |-> "paid"]
<1>1. DOMAIN old = {"status", "pay", "filled", "agreed"} BY DEF AppRow
<1>2. /\ DOMAIN [status |-> "pending"] = {"status"}
      /\ DOMAIN [status |-> "cancelled"] = {"status"} /\ DOMAIN [status |-> "rejected"] = {"status"}
      /\ DOMAIN [status |-> "collecting"] = {"status"} /\ DOMAIN [agreed |-> TRUE] = {"agreed"}
      /\ DOMAIN [status |-> "cancelled", agreed |-> FALSE] = {"status", "agreed"}
      /\ DOMAIN [status |-> "ready", pay |-> "paid"] = {"status", "pay"}
  OBVIOUS
<1>3. row.filled = old.filled BY <1>1, <1>2 DEF Patches
<1>4. DOMAIN patch \in {{"status"}, {"agreed"}, {"status", "agreed"}, {"status", "pay"}}
  BY <1>2 DEF Patches
<1>5. /\ "status" \in DOMAIN patch =>
            \/ patch["status"] \in {"cancelled", "rejected", "collecting"}
            \/ patch["status"] = "pending" /\ patch = [status |-> "pending"]
            \/ patch["status"] = "ready" /\ patch = [status |-> "ready", pay |-> "paid"]
      /\ "pay" \in DOMAIN patch => patch["pay"] = "paid"
      /\ "agreed" \in DOMAIN patch => patch["agreed"] \in BOOLEAN
  <2>1. CASE patch \in {[status |-> "cancelled"], [status |-> "rejected"], [status |-> "collecting"]}
    <3>1. DOMAIN patch = {"status"} /\ patch["status"] \in {"cancelled", "rejected", "collecting"}
      BY <1>2, <2>1
    <3> QED BY <3>1
  <2>2. CASE patch = [status |-> "pending"]
    <3>1. DOMAIN patch = {"status"} /\ patch["status"] = "pending" BY <1>2, <2>2
    <3> QED BY <2>2, <3>1
  <2>3. CASE patch = [status |-> "cancelled", agreed |-> FALSE]
    <3>1. /\ DOMAIN patch = {"status", "agreed"} /\ patch["status"] = "cancelled"
          /\ patch["agreed"] = FALSE
      BY <1>2, <2>3
    <3> QED BY <3>1
  <2>4. CASE patch = [agreed |-> TRUE]
    <3>1. DOMAIN patch = {"agreed"} /\ patch["agreed"] = TRUE BY <1>2, <2>4
    <3> QED BY <3>1
  <2>5. CASE patch = [status |-> "ready", pay |-> "paid"]
    <3>1. DOMAIN patch = {"status", "pay"} /\ patch["status"] = "ready" /\ patch["pay"] = "paid"
      BY <1>2, <2>5
    <3> QED BY <2>5, <3>1
  <2> QED BY <2>1, <2>2, <2>3, <2>4, <2>5 DEF Patches
<1>6. row.status = IF "status" \in DOMAIN patch THEN patch["status"] ELSE old["status"] BY <1>1
<1>7. row.pay = IF "pay" \in DOMAIN patch THEN patch["pay"] ELSE old["pay"] BY <1>1
<1>8. row.agreed = IF "agreed" \in DOMAIN patch THEN patch["agreed"] ELSE old["agreed"] BY <1>1
<1>9. row \in AppRow
  <2>1. row.status \in Statuses /\ row.pay \in {"unpaid", "declared", "paid"} /\ row.agreed \in BOOLEAN
    BY <1>5, <1>6, <1>7, <1>8 DEF AppRow, Statuses
  <2>2. row = [status |-> row.status, pay |-> row.pay, filled |-> row.filled, agreed |-> row.agreed]
    BY <1>1
  <2>3. row.filled \in SUBSET Asked BY <1>3 DEF AppRow
  <2> QED BY <2>1, <2>2, <2>3 DEF AppRow
<1> QED BY <1>3, <1>5, <1>6, <1>9

LEMMA DoSetKeeps == ASSUME CampaignSound, NEW r \in Workers, DoSet(r) PROVE CampaignSound'
<1>1. PICK a, s : a = task[r].app /\ s = Head(task[r].todo) OBVIOUS
<1>2. PICK row : row = [f \in DOMAIN app[a] |-> IF f \in DOMAIN s.patch THEN s.patch[f] ELSE app[a][f]]
  OBVIOUS
<1>3. /\ Step(r, "set") /\ Then(r, <<>>) /\ app' = [app EXCEPT ![a] = row]
      /\ submitted' = IF row.status = "pending" THEN submitted \cup {a} ELSE submitted
      /\ agreedOnce' = IF row.agreed THEN agreedOnce \cup {a} ELSE agreedOnce
      /\ verified' = IF row.pay = "paid" THEN verified \cup {a} ELSE verified
      /\ UNCHANGED <<talk, order, parcels, recalled>>
  BY <1>1, <1>2 DEF DoSet
<1>4. a \in Apps /\ s \in Writes /\ s.do = "set" /\ Presumed(s) \subseteq Facts(a)
  BY <1>1, <1>3, Due DEF CampaignSound
<1>5. s.patch \in Patches BY <1>4 DEF Writes
<1>6. RowTypes /\ RowSound(a) /\ app[a] \in AppRow BY <1>4, RowsAre
<1>7. /\ row \in AppRow /\ row.filled = app[a].filled
      /\ \/ row.status = app[a].status
         \/ row.status \in {"cancelled", "rejected", "collecting"}
         \/ row.status = "pending" /\ s.patch = [status |-> "pending"]
         \/ row.status = "ready" /\ s.patch = [status |-> "ready", pay |-> "paid"]
  BY <1>2, <1>5, <1>6, Patched
<1>8. row.status \in {"pending"} \cup Approved => Complete(a)
  <2>1. CASE row.status = app[a].status BY <1>6, <2>1 DEF RowSound
  <2>2. CASE row.status \in {"cancelled", "rejected", "collecting"} BY <2>2 DEF Approved
  <2>3. CASE s.patch \in {[status |-> "pending"], [status |-> "ready", pay |-> "paid"]}
    <3>1. Whole \subseteq Presumed(s) BY <1>4, <2>3 DEF Presumed
    <3> QED BY <1>4, <1>6, <3>1, WholeIsComplete
  <2> QED BY <1>7, <2>1, <2>2, <2>3
<1>9. row.status \in Approved => Kept(a)
  <2>1. CASE row.status = app[a].status BY <1>6, <2>1 DEF RowSound
  <2>2. CASE row.status \in {"cancelled", "rejected", "collecting", "pending"} BY <2>2 DEF Approved
  <2>3. CASE s.patch = [status |-> "ready", pay |-> "paid"]
    <3>1. "kept" \in Presumed(s) BY <1>4, <2>3 DEF Presumed
    <3> QED BY <1>4, <1>6, <3>1, FactsAre
  <2> QED BY <1>7, <2>1, <2>2, <2>3
<1>10. RowsSound' /\ Grows
  <2>1. order' \in [Apps -> Placed] BY <1>3, <1>6 DEF RowTypes
  <2>2. /\ agreedOnce \subseteq agreedOnce' /\ verified \subseteq verified'
        /\ submitted' \subseteq submitted \cup {a} /\ app[a].filled \subseteq row.filled
        /\ row.agreed => a \in agreedOnce'
        /\ row.pay = "paid" => a \in verified'
    BY <1>3, <1>7
  <2>3. a \in submitted' => row.status = "pending" \/ a \in submitted BY <1>3
  <2>4. row.status \in {"pending"} \cup Approved \/ a \in submitted'
           => row.filled = Asked /\ a \in agreedOnce'
    BY <1>6, <1>7, <1>8, <2>2, <2>3 DEF RowSound, Complete
  <2> QED BY <1>3, <1>4, <1>7, <1>9, <2>1, <2>2, <2>4, AppWritten
<1>11. Facts(a) \cup Gives(Head(task[r].todo)) \subseteq Facts(a)'
  BY <1>1, <1>4, <1>10 DEF Gives, Grows
<1>12. Follows(<<>>, Facts(a)') BY Follows0
<1> QED BY <1>1, <1>3, <1>10, <1>11, <1>12, Done

LEMMA ParcelSeq ==
    ASSUME NEW p \in Parcels
    PROVE  /\ Append(p, "pending") \in Parcels /\ Len(Append(p, "pending")) = Len(p) + 1
           /\ Len(p) \in Nat /\ DOMAIN p = 1..Len(p) /\ (p = <<>> <=> Len(p) = 0)
           /\ \A i \in DOMAIN p : Append(p, "pending")[i] = p[i]
           /\ Append(p, "pending")[Len(p) + 1] = "pending" /\ Append(p, "pending") # <<>>
           /\ DOMAIN Append(p, "pending") = 1..(Len(p) + 1)
BY DEF Parcels

\* A parcel is made only if there is none, or one was cancelled.
LEMMA CreatedRows ==
    ASSUME RowTypes, NEW a \in Apps, ParcelsSound(a), parcels' = Created(a),
           UNCHANGED <<verified, recalled>>, a \in recalled \/ parcels[a] = <<>>
    PROVE  /\ parcels' \in [Apps -> Parcels] /\ ParcelsSound(a)' /\ parcels'[a] # <<>>
           /\ \A b \in Apps \ {a} : parcels'[b] = parcels[b]
<1>1. parcels[a] \in Parcels BY DEF RowTypes
<1>2. parcels' = [parcels EXCEPT ![a] = Append(parcels[a], "pending")] BY DEF Created
<1>3. PICK p, q : p = parcels[a] /\ q = Append(p, "pending") OBVIOUS
<1>4. /\ q \in Parcels /\ Len(q) = Len(p) + 1 /\ Len(p) \in Nat /\ DOMAIN p = 1..Len(p)
      /\ (p = <<>> <=> Len(p) = 0) /\ (\A i \in DOMAIN p : q[i] = p[i]) /\ q[Len(p) + 1] = "pending"
      /\ q # <<>> /\ DOMAIN q = 1..(Len(p) + 1)
  BY <1>1, <1>3, ParcelSeq
<1>5. parcels'[a] = q /\ parcels' \in [Apps -> Parcels] /\ \A b \in Apps \ {a} : parcels'[b] = parcels[b]
  BY <1>2, <1>3, <1>4 DEF RowTypes
<1>6. a \notin recalled => Len(q) = 1 /\ \A i \in DOMAIN q : q[i] = "pending"
  BY <1>3, <1>4
<1>7. \A i \in DOMAIN q : q[i] = "shipped" => i \in DOMAIN p /\ p[i] = "shipped"
  BY <1>4
<1>8. ParcelsSound(a)' BY <1>3, <1>5, <1>6, <1>7 DEF ParcelsSound
<1> QED BY <1>4, <1>5, <1>8

LEMMA EnsuredRows ==
    ASSUME RowTypes, NEW a \in Apps, ParcelsSound(a), parcels' = Ensured(a),
           UNCHANGED <<verified, recalled>>
    PROVE  /\ parcels' \in [Apps -> Parcels] /\ ParcelsSound(a)' /\ parcels'[a] # <<>>
           /\ \A b \in Apps \ {a} : parcels'[b] = parcels[b]
<1>1. CASE Existing(a)
  <2>1. parcels' = parcels BY <1>1 DEF Ensured
  <2>2. DOMAIN parcels[a] # {} BY <1>1 DEF Existing, Live
  <2>3. parcels[a] # <<>> BY <2>2
  <2> QED BY <2>1, <2>3 DEF RowTypes, ParcelsSound
<1>2. CASE ~Existing(a)
  <2>1. parcels' = Created(a) BY <1>2 DEF Ensured
  <2>2. a \in recalled \/ parcels[a] = <<>>
    <3>1. \A i \in DOMAIN parcels[a] : parcels[a][i] = "cancelled" BY <1>2 DEF Existing, Live
    <3>2. a \notin recalled => DOMAIN parcels[a] = {} BY <3>1 DEF ParcelsSound
    <3>3. PICK p \in Parcels : p = parcels[a] BY DEF RowTypes
    <3>4. Len(p) \in Nat /\ DOMAIN p = 1..Len(p) /\ (p = <<>> <=> Len(p) = 0) BY ParcelSeq
    <3>5. DOMAIN p = {} => Len(p) = 0 BY <3>4
    <3> QED BY <3>2, <3>3, <3>4, <3>5
  <2> QED BY <2>1, <2>2, CreatedRows
<1> QED BY <1>1, <1>2

LEMMA DoCreateKeeps == ASSUME CampaignSound, NEW r \in Workers, DoCreate(r) PROVE CampaignSound'
<1>1. PICK a, s : a = task[r].app /\ s = Head(task[r].todo) OBVIOUS
<1>2. /\ Step(r, "create") /\ Then(r, <<>>) /\ parcels' = Created(a)
      /\ UNCHANGED <<app, talk, order, submitted, agreedOnce, verified, recalled>>
  BY <1>1 DEF DoCreate, ghosts
<1>3. a \in Apps /\ s \in Writes /\ s.do = "create" /\ Presumed(s) \subseteq Facts(a)
  BY <1>1, <1>2, Due DEF CampaignSound
<1>4. RowTypes /\ RowSound(a) /\ ParcelsSound(a) BY <1>3, RowsAre
<1>5. a \in recalled
  <2>1. "recalled" \in Facts(a) BY <1>3 DEF Presumed
  <2> QED BY <1>3, <1>4, <2>1, FactsAre
<1>6. /\ parcels' \in [Apps -> Parcels] /\ ParcelsSound(a)' /\ parcels'[a] # <<>>
      /\ \A b \in Apps \ {a} : parcels'[b] = parcels[b]
  BY <1>2, <1>3, <1>4, <1>5, CreatedRows
<1>7. OnlyRow(a) BY <1>2, <1>4, <1>6 DEF OnlyRow, RowTypes
<1>8. RowSound(a)' BY <1>2, <1>4, <1>6 DEF RowSound, Complete, Kept
<1>9. RowsSound' /\ Grows BY <1>3, <1>6, <1>7, <1>8, RowWritten
<1>10. Facts(a) \cup Gives(Head(task[r].todo)) \subseteq Facts(a)'
  BY <1>1, <1>3, <1>9 DEF Gives, Grows
<1>11. Follows(<<>>, Facts(a)') BY Follows0
<1> QED BY <1>1, <1>2, <1>9, <1>10, <1>11, Done

LEMMA ParcelMarked ==
    ASSUME NEW p \in Parcels, NEW i, NEW mark \in {"pending", "shipped", "cancelled"}, NEW q,
           q = [p EXCEPT ![i] = mark]
    PROVE  /\ q \in Parcels /\ DOMAIN q = DOMAIN p /\ Len(q) = Len(p) /\ (p # <<>> => q # <<>>)
           /\ \A j \in DOMAIN q : q[j] = mark \/ q[j] = p[j]
<1>1. Len(p) \in Nat /\ DOMAIN p = 1..Len(p) BY DEF Parcels
<1>2. DOMAIN q = DOMAIN p OBVIOUS
<1>3. \A j \in DOMAIN q : q[j] = IF j = i THEN mark ELSE p[j] OBVIOUS
<1>4. q \in [1..Len(p) -> {"pending", "shipped", "cancelled"}]
  <2>1. \A j \in 1..Len(p) : p[j] \in {"pending", "shipped", "cancelled"} BY DEF Parcels
  <2> QED BY <1>1, <1>2, <1>3, <2>1
<1>5. q \in Parcels BY <1>1, <1>4 DEF Parcels
<1>6. Len(q) = Len(p) BY <1>1, <1>4
<1>7. p # <<>> => q # <<>>
  <2>1. q = <<>> => Len(q) = 0 OBVIOUS
  <2>2. Len(p) = 0 => p = <<>> BY DEF Parcels
  <2> QED BY <1>6, <2>1, <2>2
<1> QED BY <1>2, <1>3, <1>5, <1>6, <1>7

LEMMA DoShipKeeps == ASSUME CampaignSound, NEW r \in Workers, DoShip(r) PROVE CampaignSound'
<1>1. PICK a, s : a = task[r].app /\ s = Head(task[r].todo) OBVIOUS
<1>2. /\ Step(r, "ship") /\ Then(r, <<>>)
      /\ parcels' = [parcels EXCEPT ![a] = [parcels[a] EXCEPT ![s.parcel] = "shipped"]]
      /\ order' = [order EXCEPT ![a] = "shipped"]
      /\ UNCHANGED <<app, talk, submitted, agreedOnce, verified, recalled>>
  BY <1>1 DEF DoShip, ghosts
<1>3. a \in Apps /\ s \in Writes /\ s.do = "ship" /\ Presumed(s) \subseteq Facts(a)
  BY <1>1, <1>2, Due DEF CampaignSound
<1>4. RowTypes /\ RowSound(a) /\ ParcelsSound(a) BY <1>3, RowsAre
<1>5. a \in verified
  <2>1. "verified" \in Facts(a) BY <1>3 DEF Presumed
  <2> QED BY <1>3, <1>4, <2>1, FactsAre
<1>6. PICK p, i, q : p = parcels[a] /\ i = s.parcel /\ q = [p EXCEPT ![i] = "shipped"] OBVIOUS
<1>7. /\ q \in Parcels /\ DOMAIN q = DOMAIN p /\ Len(q) = Len(p) /\ (p # <<>> => q # <<>>)
      /\ \A j \in DOMAIN q : q[j] = "cancelled" => p[j] = "cancelled"
  <2>1. p \in Parcels BY <1>3, <1>4, <1>6 DEF RowTypes
  <2>2. /\ q \in Parcels /\ DOMAIN q = DOMAIN p /\ Len(q) = Len(p) /\ (p # <<>> => q # <<>>)
        /\ \A j \in DOMAIN q : q[j] = "shipped" \/ q[j] = p[j]
    <3>1. q = [p EXCEPT ![i] = "shipped"] /\ "shipped" \in {"pending", "shipped", "cancelled"}
      BY <1>6
    <3> QED BY ONLY <2>1, <3>1, ParcelMarked, Zenon
  <2> QED BY <2>2
<1>8. parcels'[a] = q /\ parcels' \in [Apps -> Parcels] /\ \A b \in Apps \ {a} : parcels'[b] = parcels[b]
  BY <1>2, <1>3, <1>4, <1>6, <1>7 DEF RowTypes
<1>9. order' \in [Apps -> Placed] BY <1>2, <1>4 DEF RowTypes, Placed
<1>10. OnlyRow(a) BY <1>2, <1>4, <1>6, <1>7, <1>8, <1>9 DEF OnlyRow, RowTypes
<1>11. RowSound(a)' BY <1>2, <1>4, <1>6, <1>7, <1>8 DEF RowSound, Complete, Kept
<1>12. ParcelsSound(a)' BY <1>2, <1>4, <1>5, <1>6, <1>7, <1>8 DEF ParcelsSound
<1>13. RowsSound' /\ Grows BY <1>3, <1>10, <1>11, <1>12, RowWritten
<1>14. Facts(a) \cup Gives(Head(task[r].todo)) \subseteq Facts(a)'
  BY <1>1, <1>3, <1>13 DEF Gives, Grows
<1>15. Follows(<<>>, Facts(a)') BY Follows0
<1> QED BY <1>1, <1>2, <1>13, <1>14, <1>15, Done

LEMMA RecallKeeps == ASSUME CampaignSound, NEW a \in Apps, Recall(a) PROVE CampaignSound'
<1>1. PICK i \in DOMAIN parcels[a] : parcels[a][i] = "pending"
                                     /\ parcels' = [parcels EXCEPT ![a][i] = "cancelled"]
  BY DEF Recall
<1>2. /\ order' = [order EXCEPT ![a] = "cancelled"] /\ recalled' = recalled \cup {a}
      /\ UNCHANGED <<app, talk, task, submitted, agreedOnce, verified>>
  BY DEF Recall
<1>3. RowTypes /\ RowSound(a) /\ ParcelsSound(a) BY RowsAre
<1>4. PICK p, q : p = parcels[a] /\ q = [p EXCEPT ![i] = "cancelled"] OBVIOUS
<1>5. /\ q \in Parcels /\ DOMAIN q = DOMAIN p /\ (p # <<>> => q # <<>>)
      /\ \A j \in DOMAIN q : q[j] = "shipped" => p[j] = "shipped"
  <2>1. p \in Parcels BY <1>3, <1>4 DEF RowTypes
  <2>2. /\ q \in Parcels /\ DOMAIN q = DOMAIN p /\ (p # <<>> => q # <<>>)
        /\ \A j \in DOMAIN q : q[j] = "cancelled" \/ q[j] = p[j]
    BY <1>4, <2>1, ParcelMarked
  <2> QED BY <2>2
<1>6. parcels'[a] = q /\ parcels' \in [Apps -> Parcels] /\ \A b \in Apps \ {a} : parcels'[b] = parcels[b]
  BY <1>1, <1>3, <1>4, <1>5 DEF RowTypes
<1>7. order' \in [Apps -> Placed] BY <1>2, <1>3 DEF RowTypes, Placed
<1>8. OnlyRow(a) BY <1>2, <1>3, <1>4, <1>5, <1>6, <1>7 DEF OnlyRow, RowTypes
<1>9. RowSound(a)' BY <1>2, <1>3 DEF RowSound, Complete, Kept
<1>10. ParcelsSound(a)' BY <1>2, <1>3, <1>4, <1>5, <1>6 DEF ParcelsSound
<1>11. RowsSound' /\ Grows BY <1>8, <1>9, <1>10, RowWritten
<1>12. \A q2 \in Workers : TaskSound(q2)' BY <1>2, <1>11, OthersSound DEF CampaignSound
<1> QED BY <1>2, <1>11, <1>12 DEF CampaignSound, TasksSound, TaskTypes

\* Transactions.
LEMMA OnwardFollows ==
    ASSUME NEW facts, NEW s, NEW row \in AppRow, NEW pet \in Pets, row.filled \subseteq facts,
           Before(s.step) \subseteq facts
    PROVE  Follows(Onward(s, row, pet), facts)
<1>1. CASE s.step = "transfer" /\ row.status # "ready"
  <2> DEFINE to == AfterTransfer(row, pet)
  <2>1. {"name", "phone", "store"} \subseteq facts
    <3>1. Before("transfer") = {"name", "phone", "store"} BY BeforeIs
    <3> QED BY <1>1, <3>1
  <2>2. pet \in {{}, {"pet"}} /\ row.filled \cap Asked \subseteq facts BY DEF Pets
  <2>3. to \in Steps /\ Before(to) \subseteq facts BY <2>1, <2>2, TransferGives
  <2>4. Onward(s, row, pet) = <<Goto(to)>> BY <1>1 DEF Onward
  <2> HIDE DEF to
  <2>5. Link(Goto(to), facts) BY <2>3, Goto1 DEF Link
  <2> QED BY <2>4, <2>5, Follows1
<1>2. CASE ~(s.step = "transfer" /\ row.status # "ready")
  <2>1. Onward(s, row, pet) = <<>> BY <1>2 DEF Onward
  <2> QED BY <2>1, Follows0
<1> QED BY <1>1, <1>2

LEMMA DeclareReadKeeps == ASSUME CampaignSound, NEW r \in Workers, DeclareRead(r) PROVE CampaignSound'
<1>1. PICK a, s : a = task[r].app /\ s = Head(task[r].todo) OBVIOUS
<1> DEFINE commit == [do |-> "commit", step |-> s.step, status |-> app[a].status, notes |-> talk[a].notes]
<1>2. Step(r, "declare") /\ Quiet BY DEF DeclareRead, Quiet, ghosts
<1>3. PICK pet \in Pets : Then(r, IF Declared(app[a].pay, talk[a].notes) THEN Onward(s, app[a], pet)
                                  ELSE <<commit>>)
  BY <1>1 DEF DeclareRead
<1>4. a \in Apps /\ s \in Writes /\ s.do = "declare" /\ Presumed(s) \subseteq Facts(a)
  BY <1>1, <1>2, Due DEF CampaignSound
<1>5. s.step \in Steps /\ Before(s.step) \subseteq Facts(a) BY <1>4 DEF Writes, Presumed
<1>6. app[a] \in AppRow /\ talk[a] \in TalkRow BY <1>4, RowsAre
<1>7. app[a].filled \subseteq Facts(a) BY <1>4, RowKnown
<1>8. Follows(Onward(s, app[a], pet), Facts(a)) BY <1>5, <1>6, <1>7, OnwardFollows
<1>9. Link(commit, Facts(a))
  <2>1. app[a].status \in Statuses /\ talk[a].notes \in SUBSET Notes BY <1>6 DEF AppRow, TalkRow
  <2>2. /\ commit \in Writes /\ commit.do = "commit"
        /\ Presumed(commit) = Before(s.step) \cup (IF app[a].status = "awaiting" THEN Whole ELSE {})
    BY <1>5, <2>1 DEF Writes, Presumed
  <2>3. app[a].status = "awaiting" => Whole \subseteq Facts(a) BY <1>4, RowKnown DEF Approved
  <2> QED BY <1>5, <2>2, <2>3 DEF Link
<1>10. Follows(<<commit>>, Facts(a)) BY <1>9, Follows1
<1> HIDE DEF commit
<1>11. \E first : Then(r, first) /\ Follows(first, Facts(a))
  BY <1>3, <1>8, <1>10
<1> QED BY <1>1, <1>2, <1>11, QuietDone

LEMMA DeclareCommitIs ==
    ASSUME NEW r \in Workers, DeclareCommit(r)
    PROVE  \E a, s :
             /\ a = task[r].app /\ s = Head(task[r].todo)
             /\ app' = [app EXCEPT ![a] = DeclaredRow(app[a], s.status = "awaiting")]
             /\ talk' = [talk EXCEPT ![a] = DeclaredTalk(talk[a], s.notes, s.status = "awaiting")]
             /\ order' = IF s.status = "awaiting" THEN [order EXCEPT ![a] = "confirmed"] ELSE order
             /\ parcels' = IF s.status = "awaiting" THEN Ensured(a) ELSE parcels
<1> WITNESS task[r].app, Head(task[r].todo)
<1>1. app' = [app EXCEPT ![task[r].app] =
                 DeclaredRow(app[task[r].app], Head(task[r].todo).status = "awaiting")]
  BY DEF DeclareCommit
<1>2. talk' = [talk EXCEPT ![task[r].app] =
                 DeclaredTalk(talk[task[r].app], Head(task[r].todo).notes, Head(task[r].todo).status = "awaiting")]
  BY DEF DeclareCommit
<1> QED BY <1>1, <1>2 DEF DeclareCommit

LEMMA DeclareCommitKeeps ==
    ASSUME CampaignSound, NEW r \in Workers, DeclareCommit(r) PROVE CampaignSound'
<1>1. PICK a, s :
         /\ a = task[r].app /\ s = Head(task[r].todo)
         /\ app' = [app EXCEPT ![a] = DeclaredRow(app[a], s.status = "awaiting")]
         /\ talk' = [talk EXCEPT ![a] = DeclaredTalk(talk[a], s.notes, s.status = "awaiting")]
         /\ order' = IF s.status = "awaiting" THEN [order EXCEPT ![a] = "confirmed"] ELSE order
         /\ parcels' = IF s.status = "awaiting" THEN Ensured(a) ELSE parcels
  BY DeclareCommitIs
<1> DEFINE approved == s.status = "awaiting"
           row == DeclaredRow(app[a], approved)
           said == DeclaredTalk(talk[a], s.notes, approved)
<1>2. /\ Step(r, "commit") /\ app' = [app EXCEPT ![a] = row] /\ talk' = [talk EXCEPT ![a] = said]
      /\ order' = IF approved THEN [order EXCEPT ![a] = "confirmed"] ELSE order
      /\ parcels' = IF approved THEN Ensured(a) ELSE parcels
      /\ UNCHANGED <<submitted, agreedOnce, verified, recalled>>
  BY <1>1 DEF DeclareCommit, ghosts
<1>3. PICK pet \in Pets : Then(r, Onward(s, app'[a], pet)) BY <1>1 DEF DeclareCommit
<1>4. a \in Apps /\ s \in Writes /\ s.do = "commit" /\ Presumed(s) \subseteq Facts(a)
  BY <1>1, <1>2, Due DEF CampaignSound
<1>5. /\ s.notes \in SUBSET Notes /\ Before(s.step) \subseteq Facts(a)
      /\ approved => Whole \subseteq Facts(a)
  BY <1>4 DEF Writes, Presumed
<1>6. /\ RowTypes /\ RowSound(a) /\ ParcelsSound(a) /\ app[a] \in AppRow /\ talk[a] \in TalkRow
      /\ parcels[a] \in Parcels
  BY <1>4, RowsAre
<1>7. approved => Complete(a) BY <1>4, <1>5, <1>6, WholeIsComplete
<1>8. /\ row \in AppRow /\ row.filled = app[a].filled /\ row.agreed = app[a].agreed
      /\ row.pay \in {"declared", app[a].pay}
      /\ row.status = IF approved THEN "ready" ELSE app[a].status
  BY <1>6 DEF AppRow, Statuses, DeclaredRow
<1>9. said \in TalkRow /\ said.step = IF approved THEN "ready" ELSE talk[a].step
  BY <1>5, <1>6 DEF TalkRow, Steps, Notes, DeclaredTalk
<1> HIDE DEF approved, row, said
<1>10. /\ parcels' \in [Apps -> Parcels] /\ ParcelsSound(a)'
       /\ approved \/ parcels[a] # <<>> => parcels'[a] # <<>>
       /\ \A b \in Apps \ {a} : parcels'[b] = parcels[b]
  <2>1. CASE approved BY <1>2, <1>4, <1>6, <2>1, EnsuredRows
  <2>2. CASE ~approved BY <1>2, <1>4, <1>6, <2>2 DEF ParcelsSound, RowTypes
  <2> QED BY <2>1, <2>2
<1>11. /\ app'[a] = row /\ talk'[a] = said
       /\ \A b \in Apps \ {a} : app'[b] = app[b] /\ talk'[b] = talk[b]
  BY <1>2, <1>4, <1>6 DEF RowTypes
<1>12. RowTypes' BY <1>2, <1>6, <1>8, <1>9, <1>10 DEF RowTypes, Placed
<1>13. OnlyRow(a) BY <1>2, <1>8, <1>10, <1>11, <1>12 DEF OnlyRow
<1>14. RowSound(a)'
  <2>1. (app'[a].agreed => a \in agreedOnce') /\ (app'[a].pay = "paid" => a \in verified')
    BY <1>2, <1>6, <1>8, <1>11 DEF RowSound
  <2>2. (app'[a].status \in {"pending"} \cup Approved \/ a \in submitted') => Complete(a)'
    BY <1>2, <1>6, <1>7, <1>8, <1>11 DEF RowSound, Complete
  <2>3. app'[a].status \in Approved => Kept(a)'
    BY <1>2, <1>6, <1>8, <1>10, <1>11 DEF RowSound, Kept
  <2>4. Before(talk'[a].step) \subseteq app'[a].filled
    <3>1. Before("ready") = {} BY Resting
    <3> QED BY <1>6, <1>8, <1>9, <1>11, <3>1 DEF RowSound
  <2> QED BY <2>1, <2>2, <2>3, <2>4 DEF RowSound
<1>15. RowsSound' /\ Grows BY <1>4, <1>10, <1>13, <1>14, RowWritten
<1>16. PICK facts : facts = Facts(a)' OBVIOUS
<1>17. Facts(a) \subseteq facts BY <1>4, <1>15, <1>16 DEF Grows
<1>18. row.filled \subseteq facts BY <1>11, <1>16 DEF Facts
<1>19. Before(s.step) \subseteq facts BY <1>5, <1>17
<1>20. Follows(Onward(s, row, pet), facts) BY <1>8, <1>18, <1>19, OnwardFollows
<1>21. Follows(Onward(s, row, pet), Facts(a)') BY <1>16, <1>20, Zenon
<1>22. Then(r, Onward(s, row, pet)) BY <1>3, <1>11
<1>23. Facts(a) \cup Gives(Head(task[r].todo)) \subseteq Facts(a)'
  BY <1>1, <1>4, <1>15 DEF Gives, Grows
<1> QED BY <1>1, <1>2, <1>15, <1>21, <1>22, <1>23, Done

LEMMA ApproveCommitKeeps ==
    ASSUME CampaignSound, NEW r \in Workers, ApproveCommit(r) PROVE CampaignSound'
<1>1. PICK a, s : a = task[r].app /\ s = Head(task[r].todo) OBVIOUS
<1>2. Step(r, "approve") /\ Then(r, <<>>)
      /\ UNCHANGED <<submitted, agreedOnce, verified, recalled>>
  BY DEF ApproveCommit, ghosts
<1>3. PICK next \in Approved :
         \/ /\ app' = [app EXCEPT ![a] = [app[a] EXCEPT !.status = next]]
            /\ talk' = [talk EXCEPT ![a] = [talk[a] EXCEPT !.step = next]]
            /\ order' \in [Apps -> Placed] /\ parcels' = Ensured(a)
         \/ UNCHANGED <<app, talk, order>> /\ (parcels' = Ensured(a) \/ parcels' = parcels)
  <2>1. PICK next : next = IF s.declared THEN "ready" ELSE "awaiting" OBVIOUS
  <2>2. \/ /\ app' = [app EXCEPT ![a] = [app[a] EXCEPT !.status = next]]
           /\ talk' = [talk EXCEPT ![a] = [talk[a] EXCEPT !.step = next]]
           /\ order' = [order EXCEPT ![a] = IF s.declared THEN "confirmed" ELSE "awaiting"]
           /\ parcels' = Queued(a, next)
        \/ UNCHANGED <<app, talk, order>> /\ (parcels' = Ensured(a) \/ parcels' = parcels)
    BY <1>1, <2>1 DEF ApproveCommit
  <2>3. order \in [Apps -> Placed] BY DEF CampaignSound, RowsSound, RowTypes
  <2>4. next \in Approved BY <2>1 DEF Approved
  <2> QED BY <2>2, <2>3, <2>4 DEF Queued, Placed
<1>4. a \in Apps /\ s \in Writes /\ s.do = "approve" /\ Presumed(s) \subseteq Facts(a)
  BY <1>1, <1>2, Due DEF CampaignSound
<1>5. /\ RowTypes /\ RowSound(a) /\ ParcelsSound(a) /\ app[a] \in AppRow /\ talk[a] \in TalkRow
  BY <1>4, RowsAre
<1>6. Complete(a)
  <2>1. Whole \subseteq Facts(a) BY <1>4 DEF Presumed
  <2> QED BY <1>4, <1>5, <2>1, WholeIsComplete
<1>7. /\ parcels' \in [Apps -> Parcels] /\ ParcelsSound(a)'
      /\ parcels[a] # <<>> => parcels'[a] # <<>>
      /\ parcels' = Ensured(a) => parcels'[a] # <<>>
      /\ \A b \in Apps \ {a} : parcels'[b] = parcels[b]
  <2>1. CASE parcels' = Ensured(a) BY <1>2, <1>4, <1>5, <2>1, EnsuredRows
  <2>2. CASE parcels' # Ensured(a) /\ parcels' = parcels
    BY <1>2, <1>4, <1>5, <2>2 DEF ParcelsSound, RowTypes
  <2> QED BY <1>3, <2>1, <2>2
<1>8. RowsSound' /\ Grows
  <2>1. CASE UNCHANGED <<app, talk, order>>
    <3>1. RowTypes' BY <1>5, <1>7, <2>1 DEF RowTypes
    <3>2. OnlyRow(a) BY <1>2, <1>7, <2>1, <3>1 DEF OnlyRow
    <3>3. RowSound(a)' BY <1>2, <1>5, <1>7, <2>1 DEF RowSound, Complete, Kept
    <3> QED BY <1>4, <1>7, <3>2, <3>3, RowWritten
  <2>2. CASE /\ app' = [app EXCEPT ![a] = [app[a] EXCEPT !.status = next]]
             /\ talk' = [talk EXCEPT ![a] = [talk[a] EXCEPT !.step = next]]
             /\ order' \in [Apps -> Placed] /\ parcels' = Ensured(a)
    <3>1. PICK row, said : row = [app[a] EXCEPT !.status = next] /\ said = [talk[a] EXCEPT !.step = next]
      OBVIOUS
    <3>2. /\ row \in AppRow /\ row.status = next /\ row.filled = app[a].filled
          /\ row.agreed = app[a].agreed /\ row.pay = app[a].pay
      BY <1>5, <3>1 DEF AppRow, Statuses, Approved
    <3>3. said \in TalkRow /\ said.step = next BY <1>5, <3>1 DEF TalkRow, Steps, Approved
    <3>4. /\ app'[a] = row /\ talk'[a] = said
          /\ \A b \in Apps \ {a} : app'[b] = app[b] /\ talk'[b] = talk[b]
      BY <1>4, <1>5, <2>2, <3>1 DEF RowTypes
    <3>5. RowTypes' BY <1>5, <1>7, <2>2, <3>1, <3>2, <3>3 DEF RowTypes
    <3>6. OnlyRow(a) BY <1>2, <1>7, <3>2, <3>4, <3>5 DEF OnlyRow
    <3>7. Before(next) = {} BY Resting DEF Approved
    <3>8. RowSound(a)'
      BY <1>2, <1>5, <1>6, <1>7, <2>2, <3>2, <3>3, <3>4, <3>7 DEF RowSound, Complete, Kept
    <3> QED BY <1>4, <1>7, <3>6, <3>8, RowWritten
  <2> QED BY <1>3, <2>1, <2>2
<1>9. Facts(a) \cup Gives(Head(task[r].todo)) \subseteq Facts(a)'
  BY <1>1, <1>4, <1>8 DEF Gives, Grows
<1>10. Follows(<<>>, Facts(a)') BY Follows0
<1> QED BY <1>1, <1>2, <1>8, <1>9, <1>10, Done

LEMMA RepairCommitKeeps ==
    ASSUME CampaignSound, NEW r \in Workers, RepairCommit(r) PROVE CampaignSound'
<1>1. PICK a, s : a = task[r].app /\ s = Head(task[r].todo) OBVIOUS
<1>2. /\ Step(r, "repair") /\ Then(r, <<>>) /\ app' = [app EXCEPT ![a] = [app[a] EXCEPT !.status = s.status]]
      /\ order' = [order EXCEPT ![a] = IF s.status = "ready" THEN "confirmed" ELSE "awaiting"]
      /\ parcels' = Ensured(a) /\ UNCHANGED <<talk, submitted, agreedOnce, verified, recalled>>
  BY <1>1 DEF RepairCommit, ghosts
<1>3. a \in Apps /\ s \in Writes /\ s.do = "repair" /\ Presumed(s) \subseteq Facts(a)
  BY <1>1, <1>2, Due DEF CampaignSound
<1>4. s.status \in Approved BY <1>3 DEF Writes
<1>5. RowTypes /\ RowSound(a) /\ ParcelsSound(a) /\ app[a] \in AppRow BY <1>3, RowsAre
<1>6. Complete(a)
  <2>1. Whole \subseteq Facts(a) BY <1>3 DEF Presumed
  <2> QED BY <1>3, <1>5, <2>1, WholeIsComplete
<1>7. /\ parcels' \in [Apps -> Parcels] /\ ParcelsSound(a)' /\ parcels'[a] # <<>>
      /\ \A b \in Apps \ {a} : parcels'[b] = parcels[b]
  BY <1>2, <1>3, <1>5, EnsuredRows
<1>8. PICK row : row = [app[a] EXCEPT !.status = s.status] OBVIOUS
<1>9. /\ row \in AppRow /\ row.status = s.status /\ row.filled = app[a].filled
      /\ row.agreed = app[a].agreed /\ row.pay = app[a].pay
  BY <1>4, <1>5, <1>8 DEF AppRow, Statuses, Approved
<1>10. app'[a] = row /\ \A b \in Apps \ {a} : app'[b] = app[b]
  BY <1>2, <1>3, <1>5, <1>8 DEF RowTypes
<1>11. order' \in [Apps -> Placed] BY <1>2, <1>5 DEF RowTypes, Placed
<1>12. app' \in [Apps -> AppRow] BY <1>2, <1>5, <1>8, <1>9 DEF RowTypes
<1>13. OnlyRow(a) BY <1>2, <1>5, <1>7, <1>9, <1>10, <1>11, <1>12 DEF OnlyRow, RowTypes
<1>14. RowSound(a)' BY <1>2, <1>5, <1>6, <1>7, <1>9, <1>10 DEF RowSound, Complete, Kept
<1>15. RowsSound' /\ Grows BY <1>3, <1>7, <1>13, <1>14, RowWritten
<1>16. Facts(a) \cup Gives(Head(task[r].todo)) \subseteq Facts(a)'
  BY <1>1, <1>3, <1>15 DEF Gives, Grows
<1>17. Follows(<<>>, Facts(a)') BY Follows0
<1> QED BY <1>1, <1>2, <1>15, <1>16, <1>17, Done

LEMMA DoEnrolKeeps ==
    ASSUME CampaignSound, NEW r \in Workers, NEW a \in Apps, DoEnrol(r, a) PROVE CampaignSound'
<1>1. /\ Step(r, "enrol") /\ app[a] = NoApp
      /\ app' = [app EXCEPT ![a] = [app[a] EXCEPT !.status = "collecting"]]
      /\ order' = [order EXCEPT ![a] = "draft"]
      /\ task' = [task EXCEPT ![r] = [app |-> a, todo |-> Tail(task[r].todo)]]
      /\ UNCHANGED <<talk, parcels, submitted, agreedOnce, verified, recalled>>
  BY DEF DoEnrol, ghosts
<1>2. RowTypes /\ RowSound(a) /\ app[a] \in AppRow BY RowsAre
<1>3. PICK row : row = [app[a] EXCEPT !.status = "collecting"] OBVIOUS
<1>4. /\ row \in AppRow /\ row.status = "collecting" /\ row.filled = app[a].filled
      /\ row.agreed = app[a].agreed /\ row.pay = app[a].pay
  BY <1>2, <1>3 DEF AppRow, Statuses
<1>5. RowsSound' /\ Grows
  <2>1. order' \in [Apps -> Placed] BY <1>1, <1>2 DEF RowTypes, Placed
  <2>2. row.status \notin {"pending"} \cup Approved BY <1>4 DEF Approved
  <2>3. row.agreed => a \in agreedOnce BY <1>2, <1>4 DEF RowSound
  <2>4. row.pay = "paid" => a \in verified BY <1>2, <1>4 DEF RowSound
  <2>5. a \in submitted => row.filled = Asked /\ a \in agreedOnce
    BY <1>2, <1>4 DEF RowSound, Complete
  <2> QED BY <1>1, <1>3, <1>4, <2>1, <2>2, <2>3, <2>4, <2>5, AppWritten
<1>6. task[r].todo = Enrolment
  <2>1. TaskSound(r) /\ task[r].todo # <<>> /\ Head(task[r].todo).do = "enrol"
    BY <1>1 DEF CampaignSound, TasksSound, Step
  <2> QED BY <2>1 DEF TaskSound, Sound
<1>7. Tail(task[r].todo) = <<[do |-> "open"], Goto("product")>>
  <2>1. [do |-> "enrol"] \in Writes /\ [do |-> "open"] \in Writes /\ Goto("product") \in Writes
    BY Goto1 DEF Writes, Steps
  <2>2. ASSUME NEW x \in Writes, NEW y \in Writes, NEW z \in Writes
        PROVE  Tail(<<x, y, z>>) = <<y, z>>
    OBVIOUS
  <2>3. Tail(Enrolment) = <<[do |-> "open"], Goto("product")>> BY <2>1, <2>2 DEF Enrolment
  <2> QED BY <1>6, <2>3
<1>8. PICK facts, todo : facts = Facts(a)' /\ todo = <<[do |-> "open"], Goto("product")>> OBVIOUS
<1>9. Sound(todo, facts)
  <2>1. Link([do |-> "open"], facts) BY DEF Link, Writes, Presumed
  <2>2. Link(Goto("product"), facts) BY Goto1, Resting DEF Link, Steps
  <2> QED BY <1>8, <2>1, <2>2, Follows2, FollowsSound
<1>10. TaskTypes /\ TaskTypes' BY <1>1 DEF CampaignSound, TasksSound, TaskTypes
<1>11. TaskSound(r)'
  <2>1. task'[r].todo = todo /\ task'[r].app = a BY <1>1, <1>7, <1>8, <1>10 DEF TaskTypes
  <2>2. Sound(todo, Facts(a)') BY <1>8, <1>9, Zenon
  <2> QED BY <2>1, <2>2 DEF TaskSound
<1>12. \A q \in Workers \ {r} : TaskSound(q)'
  BY <1>1, <1>5, <1>10, OthersSound DEF CampaignSound, TaskTypes
<1> QED BY <1>5, <1>10, <1>11, <1>12 DEF CampaignSound, TasksSound

LEMMA CampaignInit == JibaInit => CampaignSound
<1> SUFFICES ASSUME JibaInit PROVE CampaignSound
  OBVIOUS
<1>1. NoApp \in AppRow /\ NoApp.status = "none" /\ NoApp.pay = "unpaid" /\ ~NoApp.agreed
  BY DEF NoApp, AppRow, Statuses
<1>2. NoTalk \in TalkRow /\ NoTalk.step = "none" BY DEF NoTalk, TalkRow, Steps
<1>3. RowTypes BY <1>1, <1>2 DEF JibaInit, RowTypes, Placed, Parcels
<1>4. ASSUME NEW a \in Apps PROVE RowSound(a) /\ ParcelsSound(a)
  <2>1. app[a] = NoApp /\ talk[a] = NoTalk /\ parcels[a] = <<>> /\ submitted = {} BY DEF JibaInit
  <2>2. RowSound(a) BY <1>1, <1>2, <2>1, BeforeIs DEF RowSound, Approved
  <2>3. ParcelsSound(a) BY <2>1 DEF ParcelsSound
  <2> QED BY <2>2, <2>3
<1>5. TasksSound BY DEF JibaInit, TasksSound, TaskTypes, TaskSound, Free
<1> QED BY <1>3, <1>4, <1>5 DEF CampaignSound, RowsSound

LEMMA CampaignStep == CampaignSound /\ [JibaNext]_jibaVars => CampaignSound'
<1> SUFFICES ASSUME CampaignSound, [JibaNext]_jibaVars PROVE CampaignSound'
  OBVIOUS
<1>1. CASE UNCHANGED jibaVars
  <2>1. Quiet /\ UNCHANGED task BY <1>1 DEF jibaVars, Quiet
  <2>2. RowsSound' /\ Grows BY <2>1, QuietRows
  <2>3. \A q \in Workers : TaskSound(q)' BY <2>1, <2>2, OthersSound DEF CampaignSound
  <2> QED BY <2>1, <2>2, <2>3 DEF CampaignSound, TasksSound, TaskTypes
<1>2. ASSUME NEW a \in Apps, FindHelper(a) \/ Recall(a) PROVE CampaignSound'
  BY <1>2, FindHelperKeeps, RecallKeeps
<1>3. ASSUME NEW r \in Workers, NEW a \in Apps,
             \/ Hear(r, a) \/ HearDeclared(r, a) \/ HearResume(r, a) \/ Pause(r, a)
             \/ HearCancel(r, a) \/ Approve(r, a) \/ Reject(r, a) \/ Return(r, a)
             \/ MarkPaid(r, a) \/ Backfill(r, a) \/ MarkShipped(r, a) \/ DoEnrol(r, a)
      PROVE  CampaignSound'
  BY <1>3, HearKeeps, HearDeclaredKeeps, HearResumeKeeps, PauseKeeps, HearCancelKeeps, ApproveKeeps,
     RejectKeeps, ReturnKeeps, MarkPaidKeeps, BackfillKeeps, MarkShippedKeeps, DoEnrolKeeps
<1>4. ASSUME NEW r \in Workers,
             \/ Enrol(r)
             \/ DoOpen(r) \/ DoFill(r) \/ DoSet(r) \/ DoPut(r) \/ DoPeek(r) \/ DoMove(r)
             \/ DoRead(r) \/ DoSame(r) \/ DoLook(r) \/ DoCreate(r) \/ DoShip(r)
             \/ DeclareRead(r) \/ DeclareCommit(r) \/ ApproveCommit(r) \/ RepairCommit(r) \/ Dropped(r)
      PROVE  CampaignSound'
  BY <1>4, EnrolKeeps, DoOpenKeeps, DoFillKeeps, DoSetKeeps, DoPutKeeps, DoPeekKeeps, DoMoveKeeps,
     DoReadKeeps, DoSameKeeps, DoLookKeeps, DoCreateKeeps, DoShipKeeps, DeclareReadKeeps,
     DeclareCommitKeeps, ApproveCommitKeeps, RepairCommitKeeps, DroppedKeeps
<1> QED BY <1>1, <1>2, <1>3, <1>4 DEF JibaNext

LEMMA CampaignAlways == JibaSpec => []CampaignSound
BY CampaignInit, CampaignStep, PTL DEF JibaSpec

\* Whatever messages cross, are delivered twice or die halfway, an application
\* that reaches the supervisor is complete and its customer has accepted the
\* licence.
THEOREM ReviewedAlwaysComplete == JibaSpec => []ReviewedIsComplete
<1>1. CampaignSound => ReviewedIsComplete
  BY DEF CampaignSound, RowsSound, RowSound, Complete, ReviewedIsComplete
<1> QED BY <1>1, CampaignAlways, PTL

\* However late a parcel is marked as sent, the supervisor had seen the money.
THEOREM SentAlwaysPaid == JibaSpec => []SentWasPaid
<1>1. CampaignSound => SentWasPaid
  BY DEF CampaignSound, RowsSound, ParcelsSound, SentWasPaid
<1> QED BY <1>1, CampaignAlways, PTL

\* An approved application has exactly one live parcel, whichever of the five
\* handlers queued it and however they overlap, unless the staff cancelled one.
THEOREM ApprovedAlwaysQueued == JibaSpec => []ApprovedIsQueued
<1>1. ASSUME CampaignSound, NEW a \in Apps \ recalled
      PROVE  Cardinality(Live(a)) <= 1 /\ (app[a].status \in Approved => Cardinality(Live(a)) = 1)
  <2>1. RowTypes /\ RowSound(a) /\ ParcelsSound(a) BY <1>1 DEF CampaignSound, RowsSound
  <2>2. PICK p \in Parcels : p = parcels[a] BY <2>1 DEF RowTypes
  <2>3. Len(p) \in Nat /\ DOMAIN p = 1..Len(p) /\ (p = <<>> <=> Len(p) = 0) BY ParcelSeq
  <2>4. Live(a) = 1..Len(p) /\ Len(p) <= 1 BY <2>1, <2>2, <2>3 DEF Live, ParcelsSound
  <2>5. app[a].status \in Approved => Len(p) = 1
    <3>1. app[a].status \in Approved => p # <<>> BY <2>1, <2>2 DEF RowSound, Kept
    <3> QED BY <2>3, <2>4, <3>1
  <2>6. Cardinality(1..Len(p)) = Len(p)
    <3>1. CASE Len(p) = 0
      <4>1. 1..Len(p) = {} BY <3>1
      <4> QED BY <3>1, <4>1, FS_EmptySet
    <3>2. CASE Len(p) = 1
      <4>1. 1..Len(p) = {1} BY <3>2
      <4> QED BY <3>2, <4>1, FS_Singleton
    <3> QED BY <2>3, <2>4, <3>1, <3>2
  <2> QED BY <2>3, <2>4, <2>5, <2>6
<1>2. CampaignSound => ApprovedIsQueued BY <1>1 DEF ApprovedIsQueued
<1> QED BY <1>2, CampaignAlways, PTL

-----------------------------------------------------------------------------
(***************************************************************************)
(* Appointments.  A request that has read a day holds what it read for as   *)
(* long as nothing marks it as overtaken: that is all its write needs.  A   *)
(* reminder is marked only after it was told or withheld, for that time.    *)
(***************************************************************************)
Messages == {"received", "confirmed", "moved", "shop"} \cup Reminders
ApptRow == [status : {"absent", "requested", "confirmed", "cancelled"},
            slot : Slots \cup {0}, over : BOOLEAN, marks : SUBSET Messages]
DueSet == SUBSET [appt : Appointments, message : Reminders, slot : Slots]
DeskRow ==
    [op : {"rest"}]
    \cup [op : {"book"}, by : {"customer", "merchant"}, slot : Slots,
          full : BOOLEAN, doomed : BOOLEAN, late : BOOLEAN]
    \cup [op : {"confirm"}, appt : Appointments, late : BOOLEAN]
    \cup [op : {"move"}, appt : Appointments, slot : Slots, over : BOOLEAN, late : BOOLEAN]
    \cup [op : {"tell"}, appt : Appointments, what : {"received", "confirmed", "moved"}]
    \cup [op : {"push", "mark"}, appt : Appointments, message : Messages,
          slot : Slots \cup {0}, due : DueSet]
    \cup [op : {"scan"}, due : DueSet]
BookingTypes ==
    /\ appts \in [Appointments -> ApptRow] /\ desk \in [Desks -> DeskRow]
    /\ capacity \in Nat /\ peak \in Nat /\ capacity <= peak

\* Who is in a slot beside some, and who has a place of its own there.
In(s, apart) == {b \in Occupying \ apart : appts[b].slot = s}
Own(s) == {b \in Occupying : appts[b].slot = s /\ ~appts[b].over}
ReadHolds(r) ==
    /\ r.op = "book" /\ ~r.doomed /\ ~r.late /\ ~r.full => Cardinality(In(r.slot, {})) < peak
    /\ r.op = "move" /\ ~r.late /\ ~r.over => Cardinality(In(r.slot, {r.appt})) < peak
    /\ r.op = "confirm" /\ ~r.late => r.appt \in Occupying
Settled == told \cup withheld
TellsTrue(r) ==
    /\ r.op = "push" /\ r.message \in Reminders => r.slot \in Slots
    /\ r.op = "mark" /\ r.message \in Reminders /\ r.appt \in Reachable
          => <<r.appt, r.message, r.slot>> \in Settled
Told(a) ==
    \A k \in Reminders \cap appts[a].marks :
        a \in Reachable \ (untold \cup crossed) => <<a, k, appts[a].slot>> \in Settled
BookingSound ==
    /\ BookingTypes
    /\ \A s \in Slots \ raced : Cardinality(Own(s)) <= peak
    /\ \A d \in Desks : ReadHolds(desk[d]) /\ TellsTrue(desk[d])
    /\ \A a \in Appointments : Told(a)

LEMMA DeskFields ==
    ASSUME NEW r \in DeskRow
    PROVE  /\ r.op \in {"rest", "book", "confirm", "move", "tell", "push", "mark", "scan"}
           /\ r.op = "book" => /\ r.slot \in Slots /\ r.full \in BOOLEAN /\ r.doomed \in BOOLEAN
                               /\ r.late \in BOOLEAN /\ r.by \in {"customer", "merchant"}
           /\ r.op = "confirm" => r.appt \in Appointments /\ r.late \in BOOLEAN
           /\ r.op = "move" => /\ r.appt \in Appointments /\ r.slot \in Slots
                               /\ r.over \in BOOLEAN /\ r.late \in BOOLEAN
           /\ r.op = "tell" => r.appt \in Appointments /\ r.what \in {"received", "confirmed", "moved"}
           /\ r.op \in {"push", "mark"} => /\ r.appt \in Appointments /\ r.message \in Messages
                                           /\ r.slot \in Slots \cup {0} /\ r.due \in DueSet
           /\ r.op = "scan" => r.due \in DueSet
BY DEF DeskRow

LEMMA Overtakes ==
    ASSUME NEW r \in DeskRow, NEW q,
           \/ r.op = "book" /\ q = [r EXCEPT !.doomed = TRUE]
           \/ r.op \in {"book", "confirm", "move"} /\ q = [r EXCEPT !.late = TRUE]
    PROVE  /\ q \in DeskRow /\ q.op = r.op
           /\ (q.op = "book" /\ q.doomed) \/ (q.op \in {"book", "confirm", "move"} /\ q.late)
<1>1. CASE r.op = "book"
  <2>1. r \in [op : {"book"}, by : {"customer", "merchant"}, slot : Slots,
               full : BOOLEAN, doomed : BOOLEAN, late : BOOLEAN]
    BY <1>1 DEF DeskRow
  <2>2. /\ q \in [op : {"book"}, by : {"customer", "merchant"}, slot : Slots,
                  full : BOOLEAN, doomed : BOOLEAN, late : BOOLEAN]
        /\ q.doomed = TRUE \/ q.late = TRUE
    BY <1>1, <2>1
  <2> QED BY <1>1, <2>2 DEF DeskRow
<1>2. CASE r.op = "confirm"
  <2>1. r \in [op : {"confirm"}, appt : Appointments, late : BOOLEAN] BY <1>2 DEF DeskRow
  <2>2. q \in [op : {"confirm"}, appt : Appointments, late : BOOLEAN] /\ q.late = TRUE BY <1>2, <2>1
  <2> QED BY <1>2, <2>2 DEF DeskRow
<1>3. CASE r.op = "move"
  <2>1. r \in [op : {"move"}, appt : Appointments, slot : Slots, over : BOOLEAN, late : BOOLEAN]
    BY <1>3 DEF DeskRow
  <2>2. /\ q \in [op : {"move"}, appt : Appointments, slot : Slots, over : BOOLEAN, late : BOOLEAN]
        /\ q.late = TRUE
    BY <1>3, <2>1
  <2> QED BY <1>3, <2>2 DEF DeskRow
<1> QED BY <1>1, <1>2, <1>3

LEMMA InFinite ==
    ASSUME NEW s, NEW apart, NEW big, big \subseteq Appointments
    PROVE  /\ IsFiniteSet(big) /\ Cardinality(big) \in Nat
           /\ IsFiniteSet(In(s, apart)) /\ Cardinality(In(s, apart)) \in Nat
           /\ IsFiniteSet(Own(s)) /\ Cardinality(Own(s)) \in Nat
<1>1. IsFiniteSet(Appointments) BY BookingConstants
<1>2. In(s, apart) \subseteq Appointments /\ Own(s) \subseteq Appointments BY DEF In, Own, Occupying
<1> QED BY <1>1, <1>2, FS_Subset, FS_CardinalityType

LEMMA Fewer ==
    ASSUME NEW small, NEW big, small \subseteq big, big \subseteq Appointments
    PROVE  Cardinality(small) \in Nat /\ Cardinality(big) \in Nat /\ Cardinality(small) <= Cardinality(big)
<1>1. IsFiniteSet(big) BY FS_Subset, BookingConstants
<1> QED BY <1>1, FS_Subset, FS_CardinalityType

\* A request that a write does not concern, and one that it marks.
LEMMA OthersHold ==
    ASSUME BookingSound, NEW d \in Desks, NEW a \in Appointments, NEW w, NEW next \in DeskRow,
           NEW ser \in BOOLEAN, desk' = AfterWrite(d, next, a, w, ser), peak' = peak, UNCHANGED <<told, withheld>>,
           \A s, apart : s # w => In(s, apart)' \subseteq In(s, apart),
           Occupying \ {a} \subseteq Occupying', ReadHolds(next)', TellsTrue(next)'
    PROVE  desk' \in [Desks -> DeskRow] /\ \A e \in Desks : ReadHolds(desk[e])' /\ TellsTrue(desk[e])'
<1>1. ASSUME NEW e \in Desks
      PROVE  \E r \in DeskRow : r = desk'[e] /\ ReadHolds(r)' /\ TellsTrue(r)'
  <2>1. CASE e = d
    <3>1. desk'[e] = next BY <2>1 DEF AfterWrite
    <3> QED BY <3>1
  <2>2. CASE e # d /\ ~Concerns(desk[e], a, w)
    <3>1. desk'[e] = desk[e] BY <2>2 DEF AfterWrite
    <3>2. PICK r \in DeskRow : r = desk[e] BY DEF BookingSound, BookingTypes
    <3>3. ReadHolds(r) /\ TellsTrue(r) BY <3>2 DEF BookingSound
    <3>4. TellsTrue(r)' BY <3>3 DEF TellsTrue, Settled, Settled
    <3>5. /\ r.op \in {"book", "move"} => r.slot # w
          /\ r.op = "confirm" => r.appt # a
      BY <2>2, <3>2 DEF Concerns
    <3>6. ASSUME NEW s, NEW apart, s # w, Cardinality(In(s, apart)) < peak
          PROVE  Cardinality(In(s, apart)') < peak
      <4>1. In(s, apart)' \subseteq In(s, apart) /\ In(s, apart) \subseteq Appointments
        BY <3>6 DEF In, Occupying
      <4>2. Cardinality(In(s, apart)') <= Cardinality(In(s, apart))
            /\ Cardinality(In(s, apart)') \in Nat /\ Cardinality(In(s, apart)) \in Nat
        BY <4>1, Fewer
      <4> QED BY <3>6, <4>2 DEF BookingSound, BookingTypes
    <3>7. /\ r.op = "book" /\ ~r.doomed /\ ~r.late /\ ~r.full => Cardinality(In(r.slot, {})') < peak
          /\ r.op = "move" /\ ~r.late /\ ~r.over => Cardinality(In(r.slot, {r.appt})') < peak
      BY <3>3, <3>5, <3>6 DEF ReadHolds
    <3>8. r.op = "confirm" /\ ~r.late => r.appt \in Occupying' BY <3>3, <3>5 DEF ReadHolds
    <3>9. ReadHolds(r)' BY <3>7, <3>8 DEF ReadHolds
    <3> QED BY <3>1, <3>2, <3>4, <3>9
  <2>3. CASE e # d /\ Concerns(desk[e], a, w)
    <3>1. PICK r \in DeskRow : r = desk[e] BY DEF BookingSound, BookingTypes
    <3>2. r.op \in {"book", "confirm", "move"} BY <2>3, <3>1 DEF Concerns
    <3>3. PICK q : /\ q = desk'[e]
                   /\ \/ r.op = "book" /\ q = [r EXCEPT !.doomed = TRUE]
                      \/ q = [r EXCEPT !.late = TRUE]
      BY <2>3, <3>1 DEF AfterWrite
    <3>4. /\ q \in DeskRow /\ q.op = r.op
          /\ (q.op = "book" /\ q.doomed) \/ (q.op \in {"book", "confirm", "move"} /\ q.late)
      BY <3>2, <3>3, Overtakes
    <3>5. ReadHolds(q)' BY <3>2, <3>4 DEF ReadHolds
    <3>6. TellsTrue(q)' BY <3>2, <3>4 DEF TellsTrue
    <3> QED BY <3>3, <3>4, <3>5, <3>6
  <2> QED BY <2>1, <2>2, <2>3
<1>2. ASSUME NEW e \in Desks PROVE ReadHolds(desk[e])' /\ TellsTrue(desk[e])'
  <2>1. PICK r : r = desk'[e] /\ ReadHolds(r)' /\ TellsTrue(r)' BY <1>1
  <2> QED BY <2>1 DEF ReadHolds, TellsTrue
<1>3. desk' \in [Desks -> DeskRow]
  <2>1. DOMAIN desk' = Desks /\ desk' = [e \in Desks |-> desk'[e]] BY DEF AfterWrite
  <2> QED BY <1>1, <2>1
<1> QED BY <1>2, <1>3

\* A row that takes no place, or one there is room for, leaves every slot as it
\* must be.
LEMMA OwnHolds ==
    ASSUME BookingSound, NEW a \in Appointments, NEW row, appts' = [appts EXCEPT ![a] = row],
           peak' = peak, NEW s \in Slots \ raced,
           \/ row.slot # s \/ row.over \/ row.status \notin {"requested", "confirmed"}
           \/ a \in Own(s) \/ Cardinality(In(s, {a})) < peak
    PROVE  Cardinality(Own(s)') <= peak
<1>1. DOMAIN appts = Appointments /\ peak \in Nat BY DEF BookingSound, BookingTypes
<1>2. appts'[a] = row /\ \A b \in Appointments \ {a} : appts'[b] = appts[b] BY <1>1
<1>3. Own(s) \subseteq Appointments /\ In(s, {a}) \subseteq Appointments BY DEF Own, In, Occupying
<1>4. Own(s)' \ {a} \subseteq Own(s) /\ Own(s)' \ {a} \subseteq In(s, {a})
  BY <1>2 DEF Own, In, Occupying
<1>5. Cardinality(Own(s)) <= peak BY DEF BookingSound
<1>6. CASE a \in Own(s) \/ a \notin Own(s)'
  <2>1. Own(s)' \subseteq Own(s) BY <1>4, <1>6
  <2>2. Cardinality(Own(s)') \in Nat /\ Cardinality(Own(s)) \in Nat
        /\ Cardinality(Own(s)') <= Cardinality(Own(s))
    BY <1>3, <2>1, Fewer
  <2> QED BY <1>1, <1>5, <2>2
<1>7. CASE Cardinality(In(s, {a})) < peak
  <2>1. PICK o : o = Own(s)' OBVIOUS
  <2>2. o \ {a} \subseteq In(s, {a}) BY <1>4, <2>1
  <2>3. /\ Cardinality(o \ {a}) \in Nat /\ Cardinality(In(s, {a})) \in Nat
        /\ Cardinality(o \ {a}) <= Cardinality(In(s, {a})) /\ IsFiniteSet(o \ {a})
    BY <1>3, <2>2, Fewer, FS_Subset, InFinite
  <2>4. CASE a \in o
    <3>1. Cardinality((o \ {a}) \cup {a}) = Cardinality(o \ {a}) + 1 BY <2>3, FS_AddElement
    <3>2. (o \ {a}) \cup {a} = o BY <2>4
    <3>3. Cardinality(o) = Cardinality(o \ {a}) + 1 BY <3>1, <3>2
    <3>4. Cardinality(o) <= peak
      <4>1. \A m, n, p \in Nat : m <= n /\ n < p => m + 1 <= p OBVIOUS
      <4> QED BY <1>1, <1>7, <2>3, <3>3, <4>1
    <3> QED BY <2>1, <3>4
  <2>5. CASE a \notin o
    <3>1. o \ {a} = o BY <2>5
    <3> QED BY <1>1, <1>7, <2>1, <2>3, <3>1
  <2> QED BY <2>4, <2>5
<1>8. row.slot # s \/ row.over \/ row.status \notin {"requested", "confirmed"} => a \notin Own(s)'
  BY <1>2 DEF Own, Occupying
<1> QED BY <1>6, <1>7, <1>8

LEMMA NotFull ==
    ASSUME BookingSound, NEW r \in DeskRow, NEW s, NEW a \in Appointments, Raced(r, s, a), s \notin raced',
           ~r.late => Cardinality(In(s, {a})) < peak
    PROVE  Cardinality(In(s, {a})) < peak
<1>1. r.late => ~IsFull(s, {a}) BY DEF Raced
<1>2. IsFull(s, {a}) <=> Cardinality(In(s, {a})) >= capacity BY DEF IsFull, In
<1>3. Cardinality(In(s, {a})) \in Nat BY InFinite
<1> QED BY <1>1, <1>2, <1>3 DEF BookingSound, BookingTypes

\* Every write of a row alone: the three writers of a place.
LEMMA WriteHolds ==
    ASSUME BookingSound, NEW d \in Desks, NEW a \in Appointments, NEW row \in ApptRow, NEW w \in Slots \cup {0},
           NEW next \in DeskRow, NEW ser \in BOOLEAN,
           appts' = [appts EXCEPT ![a] = row], desk' = AfterWrite(d, next, a, w, ser),
           UNCHANGED <<capacity, peak, told, withheld, crossed>>, raced \subseteq raced', untold \subseteq untold',
           row.slot = w \/ row.status \notin {"requested", "confirmed"},
           next.op \in {"rest", "tell"},
           \A s \in Slots \ raced' :
              \/ row.slot # s \/ row.over \/ row.status \notin {"requested", "confirmed"}
              \/ a \in Own(s) \/ Cardinality(In(s, {a})) < peak,
           \A k \in Reminders \cap row.marks : a \in Reachable \ (untold' \cup crossed') => <<a, k, row.slot>> \in Settled
    PROVE  BookingSound'
<1>1. appts \in [Appointments -> ApptRow] BY DEF BookingSound, BookingTypes
<1>2. appts'[a] = row /\ \A b \in Appointments \ {a} : appts'[b] = appts[b] BY <1>1
<1>3. \A s, apart : s # w => In(s, apart)' \subseteq In(s, apart)
  <2> SUFFICES ASSUME NEW s, NEW apart, s # w, NEW b \in In(s, apart)' PROVE b \in In(s, apart)
    OBVIOUS
  <2>1. b # a BY <1>2 DEF In, Occupying
  <2> QED BY <1>2, <2>1 DEF In, Occupying
<1>4. Occupying \ {a} \subseteq Occupying' BY <1>2 DEF Occupying
<1>5. ReadHolds(next)' /\ TellsTrue(next)' BY DEF ReadHolds, TellsTrue
<1>6. desk' \in [Desks -> DeskRow] /\ \A e \in Desks : ReadHolds(desk[e])' /\ TellsTrue(desk[e])'
  BY <1>3, <1>4, <1>5, OthersHold
<1>7. appts' \in [Appointments -> ApptRow] BY <1>1
<1>8. BookingTypes' BY <1>6, <1>7 DEF BookingSound, BookingTypes
<1>9. ASSUME NEW s \in Slots \ raced' PROVE Cardinality(Own(s)') <= peak'
  <2>1. s \in Slots \ raced OBVIOUS
  <2> QED BY <2>1, OwnHolds
<1>10. ASSUME NEW b \in Appointments PROVE Told(b)'
  <2>1. CASE b = a BY <1>2, <2>1 DEF Told, Settled, Settled
  <2>2. CASE b # a
    <3>1. Told(b) BY DEF BookingSound
    <3> QED BY <1>2, <2>2, <3>1 DEF Told, Settled
  <2> QED BY <2>1, <2>2
<1> QED BY <1>6, <1>8, <1>9, <1>10 DEF BookingSound

LEMMA RacedGrows ==
    ASSUME NEW r, NEW s, NEW a, Raced(r, s, a)
    PROVE  raced \subseteq raced'
BY DEF Raced

LEMMA BookCommitSound ==
    ASSUME BookingSound, NEW d \in Desks, NEW a \in Appointments, BookCommit(d, a)
    PROVE  BookingSound'
<1>1. PICK r \in DeskRow : r = desk[d] BY DEF BookingSound, BookingTypes
<1>2. r.op = "book" /\ r.slot \in Slots /\ r.full \in BOOLEAN /\ r.late \in BOOLEAN
  BY <1>1, DeskFields DEF BookCommit
<1>3. PICK row : row = [status |-> IF r.by = "customer" THEN "requested" ELSE "confirmed",
                        slot |-> r.slot, over |-> r.full, marks |-> {}]
  OBVIOUS
<1>4. PICK next : next = IF r.by = "customer" THEN Tell(a, "received") ELSE AtRest OBVIOUS
<1>5. row \in ApptRow /\ row.slot = r.slot /\ row.over = r.full /\ row.marks = {}
  BY <1>2, <1>3 DEF ApptRow
<1>6. next \in DeskRow /\ next.op \in {"rest", "tell"} BY <1>4 DEF DeskRow, Tell, AtRest
<1>7. /\ appts' = [appts EXCEPT ![a] = row] /\ desk' = AfterWrite(d, next, a, r.slot, TRUE)
      /\ Raced(r, r.slot, a) /\ UNCHANGED <<capacity, told, withheld, peak, untold, crossed>>
      /\ ~r.doomed /\ appts[a] = Absent
  BY <1>1, <1>3, <1>4 DEF BookCommit, Serializes
<1>8. ASSUME NEW s \in Slots \ raced', s = r.slot, ~r.full PROVE Cardinality(In(s, {a})) < peak
  <2>1. a \notin Occupying BY <1>7 DEF Occupying, Absent
  <2>2. In(s, {a}) = In(s, {}) BY <2>1 DEF In
  <2>3. ReadHolds(r) BY <1>1 DEF BookingSound
  <2>4. ~r.late => Cardinality(In(s, {a})) < peak BY <1>2, <1>7, <1>8, <2>2, <2>3 DEF ReadHolds
  <2> QED BY <1>7, <1>8, <2>4, NotFull
<1>9. \A s \in Slots \ raced' :
         \/ row.slot # s \/ row.over \/ row.status \notin {"requested", "confirmed"}
         \/ a \in Own(s) \/ Cardinality(In(s, {a})) < peak
  BY <1>2, <1>5, <1>8
<1>10. raced \subseteq raced' BY <1>7, RacedGrows
<1>11. untold \subseteq untold' /\ r.slot \in Slots \cup {0} /\ TRUE \in BOOLEAN BY <1>2, <1>7
<1>12. \A k \in Reminders \cap row.marks : a \in Reachable \ (untold' \cup crossed') => <<a, k, row.slot>> \in Settled
  BY <1>5
<1> QED BY <1>5, <1>6, <1>7, <1>9, <1>10, <1>11, <1>12, WriteHolds

LEMMA RowFields ==
    ASSUME BookingTypes, NEW a \in Appointments
    PROVE  /\ appts[a].status \in {"absent", "requested", "confirmed", "cancelled"}
           /\ appts[a].slot \in Slots \cup {0} /\ appts[a].over \in BOOLEAN /\ appts[a].marks \in SUBSET Messages
<1>1. appts[a] \in ApptRow BY DEF BookingTypes
<1> QED BY <1>1 DEF ApptRow

LEMMA TellRow ==
    ASSUME NEW a \in Appointments, NEW what \in {"received", "confirmed", "moved"}
    PROVE  Tell(a, what) \in DeskRow /\ Tell(a, what).op \in {"rest", "tell"}
BY DEF DeskRow, Tell

LEMMA ConfirmCommitSound ==
    ASSUME BookingSound, NEW d \in Desks, ConfirmCommit(d)
    PROVE  BookingSound'
<1>1. PICK r \in DeskRow : r = desk[d] BY DEF BookingSound, BookingTypes
<1>2. r.op = "confirm" BY <1>1 DEF ConfirmCommit
<1>3. PICK a \in Appointments : a = r.appt BY <1>2, DeskFields
<1>4. PICK row : row = [appts[a] EXCEPT !.status = "confirmed"] OBVIOUS
<1>5. PICK next : next = Tell(a, "confirmed") OBVIOUS
<1>6. BookingTypes /\ appts \in [Appointments -> ApptRow] BY DEF BookingSound, BookingTypes
<1>7. /\ row \in ApptRow /\ row.status = "confirmed" /\ row.slot = appts[a].slot
      /\ row.over = appts[a].over /\ row.marks = appts[a].marks /\ appts[a].slot \in Slots \cup {0}
  <2>1. appts[a] \in ApptRow BY <1>6
  <2> QED BY <1>4, <2>1 DEF ApptRow
<1>8. next \in DeskRow /\ next.op \in {"rest", "tell"} BY <1>5, TellRow
<1>9. appts' = [appts EXCEPT ![a] = row] BY <1>1, <1>3, <1>4, <1>6 DEF ConfirmCommit
<1>10. /\ desk' = AfterWrite(d, next, a, appts[a].slot, FALSE)
       /\ Raced(r, appts[a].slot, a) /\ UNCHANGED <<capacity, told, withheld, peak, untold, crossed>>
  BY <1>1, <1>3, <1>5 DEF ConfirmCommit
<1>11. ASSUME NEW s \in Slots \ raced', s = appts[a].slot, ~appts[a].over
       PROVE  a \in Own(s) \/ Cardinality(In(s, {a})) < peak
  <2>1. CASE r.late
    <3> QED BY <1>10, <1>11, <2>1, NotFull
  <2>2. CASE ~r.late
    <3>1. ReadHolds(r) BY <1>1 DEF BookingSound
    <3> QED BY <1>2, <1>3, <1>11, <2>2, <3>1 DEF ReadHolds, Own
  <2> QED BY <2>1, <2>2
<1>12. \A s \in Slots \ raced' :
          \/ row.slot # s \/ row.over \/ row.status \notin {"requested", "confirmed"}
          \/ a \in Own(s) \/ Cardinality(In(s, {a})) < peak
  BY <1>7, <1>11
<1>13. raced \subseteq raced' /\ untold \subseteq untold' /\ FALSE \in BOOLEAN BY <1>10, RacedGrows
<1>14. \A k \in Reminders \cap row.marks : a \in Reachable \ (untold' \cup crossed') => <<a, k, row.slot>> \in Settled
  BY <1>7, <1>10 DEF BookingSound, Told
<1> QED BY <1>7, <1>8, <1>9, <1>10, <1>12, <1>13, <1>14, WriteHolds

LEMMA MoveCommitSound ==
    ASSUME BookingSound, NEW d \in Desks, MoveCommit(d)
    PROVE  BookingSound'
<1>1. PICK r \in DeskRow : r = desk[d] BY DEF BookingSound, BookingTypes
<1>2. r.op = "move" BY <1>1 DEF MoveCommit
<1>3. PICK a \in Appointments : a = r.appt BY <1>2, DeskFields
<1>4. r.slot \in Slots /\ r.over \in BOOLEAN /\ r.late \in BOOLEAN BY <1>2, DeskFields
<1>5. PICK row : row = [appts[a] EXCEPT !.status = "confirmed", !.slot = r.slot, !.over = r.over]
  OBVIOUS
<1>6. PICK next : next = Tell(a, "moved") OBVIOUS
<1>7. BookingTypes /\ appts \in [Appointments -> ApptRow] BY DEF BookingSound, BookingTypes
<1>8. row \in ApptRow /\ row.slot = r.slot /\ row.over = r.over
  <2>1. appts[a] \in ApptRow BY <1>7
  <2> QED BY <1>4, <1>5, <2>1 DEF ApptRow
<1>9. next \in DeskRow /\ next.op \in {"rest", "tell"} BY <1>6, TellRow
<1>10. appts' = [appts EXCEPT ![a] = row] BY <1>1, <1>3, <1>5, <1>7 DEF MoveCommit
<1>11. /\ desk' = AfterWrite(d, next, a, r.slot, FALSE)
       /\ Raced(r, r.slot, a) /\ UNCHANGED <<capacity, told, withheld, peak, crossed>> /\ untold' = untold \cup {a}
  BY <1>1, <1>3, <1>6 DEF MoveCommit
<1>12. ASSUME NEW s \in Slots \ raced', s = r.slot, ~r.over
       PROVE  Cardinality(In(s, {a})) < peak
  <2>1. ReadHolds(r) BY <1>1 DEF BookingSound
  <2>2. ~r.late => Cardinality(In(s, {a})) < peak BY <1>2, <1>3, <1>12, <2>1 DEF ReadHolds
  <2> QED BY <1>11, <1>12, <2>2, NotFull
<1>13. \A s \in Slots \ raced' :
          \/ row.slot # s \/ row.over \/ row.status \notin {"requested", "confirmed"}
          \/ a \in Own(s) \/ Cardinality(In(s, {a})) < peak
  BY <1>8, <1>12
<1>14. raced \subseteq raced' /\ untold \subseteq untold' /\ FALSE \in BOOLEAN /\ r.slot \in Slots \cup {0}
  BY <1>4, <1>11, RacedGrows
<1>15. \A k \in Reminders \cap row.marks : a \in Reachable \ (untold' \cup crossed') => <<a, k, row.slot>> \in Settled
  BY <1>11
<1> QED BY <1>8, <1>9, <1>10, <1>11, <1>13, <1>14, <1>15, WriteHolds

LEMMA CancelSound ==
    ASSUME BookingSound, NEW d \in Desks, NEW a \in Appointments, Cancel(d, a)
    PROVE  BookingSound'
<1>1. PICK row : row = [appts[a] EXCEPT !.status = "cancelled"] OBVIOUS
<1>2. PICK next : next = AtRest OBVIOUS
<1>3. BookingTypes /\ appts \in [Appointments -> ApptRow] BY DEF BookingSound, BookingTypes
<1>4. /\ row \in ApptRow /\ row.status = "cancelled" /\ row.slot = appts[a].slot
      /\ row.marks = appts[a].marks /\ appts[a].slot \in Slots \cup {0}
  <2>1. appts[a] \in ApptRow BY <1>3
  <2> QED BY <1>1, <2>1 DEF ApptRow
<1>5. next \in DeskRow /\ next.op \in {"rest", "tell"} BY <1>2 DEF DeskRow, AtRest
<1>6. appts' = [appts EXCEPT ![a] = row] BY <1>1, <1>3 DEF Cancel
<1>7. /\ desk' = AfterWrite(d, next, a, appts[a].slot, FALSE)
      /\ UNCHANGED <<capacity, told, withheld, peak, raced, untold, crossed>>
  BY <1>2 DEF Cancel
<1>8. \A k \in Reminders \cap row.marks : a \in Reachable \ (untold' \cup crossed') => <<a, k, row.slot>> \in Settled
  BY <1>4, <1>7 DEF BookingSound, Told
<1>9. raced \subseteq raced' /\ untold \subseteq untold' /\ FALSE \in BOOLEAN BY <1>7
<1>10. \A s \in Slots \ raced' :
          \/ row.slot # s \/ row.over \/ row.status \notin {"requested", "confirmed"}
          \/ a \in Own(s) \/ Cardinality(In(s, {a})) < peak
  BY <1>4
<1> QED BY <1>4, <1>5, <1>6, <1>7, <1>8, <1>9, <1>10, WriteHolds

\* The steps that leave every place as it is.
LEMMA PlacesKept ==
    ASSUME BookingSound, NEW d \in Desks, NEW next \in DeskRow, desk' = [desk EXCEPT ![d] = next],
           appts' \in [Appointments -> ApptRow],
           \A b \in Appointments : /\ appts'[b].slot = appts[b].slot /\ appts'[b].status = appts[b].status
                                   /\ appts'[b].over = appts[b].over,
           told \subseteq told', withheld \subseteq withheld', UNCHANGED <<capacity, peak, raced>>,
           ReadHolds(next), TellsTrue(next)', \A b \in Appointments : Told(b)'
    PROVE  BookingSound'
<1>1. Occupying' = Occupying BY DEF Occupying
<1>2. \A s, apart : In(s, apart)' = In(s, apart)
  <2>1. \A b \in Occupying : appts'[b].slot = appts[b].slot BY DEF Occupying
  <2> QED BY <1>1, <2>1 DEF In
<1>3. \A s : Own(s)' = Own(s)
  <2>1. \A b \in Occupying : appts'[b].slot = appts[b].slot /\ appts'[b].over = appts[b].over BY DEF Occupying
  <2> QED BY <1>1, <2>1 DEF Own
<1>4. ASSUME NEW r, ReadHolds(r) PROVE ReadHolds(r)'
  <2>1. Cardinality(In(r.slot, {})') = Cardinality(In(r.slot, {})) BY <1>2
  <2>2. Cardinality(In(r.slot, {r.appt})') = Cardinality(In(r.slot, {r.appt})) BY <1>2
  <2> QED BY <1>1, <1>4, <2>1, <2>2 DEF ReadHolds
<1>5. desk \in [Desks -> DeskRow] BY DEF BookingSound, BookingTypes
<1>6. ASSUME NEW e \in Desks PROVE ReadHolds(desk[e])' /\ TellsTrue(desk[e])'
  <2>1. PICK r : r = desk'[e] OBVIOUS
  <2>2. CASE e = d
    <3>1. r = next BY <1>5, <2>1, <2>2
    <3>2. ReadHolds(r)' /\ TellsTrue(r)' BY <1>4, <3>1
    <3> QED BY <2>1, <3>2 DEF ReadHolds, TellsTrue
  <2>3. CASE e # d
    <3>1. r = desk[e] BY <1>5, <2>1, <2>3
    <3>2. ReadHolds(r) /\ TellsTrue(r) BY <3>1 DEF BookingSound
    <3>3. ReadHolds(r)' BY <1>4, <3>2
    <3>4. TellsTrue(r)' BY <3>2 DEF TellsTrue, Settled, Settled
    <3> QED BY <2>1, <3>3, <3>4 DEF ReadHolds, TellsTrue
  <2> QED BY <2>2, <2>3
<1>7. BookingTypes' BY <1>5 DEF BookingSound, BookingTypes
<1>8. ASSUME NEW s \in Slots \ raced' PROVE Cardinality(Own(s)') <= peak'
  <2>1. Cardinality(Own(s)) <= peak BY DEF BookingSound
  <2> QED BY <1>3, <2>1
<1> QED BY <1>6, <1>7, <1>8 DEF BookingSound

LEMMA DeskSound ==
    ASSUME BookingSound, NEW d \in Desks, NEW next \in DeskRow, desk' = [desk EXCEPT ![d] = next],
           told \subseteq told', withheld \subseteq withheld',
           UNCHANGED <<appts, capacity, peak, raced, untold, crossed>>,
           ReadHolds(next), TellsTrue(next)'
    PROVE  BookingSound'
<1>1. appts \in [Appointments -> ApptRow] BY DEF BookingSound, BookingTypes
<1>2. ASSUME NEW b \in Appointments PROVE Told(b)'
  <2>1. Told(b) BY DEF BookingSound
  <2> QED BY <2>1 DEF Told, Settled, Settled
<1> QED BY <1>1, <1>2, PlacesKept

LEMMA BookBeginSound ==
    ASSUME BookingSound, NEW d \in Desks, NEW by \in {"customer", "merchant"}, NEW s \in Slots, BookBegin(d, by, s)
    PROVE  BookingSound'
<1>1. PICK next : next = [op |-> "book", by |-> by, slot |-> s,
                          full |-> IsFull(s, {}), doomed |-> FALSE, late |-> FALSE]
  OBVIOUS
<1>2. IsFull(s, {}) \in BOOLEAN BY DEF IsFull
<1>3. next \in DeskRow BY <1>1, <1>2 DEF DeskRow
<1>4. ReadHolds(next)
  <2>1. IsFull(s, {}) <=> Cardinality(In(s, {})) >= capacity BY DEF IsFull, In
  <2>2. Cardinality(In(s, {})) \in Nat BY InFinite
  <2>3. ~IsFull(s, {}) => Cardinality(In(s, {})) < peak BY <2>1, <2>2 DEF BookingSound, BookingTypes
  <2> QED BY <1>1, <2>3 DEF ReadHolds
<1>5. TellsTrue(next)' BY <1>1 DEF TellsTrue
<1>6. desk' = [desk EXCEPT ![d] = next] /\ UNCHANGED <<appts, capacity, told, withheld, peak, raced, untold, crossed>>
  BY <1>1 DEF BookBegin
<1> QED BY <1>3, <1>4, <1>5, <1>6, DeskSound

LEMMA ConfirmBeginSound ==
    ASSUME BookingSound, NEW d \in Desks, NEW a \in Appointments, ConfirmBegin(d, a)
    PROVE  BookingSound'
<1>1. PICK next : next = IF appts[a].status = "confirmed" THEN Tell(a, "confirmed")
                         ELSE [op |-> "confirm", appt |-> a, late |-> FALSE]
  OBVIOUS
<1>2. next \in DeskRow BY <1>1, TellRow DEF DeskRow
<1>3. a \in Occupying BY DEF ConfirmBegin
<1>4. ReadHolds(next) /\ TellsTrue(next)' BY <1>1, <1>3 DEF ReadHolds, TellsTrue, Tell
<1>5. desk' = [desk EXCEPT ![d] = next] /\ UNCHANGED <<appts, capacity, told, withheld, peak, raced, untold, crossed>>
  BY <1>1 DEF ConfirmBegin
<1> QED BY <1>2, <1>4, <1>5, DeskSound

LEMMA MoveBeginSound ==
    ASSUME BookingSound, NEW d \in Desks, NEW a \in Appointments, NEW s \in Slots, MoveBegin(d, a, s)
    PROVE  BookingSound'
<1>1. PICK over : over = (appts[a].over \/ IsFull(s, {a})) OBVIOUS
<1>2. PICK next : next = [op |-> "move", appt |-> a, slot |-> s, over |-> over, late |-> FALSE] OBVIOUS
<1>3. over \in BOOLEAN BY <1>1, RowFields DEF BookingSound, IsFull
<1>4. next \in DeskRow BY <1>2, <1>3 DEF DeskRow
<1>5. ReadHolds(next)
  <2>1. IsFull(s, {a}) <=> Cardinality(In(s, {a})) >= capacity BY DEF IsFull, In
  <2>2. Cardinality(In(s, {a})) \in Nat BY InFinite
  <2>3. ~IsFull(s, {a}) => Cardinality(In(s, {a})) < peak BY <2>1, <2>2 DEF BookingSound, BookingTypes
  <2> QED BY <1>1, <1>2, <2>3 DEF ReadHolds
<1>6. TellsTrue(next)' BY <1>2 DEF TellsTrue
<1>7. desk' = [desk EXCEPT ![d] = next] /\ UNCHANGED <<appts, capacity, told, withheld, peak, raced, untold, crossed>>
  BY <1>1, <1>2 DEF MoveBegin
<1> QED BY <1>4, <1>5, <1>6, <1>7, DeskSound

LEMMA DiesSound ==
    ASSUME BookingSound, NEW d \in Desks, Dies(d)
    PROVE  BookingSound'
<1>1. AtRest \in DeskRow /\ ReadHolds(AtRest) /\ TellsTrue(AtRest)'
  BY DEF AtRest, DeskRow, ReadHolds, TellsTrue
<1>2. desk' = [desk EXCEPT ![d] = AtRest] /\ UNCHANGED <<appts, capacity, told, withheld, peak, raced, untold, crossed>>
  BY DEF Dies
<1> QED BY <1>1, <1>2, DeskSound

\* The rows of a message.
PushRow == [op : {"push", "mark"}, appt : Appointments, message : Messages,
            slot : Slots \cup {0}, due : DueSet]

LEMMA PushIsRow ==
    /\ PushRow \subseteq DeskRow
    /\ \A r \in DeskRow : r.op \in {"push", "mark"} => r \in PushRow
BY DEF PushRow, DeskRow

LEMMA ScanIsRow ==
    ASSUME NEW due \in DueSet
    PROVE  Scan(due) \in DeskRow /\ Scan(due).op \in {"rest", "scan"}
BY DEF Scan, AtRest, DeskRow

LEMMA AfterIsRow ==
    ASSUME NEW r \in PushRow
    PROVE  /\ After(r) \in DeskRow
           /\ After(r).op \in {"rest", "scan"} \/ (After(r).op = "push" /\ After(r).message = "shop")
<1>1. CASE r.message = "received"
  <2>1. After(r) = [r EXCEPT !.message = "shop", !.op = "push"] BY <1>1 DEF After
  <2>2. After(r) \in PushRow /\ After(r).op = "push" /\ After(r).message = "shop"
    BY <2>1 DEF PushRow, Messages
  <2> QED BY <2>2, PushIsRow
<1>2. CASE r.message # "received"
  <2>1. After(r) = Scan(r.due) /\ r.due \in DueSet BY <1>2 DEF After, PushRow
  <2> QED BY <2>1, ScanIsRow
<1> QED BY <1>1, <1>2

LEMMA PushHasRow ==
    ASSUME BookingTypes, NEW a \in Appointments, NEW m \in Messages, NEW due \in DueSet
    PROVE  \E p \in PushRow : /\ p = Push(a, m, due) /\ p.appt = a /\ p.message = m
                              /\ p.op = "mark" /\ m # "shop" => a \notin Reachable
<1>1. appts[a].slot \in Slots \cup {0} BY RowFields
<1>2. PICK p : p = Push(a, m, due) OBVIOUS
<1>3. PICK op : op = IF m # "shop" /\ a \notin Reachable THEN "mark" ELSE "push" OBVIOUS
<1>4. op \in {"push", "mark"} BY <1>3
<1>5. p = [op |-> op, appt |-> a, message |-> m, slot |-> appts[a].slot, due |-> due]
  BY <1>2, <1>3 DEF Push
<1>6. p \in PushRow /\ p.appt = a /\ p.message = m /\ p.op = op BY <1>1, <1>4, <1>5 DEF PushRow
<1> QED BY <1>2, <1>3, <1>6

LEMMA IdleHolds ==
    ASSUME NEW r, r.op \in {"rest", "scan", "tell", "push", "mark"}
    PROVE  /\ ReadHolds(r)
           /\ r.op \notin {"push", "mark"} \/ r.message \notin Reminders => TellsTrue(r) /\ TellsTrue(r)'
BY DEF ReadHolds, TellsTrue

LEMMA TellLoadSound ==
    ASSUME BookingSound, NEW d \in Desks, TellLoad(d)
    PROVE  BookingSound'
<1>1. PICK r \in DeskRow : r = desk[d] BY DEF BookingSound, BookingTypes
<1>2. r.op = "tell" BY <1>1 DEF TellLoad
<1>3. r.appt \in Appointments /\ r.what \in {"received", "confirmed", "moved"} BY <1>2, DeskFields
<1>4. PICK next : desk' = [desk EXCEPT ![d] = next] /\ next \in {AtRest, Push(r.appt, r.what, {})}
  BY <1>1 DEF TellLoad
<1>5. UNCHANGED <<appts, capacity, told, withheld, peak, raced, untold, crossed>> BY DEF TellLoad
<1>6. next \in DeskRow /\ ReadHolds(next) /\ TellsTrue(next)'
  <2>1. CASE next = AtRest
    <3>1. next \in DeskRow /\ next.op = "rest" BY <2>1 DEF AtRest, DeskRow
    <3> QED BY <3>1, IdleHolds
  <2>2. CASE next = Push(r.appt, r.what, {})
    <3>1. r.what \in Messages /\ r.what \notin Reminders /\ {} \in DueSet
      BY <1>3 DEF Messages, Reminders, DueSet
    <3>2. next \in PushRow /\ next.message = r.what BY <1>3, <2>2, <3>1, PushHasRow DEF BookingSound
    <3>3. next.op \in {"push", "mark"} BY <3>2 DEF PushRow
    <3> QED BY <3>1, <3>2, <3>3, PushIsRow, IdleHolds
  <2> QED BY <1>4, <2>1, <2>2
<1> QED BY <1>4, <1>5, <1>6, DeskSound

LEMMA ScanBeginSound ==
    ASSUME BookingSound, NEW d \in Desks, ScanBegin(d)
    PROVE  BookingSound'
<1>1. PICK due : /\ due = {x \in [appt : Occupying, message : Reminders, slot : Slots] :
                   /\ appts[x.appt].status = "confirmed" /\ appts[x.appt].slot = x.slot
                   /\ x.message \notin appts[x.appt].marks /\ InWindow(x.message, x.slot)}
  OBVIOUS
<1>2. due \in DueSet
  <2>1. Occupying \subseteq Appointments BY DEF Occupying
  <2> QED BY <1>1, <2>1 DEF DueSet
<1>3. desk' = [desk EXCEPT ![d] = Scan(due)] /\ UNCHANGED <<appts, capacity, told, withheld, peak, raced, untold, crossed>>
  BY <1>1 DEF ScanBegin
<1>4. PICK next : next = Scan(due) OBVIOUS
<1>5. next \in DeskRow /\ next.op \in {"rest", "scan"} BY <1>2, <1>4, ScanIsRow
<1>6. ReadHolds(next) /\ TellsTrue(next)' BY <1>5, IdleHolds
<1> QED BY <1>3, <1>4, <1>5, <1>6, DeskSound

LEMMA ScanNextSound ==
    ASSUME BookingSound, NEW d \in Desks, ScanNext(d)
    PROVE  BookingSound'
<1>1. PICK r \in DeskRow : r = desk[d] BY DEF BookingSound, BookingTypes
<1>2. r.op = "scan" /\ r.due \in DueSet BY <1>1, DeskFields DEF ScanNext
<1>3. PICK x \in r.due : desk' = [desk EXCEPT ![d] = [Push(x.appt, x.message, r.due \ {x}) EXCEPT !.slot = x.slot]]
  BY <1>1 DEF ScanNext
<1>4. x.appt \in Appointments /\ x.message \in Reminders /\ x.slot \in Slots /\ r.due \ {x} \in DueSet
  BY <1>2 DEF DueSet
<1>5. PICK p \in PushRow : /\ p = Push(x.appt, x.message, r.due \ {x}) /\ p.appt = x.appt
                           /\ p.op = "mark" /\ x.message # "shop" => x.appt \notin Reachable
  <2>1. BookingTypes BY DEF BookingSound
  <2>2. x.message \in Messages BY <1>4 DEF Messages
  <2> QED BY <1>4, <2>1, <2>2, PushHasRow
<1>6. p.op = "mark" => x.appt \notin Reachable BY <1>4, <1>5 DEF Reminders
<1>7. PICK next : next = [p EXCEPT !.slot = x.slot] OBVIOUS
<1>8. next \in PushRow /\ next.appt = p.appt /\ next.op = p.op /\ next.slot = x.slot
  BY <1>4, <1>7 DEF PushRow
<1>9. ReadHolds(next) /\ TellsTrue(next)'
  <2>1. next.op \in {"push", "mark"} BY <1>8 DEF PushRow
  <2> QED BY <1>4, <1>5, <1>6, <1>8, <2>1 DEF ReadHolds, TellsTrue
<1>10. desk' = [desk EXCEPT ![d] = next] /\ UNCHANGED <<appts, capacity, told, withheld, peak, raced, untold, crossed>>
  BY <1>3, <1>5, <1>7 DEF ScanNext
<1> QED BY <1>8, <1>9, <1>10, PushIsRow, DeskSound

\* What LINE took, and what a deployment without LINE withholds, is marked next.
LEMMA PushSentSound ==
    ASSUME BookingSound, NEW d \in Desks, PushSent(d) \/ PushSkipped(d)
    PROVE  BookingSound'
<1>1. PICK r \in DeskRow : r = desk[d] BY DEF BookingSound, BookingTypes
<1>2. r.op = "push" /\ r \in PushRow BY <1>1, PushIsRow DEF PushSent, PushSkipped
<1>3. PICK next : next = [r EXCEPT !.op = "mark"] OBVIOUS
<1>4. /\ next \in PushRow /\ next.op = "mark" /\ next.appt = r.appt
      /\ next.message = r.message /\ next.slot = r.slot
  BY <1>2, <1>3 DEF PushRow
<1>5. /\ \/ told' = told \cup Reminded(d) /\ withheld' = withheld
         \/ withheld' = withheld \cup Reminded(d) /\ told' = told
      /\ UNCHANGED <<appts, capacity, peak, raced, untold, crossed>>
      /\ Reminded(d) = {<<r.appt, r.message, r.slot>>} \cap (Appointments \X Reminders \X Slots)
  BY <1>1 DEF PushSent, PushSkipped, Reminded
<1>6. desk' = [desk EXCEPT ![d] = next]
  BY <1>1, <1>3 DEF PushSent, PushSkipped, BookingSound, BookingTypes
<1>7. ReadHolds(next) BY <1>4, IdleHolds
<1>8. TellsTrue(next)'
  <2>1. TellsTrue(r) BY <1>1 DEF BookingSound
  <2>2. r.message \in Reminders => r.slot \in Slots BY <1>2, <2>1 DEF TellsTrue
  <2>3. r.appt \in Appointments BY <1>2 DEF PushRow
  <2> QED BY <1>4, <1>5, <2>2, <2>3 DEF TellsTrue, Settled
<1>9. told \subseteq told' /\ withheld \subseteq withheld' BY <1>5
<1> QED BY <1>4, <1>5, <1>6, <1>7, <1>8, <1>9, PushIsRow, DeskSound

LEMMA PushFailsSound ==
    ASSUME BookingSound, NEW d \in Desks, PushFails(d)
    PROVE  BookingSound'
<1>1. PICK r \in DeskRow : r = desk[d] BY DEF BookingSound, BookingTypes
<1>2. r \in PushRow BY <1>1, PushIsRow DEF PushFails
<1>3. PICK next : next = After(r) OBVIOUS
<1>4. next \in DeskRow /\ (next.op \in {"rest", "scan"} \/ (next.op = "push" /\ next.message = "shop"))
  BY <1>2, <1>3, AfterIsRow
<1>5. "shop" \notin Reminders BY DEF Reminders
<1>6. ReadHolds(next) /\ TellsTrue(next)' BY <1>4, <1>5, IdleHolds
<1>7. desk' = [desk EXCEPT ![d] = next] /\ UNCHANGED <<appts, capacity, told, withheld, peak, raced, untold, crossed>>
  BY <1>1, <1>3 DEF PushFails
<1> QED BY <1>4, <1>6, <1>7, DeskSound

LEMMA MarkFieldSound ==
    ASSUME BookingSound, NEW d \in Desks, MarkField(d)
    PROVE  BookingSound'
<1>1. PICK r \in DeskRow : r = desk[d] BY DEF BookingSound, BookingTypes
<1>2. r.op = "mark" /\ r \in PushRow BY <1>1, PushIsRow DEF MarkField
<1>3. PICK a \in Appointments : a = r.appt BY <1>2 DEF PushRow
<1>4. r.message \in Messages /\ appts \in [Appointments -> ApptRow]
  BY <1>2 DEF PushRow, BookingSound, BookingTypes
<1>5. PICK row : row = [appts[a] EXCEPT !.marks = MarksWith(@, r.message)] OBVIOUS
<1>6. appts[a].marks \in SUBSET Messages BY RowFields DEF BookingSound
<1>7. MarksWith(appts[a].marks, r.message) \in SUBSET Messages BY <1>4, <1>6 DEF MarksWith, Messages
<1>8. /\ row \in ApptRow /\ row.marks = MarksWith(appts[a].marks, r.message)
      /\ row.slot = appts[a].slot /\ row.status = appts[a].status /\ row.over = appts[a].over
  <2>1. appts[a] \in ApptRow BY <1>4
  <2> QED BY <1>5, <1>7, <2>1 DEF ApptRow
<1>9. appts' = [appts EXCEPT ![a] = row] BY <1>1, <1>3, <1>4, <1>5 DEF MarkField
<1>10. /\ untold' = IF r.slot = appts[a].slot /\ r.message = "moved" THEN untold \ {a} ELSE untold
       /\ crossed' = IF r.slot # appts[a].slot /\ r.message \in Reminders THEN crossed \cup {a}
                     ELSE IF r.message = "moved" THEN crossed \ {a} ELSE crossed
       /\ UNCHANGED <<capacity, told, withheld, peak, raced>>
  BY <1>1, <1>3 DEF MarkField
<1>11. PICK next : next = After(r) OBVIOUS
<1>12. next \in DeskRow /\ (next.op \in {"rest", "scan"} \/ (next.op = "push" /\ next.message = "shop"))
  BY <1>2, <1>11, AfterIsRow
<1>13. "shop" \notin Reminders BY DEF Reminders
<1>14. ReadHolds(next) /\ TellsTrue(next)' BY <1>12, <1>13, IdleHolds
<1>15. desk' = [desk EXCEPT ![d] = next] BY <1>1, <1>11 DEF MarkField
<1>16. appts' \in [Appointments -> ApptRow]
       /\ \A b \in Appointments : /\ appts'[b].slot = appts[b].slot /\ appts'[b].status = appts[b].status
                                  /\ appts'[b].over = appts[b].over
  BY <1>4, <1>8, <1>9
<1>17. ASSUME NEW b \in Appointments PROVE Told(b)'
  <2>1. Told(b) BY DEF BookingSound
  <2>2. CASE b # a
    <3>1. appts'[b] = appts[b] BY <1>4, <1>9, <2>2
    <3>2. b \in untold \cup crossed => b \in untold' \cup crossed' BY <1>10, <2>2
    <3> QED BY <1>10, <2>1, <3>1, <3>2 DEF Told, Settled
  <2>3. CASE b = a
    <3>1. appts'[a] = row BY <1>4, <1>9
    <3>2. SUFFICES ASSUME NEW k \in Reminders \cap row.marks,
                          a \in Reachable \ (untold' \cup crossed')
                   PROVE  <<a, k, row.slot>> \in Settled
      BY <1>10, <2>3, <3>1 DEF Told, Settled
    <3>3. CASE r.message = "moved" BY <1>8, <3>2, <3>3 DEF MarksWith, Reminders
    <3>4. CASE r.message \in Reminders
      <4>1. r.slot = appts[a].slot /\ a \notin untold \cup crossed
        BY <1>10, <3>2, <3>4 DEF Reminders
      <4>2. k \in appts[a].marks \/ k = r.message BY <1>8, <3>2, <3>4 DEF MarksWith, Reminders
      <4>3. TellsTrue(r) BY <1>1 DEF BookingSound
      <4>4. <<a, r.message, r.slot>> \in Settled BY <1>2, <1>3, <3>2, <3>4, <4>3 DEF TellsTrue
      <4> QED BY <1>8, <2>1, <2>3, <3>2, <4>1, <4>2, <4>4 DEF Told
    <3>5. CASE r.message # "moved" /\ r.message \notin Reminders
      <4>1. a \notin untold \cup crossed /\ k \in appts[a].marks BY <1>8, <1>10, <3>2, <3>5 DEF MarksWith
      <4> QED BY <1>8, <2>1, <2>3, <3>2, <4>1 DEF Told
    <3> QED BY <3>3, <3>4, <3>5
  <2> QED BY <2>2, <2>3
<1>18. told \subseteq told' /\ withheld \subseteq withheld' BY <1>10
<1> QED BY <1>10, <1>12, <1>14, <1>15, <1>16, <1>17, <1>18, PlacesKept

LEMMA ScheduleSound ==
    ASSUME BookingSound, NEW c \in Capacities, UpdateSchedule(c)
    PROVE  BookingSound'
<1>1. c \in Nat /\ capacity' = c /\ peak' = (IF c > peak THEN c ELSE peak)
      /\ UNCHANGED <<appts, desk, told, withheld, raced, untold, crossed>>
  BY BookingConstants DEF UpdateSchedule
<1>2. peak \in Nat /\ peak' \in Nat /\ peak <= peak' /\ c <= peak' BY <1>1 DEF BookingSound, BookingTypes
<1>3. BookingTypes' BY <1>1, <1>2 DEF BookingSound, BookingTypes
<1>4. \A s, apart : In(s, apart)' = In(s, apart) /\ Own(s)' = Own(s) BY <1>1 DEF In, Own, Occupying
<1>5. \A s, apart : Cardinality(In(s, apart)) \in Nat /\ Cardinality(Own(s)) \in Nat BY InFinite
<1>6. ASSUME NEW s \in Slots \ raced' PROVE Cardinality(Own(s)') <= peak'
  <2>1. Cardinality(Own(s)) <= peak BY <1>1 DEF BookingSound
  <2> QED BY <1>2, <1>4, <1>5, <2>1
<1>7. ASSUME NEW e \in Desks PROVE ReadHolds(desk[e])' /\ TellsTrue(desk[e])'
  <2>1. PICK r : r = desk[e] OBVIOUS
  <2>2. ReadHolds(r) /\ TellsTrue(r) BY <2>1 DEF BookingSound
  <2>3. ASSUME NEW s, NEW apart, Cardinality(In(s, apart)) < peak PROVE Cardinality(In(s, apart)') < peak'
    BY <1>2, <1>4, <1>5, <2>3
  <2>4. Occupying' = Occupying BY <1>1 DEF Occupying
  <2>5. ReadHolds(r)' BY <2>2, <2>3, <2>4 DEF ReadHolds
  <2>6. TellsTrue(r)' BY <1>1, <2>2 DEF TellsTrue, Settled
  <2> QED BY <1>1, <2>1, <2>5, <2>6 DEF ReadHolds, TellsTrue
<1>8. ASSUME NEW b \in Appointments PROVE Told(b)'
  <2>1. Told(b) BY DEF BookingSound
  <2> QED BY <1>1, <2>1 DEF Told, Settled
<1> QED BY <1>3, <1>6, <1>7, <1>8 DEF BookingSound

LEMMA BookingStarts ==
    ASSUME BookingInit PROVE BookingSound
<1>1. Absent \in ApptRow /\ AtRest \in DeskRow BY DEF Absent, ApptRow, AtRest, DeskRow
<1>2. capacity \in Nat /\ peak = capacity BY BookingConstants DEF BookingInit
<1>3. BookingTypes BY <1>1, <1>2 DEF BookingInit, BookingTypes
<1>4. ASSUME NEW s \in Slots PROVE Cardinality(Own(s)) <= peak
  <2>1. Own(s) = {} BY DEF BookingInit, Own, Occupying, Absent
  <2> QED BY <1>2, <2>1, FS_EmptySet
<1>5. \A d \in Desks : ReadHolds(desk[d]) /\ TellsTrue(desk[d])
  BY DEF BookingInit, ReadHolds, TellsTrue, AtRest
<1>6. \A a \in Appointments : Told(a) BY DEF BookingInit, Told, Absent
<1> QED BY <1>3, <1>4, <1>5, <1>6 DEF BookingSound

LEMMA BookingSteps ==
    ASSUME BookingSound, [BookingNext]_bookingVars PROVE BookingSound'
<1>1. ASSUME NEW d \in Desks, NEW s \in Slots, NEW by \in {"customer", "merchant"}, BookBegin(d, by, s)
      PROVE  BookingSound'
  BY <1>1, BookBeginSound
<1>2. ASSUME NEW d \in Desks, NEW s \in Slots, NEW a \in Appointments, MoveBegin(d, a, s)
      PROVE  BookingSound'
  BY <1>2, MoveBeginSound
<1>3. ASSUME NEW d \in Desks, NEW a \in Appointments, BookCommit(d, a) \/ ConfirmBegin(d, a) \/ Cancel(d, a)
      PROVE  BookingSound'
  BY <1>3, BookCommitSound, ConfirmBeginSound, CancelSound
<1>4. ASSUME NEW d \in Desks,
             \/ ConfirmCommit(d) \/ MoveCommit(d) \/ TellLoad(d) \/ ScanBegin(d) \/ ScanNext(d)
             \/ PushSent(d) \/ PushSkipped(d) \/ PushFails(d) \/ MarkField(d) \/ Dies(d)
      PROVE  BookingSound'
  BY <1>4, ConfirmCommitSound, MoveCommitSound, TellLoadSound, ScanBeginSound, ScanNextSound,
     PushSentSound, PushFailsSound, MarkFieldSound, DiesSound
<1>5. ASSUME NEW c \in Capacities, UpdateSchedule(c) PROVE BookingSound' BY <1>5, ScheduleSound
<1>6. CASE UNCHANGED <<appts, capacity, desk, told, withheld, peak, raced, untold, crossed>>
  <2>1. Occupying' = Occupying BY <1>6 DEF Occupying
  <2>2. \A s, apart : In(s, apart)' = In(s, apart) /\ Own(s)' = Own(s) BY <1>6, <2>1 DEF In, Own
  <2>3. ASSUME NEW s \in Slots \ raced' PROVE Cardinality(Own(s)') <= peak'
    <3>1. Cardinality(Own(s)) <= peak BY <1>6 DEF BookingSound
    <3> QED BY <1>6, <2>2, <3>1
  <2>4. ASSUME NEW e \in Desks PROVE ReadHolds(desk[e])' /\ TellsTrue(desk[e])'
    <3>1. PICK r : r = desk[e] OBVIOUS
    <3>2. ReadHolds(r) /\ TellsTrue(r) BY <3>1 DEF BookingSound
    <3>3. Cardinality(In(r.slot, {})') = Cardinality(In(r.slot, {})) BY <2>2
    <3>4. Cardinality(In(r.slot, {r.appt})') = Cardinality(In(r.slot, {r.appt})) BY <2>2
    <3> QED BY <1>6, <2>1, <3>1, <3>2, <3>3, <3>4 DEF ReadHolds, TellsTrue, Settled
  <2>5. ASSUME NEW b \in Appointments PROVE Told(b)'
    <3>1. Told(b) BY DEF BookingSound
    <3> QED BY <1>6, <3>1 DEF Told, Settled
  <2>6. BookingTypes' BY <1>6 DEF BookingSound, BookingTypes
  <2> QED BY <2>3, <2>4, <2>5, <2>6 DEF BookingSound
<1>7. CASE Tick \/ UNCHANGED bookingVars BY <1>6, <1>7 DEF Tick, bookingVars
<1> QED BY <1>1, <1>2, <1>3, <1>4, <1>5, <1>7 DEF BookingNext

LEMMA BookingStaysSound == BookingSpec => []BookingSound
BY BookingStarts, BookingSteps, PTL DEF BookingSpec

\* However many requests of however many customers and clerks cross, a slot is
\* never filled past the most the shop has allowed, beside what was put there
\* knowingly and what a confirmation or a move put there on reads that were
\* overtaken: a serializable booking that read a free place is either
\* committed while it is free or refused (service.ts:244).
THEOREM SlotsAlwaysHold == BookingSpec => []SlotsHold
<1>1. BookingSound => SlotsHold BY DEF BookingSound, SlotsHold, Own
<1> QED BY <1>1, BookingStaysSound, PTL

\* An appointment carries a reminder's mark only when LINE took the reminder of
\* the time it has, or a deployment without LINE withheld it, whatever crossed
\* the reminder: processes that die between the call to LINE and the mark, moves
\* in between, scans of two crons, errors of LINE; beside an appointment whose
\* notice of a new time is owed (notify.ts:160), and one that a scan marked for
\* the time it had before (reminders.ts:78).
THEOREM RemindersAlwaysFollow == BookingSpec => []RemindersFollowTheTime
<1>1. BookingSound => RemindersFollowTheTime
  BY BookingConstants DEF BookingSound, RemindersFollowTheTime, MarksHold, Told, Settled
<1> QED BY <1>1, BookingStaysSound, PTL
=============================================================================
