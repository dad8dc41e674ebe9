-------------------------- MODULE HeadOfficeProofs --------------------------
(***************************************************************************)
(* Theorems about the main warehouse and the orders of the web shop, for   *)
(* any order, any pages, any clerks and any number of deliveries of an     *)
(* event.                                                                  *)
(***************************************************************************)
EXTENDS HqStock, WebOrders, SumTheorems, SequenceTheorems

-----------------------------------------------------------------------------
(* The shares of a common cost.                                            *)

\* allocateCommonCost shares the whole cost, whatever the amounts are.
THEOREM SharesAreTheCost ==
    ASSUME NEW D, D \subseteq Int, IsFiniteSet(D), NEW raw \in [D -> Nat], Sum(raw) > 0,
           NEW common \in Int
    PROVE  /\ AllocateCommonCost(raw, common) \in [D -> Int]
           /\ Sum(AllocateCommonCost(raw, common)) = common
<1>b. \A f, h \in [D -> Int] : \A c \in Int :
         (\A l \in D : h[l] = c * f[l]) => Sum(h) = c * Sum(f)
  BY SumTimes
<1> DEFINE total == Sum(raw)
<1>1. total \in Nat /\ total > 0
  BY SumIsNatural
<1>2. PICK size \in Nat, sign \in Int :
         /\ size = IF common < 0 THEN -common ELSE common
         /\ sign = IF common < 0 THEN -1 ELSE 1
         /\ sign * size = common
  <2>1. CASE common < 0
    <3>1. -common \in Nat /\ -1 \in Int /\ (-1) * (-common) = common
      BY <2>1
    <3> QED BY <2>1, <3>1
  <2>2. CASE ~(common < 0)
    <3>1. common \in Nat /\ 1 \in Int /\ 1 * common = common
      BY <2>2
    <3> QED BY <2>2, <3>1
  <2> QED BY <2>1, <2>2
<1>3. PICK cents \in [D -> Nat], rest \in [D -> Nat] :
         /\ cents = [l \in D |-> (size * raw[l]) \div total]
         /\ rest = [l \in D |-> (size * raw[l]) % total]
         /\ \A l \in D : size * raw[l] = total * cents[l] + rest[l] /\ rest[l] < total
  <2> HIDE DEF total
  <2>1. \A l \in D : size * raw[l] \in Nat
    OBVIOUS
  <2>2. /\ [l \in D |-> (size * raw[l]) \div total] \in [D -> Nat]
        /\ [l \in D |-> (size * raw[l]) % total] \in [D -> Nat]
    BY <1>1, <2>1, DivMod
  <2>3. \A l \in D : /\ size * raw[l] = total * ((size * raw[l]) \div total)
                                        + ((size * raw[l]) % total)
                     /\ (size * raw[l]) % total < total
    BY <1>1, <2>1, DivMod
  <2> QED BY <2>2, <2>3
<1> HIDE DEF total
<1> DEFINE Ahead(l) == {m \in D : rest[m] > rest[l] \/ (rest[m] = rest[l] /\ m < l)}
           Part(l) == cents[l] + (IF Cardinality(Ahead(l)) < size - Sum(cents) THEN 1 ELSE 0)
<1>4. PICK part \in [D -> Int] : \A l \in D : part[l] = Part(l)
  <2>1. \A l \in D : Part(l) \in Int
    OBVIOUS
  <2> HIDE DEF Part
  <2>2. [l \in D |-> Part(l)] \in [D -> Int]
    BY <2>1
  <2> QED BY <2>2
<1>5. Sum(part) = size
  <2>1. \A c, r \in [D -> Nat] : \A p \in [D -> Int] :
           /\ \A l \in D : /\ size * raw[l] = Sum(raw) * c[l] + r[l]
                           /\ r[l] < Sum(raw)
           /\ \A l \in D : p[l] = c[l] +
                 (IF Cardinality({m \in D : r[m] > r[l] \/ (r[m] = r[l] /\ m < l)})
                        < size - Sum(c) THEN 1 ELSE 0)
           => /\ Sum(p) = size
              /\ size <= Sum(raw) => \A l \in D : p[l] \in 0..raw[l]
    BY LargestRemainders
  <2> QED BY <1>1, <1>3, <1>4, <2>1 DEF total
<1>6. AllocateCommonCost(raw, common) = [l \in D |-> sign * part[l]]
  <2>1. DOMAIN raw = D
    OBVIOUS
  <2>2. AllocateCommonCost(raw, common) = [l \in D |-> sign * Part(l)]
    BY <1>2, <1>3, <2>1 DEF AllocateCommonCost, total
  <2> QED BY <1>4, <2>2
<1>7. \A l \in D : sign * part[l] \in Int
  OBVIOUS
<1>8. AllocateCommonCost(raw, common) \in [D -> Int]
  BY <1>6, <1>7
<1>9. Sum(AllocateCommonCost(raw, common)) = sign * Sum(part)
  <2>1. \A l \in D : AllocateCommonCost(raw, common)[l] = sign * part[l]
    BY <1>6
  <2> QED BY <1>8, <1>b, <2>1
<1> QED BY <1>2, <1>5, <1>8, <1>9

-----------------------------------------------------------------------------
(* What one delivery costs.                                                *)

\* The amount that an order has been charged when a goods' worth of b has come.
Charged(b) == b + CumulativeShare(Shipping, b, Sum(Raw)) - CumulativeShare(Discount, b, Sum(Raw))
\* The worth of what has come when q more comes of every line.
Worth(q) == Sum([l \in Lines |-> CumulativeShare(Raw[l], Received(l) + q[l], Ordered[l])])

LEMMA ShareIsMonotone ==
    ASSUME NEW total \in Nat, NEW a \in Nat, NEW b \in Nat, a <= b, NEW n \in Nat, n > 0
    PROVE  /\ CumulativeShare(total, a, n) \in Nat
           /\ CumulativeShare(total, a, n) <= CumulativeShare(total, b, n)
<1>1. total * a \in Nat /\ total * b \in Nat /\ total * a <= total * b
  <2>1. total * b = total * a + total * (b - a) /\ total * (b - a) >= 0
    OBVIOUS
  <2> QED BY <2>1
<1>2. ASSUME NEW x \in Nat, NEW y \in Nat, x <= y
      PROVE  x \div n \in Nat /\ x \div n <= y \div n
  <2>1. PICK p \in Nat, r \in Nat : p = x \div n /\ x = n * p + r
    BY DivMod
  <2>2. PICK s \in Nat, t \in Nat : s = y \div n /\ y = n * s + t /\ t < n
    BY DivMod
  <2>3. p <= s
    <3>1. n * p <= n * s + t
      BY <1>2, <2>1, <2>2
    <3>2. ASSUME p >= s + 1 PROVE FALSE
      <4>1. n * p = n * s + n * (p - s) /\ n * (p - s) >= n
        BY <3>2
      <4> QED BY <2>2, <3>1, <4>1
    <3> QED BY <3>2
  <2> QED BY <2>1, <2>2, <2>3
<1> QED BY <1>1, <1>2 DEF CumulativeShare

LEMMA RawIsPositive == Sum(Raw) \in Nat /\ Sum(Raw) > 0
<1>1. IsFiniteSet(Lines) /\ Raw \in [Lines -> Nat] /\ Raw \in [Lines -> Int]
  BY HqStockConstants
<1>2. PICK one \in Lines : Raw[one] > 0
  BY HqStockConstants
<1>3. PICK rest \in [Lines \ {one} -> Nat] : \A l \in Lines \ {one} : rest[l] = Raw[l]
  <2>1. [l \in Lines \ {one} |-> Raw[l]] \in [Lines \ {one} -> Nat]
    BY <1>1
  <2> QED BY <2>1
<1>4. IsFiniteSet(Lines \ {one}) /\ rest \in [Lines \ {one} -> Int]
  BY <1>1, FS_RemoveElement
<1>5. Sum(rest) \in Nat /\ Sum(Raw) \in Nat
  BY <1>1, <1>3, <1>4, SumIsNatural
<1>6. Sum(Raw) = Raw[one] + Sum(rest)
  BY <1>1, <1>3, <1>4, SumWithout
<1> QED BY <1>1, <1>2, <1>5, <1>6

LEMMA LandedNothing == Nothing \in [Lines -> Int]
BY DEF Nothing

\* However much has come before, the landed amounts of a delivery are what it
\* adds to the charge of the order.
LEMMA LandedIsCharge ==
    ASSUME \A l \in Lines : Received(l) \in Nat, NEW q \in [Lines -> Nat]
    PROVE  /\ Landed(q) \in [Lines -> Int]
           /\ Sum(Landed(q)) = Charged(Worth(q)) - Charged(Worth(Nothing))
<1>1. IsFiniteSet(Lines) /\ Lines \subseteq Int
  <2>1. Cardinality(Lines) \in Nat
    BY HqStockConstants, FS_CardinalityType
  <2> QED BY <2>1, HqStockConstants
<1>2. PICK old \in [Lines -> Nat], new \in [Lines -> Nat] :
         /\ old = [l \in Lines |-> ReceivedAmount(l)]
         /\ new = [l \in Lines |-> CumulativeShare(Raw[l], Received(l) + q[l], Ordered[l])]
         /\ \A l \in Lines : old[l] <= new[l] /\ (q[l] = 0 => new[l] = old[l])
  <2>1. ASSUME NEW l \in Lines
        PROVE  /\ ReceivedAmount(l) \in Nat
               /\ CumulativeShare(Raw[l], Received(l) + q[l], Ordered[l]) \in Nat
               /\ ReceivedAmount(l) <= CumulativeShare(Raw[l], Received(l) + q[l], Ordered[l])
    <3>1. PICK a \in Nat, b \in Nat : a = Received(l) /\ b = Received(l) + q[l] /\ a <= b
      OBVIOUS
    <3>2. /\ Raw[l] \in Nat /\ Ordered[l] \in Nat /\ Ordered[l] > 0 /\ b <= b
      BY HqStockConstants
    <3>3. /\ CumulativeShare(Raw[l], a, Ordered[l]) \in Nat
          /\ CumulativeShare(Raw[l], b, Ordered[l]) \in Nat
          /\ CumulativeShare(Raw[l], a, Ordered[l]) <= CumulativeShare(Raw[l], b, Ordered[l])
      BY <3>1, <3>2, ShareIsMonotone
    <3> QED BY <3>1, <3>3 DEF ReceivedAmount
  <2>2. ASSUME NEW l \in Lines, q[l] = 0
        PROVE  ReceivedAmount(l) = CumulativeShare(Raw[l], Received(l) + q[l], Ordered[l])
    <3>1. Received(l) + q[l] = Received(l)
      BY <2>2
    <3> QED BY <3>1, Zenon DEF ReceivedAmount
  <2>3. PICK old \in [Lines -> Nat] : old = [l \in Lines |-> ReceivedAmount(l)]
    BY <2>1
  <2>4. PICK new \in [Lines -> Nat] :
           new = [l \in Lines |-> CumulativeShare(Raw[l], Received(l) + q[l], Ordered[l])]
    BY <2>1
  <2>5. \A l \in Lines : old[l] <= new[l] /\ (q[l] = 0 => new[l] = old[l])
    BY <2>1, <2>2, <2>3, <2>4
  <2> QED BY <2>3, <2>4, <2>5
<1>3. PICK D \in SUBSET Lines : D = {m \in Lines : q[m] > 0} /\ IsFiniteSet(D)
  <2>1. PICK D \in SUBSET Lines : D = {m \in Lines : q[m] > 0}
    OBVIOUS
  <2>2. IsFiniteSet(D)
    BY <1>1, FS_Subset
  <2> QED BY <2>1, <2>2
<1>a. \A f, h, k \in [Lines -> Int] :
         (\A l \in Lines : k[l] = f[l] + h[l]) => Sum(k) = Sum(f) + Sum(h)
  <2>1. IsFiniteSet(Lines)
    BY <1>1
  <2> QED BY ONLY <2>1, SumOfSums
<1>b. \A f, h, k \in [D -> Int] :
         (\A l \in D : k[l] = f[l] + h[l]) => Sum(k) = Sum(f) + Sum(h)
  <2>1. IsFiniteSet(D)
    BY <1>3
  <2> QED BY ONLY <2>1, SumOfSums
<1>c. \A f \in [Lines -> Int] : \A h \in [D -> Int] :
         (\A l \in D : h[l] = f[l]) /\ (\A l \in Lines \ D : f[l] = 0) => Sum(h) = Sum(f)
  <2>1. IsFiniteSet(Lines) /\ D \in SUBSET Lines
    BY <1>1
  <2> QED BY ONLY <2>1, SumOfSupport
<1>4. PICK raw \in [D -> Nat] :
         /\ raw = [l \in D |-> ShareOf(Raw[l], Received(l), Received(l) + q[l], Ordered[l])]
         /\ \A l \in D : raw[l] = new[l] - old[l]
  <2>1. \A l \in D : /\ ShareOf(Raw[l], Received(l), Received(l) + q[l], Ordered[l])
                             = new[l] - old[l]
                     /\ new[l] - old[l] \in Nat
    <3> TAKE l \in D
    <3>1. /\ new[l] = CumulativeShare(Raw[l], Received(l) + q[l], Ordered[l])
          /\ old[l] = CumulativeShare(Raw[l], Received(l), Ordered[l])
          /\ old[l] <= new[l] /\ old[l] \in Nat /\ new[l] \in Nat
      BY <1>2, <1>3 DEF ReceivedAmount
    <3>2. ShareOf(Raw[l], Received(l), Received(l) + q[l], Ordered[l]) = new[l] - old[l]
      BY <3>1, Zenon DEF ShareOf
    <3> QED BY <3>1, <3>2
  <2>2. [l \in D |-> ShareOf(Raw[l], Received(l), Received(l) + q[l], Ordered[l])] \in [D -> Nat]
    BY <2>1
  <2> QED BY <2>1, <2>2
<1>5. Worth(q) = Sum(new) /\ Worth(Nothing) = Sum(old)
  <2>1. old = [l \in Lines |-> CumulativeShare(Raw[l], Received(l) + Nothing[l], Ordered[l])]
    BY <1>2 DEF Nothing, ReceivedAmount
  <2> QED BY <1>2, <2>1 DEF Worth
<1>6. Sum(old) \in Nat /\ Sum(new) \in Nat /\ Sum(raw) \in Nat
  BY <1>1, <1>3, SumIsNatural
<1>7. Sum(raw) = Sum(new) - Sum(old)
  <2>1. PICK more \in [Lines -> Int] : \A l \in Lines : more[l] = new[l] - old[l]
    <3>1. [l \in Lines |-> new[l] - old[l]] \in [Lines -> Int]
      OBVIOUS
    <3> QED BY <3>1
  <2>2. \A l \in Lines : new[l] = old[l] + more[l]
    BY <2>1
  <2>3. old \in [Lines -> Int] /\ new \in [Lines -> Int] /\ raw \in [D -> Int]
    OBVIOUS
  <2>4. Sum(new) = Sum(old) + Sum(more)
    BY <1>a, <2>2, <2>3
  <2>5. /\ \A l \in D : raw[l] = more[l]
        /\ \A l \in Lines \ D : more[l] = 0
    BY <1>2, <1>3, <1>4, <2>1
  <2>6. Sum(raw) = Sum(more)
    BY <1>c, <2>3, <2>5
  <2> QED BY <1>6, <2>4, <2>6
<1>8. PICK common \in Int :
         common = ShareOf(Shipping, Sum(old), Sum(old) + Sum(raw), Sum(Raw))
                  - ShareOf(Discount, Sum(old), Sum(old) + Sum(raw), Sum(Raw))
  <2>1. \A a, b \in Nat : a <= b =>
           ShareOf(Shipping, a, b, Sum(Raw)) \in Int /\ ShareOf(Discount, a, b, Sum(Raw)) \in Int
    <3> SUFFICES ASSUME NEW a \in Nat, NEW b \in Nat, a <= b
                 PROVE  /\ ShareOf(Shipping, a, b, Sum(Raw)) \in Int
                        /\ ShareOf(Discount, a, b, Sum(Raw)) \in Int
      OBVIOUS
    <3>1. b <= b /\ Shipping \in Nat /\ Discount \in Nat
      BY HqStockConstants
    <3> QED BY <3>1, RawIsPositive, ShareIsMonotone DEF ShareOf
  <2> QED BY <1>6, <2>1
<1>9. PICK share \in [D -> Int] :
         /\ share = IF Sum(raw) = 0 THEN [l \in D |-> 0] ELSE AllocateCommonCost(raw, common)
         /\ Sum(share) = common
  <2>1. CASE Sum(raw) = 0
    <3>1. [l \in D |-> 0] \in [D -> Int] /\ \A l \in D : [m \in D |-> 0][l] = 0
      OBVIOUS
    <3>2. Sum([l \in D |-> 0]) = 0
      BY <1>3, <3>1, SumOfZeros
    <3>3. \A b \in Nat : CumulativeShare(Shipping, b, Sum(Raw)) \in Int
                         /\ CumulativeShare(Discount, b, Sum(Raw)) \in Int
      <4> TAKE b \in Nat
      <4>1. b <= b /\ Shipping \in Nat /\ Discount \in Nat
        BY HqStockConstants
      <4> QED BY <4>1, RawIsPositive, ShareIsMonotone
    <3>4. Sum(old) + Sum(raw) = Sum(old)
      BY <1>6, <2>1
    <3>5. common = 0
      BY <1>6, <1>8, <3>3, <3>4 DEF ShareOf
    <3> QED BY <2>1, <3>1, <3>2, <3>5
  <2>2. CASE Sum(raw) # 0
    <3>1. D \subseteq Int /\ Sum(raw) > 0
      BY <1>1, <1>6, <2>2
    <3>2. /\ AllocateCommonCost(raw, common) \in [D -> Int]
          /\ Sum(AllocateCommonCost(raw, common)) = common
      BY <1>3, <3>1, SharesAreTheCost
    <3> QED BY <2>2, <3>2
  <2> QED BY <2>1, <2>2
<1>10. Landed(q) = [l \in Lines |-> IF l \in D THEN raw[l] + share[l] ELSE 0]
  <2>1. DOMAIN raw = D
    OBVIOUS
  <2> QED BY <1>2, <1>3, <1>4, <1>8, <1>9, <2>1 DEF Landed
<1>11. Landed(q) \in [Lines -> Int]
  BY <1>10
<1>12. Sum(Landed(q)) = Sum(raw) + Sum(share)
  <2>1. PICK both \in [D -> Int] : \A l \in D : both[l] = raw[l] + share[l]
    <3>1. [l \in D |-> raw[l] + share[l]] \in [D -> Int]
      OBVIOUS
    <3> QED BY <3>1
  <2>2. raw \in [D -> Int]
    OBVIOUS
  <2>3. Sum(both) = Sum(raw) + Sum(share)
    BY <1>b, <2>1, <2>2
  <2>4. /\ \A l \in D : both[l] = Landed(q)[l]
        /\ \A l \in Lines \ D : Landed(q)[l] = 0
    BY <1>10, <2>1
  <2>5. Sum(both) = Sum(Landed(q))
    BY <1>c, <1>11, <2>4
  <2> QED BY <2>3, <2>5
<1>13. \A b \in Nat : /\ CumulativeShare(Shipping, b, Sum(Raw)) \in Int
                      /\ CumulativeShare(Discount, b, Sum(Raw)) \in Int
  <2> TAKE b \in Nat
  <2>1. b <= b /\ Shipping \in Nat /\ Discount \in Nat
    BY HqStockConstants
  <2> QED BY <2>1, RawIsPositive, ShareIsMonotone
<1>14. Sum(old) + Sum(raw) = Sum(new)
  BY <1>6, <1>7
<1>15. Sum(Landed(q)) = Charged(Sum(new)) - Charged(Sum(old))
  BY <1>6, <1>7, <1>8, <1>9, <1>12, <1>13, <1>14 DEF Charged, ShareOf
<1> QED BY <1>5, <1>11, <1>15

-----------------------------------------------------------------------------
(* The balance and the counts.                                             *)

TypeOK ==
    /\ order \in {"pending_receipt", "received", "cancelled"}
    /\ form \in [Forms -> FormRow \cup {None}]
    /\ receipt \in [Forms -> ReceiptRow \cup {None}]
    /\ balance \in [Lines -> Int] /\ version \in [Lines -> Nat]
    /\ journal \in [Lines -> Int] /\ bought \in [Lines -> Int]
    /\ DOMAIN clerk = Clerks
    /\ IsFiniteSet({k \in Forms : receipt[k] # None})

\* A stocktake that has seen the current version has seen the current balance;
\* so has the page of a count, and with it the journal.
StocktakeSeen(t, v, b) ==
    /\ t.line \in Lines /\ t.after \in Int /\ t.before \in Int
    /\ t.seen \in Nat /\ t.seen <= v[t.line]
    /\ v[t.line] = t.seen => b[t.line] = t.before
CountSeen(t, v, j) ==
    /\ DOMAIN t.booked = DOMAIN t.expected /\ DOMAIN t.expected \subseteq Lines
    /\ \A l \in DOMAIN t.expected :
          /\ t.counted[l] \in Int
          /\ t.expected[l] \in Nat /\ t.expected[l] <= v[l]
          /\ v[l] = t.expected[l] => t.booked[l] = j[l]
StockInv ==
    /\ TypeOK
    /\ BalanceIsJournal
    /\ \A c \in Clerks : /\ clerk[c].op = "stocktake" => StocktakeSeen(clerk[c], version, balance)
                         /\ clerk[c].op = "count" => CountSeen(clerk[c], version, journal)

\* What has come of a line is a number.
LEMMA ReceivedIsNatural ==
    ASSUME TypeOK
    PROVE  /\ IsFiniteSet(OrderReceipts)
           /\ \A l \in Lines : [k \in OrderReceipts |-> receipt[k].quantity[l]] \in [OrderReceipts -> Nat]
           /\ \A l \in Lines : Received(l) \in Nat
<1>1. IsFiniteSet(OrderReceipts)
  <2>1. OrderReceipts \in SUBSET {k \in Forms : receipt[k] # None}
    BY DEF OrderReceipts
  <2> QED BY <2>1, FS_Subset DEF TypeOK
<1>2. \A k \in OrderReceipts : receipt[k].quantity \in [Lines -> Nat]
  <2>1. Quantities \subseteq [Lines -> Nat]
    <3>1. MaxQuantity \in Nat
      BY HqStockConstants
    <3>2. 0..MaxQuantity \subseteq Nat
      BY <3>1
    <3> QED
      BY <3>2 DEF Quantities
  <2>2. \A k \in OrderReceipts : receipt[k] \in ReceiptRow
    BY DEF TypeOK, OrderReceipts
  <2>3. \A r \in ReceiptRow : r.quantity \in Quantities
    BY DEF ReceiptRow
  <2> QED
    BY <2>1, <2>2, <2>3
<1>3. \A l \in Lines : [k \in OrderReceipts |-> receipt[k].quantity[l]] \in [OrderReceipts -> Nat]
  BY <1>2
<1> QED BY <1>1, <1>3, SumIsNatural DEF Received

LEMMA InitStock == Init => StockInv
<1> SUFFICES ASSUME Init PROVE StockInv
  OBVIOUS
<1>1. {k \in Forms : receipt[k] # None} = {}
  BY DEF Init
<1>2. IsFiniteSet({k \in Forms : receipt[k] # None})
  BY <1>1, FS_EmptySet
<1> QED BY <1>2 DEF Init, StockInv, TypeOK, BalanceIsJournal, Nothing, Idle

LEMMA FilledIsRow ==
    TypeOK => \A k \in Forms : form[k] # None => form[k] \in FormRow
                                                 /\ form[k].quantity \in [Lines -> Nat]
BY HqStockConstants DEF TypeOK, FormRow, Quantities

\* What a step does to the stock: a line whose version stays keeps its balance
\* and its journal, and a step that moves no stock moves none.
Moves ==
    /\ balance' \in [Lines -> Int] /\ version' \in [Lines -> Nat] /\ journal' \in [Lines -> Int]
    /\ bought' \in [Lines -> Int]
    /\ balance' = journal'
    /\ \A l \in Lines : /\ version[l] <= version'[l]
                        /\ version'[l] = version[l] =>
                              balance'[l] = balance[l] /\ journal'[l] = journal[l]

LEMMA PostedMoves ==
    ASSUME StockInv, NEW q \in [Lines -> Nat], Posted(q)
    PROVE  Moves
<1>1. /\ balance \in [Lines -> Int] /\ version \in [Lines -> Nat]
      /\ journal \in [Lines -> Int] /\ bought \in [Lines -> Int] /\ balance = journal
  BY DEF StockInv, TypeOK, BalanceIsJournal
<1>2. /\ balance' = [l \in Lines |-> balance[l] + q[l]]
      /\ version' = [l \in Lines |-> IF q[l] = 0 THEN version[l] ELSE version[l] + 1]
      /\ journal' = [l \in Lines |-> journal[l] + q[l]]
      /\ bought' = [l \in Lines |-> bought[l] + q[l]]
  BY DEF Posted, Plus, Touched
<1> QED BY <1>1, <1>2 DEF Moves

LEMMA ReceiptMoves ==
    ASSUME StockInv, NEW k \in Forms, ReceivePurchaseOrder(k) \/ PostPurchaseReceipt(k)
    PROVE  Moves /\ clerk' = clerk
<1>1. form[k] # None /\ Posted(form[k].quantity) /\ clerk' = clerk
  BY DEF ReceivePurchaseOrder, PostPurchaseReceipt, NotYetBooked
<1>2. form[k].quantity \in [Lines -> Nat]
  BY <1>1, FilledIsRow DEF StockInv
<1> QED BY <1>1, <1>2, PostedMoves

LEMMA BookOutMoves ==
    ASSUME StockInv, NEW l \in Lines, BookOut(l)
    PROVE  Moves
BY DEF StockInv, TypeOK, BalanceIsJournal, BookOut, Moves

LEMMA StocktakeMoves ==
    ASSUME StockInv, NEW c \in Clerks, StocktakeCommit(c)
    PROVE  Moves
<1>1. PICK t : t = clerk[c]
  OBVIOUS
<1>2. /\ t.line \in Lines /\ t.after \in Int /\ t.before \in Int
      /\ balance[t.line] = t.before
  BY <1>1 DEF StockInv, StocktakeSeen, StocktakeCommit, Conflict
<1>3. /\ balance' = [balance EXCEPT ![t.line] = t.after]
      /\ version' = [version EXCEPT ![t.line] = @ + 1]
      /\ journal' = [journal EXCEPT ![t.line] = @ + t.after - t.before]
      /\ bought' = bought
  BY <1>1 DEF StocktakeCommit
<1>4. /\ balance \in [Lines -> Int] /\ version \in [Lines -> Nat]
      /\ journal \in [Lines -> Int] /\ bought \in [Lines -> Int] /\ balance = journal
  BY DEF StockInv, TypeOK, BalanceIsJournal
<1>5. t.after \in Int /\ journal[t.line] + t.after - t.before = t.after
  BY <1>2, <1>4
<1>6. balance' = journal'
  BY <1>2, <1>3, <1>4, <1>5
<1>7. balance' \in [Lines -> Int] /\ journal' \in [Lines -> Int] /\ bought' \in [Lines -> Int]
  BY <1>3, <1>4, <1>5, <1>6
<1>8. version' \in [Lines -> Nat]
  BY <1>2, <1>3, <1>4
<1>9. ASSUME NEW l \in Lines
      PROVE  /\ version[l] <= version'[l]
             /\ version'[l] = version[l] => balance'[l] = balance[l] /\ journal'[l] = journal[l]
  <2>1. CASE l = t.line
    BY <1>3, <1>4, <2>1
  <2>2. CASE l # t.line
    BY <1>3, <1>4, <2>2
  <2> QED BY <2>1, <2>2
<1> QED BY <1>6, <1>7, <1>8, <1>9 DEF Moves

LEMMA SubmitMoves ==
    ASSUME StockInv, NEW c \in Clerks, SubmitCount(c)
    PROVE  Moves
<1>1. PICK t : t = clerk[c]
  OBVIOUS
<1>2. CountSeen(t, version, journal)
  BY <1>1 DEF StockInv, SubmitCount
<1>3. /\ balance \in [Lines -> Int] /\ version \in [Lines -> Nat]
      /\ journal \in [Lines -> Int] /\ bought \in [Lines -> Int] /\ balance = journal
      /\ bought' = bought
  BY DEF StockInv, TypeOK, BalanceIsJournal, SubmitCount
<1>4. CASE AsExpected(t)
  <2>1. /\ balance' = [l \in Lines |-> Counted(t, l)]
        /\ journal' = [l \in Lines |-> journal[l] + Counted(t, l) - balance[l]]
        /\ version' = [l \in Lines |->
                          version[l] + (IF l \in DOMAIN t.expected THEN 1 ELSE 0)]
    BY <1>1, <1>4 DEF SubmitCount
  <2>2. \A l \in Lines : Counted(t, l) = IF l \in DOMAIN t.expected THEN t.counted[l]
                                                                   ELSE balance[l]
    BY DEF Counted
  <2>3. \A l \in Lines : Counted(t, l) \in Int
    BY <1>2, <1>3, <2>2 DEF CountSeen
  <2> QED BY <1>3, <2>1, <2>2, <2>3 DEF Moves
<1>5. CASE ~AsExpected(t)
  <2>1. balance' = balance /\ version' = version /\ journal' = journal
    BY <1>1, <1>5 DEF SubmitCount
  <2> QED BY <1>3, <2>1 DEF Moves
<1> QED BY <1>4, <1>5

\* What a clerk has seen stays true of the lines whose version stays.
LEMMA SeenStays ==
    ASSUME TypeOK, Moves, NEW t
    PROVE  /\ StocktakeSeen(t, version, balance) => StocktakeSeen(t, version', balance')
           /\ CountSeen(t, version, journal) => CountSeen(t, version', journal')
<1>1. ASSUME StocktakeSeen(t, version, balance) PROVE StocktakeSeen(t, version', balance')
  BY <1>1 DEF TypeOK, Moves, StocktakeSeen
<1>2. ASSUME CountSeen(t, version, journal) PROVE CountSeen(t, version', journal')
  BY <1>2 DEF TypeOK, Moves, CountSeen
<1> QED BY <1>1, <1>2

LEMMA StockKept ==
    ASSUME StockInv, Moves, TypeOK',
           \A c \in Clerks : \/ clerk'[c] = clerk[c]
                             \/ clerk'[c].op = "idle"
                             \/ clerk'[c].op = "stocktake" /\ StocktakeSeen(clerk'[c], version', balance')
                             \/ clerk'[c].op = "count" /\ CountSeen(clerk'[c], version', journal')
    PROVE  StockInv'
<1>1. BalanceIsJournal'
  BY DEF Moves, BalanceIsJournal
<1>2. ASSUME NEW c \in Clerks
      PROVE  /\ clerk'[c].op = "stocktake" => StocktakeSeen(clerk'[c], version', balance')
             /\ clerk'[c].op = "count" => CountSeen(clerk'[c], version', journal')
  <2>1. CASE clerk'[c] = clerk[c]
    <3>1. /\ clerk[c].op = "stocktake" => StocktakeSeen(clerk[c], version', balance')
          /\ clerk[c].op = "count" => CountSeen(clerk[c], version', journal')
      BY SeenStays DEF StockInv
    <3> QED BY <2>1, <3>1
  <2>2. CASE clerk'[c] # clerk[c]
    BY <2>2
  <2> QED BY <2>1, <2>2
<1> QED BY <1>1, <1>2 DEF StockInv

LEMMA TypeKept == StockInv /\ [Next]_vars => TypeOK'
<1> SUFFICES ASSUME StockInv, [Next]_vars PROVE TypeOK'
  OBVIOUS
<1>1. TypeOK
  BY DEF StockInv
<1>2. ASSUME NEW k \in Forms, NEW q \in Quantities, NEW b \in BOOLEAN, Fill(k, q, b)
      PROVE  TypeOK'
  <2>1. [quantity |-> q, ofOrder |-> b] \in FormRow
    BY DEF FormRow
  <2>2. form' \in [Forms -> FormRow \cup {None}]
    BY <1>1, <1>2, <2>1 DEF Fill, TypeOK
  <2> QED BY <1>1, <1>2, <2>2 DEF Fill, TypeOK
<1>3. ASSUME NEW k \in Forms, ReceivePurchaseOrder(k) \/ PostPurchaseReceipt(k)
      PROVE  TypeOK'
  <2>1. PICK landed \in [Lines -> Int] : Booked(k, landed) /\ receipt[k] = None /\ form[k] # None
    <3>1. CASE ReceivePurchaseOrder(k)
      <4>1. form[k].quantity \in [Lines -> Nat] /\ \A l \in Lines : Received(l) \in Nat
        BY <1>1, <3>1, FilledIsRow, ReceivedIsNatural DEF ReceivePurchaseOrder, NotYetBooked
      <4>2. Landed(form[k].quantity) \in [Lines -> Int]
        BY <4>1, LandedIsCharge
      <4> QED BY <3>1, <4>2 DEF ReceivePurchaseOrder, NotYetBooked
    <3>2. CASE PostPurchaseReceipt(k)
      BY <3>2, LandedNothing DEF PostPurchaseReceipt, NotYetBooked
    <3> QED BY <1>3, <3>1, <3>2
  <2>2. [quantity |-> form[k].quantity, landed |-> landed, ofOrder |-> form[k].ofOrder] \in ReceiptRow
    BY <1>1, <2>1, FilledIsRow DEF FormRow, ReceiptRow
  <2>3. receipt' \in [Forms -> ReceiptRow \cup {None}]
    BY <1>1, <2>1, <2>2 DEF Booked, TypeOK
  <2>4. {f \in Forms : receipt'[f] # None} = {f \in Forms : receipt[f] # None} \cup {k}
    BY <1>1, <2>1, <2>2, NoRow DEF Booked, TypeOK
  <2>5. IsFiniteSet({f \in Forms : receipt'[f] # None})
    BY <1>1, <2>4, FS_AddElement DEF TypeOK
  <2> QED BY <1>1, <1>3, <2>3, <2>5, ReceiptMoves
          DEF ReceivePurchaseOrder, PostPurchaseReceipt, TypeOK, Moves
<1>4. CASE CancelUnreceivedPurchaseOrder
  BY <1>1, <1>4 DEF CancelUnreceivedPurchaseOrder, TypeOK
<1>5. ASSUME NEW l \in Lines, BookOut(l) PROVE TypeOK'
  BY <1>1, <1>5, BookOutMoves DEF BookOut, TypeOK, Moves
<1>6. ASSUME NEW c \in Clerks, StocktakeCommit(c) PROVE TypeOK'
  BY <1>1, <1>6, StocktakeMoves DEF StocktakeCommit, TypeOK, Moves
<1>7. ASSUME NEW c \in Clerks, StocktakeRetry(c) PROVE TypeOK'
  BY <1>1, <1>7 DEF StocktakeRetry, TypeOK
<1>8. ASSUME NEW c \in Clerks, NEW k \in Counts, NEW l \in Lines, NEW n \in Found,
             StocktakeBegin(c, k, l, n)
      PROVE  TypeOK'
  BY <1>1, <1>8 DEF StocktakeBegin, TypeOK
<1>9. ASSUME NEW c \in Clerks, NEW S \in SUBSET Lines, NEW counted \in [S -> Found],
             OpenCount(c, S, counted)
      PROVE  TypeOK'
  BY <1>1, <1>9 DEF OpenCount, TypeOK
<1>10. ASSUME NEW c \in Clerks, SubmitCount(c) PROVE TypeOK'
  BY <1>1, <1>10, SubmitMoves DEF SubmitCount, TypeOK, Moves
<1>11. CASE UNCHANGED vars
  BY <1>1, <1>11 DEF vars, TypeOK
<1> QED BY <1>2, <1>3, <1>4, <1>5, <1>6, <1>7, <1>8, <1>9, <1>10, <1>11 DEF Next

LEMMA NextStock == StockInv /\ [Next]_vars => StockInv'
<1> SUFFICES ASSUME StockInv, [Next]_vars PROVE StockInv'
  OBVIOUS
<1>0. TypeOK'
  BY TypeKept
<1>1. TypeOK
  BY DEF StockInv
<1>s. ASSUME UNCHANGED <<balance, version, journal, bought>> PROVE Moves
  BY <1>s DEF StockInv, TypeOK, BalanceIsJournal, Moves
<1>2. ASSUME NEW k \in Forms, NEW q \in Quantities, NEW b \in BOOLEAN, Fill(k, q, b)
      PROVE  StockInv'
  BY <1>0, <1>2, <1>s, StockKept DEF Fill
<1>3. ASSUME NEW k \in Forms, ReceivePurchaseOrder(k) \/ PostPurchaseReceipt(k)
      PROVE  StockInv'
  BY <1>0, <1>3, ReceiptMoves, StockKept
<1>4. CASE CancelUnreceivedPurchaseOrder
  BY <1>0, <1>4, <1>s, StockKept DEF CancelUnreceivedPurchaseOrder
<1>5. ASSUME NEW l \in Lines, BookOut(l) PROVE StockInv'
  BY <1>0, <1>5, BookOutMoves, StockKept DEF BookOut
<1>6. ASSUME NEW c \in Clerks, StocktakeCommit(c) PROVE StockInv'
  <2>1. clerk' = [clerk EXCEPT ![c] = Idle]
    BY <1>6 DEF StocktakeCommit
  <2>2. \A e \in Clerks : clerk'[e] = clerk[e] \/ clerk'[e].op = "idle"
    BY <1>1, <2>1 DEF TypeOK, Idle
  <2> QED BY <1>0, <1>6, <2>2, StocktakeMoves, StockKept
<1>7. ASSUME NEW c \in Clerks, NEW k, NEW l \in Lines, NEW n \in Int, NEW attempt,
             clerk' = [clerk EXCEPT ![c] = Snapshot(k, l, n, attempt)],
             UNCHANGED <<balance, version, journal, bought>>
      PROVE  StockInv'
  <2>1. PICK t : t = Snapshot(k, l, n, attempt)
    OBVIOUS
  <2>2. /\ t.op = "stocktake" /\ t.line = l /\ t.after = n
        /\ t.before = balance[l] /\ t.seen = version[l]
    BY <2>1 DEF Snapshot
  <2>3. StocktakeSeen(t, version', balance')
    BY <1>1, <1>7, <2>2 DEF TypeOK, StocktakeSeen
  <2>4. \A e \in Clerks : clerk'[e] = clerk[e] \/ clerk'[e] = t
    BY <1>1, <1>7, <2>1 DEF TypeOK
  <2>5. \A e \in Clerks : \/ clerk'[e] = clerk[e]
                          \/ /\ clerk'[e].op = "stocktake"
                             /\ StocktakeSeen(clerk'[e], version', balance')
    <3> TAKE e \in Clerks
    <3>1. CASE clerk'[e] = t
      <4>1. clerk'[e].op = "stocktake"
        BY <2>2, <3>1
      <4>2. StocktakeSeen(clerk'[e], version', balance')
        BY <2>3, <3>1
      <4> QED BY <4>1, <4>2
    <3> QED BY <2>4, <3>1
  <2> QED BY <1>0, <1>7, <1>s, <2>5, StockKept
<1>8. ASSUME NEW c \in Clerks, StocktakeRetry(c) PROVE StockInv'
  <2>1. PICK t : t = clerk[c]
    OBVIOUS
  <2>2. t.line \in Lines /\ t.after \in Int
    BY <1>8, <2>1 DEF StocktakeRetry, StockInv, StocktakeSeen
  <2>3. CASE clerk' = [clerk EXCEPT ![c] = Idle]
    <3>1. \A e \in Clerks : clerk'[e] = clerk[e] \/ clerk'[e].op = "idle"
      BY <1>1, <2>3 DEF TypeOK, Idle
    <3> QED BY <1>0, <1>8, <1>s, <3>1, StockKept DEF StocktakeRetry
  <2>4. CASE clerk' = [clerk EXCEPT ![c] = Snapshot(t.key, t.line, t.after, t.attempt + 1)]
    <3>1. PICK key, attempt : key = t.key /\ attempt = t.attempt + 1
      OBVIOUS
    <3>2. clerk' = [clerk EXCEPT ![c] = Snapshot(key, t.line, t.after, attempt)]
      BY <2>4, <3>1
    <3>3. UNCHANGED <<balance, version, journal, bought>>
      BY <1>8 DEF StocktakeRetry
    <3> QED BY <1>7, <2>2, <3>2, <3>3
  <2> QED BY <1>8, <2>1, <2>3, <2>4 DEF StocktakeRetry
<1>9. ASSUME NEW c \in Clerks, NEW k \in Counts, NEW l \in Lines, NEW n \in Found,
             StocktakeBegin(c, k, l, n)
      PROVE  StockInv'
  <2>1. n \in Int
    BY HqStockConstants
  <2> QED BY <1>7, <1>9, <2>1 DEF StocktakeBegin
<1>10. ASSUME NEW c \in Clerks, NEW S \in SUBSET Lines, NEW counted \in [S -> Found],
              OpenCount(c, S, counted)
      PROVE  StockInv'
  <2>1. PICK t : t = [op |-> "count", expected |-> [l \in S |-> version[l]], counted |-> counted,
                      booked |-> [l \in S |-> journal[l]]]
    OBVIOUS
  <2>a. /\ t.op = "count" /\ t.expected = [l \in S |-> version[l]] /\ t.counted = counted
        /\ t.booked = [l \in S |-> journal[l]] /\ version' = version /\ journal' = journal
    <3>1. version' = version /\ journal' = journal
      BY <1>10 DEF OpenCount
    <3>2. PICK e, b : e = [l \in S |-> version[l]] /\ b = [l \in S |-> journal[l]]
      OBVIOUS
    <3>3. t = [op |-> "count", expected |-> e, counted |-> counted, booked |-> b]
      BY <2>1, <3>2
    <3>4. t.op = "count" /\ t.expected = e /\ t.counted = counted /\ t.booked = b
      BY <3>3
    <3> QED BY <3>1, <3>2, <3>4
  <2>b. \A l \in S : counted[l] \in Int /\ version[l] \in Nat
    <3>1. version \in [Lines -> Nat] /\ Found \subseteq Nat
      BY <1>1, HqStockConstants DEF TypeOK
    <3> TAKE l \in S
    <3>2. counted[l] \in Found /\ l \in Lines
      OBVIOUS
    <3>3. counted[l] \in Nat
      BY <3>1, <3>2
    <3>4. version[l] \in Nat
      BY <3>1, <3>2
    <3> QED BY <3>3, <3>4
  <2>2. t.op = "count" /\ CountSeen(t, version', journal')
    BY <2>a, <2>b DEF CountSeen
  <2>3. clerk' = [clerk EXCEPT ![c] = t]
    BY <1>10, <2>1 DEF OpenCount
  <2>4. \A e \in Clerks : clerk'[e] = clerk[e] \/ clerk'[e] = t
    BY <1>1, <2>3 DEF TypeOK
  <2>5. \A e \in Clerks : \/ clerk'[e] = clerk[e]
                          \/ /\ clerk'[e].op = "count"
                             /\ CountSeen(clerk'[e], version', journal')
    <3> TAKE e \in Clerks
    <3>1. CASE clerk'[e] = t
      <4>1. clerk'[e].op = "count"
        BY <2>2, <3>1
      <4>2. CountSeen(clerk'[e], version', journal')
        BY <2>2, <3>1
      <4> QED BY <4>1, <4>2
    <3> QED BY <2>4, <3>1
  <2> QED BY <1>0, <1>10, <1>s, <2>5, StockKept DEF OpenCount
<1>11. ASSUME NEW c \in Clerks, SubmitCount(c) PROVE StockInv'
  <2>1. clerk' = [clerk EXCEPT ![c] = Idle]
    BY <1>11 DEF SubmitCount
  <2>2. \A e \in Clerks : clerk'[e] = clerk[e] \/ clerk'[e].op = "idle"
    BY <1>1, <2>1 DEF TypeOK, Idle
  <2> QED BY <1>0, <1>11, <2>2, SubmitMoves, StockKept
<1>12. CASE UNCHANGED vars
  BY <1>0, <1>12, <1>s, StockKept DEF vars
<1> QED BY <1>2, <1>3, <1>4, <1>5, <1>6, <1>8, <1>9, <1>10, <1>11, <1>12 DEF Next

\* The balance of a product is what its journal adds up to.
THEOREM BalanceAlwaysIsJournal == Spec => []BalanceIsJournal
<1>1. StockInv => BalanceIsJournal
  BY DEF StockInv
<1> QED BY <1>1, InitStock, NextStock, PTL DEF Spec

\* A count that is accepted replaces nothing that was booked since its page
\* was opened.
THEOREM CountsSeeAll == Spec => CountSeesAll
<1>1. StockInv /\ [Next]_vars =>
        [\A c \in Clerks : clerk[c].op = "count" /\ clerk'[c] = Idle =>
            \/ balance' = balance
            \/ \A l \in DOMAIN clerk[c].booked : journal[l] = clerk[c].booked[l]]_vars
  <2> SUFFICES ASSUME StockInv, Next, NEW c \in Clerks, clerk[c].op = "count",
                      clerk'[c] = Idle, balance' # balance
               PROVE  \A l \in DOMAIN clerk[c].booked : journal[l] = clerk[c].booked[l]
    BY DEF vars
  <2>1. clerk' # clerk
    BY DEF Idle
  <2>2. PICK e \in Clerks : StocktakeCommit(e) \/ SubmitCount(e)
    BY <2>1 DEF Next, Fill, ReceivePurchaseOrder, PostPurchaseReceipt, BookOut, StocktakeBegin,
                CancelUnreceivedPurchaseOrder, StocktakeRetry, OpenCount
  <2>3. clerk' = [clerk EXCEPT ![e] = Idle]
    BY <2>2 DEF StocktakeCommit, SubmitCount
  <2>4. e = c
    BY <2>3 DEF StockInv, TypeOK, Idle
  <2>5. SubmitCount(c) /\ AsExpected(clerk[c])
    BY <2>2, <2>4 DEF StocktakeCommit, SubmitCount
  <2> QED BY <2>5 DEF AsExpected, StockInv, CountSeen
<1> QED BY <1>1, InitStock, NextStock, PTL DEF Spec, CountSeesAll

-----------------------------------------------------------------------------
(* The deliveries of the order.                                            *)

Receipts == {f \in Forms : receipt[f] # None}
BookedOf(l) == Sum([k \in Receipts |-> form[k].quantity[l]])
Spent == Sum([k \in OrderReceipts |-> Sum(receipt[k].landed)])

\* A receipt repeats its page, and what the deliveries have cost is the charge
\* for what has come.
DeliveryInv ==
    /\ StockInv
    /\ DeliveredOnce
    /\ \A k \in Forms : receipt[k] # None =>
          /\ form[k] # None
          /\ receipt[k].quantity = form[k].quantity /\ receipt[k].ofOrder = form[k].ofOrder
    /\ Spent = Charged(Worth(Nothing))

LEMMA SumsAreTyped ==
    ASSUME TypeOK
    PROVE  /\ [k \in OrderReceipts |-> Sum(receipt[k].landed)] \in [OrderReceipts -> Int]
           /\ \A l \in Lines : [k \in OrderReceipts |-> receipt[k].quantity[l]]
                                   \in [OrderReceipts -> Int]
           /\ IsFiniteSet(OrderReceipts) /\ IsFiniteSet(Receipts)
           /\ Spent \in Int /\ \A l \in Lines : Received(l) \in Nat
<1>1. \A k \in OrderReceipts : receipt[k].landed \in [Lines -> Int]
  BY DEF TypeOK, OrderReceipts, ReceiptRow
<1>2. IsFiniteSet(Lines)
  BY HqStockConstants
<1>3. \A k \in OrderReceipts : Sum(receipt[k].landed) \in Int
  BY <1>1, <1>2, SumOfInts
<1>4. [k \in OrderReceipts |-> Sum(receipt[k].landed)] \in [OrderReceipts -> Int]
  BY <1>3
<1>5. IsFiniteSet(OrderReceipts) /\ \A l \in Lines : Received(l) \in Nat
  BY ReceivedIsNatural
<1>6. Spent \in Int
  BY <1>4, <1>5, SumOfInts DEF Spent
<1>7. IsFiniteSet(Receipts)
  BY DEF TypeOK, Receipts
<1>8. \A l \in Lines : [k \in OrderReceipts |-> receipt[k].quantity[l]]
                           \in [OrderReceipts -> Int]
  <2> TAKE l \in Lines
  <2>1. [k \in OrderReceipts |-> receipt[k].quantity[l]] \in [OrderReceipts -> Nat]
    BY ReceivedIsNatural
  <2> QED BY <2>1
<1> QED BY <1>4, <1>5, <1>6, <1>7, <1>8

\* One more receipt is one more term of the sums.
LEMMA BookOne ==
    ASSUME DeliveryInv, NEW k \in Forms, form[k] # None, receipt[k] = None,
           NEW landed \in [Lines -> Int], Booked(k, landed), form' = form
    PROVE  /\ \A l \in Lines : BookedOf(l)' = BookedOf(l) + form[k].quantity[l]
           /\ form[k].ofOrder => /\ \A l \in Lines : Received(l)' = Received(l) + form[k].quantity[l]
                                 /\ Spent' = Spent + Sum(landed)
                                 /\ OrderReceipts' # {}
           /\ ~form[k].ofOrder => /\ \A l \in Lines : Received(l)' = Received(l)
                                  /\ Spent' = Spent /\ OrderReceipts' = OrderReceipts
<1>1. TypeOK
  BY DEF DeliveryInv, StockInv
<1>2. PICK q \in [Lines -> Nat], b \in BOOLEAN : q = form[k].quantity /\ b = form[k].ofOrder
  BY <1>1, FilledIsRow DEF FormRow
<1>3. PICK r \in ReceiptRow : /\ r = [quantity |-> q, landed |-> landed, ofOrder |-> b]
                              /\ r.quantity = q /\ r.landed = landed /\ r.ofOrder = b /\ r # None
  <2>1. q \in Quantities
    BY <1>1, <1>2 DEF TypeOK, FormRow
  <2>2. PICK r : r = [quantity |-> q, landed |-> landed, ofOrder |-> b]
    OBVIOUS
  <2>3. r \in ReceiptRow /\ r.quantity = q /\ r.landed = landed /\ r.ofOrder = b
    BY <2>1, <2>2 DEF ReceiptRow
  <2>4. r # None
    BY <2>3, NoRow
  <2> QED BY <2>2, <2>3, <2>4
<1>4. receipt' = [receipt EXCEPT ![k] = r]
  BY <1>2, <1>3 DEF Booked
<1>5. /\ receipt'[k] = r /\ \A f \in Forms \ {k} : receipt'[f] = receipt[f]
  BY <1>1, <1>4 DEF TypeOK
<1>6. /\ Receipts' = Receipts \cup {k} /\ k \notin Receipts /\ k \notin OrderReceipts
      /\ b => OrderReceipts' = OrderReceipts \cup {k}
      /\ ~b => OrderReceipts' = OrderReceipts
  BY <1>3, <1>5 DEF Receipts, OrderReceipts
<1>7. \A l \in Lines : BookedOf(l)' = BookedOf(l) + q[l]
  <2> TAKE l \in Lines
  <2>1. PICK R : R = Receipts /\ IsFiniteSet(R) /\ k \notin R
    BY <1>1, <1>6, SumsAreTyped
  <2>2. PICK f \in [R -> Int] : f = [j \in R |-> form[j].quantity[l]]
    <3>1. \A j \in R : form[j].quantity \in [Lines -> Nat]
      BY <1>1, <2>1, FilledIsRow DEF DeliveryInv, Receipts
    <3>2. \A j \in R : form[j].quantity[l] \in Int
      BY <3>1
    <3>3. [j \in R |-> form[j].quantity[l]] \in [R -> Int]
      BY <3>2
    <3> QED BY <3>3
  <2>3. PICK h \in [R \cup {k} -> Int] : h = [j \in R \cup {k} |-> form[j].quantity[l]]
    <3>1. \A j \in R \cup {k} : form[j].quantity \in [Lines -> Nat]
      BY <1>1, <2>1, FilledIsRow DEF DeliveryInv, Receipts
    <3>2. \A j \in R \cup {k} : form[j].quantity[l] \in Int
      BY <3>1
    <3>3. [j \in R \cup {k} |-> form[j].quantity[l]] \in [R \cup {k} -> Int]
      BY <3>2
    <3> QED BY <3>3
  <2>4. (\A j \in R : h[j] = f[j]) /\ h[k] = q[l]
    <3>1. h[k] = form[k].quantity[l]
      BY <2>3
    <3>2. \A j \in R : h[j] = form[j].quantity[l]
      BY <2>3
    <3>3. \A j \in R : f[j] = form[j].quantity[l]
      BY <2>2
    <3> QED BY <1>2, <3>1, <3>2, <3>3
  <2>5. Sum(h) = Sum(f) + h[k]
    <3>1. \A d \in [R -> Int] : \A e \in [R \cup {k} -> Int] :
             (\A j \in R : e[j] = d[j]) => Sum(e) = Sum(d) + e[k]
      <4>1. IsFiniteSet(R) /\ k \notin R
        BY <2>1
      <4> QED BY ONLY <4>1, SumWith, Zenon
    <3> QED BY <2>4, <3>1
  <2>6. BookedOf(l) = Sum(f)
    BY <2>1, <2>2 DEF BookedOf
  <2>7. BookedOf(l)' = Sum(h)
    BY <1>6, <2>1, <2>3 DEF BookedOf
  <2> QED BY <2>4, <2>5, <2>6, <2>7
<1>8. PICK O : O = OrderReceipts /\ IsFiniteSet(O) /\ k \notin O /\ O \subseteq Forms \ {k}
  BY <1>1, <1>6, SumsAreTyped DEF OrderReceipts
<1>a. \A d \in [O -> Int] : \A e \in [O \cup {k} -> Int] :
         (\A j \in O : e[j] = d[j]) => Sum(e) = Sum(d) + e[k]
  <2>1. IsFiniteSet(O) /\ k \notin O
    BY <1>8
  <2> QED BY ONLY <2>1, SumWith, Zenon
<1>9. ASSUME NEW l \in Lines
      PROVE  Received(l)' = IF b THEN Received(l) + q[l] ELSE Received(l)
  <2>1. PICK f \in [O -> Int] : f = [j \in O |-> receipt[j].quantity[l]] /\ Received(l) = Sum(f)
    BY <1>1, <1>8, SumsAreTyped DEF Received
  <2>2. \A j \in O : receipt'[j].quantity[l] = f[j]
    BY <1>5, <1>8, <2>1
  <2>3. CASE b
    <3>1. PICK h \in [O \cup {k} -> Int] :
             /\ h = [j \in O \cup {k} |-> receipt'[j].quantity[l]]
             /\ h[k] = q[l] /\ \A j \in O : h[j] = f[j]
      <4>1. receipt'[k].quantity[l] = q[l] /\ q[l] \in Int
        BY <1>3, <1>5
      <4>2. [j \in O \cup {k} |-> receipt'[j].quantity[l]] \in [O \cup {k} -> Int]
        BY <2>2, <4>1
      <4>3. PICK h \in [O \cup {k} -> Int] : h = [j \in O \cup {k} |-> receipt'[j].quantity[l]]
        BY <4>2
      <4>4. h[k] = q[l] /\ \A j \in O : h[j] = f[j]
        BY <2>2, <4>1, <4>3
      <4> QED BY <4>3, <4>4
    <3>2. Sum(h) = Sum(f) + h[k]
      BY <1>a, <3>1
    <3>3. Received(l)' = Sum(h)
      BY <1>6, <1>8, <2>3, <3>1 DEF Received
    <3> QED BY <2>1, <2>3, <3>1, <3>2, <3>3
  <2>4. CASE ~b
    <3>1. [j \in O |-> receipt'[j].quantity[l]] = f
      BY <2>2
    <3> QED BY <1>6, <1>8, <2>1, <2>4, <3>1 DEF Received
  <2> QED BY <2>3, <2>4
<1>10. Spent' = IF b THEN Spent + Sum(landed) ELSE Spent
  <2>1. PICK f \in [O -> Int] : f = [j \in O |-> Sum(receipt[j].landed)] /\ Spent = Sum(f)
    BY <1>1, <1>8, SumsAreTyped DEF Spent
  <2>2. \A j \in O : Sum(receipt'[j].landed) = f[j]
    BY <1>5, <1>8, <2>1
  <2>3. CASE b
    <3>1. PICK h \in [O \cup {k} -> Int] :
             /\ h = [j \in O \cup {k} |-> Sum(receipt'[j].landed)]
             /\ h[k] = Sum(landed) /\ \A j \in O : h[j] = f[j]
      <4>1. Sum(receipt'[k].landed) = Sum(landed)
        BY <1>3, <1>5
      <4>2. Sum(landed) \in Int
        BY HqStockConstants, SumOfInts
      <4>3. [j \in O \cup {k} |-> Sum(receipt'[j].landed)] \in [O \cup {k} -> Int]
        BY <2>2, <4>1, <4>2
      <4>4. PICK h \in [O \cup {k} -> Int] : h = [j \in O \cup {k} |-> Sum(receipt'[j].landed)]
        BY <4>3
      <4>5. h[k] = Sum(landed) /\ \A j \in O : h[j] = f[j]
        BY <2>2, <4>1, <4>4
      <4> QED BY <4>4, <4>5
    <3>2. Sum(h) = Sum(f) + h[k]
      BY <1>a, <3>1
    <3>3. Spent' = Sum(h)
      BY <1>6, <1>8, <2>3, <3>1 DEF Spent
    <3> QED BY <2>1, <2>3, <3>1, <3>2, <3>3
  <2>4. CASE ~b
    <3>1. [j \in O |-> Sum(receipt'[j].landed)] = f
      BY <2>2
    <3> QED BY <1>6, <1>8, <2>1, <2>4, <3>1 DEF Spent
  <2> QED BY <2>3, <2>4
<1> QED BY <1>2, <1>6, <1>7, <1>9, <1>10

\* What the invariant says of the deliveries, with the sums by name.
Deliveries ==
    /\ order = "received" <=> \A l \in Lines : Received(l) = Ordered[l]
    /\ order = "cancelled" => OrderReceipts = {}
    /\ \A l \in Lines : Received(l) <= Ordered[l] /\ bought[l] = BookedOf(l)
    /\ \A k \in Forms : receipt[k] # None =>
          /\ form[k] # None
          /\ receipt[k].quantity = form[k].quantity /\ receipt[k].ofOrder = form[k].ofOrder
    /\ Spent = Charged(Worth(Nothing))

LEMMA DeliveriesByName == DeliveryInv <=> StockInv /\ Deliveries
<1>1. \A l \in Lines : BookedOf(l)
         = Sum([k \in {f \in Forms : receipt[f] # None} |-> form[k].quantity[l]])
  BY DEF BookedOf, Receipts
<1>2. DeliveredOnce <=>
         /\ order = "received" <=> \A l \in Lines : Received(l) = Ordered[l]
         /\ order = "cancelled" => OrderReceipts = {}
         /\ \A l \in Lines : Received(l) <= Ordered[l] /\ bought[l] = BookedOf(l)
  BY <1>1, Zenon DEF DeliveredOnce
<1> QED BY <1>2, Zenon DEF DeliveryInv, Deliveries

LEMMA NothingHasNoWorth == Charged(0) = 0
<1>1. \A n \in Nat : CumulativeShare(n, 0, Sum(Raw)) = 0
  <2> TAKE n \in Nat
  <2>1. n * 0 = 0
    OBVIOUS
  <2>2. 0 \div Sum(Raw) = 0
    BY RawIsPositive
  <2> QED BY <2>1, <2>2 DEF CumulativeShare
<1>2. Shipping \in Nat /\ Discount \in Nat
  BY HqStockConstants
<1> QED BY <1>1, <1>2 DEF Charged

LEMMA InitDelivery == Init => DeliveryInv
<1> SUFFICES ASSUME Init PROVE StockInv /\ Deliveries
  BY DeliveriesByName
<1>1. StockInv
  BY InitStock
<1>2. OrderReceipts = {} /\ Receipts = {} /\ \A k \in Forms : receipt[k] = None
  BY DEF Init, OrderReceipts, Receipts
<1>3. \A l \in Lines : Received(l) = 0 /\ BookedOf(l) = 0
  <2> TAKE l \in Lines
  <2>1. [k \in OrderReceipts |-> receipt[k].quantity[l]] \in [{} -> Int]
    BY <1>2
  <2>2. [k \in Receipts |-> form[k].quantity[l]] \in [{} -> Int]
    BY <1>2
  <2> QED BY <2>1, <2>2, SumOfNothing DEF Received, BookedOf
<1>4. Spent = 0
  <2>1. [k \in OrderReceipts |-> Sum(receipt[k].landed)] \in [{} -> Int]
    BY <1>2
  <2> QED BY <2>1, SumOfNothing DEF Spent
<1>5. Worth(Nothing) = 0
  <2>1. ASSUME NEW l \in Lines
        PROVE  CumulativeShare(Raw[l], Received(l) + Nothing[l], Ordered[l]) = 0
    <3>1. Received(l) + Nothing[l] = 0
      BY <1>3 DEF Nothing
    <3>2. Raw[l] * 0 = 0 /\ 0 \div Ordered[l] = 0
      BY HqStockConstants
    <3> QED BY <3>1, <3>2 DEF CumulativeShare
  <2>2. PICK w \in [Lines -> Int] :
           /\ w = [l \in Lines |-> CumulativeShare(Raw[l], Received(l) + Nothing[l], Ordered[l])]
           /\ \A l \in Lines : w[l] = 0
    <3>1. PICK w : w = [l \in Lines |-> CumulativeShare(Raw[l], Received(l) + Nothing[l], Ordered[l])]
      OBVIOUS
    <3>2. w \in [Lines -> Int] /\ \A l \in Lines : w[l] = 0
      BY <2>1, <3>1
    <3> QED BY <3>1, <3>2
  <2> QED BY <2>2, SumOfZeros, HqStockConstants DEF Worth
<1>6. PICK one \in Lines : Ordered[one] # 0
  BY HqStockConstants
<1> QED BY <1>1, <1>2, <1>3, <1>4, <1>5, <1>6, NothingHasNoWorth, HqStockConstants
        DEF Deliveries, Init, Nothing

LEMMA DeliveriesStay ==
    ASSUME Deliveries, UNCHANGED <<order, receipt, bought>>,
           \A k \in Forms : receipt[k] # None => form'[k] = form[k]
    PROVE  Deliveries'
<1>1. OrderReceipts' = OrderReceipts /\ Receipts' = Receipts
  BY DEF OrderReceipts, Receipts
<1>2. \A l \in Lines : Received(l)' = Received(l)
  BY <1>1 DEF Received
<1>3. \A l \in Lines : BookedOf(l)' = BookedOf(l)
  <2> TAKE l \in Lines
  <2>1. \A k \in Receipts : form'[k].quantity[l] = form[k].quantity[l]
    BY DEF Receipts
  <2>2. [k \in Receipts |-> form'[k].quantity[l]] = [k \in Receipts |-> form[k].quantity[l]]
    BY <2>1
  <2> QED BY <1>1, <2>2 DEF BookedOf
<1>4. Spent' = Spent
  BY <1>1 DEF Spent
<1>5. Worth(Nothing)' = Worth(Nothing)
  BY <1>2 DEF Worth
<1>6. Charged(Worth(Nothing))' = Charged(Worth(Nothing))
  BY <1>5 DEF Charged
<1> QED BY <1>1, <1>2, <1>3, <1>4, <1>6 DEF Deliveries

LEMMA ReceiptKeeps ==
    ASSUME DeliveryInv, NEW k \in Forms, ReceivePurchaseOrder(k) \/ PostPurchaseReceipt(k)
    PROVE  Deliveries'
<1>0. StockInv /\ TypeOK /\ Deliveries
  BY DeliveriesByName DEF StockInv
<1>1. form[k] # None /\ receipt[k] = None /\ form' = form
  BY DEF ReceivePurchaseOrder, PostPurchaseReceipt, NotYetBooked
<1>2. PICK q \in [Lines -> Nat] : q = form[k].quantity
  BY <1>0, <1>1, FilledIsRow
<1>3. \A l \in Lines : Received(l) \in Nat
  BY <1>0, ReceivedIsNatural
<1>4. PICK landed \in [Lines -> Int] :
         /\ Booked(k, landed)
         /\ ReceivePurchaseOrder(k) => landed = Landed(q)
         /\ Posted(q)
  <2>1. CASE ReceivePurchaseOrder(k)
    <3>1. Landed(q) \in [Lines -> Int]
      BY <1>3, LandedIsCharge
    <3> QED BY <1>2, <2>1, <3>1 DEF ReceivePurchaseOrder
  <2>2. CASE ~ReceivePurchaseOrder(k)
    BY <1>2, <2>2, LandedNothing DEF PostPurchaseReceipt
  <2> QED BY <2>1, <2>2
<1>5. /\ \A l \in Lines : BookedOf(l)' = BookedOf(l) + q[l]
      /\ form[k].ofOrder => /\ \A l \in Lines : Received(l)' = Received(l) + q[l]
                            /\ Spent' = Spent + Sum(landed)
                            /\ OrderReceipts' # {}
      /\ ~form[k].ofOrder => /\ \A l \in Lines : Received(l)' = Received(l)
                             /\ Spent' = Spent /\ OrderReceipts' = OrderReceipts
  BY <1>1, <1>2, <1>4, BookOne
<1>6. \A l \in Lines : bought'[l] = BookedOf(l)'
  <2> TAKE l \in Lines
  <2>1. bought'[l] = bought[l] + q[l]
    BY <1>0, <1>4 DEF Posted, Plus, TypeOK
  <2>2. bought[l] = BookedOf(l)
    BY <1>0 DEF Deliveries
  <2> QED BY <1>5, <2>1, <2>2
<1>7. \A f \in Forms : receipt'[f] # None =>
         /\ form'[f] # None
         /\ receipt'[f].quantity = form'[f].quantity /\ receipt'[f].ofOrder = form'[f].ofOrder
  <2> TAKE f \in Forms
  <2>1. CASE f = k
    <3>1. PICK r : /\ r = [quantity |-> form[k].quantity, landed |-> landed,
                            ofOrder |-> form[k].ofOrder]
                   /\ r.quantity = form[k].quantity /\ r.ofOrder = form[k].ofOrder
      <4>1. PICK r : r = [quantity |-> form[k].quantity, landed |-> landed,
                          ofOrder |-> form[k].ofOrder]
        OBVIOUS
      <4> QED BY <4>1
    <3>2. receipt'[k] = r
      BY <1>0, <1>4, <3>1 DEF Booked, TypeOK
    <3> QED BY <1>1, <2>1, <3>1, <3>2
  <2>2. CASE f # k
    <3>1. receipt'[f] = receipt[f]
      BY <1>0, <1>4, <2>2 DEF Booked, TypeOK
    <3> QED BY <1>0, <1>1, <3>1 DEF Deliveries
  <2> QED BY <2>1, <2>2
<1>8. CASE ReceivePurchaseOrder(k)
  <2>1. /\ form[k].ofOrder /\ order = "pending_receipt"
        /\ \A l \in Lines : Received(l) + q[l] <= Ordered[l]
        /\ order' = IF Complete(q) THEN "received" ELSE order
    BY <1>2, <1>8 DEF ReceivePurchaseOrder
  <2>2. Complete(q) <=> \A l \in Lines : Received(l)' = Ordered[l]
    BY <1>5, <2>1 DEF Complete
  <2>3. Worth(Nothing)' = Worth(q)
    <3>1. ASSUME NEW l \in Lines
          PROVE  Received(l)' + Nothing[l] = Received(l) + q[l]
      BY <1>3, <1>5, <2>1 DEF Nothing
    <3>2. [l \in Lines |-> CumulativeShare(Raw[l], Received(l)' + Nothing[l], Ordered[l])]
            = [l \in Lines |-> CumulativeShare(Raw[l], Received(l) + q[l], Ordered[l])]
      BY <3>1
    <3>3. Nothing' = Nothing
      BY DEF Nothing
    <3> QED BY <3>2, <3>3 DEF Worth, CumulativeShare
  <2>4. Spent' = Charged(Worth(q))
    <3>1. Sum(landed) = Charged(Worth(q)) - Charged(Worth(Nothing))
      BY <1>3, <1>4, <1>8, LandedIsCharge
    <3>2. Spent = Charged(Worth(Nothing))
      BY <1>0 DEF Deliveries
    <3>3. Spent \in Int /\ Sum(landed) \in Int
      BY <1>0, SumsAreTyped, SumOfInts, HqStockConstants
    <3>4. Charged(Worth(q)) \in Int
      <4>1. \A l \in Lines : CumulativeShare(Raw[l], Received(l) + q[l], Ordered[l]) \in Nat
        <5> TAKE l \in Lines
        <5>1. PICK b \in Nat : b = Received(l) + q[l] /\ b <= b
          BY <1>3
        <5>2. Raw[l] \in Nat /\ Ordered[l] \in Nat /\ Ordered[l] > 0
          BY HqStockConstants
        <5> QED BY <5>1, <5>2, ShareIsMonotone
      <4>2. PICK w \in [Lines -> Nat] :
               w = [l \in Lines |-> CumulativeShare(Raw[l], Received(l) + q[l], Ordered[l])]
        BY <4>1
      <4>3. PICK n \in Nat : n = Worth(q) /\ n <= n
        <5>1. IsFiniteSet(Lines)
          BY HqStockConstants
        <5>2. Sum(w) \in Nat
          BY <5>1, SumIsNatural
        <5> QED BY <4>2, <5>2 DEF Worth
      <4>4. Shipping \in Nat /\ Discount \in Nat
        BY HqStockConstants
      <4>5. /\ CumulativeShare(Shipping, n, Sum(Raw)) \in Nat
            /\ CumulativeShare(Discount, n, Sum(Raw)) \in Nat
        BY <4>3, <4>4, RawIsPositive, ShareIsMonotone
      <4> QED BY <4>3, <4>5 DEF Charged
    <3> QED BY <1>5, <2>1, <3>1, <3>2, <3>3, <3>4
  <2>5. Charged(Worth(Nothing))' = Charged(Worth(q))
    BY <2>3 DEF Charged, CumulativeShare
  <2> QED BY <1>5, <1>6, <1>7, <2>1, <2>2, <2>4, <2>5 DEF Deliveries
<1>9. CASE PostPurchaseReceipt(k)
  <2>1. ~form[k].ofOrder /\ order' = order
    BY <1>9 DEF PostPurchaseReceipt
  <2>2. Worth(Nothing)' = Worth(Nothing)
    <3>1. \A l \in Lines : Received(l)' = Received(l)
      BY <1>5, <2>1
    <3> QED BY <3>1 DEF Worth, Nothing, CumulativeShare
  <2>3. Charged(Worth(Nothing))' = Charged(Worth(Nothing))
    BY <2>2 DEF Charged, CumulativeShare
  <2> QED BY <1>0, <1>5, <1>6, <1>7, <2>1, <2>3 DEF Deliveries
<1> QED BY <1>8, <1>9

LEMMA NextDelivery == DeliveryInv /\ [Next]_vars => DeliveryInv'
<1> SUFFICES ASSUME DeliveryInv, [Next]_vars PROVE DeliveryInv'
  OBVIOUS
<1>0. StockInv /\ TypeOK /\ Deliveries
  BY DeliveriesByName DEF StockInv
<1>1. StockInv'
  BY <1>0, NextStock
<1>2. ASSUME NEW k \in Forms, NEW q \in Quantities, NEW b \in BOOLEAN, Fill(k, q, b)
      PROVE  Deliveries'
  <2>1. \A f \in Forms : receipt[f] # None => form'[f] = form[f]
    BY <1>0, <1>2 DEF Fill, Deliveries, TypeOK
  <2> QED BY <1>0, <1>2, <2>1, DeliveriesStay DEF Fill
<1>3. ASSUME NEW k \in Forms, ReceivePurchaseOrder(k) \/ PostPurchaseReceipt(k)
      PROVE  Deliveries'
  BY <1>3, ReceiptKeeps
<1>4. ASSUME CancelUnreceivedPurchaseOrder PROVE Deliveries'
  <2>1. /\ OrderReceipts = {} /\ order = "pending_receipt" /\ order' = "cancelled"
        /\ UNCHANGED <<form, receipt, bought>>
    BY <1>4 DEF CancelUnreceivedPurchaseOrder, NoneReceived
  <2>2. OrderReceipts' = OrderReceipts /\ Receipts' = Receipts
    BY <2>1 DEF OrderReceipts, Receipts
  <2>3. \A l \in Lines : Received(l)' = Received(l) /\ BookedOf(l)' = BookedOf(l)
    BY <2>1, <2>2 DEF Received, BookedOf
  <2>4. Spent' = Spent /\ Charged(Worth(Nothing))' = Charged(Worth(Nothing))
    <3>1. Worth(Nothing)' = Worth(Nothing)
      BY <2>3 DEF Worth, Nothing, CumulativeShare
    <3>2. Charged(Worth(Nothing))' = Charged(Worth(Nothing))
      BY <3>1 DEF Charged, CumulativeShare
    <3>3. Spent' = Spent
      BY <2>1, <2>2 DEF Spent
    <3> QED BY <3>2, <3>3
  <2>5. ~\A l \in Lines : Received(l)' = Ordered[l]
    BY <1>0, <2>1, <2>3 DEF Deliveries
  <2>6. \A l \in Lines : Received(l)' <= Ordered[l] /\ bought'[l] = BookedOf(l)'
    BY <1>0, <2>1, <2>3 DEF Deliveries
  <2>7. order' = "received" <=> \A l \in Lines : Received(l)' = Ordered[l]
    BY <2>1, <2>5
  <2>8. OrderReceipts' = {}
    BY <2>1, <2>2, Zenon
  <2>9. \A k \in Forms : receipt'[k] # None =>
          /\ form'[k] # None
          /\ receipt'[k].quantity = form'[k].quantity /\ receipt'[k].ofOrder = form'[k].ofOrder
    BY <1>0, <2>1 DEF Deliveries
  <2>10. Spent' = Charged(Worth(Nothing))'
    BY <1>0, <2>4, Zenon DEF Deliveries
  <2> QED BY <2>6, <2>7, <2>8, <2>9, <2>10 DEF Deliveries
<1>5. ASSUME UNCHANGED <<order, form, receipt, bought>>
      PROVE  Deliveries'
  BY <1>0, <1>5, DeliveriesStay
<1>6. \/ \E k \in Forms :
            \/ \E q \in Quantities, b \in BOOLEAN : Fill(k, q, b)
            \/ ReceivePurchaseOrder(k) \/ PostPurchaseReceipt(k)
      \/ CancelUnreceivedPurchaseOrder
      \/ UNCHANGED <<order, form, receipt, bought>>
  BY DEF Next, vars, BookOut, StocktakeBegin, StocktakeCommit, StocktakeRetry, OpenCount,
         SubmitCount
<1>7. Deliveries'
  <2>1. CASE \E k \in Forms, q \in Quantities, b \in BOOLEAN : Fill(k, q, b)
    BY <1>2, <2>1
  <2>2. CASE \E k \in Forms : ReceivePurchaseOrder(k) \/ PostPurchaseReceipt(k)
    BY <1>3, <2>2
  <2>3. CASE CancelUnreceivedPurchaseOrder
    BY <1>4, <2>3
  <2>4. CASE UNCHANGED <<order, form, receipt, bought>>
    BY <1>5, <2>4
  <2> QED BY <1>6, <2>1, <2>2, <2>3, <2>4, Zenon
<1>8. (DeliveryInv <=> StockInv /\ Deliveries)'
  BY DeliveriesByName, PTL
<1> QED BY <1>1, <1>7, <1>8

\* However often its page is submitted, a delivery is booked in once and none
\* beyond the order, which is closed when nothing is outstanding.
THEOREM DeliveriesBookedOnce == Spec => []DeliveredOnce
<1>1. DeliveryInv => DeliveredOnce
  BY DEF DeliveryInv
<1> QED BY <1>1, InitDelivery, NextDelivery, PTL DEF Spec

\* However an order is split into deliveries, their landed amounts add up to
\* the amount of the order, to the cent.
THEOREM CostsAlwaysAddUp == Spec => []CostsAddUp
<1>1. ASSUME DeliveryInv, order = "received"
      PROVE  Spent = Sum(Raw) + Shipping - Discount
  <2>1. \A l \in Lines : Received(l) = Ordered[l]
    BY <1>1, DeliveriesByName DEF Deliveries
  <2>2. ASSUME NEW l \in Lines
        PROVE  CumulativeShare(Raw[l], Received(l) + Nothing[l], Ordered[l]) = Raw[l]
    <3>1. PICK a \in Nat, n \in Nat : a = Raw[l] /\ n = Ordered[l] /\ n > 0
      BY HqStockConstants
    <3>2. Received(l) + Nothing[l] = n
      BY <2>1, <3>1 DEF Nothing
    <3>3. (a * n) \div n = a
      BY <3>1
    <3> QED BY <3>1, <3>2, <3>3 DEF CumulativeShare
  <2>3. [l \in Lines |-> CumulativeShare(Raw[l], Received(l) + Nothing[l], Ordered[l])] = Raw
    BY <2>2, HqStockConstants
  <2>4. Worth(Nothing) = Sum(Raw)
    BY <2>3 DEF Worth
  <2>5. PICK n \in Nat : n = Sum(Raw) /\ n > 0
    BY RawIsPositive
  <2>6. Shipping \in Nat /\ Discount \in Nat
    BY HqStockConstants
  <2>7. \A a \in Nat : (a * n) \div n = a
    BY <2>5
  <2>8. /\ CumulativeShare(Shipping, n, n) = Shipping
        /\ CumulativeShare(Discount, n, n) = Discount
    BY <2>6, <2>7 DEF CumulativeShare
  <2>9. Charged(n) = n + Shipping - Discount
    BY <2>5, <2>8 DEF Charged
  <2>10. Spent = Charged(Worth(Nothing))
    BY <1>1 DEF DeliveryInv
  <2> QED BY <2>4, <2>5, <2>9, <2>10
<1>2. DeliveryInv => CostsAddUp
  BY <1>1 DEF CostsAddUp, Spent
<1> QED BY <1>2, InitDelivery, NextDelivery, PTL DEF Spec

-----------------------------------------------------------------------------
(***************************************************************************)
(* The order of the web shop.  A shipment the review has built ties the     *)
(* order to the version it was built from: the order does not go back to    *)
(* the review, so a check that still holds is one of that version.  What    *)
(* was taken in is no newer than the version the order has.                 *)
(***************************************************************************)
OmsStatuses == {Unenrolled, "NEW", "REVIEW", "READY", "FULFILLMENT_PENDING", "FULFILLED"}
WebStatuses == {"none", "review", "confirmed", "shipped", "delivered", "cancelled"}
WebFlags == {"unchecked", "payment", "cancelled", "conflict"}
WebOrderRow == [oms : OmsStatuses, status : WebStatuses, snap : Nat, payment : Payments,
                flags : SUBSET WebFlags, fresh : BOOLEAN, reviewed : BOOLEAN]
WebShipmentRow == [status : {"none", "pending", "shipped", "delivered", "cancelled"}, built : Nat,
                   eligible : BOOLEAN, out : Nat, back : BOOLEAN, live : Nat]
VersionRow == [at : Nat, payment : Payments, cancelled : BOOLEAN]
CallerRow == [op : {"idle", "legacy"}]
             \cup [op : {"mark"}, to : Sent \cup {"cancelled"}, legacy : BOOLEAN]
             \cup [op : {"carrier"}, event : Carrier, apply : BOOLEAN, write : BOOLEAN]
             \cup [op : {"cancel"}, all : BOOLEAN]
RetryRow(row) ==
    DOMAIN row = {"run", "version", "attempts"} /\ row.version \in 1..Len(source)
WebTypes ==
    /\ source \in Seq(VersionRow) /\ event \in [Versions -> {"none", "failed", "done"}]
    /\ webOrder \in WebOrderRow /\ shipment \in WebShipmentRow
    /\ webOrder.snap \in 0..Len(source) /\ fetched \in 0..Len(source)
    /\ \A row \in retry : RetryRow(row)
    /\ \A v \in Versions : event[v] # "none" => v \in 1..Len(source)
    /\ caller \in [Callers -> CallerRow]

BuiltOK(ord, ship) ==
    ship.built # 0 =>
        /\ ord.oms \in {"FULFILLMENT_PENDING", "FULFILLED"} /\ ord.snap # 0 /\ ord.status # "none"
        /\ ord.fresh => ord.snap = ship.built
        /\ ship.out # 0 => ship.out = ship.built
Newest(ord, v) ==
    /\ v \in 1..Len(source) /\ ord.snap # 0
    /\ \/ v = ord.snap \/ source[v].at < source[ord.snap].at
       \/ source[v].at = source[ord.snap].at /\ "conflict" \in ord.flags
KnownOK == \A v \in Versions : event[v] = "done" => Newest(webOrder, v)
WebSound == WebTypes /\ BuiltOK(webOrder, shipment) /\ KnownOK /\ shipment.live <= 1

LEMMA OrderFields ==
    ASSUME NEW ord \in WebOrderRow
    PROVE  /\ ord.oms \in OmsStatuses /\ ord.status \in WebStatuses /\ ord.snap \in Nat
           /\ ord.payment \in Payments /\ ord.flags \in SUBSET WebFlags
           /\ ord.fresh \in BOOLEAN /\ ord.reviewed \in BOOLEAN
BY DEF WebOrderRow

\* What a commit makes of the shipment: goods leave only through the gate, as
\* the version the order has.
LEMMA CommitFacts ==
    ASSUME NEW ord \in WebOrderRow, NEW ship \in WebShipmentRow,
           Commits(ord, ship), shipment \in WebShipmentRow
    PROVE  /\ webOrder' = ord /\ shipment' \in WebShipmentRow
           /\ shipment'.built = ship.built /\ shipment'.live = ship.live
           /\ \/ shipment'.out = ship.out
              \/ /\ ship.out = 0 /\ Gate(ord)
                 /\ shipment'.out = IF ord.snap = 0 THEN 1 ELSE ord.snap
<1>1. PICK m : m = Marked(shipment, ship) OBVIOUS
<1>2. /\ m \in WebShipmentRow /\ m.built = ship.built /\ m.live = ship.live /\ m.out = ship.out
      /\ m.back = ship.back
  <2>1. PICK e \in BOOLEAN : m = [ship EXCEPT !.eligible = e] BY <1>1 DEF Marked
  <2> QED BY <2>1 DEF WebShipmentRow
<1>3. /\ webOrder' = ord /\ shipment' = Synced(ord, m)
      /\ m.eligible /\ ~Fell(ord, m) /\ m.out = 0 => Gate(ord)
  BY <1>1 DEF Commits
<1>4. CASE ~m.eligible BY <1>2, <1>3, <1>4 DEF Synced
<1>5. CASE m.eligible /\ Fell(ord, m)
  <2>1. PICK b \in BOOLEAN : shipment' = [m EXCEPT !.back = b] BY <1>3, <1>5 DEF Synced
  <2>2. shipment' \in WebShipmentRow /\ shipment'.built = m.built /\ shipment'.live = m.live
        /\ shipment'.out = m.out
    BY <1>2, <2>1 DEF WebShipmentRow
  <2> QED BY <1>2, <1>3, <2>2
<1>6. CASE m.eligible /\ ~Fell(ord, m) /\ m.out # 0 BY <1>2, <1>3, <1>6 DEF Synced
<1>7. CASE m.eligible /\ ~Fell(ord, m) /\ m.out = 0
  <2>1. PICK v : v = IF ord.snap = 0 THEN 1 ELSE ord.snap OBVIOUS
  <2>2. v \in Nat BY <2>1, OrderFields
  <2>3. shipment' = [m EXCEPT !.out = v] BY <1>3, <1>7, <2>1 DEF Synced
  <2>4. shipment' \in WebShipmentRow /\ shipment'.built = m.built /\ shipment'.live = m.live
        /\ shipment'.out = v
    BY <1>2, <2>2, <2>3 DEF WebShipmentRow
  <2> QED BY <1>2, <1>3, <1>7, <2>1, <2>4
<1> QED BY <1>4, <1>5, <1>6, <1>7

\* A commit that keeps what was built keeps it tied to its version, and what
\* leaves then is the version the order has.
LEMMA CommitKeeps ==
    ASSUME NEW ord \in WebOrderRow, NEW ship \in WebShipmentRow, Commits(ord, ship),
           shipment \in WebShipmentRow, BuiltOK(ord, ship), ship.live <= 1
    PROVE  /\ webOrder' = ord /\ shipment' \in WebShipmentRow /\ BuiltOK(webOrder, shipment)'
           /\ shipment'.live <= 1 /\ shipment'.built = ship.built
           /\ ship.built # 0 /\ ship.out = 0 /\ shipment'.out # 0 =>
                 Gate(ord) /\ ord.snap # 0 /\ shipment'.out = ord.snap
<1>1. /\ webOrder' = ord /\ shipment' \in WebShipmentRow
      /\ shipment'.built = ship.built /\ shipment'.live = ship.live
      /\ \/ shipment'.out = ship.out
         \/ /\ ship.out = 0 /\ Gate(ord)
            /\ shipment'.out = IF ord.snap = 0 THEN 1 ELSE ord.snap
  BY CommitFacts
<1>2. ship.built # 0 =>
        /\ ord.oms \in {"FULFILLMENT_PENDING", "FULFILLED"} /\ ord.snap # 0 /\ ord.status # "none"
        /\ ord.fresh => ord.snap = ship.built
        /\ ship.out # 0 => ship.out = ship.built
  BY DEF BuiltOK
<1>3. ship.built # 0 /\ Gate(ord) => ord.snap = ship.built
  BY <1>2, WebOrdersConstants DEF Gate
<1>4. ship.built # 0 /\ shipment'.out # 0 => shipment'.out = ship.built
  BY <1>1, <1>2, <1>3
<1>5. BuiltOK(webOrder, shipment)' BY <1>1, <1>2, <1>4 DEF BuiltOK
<1> QED BY <1>1, <1>2, <1>5 DEF BuiltOK

\* What an intake makes of the order: the newest of what was taken in.
LEMMA AfterFacts ==
    ASSUME WebSound, NEW v \in 1..Len(source)
    PROVE  \E ord \in WebOrderRow :
             /\ ord = After(v) /\ ord.snap \in 1..Len(source) /\ BuiltOK(ord, shipment)
             /\ Newest(ord, v)
             /\ \A u \in Versions : event[u] = "done" => Newest(ord, u)
<1>1. /\ webOrder \in WebOrderRow /\ webOrder.snap \in 0..Len(source)
      /\ Len(source) \in Nat /\ \A i \in 1..Len(source) : source[i] \in VersionRow
  BY DEF WebSound, WebTypes
<1>2. \A i \in 1..Len(source) : source[i].at \in Nat /\ source[i].payment \in Payments
                                /\ source[i].cancelled \in BOOLEAN
  BY <1>1 DEF VersionRow
<1>3. BuiltOK(webOrder, shipment) /\ \A u \in Versions : event[u] = "done" => Newest(webOrder, u)
  BY DEF WebSound, KnownOK
<1>4. PICK ord : ord = After(v) OBVIOUS
<1>5. CASE Older(v) \/ webOrder.snap = v
  <2>1. ord = webOrder BY <1>4, <1>5 DEF After
  <2>2. Newest(webOrder, v) /\ webOrder.snap \in 1..Len(source) BY <1>1, <1>5 DEF Older, Newest
  <2> QED BY <1>1, <1>3, <1>4, <2>1, <2>2
<1>6. CASE ~Older(v) /\ webOrder.snap # v /\ SameAt(v)
  <2>1. ord = Conflicting(v) /\ webOrder.snap \in 1..Len(source)
        /\ source[v].at = source[webOrder.snap].at
    BY <1>1, <1>4, <1>6 DEF After, SameAt
  <2>2. PICK oms : oms = IF Preserved(webOrder) THEN webOrder.oms ELSE "NEW" OBVIOUS
  <2>3. PICK rev : rev = (Preserved(webOrder) /\ webOrder.reviewed) OBVIOUS
  <2>9. oms \in OmsStatuses /\ rev \in BOOLEAN BY <1>1, <2>2, <2>3, OrderFields DEF OmsStatuses, Preserved
  <2>10. ord = [webOrder EXCEPT !.flags = {"conflict"}, !.fresh = FALSE, !.oms = oms, !.reviewed = rev]
    BY <1>1, <2>1, <2>2, <2>3 DEF Conflicting, WebOrderRow
  <2>4. /\ ord \in WebOrderRow /\ ord.snap = webOrder.snap /\ ord.flags = {"conflict"} /\ ord.fresh = FALSE
        /\ ord.oms = oms /\ ord.status = webOrder.status
    BY <1>1, <2>9, <2>10 DEF WebOrderRow, WebFlags
  <2>5. BuiltOK(ord, shipment) BY <1>3, <2>2, <2>4 DEF BuiltOK, Preserved
  <2>6. Newest(ord, v) BY <2>1, <2>4 DEF Newest
  <2>7. \A u : Newest(webOrder, u) => Newest(ord, u) BY <1>2, <2>1, <2>4 DEF Newest
  <2> QED BY <1>3, <1>4, <2>1, <2>4, <2>5, <2>6, <2>7
<1>7. CASE ~Older(v) /\ webOrder.snap # v /\ ~SameAt(v)
  <2>1. ord = Saved(v) BY <1>4, <1>7 DEF After
  <2>2. webOrder.snap # 0 => source[webOrder.snap].at < source[v].at
    BY <1>1, <1>2, <1>7 DEF Older, SameAt
  <2>3. PICK common : common = [webOrder EXCEPT !.snap = v, !.payment = source[v].payment,
                                                !.flags = Blocking(source[v]), !.fresh = FALSE]
    OBVIOUS
  <2>4. Blocking(source[v]) \in SUBSET WebFlags BY DEF Blocking, WebFlags
  <2>5. /\ common \in WebOrderRow /\ common.snap = v /\ common.fresh = FALSE
        /\ common.oms = webOrder.oms /\ common.status = webOrder.status
    <3>1. PICK bl \in SUBSET WebFlags, pay \in Payments :
             common = [webOrder EXCEPT !.snap = v, !.payment = pay, !.flags = bl, !.fresh = FALSE]
      BY <1>2, <2>3, <2>4
    <3>2. v \in Nat /\ bl \in SUBSET WebFlags /\ pay \in Payments /\ FALSE \in BOOLEAN BY <1>1
    <3>3. PICK row \in WebOrderRow : row = webOrder BY <1>1
    <3>4. common = [row EXCEPT !.snap = v, !.payment = pay, !.flags = bl, !.fresh = FALSE] BY <3>1, <3>3
    <3>5. common \in WebOrderRow /\ common.snap = v /\ common.fresh = FALSE
          /\ common.oms = row.oms /\ common.status = row.status
      BY ONLY <3>2, <3>4, row \in WebOrderRow DEF WebOrderRow
    <3> QED BY <3>3, <3>5
  <2>8. ASSUME NEW new, new.snap = v
        PROVE  Newest(new, v) /\ \A u \in Versions : event[u] = "done" => Newest(new, u)
    <3>1. Newest(new, v) BY <2>8 DEF Newest
    <3>2. ASSUME NEW u \in Versions, event[u] = "done" PROVE Newest(new, u)
      <4>1. Newest(webOrder, u) BY <1>3, <3>2
      <4>2. webOrder.snap \in 1..Len(source) /\ u \in 1..Len(source) BY <1>1, <4>1 DEF Newest
      <4>3. source[u].at \in Nat /\ source[webOrder.snap].at \in Nat /\ source[v].at \in Nat BY <1>2, <4>2
      <4>4. source[u].at < source[v].at BY <2>2, <4>1, <4>2, <4>3 DEF Newest
      <4> QED BY <2>8, <4>2, <4>4 DEF Newest
    <3> QED BY <3>1, <3>2
  <2>6. CASE webOrder.status # "none" /\ Preserved(webOrder)
    <3>1. ord = common BY <2>1, <2>3, <2>6 DEF Saved
    <3>2. BuiltOK(ord, shipment) BY <1>3, <2>5, <2>6, <3>1 DEF BuiltOK
    <3> QED BY <1>4, <2>5, <2>8, <3>1, <3>2
  <2>7. CASE ~(webOrder.status # "none" /\ Preserved(webOrder))
    <3>1. PICK st \in {"cancelled", "review"} :
             ord = [common EXCEPT !.oms = "NEW", !.status = st, !.reviewed = FALSE]
      BY <2>1, <2>3, <2>7 DEF Saved, Arrived
    <3>2. ord \in WebOrderRow /\ ord.snap = v /\ ord.fresh = FALSE
      BY <2>5, <3>1 DEF WebOrderRow, OmsStatuses, WebStatuses
    <3>3. shipment.built = 0 BY <1>3, <2>7 DEF BuiltOK, Preserved
    <3>4. BuiltOK(ord, shipment) BY <3>3 DEF BuiltOK
    <3> QED BY <1>4, <2>8, <3>2, <3>4
  <2> QED BY <2>6, <2>7
<1> QED BY <1>5, <1>6, <1>7

\* The two kinds of steps: one commits an order and a shipment, one does not.
WebQueue ==
    /\ event' \in [Versions -> {"none", "failed", "done"}] /\ fetched' \in 0..Len(source)
    /\ (\A row \in retry' : RetryRow(row)) /\ caller' \in [Callers -> CallerRow]
    /\ \A v \in Versions : event'[v] # "none" => v \in 1..Len(source)
Written(ord, ship) ==
    /\ Commits(ord, ship) /\ source' = source /\ WebQueue
    /\ BuiltOK(ord, ship) /\ ship.live <= 1 /\ ord.snap \in 0..Len(source)
    /\ \A u \in Versions : event[u] = "done" \/ event'[u] = "done" => Newest(ord, u)
    /\ shipment.built # 0 => ship.built = shipment.built /\ ship.out = shipment.out
Rested ==
    /\ UNCHANGED <<webOrder, shipment>> /\ WebQueue
    /\ source' = source \/ \E row \in VersionRow : source' = Append(source, row)
    /\ \A u \in Versions : event'[u] = "done" => event[u] = "done"

LEMMA SourceGrows ==
    ASSUME WebSound, source' = source \/ \E row \in VersionRow : source' = Append(source, row)
    PROVE  /\ source' \in Seq(VersionRow)
           /\ Len(source) \in Nat /\ Len(source') \in Nat /\ Len(source) <= Len(source')
           /\ \A i \in 1..Len(source) : source'[i] = source[i] /\ i \in 1..Len(source')
<1>1. source \in Seq(VersionRow) /\ Len(source) \in Nat BY DEF WebSound, WebTypes
<1>2. CASE source' = source BY <1>1, <1>2
<1>3. ASSUME NEW row \in VersionRow, source' = Append(source, row)
      PROVE  /\ source' \in Seq(VersionRow) /\ Len(source') = Len(source) + 1
             /\ \A i \in 1..Len(source) : source'[i] = source[i]
  BY <1>1, <1>3, AppendProperties
<1> QED BY <1>1, <1>2, <1>3

LEMMA NewestStays ==
    ASSUME WebSound, NEW ord, ord.snap \in 0..Len(source), NEW u, Newest(ord, u),
           source' = source \/ \E row \in VersionRow : source' = Append(source, row)
    PROVE  Newest(ord, u)'
BY SourceGrows DEF Newest

LEMMA WrittenSound ==
    ASSUME WebSound, NEW ord \in WebOrderRow, NEW ship \in WebShipmentRow, Written(ord, ship)
    PROVE  WebSound'
<1>1. shipment \in WebShipmentRow BY DEF WebSound, WebTypes
<1>2. /\ webOrder' = ord /\ shipment' \in WebShipmentRow
      /\ BuiltOK(webOrder, shipment)' /\ shipment'.live <= 1
  BY <1>1, CommitKeeps DEF Written
<1>3. WebTypes' BY <1>2 DEF Written, WebQueue, WebSound, WebTypes, RetryRow
<1>4. ASSUME NEW u \in Versions, event'[u] = "done" PROVE Newest(webOrder, u)'
  <2>1. Newest(ord, u) BY <1>4 DEF Written
  <2> QED BY <1>2, <2>1 DEF Written, Newest
<1> QED BY <1>2, <1>3, <1>4 DEF WebSound, KnownOK

LEMMA RestedSound ==
    ASSUME WebSound, Rested PROVE WebSound'
<1>1. /\ source' \in Seq(VersionRow)
      /\ Len(source) \in Nat /\ Len(source') \in Nat /\ Len(source) <= Len(source')
      /\ \A i \in 1..Len(source) : source'[i] = source[i] /\ i \in 1..Len(source')
  BY SourceGrows DEF Rested
<1>2. /\ webOrder' = webOrder /\ shipment' = shipment
      /\ webOrder \in WebOrderRow /\ shipment \in WebShipmentRow
      /\ webOrder.snap \in 0..Len(source)
  BY DEF Rested, WebSound, WebTypes
<1>3. WebTypes'
  <2>1. webOrder'.snap \in 0..Len(source') /\ fetched' \in 0..Len(source')
    BY <1>1, <1>2 DEF Rested, WebQueue
  <2>2. \A row \in retry' : RetryRow(row)'
    BY <1>1 DEF Rested, WebQueue, RetryRow
  <2> QED BY <1>1, <1>2, <2>1, <2>2 DEF Rested, WebQueue, WebTypes
<1>4. BuiltOK(webOrder, shipment)' /\ shipment'.live <= 1 BY <1>2 DEF WebSound, BuiltOK
<1>5. ASSUME NEW u \in Versions, event'[u] = "done" PROVE Newest(webOrder, u)'
  <2>1. Newest(webOrder, u) BY <1>5 DEF Rested, WebSound, KnownOK
  <2>2. PICK ord : ord = webOrder /\ ord = webOrder' BY <1>2
  <2>3. Newest(ord, u)' BY <1>2, <2>1, <2>2, NewestStays DEF Rested
  <2> QED BY <2>2, <2>3 DEF Newest
<1> QED BY <1>3, <1>4, <1>5 DEF WebSound, KnownOK

LEMMA WebKnows ==
    ASSUME WebSound
    PROVE  /\ webOrder \in WebOrderRow /\ shipment \in WebShipmentRow /\ BuiltOK(webOrder, shipment)
           /\ shipment.live <= 1 /\ webOrder.snap \in 0..Len(source)
           /\ \A u \in Versions : event[u] = "done" => Newest(webOrder, u)
           /\ UNCHANGED <<event, fetched, retry, caller>> => WebQueue
BY DEF WebSound, WebTypes, KnownOK, WebQueue

LEMMA TakeIn ==
    ASSUME WebSound, NEW v \in 1..Len(source), Commits(After(v), shipment), WebQueue, source' = source,
           \A u \in Versions : event'[u] = "done" => event[u] = "done" \/ u = v
    PROVE  \E ord \in WebOrderRow, ship \in WebShipmentRow : Written(ord, ship)
<1>1. PICK ord \in WebOrderRow :
         /\ ord = After(v) /\ ord.snap \in 1..Len(source) /\ BuiltOK(ord, shipment) /\ Newest(ord, v)
         /\ \A u \in Versions : event[u] = "done" => Newest(ord, u)
  BY AfterFacts
<1>2. shipment \in WebShipmentRow /\ shipment.live <= 1 BY WebKnows
<1>3. \A u \in Versions : event[u] = "done" \/ event'[u] = "done" => Newest(ord, u) BY <1>1
<1>4. Commits(ord, shipment) BY <1>1
<1>5. ord.snap \in 0..Len(source) BY <1>1 DEF WebSound, WebTypes
<1>6. Written(ord, shipment) BY <1>1, <1>2, <1>3, <1>4, <1>5 DEF Written
<1> QED BY <1>2, <1>6

LEMMA IntakeStep ==
    ASSUME WebSound, NEW v \in Versions, Deliver(v) \/ Recover(v)
    PROVE  \E ord \in WebOrderRow, ship \in WebShipmentRow : Written(ord, ship)
<1>1. v \in 1..Len(source)
  BY DEF Deliver, Recover, Recoverable, WebSound, WebTypes, Versions
<1>2. /\ Commits(After(v), shipment) /\ event' = [event EXCEPT ![v] = "done"]
      /\ UNCHANGED <<source, fetched, retry, caller>>
  BY DEF Deliver, Recover, Intake
<1>3. event \in [Versions -> {"none", "failed", "done"}] BY DEF WebSound, WebTypes
<1>4. WebQueue BY <1>1, <1>2, <1>3 DEF WebQueue, WebSound, WebTypes
<1>5. \A u \in Versions : event'[u] = "done" => event[u] = "done" \/ u = v BY <1>2, <1>3
<1> QED BY <1>1, <1>2, <1>4, <1>5, TakeIn

LEMMA ReconcileStep ==
    ASSUME WebSound, Reconcile \/ \E row \in retry : RecoverReconcile(row)
    PROVE  Rested \/ \E ord \in WebOrderRow, ship \in WebShipmentRow : Written(ord, ship)
<1>1. CASE Reconcile /\ NotEnrolledYet
  <2>1. WebQueue BY <1>1 DEF Reconcile, WebQueue, WebSound, WebTypes
  <2> QED BY <1>1, <2>1 DEF Reconcile, Rested
<1>2. CASE Reconcile /\ ~NotEnrolledYet
  <2>1. WebQueue BY <1>2 DEF Reconcile, WebQueue, WebSound, WebTypes
  <2>2. fetched \in 1..Len(source) /\ Commits(After(fetched), shipment) /\ UNCHANGED <<source, event>>
    BY <1>2 DEF Reconcile, WebSound, WebTypes
  <2> QED BY <2>1, <2>2, TakeIn
<1>3. ASSUME NEW row \in retry, RecoverReconcile(row)
      PROVE  \E ord \in WebOrderRow, ship \in WebShipmentRow : Written(ord, ship)
  <2>1. PICK v \in 1..Len(source) : v = row.version
    BY DEF WebSound, WebTypes, RetryRow
  <2>2. Commits(After(v), shipment) /\ UNCHANGED <<source, event>>
    BY <1>3, <2>1 DEF RecoverReconcile
  <2>3. WebQueue BY <1>3 DEF RecoverReconcile, WebQueue, WebSound, WebTypes
  <2> QED BY <2>2, <2>3, TakeIn
<1> QED BY <1>1, <1>2, <1>3

LEMMA QueueStep ==
    ASSUME WebSound, \/ \E v \in Versions : IntakeFails(v)
                     \/ \E row \in retry : RecoverReconcileFails(row)
                     \/ Fetch \/ ReconcileFails \/ OpenPage
                     \/ \E p \in Payments, at \in 1..MaxTime, b \in BOOLEAN : Change(p, at, b)
    PROVE  Rested
<1>1. ASSUME NEW v \in Versions, IntakeFails(v) PROVE Rested
  <2>1. event \in [Versions -> {"none", "failed", "done"}] /\ v \in 1..Len(source)
    BY <1>1 DEF IntakeFails, WebSound, WebTypes, Versions
  <2>2. /\ event' = [event EXCEPT ![v] = "failed"]
        /\ UNCHANGED <<source, fetched, retry, webOrder, shipment, caller>>
    BY <1>1 DEF IntakeFails
  <2>3. WebQueue BY <2>1, <2>2 DEF WebQueue, WebSound, WebTypes
  <2>4. \A u \in Versions : event'[u] = "done" => event[u] = "done" BY <2>1, <2>2
  <2> QED BY <2>2, <2>3, <2>4 DEF Rested
<1>2. CASE Fetch
  <2>1. WebQueue BY <1>2 DEF Fetch, WebQueue, WebSound, WebTypes
  <2> QED BY <1>2, <2>1 DEF Fetch, Rested
<1>3. CASE ReconcileFails
  <2>1. PICK new : /\ new = [run |-> fails', version |-> fetched, attempts |-> 1]
                   /\ retry' = retry \cup {new}
    BY <1>3 DEF ReconcileFails
  <2>2. RetryRow(new) BY <1>3, <2>1 DEF ReconcileFails, WebSound, WebTypes, RetryRow
  <2>3. \A row \in retry' : RetryRow(row) BY <2>1, <2>2 DEF WebSound, WebTypes
  <2>4. WebQueue BY <1>3, <2>3 DEF ReconcileFails, WebQueue, WebSound, WebTypes
  <2> QED BY <1>3, <2>4 DEF ReconcileFails, Rested
<1>4. CASE OpenPage BY <1>4, WebKnows DEF OpenPage, Rested
<1>5. ASSUME NEW p \in Payments, NEW at \in 1..MaxTime, NEW b \in BOOLEAN, Change(p, at, b) PROVE Rested
  <2>1. PICK row : row = [at |-> at, payment |-> p, cancelled |-> b] OBVIOUS
  <2>2. row \in VersionRow BY <2>1 DEF VersionRow
  <2>3. source' = Append(source, row) /\ UNCHANGED <<event, fetched, retry, webOrder, shipment, caller>>
    BY <1>5, <2>1 DEF Change
  <2>4. WebQueue BY <2>3, WebKnows
  <2> QED BY <2>2, <2>3, <2>4 DEF Rested
<1>6. ASSUME NEW old \in retry, RecoverReconcileFails(old) PROVE Rested
  <2>1. PICK new : /\ new = [old EXCEPT !.attempts = old.attempts + 1]
                   /\ retry' = (retry \ {old}) \cup {new}
    BY <1>6 DEF RecoverReconcileFails
  <2>2. RetryRow(new) BY <2>1 DEF WebSound, WebTypes, RetryRow
  <2>3. \A row \in retry' : RetryRow(row) BY <2>1, <2>2 DEF WebSound, WebTypes
  <2>4. UNCHANGED <<source, event, fetched, webOrder, shipment, caller>>
    BY <1>6 DEF RecoverReconcileFails
  <2>5. WebQueue BY <2>3, <2>4 DEF WebQueue, WebSound, WebTypes
  <2> QED BY <2>4, <2>5 DEF Rested
<1> QED BY <1>1, <1>2, <1>3, <1>4, <1>5, <1>6

\* A handler of HQ that writes the order it has, and the shipment.
LEMMA HouseWrites ==
    ASSUME WebSound, NEW ord \in WebOrderRow, NEW ship \in WebShipmentRow, Commits(ord, ship), WebQueue,
           UNCHANGED <<source, event>>, ord.snap = webOrder.snap,
           "conflict" \in webOrder.flags => "conflict" \in ord.flags,
           BuiltOK(ord, ship), ship.live <= 1,
           shipment.built # 0 => ship.built = shipment.built /\ ship.out = shipment.out
    PROVE  Written(ord, ship)
<1>1. \A u \in Versions : event[u] = "done" => Newest(webOrder, u) BY WebKnows
<1>2. \A u : Newest(webOrder, u) => Newest(ord, u) BY DEF Newest
<1> QED BY <1>1, <1>2, WebKnows DEF Written

LEMMA ReviewStepWrites ==
    ASSUME WebSound, Check \/ ApproveUnpaid \/ Approve
    PROVE  \E ord \in WebOrderRow, ship \in WebShipmentRow : Written(ord, ship)
<1>1. /\ webOrder \in WebOrderRow /\ shipment \in WebShipmentRow /\ BuiltOK(webOrder, shipment)
      /\ shipment.live <= 1
  BY WebKnows
<1>2. /\ InReview /\ UNCHANGED <<source, event, fetched, retry, caller>>
  BY DEF Check, ApproveUnpaid, Approve, ReviewStep
<1>3. WebQueue BY <1>2, WebKnows
<1>4. "conflict" \notin webOrder.flags /\ webOrder.snap # 0 /\ shipment.built = 0
  BY <1>1, <1>2 DEF InReview, HashOfPage, BuiltOK
<1>5. Issues \in SUBSET WebFlags BY DEF Issues, Blocking, WebFlags
<1>6. BuiltOK(webOrder, shipment) /\ \A ord : BuiltOK(ord, shipment) BY <1>4 DEF BuiltOK
<1>7. CASE Check \/ ApproveUnpaid
  <2>1. PICK ord : /\ Commits(ord, shipment)
                   /\ \/ ord = [webOrder EXCEPT !.oms = "REVIEW", !.flags = Issues, !.fresh = TRUE,
                                                !.reviewed = FALSE]
                      \/ ord = [webOrder EXCEPT !.oms = "READY", !.reviewed = TRUE, !.flags = Issues]
    BY <1>7 DEF Check, ApproveUnpaid, ReviewStep
  <2>2. ord \in WebOrderRow /\ ord.snap = webOrder.snap
    BY <1>1, <1>5, <2>1 DEF WebOrderRow, OmsStatuses
  <2>3. Written(ord, shipment) BY <1>1, <1>2, <1>3, <1>4, <1>6, <2>1, <2>2, HouseWrites
  <2> QED BY <1>1, <2>2, <2>3
<1>8. CASE Approve
  <2>1. PICK ord : ord = Confirmed OBVIOUS
  <2>2. PICK ship : ship = NewShipment OBVIOUS
  <2>3. /\ ord \in WebOrderRow /\ ord.snap = webOrder.snap /\ ord.oms = "FULFILLMENT_PENDING"
        /\ ord.status = "confirmed" /\ ord.flags = webOrder.flags
    BY <1>1, <2>1 DEF Confirmed, WebOrderRow, OmsStatuses, WebStatuses
  <2>4. ~Live BY <1>2 DEF InReview
  <2>5. /\ ship \in WebShipmentRow /\ ship.built = webOrder.snap /\ ship.out = 0 /\ ship.live = 1
    <3>1. webOrder.snap \in Nat BY <1>1, OrderFields
    <3>2. ship = [NoShipment EXCEPT !.status = "pending", !.built = webOrder.snap, !.live = 1]
      BY <2>2, <2>4 DEF NewShipment
    <3> QED BY <3>1, <3>2 DEF NoShipment, WebShipmentRow
  <2>6. Commits(ord, ship) BY <1>8, <2>1, <2>2 DEF Approve, ReviewStep
  <2>7. BuiltOK(ord, ship) BY <1>4, <2>3, <2>5 DEF BuiltOK
  <2>8. Written(ord, ship) BY <1>2, <1>3, <1>4, <2>3, <2>5, <2>6, <2>7, HouseWrites
  <2> QED BY <2>3, <2>5, <2>8
<1> QED BY <1>7, <1>8

LEMMA CallerFields ==
    ASSUME NEW r \in CallerRow
    PROVE  /\ r.op = "mark" => r.to \in Sent \cup {"cancelled"} /\ r.legacy \in BOOLEAN
           /\ r.op = "carrier" => r.event \in Carrier /\ r.apply \in BOOLEAN /\ r.write \in BOOLEAN
           /\ r.op = "cancel" => r.all \in BOOLEAN
BY DEF CallerRow

\* What a caller does next, with the queues as they are.
LEMMA CallerMoves ==
    ASSUME WebSound, NEW c \in Callers, NEW row \in CallerRow, caller' = [caller EXCEPT ![c] = row],
           UNCHANGED <<source, event, fetched, retry>>
    PROVE  /\ WebQueue
           /\ UNCHANGED <<webOrder, shipment>> => Rested
<1>1. caller' \in [Callers -> CallerRow] BY DEF WebSound, WebTypes
<1>2. WebQueue BY <1>1 DEF WebQueue, WebSound, WebTypes
<1> QED BY <1>2 DEF Rested

LEMMA IdleRow == NoCall \in CallerRow BY DEF NoCall, CallerRow

LEMMA CallerReads ==
    ASSUME WebSound, NEW c \in Callers,
           \/ LegacyRead(c) \/ CancelRead(c) \/ GiveUp(c)
           \/ \E to \in Sent \cup {"cancelled"} : MarkRead(c, to)
           \/ \E e \in Carrier : CarrierRead(c, e)
    PROVE  Rested
<1>1. CASE LegacyRead(c)
  <2>1. [op |-> "legacy"] \in CallerRow BY DEF CallerRow
  <2> QED BY <1>1, <2>1, CallerMoves DEF LegacyRead
<1>2. CASE CancelRead(c)
  <2>1. PICK row : row = [op |-> "cancel", all |-> shipment.eligible] OBVIOUS
  <2>2. shipment.eligible \in BOOLEAN BY WebKnows DEF WebShipmentRow
  <2>3. row \in CallerRow BY <2>1, <2>2 DEF CallerRow
  <2> QED BY <1>2, <2>1, <2>3, CallerMoves DEF CancelRead
<1>3. CASE GiveUp(c) BY <1>3, IdleRow, CallerMoves DEF GiveUp
<1>4. ASSUME NEW to \in Sent \cup {"cancelled"}, MarkRead(c, to) PROVE Rested
  <2>1. PICK row : row = [op |-> "mark", to |-> to, legacy |-> webOrder.oms = Unenrolled] OBVIOUS
  <2>2. row \in CallerRow BY <2>1 DEF CallerRow
  <2> QED BY <1>4, <2>1, <2>2, CallerMoves DEF MarkRead
<1>5. ASSUME NEW e \in Carrier, CarrierRead(c, e) PROVE Rested
  <2>1. PICK apply : apply = (/\ \A a \in Accepted : a.event.sent < e.sent
                              /\ Live /\ Rank(e.status) >= Rank(shipment.status))
    OBVIOUS
  <2>2. PICK write : write = (Rank(e.status) > Rank(shipment.status)) OBVIOUS
  <2>6. apply \in BOOLEAN BY <2>1, Zenon
  <2>7. write \in BOOLEAN BY <2>2
  <2>3. PICK row : row = [op |-> "carrier", event |-> e, apply |-> apply, write |-> write] OBVIOUS
  <2>4. row \in CallerRow BY <2>3, <2>6, <2>7 DEF CallerRow
  <2>5. caller' = [caller EXCEPT ![c] = row] BY <1>5, <2>1, <2>2, <2>3 DEF CarrierRead
  <2> QED BY <1>5, <2>4, <2>5, CallerMoves DEF CarrierRead
<1> QED BY <1>1, <1>2, <1>3, <1>4, <1>5

LEMMA CallerWrites ==
    ASSUME WebSound, NEW c \in Callers, LegacyApprove(c) \/ MarkWrite(c) \/ CarrierWrite(c) \/ CancelWrite(c)
    PROVE  Rested \/ \E ord \in WebOrderRow, ship \in WebShipmentRow : Written(ord, ship)
<1>1. /\ webOrder \in WebOrderRow /\ shipment \in WebShipmentRow /\ BuiltOK(webOrder, shipment)
      /\ shipment.live <= 1
  BY WebKnows
<1>2. caller' = [caller EXCEPT ![c] = NoCall] /\ UNCHANGED <<source, event, fetched, retry>>
  BY DEF LegacyApprove, MarkWrite, CarrierWrite, CancelWrite
<1>3. WebQueue /\ (UNCHANGED <<webOrder, shipment>> => Rested) BY <1>2, IdleRow, CallerMoves
<1>4. PICK r \in CallerRow : r = caller[c] BY DEF WebSound, WebTypes
<1>5. ASSUME NEW st \in {"pending", "shipped", "delivered", "cancelled"}, NEW ship,
             ship = [shipment EXCEPT !.status = st]
      PROVE  /\ ship \in WebShipmentRow /\ ship.built = shipment.built /\ ship.out = shipment.out
             /\ ship.live = shipment.live
  BY <1>1, <1>5 DEF WebShipmentRow
<1>6. ASSUME NEW ord, NEW st \in {"confirmed", "shipped", "delivered", "cancelled"}, NEW oms \in OmsStatuses,
             ord = [webOrder EXCEPT !.status = st, !.oms = oms],
             webOrder.oms \in {"FULFILLMENT_PENDING", "FULFILLED"} => oms \in {"FULFILLMENT_PENDING", "FULFILLED"}
      PROVE  /\ ord \in WebOrderRow /\ ord.snap = webOrder.snap /\ ord.flags = webOrder.flags
             /\ \A ship : ship.built = shipment.built /\ ship.out = shipment.out => BuiltOK(ord, ship)
  <2>1. /\ ord \in WebOrderRow /\ ord.snap = webOrder.snap /\ ord.flags = webOrder.flags
        /\ ord.fresh = webOrder.fresh /\ ord.oms = oms /\ ord.status = st
    BY <1>1, <1>6 DEF WebOrderRow, WebStatuses
  <2> QED BY <1>1, <1>6, <2>1 DEF BuiltOK
<1>7. webOrder.oms \in OmsStatuses BY <1>1, OrderFields
<1>8. CASE LegacyApprove(c)
  <2>1. PICK ord : ord = [webOrder EXCEPT !.status = "confirmed"] OBVIOUS
  <2>2. PICK ship : ship = [NoShipment EXCEPT !.status = "pending", !.live = 1] OBVIOUS
  <2>3. webOrder.oms = Unenrolled /\ Commits(ord, ship)
    BY <1>8, <2>1, <2>2 DEF LegacyApprove, NotEnrolled
  <2>4. shipment.built = 0 BY <1>1, <2>3, WebOrdersConstants DEF BuiltOK
  <2>5. ord \in WebOrderRow /\ ord.snap = webOrder.snap /\ ord.flags = webOrder.flags
    BY <1>1, <2>1 DEF WebOrderRow, WebStatuses
  <2>6. ship \in WebShipmentRow /\ ship.built = 0 /\ ship.live = 1
    BY <2>2 DEF NoShipment, WebShipmentRow
  <2>7. BuiltOK(ord, ship) BY <2>6 DEF BuiltOK
  <2>8. Written(ord, ship) BY <1>2, <1>3, <2>3, <2>4, <2>5, <2>6, <2>7, HouseWrites
  <2> QED BY <2>5, <2>6, <2>8
<1>9. CASE MarkWrite(c)
  <2>1. r.op = "mark" /\ r.to \in {"shipped", "delivered", "cancelled"}
    BY <1>4, <1>9, CallerFields DEF MarkWrite, Sent
  <2>2. PICK oms : oms = IF r.to \in Sent /\ ~r.legacy THEN "FULFILLED" ELSE webOrder.oms OBVIOUS
  <2>3. PICK ord : ord = [webOrder EXCEPT !.status = r.to, !.oms = oms] OBVIOUS
  <2>4. PICK ship : ship = [shipment EXCEPT !.status = r.to] OBVIOUS
  <2>5. Commits(ord, ship) BY <1>1, <1>4, <1>9, <2>2, <2>3, <2>4 DEF MarkWrite, WebOrderRow
  <2>6. oms \in OmsStatuses
        /\ (webOrder.oms \in {"FULFILLMENT_PENDING", "FULFILLED"} => oms \in {"FULFILLMENT_PENDING", "FULFILLED"})
    BY <1>7, <2>2 DEF OmsStatuses
  <2>7. /\ ord \in WebOrderRow /\ ord.snap = webOrder.snap /\ ord.flags = webOrder.flags
        /\ \A s : s.built = shipment.built /\ s.out = shipment.out => BuiltOK(ord, s)
    BY <1>6, <2>1, <2>3, <2>6
  <2>8. /\ ship \in WebShipmentRow /\ ship.built = shipment.built /\ ship.out = shipment.out
        /\ ship.live = shipment.live
    BY <1>5, <2>1, <2>4
  <2>9. Written(ord, ship) BY <1>1, <1>2, <1>3, <2>5, <2>7, <2>8, HouseWrites
  <2> QED BY <2>7, <2>8, <2>9
<1>10. CASE CarrierWrite(c)
  <2>1. CASE r.apply /\ r.write
    <3>1. r.event.status \in {"shipped", "delivered"}
      BY <1>4, <1>10, CallerFields, WebOrdersConstants DEF CarrierWrite
    <3>2. PICK ship : ship = [shipment EXCEPT !.status = r.event.status] OBVIOUS
    <3>3. Commits(webOrder, ship) BY <1>4, <1>10, <2>1, <3>2 DEF CarrierWrite
    <3>4. /\ ship \in WebShipmentRow /\ ship.built = shipment.built /\ ship.out = shipment.out
          /\ ship.live = shipment.live
      BY <1>5, <3>1, <3>2
    <3>5. BuiltOK(webOrder, ship) BY <1>1, <3>4 DEF BuiltOK
    <3>6. Written(webOrder, ship) BY <1>1, <1>2, <1>3, <3>3, <3>4, <3>5, HouseWrites
    <3> QED BY <1>1, <3>4, <3>6
  <2>2. CASE ~(r.apply /\ r.write) BY <1>3, <1>4, <1>10, <2>2 DEF CarrierWrite
  <2> QED BY <2>1, <2>2
<1>11. CASE CancelWrite(c)
  <2>1. PICK ord : ord = IF r.all THEN [webOrder EXCEPT !.status = "cancelled"] ELSE webOrder OBVIOUS
  <2>2. PICK ship : ship = [shipment EXCEPT !.status = "cancelled"] OBVIOUS
  <2>3. Commits(ord, ship) BY <1>4, <1>11, <2>1, <2>2 DEF CancelWrite
  <2>4. /\ ord \in WebOrderRow /\ ord.snap = webOrder.snap /\ ord.flags = webOrder.flags
        /\ ord.oms = webOrder.oms /\ ord.fresh = webOrder.fresh
        /\ ord.status = webOrder.status \/ ord.status = "cancelled"
    BY <1>1, <2>1 DEF WebOrderRow, WebStatuses
  <2>5. /\ ship \in WebShipmentRow /\ ship.built = shipment.built /\ ship.out = shipment.out
        /\ ship.live = shipment.live
    BY <1>5, <2>2
  <2>6. BuiltOK(ord, ship) BY <1>1, <2>4, <2>5 DEF BuiltOK
  <2>7. Written(ord, ship) BY <1>1, <1>2, <1>3, <2>3, <2>4, <2>5, <2>6, HouseWrites
  <2> QED BY <2>4, <2>5, <2>7
<1> QED BY <1>8, <1>9, <1>10, <1>11

LEMMA WebStarts == ASSUME WebInit PROVE WebSound
<1>1. PICK p \in {"unpaid", "paid"} : source = <<[at |-> 1, payment |-> p, cancelled |-> FALSE]>>
  BY DEF WebInit
<1>2. source \in Seq(VersionRow) /\ Len(source) = 1
  <2>1. [at |-> 1, payment |-> p, cancelled |-> FALSE] \in VersionRow BY DEF VersionRow, Payments
  <2> QED BY <1>1, <2>1
<1>3. NoOrder \in WebOrderRow /\ NoOrder.snap = 0
  BY DEF NoOrder, WebOrderRow, OmsStatuses, WebStatuses, Payments
<1>4. OldOrder \in WebOrderRow /\ OldOrder.snap = 0
  BY <1>3 DEF OldOrder, WebOrderRow, WebStatuses, Payments
<1>5. webOrder \in WebOrderRow /\ webOrder.snap = 0 BY <1>3, <1>4 DEF WebInit
<1>6. shipment \in WebShipmentRow /\ shipment.built = 0 /\ shipment.live = 0
  BY DEF WebInit, NoShipment, WebShipmentRow
<1>7. caller \in [Callers -> CallerRow] BY IdleRow DEF WebInit
<1>8. event \in [Versions -> {"none", "failed", "done"}] /\ \A v \in Versions : event[v] = "none"
  BY DEF WebInit
<1>9. WebTypes BY <1>2, <1>5, <1>6, <1>7, <1>8 DEF WebInit, WebTypes
<1> QED BY <1>6, <1>8, <1>9 DEF WebSound, BuiltOK, KnownOK

LEMMA WebShapes ==
    ASSUME WebSound, [WebNext]_webVars
    PROVE  Rested \/ \E ord \in WebOrderRow, ship \in WebShipmentRow : Written(ord, ship)
<1>1. CASE UNCHANGED webVars BY <1>1, WebKnows DEF webVars, Rested
<1>2. CASE \/ \E p \in Payments, at \in 1..MaxTime, b \in BOOLEAN : Change(p, at, b)
           \/ \E v \in Versions : IntakeFails(v)
           \/ \E row \in retry : RecoverReconcileFails(row)
           \/ Fetch \/ ReconcileFails \/ OpenPage
  BY <1>2, QueueStep
<1>3. CASE \E v \in Versions : Deliver(v) \/ Recover(v) BY <1>3, IntakeStep
<1>4. CASE Reconcile \/ \E row \in retry : RecoverReconcile(row) BY <1>4, ReconcileStep
<1>5. CASE Check \/ ApproveUnpaid \/ Approve BY <1>5, ReviewStepWrites
<1>6. ASSUME NEW c \in Callers, LegacyApprove(c) \/ MarkWrite(c) \/ CarrierWrite(c) \/ CancelWrite(c)
      PROVE  Rested \/ \E ord \in WebOrderRow, ship \in WebShipmentRow : Written(ord, ship)
  BY <1>6, CallerWrites
<1>7. ASSUME NEW c \in Callers,
             \/ LegacyRead(c) \/ CancelRead(c) \/ GiveUp(c)
             \/ \E to \in Sent \cup {"cancelled"} : MarkRead(c, to)
             \/ \E e \in Carrier : CarrierRead(c, e)
      PROVE  Rested
  BY <1>7, CallerReads
<1> QED BY <1>1, <1>2, <1>3, <1>4, <1>5, <1>6, <1>7 DEF WebNext

LEMMA WebStaysSound == WebSpec => []WebSound
<1>1. WebInit => WebSound BY WebStarts
<1>2. WebSound /\ [WebNext]_webVars => WebSound' BY WebShapes, WrittenSound, RestedSound
<1> QED BY <1>1, <1>2, PTL DEF WebSpec

\* Whatever webhooks come late, twice, out of order or after a failure, and
\* whatever clerks and the carrier do meanwhile: what leaves the house is the
\* version the reviewer approved, and there is one live shipment at most
\* (review-service.ts:108).
THEOREM AlwaysShippedAsReviewed == WebSpec => []ShippedAsReviewed
<1>1. WebSound => ShippedAsReviewed
  BY DEF WebSound, BuiltOK, ShippedAsReviewed, OneLiveShipment
<1> QED BY <1>1, WebStaysSound, PTL

\* At the moment goods are booked out for an order no version is known that is
\* newer, or as new with other contents (intake.ts:107).
THEOREM AlwaysShippedNewest == WebSpec => ShippedIsNewest
<1>1. ASSUME WebSound, [WebNext]_webVars, shipment.built # 0, shipment.out = 0, shipment'.out # 0,
             NEW v \in Versions, event[v] = "done", v # shipment'.out
      PROVE  source[v].at < source[shipment'.out].at
  <2>1. ~Rested BY <1>1 DEF Rested
  <2>2. PICK ord \in WebOrderRow, ship \in WebShipmentRow : Written(ord, ship) BY <1>1, <2>1, WebShapes
  <2>3. Gate(ord) /\ ord.snap # 0 /\ shipment'.out = ord.snap /\ BuiltOK(ord, ship) /\ ship.built # 0
    BY <1>1, <2>2, WebKnows, CommitKeeps DEF Written
  <2>4. ord.flags = {} BY <2>3, WebOrdersConstants DEF Gate, BuiltOK
  <2>5. Newest(ord, v) BY <1>1, <2>2 DEF Written
  <2> QED BY <1>1, <2>3, <2>4, <2>5 DEF Newest
<1>2. WebSound /\ [WebNext]_webVars =>
         [shipment.built # 0 /\ shipment.out = 0 /\ shipment'.out # 0 =>
            \A v \in Versions : event[v] = "done" /\ v # shipment'.out =>
                source[v].at < source[shipment'.out].at]_webVars
  BY <1>1
<1> QED BY <1>2, WebStaysSound, PTL DEF WebSpec, ShippedIsNewest

LEMMA IntakeKeepsStatus ==
    ASSUME WebSound, NEW v
    PROVE  After(v).status \in {webOrder.status, "cancelled", "review"}
<1>1. webOrder \in WebOrderRow BY WebKnows
<1>2. Conflicting(v).status = webOrder.status BY <1>1 DEF Conflicting, WebOrderRow
<1>3. Saved(v).status \in {webOrder.status, "cancelled", "review"}
  <2>1. PICK common : common = [webOrder EXCEPT !.snap = v, !.payment = source[v].payment,
                                                !.flags = Blocking(source[v]), !.fresh = FALSE]
    OBVIOUS
  <2>2. common.status = webOrder.status /\ DOMAIN common = DOMAIN webOrder BY <2>1
  <2>3. "status" \in DOMAIN common BY <1>1, <2>2 DEF WebOrderRow
  <2>4. CASE webOrder.status # "none" /\ Preserved(webOrder) BY <2>1, <2>2, <2>4 DEF Saved
  <2>5. CASE ~(webOrder.status # "none" /\ Preserved(webOrder))
    <3>1. PICK st \in {"cancelled", "review"} :
             Saved(v) = [common EXCEPT !.oms = "NEW", !.status = st, !.reviewed = FALSE]
      BY <2>1, <2>5 DEF Saved, Arrived
    <3> QED BY <2>3, <3>1
  <2> QED BY <2>4, <2>5
<1> QED BY <1>2, <1>3 DEF After

\* An order that is in the review leaves it only by an approval of the version
\* it has, which also a clerk who opened it on the old pages before it was
\* enrolled cannot go round (legacy-gate.ts:11).
THEOREM EnrolledLeavesByReview == WebSpec => EnrolledOnlyByReview
<1>1. ASSUME WebSound, [WebNext]_webVars, webOrder.oms \in {"NEW", "REVIEW", "READY"},
             webOrder'.status \in {"confirmed"} \cup Sent
      PROVE  \/ webOrder.status = webOrder'.status
             \/ webOrder'.reviewed /\ checked = webOrder.snap
  <2>1. webOrder \in WebOrderRow /\ webOrder.oms # Unenrolled BY <1>1, WebKnows, WebOrdersConstants
  <2>2. ASSUME NEW v, Commits(After(v), shipment) PROVE webOrder.status = webOrder'.status
    BY <1>1, <2>2, IntakeKeepsStatus DEF Commits, Sent
  <2>3. CASE UNCHANGED webOrder BY <2>3
  <2>4. CASE \/ \E p \in Payments, at \in 1..MaxTime, b \in BOOLEAN : Change(p, at, b)
             \/ \E v \in Versions : IntakeFails(v)
             \/ \E row \in retry : RecoverReconcileFails(row)
             \/ Fetch \/ ReconcileFails \/ OpenPage
    BY <2>3, <2>4 DEF Change, IntakeFails, RecoverReconcileFails, Fetch, ReconcileFails, OpenPage
  <2>5. CASE \E v \in Versions : Deliver(v) \/ Recover(v) BY <2>2, <2>5 DEF Deliver, Recover, Intake
  <2>6. CASE Reconcile \/ \E row \in retry : RecoverReconcile(row)
    BY <2>2, <2>3, <2>6 DEF Reconcile, RecoverReconcile
  <2>7. CASE Check \/ ApproveUnpaid
    <3>1. webOrder'.status = webOrder.status
      BY <2>1, <2>7 DEF Check, ApproveUnpaid, ReviewStep, Commits, WebOrderRow
    <3> QED BY <3>1
  <2>8. CASE Approve
    <3>1. webOrder' = Confirmed /\ checked = webOrder.snap BY <2>8 DEF Approve, ReviewStep, Commits
    <3>2. webOrder'.reviewed BY <2>1, <3>1 DEF Confirmed, WebOrderRow
    <3> QED BY <3>1, <3>2
  <2>9. ASSUME NEW c \in Callers, LegacyApprove(c) \/ MarkWrite(c) \/ CarrierWrite(c) \/ CancelWrite(c)
        PROVE  webOrder.status = webOrder'.status
    <3>1. ~LegacyApprove(c) /\ ~MarkWrite(c)
      BY <1>1, <2>1 DEF LegacyApprove, MarkWrite, NotEnrolled, Actionable
    <3>2. CASE CarrierWrite(c) BY <3>2 DEF CarrierWrite, Commits
    <3>3. CASE CancelWrite(c)
      <4>1. webOrder' = IF caller[c].all THEN [webOrder EXCEPT !.status = "cancelled"] ELSE webOrder
        BY <3>3 DEF CancelWrite, Commits
      <4> QED BY <1>1, <2>1, <4>1 DEF Sent, WebOrderRow
    <3> QED BY <2>9, <3>1, <3>2, <3>3
  <2>10. ASSUME NEW c \in Callers,
                \/ LegacyRead(c) \/ CancelRead(c) \/ GiveUp(c)
                \/ \E to \in Sent \cup {"cancelled"} : MarkRead(c, to)
                \/ \E e \in Carrier : CarrierRead(c, e)
         PROVE  UNCHANGED webOrder
    BY <2>10 DEF LegacyRead, CancelRead, GiveUp, MarkRead, CarrierRead
  <2> QED BY <1>1, <2>3, <2>4, <2>5, <2>6, <2>7, <2>8, <2>9, <2>10 DEF WebNext, webVars
<1>2. WebSound /\ [WebNext]_webVars =>
         [webOrder.oms \in {"NEW", "REVIEW", "READY"} /\ webOrder'.status \in {"confirmed"} \cup Sent
          => \/ webOrder.status = webOrder'.status
             \/ webOrder'.reviewed /\ checked = webOrder.snap]_webVars
  BY <1>1
<1> QED BY <1>2, WebStaysSound, PTL DEF WebSpec, EnrolledOnlyByReview
=============================================================================
