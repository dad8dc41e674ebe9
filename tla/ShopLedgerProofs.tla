-------------------------- MODULE ShopLedgerProofs --------------------------
(***************************************************************************)
(* Theorems about the settlements of a shop, its refunds and what vendors  *)
(* are owed, for every number of movements, settlements, coupons, orders,  *)
(* vendors and requests in flight.                                         *)
(***************************************************************************)
EXTENDS ShopLedger, RefundContract, VendorSettlements, SumTheorems, SequenceTheorems

-----------------------------------------------------------------------------
(* What the settlements may count on.                                      *)

Columns == {"kind", "tier", "qty", "lock", "from", "bill"}
RowFields == {"status", "pos", "number", "key", "lines"}
SaleSources == {Sale(i) : i \in DOMAIN txns}
Sources == SaleSources \cup {<<"coupon", c>> : c \in Coupons}
PageStages == {"page", "sales", "items", "count", "persist", "attempt", "commit"}

MovementsOK ==
    /\ \E S : txns \in Seq(S)
    /\ \A i \in DOMAIN txns : DOMAIN txns[i] = Columns

\* A row bills what exists; one of the back office bills sales only.
RowsOK ==
    /\ DOMAIN settlements = Settlements
    /\ \A s \in Settlements :
          /\ DOMAIN settlements[s] = RowFields
          /\ settlements[s].status \in Statuses
          /\ settlements[s].lines \subseteq Sources
          /\ ~settlements[s].pos => settlements[s].lines \subseteq SaleSources

\* What a request has read stays true in these points, whatever ran since:
\* sources do not disappear, a row stays of its kind, and a row that was to be
\* deleted is none of a store.
RequestOK(r) ==
    /\ req[r].stage \in PageStages => req[r].sources \subseteq Sources
    /\ req[r].stage = "legacy" => req[r].sales \subseteq DOMAIN txns
    /\ req[r].stage = "status" =>
          /\ req[r].row \in Settlements /\ req[r].next \in Flow
          /\ settlements[req[r].row].status # "none"
          /\ settlements[req[r].row].pos => NextStatus(req[r].was, req[r].next)
    /\ req[r].stage = "delete" =>
          /\ req[r].row \in Settlements
          /\ settlements[req[r].row].status # "none"
          /\ ~settlements[req[r].row].pos
RequestsOK == DOMAIN req = Requests /\ \A r \in Requests : RequestOK(r)

\* An undo in flight has a movement in hand that was not locked.
UndosOK ==
    /\ DOMAIN tx = Clients
    /\ \A c \in Clients : tx[c].op = "undo" =>
          tx[c].txn \in DOMAIN txns /\ tx[c].row.lock = None

LedgerTypes == MovementsOK /\ RowsOK /\ RequestsOK /\ UndosOK
LedgerInv == LedgerTypes /\ LocksMatchLines /\ BilledOnce

LEMMA SaleIsItsMovement == \A i, j : Sale(i) = Sale(j) => i = j
  BY DEF Sale
LEMMA SaleIsNoCoupon == \A i, c : Sale(i) # <<"coupon", c>>
  BY DEF Sale

LEMMA LedgerStarts == Init => LedgerInv
<1> SUFFICES ASSUME Init PROVE LedgerInv
  OBVIOUS
<1> USE DEF Init, Shelf!ShelfInit, SettlementInit
<1>1. MovementsOK
  BY DEF MovementsOK
<1>2. RowsOK
  BY DEF RowsOK, NoRow, RowFields, Statuses
<1>3. RequestsOK
  BY DEF RequestsOK, RequestOK, Idle, PageStages
<1>4. UndosOK
  BY DEF UndosOK, Shelf!Idle
<1>5. \A s \in Settlements : ~Active(s)
  BY DEF Active, Exists, NoRow
<1> QED
  BY <1>1, <1>2, <1>3, <1>4, <1>5 DEF LedgerInv, LedgerTypes, LocksMatchLines, BilledOnce

-----------------------------------------------------------------------------
(* What the shelf does to the movements the settlements see: it adds some  *)
(* that are not locked, and deletes some that are not.                     *)

Grows(old, new) ==
    /\ DOMAIN old \subseteq DOMAIN new
    /\ \A i \in DOMAIN old :
          new[i] = old[i] \/ (old[i].lock = None /\ new[i].lock = None)
    /\ \A i \in DOMAIN new \ DOMAIN old : new[i].lock = None

LEMMA NewMovement ==
    \A ls, kind, t, q : /\ DOMAIN Shelf!Row(ls, kind, t, q) = Columns
                        /\ Shelf!Row(ls, kind, t, q).lock = None
  BY DEF Shelf!Row, Columns
LEMMA DeletedMovement ==
    \A t : DOMAIN Shelf!Deleted(t) = Columns /\ Shelf!Deleted(t).lock = None
  BY DEF Shelf!Deleted, Columns

LEMMA BookGrows ==
    ASSUME MovementsOK
    PROVE  \A kind, t, was, q, mode : Shelf!Book(kind, t, was, q, mode) =>
              MovementsOK' /\ Grows(txns, txns')
<1> SUFFICES ASSUME NEW row, DOMAIN row = Columns, row.lock = None,
                    txns' = Append(txns, row)
             PROVE  MovementsOK' /\ Grows(txns, txns')
  BY NewMovement DEF Shelf!Book
<1>1. PICK S : txns \in Seq(S)
  BY DEF MovementsOK
<1>2. txns \in Seq(S \cup {row})
  BY <1>1
<1>3. txns' \in Seq(S \cup {row})
  BY <1>2
<1>4. /\ DOMAIN txns = 1..Len(txns) /\ Len(txns) \in Nat
      /\ DOMAIN txns' = 1..(Len(txns) + 1) /\ txns'[Len(txns) + 1] = row
      /\ \A i \in DOMAIN txns : txns'[i] = txns[i]
  BY <1>2
<1>5. \A i \in DOMAIN txns' : DOMAIN txns'[i] = Columns
  BY <1>4 DEF MovementsOK
<1>6. MovementsOK'
  BY <1>3, <1>5, Zenon DEF MovementsOK
<1>7. Grows(txns, txns')
  BY <1>4 DEF Grows
<1> QED
  BY <1>6, <1>7

LEMMA UndoGrows ==
    ASSUME MovementsOK, UndosOK, NEW c \in Clients, Shelf!CommitUndo(c)
    PROVE  MovementsOK' /\ Grows(txns, txns')
<1>1. PICK S : txns \in Seq(S)
  BY DEF MovementsOK
<1>2. PICK gone : /\ gone = Shelf!Deleted(tx[c].row.tier)
                  /\ DOMAIN gone = Columns /\ gone.lock = None
  BY DeletedMovement
<1>3. PICK i \in DOMAIN txns : i = tx[c].txn
  BY DEF Shelf!CommitUndo, UndosOK
<1>4. txns' = [txns EXCEPT ![i] = gone] /\ txns[i].lock = None
  BY <1>2, <1>3 DEF Shelf!CommitUndo, Shelf!Undo, UndosOK
<1>5. txns \in Seq(S \cup {gone}) /\ i \in 1..Len(txns)
  BY <1>1
<1>6. txns' \in Seq(S \cup {gone})
  BY <1>4, <1>5, ExceptSeq
<1>7. /\ DOMAIN txns' = DOMAIN txns
      /\ \A j \in DOMAIN txns : txns'[j] = IF j = i THEN gone ELSE txns[j]
  BY <1>4
<1>8. MovementsOK'
  <2>1. \A j \in DOMAIN txns' : DOMAIN txns'[j] = Columns
    BY <1>2, <1>7 DEF MovementsOK
  <2> QED
    BY <1>6, <2>1, Zenon DEF MovementsOK
<1>9. Grows(txns, txns')
  BY <1>2, <1>4, <1>7 DEF Grows
<1> QED
  BY <1>8, <1>9

\* The shelf counts as everybody does.
LEMMA SameCount == \A S : Shelf!Cardinality(S) = Cardinality(S)
  BY DEF Shelf!Cardinality, Cardinality

\* A delivery adds a movement for each size it takes from.
LEMMA MirrorMovements ==
    ASSUME NEW c \in Clients, Shelf!CommitMirror(c)
    PROVE  \E n \in Nat : \E more :
              /\ txns' = txns \o more /\ DOMAIN more = 1..n
              /\ more = [i \in 1..n |-> more[i]]
              /\ \A i \in 1..n : DOMAIN more[i] = Columns /\ more[i].lock = None
<1> DEFINE take == Shelf!FirstIn(tx[c].seen, tx[c].qty)
           touched == {t \in Tiers : take[t] > 0}
           row(at, i) == Shelf!Row(lots[at[i]], "other", at[i], -take[at[i]])
<1>1. PICK at \in [1..Shelf!Cardinality(touched) -> touched] :
         txns' = txns \o [i \in DOMAIN at |-> row(at, i)]
  BY DEF Shelf!CommitMirror
<1>2. PICK n \in Nat : n = Shelf!Cardinality(touched)
  <2>1. touched \subseteq Tiers
    OBVIOUS
  <2>2. Cardinality(touched) \in Nat
    BY <2>1, LedgerConstants, FS_Subset, FS_CardinalityType
  <2> QED
    BY <2>2, SameCount
<1>3. \A i : DOMAIN row(at, i) = Columns /\ row(at, i).lock = None
  BY NewMovement
<1>30. DOMAIN at = 1..n
  BY <1>1, <1>2
<1> HIDE DEF row, take, touched
<1>4. PICK more : more = [i \in 1..n |-> row(at, i)]
  OBVIOUS
<1>5. \A i \in 1..n : DOMAIN more[i] = Columns /\ more[i].lock = None
  BY <1>3, <1>4
<1>6. more = [i \in 1..n |-> more[i]] /\ DOMAIN more = 1..n
  BY <1>4
<1>7. txns' = txns \o more
  BY <1>1, <1>30, <1>4, Zenon
<1> QED
  BY <1>5, <1>6, <1>7

LEMMA MirrorGrows ==
    ASSUME MovementsOK, NEW c \in Clients, Shelf!CommitMirror(c)
    PROVE  MovementsOK' /\ Grows(txns, txns')
<1>1. PICK S : txns \in Seq(S)
  BY DEF MovementsOK
<1>2. PICK n \in Nat : \E m :
              /\ txns' = txns \o m /\ DOMAIN m = 1..n /\ m = [i \in 1..n |-> m[i]]
              /\ \A i \in 1..n : DOMAIN m[i] = Columns /\ m[i].lock = None
  BY MirrorMovements
<1>3x. PICK more :
              /\ txns' = txns \o more /\ DOMAIN more = 1..n
              /\ more = [i \in 1..n |-> more[i]]
              /\ \A i \in 1..n : DOMAIN more[i] = Columns /\ more[i].lock = None
  BY <1>2
<1>3. PICK R : R = {more[i] : i \in 1..n}
  OBVIOUS
<1>4. more \in Seq(R) /\ Len(more) = n
  <2>1. more \in [1..n -> R]
    BY <1>3x, <1>3
  <2> QED
    BY <1>3x, <2>1, SeqDef
<1>5. more \in Seq(S \cup R) /\ txns \in Seq(S \cup R)
  BY <1>1, <1>4
<1>6. txns' \in Seq(S \cup R)
  BY <1>3x, <1>5
<1>7. /\ DOMAIN txns = 1..Len(txns) /\ Len(txns) \in Nat
      /\ DOMAIN txns' = 1..(Len(txns) + n)
      /\ \A i \in DOMAIN txns : txns'[i] = txns[i]
      /\ \A i \in DOMAIN txns' \ DOMAIN txns :
             txns'[i] = more[i - Len(txns)] /\ i - Len(txns) \in 1..n
  BY <1>3x, <1>4, <1>5
<1>8. \A i \in DOMAIN txns' : DOMAIN txns'[i] = Columns
  BY <1>3x, <1>7 DEF MovementsOK
<1>9. MovementsOK'
  BY <1>6, <1>8, Zenon DEF MovementsOK
<1>10. Grows(txns, txns')
  BY <1>3x, <1>7 DEF Grows
<1> QED
  BY <1>9, <1>10

\* An undo that begins has a movement that is not locked in hand.
LEMMA UndosStay ==
    ASSUME UndosOK, DOMAIN txns \subseteq DOMAIN txns', NEW c \in Clients, NEW todo,
           tx' = [tx EXCEPT ![c] = todo],
           todo.op = "undo" => todo.txn \in DOMAIN txns /\ todo.row.lock = None
    PROVE  UndosOK'
  BY DEF UndosOK

\* Whatever the shelf does, no locked movement changes and none comes locked.
LEMMA ShelfGrows ==
    ASSUME MovementsOK, UndosOK, Shelf!ShelfNext
    PROVE  MovementsOK' /\ UndosOK' /\ Grows(txns, txns')
<1>1. \A kind, t, was, q, mode : Shelf!Book(kind, t, was, q, mode) =>
          MovementsOK' /\ Grows(txns, txns') /\ DOMAIN txns \subseteq DOMAIN txns'
  BY BookGrows DEF Grows
<1>2. ASSUME UNCHANGED txns
      PROVE  MovementsOK' /\ Grows(txns, txns') /\ DOMAIN txns \subseteq DOMAIN txns'
  BY <1>2 DEF MovementsOK, Grows
<1>3. ASSUME NEW c \in Clients, Shelf!Done(c), DOMAIN txns \subseteq DOMAIN txns'
      PROVE  UndosOK'
  BY <1>3, UndosStay DEF Shelf!Done, Shelf!Idle
<1>4. ASSUME NEW t \in Tiers, NEW q \in 1..MaxQty, Shelf!CounterSale(t, q)
      PROVE  MovementsOK' /\ UndosOK' /\ Grows(txns, txns')
  BY <1>1, <1>4 DEF Shelf!CounterSale, UndosOK
<1>5. ASSUME NEW t \in Tiers, NEW q \in 1..MaxQty, NEW m, Shelf!Receive(t, q, m)
      PROVE  MovementsOK' /\ UndosOK' /\ Grows(txns, txns')
  BY <1>1, <1>5 DEF Shelf!Receive, UndosOK
<1>6. ASSUME NEW c \in Clients, NEW t \in Tiers, NEW q \in 1..MaxQty,
             Shelf!BeginSale(c, t, q)
      PROVE  MovementsOK' /\ UndosOK' /\ Grows(txns, txns')
  BY <1>2, <1>6, UndosStay DEF Shelf!BeginSale, Shelf!Unwritten
<1>7. ASSUME NEW c \in Clients, NEW t \in Tiers, NEW n \in 0..MaxQty, NEW k,
             Shelf!BeginCount(c, t, n, k)
      PROVE  MovementsOK' /\ UndosOK' /\ Grows(txns, txns')
  BY <1>2, <1>7, UndosStay DEF Shelf!BeginCount, Shelf!Unwritten
<1>8. ASSUME NEW c \in Clients, NEW i \in DOMAIN txns, Shelf!BeginUndo(c, i)
      PROVE  MovementsOK' /\ UndosOK' /\ Grows(txns, txns')
  BY <1>2, <1>8, UndosStay DEF Shelf!BeginUndo, Shelf!Unwritten
<1>9. ASSUME NEW c \in Clients, NEW q \in 1..MaxQty, Shelf!BeginMirror(c, q)
      PROVE  MovementsOK' /\ UndosOK' /\ Grows(txns, txns')
  BY <1>2, <1>9, UndosStay DEF Shelf!BeginMirror, Shelf!Unwritten
<1>10. ASSUME NEW c \in Clients, Shelf!CommitSet(c)
       PROVE  MovementsOK' /\ UndosOK' /\ Grows(txns, txns')
  BY <1>1, <1>3, <1>10 DEF Shelf!CommitSet
<1>11. ASSUME NEW c \in Clients, Shelf!CommitUndo(c)
       PROVE  MovementsOK' /\ UndosOK' /\ Grows(txns, txns')
  <2>1. MovementsOK' /\ Grows(txns, txns')
    BY <1>11, UndoGrows
  <2> QED
    BY <1>3, <1>11, <2>1 DEF Shelf!CommitUndo, Shelf!Undo, Grows
<1>12. ASSUME NEW c \in Clients, Shelf!CommitMirror(c)
       PROVE  MovementsOK' /\ UndosOK' /\ Grows(txns, txns')
  <2>1. MovementsOK' /\ Grows(txns, txns')
    BY <1>12, MirrorGrows
  <2> QED
    BY <1>3, <1>12, <2>1 DEF Shelf!CommitMirror, Grows
<1>13. ASSUME NEW c \in Clients, Shelf!Abort(c)
       PROVE  MovementsOK' /\ UndosOK' /\ Grows(txns, txns')
  BY <1>2, <1>3, <1>13 DEF Shelf!Abort, Shelf!Unwritten
<1> QED
  BY <1>4, <1>5, <1>6, <1>7, <1>8, <1>9, <1>10, <1>11, <1>12, <1>13 DEF Shelf!ShelfNext

\* So the settlements do not notice it.
LEMMA ShelfStepKeeps ==
    ASSUME LedgerInv, ShelfStep
    PROVE  LedgerInv'
<1>1. UNCHANGED settlements /\ UNCHANGED req
  BY DEF ShelfStep, settlementVars
<1>2. MovementsOK' /\ UndosOK' /\ Grows(txns, txns')
  BY ShelfGrows DEF ShelfStep, LedgerInv, LedgerTypes
<1>3. DOMAIN txns \subseteq DOMAIN txns'
  BY <1>2 DEF Grows
<1>4. SaleSources \subseteq SaleSources' /\ Sources \subseteq Sources'
  BY <1>3 DEF SaleSources, Sources, Sale
<1>5. RowsOK'
  BY <1>1, <1>4 DEF LedgerInv, LedgerTypes, RowsOK
<1>6. RequestsOK'
  BY <1>1, <1>3, <1>4 DEF LedgerInv, LedgerTypes, RequestsOK, RequestOK
<1>7. \A s : Active(s)' <=> Active(s)
  BY <1>1 DEF Active, Exists
<1>8. BilledOnce'
  BY <1>1, <1>7 DEF LedgerInv, BilledOnce
<1>9. ASSUME NEW i \in DOMAIN txns', txns'[i].lock # None
      PROVE  i \in DOMAIN txns /\ txns'[i] = txns[i]
  BY <1>2, <1>9 DEF Grows
<1>10. ASSUME NEW s \in Settlements, Active(s), NEW i \in Sales(settlements[s].lines)'
       PROVE  txns'[i].kind = "sale" /\ txns'[i].lock = s
  <2>1. Sale(i) \in Sources
    BY <1>1, <1>10 DEF LedgerInv, LedgerTypes, RowsOK, Sales
  <2>2. i \in DOMAIN txns
    BY <2>1, SaleIsItsMovement, SaleIsNoCoupon DEF Sources, SaleSources
  <2>3. i \in Sales(settlements[s].lines)
    BY <1>1, <1>10, <2>2 DEF Sales
  <2>4. txns[i].kind = "sale" /\ txns[i].lock = s
    BY <1>10, <2>3 DEF LedgerInv, LocksMatchLines
  <2>5. txns[i].lock # None
    BY <2>4, SettlementConstants
  <2> QED
    BY <1>2, <2>2, <2>4, <2>5 DEF Grows
<1>11. LocksMatchLines'
  <2>1. \A i \in DOMAIN txns' : txns'[i].lock # None =>
           Active(txns'[i].lock) /\ Sale(i) \in settlements[txns'[i].lock].lines
    BY <1>9 DEF LedgerInv, LocksMatchLines
  <2> QED
    BY <1>1, <1>7, <1>10, <2>1 DEF LocksMatchLines
<1> QED
  BY <1>2, <1>5, <1>6, <1>8, <1>11 DEF LedgerInv, LedgerTypes

-----------------------------------------------------------------------------
(* What the settlements write: a row with its locks, a status, the end of  *)
(* a row.                                                                  *)

LEMMA IdleIsOK ==
    ASSUME NEW r \in Requests, req'[r] = Idle PROVE RequestOK(r)'
  BY DEF RequestOK, Idle, PageStages

\* What the other requests know survives what keeps the rows that exist of
\* their kind and the movements in their places.
LEMMA OthersStayOK ==
    ASSUME LedgerInv, NEW r \in Requests, NEW state, req' = [req EXCEPT ![r] = state],
           DOMAIN txns' = DOMAIN txns, RequestOK(r)',
           \A s \in Settlements : settlements[s].status # "none" =>
              settlements'[s].status # "none" /\ settlements'[s].pos = settlements[s].pos
    PROVE  RequestsOK'
<1>1. Sources' = Sources
  BY DEF Sources, SaleSources, Sale
<1>2. DOMAIN req' = Requests /\ \A u \in Requests \ {r} : req'[u] = req[u]
  BY DEF LedgerInv, LedgerTypes, RequestsOK
<1>3. \A u \in Requests \ {r} : RequestOK(u)'
  BY <1>1, <1>2 DEF LedgerInv, LedgerTypes, RequestsOK, RequestOK
<1> QED
  BY <1>2, <1>3 DEF RequestsOK

\* A request that only reads.
LEMMA ReadKeeps ==
    ASSUME LedgerInv, NEW r \in Requests, NEW state, Go(r, state),
           UNCHANGED <<txns, settlements, tx>>, RequestOK(r)'
    PROVE  LedgerInv'
<1>1. RequestsOK'
  BY OthersStayOK DEF Go
<1>2. MovementsOK' /\ RowsOK' /\ UndosOK'
  BY DEF LedgerInv, LedgerTypes, MovementsOK, RowsOK, UndosOK, Sources, SaleSources, Sale
<1>3. LocksMatchLines' /\ BilledOnce'
  BY DEF LedgerInv, LocksMatchLines, BilledOnce, Active, Exists, Sales
<1> QED
  BY <1>1, <1>2, <1>3 DEF LedgerInv, LedgerTypes

\* Movements that are rewritten in place are still a sequence of movements.
LEMMA RewrittenOK ==
    ASSUME MovementsOK, NEW g, txns' = g, g = [i \in DOMAIN txns |-> g[i]],
           \A i \in DOMAIN txns : DOMAIN g[i] = Columns
    PROVE  MovementsOK' /\ DOMAIN txns' = DOMAIN txns
<1>1. PICK S : txns \in Seq(S)
  BY DEF MovementsOK
<1>2. PICK n \in Nat : DOMAIN txns = 1..n
  BY <1>1
<1>3. PICK R : R = {g[i] : i \in 1..n}
  OBVIOUS
<1>4. g \in [1..n -> R]
  BY <1>2, <1>3
<1>5. txns' \in Seq(R) /\ DOMAIN txns' = DOMAIN txns
  BY <1>2, <1>4, SeqDef
<1>6. \A i \in DOMAIN txns' : DOMAIN txns'[i] = Columns
  BY <1>5
<1> QED
  BY <1>5, <1>6, Zenon DEF MovementsOK

LEMMA LockedOK ==
    ASSUME MovementsOK, NEW S, NEW s, txns' = LockAll(S, s)
    PROVE  /\ MovementsOK' /\ DOMAIN txns' = DOMAIN txns
           /\ \A i \in DOMAIN txns :
                 /\ Sale(i) \in S => txns'[i].lock = s /\ txns'[i].kind = txns[i].kind
                 /\ Sale(i) \notin S => txns'[i] = txns[i]
<1>1. PICK g : g = LockAll(S, s)
  OBVIOUS
<1>2. g = [i \in DOMAIN txns |->
              IF Sale(i) \in S THEN [txns[i] EXCEPT !.lock = s] ELSE txns[i]]
  BY <1>1 DEF LockAll
<1>3. \A i \in DOMAIN txns :
         /\ g[i] = IF Sale(i) \in S THEN [txns[i] EXCEPT !.lock = s] ELSE txns[i]
         /\ DOMAIN txns[i] = Columns
  BY <1>2 DEF MovementsOK
<1>4. \A i \in DOMAIN txns :
         /\ DOMAIN g[i] = Columns
         /\ Sale(i) \in S => g[i].lock = s /\ g[i].kind = txns[i].kind
         /\ Sale(i) \notin S => g[i] = txns[i]
  BY <1>3 DEF Columns
<1>5. g = [i \in DOMAIN txns |-> g[i]]
  BY <1>2
<1> QED
  BY <1>1, <1>4, <1>5, RewrittenOK

LEMMA ReleasedOK ==
    ASSUME MovementsOK, NEW s, txns' = Release(s)
    PROVE  /\ MovementsOK' /\ DOMAIN txns' = DOMAIN txns
           /\ \A i \in DOMAIN txns :
                 /\ txns[i].lock = s => txns'[i].lock = None
                 /\ txns[i].lock # s => txns'[i] = txns[i]
<1>1. PICK g : g = Release(s)
  OBVIOUS
<1>2. g = [i \in DOMAIN txns |->
              IF txns[i].lock = s THEN [txns[i] EXCEPT !.lock = None] ELSE txns[i]]
  BY <1>1 DEF Release
<1>3. \A i \in DOMAIN txns :
         /\ g[i] = IF txns[i].lock = s THEN [txns[i] EXCEPT !.lock = None] ELSE txns[i]
         /\ DOMAIN txns[i] = Columns
  BY <1>2 DEF MovementsOK
<1>4. \A i \in DOMAIN txns :
         /\ DOMAIN g[i] = Columns
         /\ txns[i].lock = s => g[i].lock = None
         /\ txns[i].lock # s => g[i] = txns[i]
  BY <1>3 DEF Columns
<1>5. g = [i \in DOMAIN txns |-> g[i]]
  BY <1>2
<1> QED
  BY <1>1, <1>4, <1>5, RewrittenOK

\* What is locked already, or an item of a store's settlement, is not billed
\* again: a row that can take its locks shares nothing with an active one.
LEMMA FreshLines ==
    ASSUME LedgerInv, NEW S \in SUBSET Sources, Lockable(S),
           S \cap ActiveSources = {} \/ S \subseteq SaleSources,
           NEW u \in Settlements, Active(u)
    PROVE  settlements[u].lines \cap S = {}
<1> SUFFICES ASSUME NEW x \in settlements[u].lines, x \in S
             PROVE  FALSE
  OBVIOUS
<1>1. CASE x \in SaleSources
  <2>1. PICK i \in DOMAIN txns : x = Sale(i)
    BY <1>1 DEF SaleSources
  <2>2. i \in Sales(settlements[u].lines) /\ i \in Sales(S)
    BY <2>1 DEF Sales
  <2>3. txns[i].lock = u
    BY <2>2 DEF LedgerInv, LocksMatchLines
  <2>4. txns[i].lock = None
    BY <2>2 DEF Lockable
  <2> QED
    BY <2>3, <2>4, SettlementConstants
<1>2. CASE x \notin SaleSources
  <2>1. settlements[u].pos
    BY <1>2 DEF LedgerInv, LedgerTypes, RowsOK
  <2>2. x \in ActiveSources
    BY <2>1 DEF ActiveSources, Rows, Active
  <2> QED
    BY <1>2, <2>2
<1> QED
  BY <1>1, <1>2

\* LocksMatchLines, lock by lock and line by line.
LEMMA LocksFollow ==
    ASSUME \A i \in DOMAIN txns' : \A u : txns'[i].lock = u /\ u # None =>
              Active(u)' /\ Sale(i) \in settlements'[u].lines,
           \A u \in Settlements, i \in DOMAIN txns' :
              Active(u)' /\ Sale(i) \in settlements'[u].lines =>
                 txns'[i].kind = "sale" /\ txns'[i].lock = u
    PROVE  LocksMatchLines'
  BY DEF LocksMatchLines, Sales, Active, Exists

\* A new row.
LEMMA WriteKeeps ==
    ASSUME LedgerInv, NEW r \in Requests, NEW state, Go(r, state), RequestOK(r)', UNCHANGED tx,
           NEW s \in Settlements, settlements[s] = NoRow,
           NEW S \in SUBSET Sources, NEW row, row.lines = S, row.status = "draft",
           DOMAIN row = RowFields, ~row.pos => S \subseteq SaleSources,
           settlements' = [settlements EXCEPT ![s] = row],
           txns' = LockAll(S, s), Lockable(S),
           S \cap ActiveSources = {} \/ S \subseteq SaleSources
    PROVE  LedgerInv'
<1>1. /\ MovementsOK' /\ DOMAIN txns' = DOMAIN txns
      /\ \A i \in DOMAIN txns :
            /\ Sale(i) \in S => txns'[i].lock = s /\ txns'[i].kind = txns[i].kind
            /\ Sale(i) \notin S => txns'[i] = txns[i]
  BY LockedOK DEF LedgerInv, LedgerTypes
<1>2. /\ DOMAIN settlements' = Settlements /\ settlements'[s] = row
      /\ \A u \in Settlements \ {s} : settlements'[u] = settlements[u]
  BY DEF LedgerInv, LedgerTypes, RowsOK
<1>3. SaleSources' = SaleSources /\ Sources' = Sources
  BY <1>1 DEF SaleSources, Sources, Sale
<1>4. RowsOK'
  <2>1. \A u \in Settlements :
          /\ DOMAIN settlements'[u] = RowFields
          /\ settlements'[u].status \in Statuses
          /\ settlements'[u].lines \subseteq Sources
          /\ ~settlements'[u].pos => settlements'[u].lines \subseteq SaleSources
    BY <1>2 DEF LedgerInv, LedgerTypes, RowsOK, Statuses
  <2> QED
    BY <1>2, <1>3, <2>1 DEF RowsOK
<1>5. settlements[s].status = "none"
  BY DEF NoRow
<1>6. RequestsOK'
  <2>1. \A u \in Settlements : settlements[u].status # "none" =>
           settlements'[u].status # "none" /\ settlements'[u].pos = settlements[u].pos
    BY <1>2, <1>5
  <2> QED
    BY <1>1, <2>1, OthersStayOK DEF Go
<1>7. UndosOK'
  BY <1>1 DEF LedgerInv, LedgerTypes, UndosOK
<1>8. /\ Active(s)' /\ settlements'[s].lines = S /\ ~Active(s)
      /\ \A u \in Settlements \ {s} : Active(u)' <=> Active(u)
  BY <1>2, <1>5 DEF Active, Exists
<1>9. \A u \in Settlements : Active(u) => settlements[u].lines \cap S = {}
  BY FreshLines
<1>10. BilledOnce'
  BY <1>2, <1>8, <1>9 DEF LedgerInv, BilledOnce
<1>11. ASSUME NEW i \in DOMAIN txns', NEW u, txns'[i].lock = u, u # None
       PROVE  Active(u)' /\ Sale(i) \in settlements'[u].lines
  <2>1. CASE Sale(i) \in S
    BY <1>1, <1>8, <1>11, <2>1
  <2>2. CASE Sale(i) \notin S
    <3>1. i \in DOMAIN txns /\ txns'[i] = txns[i]
      BY <1>1, <2>2
    <3>2. Active(u) /\ Sale(i) \in settlements[u].lines
      BY <1>11, <3>1 DEF LedgerInv, LocksMatchLines
    <3>3. u # s
      BY <1>8, <3>2
    <3>4. settlements'[u] = settlements[u]
      BY <3>3 DEF LedgerInv, LedgerTypes, RowsOK
    <3>5. Active(u)'
      BY <3>2, <3>4 DEF Active, Exists
    <3> QED
      BY <3>2, <3>4, <3>5
  <2> QED
    BY <2>1, <2>2
<1>12. ASSUME NEW u \in Settlements, Active(u)', NEW i \in DOMAIN txns',
              Sale(i) \in settlements'[u].lines
       PROVE  txns'[i].kind = "sale" /\ txns'[i].lock = u
  <2>1. CASE u = s
    BY <1>1, <1>8, <1>12, <2>1 DEF Lockable, Sales
  <2>2. CASE u # s
    <3>1. Active(u) /\ Sale(i) \in settlements[u].lines
      BY <1>2, <1>8, <1>12, <2>2
    <3>2. Sale(i) \notin S
      BY <1>9, <3>1
    <3> QED
      BY <1>1, <3>1, <3>2 DEF LedgerInv, LocksMatchLines, Sales
  <2> QED
    BY <2>1, <2>2
<1>13. LocksMatchLines'
  BY <1>11, <1>12, LocksFollow
<1> QED
  BY <1>1, <1>4, <1>6, <1>7, <1>10, <1>13 DEF LedgerInv, LedgerTypes

\* A row that is withdrawn or deleted.
LEMMA CloseKeeps ==
    ASSUME LedgerInv, NEW s \in Settlements, settlements[s].status # "none",
           NEW end \in {"cancelled", "deleted"},
           settlements' = [settlements EXCEPT ![s].status = end],
           txns' = Release(s), UNCHANGED tx, RequestsOK'
    PROVE  LedgerInv'
<1>1. /\ MovementsOK' /\ DOMAIN txns' = DOMAIN txns
      /\ \A i \in DOMAIN txns :
            /\ txns[i].lock = s => txns'[i].lock = None
            /\ txns[i].lock # s => txns'[i] = txns[i]
  BY ReleasedOK DEF LedgerInv, LedgerTypes
<1>2. /\ DOMAIN settlements' = Settlements /\ DOMAIN settlements'[s] = RowFields
      /\ settlements'[s].status = end /\ settlements'[s].pos = settlements[s].pos
      /\ settlements'[s].lines = settlements[s].lines
      /\ \A u \in Settlements \ {s} : settlements'[u] = settlements[u]
  BY DEF LedgerInv, LedgerTypes, RowsOK, RowFields
<1>3. SaleSources' = SaleSources /\ Sources' = Sources
  BY <1>1 DEF SaleSources, Sources, Sale
<1>4. RowsOK'
  <2>1. \A u \in Settlements :
          /\ DOMAIN settlements'[u] = RowFields
          /\ settlements'[u].status \in Statuses
          /\ settlements'[u].lines \subseteq Sources
          /\ ~settlements'[u].pos => settlements'[u].lines \subseteq SaleSources
    BY <1>2 DEF LedgerInv, LedgerTypes, RowsOK, Statuses
  <2> QED
    BY <1>2, <1>3, <2>1 DEF RowsOK
<1>5. UndosOK'
  BY <1>1 DEF LedgerInv, LedgerTypes, UndosOK
<1>6. ~Active(s)' /\ \A u \in Settlements \ {s} : Active(u)' <=> Active(u)
  BY <1>2 DEF Active, Exists
<1>7. BilledOnce'
  BY <1>2, <1>6 DEF LedgerInv, BilledOnce
<1>8. ASSUME NEW i \in DOMAIN txns', NEW u, txns'[i].lock = u, u # None
      PROVE  Active(u)' /\ Sale(i) \in settlements'[u].lines
  <2>1. i \in DOMAIN txns /\ txns[i].lock = u /\ u # s
    BY <1>1, <1>8
  <2>2. Active(u) /\ Sale(i) \in settlements[u].lines
    BY <1>8, <2>1 DEF LedgerInv, LocksMatchLines
  <2>3. settlements'[u] = settlements[u]
    BY <2>1 DEF LedgerInv, LedgerTypes, RowsOK
  <2>4. Active(u)'
    BY <2>2, <2>3 DEF Active, Exists
  <2> QED
    BY <2>2, <2>3, <2>4
<1>9. ASSUME NEW u \in Settlements, Active(u)', NEW i \in DOMAIN txns',
             Sale(i) \in settlements'[u].lines
      PROVE  txns'[i].kind = "sale" /\ txns'[i].lock = u
  <2>1. u # s
    BY <1>6, <1>9
  <2>2. Active(u) /\ Sale(i) \in settlements[u].lines
    BY <1>2, <1>6, <1>9, <2>1
  <2>3. txns[i].kind = "sale" /\ txns[i].lock = u
    BY <1>1, <2>2 DEF LedgerInv, LocksMatchLines, Sales
  <2> QED
    BY <1>1, <2>1, <2>3
<1>10. LocksMatchLines'
  BY <1>8, <1>9, LocksFollow
<1> QED
  BY <1>1, <1>4, <1>5, <1>7, <1>10 DEF LedgerInv, LedgerTypes

\* A row that goes on to another status of the flow.
LEMMA MoveKeeps ==
    ASSUME LedgerInv, NEW s \in Settlements, Active(s), NEW next \in Flow,
           settlements' = [settlements EXCEPT ![s].status = next],
           UNCHANGED <<txns, tx>>, RequestsOK'
    PROVE  LedgerInv'
<1>1. /\ DOMAIN settlements' = Settlements /\ DOMAIN settlements'[s] = RowFields
      /\ settlements'[s].status = next /\ settlements'[s].pos = settlements[s].pos
      /\ settlements'[s].lines = settlements[s].lines
      /\ \A u \in Settlements \ {s} : settlements'[u] = settlements[u]
  BY DEF LedgerInv, LedgerTypes, RowsOK, RowFields
<1>2. MovementsOK' /\ UndosOK'
  BY DEF LedgerInv, LedgerTypes, UndosOK, MovementsOK
<1>3. RowsOK'
  <2>1. \A u \in Settlements :
          /\ DOMAIN settlements'[u] = RowFields
          /\ settlements'[u].status \in Statuses
          /\ settlements'[u].lines \subseteq Sources
          /\ ~settlements'[u].pos => settlements'[u].lines \subseteq SaleSources
    BY <1>1 DEF LedgerInv, LedgerTypes, RowsOK, Statuses, Flow
  <2> QED
    BY <1>1, <2>1 DEF RowsOK, Sources, SaleSources, Sale
<1>4. \A u \in Settlements : /\ Active(u)' <=> Active(u)
                            /\ settlements'[u].lines = settlements[u].lines
  BY <1>1 DEF Active, Exists, Flow
<1>5. BilledOnce'
  BY <1>4 DEF LedgerInv, BilledOnce
<1>6. ASSUME NEW i \in DOMAIN txns', NEW u, txns'[i].lock = u, u # None
      PROVE  Active(u)' /\ Sale(i) \in settlements'[u].lines
  <2>1. Active(u) /\ Sale(i) \in settlements[u].lines
    BY <1>6 DEF LedgerInv, LocksMatchLines
  <2>2. CASE u \in Settlements
    BY <1>4, <2>1, <2>2
  <2>3. CASE u \notin Settlements
    <3>1. settlements'[u] = settlements[u]
      BY <2>3 DEF LedgerInv, LedgerTypes, RowsOK
    <3> QED
      BY <2>1, <3>1 DEF Active, Exists
  <2> QED
    BY <2>2, <2>3
<1>7. ASSUME NEW u \in Settlements, Active(u)', NEW i \in DOMAIN txns',
             Sale(i) \in settlements'[u].lines
      PROVE  txns'[i].kind = "sale" /\ txns'[i].lock = u
  <2>1. Active(u) /\ Sale(i) \in settlements[u].lines
    BY <1>4, <1>7
  <2> QED
    BY <2>1 DEF LedgerInv, LocksMatchLines, Sales
<1>8. LocksMatchLines'
  BY <1>6, <1>7, LocksFollow
<1> QED
  BY <1>2, <1>3, <1>5, <1>8 DEF LedgerInv, LedgerTypes

-----------------------------------------------------------------------------
(* The requests, one action after the other.                               *)

LEMMA ReadPage ==
    ASSUME LedgerInv, NEW r \in Requests, NEW page, Go(r, page),
           page.stage \in PageStages, page.sources \subseteq Sources,
           UNCHANGED <<txns, settlements, tx>>
    PROVE  LedgerInv'
<1>1. req'[r] = page /\ Sources' = Sources
  BY DEF Go, LedgerInv, LedgerTypes, RequestsOK, Sources, SaleSources, Sale
<1>2. RequestOK(r)'
  BY <1>1 DEF RequestOK, PageStages
<1> QED
  BY <1>2, ReadKeeps

LEMMA RefuseKeeps ==
    ASSUME LedgerInv, NEW r \in Requests, Refuse(r), UNCHANGED tx
    PROVE  LedgerInv'
<1>1. req'[r] = Idle
  BY DEF Refuse, Go, LedgerInv, LedgerTypes, RequestsOK
<1>2. RequestOK(r)'
  BY <1>1, IdleIsOK
<1> QED
  BY <1>2, ReadKeeps DEF Refuse

\* The sources of the page a request was made from.
LEMMA PageSources ==
    ASSUME LedgerInv, NEW r \in Requests, req[r].stage \in PageStages
    PROVE  /\ req[r].sources \subseteq Sources
           /\ Page(r).stage = "page" /\ Page(r).sources = req[r].sources
           /\ DOMAIN Page(r) = {"stage", "period", "sources", "key", "found",
                                "draft", "tries", "number"}
  BY DEF LedgerInv, LedgerTypes, RequestsOK, RequestOK, Page, PageOf

LEMMA AnswerKeeps ==
    ASSUME LedgerInv, NEW r \in Requests, req[r].stage \in PageStages, Answer(r),
           UNCHANGED tx
    PROVE  LedgerInv'
  BY PageSources, ReadPage DEF Answer, PageStages

LEMMA PreviewKeeps ==
    ASSUME LedgerInv, NEW r \in Requests, NEW p \in Periods, Preview(r, p), UNCHANGED tx
    PROVE  LedgerInv'
<1>1. PICK S, k : /\ S = ({Sale(i) : i \in Unlocked(p)} \cup {<<"coupon", c>> : c \in Coupons})
                            \ ActiveSources
                  /\ Go(r, PageOf(p, S, k)) /\ UNCHANGED <<txns, settlements>>
  BY DEF Preview
<1>2. S \subseteq Sources
  BY <1>1 DEF Sources, SaleSources, Unlocked
<1>3. PageOf(p, S, k).stage = "page" /\ PageOf(p, S, k).sources = S
  BY DEF PageOf
<1> QED
  BY <1>1, <1>2, <1>3, ReadPage DEF PageStages

LEMMA ConfirmReadsKeep ==
    ASSUME LedgerInv, NEW r \in Requests, UNCHANGED tx,
           \/ ConfirmFindPrior(r) \/ ConfirmLoadSales(r) \/ ConfirmLoadItems(r)
           \/ ConfirmCount(r)
    PROVE  LedgerInv'
<1>1. req[r].stage \in PageStages
  BY DEF ConfirmFindPrior, ConfirmLoadSales, ConfirmLoadItems, ConfirmCount, PageStages
<1>2. CASE Answer(r)
  BY <1>1, <1>2, AnswerKeeps
<1>3. CASE ~Answer(r)
  <2>1. \E page : /\ page.stage \in PageStages /\ page.sources = req[r].sources
                  /\ Go(r, page) /\ UNCHANGED <<txns, settlements>>
    BY <1>1, <1>3, PageSources DEF ConfirmFindPrior, ConfirmLoadSales, ConfirmLoadItems,
       ConfirmCount, PageStages
  <2> QED
    BY <1>1, <2>1, PageSources, ReadPage
<1> QED
  BY <1>2, <1>3

LEMMA AttemptKeeps ==
    ASSUME LedgerInv, NEW r \in Requests, UNCHANGED tx, req[r].stage \in PageStages
    PROVE  \A n : Attempt(r, n) => LedgerInv'
<1> SUFFICES ASSUME NEW n, Attempt(r, n) PROVE LedgerInv'
  OBVIOUS
<1>1. CASE Answer(r)
  BY <1>1, AnswerKeeps
<1>2. CASE ~Answer(r)
  <2>1. \E page : /\ page.stage \in PageStages /\ page.sources = req[r].sources
                  /\ Go(r, page) /\ UNCHANGED <<txns, settlements>>
    BY <1>2, PageSources DEF Attempt, PageStages
  <2> QED
    BY <2>1, PageSources, ReadPage
<1> QED
  BY <1>1, <1>2

LEMMA PersistKeeps ==
    ASSUME LedgerInv, NEW r \in Requests, UNCHANGED tx, Persist(r) \/ AttemptAgain(r)
    PROVE  LedgerInv'
<1>1. req[r].stage \in PageStages
  BY DEF Persist, AttemptAgain, PageStages
<1>2. Answer(r) \/ Refuse(r) \/ \E n : Attempt(r, n)
  BY DEF Persist, AttemptAgain
<1> QED
  BY <1>1, <1>2, AnswerKeeps, RefuseKeeps, AttemptKeeps

LEMMA AttemptCommitKeeps ==
    ASSUME LedgerInv, NEW r \in Requests, UNCHANGED tx, AttemptCommit(r)
    PROVE  LedgerInv'
<1>1. req[r].stage \in PageStages
  BY DEF AttemptCommit, PageStages
<1>2. CASE Answer(r) \/ Refuse(r)
  BY <1>1, <1>2, AnswerKeeps, RefuseKeeps
<1>3. CASE \E page : /\ page.stage \in PageStages /\ page.sources = req[r].sources
                     /\ Go(r, page) /\ UNCHANGED <<txns, settlements>>
  BY <1>1, <1>3, PageSources, ReadPage
<1>4. CASE \E s \in Settlements :
              /\ req[r].sources \cap ActiveSources = {} /\ Lockable(req[r].sources)
              /\ Write(r, s)
  <2>1. PICK s \in Settlements :
              /\ req[r].sources \cap ActiveSources = {} /\ Lockable(req[r].sources)
              /\ Write(r, s)
    BY <1>4
  <2>2. PICK row : row = [status |-> "draft", pos |-> TRUE, number |-> req[r].number,
                          key |-> req[r].draft, lines |-> req[r].sources]
    OBVIOUS
  <2>3. /\ row.lines = req[r].sources /\ row.status = "draft" /\ row.pos
        /\ DOMAIN row = RowFields
    BY <2>2 DEF RowFields
  <2>4. PICK S \in SUBSET Sources : S = req[r].sources
    BY <1>1, PageSources
  <2>5. PICK page : page = Page(r)
    OBVIOUS
  <2>6. /\ settlements[s] = NoRow /\ settlements' = [settlements EXCEPT ![s] = row]
        /\ txns' = LockAll(S, s) /\ Go(r, page)
    BY <2>1, <2>2, <2>4, <2>5 DEF Write
  <2>7. DOMAIN txns' = DOMAIN txns
    BY <2>6, LockedOK DEF LedgerInv, LedgerTypes
  <2>8. RequestOK(r)'
    <3>1. req'[r].stage = "page" /\ req'[r].sources = S
      BY <1>1, <2>4, <2>5, <2>6, PageSources DEF Go, LedgerInv, LedgerTypes, RequestsOK
    <3>2. Sources' = Sources
      BY <2>7 DEF Sources, SaleSources, Sale
    <3> QED
      BY <3>1, <3>2 DEF RequestOK, PageStages
  <2> QED
    BY <2>1, <2>3, <2>4, <2>6, <2>8, WriteKeeps
<1> QED
  BY <1>1, <1>2, <1>3, <1>4, PageSources DEF AttemptCommit, PageStages

LEMMA LegacyReadKeeps ==
    ASSUME LedgerInv, NEW r \in Requests, UNCHANGED tx, NEW p \in Periods, LegacyRead(r, p)
    PROVE  LedgerInv'
<1>1. req'[r].stage = "legacy" /\ req'[r].sales = Unlocked(p)
  BY DEF LegacyRead, Go, LedgerInv, LedgerTypes, RequestsOK
<1>2. UNCHANGED <<txns, settlements, tx>>
  BY DEF LegacyRead
<1>3. RequestOK(r)'
  BY <1>1, <1>2 DEF RequestOK, PageStages, Unlocked
<1> QED
  BY <1>2, <1>3, ReadKeeps DEF LegacyRead

LEMMA LegacyWriteKeeps ==
    ASSUME LedgerInv, NEW r \in Requests, UNCHANGED tx, LegacyWrite(r)
    PROVE  LedgerInv'
<1>1. CASE Refuse(r)
  BY <1>1, RefuseKeeps
<1>2. CASE ~Refuse(r)
  <2>1. PICK S : S = {Sale(i) : i \in req[r].sales}
    OBVIOUS
  <2>2. S \in SUBSET SaleSources
    BY <2>1 DEF LegacyWrite, LedgerInv, LedgerTypes, RequestsOK, RequestOK, SaleSources
  <2>3. S \in SUBSET Sources
    BY <2>2 DEF Sources
  <2>4. PICK s \in Settlements :
           /\ settlements[s] = NoRow
           /\ settlements' = [settlements EXCEPT ![s] =
                 [status |-> "draft", pos |-> FALSE,
                  number |-> req[r].number, key |-> None, lines |-> S]]
           /\ txns' = LockAll(S, s) /\ Lockable(S) /\ Go(r, Idle)
    BY <1>2, <2>1 DEF LegacyWrite
  <2>5. PICK row : row = [status |-> "draft", pos |-> FALSE,
                          number |-> req[r].number, key |-> None, lines |-> S]
    OBVIOUS
  <2>6. row.lines = S /\ row.status = "draft" /\ DOMAIN row = RowFields
    BY <2>5 DEF RowFields
  <2>7. RequestOK(r)'
    BY <2>4, IdleIsOK DEF Go, LedgerInv, LedgerTypes, RequestsOK
  <2> QED
    BY <2>2, <2>3, <2>4, <2>5, <2>6, <2>7, WriteKeeps
<1> QED
  BY <1>1, <1>2

LEMMA StatusReadKeeps ==
    ASSUME LedgerInv, NEW r \in Requests, UNCHANGED tx, NEW s \in Settlements,
           NEW next \in Flow, StatusRead(r, s, next)
    PROVE  LedgerInv'
<1>1. /\ req'[r].stage = "status" /\ req'[r].row = s /\ req'[r].next = next
      /\ req'[r].was = settlements[s].status
  BY DEF StatusRead, Go, LedgerInv, LedgerTypes, RequestsOK
<1>2. UNCHANGED <<txns, settlements, tx>>
  BY DEF StatusRead
<1>3. RequestOK(r)'
  BY <1>1, <1>2 DEF StatusRead, RequestOK, PageStages, Exists
<1> QED
  BY <1>2, <1>3, ReadKeeps DEF StatusRead

LEMMA StatusWriteKeeps ==
    ASSUME LedgerInv, NEW r \in Requests, UNCHANGED tx, StatusWrite(r)
    PROVE  LedgerInv'
<1>1. PICK s \in Settlements : s = req[r].row
  BY DEF StatusWrite, LedgerInv, LedgerTypes, RequestsOK, RequestOK
<1>2. PICK next \in Flow : next = req[r].next
  BY DEF StatusWrite, LedgerInv, LedgerTypes, RequestsOK, RequestOK
<1>3. Go(r, Idle) /\ UNCHANGED txns
  BY DEF StatusWrite
<1>4. RequestOK(r)'
  BY <1>3, IdleIsOK DEF Go, LedgerInv, LedgerTypes, RequestsOK
<1>5. CASE UNCHANGED settlements
  BY <1>3, <1>4, <1>5, ReadKeeps
<1>6. CASE Active(s) /\ settlements' = [settlements EXCEPT ![s].status = next]
  <2>1. \A u \in Settlements : settlements[u].status # "none" =>
           settlements'[u].status # "none" /\ settlements'[u].pos = settlements[u].pos
    BY <1>6 DEF LedgerInv, LedgerTypes, RowsOK, RowFields, Flow
  <2>2. RequestsOK'
    BY <1>3, <1>4, <2>1, OthersStayOK DEF Go
  <2> QED
    BY <1>3, <1>6, <2>2, MoveKeeps
<1> QED
  BY <1>1, <1>2, <1>5, <1>6 DEF StatusWrite

LEMMA DeleteReadKeeps ==
    ASSUME LedgerInv, NEW r \in Requests, UNCHANGED tx, NEW s \in Settlements, DeleteRead(r, s)
    PROVE  LedgerInv'
<1>1. req'[r].stage = "delete" /\ req'[r].row = s
  BY DEF DeleteRead, Go, LedgerInv, LedgerTypes, RequestsOK
<1>2. UNCHANGED <<txns, settlements, tx>>
  BY DEF DeleteRead
<1>3. RequestOK(r)'
  BY <1>1, <1>2 DEF DeleteRead, RequestOK, PageStages, Exists
<1> QED
  BY <1>2, <1>3, ReadKeeps DEF DeleteRead

\* The row that ends keeps its kind for the requests that have it in hand.
LEMMA ClosedStays ==
    ASSUME LedgerInv, NEW s \in Settlements, NEW end \in {"cancelled", "deleted"},
           settlements' = [settlements EXCEPT ![s].status = end]
    PROVE  \A u \in Settlements : settlements[u].status # "none" =>
              settlements'[u].status # "none" /\ settlements'[u].pos = settlements[u].pos
  BY DEF LedgerInv, LedgerTypes, RowsOK, RowFields

LEMMA DeleteWriteKeeps ==
    ASSUME LedgerInv, NEW r \in Requests, UNCHANGED tx, DeleteWrite(r)
    PROVE  LedgerInv'
<1>1. CASE Refuse(r)
  BY <1>1, RefuseKeeps
<1>2. CASE ~Refuse(r)
  <2>1. PICK s \in Settlements : s = req[r].row /\ settlements[s].status # "none"
    BY DEF DeleteWrite, LedgerInv, LedgerTypes, RequestsOK, RequestOK
  <2>2. /\ settlements' = [settlements EXCEPT ![s].status = "deleted"]
        /\ txns' = Release(s) /\ Go(r, Idle)
    BY <1>2, <2>1 DEF DeleteWrite
  <2>3. DOMAIN txns' = DOMAIN txns
    BY <2>2, ReleasedOK DEF LedgerInv, LedgerTypes
  <2>4. RequestOK(r)'
    BY <2>2, IdleIsOK DEF Go, LedgerInv, LedgerTypes, RequestsOK
  <2>5. RequestsOK'
    BY <2>2, <2>3, <2>4, ClosedStays, OthersStayOK DEF Go
  <2> QED
    BY <2>1, <2>2, <2>5, CloseKeeps
<1> QED
  BY <1>1, <1>2

LEMMA WithdrawKeeps ==
    ASSUME LedgerInv, UNCHANGED tx, NEW s \in Settlements, Withdraw(s)
    PROVE  LedgerInv'
<1>1. /\ settlements' = [settlements EXCEPT ![s].status = "cancelled"]
      /\ settlements[s].status # "none" /\ txns' = Release(s) /\ UNCHANGED req
  BY DEF Withdraw
<1>2. Sources' = Sources
  <2>1. DOMAIN txns' = DOMAIN txns
    BY <1>1, ReleasedOK DEF LedgerInv, LedgerTypes
  <2> QED
    BY <2>1 DEF Sources, SaleSources, Sale
<1>3. RequestsOK'
  <2>1. DOMAIN txns' = DOMAIN txns
    BY <1>1, ReleasedOK DEF LedgerInv, LedgerTypes
  <2>2. \A u \in Settlements : settlements[u].status # "none" =>
           settlements'[u].status # "none" /\ settlements'[u].pos = settlements[u].pos
    BY <1>1, ClosedStays
  <2> QED
    BY <1>1, <1>2, <2>1, <2>2 DEF LedgerInv, LedgerTypes, RequestsOK, RequestOK
<1> QED
  BY <1>1, <1>3, CloseKeeps

-----------------------------------------------------------------------------
(* The theorems.                                                           *)

LEMMA SettlementStepKeeps ==
    ASSUME LedgerInv, SettlementStep PROVE LedgerInv'
<1>1. UNCHANGED tx
  BY DEF SettlementStep, shelfOnly
<1>2. ASSUME NEW r \in Requests, Store(r) PROVE LedgerInv'
  BY <1>1, <1>2, PreviewKeeps, ConfirmReadsKeep, PersistKeeps, AttemptCommitKeeps DEF Store
<1>3. ASSUME NEW r \in Requests, Office(r) PROVE LedgerInv'
  BY <1>1, <1>3, LegacyReadKeeps, LegacyWriteKeeps, StatusReadKeeps, StatusWriteKeeps,
     DeleteReadKeeps, DeleteWriteKeeps DEF Office
<1>4. ASSUME NEW r \in Requests, Leave(r) PROVE LedgerInv'
  BY <1>1, <1>4, RefuseKeeps DEF Leave
<1>5. ASSUME NEW s \in Settlements, Withdraw(s) PROVE LedgerInv'
  BY <1>1, <1>5, WithdrawKeeps
<1> QED
  BY <1>2, <1>3, <1>4, <1>5 DEF SettlementStep, SettlementNext

LEMMA LedgerSteps == LedgerInv /\ [Next]_vars => LedgerInv'
<1> SUFFICES ASSUME LedgerInv, [Next]_vars PROVE LedgerInv'
  OBVIOUS
<1>1. CASE ShelfStep
  BY <1>1, ShelfStepKeeps
<1>2. CASE SettlementStep
  BY <1>2, SettlementStepKeeps
<1>3. CASE UNCHANGED vars
  <2>1. UNCHANGED <<txns, settlements, req, tx>>
    BY <1>3 DEF vars, shelfOnly
  <2> QED
    BY <2>1 DEF LedgerInv, LedgerTypes, MovementsOK, RowsOK, RequestsOK, RequestOK, UndosOK,
       LocksMatchLines, BilledOnce, Active, Exists, Sales, Sources, SaleSources, Sale
<1> QED
  BY <1>1, <1>2, <1>3 DEF Next

LEMMA LedgerHolds == Spec => []LedgerInv
  BY LedgerStarts, LedgerSteps, PTL DEF Spec

\* BilledOnce, for every number of sales, coupons, settlements and requests: two
\* active settlements have no source in common, although the store decides by
\* the items of its settlements and the back office by the locks only.
THEOREM BilledOnceAlways == Spec => []BilledOnce
<1>1. LedgerInv => BilledOnce
  BY DEF LedgerInv
<1> QED
  BY <1>1, LedgerHolds, PTL

\* LocksMatchLines: the locks on the movements and the lines of the settlements
\* agree, however sales, undos, confirmations, withdrawals and deletions mix.
THEOREM LocksAlwaysMatchLines == Spec => []LocksMatchLines
<1>1. LedgerInv => LocksMatchLines
  BY DEF LedgerInv
<1> QED
  BY <1>1, LedgerHolds, PTL

\* A row of a store that was paid or withdrawn is none a step writes.
LEMMA EndedStays ==
    ASSUME LedgerInv, [Next]_vars, NEW s \in Settlements, settlements[s].pos,
           settlements[s].status \in {"paid", "cancelled"}
    PROVE  settlements'[s] = settlements[s]
<1>1. ASSUME NEW u \in Settlements, u # s, NEW row,
             settlements' = [settlements EXCEPT ![u] = row]
      PROVE  settlements'[s] = settlements[s]
  BY <1>1 DEF LedgerInv, LedgerTypes, RowsOK
<1>2. ASSUME NEW u \in Settlements, settlements[u] = NoRow, NEW row,
             settlements' = [settlements EXCEPT ![u] = row]
      PROVE  settlements'[s] = settlements[s]
  <2>1. u # s
    BY <1>2 DEF NoRow
  <2> QED
    BY <1>1, <1>2, <2>1
<1>3. ASSUME NEW r \in Requests, Store(r)
      PROVE  settlements'[s] = settlements[s]
  <2>1. CASE UNCHANGED settlements
    BY <2>1
  <2>2. CASE \E u \in Settlements : Write(r, u)
    BY <1>2, <2>2 DEF Write
  <2> QED
    BY <1>3, <2>1, <2>2 DEF Store, Preview, ConfirmFindPrior, ConfirmLoadSales,
       ConfirmLoadItems, ConfirmCount, Persist, AttemptAgain, Attempt, AttemptCommit,
       Answer, Refuse
<1>4. ASSUME NEW r \in Requests, LegacyWrite(r)
      PROVE  settlements'[s] = settlements[s]
  BY <1>2, <1>4 DEF LegacyWrite, Refuse
<1>5. ASSUME NEW r \in Requests, StatusWrite(r)
      PROVE  settlements'[s] = settlements[s]
  <2>1. PICK u \in Settlements : u = req[r].row
    BY <1>5 DEF StatusWrite, LedgerInv, LedgerTypes, RequestsOK, RequestOK
  <2>2. CASE u = s
    BY <1>5, <2>1, <2>2 DEF StatusWrite, Active, NextStatus, LedgerInv, LedgerTypes,
       RequestsOK, RequestOK
  <2>3. CASE u # s
    BY <1>1, <1>5, <2>1, <2>3 DEF StatusWrite
  <2> QED
    BY <2>2, <2>3
<1>6. ASSUME NEW r \in Requests, DeleteWrite(r)
      PROVE  settlements'[s] = settlements[s]
  <2>1. PICK u \in Settlements : u = req[r].row /\ u # s
    BY <1>6 DEF DeleteWrite, LedgerInv, LedgerTypes, RequestsOK, RequestOK
  <2> QED
    BY <1>1, <1>6, <2>1 DEF DeleteWrite, Refuse
<1>7. ASSUME NEW u \in Settlements, Withdraw(u)
      PROVE  settlements'[s] = settlements[s]
  <2>1. u # s
    BY <1>7 DEF Withdraw
  <2> QED
    BY <1>1, <1>7, <2>1 DEF Withdraw
<1>8. ASSUME SettlementStep PROVE settlements'[s] = settlements[s]
  BY <1>3, <1>4, <1>5, <1>6, <1>7, <1>8 DEF SettlementStep, SettlementNext, Office, Leave,
     LegacyRead, StatusRead, DeleteRead, Refuse
<1> QED
  BY <1>8 DEF Next, ShelfStep, settlementVars, vars

\* PosEndIsFinal: no request that was in the middle of a change, and none that
\* comes later, touches a store's settlement that was paid or withdrawn.
THEOREM PosEndStaysFinal == Spec => PosEndIsFinal
<1>1. LedgerInv /\ [Next]_vars =>
         [\A s \in Settlements :
            settlements[s].pos /\ settlements[s].status \in {"paid", "cancelled"}
              => settlements'[s] = settlements[s]]_settlements
  BY EndedStays
<1> QED
  BY <1>1, LedgerHolds, PTL DEF Spec, PosEndIsFinal

(***************************************************************************)
(* The contract of the point of sale: RefundsUndoTheSale holds of every    *)
(* line, at every price and rate, and of every number of refunds and       *)
(* disputes.  The proof rests on the rounded commission growing with the   *)
(* amount.                                                                 *)
(***************************************************************************)
\* A product grows with its first factor.
LEMMA ProductGrows ==
    ASSUME NEW a \in Nat, NEW b \in Nat, NEW rate \in Nat, a <= b
    PROVE  a * rate \in Nat /\ b * rate \in Nat /\ a * rate <= b * rate
<1> DEFINE more == b - a
<1>1. more \in Nat /\ b = a + more
  OBVIOUS
<1>2. b * rate = a * rate + more * rate
  BY <1>1
<1>3. a * rate \in Nat /\ more * rate \in Nat
  BY <1>1
<1> QED
  BY <1>2, <1>3

\* The commission of an amount is a number of dollars ...
LEMMA CommissionNat ==
    ASSUME NEW amount \in Nat, NEW rate \in 0..100
    PROVE  Commission(amount, rate) \in Nat
<1>1. amount * rate \in Nat
  OBVIOUS
<1> QED
  BY <1>1 DEF Commission

\* ... and no less than that of a smaller one, however both are rounded.
LEMMA CommissionGrows ==
    ASSUME NEW a \in Nat, NEW b \in Nat, NEW rate \in 0..100, a <= b
    PROVE  Commission(a, rate) <= Commission(b, rate)
<1> DEFINE x == a * rate
           y == b * rate
<1>1. x \in Nat /\ y \in Nat /\ x <= y
  BY ProductGrows
<1>2. 2 * a * rate = 2 * x /\ 2 * b * rate = 2 * y
  OBVIOUS
<1> HIDE DEF x, y
<1>3. (2 * x + 100) \div 200 <= (2 * y + 100) \div 200
  BY <1>1
<1> QED
  BY <1>2, <1>3 DEF Commission

-----------------------------------------------------------------------------
\* What the variables hold.
ContractTypeOK ==
    /\ sold \in SoldLines
    /\ settlement \in {"none", "draft", "reviewing", "approved", "paid", "cancelled"}
    /\ refund \in [Refunds -> {"none", "requested", "approved", "rejected", "completed"}]
    /\ returned \in [amount : 0..sold.gross, qty : Nat, commission : Nat]
    /\ voucher \in {"redeemed", "cancelled"}
    /\ dispute \in [Disputes -> {"none", "pending", "approved", "rejected"}]
    /\ books \in [current : Int, next : Int]

\* The commission given back is what the part that came back had earned.
CommissionAgrees == returned.commission = Snapshot - Commission(Left, sold.rate)

ContractInv == ContractTypeOK /\ CommissionAgrees /\ UndoesTheSale /\ ApprovedStands

\* The numbers the steps calculate with.
LEMMA Numbers ==
    ASSUME ContractTypeOK
    PROVE  /\ sold.gross \in Nat /\ sold.qty \in Nat /\ sold.rate \in 0..100
           /\ sold.channel \in Channels /\ Left \in Nat /\ Left <= sold.gross
           /\ Snapshot \in Nat /\ Commission(Left, sold.rate) \in Nat
<1>1. /\ sold.gross \in Nat /\ sold.qty \in Nat /\ sold.rate \in 0..100
      /\ sold.channel \in Channels
  BY ContractConstants DEF ContractTypeOK
<1>2. returned.amount \in 0..sold.gross
  BY DEF ContractTypeOK
<1>3. Left \in Nat /\ Left <= sold.gross
  BY <1>1, <1>2 DEF Left
<1> QED
  BY <1>1, <1>3, CommissionNat DEF Snapshot

\* A refund within what is left gives back a commission that was kept.
LEMMA ReversalIsBounded ==
    ASSUME ContractTypeOK, CommissionAgrees, NEW amount \in 1..Left
    PROVE  /\ Left - amount \in Nat /\ Commission(Left - amount, sold.rate) \in Nat
           /\ Reversal(amount) = Commission(Left, sold.rate) - Commission(Left - amount, sold.rate)
           /\ Reversal(amount) \in Nat
           /\ returned.commission + Reversal(amount) <= Snapshot
<1>1. Left - amount \in Nat /\ Left - amount <= Left
  BY Numbers
<1>2. Commission(Left - amount, sold.rate) \in Nat
  BY <1>1, Numbers, CommissionNat
<1>3. Commission(Left - amount, sold.rate) <= Commission(Left, sold.rate)
  BY <1>1, Numbers, CommissionGrows
<1>4. Reversal(amount) = Commission(Left, sold.rate) - Commission(Left - amount, sold.rate)
  BY <1>2, Numbers DEF Reversal, CommissionAgrees
<1>5. returned.commission + Reversal(amount) = Snapshot - Commission(Left - amount, sold.rate)
  BY <1>2, <1>4, Numbers DEF CommissionAgrees
<1> QED
  BY <1>1, <1>2, <1>3, <1>4, <1>5, Numbers

\* So none is refused.
LEMMA NoneIsRefusedFollows ==
    ASSUME ContractTypeOK, CommissionAgrees
    PROVE  NoneIsRefused
<1> SUFFICES ASSUME NEW amount \in 1..Left
             PROVE  ReversalAgrees(amount)
  BY DEF NoneIsRefused
<1> QED
  BY ReversalIsBounded DEF ReversalAgrees, CommissionAgrees

-----------------------------------------------------------------------------
\* The line as it is sold.
LEMMA ContractStarts == ContractInit => ContractInv
<1> SUFFICES ASSUME ContractInit
             PROVE  ContractInv
  OBVIOUS
<1> USE DEF ContractInit
<1>1. /\ sold.gross \in Nat /\ sold.rate \in 0..100 /\ sold.channel \in Channels
      /\ Face \in Nat /\ Left = sold.gross
  BY ContractConstants DEF Left
<1>2. Snapshot \in Nat /\ Commission(Left, sold.rate) = Snapshot
  BY <1>1, CommissionNat DEF Snapshot
<1>3. OwedFor(sold.channel, sold.gross, Snapshot) \in Int
  BY <1>1, <1>2 DEF OwedFor
<1>4. ContractTypeOK
  BY <1>1, <1>3 DEF ContractTypeOK
<1>5. CommissionAgrees
  BY <1>2 DEF CommissionAgrees
<1>6. UndoesTheSale
  BY <1>1, <1>2, <1>3 DEF UndoesTheSale
<1>7. ApprovedStands
  BY DEF ApprovedStands, Locked
<1> QED
  BY <1>4, <1>5, <1>6, <1>7 DEF ContractInv

\* A settlement that moves says, when it is approved, what the books say.
LEMMA MoveSettlementKeeps ==
    ASSUME ContractInv, NEW next, MoveSettlement(next)
    PROVE  ContractInv'
<1> USE DEF ContractInv, MoveSettlement, SettlementMoves
<1>1. next \in {"draft", "reviewing", "approved", "paid", "cancelled"}
  OBVIOUS
<1>2. ContractTypeOK'
  BY <1>1 DEF ContractTypeOK
<1>3. CommissionAgrees' /\ UndoesTheSale'
  BY DEF CommissionAgrees, UndoesTheSale, Left, Snapshot
<1>4. ApprovedStands'
  BY DEF ApprovedStands, Locked
<1> QED
  BY <1>2, <1>3, <1>4

\* An entry is added to one of the two periods, never to the approved one.
LEMMA EnteredAdds ==
    ASSUME ContractTypeOK, ApprovedStands, NEW owed \in Int, books' = Entered(owed),
           settlement' = settlement, approved' = approved
    PROVE  /\ books' \in [current : Int, next : Int]
           /\ books'.current + books'.next = books.current + books.next + owed
           /\ ApprovedStands'
<1>1. books \in [current : Int, next : Int]
  BY DEF ContractTypeOK
<1>2. CASE Locked
  <2>1. books' = [books EXCEPT !.next = @ + owed]
    BY <1>2 DEF Entered
  <2> QED
    BY <1>1, <1>2, <2>1 DEF ApprovedStands, Locked
<1>3. CASE ~Locked
  <2>1. books' = [books EXCEPT !.current = @ + owed]
    BY <1>3 DEF Entered
  <2> QED
    BY <1>1, <1>3, <2>1 DEF ApprovedStands, Locked
<1> QED
  BY <1>2, <1>3

\* A refund takes back its part of what the shop owes, whatever the rounding.
LEMMA CompleteKeeps ==
    ASSUME ContractInv, NEW r \in Refunds, NEW amount \in 1..sold.gross,
           NEW qty \in 0..sold.qty, Complete(r, amount, qty)
    PROVE  ContractInv'
<1> DEFINE part == Reversal(amount)
           owed == OwedFor(sold.channel, amount, part)
<1>1. ContractTypeOK /\ CommissionAgrees /\ UndoesTheSale /\ ApprovedStands
  BY DEF ContractInv
<1>2. amount \in 1..Left /\ qty \in Nat
  BY <1>1, Numbers DEF Complete, Refundable
<1>3. /\ Left - amount \in Nat /\ Commission(Left - amount, sold.rate) \in Nat /\ part \in Nat
      /\ part = Commission(Left, sold.rate) - Commission(Left - amount, sold.rate)
  BY <1>1, <1>2, ReversalIsBounded
<1>4. /\ sold' = sold /\ settlement' = settlement /\ approved' = approved
      /\ voucher' = voucher /\ dispute' = dispute
      /\ refund' = [refund EXCEPT ![r] = "completed"]
      /\ returned' = [amount |-> returned.amount + amount, qty |-> returned.qty + qty,
                      commission |-> returned.commission + part]
      /\ books' = Entered(-owed)
  BY DEF Complete
<1>5. owed \in Int /\ -owed \in Int
  BY <1>2, <1>3, Numbers, <1>1 DEF OwedFor
<1>6. Left' = Left - amount /\ Snapshot' = Snapshot
  <2>1. returned.amount \in Nat /\ amount \in Int /\ sold.gross \in Nat
    BY <1>1, Numbers DEF ContractTypeOK
  <2> QED
    BY <1>4, <2>1 DEF Left, Snapshot
<1> HIDE DEF part, owed
<1>7. /\ books' \in [current : Int, next : Int]
      /\ books'.current + books'.next = books.current + books.next + -owed
      /\ ApprovedStands'
  BY <1>1, <1>4, <1>5, EnteredAdds
<1>8. ContractTypeOK'
  <2>1. returned.amount + amount \in 0..sold.gross
    BY <1>1, <1>2, Numbers DEF ContractTypeOK, Left
  <2>2. returned' \in [amount : 0..sold.gross, qty : Nat, commission : Nat]
    BY <1>1, <1>2, <1>3, <1>4, <2>1 DEF ContractTypeOK
  <2>3. refund' \in [Refunds -> {"none", "requested", "approved", "rejected", "completed"}]
    BY <1>1, <1>4 DEF ContractTypeOK
  <2> QED
    BY <1>1, <1>4, <1>7, <2>2, <2>3 DEF ContractTypeOK
<1>9. CommissionAgrees'
  <2>1. returned'.commission = returned.commission + part
    BY <1>4
  <2> QED
    BY <1>1, <1>3, <1>4, <1>6, <2>1, Numbers DEF CommissionAgrees
<1>10. UndoesTheSale'
  <2> DEFINE rest == Commission(Left, sold.rate)
             less == Commission(Left - amount, sold.rate)
             subsidy == IF voucher = "redeemed" THEN Face ELSE 0
  <2>1. Commission(Left', sold'.rate) = less
    BY <1>4, <1>6
  <2>2. rest \in Nat /\ less \in Nat /\ part = rest - less /\ subsidy \in Nat
    BY <1>1, <1>3, Numbers, ContractConstants
  <2>3. books.current + books.next = OwedFor(sold.channel, Left, rest) - subsidy
    BY <1>1 DEF UndoesTheSale
  <2> HIDE DEF rest, less, subsidy
  <2>4. OwedFor(sold.channel, Left, rest) - owed = OwedFor(sold.channel, Left - amount, less)
    BY <1>1, <1>2, <2>2, Numbers DEF OwedFor, owed, part
  <2>5. books'.current + books'.next = OwedFor(sold.channel, Left - amount, less) - subsidy
    <3>1. OwedFor(sold.channel, Left, rest) \in Int
      BY <1>1, <2>2, Numbers DEF OwedFor
    <3> QED
      BY <1>5, <1>7, <2>2, <2>3, <2>4, <3>1
  <2> QED
    BY <1>4, <1>6, <2>1, <2>5 DEF UndoesTheSale, subsidy, less
<1> QED
  BY <1>7, <1>8, <1>9, <1>10 DEF ContractInv

\* An approved dispute takes the subsidy back, once.
LEMMA DecideKeeps ==
    ASSUME ContractInv, NEW d \in Disputes, NEW decision \in {"approved", "rejected"},
           Decide(d, decision)
    PROVE  ContractInv'
<1>1. ContractTypeOK /\ CommissionAgrees /\ UndoesTheSale /\ ApprovedStands
  BY DEF ContractInv
<1>2. /\ sold' = sold /\ settlement' = settlement /\ approved' = approved
      /\ refund' = refund /\ returned' = returned /\ voucher = "redeemed"
      /\ dispute' = [dispute EXCEPT ![d] = decision]
  BY DEF Decide
<1>3. dispute' \in [Disputes -> {"none", "pending", "approved", "rejected"}]
  BY <1>1, <1>2 DEF ContractTypeOK
<1>4. Left' = Left /\ Snapshot' = Snapshot /\ CommissionAgrees'
  BY <1>1, <1>2 DEF Left, Snapshot, CommissionAgrees
<1>5. CASE decision = "approved"
  <2>1. voucher' = "cancelled" /\ books' = Entered(Face)
    BY <1>5 DEF Decide
  <2>2. Face \in Int
    BY ContractConstants
  <2>3. /\ books' \in [current : Int, next : Int]
        /\ books'.current + books'.next = books.current + books.next + Face
        /\ ApprovedStands'
    BY <1>1, <1>2, <2>1, <2>2, EnteredAdds
  <2>4. UndoesTheSale'
    <3>1. OwedFor(sold.channel, Left, Commission(Left, sold.rate)) \in Int
      BY <1>1, Numbers DEF OwedFor
    <3> QED
      BY <1>1, <1>2, <1>4, <2>1, <2>2, <2>3, <3>1 DEF UndoesTheSale
  <2> QED
    BY <1>1, <1>2, <1>3, <1>4, <2>1, <2>3, <2>4 DEF ContractInv, ContractTypeOK
<1>6. CASE decision = "rejected"
  <2>1. voucher' = voucher /\ books' = books
    BY <1>6 DEF Decide
  <2>2. UndoesTheSale' /\ ApprovedStands'
    BY <1>1, <1>2, <1>4, <2>1 DEF UndoesTheSale, ApprovedStands, Locked
  <2> QED
    BY <1>1, <1>2, <1>3, <1>4, <2>1, <2>2 DEF ContractInv, ContractTypeOK
<1> QED
  BY <1>5, <1>6

\* The requests of a shop, and stuttering.
LEMMA MoveRefundKeeps ==
    ASSUME ContractInv, NEW r \in Refunds, NEW next, MoveRefund(r, next)
    PROVE  ContractInv'
<1> USE DEF ContractInv, MoveRefund, RefundMoves
<1>1. next \in {"requested", "approved", "rejected"}
  OBVIOUS
<1>2. ContractTypeOK'
  BY <1>1 DEF ContractTypeOK
<1> QED
  BY <1>2 DEF CommissionAgrees, UndoesTheSale, ApprovedStands, Locked, Left, Snapshot

LEMMA ComplainKeeps ==
    ASSUME ContractInv, NEW d \in Disputes, Complain(d)
    PROVE  ContractInv'
<1> USE DEF ContractInv, Complain
<1>1. ContractTypeOK'
  BY DEF ContractTypeOK
<1> QED
  BY <1>1 DEF CommissionAgrees, UndoesTheSale, ApprovedStands, Locked, Left, Snapshot

LEMMA ContractStuttersKeep ==
    ASSUME ContractInv, UNCHANGED contractVars
    PROVE  ContractInv'
  BY DEF ContractInv, contractVars, ContractTypeOK, CommissionAgrees, UndoesTheSale,
         ApprovedStands, Locked, Left, Snapshot

\* Every call keeps the invariant.
LEMMA ContractSteps == ContractInv /\ [ContractNext]_contractVars => ContractInv'
<1> SUFFICES ASSUME ContractInv, [ContractNext]_contractVars
             PROVE  ContractInv'
  OBVIOUS
<1>1. ASSUME NEW next \in {"draft", "reviewing", "approved", "paid", "cancelled"},
             MoveSettlement(next)
      PROVE  ContractInv'
  BY <1>1, MoveSettlementKeeps
<1>2. ASSUME NEW r \in Refunds, NEW next \in {"requested", "approved", "rejected"},
             MoveRefund(r, next)
      PROVE  ContractInv'
  BY <1>2, MoveRefundKeeps
<1>3. ASSUME NEW r \in Refunds, NEW amount \in 1..sold.gross, NEW qty \in 0..sold.qty,
             Complete(r, amount, qty)
      PROVE  ContractInv'
  BY <1>3, CompleteKeeps
<1>4. ASSUME NEW d \in Disputes, Complain(d)
      PROVE  ContractInv'
  BY <1>4, ComplainKeeps
<1>5. ASSUME NEW d \in Disputes, NEW decision \in {"approved", "rejected"}, Decide(d, decision)
      PROVE  ContractInv'
  BY <1>5, DecideKeeps
<1>6. CASE UNCHANGED contractVars
  BY <1>6, ContractStuttersKeep
<1> QED
  BY <1>1, <1>2, <1>3, <1>4, <1>5, <1>6 DEF ContractNext

\* RefundsUndoTheSale, for every line, rate, and number of refunds and disputes:
\* the books agree with what came back, to the dollar, no refund is refused for
\* its rounding, and an approved settlement stands.
THEOREM RefundsAlwaysUndoTheSale == ContractSpec => []RefundsUndoTheSale
<1>1. ContractInv => RefundsUndoTheSale
  BY NoneIsRefusedFollows DEF ContractInv, RefundsUndoTheSale
<1> QED
  BY <1>1, ContractStarts, ContractSteps, PTL DEF ContractSpec

-----------------------------------------------------------------------------
(* Vendors: what the lines of an order are credited with.                  *)

Amounts(held) == [i \in Places(held.lines) |-> held.lines[i].amount]
Discounts(held) == [i \in Places(held.lines) |-> Allocated(held, i)]

LEMMA HeldIsTyped ==
    ASSUME NEW held \in Contents \cup {Empty}
    PROVE  held \in HeldRows
<1>1. Empty \in HeldRows
  <2>1. <<>> \in Seq(LineRows)
    BY EmptySeq
  <2> QED BY <2>1 DEF Empty, HeldRows
<1> QED BY <1>1, VendorConstants

LEMMA PlacesAreNumbers ==
    ASSUME NEW held \in HeldRows
    PROVE  /\ Places(held.lines) = 1..Len(held.lines) /\ Len(held.lines) \in Nat
           /\ Places(held.lines) \subseteq Int /\ IsFiniteSet(Places(held.lines))
           /\ \A i \in Places(held.lines) : held.lines[i] \in LineRows
           /\ Amounts(held) \in [Places(held.lines) -> Nat]
           /\ Subtotal(held) = Sum(Amounts(held)) /\ Subtotal(held) \in Nat
<1>1. held.lines \in Seq(LineRows)
  BY DEF HeldRows
<1>2. PICK n \in Nat : n = Len(held.lines)
  BY <1>1
<1>3. Places(held.lines) = 1..n
  BY <1>1, <1>2 DEF Places
<1>4. IsFiniteSet(1..n) /\ 1..n \subseteq Int
  BY FS_Interval
<1>5. \A i \in 1..n : held.lines[i] \in LineRows /\ held.lines[i].amount \in Nat
  <2>1. \A i \in 1..n : held.lines[i] \in LineRows
    BY <1>1, <1>2
  <2> QED BY <2>1 DEF LineRows
<1>6. Amounts(held) \in [1..n -> Nat]
  BY <1>3, <1>5 DEF Amounts
<1>7. Subtotal(held) = Sum(Amounts(held))
  BY DEF Subtotal, Amount, Amounts
<1> QED BY <1>2, <1>3, <1>4, <1>5, <1>6, <1>7, SumIsNatural

\* allocateOrderDiscount gives away the whole discount and never more of a line
\* than the line is worth.
LEMMA DiscountIsAllocated ==
    ASSUME NEW held \in HeldRows, Subtotal(held) > 0, held.discount <= Subtotal(held)
    PROVE  /\ Discounts(held) \in [Places(held.lines) -> Int]
           /\ Sum(Discounts(held)) = held.discount
           /\ \A i \in Places(held.lines) :
                 /\ Allocated(held, i) \in Int
                 /\ Allocated(held, i) \in 0..held.lines[i].amount
<1>0. PICK D \in SUBSET Int, s \in Nat, d \in Nat :
         D = Places(held.lines) /\ s = Subtotal(held) /\ d = held.discount
  BY PlacesAreNumbers DEF HeldRows
<1>1. /\ D \subseteq Int /\ IsFiniteSet(D) /\ Amounts(held) \in [D -> Nat]
      /\ s = Sum(Amounts(held)) /\ s \in Nat /\ s > 0
  BY <1>0, PlacesAreNumbers
<1>2. d \in Nat /\ d <= s
  BY <1>0
<1>3. \A i \in D : Amounts(held)[i] = held.lines[i].amount /\ held.lines[i].amount \in Nat
  BY <1>0, <1>1 DEF Amounts
<1>4. PICK raw \in [D -> Nat] : raw = Amounts(held)
  BY <1>1
<1>5. PICK cents \in [D -> Nat], rest \in [D -> Nat] :
         /\ cents = [i \in D |-> (d * raw[i]) \div s]
         /\ rest = [i \in D |-> (d * raw[i]) % s]
         /\ \A i \in D : d * raw[i] = s * cents[i] + rest[i] /\ rest[i] < s
  <2>1. \A i \in D : d * raw[i] \in Nat
    BY <1>2
  <2>2. /\ [i \in D |-> (d * raw[i]) \div s] \in [D -> Nat]
        /\ [i \in D |-> (d * raw[i]) % s] \in [D -> Nat]
    BY <1>1, <2>1, DivMod
  <2>3. \A i \in D : /\ d * raw[i] = s * ((d * raw[i]) \div s) + ((d * raw[i]) % s)
                     /\ (d * raw[i]) % s < s
    BY <1>1, <2>1, DivMod
  <2> QED BY <2>2, <2>3
<1> DEFINE Ahead(i) == {m \in D : rest[m] > rest[i] \/ (rest[m] = rest[i] /\ m < i)}
           Part(i) == cents[i] + (IF Cardinality(Ahead(i)) < d - Sum(cents) THEN 1 ELSE 0)
<1>6. PICK part \in [D -> Int] : \A i \in D : part[i] = Part(i)
  <2>1. \A i \in D : Part(i) \in Int
    OBVIOUS
  <2> HIDE DEF Part
  <2>2. [i \in D |-> Part(i)] \in [D -> Int]
    BY <2>1
  <2> QED BY <2>2
<1>7. /\ Sum(part) = d
      /\ \A i \in D : part[i] \in 0..raw[i]
  <2>1. Sum(raw) \in Nat /\ Sum(raw) > 0 /\ d <= Sum(raw)
    BY <1>1, <1>2, <1>4
  <2>2. \A i \in D : d * raw[i] = Sum(raw) * cents[i] + rest[i] /\ rest[i] < Sum(raw)
    BY <1>1, <1>4, <1>5
  <2>3. \A i \in D : part[i] = cents[i] + (IF Cardinality(Ahead(i)) < d - Sum(cents)
                                             THEN 1 ELSE 0)
    BY <1>6
  <2>4. /\ Sum(part) = d
        /\ d <= Sum(raw) => \A i \in D : part[i] \in 0..raw[i]
    <3>1. D \subseteq Int /\ IsFiniteSet(D) /\ d \in Nat
      BY <1>1, <1>2
    <3> HIDE DEF Ahead
    <3>2. \A i \in D : part[i] = cents[i] +
             (IF Cardinality({m \in D : rest[m] > rest[i] \/ (rest[m] = rest[i] /\ m < i)})
                    < d - Sum(cents) THEN 1 ELSE 0)
      BY <2>3 DEF Ahead
    <3>3. \A c, r \in [D -> Nat] : \A p \in [D -> Int] :
             /\ \A l \in D : /\ d * raw[l] = Sum(raw) * c[l] + r[l]
                             /\ r[l] < Sum(raw)
             /\ \A l \in D : p[l] = c[l] +
                   (IF Cardinality({m \in D : r[m] > r[l] \/ (r[m] = r[l] /\ m < l)})
                          < d - Sum(c) THEN 1 ELSE 0)
             => /\ Sum(p) = d
                /\ d <= Sum(raw) => \A l \in D : p[l] \in 0..raw[l]
      BY <2>1, <3>1, LargestRemainders
    <3> QED BY <2>2, <3>2, <3>3
  <2> QED BY <2>1, <2>4
<1>8. ASSUME NEW i \in D PROVE Allocated(held, i) = part[i]
  <2>1. [j \in D |-> (d * held.lines[j].amount) \div s] = cents
    BY <1>3, <1>4, <1>5
  <2>2. {j \in D : \/ (d * held.lines[j].amount) % s > (d * held.lines[i].amount) % s
                   \/ /\ (d * held.lines[j].amount) % s = (d * held.lines[i].amount) % s
                      /\ j < i} = Ahead(i)
    <3>1. \A j \in D : (d * held.lines[j].amount) % s = rest[j]
      BY <1>3, <1>4, <1>5
    <3> QED BY <3>1
  <2>3. (d * held.lines[i].amount) \div s = cents[i]
    BY <1>3, <1>4, <1>5
  <2>4. part[i] = cents[i] + (IF Cardinality(Ahead(i)) < d - Sum(cents) THEN 1 ELSE 0)
    BY <1>6
  <2> HIDE DEF Ahead
  <2> QED BY <1>0, <2>1, <2>2, <2>3, <2>4 DEF Allocated
<1>9. Discounts(held) = part
  <2>1. Discounts(held) = [i \in D |-> part[i]]
    BY <1>0, <1>8 DEF Discounts
  <2> QED BY <2>1
<1>10. ASSUME NEW i \in D
       PROVE  Allocated(held, i) \in Int /\ Allocated(held, i) \in 0..held.lines[i].amount
  BY <1>3, <1>4, <1>7, <1>8
<1> QED BY <1>0, <1>7, <1>9, <1>10

\* Math.round leaves the vendor his part: the house takes nothing below zero and
\* never more than there is.
LEMMA ShareIsPart ==
    ASSUME NEW v \in Vendors, NEW line, NEW gross \in Nat
    PROVE  Credit(v, line, gross).share \in 0..gross
<1>1. PICK b \in 0..10000 : b = ShareBps[v]
  BY VendorConstants
<1>2. PICK n \in Nat : n = gross * b
  OBVIOUS
<1>3. n <= gross * 10000
  <2>1. gross * b <= gross * 10000
    OBVIOUS
  <2> QED BY <1>2, <2>1
<1>4. 2 * gross * b = 2 * n
  <2>1. \A x, y \in Int : 2 * x * y = 2 * (x * y)
    BY ONLY TRUE
  <2> QED BY <1>2, <2>1
<1>5. (2 * n + 10000) \div 20000 \in 0..gross
  BY <1>3
<1>6. Credit(v, line, gross).share = (2 * gross * ShareBps[v] + 10000) \div 20000
  BY DEF Credit
<1>7. 2 * gross * ShareBps[v] = 2 * n
  BY <1>1, <1>4
<1> QED BY ONLY <1>5, <1>6, <1>7

-----------------------------------------------------------------------------
(* Vendors: what holds of every statement and of every one being made.     *)

StatementStatuses == {"none", "draft", "reviewing", "approved", "paid"}
SaleRows == [edition : Nat, held : HeldRows, paid : BOOLEAN, fallen : BOOLEAN]
ItemRows == [line : Orders \X (Nat \ {0}) \X Nat, gross : Nat, share : Int, payable : Int]
StatementRows == [status : StatementStatuses, items : SUBSET ItemRows]

\* The item is what its line, as the order holds it now, is to be credited with.
Fits(v, x) ==
    LET now == sale[x.line[1]] IN
    /\ Subtotal(now.held) > 0 /\ now.held.discount <= Subtotal(now.held)
    /\ \E i \in Places(now.held.lines) :
          /\ now.held.lines[i].vendor = v
          /\ x = Credit(v, <<x.line[1], now.edition, i>>,
                        now.held.lines[i].amount - Allocated(now.held, i))
\* An item on its way: of a line that is gone, or right, or knowingly misread.
Fresh(v, x, wrong) ==
    /\ x.line[2] <= sale[x.line[1]].edition
    /\ x.line[2] = sale[x.line[1]].edition /\ x.line[1] \notin wrong => Fits(v, x)

VendorTypes == sale \in [Orders -> SaleRows] /\ statement \in [Vendors -> StatementRows]
DraftOK(v) ==
    \/ draft[v] = NoDraft
    \/ \E seen : /\ draft[v] = [stage |-> "orders", seen |-> seen]
                 /\ DOMAIN seen \subseteq Sold
                 /\ \A o \in DOMAIN seen : seen[o].discount \in Nat
    \/ \E items \in SUBSET ItemRows, wrong \in SUBSET Orders :
          /\ draft[v] = [stage |-> "lines", items |-> items, misread |-> wrong]
          /\ \A x \in items : Fresh(v, x, wrong)
DraftsOK == DOMAIN draft = Vendors /\ \A v \in Vendors : DraftOK(v)
StatementOK(v) ==
    \A x \in statement[v].items :
       /\ x.line \in LinesOf(x.line[1])
       /\ x.line[1] \notin misread => Fits(v, x)
StatementsOK == \A v \in Vendors : StatementOK(v)
VendorInv == VendorTypes /\ DraftsOK /\ StatementsOK

LEMMA InitVendor == VendorInit => VendorInv
<1> SUFFICES ASSUME VendorInit PROVE VendorInv
  OBVIOUS
<1>1. NotSold \in SaleRows
  <2>1. Empty \in HeldRows
    BY HeldIsTyped
  <2> QED BY <2>1 DEF NotSold, SaleRows
<1>2. NoStatement \in StatementRows
  BY DEF NoStatement, StatementRows, StatementStatuses
<1>3. VendorTypes
  BY <1>1, <1>2 DEF VendorInit, VendorTypes
<1>4. DraftsOK
  BY DEF VendorInit, DraftsOK, DraftOK
<1>5. StatementsOK
  BY DEF VendorInit, StatementsOK, StatementOK, NoStatement
<1> QED BY <1>3, <1>4, <1>5 DEF VendorInv

\* What is credited for the lines of an order that has not been written since is
\* the same afterwards.
LEMMA FitsStays ==
    ASSUME NEW v, NEW x, NEW o, x.line[1] = o,
           sale'[o].edition = sale[o].edition, sale'[o].held = sale[o].held
    PROVE  (Fits(v, x) => Fits(v, x)') /\ LinesOf(o)' = LinesOf(o)
<1>1. PICK h, e : /\ h = sale[o].held /\ h = sale'[o].held
                  /\ e = sale[o].edition /\ e = sale'[o].edition
  OBVIOUS
<1>2. Fits(v, x) <=> /\ Subtotal(h) > 0 /\ h.discount <= Subtotal(h)
                     /\ \E i \in Places(h.lines) :
                           /\ h.lines[i].vendor = v
                           /\ x = Credit(v, <<o, e, i>>, h.lines[i].amount - Allocated(h, i))
  BY <1>1, Zenon DEF Fits
<1>3. Fits(v, x)' <=> /\ Subtotal(h) > 0 /\ h.discount <= Subtotal(h)
                      /\ \E i \in Places(h.lines) :
                            /\ h.lines[i].vendor = v
                            /\ x = Credit(v, <<o, e, i>>, h.lines[i].amount - Allocated(h, i))
  BY <1>1, Zenon DEF Fits
<1>4. LinesOf(o)' = LinesOf(o)
  BY <1>1, Zenon DEF LinesOf
<1> QED BY <1>2, <1>3, <1>4, Zenon

\* Orders that are written are so with a new edition, and then no statement has
\* one of their lines.
Rewritten(o) ==
    /\ sale'[o].edition > sale[o].edition
    /\ \A v \in Vendors : \A x \in statement[v].items : x.line[1] # o
LEMMA OrdersChange ==
    ASSUME VendorInv, VendorTypes', UNCHANGED <<statement, draft, misread>>,
           \A o \in Orders : \/ Rewritten(o)
                             \/ /\ sale'[o].edition = sale[o].edition
                                /\ sale'[o].held = sale[o].held
    PROVE  VendorInv'
<1>1. /\ sale \in [Orders -> SaleRows] /\ sale' \in [Orders -> SaleRows]
      /\ statement \in [Vendors -> StatementRows]
  BY DEF VendorInv, VendorTypes
<1>2. \A o \in Orders : sale[o].edition \in Nat /\ sale'[o].edition \in Nat
  BY <1>1 DEF SaleRows
<1>3. \A x \in ItemRows : x.line[1] \in Orders /\ x.line[2] \in Nat
  BY DEF ItemRows
<1>4. \A o \in Orders : sale[o].edition <= sale'[o].edition
  BY <1>2 DEF Rewritten
<1>5. Sold \subseteq Sold'
  BY <1>2, <1>4 DEF Sold
<1>6. StatementsOK'
  <2> SUFFICES ASSUME NEW v \in Vendors, NEW x \in statement[v].items
               PROVE  /\ x.line \in LinesOf(x.line[1])'
                      /\ x.line[1] \notin misread => Fits(v, x)'
    BY DEF StatementsOK, StatementOK
  <2>1. PICK o \in Orders : o = x.line[1]
    <3>1. x \in ItemRows
      BY <1>1 DEF StatementRows
    <3> QED BY <1>3, <3>1
  <2>2. x.line \in LinesOf(o) /\ (o \notin misread => Fits(v, x))
    BY <2>1 DEF VendorInv, StatementsOK, StatementOK
  <2>3. sale'[o].edition = sale[o].edition /\ sale'[o].held = sale[o].held
    BY <2>1 DEF Rewritten
  <2>4. (Fits(v, x) => Fits(v, x)') /\ LinesOf(o)' = LinesOf(o)
    BY <2>1, <2>3, FitsStays
  <2> QED BY <2>1, <2>2, <2>4, Zenon
<1>7. DraftsOK'
  <2>1. DOMAIN draft' = Vendors
    BY DEF VendorInv, DraftsOK
  <2>2. ASSUME NEW v \in Vendors PROVE DraftOK(v)'
    <3>1. DraftOK(v) /\ draft'[v] = draft[v]
      BY DEF VendorInv, DraftsOK
    <3>2. CASE draft[v] = NoDraft
      BY <3>1, <3>2 DEF DraftOK
    <3>3. ASSUME NEW seen, draft[v] = [stage |-> "orders", seen |-> seen],
                 DOMAIN seen \subseteq Sold, \A o \in DOMAIN seen : seen[o].discount \in Nat
          PROVE  DraftOK(v)'
      <4>1. DOMAIN seen \subseteq Sold'
        BY <1>5, <3>3
      <4> QED BY ONLY <3>1, <3>3, <4>1, Zenon DEF DraftOK
    <3>4. ASSUME NEW items \in SUBSET ItemRows, NEW wrong \in SUBSET Orders,
                 draft[v] = [stage |-> "lines", items |-> items, misread |-> wrong],
                 \A x \in items : Fresh(v, x, wrong)
          PROVE  DraftOK(v)'
      <4>1. ASSUME NEW x \in items PROVE Fresh(v, x, wrong)'
        <5>1. PICK o \in Orders : o = x.line[1] /\ x.line[2] \in Nat
          BY <1>3
        <5>2. /\ x.line[2] <= sale[o].edition
              /\ x.line[2] = sale[o].edition /\ o \notin wrong => Fits(v, x)
          BY <3>4, <5>1 DEF Fresh
        <5>3. x.line[2] <= sale'[o].edition
          BY <1>2, <1>4, <5>1, <5>2
        <5>4. ASSUME x.line[2] = sale'[o].edition, o \notin wrong PROVE Fits(v, x)'
          <6>1. x.line[2] = sale[o].edition /\ sale'[o].edition = sale[o].edition
            BY <1>2, <1>4, <5>1, <5>2, <5>4
          <6>2. sale'[o].held = sale[o].held
            BY <1>2, <6>1 DEF Rewritten
          <6>3. Fits(v, x)
            BY <5>2, <5>4, <6>1
          <6> QED BY <5>1, <6>1, <6>2, <6>3, FitsStays
        <5> QED BY <5>1, <5>3, <5>4 DEF Fresh
      <4> QED BY ONLY <3>1, <3>4, <4>1, items \in SUBSET ItemRows, wrong \in SUBSET Orders, Zenon
              DEF DraftOK
    <3> QED BY <3>1, <3>2, <3>3, <3>4 DEF DraftOK
  <2> QED BY <2>1, <2>2 DEF DraftsOK
<1> QED BY <1>6, <1>7 DEF VendorInv

LEMMA SellKeeps ==
    ASSUME VendorInv, NEW o \in Orders, NEW held \in Contents, NEW paid \in BOOLEAN,
           Sell(o, held, paid)
    PROVE  VendorInv'
<1>1. sale \in [Orders -> SaleRows] /\ statement \in [Vendors -> StatementRows]
  BY DEF VendorInv, VendorTypes
<1>2. PICK row \in SaleRows : /\ row = [edition |-> 1, held |-> held, paid |-> paid, fallen |-> FALSE]
                              /\ row.edition = 1
  <2>1. held \in HeldRows
    BY HeldIsTyped
  <2>2. [edition |-> 1, held |-> held, paid |-> paid, fallen |-> FALSE] \in SaleRows
    BY <2>1 DEF SaleRows
  <2> QED BY <2>2
<1>3. sale' = [sale EXCEPT ![o] = row] /\ sale[o].edition = 0
  BY <1>2 DEF Sell
<1>4. UNCHANGED <<statement, draft, misread>>
  BY DEF Sell
<1>5. VendorTypes'
  BY ONLY <1>1, <1>2, <1>3, <1>4, o \in Orders DEF VendorTypes
<1>6. ASSUME NEW v \in Vendors, NEW x \in statement[v].items PROVE x.line[1] # o
  <2>1. x \in ItemRows
    BY <1>1 DEF StatementRows
  <2>2. x.line \in LinesOf(x.line[1])
    BY DEF VendorInv, StatementsOK, StatementOK
  <2>3. x.line[2] = sale[x.line[1]].edition
    BY <2>2 DEF LinesOf
  <2>4. x.line[2] \in Nat \ {0}
    BY <2>1 DEF ItemRows
  <2> QED BY <1>3, <2>3, <2>4
<1>7. \A p \in Orders : p # o => sale'[p] = sale[p]
  BY <1>1, <1>3
<1>8. Rewritten(o)
  BY <1>1, <1>2, <1>3, <1>6 DEF Rewritten
<1> QED BY <1>4, <1>5, <1>7, <1>8, OrdersChange

LEMMA EditKeeps ==
    ASSUME VendorInv, NEW o \in Orders, NEW held \in Contents, NEW paid \in BOOLEAN,
           EditSale(o, held, paid)
    PROVE  VendorInv'
<1>1. sale \in [Orders -> SaleRows] /\ statement \in [Vendors -> StatementRows]
  BY DEF VendorInv, VendorTypes
<1>2. sale[o].edition \in Nat /\ sale[o].fallen \in BOOLEAN
  BY <1>1 DEF SaleRows
<1>3. PICK row \in SaleRows :
         /\ row = [edition |-> sale[o].edition + 1, held |-> held,
                   paid |-> paid, fallen |-> sale[o].fallen]
         /\ row.edition = sale[o].edition + 1
  <2>1. held \in HeldRows
    BY HeldIsTyped
  <2>2. [edition |-> sale[o].edition + 1, held |-> held,
         paid |-> paid, fallen |-> sale[o].fallen] \in SaleRows
    BY <1>2, <2>1 DEF SaleRows
  <2> QED BY <2>2
<1>4. sale' = [sale EXCEPT ![o] = row] /\ LinesFree(o)
  BY <1>3 DEF EditSale
<1>5. UNCHANGED <<statement, draft, misread>>
  BY DEF EditSale
<1>6. VendorTypes'
  BY ONLY <1>1, <1>3, <1>4, <1>5, o \in Orders DEF VendorTypes
<1>7. ASSUME NEW v \in Vendors, NEW x \in statement[v].items PROVE x.line[1] # o
  <2>1. x.line \in LinesOf(x.line[1]) /\ x \in Items
    BY DEF VendorInv, StatementsOK, StatementOK, Items
  <2> QED BY <1>4, <2>1 DEF LinesFree
<1>8. \A p \in Orders : p # o => sale'[p] = sale[p]
  BY <1>1, <1>4
<1>9. Rewritten(o)
  BY <1>1, <1>2, <1>3, <1>4, <1>7 DEF Rewritten
<1> QED BY <1>5, <1>6, <1>8, <1>9, OrdersChange

LEMMA StatusKeeps ==
    ASSUME VendorInv, NEW o \in Orders, SetStatus(o)
    PROVE  VendorInv'
<1>1. sale \in [Orders -> SaleRows] /\ statement \in [Vendors -> StatementRows]
  BY DEF VendorInv, VendorTypes
<1>2. \A p \in Orders : /\ sale'[p].edition = sale[p].edition
                        /\ sale'[p].held = sale[p].held
  BY <1>1 DEF SetStatus, SaleRows
<1>3. sale' \in [Orders -> SaleRows]
  <2>1. sale[o].paid \in BOOLEAN /\ sale[o].fallen \in BOOLEAN /\ sale[o] \in SaleRows
    BY <1>1 DEF SaleRows
  <2>2. [sale[o] EXCEPT !.paid = ~@] \in SaleRows /\ [sale[o] EXCEPT !.fallen = ~@] \in SaleRows
    BY <2>1 DEF SaleRows
  <2> QED BY <1>1, <2>2 DEF SetStatus
<1>4. UNCHANGED <<statement, draft, misread>>
  BY DEF SetStatus
<1>5. VendorTypes'
  BY <1>1, <1>3, <1>4 DEF VendorTypes
<1> QED BY <1>2, <1>4, <1>5, OrdersChange

\* While the orders are as they are, only the draft and the statement of one
\* vendor change.
LEMMA DraftChanges ==
    ASSUME VendorInv, NEW v \in Vendors, NEW d, draft' = [draft EXCEPT ![v] = d],
           UNCHANGED <<sale, statement, misread>>, DraftOK(v)'
    PROVE  VendorInv'
<1>1. \A o \in Orders : sale'[o].edition = sale[o].edition /\ sale'[o].held = sale[o].held
  OBVIOUS
<1>2. Sold' = Sold
  BY DEF Sold
<1>3. ASSUME NEW w, NEW x PROVE Fits(w, x)' = Fits(w, x)
  BY DEF Fits
<1>4. ASSUME NEW w, NEW x, NEW wrong PROVE Fresh(w, x, wrong)' = Fresh(w, x, wrong)
  BY <1>3 DEF Fresh
<1>5. VendorTypes'
  BY DEF VendorInv, VendorTypes
<1>6. StatementsOK'
  BY <1>3 DEF VendorInv, StatementsOK, StatementOK, LinesOf
<1>7. ASSUME NEW w \in Vendors, w # v PROVE DraftOK(w)'
  <2>1. DraftOK(w) /\ draft'[w] = draft[w]
    BY <1>7 DEF VendorInv, DraftsOK
  <2> QED BY <1>2, <1>4, <2>1 DEF DraftOK
<1>8. DOMAIN draft' = Vendors
  BY DEF VendorInv, DraftsOK
<1> QED BY <1>5, <1>6, <1>7, <1>8 DEF VendorInv, DraftsOK

LEMMA DraftOrdersKeeps ==
    ASSUME VendorInv, NEW v \in Vendors, DraftOrders(v)
    PROVE  VendorInv'
<1> DEFINE found == {o \in Sold : \E i \in Places(sale[o].held.lines) :
                                     sale[o].held.lines[i].vendor = v}
           seen == [o \in found |-> Header(o)]
<1>1. sale \in [Orders -> SaleRows] /\ DOMAIN draft = Vendors
  BY DEF VendorInv, VendorTypes, DraftsOK
<1>2. /\ draft' = [draft EXCEPT ![v] = [stage |-> "orders", seen |-> seen]]
      /\ UNCHANGED <<sale, statement, misread>>
  BY DEF DraftOrders
<1>3. draft'[v] = [stage |-> "orders", seen |-> seen]
  BY <1>1, <1>2
<1>4. \A o \in found : sale[o].held.discount \in Nat
  BY <1>1 DEF Sold, SaleRows, HeldRows
<1>5. DOMAIN seen \subseteq Sold'
  BY <1>2 DEF Sold
<1>6. \A o \in DOMAIN seen : seen[o].discount \in Nat
  BY <1>4 DEF Header
<1> HIDE DEF seen
<1>7. DraftOK(v)'
  BY ONLY <1>3, <1>5, <1>6, Zenon DEF DraftOK
<1> QED BY <1>2, <1>7, DraftChanges

LEMMA DraftFailsKeeps ==
    ASSUME VendorInv, NEW v \in Vendors, DraftFails(v)
    PROVE  VendorInv'
<1>1. draft' = [draft EXCEPT ![v] = NoDraft] /\ UNCHANGED <<sale, statement, misread>>
  BY DEF DraftFails
<1>2. DOMAIN draft = Vendors
  BY DEF VendorInv, DraftsOK
<1>3. DraftOK(v)'
  BY <1>1, <1>2 DEF DraftOK
<1> QED BY <1>1, <1>3, DraftChanges

\* What a line is credited with is an item, whatever discount was read for it.
LEMMA CreditIsItem ==
    ASSUME NEW v \in Vendors, NEW o \in Orders, NEW e \in Nat \ {0}, NEW i \in Nat,
           NEW gross \in Nat
    PROVE  /\ Credit(v, <<o, e, i>>, gross) \in ItemRows
           /\ Credit(v, <<o, e, i>>, gross).line = <<o, e, i>>
           /\ Credit(v, <<o, e, i>>, gross).gross = gross
<1>1. PICK share \in 0..gross : share = Credit(v, <<o, e, i>>, gross).share
  BY ShareIsPart
<1>2. Credit(v, <<o, e, i>>, gross) =
        [line |-> <<o, e, i>>, gross |-> gross, share |-> share, payable |-> gross - share]
  <2>1. share = (2 * gross * ShareBps[v] + 10000) \div 20000
    BY <1>1 DEF Credit
  <2> QED BY <2>1 DEF Credit
<1>3. share \in Int /\ gross - share \in Int /\ <<o, e, i>> \in Orders \X (Nat \ {0}) \X Nat
  BY <1>1
<1> QED BY <1>2, <1>3 DEF ItemRows

LEMMA DraftLinesKeeps ==
    ASSUME VendorInv, NEW v \in Vendors, DraftLines(v)
    PROVE  VendorInv'
<1>1. sale \in [Orders -> SaleRows] /\ DOMAIN draft = Vendors /\ DraftOK(v)
  BY DEF VendorInv, VendorTypes, DraftsOK
<1>2. PICK seen : /\ draft[v].seen = seen /\ DOMAIN seen \subseteq Sold
                  /\ \A o \in DOMAIN seen : seen[o].discount \in Nat
  <2>1. draft[v].stage = "orders"
    BY DEF DraftLines
  <2> QED BY <1>1, <2>1 DEF DraftOK, NoDraft
<1>3. PICK items, wrong :
         /\ items = UNION {CreditsOf(v, seen, o) : o \in DOMAIN seen}
         /\ wrong = {o \in DOMAIN seen : seen[o].discount # sale[o].held.discount}
  OBVIOUS
<1>4. /\ draft' = [draft EXCEPT ![v] = [stage |-> "lines", items |-> items, misread |-> wrong]]
      /\ UNCHANGED <<sale, statement, misread>>
      /\ \A o \in DOMAIN seen : Safe(seen, o)
  BY <1>2, <1>3 DEF DraftLines
<1>5. draft'[v] = [stage |-> "lines", items |-> items, misread |-> wrong]
  BY <1>1, <1>4
<1>6. wrong \in SUBSET Orders
  BY <1>2, <1>3 DEF Sold
<1>7. ASSUME NEW x \in items
      PROVE  x \in ItemRows /\ Fresh(v, x, wrong)
  <2>1. PICK o \in DOMAIN seen : x \in CreditsOf(v, seen, o)
    BY <1>3
  <2>2. PICK h : h = Mixed(seen, o)
    OBVIOUS
  <2>3. o \in Orders /\ sale[o] \in SaleRows /\ sale[o].edition \in Nat \ {0}
        /\ sale[o].held \in HeldRows
    BY <1>1, <1>2, <2>1 DEF Sold, SaleRows
  <2>4. h \in HeldRows /\ h.discount = seen[o].discount /\ h.lines = sale[o].held.lines
    BY <1>2, <2>2, <2>3 DEF Mixed, HeldRows
  <2>5. Subtotal(h) > 0 /\ h.discount <= Subtotal(h)
    <3>1. Safe(seen, o)
      BY <1>4
    <3> QED BY <2>2, <2>4, <3>1 DEF Safe
  <2>6. PICK i \in Places(h.lines) :
           /\ h.lines[i].vendor = v
           /\ x = Credit(v, <<o, sale[o].edition, i>>, h.lines[i].amount - Allocated(h, i))
    BY <2>1, <2>2 DEF CreditsOf
  <2>7. PICK gross \in Nat : gross = h.lines[i].amount - Allocated(h, i)
    <3>1. h.lines[i].amount \in Nat
      BY <2>4, PlacesAreNumbers DEF LineRows
    <3>2. Allocated(h, i) \in 0..h.lines[i].amount
      BY <2>4, <2>5, DiscountIsAllocated
    <3> QED BY <3>1, <3>2
  <2>8. i \in Nat
    BY <2>4, PlacesAreNumbers
  <2>9. x \in ItemRows /\ x.line = <<o, sale[o].edition, i>>
    BY <2>3, <2>6, <2>7, <2>8, CreditIsItem
  <2>10. x.line[1] = o /\ x.line[2] = sale[o].edition
    BY <2>9
  <2>11. ASSUME o \notin wrong PROVE Fits(v, x)
    <3>1. h.discount = sale[o].held.discount
      BY <1>3, <2>4, <2>11
    <3>2. h = sale[o].held
      BY <2>3, <2>4, <3>1 DEF HeldRows
    <3> QED BY <2>5, <2>6, <2>10, <3>2 DEF Fits
  <2> QED BY <2>3, <2>9, <2>10, <2>11 DEF Fresh
<1>8. items \in SUBSET ItemRows
  BY <1>7
<1>9. DraftOK(v)'
  <2>1. \A x \in items : Fresh(v, x, wrong)'
    <3>1. ASSUME NEW x PROVE Fresh(v, x, wrong)' = Fresh(v, x, wrong)
      BY <1>4 DEF Fresh, Fits
    <3> QED BY <1>7, <3>1
  <2> QED BY ONLY <1>5, <1>6, <1>8, <2>1, Zenon DEF DraftOK
<1> QED BY <1>4, <1>9, DraftChanges

LEMMA DraftWriteKeeps ==
    ASSUME VendorInv, NEW v \in Vendors, DraftWrite(v)
    PROVE  VendorInv'
<1>1. /\ sale \in [Orders -> SaleRows] /\ statement \in [Vendors -> StatementRows]
      /\ DOMAIN draft = Vendors /\ DraftOK(v)
  BY DEF VendorInv, VendorTypes, DraftsOK
<1>2. PICK items \in SUBSET ItemRows, wrong \in SUBSET Orders :
         /\ draft[v] = [stage |-> "lines", items |-> items, misread |-> wrong]
         /\ draft[v].items = items /\ draft[v].misread = wrong
         /\ \A x \in items : Fresh(v, x, wrong)
  <2>1. draft[v].stage = "lines"
    BY DEF DraftWrite
  <2> QED BY <1>1, <2>1 DEF DraftOK, NoDraft
<1>3. PICK row \in StatementRows : row = [status |-> "draft", items |-> items] /\ row.items = items
  <2>1. [status |-> "draft", items |-> items] \in StatementRows
    BY DEF StatementRows, StatementStatuses
  <2> QED BY <2>1
<1>4. /\ statement' = [statement EXCEPT ![v] = row]
      /\ misread' = misread \cup (wrong \cap {l[1] : l \in {x.line : x \in items}})
      /\ draft' = [draft EXCEPT ![v] = NoDraft] /\ sale' = sale
      /\ \A x \in items : x.line \in LinesOf(x.line[1])
  BY <1>2, <1>3 DEF DraftWrite
<1>5. ASSUME NEW w, NEW x PROVE Fits(w, x)' = Fits(w, x)
  BY <1>4 DEF Fits
<1>6. ASSUME NEW w, NEW x, NEW bad PROVE Fresh(w, x, bad)' = Fresh(w, x, bad)
  BY <1>4, <1>5 DEF Fresh
<1>7. VendorTypes'
  BY ONLY <1>1, <1>3, <1>4, v \in Vendors DEF VendorTypes
<1>8. DraftsOK'
  <2>1. ASSUME NEW w \in Vendors PROVE DraftOK(w)'
    <3>1. CASE w = v
      BY <1>1, <1>4, <3>1 DEF DraftOK
    <3>2. CASE w # v
      <4>1. DraftOK(w) /\ draft'[w] = draft[w]
        BY <1>4, <3>2 DEF VendorInv, DraftsOK
      <4>2. Sold' = Sold
        BY <1>4 DEF Sold
      <4> QED BY <1>6, <4>1, <4>2 DEF DraftOK
    <3> QED BY <3>1, <3>2
  <2> QED BY <1>1, <1>4, <2>1 DEF DraftsOK
<1>9. ASSUME NEW w \in Vendors, NEW x \in statement'[w].items
      PROVE  /\ x.line \in LinesOf(x.line[1])'
             /\ x.line[1] \notin misread' => Fits(w, x)'
  <2>0. LinesOf(x.line[1])' = LinesOf(x.line[1])
    BY <1>4 DEF LinesOf
  <2>1. CASE w # v
    <3>1. x \in statement[w].items
      BY <1>1, <1>4, <2>1
    <3>2. x.line \in LinesOf(x.line[1]) /\ (x.line[1] \notin misread => Fits(w, x))
      BY <3>1 DEF VendorInv, StatementsOK, StatementOK
    <3> QED BY <1>4, <1>5, <2>0, <3>2
  <2>2. CASE w = v
    <3>1. x \in items
      BY <1>1, <1>3, <1>4, <2>2
    <3>2. x.line \in LinesOf(x.line[1]) /\ Fresh(v, x, wrong)
      BY <1>2, <1>4, <3>1
    <3>3. x.line[2] = sale[x.line[1]].edition
      BY <3>2 DEF LinesOf
    <3>4. x.line[1] \notin misread' => x.line[1] \notin wrong
      BY <1>4, <3>1
    <3> QED BY <1>5, <2>0, <2>2, <3>2, <3>3, <3>4 DEF Fresh
  <2> QED BY <2>1, <2>2
<1>10. StatementsOK'
  BY <1>9 DEF StatementsOK, StatementOK
<1> QED BY <1>7, <1>8, <1>10 DEF VendorInv

LEMMA MoveStatementKeeps ==
    ASSUME VendorInv, NEW v \in Vendors, NEW next \in {"draft", "reviewing", "approved", "paid"},
           MoveStatement(v, next)
    PROVE  VendorInv'
<1>1. /\ sale \in [Orders -> SaleRows] /\ statement \in [Vendors -> StatementRows]
  BY DEF VendorInv, VendorTypes
<1>2. /\ statement' = [statement EXCEPT ![v].status = next]
      /\ sale' = sale /\ draft' = draft /\ misread' = misread
  BY DEF MoveStatement
<1>3. statement' \in [Vendors -> StatementRows]
  <2>1. [statement[v] EXCEPT !.status = next] \in StatementRows
    BY <1>1 DEF StatementRows, StatementStatuses
  <2> QED BY <1>1, <1>2, <2>1
<1>4. \A w \in Vendors : statement'[w].items = statement[w].items
  BY <1>1, <1>2 DEF StatementRows
<1>5. ASSUME NEW w, NEW x PROVE Fits(w, x)' = Fits(w, x)
  BY <1>2 DEF Fits
<1>6. StatementsOK'
  BY <1>2, <1>4, <1>5 DEF VendorInv, StatementsOK, StatementOK, LinesOf
<1>7. DraftsOK'
  BY <1>2, <1>5 DEF VendorInv, DraftsOK, DraftOK, Fresh, Sold
<1> QED BY <1>1, <1>2, <1>3, <1>6, <1>7 DEF VendorInv, VendorTypes

LEMMA NextVendor == VendorInv /\ [VendorNext]_vendorVars => VendorInv'
<1> SUFFICES ASSUME VendorInv, [VendorNext]_vendorVars PROVE VendorInv'
  OBVIOUS
<1>1. ASSUME NEW o \in Orders, SetStatus(o) PROVE VendorInv'
  BY <1>1, StatusKeeps
<1>2. ASSUME NEW o \in Orders, NEW held \in Contents, NEW paid \in BOOLEAN,
             Sell(o, held, paid) \/ EditSale(o, held, paid)
      PROVE  VendorInv'
  BY <1>2, SellKeeps, EditKeeps
<1>3. ASSUME NEW v \in Vendors, DraftOrders(v) \/ DraftLines(v) \/ DraftWrite(v) \/ DraftFails(v)
      PROVE  VendorInv'
  BY <1>3, DraftOrdersKeeps, DraftLinesKeeps, DraftWriteKeeps, DraftFailsKeeps
<1>4. ASSUME NEW v \in Vendors, NEW next \in {"draft", "reviewing", "approved", "paid"},
             MoveStatement(v, next)
      PROVE  VendorInv'
  BY <1>4, MoveStatementKeeps
<1>5. CASE UNCHANGED vendorVars
  <2>1. sale' = sale /\ statement' = statement /\ draft' = draft /\ misread' = misread
    BY <1>5 DEF vendorVars
  <2>2. ASSUME NEW w, NEW x PROVE Fits(w, x)' = Fits(w, x)
    BY <2>1 DEF Fits
  <2>3. StatementsOK'
    BY <2>1, <2>2 DEF VendorInv, StatementsOK, StatementOK, LinesOf
  <2>4. DraftsOK'
    BY <2>1, <2>2 DEF VendorInv, DraftsOK, DraftOK, Fresh, Sold
  <2> QED BY <2>1, <2>3, <2>4 DEF VendorInv, VendorTypes
<1> QED BY <1>1, <1>2, <1>3, <1>4, <1>5 DEF VendorNext

\* What is not taken of some part of a whole is no more than the rest is worth.
LEMMA PartAndRest ==
    ASSUME NEW D, IsFiniteSet(D), NEW net \in [D -> Nat], NEW amount \in [D -> Nat],
           \A i \in D : net[i] <= amount[i],
           NEW P \in SUBSET D, NEW Q \in SUBSET D, Q = D \ P
    PROVE  \A part \in [P -> Int] : \A bill \in [Q -> Int] :
              (\A i \in P : part[i] = net[i]) /\ (\A i \in Q : bill[i] = amount[i])
              => Sum(net) - Sum(part) \in 0..Sum(bill)
<1> SUFFICES ASSUME NEW part \in [P -> Int], NEW bill \in [Q -> Int],
                    \A i \in P : part[i] = net[i], \A i \in Q : bill[i] = amount[i]
             PROVE  Sum(net) - Sum(part) \in 0..Sum(bill)
  OBVIOUS
<1>1. PICK whole \in [D -> Int] : whole = net
  OBVIOUS
<1>2. PICK in \in [D -> Int] : \A i \in D : in[i] = IF i \in P THEN whole[i] ELSE 0
  <2>1. [i \in D |-> IF i \in P THEN whole[i] ELSE 0] \in [D -> Int]
    OBVIOUS
  <2> QED BY <2>1
<1>3. PICK out \in [D -> Nat] : \A i \in D : out[i] = IF i \in P THEN 0 ELSE net[i]
  <2>1. [i \in D |-> IF i \in P THEN 0 ELSE net[i]] \in [D -> Nat]
    OBVIOUS
  <2> QED BY <2>1
<1>4. PICK bound \in [D -> Int] : \A i \in D : bound[i] = IF i \in Q THEN amount[i] ELSE 0
  <2>1. [i \in D |-> IF i \in Q THEN amount[i] ELSE 0] \in [D -> Int]
    OBVIOUS
  <2> QED BY <2>1
<1>5. out \in [D -> Int] /\ \A i \in D : net[i] \in Nat
  OBVIOUS
<1>6. Sum(whole) = Sum(in) + Sum(out)
  <2>1. \A i \in D : whole[i] = in[i] + out[i]
    BY <1>1, <1>2, <1>3, <1>5
  <2>2. \A f, h, k \in [D -> Int] :
           (\A x \in D : k[x] = f[x] + h[x]) => Sum(k) = Sum(f) + Sum(h)
    BY SumOfSums
  <2> QED BY <1>5, <2>1, <2>2
<1>7. \A T \in SUBSET D : \A f \in [D -> Int] : \A h \in [T -> Int] :
         (\A x \in T : h[x] = f[x]) /\ (\A x \in D \ T : f[x] = 0) => Sum(h) = Sum(f)
  BY ONLY IsFiniteSet(D), SumOfSupport
<1>8. Sum(part) = Sum(in)
  BY <1>1, <1>2, <1>7
<1>9. Sum(bill) = Sum(bound)
  <2>1. \A i \in D \ Q : bound[i] = 0
    BY <1>4
  <2>2. \A i \in Q : bill[i] = bound[i]
    BY <1>4
  <2> QED BY <1>7, <2>1, <2>2
<1>10. Sum(out) \in Nat /\ Sum(out) <= Sum(bound)
  <2>1. \A i \in D : out[i] <= bound[i]
    BY <1>3, <1>4
  <2> QED BY <1>5, <2>1, SumIsNatural, SumIsMonotone
<1>11. Sum(in) \in Int /\ Sum(bound) \in Int
  BY SumOfInts
<1> QED BY <1>1, <1>6, <1>8, <1>9, <1>10, <1>11

LEMMA SumOfImages ==
    ASSUME NEW S, IsFiniteSet(S), NEW T, NEW b \in Bijection(S, T),
           NEW f \in [T -> Int], NEW h \in [S -> Int], \A x \in S : h[x] = f[b[x]]
    PROVE  Sum(h) = Sum(f)
BY SumReindexed

\* The credits of an order and the amounts of its other lines, less their part of
\* the discount, are the total.
LEMMA CreditsAddUp ==
    ASSUME VendorInv, NEW o \in Sold \ misread
    PROVE  LET held == sale[o].held
               credited == ItemsOf(o)
               open == {i \in Places(held.lines) : \A x \in credited : x.line[3] # i}
               rest == Subtotal(held) - held.discount - Sum([x \in credited |-> x.gross])
           IN /\ \A x \in credited : x.line \in LinesOf(o) /\ 0 <= x.share /\ x.share <= x.gross
              /\ credited # {} => rest \in 0..Amount(held.lines, open)
<1>0. PICK Mine : Mine = ItemsOf(o)
  OBVIOUS
<1>1. PICK h \in HeldRows, e \in Nat \ {0} : h = sale[o].held /\ e = sale[o].edition
  BY DEF VendorInv, VendorTypes, Sold, SaleRows
<1>2. PICK D : D = Places(h.lines) /\ IsFiniteSet(D)
  BY <1>1, PlacesAreNumbers
<1>o. o \in Orders
  BY DEF Sold
<1> DEFINE Credited(i) == Credit(h.lines[i].vendor, <<o, e, i>>,
                                 h.lines[i].amount - Allocated(h, i))
<1>3. ASSUME NEW x \in Mine
      PROVE  /\ Subtotal(h) > 0 /\ h.discount <= Subtotal(h)
             /\ x.line \in LinesOf(o)
             /\ \E i \in D : h.lines[i].vendor \in Vendors /\ x = Credited(i)
  <2>1. PICK v \in Vendors : x \in statement[v].items /\ x.line[1] = o
    BY <1>0 DEF ItemsOf, Items
  <2>2. x.line \in LinesOf(o) /\ Fits(v, x)
    BY <2>1 DEF VendorInv, StatementsOK, StatementOK
  <2> QED BY <1>1, <1>2, <2>1, <2>2 DEF Fits
<1>4. CASE Mine = {}
  BY <1>0, <1>1, <1>4
<1>5. CASE Mine # {}
  <2>1. Subtotal(h) > 0 /\ h.discount <= Subtotal(h) /\ h.discount \in Nat
    BY <1>1, <1>3, <1>5 DEF HeldRows
  <2>2. PICK amount \in [D -> Nat] : amount = Amounts(h) /\ Sum(amount) = Subtotal(h)
                                     /\ \A i \in D : amount[i] = h.lines[i].amount
    BY <1>1, <1>2, PlacesAreNumbers DEF Amounts
  <2>3. PICK off \in [D -> Int] : /\ \A i \in D : off[i] = Allocated(h, i) /\ off[i] \in 0..amount[i]
                                  /\ Sum(off) = h.discount
    BY <1>1, <1>2, <2>1, <2>2, DiscountIsAllocated DEF Discounts
  <2>4. PICK net \in [D -> Nat] : \A i \in D : net[i] = amount[i] - off[i]
    <3>1. [i \in D |-> amount[i] - off[i]] \in [D -> Nat]
      BY <2>3
    <3> QED BY <3>1
  <2>5. amount \in [D -> Int] /\ net \in [D -> Int] /\ Sum(net) \in Int /\ Sum(off) \in Int
    <3>1. amount \in [D -> Int] /\ net \in [D -> Int]
      OBVIOUS
    <3> QED BY <1>2, <3>1, SumOfInts
  <2>6. Subtotal(h) - h.discount = Sum(net)
    <3>1. \A i \in D : amount[i] = net[i] + off[i]
      BY <2>3, <2>4
    <3>2. Sum(amount) = Sum(net) + Sum(off)
      BY <1>2, <2>5, <3>1, SumOfSums
    <3> QED BY <2>2, <2>3, <2>5, <3>2
  <2>7. ASSUME NEW i \in D, h.lines[i].vendor \in Vendors
        PROVE  /\ Credited(i).line[3] = i /\ Credited(i).gross = net[i]
               /\ Credited(i).share \in 0..net[i]
    <3>1. h.lines[i].amount - Allocated(h, i) = net[i] /\ net[i] \in Nat
      BY <2>2, <2>3, <2>4
    <3>2. i \in Nat
      <4>1. Places(h.lines) = 1..Len(h.lines) /\ Len(h.lines) \in Nat
        BY PlacesAreNumbers
      <4> QED BY <1>2, <4>1
    <3>3. /\ Credited(i).line = <<o, e, i>> /\ Credited(i).gross = net[i]
      <4>1. PICK v \in Vendors, g \in Nat :
               v = h.lines[i].vendor /\ g = h.lines[i].amount - Allocated(h, i) /\ g = net[i]
        BY <2>7, <3>1
      <4>2. Credit(v, <<o, e, i>>, g).line = <<o, e, i>> /\ Credit(v, <<o, e, i>>, g).gross = g
        BY <1>o, <3>2, CreditIsItem
      <4> QED BY <4>1, <4>2
    <3>4. Credited(i).share \in 0..net[i]
      BY <2>7, <3>1, ShareIsPart
    <3> QED BY <3>3, <3>4
  <2> HIDE DEF Credited
  <2>8. PICK P \in SUBSET D : P = {i \in D : \E x \in Mine : x.line[3] = i}
    OBVIOUS
  <2>9. \A i \in P : Credited(i) \in Mine /\ h.lines[i].vendor \in Vendors
    <3> SUFFICES ASSUME NEW i \in P PROVE Credited(i) \in Mine /\ h.lines[i].vendor \in Vendors
      OBVIOUS
    <3>1. PICK x \in Mine : x.line[3] = i
      BY <2>8
    <3>2. PICK j \in D : h.lines[j].vendor \in Vendors /\ x = Credited(j)
      BY <1>3
    <3>3. j = i
      BY <2>7, <3>1, <3>2
    <3> QED BY <3>2, <3>3
  <2>10. \A x \in Mine : \E i \in P : x = Credited(i)
    <3> SUFFICES ASSUME NEW x \in Mine PROVE \E i \in P : x = Credited(i)
      OBVIOUS
    <3>1. PICK i \in D : h.lines[i].vendor \in Vendors /\ x = Credited(i)
      BY <1>3
    <3>2. x.line[3] = i
      BY <2>7, <3>1
    <3> QED BY <2>8, <3>1, <3>2
  <2>11. \A x \in Mine : x.gross \in Nat /\ 0 <= x.share /\ x.share <= x.gross
    <3> SUFFICES ASSUME NEW x \in Mine PROVE x.gross \in Nat /\ 0 <= x.share /\ x.share <= x.gross
      OBVIOUS
    <3>1. PICK i \in P : x = Credited(i)
      BY <2>10
    <3>2. /\ Credited(i).gross = net[i] /\ Credited(i).share \in 0..net[i] /\ net[i] \in Nat
      BY <2>7, <2>9
    <3> QED BY <3>1, <3>2
  <2>12. PICK gross \in [Mine -> Int] : gross = [x \in Mine |-> x.gross]
    <3>1. [x \in Mine |-> x.gross] \in [Mine -> Int]
      BY <2>11
    <3> QED BY <3>1
  <2>13. PICK part \in [P -> Int] : \A i \in P : part[i] = net[i]
    <3>1. [i \in P |-> net[i]] \in [P -> Int]
      BY <2>5
    <3> QED BY <3>1
  <2>14. Sum(gross) = Sum(part)
    <3>1. PICK b : b = [i \in P |-> Credited(i)]
      OBVIOUS
    <3>2. b \in [P -> Mine] /\ \A i \in P : b[i] = Credited(i)
      BY <2>9, <3>1
    <3>3. \A i, j \in P : b[i] = b[j] => i = j
      BY <2>7, <2>9, <3>2
    <3>4. \A x \in Mine : \E i \in P : b[i] = x
      BY <2>10, <3>2
    <3>5. b \in Bijection(P, Mine)
      BY <3>2, <3>3, <3>4 DEF Bijection, Injection, IsInjective, Surjection
    <3>6. \A i \in P : part[i] = gross[b[i]]
      <4> SUFFICES ASSUME NEW i \in P PROVE part[i] = gross[b[i]]
        OBVIOUS
      <4>1. Credited(i) \in Mine /\ Credited(i).gross = net[i]
        BY <2>7, <2>9
      <4> QED BY <2>12, <2>13, <3>2, <4>1
    <3>7. IsFiniteSet(P)
      BY <1>2, FS_Subset
    <3> QED BY <3>5, <3>6, <3>7, SumOfImages
  <2>15. PICK open \in SUBSET D : open = D \ P
    OBVIOUS
  <2>16. PICK bill \in [open -> Int] : /\ bill = [i \in open |-> h.lines[i].amount]
                                       /\ \A i \in open : bill[i] = amount[i]
    <3>1. [i \in open |-> h.lines[i].amount] \in [open -> Int]
      BY <2>2
    <3> QED BY <2>2, <3>1
  <2>17. \A i \in D : net[i] <= amount[i]
    BY <2>3, <2>4
  <2>18. Sum(net) - Sum(part) \in 0..Sum(bill)
    <3>1. \A p \in [P -> Int] : \A q \in [open -> Int] :
             (\A i \in P : p[i] = net[i]) /\ (\A i \in open : q[i] = amount[i])
             => Sum(net) - Sum(p) \in 0..Sum(q)
      BY <1>2, <2>15, <2>17, PartAndRest
    <3> QED BY <2>13, <2>16, <3>1
  <2>19. Amount(h.lines, open) = Sum(bill)
    BY <2>16 DEF Amount
  <2>20. Sum(net) - Sum(gross) \in 0..Amount(h.lines, open)
    BY <2>14, <2>18, <2>19
  <2>21. open = {i \in D : \A x \in Mine : x.line[3] # i}
    BY <2>8, <2>15
  <2>22. Subtotal(h) - h.discount - Sum([x \in Mine |-> x.gross]) \in 0..Amount(h.lines, open)
    BY <2>6, <2>12, <2>20
  <2> QED BY <1>0, <1>1, <1>2, <1>3, <2>11, <2>21, <2>22
<1> QED BY <1>4, <1>5

\* CreditedIsCollected: to the dollar, whatever the orders hold, the vendors' shares
\* are and however the requests run into each other.
THEOREM AlwaysCreditedAsCollected == VendorSpec => []CreditedIsCollected
<1>1. VendorInv => CreditedIsCollected
  BY CreditsAddUp DEF CreditedIsCollected
<1> QED BY InitVendor, NextVendor, <1>1, PTL DEF VendorSpec
=============================================================================
