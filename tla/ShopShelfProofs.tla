-------------------------- MODULE ShopShelfProofs ---------------------------
(***************************************************************************)
(* Theorems about the shelf of a shop, for any number of sizes, of clients *)
(* and of movements, and for every choice of writers.                      *)
(***************************************************************************)
EXTENDS ShopShelf, SumTheorems, SequenceTheorems

-----------------------------------------------------------------------------
(* Sums over the movements of a size.                                      *)

Columns == {"kind", "tier", "qty", "lock", "from", "bill"}
Kinds == {"sale", "other", "deleted"}
MovementOK(m) ==
    DOMAIN m = Columns /\ m.kind \in Kinds /\ m.tier \in Tiers /\ m.qty \in Int
IsBook(q) == (\E S : q \in Seq(S)) /\ \A i \in DOMAIN q : MovementOK(q[i])
LiveIn(q, t) == {i \in DOMAIN q : q[i].tier = t /\ q[i].kind # "deleted"}
MovedIn(q, t) == Sum([i \in LiveIn(q, t) |-> q[i].qty])

LEMMA BookDomain ==
    ASSUME NEW q, IsBook(q)
    PROVE  /\ Len(q) \in Nat /\ DOMAIN q = 1..Len(q) /\ IsFiniteSet(DOMAIN q)
           /\ q = [i \in DOMAIN q |-> q[i]]
<1>1. PICK S : q \in Seq(S)
  BY DEF IsBook
<1>2. Len(q) \in Nat /\ DOMAIN q = 1..Len(q) /\ q = [i \in DOMAIN q |-> q[i]]
  BY <1>1
<1> QED
  BY <1>2, FS_Interval

LEMMA LiveFinite ==
    ASSUME NEW q, IsBook(q), NEW t
    PROVE  /\ IsFiniteSet(LiveIn(q, t))
           /\ [i \in LiveIn(q, t) |-> q[i].qty] \in [LiveIn(q, t) -> Int]
           /\ MovedIn(q, t) \in Int
<1>1. PICK L \in SUBSET DOMAIN q : L = LiveIn(q, t)
  BY DEF LiveIn
<1>2. IsFiniteSet(L)
  BY BookDomain, FS_Subset
<1>3. \A i \in L : q[i].qty \in Int
  BY DEF IsBook, MovementOK
<1>4. PICK f : f = [i \in L |-> q[i].qty]
  OBVIOUS
<1>5. f \in [L -> Int]
  BY <1>3, <1>4
<1>6. Sum(f) \in Int
  BY <1>2, <1>5, SumOfInts
<1> QED
  BY <1>1, <1>2, <1>4, <1>5, <1>6 DEF MovedIn

\* The same movements of a size, the same sum.
LEMMA SameMoved ==
    ASSUME NEW q, NEW p, NEW t, LiveIn(p, t) = LiveIn(q, t),
           \A i \in LiveIn(q, t) : p[i].qty = q[i].qty
    PROVE  MovedIn(p, t) = MovedIn(q, t)
<1>1. [i \in LiveIn(p, t) |-> p[i].qty] = [i \in LiveIn(q, t) |-> q[i].qty]
  OBVIOUS
<1> QED
  BY <1>1, Zenon DEF MovedIn

\* One movement more.
LEMMA OneMoved ==
    ASSUME NEW q, NEW p, IsBook(q), IsBook(p), NEW t, NEW n,
           n \notin LiveIn(q, t), LiveIn(p, t) = LiveIn(q, t) \cup {n},
           \A i \in LiveIn(q, t) : p[i].qty = q[i].qty
    PROVE  MovedIn(p, t) = MovedIn(q, t) + p[n].qty
<1>1. PICK L : L = LiveIn(q, t)
  OBVIOUS
<1>2. PICK f : f = [i \in L |-> q[i].qty]
  OBVIOUS
<1>3. PICK h : h = [i \in L \cup {n} |-> p[i].qty]
  OBVIOUS
<1>4. IsFiniteSet(L) /\ f \in [L -> Int] /\ Sum(f) = MovedIn(q, t)
  BY <1>1, <1>2, LiveFinite DEF MovedIn
<1>5. h \in [L \cup {n} -> Int] /\ Sum(h) = MovedIn(p, t)
  BY <1>1, <1>3, LiveFinite DEF MovedIn
<1>6. n \notin L /\ (\A i \in L : h[i] = f[i]) /\ h[n] = p[n].qty
  BY <1>1, <1>2, <1>3
<1>7. \A x : x \notin L =>
         \A g \in [L -> Int] : \A k \in [L \cup {x} -> Int] :
              (\A y \in L : k[y] = g[y]) => Sum(k) = Sum(g) + k[x]
  BY <1>4, SumWith, Zenon
<1>8. Sum(h) = Sum(f) + h[n]
  BY <1>4, <1>5, <1>6, <1>7
<1> QED
  BY <1>4, <1>5, <1>6, <1>8

\* A movement is added.
LEMMA AddedMoved ==
    ASSUME NEW q, IsBook(q), NEW m, MovementOK(m), m.kind # "deleted"
    PROVE  /\ IsBook(Append(q, m))
           /\ \A t \in Tiers : MovedIn(Append(q, m), t) =
                                  MovedIn(q, t) + IF t = m.tier THEN m.qty ELSE 0
<1>1. PICK p : p = Append(q, m)
  OBVIOUS
<1>2. PICK S : q \in Seq(S)
  BY DEF IsBook
<1>3. q \in Seq(S \cup {m})
  BY <1>2
<1>4. p \in Seq(S \cup {m})
  BY <1>1, <1>3
<1>5. PICK n : n = Len(q) + 1
  OBVIOUS
<1>6. /\ Len(q) \in Nat /\ n \notin DOMAIN q /\ DOMAIN p = DOMAIN q \cup {n}
      /\ p[n] = m /\ \A i \in DOMAIN q : p[i] = q[i]
  BY <1>1, <1>3, <1>5
<1>7. IsBook(p)
  <2>1. \A i \in DOMAIN p : MovementOK(p[i])
    BY <1>6 DEF IsBook
  <2> QED
    BY <1>4, <2>1, Zenon DEF IsBook
<1>8. ASSUME NEW t \in Tiers
      PROVE  MovedIn(p, t) = MovedIn(q, t) + IF t = m.tier THEN m.qty ELSE 0
  <2>1. MovedIn(q, t) \in Int /\ m.qty \in Int
    BY LiveFinite DEF MovementOK
  <2>2. CASE t = m.tier
    <3>1. /\ LiveIn(p, t) = LiveIn(q, t) \cup {n} /\ n \notin LiveIn(q, t)
          /\ \A i \in LiveIn(q, t) : p[i].qty = q[i].qty
      BY <1>6, <2>2 DEF LiveIn
    <3> QED
      BY <1>6, <1>7, <2>2, <3>1, OneMoved
  <2>3. CASE t # m.tier
    <3>1. /\ LiveIn(p, t) = LiveIn(q, t)
          /\ \A i \in LiveIn(q, t) : p[i].qty = q[i].qty
      BY <1>6, <2>3 DEF LiveIn
    <3> QED
      BY <2>1, <2>3, <3>1, SameMoved
  <2> QED
    BY <2>2, <2>3
<1> QED
  BY <1>1, <1>7, <1>8

\* A movement is deleted.
LEMMA DeletedMoved ==
    ASSUME NEW q, IsBook(q), NEW n \in DOMAIN q, q[n].kind # "deleted"
    PROVE  \A p : p = [q EXCEPT ![n] = Deleted(q[n].tier)] =>
              /\ IsBook(p)
              /\ \A t \in Tiers : MovedIn(p, t) =
                                     MovedIn(q, t) - IF t = q[n].tier THEN q[n].qty ELSE 0
<1>1. PICK gone : gone = Deleted(q[n].tier)
  OBVIOUS
<1>2. MovementOK(q[n])
  BY DEF IsBook
<1>3. MovementOK(gone) /\ gone.kind = "deleted"
  BY <1>1, <1>2 DEF Deleted, MovementOK, Columns, Kinds
<1>4. PICK p : p = [q EXCEPT ![n] = gone]
  OBVIOUS
<1>5. PICK S : q \in Seq(S)
  BY DEF IsBook
<1>6. q \in Seq(S \cup {gone}) /\ n \in 1..Len(q)
  BY <1>5
<1>7. p \in Seq(S \cup {gone})
  BY <1>4, <1>6, ExceptSeq
<1>8. DOMAIN p = DOMAIN q /\ p[n] = gone /\ \A i \in DOMAIN q \ {n} : p[i] = q[i]
  BY <1>4, <1>5
<1>9. IsBook(p)
  <2>1. \A i \in DOMAIN p : MovementOK(p[i])
    BY <1>3, <1>8 DEF IsBook
  <2> QED
    BY <1>7, <2>1, Zenon DEF IsBook
<1>10. ASSUME NEW t \in Tiers
       PROVE  MovedIn(p, t) = MovedIn(q, t) - IF t = q[n].tier THEN q[n].qty ELSE 0
  <2>1. MovedIn(q, t) \in Int /\ MovedIn(p, t) \in Int /\ q[n].qty \in Int
    BY <1>2, <1>9, LiveFinite DEF MovementOK
  <2>2. CASE t = q[n].tier
    <3>1. /\ LiveIn(q, t) = LiveIn(p, t) \cup {n} /\ n \notin LiveIn(p, t)
          /\ \A i \in LiveIn(p, t) : q[i].qty = p[i].qty
      BY <1>3, <1>8, <2>2 DEF LiveIn
    <3>2. MovedIn(q, t) = MovedIn(p, t) + q[n].qty
      BY <1>9, <3>1, OneMoved
    <3> QED
      BY <2>1, <2>2, <3>2
  <2>3. CASE t # q[n].tier
    <3>1. /\ LiveIn(p, t) = LiveIn(q, t)
          /\ \A i \in LiveIn(q, t) : p[i].qty = q[i].qty
      BY <1>2, <1>3, <1>8, <2>3 DEF LiveIn
    <3> QED
      BY <2>1, <2>3, <3>1, SameMoved
  <2> QED
    BY <2>2, <2>3
<1> QED
  BY <1>1, <1>4, <1>9, <1>10

-----------------------------------------------------------------------------
(* What n units take of rows f, the first row first.                       *)

LEMMA BeforeInt ==
    ASSUME NEW n \in Nat, NEW f \in [1..n -> Nat], NEW i
    PROVE  Before(f, i) \in Nat
<1>1. PICK S \in SUBSET (1..n) : S = {k \in DOMAIN f : k < i}
  OBVIOUS
<1>2. IsFiniteSet(S)
  <2>1. IsFiniteSet(1..n)
    BY FS_Interval
  <2> QED
    BY <2>1, FS_Subset
<1>3. PICK g : g = [j \in S |-> f[j]]
  OBVIOUS
<1>4. g \in [S -> Nat]
  BY <1>3
<1> QED
  BY <1>1, <1>2, <1>3, <1>4, SumIsNatural DEF Before

\* No row gives more than it has.
LEMMA FirstInFits ==
    ASSUME NEW n \in Nat, NEW f \in [1..n -> Nat], NEW q \in Nat
    PROVE  /\ FirstIn(f, q) \in [1..n -> Nat]
           /\ \A i \in 1..n : FirstIn(f, q)[i] <= f[i]
<1>1. PICK b : b = [i \in 1..n |-> Before(f, i)]
  OBVIOUS
<1>2. \A i \in 1..n : b[i] = Before(f, i) /\ b[i] \in Nat
  BY <1>1, BeforeInt
<1>3. \A i \in 1..n : FirstIn(f, q)[i] =
         IF b[i] >= q THEN 0 ELSE IF f[i] <= q - b[i] THEN f[i] ELSE q - b[i]
  BY <1>2 DEF FirstIn
<1>4. DOMAIN FirstIn(f, q) = 1..n /\ FirstIn(f, q) = [i \in 1..n |-> FirstIn(f, q)[i]]
  BY DEF FirstIn
<1>5. \A i \in 1..n : FirstIn(f, q)[i] \in Nat /\ FirstIn(f, q)[i] <= f[i]
  BY <1>2, <1>3
<1> QED
  BY <1>4, <1>5

-----------------------------------------------------------------------------
(* The invariant behind ShelfExplained: what the transactions in flight    *)
(* have in hand.                                                           *)

TxOK(c) ==
    /\ tx[c].op = "set" => /\ tx[c].kind \in {"sale", "other"} /\ tx[c].tier \in Tiers
                           /\ tx[c].to \in Nat
    /\ tx[c].op = "undo" => /\ tx[c].txn \in DOMAIN txns /\ tx[c].row.kind # "deleted"
                            /\ tx[c].row.tier \in Tiers /\ tx[c].row.qty \in Int
    /\ tx[c].op = "mirror" => tx[c].qty \in Nat /\ tx[c].seen \in [Tiers -> Nat]
TxsOK == DOMAIN tx = Clients /\ \A c \in Clients : TxOK(c)

\* ShelfExplained of any shelf and any movements.
Explained(sh, q, cut) ==
    \A t \in Tiers :
        /\ sh[t] >= 0 /\ sh[t] >= InitQty + MovedIn(q, t)
        /\ t \notin cut => sh[t] = InitQty + MovedIn(q, t)

ShelfTypes == shelf \in [Tiers -> Int] /\ IsBook(txns) /\ TxsOK
ShelfInv == ShelfTypes /\ Explained(shelf, txns, clamped)

LEMMA ExplainedSame == ShelfExplained <=> Explained(shelf, txns, clamped)
  BY DEF ShelfExplained, Explained, Moved, MovedIn, Live, LiveIn

LEMMA ShelfStarts == ShelfInit => ShelfInv
<1> SUFFICES ASSUME ShelfInit PROVE ShelfInv
  OBVIOUS
<1> USE DEF ShelfInit
<1>1. IsBook(txns) /\ DOMAIN txns = {}
  BY DEF IsBook
<1>2. TxsOK
  BY DEF TxsOK, TxOK, Idle
<1>3. \A t \in Tiers : MovedIn(txns, t) = 0
  <2> SUFFICES ASSUME NEW t \in Tiers PROVE MovedIn(txns, t) = 0
    OBVIOUS
  <2>1. LiveIn(txns, t) = {}
    BY <1>1 DEF LiveIn
  <2>2. PICK f : f = [i \in LiveIn(txns, t) |-> txns[i].qty]
    OBVIOUS
  <2>3. f \in [{} -> Int]
    BY <2>1, <2>2
  <2> QED
    BY <2>2, <2>3, SumOfNothing DEF MovedIn
<1>4. shelf \in [Tiers -> Int] /\ \A t \in Tiers : shelf[t] = InitQty /\ InitQty \in Nat
  BY ShelfConstants
<1>5. Explained(shelf, txns, clamped)
  BY <1>3, <1>4 DEF Explained
<1> QED
  BY <1>1, <1>2, <1>4, <1>5 DEF ShelfInv, ShelfTypes

LEMMA NewMovement ==
    \A ls, kind, t, q :
        kind \in {"sale", "other"} /\ t \in Tiers /\ q \in Int =>
            /\ MovementOK(Row(ls, kind, t, q))
            /\ Row(ls, kind, t, q).kind = kind /\ Row(ls, kind, t, q).tier = t
            /\ Row(ls, kind, t, q).qty = q
  BY DEF Row, MovementOK, Columns, Kinds

\* A writer that knows the quantity it changes.
LEMMA BookKeeps ==
    ASSUME ShelfInv
    PROVE  \A kind \in {"sale", "other"}, t \in Tiers, q \in Int : \A was, mode :
              was = shelf[t] /\ was + q >= 0 /\ Book(kind, t, was, q, mode) =>
                 /\ shelf' \in [Tiers -> Int] /\ IsBook(txns')
                 /\ Explained(shelf', txns', clamped')
                 /\ DOMAIN txns \subseteq DOMAIN txns'
<1> SUFFICES ASSUME NEW kind \in {"sale", "other"}, NEW t \in Tiers, NEW q \in Int,
                    NEW was, NEW mode, was = shelf[t], was + q >= 0,
                    Book(kind, t, was, q, mode)
             PROVE  /\ shelf' \in [Tiers -> Int] /\ IsBook(txns')
                    /\ Explained(shelf', txns', clamped')
                    /\ DOMAIN txns \subseteq DOMAIN txns'
  OBVIOUS
<1>1. shelf \in [Tiers -> Int] /\ IsBook(txns) /\ Explained(shelf, txns, clamped)
  BY DEF ShelfInv, ShelfTypes
<1>2. PICK m : m = Row(lots[t], kind, t, q)
  OBVIOUS
<1>3. MovementOK(m) /\ m.kind # "deleted" /\ m.tier = t /\ m.qty = q
  BY <1>2, NewMovement
<1>4. /\ txns' = Append(txns, m) /\ shelf' = [shelf EXCEPT ![t] = was + q]
      /\ clamped' = clamped
  BY <1>2 DEF Book
<1>5. /\ IsBook(txns')
      /\ \A u \in Tiers : MovedIn(txns', u) = MovedIn(txns, u) + IF u = t THEN q ELSE 0
  BY <1>1, <1>3, <1>4, AddedMoved
<1>6. \A u \in Tiers : shelf'[u] = shelf[u] + IF u = t THEN q ELSE 0
  BY <1>1, <1>4
<1>7. \A u \in Tiers : MovedIn(txns, u) \in Int /\ shelf[u] \in Int
  BY <1>1, LiveFinite
<1>8. InitQty \in Int
  BY ShelfConstants
<1>9. Explained(shelf', txns', clamped')
  BY <1>1, <1>4, <1>5, <1>6, <1>7, <1>8 DEF Explained
<1>10. DOMAIN txns \subseteq DOMAIN txns'
  <2>1. PICK S : txns \in Seq(S)
    BY <1>1 DEF IsBook
  <2>2. txns \in Seq(S \cup {m})
    BY <2>1
  <2> QED
    BY <1>4, <2>2
<1> QED
  BY <1>1, <1>4, <1>5, <1>9, <1>10

\* An undo that finds its movement and its shelf as they were.
LEMMA UndoKeeps ==
    ASSUME ShelfInv, NEW c \in Clients, CommitUndo(c)
    PROVE  /\ shelf' \in [Tiers -> Int] /\ IsBook(txns')
           /\ Explained(shelf', txns', clamped')
           /\ DOMAIN txns \subseteq DOMAIN txns'
<1>1. shelf \in [Tiers -> Int] /\ IsBook(txns) /\ Explained(shelf, txns, clamped)
  BY DEF ShelfInv, ShelfTypes
<1>2. PICK i \in DOMAIN txns : i = tx[c].txn
  BY DEF CommitUndo, ShelfInv, ShelfTypes, TxsOK, TxOK
<1>3. PICK row : row = txns[i]
  OBVIOUS
<1>4. /\ tx[c].row = row /\ row.kind # "deleted" /\ row.tier \in Tiers /\ row.qty \in Int
  BY <1>2, <1>3 DEF CommitUndo, ShelfInv, ShelfTypes, TxsOK, TxOK
<1>5. PICK t \in Tiers : t = row.tier
  BY <1>4
<1>6. UndoTo(c) = shelf[t] - row.qty
  BY <1>4, <1>5 DEF CommitUndo, Fresh, UndoTo
<1>7. /\ shelf' = [shelf EXCEPT ![t] = IF shelf[t] - row.qty < 0 THEN 0 ELSE shelf[t] - row.qty]
      /\ clamped' = (IF shelf[t] - row.qty < 0 THEN clamped \cup {t} ELSE clamped)
      /\ txns' = [txns EXCEPT ![i] = Deleted(row.tier)]
  BY <1>2, <1>4, <1>5, <1>6 DEF CommitUndo, Undo
<1>8. /\ IsBook(txns')
      /\ \A u \in Tiers : MovedIn(txns', u) = MovedIn(txns, u) - IF u = t THEN row.qty ELSE 0
  <2>1. txns' = [txns EXCEPT ![i] = Deleted(txns[i].tier)]
    BY <1>3, <1>7, Zenon
  <2>2. /\ IsBook(txns')
        /\ \A u \in Tiers : MovedIn(txns', u) =
              MovedIn(txns, u) - IF u = txns[i].tier THEN txns[i].qty ELSE 0
    <3>1. IsBook(txns) /\ txns[i].kind # "deleted"
      BY <1>1, <1>3, <1>4
    <3>2. \A p : p = [txns EXCEPT ![i] = Deleted(txns[i].tier)] =>
              /\ IsBook(p)
              /\ \A t1 \in Tiers : MovedIn(p, t1) =
                    MovedIn(txns, t1) - IF t1 = txns[i].tier THEN txns[i].qty ELSE 0
      BY <3>1, DeletedMoved
    <3> QED
      BY <2>1, <3>2
  <2> QED
    BY <1>3, <1>5, <2>2
<1>9. \A u \in Tiers : shelf'[u] = IF u # t THEN shelf[u]
         ELSE IF shelf[t] - row.qty < 0 THEN 0 ELSE shelf[t] - row.qty
  BY <1>1, <1>7
<1>10. \A u \in Tiers : MovedIn(txns, u) \in Int /\ shelf[u] \in Int
  BY <1>1, LiveFinite
<1>11. InitQty \in Int
  BY ShelfConstants
<1>12. Explained(shelf', txns', clamped')
  <2>1. ASSUME NEW u \in Tiers
        PROVE  /\ shelf'[u] >= 0 /\ shelf'[u] >= InitQty + MovedIn(txns', u)
               /\ u \notin clamped' => shelf'[u] = InitQty + MovedIn(txns', u)
    <3>1. /\ shelf[u] >= 0 /\ shelf[u] >= InitQty + MovedIn(txns, u)
          /\ u \notin clamped => shelf[u] = InitQty + MovedIn(txns, u)
      BY <1>1 DEF Explained
    <3>2. u \in clamped' <=> u \in clamped \/ (u = t /\ shelf[t] - row.qty < 0)
      BY <1>7
    <3>3. PICK a \in Int : a = MovedIn(txns, u)
      BY <1>10
    <3>4. MovedIn(txns', u) = a - IF u = t THEN row.qty ELSE 0
      BY <1>8, <3>3
    <3>5. PICK x \in Int : x = shelf[u]
      BY <1>10
    <3>6. shelf'[u] = IF u # t THEN x ELSE IF x - row.qty < 0 THEN 0 ELSE x - row.qty
      BY <1>9, <3>5
    <3> QED
      BY <1>4, <1>11, <3>1, <3>2, <3>3, <3>4, <3>5, <3>6
  <2> QED
    BY <2>1 DEF Explained
<1>13. shelf' \in [Tiers -> Int]
  BY <1>1, <1>4, <1>7, <1>10
<1> QED
  BY <1>7, <1>8, <1>12, <1>13

-----------------------------------------------------------------------------
(* The delivery: one movement for each size it takes from.                 *)

\* Numbered in their order, no two of finitely many are the same, and none is
\* left out.
LEMMA OrderedIsAll ==
    ASSUME NEW S \in SUBSET Tiers, NEW at \in [1..Cardinality(S) -> S],
           \A m, n \in DOMAIN at : m < n => at[m] < at[n]
    PROVE  /\ Cardinality(S) \in Nat
           /\ \A m, n \in DOMAIN at : at[m] = at[n] => m = n
           /\ \A t \in S : \E n \in DOMAIN at : at[n] = t
<1>1. IsFiniteSet(S) /\ Cardinality(S) \in Nat
  BY ShelfConstants, FS_Subset, FS_CardinalityType
<1>2. S \subseteq Int
  BY ShelfConstants, FS_CardinalityType
<1>3. \A m, n \in DOMAIN at : at[m] = at[n] => m = n
  <2> SUFFICES ASSUME NEW m \in DOMAIN at, NEW n \in DOMAIN at, at[m] = at[n], m # n
               PROVE  FALSE
    OBVIOUS
  <2>1. m \in 1..Cardinality(S) /\ n \in 1..Cardinality(S) /\ at[m] \in S
    OBVIOUS
  <2>2. m \in Int /\ n \in Int
    BY <1>1, <2>1
  <2>4. at[m] \in Int
    BY <1>2, <2>1
  <2>3. m < n \/ n < m
    BY <2>2
  <2> QED
    BY <2>3, <2>4
<1>4. at \in Injection(1..Cardinality(S), S)
  BY <1>3 DEF Injection, IsInjective
<1>5. Cardinality(1..Cardinality(S)) = Cardinality(S)
  BY <1>1, FS_Interval
<1>6. at \in Surjection(1..Cardinality(S), S)
  BY <1>1, <1>4, <1>5, FS_Injection
<1> QED
  BY <1>1, <1>3, <1>6 DEF Surjection

\* Each size it takes from has one movement more, and the others have the
\* movements they had.
LEMMA MirrorAppends ==
    ASSUME ShelfInv, NEW c \in Clients, CommitMirror(c), NEW take,
           take = FirstIn(tx[c].seen, tx[c].qty)
    PROVE  /\ take \in [Tiers -> Nat] /\ \A t \in Tiers : take[t] <= tx[c].seen[t]
           /\ IsBook(txns') /\ Len(txns) <= Len(txns') /\ DOMAIN txns \subseteq DOMAIN txns'
           /\ \A i \in DOMAIN txns : txns'[i] = txns[i]
           /\ \A t \in Tiers :
                 IF take[t] > 0
                 THEN \E j \in DOMAIN txns' :
                         /\ j \notin LiveIn(txns, t)
                         /\ LiveIn(txns', t) = LiveIn(txns, t) \cup {j}
                         /\ txns'[j] = Row(lots[t], "other", t, -take[t])
                 ELSE LiveIn(txns', t) = LiveIn(txns, t)
<1>1. shelf \in [Tiers -> Int] /\ IsBook(txns) /\ Explained(shelf, txns, clamped)
  BY DEF ShelfInv, ShelfTypes
<1>2. tx[c].qty \in Nat /\ tx[c].seen \in [Tiers -> Nat]
  BY DEF CommitMirror, ShelfInv, ShelfTypes, TxsOK, TxOK
<1>3. take = FirstIn(tx[c].seen, tx[c].qty)
  OBVIOUS
<1>4. take \in [Tiers -> Nat] /\ \A t \in Tiers : take[t] <= tx[c].seen[t]
  <2>1. PICK n \in Nat : Tiers = 1..n
    BY ShelfConstants, FS_CardinalityType
  <2>2. PICK f \in [1..n -> Nat] : f = tx[c].seen
    BY <1>2, <2>1
  <2>3. PICK q \in Nat : q = tx[c].qty
    BY <1>2
  <2>4. FirstIn(f, q) \in [1..n -> Nat] /\ \A t \in 1..n : FirstIn(f, q)[t] <= f[t]
    BY ONLY <2>1, <2>2, <2>3, FirstInFits
  <2>5. take = FirstIn(f, q)
    BY <1>3, <2>2, <2>3, Zenon
  <2> QED
    BY <2>1, <2>2, <2>4, <2>5
<1>5. PICK S \in SUBSET Tiers : S = {t \in Tiers : take[t] > 0}
  OBVIOUS
<1>6. PICK at \in [1..Cardinality(S) -> S] :
          /\ \A m, n \in DOMAIN at : m < n => at[m] < at[n]
          /\ txns' = txns \o [n \in DOMAIN at |->
                        Row(lots[at[n]], "other", at[n], -take[at[n]])]
  BY <1>3, <1>5 DEF CommitMirror
<1>7. PICK k \in Nat : k = Cardinality(S) /\ DOMAIN at = 1..k
  BY <1>6, OrderedIsAll
<1>8. /\ \A m, n \in 1..k : at[m] = at[n] => m = n
      /\ \A t \in S : \E n \in 1..k : at[n] = t
      /\ \A n \in 1..k : at[n] \in S
  BY <1>6, <1>7, OrderedIsAll
<1>9. PICK more : more = [n \in 1..k |-> Row(lots[at[n]], "other", at[n], -take[at[n]])]
  OBVIOUS
<1>10. \A n \in 1..k : /\ MovementOK(more[n]) /\ more[n].kind = "other"
                       /\ more[n].tier = at[n] /\ more[n].qty = -take[at[n]]
  <2> SUFFICES ASSUME NEW n \in 1..k
               PROVE  /\ MovementOK(more[n]) /\ more[n].kind = "other"
                      /\ more[n].tier = at[n] /\ more[n].qty = -take[at[n]]
    OBVIOUS
  <2>1. at[n] \in Tiers /\ -take[at[n]] \in Int
    BY <1>4, <1>8
  <2> QED
    BY <1>9, <2>1, NewMovement
<1>11. txns' = txns \o more
  BY <1>6, <1>7, <1>9, Zenon
<1>12. PICK T : txns \in Seq(T)
  BY <1>1 DEF IsBook
<1>13. PICK R : R = {more[n] : n \in 1..k}
  OBVIOUS
<1>14. more \in Seq(R) /\ Len(more) = k
  <2>1. more \in [1..k -> R]
    BY <1>9, <1>13
  <2> QED
    BY <2>1, SeqDef
<1>15. more \in Seq(T \cup R) /\ txns \in Seq(T \cup R)
  BY <1>12, <1>14
<1>16. txns' \in Seq(T \cup R)
  BY <1>11, <1>15
<1>17. PICK len \in Nat : len = Len(txns)
  BY <1>12
<1>18. /\ DOMAIN txns = 1..len /\ DOMAIN txns' = 1..(len + k)
       /\ \A i \in 1..len : txns'[i] = txns[i]
       /\ \A n \in 1..k : txns'[len + n] = more[n]
  BY <1>11, <1>14, <1>15, <1>17
<1>19. IsBook(txns')
  <2>1. ASSUME NEW i \in DOMAIN txns' PROVE MovementOK(txns'[i])
    <3>1. CASE i \in 1..len
      BY <1>1, <1>18, <3>1 DEF IsBook
    <3>2. CASE i \notin 1..len
      <4>1. PICK n \in 1..k : i = len + n
        <5>1. i - len \in 1..k /\ i = len + (i - len)
          BY <1>18, <3>2
        <5> QED
          BY <5>1
      <4> QED
        BY <1>10, <1>18, <4>1
    <3> QED
      BY <3>1, <3>2
  <2> QED
    BY <1>16, <2>1, Zenon DEF IsBook
<1>20. ASSUME NEW t \in Tiers
       PROVE  IF take[t] > 0
              THEN \E j \in DOMAIN txns' :
                      /\ j \notin LiveIn(txns, t)
                      /\ LiveIn(txns', t) = LiveIn(txns, t) \cup {j}
                      /\ txns'[j] = Row(lots[t], "other", t, -take[t])
              ELSE LiveIn(txns', t) = LiveIn(txns, t)
  <2>2. CASE t \in S
    <3>1. PICK n \in 1..k : at[n] = t
      BY <1>8, <2>2
    <3>2. LiveIn(txns', t) = LiveIn(txns, t) \cup {len + n}
      <4>1. \A i \in LiveIn(txns', t) : i \in LiveIn(txns, t) \/ i = len + n
        <5> SUFFICES ASSUME NEW i \in LiveIn(txns', t), i \notin 1..len
                     PROVE  i = len + n
          BY <1>18 DEF LiveIn
        <5>1. i \in 1..(len + k) /\ txns'[i].tier = t
          BY <1>18 DEF LiveIn
        <5>2. i - len \in 1..k /\ i = len + (i - len)
          BY <5>1
        <5>3. PICK j \in 1..k : i = len + j
          BY <5>2
        <5>4. at[j] = t
          BY <1>10, <1>18, <5>1, <5>3
        <5> QED
          BY <1>8, <3>1, <5>3, <5>4
      <4>2. \A i \in LiveIn(txns, t) : i \in LiveIn(txns', t)
        BY <1>18 DEF LiveIn
      <4>3. len + n \in LiveIn(txns', t)
        BY <1>10, <1>18, <3>1 DEF LiveIn
      <4> QED
        BY <4>1, <4>2, <4>3
    <3>3. len + n \in DOMAIN txns' /\ len + n \notin LiveIn(txns, t)
      BY <1>18 DEF LiveIn
    <3>4. txns'[len + n] = Row(lots[t], "other", t, -take[t])
      BY <1>9, <1>18, <3>1
    <3> QED
      BY <1>5, <2>2, <3>2, <3>3, <3>4
  <2>3. CASE t \notin S
    <3>2. LiveIn(txns', t) = LiveIn(txns, t)
      <4>1. \A i \in LiveIn(txns', t) : i \in LiveIn(txns, t)
        <5> SUFFICES ASSUME NEW i \in LiveIn(txns', t), i \notin 1..len
                     PROVE  FALSE
          BY <1>18 DEF LiveIn
        <5>1. i \in 1..(len + k) /\ txns'[i].tier = t
          BY <1>18 DEF LiveIn
        <5>2. i - len \in 1..k /\ i = len + (i - len)
          BY <5>1
        <5>3. PICK j \in 1..k : i = len + j
          BY <5>2
        <5>4. at[j] = t
          BY <1>10, <1>18, <5>1, <5>3
        <5> QED
          BY <1>8, <2>3, <5>3, <5>4
      <4>2. \A i \in LiveIn(txns, t) : i \in LiveIn(txns', t)
        BY <1>18 DEF LiveIn
      <4> QED
        BY <4>1, <4>2
    <3> QED
      BY <1>5, <2>3, <3>2
  <2> QED
    BY <2>2, <2>3
<1>21. Len(txns) <= Len(txns') /\ DOMAIN txns \subseteq DOMAIN txns'
  <2>1. Len(txns') = len + k
    BY <1>16, <1>18
  <2>2. 1..len \subseteq 1..(len + k)
    OBVIOUS
  <2> QED
    BY <1>17, <1>18, <2>1, <2>2
<1> QED
  BY <1>4, <1>18, <1>19, <1>20, <1>21

LEMMA MirrorKeeps ==
    ASSUME ShelfInv, NEW c \in Clients, CommitMirror(c)
    PROVE  /\ shelf' \in [Tiers -> Int] /\ IsBook(txns')
           /\ Explained(shelf', txns', clamped')
           /\ DOMAIN txns \subseteq DOMAIN txns'
<1>1. shelf \in [Tiers -> Int] /\ IsBook(txns) /\ Explained(shelf, txns, clamped)
  BY DEF ShelfInv, ShelfTypes
<1>3. PICK take : take = FirstIn(tx[c].seen, tx[c].qty)
  OBVIOUS
<1>18. /\ take \in [Tiers -> Nat] /\ \A t \in Tiers : take[t] <= tx[c].seen[t]
       /\ IsBook(txns') /\ DOMAIN txns \subseteq DOMAIN txns'
       /\ \A i \in DOMAIN txns : txns'[i] = txns[i]
       /\ \A t \in Tiers :
             IF take[t] > 0
             THEN \E j \in DOMAIN txns' :
                     /\ j \notin LiveIn(txns, t)
                     /\ LiveIn(txns', t) = LiveIn(txns, t) \cup {j}
                     /\ txns'[j] = Row(lots[t], "other", t, -take[t])
             ELSE LiveIn(txns', t) = LiveIn(txns, t)
  BY <1>3, MirrorAppends
<1>4. take \in [Tiers -> Nat] /\ \A t \in Tiers : take[t] <= tx[c].seen[t]
  BY <1>18
<1>5. PICK S \in SUBSET Tiers : S = {t \in Tiers : take[t] > 0}
  OBVIOUS
<1>20. ASSUME NEW t \in Tiers
       PROVE  MovedIn(txns', t) = MovedIn(txns, t) - take[t]
  <2>1. MovedIn(txns, t) \in Int /\ take[t] \in Nat
    BY <1>1, <1>4, LiveFinite
  <2>2. \A i \in LiveIn(txns, t) : txns'[i].qty = txns[i].qty
    BY <1>18 DEF LiveIn
  <2>3. CASE take[t] > 0
    <3>1. PICK j \in DOMAIN txns' :
             /\ j \notin LiveIn(txns, t)
             /\ LiveIn(txns', t) = LiveIn(txns, t) \cup {j}
             /\ txns'[j] = Row(lots[t], "other", t, -take[t])
      BY <1>18, <2>3
    <3>2. txns'[j].qty = -take[t]
      BY <3>1 DEF Row
    <3>3. MovedIn(txns', t) = MovedIn(txns, t) + txns'[j].qty
      BY <1>1, <1>18, <2>2, <3>1, OneMoved
    <3> QED
      BY <2>1, <3>2, <3>3
  <2>4. CASE ~(take[t] > 0)
    <3>1. take[t] = 0 /\ LiveIn(txns', t) = LiveIn(txns, t)
      BY <1>18, <2>1, <2>4
    <3> QED
      BY <2>1, <2>2, <3>1, SameMoved
  <2> QED
    BY <2>3, <2>4
<1>21. shelf' = [t \in Tiers |-> shelf[t] - take[t]] /\ clamped' = clamped
  BY <1>3 DEF CommitMirror
<1>22. \A t \in Tiers : /\ shelf[t] \in Int /\ take[t] \in Nat /\ MovedIn(txns, t) \in Int
                        /\ shelf'[t] = shelf[t] - take[t]
  BY <1>1, <1>4, <1>21, LiveFinite
<1>23. \A t \in Tiers : shelf[t] - take[t] >= 0
  <2> SUFFICES ASSUME NEW t \in Tiers PROVE shelf[t] - take[t] >= 0
    OBVIOUS
  <2>1. CASE t \in S
    <3>1. shelf[t] = tx[c].seen[t]
      BY <1>3, <1>5, <2>1 DEF CommitMirror, Fresh
    <3> QED
      <4>1. take[t] \in Nat /\ take[t] <= shelf[t]
        BY <1>4, <3>1
      <4> QED
        BY <1>22, <4>1
  <2>2. CASE t \notin S
    BY <1>1, <1>5, <1>22, <2>2 DEF Explained
  <2> QED
    BY <2>1, <2>2
<1>24. InitQty \in Int
  BY ShelfConstants
<1>25. Explained(shelf', txns', clamped')
  BY <1>1, <1>20, <1>21, <1>22, <1>23, <1>24 DEF Explained
<1> QED
  BY <1>18, <1>21, <1>22, <1>25

-----------------------------------------------------------------------------
(* Every step keeps it.                                                    *)

\* What the other transactions have in hand stays as it was.
LEMMA TxStays ==
    ASSUME ShelfInv, DOMAIN txns \subseteq DOMAIN txns', NEW c \in Clients, NEW todo,
           tx' = [tx EXCEPT ![c] = todo], todo = tx'[c] => TxOK(c)'
    PROVE  TxsOK'
<1>1. /\ DOMAIN tx' = Clients /\ tx'[c] = todo
      /\ \A d \in Clients \ {c} : tx'[d] = tx[d]
  BY DEF ShelfInv, ShelfTypes, TxsOK
<1>2. \A d \in Clients \ {c} : TxOK(d)'
  BY <1>1 DEF ShelfInv, ShelfTypes, TxsOK, TxOK
<1> QED
  BY <1>1, <1>2 DEF TxsOK

LEMMA DoneKeeps ==
    ASSUME ShelfInv, DOMAIN txns \subseteq DOMAIN txns', NEW c \in Clients, Done(c)
    PROVE  TxsOK'
<1>1. tx'[c] = Idle => TxOK(c)'
  BY DEF TxOK, Idle
<1> QED
  BY <1>1, TxStays DEF Done

\* A step that begins, or that changes nothing.
LEMMA UnwrittenKeeps ==
    ASSUME ShelfInv, Unwritten, TxsOK'
    PROVE  ShelfInv'
  BY DEF ShelfInv, ShelfTypes, Unwritten, Explained, MovedIn, LiveIn, IsBook, MovementOK

LEMMA BeginKeeps ==
    ASSUME ShelfInv, NEW c \in Clients, Unwritten, NEW todo, tx' = [tx EXCEPT ![c] = todo],
           TxOK(c)'
    PROVE  ShelfInv'
<1>1. DOMAIN txns \subseteq DOMAIN txns'
  BY DEF Unwritten
<1> QED
  BY <1>1, TxStays, UnwrittenKeeps

LEMMA BeginSaleKeeps ==
    ASSUME ShelfInv, NEW c \in Clients, NEW t \in Tiers, NEW q \in 1..MaxQty, BeginSale(c, t, q)
    PROVE  ShelfInv'
<1>1. shelf[t] \in Int /\ q \in Int
  BY ShelfConstants DEF ShelfInv, ShelfTypes
<1>2. /\ tx'[c].op = "set" /\ tx'[c].kind = "sale" /\ tx'[c].tier = t
      /\ tx'[c].to = shelf[t] - q
  BY DEF BeginSale, ShelfInv, ShelfTypes, TxsOK
<1>3. TxOK(c)'
  BY <1>1, <1>2 DEF BeginSale, TxOK
<1> QED
  BY <1>3, BeginKeeps DEF BeginSale

LEMMA BeginCountKeeps ==
    ASSUME ShelfInv, NEW c \in Clients, NEW t \in Tiers, NEW n \in 0..MaxQty,
           NEW k \in {"sale", "other"}, BeginCount(c, t, n, k)
    PROVE  ShelfInv'
<1>1. n \in Nat
  BY ShelfConstants
<1>2. tx'[c].op = "set" /\ tx'[c].kind = k /\ tx'[c].tier = t /\ tx'[c].to = n
  BY DEF BeginCount, ShelfInv, ShelfTypes, TxsOK
<1>3. TxOK(c)'
  BY <1>1, <1>2 DEF TxOK
<1> QED
  BY <1>3, BeginKeeps DEF BeginCount

LEMMA BeginUndoKeeps ==
    ASSUME ShelfInv, NEW c \in Clients, NEW i \in DOMAIN txns, BeginUndo(c, i)
    PROVE  ShelfInv'
<1>1. txns[i].tier \in Tiers /\ txns[i].qty \in Int
  BY DEF ShelfInv, ShelfTypes, IsBook, MovementOK
<1>2. /\ tx'[c].op = "undo" /\ tx'[c].txn = i /\ tx'[c].row = txns[i]
      /\ txns[i].kind # "deleted" /\ txns' = txns
  BY DEF BeginUndo, Unwritten, ShelfInv, ShelfTypes, TxsOK
<1>3. TxOK(c)'
  BY <1>1, <1>2 DEF TxOK
<1> QED
  BY <1>3, BeginKeeps DEF BeginUndo

LEMMA BeginMirrorKeeps ==
    ASSUME ShelfInv, NEW c \in Clients, NEW q \in 1..MaxQty, BeginMirror(c, q)
    PROVE  ShelfInv'
<1>1. q \in Nat
  BY ShelfConstants
<1>2. /\ tx'[c].op = "mirror" /\ tx'[c].qty = q
      /\ tx'[c].seen = [t \in Tiers |-> shelf[t]]
  BY DEF BeginMirror, Seen, ShelfInv, ShelfTypes, TxsOK
<1>3. \A t \in Tiers : shelf[t] \in Nat
  BY DEF ShelfInv, ShelfTypes, Explained
<1>4. TxOK(c)'
  BY <1>1, <1>2, <1>3 DEF TxOK
<1> QED
  BY <1>4, BeginKeeps DEF BeginMirror

LEMMA CommitSetKeeps ==
    ASSUME ShelfInv, NEW c \in Clients, CommitSet(c)
    PROVE  ShelfInv'
<1>1. PICK t \in Tiers : t = tx[c].tier
  BY DEF CommitSet, ShelfInv, ShelfTypes, TxsOK, TxOK
<1>2. PICK kind \in {"sale", "other"} : kind = tx[c].kind
  BY DEF CommitSet, ShelfInv, ShelfTypes, TxsOK, TxOK
<1>3. PICK to \in Nat : to = tx[c].to
  BY DEF CommitSet, ShelfInv, ShelfTypes, TxsOK, TxOK
<1>4. PICK was \in Int : was = shelf[t]
  BY DEF ShelfInv, ShelfTypes
<1>5. Book(kind, t, was, to - was, None)
  BY <1>1, <1>2, <1>3, <1>4 DEF CommitSet
<1>6. to - was \in Int /\ was + (to - was) >= 0
  OBVIOUS
<1>7. /\ shelf' \in [Tiers -> Int] /\ IsBook(txns') /\ Explained(shelf', txns', clamped')
      /\ DOMAIN txns \subseteq DOMAIN txns'
  BY <1>4, <1>5, <1>6, BookKeeps
<1> QED
  BY <1>7, DoneKeeps DEF CommitSet, ShelfInv, ShelfTypes

LEMMA ShelfSteps == ShelfInv /\ [ShelfNext]_shelfVars => ShelfInv'
<1> SUFFICES ASSUME ShelfInv, [ShelfNext]_shelfVars PROVE ShelfInv'
  OBVIOUS
<1>1. ASSUME UNCHANGED tx, /\ shelf' \in [Tiers -> Int] /\ IsBook(txns')
                           /\ Explained(shelf', txns', clamped')
                           /\ DOMAIN txns \subseteq DOMAIN txns'
      PROVE  ShelfInv'
  BY <1>1 DEF ShelfInv, ShelfTypes, TxsOK, TxOK
<1>2. ASSUME NEW t \in Tiers, NEW q \in 1..MaxQty, CounterSale(t, q)
      PROVE  ShelfInv'
  <2>1. q \in Int /\ -q \in Int /\ shelf[t] \in Int
    BY ShelfConstants DEF ShelfInv, ShelfTypes
  <2>2. shelf[t] + (-q) >= 0
    BY <1>2, <2>1 DEF CounterSale
  <2> QED
    BY <1>1, <1>2, <2>1, <2>2, BookKeeps DEF CounterSale
<1>3. ASSUME NEW t \in Tiers, NEW q \in 1..MaxQty, NEW m \in Modes, Receive(t, q, m)
      PROVE  ShelfInv'
  <2>1. q \in Int /\ q >= 0 /\ shelf[t] \in Int
    BY ShelfConstants DEF ShelfInv, ShelfTypes
  <2>2. shelf[t] >= 0
    BY DEF ShelfInv, Explained
  <2>3. shelf[t] + q >= 0
    BY <2>1, <2>2
  <2> QED
    BY <1>1, <1>3, <2>1, <2>3, BookKeeps DEF Receive
<1>4. ASSUME NEW c \in Clients, CommitUndo(c) PROVE ShelfInv'
  <2>1. /\ shelf' \in [Tiers -> Int] /\ IsBook(txns') /\ Explained(shelf', txns', clamped')
        /\ DOMAIN txns \subseteq DOMAIN txns'
    BY <1>4, UndoKeeps
  <2> QED
    BY <1>4, <2>1, DoneKeeps DEF CommitUndo, Undo, ShelfInv, ShelfTypes
<1>5. ASSUME NEW c \in Clients, CommitMirror(c) PROVE ShelfInv'
  <2>1. /\ shelf' \in [Tiers -> Int] /\ IsBook(txns') /\ Explained(shelf', txns', clamped')
        /\ DOMAIN txns \subseteq DOMAIN txns'
    BY <1>5, MirrorKeeps
  <2> QED
    BY <1>5, <2>1, DoneKeeps DEF CommitMirror, ShelfInv, ShelfTypes
<1>6. ASSUME NEW c \in Clients, Abort(c) PROVE ShelfInv'
  <2>1. DOMAIN txns \subseteq DOMAIN txns'
    BY <1>6 DEF Abort, Unwritten
  <2> QED
    BY <1>6, <2>1, DoneKeeps, UnwrittenKeeps DEF Abort
<1>7. CASE UNCHANGED shelfVars
  <2>1. Unwritten /\ UNCHANGED tx
    BY <1>7 DEF shelfVars, Unwritten
  <2>2. TxsOK'
    BY <2>1 DEF Unwritten, ShelfInv, ShelfTypes, TxsOK, TxOK
  <2> QED
    BY <2>1, <2>2, UnwrittenKeeps
<1> QED
  BY <1>2, <1>3, <1>4, <1>5, <1>6, <1>7, BeginSaleKeeps, BeginCountKeeps, BeginUndoKeeps,
     BeginMirrorKeeps, CommitSetKeeps DEF ShelfNext

LEMMA ShelfHolds == ShelfSpec => []ShelfInv
  BY ShelfStarts, ShelfSteps, PTL DEF ShelfSpec

\* ShelfExplained, for every number of sizes, transactions in flight and
\* movements: none of the seven writers loses what another one did.
THEOREM ShelfAlwaysExplained == ShelfSpec => []ShelfExplained
<1>1. ShelfInv => ShelfExplained
  BY ExplainedSame DEF ShelfInv
<1> QED
  BY <1>1, ShelfHolds, PTL

-----------------------------------------------------------------------------
(* What n units take, in all.                                              *)

\* What lies before the next row is what lies before a row, and the row.
LEMMA BeforeNext ==
    ASSUME NEW n \in Nat, NEW f \in [1..n -> Nat], NEW i \in 1..n
    PROVE  Before(f, i + 1) = Before(f, i) + f[i]
<1>1. PICK S \in SUBSET (1..n) : S = {k \in DOMAIN f : k < i}
  OBVIOUS
<1>2. IsFiniteSet(S)
  <2>1. IsFiniteSet(1..n)
    BY FS_Interval
  <2> QED
    BY <2>1, FS_Subset
<1>3. i \notin S /\ {k \in DOMAIN f : k < i + 1} = S \cup {i}
  BY <1>1
<1>4. PICK g, h : g = [j \in S |-> f[j]] /\ h = [j \in S \cup {i} |-> f[j]]
  OBVIOUS
<1>5. /\ g \in [S -> Int] /\ h \in [S \cup {i} -> Int]
      /\ \A j \in S : h[j] = g[j]
  BY <1>1, <1>4
<1>50. i \notin S
  BY <1>3
<1>6. \A u \in [S -> Int] : \A v \in [S \cup {i} -> Int] :
         (\A j \in S : v[j] = u[j]) => Sum(v) = Sum(u) + v[i]
  BY ONLY <1>2, <1>50, SumWith, Zenon
<1>7. Sum(h) = Sum(g) + h[i]
  BY <1>5, <1>6, Zenon
<1>8. h[i] = f[i] /\ Before(f, i) = Sum(g) /\ Before(f, i + 1) = Sum(h)
  BY <1>1, <1>3, <1>4 DEF Before
<1> QED
  BY <1>7, <1>8

LEMMA BeforeFirst ==
    ASSUME NEW n \in Nat, NEW f \in [1..n -> Nat]
    PROVE  Before(f, 1) = 0 /\ Before(f, n + 1) = Sum(f) /\ Sum(f) \in Nat
<1>1. {k \in DOMAIN f : k < 1} = {} /\ {k \in DOMAIN f : k < n + 1} = 1..n
  OBVIOUS
<1>2. PICK g : g = [j \in {k \in DOMAIN f : k < 1} |-> f[j]]
  OBVIOUS
<1>3. g \in [{} -> Int]
  BY <1>1, <1>2
<1>4. Before(f, 1) = 0
  BY <1>2, <1>3, SumOfNothing DEF Before
<1>5. [j \in {k \in DOMAIN f : k < n + 1} |-> f[j]] = f
  BY <1>1
<1>6. Before(f, n + 1) = Sum(f)
  <2>1. PICK r : r = [j \in {k \in DOMAIN f : k < n + 1} |-> f[j]]
    OBVIOUS
  <2>2. r = f
    BY <1>5, <2>1
  <2> QED
    BY <2>1, <2>2 DEF Before
<1>7. Sum(f) \in Nat
  BY FS_Interval, SumIsNatural
<1> QED
  BY <1>4, <1>6, <1>7

\* When there are enough, exactly so many are taken.
LEMMA FirstInTakesAll ==
    ASSUME NEW n \in Nat, NEW f \in [1..n -> Nat], NEW q \in Nat, q <= Sum(f)
    PROVE  Sum(FirstIn(f, q)) = q
<1>1. PICK h \in [1..n -> Nat] : h = FirstIn(f, q)
  BY FirstInFits
<1>2. \A i \in 1..n : h[i] = IF Before(f, i) >= q THEN 0
                             ELSE IF f[i] <= q - Before(f, i) THEN f[i] ELSE q - Before(f, i)
  BY <1>1 DEF FirstIn
<1>3. PICK Bad \in SUBSET Nat :
         Bad = {i \in 1..(n + 1) : Before(h, i) #
                   IF Before(f, i) <= q THEN Before(f, i) ELSE q}
  <2>1. 1..(n + 1) \subseteq Nat
    OBVIOUS
  <2> QED
    BY <2>1
<1>4. Bad = {}
  <2> SUFFICES ASSUME Bad # {} PROVE FALSE
    OBVIOUS
  <2>1. PICK m \in Bad : \A k \in Bad : m <= k
    BY SmallestNumber
  <2>2. m \in 1..(n + 1)
    BY <1>3
  <2>3. m # 1
    <3>1. Before(h, 1) = 0 /\ Before(f, 1) = 0
      BY BeforeFirst
    <3> QED
      BY <1>3, <3>1
  <2>4. PICK i \in 1..n : m = i + 1
    <3>1. m - 1 \in 1..n /\ m = (m - 1) + 1
      BY <2>2, <2>3
    <3> QED
      BY <3>1
  <2>5. i \notin Bad /\ i \in 1..(n + 1)
    BY <2>1, <2>4
  <2>6. Before(h, i) = IF Before(f, i) <= q THEN Before(f, i) ELSE q
    BY <1>3, <2>5
  <2>7. Before(h, m) = Before(h, i) + h[i] /\ Before(f, m) = Before(f, i) + f[i]
    BY <2>4, BeforeNext
  <2>8. PICK a \in Nat : a = Before(f, i)
    BY BeforeInt
  <2>9. PICK b \in Nat : b = f[i]
    OBVIOUS
  <2>10. h[i] = IF a >= q THEN 0 ELSE IF b <= q - a THEN b ELSE q - a
    BY <1>2, <2>8, <2>9
  <2>11. Before(h, m) = (IF a <= q THEN a ELSE q)
                          + (IF a >= q THEN 0 ELSE IF b <= q - a THEN b ELSE q - a)
    BY <2>6, <2>7, <2>8, <2>10
  <2>12. Before(f, m) = a + b
    BY <2>7, <2>8, <2>9
  <2>13. Before(h, m) = IF Before(f, m) <= q THEN Before(f, m) ELSE q
    BY <2>11, <2>12
  <2> QED
    BY <1>3, <2>13
<1>5. n + 1 \in 1..(n + 1) /\ n + 1 \notin Bad
  BY <1>4
<1>6. Before(h, n + 1) = IF Before(f, n + 1) <= q THEN Before(f, n + 1) ELSE q
  BY <1>3, <1>5
<1>7. Sum(h) = IF Sum(f) <= q THEN Sum(f) ELSE q
  BY <1>6, BeforeFirst
<1>8. Sum(f) \in Nat
  BY BeforeFirst
<1> QED
  BY <1>1, <1>7, <1>8

\* Counted from o + 1 on.
LEMMA ShiftedSum ==
    ASSUME NEW n \in Nat, NEW o \in Nat
    PROVE  \A g \in [1..n -> Int] : \A h \in [(1 + o)..(n + o) -> Int] :
              (\A k \in 1..n : g[k] = h[k + o]) => Sum(g) = Sum(h)
<1>1. PICK S, T : S = 1..n /\ T = (1 + o)..(n + o)
  OBVIOUS
<1>2. PICK b : b = [k \in S |-> k + o]
  OBVIOUS
<1>3. /\ b \in [S -> T] /\ \A x, y \in S : b[x] = b[y] => x = y
      /\ \A t \in T : \E x \in S : b[x] = t
  <2>1. \A t \in T : t - o \in S /\ (t - o) + o = t
    BY <1>1
  <2> QED
    BY <1>1, <1>2, <2>1
<1>4. b \in Bijection(S, T)
  BY <1>3 DEF Bijection, Injection, IsInjective, Surjection
<1>5. IsFiniteSet(S)
  BY <1>1, FS_Interval
<1>6. \A f \in [T -> Int] : \A h \in [S -> Int] :
         (\A x \in S : h[x] = f[b[x]]) => Sum(h) = Sum(f)
  BY ONLY <1>4, <1>5, SumReindexed
<1> QED
  BY <1>1, <1>2, <1>6

\* A row in front, or none, and one at the end.
LEMMA GrownSum ==
    ASSUME NEW n \in Nat, NEW o \in {0, 1}
    PROVE  \A g \in [1..n -> Int] : \A h \in [1..(n + o + 1) -> Int] :
              (\A k \in 1..n : h[k + o] = g[k])
                 => Sum(h) = Sum(g) + h[n + o + 1] + IF o = 1 THEN h[1] ELSE 0
<1> SUFFICES ASSUME NEW g \in [1..n -> Int], NEW h \in [1..(n + o + 1) -> Int],
                    \A k \in 1..n : h[k + o] = g[k]
             PROVE  Sum(h) = Sum(g) + h[n + o + 1] + IF o = 1 THEN h[1] ELSE 0
  OBVIOUS
<1>1. IsFiniteSet(1..n) /\ IsFiniteSet(1..(n + o)) /\ IsFiniteSet((1 + o)..(n + o))
  BY FS_Interval
<1>2. PICK mid \in [(1 + o)..(n + o) -> Int] : mid = [k \in (1 + o)..(n + o) |-> h[k]]
  <2>1. \A k \in (1 + o)..(n + o) : h[k] \in Int
    OBVIOUS
  <2> QED
    BY <2>1
<1>3. \A k \in 1..n : g[k] = mid[k + o]
  BY <1>2
<1>6. Sum(g) = Sum(mid)
  <2>1. o \in Nat
    OBVIOUS
  <2>2. \A u \in [1..n -> Int] : \A v \in [(1 + o)..(n + o) -> Int] :
              (\A k \in 1..n : u[k] = v[k + o]) => Sum(u) = Sum(v)
    BY ONLY <2>1, ShiftedSum
  <2> QED
    BY <1>3, <2>2, Zenon
<1>7. PICK low \in [1..(n + o) -> Int] : low = [k \in 1..(n + o) |-> h[k]]
  <2>1. \A k \in 1..(n + o) : h[k] \in Int
    OBVIOUS
  <2> QED
    BY <2>1
<1>8. Sum(low) = Sum(mid) + IF o = 1 THEN h[1] ELSE 0
  <2>1. CASE o = 0
    <3>1. low = mid
      BY <1>2, <1>7, <2>1
    <3>2. Sum(mid) \in Int
      BY <1>1, SumOfInts
    <3> QED
      BY <2>1, <3>1, <3>2
  <2>2. CASE o = 1
    <3>1. PICK D : D = (1 + o)..(n + o)
      OBVIOUS
    <3>2. IsFiniteSet(D)
      BY <1>1, <3>1
    <3>3. 1 \notin D
      BY <2>2, <3>1
    <3>30. \A c : c \notin D =>
              \A u \in [D -> Int] : \A v \in [D \cup {c} -> Int] :
                 (\A j \in D : v[j] = u[j]) => Sum(v) = Sum(u) + v[c]
      BY ONLY <3>2, SumWith, Zenon
    <3>4. \A u \in [D -> Int] : \A v \in [D \cup {1} -> Int] :
             (\A j \in D : v[j] = u[j]) => Sum(v) = Sum(u) + v[1]
      BY ONLY <3>3, <3>30, Zenon
    <3>5. D \cup {1} = 1..(n + o)
      <4>1. D = 2..(n + 1) /\ n + o = n + 1
        BY <2>2, <3>1
      <4>2. n + 1 >= 1
        OBVIOUS
      <4> QED
        BY <4>1, <4>2
    <3>6. /\ mid \in [D -> Int] /\ low \in [D \cup {1} -> Int]
          /\ \A j \in D : low[j] = mid[j]
      <4>1. mid \in [D -> Int] /\ low \in [D \cup {1} -> Int]
        BY <3>1, <3>5
      <4>2. \A j \in D : j \in 1..(n + o)
        BY <2>2, <3>1
      <4> QED
        BY <1>2, <1>7, <3>1, <4>1, <4>2
    <3>7. Sum(low) = Sum(mid) + low[1]
      BY <3>4, <3>6, Zenon
    <3> QED
      BY <1>7, <2>2, <3>7
  <2> QED
    BY <2>1, <2>2
<1>9. Sum(h) = Sum(low) + h[n + o + 1]
  <2>1. PICK D, x : D = 1..(n + o) /\ x = n + o + 1
    OBVIOUS
  <2>2. IsFiniteSet(D)
    BY <1>1, <2>1
  <2>3. x \notin D
    BY <2>1
  <2>4. \A u \in [D -> Int] : \A v \in [D \cup {x} -> Int] :
           (\A j \in D : v[j] = u[j]) => Sum(v) = Sum(u) + v[x]
    BY ONLY <2>2, <2>3, SumWith, Zenon
  <2>5. D \cup {x} = 1..(n + o + 1)
    <3>1. PICK m \in Nat : m = n + o
      OBVIOUS
    <3>2. (1..m) \cup {m + 1} = 1..(m + 1)
      OBVIOUS
    <3> QED
      BY <2>1, <3>1, <3>2
  <2>6. low \in [D -> Int] /\ h \in [D \cup {x} -> Int] /\ \A j \in D : h[j] = low[j]
    BY <1>7, <2>1, <2>5
  <2>7. Sum(h) = Sum(low) + h[x]
    BY <2>4, <2>6, Zenon
  <2> QED
    BY <2>1, <2>7
<1>10. /\ Sum(g) \in Int /\ h[n + o + 1] \in Int /\ h[1] \in Int
  BY <1>1, SumOfInts
<1> QED
  BY <1>6, <1>8, <1>9, <1>10

-----------------------------------------------------------------------------
(* The batches of a size, made by one of the first n movements each.       *)

Part(f, x) == IF x \in DOMAIN f THEN f[x] ELSE 0
Sources(ls) == {ls[k].source : k \in DOMAIN ls}
LotColumns == {"source", "mode", "initial", "left"}
LotOK(l, n) ==
    /\ DOMAIN l = LotColumns /\ l.left \in Nat /\ l.initial \in Int
    /\ \E s \in {"legacy", "receipt"} : \E i \in Nat : i <= n /\ l.source = <<s, i>>
LotsOK(ls, n) ==
    /\ \E S : ls \in Seq(S)
    /\ \A k \in DOMAIN ls : LotOK(ls[k], n)
    /\ \A j \in DOMAIN ls : \A k \in DOMAIN ls : ls[j].source = ls[k].source => j = k

LEMMA LotsFacts ==
    ASSUME NEW ls, NEW n, LotsOK(ls, n)
    PROVE  /\ Len(ls) \in Nat /\ DOMAIN ls = 1..Len(ls) /\ IsFiniteSet(DOMAIN ls)
           /\ ls = [k \in DOMAIN ls |-> ls[k]]
           /\ Left(ls) \in [1..Len(ls) -> Nat] /\ Tracked(ls) \in Nat
           /\ Consigned(ls) \in SUBSET DOMAIN ls
<1>1. PICK S : ls \in Seq(S)
  BY DEF LotsOK
<1>2. Len(ls) \in Nat /\ DOMAIN ls = 1..Len(ls) /\ ls = [k \in DOMAIN ls |-> ls[k]]
  BY <1>1
<1>3. IsFiniteSet(DOMAIN ls)
  BY <1>2, FS_Interval
<1>4. \A k \in DOMAIN ls : ls[k].left \in Nat
  BY DEF LotsOK, LotOK
<1>5. Left(ls) \in [1..Len(ls) -> Nat]
  BY <1>2, <1>4 DEF Left
<1>6. Tracked(ls) \in Nat
  BY <1>2, <1>5, BeforeFirst DEF Tracked
<1> QED
  BY <1>2, <1>3, <1>5, <1>6 DEF Consigned

\* A sum over the consigned batches is one over all, without the others.
LEMMA ConsignedSum ==
    ASSUME NEW ls, NEW n, LotsOK(ls, n)
    PROVE  \A c \in [Consigned(ls) -> Int] : \A m \in [DOMAIN ls -> Int] :
              (\A k \in DOMAIN ls : m[k] = IF k \in Consigned(ls) THEN c[k] ELSE 0)
                 => Sum(c) = Sum(m)
<1>1. PICK D, T : D = DOMAIN ls /\ T = Consigned(ls)
  OBVIOUS
<1>2. IsFiniteSet(D)
  BY <1>1, LotsFacts
<1>20. T \in SUBSET D
  BY <1>1, LotsFacts
<1>3. \A f \in [D -> Int] : \A h \in [T -> Int] :
         (\A x \in T : h[x] = f[x]) /\ (\A x \in D \ T : f[x] = 0) => Sum(h) = Sum(f)
  BY ONLY <1>2, <1>20, SumOfSupport
<1> QED
  BY <1>1, <1>20, <1>3

\* What a receipt makes of the batches ls: an opening balance in front (o = 1)
\* or none, and one batch more.
Grown(ls, new, o, n) ==
    /\ o \in {0, 1} /\ DOMAIN new = 1..(Len(ls) + o + 1)
    /\ \A k \in 1..Len(ls) : new[k + o] = ls[k]
    /\ /\ new[Len(ls) + o + 1].source = <<"receipt", n>>
       /\ new[Len(ls) + o + 1].left = new[Len(ls) + o + 1].initial
    /\ o = 1 => new[1].source = <<"legacy", n>> /\ new[1].left = new[1].initial

LEMMA ReceiptGrows ==
    ASSUME NEW n \in Nat, NEW ls, LotsOK(ls, n), NEW was \in Int, Tracked(ls) <= was,
           NEW q \in Nat, NEW mode
    PROVE  \A new : new = AsReceipt(Opening(ls, was, n + 1) \o ls, q, mode, n + 1) =>
              /\ \E o \in {0, 1} : Grown(ls, new, o, n + 1)
              /\ LotsOK(new, n + 1) /\ Tracked(new) = was + q
<1> SUFFICES ASSUME NEW new, new = AsReceipt(Opening(ls, was, n + 1) \o ls, q, mode, n + 1)
             PROVE  /\ \E o \in {0, 1} : Grown(ls, new, o, n + 1)
                    /\ LotsOK(new, n + 1) /\ Tracked(new) = was + q
  OBVIOUS
<1>1. PICK S : ls \in Seq(S)
  BY DEF LotsOK
<1>2. PICK len \in Nat : len = Len(ls) /\ DOMAIN ls = 1..len
  BY LotsFacts
<1>3. PICK t \in Nat : t = Tracked(ls)
  BY LotsFacts
<1>4. PICK open : open = [source |-> <<"legacy", n + 1>>, mode |-> "consignment",
                          initial |-> was - t, left |-> was - t]
  OBVIOUS
<1>5. PICK last : last = [source |-> <<"receipt", n + 1>>, mode |-> mode, initial |-> q, left |-> q]
  OBVIOUS
<1>6. /\ LotOK(last, n + 1) /\ last.source = <<"receipt", n + 1>>
      /\ last.left = q /\ last.initial = q
  BY <1>5 DEF LotOK, LotColumns
<1>7. /\ LotOK(open, n + 1) /\ open.source = <<"legacy", n + 1>>
      /\ open.left = was - t /\ open.initial = was - t
  <2>1. was - t \in Nat
    BY <1>3
  <2> QED
    BY <1>4, <2>1 DEF LotOK, LotColumns
<1>8. PICK o \in {0, 1} : o = IF t = was THEN 0 ELSE 1
  OBVIOUS
<1>9. PICK pre : pre = Opening(ls, was, n + 1) \o ls
  OBVIOUS
<1>10. /\ pre \in Seq(S \cup {open}) /\ Len(pre) = len + o
       /\ \A k \in 1..len : pre[k + o] = ls[k]
       /\ o = 1 => pre[1] = open
  <2>1. CASE t = was
    <3>1. pre = ls
      BY <1>1, <1>3, <1>9, <2>1 DEF Opening, NoLots
    <3> QED
      BY <1>1, <1>2, <1>8, <2>1, <3>1
  <2>2. CASE t # was
    <3>1. pre = <<open>> \o ls
      BY <1>3, <1>4, <1>9, <2>2 DEF Opening
    <3>2. <<open>> \in Seq(S \cup {open}) /\ ls \in Seq(S \cup {open})
      BY <1>1
    <3> QED
      BY <1>2, <1>8, <2>2, <3>1, <3>2
  <2> QED
    BY <2>1, <2>2
<1>11. new = Append(pre, last)
  BY <1>5, <1>9 DEF AsReceipt
<1>12. pre \in Seq(S \cup {open, last})
  BY <1>10
<1>13. /\ new \in Seq(S \cup {open, last}) /\ Len(new) = len + o + 1
       /\ DOMAIN new = 1..(len + o + 1)
       /\ \A k \in 1..len : new[k + o] = ls[k]
       /\ new[len + o + 1] = last
       /\ o = 1 => new[1] = open
  <2>1. PICK m \in Nat : m = len + o
    OBVIOUS
  <2>2. Len(pre) = m /\ DOMAIN pre = 1..m
    BY <1>10, <2>1
  <2>3. /\ new \in Seq(S \cup {open, last}) /\ Len(new) = m + 1 /\ DOMAIN new = 1..(m + 1)
        /\ new[m + 1] = last /\ \A k \in 1..m : new[k] = pre[k]
    BY <1>11, <1>12, <2>2
  <2>4. \A k \in 1..len : k + o \in 1..m
    BY <2>1
  <2>5. o = 1 => 1 \in 1..m
    BY <2>1
  <2> QED
    BY <1>10, <2>1, <2>3, <2>4, <2>5
<1>14. Grown(ls, new, o, n + 1)
  BY <1>2, <1>6, <1>7, <1>13 DEF Grown
<1>15. ASSUME NEW k \in DOMAIN new
       PROVE  \/ \E j \in 1..len : k = j + o /\ new[k] = ls[j]
              \/ k = len + o + 1 /\ new[k] = last
              \/ k = 1 /\ o = 1 /\ new[k] = open
  <2>1. CASE k \in (1 + o)..(len + o)
    <3>1. k - o \in 1..len /\ k = (k - o) + o
      BY <2>1
    <3> QED
      BY <1>13, <3>1
  <2>2. CASE k \notin (1 + o)..(len + o)
    BY <1>13, <2>2
  <2> QED
    BY <2>1, <2>2
<1>16. \A j \in 1..len : LotOK(ls[j], n) /\ LotOK(ls[j], n + 1)
  <2> SUFFICES ASSUME NEW j \in 1..len
               PROVE  LotOK(ls[j], n) /\ LotOK(ls[j], n + 1)
    OBVIOUS
  <2>1. LotOK(ls[j], n)
    BY <1>2 DEF LotsOK
  <2>2. \A i \in Nat : i <= n => i <= n + 1
    OBVIOUS
  <2> QED
    BY <2>1, <2>2 DEF LotOK
<1>17. \A k \in DOMAIN new : LotOK(new[k], n + 1)
  BY <1>6, <1>7, <1>15, <1>16
<1>18. \A j \in 1..len : ls[j].source # open.source /\ ls[j].source # last.source
  <2> SUFFICES ASSUME NEW j \in 1..len
               PROVE  ls[j].source # open.source /\ ls[j].source # last.source
    OBVIOUS
  <2>1. PICK s \in {"legacy", "receipt"} : \E i \in Nat : i <= n /\ ls[j].source = <<s, i>>
    BY <1>16 DEF LotOK
  <2>2. PICK i \in Nat : i <= n /\ ls[j].source = <<s, i>>
    BY <2>1
  <2> QED
    BY <1>6, <1>7, <2>2
<1>19. open.source # last.source
  BY <1>6, <1>7
<1>20. \A j \in DOMAIN new : \A k \in DOMAIN new : new[j].source = new[k].source => j = k
  <2> SUFFICES ASSUME NEW j \in DOMAIN new, NEW k \in DOMAIN new,
                      new[j].source = new[k].source
               PROVE  j = k
    OBVIOUS
  <2>1. \A a, b \in 1..len : ls[a].source = ls[b].source => a = b
    BY <1>2 DEF LotsOK
  <2> QED
    BY <1>15, <1>18, <1>19, <2>1
<1>21. LotsOK(new, n + 1)
  BY <1>13, <1>17, <1>20, Zenon DEF LotsOK
<1>22. Tracked(new) = was + q
  <2>1. PICK g \in [1..len -> Int] : g = Left(ls)
    BY <1>2, LotsFacts
  <2>2. PICK h \in [1..(len + o + 1) -> Int] : h = Left(new)
    BY <1>13, <1>21, LotsFacts
  <2>3. /\ \A k \in 1..len : h[k + o] = g[k]
        /\ h[len + o + 1] = q
        /\ o = 1 => h[1] = was - t
    BY <1>2, <1>6, <1>7, <1>13, <2>1, <2>2 DEF Left
  <2>4. Sum(h) = Sum(g) + h[len + o + 1] + IF o = 1 THEN h[1] ELSE 0
    BY <2>3, GrownSum
  <2>5. Sum(g) = t /\ Tracked(new) = Sum(h)
    BY <1>3, <2>1, <2>2 DEF Tracked
  <2> QED
    BY <1>8, <2>3, <2>4, <2>5
<1> QED
  BY <1>14, <1>21, <1>22

\* Entries of the batches, with zeros for the new ones.
Padded(ls, o, g, h) ==
    /\ \A k \in 1..Len(ls) : h[k + o] = g[k]
    /\ h[Len(ls) + o + 1] = 0
    /\ o = 1 => h[1] = 0
SameSums(ls, new, g, h) ==
    /\ Sum(h) = Sum(g)
    /\ Sum([k \in Consigned(new) |-> h[k]]) = Sum([k \in Consigned(ls) |-> g[k]])

\* The new batches count for nothing where their entries are zero.
LEMMA GrownSums ==
    ASSUME NEW n \in Nat, NEW ls, LotsOK(ls, n), NEW new, LotsOK(new, n + 1),
           NEW o \in {0, 1}, Grown(ls, new, o, n + 1)
    PROVE  \A g \in [DOMAIN ls -> Int] : \A h \in [DOMAIN new -> Int] :
              Padded(ls, o, g, h) => SameSums(ls, new, g, h)
<1> SUFFICES ASSUME NEW g \in [DOMAIN ls -> Int], NEW h \in [DOMAIN new -> Int],
                    \A k \in 1..Len(ls) : h[k + o] = g[k],
                    h[Len(ls) + o + 1] = 0, o = 1 => h[1] = 0
             PROVE  /\ Sum(h) = Sum(g)
                    /\ Sum([k \in Consigned(new) |-> h[k]])
                          = Sum([k \in Consigned(ls) |-> g[k]])
  BY Zenon DEF Padded, SameSums
<1>1. PICK len \in Nat : len = Len(ls) /\ DOMAIN ls = 1..len
  BY LotsFacts
<1>2. DOMAIN new = 1..(len + o + 1)
  BY <1>1 DEF Grown
<1>3. \A u \in [1..len -> Int] : \A v \in [1..(len + o + 1) -> Int] :
         (\A k \in 1..len : v[k + o] = u[k])
            => Sum(v) = Sum(u) + v[len + o + 1] + IF o = 1 THEN v[1] ELSE 0
  BY GrownSum
<1>4. \A u \in [1..len -> Int] : Sum(u) \in Int
  BY FS_Interval, SumOfInts
<1>5. \A u \in [1..len -> Int] : \A v \in [1..(len + o + 1) -> Int] :
         (\A k \in 1..len : v[k + o] = u[k]) /\ v[len + o + 1] = 0 /\ (o = 1 => v[1] = 0)
            => Sum(v) = Sum(u)
  <2> SUFFICES ASSUME NEW u \in [1..len -> Int], NEW v \in [1..(len + o + 1) -> Int],
                      \A k \in 1..len : v[k + o] = u[k],
                      v[len + o + 1] = 0, o = 1 => v[1] = 0
               PROVE  Sum(v) = Sum(u)
    BY Zenon
  <2>1. Sum(v) = Sum(u) + v[len + o + 1] + IF o = 1 THEN v[1] ELSE 0
    BY <1>3, Zenon
  <2>2. Sum(u) \in Int
    BY <1>4, Zenon
  <2>3. (IF o = 1 THEN v[1] ELSE 0) = 0
    OBVIOUS
  <2>4. PICK a \in Int : a = Sum(u)
    BY <2>2
  <2>5. Sum(v) = a + 0 + 0
    BY <2>1, <2>3, <2>4
  <2> QED
    BY <2>4, <2>5
<1>6. Sum(h) = Sum(g)
  BY <1>1, <1>2, <1>5
<1>7. PICK c : c = [k \in Consigned(ls) |-> g[k]]
  OBVIOUS
<1>8. PICK d : d = [k \in Consigned(new) |-> h[k]]
  OBVIOUS
<1>9. /\ c \in [Consigned(ls) -> Int] /\ d \in [Consigned(new) -> Int]
      /\ Consigned(ls) \subseteq 1..len /\ Consigned(new) \subseteq 1..(len + o + 1)
  BY <1>1, <1>2, <1>7, <1>8, LotsFacts
<1>10. PICK mc \in [1..len -> Int] :
          mc = [k \in 1..len |-> IF k \in Consigned(ls) THEN c[k] ELSE 0]
  <2>1. \A k \in 1..len : (IF k \in Consigned(ls) THEN c[k] ELSE 0) \in Int
    BY <1>9
  <2> QED
    BY <2>1
<1>11. PICK md \in [1..(len + o + 1) -> Int] :
          md = [k \in 1..(len + o + 1) |-> IF k \in Consigned(new) THEN d[k] ELSE 0]
  <2>1. \A k \in 1..(len + o + 1) : (IF k \in Consigned(new) THEN d[k] ELSE 0) \in Int
    BY <1>9
  <2> QED
    BY <2>1
<1>12. Sum(c) = Sum(mc)
  <2>1. \A u \in [Consigned(ls) -> Int] : \A m \in [DOMAIN ls -> Int] :
              (\A k \in DOMAIN ls : m[k] = IF k \in Consigned(ls) THEN u[k] ELSE 0)
                 => Sum(u) = Sum(m)
    BY ConsignedSum
  <2> QED
    BY <1>1, <1>9, <1>10, <2>1
<1>13. Sum(d) = Sum(md)
  <2>1. \A u \in [Consigned(new) -> Int] : \A m \in [DOMAIN new -> Int] :
              (\A k \in DOMAIN new : m[k] = IF k \in Consigned(new) THEN u[k] ELSE 0)
                 => Sum(u) = Sum(m)
    BY ConsignedSum
  <2> QED
    BY <1>2, <1>9, <1>11, <2>1
<1>14. \A k \in 1..len : k + o \in Consigned(new) <=> k \in Consigned(ls)
  <2>1. \A k \in 1..len : k + o \in 1..(len + o + 1) /\ new[k + o] = ls[k]
    BY <1>1 DEF Grown
  <2> QED
    BY <1>1, <1>2, <2>1 DEF Consigned
<1>15. /\ \A k \in 1..len : md[k + o] = mc[k]
       /\ md[len + o + 1] = 0 /\ (o = 1 => md[1] = 0)
  <2>1. \A k \in 1..len : k + o \in 1..(len + o + 1)
    OBVIOUS
  <2>2. len + o + 1 \in 1..(len + o + 1) /\ 1 \in 1..(len + o + 1)
    OBVIOUS
  <2> QED
    BY <1>1, <1>7, <1>8, <1>10, <1>11, <1>14, <2>1, <2>2
<1>16. Sum(md) = Sum(mc)
  BY <1>5, <1>15
<1> QED
  BY <1>6, <1>7, <1>8, <1>12, <1>13, <1>16

-----------------------------------------------------------------------------
(* What a movement says it took from the batches.                          *)

Given(ls, f) == Sum([k \in DOMAIN ls |-> Part(f, ls[k].source)])
Owed(ls, f) == Sum([k \in Consigned(ls) |-> Part(f, ls[k].source)])
FromOK(ls, f) == f \in [DOMAIN f -> Nat] /\ DOMAIN f \subseteq Sources(ls)
RowOK(ls, m) ==
    /\ FromOK(ls, m.from)
    /\ m.from # NoFrom => Given(ls, m.from) = -m.qty
    /\ m.kind = "sale" /\ m.from # NoFrom => m.bill = Owed(ls, m.from)

LEMMA PartIsNat ==
    ASSUME NEW ls, NEW f, FromOK(ls, f)
    PROVE  \A x : Part(f, x) \in Nat
  BY DEF FromOK, Part

LEMMA NoFromIsNothing == DOMAIN NoFrom = {} /\ \A x : Part(NoFrom, x) = 0
  BY DEF NoFrom, Part

LEMMA GivenTyped ==
    ASSUME NEW n, NEW ls, LotsOK(ls, n), NEW f, FromOK(ls, f)
    PROVE  /\ [k \in DOMAIN ls |-> Part(f, ls[k].source)] \in [DOMAIN ls -> Int]
           /\ [k \in Consigned(ls) |-> Part(f, ls[k].source)] \in [Consigned(ls) -> Int]
           /\ Given(ls, f) \in Int /\ Owed(ls, f) \in Int
<1>1. IsFiniteSet(DOMAIN ls) /\ IsFiniteSet(Consigned(ls))
  BY LotsFacts, FS_Subset
<1>2. \A x : Part(f, x) \in Int
  BY PartIsNat
<1>3. PICK g : g = [k \in DOMAIN ls |-> Part(f, ls[k].source)]
  OBVIOUS
<1>4. PICK h : h = [k \in Consigned(ls) |-> Part(f, ls[k].source)]
  OBVIOUS
<1>5. g \in [DOMAIN ls -> Int] /\ h \in [Consigned(ls) -> Int]
  BY <1>2, <1>3, <1>4
<1>6. Sum(g) \in Int /\ Sum(h) \in Int
  BY <1>1, <1>5, SumOfInts
<1> QED
  BY <1>3, <1>4, <1>5, <1>6 DEF Given, Owed

\* A receipt changes nothing of what the movements before it took.
LEMMA GrownKeepsFrom ==
    ASSUME NEW n \in Nat, NEW ls, LotsOK(ls, n), NEW new, LotsOK(new, n + 1),
           NEW o \in {0, 1}, Grown(ls, new, o, n + 1), NEW f, FromOK(ls, f)
    PROVE  FromOK(new, f) /\ Given(new, f) = Given(ls, f) /\ Owed(new, f) = Owed(ls, f)
<1>1. PICK len \in Nat : len = Len(ls) /\ DOMAIN ls = 1..len
  BY LotsFacts
<1>2. DOMAIN new = 1..(len + o + 1) /\ \A k \in 1..len : new[k + o] = ls[k]
  BY <1>1 DEF Grown
<1>3. FromOK(new, f)
  <2>1. \A k \in 1..len : k + o \in 1..(len + o + 1)
    OBVIOUS
  <2>2. Sources(ls) \subseteq Sources(new)
    BY <1>1, <1>2, <2>1 DEF Sources
  <2> QED
    BY <2>2 DEF FromOK
<1>4. \A s \in {"legacy", "receipt"} : <<s, n + 1>> \notin DOMAIN f
  <2> SUFFICES ASSUME NEW s \in {"legacy", "receipt"}, NEW k \in DOMAIN ls,
                      ls[k].source = <<s, n + 1>>
               PROVE  FALSE
    BY DEF FromOK, Sources
  <2>1. PICK r \in {"legacy", "receipt"} : \E i \in Nat : i <= n /\ ls[k].source = <<r, i>>
    BY DEF LotsOK, LotOK
  <2> QED
    BY <2>1
<1>5. PICK g : g = [k \in DOMAIN ls |-> Part(f, ls[k].source)]
  OBVIOUS
<1>6. PICK h : h = [k \in DOMAIN new |-> Part(f, new[k].source)]
  OBVIOUS
<1>7. g \in [DOMAIN ls -> Int] /\ h \in [DOMAIN new -> Int]
  BY <1>3, <1>5, <1>6, GivenTyped
<1>8. \A k \in 1..len : h[k + o] = g[k]
  <2>1. \A k \in 1..len : k + o \in 1..(len + o + 1)
    OBVIOUS
  <2> QED
    BY <1>1, <1>2, <1>5, <1>6, <2>1
<1>9. h[len + o + 1] = 0 /\ (o = 1 => h[1] = 0)
  <2>1. len + o + 1 \in DOMAIN new /\ 1 \in DOMAIN new
    BY <1>2
  <2> QED
    BY <1>1, <1>4, <1>6, <2>1 DEF Grown, Part
<1>10. /\ Sum(h) = Sum(g)
       /\ Sum([k \in Consigned(new) |-> h[k]]) = Sum([k \in Consigned(ls) |-> g[k]])
  <2>1. /\ n \in Nat /\ LotsOK(ls, n) /\ LotsOK(new, n + 1) /\ o \in {0, 1}
        /\ Grown(ls, new, o, n + 1)
    OBVIOUS
  <2>2. \A u \in [DOMAIN ls -> Int] : \A v \in [DOMAIN new -> Int] :
           Padded(ls, o, u, v) => SameSums(ls, new, u, v)
    BY ONLY <2>1, GrownSums
  <2>3. Padded(ls, o, g, h)
    BY <1>1, <1>8, <1>9 DEF Padded
  <2> QED
    BY <1>7, <2>2, <2>3, Zenon DEF SameSums
<1>11. /\ [k \in Consigned(new) |-> h[k]] = [k \in Consigned(new) |-> Part(f, new[k].source)]
       /\ [k \in Consigned(ls) |-> g[k]] = [k \in Consigned(ls) |-> Part(f, ls[k].source)]
  BY <1>5, <1>6 DEF Consigned
<1>12. Given(ls, f) = Sum(g) /\ Given(new, f) = Sum(h)
  BY <1>5, <1>6 DEF Given
<1>13. Owed(new, f) = Owed(ls, f)
  BY <1>10, <1>11, Zenon DEF Owed
<1> QED
  BY <1>3, <1>10, <1>12, <1>13

-----------------------------------------------------------------------------
(* What has left the consigned batches.                                    *)

Out(ls) == Sum([k \in Consigned(ls) |-> ls[k].initial - ls[k].left])

LEMMA OutTyped ==
    ASSUME NEW n, NEW ls, LotsOK(ls, n)
    PROVE  /\ [k \in DOMAIN ls |-> ls[k].initial - ls[k].left] \in [DOMAIN ls -> Int]
           /\ [k \in Consigned(ls) |-> ls[k].initial - ls[k].left] \in [Consigned(ls) -> Int]
           /\ Out(ls) \in Int
<1>1. IsFiniteSet(Consigned(ls))
  BY LotsFacts, FS_Subset
<1>2. \A k \in DOMAIN ls : ls[k].initial - ls[k].left \in Int
  BY DEF LotsOK, LotOK
<1>3. PICK g : g = [k \in Consigned(ls) |-> ls[k].initial - ls[k].left]
  OBVIOUS
<1>4. g \in [Consigned(ls) -> Int]
  BY <1>2, <1>3, LotsFacts
<1>5. Sum(g) \in Int
  BY <1>1, <1>4, SumOfInts
<1> QED
  BY <1>2, <1>3, <1>4, <1>5 DEF Out

\* A receipt lets nothing out.
LEMMA GrownOut ==
    ASSUME NEW n \in Nat, NEW ls, LotsOK(ls, n), NEW new, LotsOK(new, n + 1),
           NEW o \in {0, 1}, Grown(ls, new, o, n + 1)
    PROVE  Out(new) = Out(ls)
<1>1. PICK len \in Nat : len = Len(ls) /\ DOMAIN ls = 1..len
  BY LotsFacts
<1>2. DOMAIN new = 1..(len + o + 1) /\ \A k \in 1..len : new[k + o] = ls[k]
  BY <1>1 DEF Grown
<1>3. PICK g : g = [k \in DOMAIN ls |-> ls[k].initial - ls[k].left]
  OBVIOUS
<1>4. PICK h : h = [k \in DOMAIN new |-> new[k].initial - new[k].left]
  OBVIOUS
<1>5. g \in [DOMAIN ls -> Int] /\ h \in [DOMAIN new -> Int]
  BY <1>3, <1>4, OutTyped
<1>6. \A k \in 1..len : h[k + o] = g[k]
  <2>1. \A k \in 1..len : k + o \in 1..(len + o + 1)
    OBVIOUS
  <2> QED
    BY <1>1, <1>2, <1>3, <1>4, <2>1
<1>7. h[len + o + 1] = 0
  <2>1. len + o + 1 \in DOMAIN new
    BY <1>2
  <2>2. /\ new[len + o + 1].left \in Int
        /\ new[len + o + 1].initial = new[len + o + 1].left
    BY <1>1, <2>1 DEF Grown, LotsOK, LotOK
  <2>3. h[len + o + 1] = new[len + o + 1].initial - new[len + o + 1].left
    BY <1>4, <2>1
  <2> QED
    BY <2>2, <2>3
<1>8. o = 1 => h[1] = 0
  <2>1. 1 \in DOMAIN new
    BY <1>2
  <2>2. o = 1 => new[1].left \in Int /\ new[1].initial = new[1].left
    BY <2>1 DEF Grown, LotsOK, LotOK
  <2>3. h[1] = new[1].initial - new[1].left
    BY <1>4, <2>1
  <2> QED
    BY <2>2, <2>3
<1>9. SameSums(ls, new, g, h)
  <2>1. /\ n \in Nat /\ LotsOK(ls, n) /\ LotsOK(new, n + 1) /\ o \in {0, 1}
        /\ Grown(ls, new, o, n + 1)
    OBVIOUS
  <2>2. \A u \in [DOMAIN ls -> Int] : \A v \in [DOMAIN new -> Int] :
           Padded(ls, o, u, v) => SameSums(ls, new, u, v)
    BY ONLY <2>1, GrownSums
  <2>3. Padded(ls, o, g, h)
    BY <1>1, <1>6, <1>7, <1>8 DEF Padded
  <2> QED
    BY <1>5, <2>2, <2>3
<1>10. /\ [k \in Consigned(new) |-> h[k]] = [k \in Consigned(new) |-> new[k].initial - new[k].left]
       /\ [k \in Consigned(ls) |-> g[k]] = [k \in Consigned(ls) |-> ls[k].initial - ls[k].left]
  BY <1>3, <1>4 DEF Consigned
<1> QED
  BY <1>9, <1>10, Zenon DEF SameSums, Out

\* Batches that differ in what is left of them, by d.
Drained(ls, new, d) ==
    /\ DOMAIN new = DOMAIN ls
    /\ \A k \in DOMAIN ls : /\ new[k].source = ls[k].source /\ new[k].mode = ls[k].mode
                            /\ new[k].initial = ls[k].initial
                            /\ ls[k].left = new[k].left + d[k]

LEMMA DrainedSums ==
    ASSUME NEW n, NEW ls, LotsOK(ls, n), NEW new, LotsOK(new, n),
           NEW d \in [DOMAIN ls -> Int], Drained(ls, new, d)
    PROVE  /\ Consigned(new) = Consigned(ls) /\ Sources(new) = Sources(ls)
           /\ Tracked(ls) = Tracked(new) + Sum(d)
           /\ Out(new) = Out(ls) + Sum([k \in Consigned(ls) |-> d[k]])
<1>1. Consigned(new) = Consigned(ls) /\ Sources(new) = Sources(ls)
  BY DEF Drained, Consigned, Sources
<1>2. PICK D, C : D = DOMAIN ls /\ C = Consigned(ls)
  OBVIOUS
<1>3. IsFiniteSet(D) /\ IsFiniteSet(C) /\ C \subseteq D
  BY <1>2, LotsFacts, FS_Subset
<1>4. PICK a, b : a = Left(ls) /\ b = Left(new)
  OBVIOUS
<1>5. /\ a \in [D -> Int] /\ b \in [D -> Int] /\ d \in [D -> Int]
      /\ \A k \in D : a[k] = b[k] + d[k]
  <2>1. \A k \in D : a[k] = ls[k].left /\ b[k] = new[k].left /\ a[k] \in Int /\ b[k] \in Int
    BY <1>2, <1>4 DEF Left, Drained, LotsOK, LotOK
  <2>2. a = [k \in D |-> a[k]] /\ b = [k \in D |-> b[k]]
    BY <1>2, <1>4 DEF Left, Drained
  <2> QED
    BY <1>2, <2>1, <2>2 DEF Drained
<1>6. \A f, h, k \in [D -> Int] :
         (\A x \in D : k[x] = f[x] + h[x]) => Sum(k) = Sum(f) + Sum(h)
  BY ONLY <1>3, SumOfSums
<1>7. Tracked(ls) = Tracked(new) + Sum(d)
  BY <1>4, <1>5, <1>6 DEF Tracked
<1>8. \A f, h, k \in [C -> Int] :
         (\A x \in C : k[x] = f[x] + h[x]) => Sum(k) = Sum(f) + Sum(h)
  BY ONLY <1>3, SumOfSums
<1>9. PICK p : p = [k \in C |-> ls[k].initial - ls[k].left]
  OBVIOUS
<1>10. PICK q : q = [k \in C |-> new[k].initial - new[k].left]
  OBVIOUS
<1>11. PICK r : r = [k \in C |-> d[k]]
  OBVIOUS
<1>12. p \in [C -> Int] /\ q \in [C -> Int] /\ r \in [C -> Int]
  BY <1>1, <1>2, <1>3, <1>9, <1>10, <1>11, OutTyped
<1>13. \A k \in C : q[k] = p[k] + r[k]
  <2>1. \A k \in C : /\ ls[k].initial \in Int /\ ls[k].left \in Int /\ new[k].left \in Int
                     /\ d[k] \in Int /\ new[k].initial = ls[k].initial
                     /\ ls[k].left = new[k].left + d[k]
    BY <1>2, <1>3 DEF Drained, LotsOK, LotOK
  <2> QED
    BY <1>9, <1>10, <1>11, <2>1
<1>14. Sum(q) = Sum(p) + Sum(r)
  BY <1>8, <1>12, <1>13
<1> QED
  BY <1>1, <1>2, <1>7, <1>9, <1>10, <1>11, <1>14 DEF Out

\* Batches with the same sources and modes give the same to a movement.
LEMMA DrainedKeepsFrom ==
    ASSUME NEW ls, NEW new, NEW d, Drained(ls, new, d), NEW f
    PROVE  /\ FromOK(new, f) <=> FromOK(ls, f)
           /\ Given(new, f) = Given(ls, f) /\ Owed(new, f) = Owed(ls, f)
<1>1. Consigned(new) = Consigned(ls) /\ Sources(new) = Sources(ls)
  BY DEF Drained, Consigned, Sources
<1>2. [k \in DOMAIN new |-> Part(f, new[k].source)] = [k \in DOMAIN ls |-> Part(f, ls[k].source)]
  BY DEF Drained
<1>3. [k \in Consigned(new) |-> Part(f, new[k].source)]
         = [k \in Consigned(ls) |-> Part(f, ls[k].source)]
  BY <1>1 DEF Drained, Consigned
<1> QED
  BY <1>1, <1>2, <1>3, Zenon DEF FromOK, Given, Owed

-----------------------------------------------------------------------------
(* What booking a movement does to the batches of its size.                *)

Taken(ls, q) == [i \in DOMAIN ls |-> [ls[i] EXCEPT !.left = @ - FirstIn(Left(ls), -q)[i]]]

\* Batches rewritten in what is left of them are batches.
Rewritten(ls, v) == [k \in DOMAIN ls |-> [ls[k] EXCEPT !.left = v[k]]]
LEMMA RewrittenOK ==
    ASSUME NEW n, NEW ls, LotsOK(ls, n), NEW v \in [DOMAIN ls -> Nat]
    PROVE  \A new : new = Rewritten(ls, v) =>
              /\ LotsOK(new, n) /\ DOMAIN new = DOMAIN ls
              /\ \A k \in DOMAIN ls : /\ new[k].source = ls[k].source /\ new[k].mode = ls[k].mode
                                      /\ new[k].initial = ls[k].initial /\ new[k].left = v[k]
<1> SUFFICES ASSUME NEW new, new = [k \in DOMAIN ls |-> [ls[k] EXCEPT !.left = v[k]]]
             PROVE  /\ LotsOK(new, n) /\ DOMAIN new = DOMAIN ls
                    /\ \A k \in DOMAIN ls :
                          /\ new[k].source = ls[k].source /\ new[k].mode = ls[k].mode
                          /\ new[k].initial = ls[k].initial /\ new[k].left = v[k]
  BY Zenon DEF Rewritten
<1>1. Len(ls) \in Nat /\ DOMAIN ls = 1..Len(ls)
  BY LotsFacts
<1>2. DOMAIN new = DOMAIN ls
  OBVIOUS
<1>3. \A k \in DOMAIN ls : LotOK(ls[k], n)
  BY DEF LotsOK
<1>4. ASSUME NEW k \in DOMAIN ls
      PROVE  /\ new[k].source = ls[k].source /\ new[k].mode = ls[k].mode
             /\ new[k].initial = ls[k].initial /\ new[k].left = v[k]
             /\ DOMAIN new[k] = LotColumns
  <2>1. DOMAIN ls[k] = LotColumns
    BY <1>3 DEF LotOK
  <2>2. new[k] = [ls[k] EXCEPT !.left = v[k]]
    OBVIOUS
  <2> QED
    BY <2>1, <2>2 DEF LotColumns
<1>5. \A k \in DOMAIN ls : LotOK(new[k], n)
  BY <1>3, <1>4 DEF LotOK
<1>6. new \in Seq({new[k] : k \in DOMAIN ls})
  <2>1. PICK T : T = {new[k] : k \in DOMAIN ls}
    OBVIOUS
  <2>2. PICK len \in Nat : len = Len(ls)
    BY <1>1
  <2>3. new \in [1..len -> T]
    <3>1. \A k \in 1..len : new[k] \in T
      BY <1>1, <2>1, <2>2
    <3>2. new = [k \in 1..len |-> new[k]]
      BY <1>1, <2>2
    <3> QED
      BY <3>1, <3>2
  <2>4. new \in Seq(T)
    BY <2>3, SeqDef
  <2> QED
    BY <2>1, <2>4
<1>7. \A j \in DOMAIN new : \A k \in DOMAIN new : new[j].source = new[k].source => j = k
  BY <1>2, <1>4 DEF LotsOK
<1>8. \A k \in DOMAIN new : LotOK(new[k], n)
  BY <1>2, <1>5
<1>9. \E S : new \in Seq(S)
  BY <1>6, Zenon
<1> QED
  BY <1>2, <1>4, <1>7, <1>8, <1>9, Zenon DEF LotsOK

\* Units that leave are taken from the batches, and the movement says so.
LEMMA TakeDrains ==
    ASSUME NEW n, NEW ls, LotsOK(ls, n), NEW q \in Int, q < 0, -q <= Tracked(ls)
    PROVE  \A new : new = Taken(ls, q) =>
              \E h \in [DOMAIN ls -> Int] :
                 /\ LotsOK(new, n) /\ Drained(ls, new, h) /\ Sum(h) = -q
                 /\ h = FirstIn(Left(ls), -q) /\ \A k \in DOMAIN ls : h[k] \in Nat
<1> SUFFICES ASSUME NEW new, new = Taken(ls, q)
             PROVE  \E h \in [DOMAIN ls -> Int] :
                       /\ LotsOK(new, n) /\ Drained(ls, new, h) /\ Sum(h) = -q
                       /\ h = FirstIn(Left(ls), -q) /\ \A k \in DOMAIN ls : h[k] \in Nat
  OBVIOUS
<1>1. PICK len \in Nat : len = Len(ls) /\ DOMAIN ls = 1..len
  BY LotsFacts
<1>2. PICK f \in [1..len -> Nat] : f = Left(ls)
  BY <1>1, LotsFacts
<1>3. PICK m \in Nat : m = -q
  OBVIOUS
<1>4. PICK h : h = FirstIn(f, m)
  OBVIOUS
<1>5. h \in [1..len -> Nat] /\ \A i \in 1..len : h[i] <= f[i]
  BY <1>4, FirstInFits
<1>6. Sum(h) = m
  <2>1. m <= Sum(f)
    BY <1>2, <1>3 DEF Tracked
  <2> QED
    BY <1>4, <2>1, FirstInTakesAll
<1>7. PICK v : v = [k \in 1..len |-> f[k] - h[k]]
  OBVIOUS
<1>8. v \in [DOMAIN ls -> Nat]
  <2>1. \A k \in 1..len : f[k] - h[k] \in Nat
    BY <1>5
  <2> QED
    BY <1>1, <1>7, <2>1
<1>9. \A k \in DOMAIN ls : ls[k].left = f[k]
  BY <1>2 DEF Left
<1>10. new = [k \in DOMAIN ls |-> [ls[k] EXCEPT !.left = v[k]]]
  <2>1. \A k \in DOMAIN ls : v[k] = ls[k].left - h[k]
    BY <1>1, <1>7, <1>9
  <2>2. FirstIn(Left(ls), -q) = h
    BY <1>2, <1>3, <1>4
  <2>3. \A k \in DOMAIN ls : [ls[k] EXCEPT !.left = @ - h[k]] = [ls[k] EXCEPT !.left = v[k]]
    BY <2>1
  <2> QED
    BY <2>2, <2>3 DEF Taken
<1>11. /\ LotsOK(new, n) /\ DOMAIN new = DOMAIN ls
       /\ \A k \in DOMAIN ls : /\ new[k].source = ls[k].source /\ new[k].mode = ls[k].mode
                               /\ new[k].initial = ls[k].initial /\ new[k].left = v[k]
  <2>1. new = Rewritten(ls, v)
    BY <1>10, Zenon DEF Rewritten
  <2>2. LotsOK(ls, n)
    OBVIOUS
  <2> QED
    BY ONLY <1>8, <2>1, <2>2, RewrittenOK
<1>12. Drained(ls, new, h)
  <2>1. \A k \in DOMAIN ls : ls[k].left = new[k].left + h[k]
    BY <1>1, <1>5, <1>7, <1>9, <1>11
  <2> QED
    BY <1>11, <2>1 DEF Drained
<1>13. h \in [DOMAIN ls -> Int] /\ \A k \in DOMAIN ls : h[k] \in Nat
  BY <1>1, <1>5
<1> QED
  BY <1>2, <1>3, <1>4, <1>6, <1>11, <1>12, <1>13

\* inventoryAllocation is what was taken of each batch.
LEMMA FromIsTaken ==
    ASSUME NEW n, NEW ls, LotsOK(ls, n), ls # NoLots, NEW q \in Int, q < 0,
           NEW h \in [DOMAIN ls -> Int], h = FirstIn(Left(ls), -q),
           \A k \in DOMAIN ls : h[k] \in Nat
    PROVE  \A f : f = From(ls, q) =>
              /\ FromOK(ls, f) /\ Given(ls, f) = Sum(h)
              /\ Owed(ls, f) = Sum([k \in Consigned(ls) |-> h[k]])
<1> SUFFICES ASSUME NEW f, f = From(ls, q)
             PROVE  /\ FromOK(ls, f) /\ Given(ls, f) = Sum(h)
                    /\ Owed(ls, f) = Sum([k \in Consigned(ls) |-> h[k]])
  OBVIOUS
<1>1. PICK used \in SUBSET DOMAIN ls : used = {i \in DOMAIN ls : h[i] > 0}
  OBVIOUS
<1>2. f = [x \in {ls[i].source : i \in used} |-> h[CHOOSE i \in used : ls[i].source = x]]
  BY <1>1 DEF From
<1>3. \A j \in DOMAIN ls : \A k \in DOMAIN ls : ls[j].source = ls[k].source => j = k
  BY DEF LotsOK
<1>4. DOMAIN f = {ls[i].source : i \in used}
  BY <1>2
<1>5. ASSUME NEW k \in used PROVE ls[k].source \in DOMAIN f /\ f[ls[k].source] = h[k]
  <2>1. PICK c : c = CHOOSE i \in used : ls[i].source = ls[k].source
    OBVIOUS
  <2>2. c \in used /\ ls[c].source = ls[k].source
    BY <2>1
  <2>3. c = k
    BY <1>3, <2>2
  <2>4. ls[k].source \in DOMAIN f
    BY <1>4
  <2>5. f[ls[k].source] = h[c]
    BY <1>2, <1>4, <2>1, <2>4
  <2> QED
    BY <2>3, <2>4, <2>5
<1>6. \A k \in DOMAIN ls : Part(f, ls[k].source) = h[k]
  <2> SUFFICES ASSUME NEW k \in DOMAIN ls PROVE Part(f, ls[k].source) = h[k]
    OBVIOUS
  <2>1. CASE k \in used
    BY <1>5, <2>1 DEF Part
  <2>2. CASE k \notin used
    <3>1. h[k] = 0
      BY <1>1, <2>2
    <3>2. ls[k].source \notin DOMAIN f
      BY <1>1, <1>3, <1>4, <2>2
    <3> QED
      BY <3>1, <3>2 DEF Part
  <2> QED
    BY <2>1, <2>2
<1>7. FromOK(ls, f)
  <2>1. DOMAIN f \subseteq Sources(ls)
    BY <1>1, <1>4 DEF Sources
  <2>2. \A x \in DOMAIN f : f[x] \in Nat
    BY <1>1, <1>4, <1>5
  <2>3. f = [x \in DOMAIN f |-> f[x]]
    BY <1>2
  <2> QED
    BY <2>1, <2>2, <2>3 DEF FromOK
<1>8. /\ [k \in DOMAIN ls |-> Part(f, ls[k].source)] = h
      /\ [k \in Consigned(ls) |-> Part(f, ls[k].source)] = [k \in Consigned(ls) |-> h[k]]
  BY <1>6, LotsFacts
<1> QED
  BY <1>7, <1>8, Zenon DEF Given, Owed

\* What a booked movement of q units leaves of the batches ls, and its row.
KeepsRows(ls, new) ==
    \A f : FromOK(ls, f) =>
        FromOK(new, f) /\ Given(new, f) = Given(ls, f) /\ Owed(new, f) = Owed(ls, f)
BookedOK(ls, new, row, n, was, q) ==
    /\ LotsOK(new, n) /\ KeepsRows(ls, new) /\ RowOK(new, row)
    /\ Out(new) = Out(ls) + Owed(new, row.from)
    /\ (ls # NoLots => Tracked(ls) = was) /\ new # NoLots => Tracked(new) = was + q

LEMMA NothingOwed ==
    ASSUME NEW n, NEW ls, LotsOK(ls, n)
    PROVE  FromOK(ls, NoFrom) /\ Owed(ls, NoFrom) = 0
<1>1. IsFiniteSet(Consigned(ls))
  BY LotsFacts, FS_Subset
<1>2. PICK g : g = [k \in Consigned(ls) |-> Part(NoFrom, ls[k].source)]
  OBVIOUS
<1>3. g \in [Consigned(ls) -> Int] /\ \A k \in Consigned(ls) : g[k] = 0
  BY <1>2, NoFromIsNothing
<1>4. Sum(g) = 0
  BY <1>1, <1>3, SumOfZeros
<1>5. NoFrom = [x \in DOMAIN NoFrom |-> NoFrom[x]] /\ DOMAIN NoFrom = {}
  BY NoFromIsNothing DEF NoFrom
<1> QED
  BY <1>2, <1>4, <1>5 DEF FromOK, Owed

\* A movement that concerns no batch.
LEMMA NoneBooks ==
    ASSUME NEW n, NEW ls, LotsOK(ls, n), NEW row, row.from = NoFrom, NEW was \in Int, NEW q \in Int,
           ls = NoLots \/ q = 0
    PROVE  BookedOK(ls, ls, row, n, was, q)
<1>1. FromOK(ls, NoFrom) /\ Owed(ls, NoFrom) = 0
  BY NothingOwed
<1>2. Out(ls) \in Int
  BY OutTyped
<1>3. RowOK(ls, row)
  BY <1>1 DEF RowOK
<1>4. KeepsRows(ls, ls)
  BY DEF KeepsRows
<1> QED
  BY <1>1, <1>2, <1>3, <1>4 DEF BookedOK

\* Units that leave.
LEMMA TakeBooks ==
    ASSUME NEW n, NEW ls, LotsOK(ls, n), NEW was \in Int, NEW q \in Int, was + q >= 0, q <= 0,
           NEW mode, ~Raises(ls, was, q, mode), NEW kind, NEW t, NEW at
    PROVE  \A new, row : new = Booked(ls, was, q, mode, at) /\ row = Row(ls, kind, t, q) =>
              BookedOK(ls, new, row, n, was, q)
<1> SUFFICES ASSUME NEW new, NEW row, new = Booked(ls, was, q, mode, at),
                    row = Row(ls, kind, t, q)
             PROVE  BookedOK(ls, new, row, n, was, q)
  OBVIOUS
<1>1. CASE ls = NoLots \/ q = 0
  <2>1. new = ls
    BY <1>1 DEF Booked
  <2>2. row.from = NoFrom
    BY <1>1 DEF Row, From
  <2> QED
    BY <1>1, <2>1, <2>2, NoneBooks
<1>2. CASE ls # NoLots /\ q < 0
  <2>1. new = Taken(ls, q)
    BY <1>2 DEF Booked, Taken
  <2>2. PICK f : f = From(ls, q)
    OBVIOUS
  <2>3. row.from = f /\ row.bill = Bill(ls, kind, q) /\ row.kind = kind /\ row.qty = q
    BY <2>2 DEF Row
  <2>4. Tracked(ls) = was
    BY <1>2 DEF Raises
  <2>5. -q <= Tracked(ls)
    BY <2>4
  <2>6. PICK h \in [DOMAIN ls -> Int] :
           /\ LotsOK(new, n) /\ Drained(ls, new, h) /\ Sum(h) = -q
           /\ h = FirstIn(Left(ls), -q) /\ \A k \in DOMAIN ls : h[k] \in Nat
    BY <1>2, <2>1, <2>5, TakeDrains
  <2>7. /\ FromOK(ls, f) /\ Given(ls, f) = Sum(h)
        /\ Owed(ls, f) = Sum([k \in Consigned(ls) |-> h[k]])
    BY <1>2, <2>2, <2>6, FromIsTaken
  <2>8. Tracked(ls) = Tracked(new) + Sum(h) /\ Out(new) = Out(ls) + Owed(ls, f)
    BY <2>6, <2>7, DrainedSums
  <2>9. \A g : /\ FromOK(new, g) <=> FromOK(ls, g)
               /\ Given(new, g) = Given(ls, g) /\ Owed(new, g) = Owed(ls, g)
    BY <2>6, DrainedKeepsFrom
  <2>10. kind = "sale" => Bill(ls, kind, q) = Owed(ls, f)
    BY <1>2, <2>6, <2>7 DEF Bill
  <2>11. RowOK(new, row)
    BY <2>3, <2>6, <2>7, <2>9, <2>10 DEF RowOK
  <2>12. Tracked(new) = was + q
    <3>1. Tracked(new) \in Nat
      BY <2>6, LotsFacts
    <3> QED
      BY <2>4, <2>6, <2>8, <3>1
  <2>13. KeepsRows(ls, new)
    BY <2>9 DEF KeepsRows
  <2> QED
    BY <2>3, <2>6, <2>8, <2>9, <2>11, <2>12, <2>13 DEF BookedOK
<1> QED
  BY <1>1, <1>2

\* Batches of the first n movements are batches of more of them.
LEMMA LotsLater ==
    ASSUME NEW n \in Nat, NEW m \in Nat, n <= m, NEW ls, LotsOK(ls, n)
    PROVE  LotsOK(ls, m)
<1>1. \A k \in DOMAIN ls : LotOK(ls[k], m)
  <2> SUFFICES ASSUME NEW k \in DOMAIN ls PROVE LotOK(ls[k], m)
    OBVIOUS
  <2>1. LotOK(ls[k], n)
    BY DEF LotsOK
  <2>2. \A i \in Nat : i <= n => i <= m
    OBVIOUS
  <2> QED
    BY <2>1, <2>2 DEF LotOK
<1> QED
  BY <1>1, Zenon DEF LotsOK

\* Units that come in.
LEMMA ReceiptBooks ==
    ASSUME NEW n \in Nat, NEW ls, LotsOK(ls, n), NEW was \in Int, NEW q \in Int, q > 0,
           NEW mode, ~Raises(ls, was, q, mode), NEW kind, NEW t
    PROVE  \A new, row : new = Booked(ls, was, q, mode, n + 1) /\ row = Row(ls, kind, t, q) =>
              BookedOK(ls, new, row, n + 1, was, q)
<1> SUFFICES ASSUME NEW new, NEW row, new = Booked(ls, was, q, mode, n + 1),
                    row = Row(ls, kind, t, q)
             PROVE  BookedOK(ls, new, row, n + 1, was, q)
  OBVIOUS
<1>1. row.from = NoFrom
  BY DEF Row, From
<1>2. CASE ls = NoLots /\ mode # "wholesale"
  <2>1. new = ls
    BY <1>2 DEF Booked
  <2>2. LotsOK(ls, n + 1)
    BY LotsLater
  <2> QED
    BY <1>1, <1>2, <2>1, <2>2, NoneBooks
<1>3. CASE ls # NoLots \/ mode = "wholesale"
  <2>1. new = AsReceipt(Opening(ls, was, n + 1) \o ls, q, mode, n + 1)
    BY <1>3 DEF Booked
  <2>2. Tracked(ls) <= was
    <3>1. ~(Tracked(ls) > was) /\ Tracked(ls) \in Nat
      BY <1>3, LotsFacts DEF Raises
    <3> QED
      BY <3>1
  <2>3. /\ \E o \in {0, 1} : Grown(ls, new, o, n + 1)
        /\ LotsOK(new, n + 1) /\ Tracked(new) = was + q
    BY <2>1, <2>2, ReceiptGrows
  <2>4. PICK o \in {0, 1} : Grown(ls, new, o, n + 1)
    BY <2>3
  <2>5. Out(new) = Out(ls) /\ Out(ls) \in Int
    BY <2>3, <2>4, GrownOut, OutTyped
  <2>6. KeepsRows(ls, new)
    BY <2>3, <2>4, GrownKeepsFrom DEF KeepsRows
  <2>7. FromOK(new, NoFrom) /\ Owed(new, NoFrom) = 0
    BY <2>3, NothingOwed
  <2>8. RowOK(new, row)
    BY <1>1, <2>7 DEF RowOK
  <2> QED
    BY <1>1, <2>3, <2>5, <2>6, <2>7, <2>8 DEF BookedOK
<1> QED
  BY <1>2, <1>3

\* An undo gives back what the movement took.
LEMMA RestoredGives ==
    ASSUME NEW n, NEW ls, LotsOK(ls, n), NEW f, FromOK(ls, f)
    PROVE  \A new : new = Restored(ls, f) =>
              /\ LotsOK(new, n) /\ KeepsRows(ls, new)
              /\ new = NoLots <=> ls = NoLots
              /\ Tracked(new) = Tracked(ls) + Given(ls, f)
              /\ Out(ls) = Out(new) + Owed(ls, f)
<1> SUFFICES ASSUME NEW new, new = Restored(ls, f)
             PROVE  /\ LotsOK(new, n) /\ KeepsRows(ls, new)
                    /\ new = NoLots <=> ls = NoLots
                    /\ Tracked(new) = Tracked(ls) + Given(ls, f)
                    /\ Out(ls) = Out(new) + Owed(ls, f)
  OBVIOUS
<1>1. PICK d : d = [k \in DOMAIN ls |-> Part(f, ls[k].source)]
  OBVIOUS
<1>2. d \in [DOMAIN ls -> Int] /\ \A k \in DOMAIN ls : d[k] \in Nat /\ d[k] = Part(f, ls[k].source)
  BY <1>1, PartIsNat
<1>3. \A k \in DOMAIN ls : ls[k].left \in Nat
  BY DEF LotsOK, LotOK
<1>4. PICK v : v = [k \in DOMAIN ls |-> ls[k].left + d[k]]
  OBVIOUS
<1>5. v \in [DOMAIN ls -> Nat]
  <2>1. \A k \in DOMAIN ls : ls[k].left + d[k] \in Nat
    BY <1>2, <1>3
  <2> QED
    BY <1>4, <2>1
<1>6. new = [k \in DOMAIN ls |-> [ls[k] EXCEPT !.left = v[k]]]
  <2>1. \A k \in DOMAIN ls :
           [ls[k] EXCEPT !.left = @ + IF ls[k].source \in DOMAIN f THEN f[ls[k].source] ELSE 0]
              = [ls[k] EXCEPT !.left = v[k]]
    BY <1>2, <1>4 DEF Part
  <2> QED
    BY <2>1 DEF Restored
<1>7. /\ LotsOK(new, n) /\ DOMAIN new = DOMAIN ls
      /\ \A k \in DOMAIN ls : /\ new[k].source = ls[k].source /\ new[k].mode = ls[k].mode
                              /\ new[k].initial = ls[k].initial /\ new[k].left = v[k]
  <2>1. new = Rewritten(ls, v)
    BY <1>6, Zenon DEF Rewritten
  <2>2. LotsOK(ls, n)
    OBVIOUS
  <2> QED
    BY ONLY <1>5, <2>1, <2>2, RewrittenOK
<1>8. Drained(new, ls, d) /\ d \in [DOMAIN new -> Int]
  <2>1. \A k \in DOMAIN new : new[k].left = ls[k].left + d[k]
    BY <1>4, <1>7
  <2> QED
    BY <1>2, <1>7, <2>1 DEF Drained
<1>9. /\ Consigned(ls) = Consigned(new) /\ Tracked(new) = Tracked(ls) + Sum(d)
      /\ Out(ls) = Out(new) + Sum([k \in Consigned(new) |-> d[k]])
  BY <1>7, <1>8, DrainedSums
<1>10. KeepsRows(ls, new)
  BY <1>8, DrainedKeepsFrom DEF KeepsRows
<1>11. [k \in Consigned(new) |-> d[k]] = [k \in Consigned(ls) |-> Part(f, ls[k].source)]
  BY <1>2, <1>9, LotsFacts
<1>12. Sum(d) = Given(ls, f) /\ Sum([k \in Consigned(new) |-> d[k]]) = Owed(ls, f)
  BY <1>1, <1>11, Zenon DEF Given, Owed
<1>13. new = NoLots <=> ls = NoLots
  <2>1. \A l : LotsOK(l, n) => (l = NoLots <=> DOMAIN l = {})
    <3> SUFFICES ASSUME NEW l, LotsOK(l, n) PROVE l = NoLots <=> DOMAIN l = {}
      OBVIOUS
    <3>1. PICK S : l \in Seq(S)
      BY DEF LotsOK
    <3> QED
      BY <3>1 DEF NoLots
  <2> QED
    BY <1>7, <2>1
<1> QED
  BY <1>7, <1>9, <1>10, <1>12, <1>13

-----------------------------------------------------------------------------
(* The movements of a size and its batches.                                *)

OwedIn(ls, q, t) == Sum([i \in LiveIn(q, t) |-> Owed(ls, q[i].from)])
RowsOK(ls, q, t) == \A i \in LiveIn(q, t) : RowOK(ls, q[i])
TierOK(ls, q, t) ==
    LotsOK(ls, Len(q)) /\ RowsOK(ls, q, t) /\ Out(ls) = OwedIn(ls, q, t)

LEMMA OwedTyped ==
    ASSUME NEW q, IsBook(q), NEW t, NEW n, NEW ls, LotsOK(ls, n), RowsOK(ls, q, t)
    PROVE  /\ IsFiniteSet(LiveIn(q, t)) /\ OwedIn(ls, q, t) \in Int
           /\ [i \in LiveIn(q, t) |-> Owed(ls, q[i].from)] \in [LiveIn(q, t) -> Int]
<1>1. \A i \in LiveIn(q, t) : Owed(ls, q[i].from) \in Int
  BY GivenTyped DEF RowsOK, RowOK
<1>2. PICK L : L = LiveIn(q, t)
  OBVIOUS
<1>3. IsFiniteSet(L)
  BY <1>2, LiveFinite
<1>4. PICK g : g = [i \in L |-> Owed(ls, q[i].from)]
  OBVIOUS
<1>5. g \in [L -> Int]
  BY <1>1, <1>2, <1>4
<1>6. Sum(g) \in Int
  BY <1>3, <1>5, SumOfInts
<1> QED
  BY <1>2, <1>3, <1>4, <1>5, <1>6 DEF OwedIn

LEMMA OneOwed ==
    ASSUME NEW q, IsBook(q), NEW p, IsBook(p), NEW t, NEW n, NEW m, NEW ls, LotsOK(ls, n),
           NEW new, LotsOK(new, m), RowsOK(ls, q, t), RowsOK(new, p, t), NEW j,
           j \notin LiveIn(q, t), LiveIn(p, t) = LiveIn(q, t) \cup {j},
           \A i \in LiveIn(q, t) : Owed(new, p[i].from) = Owed(ls, q[i].from)
    PROVE  OwedIn(new, p, t) = OwedIn(ls, q, t) + Owed(new, p[j].from)
<1>1. PICK L : L = LiveIn(q, t)
  OBVIOUS
<1>2. PICK f : f = [i \in L |-> Owed(ls, q[i].from)]
  OBVIOUS
<1>3. PICK h : h = [i \in L \cup {j} |-> Owed(new, p[i].from)]
  OBVIOUS
<1>4. IsFiniteSet(L) /\ f \in [L -> Int] /\ Sum(f) = OwedIn(ls, q, t)
  BY <1>1, <1>2, OwedTyped DEF OwedIn
<1>5. h \in [L \cup {j} -> Int] /\ Sum(h) = OwedIn(new, p, t)
  BY <1>1, <1>3, OwedTyped DEF OwedIn
<1>6. j \notin L /\ (\A i \in L : h[i] = f[i]) /\ h[j] = Owed(new, p[j].from)
  BY <1>1, <1>2, <1>3
<1>7. \A x : x \notin L =>
         \A g \in [L -> Int] : \A k \in [L \cup {x} -> Int] :
              (\A y \in L : k[y] = g[y]) => Sum(k) = Sum(g) + k[x]
  BY ONLY <1>4, SumWith, Zenon
<1>8. Sum(h) = Sum(f) + h[j]
  BY <1>4, <1>5, <1>6, <1>7
<1> QED
  BY <1>4, <1>5, <1>6, <1>8

\* A movement of the size is booked.
LEMMA TierGains ==
    ASSUME NEW q, IsBook(q), NEW p, IsBook(p), NEW t, NEW ls, TierOK(ls, q, t), NEW new, NEW row,
           NEW was, NEW x, BookedOK(ls, new, row, Len(p), was, x), NEW j,
           j \notin LiveIn(q, t), LiveIn(p, t) = LiveIn(q, t) \cup {j}, p[j] = row,
           \A i \in LiveIn(q, t) : p[i] = q[i]
    PROVE  TierOK(new, p, t)
<1>1. /\ LotsOK(new, Len(p)) /\ LotsOK(ls, Len(q)) /\ RowsOK(ls, q, t)
      /\ Out(ls) = OwedIn(ls, q, t) /\ Out(new) = Out(ls) + Owed(new, row.from)
  BY DEF TierOK, BookedOK
<1>2. \A i \in LiveIn(q, t) :
         RowOK(new, q[i]) /\ Owed(new, q[i].from) = Owed(ls, q[i].from)
  BY <1>1 DEF RowsOK, RowOK, BookedOK, KeepsRows
<1>3. RowsOK(new, p, t)
  BY <1>2 DEF RowsOK, BookedOK
<1>4. \A i \in LiveIn(q, t) : Owed(new, p[i].from) = Owed(ls, q[i].from)
  BY <1>2
<1>5. OwedIn(new, p, t) = OwedIn(ls, q, t) + Owed(new, p[j].from)
  BY <1>1, <1>3, <1>4, OneOwed
<1> QED
  BY <1>1, <1>3, <1>5 DEF TierOK

\* Movements of other sizes are booked or deleted.
LEMMA TierStays ==
    ASSUME NEW q, IsBook(q), NEW p, IsBook(p), Len(q) <= Len(p), NEW t, NEW ls, TierOK(ls, q, t),
           LiveIn(p, t) = LiveIn(q, t), \A i \in LiveIn(q, t) : p[i] = q[i]
    PROVE  TierOK(ls, p, t)
<1>1. Len(q) \in Nat /\ Len(p) \in Nat
  BY BookDomain
<1>2. LotsOK(ls, Len(p))
  BY <1>1, LotsLater DEF TierOK
<1>3. RowsOK(ls, p, t)
  BY DEF TierOK, RowsOK
<1>4. [i \in LiveIn(p, t) |-> Owed(ls, p[i].from)] = [i \in LiveIn(q, t) |-> Owed(ls, q[i].from)]
  OBVIOUS
<1>5. OwedIn(ls, p, t) = OwedIn(ls, q, t)
  BY <1>4, Zenon DEF OwedIn
<1> QED
  BY <1>2, <1>3, <1>5 DEF TierOK

\* A movement of the size is undone.
LEMMA TierLoses ==
    ASSUME NEW q, IsBook(q), NEW p, IsBook(p), Len(q) = Len(p), NEW t, NEW ls, TierOK(ls, q, t),
           NEW j \in LiveIn(q, t), j \notin LiveIn(p, t), LiveIn(q, t) = LiveIn(p, t) \cup {j},
           \A i \in LiveIn(p, t) : p[i] = q[i]
    PROVE  \A new : new = Restored(ls, q[j].from) =>
              /\ TierOK(new, p, t) /\ (new = NoLots <=> ls = NoLots)
              /\ q[j].from # NoFrom => Tracked(new) = Tracked(ls) - q[j].qty
<1> SUFFICES ASSUME NEW new, new = Restored(ls, q[j].from)
             PROVE  /\ TierOK(new, p, t) /\ (new = NoLots <=> ls = NoLots)
                    /\ q[j].from # NoFrom => Tracked(new) = Tracked(ls) - q[j].qty
  OBVIOUS
<1>1. /\ LotsOK(ls, Len(q)) /\ RowsOK(ls, q, t) /\ Out(ls) = OwedIn(ls, q, t)
  BY DEF TierOK
<1>2. RowOK(ls, q[j]) /\ FromOK(ls, q[j].from)
  BY <1>1 DEF RowsOK, RowOK
<1>3. /\ LotsOK(new, Len(q)) /\ KeepsRows(ls, new)
      /\ new = NoLots <=> ls = NoLots
      /\ Tracked(new) = Tracked(ls) + Given(ls, q[j].from)
      /\ Out(ls) = Out(new) + Owed(ls, q[j].from)
  BY <1>1, <1>2, RestoredGives
<1>4. \A i \in LiveIn(q, t) :
         RowOK(new, q[i]) /\ Owed(new, q[i].from) = Owed(ls, q[i].from)
  BY <1>1, <1>3 DEF RowsOK, RowOK, KeepsRows
<1>5. RowsOK(new, p, t) /\ RowsOK(new, q, t)
  BY <1>4 DEF RowsOK
<1>6. \A i \in LiveIn(p, t) : Owed(ls, q[i].from) = Owed(new, p[i].from)
  BY <1>4
<1>7. OwedIn(ls, q, t) = OwedIn(new, p, t) + Owed(ls, q[j].from)
  <2>1. /\ IsBook(q) /\ IsBook(p) /\ LotsOK(new, Len(q)) /\ LotsOK(ls, Len(q))
        /\ RowsOK(new, p, t) /\ RowsOK(ls, q, t) /\ j \notin LiveIn(p, t)
        /\ LiveIn(q, t) = LiveIn(p, t) \cup {j}
        /\ \A i \in LiveIn(p, t) : Owed(ls, q[i].from) = Owed(new, p[i].from)
    BY <1>1, <1>3, <1>5, <1>6
  <2> QED
    BY ONLY <2>1, OneOwed
<1>8. Out(new) = OwedIn(new, p, t)
  <2>1. Out(new) \in Int /\ OwedIn(new, p, t) \in Int /\ Owed(ls, q[j].from) \in Int
    <3>1. Out(new) \in Int
      BY <1>3, OutTyped
    <3>2. OwedIn(new, p, t) \in Int
      BY <1>3, <1>5, OwedTyped
    <3>3. Owed(ls, q[j].from) \in Int
      BY <1>1, <1>2, GivenTyped
    <3> QED
      BY <3>1, <3>2, <3>3
  <2>2. PICK a \in Int, b \in Int, o \in Int :
           a = Out(new) /\ b = OwedIn(new, p, t) /\ o = Owed(ls, q[j].from)
    BY <2>1
  <2>3. Out(ls) = a + o /\ Out(ls) = b + o
    BY <1>1, <1>3, <1>7, <2>2
  <2>4. a = b
    BY <2>3
  <2> QED
    BY <2>2, <2>4
<1>9. TierOK(new, p, t)
  BY <1>3, <1>5, <1>8 DEF TierOK
<1>10. q[j].from # NoFrom => Tracked(new) = Tracked(ls) - q[j].qty
  <2>1. q[j].qty \in Int /\ Tracked(ls) \in Nat
    BY <1>1, LotsFacts DEF IsBook, MovementOK, LiveIn
  <2>2. q[j].from # NoFrom => Given(ls, q[j].from) = -q[j].qty
    BY <1>2 DEF RowOK
  <2> QED
    BY <1>3, <2>1, <2>2
<1> QED
  BY <1>3, <1>9, <1>10

-----------------------------------------------------------------------------
(* The invariant behind LotsMatchShelf and ConsignedBilled.                *)

Matched(ls, n) == ls # NoLots => Tracked(ls) = n
LotsInv ==
    /\ ShelfInv
    /\ DOMAIN lots = Tiers
    /\ \A t \in Tiers : TierOK(lots[t], txns, t)
    /\ \A t \in Tiers \ torn : Matched(lots[t], shelf[t])
LotsKept ==
    /\ DOMAIN lots' = Tiers
    /\ \A t \in Tiers : TierOK(lots'[t], txns', t)
    /\ \A t \in Tiers \ torn' : Matched(lots'[t], shelf'[t])

LEMMA LotsStart == ShelfInit => LotsInv
<1> SUFFICES ASSUME ShelfInit PROVE LotsInv
  OBVIOUS
<1>1. ShelfInv
  BY ShelfStarts
<1>2. /\ DOMAIN lots = Tiers /\ DOMAIN txns = {} /\ Len(txns) = 0 /\ IsBook(txns)
      /\ \A t \in Tiers : lots[t] = NoLots
  BY <1>1 DEF ShelfInit, ShelfInv, ShelfTypes
<1>3. LotsOK(NoLots, 0) /\ DOMAIN NoLots = {}
  BY DEF LotsOK, NoLots
<1>4. \A g \in [{} -> Int] : Sum(g) = 0
  BY SumOfNothing
<1>5. ASSUME NEW t \in Tiers PROVE TierOK(lots[t], txns, t)
  <2>1. LiveIn(txns, t) = {} /\ Consigned(NoLots) = {}
    BY <1>2, <1>3 DEF LiveIn, Consigned
  <2>2. RowsOK(NoLots, txns, t)
    BY <2>1 DEF RowsOK
  <2>3. PICK g : g = [k \in Consigned(NoLots) |-> NoLots[k].initial - NoLots[k].left]
    OBVIOUS
  <2>4. PICK h : h = [i \in LiveIn(txns, t) |-> Owed(NoLots, txns[i].from)]
    OBVIOUS
  <2>5. g \in [{} -> Int] /\ h \in [{} -> Int]
    BY <2>1, <2>3, <2>4
  <2>6. Out(NoLots) = 0 /\ OwedIn(NoLots, txns, t) = 0
    BY <1>4, <2>3, <2>4, <2>5 DEF Out, OwedIn
  <2> QED
    BY <1>2, <1>3, <2>2, <2>6 DEF TierOK
<1>6. \A t \in Tiers : Matched(lots[t], shelf[t])
  BY <1>2 DEF Matched
<1> QED
  BY <1>1, <1>2, <1>5, <1>6 DEF LotsInv

\* A writer that knows the quantity it changes keeps the batches.
LEMMA BookKeepsLots ==
    ASSUME LotsInv
    PROVE  \A kind \in {"sale", "other"}, t \in Tiers, q \in Int : \A was, mode :
              was = shelf[t] /\ was + q >= 0 /\ Book(kind, t, was, q, mode) => LotsKept
<1> SUFFICES ASSUME NEW kind \in {"sale", "other"}, NEW t \in Tiers, NEW q \in Int,
                    NEW was, NEW mode, was = shelf[t], was + q >= 0,
                    Book(kind, t, was, q, mode)
             PROVE  LotsKept
  OBVIOUS
<1>1. /\ IsBook(txns) /\ was \in Int /\ DOMAIN shelf = Tiers /\ DOMAIN lots = Tiers
      /\ \A u \in Tiers : TierOK(lots[u], txns, u)
      /\ \A u \in Tiers \ torn : Matched(lots[u], shelf[u])
  BY DEF LotsInv, ShelfInv, ShelfTypes
<1>2. PICK n \in Nat : n = Len(txns) /\ DOMAIN txns = 1..n
  BY <1>1, BookDomain
<1>3. PICK ls : ls = lots[t]
  OBVIOUS
<1>4. PICK new : new = Booked(ls, was, q, mode, n + 1)
  OBVIOUS
<1>5. PICK row : row = Row(ls, kind, t, q)
  OBVIOUS
<1>6. /\ ~Raises(ls, was, q, mode) /\ txns' = Append(txns, row)
      /\ shelf' = [shelf EXCEPT ![t] = was + q] /\ lots' = [lots EXCEPT ![t] = new]
      /\ torn' = torn
  BY <1>2, <1>3, <1>4, <1>5 DEF Book
<1>7. MovementOK(row) /\ row.kind # "deleted" /\ row.tier = t
  BY <1>5, NewMovement
<1>8. IsBook(txns')
  BY <1>1, <1>6, <1>7, AddedMoved
<1>9. /\ Len(txns') = n + 1 /\ DOMAIN txns' = 1..(n + 1) /\ txns'[n + 1] = row
      /\ \A i \in 1..n : txns'[i] = txns[i]
  <2>1. PICK S : txns \in Seq(S)
    BY <1>1 DEF IsBook
  <2>2. txns \in Seq(S \cup {row})
    BY <2>1
  <2> QED
    BY <1>2, <1>6, <2>2
<1>10. LotsOK(ls, n) /\ LotsOK(ls, n + 1)
  <2>1. LotsOK(ls, n)
    BY <1>1, <1>2, <1>3 DEF TierOK
  <2>2. n + 1 \in Nat /\ n <= n + 1
    OBVIOUS
  <2> QED
    BY <2>1, <2>2, LotsLater
<1>11. BookedOK(ls, new, row, n + 1, was, q)
  <2>1. CASE q <= 0
    BY <1>1, <1>4, <1>5, <1>6, <1>10, <2>1, TakeBooks
  <2>2. CASE q > 0
    BY <1>1, <1>4, <1>5, <1>6, <1>10, <2>2, ReceiptBooks
  <2> QED
    BY <2>1, <2>2
<1>12. /\ lots'[t] = new /\ shelf'[t] = was + q /\ DOMAIN lots' = Tiers
       /\ \A u \in Tiers \ {t} : lots'[u] = lots[u] /\ shelf'[u] = shelf[u]
  BY <1>1, <1>6
<1>13. TierOK(new, txns', t)
  <2>1. n + 1 \notin LiveIn(txns, t) /\ LiveIn(txns', t) = LiveIn(txns, t) \cup {n + 1}
    BY <1>2, <1>7, <1>9 DEF LiveIn
  <2>2. \A i \in LiveIn(txns, t) : txns'[i] = txns[i]
    BY <1>2, <1>9 DEF LiveIn
  <2>3. TierOK(ls, txns, t) /\ BookedOK(ls, new, row, Len(txns'), was, q)
    BY <1>1, <1>3, <1>9, <1>11
  <2> QED
    BY <1>1, <1>8, <1>9, <2>1, <2>2, <2>3, TierGains
<1>14. ASSUME NEW u \in Tiers \ {t} PROVE TierOK(lots[u], txns', u)
  <2>1. LiveIn(txns', u) = LiveIn(txns, u)
    BY <1>2, <1>7, <1>9 DEF LiveIn
  <2>2. \A i \in LiveIn(txns, u) : txns'[i] = txns[i]
    BY <1>2, <1>9 DEF LiveIn
  <2>3. Len(txns) <= Len(txns')
    BY <1>2, <1>9
  <2> QED
    BY <1>1, <1>8, <2>1, <2>2, <2>3, TierStays
<1>15. t \notin torn => Matched(new, was + q)
  BY <1>1, <1>3, <1>11 DEF BookedOK, Matched
<1> QED
  BY <1>1, <1>6, <1>12, <1>13, <1>14, <1>15 DEF LotsKept

\* An undo that finds its movement as it was.
LEMMA UndoKeepsLots ==
    ASSUME LotsInv, ShelfInv', NEW c \in Clients, CommitUndo(c)
    PROVE  LotsKept
<1>1. /\ IsBook(txns) /\ DOMAIN shelf = Tiers /\ DOMAIN lots = Tiers
      /\ \A u \in Tiers : shelf[u] \in Int
      /\ \A u \in Tiers : TierOK(lots[u], txns, u)
      /\ \A u \in Tiers \ torn : Matched(lots[u], shelf[u])
  BY DEF LotsInv, ShelfInv, ShelfTypes
<1>2. PICK i \in DOMAIN txns : i = tx[c].txn
  BY DEF CommitUndo, LotsInv, ShelfInv, ShelfTypes, TxsOK, TxOK
<1>3. PICK row : row = txns[i]
  OBVIOUS
<1>4. /\ tx[c].row = row /\ row.kind # "deleted" /\ row.tier \in Tiers /\ row.qty \in Int
  BY <1>2, <1>3 DEF CommitUndo, LotsInv, ShelfInv, ShelfTypes, TxsOK, TxOK
<1>5. PICK t \in Tiers : t = row.tier
  BY <1>4
<1>6. UndoTo(c) = shelf[t] - row.qty
  BY <1>4, <1>5 DEF CommitUndo, Fresh, UndoTo
<1>7. PICK ls : ls = lots[t]
  OBVIOUS
<1>8. PICK new : new = Restored(ls, row.from)
  OBVIOUS
<1>9. /\ shelf' = [shelf EXCEPT ![t] = IF shelf[t] - row.qty < 0 THEN 0 ELSE shelf[t] - row.qty]
      /\ lots' = [lots EXCEPT ![t] = new]
      /\ torn' = (IF ls # NoLots /\ row.from = NoFrom THEN torn \cup {t} ELSE torn)
      /\ txns' = [txns EXCEPT ![i] = Deleted(t)]
  BY <1>2, <1>4, <1>5, <1>6, <1>7, <1>8 DEF CommitUndo, Undo
<1>10. IsBook(txns')
  BY DEF ShelfInv, ShelfTypes
<1>11. /\ DOMAIN txns' = DOMAIN txns /\ Len(txns') = Len(txns)
       /\ txns'[i].kind = "deleted" /\ \A k \in DOMAIN txns \ {i} : txns'[k] = txns[k]
  <2>1. DOMAIN txns' = DOMAIN txns /\ txns'[i] = Deleted(t)
        /\ \A k \in DOMAIN txns \ {i} : txns'[k] = txns[k]
    BY <1>9
  <2>2. /\ Len(txns) \in Nat /\ DOMAIN txns = 1..Len(txns)
        /\ Len(txns') \in Nat /\ DOMAIN txns' = 1..Len(txns')
    BY <1>1, <1>10, BookDomain
  <2>3. \A a, b \in Nat : 1..a = 1..b => a = b
    OBVIOUS
  <2> QED
    BY <2>1, <2>2, <2>3 DEF Deleted
<1>12. /\ lots'[t] = new /\ DOMAIN lots' = Tiers
       /\ shelf'[t] = IF shelf[t] - row.qty < 0 THEN 0 ELSE shelf[t] - row.qty
       /\ \A u \in Tiers \ {t} : lots'[u] = lots[u] /\ shelf'[u] = shelf[u]
  BY <1>1, <1>9
<1>13. /\ TierOK(new, txns', t) /\ (new = NoLots <=> ls = NoLots)
       /\ row.from # NoFrom => Tracked(new) = Tracked(ls) - row.qty
  <2>1. /\ i \in LiveIn(txns, t) /\ i \notin LiveIn(txns', t)
        /\ LiveIn(txns, t) = LiveIn(txns', t) \cup {i}
    BY <1>2, <1>3, <1>4, <1>5, <1>11 DEF LiveIn
  <2>2. \A k \in LiveIn(txns', t) : txns'[k] = txns[k]
    BY <1>11 DEF LiveIn
  <2>3. TierOK(ls, txns, t) /\ new = Restored(ls, txns[i].from)
    BY <1>1, <1>3, <1>7, <1>8
  <2>4. /\ TierOK(new, txns', t) /\ (new = NoLots <=> ls = NoLots)
        /\ txns[i].from # NoFrom => Tracked(new) = Tracked(ls) - txns[i].qty
    BY <1>1, <1>10, <1>11, <2>1, <2>2, <2>3, TierLoses
  <2> QED
    BY <1>3, <2>4
<1>14. ASSUME NEW u \in Tiers \ {t} PROVE TierOK(lots[u], txns', u)
  <2>1. LiveIn(txns', u) = LiveIn(txns, u)
    BY <1>3, <1>5, <1>9, <1>11 DEF LiveIn, Deleted
  <2>2. \A k \in LiveIn(txns, u) : txns'[k] = txns[k]
    BY <1>3, <1>5, <1>11 DEF LiveIn
  <2>3. Len(txns) <= Len(txns')
    BY <1>1, <1>11, BookDomain
  <2> QED
    BY <1>1, <1>10, <2>1, <2>2, <2>3, TierStays
<1>15. t \notin torn' => Matched(new, shelf'[t])
  <2> SUFFICES ASSUME t \notin torn', new # NoLots PROVE Tracked(new) = shelf'[t]
    BY DEF Matched
  <2>1. ls # NoLots /\ t \notin torn /\ row.from # NoFrom
    BY <1>9, <1>13
  <2>2. Tracked(ls) = shelf[t] /\ Tracked(new) = Tracked(ls) - row.qty
    BY <1>1, <1>7, <1>13, <2>1 DEF Matched
  <2>3. Tracked(new) \in Nat
    BY <1>13, LotsFacts DEF TierOK
  <2> QED
    BY <1>1, <1>4, <1>12, <2>2, <2>3
<1>16. torn \subseteq torn'
  BY <1>9
<1> QED
  BY <1>1, <1>12, <1>13, <1>14, <1>15, <1>16 DEF LotsKept

\* A delivery: each size on its own.
LEMMA MirrorKeepsLots ==
    ASSUME LotsInv, NEW c \in Clients, CommitMirror(c)
    PROVE  LotsKept
<1>1. /\ IsBook(txns) /\ \A u \in Tiers : shelf[u] \in Int /\ shelf[u] >= 0
      /\ \A u \in Tiers : TierOK(lots[u], txns, u)
      /\ \A u \in Tiers \ torn : Matched(lots[u], shelf[u])
  BY DEF LotsInv, ShelfInv, ShelfTypes, Explained
<1>2. PICK take : take = FirstIn(tx[c].seen, tx[c].qty)
  OBVIOUS
<1>3. /\ take \in [Tiers -> Nat] /\ \A t \in Tiers : take[t] <= tx[c].seen[t]
      /\ IsBook(txns') /\ Len(txns) <= Len(txns')
      /\ \A i \in DOMAIN txns : txns'[i] = txns[i]
      /\ \A t \in Tiers :
            IF take[t] > 0
            THEN \E j \in DOMAIN txns' :
                    /\ j \notin LiveIn(txns, t)
                    /\ LiveIn(txns', t) = LiveIn(txns, t) \cup {j}
                    /\ txns'[j] = Row(lots[t], "other", t, -take[t])
            ELSE LiveIn(txns', t) = LiveIn(txns, t)
  BY <1>2, MirrorAppends DEF LotsInv
<1>4. /\ shelf' = [t \in Tiers |-> shelf[t] - take[t]]
      /\ lots' = [t \in Tiers |-> Booked(lots[t], shelf[t], -take[t], None, 0)]
      /\ torn' = torn
      /\ \A t \in Tiers : take[t] > 0 =>
            Fresh(c, t) /\ ~Raises(lots[t], shelf[t], -take[t], None)
  BY <1>2 DEF CommitMirror
<1>5. ASSUME NEW t \in Tiers
      PROVE  /\ TierOK(lots'[t], txns', t)
             /\ t \notin torn => Matched(lots'[t], shelf'[t])
  <2>1. PICK ls : ls = lots[t]
    OBVIOUS
  <2>2. PICK n \in Nat : n = take[t]
    BY <1>3
  <2>3. PICK was \in Int : was = shelf[t] /\ was >= 0
    BY <1>1
  <2>4. PICK new : new = Booked(ls, was, -n, None, 0)
    OBVIOUS
  <2>5. lots'[t] = new /\ shelf'[t] = was + (-n)
    BY <1>4, <2>1, <2>2, <2>3, <2>4
  <2>6. \A i \in LiveIn(txns, t) : txns'[i] = txns[i]
    BY <1>3 DEF LiveIn
  <2>7. TierOK(ls, txns, t)
    BY <1>1, <2>1
  <2>8. t \notin torn => Matched(ls, was)
    BY <1>1, <2>1, <2>3
  <2>9. CASE n = 0
    <3>1. new = ls
      BY <2>4, <2>9 DEF Booked
    <3>2. LiveIn(txns', t) = LiveIn(txns, t)
      <4>1. ~(take[t] > 0)
        BY <2>2, <2>9
      <4> QED
        BY <1>3, <4>1, Zenon
    <3>3. TierOK(ls, txns', t)
      BY <1>1, <1>3, <2>6, <2>7, <3>2, TierStays
    <3>4. was + (-n) = was
      BY <2>9
    <3> QED
      BY <2>5, <2>8, <3>1, <3>3, <3>4
  <2>10. CASE n > 0
    <3>1. PICK row : row = Row(ls, "other", t, -n)
      OBVIOUS
    <3>2. PICK j : /\ j \notin LiveIn(txns, t)
                   /\ LiveIn(txns', t) = LiveIn(txns, t) \cup {j} /\ txns'[j] = row
      BY <1>3, <2>1, <2>2, <2>10, <3>1
    <3>3. ~Raises(ls, was, -n, None) /\ shelf[t] = tx[c].seen[t]
      BY <1>4, <2>1, <2>2, <2>3, <2>10 DEF Fresh
    <3>4. -n \in Int /\ -n <= 0 /\ was + (-n) >= 0
      BY <1>3, <2>2, <2>3, <3>3
    <3>5. LotsOK(ls, Len(txns'))
      <4>1. Len(txns) \in Nat /\ Len(txns') \in Nat
        BY <1>1, <1>3, BookDomain
      <4> QED
        BY <1>3, <2>7, <4>1, LotsLater DEF TierOK
    <3>6. BookedOK(ls, new, row, Len(txns'), was, -n)
      BY <2>4, <3>1, <3>3, <3>4, <3>5, TakeBooks
    <3>7. TierOK(new, txns', t)
      BY <1>1, <1>3, <2>6, <2>7, <3>2, <3>6, TierGains
    <3>8. t \notin torn => Matched(new, was + (-n))
      BY <2>8, <3>6 DEF BookedOK, Matched
    <3> QED
      BY <2>5, <3>7, <3>8
  <2> QED
    BY <2>9, <2>10
<1>6. DOMAIN lots' = Tiers
  BY <1>4
<1> QED
  BY <1>4, <1>5, <1>6 DEF LotsKept

LEMMA LotsSteps == LotsInv /\ [ShelfNext]_shelfVars => LotsInv'
<1> SUFFICES ASSUME LotsInv, [ShelfNext]_shelfVars PROVE LotsInv'
  OBVIOUS
<1>1. ShelfInv' /\ ShelfInv
  BY ShelfSteps DEF LotsInv
<1>2. ASSUME LotsKept PROVE LotsInv'
  BY <1>1, <1>2 DEF LotsInv, LotsKept
<1>3. ASSUME UNCHANGED <<shelf, lots, txns, torn>> PROVE LotsInv'
  BY <1>1, <1>3 DEF LotsInv, TierOK, RowsOK, OwedIn, LiveIn
<1>4. ASSUME NEW t \in Tiers, NEW q \in 1..MaxQty, CounterSale(t, q)
      PROVE  LotsInv'
  <2>1. q \in Int /\ -q \in Int /\ shelf[t] \in Int
    BY <1>1, ShelfConstants DEF ShelfInv, ShelfTypes
  <2>2. shelf[t] + (-q) >= 0
    BY <1>4, <2>1 DEF CounterSale
  <2> QED
    BY <1>2, <1>4, <2>1, <2>2, BookKeepsLots DEF CounterSale
<1>5. ASSUME NEW t \in Tiers, NEW q \in 1..MaxQty, NEW m \in Modes, Receive(t, q, m)
      PROVE  LotsInv'
  <2>1. q \in Int /\ q >= 0 /\ shelf[t] \in Int
    BY <1>1, ShelfConstants DEF ShelfInv, ShelfTypes
  <2>2. shelf[t] >= 0
    BY <1>1 DEF ShelfInv, Explained
  <2>3. shelf[t] + q >= 0
    BY <2>1, <2>2
  <2> QED
    BY <1>2, <1>5, <2>1, <2>3, BookKeepsLots DEF Receive
<1>6. ASSUME NEW c \in Clients, CommitSet(c) PROVE LotsInv'
  <2>1. PICK t \in Tiers : t = tx[c].tier
    BY <1>1, <1>6 DEF CommitSet, ShelfInv, ShelfTypes, TxsOK, TxOK
  <2>2. PICK kind \in {"sale", "other"} : kind = tx[c].kind
    BY <1>1, <1>6 DEF CommitSet, ShelfInv, ShelfTypes, TxsOK, TxOK
  <2>3. PICK to \in Nat : to = tx[c].to
    BY <1>1, <1>6 DEF CommitSet, ShelfInv, ShelfTypes, TxsOK, TxOK
  <2>4. PICK was \in Int : was = shelf[t]
    BY <1>1 DEF ShelfInv, ShelfTypes
  <2>5. Book(kind, t, was, to - was, None)
    BY <1>6, <2>1, <2>2, <2>3, <2>4 DEF CommitSet
  <2>6. to - was \in Int /\ was + (to - was) >= 0
    OBVIOUS
  <2> QED
    BY <1>2, <2>4, <2>5, <2>6, BookKeepsLots
<1>7. ASSUME NEW c \in Clients, CommitUndo(c) PROVE LotsInv'
  BY <1>1, <1>2, <1>7, UndoKeepsLots
<1>8. ASSUME NEW c \in Clients, CommitMirror(c) PROVE LotsInv'
  BY <1>2, <1>8, MirrorKeepsLots
<1>9. ASSUME Unwritten PROVE LotsInv'
  BY <1>3, <1>9 DEF Unwritten
<1>10. CASE UNCHANGED shelfVars
  BY <1>3, <1>10 DEF shelfVars
<1> QED
  BY <1>4, <1>5, <1>6, <1>7, <1>8, <1>9, <1>10
     DEF ShelfNext, BeginSale, BeginCount, BeginUndo, BeginMirror, Abort

LEMMA LotsHold == ShelfSpec => []LotsInv
  BY LotsStart, LotsSteps, PTL DEF ShelfSpec

\* LotsMatchShelf, for every number of sizes, of transactions in flight and of
\* movements: the batches of a size add up to its quantity until an undo tears
\* them apart.
THEOREM BatchesAlwaysMatch == ShelfSpec => []LotsMatchShelf
<1>1. LotsInv => LotsMatchShelf
  BY DEF LotsInv, Matched, LotsMatchShelf
<1> QED
  BY <1>1, LotsHold, PTL

-----------------------------------------------------------------------------
(* From the sum over the movements to the two sums of ConsignedBilled.     *)

SoldIn(q, t) == {i \in LiveIn(q, t) : q[i].kind = "sale" /\ q[i].from # NoFrom}
OffsIn(q, t, x) == {i \in LiveIn(q, t) : q[i].kind # "sale" /\ x \in DOMAIN q[i].from}
BilledIn(q, t) == Sum([i \in SoldIn(q, t) |-> q[i].bill])
WrittenOff(q, t, x) == Sum([i \in OffsIn(q, t, x) |-> q[i].from[x]])

\* What is written off of a batch, as a sum over all movements of the size.
LEMMA WrittenOffIs ==
    ASSUME NEW q, IsBook(q), NEW t, NEW ls, RowsOK(ls, q, t), NEW x,
           NEW m \in [LiveIn(q, t) -> Int],
           \A i \in LiveIn(q, t) : m[i] = IF q[i].kind # "sale" THEN Part(q[i].from, x) ELSE 0
    PROVE  WrittenOff(q, t, x) = Sum(m)
<1>1. PICK L, T : L = LiveIn(q, t) /\ T = OffsIn(q, t, x)
  OBVIOUS
<1>2. IsFiniteSet(L) /\ T \in SUBSET L
  BY <1>1, LiveFinite DEF OffsIn
<1>3. PICK h : h = [i \in T |-> q[i].from[x]]
  OBVIOUS
<1>4. \A i \in T : q[i].kind # "sale" /\ x \in DOMAIN q[i].from
  BY <1>1 DEF OffsIn
<1>5. \A i \in T : h[i] = m[i]
  BY <1>1, <1>2, <1>3, <1>4 DEF Part
<1>6. h \in [T -> Int]
  <2>1. \A i \in T : h[i] \in Int
    BY <1>1, <1>2, <1>5
  <2> QED
    BY <1>3, <2>1
<1>7. \A i \in L \ T : m[i] = 0
  BY <1>1 DEF OffsIn, Part
<1>8. \A f \in [L -> Int] : \A g \in [T -> Int] :
         (\A y \in T : g[y] = f[y]) /\ (\A y \in L \ T : f[y] = 0) => Sum(g) = Sum(f)
  BY ONLY <1>2, SumOfSupport
<1>9. Sum(h) = Sum(m)
  BY <1>1, <1>5, <1>6, <1>7, <1>8
<1> QED
  BY <1>1, <1>3, <1>9 DEF WrittenOff

LEMMA OwedIsBilled ==
    ASSUME NEW q, IsBook(q), NEW t, NEW ls, TierOK(ls, q, t)
    PROVE  Out(ls) = BilledIn(q, t)
                       + Sum([k \in Consigned(ls) |-> WrittenOff(q, t, ls[k].source)])
<1>1. /\ LotsOK(ls, Len(q)) /\ RowsOK(ls, q, t) /\ Out(ls) = OwedIn(ls, q, t)
  BY DEF TierOK
<1>2. PICK L, C, T : L = LiveIn(q, t) /\ C = Consigned(ls) /\ T = SoldIn(q, t)
  OBVIOUS
<1>3. IsFiniteSet(L) /\ IsFiniteSet(C) /\ T \in SUBSET L
  <2>1. IsFiniteSet(C)
    BY <1>1, <1>2, LotsFacts, FS_Subset
  <2> QED
    BY <1>2, <2>1, LiveFinite DEF SoldIn
<1>4. \A i \in L : /\ FromOK(ls, q[i].from) /\ Owed(ls, q[i].from) \in Int
                   /\ q[i].kind = "sale" /\ q[i].from # NoFrom => q[i].bill = Owed(ls, q[i].from)
  BY <1>1, <1>2, GivenTyped DEF RowsOK, RowOK
<1>5. Owed(ls, NoFrom) = 0
  BY <1>1, NothingOwed
<1>6. PICK o : o = [i \in L |-> Owed(ls, q[i].from)]
  OBVIOUS
<1>7. PICK b : b = [i \in L |-> IF i \in T THEN q[i].bill ELSE 0]
  OBVIOUS
<1>8. PICK w : w = [i \in L |-> IF q[i].kind # "sale" THEN Owed(ls, q[i].from) ELSE 0]
  OBVIOUS
<1>9. \A i \in L : /\ b[i] \in Int /\ w[i] \in Int /\ o[i] \in Int /\ o[i] = b[i] + w[i]
  <2> SUFFICES ASSUME NEW i \in L
               PROVE  b[i] \in Int /\ w[i] \in Int /\ o[i] \in Int /\ o[i] = b[i] + w[i]
    OBVIOUS
  <2>1. PICK v \in Int : v = Owed(ls, q[i].from)
    BY <1>4
  <2>2. o[i] = v
    BY <1>6, <2>1
  <2>3. CASE q[i].kind # "sale"
    <3>1. i \notin T
      BY <1>2, <2>3 DEF SoldIn
    <3> QED
      BY <1>7, <1>8, <2>1, <2>2, <2>3, <3>1
  <2>4. CASE q[i].kind = "sale" /\ q[i].from # NoFrom
    <3>1. i \in T /\ q[i].bill = v
      BY <1>2, <1>4, <2>1, <2>4 DEF SoldIn
    <3> QED
      BY <1>7, <1>8, <2>2, <2>4, <3>1
  <2>5. CASE q[i].kind = "sale" /\ q[i].from = NoFrom
    <3>1. i \notin T /\ v = 0
      BY <1>2, <1>5, <2>1, <2>5 DEF SoldIn
    <3> QED
      BY <1>7, <1>8, <2>2, <2>5, <3>1
  <2> QED
    BY <2>3, <2>4, <2>5
<1>10. b \in [L -> Int] /\ w \in [L -> Int] /\ o \in [L -> Int]
  BY <1>6, <1>7, <1>8, <1>9
<1>11. Sum(o) = Sum(b) + Sum(w)
  <2>1. \A f, h, k \in [L -> Int] :
           (\A x \in L : k[x] = f[x] + h[x]) => Sum(k) = Sum(f) + Sum(h)
    BY ONLY <1>3, SumOfSums
  <2> QED
    BY <1>9, <1>10, <2>1
<1>12. Sum(b) = BilledIn(q, t)
  <2>1. PICK h : h = [i \in T |-> q[i].bill]
    OBVIOUS
  <2>2. \A i \in T : h[i] = b[i]
    BY <1>3, <1>7, <2>1
  <2>3. h \in [T -> Int]
    <3>1. \A i \in T : h[i] \in Int
      BY <1>3, <1>10, <2>2
    <3> QED
      BY <2>1, <3>1
  <2>4. \A i \in L \ T : b[i] = 0
    BY <1>7
  <2>5. \A f \in [L -> Int] : \A g \in [T -> Int] :
           (\A y \in T : g[y] = f[y]) /\ (\A y \in L \ T : f[y] = 0) => Sum(g) = Sum(f)
    BY ONLY <1>3, SumOfSupport
  <2>6. Sum(h) = Sum(b)
    BY <1>10, <2>2, <2>3, <2>4, <2>5
  <2> QED
    BY <1>2, <2>1, <2>6 DEF BilledIn
<1>13. PICK m : m = [i \in L |-> [k \in C |->
                        IF q[i].kind # "sale" THEN Part(q[i].from, ls[k].source) ELSE 0]]
  OBVIOUS
<1>14. \A i \in L : \A k \in C :
          m[i][k] = (IF q[i].kind # "sale" THEN Part(q[i].from, ls[k].source) ELSE 0)
            /\ m[i][k] \in Int
  <2>1. \A i \in L : \A x : Part(q[i].from, x) \in Int
    BY <1>4, PartIsNat
  <2> SUFFICES ASSUME NEW i \in L, NEW k \in C
               PROVE  m[i][k] = (IF q[i].kind # "sale" THEN Part(q[i].from, ls[k].source) ELSE 0)
                        /\ m[i][k] \in Int
    BY Zenon
  <2>2. PICK p : p = Part(q[i].from, ls[k].source)
    OBVIOUS
  <2>3. p \in Int
    BY <2>1, <2>2
  <2>4. m[i][k] = (IF q[i].kind # "sale" THEN p ELSE 0)
    BY <1>13, <2>2
  <2>5. m[i][k] \in Int
    BY <2>3, <2>4
  <2> QED
    BY <2>2, <2>4, <2>5
<1>15. m \in [L -> [C -> Int]]
  <2>1. \A i \in L : m[i] \in [C -> Int]
    BY <1>13, <1>14
  <2> QED
    BY <1>13, <2>1
<1>16. \A i \in L : w[i] = Sum(m[i])
  <2> SUFFICES ASSUME NEW i \in L PROVE w[i] = Sum(m[i])
    OBVIOUS
  <2>1. m[i] \in [C -> Int]
    BY <1>15
  <2>2. CASE q[i].kind # "sale"
    <3>1. m[i] = [k \in Consigned(ls) |-> Part(q[i].from, ls[k].source)]
      BY <1>2, <1>13, <2>2
    <3>2. Sum(m[i]) = Owed(ls, q[i].from)
      BY <3>1, Zenon DEF Owed
    <3> QED
      BY <1>8, <2>2, <3>2
  <2>3. CASE q[i].kind = "sale"
    <3>1. \A k \in C : m[i][k] = 0
      BY <1>14, <2>3
    <3>2. \A g \in [C -> Int] : (\A k \in C : g[k] = 0) => Sum(g) = 0
      BY ONLY <1>3, SumOfZeros
    <3>3. Sum(m[i]) = 0
      BY <2>1, <3>1, <3>2
    <3> QED
      BY <1>8, <2>3, <3>3
  <2> QED
    BY <2>2, <2>3
<1>17. w = [i \in L |-> Sum(m[i])]
  BY <1>8, <1>16
<1>18. Sum([i \in L |-> Sum(m[i])]) = Sum([k \in C |-> Sum([i \in L |-> m[i][k]])])
  BY ONLY <1>3, <1>15, SumSwapped
<1>19. \A k \in C : Sum([i \in L |-> m[i][k]]) = WrittenOff(q, t, ls[k].source)
  <2> SUFFICES ASSUME NEW k \in C
               PROVE  Sum([i \in L |-> m[i][k]]) = WrittenOff(q, t, ls[k].source)
    OBVIOUS
  <2>1. PICK column : column = [i \in L |-> m[i][k]]
    OBVIOUS
  <2>2. PICK x : x = ls[k].source
    OBVIOUS
  <2>3. column \in [L -> Int]
    BY <1>14, <2>1
  <2>4. \A i \in L : column[i] = IF q[i].kind # "sale" THEN Part(q[i].from, x) ELSE 0
    BY <1>14, <2>1, <2>2
  <2>5. WrittenOff(q, t, x) = Sum(column)
    BY <1>1, <1>2, <2>3, <2>4, WrittenOffIs
  <2> QED
    BY <2>1, <2>2, <2>5
<1>20. [k \in C |-> Sum([i \in L |-> m[i][k]])]
          = [k \in C |-> WrittenOff(q, t, ls[k].source)]
  BY <1>19
<1>21. Sum(w) = Sum([k \in C |-> WrittenOff(q, t, ls[k].source)])
  BY <1>17, <1>18, <1>20, Zenon
<1>22. OwedIn(ls, q, t) = Sum(o)
  BY <1>2, <1>6 DEF OwedIn
<1> QED
  BY <1>1, <1>2, <1>11, <1>12, <1>21, <1>22

\* ConsignedBilled, for every number of sizes, of transactions in flight and of
\* movements: what left the consigned batches is what the sales say the
\* settlements have to bill, and what other movements wrote off, and no more.
THEOREM ConsignedAlwaysBilled == ShelfSpec => []ConsignedBilled
<1>1. LotsInv => ConsignedBilled
  <2> SUFFICES ASSUME LotsInv, NEW t \in Tiers
               PROVE  Out(lots[t]) = BilledIn(txns, t)
                         + Sum([k \in Consigned(lots[t]) |-> WrittenOff(txns, t, lots[t][k].source)])
    BY Zenon DEF ConsignedBilled, Out, BilledIn, SoldIn, WrittenOff, OffsIn, Live, LiveIn
  <2>1. IsBook(txns) /\ TierOK(lots[t], txns, t)
    BY DEF LotsInv, ShelfInv, ShelfTypes
  <2> QED
    BY <2>1, OwedIsBilled
<1> QED
  BY <1>1, LotsHold, PTL
=============================================================================
