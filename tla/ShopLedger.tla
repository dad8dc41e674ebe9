---------------------------- MODULE ShopLedger ------------------------------
(***************************************************************************)
(* The shelf of a shop and its settlements over the movements they share:  *)
(* sales appear, are undone and are locked while the store and the back    *)
(* office settle them.                                                     *)
(***************************************************************************)
EXTENDS Settlements

CONSTANTS Tiers, Clients, Handlers, InitQty, MaxQty, MaxTxns

ASSUME LedgerConstants ==
    /\ IsFiniteSet(Tiers) /\ Tiers = 1..Cardinality(Tiers)
    /\ InitQty \in Nat /\ MaxQty \in Nat /\ MaxTxns \in Nat

VARIABLES shelf, lots, tx, clamped, torn

Shelf == INSTANCE ShopShelf

shelfOnly == <<shelf, lots, tx, clamped, torn>>
vars == <<txns, settlements, req, shelfOnly>>

Init == Shelf!ShelfInit /\ SettlementInit
ShelfStep == Shelf!ShelfNext /\ UNCHANGED settlementVars
SettlementStep == SettlementNext /\ UNCHANGED shelfOnly
Next == ShelfStep \/ SettlementStep
Spec == Init /\ [][Next]_vars
=============================================================================
