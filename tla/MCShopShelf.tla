---------------------------- MODULE MCShopShelf -----------------------------
(* The shelf on its own, with every writer.                                 *)
EXTENDS ShopShelf, TLC

Symmetry == Permutations(Clients)
=============================================================================
