--------------------------- MODULE MCShopLedger -----------------------------
(* Three scenes: the settlements of a shop, with interchangeable rows and    *)
(* requests; the statements of two vendors over two orders, one of which is  *)
(* edited; and the refunds of a line sold at the counter or on the web.      *)
EXTENDS ShopLedger, VendorSettlements, RefundContract, TLC

CONSTANTS o1, o2, v1, v2
VARIABLE scene

MCPeriods == {1..MaxTxns}
Symmetry == Permutations(Settlements) \cup Permutations(Requests) \cup Permutations(Clients)

Bps == (v1 :> 3000) @@ (v2 :> 5000)
Of(vendor, amount) == [vendor |-> vendor, amount |-> amount]
\* The same lines at two discounts; other lines of the same sum; a house line.
MCContents ==
    {[discount |-> d, lines |-> <<Of(v1, 1), Of(v2, 2)>>] : d \in {1, 2}} \cup
    {[discount |-> 2, lines |-> <<Of(v1, 1), Of(House, 1), Of(v1, 1)>>]}

\* 30 % of 5, 4, 3, 2 and 1 is rounded up, down, down, up and down.
MCSoldLines == [channel : Channels, gross : {5}, qty : {1}, rate : {30}]

MCInit ==
    /\ Init /\ VendorInit /\ ContractInit /\ scene \in {"shop", "vendors", "refunds"}
    /\ scene = "refunds" \/ sold = CHOOSE line \in SoldLines : TRUE
MCNext ==
    /\ UNCHANGED scene
    /\ \/ scene = "shop" /\ Next /\ UNCHANGED <<vendorVars, contractVars>>
       \/ scene = "vendors" /\ VendorNext /\ UNCHANGED <<vars, contractVars>>
          /\ sale'[o2].edition <= 1 /\ statement'[v2].status \in {"none", "draft"}
       \/ scene = "refunds" /\ ContractNext /\ UNCHANGED <<vars, vendorVars>>
MCSpec == MCInit /\ [][MCNext]_<<vars, vendorVars, contractVars, scene>>
=============================================================================
