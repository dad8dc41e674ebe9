---------------------------- MODULE ChargeLedger ----------------------------
(***************************************************************************)
(* What the payment side of the refill shop promises about money, whatever *)
(* callbacks arrive and in whatever order: every charge the gateway makes  *)
(* is settled exactly once, either as the one payment that pays for its    *)
(* bill (an order and a purpose) or as a charge that must be refunded, and *)
(* neither verdict is ever taken back.                                     *)
(***************************************************************************)
CONSTANTS Payments, Bills, None

VARIABLES
    bill,       \* the bill a trade was opened for
    taken,      \* trades whose money the gateway has taken
    winner,     \* the payment that pays for a bill
    refundDue   \* charges to be given back

ledger == <<bill, taken, winner, refundDue>>

LedgerInit ==
    /\ bill = [p \in Payments |-> None]
    /\ taken = {}
    /\ winner = [b \in Bills |-> None]
    /\ refundDue = {}

OpenTrade(p) ==
    /\ bill[p] = None
    /\ \E b \in Bills : bill' = [bill EXCEPT ![p] = b]
    /\ UNCHANGED <<taken, winner, refundDue>>

TakeMoney(p) ==
    /\ bill[p] # None /\ p \notin taken
    /\ taken' = taken \cup {p}
    /\ UNCHANGED <<bill, winner, refundDue>>

PayBill(p) ==
    /\ p \in taken /\ winner[bill[p]] = None
    /\ winner' = [winner EXCEPT ![bill[p]] = p]
    /\ UNCHANGED <<bill, taken, refundDue>>

OweRefund(p) ==
    /\ p \in taken \ refundDue /\ winner[bill[p]] \notin {None, p}
    /\ refundDue' = refundDue \cup {p}
    /\ UNCHANGED <<bill, taken, winner>>

SettleCharge(p) == PayBill(p) \/ OweRefund(p)

LedgerNext ==
    \E p \in Payments : OpenTrade(p) \/ TakeMoney(p) \/ SettleCharge(p)

LedgerSafety == LedgerInit /\ [][LedgerNext]_ledger

LedgerSpec ==
    LedgerSafety /\ \A p \in Payments : WF_ledger(SettleCharge(p))
=============================================================================
