--------------------------- MODULE RefundContract ---------------------------
(***************************************************************************)
(* The contract for the money of the point of sale: pure functions that    *)
(* say what a refund of a sold line, and a cancelled grooming voucher, may *)
(* change.  Nothing calls them yet.  The contract asks of its caller that  *)
(* he hand in the rows as they are and write the answer in one transaction *)
(* (POS-01-DOMAIN-CONTRACT.md, 3.5), so each call is one step here.        *)
(* Answers are written once and never changed: what the functions sum over *)
(* them is kept as running totals.  A key that has an answer gets it again *)
(* or is refused, and either changes nothing, so keys are left out; so is  *)
(* what a refund does to the stock, which has no caller that applies it.   *)
(***************************************************************************)
EXTENDS Integers

CONSTANTS
    SoldLines, \* lines that may have been sold
    Refunds,   \* refund requests for the line
    Disputes,  \* requests to cancel the voucher
    Face,      \* groomingVoucherFaceTwd
    Unapproved

Channels == {"merchant", "furmosa"}

\* qty is 0 for a line that has none.
ASSUME ContractConstants ==
    /\ SoldLines \subseteq [channel : Channels, gross : Nat, qty : Nat, rate : 0..100]
    /\ Face \in Nat

VARIABLES
    sold,       \* the line, with the rate it was sold at
    settlement, \* status of the settlement that has the line and the voucher
    refund,     \* status of each refund request
    returned,   \* totals of the answered refunds
    voucher, dispute,
    books,      \* what the shop owes HQ in the period of the line and the next
    approved    \* what the approved settlement said

contractVars == <<sold, settlement, refund, returned, voucher, dispute, books, approved>>

-----------------------------------------------------------------------------
\* roundPercentCommission: a half is rounded up.
Commission(amount, rate) == (2 * amount * rate + 100) \div 200

Snapshot == Commission(sold.gross, sold.rate)
Left == sold.gross - returned.amount

\* ordinarySaleLedger, in what the shop owes: its takings less the commission,
\* or, when HQ was paid, the commission it still gets.
OwedFor(channel, amount, commission) ==
    IF channel = "merchant" THEN amount - commission ELSE -commission

Locked == settlement \in {"approved", "paid"}

\* An entry goes to the period of the line until its settlement is approved.
Entered(owed) ==
    IF Locked THEN [books EXCEPT !.next = @ + owed] ELSE [books EXCEPT !.current = @ + owed]

ContractInit ==
    /\ sold \in SoldLines
    /\ settlement = "none"
    /\ refund = [r \in Refunds |-> "none"]
    /\ returned = [amount |-> 0, qty |-> 0, commission |-> 0]
    /\ voucher = "redeemed"
    /\ dispute = [d \in Disputes |-> "none"]
    /\ books = [current |-> OwedFor(sold.channel, sold.gross, Snapshot) - Face, next |-> 0]
    /\ approved = Unapproved

-----------------------------------------------------------------------------
(* Settlements and requests.                                               *)

SettlementMoves ==
    {<<"none", "draft">>, <<"draft", "reviewing">>, <<"draft", "cancelled">>,
     <<"reviewing", "approved">>, <<"reviewing", "draft">>, <<"approved", "paid">>}
MoveSettlement(next) ==
    /\ <<settlement, next>> \in SettlementMoves
    /\ settlement' = next
    /\ approved' = IF next = "approved" THEN books.current ELSE approved
    /\ UNCHANGED <<sold, refund, returned, voucher, dispute, books>>

\* A shop asks; decideRefundRequest: HQ decides.
RefundMoves ==
    {<<"none", "requested">>, <<"requested", "approved">>, <<"requested", "rejected">>}
MoveRefund(r, next) ==
    /\ <<refund[r], next>> \in RefundMoves
    /\ refund' = [refund EXCEPT ![r] = next]
    /\ UNCHANGED <<sold, settlement, returned, voucher, dispute, books, approved>>

\* requestVoucherCancellation.
Complain(d) ==
    /\ dispute[d] = "none" /\ voucher = "redeemed"
    /\ dispute' = [dispute EXCEPT ![d] = "pending"]
    /\ UNCHANGED <<sold, settlement, refund, returned, voucher, books, approved>>

-----------------------------------------------------------------------------
(* Refunds.                                                                *)

\* nextCommissionReversalSnapshot: what the line has earned so far, less what
\* the rest of it would have.
ReversalOfPart(amount) == Commission(amount, sold.rate)  \* mutant: each refund is rounded
Reversal(amount) == Snapshot - Commission(Left - amount, sold.rate) - returned.commission

\* What applyRefundReversalLine and refundableRemainder refuse.
Refundable(amount, qty) ==
    /\ amount \in 1..Left /\ qty >= 0
    /\ qty > 0 => sold.qty > 0 /\ returned.qty + qty <= sold.qty
ReversalAgrees(amount) ==
    /\ returned.commission = Snapshot - Commission(Left, sold.rate)
    /\ Reversal(amount) >= 0 /\ returned.commission + Reversal(amount) <= Snapshot

\* completeApprovedRefund, the first time.
Complete(r, amount, qty) ==
    /\ refund[r] = "approved" /\ Refundable(amount, qty) /\ ReversalAgrees(amount)
    /\ refund' = [refund EXCEPT ![r] = "completed"]
    /\ returned' = [amount |-> returned.amount + amount, qty |-> returned.qty + qty,
                    commission |-> returned.commission + Reversal(amount)]
    /\ books' = Entered(-OwedFor(sold.channel, amount, Reversal(amount)))
    /\ UNCHANGED <<sold, settlement, voucher, dispute, approved>>

-----------------------------------------------------------------------------
\* decideVoucherCancellation, the first time: the subsidy is taken back.
Decide(d, decision) ==
    /\ voucher = "redeemed" /\ dispute[d] = "pending"
    /\ dispute' = [dispute EXCEPT ![d] = decision]
    /\ IF decision = "approved" THEN voucher' = "cancelled" /\ books' = Entered(Face)
       ELSE UNCHANGED <<voucher, books>>
    /\ UNCHANGED <<sold, settlement, refund, returned, approved>>

ContractNext ==
    \/ \E next \in {"draft", "reviewing", "approved", "paid", "cancelled"} : MoveSettlement(next)
    \/ \E r \in Refunds :
        \/ \E next \in {"requested", "approved", "rejected"} : MoveRefund(r, next)
        \/ \E amount \in 1..sold.gross, qty \in 0..sold.qty : Complete(r, amount, qty)
    \/ \E d \in Disputes : \/ Complain(d)
                          \/ \E decision \in {"approved", "rejected"} : Decide(d, decision)
ContractSpec == ContractInit /\ [][ContractNext]_contractVars

-----------------------------------------------------------------------------
\* Refunds in parts undo the sale to the dollar, in whatever parts and in which
\* periods: what the shop owes over both periods is what it would owe had only
\* the rest been sold, and one subsidy for a voucher that stands.
UndoesTheSale ==
    books.current + books.next =
        OwedFor(sold.channel, Left, Commission(Left, sold.rate))
          - (IF voucher = "redeemed" THEN Face ELSE 0)

\* A refund within what is left is never refused for its rounding: the commission
\* to give back is no less than nothing and no more than what was kept.
NoneIsRefused == \A amount \in 1..Left : ReversalAgrees(amount)

\* What was approved is not touched again.
ApprovedStands == Locked => books.current = approved

\* The three together: no order of refunds, cancellations and settlements makes
\* the books of a line disagree with its refunds or with what was approved.
RefundsUndoTheSale == UndoesTheSale /\ NoneIsRefused /\ ApprovedStands
=============================================================================
