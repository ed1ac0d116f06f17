---------------------------- MODULE BookingMoney ----------------------------
(***************************************************************************)
(* The money of one booking, in paise: the price, what the wallet covers,  *)
(* what is paid and how, the driver's share, the charge of a cancellation, *)
(* and what is given back.  Requests come one after the other; the races   *)
(* of payments are BookingPayment's, those of refunds RefundIntent's.      *)
(***************************************************************************)
EXTENDS Integers

CONSTANTS
    Vehicles,    \* [base, perKm : paise, baseM : metres, maxKg : kg]
    Jobs,        \* [metres, kg, gst]: what a customer may want carried
    Balances,    \* of the customer's wallet, negative when in debt
    Waits,       \* minutes from acceptance to cancellation
    Requests     \* amounts a manual refund may ask for

\* Every model has a fare.
ASSUME VehiclesAssumption ==
    Vehicles \subseteq [base : Nat \ {0}, perKm : Nat, baseM : Nat, maxKg : Nat]
ASSUME JobsAssumption == Jobs \subseteq [metres : Nat, kg : Nat, gst : BOOLEAN]
ASSUME AmountsAssumption == Balances \subseteq Int /\ Waits \subseteq Nat /\ Requests \subseteq Nat

VARIABLES
    stage,       \* "new", "placed", "accepted", "paid", "finished", "cancelled", "asked", "closed"
    job,         \* the booking's package and addresses
    estimate,    \* the ESTIMATE invoice: [vehicle, final]
    bill,        \* the FINAL invoice: [base, fee, total, applied, final, method]
    before,      \* Customer.walletBalance when the booking was made
    wallet,      \* Customer.walletBalance
    earned,      \* what the ride has brought the driver's wallet
    online,      \* paid through the gateway, less what the gateway has returned
    cash,        \* paid to the driver
    refund       \* RefundIntent: [wallet, online, charge, paid]

moneyVars == <<stage, job, estimate, bill, before, wallet, earned, online, cash, refund>>

\* Config.
PlatformFee        == 2000
CommissionPercent  == 7
CancellationBase   == 10000
MinChargePercent   == 20
MaxChargePercent   == 100
PercentPerMinute   == 10

HalfFee == PlatformFee \div 2

NoBill   == [base |-> 0, fee |-> 0, total |-> 0, applied |-> 0, final |-> 0, method |-> "NONE"]
NoRefund == [wallet |-> 0, online |-> 0, charge |-> 0, paid |-> FALSE]

\* n / d in whole paise, towards zero: ROUND_DOWN.
Truncated(n, d) == IF n < 0 THEN -((-n) \div d) ELSE n \div d

-----------------------------------------------------------------------------
(* The price.                                                              *)

Larger(a, b)  == IF a < b THEN b ELSE a
Smaller(a, b) == IF a < b THEN a ELSE b

\* Half a paisa is rounded up.
Price(v, j) ==
    LET extra == Larger(j.metres - v.baseM, 0) * v.perKm
        base  == v.base * Larger(1000, j.kg)
    IN  (2 * (extra + base) + 1000) \div 2000

Suitable(j) == {v \in Vehicles : v.maxKg >= j.kg}

\* The vehicles an estimate may name: the cheapest of those that carry the load.
Ideal(j) == {v \in Suitable(j) : \A w \in Suitable(j) : Price(v, j) <= Price(w, j)}

Fee(j) == IF j.gst THEN 0 ELSE PlatformFee

\* A credit is used as far as the price goes, a debt is added to it.
Applied(balance, total) == IF balance > 0 THEN Smaller(balance, total) ELSE balance

-----------------------------------------------------------------------------
(* The booking and its payment.                                            *)

MoneyInit ==
    /\ job \in Jobs
    /\ before \in Balances
    /\ wallet = before
    /\ stage = "new" /\ estimate = 0 /\ bill = NoBill /\ refund = NoRefund
    /\ earned = 0 /\ online = 0 /\ cash = 0

\* Refused when no vehicle can carry the load.
CreateEstimateInvoice ==
    /\ stage = "new"
    /\ \E v \in Ideal(job) :
          LET total == Price(v, job) + Fee(job)
          IN  estimate' = total - Applied(wallet, total)
    /\ stage' = "placed"
    /\ UNCHANGED <<job, bill, before, wallet, earned, online, cash, refund>>

\* The driver that accepts has been offered the booking: his vehicle can carry it.
CreateFinalInvoice(v) ==
    /\ stage = "placed"
    /\ v \in Suitable(job)
    /\ LET total   == Price(v, job) + Fee(job)
           applied == Applied(wallet, total)
       IN  /\ bill' = [base |-> v.base, fee |-> Fee(job), total |-> total,
                       applied |-> applied, final |-> total - applied, method |-> "NONE"]
           /\ wallet' = wallet - applied
    /\ stage' = IF bill'.final <= 0 THEN "paid" ELSE "accepted"
    /\ UNCHANGED <<job, estimate, before, earned, online, cash, refund>>

PaySuccess ==
    /\ stage = "accepted"
    /\ online' = online + bill.final
    /\ bill' = [bill EXCEPT !.method = "ONLINE"]
    /\ stage' = "paid"
    /\ UNCHANGED <<job, estimate, before, wallet, earned, cash, refund>>

ProcessCashPayment ==
    /\ stage = "accepted"
    /\ cash' = cash + bill.final
    /\ bill' = [bill EXCEPT !.method = "CASH"]
    /\ stage' = "paid"
    /\ UNCHANGED <<job, estimate, before, wallet, earned, online, refund>>

Commission == Truncated((bill.total - bill.fee) * CommissionPercent, 100)

\* Mutant: what the wallet has covered is not made up for when the rest is cash.
WalletChangeOfCash ==
    IF bill.method = "CASH" THEN -(Commission + bill.fee)
    ELSE bill.total - bill.fee - Commission

\* A driver who has the cash owes the platform its part of it.
WalletChange ==
    IF bill.method = "CASH" THEN bill.applied - Commission - bill.fee
    ELSE bill.total - bill.fee - Commission

\* An invoice that the wallet covers has no method, and its ride no end.
SettleRide ==
    /\ stage = "paid" /\ bill.method # "NONE"
    /\ earned' = earned + WalletChange
    /\ stage' = "finished"
    /\ UNCHANGED <<job, estimate, bill, before, wallet, online, cash, refund>>

-----------------------------------------------------------------------------
(* Cancellation.                                                           *)

ChargePercent(minutes) ==
    Larger(MinChargePercent, Smaller(MaxChargePercent, PercentPerMinute * minutes))

CancellationCharge(minutes) ==
    Smaller(bill.base, (CancellationBase * ChargePercent(minutes)) \div 100 + HalfFee)

\* Wallet and gateway bear the charge as they have borne the price.
PartLess(part, charge) == Truncated(part * bill.total - charge * part, bill.total)

\* An intent that is NOT_REQUIRED is never processed, whatever the driver is due.
HasPendingAction(r) == r.wallet > 0 \/ r.online > 0 \/ (~r.paid /\ r.charge > 0)

\* Before pickup; an invoice paid in cash is refused.
CancelRide(minutes) ==
    /\ stage \in {"accepted", "paid"} /\ bill.method # "CASH"
    /\ LET charge == CancellationCharge(minutes)
       IN  refund' =
             IF stage = "paid"
             THEN [wallet |-> PartLess(bill.applied, charge),
                   online |-> PartLess(bill.final, charge), charge |-> charge, paid |-> TRUE]
             ELSE [wallet |-> bill.applied, online |-> 0, charge |-> charge, paid |-> FALSE]
    /\ stage' = IF HasPendingAction(refund') THEN "cancelled" ELSE "closed"
    /\ UNCHANGED <<job, estimate, bill, before, wallet, earned, online, cash>>

\* The driver has no part in the platform's half fee.
Compensation(charge) == Larger(0, charge - HalfFee)

ProcessCancellation ==
    /\ stage = "cancelled"
    /\ wallet' = wallet + refund.wallet - (IF refund.paid THEN 0 ELSE refund.charge)
    /\ online' = online - refund.online
    /\ earned' = earned + Compensation(refund.charge)
    /\ stage' = "closed"
    /\ UNCHANGED <<job, estimate, bill, before, cash, refund>>

-----------------------------------------------------------------------------
(* A manual refund, of a ride that has been paid.                          *)

\* finalizeRefund: the wallet's part is truncated, the gateway's is the rest.
FinalizeRefund(requested) ==
    /\ stage \in {"paid", "finished"}
    /\ requested <= bill.total
    /\ LET part == Truncated(requested * bill.applied, bill.total)
       IN  refund' = [wallet |-> part, online |-> requested - part, charge |-> 0, paid |-> TRUE]
    /\ stage' = "asked"
    /\ UNCHANGED <<job, estimate, bill, before, wallet, earned, online, cash>>

\* Only an invoice paid online has a payment that the gateway can return.
ProcessManualRefund ==
    /\ stage = "asked"
    /\ wallet' = wallet + refund.wallet
    /\ online' = online - (IF bill.method = "ONLINE" THEN refund.online ELSE 0)
    /\ stage' = "closed"
    /\ UNCHANGED <<job, estimate, bill, before, earned, cash, refund>>

-----------------------------------------------------------------------------
MoneyNext ==
    \/ CreateEstimateInvoice
    \/ \E v \in Vehicles : CreateFinalInvoice(v)
    \/ PaySuccess
    \/ ProcessCashPayment
    \/ SettleRide
    \/ \E t \in Waits : CancelRide(t)
    \/ ProcessCancellation
    \/ \E r \in Requests : FinalizeRefund(r)
    \/ ProcessManualRefund

MoneySpec == MoneyInit /\ [][MoneyNext]_moneyVars

-----------------------------------------------------------------------------
Outlay == before - wallet + online + cash

Cancelled == stage = "closed" /\ refund.charge > 0

\* However the price is split between wallet, gateway and cash, and whatever is
\* truncated: a finished ride costs the customer its price and brings the
\* driver, wallet and cash together, the fare less commission; a cancelled one
\* costs its charge or a paisa more, and the platform pays the driver from it;
\* the gateway never returns more than it was paid, and no acceptance bills less
\* than was estimated.
MoneyAddsUp ==
    /\ stage = "finished" =>
          /\ Outlay = bill.total
          /\ earned + cash = bill.total - bill.fee - Commission
    /\ Cancelled => Outlay - refund.charge \in 0..1 /\ earned <= Outlay
    /\ online >= 0
    /\ bill # NoBill => bill.final >= estimate

\* "COMPLETED (Refund processed)": the customer has the amount of a completed
\* manual refund, which the desk's processor splits between wallet and gateway.
CompletedIsReturned ==
    stage = "closed" /\ refund.charge = 0 => Outlay = bill.total - refund.wallet - refund.online
=============================================================================
