----------------------------- MODULE MCPayments -----------------------------
(***************************************************************************)
(* Instances of BookingPayment, DriverTopUp, BookingMoney and Referral for *)
(* TLC.  They share no variable, so a behaviour runs one of them and       *)
(* leaves the others as they are at the start: every state of each is      *)
(* reached, and not their product.                                         *)
(***************************************************************************)
EXTENDS BookingPayment, DriverTopUp, MCBookingMoney, Referral

VARIABLE part

MCInit ==
    /\ Init /\ TopUpInit /\ MoneyInit /\ ReferralInit
    /\ part \in {"booking", "topUp", "money", "customers", "drivers"}
    \* Elsewhere the job and the balance do not matter.
    /\ part # "money" => /\ job = CHOOSE j \in Jobs : TRUE
                         /\ before = 0

\* Bounds of the model: customers refer each other, or drivers; one more of the
\* other kind rides; and there is one ride, or there are no faults and one code,
\* applied in time, and by one application at a time.
Referring == IF part = "customers" THEN Customers ELSE Drivers

OneOther ==
    LET other == CHOOSE o \in Users \ Referring : TRUE
    IN  \A b \in Rides :
           {ride'[b].customer, ride'[b].driver} \subseteq Referring \cup {other, NoUser}

FewReferrals ==
    /\ \A u \in Users \ Referring : code'[u] = "awaited" /\ u \in fresh'
    /\ Cardinality(Users \ fresh') <= 1
    /\ OneOther
    /\ \/ Cardinality({b \in Rides : ride'[b] # NoRide}) <= 1
       \/ /\ referralFaults' = 0 /\ fresh' = Users
          /\ Cardinality({u \in Users : code'[u] # "awaited"}) <= 1
          /\ Cardinality({a \in Applications : application'[a] # NotApplied}) <= 1

MCNext ==
    /\ \/ part = "booking" /\ Next /\ UNCHANGED <<topUpVars, moneyVars, referralVars>>
       \/ part = "topUp" /\ TopUpNext /\ UNCHANGED <<vars, moneyVars, referralVars>>
       \/ part = "money" /\ MoneyNext /\ UNCHANGED <<vars, topUpVars, referralVars>>
       \/ part \in {"customers", "drivers"} /\ ReferralNext /\ FewReferrals
          /\ UNCHANGED <<vars, topUpVars, moneyVars>>
    /\ UNCHANGED part

MCSpec ==
    /\ MCInit /\ [][MCNext]_<<vars, topUpVars, moneyVars, referralVars, part>>
    /\ Fairness /\ TopUpFairness /\ ReferralFairness
=============================================================================
