----------------------------- MODULE MCPromises -----------------------------
(***************************************************************************)
(* Instances of RefundIntent and DriverPayout for TLC: the promises that   *)
(* are kept at the payment gateway.  They share no variable, so a          *)
(* behaviour runs one of them and leaves the other as it is at the start.  *)
(***************************************************************************)
EXTENDS RefundIntent, DriverPayout

CONSTANT OneIntent  \* the intent of the behaviours with one

VARIABLE part

MCInit ==
    /\ Init /\ PayoutInit
    /\ part \in {"oneRefund", "twoRefunds", "payouts"}
    \* What calls would work on does not matter until they have claimed it.
    /\ task = [w \in Workers |-> OneIntent]
    /\ payoutTask = [w \in PayoutCalls |-> CHOOSE p \in Payouts : TRUE]

\* Bounds of the model: there is one intent, or all and only one fault.
FewRefunds ==
    IF part = "oneRefund" THEN \A i \in Intents : bookingOf'[i] # NoBooking => i = OneIntent
    ELSE faults' <= 1

MCNext ==
    /\ \/ part \in {"oneRefund", "twoRefunds"} /\ Next /\ FewRefunds /\ UNCHANGED payoutVars
       \/ part = "payouts" /\ PayoutNext /\ UNCHANGED vars
    /\ UNCHANGED part

MCSpec ==
    /\ MCInit /\ [][MCNext]_<<vars, payoutVars, part>>
    /\ Fairness /\ PayoutFairness
=============================================================================
