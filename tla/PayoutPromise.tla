---------------------------- MODULE PayoutPromise ----------------------------
(***************************************************************************)
(* What a payout to a driver promises: his wallet is charged first, then   *)
(* the gateway takes the payout, once, and only then is it booked as paid, *)
(* for good.                                                               *)
(***************************************************************************)
EXTENDS Naturals

CONSTANT Payouts

VARIABLES
    phase,  \* phase[p]: "none", "charged" or "booked"
    sent    \* sent[p]: payouts the gateway has taken for it

vars == <<phase, sent>>

Init ==
    /\ phase = [p \in Payouts |-> "none"]
    /\ sent = [p \in Payouts |-> 0]

Charge(p) ==
    /\ phase[p] = "none"
    /\ phase' = [phase EXCEPT ![p] = "charged"]
    /\ UNCHANGED sent

Send(p) ==
    /\ phase[p] = "charged"
    /\ sent[p] = 0
    /\ sent' = [sent EXCEPT ![p] = 1]
    /\ UNCHANGED phase

Book(p) ==
    /\ phase[p] = "charged"
    /\ sent[p] = 1
    /\ phase' = [phase EXCEPT ![p] = "booked"]
    /\ UNCHANGED sent

Next == \E p \in Payouts : Charge(p) \/ Send(p) \/ Book(p)

Spec == Init /\ [][Next]_vars
=============================================================================
