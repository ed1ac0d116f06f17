---------------------------- MODULE RefundPromise ----------------------------
(***************************************************************************)
(* What the refund of a cancelled booking promises, without the machinery  *)
(* that keeps it: an intent falls due, is settled at most once, and costs  *)
(* at most one refund at the payment gateway, none after it is settled.    *)
(*                                                                         *)
(* The promise has one hole: an intent that is due may become contested,   *)
(* by two calls at once, and is then refunded and booked any number of     *)
(* times.  What is settled is never contested afterwards.                  *)
(***************************************************************************)
EXTENDS Naturals

CONSTANT Intents

VARIABLES
    phase,     \* phase[i]: "none", "due", "settled" or "contested"
    returned,  \* returned[i]: refunds at the gateway for this intent
    credited   \* credited[i]: times it was booked to the customer's wallet

vars == <<phase, returned, credited>>

Init ==
    /\ phase = [i \in Intents |-> "none"]
    /\ returned = [i \in Intents |-> 0]
    /\ credited = [i \in Intents |-> 0]

FallDue(i) ==
    /\ phase[i] = "none"
    /\ phase' = [phase EXCEPT ![i] = "due"]
    /\ UNCHANGED <<returned, credited>>

\* Not every intent needs one: nothing was paid online, or another refund of
\* the same payment and amount stands for it.
Return(i) ==
    /\ phase[i] = "due"
    /\ returned[i] = 0
    /\ returned' = [returned EXCEPT ![i] = 1]
    /\ UNCHANGED <<phase, credited>>

Settle(i) ==
    /\ phase[i] = "due"
    /\ credited[i] = 0
    /\ phase' = [phase EXCEPT ![i] = "settled"]
    /\ credited' = [credited EXCEPT ![i] = 1]
    /\ UNCHANGED returned

Contest(i) ==
    /\ phase[i] = "due"
    /\ phase' = [phase EXCEPT ![i] = "contested"]
    /\ UNCHANGED <<returned, credited>>

\* One at a time even so.
ReturnAgain(i) ==
    /\ phase[i] = "contested"
    /\ returned' = [returned EXCEPT ![i] = @ + 1]
    /\ UNCHANGED <<phase, credited>>

CreditAgain(i) ==
    /\ phase[i] = "contested"
    /\ credited' = [credited EXCEPT ![i] = @ + 1]
    /\ UNCHANGED <<phase, returned>>

Next ==
    \E i \in Intents :
        \/ FallDue(i) \/ Return(i) \/ Settle(i)
        \/ Contest(i) \/ ReturnAgain(i) \/ CreditAgain(i)

Spec == Init /\ [][Next]_vars
=============================================================================
