---------------------------- MODULE DriverTopUp ----------------------------
(***************************************************************************)
(* A driver tops up his wallet by a payment link.  The link in use is      *)
(* cached in Redis, so that a driver who asks again gets it again; the row *)
(* that maps a link's reference to the driver is written before the        *)
(* gateway makes the link.  The gateway reports each payment, also a       *)
(* partial one, with a webhook, until one is answered.  A webhook whose    *)
(* reference has no row is answered too, and its payment is lost.          *)
(*                                                                         *)
(* Names carry TopUp, so that this module is checked beside BookingPayment.*)
(***************************************************************************)
EXTENDS Naturals, FiniteSets

CONSTANTS
    TopUps,        \* references of links, DriverPaymentLink.referenceId
    NoTopUp,
    Payments,      \* payments at the gateway
    TopUpCalls,    \* requests and webhooks that may be in progress
    MaxCredits,    \* bound on reports that come more than once
    MaxTopUpFaults

ASSUME NoTopUpAssumption == NoTopUp \notin TopUps
ASSUME MaxCreditsAssumption == MaxCredits \in Nat /\ MaxTopUpFaults \in Nat

VARIABLES
    known,      \* known[r]: the row of r exists
    link,       \* link[r]: the link at the gateway
    given,      \* given[r]: the driver has the link's address
    late,       \* late[r]: fewer than MIN_REMAINING_SECONDS are left
    paidOn,     \* paidOn[p]: the link that p has paid, NoTopUp before
    answered,   \* answered[p]: a webhook of p was answered with success
    credits,    \* credits[p]: wallet log entries of p
    active,     \* the key driver:<id>:active_plink
    topUpCall,  \* topUpCall[c]: a handler in progress
    topUpFaults

topUpVars == <<known, link, given, late, paidOn, answered, credits, active, topUpCall, topUpFaults>>

TopUpIdle == [step |-> "idle", ref |-> NoTopUp]

TopUpInit ==
    /\ known = [r \in TopUps |-> FALSE]
    /\ link = [r \in TopUps |-> "none"]
    /\ given = [r \in TopUps |-> FALSE]
    /\ late = [r \in TopUps |-> FALSE]
    /\ paidOn = [p \in Payments |-> NoTopUp]
    /\ answered = [p \in Payments |-> FALSE]
    /\ credits = [p \in Payments |-> 0]
    /\ active = NoTopUp
    /\ topUpCall = [c \in TopUpCalls |-> TopUpIdle]
    /\ topUpFaults = 0

TopUpBegin(c, s, r) ==
    /\ topUpCall[c].step = "idle"
    /\ topUpCall' = [topUpCall EXCEPT ![c] = [step |-> s, ref |-> r]]

TopUpEnd(c) == topUpCall' = [topUpCall EXCEPT ![c] = TopUpIdle]

-----------------------------------------------------------------------------
(* generatePaymentLink.                                                    *)

\* The amount is the same or not; `collected` is cached as 0 and never changed.
Reusable(r) == r # NoTopUp /\ ~late[r]

\* Mutant: the row is written when all the rest is done.
RowAtTheEnd == "answer"

\* The step of the request at which the reference's row is written.
RowIsWrittenAt == "create"

RowAt(s, r) == IF s = RowIsWrittenAt THEN [known EXCEPT ![r] = TRUE] ELSE known

\* The cached link is no use: a row with a new reference, then the gateway.
\* A cached link of another amount is replaced as well.
CreateTopUp(c) ==
    \E r \in TopUps :
        /\ ~known[r] /\ link[r] = "none"
        /\ \A k \in TopUpCalls : topUpCall[k].ref # r
        /\ known' = RowAt("create", r)
        /\ TopUpBegin(c, "ask", r)
        /\ UNCHANGED <<link, given, late, paidOn, answered, credits, active, topUpFaults>>

ReuseTopUp ==
    /\ Reusable(active)
    /\ given' = [given EXCEPT ![active] = TRUE]
    /\ UNCHANGED <<known, link, late, paidOn, answered, credits, active, topUpCall, topUpFaults>>

AskTopUpLink(c) ==
    LET r == topUpCall[c].ref IN
    /\ topUpCall[c].step = "ask"
    /\ link' = [link EXCEPT ![r] = "open"]
    /\ known' = RowAt("ask", r)
    /\ topUpCall' = [topUpCall EXCEPT ![c].step = "cache"]
    /\ UNCHANGED <<given, late, paidOn, answered, credits, active, topUpFaults>>

\* The key is set with the link's own life time: another request may have the
\* address from it before this one has answered.
CacheTopUp(c) ==
    LET r == topUpCall[c].ref IN
    /\ topUpCall[c].step = "cache"
    /\ active' = r
    /\ known' = RowAt("cache", r)
    /\ topUpCall' = [topUpCall EXCEPT ![c].step = "answer"]
    /\ UNCHANGED <<link, given, late, paidOn, answered, credits, topUpFaults>>

AnswerTopUp(c) ==
    LET r == topUpCall[c].ref IN
    /\ topUpCall[c].step = "answer"
    /\ given' = [given EXCEPT ![r] = TRUE]
    /\ known' = RowAt("answer", r)
    /\ TopUpEnd(c)
    /\ UNCHANGED <<link, late, paidOn, answered, credits, active, topUpFaults>>

-----------------------------------------------------------------------------
(* The gateway: the notifications of these links are off, so the driver    *)
(* pays what the server has given him, in one part or in several.          *)

PayTopUp(p, r) ==
    /\ link[r] = "open" /\ given[r]
    /\ paidOn[p] = NoTopUp
    /\ paidOn' = [paidOn EXCEPT ![p] = r]
    /\ \/ link' = [link EXCEPT ![r] = "paid"]
       \/ UNCHANGED link
    /\ UNCHANGED <<known, given, late, answered, credits, active, topUpCall, topUpFaults>>

GrowsLate(r) ==
    /\ link[r] = "open" /\ ~late[r]
    /\ late' = [late EXCEPT ![r] = TRUE]
    /\ UNCHANGED <<known, link, given, paidOn, answered, credits, active, topUpCall, topUpFaults>>

\* After 20 minutes the link, and with it the key, is gone.
ExpireTopUp(r) ==
    /\ link[r] = "open" /\ late[r]
    /\ link' = [link EXCEPT ![r] = "expired"]
    /\ active' = IF active = r THEN NoTopUp ELSE active
    /\ UNCHANGED <<known, given, late, paidOn, answered, credits, topUpCall, topUpFaults>>

-----------------------------------------------------------------------------
(* The webhook.                                                            *)

\* The gateway repeats a report until it is answered, and now and then after.
ReportedTopUp(p, r) == paidOn[p] = r /\ credits[p] < MaxCredits

\* handlePaymentReceived: the driver by the reference.  An unknown one is logged:
\* the webhook is answered, and does not come back.
BeginTopUpPaid(c, p, r) ==
    /\ ReportedTopUp(p, r)
    /\ topUpCall[c].step = "idle"
    /\ IF known[r]
       THEN /\ topUpCall' = [topUpCall EXCEPT
                   ![c] = [step |-> "credit", ref |-> r, payment |-> p]]
            /\ UNCHANGED answered
       ELSE /\ answered' = [answered EXCEPT ![p] = TRUE]
            /\ UNCHANGED topUpCall
    /\ UNCHANGED <<known, link, given, late, paidOn, credits, active, topUpFaults>>

\* The transaction: wallet, log and record.  Nobody asks if p is booked already.
CreditTopUp(c) ==
    /\ topUpCall[c].step = "credit"
    /\ credits' = [credits EXCEPT ![topUpCall[c].payment] = @ + 1]
    /\ topUpCall' = [topUpCall EXCEPT ![c].step = "clear"]
    /\ UNCHANGED <<known, link, given, late, paidOn, answered, active, topUpFaults>>

\* The key is deleted, whichever link it names by now.
Cleared(r) == NoTopUp

ClearTopUp(c) ==
    /\ topUpCall[c].step = "clear"
    /\ active' = Cleared(topUpCall[c].ref)
    /\ answered' = [answered EXCEPT ![topUpCall[c].payment] = TRUE]
    /\ TopUpEnd(c)
    /\ UNCHANGED <<known, link, given, late, paidOn, credits, topUpFaults>>

\* handleLinkExpired: the report of an expired link, at any later time.
TopUpExpired(r) ==
    /\ link[r] = "expired" /\ known[r]
    /\ active' = NoTopUp
    /\ UNCHANGED <<known, link, given, late, paidOn, answered, credits, topUpCall, topUpFaults>>

\* The gateway refuses, a transaction rolls back, or the server dies.
TopUpCallFails(c) ==
    /\ topUpFaults < MaxTopUpFaults
    /\ topUpCall[c].step # "idle"
    /\ TopUpEnd(c)
    /\ topUpFaults' = topUpFaults + 1
    /\ UNCHANGED <<known, link, given, late, paidOn, answered, credits, active>>

-----------------------------------------------------------------------------

TopUpCallStep(c) ==
    AskTopUpLink(c) \/ CacheTopUp(c) \/ AnswerTopUp(c) \/ CreditTopUp(c) \/ ClearTopUp(c)

TopUpNext ==
    \/ \E c \in TopUpCalls :
          \/ CreateTopUp(c) \/ TopUpCallStep(c) \/ TopUpCallFails(c)
          \/ \E p \in Payments, r \in TopUps : BeginTopUpPaid(c, p, r)
    \/ ReuseTopUp
    \/ \E r \in TopUps :
          \/ GrowsLate(r) \/ ExpireTopUp(r) \/ TopUpExpired(r)
          \/ \E p \in Payments : PayTopUp(p, r)

TopUpFairness ==
    /\ \A c \in TopUpCalls : WF_topUpVars(TopUpCallStep(c))
    /\ \A p \in Payments, r \in TopUps :
          SF_topUpVars(\E c \in TopUpCalls : ~answered[p] /\ BeginTopUpPaid(c, p, r))

-----------------------------------------------------------------------------
(* Properties.                                                             *)

\* Every payment is credited in the end, whatever failed on the way and however
\* soon the report came: no report finds its reference unknown, which would drop it.
TopUpIsCredited == \A p \in Payments : paidOn[p] # NoTopUp ~> credits[p] > 0

=============================================================================
