---------------------------- MODULE DriverPayout ----------------------------
(***************************************************************************)
(* The wallet of a driver and the payouts from it.  The daily job and the  *)
(* driver's withdrawals read the balance, then charge the wallet and       *)
(* create a row of Payout in one transaction, and then ask the payout      *)
(* gateway to pay.  Rides, top-ups and compensations credit the wallet     *)
(* meanwhile.                                                              *)
(*                                                                         *)
(* A call stops anywhere: the gateway refuses, its answer is lost after it *)
(* has taken the payout, the row is not updated, or the server dies.  A    *)
(* scheduled job retries FAILED rows of the last two days, and rows that   *)
(* have been PROCESSING for 15 minutes, also while their call goes on.     *)
(*                                                                         *)
(* Drivers share nothing, so there is one.  Amounts are whole numbers; the *)
(* fee of a withdrawal, which the platform keeps, is part of its amount; a *)
(* cash ride, whose commission is written as a credit is, is left out.     *)
(***************************************************************************)
EXTENDS Naturals, FiniteSets

CONSTANTS
    Credits,        \* transactions that will credit the wallet, with 1 each
    Payouts,        \* rows that may be created
    PayoutCalls,    \* calls of the payout service that may be in progress
    MaxPayoutFaults \* bound on failed calls and crashes

ASSUME PayoutFaultsAssumption == MaxPayoutFaults \in Nat

VARIABLES
    balance,      \* Driver.walletBalance
    credit,       \* credit[c]: "none", "read" or "done"
    creditRead,   \* creditRead[c]: the balance its transaction has read
    payoutStatus, \* payoutStatus[p]: Payout.status, "NONE" = no row yet
    charged,      \* charged[p]: what the wallet was charged
    paidId,       \* paidId[p]: razorpayPayoutId is set
    payoutStale,  \* payoutStale[p]: processingStartedAt is 15 minutes ago or more
    payoutRecent, \* payoutRecent[p]: createdAt is within PAYOUT_RETRY_WINDOW_DAYS
    sent,         \* sent[p]: payouts the gateway has taken for the row
    keys,         \* idempotency keys the gateway has seen
    payoutStage,  \* payoutStage[w]: how far the call has come, "idle" = no call
    payoutTask,   \* payoutTask[w]: the row the call works on, any before it has one
    balanceRead,  \* balanceRead[w]: the balance the call has read
    payoutFaults

walletVars == <<balance, credit, creditRead>>
payoutRowVars == <<payoutStatus, charged, paidId, payoutStale, payoutRecent>>
bankVars == <<sent, keys>>
payoutCallVars == <<payoutStage, payoutTask, balanceRead>>
payoutVars == <<walletVars, payoutRowVars, bankVars, payoutCallVars, payoutFaults>>

PayoutStatus == {"NONE", "PROCESSING", "COMPLETED", "FAILED"}
PayoutStage  == {"idle", "listed", "asked", "sending", "answered", "failing"}

PayoutInit ==
    /\ balance = 0
    /\ credit = [c \in Credits |-> "none"]
    /\ creditRead = [c \in Credits |-> 0]
    /\ payoutStatus = [p \in Payouts |-> "NONE"]
    /\ charged = [p \in Payouts |-> 0]
    /\ paidId = [p \in Payouts |-> FALSE]
    /\ payoutStale = [p \in Payouts |-> FALSE]
    /\ payoutRecent = [p \in Payouts |-> TRUE]
    /\ sent = [p \in Payouts |-> 0]
    /\ keys = {}
    /\ payoutStage = [w \in PayoutCalls |-> "idle"]
    /\ payoutTask \in [PayoutCalls -> Payouts]
    /\ balanceRead = [w \in PayoutCalls |-> 0]
    /\ payoutFaults = 0

MovePayout(w, from, to) ==
    /\ payoutStage[w] = from
    /\ payoutStage' = [payoutStage EXCEPT ![w] = to]
    /\ UNCHANGED <<payoutTask, balanceRead>>

-----------------------------------------------------------------------------
(* Credits: read and written back as a number in one transaction, which    *)
(* keeps no other writer out at READ COMMITTED.                            *)

BeginCredit(c) ==
    /\ credit[c] = "none"
    /\ credit' = [credit EXCEPT ![c] = "read"]
    /\ creditRead' = [creditRead EXCEPT ![c] = balance]
    /\ UNCHANGED <<balance, payoutRowVars, bankVars, payoutCallVars, payoutFaults>>

CommitCredit(c) ==
    /\ credit[c] = "read"
    /\ credit' = [credit EXCEPT ![c] = "done"]
    /\ balance' = creditRead[c] + 1
    /\ UNCHANGED <<creditRead, payoutRowVars, bankVars, payoutCallVars, payoutFaults>>

-----------------------------------------------------------------------------
(* Payouts: the balance is read, and later charged in one transaction that *)
(* writes what is left of what was read.                                   *)

\* A call that has read the balance gets a row, within the bound on rows.
RowLeft ==
    Cardinality({v \in PayoutCalls : payoutStage[v] \in {"listed", "asked"}})
        < Cardinality({p \in Payouts : payoutStatus[p] = "NONE"})

ReadBalance(w, to) ==
    /\ RowLeft
    /\ payoutStage[w] = "idle"
    /\ balance > 0
    /\ payoutStage' = [payoutStage EXCEPT ![w] = to]
    /\ balanceRead' = [balanceRead EXCEPT ![w] = balance]
    /\ UNCHANGED <<walletVars, payoutRowVars, bankVars, payoutTask, payoutFaults>>

\* The daily job lists the drivers, and comes to this one later.
BeginDailyPayout(w) == ReadBalance(w, "listed")

BeginWithdrawal(w) == ReadBalance(w, "asked")

Charge(w, p, n) ==
    /\ payoutStatus[p] = "NONE"
    /\ balance' = balanceRead[w] - n
    /\ payoutStatus' = [payoutStatus EXCEPT ![p] = "PROCESSING"]
    /\ charged' = [charged EXCEPT ![p] = n]
    /\ payoutStage' = [payoutStage EXCEPT ![w] = "sending"]
    /\ payoutTask' = [payoutTask EXCEPT ![w] = p]
    /\ UNCHANGED <<credit, creditRead, paidId, payoutStale, payoutRecent, bankVars,
                   balanceRead, payoutFaults>>

ProcessPayout(w, p) ==
    /\ payoutStage[w] = "listed"
    /\ Charge(w, p, balanceRead[w])

ProcessWithdrawal(w, p) ==
    /\ payoutStage[w] = "asked"
    /\ \E n \in 1..balanceRead[w] : Charge(w, p, n)

Debit(w, p) == ProcessPayout(w, p) \/ ProcessWithdrawal(w, p)

-----------------------------------------------------------------------------
(* retryPayout claims a row with one conditional update.                   *)

\* Mutant: a row is never taken over.
PayoutClaimableIfFailed(p) ==
    /\ ~paidId[p]
    /\ payoutStatus[p] = "FAILED" /\ payoutRecent[p]

PayoutClaimable(p) ==
    /\ ~paidId[p]
    /\ \/ payoutStatus[p] = "FAILED" /\ payoutRecent[p]
       \/ payoutStatus[p] = "PROCESSING" /\ payoutStale[p]

ClaimPayout(w, p) ==
    /\ payoutStage[w] = "idle"
    /\ PayoutClaimable(p)
    /\ payoutStatus' = [payoutStatus EXCEPT ![p] = "PROCESSING"]
    /\ payoutStale' = [payoutStale EXCEPT ![p] = FALSE]
    /\ payoutStage' = [payoutStage EXCEPT ![w] = "sending"]
    /\ payoutTask' = [payoutTask EXCEPT ![w] = p]
    /\ UNCHANGED <<walletVars, charged, paidId, payoutRecent, bankVars, balanceRead,
                   payoutFaults>>

-----------------------------------------------------------------------------
(* executeStoredPayout.                                                    *)

Key(w) == payoutTask[w]

\* The gateway takes a payout whose key it has not seen, and answers a key it
\* has seen with the payout it took.  The answer may be lost.
SendPayout(w) ==
    /\ sent' = [sent EXCEPT ![payoutTask[w]] = IF Key(w) \in keys THEN @ ELSE @ + 1]
    /\ keys' = keys \cup {Key(w)}
    /\ \/ MovePayout(w, "sending", "answered") /\ UNCHANGED payoutFaults
       \/ /\ payoutFaults < MaxPayoutFaults
          /\ MovePayout(w, "sending", "failing")
          /\ payoutFaults' = payoutFaults + 1
    /\ UNCHANGED <<walletVars, payoutRowVars>>

\* By id: nobody asks whether the row is still this call's.
Complete(w) ==
    /\ MovePayout(w, "answered", "idle")
    /\ payoutStatus' = [payoutStatus EXCEPT ![payoutTask[w]] = "COMPLETED"]
    /\ paidId' = [paidId EXCEPT ![payoutTask[w]] = TRUE]
    /\ UNCHANGED <<walletVars, charged, payoutStale, payoutRecent, bankVars, payoutFaults>>

\* The driver has no account any more, the gateway refuses, also after the
\* retry for its rate limit, or the row is not updated.
PayoutFails(w) ==
    /\ payoutFaults < MaxPayoutFaults
    /\ \E from \in {"sending", "answered"} : MovePayout(w, from, "failing")
    /\ payoutFaults' = payoutFaults + 1
    /\ UNCHANGED <<walletVars, payoutRowVars, bankVars>>

\* Mutant: what an earlier call wrote is cleared.
MarkPayoutFailedAnew(w) ==
    /\ MovePayout(w, "failing", "idle")
    /\ payoutStatus' = [payoutStatus EXCEPT ![payoutTask[w]] = "FAILED"]
    /\ paidId' = [paidId EXCEPT ![payoutTask[w]] = FALSE]
    /\ UNCHANGED <<walletVars, charged, payoutStale, payoutRecent, bankVars, payoutFaults>>

\* By id again, also when another call has completed the row meanwhile.
MarkPayoutFailed(w) ==
    /\ MovePayout(w, "failing", "idle")
    /\ payoutStatus' = [payoutStatus EXCEPT ![payoutTask[w]] = "FAILED"]
    /\ UNCHANGED <<walletVars, charged, paidId, payoutStale, payoutRecent, bankVars,
                   payoutFaults>>

\* The server dies, the debit rolls back, or the failure is not recorded.
LosePayout(w) ==
    /\ payoutFaults < MaxPayoutFaults
    /\ \E from \in PayoutStage \ {"idle"} : MovePayout(w, from, "idle")
    /\ payoutFaults' = payoutFaults + 1
    /\ UNCHANGED <<walletVars, payoutRowVars, bankVars>>

-----------------------------------------------------------------------------
(* Time.                                                                   *)

GoStale(p) ==
    /\ payoutStatus[p] = "PROCESSING"
    /\ ~payoutStale[p]
    /\ payoutStale' = [payoutStale EXCEPT ![p] = TRUE]
    /\ UNCHANGED <<walletVars, payoutStatus, charged, paidId, payoutRecent, bankVars,
                   payoutCallVars, payoutFaults>>

PayoutWindowCloses(p) ==
    /\ payoutStatus[p] # "NONE"
    /\ payoutRecent[p]
    /\ payoutRecent' = [payoutRecent EXCEPT ![p] = FALSE]
    /\ UNCHANGED <<walletVars, payoutStatus, charged, paidId, payoutStale, bankVars,
                   payoutCallVars, payoutFaults>>

-----------------------------------------------------------------------------

PayoutStep(w) == SendPayout(w) \/ Complete(w) \/ MarkPayoutFailed(w)

PayoutNext ==
    \/ \E c \in Credits : BeginCredit(c) \/ CommitCredit(c)
    \/ \E p \in Payouts :
          \/ GoStale(p) \/ PayoutWindowCloses(p)
          \/ \E w \in PayoutCalls : ClaimPayout(w, p) \/ Debit(w, p)
    \/ \E w \in PayoutCalls :
          \/ BeginDailyPayout(w) \/ BeginWithdrawal(w)
          \/ PayoutStep(w) \/ PayoutFails(w) \/ LosePayout(w)

PayoutSpec == PayoutInit /\ [][PayoutNext]_payoutVars

\* The scheduled job calls for every claimable row, calls go on, time passes.
PayoutFairness ==
    /\ \A p \in Payouts :
          /\ WF_payoutVars(\E w \in PayoutCalls : ClaimPayout(w, p))
          /\ WF_payoutVars(GoStale(p))
    /\ \A w \in PayoutCalls :
          /\ WF_payoutVars(PayoutStep(w))
          /\ WF_payoutVars(\E p \in Payouts : Debit(w, p))

PayoutFairSpec == PayoutSpec /\ PayoutFairness

-----------------------------------------------------------------------------
(* Properties.                                                             *)

\* Every variable has its type.
PayoutTypeOK ==
    /\ balance \in Nat
    /\ credit \in [Credits -> {"none", "read", "done"}]
    /\ creditRead \in [Credits -> Nat]
    /\ payoutStatus \in [Payouts -> PayoutStatus]
    /\ charged \in [Payouts -> Nat]
    /\ paidId \in [Payouts -> BOOLEAN]
    /\ payoutStale \in [Payouts -> BOOLEAN]
    /\ payoutRecent \in [Payouts -> BOOLEAN]
    /\ sent \in [Payouts -> Nat]
    /\ keys \subseteq Payouts
    /\ payoutStage \in [PayoutCalls -> PayoutStage]
    /\ payoutTask \in [PayoutCalls -> Payouts]
    /\ balanceRead \in [PayoutCalls -> Nat]
    /\ payoutFaults \in 0..MaxPayoutFaults

\* However often a row is retried, taken over from a call that goes on, or
\* loses its answer, the driver is paid for it once.
PaidOnce == \A p \in Payouts : sent[p] <= 1

\* What the books call paid, the gateway has taken, also when the row was
\* marked FAILED by a slower call afterwards.
BookedIsPaid ==
    \A p \in Payouts :
        /\ payoutStatus[p] = "COMPLETED" => paidId[p]
        /\ paidId[p] => sent[p] = 1

\* Once a call has booked a row as paid it is not worked on again: a slower
\* call may mark it FAILED, but nobody takes it up.
NeverReopened == \A p \in Payouts : payoutStatus[p] = "PROCESSING" => ~paidId[p]

\* The gateway knows the rows it has been asked to pay.
KeysAreRows == keys = {p \in Payouts : sent[p] > 0}

\* A call that pays has a row, and one that was answered is right.
PayoutCallKnows ==
    \A w \in PayoutCalls :
        /\ payoutStage[w] \in {"sending", "answered", "failing"} => payoutStatus[payoutTask[w]] # "NONE"
        /\ payoutStage[w] = "answered" => sent[payoutTask[w]] = 1

\* No row, no payment.
NoRowNoPayment == \A p \in Payouts : payoutStatus[p] = "NONE" => sent[p] = 0 /\ ~paidId[p]

\* The inductive invariant of the proofs.
PayoutIInv ==
    /\ PayoutTypeOK /\ PaidOnce /\ BookedIsPaid /\ NeverReopened
    /\ KeysAreRows /\ PayoutCallKnows /\ NoRowNoPayment

PayoutPhase ==
    [p \in Payouts |->
        IF payoutStatus[p] = "NONE" THEN "none" ELSE IF paidId[p] THEN "booked" ELSE "charged"]

PromisedPayout == INSTANCE PayoutPromise WITH phase <- PayoutPhase

\* A payout is charged, taken by the gateway and booked, each once and in
\* this order, and never taken back.
PayoutKeepsPromise == PromisedPayout!Spec

\* What the wallet was charged is paid in the end, also after a call was lost
\* or its answer was, unless it has failed until its two days are over.
ChargeEnds ==
    \A p \in Payouts :
        payoutStatus[p] = "PROCESSING" ~>
            paidId[p] \/ (payoutStatus[p] = "FAILED" /\ ~payoutRecent[p])
=============================================================================
