---------------------------- MODULE RefundIntent ----------------------------
(***************************************************************************)
(* The refund of a cancelled booking: the cancellation creates a row of    *)
(* RefundIntent, and calls of processRefundIntent, from the cancellation,  *)
(* the cron job or an administrator's approval, on any server instance,    *)
(* claim it, refund the payment at the gateway, and then book the refund   *)
(* and mark the row COMPLETED in one transaction.                          *)
(*                                                                         *)
(* A call stops anywhere: the gateway refuses, its answer is lost after it *)
(* has refunded, the transaction rolls back, or the server dies.  A failed *)
(* call gives the row back for a retry; a claim that nobody gives back is  *)
(* stale after 15 minutes and may be taken over, also while its call still *)
(* waits for the gateway, whose client has no timeout.                     *)
(***************************************************************************)
EXTENDS Naturals

CONSTANTS
    Bookings,    \* confirmed bookings of paid or unpaid invoices
    NoBooking,   \* of an intent that does not exist
    Intents,     \* the intents that cancellations may create
    Workers,     \* calls of processRefundIntent that may be in progress
    Amounts,     \* what an intent refunds at the gateway; 0 if not paid online
    MaxRetries,  \* RefundIntent.maxRetries (3 in the schema)
    MaxFaults    \* bound on failed calls and crashes

ASSUME NoBookingAssumption == NoBooking \notin Bookings
ASSUME AmountsAssumption == 0 \in Amounts
ASSUME RetriesAssumption == MaxRetries \in Nat /\ MaxRetries >= 1
ASSUME FaultsAssumption == MaxFaults \in Nat

VARIABLES
    cancelled,   \* cancelled[b]: the booking is CANCELLED
    bookingOf,   \* bookingOf[i]: the booking a cancellation has read for i
    status,      \* status[i]: RefundIntent.status, "NONE" = no row yet
    amount,      \* amount[i]: RefundIntent.razorpayRefundAmount
    retryCount,  \* retryCount[i]: RefundIntent.retryCount
    stale,       \* stale[i]: processingStartedAt is 15 minutes ago or more
    recent,      \* recent[i]: createdAt is within REFUND_RETRY_WINDOW_DAYS
    credits,     \* credits[i]: wallet entries that name the intent
    issued,      \* issued[i]: refunds the gateway has made for the intent
    stage,       \* stage[w]: how far the call has come, "idle" = no call
    task,        \* task[w]: the intent the call has claimed, any if idle
    read,        \* read[w]: retryCount as the claim returned it
    overtaken,   \* history: intents whose stale claim was taken from a live call
    faults

rowVars  == <<cancelled, bookingOf, amount, credits>>
callVars == <<stage, task, read, overtaken>>
vars == <<rowVars, status, retryCount, stale, recent, issued, callVars, faults>>

Status == {"NONE", "NOT_REQUIRED", "PENDING", "PROCESSING", "COMPLETED", "FAILED"}
Stage  == {"idle", "claimed", "absent", "returned", "failing"}

Init ==
    /\ cancelled = [b \in Bookings |-> FALSE]
    /\ bookingOf = [i \in Intents |-> NoBooking]
    /\ status = [i \in Intents |-> "NONE"]
    /\ amount = [i \in Intents |-> 0]
    /\ retryCount = [i \in Intents |-> 0]
    /\ stale = [i \in Intents |-> FALSE]
    /\ recent = [i \in Intents |-> TRUE]
    /\ credits = [i \in Intents |-> 0]
    /\ issued = [i \in Intents |-> 0]
    /\ stage = [w \in Workers |-> "idle"]
    /\ task \in [Workers -> Intents]
    /\ read = [w \in Workers |-> 0]
    /\ overtaken = {}
    /\ faults = 0

-----------------------------------------------------------------------------
(* Cancellation of a confirmed booking: read, then one transaction.        *)

BeginCancel(i, b) ==
    /\ bookingOf[i] = NoBooking
    /\ ~cancelled[b]
    /\ bookingOf' = [bookingOf EXCEPT ![i] = b]
    /\ UNCHANGED <<cancelled, amount, credits, status, retryCount, stale, recent, issued,
                   callVars, faults>>

\* createRefundIntent: the amount depends on what was paid and on the minutes
\* since the acceptance.  With nothing to refund or to charge no call is needed.
CommitCancel(i) ==
    /\ bookingOf[i] # NoBooking
    /\ status[i] = "NONE"
    /\ cancelled' = [cancelled EXCEPT ![bookingOf[i]] = TRUE]
    /\ \E a \in Amounts, s \in {"PENDING", "NOT_REQUIRED"} :
          /\ s = "NOT_REQUIRED" => a = 0
          /\ amount' = [amount EXCEPT ![i] = a]
          /\ status' = [status EXCEPT ![i] = s]
    /\ UNCHANGED <<bookingOf, credits, retryCount, stale, recent, issued, callVars, faults>>

-----------------------------------------------------------------------------
(* processRefundIntent.                                                    *)

\* Mutant: the age of the claim is not asked for.
ClaimableAtOnce(i) ==
    \/ status[i] = "PENDING"
    \/ status[i] = "FAILED" /\ recent[i]
    \/ status[i] = "PROCESSING"

\* Mutant: a claim is never taken over.
ClaimableIfGivenBack(i) ==
    \/ status[i] = "PENDING"
    \/ status[i] = "FAILED" /\ recent[i]

Claimable(i) ==
    \/ status[i] = "PENDING"
    \/ status[i] = "FAILED" /\ recent[i]
    \/ status[i] = "PROCESSING" /\ stale[i]

InProgress(i) == \E w \in Workers : stage[w] # "idle" /\ task[w] = i

\* One conditional update, which Postgres serialises.
Claim(w, i) ==
    /\ stage[w] = "idle"
    /\ Claimable(i)
    /\ status' = [status EXCEPT ![i] = "PROCESSING"]
    /\ stale' = [stale EXCEPT ![i] = FALSE]
    /\ stage' = [stage EXCEPT ![w] = "claimed"]
    /\ task' = [task EXCEPT ![w] = i]
    /\ read' = [read EXCEPT ![w] = retryCount[i]]
    /\ overtaken' = IF stale[i] /\ InProgress(i) THEN overtaken \cup {i} ELSE overtaken
    /\ UNCHANGED <<rowVars, retryCount, recent, issued, faults>>

Move(w, from, to) ==
    /\ stage[w] = from
    /\ stage' = [stage EXCEPT ![w] = to]
    /\ UNCHANGED <<task, read, overtaken>>

\* Mutant: a retry only books.
NothingToReturnOnRetry(w) ==
    /\ amount[task[w]] = 0 \/ read[w] > 0
    /\ Move(w, "claimed", "returned")
    /\ UNCHANGED <<rowVars, status, retryCount, stale, recent, issued, faults>>

NothingToReturn(w) ==
    /\ amount[task[w]] = 0
    /\ Move(w, "claimed", "returned")
    /\ UNCHANGED <<rowVars, status, retryCount, stale, recent, issued, faults>>

\* The gateway lists a refund of this amount for this booking: the intent's
\* own, or that of another intent of the booking.
Listed(i) ==
    \E j \in Intents : bookingOf[j] = bookingOf[i] /\ amount[j] = amount[i] /\ issued[j] > 0

FindRefund(w) ==
    /\ amount[task[w]] > 0
    /\ Move(w, "claimed", IF Listed(task[w]) THEN "returned" ELSE "absent")
    /\ UNCHANGED <<rowVars, status, retryCount, stale, recent, issued, faults>>

\* The gateway refunds; its answer may be lost.
IssueRefund(w) ==
    /\ issued' = [issued EXCEPT ![task[w]] = @ + 1]
    /\ \/ Move(w, "absent", "returned") /\ UNCHANGED faults
       \/ /\ faults < MaxFaults
          /\ Move(w, "absent", "failing")
          /\ faults' = faults + 1
    /\ UNCHANGED <<rowVars, status, retryCount, stale, recent>>

\* The list or the refund is refused, also after the retry for its rate
\* limit, or the transaction rolls back.
CallFails(w) ==
    /\ faults < MaxFaults
    /\ \E from \in {"claimed", "absent", "returned"} : Move(w, from, "failing")
    /\ faults' = faults + 1
    /\ UNCHANGED <<rowVars, status, retryCount, stale, recent, issued>>

SettledStatus(i) == "COMPLETED"

\* Wallet entry, driver's compensation, transaction record and status, by id:
\* nobody asks whether the intent is still claimed by this call.
Settle(w) ==
    /\ Move(w, "returned", "idle")
    /\ credits' = [credits EXCEPT ![task[w]] = @ + 1]
    /\ status' = [status EXCEPT ![task[w]] = SettledStatus(task[w])]
    /\ UNCHANGED <<cancelled, bookingOf, amount, retryCount, stale, recent, issued, faults>>

StatusAfter(n) == IF n >= MaxRetries THEN "FAILED" ELSE "PENDING"

\* The catch block: by id again.
RecordFailure(w) ==
    LET n == read[w] + 1 IN
    /\ Move(w, "failing", "idle")
    /\ status' = [status EXCEPT ![task[w]] = StatusAfter(n)]
    /\ retryCount' = [retryCount EXCEPT ![task[w]] = n]
    /\ UNCHANGED <<rowVars, stale, recent, issued, faults>>

\* The server dies, or the database does not take the record of a failure.
LoseCall(w) ==
    /\ faults < MaxFaults
    /\ \E from \in Stage \ {"idle"} : Move(w, from, "idle")
    /\ faults' = faults + 1
    /\ UNCHANGED <<rowVars, status, retryCount, stale, recent, issued>>

-----------------------------------------------------------------------------
(* Time.                                                                   *)

\* Whether its call was lost or only waits.
ClaimGoesStale(i) ==
    /\ status[i] = "PROCESSING"
    /\ ~stale[i]
    /\ stale' = [stale EXCEPT ![i] = TRUE]
    /\ UNCHANGED <<rowVars, status, retryCount, recent, issued, callVars, faults>>

WindowCloses(i) ==
    /\ recent[i]
    /\ recent' = [recent EXCEPT ![i] = FALSE]
    /\ UNCHANGED <<rowVars, status, retryCount, stale, issued, callVars, faults>>

-----------------------------------------------------------------------------

CallStep(w) ==
    \/ NothingToReturn(w) \/ FindRefund(w) \/ IssueRefund(w)
    \/ Settle(w) \/ RecordFailure(w)

Next ==
    \/ \E i \in Intents :
          \/ \E b \in Bookings : BeginCancel(i, b)
          \/ CommitCancel(i) \/ ClaimGoesStale(i) \/ WindowCloses(i)
          \/ \E w \in Workers : Claim(w, i)
    \/ \E w \in Workers : CallStep(w) \/ CallFails(w) \/ LoseCall(w)

Spec == Init /\ [][Next]_vars

\* The cron job calls for every claimable intent, calls go on, time passes.
Fairness ==
    /\ \A i \in Intents :
          /\ WF_vars(\E w \in Workers : Claim(w, i))
          /\ WF_vars(ClaimGoesStale(i))
    /\ \A w \in Workers : WF_vars(CallStep(w))

FairSpec == Spec /\ Fairness

-----------------------------------------------------------------------------
(* Properties.                                                             *)

\* Every variable has its type.
TypeOK ==
    /\ cancelled \in [Bookings -> BOOLEAN]
    /\ bookingOf \in [Intents -> Bookings \cup {NoBooking}]
    /\ status \in [Intents -> Status]
    /\ amount \in [Intents -> Amounts]
    /\ retryCount \in [Intents -> Nat]
    /\ stale \in [Intents -> BOOLEAN]
    /\ recent \in [Intents -> BOOLEAN]
    /\ credits \in [Intents -> Nat]
    /\ issued \in [Intents -> Nat]
    /\ stage \in [Workers -> Stage]
    /\ task \in [Workers -> Intents]
    /\ read \in [Workers -> Nat]
    /\ overtaken \subseteq Intents
    /\ faults \in 0..MaxFaults

\* Unless it was taken over from a call that went on, an intent is worked on by
\* one call at a time, which still has its claim, stale or not.
ClaimIsExclusive ==
    \A v, w \in Workers :
        stage[w] # "idle" /\ task[w] \notin overtaken =>
            /\ status[task[w]] = "PROCESSING"
            /\ stage[v] # "idle" /\ task[v] = task[w] => v = w

\* An intent is booked to the wallet once, in the step that completes it,
\* whatever was refused, lost, retried or taken over from a dead call before;
\* only a takeover of a call that went on may book it again.
SettledOnce ==
    \A i \in Intents \ overtaken : credits[i] = (IF status[i] = "COMPLETED" THEN 1 ELSE 0)

\* Under the same condition no intent makes the gateway refund twice: a lost
\* answer is found again.
RefundedOnce == \A i \in Intents \ overtaken : issued[i] <= 1

\* What the comment at the gateway's call says, "Execute Razorpay refund with
\* idempotency check" (booking-refund.service.ts:457): no second refund.
RefundIsIdempotent == \A i \in Intents : issued[i] <= 1

\* The books follow the money, also when calls overtake each other: a completed
\* intent that was to refund a payment has its refund at the gateway.
BooksFollowMoney ==
    \A i \in Intents : status[i] = "COMPLETED" /\ amount[i] > 0 => Listed(i)

\* A call that has found no refund is right about its own intent until it has
\* made one, unless it was overtaken; one that may settle has nothing to
\* return or a refund listed.
CallKnows ==
    \A w \in Workers :
        /\ stage[w] = "absent" =>
              /\ amount[task[w]] > 0
              /\ task[w] \notin overtaken => issued[task[w]] = 0
        /\ stage[w] = "returned" => amount[task[w]] = 0 \/ Listed(task[w])

\* Only an intent with a row is claimed or refunded.
RowsFirst ==
    /\ \A i \in Intents :
          /\ status[i] \in {"NONE", "NOT_REQUIRED"} => issued[i] = 0 /\ i \notin overtaken
          /\ status[i] # "NONE" => bookingOf[i] # NoBooking
    /\ \A w \in Workers : stage[w] # "idle" => status[task[w]] \notin {"NONE", "NOT_REQUIRED"}

\* The inductive invariant of the proofs.
IInv ==
    /\ TypeOK /\ ClaimIsExclusive /\ SettledOnce /\ RefundedOnce
    /\ BooksFollowMoney /\ CallKnows /\ RowsFirst

\* The implementation of what a refund promises.
Phase ==
    [i \in Intents |->
        IF i \in overtaken THEN "contested"
        ELSE IF status[i] \in {"NONE", "NOT_REQUIRED"} THEN "none"
        ELSE IF status[i] = "COMPLETED" THEN "settled" ELSE "due"]

Promise == INSTANCE RefundPromise WITH phase <- Phase, returned <- issued, credited <- credits

\* However calls fail, are retried, die or overtake each other, an intent goes
\* the way RefundPromise describes: once due it is refunded and booked once,
\* unless a second call took it over while the first was still at it.
KeepsPromise == Promise!Spec

\* Every refund that is due is settled, or has failed for good; no claim is
\* kept for ever, also after its call was lost.
DueEnds ==
    \A i \in Intents : status[i] = "PENDING" ~> status[i] \in {"COMPLETED", "FAILED"}
=============================================================================
