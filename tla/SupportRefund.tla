--------------------------- MODULE SupportRefund ---------------------------
(***************************************************************************)
(* Refunds that the support desk asks for.  An agent creates a request, an *)
(* administrator approves or rejects it, an approval may be taken back in  *)
(* its buffer time, and when the buffer is over a delayed job, or else the *)
(* two-hourly cron job, finalises the request: it makes a RefundIntent,    *)
(* links it to the request in a second write, and processes it.            *)
(*                                                                         *)
(* Every handler reads the request, checks its status, and writes it by id *)
(* later; the queue is told afterwards.  Handlers in progress are `call`.  *)
(* All requests are of one booking, whose cancellation makes an intent of  *)
(* its own.  How an intent is processed is the subject of RefundIntent.    *)
(***************************************************************************)
EXTENDS Naturals, FiniteSets

CONSTANTS
    Requests,    \* rows of AdminRefundRequest of the booking
    NoRequest,
    Intents,     \* rows of RefundIntent of the booking
    NoIntent,
    Calls,       \* requests, jobs and cron runs that may be in progress
    MaxFaults    \* bound on refusals of the gateway and on calls that die

ASSUME NoRequestAssumption == NoRequest \notin Requests
ASSUME NoIntentAssumption == NoIntent \notin Intents
ASSUME FaultsAssumption == MaxFaults \in Nat

VARIABLES
    status,      \* status[r]: AdminRefundRequest.status, "NONE" = no row yet
    buffer,      \* buffer[r]: bufferExpiresAt: absent, in the future, past
    intentOf,    \* intentOf[r]: refundIntentId
    job,         \* job[r]: the job of id refund-<r>: delayed to the end of the
                 \* current buffer ("timed") or to some other time ("loose")
    intent,      \* intent[i]: RefundIntent.status
    madeFor,     \* madeFor[i]: the request it was made for, or none: the cancellation
    call,        \* call[c]: a handler in progress
    disturbed,   \* history: two handlers have overlapped, or one has died between
                 \* two writes that belong together (see Dies), or the cancellation
                 \* has met a request of the desk
    faults

rowVars == <<status, buffer, intentOf>>
intentVars == <<intent, madeFor>>
vars == <<rowVars, intentVars, job, call, disturbed, faults>>

Status   == {"NONE", "PENDING", "APPROVED", "REJECTED", "REVERT_REQUESTED", "REVERTED",
             "COMPLETED"}
Editable == {"PENDING", "REVERTED"}
Active   == Editable \cup {"APPROVED", "REVERT_REQUESTED"}
Step     == {"idle", "create", "approve", "reject", "revert", "allow", "refuse", "schedule",
             "unschedule", "read", "make", "link", "claim", "refund"}
Caller   == {"none", "user", "job", "cron", "refundCron"}
Call     == [step : Step, by : Caller, request : Requests \cup {NoRequest},
             intent : Intents \cup {NoIntent}, own : BOOLEAN]
Idle     == [step |-> "idle", by |-> "none", request |-> NoRequest, intent |-> NoIntent,
             own |-> FALSE]

Init ==
    /\ status = [r \in Requests |-> "NONE"]
    /\ buffer = [r \in Requests |-> "none"]
    /\ intentOf = [r \in Requests |-> NoIntent]
    /\ job = [r \in Requests |-> "none"]
    /\ intent = [i \in Intents |-> "NONE"]
    /\ madeFor = [i \in Intents |-> NoRequest]
    /\ call = [c \in Calls |-> Idle]
    /\ disturbed = FALSE
    /\ faults = 0

-----------------------------------------------------------------------------
(* Handlers.                                                               *)

\* The refund cron job takes no part in what is asked of the other handlers.
Others == {c \in Calls : call[c].by \notin {"none", "refundCron"}}
Unfinished == {i \in Intents : intent[i] \in {"PENDING", "PROCESSING"}}

Start(c, r, by, step) ==
    /\ call[c] = Idle
    /\ call' = [call EXCEPT ![c] = [Idle EXCEPT !.step = step, !.by = by, !.request = r]]

Go(c, from, to) ==
    /\ call[c].step = from
    /\ call' = [call EXCEPT ![c].step = to]

Finish(c) == call' = [call EXCEPT ![c] = Idle]

\* The job is done: removeOnComplete.
JobAfter(c) ==
    IF call[c].by = "job" THEN [job EXCEPT ![call[c].request] = "none"] ELSE job

\* A job keeps its time when the request's buffer changes.
Loosened(r) == IF job[r] = "timed" THEN [job EXCEPT ![r] = "loose"] ELSE job

NotRefunded ==
    /\ \A r \in Requests : status[r] \notin Active
    /\ \A i \in Intents : intent[i] # "COMPLETED"

BeginCreate(c, r) ==
    /\ status[r] = "NONE"
    /\ \A d \in Calls : call[d].request # r
    /\ NotRefunded
    /\ Start(c, r, "user", "create")
    /\ disturbed' = (disturbed \/ Others # {} \/ Unfinished # {})
    /\ UNCHANGED <<rowVars, intentVars, job, faults>>

CommitCreate(c) ==
    /\ call[c].step = "create"
    /\ status' = [status EXCEPT ![call[c].request] = "PENDING"]
    /\ Finish(c)
    /\ UNCHANGED <<buffer, intentOf, intentVars, job, disturbed, faults>>

\* The first half of an operation reads the request and checks it.
Begin(c, r, op) ==
    /\ Start(c, r, "user", op)
    /\ disturbed' = (disturbed \/ Others # {})
    /\ UNCHANGED <<rowVars, intentVars, job, faults>>

BeginApprove(c, r) == status[r] \in Editable /\ Begin(c, r, "approve")

BeginReject(c, r) == status[r] \in Editable /\ Begin(c, r, "reject")

\* Mutant: a revert is accepted after the buffer, too.
MayRevertLate(r) == status[r] = "APPROVED"

MayRevert(r) == status[r] = "APPROVED" /\ buffer[r] = "running"

BeginRevert(c, r) == MayRevert(r) /\ Begin(c, r, "revert")

BeginDecision(c, r) ==
    /\ status[r] = "REVERT_REQUESTED"
    /\ \E op \in {"allow", "refuse"} : Begin(c, r, op)

\* APPROVED with a new buffer; then the job is scheduled.
CommitApproved(c, op) ==
    LET r == call[c].request IN
    /\ call[c].step = op
    /\ status' = [status EXCEPT ![r] = "APPROVED"]
    /\ buffer' = [buffer EXCEPT ![r] = "running"]
    /\ job' = Loosened(r)
    /\ call' = [d \in Calls |->
                  IF d = c THEN [call[d] EXCEPT !.step = "schedule", !.own = TRUE]
                  ELSE IF call[d].request = r THEN [call[d] EXCEPT !.own = FALSE]
                  ELSE call[d]]
    /\ UNCHANGED <<intentOf, intentVars, disturbed, faults>>

ApproveRefund(c) == CommitApproved(c, "approve")

RefuseRevert(c) == CommitApproved(c, "refuse")

\* Out of the buffer, to a new status; then the job is taken back, except that
\* the administrator who allows a revert takes no job back: it was.
CommitWithdrawn(c, op, to) ==
    LET r == call[c].request IN
    /\ call[c].step = op
    /\ status' = [status EXCEPT ![r] = to]
    /\ buffer' = [buffer EXCEPT ![r] = "none"]
    /\ job' = Loosened(r)
    /\ call' = [d \in Calls |->
                  IF d = c THEN IF op = "allow" THEN Idle
                                ELSE [call[d] EXCEPT !.step = "unschedule"]
                  ELSE IF call[d].request = r THEN [call[d] EXCEPT !.own = FALSE]
                  ELSE call[d]]
    /\ UNCHANGED <<intentOf, intentVars, disturbed, faults>>

RejectRefund(c) == CommitWithdrawn(c, "reject", "REJECTED")

RequestRevert(c) == CommitWithdrawn(c, "revert", "REVERT_REQUESTED")

AllowRevert(c) == CommitWithdrawn(c, "allow", "REVERTED")

\* queue.add with a fixed job id does nothing while a job of that id exists.
Schedule(c) ==
    LET r == call[c].request IN
    /\ call[c].step = "schedule"
    /\ job' = [job EXCEPT ![r] = IF @ # "none" THEN @
                                 ELSE IF call[c].own /\ buffer[r] = "running" THEN "timed"
                                 ELSE "loose"]
    /\ Finish(c)
    /\ UNCHANGED <<rowVars, intentVars, disturbed, faults>>

\* job.remove throws if a worker has the job: the job stays.
\* Mutant: the job stays.
LeftAlone(r) == job

Removed(r) == IF job[r] \in {"timed", "loose"} THEN [job EXCEPT ![r] = "none"] ELSE job

Unschedule(c) ==
    /\ call[c].step = "unschedule"
    /\ job' = Removed(call[c].request)
    /\ Finish(c)
    /\ UNCHANGED <<rowVars, intentVars, disturbed, faults>>

BufferEnds(r) ==
    /\ buffer[r] = "running"
    /\ buffer' = [buffer EXCEPT ![r] = "over"]
    /\ job' = Loosened(r)
    /\ UNCHANGED <<status, intentOf, intentVars, call, disturbed, faults>>

-----------------------------------------------------------------------------
(* finalizeRefund, by the job or by the cron job.                          *)

JobStarts(c, r) ==
    /\ job[r] = "loose"
    /\ job' = [job EXCEPT ![r] = "active"]
    /\ Start(c, r, "job", "read")
    /\ disturbed' = (disturbed \/ Others # {})
    /\ UNCHANGED <<rowVars, intentVars, faults>>

\* Mutant: only requests that no finalisation has come to.
LeftOverUnlinked(r) == status[r] = "APPROVED" /\ buffer[r] = "over" /\ job[r] = "loose"

LeftOver(r) == status[r] = "APPROVED" /\ buffer[r] = "over"

\* handleExpiredBufferRefunds, one run at a time: its lock.
CronStarts(c, r) ==
    /\ LeftOver(r)
    /\ \A d \in Calls : call[d].by # "cron"
    /\ Start(c, r, "cron", "read")
    /\ disturbed' = (disturbed \/ Others # {})
    /\ UNCHANGED <<rowVars, intentVars, job, faults>>

\* Mutant: an intent is made at every finalisation.
NextStepAlwaysMakes(r) == "make"

NextStep(r) == IF intentOf[r] = NoIntent THEN "make" ELSE "claim"

\* The status is checked; bufferExpiresAt is not.
ReadRequest(c) ==
    LET r == call[c].request IN
    /\ call[c].step = "read"
    /\ IF status[r] = "APPROVED"
       THEN /\ call' = [call EXCEPT ![c].step = NextStep(r), ![c].intent = intentOf[r]]
            /\ job' = job
       ELSE /\ Finish(c)
            /\ job' = JobAfter(c)
    /\ UNCHANGED <<rowVars, intentVars, disturbed, faults>>

\* refundIntent.create: a new id.
Free == {i \in Intents : intent[i] = "NONE"}
Fresh == CHOOSE i \in Free : TRUE

MakeIntent(c) ==
    LET i == Fresh IN
    /\ call[c].step = "make"
    /\ Free # {}
    /\ intent' = [intent EXCEPT ![i] = "PENDING"]
    /\ madeFor' = [madeFor EXCEPT ![i] = call[c].request]
    /\ call' = [call EXCEPT ![c].step = "link", ![c].intent = i]
    /\ UNCHANGED <<rowVars, job, disturbed, faults>>

LinkIntent(c) ==
    /\ Go(c, "link", "claim")
    /\ intentOf' = [intentOf EXCEPT ![call[c].request] = call[c].intent]
    /\ UNCHANGED <<status, buffer, intentVars, job, disturbed, faults>>

\* A claim older than its 15 minutes is stale.  Here it is stale only when its
\* call has ended: a call that outlives its claim is the subject of RefundIntent.
Claimable(i) ==
    \/ intent[i] = "PENDING"
    \/ intent[i] = "PROCESSING" /\ \A d \in Calls : ~(call[d].step = "refund" /\ call[d].intent = i)

Claim(c) ==
    LET i == call[c].intent IN
    /\ call[c].step = "claim"
    /\ IF Claimable(i)
       THEN /\ Go(c, "claim", "refund")
            /\ intent' = [intent EXCEPT ![i] = "PROCESSING"]
            /\ job' = job
       ELSE /\ Finish(c)
            /\ intent' = intent
            /\ job' = JobAfter(c)
    /\ UNCHANGED <<rowVars, madeFor, disturbed, faults>>

\* RefundCronService, which claims any unfinished intent.
RefundCronStarts(c, i) ==
    /\ Claimable(i)
    /\ call[c] = Idle
    /\ call' = [call EXCEPT ![c] = [Idle EXCEPT !.step = "refund", !.by = "refundCron",
                                                !.intent = i]]
    /\ intent' = [intent EXCEPT ![i] = "PROCESSING"]
    /\ UNCHANGED <<rowVars, madeFor, job, disturbed, faults>>

Completes(r, i) == intentOf[r] = i /\ status[r] = "APPROVED"

\* The last transaction.  The processor of the support desk completes the
\* request with the intent; BookingRefundService, of the refund cron, does not.
RefundDone(c) ==
    LET i == call[c].intent
        done == {r \in Requests : call[c].by # "refundCron" /\ Completes(r, i)} IN
    /\ call[c].step = "refund"
    /\ intent' = [intent EXCEPT ![i] = "COMPLETED"]
    /\ status' = [r \in Requests |-> IF r \in done THEN "COMPLETED" ELSE status[r]]
    /\ buffer' = [r \in Requests |-> IF r \in done THEN "none" ELSE buffer[r]]
    /\ job' = JobAfter(c)
    /\ Finish(c)
    /\ UNCHANGED <<intentOf, madeFor, disturbed, faults>>

\* Mutant: the request is completed although the refund fails.
RefundFailsUnnoticed(c) ==
    /\ call[c].step = "refund"
    /\ faults < MaxFaults
    /\ faults' = faults + 1
    /\ intent' = [intent EXCEPT ![call[c].intent] = "PENDING"]
    /\ status' = [r \in Requests |-> IF Completes(r, call[c].intent) THEN "COMPLETED" ELSE status[r]]
    /\ job' = JobAfter(c)
    /\ Finish(c)
    /\ UNCHANGED <<buffer, intentOf, madeFor, disturbed>>

\* The gateway refuses or the transaction rolls back; the error is swallowed.
RefundFails(c) ==
    /\ call[c].step = "refund"
    /\ faults < MaxFaults
    /\ faults' = faults + 1
    /\ intent' = [intent EXCEPT ![call[c].intent] = "PENDING"]
    /\ job' = JobAfter(c)
    /\ Finish(c)
    /\ UNCHANGED <<rowVars, madeFor, disturbed>>

\* Between these two writes the rows are not what either leaves: an intent that no
\* request holds, or a request taken back with its job still waiting.
Torn(c) == call[c].step \in {"link", "unschedule"}

\* The server dies in the handler, or a write of the handler fails.  The queue
\* starts a job again if it was running (retry, or stalled) unless given up.
Dies(c) ==
    /\ call[c] # Idle
    /\ faults < MaxFaults
    /\ faults' = faults + 1
    /\ disturbed' = (disturbed \/ Torn(c))
    /\ job' \in IF call[c].by = "job" THEN {[job EXCEPT ![call[c].request] = j] : j \in {"loose", "none"}}
                ELSE {job}
    /\ Finish(c)
    /\ UNCHANGED <<rowVars, intentVars>>

\* The booking is cancelled: the intent of the cancellation, which does not
\* ask for refunds that the desk has made or is about to make.
Cancel ==
    /\ \A i \in Intents : intent[i] # "NONE" => madeFor[i] # NoRequest
    /\ Free # {}
    /\ intent' = [intent EXCEPT ![Fresh] = "PENDING"]
    /\ disturbed' = (disturbed \/ Others # {}
                        \/ \E r \in Requests : status[r] \notin {"NONE", "REJECTED"})
    /\ UNCHANGED <<rowVars, madeFor, job, call, faults>>

Next ==
    \/ \E c \in Calls, r \in Requests :
          \/ BeginCreate(c, r)
          \/ BeginApprove(c, r) \/ BeginReject(c, r) \/ BeginRevert(c, r) \/ BeginDecision(c, r)
          \/ JobStarts(c, r)
          \/ CronStarts(c, r)
    \/ \E c \in Calls :
          \/ CommitCreate(c)
          \/ ApproveRefund(c) \/ RejectRefund(c)
          \/ RequestRevert(c) \/ AllowRevert(c) \/ RefuseRevert(c)
          \/ Schedule(c) \/ Unschedule(c)
          \/ ReadRequest(c) \/ LinkIntent(c) \/ Claim(c)
          \/ MakeIntent(c)
          \/ \E i \in Intents : RefundCronStarts(c, i)
          \/ RefundDone(c) \/ RefundFails(c) \/ Dies(c)
    \/ \E r \in Requests : BufferEnds(r)
    \/ Cancel

Spec == Init /\ [][Next]_vars

\* A handler goes on, time passes, and the cron jobs come round.  A free call
\* is not a resource of the program: hence strong fairness of the starts.
Continues(c) ==
    \/ CommitCreate(c)
    \/ ApproveRefund(c) \/ RejectRefund(c)
    \/ RequestRevert(c) \/ AllowRevert(c) \/ RefuseRevert(c)
    \/ Schedule(c) \/ Unschedule(c)
    \/ ReadRequest(c) \/ MakeIntent(c) \/ LinkIntent(c) \/ Claim(c) \/ RefundDone(c)

FairSpec ==
    /\ Spec
    /\ \A c \in Calls : WF_vars(Continues(c))
    /\ \A r \in Requests : WF_vars(BufferEnds(r))
    /\ \A r \in Requests : SF_vars(\E c \in Calls : CronStarts(c, r))
    /\ \A i \in Intents : SF_vars(\E c \in Calls : RefundCronStarts(c, i))

-----------------------------------------------------------------------------
(* Properties.                                                             *)

TypeOK ==
    /\ status \in [Requests -> Status]
    /\ buffer \in [Requests -> {"none", "running", "over"}]
    /\ intentOf \in [Requests -> Intents \cup {NoIntent}]
    /\ job \in [Requests -> {"none", "timed", "loose", "active"}]
    /\ intent \in [Intents -> {"NONE", "PENDING", "PROCESSING", "COMPLETED"}]
    /\ madeFor \in [Intents -> Requests \cup {NoRequest}]
    /\ call \in [Calls -> Call]
    /\ disturbed \in BOOLEAN
    /\ faults \in 0..MaxFaults

\* A request is COMPLETED only after a refund of its own has been made, however
\* the handlers overlap and die: the processor completes the request that holds
\* the very intent, in the transaction that completes the intent.
CompletedWasRefunded ==
    \A r \in Requests : status[r] = "COMPLETED" =>
        \E i \in Intents : madeFor[i] = r /\ intent[i] = "COMPLETED"

\* If the handlers keep apart, the booking is refunded once: by its cancellation
\* or by one request, which makes one intent however often it is finalised, also
\* if finalisations die.  Only one that dies between making the intent and linking
\* it is excluded: the next makes a second intent, and the booking is refunded twice.
RefundedOnce ==
    ~disturbed => Cardinality({i \in Intents : intent[i] # "NONE"}) <= 1

\* If the handlers keep apart, nothing is refunded for a request that is not
\* approved: a revert is accepted only before anybody may finalise, and the
\* job that waits is taken back.  A revert that dies before it takes the job back
\* is excluded.
NoRefundAfterRevert ==
    ~disturbed => \A i \in Intents :
        intent[i] # "NONE" /\ madeFor[i] # NoRequest =>
            status[madeFor[i]] \in {"APPROVED", "COMPLETED"}

\* If the handlers keep apart, a finalisation finds the request approved only
\* when its buffer is over, although finalizeRefund itself does not look at the
\* buffer: a revert may be asked for as long as it runs.
BufferIsKept ==
    ~disturbed => \A c \in Calls, r \in Requests :
        call[c].step \in {"read", "make", "link"} /\ call[c].request = r =>
            buffer[r] # "running"

\* An approved request is refunded, unless it is reverted: by its job, or, if
\* the job was never made or has died, by the cron job.
ApprovedIsRefunded ==
    \A r \in Requests : status[r] = "APPROVED" ~>
        \/ status[r] # "APPROVED"
        \/ \E i \in Intents : madeFor[i] = r /\ intent[i] = "COMPLETED"

=============================================================================
