------------------------- MODULE SupportRefundProofs -------------------------
(***************************************************************************)
(* Proofs about SupportRefund, for any number of requests, intents, calls  *)
(* and faults.                                                             *)
(*                                                                         *)
(* That a completed request was refunded needs nothing of the handlers:    *)
(* the intent that a request holds was made for it (LinkedIsOwn), and a    *)
(* claim keeps everybody else away from an intent until its call is over   *)
(* (ClaimsAreAlone), so a refund that is done stays done.                  *)
(*                                                                         *)
(* The other properties hold as long as the handlers keep apart, and none  *)
(* dies between two writes that belong together (Torn).  Then              *)
(* what a handler has read about its request is still true when it writes  *)
(* (CallsFit), a job that may start finds the buffer over (JobsFit), and   *)
(* an intent is of the one request that is still open (IntentsFit).        *)
(***************************************************************************)
EXTENDS SupportRefund, FiniteSetTheorems, TLAPS

USE DEF rowVars, intentVars

Made(i) == i \in Intents /\ intent[i] # "NONE"

MadeOf(i, r) == Made(i) /\ madeFor[i] = r

\* The intent a request holds was made for it.
LinkedIsOwn == \A r \in Requests : intentOf[r] # NoIntent => MadeOf(intentOf[r], r)

\* A handler works for a request, or is the refund cron's; jobs only finalise.
CallIsMade(k) ==
    /\ k.step # "idle" => k.by # "none"
    /\ k.step = "refund" => Made(k.intent)
    /\ k.step \notin {"idle", "refund"} => k.by # "refundCron"
    /\ k.step # "idle" /\ k.by # "refundCron" => k.request \in Requests
    /\ k.step \in {"link", "claim"} \/ (k.step = "refund" /\ k.by # "refundCron") =>
          MadeOf(k.intent, k.request)
    /\ k.by = "job" => k.step \in {"read", "make", "link", "claim", "refund"}

CallsAreMade == \A c \in Calls : CallIsMade(call[c])

\* An intent that is not made yet is nobody's.
UnmadeIsFree == \A i \in Intents : intent[i] = "NONE" => madeFor[i] = NoRequest

\* An intent is processed by one call at a time.
ClaimsAreAlone ==
    /\ \A c \in Calls : call[c].step = "refund" => intent[call[c].intent] = "PROCESSING"
    /\ \A c, d \in Calls :
          call[c].step = "refund" /\ call[d].step = "refund" /\ call[c].intent = call[d].intent
              => c = d

\* What holds however the handlers overlap.
RefundInv ==
    /\ TypeOK
    /\ LinkedIsOwn
    /\ UnmadeIsFree
    /\ CallsAreMade
    /\ ClaimsAreAlone
    /\ CompletedWasRefunded

-----------------------------------------------------------------------------
(* What holds as long as the handlers keep apart.                          *)

Alone == \A c, d \in Others : c = d

\* No request is open, or has been refunded.
NoneOpen == \A r \in Requests : status[r] \in {"NONE", "REJECTED"}

\* What a handler has found of its request is still so.
CallFits(k) ==
    LET r == k.request IN
    /\ k.step = "create" => NoneOpen /\ \A i \in Intents : intent[i] = "NONE"
    /\ k.step \in {"approve", "reject"} => status[r] \in Editable
    /\ k.step = "revert" => status[r] = "APPROVED" /\ \A i \in Intents : ~MadeOf(i, r)
    /\ k.step \in {"allow", "refuse"} => status[r] = "REVERT_REQUESTED"
    /\ k.step = "schedule" => status[r] = "APPROVED" /\ k.own
    /\ k.step \in {"read", "make", "link"} => buffer[r] # "running"
    /\ k.step = "read" /\ k.by = "job" => status[r] \in {"APPROVED", "COMPLETED"}
    /\ k.step \in {"make", "link", "claim"} => status[r] = "APPROVED"
    /\ k.step = "make" => intentOf[r] = NoIntent

CallsFit == \A c \in Calls : CallFits(call[c])

\* At most one request is open or has been refunded.
OneOpen ==
    \A r, s \in Requests :
        status[r] \notin {"NONE", "REJECTED"} /\ status[s] \notin {"NONE", "REJECTED"} => r = s

\* A job that may start finds the buffer over; one that runs is a handler; and a
\* request that is not approved has none, or it is being taken back.
JobFits(r) ==
    /\ job[r] = "loose" => buffer[r] # "running"
    /\ job[r] = "active" => \E c \in Calls : call[c].by = "job" /\ call[c].request = r
    /\ job[r] # "none" /\ status[r] \notin {"APPROVED", "COMPLETED"} =>
          \E c \in Calls : call[c].step = "unschedule" /\ call[c].request = r

JobsFit == \A r \in Requests : JobFits(r)

\* An intent is the cancellation's, and then no request is open, or a request's
\* that is approved, whose buffer is over, and which holds it or is about to.
IntentFits(i) ==
    \/ madeFor[i] = NoRequest /\ NoneOpen
    \/ \E r \in Requests :
          /\ madeFor[i] = r
          /\ status[r] \in {"APPROVED", "COMPLETED"}
          /\ buffer[r] # "running"
          /\ \/ intentOf[r] = i
             \/ \E c \in Calls : call[c].step = "link" /\ call[c].request = r /\ call[c].intent = i

IntentsFit == \A i \in Intents : Made(i) => IntentFits(i)

OneIntent == \A i, j \in Intents : Made(i) /\ Made(j) => i = j

Calm == Alone /\ CallsFit /\ OneOpen /\ JobsFit /\ IntentsFit /\ OneIntent

CalmInv == ~disturbed => Calm

-----------------------------------------------------------------------------
(* Types.                                                                  *)

LEMMA InitType == Init => TypeOK
<1> SUFFICES ASSUME Init PROVE TypeOK
  OBVIOUS
<1>1. Idle \in Call
  BY DEF Idle, Call, Step, Caller
<1>2. disturbed \in BOOLEAN
  BY Zenon DEF Init
<1>3. faults \in 0..MaxFaults
  BY FaultsAssumption DEF Init
<1> QED
  BY <1>1, <1>2, <1>3 DEF Init, TypeOK, Status

LEMMA StartType ==
    ASSUME TypeOK, NEW c \in Calls, NEW r \in Requests, NEW by \in Caller, NEW s \in Step,
           Start(c, r, by, s)
    PROVE  call' \in [Calls -> Call]
<1>1. [Idle EXCEPT !.step = s, !.by = by, !.request = r] \in Call
  BY DEF Idle, Call
<1> QED
  BY <1>1 DEF TypeOK, Start

LEMMA StepType ==
    ASSUME TypeOK, NEW c \in Calls, NEW s \in Step,
           Finish(c) \/ call' = [call EXCEPT ![c].step = s]
    PROVE  call' \in [Calls -> Call]
<1>1. Idle \in Call /\ [call[c] EXCEPT !.step = s] \in Call
  BY DEF TypeOK, Idle, Call, Step, Caller
<1> QED
  BY <1>1 DEF TypeOK, Finish

\* With an intent that is at hand.
LEMMA StepIntentType ==
    ASSUME TypeOK, NEW c \in Calls, NEW s \in Step, NEW i \in Intents \cup {NoIntent},
           call' = [call EXCEPT ![c].step = s, ![c].intent = i]
    PROVE  call' \in [Calls -> Call]
<1>1. [call[c] EXCEPT !.step = s, !.intent = i] \in Call
  <2>1. call[c] \in Call
    BY DEF TypeOK
  <2> QED
    BY <2>1 DEF Call
<1> QED
  BY <1>1 DEF TypeOK

JobState == {"none", "timed", "loose", "active"}

LEMMA JobTypes ==
    ASSUME TypeOK
    PROVE  /\ \A r \in Requests : Loosened(r) \in [Requests -> JobState]
           /\ \A r \in Requests : Removed(r) \in [Requests -> JobState]
           /\ \A c \in Calls : JobAfter(c) \in [Requests -> JobState]
  BY DEF TypeOK, Loosened, Removed, JobAfter, JobState

\* The row that the next intent takes.
LEMMA FreshType == Free # {} => Fresh \in Intents /\ intent[Fresh] = "NONE"
  BY DEF Free, Fresh

LEMMA NextType == TypeOK /\ CallsAreMade /\ [Next]_vars => TypeOK'
<1> SUFFICES ASSUME TypeOK, CallsAreMade, [Next]_vars PROVE TypeOK'
  OBVIOUS
<1>1. ASSUME NEW c \in Calls, NEW r \in Requests, NEW s \in Step, Begin(c, r, s) PROVE TypeOK'
  <2>1. call' \in [Calls -> Call]
    BY <1>1, StartType DEF Begin, Caller
  <2> QED
    BY <1>1, <2>1 DEF TypeOK, Begin
<1>2. ASSUME NEW c \in Calls, NEW r \in Requests,
             BeginCreate(c, r) \/ JobStarts(c, r) \/ CronStarts(c, r)
      PROVE  TypeOK'
  <2>1. call' \in [Calls -> Call]
    BY <1>2, StartType DEF BeginCreate, JobStarts, CronStarts, Caller, Step
  <2> QED
    BY <1>2, <2>1 DEF TypeOK, BeginCreate, JobStarts, CronStarts
<1>3. ASSUME NEW c \in Calls, NEW op \in {"approve", "refuse", "reject", "revert", "allow"},
             \/ CommitApproved(c, op) \/ \E to \in Status : CommitWithdrawn(c, op, to)
      PROVE  TypeOK'
  <2>1. call[c].request \in Requests
    BY <1>3 DEF CallsAreMade, CallIsMade, CommitApproved, CommitWithdrawn
  <2>2. call' \in [Calls -> Call]
    <3>1. ASSUME NEW d \in Calls
          PROVE  /\ call[d] \in Call /\ Idle \in Call
                 /\ [call[d] EXCEPT !.step = "schedule", !.own = TRUE] \in Call
                 /\ [call[d] EXCEPT !.step = "unschedule"] \in Call
                 /\ [call[d] EXCEPT !.own = FALSE] \in Call
      <4>1. call[d] \in Call
        BY DEF TypeOK
      <4> QED
        BY <4>1 DEF Call, Step, Idle, Caller
    <3> QED
      BY <1>3, <3>1 DEF CommitApproved, CommitWithdrawn
  <2>3. job' \in [Requests -> JobState]
    BY <1>3, <2>1, JobTypes DEF CommitApproved, CommitWithdrawn
  <2> QED
    BY <1>3, <2>1, <2>2, <2>3 DEF TypeOK, CommitApproved, CommitWithdrawn, JobState, Status
<1>4. ASSUME NEW c \in Calls, CommitCreate(c) PROVE TypeOK'
  <2>1. call' \in [Calls -> Call]
    BY <1>4, StepType DEF CommitCreate, Step
  <2> QED
    BY <1>4, <2>1 DEF TypeOK, CommitCreate, Status
<1>5. ASSUME NEW c \in Calls, Schedule(c) \/ Unschedule(c) PROVE TypeOK'
  <2>1. call' \in [Calls -> Call]
    BY <1>5, StepType DEF Schedule, Unschedule, Step
  <2>2. call[c].request \in Requests
    BY <1>5 DEF CallsAreMade, CallIsMade, Schedule, Unschedule
  <2>3. job' \in [Requests -> JobState]
    <3>1. CASE Schedule(c)
      BY <2>2, <3>1 DEF Schedule, TypeOK, JobState
    <3>2. CASE Unschedule(c)
      BY <2>2, <3>2, JobTypes DEF Unschedule
    <3> QED
      BY <1>5, <3>1, <3>2
  <2> QED
    BY <1>5, <2>1, <2>3 DEF TypeOK, Schedule, Unschedule, JobState
<1>6. ASSUME NEW c \in Calls, ReadRequest(c) PROVE TypeOK'
  <2>1. call[c].request \in Requests
    BY <1>6 DEF CallsAreMade, CallIsMade, ReadRequest
  <2>2. call' \in [Calls -> Call]
    <3>1. NextStep(call[c].request) \in Step /\ intentOf[call[c].request] \in Intents \cup {NoIntent}
      BY <2>1 DEF NextStep, Step, TypeOK
    <3>2. CASE Finish(c)
      BY <3>2, StepType DEF Step
    <3> QED
      BY <1>6, <3>1, <3>2, StepIntentType DEF ReadRequest
  <2>3. job' \in [Requests -> JobState]
    BY <1>6, JobTypes DEF ReadRequest, TypeOK, JobState
  <2> QED
    BY <1>6, <2>2, <2>3 DEF TypeOK, ReadRequest, JobState
<1>7. ASSUME NEW c \in Calls, MakeIntent(c) PROVE TypeOK'
  <2>1. call' \in [Calls -> Call]
    BY <1>7, FreshType, StepIntentType DEF MakeIntent, Step
  <2>2. call[c].request \in Requests
    BY <1>7 DEF CallsAreMade, CallIsMade, MakeIntent
  <2> QED
    BY <1>7, <2>1, <2>2 DEF TypeOK, MakeIntent
<1>8. ASSUME NEW c \in Calls, LinkIntent(c) PROVE TypeOK'
  <2>1. call' \in [Calls -> Call]
    BY <1>8, StepType DEF LinkIntent, Go, Step
  <2>2. call[c].intent \in Intents
    BY <1>8 DEF CallsAreMade, CallIsMade, LinkIntent, Go, MadeOf, Made
  <2> QED
    BY <1>8, <2>1, <2>2 DEF TypeOK, LinkIntent
<1>9. ASSUME NEW c \in Calls, Claim(c) PROVE TypeOK'
  <2>1. call' \in [Calls -> Call]
    BY <1>9, StepType DEF Claim, Go, Step
  <2>2. job' \in [Requests -> JobState]
    BY <1>9, JobTypes DEF Claim, TypeOK, JobState
  <2> QED
    BY <1>9, <2>1, <2>2 DEF TypeOK, Claim, JobState
<1>10. ASSUME NEW c \in Calls, NEW i \in Intents, RefundCronStarts(c, i) PROVE TypeOK'
  <2>1. [Idle EXCEPT !.step = "refund", !.by = "refundCron", !.intent = i] \in Call
    BY DEF Idle, Call, Step, Caller
  <2> QED
    BY <1>10, <2>1 DEF TypeOK, RefundCronStarts
<1>11. ASSUME NEW c \in Calls, RefundDone(c) \/ RefundFails(c) PROVE TypeOK'
  <2>1. call' \in [Calls -> Call]
    BY <1>11, StepType DEF RefundDone, RefundFails, Step
  <2>2. job' \in [Requests -> JobState]
    BY <1>11, JobTypes DEF RefundDone, RefundFails
  <2>3. CASE RefundDone(c)
    BY <2>1, <2>2, <2>3 DEF TypeOK, RefundDone, JobState, Status
  <2>4. CASE RefundFails(c)
    <3>1. faults' \in 0..MaxFaults
      BY <2>4, FaultsAssumption DEF TypeOK, RefundFails
    <3> QED
      BY <2>1, <2>2, <2>4, <3>1 DEF TypeOK, RefundFails, JobState
  <2> QED
    BY <1>11, <2>3, <2>4
<1>12. ASSUME NEW c \in Calls, Dies(c) PROVE TypeOK'
  <2>1. call' \in [Calls -> Call]
    BY <1>12, StepType DEF Dies, Step
  <2>2. job' \in [Requests -> JobState]
    BY <1>12 DEF Dies, TypeOK, JobState
  <2> QED
    BY <1>12, <2>1, <2>2, FaultsAssumption DEF TypeOK, Dies, JobState
<1>13. ASSUME NEW r \in Requests, BufferEnds(r) PROVE TypeOK'
  BY <1>13, JobTypes DEF TypeOK, BufferEnds, JobState
<1>14. CASE Cancel
  BY <1>14 DEF TypeOK, Cancel
<1>15. CASE UNCHANGED vars
  BY <1>15 DEF TypeOK, vars
<1> QED
  BY <1>1, <1>2, <1>3, <1>4, <1>5, <1>6, <1>7, <1>8, <1>9, <1>10, <1>11, <1>12, <1>13, <1>14,
     <1>15
  DEF Next, BeginApprove, BeginReject, BeginRevert, BeginDecision, ApproveRefund, RejectRefund,
      RequestRevert, AllowRevert, RefuseRevert, Step, Status

-----------------------------------------------------------------------------
(* What holds however the handlers overlap.                                *)

\* Six actions write intents.
LEMMA IntentCases ==
    ASSUME [Next]_vars
    PROVE  \/ \E c \in Calls : MakeIntent(c) \/ Claim(c) \/ RefundDone(c) \/ RefundFails(c)
           \/ \E c \in Calls, i \in Intents : RefundCronStarts(c, i)
           \/ Cancel
           \/ UNCHANGED intentVars
  BY DEF Next, vars, BeginCreate, BeginApprove, BeginReject, BeginRevert, BeginDecision, Begin,
     JobStarts, CronStarts, CommitCreate, ApproveRefund, RejectRefund, RequestRevert, AllowRevert,
     RefuseRevert, CommitApproved, CommitWithdrawn, Schedule, Unschedule, ReadRequest, LinkIntent,
     Dies, BufferEnds

\* An intent that was made stays, and stays its request's.
LEMMA MadeStays ==
    ASSUME TypeOK, [Next]_vars, NEW i, NEW r, MadeOf(i, r)
    PROVE  MadeOf(i, r)'
<1>1. ASSUME NEW c \in Calls, MakeIntent(c) PROVE MadeOf(i, r)'
  BY <1>1, FreshType DEF TypeOK, MakeIntent, MadeOf, Made
<1>2. CASE Cancel
  BY <1>2, FreshType DEF TypeOK, Cancel, MadeOf, Made
<1>3. ASSUME NEW c \in Calls, Claim(c) \/ RefundDone(c) \/ RefundFails(c)
      PROVE  MadeOf(i, r)'
  BY <1>3 DEF TypeOK, Claim, RefundDone, RefundFails, MadeOf, Made
<1>4. ASSUME NEW c \in Calls, NEW j \in Intents, RefundCronStarts(c, j) PROVE MadeOf(i, r)'
  BY <1>4 DEF TypeOK, RefundCronStarts, MadeOf, Made
<1>5. CASE UNCHANGED intentVars
  BY <1>5 DEF MadeOf, Made
<1> QED
  BY <1>1, <1>2, <1>3, <1>4, <1>5, IntentCases

LEMMA CallStays ==
    ASSUME TypeOK, [Next]_vars, NEW k, CallIsMade(k)
    PROVE  CallIsMade(k)'
<1>1. Made(k.intent) => Made(k.intent)'
  BY MadeStays DEF MadeOf
<1> QED
  BY <1>1, MadeStays DEF CallIsMade

LEMMA LinkedStep == TypeOK /\ LinkedIsOwn /\ CallsAreMade /\ [Next]_vars => LinkedIsOwn'
<1> SUFFICES ASSUME TypeOK, LinkedIsOwn, CallsAreMade, [Next]_vars, NEW r \in Requests,
                    intentOf'[r] # NoIntent
             PROVE  MadeOf(intentOf[r], r)'
  BY DEF LinkedIsOwn
<1>1. PICK i : i = intentOf'[r]
  OBVIOUS
<1>2. MadeOf(i, r)
  <2>1. CASE intentOf'[r] = intentOf[r]
    BY <1>1, <2>1 DEF LinkedIsOwn
  <2>2. ASSUME NEW c \in Calls, LinkIntent(c), call[c].request = r PROVE MadeOf(i, r)
    BY <1>1, <2>2 DEF TypeOK, LinkIntent, Go, CallsAreMade, CallIsMade
  <2>3. ASSUME NEW c \in Calls, LinkIntent(c), call[c].request # r
        PROVE  intentOf'[r] = intentOf[r]
    BY <2>3 DEF TypeOK, LinkIntent
  <2> QED
    BY <2>1, <2>2, <2>3
    DEF Next, vars, BeginCreate, BeginApprove, BeginReject, BeginRevert, BeginDecision, Begin,
        JobStarts, CronStarts, CommitCreate, ApproveRefund, RejectRefund, RequestRevert,
        AllowRevert, RefuseRevert, CommitApproved, CommitWithdrawn, Schedule, Unschedule,
        ReadRequest, MakeIntent, Claim, RefundCronStarts, RefundDone, RefundFails, Dies,
        BufferEnds, Cancel
<1> QED
  BY <1>1, <1>2, MadeStays

\* What a step makes of the call d: it stays as it is but for being outdated, it
\* ends, it starts for a request, or it goes on.
LEMMA CallCases ==
    ASSUME TypeOK, [Next]_vars, NEW d \in Calls
    PROVE  \/ call'[d] \in {call[d], [call[d] EXCEPT !.own = FALSE], Idle}
           \/ \E r \in Requests, by \in {"user", "job", "cron"} :
                 /\ Start(d, r, by, call'[d].step)
                 /\ call'[d].step \notin {"idle", "link", "claim", "refund"}
                 /\ by = "job" => call'[d].step = "read"
           \/ \E op \in {"approve", "refuse"} : CommitApproved(d, op)
           \/ \E op \in {"reject", "revert"}, to \in Status : CommitWithdrawn(d, op, to)
           \/ ReadRequest(d) \/ MakeIntent(d) \/ LinkIntent(d) \/ Claim(d)
           \/ \E i \in Intents : RefundCronStarts(d, i)
<1> USE DEF TypeOK
<1> DEFINE Started == \E r \in Requests, by \in {"user", "job", "cron"} :
              /\ Start(d, r, by, call'[d].step)
              /\ call'[d].step \notin {"idle", "link", "claim", "refund"}
              /\ by = "job" => call'[d].step = "read"
<1> DEFINE Kept == call'[d] \in {call[d], [call[d] EXCEPT !.own = FALSE], Idle}
<1>1. ASSUME NEW c \in Calls, NEW r \in Requests, NEW by \in {"user", "job", "cron"},
             NEW s \in Step \ {"idle", "link", "claim", "refund"}, Start(c, r, by, s),
             by = "job" => s = "read"
      PROVE  Kept \/ Started
  <2>1. CASE c = d
    <3>1. call'[d].step = s
      BY <1>1, <2>1 DEF Start, Idle
    <3> QED
      BY <1>1, <2>1, <3>1
  <2> QED
    BY <1>1, <2>1 DEF Start
<1>2. ASSUME NEW c \in Calls, NEW r \in Requests,
             \/ BeginCreate(c, r) \/ BeginApprove(c, r) \/ BeginReject(c, r) \/ BeginRevert(c, r)
             \/ BeginDecision(c, r) \/ JobStarts(c, r) \/ CronStarts(c, r)
      PROVE  Kept \/ Started
  BY <1>1, <1>2 DEF BeginCreate, BeginApprove, BeginReject, BeginRevert, BeginDecision, Begin,
     JobStarts, CronStarts, Step
<1>3. ASSUME NEW c \in Calls,
             CommitCreate(c) \/ Schedule(c) \/ Unschedule(c) \/ RefundDone(c) \/ RefundFails(c)
             \/ Dies(c)
      PROVE  Kept
  BY <1>3 DEF CommitCreate, Schedule, Unschedule, RefundDone, RefundFails, Dies, Finish
<1>4. ASSUME NEW c \in Calls, NEW op, NEW to, c # d \/ op = "allow",
             (CommitApproved(c, op) /\ c # d) \/ CommitWithdrawn(c, op, to)
      PROVE  Kept
  <2>1. CASE CommitApproved(c, op) /\ c # d
    BY <2>1 DEF CommitApproved
  <2>2. CASE CommitWithdrawn(c, op, to) /\ c # d
    BY <2>2 DEF CommitWithdrawn
  <2>3. CASE CommitWithdrawn(c, op, to) /\ c = d /\ op = "allow"
    BY <2>3 DEF CommitWithdrawn
  <2> QED
    BY <1>4, <2>1, <2>2, <2>3
<1>5. ASSUME NEW c \in Calls, c # d,
             \/ ReadRequest(c) \/ MakeIntent(c) \/ LinkIntent(c) \/ Claim(c)
             \/ \E i \in Intents : RefundCronStarts(c, i)
      PROVE  Kept
  BY <1>5 DEF ReadRequest, MakeIntent, LinkIntent, Claim, RefundCronStarts, Go, Finish
<1>6. CASE UNCHANGED call
  BY <1>6
<1> QED
  BY <1>2, <1>3, <1>4, <1>5, <1>6
  DEF Next, vars, ApproveRefund, RejectRefund, RequestRevert, AllowRevert, RefuseRevert,
      BufferEnds, Cancel, Status

LEMMA CallsMadeStep ==
    TypeOK /\ LinkedIsOwn /\ CallsAreMade /\ [Next]_vars => CallsAreMade'
<1> SUFFICES ASSUME TypeOK, LinkedIsOwn, CallsAreMade, [Next]_vars, NEW d \in Calls
             PROVE  CallIsMade(call[d])'
  BY DEF CallsAreMade
<1> USE DEF TypeOK
<1>1. PICK k : k = call'[d]
  OBVIOUS
<1>2. PICK old \in Call : old = call[d]
  OBVIOUS
<1>3. CallIsMade(old) /\ CallIsMade(old)'
  BY <1>2, CallStays DEF CallsAreMade
<1>4. CASE k \in {old, [old EXCEPT !.own = FALSE], Idle}
  <2>1. CallIsMade(Idle)'
    BY DEF CallIsMade, Idle
  <2>2. CASE k = [old EXCEPT !.own = FALSE]
    <3>1. k.step = old.step /\ k.request = old.request /\ k.intent = old.intent /\ k.by = old.by
      BY <2>2 DEF Call
    <3> QED
      BY <1>1, <1>3, <2>2, <3>1 DEF CallIsMade
  <2> QED
    BY <1>1, <1>3, <1>4, <2>1, <2>2
<1>5. ASSUME NEW r \in Requests, NEW by \in {"user", "job", "cron"}, NEW s,
             Start(d, r, by, s), s \notin {"idle", "link", "claim", "refund"},
             by = "job" => s = "read"
      PROVE  CallIsMade(call[d])'
  <2>1. call'[d] = [step |-> s, by |-> by, request |-> r, intent |-> NoIntent, own |-> FALSE]
    BY <1>5 DEF Start, Idle
  <2> QED
    BY <2>1, <1>5 DEF CallIsMade, Idle
<1>6. ASSUME NEW op \in {"approve", "refuse"}, CommitApproved(d, op) PROVE CallIsMade(call[d])'
  <2>1. call'[d] = [old EXCEPT !.step = "schedule", !.own = TRUE] /\ old.step = op
    BY <1>2, <1>6 DEF CommitApproved
  <2>2. call'[d].step = "schedule" /\ call'[d].request = old.request /\ call'[d].by = old.by
    BY <2>1 DEF Call
  <2> QED
    BY <1>3, <2>1, <2>2 DEF CallIsMade
<1>7. ASSUME NEW op \in {"reject", "revert"}, NEW to, CommitWithdrawn(d, op, to)
      PROVE  CallIsMade(call[d])'
  <2>1. call'[d] = [old EXCEPT !.step = "unschedule"] /\ old.step = op
    BY <1>2, <1>7 DEF CommitWithdrawn
  <2>2. call'[d].step = "unschedule" /\ call'[d].request = old.request /\ call'[d].by = old.by
    BY <2>1 DEF Call
  <2> QED
    BY <1>3, <2>1, <2>2 DEF CallIsMade
<1>8. ASSUME ReadRequest(d), k # Idle PROVE CallIsMade(call[d])'
  <2>1. /\ old.step = "read" /\ k.step = NextStep(old.request) /\ k.intent = intentOf[old.request]
        /\ k.by = old.by /\ k.request = old.request
    BY <1>1, <1>2, <1>8 DEF ReadRequest, Call, Finish
  <2>2. old.request \in Requests
    BY <1>3, <2>1 DEF CallIsMade
  <2>3. k.step = "make" \/ (k.step = "claim" /\ MadeOf(k.intent, old.request))
    <3>1. CASE intentOf[old.request] = NoIntent
      BY <2>1, <3>1 DEF NextStep
    <3>2. CASE intentOf[old.request] # NoIntent
      <4>1. MadeOf(intentOf[old.request], old.request)
        BY <2>2, <3>2 DEF LinkedIsOwn
      <4> QED
        BY <2>1, <3>2, <4>1 DEF NextStep
    <3> QED
      BY <3>1, <3>2
  <2>4. k.step = "make" \/ (k.step = "claim" /\ MadeOf(k.intent, old.request)')
    BY <2>3, MadeStays
  <2> QED
    BY <1>1, <1>3, <2>1, <2>4 DEF CallIsMade
<1>9. CASE MakeIntent(d)
  <2>1. /\ old.step = "make" /\ k.step = "link" /\ k.intent = Fresh
        /\ k.by = old.by /\ k.request = old.request
    BY <1>1, <1>2, <1>9 DEF MakeIntent, Call
  <2>2. PICK i : i = Fresh
    OBVIOUS
  <2>3. MadeOf(i, old.request)'
    BY <1>2, <1>9, <2>2, FreshType DEF MakeIntent, MadeOf, Made
  <2> QED
    BY <1>1, <1>3, <2>1, <2>2, <2>3 DEF CallIsMade
<1>10. CASE LinkIntent(d)
  <2>1. /\ old.step = "link" /\ k.step = "claim" /\ k.intent = old.intent
        /\ k.by = old.by /\ k.request = old.request
    BY <1>1, <1>2, <1>10 DEF LinkIntent, Go, Call
  <2> QED
    BY <1>1, <1>3, <2>1 DEF CallIsMade
<1>11. ASSUME Claim(d), k # Idle PROVE CallIsMade(call[d])'
  <2>1. /\ old.step = "claim" /\ k.step = "refund" /\ k.intent = old.intent /\ k.by = old.by
        /\ k.request = old.request
    BY <1>1, <1>2, <1>11 DEF Claim, Go, Call, Finish
  <2> QED
    BY <1>1, <1>3, <2>1 DEF CallIsMade, MadeOf
<1>12. ASSUME NEW i \in Intents, RefundCronStarts(d, i) PROVE CallIsMade(call[d])'
  <2>1. call'[d].step = "refund" /\ call'[d].intent = i /\ call'[d].by = "refundCron"
    BY <1>12 DEF RefundCronStarts, Idle
  <2>2. Made(i)'
    BY <1>12 DEF RefundCronStarts, Made
  <2> QED
    BY <2>1, <2>2 DEF CallIsMade
<1> QED
  BY <1>1, <1>2, <1>4, <1>5, <1>6, <1>7, <1>8, <1>9, <1>10, <1>11, <1>12, CallCases

LEMMA UnmadeStep == TypeOK /\ UnmadeIsFree /\ [Next]_vars => UnmadeIsFree'
<1> SUFFICES ASSUME TypeOK, UnmadeIsFree, [Next]_vars PROVE UnmadeIsFree'
  OBVIOUS
<1>1. ASSUME NEW c \in Calls, MakeIntent(c) PROVE UnmadeIsFree'
  BY <1>1, FreshType DEF TypeOK, UnmadeIsFree, MakeIntent
<1>2. CASE Cancel
  BY <1>2 DEF TypeOK, UnmadeIsFree, Cancel
<1>3. ASSUME NEW c \in Calls, Claim(c) \/ RefundDone(c) \/ RefundFails(c) PROVE UnmadeIsFree'
  BY <1>3 DEF TypeOK, UnmadeIsFree, Claim, RefundDone, RefundFails
<1>4. ASSUME NEW c \in Calls, NEW i \in Intents, RefundCronStarts(c, i) PROVE UnmadeIsFree'
  BY <1>4 DEF TypeOK, UnmadeIsFree, RefundCronStarts
<1>5. CASE UNCHANGED intentVars
  BY <1>5 DEF UnmadeIsFree
<1> QED
  BY <1>1, <1>2, <1>3, <1>4, <1>5, IntentCases

\* A call that processes an intent goes on with it, or has claimed it just now.
LEMMA RefundCases ==
    ASSUME TypeOK, [Next]_vars, NEW d \in Calls, call'[d].step = "refund"
    PROVE  LET i == call'[d].intent IN
           \/ call[d].step = "refund" /\ call[d].intent = i
           \/ /\ Claimable(i) /\ intent' = [intent EXCEPT ![i] = "PROCESSING"]
              /\ (call[d].intent = i /\ call[d].step = "claim") \/ i \in Intents
              /\ \A c \in Calls : c # d => call'[c] = call[c]
<1> USE DEF TypeOK
<1>1. CASE call'[d] \in {call[d], [call[d] EXCEPT !.own = FALSE], Idle}
  BY <1>1 DEF Call, Idle
<1>2. CASE Claim(d)
  BY <1>2 DEF Claim, Go, Finish, Idle, Call
<1>3. ASSUME NEW i \in Intents, RefundCronStarts(d, i)
      PROVE  /\ Claimable(i) /\ intent' = [intent EXCEPT ![i] = "PROCESSING"]
             /\ call'[d].intent = i
             /\ \A c \in Calls : c # d => call'[c] = call[c]
  BY <1>3 DEF RefundCronStarts, Idle
<1>4. ASSUME NEW r \in Requests, NEW by, Start(d, r, by, call'[d].step),
             call'[d].step \notin {"idle", "link", "claim", "refund"}
      PROVE  FALSE
  BY <1>4
<1>5. CASE ReadRequest(d)
  BY <1>5 DEF ReadRequest, NextStep, Finish, Idle, Call
<1>6. CASE MakeIntent(d) \/ LinkIntent(d)
  BY <1>6 DEF MakeIntent, LinkIntent, Go, Call
<1>7. ASSUME NEW op, CommitApproved(d, op) PROVE FALSE
  BY <1>7 DEF CommitApproved, Call
<1>8. ASSUME NEW op \in {"reject", "revert"}, NEW to, CommitWithdrawn(d, op, to) PROVE FALSE
  BY <1>8 DEF CommitWithdrawn, Call
<1> QED
  BY <1>1, <1>2, <1>3, <1>4, <1>5, <1>6, <1>7, <1>8, CallCases

\* Nobody but the call that processes an intent puts it back or completes it.
LEMMA IntentStays ==
    ASSUME TypeOK, CallsAreMade, ClaimsAreAlone, [Next]_vars, NEW i \in Intents
    PROVE  /\ intent[i] = "COMPLETED" => intent'[i] = "COMPLETED"
           /\ intent[i] = "PROCESSING" =>
                 \/ intent'[i] = "PROCESSING"
                 \/ \E c \in Calls : call[c].step = "refund" /\ call[c].intent = i
                                     /\ call'[c] = Idle
<1> USE DEF TypeOK
<1>1. ASSUME NEW c \in Calls, RefundDone(c) \/ RefundFails(c)
      PROVE  \/ intent'[i] = intent[i]
             \/ intent[i] = "PROCESSING" /\ call[c].step = "refund" /\ call[c].intent = i
                /\ call'[c] = Idle
  BY <1>1 DEF RefundDone, RefundFails, Finish, ClaimsAreAlone
<1>2. ASSUME NEW c \in Calls, MakeIntent(c) \/ Cancel
      PROVE  intent[i] = "NONE" \/ intent'[i] = intent[i]
  BY <1>2, FreshType DEF MakeIntent, Cancel
<1>3. CASE Cancel
  BY <1>3, FreshType DEF Cancel
<1>4. ASSUME NEW c \in Calls, Claim(c) PROVE
        intent'[i] = intent[i] \/ (intent'[i] = "PROCESSING" /\ intent[i] # "COMPLETED")
  <2>1. CASE Claimable(call[c].intent) /\ intent' = [intent EXCEPT ![call[c].intent] = "PROCESSING"]
    BY <2>1 DEF Claimable
  <2> QED
    BY <1>4, <2>1 DEF Claim
<1>5. ASSUME NEW c \in Calls, NEW j \in Intents, RefundCronStarts(c, j)
      PROVE  intent'[i] = intent[i] \/ (intent'[i] = "PROCESSING" /\ intent[i] # "COMPLETED")
  <2>1. Claimable(j) /\ intent' = [intent EXCEPT ![j] = "PROCESSING"]
    BY <1>5 DEF RefundCronStarts
  <2> QED
    BY <2>1 DEF Claimable
<1> QED
  BY <1>1, <1>2, <1>3, <1>4, <1>5, IntentCases

LEMMA ClaimsStep ==
    TypeOK /\ CallsAreMade /\ ClaimsAreAlone /\ [Next]_vars => ClaimsAreAlone'
<1> SUFFICES ASSUME TypeOK, CallsAreMade, ClaimsAreAlone, [Next]_vars
             PROVE  ClaimsAreAlone'
  OBVIOUS
<1>1. ASSUME NEW d \in Calls, call'[d].step = "refund"
      PROVE  intent'[call'[d].intent] = "PROCESSING"
  <2>1. ASSUME call[d].step = "refund", call[d].intent = call'[d].intent
        PROVE  intent'[call'[d].intent] = "PROCESSING"
    <3>1. intent[call[d].intent] = "PROCESSING" /\ call[d].intent \in Intents
      BY <2>1 DEF ClaimsAreAlone, CallsAreMade, CallIsMade, Made
    <3>2. \A c \in Calls : call[c].step = "refund" /\ call[c].intent = call[d].intent => c = d
      BY <2>1 DEF ClaimsAreAlone
    <3> QED
      BY <1>1, <2>1, <3>1, <3>2, IntentStays DEF Idle
  <2>2. ASSUME NEW i, i = call'[d].intent, Claimable(i), i \in Intents,
               intent' = [intent EXCEPT ![i] = "PROCESSING"]
        PROVE  intent'[i] = "PROCESSING"
    BY <2>2 DEF TypeOK
  <2>3. call[d].step = "claim" => call[d].intent \in Intents
    BY DEF CallsAreMade, CallIsMade, MadeOf, Made
  <2> QED
    BY <1>1, <2>1, <2>2, <2>3, RefundCases
<1>2. ASSUME NEW c \in Calls, NEW d \in Calls, call'[c].step = "refund", call'[d].step = "refund",
             call'[c].intent = call'[d].intent
      PROVE  c = d
  BY <1>2, RefundCases DEF ClaimsAreAlone, Claimable
<1> QED
  BY <1>1, <1>2 DEF ClaimsAreAlone

\* Only the end of a refund completes a request.
LEMMA CompletedStep ==
    TypeOK /\ LinkedIsOwn /\ CallsAreMade /\ ClaimsAreAlone /\ CompletedWasRefunded /\ [Next]_vars
        => CompletedWasRefunded'
<1> SUFFICES ASSUME TypeOK, LinkedIsOwn, CallsAreMade, ClaimsAreAlone, CompletedWasRefunded,
                    [Next]_vars, NEW r \in Requests, status'[r] = "COMPLETED"
             PROVE  \E i \in Intents : madeFor'[i] = r /\ intent'[i] = "COMPLETED"
  BY DEF CompletedWasRefunded
<1>1. ASSUME NEW i \in Intents, MadeOf(i, r), intent'[i] = "COMPLETED"
      PROVE  madeFor'[i] = r /\ intent'[i] = "COMPLETED"
  BY <1>1, MadeStays DEF MadeOf
<1>2. CASE status[r] = "COMPLETED"
  <2>1. PICK i \in Intents : madeFor[i] = r /\ intent[i] = "COMPLETED"
    BY <1>2 DEF CompletedWasRefunded
  <2> QED
    BY <1>1, <2>1, IntentStays DEF MadeOf, Made
<1>3. ASSUME NEW c \in Calls, RefundDone(c), status[r] # "COMPLETED"
      PROVE  \E i \in Intents : madeFor'[i] = r /\ intent'[i] = "COMPLETED"
  <2> DEFINE i == call[c].intent
  <2>1. intentOf[r] = i /\ intent' = [intent EXCEPT ![i] = "COMPLETED"]
    BY <1>3 DEF RefundDone, Completes, TypeOK
  <2>2. i \in Intents /\ i # NoIntent
    BY <1>3, NoIntentAssumption DEF CallsAreMade, CallIsMade, Made, RefundDone
  <2>3. MadeOf(i, r)
    BY <2>1, <2>2 DEF LinkedIsOwn
  <2>4. intent'[i] = "COMPLETED"
    BY <2>1, <2>2 DEF TypeOK
  <2> QED
    BY <1>1, <2>2, <2>3, <2>4
<1>4. ASSUME NEW c \in Calls, NEW op, CommitApproved(c, op) PROVE status[r] = "COMPLETED"
  BY <1>4 DEF CommitApproved, TypeOK
<1>5. ASSUME NEW c \in Calls, NEW op, NEW to \in {"REJECTED", "REVERT_REQUESTED", "REVERTED"},
             CommitWithdrawn(c, op, to)
      PROVE  status[r] = "COMPLETED"
  BY <1>5 DEF CommitWithdrawn, TypeOK
<1>6. ASSUME NEW c \in Calls, CommitCreate(c) PROVE status[r] = "COMPLETED"
  BY <1>6 DEF CommitCreate, TypeOK
<1>7. CASE UNCHANGED status
  BY <1>2, <1>7
<1> QED
  BY <1>2, <1>3, <1>4, <1>5, <1>6, <1>7
  DEF Next, vars, BeginCreate, BeginApprove, BeginReject, BeginRevert, BeginDecision, Begin,
      JobStarts, CronStarts, ApproveRefund, RejectRefund, RequestRevert, AllowRevert,
      RefuseRevert, Schedule, Unschedule, ReadRequest, MakeIntent, LinkIntent, Claim,
      RefundCronStarts, RefundFails, Dies, BufferEnds, Cancel

LEMMA RefundInvariant == Spec => []RefundInv
<1>1. Init => RefundInv
  <2> SUFFICES ASSUME Init PROVE RefundInv
    OBVIOUS
  <2> QED
    BY InitType DEF Init, RefundInv, LinkedIsOwn, UnmadeIsFree, CallsAreMade, CallIsMade, ClaimsAreAlone,
       CompletedWasRefunded, Idle
<1>2. RefundInv /\ [Next]_vars => RefundInv'
  BY NextType, LinkedStep, UnmadeStep, CallsMadeStep, ClaimsStep, CompletedStep DEF RefundInv
<1> QED
  BY <1>1, <1>2, PTL DEF Spec

-----------------------------------------------------------------------------
(* What holds as long as the handlers keep apart.                          *)

\* What has been disturbed stays so.
LEMMA StaysCalm == ASSUME [Next]_vars, ~disturbed' PROVE ~disturbed
<1>1. CASE UNCHANGED disturbed
  BY <1>1
<1>2. CASE \E x : disturbed' = (disturbed \/ x)
  BY <1>2
<1>3. CASE disturbed' = TRUE
  BY <1>3
<1> QED
  BY <1>1, <1>2, <1>3
  DEF Next, vars, BeginCreate, BeginApprove, BeginReject, BeginRevert, BeginDecision, Begin,
      JobStarts, CronStarts, CommitCreate, ApproveRefund, RejectRefund, RequestRevert, AllowRevert,
      RefuseRevert, CommitApproved, CommitWithdrawn, Schedule, Unschedule, ReadRequest, MakeIntent,
      LinkIntent, Claim, RefundCronStarts, RefundDone, RefundFails, Dies, BufferEnds, Cancel

\* A call of the others than the refund cron is the only one.
LEMMA OnlyOne ==
    ASSUME CallsAreMade, Alone, NEW c \in Calls, call[c].by \notin {"none", "refundCron"}
    PROVE  \A d \in Calls : d # c =>
              call[d].step \in {"idle", "refund"} /\ call[d].by \in {"none", "refundCron"}
  BY DEF Alone, Others, CallsAreMade, CallIsMade

\* A call in one of these steps is of the others.
LEMMA OfOthers ==
    ASSUME CallsAreMade, NEW c \in Calls, call[c].step \notin {"idle", "refund"}
    PROVE  call[c].by \notin {"none", "refundCron"} /\ call[c].request \in Requests
  BY DEF CallsAreMade, CallIsMade

\* The actions that start a call, and those that continue the only one.
Starts(c, r) ==
    \/ BeginCreate(c, r) \/ BeginApprove(c, r) \/ BeginReject(c, r) \/ BeginRevert(c, r)
    \/ BeginDecision(c, r) \/ JobStarts(c, r) \/ CronStarts(c, r)

Writes(c) ==
    \/ CommitCreate(c)
    \/ \E op \in {"approve", "refuse"} : CommitApproved(c, op)
    \/ CommitWithdrawn(c, "reject", "REJECTED") \/ CommitWithdrawn(c, "revert", "REVERT_REQUESTED")
    \/ CommitWithdrawn(c, "allow", "REVERTED")
    \/ Schedule(c) \/ Unschedule(c)
    \/ ReadRequest(c) \/ MakeIntent(c) \/ LinkIntent(c) \/ Claim(c)

\* In a calm step a call starts when there is none, the only one goes on or dies,
\* or none of the others does anything.
LEMMA CalmCases ==
    ASSUME RefundInv, Alone, [Next]_vars, ~disturbed'
    PROVE  \/ \E c \in Calls, r \in Requests : Starts(c, r) /\ Others = {}
           \/ \E c \in Calls : Writes(c) /\ call[c].by \notin {"none", "refundCron"}
                               /\ call[c].request \in Requests
           \/ \E c \in Calls : RefundDone(c) \/ RefundFails(c)
           \/ \E c \in Calls : Dies(c) /\ ~Torn(c)
           \/ \E c \in Calls, i \in Intents : RefundCronStarts(c, i)
           \/ \E r \in Requests : BufferEnds(r)
           \/ Cancel /\ Others = {} /\ NoneOpen
           \/ UNCHANGED vars
<1>1. ASSUME NEW c \in Calls, NEW r \in Requests, Starts(c, r) PROVE Others = {}
  BY <1>1 DEF Starts, BeginCreate, BeginApprove, BeginReject, BeginRevert, BeginDecision, Begin,
     JobStarts, CronStarts
<1>2. ASSUME NEW c \in Calls, Writes(c)
      PROVE  call[c].by \notin {"none", "refundCron"} /\ call[c].request \in Requests
  BY <1>2, OfOthers DEF RefundInv, Writes, CommitCreate, CommitApproved, CommitWithdrawn, Schedule,
     Unschedule, ReadRequest, MakeIntent, LinkIntent, Claim, Go
<1>3. ASSUME NEW c \in Calls, Dies(c) PROVE ~Torn(c)
  BY <1>3 DEF Dies
<1>4. CASE Cancel
  BY <1>4 DEF Cancel, NoneOpen
<1> QED
  BY <1>1, <1>2, <1>3, <1>4
  DEF Next, Starts, Writes, ApproveRefund, RejectRefund, RequestRevert, AllowRevert, RefuseRevert

\* A handler starts only when there is none.
LEMMA AloneStep ==
    ASSUME RefundInv, Alone, [Next]_vars, ~disturbed'
    PROVE  Alone'
<1> USE DEF RefundInv, TypeOK
<1>1. ASSUME NEW c \in Calls, NEW r \in Requests, Starts(c, r), Others = {} PROVE Alone'
  <2>1. \A d \in Calls : d # c => call'[d] = call[d]
    BY <1>1 DEF Starts, BeginCreate, BeginApprove, BeginReject, BeginRevert, BeginDecision, Begin,
       JobStarts, CronStarts, Start
  <2> QED
    BY <1>1, <2>1 DEF Alone, Others
<1>2. ASSUME NEW c \in Calls, Writes(c) PROVE Others' \subseteq Others
  <2> SUFFICES ASSUME NEW d \in Calls PROVE call'[d].by \in {call[d].by, "none"}
    BY DEF Others
  <2>1. CASE \E op : CommitApproved(c, op)
    <3>1. call'[d] \in {call[d], [call[d] EXCEPT !.step = "schedule", !.own = TRUE],
                        [call[d] EXCEPT !.own = FALSE]}
      <4>1. PICK op : CommitApproved(c, op)
        BY <2>1
      <4>2. CASE d = c
        BY <4>1, <4>2 DEF CommitApproved
      <4>3. CASE d # c
        BY <4>1, <4>3 DEF CommitApproved
      <4> QED
        BY <4>2, <4>3
    <3>2. call[d] \in Call
      OBVIOUS
    <3> QED
      BY <3>1, <3>2 DEF Call
  <2>2. CASE \E op, to : CommitWithdrawn(c, op, to)
    BY <2>2 DEF CommitWithdrawn, Call, Idle
  <2>3. CASE ReadRequest(c) \/ MakeIntent(c)
    <3>1. PICK s, i : call' \in {[call EXCEPT ![c].step = s, ![c].intent = i],
                                 [call EXCEPT ![c] = Idle]}
      BY <2>3 DEF ReadRequest, MakeIntent, Finish
    <3>2. call[c] \in Call
      OBVIOUS
    <3> QED
      BY <3>1, <3>2 DEF Call, Idle
  <2>4. CASE CommitCreate(c) \/ Schedule(c) \/ Unschedule(c) \/ LinkIntent(c) \/ Claim(c)
    BY <2>4 DEF CommitCreate, Schedule, Unschedule, LinkIntent, Claim, Go, Finish, Idle, Call
  <2> QED
    BY <1>2, <2>1, <2>2, <2>3, <2>4 DEF Writes
<1>3. ASSUME NEW c \in Calls, RefundDone(c) \/ RefundFails(c) \/ Dies(c)
      PROVE  Others' \subseteq Others
  BY <1>3 DEF RefundDone, RefundFails, Dies, Finish, Idle, Others
<1>4. ASSUME NEW c \in Calls, NEW i \in Intents, RefundCronStarts(c, i) PROVE Others' \subseteq Others
  BY <1>4 DEF RefundCronStarts, Idle, Others
<1>5. CASE UNCHANGED call
  BY <1>5 DEF Others, Alone
<1> QED
  BY <1>1, <1>2, <1>3, <1>4, <1>5, CalmCases DEF Alone, BufferEnds, Cancel, vars

\* What the only call has found, where it writes.
LEMMA Found ==
    ASSUME RefundInv, Calm, NEW c \in Calls
    PROVE  CallFits(call[c]) /\ (call[c].step # "unschedule" =>
              \A r \in Requests : status[r] \in {"APPROVED", "COMPLETED"} \/ job[r] = "none"
                                  \/ call[c].by \in {"none", "refundCron"})
  BY OnlyOne DEF RefundInv, Calm, CallsFit, JobsFit, JobFits

\* Only a creation opens a request, when none is open.
LEMMA OneOpenStep ==
    ASSUME RefundInv, Calm, [Next]_vars, ~disturbed'
    PROVE  OneOpen'
<1> USE DEF RefundInv, TypeOK
<1> DEFINE NoNewOpen == \A r \in Requests :
              status'[r] \notin {"NONE", "REJECTED"} => status[r] \notin {"NONE", "REJECTED"}
<1>1. ASSUME NoNewOpen PROVE OneOpen'
  BY <1>1 DEF Calm, OneOpen
<1>2. ASSUME NEW c \in Calls, CommitCreate(c) PROVE OneOpen'
  <2>1. NoneOpen
    BY <1>2, Found DEF CallFits, CommitCreate
  <2> QED
    BY <1>2, <2>1 DEF OneOpen, NoneOpen, CommitCreate
<1>3. ASSUME NEW c \in Calls, NEW op \in {"approve", "refuse"}, CommitApproved(c, op)
      PROVE  NoNewOpen
  <2>1. status[call[c].request] \notin {"NONE", "REJECTED"}
    BY <1>3, Found DEF CallFits, CommitApproved, Editable
  <2> QED
    BY <1>3, <2>1 DEF CommitApproved
<1>4. ASSUME NEW c \in Calls, NEW op \in {"reject", "revert", "allow"}, NEW to,
             CommitWithdrawn(c, op, to)
      PROVE  NoNewOpen
  <2>1. status[call[c].request] \notin {"NONE", "REJECTED"}
    BY <1>4, Found DEF CallFits, CommitWithdrawn, Editable
  <2> QED
    BY <1>4, <2>1 DEF CommitWithdrawn
<1>5. ASSUME NEW c \in Calls, RefundDone(c) PROVE NoNewOpen
  BY <1>5 DEF RefundDone, Completes
<1>6. ASSUME UNCHANGED status PROVE NoNewOpen
  BY <1>6
<1> QED
  BY <1>1, <1>2, <1>3, <1>4, <1>5, <1>6, CalmCases
  DEF Calm, Starts, BeginCreate, BeginApprove, BeginReject, BeginRevert, BeginDecision, Begin,
      JobStarts, CronStarts, Writes, Schedule, Unschedule, ReadRequest, MakeIntent, LinkIntent,
      Claim, RefundCronStarts, RefundFails, Dies, BufferEnds, Cancel, vars

\* A job that has got as far as this finalises a request that is approved, or has
\* been completed since, and whose buffer is over.
LEMMA JobIsDue ==
    ASSUME RefundInv, Calm, NEW c \in Calls, call[c].by = "job", ~Torn(c)
    PROVE  LET r == call[c].request IN
           r \in Requests /\ buffer[r] # "running" /\ status[r] \in {"APPROVED", "COMPLETED"}
<1> DEFINE r == call[c].request
<1>1. CallIsMade(call[c]) /\ CallFits(call[c])
  BY DEF RefundInv, CallsAreMade, Calm, CallsFit
<1>2. call[c].step \in {"read", "make", "claim", "refund"} /\ r \in Requests
  BY <1>1 DEF CallIsMade, Torn
<1>3. CASE call[c].step \in {"read", "make"}
  BY <1>1, <1>2, <1>3 DEF CallFits
<1>4. CASE call[c].step \in {"claim", "refund"}
  <2>1. MadeOf(call[c].intent, r)
    BY <1>1, <1>4 DEF CallIsMade
  <2> QED
    BY <1>2, <2>1, NoRequestAssumption DEF Calm, IntentsFit, IntentFits, MadeOf, Made
<1> QED
  BY <1>2, <1>3, <1>4

\* A job finds the buffer over when it starts; no job outlives its request's approval.
LEMMA JobsFitStep ==
    ASSUME RefundInv, Calm, [Next]_vars, ~disturbed'
    PROVE  JobsFit'
<1> USE DEF RefundInv, TypeOK
<1>1. ASSUME NEW c \in Calls, NEW q \in Requests, Starts(c, q), Others = {} PROVE JobsFit'
  <2>1. \A r \in Requests : /\ job[r] # "active"
                            /\ job[r] = "none" \/ status[r] \in {"APPROVED", "COMPLETED"}
    BY <1>1, OfOthers DEF Calm, JobsFit, JobFits, Others
  <2>2. UNCHANGED rowVars
    BY <1>1 DEF Starts, BeginCreate, BeginApprove, BeginReject, BeginRevert, BeginDecision, Begin,
       JobStarts, CronStarts
  <2>3. CASE UNCHANGED job
    BY <2>1, <2>2, <2>3 DEF Calm, JobsFit, JobFits
  <2>4. CASE JobStarts(c, q)
    <3>1. job' = [job EXCEPT ![q] = "active"] /\ job[q] = "loose"
      BY <2>4 DEF JobStarts
    <3>2. call'[c].by = "job" /\ call'[c].request = q
      BY <2>4 DEF JobStarts, Start, Idle
    <3> QED
      BY <2>1, <2>2, <3>1, <3>2 DEF Calm, JobsFit, JobFits
  <2> QED
    BY <1>1, <2>3, <2>4 DEF Starts, BeginCreate, BeginApprove, BeginReject, BeginRevert,
       BeginDecision, Begin, CronStarts
<1>2. ASSUME NEW c \in Calls, Writes(c), call[c].by \notin {"none", "refundCron"},
             call[c].request \in Requests
      PROVE  JobsFit'
  <2> DEFINE q == call[c].request
  <2>1. CallFits(call[c])
    BY Found
  <2>2. \A r \in Requests : job[r] = "active" => call[c].by = "job" /\ r = q
    BY <1>2, OnlyOne DEF Calm, JobsFit, JobFits
  <2>3. \A r \in Requests : job[r] = "none" \/ status[r] \in {"APPROVED", "COMPLETED"}
                            \/ (call[c].step = "unschedule" /\ r = q)
    BY <1>2, OnlyOne DEF Calm, JobsFit, JobFits
  <2>4. \A r \in Requests : job[r] = "loose" => buffer[r] # "running"
    BY DEF Calm, JobsFit, JobFits
  <2>5. call[c].by = "job" => call[c].step \in {"read", "make", "link", "claim"}
    BY <1>2 DEF CallsAreMade, CallIsMade, Writes, CommitCreate, CommitApproved, CommitWithdrawn,
       Schedule, Unschedule, ReadRequest, MakeIntent, LinkIntent, Claim, Go
  <2>6. CASE CommitCreate(c)
    <3>1. job[q] = "none"
      BY <1>2, <2>1, <2>3, <2>6 DEF CommitCreate, CallFits, NoneOpen
    <3> QED
      BY <1>2, <2>2, <2>3, <2>4, <2>5, <2>6, <3>1 DEF CommitCreate, JobsFit, JobFits
  <2>7. ASSUME NEW op \in {"approve", "refuse"}, CommitApproved(c, op) PROVE JobsFit'
    <3>1. job[q] = "none"
      BY <1>2, <2>1, <2>3, <2>7 DEF CommitApproved, CallFits, Editable
    <3>2. job' = job /\ status' = [status EXCEPT ![q] = "APPROVED"]
          /\ buffer' = [buffer EXCEPT ![q] = "running"]
      BY <2>7, <3>1 DEF CommitApproved, Loosened
    <3> QED
      BY <1>2, <2>2, <2>3, <2>4, <2>5, <2>7, <3>1, <3>2 DEF CommitApproved, JobsFit, JobFits
  <2>8. ASSUME NEW op \in {"reject", "revert"}, NEW to, CommitWithdrawn(c, op, to) PROVE JobsFit'
    <3>1. /\ status' = [status EXCEPT ![q] = to] /\ buffer' = [buffer EXCEPT ![q] = "none"]
          /\ \A r \in Requests : /\ r # q => job'[r] = job[r]
                                 /\ job[r] # "active" => job'[r] # "active"
      BY <2>8 DEF CommitWithdrawn, Loosened
    <3>2. call'[c] = [call[c] EXCEPT !.step = "unschedule"]
      BY <2>8 DEF CommitWithdrawn
    <3>3. call'[c].step = "unschedule" /\ call'[c].request = q
      BY <3>2 DEF Call
    <3>4. \A r \in Requests : job[r] # "active"
      BY <2>2, <2>5, <2>8 DEF CommitWithdrawn
    <3> QED
      BY <1>2, <2>3, <2>4, <2>8, <3>1, <3>3, <3>4 DEF CommitWithdrawn, JobsFit, JobFits
  <2>9. CASE CommitWithdrawn(c, "allow", "REVERTED")
    <3>1. job[q] = "none"
      BY <1>2, <2>1, <2>3, <2>9 DEF CommitWithdrawn, CallFits
    <3>2. job' = job /\ status' = [status EXCEPT ![q] = "REVERTED"]
          /\ buffer' = [buffer EXCEPT ![q] = "none"]
      BY <2>9, <3>1 DEF CommitWithdrawn, Loosened
    <3> QED
      BY <1>2, <2>2, <2>3, <2>4, <2>5, <2>9, <3>1, <3>2 DEF CommitWithdrawn, JobsFit, JobFits
  <2>10. CASE Schedule(c)
    <3>1. status[q] = "APPROVED" /\ call[c].own
      BY <2>1, <2>10 DEF Schedule, CallFits
    <3>2. \A r \in Requests : r # q => job'[r] = job[r]
      BY <2>10 DEF Schedule
    <3>3. /\ job'[q] = "loose" => buffer[q] # "running"
          /\ job'[q] # "active"
      BY <1>2, <2>2, <2>4, <2>5, <2>10, <3>1 DEF Schedule
    <3> QED
      BY <1>2, <2>2, <2>3, <2>4, <2>5, <2>10, <3>1, <3>2, <3>3 DEF Schedule, JobsFit, JobFits
  <2>11. CASE Unschedule(c)
    <3>1. \A r \in Requests : r # q => job'[r] = job[r]
      BY <2>11 DEF Unschedule, Removed
    <3>2. job'[q] = "none"
      BY <1>2, <2>2, <2>5, <2>11 DEF Unschedule, Removed
    <3> QED
      BY <1>2, <2>2, <2>3, <2>4, <2>5, <2>11, <3>1, <3>2 DEF Unschedule, JobsFit, JobFits
  <2>12. CASE ReadRequest(c) \/ MakeIntent(c) \/ LinkIntent(c) \/ Claim(c)
    <3>1. UNCHANGED <<status, buffer>> /\ call[c].step # "unschedule"
      BY <2>12 DEF ReadRequest, MakeIntent, LinkIntent, Claim, Go
    <3>2. \/ job' = JobAfter(c)
          \/ job' = job /\ call'[c].by = call[c].by /\ call'[c].request = q
      BY <2>12 DEF ReadRequest, MakeIntent, LinkIntent, Claim, Go, Call
    <3>3. CASE job' = JobAfter(c)
      BY <1>2, <2>2, <2>3, <2>4, <3>1, <3>3 DEF JobAfter, JobsFit, JobFits
    <3>4. CASE job' = job /\ call'[c].by = call[c].by /\ call'[c].request = q
      BY <1>2, <2>2, <2>3, <2>4, <3>1, <3>4 DEF JobsFit, JobFits
    <3> QED
      BY <3>2, <3>3, <3>4
  <2> QED
    BY <1>2, <2>6, <2>7, <2>8, <2>9, <2>10, <2>11, <2>12 DEF Writes
<1>3. ASSUME NEW c \in Calls, RefundDone(c) \/ RefundFails(c) PROVE JobsFit'
  <2>1. /\ job' = JobAfter(c) /\ call' = [call EXCEPT ![c] = Idle]
        /\ \A r \in Requests : \/ status'[r] = status[r] /\ buffer'[r] = buffer[r]
                               \/ status'[r] = "COMPLETED" /\ buffer'[r] = "none"
    BY <1>3 DEF RefundDone, RefundFails, Finish
  <2>2. call[c].step = "refund"
    BY <1>3 DEF RefundDone, RefundFails
  <2> SUFFICES ASSUME NEW r \in Requests PROVE JobFits(r)'
    BY DEF JobsFit
  <2>3. JobFits(r)
    BY DEF Calm, JobsFit
  <2>4. job'[r] = job[r] \/ job'[r] = "none"
    BY <2>1 DEF JobAfter
  <2>5. job'[r] = "active" => call[c].by # "job" \/ call[c].request # r
    BY <2>1 DEF JobAfter
  <2> QED
    BY <2>1, <2>2, <2>3, <2>4, <2>5 DEF JobFits
<1>4. ASSUME NEW c \in Calls, NEW i \in Intents, RefundCronStarts(c, i) PROVE JobsFit'
  <2>1. UNCHANGED <<status, buffer, job>> /\ \A d \in Calls : d # c => call'[d] = call[d]
    BY <1>4 DEF RefundCronStarts
  <2>2. call[c].step = "idle" /\ call[c].by = "none"
    BY <1>4 DEF RefundCronStarts, Idle
  <2> QED
    BY <2>1, <2>2 DEF Calm, JobsFit, JobFits
<1>5. ASSUME NEW q \in Requests, BufferEnds(q) PROVE JobsFit'
  <2>1. UNCHANGED <<status, call>> /\ buffer' = [buffer EXCEPT ![q] = "over"]
        /\ job' = Loosened(q)
    BY <1>5 DEF BufferEnds
  <2>2. \A r \in Requests : \/ job'[r] = job[r]
                            \/ r = q /\ job[r] = "timed" /\ job'[r] = "loose"
    BY <2>1 DEF Loosened
  <2> QED
    BY <2>1, <2>2 DEF Calm, JobsFit, JobFits
<1>6. CASE UNCHANGED <<rowVars, job, call>>
  BY <1>6 DEF Calm, JobsFit, JobFits
<1>7. ASSUME NEW c \in Calls, Dies(c), ~Torn(c) PROVE JobsFit'
  <2>1. UNCHANGED rowVars /\ call' = [call EXCEPT ![c] = Idle] /\ call[c].step # "unschedule"
    BY <1>7 DEF Dies, Finish, Torn
  <2> SUFFICES ASSUME NEW r \in Requests PROVE JobFits(r)'
    BY DEF JobsFit
  <2>2. JobFits(r)
    BY DEF Calm, JobsFit
  <2>3. CASE call[c].by = "job" /\ call[c].request = r
    <3>1. job'[r] \in {"loose", "none"}
      BY <1>7, <2>3 DEF Dies
    <3>2. buffer[r] # "running" /\ status[r] \in {"APPROVED", "COMPLETED"}
      BY <1>7, <2>3, JobIsDue
    <3> QED
      BY <2>1, <3>1, <3>2 DEF JobFits
  <2>4. CASE ~(call[c].by = "job" /\ call[c].request = r)
    <3>1. job'[r] = job[r]
      BY <1>7, <2>4 DEF Dies
    <3> QED
      BY <2>1, <2>2, <2>4, <3>1 DEF JobFits
  <2> QED
    BY <2>3, <2>4
<1> QED
  BY <1>1, <1>2, <1>3, <1>4, <1>5, <1>6, <1>7, CalmCases DEF Calm, Cancel, vars

\* What a handler has found of its request is still so when it goes on.
LEMMA CallsFitStep ==
    ASSUME RefundInv, Calm, [Next]_vars, ~disturbed'
    PROVE  CallsFit'
<1> USE DEF RefundInv, TypeOK
<1> DEFINE Idling == {"idle", "refund", "unschedule"}
<1>1. ASSUME NEW d \in Calls, call'[d].step \in Idling PROVE CallFits(call[d])'
  BY <1>1 DEF CallFits
<1>2. ASSUME NEW c \in Calls, NEW r \in Requests, Starts(c, r), Others = {} PROVE CallsFit'
  <2>1. \A d \in Calls : d # c => call'[d] = call[d] /\ call[d].step \in Idling
    BY <1>2, OfOthers
    DEF Others, Starts, BeginCreate, BeginApprove, BeginReject, BeginRevert, BeginDecision, Begin,
        JobStarts, CronStarts, Start
  <2>2. UNCHANGED <<rowVars, intentVars>>
    BY <1>2 DEF Starts, BeginCreate, BeginApprove, BeginReject, BeginRevert, BeginDecision, Begin,
       JobStarts, CronStarts
  <2>3. ASSUME NEW s, NEW by, Start(c, r, by, s)
        PROVE  call'[c].step = s /\ call'[c].request = r /\ call'[c].by = by
    BY <2>3 DEF Start, Idle
  <2>4. CASE BeginCreate(c, r)
    <3>1. \A i \in Intents : intent[i] = "NONE"
      BY <1>2, <2>4 DEF BeginCreate, NotRefunded, Unfinished
    <3>2. NoneOpen
      BY <2>4 DEF BeginCreate, NotRefunded, NoneOpen, CompletedWasRefunded, Active, Editable, Status
    <3>3. CallFits(call[c])'
      BY <2>2, <2>3, <2>4, <3>1, <3>2 DEF BeginCreate, CallFits, NoneOpen
    <3> QED
      BY <1>1, <2>1, <3>3 DEF CallsFit
  <2>5. CASE BeginApprove(c, r) \/ BeginReject(c, r) \/ BeginDecision(c, r)
    <3>1. CallFits(call[c])'
      BY <2>2, <2>3, <2>5 DEF BeginApprove, BeginReject, BeginDecision, Begin, CallFits
    <3> QED
      BY <1>1, <2>1, <3>1 DEF CallsFit
  <2>6. CASE BeginRevert(c, r)
    <3>1. \A i \in Intents : ~MadeOf(i, r)
      BY <2>6, NoRequestAssumption
      DEF BeginRevert, MayRevert, MadeOf, Calm, IntentsFit, IntentFits
    <3>2. CallFits(call[c])'
      BY <2>2, <2>3, <2>6, <3>1 DEF BeginRevert, MayRevert, Begin, CallFits, MadeOf, Made
    <3> QED
      BY <1>1, <2>1, <3>2 DEF CallsFit
  <2>7. CASE JobStarts(c, r) \/ CronStarts(c, r)
    <3>1. buffer[r] # "running"
      BY <2>7 DEF JobStarts, CronStarts, LeftOver, Calm, JobsFit, JobFits
    <3>2. JobStarts(c, r) => status[r] \in {"APPROVED", "COMPLETED"}
      BY <1>2, OfOthers DEF JobStarts, Others, Calm, JobsFit, JobFits
    <3>3. CallFits(call[c])'
      <4>1. call'[c].step = "read" /\ call'[c].request = r
            /\ call'[c].by = IF JobStarts(c, r) THEN "job" ELSE "cron"
        BY <2>3, <2>7 DEF JobStarts, CronStarts
      <4> QED
        BY <2>2, <3>1, <3>2, <4>1 DEF CallFits
    <3> QED
      BY <1>1, <2>1, <3>3 DEF CallsFit
  <2> QED
    BY <1>2, <2>4, <2>5, <2>6, <2>7 DEF Starts
<1>3. ASSUME NEW c \in Calls, Writes(c), call[c].by \notin {"none", "refundCron"},
             call[c].request \in Requests
      PROVE  CallsFit'
  <2> DEFINE q == call[c].request
  <2>1. CallFits(call[c])
    BY Found
  <2>2. \A d \in Calls : d # c => call[d].step \in {"idle", "refund"}
    BY <1>3, OnlyOne DEF Calm
  <2>3. ASSUME \A d \in Calls : d # c => call'[d].step = call[d].step, CallFits(call[c])'
        PROVE  CallsFit'
    BY <1>1, <2>2, <2>3 DEF CallsFit
  <2>4. CASE CommitCreate(c) \/ Schedule(c) \/ Unschedule(c) \/ Claim(c)
    <3>1. \A d \in Calls : d # c => call'[d] = call[d]
      BY <2>4 DEF CommitCreate, Schedule, Unschedule, Claim, Go, Finish
    <3>2. call'[c].step \in Idling
      BY <2>4 DEF CommitCreate, Schedule, Unschedule, Claim, Go, Finish, Idle, Call
    <3> QED
      BY <1>1, <2>3, <3>1, <3>2
  <2>5. ASSUME NEW op \in {"approve", "refuse"}, CommitApproved(c, op) PROVE CallsFit'
    <3>1. ASSUME NEW d \in Calls, d # c PROVE call'[d].step = call[d].step
      <4>1. call'[d] \in {call[d], [call[d] EXCEPT !.own = FALSE]}
        BY <2>5, <3>1 DEF CommitApproved
      <4> QED
        BY <4>1 DEF Call
    <3>2. call'[c] = [call[c] EXCEPT !.step = "schedule", !.own = TRUE]
      BY <2>5 DEF CommitApproved
    <3>3. call'[c].step = "schedule" /\ call'[c].request = q /\ call'[c].own
      BY <3>2 DEF Call
    <3>4. status'[q] = "APPROVED"
      BY <1>3, <2>5 DEF CommitApproved
    <3> QED
      BY <2>3, <3>1, <3>3, <3>4 DEF CallFits
  <2>6. ASSUME NEW op \in {"reject", "revert", "allow"}, NEW to, CommitWithdrawn(c, op, to)
        PROVE  CallsFit'
    <3>1. ASSUME NEW d \in Calls, d # c PROVE call'[d].step = call[d].step
      <4>1. call'[d] \in {call[d], [call[d] EXCEPT !.own = FALSE]}
        BY <2>6, <3>1 DEF CommitWithdrawn
      <4> QED
        BY <4>1 DEF Call
    <3>2. call'[c] \in {Idle, [call[c] EXCEPT !.step = "unschedule"]}
      BY <2>6 DEF CommitWithdrawn
    <3>3. call'[c].step \in Idling
      BY <3>2 DEF Call, Idle
    <3> QED
      BY <1>1, <2>3, <3>1, <3>3
  <2>7. CASE ReadRequest(c)
    <3>1. \A d \in Calls : d # c => call'[d] = call[d]
      BY <2>7 DEF ReadRequest, Finish
    <3>2. CASE call'[c] = Idle
      BY <1>1, <2>3, <3>1, <3>2 DEF Idle
    <3>3. CASE call'[c] # Idle
      <4>1. /\ call[c].step = "read" /\ status[q] = "APPROVED" /\ UNCHANGED rowVars
            /\ call' = [call EXCEPT ![c].step = NextStep(q), ![c].intent = intentOf[q]]
        BY <2>7, <3>3 DEF ReadRequest, Finish
      <4>2. call'[c].step = NextStep(q) /\ call'[c].request = q
        BY <4>1 DEF Call
      <4>3. CallFits(call[c])'
        BY <2>1, <4>1, <4>2 DEF CallFits, NextStep
      <4> QED
        BY <2>3, <3>1, <4>3
    <3> QED
      BY <3>2, <3>3
  <2>8. CASE MakeIntent(c)
    <3>1. /\ call[c].step = "make" /\ UNCHANGED rowVars
          /\ call' = [call EXCEPT ![c].step = "link", ![c].intent = Fresh]
      BY <2>8 DEF MakeIntent
    <3>2. call'[c].step = "link" /\ call'[c].request = q
      BY <3>1 DEF Call
    <3>3. CallFits(call[c])'
      BY <2>1, <3>1, <3>2 DEF CallFits
    <3> QED
      BY <2>3, <3>1, <3>3
  <2>9. CASE LinkIntent(c)
    <3>1. /\ call[c].step = "link" /\ UNCHANGED <<status, buffer>>
          /\ call' = [call EXCEPT ![c].step = "claim"]
      BY <2>9 DEF LinkIntent, Go
    <3>2. call'[c].step = "claim" /\ call'[c].request = q
      BY <3>1 DEF Call
    <3>3. CallFits(call[c])'
      BY <2>1, <3>1, <3>2 DEF CallFits
    <3> QED
      BY <2>3, <3>1, <3>3
  <2> QED
    BY <1>3, <2>4, <2>5, <2>6, <2>7, <2>8, <2>9 DEF Writes
<1>4. ASSUME NEW c \in Calls, call[c].step = "refund", RefundDone(c) \/ RefundFails(c)
      PROVE  CallsFit'
  <2>1. call' = [call EXCEPT ![c] = Idle] /\ Made(call[c].intent)
    BY <1>4 DEF RefundDone, RefundFails, Finish, CallsAreMade, CallIsMade
  <2>2. CASE call[c].by # "refundCron"
    <3>1. \A d \in Calls : call'[d].step \in Idling
      BY <1>4, <2>1, <2>2, OnlyOne DEF Calm, CallsAreMade, CallIsMade, Idle
    <3> QED
      BY <1>1, <3>1 DEF CallsFit
  <2>3. CASE call[c].by = "refundCron"
    <3>1. UNCHANGED rowVars
      BY <1>4, <2>3 DEF RefundDone, RefundFails
    <3>2. \A i \in Intents, r \in Requests : MadeOf(i, r)' => MadeOf(i, r)
      BY <1>4, <2>1 DEF RefundDone, RefundFails, MadeOf, Made
    <3> SUFFICES ASSUME NEW d \in Calls, call'[d].step \notin Idling PROVE CallFits(call[d])'
      BY <1>1 DEF CallsFit
    <3>3. call'[d] = call[d] /\ CallFits(call[d]) /\ call[d].request \in Requests
      BY <2>1, OfOthers DEF Calm, CallsFit, Idle
    <3>4. call[d].step # "create"
      BY <2>1, <3>3 DEF CallFits, Made
    <3> QED
      BY <3>1, <3>2, <3>3, <3>4 DEF CallFits
  <2> QED
    BY <2>2, <2>3
<1>5. ASSUME NEW c \in Calls, NEW i \in Intents, RefundCronStarts(c, i) PROVE CallsFit'
  <2>1. /\ UNCHANGED <<rowVars, madeFor>> /\ intent' = [intent EXCEPT ![i] = "PROCESSING"]
        /\ intent[i] # "NONE"
        /\ \A d \in Calls : d # c => call'[d] = call[d]
    BY <1>5 DEF RefundCronStarts, Claimable
  <2>2. call'[c].step = "refund"
    BY <1>5 DEF RefundCronStarts, Idle
  <2>3. \A j \in Intents, r \in Requests : MadeOf(j, r)' => MadeOf(j, r)
    BY <2>1 DEF MadeOf, Made
  <2> SUFFICES ASSUME NEW d \in Calls, call'[d].step \notin Idling PROVE CallFits(call[d])'
    BY <1>1 DEF CallsFit
  <2>4. call'[d] = call[d] /\ CallFits(call[d]) /\ call[d].request \in Requests
    BY <2>1, <2>2, OfOthers DEF Calm, CallsFit
  <2>5. call[d].step # "create"
    BY <2>1, <2>4 DEF CallFits
  <2> QED
    BY <2>1, <2>3, <2>4, <2>5 DEF CallFits
<1>6. ASSUME NEW r \in Requests, BufferEnds(r) PROVE CallsFit'
  <2>1. UNCHANGED <<status, intentOf, intentVars, call>> /\ buffer' = [buffer EXCEPT ![r] = "over"]
    BY <1>6 DEF BufferEnds
  <2> SUFFICES ASSUME NEW d \in Calls, call'[d].step \notin Idling PROVE CallFits(call[d])'
    BY <1>1 DEF CallsFit
  <2>2. CallFits(call[d]) /\ call[d].request \in Requests
    BY <2>1, OfOthers DEF Calm, CallsFit
  <2> QED
    BY <2>1, <2>2 DEF CallFits, MadeOf, Made, NoneOpen
<1>7. ASSUME Cancel, Others = {} PROVE CallsFit'
  <2>1. UNCHANGED call /\ \A d \in Calls : call[d].step \in Idling
    BY <1>7, OfOthers DEF Cancel, Others
  <2> QED
    BY <1>1, <2>1 DEF CallsFit
<1>8. CASE UNCHANGED vars
  BY <1>8 DEF vars, Calm, CallsFit, CallFits, MadeOf, Made, NoneOpen
<1>9. ASSUME NEW c \in Calls, Dies(c) PROVE CallsFit'
  <2>1. UNCHANGED <<rowVars, intentVars>> /\ call' = [call EXCEPT ![c] = Idle]
    BY <1>9 DEF Dies, Finish
  <2> SUFFICES ASSUME NEW d \in Calls, d # c PROVE CallFits(call[d])'
    BY <1>1, <2>1 DEF CallsFit, Idle
  <2>2. call'[d] = call[d] /\ CallFits(call[d])
    BY <2>1 DEF Calm, CallsFit
  <2> QED
    BY <2>1, <2>2 DEF CallFits, MadeOf, Made, NoneOpen
<1> QED
  BY <1>2, <1>3, <1>4, <1>5, <1>6, <1>7, <1>8, <1>9, CalmCases DEF Calm, RefundDone, RefundFails

\* When a finalisation makes an intent there is none yet; nor when the booking is
\* cancelled and no request is open.
LEMMA NothingMade ==
    ASSUME RefundInv, Calm, NEW i \in Intents, Made(i),
           \/ \E c \in Calls : call[c].step = "make"
           \/ Cancel /\ NoneOpen
    PROVE  FALSE
<1>1. IntentFits(i)
  BY DEF Calm, IntentsFit
<1>2. ASSUME NEW c \in Calls, call[c].step = "make" PROVE FALSE
  <2>1. /\ call[c].request \in Requests /\ call[c].by \notin {"none", "refundCron"}
        /\ status[call[c].request] = "APPROVED" /\ intentOf[call[c].request] = NoIntent
    BY <1>2, OfOthers, Found DEF RefundInv, CallFits
  <2>2. ~NoneOpen
    BY <2>1 DEF NoneOpen
  <2>3. PICK r \in Requests :
           /\ status[r] \in {"APPROVED", "COMPLETED"}
           /\ \/ intentOf[r] = i
              \/ \E d \in Calls : call[d].step = "link"
    BY <1>1, <2>2 DEF IntentFits
  <2>4. r = call[c].request
    BY <2>1, <2>3 DEF Calm, OneOpen
  <2>5. \A d \in Calls : call[d].step # "link"
    BY <1>2, <2>1, OnlyOne DEF Calm, RefundInv
  <2> QED
    BY <2>1, <2>3, <2>4, <2>5, NoIntentAssumption
<1>3. CASE Cancel /\ NoneOpen
  BY <1>1, <1>3 DEF Cancel, NoneOpen, IntentFits, Made
<1> QED
  BY <1>2, <1>3

LEMMA OneIntentStep ==
    ASSUME RefundInv, Calm, [Next]_vars, ~disturbed'
    PROVE  OneIntent'
<1> USE DEF RefundInv, TypeOK
<1>1. ASSUME NEW c \in Calls, MakeIntent(c) PROVE OneIntent'
  <2>1. \A i \in Intents : ~Made(i)
    BY <1>1, NothingMade DEF MakeIntent
  <2> QED
    BY <1>1, <2>1 DEF MakeIntent, OneIntent, Made
<1>2. ASSUME Cancel, NoneOpen PROVE OneIntent'
  <2>1. \A i \in Intents : ~Made(i)
    BY <1>2, NothingMade
  <2> QED
    BY <1>2, <2>1 DEF Cancel, OneIntent, Made
<1>3. ASSUME NEW c \in Calls, Claim(c) \/ RefundDone(c) \/ RefundFails(c)
      PROVE  \A i \in Intents : Made(i)' => Made(i)
  <2>1. Made(call[c].intent)
    BY <1>3 DEF CallsAreMade, CallIsMade, MadeOf, Claim, RefundDone, RefundFails
  <2>2. PICK s : intent' \in {intent, [intent EXCEPT ![call[c].intent] = s]}
    BY <1>3 DEF Claim, RefundDone, RefundFails
  <2> QED
    BY <2>1, <2>2 DEF Made
<1>4. ASSUME NEW c \in Calls, NEW j \in Intents, RefundCronStarts(c, j)
      PROVE  \A i \in Intents : Made(i)' => Made(i)
  BY <1>4 DEF RefundCronStarts, Claimable, Made
<1>5. ASSUME UNCHANGED intentVars PROVE \A i \in Intents : Made(i)' => Made(i)
  BY <1>5 DEF Made
<1>6. ASSUME \A i \in Intents : Made(i)' => Made(i) PROVE OneIntent'
  BY <1>6 DEF Calm, OneIntent
<1>7. Cancel => NoneOpen
  <2>1. ASSUME NEW c \in Calls, Cancel PROVE NoneOpen
    BY <2>1 DEF Cancel, NoneOpen
  <2> QED
    BY CalmCases DEF Calm, Cancel, NoneOpen
<1> QED
  BY <1>1, <1>2, <1>3, <1>4, <1>5, <1>6, <1>7, IntentCases

\* An intent stays the cancellation's, or that of the one request that is open.
LEMMA IntentsFitStep ==
    ASSUME RefundInv, Calm, [Next]_vars, ~disturbed'
    PROVE  IntentsFit'
<1> USE DEF RefundInv, TypeOK
<1>1. ASSUME NEW i \in Intents, Made(i), IntentFits(i),
             \A r \in Requests : status[r] \in {"APPROVED", "COMPLETED"} /\ MadeOf(i, r) =>
                 status'[r] \in {"APPROVED", "COMPLETED"},
             \A r \in Requests : buffer[r] # "running" /\ MadeOf(i, r) => buffer'[r] # "running",
             NoneOpen => NoneOpen',
             \A r \in Requests : intentOf[r] = i => intentOf'[r] = i,
             \A c \in Calls, r \in Requests :
                call[c].step = "link" /\ call[c].request = r /\ call[c].intent = i
                    => call'[c] = call[c] \/ intentOf'[r] = i
      PROVE  IntentFits(i)'
  <2>1. madeFor'[i] = madeFor[i]
    BY <1>1, MadeStays DEF MadeOf
  <2> QED
    BY <1>1, <2>1 DEF IntentFits, MadeOf
<1>2. ASSUME NEW c \in Calls, NEW q \in Requests, Starts(c, q), Others = {} PROVE IntentsFit'
  <2>1. UNCHANGED <<rowVars, intentVars>>
    BY <1>2 DEF Starts, BeginCreate, BeginApprove, BeginReject, BeginRevert, BeginDecision, Begin,
       JobStarts, CronStarts
  <2>2. \A d \in Calls : call[d].step # "link"
    BY <1>2, OfOthers DEF Others
  <2> QED
    BY <1>1, <2>1, <2>2 DEF Calm, IntentsFit, Made, NoneOpen
<1>3. ASSUME NEW c \in Calls, Writes(c), call[c].by \notin {"none", "refundCron"},
             call[c].request \in Requests
      PROVE  IntentsFit'
  <2> DEFINE q == call[c].request
  <2>1. CallFits(call[c])
    BY Found
  <2>2. \A d \in Calls : d # c => call[d].step \in {"idle", "refund"}
    BY <1>3, OnlyOne DEF Calm
  <2>3. CASE CommitCreate(c)
    BY <2>1, <2>3 DEF CommitCreate, CallFits, IntentsFit, Made
  <2>4. ASSUME NEW op \in {"approve", "refuse"}, CommitApproved(c, op) PROVE IntentsFit'
    <3>1. status[q] \in Editable \cup {"REVERT_REQUESTED"} /\ UNCHANGED <<intentVars, intentOf>>
      BY <2>1, <2>4 DEF CommitApproved, CallFits
    <3>2. ASSUME NEW i \in Intents, Made(i)
          PROVE  \A r \in Requests : MadeOf(i, r) => r # q
      BY <3>1, <3>2, NoRequestAssumption DEF Calm, IntentsFit, IntentFits, MadeOf, Editable
    <3>3. \A d \in Calls : call[d].step # "link"
      BY <2>2, <2>4 DEF CommitApproved
    <3>4. ~NoneOpen
      BY <1>3, <3>1 DEF NoneOpen, Editable
    <3>5. \A r \in Requests : r # q => status'[r] = status[r] /\ buffer'[r] = buffer[r]
      BY <2>4 DEF CommitApproved
    <3> QED
      BY <1>1, <3>1, <3>2, <3>3, <3>4, <3>5 DEF Calm, IntentsFit, Made
  <2>5. ASSUME NEW op \in {"reject", "revert", "allow"}, NEW to, CommitWithdrawn(c, op, to)
        PROVE  IntentsFit'
    <3>1. /\ status[q] \in Editable \cup {"REVERT_REQUESTED", "APPROVED"}
          /\ status[q] = "APPROVED" => \A i \in Intents : ~MadeOf(i, q)
          /\ UNCHANGED <<intentVars, intentOf>>
      BY <2>1, <2>5 DEF CommitWithdrawn, CallFits, Editable
    <3>2. ASSUME NEW i \in Intents, Made(i)
          PROVE  \A r \in Requests : MadeOf(i, r) => r # q
      BY <3>1, <3>2, NoRequestAssumption DEF Calm, IntentsFit, IntentFits, MadeOf, Editable
    <3>3. \A d \in Calls : call[d].step # "link"
      BY <2>2, <2>5 DEF CommitWithdrawn
    <3>4. ~NoneOpen
      BY <1>3, <3>1 DEF NoneOpen, Editable
    <3>5. \A r \in Requests : r # q => status'[r] = status[r] /\ buffer'[r] = buffer[r]
      BY <2>5 DEF CommitWithdrawn
    <3> QED
      BY <1>1, <3>1, <3>2, <3>3, <3>4, <3>5 DEF Calm, IntentsFit, Made
  <2>6. CASE Schedule(c) \/ Unschedule(c) \/ ReadRequest(c)
    <3>1. UNCHANGED <<rowVars, intentVars>> /\ \A d \in Calls : call[d].step # "link"
      BY <2>2, <2>6 DEF Schedule, Unschedule, ReadRequest
    <3> QED
      BY <1>1, <3>1 DEF Calm, IntentsFit, Made, NoneOpen
  <2>7. CASE MakeIntent(c)
    <3>1. \A i \in Intents : ~Made(i)
      BY <2>7, NothingMade DEF MakeIntent
    <3>2. Fresh \in Intents
      BY <2>7, FreshType DEF MakeIntent
    <3>3. /\ status[q] = "APPROVED" /\ buffer[q] # "running" /\ UNCHANGED rowVars
      BY <2>1, <2>7 DEF MakeIntent, CallFits
    <3>4. call'[c].step = "link" /\ call'[c].request = q /\ call'[c].intent = Fresh
      BY <2>7 DEF MakeIntent, Call
    <3>5. madeFor'[Fresh] = q
      BY <2>7, <3>2 DEF MakeIntent
    <3>6. \A i \in Intents : Made(i)' => i = Fresh
      BY <2>7, <3>1 DEF MakeIntent, Made
    <3>7. ASSUME NEW i \in Intents, i = Fresh PROVE IntentFits(i)'
      <4>1. /\ madeFor'[i] = q /\ call'[c].intent = i /\ call'[c].step = "link"
            /\ call'[c].request = q
            /\ status'[q] = "APPROVED" /\ buffer'[q] # "running"
        BY <3>3, <3>4, <3>5, <3>7
      <4> QED
        BY <1>3, <4>1 DEF IntentFits
    <3> QED
      BY <3>6, <3>7 DEF IntentsFit
  <2>8. CASE LinkIntent(c)
    <3>1. /\ intentOf' = [intentOf EXCEPT ![q] = call[c].intent] /\ call[c].step = "link"
          /\ UNCHANGED <<status, buffer, intentVars>>
      BY <2>8 DEF LinkIntent, Go
    <3>2. MadeOf(call[c].intent, q)
      BY <3>1 DEF CallsAreMade, CallIsMade
    <3>3. \A i \in Intents : Made(i) => i = call[c].intent
      BY <3>2 DEF Calm, OneIntent, MadeOf, Made
    <3> QED
      BY <1>1, <1>3, <2>2, <3>1, <3>3 DEF Calm, IntentsFit, Made, NoneOpen
  <2>9. CASE Claim(c)
    <3>1. UNCHANGED rowVars /\ UNCHANGED madeFor /\ \A d \in Calls : call[d].step # "link"
      BY <2>2, <2>9 DEF Claim, Go
    <3>2. \A i \in Intents : Made(i)' => Made(i)
      BY <2>9, <2>1 DEF Claim, Claimable, Made
    <3> QED
      BY <1>1, <3>1, <3>2 DEF Calm, IntentsFit, NoneOpen
  <2> QED
    BY <1>3, <2>3, <2>4, <2>5, <2>6, <2>7, <2>8, <2>9 DEF Writes
<1>4. ASSUME NEW c \in Calls, RefundDone(c) \/ RefundFails(c) PROVE IntentsFit'
  <2>1. /\ UNCHANGED <<intentOf, madeFor>>
        /\ \A r \in Requests : \/ status'[r] = status[r] /\ buffer'[r] = buffer[r]
                               \/ status[r] = "APPROVED" /\ status'[r] = "COMPLETED"
                                  /\ buffer'[r] = "none"
        /\ \A d \in Calls : call[d].step = "link" => call'[d] = call[d]
    BY <1>4 DEF RefundDone, RefundFails, Completes, Finish
  <2>2. \A i \in Intents : Made(i)' => Made(i)
    <3>1. Made(call[c].intent)
      BY <1>4 DEF CallsAreMade, CallIsMade, RefundDone, RefundFails
    <3> QED
      BY <1>4, <3>1 DEF RefundDone, RefundFails, Made
  <2> QED
    BY <1>1, <2>1, <2>2 DEF Calm, IntentsFit, NoneOpen
<1>5. ASSUME NEW c \in Calls, NEW j \in Intents, RefundCronStarts(c, j) PROVE IntentsFit'
  <2>1. UNCHANGED rowVars /\ \A d \in Calls : call[d].step = "link" => call'[d] = call[d]
    BY <1>5 DEF RefundCronStarts, Idle
  <2>2. \A i \in Intents : Made(i)' => Made(i)
    BY <1>5 DEF RefundCronStarts, Claimable, Made
  <2> QED
    BY <1>1, <2>1, <2>2 DEF Calm, IntentsFit, NoneOpen
<1>6. ASSUME NEW q \in Requests, BufferEnds(q) PROVE IntentsFit'
  <2>1. UNCHANGED <<status, intentOf, intentVars, call>> /\ buffer' = [buffer EXCEPT ![q] = "over"]
    BY <1>6 DEF BufferEnds
  <2> QED
    BY <1>1, <2>1 DEF Calm, IntentsFit, Made, NoneOpen
<1>7. ASSUME Cancel, NoneOpen PROVE IntentsFit'
  <2>1. \A i \in Intents : ~Made(i)
    BY <1>7, NothingMade
  <2>2. intent[Fresh] = "NONE" /\ Fresh \in Intents
    BY <1>7, FreshType DEF Cancel
  <2>3. \A i \in Intents : Made(i)' => i = Fresh
    BY <1>7, <2>1 DEF Cancel, Made
  <2>4. madeFor'[Fresh] = NoRequest /\ NoneOpen'
    BY <1>7, <2>2 DEF Cancel, UnmadeIsFree, NoneOpen
  <2> QED
    BY <2>3, <2>4 DEF IntentsFit, IntentFits
<1>8. CASE UNCHANGED vars
  BY <1>8 DEF vars, Calm, IntentsFit, IntentFits, Made, NoneOpen
<1>9. ASSUME NEW c \in Calls, Dies(c), ~Torn(c) PROVE IntentsFit'
  <2>1. /\ UNCHANGED <<rowVars, intentVars>>
        /\ \A d \in Calls : call[d].step = "link" => call'[d] = call[d]
    BY <1>9 DEF Dies, Finish, Torn
  <2> QED
    BY <1>1, <2>1 DEF Calm, IntentsFit, Made, NoneOpen
<1> QED
  BY <1>2, <1>3, <1>4, <1>5, <1>6, <1>7, <1>8, <1>9, CalmCases DEF Calm

-----------------------------------------------------------------------------

LEMMA CalmInvariant == Spec => []CalmInv
<1>1. Init => CalmInv
  <2> SUFFICES ASSUME Init PROVE Calm
    BY DEF CalmInv
  <2> QED
    BY DEF Init, Calm, Alone, Others, CallsFit, CallFits, OneOpen, JobsFit, JobFits, IntentsFit,
       OneIntent, Made, Idle
<1>2. RefundInv /\ CalmInv /\ [Next]_vars => CalmInv'
  <2> SUFFICES ASSUME RefundInv, CalmInv, [Next]_vars, ~disturbed' PROVE Calm'
    BY DEF CalmInv
  <2>1. Calm
    BY StaysCalm DEF CalmInv
  <2>2. Alone' /\ CallsFit' /\ OneOpen'
    BY <2>1, AloneStep, CallsFitStep, OneOpenStep DEF Calm
  <2>3. JobsFit' /\ IntentsFit' /\ OneIntent'
    BY <2>1, JobsFitStep, IntentsFitStep, OneIntentStep
  <2> QED
    BY <2>2, <2>3 DEF Calm
<1> QED
  BY <1>1, <1>2, RefundInvariant, PTL DEF Spec

\* The rows of requests and intents, and the handlers, stay of their kinds.
THEOREM Types == Spec => []TypeOK
  BY RefundInvariant, PTL DEF RefundInv

\* However the handlers overlap and die, a request is COMPLETED only after a
\* refund of its own has been made.
THEOREM CompletedRequestsWereRefunded == Spec => []CompletedWasRefunded
  BY RefundInvariant, PTL DEF RefundInv

\* If the handlers keep apart, the booking is refunded once, however many requests
\* there are, however often they are finalised and wherever the finalisations die,
\* except between making the intent and linking it.
THEOREM BookingIsRefundedOnce == Spec => []RefundedOnce
<1>1. CalmInv => RefundedOnce
  <2> SUFFICES ASSUME Calm PROVE Cardinality({i \in Intents : intent[i] # "NONE"}) <= 1
    BY DEF CalmInv, RefundedOnce
  <2> DEFINE S == {i \in Intents : intent[i] # "NONE"}
  <2>1. CASE S = {}
    BY <2>1, FS_EmptySet
  <2>2. ASSUME NEW i \in S PROVE Cardinality(S) <= 1
    <3>1. S = {i}
      BY DEF Calm, OneIntent, Made
    <3> QED
      BY <3>1, FS_Singleton
  <2> QED
    BY <2>1, <2>2
<1> QED
  BY <1>1, CalmInvariant, PTL

\* If the handlers keep apart, and none dies between the two writes that Torn names,
\* there is no refund for a request that is not approved, in particular none for one
\* whose revert was allowed.
THEOREM NothingIsRefundedAfterRevert == Spec => []NoRefundAfterRevert
<1>1. CalmInv => NoRefundAfterRevert
  BY DEF CalmInv, Calm, IntentsFit, IntentFits, Made, NoRefundAfterRevert
<1> QED
  BY <1>1, CalmInvariant, PTL

\* If the handlers keep apart, no finalisation comes before the buffer is over.
THEOREM NothingIsFinalisedEarly == Spec => []BufferIsKept
<1>1. CalmInv => BufferIsKept
  BY DEF CalmInv, Calm, CallsFit, CallFits, BufferIsKept
<1> QED
  BY <1>1, CalmInvariant, PTL

=============================================================================
