------------------------- MODULE DriverVerification -------------------------
(***************************************************************************)
(* The verification of one driver: the driver uploads documents, a request *)
(* is created in the background or by an administrator, agents decide on   *)
(* the documents and upload photos of the vehicle, the request is approved,*)
(* and when its buffer is over a job, or else a cron job, finalises it:    *)
(* the driver and all the documents become VERIFIED.  An approval may be   *)
(* reverted in its buffer; the driver may be rejected and taken back.  An  *)
(* administrator may also set the status past all requests.                *)
(*                                                                         *)
(* Handlers read, check and write by id later, as in SupportRefund.  What  *)
(* an agent may do, an administrator may do as well, so roles are left     *)
(* out.  Names carry a V where SupportRefund has one like it.              *)
(***************************************************************************)
EXTENDS Naturals, FiniteSets

CONSTANTS
    Docs,         \* documents with a status: license, RC book, FC, insurance
    NoDoc,
    MaxRequests,  \* bound on rows of DriverVerificationRequest
    VCalls,       \* handlers that may be in progress
    MaxVFaults    \* bound on handlers that die

ASSUME NoDocAssumption == NoDoc \notin Docs
ASSUME RequestsAssumption == MaxRequests \in Nat /\ MaxRequests >= 1
ASSUME VFaultsAssumption == MaxVFaults \in Nat

VARIABLES
    driver,      \* Driver.verificationStatus
    doc,         \* doc[d]: its status
    byHand,      \* history: the last to make the driver VERIFIED was an
                 \* administrator's update, not the end of a request
    accepted,    \* history: accepted[d]: the file has an approval that stands,
                 \* or an administrator's update has verified it
    request,     \* request[r]: status of the r-th request, "NONE" = not made yet
    window,      \* window[r]: its bufferExpiresAt: absent, in the future, past
    photos,      \* photos[r]: it has the required photos
    final,       \* final[r]: the job verification-<r>, as `job` of SupportRefund
    handler,     \* handler[c]: a handler in progress
    calm,        \* history: handlers have not overlapped or died, there was never
                 \* a second active request, nor an upload under an approved one
    vfaults

driverVars == <<driver, byHand>>
docVars == <<doc, accepted>>
requestVars == <<request, window, photos>>
vvars == <<driverVars, docVars, requestVars, final, handler, calm, vfaults>>

Ids       == 1..MaxRequests
DocStatus == {"PENDING", "VERIFIED", "REJECTED"}
VEditable == {"PENDING", "IN_REVIEW", "REVERTED"}
VActive   == VEditable \cup {"APPROVED", "REVERT_REQUESTED"}
VStatus   == VActive \cup {"NONE", "REJECTED", "FINAL_APPROVED"}
VStep     == {"idle", "assign", "approve", "reject", "revert", "allow", "refuse",
              "schedule", "unschedule", "docApprove", "docReject", "docRevert",
              "finalRead", "final", "auto", "reinstate", "ensure", "create",
              "photoClear", "photoWrite", "photoStatus"}
Handler   == [step : VStep, by : {"none", "user", "job", "cron"}, request : {0} \cup Ids,
              doc : Docs \cup {NoDoc}, seen : VStatus, flag : BOOLEAN]
VIdle     == [step |-> "idle", by |-> "none", request |-> 0, doc |-> NoDoc,
              seen |-> "NONE", flag |-> FALSE]

\* After the onboarding: documents to be accepted, and no request yet.
VInit ==
    /\ driver = "PENDING"
    /\ byHand = FALSE
    /\ doc = [d \in Docs |-> "PENDING"]
    /\ accepted = [d \in Docs |-> FALSE]
    /\ request = [r \in Ids |-> "NONE"]
    /\ window = [r \in Ids |-> "none"]
    /\ photos = [r \in Ids |-> FALSE]
    /\ final = [r \in Ids |-> "none"]
    /\ handler = [c \in VCalls |-> VIdle]
    /\ calm = TRUE
    /\ vfaults = 0

-----------------------------------------------------------------------------
Made == {r \in Ids : request[r] # "NONE"}
Latest(r) == r \in Made /\ \A s \in Made : s <= r
ActiveIds == {r \in Ids : request[r] \in VActive}
Alone == \A c \in VCalls : handler[c] = VIdle

\* A handler starts with what it has read.
VStart(c, h) ==
    /\ handler[c] = VIdle
    /\ handler' = [handler EXCEPT ![c] = h]
    /\ calm' = (calm /\ Alone)

On(step, by, r) == [VIdle EXCEPT !.step = step, !.by = by, !.request = r]

VGo(c, to) == handler' = [handler EXCEPT ![c].step = to]
VFinish(c) == handler' = [handler EXCEPT ![c] = VIdle]

VLoosened(r) == IF final[r] = "timed" THEN [final EXCEPT ![r] = "loose"] ELSE final

\* The request's buffer changes: a job scheduled by another handler, or about
\* to be, is not for the new buffer.
Rewritten(c, r, step) ==
    [d \in VCalls |->
        IF d = c THEN IF step = "idle" THEN VIdle ELSE [handler[d] EXCEPT !.step = step, !.flag = TRUE]
        ELSE IF handler[d].request = r /\ handler[d].step = "schedule"
             THEN [handler[d] EXCEPT !.flag = FALSE]
        ELSE handler[d]]

-----------------------------------------------------------------------------
(* The driver.                                                             *)

\* updateDocuments; then autoCreateVerificationRequest in the background.
Upload(c, d) ==
    /\ handler[c] = VIdle
    /\ handler' = [handler EXCEPT ![c] = On("auto", "user", 0)]
    /\ calm' = (calm /\ Alone /\ \A r \in Ids : request[r] \notin {"APPROVED", "REVERT_REQUESTED"})
    /\ doc' = [doc EXCEPT ![d] = "PENDING"]
    /\ accepted' = [accepted EXCEPT ![d] = FALSE]
    /\ UNCHANGED <<driverVars, requestVars, final, vfaults>>

\* autoCreateVerificationRequest: a request IN_REVIEW is not looked for.
NeedsRequest ==
    /\ driver # "REJECTED"
    /\ \A r \in Ids : request[r] \notin VActive \ {"IN_REVIEW"}

AutoReads(c) ==
    /\ handler[c].step = "auto"
    /\ IF NeedsRequest THEN VGo(c, "create") ELSE VFinish(c)
    /\ UNCHANGED <<driverVars, docVars, requestVars, final, calm, vfaults>>

\* Mutant: only drivers that are new.
MissesNew ==
    /\ ActiveIds = {}
    /\ Made = {}
    /\ driver = "PENDING"

Misses ==
    /\ ActiveIds = {}
    /\ driver = "PENDING" \/ \E d \in Docs : doc[d] = "PENDING"

\* createMissingVerificationRequests.
CronFindsDriver(c) ==
    /\ Misses
    /\ VStart(c, On("auto", "cron", 0))
    /\ UNCHANGED <<driverVars, docVars, requestVars, final, vfaults>>

\* The row is made; the ticket of the help desk follows.  Beyond the bound on
\* requests the handler ends without one.
CreateRequest(c) ==
    /\ handler[c].step = "create"
    /\ VFinish(c)
    /\ IF Made = Ids
       THEN UNCHANGED <<request, calm>>
       ELSE /\ request' = [request EXCEPT ![Cardinality(Made) + 1] = "PENDING"]
            /\ calm' = (calm /\ ActiveIds = {})
    /\ UNCHANGED <<driverVars, docVars, window, photos, final, vfaults>>

\* ensureVerificationRequestExists, of createVerificationRequest and, after
\* its first write, of revertRejectedDriver.
BeginEnsure(c) ==
    /\ VStart(c, On("ensure", "user", 0))
    /\ UNCHANGED <<driverVars, docVars, requestVars, final, vfaults>>

Eligible ==
    /\ \A r \in Ids : Latest(r) => request[r] \notin VActive
    /\ driver = "PENDING" \/ \E d \in Docs : doc[d] = "PENDING"

EnsureReads(c) ==
    /\ handler[c].step = "ensure"
    /\ IF Eligible
       THEN VGo(c, "create")
       ELSE VFinish(c)
    /\ UNCHANGED <<driverVars, docVars, requestVars, final, calm, vfaults>>

BeginReinstate(c) ==
    /\ driver = "REJECTED"
    /\ VStart(c, On("reinstate", "user", 0))
    /\ UNCHANGED <<driverVars, docVars, requestVars, final, vfaults>>

Reinstate(c) ==
    /\ handler[c].step = "reinstate"
    /\ driver' = "PENDING"
    /\ VGo(c, "ensure")
    /\ UNCHANGED <<byHand, docVars, requestVars, final, calm, vfaults>>

-----------------------------------------------------------------------------
(* Agents and administrators.                                              *)

BeginAssign(c, r) ==
    /\ request[r] \in VActive
    /\ VStart(c, [On("assign", "user", r) EXCEPT !.seen = request[r]])
    /\ UNCHANGED <<driverVars, docVars, requestVars, final, vfaults>>

\* The status is written as it was read, or IN_REVIEW.
Assign(c) ==
    LET h == handler[c] IN
    /\ h.step = "assign"
    /\ request' = [request EXCEPT ![h.request] = IF h.seen = "PENDING" THEN "IN_REVIEW" ELSE h.seen]
    /\ VFinish(c)
    /\ UNCHANGED <<driverVars, docVars, window, photos, final, calm, vfaults>>

\* assertCanMutateDocuments, then the decision on one document.
BeginDocument(c, r, d, op) ==
    /\ request[r] \in VEditable
    /\ VStart(c, [On(op, "user", r) EXCEPT !.doc = d])
    /\ UNCHANGED <<driverVars, docVars, requestVars, final, vfaults>>

BeginReview(c, r, d) == \E op \in {"docApprove", "docReject"} : BeginDocument(c, r, d, op)

BeginRevertDocument(c, r, d) == doc[d] # "PENDING" /\ BeginDocument(c, r, d, "docRevert")

CommitDocument(c, op, to) ==
    LET d == handler[c].doc IN
    /\ handler[c].step = op
    /\ doc' = [doc EXCEPT ![d] = to]
    /\ accepted' = [accepted EXCEPT ![d] = to = "VERIFIED"]
    /\ VFinish(c)
    /\ UNCHANGED <<driverVars, requestVars, final, calm, vfaults>>

DocumentAction(c) ==
    \/ CommitDocument(c, "docApprove", "VERIFIED")
    \/ CommitDocument(c, "docReject", "REJECTED")

RevertDocumentDecision(c) == CommitDocument(c, "docRevert", "PENDING")

\* uploadPhotos: the full upload deletes the request's photos, and then updates
\* the rows it has read (flag: there were any), which fails if they are gone.
BeginPhotos(c, r, full) ==
    /\ request[r] \in VEditable
    /\ VStart(c, [On(IF full THEN "photoClear" ELSE "photoWrite", "user", r)
                     EXCEPT !.flag = photos[r], !.seen = request[r]])
    /\ UNCHANGED <<driverVars, docVars, requestVars, final, vfaults>>

ClearPhotos(c) ==
    /\ handler[c].step = "photoClear"
    /\ photos' = [photos EXCEPT ![handler[c].request] = FALSE]
    /\ VGo(c, "photoWrite")
    /\ UNCHANGED <<driverVars, docVars, request, window, final, calm, vfaults>>

WritePhotos(c) ==
    LET h == handler[c] IN
    /\ h.step = "photoWrite"
    /\ IF h.flag /\ ~photos[h.request]
       THEN VFinish(c) /\ photos' = photos
       ELSE VGo(c, "photoStatus") /\ photos' = [photos EXCEPT ![h.request] = TRUE]
    /\ UNCHANGED <<driverVars, docVars, request, window, final, calm, vfaults>>

SavePhotoStatus(c) ==
    LET h == handler[c] IN
    /\ h.step = "photoStatus"
    /\ request' = [request EXCEPT ![h.request] = IF h.seen = "PENDING" THEN "IN_REVIEW" ELSE @]
    /\ VFinish(c)
    /\ UNCHANGED <<driverVars, docVars, window, photos, final, calm, vfaults>>

\* Decisions on the whole request: first what each asks of the rows it reads.
BeginDecision(c, r, op) ==
    /\ VStart(c, On(op, "user", r))
    /\ UNCHANGED <<driverVars, docVars, requestVars, final, vfaults>>

\* Mutant: the documents are not looked at.
MayApproveUnreviewed(r) ==
    /\ request[r] \in VEditable
    /\ \E s \in Ids : photos[s]

MayApprove(r) ==
    /\ request[r] \in VEditable
    /\ \A d \in Docs : doc[d] = "VERIFIED"
    /\ \E s \in Ids : photos[s]

BeginApprove(c, r) == MayApprove(r) /\ BeginDecision(c, r, "approve")

\* assertCanRejectDriver.
MayReject(r) == Latest(r) /\ request[r] # "REJECTED"

BeginReject(c, r) == MayReject(r) /\ BeginDecision(c, r, "reject")

BeginRevert(c, r) ==
    /\ request[r] = "APPROVED"
    /\ window[r] = "running"
    /\ BeginDecision(c, r, "revert")

BeginRevertDecision(c, r) ==
    /\ request[r] = "REVERT_REQUESTED"
    /\ \E op \in {"allow", "refuse"} : BeginDecision(c, r, op)

CommitApproved(c, op) ==
    LET r == handler[c].request IN
    /\ handler[c].step = op
    /\ request' = [request EXCEPT ![r] = "APPROVED"]
    /\ window' = [window EXCEPT ![r] = "running"]
    /\ final' = VLoosened(r)
    /\ handler' = Rewritten(c, r, "schedule")
    /\ UNCHANGED <<driverVars, docVars, photos, calm, vfaults>>

Approve(c) == CommitApproved(c, "approve")

RefuseRevert(c) == CommitApproved(c, "refuse")

\* Mutant: the driver's status is left alone.
RejectQuietly(c) ==
    LET r == handler[c].request IN
    /\ handler[c].step = "reject"
    /\ request' = [request EXCEPT ![r] = "REJECTED"]
    /\ window' = [window EXCEPT ![r] = "none"]
    /\ final' = VLoosened(r)
    /\ handler' = Rewritten(c, r, "unschedule")
    /\ UNCHANGED <<driverVars, docVars, photos, calm, vfaults>>

Reject(c) ==
    LET r == handler[c].request IN
    /\ handler[c].step = "reject"
    /\ request' = [request EXCEPT ![r] = "REJECTED"]
    /\ window' = [window EXCEPT ![r] = "none"]
    /\ driver' = "REJECTED"
    /\ final' = VLoosened(r)
    /\ handler' = Rewritten(c, r, "unschedule")
    /\ UNCHANGED <<byHand, docVars, photos, calm, vfaults>>

RequestRevert(c) ==
    LET r == handler[c].request IN
    /\ handler[c].step = "revert"
    /\ request' = [request EXCEPT ![r] = "REVERT_REQUESTED"]
    /\ window' = [window EXCEPT ![r] = "none"]
    /\ final' = VLoosened(r)
    /\ handler' = Rewritten(c, r, "unschedule")
    /\ UNCHANGED <<driverVars, docVars, photos, calm, vfaults>>

\* The revert is allowed: driver and documents wait for a new review.
AllowRevert(c) ==
    LET r == handler[c].request IN
    /\ handler[c].step = "allow"
    /\ request' = [request EXCEPT ![r] = "REVERTED"]
    /\ window' = [window EXCEPT ![r] = "none"]
    /\ driver' = "PENDING"
    /\ doc' = [d \in Docs |-> "PENDING"]
    /\ accepted' = [d \in Docs |-> FALSE]
    /\ final' = VLoosened(r)
    /\ handler' = Rewritten(c, r, "unschedule")
    /\ UNCHANGED <<byHand, photos, calm, vfaults>>

VSchedule(c) ==
    LET h == handler[c] IN
    /\ h.step = "schedule"
    /\ final' = [final EXCEPT ![h.request] = IF @ # "none" THEN @
                                             ELSE IF h.flag /\ window[h.request] = "running" THEN "timed"
                                             ELSE "loose"]
    /\ VFinish(c)
    /\ UNCHANGED <<driverVars, docVars, requestVars, calm, vfaults>>

VRemoved(r) == IF final[r] \in {"timed", "loose"} THEN [final EXCEPT ![r] = "none"] ELSE final

VUnschedule(c) ==
    /\ handler[c].step = "unschedule"
    /\ final' = VRemoved(handler[c].request)
    /\ VFinish(c)
    /\ UNCHANGED <<driverVars, docVars, requestVars, calm, vfaults>>

-----------------------------------------------------------------------------
(* Time, jobs and cron jobs.                                               *)

WindowEnds(r) ==
    /\ window[r] = "running"
    /\ window' = [window EXCEPT ![r] = "over"]
    /\ final' = VLoosened(r)
    /\ UNCHANGED <<driverVars, docVars, request, photos, handler, calm, vfaults>>

FinalJobStarts(c, r) ==
    /\ final[r] = "loose"
    /\ final' = [final EXCEPT ![r] = "active"]
    /\ VStart(c, On("finalRead", "job", r))
    /\ UNCHANGED <<driverVars, docVars, requestVars, vfaults>>

\* Mutant: only requests that have a job.
WaitsWithJob(r) == request[r] = "APPROVED" /\ window[r] = "over" /\ final[r] # "none"

Waits(r) == request[r] = "APPROVED" /\ window[r] = "over"

\* handleExpiredBufferVerifications, one run at a time.
FinalCronStarts(c, r) ==
    /\ Waits(r)
    /\ \A d \in VCalls : handler[d].step \in {"finalRead", "final"} => handler[d].by # "cron"
    /\ VStart(c, On("finalRead", "cron", r))
    /\ UNCHANGED <<driverVars, docVars, requestVars, final, vfaults>>

FinalAfter(c) ==
    IF handler[c].by = "job" THEN [final EXCEPT ![handler[c].request] = "none"] ELSE final

\* finalizeVerificationById.
FinalReads(c) ==
    /\ handler[c].step = "finalRead"
    /\ IF request[handler[c].request] = "APPROVED"
       THEN VGo(c, "final") /\ final' = final
       ELSE VFinish(c) /\ final' = FinalAfter(c)
    /\ UNCHANGED <<driverVars, docVars, requestVars, calm, vfaults>>

Finalize(c) ==
    LET r == handler[c].request IN
    /\ handler[c].step = "final"
    /\ request' = [request EXCEPT ![r] = "FINAL_APPROVED"]
    /\ window' = [window EXCEPT ![r] = "none"]
    /\ driver' = "VERIFIED"
    /\ byHand' = FALSE
    /\ doc' = [d \in Docs |-> "VERIFIED"]
    /\ final' = FinalAfter(c)
    /\ VFinish(c)
    /\ UNCHANGED <<accepted, photos, calm, vfaults>>

\* checkExpiredDocuments, of every night, finds documents whose date is past.
\* An approval may bring a new date or leave the old one.
CheckExpiredDocuments ==
    \E ds \in SUBSET Docs \ {{}} :
        /\ doc' = [d \in Docs |-> IF d \in ds /\ doc[d] = "VERIFIED" THEN "PENDING" ELSE doc[d]]
        /\ driver' = IF driver = "VERIFIED" THEN "PENDING" ELSE driver
        /\ UNCHANGED <<byHand, accepted, requestVars, final, handler, calm, vfaults>>

\* updateDriverVerification, of the older administration: the driver gets any
\* status, and with VERIFIED so do all documents; no request is looked at.
UpdateDriverVerification(status) ==
    /\ driver' = status
    /\ IF status = "VERIFIED"
       THEN /\ byHand' = TRUE
            /\ doc' = [d \in Docs |-> "VERIFIED"]
            /\ accepted' = [d \in Docs |-> TRUE]
       ELSE UNCHANGED <<byHand, docVars>>
    /\ UNCHANGED <<requestVars, final, handler, calm, vfaults>>

\* The server dies in the handler, or a write fails; a job may run again.
VDies(c) ==
    LET h == handler[c] IN
    /\ h # VIdle
    /\ vfaults < MaxVFaults
    /\ vfaults' = vfaults + 1
    /\ calm' = FALSE
    /\ final' \in IF h.by = "job" THEN {[final EXCEPT ![h.request] = j] : j \in {"loose", "none"}}
                  ELSE {final}
    /\ VFinish(c)
    /\ UNCHANGED <<driverVars, docVars, requestVars>>

VContinues(c) ==
    \/ AutoReads(c) \/ CreateRequest(c) \/ EnsureReads(c) \/ Reinstate(c)
    \/ Assign(c) \/ DocumentAction(c) \/ RevertDocumentDecision(c) \/ ClearPhotos(c) \/ WritePhotos(c) \/ SavePhotoStatus(c)
    \/ Approve(c) \/ Reject(c) \/ RequestRevert(c) \/ AllowRevert(c) \/ RefuseRevert(c)
    \/ VSchedule(c) \/ VUnschedule(c) \/ FinalReads(c) \/ Finalize(c)

VNext ==
    \/ \E c \in VCalls :
          \/ \E d \in Docs : Upload(c, d)
          \/ CronFindsDriver(c) \/ BeginEnsure(c) \/ BeginReinstate(c)
          \/ \E r \in Ids :
                \/ BeginAssign(c, r)
                \/ \E d \in Docs : BeginReview(c, r, d) \/ BeginRevertDocument(c, r, d)
                \/ \E full \in BOOLEAN : BeginPhotos(c, r, full)
                \/ BeginApprove(c, r) \/ BeginReject(c, r)
                \/ BeginRevert(c, r) \/ BeginRevertDecision(c, r)
                \/ FinalJobStarts(c, r)
                \/ FinalCronStarts(c, r)
          \/ VContinues(c)
          \/ VDies(c)
    \/ \E r \in Ids : WindowEnds(r)
    \/ CheckExpiredDocuments
    \/ \E status \in DocStatus : UpdateDriverVerification(status)

VSpec == VInit /\ [][VNext]_vvars

\* As in SupportRefund: handlers go on, time passes, the cron jobs come round.
VFairness ==
    /\ \A c \in VCalls : WF_vvars(VContinues(c))
    /\ \A r \in Ids : WF_vvars(WindowEnds(r))
    /\ \A r \in Ids : SF_vvars(\E c \in VCalls : FinalCronStarts(c, r))
    /\ SF_vvars(\E c \in VCalls : CronFindsDriver(c))

VFairSpec == VSpec /\ VFairness

-----------------------------------------------------------------------------
(* Properties.                                                             *)

VTypeOK ==
    /\ driver \in DocStatus
    /\ byHand \in BOOLEAN
    /\ doc \in [Docs -> DocStatus]
    /\ accepted \in [Docs -> BOOLEAN]
    /\ request \in [Ids -> VStatus]
    /\ window \in [Ids -> {"none", "running", "over"}]
    /\ photos \in [Ids -> BOOLEAN]
    /\ final \in [Ids -> {"none", "timed", "loose", "active"}]
    /\ handler \in [VCalls -> Handler]
    /\ calm \in BOOLEAN
    /\ vfaults \in 0..MaxVFaults

\* As long as handlers keep apart, no second request is active and nothing is
\* uploaded under an approval, a document is VERIFIED only if an agent approved
\* its file or an administrator's update verified it as it is, although the
\* finalisation verifies all documents without a look.
VerifiedWasAccepted ==
    calm => \A d \in Docs : doc[d] = "VERIFIED" => accepted[d]

\* Under the same conditions a driver whose latest request was rejected is not
\* VERIFIED by the finalisation of any request, only by an administrator's update.
RejectionHolds ==
    calm => \A r \in Ids :
        Latest(r) /\ request[r] = "REJECTED" /\ driver = "VERIFIED" => byHand

\* An approved request with a buffer is finalised, reverted or rejected, also
\* if its job was never made or has died.
VApprovedEnds ==
    \A r \in Ids : request[r] = "APPROVED" /\ window[r] # "none" ~> request[r] # "APPROVED"

\* A driver who waits for verification gets a request that agents work on,
\* unless the model's requests are used up.
RequestComes ==
    driver = "PENDING" ~> ActiveIds # {} \/ driver # "PENDING" \/ Made = Ids

\* What cron/services/verification-request.service.ts asks before it makes a
\* request: no other is active.
OneActiveRequest == Cardinality(ActiveIds) <= 1

=============================================================================
