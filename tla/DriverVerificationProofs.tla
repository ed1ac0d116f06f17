----------------------- MODULE DriverVerificationProofs ----------------------
(***************************************************************************)
(* Proofs about DriverVerification, for any number of documents, requests, *)
(* handlers and faults.                                                    *)
(*                                                                         *)
(* Requests are numbered without gaps, however the handlers overlap        *)
(* (NumberedInTurn).  While the handlers keep apart, the active request is *)
(* the latest (ActiveIsLatest) and what a handler has found of it is still *)
(* so when it writes (HandlersFit).  So an approval stands on documents    *)
(* that were accepted (ApprovedWasAccepted), and a finalisation, which     *)
(* looks at no document, finds them accepted; and it is of the latest      *)
(* request, so it undoes no rejection.                                     *)
(***************************************************************************)
EXTENDS DriverVerification, FiniteSetTheorems, TLAPS

USE DEF driverVars, docVars, requestVars

\* A row is made with the next number.
NumberedInTurn == \E n \in 0..MaxRequests : Made = 1..n

\* A handler that writes a request's row works on one that was made.
HandlerIsMade(h) ==
    /\ h.step \in {"assign", "approve", "reject", "revert", "allow", "refuse", "final",
                   "photoClear", "photoWrite", "photoStatus"} => h.request \in Made
    /\ h.step = "assign" => h.seen # "NONE"
    /\ h.step = "finalRead" => h.request \in Ids

HandlersAreMade == \A c \in VCalls : HandlerIsMade(handler[c])

\* What holds however the handlers overlap.
VerificationInv == VTypeOK /\ NumberedInTurn /\ HandlersAreMade

\* One handler at a time.
OneHandler == \A c, d \in VCalls : handler[c] # VIdle /\ handler[d] # VIdle => c = d

\* What a handler has found of its request is still so.
HandlerFits(h) ==
    LET status == request[h.request] IN
    /\ h.step = "assign" => status = h.seen /\ status \in VActive
    /\ h.step \in {"photoClear", "photoWrite", "photoStatus"} => status = h.seen /\ status \in VEditable
    /\ h.step \in {"docApprove", "docReject", "docRevert"} =>
          h.request \in Ids /\ status \in VEditable
    /\ h.step = "approve" => status \in VEditable /\ \A d \in Docs : accepted[d]
    /\ h.step \in {"revert", "final"} => status = "APPROVED"
    /\ h.step \in {"allow", "refuse"} => status = "REVERT_REQUESTED"

HandlersFit == \A c \in VCalls : HandlerFits(handler[c])

ActiveIsLatest == \A r \in Ids : request[r] \in VActive => Latest(r)

\* An approval stands on accepted documents.
ApprovedWasAccepted ==
    \A r \in Ids : request[r] \in {"APPROVED", "REVERT_REQUESTED"} => \A d \in Docs : accepted[d]

\* What holds as long as the handlers keep apart.
InTurn ==
    /\ OneHandler
    /\ HandlersFit
    /\ ActiveIsLatest
    /\ ApprovedWasAccepted
    /\ \A d \in Docs : doc[d] = "VERIFIED" => accepted[d]
    /\ \A r \in Ids : Latest(r) /\ request[r] = "REJECTED" /\ driver = "VERIFIED" => byHand

CalmInv == calm => InTurn

-----------------------------------------------------------------------------
(* Types.                                                                  *)

LEMMA InitType == VInit => VTypeOK
<1> SUFFICES ASSUME VInit PROVE VTypeOK
  OBVIOUS
<1>1. VIdle \in Handler
  BY DEF VIdle, Handler, VStep, VStatus, VActive, VEditable
<1>2. calm \in BOOLEAN /\ byHand \in BOOLEAN
  BY Zenon DEF VInit
<1>3. vfaults \in 0..MaxVFaults
  BY VFaultsAssumption DEF VInit
<1> QED
  BY <1>1, <1>2, <1>3 DEF VInit, VTypeOK, DocStatus, VStatus, VActive, VEditable

\* What the decisions on a request ask of the rows they read.
Asked(op, r) ==
    /\ op = "approve" => MayApprove(r)
    /\ op = "reject" => Latest(r)
    /\ op = "revert" => request[r] = "APPROVED"
    /\ op \in {"allow", "refuse"} => request[r] = "REVERT_REQUESTED"

\* What a handler may start with.
Begun(h) ==
    \/ \E op \in {"auto", "ensure", "reinstate"}, by \in {"user", "cron"} : h = On(op, by, 0)
    \/ \E r \in Ids, op \in {"approve", "reject", "revert", "allow", "refuse"} :
          Asked(op, r) /\ h = On(op, "user", r)
    \/ \E r \in Ids, by \in {"job", "cron"} : h = On("finalRead", by, r)
    \/ \E r \in Ids :
          request[r] \in VActive /\ h = [On("assign", "user", r) EXCEPT !.seen = request[r]]
    \/ \E r \in Ids, d \in Docs, op \in {"docApprove", "docReject", "docRevert"} :
          request[r] \in VEditable /\ h = [On(op, "user", r) EXCEPT !.doc = d]
    \/ \E r \in Ids, op \in {"photoClear", "photoWrite"} :
          /\ request[r] \in VEditable
          /\ h = [On(op, "user", r) EXCEPT !.flag = photos[r], !.seen = request[r]]

LEMMA BegunType == ASSUME VTypeOK, NEW h, Begun(h) PROVE h \in Handler
<1>1. ASSUME NEW s \in VStep, NEW by \in {"user", "job", "cron"}, NEW r \in {0} \cup Ids
      PROVE  On(s, by, r) \in Handler
  BY DEF On, VIdle, Handler, VStatus
<1>2. \A r \in Ids : request[r] \in VStatus /\ photos[r] \in BOOLEAN
  BY DEF VTypeOK
<1>3. CASE \E r \in Ids : h = [On("assign", "user", r) EXCEPT !.seen = request[r]]
  <2>1. PICK r \in Ids : h = [On("assign", "user", r) EXCEPT !.seen = request[r]]
    BY <1>3
  <2>2. PICK k : k = On("assign", "user", r)
    OBVIOUS
  <2>3. k \in Handler
    BY <2>2, <1>1 DEF VStep
  <2>4. [k EXCEPT !.seen = request[r]] \in Handler
    BY <2>3, <1>2 DEF Handler
  <2> QED
    BY <2>1, <2>2, <2>4
<1>4. CASE \E r \in Ids, d \in Docs, op \in {"docApprove", "docReject", "docRevert"} :
              h = [On(op, "user", r) EXCEPT !.doc = d]
  <2>1. PICK r \in Ids, d \in Docs, op \in {"docApprove", "docReject", "docRevert"} :
              h = [On(op, "user", r) EXCEPT !.doc = d]
    BY <1>4
  <2>2. PICK k : k = On(op, "user", r)
    OBVIOUS
  <2>3. k \in Handler
    BY <2>2, <1>1 DEF VStep
  <2>4. [k EXCEPT !.doc = d] \in Handler
    BY <2>3 DEF Handler
  <2> QED
    BY <2>1, <2>2, <2>4
<1>5. CASE \E r \in Ids, op \in {"photoClear", "photoWrite"} :
              h = [On(op, "user", r) EXCEPT !.flag = photos[r], !.seen = request[r]]
  <2>1. PICK r \in Ids, op \in {"photoClear", "photoWrite"} :
              h = [On(op, "user", r) EXCEPT !.flag = photos[r], !.seen = request[r]]
    BY <1>5
  <2>2. PICK k : k = On(op, "user", r)
    OBVIOUS
  <2>3. k \in Handler
    BY <2>2, <1>1 DEF VStep
  <2>4. [k EXCEPT !.flag = photos[r], !.seen = request[r]] \in Handler
    BY <2>3, <1>2 DEF Handler
  <2> QED
    BY <2>1, <2>2, <2>4
<1>6. CASE \/ \E op \in {"auto", "ensure", "reinstate"}, by \in {"user", "cron"} : h = On(op, by, 0)
           \/ \E r \in Ids, op \in {"approve", "reject", "revert", "allow", "refuse"} :
                 h = On(op, "user", r)
           \/ \E r \in Ids, by \in {"job", "cron"} : h = On("finalRead", by, r)
  BY <1>1, <1>6 DEF VStep
<1> QED
  BY <1>3, <1>4, <1>5, <1>6 DEF Begun

\* The actions that start a handler.
Starts(c) ==
    \/ \E d \in Docs : Upload(c, d)
    \/ CronFindsDriver(c) \/ BeginEnsure(c) \/ BeginReinstate(c)
    \/ \E r \in Ids :
          \/ BeginAssign(c, r)
          \/ \E d \in Docs : BeginReview(c, r, d) \/ BeginRevertDocument(c, r, d)
          \/ \E full \in BOOLEAN : BeginPhotos(c, r, full)
          \/ BeginApprove(c, r) \/ BeginReject(c, r)
          \/ BeginRevert(c, r) \/ BeginRevertDecision(c, r)
          \/ FinalJobStarts(c, r)
          \/ FinalCronStarts(c, r)

\* The steps of no handler.
OnItsOwn ==
    \/ \E r \in Ids : WindowEnds(r)
    \/ CheckExpiredDocuments
    \/ \E status \in DocStatus : UpdateDriverVerification(status)

LEMMA StartsBegun ==
    ASSUME VTypeOK, NEW c \in VCalls, Starts(c)
    PROVE  /\ handler[c] = VIdle
           /\ \E h : Begun(h) /\ handler' = [handler EXCEPT ![c] = h]
           /\ calm' => calm /\ Alone
           /\ calm' \in BOOLEAN
           /\ UNCHANGED <<driverVars, requestVars, vfaults>>
<1>1. CASE CronFindsDriver(c) \/ BeginEnsure(c) \/ BeginReinstate(c)
  BY <1>1 DEF CronFindsDriver, BeginEnsure, BeginReinstate, VStart, Begun
<1>2. ASSUME NEW d \in Docs, Upload(c, d)
      PROVE  /\ handler[c] = VIdle
             /\ \E h : Begun(h) /\ handler' = [handler EXCEPT ![c] = h]
             /\ calm' => calm /\ Alone
             /\ calm' \in BOOLEAN
             /\ UNCHANGED <<driverVars, requestVars, vfaults>>
  BY <1>2 DEF Upload, Begun
<1>3. ASSUME NEW r \in Ids, NEW h, VStart(c, h), Begun(h)
      PROVE  /\ handler[c] = VIdle
             /\ \E k : Begun(k) /\ handler' = [handler EXCEPT ![c] = k]
             /\ calm' => calm /\ Alone
             /\ calm' \in BOOLEAN
  BY <1>3 DEF VStart
<1>4. ASSUME NEW r \in Ids,
             \/ BeginApprove(c, r) \/ BeginReject(c, r) \/ BeginRevert(c, r)
             \/ BeginRevertDecision(c, r)
      PROVE  \E h : VStart(c, h) /\ Begun(h)
  BY <1>4 DEF BeginApprove, BeginReject, BeginRevert, BeginRevertDecision, BeginDecision, Begun,
     MayReject, Asked
<1>5. ASSUME NEW r \in Ids, BeginAssign(c, r) \/ FinalJobStarts(c, r) \/ FinalCronStarts(c, r)
      PROVE  \E h : VStart(c, h) /\ Begun(h)
  BY <1>5 DEF BeginAssign, FinalJobStarts, FinalCronStarts, Begun
<1>6. ASSUME NEW r \in Ids, NEW d \in Docs, BeginReview(c, r, d) \/ BeginRevertDocument(c, r, d)
      PROVE  \E h : VStart(c, h) /\ Begun(h)
  BY <1>6 DEF BeginReview, BeginRevertDocument, BeginDocument, Begun
<1>7. ASSUME NEW r \in Ids, NEW full \in BOOLEAN, BeginPhotos(c, r, full)
      PROVE  \E h : VStart(c, h) /\ Begun(h)
  BY <1>7 DEF BeginPhotos, Begun
<1>8. ASSUME NEW r \in Ids,
             \/ BeginAssign(c, r)
             \/ \E d \in Docs : BeginReview(c, r, d) \/ BeginRevertDocument(c, r, d)
             \/ \E full \in BOOLEAN : BeginPhotos(c, r, full)
             \/ BeginApprove(c, r) \/ BeginReject(c, r)
             \/ BeginRevert(c, r) \/ BeginRevertDecision(c, r)
             \/ FinalJobStarts(c, r) \/ FinalCronStarts(c, r)
      PROVE  UNCHANGED <<driverVars, requestVars, vfaults>>
  BY <1>8 DEF BeginAssign, BeginReview, BeginRevertDocument, BeginDocument, BeginPhotos,
     BeginApprove, BeginReject, BeginRevert, BeginRevertDecision, BeginDecision, FinalJobStarts,
     FinalCronStarts
<1> QED
  BY <1>1, <1>2, <1>3, <1>4, <1>5, <1>6, <1>7, <1>8 DEF Starts

LEMMA GoType ==
    ASSUME VTypeOK, NEW c \in VCalls, NEW s \in VStep,
           VGo(c, s) \/ VFinish(c)
    PROVE  handler' \in [VCalls -> Handler]
<1>1. VIdle \in Handler /\ [handler[c] EXCEPT !.step = s] \in Handler
  <2>1. handler[c] \in Handler
    BY DEF VTypeOK
  <2> QED
    BY <2>1 DEF Handler, VIdle, VStep, VStatus, VActive, VEditable
<1> QED
  BY <1>1 DEF VTypeOK, VGo, VFinish

LEMMA RewrittenType ==
    ASSUME VTypeOK, NEW c \in VCalls, NEW r, NEW s \in {"schedule", "unschedule"},
           handler' = Rewritten(c, r, s)
    PROVE  handler' \in [VCalls -> Handler]
<1> SUFFICES ASSUME NEW d \in VCalls
             PROVE  Rewritten(c, r, s)[d] \in Handler /\ Rewritten(c, r, s) = [e \in VCalls |-> Rewritten(c, r, s)[e]]
  BY Zenon
<1>1. handler[d] \in Handler
  BY DEF VTypeOK
<1>2. /\ [handler[d] EXCEPT !.step = s, !.flag = TRUE] \in Handler
      /\ [handler[d] EXCEPT !.flag = FALSE] \in Handler
  BY <1>1 DEF Handler, VStep
<1> QED
  BY <1>1, <1>2 DEF Rewritten

FinalState == {"none", "timed", "loose", "active"}

LEMMA FinalTypes ==
    ASSUME VTypeOK
    PROVE  /\ \A r : VLoosened(r) \in [Ids -> FinalState]
           /\ \A r : VRemoved(r) \in [Ids -> FinalState]
           /\ \A c : FinalAfter(c) \in [Ids -> FinalState]
  BY DEF VTypeOK, VLoosened, VRemoved, FinalAfter, FinalState

\* Every step keeps the types.
LEMMA NextType == VTypeOK /\ [VNext]_vvars => VTypeOK'
<1> SUFFICES ASSUME VTypeOK, [VNext]_vvars PROVE VTypeOK'
  OBVIOUS
<1> USE DEF VTypeOK
<1>1. ASSUME NEW c \in VCalls, Starts(c) PROVE VTypeOK'
  <2>1. handler' \in [VCalls -> Handler]
    BY <1>1, StartsBegun, BegunType
  <2>2. doc' \in [Docs -> DocStatus] /\ accepted' \in [Docs -> BOOLEAN]
        /\ final' \in [Ids -> {"none", "timed", "loose", "active"}]
    BY <1>1 DEF Starts, Upload, CronFindsDriver, BeginEnsure, BeginReinstate, BeginAssign,
       BeginReview, BeginRevertDocument, BeginDocument, BeginPhotos, BeginApprove, BeginReject,
       BeginRevert, BeginRevertDecision, BeginDecision, FinalJobStarts, FinalCronStarts, DocStatus
  <2> QED
    BY <1>1, <2>1, <2>2, StartsBegun
<1>2. ASSUME NEW c \in VCalls, AutoReads(c) \/ EnsureReads(c) PROVE VTypeOK'
  BY <1>2, GoType DEF AutoReads, EnsureReads, VStep
<1>3. ASSUME NEW c \in VCalls, CreateRequest(c) PROVE VTypeOK'
  <2>1. handler' \in [VCalls -> Handler]
    BY <1>3, GoType DEF CreateRequest, VStep
  <2>2. calm' \in BOOLEAN
    <3>1. (calm /\ ActiveIds = {}) \in BOOLEAN
      BY Zenon
    <3> QED
      BY <1>3, <3>1 DEF CreateRequest
  <2> QED
    BY <1>3, <2>1, <2>2 DEF CreateRequest, VStatus, VActive, VEditable
<1>4. ASSUME NEW c \in VCalls, Reinstate(c) PROVE VTypeOK'
  BY <1>4, GoType DEF Reinstate, VStep, DocStatus
<1>5. ASSUME NEW c \in VCalls, Assign(c) \/ SavePhotoStatus(c) PROVE VTypeOK'
  <2>1. handler' \in [VCalls -> Handler]
    BY <1>5, GoType DEF Assign, SavePhotoStatus, VStep
  <2>2. handler[c].seen \in VStatus /\ "IN_REVIEW" \in VStatus
    BY DEF Handler, VStatus, VActive, VEditable
  <2> QED
    BY <1>5, <2>1, <2>2 DEF Assign, SavePhotoStatus
<1>6. ASSUME NEW c \in VCalls, DocumentAction(c) \/ RevertDocumentDecision(c) PROVE VTypeOK'
  <2>1. \E op \in VStep, to \in DocStatus : CommitDocument(c, op, to)
    <3>1. \/ CommitDocument(c, "docApprove", "VERIFIED")
          \/ CommitDocument(c, "docReject", "REJECTED")
          \/ CommitDocument(c, "docRevert", "PENDING")
      BY <1>6 DEF DocumentAction, RevertDocumentDecision
    <3> QED
      BY <3>1, Zenon DEF VStep, DocStatus
  <2> PICK op \in VStep, to \in DocStatus : CommitDocument(c, op, to)
    BY <2>1
  <2>2. handler' \in [VCalls -> Handler]
    BY GoType DEF CommitDocument, VStep
  <2>3. (to = "VERIFIED") \in BOOLEAN
    BY Zenon
  <2> QED
    BY <2>2, <2>3 DEF CommitDocument
<1>7. ASSUME NEW c \in VCalls, ClearPhotos(c) \/ WritePhotos(c) PROVE VTypeOK'
  <2>1. handler' \in [VCalls -> Handler]
    BY <1>7, GoType DEF ClearPhotos, WritePhotos, VStep
  <2> QED
    BY <1>7, <2>1 DEF ClearPhotos, WritePhotos
<1>8. ASSUME NEW c \in VCalls, Approve(c) \/ RefuseRevert(c) PROVE VTypeOK'
  <2>1. PICK op : CommitApproved(c, op)
    BY <1>8 DEF Approve, RefuseRevert
  <2>2. handler' \in [VCalls -> Handler] /\ final' \in [Ids -> FinalState]
    BY <2>1, RewrittenType, FinalTypes DEF CommitApproved
  <2> QED
    BY <2>1, <2>2 DEF CommitApproved, FinalState, VStatus, VActive
<1>9. ASSUME NEW c \in VCalls, Reject(c) \/ RequestRevert(c) \/ AllowRevert(c) PROVE VTypeOK'
  <2>1. handler' \in [VCalls -> Handler] /\ final' \in [Ids -> FinalState]
    BY <1>9, RewrittenType, FinalTypes DEF Reject, RequestRevert, AllowRevert
  <2>2. CASE Reject(c)
    BY <2>1, <2>2 DEF Reject, FinalState, VStatus, DocStatus
  <2>3. CASE RequestRevert(c)
    BY <2>1, <2>3 DEF RequestRevert, FinalState, VStatus, VActive
  <2>4. CASE AllowRevert(c)
    BY <2>1, <2>4 DEF AllowRevert, FinalState, VStatus, VActive, VEditable, DocStatus
  <2> QED
    BY <1>9, <2>2, <2>3, <2>4
<1>10. ASSUME NEW c \in VCalls, VSchedule(c) \/ VUnschedule(c) \/ FinalReads(c) PROVE VTypeOK'
  <2>1. handler' \in [VCalls -> Handler]
    BY <1>10, GoType DEF VSchedule, VUnschedule, FinalReads, VStep
  <2>2. final' \in [Ids -> FinalState]
    <3>1. CASE VSchedule(c)
      BY <3>1 DEF VSchedule, FinalState
    <3> QED
      BY <1>10, <3>1, FinalTypes DEF VUnschedule, FinalReads, FinalState
  <2> QED
    BY <1>10, <2>1, <2>2 DEF VSchedule, VUnschedule, FinalReads, FinalState
<1>11. ASSUME NEW c \in VCalls, Finalize(c) PROVE VTypeOK'
  <2>1. handler' \in [VCalls -> Handler] /\ final' \in [Ids -> FinalState]
    BY <1>11, GoType, FinalTypes DEF Finalize, VStep
  <2> QED
    BY <1>11, <2>1 DEF Finalize, FinalState, VStatus, DocStatus
<1>12. ASSUME NEW c \in VCalls, VDies(c) PROVE VTypeOK'
  <2>1. handler' \in [VCalls -> Handler]
    BY <1>12, GoType DEF VDies, VStep
  <2>2. vfaults' \in 0..MaxVFaults
    BY <1>12, VFaultsAssumption DEF VDies
  <2>3. final' \in [Ids -> FinalState]
    BY <1>12 DEF VDies, FinalState
  <2> QED
    BY <1>12, <2>1, <2>2, <2>3 DEF VDies, FinalState
<1>13. ASSUME NEW r \in Ids, WindowEnds(r) PROVE VTypeOK'
  BY <1>13, FinalTypes DEF WindowEnds, FinalState
<1>14. CASE CheckExpiredDocuments
  BY <1>14 DEF CheckExpiredDocuments, DocStatus
<1>15. ASSUME NEW status \in DocStatus, UpdateDriverVerification(status) PROVE VTypeOK'
  BY <1>15 DEF UpdateDriverVerification, DocStatus
<1>16. CASE UNCHANGED vvars
  BY <1>16 DEF vvars
<1> QED
  BY <1>1, <1>2, <1>3, <1>4, <1>5, <1>6, <1>7, <1>8, <1>9, <1>10, <1>11, <1>12, <1>13, <1>14, <1>15, <1>16
  DEF VNext, VContinues, Starts
-----------------------------------------------------------------------------
(* What holds however the handlers overlap.                                *)

\* A step that starts no handler changes one row, or none, or makes one.
LEMMA RequestCases ==
    ASSUME VTypeOK, HandlersAreMade, [VNext]_vvars
    PROVE  \/ request' = request
           \/ Made # Ids /\ request' = [request EXCEPT ![Cardinality(Made) + 1] = "PENDING"]
           \/ \E r \in Made, to \in VStatus \ {"NONE"} : request' = [request EXCEPT ![r] = to]
<1> DEFINE Some == \E r \in Made, to \in VStatus \ {"NONE"} : request' = [request EXCEPT ![r] = to]
<1> HIDE DEF Some
<1>1. ASSUME NEW c \in VCalls, Starts(c) PROVE request' = request
  BY <1>1, StartsBegun
<1>2. ASSUME NEW c \in VCalls, Assign(c) PROVE Some
  <2>1. HandlerIsMade(handler[c]) /\ handler[c] \in Handler
    BY DEF HandlersAreMade, VTypeOK
  <2>2. PICK h : h = handler[c]
    OBVIOUS
  <2>3. h.request \in Made /\ h.seen \in VStatus \ {"NONE"}
    BY <1>2, <2>1, <2>2 DEF Assign, HandlerIsMade, Handler
  <2>4. "IN_REVIEW" \in VStatus \ {"NONE"}
    BY DEF VStatus, VActive, VEditable
  <2>5. \E to \in VStatus \ {"NONE"} : request' = [request EXCEPT ![h.request] = to]
    <3>1. CASE h.seen = "PENDING"
      BY <1>2, <2>2, <2>4, <3>1 DEF Assign
    <3>2. CASE h.seen # "PENDING"
      BY <1>2, <2>2, <2>3, <3>2 DEF Assign
    <3> QED
      BY <3>1, <3>2
  <2> QED
    BY <2>3, <2>5 DEF Some
<1>3. ASSUME NEW c \in VCalls, SavePhotoStatus(c) PROVE Some
  <2>1. PICK r : r = handler[c].request
    OBVIOUS
  <2>2. r \in Made
    BY <1>3, <2>1 DEF SavePhotoStatus, HandlersAreMade, HandlerIsMade
  <2>3. request[r] \in VStatus \ {"NONE"} /\ "IN_REVIEW" \in VStatus \ {"NONE"}
    BY <2>2 DEF VTypeOK, Made, VStatus, VActive, VEditable
  <2>4. \E to \in VStatus \ {"NONE"} : request' = [request EXCEPT ![r] = to]
    <3>1. CASE handler[c].seen = "PENDING"
      BY <1>3, <2>1, <2>3, <3>1 DEF SavePhotoStatus
    <3>2. CASE handler[c].seen # "PENDING"
      BY <1>3, <2>1, <2>3, <3>2 DEF SavePhotoStatus
    <3> QED
      BY <3>1, <3>2
  <2> QED
    BY <2>2, <2>4 DEF Some
<1>4. ASSUME NEW c \in VCalls,
             \/ Approve(c) \/ RefuseRevert(c) \/ Reject(c) \/ RequestRevert(c) \/ AllowRevert(c)
             \/ Finalize(c)
      PROVE  Some
  <2>1. PICK r : r = handler[c].request
    OBVIOUS
  <2>2. r \in Made
    BY <1>4, <2>1 DEF Approve, RefuseRevert, CommitApproved, Reject, RequestRevert, AllowRevert, Finalize,
       HandlersAreMade, HandlerIsMade
  <2>3. {"APPROVED", "REJECTED", "REVERT_REQUESTED", "REVERTED", "FINAL_APPROVED"} \subseteq VStatus \ {"NONE"}
    BY DEF VStatus, VActive, VEditable
  <2>4. \E to \in {"APPROVED", "REJECTED", "REVERT_REQUESTED", "REVERTED", "FINAL_APPROVED"} :
           request' = [request EXCEPT ![r] = to]
    BY <1>4, <2>1 DEF Approve, RefuseRevert, CommitApproved, Reject, RequestRevert, AllowRevert, Finalize
  <2> QED
    BY <2>2, <2>3, <2>4 DEF Some
<1>5. ASSUME NEW c \in VCalls, CreateRequest(c)
      PROVE  \/ request' = request
             \/ Made # Ids /\ request' = [request EXCEPT ![Cardinality(Made) + 1] = "PENDING"]
  BY <1>5 DEF CreateRequest
<1>6. ASSUME NEW c \in VCalls,
             \/ AutoReads(c) \/ EnsureReads(c) \/ Reinstate(c) \/ DocumentAction(c)
             \/ RevertDocumentDecision(c) \/ ClearPhotos(c) \/ WritePhotos(c)
             \/ VSchedule(c) \/ VUnschedule(c) \/ FinalReads(c) \/ VDies(c)
      PROVE  request' = request
  BY <1>6 DEF AutoReads, EnsureReads, Reinstate, DocumentAction, RevertDocumentDecision, CommitDocument,
     ClearPhotos, WritePhotos, VSchedule, VUnschedule, FinalReads, VDies
<1>7. ASSUME OnItsOwn \/ UNCHANGED vvars
      PROVE  request' = request
  BY <1>7 DEF OnItsOwn, WindowEnds, CheckExpiredDocuments, UpdateDriverVerification, vvars
<1> QED
  BY <1>1, <1>2, <1>3, <1>4, <1>5, <1>6, <1>7 DEF VNext, OnItsOwn, VContinues, Starts, Some

\* The next row of a set that is numbered without gaps.
LEMMA NextNumber ==
    ASSUME NEW n \in 0..MaxRequests, Made = 1..n, Made # Ids
    PROVE  n \in Nat /\ n + 1 \in Ids /\ Cardinality(Made) + 1 = n + 1
<1>1. Cardinality(1..n) = n
  BY FS_Interval
<1> QED
  BY <1>1, RequestsAssumption DEF Ids

\* Requests are made in the order of their numbers.
LEMMA NumberedStep ==
    VTypeOK /\ NumberedInTurn /\ HandlersAreMade /\ [VNext]_vvars
        => NumberedInTurn' /\ Made \subseteq Made'
<1> SUFFICES ASSUME VTypeOK, NumberedInTurn, HandlersAreMade, [VNext]_vvars
             PROVE  NumberedInTurn' /\ Made \subseteq Made'
  OBVIOUS
<1>1. PICK n \in 0..MaxRequests : Made = 1..n
  BY DEF NumberedInTurn
<1>2. CASE request' = request
  BY <1>1, <1>2 DEF NumberedInTurn, Made
<1>3. CASE Made # Ids /\ request' = [request EXCEPT ![Cardinality(Made) + 1] = "PENDING"]
  <2>1. n \in Nat /\ n + 1 \in Ids /\ Cardinality(Made) + 1 = n + 1
    BY <1>1, <1>3, NextNumber
  <2>2. request' = [request EXCEPT ![n + 1] = "PENDING"]
    BY <1>3, <2>1
  <2>3. Made' = Made \cup {n + 1}
    BY <2>1, <2>2 DEF Made, VTypeOK
  <2>4. n + 1 \in 0..MaxRequests /\ Made' = 1..(n + 1)
    BY <1>1, <2>1, <2>3, RequestsAssumption DEF Ids
  <2> QED
    BY <2>3, <2>4 DEF NumberedInTurn
<1>4. ASSUME NEW r \in Made, NEW to \in VStatus \ {"NONE"}, request' = [request EXCEPT ![r] = to]
      PROVE  Made' = Made
  BY <1>4 DEF Made, VTypeOK
<1> QED
  BY <1>1, <1>2, <1>3, <1>4, RequestCases DEF NumberedInTurn
\* How a step that starts no handler leaves a handler h.
Moved(h, k) ==
    \/ k = h
    \/ k = VIdle
    \/ h.step = "schedule" /\ k = [h EXCEPT !.flag = FALSE]
    \/ /\ h.step \in {"approve", "reject", "revert", "allow", "refuse"}
       /\ \E s \in {"schedule", "unschedule"} : k = [h EXCEPT !.step = s, !.flag = TRUE]
    \/ h.step \in {"auto", "ensure"} /\ k = [h EXCEPT !.step = "create"]
    \/ h.step = "reinstate" /\ k = [h EXCEPT !.step = "ensure"]
    \/ h.step = "photoClear" /\ k = [h EXCEPT !.step = "photoWrite"]
    \/ h.step = "photoWrite" /\ k = [h EXCEPT !.step = "photoStatus"]
    \/ h.step = "finalRead" /\ request[h.request] = "APPROVED" /\ k = [h EXCEPT !.step = "final"]

LEMMA MovedCases ==
    ASSUME VTypeOK, [VNext]_vvars, \A c \in VCalls : ~Starts(c), NEW d \in VCalls
    PROVE  Moved(handler[d], handler'[d])
<1>1. ASSUME NEW c \in VCalls, VFinish(c) PROVE Moved(handler[d], handler'[d])
  BY <1>1 DEF VFinish, Moved, VTypeOK
<1>2. ASSUME NEW c \in VCalls, NEW s, VGo(c, s)
      PROVE  /\ d # c => handler'[d] = handler[d]
             /\ d = c => handler'[d] = [handler[d] EXCEPT !.step = s]
  BY <1>2 DEF VGo, VTypeOK
<1>3. ASSUME NEW c \in VCalls, NEW s \in {"schedule", "unschedule"}, NEW r,
             handler' = Rewritten(c, r, s),
             handler[c].step \in {"approve", "reject", "revert", "allow", "refuse"}
      PROVE  Moved(handler[d], handler'[d])
  <2>1. handler'[d] = Rewritten(c, r, s)[d] /\ s # "idle"
    BY <1>3
  <2>2. CASE d = c
    <3>1. handler'[d] = [handler[d] EXCEPT !.step = s, !.flag = TRUE]
      BY <2>1, <2>2 DEF Rewritten
    <3> QED
      BY <1>3, <2>2, <3>1 DEF Moved
  <2>3. CASE d # c /\ handler[d].request = r /\ handler[d].step = "schedule"
    BY <2>1, <2>3 DEF Rewritten, Moved
  <2>4. CASE d # c /\ ~(handler[d].request = r /\ handler[d].step = "schedule")
    BY <2>1, <2>4 DEF Rewritten, Moved
  <2> QED
    BY <2>2, <2>3, <2>4
<1>4. ASSUME NEW c \in VCalls, AutoReads(c) \/ EnsureReads(c) PROVE Moved(handler[d], handler'[d])
  BY <1>1, <1>2, <1>4 DEF AutoReads, EnsureReads, Moved
<1>5. ASSUME NEW c \in VCalls, Reinstate(c) \/ ClearPhotos(c) \/ WritePhotos(c)
      PROVE  Moved(handler[d], handler'[d])
  BY <1>1, <1>2, <1>5 DEF Reinstate, ClearPhotos, WritePhotos, Moved
<1>6. ASSUME NEW c \in VCalls, FinalReads(c) PROVE Moved(handler[d], handler'[d])
  BY <1>1, <1>2, <1>6 DEF FinalReads, Moved
<1>7. ASSUME NEW c \in VCalls,
             \/ CreateRequest(c) \/ Assign(c) \/ DocumentAction(c) \/ RevertDocumentDecision(c)
             \/ SavePhotoStatus(c) \/ VSchedule(c) \/ VUnschedule(c) \/ Finalize(c) \/ VDies(c)
      PROVE  Moved(handler[d], handler'[d])
  <2>1. VFinish(c)
    BY <1>7 DEF CreateRequest, Assign, DocumentAction, RevertDocumentDecision, CommitDocument,
       SavePhotoStatus, VSchedule, VUnschedule, Finalize, VDies
  <2> QED
    BY <1>1, <2>1
<1>8. ASSUME NEW c \in VCalls,
             \/ Approve(c) \/ RefuseRevert(c) \/ Reject(c) \/ RequestRevert(c) \/ AllowRevert(c)
      PROVE  Moved(handler[d], handler'[d])
  <2>1. /\ handler[c].step \in {"approve", "reject", "revert", "allow", "refuse"}
        /\ \E r : \E s \in {"schedule", "unschedule"} : handler' = Rewritten(c, r, s)
    BY <1>8, Zenon DEF Approve, RefuseRevert, CommitApproved, Reject, RequestRevert, AllowRevert
  <2> QED
    BY <1>3, <2>1
<1>9. ASSUME OnItsOwn \/ UNCHANGED vvars
      PROVE  Moved(handler[d], handler'[d])
  BY <1>9 DEF OnItsOwn, WindowEnds, CheckExpiredDocuments, UpdateDriverVerification, vvars, Moved
<1> QED
  BY <1>4, <1>5, <1>6, <1>7, <1>8, <1>9 DEF VNext, OnItsOwn, VContinues, Starts

\* A handler that starts works on a request that was made.
LEMMA BegunIsMade == ASSUME VTypeOK, NEW h, Begun(h) PROVE HandlerIsMade(h)
<1>1. ASSUME NEW s, NEW by, NEW r
      PROVE  /\ On(s, by, r).step = s /\ On(s, by, r).request = r
             /\ [On(s, by, r) EXCEPT !.seen = request[r]].step = s
             /\ [On(s, by, r) EXCEPT !.seen = request[r]].request = r
             /\ [On(s, by, r) EXCEPT !.seen = request[r]].seen = request[r]
             /\ [On(s, by, r) EXCEPT !.flag = photos[r], !.seen = request[r]].step = s
             /\ [On(s, by, r) EXCEPT !.flag = photos[r], !.seen = request[r]].request = r
             /\ \A d : [On(s, by, r) EXCEPT !.doc = d].step = s
  BY DEF On, VIdle
<1>2. ASSUME NEW r \in Ids, request[r] \in VActive PROVE r \in Made /\ request[r] # "NONE"
  BY <1>2 DEF Made, VActive, VEditable
<1>3. ASSUME NEW op \in {"approve", "reject", "revert", "allow", "refuse"}, NEW r \in Ids, Asked(op, r)
      PROVE  r \in Made
  BY <1>3 DEF Asked, MayApprove, Latest, Made, VEditable
<1>4. CASE \/ \E op \in {"auto", "ensure", "reinstate"}, by \in {"user", "cron"} : h = On(op, by, 0)
           \/ \E r \in Ids, by \in {"job", "cron"} : h = On("finalRead", by, r)
  BY <1>1, <1>4 DEF HandlerIsMade
<1>5. CASE \E r \in Ids, op \in {"approve", "reject", "revert", "allow", "refuse"} :
              Asked(op, r) /\ h = On(op, "user", r)
  BY <1>1, <1>3, <1>5 DEF HandlerIsMade
<1>6. CASE \E r \in Ids :
              request[r] \in VActive /\ h = [On("assign", "user", r) EXCEPT !.seen = request[r]]
  BY <1>1, <1>2, <1>6 DEF HandlerIsMade
<1>7. CASE \E r \in Ids, d \in Docs, op \in {"docApprove", "docReject", "docRevert"} :
              h = [On(op, "user", r) EXCEPT !.doc = d]
  BY <1>1, <1>7 DEF HandlerIsMade
<1>8. CASE \E r \in Ids, op \in {"photoClear", "photoWrite"} :
              /\ request[r] \in VEditable
              /\ h = [On(op, "user", r) EXCEPT !.flag = photos[r], !.seen = request[r]]
  BY <1>1, <1>2, <1>8 DEF HandlerIsMade, VActive
<1> QED
  BY <1>4, <1>5, <1>6, <1>7, <1>8 DEF Begun

\* Going on, it still does.
LEMMA MovedIsMade ==
    ASSUME VTypeOK, NEW h \in Handler, NEW k, HandlerIsMade(h), Moved(h, k)
    PROVE  HandlerIsMade(k)
<1>1. CASE k = h \/ k = VIdle
  BY <1>1 DEF HandlerIsMade, VIdle
<1>2. CASE h.step = "schedule" /\ k = [h EXCEPT !.flag = FALSE]
  BY <1>2 DEF HandlerIsMade, Handler
<1>3. CASE \/ \E s \in {"schedule", "unschedule"} : k = [h EXCEPT !.step = s, !.flag = TRUE]
           \/ h.step \in {"auto", "ensure"} /\ k = [h EXCEPT !.step = "create"]
           \/ h.step = "reinstate" /\ k = [h EXCEPT !.step = "ensure"]
  BY <1>3 DEF HandlerIsMade, Handler
<1>4. CASE \/ h.step = "photoClear" /\ k = [h EXCEPT !.step = "photoWrite"]
           \/ h.step = "photoWrite" /\ k = [h EXCEPT !.step = "photoStatus"]
  BY <1>4 DEF HandlerIsMade, Handler
<1>5. CASE h.step = "finalRead" /\ request[h.request] = "APPROVED" /\ k = [h EXCEPT !.step = "final"]
  BY <1>5 DEF HandlerIsMade, Handler, Made
<1> QED
  BY <1>1, <1>2, <1>3, <1>4, <1>5 DEF Moved

LEMMA HandlersMadeStep ==
    VTypeOK /\ NumberedInTurn /\ HandlersAreMade /\ [VNext]_vvars => HandlersAreMade'
<1> SUFFICES ASSUME VTypeOK, NumberedInTurn, HandlersAreMade, [VNext]_vvars, NEW d \in VCalls,
                    NEW k, k = handler'[d]
             PROVE  HandlerIsMade(k)'
  BY DEF HandlersAreMade
<1>1. ASSUME HandlerIsMade(k) PROVE HandlerIsMade(k)'
  BY <1>1, NumberedStep DEF HandlerIsMade
<1>2. HandlerIsMade(handler[d]) /\ handler[d] \in Handler
  BY DEF HandlersAreMade, VTypeOK
<1>3. ASSUME NEW c \in VCalls, Starts(c) PROVE HandlerIsMade(k)
  <2>1. PICK h : Begun(h) /\ handler' = [handler EXCEPT ![c] = h]
    BY <1>3, StartsBegun
  <2>2. k = h \/ k = handler[d]
    BY <2>1 DEF VTypeOK
  <2> QED
    BY <1>2, <2>1, <2>2, BegunIsMade
<1>4. CASE \A c \in VCalls : ~Starts(c)
  <2>1. Moved(handler[d], k)
    BY <1>4, MovedCases
  <2> QED
    <3>1. PICK h : h = handler[d]
      OBVIOUS
    <3>2. h \in Handler /\ HandlerIsMade(h) /\ Moved(h, k)
      BY <1>2, <2>1, <3>1
    <3>3. HandlerIsMade(k)
      BY <3>2, MovedIsMade
    <3> QED
      BY <1>1, <3>3
<1> QED
  BY <1>1, <1>3, <1>4
LEMMA VerificationInvariant == VSpec => []VerificationInv
<1>1. VInit => VerificationInv
  <2> SUFFICES ASSUME VInit PROVE VerificationInv
    OBVIOUS
  <2>1. Made = {} /\ 0 \in 0..MaxRequests /\ 1..0 = {}
    BY RequestsAssumption DEF VInit, Made
  <2>2. \A c \in VCalls : HandlerIsMade(VIdle)
    BY DEF HandlerIsMade, VIdle
  <2> QED
    BY <2>1, <2>2, InitType DEF VInit, VerificationInv, NumberedInTurn, HandlersAreMade
<1>2. VerificationInv /\ [VNext]_vvars => VerificationInv'
  BY NextType, NumberedStep, HandlersMadeStep DEF VerificationInv
<1> QED
  BY <1>1, <1>2, PTL DEF VSpec

-----------------------------------------------------------------------------
(* What holds as long as the handlers keep apart.                          *)

\* What overlapped has overlapped.
LEMMA StaysCalm == ASSUME [VNext]_vvars, calm' PROVE calm
<1>1. ASSUME NEW c \in VCalls, NEW h, VStart(c, h) PROVE calm
  BY <1>1 DEF VStart
<1>2. ASSUME NEW c \in VCalls, Starts(c) PROVE calm
  BY <1>1, <1>2 DEF Starts, Upload, CronFindsDriver, BeginEnsure, BeginReinstate, BeginAssign,
     BeginReview, BeginRevertDocument, BeginDocument, BeginPhotos, BeginApprove, BeginReject,
     BeginRevert, BeginRevertDecision, BeginDecision, FinalJobStarts, FinalCronStarts
<1>3. ASSUME NEW c \in VCalls, VContinues(c) PROVE calm
  <2>1. calm' = calm \/ calm' = (calm /\ ActiveIds = {})
    BY <1>3 DEF VContinues, AutoReads, CreateRequest, EnsureReads, Reinstate, Assign, DocumentAction,
       RevertDocumentDecision, CommitDocument, ClearPhotos, WritePhotos, SavePhotoStatus, Approve,
       RefuseRevert, CommitApproved, Reject, RequestRevert, AllowRevert, VSchedule, VUnschedule,
       FinalReads, Finalize
  <2> QED
    BY <2>1
<1>4. ASSUME NEW c \in VCalls, VDies(c) PROVE calm
  BY <1>4 DEF VDies
<1>5. ASSUME OnItsOwn \/ UNCHANGED vvars PROVE calm
  BY <1>5 DEF OnItsOwn, WindowEnds, CheckExpiredDocuments, UpdateDriverVerification, vvars
<1> QED
  BY <1>2, <1>3, <1>4, <1>5 DEF VNext, OnItsOwn, Starts

LEMMA OnlyOne ==
    ASSUME OneHandler, NEW c \in VCalls, VContinues(c)
    PROVE  \A d \in VCalls : d # c => handler[d] = VIdle
<1>1. handler[c].step # "idle"
  BY DEF VContinues, AutoReads, CreateRequest, EnsureReads, Reinstate, Assign, DocumentAction,
     RevertDocumentDecision, CommitDocument, ClearPhotos, WritePhotos, SavePhotoStatus, Approve,
     RefuseRevert, CommitApproved, Reject, RequestRevert, AllowRevert, VSchedule, VUnschedule,
     FinalReads, Finalize
<1>2. handler[c] # VIdle
  BY <1>1 DEF VIdle
<1> QED
  BY <1>2 DEF OneHandler

\* What an expiry or an administrator's update does to driver and documents.
OnlyByHand ==
    /\ UNCHANGED <<handler, request>>
    /\ \A d \in Docs : accepted[d] => accepted'[d]
    /\ \A d \in Docs : doc'[d] = "VERIFIED" => doc[d] = "VERIFIED" \/ accepted'[d]
    /\ driver' = "VERIFIED" => byHand' \/ UNCHANGED <<driver, byHand>>

\* In a calm step a handler starts while no other is in progress, or the only
\* one goes on, or neither handlers nor requests change.
LEMMA CalmCases ==
    ASSUME VTypeOK, OneHandler, [VNext]_vvars, calm'
    PROVE  \/ \E c \in VCalls : Starts(c) /\ Alone
           \/ \E c \in VCalls : VContinues(c) /\ \A d \in VCalls : ~Starts(d)
           \/ OnlyByHand
<1>1. ASSUME NEW c \in VCalls, Starts(c) PROVE Alone
  BY <1>1, StartsBegun
<1>2. ASSUME NEW c \in VCalls, VDies(c) PROVE FALSE
  BY <1>2 DEF VDies
<1>3. ASSUME NEW r \in Ids, WindowEnds(r) PROVE OnlyByHand
  BY <1>3 DEF WindowEnds, OnlyByHand
<1>4. CASE CheckExpiredDocuments
  BY <1>4 DEF CheckExpiredDocuments, OnlyByHand
<1>5. ASSUME NEW status \in DocStatus, UpdateDriverVerification(status) PROVE OnlyByHand
  <2>1. CASE status = "VERIFIED"
    <3>1. byHand' /\ \A d \in Docs : accepted'[d]
      BY <1>5, <2>1 DEF UpdateDriverVerification
    <3> QED
      BY <1>5, <3>1, Zenon DEF UpdateDriverVerification, OnlyByHand
  <2>2. CASE status # "VERIFIED"
    <3>1. driver' # "VERIFIED" /\ UNCHANGED docVars
      BY <1>5, <2>2 DEF UpdateDriverVerification
    <3> QED
      BY <1>5, <3>1 DEF UpdateDriverVerification, OnlyByHand
  <2> QED
    BY <2>1, <2>2
<1>6. CASE UNCHANGED vvars
  BY <1>6 DEF vvars, OnlyByHand
<1> QED
  BY <1>1, <1>2, <1>3, <1>4, <1>5, <1>6 DEF VNext, Starts

LEMMA IdleMoves == ASSUME NEW k, Moved(VIdle, k) PROVE k = VIdle
BY DEF Moved, VIdle

LEMMA OneHandlerStep ==
    ASSUME VTypeOK, OneHandler, [VNext]_vvars, calm'
    PROVE  OneHandler'
<1>1. ASSUME NEW c \in VCalls, Starts(c), Alone PROVE OneHandler'
  <2>1. \A d \in VCalls : d # c => handler'[d] = VIdle
    BY <1>1, StartsBegun DEF Alone, VTypeOK
  <2> QED
    BY <2>1 DEF OneHandler
<1>2. ASSUME NEW c \in VCalls, VContinues(c), \A d \in VCalls : ~Starts(d) PROVE OneHandler'
  <2>1. ASSUME NEW d \in VCalls, d # c PROVE handler'[d] = VIdle
    <3>1. handler[d] = VIdle /\ Moved(handler[d], handler'[d])
      BY <1>2, <2>1, OnlyOne, MovedCases
    <3> QED
      BY <3>1, IdleMoves
  <2> QED
    BY <2>1 DEF OneHandler
<1>3. CASE UNCHANGED handler
  BY <1>3 DEF OneHandler
<1> QED
  BY <1>1, <1>2, <1>3, CalmCases DEF OnlyByHand
\* What an only handler may do to the requests, if it makes none.
RowsKept ==
    /\ Made' = Made
    /\ \A r \in Ids :
          /\ request'[r] \in VActive => request[r] \in VActive
          /\ request'[r] \in {"APPROVED", "REVERT_REQUESTED"} =>
                request[r] \in {"APPROVED", "REVERT_REQUESTED"} \/ \A d \in Docs : accepted[d]
          /\ request'[r] = "REJECTED" => request[r] = "REJECTED" \/ driver' = "REJECTED"

LEMMA RowWritten ==
    ASSUME VTypeOK, NEW r \in Made, NEW to \in VStatus \ {"NONE"},
           request' = [request EXCEPT ![r] = to],
           to \in VActive => request[r] \in VActive,
           to \in {"APPROVED", "REVERT_REQUESTED"} =>
              request[r] \in {"APPROVED", "REVERT_REQUESTED"} \/ \A d \in Docs : accepted[d],
           to = "REJECTED" => request[r] = "REJECTED" \/ driver' = "REJECTED"
    PROVE  RowsKept
<1>1. \A s \in Ids : request'[s] = IF s = r THEN to ELSE request[s]
  BY DEF VTypeOK
<1>2. Made' = Made
  BY <1>1 DEF Made
<1> QED
  BY <1>1, <1>2 DEF RowsKept

LEMMA RowsUntouched == request' = request => RowsKept
BY DEF RowsKept, Made

LEMMA RowsKeptStep ==
    ASSUME VerificationInv, InTurn, NEW c \in VCalls, VContinues(c), ~CreateRequest(c)
    PROVE  RowsKept
<1>1. PICK h : h = handler[c]
  OBVIOUS
<1>2. VTypeOK /\ HandlerFits(h) /\ HandlerIsMade(h)
  BY <1>1 DEF VerificationInv, HandlersAreMade, InTurn, HandlersFit
<1>3. h \in Handler
  BY <1>1, <1>2 DEF VTypeOK
<1>4. CASE Assign(c)
  <2>1. h.request \in Made /\ request[h.request] = h.seen /\ h.seen \in VActive
    BY <1>1, <1>2, <1>4 DEF Assign, HandlerIsMade, HandlerFits
  <2>2. CASE h.seen = "PENDING"
    <3>1. request' = [request EXCEPT ![h.request] = "IN_REVIEW"]
      BY <1>1, <1>4, <2>2 DEF Assign
    <3>2. "IN_REVIEW" \in VStatus \ {"NONE"}
      BY DEF VStatus, VActive, VEditable
    <3> QED
      BY <1>2, <2>1, <3>1, <3>2, RowWritten
  <2>3. CASE h.seen # "PENDING"
    <3>1. request' = [request EXCEPT ![h.request] = h.seen]
      BY <1>1, <1>4, <2>3 DEF Assign
    <3>2. request' = request
      BY <1>2, <2>1, <3>1 DEF VTypeOK
    <3> QED
      BY <3>2, RowsUntouched
  <2> QED
    BY <2>2, <2>3
<1>5. CASE SavePhotoStatus(c)
  <2>1. h.request \in Made /\ request[h.request] = h.seen /\ h.seen \in VActive
    BY <1>1, <1>2, <1>5 DEF SavePhotoStatus, HandlerIsMade, HandlerFits, VActive
  <2>2. CASE h.seen = "PENDING"
    <3>1. request' = [request EXCEPT ![h.request] = "IN_REVIEW"]
      BY <1>1, <1>5, <2>2 DEF SavePhotoStatus
    <3>2. "IN_REVIEW" \in VStatus \ {"NONE"}
      BY DEF VStatus, VActive, VEditable
    <3> QED
      BY <1>2, <2>1, <3>1, <3>2, RowWritten
  <2>3. CASE h.seen # "PENDING"
    <3>1. request' = request
      BY <1>1, <1>2, <1>5, <2>3 DEF SavePhotoStatus, VTypeOK
    <3> QED
      BY <3>1, RowsUntouched
  <2> QED
    BY <2>2, <2>3
<1>6. CASE Approve(c) \/ RefuseRevert(c)
  <2>1. /\ h.request \in Made /\ request' = [request EXCEPT ![h.request] = "APPROVED"]
        /\ h.step \in {"approve", "refuse"}
    BY <1>1, <1>2, <1>6 DEF Approve, RefuseRevert, CommitApproved, HandlerIsMade
  <2>2. request[h.request] \in VActive
    BY <1>2, <2>1 DEF HandlerFits, VActive
  <2>3. request[h.request] \in {"APPROVED", "REVERT_REQUESTED"} \/ \A d \in Docs : accepted[d]
    BY <1>2, <2>1 DEF HandlerFits
  <2>4. "APPROVED" \in VStatus \ {"NONE"}
    BY DEF VStatus, VActive
  <2> QED
    BY <1>2, <2>1, <2>2, <2>3, <2>4, RowWritten
<1>7. CASE RequestRevert(c)
  <2>1. /\ h.request \in Made /\ request' = [request EXCEPT ![h.request] = "REVERT_REQUESTED"]
        /\ request[h.request] = "APPROVED"
    BY <1>1, <1>2, <1>7 DEF RequestRevert, HandlerIsMade, HandlerFits
  <2>2. "REVERT_REQUESTED" \in VStatus \ {"NONE"} /\ "APPROVED" \in VActive
    BY DEF VStatus, VActive
  <2> QED
    BY <1>2, <2>1, <2>2, RowWritten
<1>8. CASE AllowRevert(c)
  <2>1. /\ h.request \in Made /\ request' = [request EXCEPT ![h.request] = "REVERTED"]
        /\ request[h.request] = "REVERT_REQUESTED"
    BY <1>1, <1>2, <1>8 DEF AllowRevert, HandlerIsMade, HandlerFits
  <2>2. "REVERTED" \in VStatus \ {"NONE"} /\ "REVERT_REQUESTED" \in VActive
    BY DEF VStatus, VActive, VEditable
  <2> QED
    BY <1>2, <2>1, <2>2, RowWritten
<1>9. CASE Reject(c) \/ Finalize(c)
  <2>1. h.request \in Made
    BY <1>1, <1>2, <1>9 DEF Reject, Finalize, HandlerIsMade
  <2>2. \E to \in {"REJECTED", "FINAL_APPROVED"} :
           /\ request' = [request EXCEPT ![h.request] = to]
           /\ to = "REJECTED" => driver' = "REJECTED"
    BY <1>1, <1>9 DEF Reject, Finalize
  <2>3. \A to \in {"REJECTED", "FINAL_APPROVED"} : to \in VStatus \ {"NONE"} /\ to \notin VActive
    BY DEF VStatus, VActive, VEditable
  <2> QED
    BY <1>2, <2>1, <2>2, <2>3, RowWritten
<1>10. CASE \/ AutoReads(c) \/ EnsureReads(c) \/ Reinstate(c) \/ DocumentAction(c)
            \/ RevertDocumentDecision(c) \/ ClearPhotos(c) \/ WritePhotos(c)
            \/ VSchedule(c) \/ VUnschedule(c) \/ FinalReads(c)
  <2>1. request' = request
    BY <1>10 DEF AutoReads, EnsureReads, Reinstate, DocumentAction, RevertDocumentDecision, CommitDocument,
       ClearPhotos, WritePhotos, VSchedule, VUnschedule, FinalReads
  <2> QED
    BY <2>1, RowsUntouched
<1> QED
  BY <1>4, <1>5, <1>6, <1>7, <1>8, <1>9, <1>10 DEF VContinues

\* The request that is made next is the latest, and the only active one.
LEMMA NextIsLatest ==
    ASSUME VerificationInv, NEW c \in VCalls, CreateRequest(c), calm'
    PROVE  \/ request' = request
           \/ /\ ActiveIds = {}
              /\ \E n \in Ids : request' = [request EXCEPT ![n] = "PENDING"] /\ Latest(n)'
<1>1. CASE Made = Ids
  BY <1>1 DEF CreateRequest
<1>2. CASE Made # Ids
  <2>1. /\ request' = [request EXCEPT ![Cardinality(Made) + 1] = "PENDING"]
        /\ ActiveIds = {}
    BY <1>2 DEF CreateRequest
  <2>2. PICK n \in 0..MaxRequests : Made = 1..n
    BY DEF VerificationInv, NumberedInTurn
  <2>3. n \in Nat /\ n + 1 \in Ids /\ Cardinality(Made) + 1 = n + 1
    BY <1>2, <2>2, NextNumber
  <2>4. Made' = Made \cup {n + 1}
    BY <2>1, <2>3 DEF Made, VerificationInv, VTypeOK
  <2>5. \A s \in Made' : s <= n + 1
    BY <2>2, <2>3, <2>4
  <2> QED
    BY <2>1, <2>3, <2>4, <2>5 DEF Latest
<1> QED
  BY <1>1, <1>2
LEMMA ActiveStep ==
    ASSUME VerificationInv, InTurn, [VNext]_vvars, calm'
    PROVE  ActiveIsLatest'
<1>0. VTypeOK /\ OneHandler /\ ActiveIsLatest
  BY DEF VerificationInv, InTurn
<1>1. ASSUME RowsKept PROVE ActiveIsLatest'
  BY <1>0, <1>1 DEF RowsKept, ActiveIsLatest, Latest
<1>2. ASSUME NEW c \in VCalls, CreateRequest(c), request' # request PROVE ActiveIsLatest'
  <2>1. PICK n \in Ids : request' = [request EXCEPT ![n] = "PENDING"] /\ Latest(n)'
    BY <1>2, NextIsLatest
  <2>2. ASSUME NEW r \in Ids, r # n PROVE request'[r] \notin VActive
    BY <1>0, <1>2, <2>1, <2>2, NextIsLatest DEF VTypeOK, ActiveIds
  <2> QED
    BY <2>1, <2>2 DEF ActiveIsLatest
<1>3. ASSUME NEW c \in VCalls, VContinues(c) PROVE ActiveIsLatest'
  BY <1>1, <1>2, <1>3, RowsKeptStep, RowsUntouched
<1>4. ASSUME NEW c \in VCalls, Starts(c) PROVE ActiveIsLatest'
  BY <1>0, <1>1, <1>4, StartsBegun, RowsUntouched
<1> QED
  BY <1>0, <1>1, <1>3, <1>4, CalmCases, RowsUntouched DEF OnlyByHand

\* While documents are accepted, no request is approved.
LEMMA OneIsActive ==
    ASSUME ActiveIsLatest, NEW r \in Ids, NEW s \in Ids,
           request[r] \in VActive, request[s] \in VActive
    PROVE  r = s
BY DEF ActiveIsLatest, Latest, Ids, Made

\* Where a review of a document is taken back.
LEMMA AcceptanceStays ==
    ASSUME VerificationInv, InTurn, NEW c \in VCalls, VContinues(c)
    PROVE  \/ UNCHANGED accepted
           \/ /\ DocumentAction(c) \/ RevertDocumentDecision(c)
              /\ request' = request
              /\ \A r \in Ids : request[r] \notin {"APPROVED", "REVERT_REQUESTED"}
           \/ /\ AllowRevert(c)
              /\ \A r \in Ids : request'[r] \notin {"APPROVED", "REVERT_REQUESTED"}
<1>1. PICK h : h = handler[c]
  OBVIOUS
<1>2. VTypeOK /\ HandlerFits(h) /\ HandlerIsMade(h) /\ ActiveIsLatest
  BY <1>1 DEF VerificationInv, HandlersAreMade, InTurn, HandlersFit
<1>3. CASE DocumentAction(c) \/ RevertDocumentDecision(c)
  <2>1. h.step \in {"docApprove", "docReject", "docRevert"} /\ request' = request
    BY <1>1, <1>3 DEF DocumentAction, RevertDocumentDecision, CommitDocument
  <2>2. h.request \in Ids /\ request[h.request] \in VEditable
    BY <1>2, <2>1 DEF HandlerFits
  <2>3. \A r \in Ids : request[r] \notin {"APPROVED", "REVERT_REQUESTED"}
    BY <1>2, <2>2, OneIsActive DEF VActive, VEditable
  <2> QED
    BY <1>3, <2>1, <2>3
<1>4. CASE AllowRevert(c)
  <2>1. /\ h.request \in Ids /\ request[h.request] = "REVERT_REQUESTED"
        /\ request' = [request EXCEPT ![h.request] = "REVERTED"]
    BY <1>1, <1>2, <1>4 DEF AllowRevert, HandlerFits, HandlerIsMade, Made
  <2>2. \A r \in Ids : request'[r] \notin {"APPROVED", "REVERT_REQUESTED"}
    BY <1>2, <2>1, OneIsActive DEF VActive, VTypeOK
  <2> QED
    BY <1>4, <2>2
<1>5. CASE \/ AutoReads(c) \/ CreateRequest(c) \/ EnsureReads(c) \/ Reinstate(c) \/ Assign(c)
           \/ ClearPhotos(c) \/ WritePhotos(c) \/ SavePhotoStatus(c)
           \/ Approve(c) \/ Reject(c) \/ RequestRevert(c) \/ RefuseRevert(c)
           \/ VSchedule(c) \/ VUnschedule(c) \/ FinalReads(c) \/ Finalize(c)
  BY <1>5 DEF AutoReads, CreateRequest, EnsureReads, Reinstate, Assign, ClearPhotos, WritePhotos,
     SavePhotoStatus, Approve, RefuseRevert, CommitApproved, Reject, RequestRevert, VSchedule,
     VUnschedule, FinalReads, Finalize
<1> QED
  BY <1>3, <1>4, <1>5 DEF VContinues

LEMMA ApprovedStep ==
    ASSUME VerificationInv, InTurn, [VNext]_vvars, calm'
    PROVE  ApprovedWasAccepted'
<1>0. VTypeOK /\ OneHandler /\ ApprovedWasAccepted
  BY DEF VerificationInv, InTurn
<1>1. ASSUME RowsKept, UNCHANGED accepted PROVE ApprovedWasAccepted'
  BY <1>0, <1>1 DEF RowsKept, ApprovedWasAccepted
<1>2. ASSUME NEW c \in VCalls, CreateRequest(c) PROVE ApprovedWasAccepted'
  <2>1. UNCHANGED accepted
    BY <1>2 DEF CreateRequest
  <2>2. \A r \in Ids : request'[r] \in {"APPROVED", "REVERT_REQUESTED"} => request'[r] = request[r]
    BY <1>0, <1>2, NextIsLatest DEF VTypeOK
  <2> QED
    BY <1>0, <2>1, <2>2 DEF ApprovedWasAccepted
<1>3. ASSUME NEW c \in VCalls, VContinues(c), ~CreateRequest(c) PROVE ApprovedWasAccepted'
  <2>1. CASE \A r \in Ids : request'[r] \notin {"APPROVED", "REVERT_REQUESTED"}
    BY <2>1 DEF ApprovedWasAccepted
  <2> QED
    BY <1>1, <1>3, <2>1, RowsKeptStep, AcceptanceStays
<1>4. ASSUME NEW c \in VCalls, Starts(c) PROVE ApprovedWasAccepted'
  <2>1. request' = request
    BY <1>0, <1>4, StartsBegun
  <2>2. ASSUME NEW d \in Docs, Upload(c, d) PROVE ApprovedWasAccepted'
    BY <2>1, <2>2 DEF Upload, ApprovedWasAccepted
  <2>3. CASE \A d \in Docs : ~Upload(c, d)
    <3>1. UNCHANGED accepted
      BY <1>4, <2>3 DEF Starts, CronFindsDriver, BeginEnsure, BeginReinstate, BeginAssign, BeginReview,
         BeginRevertDocument, BeginDocument, BeginPhotos, BeginApprove, BeginReject, BeginRevert,
         BeginRevertDecision, BeginDecision, FinalJobStarts, FinalCronStarts
    <3> QED
      BY <1>0, <2>1, <3>1 DEF ApprovedWasAccepted
  <2> QED
    BY <2>2, <2>3
<1>5. CASE OnlyByHand
  BY <1>0, <1>5 DEF OnlyByHand, ApprovedWasAccepted
<1> QED
  BY <1>0, <1>2, <1>3, <1>4, <1>5, CalmCases

\* A document becomes VERIFIED when it is accepted, or when all were.
LEMMA AcceptedStep ==
    ASSUME VerificationInv, InTurn, [VNext]_vvars, calm'
    PROVE  \A d \in Docs : doc'[d] = "VERIFIED" => accepted'[d]
<1> SUFFICES ASSUME NEW d \in Docs, doc'[d] = "VERIFIED" PROVE accepted'[d]
  OBVIOUS
<1>0. /\ VTypeOK /\ OneHandler /\ ApprovedWasAccepted
      /\ doc[d] = "VERIFIED" => accepted[d]
  BY DEF VerificationInv, InTurn
<1>1. ASSUME UNCHANGED <<doc, accepted>> PROVE accepted'[d]
  BY <1>0, <1>1
<1>2. ASSUME NEW c \in VCalls, Starts(c) PROVE accepted'[d]
  <2>1. ASSUME NEW e \in Docs, Upload(c, e) PROVE accepted'[d]
    BY <1>0, <2>1 DEF Upload, VTypeOK
  <2>2. CASE \A e \in Docs : ~Upload(c, e)
    <3>1. UNCHANGED <<doc, accepted>>
      BY <1>2, <2>2 DEF Starts, CronFindsDriver, BeginEnsure, BeginReinstate, BeginAssign, BeginReview,
         BeginRevertDocument, BeginDocument, BeginPhotos, BeginApprove, BeginReject, BeginRevert,
         BeginRevertDecision, BeginDecision, FinalJobStarts, FinalCronStarts
    <3> QED
      BY <1>1, <3>1
  <2> QED
    BY <2>1, <2>2
<1>3. ASSUME NEW c \in VCalls, VContinues(c) PROVE accepted'[d]
  <2>1. CASE Finalize(c)
    <3>1. PICK h : h = handler[c]
      OBVIOUS
    <3>2. HandlerFits(h) /\ HandlerIsMade(h) /\ h.step = "final"
      BY <2>1, <3>1 DEF VerificationInv, HandlersAreMade, InTurn, HandlersFit, Finalize
    <3>3. h.request \in Ids /\ request[h.request] = "APPROVED"
      BY <3>2 DEF HandlerFits, HandlerIsMade, Made
    <3>4. accepted[d]
      BY <1>0, <3>3 DEF ApprovedWasAccepted
    <3> QED
      BY <2>1, <3>4 DEF Finalize
  <2>2. ASSUME NEW op, NEW to, CommitDocument(c, op, to) PROVE accepted'[d]
    <3>1. PICK e : e = handler[c].doc
      OBVIOUS
    <3>2. doc' = [doc EXCEPT ![e] = to] /\ accepted' = [accepted EXCEPT ![e] = to = "VERIFIED"]
      BY <2>2, <3>1 DEF CommitDocument
    <3> QED
      BY <1>0, <3>2 DEF VTypeOK
  <2>3. CASE AllowRevert(c)
    BY <2>3 DEF AllowRevert
  <2>4. CASE \/ AutoReads(c) \/ CreateRequest(c) \/ EnsureReads(c) \/ Reinstate(c) \/ Assign(c)
             \/ ClearPhotos(c) \/ WritePhotos(c) \/ SavePhotoStatus(c)
             \/ Approve(c) \/ Reject(c) \/ RequestRevert(c) \/ RefuseRevert(c)
             \/ VSchedule(c) \/ VUnschedule(c) \/ FinalReads(c)
    <3>1. UNCHANGED <<doc, accepted>>
      BY <2>4 DEF AutoReads, CreateRequest, EnsureReads, Reinstate, Assign, ClearPhotos, WritePhotos,
         SavePhotoStatus, Approve, RefuseRevert, CommitApproved, Reject, RequestRevert, VSchedule,
         VUnschedule, FinalReads
    <3> QED
      BY <1>1, <3>1
  <2> QED
    BY <1>3, <2>1, <2>2, <2>3, <2>4 DEF VContinues, DocumentAction, RevertDocumentDecision
<1>4. CASE OnlyByHand
  BY <1>0, <1>4 DEF OnlyByHand
<1> QED
  BY <1>0, <1>2, <1>3, <1>4, CalmCases
\* A finalisation that verifies the driver is of the latest request.
LEMMA RejectionStep ==
    ASSUME VerificationInv, InTurn, [VNext]_vvars, calm'
    PROVE  \A r \in Ids :
              Latest(r)' /\ request'[r] = "REJECTED" /\ driver' = "VERIFIED" => byHand'
<1> SUFFICES ASSUME NEW r \in Ids, Latest(r)', request'[r] = "REJECTED", driver' = "VERIFIED"
             PROVE  byHand'
  OBVIOUS
<1>0. /\ VTypeOK /\ OneHandler /\ ActiveIsLatest
      /\ Latest(r) /\ request[r] = "REJECTED" /\ driver = "VERIFIED" => byHand
  BY DEF VerificationInv, InTurn
<1>1. ASSUME RowsKept, driver = "VERIFIED", byHand' = byHand PROVE byHand'
  BY <1>0, <1>1 DEF RowsKept, Latest
<1>2. ASSUME NEW c \in VCalls, Starts(c) PROVE byHand'
  BY <1>0, <1>1, <1>2, StartsBegun, RowsUntouched
<1>3. ASSUME NEW c \in VCalls, CreateRequest(c) PROVE byHand'
  <2>1. UNCHANGED <<driver, byHand>>
    BY <1>3 DEF CreateRequest
  <2>2. CASE request' = request
    BY <1>1, <2>1, <2>2, RowsUntouched
  <2>3. CASE request' # request
    <3>1. PICK n \in Ids : request' = [request EXCEPT ![n] = "PENDING"] /\ Latest(n)'
      BY <1>3, <2>3, NextIsLatest
    <3>2. r = n
      BY <3>1 DEF Latest, Made, Ids
    <3> QED
      BY <1>0, <3>1, <3>2 DEF VTypeOK
  <2> QED
    BY <2>2, <2>3
<1>4. ASSUME NEW c \in VCalls, Finalize(c) PROVE byHand'
  <2>1. PICK h : h = handler[c]
    OBVIOUS
  <2>2. HandlerFits(h) /\ HandlerIsMade(h) /\ h.step = "final"
    BY <1>4, <2>1 DEF VerificationInv, HandlersAreMade, InTurn, HandlersFit, Finalize
  <2>3. h.request \in Made /\ h.request \in Ids /\ request[h.request] = "APPROVED"
    BY <2>2 DEF HandlerFits, HandlerIsMade, Made
  <2>4. request' = [request EXCEPT ![h.request] = "FINAL_APPROVED"]
    BY <1>4, <2>1 DEF Finalize
  <2>5. Made' = Made /\ r # h.request /\ Latest(h.request)
    BY <1>0, <2>3, <2>4 DEF Made, VTypeOK, ActiveIsLatest, VActive
  <2>6. r = h.request
    BY <2>3, <2>5 DEF Latest, Ids
  <2> QED
    BY <2>5, <2>6
<1>5. ASSUME NEW c \in VCalls, VContinues(c), ~CreateRequest(c), ~Finalize(c) PROVE byHand'
  <2>1. driver' # "VERIFIED" \/ UNCHANGED <<driver, byHand>>
    BY <1>5 DEF VContinues, AutoReads, EnsureReads, Reinstate, Assign, DocumentAction,
       RevertDocumentDecision, CommitDocument, ClearPhotos, WritePhotos, SavePhotoStatus, Approve,
       RefuseRevert, CommitApproved, Reject, RequestRevert, AllowRevert, VSchedule, VUnschedule, FinalReads
  <2> QED
    BY <1>1, <1>5, <2>1, RowsKeptStep
<1>6. CASE OnlyByHand
  BY <1>0, <1>1, <1>6, RowsUntouched DEF OnlyByHand
<1> QED
  BY <1>0, <1>2, <1>3, <1>4, <1>5, <1>6, CalmCases

\* A handler that starts has found what it needs.
LEMMA BegunFits ==
    ASSUME VTypeOK, \A d \in Docs : doc[d] = "VERIFIED" => accepted[d], NEW h, Begun(h)
    PROVE  HandlerFits(h)
<1>1. ASSUME NEW s, NEW by, NEW r
      PROVE  /\ On(s, by, r).step = s /\ On(s, by, r).request = r
             /\ [On(s, by, r) EXCEPT !.seen = request[r]].step = s
             /\ [On(s, by, r) EXCEPT !.seen = request[r]].request = r
             /\ [On(s, by, r) EXCEPT !.seen = request[r]].seen = request[r]
             /\ [On(s, by, r) EXCEPT !.flag = photos[r], !.seen = request[r]].step = s
             /\ [On(s, by, r) EXCEPT !.flag = photos[r], !.seen = request[r]].request = r
             /\ [On(s, by, r) EXCEPT !.flag = photos[r], !.seen = request[r]].seen = request[r]
             /\ \A d : /\ [On(s, by, r) EXCEPT !.doc = d].step = s
                       /\ [On(s, by, r) EXCEPT !.doc = d].request = r
  BY DEF On, VIdle
<1>2. CASE \/ \E op \in {"auto", "ensure", "reinstate"}, by \in {"user", "cron"} : h = On(op, by, 0)
           \/ \E r \in Ids, by \in {"job", "cron"} : h = On("finalRead", by, r)
  BY <1>1, <1>2 DEF HandlerFits
<1>3. CASE \E r \in Ids, op \in {"approve", "reject", "revert", "allow", "refuse"} :
              Asked(op, r) /\ h = On(op, "user", r)
  BY <1>1, <1>3 DEF HandlerFits, Asked, MayApprove
<1>4. CASE \E r \in Ids :
              request[r] \in VActive /\ h = [On("assign", "user", r) EXCEPT !.seen = request[r]]
  BY <1>1, <1>4 DEF HandlerFits
<1>5. CASE \E r \in Ids, d \in Docs, op \in {"docApprove", "docReject", "docRevert"} :
              request[r] \in VEditable /\ h = [On(op, "user", r) EXCEPT !.doc = d]
  BY <1>1, <1>5 DEF HandlerFits
<1>6. CASE \E r \in Ids, op \in {"photoClear", "photoWrite"} :
              /\ request[r] \in VEditable
              /\ h = [On(op, "user", r) EXCEPT !.flag = photos[r], !.seen = request[r]]
  BY <1>1, <1>6 DEF HandlerFits
<1> QED
  BY <1>2, <1>3, <1>4, <1>5, <1>6 DEF Begun

\* Where a handler goes on before it writes a row.
ReadsOn(h, k) ==
    \/ h.step = "photoClear" /\ k = [h EXCEPT !.step = "photoWrite"]
    \/ h.step = "photoWrite" /\ k = [h EXCEPT !.step = "photoStatus"]
    \/ h.step = "finalRead" /\ request[h.request] = "APPROVED" /\ k = [h EXCEPT !.step = "final"]

\* How the only handler goes on.
LEMMA OnlyMoves ==
    ASSUME VTypeOK, NEW c \in VCalls, VContinues(c), NEW h, h = handler[c], NEW k, k = handler'[c]
    PROVE  \/ k.step \in {"idle", "create", "ensure", "schedule", "unschedule"}
           \/ UNCHANGED <<request, accepted>> /\ ReadsOn(h, k)
<1>1. VFinish(c) => k.step = "idle"
  BY DEF VFinish, VIdle, VTypeOK
<1>2. \A s : VGo(c, s) => k = [h EXCEPT !.step = s] /\ k.step = s
  BY DEF VGo, VTypeOK, Handler
<1>3. ASSUME NEW s \in {"schedule", "unschedule"}, NEW r, handler' = Rewritten(c, r, s)
      PROVE  k.step = s
  <2>1. k = [h EXCEPT !.step = s, !.flag = TRUE]
    BY <1>3 DEF Rewritten
  <2> QED
    BY <2>1 DEF VTypeOK, Handler
<1>4. CASE AutoReads(c) \/ EnsureReads(c) \/ Reinstate(c)
  BY <1>1, <1>2, <1>4 DEF AutoReads, EnsureReads, Reinstate
<1>5. CASE ClearPhotos(c) \/ WritePhotos(c)
  BY <1>1, <1>2, <1>5 DEF ClearPhotos, WritePhotos, ReadsOn
<1>6. CASE FinalReads(c)
  BY <1>1, <1>2, <1>6 DEF FinalReads, ReadsOn
<1>7. CASE \/ CreateRequest(c) \/ Assign(c) \/ DocumentAction(c) \/ RevertDocumentDecision(c)
           \/ SavePhotoStatus(c) \/ VSchedule(c) \/ VUnschedule(c) \/ Finalize(c)
  BY <1>1, <1>7 DEF CreateRequest, Assign, DocumentAction, RevertDocumentDecision, CommitDocument,
     SavePhotoStatus, VSchedule, VUnschedule, Finalize
<1>8. CASE \/ Approve(c) \/ RefuseRevert(c) \/ Reject(c) \/ RequestRevert(c) \/ AllowRevert(c)
  <2>1. \E r : \E s \in {"schedule", "unschedule"} : handler' = Rewritten(c, r, s)
    BY <1>8, Zenon DEF Approve, RefuseRevert, CommitApproved, Reject, RequestRevert, AllowRevert
  <2> QED
    BY <1>3, <2>1
<1> QED
  BY <1>4, <1>5, <1>6, <1>7, <1>8 DEF VContinues

LEMMA HandlersFitStep ==
    ASSUME VerificationInv, InTurn, [VNext]_vvars, calm'
    PROVE  HandlersFit'
<1> SUFFICES ASSUME NEW d \in VCalls, NEW k, k = handler'[d] PROVE HandlerFits(k)'
  BY DEF HandlersFit
<1>0. /\ VTypeOK /\ OneHandler
      /\ \A e \in Docs : doc[e] = "VERIFIED" => accepted[e]
      /\ \A c \in VCalls : HandlerFits(handler[c])
  BY DEF VerificationInv, InTurn, HandlersFit
<1>1. ASSUME HandlerFits(k), UNCHANGED <<request, accepted>> PROVE HandlerFits(k)'
  BY <1>1 DEF HandlerFits
<1>2. k.step \in {"idle", "auto", "create", "ensure", "schedule", "unschedule"} => HandlerFits(k)'
  BY DEF HandlerFits
<1>3. VIdle.step = "idle" /\ On("auto", "user", 0).step = "auto"
  BY DEF VIdle, On
<1>4. ASSUME NEW c \in VCalls, Starts(c), Alone PROVE HandlerFits(k)'
  <2>1. CASE d # c
    <3>1. k = VIdle
      BY <1>0, <1>4, <2>1, StartsBegun DEF Alone, VTypeOK
    <3> QED
      BY <1>2, <1>3, <3>1
  <2>2. ASSUME d = c, NEW e \in Docs, Upload(c, e) PROVE HandlerFits(k)'
    <3>1. k = On("auto", "user", 0)
      BY <1>0, <2>2 DEF Upload, VTypeOK
    <3> QED
      BY <1>2, <1>3, <3>1
  <2>3. CASE d = c /\ \A e \in Docs : ~Upload(c, e)
    <3>1. UNCHANGED <<request, accepted>>
      BY <1>4, <2>3 DEF Starts, CronFindsDriver, BeginEnsure, BeginReinstate, BeginAssign, BeginReview,
         BeginRevertDocument, BeginDocument, BeginPhotos, BeginApprove, BeginReject, BeginRevert,
         BeginRevertDecision, BeginDecision, FinalJobStarts, FinalCronStarts
    <3>2. Begun(k)
      BY <1>0, <1>4, <2>3, StartsBegun DEF VTypeOK
    <3> QED
      BY <1>0, <1>1, <3>1, <3>2, BegunFits
  <2> QED
    BY <2>1, <2>2, <2>3
<1>5. ASSUME NEW c \in VCalls, VContinues(c), \A e \in VCalls : ~Starts(e) PROVE HandlerFits(k)'
  <2>1. CASE d # c
    <3>1. handler[d] = VIdle /\ Moved(handler[d], k)
      BY <1>0, <1>5, <2>1, OnlyOne, MovedCases
    <3> QED
      BY <1>2, <1>3, <3>1, IdleMoves
  <2>2. CASE d = c
    <3>1. PICK h : h = handler[c]
      OBVIOUS
    <3>2. HandlerFits(h) /\ h \in Handler
      BY <1>0, <3>1 DEF VTypeOK
    <3>3. ASSUME UNCHANGED <<request, accepted>>, ReadsOn(h, k) PROVE HandlerFits(k)'
      <4>1. HandlerFits(k)
        BY <3>2, <3>3 DEF HandlerFits, Handler, ReadsOn
      <4> QED
        BY <1>1, <3>3, <4>1
    <3>4. k = handler'[c]
      BY <2>2
    <3>5. \/ k.step \in {"idle", "create", "ensure", "schedule", "unschedule"}
          \/ UNCHANGED <<request, accepted>> /\ ReadsOn(h, k)
      <4>1. VTypeOK /\ VContinues(c)
        BY <1>0, <1>5
      <4> QED
        BY <3>1, <3>4, <4>1, OnlyMoves
    <3> QED
      BY <1>2, <3>3, <3>5
  <2> QED
    BY <2>1, <2>2
<1>6. CASE OnlyByHand
  BY <1>0, <1>6 DEF OnlyByHand, HandlerFits
<1> QED
  BY <1>0, <1>4, <1>5, <1>6, CalmCases

LEMMA CalmInvariant == VSpec => []CalmInv
<1>1. VInit => CalmInv
  <2> SUFFICES ASSUME VInit PROVE InTurn
    BY DEF CalmInv
  <2>1. HandlerFits(VIdle)
    BY DEF HandlerFits, VIdle
  <2> QED
    BY <2>1 DEF VInit, InTurn, OneHandler, HandlersFit, ActiveIsLatest, ApprovedWasAccepted, Latest, Made,
       VActive, VEditable
<1>2. VerificationInv /\ CalmInv /\ [VNext]_vvars => CalmInv'
  <2> SUFFICES ASSUME VerificationInv, CalmInv, [VNext]_vvars, calm' PROVE InTurn'
    BY DEF CalmInv
  <2>1. InTurn
    BY StaysCalm DEF CalmInv
  <2>2. OneHandler'
    BY <2>1, OneHandlerStep DEF InTurn, VerificationInv
  <2>3. HandlersFit' /\ ActiveIsLatest' /\ ApprovedWasAccepted'
    BY <2>1, HandlersFitStep, ActiveStep, ApprovedStep
  <2>4. \A d \in Docs : doc'[d] = "VERIFIED" => accepted'[d]
    BY <2>1, AcceptedStep
  <2>5. \A r \in Ids :
           Latest(r)' /\ request'[r] = "REJECTED" /\ driver' = "VERIFIED" => byHand'
    BY <2>1, RejectionStep
  <2> QED
    BY <2>2, <2>3, <2>4, <2>5 DEF InTurn
<1> QED
  BY <1>1, <1>2, VerificationInvariant, PTL DEF VSpec

-----------------------------------------------------------------------------
(* The theorems.                                                           *)

\* However the handlers overlap, die and run again, the rows and the handlers
\* have the values the code gives them.
THEOREM Types == VSpec => []VTypeOK
BY VerificationInvariant, PTL DEF VerificationInv

\* Requests of a driver are numbered as they are made, so that the latest one
\* is the one with the largest number, also when handlers create them together.
THEOREM RequestsAreNumbered == VSpec => []NumberedInTurn
BY VerificationInvariant, PTL DEF VerificationInv

\* The finalisation makes every document VERIFIED without a look at it; as long
\* as the handlers keep apart, and nothing is uploaded under an approval, an agent
\* or an administrator's update has accepted each file as it is.
THEOREM VerifiedDocumentsWereAccepted == VSpec => []VerifiedWasAccepted
<1>1. CalmInv => VerifiedWasAccepted
  BY DEF CalmInv, InTurn, VerifiedWasAccepted
<1> QED
  BY <1>1, CalmInvariant, PTL

\* As long as the handlers keep apart, a driver whose latest request is rejected
\* is VERIFIED by no finalisation, at most by an administrator's update.
THEOREM RejectionsHold == VSpec => []RejectionHolds
<1>1. CalmInv => RejectionHolds
  BY DEF CalmInv, InTurn, RejectionHolds
<1> QED
  BY <1>1, CalmInvariant, PTL

=============================================================================
