------------------------ MODULE BookingDispatchProofs ------------------------
(***************************************************************************)
(* Proofs, for any number of bookings, drivers, attempts, requests and     *)
(* faults, of the safety properties of BookingDispatch.                    *)
(*                                                                         *)
(* IInv is inductive as a whole and no part of it is by itself.  That a    *)
(* booking is offered to one driver at a time rests on what an assignment  *)
(* job has read (PickIsStillOpen), which no other job may spoil            *)
(* (LockIsExclusive).  The proof is laid out by the part of the state a    *)
(* conjunct speaks of: JobFootprint, OtherStepsQuiet, OnlyJobsOffer and    *)
(* OtherStepsUnmoved say which actions touch it at all, and one lemma per  *)
(* conjunct goes through these.                                            *)
(***************************************************************************)
EXTENDS BookingDispatch, TLAPS

USE DEF dbVars, queueVars, flightVars, bounds

\* Attempts are the integers 1..MaxAttempts.
LEMMA AttemptsFact ==
    /\ 1 \in Attempts
    /\ \A n \in Attempts : n \in Nat /\ n >= 1 /\ (n < MaxAttempts => n + 1 \in Attempts)
  BY MaxAttemptsAssumption DEF Attempts

-----------------------------------------------------------------------------
(* Types.                                                                  *)

\* TypeOK holds initially.
LEMMA InitTypeOK == Init => TypeOK
  BY NoDriverAssumption, AttemptsFact, BoundsAssumption
     DEF Init, TypeOK, BookingStatus, AssignmentStatus, DriverStatus, InvoiceState,
         AssignStage, TimeoutStage

\* The steps of an assignment job keep the types.
LEMMA AssignStepType ==
    ASSUME TypeOK, NEW b \in Bookings, NEW n \in Attempts
    PROVE  AssignStep(b, n) \/ AssignFails(b, n) => TypeOK'

<1>1. ASSUME AcquireLock(b, n) PROVE TypeOK'
  BY <1>1 DEF TypeOK, AcquireLock, AssignStage, Running
<1>2. ASSUME SkipLocked(b, n) PROVE TypeOK'
  BY <1>2 DEF TypeOK, SkipLocked, AssignStage
<1>3. ASSUME AssignNothing(b, n) PROVE TypeOK'
  BY <1>3 DEF TypeOK, AssignNothing, AssignStage, Running
<1>4. ASSUME RetryLater(b, n) PROVE TypeOK'
  <2>1. n + 1 \in Attempts /\ n + 1 # n
    BY <1>4, AttemptsFact, MaxAttemptsAssumption DEF RetryLater, OutOfTime
  <2>2. PICK m \in Attempts : m = n + 1 /\ m # n
    BY <2>1
  <2>3. /\ assignJob[b][n] = "locked"
        /\ assignJob' = [assignJob EXCEPT ![b][n] = "done",
                                          ![b][m] = IF @ = "none" THEN "delayed" ELSE @]
        /\ UNCHANGED <<dbVars, lock, attempt, candidate, timeoutJob, timeoutDriver, flightVars, bounds>>
    BY <2>2, <1>4 DEF RetryLater
  <2> QED
    BY <2>2, <2>3 DEF TypeOK, AssignStage, Running
<1>5. ASSUME DelayPasses(b, n) PROVE TypeOK'
  BY <1>5 DEF TypeOK, DelayPasses, AssignStage
<1>6. ASSUME NEW d \in Drivers, PickDriver(b, n, d)
      PROVE  TypeOK'
  BY NoDriverAssumption, <1>6 DEF TypeOK, PickDriver, Eligible, SetAttempt, AssignStage, Running
<1>7. ASSUME DecideExpire(b, n) PROVE TypeOK'
  BY <1>7 DEF TypeOK, DecideExpire, AssignStage, Running
<1>8. ASSUME CommitExpire(b, n) PROVE TypeOK'
  BY <1>8 DEF TypeOK, CommitExpire, AssignStage, Running, BookingStatus, Terminal
<1>9. ASSUME CommitOffer(b, n) PROVE TypeOK'
  BY NoDriverAssumption, <1>9 DEF TypeOK, CommitOffer, AssignStage, Running, BookingStatus, TimeoutStage, AssignmentStatus, Live, DriverStatus
<1>10. ASSUME ReleaseLock(b, n) PROVE TypeOK'
  BY <1>10 DEF TypeOK, ReleaseLock, AssignStage
<1>11. ASSUME AssignFails(b, n) PROVE TypeOK'
  <2>1. CASE UNCHANGED <<timeoutJob, timeoutDriver>>
    BY BoundsAssumption, <1>11, <2>1 DEF TypeOK, AssignFails, AssignStage
  <2>2. CASE /\ assignJob[b][n] = "picked" /\ timeoutJob[b] = "none"
             /\ timeoutJob' = [timeoutJob EXCEPT ![b] = "delayed"]
             /\ timeoutDriver' = [timeoutDriver EXCEPT ![b] = candidate[b][n]]
    BY BoundsAssumption, <1>11, <2>2 DEF TypeOK, AssignFails, AssignStage, TimeoutStage
  <2> QED
    BY <1>11, <2>1, <2>2 DEF AssignFails
<1> QED
  BY <1>1, <1>2, <1>3, <1>4, <1>5, <1>6, <1>7, <1>8, <1>9, <1>10, <1>11 DEF AssignStep

\* The steps of a timeout job, and the answers to handlers in flight, keep the types.
LEMMA FinishStepType ==
    ASSUME TypeOK, NEW b \in Bookings
    PROVE  TimeoutStep(b) \/ FinishStep(b) => TypeOK'

<1>1. ASSUME FireTimeout(b) PROVE TypeOK'
  BY <1>1 DEF TypeOK, FireTimeout, TimeoutStage
<1>2. ASSUME CommitTimeout(b) PROVE TypeOK'
  BY NoDriverAssumption, <1>2 DEF TypeOK, CommitTimeout, Withdraws, Released, TimeoutStage, AssignmentStatus,
     BookingStatus, DriverStatus
<1>3. ASSUME RequeueAfterTimeout(b) PROVE TypeOK'
  BY <1>3 DEF TypeOK, RequeueAfterTimeout, AddAssignJob, TimeoutStage, AssignStage
<1>4. ASSUME CompleteTimeout(b) PROVE TypeOK'
  BY <1>4 DEF TypeOK, CompleteTimeout, TimeoutStage
<1>5. ASSUME OnBookingCreated(b) PROVE TypeOK'
  BY <1>5, AttemptsFact DEF TypeOK, OnBookingCreated, AddAssignJob, AssignStage
<1>6. ASSUME OnBookingSettled(b) PROVE TypeOK'
  BY <1>6 DEF TypeOK, OnBookingSettled, CancelTimeoutJob, CancelAssignJobs, AssignStage, TimeoutStage
<1>7. ASSUME NEW d \in Drivers, CommitAccept(b, d)
      PROVE  TypeOK'
  BY <1>7 DEF TypeOK, CommitAccept, AssignmentStatus, Live, BookingStatus, DriverStatus, InvoiceState
<1>8. ASSUME NEW d \in Drivers, AcceptRollsBack(b, d)
      PROVE  TypeOK'
  BY <1>8 DEF TypeOK, AcceptRollsBack
<1>9. ASSUME NEW d \in Drivers, CommitReject(b, d)
      PROVE  TypeOK'
  BY <1>9 DEF TypeOK, CommitReject, AssignmentStatus, BookingStatus, DriverStatus
<1>10. ASSUME \E path \in Paths, d \in Drivers \cup {NoDriver} : CommitCancel(b, path, d)
      PROVE  TypeOK'
  <2>1. PICK path \in Paths, d \in Drivers \cup {NoDriver} : CommitCancel(b, path, d)
    BY <1>10
  <2>2. Withdrawn(path, assignment[b][d]) \in AssignmentStatus \/ d = NoDriver
    BY DEF TypeOK, Withdrawn, AssignmentStatus
  <2>3. CASE d \in Drivers
    <3>1. PICK w \in AssignmentStatus : w = Withdrawn(path, assignment[b][d])
      BY <2>2, <2>3, NoDriverAssumption
    <3>2. /\ assignment' = [assignment EXCEPT ![b][d] = w]
          /\ driverStatus' = [driverStatus EXCEPT ![d] = "AVAILABLE"]
      BY <2>1, <2>3, <3>1, NoDriverAssumption DEF CommitCancel
    <3> QED
      BY <2>1, <2>3, <3>2 DEF TypeOK, CommitCancel, BookingStatus, Terminal, DriverStatus
  <2>4. CASE d = NoDriver
    BY <2>1, <2>4, NoDriverAssumption DEF TypeOK, CommitCancel, BookingStatus, Terminal
  <2> QED
    BY <2>3, <2>4
<1> QED
  BY <1>1, <1>2, <1>3, <1>4, <1>5, <1>6, <1>7, <1>8, <1>9, <1>10 DEF TimeoutStep, FinishStep

\* What users begin or do at once keeps the types.
LEMMA UserStepType ==
    ASSUME TypeOK, NEW b \in Bookings
    PROVE  UserStep(b) \/ BeginAdminCancel(b) \/ PayOnline(b) => TypeOK'

<1>1. ASSUME CreateBooking(b) PROVE TypeOK'
  BY <1>1 DEF TypeOK, CreateBooking, BookingStatus
<1>2. ASSUME BeginCustomerCancel(b) PROVE TypeOK'
  BY BoundsAssumption, <1>2 DEF TypeOK, BeginCustomerCancel, BeginRequest, Paths
<1>3. ASSUME NEW d \in Drivers, BeginAccept(b, d)
      PROVE  TypeOK'
  BY BoundsAssumption, <1>3 DEF TypeOK, BeginAccept, BeginRequest
<1>4. ASSUME NEW d \in Drivers, BeginReject(b, d)
      PROVE  TypeOK'
  BY BoundsAssumption, <1>4 DEF TypeOK, BeginReject, BeginRequest, CancelTimeoutJob, AddAssignJob, AssignStage, TimeoutStage
<1>5. ASSUME BeginAdminCancel(b) PROVE TypeOK'
  BY BoundsAssumption, <1>5 DEF TypeOK, BeginAdminCancel, BeginRequest, Paths
<1>6. ASSUME PayOnline(b) PROVE TypeOK'
  BY <1>6 DEF TypeOK, PayOnline, InvoiceState, Paid
<1> QED
  BY <1>1, <1>2, <1>3, <1>4, <1>5, <1>6 DEF UserStep

\* The ride, the cash and the driver's switch keep the types.
LEMMA DriverStepType ==
    ASSUME TypeOK, NEW d \in Drivers
    PROVE  /\ \A b \in Bookings : RideStep(b, d) \/ SettleWithCash(b, d) => TypeOK'
           /\ ToggleStep(d) => TypeOK'
<1>1. ASSUME NEW b \in Bookings, NEW from, NEW to \in BookingStatus, Advance(b, d, from, to),
             driverStatus' \in [Drivers -> DriverStatus]
      PROVE  TypeOK'
  BY <1>1 DEF TypeOK, Advance
<1>2. ASSUME NEW b \in Bookings, RideStep(b, d) PROVE TypeOK'
  <2>1. driverStatus \in [Drivers -> DriverStatus] /\ "AVAILABLE" \in DriverStatus
    BY DEF TypeOK, DriverStatus
  <2>2. \A from, to : Advance(b, d, from, to) /\ UNCHANGED driverStatus /\ to \in BookingStatus => TypeOK'
    BY <1>1, <2>1
  <2>3. FinishRide(b, d) => TypeOK'
    BY <1>1, <2>1 DEF FinishRide, BookingStatus, Terminal
  <2> QED
    BY <1>2, <2>2, <2>3 DEF RideStep, PickupArrived, VerifyPickup, StartRide, DropArrived,
       VerifyDrop, BookingStatus, PickedUp
<1>3. ASSUME NEW b \in Bookings, SettleWithCash(b, d) PROVE TypeOK'
  BY <1>3 DEF TypeOK, SettleWithCash, InvoiceState, Paid
<1>4. ASSUME NEW s \in {"AVAILABLE", "UNAVAILABLE"}, BeginToggle(d, s) PROVE TypeOK'
  BY BoundsAssumption, <1>4 DEF TypeOK, BeginToggle, BeginRequest
<1>5. ASSUME NEW s \in {"AVAILABLE", "UNAVAILABLE"}, CommitToggle(d, s) PROVE TypeOK'
  BY <1>5 DEF TypeOK, CommitToggle, DriverStatus
<1> QED
  BY <1>2, <1>3, <1>4, <1>5 DEF ToggleStep

\* Every step keeps the types.
LEMMA NextType == TypeOK /\ [Next]_vars => TypeOK'
<1> SUFFICES ASSUME TypeOK, [Next]_vars PROVE TypeOK'
  OBVIOUS
<1>1. CASE \E b \in Bookings : DispatchStep(b) \/ BeginAdminCancel(b) \/ PayOnline(b)
  <2>1. PICK b \in Bookings : DispatchStep(b) \/ BeginAdminCancel(b) \/ PayOnline(b)
    BY <1>1
  <2>2. CASE GrowOlder(b)
    BY <2>2 DEF TypeOK, GrowOlder
  <2>3. CASE ExpireLock(b)
    BY <2>3 DEF TypeOK, ExpireLock
  <2> QED
    BY <2>1, <2>2, <2>3, AssignStepType, FinishStepType, UserStepType DEF DispatchStep
<1>2. CASE \/ \E b \in Bookings, d \in Drivers : RideStep(b, d) \/ SettleWithCash(b, d)
           \/ \E d \in Drivers : ToggleStep(d)
  BY <1>2, DriverStepType
<1>3. CASE ResetDriverAvailability
  BY <1>3 DEF TypeOK, ResetDriverAvailability, DriverStatus
<1>4. CASE MarkExpiredBookings
  BY <1>4 DEF TypeOK, MarkExpiredBookings, BookingStatus, Terminal
<1>5. CASE Crash
  BY <1>5, BoundsAssumption DEF TypeOK, Crash, AssignStage, Running, TimeoutStage
<1>6. CASE UNCHANGED vars
  BY <1>6 DEF TypeOK, vars
<1> QED
  BY <1>1, <1>2, <1>3, <1>4, <1>5, <1>6 DEF Next

\* Type correctness: whatever the handlers, jobs and crashes do, every row,
\* key and job has a state of the program's.
THEOREM TypeCorrect == Spec => []TypeOK
  BY InitTypeOK, NextType, PTL DEF Spec

-----------------------------------------------------------------------------
(* Which steps touch what.                                                 *)

\* The lock, the assignment jobs and their candidates.
JobStep ==
    \/ \E b \in Bookings :
          \/ OnBookingCreated(b) \/ OnBookingSettled(b) \/ RequeueAfterTimeout(b) \/ ExpireLock(b)
          \/ \E d \in Drivers : BeginReject(b, d)
          \/ \E n \in Attempts : AssignStep(b, n) \/ AssignFails(b, n)
    \/ Crash

\* Every other step leaves the jobs and their lock alone.
LEMMA JobFootprint == [Next]_vars => UNCHANGED <<lock, assignJob, candidate>> \/ JobStep
<1> SUFFICES ASSUME [Next]_vars, ~JobStep PROVE UNCHANGED <<lock, assignJob, candidate>>
  OBVIOUS
<1>1. CASE \E b \in Bookings : DispatchStep(b) \/ BeginAdminCancel(b) \/ PayOnline(b)
  <2>1. PICK b \in Bookings : DispatchStep(b) \/ BeginAdminCancel(b) \/ PayOnline(b)
    BY <1>1
  <2>2. CASE UserStep(b) \/ FinishStep(b) \/ TimeoutStep(b)
    BY <2>2 DEF JobStep, UserStep, FinishStep, TimeoutStep, CreateBooking, BeginCustomerCancel,
       BeginAccept, CommitAccept, AcceptRollsBack, CommitReject, CommitCancel, FireTimeout,
       CommitTimeout, CompleteTimeout
  <2> QED
    BY <2>1, <2>2 DEF DispatchStep, GrowOlder, BeginAdminCancel, PayOnline, JobStep
<1>2. CASE \E b \in Bookings, d \in Drivers : RideStep(b, d) \/ SettleWithCash(b, d)
  BY <1>2 DEF RideStep, PickupArrived, VerifyPickup, StartRide, DropArrived, VerifyDrop,
     FinishRide, Advance, SettleWithCash
<1>3. CASE (\E d \in Drivers : ToggleStep(d)) \/ ResetDriverAvailability \/ MarkExpiredBookings
  BY <1>3 DEF ToggleStep, BeginToggle, CommitToggle, ResetDriverAvailability, MarkExpiredBookings
<1> QED
  BY <1>1, <1>2, <1>3 DEF Next, JobStep, vars

\* The steps that write assignment rows, apart from the offer.
AnswerStep ==
    \E b \in Bookings :
       \/ CommitTimeout(b)
       \/ \E d \in Drivers : CommitAccept(b, d) \/ CommitReject(b, d)
       \/ \E path \in Paths, d \in Drivers \cup {NoDriver} : CommitCancel(b, path, d)

\* Neither an offer nor an answer: no driver is named or locked.
Quiet ==
    /\ UNCHANGED <<assignment, assignedDriver>>
    /\ \A b \in Bookings : booking'[b] = "DRIVER_ASSIGNED" => booking[b] = "DRIVER_ASSIGNED"
    /\ \A d \in Drivers : driverStatus'[d] = "RIDE_OFFERED" => driverStatus[d] = "RIDE_OFFERED"

\* Every step that is neither an offer nor an answer is quiet.
LEMMA OtherStepsQuiet ==
    TypeOK /\ [Next]_vars =>
        \/ Quiet
        \/ \E b \in Bookings, n \in Attempts : CommitOffer(b, n)
        \/ AnswerStep
<1> SUFFICES ASSUME TypeOK, [Next]_vars, ~AnswerStep,
                    \A b \in Bookings, n \in Attempts : ~CommitOffer(b, n)
             PROVE  Quiet
  OBVIOUS
<1>1. CASE \E b \in Bookings : DispatchStep(b) \/ BeginAdminCancel(b) \/ PayOnline(b)
  <2>1. PICK b \in Bookings : DispatchStep(b) \/ BeginAdminCancel(b) \/ PayOnline(b)
    BY <1>1
  <2>2. CASE \E n \in Attempts : AssignStep(b, n) \/ AssignFails(b, n)
    BY <2>2 DEF TypeOK, Quiet, AssignStep, AcquireLock, SkipLocked, AssignNothing, RetryLater,
       DelayPasses, PickDriver, DecideExpire, CommitExpire, ReleaseLock, AssignFails
  <2>3. CASE UserStep(b) \/ FinishStep(b) \/ TimeoutStep(b)
    BY <2>3 DEF TypeOK, Quiet, UserStep, FinishStep, TimeoutStep, CreateBooking, BeginCustomerCancel,
       BeginAccept, BeginReject, OnBookingCreated, OnBookingSettled, AcceptRollsBack, FireTimeout,
       RequeueAfterTimeout, CompleteTimeout, AnswerStep
  <2> QED
    BY <2>1, <2>2, <2>3 DEF DispatchStep, GrowOlder, ExpireLock, BeginAdminCancel, PayOnline, Quiet
<1>2. ASSUME NEW b \in Bookings, NEW d \in Drivers, RideStep(b, d) \/ SettleWithCash(b, d)
      PROVE  Quiet
  BY <1>2 DEF TypeOK, Quiet, RideStep, PickupArrived, VerifyPickup, StartRide, DropArrived, VerifyDrop,
     FinishRide, Advance, SettleWithCash
<1>3. ASSUME NEW d \in Drivers, ToggleStep(d) PROVE Quiet
  BY <1>3 DEF TypeOK, Quiet, ToggleStep, BeginToggle, CommitToggle
<1>4. CASE ResetDriverAvailability \/ MarkExpiredBookings \/ Crash
  BY <1>4 DEF Quiet, ResetDriverAvailability, MarkExpiredBookings, Crash
<1> QED
  BY <1>1, <1>2, <1>3, <1>4 DEF Next, vars, Quiet

-----------------------------------------------------------------------------
(* The lock.                                                               *)

\* No job begins to run, and no lock changes hands.
NoneStarts ==
    /\ UNCHANGED lock
    /\ \A b \in Bookings, n \in Attempts :
          assignJob'[b][n] \in Running => assignJob[b][n] \in Running

\* A job past its lock acquisition stays alone with its booking.
LEMMA LockStep == TypeOK /\ LockIsExclusive /\ [Next]_vars => LockIsExclusive'
<1> SUFFICES ASSUME TypeOK, LockIsExclusive, [Next]_vars PROVE LockIsExclusive'
  OBVIOUS
<1>1. ASSUME NoneStarts PROVE LockIsExclusive'
  BY <1>1 DEF NoneStarts, LockIsExclusive
<1>2. CASE UNCHANGED <<lock, assignJob, candidate>>
  BY <1>1, <1>2 DEF NoneStarts
<1>3. ASSUME NEW b \in Bookings,
             \/ OnBookingCreated(b) \/ OnBookingSettled(b) \/ RequeueAfterTimeout(b)
             \/ \E d \in Drivers : BeginReject(b, d)
      PROVE  LockIsExclusive'
  <2>1. ASSUME NEW n \in Attempts, AddAssignJob(b, n), UNCHANGED lock PROVE NoneStarts
    BY <2>1 DEF TypeOK, NoneStarts, AddAssignJob, Running
  <2>2. ASSUME CancelAssignJobs(b), UNCHANGED lock PROVE NoneStarts
    BY <2>2 DEF TypeOK, NoneStarts, CancelAssignJobs, Running
  <2>3. attempt[b] \in Attempts
    BY DEF TypeOK
  <2> QED
    BY <1>1, <1>3, <2>1, <2>2, <2>3, AttemptsFact
       DEF OnBookingCreated, OnBookingSettled, RequeueAfterTimeout, BeginReject
<1>4. CASE \E b \in Bookings : ExpireLock(b)
  BY <1>4 DEF TypeOK, LockIsExclusive, ExpireLock
<1>5. ASSUME NEW b \in Bookings, NEW n \in Attempts, AssignStep(b, n) \/ AssignFails(b, n)
      PROVE  LockIsExclusive'
  <2>1. CASE AcquireLock(b, n)
    BY <2>1 DEF TypeOK, LockIsExclusive, AcquireLock, Running
  <2>2. ASSUME assignJob[b][n] \in Running \/ assignJob'[b][n] \notin Running, UNCHANGED lock,
               NEW s, assignJob' = [assignJob EXCEPT ![b][n] = s]
        PROVE  NoneStarts
    BY <2>2 DEF TypeOK, NoneStarts
  <2>3. SkipLocked(b, n) \/ DelayPasses(b, n) => NoneStarts
    <3> SUFFICES ASSUME SkipLocked(b, n) \/ DelayPasses(b, n) PROVE assignJob'[b][n] \notin Running
      BY <2>2 DEF SkipLocked, DelayPasses
    <3> QED
      BY DEF TypeOK, SkipLocked, DelayPasses, Running
  <2>4. AssignNothing(b, n) \/ DecideExpire(b, n) \/ CommitExpire(b, n) \/ CommitOffer(b, n) => NoneStarts
    BY <2>2 DEF AssignNothing, DecideExpire, CommitExpire, CommitOffer, Running
  <2>5. (\E d \in Drivers : PickDriver(b, n, d)) => NoneStarts
    BY <2>2 DEF PickDriver, Running
  <2>6. RetryLater(b, n) => NoneStarts
    BY AttemptsFact, MaxAttemptsAssumption DEF TypeOK, RetryLater, OutOfTime, NoneStarts, Running
  <2>7. CASE ReleaseLock(b, n) \/ AssignFails(b, n)
    <3>1. /\ assignJob[b][n] \in Running
          /\ \E s \in {"none", "queued"} : assignJob' = [assignJob EXCEPT ![b][n] = s]
          /\ lock' = [lock EXCEPT ![b] = "free"]
      BY <2>7 DEF ReleaseLock, AssignFails, Running
    <3>2. \A m \in Attempts : assignJob'[b][m] \notin Running
      BY <3>1 DEF TypeOK, LockIsExclusive, Running
    <3> QED
      BY <3>1, <3>2 DEF TypeOK, LockIsExclusive
  <2> QED
    BY <1>1, <1>5, <2>1, <2>3, <2>4, <2>5, <2>6, <2>7 DEF AssignStep
<1>6. CASE Crash
  BY <1>6 DEF TypeOK, LockIsExclusive, Crash, Running
<1> QED
  BY <1>2, <1>3, <1>4, <1>5, <1>6, JobFootprint DEF JobStep

-----------------------------------------------------------------------------
(* The assignment rows.                                                    *)

\* A step that is not an offer creates no row, and makes no row live or OFFERED.
NoNewOffer ==
    \A b \in Bookings, d \in Drivers :
        /\ assignment[b][d] = "NONE" <=> assignment'[b][d] = "NONE"
        /\ assignment'[b][d] \in Live => assignment[b][d] \in Live
        /\ assignment'[b][d] = "OFFERED" => assignment[b][d] = "OFFERED"

\* Only an assignment job makes an offer; all else answers or withdraws one.
LEMMA OnlyJobsOffer ==
    TypeOK /\ RejectedWasOffered /\ [Next]_vars =>
        NoNewOffer \/ \E b \in Bookings, n \in Attempts : CommitOffer(b, n)
<1> SUFFICES ASSUME TypeOK, RejectedWasOffered, UNCHANGED assignment \/ AnswerStep PROVE NoNewOffer
  BY OtherStepsQuiet DEF Quiet
<1>1. CASE UNCHANGED assignment
  BY <1>1 DEF NoNewOffer
<1>2. ASSUME NEW b \in Bookings, CommitTimeout(b) PROVE NoNewOffer
  BY <1>2 DEF TypeOK, NoNewOffer, CommitTimeout, Live
<1>3. ASSUME NEW b \in Bookings, NEW d \in Drivers, CommitAccept(b, d) PROVE NoNewOffer
  BY <1>3 DEF TypeOK, NoNewOffer, CommitAccept, Live
<1>4. ASSUME NEW b \in Bookings, NEW d \in Drivers, CommitReject(b, d) PROVE NoNewOffer
  BY <1>4 DEF TypeOK, NoNewOffer, CommitReject, Live, RejectedWasOffered
<1>5. ASSUME NEW b \in Bookings, NEW path \in Paths, NEW d \in Drivers \cup {NoDriver},
             CommitCancel(b, path, d)
      PROVE  NoNewOffer
  <2>1. PICK w : /\ w = Withdrawn(path, assignment[b][d])
                 /\ d \in Drivers => assignment' = [assignment EXCEPT ![b][d] = w]
                 /\ d \notin Drivers => UNCHANGED assignment
    BY <1>5, NoDriverAssumption DEF CommitCancel
  <2>2. /\ w = "NONE" <=> assignment[b][d] = "NONE"
        /\ w \in Live => assignment[b][d] = w
    BY <2>1 DEF Withdrawn, Live
  <2> QED
    BY <2>1, <2>2 DEF TypeOK, NoNewOffer, Live
<1> QED
  BY <1>1, <1>2, <1>3, <1>4, <1>5 DEF AnswerStep

\* What a job has read stays true until it commits.
LEMMA PickStep ==
    TypeOK /\ LockIsExclusive /\ PickIsStillOpen /\ RejectedWasOffered /\ [Next]_vars
        => PickIsStillOpen'
<1> SUFFICES ASSUME TypeOK, LockIsExclusive, PickIsStillOpen, RejectedWasOffered, [Next]_vars,
                    NEW b \in Bookings, NEW n \in Attempts, assignJob'[b][n] = "picked"
             PROVE  /\ \A d \in Drivers : assignment'[b][d] \notin Live
                    /\ assignment'[b][candidate'[b][n]] = "NONE"
  BY DEF PickIsStillOpen
<1>1. CASE \E a \in Bookings, m \in Attempts : CommitOffer(a, m)
  BY <1>1 DEF TypeOK, LockIsExclusive, PickIsStillOpen, CommitOffer, Running
<1>2. CASE NoNewOffer
  <2>1. CASE assignJob[b][n] = "picked" /\ candidate'[b][n] = candidate[b][n]
    BY <1>2, <2>1, NoDriverAssumption DEF TypeOK, NoNewOffer, PickIsStillOpen
  <2>2. CASE \E d \in Drivers : PickDriver(b, n, d)
    BY <2>2 DEF TypeOK, PickDriver, Eligible, Assignable
  <2>3. CASE ~JobStep
    BY <2>1, <2>3, JobFootprint
  <2>4. CASE JobStep
    <3>1. ASSUME NEW a \in Bookings,
                 \/ OnBookingCreated(a) \/ OnBookingSettled(a) \/ RequeueAfterTimeout(a)
                 \/ ExpireLock(a) \/ \E d \in Drivers : BeginReject(a, d)
          PROVE  assignJob[b][n] = "picked" /\ candidate'[b][n] = candidate[b][n]
      BY <3>1, AttemptsFact DEF TypeOK, OnBookingCreated, OnBookingSettled, RequeueAfterTimeout,
         ExpireLock, BeginReject, AddAssignJob, CancelAssignJobs
    <3>2. ASSUME NEW a \in Bookings, NEW m \in Attempts, AssignStep(a, m) \/ AssignFails(a, m)
          PROVE  \/ assignJob[b][n] = "picked" /\ candidate'[b][n] = candidate[b][n]
                 \/ \E d \in Drivers : PickDriver(b, n, d)
      <4>1. CASE RetryLater(a, m)
        BY <4>1, AttemptsFact, MaxAttemptsAssumption DEF TypeOK, RetryLater, OutOfTime
      <4>2. ASSUME NEW stage, assignJob' = [assignJob EXCEPT ![a][m] = stage],
                   stage # "picked" \/ a # b \/ m # n,
                   \/ UNCHANGED candidate
                   \/ \E d : candidate' = [candidate EXCEPT ![a][m] = d]
            PROVE  assignJob[b][n] = "picked" /\ candidate'[b][n] = candidate[b][n]
        BY <4>2 DEF TypeOK
      <4>3. CASE \E d \in Drivers : PickDriver(a, m, d)
        BY <4>2, <4>3 DEF PickDriver
      <4>4. CASE \/ AcquireLock(a, m) \/ SkipLocked(a, m) \/ AssignNothing(a, m) \/ DelayPasses(a, m)
                 \/ DecideExpire(a, m) \/ CommitExpire(a, m) \/ ReleaseLock(a, m)
                 \/ CommitOffer(a, m) \/ AssignFails(a, m)
        BY <4>2, <4>4 DEF AcquireLock, SkipLocked, AssignNothing, DelayPasses, DecideExpire,
           CommitExpire, ReleaseLock, CommitOffer, AssignFails
      <4> QED
        BY <3>2, <4>1, <4>3, <4>4 DEF AssignStep
    <3>3. ASSUME Crash PROVE FALSE
      <4>1. assignJob'[b][n] = IF assignJob[b][n] \in Running THEN "queued" ELSE assignJob[b][n]
        BY <3>3 DEF Crash
      <4> QED
        BY <4>1 DEF Running
    <3> QED
      BY <2>1, <2>2, <2>4, <3>1, <3>2, <3>3 DEF JobStep
  <2> QED
    BY <2>3, <2>4
<1> QED
  BY <1>1, <1>2, OnlyJobsOffer

\* A rejection under way stays one of an existing assignment.
LEMMA RejectStep == TypeOK /\ RejectedWasOffered /\ [Next]_vars => RejectedWasOffered'
<1> SUFFICES ASSUME TypeOK, RejectedWasOffered, [Next]_vars PROVE RejectedWasOffered'
  OBVIOUS
<1>1. \A b \in Bookings, d \in Drivers : assignment[b][d] # "NONE" => assignment'[b][d] # "NONE"
  <2>1. CASE NoNewOffer
    BY <2>1 DEF NoNewOffer
  <2>2. CASE \E b \in Bookings, n \in Attempts : CommitOffer(b, n)
    BY <2>2 DEF TypeOK, CommitOffer
  <2> QED
    BY <2>1, <2>2, OnlyJobsOffer
<1>2. \A r \in rejecting' :
         r \in rejecting \/ \E b \in Bookings, d \in Drivers : r = <<b, d>> /\ BeginReject(b, d)
  <2>1. CASE \E b \in Bookings : DispatchStep(b) \/ BeginAdminCancel(b) \/ PayOnline(b)
    <3>1. PICK b \in Bookings : DispatchStep(b) \/ BeginAdminCancel(b) \/ PayOnline(b)
      BY <2>1
    <3>2. CASE \E n \in Attempts : AssignStep(b, n) \/ AssignFails(b, n)
      BY <3>2 DEF AssignStep, AcquireLock, SkipLocked, AssignNothing, RetryLater, DelayPasses,
         PickDriver, DecideExpire, CommitExpire, CommitOffer, ReleaseLock, AssignFails
    <3>3. CASE UserStep(b)
      BY <3>3 DEF UserStep, CreateBooking, BeginCustomerCancel, BeginAccept, BeginReject
    <3>4. CASE FinishStep(b) \/ TimeoutStep(b)
      BY <3>4 DEF FinishStep, TimeoutStep, OnBookingCreated, OnBookingSettled, CommitAccept,
         AcceptRollsBack, CommitReject, CommitCancel, FireTimeout, CommitTimeout,
         RequeueAfterTimeout, CompleteTimeout
    <3> QED
      BY <3>1, <3>2, <3>3, <3>4 DEF DispatchStep, GrowOlder, ExpireLock, BeginAdminCancel, PayOnline
  <2>2. CASE \E b \in Bookings, d \in Drivers : RideStep(b, d) \/ SettleWithCash(b, d)
    BY <2>2 DEF RideStep, PickupArrived, VerifyPickup, StartRide, DropArrived, VerifyDrop,
       FinishRide, Advance, SettleWithCash
  <2>3. CASE (\E d \in Drivers : ToggleStep(d)) \/ ResetDriverAvailability \/ MarkExpiredBookings \/ Crash
    BY <2>3 DEF ToggleStep, BeginToggle, CommitToggle, ResetDriverAvailability, MarkExpiredBookings, Crash
  <2> QED
    BY <2>1, <2>2, <2>3 DEF Next, vars
<1> QED
  BY <1>1, <1>2 DEF TypeOK, RejectedWasOffered, BeginReject

\* Two drivers never hold one booking.
LEMMA OneLiveStep ==
    TypeOK /\ PickIsStillOpen /\ RejectedWasOffered /\ OneLiveAssignment /\ [Next]_vars
        => OneLiveAssignment'
<1> SUFFICES ASSUME TypeOK, PickIsStillOpen, RejectedWasOffered, OneLiveAssignment, [Next]_vars
             PROVE  OneLiveAssignment'
  OBVIOUS
<1>1. CASE NoNewOffer
  BY <1>1 DEF NoNewOffer, OneLiveAssignment
<1>2. ASSUME NEW b \in Bookings, NEW n \in Attempts, CommitOffer(b, n) PROVE OneLiveAssignment'
  <2>1. \A d \in Drivers : assignment'[b][d] \in Live => d = candidate[b][n]
    BY <1>2 DEF TypeOK, PickIsStillOpen, CommitOffer
  <2>2. \A a \in Bookings : a # b => assignment'[a] = assignment[a]
    BY <1>2 DEF TypeOK, CommitOffer
  <2> QED
    BY <2>1, <2>2 DEF OneLiveAssignment
<1> QED
  BY <1>1, <1>2, OnlyJobsOffer

-----------------------------------------------------------------------------
(* Bookings and drivers agree with the assignment rows.                    *)

\* A booking shown as assigned names a driver who has the offer.
LEMMA AssignedStep ==
    TypeOK /\ AssignedDriverHasOffer /\ [Next]_vars => AssignedDriverHasOffer'
<1> SUFFICES ASSUME TypeOK, AssignedDriverHasOffer, [Next]_vars PROVE AssignedDriverHasOffer'
  OBVIOUS
<1>1. CASE Quiet
  BY <1>1 DEF Quiet, AssignedDriverHasOffer
<1>2. ASSUME NEW b \in Bookings, NEW n \in Attempts, CommitOffer(b, n) PROVE AssignedDriverHasOffer'
  BY <1>2, NoDriverAssumption DEF TypeOK, AssignedDriverHasOffer, CommitOffer
<1>3. ASSUME NEW b \in Bookings, CommitTimeout(b) PROVE AssignedDriverHasOffer'
  BY <1>3, NoDriverAssumption DEF TypeOK, AssignedDriverHasOffer, CommitTimeout, Withdraws
<1>4. ASSUME NEW b \in Bookings, NEW d \in Drivers, CommitAccept(b, d) \/ CommitReject(b, d)
      PROVE  AssignedDriverHasOffer'
  <2>1. /\ booking'[b] # "DRIVER_ASSIGNED"
        /\ \A a \in Bookings : a # b => /\ booking'[a] = booking[a]
                                       /\ assignedDriver'[a] = assignedDriver[a]
                                       /\ assignment'[a] = assignment[a]
    BY <1>4 DEF TypeOK, CommitAccept, CommitReject
  <2> QED
    BY <2>1 DEF AssignedDriverHasOffer
<1>5. ASSUME NEW b \in Bookings, NEW path \in Paths, NEW d \in Drivers \cup {NoDriver},
             CommitCancel(b, path, d)
      PROVE  AssignedDriverHasOffer'
  BY <1>5 DEF TypeOK, AssignedDriverHasOffer, CommitCancel
<1> QED
  BY <1>1, <1>2, <1>3, <1>4, <1>5, OtherStepsQuiet DEF AnswerStep

\* A driver locked for an offer has its row.
LEMMA OfferedStep ==
    TypeOK /\ OfferedDriverHasOffer /\ [Next]_vars => OfferedDriverHasOffer'
<1> SUFFICES ASSUME TypeOK, OfferedDriverHasOffer, [Next]_vars PROVE OfferedDriverHasOffer'
  OBVIOUS
<1>1. CASE Quiet
  BY <1>1 DEF Quiet, OfferedDriverHasOffer
<1>2. ASSUME NEW b \in Bookings, NEW n \in Attempts, CommitOffer(b, n) PROVE OfferedDriverHasOffer'
  BY <1>2, NoDriverAssumption DEF TypeOK, OfferedDriverHasOffer, CommitOffer
<1>3. ASSUME NEW b \in Bookings, CommitTimeout(b) PROVE OfferedDriverHasOffer'
  BY <1>3, NoDriverAssumption DEF TypeOK, OfferedDriverHasOffer, CommitTimeout, Released
<1>4. ASSUME NEW b \in Bookings, NEW d \in Drivers, CommitAccept(b, d) \/ CommitReject(b, d)
      PROVE  OfferedDriverHasOffer'
  <2>1. /\ driverStatus'[d] # "RIDE_OFFERED"
        /\ \A e \in Drivers : e # d => /\ driverStatus'[e] = driverStatus[e]
                                      /\ \A a \in Bookings : assignment'[a][e] = assignment[a][e]
    BY <1>4 DEF TypeOK, CommitAccept, CommitReject
  <2> QED
    BY <2>1 DEF OfferedDriverHasOffer
<1>5. ASSUME NEW b \in Bookings, NEW path \in Paths, NEW d \in Drivers \cup {NoDriver},
             CommitCancel(b, path, d)
      PROVE  OfferedDriverHasOffer'
  <2>1. /\ driverStatus'[d] # "RIDE_OFFERED" \/ d \notin Drivers
        /\ \A e \in Drivers : e # d => /\ driverStatus'[e] = driverStatus[e]
                                      /\ \A a \in Bookings : assignment'[a][e] = assignment[a][e]
    BY <1>5, NoDriverAssumption DEF TypeOK, CommitCancel
  <2> QED
    BY <2>1, NoDriverAssumption DEF OfferedDriverHasOffer
<1> QED
  BY <1>1, <1>2, <1>3, <1>4, <1>5, OtherStepsQuiet DEF AnswerStep

-----------------------------------------------------------------------------
(* The invoice.                                                            *)

\* The steps that write the FINAL invoice.
PaymentStep ==
    \E b \in Bookings :
       PayOnline(b) \/ \E d \in Drivers : SettleWithCash(b, d) \/ CommitAccept(b, d)

\* Invoices are untouched, and no ride gets to its pickup.
Unmoved ==
    /\ UNCHANGED invoice
    /\ \A b \in Bookings : booking'[b] \in PickedUp => booking[b] \in PickedUp

\* Only payments write an invoice, and only the ride brings a booking to its pickup.
LEMMA OtherStepsUnmoved ==
    TypeOK /\ [Next]_vars =>
        Unmoved \/ PaymentStep \/ \E b \in Bookings, d \in Drivers : RideStep(b, d)
<1> SUFFICES ASSUME TypeOK, [Next]_vars, ~PaymentStep,
                    \A b \in Bookings, d \in Drivers : ~RideStep(b, d)
             PROVE  Unmoved
  OBVIOUS
<1>1. CASE \E b \in Bookings : DispatchStep(b) \/ BeginAdminCancel(b) \/ PayOnline(b)
  <2>1. PICK b \in Bookings : DispatchStep(b) \/ BeginAdminCancel(b) \/ PayOnline(b)
    BY <1>1
  <2>2. CASE \E n \in Attempts : AssignStep(b, n) \/ AssignFails(b, n)
    BY <2>2 DEF TypeOK, Unmoved, AssignStep, AcquireLock, SkipLocked, AssignNothing, RetryLater,
       DelayPasses, PickDriver, DecideExpire, CommitExpire, CommitOffer, ReleaseLock, AssignFails,
       PickedUp
  <2>3. CASE UserStep(b)
    BY <2>3 DEF TypeOK, Unmoved, UserStep, CreateBooking, BeginCustomerCancel, BeginAccept,
       BeginReject, PickedUp
  <2>4. CASE FinishStep(b) \/ TimeoutStep(b)
    <3>1. \A status \in {"PENDING", "CANCELLED"} :
             /\ UNCHANGED invoice
             /\ booking' = [booking EXCEPT ![b] = status] \/ UNCHANGED booking
             => Unmoved
      BY DEF TypeOK, Unmoved, PickedUp
    <3>2. TimeoutStep(b) => Unmoved
      BY <3>1 DEF TypeOK, TimeoutStep, FireTimeout, CommitTimeout, RequeueAfterTimeout, CompleteTimeout
    <3>3. FinishStep(b) => Unmoved
      BY <3>1 DEF FinishStep, OnBookingCreated, OnBookingSettled, AcceptRollsBack, CommitReject,
         CommitCancel, PaymentStep
    <3> QED
      BY <2>4, <3>2, <3>3
  <2> QED
    BY <2>1, <2>2, <2>3, <2>4 DEF DispatchStep, GrowOlder, ExpireLock, BeginAdminCancel, PaymentStep, Unmoved
<1>2. CASE (\E d \in Drivers : ToggleStep(d)) \/ ResetDriverAvailability \/ Crash \/ UNCHANGED vars
  <2>1. UNCHANGED <<booking, invoice>>
    BY <1>2 DEF ToggleStep, BeginToggle, CommitToggle, ResetDriverAvailability, Crash, vars
  <2> QED
    BY <2>1 DEF Unmoved
<1>3. CASE MarkExpiredBookings
  BY <1>3 DEF TypeOK, Unmoved, MarkExpiredBookings, PickedUp
<1> QED
  BY <1>1, <1>2, <1>3 DEF Next, PaymentStep

\* Nobody picks the goods up unpaid, or takes a payment back.
LEMMA PaidStep == TypeOK /\ PickedUpIsPaid /\ [Next]_vars => PickedUpIsPaid'
<1> SUFFICES ASSUME TypeOK, PickedUpIsPaid, [Next]_vars PROVE PickedUpIsPaid'
  OBVIOUS
<1>1. CASE Unmoved
  BY <1>1 DEF Unmoved, PickedUpIsPaid
<1>2. ASSUME NEW b \in Bookings, PayOnline(b) PROVE PickedUpIsPaid'
  BY <1>2 DEF TypeOK, PickedUpIsPaid, PayOnline, Paid
<1>3. ASSUME NEW b \in Bookings, NEW d \in Drivers, SettleWithCash(b, d) PROVE PickedUpIsPaid'
  BY <1>3 DEF TypeOK, PickedUpIsPaid, SettleWithCash, Paid
<1>4. ASSUME NEW b \in Bookings, NEW d \in Drivers, CommitAccept(b, d) PROVE PickedUpIsPaid'
  <2>1. booking'[b] = "CONFIRMED" /\ \A a \in Bookings : a # b => booking'[a] = booking[a] /\ invoice'[a] = invoice[a]
    BY <1>4 DEF TypeOK, CommitAccept
  <2> QED
    BY <2>1 DEF PickedUpIsPaid, PickedUp
<1>5. ASSUME NEW b \in Bookings, NEW d \in Drivers, RideStep(b, d) PROVE PickedUpIsPaid'
  <2>1. ASSUME NEW from, NEW to, Advance(b, d, from, to),
               invoice[b] \in Paid \/ to \notin PickedUp \/ from \subseteq PickedUp
        PROVE  PickedUpIsPaid'
    BY <2>1 DEF TypeOK, PickedUpIsPaid, Advance
  <2> QED
    BY <1>5, <2>1 DEF RideStep, PickupArrived, VerifyPickup, StartRide, DropArrived, VerifyDrop,
       FinishRide, PaidForRide, PickedUp
<1> QED
  BY <1>1, <1>2, <1>3, <1>4, <1>5, OtherStepsUnmoved DEF PaymentStep

-----------------------------------------------------------------------------
(* The theorems.                                                           *)

\* IInv holds initially.
LEMMA InitIInv == Init => IInv
<1> SUFFICES ASSUME Init PROVE IInv
  OBVIOUS
<1>1. LockIsExclusive /\ PickIsStillOpen /\ RejectedWasOffered
  BY DEF Init, LockIsExclusive, PickIsStillOpen, RejectedWasOffered, Running
<1>2. OneLiveAssignment /\ AssignedDriverHasOffer /\ OfferedDriverHasOffer /\ PickedUpIsPaid
  BY DEF Init, OneLiveAssignment, AssignedDriverHasOffer, OfferedDriverHasOffer, PickedUpIsPaid,
     Live, PickedUp
<1> QED
  BY <1>1, <1>2, InitTypeOK DEF IInv

\* IInv is inductive.
LEMMA NextIInv == IInv /\ [Next]_vars => IInv'
  BY NextType, LockStep, PickStep, RejectStep, OneLiveStep, AssignedStep, OfferedStep, PaidStep
     DEF IInv

\* The inductive invariant holds in every reachable state.
THEOREM Invariance == Spec => []IInv
  BY InitIInv, NextIInv, PTL DEF Spec

\* A booking is on offer to, or taken by, at most one driver, for any number of
\* attempts, crashes, rejections and timeouts.
THEOREM OneDriverPerBooking == Spec => []OneLiveAssignment
<1>1. IInv => OneLiveAssignment
  BY DEF IInv
<1> QED
  BY <1>1, Invariance, PTL

\* The Redis lock makes the assignment jobs of a booking exclude one another.
THEOREM JobsExclude == Spec => []LockIsExclusive
<1>1. IInv => LockIsExclusive
  BY DEF IInv
<1> QED
  BY <1>1, Invariance, PTL

\* A booking that waits for an answer waits for a driver who was asked.
THEOREM AssignedCanAnswer == Spec => []AssignedDriverHasOffer
<1>1. IInv => AssignedDriverHasOffer
  BY DEF IInv
<1> QED
  BY <1>1, Invariance, PTL

\* A driver locked for an offer has its row, and with it the way out of the lock
\* that a rejection is, whatever became of the booking.
THEOREM LockedHasOffer == Spec => []OfferedDriverHasOffer
<1>1. IInv => OfferedDriverHasOffer
  BY DEF IInv
<1> QED
  BY <1>1, Invariance, PTL

\* No goods are picked up before the customer has paid, in cash or online.
THEOREM PaidBeforePickup == Spec => []PickedUpIsPaid
<1>1. IInv => PickedUpIsPaid
  BY DEF IInv
<1> QED
  BY <1>1, Invariance, PTL

\* A driver is offered a booking at most once.
THEOREM OfferedOnce == Spec => NeverOfferedAgain
<1>1. IInv /\ [Next]_vars =>
        [\A b \in Bookings, d \in Drivers :
            assignment[b][d] # "OFFERED" /\ assignment[b][d]' = "OFFERED"
                => assignment[b][d] = "NONE"]_vars
  <2> SUFFICES ASSUME IInv, [Next]_vars, NEW b \in Bookings, NEW d \in Drivers,
                      assignment[b][d] # "OFFERED", assignment'[b][d] = "OFFERED"
               PROVE  assignment[b][d] = "NONE"
    OBVIOUS
  <2>1. CASE NoNewOffer
    BY <2>1 DEF NoNewOffer
  <2>2. CASE \E a \in Bookings, n \in Attempts : CommitOffer(a, n)
    BY <2>2 DEF IInv, TypeOK, PickIsStillOpen, CommitOffer
  <2> QED
    BY <2>1, <2>2, OnlyJobsOffer DEF IInv
<1> QED
  BY <1>1, Invariance, PTL DEF Spec, NeverOfferedAgain
=============================================================================
