--------------------------- MODULE BookingDispatch ---------------------------
(***************************************************************************)
(* The life of a booking, from its creation to its end, and the machinery  *)
(* that finds a driver for it: the rows of Postgres, the lock and the      *)
(* attempt counter in Redis, the jobs of the queue `booking-assignment',   *)
(* and the request handlers of customers, drivers and administrators.      *)
(*                                                                         *)
(* A handler that reads rows outside its transaction, and then writes by   *)
(* id, is two actions: Begin... (the read) and Commit... (the writes).     *)
(* What it read is kept in one of the in-flight sets, and is stale by the  *)
(* time of the commit if another handler ran in between.  A transaction    *)
(* commits at once; Postgres runs it at READ COMMITTED.                    *)
(***************************************************************************)
EXTENDS Naturals, FiniteSets

CONSTANTS
    Bookings,     \* the bookings that may be created
    Drivers,      \* the drivers, each eligible for every booking when AVAILABLE
    NoDriver,     \* null in a column that holds a driver id
    MaxAttempts,  \* MAX_ATTEMPTS of the assignment service (12 in the code)
    MaxRequests,  \* bound on the two-step requests of users, over a behaviour
    MaxFaults     \* bound on crashes and failed assignment transactions

ASSUME NoDriverAssumption == NoDriver \notin Drivers
ASSUME MaxAttemptsAssumption == MaxAttempts \in Nat /\ MaxAttempts >= 1
ASSUME BoundsAssumption == MaxRequests \in Nat /\ MaxFaults \in Nat

VARIABLES
    \* rows of the database
    booking,         \* booking[b]: Booking.status, "ABSENT" before creation
    assignedDriver,  \* assignedDriver[b]: Booking.assignedDriverId
    assignment,      \* assignment[b][d]: BookingAssignment.status, "NONE" = no row
    driverStatus,    \* driverStatus[d]: Driver.driverStatus
    invoice,         \* invoice[b]: the FINAL invoice of the booking
    age,             \* age[b]: time since Booking.createdAt
    \* Redis and the job queue
    lock,            \* lock[b]: the key booking:<b>:processing
    attempt,         \* attempt[b]: the key booking:<b>:assignment_attempt
    assignJob,       \* assignJob[b][n]: stage of the job assign:<b>:<n>
    candidate,       \* candidate[b][n]: the driver that job has picked
    timeoutJob,      \* timeoutJob[b]: stage of the job timeout:<b>
    timeoutDriver,   \* timeoutDriver[b]: the driver in that job's data
    \* what handlers in flight have read
    accepting,       \* <<b, d>>: acceptBooking has read an OFFERED assignment
    rejecting,       \* <<b, d>>: rejectBooking has queued, not yet committed
    cancelling,      \* <<b, path, d>>: a cancellation has read the booking
    toggling,        \* <<d, s>>: updateDriverStatus may write s
    followUp,        \* <<b, call>>: queue call started after a commit
    requests,        \* number of two-step requests so far
    faults           \* number of crashes and failures so far

dbVars     == <<booking, assignedDriver, assignment, driverStatus, invoice, age>>
queueVars  == <<lock, attempt, assignJob, candidate, timeoutJob, timeoutDriver>>
flightVars == <<accepting, rejecting, cancelling, toggling, followUp>>
bounds     == <<requests, faults>>
vars == <<dbVars, queueVars, flightVars, bounds>>

Attempts == 1..MaxAttempts

Terminal   == {"COMPLETED", "CANCELLED", "EXPIRED"}
PickedUp   == {"PICKUP_VERIFIED", "IN_TRANSIT", "DROP_ARRIVED", "DROP_VERIFIED",
               "COMPLETED"}
BookingStatus == {"ABSENT", "PENDING", "DRIVER_ASSIGNED", "CONFIRMED",
                  "PICKUP_ARRIVED"} \cup PickedUp \cup Terminal
Live       == {"OFFERED", "ACCEPTED"}
AssignmentStatus == {"NONE", "REJECTED", "AUTO_REJECTED", "CANCELLED"} \cup Live
DriverStatus == {"UNAVAILABLE", "AVAILABLE", "RIDE_OFFERED", "ON_RIDE"}

\* The FINAL invoice: no row, unpaid, covered by the wallet (isPaid, but no
\* paymentMethod), or paid with a method.
Paid       == {"ONLINE", "CASH"}
InvoiceState == {"NONE", "UNPAID", "COVERED"} \cup Paid

\* A job assign:<b>:<n>: delayed or waiting in the queue, holding the lock, in
\* its transaction with a decision taken, or past it.
Running    == {"locked", "picked", "expiring", "done"}
AssignStage == {"none", "delayed", "queued"} \cup Running
TimeoutStage == {"none", "delayed", "running", "committed", "requeued"}

Init ==
    /\ booking = [b \in Bookings |-> "ABSENT"]
    /\ assignedDriver = [b \in Bookings |-> NoDriver]
    /\ assignment = [b \in Bookings |-> [d \in Drivers |-> "NONE"]]
    /\ driverStatus \in [Drivers -> {"UNAVAILABLE", "AVAILABLE"}]
    /\ invoice = [b \in Bookings |-> "NONE"]
    /\ age = [b \in Bookings |-> "fresh"]
    /\ lock = [b \in Bookings |-> "free"]
    /\ attempt = [b \in Bookings |-> 1]
    /\ assignJob = [b \in Bookings |-> [n \in Attempts |-> "none"]]
    /\ candidate = [b \in Bookings |-> [n \in Attempts |-> NoDriver]]
    /\ timeoutJob = [b \in Bookings |-> "none"]
    /\ timeoutDriver = [b \in Bookings |-> NoDriver]
    /\ accepting = {} /\ rejecting = {} /\ cancelling = {}
    /\ toggling = {} /\ followUp = {}
    /\ requests = 0 /\ faults = 0

-----------------------------------------------------------------------------
(* Helpers.                                                                *)

\* Queue.add with a job id: ignored while a job of that id is in the queue.
AddAssignJob(b, n) ==
    assignJob' = [assignJob EXCEPT ![b][n] = IF @ = "none" THEN "queued" ELSE @]

\* cancelTimeoutJob: removes the job unless a worker is running it.
CancelTimeoutJob(b) ==
    LET removed == timeoutJob[b] = "delayed" IN
    /\ timeoutJob' = [timeoutJob EXCEPT ![b] = IF removed THEN "none" ELSE @]
    /\ timeoutDriver' = [timeoutDriver EXCEPT ![b] = IF removed THEN NoDriver ELSE @]

\* cancelAssignJob: removes the booking's jobs that no worker is running.
CancelAssignJobs(b) ==
    assignJob' = [assignJob EXCEPT ![b] =
                    [n \in Attempts |-> IF @[n] \in {"delayed", "queued"} THEN "none" ELSE @[n]]]

\* rejectBooking holds the rows it has updated until it commits: a transaction
\* that writes one of them waits.
BookingRowFree(b) == \A r \in rejecting : r[1] # b
DriverRowFree(d)  == \A r \in rejecting : r[2] # d

\* One more request of a user that is answered in two steps.
BeginRequest == requests < MaxRequests /\ requests' = requests + 1

\* getDriverAssignment: a live assignment of the driver, of a booking that has
\* not ended.  (With several, the code takes the latest offer, the model any.)
Current(b, d) ==
    /\ assignment[b][d] \in Live
    /\ booking[b] \notin Terminal

-----------------------------------------------------------------------------
(* Creation, and the queue calls started after a commit without await.     *)

CreateBooking(b) ==
    /\ booking[b] = "ABSENT"
    /\ booking' = [booking EXCEPT ![b] = "PENDING"]
    /\ followUp' = followUp \cup {<<b, "created">>}
    /\ UNCHANGED <<assignedDriver, assignment, driverStatus, invoice, age, queueVars,
                   accepting, rejecting, cancelling, toggling, bounds>>

\* onBookingCreated: the first assignment job.
OnBookingCreated(b) ==
    /\ <<b, "created">> \in followUp
    /\ followUp' = followUp \ {<<b, "created">>}
    /\ AddAssignJob(b, 1)
    /\ UNCHANGED <<dbVars, lock, attempt, candidate, timeoutJob, timeoutDriver,
                   accepting, rejecting, cancelling, toggling, bounds>>

\* onDriverAccept and onBookingCancelled: drop the booking's jobs.
OnBookingSettled(b) ==
    /\ <<b, "settled">> \in followUp
    /\ followUp' = followUp \ {<<b, "settled">>}
    /\ CancelTimeoutJob(b)
    /\ CancelAssignJobs(b)
    /\ UNCHANGED <<dbVars, lock, attempt, candidate,
                   accepting, rejecting, cancelling, toggling, bounds>>

-----------------------------------------------------------------------------
(* tryToAssignDriver: lock, read and decide, commit, unlock.  The job is   *)
(* complete, and its id free again, once it has released the lock.         *)

\* Mutant: set without NX.
AcquireLockWithoutNX(b, n) ==
    /\ assignJob[b][n] = "queued"
    /\ lock' = [lock EXCEPT ![b] = "held"]
    /\ assignJob' = [assignJob EXCEPT ![b][n] = "locked"]
    /\ UNCHANGED <<dbVars, attempt, candidate, timeoutJob, timeoutDriver, flightVars, bounds>>

AcquireLock(b, n) ==
    /\ assignJob[b][n] = "queued"
    /\ lock[b] = "free"
    /\ lock' = [lock EXCEPT ![b] = "held"]
    /\ assignJob' = [assignJob EXCEPT ![b][n] = "locked"]
    /\ UNCHANGED <<dbVars, attempt, candidate, timeoutJob, timeoutDriver, flightVars, bounds>>

\* The lock is taken: the job returns, and is complete.
SkipLocked(b, n) ==
    /\ assignJob[b][n] = "queued"
    /\ lock[b] # "free"
    /\ assignJob' = [assignJob EXCEPT ![b][n] = "none"]
    /\ UNCHANGED <<dbVars, lock, attempt, candidate, timeoutJob, timeoutDriver, flightVars, bounds>>

\* What the transaction reads: is the booking still to be assigned?
Assignable(b) ==
    /\ booking[b] = "PENDING"
    /\ \A d \in Drivers : assignment[b][d] \notin Live

\* FINALIZE_AFTER_MS has passed, or this is the last attempt.
OutOfTime(b, n) == age[b] # "fresh" \/ n >= MaxAttempts

AssignNothing(b, n) ==
    /\ assignJob[b][n] = "locked"
    /\ ~Assignable(b)
    /\ assignJob' = [assignJob EXCEPT ![b][n] = "done"]
    /\ UNCHANGED <<dbVars, lock, attempt, candidate, timeoutJob, timeoutDriver, flightVars, bounds>>

DecideExpire(b, n) ==
    /\ assignJob[b][n] = "locked"
    /\ Assignable(b)
    /\ OutOfTime(b, n)
    /\ assignJob' = [assignJob EXCEPT ![b][n] = "expiring"]
    /\ UNCHANGED <<dbVars, lock, attempt, candidate, timeoutJob, timeoutDriver, flightVars, bounds>>

\* The update is by id: it does not ask whether the booking is still PENDING.
CommitExpire(b, n) ==
    /\ assignJob[b][n] = "expiring"
    /\ BookingRowFree(b)
    /\ booking' = [booking EXCEPT ![b] = "EXPIRED"]
    /\ assignJob' = [assignJob EXCEPT ![b][n] = "done"]
    /\ UNCHANGED <<assignedDriver, assignment, driverStatus, invoice, age, lock, attempt,
                   candidate, timeoutJob, timeoutDriver, flightVars, bounds>>

\* pickBestCandidate may find nobody at any time: drivers come and go within
\* the radius.
RetryLater(b, n) ==
    /\ assignJob[b][n] = "locked"
    /\ Assignable(b)
    /\ ~OutOfTime(b, n)
    /\ assignJob' = [assignJob EXCEPT ![b][n] = "done",
                                      ![b][n+1] = IF @ = "none" THEN "delayed" ELSE @]
    /\ UNCHANGED <<dbVars, lock, attempt, candidate, timeoutJob, timeoutDriver, flightVars, bounds>>

\* ATTEMPT_DELAY_MS is longer than a job takes: the one that asked for the
\* retry has ended by then.
DelayPasses(b, n) ==
    /\ assignJob[b][n] = "delayed"
    /\ n - 1 \in Attempts => assignJob[b][n-1] \notin Running
    /\ assignJob' = [assignJob EXCEPT ![b][n] = "queued"]
    /\ UNCHANGED <<dbVars, lock, attempt, candidate, timeoutJob, timeoutDriver, flightVars, bounds>>

\* Mutant: only those who said no are excluded.
EligibleUnlessRejected(b, d) ==
    driverStatus[d] = "AVAILABLE" /\ assignment[b][d] \notin {"REJECTED"} \cup Live

\* Found AVAILABLE, and never offered this booking before.
Eligible(b, d) == driverStatus[d] = "AVAILABLE" /\ assignment[b][d] = "NONE"

SetAttempt(b, n) == attempt' = [attempt EXCEPT ![b] = n]

PickDriver(b, n, d) ==
    /\ assignJob[b][n] = "locked"
    /\ Assignable(b)
    /\ ~OutOfTime(b, n)
    /\ Eligible(b, d)
    /\ SetAttempt(b, n)
    /\ assignJob' = [assignJob EXCEPT ![b][n] = "picked"]
    /\ candidate' = [candidate EXCEPT ![b][n] = d]
    /\ UNCHANGED <<dbVars, lock, timeoutJob, timeoutDriver, flightVars, bounds>>

\* assignDriverTx: three writes by id, and the timeout job.
CommitOffer(b, n) ==
    LET d == candidate[b][n]
        armed == timeoutJob[b] = "none"
    IN
    /\ assignJob[b][n] = "picked"
    /\ BookingRowFree(b) /\ DriverRowFree(d)
    /\ assignment' = [assignment EXCEPT ![b][d] = "OFFERED"]
    /\ booking' = [booking EXCEPT ![b] = "DRIVER_ASSIGNED"]
    /\ assignedDriver' = [assignedDriver EXCEPT ![b] = d]
    /\ driverStatus' = [driverStatus EXCEPT ![d] = "RIDE_OFFERED"]
    /\ timeoutJob' = [timeoutJob EXCEPT ![b] = IF armed THEN "delayed" ELSE @]
    /\ timeoutDriver' = [timeoutDriver EXCEPT ![b] = IF armed THEN d ELSE @]
    /\ assignJob' = [assignJob EXCEPT ![b][n] = "done"]
    /\ candidate' = [candidate EXCEPT ![b][n] = NoDriver]
    /\ UNCHANGED <<invoice, age, lock, attempt, flightVars, bounds>>

\* The finally block: the key is deleted whoever holds it.
ReleaseLock(b, n) ==
    /\ assignJob[b][n] = "done"
    /\ lock' = [lock EXCEPT ![b] = "free"]
    /\ assignJob' = [assignJob EXCEPT ![b][n] = "none"]
    /\ UNCHANGED <<dbVars, attempt, candidate, timeoutJob, timeoutDriver, flightVars, bounds>>

\* The transaction fails (a lost connection, its time limit): it rolls back,
\* the lock is released, and the queue retries the job.  A timeout job that
\* assignDriverTx had already scheduled stays.
AssignFails(b, n) ==
    /\ faults < MaxFaults
    /\ assignJob[b][n] \in {"locked", "picked", "expiring"}
    /\ \/ UNCHANGED <<timeoutJob, timeoutDriver>>
       \/ /\ assignJob[b][n] = "picked"
          /\ timeoutJob[b] = "none"
          /\ timeoutJob' = [timeoutJob EXCEPT ![b] = "delayed"]
          /\ timeoutDriver' = [timeoutDriver EXCEPT ![b] = candidate[b][n]]
    /\ lock' = [lock EXCEPT ![b] = "free"]
    /\ assignJob' = [assignJob EXCEPT ![b][n] = "queued"]
    /\ candidate' = [candidate EXCEPT ![b][n] = NoDriver]
    /\ faults' = faults + 1
    /\ UNCHANGED <<dbVars, attempt, flightVars, requests>>

-----------------------------------------------------------------------------
(* timeoutDriver.                                                          *)

FireTimeout(b) ==
    /\ timeoutJob[b] = "delayed"
    /\ timeoutJob' = [timeoutJob EXCEPT ![b] = "running"]
    /\ UNCHANGED <<dbVars, lock, attempt, assignJob, candidate, timeoutDriver, flightVars, bounds>>

\* Mutant: the booking goes back only if the driver is still locked for it.
WithdrawsFromLocked(b, d) ==
    booking[b] = "DRIVER_ASSIGNED" /\ assignedDriver[b] = d /\ driverStatus[d] = "RIDE_OFFERED"

\* The condition on the booking row.
Withdraws(b, d) == booking[b] = "DRIVER_ASSIGNED" /\ assignedDriver[b] = d

\* Mutant: the wrong status is released.
ReleasedFromRide(status) == IF status = "ON_RIDE" THEN "AVAILABLE" ELSE status

\* The condition on the driver row.
Released(status) == IF status = "RIDE_OFFERED" THEN "AVAILABLE" ELSE status

\* Three updateMany, each with its own condition.
CommitTimeout(b) ==
    LET d == timeoutDriver[b]
        withdrawn == Withdraws(b, d)
    IN
    /\ timeoutJob[b] = "running"
    /\ BookingRowFree(b) /\ DriverRowFree(d)
    /\ assignment' = [assignment EXCEPT ![b][d] = IF @ = "OFFERED" THEN "AUTO_REJECTED" ELSE @]
    /\ booking' = [booking EXCEPT ![b] = IF withdrawn THEN "PENDING" ELSE @]
    /\ assignedDriver' = [assignedDriver EXCEPT ![b] = IF withdrawn THEN NoDriver ELSE @]
    /\ driverStatus' = [driverStatus EXCEPT ![d] = Released(@)]
    /\ timeoutJob' = [timeoutJob EXCEPT ![b] = "committed"]
    /\ UNCHANGED <<invoice, age, lock, attempt, assignJob, candidate, timeoutDriver,
                   flightVars, bounds>>

RequeueAfterTimeout(b) ==
    /\ timeoutJob[b] = "committed"
    /\ AddAssignJob(b, attempt[b])
    /\ timeoutJob' = [timeoutJob EXCEPT ![b] = "requeued"]
    /\ UNCHANGED <<dbVars, lock, attempt, candidate, timeoutDriver, flightVars, bounds>>

CompleteTimeout(b) ==
    /\ timeoutJob[b] = "requeued"
    /\ timeoutJob' = [timeoutJob EXCEPT ![b] = "none"]
    /\ timeoutDriver' = [timeoutDriver EXCEPT ![b] = NoDriver]
    /\ UNCHANGED <<dbVars, lock, attempt, assignJob, candidate, flightVars, bounds>>

-----------------------------------------------------------------------------
(* The driver answers the offer.                                           *)

BeginAccept(b, d) ==
    /\ BeginRequest
    /\ assignment[b][d] = "OFFERED"
    /\ booking[b] = "DRIVER_ASSIGNED"
    /\ accepting' = accepting \cup {<<b, d>>}
    /\ UNCHANGED <<dbVars, queueVars, rejecting, cancelling, toggling, followUp, faults>>

\* The updateMany on the assignment may find nothing to update; its count is
\* not looked at.  The other writes are by id.  createFinalInvoice fails on the
\* unique key (bookingId, type) if the booking has a FINAL invoice.
CommitAccept(b, d) ==
    /\ <<b, d>> \in accepting
    /\ invoice[b] = "NONE"
    /\ BookingRowFree(b) /\ DriverRowFree(d)
    /\ assignment' = [assignment EXCEPT ![b][d] = IF @ = "OFFERED" THEN "ACCEPTED" ELSE @]
    /\ booking' = [booking EXCEPT ![b] = "CONFIRMED"]
    /\ driverStatus' = [driverStatus EXCEPT ![d] = "ON_RIDE"]
    /\ \E i \in {"UNPAID", "COVERED"} : invoice' = [invoice EXCEPT ![b] = i]
    /\ accepting' = accepting \ {<<b, d>>}
    /\ followUp' = followUp \cup {<<b, "settled">>}
    /\ UNCHANGED <<assignedDriver, age, queueVars, rejecting, cancelling, toggling, bounds>>

AcceptRollsBack(b, d) ==
    /\ <<b, d>> \in accepting
    /\ invoice[b] # "NONE"
    /\ accepting' = accepting \ {<<b, d>>}
    /\ UNCHANGED <<dbVars, queueVars, rejecting, cancelling, toggling, followUp, bounds>>

\* No status is asked for, only that the assignment exists.  The transaction
\* has written its rows when it calls onDriverReject, and commits afterwards.
BeginReject(b, d) ==
    /\ BeginRequest
    /\ assignment[b][d] # "NONE"
    /\ BookingRowFree(b) /\ DriverRowFree(d)
    /\ rejecting' = rejecting \cup {<<b, d>>}
    /\ CancelTimeoutJob(b)
    /\ AddAssignJob(b, attempt[b])
    /\ UNCHANGED <<dbVars, lock, attempt, candidate, accepting, cancelling, toggling,
                   followUp, faults>>

CommitReject(b, d) ==
    /\ <<b, d>> \in rejecting
    /\ assignment' = [assignment EXCEPT ![b][d] = "REJECTED"]
    /\ booking' = [booking EXCEPT ![b] = "PENDING"]
    /\ assignedDriver' = [assignedDriver EXCEPT ![b] = NoDriver]
    /\ driverStatus' = [driverStatus EXCEPT ![d] = "AVAILABLE"]
    /\ rejecting' = rejecting \ {<<b, d>>}
    /\ UNCHANGED <<invoice, age, queueVars, accepting, cancelling, toggling, followUp, bounds>>

-----------------------------------------------------------------------------
(* Cancellation: by the customer up to the pickup, with no cash collected, *)
(* or by an administrator up to the end of the ride.                       *)

BeginCustomerCancel(b) ==
    /\ BeginRequest
    /\ booking[b] \in {"PENDING", "DRIVER_ASSIGNED", "CONFIRMED", "PICKUP_ARRIVED"}
    /\ invoice[b] # "CASH"
    /\ LET path == IF invoice[b] = "NONE" \/ assignedDriver[b] = NoDriver
                   THEN "unconfirmed" ELSE "confirmed"
       IN cancelling' = cancelling \cup {<<b, path, assignedDriver[b]>>}
    /\ UNCHANGED <<dbVars, queueVars, accepting, rejecting, toggling, followUp, faults>>

BeginAdminCancel(b) ==
    /\ BeginRequest
    /\ booking[b] \notin Terminal \cup {"ABSENT"}
    /\ cancelling' = cancelling \cup {<<b, "admin", assignedDriver[b]>>}
    /\ UNCHANGED <<dbVars, queueVars, accepting, rejecting, toggling, followUp, faults>>

\* The assignment row of the driver that was read, after the cancellation.
Withdrawn(path, status) ==
    IF path = "confirmed" THEN IF status = "NONE" THEN "NONE" ELSE "CANCELLED"
    ELSE IF status = "OFFERED" THEN "AUTO_REJECTED" ELSE status

\* The booking is cancelled and the driver released by id, whatever happened
\* since they were read.  An administrator's cancellation leaves the queue alone.
CommitCancel(b, path, d) ==
    /\ <<b, path, d>> \in cancelling
    /\ BookingRowFree(b)
    /\ booking' = [booking EXCEPT ![b] = "CANCELLED"]
    /\ \/ /\ d \in Drivers
          /\ DriverRowFree(d)
          /\ driverStatus' = [driverStatus EXCEPT ![d] = "AVAILABLE"]
          /\ assignment' = [assignment EXCEPT ![b][d] = Withdrawn(path, @)]
       \/ /\ d = NoDriver
          /\ UNCHANGED <<driverStatus, assignment>>
    /\ cancelling' = cancelling \ {<<b, path, d>>}
    /\ followUp' = IF path = "admin" THEN followUp ELSE followUp \cup {<<b, "settled">>}
    /\ UNCHANGED <<assignedDriver, invoice, age, queueVars, accepting, rejecting, toggling, bounds>>

-----------------------------------------------------------------------------
(* The ride: each step is an update on the condition that the booking is   *)
(* in one of the statuses before it.                                       *)

Advance(b, d, from, to) ==
    /\ Current(b, d)
    /\ booking[b] \in from
    /\ BookingRowFree(b)
    /\ booking' = [booking EXCEPT ![b] = to]
    /\ UNCHANGED <<assignedDriver, assignment, invoice, age, queueVars, flightVars, bounds>>

PickupArrived(b, d) ==
    /\ Advance(b, d, {"CONFIRMED"}, "PICKUP_ARRIVED")
    /\ UNCHANGED driverStatus

\* Mutant: any FINAL invoice will do.
PaidLater(b) == invoice[b] # "NONE"

\* The FINAL invoice must be paid and have a payment method.
PaidForRide(b) == invoice[b] \in Paid

VerifyPickup(b, d) ==
    /\ PaidForRide(b)
    /\ Advance(b, d, {"CONFIRMED", "PICKUP_ARRIVED"}, "PICKUP_VERIFIED")
    /\ UNCHANGED driverStatus

StartRide(b, d) ==
    /\ Advance(b, d, {"PICKUP_VERIFIED"}, "IN_TRANSIT")
    /\ UNCHANGED driverStatus

DropArrived(b, d) ==
    /\ Advance(b, d, {"PICKUP_VERIFIED", "IN_TRANSIT"}, "DROP_ARRIVED")
    /\ UNCHANGED driverStatus

VerifyDrop(b, d) ==
    /\ Advance(b, d, {"PICKUP_VERIFIED", "IN_TRANSIT", "DROP_ARRIVED"}, "DROP_VERIFIED")
    /\ UNCHANGED driverStatus

FinishRide(b, d) ==
    /\ PaidForRide(b)
    /\ Advance(b, d, {"DROP_VERIFIED"}, "COMPLETED")
    /\ DriverRowFree(d)
    /\ driverStatus' = [driverStatus EXCEPT ![d] = "AVAILABLE"]

\* The customer pays online (the webhook of the payment link): the status of
\* the booking is not looked at.  How payments race is in BookingPayment.
PayOnline(b) ==
    /\ invoice[b] = "UNPAID"
    /\ invoice' = [invoice EXCEPT ![b] = "ONLINE"]
    /\ UNCHANGED <<booking, assignedDriver, assignment, driverStatus, age,
                   queueVars, flightVars, bounds>>

\* The driver collects the money in cash, at any time after he has accepted.
SettleWithCash(b, d) ==
    /\ Current(b, d)
    /\ invoice[b] = "UNPAID"
    /\ invoice' = [invoice EXCEPT ![b] = "CASH"]
    /\ UNCHANGED <<booking, assignedDriver, assignment, driverStatus, age,
                   queueVars, flightVars, bounds>>

-----------------------------------------------------------------------------
(* The driver's availability switch, and the scheduled jobs.               *)

BeginToggle(d, s) ==
    /\ BeginRequest
    /\ driverStatus[d] \notin {"ON_RIDE", "RIDE_OFFERED"}
    /\ toggling' = toggling \cup {<<d, s>>}
    /\ UNCHANGED <<dbVars, queueVars, accepting, rejecting, cancelling, followUp, faults>>

CommitToggle(d, s) ==
    /\ <<d, s>> \in toggling
    /\ DriverRowFree(d)
    /\ driverStatus' = [driverStatus EXCEPT ![d] = s]
    /\ toggling' = toggling \ {<<d, s>>}
    /\ UNCHANGED <<booking, assignedDriver, assignment, invoice, age, queueVars,
                   accepting, rejecting, cancelling, followUp, bounds>>

ResetDriverAvailability ==
    /\ \E d \in Drivers : driverStatus[d] = "AVAILABLE"
    /\ \A d \in Drivers : driverStatus[d] = "AVAILABLE" => DriverRowFree(d)
    /\ driverStatus' = [d \in Drivers |-> IF driverStatus[d] = "AVAILABLE"
                                          THEN "UNAVAILABLE" ELSE driverStatus[d]]
    /\ UNCHANGED <<booking, assignedDriver, assignment, invoice, age,
                   queueVars, flightVars, bounds>>

\* A booking is late after 5 minutes and overdue after 10.  Its age is only
\* ever looked at while it is PENDING, so that is when it is let grow.
GrowOlder(b) ==
    /\ booking[b] = "PENDING"
    /\ age[b] # "overdue"
    /\ age' = [age EXCEPT ![b] = IF @ = "fresh" THEN "late" ELSE "overdue"]
    /\ UNCHANGED <<booking, assignedDriver, assignment, driverStatus, invoice,
                   queueVars, flightVars, bounds>>

\* Mutant: the cron compares the creation time the wrong way round.
ForgottenIfYoung(b) == booking[b] = "PENDING" /\ age[b] = "fresh"

Forgotten(b) == booking[b] = "PENDING" /\ age[b] = "overdue"

MarkExpiredBookings ==
    /\ \E b \in Bookings : Forgotten(b)
    /\ \A b \in Bookings : Forgotten(b) => BookingRowFree(b)
    /\ booking' = [b \in Bookings |-> IF Forgotten(b) THEN "EXPIRED" ELSE booking[b]]
    /\ UNCHANGED <<assignedDriver, assignment, driverStatus, invoice, age,
                   queueVars, flightVars, bounds>>

-----------------------------------------------------------------------------
(* The server process dies: handlers in flight are lost, their             *)
(* transactions rolled back.  The queue finds the jobs the workers ran     *)
(* stalled and hands them out again; a lock stays until its 30 s are over. *)

Crash ==
    /\ faults < MaxFaults
    /\ faults' = faults + 1
    /\ accepting' = {} /\ rejecting' = {} /\ cancelling' = {}
    /\ toggling' = {} /\ followUp' = {}
    /\ lock' = [b \in Bookings |-> IF lock[b] = "held" THEN "orphaned" ELSE lock[b]]
    /\ assignJob' = [b \in Bookings |-> [n \in Attempts |->
                        IF assignJob[b][n] \in Running THEN "queued" ELSE assignJob[b][n]]]
    /\ candidate' = [b \in Bookings |-> [n \in Attempts |-> NoDriver]]
    /\ timeoutJob' = [b \in Bookings |->
                        IF timeoutJob[b] = "none" THEN "none" ELSE "delayed"]
    /\ UNCHANGED <<dbVars, attempt, timeoutDriver, requests>>

\* Mutant: a key that expires under a running job.
ExpireLockEarly(b) ==
    /\ lock[b] # "free"
    /\ lock' = [lock EXCEPT ![b] = "free"]
    /\ UNCHANGED <<dbVars, attempt, assignJob, candidate, timeoutJob, timeoutDriver,
                   flightVars, bounds>>

ExpireLock(b) ==
    /\ lock[b] = "orphaned"
    /\ lock' = [lock EXCEPT ![b] = "free"]
    /\ UNCHANGED <<dbVars, attempt, assignJob, candidate, timeoutJob, timeoutDriver,
                   flightVars, bounds>>

-----------------------------------------------------------------------------

AssignStep(b, n) ==
    \/ AcquireLock(b, n) \/ SkipLocked(b, n)
    \/ AssignNothing(b, n) \/ RetryLater(b, n) \/ DelayPasses(b, n)
    \/ \E d \in Drivers : PickDriver(b, n, d)
    \/ DecideExpire(b, n) \/ CommitExpire(b, n)
    \/ CommitOffer(b, n) \/ ReleaseLock(b, n)

TimeoutStep(b) ==
    \/ FireTimeout(b) \/ CommitTimeout(b)
    \/ RequeueAfterTimeout(b) \/ CompleteTimeout(b)

Paths == {"unconfirmed", "confirmed", "admin"}

\* Handlers that have begun, and queue calls that were started.
FinishStep(b) ==
    \/ OnBookingCreated(b) \/ OnBookingSettled(b)
    \/ \E d \in Drivers : CommitAccept(b, d) \/ AcceptRollsBack(b, d) \/ CommitReject(b, d)
    \/ \E path \in Paths, d \in Drivers \cup {NoDriver} : CommitCancel(b, path, d)

RideStep(b, d) ==
    \/ PickupArrived(b, d) \/ VerifyPickup(b, d) \/ StartRide(b, d)
    \/ DropArrived(b, d) \/ VerifyDrop(b, d) \/ FinishRide(b, d)

UserStep(b) ==
    \/ CreateBooking(b) \/ BeginCustomerCancel(b)
    \/ \E d \in Drivers : BeginAccept(b, d) \/ BeginReject(b, d)

\* From the creation of a booking to a driver's answer.
DispatchStep(b) ==
    \/ UserStep(b) \/ FinishStep(b) \/ TimeoutStep(b) \/ GrowOlder(b) \/ ExpireLock(b)
    \/ \E n \in Attempts : AssignStep(b, n) \/ AssignFails(b, n)

ToggleStep(d) ==
    \E s \in {"AVAILABLE", "UNAVAILABLE"} : BeginToggle(d, s) \/ CommitToggle(d, s)

Next ==
    \/ \E b \in Bookings :
          \/ DispatchStep(b) \/ BeginAdminCancel(b) \/ PayOnline(b)
          \/ \E d \in Drivers : RideStep(b, d) \/ SettleWithCash(b, d)
    \/ \E d \in Drivers : ToggleStep(d)
    \/ ResetDriverAvailability \/ MarkExpiredBookings \/ Crash

\* Dispatch alone: nobody drives, pays or switches.  A sub-behaviour of Next
\* for instances with several bookings.
DispatchNext == (\E b \in Bookings : DispatchStep(b)) \/ MarkExpiredBookings \/ Crash

Spec == Init /\ [][Next]_vars

DispatchSpec == Init /\ [][DispatchNext]_vars

\* What the server and its schedulers do by themselves is done eventually; no
\* user has to act.
Fairness ==
    /\ \A b \in Bookings :
          /\ WF_vars(FinishStep(b)) /\ WF_vars(TimeoutStep(b))
          /\ WF_vars(GrowOlder(b)) /\ WF_vars(ExpireLock(b))
          /\ \A n \in Attempts : WF_vars(AssignStep(b, n))
    /\ WF_vars(MarkExpiredBookings)

FairSpec == Spec /\ Fairness

-----------------------------------------------------------------------------
(* Properties.                                                             *)

\* Every variable has its type.
TypeOK ==
    /\ booking \in [Bookings -> BookingStatus]
    /\ assignedDriver \in [Bookings -> Drivers \cup {NoDriver}]
    /\ assignment \in [Bookings -> [Drivers -> AssignmentStatus]]
    /\ driverStatus \in [Drivers -> DriverStatus]
    /\ invoice \in [Bookings -> InvoiceState]
    /\ age \in [Bookings -> {"fresh", "late", "overdue"}]
    /\ lock \in [Bookings -> {"free", "held", "orphaned"}]
    /\ attempt \in [Bookings -> Attempts]
    /\ assignJob \in [Bookings -> [Attempts -> AssignStage]]
    /\ candidate \in [Bookings -> [Attempts -> Drivers \cup {NoDriver}]]
    /\ \A b \in Bookings, n \in Attempts :
          assignJob[b][n] = "picked" <=> candidate[b][n] # NoDriver
    /\ timeoutJob \in [Bookings -> TimeoutStage]
    /\ timeoutDriver \in [Bookings -> Drivers \cup {NoDriver}]
    /\ \A b \in Bookings : timeoutJob[b] # "none" <=> timeoutDriver[b] # NoDriver
    /\ accepting \subseteq Bookings \X Drivers
    /\ rejecting \subseteq Bookings \X Drivers
    /\ cancelling \subseteq Bookings \X Paths \X (Drivers \cup {NoDriver})
    /\ toggling \subseteq Drivers \X {"AVAILABLE", "UNAVAILABLE"}
    /\ followUp \subseteq Bookings \X {"created", "settled"}
    /\ requests \in 0..MaxRequests
    /\ faults \in 0..MaxFaults

\* A booking is on offer to, or taken by, at most one driver: two jobs of one
\* booking never assign it concurrently, whatever is timed out, rejected,
\* retried or restarted meanwhile.
OneLiveAssignment ==
    \A b \in Bookings : \A d, e \in Drivers :
        assignment[b][d] \in Live /\ assignment[b][e] \in Live => d = e

\* A job past its lock acquisition is alone with its booking and holds the lock.
LockIsExclusive ==
    \A b \in Bookings : \A m, n \in Attempts :
        assignJob[b][m] \in Running =>
            /\ lock[b] = "held"
            /\ assignJob[b][n] \in Running => m = n

\* What a job has read stays true until it commits its offer: nobody else
\* gives the booking to a driver, and its candidate was never asked.
PickIsStillOpen ==
    \A b \in Bookings, n \in Attempts :
        assignJob[b][n] = "picked" =>
            /\ \A d \in Drivers : assignment[b][d] \notin Live
            /\ assignment[b][candidate[b][n]] = "NONE"

\* A booking shown as DRIVER_ASSIGNED names a driver who has the offer: he can
\* accept it, and nobody waits for a driver who was never asked.
AssignedDriverHasOffer ==
    \A b \in Bookings :
        booking[b] = "DRIVER_ASSIGNED" =>
            /\ assignedDriver[b] \in Drivers
            /\ assignment[b][assignedDriver[b]] = "OFFERED"

\* A driver locked as RIDE_OFFERED has the row of an offer, with which he can
\* refuse it and be free again: rejectBooking asks for nothing else.  He cannot
\* always accept, and it need not time out: see LockEndsWithBooking.
OfferedDriverHasOffer ==
    \A d \in Drivers :
        driverStatus[d] = "RIDE_OFFERED" =>
            \E b \in Bookings : assignment[b][d] = "OFFERED"

\* The goods are picked up only after the customer has paid by some method, and
\* stay paid for until the ride ends, however often the booking was rejected,
\* offered again or accepted late.  This is what verifyPickup asks for; three
\* documents say otherwise, that a driver may collect cash at the drop.
PickedUpIsPaid ==
    \A b \in Bookings : booking[b] \in PickedUp => invoice[b] \in Paid

\* A rejection under way is of an assignment that exists.
RejectedWasOffered == \A r \in rejecting : assignment[r[1]][r[2]] # "NONE"

\* The inductive invariant of the proofs.
IInv ==
    /\ TypeOK /\ LockIsExclusive /\ PickIsStillOpen /\ RejectedWasOffered
    /\ OneLiveAssignment /\ AssignedDriverHasOffer /\ OfferedDriverHasOffer /\ PickedUpIsPaid

\* A driver who let an offer pass, or gave the booking up, is not offered it again.
NeverOfferedAgain ==
    [][\A b \in Bookings, d \in Drivers :
          assignment[b][d] # "OFFERED" /\ assignment[b][d]' = "OFFERED"
              => assignment[b][d] = "NONE"]_vars

\* No booking waits for a driver for ever, even when the job that should find
\* one is lost: the scheduled job ends the wait.
PendingEnds ==
    \A b \in Bookings : booking[b] = "PENDING" ~> booking[b] # "PENDING"

\* driver-states.md, of RIDE_OFFERED: "Temporarily locked for a specific booking",
\* until "Driver Rejects / Timeout".  So a driver whose booking has ended is free
\* again, by the timeout if he does nothing.  A cancellation that read the booking
\* before the offer leaves his row and status as they are, and removes the timeout.
LockEndsWithBooking ==
    \A d \in Drivers :
        /\ driverStatus[d] = "RIDE_OFFERED"
        /\ \A b \in Bookings : assignment[b][d] = "OFFERED" => booking[b] \in Terminal
        ~> driverStatus[d] # "RIDE_OFFERED"

\* booking-states.md: nothing follows COMPLETED or CANCELLED.  A handler that
\* read the booking earlier writes its status by id.
EndedForGood ==
    [][\A b \in Bookings :
          booking[b] \in {"COMPLETED", "CANCELLED"} => booking'[b] = booking[b]]_vars
=============================================================================
