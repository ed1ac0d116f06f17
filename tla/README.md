# Specifications of the hello_truck server

The repository is the back end of a truck-booking service: a NestJS server on
Postgres (through Prisma), Redis and BullMQ, run as several instances.
Customers book a truck, the server offers the booking to one driver after
another, a driver accepts and drives, the customer pays by wallet, payment link
or cash, and money goes back to customers and on to drivers. An administration
portal verifies drivers, cancels bookings and grants refunds.

Nearly every hazard of this code has one shape: a handler reads rows, decides,
and then writes by id in a later transaction; meanwhile another request, a job
of the queue, a scheduled job, a webhook or a second instance of the server has
written the same rows. The models therefore follow the code at the boundaries of
its transactions and of its calls of Redis, of the queue and of the gateways.

## 1. The system

| Part | State | Operations | Hard behaviour |
|---|---|---|---|
| Dispatch (`booking/assignment`) | `Booking.status`, `assignedDriverId`, `BookingAssignment`, `Driver.driverStatus`; Redis lock and attempt counter; jobs `assign:<b>:<n>`, `timeout:<b>` | assign, time out, accept, reject, cancel, expire | jobs of one booking side by side, job ids in use, jobs queued inside a transaction, crashes between two writes |
| Ride (`booking-driver.service`) | booking, driver, final invoice | arrive, verify pickup, start, arrive, verify drop, finish | payment before pickup; cancellation during the ride |
| Customer's bookings (`booking-customer.service`) | booking, estimate and final invoice | create, edit, cancel, follow live | cancellation of what another handler is changing |
| Cancellation refund (`booking-refund.service`, refund cron) | `RefundIntent`, wallets, refunds at the gateway | create, claim, refund, book, retry, take over | lost answers, crashes, retries, several processors |
| Payment (`booking-payment.service`, `booking-invoice.service`, webhook) | `Invoice`, `Transaction`, payment link at the gateway, wallet | make link, webhook, cash, cancel link | duplicate and late webhooks, cash against link, payment against cancellation |
| Pricing (`booking/pricing`, invoice, refund) | amounts in paise | estimate, bill, settle, charge, split a refund | truncation, debts, wallets that cover everything |
| Support refunds (`admin-portal/support`) | `AdminRefundRequest`, `RefundIntent`, queue jobs | request, approve, reject, revert, finalise | buffer time, revert against finalisation, two finalisers |
| Payouts and top-ups (`driver/payment`, payout cron) | `Payout`, driver's wallet, payouts and links at the gateway | daily payout, withdrawal, retry, top-up | balances written from stale reads, lost answers, early and repeated webhooks |
| Verification (`admin-portal/verification`, documents, the older `admin`) | `DriverVerificationRequest`, driver, documents, queue jobs | request, assign, decide, revert, finalise, expire, update at once | as support refunds; three makers of requests, and an update without one |
| Referrals | `CustomerReferral`, `DriverReferral`, wallets, ride counters | apply code, reward referrer | overlapping applications, a reward nobody retries |
| Sessions, tokens, one-time codes | `CustomerSession`, `DriverSession`, Redis keys | log in, refresh, verify | lost answers, attempts counted from a stale read |
| Portal accounts (`admin-portal/auth`, `users`, `session`) | `AdminUser`, `AdminSession`, signed tokens | log in, refresh, manage users, reset | a user written before his sessions are deleted |
| Audit log (`admin-portal/audit-log`) | `AuditLog`, files in the bucket | write, archive, delete | two archivals, new entries while one runs |
| Help desk (`admin-portal/libredesk`) | request's assignee, ticket's assignee | make ticket, assign, webhook | both sides change it, the echo of one's own change |
| Profiles | addresses, GST, vehicle, documents | create, edit, delete | check and insertion apart |
| Scheduled jobs (`cron`) | Redis locks with a time to live | nightly, two-hourly | a lock that expires under a running job |
| Event bus (`redis`, `driver.gateway`) | subscriptions in memory | subscribe, publish, unsubscribe | last leaver against first joiner |
| Portal notifications (`admin-portal/notifications`, `firebase`) | inboxes, tokens of browsers, topics at Firebase | save a token, subscribe, store, push | sent while users, roles and sessions change; nothing leaves a topic |
| Cleanup of old rows | | storage | none that other state depends on |

How they meet: creating a booking queues the first assignment job; acceptance
makes the final invoice, uses the wallet and makes the payment link; payment
lets the ride start; cancellation withdraws jobs and creates a refund intent;
the cron jobs expire forgotten bookings, retry refunds and payouts; an
administrator's approved refund becomes a refund intent too. `PROJECT.json`
lists the parts with their files and the hazards with their lines.

What makes each part correct, in a sentence: a booking is with one driver at a
time and every wait of it ends; a ride starts paid; an ended booking stays
ended; a refund is made once, booked once, and not lost; what is marked paid,
settled or to be returned is backed by a payment, and the amounts add up; a
balance changes by what the log says; a granted refund is paid once, and not if
it was reverted; a driver's standing follows the last decision and his documents
were accepted by somebody; a reward is given once; nobody who was shut out comes
back, and nobody else is shut out; no entry of the log is lost; a notification
is shown once, and where it was asked for.

## 2. Modules

| Module | Models |
|---|---|
| `BookingDispatch` | a booking from creation to end: dispatch, ride, cancellations, driver's switch, cron jobs, crashes |
| `RefundPromise`, `RefundIntent` | what a refund promises (abstract), and the life of a refund intent that implements it |
| `PayoutPromise`, `DriverPayout` | what a payout promises (abstract), and a driver's wallet and payouts that implement it |
| `BookingPayment` | invoices, links, webhook, cash and cancellation |
| `BookingMoney` | the amounts of one booking, in paise |
| `DriverTopUp` | a driver's payments into his wallet |
| `Referral` | codes, bonuses, rewards and the wallets that rides write |
| `SupportRefund` | the desk's refund requests beside the booking's cancellation |
| `DriverVerification` | one driver's documents and verification requests |
| `HelpDesk` | the assignee of a verification request, in the portal and at the desk |
| `Sessions` | one-time codes and sessions of a phone number |
| `AdminAccounts` | users of the portal, roles, sessions and tokens |
| `AdminNotifications` | the portal's notifications, on top of `AdminAccounts` |
| `AuditLog` | the log's entries and their archival |
| `Profiles` | addresses, GST details, a driver's registration |
| `RealtimeBus` | the subscriptions of customers' live streams |
| `BookingDispatchProofs`, `RefundIntentProofs`, `DriverPayoutProofs` | theorems of these three modules |
| `PaymentsProofs` | theorems of `BookingPayment`, `BookingMoney` and `Referral` |
| `SupportRefundProofs`, `DriverVerificationProofs` | theorems of these two modules |
| `AccountsProofs` | theorems of `Sessions`, `AdminAccounts` and `AdminNotifications` |
| `RecordsProofs` | theorems of `AuditLog`, `Profiles`, `HelpDesk` and `RealtimeBus` |
| `MC...` | instances for TLC; `MCPromises`, `MCPayments` and `MCAccounts` put several modules that share no variable into one run |

Definitions marked "Mutant" are not part of the models: each is a plausible bug
of the code that makes one of the properties fail, and shows that the property
can.

Several modules have a *history* variable that notes that handlers have
overlapped (`disturbed`, `calm`, `overtaken`, `codeRaced`, `raced`, `overlapped`,
...). Where the code promises something only as long as two handlers keep apart,
the property says so by it; TLC finds the property false without that premise,
and section 5 tells how. Other histories (`accepted`, `byHand`, `registered`,
`managed`) note who caused what a row says.

### BookingDispatch

State. Database rows are functions of the booking or the driver (`booking`,
`assignedDriver`, `assignment`, `driverStatus`, `invoice`, `age`); Redis and the
queue are `lock`, `attempt`, `assignJob`, `candidate`, `timeoutJob`,
`timeoutDriver`; `accepting`, `rejecting`, `cancelling` and `toggling` hold what a
request in flight has read, `followUp` the calls of the queue that were started
after a commit and not awaited.

Actions. A handler that reads before its transaction is `Begin...` and
`Commit...`; the commit writes by id, as the code does, whatever happened since.
`tryToAssignDriver` is `AcquireLock` or `SkipLocked`; then, as its transaction
reads and decides, `AssignNothing`, `DecideExpire`, `RetryLater` or
`PickDriver`; then `CommitExpire` or `CommitOffer`; then `ReleaseLock`.
`timeoutDriver` is `FireTimeout`, `CommitTimeout`, `RequeueAfterTimeout`,
`CompleteTimeout`. `rejectBooking` queues the next job inside its transaction:
`BeginReject` queues, `CommitReject` commits, and in between other writers of its
rows wait (`BookingRowFree`, `DriverRowFree`).

Abstractions.
- Which eligible driver is nearest and best rated does not matter to the
  properties: `PickDriver` takes any, and `RetryLater` is always possible.
- A step of the ride reads the assignment and updates the status on a condition;
  the model does both in one action. The update is conditional, so only the
  assignment could be stale, and a booking's assignment does not change while
  the ride's statuses hold, except by a cancellation, which ends it.
- The lock lives 30 s and Prisma ends a transaction after 5 s, so the key does
  not expire under a living job; `ExpireLock` frees the lock of a dead one.
- A failed transaction of a job, and the queue's retry, is `AssignFails`; a
  process that dies is `Crash`. Both are bounded by `MaxFaults`.
- `age` grows only while the booking is PENDING, the only time it is read.
- A wallet covers an invoice, or does not, as it likes (`CommitAccept`).

### RefundIntent

`BeginCancel` and `CommitCancel` are the cancellation of a confirmed booking: the
read of `cancelBooking` and the transaction of `cancelConfirmedBooking` with
`createRefundIntent`. A call of `processRefundIntent` is `Claim` (one conditional
update), `NothingToReturn` or `FindRefund` and `IssueRefund` (the gateway), and
`Settle` (one transaction) or, from anywhere, `CallFails` and `RecordFailure`
(the catch block), or `LoseCall` (the process dies). `ClaimGoesStale` is the
passing of 15 minutes, `WindowCloses` of the two days in which a FAILED intent is
retried. `issued` is the gateway's ledger; `Listed` is how the code looks a refund
up there, by booking and amount. The wallet, the driver's compensation and the
transaction record are written in the transaction of `Settle`, so one counter,
`credits`, stands for them.

A claim may go stale while its call goes on: the refund client of the gateway
has no timeout (`razorpay.service.ts:28`), and neither the final transaction nor
the catch block, which write by id, asks whether the claim is still theirs. A
second call then takes the intent over; both may find no refund, make one each
and book one each. The history `overtaken` collects the intents to which this
has happened. `SettledOnce`, `RefundedOnce` and `ClaimIsExclusive` are said of all
others; `BooksFollowMoney` (whoever books has the money at the gateway) is said of
these too. Run `Claim_RefundIsIdempotent` shows what a takeover of a call that goes
on can do. No assumption is made on time: a crash, a lost answer, any number of
retries and a takeover of a dead call are all in what is promised. A database
call that reports an error is taken not to have been committed.

`RefundPromise` is the abstract specification: an intent falls due, is settled
once, and has at most one refund at the gateway, never one after it is settled.
It has one hole: an intent that is due may become contested, and is then refunded
and booked any number of times; what is settled is never contested afterwards.
`KeepsPromise` maps `status` and `overtaken` to its `phase`.

### DriverPayout

`balance` is one driver's wallet; drivers share nothing. A credit is read and
written in one transaction, `BeginCredit` and `CommitCredit`: a ride paid online,
a top-up or a compensation. `BeginDailyPayout` is the list of
`processDailyPayouts`, `BeginWithdrawal` the read of `processWithdrawal`;
`ProcessPayout` and `ProcessWithdrawal` are their transactions, which write what
is left of what was read and create the row (`Charge`). `Claim` is the conditional
update of `retryPayout`. From there all three are `executeStoredPayout`:
`SendPayout`, then `Complete`, or `CallFails` and `MarkPayoutFailed`. `LoseCall` is
a death of the process, `GoStale` the passing of 15 minutes, `WindowCloses` of two
days.

The gateway takes one payout for a key (`X-Payout-Idempotency`, `Key`): that it
honours the key is the assumption on which `PaidOnce` rests. Here a row may be
taken over while its first call goes on without harm, because the key is the
row's, and because a row with the gateway's id is not claimed, even if the
slower call has marked it FAILED (`NeverReopened`). What a reader of the table
sees is then wrong, what the driver gets is not. `sent` counts what the gateway
has taken; a payout it queues or reverses later does not come back to the
program, which has called it COMPLETED (`payout.service.ts:317`). A row whose
two days are over stays FAILED and charged: no code gives the money back to the
wallet.

`retryCount` is written and never read, and left out. A withdrawal's limit of one
a minute counts per process, so the models let two overlap.

`PayoutPromise`: a payout is charged, taken by the gateway, booked, once each and
in this order.

### BookingPayment, DriverTopUp

A handler of `BookingPayment` is a read of booking and invoice (`Begin...`), then
its transaction (`Commit...`) or call of the gateway; `call` holds what it has
read. `BeginLink`, `AskLink`, `SaveLink` make a payment link, `BeginWebhook` and
`CommitWebhook` are `handlePaymentSuccess`, `BeginCash` and `CommitCash` the cash
settlement, `BeginCancel` and `CommitCancel` the cancellation of a confirmed
booking, `DropLink` the cancellation of a link, which nobody awaits. The gateway's
links and payments are `linkOf` and `linkState` (external). A settlement
(`FinishRide`) goes by the invoice's method. How an intent is then processed is
`RefundIntent`'s.

`DriverTopUp`: `CreateTopUp` writes the row, `AskTopUpLink` asks the gateway for
the link, `CacheTopUp` keeps it in Redis while it has time left, `AnswerTopUp`
gives the driver the address; the webhook credits the wallet and clears the
cache. Links accept partial payment, and reports repeat until one is `answered`.
A report whose reference has no row is answered too, and never comes back
(`payment.service.ts:129-133`): the payment is lost. It is the order of the first
two steps that keeps this from happening, and `TopUpIsCredited` fails of a
program that writes the row after the link.

### BookingMoney

The amounts of one booking, request after request: price, estimate, final
invoice, the wallet's part, payment, commission, the charge of a cancellation
and its split, the driver's compensation, and a manual refund. Truncation is
`ROUND_DOWN` to whole paise, the price rounds half up, as `decimal.utils.ts` and
the pricing do. Metres stand for the kilometres of the maps service; the
configuration is the defaults of `env.config.ts`.

### Referral

Customers and drivers alike. A code is applied in one transaction, after checks
that another application may overtake (`BeginReferral`, `ApplyReferralCode`); the
unique column decides. A ride reads wallets at its acceptance and at its end and
writes what it makes of them (`BeginAccept`, `UseBalance`, `BeginFinish`,
`CountRide`); the reward of the first ride is a call in memory (`dueReward`).

### SupportRefund, DriverVerification

The same pattern twice: a request, a decision, a buffer in which it may be
reverted, a job at the buffer's end and a cron job for what the job has missed.
Handlers read, then write by id. The job's id is the request's, so a second
approval finds it in use (`Schedule`, `VSchedule`), and a job may belong to an
earlier buffer (`"loose"`). `SupportRefund` has the finalisation in its three
writes (`ReadRequest`, `MakeIntent`, `LinkIntent`), the desk's processor
(`Claim`, `RefundDone`, `RefundFails`), the general refund cron, which takes up
the same intents but does not complete their request, and the cancellation of
the booking. `DriverVerification` has the upload of documents with the background
creation of a request, the cron job and the portal as the other two makers,
assignment, reviews, photos, rejection and reinstatement, and the nightly expiry
of documents. A second writer of the same rows is the older administration's
`PATCH admin/drivers/:id/verification` (`src/src/admin/admin.service.ts:173-228`),
which is live beside the portal: `UpdateDriverVerification` sets the driver to
the status it is given and, if that is VERIFIED, all his documents, without a
request and whatever reviews say. So `accepted` means that somebody with the right
to do so has accepted the document, an agent by his review or an administrator by
this update, and `byHand` that the driver was last made VERIFIED by such an update
and not by a finalisation. What an agent may do an administrator may do as well,
so roles are left out.

In `SupportRefund` any handler may die between any two of its writes, and the
properties hold of what is left, but for two places (`Torn`): an intent that was
made and that no request holds yet, and a request taken back or rejected whose
job was not removed. A death there counts as a disturbance. An intent that is
PROCESSING is taken up again once the call that claimed it has ended; that such a
call may outlive its claim is the subject of `RefundIntent`.

### Sessions, AdminAccounts, AdminNotifications, AuditLog, Profiles, RealtimeBus, HelpDesk

`Sessions`: a code waits in Redis with the number of wrong answers; a session
row knows its token and one older one; a device holds what it last received, and
an answer may be lost. `AdminAccounts`: `granted` are the signed access tokens,
which no guard compares with the user. A refresh checks the session and its
user, reads the user once more (`ReadUserAgain`), and signs what it has read
(`RefreshAccessToken`), so a deactivation may come between. A deactivation or
reset writes the user, then deletes the sessions (`DropSessions`).
`AdminNotifications` extends it: its steps are those of `AdminAccounts` or its
own, which leave the accounts alone. A browser's token is saved in the session
of its cookie and, by the role in the access token, subscribed to the topics
(`UpdateFcmToken`, `UpdateSessionFcmToken`, `SubscribeAdminToTopics`); a
notification is stored in the inboxes and pushed, to the tokens of one user's
sessions (`ReadTokens`, `SendToTokens`) or to a topic (`NotifyTopic`), one await
after the other. Firebase is `onTopic` and `pushed`; the histories `registered`
and `managed` say for whom a browser was saved and who has managed. The three
topics are used alike, so one stands for them. `AuditLog`: an archival reads,
uploads and deletes by the ids it has read. `Profiles`: every statement outside
of a transaction is a step. `RealtimeBus`: one step per await, and the commands
of one connection reach Redis in order. `HelpDesk`: the portal's calls to the
desk are not ordered, the desk's webhooks are; an assignee that is already the
portal's is not written, which ends the echo.

## 3. Runs

| Run | Instance | Shows |
|---|---|---|
| `Dispatch_Safety` | 2 drivers, 3 attempts; 1 booking with 1 request or 1 fault while it grows old, with both while it is fresh, or with 2 requests then (`FewAtOnce`); or 2 bookings that compete for one driver, 1 request (`TwoCompete`); symmetry | one job and one driver at a time, the driver of a DRIVER_ASSIGNED booking has its offer, a driver in RIDE_OFFERED can refuse, pickup is paid, nobody is asked twice |
| `Dispatch_Liveness` | 1 booking, 1 driver, 1 request, 1 fault, fairness | PENDING ends |
| `Promises` | `RefundIntent`: 1 booking, 2 calls, 2 retries, with 1 intent and 3 faults or 2 intents and 1 fault; `DriverPayout`: 2 rows, 2 calls, 1 credit, 2 faults; fairness | both promises are kept (returned or paid once, booked once, unless a refund is contested), books follow the money, what is due ends |
| `Payments` | `BookingPayment`: 1 booking, 2 links, 2 calls, 1 fault; `DriverTopUp`: 2 links, 1 payment, 2 calls, 2 credits, 1 fault; `BookingMoney`: 3 vehicles, 12 jobs, 5 balances, 4 waits, 5 refunds; `Referral`: 2 customers, 2 drivers, 2 rides, 2 applications, 1 fault; fairness | what is paid, returned and settled is backed; the amounts add up; bonuses match and only races lose money; payments, top-ups and rewards come |
| `Support` | 1 request, 3 intents, 2 calls, 1 fault, fairness | one refund, none after a revert or in the buffer, also if a handler dies; COMPLETED means refunded, approved requests are refunded |
| `Verification` | 1 document; 2 requests and 1 fault with handlers one after the other; or 1 request, 1 fault and the older administration's update between any two steps; or 1 request and 2 overlapping handlers; fairness | verified means accepted, no finalisation undoes a rejection, approvals end, requests come |
| `Accounts` | two of everything that may overlap, see `MCAccounts`; 1 fault each; symmetry of portal users, sessions and calls | devices keep their sessions, codes are spent, no session outlives a deactivation or reset, no entry is lost, one default address, one driver per identity, open streams are heard, desk and portal agree, pushes reach their users once |
| `Claim_...` | as small as the counterexample allows | statements of documents and comments that the code breaks, section 5 |

Bounds. Two drivers are needed for a second offer, two bookings for competition.
`MaxAttempts` is 2 or 3 instead of 12: the first attempt and the last, with a
retry between them, and two that are not the last, whose jobs side by side can
both offer the booking. `MaxRequests` bounds accept, reject, cancel and switch
requests that take two steps, over a behaviour; with two of them the run follows
a fresh booking without faults, while its attempt counter is 1 and no driver is
switching, which has two accepts overlap. A fault may happen anywhere; with a
request as well the booking stays fresh (`Dispatch_Liveness` has both on one
that grows old). Two bookings compete until one driver has accepted, one request
and no fault among them. In `RefundIntent` two calls are enough to compete or
for one to overtake the other, two intents enough to share a refund at the
gateway, and three faults exceed `MaxRetries` = 2, so that an intent fails for
good and is taken up again. In `DriverPayout` two calls are a slow one and the
one that overtakes it, and one credit is enough for two rows because two payouts
may read it. In `BookingPayment` two links are one and the one that replaces it,
two calls any pair of handlers. `BookingMoney` has a price above and one below
the charge, loads on both sides of a ton, balances in debt, at zero, below and
above the price, and amounts that do not divide. In `Referral` customers refer
each other or drivers do, with one other user to ride with; with two rides there
are no faults and one application. In `SupportRefund` a third intent shows what
a second finalisation makes. In `Verification` photos are not replaced while
handlers overlap. In `Sessions` four tokens are two refreshes of two sessions;
codes and tokens are bounded in turn, as `MCAccounts` says. In `AdminAccounts`
either users are managed without new passwords, and no token runs out, which
could only keep somebody from acting, or passwords change around one session. In
`AdminNotifications` one notification meets logins, logouts and an agent who
becomes a manager, one browser and two sessions: the same browser in two
sessions, of one user or of two, is what could double or misdirect a push. Of
logins, promotions and requests that save a token one is in progress at a time,
and inboxes are read when the notification is over. Two entries, two archivals
and three days let one archival read between another's read and deletion. Three
streams on one driver are one that leaves, one that joins and one that stays.
Four reports of the desk are two changes and their echoes. Deadlock is not
checked: bookings end, requests are bounded, and a settled intent has nothing
left to do. Every safety property of the runs is proved for all values of the
constants as well (section 4); for liveness the runs stand for themselves.

Fairness. Users never have to act. What the server does by itself goes on: a
handler that has begun finishes, the queue runs its jobs and hands out the jobs
of a dead worker again, keys of Redis expire, cron jobs run (every two hours, so
`Claim` of a claimable intent or payout and `MarkExpiredBookings` are weakly
fair), time passes. Faults are bounded, so liveness says what happens once they
stop. `PendingEnds` is about the case in which the job is lost: the cron ends
the wait. A webhook is strongly fair: the gateway repeats a report until it is
answered, and a free call comes along again and again (`PaymentIsBooked`,
`TopUpIsCredited`). A top-up's report with an unknown reference counts as
answered. The cron jobs of the desk and of the verification are strongly fair
for each request they list (`ApprovedIsRefunded`, `VApprovedEnds`,
`RequestComes`): a handler in progress delays them, and they come round again.
The call that brings a referral's reward is weakly fair, and nothing repeats it:
`RewardComes` excepts the call that dies.

## 4. Proofs

`BookingDispatchProofs` proves, for any finite or infinite set of bookings and
drivers and any bounds, that `IInv` is an invariant of `Spec`, and from it
`TypeOK`, `OneLiveAssignment`, `LockIsExclusive`, `AssignedDriverHasOffer`,
`OfferedDriverHasOffer`, `PickedUpIsPaid` and the action property
`NeverOfferedAgain`. `OneLiveAssignment` is not inductive: that a job which has
picked a driver still may offer him the booking needs `PickIsStillOpen` (nobody
else has made the booking live, its candidate was never asked), which needs the
lock to be exclusive; `RejectedWasOffered` ties a rejection in flight to its row.
`OfferedDriverHasOffer` says that a driver in RIDE_OFFERED has a row with which he
can refuse, not that he can accept or that time will free him (section 5).
The proof goes by footprints: a lemma says what the jobs may touch, others that
every other step leaves jobs, lock or rows as they are, so most of the forty
actions are dealt with at once, conjunct by conjunct.

`RefundIntentProofs` proves, without any assumption on time, that `IInv` is an
invariant and from it `SettledOnce` and `RefundedOnce` of the intents that were not
overtaken, `BooksFollowMoney` of all, and the refinement `KeepsPromise`, in which
an overtaken intent is contested. The strengthening is `ClaimIsExclusive` (unless
the intent was overtaken, a call in progress has its claim alone), `CallKnows`
(what a call has learnt from the gateway stays true until it acts on it, or it was
overtaken) and `RowsFirst`.

`DriverPayoutProofs` proves that `PayoutIInv` is an invariant, without any
assumption on time, and from it `PaidOnce`, `BookedIsPaid`, `NeverReopened` and
the refinement `PayoutKeepsPromise`. `PaidOnce` needs `KeysAreRows` (the gateway
has seen exactly the keys of the rows it has paid); `BookedIsPaid` needs
`PayoutCallKnows` (an answer means that the row is paid), which survives an
overtaking call because a payment stays made (`SentStays`) and a row stays a row
(`RowStays`).

`SettledOnce`, `RefundedOnce`, `PaidOnce` and `NeverReopened` are not checked by a
run of their own: TLC checks `KeepsPromise` and `PayoutKeepsPromise`, which say
them of the abstract phases.

`PaymentsProofs`: what a handler remembers of an invoice matters as much as the
row, since it writes by id what it has read before. `PaymentInv` therefore says
the same of both: a link or a payment named by an invoice (`InvoicesAreBacked`)
or held by a call (`CallsAreBacked`) is of this booking, and the gateway never
takes one back (`MadeStays`, `HeldStays`). From it follow `PaidIsBacked`,
`ReturnsWhatWasPaid` and `SettledIsBacked`. Of the referrals, `BonusesMatch`
needs that a referral is between users of one kind (`ReferralsFit`), and
`OnlyRacesLose` that a ride which nothing has raced still has the balance that
is in the row (`ReadsFit`). `MoneyAddsUp` is proved for every price list,
distance, load, balance, waiting time and refund. Its invariant `StageFits`
says, stage by stage, who has borne which part of the price so far; under it lie
lemmas about the arithmetic: two parts of a sum that are truncated lose less
than a paisa each, so together none or one (`PartsAddUp`, `TruncatedBounds`);
the gateway returns no more than it was paid (`ShareIsPaid`); no ride is cheaper
than its model's fare (`PriceCoversFare`); the wallet, in debt or not, bears no
more than the price, and leaves no less to pay of a dearer ride (`WalletBears`);
the charge is within the fare (`ChargeIsBounded`).

`SupportRefundProofs`: `CompletedWasRefunded` holds however handlers overlap and
die, because the intent that a request holds was made for it (`LinkedIsOwn`) and
a claim keeps others away (`ClaimsAreAlone`). `RefundedOnce`,
`NoRefundAfterRevert` and `BufferIsKept` hold while handlers keep apart, also when
they die, except where `Torn`; then what a handler has read is still true when it
writes (`CallsFit`), a job that may start finds its buffer over (`JobsFit`), also
one that the queue starts again after a death, and an intent is of the one open
request (`IntentsFit`): `CalmInv`.

`DriverVerificationProofs`: requests are numbered without gaps, always
(`NumberedInTurn`). Under the premises of `VerifiedWasAccepted` and
`RejectionHolds` the active request is the latest (`ActiveIsLatest`), a
handler's reading is still so when it writes (`HandlersFit`), and an approval
stands on accepted documents (`ApprovedWasAccepted`), so that a finalisation,
which looks at none, verifies only what was accepted. A driver who is VERIFIED
over a rejection of his latest request was made so by the older administration's
update, never by a finalisation.

`AccountsProofs`: a refresh that is alone replaces the tokens of its row by the
new one and the one the device has shown, so the device keeps one the row knows
(`RenewalsFit`, for `DeviceKeepsSession`); a verification that nothing has
overlapped holds the record of Redis (`CodesFit`, for `CodeIsSpent`); a login in
progress already satisfies what is promised of its session
(`LoginsAreInvalidated`, for `SessionsAreInvalidated`). For `PushesAreOwed` the
specification of the notifications is shown to imply that of the accounts
(`RefinesAccounts`); then a session's token was saved for its user
(`TokensFit`), a topic has only browsers that somebody saved who has managed
(`TopicFits`), and a notification that is not over has pushed nothing
(`NoticesFit`).

`RecordsProofs`: what an archival may delete is in a file (`StoredIsFiled`); a
request on the addresses that nothing overlaps finds no default when it writes
one (`ClearedForDefault`); a registration that has passed its checks still
passes them when it commits (`ChecksStillHold`); the assignee the portal has or
will have when it has handled all reports is the ticket's, or the desk is being
told (`DeskIsFollowed`); of a channel with listeners some connection's last
command is to subscribe (`IsWanted`).

TLC has checked each of these invariants on the instances of the runs before it was
proved.

What is assumed. Each constant of an outside world is any set, the bounds are
any numbers, and "no such row" is none of the rows. Beyond that:
`CallsAssumption`, a process has finitely many handlers at work;
`KindsAssumption`, customers and drivers are rows of two tables;
`VehiclesAssumption`, a base fare is positive and the rates are not negative, as
`prisma/seed.ts:9-18` has them; `JobsAssumption` and `AmountsAssumption`,
distances, loads, waits and refunds are not negative, balances may be; and, in
the models themselves, that the payout gateway honours its keys.

Only model-checked: the liveness properties (`PendingEnds`, `DueEnds`,
`ChargeEnds`, `PaymentIsBooked`, `TopUpIsCredited`, `RewardComes`,
`ApprovedIsRefunded`, `VApprovedEnds`, `RequestComes`), which are out of the
prover's reach. `DriverTopUp` has no safety property of its own. What the claims
of section 5 say is false of the code.

## 5. Where code and documents part

Kept as runs:

| Claim | Statement | Counterexample |
|---|---|---|
| `EndedForGood` | `booking-states.md:16`: nothing follows CANCELLED | the assignment job reads PENDING and picks a driver, the customer cancels, the job writes DRIVER_ASSIGNED by id (`assignment.service.ts:238`) |
| `LockEndsWithBooking` | `driver-states.md:9,15`: RIDE_OFFERED is temporary, until reject or timeout | a cancellation reads the booking before it is offered, so it knows of no driver to free (`booking-customer.service.ts:312`), and removes the timeout: the driver stays locked for a cancelled booking, which he cannot accept (`booking-driver.service.ts:70`), until he rejects it |
| `RefundIsIdempotent` | `booking-refund.service.ts:457`: "Execute Razorpay refund with idempotency check" | the check lists the refunds (`:469`) and then creates one (`:480`) without a key; a call that hangs is taken over after 15 minutes, both find none, and two refunds are made of one intent |
| `OneActiveRequest` | `verification-request.service.ts:18`: "No active verification request" | an agent takes the request (IN_REVIEW), the driver uploads a document: a second request is made, since the upload's list of statuses lacks IN_REVIEW |
| `CompletedIsReturned` | `REFUND_SUPPORT_FLOW.md:58`: "COMPLETED (Refund processed)" | a manual refund of a ride paid in cash: the gateway's part has no payment and is skipped, the refund is COMPLETED |

Seen with TLC or while modelling, and not kept as runs:

*Dispatch and rides.* A driver who begins to reject or accept while the customer
cancels commits by id too: PENDING or CONFIRMED after CANCELLED. Cash is
collected "at drop" by `payment-states.md:11`, `payment_flow.md:70` and
`test/docs/flows/04-booking.md:45-49`, but `verifyPickup` refuses to start a
ride that is not paid (`booking-driver.service.ts:282`), so cash must be taken
before the pickup: `PickedUpIsPaid` is what the code does and not what these
say. Two bookings' jobs pick the same AVAILABLE driver and both commit
(`driver-states.md:9`: "Temporarily locked for a specific booking"). A timeout
job queues the next attempt, which offers the booking before the timeout job is
complete: its id is in use, no timeout is scheduled and the offer never ends
(`assignment.service.ts:179`). The job that a rejection queues may run before
the rejection commits, find the booking assigned and end, so that the booking
waits for the cron. A ride whose invoice the wallet covers can never be picked
up or finished: both ask for a payment method that such an invoice has not
(`booking-driver.service.ts:282`, `payment-states.md:20`). A cancelled booking's
driver may stay ON_RIDE or become free during another ride, an assignment may
stay OFFERED after its booking has ended, a ride's status may be left out, and
cash may be collected for a cancelled ride.

*Wallets and refunds.* Wallets are written back as numbers read before
(`payment_flow.md:96` has `+=`): a top-up and a ride's earnings, or two payouts,
read the same balance and one is lost or paid twice. Two overlapping
cancellations make two intents, two wallet entries and two compensations
(`booking-customer.service.ts:253`). The administrator's cancellation refunds
nothing. A cancellation whose intent is NOT_REQUIRED never compensates the
driver. A repeated report of a top-up credits it again, and one whose reference
is unknown is answered with success and dropped (`payment.service.ts:129-133`).
A payment that arrives after its booking was cancelled unpaid stays with the
platform. `payment_flow.md:145-147` takes the compensation to be the charge less
7 %, the comment at `booking-refund.service.ts:409` less the platform fee; the
code takes off half the fee. The fallbacks of the charge differ between
`booking-refund.service.ts:297` (.1, .7, .01) and
`booking-customer.service.ts:404` (.1, .6, .05), and both from the defaults (.2,
1, .1). A comment of the pricing has a minimum where the code takes the larger.

*The desk's refunds.* Two finalisations that overlap, the job's and the cron's,
make two intents of one request. An intent that the desk's processor gave back
and the general refund cron completes (`booking-refund.service.ts:195`) leaves its
request APPROVED for ever. A cancellation and a request refund one booking twice;
a cancellation's intent that is still PENDING is not seen when a request is made.
A finalisation that dies between making its intent and linking it is repeated,
and makes a second one: both are booked, the wallet's part twice.
`refund-processor.service.ts:255` takes a refund of the same booking and amount for
its own.

*Verification.* A document uploaded while its driver's approval waits for its
buffer is verified by the finalisation although nobody has seen it
(`DRIVER_VERIFICATION_FLOW.md:196`: "All required documents reviewed"). The
older administration's update needs no review at all, and its REJECTED is undone
by a finalisation that was due. With two active requests the finalisation of the
older one verifies a driver whom the newer one has rejected. An assignment
writes back the status it has read and may leave a request APPROVED without a
buffer, which no job ends. A permanent rejection
(`DRIVER_VERIFICATION_FLOW.md:324`) is undone by the older update. A revert of a
document is logged as an approval. `verification.cron.ts` says "every 5 minutes"
and runs every two hours. The request of a new driver is made before the
transaction of his profile commits, and may not find him.

*Accounts.* `RBAC.md:254` has one session per user, the code any number. A password
that an administrator changes leaves the sessions. An update is checked against
the role read before. The check for a missing session in the portal's refresh
never applies, and the call fails with 500. No guard of the portal looks at the
user, so a token that was signed by a login or refresh which had read the user
before his deactivation (`admin-auth.service.ts:134`, `:149`) is good for its 15
minutes. Two wrong codes that overlap count
once. Archived logs are read from a file name nobody writes.

*Notifications.* `unsubscribeFromTopic` has no caller: a manager who is demoted,
deactivated or signed out still sees what is for all who manage, and so does
whoever signs in next in that browser. A save that overlaps a logout fails with
500. A user whose sessions' tokens are read may have signed out by the time of
the push.

*Referrals.* A reward is lost when its call dies, or when the code is applied
after the first ride. The log of a bonus may name a balance that another write
has replaced.

*Live updates.* The stream of a booking listens on its driver's channel
(`booking-customer.service.ts:533` says "booking-scoped"), so it may show what
belongs to another ride of that driver. Two first uses make two connections, and
later messages come twice. A subscribe that fails is not tried again; an update
between the read of the cached one and the subscription is missed; a client that
leaves during the awaits leaves its listener behind.

*Profiles, help desk.* An address that cannot be saved after the default was
cleared leaves none. `createProfile` resets the business flag of a customer who
gave GST details before, and a deactivation of the details leaves it. A rejected
driver who is taken back is not compared with those who registered since. A
ticket whose team assignment fails is never linked to its request: no assignment
reaches it, its webhooks are ignored. Two webhooks handled at once may leave
portal and desk with different assignees.

## 6. Plan

Done: the models of section 2 with their runs, and theorems for every safety
property that the runs check.

Next: the refinement of an abstract specification for the desk's refunds, as
`RefundPromise` is for the cancellation's (a request is approved, refunded once and
completed, while handlers keep apart), and one for the verification of a driver;
safety of `DriverTopUp` (a credit is of a payment); the driver's gateway with its
cached navigation data beside `RealtimeBus`.

Not modelled: pushes to customers and drivers (sent and forgotten), the cleanup
of old logs and financial rows (nobody reads them any more), searches and lists,
files and uploads, maps, wording; the socket gateway of the drivers beyond what
it publishes; a driver's address and other single fields (plain storage).
