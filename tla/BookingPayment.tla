--------------------------- MODULE BookingPayment ---------------------------
(***************************************************************************)
(* The payment of a booking: from the driver's acceptance, which makes the *)
(* final invoice, to the end of the ride or the cancellation.  The invoice *)
(* is paid by the wallet, by a payment link of the gateway, which reports  *)
(* the payment with a webhook, or in cash.                                 *)
(*                                                                         *)
(* A handler reads the invoice, and writes it by id in a later transaction *)
(* (or after a call of the gateway).  Handlers in progress are `call`; any *)
(* two of them, also of one kind, may overlap.                             *)
(***************************************************************************)
EXTENDS Naturals, FiniteSets

CONSTANTS
    Bookings,
    NoBooking,   \* of a link that the gateway has not made
    Links,       \* payment links, and the one payment of each
    NoLink,
    Calls,       \* requests and webhooks that may be in progress
    MaxFaults    \* bound on calls that die or are refused by the gateway

ASSUME NoBookingAssumption == NoBooking \notin Bookings
ASSUME NoLinkAssumption == NoLink \notin Links
ASSUME FaultsAssumption == MaxFaults \in Nat
ASSUME CallsAssumption == IsFiniteSet(Calls)

VARIABLES
    status,      \* status[b]: Booking.status, from DRIVER_ASSIGNED on
    invoice,     \* invoice[b]: the FINAL invoice
    records,     \* records[b][m]: rows of Transaction that pay b by m
    intent,      \* intent[b]: what the cancellation's RefundIntent returns online
    settled,     \* settled[b]: how finishRide has settled with the driver
    linkOf,      \* linkOf[l]: the booking the gateway has made l for
    linkState,   \* linkState[l]: the link at the gateway
    call,        \* call[c]: a handler in progress and the invoice it has read
    faults

rowVars == <<status, invoice, records, intent, settled>>
gatewayVars == <<linkOf, linkState>>
vars == <<rowVars, gatewayVars, call, faults>>

Method    == {"NONE", "ONLINE", "CASH"}
Status    == {"DRIVER_ASSIGNED", "OPEN", "RIDING", "COMPLETED", "CANCELLED"}
LinkState == {"none", "open", "paid", "cancelled"}
Invoice   == [isPaid : BOOLEAN, method : Method, payment : Links \cup {NoLink},
              link : Links \cup {NoLink}]
Step      == {"idle", "askLink", "saveLink", "webhook", "cash", "cancel", "dropLink"}
Call      == [step : Step, booking : Bookings \cup {NoBooking}, seen : Invoice,
              link : Links \cup {NoLink}]

Unpaid  == [isPaid |-> FALSE, method |-> "NONE", payment |-> NoLink, link |-> NoLink]
Covered == [Unpaid EXCEPT !.isPaid = TRUE]
Idle    == [step |-> "idle", booking |-> NoBooking, seen |-> Unpaid, link |-> NoLink]

Init ==
    /\ status = [b \in Bookings |-> "DRIVER_ASSIGNED"]
    /\ invoice = [b \in Bookings |-> Unpaid]
    /\ records = [b \in Bookings |-> [m \in {"ONLINE", "CASH"} |-> 0]]
    /\ intent = [b \in Bookings |-> NoLink]
    /\ settled = [b \in Bookings |-> "NONE"]
    /\ linkOf = [l \in Links |-> NoBooking]
    /\ linkState = [l \in Links |-> "none"]
    /\ call = [c \in Calls |-> Idle]
    /\ faults = 0

\* Call c, which was idle, has read b's invoice for step s.
Begin(c, s, b, inv) ==
    /\ call[c].step = "idle"
    /\ call' = [call EXCEPT ![c] = [step |-> s, booking |-> b, seen |-> inv, link |-> NoLink]]

End(c) == call' = [call EXCEPT ![c] = Idle]

-----------------------------------------------------------------------------
(* The link.                                                               *)

\* The transaction of acceptBooking: the invoice, which the wallet covers or
\* does not; for the rest a link is asked for, not awaited, with the invoice
\* as it was created.
AcceptBooking(c, b) ==
    /\ status[b] = "DRIVER_ASSIGNED"
    /\ status' = [status EXCEPT ![b] = "OPEN"]
    /\ \/ invoice' = [invoice EXCEPT ![b] = Covered] /\ UNCHANGED call
       \/ Begin(c, "askLink", b, Unpaid) /\ UNCHANGED invoice
    /\ UNCHANGED <<records, intent, settled, gatewayVars, faults>>

LinkNeeded(inv) == ~inv.isPaid /\ inv.link = NoLink

\* The customer's generatePaymentLink: reads, and asks for a link if there is none.
BeginLink(c, b) ==
    /\ status[b] # "DRIVER_ASSIGNED"
    /\ LinkNeeded(invoice[b])
    /\ Begin(c, "askLink", b, invoice[b])
    /\ UNCHANGED <<rowVars, gatewayVars, faults>>

\* The gateway makes a link, which it may send to the customer itself.
AskLink(c) ==
    /\ call[c].step = "askLink"
    /\ \E l \in Links :
          /\ linkState[l] = "none"
          /\ linkState' = [linkState EXCEPT ![l] = "open"]
          /\ linkOf' = [linkOf EXCEPT ![l] = call[c].booking]
          /\ call' = [call EXCEPT ![c].step = "saveLink", ![c].link = l]
    /\ UNCHANGED <<rowVars, faults>>

\* By id: a link that another call has saved meanwhile is overwritten.
SaveLink(c) ==
    /\ call[c].step = "saveLink"
    /\ invoice' = [invoice EXCEPT ![call[c].booking] = [@ EXCEPT !.link = call[c].link]]
    /\ End(c)
    /\ UNCHANGED <<status, records, intent, settled, gatewayVars, faults>>

-----------------------------------------------------------------------------
(* The payment.                                                            *)

\* Customer and gateway.
PayLink(l) ==
    /\ linkState[l] = "open"
    /\ linkState' = [linkState EXCEPT ![l] = "paid"]
    /\ UNCHANGED <<rowVars, linkOf, call, faults>>

\* Mutant: any event of the link counts as its payment.
ReportedAsPaidAny(l) == linkState[l] \in {"open", "paid"}

\* The gateway reports a payment until a call answers, and may report it again.
\* Events other than payment_link.paid are logged and dropped.
ReportedAsPaid(l) == linkState[l] = "paid"

FirstReport(inv) == ~inv.isPaid

\* Mutant: the payment of a booking that has been cancelled is not looked at.
BeginWebhookUncancelled(c, b, l) ==
    /\ status[b] # "CANCELLED"
    /\ ReportedAsPaid(l)
    /\ invoice[b].link = l
    /\ FirstReport(invoice[b])
    /\ Begin(c, "webhook", b, invoice[b])
    /\ UNCHANGED <<rowVars, gatewayVars, faults>>

\* handlePaymentSuccess: the invoice with this link; if there is none the call
\* fails, if it is paid it ends.
BeginWebhook(c, b, l) ==
    /\ ReportedAsPaid(l)
    /\ invoice[b].link = l
    /\ FirstReport(invoice[b])
    /\ Begin(c, "webhook", b, invoice[b])
    /\ UNCHANGED <<rowVars, gatewayVars, faults>>

MarkedPaid(inv, l) ==
    [isPaid |-> TRUE, method |-> "ONLINE", payment |-> l, link |-> l]

\* By the invoice's id: whatever was paid meanwhile, the link it had is written back.
CommitWebhook(c) ==
    LET b == call[c].booking
        l == call[c].seen.link
    IN
    /\ call[c].step = "webhook"
    /\ invoice' = [invoice EXCEPT ![b] = MarkedPaid(@, l)]
    /\ records' = [records EXCEPT ![b]["ONLINE"] = @ + 1]
    /\ End(c)
    /\ UNCHANGED <<status, intent, settled, gatewayVars, faults>>

\* settleWithCash: the driver's ride must not have ended.
BeginCash(c, b) ==
    /\ status[b] \in {"OPEN", "RIDING"}
    /\ FirstReport(invoice[b])
    /\ Begin(c, "cash", b, invoice[b])
    /\ UNCHANGED <<rowVars, gatewayVars, faults>>

\* processCashPayment: by id; then the link it has read is cancelled.
CommitCash(c) ==
    LET b == call[c].booking IN
    /\ call[c].step = "cash"
    /\ invoice' = [invoice EXCEPT ![b].isPaid = TRUE, ![b].method = "CASH"]
    /\ records' = [records EXCEPT ![b]["CASH"] = @ + 1]
    /\ IF call[c].seen.link = NoLink THEN End(c)
       ELSE call' = [call EXCEPT ![c].step = "dropLink"]
    /\ UNCHANGED <<status, intent, settled, gatewayVars, faults>>

\* cancelPaymentLink: the gateway refuses if the link is paid, which is only logged.
DropLink(c) ==
    LET l == call[c].seen.link IN
    /\ call[c].step = "dropLink"
    /\ linkState' = [linkState EXCEPT ![l] = IF @ = "open" THEN "cancelled" ELSE @]
    /\ End(c)
    /\ UNCHANGED <<rowVars, linkOf, faults>>

-----------------------------------------------------------------------------
(* Cancellation and ride.                                                  *)

BeginCancel(c, b) ==
    /\ status[b] = "OPEN"
    /\ ~(invoice[b].isPaid /\ invoice[b].method = "CASH")
    /\ Begin(c, "cancel", b, invoice[b])
    /\ UNCHANGED <<rowVars, gatewayVars, faults>>

\* Mutant: the invoice's link is taken for its payment.
PaymentToReturnByLink(inv) == inv.link

\* createRefundIntent: what was paid online, of the invoice as it was read, goes
\* back to its payment; how much of it does not matter here.
PaymentToReturn(inv) == IF inv.isPaid THEN inv.payment ELSE NoLink

CommitCancel(c) ==
    LET b == call[c].booking
        inv == call[c].seen
    IN
    /\ call[c].step = "cancel"
    /\ status' = [status EXCEPT ![b] = "CANCELLED"]
    /\ intent' = [intent EXCEPT ![b] = PaymentToReturn(inv)]
    /\ IF inv.isPaid \/ inv.link = NoLink THEN End(c)
       ELSE call' = [call EXCEPT ![c].step = "dropLink"]
    /\ UNCHANGED <<invoice, records, settled, gatewayVars, faults>>

\* verifyPickup: reads the invoice, then a conditional update.  Between the two
\* the status cannot leave OPEN except by a cancellation, and a payment stays.
VerifyPickup(b) ==
    /\ status[b] = "OPEN"
    /\ invoice[b].isPaid /\ invoice[b].method # "NONE"
    /\ status' = [status EXCEPT ![b] = "RIDING"]
    /\ UNCHANGED <<invoice, records, intent, settled, gatewayVars, call, faults>>

\* Mutant: what is not cash counts as paid online; and nobody asks if it is paid.
SettlementGuess(inv) == IF inv.link # NoLink THEN "ONLINE" ELSE inv.method

\* finishRide: the driver gets his earnings, or owes the commission of cash.
Settlement(inv) == inv.method

FinishRide(b) ==
    /\ status[b] = "RIDING"
    /\ invoice[b].isPaid /\ invoice[b].method # "NONE"
    /\ status' = [status EXCEPT ![b] = "COMPLETED"]
    /\ settled' = [settled EXCEPT ![b] = Settlement(invoice[b])]
    /\ UNCHANGED <<invoice, records, intent, gatewayVars, call, faults>>

-----------------------------------------------------------------------------

\* The gateway does not answer, the transaction rolls back, or the server dies.
\* A webhook that fails is reported again.
CallFails(c) ==
    /\ faults < MaxFaults
    /\ call[c].step # "idle"
    /\ End(c)
    /\ faults' = faults + 1
    /\ UNCHANGED <<rowVars, gatewayVars>>

CallStep(c) ==
    \/ AskLink(c) \/ SaveLink(c) \/ CommitWebhook(c)
    \/ CommitCash(c) \/ DropLink(c) \/ CommitCancel(c)

Next ==
    \/ \E c \in Calls :
          \/ \E b \in Bookings :
                \/ AcceptBooking(c, b) \/ BeginLink(c, b)
                \/ BeginCash(c, b) \/ BeginCancel(c, b)
                \/ \E l \in Links : BeginWebhook(c, b, l)
          \/ CallStep(c) \/ CallFails(c)
    \/ \E b \in Bookings : VerifyPickup(b) \/ FinishRide(b)
    \/ \E l \in Links : PayLink(l)

Spec == Init /\ [][Next]_vars

\* Calls go on, and the gateway reports a payment until it is answered.
Fairness ==
    /\ \A c \in Calls : WF_vars(CallStep(c))
    /\ \A b \in Bookings, l \in Links : SF_vars(\E c \in Calls : BeginWebhook(c, b, l))

FairSpec == Spec /\ Fairness

-----------------------------------------------------------------------------
(* Properties.                                                             *)

TypeOK ==
    /\ status \in [Bookings -> Status]
    /\ invoice \in [Bookings -> Invoice]
    /\ records \in [Bookings -> [{"ONLINE", "CASH"} -> Nat]]
    /\ intent \in [Bookings -> Links \cup {NoLink}]
    /\ settled \in [Bookings -> Method]
    /\ linkOf \in [Links -> Bookings \cup {NoBooking}]
    /\ linkState \in [Links -> LinkState]
    /\ call \in [Calls -> Call]
    /\ faults \in 0..MaxFaults

\* l is a payment the gateway holds for b.
HeldFor(l, b) == l \in Links /\ linkOf[l] = b /\ linkState[l] = "paid"

\* However webhook, cash, new links and cancellation interleave, an invoice that
\* is paid by m has a record of a payment by m, and one that is paid online names
\* a payment the gateway holds for this booking.
PaidIsBacked ==
    \A b \in Bookings :
        LET inv == invoice[b] IN
        inv.method # "NONE" =>
            /\ inv.isPaid
            /\ records[b][inv.method] > 0
            /\ inv.method = "ONLINE" => HeldFor(inv.payment, b)

\* A cancellation returns a payment that was made for this booking, also if the
\* invoice was paid, relinked or paid in cash after it was read.
ReturnsWhatWasPaid ==
    \A b \in Bookings : intent[b] # NoLink => HeldFor(intent[b], b)

\* The driver is credited his earnings only from a payment the gateway holds, and
\* charged the commission of cash only if he has confirmed the cash.
SettledIsBacked ==
    \A b \in Bookings :
        /\ settled[b] = "ONLINE" => \E l \in Links : HeldFor(l, b)
        /\ settled[b] = "CASH" => records[b]["CASH"] > 0

\* A payment by the link that the invoice names is booked, or the invoice comes to
\* name another link; no failure of a handler loses it.
PaymentIsBooked ==
    \A b \in Bookings, l \in Links :
        linkState[l] = "paid" /\ invoice[b].link = l
            ~> invoice[b].isPaid \/ invoice[b].link # l

=============================================================================
