---------------------------- MODULE PaymentsProofs ---------------------------
(***************************************************************************)
(* Proofs about BookingPayment, Referral and BookingMoney, for any number  *)
(* of bookings, links, calls, users, rides and faults, and for any prices. *)
(*                                                                         *)
(* The handlers write an invoice that they have read before, so what they  *)
(* remember matters as much as the rows: a call carries only links and     *)
(* payments of its own booking (CallsAreBacked), as the rows do            *)
(* (InvoicesAreBacked).  That the gateway never takes back a link or a     *)
(* payment it has reported (MadeStays, HeldStays) makes what was read      *)
(* long ago as good as what is in the row now.                             *)
(*                                                                         *)
(* A referral is of users of one kind, so the giver's reward is the one    *)
(* that the new user's row stands for (ReferralsFit).  A ride that has     *)
(* read the balance of a user whom no write has raced has what is in the   *)
(* row (ReadsFit), so what it writes is right.                             *)
(*                                                                         *)
(* The sums come out because each stage of a booking knows who has borne   *)
(* which part of the price so far (StageFits), and because two parts that  *)
(* are truncated lose less than a paisa each, and never both a whole one   *)
(* (PartsAddUp).                                                           *)
(***************************************************************************)
EXTENDS BookingPayment, BookingMoney, Referral, FiniteSetTheorems, TLAPS

USE DEF rowVars, gatewayVars

\* A link the gateway has made for b; and none at all, or such a link or payment.
MadeFor(l, b)   == l \in Links /\ linkOf[l] = b /\ linkState[l] # "none"
NoneOrMade(l, b) == l = NoLink \/ MadeFor(l, b)
NoneOrHeld(l, b) == l = NoLink \/ HeldFor(l, b)

\* An invoice, now or as it was read, names links and payments of its booking.
Backed(inv, b) == NoneOrMade(inv.link, b) /\ NoneOrHeld(inv.payment, b)

InvoicesAreBacked == \A b \in Bookings : Backed(invoice[b], b)

\* A call has read an invoice of its booking; a webhook stands for a payment, and
\* the link that is about to be saved was made for the booking.
CallIsBacked(k) ==
    k.step # "idle" =>
        /\ k.booking \in Bookings
        /\ Backed(k.seen, k.booking)
        /\ k.step = "webhook" => HeldFor(k.seen.link, k.booking)
        /\ k.step = "saveLink" => MadeFor(k.link, k.booking)

CallsAreBacked == \A c \in Calls : CallIsBacked(call[c])

\* The inductive invariant.
PaymentInv ==
    /\ TypeOK
    /\ InvoicesAreBacked
    /\ CallsAreBacked
    /\ PaidIsBacked
    /\ ReturnsWhatWasPaid
    /\ SettledIsBacked

-----------------------------------------------------------------------------
(* Types.                                                                  *)

LEMMA InitType == Init => TypeOK
  BY FaultsAssumption, NoBookingAssumption
  DEF Init, TypeOK, Status, Invoice, Method, LinkState, Call, Step, Idle, Unpaid

\* A handler that has just read b's invoice.
LEMMA BeginType ==
    ASSUME TypeOK, NEW c \in Calls, NEW s \in Step, NEW b \in Bookings, NEW inv \in Invoice,
           Begin(c, s, b, inv)
    PROVE  call' \in [Calls -> Call]
  BY DEF TypeOK, Begin, Call

LEMMA EndType ==
    ASSUME TypeOK, NEW c \in Calls, End(c)
    PROVE  call' \in [Calls -> Call]
  BY DEF TypeOK, End, Call, Idle, Step, Unpaid, Invoice, Method

\* What the handlers write into an invoice is an invoice.
LEMMA InvoiceType ==
    ASSUME NEW inv \in Invoice, NEW l \in Links \cup {NoLink}
    PROVE  /\ Unpaid \in Invoice /\ Covered \in Invoice /\ MarkedPaid(inv, l) \in Invoice
           /\ [inv EXCEPT !.link = l] \in Invoice
           /\ [inv EXCEPT !.isPaid = TRUE, !.method = "CASH"] \in Invoice
  BY DEF Invoice, Method, Unpaid, Covered, MarkedPaid

\* Every step keeps the types.
LEMMA NextType == TypeOK /\ [Next]_vars => TypeOK'
<1> SUFFICES ASSUME TypeOK, [Next]_vars PROVE TypeOK'
  OBVIOUS
<1> USE DEF TypeOK
<1>1. ASSUME NEW c \in Calls, NEW b \in Bookings, AcceptBooking(c, b) PROVE TypeOK'
  <2>1. Covered \in Invoice /\ Unpaid \in Invoice
    BY DEF Covered, Unpaid, Invoice, Method
  <2>2. call' \in [Calls -> Call]
    BY <1>1, <2>1, BeginType DEF AcceptBooking, Step
  <2> QED
    BY <1>1, <2>1, <2>2 DEF AcceptBooking, Status
<1>2. ASSUME NEW c \in Calls, NEW b \in Bookings,
             \/ BeginLink(c, b) \/ BeginCash(c, b) \/ BeginCancel(c, b)
             \/ \E l \in Links : BeginWebhook(c, b, l)
      PROVE  TypeOK'
  <2>1. PICK s \in Step : Begin(c, s, b, invoice[b])
    BY <1>2 DEF BeginLink, BeginCash, BeginCancel, BeginWebhook, Step
  <2>2. call' \in [Calls -> Call]
    BY <2>1, BeginType
  <2> QED
    BY <1>2, <2>2 DEF BeginLink, BeginCash, BeginCancel, BeginWebhook
<1>3. ASSUME NEW c \in Calls, AskLink(c) PROVE TypeOK'
  <2>1. PICK l \in Links :
           /\ linkState' = [linkState EXCEPT ![l] = "open"]
           /\ linkOf' = [linkOf EXCEPT ![l] = call[c].booking]
           /\ call' = [call EXCEPT ![c].step = "saveLink", ![c].link = l]
    BY <1>3 DEF AskLink
  <2>2. linkState' \in [Links -> LinkState] /\ linkOf' \in [Links -> Bookings \cup {NoBooking}]
    BY <2>1 DEF Call, LinkState
  <2>3. call' \in [Calls -> Call]
    <3>1. call[c] \in Call
      OBVIOUS
    <3>2. [call[c] EXCEPT !.step = "saveLink", !.link = l] \in Call
      BY <3>1 DEF Call, Step
    <3> QED
      BY <2>1, <3>2
  <2> QED
    BY <1>3, <2>2, <2>3 DEF AskLink
<1>4. ASSUME NEW c \in Calls, SaveLink(c) PROVE TypeOK'
  <2>1. call' \in [Calls -> Call]
    BY <1>4, EndType DEF SaveLink
  <2>2. \A b \in Bookings : [invoice[b] EXCEPT !.link = call[c].link] \in Invoice
    BY InvoiceType DEF Call
  <2> QED
    BY <1>4, <2>1, <2>2 DEF SaveLink
<1>5. ASSUME NEW c \in Calls, CommitWebhook(c) PROVE TypeOK'
  <2>1. call' \in [Calls -> Call]
    BY <1>5, EndType DEF CommitWebhook
  <2>2. call[c].seen.link \in Links \cup {NoLink}
    BY DEF Call, Invoice
  <2> DEFINE inv == MarkedPaid(invoice[call[c].booking], call[c].seen.link)
  <2>3. inv \in Invoice
    BY <2>2 DEF MarkedPaid, Invoice, Method
  <2>4. invoice' \in [Bookings -> Invoice]
    <3>1. invoice' = [invoice EXCEPT ![call[c].booking] = inv]
      BY <1>5 DEF CommitWebhook, MarkedPaid
    <3> HIDE DEF inv
    <3> QED
      BY <2>3, <3>1
  <2> QED
    BY <1>5, <2>1, <2>4 DEF CommitWebhook
<1>6. ASSUME NEW c \in Calls, CommitCash(c) PROVE TypeOK'
  <2>1. call' \in [Calls -> Call]
    <3>1. CASE End(c)
      BY <3>1, EndType
    <3>2. CASE call' = [call EXCEPT ![c].step = "dropLink"]
      BY <3>2 DEF Call, Step
    <3> QED
      BY <1>6, <3>1, <3>2 DEF CommitCash
  <2>2. \A b \in Bookings : [invoice[b] EXCEPT !.isPaid = TRUE, !.method = "CASH"] \in Invoice
    BY InvoiceType, NoLinkAssumption
  <2>3. invoice' \in [Bookings -> Invoice]
    BY <1>6, <2>2 DEF CommitCash
  <2> QED
    BY <1>6, <2>1, <2>3 DEF CommitCash
<1>7. ASSUME NEW c \in Calls, DropLink(c) PROVE TypeOK'
  BY <1>7, EndType DEF DropLink, LinkState
<1>8. ASSUME NEW c \in Calls, CommitCancel(c) PROVE TypeOK'
  <2>1. call' \in [Calls -> Call]
    <3>1. CASE End(c)
      BY <3>1, EndType
    <3>2. CASE call' = [call EXCEPT ![c].step = "dropLink"]
      BY <3>2 DEF Call, Step
    <3> QED
      BY <1>8, <3>1, <3>2 DEF CommitCancel
  <2>2. PaymentToReturn(call[c].seen) \in Links \cup {NoLink}
    BY DEF Call, Invoice, PaymentToReturn
  <2> QED
    BY <1>8, <2>1, <2>2 DEF CommitCancel, Status
<1>9. ASSUME NEW c \in Calls, CallFails(c) PROVE TypeOK'
  BY <1>9, EndType, FaultsAssumption DEF CallFails
<1>10. ASSUME NEW b \in Bookings, VerifyPickup(b) \/ FinishRide(b) PROVE TypeOK'
  BY <1>10 DEF VerifyPickup, FinishRide, Settlement, Status, Invoice
<1>11. ASSUME NEW l \in Links, PayLink(l) PROVE TypeOK'
  BY <1>11 DEF PayLink, LinkState
<1>12. CASE UNCHANGED vars
  BY <1>12 DEF vars
<1> QED
  BY <1>1, <1>2, <1>3, <1>4, <1>5, <1>6, <1>7, <1>8, <1>9, <1>10, <1>11, <1>12
  DEF Next, CallStep

-----------------------------------------------------------------------------
(* What the gateway has made or reported stays so.                         *)

\* Three actions happen at the gateway.
LEMMA GatewayCases ==
    ASSUME [Next]_vars
    PROVE  \/ \E c \in Calls, l \in Links :
                 /\ linkState[l] = "none"
                 /\ linkState' = [linkState EXCEPT ![l] = "open"]
                 /\ linkOf' = [linkOf EXCEPT ![l] = call[c].booking]
           \/ \E l \in Links : PayLink(l)
           \/ \E c \in Calls : DropLink(c)
           \/ UNCHANGED gatewayVars
  BY DEF Next, vars, CallStep, AskLink, AcceptBooking, BeginLink, BeginCash, BeginCancel,
     BeginWebhook, SaveLink, CommitWebhook, CommitCash, CommitCancel, CallFails, VerifyPickup,
     FinishRide

LEMMA MadeStays ==
    ASSUME TypeOK, [Next]_vars, NEW l, NEW b, MadeFor(l, b)
    PROVE  MadeFor(l, b)'
  BY GatewayCases DEF TypeOK, LinkState, MadeFor, PayLink, DropLink

LEMMA HeldStays ==
    ASSUME TypeOK, [Next]_vars, NEW l, NEW b, HeldFor(l, b)
    PROVE  HeldFor(l, b)'
  BY GatewayCases DEF TypeOK, LinkState, HeldFor, PayLink, DropLink

LEMMA BackedStays ==
    ASSUME TypeOK, [Next]_vars, NEW inv, NEW b, Backed(inv, b)
    PROVE  Backed(inv, b)'
  BY MadeStays, HeldStays DEF Backed, NoneOrMade, NoneOrHeld

\* A payment is of a link that was made.
LEMMA HeldIsMade == ASSUME NEW l, NEW b, HeldFor(l, b) PROVE MadeFor(l, b)
  BY DEF HeldFor, MadeFor

\* A call that remembers what it did is backed as it was.
LEMMA CallStays ==
    ASSUME TypeOK, [Next]_vars, NEW k, CallIsBacked(k)
    PROVE  CallIsBacked(k)'
  BY BackedStays, MadeStays, HeldStays DEF CallIsBacked

-----------------------------------------------------------------------------
(* The invariant, part by part.                                            *)

\* A handler that begins has read an invoice of its booking.
LEMMA BeginIsBacked ==
    ASSUME TypeOK, [Next]_vars, CallsAreBacked, NEW c \in Calls, NEW b \in Bookings, NEW inv,
           NEW s \in Step, Begin(c, s, b, inv), Backed(inv, b), s # "saveLink",
           s = "webhook" => HeldFor(inv.link, b)
    PROVE  CallsAreBacked'
<1> SUFFICES ASSUME NEW d \in Calls PROVE CallIsBacked(call[d])'
  BY DEF CallsAreBacked
<1>1. PICK k : k = IF d = c THEN [step |-> s, booking |-> b, seen |-> inv, link |-> NoLink]
                   ELSE call[d]
  OBVIOUS
<1>2. call'[d] = k
  BY <1>1 DEF Begin, TypeOK
<1>3. CallIsBacked(k)
  BY <1>1 DEF CallIsBacked, CallsAreBacked
<1>4. CallIsBacked(k)'
  BY <1>3, CallStays
<1> QED
  BY <1>2, <1>4

\* A handler that ends remembers nothing; one that goes on to its link, what it did.
LEMMA EndIsBacked ==
    ASSUME TypeOK, [Next]_vars, CallsAreBacked, NEW c \in Calls,
           \/ End(c)
           \/ call' = [call EXCEPT ![c].step = "dropLink"] /\ call[c].step # "idle"
    PROVE  CallsAreBacked'
<1> SUFFICES ASSUME NEW d \in Calls PROVE CallIsBacked(call[d])'
  BY DEF CallsAreBacked
<1>1. PICK k : k = call'[d]
  OBVIOUS
<1>2. \/ k = call[d]
      \/ k = Idle
      \/ k = [call[d] EXCEPT !.step = "dropLink"] /\ call[d].step # "idle"
  BY <1>1 DEF End, TypeOK
<1>3. CallIsBacked(k)
  <2>1. CallIsBacked(call[d]) /\ CallIsBacked(Idle)
    BY DEF CallsAreBacked, CallIsBacked, Idle
  <2>2. CASE k = [call[d] EXCEPT !.step = "dropLink"] /\ call[d].step # "idle"
    <3>1. /\ k.step = "dropLink" /\ k.booking = call[d].booking /\ k.seen = call[d].seen
      BY <2>2 DEF TypeOK, Call
    <3> QED
      BY <2>1, <2>2, <3>1 DEF CallIsBacked
  <2> QED
    BY <1>2, <2>1, <2>2
<1>4. CallIsBacked(k)'
  BY <1>3, CallStays
<1> QED
  BY <1>1, <1>4

LEMMA CallsStep ==
    TypeOK /\ InvoicesAreBacked /\ CallsAreBacked /\ [Next]_vars => CallsAreBacked'
<1> SUFFICES ASSUME TypeOK, InvoicesAreBacked, CallsAreBacked, [Next]_vars
             PROVE  CallsAreBacked'
  OBVIOUS
<1>1. ASSUME NEW c \in Calls, NEW b \in Bookings, AcceptBooking(c, b) PROVE CallsAreBacked'
  <2>1. Backed(Unpaid, b)
    BY DEF Backed, NoneOrMade, NoneOrHeld, Unpaid
  <2>2. CASE Begin(c, "askLink", b, Unpaid)
    BY <2>1, <2>2, BeginIsBacked DEF Step
  <2>3. CASE UNCHANGED call
    BY <2>3, CallStays DEF CallsAreBacked
  <2> QED
    BY <1>1, <2>2, <2>3 DEF AcceptBooking
<1>2. ASSUME NEW c \in Calls, NEW b \in Bookings,
             \/ BeginLink(c, b) \/ BeginCash(c, b) \/ BeginCancel(c, b)
             \/ \E l \in Links : BeginWebhook(c, b, l)
      PROVE  CallsAreBacked'
  <2>1. Backed(invoice[b], b)
    BY DEF InvoicesAreBacked
  <2>2. PICK s \in Step : /\ Begin(c, s, b, invoice[b])
                          /\ s # "saveLink"
                          /\ s = "webhook" => linkState[invoice[b].link] = "paid"
                                              /\ invoice[b].link \in Links
    BY <1>2 DEF BeginLink, BeginCash, BeginCancel, BeginWebhook, Step, ReportedAsPaid
  <2>3. s = "webhook" => HeldFor(invoice[b].link, b)
    BY <2>1, <2>2, NoLinkAssumption DEF Backed, NoneOrMade, MadeFor, HeldFor
  <2> QED
    BY <2>1, <2>2, <2>3, BeginIsBacked
<1>3. ASSUME NEW c \in Calls, AskLink(c) PROVE CallsAreBacked'
  <2> SUFFICES ASSUME NEW d \in Calls PROVE CallIsBacked(call[d])'
    BY DEF CallsAreBacked
  <2>1. CASE d # c
    BY <1>3, <2>1, CallStays DEF AskLink, CallsAreBacked, TypeOK
  <2>2. CASE d = c
    <3>1. PICK k : k = call[c]
      OBVIOUS
    <3>2. k.step = "askLink" /\ k.step # "idle"
      BY <1>3, <3>1 DEF AskLink
    <3>3. CallIsBacked(k)'
      BY <3>1, CallStays DEF CallsAreBacked
    <3>4. PICK l \in Links : /\ linkState' = [linkState EXCEPT ![l] = "open"]
                             /\ linkOf' = [linkOf EXCEPT ![l] = k.booking]
                             /\ call' = [call EXCEPT ![c].step = "saveLink", ![c].link = l]
      BY <1>3, <3>1 DEF AskLink
    <3>5. MadeFor(l, k.booking)'
      BY <3>4 DEF MadeFor, TypeOK
    <3>6. /\ call'[c].step = "saveLink" /\ call'[c].link = l
          /\ call'[c].booking = k.booking /\ call'[c].seen = k.seen
      BY <3>1, <3>4 DEF TypeOK, Call
    <3> QED
      BY <2>2, <3>2, <3>3, <3>5, <3>6 DEF CallIsBacked
  <2> QED
    BY <2>1, <2>2
<1>4. ASSUME NEW c \in Calls,
             \/ SaveLink(c) \/ CommitWebhook(c) \/ CommitCash(c) \/ DropLink(c)
             \/ CommitCancel(c) \/ CallFails(c)
      PROVE  CallsAreBacked'
  BY <1>4, EndIsBacked
  DEF SaveLink, CommitWebhook, CommitCash, DropLink, CommitCancel, CallFails
<1>5. CASE UNCHANGED call
  BY <1>5, CallStays DEF CallsAreBacked
<1> QED
  BY <1>1, <1>2, <1>3, <1>4, <1>5
  DEF Next, CallStep, vars, VerifyPickup, FinishRide, PayLink

\* Whoever writes an invoice writes a link or a payment of its booking, or leaves
\* what is there.
LEMMA InvoicesStep ==
    TypeOK /\ InvoicesAreBacked /\ CallsAreBacked /\ [Next]_vars => InvoicesAreBacked'
<1> SUFFICES ASSUME TypeOK, InvoicesAreBacked, CallsAreBacked, [Next]_vars,
                    NEW b \in Bookings
             PROVE  Backed(invoice[b], b)'
  BY DEF InvoicesAreBacked
<1>1. PICK old : old = invoice[b]
  OBVIOUS
<1>2. Backed(old, b)'
  BY <1>1, BackedStays DEF InvoicesAreBacked
<1>3. old \in Invoice
  BY <1>1 DEF TypeOK
<1>4. CASE invoice'[b] = old
  BY <1>2, <1>4
<1>5. ASSUME NEW c \in Calls, AcceptBooking(c, b) PROVE Backed(invoice[b], b)'
  <2>1. invoice'[b] \in {old, Covered}
    BY <1>1, <1>5 DEF AcceptBooking, TypeOK
  <2>2. Covered.link = NoLink /\ Covered.payment = NoLink
    BY DEF Covered, Unpaid
  <2> QED
    BY <1>4, <2>1, <2>2 DEF Backed, NoneOrMade, NoneOrHeld
<1>6. ASSUME NEW c \in Calls, SaveLink(c), call[c].booking = b PROVE Backed(invoice[b], b)'
  <2>1. PICK l : l = call[c].link
    OBVIOUS
  <2>2. MadeFor(l, b)
    BY <1>6, <2>1 DEF CallsAreBacked, CallIsBacked, SaveLink
  <2>3. invoice'[b].link = l /\ invoice'[b].payment = old.payment
    BY <1>1, <1>3, <1>6, <2>1 DEF SaveLink, TypeOK, Invoice
  <2> QED
    BY <1>2, <2>2, <2>3, MadeStays DEF Backed, NoneOrMade
<1>7. ASSUME NEW c \in Calls, CommitWebhook(c), call[c].booking = b
      PROVE  Backed(invoice[b], b)'
  <2>1. PICK l : l = call[c].seen.link
    OBVIOUS
  <2>2. HeldFor(l, b)
    BY <1>7, <2>1 DEF CallsAreBacked, CallIsBacked, CommitWebhook
  <2>3. invoice'[b].link = l /\ invoice'[b].payment = l
    BY <1>7, <2>1 DEF CommitWebhook, MarkedPaid, TypeOK
  <2> QED
    BY <2>2, <2>3, HeldIsMade, HeldStays, MadeStays DEF Backed, NoneOrMade, NoneOrHeld
<1>8. ASSUME NEW c \in Calls, CommitCash(c), call[c].booking = b
      PROVE  Backed(invoice[b], b)'
  <2>1. invoice'[b].link = old.link /\ invoice'[b].payment = old.payment
    BY <1>1, <1>3, <1>8 DEF CommitCash, TypeOK, Invoice
  <2> QED
    BY <1>2, <2>1 DEF Backed
<1>9. CASE \E c \in Calls : \/ SaveLink(c) \/ CommitWebhook(c) \/ CommitCash(c)
                            \/ \E a \in Bookings : AcceptBooking(c, a)
  BY <1>1, <1>4, <1>5, <1>6, <1>7, <1>8, <1>9
  DEF SaveLink, CommitWebhook, CommitCash, AcceptBooking, TypeOK
<1>10. CASE UNCHANGED invoice
  BY <1>1, <1>4, <1>10
<1> QED
  BY <1>9, <1>10
  DEF Next, CallStep, vars, BeginLink, BeginCash, BeginCancel, BeginWebhook, AskLink, DropLink,
      CommitCancel, CallFails, VerifyPickup, FinishRide, PayLink

\* Records of payments are never removed.
LEMMA RecordsStay ==
    ASSUME TypeOK, [Next]_vars, NEW b \in Bookings, NEW m \in {"ONLINE", "CASH"},
           records[b][m] > 0
    PROVE  records'[b][m] > 0
<1>1. ASSUME NEW c \in Calls, CommitWebhook(c) PROVE records'[b][m] > 0
  BY <1>1 DEF TypeOK, CommitWebhook
<1>2. ASSUME NEW c \in Calls, CommitCash(c) PROVE records'[b][m] > 0
  BY <1>2 DEF TypeOK, CommitCash
<1>3. CASE UNCHANGED records
  BY <1>3
<1> QED
  BY <1>1, <1>2, <1>3
  DEF Next, CallStep, vars, AcceptBooking, BeginLink, BeginCash, BeginCancel, BeginWebhook,
      AskLink, SaveLink, DropLink, CommitCancel, CallFails, VerifyPickup, FinishRide, PayLink

\* Only the webhook and the cash make an invoice paid by some method.
LEMMA PaidStep == TypeOK /\ CallsAreBacked /\ PaidIsBacked /\ [Next]_vars => PaidIsBacked'
<1> SUFFICES ASSUME TypeOK, CallsAreBacked, PaidIsBacked, [Next]_vars,
                    NEW b \in Bookings, invoice'[b].method # "NONE"
             PROVE  /\ invoice'[b].isPaid
                    /\ records'[b][invoice'[b].method] > 0
                    /\ invoice'[b].method = "ONLINE" => HeldFor(invoice[b].payment, b)'
  BY DEF PaidIsBacked
<1> DEFINE Goal == /\ invoice'[b].isPaid
                   /\ records'[b][invoice'[b].method] > 0
                   /\ invoice'[b].method = "ONLINE" => HeldFor(invoice[b].payment, b)'
<1>1. PICK old \in Invoice : old = invoice[b]
  BY DEF TypeOK
<1>2. CASE /\ invoice'[b].isPaid = old.isPaid /\ invoice'[b].method = old.method
           /\ invoice'[b].payment = old.payment
  <2>1. /\ old.isPaid /\ records[b][old.method] > 0 /\ old.method \in {"ONLINE", "CASH"}
        /\ old.method = "ONLINE" => HeldFor(old.payment, b)
    BY <1>1, <1>2 DEF PaidIsBacked, Invoice, Method
  <2>2. old.method = "ONLINE" => HeldFor(old.payment, b)'
    BY <2>1, HeldStays
  <2> QED
    BY <1>2, <2>1, <2>2, RecordsStay
<1>3. ASSUME NEW c \in Calls, NEW a \in Bookings, AcceptBooking(c, a) PROVE Goal
  <2>1. invoice'[b] = old \/ invoice'[b] = Covered
    BY <1>1, <1>3 DEF AcceptBooking, TypeOK
  <2> QED
    BY <1>2, <2>1 DEF Covered, Unpaid
<1>4. ASSUME NEW c \in Calls, SaveLink(c) PROVE Goal
  BY <1>1, <1>2, <1>4 DEF SaveLink, TypeOK, Invoice
<1>5. ASSUME NEW c \in Calls, CommitWebhook(c), call[c].booking = b PROVE Goal
  <2>1. PICK l : l = call[c].seen.link
    OBVIOUS
  <2>2. HeldFor(l, b)
    BY <1>5, <2>1 DEF CallsAreBacked, CallIsBacked, CommitWebhook
  <2>3. invoice'[b] = [isPaid |-> TRUE, method |-> "ONLINE", payment |-> l, link |-> l]
    BY <1>5, <2>1 DEF CommitWebhook, MarkedPaid, TypeOK
  <2>4. records'[b]["ONLINE"] > 0
    BY <1>5 DEF CommitWebhook, TypeOK
  <2> QED
    BY <2>2, <2>3, <2>4, HeldStays
<1>6. ASSUME NEW c \in Calls, CommitCash(c), call[c].booking = b PROVE Goal
  <2>1. invoice'[b].isPaid /\ invoice'[b].method = "CASH"
    BY <1>6 DEF CommitCash, TypeOK, Invoice
  <2>2. records'[b]["CASH"] > 0
    BY <1>6 DEF CommitCash, TypeOK
  <2> QED
    BY <2>1, <2>2
<1>7. ASSUME NEW c \in Calls, CommitWebhook(c) \/ CommitCash(c), call[c].booking # b PROVE Goal
  BY <1>1, <1>2, <1>7 DEF CommitWebhook, CommitCash, TypeOK
<1>8. CASE UNCHANGED invoice
  BY <1>1, <1>2, <1>8
<1> QED
  BY <1>3, <1>4, <1>5, <1>6, <1>7, <1>8
  DEF Next, CallStep, vars, BeginLink, BeginCash, BeginCancel, BeginWebhook, AskLink, DropLink,
      CommitCancel, CallFails, VerifyPickup, FinishRide, PayLink

\* The cancellation returns the payment of the invoice it has read.
LEMMA ReturnsStep ==
    TypeOK /\ CallsAreBacked /\ ReturnsWhatWasPaid /\ [Next]_vars => ReturnsWhatWasPaid'
<1> SUFFICES ASSUME TypeOK, CallsAreBacked, ReturnsWhatWasPaid, [Next]_vars,
                    NEW b \in Bookings, intent'[b] # NoLink
             PROVE  HeldFor(intent[b], b)'
  BY DEF ReturnsWhatWasPaid
<1>1. PICK l : l = intent'[b]
  OBVIOUS
<1>2. HeldFor(l, b)
  <2>1. ASSUME NEW c \in Calls, CommitCancel(c), call[c].booking = b PROVE HeldFor(l, b)
    <3>1. l = PaymentToReturn(call[c].seen)
      BY <1>1, <2>1 DEF CommitCancel, TypeOK
    <3>2. l = call[c].seen.payment
      BY <1>1, <3>1 DEF PaymentToReturn
    <3>3. Backed(call[c].seen, b)
      BY <2>1 DEF CallsAreBacked, CallIsBacked, CommitCancel
    <3> QED
      BY <1>1, <3>2, <3>3 DEF Backed, NoneOrHeld
  <2>2. ASSUME NEW c \in Calls, CommitCancel(c), call[c].booking # b PROVE intent'[b] = intent[b]
    BY <2>2 DEF CommitCancel, TypeOK
  <2>3. CASE intent'[b] = intent[b]
    BY <1>1, <2>3 DEF ReturnsWhatWasPaid
  <2> QED
    BY <2>1, <2>2, <2>3
    DEF Next, CallStep, vars, AcceptBooking, BeginLink, BeginCash, BeginCancel, BeginWebhook,
        AskLink, SaveLink, CommitWebhook, CommitCash, DropLink, CallFails, VerifyPickup,
        FinishRide, PayLink
<1> QED
  BY <1>1, <1>2, HeldStays

\* finishRide settles by the method of a paid invoice.
LEMMA SettledStep ==
    TypeOK /\ PaidIsBacked /\ SettledIsBacked /\ [Next]_vars => SettledIsBacked'
<1> SUFFICES ASSUME TypeOK, PaidIsBacked, SettledIsBacked, [Next]_vars, NEW b \in Bookings
             PROVE  /\ settled'[b] = "ONLINE" => \E l \in Links : HeldFor(l, b)'
                    /\ settled'[b] = "CASH" => records'[b]["CASH"] > 0
  BY DEF SettledIsBacked
<1>1. CASE settled'[b] = settled[b]
  BY <1>1, HeldStays, RecordsStay DEF SettledIsBacked
<1>2. CASE FinishRide(b)
  <2>1. settled'[b] = invoice[b].method /\ UNCHANGED <<records, gatewayVars>>
    BY <1>2 DEF FinishRide, Settlement, TypeOK
  <2> QED
    BY <2>1 DEF PaidIsBacked, HeldFor
<1>3. ASSUME NEW a \in Bookings, FinishRide(a), a # b PROVE settled'[b] = settled[b]
  BY <1>3 DEF FinishRide, TypeOK
<1> QED
  BY <1>1, <1>2, <1>3
  DEF Next, CallStep, vars, AcceptBooking, BeginLink, BeginCash, BeginCancel, BeginWebhook,
      AskLink, SaveLink, CommitWebhook, CommitCash, DropLink, CommitCancel, CallFails,
      VerifyPickup, PayLink

-----------------------------------------------------------------------------

LEMMA PaymentInvariant == Spec => []PaymentInv
<1>1. Init => PaymentInv
  <2> SUFFICES ASSUME Init PROVE PaymentInv
    OBVIOUS
  <2> QED
    BY InitType DEF Init, PaymentInv, InvoicesAreBacked, CallsAreBacked, CallIsBacked, Idle, Backed,
       NoneOrMade, NoneOrHeld, Unpaid, PaidIsBacked, ReturnsWhatWasPaid, SettledIsBacked
<1>2. PaymentInv /\ [Next]_vars => PaymentInv'
  BY NextType, InvoicesStep, CallsStep, PaidStep, ReturnsStep, SettledStep DEF PaymentInv
<1> QED
  BY <1>1, <1>2, PTL DEF Spec

\* The rows of invoices, payments and calls stay rows of their kinds.
THEOREM Types == Spec => []TypeOK
  BY PaymentInvariant, PTL DEF PaymentInv

\* However many handlers of a booking overlap, and whichever of them die, an
\* invoice that is paid by m has a record of a payment by m, and one that is paid
\* online names a payment the gateway holds for this booking.
THEOREM PaidInvoicesAreBacked == Spec => []PaidIsBacked
  BY PaymentInvariant, PTL DEF PaymentInv

\* A cancellation returns a payment that the gateway holds for this booking, never
\* that of another, also if the invoice changed after it was read.
THEOREM CancellationsReturnPayments == Spec => []ReturnsWhatWasPaid
  BY PaymentInvariant, PTL DEF PaymentInv

\* The driver is credited his earnings only from a payment the gateway holds, and
\* charged the commission of cash only if he has confirmed the cash.
THEOREM SettlementsAreBacked == Spec => []SettledIsBacked
  BY PaymentInvariant, PTL DEF PaymentInv
-----------------------------------------------------------------------------
(* Referrals: the invariants.                                              *)

RideRow ==
    [step : {"none", "accepting", "riding", "ending", "done"},
     customer : Customers \cup {NoUser}, driver : Drivers \cup {NoUser}, seen : Int]

ReferralTypeOK ==
    /\ referrer \in [Users -> Users \cup {NoUser}]
    /\ rewarded \subseteq Users
    /\ rideCount \in [Users -> Nat]
    /\ balance \in [Users -> Int]
    /\ logged \in [Users -> [referral : Int, ride : Int]]
    /\ ride \in [Rides -> RideRow]
    /\ application \in [Applications -> [user : Users \cup {NoUser}, giver : Users \cup {NoUser}]]
    /\ dueReward \subseteq Users
    /\ raced \subseteq Users
    /\ \A b \in Rides :
          ride[b].step # "none" => ride[b].customer \in Customers /\ ride[b].driver \in Drivers

\* Both are customers, or both drivers.
SameKind(u, g) == u \in Customers <=> g \in Customers

MayGive(u, g) == g \in Users /\ g # u /\ SameKind(u, g)

\* Rows and applications are of two users of a kind, and what is due or given is for
\* a ride that was finished.
ReferralsFit ==
    /\ \A u \in Users : referrer[u] # NoUser => MayGive(u, referrer[u])
    /\ \A a \in Applications : application[a].user # NoUser =>
          MayGive(application[a].user, application[a].giver)
    /\ \A u \in dueReward : rideCount[u] > 0
    /\ \A u \in Users : IsFiniteSet(Given(u))

BonusesInv == ReferralTypeOK /\ ReferralsFit /\ BonusesMatch

\* A ride that has read the balance of a user nothing has raced has what is there.
ReadsFit == \A u \in Users \ raced : \A b \in Readers(u) : ride[b].seen = balance[u]

BalancesInv == ReferralTypeOK /\ ReadsFit /\ OnlyRacesLose
-----------------------------------------------------------------------------
(* Referrals: what the actions write.                                      *)

LEMMA ReferralStarts == ReferralInit => BonusesInv /\ BalancesInv
<1> SUFFICES ASSUME ReferralInit PROVE BonusesInv /\ BalancesInv
  OBVIOUS
<1>1. NoRide \in RideRow /\ NoRide.step = "none"
  BY DEF NoRide, RideRow
<1>2. \A a \in Applications : application[a].user = NoUser /\ application[a] \in [user : {NoUser}, giver : {NoUser}]
  BY DEF ReferralInit, NotApplied
<1>3. /\ logged \in [Users -> [referral : Int, ride : Int]]
      /\ \A u \in Users : logged[u].referral = 0 /\ logged[u].ride = 0
  BY DEF ReferralInit
<1>4. application \in [Applications -> [user : Users \cup {NoUser}, giver : Users \cup {NoUser}]]
  BY DEF ReferralInit, NotApplied
<1>5. ReferralTypeOK
  BY <1>1, <1>3, <1>4 DEF ReferralInit, ReferralTypeOK
<1>6. \A u \in Users : Given(u) = {} /\ Readers(u) = {}
  BY <1>1 DEF ReferralInit, Given, Readers
<1>7. \A u \in Users : IsFiniteSet(Given(u)) /\ Cardinality(Given(u)) = 0
  BY <1>6, FS_EmptySet
<1>8. ReferralsFit
  BY <1>2, <1>7 DEF ReferralInit, ReferralsFit
<1>9. \A u \in Users : referrer[u] = NoUser /\ u # NoUser
  BY NoUserAssumption DEF ReferralInit, Users
<1>10. \A u \in Users : RewardOf(u) * 0 = 0
  BY DEF RewardOf
<1>11. BonusesMatch
  BY <1>3, <1>7, <1>9, <1>10 DEF ReferralInit, BonusesMatch
<1>12. ReadsFit /\ OnlyRacesLose
  BY <1>3, <1>6 DEF ReferralInit, ReadsFit, OnlyRacesLose
<1> QED
  BY <1>5, <1>8, <1>11, <1>12 DEF BonusesInv, BalancesInv

\* An increment and its row of the log.
LEMMA CreditWrites ==
    ASSUME ReferralTypeOK, NEW u \in Users, NEW amount \in Int, Credit(u, amount)
    PROVE  /\ balance' \in [Users -> Int] /\ logged' \in [Users -> [referral : Int, ride : Int]]
           /\ raced' \subseteq Users
           /\ \A v \in Users :
                 /\ balance'[v] = IF v = u THEN balance[v] + amount ELSE balance[v]
                 /\ logged'[v].referral = IF v = u THEN logged[v].referral + amount
                                                   ELSE logged[v].referral
                 /\ logged'[v].ride = logged[v].ride
           /\ raced \subseteq raced' /\ (u \notin raced' => Readers(u) = {})
<1>1. /\ balance' = [balance EXCEPT ![u] = balance[u] + amount]
      /\ logged' = [logged EXCEPT ![u].referral = logged[u].referral + amount]
      /\ Races(u, {})
  BY DEF Credit
<1>2. PICK q : q = [logged[u] EXCEPT !.referral = logged[u].referral + amount]
  OBVIOUS
<1>3. logged[u] \in [referral : Int, ride : Int] /\ balance[u] + amount \in Int
  BY DEF ReferralTypeOK
<1>4. /\ q \in [referral : Int, ride : Int]
      /\ q.referral = logged[u].referral + amount /\ q.ride = logged[u].ride
  BY <1>2, <1>3
<1>5. logged' = [logged EXCEPT ![u] = q]
  BY <1>1, <1>2
<1>6. raced \subseteq raced' /\ raced' \subseteq Users /\ (u \notin raced' => Readers(u) = {})
  BY <1>1 DEF Races, ReferralTypeOK
<1>7. \A v \in Users : logged'[v] = IF v = u THEN q ELSE logged[v]
  BY <1>5 DEF ReferralTypeOK
<1>8. balance' \in [Users -> Int] /\ logged' \in [Users -> [referral : Int, ride : Int]]
  BY <1>1, <1>3, <1>4, <1>5 DEF ReferralTypeOK
<1>9. \A v \in Users : balance'[v] = IF v = u THEN balance[v] + amount ELSE balance[v]
  BY <1>1 DEF ReferralTypeOK
<1> QED
  BY <1>4, <1>6, <1>7, <1>8, <1>9

\* A ride's change, of what it has seen.
LEMMA RideWrites ==
    ASSUME ReferralTypeOK, NEW u \in Users, NEW b \in Rides, NEW change \in Int,
           WriteBalance(u, b, change)
    PROVE  /\ balance' \in [Users -> Int] /\ logged' \in [Users -> [referral : Int, ride : Int]]
           /\ raced' \subseteq Users
           /\ \A v \in Users :
                 /\ balance'[v] = IF v = u THEN ride[b].seen + change ELSE balance[v]
                 /\ logged'[v].referral = logged[v].referral
                 /\ logged'[v].ride = IF v = u THEN logged[v].ride + change ELSE logged[v].ride
           /\ raced \subseteq raced' /\ (u \notin raced' => Readers(u) \subseteq {b})
<1>1. /\ balance' = [balance EXCEPT ![u] = ride[b].seen + change]
      /\ logged' = [logged EXCEPT ![u].ride = logged[u].ride + change]
      /\ Races(u, {b})
  BY DEF WriteBalance
<1>2. PICK q : q = [logged[u] EXCEPT !.ride = logged[u].ride + change]
  OBVIOUS
<1>3. logged[u] \in [referral : Int, ride : Int] /\ ride[b].seen + change \in Int
  BY DEF ReferralTypeOK, RideRow
<1>4. /\ q \in [referral : Int, ride : Int]
      /\ q.ride = logged[u].ride + change /\ q.referral = logged[u].referral
  BY <1>2, <1>3
<1>5. logged' = [logged EXCEPT ![u] = q]
  BY <1>1, <1>2
<1>6. raced \subseteq raced' /\ raced' \subseteq Users /\ (u \notin raced' => Readers(u) \subseteq {b})
  BY <1>1 DEF Races, ReferralTypeOK
<1>7. \A v \in Users : logged'[v] = IF v = u THEN q ELSE logged[v]
  BY <1>5 DEF ReferralTypeOK
<1>8. balance' \in [Users -> Int] /\ logged' \in [Users -> [referral : Int, ride : Int]]
  BY <1>1, <1>3, <1>4, <1>5 DEF ReferralTypeOK
<1>9. \A v \in Users : balance'[v] = IF v = u THEN ride[b].seen + change ELSE balance[v]
  BY <1>1 DEF ReferralTypeOK
<1> QED
  BY <1>4, <1>6, <1>7, <1>8, <1>9

\* A ride's steps: what becomes of its row.
RideGoes(b, q) ==
    /\ q \in RideRow /\ ride' = [ride EXCEPT ![b] = q]
    /\ q.step # "none" /\ q.customer \in Customers /\ q.driver \in Drivers

LEMMA RideSteps ==
    ASSUME ReferralTypeOK, NEW b \in Rides
    PROVE  /\ \A c \in Customers, d \in Drivers : BeginAccept(b, c, d) =>
                 \E q : /\ RideGoes(b, q) /\ q.step = "accepting"
                        /\ q.customer = c /\ q.seen = balance[c]
           /\ UseBalance(b) =>
                 /\ ride[b].step = "accepting"
                 /\ \E q : RideGoes(b, q) /\ q.step = "riding"
           /\ BeginFinish(b) =>
                 \E q : /\ RideGoes(b, q) /\ q.step = "ending"
                        /\ q.driver = ride[b].driver /\ q.seen = balance[q.driver]
           /\ CountRide(b) =>
                 /\ ride[b].step = "ending"
                 /\ \E q : RideGoes(b, q) /\ q.step = "done"
<1>1. ride[b] \in RideRow /\ DOMAIN ride = Rides
  BY DEF ReferralTypeOK
<1>2. ride[b].step # "none" => ride[b].customer \in Customers /\ ride[b].driver \in Drivers
  BY DEF ReferralTypeOK
<1>3. ASSUME NEW c \in Customers, NEW d \in Drivers, BeginAccept(b, c, d)
      PROVE  \E q : /\ RideGoes(b, q) /\ q.step = "accepting"
                    /\ q.customer = c /\ q.seen = balance[c]
  <2>1. PICK q : q = [step |-> "accepting", customer |-> c, driver |-> d, seen |-> balance[c]]
    OBVIOUS
  <2>2. balance[c] \in Int
    BY DEF ReferralTypeOK, Users
  <2>3. q \in RideRow /\ q.step = "accepting" /\ q.customer = c /\ q.driver = d /\ q.seen = balance[c]
    BY <2>1, <2>2 DEF RideRow
  <2>4. ride' = [ride EXCEPT ![b] = q]
    BY <1>3, <2>1 DEF BeginAccept
  <2>5. RideGoes(b, q)
    BY <2>3, <2>4 DEF RideGoes
  <2> QED
    BY <2>3, <2>5
<1>4. ASSUME UseBalance(b) PROVE ride[b].step = "accepting" /\ \E q : RideGoes(b, q) /\ q.step = "riding"
  <2> DEFINE none == 0
  <2>0. none \in Int
    OBVIOUS
  <2>1. PICK q : q = [ride[b] EXCEPT !.step = "riding", !.seen = none]
    OBVIOUS
  <2>2. ride[b].step = "accepting" /\ ride' = [ride EXCEPT ![b] = q]
    BY <1>4, <2>1 DEF UseBalance
  <2> HIDE DEF none
  <2>3. /\ q \in RideRow /\ q.step = "riding"
        /\ q.customer = ride[b].customer /\ q.driver = ride[b].driver
    BY <1>1, <2>0, <2>1 DEF RideRow
  <2>4. RideGoes(b, q)
    BY <1>2, <2>2, <2>3 DEF RideGoes
  <2> QED
    BY <2>2, <2>3, <2>4
<1>5. ASSUME BeginFinish(b)
      PROVE  \E q : /\ RideGoes(b, q) /\ q.step = "ending"
                    /\ q.driver = ride[b].driver /\ q.seen = balance[q.driver]
  <2>1. PICK q : q = [ride[b] EXCEPT !.step = "ending", !.seen = balance[ride[b].driver]]
    OBVIOUS
  <2>2. ride[b].step = "riding" /\ ride' = [ride EXCEPT ![b] = q]
    BY <1>1, <1>5, <2>1 DEF BeginFinish
  <2>3. balance[ride[b].driver] \in Int
    BY <1>2, <2>2 DEF ReferralTypeOK, Users
  <2>4. /\ q \in RideRow /\ q.step = "ending" /\ q.seen = balance[ride[b].driver]
        /\ q.customer = ride[b].customer /\ q.driver = ride[b].driver
    BY <1>1, <2>1, <2>3 DEF RideRow
  <2>5. RideGoes(b, q)
    BY <1>2, <2>2, <2>4 DEF RideGoes
  <2> QED
    BY <2>4, <2>5
<1>6. ASSUME CountRide(b) PROVE ride[b].step = "ending" /\ \E q : RideGoes(b, q) /\ q.step = "done"
  <2>1. PICK q : q = [ride[b] EXCEPT !.step = "done"]
    OBVIOUS
  <2>2. ride[b].step = "ending" /\ ride' = [ride EXCEPT ![b] = q]
    BY <1>6, <2>1 DEF CountRide
  <2>3. /\ q \in RideRow /\ q.step = "done"
        /\ q.customer = ride[b].customer /\ q.driver = ride[b].driver
    BY <1>1, <2>1 DEF RideRow
  <2>4. RideGoes(b, q)
    BY <1>2, <2>2, <2>3 DEF RideGoes
  <2> QED
    BY <2>2, <2>3, <2>4
<1> QED
  BY <1>3, <1>4, <1>5, <1>6

\* A transaction that applies a code, when it begins, and when it is over.
LEMMA ApplicationSteps ==
    ASSUME ReferralTypeOK, NEW a \in Applications
    PROVE  /\ \A u, g \in Users : BeginReferral(a, u, g) =>
                 \E q \in [user : Users \cup {NoUser}, giver : Users \cup {NoUser}] :
                    application' = [application EXCEPT ![a] = q] /\ q.user = u /\ q.giver = g
           /\ NotApplied \in [user : Users \cup {NoUser}, giver : Users \cup {NoUser}]
           /\ NotApplied.user = NoUser
<1>1. ASSUME NEW u \in Users, NEW g \in Users, BeginReferral(a, u, g)
      PROVE  \E q \in [user : Users \cup {NoUser}, giver : Users \cup {NoUser}] :
                application' = [application EXCEPT ![a] = q] /\ q.user = u /\ q.giver = g
  <2>1. PICK q : q = [user |-> u, giver |-> g]
    OBVIOUS
  <2>2. q \in [user : Users \cup {NoUser}, giver : Users \cup {NoUser}] /\ q.user = u /\ q.giver = g
    BY <2>1
  <2>3. application' = [application EXCEPT ![a] = q]
    BY <1>1, <2>1 DEF BeginReferral
  <2> QED
    BY <2>2, <2>3
<1> QED
  BY <1>1 DEF NotApplied

LEMMA ReferralTypeStep == ReferralTypeOK /\ [ReferralNext]_referralVars => ReferralTypeOK'
<1> SUFFICES ASSUME ReferralTypeOK, [ReferralNext]_referralVars PROVE ReferralTypeOK'
  OBVIOUS
<1>1. ASSUME NEW u \in Users, GenerateReferralCode(u) \/ DayPasses(u) \/ LoseReward(u)
      PROVE  ReferralTypeOK'
  <2>1. UNCHANGED <<referrer, rewarded, rideCount, balance, logged, ride, application, raced>>
    BY <1>1 DEF GenerateReferralCode, DayPasses, LoseReward, walletVars, userVars
  <2>2. dueReward' \subseteq Users
    BY <1>1 DEF GenerateReferralCode, DayPasses, LoseReward, ReferralTypeOK
  <2> QED
    BY <2>1, <2>2 DEF ReferralTypeOK
<1>2. ASSUME NEW u \in Users, ApplyReferrerReward(u) PROVE ReferralTypeOK'
  <2>1. UNCHANGED <<referrer, rideCount, ride, application>> /\ dueReward' \subseteq Users
    BY <1>2 DEF ApplyReferrerReward, ReferralTypeOK
  <2>2. CASE UNCHANGED <<rewarded, walletVars>>
    BY <2>1, <2>2 DEF ReferralTypeOK, walletVars
  <2>3. CASE rewarded' = rewarded \cup {u} /\ referrer[u] # NoUser /\ Credit(referrer[u], RewardOf(u))
    <3>1. referrer[u] \in Users /\ RewardOf(u) \in Int
      BY <2>3 DEF ReferralTypeOK, RewardOf
    <3>2. /\ balance' \in [Users -> Int] /\ logged' \in [Users -> [referral : Int, ride : Int]]
          /\ raced' \subseteq Users
      BY <2>3, <3>1, CreditWrites
    <3> QED
      BY <2>1, <2>3, <3>2 DEF ReferralTypeOK
  <2> QED
    BY <1>2, <2>2, <2>3 DEF ApplyReferrerReward
<1>3. ASSUME NEW a \in Applications,
             (\E u, g \in Users : BeginReferral(a, u, g)) \/ AbandonReferral(a)
      PROVE  ReferralTypeOK'
  <2>1. UNCHANGED <<referrer, rewarded, rideCount, balance, logged, ride, dueReward, raced>>
    BY <1>3 DEF BeginReferral, AbandonReferral, walletVars, userVars
  <2>2. PICK q \in [user : Users \cup {NoUser}, giver : Users \cup {NoUser}] :
            application' = [application EXCEPT ![a] = q]
    BY <1>3, ApplicationSteps DEF AbandonReferral
  <2> QED
    BY <2>1, <2>2 DEF ReferralTypeOK
<1>4. ASSUME NEW a \in Applications, ApplyReferralCode(a) PROVE ReferralTypeOK'
  <2>1. PICK u, g : u = application[a].user /\ g = application[a].giver
    OBVIOUS
  <2>2. u \in Users /\ g \in Users \cup {NoUser}
    BY <1>4, <2>1 DEF ApplyReferralCode, ReferralTypeOK
  <2>3. /\ referrer' = [referrer EXCEPT ![u] = g] /\ Credit(u, SignupBonus)
        /\ application' = [application EXCEPT ![a] = NotApplied]
        /\ UNCHANGED <<rewarded, rideCount, ride, dueReward>>
    BY <1>4, <2>1 DEF ApplyReferralCode
  <2>4. /\ balance' \in [Users -> Int] /\ logged' \in [Users -> [referral : Int, ride : Int]]
        /\ raced' \subseteq Users
    BY <2>2, <2>3, CreditWrites DEF SignupBonus
  <2>5. NotApplied \in [user : Users \cup {NoUser}, giver : Users \cup {NoUser}]
    BY ApplicationSteps
  <2> QED
    BY <2>2, <2>3, <2>4, <2>5 DEF ReferralTypeOK
<1>5. ASSUME NEW b \in Rides, NEW q, RideGoes(b, q),
             UNCHANGED <<referrer, rewarded, application>>, rideCount' \in [Users -> Nat],
             balance' \in [Users -> Int], logged' \in [Users -> [referral : Int, ride : Int]],
             raced' \subseteq Users, dueReward' \subseteq Users
      PROVE  ReferralTypeOK'
  BY <1>5 DEF ReferralTypeOK, RideGoes
<1>6. ASSUME NEW b \in Rides, (\E c \in Customers, d \in Drivers : BeginAccept(b, c, d)) \/ BeginFinish(b)
      PROVE  ReferralTypeOK'
  <2>1. UNCHANGED <<userVars, walletVars, application, dueReward>>
    BY <1>6 DEF BeginAccept, BeginFinish
  <2>2. PICK q : RideGoes(b, q)
    BY <1>6, RideSteps
  <2> QED
    BY <1>5, <2>1, <2>2 DEF ReferralTypeOK, userVars, walletVars
<1>7. ASSUME NEW b \in Rides, UseBalance(b) PROVE ReferralTypeOK'
  <2>1. UNCHANGED <<userVars, application, dueReward>>
    BY <1>7 DEF UseBalance
  <2>2. PICK q : RideGoes(b, q)
    BY <1>7, RideSteps
  <2>3. CASE UNCHANGED walletVars
    BY <1>5, <2>1, <2>2, <2>3 DEF ReferralTypeOK, userVars, walletVars
  <2>4. CASE WriteBalance(ride[b].customer, b, -ride[b].seen)
    <3>1. ride[b].customer \in Users /\ -ride[b].seen \in Int
      BY <1>7, RideSteps DEF ReferralTypeOK, RideRow, Users
    <3>2. /\ balance' \in [Users -> Int] /\ logged' \in [Users -> [referral : Int, ride : Int]]
          /\ raced' \subseteq Users
      BY <2>4, <3>1, RideWrites
    <3> QED
      BY <1>5, <2>1, <2>2, <3>2 DEF ReferralTypeOK, userVars
  <2> QED
    BY <1>7, <2>3, <2>4 DEF UseBalance
<1>8. ASSUME NEW b \in Rides, CountRide(b) PROVE ReferralTypeOK'
  <2>1. UNCHANGED <<referrer, rewarded, application>> /\ WriteBalance(ride[b].driver, b, Earnings)
    BY <1>8 DEF CountRide
  <2>2. PICK q : RideGoes(b, q)
    BY <1>8, RideSteps
  <2>3. ride[b].customer \in Users /\ ride[b].driver \in Users
    BY <1>8, RideSteps DEF ReferralTypeOK, Users
  <2>4. /\ balance' \in [Users -> Int] /\ logged' \in [Users -> [referral : Int, ride : Int]]
        /\ raced' \subseteq Users
    BY <2>1, <2>3, RideWrites DEF Earnings
  <2>5. rideCount' \in [Users -> Nat] /\ dueReward' \subseteq Users
    BY <1>8, <2>3 DEF CountRide, ReferralTypeOK
  <2> QED
    BY <1>5, <2>1, <2>2, <2>4, <2>5
<1>9. CASE UNCHANGED referralVars
  BY <1>9 DEF referralVars, userVars, walletVars, ReferralTypeOK
<1> QED
  BY <1>1, <1>2, <1>3, <1>4, <1>6, <1>7, <1>8, <1>9 DEF ReferralNext
-----------------------------------------------------------------------------
(* Referrals: balances.                                                    *)

\* A ride reads a balance, or no longer, only with its own step.
LEMMA ReadersMove ==
    ASSUME ReferralTypeOK, NEW b \in Rides, NEW q, RideGoes(b, q), NEW u, NEW r \in Rides,
           r \in Readers(u)'
    PROVE  \/ r # b /\ r \in Readers(u) /\ ride'[r] = ride[r]
           \/ /\ r = b /\ ride'[r] = q
              /\ \/ q.step = "accepting" /\ q.customer = u
                 \/ q.step = "ending" /\ q.driver = u
<1>1. \A o \in Rides : ride'[o] = IF o = b THEN q ELSE ride[o]
  BY DEF RideGoes, ReferralTypeOK
<1>2. \/ ride'[r].step = "accepting" /\ ride'[r].customer = u /\ ride'[r].seen # 0
      \/ ride'[r].step = "ending" /\ ride'[r].driver = u
  BY DEF Readers
<1>3. CASE r = b
  <2>1. ride'[r] = q
    BY <1>1, <1>3
  <2> QED
    BY <1>2, <1>3, <2>1
<1>4. CASE r # b
  BY <1>1, <1>2, <1>4 DEF Readers
<1> QED
  BY <1>3, <1>4

\* A credit is in the log, and races all who have read the balance.
LEMMA CreditFits ==
    ASSUME BalancesInv, NEW u \in Users, NEW amount \in Int, Credit(u, amount), UNCHANGED ride
    PROVE  ReadsFit' /\ OnlyRacesLose'
<1>1. /\ \A v \in Users :
            /\ balance'[v] = IF v = u THEN balance[v] + amount ELSE balance[v]
            /\ logged'[v].referral = IF v = u THEN logged[v].referral + amount
                                              ELSE logged[v].referral
            /\ logged'[v].ride = logged[v].ride
      /\ raced \subseteq raced' /\ (u \notin raced' => Readers(u) = {})
  BY CreditWrites DEF BalancesInv
<1>2. \A v \in Users : Readers(v)' = Readers(v)
  BY DEF Readers
<1>3. \A v \in Users : /\ balance[v] \in Int /\ logged[v].referral \in Int /\ logged[v].ride \in Int
  BY DEF BalancesInv, ReferralTypeOK
<1>4. ReadsFit'
  BY <1>1, <1>2 DEF BalancesInv, ReadsFit
<1>5. OnlyRacesLose'
  BY <1>1, <1>3 DEF BalancesInv, OnlyRacesLose
<1> QED
  BY <1>4, <1>5

\* So is what a ride changes; it is alone with the balance, or has raced another.
LEMMA RideFits ==
    ASSUME BalancesInv, NEW u \in Users, NEW b \in Rides, b \in Readers(u), NEW change \in Int,
           WriteBalance(u, b, change), NEW q, RideGoes(b, q), q.step \in {"riding", "done"}
    PROVE  ReadsFit' /\ OnlyRacesLose'
<1>1. /\ \A v \in Users :
            /\ balance'[v] = IF v = u THEN ride[b].seen + change ELSE balance[v]
            /\ logged'[v].referral = logged[v].referral
            /\ logged'[v].ride = IF v = u THEN logged[v].ride + change ELSE logged[v].ride
      /\ raced \subseteq raced' /\ (u \notin raced' => Readers(u) \subseteq {b})
  BY RideWrites DEF BalancesInv
<1>2. ASSUME NEW v \in Users, NEW r \in Readers(v)'
      PROVE  r # b /\ r \in Readers(v) /\ ride'[r] = ride[r]
  <2>1. r \in Rides
    BY <1>2 DEF Readers
  <2> QED
    BY <1>2, <2>1, ReadersMove DEF BalancesInv
<1>3. \A v \in Users : balance[v] \in Int /\ logged[v].referral \in Int /\ logged[v].ride \in Int
  BY DEF BalancesInv, ReferralTypeOK
<1>4. ReadsFit'
  BY <1>1, <1>2 DEF BalancesInv, ReadsFit
<1>5. u \notin raced => ride[b].seen = logged[u].referral + logged[u].ride
  BY DEF BalancesInv, ReadsFit, OnlyRacesLose
<1>6. OnlyRacesLose'
  BY <1>1, <1>3, <1>5 DEF BalancesInv, OnlyRacesLose
<1> QED
  BY <1>4, <1>6

LEMMA BalancesStep == BalancesInv /\ [ReferralNext]_referralVars => BalancesInv'
<1> SUFFICES ASSUME BalancesInv, [ReferralNext]_referralVars PROVE ReadsFit' /\ OnlyRacesLose'
  BY ReferralTypeStep DEF BalancesInv
<1>1. ASSUME UNCHANGED <<balance, logged, raced, ride>> PROVE ReadsFit' /\ OnlyRacesLose'
  BY <1>1 DEF BalancesInv, ReadsFit, OnlyRacesLose, Readers
<1>2. ASSUME NEW u \in Users, ApplyReferrerReward(u) PROVE ReadsFit' /\ OnlyRacesLose'
  <2>1. CASE UNCHANGED walletVars
    BY <1>1, <1>2, <2>1 DEF ApplyReferrerReward, walletVars
  <2>2. CASE referrer[u] # NoUser /\ Credit(referrer[u], RewardOf(u))
    <3>1. referrer[u] \in Users /\ RewardOf(u) \in Int /\ UNCHANGED ride
      BY <1>2, <2>2 DEF BalancesInv, ReferralTypeOK, RewardOf, ApplyReferrerReward
    <3> QED
      BY <2>2, <3>1, CreditFits
  <2> QED
    BY <1>2, <2>1, <2>2 DEF ApplyReferrerReward
<1>3. ASSUME NEW a \in Applications, ApplyReferralCode(a) PROVE ReadsFit' /\ OnlyRacesLose'
  <2>1. PICK u \in Users : u = application[a].user
    BY <1>3 DEF ApplyReferralCode, BalancesInv, ReferralTypeOK
  <2>2. Credit(u, SignupBonus) /\ UNCHANGED ride
    BY <1>3, <2>1 DEF ApplyReferralCode
  <2> QED
    BY <2>2, CreditFits DEF SignupBonus
<1>4. ASSUME NEW b \in Rides, (\E c \in Customers, d \in Drivers : BeginAccept(b, c, d)) \/ BeginFinish(b)
      PROVE  ReadsFit' /\ OnlyRacesLose'
  <2>1. UNCHANGED walletVars
    BY <1>4 DEF BeginAccept, BeginFinish
  <2>2. PICK q : /\ RideGoes(b, q)
                 /\ \/ q.step = "accepting" /\ q.seen = balance[q.customer]
                    \/ q.step = "ending" /\ q.seen = balance[q.driver]
    BY <1>4, RideSteps DEF BalancesInv
  <2>3. ASSUME NEW v \in Users, v \notin raced, NEW r \in Readers(v)' PROVE ride'[r].seen = balance[v]
    <3>1. r \in Rides
      BY <2>3 DEF Readers
    <3>2. \/ r # b /\ r \in Readers(v) /\ ride'[r] = ride[r]
          \/ ride'[r] = q /\ q.step = "accepting" /\ q.customer = v
          \/ ride'[r] = q /\ q.step = "ending" /\ q.driver = v
      BY <2>2, <2>3, <3>1, ReadersMove DEF BalancesInv
    <3> QED
      BY <2>2, <2>3, <3>2 DEF BalancesInv, ReadsFit
  <2> QED
    BY <2>1, <2>3 DEF BalancesInv, ReadsFit, OnlyRacesLose, walletVars
<1>5. ASSUME NEW b \in Rides, UseBalance(b) PROVE ReadsFit' /\ OnlyRacesLose'
  <2>1. PICK q : RideGoes(b, q) /\ q.step = "riding"
    BY <1>5, RideSteps DEF BalancesInv
  <2>2. ride[b].step = "accepting"
    BY <1>5 DEF UseBalance
  <2>3. CASE UNCHANGED walletVars
    <3>1. ASSUME NEW v \in Users, NEW r \in Readers(v)' PROVE r \in Readers(v) /\ ride'[r] = ride[r]
      <4>1. r \in Rides
        BY <3>1 DEF Readers
      <4> QED
        BY <2>1, <3>1, <4>1, ReadersMove DEF BalancesInv
    <3> QED
      BY <2>3, <3>1 DEF BalancesInv, ReadsFit, OnlyRacesLose, walletVars
  <2>4. CASE ride[b].seen # 0 /\ WriteBalance(ride[b].customer, b, -ride[b].seen)
    <3>1. /\ ride[b].customer \in Users /\ -ride[b].seen \in Int
          /\ b \in Readers(ride[b].customer)
      BY <2>2, <2>4 DEF BalancesInv, ReferralTypeOK, RideRow, Users, Readers
    <3> QED
      BY <2>1, <2>4, <3>1, RideFits
  <2> QED
    BY <1>5, <2>3, <2>4 DEF UseBalance
<1>6. ASSUME NEW b \in Rides, CountRide(b) PROVE ReadsFit' /\ OnlyRacesLose'
  <2>1. PICK q : RideGoes(b, q) /\ q.step = "done"
    BY <1>6, RideSteps DEF BalancesInv
  <2>2. ride[b].step = "ending" /\ WriteBalance(ride[b].driver, b, Earnings) /\ Earnings \in Int
    BY <1>6 DEF CountRide, Earnings
  <2>3. ride[b].driver \in Users /\ b \in Readers(ride[b].driver)
    BY <2>2 DEF BalancesInv, ReferralTypeOK, Users, Readers
  <2> QED
    BY <2>1, <2>2, <2>3, RideFits
<1>7. ASSUME \/ \E u \in Users : GenerateReferralCode(u) \/ DayPasses(u) \/ LoseReward(u)
             \/ \E a \in Applications : \/ \E u, g \in Users : BeginReferral(a, u, g)
                                        \/ AbandonReferral(a)
             \/ UNCHANGED referralVars
      PROVE  UNCHANGED <<balance, logged, raced, ride>>
  BY <1>7 DEF GenerateReferralCode, DayPasses, LoseReward, BeginReferral, AbandonReferral,
              referralVars, walletVars
<1> QED
  BY <1>1, <1>2, <1>3, <1>4, <1>5, <1>6, <1>7 DEF ReferralNext

\* A balance is what its log says, unless another write came between a ride's read of
\* it and the ride's own write.
THEOREM BalancesFollowTheLog == ReferralSpec => []OnlyRacesLose
<1>1. BalancesInv => OnlyRacesLose
  BY DEF BalancesInv
<1> QED
  BY <1>1, ReferralStarts, BalancesStep, PTL DEF ReferralSpec
-----------------------------------------------------------------------------
(* Referrals: bonuses and rewards.                                         *)

\* A code is given to users of the giver's kind, for whom the reward is the same.
LEMMA KindsMatch ==
    ASSUME NEW u \in Users, NEW g
    PROVE  /\ g \in CodesFor(u) => MayGive(u, g)
           /\ MayGive(u, g) => RewardOf(g) = RewardOf(u)
  BY KindsAssumption DEF CodesFor, MayGive, SameKind, Users, RewardOf

\* Nothing that concerns the bonuses changes.
LEMMA BonusesStay ==
    ASSUME BonusesInv,
           \A u \in Users : logged'[u].referral = logged[u].referral,
           UNCHANGED <<referrer, rewarded>>,
           \A u \in Users : rideCount[u] > 0 => rideCount'[u] > 0
    PROVE  BonusesMatch' /\ \A u \in Users : Given(u)' = Given(u)
<1>1. \A u \in Users : Given(u)' = Given(u)
  BY DEF Given
<1>2. rewarded \subseteq Users
  BY DEF BonusesInv, ReferralTypeOK
<1> QED
  BY <1>1, <1>2 DEF BonusesInv, BonusesMatch

LEMMA CodeIsApplied ==
    ASSUME BonusesInv, NEW a \in Applications, ApplyReferralCode(a)
    PROVE  ReferralsFit' /\ BonusesMatch'
<1>1. PICK u \in Users, g \in Users \cup {NoUser} : u = application[a].user /\ g = application[a].giver /\ u # NoUser
  BY DEF ApplyReferralCode, BonusesInv, ReferralTypeOK
<1>2. /\ referrer[u] = NoUser /\ referrer' = [referrer EXCEPT ![u] = g]
      /\ Credit(u, SignupBonus)
      /\ application' = [application EXCEPT ![a] = NotApplied]
      /\ UNCHANGED <<rewarded, rideCount, dueReward>>
  BY <1>1 DEF ApplyReferralCode, MayRefer
<1>3. MayGive(u, g) /\ g # NoUser
  BY <1>1, NoUserAssumption DEF BonusesInv, ReferralsFit, MayGive, Users
<1>4. \A v \in Users : referrer'[v] = IF v = u THEN g ELSE referrer[v]
  BY <1>2 DEF BonusesInv, ReferralTypeOK
<1>5. \A v \in Users : logged'[v].referral = IF v = u THEN logged[v].referral + SignupBonus
                                                      ELSE logged[v].referral
  BY <1>2, CreditWrites DEF BonusesInv, SignupBonus
<1>6. u \notin rewarded /\ rewarded \subseteq Users
  BY <1>2 DEF BonusesInv, BonusesMatch, ReferralTypeOK
<1>7. \A v \in Users : Given(v)' = Given(v)
  <2> SUFFICES ASSUME NEW v \in Users PROVE \A w \in rewarded : referrer'[w] = v <=> referrer[w] = v
    BY <1>2 DEF Given
  <2> QED
    BY <1>4, <1>6
<1>8. \A b \in Applications : application'[b] = IF b = a THEN NotApplied ELSE application[b]
  BY <1>2 DEF BonusesInv, ReferralTypeOK
<1>9. ReferralsFit'
  <2>1. \A v \in Users : referrer'[v] # NoUser => MayGive(v, referrer'[v])
    BY <1>3, <1>4 DEF BonusesInv, ReferralsFit
  <2>2. \A b \in Applications : application'[b].user # NoUser =>
            MayGive(application'[b].user, application'[b].giver)
    BY <1>8 DEF BonusesInv, ReferralsFit, NotApplied
  <2> QED
    BY <1>2, <1>7, <2>1, <2>2 DEF BonusesInv, ReferralsFit
<1>10. \A v \in Users : logged[v].referral \in Int
  BY DEF BonusesInv, ReferralTypeOK
<1>11. \A v \in Users : RewardOf(v) * Cardinality(Given(v)) \in Int
  BY FS_CardinalityType DEF BonusesInv, ReferralsFit, RewardOf
<1>12. BonusesMatch'
  <2>1. \A v \in Users : referrer'[v] # v
    BY <1>3, <1>4 DEF BonusesInv, BonusesMatch, MayGive
  <2>2. \A v \in rewarded : referrer'[v] # NoUser /\ rideCount[v] > 0
    BY <1>4, <1>6 DEF BonusesInv, BonusesMatch
  <2>3. ASSUME NEW v \in Users
        PROVE  logged'[v].referral = (IF referrer'[v] = NoUser THEN 0 ELSE SignupBonus)
                                        + RewardOf(v) * Cardinality(Given(v))
    <3> DEFINE rewards == RewardOf(v) * Cardinality(Given(v))
    <3>1. logged[v].referral = (IF referrer[v] = NoUser THEN 0 ELSE SignupBonus) + rewards
      BY DEF BonusesInv, BonusesMatch
    <3>2. rewards \in Int
      BY <1>11
    <3> HIDE DEF rewards
    <3>3. logged'[v].referral = (IF referrer'[v] = NoUser THEN 0 ELSE SignupBonus) + rewards
      BY <1>2, <1>3, <1>4, <1>5, <1>10, <3>1, <3>2 DEF SignupBonus
    <3> QED
      BY <3>3 DEF rewards
  <2> QED
    BY <1>2, <1>7, <2>1, <2>2, <2>3 DEF BonusesMatch
<1> QED
  BY <1>9, <1>12

LEMMA RewardIsGiven ==
    ASSUME BonusesInv, NEW u \in Users, ApplyReferrerReward(u)
    PROVE  ReferralsFit' /\ BonusesMatch'
<1>1. /\ u \in dueReward /\ dueReward' = dueReward \ {u}
      /\ UNCHANGED <<referrer, rideCount, application>>
  BY DEF ApplyReferrerReward
<1>2. CASE UNCHANGED <<rewarded, walletVars>>
  <2>1. BonusesMatch' /\ \A v \in Users : Given(v)' = Given(v)
    BY <1>1, <1>2, BonusesStay DEF walletVars
  <2> QED
    BY <1>1, <1>2, <2>1 DEF BonusesInv, ReferralsFit
<1>3. CASE /\ referrer[u] # NoUser /\ u \notin rewarded
           /\ rewarded' = rewarded \cup {u} /\ Credit(referrer[u], RewardOf(u))
  <2>1. PICK g \in Users : g = referrer[u]
    BY <1>3 DEF BonusesInv, ReferralTypeOK
  <2>2. MayGive(u, g) /\ RewardOf(g) = RewardOf(u) /\ RewardOf(u) \in {2, 6}
    BY <1>3, <2>1, KindsMatch DEF BonusesInv, ReferralsFit, RewardOf
  <2>3. \A v \in Users : logged'[v].referral = IF v = g THEN logged[v].referral + RewardOf(g)
                                                        ELSE logged[v].referral
    BY <1>3, <2>1, <2>2, CreditWrites DEF BonusesInv
  <2>4. Given(g)' = Given(g) \cup {u} /\ u \notin Given(g)
    BY <1>1, <1>3, <2>1 DEF Given
  <2>5. \A v \in Users : v # g => Given(v)' = Given(v)
    BY <1>1, <1>3, <2>1 DEF Given
  <2>6. PICK n \in Nat : n = Cardinality(Given(g)) /\ IsFiniteSet(Given(g))
    BY FS_CardinalityType DEF BonusesInv, ReferralsFit
  <2>7. IsFiniteSet(Given(g)') /\ Cardinality(Given(g)') = n + 1
    BY <2>4, <2>6, FS_AddElement
  <2>8. ReferralsFit'
    BY <1>1, <2>5, <2>7 DEF BonusesInv, ReferralsFit
  <2>9. \A v \in rewarded' : referrer[v] # NoUser /\ rideCount[v] > 0
    BY <1>1, <1>3 DEF BonusesInv, BonusesMatch, ReferralsFit
  <2>10. logged[g].referral = (IF referrer[g] = NoUser THEN 0 ELSE SignupBonus) + RewardOf(g) * n
    BY <2>6 DEF BonusesInv, BonusesMatch
  <2>11. logged'[g].referral = (IF referrer[g] = NoUser THEN 0 ELSE SignupBonus) + RewardOf(g) * (n + 1)
    <3>1. CASE RewardOf(g) = 2
      BY <2>3, <2>10, <3>1 DEF SignupBonus
    <3>2. CASE RewardOf(g) = 6
      BY <2>3, <2>10, <3>2 DEF SignupBonus
    <3> QED
      BY <2>2, <3>1, <3>2
  <2>12. ASSUME NEW v \in Users
         PROVE  logged'[v].referral = (IF referrer[v] = NoUser THEN 0 ELSE SignupBonus)
                                         + RewardOf(v) * Cardinality(Given(v)')
    <3>1. CASE v = g
      BY <2>7, <2>11, <3>1
    <3>2. CASE v # g
      BY <2>3, <2>5, <3>2 DEF BonusesInv, BonusesMatch
    <3> QED
      BY <3>1, <3>2
  <2>13. BonusesMatch'
    BY <1>1, <2>9, <2>12 DEF BonusesInv, BonusesMatch
  <2> QED
    BY <2>8, <2>13
<1> QED
  BY <1>2, <1>3 DEF ApplyReferrerReward

LEMMA BonusesStep == BonusesInv /\ [ReferralNext]_referralVars => BonusesInv'
<1> SUFFICES ASSUME BonusesInv, [ReferralNext]_referralVars PROVE ReferralsFit' /\ BonusesMatch'
  BY ReferralTypeStep DEF BonusesInv
<1>1. ASSUME UNCHANGED <<referrer, rewarded, rideCount, logged>>, dueReward' \subseteq dueReward,
             \A a \in Applications : application'[a].user # NoUser =>
                 MayGive(application'[a].user, application'[a].giver)
      PROVE  ReferralsFit' /\ BonusesMatch'
  <2>1. BonusesMatch' /\ \A u \in Users : Given(u)' = Given(u)
    BY <1>1, BonusesStay
  <2> QED
    BY <1>1, <2>1 DEF BonusesInv, ReferralsFit
<1>2. \A a \in Applications : application[a].user # NoUser =>
          MayGive(application[a].user, application[a].giver)
  BY DEF BonusesInv, ReferralsFit
<1>3. ASSUME NEW u \in Users, GenerateReferralCode(u) \/ DayPasses(u) \/ LoseReward(u)
      PROVE  ReferralsFit' /\ BonusesMatch'
  <2>1. /\ UNCHANGED <<referrer, rewarded, rideCount, logged, application>>
        /\ dueReward' \subseteq dueReward
    BY <1>3 DEF GenerateReferralCode, DayPasses, LoseReward, walletVars, userVars
  <2> QED
    BY <1>1, <1>2, <2>1
<1>4. ASSUME NEW a \in Applications,
             (\E u, g \in Users : BeginReferral(a, u, g)) \/ AbandonReferral(a)
      PROVE  ReferralsFit' /\ BonusesMatch'
  <2>1. UNCHANGED <<referrer, rewarded, rideCount, logged, dueReward>>
    BY <1>4 DEF BeginReferral, AbandonReferral, walletVars, userVars
  <2>2. PICK q : /\ application' = [application EXCEPT ![a] = q]
                 /\ q.user # NoUser => MayGive(q.user, q.giver)
    <3>1. CASE AbandonReferral(a)
      BY <3>1, ApplicationSteps DEF AbandonReferral, BonusesInv
    <3>2. ASSUME NEW u \in Users, NEW g \in Users, BeginReferral(a, u, g)
          PROVE  \E q : /\ application' = [application EXCEPT ![a] = q]
                        /\ q.user # NoUser => MayGive(q.user, q.giver)
      <4>1. MayGive(u, g)
        BY <3>2, KindsMatch DEF BeginReferral
      <4> QED
        BY <3>2, <4>1, ApplicationSteps DEF BonusesInv
    <3> QED
      BY <1>4, <3>1, <3>2
  <2>3. \A b \in Applications : application'[b] = IF b = a THEN q ELSE application[b]
    BY <2>2 DEF BonusesInv, ReferralTypeOK
  <2> QED
    BY <1>1, <1>2, <2>1, <2>2, <2>3
<1>5. ASSUME NEW b \in Rides, (\E c \in Customers, d \in Drivers : BeginAccept(b, c, d)) \/ BeginFinish(b)
      PROVE  ReferralsFit' /\ BonusesMatch'
  <2>1. UNCHANGED <<referrer, rewarded, rideCount, logged, application, dueReward>>
    BY <1>5 DEF BeginAccept, BeginFinish, walletVars, userVars
  <2> QED
    BY <1>1, <1>2, <2>1
<1>6. ASSUME NEW b \in Rides, UseBalance(b) PROVE ReferralsFit' /\ BonusesMatch'
  <2>1. UNCHANGED <<referrer, rewarded, rideCount, application, dueReward>>
    BY <1>6 DEF UseBalance, userVars
  <2>2. \A u \in Users : logged'[u].referral = logged[u].referral
    <3>1. CASE UNCHANGED walletVars
      BY <3>1 DEF walletVars
    <3>2. CASE WriteBalance(ride[b].customer, b, -ride[b].seen)
      <4>1. ride[b].customer \in Users /\ -ride[b].seen \in Int
        BY <1>6 DEF UseBalance, BonusesInv, ReferralTypeOK, RideRow, Users
      <4> QED
        BY <3>2, <4>1, RideWrites DEF BonusesInv
    <3> QED
      BY <1>6, <3>1, <3>2 DEF UseBalance
  <2>3. BonusesMatch' /\ \A u \in Users : Given(u)' = Given(u)
    BY <2>1, <2>2, BonusesStay
  <2> QED
    BY <2>1, <2>3 DEF BonusesInv, ReferralsFit
<1>7. ASSUME NEW b \in Rides, CountRide(b) PROVE ReferralsFit' /\ BonusesMatch'
  <2>1. UNCHANGED <<referrer, rewarded, application>> /\ WriteBalance(ride[b].driver, b, Earnings)
    BY <1>7 DEF CountRide
  <2>2. ride[b].driver \in Users
    BY <1>7 DEF CountRide, BonusesInv, ReferralTypeOK, Users
  <2>3. \A u \in Users : logged'[u].referral = logged[u].referral
    BY <2>1, <2>2, RideWrites DEF BonusesInv, Earnings
  <2>4. /\ \A u \in Users : rideCount[u] > 0 => rideCount'[u] > 0
        /\ \A u \in dueReward' : rideCount'[u] > 0
    BY <1>7 DEF CountRide, FirstRide, BonusesInv, ReferralTypeOK, ReferralsFit
  <2>5. BonusesMatch' /\ \A u \in Users : Given(u)' = Given(u)
    BY <2>1, <2>3, <2>4, BonusesStay
  <2> QED
    BY <2>1, <2>4, <2>5 DEF BonusesInv, ReferralsFit
<1>8. CASE UNCHANGED referralVars
  <2>1. UNCHANGED <<referrer, rewarded, rideCount, logged, application, dueReward>>
    BY <1>8 DEF referralVars, userVars, walletVars
  <2> QED
    BY <1>1, <1>2, <2>1
<1> QED
  BY <1>3, <1>4, <1>5, <1>6, <1>7, <1>8, CodeIsApplied, RewardIsGiven DEF ReferralNext

\* However applications of one user, and rides, overlap, the bonus and the rewards a
\* user has are those of the referral rows, each given once and for a finished ride.
THEOREM RewardsAreOwed == ReferralSpec => []BonusesMatch
<1>1. BonusesInv => BonusesMatch
  BY DEF BonusesInv
<1> QED
  BY <1>1, ReferralStarts, BonusesStep, PTL DEF ReferralSpec
-----------------------------------------------------------------------------
(* Money: arithmetic.                                                      *)

\* Of two multiples of a positive number the larger has the larger factor.
LEMMA Cancels ==
    ASSUME NEW x \in Int, NEW y \in Int, NEW d \in Nat \ {0}
    PROVE  /\ x * d <= y * d => x <= y
           /\ x * d < y * d => x < y
OBVIOUS

LEMMA Divides ==
    ASSUME NEW n \in Nat, NEW d \in Nat \ {0}
    PROVE  /\ n \div d \in Nat
           /\ (n \div d) * d <= n /\ n < (n \div d + 1) * d
OBVIOUS

\* Truncation is towards zero and loses less than one.
LEMMA TruncatedBounds ==
    ASSUME NEW n \in Int, NEW d \in Nat \ {0}
    PROVE  LET q == Truncated(n, d) IN
           /\ q \in Int
           /\ n >= 0 => q >= 0 /\ q * d <= n /\ n < (q + 1) * d
           /\ n <= 0 => q <= 0 /\ n <= q * d /\ (q - 1) * d < n
<1> DEFINE q == Truncated(n, d)
<1>1. CASE n >= 0
  <2>1. q = n \div d
    BY <1>1 DEF Truncated
  <2>2. q \in Nat /\ q * d <= n /\ n < (q + 1) * d
    BY <1>1, <2>1, Divides
  <2>3. n = 0 => q = 0
    BY <2>2
  <2> HIDE DEF q
  <2>4. n <= 0 => n <= q * d /\ (q - 1) * d < n
    BY <1>1, <2>3
  <2> QED
    BY <1>1, <2>2, <2>3, <2>4 DEF q
<1>2. CASE n < 0
  <2>1. PICK m \in Nat : m = -n
    BY <1>2
  <2>2. PICK k \in Nat : k = m \div d /\ k * d <= m /\ m < (k + 1) * d
    BY <2>1, Divides
  <2>3. q = -k
    BY <1>2, <2>1, <2>2 DEF Truncated
  <2>4. (-k) * d = -(k * d) /\ ((-k) - 1) * d = -((k + 1) * d)
    BY <2>2
  <2> QED
    BY <1>2, <2>1, <2>2, <2>3, <2>4
<1> QED
  BY <1>1, <1>2

\* What wallet and gateway return of a price when a charge is kept is together the
\* rest, or a paisa less; and the gateway returns no more than it was paid.
LEMMA PartsAddUp ==
    ASSUME NEW applied \in Int, NEW final \in Nat, NEW total \in Nat \ {0}, NEW charge \in Nat,
           applied + final = total, charge <= total,
           NEW p, p = Truncated(applied * total - charge * applied, total),
           NEW q, q = Truncated(final * total - charge * final, total)
    PROVE  /\ p \in Int /\ q \in Int
           /\ p + q <= total - charge /\ total - charge <= p + q + 1
           /\ q <= final
<1>1. PICK k \in Nat : k = total - charge
  OBVIOUS
<1>2. /\ applied * total - charge * applied = applied * k
      /\ final * total - charge * final = final * k
  BY <1>1
<1>3. PICK m \in Int, n \in Nat : m = applied * k /\ n = final * k /\ m + n = k * total
  <2>1. applied * k + final * k = (applied + final) * k
    BY <1>1
  <2>2. (applied + final) * k = k * total
    BY <1>1
  <2>3. applied * k \in Int /\ final * k \in Nat
    BY <1>1
  <2> QED
    BY <2>1, <2>2, <2>3
<1>4. p = Truncated(m, total) /\ q = Truncated(n, total)
  BY <1>2, <1>3
<1>5. /\ p \in Int /\ q \in Int
      /\ q * total <= n /\ n < (q + 1) * total
  BY <1>3, <1>4, TruncatedBounds
<1>6. q <= final
  <2>1. n <= final * total
    BY <1>1, <1>3
  <2>2. q * total <= final * total
    <3>1. q * total \in Int /\ final * total \in Int
      BY <1>5
    <3> QED
      BY <1>3, <1>5, <2>1, <3>1
  <2> QED
    BY <1>5, <2>2, Cancels
<1>7. CASE applied >= 0
  <2>1. m >= 0
    BY <1>1, <1>3, <1>7
  <2>2. p * total <= m /\ m < (p + 1) * total
    BY <1>3, <1>4, <2>1, TruncatedBounds
  <2>3. (p + q) * total <= k * total /\ k * total < (p + q + 2) * total
    <3>1. (p + q) * total = p * total + q * total
      BY <1>5
    <3>2. (p + q + 2) * total = (p + 1) * total + (q + 1) * total
      BY <1>5
    <3>3. p * total \in Int /\ q * total \in Int /\ (p + 1) * total \in Int /\ (q + 1) * total \in Int
      BY <1>5
    <3> QED
      BY <1>3, <1>5, <2>2, <3>1, <3>2, <3>3
  <2>4. p + q <= k /\ k < p + q + 2
    BY <1>1, <1>5, <2>3, Cancels
  <2> QED
    BY <1>1, <1>5, <1>6, <2>4
<1>8. CASE applied < 0
  <2>1. m <= 0
    BY <1>1, <1>3, <1>8
  <2>2. m <= p * total /\ (p - 1) * total < m
    BY <1>3, <1>4, <2>1, TruncatedBounds
  <2>3. (p + q - 1) * total < k * total /\ k * total < (p + q + 1) * total
    <3>1. (p + q - 1) * total = (p - 1) * total + q * total
      BY <1>5
    <3>2. (p + q + 1) * total = p * total + (q + 1) * total
      BY <1>5
    <3>3. p * total \in Int /\ q * total \in Int /\ (p - 1) * total \in Int /\ (q + 1) * total \in Int
      BY <1>5
    <3> QED
      BY <1>3, <1>5, <2>2, <3>1, <3>2, <3>3
  <2>4. p + q - 1 < k /\ k < p + q + 1
    BY <1>1, <1>5, <2>3, Cancels
  <2> QED
    BY <1>1, <1>5, <1>6, <2>4
<1> QED
  BY <1>7, <1>8

\* Of a manual refund the gateway returns no more than it was paid either.
LEMMA ShareIsPaid ==
    ASSUME NEW applied \in Int, NEW total \in Nat \ {0}, NEW r \in Nat,
           applied <= total, r <= total,
           NEW part, part = Truncated(r * applied, total)
    PROVE  part \in Int /\ r - part <= total - applied
<1>1. PICK n \in Int : n = r * applied
  OBVIOUS
<1>2. PICK s \in Int : s = r - total + applied
  OBVIOUS
<1>3. s * total <= n
  <2>1. PICK x \in Nat, y \in Nat : x = total - r /\ y = total - applied
    OBVIOUS
  <2>2. x * y \in Nat
    BY <2>1
  <2>3. n - s * total = x * y
    BY <1>1, <1>2, <2>1
  <2>4. s * total \in Int
    BY <1>2
  <2> QED
    BY <1>1, <2>2, <2>3, <2>4
<1>4. part \in Int
  BY <1>1, TruncatedBounds
<1>5. s < part + 1
  <2>1. n < (part + 1) * total
    <3>1. CASE n >= 0
      BY <1>1, <3>1, TruncatedBounds
    <3>2. CASE n <= 0
      <4>1. n <= part * total
        BY <1>1, <3>2, TruncatedBounds
      <4>2. (part + 1) * total = part * total + total /\ part * total \in Int
        BY <1>4
      <4> QED
        BY <1>1, <4>1, <4>2
    <3> QED
      BY <1>1, <3>1, <3>2
  <2>2. s * total < (part + 1) * total
    <3>1. s * total \in Int /\ (part + 1) * total \in Int
      BY <1>2, <1>4
    <3> QED
      BY <1>1, <1>3, <2>1, <3>1
  <2> QED
    BY <1>2, <1>4, <2>2, Cancels
<1> QED
  BY <1>2, <1>4, <1>5

\* No ride is cheaper than its model's fare.
LEMMA PriceCoversFare ==
    ASSUME NEW v \in Vehicles, NEW j \in Jobs
    PROVE  Price(v, j) \in Nat /\ v.base \in Nat \ {0} /\ v.base <= Price(v, j)
<1>1. /\ v.base \in Nat \ {0} /\ v.perKm \in Nat /\ v.baseM \in Nat
      /\ j.metres \in Nat /\ j.kg \in Nat
  BY VehiclesAssumption, JobsAssumption
<1>2. PICK extra \in Nat : extra = Larger(j.metres - v.baseM, 0) * v.perKm
  <2>1. Larger(j.metres - v.baseM, 0) \in Nat
    BY <1>1 DEF Larger
  <2> QED
    BY <1>1, <2>1
<1>3. PICK base \in Nat : base = v.base * Larger(1000, j.kg) /\ base >= v.base * 1000
  <2>1. PICK w \in Nat : w = Larger(1000, j.kg) /\ w >= 1000
    BY <1>1 DEF Larger
  <2>2. v.base * w \in Nat /\ v.base * w >= v.base * 1000
    BY <1>1, <2>1
  <2> QED
    BY <2>1, <2>2
<1>4. Price(v, j) = (2 * (extra + base) + 1000) \div 2000
  BY <1>2, <1>3 DEF Price
<1> QED
  BY <1>1, <1>2, <1>3, <1>4
\* A price that the wallet has borne in part: never more than the price, and what
\* is left is no less for a dearer ride.
LEMMA WalletBears ==
    ASSUME NEW w \in Int, NEW t \in Nat
    PROVE  /\ Applied(w, t) \in Int /\ Applied(w, t) <= t
           /\ \A s \in Nat : s <= t => s - Applied(w, s) <= t - Applied(w, t)
BY DEF Applied, Smaller

LEMMA ChargeIsBounded ==
    ASSUME NEW minutes \in Nat, bill.base \in Nat \ {0}
    PROVE  CancellationCharge(minutes) \in 1..bill.base
<1> DEFINE p == ChargePercent(minutes)
<1>1. p \in Nat /\ p >= 20
  BY DEF ChargePercent, MinChargePercent, MaxChargePercent, PercentPerMinute, Larger, Smaller
<1> HIDE DEF p
<1>2. (CancellationBase * p) \div 100 + HalfFee \in Nat \ {0}
  BY <1>1 DEF CancellationBase, HalfFee, PlatformFee
<1> QED
  BY <1>2 DEF CancellationCharge, Smaller, p

LEMMA CompensationIsKept ==
    ASSUME NEW charge \in Nat
    PROVE  Compensation(charge) \in Nat /\ Compensation(charge) <= charge
BY DEF Compensation, Larger, HalfFee, PlatformFee

LEMMA FeeIsFlat == ASSUME NEW j PROVE Fee(j) \in Nat
BY DEF Fee, PlatformFee

MoneyTypeOK ==
    /\ stage \in {"new", "placed", "accepted", "paid", "finished", "cancelled", "asked", "closed"}
    /\ job \in Jobs
    /\ before \in Int /\ wallet \in Int /\ estimate \in Int
    /\ earned \in Int /\ online \in Int /\ cash \in Int
    /\ bill \in [base : Nat, fee : Nat, total : Nat, applied : Int, final : Int,
                 method : {"NONE", "ONLINE", "CASH"}]
    /\ refund \in [wallet : Int, online : Int, charge : Nat, paid : BOOLEAN]

\* The estimate was for the cheapest vehicle, of the wallet as it was then.
Estimated ==
    \E v \in Ideal(job) :
       estimate = (Price(v, job) + Fee(job)) - Applied(before, Price(v, job) + Fee(job))

\* A bill is of a price that covers the fare; what the wallet does not bear is left.
BillFits ==
    /\ bill.base \in Nat \ {0} /\ bill.base <= bill.total
    /\ bill.applied <= bill.total /\ bill.final = bill.total - bill.applied
    /\ estimate <= bill.final

WalletHasPaid == before - wallet = bill.applied

\* The rest has been paid in the way the bill says, or there was none.
RestIsPaid ==
    /\ online = IF bill.method = "ONLINE" THEN bill.final ELSE 0
    /\ cash = IF bill.method = "CASH" THEN bill.final ELSE 0
    /\ bill.method = "NONE" => bill.final = 0

NothingPaid == online = 0 /\ cash = 0 /\ earned = 0

\* A cancellation keeps a charge within the fare, and returns the rest of what was
\* paid, or a paisa less; of a bill that was not paid it returns the wallet's part.
CancellationFits ==
    /\ refund.charge \in 1..bill.base
    /\ WalletHasPaid /\ cash = 0 /\ earned = 0
    /\ refund.paid =>
          /\ online = bill.final /\ refund.online <= bill.final
          /\ bill.total - refund.charge - refund.wallet - refund.online \in 0..1
    /\ ~refund.paid => online = 0 /\ refund.online = 0 /\ refund.wallet = bill.applied

StageFits ==
    /\ stage = "new" => bill = NoBill /\ refund = NoRefund /\ NothingPaid /\ wallet = before
    /\ stage = "placed" => bill = NoBill /\ refund = NoRefund /\ NothingPaid /\ wallet = before /\ Estimated
    /\ stage \notin {"new", "placed"} => BillFits
    /\ stage = "accepted" => bill.method = "NONE" /\ WalletHasPaid /\ NothingPaid
    /\ stage = "paid" => WalletHasPaid /\ RestIsPaid /\ earned = 0
    /\ stage = "finished" => WalletHasPaid /\ RestIsPaid /\ bill.method # "NONE" /\ earned = WalletChange
    /\ stage = "cancelled" => CancellationFits
    /\ stage = "asked" =>
          /\ refund.charge = 0
          /\ online >= 0 /\ (bill.method = "ONLINE" => refund.online <= online)
    /\ stage = "closed" => online >= 0
    /\ Cancelled => Outlay - refund.charge \in 0..1 /\ earned <= Outlay

MoneyInv == MoneyTypeOK /\ StageFits
LEMMA MoneyStarts == MoneyInit => MoneyInv
BY AmountsAssumption
   DEF MoneyInit, MoneyInv, MoneyTypeOK, StageFits, NothingPaid, NoBill, NoRefund, Cancelled

\* The stages that a step does not reach ask nothing of it.
LEMMA EstimateFits == MoneyInv /\ CreateEstimateInvoice => MoneyInv'
<1> SUFFICES ASSUME MoneyInv, CreateEstimateInvoice PROVE MoneyInv'
  OBVIOUS
<1>1. PICK v \in Ideal(job) :
         estimate' = (Price(v, job) + Fee(job)) - Applied(wallet, Price(v, job) + Fee(job))
  BY DEF CreateEstimateInvoice
<1> USE DEF MoneyInv, MoneyTypeOK, StageFits, NothingPaid
<1>2. /\ stage = "new" /\ stage' = "placed"
      /\ UNCHANGED <<job, bill, before, wallet, earned, online, cash, refund>>
  BY DEF CreateEstimateInvoice
<1>3. estimate' \in Int
  <2>1. v \in Vehicles
    BY DEF Ideal, Suitable
  <2>2. Price(v, job) + Fee(job) \in Nat
    BY <2>1, PriceCoversFare, FeeIsFlat
  <2>3. Applied(wallet, Price(v, job) + Fee(job)) \in Int
    BY <2>2, WalletBears
  <2> QED
    BY <1>1, <2>2, <2>3
<1>4. Estimated'
  <2>1. wallet = before
    BY <1>2
  <2> QED
    BY <1>1, <1>2, <2>1 DEF Estimated, Ideal, Suitable
<1>5. ~Cancelled'
  BY <1>2 DEF Cancelled
<1> QED
  BY <1>2, <1>3, <1>4, <1>5

LEMMA AcceptanceFits == \A v \in Vehicles : MoneyInv /\ CreateFinalInvoice(v) => MoneyInv'
<1> SUFFICES ASSUME NEW v \in Vehicles, MoneyInv, CreateFinalInvoice(v) PROVE MoneyInv'
  OBVIOUS
<1> DEFINE t == Price(v, job) + Fee(job)
           a == Applied(wallet, t)
<1>1. /\ stage = "placed" /\ v \in Suitable(job)
      /\ bill' = [base |-> v.base, fee |-> Fee(job), total |-> t,
                  applied |-> a, final |-> t - a, method |-> "NONE"]
      /\ wallet' = wallet - a
      /\ stage' = IF bill'.final <= 0 THEN "paid" ELSE "accepted"
      /\ UNCHANGED <<job, estimate, before, earned, online, cash, refund>>
  BY DEF CreateFinalInvoice
<1>2. MoneyTypeOK /\ NothingPaid /\ wallet = before /\ Estimated
  BY <1>1 DEF MoneyInv, StageFits
<1>3. v.base \in Nat \ {0} /\ Fee(job) \in Nat /\ t \in Nat /\ v.base <= t
  BY <1>2, PriceCoversFare, FeeIsFlat DEF MoneyTypeOK
<1>4. a \in Int /\ a <= t
  BY <1>2, <1>3, WalletBears DEF MoneyTypeOK
<1>5. estimate <= t - a
  <2>1. PICK w \in Ideal(job) :
           estimate = (Price(w, job) + Fee(job)) - Applied(before, Price(w, job) + Fee(job))
    BY <1>2 DEF Estimated
  <2>2. w \in Vehicles /\ Price(w, job) <= Price(v, job)
    BY <1>1 DEF Ideal, Suitable
  <2>3. /\ Price(w, job) \in Nat /\ Price(v, job) \in Nat
        /\ Price(w, job) + Fee(job) \in Nat /\ Price(w, job) + Fee(job) <= t
    BY <1>2, <1>3, <2>2, PriceCoversFare DEF MoneyTypeOK
  <2>4. before \in Int
    BY <1>2 DEF MoneyTypeOK
  <2>5. PICK s \in Nat : s = Price(w, job) + Fee(job)
    BY <2>3
  <2>6. s <= t
    BY <2>3, <2>5
  <2> HIDE DEF t
  <2>7. s - Applied(before, s) <= t - Applied(before, t)
    BY <1>3, <2>4, <2>5, <2>6, WalletBears
  <2>8. estimate = s - Applied(before, s)
    BY <2>1, <2>5
  <2> QED
    BY <1>2, <2>7, <2>8
<1> HIDE DEF t, a
<1>6. /\ bill'.base = v.base /\ bill'.fee = Fee(job) /\ bill'.total = t
      /\ bill'.applied = a /\ bill'.final = t - a /\ bill'.method = "NONE"
  BY <1>1
<1>7. MoneyTypeOK'
  <2>1. bill' \in [base : Nat, fee : Nat, total : Nat, applied : Int, final : Int,
                   method : {"NONE", "ONLINE", "CASH"}]
    BY <1>1, <1>3, <1>4
  <2> QED
    BY <1>1, <1>2, <1>4, <2>1 DEF MoneyTypeOK
<1>8. BillFits'
  BY <1>1, <1>3, <1>4, <1>5, <1>6 DEF BillFits
<1>9. WalletHasPaid'
  BY <1>1, <1>2, <1>4, <1>6 DEF WalletHasPaid, MoneyTypeOK
<1>10. NothingPaid'
  BY <1>1, <1>2 DEF NothingPaid
<1>11. stage' = "paid" => RestIsPaid'
  BY <1>1, <1>3, <1>4, <1>6, <1>10 DEF RestIsPaid, NothingPaid
<1>12. ~Cancelled' /\ stage' \in {"paid", "accepted"}
  BY <1>1 DEF Cancelled
<1>13. earned' = 0
  BY <1>10 DEF NothingPaid
<1> QED
  BY <1>6, <1>7, <1>8, <1>9, <1>10, <1>11, <1>12, <1>13 DEF MoneyInv, StageFits

\* What a step that leaves the price alone keeps of the bill.
LEMMA BillStays ==
    ASSUME BillFits, bill'.base = bill.base, bill'.total = bill.total, bill'.applied = bill.applied,
           bill'.final = bill.final, estimate' = estimate, before' = before
    PROVE  BillFits' /\ (WalletHasPaid /\ wallet' = wallet => WalletHasPaid')
BY DEF BillFits, WalletHasPaid

LEMMA PaymentFits == MoneyInv /\ (PaySuccess \/ ProcessCashPayment) => MoneyInv'
<1> SUFFICES ASSUME MoneyInv, PaySuccess \/ ProcessCashPayment PROVE MoneyInv'
  OBVIOUS
<1>1. /\ stage = "accepted" /\ stage' = "paid"
      /\ UNCHANGED <<job, estimate, before, wallet, earned, refund>>
  BY DEF PaySuccess, ProcessCashPayment
<1>2. MoneyTypeOK /\ BillFits /\ WalletHasPaid /\ NothingPaid
  BY <1>1 DEF MoneyInv, StageFits
<1>3. PICK m \in {"ONLINE", "CASH"} :
         /\ bill' = [bill EXCEPT !.method = m]
         /\ online' = IF m = "ONLINE" THEN bill.final ELSE 0
         /\ cash' = IF m = "CASH" THEN bill.final ELSE 0
  BY <1>2 DEF PaySuccess, ProcessCashPayment, NothingPaid, MoneyTypeOK
<1>4. /\ bill' \in [base : Nat, fee : Nat, total : Nat, applied : Int, final : Int,
                    method : {"NONE", "ONLINE", "CASH"}]
      /\ bill'.base = bill.base /\ bill'.total = bill.total /\ bill'.applied = bill.applied
      /\ bill'.final = bill.final /\ bill'.method = m
  BY <1>2, <1>3 DEF MoneyTypeOK
<1>5. MoneyTypeOK'
  BY <1>1, <1>2, <1>3, <1>4 DEF MoneyTypeOK
<1>6. BillFits' /\ WalletHasPaid'
  BY <1>1, <1>2, <1>4, BillStays
<1>7. RestIsPaid'
  BY <1>3, <1>4 DEF RestIsPaid
<1>8. earned' = 0 /\ ~Cancelled'
  BY <1>1, <1>2 DEF NothingPaid, Cancelled
<1> QED
  BY <1>1, <1>5, <1>6, <1>7, <1>8 DEF MoneyInv, StageFits
LEMMA CommissionIsWhole ==
    ASSUME bill.total \in Nat, bill.fee \in Nat
    PROVE  Commission \in Int
<1>1. PICK n \in Int : n = (bill.total - bill.fee) * CommissionPercent
  BY DEF CommissionPercent
<1>2. Commission = Truncated(n, 100)
  BY <1>1 DEF Commission
<1> QED
  BY <1>2, TruncatedBounds

LEMMA SettlementFits == MoneyInv /\ SettleRide => MoneyInv'
<1> SUFFICES ASSUME MoneyInv, SettleRide PROVE MoneyInv'
  OBVIOUS
<1>1. /\ stage = "paid" /\ stage' = "finished" /\ bill.method # "NONE"
      /\ earned' = earned + WalletChange
      /\ UNCHANGED <<job, estimate, bill, before, wallet, online, cash, refund>>
  BY DEF SettleRide
<1>2. MoneyTypeOK /\ BillFits /\ WalletHasPaid /\ RestIsPaid /\ earned = 0
  BY <1>1 DEF MoneyInv, StageFits
<1>3. WalletChange \in Int
  <2>1. bill.total \in Nat /\ bill.fee \in Nat /\ bill.applied \in Int
    BY <1>2 DEF MoneyTypeOK
  <2>2. Commission \in Int
    BY <2>1, CommissionIsWhole
  <2> QED
    BY <2>1, <2>2 DEF WalletChange
<1>4. MoneyTypeOK'
  BY <1>1, <1>2, <1>3 DEF MoneyTypeOK
<1>5. BillFits' /\ WalletHasPaid' /\ RestIsPaid'
  BY <1>1, <1>2 DEF BillFits, WalletHasPaid, RestIsPaid
<1>6. earned' = WalletChange'
  BY <1>1, <1>2, <1>3 DEF WalletChange, Commission
<1>7. ~Cancelled'
  BY <1>1 DEF Cancelled
<1> QED
  BY <1>1, <1>4, <1>5, <1>6, <1>7 DEF MoneyInv, StageFits

\* What a cancellation decides to give back, and when nothing is left to be done.
LEMMA CancellationSplits ==
    \A t \in Waits : MoneyInv /\ CancelRide(t) => MoneyTypeOK' /\ BillFits' /\ CancellationFits'
<1> SUFFICES ASSUME NEW t \in Waits, MoneyInv, CancelRide(t)
             PROVE  MoneyTypeOK' /\ BillFits' /\ CancellationFits'
  OBVIOUS
<1> DEFINE charge == CancellationCharge(t)
<1>1. /\ stage \in {"accepted", "paid"} /\ bill.method # "CASH"
      /\ stage' \in {"cancelled", "closed"}
      /\ UNCHANGED <<job, estimate, bill, before, wallet, earned, online, cash>>
      /\ stage = "paid" =>
            refund' = [wallet |-> PartLess(bill.applied, charge),
                       online |-> PartLess(bill.final, charge), charge |-> charge, paid |-> TRUE]
      /\ stage = "accepted" =>
            refund' = [wallet |-> bill.applied, online |-> 0, charge |-> charge, paid |-> FALSE]
  BY DEF CancelRide
<1>2. MoneyTypeOK /\ BillFits /\ WalletHasPaid
  BY <1>1 DEF MoneyInv, StageFits
<1>3. /\ charge \in 1..bill.base /\ charge \in Nat /\ charge <= bill.total
      /\ bill.base \in Nat /\ bill.total \in Nat \ {0} /\ bill.applied \in Int /\ bill.final \in Nat
      /\ bill.applied + bill.final = bill.total
  <2>1. t \in Nat
    BY AmountsAssumption
  <2>2. bill.base \in Nat \ {0} /\ bill.total \in Nat /\ bill.applied \in Int /\ bill.final \in Int
    BY <1>2 DEF MoneyTypeOK, BillFits
  <2>3. charge \in 1..bill.base
    BY <2>1, <2>2, ChargeIsBounded
  <2> HIDE DEF charge
  <2> QED
    BY <1>2, <2>2, <2>3 DEF BillFits
<1> HIDE DEF charge
<1>4. BillFits' /\ WalletHasPaid'
  BY <1>1, <1>2 DEF BillFits, WalletHasPaid
<1>5. CASE stage = "paid"
  <2>1. PICK p, q : p = PartLess(bill.applied, charge) /\ q = PartLess(bill.final, charge)
    OBVIOUS
  <2>2. /\ p \in Int /\ q \in Int /\ q <= bill.final
        /\ p + q <= bill.total - charge /\ bill.total - charge <= p + q + 1
    <3>1. /\ p = Truncated(bill.applied * bill.total - charge * bill.applied, bill.total)
          /\ q = Truncated(bill.final * bill.total - charge * bill.final, bill.total)
      BY <2>1 DEF PartLess
    <3> QED
      BY <1>3, <3>1, PartsAddUp
  <2>3. refund' = [wallet |-> p, online |-> q, charge |-> charge, paid |-> TRUE]
    BY <1>1, <1>5, <2>1
  <2>4. RestIsPaid /\ earned = 0
    BY <1>5 DEF MoneyInv, StageFits
  <2>5. online = bill.final /\ cash = 0
    BY <1>1, <1>2, <2>4 DEF RestIsPaid, MoneyTypeOK
  <2>6. refund' \in [wallet : Int, online : Int, charge : Nat, paid : BOOLEAN]
    BY <1>3, <2>2, <2>3
  <2>7. MoneyTypeOK'
    BY <1>1, <1>2, <2>6 DEF MoneyTypeOK
  <2>8. bill.total - charge - p - q \in 0..1
    BY <1>3, <2>2
  <2>9. /\ refund'.charge = charge /\ refund'.paid = TRUE
        /\ refund'.wallet = p /\ refund'.online = q
    BY <2>3
  <2>10. CancellationFits'
    BY <1>1, <1>3, <1>4, <2>2, <2>4, <2>5, <2>8, <2>9 DEF CancellationFits
  <2> QED
    BY <1>4, <2>7, <2>10
<1>6. CASE stage = "accepted"
  <2>1. refund' = [wallet |-> bill.applied, online |-> 0, charge |-> charge, paid |-> FALSE]
    BY <1>1, <1>6
  <2>2. NothingPaid
    BY <1>6 DEF MoneyInv, StageFits
  <2>3. refund' \in [wallet : Int, online : Int, charge : Nat, paid : BOOLEAN]
    BY <1>3, <2>1
  <2>4. MoneyTypeOK'
    BY <1>1, <1>2, <2>3 DEF MoneyTypeOK
  <2>5. /\ refund'.charge = charge /\ refund'.paid = FALSE
        /\ refund'.wallet = bill.applied /\ refund'.online = 0
    BY <2>1
  <2>6. CancellationFits'
    BY <1>1, <1>3, <1>4, <2>2, <2>5 DEF CancellationFits, NothingPaid
  <2> QED
    BY <1>4, <2>4, <2>6
<1> QED
  BY <1>1, <1>5, <1>6

LEMMA CancelFits == \A t \in Waits : MoneyInv /\ CancelRide(t) => MoneyInv'
<1> SUFFICES ASSUME NEW t \in Waits, MoneyInv, CancelRide(t) PROVE MoneyInv'
  OBVIOUS
<1>1. MoneyTypeOK' /\ BillFits' /\ CancellationFits'
  BY CancellationSplits
<1>2. stage' = IF HasPendingAction(refund') THEN "cancelled" ELSE "closed"
  BY DEF CancelRide
<1>3. stage' = "closed" => /\ online' >= 0
                           /\ Outlay' - refund'.charge \in 0..1 /\ earned' <= Outlay'
  <2> SUFFICES ASSUME stage' = "closed"
               PROVE  online' >= 0 /\ Outlay' - refund'.charge \in 0..1 /\ earned' <= Outlay'
    OBVIOUS
  <2>1. ~HasPendingAction(refund')
    BY <1>2
  <2>2. /\ bill'.total \in Nat /\ bill'.applied \in Int /\ bill'.final \in Int
        /\ refund'.wallet \in Int /\ refund'.online \in Int /\ refund'.charge \in Nat
        /\ refund'.charge > 0 /\ refund'.charge <= bill'.base /\ bill'.base \in Nat
    BY <1>1 DEF MoneyTypeOK, CancellationFits
  <2>3. refund'.paid /\ refund'.wallet <= 0 /\ refund'.online <= 0
    BY <2>1, <2>2 DEF HasPendingAction
  <2>4. /\ before' \in Int /\ wallet' \in Int /\ before' - wallet' = bill'.applied
        /\ online' = bill'.final /\ cash' = 0 /\ earned' = 0
        /\ bill'.total - refund'.charge - refund'.wallet - refund'.online \in 0..1
    BY <1>1, <2>3 DEF MoneyTypeOK, CancellationFits, WalletHasPaid
  <2>5. bill'.final = bill'.total - bill'.applied /\ bill'.base <= bill'.total /\ bill'.applied <= bill'.total
    BY <1>1 DEF BillFits
  <2>6. Outlay' = bill'.total
    BY <2>2, <2>4, <2>5 DEF Outlay
  <2>7. bill'.total - refund'.charge \in 0..1
    BY <2>2, <2>3, <2>4, <2>5
  <2>8. online' >= 0
    BY <2>2, <2>4, <2>5
  <2> QED
    BY <2>2, <2>4, <2>5, <2>6, <2>7, <2>8
<1>4. Cancelled' => stage' = "closed"
  BY DEF Cancelled
<1>5. stage' \in {"cancelled", "closed"}
  BY <1>2
<1> QED
  BY <1>1, <1>3, <1>4, <1>5 DEF MoneyInv, StageFits

LEMMA ReturnFits == MoneyInv /\ ProcessCancellation => MoneyInv'
<1> SUFFICES ASSUME MoneyInv, ProcessCancellation PROVE MoneyInv'
  OBVIOUS
<1>1. /\ stage = "cancelled" /\ stage' = "closed"
      /\ wallet' = wallet + refund.wallet - (IF refund.paid THEN 0 ELSE refund.charge)
      /\ online' = online - refund.online
      /\ earned' = earned + Compensation(refund.charge)
      /\ UNCHANGED <<job, estimate, bill, before, cash, refund>>
  BY DEF ProcessCancellation
<1>2. MoneyTypeOK /\ BillFits /\ CancellationFits
  BY <1>1 DEF MoneyInv, StageFits
<1>3. /\ bill.total \in Nat /\ bill.applied \in Int /\ bill.final \in Int
      /\ refund.wallet \in Int /\ refund.online \in Int /\ refund.charge \in Nat
      /\ before \in Int /\ wallet \in Int /\ refund.paid \in BOOLEAN
      /\ online \in Int /\ earned = 0 /\ cash = 0
      /\ before - wallet = bill.applied
      /\ bill.final = bill.total - bill.applied
  BY <1>2 DEF MoneyTypeOK, CancellationFits, WalletHasPaid, BillFits
<1>4. PICK c \in Nat : c = Compensation(refund.charge) /\ c <= refund.charge
  BY <1>3, CompensationIsKept
<1>5. wallet' \in Int /\ online' \in Int /\ earned' = c
  BY <1>1, <1>3, <1>4
<1>6. MoneyTypeOK'
  BY <1>1, <1>2, <1>4, <1>5 DEF MoneyTypeOK
<1>7. BillFits'
  BY <1>1, <1>2 DEF BillFits
<1>8. online' >= 0 /\ Outlay' - refund.charge \in 0..1
  <2>1. CASE refund.paid
    <3>1. /\ online = bill.final /\ refund.online <= bill.final
          /\ bill.total - refund.charge - refund.wallet - refund.online \in 0..1
      BY <1>2, <2>1 DEF CancellationFits
    <3>2. Outlay' = bill.total - refund.wallet - refund.online
      BY <1>1, <1>3, <2>1, <3>1 DEF Outlay
    <3> QED
      BY <1>1, <1>3, <3>1, <3>2
  <2>2. CASE ~refund.paid
    <3>1. online = 0 /\ refund.online = 0 /\ refund.wallet = bill.applied
      BY <1>2, <2>2 DEF CancellationFits
    <3>2. Outlay' = refund.charge
      BY <1>1, <1>3, <2>2, <3>1 DEF Outlay
    <3> QED
      BY <1>1, <1>3, <3>1, <3>2
  <2> QED
    BY <2>1, <2>2
<1>9. earned' <= Outlay'
  <2>1. Outlay' \in Int
    BY <1>1, <1>3, <1>5 DEF Outlay
  <2> QED
    BY <1>3, <1>4, <1>5, <1>8, <2>1
<1> QED
  BY <1>1, <1>6, <1>7, <1>8, <1>9 DEF MoneyInv, StageFits

LEMMA RequestFits == \A r \in Requests : MoneyInv /\ FinalizeRefund(r) => MoneyInv'
<1> SUFFICES ASSUME NEW r \in Requests, MoneyInv, FinalizeRefund(r) PROVE MoneyInv'
  OBVIOUS
<1> DEFINE part == Truncated(r * bill.applied, bill.total)
<1>1. /\ stage \in {"paid", "finished"} /\ stage' = "asked" /\ r <= bill.total
      /\ refund' = [wallet |-> part, online |-> r - part, charge |-> 0, paid |-> TRUE]
      /\ UNCHANGED <<job, estimate, bill, before, wallet, earned, online, cash>>
  BY DEF FinalizeRefund
<1>2. MoneyTypeOK /\ BillFits /\ RestIsPaid
  BY <1>1 DEF MoneyInv, StageFits
<1>3. /\ r \in Nat /\ bill.total \in Nat \ {0} /\ bill.applied \in Int /\ bill.final \in Int
      /\ bill.applied <= bill.total /\ bill.final = bill.total - bill.applied
  BY <1>2, AmountsAssumption DEF MoneyTypeOK, BillFits
<1>4. part \in Int /\ r - part <= bill.final
  BY <1>1, <1>3, ShareIsPaid
<1> HIDE DEF part
<1>5. refund' \in [wallet : Int, online : Int, charge : Nat, paid : BOOLEAN]
  BY <1>1, <1>3, <1>4
<1>6. MoneyTypeOK'
  BY <1>1, <1>2, <1>5 DEF MoneyTypeOK
<1>7. BillFits'
  BY <1>1, <1>2 DEF BillFits
<1>8. refund'.charge = 0 /\ refund'.online = r - part
  BY <1>1
<1>9. online' >= 0 /\ (bill'.method = "ONLINE" => refund'.online <= online')
  BY <1>1, <1>2, <1>3, <1>4, <1>8 DEF RestIsPaid
<1>10. ~Cancelled'
  BY <1>1 DEF Cancelled
<1> QED
  BY <1>1, <1>6, <1>7, <1>8, <1>9, <1>10 DEF MoneyInv, StageFits

LEMMA RefundFits == MoneyInv /\ ProcessManualRefund => MoneyInv'
<1> SUFFICES ASSUME MoneyInv, ProcessManualRefund PROVE MoneyInv'
  OBVIOUS
<1>1. /\ stage = "asked" /\ stage' = "closed"
      /\ wallet' = wallet + refund.wallet
      /\ online' = online - (IF bill.method = "ONLINE" THEN refund.online ELSE 0)
      /\ UNCHANGED <<job, estimate, bill, before, earned, cash, refund>>
  BY DEF ProcessManualRefund
<1>2. /\ MoneyTypeOK /\ BillFits /\ refund.charge = 0
      /\ online >= 0 /\ (bill.method = "ONLINE" => refund.online <= online)
  BY <1>1 DEF MoneyInv, StageFits
<1>3. /\ refund.wallet \in Int /\ refund.online \in Int /\ wallet \in Int /\ online \in Int
      /\ bill.method \in {"NONE", "ONLINE", "CASH"}
  BY <1>2 DEF MoneyTypeOK
<1>4. wallet' \in Int /\ online' \in Int /\ online' >= 0
  BY <1>1, <1>2, <1>3
<1>5. MoneyTypeOK'
  BY <1>1, <1>2, <1>4 DEF MoneyTypeOK
<1>6. BillFits'
  BY <1>1, <1>2 DEF BillFits
<1>7. ~Cancelled'
  BY <1>1, <1>2 DEF Cancelled
<1> QED
  BY <1>1, <1>4, <1>5, <1>6, <1>7 DEF MoneyInv, StageFits

LEMMA MoneyStep == MoneyInv /\ [MoneyNext]_moneyVars => MoneyInv'
<1> SUFFICES ASSUME MoneyInv, [MoneyNext]_moneyVars PROVE MoneyInv'
  OBVIOUS
<1>1. CASE UNCHANGED moneyVars
  BY <1>1 DEF MoneyInv, MoneyTypeOK, StageFits, NothingPaid, Estimated, Ideal, Suitable, BillFits,
     WalletHasPaid, RestIsPaid, CancellationFits, WalletChange, Commission, Cancelled, Outlay, moneyVars
<1>2. CASE MoneyNext
  BY <1>2, EstimateFits, AcceptanceFits, PaymentFits, SettlementFits, CancelFits, ReturnFits,
     RequestFits, RefundFits DEF MoneyNext
<1> QED
  BY <1>1, <1>2

\* However wallet, gateway and cash share a price, and whatever is truncated, a
\* finished ride costs the customer its price and brings the driver the fare less
\* the commission; a cancelled one costs its charge or a paisa more, which pays for
\* what the driver gets; and the gateway returns no more than it was paid.
THEOREM MoneyIsAccounted == MoneySpec => []MoneyAddsUp
<1>1. MoneyInv => MoneyAddsUp
  <2> SUFFICES ASSUME MoneyInv PROVE MoneyAddsUp
    OBVIOUS
  <2>1. MoneyTypeOK /\ StageFits
    BY DEF MoneyInv
  <2>2. stage = "finished" =>
           Outlay = bill.total /\ earned + cash = bill.total - bill.fee - Commission
    <3> SUFFICES ASSUME stage = "finished"
                 PROVE  Outlay = bill.total /\ earned + cash = bill.total - bill.fee - Commission
      OBVIOUS
    <3>1. BillFits /\ WalletHasPaid /\ RestIsPaid /\ bill.method # "NONE" /\ earned = WalletChange
      BY <2>1 DEF StageFits
    <3>2. /\ bill.total \in Nat /\ bill.fee \in Nat /\ bill.applied \in Int /\ bill.final \in Int
          /\ bill.method \in {"NONE", "ONLINE", "CASH"} /\ before \in Int /\ wallet \in Int
      BY <2>1 DEF MoneyTypeOK
    <3>3. Commission \in Int
      BY <3>2, CommissionIsWhole
    <3> QED
      BY <3>1, <3>2, <3>3 DEF BillFits, WalletHasPaid, RestIsPaid, WalletChange, Outlay
  <2>3. online >= 0
    BY <2>1 DEF MoneyTypeOK, StageFits, NothingPaid, BillFits, RestIsPaid, CancellationFits
  <2>4. bill # NoBill => bill.final >= estimate
    BY <2>1 DEF MoneyTypeOK, StageFits, BillFits
  <2> QED
    BY <2>1, <2>2, <2>3, <2>4 DEF StageFits, MoneyAddsUp
<1> QED
  BY <1>1, MoneyStarts, MoneyStep, PTL DEF MoneySpec

=============================================================================
