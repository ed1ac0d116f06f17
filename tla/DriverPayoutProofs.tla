------------------------- MODULE DriverPayoutProofs -------------------------
(***************************************************************************)
(* Proofs about DriverPayout, for any number of credits, rows, calls and   *)
(* faults, and for calls that go on after their row has been taken over.   *)
(*                                                                         *)
(* The key decides: the gateway knows exactly the rows it has paid         *)
(* (KeysAreRows), so a second call for a row pays nothing, and an answer   *)
(* means that the row is paid (PayoutCallKnows).  That stays true, whoever       *)
(* writes the row.                                                         *)
(***************************************************************************)
EXTENDS DriverPayout, TLAPS

USE DEF walletVars, payoutRowVars, bankVars, payoutCallVars

\* DriverPayout starts in its types.
LEMMA InitType == PayoutInit => PayoutTypeOK
  BY PayoutFaultsAssumption DEF PayoutInit, PayoutTypeOK, PayoutStatus, PayoutStage

\* A payout charges an amount that was in the wallet when it was read.
LEMMA ChargeCases ==
    ASSUME PayoutTypeOK, NEW p \in Payouts, NEW w \in PayoutCalls, Debit(w, p)
    PROVE  \E n \in Nat : Charge(w, p, n) /\ balanceRead[w] - n \in Nat
<1>1. balanceRead[w] \in Nat /\ \A n \in 1..balanceRead[w] : n \in Nat /\ balanceRead[w] - n \in Nat
  BY DEF PayoutTypeOK
<1>2. CASE ProcessPayout(w, p)
  BY <1>1, <1>2 DEF ProcessPayout
<1>3. CASE ProcessWithdrawal(w, p)
  <2>1. PICK n \in 1..balanceRead[w] : Charge(w, p, n)
    BY <1>3 DEF ProcessWithdrawal
  <2> QED
    BY <1>1, <2>1
<1> QED
  BY <1>2, <1>3 DEF Debit

\* Every step keeps the types.
LEMMA NextType == PayoutTypeOK /\ [PayoutNext]_payoutVars => PayoutTypeOK'
<1> SUFFICES ASSUME PayoutTypeOK, [PayoutNext]_payoutVars PROVE PayoutTypeOK'
  OBVIOUS
<1>1. ASSUME NEW c \in Credits, BeginCredit(c) \/ CommitCredit(c) PROVE PayoutTypeOK'
  BY <1>1 DEF PayoutTypeOK, BeginCredit, CommitCredit
<1>2. ASSUME NEW p \in Payouts, GoStale(p) \/ PayoutWindowCloses(p) PROVE PayoutTypeOK'
  BY <1>2 DEF PayoutTypeOK, GoStale, PayoutWindowCloses
<1>3. ASSUME NEW p \in Payouts, NEW w \in PayoutCalls, ClaimPayout(w, p) PROVE PayoutTypeOK'
  BY <1>3 DEF PayoutTypeOK, ClaimPayout, PayoutStatus, PayoutStage
<1>4. ASSUME NEW p \in Payouts, NEW w \in PayoutCalls, Debit(w, p) PROVE PayoutTypeOK'
  <2>1. PICK n \in Nat : Charge(w, p, n) /\ balanceRead[w] - n \in Nat
    BY <1>4, ChargeCases
  <2> QED
    BY <2>1 DEF PayoutTypeOK, Charge, PayoutStatus, PayoutStage
<1>5. ASSUME NEW w \in PayoutCalls, BeginDailyPayout(w) \/ BeginWithdrawal(w)
      PROVE  PayoutTypeOK'
  BY <1>5 DEF PayoutTypeOK, BeginDailyPayout, BeginWithdrawal, ReadBalance, PayoutStage
<1>6. ASSUME NEW w \in PayoutCalls, PayoutStep(w) PROVE PayoutTypeOK'
  <2>1. CASE SendPayout(w)
    BY <2>1, PayoutFaultsAssumption DEF PayoutTypeOK, SendPayout, Key, MovePayout,
     PayoutStage
  <2>2. CASE Complete(w) \/ MarkPayoutFailed(w)
    BY <2>2 DEF PayoutTypeOK, Complete, MarkPayoutFailed, MovePayout, PayoutStage,
     PayoutStatus
  <2> QED
    BY <1>6, <2>1, <2>2 DEF PayoutStep
<1>7. ASSUME NEW w \in PayoutCalls, PayoutFails(w) \/ LosePayout(w) PROVE PayoutTypeOK'
  BY <1>7, PayoutFaultsAssumption DEF PayoutTypeOK, PayoutFails, LosePayout, MovePayout,
     PayoutStage
<1>8. CASE UNCHANGED payoutVars
  BY <1>8 DEF PayoutTypeOK, payoutVars
<1> QED
  BY <1>1, <1>2, <1>3, <1>4, <1>5, <1>6, <1>7, <1>8 DEF PayoutNext

-----------------------------------------------------------------------------
(* What the steps do to the rows and at the gateway.                       *)

\* All but four actions leave the gateway's ledger, the status of the rows and
\* their ids alone.
Quiet == UNCHANGED <<sent, keys, payoutStatus, paidId>>

\* A step is one of the four, or quiet; the calls it is about have rows.
LEMMA StepCases ==
    ASSUME PayoutTypeOK, [PayoutNext]_payoutVars
    PROVE  \/ \E p \in Payouts, w \in PayoutCalls : ClaimPayout(w, p)
           \/ \E p \in Payouts, w \in PayoutCalls, n \in Nat : Charge(w, p, n)
           \/ \E w \in PayoutCalls : SendPayout(w) /\ payoutTask[w] \in Payouts
           \/ \E w \in PayoutCalls : Complete(w) /\ payoutTask[w] \in Payouts
           \/ \E w \in PayoutCalls : MarkPayoutFailed(w) /\ payoutTask[w] \in Payouts
           \/ Quiet
  BY ChargeCases DEF PayoutTypeOK, PayoutNext, payoutVars, PayoutStep, Quiet,
     BeginCredit, CommitCredit, GoStale,
     PayoutWindowCloses, BeginDailyPayout, BeginWithdrawal, ReadBalance, PayoutFails, LosePayout

\* The gateway takes one payout for a row: every call brings the row's key.
LEMMA PaidStep ==
    PayoutTypeOK /\ KeysAreRows /\ PaidOnce /\ [PayoutNext]_payoutVars => PaidOnce' /\ KeysAreRows'
<1> SUFFICES ASSUME PayoutTypeOK, KeysAreRows, PaidOnce, [PayoutNext]_payoutVars
              PROVE  PaidOnce' /\ KeysAreRows'
  OBVIOUS
<1>1. ASSUME NEW w \in PayoutCalls, SendPayout(w), payoutTask[w] \in Payouts
      PROVE  PaidOnce' /\ KeysAreRows'
  <2>1. CASE payoutTask[w] \in keys
    BY <1>1, <2>1 DEF PayoutTypeOK, PaidOnce, KeysAreRows, SendPayout, Key
  <2>2. CASE payoutTask[w] \notin keys
    <3>1. sent[payoutTask[w]] = 0
      BY <1>1, <2>2 DEF PayoutTypeOK, KeysAreRows
    <3>2. sent' = [sent EXCEPT ![payoutTask[w]] = 1] /\ keys' = keys \cup {payoutTask[w]}
      BY <1>1, <2>2, <3>1 DEF SendPayout, Key
    <3> QED
      BY <1>1, <3>2 DEF PayoutTypeOK, PaidOnce, KeysAreRows
  <2> QED
    BY <2>1, <2>2
<1>2. CASE UNCHANGED <<sent, keys>>
  BY <1>2 DEF PaidOnce, KeysAreRows
<1> QED
  BY <1>1, <1>2, StepCases DEF Quiet, ClaimPayout, Charge, Complete, MarkPayoutFailed

\* Once the gateway has taken a payout it has taken it.
LEMMA SentStays ==
    ASSUME PayoutTypeOK, KeysAreRows, PaidOnce, [PayoutNext]_payoutVars, NEW p \in Payouts, sent[p] = 1
    PROVE  sent'[p] = 1
<1>1. ASSUME NEW w \in PayoutCalls, SendPayout(w), payoutTask[w] \in Payouts
      PROVE  sent'[p] = 1
  <2>1. p \in keys
    BY DEF KeysAreRows
  <2> QED
    BY <1>1, <2>1 DEF PayoutTypeOK, SendPayout, Key
<1>2. CASE UNCHANGED sent
  BY <1>2
<1> QED
  BY <1>1, <1>2, StepCases DEF Quiet, ClaimPayout, Charge, Complete, MarkPayoutFailed

\* A row stays a row.
LEMMA RowStays ==
    ASSUME PayoutTypeOK, [PayoutNext]_payoutVars, NEW p \in Payouts, payoutStatus[p] # "NONE"
    PROVE  payoutStatus'[p] # "NONE"
  BY StepCases DEF PayoutTypeOK, Quiet, ClaimPayout, Charge, SendPayout, Complete,
     MarkPayoutFailed

\* A call learns of a payment only from the gateway, and keeps being right.
LEMMA CallStepKnows ==
    PayoutTypeOK /\ KeysAreRows /\ PaidOnce /\ PayoutCallKnows /\ [PayoutNext]_payoutVars => PayoutCallKnows'
<1> SUFFICES ASSUME PayoutTypeOK, KeysAreRows, PaidOnce, PayoutCallKnows, [PayoutNext]_payoutVars,
                    NEW v \in PayoutCalls
             PROVE  /\ payoutStage'[v] \in {"sending", "answered", "failing"}
                         => payoutStatus'[payoutTask'[v]] # "NONE"
                    /\ payoutStage'[v] = "answered" => sent'[payoutTask'[v]] = 1
  BY DEF PayoutCallKnows
<1> DEFINE Known == /\ payoutStage'[v] \in {"sending", "answered", "failing"}
                         => payoutStatus'[payoutTask'[v]] # "NONE"
                    /\ payoutStage'[v] = "answered" => sent'[payoutTask'[v]] = 1
\* A call that stands where it stood, or falls back, knows what it knew.
<1>1. ASSUME payoutTask'[v] = payoutTask[v],
             \/ payoutStage'[v] \in {payoutStage[v], "idle", "listed", "asked"}
             \/ payoutStage[v] \in {"sending", "answered"} /\ payoutStage'[v] = "failing"
      PROVE  Known
  <2>1. payoutTask[v] \in Payouts
    BY DEF PayoutTypeOK
  <2>2. payoutStatus[payoutTask[v]] # "NONE" => payoutStatus'[payoutTask[v]] # "NONE"
    BY <2>1, RowStays
  <2>3. sent[payoutTask[v]] = 1 => sent'[payoutTask[v]] = 1
    BY <2>1, SentStays
  <2> QED
    BY <1>1, <2>2, <2>3 DEF PayoutCallKnows
<1>2. ASSUME NEW p \in Payouts, NEW w \in PayoutCalls, ClaimPayout(w, p) PROVE Known
  <2>1. CASE v = w
    BY <1>2, <2>1 DEF PayoutTypeOK, ClaimPayout
  <2>2. CASE v # w
    BY <1>1, <1>2, <2>2 DEF PayoutTypeOK, ClaimPayout
  <2> QED
    BY <2>1, <2>2
<1>3. ASSUME NEW p \in Payouts, NEW w \in PayoutCalls, NEW n \in Nat, Charge(w, p, n)
      PROVE  Known
  <2>1. CASE v = w
    BY <1>3, <2>1 DEF PayoutTypeOK, Charge
  <2>2. CASE v # w
    BY <1>1, <1>3, <2>2 DEF PayoutTypeOK, Charge
  <2> QED
    BY <2>1, <2>2
<1>4. ASSUME NEW w \in PayoutCalls, SendPayout(w) PROVE Known
  <2>1. CASE v = w /\ payoutStage'[v] = "answered"
    <3>1. payoutTask'[v] = payoutTask[v] /\ payoutTask[v] \in Payouts /\ payoutStage[v] = "sending"
      BY <1>4, <2>1 DEF PayoutTypeOK, SendPayout, MovePayout
    <3>2. sent'[payoutTask[v]] = 1
      BY <1>4, <2>1, <3>1 DEF PayoutTypeOK, KeysAreRows, PaidOnce, SendPayout, Key
    <3>3. payoutStatus'[payoutTask[v]] # "NONE"
      BY <3>1, RowStays DEF PayoutCallKnows
    <3> QED
      BY <2>1, <3>1, <3>2, <3>3
  <2>2. CASE v # w \/ payoutStage'[v] = "failing"
    BY <1>1, <1>4, <2>2 DEF PayoutTypeOK, SendPayout, MovePayout
  <2> QED
    BY <1>4, <2>1, <2>2 DEF PayoutTypeOK, SendPayout, MovePayout
<1>5. ASSUME NEW w \in PayoutCalls,
             \/ Complete(w) \/ MarkPayoutFailed(w) \/ PayoutFails(w) \/ LosePayout(w)
             \/ BeginDailyPayout(w) \/ BeginWithdrawal(w)
      PROVE  Known
  BY <1>1, <1>5 DEF PayoutTypeOK, Complete, MarkPayoutFailed, PayoutFails, LosePayout,
     BeginDailyPayout, BeginWithdrawal, ReadBalance, MovePayout
<1>6. CASE UNCHANGED payoutCallVars
  BY <1>1, <1>6
<1> QED
  BY <1>2, <1>3, <1>4, <1>5, <1>6, ChargeCases
     DEF PayoutNext, payoutVars, PayoutStep, BeginCredit, CommitCredit, GoStale,
     PayoutWindowCloses

\* What the books call paid the gateway has taken, and nothing without a row.
LEMMA BooksStep ==
    PayoutTypeOK /\ KeysAreRows /\ PaidOnce /\ PayoutCallKnows /\ BookedIsPaid /\ NoRowNoPayment /\ [PayoutNext]_payoutVars
        => BookedIsPaid' /\ NoRowNoPayment'
<1> SUFFICES ASSUME PayoutTypeOK, KeysAreRows, PaidOnce, PayoutCallKnows, BookedIsPaid, NoRowNoPayment,
                    [PayoutNext]_payoutVars
             PROVE  BookedIsPaid' /\ NoRowNoPayment'
  OBVIOUS
<1>1. ASSUME NEW p \in Payouts, NEW w \in PayoutCalls, ClaimPayout(w, p)
      PROVE  BookedIsPaid' /\ NoRowNoPayment'
  BY <1>1 DEF PayoutTypeOK, BookedIsPaid, NoRowNoPayment, ClaimPayout, PayoutClaimable
<1>2. ASSUME NEW p \in Payouts, NEW w \in PayoutCalls, NEW n \in Nat, Charge(w, p, n)
      PROVE  BookedIsPaid' /\ NoRowNoPayment'
  BY <1>2 DEF PayoutTypeOK, BookedIsPaid, NoRowNoPayment, Charge
<1>3. ASSUME NEW w \in PayoutCalls, SendPayout(w), payoutTask[w] \in Payouts
      PROVE  BookedIsPaid' /\ NoRowNoPayment'
  <2>1. payoutStatus[payoutTask[w]] # "NONE" /\ UNCHANGED <<payoutStatus, paidId>>
    BY <1>3 DEF PayoutCallKnows, SendPayout, MovePayout
  <2>2. \A p \in Payouts : sent[p] = 1 => sent'[p] = 1
    BY SentStays
  <2>3. \A p \in Payouts : p # payoutTask[w] => sent'[p] = sent[p]
    BY <1>3 DEF PayoutTypeOK, SendPayout
  <2>4. BookedIsPaid'
    BY <2>1, <2>2 DEF BookedIsPaid
  <2>5. NoRowNoPayment'
    BY <2>1, <2>3 DEF NoRowNoPayment
  <2> QED
    BY <2>4, <2>5
<1>4. ASSUME NEW w \in PayoutCalls, Complete(w), payoutTask[w] \in Payouts
      PROVE  BookedIsPaid' /\ NoRowNoPayment'
  <2>1. sent[payoutTask[w]] = 1
    BY <1>4 DEF PayoutCallKnows, Complete, MovePayout
  <2> QED
    BY <1>4, <2>1 DEF PayoutTypeOK, BookedIsPaid, NoRowNoPayment, Complete
<1>5. ASSUME NEW w \in PayoutCalls, MarkPayoutFailed(w), payoutTask[w] \in Payouts
      PROVE  BookedIsPaid' /\ NoRowNoPayment'
  BY <1>5 DEF PayoutTypeOK, BookedIsPaid, NoRowNoPayment, MarkPayoutFailed
<1>6. CASE Quiet
  BY <1>6 DEF Quiet, BookedIsPaid, NoRowNoPayment
<1> QED
  BY <1>1, <1>2, <1>3, <1>4, <1>5, <1>6, StepCases

\* A row that has the gateway's id is not claimed.
LEMMA ReopenStep ==
    PayoutTypeOK /\ NoRowNoPayment /\ NeverReopened /\ [PayoutNext]_payoutVars => NeverReopened'
<1> SUFFICES ASSUME PayoutTypeOK, NoRowNoPayment, NeverReopened, [PayoutNext]_payoutVars
              PROVE  NeverReopened'
  OBVIOUS
<1>1. ASSUME NEW p \in Payouts, NEW w \in PayoutCalls, ClaimPayout(w, p)
      PROVE  NeverReopened'
  BY <1>1 DEF PayoutTypeOK, NeverReopened, ClaimPayout, PayoutClaimable
<1>2. ASSUME NEW p \in Payouts, NEW w \in PayoutCalls, NEW n \in Nat, Charge(w, p, n)
      PROVE  NeverReopened'
  BY <1>2 DEF PayoutTypeOK, NeverReopened, NoRowNoPayment, Charge
<1>3. ASSUME NEW w \in PayoutCalls, Complete(w), payoutTask[w] \in Payouts
      PROVE  NeverReopened'
  BY <1>3 DEF PayoutTypeOK, NeverReopened, Complete
<1>4. ASSUME NEW w \in PayoutCalls, MarkPayoutFailed(w), payoutTask[w] \in Payouts
      PROVE  NeverReopened'
  BY <1>4 DEF PayoutTypeOK, NeverReopened, MarkPayoutFailed
<1>5. CASE UNCHANGED <<payoutStatus, paidId>>
  BY <1>5 DEF NeverReopened
<1> QED
  BY <1>1, <1>2, <1>3, <1>4, <1>5, StepCases DEF Quiet, SendPayout

-----------------------------------------------------------------------------
(* The invariant and what follows from it.                                 *)

\* The invariant holds at the start.
LEMMA InitIInv == PayoutInit => PayoutIInv
  BY InitType
     DEF PayoutInit, PayoutIInv, PaidOnce, BookedIsPaid, NeverReopened, KeysAreRows,
     PayoutCallKnows, NoRowNoPayment

\* Every step keeps it.
LEMMA NextIInv == PayoutIInv /\ [PayoutNext]_payoutVars => PayoutIInv'
  BY NextType, PaidStep, CallStepKnows, BooksStep, ReopenStep DEF PayoutIInv

\* The inductive invariant, whatever fails and however slow a call is.
THEOREM Invariance == PayoutSpec => []PayoutIInv
  BY InitIInv, NextIInv, PTL DEF PayoutSpec

\* A driver is paid once for what his wallet was charged, whatever was refused,
\* lost, retried or taken over from a call that goes on.
THEOREM PaysOnce == PayoutSpec => []PaidOnce
<1>1. PayoutIInv => PaidOnce
  BY DEF PayoutIInv
<1> QED
  BY <1>1, Invariance, PTL

\* No payout is booked as paid that the gateway has not taken.
THEOREM MoneyFirst == PayoutSpec => []BookedIsPaid
<1>1. PayoutIInv => BookedIsPaid
  BY DEF PayoutIInv
<1> QED
  BY <1>1, Invariance, PTL

\* No payout is worked on again once a call has booked it as paid.
THEOREM StaysBooked == PayoutSpec => []NeverReopened
<1>1. PayoutIInv => NeverReopened
  BY DEF PayoutIInv
<1> QED
  BY <1>1, Invariance, PTL

-----------------------------------------------------------------------------
(* The refinement.                                                         *)

\* The initial state is one of the promise's.
LEMMA PromiseInit == PayoutInit => PromisedPayout!Init
  BY DEF PayoutInit, PromisedPayout!Init, PayoutPhase

\* Every step keeps the promise: it is one of its steps, or none.
LEMMA PromiseStep ==
    PayoutIInv /\ [PayoutNext]_payoutVars => [PromisedPayout!Next]_PromisedPayout!vars
<1> SUFFICES ASSUME PayoutIInv, [PayoutNext]_payoutVars
              PROVE  [PromisedPayout!Next]_PromisedPayout!vars
  OBVIOUS
<1> USE DEF PayoutIInv, PromisedPayout!vars, PayoutPhase
<1>1. ASSUME NEW p \in Payouts, NEW w \in PayoutCalls, NEW n \in Nat, Charge(w, p, n)
      PROVE  PromisedPayout!Charge(p)
  <2>1. payoutStatus[p] = "NONE" /\ ~paidId[p] /\ UNCHANGED <<sent, paidId>>
    BY <1>1 DEF Charge, NoRowNoPayment
  <2>2. PayoutPhase[p] = "none" /\ PayoutPhase' = [PayoutPhase EXCEPT ![p] = "charged"]
    BY <1>1, <2>1 DEF Charge, PayoutTypeOK
  <2> QED
    BY <2>1, <2>2 DEF PromisedPayout!Charge
<1>2. ASSUME NEW w \in PayoutCalls, SendPayout(w), payoutTask[w] \in Payouts
      PROVE  PromisedPayout!Send(payoutTask[w]) \/ UNCHANGED PromisedPayout!vars
  <2>1. UNCHANGED PayoutPhase
    BY <1>2 DEF SendPayout
  <2>2. CASE payoutTask[w] \in keys
    <3>1. UNCHANGED sent
      BY <1>2, <2>2 DEF SendPayout, Key, PayoutTypeOK
    <3> QED
      BY <2>1, <3>1
  <2>3. CASE payoutTask[w] \notin keys
    <3>1. sent[payoutTask[w]] = 0
      BY <1>2, <2>3 DEF KeysAreRows, PayoutTypeOK
    <3>2. sent' = [sent EXCEPT ![payoutTask[w]] = 1]
      BY <1>2, <2>3, <3>1 DEF SendPayout, Key
    <3>3. payoutStatus[payoutTask[w]] # "NONE" /\ ~paidId[payoutTask[w]]
      BY <1>2, <3>1 DEF SendPayout, MovePayout, PayoutCallKnows, BookedIsPaid
    <3> QED
      BY <1>2, <2>1, <3>1, <3>2, <3>3 DEF PromisedPayout!Send
  <2> QED
    BY <2>2, <2>3
<1>3. ASSUME NEW w \in PayoutCalls, Complete(w), payoutTask[w] \in Payouts
      PROVE  PromisedPayout!Book(payoutTask[w]) \/ UNCHANGED PromisedPayout!vars
  <2>1. payoutStatus[payoutTask[w]] # "NONE" /\ sent[payoutTask[w]] = 1 /\ UNCHANGED sent
    BY <1>3 DEF Complete, MovePayout, PayoutCallKnows
  <2>2. /\ payoutStatus' = [payoutStatus EXCEPT ![payoutTask[w]] = "COMPLETED"]
        /\ paidId' = [paidId EXCEPT ![payoutTask[w]] = TRUE]
    BY <1>3 DEF Complete
  <2>3. PayoutPhase' = [PayoutPhase EXCEPT ![payoutTask[w]] = "booked"]
    BY <1>3, <2>1, <2>2 DEF PayoutTypeOK
  <2>4. CASE paidId[payoutTask[w]]
    <3>1. PayoutPhase[payoutTask[w]] = "booked"
      BY <1>3, <2>1, <2>4
    <3>2. UNCHANGED PayoutPhase
      BY <2>3, <3>1
    <3> QED
      BY <2>1, <3>2
  <2>5. CASE ~paidId[payoutTask[w]]
    <3>1. PayoutPhase[payoutTask[w]] = "charged"
      BY <1>3, <2>1, <2>5
    <3> QED
      BY <2>1, <2>3, <3>1 DEF PromisedPayout!Book
  <2> QED
    BY <2>4, <2>5
<1>4. ASSUME NEW p \in Payouts, NEW w \in PayoutCalls, ClaimPayout(w, p)
      PROVE  UNCHANGED PromisedPayout!vars
  BY <1>4 DEF PayoutTypeOK, ClaimPayout, PayoutClaimable
<1>5. ASSUME NEW w \in PayoutCalls, MarkPayoutFailed(w), payoutTask[w] \in Payouts
      PROVE  UNCHANGED PromisedPayout!vars
  <2>1. payoutStatus[payoutTask[w]] # "NONE" /\ UNCHANGED <<sent, paidId>>
    BY <1>5 DEF MarkPayoutFailed, MovePayout, PayoutCallKnows
  <2> QED
    BY <1>5, <2>1 DEF PayoutTypeOK, MarkPayoutFailed
<1>6. CASE Quiet
  BY <1>6 DEF Quiet
<1> HIDE DEF PromisedPayout!vars, PayoutPhase
<1> QED
  BY <1>1, <1>2, <1>3, <1>4, <1>5, <1>6, StepCases DEF PromisedPayout!Next

\* The debit, the call of the gateway and its retries implement what a payout
\* promises.
THEOREM PromiseKept == PayoutSpec => PayoutKeepsPromise
  BY Invariance, PromiseInit, PromiseStep, PTL DEF PayoutSpec, PayoutKeepsPromise,
     PromisedPayout!Spec
=============================================================================
