------------------------- MODULE RefundIntentProofs -------------------------
(***************************************************************************)
(* Proofs about RefundIntent, for any number of bookings, intents, calls,  *)
(* retries and faults, and for calls that take any time at all.            *)
(*                                                                         *)
(* All rests on the claim: a call in progress has its intent for itself    *)
(* (ClaimIsExclusive), so that what it has read of it still holds when it  *)
(* writes (CallKnows), unless the intent was claimed again under it, which *)
(* overtaken remembers.  Once the gateway lists a refund it lists it for   *)
(* ever (ListedStays), so that books follow money whoever overtook whom.   *)
(***************************************************************************)
EXTENDS RefundIntent, TLAPS

USE DEF rowVars, callVars

\* RefundIntent starts in its types.
LEMMA InitType == Init => TypeOK
  BY NoBookingAssumption, AmountsAssumption, FaultsAssumption DEF Init, TypeOK, Status, Stage

\* Every step keeps the types.
LEMMA NextType == TypeOK /\ [Next]_vars => TypeOK'
<1> SUFFICES ASSUME TypeOK, [Next]_vars PROVE TypeOK'
  OBVIOUS
<1>1. ASSUME NEW i \in Intents, NEW b \in Bookings, BeginCancel(i, b) PROVE TypeOK'
  BY <1>1 DEF TypeOK, BeginCancel
<1>2. ASSUME NEW i \in Intents, CommitCancel(i) PROVE TypeOK'
  BY <1>2 DEF TypeOK, CommitCancel, Status
<1>3. ASSUME NEW i \in Intents, ClaimGoesStale(i) \/ WindowCloses(i) PROVE TypeOK'
  BY <1>3 DEF TypeOK, ClaimGoesStale, WindowCloses
<1>4. ASSUME NEW i \in Intents, NEW w \in Workers, Claim(w, i) PROVE TypeOK'
  BY <1>4 DEF TypeOK, Claim, Status, Stage
<1>5. ASSUME NEW w \in Workers, CallStep(w) PROVE TypeOK'
  <2>1. CASE NothingToReturn(w) \/ FindRefund(w)
    BY <2>1 DEF TypeOK, NothingToReturn, FindRefund, Move, Stage
  <2>2. CASE IssueRefund(w)
    BY <2>2, FaultsAssumption DEF TypeOK, IssueRefund, Move, Stage
  <2>3. CASE Settle(w)
    BY <2>3 DEF TypeOK, Settle, Move, Stage, Status, SettledStatus
  <2>4. CASE RecordFailure(w)
    BY <2>4 DEF TypeOK, RecordFailure, Move, Stage, Status, StatusAfter
  <2> QED
    BY <1>5, <2>1, <2>2, <2>3, <2>4 DEF CallStep
<1>6. ASSUME NEW w \in Workers, CallFails(w) \/ LoseCall(w) PROVE TypeOK'
  BY <1>6, FaultsAssumption DEF TypeOK, CallFails, LoseCall, Move, Stage
<1>7. CASE UNCHANGED vars
  BY <1>7 DEF TypeOK, vars
<1> QED
  BY <1>1, <1>2, <1>3, <1>4, <1>5, <1>6, <1>7 DEF Next

-----------------------------------------------------------------------------
(* The claim.                                                              *)

\* A claim ends with its call, and the only claim that another call can take is
\* remembered in overtaken: everywhere else no second call ever holds it.
LEMMA ClaimStep ==
    TypeOK /\ ClaimIsExclusive /\ RowsFirst /\ [Next]_vars => ClaimIsExclusive'
<1> SUFFICES ASSUME TypeOK, ClaimIsExclusive, RowsFirst, [Next]_vars PROVE ClaimIsExclusive'
  OBVIOUS
<1>1. ASSUME NEW i \in Intents, NEW b \in Bookings, BeginCancel(i, b) PROVE ClaimIsExclusive'
  BY <1>1 DEF ClaimIsExclusive, BeginCancel
<1>2. ASSUME NEW i \in Intents, CommitCancel(i) PROVE ClaimIsExclusive'
  BY <1>2 DEF TypeOK, ClaimIsExclusive, CommitCancel
<1>3. ASSUME NEW i \in Intents, ClaimGoesStale(i) \/ WindowCloses(i) PROVE ClaimIsExclusive'
  BY <1>3 DEF ClaimIsExclusive, ClaimGoesStale, WindowCloses
<1>4. ASSUME NEW i \in Intents, NEW w \in Workers, Claim(w, i) PROVE ClaimIsExclusive'
  <2>1. CASE stale[i] /\ InProgress(i)
    <3>1. overtaken' = overtaken \cup {i}
      BY <1>4, <2>1 DEF Claim
    <3> QED
      BY <3>1, <1>4 DEF TypeOK, ClaimIsExclusive, Claim
  <2>2. CASE ~(stale[i] /\ InProgress(i))
    <3>1. /\ overtaken' = overtaken
          /\ i \notin overtaken => \A v \in Workers : stage[v] # "idle" => task[v] # i
      BY <1>4, <2>2 DEF ClaimIsExclusive, Claim, Claimable, InProgress
    <3> QED
      BY <3>1, <1>4 DEF TypeOK, ClaimIsExclusive, Claim
  <2> QED
    BY <2>1, <2>2
<1>5. ASSUME NEW w \in Workers, CallStep(w) PROVE ClaimIsExclusive'
  <2>1. CASE NothingToReturn(w) \/ FindRefund(w) \/ IssueRefund(w)
    BY <2>1 DEF TypeOK, ClaimIsExclusive, NothingToReturn, FindRefund, IssueRefund, Move
  <2>2. CASE Settle(w) \/ RecordFailure(w)
    BY <2>2 DEF TypeOK, ClaimIsExclusive, Settle, RecordFailure, Move
  <2> QED
    BY <1>5, <2>1, <2>2 DEF CallStep
<1>6. ASSUME NEW w \in Workers, CallFails(w) \/ LoseCall(w) PROVE ClaimIsExclusive'
  BY <1>6 DEF TypeOK, ClaimIsExclusive, CallFails, LoseCall, Move
<1>7. CASE UNCHANGED vars
  BY <1>7 DEF ClaimIsExclusive, vars
<1> QED
  BY <1>1, <1>2, <1>3, <1>4, <1>5, <1>6, <1>7 DEF Next

-----------------------------------------------------------------------------
(* What a step of a call does to the intent it has claimed.                *)

\* The wallet entry is written in the step that completes the intent, by the
\* only call that could, unless the intent was overtaken.
LEMMA SettledStep ==
    TypeOK /\ ClaimIsExclusive /\ SettledOnce /\ [Next]_vars => SettledOnce'
<1> SUFFICES ASSUME TypeOK, ClaimIsExclusive, SettledOnce, [Next]_vars PROVE SettledOnce'
  OBVIOUS
<1>1. ASSUME NEW i \in Intents, NEW b \in Bookings, BeginCancel(i, b) PROVE SettledOnce'
  BY <1>1 DEF SettledOnce, BeginCancel
<1>2. ASSUME NEW i \in Intents, CommitCancel(i) PROVE SettledOnce'
  BY <1>2 DEF TypeOK, SettledOnce, CommitCancel
<1>3. ASSUME NEW i \in Intents, ClaimGoesStale(i) \/ WindowCloses(i) PROVE SettledOnce'
  BY <1>3 DEF SettledOnce, ClaimGoesStale, WindowCloses
<1>4. ASSUME NEW i \in Intents, NEW w \in Workers, Claim(w, i) PROVE SettledOnce'
  BY <1>4 DEF TypeOK, SettledOnce, Claim, Claimable
<1>5. ASSUME NEW w \in Workers, CallStep(w) PROVE SettledOnce'
  <2>1. CASE NothingToReturn(w) \/ FindRefund(w) \/ IssueRefund(w)
    BY <2>1 DEF SettledOnce, NothingToReturn, FindRefund, IssueRefund, Move
  <2>2. CASE Settle(w)
    <3>1. /\ task[w] \in Intents
          /\ task[w] \notin overtaken => status[task[w]] = "PROCESSING"
          /\ UNCHANGED overtaken
      BY <2>2 DEF TypeOK, ClaimIsExclusive, Settle, Move
    <3> QED
      BY <2>2, <3>1 DEF TypeOK, SettledOnce, Settle, SettledStatus
  <2>3. CASE RecordFailure(w)
    <3>1. /\ task[w] \in Intents
          /\ task[w] \notin overtaken => status[task[w]] = "PROCESSING"
          /\ UNCHANGED overtaken
      BY <2>3 DEF TypeOK, ClaimIsExclusive, RecordFailure, Move
    <3> QED
      BY <2>3, <3>1 DEF TypeOK, SettledOnce, RecordFailure, StatusAfter
  <2> QED
    BY <1>5, <2>1, <2>2, <2>3 DEF CallStep
<1>6. ASSUME NEW w \in Workers, CallFails(w) \/ LoseCall(w) PROVE SettledOnce'
  BY <1>6 DEF SettledOnce, CallFails, LoseCall, Move
<1>7. CASE UNCHANGED vars
  BY <1>7 DEF SettledOnce, vars
<1> QED
  BY <1>1, <1>2, <1>3, <1>4, <1>5, <1>6, <1>7 DEF Next

\* Rows come before claims and refunds.
LEMMA RowsStep ==
    TypeOK /\ RowsFirst /\ [Next]_vars => RowsFirst'
<1> SUFFICES ASSUME TypeOK, RowsFirst, [Next]_vars PROVE RowsFirst'
  OBVIOUS
<1>1. ASSUME NEW i \in Intents, NEW b \in Bookings, BeginCancel(i, b) PROVE RowsFirst'
  BY <1>1, NoBookingAssumption DEF TypeOK, RowsFirst, BeginCancel
<1>2. ASSUME NEW i \in Intents, CommitCancel(i) PROVE RowsFirst'
  BY <1>2 DEF TypeOK, RowsFirst, CommitCancel
<1>3. ASSUME NEW i \in Intents, ClaimGoesStale(i) \/ WindowCloses(i) PROVE RowsFirst'
  BY <1>3 DEF RowsFirst, ClaimGoesStale, WindowCloses
<1>4. ASSUME NEW i \in Intents, NEW w \in Workers, Claim(w, i) PROVE RowsFirst'
  <2>1. /\ status[i] \notin {"NONE", "NOT_REQUIRED"}
        /\ status' = [status EXCEPT ![i] = "PROCESSING"]
        /\ overtaken' \subseteq overtaken \cup {i}
        /\ UNCHANGED <<issued, bookingOf>>
    BY <1>4 DEF Claim, Claimable
  <2>2. \A v \in Workers : stage'[v] # "idle" => task'[v] = i \/ (stage[v] # "idle" /\ task'[v] = task[v])
    BY <1>4 DEF TypeOK, Claim
  <2> QED
    BY <2>1, <2>2 DEF TypeOK, RowsFirst
<1>5. ASSUME NEW w \in Workers, CallStep(w) PROVE RowsFirst'
  <2>1. /\ task[w] \in Intents /\ status[task[w]] \notin {"NONE", "NOT_REQUIRED"}
        /\ \A v \in Workers : stage'[v] # "idle" => stage[v] # "idle"
        /\ UNCHANGED <<task, overtaken, bookingOf>>
    BY <1>5 DEF TypeOK, RowsFirst, CallStep, NothingToReturn, FindRefund, IssueRefund,
       Settle, RecordFailure, Move
  <2>2. /\ \A i \in Intents : i # task[w] => status'[i] = status[i] /\ issued'[i] = issued[i]
        /\ status'[task[w]] \notin {"NONE", "NOT_REQUIRED"}
    BY <1>5, <2>1 DEF TypeOK, CallStep, NothingToReturn, FindRefund, IssueRefund,
       Settle, SettledStatus, RecordFailure, StatusAfter
  <2> QED
    BY <2>1, <2>2 DEF TypeOK, RowsFirst
<1>6. ASSUME NEW w \in Workers, CallFails(w) \/ LoseCall(w) PROVE RowsFirst'
  BY <1>6 DEF TypeOK, RowsFirst, CallFails, LoseCall, Move
<1>7. CASE UNCHANGED vars
  BY <1>7 DEF RowsFirst, vars
<1> QED
  BY <1>1, <1>2, <1>3, <1>4, <1>5, <1>6, <1>7 DEF Next

-----------------------------------------------------------------------------
(* The gateway.                                                            *)

\* A row keeps its booking and amount, and a refund at the gateway stays.
LEMMA RowsFixed ==
    TypeOK /\ RowsFirst /\ [Next]_vars =>
        \A j \in Intents : status[j] # "NONE" =>
            bookingOf'[j] = bookingOf[j] /\ amount'[j] = amount[j] /\ issued'[j] >= issued[j]
<1> SUFFICES ASSUME TypeOK, RowsFirst, [Next]_vars, NEW j \in Intents, status[j] # "NONE"
             PROVE  bookingOf'[j] = bookingOf[j] /\ amount'[j] = amount[j] /\ issued'[j] >= issued[j]
  OBVIOUS
<1>1. ASSUME NEW i \in Intents, NEW b \in Bookings, BeginCancel(i, b)
      PROVE  bookingOf'[j] = bookingOf[j] /\ UNCHANGED <<amount, issued>>
  BY <1>1 DEF TypeOK, RowsFirst, BeginCancel
<1>2. ASSUME NEW i \in Intents, CommitCancel(i)
      PROVE  amount'[j] = amount[j] /\ UNCHANGED <<bookingOf, issued>>
  BY <1>2 DEF TypeOK, CommitCancel
<1>3. ASSUME NEW w \in Workers, IssueRefund(w)
      PROVE  issued'[j] >= issued[j] /\ UNCHANGED <<bookingOf, amount>>
  BY <1>3 DEF TypeOK, IssueRefund
<1>4. issued[j] \in Nat
  BY DEF TypeOK
<1>5. CASE /\ \A i \in Intents : ~CommitCancel(i) /\ \A b \in Bookings : ~BeginCancel(i, b)
           /\ \A w \in Workers : ~IssueRefund(w)
  <2>1. UNCHANGED <<bookingOf, amount, issued>>
    BY <1>5 DEF Next, vars, ClaimGoesStale, WindowCloses, Claim, CallStep, NothingToReturn,
       FindRefund, Settle, RecordFailure, CallFails, LoseCall
  <2> QED
    BY <2>1, <1>4
<1> QED
  BY <1>1, <1>2, <1>3, <1>4, <1>5

\* A refund the gateway lists for an intent is listed for ever.
LEMMA ListedStays ==
    TypeOK /\ RowsFirst /\ [Next]_vars =>
        \A i \in Intents : status[i] # "NONE" /\ Listed(i) => Listed(i)'
<1> SUFFICES ASSUME TypeOK, RowsFirst, [Next]_vars,
                    NEW i \in Intents, status[i] # "NONE", Listed(i)
             PROVE  Listed(i)'
  OBVIOUS
<1>1. PICK j \in Intents : bookingOf[j] = bookingOf[i] /\ amount[j] = amount[i] /\ issued[j] > 0
  BY DEF Listed
<1>2. status[j] # "NONE" /\ issued[j] \in Nat /\ issued'[j] \in Nat
  BY <1>1, NextType DEF TypeOK, RowsFirst
<1>3. issued'[j] > 0 /\ bookingOf'[j] = bookingOf'[i] /\ amount'[j] = amount'[i]
  BY <1>1, <1>2, RowsFixed
<1> QED
  BY <1>3 DEF Listed

\* A step leaves a call alone, or is one of its own.
LEMMA CallMoves ==
    TypeOK /\ [Next]_vars =>
        \A v \in Workers :
            \/ stage'[v] = stage[v] /\ task'[v] = task[v] /\ ~IssueRefund(v)
            \/ NothingToReturn(v) \/ FindRefund(v) \/ IssueRefund(v)
            \/ stage'[v] \in {"idle", "claimed", "failing"}
<1> SUFFICES ASSUME TypeOK, [Next]_vars, NEW v \in Workers,
                    ~NothingToReturn(v), ~FindRefund(v), ~IssueRefund(v),
                    stage'[v] \notin {"idle", "claimed", "failing"}
             PROVE  stage'[v] = stage[v] /\ task'[v] = task[v]
  OBVIOUS
<1>1. ASSUME NEW i \in Intents, NEW w \in Workers, Claim(w, i)
      PROVE  stage'[v] = stage[v] /\ task'[v] = task[v]
  BY <1>1 DEF TypeOK, Claim
<1>2. ASSUME NEW w \in Workers, CallStep(w) \/ CallFails(w) \/ LoseCall(w)
      PROVE  stage'[v] = stage[v] /\ task'[v] = task[v]
  BY <1>2 DEF TypeOK, CallStep, CallFails, LoseCall, NothingToReturn, FindRefund, IssueRefund,
     Settle, RecordFailure, Move
<1>3. CASE UNCHANGED callVars
  BY <1>3
<1> QED
  BY <1>1, <1>2, <1>3 DEF Next, vars, BeginCancel, CommitCancel, ClaimGoesStale, WindowCloses

\* Unless an intent was overtaken, only the call that has claimed it makes the
\* gateway refund it.
LEMMA IssuedByClaimer ==
    TypeOK /\ ClaimIsExclusive /\ [Next]_vars =>
        \A v \in Workers : stage[v] # "idle" /\ task[v] \notin overtaken /\ ~IssueRefund(v) =>
            issued'[task[v]] = issued[task[v]]
<1> SUFFICES ASSUME TypeOK, ClaimIsExclusive, [Next]_vars,
                    NEW v \in Workers, stage[v] # "idle", task[v] \notin overtaken, ~IssueRefund(v)
             PROVE  issued'[task[v]] = issued[task[v]]
  OBVIOUS
<1>1. ASSUME NEW w \in Workers, IssueRefund(w) PROVE issued'[task[v]] = issued[task[v]]
  <2>1. task[w] # task[v]
    BY <1>1 DEF ClaimIsExclusive, IssueRefund, Move
  <2> QED
    BY <2>1, <1>1 DEF TypeOK, IssueRefund
<1>2. CASE \A w \in Workers : ~IssueRefund(w)
  BY <1>2 DEF Next, vars, BeginCancel, CommitCancel, ClaimGoesStale, WindowCloses, Claim,
     CallStep, NothingToReturn, FindRefund, Settle, RecordFailure, CallFails, LoseCall
<1> QED
  BY <1>1, <1>2

\* An intent once overtaken is so for ever.
LEMMA OvertakenStays == [Next]_vars => overtaken \subseteq overtaken'
<1> SUFFICES ASSUME [Next]_vars PROVE overtaken \subseteq overtaken'
  OBVIOUS
<1>1. ASSUME NEW i \in Intents, NEW w \in Workers, Claim(w, i) PROVE overtaken \subseteq overtaken'
  BY <1>1 DEF Claim
<1>2. CASE UNCHANGED overtaken
  BY <1>2
<1> QED
  BY <1>1, <1>2 DEF Next, vars, BeginCancel, CommitCancel, ClaimGoesStale, WindowCloses, CallStep,
     NothingToReturn, FindRefund, IssueRefund, Settle, RecordFailure, CallFails, LoseCall, Move

\* Until a call stops, what it found at the gateway stays true: nobody else
\* makes a refund for the intent it has claimed, unless it is overtaken.
LEMMA KnowsStep ==
    TypeOK /\ ClaimIsExclusive /\ RowsFirst /\ CallKnows /\ [Next]_vars => CallKnows'
<1> SUFFICES ASSUME TypeOK, ClaimIsExclusive, RowsFirst, CallKnows, [Next]_vars,
                    NEW v \in Workers
             PROVE  /\ stage'[v] = "absent" =>
                          /\ amount'[task'[v]] > 0
                          /\ task'[v] \notin overtaken' => issued'[task'[v]] = 0
                    /\ stage'[v] = "returned" =>
                          \/ amount'[task'[v]] = 0
                          \/ \E j \in Intents : /\ bookingOf'[j] = bookingOf'[task'[v]]
                                                /\ amount'[j] = amount'[task'[v]]
                                                /\ issued'[j] > 0
  BY DEF CallKnows, Listed
<1>1. stage[v] # "idle" => task[v] \in Intents /\ status[task[v]] # "NONE"
  BY DEF TypeOK, RowsFirst
<1>2. stage[v] # "idle" => amount'[task[v]] = amount[task[v]]
  BY <1>1, RowsFixed
<1>3. ASSUME stage[v] # "idle", Listed(task[v])
      PROVE  \E j \in Intents : /\ bookingOf'[j] = bookingOf'[task[v]]
                                /\ amount'[j] = amount'[task[v]]
                                /\ issued'[j] > 0
  <2>1. PICK i \in Intents : i = task[v] /\ status[i] # "NONE" /\ Listed(i)
    BY <1>1, <1>3
  <2>2. Listed(i)'
    BY <2>1, ListedStays
  <2> QED
    BY <2>1, <2>2 DEF Listed
<1>4. CASE stage'[v] = stage[v] /\ task'[v] = task[v] /\ ~IssueRefund(v)
  <2>1. CASE stage[v] = "absent"
    <3>1. task[v] \notin overtaken' => issued'[task[v]] = 0
      BY <2>1, <1>4, IssuedByClaimer, OvertakenStays DEF CallKnows
    <3> QED
      BY <2>1, <3>1, <1>2, <1>4 DEF CallKnows
  <2>2. CASE stage[v] # "absent"
    BY <2>2, <1>2, <1>3, <1>4 DEF CallKnows
  <2> QED
    BY <2>1, <2>2
<1>5. CASE NothingToReturn(v)
  BY <1>2, <1>5 DEF TypeOK, NothingToReturn, Move
<1>6. CASE FindRefund(v)
  <2>1. task'[v] = task[v] /\ issued' = issued /\ stage[v] = "claimed" /\ amount[task[v]] > 0
    BY <1>6 DEF FindRefund, Move
  <2>2. CASE Listed(task[v])
    BY <2>1, <2>2, <1>3, <1>6 DEF TypeOK, FindRefund, Move
  <2>3. CASE ~Listed(task[v])
    <3>1. issued[task[v]] \in Nat /\ ~(issued[task[v]] > 0)
      BY <2>1, <2>3, <1>1 DEF TypeOK, Listed
    <3>2. stage'[v] = "absent"
      BY <2>3, <1>6 DEF TypeOK, FindRefund, Move
    <3> QED
      BY <2>1, <3>1, <3>2, <1>2
  <2> QED
    BY <2>2, <2>3
<1>7. CASE IssueRefund(v)
  <2>1. task'[v] = task[v] /\ task[v] \in Intents /\ issued'[task[v]] > 0 /\ stage'[v] # "absent"
    BY <1>7, <1>1 DEF TypeOK, IssueRefund, Move
  <2> QED
    BY <2>1
<1>8. CASE stage'[v] \in {"idle", "claimed", "failing"}
  BY <1>8
<1> QED
  BY <1>4, <1>5, <1>6, <1>7, <1>8, CallMoves

\* A refund is made only by a call that has seen that there is none yet, and
\* is wrong about it only if it was overtaken.
LEMMA RefundedStep ==
    TypeOK /\ CallKnows /\ RefundedOnce /\ [Next]_vars => RefundedOnce'
<1> SUFFICES ASSUME TypeOK, CallKnows, RefundedOnce, [Next]_vars PROVE RefundedOnce'
  OBVIOUS
<1>1. ASSUME NEW w \in Workers, IssueRefund(w) PROVE RefundedOnce'
  <2>1. (task[w] \notin overtaken => issued[task[w]] = 0) /\ UNCHANGED overtaken
    BY <1>1 DEF CallKnows, IssueRefund, Move
  <2> QED
    BY <2>1, <1>1 DEF TypeOK, RefundedOnce, IssueRefund
<1>2. CASE \A w \in Workers : ~IssueRefund(w)
  <2>1. UNCHANGED issued
    BY <1>2 DEF Next, vars, BeginCancel, CommitCancel, ClaimGoesStale, WindowCloses, Claim,
       CallStep, NothingToReturn, FindRefund, Settle, RecordFailure, CallFails, LoseCall
  <2> QED
    BY <2>1, OvertakenStays DEF RefundedOnce
<1> QED
  BY <1>1, <1>2

\* An intent is completed by the settlement of the call that has claimed it.
LEMMA CompletedBySettle ==
    TypeOK /\ [Next]_vars =>
        \A i \in Intents : status'[i] = "COMPLETED" =>
            status[i] = "COMPLETED" \/ \E w \in Workers : Settle(w) /\ task[w] = i
<1> SUFFICES ASSUME TypeOK, [Next]_vars, NEW i \in Intents, status'[i] = "COMPLETED",
                    \A w \in Workers : ~(Settle(w) /\ task[w] = i)
             PROVE  status[i] = "COMPLETED"
  OBVIOUS
<1>1. ASSUME NEW j \in Intents, CommitCancel(j) PROVE status[i] = "COMPLETED"
  BY <1>1 DEF TypeOK, CommitCancel
<1>2. ASSUME NEW j \in Intents, NEW w \in Workers, Claim(w, j) PROVE status[i] = "COMPLETED"
  BY <1>2 DEF TypeOK, Claim
<1>3. ASSUME NEW w \in Workers, RecordFailure(w) PROVE status[i] = "COMPLETED"
  BY <1>3 DEF TypeOK, RecordFailure, StatusAfter
<1>4. ASSUME NEW w \in Workers, Settle(w) PROVE status[i] = "COMPLETED"
  BY <1>4 DEF TypeOK, Settle
<1>5. CASE UNCHANGED status
  BY <1>5
<1> QED
  BY <1>1, <1>2, <1>3, <1>4, <1>5 DEF Next, vars, BeginCancel, ClaimGoesStale, WindowCloses,
     CallStep, NothingToReturn, FindRefund, IssueRefund, CallFails, LoseCall

\* An intent is completed only after its refund is listed, and it stays so.
LEMMA BooksStep ==
    TypeOK /\ RowsFirst /\ CallKnows /\ BooksFollowMoney /\ [Next]_vars => BooksFollowMoney'
<1> SUFFICES ASSUME TypeOK, RowsFirst, CallKnows, BooksFollowMoney, [Next]_vars,
                    NEW i \in Intents, status'[i] = "COMPLETED", amount'[i] > 0
             PROVE  Listed(i)'
  BY DEF BooksFollowMoney
<1>1. CASE status[i] = "COMPLETED"
  <2>1. amount[i] > 0
    BY <1>1, RowsFixed
  <2> QED
    BY <1>1, <2>1, ListedStays DEF BooksFollowMoney
<1>2. CASE \E w \in Workers : Settle(w) /\ task[w] = i
  <2>1. PICK w \in Workers : Settle(w) /\ task[w] = i
    BY <1>2
  <2>2. status[i] # "NONE" /\ amount'[i] = amount[i]
    BY <2>1 DEF RowsFirst, Settle, Move
  <2>3. Listed(i)
    BY <2>1, <2>2, AmountsAssumption DEF TypeOK, CallKnows, Settle, Move
  <2> QED
    BY <2>2, <2>3, ListedStays
<1> QED
  BY <1>1, <1>2, CompletedBySettle

-----------------------------------------------------------------------------
(* The invariant.                                                          *)

\* The invariant holds initially.
LEMMA InitIInv == Init => IInv
<1> SUFFICES ASSUME Init PROVE IInv
  OBVIOUS
<1> QED
  BY InitType DEF Init, IInv, ClaimIsExclusive, SettledOnce, RefundedOnce, BooksFollowMoney,
     CallKnows, RowsFirst

\* Every step keeps the invariant.
LEMMA NextIInv == IInv /\ [Next]_vars => IInv'
  BY NextType, ClaimStep, SettledStep, RefundedStep, BooksStep, KnowsStep, RowsStep DEF IInv

\* The inductive invariant.
THEOREM Invariance == Spec => []IInv
  BY InitIInv, NextIInv, PTL DEF Spec

\* Whatever is refused, lost, retried, crashed or taken over after a crash, an
\* intent is booked to the customer's wallet exactly when it is completed, and
\* once; a takeover of a call that goes on is the one way to book it again.
THEOREM SettlesOnce == Spec => []SettledOnce
<1>1. IInv => SettledOnce
  BY DEF IInv
<1> QED
  BY <1>1, Invariance, PTL

\* An intent never costs a second refund at the gateway, not even when the
\* answer to the first was lost, except by a takeover of a call that goes on.
THEOREM RefundsOnce == Spec => []RefundedOnce
<1>1. IInv => RefundedOnce
  BY DEF IInv
<1> QED
  BY <1>1, Invariance, PTL

\* No intent is completed whose money the gateway has not returned, whichever
\* calls overtake each other.
THEOREM MoneyFirst == Spec => []BooksFollowMoney
<1>1. IInv => BooksFollowMoney
  BY DEF IInv
<1> QED
  BY <1>1, Invariance, PTL

-----------------------------------------------------------------------------
(* The refinement.                                                         *)

\* The initial state is one of the promise's.
LEMMA PromiseInit == Init => Promise!Init
  BY DEF Init, Promise!Init, Phase

\* Every step keeps the promise: it is one of its steps, or none.
LEMMA PromiseStep ==
    IInv /\ [Next]_vars => [Promise!Next]_Promise!vars
<1> SUFFICES ASSUME IInv, [Next]_vars PROVE [Promise!Next]_Promise!vars
  OBVIOUS
<1> USE DEF IInv, Promise!vars, Phase
<1>1. ASSUME NEW i \in Intents, CommitCancel(i)
      PROVE  Promise!FallDue(i) \/ UNCHANGED Promise!vars
  <2>1. PICK s \in {"PENDING", "NOT_REQUIRED"} : status' = [status EXCEPT ![i] = s]
    BY <1>1 DEF CommitCancel
  <2>2. status[i] = "NONE" /\ i \notin overtaken /\ UNCHANGED <<issued, credits, overtaken>>
    BY <1>1 DEF RowsFirst, CommitCancel
  <2>3. CASE s = "PENDING"
    <3>1. Phase[i] = "none" /\ Phase' = [Phase EXCEPT ![i] = "due"]
      BY <2>1, <2>2, <2>3 DEF TypeOK
    <3> QED
      BY <2>2, <3>1 DEF Promise!FallDue
  <2>4. CASE s = "NOT_REQUIRED"
    BY <2>1, <2>2, <2>4 DEF TypeOK
  <2> QED
    BY <2>3, <2>4
<1>2. ASSUME NEW w \in Workers, Settle(w)
      PROVE  task[w] \in Intents /\ (Promise!Settle(task[w]) \/ Promise!CreditAgain(task[w]))
  <2>1. task[w] \in Intents /\ UNCHANGED <<issued, overtaken>>
    BY <1>2 DEF TypeOK, Settle, Move
  <2>2. CASE task[w] \in overtaken
    <3>1. Phase[task[w]] = "contested" /\ UNCHANGED Phase
      BY <1>2, <2>1, <2>2 DEF TypeOK, Settle
    <3> QED
      BY <1>2, <2>1, <3>1 DEF Settle, Promise!CreditAgain
  <2>3. CASE task[w] \notin overtaken
    <3>1. status[task[w]] = "PROCESSING" /\ credits[task[w]] = 0
      BY <1>2, <2>1, <2>3 DEF TypeOK, ClaimIsExclusive, SettledOnce, Settle, Move
    <3>2. /\ credits' = [credits EXCEPT ![task[w]] = 1]
          /\ status' = [status EXCEPT ![task[w]] = "COMPLETED"]
      BY <1>2, <3>1 DEF Settle, SettledStatus
    <3>3. Phase[task[w]] = "due" /\ Phase' = [Phase EXCEPT ![task[w]] = "settled"]
      BY <2>1, <2>3, <3>1, <3>2 DEF TypeOK
    <3> QED
      BY <2>1, <3>1, <3>2, <3>3 DEF Promise!Settle
  <2> QED
    BY <2>1, <2>2, <2>3
<1>3. ASSUME NEW w \in Workers, IssueRefund(w)
      PROVE  task[w] \in Intents /\ (Promise!Return(task[w]) \/ Promise!ReturnAgain(task[w]))
  <2>1. task[w] \in Intents /\ UNCHANGED <<status, credits, overtaken>>
    BY <1>3 DEF TypeOK, IssueRefund, Move
  <2>2. UNCHANGED Phase
    BY <2>1
  <2>3. CASE task[w] \in overtaken
    BY <1>3, <2>1, <2>2, <2>3 DEF IssueRefund, Promise!ReturnAgain
  <2>4. CASE task[w] \notin overtaken
    <3>1. status[task[w]] = "PROCESSING" /\ issued[task[w]] = 0
      BY <1>3, <2>4 DEF TypeOK, ClaimIsExclusive, CallKnows, IssueRefund, Move
    <3>2. issued' = [issued EXCEPT ![task[w]] = 1] /\ Phase[task[w]] = "due"
      BY <1>3, <2>1, <2>4, <3>1 DEF IssueRefund
    <3> QED
      BY <2>1, <2>2, <3>1, <3>2 DEF Promise!Return
  <2> QED
    BY <2>1, <2>3, <2>4
<1>4. ASSUME NEW i \in Intents, NEW w \in Workers, Claim(w, i)
      PROVE  Promise!Contest(i) \/ UNCHANGED Promise!vars
  <2>1. /\ status[i] \in {"PENDING", "FAILED", "PROCESSING"}
        /\ status' = [status EXCEPT ![i] = "PROCESSING"]
        /\ overtaken' \in {overtaken, overtaken \cup {i}}
        /\ UNCHANGED <<issued, credits>>
    BY <1>4 DEF Claim, Claimable
  <2>2. CASE overtaken' = overtaken
    BY <2>1, <2>2 DEF TypeOK
  <2>3. CASE overtaken' = overtaken \cup {i} /\ i \notin overtaken
    <3>1. Phase[i] = "due" /\ Phase' = [Phase EXCEPT ![i] = "contested"]
      BY <2>1, <2>3 DEF TypeOK
    <3> QED
      BY <2>1, <3>1 DEF Promise!Contest
  <2> QED
    BY <2>1, <2>2, <2>3
<1>5. ASSUME NEW w \in Workers, RecordFailure(w) PROVE UNCHANGED Promise!vars
  <2>1. /\ task[w] \in Intents
        /\ task[w] \notin overtaken => status[task[w]] = "PROCESSING"
        /\ \E s \in {"PENDING", "FAILED"} : status' = [status EXCEPT ![task[w]] = s]
        /\ UNCHANGED <<issued, credits, overtaken>>
    BY <1>5 DEF TypeOK, ClaimIsExclusive, RecordFailure, Move, StatusAfter
  <2> QED
    BY <2>1 DEF TypeOK
<1>6. CASE UNCHANGED <<status, issued, credits, overtaken>>
  BY <1>6
<1>7. CASE /\ \A i \in Intents : ~CommitCancel(i) /\ \A w \in Workers : ~Claim(w, i)
           /\ \A w \in Workers : ~Settle(w) /\ ~IssueRefund(w) /\ ~RecordFailure(w)
  <2>1. UNCHANGED <<status, issued, credits, overtaken>>
    BY <1>7 DEF Next, vars, BeginCancel, ClaimGoesStale, WindowCloses, CallStep,
       NothingToReturn, FindRefund, CallFails, LoseCall, Move
  <2> QED
    BY <2>1, <1>6
<1> HIDE DEF Promise!vars, Phase
<1> QED
  BY <1>1, <1>2, <1>3, <1>4, <1>5, <1>7 DEF Promise!Next

\* The machinery of claims, retries and takeovers implements what a refund
\* promises, the hole in the promise included.
THEOREM PromiseKept == Spec => KeepsPromise
  BY Invariance, PromiseInit, PromiseStep, PTL DEF Spec, KeepsPromise, Promise!Spec
=============================================================================
