------------------------------ MODULE Sessions ------------------------------
(***************************************************************************)
(* Login and sessions of one phone number, of a customer or of a driver.   *)
(* A one-time code waits in Redis; whoever types it gets a row of the      *)
(* sessions table and a refresh token.  Each refresh makes a new token and *)
(* keeps one older token, so that a device whose answer was lost can ask   *)
(* again.  A token that the row does not know ends the session.            *)
(*                                                                         *)
(* Codes and token values are numbers in the order in which they are made. *)
(* Access tokens are signed and kept nowhere, so they are left out.        *)
(***************************************************************************)
EXTENDS Naturals, FiniteSets

CONSTANTS
    Slots,          \* rows of CustomerSession or DriverSession
    NoSlot,
    Devices,        \* devices of the user
    NoDevice,
    AuthCalls,      \* requests that may be in progress
    MaxRetryCount,  \* OtpService.MAX_RETRY_COUNT
    MaxCodes,       \* bound on codes sent
    MaxToken        \* bound on refresh tokens made

ASSUME SlotAssumption == NoSlot \notin Slots
ASSUME DeviceAssumption == NoDevice \notin Devices
ASSUME BoundAssumption == MaxRetryCount \in Nat /\ MaxCodes \in Nat /\ MaxToken \in Nat

VARIABLES
    sent,       \* number of the latest code
    otp,        \* the key otp:<phone>: [code, tries], code 0 = no key
    tried,      \* history: tried[k], wrong answers to code k
    used,       \* history: used[k], verifications that code k has won
    user,       \* the phone number has a row of Customer or Driver
    row,        \* row[s]: [state, token, old], with 0 = no old token
    minted,     \* number of the latest token
    holds,      \* holds[d]: the token that device d holds: [slot, value]
    auth,       \* auth[a]: a request in progress
    codeRaced,  \* history: a verification overlapped another, a send or expiry
    slotRaced,  \* history: sessions of which two refreshes have overlapped
    ended       \* history: sessions logged out, replaced or past their 30 days

codeVars == <<sent, otp, tried, used, codeRaced>>
sessionVars == <<user, row, minted, slotRaced, ended>>
svars == <<codeVars, sessionVars, holds, auth>>

NoToken  == [slot |-> NoSlot, value |-> 0]
NoCode   == [code |-> 0, tries |-> 0]
AuthIdle == [step |-> "idle", device |-> NoDevice, code |-> NoCode, token |-> NoToken,
             current |-> FALSE]

SInit ==
    /\ sent = 0
    /\ otp = NoCode
    /\ tried = [k \in 1..MaxCodes |-> 0]
    /\ used = [k \in 1..MaxCodes |-> 0]
    /\ user = FALSE
    /\ row = [s \in Slots |-> [state |-> "none", token |-> 0, old |-> 0]]
    /\ minted = 0
    /\ holds = [d \in Devices |-> NoToken]
    /\ auth = [a \in AuthCalls |-> AuthIdle]
    /\ codeRaced = FALSE
    /\ slotRaced = {}
    /\ ended = {}

-----------------------------------------------------------------------------
Present(s) == row[s].state \in {"live", "expired"}
Verifying == {a \in AuthCalls : auth[a].step = "judge"}

AuthFinish(a) == auth' = [auth EXCEPT ![a] = AuthIdle]

AuthGo(a, from, to) ==
    /\ auth[a].step = from
    /\ auth' = [auth EXCEPT ![a].step = to]

\* deleteSession of rows that may be gone already: deleteMany.
Deleted(s) == IF Present(s) THEN [row EXCEPT ![s].state = "gone"] ELSE row

-----------------------------------------------------------------------------
(* One-time codes.                                                         *)

SendOtp ==
    /\ sent < MaxCodes
    /\ sent' = sent + 1
    /\ otp' = [code |-> sent + 1, tries |-> 0]
    /\ codeRaced' = (codeRaced \/ Verifying # {})
    /\ UNCHANGED <<tried, used, sessionVars, holds, auth>>

\* EX: the key ends after a minute.
OtpExpires ==
    /\ otp # NoCode
    /\ otp' = NoCode
    /\ codeRaced' = (codeRaced \/ Verifying # {})
    /\ UNCHANGED <<sent, tried, used, sessionVars, holds, auth>>

\* Mutant: one answer too many.
MayAnswerOnceMore == otp.tries <= MaxRetryCount

MayAnswer == otp.tries < MaxRetryCount

BeginVerify(a, d) ==
    /\ auth[a] = AuthIdle
    /\ otp # NoCode
    /\ IF MayAnswer
       THEN /\ auth' = [auth EXCEPT ![a] = [AuthIdle EXCEPT !.step = "judge", !.device = d,
                                                            !.code = otp]]
            /\ codeRaced' = (codeRaced \/ Verifying # {})
            /\ otp' = otp
       ELSE /\ otp' = NoCode
            /\ codeRaced' = (codeRaced \/ Verifying # {})
            /\ auth' = auth
    /\ UNCHANGED <<sent, tried, used, sessionVars, holds>>

\* A wrong answer writes back the record that was read, whatever is there now.
WrongAnswer(a) ==
    LET seen == auth[a].code IN
    /\ auth[a].step = "judge"
    /\ otp' = [seen EXCEPT !.tries = @ + 1]
    /\ tried' = [tried EXCEPT ![seen.code] = IF codeRaced THEN @ ELSE @ + 1]
    /\ AuthFinish(a)
    /\ UNCHANGED <<sent, used, codeRaced, sessionVars, holds>>

RightAnswer(a) ==
    LET seen == auth[a].code IN
    /\ AuthGo(a, "judge", "find")
    /\ otp' = NoCode
    /\ used' = [used EXCEPT ![seen.code] = IF codeRaced THEN @ ELSE @ + 1]
    /\ UNCHANGED <<sent, tried, codeRaced, sessionVars, holds>>

-----------------------------------------------------------------------------
(* Login and logout.                                                       *)

FindUser(a) ==
    /\ AuthGo(a, "find", IF user THEN "stale" ELSE "create")
    /\ UNCHANGED <<codeVars, sessionVars, holds>>

\* The phone number is unique: the second of two creations fails.
MakeUser(a) ==
    /\ auth[a].step = "create"
    /\ IF user THEN AuthFinish(a) ELSE AuthGo(a, "create", "stale")
    /\ user' = TRUE
    /\ UNCHANGED <<codeVars, row, minted, slotRaced, ended, holds>>

\* The device may send the refresh token it still has.
DropStale(a) ==
    LET s == holds[auth[a].device].slot IN
    /\ AuthGo(a, "stale", "open")
    /\ \/ s # NoSlot /\ row' = Deleted(s) /\ ended' = ended \cup {s}
       \/ UNCHANGED <<row, ended>>
    /\ UNCHANGED <<codeVars, user, minted, slotRaced, holds>>

\* The answer arrives or is lost.
Answer(a, token) ==
    \/ holds' = [holds EXCEPT ![auth[a].device] = token]
    \/ holds' = holds

OpenSession(a) ==
    /\ auth[a].step = "open"
    /\ minted < MaxToken
    /\ minted' = minted + 1
    /\ \E s \in Slots :
          /\ row[s].state = "none"
          /\ row' = [row EXCEPT ![s] = [state |-> "live", token |-> minted + 1, old |-> 0]]
          /\ Answer(a, [slot |-> s, value |-> minted + 1])
    /\ AuthFinish(a)
    /\ UNCHANGED <<codeVars, user, slotRaced, ended>>

Logout(d) ==
    LET s == holds[d].slot IN
    /\ holds[d] # NoToken
    /\ row' = Deleted(s)
    /\ ended' = ended \cup {s}
    /\ holds' = [holds EXCEPT ![d] = NoToken]
    /\ UNCHANGED <<codeVars, user, minted, slotRaced, auth>>

-----------------------------------------------------------------------------
(* Refresh.                                                                *)

Refreshing(s) == \E a \in AuthCalls : auth[a].step = "renew" /\ auth[a].token.slot = s

Known(s, v) == v \in {row[s].token, row[s].old}

\* refreshAccessToken reads the row and judges the token.  A device that is
\* refused gives its token up.
BeginRefresh(a, d) ==
    LET s == holds[d].slot
        v == holds[d].value IN
    /\ auth[a] = AuthIdle
    /\ holds[d] # NoToken
    /\ slotRaced' = IF Refreshing(s) THEN slotRaced \cup {s} ELSE slotRaced
    /\ IF row[s].state = "live" /\ Known(s, v)
       THEN /\ auth' = [auth EXCEPT ![a] =
                          [AuthIdle EXCEPT !.step = "renew", !.device = d,
                                           !.token = [slot |-> s, value |-> row[s].token],
                                           !.current = (v = row[s].token)]]
            /\ UNCHANGED <<row, holds>>
       ELSE /\ row' = IF row[s].state = "live" THEN Deleted(s) ELSE row
            /\ holds' = [holds EXCEPT ![d] = NoToken]
            /\ auth' = auth
    /\ UNCHANGED <<codeVars, user, minted, ended>>

\* Mutant: the old token is always the one that the refresh has read.
OldTokenAlways(a) == auth[a].token.value

\* The old token moves on only when the device has shown the current one.
OldToken(a) ==
    LET renewal == auth[a] IN
    IF renewal.current THEN renewal.token.value ELSE row[renewal.token.slot].old

\* updateMany by id: nothing happens to a row that is gone.
Updated(s, r) == IF Present(s) THEN [row EXCEPT ![s] = r] ELSE row

\* The answer is sent even if the row is gone.
Renew(a) ==
    LET s == auth[a].token.slot IN
    /\ auth[a].step = "renew"
    /\ minted < MaxToken
    /\ minted' = minted + 1
    /\ row' = Updated(s, [state |-> "live", token |-> minted + 1, old |-> OldToken(a)])
    /\ Answer(a, [slot |-> s, value |-> minted + 1])
    /\ AuthFinish(a)
    /\ UNCHANGED <<codeVars, user, slotRaced, ended>>

\* Thirty days without a refresh; the cleanup of the night deletes the row.
SessionExpires(s) ==
    /\ row[s].state = "live"
    /\ row' = [row EXCEPT ![s].state = "expired"]
    /\ ended' = ended \cup {s}
    /\ UNCHANGED <<codeVars, user, minted, slotRaced, holds, auth>>

CleanupExpiredSessions ==
    /\ \E s \in Slots : row[s].state = "expired"
    /\ row' = [s \in Slots |-> IF row[s].state = "expired" THEN [row[s] EXCEPT !.state = "gone"]
                               ELSE row[s]]
    /\ UNCHANGED <<codeVars, user, minted, slotRaced, ended, holds, auth>>

SNext ==
    \/ SendOtp \/ OtpExpires
    \/ \E a \in AuthCalls :
          \/ \E d \in Devices : BeginVerify(a, d) \/ BeginRefresh(a, d)
          \/ WrongAnswer(a) \/ RightAnswer(a)
          \/ FindUser(a) \/ MakeUser(a) \/ DropStale(a) \/ OpenSession(a)
          \/ Renew(a)
    \/ \E d \in Devices : Logout(d)
    \/ \E s \in Slots : SessionExpires(s)
    \/ CleanupExpiredSessions

SSpec == SInit /\ [][SNext]_svars

-----------------------------------------------------------------------------
(* Properties.                                                             *)

\* A device may lose any number of answers and ask again: as long as no two
\* refreshes of its session overlap, the token that it holds is one of the two
\* that the row knows, and the session is not terminated under it.
DeviceKeepsSession ==
    \A d \in Devices : LET s == holds[d].slot IN
        holds[d] # NoToken /\ s \notin slotRaced \cup ended =>
            Present(s) /\ Known(s, holds[d].value)

\* Unless verifications overlap, a code wins at most once and is wrong at most
\* MaxRetryCount times: the counter is written back with every wrong answer.
CodeIsSpent ==
    ~codeRaced => \A k \in 1..MaxCodes : used[k] <= 1 /\ tried[k] <= MaxRetryCount
=============================================================================
