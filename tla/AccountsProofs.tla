---------------------------- MODULE AccountsProofs ---------------------------
(***************************************************************************)
(* Proofs about Sessions, AdminAccounts and AdminNotifications, for any    *)
(* number of sessions, devices, codes, users, requests, browsers and       *)
(* notifications.                                                          *)
(*                                                                         *)
(* A session is of one device (SessionsAreOwned).  A refresh that has read *)
(* the row and is alone with it replaces the tokens by the new one and the *)
(* one that the device has shown (RenewalsFit); so if the answer is lost,  *)
(* the device still has a token that the row knows.                        *)
(*                                                                         *)
(* A verification that nothing has overlapped has the record that is in    *)
(* Redis, and its count is that of the wrong answers (CodesFit).           *)
(*                                                                         *)
(* A login in progress must satisfy of its password and its user what is   *)
(* promised of the session that it will make (LoginsAreInvalidated).       *)
(*                                                                         *)
(* The portal's notifications leave users and sessions as AdminAccounts    *)
(* has them (RefinesAccounts), so what is proved of those holds here.  A   *)
(* session's token was saved for the user of the session (TokensFit),      *)
(* since a session never changes hands; who has a manager's access token   *)
(* has managed (RolesAreSeen), so who is on the topic was put there by one *)
(* (TopicFits); and until it is over a notification has pushed nothing     *)
(* (NoticesFit).                                                           *)
(***************************************************************************)
EXTENDS Sessions, AdminNotifications, TLAPS

USE DEF codeVars, sessionVars

Token == [slot : Slots \cup {NoSlot}, value : Nat]
Code  == [code : 0..MaxCodes, tries : Nat]
Auth  == [step : {"idle", "judge", "find", "create", "stale", "open", "renew"},
          device : Devices \cup {NoDevice}, code : Code, token : Token, current : BOOLEAN]
Row   == [state : {"none", "live", "expired", "gone"}, token : Nat, old : Nat]

\* Types; a request that was begun has a device, one that judges a code or
\* renews a session has its code or its session.
SessionsTypeOK ==
    /\ sent \in 0..MaxCodes
    /\ otp \in Code /\ (otp # NoCode => otp.code \in 1..MaxCodes)
    /\ tried \in [1..MaxCodes -> Nat]
    /\ used \in [1..MaxCodes -> Nat]
    /\ user \in BOOLEAN
    /\ row \in [Slots -> Row]
    /\ minted \in Nat
    /\ holds \in [Devices -> Token]
    /\ auth \in [AuthCalls -> Auth]
    /\ codeRaced \in BOOLEAN
    /\ slotRaced \subseteq Slots
    /\ ended \subseteq Slots

AuthIsMade(r) ==
    /\ r.step # "idle" => r.device \in Devices
    /\ r.step = "judge" => r.code.code \in 1..MaxCodes
    /\ r.step = "renew" => r.token.slot \in Slots

AuthsAreMade == \A a \in AuthCalls : AuthIsMade(auth[a])

Held(d) == holds[d] # NoToken

HeldIsMade ==
    /\ \A d \in Devices : Held(d) => holds[d].slot \in Slots /\ row[holds[d].slot].state # "none"
    /\ \A a \in AuthCalls : auth[a].step = "renew" => row[auth[a].token.slot].state # "none"

ExpiredIsEnded == \A s \in Slots : row[s].state = "expired" => s \in ended

\* A session is of the device that has opened it.
SessionsAreOwned ==
    \E owner \in [Slots -> Devices \cup {NoDevice}] :
        /\ \A d \in Devices : Held(d) => owner[holds[d].slot] = d
        /\ \A a \in AuthCalls : auth[a].step = "renew" => owner[auth[a].token.slot] = auth[a].device

\* A session's refresh is alone, and the row and the token are as it has seen them.
RenewalFits(r) ==
    LET s == r.token.slot IN
    r.step = "renew" /\ s \notin slotRaced \cup ended =>
        /\ Present(s)
        /\ r.token.value = row[s].token
        /\ \A d \in Devices : Held(d) /\ holds[d].slot = s =>
              holds[d].value = IF r.current THEN row[s].token ELSE row[s].old

RenewalsFit ==
    /\ \A a \in AuthCalls : RenewalFits(auth[a])
    /\ \A a, b \in AuthCalls :
          /\ auth[a].step = "renew" /\ auth[b].step = "renew"
          /\ auth[a].token.slot = auth[b].token.slot /\ auth[a].token.slot \notin slotRaced
          => a = b

SessionsInv ==
    /\ SessionsTypeOK
    /\ AuthsAreMade
    /\ HeldIsMade
    /\ ExpiredIsEnded
    /\ SessionsAreOwned
    /\ RenewalsFit
    /\ DeviceKeepsSession

\* What Redis has of the latest code, and what the only verification has read.
CodesFit ==
    /\ \A k \in 1..MaxCodes : used[k] <= 1 /\ tried[k] <= MaxRetryCount
    /\ \A k \in 1..MaxCodes : k > sent => used[k] = 0 /\ tried[k] = 0
    /\ otp # NoCode => /\ otp.code \in 1..sent
                       /\ used[otp.code] = 0
                       /\ tried[otp.code] = otp.tries
    /\ \A a, b \in Verifying : a = b
    /\ \A a \in Verifying : auth[a].code = otp /\ otp # NoCode /\ otp.tries < MaxRetryCount

CodesInv == ~codeRaced => CodesFit
-----------------------------------------------------------------------------
(* Sessions: types, and who a request is of.                               *)

LEMMA SessionsInitType == SInit => SessionsTypeOK /\ AuthsAreMade
<1> SUFFICES ASSUME SInit PROVE SessionsTypeOK /\ AuthsAreMade
  OBVIOUS
<1>1. /\ NoCode \in Code /\ NoToken \in Token
      /\ AuthIdle.step = "idle" /\ AuthIdle.code = NoCode /\ AuthIdle.token = NoToken
  BY BoundAssumption DEF NoCode, Code, NoToken, Token, AuthIdle
<1>2. AuthIdle \in Auth
  BY <1>1 DEF AuthIdle, Auth
<1>3. codeRaced \in BOOLEAN /\ user \in BOOLEAN
  BY Zenon DEF SInit
<1>4. /\ sent \in 0..MaxCodes /\ otp \in Code /\ otp = NoCode /\ minted \in Nat
      /\ tried \in [1..MaxCodes -> Nat] /\ used \in [1..MaxCodes -> Nat]
  BY <1>1, BoundAssumption DEF SInit
<1>5. /\ row \in [Slots -> Row] /\ holds \in [Devices -> Token]
      /\ auth \in [AuthCalls -> Auth] /\ slotRaced \subseteq Slots /\ ended \subseteq Slots
  BY <1>1, <1>2 DEF SInit, Row
<1>6. AuthsAreMade
  BY <1>1 DEF SInit, AuthsAreMade, AuthIsMade
<1> QED
  BY <1>3, <1>4, <1>5, <1>6 DEF SessionsTypeOK

LEMMA IdleType == AuthIdle \in Auth /\ AuthIsMade(AuthIdle)
<1>1. NoCode \in Code /\ NoToken \in Token
  BY BoundAssumption DEF NoCode, Code, NoToken, Token
<1>2. /\ AuthIdle.step = "idle" /\ AuthIdle.device = NoDevice /\ AuthIdle.code = NoCode
      /\ AuthIdle.token = NoToken /\ AuthIdle.current = FALSE
  BY DEF AuthIdle
<1> QED
  BY <1>1, <1>2 DEF AuthIdle, Auth, AuthIsMade

\* What a verification and a refresh start with.
LEMMA VerifyType ==
    ASSUME SessionsTypeOK, NEW d \in Devices, otp # NoCode, NEW r,
           r = [AuthIdle EXCEPT !.step = "judge", !.device = d, !.code = otp]
    PROVE  r \in Auth /\ r.step = "judge" /\ r.device = d /\ r.code = otp
<1>1. AuthIdle \in Auth
  BY IdleType
<1>2. otp \in Code
  BY DEF SessionsTypeOK
<1> QED
  BY <1>1, <1>2 DEF Auth

\* What a refresh that may go on starts with.
LEMMA RefreshBegins ==
    ASSUME SessionsTypeOK, HeldIsMade, NEW a \in AuthCalls, NEW d \in Devices, BeginRefresh(a, d),
           auth' # auth
    PROVE  LET s == holds[d].slot IN
           /\ Held(d) /\ s \in Slots /\ row[s].state = "live" /\ Known(s, holds[d].value)
           /\ UNCHANGED <<row, holds>>
           /\ slotRaced' = IF Refreshing(s) THEN slotRaced \cup {s} ELSE slotRaced
           /\ \E r \in Auth :
                 /\ auth' = [auth EXCEPT ![a] = r]
                 /\ r.step = "renew" /\ r.device = d
                 /\ r.token.slot = s /\ r.token.value = row[s].token
                 /\ r.current = (holds[d].value = row[s].token)
<1>1. PICK s, v : s = holds[d].slot /\ v = holds[d].value
  OBVIOUS
<1>2. /\ Held(d) /\ s \in Slots /\ row[s].state = "live" /\ Known(s, v)
      /\ UNCHANGED <<row, holds>>
      /\ slotRaced' = IF Refreshing(s) THEN slotRaced \cup {s} ELSE slotRaced
  BY <1>1 DEF BeginRefresh, HeldIsMade, Held
<1>3. PICK t : t = [slot |-> s, value |-> row[s].token]
  OBVIOUS
<1>4. t \in Token /\ t.slot = s /\ t.value = row[s].token
  BY <1>2, <1>3 DEF SessionsTypeOK, Row, Token
<1>5. PICK current : current = (v = row[s].token)
  OBVIOUS
<1>6. current \in BOOLEAN
  BY <1>5, Zenon
<1>7. PICK r : r = [AuthIdle EXCEPT !.step = "renew", !.device = d, !.token = t, !.current = current]
  OBVIOUS
<1>8. r \in Auth /\ r.step = "renew" /\ r.device = d /\ r.token = t /\ r.current = current
  BY <1>4, <1>6, <1>7, IdleType DEF Auth
<1>9. auth' = [auth EXCEPT ![a] = r]
  BY <1>1, <1>3, <1>5, <1>7 DEF BeginRefresh
<1> QED
  BY <1>1, <1>2, <1>4, <1>5, <1>8, <1>9

\* How a request changes: not at all, to its end, on to a step without a session
\* or a code, or it starts.
AuthMoves(r, q) ==
    \/ q = r
    \/ q = AuthIdle
    \/ /\ r.step # "idle"
       /\ \E to \in {"find", "create", "stale", "open"} : q = [r EXCEPT !.step = to]

LEMMA MovesKeep ==
    ASSUME NEW r \in Auth, NEW q, AuthIsMade(r), AuthMoves(r, q)
    PROVE  q \in Auth /\ AuthIsMade(q)
<1>1. CASE q = r \/ q = AuthIdle
  BY <1>1, IdleType
<1>2. ASSUME NEW to \in {"find", "create", "stale", "open"}, r.step # "idle", q = [r EXCEPT !.step = to]
      PROVE  q \in Auth /\ AuthIsMade(q)
  BY <1>2 DEF Auth, AuthIsMade
<1> QED
  BY <1>1, <1>2 DEF AuthMoves

\* The requests of a step.
LEMMA AuthCases ==
    ASSUME SessionsTypeOK, AuthsAreMade, [SNext]_svars
    PROVE  \/ \A a \in AuthCalls : AuthMoves(auth[a], auth'[a])
           \/ \E a \in AuthCalls, d \in Devices : BeginVerify(a, d) /\ auth' # auth
           \/ \E a \in AuthCalls, d \in Devices : BeginRefresh(a, d) /\ auth' # auth
<1>1. ASSUME NEW a \in AuthCalls, AuthFinish(a), NEW b \in AuthCalls PROVE AuthMoves(auth[b], auth'[b])
  BY <1>1 DEF AuthFinish, AuthMoves, SessionsTypeOK
<1>2. ASSUME NEW a \in AuthCalls, NEW from \in {"judge", "find", "create", "stale"},
             NEW to \in {"find", "create", "stale", "open"}, AuthGo(a, from, to), NEW b \in AuthCalls
      PROVE  AuthMoves(auth[b], auth'[b])
  BY <1>2 DEF AuthGo, AuthMoves, SessionsTypeOK
<1>3. ASSUME auth' = auth, NEW b \in AuthCalls PROVE AuthMoves(auth[b], auth'[b])
  BY <1>3 DEF AuthMoves
<1>4. ASSUME NEW a \in AuthCalls, WrongAnswer(a) \/ OpenSession(a) \/ Renew(a), NEW b \in AuthCalls
      PROVE  AuthMoves(auth[b], auth'[b])
  BY <1>1, <1>4 DEF WrongAnswer, OpenSession, Renew
<1>5. ASSUME NEW a \in AuthCalls, RightAnswer(a) \/ FindUser(a) \/ MakeUser(a) \/ DropStale(a), NEW b \in AuthCalls
      PROVE  AuthMoves(auth[b], auth'[b])
  BY <1>1, <1>2, <1>5 DEF RightAnswer, FindUser, MakeUser, DropStale
<1>6. ASSUME \/ SendOtp \/ OtpExpires \/ (\E d \in Devices : Logout(d)) \/ CleanupExpiredSessions
             \/ (\E s \in Slots : SessionExpires(s)) \/ UNCHANGED svars
      PROVE  auth' = auth
  BY <1>6 DEF SendOtp, OtpExpires, Logout, CleanupExpiredSessions, SessionExpires, svars
<1> QED
  BY <1>3, <1>4, <1>5, <1>6 DEF SNext

LEMMA AuthStep ==
    ASSUME SessionsTypeOK, AuthsAreMade, HeldIsMade, [SNext]_svars
    PROVE  auth' \in [AuthCalls -> Auth] /\ AuthsAreMade'
<1> SUFFICES /\ auth' = [a \in AuthCalls |-> auth'[a]]
             /\ \A a \in AuthCalls : auth'[a] \in Auth /\ AuthIsMade(auth'[a])
  BY DEF AuthsAreMade, AuthIsMade
<1>1. auth' = [a \in AuthCalls |-> auth'[a]]
  BY DEF SessionsTypeOK, SNext, SendOtp, OtpExpires, BeginVerify, WrongAnswer, RightAnswer, FindUser, MakeUser,
     DropStale, OpenSession, Logout, BeginRefresh, Renew, SessionExpires, CleanupExpiredSessions, AuthGo,
     AuthFinish, svars
<1>2. \A a \in AuthCalls : auth[a] \in Auth /\ AuthIsMade(auth[a])
  BY DEF SessionsTypeOK, AuthsAreMade
<1>3. CASE \A a \in AuthCalls : AuthMoves(auth[a], auth'[a])
  BY <1>1, <1>2, <1>3, MovesKeep
<1>4. ASSUME NEW a \in AuthCalls, NEW d \in Devices, BeginVerify(a, d), auth' # auth,
             NEW b \in AuthCalls
      PROVE  auth'[b] \in Auth /\ AuthIsMade(auth'[b])
  <2>1. PICK r : r = [AuthIdle EXCEPT !.step = "judge", !.device = d, !.code = otp]
    OBVIOUS
  <2>2. auth' = [auth EXCEPT ![a] = r] /\ otp # NoCode
    BY <1>4, <2>1 DEF BeginVerify
  <2>3. r \in Auth /\ r.step = "judge" /\ r.device = d /\ r.code = otp
    BY <2>1, <2>2, VerifyType
  <2>4. AuthIsMade(r)
    BY <2>2, <2>3 DEF AuthIsMade, SessionsTypeOK
  <2>5. auth'[b] = IF b = a THEN r ELSE auth[b]
    BY <2>2 DEF SessionsTypeOK
  <2> QED
    BY <1>2, <2>3, <2>4, <2>5
<1>5. ASSUME NEW a \in AuthCalls, NEW d \in Devices, BeginRefresh(a, d), auth' # auth,
             NEW b \in AuthCalls
      PROVE  auth'[b] \in Auth /\ AuthIsMade(auth'[b])
  <2>1. PICK r \in Auth : /\ auth' = [auth EXCEPT ![a] = r]
                          /\ r.step = "renew" /\ r.device = d /\ r.token.slot \in Slots
    BY <1>5, RefreshBegins
  <2>2. AuthIsMade(r)
    BY <2>1 DEF AuthIsMade
  <2>3. auth'[b] = IF b = a THEN r ELSE auth[b]
    BY <2>1 DEF SessionsTypeOK
  <2> QED
    BY <1>2, <2>1, <2>2, <2>3
<1>6. CASE ~\A a \in AuthCalls : AuthMoves(auth[a], auth'[a])
  <2>1. \A b \in AuthCalls : auth'[b] \in Auth /\ AuthIsMade(auth'[b])
    BY <1>4, <1>5, <1>6, AuthCases
  <2> QED
    BY <1>1, <2>1
<1> QED
  BY <1>3, <1>6

LEMMA SessionsTypeStep ==
    ASSUME SessionsTypeOK, AuthsAreMade, HeldIsMade, [SNext]_svars
    PROVE  SessionsTypeOK'
<1>1. auth' \in [AuthCalls -> Auth]
  BY AuthStep
<1>2. PICK n : n = minted + 1
  OBVIOUS
<1>3. n \in Nat
  BY <1>2 DEF SessionsTypeOK
<1>4. (codeRaced \/ Verifying # {}) \in BOOLEAN
  BY Zenon
<1>5. CASE SendOtp
  <2>1. codeRaced' \in BOOLEAN
    BY <1>4, <1>5, Zenon DEF SendOtp
  <2>2. otp' \in Code /\ otp'.code \in 1..MaxCodes /\ sent' \in 0..MaxCodes
    BY <1>5, BoundAssumption DEF SendOtp, SessionsTypeOK, Code
  <2> QED
    BY <1>1, <1>5, <2>1, <2>2 DEF SendOtp, SessionsTypeOK
<1>6. CASE OtpExpires
  BY <1>1, <1>4, <1>6, BoundAssumption DEF OtpExpires, SessionsTypeOK, Code, NoCode
<1>7. ASSUME NEW a \in AuthCalls, NEW d \in Devices, BeginVerify(a, d) PROVE SessionsTypeOK'
  <2>1. codeRaced' \in BOOLEAN
    BY <1>4, <1>7, Zenon DEF BeginVerify
  <2>2. otp' \in Code /\ (otp' # NoCode => otp'.code \in 1..MaxCodes)
    BY <1>7, BoundAssumption DEF BeginVerify, SessionsTypeOK, Code, NoCode
  <2> QED
    BY <1>1, <1>7, <2>1, <2>2 DEF BeginVerify, SessionsTypeOK
<1>8. ASSUME NEW a \in AuthCalls, WrongAnswer(a) PROVE SessionsTypeOK'
  <2>1. PICK seen : seen = auth[a].code
    OBVIOUS
  <2>2. seen \in Code /\ seen.code \in 1..MaxCodes
    BY <1>8, <2>1 DEF WrongAnswer, SessionsTypeOK, Auth, AuthsAreMade, AuthIsMade
  <2>3. [seen EXCEPT !.tries = @ + 1] \in Code /\ [seen EXCEPT !.tries = @ + 1].code = seen.code
    BY <2>2 DEF Code
  <2> QED
    BY <1>1, <1>8, <2>1, <2>2, <2>3 DEF WrongAnswer, SessionsTypeOK
<1>9. ASSUME NEW a \in AuthCalls, RightAnswer(a) PROVE SessionsTypeOK'
  <2>1. PICK k : k = auth[a].code.code
    OBVIOUS
  <2>2. k \in 1..MaxCodes
    BY <1>9, <2>1 DEF RightAnswer, AuthGo, AuthsAreMade, AuthIsMade
  <2>3. used' \in [1..MaxCodes -> Nat]
    BY <1>9, <2>1, <2>2 DEF RightAnswer, SessionsTypeOK
  <2>4. otp' = NoCode /\ NoCode \in Code
    BY <1>9, BoundAssumption DEF RightAnswer, NoCode, Code
  <2> QED
    BY <1>1, <1>9, <2>3, <2>4 DEF RightAnswer, SessionsTypeOK
<1>10. ASSUME NEW a \in AuthCalls, FindUser(a) \/ MakeUser(a) PROVE SessionsTypeOK'
  BY <1>1, <1>10 DEF FindUser, MakeUser, SessionsTypeOK
<1>11. ASSUME NEW s \in Slots PROVE Deleted(s) \in [Slots -> Row]
  BY DEF Deleted, SessionsTypeOK, Row
<1>12. ASSUME NEW a \in AuthCalls, DropStale(a) PROVE SessionsTypeOK'
  <2>1. holds[auth[a].device].slot \in Slots \cup {NoSlot}
    BY <1>12 DEF DropStale, AuthGo, AuthsAreMade, AuthIsMade, SessionsTypeOK, Token
  <2> QED
    BY <1>1, <1>11, <1>12, <2>1 DEF DropStale, SessionsTypeOK
<1>13. ASSUME NEW a \in AuthCalls, OpenSession(a) PROVE SessionsTypeOK'
  <2>1. PICK s \in Slots :
            /\ row' = [row EXCEPT ![s] = [state |-> "live", token |-> n, old |-> 0]]
            /\ Answer(a, [slot |-> s, value |-> n])
    BY <1>2, <1>13 DEF OpenSession
  <2>2. [slot |-> s, value |-> n] \in Token /\ [state |-> "live", token |-> n, old |-> 0] \in Row
    BY <1>3 DEF Token, Row
  <2> QED
    BY <1>1, <1>2, <1>3, <1>13, <2>1, <2>2 DEF OpenSession, Answer, SessionsTypeOK
<1>14. ASSUME NEW d \in Devices, Logout(d) PROVE SessionsTypeOK'
  <2>1. NoToken \in Token /\ holds[d].slot \in Slots
    BY <1>14 DEF NoToken, Token, Logout, HeldIsMade, Held
  <2> QED
    BY <1>1, <1>11, <1>14, <2>1 DEF Logout, SessionsTypeOK
<1>15. ASSUME NEW a \in AuthCalls, NEW d \in Devices, BeginRefresh(a, d) PROVE SessionsTypeOK'
  <2>1. NoToken \in Token /\ holds[d].slot \in Slots
    BY <1>15 DEF NoToken, Token, BeginRefresh, HeldIsMade, Held
  <2>2. row' \in [Slots -> Row]
    BY <1>11, <1>15, <2>1 DEF BeginRefresh, SessionsTypeOK
  <2>3. holds' \in [Devices -> Token] /\ slotRaced' \subseteq Slots
    BY <1>15, <2>1 DEF BeginRefresh, SessionsTypeOK
  <2> QED
    BY <1>1, <1>15, <2>2, <2>3 DEF BeginRefresh, SessionsTypeOK
<1>16. ASSUME NEW a \in AuthCalls, Renew(a) PROVE SessionsTypeOK'
  <2>1. PICK s : s = auth[a].token.slot
    OBVIOUS
  <2>2. s \in Slots /\ auth[a].token.value \in Nat /\ row[s].old \in Nat
    BY <1>16, <2>1 DEF Renew, AuthsAreMade, AuthIsMade, SessionsTypeOK, Auth, Token, Row
  <2>3. OldToken(a) \in Nat
    BY <2>1, <2>2 DEF OldToken
  <2>4. [slot |-> s, value |-> n] \in Token /\ [state |-> "live", token |-> n, old |-> OldToken(a)] \in Row
    BY <1>3, <2>2, <2>3 DEF Token, Row
  <2>5. row' \in [Slots -> Row]
    BY <1>2, <1>16, <2>1, <2>4 DEF Renew, Updated, SessionsTypeOK
  <2>6. holds' \in [Devices -> Token]
    BY <1>2, <1>16, <2>1, <2>4 DEF Renew, Answer, SessionsTypeOK
  <2> QED
    BY <1>1, <1>2, <1>3, <1>16, <2>5, <2>6 DEF Renew, SessionsTypeOK
<1>17. ASSUME NEW s \in Slots, SessionExpires(s) PROVE SessionsTypeOK'
  BY <1>1, <1>17 DEF SessionExpires, SessionsTypeOK, Row
<1>18. CASE CleanupExpiredSessions
  BY <1>1, <1>18 DEF CleanupExpiredSessions, SessionsTypeOK, Row
<1>19. CASE UNCHANGED svars
  BY <1>19 DEF svars, SessionsTypeOK
<1> QED
  BY <1>5, <1>6, <1>7, <1>8, <1>9, <1>10, <1>12, <1>13, <1>14, <1>15, <1>16, <1>17, <1>18, <1>19 DEF SNext
-----------------------------------------------------------------------------
(* Sessions: a device keeps its session.                                   *)

\* A refresh is in progress that was before, or it begins.
LEMMA RenewStays ==
    ASSUME SessionsTypeOK, AuthsAreMade, [SNext]_svars,
           \A a \in AuthCalls, d \in Devices : BeginRefresh(a, d) => auth' = auth,
           NEW b \in AuthCalls, auth'[b].step = "renew"
    PROVE  auth'[b] = auth[b]
<1>1. CASE \A a \in AuthCalls : AuthMoves(auth[a], auth'[a])
  <2>1. PICK r, q : r = auth[b] /\ q = auth'[b]
    OBVIOUS
  <2>2. AuthMoves(r, q) /\ q.step = "renew" /\ r \in Auth
    BY <1>1, <2>1 DEF SessionsTypeOK
  <2>3. q = r
    BY <2>2 DEF AuthMoves, AuthIdle, Auth
  <2> QED
    BY <2>1, <2>3
<1>2. ASSUME NEW a \in AuthCalls, NEW d \in Devices, BeginVerify(a, d), auth' # auth
      PROVE  auth'[b] = auth[b]
  <2>1. PICK r : r = [AuthIdle EXCEPT !.step = "judge", !.device = d, !.code = otp]
    OBVIOUS
  <2>2. auth' = [auth EXCEPT ![a] = r] /\ otp # NoCode
    BY <1>2, <2>1 DEF BeginVerify
  <2>3. r.step = "judge"
    BY <2>1, <2>2, VerifyType
  <2> QED
    BY <2>2, <2>3 DEF SessionsTypeOK
<1> QED
  BY <1>1, <1>2, AuthCases

\* How the token of a device changes.
HoldsNew(a, s) ==
    \/ Renew(a) /\ s = auth[a].token.slot
    \/ OpenSession(a) /\ row[s].state = "none" /\ row'[s].state = "live" /\ row'[s].token = minted + 1

LEMMA HoldCases ==
    ASSUME SessionsTypeOK, AuthsAreMade, [SNext]_svars, NEW d \in Devices
    PROVE  \/ holds'[d] = holds[d]
           \/ holds'[d] = NoToken
           \/ \E a \in AuthCalls, s \in Slots :
                 /\ HoldsNew(a, s) /\ auth[a].device = d
                 /\ holds'[d].slot = s /\ holds'[d].value = minted + 1
<1> DEFINE New == \E a \in AuthCalls, s \in Slots :
                 /\ HoldsNew(a, s) /\ auth[a].device = d
                 /\ holds'[d].slot = s /\ holds'[d].value = minted + 1
<1>1. ASSUME NEW a \in AuthCalls, NEW s \in Slots, HoldsNew(a, s),
             Answer(a, [slot |-> s, value |-> minted + 1])
      PROVE  holds'[d] = holds[d] \/ New
  BY <1>1 DEF Answer, SessionsTypeOK
<1> HIDE DEF New
<1>2. ASSUME NEW a \in AuthCalls, Renew(a) PROVE holds'[d] = holds[d] \/ New
  <2>1. auth[a].token.slot \in Slots
    BY <1>2 DEF Renew, AuthsAreMade, AuthIsMade
  <2> QED
    BY <1>1, <1>2, <2>1 DEF Renew, HoldsNew
<1>3. ASSUME NEW a \in AuthCalls, OpenSession(a) PROVE holds'[d] = holds[d] \/ New
  <2>1. PICK s \in Slots :
            /\ row[s].state = "none"
            /\ row' = [row EXCEPT ![s] = [state |-> "live", token |-> minted + 1, old |-> 0]]
            /\ Answer(a, [slot |-> s, value |-> minted + 1])
    BY <1>3 DEF OpenSession
  <2>2. HoldsNew(a, s)
    BY <1>3, <2>1 DEF HoldsNew, SessionsTypeOK
  <2> QED
    BY <1>1, <2>1, <2>2
<1>4. ASSUME NEW e \in Devices, Logout(e) \/ (\E a \in AuthCalls : BeginRefresh(a, e))
      PROVE  holds'[d] = holds[d] \/ holds'[d] = NoToken
  BY <1>4 DEF Logout, BeginRefresh, SessionsTypeOK
<1>5. ASSUME \/ SendOtp \/ OtpExpires \/ CleanupExpiredSessions \/ UNCHANGED svars
             \/ (\E s \in Slots : SessionExpires(s))
             \/ \E a \in AuthCalls :
                   \/ \E e \in Devices : BeginVerify(a, e)
                   \/ WrongAnswer(a) \/ RightAnswer(a) \/ FindUser(a) \/ MakeUser(a) \/ DropStale(a)
      PROVE  holds' = holds
  BY <1>5 DEF SendOtp, OtpExpires, CleanupExpiredSessions, SessionExpires, BeginVerify, WrongAnswer,
     RightAnswer, FindUser, MakeUser, DropStale, svars
<1> QED
  BY <1>2, <1>3, <1>4, <1>5 DEF SNext, New

\* How a row changes: only a refresh and a login write tokens.
RowEnds(s) ==
    /\ row'[s].token = row[s].token /\ row'[s].old = row[s].old
    /\ \/ row'[s].state = row[s].state
       \/ Present(s) /\ row'[s].state # "none" /\ s \in ended'

LEMMA RowCases ==
    ASSUME SessionsTypeOK, AuthsAreMade, HeldIsMade, ExpiredIsEnded, [SNext]_svars, NEW s \in Slots
    PROVE  \/ RowEnds(s)
           \/ \E a \in AuthCalls, d \in Devices :
                 BeginRefresh(a, d) /\ Held(d) /\ holds[d].slot = s /\ ~Known(s, holds[d].value)
                    /\ row[s].state = "live" /\ row'[s].state = "gone"
           \/ \E a \in AuthCalls : Renew(a) /\ s = auth[a].token.slot
           \/ \E a \in AuthCalls : OpenSession(a) /\ row[s].state = "none" /\ row'[s].state = "live"
                                     /\ row'[s].token = minted + 1
<1>1. ASSUME row' = row PROVE RowEnds(s)
  BY <1>1 DEF RowEnds
<1>2. ASSUME NEW t \in Slots, row' = Deleted(t), t \in ended' PROVE RowEnds(s)
  BY <1>2 DEF RowEnds, Deleted, Present, SessionsTypeOK, Row
<1>3. ASSUME NEW a \in AuthCalls, DropStale(a) PROVE RowEnds(s)
  <2>1. holds[auth[a].device].slot \in Slots \cup {NoSlot}
    BY <1>3 DEF DropStale, AuthGo, AuthsAreMade, AuthIsMade, SessionsTypeOK, Token
  <2> QED
    BY <1>1, <1>2, <1>3, <2>1 DEF DropStale
<1>4. ASSUME NEW d \in Devices, Logout(d) PROVE RowEnds(s)
  <2>1. holds[d].slot \in Slots
    BY <1>4 DEF Logout, HeldIsMade, Held
  <2> QED
    BY <1>2, <1>4, <2>1 DEF Logout
<1>5. ASSUME NEW t \in Slots, SessionExpires(t) PROVE RowEnds(s)
  BY <1>5 DEF SessionExpires, RowEnds, Present, SessionsTypeOK, Row
<1>6. CASE CleanupExpiredSessions
  BY <1>6 DEF CleanupExpiredSessions, RowEnds, Present, SessionsTypeOK, Row, ExpiredIsEnded
<1>7. ASSUME NEW a \in AuthCalls, NEW d \in Devices, BeginRefresh(a, d)
      PROVE  \/ RowEnds(s)
             \/ Held(d) /\ holds[d].slot = s /\ ~Known(s, holds[d].value)
                    /\ row[s].state = "live" /\ row'[s].state = "gone"
  <2>1. holds[d].slot \in Slots /\ Held(d)
    BY <1>7 DEF BeginRefresh, HeldIsMade, Held
  <2>2. CASE row' = row
    BY <1>1, <2>2
  <2>3. CASE row' # row
    <3>1. PICK t : t = holds[d].slot
      OBVIOUS
    <3>2. row[t].state = "live" /\ ~Known(t, holds[d].value) /\ row' = Deleted(t)
      BY <1>7, <2>3, <3>1 DEF BeginRefresh
    <3>3. row' = [row EXCEPT ![t].state = "gone"]
      BY <3>2 DEF Deleted, Present
    <3> QED
      BY <2>1, <3>1, <3>2, <3>3 DEF RowEnds, SessionsTypeOK, Row
  <2> QED
    BY <2>2, <2>3
<1>8. ASSUME NEW a \in AuthCalls, Renew(a), s # auth[a].token.slot PROVE RowEnds(s)
  BY <1>8 DEF Renew, Updated, RowEnds, SessionsTypeOK
<1>9. ASSUME NEW a \in AuthCalls, OpenSession(a)
      PROVE  RowEnds(s) \/ (row[s].state = "none" /\ row'[s].state = "live" /\ row'[s].token = minted + 1)
  BY <1>9 DEF OpenSession, RowEnds, SessionsTypeOK
<1>10. ASSUME \/ SendOtp \/ OtpExpires \/ UNCHANGED svars
              \/ \E a \in AuthCalls :
                    \/ \E d \in Devices : BeginVerify(a, d)
                    \/ WrongAnswer(a) \/ RightAnswer(a) \/ FindUser(a) \/ MakeUser(a)
       PROVE  row' = row
  BY <1>10 DEF SendOtp, OtpExpires, BeginVerify, WrongAnswer, RightAnswer, FindUser, MakeUser, svars
<1> QED
  BY <1>1, <1>3, <1>4, <1>5, <1>6, <1>7, <1>8, <1>9, <1>10 DEF SNext
LEMMA RenewedRow ==
    ASSUME SessionsTypeOK, NEW a \in AuthCalls, Renew(a), NEW s \in Slots, s = auth[a].token.slot
    PROVE  /\ Present(s) => /\ row'[s].state = "live" /\ row'[s].token = minted + 1
                            /\ row'[s].old = IF auth[a].current THEN auth[a].token.value ELSE row[s].old
           /\ ~Present(s) => row' = row
           /\ UNCHANGED <<slotRaced, ended>>
BY DEF Renew, Updated, OldToken, SessionsTypeOK

LEMMA HeldStep ==
    ASSUME SessionsTypeOK, AuthsAreMade, HeldIsMade, ExpiredIsEnded, [SNext]_svars
    PROVE  HeldIsMade'
<1>1. ASSUME NEW s \in Slots, row[s].state # "none" PROVE row'[s].state # "none"
  <2>1. ASSUME NEW a \in AuthCalls, Renew(a), s = auth[a].token.slot PROVE row'[s].state # "none"
    BY <1>1, <2>1, RenewedRow
  <2> QED
    BY <1>1, <2>1, RowCases DEF RowEnds
<1>2. ASSUME NEW d \in Devices, holds'[d] # NoToken
      PROVE  holds'[d].slot \in Slots /\ row'[holds'[d].slot].state # "none"
  <2>1. CASE holds'[d] = holds[d]
    BY <1>1, <1>2, <2>1 DEF HeldIsMade, Held
  <2>2. ASSUME NEW a \in AuthCalls, NEW s \in Slots, HoldsNew(a, s), holds'[d].slot = s
        PROVE  holds'[d].slot \in Slots /\ row'[holds'[d].slot].state # "none"
    <3>1. Renew(a) /\ s = auth[a].token.slot => row[s].state # "none"
      BY DEF HeldIsMade, Renew
    <3> QED
      BY <1>1, <2>2, <3>1 DEF HoldsNew
  <2> QED
    BY <1>2, <2>1, <2>2, HoldCases
<1>3. ASSUME NEW b \in AuthCalls, auth'[b].step = "renew"
      PROVE  row'[auth'[b].token.slot].state # "none"
  <2>1. ASSUME NEW a \in AuthCalls, NEW d \in Devices, BeginRefresh(a, d), auth' # auth
        PROVE  row'[auth'[b].token.slot].state # "none"
    <3>1. PICK r \in Auth : /\ auth' = [auth EXCEPT ![a] = r]
                            /\ r.token.slot \in Slots /\ row[r.token.slot].state = "live"
      BY <2>1, RefreshBegins
    <3>2. row' = row
      BY <2>1, RefreshBegins
    <3> QED
      BY <1>3, <3>1, <3>2 DEF SessionsTypeOK, HeldIsMade
  <2>2. CASE \A a \in AuthCalls, d \in Devices : BeginRefresh(a, d) => auth' = auth
    <3>1. auth'[b] = auth[b]
      BY <1>3, <2>2, RenewStays
    <3>2. auth[b].token.slot \in Slots /\ row[auth[b].token.slot].state # "none"
      BY <1>3, <3>1 DEF HeldIsMade, AuthsAreMade, AuthIsMade
    <3> QED
      BY <1>1, <3>1, <3>2
  <2> QED
    BY <2>1, <2>2
<1> QED
  BY <1>2, <1>3 DEF HeldIsMade, Held

LEMMA EndedStep ==
    ASSUME SessionsTypeOK, AuthsAreMade, HeldIsMade, ExpiredIsEnded, [SNext]_svars
    PROVE  ExpiredIsEnded' /\ ended \subseteq ended'
<1>1. ended \subseteq ended'
  BY DEF SNext, SendOtp, OtpExpires, BeginVerify, WrongAnswer, RightAnswer, FindUser, MakeUser, DropStale,
     OpenSession, Logout, BeginRefresh, Renew, SessionExpires, CleanupExpiredSessions, svars
<1>2. ASSUME NEW s \in Slots, row'[s].state = "expired" PROVE s \in ended'
  <2>1. ASSUME NEW a \in AuthCalls, Renew(a), s = auth[a].token.slot PROVE s \in ended'
    BY <1>1, <1>2, <2>1, RenewedRow DEF ExpiredIsEnded
  <2> QED
    BY <1>1, <1>2, <2>1, RowCases DEF RowEnds, ExpiredIsEnded
<1> QED
  BY <1>1, <1>2 DEF ExpiredIsEnded

LEMMA OwnedStep ==
    ASSUME SessionsTypeOK, AuthsAreMade, HeldIsMade, ExpiredIsEnded, SessionsAreOwned, [SNext]_svars
    PROVE  SessionsAreOwned'
<1>1. PICK owner \in [Slots -> Devices \cup {NoDevice}] :
          /\ \A d \in Devices : Held(d) => owner[holds[d].slot] = d
          /\ \A a \in AuthCalls : auth[a].step = "renew" => owner[auth[a].token.slot] = auth[a].device
  BY DEF SessionsAreOwned
<1>2. ASSUME \A a \in AuthCalls : ~OpenSession(a) PROVE SessionsAreOwned'
  <2>1. ASSUME NEW d \in Devices, holds'[d] # NoToken PROVE owner[holds'[d].slot] = d
    <3>1. CASE holds'[d] = holds[d]
      BY <1>1, <2>1, <3>1 DEF Held
    <3>2. ASSUME NEW a \in AuthCalls, NEW s \in Slots, HoldsNew(a, s), auth[a].device = d, holds'[d].slot = s
          PROVE  owner[holds'[d].slot] = d
      BY <1>1, <1>2, <3>2 DEF HoldsNew, Renew
    <3> QED
      BY <2>1, <3>1, <3>2, HoldCases
  <2>2. ASSUME NEW b \in AuthCalls, auth'[b].step = "renew"
        PROVE  owner[auth'[b].token.slot] = auth'[b].device
    <3>1. ASSUME NEW a \in AuthCalls, NEW d \in Devices, BeginRefresh(a, d), auth' # auth
          PROVE  owner[auth'[b].token.slot] = auth'[b].device
      <4>1. PICK r \in Auth : /\ auth' = [auth EXCEPT ![a] = r]
                              /\ r.device = d /\ r.token.slot = holds[d].slot
        BY <3>1, RefreshBegins
      <4>2. Held(d)
        BY <3>1, RefreshBegins
      <4> QED
        BY <1>1, <2>2, <4>1, <4>2 DEF SessionsTypeOK
    <3>2. CASE \A a \in AuthCalls, d \in Devices : BeginRefresh(a, d) => auth' = auth
      BY <1>1, <2>2, <3>2, RenewStays
    <3> QED
      BY <3>1, <3>2
  <2> QED
    BY <2>1, <2>2 DEF SessionsAreOwned, Held
<1>3. ASSUME NEW a \in AuthCalls, OpenSession(a) PROVE SessionsAreOwned'
  <2>1. PICK s \in Slots :
            /\ row[s].state = "none"
            /\ Answer(a, [slot |-> s, value |-> minted + 1])
    BY <1>3 DEF OpenSession
  <2>2. auth[a].device \in Devices /\ auth' = [auth EXCEPT ![a] = AuthIdle]
    BY <1>3 DEF OpenSession, AuthFinish, AuthsAreMade, AuthIsMade
  <2>3. PICK new : new = [owner EXCEPT ![s] = auth[a].device]
    OBVIOUS
  <2>4. new \in [Slots -> Devices \cup {NoDevice}]
    BY <2>2, <2>3
  <2>5. ASSUME NEW d \in Devices, holds'[d] # NoToken PROVE new[holds'[d].slot] = d
    <3>1. CASE holds'[d] = holds[d]
      <4>1. holds[d].slot \in Slots /\ holds[d].slot # s /\ owner[holds[d].slot] = d
        BY <1>1, <2>1, <2>5, <3>1 DEF HeldIsMade, Held
      <4> QED
        BY <2>3, <3>1, <4>1
    <3>2. CASE holds'[d] # holds[d]
      <4>1. d = auth[a].device /\ holds'[d].slot = s
        BY <2>1, <3>2 DEF Answer, SessionsTypeOK
      <4> QED
        BY <2>3, <4>1
    <3> QED
      BY <3>1, <3>2
  <2>6. ASSUME NEW b \in AuthCalls, auth'[b].step = "renew"
        PROVE  new[auth'[b].token.slot] = auth'[b].device
    <3>1. auth'[b] = auth[b]
      BY <2>2, <2>6, IdleType DEF SessionsTypeOK, AuthIdle
    <3>2. auth[b].token.slot \in Slots /\ auth[b].token.slot # s
      BY <2>1, <2>6, <3>1 DEF HeldIsMade, AuthsAreMade, AuthIsMade
    <3>3. owner[auth[b].token.slot] = auth[b].device
      BY <1>1, <2>6, <3>1
    <3> QED
      BY <2>3, <3>1, <3>2, <3>3
  <2> QED
    BY <2>4, <2>5, <2>6 DEF SessionsAreOwned, Held
<1> QED
  BY <1>2, <1>3

\* A session is lost to races for good.
LEMMA RacedGrows == ASSUME [SNext]_svars PROVE slotRaced \subseteq slotRaced'
BY DEF SNext, SendOtp, OtpExpires, BeginVerify, WrongAnswer, RightAnswer, FindUser, MakeUser, DropStale,
   OpenSession, Logout, BeginRefresh, Renew, SessionExpires, CleanupExpiredSessions, svars
\* The refreshes of a step in which none begins.
LEMMA RenewalsStay ==
    ASSUME SessionsInv, [SNext]_svars,
           \A a \in AuthCalls, d \in Devices : BeginRefresh(a, d) => auth' = auth,
           NEW b \in AuthCalls, auth'[b].step = "renew",
           NEW s, s = auth[b].token.slot, s \notin slotRaced' \cup ended'
    PROVE  /\ auth'[b] = auth[b] /\ s \in Slots
           /\ Present(s) /\ auth[b].token.value = row[s].token
           /\ \A a \in AuthCalls : Renew(a) => auth[a].token.slot # s
<1>0. SessionsTypeOK /\ AuthsAreMade /\ HeldIsMade /\ ExpiredIsEnded
  BY DEF SessionsInv
<1>1. auth'[b] = auth[b]
  BY <1>0, RenewStays
<1>2. s \notin slotRaced \cup ended /\ s \in Slots
  BY <1>0, <1>1, RacedGrows, EndedStep DEF AuthsAreMade, AuthIsMade
<1>3. RenewalFits(auth[b])
  BY DEF SessionsInv, RenewalsFit
<1>4. Present(s) /\ auth[b].token.value = row[s].token
  BY <1>1, <1>2, <1>3 DEF RenewalFits
<1>5. ASSUME NEW a \in AuthCalls, Renew(a), auth[a].token.slot = s PROVE FALSE
  <2>1. a = b
    BY <1>1, <1>2, <1>5 DEF SessionsInv, RenewalsFit, Renew
  <2>2. auth' = [auth EXCEPT ![a] = AuthIdle]
    BY <1>5 DEF Renew, AuthFinish
  <2>3. auth'[b].step = "idle"
    BY <1>0, <2>1, <2>2 DEF SessionsTypeOK, AuthIdle
  <2> QED
    BY <2>3
<1> QED
  BY <1>1, <1>2, <1>4, <1>5

\* A row that is not raced, not ended and not renewed is as it was, and so is
\* the token of the device that has it.
LEMMA RowStays ==
    ASSUME SessionsInv, [SNext]_svars, NEW s \in Slots, Present(s), s \notin slotRaced' \cup ended',
           \A a \in AuthCalls : Renew(a) => auth[a].token.slot # s
    PROVE  /\ row'[s].state = row[s].state /\ row'[s].token = row[s].token /\ row'[s].old = row[s].old
           /\ \A d \in Devices : holds'[d] # NoToken /\ holds'[d].slot = s => holds'[d] = holds[d]
<1>0. SessionsTypeOK /\ AuthsAreMade /\ HeldIsMade /\ ExpiredIsEnded /\ s \notin slotRaced \cup ended
  BY RacedGrows, EndedStep DEF SessionsInv
<1>1. \A d \in Devices : Held(d) /\ holds[d].slot = s => Known(s, holds[d].value)
  BY <1>0 DEF SessionsInv, DeviceKeepsSession, Held
<1>2. RowEnds(s)
  BY <1>0, <1>1, RowCases DEF Present
<1>3. ASSUME NEW d \in Devices, holds'[d] # NoToken, holds'[d].slot = s PROVE holds'[d] = holds[d]
  BY <1>0, <1>3, HoldCases DEF HoldsNew, Present
<1> QED
  BY <1>2, <1>3 DEF RowEnds

LEMMA RenewalsStep ==
    ASSUME SessionsInv, [SNext]_svars
    PROVE  RenewalsFit'
<1>0. SessionsTypeOK /\ AuthsAreMade /\ HeldIsMade /\ ExpiredIsEnded
  BY DEF SessionsInv
<1>1. ASSUME NEW a \in AuthCalls, NEW d \in Devices, BeginRefresh(a, d), auth' # auth
      PROVE  RenewalsFit'
  <2>1. PICK s : s = holds[d].slot
    OBVIOUS
  <2>2. /\ Held(d) /\ s \in Slots /\ row[s].state = "live" /\ Known(s, holds[d].value)
        /\ UNCHANGED <<row, holds>>
        /\ slotRaced' = IF Refreshing(s) THEN slotRaced \cup {s} ELSE slotRaced
    BY <1>0, <1>1, <2>1, RefreshBegins
  <2>3. PICK r \in Auth :
            /\ auth' = [auth EXCEPT ![a] = r]
            /\ r.step = "renew" /\ r.device = d
            /\ r.token.slot = s /\ r.token.value = row[s].token
            /\ r.current = (holds[d].value = row[s].token)
    BY <1>0, <1>1, <2>1, RefreshBegins
  <2>4. \A b \in AuthCalls : auth'[b] = IF b = a THEN r ELSE auth[b]
    BY <1>0, <2>3 DEF SessionsTypeOK
  <2>5. UNCHANGED ended
    BY <1>1 DEF BeginRefresh
  <2>6. ASSUME NEW e \in Devices, Held(e), holds[e].slot = s PROVE e = d
    BY <2>1, <2>2, <2>6 DEF SessionsInv, SessionsAreOwned
  <2>7. RenewalFits(r)'
    <3>1. holds[d].value = IF r.current THEN row[s].token ELSE row[s].old
      BY <2>2, <2>3 DEF Known
    <3> QED
      BY <2>2, <2>3, <2>6, <3>1 DEF RenewalFits, Present, Held
  <2>8. ASSUME NEW b \in AuthCalls, NEW q, q = auth[b] PROVE RenewalFits(q)'
    <3>1. RenewalFits(q)
      BY <2>8 DEF SessionsInv, RenewalsFit
    <3> QED
      BY <2>2, <2>5, <3>1, RacedGrows DEF RenewalFits, Present, Held
  <2>9. ASSUME NEW b \in AuthCalls, NEW q, q = auth'[b] PROVE RenewalFits(q)'
    <3>1. CASE b = a
      BY <2>4, <2>7, <2>9, <3>1
    <3>2. CASE b # a
      BY <2>4, <2>8, <2>9, <3>2
    <3> QED
      BY <3>1, <3>2
  <2>10. ASSUME NEW b \in AuthCalls, NEW c \in AuthCalls,
                auth'[b].step = "renew", auth'[c].step = "renew",
                auth'[b].token.slot = auth'[c].token.slot, auth'[b].token.slot \notin slotRaced'
         PROVE  b = c
    <3>1. b # a /\ c # a => b = c
      BY <2>4, <2>10, RacedGrows DEF SessionsInv, RenewalsFit
    <3>2. ASSUME NEW e \in AuthCalls, e # a, auth'[e].step = "renew", auth'[e].token.slot = s
          PROVE  s \in slotRaced'
      BY <2>2, <2>4, <3>2 DEF Refreshing
    <3> QED
      BY <2>3, <2>4, <2>10, <3>1, <3>2
  <2>11. \A b \in AuthCalls : RenewalFits(auth[b])'
    BY <2>9
  <2> QED
    BY <2>10, <2>11 DEF RenewalsFit
<1>2. CASE \A a \in AuthCalls, d \in Devices : BeginRefresh(a, d) => auth' = auth
  <2>1. ASSUME NEW b \in AuthCalls, NEW q, q = auth'[b] PROVE RenewalFits(q)'
    <3>1. PICK s : s = q.token.slot
      OBVIOUS
    <3>2. SUFFICES ASSUME q.step = "renew", s \notin slotRaced' \cup ended' PROVE RenewalFits(q)'
      BY <3>1 DEF RenewalFits
    <3>3. q = auth[b]
      BY <1>0, <1>2, <2>1, <3>2, RenewStays
    <3>4. /\ s \in Slots /\ Present(s) /\ q.token.value = row[s].token
          /\ \A a \in AuthCalls : Renew(a) => auth[a].token.slot # s
      <4>1. auth'[b].step = "renew" /\ s = auth[b].token.slot
        BY <2>1, <3>1, <3>2, <3>3
      <4> QED
        BY <1>2, <3>2, <3>3, <4>1, RenewalsStay
    <3>5. /\ row'[s].state = row[s].state /\ row'[s].token = row[s].token /\ row'[s].old = row[s].old
          /\ \A d \in Devices : holds'[d] # NoToken /\ holds'[d].slot = s => holds'[d] = holds[d]
      BY <3>2, <3>4, RowStays
    <3>6. RenewalFits(q) /\ s \notin slotRaced \cup ended
      BY <1>0, <3>2, <3>3, RacedGrows, EndedStep DEF SessionsInv, RenewalsFit
    <3> QED
      BY <3>1, <3>2, <3>4, <3>5, <3>6 DEF RenewalFits, Present, Held
  <2>2. \A b \in AuthCalls : RenewalFits(auth[b])'
    BY <2>1
  <2>3. ASSUME NEW b \in AuthCalls, NEW c \in AuthCalls,
               auth'[b].step = "renew", auth'[c].step = "renew",
               auth'[b].token.slot = auth'[c].token.slot, auth'[b].token.slot \notin slotRaced'
        PROVE  b = c
    <3>1. auth'[b] = auth[b] /\ auth'[c] = auth[c]
      BY <1>0, <1>2, <2>3, RenewStays
    <3> QED
      BY <2>3, <3>1, RacedGrows DEF SessionsInv, RenewalsFit
  <2> QED
    BY <2>2, <2>3 DEF RenewalsFit
<1> QED
  BY <1>1, <1>2

LEMMA KeepsStep ==
    ASSUME SessionsInv, [SNext]_svars
    PROVE  DeviceKeepsSession'
<1>0. SessionsTypeOK /\ AuthsAreMade /\ HeldIsMade /\ ExpiredIsEnded
  BY DEF SessionsInv
<1> SUFFICES ASSUME NEW d \in Devices, NEW t, t = holds'[d], t # NoToken,
                    NEW s, s = t.slot, s \notin slotRaced' \cup ended'
             PROVE  /\ row'[s].state \in {"live", "expired"}
                    /\ t.value \in {row'[s].token, row'[s].old}
  BY DEF DeviceKeepsSession, Present, Known
<1>1. s \in Slots /\ s \notin slotRaced \cup ended
  BY <1>0, HeldStep, RacedGrows, EndedStep DEF HeldIsMade, Held
<1>2. ASSUME NEW a \in AuthCalls, Renew(a), s = auth[a].token.slot
      PROVE  /\ row'[s].state \in {"live", "expired"}
             /\ t.value \in {row'[s].token, row'[s].old}
  <2>1. /\ Present(s) /\ auth[a].token.value = row[s].token
        /\ \A e \in Devices : Held(e) /\ holds[e].slot = s =>
              holds[e].value = IF auth[a].current THEN row[s].token ELSE row[s].old
    <3>1. RenewalFits(auth[a])
      BY DEF SessionsInv, RenewalsFit
    <3> QED
      BY <1>1, <1>2, <3>1 DEF RenewalFits, Renew
  <2>2. /\ row'[s].state = "live" /\ row'[s].token = minted + 1
        /\ row'[s].old = IF auth[a].current THEN auth[a].token.value ELSE row[s].old
    BY <1>0, <1>1, <1>2, <2>1, RenewedRow
  <2>3. CASE t = holds[d]
    BY <2>1, <2>2, <2>3 DEF Held
  <2>4. CASE t # holds[d]
    <3>1. t.value = minted + 1
      BY <1>0, <2>4, HoldCases
    <3> QED
      BY <2>2, <3>1
  <2> QED
    BY <2>3, <2>4
<1>3. CASE \A a \in AuthCalls : Renew(a) => auth[a].token.slot # s
  <2>1. CASE t = holds[d]
    <3>1. Present(s) /\ Known(s, t.value)
      BY <1>1, <2>1 DEF SessionsInv, DeviceKeepsSession
    <3>2. row'[s].state = row[s].state /\ row'[s].token = row[s].token /\ row'[s].old = row[s].old
      BY <1>1, <1>3, <3>1, RowStays
    <3> QED
      BY <3>1, <3>2 DEF Present, Known
  <2>2. CASE t # holds[d]
    BY <1>0, <1>3, <2>2, HoldCases DEF HoldsNew
  <2> QED
    BY <2>1, <2>2
<1> QED
  BY <1>2, <1>3

LEMMA SessionsInvariant == SSpec => []SessionsInv
<1>1. SInit => SessionsInv
  <2> SUFFICES ASSUME SInit PROVE SessionsInv
    OBVIOUS
  <2>1. SessionsTypeOK /\ AuthsAreMade
    BY SessionsInitType
  <2>2. \A d \in Devices : ~Held(d)
    BY DEF SInit, Held
  <2>3. \A a \in AuthCalls : auth[a].step = "idle"
    BY DEF SInit, AuthIdle
  <2>4. PICK owner : owner = [s \in Slots |-> NoDevice]
    OBVIOUS
  <2>5. SessionsAreOwned
    BY <2>2, <2>3, <2>4 DEF SessionsAreOwned
  <2> QED
    BY <2>1, <2>2, <2>3, <2>5 DEF SInit, SessionsInv, HeldIsMade, ExpiredIsEnded, RenewalsFit, RenewalFits,
       DeviceKeepsSession, Held
<1>2. SessionsInv /\ [SNext]_svars => SessionsInv'
  <2> SUFFICES ASSUME SessionsInv, [SNext]_svars PROVE SessionsInv'
    OBVIOUS
  <2>1. SessionsTypeOK' /\ AuthsAreMade' /\ HeldIsMade' /\ ExpiredIsEnded' /\ SessionsAreOwned'
    BY SessionsTypeStep, AuthStep, HeldStep, EndedStep, OwnedStep DEF SessionsInv
  <2> QED
    BY <2>1, RenewalsStep, KeepsStep DEF SessionsInv
<1> QED
  BY <1>1, <1>2, PTL DEF SSpec
-----------------------------------------------------------------------------
(* Sessions: codes.                                                        *)

\* The verifications of a step in which none begins were there before.
LEMMA JudgesStay ==
    ASSUME SessionsTypeOK, AuthsAreMade, HeldIsMade, [SNext]_svars,
           \A a \in AuthCalls, d \in Devices : BeginVerify(a, d) => auth' = auth,
           NEW b \in Verifying'
    PROVE  auth'[b] = auth[b] /\ b \in Verifying
<1>1. CASE \A a \in AuthCalls : AuthMoves(auth[a], auth'[a])
  <2>1. PICK r, q : r = auth[b] /\ q = auth'[b]
    OBVIOUS
  <2>2. AuthMoves(r, q) /\ q.step = "judge" /\ r \in Auth
    BY <1>1, <2>1 DEF SessionsTypeOK, Verifying
  <2>3. q = r
    BY <2>2 DEF AuthMoves, AuthIdle, Auth
  <2> QED
    BY <2>1, <2>2, <2>3 DEF Verifying
<1>2. ASSUME NEW a \in AuthCalls, NEW d \in Devices, BeginRefresh(a, d), auth' # auth
      PROVE  auth'[b] = auth[b] /\ b \in Verifying
  <2>1. PICK r \in Auth : auth' = [auth EXCEPT ![a] = r] /\ r.step = "renew"
    BY <1>2, RefreshBegins
  <2> QED
    BY <2>1 DEF Verifying, SessionsTypeOK
<1> QED
  BY <1>1, <1>2, AuthCases

\* While codes are not raced, a step leaves them or nobody verifies.
CodesKept == UNCHANGED <<sent, otp, tried, used>>

LEMMA CodesInvStep ==
    ASSUME SessionsTypeOK, AuthsAreMade, HeldIsMade, CodesInv, [SNext]_svars
    PROVE  CodesInv'
<1> SUFFICES ASSUME ~codeRaced' PROVE CodesFit'
  BY DEF CodesInv
<1>1. ~codeRaced
  BY DEF SNext, SendOtp, OtpExpires, BeginVerify, WrongAnswer, RightAnswer, FindUser, MakeUser, DropStale,
     OpenSession, Logout, BeginRefresh, Renew, SessionExpires, CleanupExpiredSessions, svars
<1>2. CodesFit
  BY <1>1 DEF CodesInv
<1>3. ASSUME \A a \in AuthCalls, d \in Devices : BeginVerify(a, d) => auth' = auth, NEW b \in Verifying'
      PROVE  auth'[b] = auth[b] /\ b \in Verifying
  BY <1>3, JudgesStay
<1>4. ASSUME CodesKept, \A a \in AuthCalls, d \in Devices : BeginVerify(a, d) => auth' = auth
      PROVE  CodesFit'
  BY <1>2, <1>3, <1>4 DEF CodesKept, CodesFit
<1>5. CASE SendOtp
  <2>1. Verifying' = {} /\ sent' = sent + 1 /\ sent' \in 1..MaxCodes /\ UNCHANGED <<tried, used>>
    <3>1. Verifying = {} /\ auth' = auth
      BY <1>5 DEF SendOtp
    <3>2. Verifying' = {}
      BY <3>1 DEF Verifying
    <3> QED
      BY <1>5, <3>2, BoundAssumption DEF SendOtp, SessionsTypeOK
  <2>2. otp'.code = sent + 1 /\ otp'.tries = 0
    BY <1>5 DEF SendOtp
  <2>3. used[sent + 1] = 0 /\ tried[sent + 1] = 0
    BY <1>2, <2>1 DEF CodesFit, SessionsTypeOK
  <2>4. \A k \in 1..MaxCodes : k > sent' => k > sent
    BY <2>1 DEF SessionsTypeOK
  <2> QED
    BY <1>2, <2>1, <2>2, <2>3, <2>4 DEF CodesFit, SessionsTypeOK
<1>6. CASE OtpExpires
  <2>1. Verifying = {} /\ auth' = auth /\ otp' = NoCode /\ UNCHANGED <<sent, tried, used>>
    BY <1>6 DEF OtpExpires
  <2>2. Verifying' = {}
    BY <2>1 DEF Verifying
  <2> QED
    BY <1>2, <2>1, <2>2 DEF CodesFit
<1>7. ASSUME NEW a \in AuthCalls, NEW d \in Devices, BeginVerify(a, d) PROVE CodesFit'
  <2>1. Verifying = {} /\ UNCHANGED <<sent, tried, used>> /\ otp # NoCode /\ a \notin Verifying
    BY <1>7 DEF BeginVerify
  <2>2. CASE MayAnswer
    <3>1. PICK r : r = [AuthIdle EXCEPT !.step = "judge", !.device = d, !.code = otp]
      OBVIOUS
    <3>2. r.step = "judge" /\ r.code = otp
      BY <2>1, <3>1, VerifyType
    <3>3. auth' = [auth EXCEPT ![a] = r] /\ otp' = otp
      BY <1>7, <2>2, <3>1 DEF BeginVerify
    <3>4. \A b \in Verifying' : b = a /\ auth'[b] = r
      BY <2>1, <3>3 DEF Verifying, SessionsTypeOK
    <3> QED
      BY <1>2, <2>1, <2>2, <3>2, <3>3, <3>4 DEF CodesFit, MayAnswer
  <2>3. CASE ~MayAnswer
    <3>1. otp' = NoCode /\ auth' = auth
      BY <1>7, <2>3 DEF BeginVerify
    <3>2. Verifying' = {}
      BY <2>1, <3>1 DEF Verifying
    <3> QED
      BY <1>2, <2>1, <3>1, <3>2 DEF CodesFit
  <2> QED
    BY <2>2, <2>3
<1>8. ASSUME NEW a \in AuthCalls, WrongAnswer(a) \/ RightAnswer(a) PROVE CodesFit'
  <2>1. PICK k : k = otp.code
    OBVIOUS
  <2>2. a \in Verifying /\ auth[a].code = otp /\ otp # NoCode /\ otp.tries < MaxRetryCount
    BY <1>2, <1>8 DEF WrongAnswer, RightAnswer, AuthGo, Verifying, CodesFit
  <2>3. k \in 1..sent /\ k \in 1..MaxCodes /\ used[k] = 0 /\ tried[k] = otp.tries
    BY <1>2, <2>1, <2>2 DEF CodesFit, SessionsTypeOK
  <2>4. Verifying' = {}
    <3>1. \A b \in AuthCalls : b # a => auth'[b] = auth[b]
      BY <1>8 DEF WrongAnswer, RightAnswer, AuthGo, AuthFinish, SessionsTypeOK
    <3>2. auth'[a].step # "judge"
      BY <1>8, <2>2 DEF WrongAnswer, RightAnswer, AuthGo, AuthFinish, AuthIdle, SessionsTypeOK, Auth
    <3>3. \A b \in Verifying : b = a
      BY <1>2, <2>2 DEF CodesFit
    <3> QED
      BY <3>1, <3>2, <3>3 DEF Verifying
  <2>5. CASE WrongAnswer(a)
    <3>1. /\ otp' = [otp EXCEPT !.tries = @ + 1] /\ UNCHANGED <<sent, used>>
          /\ tried' = [tried EXCEPT ![k] = @ + 1]
      BY <1>1, <2>1, <2>2, <2>5 DEF WrongAnswer
    <3>2. otp'.code = k /\ otp'.tries = otp.tries + 1 /\ otp.tries \in Nat
      BY <2>1, <3>1 DEF SessionsTypeOK, Code
    <3>3. tried'[k] = otp.tries + 1 /\ tried'[k] <= MaxRetryCount
      BY <2>2, <2>3, <3>1, <3>2, BoundAssumption DEF SessionsTypeOK
    <3>4. \A j \in 1..MaxCodes : j # k => tried'[j] = tried[j]
      BY <3>1 DEF SessionsTypeOK
    <3>5. ~(k > sent)
      BY <2>3 DEF SessionsTypeOK
    <3> QED
      BY <1>2, <2>3, <2>4, <3>1, <3>2, <3>3, <3>4, <3>5 DEF CodesFit
  <2>6. CASE RightAnswer(a)
    <3>1. otp' = NoCode /\ used' = [used EXCEPT ![k] = @ + 1] /\ UNCHANGED <<sent, tried>>
      BY <1>1, <2>1, <2>2, <2>6 DEF RightAnswer
    <3>2. used'[k] = 1 /\ \A j \in 1..MaxCodes : j # k => used'[j] = used[j]
      BY <2>3, <3>1 DEF SessionsTypeOK
    <3>3. ~(k > sent)
      BY <2>3 DEF SessionsTypeOK
    <3> QED
      BY <1>2, <2>4, <3>1, <3>2, <3>3 DEF CodesFit
  <2> QED
    BY <1>8, <2>5, <2>6
<1>9. ASSUME \/ \E a \in AuthCalls :
                   \/ FindUser(a) \/ MakeUser(a) \/ DropStale(a) \/ OpenSession(a) \/ Renew(a)
                   \/ \E d \in Devices : BeginRefresh(a, d)
             \/ (\E d \in Devices : Logout(d)) \/ (\E s \in Slots : SessionExpires(s))
             \/ CleanupExpiredSessions \/ UNCHANGED svars
      PROVE  CodesKept
  BY <1>9 DEF FindUser, MakeUser, DropStale, OpenSession, Renew, BeginRefresh, Logout, SessionExpires,
     CleanupExpiredSessions, svars, CodesKept
<1>10. CASE \A a \in AuthCalls, d \in Devices : ~BeginVerify(a, d)
  BY <1>4, <1>5, <1>6, <1>8, <1>9, <1>10 DEF SNext
<1> QED
  BY <1>7, <1>10

LEMMA CodesInvariant == SSpec => []CodesInv
<1>1. SInit => CodesInv
  <2> SUFFICES ASSUME SInit PROVE CodesFit
    BY DEF CodesInv
  <2>1. Verifying = {}
    BY DEF SInit, Verifying, AuthIdle
  <2> QED
    BY <2>1, BoundAssumption DEF SInit, CodesFit
<1>2. SessionsInv /\ CodesInv /\ [SNext]_svars => CodesInv'
  BY CodesInvStep DEF SessionsInv
<1> QED
  BY <1>1, <1>2, SessionsInvariant, PTL DEF SSpec
-----------------------------------------------------------------------------
(* Administrators.                                                         *)

Account == [role : AdminRole \cup {"NONE"}, active : BOOLEAN, password : Nat, reset : Nat]
Portal  == [step : {"idle", "session", "touch", "grant", "sign", "update", "deactivate", "dropSessions", "reset"},
            user : Admins \cup {NoAdmin}, role : AdminRole \cup {"NONE"}, password : Nat,
            slot : AdminSlots \cup {NoAdminSlot}, late : BOOLEAN]
PortalRow == [state : {"none", "live", "expired", "gone"}, user : Admins \cup {NoAdmin},
              password : Nat, late : BOOLEAN]

\* Types; a session and a request that was begun have a user; the last reset
\* is not after the last password.
PortalTypeOK ==
    /\ account \in [Admins -> Account]
    /\ adminSession \in [AdminSlots -> PortalRow]
    /\ portal \in [PortalCalls -> Portal]
    /\ cut \subseteq Admins

PortalIsMade ==
    /\ \A u \in Admins : account[u].reset <= account[u].password
    /\ \A c \in PortalCalls : portal[c].step # "idle" => portal[c].user \in Admins
    /\ \A s \in AdminSlots : Kept(s) => adminSession[s].user \in Admins

\* What is promised of a session of user u that was made with a password.
Sound(u, password) ==
    u \notin cut => \/ Dropping(u)
                    \/ account[u].active /\ password >= account[u].reset

\* A login in progress will make such a session.
LoginsAreInvalidated ==
    \A c \in PortalCalls :
        portal[c].step = "session" /\ ~portal[c].late => Sound(portal[c].user, portal[c].password)

\* The roles of tokens.
GrantedOK == granted \in [Admins -> SUBSET (AdminRole \cup {"NONE"})]

PortalInv == PortalTypeOK /\ PortalIsMade /\ LoginsAreInvalidated /\ SessionsAreInvalidated

LEMMA PortalIdleType == PortalIdle \in Portal /\ PortalIdle.step = "idle"
BY DEF PortalIdle, Portal

\* What a request starts with.
PortalBegun(r) ==
    \/ \E u \in Admins :
          /\ account[u].active
          /\ r = [PortalIdle EXCEPT !.step = "session", !.user = u, !.role = account[u].role,
                                    !.password = account[u].password]
    \/ \E s \in AdminSlots :
          /\ Kept(s)
          /\ r = [PortalIdle EXCEPT !.step = "touch", !.slot = s, !.user = adminSession[s].user]
    \/ \E u \in Admins, role \in AdminRole \cup {"NONE"}, change \in {0, 1} :
          r = [PortalIdle EXCEPT !.step = "update", !.user = u, !.role = role, !.password = change]
    \/ \E u \in Admins, step \in {"deactivate", "reset"} :
          r = [PortalIdle EXCEPT !.step = step, !.user = u]

LEMMA PortalBegunType ==
    ASSUME PortalTypeOK, PortalIsMade, NEW r, PortalBegun(r)
    PROVE  /\ r \in Portal /\ r.user \in Admins /\ r.step \notin {"idle", "dropSessions"}
           /\ r.step = "session" => account[r.user].active /\ r.password = account[r.user].password
<1>1. ASSUME NEW u \in Admins, account[u].active,
             r = [PortalIdle EXCEPT !.step = "session", !.user = u, !.role = account[u].role,
                                    !.password = account[u].password]
      PROVE  /\ r \in Portal /\ r.user = u /\ r.step = "session"
             /\ r.password = account[u].password
  <2>1. account[u].role \in AdminRole \cup {"NONE"} /\ account[u].password \in Nat
    BY DEF PortalTypeOK, Account
  <2> QED
    BY <1>1, <2>1, PortalIdleType DEF Portal
<1>2. ASSUME NEW s \in AdminSlots, Kept(s),
             r = [PortalIdle EXCEPT !.step = "touch", !.slot = s, !.user = adminSession[s].user]
      PROVE  r \in Portal /\ r.user \in Admins /\ r.step = "touch"
  <2>1. adminSession[s].user \in Admins
    BY <1>2 DEF PortalIsMade
  <2> QED
    BY <1>2, <2>1, PortalIdleType DEF Portal
<1>3. ASSUME NEW u \in Admins, NEW role \in AdminRole \cup {"NONE"}, NEW change \in {0, 1},
             r = [PortalIdle EXCEPT !.step = "update", !.user = u, !.role = role, !.password = change]
      PROVE  r \in Portal /\ r.user \in Admins /\ r.step = "update"
  <2>1. change \in Nat
    OBVIOUS
  <2> QED
    BY <1>3, <2>1, PortalIdleType DEF Portal
<1>4. ASSUME NEW u \in Admins, NEW step \in {"deactivate", "reset"},
             r = [PortalIdle EXCEPT !.step = step, !.user = u]
      PROVE  r \in Portal /\ r.user \in Admins /\ r.step \in {"deactivate", "reset"}
  BY <1>4, PortalIdleType DEF Portal
<1>5. CASE \E u \in Admins :
              /\ account[u].active
              /\ r = [PortalIdle EXCEPT !.step = "session", !.user = u, !.role = account[u].role,
                                        !.password = account[u].password]
  BY <1>1, <1>5
<1>6. CASE \E s \in AdminSlots :
              /\ Kept(s)
              /\ r = [PortalIdle EXCEPT !.step = "touch", !.slot = s, !.user = adminSession[s].user]
  BY <1>2, <1>6
<1>7. CASE \E u \in Admins, role \in AdminRole \cup {"NONE"}, change \in {0, 1} :
              r = [PortalIdle EXCEPT !.step = "update", !.user = u, !.role = role, !.password = change]
  BY <1>3, <1>7
<1>8. CASE \E u \in Admins, step \in {"deactivate", "reset"} :
              r = [PortalIdle EXCEPT !.step = step, !.user = u]
  BY <1>4, <1>8
<1> QED
  BY <1>5, <1>6, <1>7, <1>8 DEF PortalBegun

\* The actions that start a request.
PortalStarts(c) ==
    \/ \E u \in Admins : BeginLogin(c, u) \/ BeginReset(c, u)
    \/ \E s \in AdminSlots : ValidateRefreshToken(c, s)
    \/ \E u, actor \in Admins : BeginUpdate(c, u, actor) \/ BeginDeactivate(c, u, actor)

LEMMA PortalStartCases ==
    ASSUME NEW c \in PortalCalls, PortalStarts(c)
    PROVE  /\ \/ portal' = portal
              \/ \E r : PortalBegun(r) /\ portal[c] = PortalIdle /\ portal' = [portal EXCEPT ![c] = r]
           /\ adminSession' = adminSession \/ \E s \in AdminSlots : adminSession' = WithoutSessions({s})
           /\ UNCHANGED <<account, granted, cut, portalFaults>>
<1> DEFINE Goal == /\ \/ portal' = portal
                      \/ \E r : PortalBegun(r) /\ portal[c] = PortalIdle /\ portal' = [portal EXCEPT ![c] = r]
                   /\ \/ adminSession' = adminSession
                      \/ \E s \in AdminSlots : adminSession' = WithoutSessions({s})
                   /\ UNCHANGED <<account, granted, cut, portalFaults>>
<1>1. ASSUME NEW u \in Admins, BeginLogin(c, u) PROVE Goal
  BY <1>1 DEF BeginLogin, MayLogin, PortalStart, PortalBegun
<1>2. ASSUME NEW u \in Admins, BeginReset(c, u) PROVE Goal
  BY <1>2 DEF BeginReset, PortalStart, PortalBegun
<1>3. ASSUME NEW s \in AdminSlots, ValidateRefreshToken(c, s) PROVE Goal
  BY <1>3 DEF ValidateRefreshToken, PortalStart, PortalBegun
<1>4. ASSUME NEW u \in Admins, NEW actor \in Admins, BeginUpdate(c, u, actor) PROVE Goal
  BY <1>4 DEF BeginUpdate, PortalStart, PortalBegun
<1>5. ASSUME NEW u \in Admins, NEW actor \in Admins, BeginDeactivate(c, u, actor) PROVE Goal
  BY <1>5 DEF BeginDeactivate, PortalStart, PortalBegun
<1> QED
  BY <1>1, <1>2, <1>3, <1>4, <1>5 DEF PortalStarts
LEMMA WithoutSessionsType ==
    ASSUME PortalTypeOK, PortalIsMade, NEW rows
    PROVE  /\ WithoutSessions(rows) \in [AdminSlots -> PortalRow]
           /\ \A s \in AdminSlots : WithoutSessions(rows)[s].state \in {"live", "expired"} =>
                 Kept(s) /\ s \notin rows /\ WithoutSessions(rows)[s] = adminSession[s]
BY DEF PortalTypeOK, PortalRow, WithoutSessions, Kept

\* The sessions of a step: one that is there was there, with another state at
\* most, or a login has made it.
Logs(c, s) ==
    /\ portal[c].step = "session"
    /\ adminSession'[s].user = portal[c].user
    /\ adminSession'[s].password = portal[c].password
    /\ adminSession'[s].late = portal[c].late

LEMMA SessionCases ==
    ASSUME PortalTypeOK, PortalIsMade, [AdminNext]_adminVars
    PROVE  /\ adminSession' \in [AdminSlots -> PortalRow]
           /\ \A s \in AdminSlots : adminSession'[s].state \in {"live", "expired"} =>
                 \/ /\ Kept(s)
                    /\ adminSession'[s].user = adminSession[s].user
                    /\ adminSession'[s].password = adminSession[s].password
                    /\ adminSession'[s].late = adminSession[s].late
                    /\ \A c \in PortalCalls : DropSessions(c) => portal[c].user # adminSession[s].user
                 \/ \E c \in PortalCalls : CreateSession(c) /\ Logs(c, s)
<1> DEFINE Keeps(s) ==
        /\ Kept(s)
        /\ adminSession'[s].user = adminSession[s].user
        /\ adminSession'[s].password = adminSession[s].password
        /\ adminSession'[s].late = adminSession[s].late
        Drops(s) == \E c \in PortalCalls : DropSessions(c) /\ portal[c].user = adminSession[s].user
<1>0. ASSUME NEW s \in AdminSlots, Drops(s) PROVE adminSession'[s].state \notin {"live", "expired"}
  BY <1>0, WithoutSessionsType DEF DropSessions, SignedIn
<1> SUFFICES /\ adminSession' \in [AdminSlots -> PortalRow]
             /\ \A s \in AdminSlots : adminSession'[s].state \in {"live", "expired"} =>
                   Keeps(s) \/ \E c \in PortalCalls : CreateSession(c) /\ Logs(c, s)
  BY <1>0
<1>1. ASSUME NEW rows, adminSession' = WithoutSessions(rows)
      PROVE  /\ adminSession' \in [AdminSlots -> PortalRow]
             /\ \A s \in AdminSlots : adminSession'[s].state \in {"live", "expired"} => Keeps(s)
  BY <1>1, WithoutSessionsType
<1>2. ASSUME adminSession' = adminSession
      PROVE  /\ adminSession' \in [AdminSlots -> PortalRow]
             /\ \A s \in AdminSlots : adminSession'[s].state \in {"live", "expired"} => Keeps(s)
  BY <1>2 DEF PortalTypeOK, Kept
<1> HIDE DEF Keeps
<1>3. ASSUME NEW c \in PortalCalls, CreateSession(c)
      PROVE  /\ adminSession' \in [AdminSlots -> PortalRow]
             /\ \A s \in AdminSlots : adminSession'[s].state \in {"live", "expired"} =>
                   Keeps(s) \/ (CreateSession(c) /\ Logs(c, s))
  <2>1. PICK t \in AdminSlots :
            adminSession' = [adminSession EXCEPT
                               ![t] = [state |-> "live", user |-> portal[c].user, late |-> portal[c].late,
                                       password |-> portal[c].password]]
    BY <1>3 DEF CreateSession
  <2>2. portal[c].step = "session"
    BY <1>3 DEF CreateSession, PortalEnds
  <2>3. [state |-> "live", user |-> portal[c].user, late |-> portal[c].late,
         password |-> portal[c].password] \in PortalRow
    BY DEF PortalTypeOK, Portal, PortalRow
  <2>4. adminSession' \in [AdminSlots -> PortalRow]
    BY <2>1, <2>3 DEF PortalTypeOK
  <2>5. Logs(c, t)
    BY <2>1, <2>2 DEF Logs, PortalTypeOK
  <2>6. ASSUME NEW s \in AdminSlots, s # t, adminSession'[s].state \in {"live", "expired"} PROVE Keeps(s)
    BY <2>1, <2>6 DEF PortalTypeOK, Kept, Keeps
  <2> QED
    BY <1>3, <2>4, <2>5, <2>6
<1>4. ASSUME NEW t \in AdminSlots, AdminSessionExpires(t)
      PROVE  /\ adminSession' \in [AdminSlots -> PortalRow]
             /\ \A s \in AdminSlots : adminSession'[s].state \in {"live", "expired"} => Keeps(s)
  BY <1>4 DEF AdminSessionExpires, PortalTypeOK, PortalRow, Kept, Keeps
<1>5. ASSUME NEW c \in PortalCalls, PortalStarts(c)
      PROVE  adminSession' = adminSession \/ \E rows : adminSession' = WithoutSessions(rows)
  BY <1>5, PortalStartCases
<1>6. ASSUME NEW c \in PortalCalls,
             \/ TouchSession(c) \/ ReadUserAgain(c) \/ RefreshAccessToken(c) \/ UpdateUser(c) \/ DeactivateUser(c)
             \/ ResetPasswordWithGoogle(c) \/ DropSessions(c) \/ PortalDies(c)
      PROVE  adminSession' = adminSession \/ \E rows : adminSession' = WithoutSessions(rows)
  BY <1>6 DEF TouchSession, ReadUserAgain, RefreshAccessToken, UpdateUser, DeactivateUser, ResetPasswordWithGoogle,
     DropSessions, PortalDies
<1>7. ASSUME \/ (\E s \in AdminSlots : LogoutAdmin(s)) \/ CleanupAdminSessions
             \/ (\E u, actor \in Admins :
                   \/ ReactivateUser(u, actor)
                   \/ \E role \in AdminRole : CreateUser(u, actor, role))
             \/ (\E u \in Admins : AccessExpires(u)) \/ UNCHANGED adminVars
      PROVE  adminSession' = adminSession \/ \E rows : adminSession' = WithoutSessions(rows)
  BY <1>7 DEF LogoutAdmin, CleanupAdminSessions, ReactivateUser, CreateUser, AccessExpires, adminVars
<1> QED
  BY <1>1, <1>2, <1>3, <1>4, <1>5, <1>6, <1>7 DEF AdminNext, PortalStarts

\* How a request changes that does not start.
PortalMoves(r, q) ==
    \/ q = r
    \/ q = PortalIdle
    \/ r.step = "touch" /\ q = [r EXCEPT !.step = "grant"]
    \/ /\ r.step = "grant" /\ r.user \in Admins
       /\ q = [r EXCEPT !.step = "sign", !.role = account[r.user].role]
    \/ r.step \in {"deactivate", "reset"} /\ q = [r EXCEPT !.step = "dropSessions"]
    \/ r.late = FALSE /\ q = [r EXCEPT !.late = TRUE]

LEMMA PortalMovesType ==
    ASSUME PortalTypeOK, NEW r \in Portal, NEW q, PortalMoves(r, q),
           r.step # "idle" => r.user \in Admins
    PROVE  /\ q \in Portal /\ (q.step # "idle" => q.user \in Admins)
           /\ q.step = "session" /\ ~q.late => q = r
<1>1. CASE q = r \/ q = PortalIdle
  BY <1>1, PortalIdleType
<1>2. CASE /\ r.step = "grant" /\ r.user \in Admins
           /\ q = [r EXCEPT !.step = "sign", !.role = account[r.user].role]
  <2>1. account[r.user].role \in AdminRole \cup {"NONE"}
    BY <1>2 DEF PortalTypeOK, Account
  <2> QED
    BY <1>2, <2>1 DEF Portal
<1>3. CASE \/ r.step = "touch" /\ q = [r EXCEPT !.step = "grant"]
           \/ r.step \in {"deactivate", "reset"} /\ q = [r EXCEPT !.step = "dropSessions"]
           \/ r.late = FALSE /\ q = [r EXCEPT !.late = TRUE]
  BY <1>3 DEF Portal
<1> QED
  BY <1>1, <1>2, <1>3 DEF PortalMoves

LEMMA PortalCases ==
    ASSUME PortalTypeOK, PortalIsMade, [AdminNext]_adminVars, \A c \in PortalCalls : ~PortalStarts(c)
    PROVE  /\ portal' = [c \in PortalCalls |-> portal'[c]]
           /\ \A c \in PortalCalls : PortalMoves(portal[c], portal'[c])
<1> DEFINE Goal == /\ portal' = [c \in PortalCalls |-> portal'[c]]
                   /\ \A c \in PortalCalls : PortalMoves(portal[c], portal'[c])
<1>1. ASSUME NEW c \in PortalCalls, portal' = [portal EXCEPT ![c] = PortalIdle] PROVE Goal
  BY <1>1 DEF PortalMoves, PortalTypeOK
<1>2. ASSUME NEW c \in PortalCalls,
             \/ PortalGo(c, "touch", "grant")
             \/ PortalGo(c, "deactivate", "dropSessions") \/ PortalGo(c, "reset", "dropSessions")
      PROVE  Goal
  BY <1>2 DEF PortalGo, PortalMoves, PortalTypeOK
<1>3. ASSUME portal' = portal PROVE Goal
  BY <1>3 DEF PortalMoves, PortalTypeOK
<1>7. ASSUME NEW c \in PortalCalls, ReadUserAgain(c) PROVE Goal
  <2>1. PICK q : q = IF account[portal[c].user].active
                     THEN [portal[c] EXCEPT !.step = "sign", !.role = account[portal[c].user].role]
                     ELSE PortalIdle
    OBVIOUS
  <2>2. portal' = [portal EXCEPT ![c] = q]
    BY <1>7, <2>1 DEF ReadUserAgain, PortalTypeOK
  <2>3. PortalMoves(portal[c], q)
    BY <1>7, <2>1 DEF ReadUserAgain, PortalMoves, PortalIsMade
  <2> QED
    BY <2>2, <2>3 DEF PortalMoves, PortalTypeOK
<1>4. ASSUME NEW c \in PortalCalls, DropSessions(c) PROVE Goal
  <2>1. portal' = [d \in PortalCalls |->
                    IF d = c THEN PortalIdle
                    ELSE [portal[d] EXCEPT !.late = @ \/ (portal[d].step = "session"
                                                          /\ portal[d].user = portal[c].user)]]
    BY <1>4 DEF DropSessions
  <2>2. ASSUME NEW d \in PortalCalls PROVE PortalMoves(portal[d], portal'[d])
    <3>1. CASE d = c
      BY <2>1, <3>1 DEF PortalMoves
    <3>2. CASE d # c
      <4>1. PICK late : late = (portal[d].late \/ (portal[d].step = "session"
                                                     /\ portal[d].user = portal[c].user))
        OBVIOUS
      <4>2. late \in BOOLEAN /\ (portal[d].late => late) /\ portal[d].late \in BOOLEAN
        <5>1. portal[d].late \in BOOLEAN
          BY DEF PortalTypeOK, Portal
        <5> QED
          BY <4>1, <5>1, Zenon
      <4>3. portal'[d] = [portal[d] EXCEPT !.late = late]
        BY <2>1, <3>2, <4>1
      <4>4. CASE late = portal[d].late
        BY <4>3, <4>4 DEF PortalMoves, PortalTypeOK, Portal
      <4>5. CASE late # portal[d].late
        BY <4>2, <4>3, <4>5 DEF PortalMoves
      <4> QED
        BY <4>4, <4>5
    <3> QED
      BY <3>1, <3>2
  <2> QED
    BY <2>1, <2>2
<1> HIDE DEF Goal
<1>5. ASSUME NEW c \in PortalCalls,
             \/ CreateSession(c) \/ TouchSession(c) \/ RefreshAccessToken(c) \/ UpdateUser(c)
             \/ DeactivateUser(c) \/ ResetPasswordWithGoogle(c) \/ PortalDies(c)
      PROVE  Goal
  BY <1>1, <1>2, <1>5 DEF CreateSession, TouchSession, RefreshAccessToken, UpdateUser, DeactivateUser,
     ResetPasswordWithGoogle, PortalDies, PortalEnds
<1>6. ASSUME \/ (\E s \in AdminSlots : LogoutAdmin(s) \/ AdminSessionExpires(s)) \/ CleanupAdminSessions
             \/ (\E u, actor \in Admins :
                   \/ ReactivateUser(u, actor)
                   \/ \E role \in AdminRole : CreateUser(u, actor, role))
             \/ (\E u \in Admins : AccessExpires(u)) \/ UNCHANGED adminVars
      PROVE  portal' = portal
  BY <1>6 DEF LogoutAdmin, AdminSessionExpires, CleanupAdminSessions, ReactivateUser, CreateUser,
     AccessExpires, adminVars
<1> QED
  BY <1>3, <1>4, <1>5, <1>6, <1>7 DEF AdminNext, PortalStarts, Goal
LEMMA PortalStep ==
    ASSUME PortalTypeOK, PortalIsMade, [AdminNext]_adminVars
    PROVE  /\ portal' \in [PortalCalls -> Portal]
           /\ \A c \in PortalCalls : portal'[c].step # "idle" => portal'[c].user \in Admins
<1>1. ASSUME NEW c \in PortalCalls, PortalStarts(c)
      PROVE  /\ portal' \in [PortalCalls -> Portal]
             /\ \A d \in PortalCalls : portal'[d].step # "idle" => portal'[d].user \in Admins
  <2>1. CASE portal' = portal
    BY <2>1 DEF PortalTypeOK, PortalIsMade
  <2>2. ASSUME NEW r, PortalBegun(r), portal' = [portal EXCEPT ![c] = r]
        PROVE  /\ portal' \in [PortalCalls -> Portal]
               /\ \A d \in PortalCalls : portal'[d].step # "idle" => portal'[d].user \in Admins
    <3>1. r \in Portal /\ r.user \in Admins
      BY <2>2, PortalBegunType
    <3> QED
      BY <2>2, <3>1 DEF PortalTypeOK, PortalIsMade
  <2> QED
    BY <1>1, <2>1, <2>2, PortalStartCases
<1>2. CASE \A c \in PortalCalls : ~PortalStarts(c)
  <2>1. ASSUME NEW c \in PortalCalls
        PROVE  portal'[c] \in Portal /\ (portal'[c].step # "idle" => portal'[c].user \in Admins)
    <3>1. PICK r, q : r = portal[c] /\ q = portal'[c]
      OBVIOUS
    <3>2. r \in Portal /\ PortalMoves(r, q) /\ (r.step # "idle" => r.user \in Admins)
      BY <1>2, <3>1, PortalCases DEF PortalTypeOK, PortalIsMade
    <3> QED
      BY <3>1, <3>2, PortalMovesType
  <2>2. portal' = [c \in PortalCalls |-> portal'[c]]
    BY <1>2, PortalCases
  <2> QED
    BY <2>1, <2>2
<1> QED
  BY <1>1, <1>2

\* The users of a step: one stays, or it is made, or a request writes it.
LEMMA AccountStep ==
    ASSUME PortalTypeOK, PortalIsMade, [AdminNext]_adminVars
    PROVE  /\ account' \in [Admins -> Account]
           /\ \A u \in Admins : account'[u].reset <= account'[u].password
           /\ \A u \in Admins :
                 \/ account'[u].reset = account[u].reset /\ (account[u].active => account'[u].active)
                 \/ account'[u].reset = 0 /\ account'[u].active
                 \/ \E c \in PortalCalls :
                       portal[c].user = u /\ portal'[c].step = "dropSessions" /\ portal'[c].user = u
<1> DEFINE Goal == /\ account' \in [Admins -> Account]
                   /\ \A u \in Admins : account'[u].reset <= account'[u].password
                   /\ \A u \in Admins :
                         \/ account'[u].reset = account[u].reset /\ (account[u].active => account'[u].active)
                         \/ account'[u].reset = 0 /\ account'[u].active
                         \/ \E c \in PortalCalls :
                               portal[c].user = u /\ portal'[c].step = "dropSessions" /\ portal'[c].user = u
<1>1. ASSUME account' = account PROVE Goal
  BY <1>1 DEF PortalTypeOK, PortalIsMade
<1>2. ASSUME NEW v \in Admins, NEW q \in Account, account' = [account EXCEPT ![v] = q],
             q.reset <= q.password,
             \/ q.reset = account[v].reset /\ (account[v].active => q.active)
             \/ q.reset = 0 /\ q.active
             \/ \E c \in PortalCalls :
                   portal[c].user = v /\ portal'[c].step = "dropSessions" /\ portal'[c].user = v
      PROVE  Goal
  BY <1>2 DEF PortalTypeOK, PortalIsMade
<1> HIDE DEF Goal
<1>3. ASSUME NEW u \in Admins
      PROVE  /\ account[u] \in Account /\ account[u].password \in Nat /\ account[u].reset \in Nat
             /\ account[u].reset <= account[u].password
             /\ account[u].active \in BOOLEAN /\ account[u].role \in AdminRole \cup {"NONE"}
  BY DEF PortalTypeOK, PortalIsMade, Account
<1>4. ASSUME NEW c \in PortalCalls, UpdateUser(c) PROVE Goal
  <2>1. PICK u, role, change :
            /\ u = portal[c].user /\ change = portal[c].password
            /\ role = IF portal[c].role = "NONE" THEN account[u].role ELSE portal[c].role
    OBVIOUS
  <2>2. u \in Admins /\ change \in Nat /\ portal[c].role \in AdminRole \cup {"NONE"}
    BY <1>4, <2>1 DEF UpdateUser, PortalEnds, PortalTypeOK, PortalIsMade, Portal
  <2> PICK next : next = account[u].password + change
    OBVIOUS
  <2>3. PICK q : q = [account[u] EXCEPT !.role = role, !.password = next]
    OBVIOUS
  <2>4. role \in AdminRole \cup {"NONE"}
    BY <1>3, <2>1, <2>2
  <2>5. /\ q \in Account /\ q.reset = account[u].reset /\ q.active = account[u].active
        /\ q.password = next
    <3>1. next \in Nat
      BY <1>3, <2>2
    <3> QED
      BY <1>3, <2>2, <2>3, <2>4, <3>1 DEF Account
  <2>6. account' = [account EXCEPT ![u] = q]
    BY <1>4, <2>1, <2>2, <2>3 DEF UpdateUser, PortalTypeOK
  <2>7. q.reset <= q.password
    BY <1>3, <2>2, <2>5
  <2> QED
    BY <1>2, <2>2, <2>5, <2>6, <2>7
<1>5. ASSUME NEW c \in PortalCalls, DeactivateUser(c) PROVE Goal
  <2>1. PICK u : u = portal[c].user
    OBVIOUS
  <2>2. u \in Admins /\ portal'[c].step = "dropSessions" /\ portal'[c].user = u
    BY <1>5, <2>1 DEF DeactivateUser, PortalGo, PortalTypeOK, PortalIsMade, Portal
  <2>3. PICK q : q = [account[u] EXCEPT !.active = FALSE]
    OBVIOUS
  <2>4. q \in Account /\ q.reset = account[u].reset /\ q.password = account[u].password
    BY <1>3, <2>2, <2>3 DEF Account
  <2>5. account' = [account EXCEPT ![u] = q]
    BY <1>5, <2>1, <2>2, <2>3 DEF DeactivateUser, PortalTypeOK
  <2>6. q.reset <= q.password
    BY <1>3, <2>2, <2>4
  <2> QED
    BY <1>2, <2>1, <2>2, <2>4, <2>5, <2>6
<1>6. ASSUME NEW c \in PortalCalls, ResetPasswordWithGoogle(c) PROVE Goal
  <2>1. PICK u, next : u = portal[c].user /\ next = account[u].password + 1
    OBVIOUS
  <2>2. u \in Admins /\ portal'[c].step = "dropSessions" /\ portal'[c].user = u
    BY <1>6, <2>1 DEF ResetPasswordWithGoogle, PortalGo, PortalTypeOK, PortalIsMade, Portal
  <2>3. next \in Nat
    BY <1>3, <2>1, <2>2
  <2>4. PICK q : q = [account[u] EXCEPT !.password = next, !.reset = next]
    OBVIOUS
  <2>5. q \in Account /\ q.reset = next /\ q.password = next
    BY <1>3, <2>2, <2>3, <2>4 DEF Account
  <2>6. account' = [account EXCEPT ![u] = q]
    BY <1>6, <2>1, <2>2, <2>4 DEF ResetPasswordWithGoogle, PortalTypeOK
  <2>7. q.reset <= q.password
    BY <2>3, <2>5
  <2> QED
    BY <1>2, <2>1, <2>2, <2>5, <2>6, <2>7
<1>7. ASSUME NEW u \in Admins, NEW actor \in Admins, ReactivateUser(u, actor) PROVE Goal
  <2>1. PICK q : q = [account[u] EXCEPT !.active = TRUE]
    OBVIOUS
  <2>2. q \in Account /\ q.reset = account[u].reset /\ q.password = account[u].password /\ q.active
    BY <1>3, <2>1 DEF Account
  <2>3. account' = [account EXCEPT ![u] = q]
    BY <1>7, <2>1 DEF ReactivateUser, PortalTypeOK
  <2> QED
    BY <1>2, <1>3, <2>2, <2>3
<1>8. ASSUME NEW u \in Admins, NEW actor \in Admins, NEW role \in AdminRole, CreateUser(u, actor, role)
      PROVE  Goal
  <2>1. PICK q : q = [role |-> role, active |-> TRUE, password |-> 0, reset |-> 0]
    OBVIOUS
  <2>2. q \in Account /\ q.reset = 0 /\ q.password = 0 /\ q.active
    BY <2>1 DEF Account
  <2>3. account' = [account EXCEPT ![u] = q]
    BY <1>8, <2>1 DEF CreateUser
  <2>4. q.reset <= q.password
    BY <2>2
  <2> QED
    BY <1>2, <2>2, <2>3, <2>4
<1>9. ASSUME NEW c \in PortalCalls,
             \/ PortalStarts(c) \/ CreateSession(c) \/ TouchSession(c) \/ ReadUserAgain(c) \/ RefreshAccessToken(c)
             \/ DropSessions(c) \/ PortalDies(c)
      PROVE  account' = account
  <2>1. CASE PortalStarts(c)
    BY <2>1, PortalStartCases
  <2> QED
    BY <1>9, <2>1 DEF CreateSession, TouchSession, ReadUserAgain, RefreshAccessToken, DropSessions, PortalDies
<1>10. ASSUME \/ (\E s \in AdminSlots : LogoutAdmin(s) \/ AdminSessionExpires(s)) \/ CleanupAdminSessions
              \/ (\E u \in Admins : AccessExpires(u)) \/ UNCHANGED adminVars
       PROVE  account' = account
  BY <1>10 DEF LogoutAdmin, AdminSessionExpires, CleanupAdminSessions, AccessExpires, adminVars
<1> QED
  BY <1>1, <1>4, <1>5, <1>6, <1>7, <1>8, <1>9, <1>10 DEF AdminNext, PortalStarts, Goal

LEMMA CutStep == ASSUME PortalTypeOK, PortalIsMade, [AdminNext]_adminVars PROVE cut' \subseteq Admins /\ cut \subseteq cut'
<1>1. ASSUME NEW c \in PortalCalls, PortalDies(c) PROVE cut' \subseteq Admins /\ cut \subseteq cut'
  BY <1>1 DEF PortalDies, PortalTypeOK, PortalIsMade
<1>2. ASSUME NEW c \in PortalCalls, PortalStarts(c) PROVE cut' = cut
  BY <1>2, PortalStartCases
<1>3. ASSUME ~\E c \in PortalCalls : PortalStarts(c) \/ PortalDies(c) PROVE cut' = cut
  BY <1>3 DEF AdminNext, PortalStarts, CreateSession, TouchSession, ReadUserAgain, RefreshAccessToken, UpdateUser,
     DeactivateUser, ResetPasswordWithGoogle, DropSessions, LogoutAdmin, AdminSessionExpires,
     CleanupAdminSessions, ReactivateUser, CreateUser, AccessExpires, adminVars
<1> QED
  BY <1>1, <1>2, <1>3 DEF PortalTypeOK
\* A deletion of sessions that is to come stays to come, is made or is cut off.
LEMMA DroppingStays ==
    ASSUME PortalTypeOK, PortalIsMade, [AdminNext]_adminVars, NEW u \in Admins, Dropping(u),
           \A c \in PortalCalls : DropSessions(c) => portal[c].user # u
    PROVE  Dropping(u)' \/ u \in cut'
<1>1. PICK c \in PortalCalls : portal[c].step = "dropSessions" /\ portal[c].user = u
  BY DEF Dropping
<1>2. CASE portal'[c] = portal[c]
  BY <1>1, <1>2 DEF Dropping
<1>3. CASE portal'[c] # portal[c]
  <2>1. ASSUME NEW d \in PortalCalls, PortalStarts(d) PROVE FALSE
    BY <1>1, <1>3, <2>1, PortalStartCases, PortalIdleType DEF PortalTypeOK
  <2>2. PICK r, q : r = portal[c] /\ q = portal'[c]
    OBVIOUS
  <2>3. PortalMoves(r, q) /\ r.step = "dropSessions" /\ r.user = u /\ q # r /\ r \in Portal
    BY <1>1, <1>3, <2>1, <2>2, PortalCases DEF PortalTypeOK
  <2>4. CASE q = PortalIdle
    <3>1. ASSUME NEW d \in PortalCalls,
                 \/ CreateSession(d) \/ TouchSession(d) \/ ReadUserAgain(d) \/ RefreshAccessToken(d) \/ UpdateUser(d)
                 \/ DeactivateUser(d) \/ ResetPasswordWithGoogle(d)
          PROVE  FALSE
      BY <1>1, <1>3, <3>1 DEF CreateSession, TouchSession, ReadUserAgain, RefreshAccessToken, UpdateUser, DeactivateUser,
         ResetPasswordWithGoogle, PortalEnds, PortalGo, PortalTypeOK
    <3>2. ASSUME NEW d \in PortalCalls, DropSessions(d) PROVE Dropping(u)' \/ u \in cut'
      <4>1. d # c
        BY <1>1, <3>2
      <4>2. portal'[c].step = "dropSessions"
        BY <1>1, <3>2, <4>1 DEF DropSessions, PortalTypeOK, Portal
      <4> QED
        BY <2>2, <2>4, <4>2, PortalIdleType
    <3>3. ASSUME NEW d \in PortalCalls, PortalDies(d) PROVE u \in cut'
      BY <1>1, <1>3, <3>3 DEF PortalDies, PortalTypeOK
    <3>4. ASSUME \/ (\E s \in AdminSlots : LogoutAdmin(s) \/ AdminSessionExpires(s)) \/ CleanupAdminSessions
                 \/ (\E v, actor \in Admins :
                       \/ ReactivateUser(v, actor)
                       \/ \E role \in AdminRole : CreateUser(v, actor, role))
                 \/ (\E v \in Admins : AccessExpires(v)) \/ UNCHANGED adminVars
          PROVE  FALSE
      BY <1>3, <3>4 DEF LogoutAdmin, AdminSessionExpires, CleanupAdminSessions, ReactivateUser, CreateUser,
         AccessExpires, adminVars
    <3> QED
      BY <2>1, <3>1, <3>2, <3>3, <3>4 DEF AdminNext, PortalStarts
  <2>5. CASE q # PortalIdle
    <3>1. q.step = "dropSessions" /\ q.user = u
      BY <2>3, <2>5 DEF PortalMoves, Portal
    <3> QED
      BY <2>2, <3>1 DEF Dropping
  <2> QED
    BY <2>4, <2>5
<1> QED
  BY <1>2, <1>3

LEMMA SoundStays ==
    ASSUME PortalTypeOK, PortalIsMade, [AdminNext]_adminVars, NEW u \in Admins, NEW password \in Nat,
           Sound(u, password), \A c \in PortalCalls : DropSessions(c) => portal[c].user # u
    PROVE  Sound(u, password)'
<1> SUFFICES ASSUME u \notin cut'
             PROVE  Dropping(u)' \/ (account'[u].active /\ password >= account'[u].reset)
  BY DEF Sound
<1>1. CASE Dropping(u)
  BY <1>1, DroppingStays
<1>2. CASE ~Dropping(u)
  <2>1. account[u].active /\ password >= account[u].reset
    BY <1>2, CutStep DEF Sound
  <2>2. CASE account'[u].reset = account[u].reset /\ (account[u].active => account'[u].active)
    BY <2>1, <2>2
  <2>3. CASE account'[u].reset = 0 /\ account'[u].active
    BY <2>3
  <2>4. CASE \E c \in PortalCalls : portal'[c].step = "dropSessions" /\ portal'[c].user = u
    BY <2>4 DEF Dropping
  <2> QED
    BY <2>2, <2>3, <2>4, AccountStep
<1> QED
  BY <1>1, <1>2

LEMMA InvalidatedStep ==
    ASSUME PortalInv, [AdminNext]_adminVars
    PROVE  SessionsAreInvalidated'
<1>0. PortalTypeOK /\ PortalIsMade
  BY DEF PortalInv
<1> SUFFICES ASSUME NEW s \in AdminSlots, adminSession'[s].state \in {"live", "expired"},
                    ~adminSession'[s].late, NEW u, u = adminSession'[s].user,
                    NEW password, password = adminSession'[s].password
             PROVE  Sound(u, password)'
  BY DEF SessionsAreInvalidated, Kept, Sound
<1>1. u \in Admins /\ password \in Nat
  <2>1. password \in Nat
    BY <1>0, SessionCases DEF PortalRow
  <2>2. u \in Admins
    BY <1>0, SessionCases DEF Logs, PortalIsMade
  <2> QED
    BY <2>1, <2>2
<1>2. ASSUME Sound(u, password), \A c \in PortalCalls : DropSessions(c) => portal[c].user # u
      PROVE  Sound(u, password)'
  BY <1>0, <1>1, <1>2, SoundStays
<1>3. CASE /\ Kept(s)
           /\ adminSession'[s].user = adminSession[s].user
           /\ adminSession'[s].password = adminSession[s].password
           /\ adminSession'[s].late = adminSession[s].late
           /\ \A c \in PortalCalls : DropSessions(c) => portal[c].user # adminSession[s].user
  <2>1. Sound(u, password)
    BY <1>3 DEF PortalInv, SessionsAreInvalidated, Sound
  <2> QED
    BY <1>2, <1>3, <2>1
<1>4. ASSUME NEW c \in PortalCalls, CreateSession(c), Logs(c, s) PROVE Sound(u, password)'
  <2>1. Sound(u, password)
    BY <1>4 DEF Logs, PortalInv, LoginsAreInvalidated
  <2>2. ASSUME NEW d \in PortalCalls, DropSessions(d), portal[d].user = u PROVE FALSE
    <3>1. portal' = [portal EXCEPT ![c] = PortalIdle] /\ c # d
      BY <1>4, <2>2 DEF CreateSession, PortalEnds, DropSessions
    <3>2. portal'[d].step = "dropSessions"
      BY <2>2, <3>1 DEF DropSessions, PortalTypeOK
    <3> QED
      BY <2>2, <3>2, PortalIdleType DEF DropSessions
  <2> QED
    BY <1>2, <2>1, <2>2
<1> QED
  BY <1>0, <1>3, <1>4, SessionCases

LEMMA LoginsStep ==
    ASSUME PortalInv, [AdminNext]_adminVars
    PROVE  LoginsAreInvalidated'
<1>0. PortalTypeOK /\ PortalIsMade
  BY DEF PortalInv
<1> SUFFICES ASSUME NEW c \in PortalCalls, NEW q, q = portal'[c], q.step = "session", ~q.late
             PROVE  Sound(q.user, q.password)'
  BY DEF LoginsAreInvalidated
<1>1. ASSUME NEW u \in Admins, NEW password \in Nat, Sound(u, password),
             \A d \in PortalCalls : DropSessions(d) => portal[d].user # u
      PROVE  Sound(u, password)'
  BY <1>0, <1>1, SoundStays
<1>2. q.user \in Admins /\ q.password \in Nat
  BY <1>0, PortalStep DEF Portal
<1>3. CASE q = portal[c] /\ \A d \in PortalCalls : ~PortalStarts(d)
  <2>1. Sound(q.user, q.password)
    BY <1>3 DEF PortalInv, LoginsAreInvalidated
  <2>2. ASSUME NEW d \in PortalCalls, DropSessions(d), portal[d].user = q.user PROVE FALSE
    <3>1. c # d
      BY <1>3, <2>2 DEF DropSessions
    <3>2. q = [q EXCEPT !.late = TRUE]
      <4>1. q = [portal[c] EXCEPT !.late = @ \/ (portal[c].step = "session"
                                                   /\ portal[c].user = portal[d].user)]
        BY <2>2, <3>1 DEF DropSessions
      <4> QED
        BY <1>3, <2>2, <4>1
    <3>3. q.late = TRUE
      BY <1>0, <1>3, <3>2 DEF PortalTypeOK, Portal
    <3> QED
      BY <3>3
  <2> QED
    BY <1>1, <1>2, <2>1, <2>2
<1>4. CASE q # portal[c] /\ \A d \in PortalCalls : ~PortalStarts(d)
  <2>1. PICK r : r = portal[c]
    OBVIOUS
  <2>2. r \in Portal /\ PortalMoves(r, q) /\ (r.step # "idle" => r.user \in Admins)
    BY <1>0, <1>4, <2>1, PortalCases DEF PortalTypeOK, PortalIsMade
  <2> QED
    BY <1>0, <1>4, <2>1, <2>2, PortalMovesType
<1>5. ASSUME NEW d \in PortalCalls, PortalStarts(d) PROVE Sound(q.user, q.password)'
  <2>1. UNCHANGED <<account, cut>>
    BY <1>5, PortalStartCases
  <2>2. ASSUME NEW r, PortalBegun(r), portal' = [portal EXCEPT ![d] = r], d = c
        PROVE  Sound(q.user, q.password)'
    <3>1. q = r
      BY <1>0, <2>2 DEF PortalTypeOK
    <3>2. account[q.user].active /\ q.password = account[q.user].password
      BY <1>0, <2>2, <3>1, PortalBegunType
    <3>3. /\ account[q.user].reset <= account[q.user].password
          /\ account[q.user].password \in Nat /\ account[q.user].reset \in Nat
      BY <1>0, <1>2 DEF PortalIsMade, PortalTypeOK, Account
    <3>4. q.password >= account[q.user].reset
      BY <3>2, <3>3
    <3> QED
      BY <2>1, <3>2, <3>4 DEF Sound
  <2>3. CASE q = portal[c]
    <3>1. Sound(q.user, q.password)
      BY <2>3 DEF PortalInv, LoginsAreInvalidated
    <3>2. \A e \in PortalCalls : portal[e].step = "dropSessions" => portal'[e] = portal[e]
      BY <1>0, <1>5, PortalStartCases, PortalIdleType DEF PortalTypeOK
    <3>3. Dropping(q.user) => Dropping(q.user)'
      BY <3>2 DEF Dropping
    <3> QED
      BY <2>1, <3>1, <3>3 DEF Sound
  <2> QED
    BY <1>0, <1>5, <2>2, <2>3, PortalStartCases DEF PortalTypeOK
<1> QED
  BY <1>3, <1>4, <1>5
LEMMA PortalInvariant == AdminSpec => []PortalInv
<1>1. AdminInit => PortalInv
  <2> SUFFICES ASSUME AdminInit PROVE PortalInv
    OBVIOUS
  <2>1. account \in [Admins -> Account] /\ \A u \in Admins : account[u].reset <= account[u].password
    <3>1. ASSUME NEW u \in Admins
          PROVE  account[u] \in Account /\ account[u].reset = 0 /\ account[u].password = 0
      <4>1. account[u] \in [role : AdminRole \cup {"NONE"}, active : {TRUE}, password : {0}, reset : {0}]
        BY DEF AdminInit
      <4>2. PICK role \in AdminRole \cup {"NONE"} :
               account[u] = [role |-> role, active |-> TRUE, password |-> 0, reset |-> 0]
        BY <4>1
      <4> QED
        BY <4>2 DEF Account
    <3> QED
      BY <3>1 DEF AdminInit
  <2>2. [state |-> "none", user |-> NoAdmin, password |-> 0, late |-> FALSE] \in PortalRow
    BY DEF PortalRow
  <2>3. adminSession \in [AdminSlots -> PortalRow] /\ \A s \in AdminSlots : ~Kept(s)
    BY <2>2 DEF AdminInit, Kept
  <2>4. portal \in [PortalCalls -> Portal] /\ \A c \in PortalCalls : portal[c].step = "idle"
    BY PortalIdleType DEF AdminInit
  <2> QED
    BY <2>1, <2>3, <2>4 DEF AdminInit, PortalInv, PortalTypeOK, PortalIsMade, LoginsAreInvalidated,
       SessionsAreInvalidated
<1>2. PortalInv /\ [AdminNext]_adminVars => PortalInv'
  <2> SUFFICES ASSUME PortalInv, [AdminNext]_adminVars PROVE PortalInv'
    OBVIOUS
  <2>1. PortalTypeOK /\ PortalIsMade
    BY DEF PortalInv
  <2>2. PortalTypeOK'
    BY <2>1, PortalStep, SessionCases, AccountStep, CutStep DEF PortalTypeOK
  <2>3. \A s \in AdminSlots : adminSession'[s].state \in {"live", "expired"} =>
           adminSession'[s].user \in Admins
    BY <2>1, SessionCases DEF Logs, PortalIsMade
  <2>4. PortalIsMade'
    BY <2>1, <2>3, PortalStep, AccountStep DEF PortalIsMade, Kept
  <2> QED
    BY <2>2, <2>4, InvalidatedStep, LoginsStep DEF PortalInv
<1> QED
  BY <1>1, <1>2, PTL DEF AdminSpec

\* Only a login and a refresh sign a token.
LEMMA GrantsKept ==
    ASSUME [AdminNext]_adminVars,
           ~\E c \in PortalCalls : CreateSession(c) \/ RefreshAccessToken(c),
           ~\E u \in Admins : AccessExpires(u)
    PROVE  granted' = granted
<1>1. ASSUME NEW c \in PortalCalls, PortalStarts(c) PROVE granted' = granted
  BY <1>1, PortalStartCases
<1>2. CASE ~\E c \in PortalCalls : PortalStarts(c)
  BY <1>2 DEF AdminNext, PortalStarts, TouchSession, ReadUserAgain, UpdateUser, DeactivateUser, ResetPasswordWithGoogle,
     DropSessions, PortalDies, LogoutAdmin, AdminSessionExpires, CleanupAdminSessions, ReactivateUser,
     CreateUser, adminVars
<1> QED
  BY <1>1, <1>2

LEMMA GrantedInvariant == AdminSpec => []GrantedOK
<1>1. AdminInit => GrantedOK
  BY DEF AdminInit, GrantedOK
<1>2. PortalInv /\ GrantedOK /\ [AdminNext]_adminVars => GrantedOK'
  <2> SUFFICES ASSUME PortalTypeOK, PortalIsMade, GrantedOK, [AdminNext]_adminVars PROVE GrantedOK'
    BY DEF PortalInv
  <2>1. ASSUME NEW c \in PortalCalls, CreateSession(c) \/ RefreshAccessToken(c) PROVE GrantedOK'
    <3>1. portal[c].role \in AdminRole \cup {"NONE"} /\ portal[c].user \in Admins
      BY <2>1 DEF CreateSession, RefreshAccessToken, PortalEnds, PortalTypeOK, PortalIsMade, Portal
    <3> QED
      BY <2>1, <3>1 DEF CreateSession, RefreshAccessToken, GrantedOK
  <2>2. ASSUME NEW v \in Admins, AccessExpires(v) PROVE GrantedOK'
    BY <2>2 DEF AccessExpires, GrantedOK
  <2> QED
    BY <2>1, <2>2, GrantsKept DEF GrantedOK
<1> QED
  BY <1>1, <1>2, PortalInvariant, PTL DEF AdminSpec

-----------------------------------------------------------------------------
(* Notifications of the portal.                                            *)

TokenRow == [step : {"idle", "save", "subscribe"}, session : AdminSlots \cup {NoAdminSlot},
             browser : Browsers \cup {NoBrowser}, actor : Admins \cup {NoAdmin},
             role : AdminRole \cup {"NONE"}]
Notice   == [step : {"new", "find", "store", "topic", "sessions", "send", "over"},
             to : Admins \cup {NoAdmin}, targets : SUBSET Admins, copies : [Browsers -> Nat]]

NoticeTypeOK ==
    /\ fcmToken \in [AdminSlots -> Browsers \cup {NoBrowser}]
    /\ onTopic \subseteq Browsers
    /\ tokenCall \in [TokenCalls -> TokenRow]
    /\ notice \in [Notices -> Notice]
    /\ inbox \in [Notices -> [Admins -> {"none", "unread", "read"}]]
    /\ pushed \in [Notices -> [Browsers -> Nat]]
    /\ registered \in [Admins -> SUBSET Browsers]
    /\ managed \subseteq Admins

\* Whoever has or gets a manager's token has managed.
RolesAreSeen ==
    /\ \A u \in Admins : granted[u] \cap Managers # {} => u \in managed
    /\ \A c \in PortalCalls :
          portal[c].step \in {"session", "sign"} /\ portal[c].role \in Managers =>
              portal[c].user \in managed

\* A request that saves a token, of browser b.
CallFits(r) ==
    r.step # "idle" =>
       /\ r.session \in AdminSlots /\ r.browser \in Browsers /\ r.actor \in Admins
       /\ r.role \in Managers => r.actor \in managed
       /\ r.step = "subscribe" => r.role \in Managers /\ r.browser \in registered[r.actor]

CallsFit == \A k \in TokenCalls : CallFits(tokenCall[k])

\* A session's token was saved for its user; a row that is not made has none.
TokensFit ==
    \A s \in AdminSlots :
       /\ adminSession[s].state = "none" => fcmToken[s] = NoBrowser
       /\ Kept(s) /\ fcmToken[s] # NoBrowser => fcmToken[s] \in registered[adminSession[s].user]

TopicFits == \A b \in onTopic : \E u \in managed \cap Admins : b \in registered[u]

\* What a notification on its way has done, and what it will push.
NoticeFits(n, q) ==
    /\ q.step \in {"new", "find", "topic"} => q.to = NoAdmin
    /\ q.step = "store" /\ q.to # NoAdmin => q.to \in q.targets
    /\ q.step \in {"sessions", "send"} => q.to \in Admins /\ inbox[n][q.to] # "none"
    /\ q.step = "send" =>
          \A b \in Browsers : q.copies[b] \in {0, 1} /\ (q.copies[b] = 1 => b \in registered[q.to])
    /\ q.step # "over" => \A b \in Browsers : pushed[n][b] = 0

NoticesFit == \A n \in Notices : NoticeFits(n, notice[n])

NoticeInv ==
    NoticeTypeOK /\ RolesAreSeen /\ CallsFit /\ TokensFit /\ TopicFits /\ NoticesFit /\ PushesAreOwed

\* The notifications leave the accounts as they are.
LEMMA RefinesAccounts == PortalSpec => AdminSpec
<1>1. [PortalNext]_<<adminVars, noticeVars>> => [AdminNext]_adminVars
  BY DEF PortalNext, AccountChanges
<1> QED
  BY <1>1, PTL DEF PortalSpec, AdminSpec

\* A login takes the role that it reads.
LEMMA RolesAreRead ==
    ASSUME PortalTypeOK, PortalIsMade, NEW r, PortalBegun(r), r.step \in {"session", "sign"}
    PROVE  r.role = account[r.user].role
BY PortalIdleType DEF PortalBegun, Portal

LEMMA RolesStep ==
    ASSUME PortalTypeOK, PortalIsMade, GrantedOK, RolesAreSeen, AccountChanges
    PROVE  RolesAreSeen'
<1>1. /\ [AdminNext]_adminVars /\ managed \subseteq managed'
      /\ \A u \in Admins : account[u].role \in Managers => u \in managed'
  BY DEF AccountChanges
<1>2. ASSUME NEW u \in Admins, granted'[u] \cap Managers # {} PROVE u \in managed'
  <2>1. CASE granted' = granted
    BY <1>1, <1>2, <2>1 DEF RolesAreSeen
  <2>2. ASSUME NEW c \in PortalCalls, CreateSession(c) \/ RefreshAccessToken(c) PROVE u \in managed'
    <3>1. /\ portal[c].step \in {"session", "sign"}
          /\ granted' = [granted EXCEPT ![portal[c].user] = @ \cup {portal[c].role}]
      BY <2>2 DEF CreateSession, RefreshAccessToken, PortalEnds
    <3>2. \/ granted[u] \cap Managers # {}
          \/ portal[c].user = u /\ portal[c].role \in Managers
      BY <1>2, <3>1 DEF GrantedOK
    <3> QED
      BY <1>1, <3>1, <3>2 DEF RolesAreSeen
  <2>4. ASSUME NEW v \in Admins, AccessExpires(v) PROVE u \in managed'
    <3>1. granted[u] \cap Managers # {}
      BY <1>2, <2>4 DEF AccessExpires, GrantedOK
    <3> QED
      BY <1>1, <3>1 DEF RolesAreSeen
  <2> QED
    BY <1>1, <2>1, <2>2, <2>4, GrantsKept
<1>3. ASSUME NEW c \in PortalCalls, NEW q, q = portal'[c], q.step \in {"session", "sign"},
             q.role \in Managers
      PROVE  q.user \in managed'
  <2>1. CASE q = portal[c]
    BY <1>1, <1>3, <2>1 DEF RolesAreSeen
  <2>2. CASE q # portal[c] /\ \A d \in PortalCalls : ~PortalStarts(d)
    <3>1. PICK r : r = portal[c]
      OBVIOUS
    <3>2. r \in Portal /\ PortalMoves(r, q) /\ q # r
      BY <1>1, <1>3, <2>2, <3>1, PortalCases DEF PortalTypeOK
    <3>3. \/ r.step \in {"session", "sign"} /\ r.role = q.role /\ r.user = q.user
          \/ q.user \in Admins /\ q.role = account[q.user].role
      BY <1>3, <3>2, PortalIdleType DEF PortalMoves, Portal
    <3> QED
      BY <1>1, <1>3, <3>1, <3>3 DEF RolesAreSeen
  <2>3. ASSUME NEW d \in PortalCalls, PortalStarts(d), q # portal[c] PROVE q.user \in managed'
    <3>1. PortalBegun(q)
      BY <1>3, <2>3, PortalStartCases DEF PortalTypeOK
    <3>2. q.user \in Admins /\ q.role = account[q.user].role
      BY <1>3, <3>1, PortalBegunType, RolesAreRead
    <3> QED
      BY <1>1, <1>3, <3>2
  <2> QED
    BY <2>1, <2>2, <2>3
<1> QED
  BY <1>2, <1>3 DEF RolesAreSeen

\* A row that is there was there, and of the same user, or it is new.
LEMMA SlotCases ==
    ASSUME PortalTypeOK, PortalIsMade, AdminNext, NEW s \in AdminSlots
    PROVE  /\ adminSession'[s].state = "none" => adminSession[s].state = "none"
           /\ adminSession'[s].state \in {"live", "expired"} =>
                 \/ adminSession[s].state = "none"
                 \/ Kept(s) /\ adminSession'[s].user = adminSession[s].user
<1> DEFINE Goal == /\ adminSession'[s].state = "none" => adminSession[s].state = "none"
                   /\ adminSession'[s].state \in {"live", "expired"} =>
                         \/ adminSession[s].state = "none"
                         \/ Kept(s) /\ adminSession'[s].user = adminSession[s].user
<1>1. CASE adminSession' = adminSession
  BY <1>1 DEF Kept
<1>2. ASSUME NEW rows, adminSession' = WithoutSessions(rows) PROVE Goal
  BY <1>2 DEF WithoutSessions, PortalTypeOK, PortalRow, Kept
<1>3. ASSUME NEW c \in PortalCalls, CreateSession(c) PROVE Goal
  BY <1>3 DEF CreateSession, PortalTypeOK, PortalRow, Kept
<1>4. ASSUME NEW t \in AdminSlots, AdminSessionExpires(t) PROVE Goal
  BY <1>4 DEF AdminSessionExpires, PortalTypeOK, PortalRow, Kept
<1> HIDE DEF Goal
<1>5. ASSUME NEW c \in PortalCalls, PortalStarts(c)
      PROVE  adminSession' = adminSession \/ \E rows : adminSession' = WithoutSessions(rows)
  BY <1>5, PortalStartCases
<1>6. ASSUME NEW c \in PortalCalls,
             \/ TouchSession(c) \/ ReadUserAgain(c) \/ RefreshAccessToken(c) \/ UpdateUser(c) \/ DeactivateUser(c)
             \/ ResetPasswordWithGoogle(c) \/ DropSessions(c) \/ PortalDies(c)
      PROVE  adminSession' = adminSession \/ \E rows : adminSession' = WithoutSessions(rows)
  BY <1>6 DEF TouchSession, ReadUserAgain, RefreshAccessToken, UpdateUser, DeactivateUser, ResetPasswordWithGoogle,
     DropSessions, PortalDies
<1>7. ASSUME \/ (\E t \in AdminSlots : LogoutAdmin(t)) \/ CleanupAdminSessions
             \/ (\E u, actor \in Admins :
                   \/ ReactivateUser(u, actor)
                   \/ \E role \in AdminRole : CreateUser(u, actor, role))
             \/ (\E u \in Admins : AccessExpires(u))
      PROVE  adminSession' = adminSession \/ \E rows : adminSession' = WithoutSessions(rows)
  BY <1>7 DEF LogoutAdmin, CleanupAdminSessions, ReactivateUser, CreateUser, AccessExpires
<1>8. Goal
  BY <1>1, <1>2, <1>3, <1>4, <1>5, <1>6, <1>7 DEF AdminNext, PortalStarts, Goal
<1> QED
  BY <1>8 DEF Goal

\* What users and sessions do while nothing is saved or notified.
LEMMA AccountsKeepNotices ==
    ASSUME PortalTypeOK, PortalIsMade, GrantedOK, NoticeInv, AccountChanges
    PROVE  NoticeInv'
<1>1. /\ AdminNext /\ managed \subseteq managed'
      /\ UNCHANGED <<fcmToken, onTopic, tokenCall, notice, inbox, pushed, registered>>
  BY DEF AccountChanges
<1>2. NoticeTypeOK' /\ NoticesFit'
  <2>1. managed' \subseteq Admins
    BY DEF AccountChanges, NoticeInv, NoticeTypeOK
  <2> QED
    BY <1>1, <2>1 DEF NoticeInv, NoticeTypeOK, NoticesFit, NoticeFits
<1>3. CallsFit' /\ TopicFits' /\ PushesAreOwed'
  BY <1>1 DEF NoticeInv, CallsFit, CallFits, TopicFits, PushesAreOwed
<1>4. TokensFit'
  BY <1>1, SlotCases DEF NoticeInv, TokensFit, Kept
<1> QED
  BY <1>2, <1>3, <1>4, RolesStep DEF NoticeInv

LEMMA TokenIdleType == TokenIdle \in TokenRow /\ TokenIdle.step = "idle"
BY DEF TokenIdle, TokenRow

\* What holds of the notifications depends on nothing else but what is saved.
LEMMA NoticesStay ==
    ASSUME NoticeInv, UNCHANGED <<notice, inbox, pushed, managed>>,
           \A u \in Admins : registered[u] \subseteq registered'[u]
    PROVE  NoticesFit' /\ PushesAreOwed'
<1>1. NoticesFit'
  BY DEF NoticeInv, NoticesFit, NoticeFits
<1>2. ASSUME NEW n \in Notices, NEW b \in Browsers, pushed'[n][b] > 0
      PROVE  /\ pushed'[n][b] = 1
             /\ notice'[n].to # NoAdmin =>
                   b \in registered'[notice'[n].to] /\ inbox'[n][notice'[n].to] # "none"
             /\ notice'[n].to = NoAdmin => \E u \in managed' : b \in registered'[u]
  <2>1. notice[n].to \in Admins \cup {NoAdmin} /\ managed \subseteq Admins
    BY DEF NoticeInv, NoticeTypeOK, Notice
  <2> QED
    BY <1>2, <2>1 DEF NoticeInv, PushesAreOwed
<1> QED
  BY <1>1, <1>2 DEF PushesAreOwed

\* A request for a token goes on.
LEMMA CallGoesOn ==
    ASSUME NoticeInv, NEW k \in TokenCalls, NEW r \in TokenRow, tokenCall' = [tokenCall EXCEPT ![k] = r],
           managed' = managed, \A u \in Admins : registered[u] \subseteq registered'[u], CallFits(r)'
    PROVE  tokenCall' \in [TokenCalls -> TokenRow] /\ CallsFit'
<1>1. \A d \in TokenCalls : CallFits(tokenCall[d]) => CallFits(tokenCall[d])'
  BY DEF CallFits
<1> QED
  BY <1>1 DEF NoticeInv, NoticeTypeOK, CallsFit

LEMMA TokensKeepNotices ==
    ASSUME NoticeInv, PortalIsMade, GrantedOK, TokenNext, UNCHANGED adminVars
    PROVE  NoticeInv'
<1>0. /\ UNCHANGED <<account, granted, adminSession, portal>>
      /\ NoticeTypeOK /\ RolesAreSeen /\ CallsFit /\ TokensFit /\ TopicFits
  BY DEF adminVars, NoticeInv
<1>1. PICK k \in TokenCalls :
         \/ \E s \in AdminSlots, b \in Browsers : UpdateFcmToken(k, s, b)
         \/ UpdateSessionFcmToken(k) \/ SubscribeAdminToTopics(k) \/ TokenCallFails(k)
  BY DEF TokenNext
<1>2. RolesAreSeen'
  BY <1>0, <1>1 DEF RolesAreSeen, UpdateFcmToken, UpdateSessionFcmToken, SubscribeAdminToTopics, TokenCallFails
<1>3. CallFits(TokenIdle)'
  BY TokenIdleType DEF CallFits
<1>4. CASE \E s \in AdminSlots, b \in Browsers : UpdateFcmToken(k, s, b)
  <2>1. PICK s \in AdminSlots, b \in Browsers, actor \in Admins, r \in AdminRole \cup {"NONE"} :
           /\ r \in granted[actor]
           /\ tokenCall' = [tokenCall EXCEPT ![k] = [step |-> "save", session |-> s, browser |-> b,
                                                     actor |-> actor, role |-> r]]
           /\ UNCHANGED <<fcmToken, onTopic, notice, inbox, pushed, registered, managed>>
    BY <1>4 DEF UpdateFcmToken, GrantedOK
  <2>2. PICK q : q = [step |-> "save", session |-> s, browser |-> b, actor |-> actor, role |-> r]
    OBVIOUS
  <2>3. q \in TokenRow /\ CallFits(q)'
    BY <1>0, <2>1, <2>2 DEF TokenRow, CallFits, RolesAreSeen
  <2>4. tokenCall' \in [TokenCalls -> TokenRow] /\ CallsFit'
    BY <2>1, <2>2, <2>3, CallGoesOn
  <2>5. NoticeTypeOK' /\ TokensFit' /\ TopicFits'
    BY <1>0, <2>1, <2>4 DEF NoticeTypeOK, TokensFit, TopicFits, Kept
  <2> QED
    BY <1>2, <2>1, <2>4, <2>5, NoticesStay DEF NoticeInv
<1>5. CASE UpdateSessionFcmToken(k) /\ ~Kept(tokenCall[k].session)
  <2>1. /\ tokenCall' = [tokenCall EXCEPT ![k] = TokenIdle]
        /\ UNCHANGED <<fcmToken, onTopic, notice, inbox, pushed, registered, managed>>
    BY <1>5 DEF UpdateSessionFcmToken
  <2>2. tokenCall' \in [TokenCalls -> TokenRow] /\ CallsFit'
    BY <1>3, <2>1, CallGoesOn, TokenIdleType
  <2>3. NoticeTypeOK' /\ TokensFit' /\ TopicFits'
    BY <1>0, <2>1, <2>2 DEF NoticeTypeOK, TokensFit, TopicFits, Kept
  <2> QED
    BY <1>2, <2>1, <2>2, <2>3, NoticesStay DEF NoticeInv
<1>6. CASE UpdateSessionFcmToken(k) /\ Kept(tokenCall[k].session)
  <2>1. PICK r, s, b : r = tokenCall[k] /\ s = r.session /\ b = r.browser
    OBVIOUS
  <2>2. /\ r \in TokenRow /\ r.step = "save" /\ s \in AdminSlots /\ b \in Browsers /\ r.actor \in Admins
        /\ r.role \in Managers => r.actor \in managed
    BY <1>0, <1>6, <2>1 DEF NoticeTypeOK, CallsFit, CallFits, UpdateSessionFcmToken
  <2>3. /\ fcmToken' = [fcmToken EXCEPT ![s] = b]
        /\ registered' = [u \in Admins |-> IF u \in Savers(k) THEN registered[u] \cup {b}
                                           ELSE registered[u]]
        /\ UNCHANGED <<onTopic, notice, inbox, pushed, managed>>
    BY <1>6, <2>1 DEF UpdateSessionFcmToken
  <2>4. /\ \A u \in Admins : registered[u] \subseteq registered'[u]
        /\ b \in registered'[r.actor] /\ b \in registered'[adminSession[s].user]
        /\ registered' \in [Admins -> SUBSET Browsers]
    <3>1. adminSession[s].user \in Admins
      BY <1>6, <2>1, <2>2 DEF PortalIsMade
    <3> QED
      BY <1>0, <2>1, <2>2, <2>3, <3>1 DEF Savers, NoticeTypeOK
  <2>5. PICK q : q = IF Subscribes(r.role) THEN [r EXCEPT !.step = "subscribe"] ELSE TokenIdle
    OBVIOUS
  <2>6. tokenCall' = [tokenCall EXCEPT ![k] = q]
    BY <1>0, <1>6, <2>1, <2>5 DEF UpdateSessionFcmToken, NoticeTypeOK
  <2>7. q \in TokenRow /\ CallFits(q)'
    <3>1. CASE Subscribes(r.role)
      <4>1. q \in TokenRow /\ q.session = s /\ q.browser = b /\ q.actor = r.actor /\ q.role = r.role
        BY <2>1, <2>2, <2>5, <3>1 DEF TokenRow
      <4> QED
        BY <2>2, <2>3, <2>4, <3>1, <4>1 DEF CallFits, Subscribes
    <3>2. CASE ~Subscribes(r.role)
      BY <1>3, <2>5, <3>2, TokenIdleType
    <3> QED
      BY <3>1, <3>2
  <2>8. tokenCall' \in [TokenCalls -> TokenRow] /\ CallsFit'
    BY <2>3, <2>4, <2>6, <2>7, CallGoesOn
  <2>9. NoticeTypeOK'
    BY <1>0, <2>2, <2>3, <2>4, <2>8 DEF NoticeTypeOK
  <2>10. TokensFit'
    <3>1. ASSUME NEW t \in AdminSlots, t # s PROVE fcmToken'[t] = fcmToken[t]
      BY <1>0, <2>3, <3>1 DEF NoticeTypeOK
    <3>2. fcmToken'[s] = b /\ adminSession[s].state # "none"
      BY <1>0, <1>6, <2>1, <2>2, <2>3 DEF NoticeTypeOK, Kept
    <3>3. \A t \in AdminSlots : Kept(t) => adminSession[t].user \in Admins
      BY DEF PortalIsMade
    <3> QED
      BY <1>0, <2>4, <3>1, <3>2, <3>3 DEF TokensFit, Kept
  <2>11. TopicFits'
    BY <1>0, <2>3, <2>4 DEF TopicFits
  <2> QED
    BY <1>2, <2>3, <2>4, <2>8, <2>9, <2>10, <2>11, NoticesStay DEF NoticeInv
<1>7. CASE SubscribeAdminToTopics(k)
  <2>1. /\ tokenCall' = [tokenCall EXCEPT ![k] = TokenIdle]
        /\ onTopic' = onTopic \cup {tokenCall[k].browser}
        /\ UNCHANGED <<fcmToken, notice, inbox, pushed, registered, managed>>
    BY <1>7 DEF SubscribeAdminToTopics
  <2>2. tokenCall' \in [TokenCalls -> TokenRow] /\ CallsFit'
    BY <1>3, <2>1, CallGoesOn, TokenIdleType
  <2>3. /\ tokenCall[k].browser \in Browsers /\ tokenCall[k].actor \in managed \cap Admins
        /\ tokenCall[k].browser \in registered[tokenCall[k].actor]
    BY <1>0, <1>7 DEF SubscribeAdminToTopics, CallsFit, CallFits
  <2>4. NoticeTypeOK' /\ TokensFit'
    BY <1>0, <2>1, <2>2, <2>3 DEF NoticeTypeOK, TokensFit, Kept
  <2>5. TopicFits'
    BY <1>0, <2>1, <2>3 DEF TopicFits
  <2> QED
    BY <1>2, <2>1, <2>2, <2>4, <2>5, NoticesStay DEF NoticeInv
<1>8. CASE TokenCallFails(k)
  <2>1. /\ tokenCall' = [tokenCall EXCEPT ![k] = TokenIdle]
        /\ UNCHANGED <<fcmToken, onTopic, notice, inbox, pushed, registered, managed>>
    BY <1>8 DEF TokenCallFails
  <2>2. tokenCall' \in [TokenCalls -> TokenRow] /\ CallsFit'
    BY <1>3, <2>1, CallGoesOn, TokenIdleType
  <2>3. NoticeTypeOK' /\ TokensFit' /\ TopicFits'
    BY <1>0, <2>1, <2>2 DEF NoticeTypeOK, TokensFit, TopicFits, Kept
  <2> QED
    BY <1>2, <2>1, <2>2, <2>3, NoticesStay DEF NoticeInv
<1> QED
  BY <1>1, <1>4, <1>5, <1>6, <1>7, <1>8

\* What is promised of one notification.
Owed(n) ==
    \A b \in Browsers : pushed[n][b] > 0 =>
       /\ pushed[n][b] = 1
       /\ notice[n].to # NoAdmin =>
             b \in registered[notice[n].to] /\ inbox[n][notice[n].to] # "none"
       /\ notice[n].to = NoAdmin => \E u \in managed : b \in registered[u]

\* A notification goes on, and the others stay.
LEMMA NoticeGoesOn ==
    ASSUME NoticeInv, NEW n \in Notices, NEW q \in Notice, notice' = [notice EXCEPT ![n] = q],
           UNCHANGED <<fcmToken, onTopic, tokenCall, registered, managed, granted, adminSession, portal>>,
           NEW entries \in [Admins -> {"none", "unread", "read"}], inbox' = [inbox EXCEPT ![n] = entries],
           NEW count \in [Browsers -> Nat], pushed' = [pushed EXCEPT ![n] = count],
           NoticeFits(n, q)', Owed(n)'
    PROVE  NoticeInv'
<1>1. NoticeTypeOK'
  BY DEF NoticeInv, NoticeTypeOK
<1>2. RolesAreSeen' /\ CallsFit' /\ TokensFit' /\ TopicFits'
  BY DEF NoticeInv, RolesAreSeen, CallsFit, CallFits, TokensFit, TopicFits, Kept
<1>3. ASSUME NEW m \in Notices, m # n
      PROVE  notice'[m] = notice[m] /\ inbox'[m] = inbox[m] /\ pushed'[m] = pushed[m]
  BY <1>3 DEF NoticeInv, NoticeTypeOK
<1>4. NoticesFit'
  <2>1. ASSUME NEW m \in Notices, m # n PROVE NoticeFits(m, notice[m])'
    BY <1>3, <2>1 DEF NoticeInv, NoticesFit, NoticeFits
  <2>2. notice'[n] = q
    BY DEF NoticeInv, NoticeTypeOK
  <2> QED
    BY <2>1, <2>2 DEF NoticesFit
<1>5. PushesAreOwed'
  <2>1. ASSUME NEW m \in Notices, m # n PROVE Owed(m)'
    BY <1>3, <2>1 DEF NoticeInv, PushesAreOwed, Owed
  <2> QED
    BY <2>1 DEF PushesAreOwed, Owed
<1> QED
  BY <1>1, <1>2, <1>4, <1>5 DEF NoticeInv

LEMMA NoticeKeepsNotices ==
    ASSUME NoticeInv, NEW n \in Notices, UNCHANGED adminVars,
           \/ \E u \in Admins : NotifyUser(n, u) \/ MarkAsRead(n, u)
           \/ NotifyManagers(n) \/ FindManagers(n) \/ StoreNotice(n) \/ NotifyTopic(n)
           \/ ReadTokens(n) \/ SendToTokens(n) \/ NoticeFails(n)
    PROVE  NoticeInv'
<1>0. PICK r, entries, count : r = notice[n] /\ entries = inbox[n] /\ count = pushed[n]
  OBVIOUS
<1>1. /\ r \in Notice /\ NoticeFits(n, r) /\ Owed(n)
      /\ entries \in [Admins -> {"none", "unread", "read"}]
      /\ inbox = [inbox EXCEPT ![n] = entries]
      /\ count \in [Browsers -> Nat] /\ pushed = [pushed EXCEPT ![n] = count]
  BY <1>0 DEF NoticeInv, NoticeTypeOK, NoticesFit, PushesAreOwed, Owed
<1>2. /\ UNCHANGED <<account, granted, adminSession, portal>>
      /\ UNCHANGED <<fcmToken, onTopic, tokenCall, registered, managed>>
  BY DEF adminVars, NotifyUser, MarkAsRead, NotifyManagers, FindManagers, StoreNotice, NotifyTopic,
     ReadTokens, SendToTokens, NoticeFails
<1>3. ASSUME NEW q \in Notice, notice' = [notice EXCEPT ![n] = q], UNCHANGED <<inbox, pushed>>,
             NoticeFits(n, q), q.to = r.to \/ r.step # "over"
      PROVE  NoticeInv'
  <2>1. NoticeFits(n, q)'
    BY <1>2, <1>3 DEF NoticeFits
  <2>2. notice'[n] = q
    BY <1>3 DEF NoticeInv, NoticeTypeOK
  <2>3. CASE q.to = r.to
    <3>1. Owed(n)'
      BY <1>0, <1>1, <1>2, <1>3, <2>2, <2>3 DEF Owed
    <3> QED
      BY <1>1, <1>2, <1>3, <2>1, <3>1, NoticeGoesOn
  <2>4. CASE r.step # "over"
    <3>1. Owed(n)'
      BY <1>0, <1>1, <1>3, <2>4 DEF NoticeFits, Owed
    <3> QED
      BY <1>1, <1>2, <1>3, <2>1, <3>1, NoticeGoesOn
  <2> QED
    BY <1>3, <2>3, <2>4
<1>4. ASSUME NEW u \in Admins, NotifyUser(n, u) PROVE NoticeInv'
  <2>1. PICK q : q = [r EXCEPT !.step = "store", !.to = u, !.targets = {u}]
    OBVIOUS
  <2>2. q \in Notice /\ q.step = "store" /\ q.to = u /\ q.targets = {u}
    BY <1>1, <2>1 DEF Notice
  <2>3. notice' = [notice EXCEPT ![n] = q] /\ UNCHANGED <<inbox, pushed>> /\ r.step = "new"
    BY <1>0, <1>4, <2>1 DEF NotifyUser, NoticeInv, NoticeTypeOK
  <2>4. NoticeFits(n, q)
    BY <1>0, <1>1, <2>2, <2>3 DEF NoticeFits
  <2> QED
    BY <1>3, <2>2, <2>3, <2>4
<1>5. CASE NotifyManagers(n)
  <2>1. PICK q : q = [r EXCEPT !.step = "find"]
    OBVIOUS
  <2>2. q \in Notice /\ q.step = "find" /\ q.to = r.to
    BY <1>1, <2>1 DEF Notice
  <2>3. notice' = [notice EXCEPT ![n] = q] /\ UNCHANGED <<inbox, pushed>> /\ r.step = "new"
    BY <1>0, <1>5, <2>1 DEF NotifyManagers, NoticeInv, NoticeTypeOK
  <2>4. NoticeFits(n, q)
    BY <1>1, <2>2, <2>3 DEF NoticeFits
  <2> QED
    BY <1>3, <2>2, <2>3, <2>4
<1>6. CASE FindManagers(n)
  <2>1. PICK targets \in SUBSET Admins, step \in {"over", "store"} :
           notice' = [notice EXCEPT ![n].step = step, ![n].targets = targets]
    BY <1>6 DEF FindManagers
  <2>2. PICK q : q = [r EXCEPT !.step = step, !.targets = targets]
    OBVIOUS
  <2>3. q \in Notice /\ q.step = step /\ q.to = r.to
    BY <1>1, <2>2 DEF Notice
  <2>4. notice' = [notice EXCEPT ![n] = q] /\ UNCHANGED <<inbox, pushed>> /\ r.step = "find"
    BY <1>0, <1>6, <2>1, <2>2 DEF FindManagers, NoticeInv, NoticeTypeOK
  <2>5. NoticeFits(n, q)
    BY <1>1, <2>3, <2>4 DEF NoticeFits
  <2> QED
    BY <1>3, <2>3, <2>4, <2>5
<1>7. CASE ReadTokens(n)
  <2>1. PICK rows, copies, step : /\ rows = WithFcm(r.to) /\ copies = CopyForEachToken(rows)
                                  /\ step = IF rows = {} THEN "over" ELSE "send"
    OBVIOUS
  <2>2. PICK q : q = [r EXCEPT !.step = step, !.copies = copies]
    OBVIOUS
  <2>3. copies \in [Browsers -> Nat] /\ \A b \in Browsers : copies[b] \in {0, 1}
    BY <2>1 DEF CopyForEachToken
  <2>4. q \in Notice /\ q.step = step /\ q.to = r.to /\ q.copies = copies
    BY <1>1, <2>1, <2>2, <2>3 DEF Notice
  <2>5. notice' = [notice EXCEPT ![n] = q] /\ UNCHANGED <<inbox, pushed>> /\ r.step = "sessions"
    BY <1>0, <1>7, <2>1, <2>2 DEF ReadTokens, NoticeInv, NoticeTypeOK
  <2>6. ASSUME NEW b \in Browsers, copies[b] = 1 PROVE b \in registered[r.to]
    <3>1. PICK s \in AdminSlots : Kept(s) /\ adminSession[s].user = r.to /\ fcmToken[s] # NoBrowser
                                  /\ fcmToken[s] = b
      BY <2>1, <2>6 DEF CopyForEachToken, WithFcm, Kept
    <3> QED
      BY <3>1 DEF NoticeInv, TokensFit
  <2>7. NoticeFits(n, q)
    BY <1>1, <2>1, <2>3, <2>4, <2>5, <2>6 DEF NoticeFits
  <2> QED
    BY <1>3, <2>4, <2>5, <2>7
<1>8. CASE NoticeFails(n)
  <2>1. PICK q : q = [r EXCEPT !.step = "over"]
    OBVIOUS
  <2>2. q \in Notice /\ q.step = "over" /\ q.to = r.to
    BY <1>1, <2>1 DEF Notice
  <2>3. notice' = [notice EXCEPT ![n] = q] /\ UNCHANGED <<inbox, pushed>>
    BY <1>0, <1>8, <2>1 DEF NoticeFails, NoticeInv, NoticeTypeOK
  <2>4. NoticeFits(n, q)
    BY <2>2 DEF NoticeFits
  <2> QED
    BY <1>3, <2>2, <2>3, <2>4
<1>9. CASE StoreNotice(n)
  <2>1. PICK q : q = [r EXCEPT !.step = IF r.to = NoAdmin THEN "topic" ELSE "sessions"]
    OBVIOUS
  <2>2. q \in Notice /\ q.step = (IF r.to = NoAdmin THEN "topic" ELSE "sessions") /\ q.to = r.to
    BY <1>1, <2>1 DEF Notice
  <2>3. PICK next : next = [u \in Admins |-> IF u \in r.targets THEN "unread" ELSE entries[u]]
    OBVIOUS
  <2>4. next \in [Admins -> {"none", "unread", "read"}]
    BY <1>1, <2>3
  <2>5. /\ notice' = [notice EXCEPT ![n] = q] /\ inbox' = [inbox EXCEPT ![n] = next]
        /\ pushed' = pushed /\ r.step = "store"
    BY <1>0, <1>9, <2>1, <2>3 DEF StoreNotice, NoticeInv, NoticeTypeOK
  <2>6. notice'[n] = q /\ inbox'[n] = next
    BY <2>5 DEF NoticeInv, NoticeTypeOK
  <2>7. r.to # NoAdmin => r.to \in Admins /\ next[r.to] = "unread"
    BY <1>1, <2>3, <2>5 DEF NoticeFits, Notice
  <2>8. /\ q.step \in {"topic", "sessions"} /\ (q.step = "topic" => q.to = NoAdmin)
        /\ q.step = "sessions" => q.to \in Admins /\ next[q.to] # "none"
    BY <2>2, <2>7
  <2>9. \A b \in Browsers : pushed[n][b] = 0
    BY <1>1, <2>5 DEF NoticeFits
  <2>10. NoticeFits(n, q)' /\ Owed(n)'
    BY <2>5, <2>6, <2>8, <2>9 DEF NoticeFits, Owed
  <2> QED
    BY <1>1, <1>2, <2>2, <2>4, <2>5, <2>10, NoticeGoesOn
<1>10. CASE NotifyTopic(n)
  <2>1. PICK q : q = [r EXCEPT !.step = "over"]
    OBVIOUS
  <2>2. q \in Notice /\ q.step = "over" /\ q.to = r.to
    BY <1>1, <2>1 DEF Notice
  <2>3. PICK count2 : count2 = [b \in Browsers |-> IF b \in onTopic THEN count[b] + 1 ELSE count[b]]
    OBVIOUS
  <2>4. count2 \in [Browsers -> Nat]
    BY <1>1, <2>3
  <2>5. /\ notice' = [notice EXCEPT ![n] = q] /\ pushed' = [pushed EXCEPT ![n] = count2]
        /\ inbox' = inbox /\ r.step = "topic"
    BY <1>0, <1>10, <2>1, <2>3 DEF NotifyTopic, NoticeInv, NoticeTypeOK
  <2>6. notice'[n] = q /\ pushed'[n] = count2
    BY <2>5 DEF NoticeInv, NoticeTypeOK
  <2>7. q.to = NoAdmin /\ \A b \in Browsers : count2[b] = IF b \in onTopic THEN 1 ELSE 0
    BY <1>0, <1>1, <2>2, <2>3, <2>5 DEF NoticeFits
  <2>8. Owed(n)'
    BY <1>2, <2>6, <2>7 DEF NoticeInv, TopicFits, Owed
  <2>9. NoticeFits(n, q)'
    BY <2>2 DEF NoticeFits
  <2> QED
    BY <1>1, <1>2, <2>2, <2>4, <2>5, <2>8, <2>9, NoticeGoesOn
<1>11. CASE SendToTokens(n)
  <2>1. PICK q : q = [r EXCEPT !.step = "over"]
    OBVIOUS
  <2>2. q \in Notice /\ q.step = "over" /\ q.to = r.to
    BY <1>1, <2>1 DEF Notice
  <2>3. PICK count2 : count2 = [b \in Browsers |-> count[b] + r.copies[b]]
    OBVIOUS
  <2>4. count2 \in [Browsers -> Nat]
    BY <1>1, <2>3 DEF Notice
  <2>5. /\ notice' = [notice EXCEPT ![n] = q] /\ pushed' = [pushed EXCEPT ![n] = count2]
        /\ inbox' = inbox /\ r.step = "send"
    BY <1>0, <1>11, <2>1, <2>3 DEF SendToTokens, NoticeInv, NoticeTypeOK
  <2>6. notice'[n] = q /\ pushed'[n] = count2
    BY <2>5 DEF NoticeInv, NoticeTypeOK
  <2>7. /\ q.to \in Admins /\ entries[q.to] # "none"
        /\ \A b \in Browsers : count2[b] \in {0, 1} /\ (count2[b] = 1 => b \in registered[q.to])
    BY <1>0, <1>1, <2>2, <2>3, <2>5 DEF NoticeFits
  <2>8. Owed(n)'
    BY <1>0, <1>2, <2>5, <2>6, <2>7, AdminAssumption DEF Owed
  <2>9. NoticeFits(n, q)'
    BY <2>2 DEF NoticeFits
  <2> QED
    BY <1>1, <1>2, <2>2, <2>4, <2>5, <2>8, <2>9, NoticeGoesOn
<1>12. ASSUME NEW u \in Admins, MarkAsRead(n, u) PROVE NoticeInv'
  <2>1. PICK next : next = [entries EXCEPT ![u] = "read"]
    OBVIOUS
  <2>2. next \in [Admins -> {"none", "unread", "read"}] /\ \A v \in Admins : entries[v] # "none" => next[v] # "none"
    BY <1>1, <2>1
  <2>3. /\ inbox' = [inbox EXCEPT ![n] = next] /\ UNCHANGED <<notice, pushed>>
        /\ notice' = [notice EXCEPT ![n] = r]
    BY <1>0, <1>12, <2>1 DEF MarkAsRead, NoticeInv, NoticeTypeOK
  <2>4. inbox'[n] = next
    BY <2>3 DEF NoticeInv, NoticeTypeOK
  <2>5. NoticeFits(n, r)' /\ Owed(n)'
    BY <1>0, <1>1, <1>2, <2>2, <2>3, <2>4 DEF NoticeFits, Owed, Notice
  <2> QED
    BY <1>1, <1>2, <2>2, <2>3, <2>5, NoticeGoesOn
<1> QED
  BY <1>4, <1>5, <1>6, <1>7, <1>8, <1>9, <1>10, <1>11, <1>12

LEMMA ReadingKeepsNotices ==
    ASSUME NoticeInv, NEW u \in Admins, MarkAllAsRead(u), UNCHANGED adminVars
    PROVE  NoticeInv'
<1>1. /\ UNCHANGED <<granted, adminSession, portal>>
      /\ UNCHANGED <<fcmToken, onTopic, tokenCall, notice, pushed, registered, managed>>
      /\ inbox' = [n \in Notices |-> IF inbox[n][u] = "unread" THEN [inbox[n] EXCEPT ![u] = "read"]
                                     ELSE inbox[n]]
  BY DEF MarkAllAsRead, adminVars
<1>2. /\ inbox' \in [Notices -> [Admins -> {"none", "unread", "read"}]]
      /\ \A n \in Notices, v \in Admins : inbox[n][v] # "none" => inbox'[n][v] # "none"
  BY <1>1 DEF NoticeInv, NoticeTypeOK
<1>3. NoticeTypeOK'
  BY <1>1, <1>2 DEF NoticeInv, NoticeTypeOK
<1>4. RolesAreSeen' /\ CallsFit' /\ TokensFit' /\ TopicFits'
  BY <1>1 DEF NoticeInv, RolesAreSeen, CallsFit, CallFits, TokensFit, TopicFits, Kept
<1>5. \A n \in Notices : notice[n].to \in Admins \cup {NoAdmin}
  BY DEF NoticeInv, NoticeTypeOK, Notice
<1>6. NoticesFit' /\ PushesAreOwed'
  BY <1>1, <1>2, <1>5 DEF NoticeInv, NoticesFit, NoticeFits, PushesAreOwed
<1> QED
  BY <1>3, <1>4, <1>6 DEF NoticeInv

LEMMA NoticeInvariant == PortalSpec => []NoticeInv
<1>1. AdminInit /\ NoticeInit => NoticeInv
  <2> SUFFICES ASSUME AdminInit, NoticeInit PROVE NoticeInv
    OBVIOUS
  <2>1. NoticeNew \in Notice /\ NoticeNew.step = "new" /\ NoticeNew.to = NoAdmin
    BY DEF NoticeNew, NoCopies, Notice
  <2>2. NoticeTypeOK /\ NoticesFit
    BY <2>1, TokenIdleType DEF NoticeInit, NoCopies, NoticeTypeOK, NoticesFit, NoticeFits
  <2>3. \A n \in Notices, b \in Browsers : pushed[n][b] = 0
    BY DEF NoticeInit, NoCopies
  <2>4. RolesAreSeen /\ CallsFit /\ TokensFit /\ TopicFits
    BY PortalIdleType, TokenIdleType DEF AdminInit, NoticeInit, RolesAreSeen, CallsFit, CallFits, TokensFit,
       TopicFits, Kept
  <2> QED
    BY <2>2, <2>3, <2>4 DEF NoticeInv, PushesAreOwed
<1>2. PortalInv /\ GrantedOK /\ NoticeInv /\ [PortalNext]_<<adminVars, noticeVars>> => NoticeInv'
  <2> SUFFICES ASSUME PortalTypeOK, PortalIsMade, GrantedOK, NoticeInv,
                      [PortalNext]_<<adminVars, noticeVars>>
               PROVE  NoticeInv'
    BY DEF PortalInv
  <2>1. CASE AccountChanges
    BY <2>1, AccountsKeepNotices
  <2>2. CASE TokenNext /\ UNCHANGED adminVars
    BY <2>2, TokensKeepNotices
  <2>3. CASE NoticeNext /\ UNCHANGED adminVars
    BY <2>3, NoticeKeepsNotices, ReadingKeepsNotices DEF NoticeNext
  <2>4. CASE UNCHANGED <<adminVars, noticeVars>>
    <3>1. UNCHANGED <<granted, adminSession, portal, fcmToken, onTopic, tokenCall, notice, inbox, pushed,
                      registered, managed>>
      BY <2>4 DEF adminVars, noticeVars
    <3> QED
      BY <3>1 DEF NoticeInv, NoticeTypeOK, RolesAreSeen, CallsFit, CallFits, TokensFit, TopicFits, NoticesFit,
         NoticeFits, PushesAreOwed, Kept
  <2> QED
    BY <2>1, <2>2, <2>3, <2>4 DEF PortalNext
<1> QED
  BY <1>1, <1>2, RefinesAccounts, PortalInvariant, GrantedInvariant, PTL DEF PortalSpec

-----------------------------------------------------------------------------
(* The theorems.                                                           *)

\* However often its answers are lost, a device whose refreshes do not overlap
\* holds a token that its row knows, until the session is ended.
THEOREM DevicesKeepTheirSessions == SSpec => []DeviceKeepsSession
BY SessionsInvariant, PTL DEF SessionsInv

\* Unless verifications overlap, no code wins twice and none is guessed more
\* often than MaxRetryCount allows, across all codes that are ever sent.
THEOREM CodesAreSpent == SSpec => []CodeIsSpent
<1>1. CodesInv => CodeIsSpent
  BY DEF CodesInv, CodesFit, CodeIsSpent
<1> QED
  BY <1>1, CodesInvariant, PTL

\* A deactivation and a password reset leave no session behind that was there
\* before, but for logins in progress and requests that die.
THEOREM ResetsInvalidateSessions == AdminSpec => []SessionsAreInvalidated
BY PortalInvariant, PTL DEF PortalInv

\* However users, sessions and tokens change meanwhile, a browser shows a
\* notification once at most, and only if it was saved for the user it is for,
\* who has the entry; one for all who manage, if somebody who managed saved it.
THEOREM PushesReachTheirUsers == PortalSpec => []PushesAreOwed
BY NoticeInvariant, PTL DEF NoticeInv

=============================================================================
