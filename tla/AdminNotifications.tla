------------------------- MODULE AdminNotifications -------------------------
(***************************************************************************)
(* Notifications of the admin portal.  A service that has written its row  *)
(* notifies one user, or all who manage; nobody awaits it.  The entry for  *)
(* the users' inboxes is stored first; then it is pushed, to the browsers  *)
(* of the one user's sessions or to a topic of Firebase.  A browser's      *)
(* token is saved in the session of its cookie, and subscribed to the      *)
(* topics if the access token is of a manager; nothing takes it off again. *)
(* The three topics are subscribed and used alike: one stands for them.    *)
(* Of lastNotifiedAt, which nothing reads, there is no trace.              *)
(***************************************************************************)
EXTENDS AdminAccounts

CONSTANTS
    Notices,            \* calls of sendNotification
    Browsers,           \* each with a token of Firebase
    NoBrowser,
    TokenCalls,         \* requests that save a browser's token
    MaxNoticeFaults     \* bound on pushes, subscriptions and requests that fail

ASSUME NoBrowserAssumption == NoBrowser \notin Browsers
ASSUME NoticeBoundAssumption == MaxNoticeFaults \in Nat

VARIABLES
    fcmToken,      \* fcmToken[s]: AdminSession.fcmToken: a browser, or NoBrowser
    onTopic,       \* browsers that Firebase has on the topic
    tokenCall,     \* tokenCall[k]: [step, session, browser, actor, role]
    notice,        \* notice[n]: [step, to, targets, copies]: to is NoAdmin if to all who
                   \* manage; copies[b] is how often the push names browser b
    inbox,         \* inbox[n][u]: u's row of AdminNotification: "none", "unread", "read"
    pushed,        \* pushed[n][b]: how often b was shown n
    registered,    \* history: registered[u]: browsers saved by u, or in a session of u
    managed,       \* history: users whom AdminAccounts' steps have seen as managers
    noticeFaults

noticeVars == <<fcmToken, onTopic, tokenCall, notice, inbox, pushed, registered, managed,
                noticeFaults>>

Managers == {"SUPER_ADMIN", "ADMIN"}

TokenIdle == [step |-> "idle", session |-> NoAdminSlot, browser |-> NoBrowser,
              actor |-> NoAdmin, role |-> "NONE"]

NoCopies  == [b \in Browsers |-> 0]
NoticeNew == [step |-> "new", to |-> NoAdmin, targets |-> {}, copies |-> NoCopies]

NoticeInit ==
    /\ fcmToken = [s \in AdminSlots |-> NoBrowser]
    /\ onTopic = {}
    /\ tokenCall = [k \in TokenCalls |-> TokenIdle]
    /\ notice = [n \in Notices |-> NoticeNew]
    /\ inbox = [n \in Notices |-> [u \in Admins |-> "none"]]
    /\ pushed = [n \in Notices |-> NoCopies]
    /\ registered = [u \in Admins |-> {}]
    /\ managed = {}
    /\ noticeFaults = 0

NoticeFault == noticeFaults < MaxNoticeFaults /\ noticeFaults' = noticeFaults + 1

-----------------------------------------------------------------------------
(* A browser's token.                                                      *)

\* The cookie names the session, and a header has the access token: of the same
\* user, or of another who signed in before in the same browser.
UpdateFcmToken(k, s, b) ==
    /\ tokenCall[k] = TokenIdle
    /\ Kept(s)
    /\ \E actor \in Admins : \E r \in granted[actor] :
          tokenCall' = [tokenCall EXCEPT ![k] = [step |-> "save", session |-> s, browser |-> b,
                                                 actor |-> actor, role |-> r]]
    /\ UNCHANGED <<fcmToken, onTopic, notice, inbox, pushed, registered, managed, noticeFaults>>

\* Mutant: everybody is subscribed.
SubscribesAlways(role) == role \in AdminRole

Subscribes(role) == role \in Managers

Savers(k) == {tokenCall[k].actor, adminSession[tokenCall[k].session].user}

\* The update fails when the row is gone.
UpdateSessionFcmToken(k) ==
    LET s == tokenCall[k].session
        b == tokenCall[k].browser
    IN  /\ tokenCall[k].step = "save"
        /\ \/ /\ Kept(s)
              /\ fcmToken' = [fcmToken EXCEPT ![s] = b]
              /\ registered' = [u \in Admins |-> IF u \in Savers(k) THEN registered[u] \cup {b}
                                                 ELSE registered[u]]
              /\ tokenCall' = IF Subscribes(tokenCall[k].role)
                              THEN [tokenCall EXCEPT ![k].step = "subscribe"]
                              ELSE [tokenCall EXCEPT ![k] = TokenIdle]
           \/ /\ ~Kept(s)
              /\ tokenCall' = [tokenCall EXCEPT ![k] = TokenIdle]
              /\ UNCHANGED <<fcmToken, registered>>
        /\ UNCHANGED <<onTopic, notice, inbox, pushed, managed, noticeFaults>>

SubscribeAdminToTopics(k) ==
    /\ tokenCall[k].step = "subscribe"
    /\ onTopic' = onTopic \cup {tokenCall[k].browser}
    /\ tokenCall' = [tokenCall EXCEPT ![k] = TokenIdle]
    /\ UNCHANGED <<fcmToken, notice, inbox, pushed, registered, managed, noticeFaults>>

\* Firebase refuses, which is only logged, or the server dies.
TokenCallFails(k) ==
    /\ tokenCall[k] # TokenIdle /\ NoticeFault
    /\ tokenCall' = [tokenCall EXCEPT ![k] = TokenIdle]
    /\ UNCHANGED <<fcmToken, onTopic, notice, inbox, pushed, registered, managed>>

-----------------------------------------------------------------------------
(* A notification.                                                         *)

\* An assignment, or a decision: to the one it concerns.
NotifyUser(n, u) ==
    /\ notice[n].step = "new" /\ Exists(u)
    /\ notice' = [notice EXCEPT ![n].step = "store", ![n].to = u, ![n].targets = {u}]
    /\ UNCHANGED <<fcmToken, onTopic, tokenCall, inbox, pushed, registered, managed, noticeFaults>>

\* A request that somebody has to decide.
NotifyManagers(n) ==
    /\ notice[n].step = "new"
    /\ notice' = [notice EXCEPT ![n].step = "find"]
    /\ UNCHANGED <<fcmToken, onTopic, tokenCall, inbox, pushed, registered, managed, noticeFaults>>

FindManagers(n) ==
    LET targets == {u \in Admins : account[u].role \in Managers /\ account[u].active} IN
    /\ notice[n].step = "find"
    /\ notice' = [notice EXCEPT ![n].step = IF targets = {} THEN "over" ELSE "store",
                                ![n].targets = targets]
    /\ UNCHANGED <<fcmToken, onTopic, tokenCall, inbox, pushed, registered, managed, noticeFaults>>

StoreNotice(n) ==
    /\ notice[n].step = "store"
    /\ inbox' = [inbox EXCEPT ![n] = [u \in Admins |-> IF u \in notice[n].targets THEN "unread"
                                                       ELSE inbox[n][u]]]
    /\ notice' = [notice EXCEPT ![n].step = IF notice[n].to = NoAdmin THEN "topic" ELSE "sessions"]
    /\ UNCHANGED <<fcmToken, onTopic, tokenCall, pushed, registered, managed, noticeFaults>>

NotifyTopic(n) ==
    /\ notice[n].step = "topic"
    /\ pushed' = [pushed EXCEPT ![n] = [b \in Browsers |-> IF b \in onTopic THEN pushed[n][b] + 1
                                                           ELSE pushed[n][b]]]
    /\ notice' = [notice EXCEPT ![n].step = "over"]
    /\ UNCHANGED <<fcmToken, onTopic, tokenCall, inbox, registered, managed, noticeFaults>>

WithFcm(u) ==
    {s \in AdminSlots : adminSession[s].state = "live" /\ adminSession[s].user = u
                        /\ fcmToken[s] # NoBrowser}

\* Mutant: a browser with two sessions is named twice.
CopyForEachSession(rows) == [b \in Browsers |-> Cardinality({s \in rows : fcmToken[s] = b})]

\* A set: duplicate tokens are removed.
CopyForEachToken(rows) == [b \in Browsers |-> IF \E s \in rows : fcmToken[s] = b THEN 1 ELSE 0]

ReadTokens(n) ==
    LET rows == WithFcm(notice[n].to) IN
    /\ notice[n].step = "sessions"
    /\ notice' = [notice EXCEPT ![n].step = IF rows = {} THEN "over" ELSE "send",
                                ![n].copies = CopyForEachToken(rows)]
    /\ UNCHANGED <<fcmToken, onTopic, tokenCall, inbox, pushed, registered, managed, noticeFaults>>

\* Sessions may have ended since their tokens were read.
SendToTokens(n) ==
    /\ notice[n].step = "send"
    /\ pushed' = [pushed EXCEPT ![n] = [b \in Browsers |-> pushed[n][b] + notice[n].copies[b]]]
    /\ notice' = [notice EXCEPT ![n].step = "over"]
    /\ UNCHANGED <<fcmToken, onTopic, tokenCall, inbox, registered, managed, noticeFaults>>

\* The database or Firebase fails, which is only logged, or the server dies.
NoticeFails(n) ==
    /\ notice[n].step \notin {"new", "over"} /\ NoticeFault
    /\ notice' = [notice EXCEPT ![n].step = "over"]
    /\ UNCHANGED <<fcmToken, onTopic, tokenCall, inbox, pushed, registered, managed>>

-----------------------------------------------------------------------------
(* The inbox.                                                              *)

MarkAsRead(n, u) ==
    /\ inbox[n][u] = "unread"
    /\ inbox' = [inbox EXCEPT ![n][u] = "read"]
    /\ UNCHANGED <<fcmToken, onTopic, tokenCall, notice, pushed, registered, managed, noticeFaults>>

MarkAllAsRead(u) ==
    /\ \E n \in Notices : inbox[n][u] = "unread"
    /\ inbox' = [n \in Notices |-> IF inbox[n][u] = "unread" THEN [inbox[n] EXCEPT ![u] = "read"]
                                   ELSE inbox[n]]
    /\ UNCHANGED <<fcmToken, onTopic, tokenCall, notice, pushed, registered, managed, noticeFaults>>

-----------------------------------------------------------------------------
TokenNext ==
    \E k \in TokenCalls :
       \/ \E s \in AdminSlots, b \in Browsers : UpdateFcmToken(k, s, b)
       \/ UpdateSessionFcmToken(k) \/ SubscribeAdminToTopics(k) \/ TokenCallFails(k)

NoticeNext ==
    \/ \E n \in Notices :
          \/ \E u \in Admins : NotifyUser(n, u) \/ MarkAsRead(n, u)
          \/ NotifyManagers(n) \/ FindManagers(n) \/ StoreNotice(n) \/ NotifyTopic(n)
          \/ ReadTokens(n) \/ SendToTokens(n) \/ NoticeFails(n)
    \/ \E u \in Admins : MarkAllAsRead(u)

\* Users and sessions change as AdminAccounts has it, at any time.
AccountChanges ==
    /\ AdminNext
    /\ managed' = managed \cup
                     {u \in Admins : {account[u].role, account'[u].role} \cap Managers # {}}
    /\ UNCHANGED <<fcmToken, onTopic, tokenCall, notice, inbox, pushed, registered, noticeFaults>>

PortalNext == AccountChanges \/ ((TokenNext \/ NoticeNext) /\ UNCHANGED adminVars)

PortalSpec == AdminInit /\ NoticeInit /\ [][PortalNext]_<<adminVars, noticeVars>>

-----------------------------------------------------------------------------
(* Properties.                                                             *)

\* However users, sessions and tokens change while a notification is on its way:
\* no browser shows it twice; one that shows what is for one user has been saved
\* for that user, who finds the entry in the inbox; and one that shows what is for
\* all who manage was saved by somebody who has managed.
PushesAreOwed ==
    \A n \in Notices, b \in Browsers :
        pushed[n][b] > 0 =>
            /\ pushed[n][b] = 1
            /\ notice[n].to # NoAdmin =>
                  b \in registered[notice[n].to] /\ inbox[n][notice[n].to] # "none"
            /\ notice[n].to = NoAdmin => \E u \in managed : b \in registered[u]
=============================================================================
