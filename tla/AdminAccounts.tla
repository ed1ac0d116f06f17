---------------------------- MODULE AdminAccounts ----------------------------
(***************************************************************************)
(* The users of the admin portal, their roles, and their sessions.  A      *)
(* login or a refresh signs an access token that carries the role of that  *)
(* moment for fifteen minutes; the guards look at the token and not at the *)
(* user.  A deactivation and a password reset write the user first and     *)
(* delete the sessions afterwards, so a login may come in between; a token *)
(* that is signed then outlives them, and is good until it is over.        *)
(***************************************************************************)
EXTENDS Naturals, FiniteSets

CONSTANTS
    Admins,             \* rows of AdminUser, made or not
    AdminSlots,         \* rows of AdminSession
    NoAdmin,
    NoAdminSlot,
    PortalCalls,        \* requests that may be in progress
    MaxPasswords,       \* bound on password changes of a user
    MaxPortalFaults     \* bound on requests that die

ASSUME AdminAssumption == NoAdmin \notin Admins /\ NoAdminSlot \notin AdminSlots
ASSUME PortalBoundAssumption == MaxPasswords \in Nat /\ MaxPortalFaults \in Nat

VARIABLES
    account,        \* account[u]: [role, active, password, reset], role "NONE" before it is
                    \* made; passwords count up; reset is the password of the last reset
    granted,        \* granted[u]: the roles of u's access tokens that are not over
    adminSession,   \* adminSession[s]: [state, user, password, late]: the password of the
                    \* login; late: sessions were deleted while the login was in progress
    portal,         \* portal[c]: a request in progress
    cut,            \* history: users whose sessions a dead request did not delete
    portalFaults    \* requests that have died

adminVars == <<account, granted, adminSession, portal, cut, portalFaults>>

\* AGENT stands for FIELD_AGENT and CUSTOMER_SUPPORT as well: none of them manages anybody.
AdminRole == {"SUPER_ADMIN", "ADMIN", "AGENT"}

Manages ==
    [SUPER_ADMIN |-> {"ADMIN", "AGENT"}, ADMIN |-> {"AGENT"}, AGENT |-> {}]

PortalIdle == [step |-> "idle", user |-> NoAdmin, role |-> "NONE", password |-> 0,
               slot |-> NoAdminSlot, late |-> FALSE]

AdminInit ==
    /\ account \in [Admins -> [role : AdminRole \cup {"NONE"}, active : {TRUE}, password : {0},
                               reset : {0}]]
    /\ \E u \in Admins : account[u].role = "SUPER_ADMIN"
    /\ granted = [u \in Admins |-> {}]
    /\ adminSession = [s \in AdminSlots |-> [state |-> "none", user |-> NoAdmin, password |-> 0,
                                             late |-> FALSE]]
    /\ portal = [c \in PortalCalls |-> PortalIdle]
    /\ cut = {}
    /\ portalFaults = 0

-----------------------------------------------------------------------------
PortalStart(c, request) ==
    /\ portal[c] = PortalIdle
    /\ portal' = [portal EXCEPT ![c] = request]

PortalGo(c, from, to) ==
    /\ portal[c].step = from
    /\ portal' = [portal EXCEPT ![c].step = to]

PortalEnds(c, from) ==
    /\ portal[c].step = from
    /\ portal' = [portal EXCEPT ![c] = PortalIdle]

Exists(u) == account[u].role # "NONE"
Kept(s) == adminSession[s].state \in {"live", "expired"}

\* delete and deleteMany of rows that may be gone.
WithoutSessions(rows) ==
    [s \in AdminSlots |-> IF s \in rows /\ Kept(s) THEN [adminSession[s] EXCEPT !.state = "gone"]
                          ELSE adminSession[s]]

-----------------------------------------------------------------------------
(* Login, refresh and logout.                                              *)

\* Mutant: the login does not look at isActive.
MayLoginAlways(u) == Exists(u)

MayLogin(u) == Exists(u) /\ account[u].active

\* Reads the user; the password is compared with the hash that was read.
BeginLogin(c, u) ==
    /\ MayLogin(u)
    /\ PortalStart(c, [PortalIdle EXCEPT !.step = "session", !.user = u,
                                         !.role = account[u].role,
                                         !.password = account[u].password])
    /\ UNCHANGED <<account, granted, adminSession, cut, portalFaults>>

CreateSession(c) ==
    LET u == portal[c].user IN
    /\ PortalEnds(c, "session")
    /\ \E s \in AdminSlots :
          /\ adminSession[s].state = "none"
          /\ adminSession' = [adminSession EXCEPT
                                ![s] = [state |-> "live", user |-> u, late |-> portal[c].late,
                                        password |-> portal[c].password]]
    /\ granted' = [granted EXCEPT ![u] = @ \cup {portal[c].role}]
    /\ UNCHANGED <<account, cut, portalFaults>>

\* The first look at the session and at its user.
ValidateRefreshToken(c, s) ==
    /\ portal[c] = PortalIdle
    /\ Kept(s)
    /\ IF adminSession[s].state = "expired"
       THEN adminSession' = WithoutSessions({s}) /\ portal' = portal
       ELSE /\ account[adminSession[s].user].active
            /\ PortalStart(c, [PortalIdle EXCEPT !.step = "touch", !.slot = s,
                                                 !.user = adminSession[s].user])
            /\ adminSession' = adminSession
    /\ UNCHANGED <<account, granted, cut, portalFaults>>

\* lastUsedAt: the update fails when the row is gone.
TouchSession(c) ==
    /\ \/ PortalGo(c, "touch", "grant") /\ Kept(portal[c].slot)
       \/ PortalEnds(c, "touch") /\ ~Kept(portal[c].slot)
    /\ UNCHANGED <<account, granted, adminSession, cut, portalFaults>>

\* The second look at the user, which takes its role.
ReadUserAgain(c) ==
    LET u == portal[c].user IN
    /\ portal[c].step = "grant"
    /\ portal' = [portal EXCEPT
                    ![c] = IF account[u].active THEN [@ EXCEPT !.step = "sign", !.role = account[u].role]
                           ELSE PortalIdle]
    /\ UNCHANGED <<account, granted, adminSession, cut, portalFaults>>

\* The token carries the role that was read, whatever has become of the user since.
RefreshAccessToken(c) ==
    /\ PortalEnds(c, "sign")
    /\ granted' = [granted EXCEPT ![portal[c].user] = @ \cup {portal[c].role}]
    /\ UNCHANGED <<account, adminSession, cut, portalFaults>>

LogoutAdmin(s) ==
    /\ Kept(s)
    /\ granted[adminSession[s].user] # {}
    /\ adminSession' = WithoutSessions({s})
    /\ UNCHANGED <<account, granted, portal, cut, portalFaults>>

\* Fifteen minutes.
AccessExpires(u) ==
    /\ granted[u] # {}
    /\ granted' = [granted EXCEPT ![u] = {}]
    /\ UNCHANGED <<account, adminSession, portal, cut, portalFaults>>

\* Thirty days.
AdminSessionExpires(s) ==
    /\ adminSession[s].state = "live"
    /\ adminSession' = [adminSession EXCEPT ![s].state = "expired"]
    /\ UNCHANGED <<account, granted, portal, cut, portalFaults>>

CleanupAdminSessions ==
    LET over == {s \in AdminSlots : adminSession[s].state = "expired"} IN
    /\ over # {}
    /\ adminSession' = WithoutSessions(over)
    /\ UNCHANGED <<account, granted, portal, cut, portalFaults>>

-----------------------------------------------------------------------------
(* User management.  RolesGuard lets SUPER_ADMIN and ADMIN in, by the role *)
(* of the token.                                                           *)

AdmittedRoles(u) == granted[u] \cap {"SUPER_ADMIN", "ADMIN"}

\* The e-mail is unique: of two creations the second fails.
CreateUser(u, actor, role) ==
    /\ ~Exists(u)
    /\ \E r \in AdmittedRoles(actor) : role \in Manages[r]
    /\ account' = [account EXCEPT ![u] = [role |-> role, active |-> TRUE, password |-> 0,
                                            reset |-> 0]]
    /\ UNCHANGED <<granted, adminSession, portal, cut, portalFaults>>

MayChangeRole(u, actor, r, role) ==
    /\ u # actor
    /\ role # account[u].role => {account[u].role, role} \subseteq Manages[r]

\* A new role, a new password, or both; "NONE" leaves the role as it is.
BeginUpdate(c, u, actor) ==
    /\ Exists(u)
    /\ \E r \in AdmittedRoles(actor), role \in AdminRole \cup {"NONE"}, change \in {0, 1} :
          /\ role # "NONE" => MayChangeRole(u, actor, r, role)
          /\ account[u].password + change <= MaxPasswords
          /\ PortalStart(c, [PortalIdle EXCEPT !.step = "update", !.user = u, !.role = role,
                                               !.password = change])
    /\ UNCHANGED <<account, granted, adminSession, cut, portalFaults>>

\* The sessions of the user stay, also after a new password.
UpdateUser(c) ==
    LET update == portal[c] IN
    /\ PortalEnds(c, "update")
    /\ account' = [account EXCEPT
                     ![update.user].role = IF update.role = "NONE" THEN @ ELSE update.role,
                     ![update.user].password = @ + update.password]
    /\ UNCHANGED <<granted, adminSession, cut, portalFaults>>

BeginDeactivate(c, u, actor) ==
    /\ Exists(u) /\ u # actor
    /\ \E r \in AdmittedRoles(actor) : account[u].role \in Manages[r]
    /\ PortalStart(c, [PortalIdle EXCEPT !.step = "deactivate", !.user = u])
    /\ UNCHANGED <<account, granted, adminSession, cut, portalFaults>>

DeactivateUser(c) ==
    /\ PortalGo(c, "deactivate", "dropSessions")
    /\ account' = [account EXCEPT ![portal[c].user].active = FALSE]
    /\ UNCHANGED <<granted, adminSession, cut, portalFaults>>

\* By the google account; nobody else is asked.
BeginReset(c, u) ==
    /\ Exists(u) /\ account[u].active
    /\ account[u].password < MaxPasswords
    /\ PortalStart(c, [PortalIdle EXCEPT !.step = "reset", !.user = u])
    /\ UNCHANGED <<account, granted, adminSession, cut, portalFaults>>

ResetPasswordWithGoogle(c) ==
    /\ PortalGo(c, "reset", "dropSessions")
    /\ account' = [account EXCEPT ![portal[c].user].password = @ + 1,
                                  ![portal[c].user].reset = account[portal[c].user].password + 1]
    /\ UNCHANGED <<granted, adminSession, cut, portalFaults>>

SignedIn(u) == {s \in AdminSlots : adminSession[s].user = u}

\* The second write; a login that is in progress will come after it.
DropSessions(c) ==
    LET u == portal[c].user IN
    /\ portal[c].step = "dropSessions"
    /\ adminSession' = WithoutSessions(SignedIn(u))
    /\ portal' = [d \in PortalCalls |->
                    IF d = c THEN PortalIdle
                    ELSE [portal[d] EXCEPT !.late = @ \/ (portal[d].step = "session"
                                                          /\ portal[d].user = u)]]
    /\ UNCHANGED <<account, granted, cut, portalFaults>>

ReactivateUser(u, actor) ==
    /\ Exists(u) /\ AdmittedRoles(actor) # {}
    /\ account' = [account EXCEPT ![u].active = TRUE]
    /\ UNCHANGED <<granted, adminSession, portal, cut, portalFaults>>

PortalDies(c) ==
    /\ portalFaults < MaxPortalFaults
    /\ portal[c] # PortalIdle
    /\ portalFaults' = portalFaults + 1
    /\ cut' = IF portal[c].step = "dropSessions" THEN cut \cup {portal[c].user} ELSE cut
    /\ portal' = [portal EXCEPT ![c] = PortalIdle]
    /\ UNCHANGED <<account, granted, adminSession>>

AdminNext ==
    \/ \E c \in PortalCalls :
          \/ \E u \in Admins : BeginLogin(c, u) \/ BeginReset(c, u)
          \/ \E s \in AdminSlots : ValidateRefreshToken(c, s)
          \/ \E u, actor \in Admins : BeginUpdate(c, u, actor) \/ BeginDeactivate(c, u, actor)
          \/ CreateSession(c) \/ TouchSession(c) \/ ReadUserAgain(c) \/ RefreshAccessToken(c)
          \/ UpdateUser(c) \/ DeactivateUser(c) \/ ResetPasswordWithGoogle(c)
          \/ DropSessions(c) \/ PortalDies(c)
    \/ \E s \in AdminSlots : LogoutAdmin(s) \/ AdminSessionExpires(s)
    \/ CleanupAdminSessions
    \/ \E u, actor \in Admins :
          \/ ReactivateUser(u, actor)
          \/ \E role \in AdminRole : CreateUser(u, actor, role)
    \/ \E u \in Admins : AccessExpires(u)

AdminSpec == AdminInit /\ [][AdminNext]_adminVars

-----------------------------------------------------------------------------
(* Properties.                                                             *)

Dropping(u) == \E c \in PortalCalls : portal[c].step = "dropSessions" /\ portal[c].user = u

\* RBAC.md, "All active sessions are invalidated": a user who is deactivated
\* has no session, and one whose password was reset has none of an older
\* password, once the request has deleted them; only a login that was in
\* progress then leaves one, or a request that died.
SessionsAreInvalidated ==
    \A s \in AdminSlots : LET u == adminSession[s].user IN
        Kept(s) /\ ~adminSession[s].late /\ u \notin cut =>
            \/ Dropping(u)
            \/ account[u].active /\ adminSession[s].password >= account[u].reset

=============================================================================
