----------------------------- MODULE MCAccounts -----------------------------
(***************************************************************************)
(* Instances of Sessions, AdminAccounts, AdminNotifications, AuditLog,     *)
(* Profiles, RealtimeBus and HelpDesk for TLC.  But for AdminNotifications *)
(* and AdminAccounts they share no variable: a behaviour runs one of them  *)
(* and leaves the others as they are at the start.                         *)
(***************************************************************************)
EXTENDS Sessions, AdminNotifications, AuditLog, Profiles, RealtimeBus, HelpDesk, TLC

VARIABLE part

Symmetry ==
    Permutations(PortalCalls) \cup Permutations(AdminSlots) \cup Permutations(Admins)

Parts == {"codes", "tokens", "users", "resets", "log", "addresses", "drivers", "streams",
          "desk", "notices"}

MCInit ==
    /\ SInit /\ AdminInit /\ NoticeInit /\ AuditInit /\ ProfilesInit /\ BusInit /\ DeskInit
    /\ part \in Parts
    \* Elsewhere the roles do not matter.
    /\ part = "notices" => {account[u].role : u \in Admins} = {"SUPER_ADMIN", "AGENT"}
    /\ part \notin {"users", "resets", "notices"} => \A u \in Admins : account[u].role = "SUPER_ADMIN"

OneChanges ==
    /\ \A u \in Admins : account'[u].role = account[u].role /\ account'[u].active
    /\ Cardinality({u \in Admins : account'[u].password > 0}) <= 1
NoReset == /\ \A u \in Admins : account'[u].password = 0
           /\ \A c \in PortalCalls : portal'[c].password = 0
Opened == {s \in AdminSlots : adminSession'[s].state # "none"}

\* Bounds of the model: the rivalry for codes needs no more than two tokens,
\* and that of tokens no wrong answers; users are managed without new passwords,
\* only a deactivation may die, after its first write, and no token runs out, which
\* could only keep users from acting; passwords change around one session and leave
\* the other user and the roles as they are.
\* Notifications meet logins and logouts, and one agent, who may become a manager;
\* of logins, promotions and requests that save a token one is in progress at a
\* time; inboxes are read when the notification is over, and nothing else happens.
SessionsPart ==
    /\ \/ part = "codes" /\ SNext /\ minted' <= 2
       \/ part = "tokens" /\ SNext /\ otp'.tries = 0 /\ ~codeRaced'
    /\ UNCHANGED <<adminVars, noticeVars, auditVars, profileVars, busVars, deskVars>>
AdminPart ==
    /\ \/ part = "users" /\ AdminNext /\ NoReset /\ portalFaults' = Cardinality(cut')
          /\ \A u \in Admins : granted[u] \subseteq granted'[u]
       \/ part = "resets" /\ AdminNext /\ OneChanges /\ Cardinality(Opened) <= 1
    /\ UNCHANGED <<svars, noticeVars, auditVars, profileVars, busVars, deskVars>>
NoticePart ==
    /\ part = "notices" /\ PortalNext
    /\ (\A n \in Notices : notice[n].step = "over") <=> (inbox' # inbox /\ notice' = notice)
    /\ NoReset /\ portalFaults' = 0
    /\ \A c \in PortalCalls : portal'[c].step \in {"idle", "session", "update"}
    /\ Cardinality({c \in PortalCalls : portal'[c] # PortalIdle}
                   \cup {k \in TokenCalls : tokenCall'[k] # TokenIdle}) <= 1
    /\ \A u \in Admins : granted[u] \subseteq granted'[u]
    /\ \A s \in AdminSlots : adminSession'[s].state # "expired"
    /\ \A c \in PortalCalls : portal'[c].step = "update" => portal'[c].role = "ADMIN"
    /\ UNCHANGED <<svars, auditVars, profileVars, busVars, deskVars>>
AuditPart ==
    /\ part = "log" /\ AuditNext
    /\ UNCHANGED <<svars, adminVars, noticeVars, profileVars, busVars, deskVars>>
ProfilesPart ==
    /\ \/ part = "addresses" /\ (AddressNext \/ CustomerNext)
       \/ part = "drivers" /\ DriverNext
    /\ UNCHANGED <<svars, adminVars, noticeVars, auditVars, busVars, deskVars>>
BusPart ==
    /\ part = "streams" /\ BusNext
    /\ UNCHANGED <<svars, adminVars, noticeVars, auditVars, profileVars, deskVars>>
DeskPart ==
    /\ part = "desk" /\ DeskNext
    /\ UNCHANGED <<svars, adminVars, noticeVars, auditVars, profileVars, busVars>>

MCNext ==
    /\ SessionsPart \/ AdminPart \/ NoticePart \/ AuditPart \/ ProfilesPart \/ BusPart
       \/ DeskPart
    /\ UNCHANGED part

MCSpec ==
    /\ MCInit
    /\ [][MCNext]_<<svars, adminVars, noticeVars, auditVars, profileVars, busVars, deskVars, part>>
=============================================================================
