------------------------------ MODULE HelpDesk ------------------------------
(***************************************************************************)
(* A verification request and its ticket at the help desk (LibreDesk).     *)
(* The main server makes the ticket in the background; the portal tells    *)
(* the desk of every assignment and follows the assignments the desk       *)
(* reports, so each side may change the assignee.                          *)
(***************************************************************************)
EXTENDS Naturals, Sequences

CONSTANTS
    Agents,         \* people known to the portal and to the desk
    NoAgent,
    Tellings,       \* calls to the desk that may be on their way
    Handlers,       \* webhook calls that may be in progress
    MaxReports,     \* bound on the desk's assignments
    MaxDeskFaults   \* bound on calls and webhooks that fail

ASSUME NoAgentAssumption == NoAgent \notin Agents
ASSUME DeskBoundsAssumption == MaxReports \in Nat /\ MaxDeskFaults \in Nat

VARIABLES
    ticket,        \* "none", "requested", "made", "teamed", "known", or, after
                   \* a failure, "unmade" or "unlinked"
    status,        \* the request's: "PENDING", "IN_REVIEW" for every other that
                   \* is active, or "closed"
    assignedTo,    \* the request's assignee
    deskAssignee,  \* the ticket's
    telling,       \* telling[k]: the assignee a call carries, or NoAgent
    webhooks,      \* the desk's reports, delivered in their order
    handler,       \* handler[h]: [agent, status] of a webhook being handled
    reports,
    untold,        \* history: a change did not reach the other side
    overlapped,    \* history: something was assigned while a webhook was handled
    deskFaults

deskVars == <<ticket, status, assignedTo, deskAssignee, telling, webhooks, handler, reports,
              untold, overlapped, deskFaults>>

NotHandling == [agent |-> NoAgent, status |-> "PENDING"]

DeskInit ==
    /\ ticket = "none" /\ status = "PENDING"
    /\ assignedTo = NoAgent /\ deskAssignee = NoAgent
    /\ telling = [k \in Tellings |-> NoAgent]
    /\ webhooks = <<>>
    /\ handler = [h \in Handlers |-> NotHandling]
    /\ reports = 0
    /\ untold = FALSE /\ overlapped = FALSE
    /\ deskFaults = 0

DeskFault == deskFaults < MaxDeskFaults /\ deskFaults' = deskFaults + 1
Handling == \E h \in Handlers : handler[h] # NotHandling

-----------------------------------------------------------------------------
(* The main server makes the request, the ticket, and then links them.     *)

RequestMade ==
    /\ ticket = "none"
    /\ ticket' = "requested"
    /\ UNCHANGED <<status, assignedTo, deskAssignee, telling, webhooks, handler, reports,
                   untold, overlapped, deskFaults>>

TicketGoes(from, to) ==
    /\ ticket = from
    /\ ticket' = to
    /\ UNCHANGED <<status, assignedTo, deskAssignee, telling, webhooks, handler, reports,
                   untold, overlapped, deskFaults>>

CreateTicket == TicketGoes("requested", "made")
AssignTeam == TicketGoes("made", "teamed")
SaveTicketId == TicketGoes("teamed", "known")

\* A failure on the way is logged and nothing tries again: the ticket, if it
\* was made, stays unknown to the portal.
TicketFails ==
    /\ ticket \in {"requested", "made", "teamed"} /\ DeskFault
    /\ ticket' = IF ticket = "requested" THEN "unmade" ELSE "unlinked"
    /\ UNCHANGED <<status, assignedTo, deskAssignee, telling, webhooks, handler, reports,
                   untold, overlapped>>

-----------------------------------------------------------------------------
(* The portal assigns, and tells the desk when it knows the ticket.        *)

Reviewed(s) == IF s = "PENDING" THEN "IN_REVIEW" ELSE s

AssignVerification(a) ==
    /\ ticket # "none" /\ status # "closed"
    /\ a # assignedTo
    /\ assignedTo' = a
    /\ status' = Reviewed(status)
    /\ \/ /\ ticket = "known"
          /\ \E k \in Tellings : telling[k] = NoAgent /\ telling' = [telling EXCEPT ![k] = a]
          /\ UNCHANGED untold
       \/ /\ ticket # "known"
          /\ untold' = TRUE
          /\ UNCHANGED telling
    /\ overlapped' = (overlapped \/ Handling)
    /\ UNCHANGED <<ticket, deskAssignee, webhooks, handler, reports, deskFaults>>

\* The desk reports a change.
DeskAssigns(a) ==
    /\ IF a # deskAssignee
       THEN /\ reports < MaxReports
            /\ reports' = reports + 1 /\ webhooks' = Append(webhooks, a)
       ELSE UNCHANGED <<reports, webhooks>>
    /\ deskAssignee' = a
    /\ UNCHANGED <<ticket, status, assignedTo, handler, overlapped, deskFaults>>

AssignAtDesk(a) ==
    /\ ticket \in {"made", "teamed", "known", "unlinked"}
    /\ a # deskAssignee
    /\ DeskAssigns(a)
    /\ UNCHANGED <<telling, untold>>

AssignConversation(k) ==
    /\ telling[k] # NoAgent
    /\ DeskAssigns(telling[k])
    /\ telling' = [telling EXCEPT ![k] = NoAgent]
    /\ UNCHANGED untold

\* Logged, and not tried again.
TellingFails(k) ==
    /\ telling[k] # NoAgent /\ DeskFault
    /\ telling' = [telling EXCEPT ![k] = NoAgent]
    /\ untold' = TRUE
    /\ UNCHANGED <<ticket, status, assignedTo, deskAssignee, webhooks, handler, reports,
                   overlapped>>

-----------------------------------------------------------------------------
(* The portal follows the desk.                                            *)

\* The ticket is not known, the request is closed, or the agent is not found.
Ignored ==
    /\ webhooks # <<>>
    /\ \/ (ticket # "known" \/ status = "closed") /\ UNCHANGED deskFaults
       \/ DeskFault
    /\ webhooks' = Tail(webhooks)
    /\ untold' = TRUE
    /\ UNCHANGED <<ticket, status, assignedTo, deskAssignee, telling, handler, reports,
                   overlapped>>

\* Mutant: a request that has any assignee is left alone.
AssignedAtAll(a) == assignedTo # NoAgent

AlreadyAssigned(a) == assignedTo = a

HandleWebhook(h) ==
    /\ webhooks # <<>> /\ handler[h] = NotHandling
    /\ ticket = "known" /\ status # "closed"
    /\ webhooks' = Tail(webhooks)
    /\ handler' = IF AlreadyAssigned(Head(webhooks)) THEN handler
                  ELSE [handler EXCEPT ![h] = [agent |-> Head(webhooks), status |-> status]]
    /\ overlapped' = (overlapped \/ Handling)
    /\ UNCHANGED <<ticket, status, assignedTo, deskAssignee, telling, reports, untold,
                   deskFaults>>

\* The status is written as it was read.
AssignByTicketId(h) ==
    /\ handler[h] # NotHandling
    /\ assignedTo' = handler[h].agent
    /\ status' = Reviewed(handler[h].status)
    /\ handler' = [handler EXCEPT ![h] = NotHandling]
    /\ UNCHANGED <<ticket, deskAssignee, telling, webhooks, reports, untold, overlapped,
                   deskFaults>>

\* Rejected or finally approved: see DriverVerification.
CloseRequest ==
    /\ status = "IN_REVIEW"
    /\ status' = "closed"
    /\ UNCHANGED <<ticket, assignedTo, deskAssignee, telling, webhooks, handler, reports,
                   untold, overlapped, deskFaults>>

DeskNext ==
    \/ RequestMade \/ CreateTicket \/ AssignTeam \/ SaveTicketId \/ TicketFails
    \/ \E a \in Agents : AssignVerification(a) \/ AssignAtDesk(a)
    \/ \E k \in Tellings : AssignConversation(k) \/ TellingFails(k)
    \/ Ignored
    \/ \E h \in Handlers : HandleWebhook(h) \/ AssignByTicketId(h)
    \/ CloseRequest

DeskSpec == DeskInit /\ [][DeskNext]_deskVars

-----------------------------------------------------------------------------
(* Properties.                                                             *)

Quiet ==
    /\ webhooks = <<>> /\ ~Handling
    /\ \A k \in Tellings : telling[k] = NoAgent

\* When nothing is on its way, portal and desk name the same assignee, in
\* whichever order calls and reports were made and arrived, unless a change was
\* lost or something was assigned while a webhook was being handled.
AssigneesAgree == Quiet /\ ~untold /\ ~overlapped => assignedTo = deskAssignee
=============================================================================
