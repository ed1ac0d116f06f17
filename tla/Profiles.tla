------------------------------ MODULE Profiles ------------------------------
(***************************************************************************)
(* What customers and drivers tell about themselves: the saved addresses   *)
(* and GST details of a customer, and the registration of a driver with    *)
(* identity documents and a vehicle.  Outside of a transaction every       *)
(* statement is a step; a transaction's writes show when it commits.       *)
(***************************************************************************)
EXTENDS Naturals, FiniteSets

CONSTANTS
    SavedAddresses,   \* rows a customer's addresses may take
    NoAddress,
    Edits,            \* requests of the customer that may be in progress
    GstNumbers,
    Applicants,       \* drivers
    Identities,       \* Aadhaar numbers, each with its PAN
    NoIdentity,
    Registrations     \* createProfile calls that may be in progress

ASSUME NoAddressAssumption == NoAddress \notin SavedAddresses /\ NoIdentity \notin Identities

VARIABLES
    saved,         \* saved[a]: "none", "plain" or "default"
    edit,          \* edit[k]: [step, address, default] of a request
    editsOverlap,  \* history: two requests on the addresses overlapped
    gst,           \* gst[g]: "none", "active" or "inactive"
    customer,      \* [named, isBusiness]
    documents,     \* documents[d]: the identity on record, or NoIdentity
    verdict,       \* verdict[d]: the driver's verificationStatus
    vehicle,       \* vehicle[d]: "none", "bare" or "owned"
    named,         \* drivers whose profile is created
    registration,  \* registration[r]: [step, driver, identity, vehicle]
    excused        \* history: identities whose registrations overlapped, or one
                   \* of whose drivers had a rejection revoked

addressVars == <<saved, edit, editsOverlap>>
customerVars == <<gst, customer>>
driverVars == <<documents, verdict, vehicle, named, registration, excused>>
profileVars == <<addressVars, customerVars, driverVars>>

NoEdit == [step |-> "idle", address |-> NoAddress, default |-> FALSE]
NoRegistration ==
    [step |-> "idle", driver |-> NoIdentity, identity |-> NoIdentity, vehicle |-> "none"]

ProfilesInit ==
    /\ saved = [a \in SavedAddresses |-> "none"]
    /\ edit = [k \in Edits |-> NoEdit]
    /\ editsOverlap = FALSE
    /\ gst = [g \in GstNumbers |-> "none"]
    /\ customer = [named |-> FALSE, isBusiness |-> FALSE]
    /\ documents = [d \in Applicants |-> NoIdentity]
    /\ verdict = [d \in Applicants |-> "PENDING"]
    /\ vehicle = [d \in Applicants |-> "none"]
    /\ named = {}
    /\ registration = [r \in Registrations |-> NoRegistration]
    /\ excused = {}

-----------------------------------------------------------------------------
(* Saved addresses.                                                        *)

Used == {a \in SavedAddresses : saved[a] # "none"} \cup {edit[k].address : k \in Edits}
EditGoes(k, step) == edit' = [edit EXCEPT ![k].step = step]

EditBegins(k, step, a, default) ==
    /\ edit[k].step = "idle"
    /\ edit' = [edit EXCEPT ![k] = [step |-> step, address |-> a, default |-> default]]
    /\ editsOverlap' = (editsOverlap \/ \E l \in Edits \ {k} : edit[l].step # "idle")
    /\ UNCHANGED <<saved, customerVars, driverVars>>

\* A new address that shall be the default takes the place of the old one first.
BeginCreateAddress(k) ==
    \E a \in SavedAddresses \ Used, default \in BOOLEAN :
        EditBegins(k, IF default THEN "clearForNew" ELSE "count", a, default)

Plain(a) == IF saved[a] = "default" THEN "plain" ELSE saved[a]

\* Mutant: the old default is kept.
WithDefault == saved

WithoutDefault == [a \in SavedAddresses |-> Plain(a)]

ClearDefaults(k) ==
    /\ edit[k].step \in {"clearForNew", "clearForOld"}
    /\ saved' = WithoutDefault
    /\ EditGoes(k, IF edit[k].step = "clearForNew" THEN "count" ELSE "update")
    /\ UNCHANGED <<editsOverlap, customerVars, driverVars>>

\* The first address is the default, whatever was asked.
CountAddresses(k) ==
    /\ edit[k].step = "count"
    /\ edit' = [edit EXCEPT ![k].step = "insert",
                            ![k].default = @ \/ saved = [a \in SavedAddresses |-> "none"]]
    /\ UNCHANGED <<saved, editsOverlap, customerVars, driverVars>>

\* The statement fails when the name is taken: what was cleared stays cleared.
InsertAddress(k) ==
    /\ edit[k].step = "insert"
    /\ edit' = [edit EXCEPT ![k] = NoEdit]
    /\ \/ saved' = [saved EXCEPT ![edit[k].address] =
                       IF edit[k].default THEN "default" ELSE "plain"]
       \/ UNCHANGED saved /\ \E a \in SavedAddresses : saved[a] # "none"
    /\ UNCHANGED <<editsOverlap, customerVars, driverVars>>

BeginUpdateAddress(k) ==
    \E a \in {b \in SavedAddresses : saved[b] # "none"}, default \in BOOLEAN :
        EditBegins(k, IF default THEN "clearForOld" ELSE "update", a, default)

\* The default may also be given up, or left as it is.  The row may be gone,
\* and its new name may be taken.
UpdateAddress(k) ==
    /\ edit[k].step = "update"
    /\ edit' = [edit EXCEPT ![k] = NoEdit]
    /\ \/ /\ saved[edit[k].address] # "none"
          /\ \E state \in IF edit[k].default THEN {"default"}
                                             ELSE {"plain", saved[edit[k].address]} :
                saved' = [saved EXCEPT ![edit[k].address] = state]
       \/ UNCHANGED saved
    /\ UNCHANGED <<editsOverlap, customerVars, driverVars>>

DeleteAddress(a) ==
    /\ saved[a] # "none"
    /\ saved' = [saved EXCEPT ![a] = "none"]
    /\ UNCHANGED <<edit, editsOverlap, customerVars, driverVars>>

-----------------------------------------------------------------------------
(* A customer's profile and GST details.                                   *)

\* The number is unique in the database, also for calls that overlap.
AddGstDetails(g) ==
    /\ gst[g] = "none"
    /\ gst' = [gst EXCEPT ![g] = "active"]
    /\ customer' = [customer EXCEPT !.isBusiness = TRUE]
    /\ UNCHANGED <<addressVars, driverVars>>

DeactivateGst(g) ==
    /\ gst[g] = "active"
    /\ gst' = [gst EXCEPT ![g] = "inactive"]
    /\ UNCHANGED <<addressVars, customer, driverVars>>

ReactivateGst(g) ==
    /\ gst[g] = "inactive"
    /\ gst' = [gst EXCEPT ![g] = "active"]
    /\ UNCHANGED <<addressVars, customer, driverVars>>

\* In one transaction; isBusiness follows this call's details alone.  The first
\* address comes with it: it is the default when asked for or alone.
CreateCustomerProfile ==
    /\ ~customer.named
    /\ \E details \in SUBSET {g \in GstNumbers : gst[g] = "none"} :
          /\ Cardinality(details) <= 1
          /\ gst' = [g \in GstNumbers |-> IF g \in details THEN "active" ELSE gst[g]]
          /\ customer' = [named |-> TRUE, isBusiness |-> details # {}]
    /\ \/ UNCHANGED saved
       \/ \E a \in SavedAddresses \ Used, default \in BOOLEAN :
             LET first == \A b \in SavedAddresses : saved[b] = "none"
             IN saved' = IF default \/ first
                         THEN [WithoutDefault EXCEPT ![a] = "default"]
                         ELSE [saved EXCEPT ![a] = "plain"]
    /\ editsOverlap' = (editsOverlap \/ \E k \in Edits : edit[k].step # "idle")
    /\ UNCHANGED <<edit, driverVars>>

-----------------------------------------------------------------------------
(* A driver's registration.                                                *)

RegistrationEnds(r) == registration' = [registration EXCEPT ![r] = NoRegistration]

\* The others that may have passed the same checks unseen.
Rivals(r, i) ==
    {q \in Registrations \ {r} : registration[q].step # "idle" /\ registration[q].identity = i}

BeginRegistration(r) ==
    /\ registration[r].step = "idle"
    /\ \E d \in Applicants \ named, i \in Identities, v \in {"none", "bare", "owned"} :
          /\ registration' = [registration EXCEPT ![r] =
                [step |-> "checks", driver |-> d, identity |-> i, vehicle |-> v]]
          /\ excused' = IF Rivals(r, i) = {} THEN excused ELSE excused \cup {i}
    /\ UNCHANGED <<addressVars, customerVars, documents, verdict, vehicle, named>>

\* Mutant, after the message the check gives: only verified drivers count.
VerifiedDuplicates(r) ==
    {d \in Applicants \ {registration[r].driver} :
        documents[d] = registration[r].identity /\ verdict[d] = "VERIFIED"}

\* Another driver, not rejected, with the identity.
Duplicates(r) ==
    {d \in Applicants \ {registration[r].driver} :
        documents[d] = registration[r].identity /\ verdict[d] # "REJECTED"}

\* The driver has no documents, and nobody else has the identity.
CheckDocuments(r) ==
    /\ registration[r].step = "checks"
    /\ IF documents[registration[r].driver] = NoIdentity /\ Duplicates(r) = {}
       THEN registration' = [registration EXCEPT ![r].step = "rows"]
       ELSE RegistrationEnds(r)
    /\ UNCHANGED <<addressVars, customerVars, documents, verdict, vehicle, named, excused>>

\* The unique keys let one call of a driver through; a failing vehicle, address
\* or payout contact rolls everything back.
CommitRegistration(r) ==
    LET d == registration[r].driver
    IN /\ registration[r].step = "rows"
       /\ documents[d] = NoIdentity
       /\ registration[r].vehicle = "none" \/ vehicle[d] = "none"
       /\ documents' = [documents EXCEPT ![d] = registration[r].identity]
       /\ vehicle' = [vehicle EXCEPT ![d] =
                         IF registration[r].vehicle = "none" THEN @
                         ELSE registration[r].vehicle]
       /\ named' = named \cup {d}
       /\ RegistrationEnds(r)
       /\ UNCHANGED <<addressVars, customerVars, verdict, excused>>

RegistrationFails(r) ==
    /\ registration[r].step = "rows"
    /\ RegistrationEnds(r)
    /\ UNCHANGED <<addressVars, customerVars, documents, verdict, vehicle, named, excused>>

CreateVehicle(d) ==
    /\ vehicle[d] = "none"
    /\ vehicle' = [vehicle EXCEPT ![d] = "bare"]
    /\ UNCHANGED <<addressVars, customerVars, documents, verdict, named, registration, excused>>

\* The second statement of a creation, or a later call.
CreateVehicleOwner(d) ==
    /\ vehicle[d] = "bare"
    /\ vehicle' = [vehicle EXCEPT ![d] = "owned"]
    /\ UNCHANGED <<addressVars, customerVars, documents, verdict, named, registration, excused>>

DeleteVehicle(d) ==
    /\ vehicle[d] # "none"
    /\ vehicle' = [vehicle EXCEPT ![d] = "none"]
    /\ UNCHANGED <<addressVars, customerVars, documents, verdict, named, registration, excused>>

\* The verification's part: see DriverVerification.
Verify(d) ==
    /\ documents[d] # NoIdentity /\ verdict[d] = "PENDING"
    /\ verdict' = [verdict EXCEPT ![d] = "VERIFIED"]
    /\ UNCHANGED <<addressVars, customerVars, documents, vehicle, named, registration, excused>>

RejectDriver(d) ==
    /\ documents[d] # NoIdentity /\ verdict[d] # "REJECTED"
    /\ verdict' = [verdict EXCEPT ![d] = "REJECTED"]
    /\ UNCHANGED <<addressVars, customerVars, documents, vehicle, named, registration, excused>>

\* Nobody asks whether the identity has been registered by another since.
RevertRejection(d) ==
    /\ verdict[d] = "REJECTED"
    /\ verdict' = [verdict EXCEPT ![d] = "PENDING"]
    /\ excused' = excused \cup {documents[d]}
    /\ UNCHANGED <<addressVars, customerVars, documents, vehicle, named, registration>>

AddressNext ==
    \/ \E k \in Edits :
          \/ BeginCreateAddress(k) \/ ClearDefaults(k) \/ CountAddresses(k) \/ InsertAddress(k)
          \/ BeginUpdateAddress(k) \/ UpdateAddress(k)
    \/ \E a \in SavedAddresses : DeleteAddress(a)
CustomerNext ==
    \/ \E g \in GstNumbers : AddGstDetails(g) \/ DeactivateGst(g) \/ ReactivateGst(g)
    \/ CreateCustomerProfile
DriverNext ==
    \/ \E r \in Registrations :
          \/ BeginRegistration(r) \/ CheckDocuments(r) \/ CommitRegistration(r)
          \/ RegistrationFails(r)
    \/ \E d \in Applicants :
          \/ CreateVehicle(d) \/ CreateVehicleOwner(d) \/ DeleteVehicle(d)
          \/ Verify(d) \/ RejectDriver(d) \/ RevertRejection(d)

ProfilesNext == AddressNext \/ CustomerNext \/ DriverNext

ProfilesSpec == ProfilesInit /\ [][ProfilesNext]_profileVars

-----------------------------------------------------------------------------
(* Properties.                                                             *)

\* A customer has at most one default address, unless two requests on the
\* addresses overlapped: clearing the old and setting the new one are separate
\* statements.
OneDefaultAddress ==
    \/ editsOverlap
    \/ Cardinality({a \in SavedAddresses : saved[a] = "default"}) <= 1

\* An identity serves one driver who is not rejected, unless registrations with
\* it overlapped or the rejection of one of its drivers was revoked.
OneDriverPerIdentity ==
    \A d, e \in Applicants :
        d # e /\ documents[d] = documents[e] /\ documents[d] # NoIdentity
              /\ "REJECTED" \notin {verdict[d], verdict[e]}
            => documents[d] \in excused
=============================================================================
