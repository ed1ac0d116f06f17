---------------------------- MODULE RecordsProofs ----------------------------
(***************************************************************************)
(* Proofs about AuditLog, Profiles, HelpDesk and RealtimeBus, for any      *)
(* number of entries, archivals, requests, identities, agents and streams. *)
(*                                                                         *)
(* An archival deletes what it has found, and that is in a file before it  *)
(* may delete (StoredIsFiled).                                             *)
(*                                                                         *)
(* A request on the addresses that nothing overlaps has seen to it that    *)
(* there is no default when it writes one (ClearedForDefault).             *)
(*                                                                         *)
(* A registration that has passed its checks, and of whose identity it is  *)
(* the only one, finds nobody else with the identity when it commits       *)
(* (ChecksStillHold).                                                      *)
(*                                                                         *)
(* The assignee the portal has, or will have when it has handled all that  *)
(* the desk has reported, is the ticket's, or the desk is being told of it *)
(* (DeskIsFollowed).                                                       *)
(*                                                                         *)
(* Subscribing and unsubscribing a channel alternate: of a channel with    *)
(* listeners some connection's last command is to subscribe (IsWanted).    *)
(***************************************************************************)
EXTENDS AuditLog, Profiles, HelpDesk, RealtimeBus, FiniteSetTheorems, TLAPS

-----------------------------------------------------------------------------
(* The invariants.                                                         *)

EntryStates == {"none", "inMemory", "row", "deleted", "lost"}

AuditTypeOK ==
    /\ entry \in [Entries -> EntryStates]
    /\ timestamp \in [Entries -> Nat]
    /\ archival \in [Archivals -> [step : {"idle", "found", "stored"}, cutoff : Nat,
                                   found : SUBSET Entries]]
    /\ files \subseteq SUBSET Entries
    /\ today \in Nat
    /\ auditFaults \in Nat

\* What a run may delete is in a file.
StoredIsFiled ==
    \A a \in Archivals : archival[a].step = "stored" => archival[a].found \in files

AuditInv == AuditTypeOK /\ StoredIsFiled /\ NoEntryIsLost

EditSteps == {"idle", "clearForNew", "clearForOld", "count", "insert", "update"}
Edit == [step : EditSteps, address : SavedAddresses \cup {NoAddress}, default : BOOLEAN]

AddressTypeOK ==
    /\ saved \in [SavedAddresses -> {"none", "plain", "default"}]
    /\ edit \in [Edits -> Edit]
    /\ editsOverlap \in BOOLEAN

Defaults == {a \in SavedAddresses : saved[a] = "default"}

\* A request that will make its address the default has made room for it.
ClearedForDefault ==
    /\ \A k, l \in Edits : edit[k].step # "idle" /\ edit[l].step # "idle" => k = l
    /\ \A k \in Edits :
          edit[k].step \in {"count", "insert", "update"} /\ edit[k].default => Defaults = {}
    /\ \A a, b \in Defaults : a = b

AddressInv == AddressTypeOK /\ (~editsOverlap => ClearedForDefault)

Registering ==
    [step : {"idle", "checks", "rows"}, driver : Applicants \cup {NoIdentity},
     identity : Identities \cup {NoIdentity}, vehicle : {"none", "bare", "owned"}]

DriverTypeOK ==
    /\ documents \in [Applicants -> Identities \cup {NoIdentity}]
    /\ verdict \in [Applicants -> {"PENDING", "VERIFIED", "REJECTED"}]
    /\ vehicle \in [Applicants -> {"none", "bare", "owned"}]
    /\ registration \in [Registrations -> Registering]
    /\ \A r \in Registrations : registration[r].step # "idle" =>
          registration[r].driver \in Applicants /\ registration[r].identity \in Identities

Free(i, d) == \A e \in Applicants \ {d} : documents[e] = i => verdict[e] = "REJECTED"

\* Checks that were passed alone still hold.
ChecksStillHold ==
    /\ \A r \in Registrations :
          registration[r].step = "rows" /\ registration[r].identity \notin excused =>
              Free(registration[r].identity, registration[r].driver)
    /\ \A q, r \in Registrations :
          /\ registration[q].step # "idle" /\ registration[r].step # "idle"
          /\ registration[q].identity = registration[r].identity
          /\ registration[q].identity \notin excused
          => q = r

DriversInv == DriverTypeOK /\ ChecksStillHold /\ OneDriverPerIdentity

DeskTypeOK ==
    /\ assignedTo \in Agents \cup {NoAgent}
    /\ deskAssignee \in Agents \cup {NoAgent}
    /\ telling \in [Tellings -> Agents \cup {NoAgent}]
    /\ webhooks \in Seq(Agents)
    /\ \A h \in Handlers : handler[h] # NotHandling => handler[h].agent \in Agents
    /\ DOMAIN handler = Handlers

OneHandled ==
    \A g, h \in Handlers : handler[g] # NotHandling /\ handler[h] # NotHandling => g = h

\* The last report is of what the desk has; so is the one that is being handled,
\* when no other waits; and then the portal, or it is telling the desk.
DeskIsFollowed ==
    /\ webhooks # <<>> => webhooks[Len(webhooks)] = deskAssignee
    /\ webhooks = <<>> => \A h \in Handlers :
          handler[h] # NotHandling => handler[h].agent = deskAssignee
    /\ webhooks = <<>> /\ ~Handling /\ assignedTo # deskAssignee =>
          assignedTo # NoAgent /\ \E k \in Tellings : telling[k] = assignedTo

DeskInv == DeskTypeOK /\ (~untold /\ ~overlapped => OneHandled /\ DeskIsFollowed)

Phases == {"off", "connecting", "adding", "subscribing", "live", "leaving", "over", "failed"}
Command == [kind : {"subscribe", "unsubscribe"}, stream : Streams]

BusTypeOK ==
    /\ stream \in [Streams -> [phase : Phases, driver : Tracked, conn : Conns \cup {NoConn}]]
    /\ \A s \in Streams : stream[s].phase \in {"connecting", "adding"} => stream[s].conn \in Conns
    /\ subscriberInstance \in Conns \cup {NoConn}
    /\ commands \in [Conns -> Seq(Command)]
    /\ subscribed \in [Conns -> SUBSET Tracked]
    /\ channelToListeners \in [Tracked -> SUBSET Streams]
    /\ unheard \subseteq Tracked

\* A stream that waits for its subscribe has one on its way and is a listener; so
\* is one that is live.
SubscribesAreAwaited ==
    /\ \A c \in Conns : \A i \in 1..Len(commands[c]) :
          commands[c][i].kind = "subscribe" => stream[commands[c][i].stream].phase = "subscribing"
    /\ \A b, c \in Conns : \A i \in 1..Len(commands[b]), j \in 1..Len(commands[c]) :
          /\ commands[b][i].kind = "subscribe" /\ commands[c][j].kind = "subscribe"
          /\ commands[b][i].stream = commands[c][j].stream
          => b = c /\ i = j
    /\ \A s \in Streams : stream[s].phase \in {"subscribing", "live", "leaving"} =>
          s \in channelToListeners[stream[s].driver]

DriverOf == [s \in Streams |-> stream[s].driver]

Is(command, kind, d, f) == command.kind = kind /\ f[command.stream] = d

\* With the commands q on their way, a connection will have the channel d, or has
\* it now (has), and nothing on its way gives it up again.
WillHave(q, d, has, f) ==
    \/ has /\ \A i \in 1..Len(q) : ~Is(q[i], "unsubscribe", d, f)
    \/ \E i \in 1..Len(q) :
          /\ Is(q[i], "subscribe", d, f)
          /\ \A j \in 1..Len(q) : j > i => ~Is(q[j], "unsubscribe", d, f)

IsWanted ==
    \A d \in Tracked : channelToListeners[d] # {} /\ d \notin unheard =>
        \E c \in Conns : WillHave(commands[c], d, d \in subscribed[c], DriverOf)

BusInv == BusTypeOK /\ SubscribesAreAwaited /\ IsWanted
-----------------------------------------------------------------------------
(* The audit log.                                                          *)

LEMMA AuditStarts == AuditInit => AuditInv
<1> SUFFICES ASSUME AuditInit PROVE AuditInv
  OBVIOUS
<1>1. NoArchival \in [step : {"idle", "found", "stored"}, cutoff : Nat, found : SUBSET Entries]
  BY DEF NoArchival
<1>2. AuditTypeOK
  BY <1>1 DEF AuditInit, AuditTypeOK, EntryStates
<1>3. StoredIsFiled /\ NoEntryIsLost
  BY DEF AuditInit, StoredIsFiled, NoEntryIsLost, NoArchival
<1> QED
  BY <1>2, <1>3 DEF AuditInv

\* Writing an entry concerns no archival, and a new day nothing else.
LEMMA AuditWrites ==
    ASSUME AuditInv,
           \/ \E e \in Entries : Intercept(e) \/ LogEntry(e) \/ LoseEntry(e)
           \/ NextDay
    PROVE  AuditInv'
<1>1. UNCHANGED <<archival, files>>
  BY DEF Intercept, LogEntry, LoseEntry, NextDay
<1>2. entry' \in [Entries -> EntryStates] /\ \A x \in Entries : entry'[x] = "deleted" => entry[x] = "deleted"
  BY DEF AuditInv, AuditTypeOK, EntryStates, Intercept, LogEntry, LoseEntry, NextDay
<1>3. timestamp' \in [Entries -> Nat] /\ today' \in Nat /\ auditFaults' \in Nat
  BY DEF AuditInv, AuditTypeOK, Intercept, LogEntry, LoseEntry, NextDay, AuditFault
<1> QED
  BY <1>1, <1>2, <1>3 DEF AuditInv, AuditTypeOK, StoredIsFiled, NoEntryIsLost

LEMMA AuditFinds ==
    ASSUME AuditInv, NEW a \in Archivals, NEW cutoff \in Nat, ArchiveBefore(a, cutoff)
    PROVE  AuditInv'
<1>1. UNCHANGED <<entry, timestamp, files, today, auditFaults>>
  BY DEF ArchiveBefore
<1>2. PICK q : q = [step |-> "found", cutoff |-> cutoff, found |-> Before(cutoff)]
  OBVIOUS
<1>3. /\ q \in [step : {"idle", "found", "stored"}, cutoff : Nat, found : SUBSET Entries]
      /\ q.step # "stored"
  BY <1>2 DEF Before
<1>4. archival' = [archival EXCEPT ![a] = q]
  BY <1>2 DEF ArchiveBefore
<1> QED
  BY <1>1, <1>3, <1>4 DEF AuditInv, AuditTypeOK, StoredIsFiled, NoEntryIsLost

LEMMA AuditMoves ==
    ASSUME AuditInv, NEW a \in Archivals, UploadFile(a) \/ ArchivalFails(a) \/ DeleteArchived(a)
    PROVE  AuditInv'
<1>1. CASE UploadFile(a)
  <2>1. PICK q : q = [archival[a] EXCEPT !.step = "stored"]
    OBVIOUS
  <2>2. /\ q \in [step : {"idle", "found", "stored"}, cutoff : Nat, found : SUBSET Entries]
        /\ q.found = archival[a].found /\ archival' = [archival EXCEPT ![a] = q]
    BY <1>1, <2>1 DEF UploadFile, AuditInv, AuditTypeOK
  <2>3. /\ files' = files \cup {archival[a].found} /\ archival[a].found \subseteq Entries
        /\ UNCHANGED <<entry, timestamp, today, auditFaults>>
    BY <1>1 DEF UploadFile, AuditInv, AuditTypeOK
  <2> QED
    BY <2>2, <2>3 DEF AuditInv, AuditTypeOK, StoredIsFiled, NoEntryIsLost
<1>2. CASE ArchivalFails(a)
  <2>1. /\ NoArchival \in [step : {"idle", "found", "stored"}, cutoff : Nat, found : SUBSET Entries]
        /\ NoArchival.step # "stored"
    BY DEF NoArchival
  <2>2. /\ archival' = [archival EXCEPT ![a] = NoArchival]
        /\ files \subseteq files' /\ files' \subseteq SUBSET Entries /\ auditFaults' \in Nat
        /\ UNCHANGED <<entry, timestamp, today>>
    BY <1>2 DEF ArchivalFails, AuditFault, AuditInv, AuditTypeOK
  <2> QED
    BY <2>1, <2>2 DEF AuditInv, AuditTypeOK, StoredIsFiled, NoEntryIsLost
<1>3. CASE DeleteArchived(a)
  <2>1. /\ NoArchival \in [step : {"idle", "found", "stored"}, cutoff : Nat, found : SUBSET Entries]
        /\ NoArchival.step # "stored"
    BY DEF NoArchival
  <2>2. /\ archival' = [archival EXCEPT ![a] = NoArchival]
        /\ UNCHANGED <<timestamp, files, today, auditFaults>>
        /\ entry' \in [Entries -> EntryStates]
    BY <1>3 DEF DeleteArchived, AuditInv, AuditTypeOK, EntryStates
  <2>3. \A e \in Entries : entry'[e] = "deleted" => entry[e] = "deleted" \/ e \in archival[a].found
    BY <1>3 DEF DeleteArchived, Moved
  <2>4. archival[a].found \in files
    BY <1>3 DEF DeleteArchived, AuditInv, StoredIsFiled
  <2>5. NoEntryIsLost'
    BY <2>2, <2>3, <2>4 DEF AuditInv, NoEntryIsLost
  <2> QED
    BY <2>1, <2>2, <2>5 DEF AuditInv, AuditTypeOK, StoredIsFiled
<1> QED
  BY <1>1, <1>2, <1>3

LEMMA AuditStep == AuditInv /\ [AuditNext]_auditVars => AuditInv'
<1> SUFFICES ASSUME AuditInv, [AuditNext]_auditVars PROVE AuditInv'
  OBVIOUS
<1>1. CASE \/ \E e \in Entries : Intercept(e) \/ LogEntry(e) \/ LoseEntry(e)
           \/ NextDay
  BY <1>1, AuditWrites
<1>2. ASSUME NEW a \in Archivals, ArchiveOldLogs(a) \/ TriggerArchival(a) PROVE AuditInv'
  <2>1. PICK day \in Nat : ArchiveBefore(a, day)
    <3>1. today \in Nat /\ RetentionDays \in Nat /\ MaxDay \in Nat
      BY RetentionAssumption, AuditBoundsAssumption DEF AuditInv, AuditTypeOK
    <3> QED
      BY <1>2, <3>1 DEF ArchiveOldLogs, TriggerArchival
  <2> QED
    BY <2>1, AuditFinds
<1>3. ASSUME NEW a \in Archivals, UploadFile(a) \/ ArchivalFails(a) \/ DeleteArchived(a)
      PROVE  AuditInv'
  BY <1>3, AuditMoves
<1>4. CASE UNCHANGED auditVars
  BY <1>4 DEF auditVars, AuditInv, AuditTypeOK, StoredIsFiled, NoEntryIsLost
<1> QED
  BY <1>1, <1>2, <1>3, <1>4 DEF AuditNext

\* However archivals and new entries overlap and whatever fails, an entry that has
\* left the table of the audit log is in a file.
THEOREM ArchivedEntriesAreKept == AuditSpec => []NoEntryIsLost
<1>1. AuditInv => NoEntryIsLost
  BY DEF AuditInv
<1> QED
  BY <1>1, AuditStarts, AuditStep, PTL DEF AuditSpec
-----------------------------------------------------------------------------
(* Saved addresses.                                                        *)

LEMMA AddressesStart == ProfilesInit => AddressInv
<1> SUFFICES ASSUME ProfilesInit PROVE AddressInv
  OBVIOUS
<1>1. NoEdit \in Edit /\ NoEdit.step = "idle"
  BY DEF NoEdit, Edit, EditSteps
<1>2. editsOverlap \in BOOLEAN
  BY Zenon DEF ProfilesInit
<1>3. AddressTypeOK
  BY <1>1, <1>2 DEF ProfilesInit, AddressTypeOK
<1>4. Defaults = {}
  BY DEF ProfilesInit, Defaults
<1> QED
  BY <1>1, <1>3, <1>4 DEF ProfilesInit, AddressInv, ClearedForDefault


LEMMA AddressBegins ==
    ASSUME AddressInv, NEW k \in Edits, BeginCreateAddress(k) \/ BeginUpdateAddress(k)
    PROVE  AddressInv'
<1>1. PICK step \in {"clearForNew", "count", "clearForOld", "update"}, a \in SavedAddresses,
           default \in BOOLEAN :
           EditBegins(k, step, a, default) /\ (step \in {"count", "update"} => ~default)
  BY DEF BeginCreateAddress, BeginUpdateAddress
<1>2. PICK q : q = [step |-> step, address |-> a, default |-> default]
  OBVIOUS
<1>3. q \in Edit /\ q.step = step /\ q.default = default
  BY <1>2 DEF Edit, EditSteps
<1>4. edit' = [edit EXCEPT ![k] = q] /\ UNCHANGED saved
  BY <1>1, <1>2 DEF EditBegins
<1>5. editsOverlap' \in BOOLEAN /\ (~editsOverlap' => ~editsOverlap)
  BY <1>1, Zenon DEF EditBegins
<1>6. ~editsOverlap' => \A l \in Edits \ {k} : edit[l].step = "idle"
  BY <1>1 DEF EditBegins
<1>7. AddressTypeOK'
  BY <1>3, <1>4, <1>5 DEF AddressInv, AddressTypeOK
<1>8. ASSUME ~editsOverlap' PROVE ClearedForDefault'
  <2>1. Defaults' = Defaults
    BY <1>4 DEF Defaults
  <2>2. \A l \in Edits : edit'[l] = IF l = k THEN q ELSE edit[l]
    BY <1>4 DEF AddressInv, AddressTypeOK
  <2> QED
    BY <1>1, <1>3, <1>5, <1>6, <1>8, <2>1, <2>2 DEF AddressInv, ClearedForDefault
<1> QED
  BY <1>7, <1>8 DEF AddressInv

LEMMA AddressClears == ASSUME AddressInv, NEW k \in Edits, ClearDefaults(k) PROVE AddressInv'
<1>1. PICK q : q = [edit[k] EXCEPT !.step = IF edit[k].step = "clearForNew" THEN "count" ELSE "update"]
  OBVIOUS
<1>2. q \in Edit /\ q.step \in {"count", "update"}
  BY <1>1 DEF AddressInv, AddressTypeOK, Edit, EditSteps
<1>3. edit' = [edit EXCEPT ![k] = q] /\ UNCHANGED editsOverlap /\ edit[k].step # "idle"
  BY <1>1 DEF ClearDefaults, EditGoes
<1>4. saved' \in [SavedAddresses -> {"none", "plain", "default"}] /\ Defaults' = {}
  BY DEF ClearDefaults, WithoutDefault, Plain, AddressInv, AddressTypeOK, Defaults
<1>5. AddressTypeOK'
  BY <1>2, <1>3, <1>4 DEF AddressInv, AddressTypeOK
<1>6. \A l \in Edits : edit'[l] = IF l = k THEN q ELSE edit[l]
  BY <1>3 DEF AddressInv, AddressTypeOK
<1> QED
  BY <1>2, <1>3, <1>4, <1>5, <1>6 DEF AddressInv, ClearedForDefault

LEMMA AddressCounts == ASSUME AddressInv, NEW k \in Edits, CountAddresses(k) PROVE AddressInv'
<1>1. PICK q : q = [edit[k] EXCEPT !.step = "insert",
                                   !.default = @ \/ saved = [a \in SavedAddresses |-> "none"]]
  OBVIOUS
<1>2. q.default = (edit[k].default \/ saved = [a \in SavedAddresses |-> "none"])
  BY <1>1 DEF AddressInv, AddressTypeOK, Edit
<1>3. (edit[k].default \/ saved = [a \in SavedAddresses |-> "none"]) \in BOOLEAN
  BY Zenon
<1>4. q \in Edit /\ q.step = "insert"
  BY <1>1, <1>2, <1>3 DEF AddressInv, AddressTypeOK, Edit, EditSteps
<1>5. /\ edit' = [edit EXCEPT ![k] = q] /\ UNCHANGED <<saved, editsOverlap>>
      /\ edit[k].step = "count"
  BY <1>1 DEF CountAddresses
<1>6. AddressTypeOK'
  BY <1>4, <1>5 DEF AddressInv, AddressTypeOK
<1>7. Defaults' = Defaults
  BY <1>5 DEF Defaults
<1>8. ~editsOverlap /\ q.default => Defaults = {}
  <2>1. CASE saved = [a \in SavedAddresses |-> "none"]
    BY <2>1 DEF Defaults
  <2>2. CASE edit[k].default
    BY <2>2, <1>5 DEF AddressInv, ClearedForDefault
  <2> QED
    BY <1>2, <2>1, <2>2
<1>9. \A l \in Edits : edit'[l] = IF l = k THEN q ELSE edit[l]
  BY <1>5 DEF AddressInv, AddressTypeOK
<1> QED
  BY <1>4, <1>5, <1>6, <1>7, <1>8, <1>9 DEF AddressInv, ClearedForDefault

\* One row changes: it becomes the default only if there is none, or stays it.
LEMMA AddressWrites ==
    ASSUME AddressInv, NEW k \in Edits, InsertAddress(k) \/ UpdateAddress(k)
    PROVE  AddressInv'
<1>1. NoEdit \in Edit /\ NoEdit.step = "idle"
  BY DEF NoEdit, Edit, EditSteps
<1>2. /\ edit' = [edit EXCEPT ![k] = NoEdit] /\ UNCHANGED editsOverlap
      /\ edit[k].step \in {"insert", "update"}
  BY DEF InsertAddress, UpdateAddress
<1>3. \/ UNCHANGED saved
      \/ \E state \in {"plain", "default", saved[edit[k].address]} :
            /\ saved' = [saved EXCEPT ![edit[k].address] = state]
            /\ state = "default" => edit[k].default \/ state = saved[edit[k].address]
  BY DEF InsertAddress, UpdateAddress
<1>4. PICK x : x = edit[k].address
  OBVIOUS
<1>5. saved' \in [SavedAddresses -> {"none", "plain", "default"}]
  <2>1. CASE x \in SavedAddresses
    BY <1>3, <1>4, <2>1 DEF AddressInv, AddressTypeOK
  <2>2. CASE x \notin SavedAddresses
    BY <1>3, <1>4, <2>2 DEF AddressInv, AddressTypeOK
  <2> QED
    BY <2>1, <2>2
<1>6. AddressTypeOK'
  BY <1>1, <1>2, <1>5 DEF AddressInv, AddressTypeOK
<1>7. ASSUME ~editsOverlap PROVE ClearedForDefault'
  <2>1. \A l \in Edits : edit'[l].step = "idle"
    BY <1>1, <1>2, <1>7 DEF AddressInv, AddressTypeOK, ClearedForDefault
  <2>2. Defaults' \subseteq Defaults \/ (edit[k].default /\ Defaults' \subseteq Defaults \cup {x})
    BY <1>3, <1>4, <1>5 DEF AddressInv, AddressTypeOK, Defaults
  <2>3. edit[k].default => Defaults = {}
    BY <1>2, <1>7 DEF AddressInv, ClearedForDefault
  <2>4. \A a, b \in Defaults' : a = b
    BY <1>7, <2>2, <2>3 DEF AddressInv, ClearedForDefault
  <2> QED
    BY <2>1, <2>4 DEF ClearedForDefault
<1> QED
  BY <1>2, <1>6, <1>7 DEF AddressInv

LEMMA AddressGoes ==
    ASSUME AddressInv, NEW a \in SavedAddresses, DeleteAddress(a)
    PROVE  AddressInv'
<1>1. UNCHANGED <<edit, editsOverlap>>
  BY DEF DeleteAddress
<1>2. saved' \in [SavedAddresses -> {"none", "plain", "default"}] /\ Defaults' \subseteq Defaults
  BY DEF DeleteAddress, AddressInv, AddressTypeOK, Defaults
<1> QED
  BY <1>1, <1>2 DEF AddressInv, AddressTypeOK, ClearedForDefault

LEMMA ProfileWithAddress == ASSUME AddressInv, CreateCustomerProfile PROVE AddressInv'
<1>1. /\ UNCHANGED edit
      /\ editsOverlap' = (editsOverlap \/ \E k \in Edits : edit[k].step # "idle")
  BY DEF CreateCustomerProfile
<1>2. editsOverlap' \in BOOLEAN
  BY <1>1, Zenon
<1>3. \/ UNCHANGED saved
      \/ \E a \in SavedAddresses : \/ saved' = [WithoutDefault EXCEPT ![a] = "default"]
                                   \/ saved' = [saved EXCEPT ![a] = "plain"]
  BY DEF CreateCustomerProfile
<1>4. /\ saved' \in [SavedAddresses -> {"none", "plain", "default"}]
      /\ Defaults' \subseteq Defaults \/ \E a \in SavedAddresses : Defaults' \subseteq {a}
  BY <1>3 DEF AddressInv, AddressTypeOK, WithoutDefault, Plain, Defaults
<1>5. ASSUME ~editsOverlap' PROVE ClearedForDefault'
  <2>1. ~editsOverlap /\ \A k \in Edits : edit[k].step = "idle"
    BY <1>1, <1>5
  <2>2. \A a, b \in Defaults' : a = b
    BY <1>4, <2>1 DEF AddressInv, ClearedForDefault
  <2> QED
    BY <1>1, <2>1, <2>2 DEF ClearedForDefault
<1> QED
  BY <1>1, <1>2, <1>4, <1>5 DEF AddressInv, AddressTypeOK

LEMMA AddressStep == AddressInv /\ [ProfilesNext]_profileVars => AddressInv'
<1> SUFFICES ASSUME AddressInv, [ProfilesNext]_profileVars PROVE AddressInv'
  OBVIOUS
<1>1. CASE AddressNext
  BY <1>1, AddressBegins, AddressClears, AddressCounts, AddressWrites, AddressGoes DEF AddressNext
<1>2. CASE CreateCustomerProfile
  BY <1>2, ProfileWithAddress
<1>3. CASE \/ \E g \in GstNumbers : AddGstDetails(g) \/ DeactivateGst(g) \/ ReactivateGst(g)
           \/ DriverNext
           \/ UNCHANGED profileVars
  <2>1. UNCHANGED addressVars
    BY <1>3 DEF AddGstDetails, DeactivateGst, ReactivateGst, DriverNext, BeginRegistration,
                CheckDocuments, CommitRegistration, RegistrationFails, CreateVehicle,
                CreateVehicleOwner, DeleteVehicle, Verify, RejectDriver, RevertRejection,
                profileVars
  <2> QED
    BY <2>1 DEF addressVars, AddressInv, AddressTypeOK, ClearedForDefault, Defaults
<1> QED
  BY <1>1, <1>2, <1>3 DEF ProfilesNext, CustomerNext

\* A set all of whose members are equal has at most one.
LEMMA AtMostOne == ASSUME NEW S, \A a, b \in S : a = b PROVE Cardinality(S) <= 1
<1>1. CASE S = {}
  BY <1>1, FS_EmptySet
<1>2. ASSUME NEW a \in S PROVE Cardinality(S) <= 1
  <2>1. S = {a}
    OBVIOUS
  <2> QED
    BY <2>1, FS_Singleton
<1> QED
  BY <1>1, <1>2

\* Unless two requests on the addresses have overlapped, a customer has at most one
\* default address, wherever a request ends or fails.
THEOREM DefaultIsUnique == ProfilesSpec => []OneDefaultAddress
<1>1. AddressInv => OneDefaultAddress
  <2>1. CASE editsOverlap
    BY <2>1 DEF OneDefaultAddress
  <2>2. ASSUME AddressInv, ~editsOverlap PROVE OneDefaultAddress
    BY <2>2, AtMostOne DEF AddressInv, ClearedForDefault, Defaults, OneDefaultAddress
  <2> QED
    BY <2>1, <2>2
<1> QED
  BY <1>1, AddressesStart, AddressStep, PTL DEF ProfilesSpec
-----------------------------------------------------------------------------
(* Registrations of drivers.                                               *)

LEMMA DriversStart == ProfilesInit => DriversInv
<1> SUFFICES ASSUME ProfilesInit PROVE DriversInv
  OBVIOUS
<1>1. NoRegistration \in Registering /\ NoRegistration.step = "idle"
  BY DEF NoRegistration, Registering
<1>2. DriverTypeOK
  BY <1>1 DEF ProfilesInit, DriverTypeOK
<1>3. ChecksStillHold /\ OneDriverPerIdentity
  BY <1>1 DEF ProfilesInit, ChecksStillHold, OneDriverPerIdentity
<1> QED
  BY <1>2, <1>3 DEF DriversInv

LEMMA RegistrationBegins ==
    ASSUME DriversInv, NEW r \in Registrations, BeginRegistration(r)
    PROVE  DriversInv'
<1>1. PICK d \in Applicants, i \in Identities, v \in {"none", "bare", "owned"} :
          /\ registration' = [registration EXCEPT ![r] =
                [step |-> "checks", driver |-> d, identity |-> i, vehicle |-> v]]
          /\ excused' = IF Rivals(r, i) = {} THEN excused ELSE excused \cup {i}
  BY DEF BeginRegistration
<1>2. PICK q : q = [step |-> "checks", driver |-> d, identity |-> i, vehicle |-> v]
  OBVIOUS
<1>3. q \in Registering /\ q.step = "checks" /\ q.driver = d /\ q.identity = i
  BY <1>2 DEF Registering
<1>4. registration' = [registration EXCEPT ![r] = q] /\ UNCHANGED <<documents, verdict, vehicle>>
  BY <1>1, <1>2 DEF BeginRegistration
<1>5. \A x \in Registrations : registration'[x] = IF x = r THEN q ELSE registration[x]
  BY <1>4 DEF DriversInv, DriverTypeOK
<1>6. DriverTypeOK'
  BY <1>3, <1>4, <1>5 DEF DriversInv, DriverTypeOK
<1>7. excused \subseteq excused' /\ (Rivals(r, i) # {} => i \in excused')
  BY <1>1
<1>8. \A x \in Registrations \ {r} :
          registration[x].step # "idle" /\ registration[x].identity = i => i \in excused'
  BY <1>7 DEF Rivals
<1>9. ASSUME NEW x \in Registrations, registration'[x].step = "rows",
             registration'[x].identity \notin excused'
      PROVE  Free(registration[x].identity, registration[x].driver)'
  <2>1. x # r /\ registration'[x] = registration[x]
    BY <1>3, <1>5, <1>9
  <2>2. Free(registration[x].identity, registration[x].driver)
    BY <1>7, <1>9, <2>1 DEF DriversInv, ChecksStillHold
  <2> QED
    BY <1>4, <2>1, <2>2 DEF Free
<1>10. ChecksStillHold'
  BY <1>3, <1>5, <1>7, <1>8, <1>9 DEF DriversInv, ChecksStillHold
<1>11. OneDriverPerIdentity'
  BY <1>4, <1>7 DEF DriversInv, OneDriverPerIdentity
<1> QED
  BY <1>6, <1>10, <1>11 DEF DriversInv

\* A registration that ends, or has looked and found nobody, claims no more.
LEMMA RegistrationChecks ==
    ASSUME DriversInv, NEW r \in Registrations, CheckDocuments(r) \/ RegistrationFails(r)
    PROVE  DriversInv'
<1>1. UNCHANGED <<documents, verdict, vehicle, excused>>
  BY DEF CheckDocuments, RegistrationFails
<1>2. NoRegistration \in Registering /\ NoRegistration.step = "idle"
  BY DEF NoRegistration, Registering
<1>3. CASE registration' = [registration EXCEPT ![r] = NoRegistration]
  <2>1. \A x \in Registrations : registration'[x] = IF x = r THEN NoRegistration ELSE registration[x]
    BY <1>3 DEF DriversInv, DriverTypeOK
  <2>2. DriverTypeOK'
    BY <1>1, <1>2, <1>3, <2>1 DEF DriversInv, DriverTypeOK
  <2>3. ChecksStillHold'
    BY <1>1, <1>2, <2>1 DEF DriversInv, ChecksStillHold, Free
  <2>4. OneDriverPerIdentity'
    BY <1>1 DEF DriversInv, OneDriverPerIdentity
  <2> QED
    BY <2>2, <2>3, <2>4 DEF DriversInv
<1>4. CASE /\ CheckDocuments(r) /\ Duplicates(r) = {}
           /\ registration' = [registration EXCEPT ![r].step = "rows"]
  <2>1. PICK q : q = [registration[r] EXCEPT !.step = "rows"]
    OBVIOUS
  <2>2. /\ q \in Registering /\ q.step = "rows"
        /\ q.driver = registration[r].driver /\ q.identity = registration[r].identity
        /\ registration[r].step = "checks"
        /\ registration' = [registration EXCEPT ![r] = q]
    BY <1>4, <2>1 DEF DriversInv, DriverTypeOK, Registering, CheckDocuments
  <2>3. \A x \in Registrations : registration'[x] = IF x = r THEN q ELSE registration[x]
    BY <2>2 DEF DriversInv, DriverTypeOK
  <2>4. DriverTypeOK'
    BY <1>1, <2>2, <2>3 DEF DriversInv, DriverTypeOK
  <2>5. Free(q.identity, q.driver)
    BY <1>4, <2>2 DEF Duplicates, Free
  <2>6. ChecksStillHold'
    BY <1>1, <2>2, <2>3, <2>5 DEF DriversInv, ChecksStillHold, Free
  <2>7. OneDriverPerIdentity'
    BY <1>1 DEF DriversInv, OneDriverPerIdentity
  <2> QED
    BY <2>4, <2>6, <2>7 DEF DriversInv
<1> QED
  BY <1>3, <1>4 DEF CheckDocuments, RegistrationFails, RegistrationEnds

\* Nobody but the driver has the identity: the others with it were rejected, and a
\* second registration with it would have excused it.
LEMMA RegistrationCommits ==
    ASSUME DriversInv, NEW r \in Registrations, CommitRegistration(r)
    PROVE  DriversInv'
<1>1. PICK d, i : d = registration[r].driver /\ i = registration[r].identity
  OBVIOUS
<1>2. /\ registration[r].step = "rows" /\ d \in Applicants /\ i \in Identities
      /\ registration[r].vehicle \in {"none", "bare", "owned"}
  BY <1>1 DEF CommitRegistration, DriversInv, DriverTypeOK, Registering
<1>3. /\ documents' = [documents EXCEPT ![d] = i]
      /\ registration' = [registration EXCEPT ![r] = NoRegistration]
      /\ UNCHANGED <<verdict, excused>>
  BY <1>1 DEF CommitRegistration, RegistrationEnds
<1>4. vehicle' \in [Applicants -> {"none", "bare", "owned"}]
  BY <1>1, <1>2 DEF CommitRegistration, DriversInv, DriverTypeOK
<1>5. NoRegistration \in Registering /\ NoRegistration.step = "idle"
  BY DEF NoRegistration, Registering
<1>6. \A x \in Registrations : registration'[x] = IF x = r THEN NoRegistration ELSE registration[x]
  BY <1>3 DEF DriversInv, DriverTypeOK
<1>7. \A e \in Applicants : documents'[e] = IF e = d THEN i ELSE documents[e]
  BY <1>2, <1>3 DEF DriversInv, DriverTypeOK
<1>8. DriverTypeOK'
  BY <1>2, <1>3, <1>4, <1>5, <1>6 DEF DriversInv, DriverTypeOK
<1>9. i \notin excused => Free(i, d)
  BY <1>1, <1>2 DEF DriversInv, ChecksStillHold
<1>10. \A x \in Registrations \ {r} :
           registration[x].step # "idle" /\ registration[x].identity = i => i \in excused
  BY <1>1, <1>2 DEF DriversInv, ChecksStillHold
<1>11. ASSUME NEW x \in Registrations \ {r}, registration[x].step = "rows",
              registration[x].identity \notin excused
       PROVE  Free(registration[x].identity, registration[x].driver)'
  <2>1. Free(registration[x].identity, registration[x].driver) /\ registration[x].identity # i
    BY <1>10, <1>11 DEF DriversInv, ChecksStillHold
  <2>2. registration'[x] = registration[x]
    BY <1>6
  <2> QED
    BY <1>3, <1>7, <2>1, <2>2 DEF Free
<1>12. ChecksStillHold'
  BY <1>3, <1>5, <1>6, <1>11 DEF DriversInv, ChecksStillHold
<1>13. OneDriverPerIdentity'
  BY <1>2, <1>3, <1>7, <1>9 DEF DriversInv, OneDriverPerIdentity, Free
<1> QED
  BY <1>8, <1>12, <1>13 DEF DriversInv

\* A verdict that rejects nobody less, or whose identity is excused.
LEMMA VerdictsChange ==
    ASSUME DriversInv, NEW d \in Applicants, Verify(d) \/ RejectDriver(d) \/ RevertRejection(d)
    PROVE  DriversInv'
<1>1. UNCHANGED <<documents, vehicle, registration>>
  BY DEF Verify, RejectDriver, RevertRejection
<1>2. verdict' \in [Applicants -> {"PENDING", "VERIFIED", "REJECTED"}]
  BY DEF Verify, RejectDriver, RevertRejection, DriversInv, DriverTypeOK
<1>3. /\ excused \subseteq excused'
      /\ \A e \in Applicants :
            verdict[e] = "REJECTED" => verdict'[e] = "REJECTED" \/ documents[e] \in excused'
  BY DEF Verify, RejectDriver, RevertRejection, DriversInv, DriverTypeOK
<1>4. DriverTypeOK'
  BY <1>1, <1>2 DEF DriversInv, DriverTypeOK
<1>5. ASSUME NEW i, NEW e, i \notin excused', Free(i, e) PROVE Free(i, e)'
  BY <1>1, <1>3, <1>5 DEF Free
<1>6. \A x \in Registrations : registration[x].step = "rows" /\ registration[x].identity \notin excused' =>
          Free(registration[x].identity, registration[x].driver)'
  <2> SUFFICES ASSUME NEW x \in Registrations, registration[x].step = "rows",
                      registration[x].identity \notin excused'
               PROVE  \A e \in Applicants \ {registration[x].driver} :
                          documents[e] = registration[x].identity => verdict'[e] = "REJECTED"
    BY <1>1 DEF Free
  <2>1. Free(registration[x].identity, registration[x].driver)
    BY <1>3 DEF DriversInv, ChecksStillHold
  <2> QED
    BY <1>3, <2>1 DEF Free
<1>7. ChecksStillHold'
  BY <1>1, <1>3, <1>6 DEF DriversInv, ChecksStillHold, Free
<1>8. OneDriverPerIdentity'
  BY <1>1, <1>3 DEF DriversInv, OneDriverPerIdentity
<1> QED
  BY <1>4, <1>7, <1>8 DEF DriversInv

LEMMA DriversStep == DriversInv /\ [ProfilesNext]_profileVars => DriversInv'
<1> SUFFICES ASSUME DriversInv, [ProfilesNext]_profileVars PROVE DriversInv'
  OBVIOUS
<1>1. ASSUME NEW r \in Registrations,
             \/ BeginRegistration(r) \/ CheckDocuments(r) \/ CommitRegistration(r)
             \/ RegistrationFails(r)
      PROVE  DriversInv'
  BY <1>1, RegistrationBegins, RegistrationChecks, RegistrationCommits
<1>2. ASSUME NEW d \in Applicants, Verify(d) \/ RejectDriver(d) \/ RevertRejection(d)
      PROVE  DriversInv'
  BY <1>2, VerdictsChange
<1>3. ASSUME NEW d \in Applicants, CreateVehicle(d) \/ CreateVehicleOwner(d) \/ DeleteVehicle(d)
      PROVE  DriversInv'
  <2>1. /\ UNCHANGED <<documents, verdict, registration, excused>>
        /\ vehicle' \in [Applicants -> {"none", "bare", "owned"}]
    BY <1>3 DEF CreateVehicle, CreateVehicleOwner, DeleteVehicle, DriversInv, DriverTypeOK
  <2> QED
    BY <2>1 DEF DriversInv, DriverTypeOK, ChecksStillHold, OneDriverPerIdentity, Free
<1>4. CASE AddressNext \/ CustomerNext \/ UNCHANGED profileVars
  <2>1. UNCHANGED driverVars
    BY <1>4 DEF AddressNext, CustomerNext, BeginCreateAddress, BeginUpdateAddress, EditBegins,
                ClearDefaults, CountAddresses, InsertAddress, UpdateAddress, DeleteAddress,
                AddGstDetails, DeactivateGst, ReactivateGst, CreateCustomerProfile, profileVars
  <2> QED
    BY <2>1 DEF driverVars, DriversInv, DriverTypeOK, ChecksStillHold, OneDriverPerIdentity, Free
<1> QED
  BY <1>1, <1>2, <1>3, <1>4 DEF ProfilesNext, DriverNext

\* Two drivers who are not rejected share an identity only if registrations with it
\* have overlapped, or a rejection of one of its drivers was revoked.
THEOREM IdentityIsUnique == ProfilesSpec => []OneDriverPerIdentity
<1>1. DriversInv => OneDriverPerIdentity
  BY DEF DriversInv
<1> QED
  BY <1>1, DriversStart, DriversStep, PTL DEF ProfilesSpec
-----------------------------------------------------------------------------
(* The help desk.                                                          *)

LEMMA DeskStarts == DeskInit => DeskInv
  BY DEF DeskInit, DeskInv, DeskTypeOK, OneHandled, DeskIsFollowed, Handling

LEMMA AppendFacts ==
    ASSUME NEW S, NEW q \in Seq(S), NEW x \in S
    PROVE  /\ Append(q, x) \in Seq(S) /\ Append(q, x) # <<>>
           /\ Len(Append(q, x)) = Len(q) + 1 /\ Append(q, x)[Len(q) + 1] = x
           /\ \A i \in 1..Len(q) : Append(q, x)[i] = q[i]
OBVIOUS

LEMMA TailFacts ==
    ASSUME NEW S, NEW q \in Seq(S), q # <<>>
    PROVE  /\ Len(q) \in Nat \ {0} /\ Head(q) = q[1] /\ Head(q) \in S
           /\ Tail(q) \in Seq(S) /\ Len(Tail(q)) = Len(q) - 1
           /\ \A i \in 1..(Len(q) - 1) : Tail(q)[i] = q[i + 1]
           /\ Tail(q) = <<>> => Len(q) = 1
<1>1. Len(q) \in Nat \ {0}
  OBVIOUS
<1>2. /\ Head(q) = q[1] /\ Head(q) \in S /\ Tail(q) \in Seq(S)
      /\ \A i \in 1..(Len(q) - 1) : Tail(q)[i] = q[i + 1]
  BY <1>1
<1>3. Len(Tail(q)) = Len(q) - 1
  BY <1>1
<1>4. PICK w : w = Tail(q)
  OBVIOUS
<1>5. w = <<>> => Len(w) = 0
  OBVIOUS
<1> QED
  BY <1>1, <1>2, <1>3, <1>4, <1>5

LEMMA PortalAssigns ==
    ASSUME DeskInv, NEW a \in Agents, AssignVerification(a)
    PROVE  DeskInv'
<1>1. /\ assignedTo' = a /\ UNCHANGED <<deskAssignee, webhooks, handler>>
      /\ a # NoAgent
  BY NoAgentAssumption DEF AssignVerification
<1>2. \/ \E k \in Tellings : telling[k] = NoAgent /\ telling' = [telling EXCEPT ![k] = a]
      \/ untold' /\ telling' = telling
  BY DEF AssignVerification
<1>3. untold' \/ UNCHANGED untold
  BY DEF AssignVerification
<1>4. ~overlapped' => ~overlapped /\ ~Handling
  BY DEF AssignVerification
<1>5. telling' \in [Tellings -> Agents \cup {NoAgent}]
  BY <1>2 DEF DeskInv, DeskTypeOK
<1>6. DeskTypeOK'
  BY <1>1, <1>5 DEF DeskInv, DeskTypeOK
<1>7. ~untold' => \E k \in Tellings : telling'[k] = a
  BY <1>2 DEF DeskInv, DeskTypeOK
<1> QED
  BY <1>1, <1>3, <1>4, <1>6, <1>7 DEF DeskInv, OneHandled, DeskIsFollowed, Handling

\* Whatever the desk assigns is reported, unless it has it already.
LEMMA DeskReports ==
    ASSUME DeskInv, NEW a \in Agents, DeskAssigns(a), UNCHANGED untold,
           telling' \in [Tellings -> Agents \cup {NoAgent}],
           \A k \in Tellings : telling[k] \notin {NoAgent, a} => telling'[k] = telling[k]
    PROVE  DeskInv'
<1>1. deskAssignee' = a /\ UNCHANGED <<assignedTo, handler, overlapped>>
  BY DEF DeskAssigns
<1>2. CASE a # deskAssignee
  <2>1. webhooks' = Append(webhooks, a) /\ webhooks \in Seq(Agents)
    BY <1>2 DEF DeskAssigns, DeskInv, DeskTypeOK
  <2>2. webhooks' \in Seq(Agents) /\ webhooks' # <<>> /\ webhooks'[Len(webhooks')] = a
    BY <2>1, AppendFacts
  <2> QED
    BY <1>1, <2>2 DEF DeskInv, DeskTypeOK, OneHandled, DeskIsFollowed
<1>3. CASE a = deskAssignee
  <2>1. webhooks' = webhooks
    BY <1>3 DEF DeskAssigns
  <2> QED
    BY <1>1, <1>3, <2>1 DEF DeskInv, DeskTypeOK, OneHandled, DeskIsFollowed, Handling
<1> QED
  BY <1>2, <1>3

LEMMA DeskAssignsStep ==
    ASSUME DeskInv, \/ \E a \in Agents : AssignAtDesk(a)
                    \/ \E k \in Tellings : AssignConversation(k)
    PROVE  DeskInv'
<1>1. ASSUME NEW a \in Agents, AssignAtDesk(a) PROVE DeskInv'
  BY <1>1, DeskReports DEF AssignAtDesk, DeskInv, DeskTypeOK
<1>2. ASSUME NEW k \in Tellings, AssignConversation(k) PROVE DeskInv'
  <2>1. PICK a \in Agents : a = telling[k]
    BY <1>2 DEF AssignConversation, DeskInv, DeskTypeOK
  <2>2. DeskAssigns(a) /\ UNCHANGED untold /\ telling' = [telling EXCEPT ![k] = NoAgent]
    BY <1>2, <2>1 DEF AssignConversation
  <2>3. /\ telling' \in [Tellings -> Agents \cup {NoAgent}]
        /\ \A j \in Tellings : telling[j] \notin {NoAgent, a} => telling'[j] = telling[j]
    BY <2>1, <2>2 DEF DeskInv, DeskTypeOK
  <2> QED
    BY <2>2, <2>3, DeskReports
<1> QED
  BY <1>1, <1>2

LEMMA WebhookTaken ==
    ASSUME DeskInv, NEW h \in Handlers, HandleWebhook(h)
    PROVE  DeskInv'
<1>1. PICK x \in Agents : x = Head(webhooks) /\ x # NoAgent
  BY TailFacts, NoAgentAssumption DEF HandleWebhook, DeskInv, DeskTypeOK
<1>2. /\ UNCHANGED <<assignedTo, deskAssignee, telling, untold>>
      /\ webhooks # <<>> /\ webhooks' = Tail(webhooks)
      /\ ~overlapped' => ~overlapped /\ ~Handling
  BY DEF HandleWebhook
<1>3. \/ handler' = handler /\ assignedTo = x
      \/ /\ handler' = [handler EXCEPT ![h] = [agent |-> x, status |-> status]]
         /\ assignedTo # x
  BY <1>1 DEF HandleWebhook, AlreadyAssigned
<1>4. PICK q : q = [agent |-> x, status |-> status]
  OBVIOUS
<1>5. q.agent = x /\ q # NotHandling
  BY <1>1, <1>4 DEF NotHandling
<1>6. \A g \in Handlers : handler'[g] = handler[g] \/ (g = h /\ handler'[g] = q /\ assignedTo # x)
  BY <1>3, <1>4 DEF DeskInv, DeskTypeOK
<1>7. DOMAIN handler' = Handlers
  BY <1>3 DEF DeskInv, DeskTypeOK
<1>8. /\ webhooks' \in Seq(Agents)
      /\ webhooks' # <<>> => webhooks'[Len(webhooks')] = webhooks[Len(webhooks)]
      /\ webhooks' = <<>> => webhooks[Len(webhooks)] = x
  <2>1. webhooks \in Seq(Agents)
    BY DEF DeskInv, DeskTypeOK
  <2>2. PICK w \in Seq(Agents) : w = Tail(webhooks)
    BY <1>2, <2>1, TailFacts
  <2>3. /\ Len(w) = Len(webhooks) - 1 /\ Len(webhooks) \in Nat \ {0}
        /\ \A i \in 1..(Len(webhooks) - 1) : w[i] = webhooks[i + 1]
        /\ w = <<>> => Len(webhooks) = 1
        /\ x = webhooks[1]
    BY <1>1, <1>2, <2>1, <2>2, TailFacts
  <2>4. w # <<>> => Len(w) # 0
    OBVIOUS
  <2>5. w # <<>> => w[Len(w)] = webhooks[Len(webhooks)]
    BY <2>3, <2>4
  <2> QED
    BY <1>2, <2>2, <2>3, <2>5
<1>9. DeskTypeOK'
  BY <1>2, <1>5, <1>6, <1>7, <1>8 DEF DeskInv, DeskTypeOK
<1>10. ASSUME ~untold', ~overlapped' PROVE OneHandled' /\ DeskIsFollowed'
  <2>1. /\ \A g \in Handlers : handler[g] = NotHandling
        /\ webhooks[Len(webhooks)] = deskAssignee
    BY <1>2, <1>10 DEF DeskInv, DeskIsFollowed, Handling
  <2>2. OneHandled'
    BY <1>6, <2>1 DEF OneHandled
  <2>3. webhooks' # <<>> => webhooks'[Len(webhooks')] = deskAssignee'
    BY <1>2, <1>8, <2>1
  <2>4. webhooks' = <<>> =>
           \A g \in Handlers : handler'[g] # NotHandling => handler'[g].agent = deskAssignee'
    BY <1>2, <1>5, <1>6, <1>8, <2>1
  <2>5. webhooks' = <<>> /\ ~Handling' => assignedTo' = deskAssignee'
    <3>1. ~Handling' => handler'[h] = NotHandling
      BY DEF Handling
    <3>2. ~Handling' => assignedTo = x
      BY <1>3, <1>4, <1>5, <3>1 DEF DeskInv, DeskTypeOK
    <3> QED
      BY <1>2, <1>8, <2>1, <3>2
  <2> QED
    BY <2>2, <2>3, <2>4, <2>5 DEF DeskIsFollowed
<1> QED
  BY <1>9, <1>10 DEF DeskInv

LEMMA WebhookWritten ==
    ASSUME DeskInv, NEW h \in Handlers, AssignByTicketId(h)
    PROVE  DeskInv'
<1>1. /\ UNCHANGED <<deskAssignee, telling, webhooks, untold, overlapped>>
      /\ handler[h] # NotHandling
      /\ assignedTo' = handler[h].agent
      /\ handler' = [handler EXCEPT ![h] = NotHandling]
  BY DEF AssignByTicketId
<1>2. \A g \in Handlers : handler'[g] = IF g = h THEN NotHandling ELSE handler[g]
  BY <1>1 DEF DeskInv, DeskTypeOK
<1>3. DeskTypeOK'
  BY <1>1, <1>2 DEF DeskInv, DeskTypeOK
<1> QED
  BY <1>1, <1>2, <1>3 DEF DeskInv, OneHandled, DeskIsFollowed, Handling

LEMMA DeskStep == DeskInv /\ [DeskNext]_deskVars => DeskInv'
<1> SUFFICES ASSUME DeskInv, [DeskNext]_deskVars PROVE DeskInv'
  OBVIOUS
<1>1. ASSUME NEW k \in Tellings, TellingFails(k) PROVE DeskInv'
  <2>1. /\ telling' \in [Tellings -> Agents \cup {NoAgent}] /\ untold'
        /\ UNCHANGED <<assignedTo, deskAssignee, webhooks, handler>>
    BY <1>1 DEF TellingFails, DeskInv, DeskTypeOK
  <2> QED
    BY <2>1 DEF DeskInv, DeskTypeOK
<1>2. CASE Ignored
  <2>1. webhooks' \in Seq(Agents)
    BY <1>2, TailFacts DEF Ignored, DeskInv, DeskTypeOK
  <2>2. untold' /\ UNCHANGED <<assignedTo, deskAssignee, telling, handler>>
    BY <1>2 DEF Ignored
  <2> QED
    BY <2>1, <2>2 DEF DeskInv, DeskTypeOK
<1>3. CASE \/ RequestMade \/ CreateTicket \/ AssignTeam \/ SaveTicketId \/ TicketFails
           \/ CloseRequest \/ UNCHANGED deskVars
  <2>1. UNCHANGED <<assignedTo, deskAssignee, telling, webhooks, handler, untold, overlapped>>
    BY <1>3 DEF RequestMade, CreateTicket, AssignTeam, SaveTicketId, TicketGoes, TicketFails,
                CloseRequest, deskVars
  <2> QED
    BY <2>1 DEF DeskInv, DeskTypeOK, OneHandled, DeskIsFollowed, Handling
<1> QED
  BY <1>1, <1>2, <1>3, PortalAssigns, DeskAssignsStep, WebhookTaken, WebhookWritten DEF DeskNext

\* When nothing is on its way, the portal and the desk name the same assignee, unless
\* a change was lost or something was assigned while a webhook was handled: in
\* whichever order calls, of any number, and the reports they bring arrive.
THEOREM BothSidesAgree == DeskSpec => []AssigneesAgree
<1>1. DeskInv => AssigneesAgree
  <2> SUFFICES ASSUME DeskInv, Quiet, ~untold, ~overlapped PROVE assignedTo = deskAssignee
    BY DEF AssigneesAgree
  <2>1. DeskIsFollowed /\ webhooks = <<>> /\ ~Handling /\ \A k \in Tellings : telling[k] = NoAgent
    BY DEF DeskInv, Quiet
  <2> QED
    BY <2>1 DEF DeskIsFollowed
<1> QED
  BY <1>1, DeskStarts, DeskStep, PTL DEF DeskSpec
-----------------------------------------------------------------------------
(* Live updates: what commands on their way make of a subscription.        *)

\* A new command that does not give the channel up leaves it wanted.
LEMMA SentKeeps ==
    ASSUME NEW q \in Seq(Command), NEW x \in Command, NEW d, NEW f, NEW has \in BOOLEAN,
           WillHave(q, d, has, f), ~Is(x, "unsubscribe", d, f)
    PROVE  WillHave(Append(q, x), d, has, f)
<1> DEFINE w == Append(q, x)
<1>1. /\ Len(w) = Len(q) + 1 /\ w[Len(q) + 1] = x
      /\ \A i \in 1..Len(q) : w[i] = q[i]
  BY AppendFacts
<1>2. Len(q) \in Nat
  OBVIOUS
<1> HIDE DEF w
<1>3. \A i \in 1..Len(w) : i \in 1..Len(q) \/ i = Len(q) + 1
  BY <1>1, <1>2
<1>4. CASE has /\ \A i \in 1..Len(q) : ~Is(q[i], "unsubscribe", d, f)
  <2>1. \A i \in 1..Len(w) : ~Is(w[i], "unsubscribe", d, f)
    BY <1>1, <1>3, <1>4
  <2> QED
    BY <1>4, <2>1 DEF WillHave, w
<1>5. ASSUME NEW i \in 1..Len(q), Is(q[i], "subscribe", d, f),
             \A j \in 1..Len(q) : j > i => ~Is(q[j], "unsubscribe", d, f)
      PROVE  WillHave(Append(q, x), d, has, f)
  <2>1. \A j \in 1..Len(w) : j > i => ~Is(w[j], "unsubscribe", d, f)
    BY <1>1, <1>3, <1>5
  <2>2. i \in 1..Len(w) /\ Is(w[i], "subscribe", d, f)
    BY <1>1, <1>2, <1>5
  <2> QED
    BY <2>1, <2>2 DEF WillHave, w
<1> QED
  BY <1>4, <1>5 DEF WillHave

LEMMA SentSubscribes ==
    ASSUME NEW q \in Seq(Command), NEW x \in Command, NEW d, NEW f, NEW has \in BOOLEAN,
           Is(x, "subscribe", d, f)
    PROVE  WillHave(Append(q, x), d, has, f)
<1>1. PICK w \in Seq(Command) :
          w = Append(q, x) /\ Len(w) = Len(q) + 1 /\ w[Len(q) + 1] = x
  BY AppendFacts
<1>2. Len(q) \in Nat
  OBVIOUS
<1>3. Len(w) \in 1..Len(w) /\ Is(w[Len(w)], "subscribe", d, f)
  BY <1>1, <1>2
<1>4. \A j \in 1..Len(w) : ~(j > Len(w))
  BY <1>1, <1>2
<1> QED
  BY <1>1, <1>3, <1>4 DEF WillHave

\* So does executing the first one, which takes effect.
LEMMA ExecutedKeeps ==
    ASSUME NEW q \in Seq(Command), q # <<>>, NEW d, NEW f, NEW has \in BOOLEAN,
           NEW now \in BOOLEAN, WillHave(q, d, has, f),
           Is(q[1], "subscribe", d, f) => now,
           has /\ ~Is(q[1], "unsubscribe", d, f) => now
    PROVE  WillHave(Tail(q), d, now, f)
<1>1. PICK w \in Seq(Command) :
          /\ w = Tail(q) /\ Len(w) = Len(q) - 1 /\ Len(q) \in Nat \ {0}
          /\ \A i \in 1..(Len(q) - 1) : w[i] = q[i + 1]
  BY TailFacts
<1>2. \A i \in 1..Len(w) : i + 1 \in 1..Len(q) /\ w[i] = q[i + 1]
  BY <1>1
<1>3. 1 \in 1..Len(q)
  BY <1>1
<1>4. CASE has /\ \A i \in 1..Len(q) : ~Is(q[i], "unsubscribe", d, f)
  <2>1. \A i \in 1..Len(w) : ~Is(w[i], "unsubscribe", d, f)
    BY <1>2, <1>4
  <2>2. now
    BY <1>3, <1>4
  <2> QED
    BY <1>1, <2>1, <2>2 DEF WillHave
<1>5. ASSUME NEW i \in 1..Len(q), Is(q[i], "subscribe", d, f),
             \A j \in 1..Len(q) : j > i => ~Is(q[j], "unsubscribe", d, f)
      PROVE  WillHave(Tail(q), d, now, f)
  <2>1. CASE i = 1
    <3>1. \A j \in 1..Len(w) : ~Is(w[j], "unsubscribe", d, f)
      BY <1>2, <1>5, <2>1
    <3> QED
      BY <1>1, <1>5, <2>1, <3>1 DEF WillHave
  <2>2. CASE i # 1
    <3>1. PICK k \in 1..Len(w) : i = k + 1
      BY <1>1, <1>5, <2>2
    <3>2. Is(w[k], "subscribe", d, f)
      BY <1>2, <1>5, <3>1
    <3>3. \A j \in 1..Len(w) : j > k => ~Is(w[j], "unsubscribe", d, f)
      BY <1>2, <1>5, <3>1
    <3> QED
      BY <1>1, <3>2, <3>3 DEF WillHave
  <2> QED
    BY <2>1, <2>2
<1> QED
  BY <1>4, <1>5 DEF WillHave
-----------------------------------------------------------------------------
(* Live updates: the streams.                                              *)

LEMMA BusStarts == BusInit => BusInv
<1> SUFFICES ASSUME BusInit PROVE BusInv
  OBVIOUS
<1>1. \A s \in Streams : \E d \in Tracked : stream[s] = [phase |-> "off", driver |-> d, conn |-> NoConn]
  BY DEF BusInit
<1>2. ASSUME NEW s \in Streams
      PROVE  /\ stream[s] \in [phase : Phases, driver : Tracked, conn : Conns \cup {NoConn}]
             /\ stream[s].phase = "off"
  <2>1. PICK d \in Tracked : stream[s] = [phase |-> "off", driver |-> d, conn |-> NoConn]
    BY <1>1
  <2> QED
    BY <2>1 DEF Phases
<1>3. stream \in [Streams -> [phase : Phases, driver : Tracked, conn : Conns \cup {NoConn}]]
  <2>1. stream \in [Streams -> {[phase |-> "off", driver |-> d, conn |-> NoConn] : d \in Tracked}]
    BY DEF BusInit
  <2>2. stream = [s \in Streams |-> stream[s]]
    BY <2>1
  <2> QED
    BY <1>2, <2>2
<1>4. BusTypeOK
  BY <1>2, <1>3 DEF BusInit, BusTypeOK
<1>5. \A c \in Conns : Len(commands[c]) = 0
  BY DEF BusInit
<1>6. SubscribesAreAwaited /\ IsWanted
  BY <1>2, <1>5 DEF BusInit, SubscribesAreAwaited, IsWanted
<1> QED
  BY <1>4, <1>6 DEF BusInv

\* A stream that goes on stays with its driver.
LEMMA StreamGoes ==
    ASSUME BusTypeOK, NEW s \in Streams, NEW p \in Phases, NEW n \in Conns \cup {NoConn},
           Takes(s, p, n) \/ (Goes(s, p) /\ n = stream[s].conn)
    PROVE  /\ stream' \in [Streams -> [phase : Phases, driver : Tracked, conn : Conns \cup {NoConn}]]
           /\ DriverOf' = DriverOf
           /\ \A t \in Streams : /\ stream'[t].driver = stream[t].driver
                                 /\ stream'[t].phase = IF t = s THEN p ELSE stream[t].phase
                                 /\ stream'[t].conn = IF t = s THEN n ELSE stream[t].conn
<1>1. PICK q : q = [stream[s] EXCEPT !.phase = p, !.conn = n]
  OBVIOUS
<1>2. stream[s] \in [phase : Phases, driver : Tracked, conn : Conns \cup {NoConn}]
  BY DEF BusTypeOK
<1>3. /\ q \in [phase : Phases, driver : Tracked, conn : Conns \cup {NoConn}]
      /\ q.phase = p /\ q.conn = n /\ q.driver = stream[s].driver
  BY <1>1, <1>2
<1>4. stream' = [stream EXCEPT ![s] = q]
  <2>1. CASE Takes(s, p, n)
    BY <1>1, <2>1 DEF BusTypeOK, Takes
  <2>2. CASE Goes(s, p) /\ n = stream[s].conn
    <3>1. [stream[s] EXCEPT !.phase = p] = q
      BY <1>1, <1>2, <2>2
    <3> QED
      BY <2>2, <3>1 DEF Goes
  <2> QED
    BY <2>1, <2>2
<1>5. \A t \in Streams : stream'[t] = IF t = s THEN q ELSE stream[t]
  BY <1>4 DEF BusTypeOK
<1>6. stream' \in [Streams -> [phase : Phases, driver : Tracked, conn : Conns \cup {NoConn}]]
  BY <1>3, <1>4 DEF BusTypeOK
<1>7. \A t \in Streams : stream'[t].driver = stream[t].driver
  BY <1>3, <1>5
<1>8. DriverOf' = DriverOf
  BY <1>7 DEF DriverOf
<1> QED
  BY <1>3, <1>5, <1>6, <1>7, <1>8

\* Every command is of a stream.
LEMMA CommandsAreOfStreams ==
    ASSUME BusTypeOK
    PROVE  \A b \in Conns : \A i \in 1..Len(commands[b]) : commands[b][i] \in Command
<1> SUFFICES ASSUME NEW b \in Conns, NEW i \in 1..Len(commands[b])
             PROVE  commands[b][i] \in Command
  OBVIOUS
<1>1. commands[b] \in Seq(Command)
  BY DEF BusTypeOK
<1> QED
  BY <1>1

\* A stream that waits for no subscribe may go on to where it waits for none.
LEMMA NoneAwaited ==
    ASSUME BusInv, NEW s \in Streams, NEW p \in Phases \ {"subscribing"},
           stream[s].phase # "subscribing",
           \A t \in Streams : /\ stream'[t].driver = stream[t].driver
                              /\ stream'[t].phase = IF t = s THEN p ELSE stream[t].phase,
           UNCHANGED <<commands, channelToListeners>>,
           p \in {"live", "leaving"} => s \in channelToListeners[stream[s].driver]
    PROVE  SubscribesAreAwaited'
<1>1. \A c \in Conns : \A i \in 1..Len(commands[c]) : commands[c][i].stream \in Streams
  BY CommandsAreOfStreams DEF Command, BusInv
<1> QED
  BY <1>1 DEF BusInv, SubscribesAreAwaited

\* Stream s goes to the phase p, with the connection n.
Moves(s, p, n) ==
    /\ Takes(s, p, n) \/ (Goes(s, p) /\ n = stream[s].conn)
    /\ stream[s].phase # "subscribing"
    /\ p \in {"live", "leaving"} => stream[s].phase = "live"
    /\ p \in {"connecting", "adding"} => n \in Conns
    /\ subscriberInstance' \in Conns \cup {NoConn}

LEMMA StreamConnects ==
    ASSUME BusInv, NEW s \in Streams,
           \/ OpenStream(s) \/ Connected(s) \/ ConnectFails(s) \/ ClientLeaves(s)
    PROVE  BusInv'
<1>1. UNCHANGED <<commands, subscribed, channelToListeners, unheard>>
  BY DEF OpenStream, Connected, ConnectFails, ClientLeaves
<1>2. CASE UNCHANGED stream
  <2>1. UNCHANGED subscriberInstance
    BY <1>2 DEF OpenStream, Connected, ConnectFails, ClientLeaves, Goes, Takes, BusInv, BusTypeOK
  <2>2. BusTypeOK'
    BY <1>1, <1>2, <2>1 DEF BusInv, BusTypeOK
  <2>3. SubscribesAreAwaited'
    BY <1>1, <1>2 DEF BusInv, SubscribesAreAwaited
  <2>4. DriverOf' = DriverOf
    BY <1>2 DEF DriverOf
  <2>5. IsWanted'
    BY <1>1, <2>4 DEF BusInv, IsWanted
  <2> QED
    BY <2>2, <2>3, <2>5 DEF BusInv
<1>3. ASSUME NEW p \in Phases \ {"subscribing"}, NEW n \in Conns \cup {NoConn}, Moves(s, p, n)
      PROVE  BusInv'
  <2>1. /\ stream' \in [Streams -> [phase : Phases, driver : Tracked, conn : Conns \cup {NoConn}]]
        /\ DriverOf' = DriverOf
        /\ \A t \in Streams : /\ stream'[t].driver = stream[t].driver
                              /\ stream'[t].phase = IF t = s THEN p ELSE stream[t].phase
                              /\ stream'[t].conn = IF t = s THEN n ELSE stream[t].conn
    BY <1>3, StreamGoes DEF BusInv, Moves
  <2>2. p \in {"live", "leaving"} => s \in channelToListeners[stream[s].driver]
    BY <1>3 DEF BusInv, SubscribesAreAwaited, Moves
  <2>3. SubscribesAreAwaited'
    BY <1>1, <1>3, <2>1, <2>2, NoneAwaited DEF Moves
  <2>4. BusTypeOK'
    BY <1>1, <1>3, <2>1 DEF BusInv, BusTypeOK, Moves
  <2>5. IsWanted'
    BY <1>1, <2>1 DEF BusInv, IsWanted
  <2> QED
    BY <2>3, <2>4, <2>5 DEF BusInv
<1>4. stream[s].conn \in Conns \cup {NoConn} /\ subscriberInstance \in Conns \cup {NoConn}
  BY DEF BusInv, BusTypeOK
<1>5. CASE OpenStream(s)
  <2>1. PICK p \in {"adding", "connecting"}, n \in Conns : Moves(s, p, n)
    BY <1>4, <1>5 DEF OpenStream, Moves
  <2> QED
    BY <1>3, <2>1 DEF Phases
<1>6. CASE Connected(s)
  <2>1. Moves(s, "adding", stream[s].conn)
    BY <1>4, <1>6 DEF Connected, Moves, BusInv, BusTypeOK
  <2> QED
    BY <1>3, <1>4, <2>1 DEF Phases
<1>7. CASE ConnectFails(s)
  <2>1. Moves(s, "failed", stream[s].conn)
    BY <1>4, <1>7 DEF ConnectFails, Moves
  <2> QED
    BY <1>3, <1>4, <2>1 DEF Phases
<1>8. CASE ClientLeaves(s) /\ ~UNCHANGED stream
  <2>1. Moves(s, "leaving", subscriberInstance)
    BY <1>4, <1>8 DEF ClientLeaves, Moves
  <2> QED
    BY <1>3, <1>4, <2>1 DEF Phases
<1> QED
  BY <1>2, <1>5, <1>6, <1>7, <1>8
\* A command is sent on the connection c, behind the others.
Sent(c, x) == commands' = [commands EXCEPT ![c] = Append(@, x)]

LEMMA CommandSent ==
    ASSUME BusTypeOK, NEW c \in Conns, NEW x \in Command, Sent(c, x)
    PROVE  /\ commands' \in [Conns -> Seq(Command)]
           /\ \A b \in Conns : commands'[b] = IF b = c THEN Append(commands[c], x) ELSE commands[b]
           /\ \A b \in Conns : \A i \in 1..Len(commands'[b]) :
                 \/ i \in 1..Len(commands[b]) /\ commands'[b][i] = commands[b][i]
                 \/ b = c /\ i = Len(commands[c]) + 1 /\ commands'[b][i] = x
<1>1. PICK w : w = Append(commands[c], x)
  OBVIOUS
<1>2. commands[c] \in Seq(Command) /\ Len(commands[c]) \in Nat
  BY DEF BusTypeOK
<1>3. /\ w \in Seq(Command) /\ Len(w) = Len(commands[c]) + 1 /\ w[Len(commands[c]) + 1] = x
      /\ \A i \in 1..Len(commands[c]) : w[i] = commands[c][i]
  BY <1>1, <1>2, AppendFacts
<1>4. commands' = [commands EXCEPT ![c] = w]
  BY <1>1 DEF Sent
<1>5. \A b \in Conns : commands'[b] = IF b = c THEN w ELSE commands[b]
  BY <1>4 DEF BusTypeOK
<1>6. commands' \in [Conns -> Seq(Command)]
  BY <1>3, <1>4 DEF BusTypeOK
<1>7. \A i \in 1..Len(w) : i \in 1..Len(commands[c]) \/ i = Len(commands[c]) + 1
  BY <1>2, <1>3
<1> QED
  BY <1>1, <1>3, <1>5, <1>6, <1>7

\* The channel becomes wanted with its first listener, and that one asks for it.
LEMMA StreamSubscribes ==
    ASSUME BusInv, NEW s \in Streams, SubscribeChannel(s)
    PROVE  BusInv'
<1>1. PICK d \in Tracked, c \in Conns : d = stream[s].driver /\ c = stream[s].conn
  BY DEF BusInv, BusTypeOK, SubscribeChannel
<1>2. /\ stream[s].phase = "adding"
      /\ channelToListeners' = [channelToListeners EXCEPT ![d] = @ \cup {s}]
      /\ UNCHANGED <<subscriberInstance, subscribed, unheard>>
  BY <1>1 DEF SubscribeChannel, Channel
<1>3. /\ channelToListeners' \in [Tracked -> SUBSET Streams]
      /\ \A e \in Tracked : channelToListeners'[e] =
             IF e = d THEN channelToListeners[d] \cup {s} ELSE channelToListeners[e]
  BY <1>2 DEF BusInv, BusTypeOK
<1>4. ASSUME NEW p \in {"subscribing", "live"}, Goes(s, p)
      PROVE  /\ stream' \in [Streams -> [phase : Phases, driver : Tracked, conn : Conns \cup {NoConn}]]
             /\ DriverOf' = DriverOf
             /\ \A t \in Streams : /\ stream'[t].driver = stream[t].driver
                                   /\ stream'[t].phase = IF t = s THEN p ELSE stream[t].phase
                                   /\ stream'[t].conn = stream[t].conn
  <2>1. p \in Phases /\ c \in Conns \cup {NoConn} /\ BusTypeOK
    BY DEF Phases, BusInv
  <2>2. /\ stream' \in [Streams -> [phase : Phases, driver : Tracked, conn : Conns \cup {NoConn}]]
        /\ DriverOf' = DriverOf
        /\ \A t \in Streams : /\ stream'[t].driver = stream[t].driver
                              /\ stream'[t].phase = IF t = s THEN p ELSE stream[t].phase
                              /\ stream'[t].conn = IF t = s THEN c ELSE stream[t].conn
    BY <1>1, <1>4, <2>1, StreamGoes
  <2> QED
    BY <1>1, <2>2
<1>5. CASE channelToListeners[d] # {}
  <2>1. Goes(s, "live") /\ UNCHANGED commands
    BY <1>1, <1>5 DEF SubscribeChannel, IsFirst, Channel
  <2>2. /\ stream' \in [Streams -> [phase : Phases, driver : Tracked, conn : Conns \cup {NoConn}]]
        /\ DriverOf' = DriverOf
        /\ \A t \in Streams : /\ stream'[t].driver = stream[t].driver
                              /\ stream'[t].phase = IF t = s THEN "live" ELSE stream[t].phase
                              /\ stream'[t].conn = stream[t].conn
    BY <1>4, <2>1
  <2>3. BusTypeOK'
    BY <1>2, <1>3, <2>1, <2>2 DEF BusInv, BusTypeOK
  <2>4. \A b \in Conns : \A i \in 1..Len(commands[b]) : commands[b][i].stream \in Streams
    BY CommandsAreOfStreams DEF Command, BusInv
  <2>5. SubscribesAreAwaited'
    BY <1>1, <1>2, <1>3, <2>1, <2>2, <2>4 DEF BusInv, SubscribesAreAwaited
  <2>6. IsWanted'
    BY <1>2, <1>3, <1>5, <2>1, <2>2 DEF BusInv, IsWanted
  <2> QED
    BY <2>3, <2>5, <2>6 DEF BusInv
<1>6. CASE channelToListeners[d] = {}
  <2>1. PICK x : x = [kind |-> "subscribe", stream |-> s]
    OBVIOUS
  <2>2. x \in Command /\ x.kind = "subscribe" /\ x.stream = s
    BY <2>1 DEF Command
  <2>3. Goes(s, "subscribing") /\ Sent(c, x)
    BY <1>1, <1>6, <2>1 DEF SubscribeChannel, IsFirst, Channel, Sends, Sent
  <2>4. /\ stream' \in [Streams -> [phase : Phases, driver : Tracked, conn : Conns \cup {NoConn}]]
        /\ DriverOf' = DriverOf
        /\ \A t \in Streams : /\ stream'[t].driver = stream[t].driver
                              /\ stream'[t].phase = IF t = s THEN "subscribing" ELSE stream[t].phase
                              /\ stream'[t].conn = stream[t].conn
    BY <1>4, <2>3
  <2>5. /\ commands' \in [Conns -> Seq(Command)]
        /\ \A b \in Conns : commands'[b] = IF b = c THEN Append(commands[c], x) ELSE commands[b]
        /\ \A b \in Conns : \A i \in 1..Len(commands'[b]) :
                 \/ i \in 1..Len(commands[b]) /\ commands'[b][i] = commands[b][i]
                 \/ b = c /\ i = Len(commands[c]) + 1 /\ commands'[b][i] = x
    BY <2>2, <2>3, CommandSent DEF BusInv
  <2>6. BusTypeOK'
    BY <1>2, <1>3, <2>4, <2>5 DEF BusInv, BusTypeOK
  <2>7. \A b \in Conns : \A i \in 1..Len(commands[b]) :
            commands[b][i].kind = "subscribe" => commands[b][i].stream # s
    BY <1>2 DEF BusInv, SubscribesAreAwaited
  <2>8. \A b \in Conns : \A i \in 1..Len(commands[b]) : commands[b][i].stream \in Streams
    BY CommandsAreOfStreams DEF Command, BusInv
  <2>9. ASSUME NEW b \in Conns, NEW i \in 1..Len(commands'[b]), commands'[b][i].kind = "subscribe"
        PROVE  stream'[commands'[b][i].stream].phase = "subscribing"
    <3>1. CASE i \in 1..Len(commands[b]) /\ commands'[b][i] = commands[b][i]
      <4>1. /\ stream[commands[b][i].stream].phase = "subscribing"
            /\ commands[b][i].stream \in Streams
        BY <2>8, <2>9, <3>1 DEF BusInv, SubscribesAreAwaited
      <4> QED
        BY <2>4, <3>1, <4>1
    <3>2. CASE commands'[b][i] = x
      BY <2>2, <2>4, <3>2
    <3> QED
      BY <2>5, <3>1, <3>2
  <2>10. ASSUME NEW a \in Conns, NEW b \in Conns,
                NEW i \in 1..Len(commands'[a]), NEW j \in 1..Len(commands'[b]),
                commands'[a][i].kind = "subscribe", commands'[b][j].kind = "subscribe",
                commands'[a][i].stream = commands'[b][j].stream
         PROVE  a = b /\ i = j
    <3>1. CASE /\ i \in 1..Len(commands[a]) /\ commands'[a][i] = commands[a][i]
               /\ j \in 1..Len(commands[b]) /\ commands'[b][j] = commands[b][j]
      BY <2>10, <3>1 DEF BusInv, SubscribesAreAwaited
    <3>2. CASE i \in 1..Len(commands[a]) /\ commands'[a][i] = commands[a][i] /\ commands'[b][j] = x
      BY <2>2, <2>7, <2>10, <3>2
    <3>3. CASE j \in 1..Len(commands[b]) /\ commands'[b][j] = commands[b][j] /\ commands'[a][i] = x
      BY <2>2, <2>7, <2>10, <3>3
    <3> QED
      BY <2>5, <3>1, <3>2, <3>3
  <2>11. SubscribesAreAwaited'
    BY <1>1, <1>2, <1>3, <2>4, <2>9, <2>10 DEF BusInv, SubscribesAreAwaited
  <2>12. ASSUME NEW e \in Tracked, channelToListeners'[e] # {}, e \notin unheard
         PROVE  \E b \in Conns : WillHave(commands'[b], e, e \in subscribed[b], DriverOf)
    <3>1. CASE e = d
      <4>1. Is(x, "subscribe", e, DriverOf)
        BY <1>1, <2>2, <3>1 DEF Is, DriverOf
      <4>2. (e \in subscribed[c]) \in BOOLEAN /\ commands[c] \in Seq(Command)
        BY DEF BusInv, BusTypeOK
      <4>3. WillHave(Append(commands[c], x), e, e \in subscribed[c], DriverOf)
        BY <2>2, <4>1, <4>2, SentSubscribes
      <4> QED
        BY <2>5, <4>3
    <3>2. CASE e # d
      <4>1. PICK b \in Conns : WillHave(commands[b], e, e \in subscribed[b], DriverOf)
        BY <1>3, <2>12, <3>2 DEF BusInv, IsWanted
      <4>2. ~Is(x, "unsubscribe", e, DriverOf)
        BY <2>2 DEF Is
      <4>3. (e \in subscribed[b]) \in BOOLEAN /\ commands[b] \in Seq(Command)
        BY DEF BusInv, BusTypeOK
      <4>4. WillHave(Append(commands[b], x), e, e \in subscribed[b], DriverOf)
        BY <2>2, <4>1, <4>2, <4>3, SentKeeps
      <4> QED
        BY <2>5, <4>1, <4>4
    <3> QED
      BY <3>1, <3>2
  <2>13. IsWanted'
    BY <1>2, <2>4, <2>12 DEF IsWanted
  <2> QED
    BY <2>6, <2>11, <2>13 DEF BusInv
<1> QED
  BY <1>5, <1>6
\* The last listener to leave gives the channel up: nobody wants it any more.
LEMMA StreamUnsubscribes ==
    ASSUME BusInv, NEW s \in Streams, UnsubscribeChannel(s)
    PROVE  BusInv'
<1>1. PICK d \in Tracked, c \in Conns \cup {NoConn} : d = stream[s].driver /\ c = stream[s].conn
  BY DEF BusInv, BusTypeOK
<1>2. /\ stream[s].phase = "leaving" /\ Goes(s, "over")
      /\ channelToListeners' = [channelToListeners EXCEPT ![d] = @ \ {s}]
      /\ UNCHANGED <<subscriberInstance, subscribed, unheard>>
  BY <1>1 DEF UnsubscribeChannel, Channel
<1>3. /\ channelToListeners' \in [Tracked -> SUBSET Streams]
      /\ \A e \in Tracked : channelToListeners'[e] =
             IF e = d THEN channelToListeners[d] \ {s} ELSE channelToListeners[e]
  BY <1>2 DEF BusInv, BusTypeOK
<1>4. /\ stream' \in [Streams -> [phase : Phases, driver : Tracked, conn : Conns \cup {NoConn}]]
      /\ DriverOf' = DriverOf
      /\ \A t \in Streams : /\ stream'[t].driver = stream[t].driver
                            /\ stream'[t].phase = IF t = s THEN "over" ELSE stream[t].phase
                            /\ stream'[t].conn = IF t = s THEN c ELSE stream[t].conn
  <2>1. "over" \in Phases /\ BusTypeOK
    BY DEF Phases, BusInv
  <2> QED
    BY <1>1, <1>2, <2>1, StreamGoes
<1>5. PICK x : x = [kind |-> "unsubscribe", stream |-> s]
  OBVIOUS
<1>6. x \in Command /\ x.kind = "unsubscribe" /\ x.stream = s
  BY <1>5 DEF Command
<1>7. \/ UNCHANGED commands /\ (IsLast(s) => c \notin Conns)
      \/ IsLast(s) /\ c \in Conns /\ Sent(c, x)
  <2>1. CASE IsLast(s) /\ c \in Conns
    BY <1>1, <1>5, <2>1 DEF UnsubscribeChannel, Sends, Sent
  <2>2. CASE IsLast(s) /\ c \notin Conns
    <3>1. commands' = [commands EXCEPT ![c] = Append(@, x)]
      BY <1>1, <1>5, <2>2 DEF UnsubscribeChannel, Sends
    <3> QED
      BY <2>2, <3>1 DEF BusInv, BusTypeOK
  <2>3. CASE ~IsLast(s)
    BY <2>3 DEF UnsubscribeChannel
  <2> QED
    BY <2>1, <2>2, <2>3
<1>8. IsLast(s) => channelToListeners'[d] = {}
  BY <1>1, <1>3 DEF IsLast, Channel
<1>9. \A b \in Conns : \A i \in 1..Len(commands[b]) :
          /\ commands[b][i].stream \in Streams
          /\ commands[b][i].kind = "subscribe" => commands[b][i].stream # s
  BY <1>2, CommandsAreOfStreams DEF Command, BusInv, SubscribesAreAwaited
<1>10. \A t \in Streams : stream'[t].phase \in {"subscribing", "live", "leaving"} =>
           t \in channelToListeners'[stream'[t].driver]
  <2> SUFFICES ASSUME NEW t \in Streams, stream'[t].phase \in {"subscribing", "live", "leaving"}
               PROVE  t \in channelToListeners'[stream[t].driver]
    BY <1>4
  <2>1. t # s /\ t \in channelToListeners[stream[t].driver] /\ stream[t].driver \in Tracked
    BY <1>4 DEF BusInv, BusTypeOK, SubscribesAreAwaited
  <2> QED
    BY <1>3, <2>1
<1>11. CASE UNCHANGED commands
  <2>1. BusTypeOK'
    BY <1>2, <1>3, <1>4, <1>11 DEF BusInv, BusTypeOK
  <2>2. SubscribesAreAwaited'
    BY <1>4, <1>9, <1>10, <1>11 DEF BusInv, SubscribesAreAwaited
  <2>3. \A e \in Tracked : channelToListeners'[e] # {} => channelToListeners[e] # {}
    BY <1>3
  <2>4. IsWanted'
    BY <1>2, <1>4, <1>11, <2>3 DEF BusInv, IsWanted
  <2> QED
    BY <2>1, <2>2, <2>4 DEF BusInv
<1>12. CASE IsLast(s) /\ c \in Conns /\ Sent(c, x)
  <2>1. /\ commands' \in [Conns -> Seq(Command)]
        /\ \A b \in Conns : commands'[b] = IF b = c THEN Append(commands[c], x) ELSE commands[b]
        /\ \A b \in Conns : \A i \in 1..Len(commands'[b]) :
                 \/ i \in 1..Len(commands[b]) /\ commands'[b][i] = commands[b][i]
                 \/ b = c /\ i = Len(commands[c]) + 1 /\ commands'[b][i] = x
    BY <1>6, <1>12, CommandSent DEF BusInv
  <2>2. BusTypeOK'
    BY <1>2, <1>3, <1>4, <2>1 DEF BusInv, BusTypeOK
  <2>3. \A b \in Conns : \A i \in 1..Len(commands'[b]) :
            commands'[b][i].kind = "subscribe" =>
                i \in 1..Len(commands[b]) /\ commands'[b][i] = commands[b][i]
    BY <1>6, <2>1
  <2>4. ASSUME NEW b \in Conns, NEW i \in 1..Len(commands'[b]), commands'[b][i].kind = "subscribe"
        PROVE  stream'[commands'[b][i].stream].phase = "subscribing"
    <3>1. i \in 1..Len(commands[b]) /\ commands'[b][i] = commands[b][i]
      BY <2>3, <2>4
    <3>2. stream[commands[b][i].stream].phase = "subscribing"
      BY <2>4, <3>1 DEF BusInv, SubscribesAreAwaited
    <3> QED
      BY <1>4, <1>9, <2>4, <3>1, <3>2
  <2>5. ASSUME NEW a \in Conns, NEW b \in Conns,
               NEW i \in 1..Len(commands'[a]), NEW j \in 1..Len(commands'[b]),
               commands'[a][i].kind = "subscribe", commands'[b][j].kind = "subscribe",
               commands'[a][i].stream = commands'[b][j].stream
        PROVE  a = b /\ i = j
    <3>1. /\ i \in 1..Len(commands[a]) /\ commands'[a][i] = commands[a][i]
          /\ j \in 1..Len(commands[b]) /\ commands'[b][j] = commands[b][j]
      BY <2>3, <2>5
    <3> QED
      BY <2>5, <3>1 DEF BusInv, SubscribesAreAwaited
  <2>6. SubscribesAreAwaited'
    BY <1>10, <2>4, <2>5 DEF SubscribesAreAwaited
  <2>7. ASSUME NEW e \in Tracked, channelToListeners'[e] # {}, e \notin unheard
        PROVE  \E b \in Conns : WillHave(commands'[b], e, e \in subscribed[b], DriverOf)
    <3>1. e # d /\ channelToListeners[e] # {}
      BY <1>3, <1>8, <1>12, <2>7
    <3>2. PICK b \in Conns : WillHave(commands[b], e, e \in subscribed[b], DriverOf)
      BY <2>7, <3>1 DEF BusInv, IsWanted
    <3>3. ~Is(x, "unsubscribe", e, DriverOf)
      BY <1>1, <1>6, <3>1 DEF Is, DriverOf
    <3>4. (e \in subscribed[b]) \in BOOLEAN /\ commands[b] \in Seq(Command)
      BY DEF BusInv, BusTypeOK
    <3>5. WillHave(Append(commands[b], x), e, e \in subscribed[b], DriverOf)
      <4>1. x \in Command
        BY <1>6
      <4> QED
        BY <3>2, <3>3, <3>4, <4>1, SentKeeps
    <3> QED
      BY <2>1, <3>2, <3>5
  <2>8. IsWanted'
    BY <1>2, <1>4, <2>7 DEF IsWanted
  <2> QED
    BY <2>2, <2>6, <2>8 DEF BusInv
<1> QED
  BY <1>7, <1>11, <1>12

\* The first command of the connection c is taken.
Taken(c) == commands[c] # <<>> /\ commands' = [commands EXCEPT ![c] = Tail(@)]

LEMMA CommandTaken ==
    ASSUME BusTypeOK, NEW c \in Conns, Taken(c)
    PROVE  /\ commands' \in [Conns -> Seq(Command)]
           /\ \A b \in Conns : commands'[b] = IF b = c THEN Tail(commands[c]) ELSE commands[b]
           /\ \A b \in Conns : \A i \in 1..Len(commands'[b]) :
                 LET k == IF b = c THEN i + 1 ELSE i
                 IN  k \in 1..Len(commands[b]) /\ commands'[b][i] = commands[b][k]
           /\ 1 \in 1..Len(commands[c])
           /\ Head(commands[c]) = commands[c][1] /\ commands[c][1] \in Command
<1>1. PICK w : w = Tail(commands[c])
  OBVIOUS
<1>2. commands[c] \in Seq(Command) /\ commands[c] # <<>> /\ Len(commands[c]) \in Nat
  BY DEF BusTypeOK, Taken
<1>3. /\ w \in Seq(Command) /\ Len(w) = Len(commands[c]) - 1 /\ Len(commands[c]) \in Nat \ {0}
      /\ \A i \in 1..(Len(commands[c]) - 1) : w[i] = commands[c][i + 1]
      /\ Head(commands[c]) = commands[c][1] /\ Head(commands[c]) \in Command
  BY <1>1, <1>2, TailFacts
<1>4. commands' = [commands EXCEPT ![c] = w]
  BY <1>1 DEF Taken
<1>5. \A b \in Conns : commands'[b] = IF b = c THEN w ELSE commands[b]
  BY <1>4 DEF BusTypeOK
<1>6. commands' \in [Conns -> Seq(Command)]
  BY <1>3, <1>4 DEF BusTypeOK
<1>7. \A i \in 1..Len(w) : i + 1 \in 1..Len(commands[c]) /\ w[i] = commands[c][i + 1]
  BY <1>3
<1>8. ASSUME NEW b \in Conns, NEW i \in 1..Len(commands'[b])
      PROVE  LET k == IF b = c THEN i + 1 ELSE i
             IN  k \in 1..Len(commands[b]) /\ commands'[b][i] = commands[b][k]
  <2>1. CASE b = c
    BY <1>5, <1>7, <2>1
  <2>2. CASE b # c
    BY <1>5, <2>2
  <2> QED
    BY <2>1, <2>2
<1>9. 1 \in 1..Len(commands[c])
  BY <1>3
<1> QED
  BY <1>1, <1>3, <1>5, <1>6, <1>8, <1>9

\* A subscribe that is executed or fails is the only one of its stream; what it
\* makes of the channel, p, n and the rest see to the others.
LEMMA StreamAnswered ==
    ASSUME BusInv, NEW c \in Conns, Taken(c), NEW s \in Streams, s = commands[c][1].stream,
           NEW p \in {"live", "failed"}, UNCHANGED channelToListeners,
           \/ commands[c][1].kind = "subscribe" /\ Goes(s, p)
           \/ commands[c][1].kind = "unsubscribe" /\ UNCHANGED stream
    PROVE  /\ stream' \in [Streams -> [phase : Phases, driver : Tracked, conn : Conns \cup {NoConn}]]
           /\ \A t \in Streams : stream'[t].phase \in {"connecting", "adding"} => stream'[t].conn \in Conns
           /\ DriverOf' = DriverOf
           /\ SubscribesAreAwaited'
<1>1. /\ commands' \in [Conns -> Seq(Command)]
      /\ \A b \in Conns : \A i \in 1..Len(commands'[b]) :
            LET k == IF b = c THEN i + 1 ELSE i
            IN  k \in 1..Len(commands[b]) /\ commands'[b][i] = commands[b][k]
      /\ 1 \in 1..Len(commands[c])
  BY CommandTaken DEF BusInv
<1>2. ASSUME NEW a \in Conns, NEW b \in Conns,
             NEW i \in 1..Len(commands'[a]), NEW j \in 1..Len(commands'[b]),
             commands'[a][i].kind = "subscribe", commands'[b][j].kind = "subscribe",
             commands'[a][i].stream = commands'[b][j].stream
      PROVE  a = b /\ i = j
  <2> DEFINE k == IF a = c THEN i + 1 ELSE i
             l == IF b = c THEN j + 1 ELSE j
  <2>1. /\ k \in 1..Len(commands[a]) /\ commands'[a][i] = commands[a][k]
        /\ l \in 1..Len(commands[b]) /\ commands'[b][j] = commands[b][l]
    BY <1>1
  <2>2. a = b /\ k = l
    <3> HIDE DEF k, l
    <3> QED
      BY <1>2, <2>1 DEF BusInv, SubscribesAreAwaited
  <2> QED
    BY <2>2
<1>3. ASSUME NEW b \in Conns, NEW i \in 1..Len(commands'[b]), commands'[b][i].kind = "subscribe"
      PROVE  /\ commands'[b][i].stream \in Streams
             /\ stream[commands'[b][i].stream].phase = "subscribing"
             /\ commands[c][1].kind = "subscribe" => commands'[b][i].stream # s
  <2> DEFINE k == IF b = c THEN i + 1 ELSE i
  <2>1. k \in 1..Len(commands[b]) /\ commands'[b][i] = commands[b][k] /\ (b = c => k # 1)
    BY <1>1
  <2> HIDE DEF k
  <2>2. commands[b][k].stream \in Streams
    BY <2>1, CommandsAreOfStreams DEF Command, BusInv
  <2>3. stream[commands[b][k].stream].phase = "subscribing"
    BY <1>3, <2>1 DEF BusInv, SubscribesAreAwaited
  <2>4. ASSUME commands[c][1].kind = "subscribe", commands[b][k].stream = s PROVE FALSE
    <3>1. /\ commands[b][k].kind = "subscribe" /\ commands[c][1].kind = "subscribe"
          /\ commands[b][k].stream = commands[c][1].stream
      BY <1>3, <2>1, <2>4
    <3>2. k \in 1..Len(commands[b]) /\ 1 \in 1..Len(commands[c])
      BY <1>1, <2>1
    <3>3. b = c /\ k = 1
      BY <3>1, <3>2 DEF BusInv, SubscribesAreAwaited
    <3> QED
      BY <2>1, <3>3
  <2> QED
    BY <2>1, <2>2, <2>3, <2>4
<1>4. CASE commands[c][1].kind = "subscribe" /\ Goes(s, p)
  <2>1. PICK n \in Conns \cup {NoConn} : n = stream[s].conn
    BY DEF BusInv, BusTypeOK
  <2>2. p \in Phases /\ BusTypeOK
    BY DEF Phases, BusInv
  <2>3. /\ stream' \in [Streams -> [phase : Phases, driver : Tracked, conn : Conns \cup {NoConn}]]
        /\ DriverOf' = DriverOf
        /\ \A t \in Streams : /\ stream'[t].driver = stream[t].driver
                              /\ stream'[t].phase = IF t = s THEN p ELSE stream[t].phase
                              /\ stream'[t].conn = IF t = s THEN n ELSE stream[t].conn
    BY <1>4, <2>1, <2>2, StreamGoes
  <2>4. s \in channelToListeners[stream[s].driver]
    BY <1>1, <1>4 DEF BusInv, SubscribesAreAwaited
  <2>5. \A t \in Streams : stream'[t].phase \in {"subscribing", "live", "leaving"} =>
            t \in channelToListeners'[stream'[t].driver]
    BY <2>3, <2>4 DEF BusInv, SubscribesAreAwaited
  <2>6. \A b \in Conns : \A i \in 1..Len(commands'[b]) : commands'[b][i].kind = "subscribe" =>
            stream'[commands'[b][i].stream].phase = "subscribing"
    BY <1>3, <1>4, <2>3
  <2>7. SubscribesAreAwaited'
    BY <1>2, <2>5, <2>6 DEF SubscribesAreAwaited
  <2>8. \A t \in Streams : stream'[t].phase \in {"connecting", "adding"} => stream'[t].conn \in Conns
    BY <2>1, <2>3 DEF BusInv, BusTypeOK
  <2> QED
    BY <2>3, <2>7, <2>8
<1>5. CASE commands[c][1].kind = "unsubscribe" /\ UNCHANGED stream
  <2>1. \A b \in Conns : \A i \in 1..Len(commands'[b]) : commands'[b][i].kind = "subscribe" =>
            stream'[commands'[b][i].stream].phase = "subscribing"
    BY <1>3, <1>5
  <2>2. SubscribesAreAwaited'
    BY <1>2, <1>5, <2>1 DEF BusInv, SubscribesAreAwaited
  <2>3. DriverOf' = DriverOf
    BY <1>5 DEF DriverOf
  <2> QED
    BY <1>5, <2>2, <2>3 DEF BusInv, BusTypeOK
<1> QED
  BY <1>4, <1>5
LEMMA RedisAnswers ==
    ASSUME BusInv, NEW c \in Conns, Execute(c) \/ SubscribeFails(c)
    PROVE  BusInv'
<1>1. Taken(c) /\ UNCHANGED <<subscriberInstance, channelToListeners>>
  BY DEF Taken, Execute, SubscribeFails
<1>2. /\ commands' \in [Conns -> Seq(Command)]
      /\ \A b \in Conns : commands'[b] = IF b = c THEN Tail(commands[c]) ELSE commands[b]
      /\ Head(commands[c]) = commands[c][1] /\ commands[c][1] \in Command
  BY <1>1, CommandTaken DEF BusInv
<1>3. PICK s \in Streams : s = commands[c][1].stream
  BY <1>2 DEF Command
<1>4. PICK d \in Tracked : d = stream[s].driver /\ d = DriverOf[s]
  BY <1>3 DEF BusInv, BusTypeOK, DriverOf
<1>5. PICK p \in {"live", "failed"} :
          \/ commands[c][1].kind = "subscribe" /\ Goes(s, p)
          \/ commands[c][1].kind = "unsubscribe" /\ UNCHANGED stream
  BY <1>2, <1>3 DEF Execute, SubscribeFails
<1>6. /\ stream' \in [Streams -> [phase : Phases, driver : Tracked, conn : Conns \cup {NoConn}]]
      /\ \A t \in Streams : stream'[t].phase \in {"connecting", "adding"} => stream'[t].conn \in Conns
      /\ DriverOf' = DriverOf
      /\ SubscribesAreAwaited'
  BY <1>1, <1>3, <1>5, StreamAnswered
<1>7. \A e, f : Is(commands[c][1], e, f, DriverOf) <=> commands[c][1].kind = e /\ f = d
  BY <1>3, <1>4 DEF Is
<1>8. /\ subscribed' \in [Conns -> SUBSET Tracked]
      /\ unheard \subseteq unheard' /\ unheard' \subseteq Tracked
      /\ \A b \in Conns \ {c} : subscribed'[b] = subscribed[b]
      /\ \A e \in Tracked \ unheard' :
            /\ Is(commands[c][1], "subscribe", e, DriverOf) => e \in subscribed'[c]
            /\ e \in subscribed[c] /\ ~Is(commands[c][1], "unsubscribe", e, DriverOf) =>
                  e \in subscribed'[c]
  <2>1. CASE Execute(c)
    <3>1. /\ UNCHANGED unheard
          /\ \/ /\ commands[c][1].kind = "subscribe"
                /\ subscribed' = [subscribed EXCEPT ![c] = @ \cup {d}]
             \/ /\ commands[c][1].kind = "unsubscribe"
                /\ subscribed' = [subscribed EXCEPT ![c] = @ \ {d}]
      BY <1>2, <1>3, <1>4, <2>1 DEF Execute, Channel
    <3> QED
      BY <1>7, <3>1 DEF BusInv, BusTypeOK
  <2>2. CASE SubscribeFails(c)
    <3>1. UNCHANGED subscribed /\ unheard' = unheard \cup {d}
      BY <1>2, <1>3, <1>4, <2>2 DEF SubscribeFails, Channel
    <3> QED
      BY <1>7, <3>1 DEF BusInv, BusTypeOK
  <2> QED
    BY <2>1, <2>2
<1>9. ASSUME NEW e \in Tracked, channelToListeners[e] # {}, e \notin unheard'
      PROVE  \E b \in Conns : WillHave(commands'[b], e, e \in subscribed'[b], DriverOf)
  <2>1. PICK b \in Conns : WillHave(commands[b], e, e \in subscribed[b], DriverOf)
    BY <1>8, <1>9 DEF BusInv, IsWanted
  <2>2. CASE b # c
    <3>1. commands'[b] = commands[b] /\ subscribed'[b] = subscribed[b]
      BY <1>2, <1>8, <2>2
    <3> QED
      BY <2>1, <3>1
  <2>3. CASE b = c
    <3> DEFINE has == e \in subscribed[c]
               now == e \in subscribed'[c]
    <3>1. has \in BOOLEAN /\ now \in BOOLEAN
      OBVIOUS
    <3>2. /\ commands[c] \in Seq(Command) /\ commands[c] # <<>>
          /\ WillHave(commands[c], e, has, DriverOf)
      BY <1>1, <2>1, <2>3 DEF Taken, BusInv, BusTypeOK
    <3>3. /\ Is(commands[c][1], "subscribe", e, DriverOf) => now
          /\ has /\ ~Is(commands[c][1], "unsubscribe", e, DriverOf) => now
      BY <1>8, <1>9
    <3>4. WillHave(Tail(commands[c]), e, now, DriverOf)
      <4> HIDE DEF has, now
      <4> QED
        BY <3>1, <3>2, <3>3, ExecutedKeeps
    <3> QED
      BY <1>2, <3>4
  <2> QED
    BY <2>2, <2>3
<1>10. IsWanted'
  BY <1>1, <1>6, <1>9 DEF IsWanted
<1>11. BusTypeOK'
  BY <1>1, <1>2, <1>6, <1>8 DEF BusInv, BusTypeOK
<1> QED
  BY <1>6, <1>10, <1>11 DEF BusInv

LEMMA BusStep == BusInv /\ [BusNext]_busVars => BusInv'
<1> SUFFICES ASSUME BusInv, [BusNext]_busVars PROVE BusInv'
  OBVIOUS
<1>1. CASE UNCHANGED busVars
  <2>1. /\ UNCHANGED <<stream, subscriberInstance, commands, subscribed, channelToListeners, unheard>>
    BY <1>1 DEF busVars
  <2>2. BusTypeOK' /\ SubscribesAreAwaited'
    BY <2>1 DEF BusInv, BusTypeOK, SubscribesAreAwaited
  <2>3. DriverOf' = DriverOf
    BY <2>1 DEF DriverOf
  <2>4. IsWanted'
    BY <2>1, <2>3 DEF BusInv, IsWanted
  <2> QED
    BY <2>2, <2>4 DEF BusInv
<1>2. CASE BusNext
  BY <1>2, StreamConnects, StreamSubscribes, StreamUnsubscribes, RedisAnswers DEF BusNext
<1> QED
  BY <1>1, <1>2

\* A live stream hears its driver, unless a subscribe for the driver is on its way or
\* has failed once: whatever streams open and close, and whichever connections to
\* Redis their calls were given.
THEOREM LiveStreamsHear == BusSpec => []LiveIsHeard
<1>1. BusInv => LiveIsHeard
  <2> SUFFICES ASSUME BusInv, NEW s \in Streams, stream[s].phase = "live",
                      Channel(s) \notin unheard
               PROVE  Hears(s) \/ Asked(Channel(s))
    BY DEF LiveIsHeard
  <2>1. PICK d \in Tracked : d = stream[s].driver /\ d = Channel(s)
    BY DEF BusInv, BusTypeOK, Channel
  <2>2. s \in channelToListeners[d]
    BY <2>1 DEF BusInv, SubscribesAreAwaited
  <2>3. PICK c \in Conns : WillHave(commands[c], d, d \in subscribed[c], DriverOf)
    BY <2>1, <2>2 DEF BusInv, IsWanted
  <2>4. CASE d \in subscribed[c]
    BY <2>1, <2>2, <2>4 DEF Hears
  <2>5. ASSUME NEW i \in 1..Len(commands[c]), Is(commands[c][i], "subscribe", d, DriverOf)
        PROVE  Asked(d)
    <3>1. commands[c][i].kind = "subscribe" /\ commands[c][i].stream \in Streams
      BY <2>5, CommandsAreOfStreams DEF Is, Command, BusInv
    <3>2. Channel(commands[c][i].stream) = d
      BY <2>5, <3>1 DEF Is, DriverOf, Channel
    <3>3. i \in DOMAIN commands[c]
      BY DEF BusInv, BusTypeOK
    <3> QED
      BY <3>1, <3>2, <3>3 DEF Asked
  <2> QED
    BY <2>1, <2>3, <2>4, <2>5 DEF WillHave
<1> QED
  BY <1>1, BusStarts, BusStep, PTL DEF BusSpec

=============================================================================
