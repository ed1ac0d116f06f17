------------------------------ MODULE AuditLog ------------------------------
(***************************************************************************)
(* The audit log of the admin portal: an entry is written after the action *)
(* it is about has been answered, kept for the retention period, and moved *)
(* to a file by the daily job or an administrator's request, which may     *)
(* overlap.                                                                *)
(***************************************************************************)
EXTENDS Naturals, FiniteSets

CONSTANTS
    Entries,
    Archivals,      \* runs of the job, and requests, that may be in progress
    RetentionDays,
    MaxDay,         \* bound on the days that pass
    MaxAuditFaults  \* bound on writes and uploads that fail, and jobs that die

ASSUME RetentionAssumption == RetentionDays \in Nat \ {0}
ASSUME AuditBoundsAssumption == MaxDay \in Nat /\ MaxAuditFaults \in Nat

VARIABLES
    entry,      \* entry[e]: "none", "inMemory", "row", "deleted" or "lost"
    timestamp,  \* timestamp[e]: the day e was written
    archival,   \* archival[a]: [step, cutoff, found]
    files,      \* the archived files, each the set of its entries
    today,
    auditFaults

auditVars == <<entry, timestamp, archival, files, today, auditFaults>>

NoArchival == [step |-> "idle", cutoff |-> 0, found |-> {}]

AuditInit ==
    /\ entry = [e \in Entries |-> "none"]
    /\ timestamp = [e \in Entries |-> 0]
    /\ archival = [a \in Archivals |-> NoArchival]
    /\ files = {}
    /\ today = 0
    /\ auditFaults = 0

AuditFault ==
    /\ auditFaults < MaxAuditFaults
    /\ auditFaults' = auditFaults + 1

-----------------------------------------------------------------------------
(* Writing.                                                                *)

\* The interceptor, after a successful response; not awaited.
Intercept(e) ==
    /\ entry[e] = "none"
    /\ entry' = [entry EXCEPT ![e] = "inMemory"]
    /\ UNCHANGED <<timestamp, archival, files, today, auditFaults>>

LogEntry(e) ==
    /\ entry[e] = "inMemory"
    /\ entry' = [entry EXCEPT ![e] = "row"]
    /\ timestamp' = [timestamp EXCEPT ![e] = today]
    /\ UNCHANGED <<archival, files, today, auditFaults>>

\* A failed write goes to the console.
LoseEntry(e) ==
    /\ entry[e] = "inMemory" /\ AuditFault
    /\ entry' = [entry EXCEPT ![e] = "lost"]
    /\ UNCHANGED <<timestamp, archival, files, today>>

-----------------------------------------------------------------------------
(* Archiving.                                                              *)

Before(cutoff) == {e \in Entries : entry[e] = "row" /\ timestamp[e] < cutoff}

\* Nothing to archive ends the call.
ArchiveBefore(a, cutoff) ==
    /\ archival[a] = NoArchival
    /\ Before(cutoff) # {}
    /\ archival' = [archival EXCEPT ![a] =
                       [step |-> "found", cutoff |-> cutoff, found |-> Before(cutoff)]]
    /\ UNCHANGED <<entry, timestamp, files, today, auditFaults>>

ArchiveOldLogs(a) == today >= RetentionDays /\ ArchiveBefore(a, today - RetentionDays)

\* Any day may be the cutoff, also one to come.
TriggerArchival(a) == \E day \in 0..(MaxDay + 1) : ArchiveBefore(a, day)

UploadFile(a) ==
    /\ archival[a].step = "found"
    /\ files' = files \cup {archival[a].found}
    /\ archival' = [archival EXCEPT ![a].step = "stored"]
    /\ UNCHANGED <<entry, timestamp, today, auditFaults>>

\* The upload fails, or only its answer, and the call ends; or the process dies,
\* in this step or the next.
ArchivalFails(a) ==
    /\ archival[a] # NoArchival /\ AuditFault
    /\ files' \in {files, files \cup {archival[a].found}}
    /\ archival' = [archival EXCEPT ![a] = NoArchival]
    /\ UNCHANGED <<entry, timestamp, today>>

\* Mutant: what is older than the cutoff is deleted.
MovedByAge(a) == Before(archival[a].cutoff)

\* What was found is deleted, by id.
Moved(a) == archival[a].found

DeleteArchived(a) ==
    /\ archival[a].step = "stored"
    /\ entry' = [e \in Entries |-> IF e \in Moved(a) THEN "deleted" ELSE entry[e]]
    /\ archival' = [archival EXCEPT ![a] = NoArchival]
    /\ UNCHANGED <<timestamp, files, today, auditFaults>>

NextDay ==
    /\ today < MaxDay
    /\ today' = today + 1
    /\ UNCHANGED <<entry, timestamp, archival, files, auditFaults>>

-----------------------------------------------------------------------------
AuditNext ==
    \/ \E e \in Entries : Intercept(e) \/ LogEntry(e) \/ LoseEntry(e)
    \/ \E a \in Archivals :
          \/ ArchiveOldLogs(a) \/ TriggerArchival(a)
          \/ UploadFile(a) \/ ArchivalFails(a) \/ DeleteArchived(a)
    \/ NextDay

AuditSpec == AuditInit /\ [][AuditNext]_auditVars

-----------------------------------------------------------------------------
\* "Archives logs", then "Deletes archived logs from the database": however the
\* daily job, requests and new entries overlap, and wherever one of them fails,
\* an entry that has left the table is in a file.
NoEntryIsLost == \A e \in Entries : entry[e] = "deleted" => \E f \in files : e \in f
=============================================================================
