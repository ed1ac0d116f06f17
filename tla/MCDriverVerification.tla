------------------------ MODULE MCDriverVerification ------------------------
(***************************************************************************)
(* Three instances in one run: handlers one after the other with two       *)
(* requests and a handler that dies; the same with one request and the     *)
(* older administration's update between any two steps; and handlers that  *)
(* overlap, with one request whose photos are not replaced.                *)
(***************************************************************************)
EXTENDS DriverVerification

VARIABLE part

mcvars == <<vvars, part>>

MCInit == VInit /\ part \in {"serial", "update", "overlap"}

InProgress == {c \in VCalls : handler'[c] # VIdle}

Updates == \E status \in DocStatus : UpdateDriverVerification(status)

\* Bounds of the model.
MCNext ==
    /\ VNext
    /\ part' = part
    /\ part # "overlap" => Cardinality(InProgress) <= 1
    /\ part # "serial" => Cardinality({r \in Ids : request'[r] # "NONE"}) <= 1
    /\ part = "overlap" => /\ vfaults' = 0
                           /\ \A c \in VCalls : handler'[c].step # "photoClear"
    /\ part # "update" => CheckExpiredDocuments \/ ~Updates

MCSpec == MCInit /\ [][MCNext]_mcvars /\ VFairness
=============================================================================
