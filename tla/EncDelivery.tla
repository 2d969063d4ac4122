---------------------------- MODULE EncDelivery ----------------------------
(***************************************************************************)
(* Delivery to IC-ENC: the send job on the Worker (UploadSingularProductJob*)
(* and IcEncDeliveryRepository), and what reaches the API afterwards: the  *)
(* operator's reconciliation of an uncertain transfer and IC-ENC's notice. *)
(***************************************************************************)
EXTENDS EncState

\* Mutant of PauseCloses: the send job does not look at the pause.
PauseClosesNever == FALSE

\* ReserveAsync looks for the pause of an active package only.
PauseCloses == paused /\ pkg # 0

\* ReserveAsync takes no Product lock: the track row in a serializable
\* transaction decides.  Nothing happens to a job whose candidate it refuses.
Reserve(m) ==
    \E d \in Deliveries, i \in CandidateRevision(m) :
        /\ LaneFree
        /\ delivery[d] = NoDelivery
        /\ ~PauseCloses
        /\ m \notin hold
        /\ state[m] = "Ready"
        /\ ~Submitted(m, i)
        /\ delivery' = [delivery EXCEPT ![d] =
                           [track |-> m, rev |-> i, status |-> "Sending"]]
        /\ SetState(m, "InTransit")
        /\ upload' = d
        /\ UNCHANGED <<packageVars, jobVars, operatorVars, catalogueVars, fin>>

\* MarkDeliveredAsync or MarkUncertainAsync after the upload; event
\* "statement": the outcome cannot be stored, and the row stays Sending.
FinishUpload ==
    /\ upload # None
    /\ \/ \E s \in {"Delivered", "Uncertain"} :
            delivery' = [delivery EXCEPT ![upload].status = s]
       \/ "statement" \in Events /\ UNCHANGED delivery
    /\ upload' = None
    /\ UNCHANGED <<trackVars, packageVars, jobVars, operatorVars, catalogueVars, fin>>

\* ReconcileAsync: the operator has looked at IC-ENC's intake.
Reconcile(d) ==
    LET m == delivery[d].track IN
    /\ delivery[d].status = "Uncertain"
    /\ state[m] = "InTransit" /\ cand[m] # 0
    /\ \E received \in BOOLEAN :
        /\ delivery' = [delivery EXCEPT ![d].status =
                           IF received THEN "Delivered" ELSE "NotDelivered"]
        /\ SetState(m, IF received THEN "InTransit" ELSE "Ready")
    /\ UNCHANGED <<packageVars, jobVars, rest>>

\* The delivery a notice names was received, is of an active package, and
\* carried the current candidate's latest revision.
Answerable(d) ==
    LET m == delivery[d].track IN
    /\ delivery[d].status = "Delivered"
    /\ pkg # 0
    /\ rev[m][delivery[d].rev].ver = cand[m]
    /\ delivery[d].rev = Len(rev[m])
    /\ state[m] = "InTransit"

\* RecordAsync for a notice that names delivery d; a notice that is repeated
\* or refused changes nothing.
Acknowledge(d) ==
    /\ Answerable(d)
    /\ \E decision \in {"Accepted", "Rejected"} :
        /\ delivery' = [delivery EXCEPT ![d].status = decision]
        /\ SetState(delivery[d].track, decision)
    /\ UNCHANGED <<packageVars, jobVars, rest>>

Delivering ==
    \/ \E m \in Members : Reserve(m)
    \/ FinishUpload
    \/ \E d \in Deliveries : Reconcile(d) \/ Acknowledge(d)
=============================================================================
