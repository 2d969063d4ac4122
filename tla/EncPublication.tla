--------------------------- MODULE EncPublication ---------------------------
(***************************************************************************)
(* Publication of an accepted package, first in the S-128 catalogue and    *)
(* then in the System database.  The finalizer is a Worker job, queued     *)
(* when the second acceptance is recorded, and the first part of every     *)
(* change scan (FinalizePendingAsync).                                     *)
(***************************************************************************)
EXTENDS EncState

finRest == <<trackVars, delivery, jobVars, operatorVars, upload>>

\* GetPendingAsync, and GetPublicationAsync's join.
Publishable == pkg # 0 /\ \A m \in Members : AcceptedLatest(m)

\* Mutant of ReadPublication: SQL is completed before S-128 is written.
ReadSqlFirst ==
    /\ LaneFree
    /\ Publishable
    /\ \A m \in Members : Cardinality({d \in DeliveriesOf(m) : AcceptedBy(m, d)}) = 1
    /\ fin' = [pkg |-> pkg, ver |-> cand, step |-> "complete"]
    /\ UNCHANGED <<finRest, packageVars, catalogueVars>>

\* GetPublicationAsync: the versions to publish are read without locks, one
\* accepted delivery per member.
ReadPublication ==
    /\ LaneFree
    /\ Publishable
    /\ \A m \in Members : Cardinality({d \in DeliveriesOf(m) : AcceptedBy(m, d)}) = 1
    /\ fin' = [pkg |-> pkg, ver |-> cand, step |-> "publish"]
    /\ UNCHANGED <<finRest, packageVars, catalogueVars>>

\* Mutant of AlreadyAttached: a retry writes S-128 again.
AttachedNever == FALSE

AlreadyAttached == fin.pkg \in attached

\* S-128 either holds this package's attachment with its two versions, or two
\* older versions.
Catalogue ==
    IF AlreadyAttached THEN s128 = fin.ver ELSE \A m \in Members : s128[m] < fin.ver[m]

\* Mutant of PublishS128: the row of one product is not found, and the edit
\* session is saved all the same.
PublishFound ==
    /\ fin.step = "publish"
    /\ IF Catalogue
       THEN /\ s128' \in {fin.ver, [s128 EXCEPT !["S101"] = fin.ver["S101"]]}
            /\ attached' = attached \cup {fin.pkg}
            /\ fin' = [fin EXCEPT !.step = "complete"]
       ELSE fin' = NoPublication /\ UNCHANGED catalogueVars
    /\ UNCHANGED <<finRest, packageVars>>

\* PublishAcceptedEncPackageAsync: one edit session writes both products and
\* the attachment; a retry that finds the attachment only compares versions.
\* A catalogue that has moved on its own stops publication.
PublishS128 ==
    /\ fin.step = "publish"
    /\ IF Catalogue
       THEN /\ s128' = fin.ver
            /\ attached' = attached \cup {fin.pkg}
            /\ fin' = [fin EXCEPT !.step = "complete"]
       ELSE fin' = NoPublication /\ UNCHANGED catalogueVars
    /\ UNCHANGED <<finRest, packageVars>>

\* CompleteAsync, one transaction: both tracks are published and the package
\* row goes; nothing happens if the package is gone; a member that is not the
\* accepted version any more rolls everything back.
Complete ==
    /\ fin.step = "complete"
    /\ IF pkg = fin.pkg /\ \A m \in Members : AcceptedLatest(m) /\ cand[m] = fin.ver[m]
       THEN /\ pub' = fin.ver
            /\ state' = [m \in Members |-> "Idle"]
            /\ prev' = [m \in Members |-> None]
            /\ cand' = [m \in Members |-> 0]
            /\ pkg' = 0 /\ replay' = TRUE
            /\ UNCHANGED <<rev, pkgs>>
       ELSE UNCHANGED <<trackVars, packageVars>>
    /\ fin' = NoPublication
    /\ UNCHANGED <<delivery, jobVars, operatorVars, upload, catalogueVars>>

Finalizing == ReadPublication \/ PublishS128 \/ Complete
=============================================================================
