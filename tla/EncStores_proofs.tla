-------------------------- MODULE EncStores_proofs --------------------------
(***************************************************************************)
(* Type correctness of the ENC package model, and the two stores of a      *)
(* publication, for every set of deliveries, every bound and every choice  *)
(* of events: S-128 and the System database agree up to the accepted       *)
(* candidates of the active package, and together they implement           *)
(* PairPublication.                                                        *)
(***************************************************************************)
EXTENDS EncPackage, TLAPS

-----------------------------------------------------------------------------
(* Types. *)

\* The send job works on the delivery it has reserved: the only fact about
\* values that type correctness needs, since only a reserved row may be marked.
Uploading == upload # None => delivery[upload].status = "Sending"

Typed == TypeOK /\ Uploading

LEMMA TypedInit == Init => Typed
<1> SUFFICES ASSUME Init PROVE Typed
  OBVIOUS
<1> USE DEF Init, Members, None
<1>1. state \in [Members -> States] /\ seen \in [Members -> States]
  BY DEF States
<1>2. rev \in [Members -> Seq([ver : Nat, pkg : Nat])]
  OBVIOUS
<1>3. delivery \in [Deliveries -> Delivery \cup {NoDelivery}]
  OBVIOUS
<1>4. fin \in Publication
  BY DEF NoPublication, Publication
<1>5. prev \in [Members -> States \cup {None}]
  OBVIOUS
<1>6. paused \in BOOLEAN /\ replay \in BOOLEAN
  OBVIOUS
<1>7. TypeOK
  BY <1>1, <1>2, <1>3, <1>4, <1>5, <1>6 DEF TypeOK, Steps
<1> QED
  BY <1>7 DEF Typed, Uploading

\* The rows of the two tracks.
TypedTracks ==
    /\ state \in [Members -> States]
    /\ prev \in [Members -> States \cup {None}]
    /\ cand \in [Members -> Nat]
    /\ pub \in [Members -> Nat]
    /\ rev \in [Members -> Seq([ver : Nat, pkg : Nat])]

\* Giving up candidates leaves well-formed tracks.
LEMMA RestoredTyped ==
    ASSUME TypeOK, NEW M, Restore(M)
    PROVE  TypedTracks'
  BY DEF TypeOK, Restore, RestoredState, TypedTracks, States, None

\* A step of a scan or a build that changes tracks, package rows and its own
\* place, and nothing else, is well-typed when what it writes is.
LEMMA TypedStep ==
    ASSUME Typed, TypedTracks', pc' \in Steps, replay' \in BOOLEAN,
           pkg' \in Nat, pkgs' \in Nat, pkg' <= pkgs',
           mode' \in {"none", "scan", "manual", "product"}, base' \in Nat,
           turn' \in Members, seen' \in [Members -> States],
           UNCHANGED <<delivery, rest>>
    PROVE  Typed'
  BY DEF Typed, TypeOK, TypedTracks, Uploading, rest, operatorVars, catalogueVars

\* Where a job may go: on with the same member, on to the other, or away.
LEMMA TypedPlace ==
    ASSUME TypeOK,
           NEW p \in Steps, NEW q \in Steps,
           Goto(p) \/ Advance(p, q) \/ Stop
    PROVE  /\ pc' \in Steps /\ mode' \in {"none", "scan", "manual", "product"}
           /\ base' \in Nat /\ turn' \in Members /\ seen' \in [Members -> States]
<1> USE DEF TypeOK
<1>1. CASE Goto(p)
  BY <1>1 DEF Goto
<1>2. CASE Advance(p, q)
  BY <1>2 DEF Advance, Other, Members
<1>3. CASE Stop
  BY <1>3 DEF Stop, Steps, Members, States
<1> QED
  BY <1>1, <1>2, <1>3

\* A track that only changes its state.
LEMMA TypedSetState ==
    ASSUME TypeOK, NEW m \in Members, NEW s \in States, SetState(m, s)
    PROVE  TypedTracks'
  BY DEF TypeOK, SetState, TypedTracks

LEMMA TypedReport == ASSUME Typed, ReportFailure PROVE Typed'
<1> USE DEF Typed
<1>1. turn \in Members /\ seen[turn] \in States
  BY DEF TypeOK
<1>2. ReportedState(turn) \in States
  BY <1>1 DEF ReportedState, States
<1>3. TypedTracks'
  BY <1>1, <1>2, TypedSetState DEF ReportFailure
<1>4. Advance("failing", "idle") \/ Stop
  BY DEF ReportFailure
<1>5. "failing" \in Steps /\ "idle" \in Steps
  BY DEF Steps
<1>6. UNCHANGED <<delivery, packageVars, rest>>
  BY DEF ReportFailure
<1>7. /\ pc' \in Steps /\ mode' \in {"none", "scan", "manual", "product"}
      /\ base' \in Nat /\ turn' \in Members /\ seen' \in [Members -> States]
  BY <1>4, <1>5, TypedPlace
<1>8. /\ replay' \in BOOLEAN /\ pkg' \in Nat /\ pkgs' \in Nat /\ pkg' <= pkgs'
  BY <1>6 DEF packageVars, TypeOK
<1> QED
  BY <1>3, <1>6, <1>7, <1>8, TypedStep

LEMMA TypedRefresh ==
    ASSUME Typed, RefreshDiscard, pkg = base, PairDiscardable(TRUE) PROVE Typed'
<1> USE DEF Typed
<1>1. TypedTracks'
  BY RestoredTyped DEF RefreshDiscard
<1>2. /\ replay' = TRUE /\ pkg' = 0 /\ UNCHANGED <<pkgs, delivery, rest>>
      /\ Goto("create") \/ Goto("done")
  BY DEF RefreshDiscard
<1>3. "create" \in Steps /\ "done" \in Steps
  BY DEF Steps
<1>4. /\ pc' \in Steps /\ mode' \in {"none", "scan", "manual", "product"}
      /\ base' \in Nat /\ turn' \in Members /\ seen' \in [Members -> States]
  BY <1>2, <1>3, TypedPlace
<1>5. replay' \in BOOLEAN /\ pkg' \in Nat /\ pkgs' \in Nat /\ pkg' <= pkgs'
  BY <1>2 DEF TypeOK
<1> QED
  BY <1>1, <1>2, <1>4, <1>5, TypedStep

LEMMA TypedScan == ASSUME Typed, Scan PROVE Typed'
<1> USE BoundAssumption
    DEF Typed, TypeOK, Uploading, Goto, Advance, Other, Stop, Defer, Members,
        States, Steps, None,
        trackVars, packageVars, jobVars, operatorVars, catalogueVars, rest
<1>1. CASE ScanStart
  BY <1>1 DEF ScanStart
<1>2. CASE ScanLock
  BY <1>2 DEF ScanLock
<1>3. CASE RecoverCheck
  BY <1>3 DEF RecoverCheck
<1>4. CASE RecoverMember
  BY <1>4 DEF RecoverMember, SetState
<1>5. CASE QueueMissing
  <2>1. CASE pkg = base /\ PairDiscardable(TRUE)
    <3>1. state' \in [Members -> States]
      BY <1>5, <2>1 DEF QueueMissing
    <3>2. prev' \in [Members -> States \cup {None}]
      BY <1>5, <2>1 DEF QueueMissing
    <3> QED
      BY <1>5, <2>1, <3>1, <3>2 DEF QueueMissing
  <2>2. CASE ~(pkg = base /\ PairDiscardable(TRUE))
    <3>1. Defer /\ UNCHANGED <<delivery, rest>>
      BY <1>5, <2>2 DEF QueueMissing
    <3>2. replay' \in BOOLEAN
      BY <3>1
    <3> QED
      BY <3>1, <3>2
  <2> QED
    BY <2>1, <2>2
<1>6. CASE Inspect
  BY <1>6 DEF Inspect
<1>7. CASE ReadTracks
  <2>1. CASE UNCHANGED <<delivery, rest>> /\ Defer
    BY <1>7, <2>1
  <2>2. CASE /\ UNCHANGED <<delivery, rest>>
             /\ seen' = state /\ pc' = "snapshot"
             /\ UNCHANGED <<mode, base, turn, trackVars, packageVars>>
    BY <1>7, <2>2
  <2> QED
    BY <1>7, <2>1, <2>2 DEF ReadTracks
<1>8. CASE ManualStart
  BY <1>8 DEF ManualStart
<1>9. CASE SnapshotFails
  BY <1>9 DEF SnapshotFails
<1>10. CASE ReportFailure
  BY <1>10, TypedReport
<1>11. CASE SnapshotIrrelevant
  BY <1>11 DEF SnapshotIrrelevant
<1>12. CASE RefreshDiscard
  <2>1. CASE pkg = base /\ PairDiscardable(TRUE)
    BY <1>12, <2>1, TypedRefresh
  <2>2. CASE ~(pkg = base /\ PairDiscardable(TRUE))
    <3>1. Defer /\ UNCHANGED <<delivery, rest>>
      BY <1>12, <2>2 DEF RefreshDiscard
    <3>2. replay' \in BOOLEAN
      BY <3>1
    <3> QED
      BY <3>1, <3>2
  <2> QED
    BY <2>1, <2>2
<1>13. CASE SnapshotTaken
  BY <1>13 DEF SnapshotTaken
<1>14. CASE AcknowledgeFailure
  BY <1>14 DEF AcknowledgeFailure, Restore, RestoredState
<1>15. CASE CreatePending
  BY <1>15 DEF CreatePending
<1>16. CASE ScanDone
  BY <1>16 DEF ScanDone
<1> QED
  BY <1>1, <1>2, <1>3, <1>4, <1>5, <1>6, <1>7, <1>8, <1>9, <1>10, <1>11, <1>12,
     <1>13, <1>14, <1>15, <1>16 DEF Scan

LEMMA TypedFailure == ASSUME Typed, RecordFailure PROVE Typed'
<1> USE DEF Typed
<1>1. turn \in Members /\ "Error" \in States
  BY DEF TypeOK, States
<1>2. SetState(turn, "Error") \/ UNCHANGED trackVars
  BY DEF RecordFailure
<1>3. TypedTracks'
  <2>1. CASE SetState(turn, "Error")
    BY <1>1, <2>1, TypedSetState
  <2>2. CASE UNCHANGED trackVars
    BY <2>2 DEF trackVars, TypeOK, TypedTracks
  <2> QED
    BY <1>2, <2>1, <2>2
<1>4. Advance("member", "done") \/ Stop
  BY DEF RecordFailure, ExportEnds
<1>5. "member" \in Steps /\ "done" \in Steps
  BY DEF Steps
<1>6. UNCHANGED <<delivery, packageVars, rest>>
  BY DEF RecordFailure
<1>7. /\ pc' \in Steps /\ mode' \in {"none", "scan", "manual", "product"}
      /\ base' \in Nat /\ turn' \in Members /\ seen' \in [Members -> States]
  BY <1>4, <1>5, TypedPlace
<1>8. replay' \in BOOLEAN /\ pkg' \in Nat /\ pkgs' \in Nat /\ pkg' <= pkgs'
  BY <1>6 DEF packageVars, TypeOK
<1> QED
  BY <1>3, <1>6, <1>7, <1>8, TypedStep

LEMMA TypedExport == ASSUME Typed, Export PROVE Typed'
<1> USE BoundAssumption
    DEF Typed, TypeOK, Uploading, Goto, Advance, Other, Stop, ExportEnds, Members,
        States, Steps, None,
        trackVars, packageVars, jobVars, operatorVars, catalogueVars, rest
<1>1. CASE SkipMember
  BY <1>1 DEF SkipMember
<1>2. CASE BeginMember
  BY <1>2 DEF BeginMember, Begin, RestoredState
<1>3. CASE AddRevision
  BY <1>3 DEF AddRevision
<1>4. CASE Compile
  BY <1>4 DEF Compile, SetState
<1>5. CASE Validate
  BY <1>5 DEF Validate, SetState
<1>6. CASE ReadyUnrecorded
  BY <1>6 DEF ReadyUnrecorded, SetState
<1>7. CASE ExportFails
  BY <1>7 DEF ExportFails
<1>8. CASE RecordFailure
  BY <1>8, TypedFailure
<1>9. ASSUME NEW m \in Members, ProductExport(m) PROVE Typed'
  BY <1>9 DEF ProductExport, Begin, RestoredState
<1> QED
  BY <1>1, <1>2, <1>3, <1>4, <1>5, <1>6, <1>7, <1>8, <1>9 DEF Export

\* A row that carries a status is a delivery of one of the two members.
LEMMA Row ==
    ASSUME TypeOK, NEW d \in Deliveries, delivery[d].status \in Statuses
    PROVE  delivery[d] \in Delivery
  BY DEF TypeOK, NoDelivery, None, Statuses

\* A candidate's revision is one of its track's rows.
LEMMA CandidateRow ==
    ASSUME TypeOK, NEW m \in Members, NEW i \in CandidateRevision(m)
    PROVE  i \in Nat \ {0}
<1>1. rev[m] \in Seq([ver : Nat, pkg : Nat])
  BY DEF TypeOK
<1>2. i \in 1..Len(rev[m])
  BY <1>1 DEF CandidateRevision
<1> QED
  BY <1>1, <1>2

LEMMA TypedDelivering == ASSUME Typed, Delivering PROVE Typed'
<1> USE BoundAssumption
    DEF Typed, TypeOK, Uploading, Members, States, Statuses, None,
        trackVars, packageVars, jobVars, operatorVars, catalogueVars, rest
<1>1. ASSUME NEW m \in Members, Reserve(m) PROVE Typed'
  <2>1. PICK d \in Deliveries, i \in CandidateRevision(m) :
            /\ delivery' = [delivery EXCEPT ![d] =
                               [track |-> m, rev |-> i, status |-> "Sending"]]
            /\ upload' = d
    BY <1>1 DEF Reserve
  <2>2. i \in Nat \ {0}
    BY CandidateRow
  <2>3. delivery' \in [Deliveries -> Delivery \cup {NoDelivery}]
    BY <2>1, <2>2 DEF Delivery
  <2>4. state' \in [Members -> States]
    BY <1>1 DEF Reserve, SetState
  <2> QED
    BY <1>1, <2>1, <2>3, <2>4 DEF Reserve, SetState
<1>2. CASE FinishUpload
  <2>1. upload \in Deliveries /\ delivery[upload] \in Delivery
    BY <1>2, Row DEF FinishUpload
  <2>2. PICK s \in Statuses : delivery' = [delivery EXCEPT ![upload].status = s]
    BY <1>2, <2>1 DEF FinishUpload, Delivery
  <2>3. delivery' \in [Deliveries -> Delivery \cup {NoDelivery}]
    BY <2>1, <2>2 DEF Delivery
  <2> QED
    BY <1>2, <2>3 DEF FinishUpload
<1>3. ASSUME NEW d \in Deliveries, Reconcile(d) PROVE Typed'
  <2>1. delivery[d] \in Delivery
    BY <1>3, Row DEF Reconcile
  <2>2. PICK s \in Statuses : delivery' = [delivery EXCEPT ![d].status = s]
    BY <1>3 DEF Reconcile
  <2>3. delivery' \in [Deliveries -> Delivery \cup {NoDelivery}]
    BY <2>1, <2>2 DEF Delivery
  <2>4. upload' # None => delivery'[upload'].status = "Sending"
    BY <1>3, <2>1, <2>2 DEF Reconcile, Delivery
  <2>5. state' \in [Members -> States]
    BY <1>3, <2>1 DEF Reconcile, SetState, Delivery
  <2> QED
    BY <1>3, <2>3, <2>4, <2>5 DEF Reconcile, SetState
<1>4. ASSUME NEW d \in Deliveries, Acknowledge(d) PROVE Typed'
  <2>1. delivery[d] \in Delivery
    BY <1>4, Row DEF Acknowledge, Answerable
  <2>2. PICK s \in Statuses : delivery' = [delivery EXCEPT ![d].status = s]
    BY <1>4 DEF Acknowledge
  <2>3. delivery' \in [Deliveries -> Delivery \cup {NoDelivery}]
    BY <2>1, <2>2 DEF Delivery
  <2>4. upload' # None => delivery'[upload'].status = "Sending"
    BY <1>4, <2>1, <2>2 DEF Acknowledge, Answerable, Delivery
  <2>5. state' \in [Members -> States]
    BY <1>4, <2>1 DEF Acknowledge, SetState, Delivery
  <2> QED
    BY <1>4, <2>3, <2>4, <2>5 DEF Acknowledge, SetState
<1> QED
  BY <1>1, <1>2, <1>3, <1>4 DEF Delivering

LEMMA TypedOperating == ASSUME Typed, Operating PROVE Typed'
<1> USE BoundAssumption
    DEF Typed, TypeOK, Uploading, Members, States, None,
        trackVars, packageVars, jobVars, operatorVars, catalogueVars, rest
<1>1. CASE OperatorDiscard
  BY <1>1 DEF OperatorDiscard, Restore, RestoredState
<1>2. ASSUME NEW m \in Members, ProductDiscard(m) PROVE Typed'
  BY <1>2 DEF ProductDiscard, Restore, RestoredState
<1>3. CASE SetPaused
  BY <1>3 DEF SetPaused
<1>4. ASSUME NEW m \in Members, HoldCheck(m) PROVE Typed'
  BY <1>4 DEF HoldCheck
<1>5. CASE HoldSet
  BY <1>5 DEF HoldSet
<1>6. ASSUME NEW m \in Members, ReleaseHold(m) PROVE Typed'
  BY <1>6 DEF ReleaseHold
<1> QED
  BY <1>1, <1>2, <1>3, <1>4, <1>5, <1>6 DEF Operating

LEMMA TypedFinalizing == ASSUME Typed, Finalizing PROVE Typed'
<1> USE BoundAssumption
    DEF Typed, TypeOK, Uploading, Members, States, None, NoPublication, Publication,
        finRest, trackVars, packageVars, jobVars, operatorVars, catalogueVars
<1>1. CASE ReadPublication
  BY <1>1 DEF ReadPublication
<1>2. CASE PublishS128
  <2>1. fin.pkg \in Nat /\ fin.ver \in [Members -> Nat]
    BY DEF Publication
  <2>2. fin' \in Publication
    <3>1. [fin EXCEPT !.step = "complete"] \in Publication
      BY DEF Publication
    <3>2. NoPublication \in Publication
      BY DEF Publication, NoPublication
    <3> QED
      BY <1>2, <3>1, <3>2 DEF PublishS128
  <2>3. s128' \in [Members -> Nat] /\ attached' \subseteq Nat
    BY <1>2, <2>1 DEF PublishS128
  <2> QED
    BY <1>2, <2>2, <2>3 DEF PublishS128
<1>3. CASE Complete
  <2>1. fin' \in Publication
    BY <1>3 DEF Complete, Publication, NoPublication
  <2>2. TypedTracks'
    BY <1>3 DEF Complete, TypedTracks, Publication
  <2>3. replay' \in BOOLEAN
    BY <1>3 DEF Complete
  <2>4. pkg' \in Nat /\ pkgs' \in Nat /\ pkg' <= pkgs'
    BY <1>3 DEF Complete
  <2>5. UNCHANGED <<delivery, jobVars, operatorVars, upload, catalogueVars>>
    BY <1>3 DEF Complete
  <2> QED
    BY <2>1, <2>2, <2>3, <2>4, <2>5 DEF TypedTracks
<1> QED
  BY <1>1, <1>2, <1>3 DEF Finalizing

LEMMA TypedCrash == ASSUME Typed, WorkerCrash PROVE Typed'
  BY BoundAssumption
  DEF WorkerCrash, Typed, TypeOK, Uploading, Stop, Members, States, Steps, None,
      NoPublication, Publication, trackVars, packageVars, operatorVars, catalogueVars

LEMMA TypedStutter == ASSUME Typed, UNCHANGED vars PROVE Typed'
  BY DEF vars, Typed, TypeOK, Uploading,
         trackVars, packageVars, jobVars, operatorVars, catalogueVars, rest

LEMMA AlwaysTyped == Spec => []Typed
<1>1. Typed /\ [Next]_vars => Typed'
  BY TypedScan, TypedExport, TypedDelivering, TypedOperating, TypedFinalizing,
     TypedCrash, TypedStutter DEF Next
<1> QED
  BY <1>1, TypedInit, PTL DEF Spec

\* Every row and every local variable keeps its type: no job, request or
\* failure writes a state, a status or an edition that the code does not know.
THEOREM TypeCorrect == Spec => []TypeOK
<1>1. Typed => TypeOK
  BY DEF Typed
<1> QED
  BY <1>1, AlwaysTyped, PTL

-----------------------------------------------------------------------------
(* The two stores.  StoresAgree is not inductive: what keeps an accepted   *)
(* track as it is while a publication is half done are facts about the     *)
(* single Worker lane, about the states a scan writes back after a failed  *)
(* snapshot, and about the publication the finalizer has read.  IInv       *)
(* collects them.                                                          *)

\* At most one background job is under way.
OneJob ==
    /\ pc # "idle" => upload = None /\ fin = NoPublication
    /\ upload # None => fin = NoPublication

\* A candidate is the next edition, and a track without one has neither been
\* built nor sent.
Candidates ==
    \A m \in Members :
        /\ cand[m] \in {0, pub[m] + 1}
        /\ cand[m] = 0 => state[m] \in {"Idle", "ChangesDetected", "Error"}

Unsent(m) == state[m] \notin {"InTransit", "Accepted"}

\* From the reading of the tracks to the report of a failed snapshot no member
\* is under way, and what the report writes back is what is there.
Snapshotting ==
    /\ pc \in {"snapshot", "failing"} => \A m \in Members : Unsent(m)
    /\ pc = "snapshot" => seen = state
    /\ pc = "failing" /\ base # 0 => seen = state

\* The member that is being built has a candidate and is not under way.
Building ==
    /\ pc \in {"build", "compile"} => state[turn] = "Exporting"
    /\ pc = "validate" => state[turn] = "Validating"
    /\ pc = "failed" => Unsent(turn)
    /\ pc \in {"build", "compile", "validate"} => cand[turn] # 0

Lane == OneJob /\ Candidates /\ Snapshotting /\ Building

AllAccepted == \A m \in Members : state[m] = "Accepted"

\* The publication that the finalizer has read is still the one to publish.
Finalizer ==
    /\ fin.step \in {"publish", "complete"} =>
        fin.pkg = pkg /\ pkg # 0 /\ AllAccepted /\ fin.ver = cand
    /\ fin.step = "complete" => pkg \in attached

\* S-128 shows the candidates of a package exactly when it holds the package's
\* attachment; the packages to come are not attached.
Stores ==
    /\ attached \subseteq 1..pkgs
    /\ IF pkg \in attached THEN s128 = cand /\ AllAccepted ELSE s128 = pub

Catalogued == Finalizer /\ Stores

IInv == Lane /\ Catalogued

LEMMA Initially == Init => IInv
  BY DEF Init, IInv, Lane, OneJob, Candidates, Snapshotting, Building, Catalogued,
         Finalizer, Stores, NoPublication, None

-----------------------------------------------------------------------------
(* Every step keeps it. *)

\* Queueing changes only members that no build has touched.
LEMMA Queued ==
    ASSUME QueueMissing, pkg = base, PairDiscardable(TRUE)
    PROVE  \A m \in Members :
               state'[m] = state[m] \/ (Unstarted(m) /\ state'[m] = "ChangesDetected")
<1> SUFFICES ASSUME NEW m \in Members, state'[m] # state[m]
             PROVE  Unstarted(m) /\ state'[m] = "ChangesDetected"
  OBVIOUS
<1>1. state'[m] = IF Unstarted(m) THEN "ChangesDetected" ELSE state[m]
  BY DEF QueueMissing
<1>2. CASE Unstarted(m)
  BY <1>1, <1>2
<1>3. CASE ~Unstarted(m)
  BY <1>1, <1>3
<1> QED
  BY <1>2, <1>3

\* A step of a running job that neither takes a snapshot nor builds, and changes
\* at most the states of members that are not accepted.
LEMMA KeepsStep ==
    ASSUME Typed, IInv, pc # "idle",
           pc' \notin {"snapshot", "failing", "build", "compile", "validate", "failed"},
           UNCHANGED <<cand, pub, pkg, pkgs, s128, attached, fin, upload>>,
           \A m \in Members :
               /\ state[m] = "Accepted" => state'[m] = "Accepted"
               /\ cand[m] = 0 => state'[m] \in {"Idle", "ChangesDetected", "Error"}
    PROVE  IInv'
<1>1. Lane'
  BY DEF IInv, Lane, OneJob, Candidates, Snapshotting, Building
<1>2. Finalizer'
  BY DEF IInv, Lane, OneJob, Finalizer, NoPublication
<1>3. Stores'
  BY DEF IInv, Catalogued, Stores, AllAccepted
<1> QED
  BY <1>1, <1>2, <1>3 DEF IInv, Catalogued

LEMMA KeepsRecover == ASSUME Typed, IInv, RecoverMember PROVE IInv'
<1>1. UNCHANGED <<cand, pub, pkg, pkgs, s128, attached, fin, upload>>
  BY DEF RecoverMember, SetState, trackVars, packageVars, rest, catalogueVars
<1>2. pc = "recover" /\ pc' \in {"recover", "refresh", "idle"}
  BY DEF RecoverMember, Advance, Stop
<1>3. state' = state \/ (InBuild(turn) /\ state' = [state EXCEPT ![turn] = "Error"])
  BY DEF RecoverMember, SetState, trackVars
<1>4. \A m \in Members :
          /\ state[m] = "Accepted" => state'[m] = "Accepted"
          /\ cand[m] = 0 => state'[m] \in {"Idle", "ChangesDetected", "Error"}
  BY <1>3 DEF InBuild, IInv, Lane, Candidates, Typed, TypeOK
<1> QED
  BY <1>1, <1>2, <1>4, KeepsStep

LEMMA KeepsAcknowledge == ASSUME Typed, IInv, AcknowledgeFailure PROVE IInv'
<1>1. UNCHANGED <<pub, pkg, pkgs, s128, attached, fin, upload>>
  BY DEF AcknowledgeFailure, Restore, trackVars, packageVars, rest, catalogueVars
<1>2. pc = "acknowledge" /\ pc' \in {"acknowledge", "create", "done"}
  BY DEF AcknowledgeFailure, Advance
<1>3. CASE SnapshotFailure(turn)
  <2>1. turn \in Members /\ cand[turn] = 0 /\ state[turn] = "Error"
    BY <1>3 DEF SnapshotFailure, Typed, TypeOK
  <2>2. RestoredState(prev[turn]) \in {"Idle", "ChangesDetected"}
    BY <1>3, <2>1 DEF AcknowledgeFailure, Discardable, CanDiscard, StablePrevious,
                      RestoredState, Typed, TypeOK, States
  <2>3. cand' = cand
    BY <1>3, <2>1 DEF AcknowledgeFailure, Restore, Typed, TypeOK
  <2>4. \A m \in Members :
            state'[m] = IF m = turn THEN RestoredState(prev[m]) ELSE state[m]
    BY <1>3 DEF AcknowledgeFailure, Restore
  <2>5. \A m \in Members :
            /\ state[m] = "Accepted" => state'[m] = "Accepted"
            /\ cand[m] = 0 => state'[m] \in {"Idle", "ChangesDetected", "Error"}
    BY <2>1, <2>2, <2>4 DEF IInv, Lane, Candidates
  <2> QED
    BY <1>1, <1>2, <2>3, <2>5, KeepsStep
<1>4. CASE ~SnapshotFailure(turn)
  <2>1. state' = state /\ cand' = cand
    BY <1>4 DEF AcknowledgeFailure, trackVars
  <2>2. \A m \in Members : cand[m] = 0 => state[m] \in {"Idle", "ChangesDetected", "Error"}
    BY DEF IInv, Lane, Candidates
  <2> QED
    BY <1>1, <1>2, <2>1, <2>2, KeepsStep
<1> QED
  BY <1>3, <1>4

LEMMA KeepsScan == ASSUME Typed, IInv, Scan PROVE IInv'
<1> USE DEF Typed, TypeOK, IInv, Lane, OneJob, Candidates, Snapshotting, Building, Unsent,
            Catalogued, Finalizer, Stores, AllAccepted,
            Goto, Stop, Advance, Other, Defer, Members, States, None, NoPublication,
            trackVars, packageVars, jobVars, operatorVars, catalogueVars, rest
<1>1. CASE ScanStart
  BY <1>1 DEF ScanStart, LaneFree
<1>2. CASE ScanLock
  BY <1>2 DEF ScanLock
<1>3. CASE RecoverCheck
  BY <1>3 DEF RecoverCheck
<1>4. CASE RecoverMember
  BY <1>4, KeepsRecover
<1>5. CASE QueueMissing
  <2>1. CASE pkg = base /\ PairDiscardable(TRUE)
    <3>1. \A m \in Members :
              state'[m] = state[m] \/ (Unstarted(m) /\ state'[m] = "ChangesDetected")
      BY <1>5, <2>1, Queued
    <3>2. /\ fin.step \notin {"publish", "complete"}
          /\ AllAccepted => AllAccepted'
      BY <1>5, <3>1 DEF QueueMissing, Unstarted
    <3>3. /\ pc' = "inspect" /\ cand' = cand /\ pub' = pub
          /\ UNCHANGED <<pkg, pkgs, s128, attached, fin, upload>>
      BY <1>5, <2>1 DEF QueueMissing
    <3> QED
      BY <1>5, <3>1, <3>2, <3>3 DEF QueueMissing, Unstarted
  <2>2. CASE ~(pkg = base /\ PairDiscardable(TRUE))
    BY <1>5, <2>2 DEF QueueMissing
  <2> QED
    BY <2>1, <2>2
<1>6. CASE Inspect
  BY <1>6 DEF Inspect
<1>7. CASE ReadTracks
  BY <1>7 DEF ReadTracks, RefreshBlocked
<1>8. CASE ManualStart
  BY <1>8 DEF ManualStart, LaneFree, RefreshBlocked
<1>9. CASE SnapshotFails
  BY <1>9 DEF SnapshotFails
<1>10. CASE ReportFailure
  BY <1>10 DEF ReportFailure, SetState, ReportedState
<1>11. CASE SnapshotIrrelevant
  BY <1>11 DEF SnapshotIrrelevant
<1>12. CASE RefreshDiscard
  BY <1>12 DEF RefreshDiscard, Restore, RestoredState, PairDiscardable, CanDiscard,
          StablePrevious, Unstarted
<1>13. CASE SnapshotTaken
  BY <1>13 DEF SnapshotTaken
<1>14. CASE AcknowledgeFailure
  BY <1>14, KeepsAcknowledge
<1>15. CASE CreatePending
  BY <1>15 DEF CreatePending, CanCreate, Unstarted
<1>16. CASE ScanDone
  BY <1>16 DEF ScanDone
<1> QED
  BY <1>1, <1>2, <1>3, <1>4, <1>5, <1>6, <1>7, <1>8, <1>9, <1>10, <1>11, <1>12,
     <1>13, <1>14, <1>15, <1>16 DEF Scan

LEMMA KeepsExport == ASSUME Typed, IInv, Export PROVE IInv'
<1> USE DEF Typed, TypeOK, IInv, Lane, OneJob, Candidates, Snapshotting, Building, Unsent,
            Catalogued, Finalizer, Stores, AllAccepted,
            Goto, Stop, Advance, Other, Defer, Members, States, None, NoPublication,
            trackVars, packageVars, jobVars, operatorVars, catalogueVars, rest
<1>1. CASE SkipMember
  BY <1>1 DEF SkipMember
<1>2. CASE BeginMember
  BY <1>2 DEF BeginMember, Begin, CanBegin
<1>3. CASE AddRevision
  BY <1>3 DEF AddRevision
<1>4. CASE Compile
  BY <1>4 DEF Compile, SetState
<1>5. CASE Validate
  BY <1>5 DEF Validate, SetState, ExportEnds
<1>6. CASE ReadyUnrecorded
  BY <1>6 DEF ReadyUnrecorded, SetState
<1>7. CASE ExportFails
  BY <1>7 DEF ExportFails, Skipped
<1>8. CASE RecordFailure
  BY <1>8 DEF RecordFailure, SetState, ExportEnds
<1>9. ASSUME NEW m \in Members, ProductExport(m) PROVE IInv'
  BY <1>9 DEF ProductExport, Begin, CanBegin, LaneFree
<1> QED
  BY <1>1, <1>2, <1>3, <1>4, <1>5, <1>6, <1>7, <1>8, <1>9 DEF Export

LEMMA KeepsDelivering == ASSUME Typed, IInv, Delivering PROVE IInv'
<1> USE DEF Typed, TypeOK, IInv, Lane, OneJob, Candidates, Snapshotting, Building, Unsent,
            Catalogued, Finalizer, Stores, AllAccepted,
            Goto, Stop, Advance, Other, Defer, Members, States, None, NoPublication,
            trackVars, packageVars, jobVars, operatorVars, catalogueVars, rest
<1>1. ASSUME NEW m \in Members, Reserve(m) PROVE IInv'
  BY <1>1 DEF Reserve, LaneFree, SetState
<1>2. CASE FinishUpload
  BY <1>2 DEF FinishUpload
<1>3. ASSUME NEW d \in Deliveries, Reconcile(d) PROVE IInv'
  <2>1. delivery[d].track \in Members /\ state[delivery[d].track] = "InTransit"
    BY <1>3, Row DEF Reconcile, Statuses, Delivery
  <2>2. PICK s \in {"InTransit", "Ready"} :
            state' = [state EXCEPT ![delivery[d].track] = s]
    BY <1>3 DEF Reconcile, SetState
  <2>3. ~AllAccepted /\ cand[delivery[d].track] # 0
    BY <1>3, <2>1 DEF Reconcile
  <2>4. UNCHANGED <<cand, pub, pc, seen, turn, base, fin, upload, attached, s128, pkg, pkgs>>
    BY <1>3 DEF Reconcile, SetState
  <2>5. Lane'
    BY <2>1, <2>2, <2>3, <2>4
  <2>6. Catalogued'
    BY <2>3, <2>4
  <2> QED
    BY <2>5, <2>6
<1>4. ASSUME NEW d \in Deliveries, Acknowledge(d) PROVE IInv'
  <2>1. delivery[d].track \in Members /\ state[delivery[d].track] = "InTransit"
    BY <1>4, Row DEF Acknowledge, Answerable, Statuses, Delivery
  <2>2. PICK s \in {"Accepted", "Rejected"} :
            state' = [state EXCEPT ![delivery[d].track] = s]
    BY <1>4 DEF Acknowledge, SetState
  <2>3. ~AllAccepted
    BY <2>1
  <2>4. UNCHANGED <<cand, pub, pc, seen, turn, base, fin, upload, attached, s128, pkg, pkgs>>
    BY <1>4 DEF Acknowledge, SetState
  <2>5. Lane'
    BY <2>1, <2>2, <2>4
  <2>6. Catalogued'
    BY <2>3, <2>4
  <2> QED
    BY <2>5, <2>6
<1> QED
  BY <1>1, <1>2, <1>3, <1>4 DEF Delivering

LEMMA KeepsOperating == ASSUME Typed, IInv, Operating PROVE IInv'
<1> USE DEF Typed, TypeOK, IInv, Lane, OneJob, Candidates, Snapshotting, Building, Unsent,
            Catalogued, Finalizer, Stores, AllAccepted,
            Goto, Stop, Advance, Other, Defer, Members, States, None, NoPublication,
            trackVars, packageVars, jobVars, operatorVars, catalogueVars, rest
<1>1. CASE OperatorDiscard
  BY <1>1 DEF OperatorDiscard, LaneFree, Restore, RestoredState, PairDiscardable,
          CanDiscard, StablePrevious
<1>2. ASSUME NEW m \in Members, ProductDiscard(m) PROVE IInv'
  BY <1>2 DEF ProductDiscard, LaneFree, Discardable, CanDiscard, StablePrevious,
          Restore, RestoredState
<1>3. CASE SetPaused
  BY <1>3 DEF SetPaused
<1>4. ASSUME NEW m \in Members, HoldCheck(m) PROVE IInv'
  BY <1>4 DEF HoldCheck
<1>5. CASE HoldSet
  BY <1>5 DEF HoldSet
<1>6. ASSUME NEW m \in Members, ReleaseHold(m) PROVE IInv'
  BY <1>6 DEF ReleaseHold
<1> QED
  BY <1>1, <1>2, <1>3, <1>4, <1>5, <1>6 DEF Operating

LEMMA KeepsFinalizing == ASSUME Typed, IInv, Finalizing PROVE IInv'
<1> USE DEF Typed, TypeOK, IInv, Lane, OneJob, Candidates, Snapshotting, Building, Unsent,
            Catalogued, Finalizer, Stores, AllAccepted,
            Goto, Stop, Advance, Other, Defer, Members, States, None, NoPublication, finRest,
            trackVars, packageVars, jobVars, operatorVars, catalogueVars, rest
<1>1. CASE ReadPublication
  BY <1>1 DEF ReadPublication, LaneFree, Publishable, AcceptedLatest
<1>2. CASE PublishS128
  <2>1. fin.step = "publish" /\ fin.pkg = pkg /\ pkg # 0 /\ AllAccepted /\ fin.ver = cand
    BY <1>2 DEF PublishS128
  <2>2. Lane'
    BY <1>2, <2>1 DEF PublishS128
  <2>3. CASE Catalogue
    <3>1. /\ s128' = cand /\ attached' = attached \cup {pkg}
          /\ fin' = [fin EXCEPT !.step = "complete"]
      BY <1>2, <2>1, <2>3 DEF PublishS128
    <3>2. fin'.pkg = pkg /\ fin'.ver = cand /\ fin'.step = "complete"
      <4>1. fin \in Publication
        OBVIOUS
      <4>2. fin'.pkg = fin.pkg /\ fin'.ver = fin.ver /\ fin'.step = "complete"
        BY <3>1, <4>1 DEF Publication
      <4> QED
        BY <2>1, <4>2
    <3>3. UNCHANGED <<state, cand, pub, pkg, pkgs>>
      BY <1>2 DEF PublishS128
    <3>4. pkg \in 1..pkgs
      BY <2>1
    <3> QED
      BY <2>1, <2>2, <3>1, <3>2, <3>3, <3>4
  <2>4. CASE ~Catalogue
    BY <1>2, <2>2, <2>4 DEF PublishS128
  <2> QED
    BY <2>3, <2>4
<1>3. CASE Complete
  <2>1. pkg = fin.pkg /\ pkg # 0 /\ fin.ver = cand /\ pkg \in attached /\ s128 = cand
    BY <1>3 DEF Complete
  <2>2. /\ fin' = NoPublication
        /\ UNCHANGED <<pc, seen, turn, base, upload, attached, s128, pkgs>>
    BY <1>3 DEF Complete
  <2>3. CASE UNCHANGED <<trackVars, packageVars>>
    BY <1>3, <2>1, <2>2, <2>3 DEF Complete
  <2>4. CASE /\ pub' = fin.ver /\ pkg' = 0
             /\ state' = [m \in Members |-> "Idle"]
             /\ cand' = [m \in Members |-> 0]
    <3>1. Lane'
      BY <1>3, <2>2, <2>4 DEF Complete
    <3>2. Catalogued'
      BY <2>1, <2>2, <2>4
    <3> QED
      BY <3>1, <3>2
  <2> QED
    BY <1>3, <2>3, <2>4 DEF Complete
<1> QED
  BY <1>1, <1>2, <1>3 DEF Finalizing


LEMMA KeepsCrash == ASSUME Typed, IInv, WorkerCrash PROVE IInv'
  BY DEF WorkerCrash, Stop, Typed, TypeOK, IInv, Lane, OneJob, Candidates, Snapshotting,
         Building, Catalogued, Finalizer, Stores, AllAccepted, NoPublication, None,
         trackVars, packageVars, catalogueVars

LEMMA KeepsStutter == ASSUME IInv, UNCHANGED vars PROVE IInv'
  BY DEF vars, trackVars, packageVars, jobVars, catalogueVars, rest, IInv, Lane, OneJob,
         Candidates, Snapshotting, Building, Unsent, Catalogued, Finalizer, Stores, AllAccepted

LEMMA Always == Spec => [](Typed /\ IInv)
<1>1. Typed /\ IInv /\ [Next]_vars => IInv'
  BY KeepsScan, KeepsExport, KeepsDelivering, KeepsOperating, KeepsFinalizing,
     KeepsCrash, KeepsStutter DEF Next
<1> QED
  BY <1>1, Initially, AlwaysTyped, PTL DEF Spec

-----------------------------------------------------------------------------

\* S-128 runs ahead of SQL only for the accepted candidates of the active
\* package, whenever the Worker dies and whatever the API does meanwhile.
THEOREM StoresNeverDiverge == Spec => []StoresAgree
<1>1. Typed /\ IInv => StoresAgree
  BY DEF IInv, Catalogued, Stores, AllAccepted, StoresAgree
<1> QED
  BY <1>1, Always, PTL

\* A step of the model is a step of PairPublication or leaves both stores alone.
LEMMA PairStep ==
    ASSUME Typed, IInv, [Next]_vars
    PROVE  [Pair!Next]_<<s128, pub>>
<1>1. CASE PublishS128
  <2>1. fin.pkg = pkg /\ AllAccepted /\ fin.ver = cand
    BY <1>1 DEF PublishS128, IInv, Catalogued, Finalizer
  <2>2. UNCHANGED pub
    BY <1>1 DEF PublishS128, finRest, trackVars
  <2>3. CASE AlreadyAttached \/ ~Catalogue
    BY <1>1, <2>1, <2>2, <2>3
    DEF PublishS128, AlreadyAttached, IInv, Catalogued, Stores, catalogueVars
  <2>4. CASE ~AlreadyAttached /\ Catalogue
    <3>1. s128 = pub
      BY <2>1, <2>4 DEF AlreadyAttached, IInv, Catalogued, Stores
    <3>2. s128' = cand /\ \A m \in Members : s128[m] < cand[m]
      BY <1>1, <2>1, <2>4 DEF PublishS128, Catalogue
    <3>3. Pair!Publish
      BY <2>2, <3>1, <3>2 DEF Pair!Publish, Typed, TypeOK
    <3> QED
      BY <3>3 DEF Pair!Next
  <2> QED
    BY <2>3, <2>4
<1>2. CASE Complete
  <2>1. UNCHANGED s128
    BY <1>2 DEF Complete, catalogueVars
  <2>2. CASE UNCHANGED trackVars
    BY <2>1, <2>2 DEF trackVars
  <2>3. CASE pub' = fin.ver
    <3>1. pub' = s128
      BY <1>2, <2>3 DEF Complete, IInv, Catalogued, Finalizer, Stores
    <3>2. pub # s128
      BY <1>2 DEF Complete, IInv, Lane, Candidates, Catalogued, Finalizer, Stores,
                  AllAccepted, Typed, TypeOK, Members
    <3>3. Pair!Record
      BY <2>1, <3>1, <3>2 DEF Pair!Record
    <3> QED
      BY <3>3 DEF Pair!Next
  <2> QED
    BY <1>2, <2>2, <2>3 DEF Complete
<1>3. ASSUME ~PublishS128, ~Complete PROVE UNCHANGED <<s128, pub>>
  <2> USE DEF trackVars, catalogueVars, rest
  <2>1. CASE Scan
    BY <2>1 DEF Scan, ScanStart, ScanLock, RecoverCheck, RecoverMember, QueueMissing,
                Inspect, ReadTracks, ManualStart, SnapshotFails, ReportFailure,
                SnapshotIrrelevant, RefreshDiscard, SnapshotTaken, AcknowledgeFailure,
                CreatePending, ScanDone, Defer, SetState, Restore
  <2>2. CASE Export
    BY <2>2 DEF Export, SkipMember, BeginMember, Begin, AddRevision, Compile, Validate,
                ReadyUnrecorded, ExportFails, RecordFailure, ProductExport, SetState
  <2>3. CASE Delivering
    BY <2>3 DEF Delivering, Reserve, FinishUpload, Reconcile, Acknowledge, SetState
  <2>4. CASE Operating
    BY <2>4 DEF Operating, OperatorDiscard, ProductDiscard, SetPaused, HoldCheck,
                HoldSet, ReleaseHold, Restore
  <2>5. CASE ReadPublication \/ WorkerCrash \/ UNCHANGED vars
    BY <2>5 DEF ReadPublication, finRest, WorkerCrash, vars
  <2> QED
    BY <1>3, <2>1, <2>2, <2>3, <2>4, <2>5 DEF Next, Finalizing
<1> QED
  BY <1>1, <1>2, <1>3

\* The System database and the S-128 catalogue implement PairPublication: both
\* products are published together, forwards, and the catalogue is never more
\* than one publication ahead.
THEOREM ImplementsPair == Spec => PublishedAsPair
<1>1. Init => Pair!Init
  BY DEF Init, Pair!Init, Members
<1>2. Typed /\ IInv /\ [Next]_vars => [Pair!Next]_<<s128, pub>>
  BY PairStep
<1> QED
  BY <1>1, <1>2, Always, PTL DEF Spec, PublishedAsPair, Pair!Spec, Pair!vars
=============================================================================
