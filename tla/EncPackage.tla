----------------------------- MODULE EncPackage -----------------------------
(***************************************************************************)
(* The whole life of one ENC package: the background jobs of the Worker,   *)
(* which exclude one another, interleaved with the requests the API        *)
(* executes meanwhile; and the properties of the System database and the   *)
(* S-128 catalogue that must survive every interleaving and every failure. *)
(***************************************************************************)
EXTENDS EncExport, EncDelivery, EncOperator, EncPublication

Next == Scan \/ Export \/ Delivering \/ Operating \/ Finalizing \/ WorkerCrash

Spec == Init /\ [][Next]_vars

\* A running job takes its next step.
JobStep ==
    /\ pc # "idle"
    /\ Scan \/ Export

\* Jobs go on once started, and uploads end.
JobFairness == WF_vars(JobStep) /\ WF_vars(FinishUpload)

\* A queued finalizer gets the lane some time.  The Worker may die again and
\* again, but not each time at the same step (strong fairness).
PublishFairness ==
    SF_vars(ReadPublication) /\ SF_vars(PublishS128) /\ SF_vars(Complete)

\* The scheduler queues a scan every minute, and the Worker does not die each
\* time at the same step of its recovery.
RecoverFairness ==
    /\ WF_vars(ScanStart) /\ SF_vars(ScanLock) /\ SF_vars(RecoverCheck)
    /\ \A m \in Members : SF_vars(turn = m /\ RecoverMember)

FairSpec == Spec /\ JobFairness /\ PublishFairness /\ RecoverFairness

-----------------------------------------------------------------------------
(* Safety. *)

\* Delivery d carried the candidate that its track has now.
Current(d) ==
    LET m == delivery[d].track IN
    delivery[d].rev = Len(rev[m]) /\ rev[m][delivery[d].rev].ver = cand[m]

\* While IC-ENC may hold a transfer that nobody has answered, the track keeps
\* the candidate and the revision that were sent, in transit: no scan, discard,
\* export or failure report moves it (ReserveAsync, ReconcileAsync, RecordAsync).
InFlightKept ==
    \A d \in Deliveries :
        delivery[d].status \in {"Sending", "Uncertain", "Delivered"} =>
            state[delivery[d].track] = "InTransit" /\ Current(d)

\* A candidate that is shown as ready can be sent: its revision is not already
\* under way or answered, whatever a failed job or a late report has written.
ReadyUnsubmitted ==
    \A m \in Members : state[m] = "Ready" =>
        CandidateRevision(m) # {} /\ \A i \in CandidateRevision(m) : ~Submitted(m, i)

\* What the tracks of an active package offer for delivery was built from that
\* package's snapshot, both members from the same one.
PairFromOnePackage ==
    pkg # 0 => \A m \in Members :
        state[m] \in {"Ready", "InTransit", "Accepted", "Rejected"} =>
            /\ rev[m] # <<>>
            /\ rev[m][Len(rev[m])] = [ver |-> cand[m], pkg |-> pkg]

\* A candidate built from a package's snapshot does not outlive the package:
\* nothing could acknowledge or publish it any more.
NoOrphanSnapshot ==
    \A m \in Members :
        state[m] \in {"Ready", "InTransit", "Accepted"} /\ rev[m][Len(rev[m])].pkg # 0
            => rev[m][Len(rev[m])].pkg = pkg

\* S-128 runs ahead of SQL only for the accepted candidates of the active
\* package, which then stay as they are until SQL has caught up.
StoresAgree ==
    \/ s128 = pub
    \/ pkg \in attached /\ s128 = cand /\ \A m \in Members : state[m] = "Accepted"

\* Pausing a package keeps both its members from IC-ENC.
PauseHoldsDelivery ==
    paused /\ pkg # 0 => \A m \in Members : state[m] \notin {"InTransit", "Accepted"}

\* Once the scan has given up the old package, or a failed snapshot has been
\* made good, nothing stops the new package: no operator action, delivery or
\* earlier failure gets in between and leaves the source without one.
CreateSucceeds ==
    /\ pc = "create" => CanCreate
    /\ pc = "acknowledge" /\ SnapshotFailure(turn) => Discardable(turn)

\* A source whose snapshot failed stays eligible for another scan.
FailedSnapshotKept == pkg = 0 /\ (\E m \in Members : SnapshotFailure(m)) => replay

Pair == INSTANCE PairPublication WITH
    Product <- Members, catalogue <- s128, recorded <- pub

\* The two stores implement PairPublication: both products are published
\* together, and S-128 is never more than one publication ahead.
PublishedAsPair == Pair!Spec

-----------------------------------------------------------------------------
(* Liveness. *)

\* A package whose two members have been accepted is published, also when the
\* Worker dies between S-128 and SQL.
AcceptedIsPublished ==
    \A n \in 1..MaxPackage : (pkg = n /\ Publishable) ~> pkg # n

\* Recovery waits for a hold, for a member that has been submitted, and for a
\* delivery of the candidate's revision of either interrupted member.
RecoveryBlocked ==
    \E n \in Members : \/ n \in hold
                       \/ state[n] \in {"InTransit", "Accepted", "Rejected"}
                       \/ (InBuild(n) /\ DeliveryBlocks(n))

\* A build that a dead Worker has left in Exporting or Validating ends, unless
\* recovery is blocked.
InterruptedEnds ==
    \A m \in Members :
        (pkg # 0 /\ InBuild(m)) ~> (~InBuild(m) \/ RecoveryBlocked)

-----------------------------------------------------------------------------
(* Statements of the documentation and the code that do not hold. *)

\* A build that failed can be discarded or replaced.
FailedBuildDiscardable ==
    \A m \in Members :
        LaneFree /\ state[m] = "Error" /\ cand[m] # 0 => ~DeliveryBlocks(m)

\* An unfinished transfer can be reconciled once its send job is over.
SendingHasSender ==
    \A d \in Deliveries : delivery[d].status = "Sending" => upload = d
=============================================================================
