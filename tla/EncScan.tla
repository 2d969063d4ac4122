------------------------------ MODULE EncScan ------------------------------
(***************************************************************************)
(* The change scan (EncPackageDetectionService.RunAsync) as one source     *)
(* sees it, and the package build on request (CreateManualAsync): recovery *)
(* of an interrupted build, the decision to refresh, the source snapshot,  *)
(* and the replacement of the package.  EncExport builds the two members.  *)
(***************************************************************************)
EXTENDS EncState

\* The bounds of a behaviour.
MorePackages == pkgs < MaxPackage
MoreRevisions(m) == Len(rev[m]) < MaxRevision

Defer ==
    /\ replay' = TRUE
    /\ Stop
    /\ UNCHANGED <<trackVars, pkg, pkgs>>

\* GetIncompleteSourceNamesAsync: a member of the active package is not built.
Incomplete ==
    pkg # 0 /\ \E m \in Members :
        state[m] \in {"Idle", "ChangesDetected", "Exporting", "Validating"}

\* The archive reports edits, or a replay row is due: the scan marks replay for
\* a package that is not built and reads it before it has any Product lock.
ScanStart ==
    /\ LaneFree
    /\ replay' = (replay \/ Incomplete)
    /\ pc' = "start" /\ mode' = "scan" /\ base' = pkg
    /\ UNCHANGED <<turn, seen, trackVars, delivery, pkg, pkgs, rest>>

\* Both Product locks are tried; a busy one ends the scan.
ScanLock ==
    /\ pc = "start"
    /\ IF holder # None THEN Stop
       ELSE Goto(IF base = 0 THEN "tracks" ELSE "locked")
    /\ UNCHANGED <<trackVars, delivery, packageVars, rest>>

\* Mutant of CanRecover: both members must have been interrupted.
BothInterrupted ==
    /\ pkg = base
    /\ \A m \in Members : m \notin hold /\ InBuild(m)

\* EncPackageInterruptedExportRecovery.CanRecover on the re-read package.
CanRecover ==
    /\ pkg = base
    /\ \A m \in Members :
        m \notin hold /\ state[m] \notin {"InTransit", "Accepted", "Rejected"}
    /\ \E m \in Members : InBuild(m)

RecoverCheck ==
    /\ pc = "locked"
    /\ Goto(IF CanRecover THEN "recover" ELSE "refresh")
    /\ UNCHANGED <<trackVars, delivery, packageVars, rest>>

\* TryFailInterruptedPackageExportAsync, one transaction per member: a
\* mismatch or any delivery of the candidate's revision ends the scan.
RecoverMember ==
    /\ pc = "recover"
    /\ IF ~InBuild(turn)
       THEN Advance("recover", "refresh") /\ UNCHANGED trackVars
       ELSE IF /\ pkg = base
               /\ turn \notin hold
               /\ \A d \in DeliveriesOf(turn) :
                    delivery[d].rev \in CandidateRevision(turn)
                        => delivery[d].status = "NotDelivered"
            THEN SetState(turn, "Error") /\ Advance("recover", "refresh")
            ELSE Stop /\ UNCHANGED trackVars
    /\ UNCHANGED <<delivery, packageVars, rest>>

\* CanRefreshAsync and TryQueueMissingMembersAsync, which repeats the check in
\* the transaction that queues the members no build has touched.
QueueMissing ==
    /\ pc = "refresh"
    /\ IF pkg = base /\ PairDiscardable(TRUE)
       THEN /\ state' = [m \in Members |->
                            IF Unstarted(m) THEN "ChangesDetected" ELSE state[m]]
            /\ prev' = [m \in Members |->
                            IF Unstarted(m) /\ prev[m] = None THEN state[m] ELSE prev[m]]
            /\ replay' = (replay \/ \E m \in Members : Unstarted(m))
            /\ Goto("inspect")
            /\ UNCHANGED <<cand, pub, rev, pkg, pkgs>>
       ELSE Defer
    /\ UNCHANGED <<delivery, rest>>

\* The archive since the package's snapshot: nothing relevant, and the scan
\* completes the package it has; or edits.
Inspect ==
    /\ pc = "inspect"
    /\ Goto("member") \/ Goto("tracks")
    /\ UNCHANGED <<trackVars, delivery, packageVars, rest>>

\* HasUnownedFinalCandidate.
UnownedBlocks == base = 0 /\ \E m \in Members : Unowned(m)

\* The tracks are read again, and their states kept for the failure report.
ReadTracks ==
    /\ pc = "tracks"
    /\ \/ /\ UnownedBlocks \/ \E m \in Members : RefreshBlocked(m)
          /\ Defer
       \/ /\ ~UnownedBlocks /\ \A m \in Members : ~RefreshBlocked(m)
          /\ seen' = state
          /\ pc' = "snapshot"
          /\ UNCHANGED <<mode, base, turn, trackVars, packageVars>>
    /\ UNCHANGED <<delivery, rest>>

\* CreateManualAsync up to the snapshot: the locks, no active package, both
\* tracks free.
ManualStart ==
    /\ "manual" \in Events
    /\ LaneFree /\ holder = None
    /\ pkg = 0 /\ MorePackages
    /\ \A m \in Members : ~RefreshBlocked(m) /\ ~Unowned(m)
    /\ pc' = "snapshot" /\ mode' = "manual" /\ seen' = state
    /\ UNCHANGED <<base, turn, trackVars, delivery, packageVars, rest>>

-----------------------------------------------------------------------------
(* The source snapshot and what follows from it. *)

\* Mutant of SnapshotFails: the failure is reported without a replay row.
SnapshotForgotten ==
    /\ "snapshot" \in Events
    /\ pc = "snapshot"
    /\ IF base = 0 \/ pkg = base THEN Goto("failing") ELSE Stop
    /\ UNCHANGED <<trackVars, delivery, packageVars, rest>>

\* RecordSourceSnapshotFailureAsync: replay first, the package's error (which
\* needs the package), then the two tracks.
SnapshotFails ==
    /\ "snapshot" \in Events
    /\ pc = "snapshot"
    /\ replay' = TRUE
    /\ IF base = 0 \/ pkg = base THEN Goto("failing") ELSE Stop
    /\ UNCHANGED <<trackVars, delivery, pkg, pkgs, rest>>

\* Error for a source without package; otherwise the state read before the
\* snapshot is written again.
ReportedState(m) == IF base = 0 THEN "Error" ELSE seen[m]

ReportFailure ==
    /\ pc = "failing"
    /\ SetState(turn, ReportedState(turn))
    /\ IF turn = "S57" THEN Stop ELSE Advance("failing", "idle")
    /\ UNCHANGED <<delivery, packageVars, rest>>

\* The edits do not touch the exported selection.
SnapshotIrrelevant ==
    /\ pc = "snapshot" /\ base # 0
    /\ Goto("member")
    /\ UNCHANGED <<trackVars, delivery, packageVars, rest>>

\* Mutant of RefreshDiscard: the package and its first member go, the second
\* member keeps its candidate.
RefreshDiscardOne ==
    /\ pc = "snapshot" /\ base # 0
    /\ IF pkg = base /\ PairDiscardable(TRUE)
       THEN /\ Restore({"S101"})
            /\ pkg' = 0 /\ replay' = TRUE
            /\ UNCHANGED pkgs
            /\ (MorePackages /\ Goto("create")) \/ Goto("done")
       ELSE Defer
    /\ UNCHANGED <<delivery, rest>>

\* DiscardForRefreshAsync: the old package goes in one transaction with both
\* candidates; then a new one is created, or (the edits have been undone) not.
RefreshDiscard ==
    /\ pc = "snapshot" /\ base # 0
    /\ IF pkg = base /\ PairDiscardable(TRUE)
       THEN /\ Restore(Members)
            /\ pkg' = 0 /\ replay' = TRUE
            /\ UNCHANGED pkgs
            /\ (MorePackages /\ Goto("create")) \/ Goto("done")
       ELSE Defer
    /\ UNCHANGED <<delivery, rest>>

\* A source without package whose snapshot succeeded, or whose edits cancel
\* out: the trace of an earlier failed snapshot is cleared.
SnapshotTaken ==
    /\ pc = "snapshot" /\ base = 0
    /\ Goto("acknowledge")
    /\ UNCHANGED <<trackVars, delivery, packageVars, rest>>

\* AcknowledgeSourceFailuresAsync, one DiscardCandidateAsync per failed track;
\* then a package is created, or (no net change) the scan has nothing to do.
AcknowledgeFailure ==
    /\ pc = "acknowledge"
    /\ IF SnapshotFailure(turn)
       THEN Discardable(turn) /\ Restore({turn})
       ELSE UNCHANGED trackVars
    /\ \/ MorePackages /\ Advance("acknowledge", "create")
       \/ mode = "scan" /\ Advance("acknowledge", "done")
    /\ UNCHANGED <<delivery, packageVars, rest>>

\* TryCreatePendingAsync inserts a package only if the source has none, both
\* members are free and no build has touched them.
CanCreate ==
    /\ pkg = 0
    /\ \A m \in Members : Unstarted(m) /\ m \notin hold /\ ~DeliveryBlocks(m)

CreatePending ==
    /\ pc = "create"
    /\ CanCreate
    /\ pkgs' = pkgs + 1 /\ pkg' = pkgs + 1 /\ base' = pkgs + 1
    /\ replay' = TRUE
    /\ state' = [m \in Members |-> "ChangesDetected"]
    /\ prev' = [m \in Members |-> IF prev[m] = None THEN state[m] ELSE prev[m]]
    /\ pc' = "member"
    /\ UNCHANGED <<cand, pub, rev, mode, turn, seen, delivery, rest>>

\* The scan completes: the watermark moves, and the replay row goes if it
\* still holds the bound the scan has inspected.
ScanDone ==
    /\ pc = "done"
    /\ replay' \in {replay, replay /\ mode = "manual"}
    /\ Stop
    /\ UNCHANGED <<trackVars, pkg, pkgs, delivery, rest>>

Scan ==
    \/ ScanStart \/ ScanLock \/ RecoverCheck \/ RecoverMember \/ QueueMissing
    \/ Inspect \/ ReadTracks \/ ManualStart
    \/ SnapshotFails \/ ReportFailure \/ SnapshotIrrelevant \/ RefreshDiscard
    \/ SnapshotTaken \/ AcknowledgeFailure \/ CreatePending \/ ScanDone
=============================================================================
