----------------------------- MODULE EncExport -----------------------------
(***************************************************************************)
(* Building a candidate (ExportOperationService.ExecuteExportCoreAsync):   *)
(* for each member of a package in turn, or for one Product on request.    *)
(***************************************************************************)
EXTENDS EncScan

\* An export has ended, well or badly: a Product export is then over, a
\* package goes on with its other member.
ExportEnds ==
    \/ mode = "product" /\ Stop
    \/ mode # "product" /\ Advance("member", "done")

\* The loop over the two members skips one that has a candidate or has failed
\* (RecoverIncompletePackageAsync); in a new package it skips none.
Skipped(m) == cand[m] # 0 \/ state[m] \in {"Error", "Rejected"}

SkipMember ==
    /\ pc = "member"
    /\ Skipped(turn)
    /\ Advance("member", "done")
    /\ UNCHANGED <<trackVars, delivery, packageVars, rest>>

\* EnsureExportCanStart, and BeginExportAsync's own condition.
CanBegin(m) ==
    /\ state[m] \in {"Idle", "ChangesDetected", "Error"}
    /\ m \notin hold
    /\ cand[m] # 0 => ~DeliveryBlocks(m)
    /\ MoreRevisions(m)

\* BeginExportAsync: a queued or failed build hands on the state it started
\* from, any other track its current one.
Begin(m) ==
    /\ CanBegin(m)
    /\ prev' = [prev EXCEPT ![m] =
                    IF \/ state[m] = "Error"
                       \/ state[m] = "ChangesDetected" /\ prev[m] # None
                    THEN RestoredState(prev[m]) ELSE state[m]]
    /\ state' = [state EXCEPT ![m] = "Exporting"]
    /\ cand' = [cand EXCEPT ![m] = pub[m] + 1]
    /\ UNCHANGED <<pub, rev>>

BeginMember ==
    /\ pc = "member"
    /\ ~Skipped(turn)
    /\ Begin(turn)
    /\ Goto("build")
    /\ UNCHANGED <<delivery, packageVars, rest>>

\* Mutant of ProductExport: the active package is not consulted.
ProductExportAnyway(m) ==
    /\ "product" \in Events
    /\ LaneFree /\ holder # m
    /\ Begin(m)
    /\ pc' = "build" /\ mode' = "product" /\ turn' = m
    /\ UNCHANGED <<base, seen, delivery, packageVars, rest>>

\* ExportOperationJob on one Product: under its lock, and never while a
\* package is active.
ProductExport(m) ==
    /\ "product" \in Events
    /\ LaneFree /\ holder # m
    /\ pkg = 0
    /\ Begin(m)
    /\ pc' = "build" /\ mode' = "product" /\ turn' = m
    /\ UNCHANGED <<base, seen, delivery, packageVars, rest>>

\* AddRevisionAsync: the source snapshot becomes a revision.
AddRevision ==
    /\ pc = "build"
    /\ rev' = [rev EXCEPT ![turn] = Append(@, [ver |-> cand[turn], pkg |-> base])]
    /\ Goto("compile")
    /\ UNCHANGED <<state, prev, cand, pub, delivery, packageVars, rest>>

\* The engine has written its artifacts; validation begins.
Compile ==
    /\ pc = "compile"
    /\ SetState(turn, "Validating")
    /\ Goto("validate")
    /\ UNCHANGED <<delivery, packageVars, rest>>

\* Validation passes: SetStateAsync, or CompleteExportWithHistoryAsync for a
\* Product export.
Validate ==
    /\ pc = "validate"
    /\ SetState(turn, "Ready")
    /\ ExportEnds
    /\ UNCHANGED <<delivery, packageVars, rest>>

\* SetStateAsync commits Ready and then fails on its history row.
ReadyUnrecorded ==
    /\ "statement" \in Events
    /\ pc = "validate" /\ mode # "product"
    /\ SetState(turn, "Ready")
    /\ Goto("failed")
    /\ UNCHANGED <<delivery, packageVars, rest>>

\* The catalogue, the engine, the validator or a repository call throws.
ExportFails ==
    /\ \/ pc = "member" /\ ~Skipped(turn)
       \/ pc \in {"build", "compile", "validate"}
    /\ Goto("failed")
    /\ UNCHANGED <<trackVars, delivery, packageVars, rest>>

\* SetErrorBestEffortAsync and RecordCandidateFailureAsync write Error without
\* looking at what the track has become (event "statement": both writes are
\* lost), and then the package's error, which needs the package.  A cancelled
\* job stops here.
RecordFailure ==
    /\ pc = "failed"
    /\ \/ SetState(turn, "Error")
       \/ "statement" \in Events /\ UNCHANGED trackVars
    /\ \/ (mode # "product" => pkg = base) /\ ExportEnds
       \/ Stop
    /\ UNCHANGED <<delivery, packageVars, rest>>

Export ==
    \/ SkipMember \/ BeginMember \/ AddRevision \/ Compile \/ Validate
    \/ ReadyUnrecorded \/ ExportFails \/ RecordFailure
    \/ \E m \in Members : ProductExport(m)
=============================================================================
