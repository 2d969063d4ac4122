---------------------------- MODULE EncOperator ----------------------------
(***************************************************************************)
(* What an operator does: discards, which run as Worker jobs, and holds    *)
(* and pauses, which the API executes while the Worker may be busy.        *)
(***************************************************************************)
EXTENDS EncState

\* DiscardEncPackageJob: both Product locks, no replay row pending.
OperatorDiscard ==
    /\ LaneFree /\ holder = None
    /\ pkg # 0 /\ ~replay
    /\ PairDiscardable(FALSE)
    /\ Restore(Members)
    /\ pkg' = 0
    /\ UNCHANGED <<pkgs, replay, delivery, jobVars, rest>>

\* ExecuteDiscardAsync on a Product without a package.
ProductDiscard(m) ==
    /\ LaneFree /\ holder # m
    /\ pkg = 0
    /\ Discardable(m)
    /\ Restore({m})
    /\ UNCHANGED <<delivery, packageVars, jobVars, rest>>

\* TrySetPausedAsync with requirePreSend: both members are built and not sent.
PreSend ==
    \A m \in Members : m \notin hold /\ state[m] \in {"Ready", "Error", "Rejected"}

\* Pause and resume both need an active package.
SetPaused ==
    /\ "pause" \in Events
    /\ pkg # 0
    /\ PreSend
    /\ paused' = ~paused
    /\ UNCHANGED <<trackVars, delivery, packageVars, jobVars,
                   hold, holder, catalogueVars, upload, fin>>

\* HoldProduct checks the track under the Product lock, which a delivery does
\* not take ...
HoldCheck(m) ==
    /\ "hold" \in Events
    /\ holder = None /\ ~Locked(m)
    /\ m \notin hold /\ state[m] # "InTransit"
    /\ holder' = m
    /\ UNCHANGED <<trackVars, delivery, packageVars, jobVars,
                   hold, paused, catalogueVars, upload, fin>>

\* ... and places the hold in a second transaction, unless the request is
\* cancelled in between.
HoldSet ==
    /\ holder # None
    /\ hold' \in {hold, hold \cup {holder}}
    /\ holder' = None
    /\ UNCHANGED <<trackVars, delivery, packageVars, jobVars,
                   paused, catalogueVars, upload, fin>>

ReleaseHold(m) ==
    /\ m \in hold
    /\ ~Locked(m)
    /\ hold' = hold \ {m}
    /\ UNCHANGED <<trackVars, delivery, packageVars, jobVars,
                   paused, holder, catalogueVars, upload, fin>>

Operating ==
    \/ OperatorDiscard \/ SetPaused \/ HoldSet
    \/ \E m \in Members : ProductDiscard(m) \/ HoldCheck(m) \/ ReleaseHold(m)
=============================================================================
