------------------------------ MODULE EncState ------------------------------
(***************************************************************************)
(* The state that one ENC package is made of: an S-101 product, the S-57   *)
(* product mapped to it, and the package row that owns both while they are *)
(* built from one source snapshot, sent to IC-ENC one by one, and          *)
(* published together once both are accepted.                              *)
(*                                                                         *)
(* The variables are the rows of the System database, the S-128 catalogue  *)
(* and the local state of the two processes that work on them: the Worker, *)
(* which runs one background job at a time, and the API, which records     *)
(* holds, pauses, reconciliations and notices while a job runs.  A SQL     *)
(* transaction is one action; statements that commit separately are two.   *)
(***************************************************************************)
EXTENDS Naturals, Sequences, FiniteSets

CONSTANTS
    Deliveries,     \* delivery identifiers
    MaxPackage,     \* bound: packages a behaviour creates
    MaxRevision,    \* bound: revisions a track collects
    Events          \* which of the optional events below may happen

\* "product" an export of one Product outside any package; "hold" manual
\* holds; "pause" the package pause; "manual" a package built on request;
\* "snapshot" the source snapshot fails; "statement" a SQL batch fails after
\* its first statement has committed, or an outcome cannot be stored;
\* "crash" the Worker dies.
EventNames ==
    {"product", "hold", "pause", "manual", "snapshot", "statement", "crash"}

Members == {"S101", "S57"}

None == "None"

ASSUME BoundAssumption ==
    /\ MaxPackage \in Nat \ {0}
    /\ MaxRevision \in Nat \ {0}
    /\ Events \subseteq EventNames
    /\ None \notin Deliveries

States == {"Idle", "ChangesDetected", "Exporting", "Validating", "Ready",
           "InTransit", "Accepted", "Rejected", "Error"}

Statuses == {"Sending", "Uncertain", "Delivered", "NotDelivered", "Accepted",
             "Rejected"}

VARIABLES
    state,      \* ProductExportTrack.state
    prev,       \* candidate_previous_state
    cand,       \* candidate edition, 0 when there is none
    pub,        \* published edition
    rev,        \* ProductRevision rows of each track, oldest first
    delivery,   \* ProductIcEncDelivery rows
    hold,       \* the tracks with a manual hold
    paused,     \* EncPackageControl.is_paused
    pkg,        \* the active EncPackage row, 0 when there is none
    pkgs,       \* how many packages have been created
    replay,     \* an EncPackageReplay row keeps the source eligible
    s128,       \* the edition each product has in the S-128 catalogue
    attached,   \* the packages whose attachment S-128 holds
    pc, mode,   \* scan or export job: where it is and what it runs
    base,       \* scan: the package it has read or created
    turn,       \* scan or export: the member it works on
    seen,       \* scan: the track states it has read
    upload,     \* send job: the delivery it has reserved
    fin,        \* finalizer: the publication it has read
    holder      \* API: the member whose lock a hold request has

trackVars == <<state, prev, cand, pub, rev>>
packageVars == <<pkg, pkgs, replay>>
jobVars == <<pc, mode, base, turn, seen>>
operatorVars == <<hold, paused, holder>>
catalogueVars == <<s128, attached>>
rest == <<operatorVars, catalogueVars, upload, fin>>
vars == <<trackVars, delivery, packageVars, jobVars, rest>>

NoDelivery == [track |-> None, rev |-> 0, status |-> None]
Delivery == [track : Members, rev : Nat \ {0}, status : Statuses]

NoPublication == [pkg |-> 0, ver |-> [m \in Members |-> 0], step |-> "read"]
Publication ==
    [pkg : Nat, ver : [Members -> Nat], step : {"read", "publish", "complete"}]

Steps == {"idle", "start", "locked", "recover", "refresh", "inspect", "tracks",
          "snapshot", "acknowledge", "create", "member", "build", "compile",
          "validate", "failed", "failing", "done"}

\* Every row and every local variable has its type.
TypeOK ==
    /\ state \in [Members -> States]
    /\ prev \in [Members -> States \cup {None}]
    /\ cand \in [Members -> Nat]
    /\ pub \in [Members -> Nat]
    /\ rev \in [Members -> Seq([ver : Nat, pkg : Nat])]
    /\ delivery \in [Deliveries -> Delivery \cup {NoDelivery}]
    /\ hold \subseteq Members
    /\ paused \in BOOLEAN
    /\ pkg \in Nat /\ pkgs \in Nat /\ pkg <= pkgs
    /\ replay \in BOOLEAN
    /\ s128 \in [Members -> Nat]
    /\ attached \subseteq Nat
    /\ pc \in Steps
    /\ mode \in {"none", "scan", "manual", "product"}
    /\ base \in Nat
    /\ turn \in Members
    /\ seen \in [Members -> States]
    /\ upload \in Deliveries \cup {None}
    /\ fin \in Publication
    /\ holder \in Members \cup {None}

Init ==
    /\ state = [m \in Members |-> "Idle"]
    /\ prev = [m \in Members |-> None]
    /\ cand = [m \in Members |-> 0]
    /\ pub = [m \in Members |-> 1]
    /\ rev = [m \in Members |-> <<>>]
    /\ delivery = [d \in Deliveries |-> NoDelivery]
    /\ hold = {} /\ paused = FALSE
    /\ pkg = 0 /\ pkgs = 0
    /\ replay = FALSE
    /\ s128 = [m \in Members |-> 1]
    /\ attached = {}
    /\ pc = "idle" /\ mode = "none" /\ base = 0 /\ turn = "S101"
    /\ seen = [m \in Members |-> "Idle"]
    /\ upload = None
    /\ fin = NoPublication
    /\ holder = None

-----------------------------------------------------------------------------
(* Rules over one track. *)

InBuild(m) == state[m] \in {"Exporting", "Validating"}

\* Mutant of RestoredState: a failed candidate's own state is restored.
RestoredAsIs(p) == p

\* ProductCandidateRecovery.RestoredState.
RestoredState(p) == IF p \in {None, "Error", "Rejected"} THEN "Idle" ELSE p

\* The previous states from which a candidate may be given up.
StablePrevious(m) ==
    prev[m] \notin {"Exporting", "Validating", "InTransit", "Ready", "Accepted"}

\* ProductCandidateRecovery.CanDiscard.
CanDiscard(m) ==
    /\ \/ state[m] \in {"Error", "Rejected"}
       \/ state[m] = "Ready" /\ cand[m] # 0
    /\ StablePrevious(m)

\* A member that no build has touched yet.
Unstarted(m) ==
    /\ \/ state[m] = "ChangesDetected"
       \/ state[m] = "Idle" /\ prev[m] = None
    /\ cand[m] = 0
    /\ StablePrevious(m)

\* Mutant of CandidateRevision: any revision with the candidate's version.
AnyRevision(m) == {i \in DOMAIN rev[m] : rev[m][i].ver = cand[m]}

\* The rows SELECT TOP 1 ... ORDER BY created_at DESC picks among the
\* revisions with the candidate's version: none or one.
CandidateRevision(m) ==
    {i \in DOMAIN rev[m] :
        /\ rev[m][i].ver = cand[m]
        /\ \A j \in DOMAIN rev[m] : rev[m][j].ver = cand[m] => j <= i}

DeliveriesOf(m) == {d \in Deliveries : delivery[d].track = m}

\* The unique index on a revision's deliveries, those that never arrived apart.
Submitted(m, i) ==
    \E d \in DeliveriesOf(m) :
        delivery[d].rev = i /\ delivery[d].status # "NotDelivered"

\* ProductCandidateDeliveryGuard.IsBlockedAsync.
DeliveryBlocks(m) ==
    \E d \in DeliveriesOf(m) :
        /\ delivery[d].rev \in CandidateRevision(m)
        /\ delivery[d].status # "NotDelivered"
        /\ ~(delivery[d].status = "Rejected" /\ state[m] = "Rejected")

\* DiscardCandidateAsync's own conditions.
Discardable(m) == m \notin hold /\ CanDiscard(m) /\ ~DeliveryBlocks(m)

RefreshBlocked(m) == m \in hold \/ state[m] \in {"InTransit", "Accepted"} \/ InBuild(m)

\* Error without a candidate is, when no package is active, the trace that a
\* failed source snapshot has left. The code also asks for that failure's error
\* code; nothing else leaves this trace, because a build that fails before it has
\* a candidate is one of a package, and discarding that restores other states.
SnapshotFailure(m) == state[m] = "Error" /\ cand[m] = 0

Unowned(m) == state[m] \in {"Ready", "Error", "Rejected"} /\ ~SnapshotFailure(m)

\* TryDiscardPackageCore's check of both members (refresh also accepts a
\* member that was never started).
PairDiscardable(refresh) ==
    \A m \in Members :
        /\ m \notin hold
        /\ CanDiscard(m) \/ (refresh /\ Unstarted(m))
        /\ ~DeliveryBlocks(m)

\* Delivery d carried the latest revision, the candidate's, and was accepted.
AcceptedBy(m, d) ==
    /\ delivery[d].status = "Accepted"
    /\ delivery[d].rev = Len(rev[m])
    /\ rev[m][delivery[d].rev].ver = cand[m]

\* What acknowledgement, publication and completion all require of a member.
AcceptedLatest(m) ==
    state[m] = "Accepted" /\ \E d \in DeliveriesOf(m) : AcceptedBy(m, d)

-----------------------------------------------------------------------------
(* The Worker's lane and the Product locks. *)

\* Mutant of LaneFree: a Hangfire server with several workers.
LaneUnguarded == TRUE

\* One Hangfire worker: a background job starts when no other runs.
LaneFree == pc = "idle" /\ upload = None /\ fin = NoPublication

\* A scan or a package build holds the locks of both members, a Product
\* export that of one.
WorkerLocks(m) ==
    /\ pc \notin {"idle", "start", "done"}
    /\ mode = "product" => turn = m

\* Mutant of Locked: a hold is placed without the Product lock.
NeverLocked(m) == FALSE

\* Whether a try for the lock of m fails: the Worker has it, or a hold request.
Locked(m) == WorkerLocks(m) \/ holder = m

Goto(p) == pc' = p /\ UNCHANGED <<mode, base, turn, seen>>

Stop ==
    /\ pc' = "idle" /\ mode' = "none" /\ base' = 0 /\ turn' = "S101"
    /\ seen' = [m \in Members |-> "Idle"]

Other == [S101 |-> "S57", S57 |-> "S101"]

\* The job does step p for S-101 and then for S-57, and goes on with q.
Advance(p, q) ==
    /\ pc' = IF turn = "S101" THEN p ELSE q
    /\ turn' = Other[turn]
    /\ UNCHANGED <<mode, base, seen>>

SetState(m, s) ==
    /\ state' = [state EXCEPT ![m] = s]
    /\ UNCHANGED <<prev, cand, pub, rev>>

\* The tracks in M lose their candidate and return to their previous state.
Restore(M) ==
    /\ state' = [m \in Members |->
                    IF m \in M THEN RestoredState(prev[m]) ELSE state[m]]
    /\ prev' = [m \in Members |-> IF m \in M THEN None ELSE prev[m]]
    /\ cand' = [m \in Members |-> IF m \in M THEN 0 ELSE cand[m]]
    /\ UNCHANGED <<pub, rev>>

\* The Worker dies, or is told to stop: a job's local state is lost, the
\* stores keep what has been committed.
WorkerCrash ==
    /\ "crash" \in Events
    /\ ~LaneFree
    /\ Stop
    /\ upload' = None
    /\ fin' = NoPublication
    /\ UNCHANGED <<trackVars, delivery, packageVars, operatorVars, catalogueVars>>
=============================================================================
