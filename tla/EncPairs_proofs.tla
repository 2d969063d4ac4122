--------------------------- MODULE EncPairs_proofs ---------------------------
(***************************************************************************)
(* What the tracks of a package say about the package and about its        *)
(* deliveries, for every set of deliveries, every bound and every choice   *)
(* of events: both members come from the package's own snapshot, nothing   *)
(* of a package outlives it, and a transfer that IC-ENC may hold keeps its *)
(* candidate.                                                              *)
(*                                                                         *)
(* The strengthening follows a candidate from the row AddRevision writes   *)
(* to the delivery that carries it: a job works for the package there is   *)
(* (Based), what is built is the last revision of its track (Owned), and   *)
(* what was sent is never newer (Sent).                                    *)
(***************************************************************************)
EXTENDS EncStores_proofs

-----------------------------------------------------------------------------
(* The inductive invariant. *)

\* A job that is neither between two packages nor at its end works for the
\* package there is.
Based ==
    /\ pc = "idle" => base = 0
    /\ pc \notin {"idle", "create", "done"} => base = pkg

Built == {"Ready", "InTransit", "Accepted", "Rejected"}

\* The newest revision of m is its candidate, from the present package.
LastIs(m) ==
    rev[m] # <<>> /\ rev[m][Len(rev[m])] = [ver |-> cand[m], pkg |-> pkg]

Owned ==
    /\ pc \in {"compile", "validate"} => LastIs(turn)
    /\ \A m \in Members : state[m] \in Built => LastIs(m)

InFlight(d) == delivery[d].status \in {"Sending", "Uncertain", "Delivered"}

\* Delivery d carries the newest revision of its track.
LastSent(d) == delivery[d].rev = Len(rev[delivery[d].track])

\* A delivery row that stands for a transfer of m's newest revision, one that
\* may have arrived.
Holds(d, m) ==
    delivery[d].track = m /\ delivery[d].status # "NotDelivered" /\ LastSent(d)

Sent ==
    /\ \A d \in Deliveries : delivery[d].track \in Members =>
            delivery[d].rev <= Len(rev[delivery[d].track])
    /\ \A d \in Deliveries : InFlight(d) =>
            state[delivery[d].track] = "InTransit" /\ LastSent(d)
    /\ \A d, e \in Deliveries, m \in Members : Holds(d, m) /\ Holds(e, m) => d = e
    /\ \A m \in Members :
            state[m] = "Ready" \/ (pc \in {"compile", "validate"} /\ turn = m)
                => \A d \in Deliveries : ~Holds(d, m)

\* A paused package has no member under way.
Held == paused /\ pkg # 0 => \A m \in Members : Unsent(m)

PInv == Based /\ Owned /\ Sent /\ Held

LEMMA PInitially == Init => PInv
  BY DEF Init, PInv, Based, Owned, Sent, Held, Built, InFlight, Holds, NoDelivery, None,
         Unsent, Members

-----------------------------------------------------------------------------
(* Steps that build nothing and send nothing. *)

\* A member either stays as it is, in the same package, or is not under way and
\* becomes a track without a finished build.
Calm(m) ==
    \/ state'[m] = state[m] /\ cand'[m] = cand[m] /\ pkg' = pkg
    \/ state[m] # "InTransit" /\ state'[m] \notin Built

LEMMA CalmStep ==
    ASSUME Typed, IInv, PInv, UNCHANGED <<rev, delivery>>, Based',
           paused' => paused \/ \A m \in Members : Unsent(m),
           \A m \in Members : Calm(m),
           pc' \in {"compile", "validate"} =>
               pc \in {"compile", "validate"} /\ UNCHANGED <<turn, cand, pkg>>
    PROVE  PInv'
<1>1. Owned'
  BY DEF PInv, Owned, Calm, LastIs, Built, Members
<1>2. Sent'
  <2>1. \A d \in Deliveries, m \in Members : Holds(d, m)' <=> Holds(d, m)
    BY DEF Holds, LastSent
  <2>2. \A d \in Deliveries : InFlight(d)' =>
            state'[delivery'[d].track] = "InTransit" /\ LastSent(d)'
    <3> SUFFICES ASSUME NEW d \in Deliveries, InFlight(d)
                 PROVE  state'[delivery[d].track] = "InTransit" /\ LastSent(d)'
      BY DEF InFlight
    <3>1. delivery[d].track \in Members
      BY Row DEF InFlight, Typed, Statuses, Delivery
    <3>2. state[delivery[d].track] = "InTransit" /\ LastSent(d)
      BY DEF PInv, Sent
    <3> QED
      BY <3>1, <3>2 DEF Calm, LastSent
  <2>3. \A m \in Members :
            state'[m] = "Ready" \/ (pc' \in {"compile", "validate"} /\ turn' = m)
                => state[m] = "Ready" \/ (pc \in {"compile", "validate"} /\ turn = m)
    BY DEF Calm, Built
  <2> QED
    BY <2>1, <2>2, <2>3 DEF PInv, Sent
<1>3. Held'
  BY DEF PInv, Held, Calm, Unsent, Built
<1> QED
  BY <1>1, <1>2, <1>3 DEF PInv

\* Giving up candidates that may be given up is calm: such a track is not under
\* way, and the state it returns to is not that of a finished build.
LEMMA RestoredCalm ==
    ASSUME Typed, NEW M, Restore(M), NEW m \in M \cap Members, StablePrevious(m),
           state[m] # "InTransit"
    PROVE  Calm(m)
<1>1. state'[m] = RestoredState(prev[m])
  BY DEF Restore
<1>2. RestoredState(prev[m]) \notin Built
  BY DEF StablePrevious, RestoredState, Built, Typed, TypeOK, States, None
<1> QED
  BY <1>1, <1>2 DEF Calm

\* So is the discard of the whole package.
LEMMA PairCalm ==
    ASSUME Typed, NEW refresh \in BOOLEAN, PairDiscardable(refresh), Restore(Members)
    PROVE  \A m \in Members : Calm(m)
<1> SUFFICES ASSUME NEW m \in Members PROVE Calm(m)
  OBVIOUS
<1>1. CanDiscard(m) \/ Unstarted(m)
  BY DEF PairDiscardable
<1>2. StablePrevious(m) /\ state[m] # "InTransit"
  BY <1>1 DEF CanDiscard, Unstarted
<1> QED
  BY <1>2, RestoredCalm

LEMMA SetCalm ==
    ASSUME Typed, NEW m \in Members, NEW s, SetState(m, s), UNCHANGED pkg,
           (s \notin Built /\ state[m] # "InTransit") \/ s = state[m]
    PROVE  \A n \in Members : Calm(n)
  BY DEF SetState, Calm, Typed, TypeOK

-----------------------------------------------------------------------------
(* Every step keeps it. *)

LEMMA PairsScan == ASSUME Typed, IInv, PInv, Scan PROVE PInv'
<1> USE DEF Goto, Stop, Advance, Defer, None,
            trackVars, packageVars, jobVars, operatorVars, catalogueVars, rest
<1>1. /\ UNCHANGED <<rev, delivery, paused>>
      /\ pc' \notin {"compile", "validate"}
  BY DEF Scan, ScanStart, ScanLock, RecoverCheck, RecoverMember, QueueMissing,
         Inspect, ReadTracks, ManualStart, SnapshotFails, ReportFailure,
         SnapshotIrrelevant, RefreshDiscard, SnapshotTaken, AcknowledgeFailure,
         CreatePending, ScanDone, SetState, Restore
<1>2. Based'
  BY DEF Scan, ScanStart, ScanLock, RecoverCheck, RecoverMember, QueueMissing,
         Inspect, ReadTracks, ManualStart, SnapshotFails, ReportFailure,
         SnapshotIrrelevant, RefreshDiscard, SnapshotTaken, AcknowledgeFailure,
         CreatePending, ScanDone, SetState, LaneFree, PInv, Based,
         Typed, TypeOK, Members
<1>3. ASSUME UNCHANGED <<state, cand, pkg>> PROVE \A m \in Members : Calm(m)
  BY <1>3 DEF Calm
<1>4. \A m \in Members : Calm(m)
  <2>1. CASE RecoverMember
    <3>1. CASE InBuild(turn) /\ SetState(turn, "Error")
      <4>1. turn \in Members /\ state[turn] # "InTransit" /\ UNCHANGED pkg
        BY <2>1, <3>1 DEF RecoverMember, InBuild, Typed, TypeOK
      <4> QED
        BY <3>1, <4>1, SetCalm DEF Built
    <3>2. CASE UNCHANGED trackVars
      BY <2>1, <3>2, <1>3 DEF RecoverMember
    <3> QED
      BY <2>1, <3>1, <3>2 DEF RecoverMember
  <2>2. CASE QueueMissing
    <3>1. CASE pkg = base /\ PairDiscardable(TRUE)
      <4>1. UNCHANGED <<cand, pkg>>
        BY <2>2, <3>1 DEF QueueMissing
      <4>2. \A m \in Members :
                state'[m] = state[m] \/ (Unstarted(m) /\ state'[m] = "ChangesDetected")
        BY <2>2, <3>1, Queued
      <4> QED
        BY <4>1, <4>2 DEF Calm, Unstarted, Built
    <3>2. CASE ~(pkg = base /\ PairDiscardable(TRUE))
      BY <2>2, <3>2, <1>3 DEF QueueMissing
    <3> QED
      BY <3>1, <3>2
  <2>3. CASE ReportFailure
    <3>1. turn \in Members /\ UNCHANGED pkg /\ SetState(turn, ReportedState(turn))
      BY <2>3 DEF ReportFailure, Typed, TypeOK
    <3>2. /\ state[turn] # "InTransit"
          /\ ReportedState(turn) = "Error" \/ ReportedState(turn) = state[turn]
      BY <2>3, <3>1 DEF ReportFailure, ReportedState, IInv, Lane, Snapshotting, Unsent
    <3> QED
      BY <3>1, <3>2, SetCalm DEF Built
  <2>4. CASE RefreshDiscard
    <3>1. CASE pkg = base /\ PairDiscardable(TRUE)
      BY <2>4, <3>1, PairCalm DEF RefreshDiscard
    <3>2. CASE ~(pkg = base /\ PairDiscardable(TRUE))
      BY <2>4, <3>2, <1>3 DEF RefreshDiscard
    <3> QED
      BY <3>1, <3>2
  <2>5. CASE AcknowledgeFailure
    <3>1. CASE SnapshotFailure(turn)
      <4>1. /\ turn \in Members /\ Restore({turn}) /\ StablePrevious(turn)
            /\ state[turn] # "InTransit" /\ UNCHANGED pkg
        BY <2>5, <3>1
        DEF AcknowledgeFailure, Discardable, CanDiscard, SnapshotFailure, Typed, TypeOK
      <4>2. Calm(turn)
        BY <4>1, RestoredCalm
      <4>3. \A m \in Members \ {turn} : Calm(m)
        BY <4>1 DEF Restore, Calm
      <4> QED
        BY <4>2, <4>3
    <3>2. CASE ~SnapshotFailure(turn)
      BY <2>5, <3>2, <1>3 DEF AcknowledgeFailure
    <3> QED
      BY <3>1, <3>2
  <2>6. CASE CreatePending
    BY <2>6 DEF CreatePending, CanCreate, Unstarted, Calm, Built
  <2>7. ASSUME ~RecoverMember, ~QueueMissing, ~ReportFailure, ~RefreshDiscard,
               ~AcknowledgeFailure, ~CreatePending
        PROVE  UNCHANGED <<state, cand, pkg>>
    BY <2>7
    DEF Scan, ScanStart, ScanLock, RecoverCheck, Inspect, ReadTracks, ManualStart,
        SnapshotFails, SnapshotIrrelevant, SnapshotTaken, ScanDone
  <2> QED
    BY <2>1, <2>2, <2>3, <2>4, <2>5, <2>6, <2>7, <1>3
<1> QED
  BY <1>1, <1>2, <1>4, CalmStep

\* The delivery rows are the same and none of them stands for the newest revision
\* of a member whose state changes to Ready: what was sent stays as it was.
LEMMA ReadyStep ==
    ASSUME Typed, IInv, PInv, pc = "validate", SetState(turn, "Ready"),
           pc' \notin {"compile", "validate"}, Based',
           UNCHANGED <<delivery, pkg, paused>>
    PROVE  PInv'
<1>1. turn \in Members /\ state[turn] = "Validating"
  BY DEF Typed, TypeOK, IInv, Lane, Building
<1>2. /\ UNCHANGED <<cand, rev>>
      /\ \A m \in Members : state'[m] = IF m = turn THEN "Ready" ELSE state[m]
  BY DEF SetState, Typed, TypeOK
<1>3. Owned'
  BY <1>1, <1>2 DEF PInv, Owned, LastIs
<1>4. \A d \in Deliveries, m \in Members : Holds(d, m)' <=> Holds(d, m)
  BY <1>2 DEF Holds, LastSent
<1>5. \A d \in Deliveries : InFlight(d)' =>
            state'[delivery'[d].track] = "InTransit" /\ LastSent(d)'
  <2> SUFFICES ASSUME NEW d \in Deliveries, InFlight(d)
               PROVE  state'[delivery[d].track] = "InTransit" /\ LastSent(d)'
    BY DEF InFlight
  <2>1. delivery[d].track \in Members
    BY Row DEF InFlight, Typed, Statuses, Delivery
  <2>2. state[delivery[d].track] = "InTransit" /\ LastSent(d)
    BY DEF PInv, Sent
  <2> QED
    BY <1>1, <1>2, <2>1, <2>2 DEF LastSent
<1>6. Sent'
  BY <1>1, <1>2, <1>4, <1>5 DEF PInv, Sent
<1>7. Held'
  BY <1>2 DEF PInv, Held, Unsent
<1> QED
  BY <1>3, <1>6, <1>7 DEF PInv

LEMMA Appended ==
    ASSUME NEW S, NEW s \in Seq(S), NEW e \in S
    PROVE  /\ Len(Append(s, e)) = Len(s) + 1
           /\ Append(s, e) # <<>>
           /\ Append(s, e)[Len(Append(s, e))] = e
  OBVIOUS

\* A new revision is newer than everything that was sent.
LEMMA PairsRevision == ASSUME Typed, IInv, PInv, AddRevision PROVE PInv'
<1> USE DEF trackVars, packageVars, jobVars, operatorVars, catalogueVars, rest
<1>1. /\ turn \in Members /\ state[turn] = "Exporting" /\ base = pkg
      /\ rev \in [Members -> Seq([ver : Nat, pkg : Nat])]
      /\ [ver |-> cand[turn], pkg |-> base] \in [ver : Nat, pkg : Nat]
  BY DEF AddRevision, Typed, TypeOK, IInv, Lane, Building, PInv, Based
<1>2. /\ UNCHANGED <<state, cand, pkg, base, turn, delivery, paused>>
      /\ pc = "build" /\ pc' = "compile"
  BY DEF AddRevision, Goto
<1>3. \A m \in Members \ {turn} : rev'[m] = rev[m]
  BY <1>1 DEF AddRevision
<1>4. /\ Len(rev'[turn]) = Len(rev[turn]) + 1
      /\ rev'[turn] # <<>>
      /\ rev'[turn][Len(rev'[turn])] = [ver |-> cand[turn], pkg |-> base]
  <2>1. rev'[turn] = Append(rev[turn], [ver |-> cand[turn], pkg |-> base])
    BY <1>1 DEF AddRevision
  <2> QED
    BY <1>1, <2>1, Appended
<1>5. Based' /\ Held'
  BY <1>2 DEF PInv, Based, Held, Unsent
<1>6. Owned'
  <2>1. LastIs(turn)'
    BY <1>1, <1>2, <1>4 DEF LastIs
  <2>2. \A m \in Members : state'[m] \in Built => LastIs(m)'
    BY <1>1, <1>2, <1>3 DEF PInv, Owned, LastIs, Built
  <2> QED
    BY <1>2, <2>1, <2>2 DEF Owned
<1>7. \A d \in Deliveries : delivery[d].track \in Members => delivery[d].rev \in Nat
  BY DEF Typed, TypeOK, Delivery, NoDelivery
<1>8. \A d \in Deliveries : delivery'[d].track \in Members =>
            delivery'[d].rev <= Len(rev'[delivery'[d].track])
  <2> SUFFICES ASSUME NEW d \in Deliveries, delivery[d].track \in Members
               PROVE  delivery[d].rev <= Len(rev'[delivery[d].track])
    BY <1>2
  <2>1. delivery[d].rev \in Nat /\ delivery[d].rev <= Len(rev[delivery[d].track])
    BY <1>7 DEF PInv, Sent
  <2>2. Len(rev[turn]) \in Nat
    BY <1>1
  <2> QED
    BY <1>3, <1>4, <2>1, <2>2
<1>9. \A d \in Deliveries, m \in Members : Holds(d, m)' => m # turn /\ Holds(d, m)
  BY <1>1, <1>2, <1>3, <1>4, <1>7 DEF PInv, Sent, Holds, LastSent
<1>10. \A d \in Deliveries : InFlight(d)' =>
            state'[delivery'[d].track] = "InTransit" /\ LastSent(d)'
  <2> SUFFICES ASSUME NEW d \in Deliveries, InFlight(d)
               PROVE  state'[delivery[d].track] = "InTransit" /\ LastSent(d)'
    BY <1>2 DEF InFlight
  <2>1. delivery[d].track \in Members
    BY Row DEF InFlight, Typed, Statuses, Delivery
  <2>2. state[delivery[d].track] = "InTransit" /\ LastSent(d)
    BY DEF PInv, Sent
  <2> QED
    BY <1>1, <1>2, <1>3, <2>1, <2>2 DEF LastSent
<1>11. Sent'
  BY <1>2, <1>8, <1>9, <1>10 DEF PInv, Sent
<1> QED
  BY <1>5, <1>6, <1>11 DEF PInv

LEMMA PairsExport == ASSUME Typed, IInv, PInv, Export PROVE PInv'
<1> USE DEF Goto, Stop, Advance, ExportEnds, Other,
            trackVars, packageVars, jobVars, operatorVars, catalogueVars, rest
<1>1. turn \in Members /\ (pc \in {"compile", "validate", "build"} => state[turn] # "InTransit")
  BY DEF Typed, TypeOK, IInv, Lane, Building
<1>2. Based'
  BY <1>1 DEF Export, SkipMember, BeginMember, AddRevision, Compile, Validate, ReadyUnrecorded,
         ExportFails, RecordFailure, ProductExport, LaneFree, PInv, Based,
         Typed, TypeOK, Members
<1>3. UNCHANGED <<delivery, pkg, paused>>
  BY DEF Export, SkipMember, BeginMember, AddRevision, Compile, Validate, ReadyUnrecorded,
         ExportFails, RecordFailure, ProductExport
<1>4. CASE SkipMember \/ ExportFails
  <2>1. /\ UNCHANGED <<state, cand, rev>>
        /\ pc' \notin {"compile", "validate"}
    BY <1>4 DEF SkipMember, ExportFails
  <2> QED
    BY <1>2, <1>3, <2>1, CalmStep DEF Calm
<1>5. ASSUME NEW m \in Members, Begin(m), pc' = "build" PROVE PInv'
  <2>1. \A n \in Members : Calm(n)
    BY <1>3, <1>5 DEF Begin, CanBegin, Calm, Built, Typed, TypeOK
  <2> QED
    BY <1>2, <1>3, <1>5, <2>1, CalmStep DEF Begin
<1>6. CASE BeginMember
  BY <1>1, <1>5, <1>6 DEF BeginMember
<1>7. ASSUME NEW m \in Members, ProductExport(m) PROVE PInv'
  BY <1>5, <1>7 DEF ProductExport
<1>8. CASE AddRevision
  BY <1>8, PairsRevision
<1>9. CASE Compile
  <2>1. \A m \in Members : Calm(m)
    BY <1>1, <1>3, <1>9, SetCalm DEF Compile, Built
  <2> QED
    BY <1>2, <1>3, <1>9, <2>1, CalmStep DEF Compile, SetState
<1>10. CASE Validate \/ ReadyUnrecorded
  <2>1. /\ pc = "validate" /\ SetState(turn, "Ready")
        /\ pc' \notin {"compile", "validate"}
    BY <1>10 DEF Validate, ReadyUnrecorded
  <2> QED
    BY <1>2, <1>3, <2>1, ReadyStep
<1>11. CASE RecordFailure
  <2>1. \A m \in Members : Calm(m)
    <3>1. CASE SetState(turn, "Error")
      <4>1. state[turn] # "InTransit"
        BY <1>11 DEF RecordFailure, IInv, Lane, Building, Unsent
      <4> QED
        BY <1>1, <1>3, <3>1, <4>1, SetCalm DEF Built
    <3>2. CASE UNCHANGED trackVars
      BY <1>3, <3>2 DEF Calm
    <3> QED
      BY <1>11, <3>1, <3>2 DEF RecordFailure
  <2>2. UNCHANGED rev /\ pc' \notin {"compile", "validate"}
    BY <1>11 DEF RecordFailure, SetState
  <2> QED
    BY <1>2, <1>3, <2>1, <2>2, CalmStep
<1> QED
  BY <1>4, <1>6, <1>7, <1>8, <1>9, <1>10, <1>11 DEF Export

-----------------------------------------------------------------------------
(* Deliveries and their answers. *)

\* The candidate's revision is the newest one of a finished build.
LEMMA Newest ==
    ASSUME Typed, PInv, NEW m \in Members, state[m] \in Built
    PROVE  CandidateRevision(m) = {Len(rev[m])}
<1>1. rev[m] \in Seq([ver : Nat, pkg : Nat]) /\ LastIs(m)
  BY DEF Typed, TypeOK, PInv, Owned
<1>2. /\ Len(rev[m]) \in DOMAIN rev[m]
      /\ rev[m][Len(rev[m])].ver = cand[m]
      /\ \A j \in DOMAIN rev[m] : j \in Nat /\ j <= Len(rev[m])
  BY <1>1 DEF LastIs
<1>3. Len(rev[m]) \in CandidateRevision(m)
  BY <1>1, <1>2 DEF CandidateRevision
<1>4. \A i \in CandidateRevision(m) : i \in Nat /\ i <= Len(rev[m]) /\ Len(rev[m]) <= i
  BY <1>1, <1>2 DEF CandidateRevision
<1>5. \A i \in CandidateRevision(m) : i = Len(rev[m])
  BY <1>1, <1>4
<1> QED
  BY <1>3, <1>5

LEMMA PairsReserve ==
    ASSUME Typed, IInv, PInv, NEW m \in Members, Reserve(m)
    PROVE  PInv'
<1>1. PICK d \in Deliveries, i \in CandidateRevision(m) :
          /\ LaneFree /\ delivery[d] = NoDelivery /\ ~PauseCloses
          /\ state[m] = "Ready" /\ ~Submitted(m, i)
          /\ delivery' = [delivery EXCEPT ![d] =
                             [track |-> m, rev |-> i, status |-> "Sending"]]
          /\ SetState(m, "InTransit")
  BY DEF Reserve
<1>2. i = Len(rev[m])
  BY <1>1, Newest DEF Built
<1>3. /\ UNCHANGED <<pc, turn, base, cand, rev, pkg, paused>>
      /\ pc = "idle"
      /\ \A n \in Members : state'[n] = IF n = m THEN "InTransit" ELSE state[n]
  BY <1>1 DEF Reserve, SetState, LaneFree, packageVars, jobVars, operatorVars, Typed, TypeOK
<1>4. /\ delivery'[d] = [track |-> m, rev |-> i, status |-> "Sending"]
      /\ \A e \in Deliveries \ {d} : delivery'[e] = delivery[e]
  BY <1>1 DEF Typed, TypeOK
<1>5. Based' /\ Held'
  BY <1>1, <1>3 DEF PInv, Based, Held, Unsent, PauseCloses
<1>6. Owned'
  BY <1>1, <1>3 DEF PInv, Owned, LastIs, Built
<1>7. Len(rev[m]) \in Nat
  BY DEF Typed, TypeOK
<1>8. \A e \in Deliveries : ~Holds(e, m)
  BY <1>1 DEF PInv, Sent
<1>9. /\ Holds(d, m)' /\ InFlight(d)' /\ LastSent(d)'
      /\ \A n \in Members : Holds(d, n)' => n = m
      /\ \A e \in Deliveries \ {d}, n \in Members : Holds(e, n)' <=> Holds(e, n)
  BY <1>2, <1>3, <1>4 DEF Holds, InFlight, LastSent
<1>10. \A e \in Deliveries : InFlight(e)' =>
            state'[delivery'[e].track] = "InTransit" /\ LastSent(e)'
  <2> SUFFICES ASSUME NEW e \in Deliveries \ {d}, InFlight(e)
               PROVE  state'[delivery[e].track] = "InTransit" /\ LastSent(e)'
    BY <1>3, <1>4, <1>9 DEF InFlight
  <2>1. delivery[e].track \in Members
    BY Row DEF InFlight, Typed, Statuses, Delivery
  <2>2. state[delivery[e].track] = "InTransit" /\ LastSent(e)
    BY DEF PInv, Sent
  <2> QED
    BY <1>3, <1>4, <2>1, <2>2 DEF LastSent
<1>11. \A e \in Deliveries : delivery'[e].track \in Members =>
            delivery'[e].rev <= Len(rev'[delivery'[e].track])
  <2>1. \A e \in Deliveries \ {d} : delivery'[e].track \in Members =>
            delivery'[e].rev <= Len(rev'[delivery'[e].track])
    BY <1>3, <1>4 DEF PInv, Sent
  <2>2. delivery'[d].rev <= Len(rev'[delivery'[d].track])
    BY <1>2, <1>3, <1>4, <1>7
  <2> QED
    BY <2>1, <2>2
<1>12. \A e, f \in Deliveries, n \in Members : Holds(e, n)' /\ Holds(f, n)' => e = f
  BY <1>8, <1>9 DEF PInv, Sent
<1>13. \A n \in Members :
            state'[n] = "Ready" \/ (pc' \in {"compile", "validate"} /\ turn' = n)
                => \A e \in Deliveries : ~Holds(e, n)'
  BY <1>3, <1>9 DEF PInv, Sent
<1>14. Sent'
  BY <1>10, <1>11, <1>12, <1>13 DEF Sent
<1> QED
  BY <1>5, <1>6, <1>14 DEF PInv

\* An answer about a transfer in flight: only its own row and its own track
\* change, and the track is ready again only if nothing arrived.
LEMMA AnswerStep ==
    ASSUME Typed, IInv, PInv, NEW d \in Deliveries, InFlight(d),
           NEW st \in Statuses, NEW s \in Built,
           delivery' = [delivery EXCEPT ![d].status = st],
           \A n \in Members : state'[n] = IF n = delivery[d].track THEN s ELSE state[n],
           st \in {"Sending", "Uncertain", "Delivered"} => s = "InTransit",
           s = "Ready" => st = "NotDelivered",
           UNCHANGED <<pc, turn, base, cand, rev, pkg, paused>>
    PROVE  PInv'
<1> DEFINE m == delivery[d].track
<1>1. m \in Members
  BY Row DEF InFlight, Typed, Statuses, Delivery
<1>2. state[m] = "InTransit" /\ Holds(d, m)
  BY <1>1 DEF PInv, Sent, InFlight, Holds
<1>3. /\ delivery'[d].track = m /\ delivery'[d].rev = delivery[d].rev
      /\ delivery'[d].status = st
      /\ \A e \in Deliveries \ {d} : delivery'[e] = delivery[e]
  <2>1. delivery[d] \in Delivery
    BY Row DEF InFlight, Typed, Statuses
  <2> QED
    BY <2>1 DEF Typed, TypeOK, Delivery
<1>4. \A e \in Deliveries, n \in Members : Holds(e, n)' => Holds(e, n)
  BY <1>1, <1>2, <1>3 DEF Holds, LastSent
<1>5. st = "NotDelivered" => \A n \in Members : ~Holds(d, n)'
  BY <1>3 DEF Holds
<1>6. \A e \in Deliveries \ {d} : ~Holds(e, m)
  BY <1>1, <1>2 DEF PInv, Sent
<1>7. Based' /\ Owned'
  BY <1>2 DEF PInv, Based, Owned, LastIs, Built
<1>8. Held'
  BY <1>1, <1>2 DEF PInv, Held, Unsent
<1>9. \A e \in Deliveries : InFlight(e)' =>
            state'[delivery'[e].track] = "InTransit" /\ LastSent(e)'
  <2> SUFFICES ASSUME NEW e \in Deliveries, InFlight(e)'
               PROVE  state'[delivery'[e].track] = "InTransit" /\ LastSent(e)'
    OBVIOUS
  <2>1. CASE e = d
    BY <1>1, <1>2, <1>3, <2>1 DEF InFlight, Holds, LastSent
  <2>2. CASE e # d
    <3>1. InFlight(e) /\ delivery'[e] = delivery[e]
      BY <1>3, <2>2 DEF InFlight
    <3>2. delivery[e].track \in Members
      BY <3>1, Row DEF InFlight, Typed, Statuses, Delivery
    <3>3. state[delivery[e].track] = "InTransit" /\ LastSent(e)
      BY <3>1 DEF PInv, Sent
    <3>4. delivery[e].track # m
      BY <1>6, <2>2, <3>1, <3>3, <1>1 DEF Holds, InFlight
    <3> QED
      BY <3>1, <3>2, <3>3, <3>4 DEF LastSent
  <2> QED
    BY <2>1, <2>2
<1>10. \A e \in Deliveries : delivery'[e].track \in Members =>
            delivery'[e].rev <= Len(rev'[delivery'[e].track])
  BY <1>3 DEF PInv, Sent
<1>11. \A n \in Members :
            state'[n] = "Ready" \/ (pc' \in {"compile", "validate"} /\ turn' = n)
                => \A e \in Deliveries : ~Holds(e, n)'
  <2> SUFFICES ASSUME NEW n \in Members,
                      state'[n] = "Ready" \/ (pc \in {"compile", "validate"} /\ turn = n),
                      NEW e \in Deliveries
               PROVE  ~Holds(e, n)'
    OBVIOUS
  <2>1. CASE n = m /\ state'[n] = "Ready"
    BY <1>1, <1>4, <1>5, <1>6, <2>1
  <2>2. CASE ~(n = m /\ state'[n] = "Ready")
    BY <1>1, <1>4, <2>2 DEF PInv, Sent
  <2> QED
    BY <2>1, <2>2
<1>12. Sent'
  BY <1>4, <1>9, <1>10, <1>11 DEF PInv, Sent
<1> QED
  BY <1>7, <1>8, <1>12 DEF PInv

LEMMA PairsDelivering == ASSUME Typed, IInv, PInv, Delivering PROVE PInv'
<1> USE DEF trackVars, packageVars, jobVars, operatorVars, catalogueVars, rest
<1>1. ASSUME NEW m \in Members, Reserve(m) PROVE PInv'
  BY <1>1, PairsReserve
<1>2. CASE FinishUpload
  <2>1. UNCHANGED <<state, pc, turn, base, cand, rev, pkg, paused>>
    BY <1>2 DEF FinishUpload
  <2>2. CASE UNCHANGED delivery
    BY <2>1, <2>2, CalmStep DEF PInv, Based, Calm
  <2>3. CASE ~UNCHANGED delivery
    <3>1. PICK st \in {"Delivered", "Uncertain"} :
              delivery' = [delivery EXCEPT ![upload].status = st]
      BY <1>2, <2>3 DEF FinishUpload
    <3>2. upload \in Deliveries /\ InFlight(upload)
      BY <1>2 DEF FinishUpload, Typed, TypeOK, Uploading, InFlight
    <3>3. state[delivery[upload].track] = "InTransit"
      BY <3>2 DEF PInv, Sent
    <3>4. st \in Statuses /\ "InTransit" \in Built
      BY DEF Statuses, Built
    <3> QED
      BY <2>1, <3>1, <3>2, <3>3, <3>4, AnswerStep
  <2> QED
    BY <2>2, <2>3
<1>3. ASSUME NEW d \in Deliveries, Reconcile(d) PROVE PInv'
  <2>1. UNCHANGED <<pc, turn, base, cand, rev, pkg, paused>>
    BY <1>3 DEF Reconcile, SetState
  <2>2. PICK received \in BOOLEAN :
            /\ delivery' = [delivery EXCEPT ![d].status =
                               IF received THEN "Delivered" ELSE "NotDelivered"]
            /\ SetState(delivery[d].track, IF received THEN "InTransit" ELSE "Ready")
    BY <1>3 DEF Reconcile
  <2>3. InFlight(d)
    BY <1>3 DEF Reconcile, InFlight
  <2>4. \A n \in Members : state'[n] = IF n = delivery[d].track
                                       THEN IF received THEN "InTransit" ELSE "Ready"
                                       ELSE state[n]
    BY <2>2 DEF SetState, Typed, TypeOK
  <2>5. /\ (IF received THEN "Delivered" ELSE "NotDelivered") \in Statuses
        /\ (IF received THEN "InTransit" ELSE "Ready") \in Built
    BY DEF Statuses, Built
  <2> QED
    BY <2>1, <2>2, <2>3, <2>4, <2>5, AnswerStep
<1>4. ASSUME NEW d \in Deliveries, Acknowledge(d) PROVE PInv'
  <2>1. UNCHANGED <<pc, turn, base, cand, rev, pkg, paused>>
    BY <1>4 DEF Acknowledge, SetState
  <2>2. PICK decision \in {"Accepted", "Rejected"} :
            /\ delivery' = [delivery EXCEPT ![d].status = decision]
            /\ SetState(delivery[d].track, decision)
    BY <1>4 DEF Acknowledge
  <2>3. InFlight(d)
    BY <1>4 DEF Acknowledge, Answerable, InFlight
  <2>4. \A n \in Members :
            state'[n] = IF n = delivery[d].track THEN decision ELSE state[n]
    BY <2>2 DEF SetState, Typed, TypeOK
  <2>5. decision \in Statuses /\ decision \in Built
    BY DEF Statuses, Built
  <2> QED
    BY <2>1, <2>2, <2>3, <2>4, <2>5, AnswerStep
<1> QED
  BY <1>1, <1>2, <1>3, <1>4 DEF Delivering

-----------------------------------------------------------------------------
(* Operators, the finalizer, and a Worker that dies. *)

LEMMA PairsOperating == ASSUME Typed, IInv, PInv, Operating PROVE PInv'
<1> USE DEF trackVars, packageVars, jobVars, operatorVars, catalogueVars, rest
<1>1. UNCHANGED <<rev, delivery, pc, turn, base>>
  BY DEF Operating, OperatorDiscard, ProductDiscard, SetPaused, HoldCheck, HoldSet,
         ReleaseHold, Restore
<1>2. UNCHANGED <<cand, pkg>> \/ pc = "idle"
  BY DEF Operating, OperatorDiscard, ProductDiscard, SetPaused, HoldCheck, HoldSet,
         ReleaseHold, LaneFree
<1>3. Based'
  BY <1>1, <1>2 DEF PInv, Based
<1>4. paused' => paused \/ \A m \in Members : Unsent(m)
  BY DEF Operating, OperatorDiscard, ProductDiscard, SetPaused, PreSend, HoldCheck, HoldSet,
         ReleaseHold, Unsent
<1>5. \A m \in Members : Calm(m)
  <2>1. CASE OperatorDiscard
    BY <2>1, PairCalm DEF OperatorDiscard
  <2>2. ASSUME NEW m \in Members, ProductDiscard(m) PROVE \A n \in Members : Calm(n)
    <3>1. Restore({m}) /\ StablePrevious(m) /\ state[m] # "InTransit" /\ UNCHANGED pkg
      BY <2>2 DEF ProductDiscard, Discardable, CanDiscard
    <3>2. Calm(m)
      BY <3>1, RestoredCalm
    <3>3. \A n \in Members \ {m} : Calm(n)
      BY <3>1 DEF Restore, Calm
    <3> QED
      BY <3>2, <3>3
  <2>3. CASE SetPaused \/ HoldSet \/ \E m \in Members : HoldCheck(m) \/ ReleaseHold(m)
    BY <2>3 DEF SetPaused, HoldSet, HoldCheck, ReleaseHold, Calm
  <2> QED
    BY <2>1, <2>2, <2>3 DEF Operating
<1> QED
  BY <1>1, <1>2, <1>3, <1>4, <1>5, CalmStep

LEMMA PairsFinalizing == ASSUME Typed, IInv, PInv, Finalizing PROVE PInv'
<1> USE DEF trackVars, packageVars, jobVars, operatorVars, catalogueVars, rest, finRest
<1>1. UNCHANGED <<rev, delivery, pc, turn, base, paused>>
  BY DEF Finalizing, ReadPublication, PublishS128, Complete
<1>2. CASE UNCHANGED <<state, cand, pkg>>
  BY <1>1, <1>2, CalmStep DEF PInv, Based, Calm
<1>3. CASE ~UNCHANGED <<state, cand, pkg>>
  <2>1. Complete /\ state' = [m \in Members |-> "Idle"]
    BY <1>3 DEF Finalizing, ReadPublication, PublishS128, Complete
  <2>2. AllAccepted /\ pc = "idle"
    BY <2>1 DEF Complete, IInv, Lane, OneJob, NoPublication, Catalogued, Finalizer
  <2>3. \A m \in Members : Calm(m)
    BY <2>1, <2>2 DEF Calm, Built, AllAccepted
  <2> QED
    BY <1>1, <2>2, <2>3, CalmStep DEF PInv, Based
<1> QED
  BY <1>2, <1>3

LEMMA PairsIdle == ASSUME Typed, IInv, PInv, WorkerCrash \/ UNCHANGED vars PROVE PInv'
<1> USE DEF vars, trackVars, packageVars, jobVars, operatorVars, catalogueVars, rest
<1>1. UNCHANGED <<state, cand, rev, delivery, pkg, paused>>
  BY DEF WorkerCrash
<1>2. UNCHANGED <<pc, turn, base>> \/ (pc' = "idle" /\ base' = 0)
  BY DEF WorkerCrash, Stop
<1>3. Based'
  BY <1>1, <1>2 DEF PInv, Based
<1> QED
  BY <1>1, <1>2, <1>3, CalmStep DEF Calm

LEMMA PairsAlways == Spec => [](Typed /\ IInv /\ PInv)
<1>1. Typed /\ IInv /\ PInv /\ [Next]_vars => PInv'
  BY PairsScan, PairsExport, PairsDelivering, PairsOperating, PairsFinalizing, PairsIdle
  DEF Next
<1> QED
  BY <1>1, PInitially, Always, PTL DEF Spec

-----------------------------------------------------------------------------

\* What the members of an active package offer for delivery was built from that
\* package's snapshot, both from the same one: neither a Product export nor a
\* build that a dead Worker has left behind ends up in a package.
THEOREM PairIsOnePackage == Spec => []PairFromOnePackage
<1>1. PInv => PairFromOnePackage
  BY DEF PInv, Owned, Built, LastIs, PairFromOnePackage
<1> QED
  BY <1>1, PairsAlways, PTL

\* A candidate built from a package's snapshot does not outlive the package,
\* whether it is published, discarded by an operator or replaced by a scan.
THEOREM NothingOutlivesPackage == Spec => []NoOrphanSnapshot
<1>1. ASSUME PInv PROVE NoOrphanSnapshot
  <2> SUFFICES ASSUME NEW m \in Members, state[m] \in Built
               PROVE  rev[m][Len(rev[m])].pkg = pkg
    BY DEF Built, NoOrphanSnapshot
  <2>1. rev[m][Len(rev[m])] = [ver |-> cand[m], pkg |-> pkg]
    BY <1>1 DEF PInv, Owned, LastIs
  <2> QED
    BY <2>1
<1> QED
  BY <1>1, PairsAlways, PTL

\* While IC-ENC may hold a transfer that nobody has answered, its track keeps the
\* candidate and the revision that were sent.
THEOREM TransferKeepsCandidate == Spec => []InFlightKept
<1>1. ASSUME Typed, PInv PROVE InFlightKept
  <2> SUFFICES ASSUME NEW d \in Deliveries, InFlight(d)
               PROVE  state[delivery[d].track] = "InTransit" /\ Current(d)
    BY DEF InFlightKept, InFlight
  <2>1. delivery[d].track \in Members
    BY <1>1, Row DEF InFlight, Typed, Statuses, Delivery
  <2>2. state[delivery[d].track] = "InTransit" /\ LastSent(d)
    BY <1>1 DEF PInv, Sent
  <2>3. LastIs(delivery[d].track)
    BY <1>1, <2>1, <2>2 DEF PInv, Owned, Built
  <2> QED
    BY <2>2, <2>3 DEF LastIs, LastSent, Current
<1> QED
  BY <1>1, PairsAlways, PTL

\* A candidate that is shown as ready can be sent: it has a revision, and none
\* of its deliveries is under way or answered.
THEOREM ReadyCanBeSent == Spec => []ReadyUnsubmitted
<1>1. ASSUME Typed, PInv PROVE ReadyUnsubmitted
  <2> SUFFICES ASSUME NEW m \in Members, state[m] = "Ready"
               PROVE  /\ CandidateRevision(m) # {}
                      /\ \A i \in CandidateRevision(m) : ~Submitted(m, i)
    BY DEF ReadyUnsubmitted
  <2>1. CandidateRevision(m) = {Len(rev[m])}
    BY <1>1, Newest DEF Built
  <2>2. \A d \in Deliveries : ~Holds(d, m)
    BY <1>1 DEF PInv, Sent
  <2>3. ~Submitted(m, Len(rev[m]))
    BY <2>2 DEF Submitted, DeliveriesOf, Holds, LastSent
  <2> QED
    BY <2>1, <2>3
<1> QED
  BY <1>1, PairsAlways, PTL

\* Pausing a package keeps both its members from IC-ENC, also those of the
\* package that replaces the paused one.
THEOREM PauseHolds == Spec => []PauseHoldsDelivery
<1>1. PInv => PauseHoldsDelivery
  BY DEF PInv, Held, Unsent, PauseHoldsDelivery
<1> QED
  BY <1>1, PairsAlways, PTL

-----------------------------------------------------------------------------
(* The scan gets through: once it has given up the old package, or taken   *)
(* up a source whose snapshot failed, nothing stops the new package; and   *)
(* a source whose snapshot failed stays eligible.                          *)
(*                                                                         *)
(* The strengthening says what a job has established by the time it gets   *)
(* there and why it still holds: the API cannot take a Product lock        *)
(* (BothLocked), no answer of IC-ENC concerns a track without candidate,   *)
(* and every candidate goes back to a track a build may begin on (Origins).*)

\* A Product export is under way only while it builds; every other job that has
\* a package's tracks in hand has a package, and where a job goes from member to
\* member it begins with the S-101 product.
Control ==
    /\ mode = "product" => pc \in {"build", "compile", "validate", "failed"}
    /\ pc \in {"locked", "recover", "refresh", "inspect", "member"} => base # 0
    /\ pc \in {"build", "compile", "validate", "failed"} /\ mode # "product" => base # 0
    /\ pc \notin {"recover", "failing", "acknowledge", "member", "build", "compile",
                  "validate", "failed"} => turn = "S101"

\* While a job has both Product locks no hold request has one.
BothLocked ==
    pc \notin {"idle", "start", "done"} /\ mode # "product" => holder = None

\* What a candidate goes back to is a track without one; a track that no build
\* has touched has no candidate, and revisions belong to candidates.
Origins ==
    \A m \in Members :
        /\ prev[m] \in {None, "Idle", "ChangesDetected"}
        /\ state[m] = "Idle" => cand[m] = 0 /\ prev[m] = None
        /\ state[m] = "ChangesDetected" => cand[m] = 0
        /\ \A i \in DOMAIN rev[m] : rev[m][i].ver # 0

Free(m) == m \notin hold /\ cand[m] = 0 /\ state[m] \in {"Idle", "ChangesDetected"}

Failed(m) == m \notin hold /\ SnapshotFailure(m)

\* What the job has made sure of before it takes a snapshot without package, and
\* before it creates one.
Prepared ==
    /\ pc \in {"snapshot", "acknowledge"} /\ base = 0 => \A m \in Members : Free(m) \/ Failed(m)
    /\ pc = "acknowledge" => base = 0 /\ (turn = "S57" => Free("S101"))
    /\ pc = "create" => pkg = 0 /\ \A m \in Members : Free(m)

\* The trace of a failed snapshot and the replay row that goes with it.
Traced ==
    /\ FailedSnapshotKept
    /\ pc = "failing" => replay
    /\ pc = "failed" => cand[turn] # 0 \/ base # 0
    /\ pc = "done" => pkg # 0 \/ \A m \in Members : ~SnapshotFailure(m)

SInv == Control /\ BothLocked /\ Origins /\ Prepared /\ Traced

Known == Typed /\ IInv /\ PInv

LEMMA SInitially == Init => SInv
  BY DEF Init, SInv, Control, BothLocked, Origins, Prepared, Traced, FailedSnapshotKept,
         SnapshotFailure, Members, None

-----------------------------------------------------------------------------
(* Every step keeps it. *)

LEMMA ControlScan == ASSUME Known, SInv, Scan PROVE Control'
<1> USE DEF Goto, Stop, Advance, Other, Defer, ExportEnds, LaneFree,
            trackVars, packageVars, jobVars, operatorVars, catalogueVars, rest, Known, Typed, TypeOK, PInv, Based, SInv, Control, Members
<1>1. CASE ScanStart
  BY <1>1 DEF ScanStart
<1>2. CASE ScanLock
  BY <1>2 DEF ScanLock
<1>3. CASE RecoverCheck
  BY <1>3 DEF RecoverCheck
<1>4. CASE RecoverMember
  BY <1>4 DEF RecoverMember
<1>5. CASE QueueMissing
  BY <1>5 DEF QueueMissing
<1>6. CASE Inspect
  BY <1>6 DEF Inspect
<1>7. CASE ReadTracks
  BY <1>7 DEF ReadTracks
<1>8. CASE ManualStart
  BY <1>8 DEF ManualStart
<1>9. CASE SnapshotFails
  BY <1>9 DEF SnapshotFails
<1>10. CASE ReportFailure
  BY <1>10 DEF ReportFailure
<1>11. CASE SnapshotIrrelevant
  BY <1>11 DEF SnapshotIrrelevant
<1>12. CASE RefreshDiscard
  BY <1>12 DEF RefreshDiscard
<1>13. CASE SnapshotTaken
  BY <1>13 DEF SnapshotTaken
<1>14. CASE AcknowledgeFailure
  BY <1>14 DEF AcknowledgeFailure
<1>15. CASE CreatePending
  BY <1>15 DEF CreatePending
<1>16. CASE ScanDone
  BY <1>16 DEF ScanDone
<1> QED
  BY <1>1, <1>2, <1>3, <1>4, <1>5, <1>6, <1>7, <1>8, <1>9, <1>10, <1>11, <1>12, <1>13, <1>14, <1>15, <1>16 DEF Scan

LEMMA ControlExport == ASSUME Known, SInv, Export PROVE Control'
<1> USE DEF Goto, Stop, Advance, Other, Defer, ExportEnds, LaneFree,
            trackVars, packageVars, jobVars, operatorVars, catalogueVars, rest, Known, Typed, TypeOK, PInv, Based, SInv, Control, Members
<1>1. CASE SkipMember
  BY <1>1 DEF SkipMember
<1>2. CASE BeginMember
  BY <1>2 DEF BeginMember
<1>3. CASE AddRevision
  BY <1>3 DEF AddRevision
<1>4. CASE Compile
  BY <1>4 DEF Compile
<1>5. CASE Validate
  BY <1>5 DEF Validate
<1>6. CASE ReadyUnrecorded
  BY <1>6 DEF ReadyUnrecorded
<1>7. CASE ExportFails
  BY <1>7 DEF ExportFails
<1>8. CASE RecordFailure
  BY <1>8 DEF RecordFailure
<1>9. ASSUME NEW m \in Members, ProductExport(m) PROVE Control'
  BY <1>9 DEF ProductExport
<1> QED
  BY <1>1, <1>2, <1>3, <1>4, <1>5, <1>6, <1>7, <1>8, <1>9 DEF Export

\* A step that is not a job's, or that only ends one, with the jobs' own state.
LEMMA ControlRest ==
    ASSUME Known, SInv, Delivering \/ Operating \/ Finalizing \/ WorkerCrash \/ UNCHANGED vars
    PROVE  Control'
<1>1. UNCHANGED jobVars \/ Stop
  BY DEF Delivering, Reserve, FinishUpload, Reconcile, Acknowledge, Operating, OperatorDiscard,
         ProductDiscard, SetPaused, HoldCheck, HoldSet, ReleaseHold, Finalizing,
         ReadPublication, PublishS128, Complete, WorkerCrash, vars, finRest
<1> QED
  BY <1>1 DEF jobVars, Stop, SInv, Control

LEMMA LocksKept == ASSUME Known, SInv, [Next]_vars PROVE BothLocked'
<1> USE DEF SInv, Control, BothLocked, Goto, Stop, Advance, Defer, ExportEnds, LaneFree,
            trackVars, packageVars, jobVars, operatorVars, catalogueVars, rest
<1>1. CASE Scan
  BY <1>1
  DEF Scan, ScanStart, ScanLock, RecoverCheck, RecoverMember, QueueMissing, Inspect, ReadTracks,
      ManualStart, SnapshotFails, ReportFailure, SnapshotIrrelevant, RefreshDiscard,
      SnapshotTaken, AcknowledgeFailure, CreatePending, ScanDone
<1>2. CASE Export
  BY <1>2
  DEF Export, SkipMember, BeginMember, AddRevision, Compile, Validate, ReadyUnrecorded,
      ExportFails, RecordFailure, ProductExport
<1>3. CASE Delivering \/ Finalizing \/ WorkerCrash \/ UNCHANGED vars
  BY <1>3
  DEF Delivering, Reserve, FinishUpload, Reconcile, Acknowledge, Finalizing, ReadPublication,
      PublishS128, Complete, WorkerCrash, vars, finRest
<1>4. CASE Operating
  BY <1>4
  DEF Operating, OperatorDiscard, ProductDiscard, SetPaused, HoldCheck, HoldSet, ReleaseHold,
      Locked, WorkerLocks
<1> QED
  BY <1>1, <1>2, <1>3, <1>4 DEF Next

\* A track without candidate has no candidate's revision, so no delivery blocks it.
LEMMA NothingBlocks ==
    ASSUME SInv, NEW m \in Members, cand[m] = 0
    PROVE  ~DeliveryBlocks(m)
  BY DEF SInv, Origins, DeliveryBlocks, CandidateRevision

LEMMA RestoredOrigins ==
    ASSUME Known, SInv, NEW M, Restore(M)
    PROVE  /\ Origins'
           /\ \A m \in M \cap Members :
                  /\ cand'[m] = 0 /\ state'[m] \in {"Idle", "ChangesDetected"}
                  /\ prev'[m] = None
           /\ \A m \in Members \ M : UNCHANGED <<state[m], cand[m], prev[m]>>
<1>1. \A m \in Members : prev[m] \in {None, "Idle", "ChangesDetected"}
  BY DEF SInv, Origins
<1>2. \A m \in Members : RestoredState(prev[m]) \in {"Idle", "ChangesDetected"}
  BY <1>1 DEF RestoredState
<1>3. \A m \in M \cap Members : /\ cand'[m] = 0 /\ prev'[m] = None
                                /\ state'[m] \in {"Idle", "ChangesDetected"}
  BY <1>2 DEF Restore
<1>4. \A m \in Members \ M : UNCHANGED <<state[m], cand[m], prev[m]>>
  BY DEF Restore
<1>5. rev' = rev
  BY DEF Restore
<1> QED
  BY <1>1, <1>3, <1>4, <1>5 DEF SInv, Origins

\* A track that is set to a state of a build, or to the state it has.
LEMMA SetOrigins ==
    ASSUME Known, SInv, NEW m \in Members, NEW s, SetState(m, s),
           s \notin {"Idle", "ChangesDetected"} \/ s = state[m]
    PROVE  Origins'
  BY DEF Known, Typed, TypeOK, SetState, SInv, Origins

LEMMA OriginsScan == ASSUME Known, SInv, Scan PROVE Origins'
<1> USE DEF Goto, Stop, Advance, Defer, packageVars
<1>1. CASE UNCHANGED trackVars
  BY <1>1 DEF trackVars, SInv, Origins
<1>2. CASE RecoverMember
  BY <1>1, <1>2, SetOrigins DEF RecoverMember, Known, Typed, TypeOK
<1>3. CASE QueueMissing
  <2>1. CASE pkg = base /\ PairDiscardable(TRUE)
    <3>1. UNCHANGED <<cand, rev>>
      BY <1>3, <2>1 DEF QueueMissing
    <3>2. \A m \in Members :
              /\ state'[m] = IF Unstarted(m) THEN "ChangesDetected" ELSE state[m]
              /\ prev'[m] = IF Unstarted(m) /\ prev[m] = None THEN state[m] ELSE prev[m]
      BY <1>3, <2>1 DEF QueueMissing
    <3> QED
      BY <3>1, <3>2 DEF SInv, Origins, Unstarted
  <2>2. CASE ~(pkg = base /\ PairDiscardable(TRUE))
    BY <1>1, <1>3, <2>2 DEF QueueMissing
  <2> QED
    BY <2>1, <2>2
<1>4. CASE ReportFailure
  <2>1. turn \in Members /\ SetState(turn, ReportedState(turn))
    BY <1>4 DEF ReportFailure, Known, Typed, TypeOK
  <2>2. ReportedState(turn) = "Error" \/ ReportedState(turn) = state[turn]
    BY <1>4 DEF ReportFailure, ReportedState, Known, IInv, Lane, Snapshotting
  <2> QED
    BY <2>1, <2>2, SetOrigins
<1>5. CASE RefreshDiscard
  BY <1>1, <1>5, RestoredOrigins DEF RefreshDiscard
<1>6. CASE AcknowledgeFailure
  BY <1>1, <1>6, RestoredOrigins DEF AcknowledgeFailure
<1>7. CASE CreatePending
  BY <1>7 DEF CreatePending, CanCreate, Unstarted, SInv, Origins
<1>8. ASSUME ~RecoverMember, ~QueueMissing, ~ReportFailure, ~RefreshDiscard,
             ~AcknowledgeFailure, ~CreatePending
      PROVE  UNCHANGED trackVars
  BY <1>8
  DEF Scan, ScanStart, ScanLock, RecoverCheck, Inspect, ReadTracks, ManualStart,
      SnapshotFails, SnapshotIrrelevant, SnapshotTaken, ScanDone
<1> QED
  BY <1>1, <1>2, <1>3, <1>4, <1>5, <1>6, <1>7, <1>8

LEMMA AppendedRows ==
    ASSUME NEW S, NEW s \in Seq(S), NEW e \in S, NEW i \in DOMAIN Append(s, e)
    PROVE  Append(s, e)[i] = e \/ (i \in DOMAIN s /\ Append(s, e)[i] = s[i])
  OBVIOUS

LEMMA OriginsExport == ASSUME Known, SInv, Export PROVE Origins'
<1>1. turn \in Members
  BY DEF Known, Typed, TypeOK
<1>2. CASE UNCHANGED trackVars
  BY <1>2 DEF trackVars, SInv, Origins
<1>3. ASSUME NEW m \in Members, Begin(m) PROVE Origins'
  <2>1. /\ rev' = rev /\ state'[m] = "Exporting"
        /\ \A n \in Members \ {m} : UNCHANGED <<state[n], cand[n], prev[n]>>
    BY <1>3 DEF Begin, Known, Typed, TypeOK
  <2>2. prev'[m] \in {None, "Idle", "ChangesDetected"}
    BY <1>3 DEF Begin, CanBegin, RestoredState, Known, Typed, TypeOK, SInv, Origins
  <2> QED
    BY <2>1, <2>2 DEF SInv, Origins
<1>4. CASE BeginMember
  BY <1>1, <1>3, <1>4 DEF BeginMember
<1>5. ASSUME NEW m \in Members, ProductExport(m) PROVE Origins'
  BY <1>3, <1>5 DEF ProductExport
<1>6. CASE AddRevision
  <2>1. cand[turn] # 0 /\ UNCHANGED <<state, prev, cand>>
    BY <1>6 DEF AddRevision, Known, IInv, Lane, Building
  <2>2. /\ rev[turn] \in Seq([ver : Nat, pkg : Nat])
        /\ [ver |-> cand[turn], pkg |-> base] \in [ver : Nat, pkg : Nat]
    BY <1>1 DEF Known, Typed, TypeOK
  <2>3. /\ rev'[turn] = Append(rev[turn], [ver |-> cand[turn], pkg |-> base])
        /\ \A m \in Members \ {turn} : rev'[m] = rev[m]
    BY <1>1, <1>6 DEF AddRevision, Known, Typed, TypeOK
  <2>4. \A i \in DOMAIN rev'[turn] : rev'[turn][i].ver # 0
    BY <1>1, <2>1, <2>2, <2>3, AppendedRows DEF SInv, Origins
  <2> QED
    BY <2>1, <2>3, <2>4 DEF SInv, Origins
<1>7. CASE Compile
  BY <1>1, <1>7, SetOrigins DEF Compile
<1>8. CASE Validate
  BY <1>1, <1>8, SetOrigins DEF Validate
<1>9. CASE ReadyUnrecorded
  BY <1>1, <1>9, SetOrigins DEF ReadyUnrecorded
<1>10. CASE RecordFailure
  BY <1>1, <1>2, <1>10, SetOrigins DEF RecordFailure
<1>11. CASE SkipMember \/ ExportFails
  BY <1>2, <1>11 DEF SkipMember, ExportFails
<1> QED
  BY <1>4, <1>5, <1>6, <1>7, <1>8, <1>9, <1>10, <1>11 DEF Export

\* What happens beside a running job: an answer of IC-ENC changes a track in
\* transit, and no hold is placed while the job has both locks.
LEMMA Beside ==
    ASSUME Known, SInv, Delivering \/ Operating \/ Finalizing, pc # "idle"
    PROVE  /\ UNCHANGED <<prev, cand, rev, pkg, replay, jobVars>>
           /\ \A m \in Members :
                  state'[m] = state[m] \/ (state[m] = "InTransit" /\ state'[m] \in Built)
           /\ holder = None => hold' \subseteq hold
<1> USE DEF trackVars, packageVars, operatorVars, catalogueVars, rest, LaneFree
<1>1. CASE Delivering
  <2>1. CASE FinishUpload
    BY <2>1 DEF FinishUpload
  <2>2. ASSUME NEW m \in Members, Reserve(m) PROVE FALSE
    BY <2>2 DEF Reserve
  <2>3. ASSUME NEW d \in Deliveries, NEW s \in Built, SetState(delivery[d].track, s),
               state[delivery[d].track] = "InTransit"
        PROVE  \A m \in Members :
                  state'[m] = state[m] \/ (state[m] = "InTransit" /\ state'[m] \in Built)
    BY <2>3 DEF SetState, Known, Typed, TypeOK
  <2>4. ASSUME NEW d \in Deliveries, Reconcile(d)
        PROVE  /\ UNCHANGED <<prev, cand, rev, pkg, replay, jobVars, hold>>
               /\ \A m \in Members :
                  state'[m] = state[m] \/ (state[m] = "InTransit" /\ state'[m] \in Built)
    <3>1. PICK s \in Built : SetState(delivery[d].track, s)
      BY <2>4 DEF Reconcile, Built
    <3> QED
      BY <2>3, <2>4, <3>1 DEF Reconcile, SetState
  <2>5. ASSUME NEW d \in Deliveries, Acknowledge(d)
        PROVE  /\ UNCHANGED <<prev, cand, rev, pkg, replay, jobVars, hold>>
               /\ \A m \in Members :
                  state'[m] = state[m] \/ (state[m] = "InTransit" /\ state'[m] \in Built)
    <3>1. PICK s \in Built : SetState(delivery[d].track, s)
      BY <2>5 DEF Acknowledge, Built
    <3> QED
      BY <2>3, <2>5, <3>1 DEF Acknowledge, Answerable, SetState
  <2> QED
    BY <1>1, <2>1, <2>2, <2>4, <2>5 DEF Delivering
<1>2. CASE Operating
  BY <1>2 DEF Operating, OperatorDiscard, ProductDiscard, SetPaused, HoldCheck, HoldSet,
              ReleaseHold
<1>3. CASE Finalizing
  BY <1>3 DEF Finalizing, ReadPublication, PublishS128, Complete, Known, IInv, Lane, OneJob,
              NoPublication
<1> QED
  BY <1>1, <1>2, <1>3

LEMMA OriginsRest ==
    ASSUME Known, SInv, Delivering \/ Operating \/ Finalizing \/ WorkerCrash \/ UNCHANGED vars
    PROVE  Origins'
<1>1. CASE UNCHANGED trackVars
  BY <1>1 DEF trackVars, SInv, Origins
<1>2. ASSUME NEW m \in Members, Reserve(m) PROVE Origins'
  BY <1>2, SetOrigins DEF Reserve
<1>3. ASSUME NEW d \in Deliveries, Reconcile(d) \/ Acknowledge(d) PROVE Origins'
  <2>1. delivery[d].track \in Members
    BY <1>3, Row DEF Reconcile, Acknowledge, Answerable, Known, Typed, Statuses, Delivery
  <2>2. PICK s \in Built : SetState(delivery[d].track, s)
    BY <1>3 DEF Reconcile, Acknowledge, Built
  <2> QED
    BY <2>1, <2>2, SetOrigins DEF Built
<1>4. CASE OperatorDiscard
  BY <1>4, RestoredOrigins DEF OperatorDiscard
<1>5. ASSUME NEW m \in Members, ProductDiscard(m) PROVE Origins'
  BY <1>5, RestoredOrigins DEF ProductDiscard
<1>6. CASE Complete
  <2>1. CASE UNCHANGED trackVars
    BY <1>1, <2>1
  <2>2. CASE /\ state' = [m \in Members |-> "Idle"] /\ prev' = [m \in Members |-> None]
             /\ cand' = [m \in Members |-> 0] /\ UNCHANGED rev
    BY <2>2 DEF SInv, Origins
  <2> QED
    BY <1>6, <2>1, <2>2 DEF Complete
<1>7. CASE FinishUpload \/ WorkerCrash \/ UNCHANGED vars
  BY <1>1, <1>7 DEF FinishUpload, WorkerCrash, vars
<1>8. CASE SetPaused \/ HoldSet \/ \E m \in Members : HoldCheck(m) \/ ReleaseHold(m)
  BY <1>1, <1>8 DEF SetPaused, HoldSet, HoldCheck, ReleaseHold
<1>9. CASE ReadPublication \/ PublishS128
  BY <1>1, <1>9 DEF ReadPublication, PublishS128, finRest
<1> QED
  BY <1>2, <1>3, <1>4, <1>5, <1>6, <1>7, <1>8, <1>9 DEF Delivering, Operating, Finalizing

LEMMA PreparedScan == ASSUME Known, SInv, Scan PROVE Prepared'
<1> USE DEF Goto, Stop, Advance, Other, Defer, packageVars, operatorVars, rest
<1>1. CASE ReadTracks
  BY <1>1 DEF ReadTracks, UnownedBlocks, Unowned, RefreshBlocked, InBuild, Prepared, Free, Failed,
              SnapshotFailure, Known, Typed, TypeOK, States, SInv, Origins, trackVars, IInv, Lane
<1>2. CASE ManualStart
  BY <1>2 DEF ManualStart, Unowned, RefreshBlocked, InBuild, Prepared, Free, Failed,
              SnapshotFailure, Known, Typed, TypeOK, States, SInv, Origins, trackVars, IInv, Lane
<1>3. CASE RefreshDiscard
  <2>1. CASE pkg = base /\ PairDiscardable(TRUE)
    <3>1. /\ pc' \in {"create", "done"} /\ pkg' = 0
          /\ Restore(Members) /\ UNCHANGED hold
          /\ \A m \in Members : m \notin hold
      BY <1>3, <2>1 DEF RefreshDiscard, PairDiscardable
    <3>2. \A m \in Members : cand'[m] = 0 /\ state'[m] \in {"Idle", "ChangesDetected"}
      BY <3>1, RestoredOrigins
    <3> QED
      BY <3>1, <3>2 DEF Prepared, Free
  <2>2. CASE ~(pkg = base /\ PairDiscardable(TRUE))
    BY <1>3, <2>2 DEF RefreshDiscard, Prepared
  <2> QED
    BY <2>1, <2>2
<1>4. CASE SnapshotTaken
  <2>1. /\ pc = "snapshot" /\ base = 0 /\ turn = "S101" /\ pc' = "acknowledge"
        /\ UNCHANGED <<base, turn, state, cand, hold>>
    BY <1>4 DEF SnapshotTaken, trackVars, SInv, Control
  <2> QED
    BY <2>1 DEF SInv, Prepared, Free, Failed, SnapshotFailure
<1>5. CASE AcknowledgeFailure
  <2>1. /\ pc = "acknowledge" /\ base = 0 /\ pkg = 0 /\ turn \in Members
        /\ UNCHANGED <<base, pkg, hold>>
    BY <1>5 DEF AcknowledgeFailure, Known, Typed, TypeOK, PInv, Based, SInv, Prepared
  <2>2. \A m \in Members : Free(m) \/ Failed(m)
    BY <2>1 DEF SInv, Prepared
  <2>3. \A m \in Members : IF m = turn THEN Free(m)' ELSE UNCHANGED <<state[m], cand[m]>>
    <3>1. CASE SnapshotFailure(turn)
      <4>1. Restore({turn}) /\ turn \notin hold
        BY <1>5, <2>1, <2>2, <3>1 DEF AcknowledgeFailure, Discardable
      <4>2. /\ \A m \in {turn} \cap Members :
                  cand'[m] = 0 /\ state'[m] \in {"Idle", "ChangesDetected"}
            /\ \A m \in Members \ {turn} : UNCHANGED <<state[m], cand[m]>>
        BY <4>1, RestoredOrigins
      <4> QED
        BY <2>1, <4>1, <4>2 DEF Free
    <3>2. CASE ~SnapshotFailure(turn)
      BY <1>5, <2>1, <2>2, <3>2 DEF AcknowledgeFailure, trackVars, Free, Failed
    <3> QED
      BY <3>1, <3>2
  <2>4. \A m \in Members \ {turn} : (Free(m) => Free(m)') /\ (Failed(m) => Failed(m)')
    BY <2>1, <2>3 DEF Free, Failed, SnapshotFailure
  <2>5. CASE turn = "S101"
    <3>1. pc' = "acknowledge" /\ turn' = "S57"
      BY <1>5, <2>5 DEF AcknowledgeFailure
    <3> QED
      BY <2>1, <2>2, <2>3, <2>4, <2>5, <3>1 DEF Prepared
  <2>6. CASE turn # "S101"
    <3>1. pc' \in {"create", "done"} /\ turn = "S57" /\ Free("S101")
      BY <1>5, <2>1, <2>6 DEF AcknowledgeFailure, Members, SInv, Prepared
    <3> QED
      BY <2>1, <2>3, <2>4, <3>1 DEF Prepared, Members
  <2> QED
    BY <2>5, <2>6
<1>6. ASSUME ~ReadTracks, ~ManualStart, ~RefreshDiscard, ~SnapshotTaken, ~AcknowledgeFailure
      PROVE  pc' \notin {"snapshot", "acknowledge", "create"}
  BY <1>6
  DEF Scan, ScanStart, ScanLock, RecoverCheck, RecoverMember, QueueMissing, Inspect,
      SnapshotFails, ReportFailure, SnapshotIrrelevant, CreatePending, ScanDone
<1> QED
  BY <1>1, <1>2, <1>3, <1>4, <1>5, <1>6 DEF Prepared

LEMMA PreparedExport == ASSUME Known, SInv, Export PROVE Prepared'
<1>1. pc' \notin {"snapshot", "acknowledge", "create"}
  BY DEF Export, SkipMember, BeginMember, AddRevision, Compile, Validate, ReadyUnrecorded,
         ExportFails, RecordFailure, ProductExport, Goto, Stop, Advance, ExportEnds
<1> QED
  BY <1>1 DEF Prepared

LEMMA PreparedRest ==
    ASSUME Known, SInv, Delivering \/ Operating \/ Finalizing \/ WorkerCrash \/ UNCHANGED vars
    PROVE  Prepared'
<1>1. CASE pc \in {"snapshot", "acknowledge", "create"} /\ (Delivering \/ Operating \/ Finalizing)
  <2>1. /\ UNCHANGED <<cand, pkg, pc, base, turn>>
        /\ \A m \in Members : state'[m] = state[m] \/ state[m] = "InTransit"
        /\ hold' \subseteq hold
    <3>1. holder = None
      BY <1>1 DEF SInv, Control, BothLocked
    <3> QED
      BY <1>1, <3>1, Beside DEF jobVars
  <2>2. \A m \in Members : (Free(m) => Free(m)') /\ (Failed(m) => Failed(m)')
    BY <2>1 DEF Free, Failed, SnapshotFailure
  <2> QED
    BY <2>1, <2>2 DEF SInv, Prepared, Members
<1>2. CASE pc \notin {"snapshot", "acknowledge", "create"} /\ (Delivering \/ Operating \/ Finalizing)
  <2>1. pc' = pc
    BY <1>2
    DEF Delivering, Reserve, FinishUpload, Reconcile, Acknowledge, Operating, OperatorDiscard,
        ProductDiscard, SetPaused, HoldCheck, HoldSet, ReleaseHold, Finalizing,
        ReadPublication, PublishS128, Complete, jobVars, finRest
  <2> QED
    BY <1>2, <2>1 DEF Prepared
<1>3. CASE WorkerCrash
  BY <1>3 DEF WorkerCrash, Stop, Prepared
<1>4. CASE UNCHANGED vars
  BY <1>4
  DEF vars, trackVars, packageVars, jobVars, operatorVars, rest, SInv, Prepared, Free, Failed,
      SnapshotFailure
<1> QED
  BY <1>1, <1>2, <1>3, <1>4

\* A step that leaves no new trace of a failed snapshot and keeps the replay row.
LEMMA TracedStep ==
    ASSUME Known, SInv, pc' \notin {"failing", "failed", "done"}, replay => replay',
           \A m \in Members : SnapshotFailure(m)' =>
               replay' \/ pkg' # 0 \/ (pkg = 0 /\ SnapshotFailure(m))
    PROVE  Traced'
  BY DEF SInv, Traced, FailedSnapshotKept

LEMMA TracedScan == ASSUME Known, SInv, Scan PROVE Traced'
<1> USE DEF Goto, Stop, Advance, Other, Defer, packageVars, operatorVars, rest
<1>1. ASSUME UNCHANGED <<trackVars, pkg>> PROVE \A m \in Members : SnapshotFailure(m)' <=> SnapshotFailure(m)
  BY <1>1 DEF trackVars, SnapshotFailure
<1>2. CASE RecoverMember
  <2>1. /\ pc' \notin {"failing", "failed", "done"} /\ UNCHANGED <<replay, pkg>>
        /\ turn \in Members
    BY <1>2 DEF RecoverMember, Known, Typed, TypeOK
  <2>2. CASE SetState(turn, "Error") /\ InBuild(turn)
    <3>1. cand[turn] # 0 /\ cand' = cand
          /\ \A m \in Members : state'[m] = IF m = turn THEN "Error" ELSE state[m]
      BY <2>1, <2>2 DEF SetState, InBuild, Known, IInv, Lane, Candidates, Typed, TypeOK
    <3> QED
      BY <2>1, <3>1, TracedStep DEF SnapshotFailure
  <2>3. CASE UNCHANGED trackVars
    BY <1>1, <2>1, <2>3, TracedStep
  <2> QED
    BY <1>2, <2>2, <2>3 DEF RecoverMember
<1>3. CASE QueueMissing
  <2>1. /\ pc' \notin {"failing", "failed", "done"} /\ (replay => replay') /\ pkg' = pkg
        /\ cand' = cand
    BY <1>3 DEF QueueMissing, trackVars
  <2>2. \A m \in Members : state'[m] = state[m] \/ state'[m] = "ChangesDetected"
    BY <1>3, Queued DEF QueueMissing, trackVars
  <2> QED
    BY <2>1, <2>2, TracedStep DEF SnapshotFailure
<1>4. CASE SnapshotFails
  BY <1>1, <1>4 DEF SnapshotFails, trackVars, Traced, FailedSnapshotKept
<1>5. CASE ReportFailure
  <2>1. replay /\ UNCHANGED <<replay, pkg>> /\ pc' \in {"failing", "idle"}
    BY <1>5 DEF ReportFailure, SInv, Traced
  <2> QED
    BY <2>1 DEF Traced, FailedSnapshotKept
<1>6. CASE RefreshDiscard
  <2>1. CASE pkg = base /\ PairDiscardable(TRUE)
    <3>1. Restore(Members) /\ replay' /\ pc' \in {"create", "done"}
      BY <1>6, <2>1 DEF RefreshDiscard
    <3>2. \A m \in Members : ~SnapshotFailure(m)'
      BY <3>1, RestoredOrigins DEF SnapshotFailure
    <3> QED
      BY <3>1, <3>2 DEF Traced, FailedSnapshotKept
  <2>2. CASE ~(pkg = base /\ PairDiscardable(TRUE))
    BY <1>1, <1>6, <2>2, TracedStep DEF RefreshDiscard
  <2> QED
    BY <2>1, <2>2
<1>7. CASE AcknowledgeFailure
  <2>1. /\ pc = "acknowledge" /\ base = 0 /\ turn \in Members /\ UNCHANGED <<pkg, replay, hold>>
        /\ pc' \in {"acknowledge", "create", "done"}
        /\ pc' # "acknowledge" => turn = "S57"
    BY <1>7 DEF AcknowledgeFailure, Known, Typed, TypeOK, SInv, Prepared, Members
  <2>2. \A m \in Members :
            IF m = turn THEN ~SnapshotFailure(m)' ELSE UNCHANGED <<state[m], cand[m]>>
    <3>1. CASE SnapshotFailure(turn)
      <4>1. Restore({turn})
        BY <1>7, <3>1 DEF AcknowledgeFailure
      <4>2. /\ \A m \in {turn} \cap Members : state'[m] \in {"Idle", "ChangesDetected"}
            /\ \A m \in Members \ {turn} : UNCHANGED <<state[m], cand[m]>>
        BY <4>1, RestoredOrigins
      <4> QED
        BY <2>1, <4>2 DEF SnapshotFailure
    <3>2. CASE ~SnapshotFailure(turn)
      BY <1>7, <3>2 DEF AcknowledgeFailure, trackVars, SnapshotFailure
    <3> QED
      BY <3>1, <3>2
  <2>3. turn = "S57" => \A m \in Members : ~SnapshotFailure(m)'
    BY <2>1, <2>2 DEF SInv, Prepared, Free, SnapshotFailure, Members
  <2>4. \A m \in Members : SnapshotFailure(m)' => SnapshotFailure(m)
    BY <2>2 DEF SnapshotFailure
  <2> QED
    BY <2>1, <2>3, <2>4 DEF SInv, Traced, FailedSnapshotKept
<1>8. CASE CreatePending
  BY <1>8 DEF CreatePending, Traced, FailedSnapshotKept, SnapshotFailure
<1>9. CASE ScanDone
  <2>1. /\ pkg # 0 \/ \A m \in Members : ~SnapshotFailure(m)
        /\ pc' = "idle" /\ UNCHANGED <<trackVars, pkg>>
    BY <1>9 DEF ScanDone, SInv, Traced
  <2> QED
    BY <1>1, <2>1 DEF Traced, FailedSnapshotKept
<1>10. ASSUME ~RecoverMember, ~QueueMissing, ~SnapshotFails, ~ReportFailure, ~RefreshDiscard,
              ~AcknowledgeFailure, ~CreatePending, ~ScanDone
       PROVE  Traced'
  <2>1. UNCHANGED <<trackVars, pkg>> /\ pc' \notin {"failing", "failed", "done"}
    BY <1>10
    DEF Scan, ScanStart, ScanLock, RecoverCheck, Inspect, ReadTracks, ManualStart,
        SnapshotIrrelevant, SnapshotTaken
  <2>2. ScanStart \/ replay' = TRUE \/ replay' = replay
    BY <1>10
    DEF Scan, ScanLock, RecoverCheck, Inspect, ReadTracks, ManualStart, SnapshotIrrelevant,
        SnapshotTaken
  <2>3. replay => replay'
    BY <2>2 DEF ScanStart
  <2> QED
    BY <1>1, <2>1, <2>3, TracedStep
<1> QED
  BY <1>2, <1>3, <1>4, <1>5, <1>6, <1>7, <1>8, <1>9, <1>10

LEMMA TracedExport == ASSUME Known, SInv, Export PROVE Traced'
<1> USE DEF Goto, Stop, Advance, Other, ExportEnds, packageVars, operatorVars, rest
<1>1. /\ UNCHANGED <<replay, pkg>> /\ turn \in Members
      /\ pc \notin {"idle", "create", "done"} => base = pkg
      /\ mode # "product" /\ pc \in {"member", "build", "compile", "validate", "failed"} => base # 0
      /\ pc = "member" => base # 0
  BY DEF Export, SkipMember, BeginMember, AddRevision, Compile, Validate, ReadyUnrecorded,
         ExportFails, RecordFailure, ProductExport, Known, Typed, TypeOK, PInv, Based,
         SInv, Control
<1>2. CASE SkipMember
  <2>1. UNCHANGED trackVars /\ base # 0 /\ base = pkg /\ pc' \in {"member", "done"}
    BY <1>1, <1>2 DEF SkipMember
  <2> QED
    BY <1>1, <2>1 DEF Traced, FailedSnapshotKept
<1>3. ASSUME NEW m \in Members, Begin(m), pc' = "build" PROVE Traced'
  <2>1. \A n \in Members : SnapshotFailure(n)' => SnapshotFailure(n)
    BY <1>3 DEF Begin, SnapshotFailure, Known, Typed, TypeOK
  <2> QED
    BY <1>1, <1>3, <2>1, TracedStep
<1>4. CASE BeginMember
  BY <1>1, <1>3, <1>4 DEF BeginMember
<1>5. ASSUME NEW m \in Members, ProductExport(m) PROVE Traced'
  BY <1>3, <1>5 DEF ProductExport
<1>6. CASE AddRevision
  BY <1>1, <1>6, TracedStep DEF AddRevision, SnapshotFailure
<1>7. ASSUME NEW s, s # "Error", SetState(turn, s)
      PROVE  \A n \in Members : SnapshotFailure(n)' => SnapshotFailure(n)
  BY <1>1, <1>7 DEF SetState, SnapshotFailure, Known, Typed, TypeOK
<1>8. CASE Compile
  <2>1. \A n \in Members : SnapshotFailure(n)' => SnapshotFailure(n)
    BY <1>7, <1>8 DEF Compile
  <2> QED
    BY <1>1, <1>8, <2>1, TracedStep DEF Compile
<1>9. CASE Validate \/ ReadyUnrecorded
  <2>1. /\ pc = "validate" /\ cand[turn] # 0 /\ cand' = cand
        /\ pc' \in {"idle", "member", "done", "failed"}
        /\ pc' = "failed" => turn' = turn
        /\ pc' = "done" => pkg # 0
    BY <1>1, <1>9 DEF Validate, ReadyUnrecorded, SetState, Known, IInv, Lane, Building
  <2>2. \A n \in Members : SnapshotFailure(n)' => SnapshotFailure(n)
    BY <1>7, <1>9 DEF Validate, ReadyUnrecorded
  <2> QED
    BY <1>1, <2>1, <2>2 DEF SInv, Traced, FailedSnapshotKept
<1>10. CASE ExportFails
  <2>1. /\ UNCHANGED <<trackVars, base, turn>> /\ pc' = "failed"
        /\ cand[turn] # 0 \/ base # 0
    BY <1>1, <1>10 DEF ExportFails, Known, IInv, Lane, Building
  <2> QED
    BY <1>1, <2>1 DEF SInv, Traced, FailedSnapshotKept, SnapshotFailure, trackVars
<1>11. CASE RecordFailure
  <2>1. /\ cand' = cand /\ (cand[turn] # 0 \/ pkg # 0)
        /\ pc' \in {"idle", "member", "done"}
        /\ pc' = "done" => pkg # 0
    BY <1>1, <1>11 DEF RecordFailure, SetState, trackVars, SInv, Traced
  <2>2. \A n \in Members : n # turn => state'[n] = state[n]
    BY <1>1, <1>11 DEF RecordFailure, SetState, trackVars, Known, Typed, TypeOK
  <2> QED
    BY <1>1, <2>1, <2>2 DEF SInv, Traced, FailedSnapshotKept, SnapshotFailure
<1> QED
  BY <1>2, <1>4, <1>5, <1>6, <1>8, <1>9, <1>10, <1>11 DEF Export

LEMMA TracedRest ==
    ASSUME Known, SInv, Delivering \/ Operating \/ Finalizing \/ WorkerCrash \/ UNCHANGED vars
    PROVE  Traced'
<1> USE DEF trackVars, packageVars, jobVars, operatorVars, catalogueVars, rest, LaneFree
<1>1. CASE pc # "idle" /\ (Delivering \/ Operating \/ Finalizing)
  <2>1. /\ UNCHANGED <<cand, pkg, replay, pc, base, turn>>
        /\ \A m \in Members : state'[m] = state[m] \/ state'[m] \in Built
    BY <1>1, Beside
  <2>2. \A m \in Members : SnapshotFailure(m)' => SnapshotFailure(m)
    BY <2>1 DEF SnapshotFailure, Built
  <2> QED
    BY <2>1, <2>2 DEF SInv, Traced, FailedSnapshotKept
<1>2. CASE pc = "idle" /\ (Delivering \/ Operating \/ Finalizing)
  <2>1. pc' = "idle"
    BY <1>2
    DEF Delivering, Reserve, FinishUpload, Reconcile, Acknowledge, Operating, OperatorDiscard,
        ProductDiscard, SetPaused, HoldCheck, HoldSet, ReleaseHold, Finalizing,
        ReadPublication, PublishS128, Complete, finRest
  <2>2. CASE UNCHANGED <<trackVars, pkg, replay>>
    BY <2>1, <2>2, TracedStep DEF SnapshotFailure
  <2>3. ASSUME NEW m, NEW s, s # "Error", SetState(m, s), UNCHANGED <<pkg, replay>>
        PROVE  Traced'
    <3>1. \A n \in Members : SnapshotFailure(n)' => SnapshotFailure(n)
      BY <2>3 DEF SetState, SnapshotFailure, Known, Typed, TypeOK
    <3> QED
      BY <2>1, <2>3, <3>1, TracedStep
  <2>4. ASSUME NEW m \in Members, Reserve(m) PROVE Traced'
    BY <2>3, <2>4 DEF Reserve
  <2>5. ASSUME NEW d \in Deliveries, Reconcile(d) \/ Acknowledge(d) PROVE Traced'
    <3>1. PICK s \in Built : SetState(delivery[d].track, s)
      BY <2>5 DEF Reconcile, Acknowledge, Built
    <3> QED
      BY <2>3, <2>5, <3>1 DEF Reconcile, Acknowledge, Built
  <2>6. ASSUME NEW M, Restore(M), UNCHANGED replay, UNCHANGED pkg \/ M = Members PROVE Traced'
    <3>1. \A m \in Members : SnapshotFailure(m)' => m \notin M /\ SnapshotFailure(m)
      BY <2>6, RestoredOrigins DEF SnapshotFailure
    <3> QED
      BY <2>1, <2>6, <3>1, TracedStep
  <2>7. CASE OperatorDiscard
    BY <2>6, <2>7 DEF OperatorDiscard
  <2>8. ASSUME NEW m \in Members, ProductDiscard(m) PROVE Traced'
    BY <2>6, <2>8 DEF ProductDiscard
  <2>9. CASE Complete
    <3>1. CASE state' = [m \in Members |-> "Idle"] /\ replay'
      BY <2>1, <3>1, TracedStep DEF SnapshotFailure
    <3> QED
      BY <2>2, <2>9, <3>1 DEF Complete
  <2>10. CASE FinishUpload
    BY <2>2, <2>10 DEF FinishUpload
  <2>11. CASE SetPaused \/ HoldSet \/ \E m \in Members : HoldCheck(m) \/ ReleaseHold(m)
    BY <2>2, <2>11 DEF SetPaused, HoldSet, HoldCheck, ReleaseHold
  <2>12. CASE ReadPublication \/ PublishS128
    BY <2>2, <2>12 DEF ReadPublication, PublishS128, finRest
  <2> QED
    BY <1>2, <2>4, <2>5, <2>7, <2>8, <2>9, <2>10, <2>11, <2>12
    DEF Delivering, Operating, Finalizing
<1>3. CASE WorkerCrash
  BY <1>3, TracedStep DEF WorkerCrash, Stop, SnapshotFailure
<1>4. CASE UNCHANGED vars
  BY <1>4 DEF vars, SInv, Traced, FailedSnapshotKept, SnapshotFailure
<1> QED
  BY <1>1, <1>2, <1>3, <1>4

LEMMA ScanAlways == Spec => [](Known /\ SInv)
<1>1. Known /\ SInv /\ [Next]_vars => SInv'
  <2> SUFFICES ASSUME Known, SInv, [Next]_vars PROVE SInv'
    OBVIOUS
  <2>1. Control'
    BY ControlScan, ControlExport, ControlRest DEF Next
  <2>2. BothLocked'
    BY LocksKept
  <2>3. Origins'
    BY OriginsScan, OriginsExport, OriginsRest DEF Next
  <2>4. Prepared'
    BY PreparedScan, PreparedExport, PreparedRest DEF Next
  <2>5. Traced'
    BY TracedScan, TracedExport, TracedRest DEF Next
  <2> QED
    BY <2>1, <2>2, <2>3, <2>4, <2>5 DEF SInv
<1> QED
  BY <1>1, SInitially, PairsAlways, PTL DEF Spec, Known

-----------------------------------------------------------------------------

\* Once the scan has given up the old package, or goes on after a failed
\* snapshot, nothing stops the new package: no operator action, delivery or
\* earlier failure gets in between and leaves the source without one.
THEOREM NewPackageCreated == Spec => []CreateSucceeds
<1>1. ASSUME Known, SInv PROVE CreateSucceeds
  <2>1. ASSUME pc = "create" PROVE CanCreate
    <3>1. pkg = 0 /\ \A m \in Members : Free(m)
      BY <1>1, <2>1 DEF SInv, Prepared
    <3>2. \A m \in Members : StablePrevious(m) /\ (state[m] = "Idle" => prev[m] = None)
      BY <1>1 DEF SInv, Origins, StablePrevious, None
    <3>3. \A m \in Members : ~DeliveryBlocks(m)
      BY <1>1, <3>1, NothingBlocks DEF Free
    <3> QED
      BY <3>1, <3>2, <3>3 DEF Free, CanCreate, Unstarted
  <2>2. ASSUME pc = "acknowledge", SnapshotFailure(turn) PROVE Discardable(turn)
    <3>1. turn \in Members /\ turn \notin hold
      BY <1>1, <2>2 DEF SInv, Prepared, Free, Failed, Known, Typed, TypeOK
    <3>2. StablePrevious(turn) /\ ~DeliveryBlocks(turn)
      BY <1>1, <2>2, <3>1, NothingBlocks
      DEF SInv, Origins, StablePrevious, SnapshotFailure, None
    <3> QED
      BY <2>2, <3>1, <3>2 DEF Discardable, CanDiscard, SnapshotFailure
  <2> QED
    BY <2>1, <2>2 DEF CreateSucceeds
<1> QED
  BY <1>1, ScanAlways, PTL

\* A source without package whose snapshot failed keeps the replay row that
\* makes it eligible for another scan, wherever the scan or the Worker stops.
THEOREM FailedSourceKept == Spec => []FailedSnapshotKept
<1>1. SInv => FailedSnapshotKept
  BY DEF SInv, Traced
<1> QED
  BY <1>1, ScanAlways, PTL
=============================================================================
