------------------------------ MODULE DpcScan -------------------------------
(***************************************************************************)
(* The windows of the change scan (EncPackageDetectionService): which      *)
(* edits of the archive a scan looks at, and what keeps the others for a   *)
(* later one.  A scan that begins at an instant T looks at the edits in    *)
(* (watermark, T] of every source, at the edits since the bound of a       *)
(* source's replay row, and at those since the source's package was built. *)
(* The watermark is one for all sources, so a source whose edits are not   *)
(* dealt with needs a replay row before the watermark moves.               *)
(*                                                                         *)
(* Time counts edits: now is the instant of the last one.  What an archive *)
(* window comes to (a net difference or none, part of the exported         *)
(* selection or not) is a choice.  EncScan models the tracks and the       *)
(* exports of one package; here they are blocked, and built.               *)
(***************************************************************************)
EXTENDS Naturals, FiniteSets

CONSTANTS
    Sources,    \* S-101 products with their S-57 product
    Requested,  \* the sources a package may be requested for
    MaxTime,    \* bound: edits of a behaviour
    MaxStops,   \* bound: scans that end early
    Events,     \* which of the optional events below may happen
    None        \* no value

\* "snapshot" a source snapshot fails; "import" an import cutoff is configured;
\* "discard" operators discard packages; "block" holds come and go while a scan
\* runs.
EventNames == {"snapshot", "import", "discard", "block"}

Times == 0 .. MaxTime
Package == [from : Times, at : Times, built : BOOLEAN]

ASSUME ScanAssumption ==
    /\ MaxTime \in Nat /\ MaxStops \in Nat
    /\ Events \subseteq EventNames /\ Requested \subseteq Sources
    /\ None \notin Sources \cup Nat \cup Package

VARIABLES
    now,        \* the instant of the last edit
    edits,      \* the instants at which each source was edited
    settled,    \* history: edits published, discarded or found to be no change
    watermark,  \* JobRunState: the start of the last complete scan
    baseline,   \* the accepted import cutoff
    pkg,        \* the active package of each source: its window and its members
    row,        \* EncPackageReplay.scan_from_utc
    attempt,    \* EncPackageReplay.last_snapshot_attempt_utc
    blocked,    \* sources with a member on hold, in transit, or unowned
    pc,         \* the job: what it does next
    manual,     \* it is CreateManualAsync
    started,    \* its start
    todo,       \* the sources it has not dealt with
    eligible,   \* the sources whose replay window it looks at
    cur,        \* the source whose Product locks it holds
    from,       \* the lower bound of the package it builds
    retired,    \* the replay bounds it will retire
    stops       \* scans that ended early

archiveVars == <<now, edits, settled>>
rowVars == <<pkg, row, attempt>>
jobVars == <<pc, manual, started, todo, eligible, cur, from, retired>>
vars == <<archiveVars, watermark, baseline, rowVars, blocked, jobVars, stops>>

Later(t, u) == IF t > u THEN t ELSE u

\* The lower bound of an ordinary scan, clamped to the import cutoff.
Since == Later(watermark, baseline)

\* The edits of a source in (lower, started].
Window(s, lower) == {e \in edits[s] : lower < e /\ e <= started}

\* UpsertReplayAsync keeps the older bound.
Marked(s, bound) ==
    [row EXCEPT ![s] = IF @ # None /\ @ < bound THEN @ ELSE bound]

\* Mutant of Bound: only the scan's own bound.
BoundSince(s) == Since

\* The bound a source was looked at from.
Bound(s) == IF row[s] # None THEN row[s] ELSE Since

Idle == pc = "idle"

\* An older version of the program left packages unfinished without a replay row.
Legacy == [from |-> 0, at |-> 0, built |-> FALSE]

Init ==
    /\ now = 0
    /\ edits = [s \in Sources |-> {}] /\ settled = [s \in Sources |-> {}]
    /\ watermark = 0 /\ baseline = 0
    /\ pkg \in [Sources -> {None, Legacy}]
    /\ row = [s \in Sources |-> None] /\ attempt = [s \in Sources |-> None]
    /\ blocked = {}
    /\ pc = "idle" /\ manual = FALSE /\ started = 0
    /\ todo = {} /\ eligible = {} /\ cur = None /\ from = 0
    /\ retired = [s \in Sources |-> None]
    /\ stops = 0

-----------------------------------------------------------------------------
(* What happens beside the scan.                                           *)

Edit(s) ==
    /\ now < MaxTime
    /\ now' = now + 1
    /\ edits' = [edits EXCEPT ![s] = @ \cup {now'}]
    /\ UNCHANGED <<settled, watermark, baseline, rowVars, blocked, jobVars, stops>>

\* Holds need the Product locks; sends and Product exports, the Worker.
Block(s) ==
    /\ Idle \/ ("block" \in Events /\ cur # s)
    /\ blocked' = (blocked \ {s}) \cup ({s} \ blocked)
    /\ UNCHANGED <<archiveVars, watermark, baseline, rowVars, jobVars, stops>>

Settle(s, set) == settled' = [settled EXCEPT ![s] = @ \cup set]

UpTo(s, t) == {e \in edits[s] : e <= t}

\* The finalizer: what came after the snapshot is looked at again.
Publish(s) ==
    /\ Idle
    /\ pkg[s] # None /\ pkg[s].built /\ s \in blocked
    /\ pkg' = [pkg EXCEPT ![s] = None]
    /\ row' = Marked(s, pkg[s].at)
    /\ blocked' = blocked \ {s}
    /\ Settle(s, UpTo(s, pkg[s].at))
    /\ UNCHANGED <<now, edits, watermark, baseline, attempt, jobVars, stops>>

\* An operator's discard, a job of the same Worker, waits for replay.
Discard(s) ==
    /\ "discard" \in Events
    /\ Idle
    /\ pkg[s] # None /\ pkg[s].built /\ s \notin blocked
    /\ row[s] = None
    /\ pkg' = [pkg EXCEPT ![s] = None]
    /\ Settle(s, UpTo(s, pkg[s].at))
    /\ UNCHANGED <<now, edits, watermark, baseline, row, attempt, blocked,
                   jobVars, stops>>

-----------------------------------------------------------------------------
(* The start of both jobs: the import cutoff, and what it makes stale.     *)

Quit ==
    /\ pc' = "idle" /\ manual' = FALSE /\ started' = 0
    /\ todo' = {} /\ eligible' = {} /\ cur' = None /\ from' = 0
    /\ retired' = [s \in Sources |-> None]

\* A later configured cutoff is committed before anything is cleaned up.
Begin(m) ==
    /\ Idle
    /\ m => Requested # {}
    /\ baseline' \in {baseline} \cup
                     (IF "import" \in Events THEN (baseline + 1) .. now ELSE {})
    /\ pc' = "import" /\ manual' = m
    /\ UNCHANGED <<archiveVars, watermark, rowVars, blocked, started, todo,
                   eligible, cur, from, retired, stops>>

Stale(s) == pkg[s] # None /\ pkg[s].from < baseline

\* One refresh discard for each package whose window crosses the cutoff; a
\* protected one ends the job.
DropStale(s) ==
    /\ pc = "import" /\ Stale(s)
    /\ IF s \in blocked
       THEN Quit /\ UNCHANGED rowVars
       ELSE /\ pkg' = [pkg EXCEPT ![s] = None]
            /\ row' = Marked(s, pkg[s].from)
            /\ UNCHANGED <<attempt, jobVars>>
    /\ UNCHANGED <<archiveVars, watermark, baseline, blocked, stops>>

\* Mutant of Rebased: the rows keep their bounds.
RebasedNever(s) == row[s]

Rebased(s) == IF row[s] = None THEN None ELSE Later(row[s], baseline)

\* RebaseReplayAsync; then the job reads its clock.
RebaseReplay ==
    /\ pc = "import" /\ \A s \in Sources : ~Stale(s)
    /\ row' = [s \in Sources |-> Rebased(s)]
    /\ attempt' = [s \in Sources |->
                    IF row[s] # None /\ attempt[s] # None
                       /\ (row[s] < baseline \/ attempt[s] < baseline)
                    THEN None ELSE attempt[s]]
    /\ started' = now
    /\ pc' = IF manual THEN "take" ELSE "mark"
    /\ UNCHANGED <<archiveVars, watermark, baseline, pkg, blocked, manual, todo,
                   eligible, cur, from, retired, stops>>

-----------------------------------------------------------------------------
(* The plan of a scan.                                                     *)

Unmarked(s) ==
    pkg[s] # None /\ ~pkg[s].built /\ row # Marked(s, pkg[s].from)

\* GetIncompleteSourceNamesAsync: an unfinished package is replayed.
MarkIncomplete(s) ==
    /\ pc = "mark" /\ Unmarked(s)
    /\ row' = Marked(s, pkg[s].from)
    /\ UNCHANGED <<archiveVars, watermark, baseline, pkg, attempt, blocked,
                   jobVars, stops>>

\* The sources with edits, and those with a replay row and free tracks.
Plan ==
    /\ pc = "mark" /\ \A s \in Sources : ~Unmarked(s)
    /\ eligible' = {s \in Sources : row[s] # None /\ s \notin blocked}
    /\ todo' = eligible' \cup {s \in Sources : Window(s, Since) # {}}
    /\ pc' = "each"
    /\ UNCHANGED <<archiveVars, watermark, baseline, rowVars, blocked, manual,
                   started, cur, from, retired, stops>>

-----------------------------------------------------------------------------
(* One source.                                                             *)

Turn(s) == pc = "each" /\ s \in todo

Finished(s) ==
    /\ pc' = "each" /\ todo' = todo \ {s} /\ cur' = None
    /\ UNCHANGED <<manual, started, eligible, from>>

\* Since the last attempt at a snapshot failed, no other has been built.
Dormant(s) ==
    attempt[s] # None /\ (pkg[s] # None => pkg[s].at <= attempt[s])

Awake(s) == Dormant(s) => Window(s, attempt[s]) # {}

\* The archive has nothing new that matters since the failed attempt.
Skip(s) ==
    /\ Turn(s) /\ Dormant(s)
    /\ Finished(s)
    /\ UNCHANGED <<archiveVars, watermark, baseline, rowVars, blocked, retired,
                   stops>>

\* Mutant of Defer: a source that cannot be dealt with is only skipped.
DeferSilently(s) ==
    /\ Turn(s) /\ Awake(s)
    /\ s \in blocked
    /\ Finished(s)
    /\ UNCHANGED <<archiveVars, watermark, baseline, rowVars, blocked, retired,
                   stops>>

Defer(s) ==
    /\ Turn(s) /\ Awake(s)
    /\ s \in blocked
    /\ row' = Marked(s, Bound(s))
    /\ Finished(s)
    /\ UNCHANGED <<archiveVars, watermark, baseline, pkg, attempt, blocked,
                   retired, stops>>

\* The lower bound of the edits the plan has collected for a source.
Lower(s) == IF s \in eligible THEN row[s] ELSE Since

\* The edits that decide whether there is anything to build.
Looked(s) ==
    IF pkg[s] # None THEN Window(s, pkg[s].at) ELSE Window(s, Lower(s))

\* TryQueueMissingMembersAsync, which marks replay for unfinished members.
Queued(s) ==
    IF pkg[s] # None /\ ~pkg[s].built THEN Marked(s, pkg[s].from) ELSE row

\* RecoverIncompletePackageAsync: the package's members are finished.
Completed(s) == [pkg EXCEPT ![s] = IF @ = None THEN None ELSE [@ EXCEPT !.built = TRUE]]

\* No net difference: nothing is built but what the package still misses.
Quiet(s) ==
    /\ Turn(s) /\ Awake(s)
    /\ s \notin blocked
    /\ pkg' = Completed(s)
    /\ row' = Queued(s)
    /\ retired' = [retired EXCEPT ![s] = Bound(s)]
    /\ Settle(s, Looked(s))
    /\ Finished(s)
    /\ UNCHANGED <<now, edits, watermark, baseline, attempt, blocked, stops>>

Look(s) ==
    /\ Turn(s) /\ Awake(s)
    /\ s \notin blocked
    /\ Looked(s) # {}
    /\ row' = Queued(s)
    /\ from' = IF pkg[s] # None THEN pkg[s].from ELSE Bound(s)
    /\ cur' = s /\ pc' = "snapshot"
    /\ UNCHANGED <<archiveVars, watermark, baseline, pkg, attempt, blocked,
                   manual, started, todo, eligible, retired, stops>>

\* CreateManualAsync: no package, free tracks, and the older of its bounds.
Take(s) ==
    /\ pc = "take" /\ s \in Requested
    /\ IF pkg[s] # None \/ s \in blocked
       THEN Quit
       ELSE /\ from' = Later(baseline, IF row[s] # None /\ row[s] < watermark
                                       THEN row[s] ELSE watermark)
            /\ cur' = s /\ pc' = "snapshot"
            /\ UNCHANGED <<manual, started, todo, eligible, retired>>
    /\ UNCHANGED <<archiveVars, watermark, baseline, rowVars, blocked, stops>>

-----------------------------------------------------------------------------
(* The source snapshot and what follows from it.                           *)

\* What comes next when a source has been dealt with.
Leave(bound) ==
    IF manual THEN Quit
    ELSE /\ Finished(cur)
         /\ retired' = [retired EXCEPT ![cur] = bound]

\* RecordSourceSnapshotFailureAsync: replay first, then the error histories,
\* then the attempt that keeps later scans from repeating it.
SnapshotFails ==
    /\ "snapshot" \in Events
    /\ pc = "snapshot"
    /\ row' = Marked(cur, from)
    /\ pc' = "failed"
    /\ UNCHANGED <<archiveVars, watermark, baseline, pkg, attempt, blocked,
                   manual, started, todo, eligible, cur, from, retired, stops>>

RecordFailure ==
    /\ pc = "failed"
    /\ attempt' = [attempt EXCEPT ![cur] = IF @ = None THEN started
                                           ELSE Later(@, started)]
    /\ Leave(retired[cur])
    /\ UNCHANGED <<archiveVars, watermark, baseline, pkg, row, blocked, stops>>

\* The edits do not touch the exported selection.
Irrelevant ==
    /\ pc = "snapshot" /\ pkg[cur] # None
    /\ pkg' = Completed(cur)
    /\ Settle(cur, Looked(cur))
    /\ Leave(Bound(cur))
    /\ UNCHANGED <<now, edits, watermark, baseline, row, attempt, blocked, stops>>

\* DiscardForRefreshAsync; the bound is kept in the same transaction.
Dropped ==
    /\ pkg' = [pkg EXCEPT ![cur] = None]
    /\ row' = IF pkg[cur] = None THEN row ELSE Marked(cur, from)

\* The source is back where its window began.
Cancel ==
    /\ pc = "snapshot" /\ ~manual
    /\ Dropped
    /\ Settle(cur, Window(cur, IF pkg[cur] # None THEN from ELSE Lower(cur)))
    /\ Leave(from)
    /\ UNCHANGED <<now, edits, watermark, baseline, attempt, blocked, stops>>

Replace ==
    /\ pc = "snapshot" /\ pkg[cur] # None
    /\ Dropped
    /\ pc' = "create"
    /\ UNCHANGED <<archiveVars, watermark, baseline, attempt, blocked, manual,
                   started, todo, eligible, cur, from, retired, stops>>

\* TryCreatePendingAsync: the package, its queued members and the replay row.
Create ==
    /\ pc = "create" \/ (pc = "snapshot" /\ pkg[cur] = None)
    /\ pkg' = [pkg EXCEPT ![cur] =
                [from |-> from, at |-> started, built |-> FALSE]]
    /\ row' = Marked(cur, from)
    /\ pc' = "build"
    /\ UNCHANGED <<archiveVars, watermark, baseline, attempt, blocked, manual,
                   started, todo, eligible, cur, from, retired, stops>>

Build ==
    /\ pc = "build"
    /\ pkg' = Completed(cur)
    /\ Leave(from)
    /\ UNCHANGED <<archiveVars, watermark, baseline, row, attempt, blocked, stops>>

-----------------------------------------------------------------------------
(* The end of a scan.                                                      *)

Complete ==
    /\ pc = "each" /\ todo = {}
    /\ watermark' = started
    /\ pc' = "retire"
    /\ UNCHANGED <<archiveVars, baseline, rowVars, blocked, manual, started,
                   todo, eligible, cur, from, retired, stops>>

SameBound(s) == row[s] = retired[s]

\* RetireReplayAsync deletes the row if its bound is the one looked at.
Retire(s) ==
    /\ pc = "retire" /\ retired[s] # None
    /\ row' = [row EXCEPT ![s] = IF SameBound(s) THEN None ELSE @]
    /\ attempt' = [attempt EXCEPT ![s] = IF SameBound(s) THEN None ELSE @]
    /\ retired' = [retired EXCEPT ![s] = None]
    /\ UNCHANGED <<archiveVars, watermark, baseline, pkg, blocked, pc, manual,
                   started, todo, eligible, cur, from, stops>>

End ==
    /\ pc = "retire" /\ \A s \in Sources : retired[s] = None
    /\ Quit
    /\ UNCHANGED <<archiveVars, watermark, baseline, rowVars, blocked, stops>>

\* A lock is busy, the archive cannot be read, the Worker dies.
Stop ==
    /\ ~Idle /\ stops < MaxStops
    /\ stops' = stops + 1
    /\ Quit
    /\ UNCHANGED <<archiveVars, watermark, baseline, rowVars, blocked>>

-----------------------------------------------------------------------------
Step ==
    \/ RebaseReplay \/ Plan \/ RecordFailure \/ Replace \/ Build \/ Complete \/ End
    \/ SnapshotFails \/ Irrelevant \/ Cancel \/ Create
    \/ \E s \in Sources :
        \/ DropStale(s) \/ MarkIncomplete(s) \/ Take(s) \/ Retire(s)
        \/ Skip(s) \/ Defer(s) \/ Quiet(s) \/ Look(s)

Next ==
    \/ \E s \in Sources : Edit(s) \/ Block(s) \/ Publish(s) \/ Discard(s)
    \/ \E m \in BOOLEAN : Begin(m)
    \/ Step
    \/ Stop

Spec == Init /\ [][Next]_vars

\* Hangfire queues the recurring scan behind the jobs it already has, so one runs
\* again and again, and a job that runs goes on.
FairSpec == Spec /\ SF_vars(Begin(FALSE)) /\ WF_vars(Step)
-----------------------------------------------------------------------------
\* Every variable has its type, and windows and attempts are not upside down.
TypeOK ==
    /\ now \in Times /\ watermark \in 0 .. now /\ baseline \in 0 .. now
    /\ \A s \in Sources : settled[s] \subseteq edits[s] /\ edits[s] \subseteq 1 .. now
    /\ pkg \in [Sources -> Package \cup {None}]
    /\ \A s \in Sources : pkg[s] # None => pkg[s].from <= pkg[s].at
    /\ row \in [Sources -> Times \cup {None}]
    /\ \A s \in Sources :
        attempt[s] # None => row[s] # None /\ row[s] <= attempt[s] /\ attempt[s] <= now
    /\ retired \in [Sources -> Times \cup {None}]
    /\ eligible \cup todo \cup blocked \subseteq Sources

\* No edit is lost: one that the watermark has passed is in the window of its
\* source's package, or a replay row will bring it back, unless it was
\* published, discarded with its package, or found to change nothing.  This
\* holds when the Worker dies between the watermark and the rows, when
\* snapshots fail, and when a source is blocked while others go on.
EditsKept ==
    \A s \in Sources : \A e \in edits[s] \ settled[s] :
        baseline < e /\ e <= watermark =>
            \/ row[s] # None /\ row[s] < e
            \/ pkg[s] # None /\ pkg[s].from < e /\ e <= pkg[s].at

\* Once a job has dealt with the import cutoff, no package and no replay row
\* reaches back behind it, although an earlier job died in the middle.
ImportExcluded ==
    pc \notin {"idle", "import"} =>
        \A s \in Sources :
            /\ pkg[s] # None => pkg[s].from >= baseline
            /\ row[s] # None => row[s] >= baseline

\* A replay row does not stay for ever, so an operator's discard is not refused
\* for ever: unless the source is blocked, or waits for an edit after a snapshot
\* that failed, or a protected package crosses the import cutoff, a scan retires
\* it.
ReplayEnds ==
    \A s \in Sources :
        <>[](\A u \in blocked : u # s /\ ~Stale(u))
            => []<>(row[s] = None \/ attempt[s] # None)
=============================================================================
